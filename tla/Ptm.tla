---------------------------------- MODULE Ptm ----------------------------------
(***************************************************************************)
(* The partition table manager (ptm.c): PTM_Init looks for a valid copy of *)
(* the partition table, PTM_LoadImg walks its entries for an application   *)
(* partition whose image table lists the image, and reads that image.      *)
(*                                                                         *)
(* A table is a header, with the error detection code of the entries, and  *)
(* the entries. Each part is the version it belongs to, or Bad: blank,     *)
(* torn, inconsistent sizes, or a buffer that was overwritten in part.     *)
(* Tables carry a code and list something: a header that announces no      *)
(* entries is as Bad, as flash_read refuses to read none of them. An image *)
(* may carry no code. A code never matches by accident. The buffers of     *)
(* ptm.c are static and keep what was read last.                           *)
(***************************************************************************)
EXTENDS Integers, Sequences, FiniteSets

CONSTANTS
  NumPtCopies,        \* NUM_PT_COPIES, at the one lookup address of ee_board.c
  Lists,              \* the partitions a version of the partition table lists
  AppParts, SkippedParts, \* by their ids and flags in it
  ImgSize, BufSize,   \* of the wanted image in a version of an image table
  Listing, Coded,     \* versions that list it; in which it carries a code
  PtContents, PartContents \* what a copy, and what a partition, may hold

Bad == "bad"
ASSUME PtmAssumption ==
  /\ NumPtCopies \in Nat \ {0} /\ BufSize \in Nat
  /\ Bad \notin DOMAIN Lists \cup DOMAIN ImgSize
  /\ \A t \in DOMAIN Lists : DOMAIN Lists[t] = 1 .. Len(Lists[t]) /\ Len(Lists[t]) \in Nat \ {0}
  /\ Listing \subseteq DOMAIN ImgSize
  /\ PtContents \subseteq [hdr : DOMAIN Lists \cup {Bad}, ent : DOMAIN Lists \cup {Bad}]
  /\ PartContents \subseteq
       [hdr : DOMAIN ImgSize \cup {Bad}, ent : DOMAIN ImgSize \cup {Bad},
        img : DOMAIN ImgSize \cup {Bad}]

VARIABLES
  ptCopies, parts,       \* the flash
  ptmPc, ptmState, lookupAt, ptTbl, imgTbl, entryAt, \* PTM_Comp, and the loops
  loaded, loadResult,    \* the caller's buffer, and what the last load returned
  readTrouble            \* history: some read failed or was short

ptmVars == <<ptCopies, parts, ptmPc, ptmState, lookupAt, ptTbl, imgTbl, entryAt,
             loaded, loadResult, readTrouble>>
ptmStore == <<ptCopies, parts>>
searchVars == <<ptmState, lookupAt, ptTbl>>
loadVars == <<imgTbl, entryAt, loaded, loadResult>>

PtmInitState ==
  /\ ptCopies \in [1 .. NumPtCopies -> PtContents]
  /\ parts \in [AppParts \ SkippedParts -> PartContents] \* nothing else is read
  /\ ptmPc = "start" /\ ptmState = "uninit" /\ lookupAt = 1 /\ entryAt = 1
  /\ ptTbl = [hdr |-> Bad, ent |-> Bad] /\ imgTbl = [hdr |-> Bad, ent |-> Bad]
  /\ loaded = Bad /\ loadResult = "none" /\ readTrouble = FALSE

\* raf_read into a buffer that holds old. It fails before the first word or after
\* any; and a session that ends early, FIFO empty and not busy, returns ERR_OK.
RafRead(old, new) == [ok : BOOLEAN, got : {old, Bad, new}]
\* flash_read and qspiflash_read: other modes, and bad arguments, fail at once.
FlashRead(old, new) == RafRead(old, new) \cup {[ok |-> FALSE, got |-> old]}
Clean(r, new) == r.ok /\ r.got = new

\* A header and, if it is valid, the entries: what is in the buffer then, whether
\* it is valid, and whether the reads were clean.
TableReads(old, new) ==
  {[tbl |-> [hdr |-> h.got, ent |-> old.ent], valid |-> FALSE, clean |-> Clean(h, new.hdr)] :
     h \in {r \in FlashRead(old.hdr, new.hdr) : ~r.ok \/ r.got = Bad}}
  \cup
  {[tbl |-> [hdr |-> h.got, ent |-> e.got], valid |-> e.ok /\ e.got = h.got,
    clean |-> Clean(h, new.hdr) /\ Clean(e, new.ent)] :
     h \in {r \in FlashRead(old.hdr, new.hdr) : r.ok /\ r.got # Bad},
     e \in FlashRead(old.ent, new.ent)}

\* flash_present, first in PTM_Init: without the device, or with another id in it,
\* the state stays UNINIT.
FlashPresent ==
  /\ ptmPc = "start"
  /\ \/ ptmPc' = "search" /\ UNCHANGED readTrouble
     \/ ptmPc' = "ready" /\ readTrouble' = TRUE
  /\ UNCHANGED <<ptmStore, searchVars, loadVars>>

\* Mutant of NextCopy.
NextCopyStopsShort == \* the last copy is not tried
  IF lookupAt + 1 < NumPtCopies
  THEN lookupAt' = lookupAt + 1 /\ UNCHANGED <<ptmPc, ptmState>>
  ELSE lookupAt' = lookupAt /\ ptmPc' = "ready" /\ ptmState' = "error"

\* flashAddr += PT_SIZE; ERROR after the last one.
NextCopy ==
  IF lookupAt < NumPtCopies
  THEN lookupAt' = lookupAt + 1 /\ UNCHANGED <<ptmPc, ptmState>>
  ELSE lookupAt' = lookupAt /\ ptmPc' = "ready" /\ ptmState' = "error"

TryCopy ==
  /\ ptmPc = "search"
  /\ \E r \in TableReads(ptTbl, ptCopies[lookupAt]) :
       /\ ptTbl' = r.tbl
       /\ readTrouble' = (readTrouble \/ ~r.clean)
       /\ IF r.valid THEN ptmPc' = "ready" /\ ptmState' = "idle" /\ UNCHANGED lookupAt
                     ELSE NextCopy
  /\ UNCHANGED <<ptmStore, loadVars>>

\* PTM_LoadImg. The updater asks once, other users of the interface may ask again.
LoadImg ==
  /\ ptmPc = "ready"
  /\ entryAt' = 1
  /\ IF ptmState = "idle"
     THEN ptmPc' = "walk" /\ loadResult' = "none"
     ELSE loadResult' = "error" /\ UNCHANGED ptmPc
  /\ UNCHANGED <<ptmStore, searchVars, imgTbl, loaded, readTrouble>>

Entry == Lists[ptTbl.ent][entryAt]
AtEntry == ptmPc = "walk" /\ entryAt <= Len(Lists[ptTbl.ent])
Eligible(p) == p \in AppParts \ SkippedParts

PassEntry ==
  /\ AtEntry /\ ~Eligible(Entry)
  /\ entryAt' = entryAt + 1
  /\ UNCHANGED <<ptmStore, ptmPc, searchVars, imgTbl, loaded, loadResult, readTrouble>>

\* Its image table is read over the one before; it is the one if it lists the image.
TryEntry ==
  /\ AtEntry /\ Eligible(Entry)
  /\ \E r \in TableReads(imgTbl, [hdr |-> parts[Entry].hdr, ent |-> parts[Entry].ent]) :
       /\ imgTbl' = r.tbl
       /\ readTrouble' = (readTrouble \/ ~r.clean)
       /\ IF r.valid /\ r.tbl.ent \in Listing
          THEN ptmPc' = "image" /\ UNCHANGED entryAt
          ELSE entryAt' = entryAt + 1 /\ UNCHANGED ptmPc
  /\ UNCHANGED <<ptmStore, searchVars, loaded, loadResult>>

\* Not found: from then on every load is refused.
WalkEnds ==
  /\ ptmPc = "walk" /\ entryAt > Len(Lists[ptTbl.ent])
  /\ ptmPc' = "ready" /\ ptmState' = "error" /\ loadResult' = "error"
  /\ UNCHANGED <<ptmStore, lookupAt, ptTbl, imgTbl, entryAt, loaded, readTrouble>>

SizeFits(v) == ImgSize[v] \in 1 .. BufSize

\* Mutant of CodeHolds.
CodeHoldsAlways(v, got) == TRUE \* the image is not validated

CodeHolds(v, got) == v \in Coded => got = v

\* PTM_ReadAndValidateImg, at the offset the table in memory gives.
ReadImg ==
  /\ ptmPc = "image" /\ ptmPc' = "ready"
  /\ LET v == imgTbl.ent
         new == IF parts[Entry].img = v THEN v ELSE Bad
     IN \/ ~SizeFits(v) /\ loadResult' = "error" /\ UNCHANGED <<loaded, readTrouble>>
        \/ /\ SizeFits(v)
           /\ \E r \in FlashRead(loaded, new) :
                /\ loaded' = r.got
                /\ loadResult' = IF r.ok /\ CodeHolds(v, r.got) THEN "ok" ELSE "error"
                /\ readTrouble' = (readTrouble \/ ~Clean(r, new))
  /\ UNCHANGED <<ptmStore, searchVars, imgTbl, entryAt>>

PtmNext ==
  FlashPresent \/ TryCopy \/ LoadImg \/ PassEntry \/ TryEntry \/ WalkEnds \/ ReadImg
PtmSpec == PtmInitState /\ [][PtmNext]_ptmVars

-----------------------------------------------------------------------------
\* Through failing and short reads into buffers that keep older tables: a load that
\* returns ERR_OK of an image with a code has delivered a whole image that a
\* partition of the table holds, by an image table and a partition table that are
\* each of one piece.
LoadedWhole ==
  loadResult = "ok" /\ imgTbl.ent \in Coded =>
    /\ loaded = imgTbl.ent /\ imgTbl.hdr = imgTbl.ent /\ loaded \in Listing
    /\ ptTbl.hdr = ptTbl.ent /\ \E c \in DOMAIN ptCopies : ptCopies[c].ent = ptTbl.ent
    /\ \E i \in DOMAIN Lists[ptTbl.ent] :
         Eligible(Lists[ptTbl.ent][i]) /\ parts[Lists[ptTbl.ent][i]].img = loaded

\* What a load returns while reads are clean: the first intact copy of the table, in
\* it the first partition with an intact table that lists the image, its image.
First(S) == CHOOSE i \in S : \A j \in S : i <= j
WholeCopies == {c \in DOMAIN ptCopies : ptCopies[c].hdr = ptCopies[c].ent /\ ptCopies[c].ent # Bad}
Candidates(list) ==
  {i \in DOMAIN list : /\ Eligible(list[i]) /\ parts[list[i]].hdr = parts[list[i]].ent
                       /\ parts[list[i]].ent \in Listing}
Loadable ==
  /\ WholeCopies # {}
  /\ LET list == Lists[ptCopies[First(WholeCopies)].ent]
     IN /\ Candidates(list) # {}
        /\ LET p == parts[list[First(Candidates(list))]]
           IN SizeFits(p.ent) /\ CodeHolds(p.ent, p.img)

\* While no read was short or failed, a load succeeds exactly when it can: no damage
\* to other copies, to other partitions or left in the buffers makes it fail, and
\* asking again changes nothing.
FoundIfIntact == loadResult # "none" /\ ~readTrouble => (loadResult = "ok") = Loadable
=============================================================================
