----------------------------- MODULE FlashUpdater -----------------------------
(***************************************************************************)
(* The updater of user partitions (flash_updater.c) over the flash driver  *)
(* (flash.c, qspi_flash.c) and the device. A type of partition has one or  *)
(* more copies; the first is rewritten, the last is never written.         *)
(*                                                                         *)
(* The flash is an array of units. A copy is a header, then data; a chunk  *)
(* of data the updater writes is not aligned to a page of the device and   *)
(* takes two units, one for each page it lies in (the last may need one).  *)
(* A unit holds what belongs to an image, or Blank, or Torn; a header that *)
(* was torn but still reads as a header is Skew. A CRC never matches by    *)
(* accident. Power may fail between any two operations of the device, each *)
(* of which may stop half way; one client calls the updater.               *)
(*                                                                         *)
(* A read may fail, be whole, or be short and return ERR_OK (raf_read),    *)
(* with the rest of the buffer as it was. What is found there can then     *)
(* make a copy valid that is not, or confirm a write that was not made:    *)
(* misread tells that it has. Reading is what whole reads give. A short one*)
(* takes nothing more from fup_get_prt_data than a copy: the buffer is     *)
(* filled with 0xFF first.                                                 *)
(***************************************************************************)
EXTENDS Integers, Sequences, FiniteSets

CONSTANTS
  Table,       \* the partition table: the type of each entry, in flash order
  CopyUnits, SectorUnits,
  Images, ImageUnits \* the images, and the units their data takes

NoImage == "none"
ASSUME FlashAssumption ==
  /\ DOMAIN Table = 1 .. Len(Table) /\ Len(Table) \in Nat \ {0}
  /\ SectorUnits \in Nat \ {0} /\ CopyUnits \in Nat \ {0}
  /\ \E k \in 1 .. CopyUnits : CopyUnits = k * SectorUnits
  /\ ImageUnits \in [Images -> Nat \ {0}]
  /\ Images \cap {NoImage, "blank", "torn", "skew", "old"} = {}

VARIABLES
  flash,
  fupUp, tableLoaded, validBits, \* FUP_Comp, without the table
  fupPc, updType, updImage, updAt, \* fup_update_prt_data, and how far it is
  owed,        \* history: what a reader of each type may be given
  misread      \* history: a short read has passed for a whole one

fupVars == <<flash, fupUp, tableLoaded, validBits, fupPc, updType, updImage, updAt, owed,
             misread>>
bootVars == <<fupUp, tableLoaded, validBits>>
updVars == <<updType, updImage>>

Types == {Table[e] : e \in DOMAIN Table}
Units == 0 .. CopyUnits * Len(Table) - 1

\* Entry e begins at Base(e). FUP_GetUsrPrtInfo: the entries of a type in order.
Base(e) == CopyUnits * (e - 1)
Entries(t) == {e \in DOMAIN Table : Table[e] = t}
FirstOf(t) == CHOOSE e \in Entries(t) : \A f \in Entries(t) : e <= f

\* FUP_GetUsrPrtHdr on an intact read; FUP_GetUsrPrtData: header and CRC.
HdrReadable(fl, e) == fl[Base(e)] \in Images \cup {"skew"}
CopyValid(fl, e) ==
  LET img == fl[Base(e)] IN
  img \in Images /\ \A u \in 1 .. ImageUnits[img] : fl[Base(e) + u] = img

\* fup_get_prt_data: the first copy that is valid, of those in es.
ImageOf(fl, es) ==
  LET good == {e \in es : CopyValid(fl, e)}
  IN IF good = {} THEN NoImage
     ELSE fl[Base(CHOOSE e \in good : \A f \in good : e <= f)]
Reading(t) == ImageOf(flash, Entries(t))
Backup(t) == ImageOf(flash, Entries(t) \ {FirstOf(t)})

\* Flash as it may be delivered: whole images and blank copies.
FlashWith(content) ==
  [u \in Units |-> LET e == u \div CopyUnits + 1 IN
     IF content[e] = NoImage \/ u - Base(e) > ImageUnits[content[e]] THEN "blank" ELSE content[e]]
FupInit ==
  /\ \E content \in [DOMAIN Table -> {i \in Images : ImageUnits[i] < CopyUnits} \cup {NoImage}] :
       flash = FlashWith(content)
  /\ fupUp = FALSE /\ tableLoaded = FALSE /\ validBits = [t \in Types |-> {}]
  /\ fupPc = "idle" /\ updType = Table[1] /\ updImage = NoImage /\ updAt = 0
  /\ owed = [t \in Types |-> {Reading(t)}] /\ misread = FALSE

\* FUP_ValidatePrt runs over as many copies as the table has entries. Beyond the
\* last of the type it reads that one again: the address is not written then.
PassReads(t, i, e) ==
  LET upto == Cardinality({f \in Entries(t) : f <= e})
  IN upto = i \/ (upto < i /\ upto = Cardinality(Entries(t)))

\* The bits that whole reads set.
SoundBits(t) ==
  {i \in DOMAIN Table : \E e \in Entries(t) : PassReads(t, i, e) /\ CopyValid(flash, e)}

\* Turn i may find unit u of img where an earlier one, or the pass over the other type,
\* left it: prtHdr is one variable of all turns, and FUP_Buf holds the last chunk, with
\* what a longer one before it left behind. Of more than two chunks that is another
\* one than the first, and the CRC fails.
LeftOver(t, i, img, u) ==
  /\ u = 0 \/ ImageUnits[img] <= 3
  /\ \E f \in DOMAIN Table :
       /\ Table[f] # t \/ \E j \in 1 .. i - 1 : PassReads(t, j, f)
       /\ flash[Base(f) + u] = img

\* The bits that reads can set of which some are short.
StaleBits(t) ==
  {i \in DOMAIN Table :
     \E e \in Entries(t), img \in Images :
       /\ PassReads(t, i, e) /\ ImageUnits[img] < CopyUnits
       /\ \A u \in 0 .. ImageUnits[img] : flash[Base(e) + u] = img \/ LeftOver(t, i, img, u)}

\* A read that fails, or that leaves anything else in the buffer, leaves the bit clear.
ValidatePrt(t) == SUBSET (SoundBits(t) \cup StaleBits(t))

\* PTM_LoadImg (module Ptm) delivers the whole table, or fails.
GetUsrPrtTbl == tableLoaded' \in BOOLEAN

\* fup_init: no device (flash_present) leaves it down, no table leaves it empty.
Boot ==
  /\ ~fupUp /\ fupUp' = TRUE
  /\ GetUsrPrtTbl
  /\ IF tableLoaded'
     THEN /\ validBits' \in [Types -> SUBSET DOMAIN Table]
          /\ \A t \in Types : validBits'[t] \in ValidatePrt(t)
          /\ misread' = (misread \/ \E t \in Types : ~(validBits'[t] \subseteq SoundBits(t)))
     ELSE UNCHANGED <<validBits, misread>>
  /\ UNCHANGED <<flash, fupPc, updVars, updAt, owed>>

\* Power fails; FUP_Comp is static data.
PowerFails ==
  /\ fupUp
  /\ fupUp' = FALSE /\ tableLoaded' = FALSE /\ validBits' = [t \in Types |-> {}]
  /\ fupPc' = "idle" /\ updAt' = 0
  /\ UNCHANGED <<flash, updVars, owed, misread>>

\* prtCnt counts entries of the whole table, once the type has one.
PrtCnt(t) == IF tableLoaded THEN Len(Table) ELSE 0
IsLast(t, i) == i = Cardinality(Entries(t))

\* Mutant of Allowed.
AllowedByAnyBit(t) == \* the mask of the first copy is forgotten
  /\ fupUp /\ PrtCnt(t) >= 2 /\ validBits[t] # {}
  /\ \E e \in Entries(t) : HdrReadable(flash, e)
  /\ ~IsLast(t, 1)

\* fup_update_prt_data up to the size: another copy is valid, some header is a
\* template (a read that fails is as a header that does not read; size and CRC of the
\* template are replaced), and the first copy is not the last.
Allowed(t) ==
  /\ fupUp /\ PrtCnt(t) >= 2 /\ validBits[t] \ {1} # {}
  /\ \E e \in Entries(t) : HdrReadable(flash, e)
  /\ ~IsLast(t, 1)

UpdatePrtData(t, img) ==
  /\ fupPc = "idle" /\ Allowed(t)
  /\ CopyUnits - 1 >= ImageUnits[img]
  /\ updType' = t /\ updImage' = img /\ updAt' = 0 /\ fupPc' = "erase"
  /\ owed' = [owed EXCEPT ![t] = {Reading(t), Backup(t), img} \ {NoImage}]
  /\ UNCHANGED <<flash, bootVars, misread>>

\* The call returns: with an error, or with ERR_OK.
Fail == fupPc' = "idle" /\ updAt' = 0 /\ owed' = owed
Stored == fupPc' = "idle" /\ updAt' = 0 /\ owed' = [owed EXCEPT ![updType] = {updImage}]
Goto(pc, at) == fupPc' = pc /\ updAt' = at /\ owed' = owed

\* qspiflash_(sub)sector_erase: done, or stopped anywhere by a transfer that
\* timed out. FUP_ErasePrt goes on to the next sector only when it was done.
Dest == Base(FirstOf(updType))
Erased(from, hdr, rest) ==
  [u \in Units |-> IF u \notin from .. from + SectorUnits - 1 THEN flash[u]
                   ELSE LET new == IF u = Dest THEN hdr ELSE rest
                        IN IF new = "old" THEN flash[u] ELSE new]
ErasePrt ==
  /\ fupPc = "erase"
  /\ LET from == Dest + updAt
         next == updAt + SectorUnits
     IN \/ /\ flash' = Erased(from, "blank", "blank")
           /\ IF next = CopyUnits THEN Goto("header", 0) ELSE Goto("erase", next)
        \/ /\ \E hdr \in {"old", "blank", "torn", "skew"}, rest \in {"old", "blank", "torn"} :
                flash' = Erased(from, hdr, rest)
           /\ Fail
  /\ UNCHANGED <<bootVars, updVars, misread>>

\* qspiflash_page_write: the unit ends as it was, programmed or torn, whether or
\* not a transfer failed; an error after the last byte changes nothing.
PageWrite(u, tears) ==
  \E c \in {flash[u], updImage} \cup tears : flash' = [flash EXCEPT ![u] = c]

\* FUP_WritePrt: the header, ...
WriteHeader ==
  /\ fupPc = "header"
  /\ PageWrite(Dest, {"torn", "skew"})
  /\ Goto("checkHeader", 0) \/ Fail
  /\ UNCHANGED <<bootVars, updVars, misread>>

\* What is read back compares equal: as it is stored, or because of what a short read
\* left in the buffer, which is on the stack and not initialised.
Confirmed(stored) == misread' = (misread \/ ~stored)

\* ... read back and compared, ...
CheckHeader ==
  /\ fupPc = "checkHeader"
  /\ \/ Fail /\ UNCHANGED misread
     \/ Confirmed(flash[Dest] = updImage) /\ Goto("data", 1)
  /\ UNCHANGED <<flash, bootVars, updVars>>

\* ... then chunks of two units. flash_write goes on after a page that failed and
\* returns what the last one did.
LastUnit == ImageUnits[updImage]
Even(n) == n % 2 = 0
WriteData ==
  /\ fupPc = "data"
  /\ PageWrite(Dest + updAt, {"torn"})
  /\ IF Even(updAt) \/ updAt = LastUnit
     THEN Goto("checkData", updAt) \/ Fail
     ELSE Goto("data", updAt + 1)
  /\ UNCHANGED <<bootVars, updVars, misread>>

\* memcmp of the chunk that ends at unit at
ChunkStored(at) ==
  \A u \in (IF Even(at) THEN {at - 1, at} ELSE {at}) : flash[Dest + u] = updImage

CheckData ==
  /\ fupPc = "checkData"
  /\ \/ Fail /\ UNCHANGED misread
     \/ /\ Confirmed(ChunkStored(updAt))
        /\ IF updAt = LastUnit THEN Stored ELSE Goto("data", updAt + 1)
  /\ UNCHANGED <<flash, bootVars, updVars>>

FupNext ==
  \/ Boot \/ PowerFails
  \/ \E t \in Types, img \in Images : UpdatePrtData(t, img)
  \/ ErasePrt \/ WriteHeader \/ CheckHeader \/ WriteData \/ CheckData
FupSpec == FupInit /\ [][FupNext]_fupVars

-----------------------------------------------------------------------------
\* At every moment, through failing operations, power failures and retries, a
\* reader is given a whole image it may expect: after an update that returned
\* ERR_OK the new one, from then to the next as during it the one it had, the one
\* of another copy or the new one. What could be read before is never lost. This
\* holds until a short read passes for a whole one: then an update may have run
\* without a copy to fall back to, or have returned ERR_OK for what is not stored.
ImageKept == ~misread => \A t \in Types : Reading(t) \in owed[t]
=============================================================================
