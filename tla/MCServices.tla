------------------------------ MODULE MCServices ------------------------------
(***************************************************************************)
(* The services around the kernel: sleeping, the UART, management          *)
(* commands, the heap, the flash updater and the partition table manager.  *)
(* They share no state, so a behaviour moves one of them: service says     *)
(* which.                                                                  *)
(***************************************************************************)
EXTENDS SleepQueue, UartPl011, MgmtCommands, Heap, FlashUpdater, Ptm

CONSTANT Services
VARIABLE service

\* AVB has a copy to fall back on, VPD has one copy.
TwoAvbOneVpd == <<"avb", "avb", "vpd">>
\* One chunk in one page, two chunks, and one unit more than a copy holds.
SmallLargeHuge == [small |-> 1, large |-> 4, huge |-> 6]

\* Two versions of the partition table, three application partitions of which one is
\* skipped, and one partition for something else.
TwoTables == [old |-> <<"boot", "p1", "p2">>, new |-> <<"skipped", "p2">>]
ImageTableSizes == [cfg |-> 1, plain |-> 1, huge |-> 3, gone |-> 0, other |-> 1]
PtCopyContents ==
  {[hdr |-> "old", ent |-> "old"], [hdr |-> "new", ent |-> "new"],
   [hdr |-> "old", ent |-> Bad], [hdr |-> Bad, ent |-> Bad]}
Holds(h, e, i) == [hdr |-> h, ent |-> e, img |-> i]
PartitionContents ==
  {Holds(v, v, v) : v \in DOMAIN ImageTableSizes}
  \cup {Holds("cfg", "cfg", Bad), Holds("plain", "plain", Bad), Holds("cfg", Bad, "cfg")}

\* What a service that is not chosen begins with does not matter.
ServicesInit ==
  /\ service \in Services
  /\ PtmInitState
  /\ service # "ptm" =>
       /\ \A c \in DOMAIN ptCopies : ptCopies[c].hdr = "old" /\ ptCopies[c].ent = "old"
       /\ \A p \in DOMAIN parts : parts[p] = Holds("cfg", "cfg", "cfg")
  /\ FupInit
  /\ service # "flash" => \A e \in DOMAIN Table : ~CopyValid(flash, e)
  /\ SleepInit /\ UartInit /\ MgmtInit /\ HeapInit

ServicesNext ==
  /\ UNCHANGED service
  /\ \/ /\ service = "sleep" /\ SleepNext
        /\ UNCHANGED <<uartVars, mgmtVars, heapVars, fupVars, ptmVars>>
     \/ /\ service = "uart" /\ UartNext
        /\ UNCHANGED <<sleepVars, mgmtVars, heapVars, fupVars, ptmVars>>
     \/ /\ service = "mgmt" /\ MgmtNext
        /\ UNCHANGED <<sleepVars, uartVars, heapVars, fupVars, ptmVars>>
     \/ /\ service = "heap" /\ HeapNext
        /\ UNCHANGED <<sleepVars, uartVars, mgmtVars, fupVars, ptmVars>>
     \/ /\ service = "flash" /\ FupNext
        /\ UNCHANGED <<sleepVars, uartVars, mgmtVars, heapVars, ptmVars>>
     \/ /\ service = "ptm" /\ PtmNext
        /\ UNCHANGED <<sleepVars, uartVars, mgmtVars, heapVars, fupVars>>

vars == <<sleepVars, uartVars, mgmtVars, heapVars, fupVars, ptmVars, service>>
ServicesSpec == ServicesInit /\ [][ServicesNext]_vars

\* ImageKept says nothing once a short read has passed for a whole one.
UntilMisread == ~misread
=============================================================================
