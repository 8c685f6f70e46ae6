--------------------------- MODULE MCReadyAndAlarms ---------------------------
(***************************************************************************)
(* The ready queue, and the counter with its alarms. They share no state,  *)
(* so a behaviour moves one of them: part says which.                      *)
(*                                                                         *)
(* Three tasks on the two sides of the byte boundary of the mask: two      *)
(* share a level, one of them with two activations.                        *)
(***************************************************************************)
EXTENDS ReadyQueue, MCCounterAlarms

CONSTANT Parts
VARIABLE part

T == {"a", "b", "c"}
Link == [t \in T |-> IF t = "a" THEN 7 ELSE 8]
Rnact == [t \in T |-> IF t = "c" THEN 2 ELSE 1]

PartInit == part \in Parts /\ RqInit /\ Init
PartNext ==
  /\ UNCHANGED part
  /\ \/ part = "ready" /\ RqNext /\ UNCHANGED vars
     \/ part = "alarms" /\ Next /\ UNCHANGED rqStkVars

PartSpec == PartInit /\ [][PartNext]_<<rqStkVars, vars, part>>
=============================================================================
