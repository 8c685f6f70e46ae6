------------------------------- MODULE AlarmTimes -------------------------------
(***************************************************************************)
(* What the alarms of a counter promise: each armed alarm has a number of  *)
(* ticks left, which every tick of the counter decrements; at zero it is   *)
(* served and, if it is cyclic, armed again.                               *)
(***************************************************************************)
EXTENDS Integers

CONSTANTS Alarms, MaxAllowed

VARIABLES
  value,    \* the counter
  left,     \* ticks before the alarm expires, 0 when it is not armed
  period    \* its cycle, 0 for a single shot

vars == <<value, left, period>>

Init ==
  /\ value = 0
  /\ left \in [Alarms -> 0 .. MaxAllowed]
  /\ period \in [Alarms -> 0 .. MaxAllowed]

Arm(a) ==
  /\ left[a] = 0
  /\ \E n \in 1 .. MaxAllowed + 1 : left' = [left EXCEPT ![a] = n]
  /\ \E c \in 0 .. MaxAllowed : period' = [period EXCEPT ![a] = c]
  /\ UNCHANGED value

Disarm(a) ==
  /\ left[a] > 0
  /\ left' = [left EXCEPT ![a] = 0]
  /\ UNCHANGED <<value, period>>

Tick ==
  /\ value' = (value + 1) % (MaxAllowed + 1)
  /\ left' = [a \in Alarms |-> CASE left[a] = 0 -> 0
                                 [] left[a] = 1 -> period[a]
                                 [] OTHER -> left[a] - 1]
  /\ UNCHANGED period

Next == Tick \/ \E a \in Alarms : Arm(a) \/ Disarm(a)

Spec == Init /\ [][Next]_vars
=============================================================================
