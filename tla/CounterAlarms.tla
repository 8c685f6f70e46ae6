----------------------------- MODULE CounterAlarms -----------------------------
(***************************************************************************)
(* One counter and its alarms (ee_altick.c, ee_alsetrel.c, ee_alsetabs.c,  *)
(* ee_alcancel.c, ee_alget.c). The armed alarms form a delta queue: each   *)
(* one holds the ticks between its predecessor and itself, and 0 at the    *)
(* head stands for the next tick. A tick is served with interrupts         *)
(* disabled, so no service call falls between its steps; an ErrorHook that *)
(* an alarm action calls does.                                             *)
(***************************************************************************)
EXTENDS Integers, Sequences, FiniteSets

CONSTANTS
  Alarms,           \* the counter objects on this counter
  maxallowedvalue,  \* of the counter
  mincycle,         \* of the counter
  AutostartAlarms,  \* the generated list of the alarms StartOS arms
  AutostartCycle,   \* their cycles
  ErrorHook         \* the application has an ErrorHook that calls GetAlarm

ASSUME CounterAssumption ==
  /\ maxallowedvalue \in Nat \ {0}
  /\ mincycle \in 1 .. maxallowedvalue
  /\ IsFiniteSet(Alarms)
  /\ AutostartAlarms \in Seq(Alarms)
  /\ \A i, j \in DOMAIN AutostartAlarms : AutostartAlarms[i] = AutostartAlarms[j] => i = j
  /\ AutostartCycle \in [{AutostartAlarms[i] : i \in DOMAIN AutostartAlarms}
                            -> 0 .. maxallowedvalue]
  /\ ErrorHook \in BOOLEAN

VARIABLES
  value,            \* EE_counter_RAM.value
  queue,            \* the list from EE_counter_RAM.first along .next
  delta,            \* EE_oo_counter_object_RAM.delta
  cycle,            \* EE_oo_counter_object_RAM.cycle
  used,             \* EE_oo_counter_object_RAM.used
  to_fire,          \* the list split off by the tick in progress
  answer            \* the ticks the last step, a GetAlarm, answered, else 0

objVars == <<queue, delta, cycle, used>>
vars == <<value, objVars, to_fire, answer>>

\* The walk ran off the queue.
PastEnd == -1

Elems(s) == {s[i] : i \in DOMAIN s}

\* The sums of the first deltas of a queue.
Offsets(q, d) ==
  LET sum[j \in 0 .. Len(q)] == IF j = 0 THEN 0 ELSE sum[j - 1] + d[q[j]]
  IN sum

\* A fault: an alarm goes before those that expire on the same tick, and takes
\* nothing off the delta of the next one.
InsertNoSplit(q, d, a, increment) ==
  LET sum == Offsets(q, d)
      n == Cardinality({i \in DOMAIN q : sum[i] =< increment})
  IN [queue |-> SubSeq(q, 1, n) \o <<a>> \o SubSeq(q, n + 1, Len(q)),
      delta |-> [d EXCEPT ![a] = increment - sum[n]]]

\* EE_oo_counter_object_insert: the alarm goes behind all that expire no later
\* and the delta of its successor shrinks by the alarm's own.
Insert(q, d, a, increment) ==
  LET sum == Offsets(q, d)
      n == Cardinality({i \in DOMAIN q : sum[i] =< increment})
      rest == increment - sum[n]
  IN [queue |-> SubSeq(q, 1, n) \o <<a>> \o SubSeq(q, n + 1, Len(q)),
      delta |-> [x \in Alarms |-> CASE x = a -> rest
                                    [] n < Len(q) /\ x = q[n + 1] -> d[x] - rest
                                    [] OTHER -> d[x]]]

\* EE_oo_handle_rel_counter_object_insertion and its absolute counterpart, which
\* converts start into the ticks after the next one.
Arm(a, increment, c) ==
  LET i == Insert(queue, delta, a, increment) IN
  /\ queue' = i.queue
  /\ delta' = i.delta
  /\ cycle' = [cycle EXCEPT ![a] = c]
  /\ used' = [used EXCEPT ![a] = TRUE]

\* A fault: a start already passed is taken modulo the maximum, not its successor.
TicksToWrong(start) ==
  IF start > value THEN start - value - 1 ELSE maxallowedvalue - value + start - 1

TicksTo(start) ==
  IF start > value THEN start - value - 1 ELSE maxallowedvalue - value + start

\* eecfg.c, and EE_oo_autostart_alarms with increment 1: all expire on the first
\* tick, in the order of the generated list.
Init ==
  /\ value = 0
  /\ queue = AutostartAlarms
  /\ delta = [a \in Alarms |-> 0]
  /\ cycle = [a \in Alarms |-> IF a \in DOMAIN AutostartCycle THEN AutostartCycle[a] ELSE 0]
  /\ used = [a \in Alarms |-> a \in DOMAIN AutostartCycle]
  /\ to_fire = <<>>
  /\ answer = 0

-----------------------------------------------------------------------------
(* Services.                                                               *)

\* No tick is in progress: a task or an ISR runs.
UserCode == to_fire = <<>>

BadCycle(c) == c # 0 /\ (c < mincycle \/ c > maxallowedvalue)

SetRelAlarm(a, increment, c) ==
  /\ UserCode
  /\ ~(increment > maxallowedvalue \/ BadCycle(c) \/ increment = 0 \/ used[a])
  /\ Arm(a, increment - 1, c)
  /\ answer' = 0
  /\ UNCHANGED <<value, to_fire>>

SetAbsAlarm(a, start, c) ==
  /\ UserCode
  /\ ~(start > maxallowedvalue \/ BadCycle(c) \/ used[a])
  /\ Arm(a, TicksTo(start), c)
  /\ answer' = 0
  /\ UNCHANGED <<value, to_fire>>

\* A fault: the head of the queue is unlinked whatever the alarm.
RemoveHead(q, i) == Tail(q)

Remove(q, i) == SubSeq(q, 1, i - 1) \o SubSeq(q, i + 1, Len(q))

\* EE_oo_handle_counter_object_cancellation: the successor inherits the delta.
CancelAlarm(a) ==
  /\ UserCode
  /\ used[a]
  /\ LET i == CHOOSE j \in DOMAIN queue : queue[j] = a IN
       /\ queue' = Remove(queue, i)
       /\ delta' = IF i = Len(queue) THEN delta
                   ELSE [delta EXCEPT ![queue[i + 1]] = @ + delta[a]]
  /\ used' = [used EXCEPT ![a] = FALSE]
  /\ answer' = 0
  /\ UNCHANGED <<value, cycle, to_fire>>

\* The walk of GetAlarm from the head to the alarm; nothing stops it at the end.
Walk(a) ==
  IF a \notin Elems(queue) THEN PastEnd
  ELSE Offsets(queue, delta)[CHOOSE i \in DOMAIN queue : queue[i] = a] + 1

\* GetAlarm, by user code or by the ErrorHook of a failed alarm action.
GetAlarm(a) ==
  /\ UserCode \/ ErrorHook
  /\ used[a]
  /\ answer' = Walk(a)
  /\ UNCHANGED <<value, objVars, to_fire>>

-----------------------------------------------------------------------------
(* The tick: EE_oo_IncrementCounterImplementation.                         *)

\* The alarms at the head of the queue that expire now.
Expired == Cardinality({i \in DOMAIN queue : Offsets(queue, delta)[i] = 0})

\* A fault: the split drops only the first alarm that expires.
ExpiredFirst == IF queue # <<>> /\ delta[queue[1]] = 0 THEN 1 ELSE 0

\* A fault: the counter wraps one value too late.
NextValueLate == IF value > maxallowedvalue THEN 0 ELSE value + 1

NextValue == IF value + 1 > maxallowedvalue THEN 0 ELSE value + 1

\* The counter advances, the expired alarms are split off, the head of the
\* remainder comes one tick nearer.
TickBegin ==
  /\ UserCode
  /\ value' = NextValue
  /\ to_fire' = SubSeq(queue, 1, Expired)
  /\ queue' = SubSeq(queue, Expired + 1, Len(queue))
  /\ delta' = IF queue' = <<>> THEN delta ELSE [delta EXCEPT ![queue'[1]] = @ - 1]
  /\ answer' = 0
  /\ UNCHANGED <<cycle, used>>

\* The action of one expired alarm runs; a cyclic alarm is queued again.
Fire ==
  /\ to_fire # <<>>
  /\ LET a == Head(to_fire)
         i == Insert(queue, delta, a, cycle[a] - 1) IN
       /\ to_fire' = Tail(to_fire)
       /\ IF cycle[a] > 0
          THEN queue' = i.queue /\ delta' = i.delta /\ UNCHANGED used
          ELSE used' = [used EXCEPT ![a] = FALSE] /\ UNCHANGED <<queue, delta>>
  /\ answer' = 0
  /\ UNCHANGED <<value, cycle>>

\* The arguments of a call, one beyond each bound included.
Ticks == 0 .. maxallowedvalue + 1

Next ==
  \/ \E a \in Alarms, n \in Ticks, c \in Ticks : SetRelAlarm(a, n, c) \/ SetAbsAlarm(a, n, c)
  \/ \E a \in Alarms : CancelAlarm(a) \/ GetAlarm(a)
  \/ TickBegin \/ Fire

Spec == Init /\ [][Next]_vars

-----------------------------------------------------------------------------
(* Properties.                                                             *)

TypeOK ==
  /\ value \in 0 .. maxallowedvalue
  /\ queue \in Seq(Alarms) /\ to_fire \in Seq(Alarms)
  /\ delta \in [Alarms -> 0 .. maxallowedvalue]
  /\ cycle \in [Alarms -> 0 .. maxallowedvalue]
  /\ used \in [Alarms -> BOOLEAN]
  /\ answer \in {PastEnd} \cup 0 .. maxallowedvalue + 1

\* An alarm is in use exactly while it is queued or about to be served, and is
\* never in a list twice: the walks of CancelAlarm and GetAlarm find it.
UsedMeansQueued ==
  /\ \A a \in Alarms : used[a] <=> a \in Elems(queue) \cup Elems(to_fire)
  /\ Len(queue) + Len(to_fire) = Cardinality({a \in Alarms : used[a]})

\* The ticks before an alarm expires; one that is being served has its cycle.
TicksLeft(a) ==
  IF a \in Elems(queue) THEN Walk(a) ELSE IF a \in Elems(to_fire) THEN cycle[a] ELSE 0

\* The delta queue keeps every alarm's time: armed, cancelled, split and queued
\* again in any order, each has one tick less after every tick, is served when
\* none is left and starts its cycle then, and no other operation moves it.
Times == INSTANCE AlarmTimes WITH
  MaxAllowed <- maxallowedvalue,
  left <- [a \in Alarms |-> TicksLeft(a)],
  period <- cycle

TimesSpec == Times!Spec

\* A relative alarm has the ticks asked for; an absolute one expires on the tick
\* that makes the counter equal to start, a whole turn away if it is equal now.
ArmedAsAsked ==
  [][\A a \in {x \in Alarms : used'[x] /\ ~used[x]}, n, c \in Ticks :
       /\ SetRelAlarm(a, n, c) => TicksLeft(a)' = n
       /\ SetAbsAlarm(a, n, c) => /\ TicksLeft(a)' > 0
                                  /\ (value + TicksLeft(a)') % (maxallowedvalue + 1) = n]_vars

\* "GetAlarm is callable by Task, ISR2, ErrorHook Pre and Post TaskHook": for
\* each of them the walk along the queue ends at the alarm.
GetAlarmFinds == answer # PastEnd
=============================================================================
