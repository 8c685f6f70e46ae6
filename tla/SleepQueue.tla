------------------------------ MODULE SleepQueue ------------------------------
(***************************************************************************)
(* Time and sleeping: get_time_ns adds the ticks counted by the periodic   *)
(* timer's ISR to what its down-counter says (bcm_timer.c); nsleep queues  *)
(* a sleeper by its timeout, arms the one-shot timer for the first one and *)
(* waits for an event; the one-shot's ISR wakes those that are due and     *)
(* arms the timer for the next (delay.c).                                  *)
(*                                                                         *)
(* An interrupt that is not masked is taken before any task goes on. It is *)
(* masked while a task queues itself, and while another ISR runs: one is   *)
(* then pending, and time may pass. Time is bounded by Horizon; the        *)
(* correction of the accumulated clock error is left out.                  *)
(***************************************************************************)
EXTENDS Naturals, Sequences

CONSTANTS
  Sleepers,   \* the tasks
  Durations,  \* arguments of nsleep
  TickLength, \* timer_ns_per_tick
  Horizon     \* bound: the end of time

ASSUME TimesArePositive == TickLength \in Nat \ {0} /\ Durations \subseteq Nat \ {0}

VARIABLES
  clock,       \* the real time; the down-counter shows its part within a tick
  ticks,       \* timer_ticks_ms
  tickPending, \* the periodic timer's interrupt
  oneShot,     \* when the one-shot timer fires, Off when it is not armed
  shotPending, \* its interrupt
  timerq,      \* sleep entries, first timeout first
  sleepPc, timeNs, timeout, sleepEvent, \* per task: position, locals, SleepEvent
  due,         \* history: before which time the task asked not to be woken
  irqsOff      \* a task is between EE_hal_suspendIRQ and EE_hal_resumeIRQ

sleepVars == <<clock, ticks, tickPending, oneShot, shotPending, timerq, sleepPc, timeNs,
               timeout, sleepEvent, due, irqsOff>>
clockVars == <<clock, ticks, tickPending>>
taskVars == <<sleepPc, timeNs, timeout, due, irqsOff>>

Off == 0   \* no future time

SleepInit ==
  /\ clock = 0 /\ ticks = 0 /\ tickPending = FALSE
  /\ oneShot = Off /\ shotPending = FALSE /\ timerq = <<>>
  /\ sleepPc = [t \in Sleepers |-> "idle"] /\ timeNs = [t \in Sleepers |-> 0]
  /\ timeout = [t \in Sleepers |-> 0] /\ sleepEvent = [t \in Sleepers |-> FALSE]
  /\ due = [t \in Sleepers |-> 0] /\ irqsOff = FALSE

\* ns_since_tick
SinceTick == clock % TickLength

\* Time passes, while an interrupt waits no further than the next tick (interrupts
\* are never masked for that long).
TimePasses ==
  LET wraps == (clock + 1) % TickLength = 0 IN
  /\ clock < Horizon /\ ~(wraps /\ tickPending)
  /\ clock' = clock + 1
  /\ tickPending' = (tickPending \/ wraps)
  /\ shotPending' = (shotPending \/ oneShot = clock + 1)
  /\ oneShot' = IF oneShot = clock + 1 THEN Off ELSE oneShot
  /\ UNCHANGED <<ticks, timerq, sleepEvent, taskVars>>

\* timer0_irq_handler
TickIrq ==
  /\ tickPending /\ ~irqsOff
  /\ ticks' = ticks + TickLength /\ tickPending' = FALSE
  /\ UNCHANGED <<clock, oneShot, shotPending, timerq, sleepEvent, taskVars>>

\* sp804_timer_oneshot; it clears an interrupt that is pending, too.
ArmedFor(delay) == clock + delay

\* Mutant of Rearm.
NoRearm(queue, now) == oneShot

\* timerq_process arms the timer for the first entry that is not due.
Rearm(queue, now) ==
  IF queue = <<>> THEN oneShot ELSE ArmedFor(timeout[Head(queue)] - now)

\* timer1_irq_handler: get_time_ns, in which a pending tick is not counted, and
\* timerq_process.
OneShotIrq ==
  LET now == ticks + SinceTick
      wakes == {i \in DOMAIN timerq : timeout[timerq[i]] <= now
                 /\ \A j \in 1 .. i : timeout[timerq[j]] <= now}
      left == SubSeq(timerq, 1 + (IF wakes = {} THEN 0 ELSE CHOOSE i \in wakes :
                                    \A j \in wakes : j <= i), Len(timerq))
  IN
  /\ shotPending /\ ~irqsOff
  /\ shotPending' = FALSE
  /\ sleepEvent' = [t \in Sleepers |->
                      sleepEvent[t] \/ \E i \in wakes : timerq[i] = t]
  /\ timerq' = left
  /\ oneShot' = Rearm(left, now)
  /\ UNCHANGED <<clockVars, taskVars>>

\* A task goes on when no interrupt waits to be taken, and not while another has
\* them masked.
TaskAt(t, place) ==
  sleepPc[t] = place /\ (irqsOff => place \in {"insert", "resume"})
  /\ (irqsOff \/ ~(tickPending \/ shotPending))
To(t, place) == sleepPc' = [sleepPc EXCEPT ![t] = place]

\* nsleep calls get_time_ns, which reads timer_ticks_ms.
ReadTicks(t) ==
  /\ TaskAt(t, "idle")
  /\ \E d \in Durations :
       /\ due' = [due EXCEPT ![t] = clock + d]
       /\ timeout' = [timeout EXCEPT ![t] = d]
  /\ timeNs' = [timeNs EXCEPT ![t] = ticks]
  /\ To(t, "counter")
  /\ UNCHANGED <<clockVars, oneShot, shotPending, timerq, sleepEvent, irqsOff>>

\* Mutant of TickFired.
TickIgnored(t) == FALSE

\* get_time_ns starts again: timer_ticks_ms changed while it read the counter.
TickFired(t) == timeNs[t] # ticks

\* ... and the counter. timeNs is then the time, and timeout still the duration.
ReadCounter(t) ==
  /\ TaskAt(t, "counter")
  /\ IF TickFired(t)
     THEN timeNs' = [timeNs EXCEPT ![t] = ticks] /\ UNCHANGED sleepPc
     ELSE timeNs' = [timeNs EXCEPT ![t] = @ + SinceTick] /\ To(t, "queue")
  /\ UNCHANGED <<clockVars, oneShot, shotPending, timerq, timeout, sleepEvent, due, irqsOff>>

\* timerq_add: in front of the first entry with a later timeout.
TimerqAdd(t, at) ==
  LET later == {i \in DOMAIN timerq : at < timeout[timerq[i]]}
      pos == IF later = {} THEN Len(timerq) + 1
             ELSE CHOOSE i \in later : \A j \in later : i <= j
  IN SubSeq(timerq, 1, pos - 1) \o <<t>> \o SubSeq(timerq, pos, Len(timerq))

\* EE_hal_suspendIRQ
SuspendIrq(t) ==
  /\ TaskAt(t, "queue")
  /\ irqsOff' = TRUE /\ To(t, "insert")
  /\ UNCHANGED <<clockVars, oneShot, shotPending, timerq, timeNs, timeout, sleepEvent, due>>

\* Queue the entry, arm the timer for a new first one.
Enqueue(t) ==
  LET at == timeNs[t] + timeout[t] IN
  /\ TaskAt(t, "insert")
  /\ timeout' = [timeout EXCEPT ![t] = at]
  /\ timerq' = TimerqAdd(t, at)
  /\ IF Head(timerq') = t
     THEN oneShot' = ArmedFor(timeout[t]) /\ shotPending' = FALSE
     ELSE UNCHANGED <<oneShot, shotPending>>
  /\ To(t, "resume")
  /\ UNCHANGED <<clockVars, timeNs, sleepEvent, due, irqsOff>>

\* EE_hal_resumeIRQ
ResumeIrq(t) ==
  /\ TaskAt(t, "resume")
  /\ irqsOff' = FALSE /\ To(t, "wait")
  /\ UNCHANGED <<clockVars, oneShot, shotPending, timerq, timeNs, timeout, sleepEvent, due>>

\* WaitEvent returns, at once when the event is already set; GetEvent, ClearEvent.
Wakes(t) ==
  /\ TaskAt(t, "wait") /\ sleepEvent[t]
  /\ sleepEvent' = [sleepEvent EXCEPT ![t] = FALSE]
  /\ timeNs' = [timeNs EXCEPT ![t] = 0] /\ timeout' = [timeout EXCEPT ![t] = 0]
  /\ due' = [due EXCEPT ![t] = 0]
  /\ To(t, "idle")
  /\ UNCHANGED <<clockVars, oneShot, shotPending, timerq, irqsOff>>

SleepNext ==
  \/ TimePasses \/ TickIrq \/ OneShotIrq
  \/ \E t \in Sleepers :
       ReadTicks(t) \/ ReadCounter(t) \/ SuspendIrq(t) \/ Enqueue(t) \/ ResumeIrq(t) \/ Wakes(t)
SleepSpec == SleepInit /\ [][SleepNext]_sleepVars

-----------------------------------------------------------------------------
\* A sleeper's event is never set before the time it asked for has passed, however
\* ticks fall between the reads of get_time_ns in the task and in the ISR.
NeverEarly == \A t \in Sleepers : sleepEvent[t] => clock >= due[t]

\* Nobody sleeps for ever: the queue is ordered, holds exactly the sleepers that
\* have not been woken, and while it is not empty the timer is armed or its
\* interrupt is pending, also after an ISR that woke some or none.
SleepersCovered ==
  /\ timerq # <<>> => oneShot # Off \/ shotPending
  /\ \A i, j \in DOMAIN timerq : i < j => timeout[timerq[i]] <= timeout[timerq[j]]
  /\ \A t \in Sleepers :
       (\E i \in DOMAIN timerq : timerq[i] = t)
         <=> sleepPc[t] \in {"resume", "wait"} /\ ~sleepEvent[t]
=============================================================================
