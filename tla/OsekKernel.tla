------------------------------ MODULE OsekKernel ------------------------------
(***************************************************************************)
(* The task-management kernel of ERIKA Enterprise (src/erika-sdk/pkg/      *)
(* kernel/oo): conformance class ECC2, extended status, no ISR2 resources, *)
(* one core, as the generated configuration eecfg.c selects it.            *)
(*                                                                         *)
(* Every service runs with interrupts disabled from its entry until user   *)
(* code runs again, so one action is one service call, including the       *)
(* context switch it causes and, when the switch goes back to a task       *)
(* blocked inside Schedule or WaitEvent, the rest of that suspended call.  *)
(***************************************************************************)
EXTENDS Integers, Sequences, FiniteSets

CONSTANTS
  Tasks,            \* the TIDs 0 .. EE_MAX_TASK-1
  Resources,        \* the resources 0 .. EE_MAX_RESOURCE-1
  Events,           \* the bits of an event mask
  NIL,              \* EE_NIL; also stands for every out-of-range identifier
  Levels,           \* bit positions of a priority mask
  ReadyPrio,        \* EE_th_ready_prio (and EE_rq_link): level of each task
  DispatchPrio,     \* EE_th_dispatch_prio: level while it runs
  RnactMax,         \* EE_th_rnact_max: instances that may be pending
  Extended,         \* tasks with EE_th_is_extended
  ResCeiling,       \* EE_resource_ceiling
  AutostartQueue,   \* EE_oo_autostart_task_data, split by level
  ChainTargets,     \* the tasks each task's body may chain to
  MissingEnd        \* tasks whose body may return without ending itself

ASSUME TaskAssumption ==
  /\ IsFiniteSet(Tasks) /\ NIL \notin Tasks
  /\ Levels \subseteq 0 .. 15      \* "16 priorities maximum!" (eecfg.c)
  /\ ReadyPrio \in [Tasks -> Levels]
  /\ DispatchPrio \in [Tasks -> Levels]
  /\ \A t \in Tasks : ReadyPrio[t] =< DispatchPrio[t]
  /\ RnactMax \in [Tasks -> Nat \ {0}]
  /\ Extended \subseteq Tasks
  /\ \A t \in Extended : RnactMax[t] = 1
  /\ ChainTargets \in [Tasks -> SUBSET Tasks]
  /\ MissingEnd \subseteq Tasks

ASSUME ResourceAssumption ==
  /\ NIL \notin Resources
  /\ ResCeiling \in [Resources -> Levels]

\* The generated autostart array names each task at most once.
ASSUME AutostartAssumption ==
  /\ AutostartQueue \in [Levels -> Seq(Tasks)]
  /\ \A l \in Levels : \A i, j \in DOMAIN AutostartQueue[l] :
       /\ ReadyPrio[AutostartQueue[l][i]] = l
       /\ AutostartQueue[l][i] = AutostartQueue[l][j] => i = j

VARIABLES
  oo_started,       \* EE_oo_started and the endless loop of the shutdown
  irq,              \* IRQ nesting level of the port: 0 or 1
  th_status,        \* EE_th_status
  th_rnact,         \* EE_th_rnact: activations still accepted
  th_nextask,       \* EE_th_terminate_nextask
  sys_ceiling,      \* EE_sys_ceiling, as the set of its bits
  stk,              \* the list from EE_stkfirst: running and preempted tasks,
                    \* the first one (running) at the end of the sequence
  rq,               \* EE_rq_*: one FIFO of ready tasks per level
  event_active,     \* EE_th_event_active
  event_waitmask,   \* EE_th_event_waitmask
  waswaiting,       \* EE_th_waswaiting: a context of a WaitEvent is saved
  inSchedule,       \* tasks preempted inside Schedule (their saved context)
  held,             \* EE_th_resource_last and EE_resource_stack: the
                    \* resources each task holds, the last one at the end
  locked,           \* EE_resource_locked
  oldceiling,       \* EE_resource_oldceiling
  ret               \* StatusType of the last call, "none" if it was no call

taskVars == <<th_status, th_rnact, th_nextask>>
schedVars == <<sys_ceiling, stk, rq, inSchedule>>
eventVars == <<event_active, event_waitmask, waswaiting>>
resVars == <<held, locked, oldceiling>>
kernelVars == <<oo_started, irq, taskVars, schedVars, eventVars, resVars>>
vars == <<kernelVars, ret>>

-----------------------------------------------------------------------------
(* Queues and ceiling.                                                     *)

\* EE_stk_queryfirst: the running task, or NIL when the idle loop runs.
Top(s) == IF s = <<>> THEN NIL ELSE s[Len(s)]
current == Top(stk)

Pop(s) == SubSeq(s, 1, Len(s) - 1)

NonEmpty(q) == {l \in Levels : q[l] # <<>>}

Highest(q) == CHOOSE l \in NonEmpty(q) : \A m \in NonEmpty(q) : m =< l

\* EE_rq_queryfirst: head of the highest non-empty level.
RqFirst(q) == IF NonEmpty(q) = {} THEN NIL ELSE Head(q[Highest(q)])

RqInsert(q, t) == [q EXCEPT ![ReadyPrio[t]] = Append(@, t)]

\* EE_rq2stk_exchange, the ready-queue half.
RqRemoveFirst(q) == [q EXCEPT ![Highest(q)] = Tail(@)]

\* A fault: a task preempts at the level of the ceiling too.
BelowOrAt(c, t) == \A l \in c : l =< ReadyPrio[t]

\* EE_sys_ceiling < EE_th_ready_prio[t], on one-hot priorities.
Below(c, t) == \A l \in c : l < ReadyPrio[t]


-----------------------------------------------------------------------------
(* The scheduling state a service computes on, and the steps of a switch.  *)
(* k is a record of the variables the dispatcher touches.                  *)

Now == [status |-> th_status, ceiling |-> sys_ceiling, stk |-> stk, rq |-> rq,
        inSchedule |-> inSchedule, waitmask |-> event_waitmask,
        waswaiting |-> waswaiting]

Become(k) ==
  /\ th_status' = k.status
  /\ sys_ceiling' = k.ceiling
  /\ stk' = k.stk
  /\ rq' = k.rq
  /\ inSchedule' = k.inSchedule
  /\ event_waitmask' = k.waitmask
  /\ waswaiting' = k.waswaiting

\* A fault: the running task's priority is compared, not the ceiling.
PreemptsByPriority(k) ==
  /\ NonEmpty(k.rq) # {}
  /\ Top(k.stk) # NIL => ReadyPrio[Top(k.stk)] < ReadyPrio[RqFirst(k.rq)]

\* A queued task is above the system ceiling.
Preempts(k) == NonEmpty(k.rq) # {} /\ Below(k.ceiling, RqFirst(k.rq))

\* EE_oo_set_th_status_ready and EE_rq_insert.
MakeReady(k, t) ==
  [k EXCEPT !.status[t] = IF @ = "SUSPENDED" THEN "READY" ELSE @,
            !.rq = RqInsert(@, t)]

\* EE_oo_set_th_status_ready, its other half: a new instance has no event.
ClearEventsOf(st, t) ==
  IF st[t] = "SUSPENDED" THEN [event_active EXCEPT ![t] = {}] ELSE event_active

\* The first ready task is put on the stack and runs; one that was waiting
\* continues inside WaitEvent, which forgets the mask.
DispatchFirst(k) ==
  LET f == RqFirst(k.rq) IN
  [k EXCEPT !.status[f] = "RUNNING",
            !.ceiling = @ \cup {DispatchPrio[f]},
            !.stk = Append(@, f),
            !.rq = RqRemoveFirst(@),
            !.waitmask[f] = IF k.waswaiting[f] THEN {} ELSE @,
            !.waswaiting[f] = FALSE]

\* A fault: the internal resource given up by Schedule is not taken back.
ResumeTopPlain(k) ==
  LET t == Top(k.stk) IN
  IF t = NIL THEN k
  ELSE [k EXCEPT !.status[t] = "RUNNING", !.inSchedule = @ \ {t}]

\* The topmost preempted task runs again, or the idle loop; one that was
\* inside Schedule takes its internal resource back.
ResumeTop(k) ==
  LET t == Top(k.stk) IN
  IF t = NIL THEN k
  ELSE [k EXCEPT !.status[t] = "RUNNING",
                 !.ceiling = IF t \in k.inSchedule
                             THEN (@ \ {ReadyPrio[t]}) \cup {DispatchPrio[t]}
                             ELSE @,
                 !.inSchedule = @ \ {t}]

\* The tail of EE_thread_end_instance and of EE_oo_reschedule_on_block.
SwitchAway(k) == IF Preempts(k) THEN DispatchFirst(k) ELSE ResumeTop(k)

\* A fault: the preempted task is left RUNNING.
PreemptKeepsStatus(k) == IF Preempts(k) THEN DispatchFirst(k) ELSE k

\* A fault: an interrupt over the idle loop does not reschedule.
PreemptNotIdle(k) ==
  IF Preempts(k) /\ Top(k.stk) # NIL
  THEN DispatchFirst([k EXCEPT !.status[Top(k.stk)] = "READY"])
  ELSE k

\* EE_oo_preemption_point, EE_IRQ_end_instance: the running task, if there is
\* one, stays on the stack.
Preempt(k) ==
  IF Preempts(k)
  THEN DispatchFirst([k EXCEPT !.status =
         [t \in Tasks |-> IF t = Top(k.stk) THEN "READY" ELSE @[t]]])
  ELSE k

\* A service called by an ISR leaves the switch to the end of the interrupt.
PreemptionPoint(k) == IF irq = 0 THEN Preempt(k) ELSE k

-----------------------------------------------------------------------------
(* Initial state: eecfg.c.                                                 *)

Init ==
  /\ oo_started = "off"
  /\ irq = 0
  /\ th_status = [t \in Tasks |-> "SUSPENDED"]
  /\ th_rnact = RnactMax
  /\ th_nextask = [t \in Tasks |-> NIL]
  /\ sys_ceiling = {}
  /\ stk = <<>>
  /\ rq = [l \in Levels |-> <<>>]
  /\ event_active = [t \in Tasks |-> {}]
  /\ event_waitmask = [t \in Tasks |-> {}]
  /\ waswaiting = [t \in Tasks |-> FALSE]
  /\ inSchedule = {}
  /\ held = [t \in Tasks |-> <<>>]
  /\ locked = [r \in Resources |-> FALSE]
  /\ oldceiling = [r \in Resources |-> {}]
  /\ ret = "none"

-----------------------------------------------------------------------------
(* Services. Code runs in the task on top of the stack or in an ISR; the   *)
(* idle loop calls nothing.                                                *)

Up == oo_started = "up"
Caller == Up /\ (irq = 1 \/ current # NIL)
InTask == Up /\ irq = 0 /\ current # NIL
CallLevel == irq # 0 \/ current = NIL

\* A failed check: the status code is returned and nothing else happens.
Reject(e) == e # "E_OK" /\ ret' = e /\ UNCHANGED kernelVars
Accept(e) == e = "E_OK" /\ ret' = e

InAutostart(t) ==
  \E i \in DOMAIN AutostartQueue[ReadyPrio[t]] : AutostartQueue[ReadyPrio[t]][i] = t

\* EE_oo_StartOS: the autostart tasks are made ready and the first one runs.
StartOS ==
  LET k == [Now EXCEPT
              !.status = [t \in Tasks |-> IF InAutostart(t) THEN "READY" ELSE @[t]],
              !.rq = AutostartQueue]
  IN
  /\ oo_started = "off"
  /\ oo_started' = "up"
  /\ th_rnact' = [t \in Tasks |-> IF InAutostart(t) THEN th_rnact[t] - 1 ELSE th_rnact[t]]
  /\ Become(IF NonEmpty(k.rq) = {} THEN k ELSE DispatchFirst(k))
  /\ ret' = "none"
  /\ UNCHANGED <<irq, th_nextask, event_active, resVars>>

\* StartOS called again by a task or an ISR.
StartOSAgain == Caller /\ Reject("E_OS_STATE")

ActivateError(id) ==
  IF id \notin Tasks THEN "E_OS_ID"
  ELSE IF th_rnact[id] = 0 THEN "E_OS_LIMIT"
  ELSE "E_OK"

ActivateTask(id) ==
  /\ Caller
  /\ \/ Reject(ActivateError(id))
     \/ /\ Accept(ActivateError(id))
        /\ th_rnact' = [th_rnact EXCEPT ![id] = @ - 1]
        /\ event_active' = ClearEventsOf(th_status, id)
        /\ Become(PreemptionPoint(MakeReady(Now, id)))
        /\ UNCHANGED <<oo_started, irq, th_nextask, resVars>>

\* The current task leaves the stack and the CPU.
LeaveStack(k, st, c) ==
  [k EXCEPT !.status[current] = st,
            !.ceiling = c \ {DispatchPrio[current]},
            !.stk = Pop(@)]

\* EE_thread_end_instance: rn and c are the activation counts and the ceiling
\* the service leaves, next the task it chains to.
EndInstance(rn, c, next) ==
  LET rest == rn[current] + 1
      k1 == LeaveStack(Now, IF rest = RnactMax[current] \/ current = next
                            THEN "SUSPENDED" ELSE "READY", c)
      k2 == IF next = NIL THEN k1 ELSE MakeReady(k1, next)
  IN
  /\ th_rnact' = [rn EXCEPT ![current] = rest]
  /\ event_active' = IF next = NIL THEN event_active ELSE ClearEventsOf(k1.status, next)
  /\ Become(SwitchAway(k2))

TerminateError ==
  IF irq # 0 THEN "E_OS_CALLEVEL"
  ELSE IF held[current] # <<>> THEN "E_OS_RESOURCE"
  ELSE "E_OK"

TerminateTask ==
  /\ Caller
  /\ \/ Reject(TerminateError)
     \/ /\ Accept(TerminateError)
        /\ th_nextask' = [th_nextask EXCEPT ![current] = NIL]
        /\ EndInstance(th_rnact, sys_ceiling, NIL)
        /\ UNCHANGED <<oo_started, irq, resVars>>

\* A fault: the pending activations are not checked.
ChainErrorNoLimit(id) ==
  IF CallLevel THEN "E_OS_CALLEVEL"
  ELSE IF held[current] # <<>> THEN "E_OS_RESOURCE"
  ELSE IF id \notin Tasks THEN "E_OS_ID"
  ELSE "E_OK"

ChainError(id) ==
  IF CallLevel THEN "E_OS_CALLEVEL"
  ELSE IF held[current] # <<>> THEN "E_OS_RESOURCE"
  ELSE IF id \notin Tasks THEN "E_OS_ID"
  ELSE IF id # current /\ th_rnact[id] = 0 THEN "E_OS_LIMIT"
  ELSE "E_OK"

\* The activation is taken here, the task is queued when the instance ends.
ChainTask(id) ==
  /\ Caller
  /\ irq = 0 /\ id \in Tasks => id \in ChainTargets[current]
  /\ \/ Reject(ChainError(id))
     \/ /\ Accept(ChainError(id))
        /\ th_nextask' = [th_nextask EXCEPT ![current] = id]
        /\ EndInstance([th_rnact EXCEPT ![id] = @ - 1], sys_ceiling, id)
        /\ UNCHANGED <<oo_started, irq, resVars>>

\* A fault: the flag of the resources released is not reset.
ReleaseAllLocked(t) == held' = [held EXCEPT ![t] = <<>>] /\ UNCHANGED locked

\* EE_oo_release_all_resources: the ceiling saved by the first resource taken.
ReleaseAll(t) ==
  /\ held' = [held EXCEPT ![t] = <<>>]
  /\ locked' = [r \in Resources |->
                  locked[r] /\ r \notin {held[t][i] : i \in DOMAIN held[t]}]
CeilingReleased(t) ==
  IF held[t] = <<>> THEN sys_ceiling ELSE oldceiling[held[t][1]]

\* EE_thread_not_terminated: the body returned without ending the task. The
\* instance ends with whatever nextask an earlier instance left.
TaskBodyReturns ==
  /\ InTask
  /\ current \in MissingEnd
  /\ ReleaseAll(current)
  /\ EndInstance(th_rnact, CeilingReleased(current), th_nextask[current])
  /\ ret' = "none"
  /\ UNCHANGED <<oo_started, irq, th_nextask, oldceiling>>

ScheduleError ==
  IF CallLevel THEN "E_OS_CALLEVEL"
  ELSE IF held[current] # <<>> THEN "E_OS_RESOURCE"
  ELSE "E_OK"

\* Schedule gives up the internal resource, but not the task's own priority.
ScheduleSwitch(k) ==
  IF NonEmpty(k.rq) # {} /\ ReadyPrio[current] < ReadyPrio[RqFirst(k.rq)]
  THEN DispatchFirst(
         [k EXCEPT !.status[current] = "READY",
                   !.ceiling = (@ \ {DispatchPrio[current]}) \cup {ReadyPrio[current]},
                   !.inSchedule = @ \cup {current}])
  ELSE k

Schedule ==
  /\ Caller
  /\ \/ Reject(ScheduleError)
     \/ /\ Accept(ScheduleError)
        /\ Become(ScheduleSwitch(Now))
        /\ UNCHANGED <<oo_started, irq, th_rnact, th_nextask, event_active, resVars>>

\* ForceSchedule: the level is checked, the code returned is always E_OK.
ForceSchedule ==
  /\ Caller
  /\ ret' = "E_OK"
  /\ Become(PreemptionPoint(Now))
  /\ UNCHANGED <<oo_started, irq, th_rnact, th_nextask, event_active, resVars>>

-----------------------------------------------------------------------------
(* Events.                                                                 *)

SetEventError(id) ==
  IF id \notin Tasks THEN "E_OS_ID"
  ELSE IF id \notin Extended THEN "E_OS_ACCESS"
  ELSE IF th_status[id] = "SUSPENDED" THEN "E_OS_STATE"
  ELSE "E_OK"

\* A fault: the status is not tested.
WakesAlways(id, mask) == event_waitmask[id] \cap mask # {}

\* A fault: all events waited for are required.
WakesOnAll(id, mask) ==
  /\ event_waitmask[id] # {} /\ event_waitmask[id] \subseteq mask
  /\ th_status[id] = "WAITING"

\* The status test keeps a task already woken from being queued twice.
Wakes(id, mask) == event_waitmask[id] \cap mask # {} /\ th_status[id] = "WAITING"

SetEvent(id, mask) ==
  /\ Caller
  /\ \/ Reject(SetEventError(id))
     \/ /\ Accept(SetEventError(id))
        /\ event_active' = [event_active EXCEPT ![id] = @ \cup mask]
        /\ Become(IF Wakes(id, mask)
                  THEN PreemptionPoint([Now EXCEPT !.status[id] = "READY",
                                                   !.rq = RqInsert(@, id)])
                  ELSE Now)
        /\ UNCHANGED <<oo_started, irq, th_rnact, th_nextask, resVars>>

WaitEventError ==
  IF CallLevel THEN "E_OS_CALLEVEL"
  ELSE IF held[current] # <<>> THEN "E_OS_RESOURCE"
  ELSE IF current \notin Extended THEN "E_OS_ACCESS"
  ELSE "E_OK"

\* EE_oo_prepare_to_block.
Block(k) ==
  [LeaveStack(k, "WAITING", k.ceiling) EXCEPT !.waswaiting[current] = TRUE]

\* With an event of the mask already active the call returns at once.
WaitEvent(mask) ==
  /\ Caller
  /\ \/ Reject(WaitEventError)
     \/ /\ Accept(WaitEventError)
        /\ Become(IF event_active[current] \cap mask # {} THEN Now
                  ELSE SwitchAway(Block([Now EXCEPT !.waitmask[current] = mask])))
        /\ UNCHANGED <<oo_started, irq, th_rnact, th_nextask, event_active, resVars>>

ClearEventError ==
  IF CallLevel THEN "E_OS_CALLEVEL"
  ELSE IF current \notin Extended THEN "E_OS_ACCESS"
  ELSE "E_OK"

ClearEvent(mask) ==
  /\ Caller
  /\ \/ Reject(ClearEventError)
     \/ /\ Accept(ClearEventError)
        /\ event_active' = [event_active EXCEPT ![current] = @ \ mask]
        /\ UNCHANGED <<oo_started, irq, taskVars, schedVars, event_waitmask,
                       waswaiting, resVars>>

-----------------------------------------------------------------------------
(* Resources: immediate priority ceiling.                                  *)

Last(r, t) == held[t] # <<>> /\ held[t][Len(held[t])] = r

GetResourceError(r) ==
  IF r \notin Resources THEN "E_OS_ID"
  ELSE IF locked[r] THEN "E_OS_ACCESS"
  ELSE IF irq # 0 THEN "E_OS_ACCESS"
  ELSE IF ReadyPrio[current] > ResCeiling[r] THEN "E_OS_ACCESS"
  ELSE "E_OK"

GetResource(r) ==
  /\ Caller
  /\ \/ Reject(GetResourceError(r))
     \/ /\ Accept(GetResourceError(r))
        /\ held' = [held EXCEPT ![current] = Append(@, r)]
        /\ locked' = [locked EXCEPT ![r] = TRUE]
        /\ oldceiling' = [oldceiling EXCEPT ![r] = sys_ceiling]
        /\ sys_ceiling' = sys_ceiling \cup {ResCeiling[r]}
        /\ UNCHANGED <<oo_started, irq, taskVars, stk, rq, inSchedule, eventVars>>

\* A fault: an ISR may release.
ReleaseResourceErrorAnyLevel(r) ==
  IF r \notin Resources THEN "E_OS_ID"
  ELSE IF ~locked[r] THEN "E_OS_NOFUNC"
  ELSE IF ~Last(r, current) THEN "E_OS_NOFUNC"
  ELSE IF ReadyPrio[current] > ResCeiling[r] THEN "E_OS_ACCESS"
  ELSE "E_OK"

\* Over the idle loop EE_th_resource_last is not read: nothing is locked then.
ReleaseResourceError(r) ==
  IF r \notin Resources THEN "E_OS_ID"
  ELSE IF ~locked[r] THEN "E_OS_NOFUNC"
  ELSE IF ~Last(r, current) THEN "E_OS_NOFUNC"
  ELSE IF irq # 0 THEN "E_OS_ACCESS"
  ELSE IF ReadyPrio[current] > ResCeiling[r] THEN "E_OS_ACCESS"
  ELSE "E_OK"

ReleaseResource(r) ==
  /\ Caller
  /\ \/ Reject(ReleaseResourceError(r))
     \/ /\ Accept(ReleaseResourceError(r))
        /\ held' = [held EXCEPT ![current] = Pop(@)]
        /\ locked' = [locked EXCEPT ![r] = FALSE]
        /\ Become(PreemptionPoint([Now EXCEPT !.ceiling = oldceiling[r]]))
        /\ UNCHANGED <<oo_started, irq, th_rnact, th_nextask, event_active, oldceiling>>

-----------------------------------------------------------------------------
(* Interrupts and shutdown.                                                *)

\* EE_cortex_rx_irq_handler: interrupts stay disabled while the ISR runs.
IRQEnter ==
  /\ Up /\ irq = 0
  /\ irq' = 1
  /\ ret' = "none"
  /\ UNCHANGED <<oo_started, taskVars, schedVars, eventVars, resVars>>

\* The nesting level goes back to 0 and EE_IRQ_end_instance reschedules.
IRQExit ==
  /\ Up /\ irq = 1
  /\ irq' = 0
  /\ Become(Preempt(Now))
  /\ ret' = "none"
  /\ UNCHANGED <<oo_started, th_rnact, th_nextask, event_active, resVars>>

\* EE_oo_ShutdownOS_internal never returns.
ShutdownOS ==
  /\ Caller
  /\ oo_started' = "down"
  /\ ret' = "none"
  /\ UNCHANGED <<irq, taskVars, schedVars, eventVars, resVars>>

\* The endless loop of EE_oo_shutdown.
ShutdownLoop == oo_started = "down" /\ UNCHANGED vars

-----------------------------------------------------------------------------

Masks == (SUBSET Events) \ {{}}

Next ==
  \/ StartOS \/ StartOSAgain
  \/ \E id \in Tasks \cup {NIL} : ActivateTask(id) \/ ChainTask(id)
  \/ TerminateTask \/ TaskBodyReturns
  \/ Schedule \/ ForceSchedule
  \/ \E id \in Tasks \cup {NIL}, mask \in Masks : SetEvent(id, mask)
  \/ \E mask \in Masks : WaitEvent(mask) \/ ClearEvent(mask)
  \/ \E r \in Resources \cup {NIL} : GetResource(r) \/ ReleaseResource(r)
  \/ IRQEnter \/ IRQExit
  \/ ShutdownOS \/ ShutdownLoop

Spec == Init /\ [][Next]_vars

\* What the application owes the kernel: interrupts end, and a task that runs
\* again and again ends its instance and releases each resource it took.
Fairness ==
  /\ WF_vars(IRQExit)
  /\ \A t \in Tasks : SF_vars(InTask /\ current = t /\ TerminateTask /\ ret' = "E_OK")
  /\ \A r \in Resources : SF_vars(InTask /\ ReleaseResource(r) /\ ret' = "E_OK")

FairSpec == Spec /\ Fairness

-----------------------------------------------------------------------------
(* Properties.                                                             *)

Statuses == {"RUNNING", "READY", "WAITING", "SUSPENDED"}
Codes == {"none", "E_OK", "E_OS_ID", "E_OS_LIMIT", "E_OS_CALLEVEL", "E_OS_RESOURCE",
          "E_OS_ACCESS", "E_OS_NOFUNC", "E_OS_STATE"}

\* The types of the variables that a call leaves behind.
StateTypes ==
  /\ oo_started \in {"off", "up", "down"}
  /\ irq \in {0, 1}
  /\ th_status \in [Tasks -> Statuses]
  /\ th_rnact \in [Tasks -> Nat]
  /\ th_nextask \in [Tasks -> Tasks \cup {NIL}]
  /\ sys_ceiling \in SUBSET Levels
  /\ stk \in Seq(Tasks)
  /\ rq \in [Levels -> Seq(Tasks)]
  /\ event_active \in [Tasks -> SUBSET Events]
  /\ event_waitmask \in [Tasks -> SUBSET Events]
  /\ waswaiting \in [Tasks -> BOOLEAN]
  /\ inSchedule \in SUBSET Tasks
  /\ held \in [Tasks -> Seq(Resources)]
  /\ locked \in [Resources -> BOOLEAN]
  /\ oldceiling \in [Resources -> SUBSET Levels]

\* Every variable keeps the type of the C object it stands for.
TypeOK == StateTypes /\ ret \in Codes

\* An application discipline the kernel relies on and does not check: a task
\* that may return from its body without ending itself never chains.
CleanBodies == \A t \in MissingEnd : ChainTargets[t] = {}

OnStack(t) == \E i \in DOMAIN stk : stk[i] = t
Queued(t) == {i \in DOMAIN rq[ReadyPrio[t]] : rq[ReadyPrio[t]][i] = t}
HeldBy(t) == {held[t][i] : i \in DOMAIN held[t]}

\* The levels a stacked task keeps in the system ceiling.
LevelsOf(t) ==
  {IF t \in inSchedule THEN ReadyPrio[t] ELSE DispatchPrio[t]}
    \cup {ResCeiling[r] : r \in HeldBy(t)}

\* The ceiling is pieced together by separate bit operations and by values
\* saved long before (oldceiling); at every point user code runs it is exactly
\* the levels of the tasks on the stack, nothing forgotten and nothing stale.
CeilingExact == sys_ceiling = UNION {LevelsOf(stk[i]) : i \in DOMAIN stk}

\* A task lies above another on the stack only if its priority exceeds all the
\* levels the lower one holds; hence no task is on the stack twice.
StackOrdered ==
  \A i, j \in DOMAIN stk : i < j =>
    \A l \in LevelsOf(stk[i]) : l < ReadyPrio[stk[j]]

\* The status array, the stack and the ready queues are three views of one
\* thing: RUNNING is the top of the stack, READY is below it or queued,
\* WAITING and SUSPENDED are nowhere.
StatusAgrees ==
  \A t \in Tasks :
    /\ th_status[t] = "RUNNING" <=> t = current
    /\ OnStack(t) => th_status[t] \in {"RUNNING", "READY"}
    /\ Queued(t) # {} => th_status[t] \in {"RUNNING", "READY"}
    /\ th_status[t] = "READY" => OnStack(t) \/ Queued(t) # {}

\* Whenever a task or the idle loop runs, no queued task is above the ceiling:
\* no service, interrupt exit or switch leaves a due preemption undone.
NoMissedPreemption == Up /\ irq = 0 => ~Preempts(Now)

\* Mutual exclusion by the ceiling alone: the running task never meets a
\* resource it may use locked by another task, so GetResource never has to
\* refuse a legal request and no task ever waits for a resource.
ResourceNeverContended ==
  \A r \in Resources :
    locked[r] /\ current # NIL /\ ReadyPrio[current] =< ResCeiling[r]
      => r \in HeldBy(current)

\* Priority inversion is bounded to one task: among the tasks on the stack, at
\* most one of lower priority than t holds a level that keeps t from running.
SingleBlocking ==
  \A t \in Tasks :
    Cardinality({i \in DOMAIN stk :
      /\ ReadyPrio[stk[i]] < ReadyPrio[t]
      /\ \E l \in LevelsOf(stk[i]) : l >= ReadyPrio[t]}) =< 1

\* Every activation accepted is either still to run, running, preempted or
\* waiting: none is lost and none is made up, so the queue pairs suffice.
ActivationAccounting ==
  \A t \in Tasks :
    RnactMax[t] = th_rnact[t] + Cardinality(Queued(t))
                  + (IF OnStack(t) \/ th_status[t] = "WAITING" THEN 1 ELSE 0)

\* A task sleeps in WaitEvent only while no event it waits for is active, and
\* one taken out of it has such an event, until it runs.
NoLostWakeup ==
  \A t \in Tasks :
    LET due == event_active[t] \cap event_waitmask[t] IN
    /\ th_status[t] = "WAITING" => waswaiting[t] /\ due = {}
    /\ waswaiting[t] => th_status[t] \in {"WAITING", "READY"}
    /\ waswaiting[t] /\ th_status[t] = "READY" => due # {}

\* An extended task is in the ready queues at most once (the comment of
\* EE_thread_end_instance: "if the task is basic/BCC1 or extended it can be
\* here only because it had rnact=1 before the call").
ExtendedQueuedOnce == \A t \in Extended : Cardinality(Queued(t)) =< 1

\* EE_th_resource_last[current] is read by an ISR only if a resource is locked;
\* then a task is on the stack, and the locked ones are those the tasks hold.
LockedMeansHeld ==
  \A r \in Resources :
    locked[r] <=> \E i \in DOMAIN stk : r \in HeldBy(stk[i])

\* A resource passes from locked to free only in its owner's own call, never
\* by another task, an ISR or the end of another instance.
OnlyOwnerReleases ==
  [][\A r \in Resources :
       locked[r] /\ ~locked'[r] => irq = 0 /\ r \in HeldBy(current)]_vars

\* A task of the highest priority that is ready gets the CPU, unless the system
\* is shut down: nothing below it (preempted tasks, internal resources, Schedule,
\* interrupts) can hold it off for ever or make the kernel forget it.
TopPriorityRuns ==
  \A t \in {u \in Tasks : \A v \in Tasks : ReadyPrio[v] =< ReadyPrio[u]} :
    Queued(t) # {} ~> t = current \/ oo_started = "down"

\* The header of ForceSchedule promises E_OS_CALLEVEL at interrupt level.
ForceScheduleChecksLevel ==
  [][ForceSchedule /\ irq # 0 => ret' = "E_OS_CALLEVEL"]_vars
=============================================================================
