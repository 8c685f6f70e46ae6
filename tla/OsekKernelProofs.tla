--------------------------- MODULE OsekKernelProofs ---------------------------
(***************************************************************************)
(* Theorems about OsekKernel, for every configuration that satisfies its   *)
(* assumptions: its types, and the system ceiling, what it is made of and  *)
(* why tasks of different priority exclude one another by it alone.        *)
(***************************************************************************)
EXTENDS OsekKernel, SequenceTheorems, FiniteSetTheorems, TLAPS

-----------------------------------------------------------------------------
(* Operators.                                                              *)

\* A non-empty set of levels has a highest one: the mask has sixteen bits.
LEMMA HighestExists ==
  ASSUME NEW S \in SUBSET Levels, S # {}
  PROVE  \E m \in S : \A n \in S : n =< m
<1>1. S \subseteq 0 .. 15
  BY TaskAssumption
<1>2. PICK s \in S : TRUE
  OBVIOUS
<1>3. SUFFICES ASSUME \A m \in S : \E n \in S : m < n
              PROVE  FALSE
  BY <1>1
<1> QED BY <1>1, <1>2, <1>3

Queues == [Levels -> Seq(Tasks)]

\* The head of the ready queue is a task at the highest non-empty level.
LEMMA FirstOfQueues ==
  ASSUME NEW q \in Queues, NonEmpty(q) # {}
  PROVE  /\ Highest(q) \in NonEmpty(q)
         /\ Highest(q) \in Levels
         /\ \A m \in NonEmpty(q) : m =< Highest(q)
         /\ RqFirst(q) \in Tasks
         /\ RqRemoveFirst(q) \in Queues
<1>1. NonEmpty(q) \in SUBSET Levels
  BY DEF NonEmpty
<1>2. \E m \in NonEmpty(q) : \A n \in NonEmpty(q) : n =< m
  BY <1>1, HighestExists
<1>3. Highest(q) \in NonEmpty(q) /\ \A m \in NonEmpty(q) : m =< Highest(q)
  BY <1>2 DEF Highest
<1>4. q[Highest(q)] \in Seq(Tasks) /\ q[Highest(q)] # <<>>
  BY <1>3 DEF NonEmpty, Queues
<1>5. Head(q[Highest(q)]) \in Tasks /\ Tail(q[Highest(q)]) \in Seq(Tasks)
  BY <1>4
<1> QED BY <1>1, <1>3, <1>5 DEF RqFirst, RqRemoveFirst, Queues

\* The scheduling state a service computes on, typed.
SchedType ==
  [status : [Tasks -> Statuses], ceiling : SUBSET Levels, stk : Seq(Tasks),
   rq : Queues, inSchedule : SUBSET Tasks, waitmask : [Tasks -> SUBSET Events],
   waswaiting : [Tasks -> BOOLEAN]]

\* The top of a stack of tasks is a task, or NIL when the stack is empty.
LEMMA TopTyped ==
  ASSUME NEW s \in Seq(Tasks)
  PROVE  Top(s) \in Tasks \cup {NIL} /\ (Top(s) # NIL => Top(s) \in Tasks) /\ (s # <<>> => Top(s) \in Tasks)
BY DEF Top

\* Taking the last element keeps the type of a sequence.
LEMMA PopTyped ==
  ASSUME NEW S, NEW s \in Seq(S), s # <<>>
  PROVE  Pop(s) \in Seq(S)
BY DEF Pop

\* The scheduler's part of the state has its type.
LEMMA NowTyped == StateTypes => Now \in SchedType
BY DEF StateTypes, Now, SchedType, Queues

\* Dispatching the first ready task keeps the types.
LEMMA DispatchTyped ==
  ASSUME NEW k \in SchedType, NonEmpty(k.rq) # {}
  PROVE  DispatchFirst(k) \in SchedType
<1> DEFINE f == RqFirst(k.rq)
<1>1. f \in Tasks /\ RqRemoveFirst(k.rq) \in Queues
  BY FirstOfQueues DEF SchedType
<1>2. DispatchPrio[f] \in Levels
  BY <1>1, TaskAssumption
<1>3. Append(k.stk, f) \in Seq(Tasks)
  BY <1>1 DEF SchedType
<1> QED BY <1>1, <1>2, <1>3 DEF DispatchFirst, SchedType, Statuses

\* Resuming the stacked task on top keeps the types.
LEMMA ResumeTyped ==
  ASSUME NEW k \in SchedType
  PROVE  ResumeTop(k) \in SchedType
<1>1. CASE Top(k.stk) = NIL
  BY <1>1 DEF ResumeTop
<1>2. CASE Top(k.stk) # NIL
  <2>1. Top(k.stk) \in Tasks
    BY <1>2, TopTyped DEF SchedType
  <2>2. DispatchPrio[Top(k.stk)] \in Levels
    BY <2>1, TaskAssumption
  <2> QED BY <1>2, <2>1, <2>2 DEF ResumeTop, SchedType, Statuses
<1> QED BY <1>1, <1>2

\* Leaving the running task for the next one keeps the types.
LEMMA SwitchAwayTyped ==
  ASSUME NEW k \in SchedType
  PROVE  SwitchAway(k) \in SchedType
BY DispatchTyped, ResumeTyped DEF SwitchAway, Preempts

\* A preemption, wanted or not, keeps the types.
LEMMA PreemptTyped ==
  ASSUME NEW k \in SchedType
  PROVE  Preempt(k) \in SchedType /\ PreemptionPoint(k) \in SchedType
<1> DEFINE j == [k EXCEPT !.status = [t \in Tasks |-> IF t = Top(k.stk) THEN "READY" ELSE @[t]]]
<1>1. j \in SchedType /\ j.rq = k.rq
  BY DEF SchedType, Statuses
<1>2. NonEmpty(k.rq) # {} => DispatchFirst(j) \in SchedType
  BY <1>1, DispatchTyped
<1> QED BY <1>2 DEF Preempt, PreemptionPoint, Preempts

\* A task inserted in the ready queue leaves it a queue of tasks per level.
LEMMA InsertTyped ==
  ASSUME NEW q \in Queues, NEW t \in Tasks
  PROVE  RqInsert(q, t) \in Queues
<1>1. ReadyPrio[t] \in Levels
  BY TaskAssumption
<1>2. Append(q[ReadyPrio[t]], t) \in Seq(Tasks)
  BY <1>1 DEF Queues
<1> QED BY <1>1, <1>2 DEF RqInsert, Queues

\* Readying a task keeps the types.
LEMMA MakeReadyTyped ==
  ASSUME NEW k \in SchedType, NEW t \in Tasks
  PROVE  MakeReady(k, t) \in SchedType
BY InsertTyped DEF MakeReady, SchedType, Statuses

\* A step that becomes a typed scheduler state is typed.
LEMMA BecomeTyped ==
  ASSUME NEW k \in SchedType, Become(k)
  PROVE  /\ th_status' \in [Tasks -> Statuses]
         /\ sys_ceiling' \in SUBSET Levels
         /\ stk' \in Seq(Tasks)
         /\ rq' \in [Levels -> Seq(Tasks)]
         /\ inSchedule' \in SUBSET Tasks
         /\ event_waitmask' \in [Tasks -> SUBSET Events]
         /\ waswaiting' \in [Tasks -> BOOLEAN]
BY DEF Become, SchedType, Queues

-----------------------------------------------------------------------------
(* Type correctness.                                                       *)

\* Before StartOS no activation is used up, so the autostart finds one.
TypeInv == StateTypes /\ (oo_started = "off" => th_rnact = RnactMax)

\* What every step leaves of the variables outside the scheduling state.
RestTyped ==
  /\ oo_started' \in {"up", "down"}
  /\ irq' \in {0, 1}
  /\ th_rnact' \in [Tasks -> Nat]
  /\ th_nextask' \in [Tasks -> Tasks \cup {NIL}]
  /\ event_active' \in [Tasks -> SUBSET Events]
  /\ held' \in [Tasks -> Seq(Resources)]
  /\ locked' \in [Resources -> BOOLEAN]
  /\ oldceiling' \in [Resources -> SUBSET Levels]

\* With the variables the scheduler does not own typed, so is the whole state.
LEMMA StepTyped ==
  ASSUME NEW k \in SchedType, Become(k), RestTyped
  PROVE  TypeInv'
BY BecomeTyped DEF RestTyped, TypeInv, StateTypes

\* The running task is a task on the stack, or there is none.
LEMMA CurrentTyped ==
  ASSUME StateTypes
  PROVE  /\ current \in Tasks \cup {NIL}
         /\ current # NIL => current \in Tasks /\ stk # <<>>
BY TopTyped DEF StateTypes, current, Top

\* A rejected call.
LEMMA RejectTyped ==
  ASSUME TypeInv, NEW e, Reject(e)
  PROVE  TypeInv'
BY DEF Reject, kernelVars, taskVars, schedVars, eventVars, resVars, TypeInv, StateTypes

\* Clearing the events of a task keeps the type of the masks.
LEMMA ClearEventsTyped ==
  ASSUME StateTypes, NEW st, NEW t \in Tasks
  PROVE  ClearEventsOf(st, t) \in [Tasks -> SUBSET Events]
BY DEF StateTypes, ClearEventsOf

\* A task that leaves the stack leaves a typed scheduler state.
LEMMA LeaveStackTyped ==
  ASSUME NEW k \in SchedType, NEW st \in Statuses, NEW c \in SUBSET Levels,
         current \in Tasks, k.stk # <<>>
  PROVE  LeaveStack(k, st, c) \in SchedType
<1>1. Pop(k.stk) \in Seq(Tasks)
  BY PopTyped DEF SchedType
<1>2. c \ {DispatchPrio[current]} \in SUBSET Levels
  OBVIOUS
<1> QED BY <1>1, <1>2 DEF LeaveStack, SchedType

\* The end of an instance, of a task that has a slot to give back.
LEMMA EndInstanceTyped ==
  ASSUME StateTypes, current # NIL,
         NEW rn \in [Tasks -> Int], \A t \in Tasks \ {current} : rn[t] \in Nat,
         rn[current] + 1 \in Nat,
         NEW c \in SUBSET Levels, NEW next \in Tasks \cup {NIL},
         EndInstance(rn, c, next)
  PROVE  /\ \E k \in SchedType : Become(k)
         /\ th_rnact' \in [Tasks -> Nat]
         /\ event_active' \in [Tasks -> SUBSET Events]
<1>0. current \in Tasks /\ stk # <<>>
  BY CurrentTyped
<1> DEFINE k1 == LeaveStack(Now, IF rn[current] + 1 = RnactMax[current] \/ current = next
                                 THEN "SUSPENDED" ELSE "READY", c)
           k2 == IF next = NIL THEN k1 ELSE MakeReady(k1, next)
<1>1. k1 \in SchedType
  <2>1. Now \in SchedType /\ Now.stk # <<>>
    BY <1>0, NowTyped DEF Now
  <2>2. (IF rn[current] + 1 = RnactMax[current] \/ current = next
         THEN "SUSPENDED" ELSE "READY") \in Statuses
    BY DEF Statuses
  <2> HIDE DEF k1
  <2> QED BY <1>0, <2>1, <2>2, LeaveStackTyped DEF k1
<1>2. k2 \in SchedType
  BY <1>1, MakeReadyTyped
<1>3. Become(SwitchAway(k2))
  BY DEF EndInstance
<1>4. SwitchAway(k2) \in SchedType
  BY <1>2, SwitchAwayTyped
<1>5. th_rnact' = [rn EXCEPT ![current] = rn[current] + 1]
  BY DEF EndInstance
<1>6. event_active' = IF next = NIL THEN event_active ELSE ClearEventsOf(k1.status, next)
  BY DEF EndInstance
<1>7. event_active' \in [Tasks -> SUBSET Events]
  BY <1>6, ClearEventsTyped DEF StateTypes
<1>8. th_rnact' \in [Tasks -> Nat]
  BY <1>0, <1>5
<1> QED BY <1>3, <1>4, <1>7, <1>8

\* StartOS keeps the types.
LEMMA StartOSTyped == TypeInv /\ StartOS => TypeInv'
<1> SUFFICES ASSUME TypeInv, StartOS PROVE TypeInv'
  OBVIOUS
<1> DEFINE st == [t \in Tasks |-> IF InAutostart(t) THEN "READY" ELSE th_status[t]]
           k == [Now EXCEPT !.status = [t \in Tasks |-> IF InAutostart(t) THEN "READY" ELSE @[t]],
                            !.rq = AutostartQueue]
<1>1. k \in SchedType
  <2>1. Now \in SchedType
    BY NowTyped DEF TypeInv
  <2>2. [t \in Tasks |-> IF InAutostart(t) THEN "READY" ELSE Now.status[t]] \in [Tasks -> Statuses]
    BY <2>1 DEF SchedType, Statuses
  <2>3. AutostartQueue \in Queues
    BY AutostartAssumption DEF Queues
  <2> QED BY <2>1, <2>2, <2>3 DEF SchedType
<1>2. (IF NonEmpty(k.rq) = {} THEN k ELSE DispatchFirst(k)) \in SchedType
  BY <1>1, DispatchTyped
<1>3. Become(IF NonEmpty(k.rq) = {} THEN k ELSE DispatchFirst(k))
  BY DEF StartOS
<1>4. th_rnact' \in [Tasks -> Nat]
  <2>1. th_rnact = RnactMax
    BY DEF StartOS, TypeInv
  <2>2. \A t \in Tasks : RnactMax[t] \in Nat /\ RnactMax[t] - 1 \in Nat
    BY TaskAssumption
  <2>3. th_rnact' = [t \in Tasks |-> IF InAutostart(t) THEN th_rnact[t] - 1 ELSE th_rnact[t]]
    BY DEF StartOS
  <2> QED BY <2>1, <2>2, <2>3
<1>5. RestTyped
  BY <1>4 DEF StartOS, RestTyped, TypeInv, StateTypes, resVars
<1> QED BY <1>2, <1>3, <1>5, StepTyped

\* Activate keeps the types.
LEMMA ActivateTyped ==
  ASSUME NEW id \in Tasks \cup {NIL}, TypeInv, ActivateTask(id)
  PROVE  TypeInv'
<1>1. CASE Reject(ActivateError(id))
  BY <1>1, RejectTyped
<1>2. CASE /\ Accept(ActivateError(id))
           /\ th_rnact' = [th_rnact EXCEPT ![id] = @ - 1]
           /\ event_active' = ClearEventsOf(th_status, id)
           /\ Become(PreemptionPoint(MakeReady(Now, id)))
           /\ UNCHANGED <<oo_started, irq, th_nextask, resVars>>
  <2>1. id \in Tasks /\ th_rnact[id] # 0
    BY <1>2 DEF Accept, ActivateError
  <2>2. PreemptionPoint(MakeReady(Now, id)) \in SchedType
    BY <2>1, NowTyped, MakeReadyTyped, PreemptTyped DEF TypeInv
  <2>3. th_rnact' \in [Tasks -> Nat]
    BY <1>2, <2>1 DEF TypeInv, StateTypes
  <2>4. event_active' \in [Tasks -> SUBSET Events]
    BY <1>2, <2>1, ClearEventsTyped DEF TypeInv
  <2>5. RestTyped
    BY <1>2, <2>3, <2>4 DEF RestTyped, ActivateTask, Caller, Up, Accept, TypeInv, StateTypes, resVars
  <2> QED BY <1>2, <2>2, <2>5, StepTyped
<1> QED BY <1>1, <1>2 DEF ActivateTask

\* Terminate keeps the types.
LEMMA TerminateTyped == TypeInv /\ TerminateTask => TypeInv'
<1> SUFFICES ASSUME TypeInv, TerminateTask PROVE TypeInv'
  OBVIOUS
<1>1. CASE Reject(TerminateError)
  BY <1>1, RejectTyped
<1>2. CASE /\ Accept(TerminateError)
           /\ th_nextask' = [th_nextask EXCEPT ![current] = NIL]
           /\ EndInstance(th_rnact, sys_ceiling, NIL)
           /\ UNCHANGED <<oo_started, irq, resVars>>
  <2>1. irq = 0 /\ current # NIL /\ current \in Tasks
    BY <1>2, CurrentTyped DEF Accept, TerminateError, TerminateTask, Caller, TypeInv
  <2>2. /\ \E k \in SchedType : Become(k)
        /\ th_rnact' \in [Tasks -> Nat]
        /\ event_active' \in [Tasks -> SUBSET Events]
    <3>1. /\ th_rnact \in [Tasks -> Int]
          /\ \A t \in Tasks \ {current} : th_rnact[t] \in Nat
          /\ th_rnact[current] + 1 \in Nat
          /\ sys_ceiling \in SUBSET Levels
      BY <2>1 DEF TypeInv, StateTypes
    <3> QED BY <1>2, <2>1, <3>1, EndInstanceTyped DEF TypeInv
  <2>3. RestTyped
    BY <1>2, <2>1, <2>2 DEF RestTyped, TerminateTask, Caller, Up, Accept, TypeInv, StateTypes, resVars
  <2> QED BY <2>2, <2>3, StepTyped
<1> QED BY <1>1, <1>2 DEF TerminateTask

\* Chain keeps the types.
LEMMA ChainTyped ==
  ASSUME NEW id \in Tasks \cup {NIL}, TypeInv, ChainTask(id)
  PROVE  TypeInv'
<1>1. CASE Reject(ChainError(id))
  BY <1>1, RejectTyped
<1>2. CASE /\ Accept(ChainError(id))
           /\ th_nextask' = [th_nextask EXCEPT ![current] = id]
           /\ EndInstance([th_rnact EXCEPT ![id] = @ - 1], sys_ceiling, id)
           /\ UNCHANGED <<oo_started, irq, resVars>>
  <2>1. /\ current # NIL /\ current \in Tasks
        /\ id \in Tasks /\ (id # current => th_rnact[id] # 0)
    BY <1>2, CurrentTyped DEF Accept, ChainError, CallLevel, TypeInv
  <2>2. /\ \E k \in SchedType : Become(k)
        /\ th_rnact' \in [Tasks -> Nat]
        /\ event_active' \in [Tasks -> SUBSET Events]
    <3> DEFINE rn == [th_rnact EXCEPT ![id] = @ - 1]
    <3>1. /\ rn \in [Tasks -> Int]
          /\ \A t \in Tasks \ {current} : rn[t] \in Nat
          /\ rn[current] + 1 \in Nat
          /\ sys_ceiling \in SUBSET Levels
      BY <2>1 DEF TypeInv, StateTypes
    <3> HIDE DEF rn
    <3>2. EndInstance(rn, sys_ceiling, id)
      BY <1>2 DEF rn
    <3> QED BY <2>1, <3>1, <3>2, EndInstanceTyped DEF TypeInv
  <2>3. RestTyped
    BY <1>2, <2>1, <2>2 DEF RestTyped, ChainTask, Caller, Up, Accept, TypeInv, StateTypes, resVars
  <2> QED BY <2>2, <2>3, StepTyped
<1> QED BY <1>1, <1>2 DEF ChainTask

\* BodyReturns keeps the types.
LEMMA BodyReturnsTyped == TypeInv /\ TaskBodyReturns => TypeInv'
<1> SUFFICES ASSUME TypeInv, TaskBodyReturns PROVE TypeInv'
  OBVIOUS
<1>1. current # NIL /\ current \in Tasks
  BY CurrentTyped DEF TaskBodyReturns, InTask, TypeInv
<1>2. CeilingReleased(current) \in SUBSET Levels
  <2>1. held[current] \in Seq(Resources)
    BY <1>1 DEF TypeInv, StateTypes
  <2>2. held[current] # <<>> => held[current][1] \in Resources
    BY <2>1
  <2> QED BY <2>2 DEF CeilingReleased, TypeInv, StateTypes
<1>3. th_nextask[current] \in Tasks \cup {NIL}
  BY <1>1 DEF TypeInv, StateTypes
<1>4. /\ \E k \in SchedType : Become(k)
      /\ th_rnact' \in [Tasks -> Nat]
      /\ event_active' \in [Tasks -> SUBSET Events]
  <2>1. /\ th_rnact \in [Tasks -> Int]
        /\ \A t \in Tasks \ {current} : th_rnact[t] \in Nat
        /\ th_rnact[current] + 1 \in Nat
    BY <1>1 DEF TypeInv, StateTypes
  <2>2. EndInstance(th_rnact, CeilingReleased(current), th_nextask[current])
    BY DEF TaskBodyReturns
  <2> QED BY <1>1, <1>2, <1>3, <2>1, <2>2, EndInstanceTyped DEF TypeInv
<1>5. held' \in [Tasks -> Seq(Resources)] /\ locked' \in [Resources -> BOOLEAN]
  <2>1. held' = [held EXCEPT ![current] = <<>>]
    BY DEF TaskBodyReturns, ReleaseAll
  <2>2. \E f \in [Resources -> BOOLEAN] : locked' = f
    BY DEF TaskBodyReturns, ReleaseAll, TypeInv, StateTypes
  <2> QED BY <1>1, <2>1, <2>2 DEF TypeInv, StateTypes
<1>6. RestTyped
  BY <1>4, <1>5 DEF RestTyped, TaskBodyReturns, InTask, Up, TypeInv, StateTypes
<1> QED BY <1>4, <1>6, StepTyped

\* Schedule keeps the types.
LEMMA ScheduleTyped == TypeInv /\ Schedule => TypeInv'
<1> SUFFICES ASSUME TypeInv, Schedule PROVE TypeInv'
  OBVIOUS
<1>1. CASE Reject(ScheduleError)
  BY <1>1, RejectTyped
<1>2. CASE /\ Accept(ScheduleError)
           /\ Become(ScheduleSwitch(Now))
           /\ UNCHANGED <<oo_started, irq, th_rnact, th_nextask, event_active, resVars>>
  <2>1. current \in Tasks
    BY <1>2, CurrentTyped DEF Accept, ScheduleError, CallLevel, TypeInv
  <2> DEFINE j == [Now EXCEPT !.status[current] = "READY",
                   !.ceiling = (@ \ {DispatchPrio[current]}) \cup {ReadyPrio[current]},
                   !.inSchedule = @ \cup {current}]
  <2>2. j \in SchedType /\ j.rq = Now.rq
    <3>1. Now \in SchedType
      BY NowTyped DEF TypeInv
    <3>2. ReadyPrio[current] \in Levels
      BY <2>1, TaskAssumption
    <3> QED BY <2>1, <3>1, <3>2 DEF SchedType, Statuses
  <2>3. ScheduleSwitch(Now) \in SchedType
    <3>1. NonEmpty(Now.rq) # {} => DispatchFirst(j) \in SchedType
      BY <2>2, DispatchTyped
    <3> QED BY <3>1, NowTyped DEF ScheduleSwitch, TypeInv
  <2>4. RestTyped
    BY <1>2 DEF RestTyped, Schedule, Caller, Up, Accept, TypeInv, StateTypes, resVars
  <2> QED BY <1>2, <2>3, <2>4, StepTyped
<1> QED BY <1>1, <1>2 DEF Schedule

\* ForceSchedule keeps the types.
LEMMA ForceScheduleTyped == TypeInv /\ ForceSchedule => TypeInv'
<1> SUFFICES ASSUME TypeInv, ForceSchedule PROVE TypeInv'
  OBVIOUS
<1>1. PreemptionPoint(Now) \in SchedType
  BY NowTyped, PreemptTyped DEF TypeInv
<1>2. RestTyped
  BY DEF RestTyped, ForceSchedule, Caller, Up, TypeInv, StateTypes, resVars
<1> QED BY <1>1, <1>2, StepTyped DEF ForceSchedule

\* SetEvent keeps the types.
LEMMA SetEventTyped ==
  ASSUME NEW id \in Tasks \cup {NIL}, NEW mask \in Masks, TypeInv, SetEvent(id, mask)
  PROVE  TypeInv'
<1>1. CASE Reject(SetEventError(id))
  BY <1>1, RejectTyped
<1>2. CASE /\ Accept(SetEventError(id))
           /\ event_active' = [event_active EXCEPT ![id] = @ \cup mask]
           /\ Become(IF Wakes(id, mask)
                     THEN PreemptionPoint([Now EXCEPT !.status[id] = "READY",
                                                      !.rq = RqInsert(@, id)])
                     ELSE Now)
           /\ UNCHANGED <<oo_started, irq, th_rnact, th_nextask, resVars>>
  <2> DEFINE j == [Now EXCEPT !.status[id] = "READY", !.rq = RqInsert(@, id)]
  <2>1. id \in Tasks
    BY <1>2 DEF Accept, SetEventError
  <2>2. Now \in SchedType
    BY NowTyped DEF TypeInv
  <2>3. j \in SchedType
    <3>1. RqInsert(Now.rq, id) \in Queues
      BY <2>1, <2>2, InsertTyped DEF SchedType
    <3> QED BY <2>1, <2>2, <3>1 DEF SchedType, Statuses
  <2> HIDE DEF j
  <2>4. (IF Wakes(id, mask) THEN PreemptionPoint(j) ELSE Now) \in SchedType
    BY <2>2, <2>3, PreemptTyped
  <2>5. Become(IF Wakes(id, mask) THEN PreemptionPoint(j) ELSE Now)
    BY <1>2 DEF j
  <2>6. event_active' \in [Tasks -> SUBSET Events]
    BY <1>2, <2>1 DEF Masks, TypeInv, StateTypes
  <2>7. RestTyped
    BY <1>2, <2>6 DEF RestTyped, SetEvent, Caller, Up, Accept, TypeInv, StateTypes, resVars
  <2> QED BY <2>4, <2>5, <2>7, StepTyped
<1> QED BY <1>1, <1>2 DEF SetEvent

\* WaitEvent keeps the types.
LEMMA WaitEventTyped ==
  ASSUME NEW mask \in Masks, TypeInv, WaitEvent(mask)
  PROVE  TypeInv'
<1>1. CASE Reject(WaitEventError)
  BY <1>1, RejectTyped
<1>2. CASE /\ Accept(WaitEventError)
           /\ Become(IF event_active[current] \cap mask # {} THEN Now
                     ELSE SwitchAway(Block([Now EXCEPT !.waitmask[current] = mask])))
           /\ UNCHANGED <<oo_started, irq, th_rnact, th_nextask, event_active, resVars>>
  <2> DEFINE j == [Now EXCEPT !.waitmask[current] = mask]
  <2>1. current \in Tasks /\ stk # <<>>
    BY <1>2, CurrentTyped DEF Accept, WaitEventError, CallLevel, TypeInv
  <2>2. Now \in SchedType
    BY NowTyped DEF TypeInv
  <2>3. j \in SchedType /\ j.stk # <<>>
    BY <2>1, <2>2 DEF SchedType, Masks, Now
  <2> HIDE DEF j
  <2>4. LeaveStack(j, "WAITING", j.ceiling) \in SchedType
    <3>1. j.ceiling \in SUBSET Levels /\ "WAITING" \in Statuses
      BY <2>3 DEF SchedType, Statuses
    <3> QED BY <2>1, <2>3, <3>1, LeaveStackTyped
  <2>5. Block(j) \in SchedType
    BY <2>1, <2>4 DEF Block, SchedType
  <2>6. (IF event_active[current] \cap mask # {} THEN Now ELSE SwitchAway(Block(j))) \in SchedType
    BY <2>2, <2>5, SwitchAwayTyped
  <2>7. Become(IF event_active[current] \cap mask # {} THEN Now ELSE SwitchAway(Block(j)))
    BY <1>2 DEF j
  <2>8. RestTyped
    BY <1>2 DEF RestTyped, WaitEvent, Caller, Up, Accept, TypeInv, StateTypes, resVars
  <2> QED BY <2>6, <2>7, <2>8, StepTyped
<1> QED BY <1>1, <1>2 DEF WaitEvent

\* ClearEvent keeps the types.
LEMMA ClearEventTyped ==
  ASSUME NEW mask \in Masks, TypeInv, ClearEvent(mask)
  PROVE  TypeInv'
<1>1. CASE Reject(ClearEventError)
  BY <1>1, RejectTyped
<1>2. CASE /\ Accept(ClearEventError)
           /\ event_active' = [event_active EXCEPT ![current] = @ \ mask]
           /\ UNCHANGED <<oo_started, irq, taskVars, schedVars, event_waitmask,
                          waswaiting, resVars>>
  <2>1. current \in Tasks
    BY <1>2, CurrentTyped DEF Accept, ClearEventError, CallLevel, TypeInv
  <2> QED BY <1>2, <2>1 DEF ClearEvent, Caller, Up, Accept, TypeInv, StateTypes, taskVars,
             schedVars, resVars
<1> QED BY <1>1, <1>2 DEF ClearEvent

\* GetResource keeps the types.
LEMMA GetResourceTyped ==
  ASSUME NEW r \in Resources \cup {NIL}, TypeInv, GetResource(r)
  PROVE  TypeInv'
<1>1. CASE Reject(GetResourceError(r))
  BY <1>1, RejectTyped
<1>2. CASE /\ Accept(GetResourceError(r))
           /\ held' = [held EXCEPT ![current] = Append(@, r)]
           /\ locked' = [locked EXCEPT ![r] = TRUE]
           /\ oldceiling' = [oldceiling EXCEPT ![r] = sys_ceiling]
           /\ sys_ceiling' = sys_ceiling \cup {ResCeiling[r]}
           /\ UNCHANGED <<oo_started, irq, taskVars, stk, rq, inSchedule, eventVars>>
  <2>1. r \in Resources /\ irq = 0
    BY <1>2 DEF Accept, GetResourceError, TypeInv, StateTypes
  <2>2. current \in Tasks
    BY <2>1, CurrentTyped DEF GetResource, Caller, TypeInv
  <2>3. held' \in [Tasks -> Seq(Resources)]
    <3>1. Append(held[current], r) \in Seq(Resources)
      BY <2>1, <2>2 DEF TypeInv, StateTypes
    <3> QED BY <1>2, <2>2, <3>1 DEF TypeInv, StateTypes
  <2>4. ResCeiling[r] \in Levels
    BY <2>1, ResourceAssumption
  <2> QED BY <1>2, <2>1, <2>3, <2>4 DEF GetResource, Caller, Up, Accept, TypeInv, StateTypes,
             taskVars, eventVars
<1> QED BY <1>1, <1>2 DEF GetResource

\* ReleaseResource keeps the types.
LEMMA ReleaseResourceTyped ==
  ASSUME NEW r \in Resources \cup {NIL}, TypeInv, ReleaseResource(r)
  PROVE  TypeInv'
<1>1. CASE Reject(ReleaseResourceError(r))
  BY <1>1, RejectTyped
<1>2. CASE /\ Accept(ReleaseResourceError(r))
           /\ held' = [held EXCEPT ![current] = Pop(@)]
           /\ locked' = [locked EXCEPT ![r] = FALSE]
           /\ Become(PreemptionPoint([Now EXCEPT !.ceiling = oldceiling[r]]))
           /\ UNCHANGED <<oo_started, irq, th_rnact, th_nextask, event_active, oldceiling>>
  <2>1. r \in Resources /\ irq = 0 /\ held[current] # <<>>
    BY <1>2 DEF Accept, ReleaseResourceError, Last, TypeInv, StateTypes
  <2>2. current \in Tasks
    BY <2>1, CurrentTyped DEF ReleaseResource, Caller, TypeInv
  <2>3. held' \in [Tasks -> Seq(Resources)]
    <3>1. Pop(held[current]) \in Seq(Resources)
      BY <2>1, <2>2, PopTyped DEF TypeInv, StateTypes
    <3> QED BY <1>2, <2>2, <3>1 DEF TypeInv, StateTypes
  <2>4. [Now EXCEPT !.ceiling = oldceiling[r]] \in SchedType
    BY <2>1, NowTyped DEF SchedType, TypeInv, StateTypes
  <2>5. PreemptionPoint([Now EXCEPT !.ceiling = oldceiling[r]]) \in SchedType
    BY <2>4, PreemptTyped
  <2>6. RestTyped
    BY <1>2, <2>1, <2>3 DEF RestTyped, ReleaseResource, Caller, Up, Accept, TypeInv, StateTypes
  <2> QED BY <1>2, <2>5, <2>6, StepTyped
<1> QED BY <1>1, <1>2 DEF ReleaseResource

\* IRQExit keeps the types.
LEMMA IRQExitTyped == TypeInv /\ IRQExit => TypeInv'
<1> SUFFICES ASSUME TypeInv, IRQExit PROVE TypeInv'
  OBVIOUS
<1>1. Preempt(Now) \in SchedType
  BY NowTyped, PreemptTyped DEF TypeInv
<1>2. RestTyped
  BY DEF RestTyped, IRQExit, Up, TypeInv, StateTypes, resVars
<1> QED BY <1>1, <1>2, StepTyped DEF IRQExit

\* The initial states are typed.
LEMMA InitTyped == Init => TypeInv
<1> SUFFICES ASSUME Init PROVE TypeInv
  OBVIOUS
<1>1. RnactMax \in [Tasks -> Nat]
  BY TaskAssumption
<1> QED BY <1>1 DEF Init, TypeInv, StateTypes, Statuses

\* Every step keeps the types.
LEMMA NextTyped == TypeInv /\ [Next]_vars => TypeInv'
<1> SUFFICES ASSUME TypeInv, [Next]_vars PROVE TypeInv'
  OBVIOUS
<1> USE DEF kernelVars, taskVars, schedVars, eventVars, resVars
<1>1. CASE UNCHANGED vars
  BY <1>1 DEF vars, TypeInv, StateTypes
<1>2. CASE StartOS \/ StartOSAgain
  BY <1>2, StartOSTyped, RejectTyped DEF StartOSAgain
<1>3. ASSUME NEW id \in Tasks \cup {NIL}, ActivateTask(id) \/ ChainTask(id)
      PROVE  TypeInv'
  BY <1>3, ActivateTyped, ChainTyped
<1>4. CASE TerminateTask \/ TaskBodyReturns \/ Schedule \/ ForceSchedule
  BY <1>4, TerminateTyped, BodyReturnsTyped, ScheduleTyped, ForceScheduleTyped
<1>5. ASSUME NEW id \in Tasks \cup {NIL}, NEW mask \in Masks, SetEvent(id, mask)
      PROVE  TypeInv'
  BY <1>5, SetEventTyped
<1>6. ASSUME NEW mask \in Masks, WaitEvent(mask) \/ ClearEvent(mask)
      PROVE  TypeInv'
  BY <1>6, WaitEventTyped, ClearEventTyped
<1>7. ASSUME NEW r \in Resources \cup {NIL}, GetResource(r) \/ ReleaseResource(r)
      PROVE  TypeInv'
  BY <1>7, GetResourceTyped, ReleaseResourceTyped
<1>8. CASE IRQEnter
  BY <1>8 DEF IRQEnter, Up, TypeInv, StateTypes
<1>9. CASE IRQExit
  BY <1>9, IRQExitTyped
<1>10. CASE ShutdownOS \/ ShutdownLoop
  BY <1>10 DEF ShutdownOS, ShutdownLoop, Caller, Up, vars, TypeInv, StateTypes
<1> QED BY <1>1, <1>2, <1>3, <1>4, <1>5, <1>6, <1>7, <1>8, <1>9, <1>10 DEF Next

\* What a call returns is a status code.
LEMMA RetTyped ==
  ASSUME ret \in Codes, [Next]_vars
  PROVE  ret' \in Codes
<1> USE DEF Reject, Accept, Codes
<1>1. CASE UNCHANGED vars
  BY <1>1 DEF vars
<1>2. CASE StartOS \/ StartOSAgain \/ TerminateTask \/ TaskBodyReturns
  BY <1>2 DEF StartOS, StartOSAgain, TerminateTask, TaskBodyReturns, TerminateError
<1>3. ASSUME NEW id \in Tasks \cup {NIL}, ActivateTask(id) \/ ChainTask(id)
      PROVE  ret' \in Codes
  BY <1>3 DEF ActivateTask, ActivateError, ChainTask, ChainError
<1>4. CASE Schedule \/ ForceSchedule
  BY <1>4 DEF Schedule, ScheduleError, ForceSchedule
<1>5. ASSUME NEW id \in Tasks \cup {NIL}, NEW mask \in Masks, SetEvent(id, mask)
      PROVE  ret' \in Codes
  BY <1>5 DEF SetEvent, SetEventError
<1>6. ASSUME NEW mask \in Masks, WaitEvent(mask) \/ ClearEvent(mask)
      PROVE  ret' \in Codes
  BY <1>6 DEF WaitEvent, WaitEventError, ClearEvent, ClearEventError
<1>7. ASSUME NEW r \in Resources \cup {NIL}, GetResource(r) \/ ReleaseResource(r)
      PROVE  ret' \in Codes
  BY <1>7 DEF GetResource, GetResourceError, ReleaseResource, ReleaseResourceError
<1>8. CASE IRQEnter \/ IRQExit \/ ShutdownOS \/ ShutdownLoop
  BY <1>8 DEF IRQEnter, IRQExit, ShutdownOS, ShutdownLoop, vars
<1> QED BY <1>1, <1>2, <1>3, <1>4, <1>5, <1>6, <1>7, <1>8 DEF Next

\* Every variable keeps its type: no activation count wraps below zero, also
\* when a task chains to itself with none left.
THEOREM TypeCorrect == Spec => []TypeOK
<1>1. Spec => []TypeInv
  BY InitTyped, NextTyped, PTL DEF Spec
<1>2. Init => ret \in Codes
  BY DEF Init, Codes
<1>3. ret \in Codes /\ [Next]_vars => (ret \in Codes)'
  BY RetTyped
<1>4. Spec => [](ret \in Codes)
  BY <1>2, <1>3, PTL DEF Spec
<1>5. TypeInv /\ ret \in Codes => TypeOK
  BY DEF TypeInv, TypeOK
<1> QED BY <1>1, <1>4, <1>5, PTL

-----------------------------------------------------------------------------
(* The stack and its levels, with the variables as parameters: c is the    *)
(* ceiling, s the stack, S the tasks inside Schedule, h the resources      *)
(* held, oc the saved ceilings.                                            *)

Lv(t, S, h) ==
  {IF t \in S THEN ReadyPrio[t] ELSE DispatchPrio[t]}
    \cup {ResCeiling[h[t][i]] : i \in 1 .. Len(h[t])}

\* The levels of the n lowest tasks of the stack.
Base(s, n, S, h) == {l \in Levels : \E i \in 1 .. n : l \in Lv(s[i], S, h)}

\* The ceiling t has before it takes the resource n of those it holds.
Saved(s, i, n, S, h) ==
  Base(s, i - 1, S, h) \cup {DispatchPrio[s[i]]}
    \cup {ResCeiling[h[s[i]][m]] : m \in 1 .. n - 1}

Stack(c, s, S, h, oc) ==
  /\ c = Base(s, Len(s), S, h)
  /\ \A i, j \in 1 .. Len(s) : i < j => \A l \in Lv(s[i], S, h) : l < ReadyPrio[s[j]]
  /\ \A t \in S : \E i \in 1 .. Len(s) : s[i] = t
  /\ \A t \in Tasks : h[t] # <<>> => t \notin S /\ \E i \in 1 .. Len(s) : s[i] = t
  /\ \A i \in 1 .. Len(s) : \A n \in 1 .. Len(h[s[i]]) :
       oc[h[s[i]][n]] = Saved(s, i, n, S, h)

\* The running task is not inside Schedule.
TopFree(s, S) == s # <<>> => s[Len(s)] \notin S

Sets(c, s, S, h, oc) ==
  /\ c \in SUBSET Levels
  /\ s \in Seq(Tasks)
  /\ S \in SUBSET Tasks
  /\ h \in [Tasks -> Seq(Resources)]
  /\ oc \in [Resources -> SUBSET Levels]

\* Priorities and ceilings are levels, and no task is dispatched below its ready priority.
LEMMA Prios ==
  /\ \A l \in Levels : l \in Int
  /\ \A t \in Tasks : ReadyPrio[t] \in Levels
  /\ \A t \in Tasks : DispatchPrio[t] \in Levels
  /\ \A t \in Tasks : ReadyPrio[t] =< DispatchPrio[t]
  /\ \A r \in Resources : ResCeiling[r] \in Levels
<1>1. \A l \in Levels : l \in Int
  BY TaskAssumption
<1>2. \A t \in Tasks : ReadyPrio[t] \in Levels
  BY TaskAssumption
<1>3. \A t \in Tasks : DispatchPrio[t] \in Levels
  BY TaskAssumption
<1>4. \A t \in Tasks : ReadyPrio[t] =< DispatchPrio[t]
  BY TaskAssumption
<1> QED BY <1>1, <1>2, <1>3, <1>4, ResourceAssumption

\* What a task holds on the ceiling is a set of levels.
LEMMA LevelsTyped ==
  ASSUME NEW S, S \in SUBSET Tasks, NEW h, h \in [Tasks -> Seq(Resources)],
         NEW t, t \in Tasks
  PROVE  Lv(t, S, h) \in SUBSET Levels
<1>1. \A i \in 1 .. Len(h[t]) : h[t][i] \in Resources
  BY ElementOfSeq
<1> QED BY <1>1, Prios DEF Lv

\* It reaches at least the ready priority of the task.
LEMMA LevelsReach ==
  ASSUME NEW S, S \in SUBSET Tasks, NEW h, h \in [Tasks -> Seq(Resources)],
         NEW t, t \in Tasks
  PROVE  \E l \in Lv(t, S, h) : ReadyPrio[t] =< l
<1> DEFINE l == IF t \in S THEN ReadyPrio[t] ELSE DispatchPrio[t]
<1>1. l \in Lv(t, S, h)
  BY DEF Lv
<1>2. ReadyPrio[t] \in Int /\ ReadyPrio[t] =< DispatchPrio[t]
  BY Prios
<1>3. ReadyPrio[t] =< l
  BY <1>2
<1> QED BY <1>1, <1>3

\* A task with no resource holds its dispatch priority, or its ready one inside Schedule.
LEMMA LevelsFree ==
  ASSUME NEW S, S \in SUBSET Tasks, NEW h, h \in [Tasks -> Seq(Resources)],
         NEW t, t \in Tasks,
         h[t] = <<>>
  PROVE  Lv(t, S, h) = {IF t \in S THEN ReadyPrio[t] ELSE DispatchPrio[t]}
<1>1. 1 .. Len(h[t]) = {}
  OBVIOUS
<1> QED BY <1>1 DEF Lv

\* The same resources raise the same levels.
LEMMA SameLevels ==
  ASSUME NEW I, NEW p, NEW q, \A i \in I : p[i] = q[i]
  PROVE  {ResCeiling[p[i]] : i \in I} = {ResCeiling[q[i]] : i \in I}
OBVIOUS

\* The levels held by the first n stacked tasks: those of n - 1 and of the n-th.
LEMMA BaseSplit ==
  ASSUME NEW s, s \in Seq(Tasks), NEW S, S \in SUBSET Tasks,
         NEW h, h \in [Tasks -> Seq(Resources)], NEW n, n \in 1 .. Len(s)
  PROVE  Base(s, n, S, h) = Base(s, n - 1, S, h) \cup Lv(s[n], S, h)
<1>1. Lv(s[n], S, h) \in SUBSET Levels
  BY LevelsTyped
<1>2. 1 .. n = (1 .. n - 1) \cup {n}
  OBVIOUS
<1> QED BY <1>1, <1>2 DEF Base

\* Every level held below a stacked task is under that task's ready priority.
LEMMA BaseBelow ==
  ASSUME NEW c, NEW s, NEW S, NEW h, NEW oc, Sets(c, s, S, h, oc), Stack(c, s, S, h, oc),
         NEW n \in 1 .. Len(s)
  PROVE  \A l \in Base(s, n - 1, S, h) : l < ReadyPrio[s[n]]
<1> SUFFICES ASSUME NEW l \in Base(s, n - 1, S, h) PROVE l < ReadyPrio[s[n]]
  OBVIOUS
<1>1. PICK i \in 1 .. n - 1 : l \in Lv(s[i], S, h)
  BY DEF Base
<1>2. Len(s) \in Nat
  BY DEF Sets
<1>3. i \in 1 .. Len(s) /\ i < n
  BY <1>2
<1>4. \A m, k \in 1 .. Len(s) : m < k => \A x \in Lv(s[m], S, h) : x < ReadyPrio[s[k]]
  BY DEF Stack
<1> QED BY <1>1, <1>3, <1>4

\* A task is on the stack once.
LEMMA StackDistinct ==
  ASSUME NEW c, NEW s, NEW S, NEW h, NEW oc, Sets(c, s, S, h, oc), Stack(c, s, S, h, oc),
         NEW i \in 1 .. Len(s), NEW j \in 1 .. Len(s), s[i] = s[j]
  PROVE  i = j
<1>0. Len(s) \in Nat /\ \A m \in 1 .. Len(s) : s[m] \in Tasks
  BY ElementOfSeq DEF Sets
<1>1. ASSUME NEW a \in 1 .. Len(s), NEW b \in 1 .. Len(s), a < b, s[a] = s[b]
      PROVE  FALSE
  <2>0. s[a] \in Tasks
    BY <1>0
  <2>1. PICK l \in Lv(s[a], S, h) : ReadyPrio[s[a]] =< l
    <3>1. S \in SUBSET Tasks /\ h \in [Tasks -> Seq(Resources)]
      BY DEF Sets
    <3>2. \A t \in Tasks : \E l \in Lv(t, S, h) : ReadyPrio[t] =< l
      BY <3>1, LevelsReach
    <3> QED BY <2>0, <3>2
  <2>2. \A m, k \in 1 .. Len(s) : m < k => \A x \in Lv(s[m], S, h) : x < ReadyPrio[s[k]]
    BY DEF Stack
  <2>3. l < ReadyPrio[s[a]]
    BY <1>1, <2>2
  <2>4. l \in Levels /\ ReadyPrio[s[a]] \in Levels
    BY <2>0, LevelsTyped, Prios DEF Sets
  <2>5. l \in Int /\ ReadyPrio[s[a]] \in Int
    BY <2>4, Prios
  <2> QED BY <2>1, <2>3, <2>5
<1> QED BY <1>0, <1>1

-----------------------------------------------------------------------------
(* The steps of a switch keep the stack.                                   *)

\* A task above the ceiling is not on the stack.
LEMMA AboveIsNew ==
  ASSUME NEW c, NEW s, NEW S, NEW h, NEW oc, Sets(c, s, S, h, oc), Stack(c, s, S, h, oc),
         NEW f \in Tasks, \A l \in c : l < ReadyPrio[f]
  PROVE  \A i \in 1 .. Len(s) : s[i] # f
<1> SUFFICES ASSUME NEW i \in 1 .. Len(s), s[i] = f PROVE FALSE
  OBVIOUS
<1>1. S \in SUBSET Tasks /\ h \in [Tasks -> Seq(Resources)]
  BY DEF Sets
<1>2. PICK l \in Lv(f, S, h) : ReadyPrio[f] =< l
  BY <1>1, LevelsReach
<1>3. l \in Levels
  BY <1>1, LevelsTyped
<1>4. l \in Base(s, Len(s), S, h)
  BY <1>3 DEF Base
<1>5. l < ReadyPrio[f]
  BY <1>4 DEF Stack
<1>6. l \in Int /\ ReadyPrio[f] \in Int
  BY <1>3, Prios
<1> QED BY <1>2, <1>5, <1>6

\* A task above the ceiling may be pushed.
LEMMA PushKeepsStack ==
  ASSUME NEW c, NEW s, NEW S, NEW h, NEW oc, Sets(c, s, S, h, oc), Stack(c, s, S, h, oc),
         NEW f, f \in Tasks, \A l \in c : l < ReadyPrio[f]
  PROVE  /\ Stack(c \cup {DispatchPrio[f]}, Append(s, f), S, h, oc)
         /\ TopFree(Append(s, f), S)
<1> DEFINE p == Append(s, f)
           n == Len(s)
<1>1. S \in SUBSET Tasks /\ h \in [Tasks -> Seq(Resources)] /\ s \in Seq(Tasks)
  BY DEF Sets
<1>2. n \in Nat /\ Len(p) = n + 1
  BY <1>1
<1>3. p \in Seq(Tasks)
  BY <1>1
<1>4. \A i \in 1 .. n : p[i] = s[i]
  BY <1>1
<1>5. p[n + 1] = f
  BY <1>1
<1>6. \A i \in 1 .. n : s[i] # f
  BY AboveIsNew
<1>7. f \notin S /\ h[f] = <<>>
  BY <1>6 DEF Stack
<1>8. Lv(f, S, h) = {DispatchPrio[f]}
  BY <1>1, <1>7, LevelsFree
<1> HIDE DEF p, n
<1>9. \A m \in 0 .. n : Base(p, m, S, h) = Base(s, m, S, h)
  <2> SUFFICES ASSUME NEW m \in 0 .. n PROVE Base(p, m, S, h) = Base(s, m, S, h)
    OBVIOUS
  <2>1. \A i \in 1 .. m : p[i] = s[i]
    BY <1>2, <1>4
  <2> QED BY <2>1 DEF Base
<1>10. Base(p, n + 1, S, h) = Base(s, n, S, h) \cup {DispatchPrio[f]}
  <2>1. 1 .. n + 1 = (1 .. n) \cup {n + 1}
    BY <1>2
  <2>2. DispatchPrio[f] \in Levels
    BY Prios
  <2>3. Base(p, n, S, h) = Base(s, n, S, h)
    BY <1>2, <1>9
  <2>4. Base(p, n + 1, S, h) = Base(p, n, S, h) \cup {DispatchPrio[f]}
    BY <1>5, <1>8, <2>1, <2>2 DEF Base
  <2> QED BY <2>3, <2>4
<1>11. c \cup {DispatchPrio[f]} = Base(p, Len(p), S, h)
  BY <1>2, <1>10 DEF Stack, n
<1>12. \A i, j \in 1 .. Len(p) : i < j => \A l \in Lv(p[i], S, h) : l < ReadyPrio[p[j]]
  <2> SUFFICES ASSUME NEW i \in 1 .. n + 1, NEW j \in 1 .. n + 1, i < j,
                      NEW l \in Lv(p[i], S, h)
               PROVE  l < ReadyPrio[p[j]]
    BY <1>2
  <2>1. i \in 1 .. n
    BY <1>2
  <2>2. p[i] = s[i] /\ s[i] \in Tasks
    BY <1>1, <1>4, <2>1, ElementOfSeq DEF n
  <2>3. CASE j = n + 1
    <3>1. l \in Levels
      BY <1>1, <2>2, LevelsTyped
    <3>2. l \in Base(s, n, S, h)
      BY <2>1, <2>2, <3>1 DEF Base
    <3>3. l \in c
      BY <3>2 DEF Stack, n
    <3> QED BY <1>5, <2>3, <3>3
  <2>4. CASE j # n + 1
    <3>1. j \in 1 .. n
      BY <1>2, <2>4
    <3>2. p[j] = s[j]
      BY <1>4, <3>1
    <3>3. \A a, b \in 1 .. n : a < b => \A x \in Lv(s[a], S, h) : x < ReadyPrio[s[b]]
      BY DEF Stack, n
    <3> QED BY <2>1, <2>2, <3>1, <3>2, <3>3
  <2> QED BY <2>3, <2>4
<1>13. \A i \in 1 .. Len(p) : \A m \in 1 .. Len(h[p[i]]) : oc[h[p[i]][m]] = Saved(p, i, m, S, h)
  <2> SUFFICES ASSUME NEW i \in 1 .. n + 1, NEW m \in 1 .. Len(h[p[i]])
               PROVE  oc[h[p[i]][m]] = Saved(p, i, m, S, h)
    BY <1>2
  <2>1. i # n + 1
    BY <1>5, <1>7
  <2>2. i \in 1 .. n /\ i - 1 \in 0 .. n
    BY <1>2, <2>1
  <2>3. p[i] = s[i]
    BY <1>4, <2>2
  <2>4. oc[h[s[i]][m]] = Saved(s, i, m, S, h)
    BY <2>2, <2>3 DEF Stack, n
  <2>5. Base(p, i - 1, S, h) = Base(s, i - 1, S, h)
    BY <1>9, <2>2
  <2> QED BY <2>3, <2>4, <2>5 DEF Saved
<1>14. \A t : (\E i \in 1 .. n : s[i] = t) => \E i \in 1 .. Len(p) : p[i] = t
  BY <1>2, <1>4
<1>15. /\ \A t \in S : \E i \in 1 .. Len(p) : p[i] = t
       /\ \A t \in Tasks : h[t] # <<>> => t \notin S /\ \E i \in 1 .. Len(p) : p[i] = t
  BY <1>14 DEF Stack, n
<1>16. TopFree(p, S)
  BY <1>2, <1>5, <1>7 DEF TopFree
<1>17. Stack(c \cup {DispatchPrio[f]}, p, S, h, oc)
  BY <1>11, <1>12, <1>13, <1>15 DEF Stack
<1> QED BY <1>16, <1>17 DEF p

\* Nothing on the stack changes but what its top holds.
TopChange(s, S, h, oc, c2, S2, h2, oc2) ==
  LET n == Len(s)
      t == s[n]
      B == Base(s, n - 1, S, h)
  IN
  /\ s # <<>>
  /\ \A u \in Tasks : u # t =>
       /\ h2[u] = h[u] /\ (u \in S2 <=> u \in S)
       /\ \A m \in 1 .. Len(h[u]) : oc2[h[u][m]] = oc[h[u][m]]
  /\ h2[t] # <<>> => t \notin S2
  /\ c2 = B \cup Lv(t, S2, h2)
  /\ \A m \in 1 .. Len(h2[t]) :
       oc2[h2[t][m]] = B \cup {DispatchPrio[t]} \cup {ResCeiling[h2[t][k]] : k \in 1 .. m - 1}

\* A change of what the top task holds, within TopChange, keeps the stack's order.
LEMMA ChangeTop ==
  ASSUME NEW c, NEW s, NEW S, NEW h, NEW oc, Sets(c, s, S, h, oc), Stack(c, s, S, h, oc),
         NEW c2, NEW S2, NEW h2, NEW oc2, Sets(c2, s, S2, h2, oc2),
         TopChange(s, S, h, oc, c2, S2, h2, oc2)
  PROVE  Stack(c2, s, S2, h2, oc2)
<1> DEFINE n == Len(s)
           t == s[n]
           B == Base(s, n - 1, S, h)
<1>a. s # <<>> /\ (h2[t] # <<>> => t \notin S2) /\ c2 = B \cup Lv(t, S2, h2)
  BY DEF TopChange
<1>b. \A u \in Tasks : u # t => h2[u] = h[u] /\ (u \in S2 <=> u \in S)
  BY DEF TopChange
<1>c. \A u \in Tasks : u # t => \A m \in 1 .. Len(h[u]) : oc2[h[u][m]] = oc[h[u][m]]
  BY DEF TopChange
<1>d. \A m \in 1 .. Len(h2[t]) :
        oc2[h2[t][m]] = B \cup {DispatchPrio[t]} \cup {ResCeiling[h2[t][k]] : k \in 1 .. m - 1}
  BY DEF TopChange
<1>e. n = Len(s) /\ t = s[n] /\ B = Base(s, n - 1, S, h)
  OBVIOUS
<1>0. s \in Seq(Tasks) /\ n \in Nat /\ n \in 1 .. n /\ n \in 1 .. Len(s)
  BY <1>a DEF Sets
<1> HIDE DEF n, t, B
<1>1. \A i \in 1 .. n : s[i] \in Tasks
  BY <1>0, <1>e, ElementOfSeq
<1>2. \A i \in 1 .. n - 1 : s[i] # t
  <2> SUFFICES ASSUME NEW i \in 1 .. n - 1, s[i] = s[n] PROVE FALSE
    BY <1>e
  <2>1. i \in 1 .. Len(s) /\ i # n
    BY <1>0, <1>e
  <2> QED BY <1>0, <2>1, StackDistinct
<1>3. \A i \in 1 .. n - 1 : Lv(s[i], S2, h2) = Lv(s[i], S, h)
  <2> SUFFICES ASSUME NEW i \in 1 .. n - 1 PROVE Lv(s[i], S2, h2) = Lv(s[i], S, h)
    OBVIOUS
  <2>1. s[i] \in Tasks /\ s[i] # t
    BY <1>0, <1>1, <1>2
  <2>2. h2[s[i]] = h[s[i]] /\ (s[i] \in S2 <=> s[i] \in S)
    BY <1>b, <2>1
  <2> QED BY <2>2 DEF Lv
<1>4. \A m \in 0 .. n - 1 : Base(s, m, S2, h2) = Base(s, m, S, h)
  <2> SUFFICES ASSUME NEW m \in 0 .. n - 1 PROVE Base(s, m, S2, h2) = Base(s, m, S, h)
    OBVIOUS
  <2>1. \A i \in 1 .. m : Lv(s[i], S2, h2) = Lv(s[i], S, h)
    BY <1>0, <1>3
  <2> QED BY <2>1 DEF Base
<1>5. c2 = Base(s, Len(s), S2, h2)
  <2>1. S2 \in SUBSET Tasks /\ h2 \in [Tasks -> Seq(Resources)]
    BY DEF Sets
  <2>2. Base(s, n, S2, h2) = Base(s, n - 1, S2, h2) \cup Lv(s[n], S2, h2)
    <3>1. Lv(s[n], S2, h2) \in SUBSET Levels
      BY <1>0, <1>1, <2>1, LevelsTyped
    <3>2. 1 .. n = (1 .. n - 1) \cup {n}
      BY <1>0
    <3> QED BY <3>1, <3>2 DEF Base
  <2>3. Base(s, n - 1, S2, h2) = B
    BY <1>0, <1>4, <1>e
  <2> QED BY <1>a, <1>e, <2>2, <2>3
<1>6. \A i, j \in 1 .. Len(s) : i < j => \A l \in Lv(s[i], S2, h2) : l < ReadyPrio[s[j]]
  <2> SUFFICES ASSUME NEW i \in 1 .. n, NEW j \in 1 .. n, i < j, NEW l \in Lv(s[i], S2, h2)
               PROVE  l < ReadyPrio[s[j]]
    BY <1>e
  <2>1. i \in 1 .. n - 1
    BY <1>0
  <2>2. l \in Lv(s[i], S, h)
    BY <1>3, <2>1
  <2> QED BY <1>e, <2>2 DEF Stack
<1>7. \A u \in S2 : \E i \in 1 .. Len(s) : s[i] = u
  <2> SUFFICES ASSUME NEW u \in S2 PROVE \E i \in 1 .. n : s[i] = u
    BY <1>e
  <2>1. u \in Tasks
    BY DEF Sets
  <2> QED BY <1>0, <1>b, <1>e, <2>1 DEF Stack
<1>8. \A u \in Tasks : h2[u] # <<>> => u \notin S2 /\ \E i \in 1 .. Len(s) : s[i] = u
  BY <1>0, <1>a, <1>b, <1>e DEF Stack
<1>9. \A i \in 1 .. Len(s) : \A m \in 1 .. Len(h2[s[i]]) :
        oc2[h2[s[i]][m]] = Saved(s, i, m, S2, h2)
  <2> SUFFICES ASSUME NEW i \in 1 .. n, NEW m \in 1 .. Len(h2[s[i]])
               PROVE  oc2[h2[s[i]][m]] = Saved(s, i, m, S2, h2)
    BY <1>e
  <2>0. i - 1 \in 0 .. n - 1
    BY <1>0
  <2>1. Base(s, i - 1, S2, h2) = Base(s, i - 1, S, h)
    BY <1>4, <2>0
  <2>2. CASE i = n
    <3>1. m \in 1 .. Len(h2[t])
      BY <1>e, <2>2
    <3>2. oc2[h2[t][m]] = B \cup {DispatchPrio[t]} \cup {ResCeiling[h2[t][k]] : k \in 1 .. m - 1}
      BY <1>d, <3>1
    <3>3. s[i] = t /\ Base(s, i - 1, S2, h2) = B
      BY <1>e, <2>1, <2>2
    <3> QED BY <3>2, <3>3 DEF Saved
  <2>3. CASE i # n
    <3>1. s[i] \in Tasks /\ s[i] # t
      BY <1>0, <1>1, <1>2, <2>3
    <3>2. h2[s[i]] = h[s[i]]
      BY <1>b, <3>1
    <3>3. oc2[h[s[i]][m]] = oc[h[s[i]][m]]
      BY <1>c, <3>1, <3>2
    <3>4. oc[h[s[i]][m]] = Saved(s, i, m, S, h)
      BY <1>e, <3>2 DEF Stack
    <3> QED BY <2>1, <3>2, <3>3, <3>4 DEF Saved
  <2> QED BY <2>2, <2>3
<1> QED BY <1>5, <1>6, <1>7, <1>8, <1>9 DEF Stack

\* What the top of the stack adds to the levels below it.
LEMMA TopSplit ==
  ASSUME NEW c, NEW s, NEW S, NEW h, NEW oc, Sets(c, s, S, h, oc), Stack(c, s, S, h, oc),
         NEW t, t \in Tasks, NEW n, n = Len(s), n # 0, s[n] = t
  PROVE  /\ c = Base(s, n - 1, S, h) \cup Lv(t, S, h)
         /\ Base(s, n - 1, S, h) \in SUBSET Levels
         /\ \A l \in Base(s, n - 1, S, h) : l < ReadyPrio[t]
<1>1. s \in Seq(Tasks) /\ S \in SUBSET Tasks /\ h \in [Tasks -> Seq(Resources)]
  BY DEF Sets
<1>2. n \in 1 .. Len(s)
  BY <1>1
<1>3. Base(s, n, S, h) = Base(s, n - 1, S, h) \cup Lv(t, S, h)
  BY <1>1, <1>2, BaseSplit
<1>4. \A l \in Base(s, n - 1, S, h) : l < ReadyPrio[t]
  BY <1>2, BaseBelow
<1>5. Base(s, n - 1, S, h) \in SUBSET Levels
  BY DEF Base
<1> QED BY <1>3, <1>4, <1>5 DEF Stack

\* A task inside Schedule takes its internal resource back.
LEMMA ResumeKeepsStack ==
  ASSUME NEW c, NEW s, NEW S, NEW h, NEW oc, Sets(c, s, S, h, oc), Stack(c, s, S, h, oc),
         NEW t, t \in Tasks, s # <<>>, s[Len(s)] = t, t \in S
  PROVE  Stack((c \ {ReadyPrio[t]}) \cup {DispatchPrio[t]}, s, S \ {t}, h, oc)
<1> DEFINE n == Len(s)
           c2 == (c \ {ReadyPrio[t]}) \cup {DispatchPrio[t]}
           S2 == S \ {t}
           B == Base(s, n - 1, S, h)
<1>1. n # 0
  BY DEF Sets
<1>2. h[t] = <<>>
  BY DEF Stack
<1>3. S \in SUBSET Tasks /\ S2 \in SUBSET Tasks /\ h \in [Tasks -> Seq(Resources)]
  BY DEF Sets
<1>4. Lv(t, S, h) = {ReadyPrio[t]} /\ Lv(t, S2, h) = {DispatchPrio[t]}
  BY <1>2, <1>3, LevelsFree
<1> HIDE DEF n
<1>5. c = B \cup {ReadyPrio[t]} /\ B \in SUBSET Levels /\ \A l \in B : l < ReadyPrio[t]
  BY <1>1, <1>4, TopSplit DEF n
<1>6. ReadyPrio[t] \in Levels /\ DispatchPrio[t] \in Levels /\ ReadyPrio[t] \in Int
  BY Prios
<1>7. ReadyPrio[t] \notin B
  BY <1>5, <1>6
<1>8. c2 = B \cup Lv(t, S2, h)
  BY <1>4, <1>5, <1>7
<1>9. Sets(c2, s, S2, h, oc)
  BY <1>3, <1>6 DEF Sets
<1>10. \A m \in 1 .. Len(h[t]) :
         oc[h[t][m]] = B \cup {DispatchPrio[t]} \cup {ResCeiling[h[t][k]] : k \in 1 .. m - 1}
  <2>1. 1 .. Len(h[t]) = {}
    BY <1>2
  <2> QED BY <2>1
<1>a. \A u \in Tasks : u # t => (u \in S2 <=> u \in S)
  OBVIOUS
<1>b. B = Base(s, Len(s) - 1, S, h)
  BY DEF n
<1> HIDE DEF B, c2, S2
<1>11. TopChange(s, S, h, oc, c2, S2, h, oc)
  BY <1>a, <1>b, <1>1, <1>2, <1>8, <1>10 DEF TopChange
<1>12. Stack(c2, s, S2, h, oc)
  BY <1>9, <1>11, ChangeTop
<1> QED BY <1>12 DEF c2, S2

\* Schedule gives the internal resource up.
LEMMA GiveUpKeepsStack ==
  ASSUME NEW c, NEW s, NEW S, NEW h, NEW oc, Sets(c, s, S, h, oc), Stack(c, s, S, h, oc),
         NEW t, t \in Tasks, s # <<>>, s[Len(s)] = t, t \notin S, h[t] = <<>>
  PROVE  Stack((c \ {DispatchPrio[t]}) \cup {ReadyPrio[t]}, s, S \cup {t}, h, oc)
<1> DEFINE n == Len(s)
           c2 == (c \ {DispatchPrio[t]}) \cup {ReadyPrio[t]}
           S2 == S \cup {t}
           B == Base(s, n - 1, S, h)
<1>1. n # 0
  BY DEF Sets
<1>3. S \in SUBSET Tasks /\ S2 \in SUBSET Tasks /\ h \in [Tasks -> Seq(Resources)]
  BY DEF Sets
<1>4. Lv(t, S, h) = {DispatchPrio[t]} /\ Lv(t, S2, h) = {ReadyPrio[t]}
  BY <1>3, LevelsFree
<1> HIDE DEF n
<1>5. c = B \cup {DispatchPrio[t]} /\ B \in SUBSET Levels /\ \A l \in B : l < ReadyPrio[t]
  BY <1>1, <1>4, TopSplit DEF n
<1>6. /\ ReadyPrio[t] \in Levels /\ DispatchPrio[t] \in Levels
      /\ ReadyPrio[t] =< DispatchPrio[t] /\ \A l \in Levels : l \in Int
  BY Prios
<1>7. DispatchPrio[t] \notin B
  BY <1>5, <1>6
<1>8. c2 = B \cup Lv(t, S2, h)
  BY <1>4, <1>5, <1>7
<1>9. Sets(c2, s, S2, h, oc)
  BY <1>3, <1>6 DEF Sets
<1>10. \A m \in 1 .. Len(h[t]) :
         oc[h[t][m]] = B \cup {DispatchPrio[t]} \cup {ResCeiling[h[t][k]] : k \in 1 .. m - 1}
  <2>1. 1 .. Len(h[t]) = {}
    OBVIOUS
  <2> QED BY <2>1
<1>a. \A u \in Tasks : u # t => (u \in S2 <=> u \in S)
  OBVIOUS
<1>b. B = Base(s, Len(s) - 1, S, h)
  BY DEF n
<1> HIDE DEF B, c2, S2
<1>11. TopChange(s, S, h, oc, c2, S2, h, oc)
  BY <1>a, <1>b, <1>1, <1>8, <1>10 DEF TopChange
<1>12. Stack(c2, s, S2, h, oc)
  BY <1>9, <1>11, ChangeTop
<1> QED BY <1>12 DEF c2, S2

\* Taking the last element keeps the others.
LEMMA PopProperties ==
  ASSUME NEW T, NEW s, s \in Seq(T), s # <<>>
  PROVE  Len(Pop(s)) = Len(s) - 1 /\ \A i \in 1 .. Len(s) - 1 : Pop(s)[i] = s[i]
<1>1. Len(s) \in Nat /\ Len(s) # 0 /\ Pop(s) = SubSeq(s, 1, Len(s) - 1)
  BY DEF Pop
<1>2. \A i \in 1 .. Len(s) - 1 : s[i] \in T
  BY <1>1, ElementOfSeq
<1>3. Len(s) - 1 \in Int /\ 1 \in Int
  BY <1>1
<1>4. /\ Len(Pop(s)) = IF 1 =< Len(s) - 1 THEN (Len(s) - 1) - 1 + 1 ELSE 0
      /\ \A i \in 1 .. (Len(s) - 1) - 1 + 1 : Pop(s)[i] = s[1 + i - 1]
  BY <1>1, <1>2, <1>3, SubSeqProperties
<1>5. Len(Pop(s)) = Len(s) - 1
  <2> DEFINE n == Len(s)
             m == Len(Pop(s))
  <2>1. n \in Nat /\ n # 0 /\ m = IF 1 =< n - 1 THEN (n - 1) - 1 + 1 ELSE 0
    BY <1>1, <1>4
  <2> HIDE DEF n, m
  <2>2. m = n - 1
    BY <2>1
  <2> QED BY <2>2 DEF n, m
<1>6. ASSUME NEW i \in 1 .. Len(s) - 1 PROVE Pop(s)[i] = s[i]
  <2>1. i \in 1 .. (Len(s) - 1) - 1 + 1 /\ 1 + i - 1 = i
    BY <1>1
  <2>2. Pop(s)[i] = s[1 + i - 1]
    BY <1>4, <2>1
  <2> QED BY <2>1, <2>2
<1> QED BY <1>5, <1>6

\* A task gone from the top of the stack.
LEMMA PopKeepsStack ==
  ASSUME NEW c, NEW s, NEW S, NEW h, NEW oc, Sets(c, s, S, h, oc), Stack(c, s, S, h, oc),
         NEW t, t \in Tasks, s # <<>>, s[Len(s)] = t, t \notin S, h[t] = <<>>
  PROVE  Stack(c \ {DispatchPrio[t]}, Pop(s), S, h, oc)
<1> DEFINE n == Len(s)
           p == Pop(s)
           B == Base(s, n - 1, S, h)
<1>1. n \in Nat /\ n # 0 /\ s \in Seq(Tasks) 
  BY DEF Sets
<1>2. Len(p) = n - 1 /\ \A i \in 1 .. n - 1 : p[i] = s[i]
  BY <1>1, PopProperties
<1>3. S \in SUBSET Tasks /\ h \in [Tasks -> Seq(Resources)]
  BY DEF Sets
<1>4. Lv(t, S, h) = {DispatchPrio[t]}
  BY <1>3, LevelsFree
<1>5. n = Len(s)
  OBVIOUS
<1> HIDE DEF n, p
<1>6. c = B \cup {DispatchPrio[t]} /\ B \in SUBSET Levels /\ \A l \in B : l < ReadyPrio[t]
  BY <1>1, <1>4, <1>5, TopSplit
<1>7. /\ ReadyPrio[t] \in Levels /\ DispatchPrio[t] \in Levels
      /\ ReadyPrio[t] =< DispatchPrio[t] /\ \A l \in Levels : l \in Int
  BY Prios
<1>8. c \ {DispatchPrio[t]} = B
  BY <1>6, <1>7
<1>9. \A m \in 0 .. n - 1 : Base(p, m, S, h) = Base(s, m, S, h)
  <2> SUFFICES ASSUME NEW m \in 0 .. n - 1 PROVE Base(p, m, S, h) = Base(s, m, S, h)
    OBVIOUS
  <2>1. \A i \in 1 .. m : p[i] = s[i]
    BY <1>1, <1>2
  <2> QED BY <2>1 DEF Base
<1>10. c \ {DispatchPrio[t]} = Base(p, Len(p), S, h)
  BY <1>1, <1>2, <1>8, <1>9
<1>11. \A i, j \in 1 .. Len(p) : i < j => \A l \in Lv(p[i], S, h) : l < ReadyPrio[p[j]]
  <2> SUFFICES ASSUME NEW i \in 1 .. n - 1, NEW j \in 1 .. n - 1, i < j, NEW l \in Lv(p[i], S, h)
               PROVE  l < ReadyPrio[p[j]]
    BY <1>2
  <2>1. i \in 1 .. Len(s) /\ j \in 1 .. Len(s)
    BY <1>1, <1>5
  <2>2. l \in Lv(s[i], S, h) /\ p[j] = s[j]
    BY <1>2
  <2> QED BY <2>1, <2>2 DEF Stack
<1>12. \A u \in Tasks : u # t /\ (\E i \in 1 .. Len(s) : s[i] = u) => \E i \in 1 .. Len(p) : p[i] = u
  <2> SUFFICES ASSUME NEW u \in Tasks, u # t, NEW i \in 1 .. n, s[i] = u
               PROVE  \E j \in 1 .. n - 1 : p[j] = u
    BY <1>2, <1>5
  <2>1. i # n
    BY <1>5
  <2>2. i \in 1 .. n - 1
    BY <1>1, <2>1
  <2> QED BY <1>2, <2>2
<1>13. /\ \A u \in S : \E i \in 1 .. Len(p) : p[i] = u
       /\ \A u \in Tasks : h[u] # <<>> => u \notin S /\ \E i \in 1 .. Len(p) : p[i] = u
  BY <1>3, <1>12 DEF Stack
<1>14. \A i \in 1 .. Len(p) : \A m \in 1 .. Len(h[p[i]]) : oc[h[p[i]][m]] = Saved(p, i, m, S, h)
  <2> SUFFICES ASSUME NEW i \in 1 .. n - 1, NEW m \in 1 .. Len(h[p[i]])
               PROVE  oc[h[p[i]][m]] = Saved(p, i, m, S, h)
    BY <1>2
  <2>1. i \in 1 .. Len(s) /\ i - 1 \in 0 .. n - 1
    BY <1>1, <1>5
  <2>2. p[i] = s[i]
    BY <1>2
  <2>3. oc[h[s[i]][m]] = Saved(s, i, m, S, h)
    BY <2>1, <2>2 DEF Stack
  <2>4. Base(p, i - 1, S, h) = Base(s, i - 1, S, h)
    BY <1>9, <2>1
  <2> QED BY <2>2, <2>3, <2>4 DEF Saved
<1>15. Stack(c \ {DispatchPrio[t]}, p, S, h, oc)
  BY <1>10, <1>11, <1>13, <1>14 DEF Stack
<1> QED BY <1>15 DEF p

\* GetResource of a resource nobody holds.
LEMMA GetKeepsStack ==
  ASSUME NEW c, NEW s, NEW S, NEW h, NEW oc, Sets(c, s, S, h, oc), Stack(c, s, S, h, oc),
         NEW t, t \in Tasks, s # <<>>, s[Len(s)] = t, t \notin S,
         NEW r, r \in Resources, \A u \in Tasks : \A m \in 1 .. Len(h[u]) : h[u][m] # r
  PROVE  Stack(c \cup {ResCeiling[r]}, s, S, [h EXCEPT ![t] = Append(@, r)], [oc EXCEPT ![r] = c])
<1> DEFINE n == Len(s)
           k == Len(h[t])
           c2 == c \cup {ResCeiling[r]}
           h2 == [h EXCEPT ![t] = Append(@, r)]
           oc2 == [oc EXCEPT ![r] = c]
           B == Base(s, n - 1, S, h)
<1>1. n # 0 /\ h \in [Tasks -> Seq(Resources)] /\ h[t] \in Seq(Resources) /\ k \in Nat
  BY DEF Sets
<1>2. /\ Len(h2[t]) = k + 1
      /\ h2[t][k + 1] = r
      /\ \A m \in 1 .. k : h2[t][m] = h[t][m]
  BY <1>1
<1>3. \A u \in Tasks : u # t => h2[u] = h[u]
  BY <1>1
<1>4. oc2 \in [Resources -> SUBSET Levels] /\ oc2[r] = c
      /\ \A q \in Resources : q # r => oc2[q] = oc[q]
  BY DEF Sets
<1>5. \A u \in Tasks : \A m \in 1 .. Len(h[u]) : oc2[h[u][m]] = oc[h[u][m]]
  <2> SUFFICES ASSUME NEW u \in Tasks, NEW m \in 1 .. Len(h[u])
               PROVE  oc2[h[u][m]] = oc[h[u][m]]
    OBVIOUS
  <2>1. h[u][m] \in Resources
    <3>1. h[u] \in Seq(Resources)
      BY <1>1
    <3> QED BY <3>1, ElementOfSeq
  <2> QED BY <1>4, <2>1
<1>6. Sets(c2, s, S, h2, oc2)
  <2>1. Append(h[t], r) \in Seq(Resources)
    BY <1>1
  <2>2. h2 \in [Tasks -> Seq(Resources)]
    BY <1>1, <2>1
  <2>3. ResCeiling[r] \in Levels
    BY Prios
  <2> QED BY <1>4, <2>2, <2>3 DEF Sets
<1>7. B = Base(s, Len(s) - 1, S, h) /\ n = Len(s) /\ k = Len(h[t]) /\ c2 = c \cup {ResCeiling[r]}
  OBVIOUS
<1> HIDE DEF n, k, c2, h2, oc2, B
<1>8. c = B \cup Lv(t, S, h)
  BY <1>1, <1>7, TopSplit
<1>9. Lv(t, S, h2) = Lv(t, S, h) \cup {ResCeiling[r]}
  <2>1. {ResCeiling[h2[t][i]] : i \in 1 .. Len(h2[t])}
          = {ResCeiling[h[t][i]] : i \in 1 .. k} \cup {ResCeiling[r]}
    <3>1. 1 .. k + 1 = (1 .. k) \cup {k + 1}
      BY <1>1
    <3> QED BY <1>2, <3>1
  <2> QED BY <1>7, <2>1 DEF Lv
<1>10. c2 = B \cup Lv(t, S, h2)
  BY <1>7, <1>8, <1>9
<1>11. c = B \cup {DispatchPrio[t]} \cup {ResCeiling[h[t][i]] : i \in 1 .. k}
  BY <1>7, <1>8 DEF Lv
<1>12. \A m \in 1 .. Len(h2[t]) :
         oc2[h2[t][m]] = B \cup {DispatchPrio[t]} \cup {ResCeiling[h2[t][i]] : i \in 1 .. m - 1}
  <2> SUFFICES ASSUME NEW m \in 1 .. k + 1
               PROVE  oc2[h2[t][m]] = B \cup {DispatchPrio[t]}
                                        \cup {ResCeiling[h2[t][i]] : i \in 1 .. m - 1}
    BY <1>2
  <2>0. \A i \in 1 .. m - 1 : h2[t][i] = h[t][i]
    BY <1>1, <1>2
  <2>1. CASE m = k + 1
    <3>1. 1 .. m - 1 = 1 .. k
      BY <1>1, <2>1
    <3>2. {ResCeiling[h2[t][i]] : i \in 1 .. m - 1} = {ResCeiling[h[t][i]] : i \in 1 .. k}
      <4>1. {ResCeiling[h2[t][i]] : i \in 1 .. m - 1} = {ResCeiling[h[t][i]] : i \in 1 .. m - 1}
        BY <2>0, SameLevels
      <4> QED BY <3>1, <4>1
    <3>3. oc2[h2[t][m]] = c
      BY <1>2, <1>4, <2>1
    <3> QED BY <1>11, <3>2, <3>3
  <2>2. CASE m # k + 1
    <3>1. m \in 1 .. k
      BY <1>1, <2>2
    <3>2. h2[t][m] = h[t][m] /\ oc2[h[t][m]] = oc[h[t][m]]
      BY <1>2, <1>5, <1>7, <3>1
    <3>3. oc[h[t][m]] = Saved(s, n, m, S, h)
      <4>1. n \in 1 .. Len(s) /\ s[n] = t
        BY <1>1, <1>7 DEF Sets
      <4> QED BY <1>7, <3>1, <4>1 DEF Stack
    <3>4. {ResCeiling[h2[t][i]] : i \in 1 .. m - 1} = {ResCeiling[h[t][i]] : i \in 1 .. m - 1}
      BY <2>0, SameLevels
    <3>5. oc2[h2[t][m]] = Base(s, n - 1, S, h) \cup {DispatchPrio[s[n]]}
                            \cup {ResCeiling[h[s[n]][i]] : i \in 1 .. m - 1}
      BY <3>2, <3>3 DEF Saved
    <3>6. s[n] = t /\ Base(s, n - 1, S, h) = B
      BY <1>7
    <3>7. oc2[h2[t][m]] = B \cup {DispatchPrio[t]} \cup {ResCeiling[h[t][i]] : i \in 1 .. m - 1}
      BY <3>5, <3>6
    <3> QED BY <3>4, <3>7
  <2> QED BY <2>1, <2>2
<1>13. TopChange(s, S, h, oc, c2, S, h2, oc2)
  BY <1>1, <1>3, <1>5, <1>7, <1>10, <1>12 DEF TopChange
<1>14. Stack(c2, s, S, h2, oc2)
  BY <1>6, <1>13, ChangeTop
<1> QED BY <1>14 DEF c2, h2, oc2

\* The resources from the n-th on are given back: the ceiling saved with the
\* n-th is the ceiling without them.
LEMMA RestoreKeepsStack ==
  ASSUME NEW c, NEW s, NEW S, NEW h, NEW oc, Sets(c, s, S, h, oc), Stack(c, s, S, h, oc),
         NEW t, t \in Tasks, s # <<>>, s[Len(s)] = t,
         NEW m, m \in 1 .. Len(h[t])
  PROVE  Stack(oc[h[t][m]], s, S, [h EXCEPT ![t] = SubSeq(@, 1, m - 1)], oc)
<1> DEFINE n == Len(s)
           k == Len(h[t])
           c2 == oc[h[t][m]]
           h2 == [h EXCEPT ![t] = SubSeq(@, 1, m - 1)]
           B == Base(s, n - 1, S, h)
<1>1. n # 0 /\ h \in [Tasks -> Seq(Resources)] /\ h[t] \in Seq(Resources) /\ k \in Nat /\ h[t] # <<>>
  BY DEF Sets
<1>2. m - 1 \in 0 .. k
  BY <1>1
<1>3. /\ Len(h2[t]) = m - 1
      /\ \A i \in 1 .. m - 1 : h2[t][i] = h[t][i]
      /\ SubSeq(h[t], 1, m - 1) \in Seq(Resources)
  BY <1>1, <1>2
<1>4. \A u \in Tasks : u # t => h2[u] = h[u]
  BY <1>1
<1>5. t \notin S
  BY <1>1 DEF Stack
<1>6. Sets(c2, s, S, h2, oc)
  <2>1. h2 \in [Tasks -> Seq(Resources)]
    BY <1>1, <1>3
  <2>2. h[t][m] \in Resources
    BY <1>1, ElementOfSeq
  <2>3. c2 \in SUBSET Levels
    BY <2>2 DEF Sets
  <2> QED BY <2>1, <2>3 DEF Sets
<1>7. B = Base(s, Len(s) - 1, S, h) /\ n = Len(s) /\ k = Len(h[t]) /\ c2 = oc[h[t][m]]
  OBVIOUS
<1> HIDE DEF n, k, c2, h2, B
<1>8. \A i \in 1 .. k : oc[h[t][i]] = B \cup {DispatchPrio[t]} \cup {ResCeiling[h[t][j]] : j \in 1 .. i - 1}
  <2> SUFFICES ASSUME NEW i \in 1 .. k
               PROVE  oc[h[t][i]] = B \cup {DispatchPrio[t]} \cup {ResCeiling[h[t][j]] : j \in 1 .. i - 1}
    OBVIOUS
  <2>1. n \in 1 .. Len(s) /\ s[n] = t
    BY <1>1, <1>7 DEF Sets
  <2>2. oc[h[t][i]] = Saved(s, n, i, S, h)
    BY <1>7, <2>1 DEF Stack
  <2> QED BY <1>7, <2>1, <2>2 DEF Saved
<1>9. Lv(t, S, h2) = {DispatchPrio[t]} \cup {ResCeiling[h[t][j]] : j \in 1 .. m - 1}
  BY <1>3, <1>5 DEF Lv
<1>10. c2 = B \cup Lv(t, S, h2)
  BY <1>7, <1>8, <1>9
<1>11. \A i \in 1 .. Len(h2[t]) :
         oc[h2[t][i]] = B \cup {DispatchPrio[t]} \cup {ResCeiling[h2[t][j]] : j \in 1 .. i - 1}
  <2> SUFFICES ASSUME NEW i \in 1 .. m - 1
               PROVE  oc[h2[t][i]] = B \cup {DispatchPrio[t]}
                                       \cup {ResCeiling[h2[t][j]] : j \in 1 .. i - 1}
    BY <1>3
  <2>0. m \in Nat /\ m =< k /\ i \in Nat /\ k \in Nat
    BY <1>1, <1>7
  <2>1. i \in 1 .. k /\ \A j \in 1 .. i - 1 : j \in 1 .. m - 1
    BY <2>0
  <2>2. {ResCeiling[h2[t][j]] : j \in 1 .. i - 1} = {ResCeiling[h[t][j]] : j \in 1 .. i - 1}
    <3>1. \A j \in 1 .. i - 1 : h2[t][j] = h[t][j]
      BY <1>3, <2>1
    <3> QED BY <3>1, SameLevels
  <2> QED BY <1>3, <1>8, <2>1, <2>2
<1>12. TopChange(s, S, h, oc, c2, S, h2, oc)
  BY <1>1, <1>4, <1>5, <1>7, <1>10, <1>11 DEF TopChange
<1>13. Stack(c2, s, S, h2, oc)
  BY <1>6, <1>12, ChangeTop
<1> QED BY <1>13 DEF c2, h2

-----------------------------------------------------------------------------
(* Who holds which resource.                                               *)

Owned(h, lk) ==
  /\ \A t, u \in Tasks : \A i \in 1 .. Len(h[t]) : \A j \in 1 .. Len(h[u]) :
       h[t][i] = h[u][j] => t = u /\ i = j
  /\ \A r \in Resources : lk[r] <=> \E t \in Tasks : \E i \in 1 .. Len(h[t]) : h[t][i] = r

\* Taking a free resource leaves every locked resource with one owner.
LEMMA GetKeepsOwned ==
  ASSUME NEW h, h \in [Tasks -> Seq(Resources)], NEW lk, lk \in [Resources -> BOOLEAN],
         Owned(h, lk),
         NEW t, t \in Tasks, NEW r, r \in Resources, ~lk[r]
  PROVE  Owned([h EXCEPT ![t] = Append(@, r)], [lk EXCEPT ![r] = TRUE])
<1> DEFINE k == Len(h[t])
           h2 == [h EXCEPT ![t] = Append(@, r)]
           lk2 == [lk EXCEPT ![r] = TRUE]
<1>1. k \in Nat /\ h[t] \in Seq(Resources)
  OBVIOUS
<1>2. Len(h2[t]) = k + 1 /\ h2[t][k + 1] = r /\ \A i \in 1 .. k : h2[t][i] = h[t][i]
  BY <1>1
<1>3. \A u \in Tasks : u # t => h2[u] = h[u]
  OBVIOUS
<1>4. \A u \in Tasks : \A i \in 1 .. Len(h[u]) : h[u][i] # r
  BY DEF Owned
<1>5. lk2[r] /\ \A q \in Resources : q # r => lk2[q] = lk[q]
  OBVIOUS
<1>6. k = Len(h[t])
  OBVIOUS
<1> HIDE DEF k, h2, lk2
\* An entry is the new one or an old one.
<1>7. \A u \in Tasks : \A i \in 1 .. Len(h2[u]) :
        (u = t /\ i = k + 1) \/ (i \in 1 .. Len(h[u]) /\ h2[u][i] = h[u][i])
  <2> SUFFICES ASSUME NEW u \in Tasks, NEW i \in 1 .. Len(h2[u]), ~(u = t /\ i = k + 1)
               PROVE  i \in 1 .. Len(h[u]) /\ h2[u][i] = h[u][i]
    OBVIOUS
  <2>1. CASE u # t
    BY <1>3, <2>1
  <2>2. CASE u = t
    <3>1. i \in 1 .. k
      BY <1>1, <1>2, <2>2
    <3> QED BY <1>2, <1>6, <2>2, <3>1
  <2> QED BY <2>1, <2>2
<1>8. \A u, v \in Tasks : \A i \in 1 .. Len(h2[u]) : \A j \in 1 .. Len(h2[v]) :
        h2[u][i] = h2[v][j] => u = v /\ i = j
  <2> SUFFICES ASSUME NEW u \in Tasks, NEW v \in Tasks, NEW i \in 1 .. Len(h2[u]),
                      NEW j \in 1 .. Len(h2[v]), h2[u][i] = h2[v][j]
               PROVE  u = v /\ i = j
    OBVIOUS
  <2>1. (u = t /\ i = k + 1) \/ (i \in 1 .. Len(h[u]) /\ h2[u][i] = h[u][i])
    BY <1>7
  <2>2. (v = t /\ j = k + 1) \/ (j \in 1 .. Len(h[v]) /\ h2[v][j] = h[v][j])
    BY <1>7
  <2>3. h2[t][k + 1] = r
    BY <1>2
  <2> QED BY <1>4, <2>1, <2>2, <2>3 DEF Owned
<1>9. \A q \in Resources : lk2[q] <=> \E u \in Tasks : \E i \in 1 .. Len(h2[u]) : h2[u][i] = q
  <2> SUFFICES ASSUME NEW q \in Resources
               PROVE  lk2[q] <=> \E u \in Tasks : \E i \in 1 .. Len(h2[u]) : h2[u][i] = q
    OBVIOUS
  <2>1. k + 1 \in 1 .. Len(h2[t])
    BY <1>1, <1>2
  <2>2. CASE q = r
    BY <1>2, <1>5, <2>1, <2>2
  <2>3. CASE q # r
    <3>1. lk2[q] <=> \E u \in Tasks : \E i \in 1 .. Len(h[u]) : h[u][i] = q
      BY <1>5, <2>3 DEF Owned
    <3>2. ASSUME NEW u \in Tasks, NEW i \in 1 .. Len(h[u]), h[u][i] = q
          PROVE  i \in 1 .. Len(h2[u]) /\ h2[u][i] = q
      <4>1. CASE u # t
        BY <1>3, <3>2, <4>1
      <4>2. CASE u = t
        BY <1>1, <1>2, <1>6, <3>2, <4>2
      <4> QED BY <4>1, <4>2
    <3>3. ASSUME NEW u \in Tasks, NEW i \in 1 .. Len(h2[u]), h2[u][i] = q
          PROVE  i \in 1 .. Len(h[u]) /\ h[u][i] = q
      BY <1>2, <1>7, <2>3, <3>3
    <3> QED BY <3>1, <3>2, <3>3
  <2> QED BY <2>2, <2>3
<1>10. Owned(h2, lk2)
  BY <1>8, <1>9 DEF Owned
<1> QED BY <1>10 DEF h2, lk2

\* The resources from the m-th on are unlocked.
Freed(h, lk, t, m, lk2) ==
  \A r \in Resources : lk2[r] <=> lk[r] /\ \A i \in m .. Len(h[t]) : h[t][i] # r

\* Giving back all resources from the m-th on leaves each with one owner.
LEMMA RestoreKeepsOwned ==
  ASSUME NEW h, h \in [Tasks -> Seq(Resources)], NEW lk, Owned(h, lk),
         NEW t, t \in Tasks, NEW m, m \in 1 .. Len(h[t]) + 1,
         NEW lk2, Freed(h, lk, t, m, lk2)
  PROVE  Owned([h EXCEPT ![t] = SubSeq(@, 1, m - 1)], lk2)
<1> DEFINE k == Len(h[t])
           h2 == [h EXCEPT ![t] = SubSeq(@, 1, m - 1)]
<1>1. k \in Nat /\ h[t] \in Seq(Resources) /\ m \in Nat /\ m - 1 \in 0 .. k
  OBVIOUS
<1>2. Len(h2[t]) = m - 1 /\ \A i \in 1 .. m - 1 : h2[t][i] = h[t][i]
  BY <1>1
<1>3. \A u \in Tasks : u # t => h2[u] = h[u]
  OBVIOUS
<1>6. k = Len(h[t])
  OBVIOUS
<1> HIDE DEF k, h2
<1>7. \A u \in Tasks : \A i \in 1 .. Len(h2[u]) : i \in 1 .. Len(h[u]) /\ h2[u][i] = h[u][i]
  <2> SUFFICES ASSUME NEW u \in Tasks, NEW i \in 1 .. Len(h2[u])
               PROVE  i \in 1 .. Len(h[u]) /\ h2[u][i] = h[u][i]
    OBVIOUS
  <2>1. CASE u # t
    BY <1>3, <2>1
  <2>2. CASE u = t
    <3>1. i \in 1 .. m - 1
      BY <1>2, <2>2
    <3>2. i \in 1 .. k
      BY <1>1, <3>1
    <3> QED BY <1>2, <1>6, <2>2, <3>1, <3>2
  <2> QED BY <2>1, <2>2
<1>8. \A u, v \in Tasks : \A i \in 1 .. Len(h2[u]) : \A j \in 1 .. Len(h2[v]) :
        h2[u][i] = h2[v][j] => u = v /\ i = j
  BY <1>7 DEF Owned
<1>9. \A q \in Resources : lk2[q] <=> \E u \in Tasks : \E i \in 1 .. Len(h2[u]) : h2[u][i] = q
  <2> SUFFICES ASSUME NEW q \in Resources
               PROVE  lk2[q] <=> \E u \in Tasks : \E i \in 1 .. Len(h2[u]) : h2[u][i] = q
    OBVIOUS
  <2>0. lk2[q] <=> lk[q] /\ \A i \in m .. Len(h[t]) : h[t][i] # q
    BY DEF Freed
  <2>1. ASSUME NEW u \in Tasks, NEW i \in 1 .. Len(h2[u]), h2[u][i] = q
        PROVE  lk2[q]
    <3>1. i \in 1 .. Len(h[u]) /\ h[u][i] = q
      BY <1>7, <2>1
    <3>2. lk[q]
      BY <3>1 DEF Owned
    <3>3. ASSUME NEW j \in m .. Len(h[t]), h[t][j] = q
          PROVE  FALSE
      <4>1. j \in 1 .. Len(h[t]) /\ j > m - 1
        BY <1>1, <1>6
      <4>2. u = t /\ i = j
        BY <3>1, <3>3, <4>1 DEF Owned
      <4>3. i \in 1 .. m - 1
        BY <1>2, <4>2
      <4> QED BY <1>1, <4>1, <4>2, <4>3
    <3> QED BY <2>0, <3>2, <3>3
  <2>2. ASSUME lk2[q]
        PROVE  \E u \in Tasks : \E i \in 1 .. Len(h2[u]) : h2[u][i] = q
    <3>1. lk[q] /\ \A j \in m .. Len(h[t]) : h[t][j] # q
      BY <2>0, <2>2
    <3>2. PICK u \in Tasks : \E i \in 1 .. Len(h[u]) : h[u][i] = q
      BY <3>1 DEF Owned
    <3>3. PICK i \in 1 .. Len(h[u]) : h[u][i] = q
      BY <3>2
    <3>4. CASE u # t
      BY <1>3, <3>3, <3>4
    <3>5. CASE u = t
      <4>1. i \notin m .. Len(h[t])
        BY <3>1, <3>3, <3>5
      <4>2. i \in 1 .. m - 1
        BY <1>1, <1>6, <3>5, <4>1
      <4> QED BY <1>2, <3>3, <3>5, <4>2
    <3> QED BY <3>4, <3>5
  <2> QED BY <2>1, <2>2
<1>10. Owned(h2, lk2)
  BY <1>8, <1>9 DEF Owned
<1> QED BY <1>10 DEF h2

-----------------------------------------------------------------------------
(* The scheduling state a service computes on.                             *)

\* Every task is queued at its own level.
QLevels(q) == \A l \in Levels : \A i \in 1 .. Len(q[l]) : ReadyPrio[q[l][i]] = l

\* A queued task is above the ceiling.
Due(q, c) == NonEmpty(q) # {} /\ Below(c, RqFirst(q))

Good(k, h, oc) ==
  /\ k \in SchedType
  /\ h \in [Tasks -> Seq(Resources)]
  /\ oc \in [Resources -> SUBSET Levels]
  /\ Stack(k.ceiling, k.stk, k.inSchedule, h, oc)
  /\ QLevels(k.rq)

Settled(k) == TopFree(k.stk, k.inSchedule) /\ ~Due(k.rq, k.ceiling)

\* A good state has its sets typed.
LEMMA GoodSets ==
  ASSUME NEW k, NEW h, NEW oc, Good(k, h, oc)
  PROVE  Sets(k.ceiling, k.stk, k.inSchedule, h, oc)
BY DEF Good, Sets, SchedType

\* An inserted task is queued at its own level.
LEMMA InsertLevels ==
  ASSUME NEW q, q \in Queues, QLevels(q), NEW t, t \in Tasks
  PROVE  QLevels(RqInsert(q, t))
<1> SUFFICES ASSUME NEW l \in Levels, NEW i \in 1 .. Len(RqInsert(q, t)[l])
             PROVE  ReadyPrio[RqInsert(q, t)[l][i]] = l
  BY DEF QLevels
<1>1. q[l] \in Seq(Tasks) /\ Len(q[l]) \in Nat
  BY DEF Queues
<1>2. CASE l # ReadyPrio[t]
  <2>1. RqInsert(q, t)[l] = q[l]
    BY <1>2 DEF RqInsert, Queues
  <2> QED BY <2>1 DEF QLevels
<1>3. CASE l = ReadyPrio[t]
  <2>1. RqInsert(q, t)[l] = Append(q[l], t)
    BY <1>3 DEF RqInsert, Queues
  <2>2. Len(RqInsert(q, t)[l]) = Len(q[l]) + 1
    BY <1>1, <2>1
  <2>3. CASE i = Len(q[l]) + 1
    BY <1>1, <1>3, <2>1, <2>3
  <2>4. CASE i # Len(q[l]) + 1
    <3>1. i \in 1 .. Len(q[l])
      BY <1>1, <2>2, <2>4
    <3>2. RqInsert(q, t)[l][i] = q[l][i]
      BY <1>1, <2>1, <3>1
    <3> QED BY <3>1, <3>2 DEF QLevels
  <2> QED BY <2>3, <2>4
<1> QED BY <1>2, <1>3

\* Removing the first task leaves the others at their level.
LEMMA RemoveLevels ==
  ASSUME NEW q, q \in Queues, QLevels(q), NonEmpty(q) # {}
  PROVE  QLevels(RqRemoveFirst(q))
<1> DEFINE m == Highest(q)
<1>1. m \in Levels /\ q[m] # <<>> /\ q[m] \in Seq(Tasks)
  BY FirstOfQueues DEF NonEmpty, Queues
<1>2. RqRemoveFirst(q)[m] = Tail(q[m]) /\ \A l \in Levels : l # m => RqRemoveFirst(q)[l] = q[l]
  BY <1>1 DEF RqRemoveFirst, Queues
<1>3. /\ Len(Tail(q[m])) = Len(q[m]) - 1
      /\ \A i \in 1 .. Len(Tail(q[m])) : Tail(q[m])[i] = q[m][i + 1]
  BY <1>1, HeadTailProperties
<1> HIDE DEF m
<1> SUFFICES ASSUME NEW l \in Levels, NEW i \in 1 .. Len(RqRemoveFirst(q)[l])
             PROVE  ReadyPrio[RqRemoveFirst(q)[l][i]] = l
  BY DEF QLevels
<1>4. CASE l # m
  BY <1>2, <1>4 DEF QLevels
<1>5. CASE l = m
  <2>1. Len(q[m]) \in Nat
    BY <1>1
  <2>2. i \in 1 .. Len(Tail(q[m]))
    BY <1>2, <1>5
  <2>3. i + 1 \in 1 .. Len(q[m])
    BY <1>3, <2>1, <2>2
  <2>4. RqRemoveFirst(q)[l][i] = q[m][i + 1]
    BY <1>2, <1>3, <1>5, <2>2
  <2> QED BY <1>1, <1>5, <2>3, <2>4 DEF QLevels
<1> QED BY <1>4, <1>5

\* The first task of the ready queue is at the highest level in use.
LEMMA FirstLevel ==
  ASSUME NEW q, q \in Queues, QLevels(q), NonEmpty(q) # {}
  PROVE  /\ RqFirst(q) \in Tasks
         /\ ReadyPrio[RqFirst(q)] = Highest(q)
         /\ \A l \in NonEmpty(q) : l =< ReadyPrio[RqFirst(q)]
<1>1. Highest(q) \in Levels /\ q[Highest(q)] # <<>> /\ q[Highest(q)] \in Seq(Tasks)
  BY FirstOfQueues DEF NonEmpty, Queues
<1>2. 1 \in 1 .. Len(q[Highest(q)]) /\ RqFirst(q) = q[Highest(q)][1]
  BY <1>1 DEF RqFirst
<1>3. ReadyPrio[RqFirst(q)] = Highest(q)
  BY <1>1, <1>2 DEF QLevels
<1>4. RqFirst(q) \in Tasks /\ \A l \in NonEmpty(q) : l =< Highest(q)
  BY FirstOfQueues
<1> QED BY <1>3, <1>4

\* Once the first task runs, no other is above the ceiling.
LEMMA DispatchedNotDue ==
  ASSUME NEW q, q \in Queues, QLevels(q), NonEmpty(q) # {}, NEW c, c \in SUBSET Levels
  PROVE  ~Due(RqRemoveFirst(q), c \cup {DispatchPrio[RqFirst(q)]})
<1> DEFINE p == RqRemoveFirst(q)
           f == RqFirst(q)
<1> SUFFICES ASSUME Due(p, c \cup {DispatchPrio[f]}) PROVE FALSE
  OBVIOUS
<1>1. p \in Queues /\ QLevels(p)
  BY FirstOfQueues, RemoveLevels
<1>2. NonEmpty(p) \subseteq NonEmpty(q)
  <2>1. Highest(q) \in NonEmpty(q) /\ Highest(q) \in Levels
    BY FirstOfQueues
  <2>2. \A l \in Levels : l # Highest(q) => p[l] = q[l]
    BY DEF RqRemoveFirst, Queues
  <2> QED BY <2>1, <2>2 DEF NonEmpty
<1>3. f \in Tasks /\ \A l \in NonEmpty(q) : l =< ReadyPrio[f]
  BY FirstLevel
<1> HIDE DEF p, f
<1>4. NonEmpty(p) # {} /\ DispatchPrio[f] < ReadyPrio[RqFirst(p)]
  BY DEF Due, Below
<1>5. RqFirst(p) \in Tasks /\ ReadyPrio[RqFirst(p)] = Highest(p)
  BY <1>1, <1>4, FirstLevel
<1>6. Highest(p) \in NonEmpty(p)
  BY <1>1, <1>4, FirstOfQueues
<1>7. ReadyPrio[RqFirst(p)] =< ReadyPrio[f]
  BY <1>2, <1>3, <1>5, <1>6
<1>8. ReadyPrio[f] =< DispatchPrio[f] /\ ReadyPrio[f] \in Int /\ DispatchPrio[f] \in Int
  BY <1>3, Prios
<1>9. ReadyPrio[RqFirst(p)] \in Int
  BY <1>5, Prios
<1> QED BY <1>4, <1>7, <1>8, <1>9

\* Dispatching a task above the ceiling keeps the invariant, and nothing is due then.
LEMMA DispatchGood ==
  ASSUME NEW k, NEW h, NEW oc, Good(k, h, oc),
         NonEmpty(k.rq) # {}, \A l \in k.ceiling : l < ReadyPrio[RqFirst(k.rq)]
  PROVE  Good(DispatchFirst(k), h, oc) /\ Settled(DispatchFirst(k))
<1> DEFINE f == RqFirst(k.rq)
           d == DispatchFirst(k)
<1>1. k \in SchedType /\ k.rq \in Queues /\ k.ceiling \in SUBSET Levels
  BY DEF Good, SchedType
<1>2. f \in Tasks
  BY <1>1, FirstOfQueues
<1>3. /\ d.ceiling = k.ceiling \cup {DispatchPrio[f]}
      /\ d.stk = Append(k.stk, f)
      /\ d.rq = RqRemoveFirst(k.rq)
      /\ d.inSchedule = k.inSchedule
  BY <1>1 DEF DispatchFirst, SchedType
<1>4. d \in SchedType
  BY <1>1, DispatchTyped
<1>5. QLevels(d.rq)
  BY <1>1, <1>3, RemoveLevels DEF Good
<1>6. ~Due(d.rq, d.ceiling)
  BY <1>1, <1>3, DispatchedNotDue DEF Good
<1>7. Stack(k.ceiling, k.stk, k.inSchedule, h, oc) /\ Sets(k.ceiling, k.stk, k.inSchedule, h, oc)
  BY GoodSets DEF Good
<1> HIDE DEF d, f
<1>8. \A l \in k.ceiling : l < ReadyPrio[f]
  BY DEF f
<1>9. /\ Stack(k.ceiling \cup {DispatchPrio[f]}, Append(k.stk, f), k.inSchedule, h, oc)
      /\ TopFree(Append(k.stk, f), k.inSchedule)
  BY <1>2, <1>7, <1>8, PushKeepsStack
<1>10. Good(d, h, oc)
  BY <1>3, <1>4, <1>5, <1>9 DEF Good
<1>11. Settled(d)
  BY <1>3, <1>6, <1>9 DEF Settled
<1> QED BY <1>10, <1>11 DEF d

\* Resuming when nothing is due keeps the invariant.
LEMMA ResumeGood ==
  ASSUME NEW k, NEW h, NEW oc, Good(k, h, oc), ~Due(k.rq, k.ceiling)
  PROVE  Good(ResumeTop(k), h, oc) /\ Settled(ResumeTop(k))
<1> DEFINE t == Top(k.stk)
           d == ResumeTop(k)
<1>1. k \in SchedType /\ k.stk \in Seq(Tasks)
  BY DEF Good, SchedType
<1>2. CASE k.stk = <<>>
  <2>1. d = k
    BY <1>2 DEF ResumeTop, Top
  <2> QED BY <1>2, <2>1 DEF Settled, TopFree
<1>3. CASE k.stk # <<>>
  <2>1. t \in Tasks /\ t # NIL /\ t = k.stk[Len(k.stk)]
    BY <1>1, <1>3, TopTyped, TaskAssumption DEF Top
  <2>2. /\ d.ceiling = IF t \in k.inSchedule
                       THEN (k.ceiling \ {ReadyPrio[t]}) \cup {DispatchPrio[t]}
                       ELSE k.ceiling
        /\ d.stk = k.stk
        /\ d.rq = k.rq
        /\ d.inSchedule = k.inSchedule \ {t}
    BY <1>1, <2>1 DEF ResumeTop, SchedType
  <2>3. d \in SchedType
    BY <1>1, ResumeTyped
  <2>4. Stack(k.ceiling, k.stk, k.inSchedule, h, oc) /\ Sets(k.ceiling, k.stk, k.inSchedule, h, oc)
    BY GoodSets DEF Good
  <2> HIDE DEF d, t
  <2>5. CASE t \in k.inSchedule
    <3>1. Stack((k.ceiling \ {ReadyPrio[t]}) \cup {DispatchPrio[t]}, k.stk,
                k.inSchedule \ {t}, h, oc)
      BY <1>3, <2>1, <2>4, <2>5, ResumeKeepsStack
    <3>2. Good(d, h, oc)
      BY <2>2, <2>3, <2>5, <3>1 DEF Good
    <3>3. ~Due(d.rq, d.ceiling)
      <4> SUFFICES ASSUME Due(d.rq, d.ceiling) PROVE FALSE
        OBVIOUS
      <4>1. NonEmpty(k.rq) # {} /\ \A l \in d.ceiling : l < ReadyPrio[RqFirst(k.rq)]
        BY <2>2 DEF Due, Below
      <4>2. RqFirst(k.rq) \in Tasks
        BY <1>1, <4>1, FirstOfQueues DEF SchedType
      <4>3. DispatchPrio[t] < ReadyPrio[RqFirst(k.rq)]
        BY <2>2, <2>5, <4>1
      <4>4. /\ ReadyPrio[t] =< DispatchPrio[t] /\ ReadyPrio[t] \in Int
            /\ DispatchPrio[t] \in Int /\ ReadyPrio[RqFirst(k.rq)] \in Int
        BY <2>1, <4>2, Prios
      <4>5. ReadyPrio[t] < ReadyPrio[RqFirst(k.rq)]
        BY <4>3, <4>4
      <4>6. \A l \in k.ceiling : l < ReadyPrio[RqFirst(k.rq)]
        BY <2>2, <2>5, <4>1, <4>5
      <4> QED BY <4>1, <4>6 DEF Due, Below
    <3>4. TopFree(d.stk, d.inSchedule)
      BY <2>1, <2>2 DEF TopFree
    <3> QED BY <3>2, <3>3, <3>4 DEF Settled, d
  <2>6. CASE t \notin k.inSchedule
    <3>1. d.ceiling = k.ceiling /\ d.stk = k.stk /\ d.rq = k.rq /\ d.inSchedule = k.inSchedule
      BY <2>2, <2>6
    <3>2. Good(d, h, oc)
      BY <2>3, <3>1 DEF Good
    <3>3. Settled(d)
      BY <2>1, <2>6, <3>1 DEF Settled, TopFree
    <3> QED BY <3>2, <3>3 DEF d
  <2> QED BY <2>5, <2>6
<1> QED BY <1>2, <1>3

\* Leaving the running task keeps the invariant, and nothing is due then.
LEMMA SwitchAwayGood ==
  ASSUME NEW k, NEW h, NEW oc, Good(k, h, oc)
  PROVE  Good(SwitchAway(k), h, oc) /\ Settled(SwitchAway(k))
<1>1. CASE Due(k.rq, k.ceiling)
  <2>1. NonEmpty(k.rq) # {} /\ \A l \in k.ceiling : l < ReadyPrio[RqFirst(k.rq)]
    BY <1>1 DEF Due, Below
  <2>2. SwitchAway(k) = DispatchFirst(k)
    BY <1>1 DEF SwitchAway, Preempts, Due
  <2> QED BY <2>1, <2>2, DispatchGood
<1>2. CASE ~Due(k.rq, k.ceiling)
  <2>1. SwitchAway(k) = ResumeTop(k)
    BY <1>2 DEF SwitchAway, Preempts, Due
  <2> QED BY <1>2, <2>1, ResumeGood
<1> QED BY <1>1, <1>2

\* A preemption keeps the invariant, and nothing is due then.
LEMMA PreemptGood ==
  ASSUME NEW k, NEW h, NEW oc, Good(k, h, oc), TopFree(k.stk, k.inSchedule)
  PROVE  Good(Preempt(k), h, oc) /\ Settled(Preempt(k))
<1>1. CASE Due(k.rq, k.ceiling)
  <2> DEFINE j == [k EXCEPT !.status = [t \in Tasks |-> IF t = Top(k.stk) THEN "READY" ELSE @[t]]]
  <2>1. k \in SchedType
    BY DEF Good
  <2>2. /\ j \in SchedType /\ j.rq = k.rq /\ j.ceiling = k.ceiling /\ j.stk = k.stk
        /\ j.inSchedule = k.inSchedule
    BY <2>1 DEF SchedType, Statuses
  <2>3. Preempt(k) = DispatchFirst(j)
    BY <1>1 DEF Preempt, Preempts, Due
  <2> HIDE DEF j
  <2>4. Good(j, h, oc)
    BY <2>2 DEF Good
  <2>5. NonEmpty(j.rq) # {} /\ \A l \in j.ceiling : l < ReadyPrio[RqFirst(j.rq)]
    BY <1>1, <2>2 DEF Due, Below
  <2> QED BY <2>3, <2>4, <2>5, DispatchGood
<1>2. CASE ~Due(k.rq, k.ceiling)
  <2>1. Preempt(k) = k
    BY <1>2 DEF Preempt, Preempts, Due
  <2> QED BY <1>2, <2>1 DEF Settled
<1> QED BY <1>1, <1>2

\* A preemption point keeps the invariant; outside interrupts nothing is due then.
LEMMA PreemptionPointGood ==
  ASSUME NEW k, NEW h, NEW oc, Good(k, h, oc), TopFree(k.stk, k.inSchedule)
  PROVE  /\ Good(PreemptionPoint(k), h, oc)
         /\ TopFree(PreemptionPoint(k).stk, PreemptionPoint(k).inSchedule)
         /\ irq = 0 => Settled(PreemptionPoint(k))
<1>1. CASE irq = 0
  BY <1>1, PreemptGood DEF PreemptionPoint, Settled
<1>2. CASE irq # 0
  BY <1>2 DEF PreemptionPoint
<1> QED BY <1>1, <1>2

\* Readying a task keeps the invariant, and the stack.
LEMMA MakeReadyGood ==
  ASSUME NEW k, NEW h, NEW oc, Good(k, h, oc), NEW t, t \in Tasks
  PROVE  /\ Good(MakeReady(k, t), h, oc)
         /\ MakeReady(k, t).stk = k.stk /\ MakeReady(k, t).inSchedule = k.inSchedule
<1> DEFINE d == MakeReady(k, t)
<1>1. k \in SchedType /\ k.rq \in Queues
  BY DEF Good, SchedType
<1>2. d \in SchedType
  BY <1>1, MakeReadyTyped
<1>3. /\ d.rq = RqInsert(k.rq, t) /\ d.ceiling = k.ceiling /\ d.stk = k.stk
      /\ d.inSchedule = k.inSchedule
  BY <1>1 DEF MakeReady, SchedType
<1> HIDE DEF d
<1>4. QLevels(d.rq)
  BY <1>1, <1>3, InsertLevels DEF Good
<1>5. Good(d, h, oc)
  BY <1>2, <1>3, <1>4 DEF Good
<1> QED BY <1>3, <1>5 DEF d

-----------------------------------------------------------------------------
(* The inductive invariant.                                                *)

KernelInv ==
  /\ TypeInv
  /\ Stack(sys_ceiling, stk, inSchedule, held, oldceiling)
  /\ TopFree(stk, inSchedule)
  /\ Owned(held, locked)
  /\ QLevels(rq)
  /\ Up /\ irq = 0 => ~Due(rq, sys_ceiling)
  /\ oo_started = "off" => stk = <<>>

\* The invariant of the variables is that of the scheduler's record.
LEMMA NowGood ==
  ASSUME KernelInv
  PROVE  /\ Good(Now, held, oldceiling)
         /\ TopFree(Now.stk, Now.inSchedule)
         /\ Now.stk = stk /\ Now.inSchedule = inSchedule /\ Now.rq = rq
         /\ Now.ceiling = sys_ceiling
<1>1. /\ Now.stk = stk /\ Now.inSchedule = inSchedule /\ Now.rq = rq
      /\ Now.ceiling = sys_ceiling
  BY DEF Now
<1>2. Now \in SchedType
  BY NowTyped DEF KernelInv, TypeInv
<1>3. held \in [Tasks -> Seq(Resources)] /\ oldceiling \in [Resources -> SUBSET Levels]
  BY DEF KernelInv, TypeInv, StateTypes
<1>4. Stack(sys_ceiling, stk, inSchedule, held, oldceiling) /\ QLevels(rq) /\ TopFree(stk, inSchedule)
  BY DEF KernelInv
<1> QED BY <1>1, <1>2, <1>3, <1>4 DEF Good

\* The task on top of the stack, when there is one.
LEMMA TopOfStack ==
  ASSUME KernelInv, current # NIL
  PROVE  /\ current \in Tasks /\ stk # <<>> /\ stk[Len(stk)] = current
         /\ current \notin inSchedule
<1>1. current \in Tasks /\ stk # <<>>
  BY CurrentTyped DEF KernelInv, TypeInv
<1>2. stk[Len(stk)] = current
  BY <1>1 DEF current, Top
<1>3. TopFree(stk, inSchedule)
  BY DEF KernelInv
<1> QED BY <1>1, <1>2, <1>3 DEF TopFree

\* A step that leaves the scheduling state k.
LEMMA StepGood ==
  ASSUME NEW k, Become(k), Good(k, held', oldceiling'), TopFree(k.stk, k.inSchedule),
         oo_started' = "up", irq' = 0 => Settled(k), Owned(held', locked'), TypeInv'
  PROVE  KernelInv'
<1>1. /\ sys_ceiling' = k.ceiling /\ stk' = k.stk /\ rq' = k.rq /\ inSchedule' = k.inSchedule
  BY DEF Become
<1>2. Stack(sys_ceiling, stk, inSchedule, held, oldceiling)'
  BY <1>1 DEF Good
<1>3. QLevels(rq)'
  BY <1>1 DEF Good
<1>4. (Up /\ irq = 0 => ~Due(rq, sys_ceiling))'
  BY <1>1 DEF Settled
<1>5. TopFree(stk, inSchedule)'
  BY <1>1
<1> QED BY <1>2, <1>3, <1>4, <1>5 DEF KernelInv

\* A step that touches neither the scheduling state nor the resources.
LEMMA StutterGood ==
  ASSUME KernelInv, TypeInv', UNCHANGED <<sys_ceiling, stk, rq, inSchedule, held, locked, oldceiling>>,
         Up' /\ irq' = 0 => Up /\ irq = 0, oo_started' = "off" => oo_started = "off"
  PROVE  KernelInv'
<1>1. Stack(sys_ceiling, stk, inSchedule, held, oldceiling)'
  BY DEF KernelInv
<1>2. TopFree(stk, inSchedule)' /\ Owned(held, locked)' /\ QLevels(rq)'
  BY DEF KernelInv
<1>3. (Up /\ irq = 0 => ~Due(rq, sys_ceiling))'
  BY DEF KernelInv
<1> QED BY <1>1, <1>2, <1>3 DEF KernelInv

\* A task without resources may leave the stack.
LEMMA LeaveStackGood ==
  ASSUME NEW k, NEW h, NEW oc, Good(k, h, oc), k.stk # <<>>, k.stk[Len(k.stk)] = current,
         current \in Tasks, current \notin k.inSchedule, h[current] = <<>>,
         NEW st \in Statuses
  PROVE  Good(LeaveStack(k, st, k.ceiling), h, oc)
<1> DEFINE d == LeaveStack(k, st, k.ceiling)
<1>1. k \in SchedType /\ k.ceiling \in SUBSET Levels
  BY DEF Good, SchedType
<1>2. d \in SchedType
  BY <1>1, LeaveStackTyped
<1>3. /\ d.ceiling = k.ceiling \ {DispatchPrio[current]} /\ d.stk = Pop(k.stk)
      /\ d.rq = k.rq /\ d.inSchedule = k.inSchedule
  BY <1>1 DEF LeaveStack, SchedType
<1> HIDE DEF d
<1>4. Stack(k.ceiling, k.stk, k.inSchedule, h, oc) /\ Sets(k.ceiling, k.stk, k.inSchedule, h, oc)
  BY GoodSets DEF Good
<1>5. Stack(k.ceiling \ {DispatchPrio[current]}, Pop(k.stk), k.inSchedule, h, oc)
  BY <1>4, PopKeepsStack
<1>6. Good(d, h, oc)
  BY <1>2, <1>3, <1>5 DEF Good
<1> QED BY <1>6 DEF d

\* The end of an instance that holds no resource in h and leaves the ceiling c.
LEMMA EndInstanceGood ==
  ASSUME KernelInv, current # NIL,
         NEW h, h \in [Tasks -> Seq(Resources)], h[current] = <<>>,
         NEW c, c \in SUBSET Levels, Stack(c, stk, inSchedule, h, oldceiling),
         NEW rn, NEW next, next \in Tasks \cup {NIL}, EndInstance(rn, c, next)
  PROVE  \E k : Become(k) /\ Good(k, h, oldceiling) /\ Settled(k)
<1> DEFINE st == IF rn[current] + 1 = RnactMax[current] \/ current = next
                 THEN "SUSPENDED" ELSE "READY"
           k0 == [Now EXCEPT !.ceiling = c]
           k1 == LeaveStack(Now, st, c)
           k2 == IF next = NIL THEN k1 ELSE MakeReady(k1, next)
<1>1. Now \in SchedType /\ Now.stk = stk /\ Now.inSchedule = inSchedule /\ Now.rq = rq /\ QLevels(rq)
  BY NowGood DEF Good
<1>2. k0 \in SchedType /\ k0.stk = stk /\ k0.inSchedule = inSchedule /\ k0.rq = rq /\ k0.ceiling = c
  BY <1>1 DEF SchedType
<1>3. LeaveStack(k0, st, c) = k1
  BY <1>1 DEF LeaveStack, SchedType
<1>4. st \in Statuses
  BY DEF Statuses
<1>5. Become(SwitchAway(k2))
  BY DEF EndInstance
<1> HIDE DEF st, k0, k1
<1>6. oldceiling \in [Resources -> SUBSET Levels]
  BY DEF KernelInv, TypeInv, StateTypes
<1>7. Good(k0, h, oldceiling)
  BY <1>1, <1>2, <1>6 DEF Good
<1>8. Good(k1, h, oldceiling)
  BY <1>2, <1>3, <1>4, <1>7, TopOfStack, LeaveStackGood
<1>9. Good(k2, h, oldceiling)
  BY <1>8, MakeReadyGood
<1> HIDE DEF k2
<1>10. Good(SwitchAway(k2), h, oldceiling) /\ Settled(SwitchAway(k2))
  BY <1>9, SwitchAwayGood
<1> QED BY <1>5, <1>10

\* A service that rejects its call keeps the invariant.
LEMMA RejectGood ==
  ASSUME KernelInv, TypeInv', NEW e, Reject(e)
  PROVE  KernelInv'
<1>1. UNCHANGED <<oo_started, irq, sys_ceiling, stk, rq, inSchedule, held, locked, oldceiling>>
  BY DEF Reject, kernelVars, schedVars, resVars
<1> QED BY <1>1, StutterGood DEF Up

-----------------------------------------------------------------------------
(* Every service preserves it.                                             *)

\* The initial states satisfy the inductive invariant.
LEMMA InitGood == Init => KernelInv
<1> SUFFICES ASSUME Init PROVE KernelInv
  OBVIOUS
<1>1. TypeInv
  BY InitTyped
<1>2. /\ sys_ceiling = {} /\ stk = <<>> /\ inSchedule = {} /\ rq = [l \in Levels |-> <<>>]
      /\ held = [t \in Tasks |-> <<>>] /\ locked = [r \in Resources |-> FALSE]
      /\ oo_started = "off"
  BY DEF Init
<1>3. 1 .. Len(stk) = {} /\ \A t \in Tasks : 1 .. Len(held[t]) = {} /\ held[t] = <<>>
  BY <1>2
<1>4. sys_ceiling = Base(stk, Len(stk), inSchedule, held)
  BY <1>2, <1>3 DEF Base
<1>5. Stack(sys_ceiling, stk, inSchedule, held, oldceiling)
  BY <1>2, <1>3, <1>4 DEF Stack
<1>6. Owned(held, locked)
  BY <1>2, <1>3 DEF Owned
<1>7. QLevels(rq)
  BY <1>2 DEF QLevels
<1> QED BY <1>1, <1>2, <1>5, <1>6, <1>7 DEF KernelInv, TopFree, Up

\* StartOS keeps the inductive invariant.
LEMMA StartOSGood ==
  ASSUME KernelInv, TypeInv', StartOS
  PROVE  KernelInv'
<1> DEFINE k == [Now EXCEPT
                   !.status = [t \in Tasks |-> IF InAutostart(t) THEN "READY" ELSE @[t]],
                   !.rq = AutostartQueue]
           d == IF NonEmpty(k.rq) = {} THEN k ELSE DispatchFirst(k)
<1>1. Become(d) /\ oo_started = "off" /\ oo_started' = "up"
      /\ held' = held /\ locked' = locked /\ oldceiling' = oldceiling
  BY DEF StartOS, resVars
<1>2. Good(Now, held, oldceiling) /\ Now \in SchedType /\ Now.stk = stk /\ Now.ceiling = sys_ceiling
  BY NowGood DEF Good
<1>3. k \in SchedType
  <2>1. [t \in Tasks |-> IF InAutostart(t) THEN "READY" ELSE Now.status[t]] \in [Tasks -> Statuses]
    BY <1>2 DEF SchedType, Statuses
  <2>2. AutostartQueue \in Queues
    BY AutostartAssumption DEF Queues
  <2> QED BY <1>2, <2>1, <2>2 DEF SchedType
<1>4. /\ k.ceiling = Now.ceiling /\ k.stk = Now.stk /\ k.inSchedule = Now.inSchedule
      /\ k.rq = AutostartQueue
  BY <1>2 DEF SchedType
<1> HIDE DEF k
<1>5. QLevels(AutostartQueue)
  <2> SUFFICES ASSUME NEW l \in Levels, NEW i \in 1 .. Len(AutostartQueue[l])
               PROVE  ReadyPrio[AutostartQueue[l][i]] = l
    BY DEF QLevels
  <2>1. AutostartQueue[l] \in Seq(Tasks)
    BY AutostartAssumption
  <2>2. i \in DOMAIN AutostartQueue[l]
    BY <2>1
  <2> QED BY <2>2, AutostartAssumption
<1>6. Good(k, held, oldceiling)
  BY <1>2, <1>3, <1>4, <1>5 DEF Good
<1>7. k.stk = <<>> /\ k.ceiling = {}
  <2>1. stk = <<>>
    BY <1>1 DEF KernelInv
  <2>2. 1 .. Len(stk) = {}
    BY <2>1
  <2>3. sys_ceiling = {}
    BY <2>2 DEF KernelInv, Stack, Base
  <2> QED BY <1>2, <1>4, <2>1, <2>3
<1>8. Good(d, held, oldceiling) /\ Settled(d)
  <2>1. CASE NonEmpty(k.rq) = {}
    BY <1>6, <1>7, <2>1 DEF Settled, TopFree, Due
  <2>2. CASE NonEmpty(k.rq) # {}
    <3>1. \A l \in k.ceiling : l < ReadyPrio[RqFirst(k.rq)]
      BY <1>7
    <3>2. Good(DispatchFirst(k), held, oldceiling) /\ Settled(DispatchFirst(k))
      BY <1>6, <2>2, <3>1, DispatchGood
    <3> QED BY <2>2, <3>2
  <2> QED BY <2>1, <2>2
<1> HIDE DEF d
<1>9. Owned(held', locked') /\ Good(d, held', oldceiling') /\ TopFree(d.stk, d.inSchedule)
  BY <1>1, <1>8 DEF KernelInv, Settled
<1> QED BY <1>1, <1>8, <1>9, StepGood

\* Activate keeps the inductive invariant.
LEMMA ActivateGood ==
  ASSUME KernelInv, TypeInv', NEW id, ActivateTask(id)
  PROVE  KernelInv'
<1>1. CASE Reject(ActivateError(id))
  BY <1>1, RejectGood
<1>2. CASE /\ Accept(ActivateError(id))
           /\ th_rnact' = [th_rnact EXCEPT ![id] = @ - 1]
           /\ event_active' = ClearEventsOf(th_status, id)
           /\ Become(PreemptionPoint(MakeReady(Now, id)))
           /\ UNCHANGED <<oo_started, irq, th_nextask, resVars>>
  <2> DEFINE d == PreemptionPoint(MakeReady(Now, id))
  <2>1. id \in Tasks
    BY <1>2 DEF Accept, ActivateError
  <2>2. /\ Become(d) /\ irq' = irq /\ oo_started' = "up"
        /\ held' = held /\ locked' = locked /\ oldceiling' = oldceiling
    BY <1>2 DEF resVars, ActivateTask, Caller, Up
  <2>3. /\ Good(MakeReady(Now, id), held, oldceiling)
        /\ TopFree(MakeReady(Now, id).stk, MakeReady(Now, id).inSchedule)
    BY <2>1, NowGood, MakeReadyGood
  <2>4. /\ Good(d, held, oldceiling) /\ TopFree(d.stk, d.inSchedule)
        /\ irq = 0 => Settled(d)
    BY <2>3, PreemptionPointGood
  <2> HIDE DEF d
  <2>5. Owned(held', locked')
    BY <2>2 DEF KernelInv
  <2> QED BY <2>2, <2>4, <2>5, StepGood
<1> QED BY <1>1, <1>2 DEF ActivateTask

\* Terminate keeps the inductive invariant.
LEMMA TerminateGood ==
  ASSUME KernelInv, TypeInv', TerminateTask
  PROVE  KernelInv'
<1>1. CASE Reject(TerminateError)
  BY <1>1, RejectGood
<1>2. CASE /\ Accept(TerminateError)
           /\ th_nextask' = [th_nextask EXCEPT ![current] = NIL]
           /\ EndInstance(th_rnact, sys_ceiling, NIL)
           /\ UNCHANGED <<oo_started, irq, resVars>>
  <2>1. irq = 0 /\ held[current] = <<>>
    BY <1>2 DEF Accept, TerminateError
  <2>2. current # NIL /\ oo_started' = "up"
    BY <1>2, <2>1 DEF TerminateTask, Caller, Up
  <2>3. held' = held /\ locked' = locked /\ oldceiling' = oldceiling
    BY <1>2 DEF resVars
  <2>4. /\ held \in [Tasks -> Seq(Resources)] /\ sys_ceiling \in SUBSET Levels
        /\ Stack(sys_ceiling, stk, inSchedule, held, oldceiling) /\ Owned(held, locked)
    BY DEF KernelInv, TypeInv, StateTypes
  <2>5. \E k : Become(k) /\ Good(k, held, oldceiling) /\ Settled(k)
    BY <1>2, <2>1, <2>2, <2>4, EndInstanceGood
  <2> QED BY <2>2, <2>3, <2>4, <2>5, StepGood DEF Settled
<1> QED BY <1>1, <1>2 DEF TerminateTask

\* Chain keeps the inductive invariant.
LEMMA ChainGood ==
  ASSUME KernelInv, TypeInv', NEW id, id \in Tasks \cup {NIL}, ChainTask(id)
  PROVE  KernelInv'
<1>1. CASE Reject(ChainError(id))
  BY <1>1, RejectGood
<1>2. CASE /\ Accept(ChainError(id))
           /\ th_nextask' = [th_nextask EXCEPT ![current] = id]
           /\ EndInstance([th_rnact EXCEPT ![id] = @ - 1], sys_ceiling, id)
           /\ UNCHANGED <<oo_started, irq, resVars>>
  <2>1. current # NIL /\ held[current] = <<>>
    BY <1>2 DEF Accept, ChainError, CallLevel
  <2>2. oo_started' = "up"
    BY <1>2 DEF ChainTask, Caller, Up
  <2>3. held' = held /\ locked' = locked /\ oldceiling' = oldceiling
    BY <1>2 DEF resVars
  <2>4. /\ held \in [Tasks -> Seq(Resources)] /\ sys_ceiling \in SUBSET Levels
        /\ Stack(sys_ceiling, stk, inSchedule, held, oldceiling) /\ Owned(held, locked)
    BY DEF KernelInv, TypeInv, StateTypes
  <2>5. \E k : Become(k) /\ Good(k, held, oldceiling) /\ Settled(k)
    BY <1>2, <2>1, <2>4, EndInstanceGood
  <2> QED BY <2>2, <2>3, <2>4, <2>5, StepGood DEF Settled
<1> QED BY <1>1, <1>2 DEF ChainTask

\* The resources still held are given back by the ceiling of the first one.
LEMMA BodyReturnsGood ==
  ASSUME KernelInv, TypeInv', TaskBodyReturns
  PROVE  KernelInv'
<1> DEFINE t == current
           h2 == [held EXCEPT ![t] = <<>>]
           c2 == CeilingReleased(t)
<1>1. /\ current # NIL /\ oo_started' = "up"
      /\ held' = h2 /\ oldceiling' = oldceiling
      /\ locked' = [r \in Resources |-> locked[r] /\ r \notin {held[t][i] : i \in DOMAIN held[t]}]
      /\ EndInstance(th_rnact, c2, th_nextask[t])
  BY DEF TaskBodyReturns, InTask, Up, ReleaseAll
<1>2. /\ held \in [Tasks -> Seq(Resources)] /\ sys_ceiling \in SUBSET Levels
      /\ oldceiling \in [Resources -> SUBSET Levels]
      /\ Stack(sys_ceiling, stk, inSchedule, held, oldceiling) /\ Owned(held, locked)
      /\ Sets(sys_ceiling, stk, inSchedule, held, oldceiling)
  BY DEF KernelInv, TypeInv, StateTypes, Sets
<1>3. t \in Tasks /\ stk # <<>> /\ stk[Len(stk)] = t
  BY <1>1, TopOfStack
<1>4. th_nextask[t] \in Tasks \cup {NIL}
  BY <1>3 DEF KernelInv, TypeInv, StateTypes
<1>5. held[t] \in Seq(Resources) /\ Len(held[t]) \in Nat /\ DOMAIN held[t] = 1 .. Len(held[t])
  BY <1>2, <1>3
<1>6. [held EXCEPT ![t] = SubSeq(@, 1, 1 - 1)] = h2
  <2>1. SubSeq(held[t], 1, 1 - 1) = <<>>
    BY SubSeqEmpty
  <2> QED BY <2>1
<1>7. h2 \in [Tasks -> Seq(Resources)] /\ h2[t] = <<>>
  BY <1>2, <1>3
<1> HIDE DEF t, h2, c2
<1>8. Stack(c2, stk, inSchedule, h2, oldceiling) /\ c2 \in SUBSET Levels
  <2>1. CASE held[t] = <<>>
    <3>1. h2 = held /\ c2 = sys_ceiling
      BY <1>2, <1>3, <2>1 DEF h2, c2, CeilingReleased
    <3> QED BY <1>2, <3>1
  <2>2. CASE held[t] # <<>>
    <3>1. 1 \in 1 .. Len(held[t]) /\ held[t][1] \in Resources
      BY <1>5, <2>2
    <3>2. c2 = oldceiling[held[t][1]]
      BY <2>2 DEF c2, CeilingReleased
    <3>3. Stack(oldceiling[held[t][1]], stk, inSchedule,
                [held EXCEPT ![t] = SubSeq(@, 1, 1 - 1)], oldceiling)
      BY <1>2, <1>3, <3>1, RestoreKeepsStack
    <3> QED BY <1>2, <1>6, <3>1, <3>2, <3>3
  <2> QED BY <2>1, <2>2
<1>9. Owned(held', locked')
  <2>1. 1 \in 1 .. Len(held[t]) + 1
    BY <1>5
  <2>2. \A r \in Resources : locked'[r] <=> locked[r] /\ \A i \in 1 .. Len(held[t]) : held[t][i] # r
    BY <1>1, <1>5
  <2>3. Freed(held, locked, t, 1, locked')
    BY <2>2 DEF Freed
  <2>4. Owned([held EXCEPT ![t] = SubSeq(@, 1, 1 - 1)], locked')
    BY <1>2, <1>3, <2>1, <2>3, RestoreKeepsOwned
  <2> QED BY <1>1, <1>6, <2>4
<1>10. \E k : Become(k) /\ Good(k, h2, oldceiling) /\ Settled(k)
  <2>1. h2[current] = <<>> /\ th_nextask[current] \in Tasks \cup {NIL}
        /\ EndInstance(th_rnact, c2, th_nextask[current])
    BY <1>1, <1>4, <1>7 DEF t
  <2> QED BY <1>1, <1>7, <1>8, <2>1, EndInstanceGood
<1> QED BY <1>1, <1>9, <1>10, StepGood DEF Settled

\* A task gives up the CPU inside Schedule only to one of higher priority,
\* which is therefore above the ceiling without the internal resource.
LEMMA ScheduleGood ==
  ASSUME KernelInv, TypeInv', Schedule
  PROVE  KernelInv'
<1>1. CASE Reject(ScheduleError)
  BY <1>1, RejectGood
<1>2. CASE /\ Accept(ScheduleError)
           /\ Become(ScheduleSwitch(Now))
           /\ UNCHANGED <<oo_started, irq, th_rnact, th_nextask, event_active, resVars>>
  <2> DEFINE t == current
             f == RqFirst(rq)
             d == ScheduleSwitch(Now)
             c2 == (sys_ceiling \ {DispatchPrio[t]}) \cup {ReadyPrio[t]}
             j == [Now EXCEPT !.status[t] = "READY",
                     !.ceiling = (@ \ {DispatchPrio[t]}) \cup {ReadyPrio[t]},
                     !.inSchedule = @ \cup {t}]
  <2>1. current # NIL /\ irq = 0 /\ held[t] = <<>>
    BY <1>2 DEF Accept, ScheduleError, CallLevel
  <2>2. /\ oo_started = "up" /\ oo_started' = "up" /\ held' = held /\ locked' = locked
        /\ oldceiling' = oldceiling /\ Become(d)
    BY <1>2 DEF resVars, Schedule, Caller, Up
  <2>3. t \in Tasks /\ stk # <<>> /\ stk[Len(stk)] = t /\ t \notin inSchedule
    BY <2>1, TopOfStack
  <2>4. /\ Good(Now, held, oldceiling) /\ Now \in SchedType /\ Now.stk = stk
        /\ Now.inSchedule = inSchedule /\ Now.rq = rq /\ Now.ceiling = sys_ceiling
        /\ TopFree(Now.stk, Now.inSchedule)
    BY NowGood DEF Good
  <2>5. Stack(sys_ceiling, stk, inSchedule, held, oldceiling)
        /\ Sets(sys_ceiling, stk, inSchedule, held, oldceiling)
    BY <2>4, GoodSets DEF Good
  <2>6. Good(d, held, oldceiling) /\ Settled(d)
    <3>1. CASE NonEmpty(rq) # {} /\ ReadyPrio[t] < ReadyPrio[f]
      <4>1. d = DispatchFirst(j)
        BY <2>4, <3>1 DEF ScheduleSwitch
      <4>2. /\ j \in SchedType /\ j.stk = stk /\ j.rq = rq /\ j.ceiling = c2
            /\ j.inSchedule = inSchedule \cup {t}
        <5>1. ReadyPrio[t] \in Levels
          BY <2>3, Prios
        <5> QED BY <2>3, <2>4, <5>1 DEF SchedType, Statuses
      <4> HIDE DEF j, d, t
      <4>3. Stack(c2, stk, inSchedule \cup {t}, held, oldceiling)
        BY <2>1, <2>3, <2>5, GiveUpKeepsStack
      <4> HIDE DEF c2
      <4>4. Good(j, held, oldceiling)
        BY <2>4, <4>2, <4>3 DEF Good
      <4>5. \A l \in c2 : l < ReadyPrio[f]
        <5> DEFINE n == Len(stk)
                   B == Base(stk, n - 1, inSchedule, held)
        <5>1. stk \in Seq(Tasks) /\ inSchedule \in SUBSET Tasks /\ held \in [Tasks -> Seq(Resources)]
          BY <2>5 DEF Sets
        <5>2. Lv(t, inSchedule, held) = {DispatchPrio[t]}
          <6>1. 1 .. Len(held[t]) = {}
            BY <2>1
          <6>2. Lv(t, inSchedule, held) = {DispatchPrio[t]} \cup {ResCeiling[held[t][i]] : i \in {}}
            BY <2>3, <6>1 DEF Lv
          <6> QED BY <6>2
        <5>3. n = Len(stk) /\ n # 0
          BY <2>3, <5>1
        <5> HIDE DEF n
        <5>4. sys_ceiling = B \cup {DispatchPrio[t]} /\ \A l \in B : l < ReadyPrio[t]
              /\ B \in SUBSET Levels
          BY <2>3, <2>5, <5>2, <5>3, TopSplit
        <5>5. f \in Tasks
          BY <2>4, <3>1, FirstOfQueues DEF SchedType
        <5>6. ReadyPrio[t] \in Int /\ ReadyPrio[f] \in Int /\ \A l \in B : l \in Int
          BY <2>3, <5>4, <5>5, Prios
        <5>7. c2 \subseteq B \cup {ReadyPrio[t]}
          BY <5>4 DEF c2
        <5> QED BY <3>1, <5>4, <5>6, <5>7
      <4>6. NonEmpty(j.rq) # {} /\ \A l \in j.ceiling : l < ReadyPrio[RqFirst(j.rq)]
        BY <3>1, <4>2, <4>5
      <4> QED BY <4>1, <4>4, <4>6, DispatchGood
    <3>2. CASE ~(NonEmpty(rq) # {} /\ ReadyPrio[t] < ReadyPrio[f])
      <4>1. d = Now
        BY <2>4, <3>2 DEF ScheduleSwitch
      <4>2. ~Due(rq, sys_ceiling)
        BY <2>1, <2>2 DEF KernelInv, Up
      <4> QED BY <2>4, <4>1, <4>2 DEF Settled
    <3> QED BY <3>1, <3>2
  <2> HIDE DEF d
  <2>7. Owned(held', locked') /\ TopFree(d.stk, d.inSchedule)
    BY <2>2, <2>6 DEF KernelInv, Settled
  <2> QED BY <2>2, <2>6, <2>7, StepGood
<1> QED BY <1>1, <1>2 DEF Schedule

\* ForceSchedule keeps the inductive invariant.
LEMMA ForceScheduleGood ==
  ASSUME KernelInv, TypeInv', ForceSchedule
  PROVE  KernelInv'
<1> DEFINE d == PreemptionPoint(Now)
<1>1. /\ Become(d) /\ irq' = irq /\ oo_started' = "up"
      /\ held' = held /\ locked' = locked /\ oldceiling' = oldceiling
  BY DEF ForceSchedule, Caller, Up, resVars
<1>2. /\ Good(d, held, oldceiling) /\ TopFree(d.stk, d.inSchedule)
      /\ irq = 0 => Settled(d)
  BY NowGood, PreemptionPointGood
<1> HIDE DEF d
<1>3. Owned(held', locked')
  BY <1>1 DEF KernelInv
<1> QED BY <1>1, <1>2, <1>3, StepGood

\* SetEvent keeps the inductive invariant.
LEMMA SetEventGood ==
  ASSUME KernelInv, TypeInv', NEW id, NEW mask, SetEvent(id, mask)
  PROVE  KernelInv'
<1>1. CASE Reject(SetEventError(id))
  BY <1>1, RejectGood
<1>2. CASE /\ Accept(SetEventError(id))
           /\ event_active' = [event_active EXCEPT ![id] = @ \cup mask]
           /\ Become(IF Wakes(id, mask)
                     THEN PreemptionPoint([Now EXCEPT !.status[id] = "READY",
                                                      !.rq = RqInsert(@, id)])
                     ELSE Now)
           /\ UNCHANGED <<oo_started, irq, th_rnact, th_nextask, resVars>>
  <2> DEFINE j == [Now EXCEPT !.status[id] = "READY", !.rq = RqInsert(@, id)]
             d == IF Wakes(id, mask) THEN PreemptionPoint(j) ELSE Now
  <2>1. id \in Tasks
    BY <1>2 DEF Accept, SetEventError
  <2>2. /\ Become(d) /\ irq' = irq /\ oo_started = "up" /\ oo_started' = "up"
        /\ held' = held /\ locked' = locked /\ oldceiling' = oldceiling
    BY <1>2 DEF resVars, SetEvent, Caller, Up
  <2>3. /\ Good(Now, held, oldceiling) /\ Now \in SchedType /\ Now.rq \in Queues /\ QLevels(Now.rq)
        /\ Now.rq = rq /\ Now.ceiling = sys_ceiling /\ TopFree(Now.stk, Now.inSchedule)
    BY NowGood DEF Good, SchedType
  <2>4. RqInsert(Now.rq, id) \in Queues /\ QLevels(RqInsert(Now.rq, id))
    BY <2>1, <2>3, InsertTyped, InsertLevels
  <2>5. /\ j \in SchedType /\ j.rq = RqInsert(Now.rq, id) /\ j.stk = Now.stk
        /\ j.ceiling = Now.ceiling /\ j.inSchedule = Now.inSchedule
    BY <2>1, <2>3, <2>4 DEF SchedType, Statuses
  <2> HIDE DEF j
  <2>6. Good(j, held, oldceiling) /\ TopFree(j.stk, j.inSchedule)
    BY <2>3, <2>4, <2>5 DEF Good
  <2>7. irq = 0 => Settled(Now)
    BY <2>2, <2>3 DEF KernelInv, Up, Settled
  <2>8. /\ Good(d, held, oldceiling) /\ TopFree(d.stk, d.inSchedule)
        /\ irq = 0 => Settled(d)
    BY <2>3, <2>6, <2>7, PreemptionPointGood
  <2> HIDE DEF d
  <2>9. Owned(held', locked')
    BY <2>2 DEF KernelInv
  <2> QED BY <2>2, <2>8, <2>9, StepGood
<1> QED BY <1>1, <1>2 DEF SetEvent

\* WaitEvent keeps the inductive invariant.
LEMMA WaitEventGood ==
  ASSUME KernelInv, TypeInv', NEW mask, mask \in Masks, WaitEvent(mask)
  PROVE  KernelInv'
<1>1. CASE Reject(WaitEventError)
  BY <1>1, RejectGood
<1>2. CASE /\ Accept(WaitEventError)
           /\ Become(IF event_active[current] \cap mask # {} THEN Now
                     ELSE SwitchAway(Block([Now EXCEPT !.waitmask[current] = mask])))
           /\ UNCHANGED <<oo_started, irq, th_rnact, th_nextask, event_active, resVars>>
  <2> DEFINE j == [Now EXCEPT !.waitmask[current] = mask]
             b == Block(j)
             d == IF event_active[current] \cap mask # {} THEN Now ELSE SwitchAway(b)
  <2>1. current # NIL /\ irq = 0 /\ held[current] = <<>>
    BY <1>2 DEF Accept, WaitEventError, CallLevel
  <2>2. /\ Become(d) /\ oo_started = "up" /\ oo_started' = "up"
        /\ held' = held /\ locked' = locked /\ oldceiling' = oldceiling
    BY <1>2 DEF resVars, WaitEvent, Caller, Up
  <2>3. /\ current \in Tasks /\ stk # <<>> /\ stk[Len(stk)] = current
        /\ current \notin inSchedule
    BY <2>1, TopOfStack
  <2>4. /\ Good(Now, held, oldceiling) /\ Now \in SchedType /\ Now.stk = stk
        /\ Now.inSchedule = inSchedule /\ Now.rq = rq /\ Now.ceiling = sys_ceiling
        /\ TopFree(Now.stk, Now.inSchedule)
    BY NowGood DEF Good
  <2>5. /\ j \in SchedType /\ j.stk = stk /\ j.inSchedule = inSchedule /\ j.rq = rq
        /\ j.ceiling = sys_ceiling
    BY <2>3, <2>4 DEF SchedType, Masks
  <2> HIDE DEF j
  <2>6. Good(j, held, oldceiling)
    BY <2>4, <2>5 DEF Good
  <2>7. "WAITING" \in Statuses
    BY DEF Statuses
  <2>8. Good(LeaveStack(j, "WAITING", j.ceiling), held, oldceiling)
    BY <2>1, <2>3, <2>5, <2>6, <2>7, LeaveStackGood
  <2>9. Good(b, held, oldceiling)
    <3> DEFINE e == LeaveStack(j, "WAITING", j.ceiling)
    <3>1. e \in SchedType /\ b = [e EXCEPT !.waswaiting[current] = TRUE]
      BY <2>8 DEF Good, Block
    <3>2. Good(e, held, oldceiling)
      BY <2>8
    <3> HIDE DEF e, b
    <3>3. /\ b \in SchedType /\ b.ceiling = e.ceiling /\ b.stk = e.stk /\ b.rq = e.rq
          /\ b.inSchedule = e.inSchedule
      BY <2>3, <3>1 DEF SchedType
    <3> QED BY <3>2, <3>3 DEF Good
  <2> HIDE DEF b
  <2>10. Settled(Now)
    BY <2>1, <2>2, <2>4 DEF KernelInv, Up, Settled
  <2>11. Good(d, held, oldceiling) /\ Settled(d)
    BY <2>4, <2>9, <2>10, SwitchAwayGood
  <2> HIDE DEF d
  <2>12. Owned(held', locked') /\ TopFree(d.stk, d.inSchedule)
    BY <2>2, <2>11 DEF KernelInv, Settled
  <2> QED BY <2>2, <2>11, <2>12, StepGood
<1> QED BY <1>1, <1>2 DEF WaitEvent

\* ClearEvent keeps the inductive invariant.
LEMMA ClearEventGood ==
  ASSUME KernelInv, TypeInv', NEW mask, ClearEvent(mask)
  PROVE  KernelInv'
<1>1. CASE Reject(ClearEventError)
  BY <1>1, RejectGood
<1>2. CASE UNCHANGED <<oo_started, irq, taskVars, schedVars, event_waitmask, waswaiting, resVars>>
  BY <1>2, StutterGood DEF schedVars, resVars, Up
<1> QED BY <1>1, <1>2 DEF ClearEvent

\* GetResource keeps the inductive invariant.
LEMMA GetResourceGood ==
  ASSUME KernelInv, TypeInv', NEW r, r \in Resources \cup {NIL}, GetResource(r)
  PROVE  KernelInv'
<1>1. CASE Reject(GetResourceError(r))
  BY <1>1, RejectGood
<1>2. CASE /\ Accept(GetResourceError(r))
           /\ held' = [held EXCEPT ![current] = Append(@, r)]
           /\ locked' = [locked EXCEPT ![r] = TRUE]
           /\ oldceiling' = [oldceiling EXCEPT ![r] = sys_ceiling]
           /\ sys_ceiling' = sys_ceiling \cup {ResCeiling[r]}
           /\ UNCHANGED <<oo_started, irq, taskVars, stk, rq, inSchedule, eventVars>>
  <2>1. r \in Resources /\ ~locked[r] /\ irq = 0
    BY <1>2 DEF Accept, GetResourceError, KernelInv, TypeInv, StateTypes
  <2>2. current # NIL /\ Up /\ oo_started' = "up"
    BY <1>2, <2>1 DEF GetResource, Caller, Up
  <2>3. /\ current \in Tasks /\ stk # <<>> /\ stk[Len(stk)] = current
        /\ current \notin inSchedule
    BY <2>2, TopOfStack
  <2>4. /\ held \in [Tasks -> Seq(Resources)] /\ locked \in [Resources -> BOOLEAN]
        /\ Stack(sys_ceiling, stk, inSchedule, held, oldceiling)
        /\ Sets(sys_ceiling, stk, inSchedule, held, oldceiling)
        /\ Owned(held, locked)
    BY DEF KernelInv, TypeInv, StateTypes, Sets
  <2>5. \A u \in Tasks : \A m \in 1 .. Len(held[u]) : held[u][m] # r
    BY <2>1, <2>4 DEF Owned
  <2>6. Stack(sys_ceiling \cup {ResCeiling[r]}, stk, inSchedule,
              [held EXCEPT ![current] = Append(@, r)], [oldceiling EXCEPT ![r] = sys_ceiling])
    BY <2>1, <2>3, <2>4, <2>5, GetKeepsStack
  <2>7. Stack(sys_ceiling, stk, inSchedule, held, oldceiling)'
    BY <1>2, <2>6
  <2>8. Owned([held EXCEPT ![current] = Append(@, r)], [locked EXCEPT ![r] = TRUE])
    BY <2>1, <2>3, <2>4, GetKeepsOwned
  <2>9. Owned(held, locked)' /\ TopFree(stk, inSchedule)' /\ QLevels(rq)'
    BY <1>2, <2>8 DEF KernelInv
  <2>10. ~Due(rq', sys_ceiling')
    <3>1. ~Due(rq, sys_ceiling) /\ rq' = rq /\ sys_ceiling \subseteq sys_ceiling'
      BY <1>2, <2>1, <2>2 DEF KernelInv
    <3> QED BY <3>1 DEF Due, Below
  <2> QED BY <2>2, <2>7, <2>9, <2>10 DEF KernelInv
<1> QED BY <1>1, <1>2 DEF GetResource

\* The last resource is given back and a preemption it held off is done.
LEMMA ReleaseResourceGood ==
  ASSUME KernelInv, TypeInv', NEW r, r \in Resources \cup {NIL}, ReleaseResource(r)
  PROVE  KernelInv'
<1>1. CASE Reject(ReleaseResourceError(r))
  BY <1>1, RejectGood
<1>2. CASE /\ Accept(ReleaseResourceError(r))
           /\ held' = [held EXCEPT ![current] = Pop(@)]
           /\ locked' = [locked EXCEPT ![r] = FALSE]
           /\ Become(PreemptionPoint([Now EXCEPT !.ceiling = oldceiling[r]]))
           /\ UNCHANGED <<oo_started, irq, th_rnact, th_nextask, event_active, oldceiling>>
  <2> DEFINE t == current
             m == Len(held[t])
             j == [Now EXCEPT !.ceiling = oldceiling[r]]
             d == PreemptionPoint(j)
             h2 == [held EXCEPT ![t] = SubSeq(@, 1, m - 1)]
  <2>1. r \in Resources /\ irq = 0 /\ held[t] # <<>> /\ held[t][m] = r
    BY <1>2 DEF Accept, ReleaseResourceError, Last, KernelInv, TypeInv, StateTypes
  <2>2. current # NIL /\ oo_started' = "up" /\ Become(d) /\ irq' = irq /\ oldceiling' = oldceiling
    BY <1>2, <2>1 DEF ReleaseResource, Caller, Up
  <2>3. t \in Tasks /\ stk # <<>> /\ stk[Len(stk)] = t
    BY <2>2, TopOfStack
  <2>4. /\ held \in [Tasks -> Seq(Resources)] /\ locked \in [Resources -> BOOLEAN]
        /\ oldceiling \in [Resources -> SUBSET Levels]
        /\ Stack(sys_ceiling, stk, inSchedule, held, oldceiling)
        /\ Sets(sys_ceiling, stk, inSchedule, held, oldceiling)
        /\ Owned(held, locked)
    BY DEF KernelInv, TypeInv, StateTypes, Sets
  <2>5. m \in 1 .. Len(held[t]) /\ m \in 1 .. Len(held[t]) + 1 /\ m = Len(held[t])
    BY <2>1, <2>3, <2>4
  <2>6. held' = h2
    BY <1>2 DEF Pop
  <2>7. Stack(oldceiling[held[t][m]], stk, inSchedule, h2, oldceiling)
    BY <2>3, <2>4, <2>5, RestoreKeepsStack
  <2>8. Freed(held, locked, t, m, locked')
    <3>1. m .. Len(held[t]) = {m}
      BY <2>5
    <3>2. \A q \in Resources : locked'[q] <=> locked[q] /\ q # r
      BY <1>2, <2>1, <2>4
    <3> QED BY <2>1, <3>1, <3>2 DEF Freed
  <2>9. Owned(h2, locked')
    BY <2>3, <2>4, <2>5, <2>8, RestoreKeepsOwned
  <2>10. h2 \in [Tasks -> Seq(Resources)]
    BY <2>6 DEF TypeInv, StateTypes
  <2>11. /\ Now \in SchedType /\ QLevels(Now.rq) /\ TopFree(Now.stk, Now.inSchedule)
         /\ Now.stk = stk /\ Now.inSchedule = inSchedule
    BY NowGood DEF Good
  <2>12. /\ j \in SchedType /\ j.ceiling = oldceiling[r] /\ j.stk = stk
         /\ j.inSchedule = inSchedule /\ j.rq = Now.rq
    BY <2>1, <2>4, <2>11 DEF SchedType
  <2> HIDE DEF j, h2, t, m
  <2>13. Good(j, h2, oldceiling) /\ TopFree(j.stk, j.inSchedule)
    BY <2>1, <2>4, <2>7, <2>10, <2>11, <2>12 DEF Good
  <2>14. Good(d, h2, oldceiling) /\ TopFree(d.stk, d.inSchedule) /\ Settled(d)
    BY <2>1, <2>13, PreemptionPointGood
  <2> HIDE DEF d
  <2> QED BY <2>2, <2>6, <2>9, <2>14, StepGood
<1> QED BY <1>1, <1>2 DEF ReleaseResource

\* IRQExit keeps the inductive invariant.
LEMMA IRQExitGood ==
  ASSUME KernelInv, TypeInv', IRQExit
  PROVE  KernelInv'
<1> DEFINE d == Preempt(Now)
<1>1. /\ Become(d) /\ oo_started' = "up"
      /\ held' = held /\ locked' = locked /\ oldceiling' = oldceiling
  BY DEF IRQExit, Up, resVars
<1>2. Good(d, held, oldceiling) /\ Settled(d)
  BY NowGood, PreemptGood
<1> HIDE DEF d
<1>3. Owned(held', locked') /\ TopFree(d.stk, d.inSchedule)
  BY <1>1, <1>2 DEF KernelInv, Settled
<1> QED BY <1>1, <1>2, <1>3, StepGood

\* Every step keeps it.
LEMMA NextGood == KernelInv /\ [Next]_vars => KernelInv'
<1> SUFFICES ASSUME KernelInv, [Next]_vars PROVE KernelInv'
  OBVIOUS
<1>0. TypeInv'
  BY NextTyped DEF KernelInv
<1>1. CASE UNCHANGED vars
  BY <1>0, <1>1, StutterGood DEF vars, kernelVars, schedVars, resVars, Up
<1>2. CASE StartOS
  BY <1>0, <1>2, StartOSGood
<1>3. CASE StartOSAgain
  BY <1>0, <1>3, RejectGood DEF StartOSAgain
<1>4. ASSUME NEW id \in Tasks \cup {NIL}, ActivateTask(id) \/ ChainTask(id)
      PROVE  KernelInv'
  BY <1>0, <1>4, ActivateGood, ChainGood
<1>5. CASE TerminateTask \/ TaskBodyReturns
  BY <1>0, <1>5, TerminateGood, BodyReturnsGood
<1>6. CASE Schedule \/ ForceSchedule
  BY <1>0, <1>6, ScheduleGood, ForceScheduleGood
<1>7. ASSUME NEW id \in Tasks \cup {NIL}, NEW mask \in Masks, SetEvent(id, mask)
      PROVE  KernelInv'
  BY <1>0, <1>7, SetEventGood
<1>8. ASSUME NEW mask \in Masks, WaitEvent(mask) \/ ClearEvent(mask)
      PROVE  KernelInv'
  BY <1>0, <1>8, WaitEventGood, ClearEventGood
<1>9. ASSUME NEW r \in Resources \cup {NIL}, GetResource(r) \/ ReleaseResource(r)
      PROVE  KernelInv'
  BY <1>0, <1>9, GetResourceGood, ReleaseResourceGood
<1>10. CASE IRQEnter
  BY <1>0, <1>10, StutterGood DEF IRQEnter, schedVars, resVars, Up
<1>11. CASE IRQExit
  BY <1>0, <1>11, IRQExitGood
<1>12. CASE ShutdownOS
  BY <1>0, <1>12, StutterGood DEF ShutdownOS, schedVars, resVars, Up
<1>13. CASE ShutdownLoop
  BY <1>0, <1>13, StutterGood DEF ShutdownLoop, vars, kernelVars, schedVars, resVars, Up
<1> QED BY <1>1, <1>2, <1>3, <1>4, <1>5, <1>6, <1>7, <1>8, <1>9, <1>10, <1>11, <1>12, <1>13
        DEF Next

\* The inductive invariant holds in every reachable state.
LEMMA InvariantHolds == Spec => []KernelInv
BY InitGood, NextGood, PTL DEF Spec

-----------------------------------------------------------------------------
(* What follows from it.                                                   *)

\* LevelsOf, the levels of the properties, are those of the invariant.
LEMMA LevelsAgree ==
  ASSUME StateTypes, NEW i \in 1 .. Len(stk)
  PROVE  /\ LevelsOf(stk[i]) = Lv(stk[i], inSchedule, held)
         /\ LevelsOf(stk[i]) \in SUBSET Levels
         /\ stk[i] \in Tasks
<1>1. stk[i] \in Tasks
  BY ElementOfSeq DEF StateTypes
<1>2. held[stk[i]] \in Seq(Resources)
  BY <1>1 DEF StateTypes
<1>3. DOMAIN held[stk[i]] = 1 .. Len(held[stk[i]])
  BY <1>2
<1>4. LevelsOf(stk[i]) = Lv(stk[i], inSchedule, held)
  BY <1>3 DEF LevelsOf, Lv, HeldBy
<1>5. Lv(stk[i], inSchedule, held) \in SUBSET Levels
  BY <1>1, LevelsTyped DEF StateTypes
<1> QED BY <1>1, <1>4, <1>5

\* The domains of the stack and of what tasks hold.
LEMMA StackDomain ==
  ASSUME StateTypes
  PROVE  /\ DOMAIN stk = 1 .. Len(stk) /\ Len(stk) \in Nat
         /\ \A t \in Tasks : DOMAIN held[t] = 1 .. Len(held[t])
BY DEF StateTypes

\* The inductive invariant implies that the ceiling is what the stacked tasks hold, ...
LEMMA CeilingStep == KernelInv => CeilingExact
<1> SUFFICES ASSUME KernelInv PROVE CeilingExact
  OBVIOUS
<1>1. StateTypes /\ DOMAIN stk = 1 .. Len(stk)
  BY StackDomain DEF KernelInv, TypeInv
<1>2. \A i \in 1 .. Len(stk) : /\ LevelsOf(stk[i]) = Lv(stk[i], inSchedule, held)
                               /\ LevelsOf(stk[i]) \in SUBSET Levels
  BY <1>1, LevelsAgree
<1>3. sys_ceiling = Base(stk, Len(stk), inSchedule, held)
  BY DEF KernelInv, Stack
<1>4. UNION {LevelsOf(stk[i]) : i \in 1 .. Len(stk)} = Base(stk, Len(stk), inSchedule, held)
  BY <1>2 DEF Base
<1> QED BY <1>1, <1>3, <1>4 DEF CeilingExact

\* ... that the stack is ordered by priority, ...
LEMMA OrderStep == KernelInv => StackOrdered
<1> SUFFICES ASSUME KernelInv PROVE StackOrdered
  OBVIOUS
<1>1. StateTypes /\ DOMAIN stk = 1 .. Len(stk)
  BY StackDomain DEF KernelInv, TypeInv
<1>2. \A i \in 1 .. Len(stk) : LevelsOf(stk[i]) = Lv(stk[i], inSchedule, held)
  BY <1>1, LevelsAgree
<1>3. \A i, j \in 1 .. Len(stk) : i < j =>
        \A l \in Lv(stk[i], inSchedule, held) : l < ReadyPrio[stk[j]]
  BY DEF KernelInv, Stack
<1> QED BY <1>1, <1>2, <1>3 DEF StackOrdered

\* ... that a locked resource is held, ...
LEMMA LockedStep == KernelInv => LockedMeansHeld
<1> SUFFICES ASSUME KernelInv, NEW r \in Resources
             PROVE  locked[r] <=> \E i \in DOMAIN stk : r \in HeldBy(stk[i])
  BY DEF LockedMeansHeld
<1>1. StateTypes /\ DOMAIN stk = 1 .. Len(stk) /\ \A t \in Tasks : DOMAIN held[t] = 1 .. Len(held[t])
  BY StackDomain DEF KernelInv, TypeInv
<1>2. locked[r] <=> \E t \in Tasks : \E i \in 1 .. Len(held[t]) : held[t][i] = r
  BY DEF KernelInv, Owned
<1>3. \A i \in 1 .. Len(stk) : stk[i] \in Tasks
  BY <1>1, LevelsAgree
<1>4. ASSUME locked[r]
      PROVE  \E i \in DOMAIN stk : r \in HeldBy(stk[i])
  <2>1. PICK t \in Tasks : \E i \in 1 .. Len(held[t]) : held[t][i] = r
    BY <1>2, <1>4
  <2>2. held[t] # <<>>
    BY <2>1
  <2>3. PICK j \in 1 .. Len(stk) : stk[j] = t
    BY <2>2 DEF KernelInv, Stack
  <2> QED BY <1>1, <2>1, <2>3 DEF HeldBy
<1>5. ASSUME NEW i \in DOMAIN stk, r \in HeldBy(stk[i])
      PROVE  locked[r]
  BY <1>1, <1>2, <1>3, <1>5 DEF HeldBy
<1> QED BY <1>4, <1>5

\* ... that the running task never meets a resource that another one holds, ...
LEMMA ContentionStep == KernelInv => ResourceNeverContended
<1> SUFFICES ASSUME KernelInv, NEW r \in Resources, locked[r], current # NIL,
                    ReadyPrio[current] =< ResCeiling[r]
             PROVE  r \in HeldBy(current)
  BY DEF ResourceNeverContended
<1>1. StateTypes /\ DOMAIN stk = 1 .. Len(stk) /\ Len(stk) \in Nat
  BY StackDomain DEF KernelInv, TypeInv
<1>2. PICK i \in 1 .. Len(stk) : r \in HeldBy(stk[i])
  BY <1>1, LockedStep DEF LockedMeansHeld
<1>3. current \in Tasks /\ stk[Len(stk)] = current
  BY TopOfStack
<1>4. CASE i = Len(stk)
  BY <1>2, <1>3, <1>4
<1>5. CASE i # Len(stk)
  <2>1. i < Len(stk) /\ Len(stk) \in 1 .. Len(stk)
    <3> DEFINE n == Len(stk)
    <3>1. n \in Nat /\ i \in 1 .. n /\ i # n
      BY <1>1, <1>5
    <3> HIDE DEF n
    <3>2. i < n /\ n \in 1 .. n
      BY <3>1
    <3> QED BY <3>2 DEF n
  <2>2. ResCeiling[r] \in LevelsOf(stk[i])
    BY <1>2 DEF LevelsOf
  <2>3. ResCeiling[r] < ReadyPrio[current]
    BY <1>1, <1>3, <2>1, <2>2, OrderStep DEF StackOrdered
  <2>4. ResCeiling[r] \in Int /\ ReadyPrio[current] \in Int
    BY <1>3, Prios
  <2> QED BY <2>3, <2>4
<1> QED BY <1>4, <1>5

\* ... that at most one task of lower priority keeps a task from running, ...
LEMMA BlockingStep == KernelInv => SingleBlocking
<1> SUFFICES ASSUME KernelInv, NEW t \in Tasks
             PROVE  Cardinality({i \in DOMAIN stk :
                      /\ ReadyPrio[stk[i]] < ReadyPrio[t]
                      /\ \E l \in LevelsOf(stk[i]) : l >= ReadyPrio[t]}) =< 1
  BY DEF SingleBlocking
<1> DEFINE X == {i \in DOMAIN stk :
                   /\ ReadyPrio[stk[i]] < ReadyPrio[t]
                   /\ \E l \in LevelsOf(stk[i]) : l >= ReadyPrio[t]}
<1>1. StateTypes /\ DOMAIN stk = 1 .. Len(stk) /\ Len(stk) \in Nat
  BY StackDomain DEF KernelInv, TypeInv
<1>2. ASSUME NEW i \in X, NEW j \in X, i < j
      PROVE  FALSE
  <2>1. i \in 1 .. Len(stk) /\ j \in 1 .. Len(stk)
    BY <1>1
  <2>2. PICK l \in LevelsOf(stk[i]) : l >= ReadyPrio[t]
    OBVIOUS
  <2>3. l < ReadyPrio[stk[j]]
    BY <1>1, <1>2, <2>1, OrderStep DEF StackOrdered
  <2>4. ReadyPrio[stk[j]] < ReadyPrio[t]
    OBVIOUS
  <2>5. LevelsOf(stk[i]) \in SUBSET Levels /\ stk[j] \in Tasks
    BY <1>1, <2>1, LevelsAgree
  <2>6. l \in Int /\ ReadyPrio[stk[j]] \in Int /\ ReadyPrio[t] \in Int
    BY <2>2, <2>5, Prios
  <2> QED BY <2>2, <2>3, <2>4, <2>6
<1>3. \A i, j \in X : i = j
  <2> SUFFICES ASSUME NEW i \in X, NEW j \in X, i # j PROVE FALSE
    OBVIOUS
  <2>1. i \in 1 .. Len(stk) /\ j \in 1 .. Len(stk)
    BY <1>1
  <2>2. i < j \/ j < i
    BY <1>1, <2>1
  <2> QED BY <1>2, <2>2
<1> HIDE DEF X
<1>4. CASE X = {}
  BY <1>4, FS_EmptySet DEF X
<1>5. CASE X # {}
  <2>1. PICK i \in X : TRUE
    BY <1>5
  <2>2. X = {i}
    BY <1>3, <2>1
  <2>3. Cardinality(X) = 1
    BY <2>2, FS_Singleton
  <2> QED BY <2>3 DEF X
<1> QED BY <1>4, <1>5

\* ... and that no preemption is missed.
LEMMA PreemptionStep == KernelInv => NoMissedPreemption
<1> SUFFICES ASSUME KernelInv, Up, irq = 0 PROVE ~Preempts(Now)
  BY DEF NoMissedPreemption
<1>1. Now.rq = rq /\ Now.ceiling = sys_ceiling
  BY DEF Now
<1>2. ~Due(rq, sys_ceiling)
  BY DEF KernelInv
<1> QED BY <1>1, <1>2 DEF Preempts, Due

\* At every point user code runs the system ceiling is the levels of the tasks
\* on the stack, although each service changes single bits of it or restores a
\* value saved long before.
THEOREM CeilingIsExact == Spec => []CeilingExact
BY InvariantHolds, CeilingStep, PTL

\* A task lies above another one only if it is above all of its levels.
THEOREM StackIsOrdered == Spec => []StackOrdered
BY InvariantHolds, OrderStep, PTL

\* A resource is locked exactly while a task on the stack holds it.
THEOREM LockedAreHeld == Spec => []LockedMeansHeld
BY InvariantHolds, LockedStep, PTL

\* No task meets a resource locked by another one: the ceiling alone excludes.
THEOREM NoContention == Spec => []ResourceNeverContended
BY InvariantHolds, ContentionStep, PTL

\* At most one task of lower priority holds off a given task.
THEOREM BlockedOnce == Spec => []SingleBlocking
BY InvariantHolds, BlockingStep, PTL

\* No call, switch or interrupt leaves a preemption undone.
THEOREM PreemptionIsDone == Spec => []NoMissedPreemption
BY InvariantHolds, PreemptionStep, PTL

\* A resource is unlocked only by the running task that holds it.
LEMMA OwnerStep ==
  ASSUME KernelInv, [Next]_vars
  PROVE  [\A r \in Resources : locked[r] /\ ~locked'[r] => irq = 0 /\ r \in HeldBy(current)]_vars
<1> SUFFICES ASSUME NEW r \in Resources, locked[r], ~locked'[r]
             PROVE  irq = 0 /\ r \in HeldBy(current)
  OBVIOUS
<1> USE DEF kernelVars, taskVars, schedVars, eventVars, resVars, Reject
<1>0. locked \in [Resources -> BOOLEAN] /\ irq \in {0, 1} /\ held \in [Tasks -> Seq(Resources)]
  BY DEF KernelInv, TypeInv, StateTypes
<1>1. CASE UNCHANGED vars
  BY <1>1 DEF vars
<1>2. CASE StartOS \/ StartOSAgain \/ TerminateTask \/ Schedule \/ ForceSchedule
  BY <1>2 DEF StartOS, StartOSAgain, TerminateTask, Schedule, ForceSchedule
<1>3. ASSUME NEW id, ActivateTask(id) \/ ChainTask(id) PROVE FALSE
  BY <1>3 DEF ActivateTask, ChainTask
<1>4. ASSUME NEW id, NEW mask, SetEvent(id, mask) \/ WaitEvent(mask) \/ ClearEvent(mask) PROVE FALSE
  BY <1>4 DEF SetEvent, WaitEvent, ClearEvent
<1>5. CASE TaskBodyReturns
  BY <1>5 DEF TaskBodyReturns, InTask, ReleaseAll, HeldBy
<1>6. ASSUME NEW q \in Resources \cup {NIL}, GetResource(q) PROVE FALSE
  <2>1. locked' = [locked EXCEPT ![q] = TRUE] \/ locked' = locked
    BY <1>6 DEF GetResource
  <2> QED BY <1>0, <2>1
<1>7. ASSUME NEW q \in Resources \cup {NIL}, ReleaseResource(q)
      PROVE  irq = 0 /\ r \in HeldBy(current)
  <2>1. Accept(ReleaseResourceError(q)) /\ locked' = [locked EXCEPT ![q] = FALSE]
    BY <1>7 DEF ReleaseResource
  <2>2. q = r
    BY <1>0, <2>1
  <2>3. irq = 0 /\ Last(r, current)
    BY <1>0, <2>1, <2>2 DEF Accept, ReleaseResourceError
  <2>4. current # NIL
    BY <1>7, <2>3 DEF ReleaseResource, Caller
  <2>5. current \in Tasks
    BY <2>4, TopOfStack
  <2>6. held[current] \in Seq(Resources) /\ held[current] # <<>>
    BY <1>0, <2>3, <2>5 DEF Last
  <2>7. Len(held[current]) \in DOMAIN held[current] /\ held[current][Len(held[current])] = r
    BY <2>3, <2>6 DEF Last
  <2> QED BY <2>3, <2>7 DEF HeldBy
<1>8. CASE IRQEnter \/ IRQExit \/ ShutdownOS \/ ShutdownLoop
  BY <1>8 DEF IRQEnter, IRQExit, ShutdownOS, ShutdownLoop, vars
<1> QED BY <1>1, <1>2, <1>3, <1>4, <1>5, <1>6, <1>7, <1>8 DEF Next

\* Only the task that holds a resource unlocks it, and never from an ISR.
THEOREM OwnerReleases == Spec => OnlyOwnerReleases
BY InvariantHolds, OwnerStep, PTL DEF Spec, OnlyOwnerReleases
=============================================================================
