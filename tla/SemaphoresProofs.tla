--------------------------- MODULE SemaphoresProofs ---------------------------
(***************************************************************************)
(* The semaphores of Semaphores: the links are queues, and the kernel      *)
(* below stays right.                                                      *)
(*                                                                         *)
(* The invariant names the queues that the links spell: Shape says that    *)
(* first, last and EE_th_next give each semaphore a list of tasks, no task *)
(* twice. StatusInv of OsekStatusProofs is taken with the members of these *)
(* lists as the tasks that wait with an empty mask, and KernelInv says of  *)
(* the stack what its links need. A step changes one list at one end.      *)
(***************************************************************************)
EXTENDS OsekStatusProofs, Semaphores, ListLemmas

-----------------------------------------------------------------------------
(* The queues, over plain values.                                          *)

\* The semaphores sm and the links next give the queue q[s] to each s.
Shape(sm, next, q) ==
  /\ \A s \in Sems : Spells(sm[s].first, next, NIL, q[s]) /\ sm[s].last = Top(q[s])
  /\ \A s \in Sems : Distinct(q[s])
  /\ \A s, u \in Sems : \A t \in Tasks : In(q[s], t) /\ In(q[u], t) => s = u

Lines == [Sems -> Seq(Tasks)]
Members(q) == {t \in Tasks : \E s \in Sems : In(q[s], t)}
Links == [Tasks -> Tasks \cup {NIL}]

\* The names of ListLemmas for what OsekStatusProofs says of stack and queues.
LEMMA SameNames ==
  /\ \A q, t : In(q, t) <=> Has(q, t)
  /\ \A q : Distinct(q) <=> Once(q)
  /\ \A q : Top(q) = LastOf(q, NIL)
BY DEF In, Has, Distinct, Once, Top, LastOf

-----------------------------------------------------------------------------
(* The queues of all semaphores.                                           *)

\* The links of tasks that wait in no queue do not matter.
LEMMA SameShape ==
  ASSUME NEW sm, NEW q \in Lines, NEW next, Shape(sm, next, q),
         NEW next2, \A t \in Members(q) : next2[t] = next[t]
  PROVE  Shape(sm, next2, q)
<1> SUFFICES ASSUME NEW s \in Sems, NEW i \in 1 .. Len(q[s])
             PROVE  next2[q[s][i]] = IF i = Len(q[s]) THEN NIL ELSE q[s][i + 1]
  BY DEF Shape, Spells
<1>1. q[s] \in Seq(Tasks)
  BY DEF Lines
<1>2. q[s][i] \in Members(q)
  BY <1>1, ElementOfSeq DEF Members, In
<1> QED BY <1>2 DEF Shape, Spells

\* q2 differs from q at s alone, where it is e.
Only(q, s, e, q2) ==
  q2 \in Lines /\ q2[s] = e /\ \A u \in Sems \ {s} : q2[u] = q[u]

\* c follows the last waiter of s; first and last of s are set accordingly.
Follows(sm, next, q, s, c, sm2, next2) ==
  /\ next2[c] = NIL
  /\ \A t \in Members(q) :
       next2[t] = IF q[s] # <<>> /\ t = sm[s].last THEN c ELSE next[t]
  /\ \A u \in Sems \ {s} : sm2[u] = sm[u]
  /\ sm2[s].first = (IF sm[s].first = NIL THEN c ELSE sm[s].first) /\ sm2[s].last = c

\* first of s moves on by one link, and last is cleared with it.
MovesOn(sm, next, s, sm2) ==
  /\ \A u \in Sems \ {s} : sm2[u] = sm[u]
  /\ sm2[s].first = next[sm[s].first]
  /\ sm2[s].last = (IF next[sm[s].first] = NIL THEN NIL ELSE sm[s].last)

\* c, that waits in no queue, comes to the end of the queue of s.
Enters(sm, next, q, s, c, sm2, next2, q2) ==
  /\ q \in Lines /\ s \in Sems /\ c \in Tasks /\ c \notin Members(q)
  /\ Shape(sm, next, q) /\ Follows(sm, next, q, s, c, sm2, next2)
  /\ Only(q, s, Append(q[s], c), q2)

\* The first waiter of s goes.
Leaves(sm, next, q, s, sm2, q2) ==
  /\ q \in Lines /\ s \in Sems /\ q[s] # <<>>
  /\ Shape(sm, next, q) /\ MovesOn(sm, next, s, sm2)
  /\ Only(q, s, Tail(q[s]), q2)

\* A waiter that enters the queue of s, and waits in no other.
LEMMA EnterShape ==
  ASSUME NEW sm, NEW q, NEW next, NEW s, NEW c, NEW next2, NEW sm2, NEW q2,
         Enters(sm, next, q, s, c, sm2, next2, q2)
  PROVE  /\ Shape(sm2, next2, q2)
         /\ Members(q2) = Members(q) \cup {c}
<1> USE DEF Follows, Enters
<1>1. /\ \A u \in Sems : q[u] \in Seq(Tasks) /\ Distinct(q[u])
      /\ \A u \in Sems : Spells(sm[u].first, next, NIL, q[u]) /\ sm[u].last = Top(q[u])
      /\ Append(q[s], c) \in Seq(Tasks)
  BY AppendProperties DEF Lines, Shape
<1>2. q2 \in Lines /\ q2[s] = Append(q[s], c) /\ \A u \in Sems \ {s} : q2[u] = q[u]
  BY DEF Only
<1>3. \A u \in Sems : \A t \in Tasks : In(q[u], t) => t \in Members(q)
  BY DEF Members
<1>4. \A t \in Tasks : In(q2[s], t) <=> In(q[s], t) \/ t = c
  BY <1>1, <1>2, InAppend
<1>5. /\ Spells(sm2[s].first, next2, NIL, q2[s]) /\ sm2[s].last = Top(q2[s]) /\ Distinct(q2[s])
  <2>1. ~In(q[s], c)
    BY <1>3
  <2>2. ASSUME NEW t \in Tasks, In(q[s], t)
        PROVE  next2[t] = IF t = Top(q[s]) THEN c ELSE next[t]
    <3>1. t \in Members(q) /\ q[s] # <<>>
      BY <1>3, <2>2, EmptySeq DEF In
    <3> QED BY <1>1, <3>1
  <2>3. /\ Spells(IF sm[s].first = NIL THEN c ELSE sm[s].first, next2, NIL, Append(q[s], c))
        /\ Top(Append(q[s], c)) = c /\ Distinct(Append(q[s], c))
    <3>1. /\ q[s] \in Seq(Tasks) /\ Once(q[s]) /\ Spells(sm[s].first, next, NIL, q[s])
          /\ ~Has(q[s], c) /\ NIL \notin Tasks
          /\ \A t \in Tasks : Has(q[s], t) => next2[t] = IF t = LastOf(q[s], NIL) THEN c ELSE next[t]
      BY <1>1, <2>1, <2>2, SameNames, TaskAssumption
    <3>2. /\ Spells(IF sm[s].first = NIL THEN c ELSE sm[s].first, next2, NIL, Append(q[s], c))
          /\ LastOf(Append(q[s], c), NIL) = c /\ Once(Append(q[s], c))
      BY <3>1, AppendSpells
    <3> QED BY <3>2, SameNames
  <2> QED BY <1>2, <2>3
<1>6. ASSUME NEW u \in Sems \ {s}
      PROVE  Spells(sm2[u].first, next2, NIL, q2[u]) /\ sm2[u].last = Top(q2[u]) /\ Distinct(q2[u])
  <2>1. ASSUME NEW i \in 1 .. Len(q[u]) PROVE next2[q[u][i]] = next[q[u][i]]
    <3>1. q[u][i] \in Tasks /\ In(q[u], q[u][i])
      BY <1>1, ElementOfSeq DEF In
    <3>2. ~(q[s] # <<>> /\ q[u][i] = sm[s].last)
      <4>1. q[s] # <<>> => In(q[s], Top(q[s]))
        <5> SUFFICES ASSUME q[s] # <<>> PROVE In(q[s], Top(q[s]))
          OBVIOUS
        <5>1. Len(q[s]) \in 1 .. Len(q[s]) /\ Top(q[s]) = q[s][Len(q[s])]
          BY <1>1, EmptySeq DEF Top
        <5> QED BY <5>1 DEF In
      <4>2. ~In(q[s], q[u][i])
        BY <3>1 DEF Shape
      <4> QED BY <1>1, <4>1, <4>2
    <3> QED BY <1>3, <3>1, <3>2
  <2>2. Spells(sm[u].first, next2, NIL, q[u])
    BY <1>1, <2>1 DEF Spells
  <2> QED BY <1>1, <1>2, <2>2
<1>10. \A u \in Sems : \A t \in Tasks : In(q2[u], t) <=> In(q[u], t) \/ (u = s /\ t = c)
  BY <1>2, <1>4
<1>7. ASSUME NEW u \in Sems, NEW v \in Sems, NEW t \in Tasks, In(q2[u], t), In(q2[v], t)
      PROVE  u = v
  <2>1. In(q[u], t) /\ In(q[v], t) => u = v
    BY DEF Shape
  <2>2. ~In(q[u], c) /\ ~In(q[v], c)
    BY <1>3
  <2>3. (In(q[u], t) \/ (u = s /\ t = c)) /\ (In(q[v], t) \/ (v = s /\ t = c))
    BY <1>7, <1>10
  <2> QED BY <2>1, <2>2, <2>3
<1>8. Members(q2) = Members(q) \cup {c}
  <2>1. \A t \in Tasks : (\E u \in Sems : In(q2[u], t)) <=> (\E u \in Sems : In(q[u], t)) \/ t = c
    BY <1>10
  <2> QED BY <2>1 DEF Members
<1>9. Shape(sm2, next2, q2)
  <2>1. \A u \in Sems : Spells(sm2[u].first, next2, NIL, q2[u]) /\ sm2[u].last = Top(q2[u]) /\ Distinct(q2[u])
    BY <1>5, <1>6
  <2> QED BY <1>7, <2>1 DEF Shape
<1> QED BY <1>2, <1>8, <1>9

\* The first waiter of s leaves its queue.
LEMMA WakeShape ==
  ASSUME NEW sm, NEW q, NEW next, NEW s, NEW sm2, NEW q2,
         Leaves(sm, next, q, s, sm2, q2)
  PROVE  /\ Shape(sm2, next, q2)
         /\ sm[s].first \in Members(q)
         /\ Members(q2) = Members(q) \ {sm[s].first}
<1> DEFINE f == sm[s].first
<1> USE DEF MovesOn, Leaves
<1>1. /\ \A u \in Sems : q[u] \in Seq(Tasks) /\ Distinct(q[u])
      /\ \A u \in Sems : Spells(sm[u].first, next, NIL, q[u]) /\ sm[u].last = Top(q[u])
      /\ Tail(q[s]) \in Seq(Tasks)
  BY HeadTailProperties DEF Lines, Shape
<1>2. q2 \in Lines /\ q2[s] = Tail(q[s]) /\ \A u \in Sems \ {s} : q2[u] = q[u]
  BY DEF Only
<1>3. /\ f \in Tasks /\ In(q[s], f)
      /\ Spells(next[f], next, NIL, Tail(q[s]))
      /\ Top(Tail(q[s])) = IF next[f] = NIL THEN NIL ELSE Top(q[s])
      /\ Distinct(Tail(q[s]))
      /\ \A t \in Tasks : In(Tail(q[s]), t) <=> In(q[s], t) /\ t # f
  <2>1. /\ q[s] \in Seq(Tasks) /\ Once(q[s]) /\ Spells(f, next, NIL, q[s])
        /\ NIL \notin Tasks /\ q[s] # <<>>
    BY <1>1, SameNames, TaskAssumption
  <2> HIDE DEF f
  <2>2. /\ f \in Tasks /\ Has(q[s], f)
        /\ Spells(next[f], next, NIL, Tail(q[s]))
        /\ LastOf(Tail(q[s]), NIL) = IF next[f] = NIL THEN NIL ELSE LastOf(q[s], NIL)
        /\ Once(Tail(q[s]))
        /\ \A t \in Tasks : Has(Tail(q[s]), t) <=> Has(q[s], t) /\ t # f
    BY <2>1, TailSpells
  <2> QED BY <2>2, SameNames
<1>4. \A u \in Sems : Spells(sm2[u].first, next, NIL, q2[u]) /\ sm2[u].last = Top(q2[u]) /\ Distinct(q2[u])
  <2>1. Spells(sm2[s].first, next, NIL, q2[s]) /\ sm2[s].last = Top(q2[s]) /\ Distinct(q2[s])
    BY <1>1, <1>2, <1>3
  <2> QED BY <1>1, <1>2, <2>1
<1>5. \A u, v \in Sems : \A t \in Tasks : In(q[u], t) /\ In(q[v], t) => u = v
  BY DEF Shape
<1>6. \A u \in Sems : \A t \in Tasks : In(q2[u], t) <=> In(q[u], t) /\ t # f
  <2>1. \A u \in Sems : In(q[u], f) => u = s
    BY <1>3, <1>5
  <2> QED BY <1>2, <1>3, <2>1
<1>7. Shape(sm2, next, q2)
  <2>1. \A u, v \in Sems : \A t \in Tasks : In(q2[u], t) /\ In(q2[v], t) => u = v
    BY <1>5, <1>6
  <2> QED BY <1>4, <2>1 DEF Shape
<1>8. f \in Members(q) /\ Members(q2) = Members(q) \ {f}
  BY <1>3, <1>6 DEF Members
<1> QED BY <1>2, <1>7, <1>8

-----------------------------------------------------------------------------
(* The stack changes at its top only.                                      *)

\* At most one task is put on s.
Pushed(s2, s) == s2 = s \/ \E f \in Tasks : s2 = Append(s, f)

\* All of s2 but its top was there in s.
Kept(s2, s) == \A i \in 1 .. Len(s2) - 1 : i \in 1 .. Len(s) /\ s2[i] = s[i]

\* A task is put on the stack.
LEMMA PushKept ==
  ASSUME NEW s \in Seq(Tasks), NEW s2, Pushed(s2, s)
  PROVE  Kept(s2, s)
<1>1. Len(s) \in Nat
  BY LenProperties
<1>2. CASE s2 = s
  BY <1>1, <1>2 DEF Kept
<1>3. ASSUME NEW f \in Tasks, s2 = Append(s, f) PROVE Kept(s2, s)
  <2>1. Len(s2) - 1 = Len(s) /\ \A i \in 1 .. Len(s) : s2[i] = s[i]
    BY <1>1, <1>3, AppendProperties
  <2> QED BY <2>1 DEF Kept
<1> QED BY <1>2, <1>3 DEF Pushed

\* The top is taken off, and another task may be put on.
LEMMA PopKept ==
  ASSUME NEW s \in Seq(Tasks), s # <<>>, NEW s2, Pushed(s2, Pop(s))
  PROVE  Kept(s2, s)
<1>1. /\ Len(s) \in Nat /\ Pop(s) \in Seq(Tasks) /\ Len(Pop(s)) = Len(s) - 1
      /\ \A i \in 1 .. Len(s) - 1 : Pop(s)[i] = s[i]
  BY LenProperties, PopTyped, PopProperties
<1>2. Kept(s2, Pop(s))
  BY <1>1, PushKept
<1>3. ASSUME NEW i \in 1 .. Len(s2) - 1 PROVE i \in 1 .. Len(s) /\ s2[i] = s[i]
  <2>1. i \in 1 .. Len(s) - 1 /\ s2[i] = Pop(s)[i]
    BY <1>1, <1>2 DEF Kept
  <2> QED BY <1>1, <2>1
<1> QED BY <1>3 DEF Kept

\* Dispatching puts the first ready task on the stack.
LEMMA DispatchPushes ==
  ASSUME NEW k \in SchedType, NonEmpty(k.rq) # {}
  PROVE  Pushed(DispatchFirst(k).stk, k.stk)
BY DispatchFields DEF Pushed

\* A switch away puts at most one task on the stack, ...
LEMMA SwitchPushes ==
  ASSUME NEW k \in SchedType
  PROVE  Pushed(SwitchAway(k).stk, k.stk)
<1>1. CASE Preempts(k)
  BY <1>1, DispatchPushes DEF SwitchAway, Preempts
<1>2. CASE ~Preempts(k)
  BY <1>2, ResumeFields DEF SwitchAway, Pushed
<1> QED BY <1>1, <1>2

\* ... and so does a preemption.
LEMMA PreemptPushes ==
  ASSUME NEW k \in SchedType
  PROVE  Pushed(Preempt(k).stk, k.stk) /\ Pushed(PreemptionPoint(k).stk, k.stk)
<1> DEFINE j == [k EXCEPT !.status = [t \in Tasks |-> IF t = Top(k.stk) THEN "READY" ELSE @[t]]]
<1>1. j \in SchedType /\ j.rq = k.rq /\ j.stk = k.stk
  BY DEF SchedType, Statuses
<1>2. Preempt(k) = IF Preempts(k) THEN DispatchFirst(j) ELSE k
  BY DEF Preempt
<1> HIDE DEF j
<1>3. Pushed(Preempt(k).stk, k.stk)
  <2>1. CASE Preempts(k)
    BY <1>1, <1>2, <2>1, DispatchPushes DEF Preempts
  <2>2. CASE ~Preempts(k)
    BY <1>2, <2>2 DEF Pushed
  <2> QED BY <2>1, <2>2
<1> QED BY <1>3 DEF PreemptionPoint, Pushed

\* The end of an instance takes the running task off.
LEMMA EndKept ==
  ASSUME KernelInv, current # NIL, NEW rn, NEW c \in SUBSET Levels, NEW next \in Tasks \cup {NIL},
         EndInstance(rn, c, next)
  PROVE  Kept(stk', stk)
<1> DEFINE st == IF rn[current] + 1 = RnactMax[current] \/ current = next
                 THEN "SUSPENDED" ELSE "READY"
           k1 == LeaveStack(Now, st, c)
           k2 == IF next = NIL THEN k1 ELSE MakeReady(k1, next)
<1>1. /\ Now \in SchedType /\ Now.stk = stk /\ stk \in Seq(Tasks) /\ stk # <<>>
      /\ current \in Tasks
  BY NowIs, NowGood DEF KernelInv, TypeInv, StateTypes
<1>2. st \in Statuses
  BY DEF Statuses
<1>3. Become(SwitchAway(k2))
  BY DEF EndInstance
<1> HIDE DEF st
<1>4. k1 \in SchedType /\ k1.stk = Pop(stk)
  BY <1>1, <1>2, LeaveStackTyped, LeaveFields
<1> HIDE DEF k1
<1>5. k2 \in SchedType /\ k2.stk = Pop(stk)
  <2>1. CASE next = NIL
    BY <1>4, <2>1
  <2>2. CASE next # NIL
    <3>1. k2 = MakeReady(k1, next) /\ next \in Tasks
      BY <2>2
    <3> HIDE DEF k2
    <3>2. k2 \in SchedType
      BY <1>4, <3>1, MakeReadyTyped
    <3>3. k2.stk = k1.stk
      BY <1>4, <3>1 DEF MakeReady, SchedType
    <3> QED BY <1>4, <3>2, <3>3
  <2> QED BY <2>1, <2>2
<1> HIDE DEF k2
<1>6. Pushed(stk', Pop(stk))
  BY <1>3, <1>5, SwitchPushes DEF Become
<1> QED BY <1>1, <1>6, PopKept

\* A task that blocks is taken off too.
LEMMA BlockKept ==
  ASSUME KernelInv, current # NIL, NEW k \in SchedType, k.stk = stk, Become(SwitchAway(Block(k)))
  PROVE  Kept(stk', stk) /\ Block(k) \in SchedType /\ Block(k).stk = Pop(stk)
<1>1. stk \in Seq(Tasks) /\ stk # <<>> /\ current \in Tasks /\ k.ceiling \in SUBSET Levels
  BY TopOfStack DEF KernelInv, TypeInv, StateTypes, SchedType
<1>2. /\ LeaveStack(k, "WAITING", k.ceiling) \in SchedType
      /\ LeaveStack(k, "WAITING", k.ceiling).stk = Pop(stk)
  BY <1>1, LeaveStackTyped, LeaveFields DEF Statuses
<1>3. Block(k) \in SchedType /\ Block(k).stk = Pop(stk)
  BY <1>1, <1>2 DEF Block, SchedType
<1>4. Pushed(stk', Pop(stk))
  BY <1>3, SwitchPushes DEF Become
<1> QED BY <1>1, <1>3, <1>4, PopKept

\* A state whose stack is the one there was and that ends in a preemption point.
LEMMA PointKept ==
  ASSUME KernelInv, NEW k \in SchedType, k.stk = stk,
         Become(PreemptionPoint(k)) \/ Become(Preempt(k)) \/ Become(k)
  PROVE  Kept(stk', stk)
<1>1. stk \in Seq(Tasks)
  BY DEF KernelInv, TypeInv, StateTypes
<1>2. Pushed(stk', stk)
  BY PreemptPushes DEF Become, Pushed
<1> QED BY <1>1, <1>2, PushKept

\* Every step of the kernel changes the stack at its top only.
LEMMA StackStep == KernelInv /\ [Next]_vars => Kept(stk', stk)
<1> SUFFICES ASSUME KernelInv, [Next]_vars PROVE Kept(stk', stk)
  OBVIOUS
<1>0. /\ Now \in SchedType /\ Now.stk = stk /\ stk \in Seq(Tasks) /\ StateTypes
      /\ current # NIL => current \in Tasks
  BY NowIs, NowGood DEF KernelInv, TypeInv, StateTypes
<1>1. ASSUME stk' = stk PROVE Kept(stk', stk)
  BY <1>0, <1>1, PushKept DEF Pushed
<1>2. ASSUME NEW e, Reject(e) PROVE stk' = stk
  BY <1>2 DEF Reject, kernelVars, schedVars
<1>3. CASE StartOS
  <2> DEFINE k == [Now EXCEPT
                     !.status = [t \in Tasks |-> IF InAutostart(t) THEN "READY" ELSE @[t]],
                     !.rq = AutostartQueue]
  <2>1. k \in SchedType /\ k.stk = stk
    BY <1>0, AutostartCount DEF SchedType, Statuses
  <2>2. Become(IF NonEmpty(k.rq) = {} THEN k ELSE DispatchFirst(k))
    BY <1>3 DEF StartOS
  <2> HIDE DEF k
  <2>3. Pushed(stk', stk)
    BY <2>1, <2>2, DispatchPushes DEF Become, Pushed
  <2> QED BY <1>0, <2>3, PushKept
<1>4. ASSUME NEW id \in Tasks \cup {NIL}, ActivateTask(id) PROVE Kept(stk', stk)
  <2>1. CASE Reject(ActivateError(id))
    BY <1>1, <1>2, <2>1
  <2>2. CASE Accept(ActivateError(id)) /\ Become(PreemptionPoint(MakeReady(Now, id)))
    <3>1. id \in Tasks
      BY <2>2 DEF Accept, ActivateError
    <3>2. MakeReady(Now, id) \in SchedType /\ MakeReady(Now, id).stk = stk
      BY <1>0, <3>1, MakeReadyTyped DEF MakeReady, SchedType
    <3> QED BY <2>2, <3>2, PointKept
  <2> QED BY <1>4, <2>1, <2>2 DEF ActivateTask
<1>5. ASSUME NEW id \in Tasks \cup {NIL}, ChainTask(id) PROVE Kept(stk', stk)
  <2>1. CASE Reject(ChainError(id))
    BY <1>1, <1>2, <2>1
  <2>2. CASE /\ Accept(ChainError(id))
             /\ EndInstance([th_rnact EXCEPT ![id] = @ - 1], sys_ceiling, id)
    <3>1. current # NIL /\ sys_ceiling \in SUBSET Levels
      BY <1>0, <2>2 DEF Accept, ChainError, CallLevel, StateTypes
    <3> DEFINE rn == [th_rnact EXCEPT ![id] = @ - 1]
    <3>2. EndInstance(rn, sys_ceiling, id)
      BY <2>2
    <3> HIDE DEF rn
    <3> QED BY <3>1, <3>2, EndKept
  <2> QED BY <1>5, <2>1, <2>2 DEF ChainTask
<1>6. CASE TerminateTask
  <2>1. CASE Reject(TerminateError)
    BY <1>1, <1>2, <2>1
  <2>2. CASE Accept(TerminateError) /\ EndInstance(th_rnact, sys_ceiling, NIL)
    <3>1. current # NIL /\ sys_ceiling \in SUBSET Levels
      BY <1>0, <1>6, <2>2 DEF Accept, TerminateError, TerminateTask, Caller, StateTypes
    <3> QED BY <2>2, <3>1, EndKept
  <2> QED BY <1>6, <2>1, <2>2 DEF TerminateTask
<1>7. CASE TaskBodyReturns
  <2>1. current # NIL /\ EndInstance(th_rnact, CeilingReleased(current), th_nextask[current])
    BY <1>7 DEF TaskBodyReturns, InTask
  <2>2. th_nextask[current] \in Tasks \cup {NIL}
    BY <1>0, <2>1 DEF StateTypes
  <2>3. CeilingReleased(current) \in SUBSET Levels
    <3>1. held[current] \in Seq(Resources)
      BY <1>0, <2>1 DEF StateTypes
    <3>2. held[current] # <<>> => held[current][1] \in Resources
      BY <3>1
    <3> QED BY <1>0, <3>2 DEF CeilingReleased, StateTypes
  <2> QED BY <2>1, <2>2, <2>3, EndKept
<1>8. CASE Schedule
  <2>1. CASE Reject(ScheduleError)
    BY <1>1, <1>2, <2>1
  <2>2. CASE Accept(ScheduleError) /\ Become(ScheduleSwitch(Now))
    <3> DEFINE j == [Now EXCEPT !.status[current] = "READY",
                       !.ceiling = (@ \ {DispatchPrio[current]}) \cup {ReadyPrio[current]},
                       !.inSchedule = @ \cup {current}]
    <3>1. current \in Tasks /\ ReadyPrio[current] \in Levels
      BY <1>0, <2>2, Prios DEF Accept, ScheduleError, CallLevel
    <3>2. j \in SchedType /\ j.rq = Now.rq /\ j.stk = stk
      BY <1>0, <3>1 DEF SchedType, Statuses
    <3>3. \/ NonEmpty(Now.rq) # {} /\ ScheduleSwitch(Now) = DispatchFirst(j)
          \/ ScheduleSwitch(Now) = Now
      BY DEF ScheduleSwitch
    <3> HIDE DEF j
    <3>4. Pushed(stk', stk)
      BY <1>0, <2>2, <3>2, <3>3, DispatchPushes DEF Become, Pushed
    <3> QED BY <1>0, <3>4, PushKept
  <2> QED BY <1>8, <2>1, <2>2 DEF Schedule
<1>9. CASE ForceSchedule \/ IRQExit
  BY <1>0, <1>9, PointKept DEF ForceSchedule, IRQExit
<1>10. ASSUME NEW id \in Tasks \cup {NIL}, NEW mask, SetEvent(id, mask) PROVE Kept(stk', stk)
  <2> DEFINE j == [Now EXCEPT !.status[id] = "READY", !.rq = RqInsert(@, id)]
  <2>1. CASE Reject(SetEventError(id))
    BY <1>1, <1>2, <2>1
  <2>2. CASE /\ Accept(SetEventError(id))
             /\ Become(IF Wakes(id, mask) THEN PreemptionPoint(j) ELSE Now)
    <3>1. id \in Tasks
      BY <2>2 DEF Accept, SetEventError
    <3>2. RqInsert(Now.rq, id) \in Queues
      BY <1>0, <3>1, InsertTyped DEF SchedType
    <3>3. j \in SchedType /\ j.stk = stk
      BY <1>0, <3>1, <3>2 DEF SchedType, Statuses
    <3> HIDE DEF j
    <3> QED BY <1>0, <2>2, <3>3, PointKept
  <2> QED BY <1>10, <2>1, <2>2 DEF SetEvent
<1>11. ASSUME NEW mask \in Masks, WaitEvent(mask) PROVE Kept(stk', stk)
  <2> DEFINE j == [Now EXCEPT !.waitmask[current] = mask]
  <2>1. CASE Reject(WaitEventError)
    BY <1>1, <1>2, <2>1
  <2>2. CASE /\ Accept(WaitEventError)
             /\ Become(IF event_active[current] \cap mask # {} THEN Now ELSE SwitchAway(Block(j)))
    <3>1. current # NIL /\ current \in Tasks /\ mask \in SUBSET Events
      BY <1>0, <2>2 DEF Accept, WaitEventError, CallLevel, Masks
    <3>2. j \in SchedType /\ j.stk = stk
      BY <1>0, <3>1 DEF SchedType
    <3> HIDE DEF j
    <3> QED BY <1>0, <2>2, <3>1, <3>2, BlockKept, PointKept
  <2> QED BY <1>11, <2>1, <2>2 DEF WaitEvent
<1>12. ASSUME NEW r \in Resources \cup {NIL}, ReleaseResource(r) PROVE Kept(stk', stk)
  <2> DEFINE j == [Now EXCEPT !.ceiling = oldceiling[r]]
  <2>1. CASE Reject(ReleaseResourceError(r))
    BY <1>1, <1>2, <2>1
  <2>2. CASE Accept(ReleaseResourceError(r)) /\ Become(PreemptionPoint(j))
    <3>1. oldceiling[r] \in SUBSET Levels
      BY <1>0, <2>2 DEF Accept, ReleaseResourceError, StateTypes
    <3>2. j \in SchedType /\ j.stk = stk
      BY <1>0, <3>1 DEF SchedType
    <3> HIDE DEF j
    <3> QED BY <2>2, <3>2, PointKept
  <2> QED BY <1>12, <2>1, <2>2 DEF ReleaseResource
<1>13. ASSUME NEW mask, ClearEvent(mask) PROVE stk' = stk
  BY <1>2, <1>13 DEF ClearEvent, schedVars
<1>14. ASSUME NEW r, GetResource(r) PROVE stk' = stk
  BY <1>2, <1>14 DEF GetResource
<1>15. CASE StartOSAgain \/ IRQEnter \/ ShutdownOS \/ ShutdownLoop \/ UNCHANGED vars
  <2>1. stk' = stk
    BY <1>2, <1>15 DEF StartOSAgain, IRQEnter, ShutdownOS, ShutdownLoop, vars, kernelVars, schedVars
  <2> QED BY <1>1, <2>1
<1> QED BY <1>1, <1>3, <1>4, <1>5, <1>6, <1>7, <1>8, <1>9, <1>10, <1>11, <1>12, <1>13, <1>14, <1>15
        DEF Next

-----------------------------------------------------------------------------
(* The links of the stack.                                                 *)

\* The links of the tasks in place in s, those of the positions in P.
Chained(next, s, P) == \A i \in P : next[s[i]] = IF i = 1 THEN NIL ELSE s[i - 1]

\* The task dispatched is linked to the one below it, and the links of the
\* tasks that stay on the stack are untouched.
LEMMA PushLinks ==
  ASSUME stk \in Seq(Tasks), stk' \in Seq(Tasks), Distinct(stk'), Kept(stk', stk),
         NEW next \in Links, Chained(next, stk, {i \in 1 .. Len(stk) : i \in 1 .. Len(stk') /\ stk'[i] = stk[i]})
  PROVE  /\ PushLink(next) \in Links
         /\ Chained(PushLink(next), stk', 1 .. Len(stk'))
         /\ \A t \in Tasks : t # current' => PushLink(next)[t] = next[t]
<1> DEFINE n == Len(stk')
           P == {i \in 1 .. Len(stk) : i \in 1 .. Len(stk') /\ stk'[i] = stk[i]}
<1>1. n \in Nat /\ Len(stk) \in Nat /\ \A i \in 1 .. n : stk'[i] \in Tasks
  BY ElementOfSeq
<1>2. \A i \in 1 .. n - 1 : i \in P /\ i \in 1 .. n
  BY <1>1 DEF Kept
<1>3. \A i \in 1 .. n - 1 : next[stk'[i]] = IF i = 1 THEN NIL ELSE stk'[i - 1]
  <2> SUFFICES ASSUME NEW i \in 1 .. n - 1 PROVE next[stk'[i]] = IF i = 1 THEN NIL ELSE stk'[i - 1]
    OBVIOUS
  <2>1. next[stk[i]] = (IF i = 1 THEN NIL ELSE stk[i - 1]) /\ stk'[i] = stk[i]
    BY <1>2 DEF Chained
  <2>2. i # 1 => i - 1 \in 1 .. n - 1
    BY <1>1
  <2> QED BY <1>2, <2>1, <2>2
<1>4. CASE Seqs!IsPrefix(stk', stk)
  <2>1. PushLink(next) = next
    BY <1>4 DEF PushLink
  <2>2. \A i \in 1 .. n : i \in P
    <3>1. \A i \in 1 .. n : i \in 1 .. Len(stk) /\ stk'[i] = stk[i]
      BY <1>1, <1>4 DEF Seqs!IsPrefix
    <3> QED BY <3>1
  <2>3. \A i \in 1 .. n : next[stk'[i]] = IF i = 1 THEN NIL ELSE stk'[i - 1]
    <3> SUFFICES ASSUME NEW i \in 1 .. n PROVE next[stk'[i]] = IF i = 1 THEN NIL ELSE stk'[i - 1]
      OBVIOUS
    <3>1. next[stk[i]] = (IF i = 1 THEN NIL ELSE stk[i - 1]) /\ stk'[i] = stk[i]
      BY <2>2 DEF Chained
    <3>2. i # 1 => i - 1 \in 1 .. n
      BY <1>1
    <3> QED BY <2>2, <3>1, <3>2
  <2> QED BY <2>1, <2>3 DEF Chained
<1>5. CASE ~Seqs!IsPrefix(stk', stk)
  <2>1. stk' # <<>>
    <3>1. SUFFICES ASSUME stk' = <<>> PROVE FALSE
      OBVIOUS
    <3>2. Seqs!IsPrefix(stk', stk)
      BY <1>1, <3>1 DEF Seqs!IsPrefix
    <3> QED BY <1>5, <3>2
  <2>2. n \in 1 .. n /\ Top(stk') = stk'[n] /\ current' = stk'[n]
    BY <1>1, <2>1, EmptySeq DEF Top, current
  <2>9. n # 1 => n - 1 \in 1 .. n - 1 /\ n - 1 \in 1 .. n
    <3>1. n \in Nat /\ n \in 1 .. n
      BY <1>1, <2>2
    <3> HIDE DEF n
    <3> QED BY <3>1
  <2> DEFINE v == Top(Pop(stk'))
  <2>3. v = IF n = 1 THEN NIL ELSE stk'[n - 1]
    <3>1. /\ Pop(stk') \in Seq(Tasks) /\ Len(Pop(stk')) = n - 1
          /\ \A i \in 1 .. n - 1 : Pop(stk')[i] = stk'[i]
      BY <2>1, PopTyped, PopProperties
    <3>2. Pop(stk') = <<>> <=> n - 1 = 0
      BY <3>1, EmptySeq
    <3> QED BY <1>1, <2>9, <3>1, <3>2 DEF Top
  <2>4. v \in Tasks \cup {NIL}
    <3> QED BY <1>1, <2>3, <2>9
  <2>5. PushLink(next) = [next EXCEPT ![stk'[n]] = v]
    BY <1>5, <2>2 DEF PushLink
  <2> HIDE DEF v
  <2>6. PushLink(next) \in Links
    BY <2>4, <2>5 DEF Links
  <2>7. \A t \in Tasks : PushLink(next)[t] = IF t = stk'[n] THEN v ELSE next[t]
    BY <2>5 DEF Links
  <2>8. ASSUME NEW i \in 1 .. n PROVE PushLink(next)[stk'[i]] = IF i = 1 THEN NIL ELSE stk'[i - 1]
    <3>1. CASE i = n
      BY <1>1, <2>3, <2>7, <3>1
    <3>2. CASE i # n
      <4>1. i \in 1 .. n - 1 /\ stk'[i] # stk'[n]
        BY <1>1, <2>2, <3>2 DEF Distinct
      <4> QED BY <1>1, <1>3, <2>7, <4>1
    <3> QED BY <3>1, <3>2
  <2> QED BY <2>2, <2>6, <2>7, <2>8 DEF Chained
<1> QED BY <1>4, <1>5

-----------------------------------------------------------------------------
(* Blocking in WaitSem and being woken by PostSem, as the kernel sees it.  *)

\* The stack names no task twice, after a step as before it.
LEMMA OnceNext ==
  ASSUME KernelInv'
  PROVE  stk' \in Seq(Tasks) /\ Distinct(stk')
<1>1. Sets(sys_ceiling', stk', inSchedule', held', oldceiling')
  BY DEF KernelInv, TypeInv, StateTypes, Sets
<1>2. Stack(sys_ceiling', stk', inSchedule', held', oldceiling')
  BY DEF KernelInv
<1>3. Distinct(stk')
  BY <1>1, <1>2, StackDistinct DEF Distinct
<1> QED BY <1>3 DEF KernelInv, TypeInv, StateTypes

\* What a service that switches leaves alone.
Switched == UNCHANGED <<oo_started, irq, th_rnact, th_nextask, event_active, resVars>>

\* Such a service keeps the types.
LEMMA SwitchedTyped ==
  ASSUME KernelInv, Up, Switched, NEW k \in SchedType, Become(k)
  PROVE  TypeInv'
<1>1. RestTyped
  BY DEF RestTyped, Switched, Up, KernelInv, TypeInv, StateTypes, resVars
<1> QED BY <1>1, StepTyped

\* A task that blocks waits with an empty mask.
LEMMA BlockedWaits ==
  ASSUME NEW W, NEW c \in Tasks, c = current, KernelInv, StatusInv(W, Tasks)
  PROVE  c \notin W /\ WakesFit(Block(Now), event_active, W \cup {c}, Tasks)
<1> DEFINE i == LeaveStack(Now, "WAITING", Now.ceiling)
           j == Block(Now)
<1>0. /\ current # NIL /\ current \in Tasks /\ Now \in SchedType
      /\ Now.ceiling \in SUBSET Levels /\ "WAITING" \in Statuses /\ Now.stk # <<>>
  BY NowIs, TaskAssumption DEF SchedType, Statuses
<1>1. /\ i.status = [Now.status EXCEPT ![current] = "WAITING"]
      /\ i.waswaiting = Now.waswaiting /\ i.waitmask = Now.waitmask
  BY <1>0, LeaveFields
<1>2. i \in SchedType
  BY <1>0, LeaveStackTyped
<1>3. /\ j.status = i.status /\ j.waitmask = i.waitmask
      /\ j.waswaiting = [i.waswaiting EXCEPT ![current] = TRUE]
  BY <1>2 DEF Block, SchedType
<1>4. /\ Now.status \in [Tasks -> Statuses] /\ Now.waswaiting \in [Tasks -> BOOLEAN]
      /\ Now.waitmask \in [Tasks -> SUBSET Events]
  BY <1>0 DEF SchedType
<1> HIDE DEF i, j
<1>5. ASSUME NEW t \in Tasks
      PROVE  WakeFits(Now.status[t], Now.waswaiting[t], event_active[t] \cap Now.waitmask[t] # {},
                      Now.waitmask[t] = {}, t \in W, t \in Tasks)
  BY DEF StatusInv, WakesFit
<1>6. Now.status[c] = "RUNNING" /\ ~Now.waswaiting[c]
  BY DEF StatusInv, Fits, TaskFits
<1>7. c \notin W /\ Now.waitmask[c] = {}
  BY <1>5, <1>6 DEF WakeFits
<1>8. ASSUME NEW t \in Tasks
      PROVE  WakeFits(j.status[t], j.waswaiting[t], event_active[t] \cap j.waitmask[t] # {},
                      j.waitmask[t] = {}, t \in W \cup {c}, t \in Tasks)
  <2>1. CASE t = c
    <3>1. j.status[t] = "WAITING" /\ j.waitmask[t] = {} /\ j.waswaiting[t] = TRUE
      BY <1>0, <1>1, <1>3, <1>4, <1>7, <2>1
    <3> QED BY <2>1, <3>1 DEF WakeFits
  <2>2. CASE t # c
    <3>1. /\ j.status[t] = Now.status[t] /\ j.waitmask[t] = Now.waitmask[t]
          /\ j.waswaiting[t] = Now.waswaiting[t]
      BY <1>0, <1>1, <1>3, <1>4, <2>2
    <3>2. t \in W \cup {c} <=> t \in W
      BY <2>2
    <3> QED BY <1>5, <3>1, <3>2 DEF WakeFits
  <2> QED BY <2>1, <2>2
<1> QED BY <1>7, <1>8 DEF WakesFit, j

\* The running task blocks on a semaphore.
LEMMA BlockStep ==
  ASSUME NEW W, NEW c \in Extended, c = current, KernelInv, StatusInv(W, Tasks),
         Up, irq = 0, held[current] = <<>>, Switched, Become(SwitchAway(Block(Now)))
  PROVE  /\ KernelInv' /\ StatusInv(W \cup {c}, Tasks)'
         /\ Kept(stk', stk) /\ c \notin W
<1> DEFINE e == LeaveStack(Now, "WAITING", Now.ceiling)
           b == Block(Now)
<1>1. /\ c \in Tasks /\ current # NIL /\ current \in Tasks
      /\ stk # <<>> /\ stk[Len(stk)] = current /\ current \notin inSchedule
  BY TaskAssumption, TopOfStack
<1>2. /\ Good(Now, held, oldceiling) /\ Now \in SchedType /\ Now.stk = stk
      /\ Now.inSchedule = inSchedule /\ "WAITING" \in Statuses
  BY NowGood DEF Good, Statuses
<1>3. Good(e, held, oldceiling)
  BY <1>1, <1>2, LeaveStackGood
<1>4. Good(b, held, oldceiling) /\ b \in SchedType /\ QLevels(b.rq)
  <2>1. e \in SchedType /\ b = [e EXCEPT !.waswaiting[current] = TRUE]
    BY <1>3 DEF Good, Block
  <2> HIDE DEF e, b
  <2>2. /\ b \in SchedType /\ b.ceiling = e.ceiling /\ b.stk = e.stk /\ b.rq = e.rq
        /\ b.inSchedule = e.inSchedule
    BY <1>1, <2>1 DEF SchedType
  <2> QED BY <1>3, <2>2 DEF Good
<1>5. Become(SwitchAway(b))
  OBVIOUS
<1>6. Kept(stk', stk)
  BY <1>1, <1>2, BlockKept
<1>7. Fits(b, th_rnact, NIL)
  BY <1>1, NowIs, BlockedFits DEF StatusInv
<1>8. c \notin W /\ WakesFit(b, event_active, W \cup {c}, Tasks)
  BY <1>1, BlockedWaits
<1> HIDE DEF b, e
<1>9. Good(SwitchAway(b), held, oldceiling) /\ Settled(SwitchAway(b)) /\ SwitchAway(b) \in SchedType
  BY <1>4, SwitchAwayGood, SwitchAwayTyped
<1>10. KernelInv'
  <2>1. TypeInv'
    BY <1>5, <1>9, SwitchedTyped
  <2>2. /\ held' = held /\ locked' = locked /\ oldceiling' = oldceiling /\ oo_started' = "up"
        /\ Owned(held', locked')
    BY DEF Switched, resVars, Up, KernelInv
  <2>3. TopFree(SwitchAway(b).stk, SwitchAway(b).inSchedule)
    BY <1>9 DEF Settled
  <2> QED BY <1>5, <1>9, <2>1, <2>2, <2>3, StepGood
<1>11. /\ th_rnact' = th_rnact /\ th_rnact \in [Tasks -> Int] /\ event_active' = event_active
       /\ \A t \in MissingEnd : th_nextask'[t] = NIL
  BY NowIs DEF Switched, StatusInv
<1>12. StatusInv(W \cup {c}, Tasks)'
  BY <1>4, <1>5, <1>7, <1>8, <1>10, <1>11, AwayFits
<1> QED BY <1>6, <1>8, <1>10, <1>12

\* The first waiter becomes ready.
LEMMA WakeStep ==
  ASSUME NEW W, NEW f \in Tasks, f \in W, KernelInv, StatusInv(W, Tasks), Up, Switched,
         Become(PreemptionPoint([Now EXCEPT !.status[f] = "READY", !.rq = RqInsert(@, f)]))
  PROVE  /\ KernelInv' /\ StatusInv(W \ {f}, Tasks)'
         /\ Kept(stk', stk)
<1> DEFINE j == [Now EXCEPT !.status[f] = "READY", !.rq = RqInsert(@, f)]
<1>1. /\ Good(Now, held, oldceiling) /\ Now \in SchedType /\ Now.rq \in Queues /\ QLevels(Now.rq)
      /\ TopFree(Now.stk, Now.inSchedule) /\ Now.stk = stk
  BY NowGood DEF Good, SchedType
<1>2. RqInsert(Now.rq, f) \in Queues /\ QLevels(RqInsert(Now.rq, f))
  BY <1>1, InsertTyped, InsertLevels
<1>3. /\ j \in SchedType /\ j.rq = RqInsert(Now.rq, f) /\ j.stk = Now.stk
      /\ j.ceiling = Now.ceiling /\ j.inSchedule = Now.inSchedule
      /\ j.status = [Now.status EXCEPT ![f] = "READY"]
      /\ j.waswaiting = Now.waswaiting /\ j.waitmask = Now.waitmask
  BY <1>1, <1>2 DEF SchedType, Statuses
<1>4. Become(PreemptionPoint(j))
  OBVIOUS
<1> HIDE DEF j
<1>5. Kept(stk', stk)
  BY <1>1, <1>3, <1>4, PointKept
<1>6. Good(j, held, oldceiling) /\ TopFree(j.stk, j.inSchedule)
  BY <1>1, <1>2, <1>3 DEF Good
<1>7. /\ Good(PreemptionPoint(j), held, oldceiling)
      /\ TopFree(PreemptionPoint(j).stk, PreemptionPoint(j).inSchedule)
      /\ irq = 0 => Settled(PreemptionPoint(j))
      /\ PreemptionPoint(j) \in SchedType
  BY <1>3, <1>6, PreemptionPointGood, PreemptTyped
<1>8. KernelInv'
  <2>1. TypeInv'
    BY <1>4, <1>7, SwitchedTyped
  <2>2. /\ held' = held /\ locked' = locked /\ oldceiling' = oldceiling /\ oo_started' = "up"
        /\ irq' = irq /\ Owned(held', locked')
    BY DEF Switched, resVars, Up, KernelInv
  <2> QED BY <1>4, <1>7, <2>1, <2>2, StepGood
<1>9. /\ Fits(Now, th_rnact, current) /\ WakesFit(Now, event_active, W, Tasks)
      /\ Top(Now.stk) = current
      /\ th_rnact' = th_rnact /\ th_rnact \in [Tasks -> Int] /\ event_active' = event_active
      /\ \A t \in MissingEnd : th_nextask'[t] = NIL
  BY NowIs DEF Switched, StatusInv
<1>10. ASSUME NEW t \in Tasks
       PROVE  WakeFits(Now.status[t], Now.waswaiting[t], event_active[t] \cap Now.waitmask[t] # {},
                       Now.waitmask[t] = {}, t \in W, t \in Tasks)
  BY <1>9 DEF WakesFit
<1>11. Now.status[f] = "WAITING" /\ Now.waitmask[f] = {}
  BY <1>10 DEF WakeFits
<1>12. Fits(j, th_rnact, current)
  BY <1>1, <1>3, <1>9, <1>11, WokenFits
<1>13. WakesFit(j, event_active, W \ {f}, Tasks)
  <2> SUFFICES ASSUME NEW t \in Tasks
               PROVE  WakeFits(j.status[t], j.waswaiting[t], event_active[t] \cap j.waitmask[t] # {},
                               j.waitmask[t] = {}, t \in W \ {f}, t \in Tasks)
    BY DEF WakesFit
  <2>0. Now.status \in [Tasks -> Statuses]
    BY <1>1 DEF SchedType
  <2>1. CASE t = f
    <3>1. j.status[t] = "READY" /\ j.waitmask[t] = {}
      BY <1>3, <1>11, <2>0, <2>1
    <3> QED BY <2>1, <3>1 DEF WakeFits
  <2>2. CASE t # f
    <3>1. /\ j.status[t] = Now.status[t] /\ j.waitmask[t] = Now.waitmask[t]
          /\ j.waswaiting[t] = Now.waswaiting[t]
      BY <1>3, <2>0, <2>2
    <3>2. t \in W \ {f} <=> t \in W
      BY <2>2
    <3> QED BY <1>10, <3>1, <3>2 DEF WakeFits
  <2> QED BY <2>1, <2>2
<1>14. StatusInv(W \ {f}, Tasks)'
  BY <1>2, <1>3, <1>4, <1>8, <1>9, <1>12, <1>13, PointFits
<1> QED BY <1>5, <1>8, <1>14

-----------------------------------------------------------------------------
(* The inductive invariant: the links spell the queues q.                  *)

SemTypes ==
  /\ sem \in [Sems -> [count : 0 .. MaxSemCounter, first : Tasks \cup {NIL},
                       last : Tasks \cup {NIL}]]
  /\ th_next \in Links

SemInv(q) ==
  /\ KernelInv
  /\ SemTypes
  /\ Shape(sem, th_next, q)
  /\ StatusInv(Members(q), Tasks)
  /\ Chained(th_next, stk, 1 .. Len(stk))

\* A waiting task is neither running nor on the stack.
LEMMA WaitersAreOff ==
  ASSUME NEW W, KernelInv', StatusInv(W, Tasks)'
  PROVE  \A t \in Tasks : t \in W => t # current' /\ ~In(stk', t)
<1> SUFFICES ASSUME NEW t \in Tasks, t \in W PROVE t # current' /\ ~In(stk', t)
  OBVIOUS
<1>1. /\ TaskFits(t, Now'.status[t], t = current', In(Now'.stk, t), Count(Now'.rq, t),
                  Now'.waswaiting[t], th_rnact'[t])
      /\ WakeFits(Now'.status[t], Now'.waswaiting[t], event_active'[t] \cap Now'.waitmask[t] # {},
                  Now'.waitmask[t] = {}, t \in W, t \in Tasks)
      /\ Now'.stk = stk'
  BY DEF StatusInv, Fits, WakesFit, Now
<1> QED BY <1>1 DEF TaskFits, WakeFits

\* A step that rewrites links of waiting tasks only, and then those of the
\* task it dispatches.
LEMMA LinksKept ==
  ASSUME NEW W, KernelInv, KernelInv', StatusInv(W, Tasks)', Kept(stk', stk),
         Chained(th_next, stk, 1 .. Len(stk)),
         NEW next \in Links, \A t \in Tasks : t \notin W => next[t] = th_next[t],
         th_next' = PushLink(next)
  PROVE  /\ th_next' \in Links /\ Chained(th_next', stk', 1 .. Len(stk'))
         /\ \A t \in Tasks : t \in W => th_next'[t] = next[t]
<1> DEFINE P == {i \in 1 .. Len(stk) : i \in 1 .. Len(stk') /\ stk'[i] = stk[i]}
<1>1. stk \in Seq(Tasks) /\ stk' \in Seq(Tasks) /\ Distinct(stk')
  BY OnceNext DEF KernelInv, TypeInv, StateTypes
<1>2. \A t \in Tasks : t \in W => t # current' /\ ~In(stk', t)
  BY WaitersAreOff
<1>3. Chained(next, stk, P)
  <2> SUFFICES ASSUME NEW i \in P PROVE next[stk[i]] = IF i = 1 THEN NIL ELSE stk[i - 1]
    BY DEF Chained
  <2>1. i \in 1 .. Len(stk) /\ i \in 1 .. Len(stk') /\ stk'[i] = stk[i] /\ stk[i] \in Tasks
    BY <1>1, ElementOfSeq
  <2>2. stk[i] \notin W
    BY <1>2, <2>1 DEF In
  <2> QED BY <2>1, <2>2 DEF Chained
<1>4. /\ PushLink(next) \in Links
      /\ Chained(PushLink(next), stk', 1 .. Len(stk'))
      /\ \A t \in Tasks : t # current' => PushLink(next)[t] = next[t]
  BY <1>1, <1>3, PushLinks
<1> QED BY <1>2, <1>4

\* No task waits at first, and the stack is empty.
LEMMA SemInitInv == SemInit => SemInv([s \in Sems |-> <<>>])
<1> SUFFICES ASSUME SemInit PROVE SemInv([s \in Sems |-> <<>>])
  OBVIOUS
<1> DEFINE q == [s \in Sems |-> <<>>]
<1>1. KernelInv
  BY InitGood DEF SemInit
<1>2. SemTypes
  BY SemAssumption DEF SemInit, SemTypes, Links
<1>3. \A s \in Sems : Len(q[s]) = 0 /\ q[s] = <<>>
  OBVIOUS
<1>4. \A s \in Sems, t \in Tasks : ~In(q[s], t)
  BY <1>3 DEF In
<1>5. Members(q) = {}
  BY <1>4 DEF Members
<1>6. \A s \in Sems : sem[s].first = NIL /\ sem[s].last = NIL
  BY DEF SemInit
<1> HIDE DEF q
<1>7. Shape(sem, th_next, q)
  BY <1>3, <1>4, <1>6 DEF Shape, Spells, Distinct, Top
<1>8. StatusInv(Members(q), Tasks)
  BY <1>5, InitFits DEF SemInit
<1>9. Chained(th_next, stk, 1 .. Len(stk))
  <2>1. Len(stk) = 0
    BY DEF SemInit, Init
  <2> QED BY <2>1 DEF Chained
<1> QED BY <1>1, <1>2, <1>7, <1>8, <1>9 DEF SemInv, q

\* A step of the kernel changes no queue.
LEMMA KernelStepInv ==
  ASSUME CleanBodies, NEW q \in Lines, SemInv(q), KernelStep
  PROVE  SemInv(q)'
<1> DEFINE W == Members(q)
<1>1. /\ KernelInv /\ SemTypes /\ Shape(sem, th_next, q) /\ StatusInv(W, Tasks)
      /\ Chained(th_next, stk, 1 .. Len(stk)) /\ Next /\ th_next' = PushLink(th_next) /\ sem' = sem
  BY DEF SemInv, KernelStep
<1> HIDE DEF W
<1>2. KernelInv'
  BY <1>1, NextGood
<1>3. StatusInv(W, Tasks)'
  BY <1>1, NextFits
<1>4. Kept(stk', stk)
  BY <1>1, StackStep
<1>5. /\ th_next' \in Links /\ Chained(th_next', stk', 1 .. Len(stk'))
      /\ \A t \in Tasks : t \in W => th_next'[t] = th_next[t]
  BY <1>1, <1>2, <1>3, <1>4, LinksKept DEF SemTypes
<1>6. Shape(sem, th_next', q)
  <2>1. \A t \in Members(q) : th_next'[t] = th_next[t]
    BY <1>5 DEF W, Members
  <2> QED BY <1>1, <2>1, SameShape
<1> QED BY <1>1, <1>2, <1>3, <1>5, <1>6 DEF SemInv, SemTypes, W

\* A call that leaves the kernel and the queues alone.
LEMMA QuietInv ==
  ASSUME NEW q \in Lines, SemInv(q), UNCHANGED kernelVars, th_next' = th_next,
         sem' \in [Sems -> [count : 0 .. MaxSemCounter, first : Tasks \cup {NIL},
                            last : Tasks \cup {NIL}]],
         \A s \in Sems : sem'[s].first = sem[s].first /\ sem'[s].last = sem[s].last
  PROVE  SemInv(q)'
<1>1. /\ KernelInv /\ SemTypes /\ Shape(sem, th_next, q) /\ StatusInv(Members(q), Tasks)
      /\ Chained(th_next, stk, 1 .. Len(stk)) /\ stk' = stk
  BY DEF SemInv, kernelVars, schedVars
<1>2. KernelInv'
  <2>1. TypeInv'
    BY <1>1 DEF KernelInv, TypeInv, StateTypes, kernelVars, taskVars, schedVars, eventVars, resVars
  <2>2. UNCHANGED <<oo_started, irq, sys_ceiling, stk, rq, inSchedule, held, locked, oldceiling>>
    BY DEF kernelVars, schedVars, resVars
  <2> QED BY <1>1, <2>1, <2>2, StutterGood DEF Up
<1>3. StatusInv(Members(q), Tasks)'
  <2>1. UNCHANGED <<th_status, th_rnact, th_nextask, stk, rq, event_active, event_waitmask, waswaiting>>
    BY DEF kernelVars, taskVars, schedVars, eventVars
  <2> QED BY <1>1, <2>1, SameFits
<1>4. Shape(sem', th_next', q)
  BY <1>1 DEF Shape
<1> QED BY <1>1, <1>2, <1>3, <1>4 DEF SemInv, SemTypes

\* A call rejected changes nothing.
LEMMA RejectInv ==
  ASSUME NEW q \in Lines, SemInv(q), UNCHANGED <<kernelVars, semVars>>
  PROVE  SemInv(q)'
<1>1. UNCHANGED kernelVars /\ sem' = sem /\ th_next' = th_next
  BY DEF semVars
<1> QED BY <1>1, QuietInv DEF SemInv, SemTypes

\* What a semaphore with another count is.
LEMMA Recounted ==
  ASSUME SemTypes, NEW s \in Sems, NEW n \in 0 .. MaxSemCounter,
         sem' = [sem EXCEPT ![s].count = n]
  PROVE  /\ sem' \in [Sems -> [count : 0 .. MaxSemCounter, first : Tasks \cup {NIL},
                               last : Tasks \cup {NIL}]]
         /\ \A u \in Sems : sem'[u].first = sem[u].first /\ sem'[u].last = sem[u].last
         /\ \A u \in Sems : sem'[u].count = IF u = s THEN n ELSE sem[u].count
BY DEF SemTypes

-----------------------------------------------------------------------------
(* Every step serves the queues in order.                                  *)

CountsOf(sm) == [s \in Sems |-> sm[s].count]

\* Counts c and queues q become c2 and q2: nothing happens, or one semaphore
\* gives its count or a place in its queue, or is posted.
Serves(c, q, c2, q2) ==
  \/ c2 = c /\ q2 = q
  \/ \E s \in Sems :
       \/ c[s] > 0 /\ c2 = [c EXCEPT ![s] = c[s] - 1] /\ q2 = q
       \/ c[s] = 0 /\ c2 = c /\ (\E t \in Tasks : t \notin Members(q)
                                                  /\ q2 = [q EXCEPT ![s] = Append(@, t)])
       \/ q[s] # <<>> /\ c2 = c /\ q2 = [q EXCEPT ![s] = Tail(@)]
       \/ q[s] = <<>> /\ c[s] < MaxSemCounter /\ c2 = [c EXCEPT ![s] = c[s] + 1] /\ q2 = q

SemStep(q) ==
  \E q2 \in Lines : SemInv(q2)' /\ Serves(CountsOf(sem), q, CountsOf(sem'), q2)

\* The count of one semaphore changes.
LEMMA CountsChange ==
  ASSUME SemTypes, NEW s \in Sems, NEW n \in 0 .. MaxSemCounter,
         sem' = [sem EXCEPT ![s].count = n]
  PROVE  CountsOf(sem') = [CountsOf(sem) EXCEPT ![s] = n]
<1>1. \A u \in Sems : sem'[u].count = IF u = s THEN n ELSE sem[u].count
  BY Recounted
<1> QED BY <1>1 DEF CountsOf

\* A call that changes no count and no queue.
LEMMA QuietStep ==
  ASSUME NEW q \in Lines, SemInv(q), UNCHANGED <<kernelVars, semVars>>
  PROVE  SemStep(q)
<1>1. SemInv(q)' /\ sem' = sem
  BY RejectInv DEF semVars
<1>2. Serves(CountsOf(sem), q, CountsOf(sem'), q)
  BY <1>1 DEF Serves
<1> QED BY <1>1, <1>2 DEF SemStep

\* A count is taken.
LEMMA TakeStep ==
  ASSUME NEW q \in Lines, SemInv(q), NEW s \in Sems, sem[s].count # 0,
         sem' = [sem EXCEPT ![s].count = @ - 1], UNCHANGED kernelVars, th_next' = th_next
  PROVE  SemStep(q)
<1> DEFINE n == sem[s].count
<1>1. /\ SemTypes /\ n \in 0 .. MaxSemCounter /\ MaxSemCounter \in Nat /\ n # 0
      /\ sem' = [sem EXCEPT ![s].count = n - 1] /\ CountsOf(sem)[s] = n
  BY SemAssumption DEF SemInv, SemTypes, CountsOf
<1> HIDE DEF n
<1>2. n - 1 \in 0 .. MaxSemCounter /\ n > 0
  BY <1>1
<1>3. SemInv(q)'
  <2>1. /\ sem' \in [Sems -> [count : 0 .. MaxSemCounter, first : Tasks \cup {NIL},
                              last : Tasks \cup {NIL}]]
        /\ \A u \in Sems : sem'[u].first = sem[u].first /\ sem'[u].last = sem[u].last
    BY <1>1, <1>2, Recounted
  <2> QED BY <2>1, QuietInv
<1>4. CountsOf(sem') = [CountsOf(sem) EXCEPT ![s] = CountsOf(sem)[s] - 1]
  <2>1. CountsOf(sem') = [CountsOf(sem) EXCEPT ![s] = n - 1]
    BY <1>1, <1>2, CountsChange
  <2> QED BY <1>1, <2>1
<1>5. Serves(CountsOf(sem), q, CountsOf(sem'), q)
  BY <1>1, <1>2, <1>4 DEF Serves
<1> QED BY <1>3, <1>5 DEF SemStep

\* What Shape says of the ends of one queue.
LEMMA FirstIs ==
  ASSUME NEW sm, NEW next, NEW q \in Lines, Shape(sm, next, q), NEW s \in Sems
  PROVE  /\ sm[s].first = NIL <=> q[s] = <<>>
         /\ q[s] # <<>> => sm[s].first \in Tasks /\ sm[s].last = Top(q[s]) /\ sm[s].last \in Tasks
<1>1. q[s] \in Seq(Tasks) /\ Spells(sm[s].first, next, NIL, q[s]) /\ sm[s].last = Top(q[s])
  BY DEF Lines, Shape
<1>2. ASSUME q[s] # <<>>
      PROVE  sm[s].first \in Tasks /\ sm[s].last = Top(q[s]) /\ sm[s].last \in Tasks
  <2>1. 1 \in 1 .. Len(q[s]) /\ Len(q[s]) \in 1 .. Len(q[s])
    BY <1>1, <1>2, EmptySeq
  <2>2. q[s][1] \in Tasks /\ q[s][Len(q[s])] \in Tasks
    BY <1>1, <2>1, ElementOfSeq
  <2> QED BY <1>1, <1>2, <2>2 DEF Spells, Top
<1> QED BY <1>1, <1>2, TaskAssumption DEF Spells

\* WaitSem takes the count, or appends the caller to the queue.
LEMMA WaitSemStep ==
  ASSUME NEW q \in Lines, SemInv(q), NEW s \in Sems \cup {NIL}, WaitSem(s)
  PROVE  SemStep(q)
<1>1. CASE SemReject(WaitSemError(s))
  BY <1>1, QuietStep DEF SemReject
<1>2. CASE /\ Accept(WaitSemError(s))
           /\ IF sem[s].count # 0
              THEN /\ sem' = [sem EXCEPT ![s].count = @ - 1]
                   /\ UNCHANGED <<th_status, schedVars, event_waitmask, waswaiting, th_next>>
              ELSE /\ sem' = [sem EXCEPT ![s].first = IF @ = NIL THEN current ELSE @,
                                         ![s].last = current]
                   /\ Become(SwitchAway(Block(Now)))
                   /\ th_next' = PushLink(EnterQueue(s))
           /\ UNCHANGED <<oo_started, irq, th_rnact, th_nextask, event_active, resVars>>
  <2>1. /\ s \in Sems /\ current \in Extended /\ irq = 0 /\ held[current] = <<>> /\ Up
        /\ current \in Tasks
    BY <1>2, TaskAssumption DEF Accept, WaitSemError, CallLevel, WaitSem, Caller
  <2>2. CASE sem[s].count # 0
    <3>1. UNCHANGED kernelVars /\ th_next' = th_next /\ sem' = [sem EXCEPT ![s].count = @ - 1]
      BY <1>2, <2>2 DEF kernelVars, taskVars, eventVars
    <3> QED BY <2>1, <2>2, <3>1, TakeStep
  <2>3. CASE sem[s].count = 0
    <3>1. PICK c : c = current
      OBVIOUS
    <3>2. /\ sem' = [sem EXCEPT ![s].first = IF @ = NIL THEN c ELSE @, ![s].last = c]
          /\ Become(SwitchAway(Block(Now))) /\ th_next' = PushLink(EnterQueue(s)) /\ Switched
      BY <1>2, <2>3, <3>1 DEF Switched
    <3> DEFINE W == Members(q)
               q2 == [q EXCEPT ![s] = Append(@, c)]
    <3>3. /\ KernelInv /\ SemTypes /\ Shape(sem, th_next, q) /\ StatusInv(W, Tasks)
          /\ Chained(th_next, stk, 1 .. Len(stk)) /\ c \in Tasks /\ c \in Extended
      BY <2>1, <3>1 DEF SemInv
    <3>4. /\ KernelInv' /\ StatusInv(W \cup {c}, Tasks)' /\ Kept(stk', stk) /\ c \notin W
      <4> HIDE DEF W
      <4> QED BY <2>1, <3>1, <3>2, <3>3, BlockStep
    <3>5. /\ sem[s].first = NIL <=> q[s] = <<>>
          /\ q[s] # <<>> => sem[s].last \in Tasks /\ sem[s].last \in W
      <4>1. q[s] # <<>> => In(q[s], Top(q[s]))
        <5> SUFFICES ASSUME q[s] # <<>> PROVE In(q[s], Top(q[s]))
          OBVIOUS
        <5>1. q[s] \in Seq(Tasks)
          BY <2>1 DEF Lines
        <5>2. Len(q[s]) \in 1 .. Len(q[s]) /\ Top(q[s]) = q[s][Len(q[s])]
          BY <5>1, EmptySeq DEF Top
        <5> QED BY <5>2 DEF In
      <4> QED BY <2>1, <3>3, <4>1, FirstIs DEF Members
    <3>6. /\ EnterQueue(s) \in Links
          /\ \A t \in Tasks : EnterQueue(s)[t]
               = IF t = c THEN NIL
                 ELSE IF q[s] # <<>> /\ t = sem[s].last THEN c ELSE th_next[t]
      <4>1. th_next \in Links
        BY <3>3 DEF SemTypes
      <4>2. CASE q[s] = <<>>
        <5>1. EnterQueue(s) = [th_next EXCEPT ![c] = NIL]
          BY <3>1, <3>5, <4>2 DEF EnterQueue
        <5> QED BY <3>3, <4>1, <4>2, <5>1 DEF Links
      <4>3. CASE q[s] # <<>>
        <5>1. EnterQueue(s) = [[th_next EXCEPT ![sem[s].last] = c] EXCEPT ![c] = NIL]
          BY <3>1, <3>5, <4>3 DEF EnterQueue
        <5> QED BY <3>3, <3>5, <4>1, <4>3, <5>1 DEF Links
      <4> QED BY <4>2, <4>3
    <3> HIDE DEF W
    <3>7. /\ th_next' \in Links /\ Chained(th_next', stk', 1 .. Len(stk'))
          /\ \A t \in Tasks : t \in W \cup {c} => th_next'[t] = EnterQueue(s)[t]
      <4>1. \A t \in Tasks : t \notin W \cup {c} => EnterQueue(s)[t] = th_next[t]
        BY <3>5, <3>6
      <4> QED BY <3>2, <3>3, <3>4, <3>6, <4>1, LinksKept
    <3>8. /\ q2 \in Lines /\ Shape(sem', th_next', q2) /\ Members(q2) = W \cup {c}
      <4>1. /\ th_next'[c] = NIL
            /\ \A t \in W : th_next'[t] = IF q[s] # <<>> /\ t = sem[s].last THEN c ELSE th_next[t]
        BY <3>3, <3>4, <3>6, <3>7 DEF W, Members
      <4>2. /\ \A u \in Sems \ {s} : sem'[u] = sem[u]
            /\ sem'[s].first = (IF sem[s].first = NIL THEN c ELSE sem[s].first) /\ sem'[s].last = c
        BY <2>1, <3>2, <3>3 DEF SemTypes
      <4>3. s \in Sems /\ c \in Tasks /\ c \notin Members(q) /\ Shape(sem, th_next, q)
        BY <2>1, <3>3, <3>4 DEF W
      <4>4. Follows(sem, th_next, q, s, c, sem', th_next')
        BY <4>1, <4>2 DEF W, Follows
      <4>5. Only(q, s, Append(q[s], c), q2)
        <5>1. \A u \in Sems : q[u] \in Seq(Tasks)
          BY DEF Lines
        <5>2. Append(q[s], c) \in Seq(Tasks)
          BY <4>3, <5>1, AppendProperties
        <5>3. PICK e \in Seq(Tasks) : e = Append(q[s], c)
          BY <5>2
        <5>4. PICK S : S = Seq(Tasks)
          OBVIOUS
        <5>5. q \in [Sems -> S] /\ e \in S /\ q2 = [q EXCEPT ![s] = e]
          BY <5>3, <5>4 DEF Lines
        <5> HIDE DEF q2
        <5>6. q2 \in [Sems -> S] /\ q2[s] = e /\ \A u \in Sems \ {s} : q2[u] = q[u]
          BY <4>3, <5>5
        <5> QED BY <5>3, <5>4, <5>6 DEF Only, Lines
      <4> HIDE DEF q2
      <4>6. Shape(sem', th_next', q2) /\ Members(q2) = Members(q) \cup {c}
        <5>1. Enters(sem, th_next, q, s, c, sem', th_next', q2)
          BY <4>3, <4>4, <4>5 DEF Enters
        <5> QED BY <5>1, EnterShape
      <4> QED BY <4>5, <4>6 DEF W, Only
    <3>9. SemTypes' /\ \A u \in Sems : sem'[u].count = sem[u].count
      <4>1. PICK f : f = IF sem[s].first = NIL THEN c ELSE sem[s].first
        OBVIOUS
      <4>2. f \in Tasks \cup {NIL} /\ c \in Tasks \cup {NIL}
        BY <2>1, <3>3, <4>1 DEF SemTypes
      <4>3. sem' = [sem EXCEPT ![s].first = f, ![s].last = c]
        BY <3>2, <4>1
      <4>4. /\ sem' \in [Sems -> [count : 0 .. MaxSemCounter, first : Tasks \cup {NIL},
                                  last : Tasks \cup {NIL}]]
            /\ \A u \in Sems : sem'[u].count = sem[u].count
        BY <2>1, <3>3, <4>2, <4>3 DEF SemTypes
      <4> QED BY <3>7, <4>4 DEF SemTypes
    <3>10. SemInv(q2)'
      BY <3>4, <3>7, <3>8, <3>9 DEF SemInv
    <3>11. Serves(CountsOf(sem), q, CountsOf(sem'), q2)
      <4>1. CountsOf(sem') = CountsOf(sem) /\ CountsOf(sem)[s] = 0
        BY <2>1, <2>3, <3>9 DEF CountsOf
      <4> QED BY <2>1, <3>3, <3>4, <4>1 DEF Serves, W
    <3> QED BY <3>8, <3>10, <3>11 DEF SemStep
  <2> QED BY <2>2, <2>3
<1> QED BY <1>1, <1>2 DEF WaitSem

\* PostSem takes the first waiter from the queue, or counts.
LEMMA PostSemStep ==
  ASSUME NEW q \in Lines, SemInv(q), NEW s \in Sems \cup {NIL}, PostSem(s)
  PROVE  SemStep(q)
<1>1. CASE SemReject(PostSemError(s))
  BY <1>1, QuietStep DEF SemReject
<1>2. CASE /\ Accept(PostSemError(s))
           /\ IF sem[s].first = NIL
              THEN /\ sem' = [sem EXCEPT ![s].count = @ + 1]
                   /\ UNCHANGED <<th_status, schedVars, event_waitmask, waswaiting, th_next>>
              ELSE /\ Become(PreemptionPoint([Now EXCEPT
                        !.status[sem[s].first] = "READY",
                        !.rq = RqInsert(@, sem[s].first)]))
                   /\ sem' = Woken(s)
                   /\ th_next' = PushLink(th_next)
           /\ UNCHANGED <<oo_started, irq, th_rnact, th_nextask, event_active, resVars>>
  <2>1. /\ s \in Sems /\ Up /\ ~(sem[s].first = NIL /\ sem[s].count = MaxSemCounter)
    BY <1>2 DEF Accept, PostSemError, PostSem, Caller
  <2>2. /\ KernelInv /\ SemTypes /\ Shape(sem, th_next, q) /\ StatusInv(Members(q), Tasks)
        /\ Chained(th_next, stk, 1 .. Len(stk)) /\ th_next \in Links
    BY DEF SemInv, SemTypes
  <2>3. sem[s].first = NIL <=> q[s] = <<>>
    BY <2>1, <2>2, FirstIs
  <2>4. CASE sem[s].first = NIL
    <3> DEFINE n == sem[s].count
    <3>1. /\ n \in 0 .. MaxSemCounter /\ MaxSemCounter \in Nat /\ n # MaxSemCounter
          /\ sem' = [sem EXCEPT ![s].count = n + 1] /\ CountsOf(sem)[s] = n
      BY <1>2, <2>1, <2>2, <2>4, SemAssumption DEF SemTypes, CountsOf
    <3>2. UNCHANGED kernelVars /\ th_next' = th_next
      BY <1>2, <2>4 DEF kernelVars, taskVars, eventVars
    <3> HIDE DEF n
    <3>3. n + 1 \in 0 .. MaxSemCounter /\ n < MaxSemCounter
      BY <3>1
    <3>4. SemInv(q)'
      <4>1. /\ sem' \in [Sems -> [count : 0 .. MaxSemCounter, first : Tasks \cup {NIL},
                                  last : Tasks \cup {NIL}]]
            /\ \A u \in Sems : sem'[u].first = sem[u].first /\ sem'[u].last = sem[u].last
        BY <2>1, <2>2, <3>1, <3>3, Recounted
      <4> QED BY <3>2, <4>1, QuietInv
    <3>5. CountsOf(sem') = [CountsOf(sem) EXCEPT ![s] = CountsOf(sem)[s] + 1]
      <4>1. CountsOf(sem') = [CountsOf(sem) EXCEPT ![s] = n + 1]
        BY <2>1, <2>2, <3>1, <3>3, CountsChange
      <4> QED BY <3>1, <4>1
    <3>6. Serves(CountsOf(sem), q, CountsOf(sem'), q)
      BY <2>1, <2>3, <2>4, <3>1, <3>3, <3>5 DEF Serves
    <3> QED BY <3>4, <3>6 DEF SemStep
  <2>5. CASE sem[s].first # NIL
    <3>1. PICK f : f = sem[s].first
      OBVIOUS
    <3> DEFINE W == Members(q)
               q2 == [q EXCEPT ![s] = Tail(@)]
               n == th_next[f]
    <3>2. /\ Become(PreemptionPoint([Now EXCEPT !.status[f] = "READY", !.rq = RqInsert(@, f)]))
          /\ sem' = [sem EXCEPT ![s].first = n, ![s].last = IF n = NIL THEN NIL ELSE @]
          /\ th_next' = PushLink(th_next) /\ Switched
      BY <1>2, <2>5, <3>1 DEF Switched, Woken
    <3>3. f \in Tasks /\ n \in Tasks \cup {NIL}
      <4>1. f \in Tasks
        BY <2>1, <2>2, <2>3, <2>5, <3>1, FirstIs
      <4> QED BY <2>2, <4>1 DEF Links
    <3>4. /\ \A u \in Sems \ {s} : sem'[u] = sem[u]
          /\ sem'[s].first = n /\ sem'[s].last = (IF n = NIL THEN NIL ELSE sem[s].last)
          /\ \A u \in Sems : sem'[u].count = sem[u].count
          /\ sem' \in [Sems -> [count : 0 .. MaxSemCounter, first : Tasks \cup {NIL},
                                last : Tasks \cup {NIL}]]
      <4> HIDE DEF n
      <4> QED BY <2>1, <2>2, <3>2, <3>3 DEF SemTypes
    <3>5. q2 \in Lines /\ Shape(sem', th_next, q2) /\ f \in W /\ Members(q2) = W \ {f}
      <4>1. /\ s \in Sems /\ q[s] # <<>> /\ Shape(sem, th_next, q)
            /\ MovesOn(sem, th_next, s, sem')
        BY <2>1, <2>2, <2>3, <2>5, <3>1, <3>4 DEF MovesOn
      <4>2. Only(q, s, Tail(q[s]), q2)
        <5>1. \A u \in Sems : q[u] \in Seq(Tasks)
          BY DEF Lines
        <5>2. Tail(q[s]) \in Seq(Tasks)
          BY <4>1, <5>1, HeadTailProperties
        <5>3. PICK e \in Seq(Tasks) : e = Tail(q[s])
          BY <5>2
        <5>4. PICK S : S = Seq(Tasks)
          OBVIOUS
        <5>5. q \in [Sems -> S] /\ e \in S /\ q2 = [q EXCEPT ![s] = e]
          BY <5>3, <5>4 DEF Lines
        <5> HIDE DEF q2
        <5>6. q2 \in [Sems -> S] /\ q2[s] = e /\ \A u \in Sems \ {s} : q2[u] = q[u]
          BY <4>1, <5>5
        <5> QED BY <5>3, <5>4, <5>6 DEF Only, Lines
      <4> HIDE DEF q2
      <4>3. /\ Shape(sem', th_next, q2)
            /\ sem[s].first \in Members(q)
            /\ Members(q2) = Members(q) \ {sem[s].first}
        <5>1. Leaves(sem, th_next, q, s, sem', q2)
          BY <4>1, <4>2 DEF Leaves
        <5> QED BY <5>1, WakeShape
      <4> QED BY <3>1, <4>2, <4>3 DEF W, Only
    <3> HIDE DEF W, n
    <3>6. KernelInv' /\ StatusInv(W \ {f}, Tasks)' /\ Kept(stk', stk)
      <4>1. StatusInv(W, Tasks)
        BY <2>2 DEF W
      <4> QED BY <2>1, <2>2, <3>2, <3>3, <3>5, <4>1, WakeStep
    <3>7. /\ th_next' \in Links /\ Chained(th_next', stk', 1 .. Len(stk'))
          /\ \A t \in Tasks : t \in W \ {f} => th_next'[t] = th_next[t]
      BY <2>2, <3>2, <3>6, LinksKept
    <3> HIDE DEF q2
    <3>8. Shape(sem', th_next', q2)
      <4>1. \A t \in Members(q2) : th_next'[t] = th_next[t]
        BY <3>5, <3>7 DEF W, Members
      <4> QED BY <3>5, <4>1, SameShape
    <3>9. SemInv(q2)'
      BY <3>4, <3>5, <3>6, <3>7, <3>8 DEF SemInv, SemTypes
    <3>10. Serves(CountsOf(sem), q, CountsOf(sem'), q2)
      <4>1. CountsOf(sem') = CountsOf(sem)
        BY <3>4 DEF CountsOf
      <4> QED BY <2>1, <2>3, <2>5, <4>1 DEF Serves, q2
    <3> QED BY <3>5, <3>9, <3>10 DEF SemStep
  <2> QED BY <2>4, <2>5
<1> QED BY <1>1, <1>2 DEF PostSem

\* Every step keeps the invariant and serves the queues in order.
LEMMA SemNextStep ==
  ASSUME CleanBodies, NEW q \in Lines, SemInv(q), [SemNext]_allVars
  PROVE  SemStep(q)
<1>1. CASE KernelStep
  <2>1. SemInv(q)' /\ sem' = sem
    BY <1>1, KernelStepInv DEF KernelStep
  <2>2. Serves(CountsOf(sem), q, CountsOf(sem'), q)
    BY <2>1 DEF Serves
  <2> QED BY <2>1, <2>2 DEF SemStep
<1>2. ASSUME NEW s \in Sems \cup {NIL}, WaitSem(s) PROVE SemStep(q)
  BY <1>2, WaitSemStep
<1>3. ASSUME NEW s \in Sems \cup {NIL}, PostSem(s) PROVE SemStep(q)
  BY <1>3, PostSemStep
<1>4. ASSUME NEW s \in Sems \cup {NIL}, TryWaitSem(s) PROVE SemStep(q)
  <2>1. CASE ret' = "0"
    <3>1. s \in Sems /\ sem[s].count # 0 /\ sem' = [sem EXCEPT ![s].count = @ - 1]
          /\ UNCHANGED kernelVars /\ th_next' = th_next
      BY <1>4, <2>1 DEF TryWaitSem
    <3> QED BY <3>1, TakeStep
  <2>2. CASE ret' # "0"
    BY <1>4, <2>2, QuietStep DEF TryWaitSem, semVars
  <2> QED BY <2>1, <2>2
<1>5. ASSUME NEW s \in Sems \cup {NIL}, GetValueSem(s) PROVE SemStep(q)
  BY <1>5, QuietStep DEF GetValueSem
<1>6. CASE UNCHANGED allVars
  BY <1>6, QuietStep DEF allVars, vars
<1> QED BY <1>1, <1>2, <1>3, <1>4, <1>5, <1>6 DEF SemNext

-----------------------------------------------------------------------------
(* The theorems.                                                           *)

\* The links of sm give every semaphore its queue.
LEMMA QueuesAre ==
  ASSUME NEW sm, NEW next, NEW q \in Lines, Shape(sm, next, q)
  PROVE  [s \in Sems |-> Follow(sm[s].first, next, NIL, Cardinality(Tasks))] = q
<1>1. ASSUME NEW s \in Sems PROVE Follow(sm[s].first, next, NIL, Cardinality(Tasks)) = q[s]
  <2>1. q[s] \in Seq(Tasks) /\ Once(q[s]) /\ Spells(sm[s].first, next, NIL, q[s])
    BY SameNames DEF Lines, Shape
  <2>2. Cardinality(Tasks) \in Nat /\ Len(q[s]) =< Cardinality(Tasks) /\ NIL \notin Tasks
    BY <2>1, QueueFits, TaskAssumption
  <2> QED BY <2>1, <2>2, FollowIs
<1>2. q = [s \in Sems |-> q[s]]
  BY DEF Lines
<1> QED BY <1>1, <1>2

\* What the invariant says of a task: it has one place in the queues when it
\* waits with an empty mask, and none otherwise.
LEMMA OnePlace ==
  ASSUME NEW q \in Lines, SemInv(q), NEW t \in Tasks, NEW P,
         P = {p \in Sems \X (1 .. Cardinality(Tasks)) :
                p[2] \in DOMAIN q[p[1]] /\ q[p[1]][p[2]] = t}
  PROVE  /\ t \in Members(q) => Cardinality(P) = 1
         /\ P = {} <=> t \notin Members(q)
<1>1. \A s \in Sems : /\ q[s] \in Seq(Tasks) /\ Distinct(q[s])
                      /\ DOMAIN q[s] = 1 .. Len(q[s])
  BY LenProperties DEF SemInv, Shape, Lines
<1>2. ASSUME NEW s \in Sems PROVE 1 .. Len(q[s]) \subseteq 1 .. Cardinality(Tasks)
  <2>1. Len(q[s]) \in Nat /\ Cardinality(Tasks) \in Nat /\ Len(q[s]) =< Cardinality(Tasks)
    BY <1>1, SameNames, QueueFits, TaskAssumption
  <2> QED BY <2>1
<1>3. ASSUME NEW s \in Sems, NEW i \in 1 .. Len(q[s]), q[s][i] = t
      PROVE  <<s, i>> \in P
  BY <1>1, <1>2, <1>3
<1>4. t \in Members(q) <=> \E s \in Sems : \E i \in 1 .. Len(q[s]) : q[s][i] = t
  BY DEF Members, In
<1>5. ASSUME NEW p \in P
      PROVE  /\ p = <<p[1], p[2]>> /\ p[1] \in Sems
             /\ p[2] \in 1 .. Len(q[p[1]]) /\ q[p[1]][p[2]] = t
  BY <1>1
<1>6. P = {} <=> t \notin Members(q)
  <2>1. ASSUME NEW p \in P PROVE t \in Members(q)
    <3>1. p[1] \in Sems /\ p[2] \in 1 .. Len(q[p[1]]) /\ q[p[1]][p[2]] = t
      BY <1>5
    <3> QED BY <1>4, <3>1
  <2>2. ASSUME t \in Members(q) PROVE P # {}
    <3>1. PICK s \in Sems : \E i \in 1 .. Len(q[s]) : q[s][i] = t
      BY <1>4, <2>2
    <3>2. PICK i \in 1 .. Len(q[s]) : q[s][i] = t
      BY <3>1
    <3>3. <<s, i>> \in P
      BY <1>3, <3>2
    <3> QED BY <3>3
  <2> QED BY <2>1, <2>2
<1>7. ASSUME NEW a \in P, NEW b \in P PROVE a = b
  <2>1. In(q[a[1]], t) /\ In(q[b[1]], t)
    BY <1>5 DEF In
  <2>2. a[1] = b[1]
    BY <1>5, <2>1 DEF SemInv, Shape
  <2>3. a[2] = b[2]
    BY <1>1, <1>5, <2>2 DEF Distinct
  <2> QED BY <1>5, <2>2, <2>3
<1>8. ASSUME t \in Members(q) PROVE Cardinality(P) = 1
  <2>1. PICK a : a \in P
    BY <1>6, <1>8
  <2>2. P = {a}
    BY <1>7, <2>1
  <2> QED BY <2>2, FS_Singleton
<1> QED BY <1>6, <1>8

\* The invariant says that a task waits in one place.
LEMMA OnePlaceStep ==
  ASSUME NEW q \in Lines, SemInv(q)
  PROVE  WaitsInOnePlace
<1> DEFINE chain == [s \in Sems |-> Chain(s)]
           places(t) == {p \in Sems \X (1 .. Cardinality(Tasks)) :
                           p[2] \in DOMAIN chain[p[1]] /\ chain[p[1]][p[2]] = t}
           masked(t) == event_waitmask[t] # {} /\ t # current /\ Queued(t) = {}
<1>1. KernelInv /\ StatusInv(Members(q), Tasks) /\ Shape(sem, th_next, q)
  BY DEF SemInv
<1>2. chain = q
  BY <1>1, QueuesAre DEF Chain
<1> HIDE DEF chain
<1>3. ASSUME NEW t \in Tasks
      PROVE  /\ th_status[t] = "WAITING" <=> t \in Members(q) \/ masked(t)
             /\ t \in Members(q) => th_status[t] = "WAITING" /\ event_waitmask[t] = {}
  BY <1>1, TaskIs DEF TaskFits, WakeFits
<1>4. ASSUME NEW t \in Tasks
      PROVE  /\ t \in Members(q) => Cardinality(places(t)) = 1
             /\ places(t) = {} <=> t \notin Members(q)
  BY <1>2, OnePlace
<1>5. ASSUME NEW t \in Tasks
      PROVE  th_status[t] = "WAITING"
               <=> Cardinality(places(t)) + (IF masked(t) THEN 1 ELSE 0) = 1
  <2>1. CASE t \in Members(q)
    <3>1. Cardinality(places(t)) = 1 /\ th_status[t] = "WAITING" /\ event_waitmask[t] = {}
      BY <1>3, <1>4, <2>1
    <3>2. ~masked(t)
      BY <3>1
    <3> HIDE DEF places, masked
    <3> QED BY <3>1, <3>2
  <2>2. CASE t \notin Members(q)
    <3>1. places(t) = {} /\ (th_status[t] = "WAITING" <=> masked(t))
      BY <1>3, <1>4, <2>2
    <3>2. Cardinality(places(t)) = 0
      BY <3>1, FS_EmptySet
    <3> HIDE DEF places, masked
    <3> QED BY <3>1, <3>2
  <2> QED BY <2>1, <2>2
<1>6. \A t \in Tasks : places(t) # {} => th_status[t] = "WAITING" /\ event_waitmask[t] = {}
  BY <1>3, <1>4
<1>7. \A s \in Sems : sem[s].last = Top(chain[s])
  BY <1>1, <1>2 DEF Shape
<1> QED BY <1>5, <1>6, <1>7 DEF WaitsInOnePlace, chain

\* The invariant gives every variable its type.
LEMMA SemTypedStep ==
  ASSUME NEW q \in Lines, SemInv(q)
  PROVE  SemTypeOK
<1>1. SemTypes /\ Shape(sem, th_next, q)
  BY DEF SemInv
<1>2. ASSUME NEW s \in Sems PROVE sem[s].first = NIL <=> sem[s].last = NIL
  <2>1. sem[s].last = Top(q[s])
    BY <1>1 DEF Shape
  <2>2. q[s] = <<>> => Top(q[s]) = NIL
    BY DEF Top
  <2> QED BY <1>1, <2>1, <2>2, FirstIs, TaskAssumption
<1> QED BY <1>1, <1>2 DEF SemTypes, SemTypeOK, Links

\* The invariant links the tasks on the stack.
LEMMA LinkedStep ==
  ASSUME NEW q \in Lines, SemInv(q)
  PROVE  StackLinked
<1>1. KernelInv /\ Chained(th_next, stk, 1 .. Len(stk))
  BY DEF SemInv
<1>2. DOMAIN stk = 1 .. Len(stk)
  BY <1>1, StackDomain DEF KernelInv, TypeInv
<1> QED BY <1>1, <1>2 DEF StackLinked, Chained

\* The invariant keeps the accounts of the kernel.
LEMMA AgreesStep ==
  ASSUME NEW q \in Lines, SemInv(q)
  PROVE  KernelAgrees
<1>1. KernelInv /\ StatusInv(Members(q), Tasks)
  BY DEF SemInv
<1>2. StatusAgrees /\ ActivationAccounting
  BY <1>1, AgreeStep, AccountingStep
<1> QED BY <1>1, <1>2, CeilingStep, OrderStep DEF KernelAgrees

\* The links spell queues for which all the parts hold.
SemHolds == \E q \in Lines : SemInv(q)

\* The inductive invariant: some queues fit the links in every state.
THEOREM SemaphoresInductive ==
  ASSUME CleanBodies
  PROVE  SemSpec => []SemHolds
<1>1. SemInit => SemHolds
  <2> SUFFICES ASSUME SemInit PROVE SemHolds
    OBVIOUS
  <2>1. [s \in Sems |-> <<>>] \in Lines
    BY EmptySeq DEF Lines
  <2> QED BY <2>1, SemInitInv DEF SemHolds
<1>2. SemHolds /\ [SemNext]_allVars => SemHolds'
  <2> SUFFICES ASSUME SemHolds, [SemNext]_allVars PROVE SemHolds'
    OBVIOUS
  <2>1. PICK q \in Lines : SemInv(q)
    BY DEF SemHolds
  <2>2. SemStep(q)
    BY <2>1, SemNextStep
  <2> QED BY <2>2 DEF SemStep, SemHolds
<1> QED BY <1>1, <1>2, PTL DEF SemSpec

\* Every variable keeps the type of the C object it stands for, and first and
\* last of a semaphore are set and cleared together.
THEOREM SemaphoresTyped ==
  ASSUME CleanBodies
  PROVE  SemSpec => []SemTypeOK
<1>1. SemHolds => SemTypeOK
  BY SemTypedStep DEF SemHolds
<1> QED BY <1>1, SemaphoresInductive, PTL

\* No operation on a queue breaks the links of the tasks on the stack.
THEOREM StackKeptLinked ==
  ASSUME CleanBodies
  PROVE  SemSpec => []StackLinked
<1>1. SemHolds => StackLinked
  BY LinkedStep DEF SemHolds
<1> QED BY <1>1, SemaphoresInductive, PTL

\* A waiting task is in the queue of one semaphore, once, or waits for events.
THEOREM WaitersInOnePlace ==
  ASSUME CleanBodies
  PROVE  SemSpec => []WaitsInOnePlace
<1>1. SemHolds => WaitsInOnePlace
  BY OnePlaceStep DEF SemHolds
<1> QED BY <1>1, SemaphoresInductive, PTL

\* Blocking on semaphores leaves the accounts of the kernel exact.
THEOREM KernelKeptByWaiters ==
  ASSUME CleanBodies
  PROVE  SemSpec => []KernelAgrees
<1>1. SemHolds => KernelAgrees
  BY AgreesStep DEF SemHolds
<1> QED BY <1>1, SemaphoresInductive, PTL

\* Each semaphore is a counting semaphore whose waiters are served in the order
\* they came, and a call on one changes no other.
THEOREM SemaphoresAreFifo ==
  ASSUME CleanBodies
  PROVE  SemSpec => ImplementsFifo
<1> DEFINE count == [s \in Sems |-> sem[s].count]
           queue == [s \in Sems |-> Chain(s)]
<1>1. SemInit => Fifo!Init
  <2> SUFFICES ASSUME SemInit PROVE Fifo!Init
    OBVIOUS
  <2>1. SemInv([s \in Sems |-> <<>>]) /\ [s \in Sems |-> <<>>] \in Lines
    BY SemInitInv, EmptySeq DEF Lines
  <2>2. queue = [s \in Sems |-> <<>>]
    BY <2>1, QueuesAre DEF SemInv, Chain
  <2>3. count \in [Sems -> 0 .. MaxSemCounter]
    BY <2>1 DEF SemInv, SemTypes
  <2> QED BY <2>2, <2>3 DEF Fifo!Init
<1>2. SemHolds /\ [SemNext]_allVars => [Fifo!Next]_Fifo!vars
  <2> SUFFICES ASSUME SemHolds, [SemNext]_allVars PROVE [Fifo!Next]_Fifo!vars
    OBVIOUS
  <2>1. PICK q \in Lines : SemInv(q)
    BY DEF SemHolds
  <2>2. PICK q2 \in Lines : SemInv(q2)' /\ Serves(CountsOf(sem), q, CountsOf(sem'), q2)
    BY <2>1, SemNextStep DEF SemStep
  <2>3. queue = q /\ count = CountsOf(sem)
    BY <2>1, QueuesAre DEF SemInv, Chain, CountsOf
  <2>4. queue' = q2 /\ count' = CountsOf(sem')
    BY <2>2, QueuesAre DEF SemInv, Chain, CountsOf
  <2> HIDE DEF queue, count
  <2>5. CASE CountsOf(sem') = CountsOf(sem) /\ q2 = q
    BY <2>3, <2>4, <2>5 DEF Fifo!vars, queue, count
  <2>6. ASSUME NEW s \in Sems, count[s] > 0, queue' = queue,
               count' = [count EXCEPT ![s] = count[s] - 1]
        PROVE  Fifo!Next
    <3>1. Fifo!Take(s)
      BY <2>6 DEF Fifo!Take, count, queue
    <3> QED BY <3>1 DEF Fifo!Next
  <2>7. ASSUME NEW s \in Sems, NEW t \in Tasks, t \notin Members(q), count[s] = 0, count' = count,
               queue' = [queue EXCEPT ![s] = Append(queue[s], t)]
        PROVE  Fifo!Next
    <3>1. \A u \in Sems : \A i \in DOMAIN queue[u] : queue[u][i] # t
      <4>1. \A u \in Sems : DOMAIN q[u] = 1 .. Len(q[u]) /\ ~In(q[u], t)
        BY <2>7, LenProperties DEF Members, Lines
      <4> QED BY <2>3, <4>1 DEF In
    <3>2. Fifo!Enter(s, t)
      BY <2>7, <3>1 DEF Fifo!Enter, count, queue
    <3> QED BY <3>2 DEF Fifo!Next
  <2>8. ASSUME NEW s \in Sems, queue[s] # <<>>, count' = count,
               queue' = [queue EXCEPT ![s] = Tail(queue[s])]
        PROVE  Fifo!Next
    <3>1. Fifo!HandOver(s)
      BY <2>8 DEF Fifo!HandOver, count, queue
    <3> QED BY <3>1 DEF Fifo!Next
  <2>9. ASSUME NEW s \in Sems, queue[s] = <<>>, count[s] < MaxSemCounter, queue' = queue,
               count' = [count EXCEPT ![s] = count[s] + 1]
        PROVE  Fifo!Next
    <3>1. Fifo!Post(s)
      BY <2>9 DEF Fifo!Post, count, queue
    <3> QED BY <3>1 DEF Fifo!Next
  <2>10. Serves(count, queue, count', queue')
    BY <2>2, <2>3, <2>4
  <2> QED BY <2>3, <2>4, <2>5, <2>6, <2>7, <2>8, <2>9, <2>10 DEF Serves
<1> QED BY <1>1, <1>2, SemaphoresInductive, PTL DEF SemSpec, ImplementsFifo, Fifo!Spec
=============================================================================
