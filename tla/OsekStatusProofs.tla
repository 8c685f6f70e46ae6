--------------------------- MODULE OsekStatusProofs ---------------------------
(***************************************************************************)
(* Where each task of OsekKernel is: status, stack, ready queues, saved    *)
(* WaitEvent contexts and activations tell one story.                      *)
(*                                                                         *)
(* Proved under CleanBodies: no body that may return without ending its    *)
(* task chains to another (KernelStaleChain shows what happens otherwise). *)
(* StatusAgrees, ActivationAccounting and NoLostWakeup each leave out what *)
(* another one needs. The invariant says it of one task at a time, over    *)
(* plain values (TaskFits): an accepted activation is a queued instance,   *)
(* the one on the stack or the one that waits, and a saved context belongs *)
(* to a task that waits or has been woken and is queued. The steps of a    *)
(* switch are taken in the order of the code, with no task running in      *)
(* between (Fits(..., NIL)). That a stacked task is dispatched once and    *)
(* queued at its own level comes from KernelInv of OsekKernelProofs.       *)
(***************************************************************************)
EXTENDS OsekKernelProofs, FunctionTheorems, FiniteSetTheorems

-----------------------------------------------------------------------------
(* Occurrences of a task in a queue, and in the stack.                     *)

Pos(s, t) == {i \in 1 .. Len(s) : s[i] = t}
Occ(s, t) == Cardinality(Pos(s, t))
Count(q, t) == Occ(q[ReadyPrio[t]], t)
In(s, t) == \E i \in 1 .. Len(s) : s[i] = t
Distinct(s) == \A i, j \in 1 .. Len(s) : s[i] = s[j] => i = j

\* A task occurs a natural number of times, and not at all if it is at no position.
LEMMA OccIs ==
  ASSUME NEW T, NEW s \in Seq(T), NEW t
  PROVE  /\ IsFiniteSet(Pos(s, t)) /\ Occ(s, t) \in Nat
         /\ Occ(s, t) = 0 <=> Pos(s, t) = {}
<1>1. Len(s) \in Nat /\ 1 .. Len(s) \in SUBSET Nat
  OBVIOUS
<1>2. IsFiniteSet(1 .. Len(s))
  BY <1>1, FS_Interval
<1>3. IsFiniteSet(Pos(s, t))
  BY <1>2, FS_Subset DEF Pos
<1> QED BY <1>3, FS_CardinalityType, FS_EmptySet DEF Occ

\* One more at the end of a sequence.
LEMMA OccAppend ==
  ASSUME NEW T, NEW s \in Seq(T), NEW u \in T, NEW t
  PROVE  Occ(Append(s, u), t) = Occ(s, t) + IF u = t THEN 1 ELSE 0
<1>1. Len(s) \in Nat /\ Len(Append(s, u)) = Len(s) + 1
  OBVIOUS
<1>2. \A i \in 1 .. Len(s) + 1 : Append(s, u)[i] = IF i = Len(s) + 1 THEN u ELSE s[i]
  BY <1>1
<1>3. Pos(Append(s, u), t) = Pos(s, t) \cup IF u = t THEN {Len(s) + 1} ELSE {}
  BY <1>1, <1>2 DEF Pos
<1>4. Len(s) + 1 \notin Pos(s, t)
  BY <1>1 DEF Pos
<1>5. CASE u = t
  <2>1. Pos(Append(s, u), t) = Pos(s, t) \cup {Len(s) + 1}
    BY <1>3, <1>5
  <2>2. Cardinality(Pos(s, t) \cup {Len(s) + 1}) = Cardinality(Pos(s, t)) + 1
    BY <1>4, OccIs, FS_AddElement
  <2> QED BY <1>5, <2>1, <2>2 DEF Occ
<1>6. CASE u # t
  <2>1. Pos(Append(s, u), t) = Pos(s, t)
    BY <1>3, <1>6
  <2>2. Occ(s, t) \in Nat
    BY OccIs
  <2> QED BY <1>6, <2>1, <2>2 DEF Occ
<1> QED BY <1>5, <1>6

\* One less at the front.
LEMMA OccTail ==
  ASSUME NEW T, NEW s \in Seq(T), s # <<>>, NEW t
  PROVE  Occ(Tail(s), t) = Occ(s, t) - IF Head(s) = t THEN 1 ELSE 0
<1> DEFINE P == Pos(s, t) \ {1}
           Q == Pos(Tail(s), t)
           f == [i \in Q |-> i + 1]
<1>1. Len(s) \in Nat /\ Len(s) >= 1 /\ Head(s) = s[1] /\ Tail(s) \in Seq(T)
  OBVIOUS
<1>2. Len(Tail(s)) = Len(s) - 1 /\ \A i \in 1 .. Len(Tail(s)) : Tail(s)[i] = s[i + 1]
  BY HeadTailProperties
<1>3. Q = {i \in 1 .. Len(s) - 1 : s[i + 1] = t}
  BY <1>2 DEF Pos
<1>4. f \in Bijection(Q, P)
  <2>1. f \in [Q -> P]
    BY <1>1, <1>3 DEF Pos
  <2>2. \A i, j \in Q : f[i] = f[j] => i = j
    BY <1>1, <1>3
  <2>3. \A p \in P : \E i \in Q : f[i] = p
    <3> SUFFICES ASSUME NEW p \in P PROVE \E i \in Q : f[i] = p
      OBVIOUS
    <3>1. p - 1 \in Q
      BY <1>1, <1>3 DEF Pos
    <3>2. p \in Int /\ f[p - 1] = p - 1 + 1
      BY <3>1 DEF Pos
    <3> QED BY <3>1, <3>2
  <2> QED BY <2>1, <2>2, <2>3, Fun_IsBij
<1>5. IsFiniteSet(Q)
  BY <1>1, OccIs
<1>6. Cardinality(Q) = Cardinality(P)
  BY <1>4, <1>5, FS_Bijection DEF ExistsBijection
<1>7. CASE Head(s) = t
  <2>1. 1 \in Pos(s, t)
    BY <1>1, <1>7 DEF Pos
  <2>2. Cardinality(P) = Cardinality(Pos(s, t)) - 1
    BY <2>1, OccIs, FS_RemoveElement
  <2> QED BY <1>6, <1>7, <2>2 DEF Occ
<1>8. CASE Head(s) # t
  <2>1. P = Pos(s, t)
    BY <1>1, <1>8 DEF Pos
  <2>2. Occ(s, t) \in Nat
    BY OccIs
  <2> HIDE DEF P, Q
  <2> QED BY <1>6, <1>8, <2>1, <2>2 DEF Occ, Q
<1> QED BY <1>7, <1>8

\* A task occurs where it is at some position.
LEMMA OccIn ==
  ASSUME NEW T, NEW s \in Seq(T), NEW t
  PROVE  Occ(s, t) # 0 <=> In(s, t)
BY OccIs DEF Pos, In

\* A sequence that names a task at most once counts it at most once.
LEMMA OccDistinct ==
  ASSUME NEW T, NEW s \in Seq(T), Distinct(s), NEW t
  PROVE  Occ(s, t) = IF In(s, t) THEN 1 ELSE 0
<1>1. CASE In(s, t)
  <2>1. PICK i \in 1 .. Len(s) : s[i] = t
    BY <1>1 DEF In
  <2>2. Pos(s, t) = {i}
    BY <2>1 DEF Pos, Distinct
  <2> QED BY <1>1, <2>2, FS_Singleton DEF Occ
<1>2. CASE ~In(s, t)
  BY <1>2, OccIn
<1> QED BY <1>1, <1>2

\* The tasks of a sequence with one more at the end.
LEMMA InAppend ==
  ASSUME NEW T, NEW s \in Seq(T), NEW u \in T, NEW t
  PROVE  In(Append(s, u), t) <=> In(s, t) \/ t = u
<1>1. Len(s) \in Nat /\ Len(Append(s, u)) = Len(s) + 1
  OBVIOUS
<1>2. \A i \in 1 .. Len(s) + 1 : Append(s, u)[i] = IF i = Len(s) + 1 THEN u ELSE s[i]
  BY <1>1
<1>3. Len(s) + 1 \in 1 .. Len(s) + 1 /\ \A i \in 1 .. Len(s) : i \in 1 .. Len(s) + 1 /\ i # Len(s) + 1
  BY <1>1
<1> QED BY <1>1, <1>2, <1>3 DEF In

\* A task put on a stack that stays free of repetitions was not on it.
LEMMA AppendIsNew ==
  ASSUME NEW T, NEW s \in Seq(T), NEW u \in T, Distinct(Append(s, u))
  PROVE  ~In(s, u)
<1>1. Len(s) \in Nat /\ Len(Append(s, u)) = Len(s) + 1
  OBVIOUS
<1>2. \A i \in 1 .. Len(s) : Append(s, u)[i] = s[i] /\ i \in 1 .. Len(s) + 1 /\ i # Len(s) + 1
  BY <1>1
<1>3. Append(s, u)[Len(s) + 1] = u /\ Len(s) + 1 \in 1 .. Len(s) + 1
  BY <1>1
<1> QED BY <1>1, <1>2, <1>3 DEF In, Distinct

\* The last task of a sequence occurs in it, and once if none is repeated.
LEMMA InPop ==
  ASSUME NEW T, NEW s \in Seq(T), s # <<>>, Distinct(s), NEW t
  PROVE  /\ In(s, s[Len(s)])
         /\ In(Pop(s), t) <=> In(s, t) /\ t # s[Len(s)]
<1>1. Len(s) \in Nat /\ Len(s) >= 1 /\ Len(s) \in 1 .. Len(s)
  OBVIOUS
<1>2. Len(Pop(s)) = Len(s) - 1 /\ \A i \in 1 .. Len(s) - 1 : Pop(s)[i] = s[i]
  BY PopProperties
<1>3. \A i \in 1 .. Len(s) : i \in 1 .. Len(s) - 1 <=> i # Len(s)
  BY <1>1
<1>4. \A i \in 1 .. Len(s) - 1 : i \in 1 .. Len(s)
  BY <1>1
<1> QED BY <1>1, <1>2, <1>3, <1>4 DEF In, Distinct

-----------------------------------------------------------------------------
(* Tasks in the ready queues.                                              *)

\* A task is queued a natural number of times.
LEMMA CountIs ==
  ASSUME NEW q \in Queues, NEW t \in Tasks
  PROVE  Count(q, t) \in Nat
<1>1. q[ReadyPrio[t]] \in Seq(Tasks)
  BY Prios DEF Queues
<1> QED BY <1>1, OccIs DEF Count

\* Inserting a task queues it once more.
LEMMA CountInsert ==
  ASSUME NEW q \in Queues, NEW u \in Tasks, NEW t \in Tasks
  PROVE  Count(RqInsert(q, u), t) = Count(q, t) + IF t = u THEN 1 ELSE 0
<1>1. ReadyPrio[t] \in Levels /\ ReadyPrio[u] \in Levels
  BY Prios
<1>2. q[ReadyPrio[t]] \in Seq(Tasks) /\ Count(q, t) \in Nat
  BY <1>1, CountIs DEF Queues
<1>3. CASE ReadyPrio[t] = ReadyPrio[u]
  <2>1. RqInsert(q, u)[ReadyPrio[t]] = Append(q[ReadyPrio[t]], u)
    BY <1>1, <1>3 DEF RqInsert, Queues
  <2>2. Occ(Append(q[ReadyPrio[t]], u), t) = Occ(q[ReadyPrio[t]], t) + IF u = t THEN 1 ELSE 0
    BY <1>2, OccAppend
  <2> QED BY <2>1, <2>2 DEF Count
<1>4. CASE ReadyPrio[t] # ReadyPrio[u]
  <2>1. RqInsert(q, u)[ReadyPrio[t]] = q[ReadyPrio[t]]
    BY <1>1, <1>4 DEF RqInsert, Queues
  <2> QED BY <1>2, <1>4, <2>1 DEF Count
<1> QED BY <1>3, <1>4

\* Removing the first ready task queues it once less.
LEMMA CountRemove ==
  ASSUME NEW q \in Queues, QLevels(q), NonEmpty(q) # {}, NEW t \in Tasks
  PROVE  Count(RqRemoveFirst(q), t) = Count(q, t) - IF t = RqFirst(q) THEN 1 ELSE 0
<1> DEFINE m == Highest(q)
<1>1. /\ m \in Levels /\ q[m] # <<>> /\ q[m] \in Seq(Tasks)
      /\ RqFirst(q) = Head(q[m]) /\ ReadyPrio[RqFirst(q)] = m
  BY FirstOfQueues, FirstLevel DEF NonEmpty, Queues, RqFirst
<1>2. RqRemoveFirst(q)[m] = Tail(q[m]) /\ \A l \in Levels : l # m => RqRemoveFirst(q)[l] = q[l]
  BY <1>1 DEF RqRemoveFirst, Queues
<1> HIDE DEF m
<1>3. ReadyPrio[t] \in Levels /\ Count(q, t) \in Nat
  BY Prios, CountIs
<1>4. CASE ReadyPrio[t] = m
  <2>1. Occ(Tail(q[m]), t) = Occ(q[m], t) - IF Head(q[m]) = t THEN 1 ELSE 0
    BY <1>1, OccTail
  <2> QED BY <1>1, <1>2, <1>4, <2>1 DEF Count
<1>5. CASE ReadyPrio[t] # m
  BY <1>1, <1>2, <1>3, <1>5 DEF Count
<1> QED BY <1>4, <1>5

-----------------------------------------------------------------------------
(* The state of one task, over plain values: its status st, whether it     *)
(* runs, whether it is on the stack, how often it is queued (n), whether a *)
(* context of a WaitEvent is saved (ww), the activations it still accepts  *)
(* (r), and whether an event it waits for is active (due).                 *)

TaskFits(t, st, runs, on, n, ww, r) ==
  /\ st = "RUNNING" <=> runs
  /\ on => st \in {"RUNNING", "READY"} /\ ~ww
  /\ n # 0 => st \in {"RUNNING", "READY"}
  /\ st = "READY" => on \/ n # 0
  /\ st = "WAITING" => t \in Extended /\ ww
  /\ ww => st \in {"WAITING", "READY"}
  /\ RnactMax[t] = r + n + IF on \/ st = "WAITING" THEN 1 ELSE 0

WakeFits(st, ww, due, none, sem, late) ==
  /\ st = "WAITING" => ~due
  /\ ww /\ st = "READY" => due \/ (none /\ late)
  /\ ~none => ww
  /\ sem <=> st = "WAITING" /\ none

Fits(k, rn, run) ==
  \A t \in Tasks : TaskFits(t, k.status[t], t = run, In(k.stk, t), Count(k.rq, t),
                            k.waswaiting[t], rn[t])

WakesFit(k, ea, W, R) ==
  \A t \in Tasks : WakeFits(k.status[t], k.waswaiting[t], ea[t] \cap k.waitmask[t] # {},
                            k.waitmask[t] = {}, t \in W, t \in R)

-----------------------------------------------------------------------------
(* The steps of a switch keep the tasks fitting. The lemmas speak of a     *)
(* state in which no task runs (run = NIL) when the running one has left   *)
(* or has been made READY, and the next one is not yet chosen.             *)

\* What dispatching the first ready task does to each field.
LEMMA DispatchFields ==
  ASSUME NEW k \in SchedType, NonEmpty(k.rq) # {},
         NEW f, f = RqFirst(k.rq)
  PROVE  /\ f \in Tasks
         /\ DispatchFirst(k).status = [k.status EXCEPT ![f] = "RUNNING"]
         /\ DispatchFirst(k).stk = Append(k.stk, f)
         /\ Top(DispatchFirst(k).stk) = f
         /\ DispatchFirst(k).rq = RqRemoveFirst(k.rq)
         /\ DispatchFirst(k).waswaiting = [k.waswaiting EXCEPT ![f] = FALSE]
         /\ DispatchFirst(k).waitmask
              = [k.waitmask EXCEPT ![f] = IF k.waswaiting[f] THEN {} ELSE k.waitmask[f]]
<1>1. f \in Tasks
  BY FirstOfQueues DEF SchedType
<1>2. Append(k.stk, f) # <<>> /\ Append(k.stk, f)[Len(Append(k.stk, f))] = f
  BY <1>1 DEF SchedType
<1>3. DispatchFirst(k).stk = Append(k.stk, f)
  BY DEF DispatchFirst, SchedType
<1> QED BY <1>1, <1>2, <1>3 DEF DispatchFirst, SchedType, Top

\* Dispatching when no task runs.
LEMMA DispatchFits ==
  ASSUME NEW k \in SchedType, QLevels(k.rq), NonEmpty(k.rq) # {},
         NEW rn \in [Tasks -> Int], Fits(k, rn, NIL),
         Distinct(DispatchFirst(k).stk)
  PROVE  Fits(DispatchFirst(k), rn, Top(DispatchFirst(k).stk))
<1> DEFINE f == RqFirst(k.rq)
           d == DispatchFirst(k)
<1>1. /\ f \in Tasks
      /\ d.status = [k.status EXCEPT ![f] = "RUNNING"]
      /\ d.stk = Append(k.stk, f) /\ Top(d.stk) = f
      /\ d.rq = RqRemoveFirst(k.rq)
      /\ d.waswaiting = [k.waswaiting EXCEPT ![f] = FALSE]
  BY DispatchFields
<1>2. k.stk \in Seq(Tasks) /\ k.rq \in Queues /\ k.status \in [Tasks -> Statuses]
      /\ k.waswaiting \in [Tasks -> BOOLEAN]
  BY DEF SchedType
<1> HIDE DEF d, f
<1> SUFFICES ASSUME NEW t \in Tasks
             PROVE  TaskFits(t, d.status[t], t = f, In(d.stk, t), Count(d.rq, t),
                             d.waswaiting[t], rn[t])
  BY <1>1 DEF d, Fits
<1>3. TaskFits(t, k.status[t], FALSE, In(k.stk, t), Count(k.rq, t), k.waswaiting[t], rn[t])
  <2>1. t # NIL
    BY TaskAssumption
  <2> QED BY <2>1 DEF Fits
<1>4. Count(k.rq, t) \in Nat /\ Count(d.rq, t) \in Nat
      /\ Count(d.rq, t) = Count(k.rq, t) - IF t = f THEN 1 ELSE 0
  <2>1. d.rq \in Queues
    BY <1>1, <1>2, FirstOfQueues
  <2> QED BY <1>1, <1>2, <2>1, CountIs, CountRemove DEF f
<1>5. In(d.stk, t) <=> In(k.stk, t) \/ t = f
  BY <1>1, <1>2, InAppend
<1>6. ~In(k.stk, f)
  BY <1>1, <1>2, AppendIsNew DEF d
<1>7. rn[t] \in Int /\ RnactMax[t] \in Int
  BY TaskAssumption
<1>8. CASE t = f
  <2>1. d.status[t] = "RUNNING" /\ d.waswaiting[t] = FALSE
    BY <1>1, <1>2, <1>8
  <2>2. k.status[t] = "READY"
    BY <1>3, <1>4, <1>8 DEF TaskFits
  <2>3. RnactMax[t] = rn[t] + Count(k.rq, t)
    <3>1. RnactMax[t] = rn[t] + Count(k.rq, t) + 0
      BY <1>3, <1>6, <1>8, <2>2 DEF TaskFits
    <3> QED BY <1>4, <1>7, <3>1
  <2> QED BY <1>4, <1>5, <1>7, <1>8, <2>1, <2>3 DEF TaskFits
<1>9. CASE t # f
  <2>1. d.status[t] = k.status[t] /\ d.waswaiting[t] = k.waswaiting[t]
    BY <1>1, <1>2, <1>9
  <2>2. Count(d.rq, t) = Count(k.rq, t) /\ (In(d.stk, t) <=> In(k.stk, t))
    BY <1>4, <1>5, <1>9
  <2> QED BY <1>3, <1>9, <2>1, <2>2 DEF TaskFits
<1> QED BY <1>8, <1>9

\* The first ready task is queued.
LEMMA FirstCounted ==
  ASSUME NEW q \in Queues, QLevels(q), NonEmpty(q) # {}
  PROVE  RqFirst(q) \in Tasks /\ Count(q, RqFirst(q)) # 0
<1>1. RqFirst(q) \in Tasks /\ RqRemoveFirst(q) \in Queues
  BY FirstOfQueues
<1>2. /\ Count(RqRemoveFirst(q), RqFirst(q)) = Count(q, RqFirst(q)) - 1
      /\ Count(RqRemoveFirst(q), RqFirst(q)) \in Nat /\ Count(q, RqFirst(q)) \in Nat
  BY <1>1, CountRemove, CountIs
<1> QED BY <1>1, <1>2

\* The task dispatched has no event to wait for, and the others keep theirs.
LEMMA DispatchWakes ==
  ASSUME NEW W, NEW R, NEW k \in SchedType, QLevels(k.rq), NonEmpty(k.rq) # {},
         NEW rn, Fits(k, rn, NIL), NEW ea, WakesFit(k, ea, W, R)
  PROVE  WakesFit(DispatchFirst(k), ea, W, R)
<1> DEFINE f == RqFirst(k.rq)
           d == DispatchFirst(k)
<1>1. /\ f \in Tasks
      /\ d.status = [k.status EXCEPT ![f] = "RUNNING"]
      /\ d.waswaiting = [k.waswaiting EXCEPT ![f] = FALSE]
      /\ d.waitmask = [k.waitmask EXCEPT ![f] = IF k.waswaiting[f] THEN {} ELSE k.waitmask[f]]
  BY DispatchFields
<1>2. /\ k.status \in [Tasks -> Statuses] /\ k.waswaiting \in [Tasks -> BOOLEAN]
      /\ k.waitmask \in [Tasks -> SUBSET Events] /\ k.rq \in Queues
  BY DEF SchedType
<1>0. Count(k.rq, f) # 0
  BY <1>2, FirstCounted
<1> HIDE DEF d, f
<1> SUFFICES ASSUME NEW t \in Tasks
             PROVE  WakeFits(d.status[t], d.waswaiting[t], ea[t] \cap d.waitmask[t] # {},
                             d.waitmask[t] = {}, t \in W, t \in R)
  BY DEF d, WakesFit
<1>3. WakeFits(k.status[t], k.waswaiting[t], ea[t] \cap k.waitmask[t] # {},
               k.waitmask[t] = {}, t \in W, t \in R)
  BY DEF WakesFit
<1>4. CASE t = f
  <2>1. TaskFits(t, k.status[t], t = NIL, In(k.stk, t), Count(k.rq, t), k.waswaiting[t], rn[t])
    BY DEF Fits
  <2>2. k.status[t] # "WAITING" /\ k.waswaiting[t] \in BOOLEAN
    BY <1>0, <1>2, <1>4, <2>1 DEF TaskFits
  <2>3. d.status[t] = "RUNNING" /\ d.waswaiting[t] = FALSE
    BY <1>1, <1>2, <1>4
  <2>4. d.waitmask[t] = IF k.waswaiting[t] THEN {} ELSE k.waitmask[t]
    BY <1>1, <1>2, <1>4
  <2>5. d.waitmask[t] = {}
    BY <1>3, <2>2, <2>4 DEF WakeFits
  <2> QED BY <1>3, <2>2, <2>3, <2>5 DEF WakeFits
<1>5. CASE t # f
  <2>1. d.status[t] = k.status[t] /\ d.waswaiting[t] = k.waswaiting[t] /\ d.waitmask[t] = k.waitmask[t]
    BY <1>1, <1>2, <1>5
  <2> QED BY <1>3, <2>1 DEF WakeFits
<1> QED BY <1>4, <1>5

\* What resuming the top of the stack does to each field.
LEMMA ResumeFields ==
  ASSUME NEW k \in SchedType
  PROVE  /\ ResumeTop(k).stk = k.stk /\ ResumeTop(k).rq = k.rq
         /\ ResumeTop(k).waswaiting = k.waswaiting /\ ResumeTop(k).waitmask = k.waitmask
         /\ Top(k.stk) = NIL => ResumeTop(k).status = k.status
         /\ Top(k.stk) # NIL => ResumeTop(k).status = [k.status EXCEPT ![Top(k.stk)] = "RUNNING"]
BY DEF ResumeTop, SchedType

\* The top of a stack that is not empty is on it.
LEMMA TopIn ==
  ASSUME NEW s \in Seq(Tasks), Top(s) # NIL
  PROVE  Top(s) \in Tasks /\ In(s, Top(s))
<1>1. s # <<>> /\ Top(s) = s[Len(s)]
  BY DEF Top
<1>2. Len(s) \in 1 .. Len(s) /\ s[Len(s)] \in Tasks
  BY <1>1
<1> QED BY <1>1, <1>2 DEF In

\* Resuming when no task runs.
LEMMA ResumeFits ==
  ASSUME NEW k \in SchedType, NEW rn, Fits(k, rn, NIL)
  PROVE  Fits(ResumeTop(k), rn, Top(ResumeTop(k).stk))
<1> DEFINE d == ResumeTop(k)
           u == Top(k.stk)
<1>1. /\ d.stk = k.stk /\ d.rq = k.rq /\ d.waswaiting = k.waswaiting
      /\ u = NIL => d.status = k.status
      /\ u # NIL => d.status = [k.status EXCEPT ![u] = "RUNNING"]
  BY ResumeFields
<1>2. k.status \in [Tasks -> Statuses] /\ k.stk \in Seq(Tasks)
  BY DEF SchedType
<1>3. u # NIL => u \in Tasks /\ In(k.stk, u)
  BY <1>2, TopIn
<1> HIDE DEF d, u
<1> SUFFICES ASSUME NEW t \in Tasks
             PROVE  TaskFits(t, d.status[t], t = u, In(d.stk, t), Count(d.rq, t),
                             d.waswaiting[t], rn[t])
  BY <1>1 DEF d, u, Fits
<1>4. t # NIL
  BY TaskAssumption
<1>5. TaskFits(t, k.status[t], FALSE, In(k.stk, t), Count(k.rq, t), k.waswaiting[t], rn[t])
  BY <1>4 DEF Fits
<1>6. CASE t = u
  <2>1. d.status[t] = "RUNNING" /\ In(k.stk, t)
    BY <1>1, <1>2, <1>3, <1>4, <1>6
  <2> QED BY <1>1, <1>5, <1>6, <2>1 DEF TaskFits
<1>7. CASE t # u
  <2>1. d.status[t] = k.status[t]
    BY <1>1, <1>2, <1>7
  <2> QED BY <1>1, <1>5, <1>7, <2>1 DEF TaskFits
<1> QED BY <1>6, <1>7

\* Resuming changes no wait.
LEMMA ResumeWakes ==
  ASSUME NEW W, NEW R, NEW k \in SchedType, NEW rn, Fits(k, rn, NIL),
         NEW ea, WakesFit(k, ea, W, R)
  PROVE  WakesFit(ResumeTop(k), ea, W, R)
<1> DEFINE d == ResumeTop(k)
           u == Top(k.stk)
<1>1. /\ d.waswaiting = k.waswaiting /\ d.waitmask = k.waitmask
      /\ u = NIL => d.status = k.status
      /\ u # NIL => d.status = [k.status EXCEPT ![u] = "RUNNING"]
  BY ResumeFields
<1>2. k.status \in [Tasks -> Statuses] /\ k.stk \in Seq(Tasks)
  BY DEF SchedType
<1>0. u # NIL => In(k.stk, u)
  BY <1>2, TopIn
<1> HIDE DEF d, u
<1> SUFFICES ASSUME NEW t \in Tasks
             PROVE  WakeFits(d.status[t], d.waswaiting[t], ea[t] \cap d.waitmask[t] # {},
                             d.waitmask[t] = {}, t \in W, t \in R)
  BY DEF d, WakesFit
<1>3. WakeFits(k.status[t], k.waswaiting[t], ea[t] \cap k.waitmask[t] # {},
               k.waitmask[t] = {}, t \in W, t \in R)
  BY DEF WakesFit
<1>4. TaskFits(t, k.status[t], t = NIL, In(k.stk, t), Count(k.rq, t), k.waswaiting[t], rn[t])
  BY DEF Fits
<1>5. CASE t = u /\ u # NIL
  <2>1. d.status[t] = "RUNNING" /\ k.status[t] # "WAITING" /\ ~k.waswaiting[t]
    BY <1>0, <1>1, <1>2, <1>4, <1>5 DEF TaskFits
  <2> QED BY <1>1, <1>3, <2>1 DEF WakeFits
<1>6. CASE ~(t = u /\ u # NIL)
  <2>1. d.status[t] = k.status[t]
    BY <1>1, <1>2, <1>6
  <2> QED BY <1>1, <1>3, <2>1 DEF WakeFits
<1> QED BY <1>5, <1>6

\* The switch after the running task has left.
LEMMA SwitchAwayFits ==
  ASSUME NEW k \in SchedType, QLevels(k.rq), NEW rn \in [Tasks -> Int], Fits(k, rn, NIL),
         Distinct(SwitchAway(k).stk)
  PROVE  Fits(SwitchAway(k), rn, Top(SwitchAway(k).stk))
<1>1. CASE Preempts(k)
  BY <1>1, DispatchFits DEF SwitchAway, Preempts
<1>2. CASE ~Preempts(k)
  BY <1>2, ResumeFits DEF SwitchAway
<1> QED BY <1>1, <1>2

\* That switch changes no wait but the one of the task it dispatches.
LEMMA SwitchAwayWakes ==
  ASSUME NEW W, NEW R, NEW k \in SchedType, QLevels(k.rq),
         NEW rn, Fits(k, rn, NIL), NEW ea, WakesFit(k, ea, W, R)
  PROVE  WakesFit(SwitchAway(k), ea, W, R)
<1>1. CASE Preempts(k)
  BY <1>1, DispatchWakes DEF SwitchAway, Preempts
<1>2. CASE ~Preempts(k)
  BY <1>2, ResumeWakes DEF SwitchAway
<1> QED BY <1>1, <1>2

\* The running task, made READY, stays on the stack.
LEMMA PreemptedFits ==
  ASSUME NEW k \in SchedType, NEW rn, Fits(k, rn, Top(k.stk)),
         NEW j \in SchedType,
         j.status = [t \in Tasks |-> IF t = Top(k.stk) THEN "READY" ELSE k.status[t]],
         j.stk = k.stk, j.rq = k.rq, j.waswaiting = k.waswaiting
  PROVE  Fits(j, rn, NIL)
<1> DEFINE u == Top(k.stk)
<1>1. u # NIL => u \in Tasks /\ In(k.stk, u)
  BY TopIn DEF SchedType
<1> SUFFICES ASSUME NEW t \in Tasks
             PROVE  TaskFits(t, j.status[t], FALSE, In(k.stk, t), Count(k.rq, t),
                             k.waswaiting[t], rn[t])
  BY TaskAssumption DEF Fits
<1>2. TaskFits(t, k.status[t], t = u, In(k.stk, t), Count(k.rq, t), k.waswaiting[t], rn[t])
  BY DEF Fits
<1>3. t # NIL
  BY TaskAssumption
<1> HIDE DEF u
<1>4. CASE t = u
  <2>1. j.status[t] = "READY" /\ In(k.stk, t)
    BY <1>1, <1>3, <1>4 DEF u
  <2> QED BY <1>2, <1>4, <2>1 DEF TaskFits
<1>5. CASE t # u
  <2>1. j.status[t] = k.status[t]
    BY <1>5 DEF u
  <2> QED BY <1>2, <1>5, <2>1 DEF TaskFits
<1> QED BY <1>4, <1>5

\* It was not waiting, so no wait changes.
LEMMA PreemptedWakes ==
  ASSUME NEW W, NEW R, NEW k, NEW rn, Fits(k, rn, Top(k.stk)), NEW ea, WakesFit(k, ea, W, R),
         NEW j,
         j.status = [t \in Tasks |-> IF t = Top(k.stk) THEN "READY" ELSE k.status[t]],
         j.waswaiting = k.waswaiting, j.waitmask = k.waitmask
  PROVE  WakesFit(j, ea, W, R)
<1> SUFFICES ASSUME NEW t \in Tasks
             PROVE  WakeFits(j.status[t], j.waswaiting[t], ea[t] \cap j.waitmask[t] # {},
                             j.waitmask[t] = {}, t \in W, t \in R)
  BY DEF WakesFit
<1>1. WakeFits(k.status[t], k.waswaiting[t], ea[t] \cap k.waitmask[t] # {},
               k.waitmask[t] = {}, t \in W, t \in R)
  BY DEF WakesFit
<1>2. TaskFits(t, k.status[t], t = Top(k.stk), In(k.stk, t), Count(k.rq, t), k.waswaiting[t], rn[t])
  BY DEF Fits
<1>3. t = Top(k.stk) => ~k.waswaiting[t]
  BY <1>2 DEF TaskFits
<1>4. j.status[t] = IF t = Top(k.stk) THEN "READY" ELSE k.status[t]
  OBVIOUS
<1>5. CASE t = Top(k.stk)
  <2>1. k.status[t] = "RUNNING"
    BY <1>2, <1>5 DEF TaskFits
  <2> QED BY <1>1, <1>3, <1>4, <1>5, <2>1 DEF WakeFits
<1>6. CASE t # Top(k.stk)
  <2>1. j.status[t] = k.status[t]
    BY <1>4, <1>6
  <2> QED BY <1>1, <2>1
<1> QED BY <1>5, <1>6

\* The preemption at the end of a service or an interrupt.
LEMMA PreemptFits ==
  ASSUME NEW k \in SchedType, QLevels(k.rq), NEW rn \in [Tasks -> Int],
         Fits(k, rn, Top(k.stk)), Distinct(Preempt(k).stk)
  PROVE  Fits(Preempt(k), rn, Top(Preempt(k).stk))
<1> DEFINE j == [k EXCEPT !.status = [t \in Tasks |-> IF t = Top(k.stk) THEN "READY" ELSE @[t]]]
<1>1. /\ j \in SchedType /\ j.stk = k.stk /\ j.rq = k.rq /\ j.waswaiting = k.waswaiting
      /\ j.status = [t \in Tasks |-> IF t = Top(k.stk) THEN "READY" ELSE k.status[t]]
  BY DEF SchedType, Statuses
<1>2. Preempt(k) = IF Preempts(k) THEN DispatchFirst(j) ELSE k
  BY DEF Preempt
<1> HIDE DEF j
<1>3. Fits(j, rn, NIL)
  BY <1>1, PreemptedFits
<1>4. CASE Preempts(k)
  BY <1>1, <1>2, <1>3, <1>4, DispatchFits DEF Preempts
<1>5. CASE ~Preempts(k)
  BY <1>2, <1>5
<1> QED BY <1>4, <1>5

\* It changes no wait but the one of the task it dispatches.
LEMMA PreemptWakes ==
  ASSUME NEW W, NEW R, NEW k \in SchedType, QLevels(k.rq),
         NEW rn, Fits(k, rn, Top(k.stk)), NEW ea, WakesFit(k, ea, W, R)
  PROVE  WakesFit(Preempt(k), ea, W, R)
<1> DEFINE j == [k EXCEPT !.status = [t \in Tasks |-> IF t = Top(k.stk) THEN "READY" ELSE @[t]]]
<1>1. /\ j \in SchedType /\ j.waswaiting = k.waswaiting /\ j.waitmask = k.waitmask
      /\ j.rq = k.rq /\ j.stk = k.stk
      /\ j.status = [t \in Tasks |-> IF t = Top(k.stk) THEN "READY" ELSE k.status[t]]
  BY DEF SchedType, Statuses
<1>2. Preempt(k) = IF Preempts(k) THEN DispatchFirst(j) ELSE k
  BY DEF Preempt
<1> HIDE DEF j
<1>3. WakesFit(j, ea, W, R)
  BY <1>1, PreemptedWakes
<1>4. Fits(j, rn, NIL)
  BY <1>1, PreemptedFits
<1>5. CASE Preempts(k)
  BY <1>1, <1>2, <1>3, <1>4, <1>5, DispatchWakes DEF Preempts
<1>6. CASE ~Preempts(k)
  BY <1>2, <1>6
<1> QED BY <1>5, <1>6

\* A preemption point outside interrupts is a preemption, inside it is nothing.
LEMMA PreemptionPointFits ==
  ASSUME NEW k \in SchedType, QLevels(k.rq), NEW rn \in [Tasks -> Int],
         Fits(k, rn, Top(k.stk)), Distinct(PreemptionPoint(k).stk)
  PROVE  Fits(PreemptionPoint(k), rn, Top(PreemptionPoint(k).stk))
BY PreemptFits DEF PreemptionPoint

\* Likewise for the waits.
LEMMA PreemptionPointWakes ==
  ASSUME NEW W, NEW R, NEW k \in SchedType, QLevels(k.rq),
         NEW rn, Fits(k, rn, Top(k.stk)), NEW ea, WakesFit(k, ea, W, R)
  PROVE  WakesFit(PreemptionPoint(k), ea, W, R)
BY PreemptWakes DEF PreemptionPoint
-----------------------------------------------------------------------------
(* Steps that change one task.                                             *)

\* If the other tasks are as before and u fits, all fit.
LEMMA OthersFit ==
  ASSUME NEW k, NEW rn, NEW run, Fits(k, rn, run), NEW u \in Tasks,
         NEW j, NEW rn2, NEW run2,
         \A t \in Tasks \ {u} :
           /\ j.status[t] = k.status[t] /\ j.waswaiting[t] = k.waswaiting[t]
           /\ In(j.stk, t) <=> In(k.stk, t)
           /\ Count(j.rq, t) = Count(k.rq, t)
           /\ rn2[t] = rn[t]
           /\ t = run2 <=> t = run,
         TaskFits(u, j.status[u], u = run2, In(j.stk, u), Count(j.rq, u), j.waswaiting[u], rn2[u])
  PROVE  Fits(j, rn2, run2)
<1> SUFFICES ASSUME NEW t \in Tasks
             PROVE  TaskFits(t, j.status[t], t = run2, In(j.stk, t), Count(j.rq, t),
                             j.waswaiting[t], rn2[t])
  BY DEF Fits
<1>1. CASE t = u
  BY <1>1
<1>2. CASE t # u
  <2>1. TaskFits(t, k.status[t], t = run, In(k.stk, t), Count(k.rq, t), k.waswaiting[t], rn[t])
    BY DEF Fits
  <2> QED BY <1>2, <2>1 DEF TaskFits
<1> QED BY <1>1, <1>2

\* The same for the waits.
LEMMA OthersWake ==
  ASSUME NEW W, NEW R, NEW k, NEW ea, WakesFit(k, ea, W, R), NEW u \in Tasks, NEW j, NEW ea2,
         \A t \in Tasks \ {u} :
           /\ j.status[t] = k.status[t] /\ j.waswaiting[t] = k.waswaiting[t]
           /\ j.waitmask[t] = k.waitmask[t] /\ ea2[t] = ea[t],
         WakeFits(j.status[u], j.waswaiting[u], ea2[u] \cap j.waitmask[u] # {},
                  j.waitmask[u] = {}, u \in W, u \in R)
  PROVE  WakesFit(j, ea2, W, R)
<1> SUFFICES ASSUME NEW t \in Tasks
             PROVE  WakeFits(j.status[t], j.waswaiting[t], ea2[t] \cap j.waitmask[t] # {},
                             j.waitmask[t] = {}, t \in W, t \in R)
  BY DEF WakesFit
<1>1. CASE t = u
  BY <1>1
<1>2. CASE t # u
  BY <1>2 DEF WakesFit
<1> QED BY <1>1, <1>2

\* A waiting task accepts no activation: it is extended and has only one.
LEMMA WaitingIsFull ==
  ASSUME NEW k \in SchedType, NEW rn \in [Tasks -> Nat], NEW run, Fits(k, rn, run),
         NEW t \in Tasks, rn[t] # 0
  PROVE  k.status[t] # "WAITING"
<1>1. TaskFits(t, k.status[t], t = run, In(k.stk, t), Count(k.rq, t), k.waswaiting[t], rn[t])
  BY DEF Fits
<1>2. Count(k.rq, t) \in Nat /\ rn[t] \in Nat
  BY CountIs DEF SchedType
<1>3. t \in Extended => RnactMax[t] = 1
  BY TaskAssumption
<1> QED BY <1>1, <1>2, <1>3 DEF TaskFits

\* An activation is taken from the task and queued.
LEMMA MakeReadyFits ==
  ASSUME NEW k \in SchedType, NEW rn \in [Tasks -> Int], NEW run, Fits(k, rn, run),
         NEW u \in Tasks, k.status[u] # "WAITING"
  PROVE  Fits(MakeReady(k, u), [rn EXCEPT ![u] = @ - 1], run)
<1> DEFINE j == MakeReady(k, u)
           rn2 == [rn EXCEPT ![u] = @ - 1]
<1>1. /\ j.status = [k.status EXCEPT ![u] = IF @ = "SUSPENDED" THEN "READY" ELSE @]
      /\ j.rq = RqInsert(k.rq, u) /\ j.stk = k.stk /\ j.waswaiting = k.waswaiting
  BY DEF MakeReady, SchedType
<1>2. k.status \in [Tasks -> Statuses] /\ k.rq \in Queues
  BY DEF SchedType
<1>3. \A t \in Tasks : /\ Count(k.rq, t) \in Nat
                       /\ Count(j.rq, t) = Count(k.rq, t) + IF t = u THEN 1 ELSE 0
  BY <1>1, <1>2, CountIs, CountInsert
<1> HIDE DEF j
<1>4. \A t \in Tasks \ {u} :
        /\ j.status[t] = k.status[t] /\ j.waswaiting[t] = k.waswaiting[t]
        /\ In(j.stk, t) <=> In(k.stk, t)
        /\ Count(j.rq, t) = Count(k.rq, t)
        /\ rn2[t] = rn[t]
  BY <1>1, <1>2, <1>3
<1>5. TaskFits(u, j.status[u], u = run, In(j.stk, u), Count(j.rq, u), j.waswaiting[u], rn2[u])
  <2>1. TaskFits(u, k.status[u], u = run, In(k.stk, u), Count(k.rq, u), k.waswaiting[u], rn[u])
    BY DEF Fits
  <2>2. j.status[u] = IF k.status[u] = "SUSPENDED" THEN "READY" ELSE k.status[u]
    BY <1>1, <1>2
  <2>3. k.status[u] \in {"SUSPENDED", "READY", "RUNNING"}
    BY <1>2 DEF Statuses
  <2>4. rn2[u] = rn[u] - 1 /\ rn[u] \in Int /\ RnactMax[u] \in Int
    BY TaskAssumption
  <2>5. Count(j.rq, u) = Count(k.rq, u) + 1 /\ Count(k.rq, u) \in Nat
    BY <1>3
  <2>6. RnactMax[u] = rn2[u] + Count(j.rq, u) + IF In(k.stk, u) \/ j.status[u] = "WAITING" THEN 1 ELSE 0
    BY <2>1, <2>2, <2>3, <2>4, <2>5 DEF TaskFits
  <2>7. Count(j.rq, u) # 0
    BY <2>5
  <2> HIDE DEF rn2
  <2> QED BY <1>1, <2>1, <2>2, <2>3, <2>6, <2>7 DEF TaskFits
<1> HIDE DEF rn2
<1>6. Fits(j, rn2, run)
  BY <1>4, <1>5, OthersFit
<1> QED BY <1>6 DEF j, rn2

\* A new instance has no event and waits for none.
LEMMA MakeReadyWakes ==
  ASSUME NEW W, NEW R, NEW k \in SchedType, NEW rn, NEW run, Fits(k, rn, run),
         NEW u \in Tasks, StateTypes, WakesFit(k, event_active, W, R)
  PROVE  WakesFit(MakeReady(k, u), ClearEventsOf(k.status, u), W, R)
<1> DEFINE j == MakeReady(k, u)
           ea == ClearEventsOf(k.status, u)
<1>1. /\ j.status = [k.status EXCEPT ![u] = IF @ = "SUSPENDED" THEN "READY" ELSE @]
      /\ j.waitmask = k.waitmask /\ j.waswaiting = k.waswaiting
  BY DEF MakeReady, SchedType
<1>2. k.status \in [Tasks -> Statuses] /\ event_active \in [Tasks -> SUBSET Events]
  BY DEF SchedType, StateTypes
<1>3. ea = IF k.status[u] = "SUSPENDED" THEN [event_active EXCEPT ![u] = {}] ELSE event_active
  BY DEF ClearEventsOf
<1> HIDE DEF j, ea
<1>4. \A t \in Tasks \ {u} :
        /\ j.status[t] = k.status[t] /\ j.waswaiting[t] = k.waswaiting[t]
        /\ j.waitmask[t] = k.waitmask[t] /\ ea[t] = event_active[t]
  BY <1>1, <1>2, <1>3
<1>5. WakeFits(j.status[u], j.waswaiting[u], ea[u] \cap j.waitmask[u] # {},
               j.waitmask[u] = {}, u \in W, u \in R)
  <2>1. TaskFits(u, k.status[u], u = run, In(k.stk, u), Count(k.rq, u), k.waswaiting[u], rn[u])
    BY DEF Fits
  <2>2. WakeFits(k.status[u], k.waswaiting[u], event_active[u] \cap k.waitmask[u] # {},
                 k.waitmask[u] = {}, u \in W, u \in R)
    BY DEF WakesFit
  <2>3. CASE k.status[u] = "SUSPENDED"
    <3>1. j.status[u] = "READY" /\ ~j.waswaiting[u]
      BY <1>1, <1>2, <2>1, <2>3 DEF TaskFits
    <3> QED BY <1>1, <2>2, <2>3, <3>1 DEF WakeFits
  <2>4. CASE k.status[u] # "SUSPENDED"
    <3>1. j.status[u] = k.status[u] /\ ea[u] = event_active[u]
      BY <1>1, <1>2, <1>3, <2>4
    <3> QED BY <1>1, <2>2, <3>1
  <2> QED BY <2>3, <2>4
<1>6. WakesFit(j, ea, W, R)
  BY <1>4, <1>5, OthersWake
<1> QED BY <1>6 DEF j, ea

\* What leaving the stack does to each field.
LEMMA LeaveFields ==
  ASSUME NEW k \in SchedType, NEW st \in Statuses, NEW c \in SUBSET Levels, current \in Tasks
  PROVE  /\ LeaveStack(k, st, c).status = [k.status EXCEPT ![current] = st]
         /\ LeaveStack(k, st, c).stk = Pop(k.stk)
         /\ LeaveStack(k, st, c).rq = k.rq
         /\ LeaveStack(k, st, c).waswaiting = k.waswaiting
         /\ LeaveStack(k, st, c).waitmask = k.waitmask
BY DEF LeaveStack, SchedType

\* The running task is on the stack, and gone from it when it leaves.
LEMMA LeaveIn ==
  ASSUME NEW k \in SchedType, k.stk # <<>>, k.stk[Len(k.stk)] = current, Distinct(k.stk)
  PROVE  /\ In(k.stk, current) /\ ~In(Pop(k.stk), current)
         /\ \A t \in Tasks \ {current} : In(Pop(k.stk), t) <=> In(k.stk, t)
<1>1. k.stk \in Seq(Tasks)
  BY DEF SchedType
<1> QED BY <1>1, InPop

\* The running task ends its instance: it is SUSPENDED, or READY when another
\* activation of it is queued.
LEMMA EndedFits ==
  ASSUME NEW k \in SchedType, NEW rn \in [Tasks -> Int], Fits(k, rn, current),
         current \in Tasks, k.stk # <<>>, k.stk[Len(k.stk)] = current, Distinct(k.stk),
         NEW c \in SUBSET Levels, NEW st \in Statuses,
         st = IF rn[current] + 1 = RnactMax[current] THEN "SUSPENDED" ELSE "READY"
  PROVE  Fits(LeaveStack(k, st, c), [rn EXCEPT ![current] = @ + 1], NIL)
<1> DEFINE j == LeaveStack(k, st, c)
           rn2 == [rn EXCEPT ![current] = @ + 1]
<1>1. /\ j.status = [k.status EXCEPT ![current] = st]
      /\ j.stk = Pop(k.stk) /\ j.rq = k.rq /\ j.waswaiting = k.waswaiting
      /\ In(k.stk, current) /\ ~In(Pop(k.stk), current)
      /\ \A t \in Tasks \ {current} : In(Pop(k.stk), t) <=> In(k.stk, t)
  BY LeaveFields, LeaveIn
<1>2. k.status \in [Tasks -> Statuses] /\ \A t \in Tasks : Count(k.rq, t) \in Nat
  BY CountIs DEF SchedType
<1> HIDE DEF j
<1>3. \A t \in Tasks \ {current} :
        /\ j.status[t] = k.status[t] /\ j.waswaiting[t] = k.waswaiting[t]
        /\ In(j.stk, t) <=> In(k.stk, t)
        /\ Count(j.rq, t) = Count(k.rq, t)
        /\ rn2[t] = rn[t]
        /\ t = NIL <=> t = current
  BY <1>1, <1>2, TaskAssumption
<1>4. TaskFits(current, j.status[current], current = NIL, In(j.stk, current), Count(j.rq, current),
               j.waswaiting[current], rn2[current])
  <2>1. TaskFits(current, k.status[current], TRUE, In(k.stk, current), Count(k.rq, current),
                 k.waswaiting[current], rn[current])
    BY DEF Fits
  <2>2. RnactMax[current] = rn[current] + Count(k.rq, current) + 1 /\ ~k.waswaiting[current]
    BY <1>1, <2>1 DEF TaskFits
  <2>3. rn2[current] = rn[current] + 1 /\ rn[current] \in Int /\ RnactMax[current] \in Int
    BY TaskAssumption
  <2>4. \/ st = "SUSPENDED" /\ Count(k.rq, current) = 0
        \/ st = "READY" /\ Count(k.rq, current) # 0
    BY <1>2, <2>2, <2>3
  <2>5. RnactMax[current] = rn2[current] + Count(k.rq, current)
    BY <1>2, <2>2, <2>3
  <2>6. j.status[current] = st /\ current # NIL
    BY <1>1, <1>2, TaskAssumption
  <2>7. rn2[current] \in Int /\ Count(k.rq, current) \in Int
    BY <1>2, <2>3
  <2> HIDE DEF rn2
  <2>8. RnactMax[current] = rn2[current] + Count(k.rq, current) + 0
    BY <2>5, <2>7
  <2> QED BY <1>1, <2>2, <2>4, <2>6, <2>8 DEF TaskFits
<1> HIDE DEF rn2
<1>5. Fits(j, rn2, NIL)
  BY <1>3, <1>4, OthersFit
<1> QED BY <1>5 DEF j, rn2

\* It waited for nothing.
LEMMA EndedWakes ==
  ASSUME NEW W, NEW R, NEW k \in SchedType, NEW rn, Fits(k, rn, current), NEW ea, WakesFit(k, ea, W, R),
         current \in Tasks, k.stk # <<>>, k.stk[Len(k.stk)] = current, Distinct(k.stk),
         NEW c \in SUBSET Levels, NEW st \in Statuses, st # "WAITING"
  PROVE  WakesFit(LeaveStack(k, st, c), ea, W, R)
<1> DEFINE j == LeaveStack(k, st, c)
<1>1. /\ j.status = [k.status EXCEPT ![current] = st]
      /\ j.waswaiting = k.waswaiting /\ j.waitmask = k.waitmask
      /\ In(k.stk, current)
  BY LeaveFields, LeaveIn
<1>2. k.status \in [Tasks -> Statuses]
  BY DEF SchedType
<1> HIDE DEF j
<1>3. \A t \in Tasks \ {current} :
        /\ j.status[t] = k.status[t] /\ j.waswaiting[t] = k.waswaiting[t]
        /\ j.waitmask[t] = k.waitmask[t]
  BY <1>1, <1>2
<1>4. WakeFits(j.status[current], j.waswaiting[current], ea[current] \cap j.waitmask[current] # {},
               j.waitmask[current] = {}, current \in W, current \in R)
  <2>1. TaskFits(current, k.status[current], TRUE, In(k.stk, current), Count(k.rq, current),
                 k.waswaiting[current], rn[current])
    BY DEF Fits
  <2>2. ~j.waswaiting[current] /\ j.status[current] # "WAITING"
    BY <1>1, <1>2, <2>1 DEF TaskFits
  <2>3. k.status[current] = "RUNNING"
    BY <2>1 DEF TaskFits
  <2>4. WakeFits(k.status[current], k.waswaiting[current], ea[current] \cap k.waitmask[current] # {},
                 k.waitmask[current] = {}, current \in W, current \in R)
    BY DEF WakesFit
  <2> QED BY <1>1, <2>2, <2>3, <2>4 DEF WakeFits
<1>5. WakesFit(j, ea, W, R)
  BY <1>3, <1>4, OthersWake
<1> QED BY <1>5 DEF j
\* A task that chains to itself leaves the stack and is queued behind the
\* activations it already had: it is READY whether it had any or not.
LEMMA ChainedToItselfFits ==
  ASSUME NEW k \in SchedType, NEW rn \in [Tasks -> Int], Fits(k, rn, current),
         current \in Tasks, k.stk # <<>>, k.stk[Len(k.stk)] = current, Distinct(k.stk),
         NEW c \in SUBSET Levels
  PROVE  Fits(MakeReady(LeaveStack(k, "SUSPENDED", c), current), rn, NIL)
<1> DEFINE i == LeaveStack(k, "SUSPENDED", c)
           j == MakeReady(i, current)
<1>1. /\ i.status = [k.status EXCEPT ![current] = "SUSPENDED"]
      /\ i.stk = Pop(k.stk) /\ i.rq = k.rq /\ i.waswaiting = k.waswaiting
      /\ In(k.stk, current) /\ ~In(Pop(k.stk), current)
      /\ \A t \in Tasks \ {current} : In(Pop(k.stk), t) <=> In(k.stk, t)
  BY LeaveFields, LeaveIn DEF Statuses
<1>2. k.status \in [Tasks -> Statuses] /\ k.rq \in Queues
  BY DEF SchedType
<1>3. i \in SchedType
  BY LeaveStackTyped DEF Statuses
<1>4. /\ j.status = [i.status EXCEPT ![current] = IF @ = "SUSPENDED" THEN "READY" ELSE @]
      /\ j.rq = RqInsert(i.rq, current) /\ j.stk = i.stk /\ j.waswaiting = i.waswaiting
  BY <1>3 DEF MakeReady, SchedType
<1>5. \A t \in Tasks : /\ Count(k.rq, t) \in Nat
                       /\ Count(j.rq, t) = Count(k.rq, t) + IF t = current THEN 1 ELSE 0
  BY <1>1, <1>2, <1>4, CountIs, CountInsert
<1> HIDE DEF i, j
<1>6. \A t \in Tasks \ {current} :
        /\ j.status[t] = k.status[t] /\ j.waswaiting[t] = k.waswaiting[t]
        /\ In(j.stk, t) <=> In(k.stk, t)
        /\ Count(j.rq, t) = Count(k.rq, t)
        /\ rn[t] = rn[t]
        /\ t = NIL <=> t = current
  BY <1>1, <1>2, <1>4, <1>5, TaskAssumption
<1>7. TaskFits(current, j.status[current], current = NIL, In(j.stk, current), Count(j.rq, current),
               j.waswaiting[current], rn[current])
  <2>1. TaskFits(current, k.status[current], TRUE, In(k.stk, current), Count(k.rq, current),
                 k.waswaiting[current], rn[current])
    BY DEF Fits
  <2>2. RnactMax[current] = rn[current] + Count(k.rq, current) + 1 /\ ~k.waswaiting[current]
    BY <1>1, <2>1 DEF TaskFits
  <2>3. rn[current] \in Int /\ Count(k.rq, current) \in Nat
        /\ Count(j.rq, current) = Count(k.rq, current) + 1
    BY <1>5
  <2>4. RnactMax[current] = rn[current] + Count(j.rq, current) + 0 /\ Count(j.rq, current) # 0
    BY <2>2, <2>3
  <2>5. j.status[current] = "READY" /\ current # NIL
    BY <1>1, <1>2, <1>4, TaskAssumption
  <2>6. ~In(j.stk, current) /\ ~j.waswaiting[current]
    BY <1>1, <1>4, <2>2
  <2> QED BY <2>4, <2>5, <2>6 DEF TaskFits
<1>8. Fits(j, rn, NIL)
  BY <1>6, <1>7, OthersFit
<1> QED BY <1>8 DEF j, i

\* A task blocks in WaitEvent: it keeps its activation while it waits.
LEMMA BlockedFits ==
  ASSUME NEW k \in SchedType, NEW rn \in [Tasks -> Nat], Fits(k, rn, current),
         current \in Extended, k.stk # <<>>, k.stk[Len(k.stk)] = current, Distinct(k.stk)
  PROVE  Fits(Block(k), rn, NIL)
<1> DEFINE i == LeaveStack(k, "WAITING", k.ceiling)
           j == Block(k)
<1>0. /\ current \in Tasks /\ current # NIL /\ RnactMax[current] = 1
      /\ k.ceiling \in SUBSET Levels /\ "WAITING" \in Statuses
  BY TaskAssumption DEF SchedType, Statuses
<1>1. /\ i.status = [k.status EXCEPT ![current] = "WAITING"]
      /\ i.stk = Pop(k.stk) /\ i.rq = k.rq /\ i.waswaiting = k.waswaiting
      /\ In(k.stk, current) /\ ~In(Pop(k.stk), current)
      /\ \A t \in Tasks \ {current} : In(Pop(k.stk), t) <=> In(k.stk, t)
  BY <1>0, LeaveFields, LeaveIn
<1>2. /\ k.status \in [Tasks -> Statuses] /\ k.waswaiting \in [Tasks -> BOOLEAN]
      /\ \A t \in Tasks : Count(k.rq, t) \in Nat
  BY CountIs DEF SchedType
<1>3. i \in SchedType
  BY <1>0, LeaveStackTyped DEF SchedType, Statuses
<1>4. /\ j.status = i.status /\ j.rq = i.rq /\ j.stk = i.stk
      /\ j.waswaiting = [i.waswaiting EXCEPT ![current] = TRUE]
  BY <1>3 DEF Block, SchedType
<1> HIDE DEF i, j
<1>5. \A t \in Tasks \ {current} :
        /\ j.status[t] = k.status[t] /\ j.waswaiting[t] = k.waswaiting[t]
        /\ In(j.stk, t) <=> In(k.stk, t)
        /\ Count(j.rq, t) = Count(k.rq, t)
        /\ rn[t] = rn[t]
        /\ t = NIL <=> t = current
  BY <1>1, <1>2, <1>4, TaskAssumption
<1>6. TaskFits(current, j.status[current], current = NIL, In(j.stk, current), Count(j.rq, current),
               j.waswaiting[current], rn[current])
  <2>1. TaskFits(current, k.status[current], TRUE, In(k.stk, current), Count(k.rq, current),
                 k.waswaiting[current], rn[current])
    BY <1>0 DEF Fits
  <2>2. RnactMax[current] = rn[current] + Count(k.rq, current) + 1
    BY <1>1, <2>1 DEF TaskFits
  <2>3. rn[current] \in Nat /\ Count(k.rq, current) \in Nat
    BY <1>0, <1>2
  <2>4. Count(k.rq, current) = 0
    BY <1>0, <2>2, <2>3
  <2>5. j.status[current] = "WAITING" /\ j.waswaiting[current] /\ ~In(j.stk, current)
        /\ Count(j.rq, current) = Count(k.rq, current)
    BY <1>0, <1>1, <1>2, <1>4
  <2> QED BY <1>0, <2>2, <2>4, <2>5 DEF TaskFits
<1>7. Fits(j, rn, NIL)
  BY <1>0, <1>5, <1>6, OthersFit
<1> QED BY <1>7 DEF j

\* No event of the mask was active.
LEMMA BlockedWakes ==
  ASSUME NEW W, NEW R, NEW k \in SchedType, NEW rn, Fits(k, rn, current),
         NEW ea, WakesFit(k, ea, W, R),
         current \in Tasks, k.stk # <<>>, k.stk[Len(k.stk)] = current, Distinct(k.stk),
         NEW mask \in (SUBSET Events) \ {{}}, ea[current] \cap mask = {}
  PROVE  WakesFit(Block([k EXCEPT !.waitmask[current] = mask]), ea, W, R)
<1> DEFINE m == [k EXCEPT !.waitmask[current] = mask]
           i == LeaveStack(m, "WAITING", m.ceiling)
           j == Block(m)
<1>1. /\ m \in SchedType /\ m.stk = k.stk /\ m.status = k.status /\ m.waswaiting = k.waswaiting
      /\ m.waitmask = [k.waitmask EXCEPT ![current] = mask]
  BY DEF SchedType
<1> HIDE DEF m
<1>2. /\ i.status = [m.status EXCEPT ![current] = "WAITING"]
      /\ i.waswaiting = m.waswaiting /\ i.waitmask = m.waitmask
  <2>1. m.ceiling \in SUBSET Levels /\ "WAITING" \in Statuses
    BY <1>1 DEF SchedType, Statuses
  <2> QED BY <1>1, <2>1, LeaveFields
<1>3. i \in SchedType
  BY <1>1, LeaveStackTyped DEF SchedType, Statuses
<1>4. /\ j.status = i.status /\ j.waitmask = i.waitmask
      /\ j.waswaiting = [i.waswaiting EXCEPT ![current] = TRUE]
  BY <1>3 DEF Block, SchedType
<1>5. /\ k.status \in [Tasks -> Statuses] /\ k.waswaiting \in [Tasks -> BOOLEAN]
      /\ k.waitmask \in [Tasks -> SUBSET Events]
  BY DEF SchedType
<1> HIDE DEF i, j
<1>6. \A t \in Tasks \ {current} :
        /\ j.status[t] = k.status[t] /\ j.waswaiting[t] = k.waswaiting[t]
        /\ j.waitmask[t] = k.waitmask[t]
  BY <1>1, <1>2, <1>4, <1>5
<1>7. WakeFits(j.status[current], j.waswaiting[current], ea[current] \cap j.waitmask[current] # {},
               j.waitmask[current] = {}, current \in W, current \in R)
  <2>1. j.status[current] = "WAITING" /\ j.waitmask[current] = mask
    BY <1>1, <1>2, <1>4, <1>5
  <2>2. j.waswaiting[current] = TRUE
    BY <1>1, <1>2, <1>4, <1>5
  <2>3. k.status[current] = "RUNNING"
    BY DEF Fits, TaskFits
  <2>4. current \notin W
    BY <2>3 DEF WakesFit, WakeFits
  <2> QED BY <2>1, <2>2, <2>4 DEF WakeFits
<1>8. WakesFit(j, ea, W, R)
  BY <1>6, <1>7, OthersWake
<1> QED BY <1>8 DEF j, m

\* A waiting task gets an event: it is queued with the activation it kept.
LEMMA WokenFits ==
  ASSUME NEW k \in SchedType, NEW rn \in [Tasks -> Int], NEW run, Fits(k, rn, run),
         NEW u \in Tasks, k.status[u] = "WAITING",
         NEW j \in SchedType,
         j.status = [k.status EXCEPT ![u] = "READY"], j.rq = RqInsert(k.rq, u),
         j.stk = k.stk, j.waswaiting = k.waswaiting
  PROVE  Fits(j, rn, run)
<1>1. /\ j.status = [k.status EXCEPT ![u] = "READY"]
      /\ j.rq = RqInsert(k.rq, u) /\ j.stk = k.stk /\ j.waswaiting = k.waswaiting
  OBVIOUS
<1>2. k.status \in [Tasks -> Statuses] /\ k.rq \in Queues
  BY DEF SchedType
<1>3. \A t \in Tasks : /\ Count(k.rq, t) \in Nat
                       /\ Count(j.rq, t) = Count(k.rq, t) + IF t = u THEN 1 ELSE 0
  BY <1>1, <1>2, CountIs, CountInsert
<1>4. \A t \in Tasks \ {u} :
        /\ j.status[t] = k.status[t] /\ j.waswaiting[t] = k.waswaiting[t]
        /\ In(j.stk, t) <=> In(k.stk, t)
        /\ Count(j.rq, t) = Count(k.rq, t)
  BY <1>1, <1>2, <1>3
<1>5. TaskFits(u, j.status[u], u = run, In(j.stk, u), Count(j.rq, u), j.waswaiting[u], rn[u])
  <2>1. TaskFits(u, k.status[u], u = run, In(k.stk, u), Count(k.rq, u), k.waswaiting[u], rn[u])
    BY DEF Fits
  <2>2. j.status[u] = "READY" /\ Count(j.rq, u) = Count(k.rq, u) + 1 /\ Count(k.rq, u) \in Nat
    BY <1>1, <1>2, <1>3
  <2>3. rn[u] \in Int /\ ~In(k.stk, u) /\ u # run /\ RnactMax[u] = rn[u] + Count(k.rq, u) + 1
    BY <2>1 DEF TaskFits
  <2>4. RnactMax[u] = rn[u] + Count(j.rq, u) + 0 /\ Count(j.rq, u) # 0
    BY <2>2, <2>3
  <2> QED BY <1>1, <2>1, <2>2, <2>3, <2>4 DEF TaskFits
<1> SUFFICES ASSUME NEW t \in Tasks
             PROVE  TaskFits(t, j.status[t], t = run, In(j.stk, t), Count(j.rq, t),
                             j.waswaiting[t], rn[t])
  BY DEF Fits
<1>6. TaskFits(t, k.status[t], t = run, In(k.stk, t), Count(k.rq, t), k.waswaiting[t], rn[t])
  BY DEF Fits
<1>7. CASE t = u
  BY <1>5, <1>7
<1>8. CASE t # u
  <2>1. /\ j.status[t] = k.status[t] /\ j.waswaiting[t] = k.waswaiting[t]
        /\ In(j.stk, t) <=> In(k.stk, t)
        /\ Count(j.rq, t) = Count(k.rq, t)
    BY <1>4, <1>8
  <2> QED BY <1>6, <2>1 DEF TaskFits
<1> QED BY <1>7, <1>8
-----------------------------------------------------------------------------
(* The inductive invariant, beside KernelInv.                              *)

StatusInv(W, R) ==
  /\ Fits(Now, th_rnact, current)
  /\ WakesFit(Now, event_active, W, R)
  /\ \A t \in MissingEnd : th_nextask[t] = NIL

\* The scheduler's record, as the lemmas on steps want it.
LEMMA NowIs ==
  ASSUME KernelInv
  PROVE  /\ Now \in SchedType /\ QLevels(Now.rq) /\ Distinct(Now.stk)
         /\ Top(Now.stk) = current
         /\ th_rnact \in [Tasks -> Nat] /\ th_rnact \in [Tasks -> Int]
         /\ current # NIL => current \in Tasks /\ Now.stk # <<>> /\ Now.stk[Len(Now.stk)] = current
<1>1. Now.stk = stk /\ Now.rq = rq /\ Good(Now, held, oldceiling)
  BY NowGood
<1>2. Now \in SchedType /\ QLevels(rq)
  BY <1>1 DEF Good
<1>3. Distinct(stk)
  BY <1>1, GoodSets, StackDistinct DEF Good, Distinct
<1>4. th_rnact \in [Tasks -> Nat]
  BY DEF KernelInv, TypeInv, StateTypes
<1> QED BY <1>1, <1>2, <1>3, <1>4, TopOfStack DEF current

\* The stack of the next state names no task twice.
LEMMA NextDistinct ==
  ASSUME KernelInv', NEW k, Become(k)
  PROVE  Distinct(k.stk)
<1>1. Sets(sys_ceiling', stk', inSchedule', held', oldceiling')
  BY DEF KernelInv, TypeInv, StateTypes, Sets
<1>2. Stack(sys_ceiling', stk', inSchedule', held', oldceiling')
  BY DEF KernelInv
<1>3. Distinct(stk')
  BY <1>1, <1>2, StackDistinct DEF Distinct
<1> QED BY <1>3 DEF Become

\* A step that leaves the scheduling state k.
LEMMA BecomeFits ==
  ASSUME NEW W, NEW R, NEW k \in SchedType, Become(k), Fits(k, th_rnact', Top(k.stk)),
         WakesFit(k, event_active', W, R), \A t \in MissingEnd : th_nextask'[t] = NIL
  PROVE  StatusInv(W, R)'
<1>1. /\ Now'.status = k.status /\ Now'.stk = k.stk /\ Now'.rq = k.rq
      /\ Now'.waswaiting = k.waswaiting /\ Now'.waitmask = k.waitmask
      /\ current' = Top(k.stk)
  BY DEF Now, Become, current, Top
<1>2. Fits(Now, th_rnact, current)'
  BY <1>1 DEF Fits
<1>3. WakesFit(Now, event_active, W, R)'
  BY <1>1 DEF WakesFit
<1> QED BY <1>2, <1>3 DEF StatusInv

\* A step that leaves statuses, queues, stack and events alone.
LEMMA SameFits ==
  ASSUME NEW W, NEW R, StatusInv(W, R),
         UNCHANGED <<th_status, th_rnact, th_nextask, stk, rq, event_active, event_waitmask, waswaiting>>
  PROVE  StatusInv(W, R)'
<1>1. /\ Now'.status = Now.status /\ Now'.stk = Now.stk /\ Now'.rq = Now.rq
      /\ Now'.waswaiting = Now.waswaiting /\ Now'.waitmask = Now.waitmask
      /\ current' = current
  BY DEF Now, current, Top
<1>2. Fits(Now, th_rnact, current)'
  BY <1>1 DEF Fits, StatusInv
<1>3. WakesFit(Now, event_active, W, R)'
  BY <1>1 DEF WakesFit, StatusInv
<1> QED BY <1>2, <1>3 DEF StatusInv

\* A rejected call changes nothing.
LEMMA RejectFits ==
  ASSUME NEW W, NEW R, StatusInv(W, R), NEW e, Reject(e)
  PROVE  StatusInv(W, R)'
BY SameFits DEF Reject, kernelVars, taskVars, schedVars, eventVars

\* A preemption point, of a state that fits while its top task runs.
LEMMA PointFits ==
  ASSUME NEW W, NEW R, KernelInv', NEW k \in SchedType, QLevels(k.rq), th_rnact' \in [Tasks -> Int],
         Fits(k, th_rnact', Top(k.stk)), WakesFit(k, event_active', W, R),
         Become(PreemptionPoint(k)), \A t \in MissingEnd : th_nextask'[t] = NIL
  PROVE  StatusInv(W, R)'
<1>1. PreemptionPoint(k) \in SchedType
  BY PreemptTyped
<1>2. Distinct(PreemptionPoint(k).stk)
  BY NextDistinct
<1>3. Fits(PreemptionPoint(k), th_rnact', Top(PreemptionPoint(k).stk))
  BY <1>2, PreemptionPointFits
<1>4. WakesFit(PreemptionPoint(k), event_active', W, R)
  BY PreemptionPointWakes
<1> QED BY <1>1, <1>3, <1>4, BecomeFits

\* A switch away, of a state in which no task runs.
LEMMA AwayFits ==
  ASSUME NEW W, NEW R, KernelInv', NEW k \in SchedType, QLevels(k.rq), th_rnact' \in [Tasks -> Int],
         Fits(k, th_rnact', NIL), WakesFit(k, event_active', W, R),
         Become(SwitchAway(k)), \A t \in MissingEnd : th_nextask'[t] = NIL
  PROVE  StatusInv(W, R)'
<1>1. SwitchAway(k) \in SchedType
  BY SwitchAwayTyped
<1>2. Distinct(SwitchAway(k).stk)
  BY NextDistinct
<1>3. Fits(SwitchAway(k), th_rnact', Top(SwitchAway(k).stk))
  BY <1>2, SwitchAwayFits
<1>4. WakesFit(SwitchAway(k), event_active', W, R)
  BY SwitchAwayWakes
<1> QED BY <1>1, <1>3, <1>4, BecomeFits

\* Readying a task leaves every task queued at its level.
LEMMA MakeReadyLevels ==
  ASSUME NEW k \in SchedType, QLevels(k.rq), NEW u \in Tasks
  PROVE  QLevels(MakeReady(k, u).rq) /\ MakeReady(k, u).stk = k.stk
<1>1. MakeReady(k, u).rq = RqInsert(k.rq, u) /\ MakeReady(k, u).stk = k.stk /\ k.rq \in Queues
  BY DEF MakeReady, SchedType
<1> QED BY <1>1, InsertLevels

\* An activation accepted is taken from the count and queued.
LEMMA ActivateFits ==
  ASSUME NEW W, NEW R, KernelInv, StatusInv(W, R), KernelInv', NEW id, ActivateTask(id)
  PROVE  StatusInv(W, R)'
<1>1. CASE Reject(ActivateError(id))
  BY <1>1, RejectFits
<1>2. CASE /\ Accept(ActivateError(id))
           /\ th_rnact' = [th_rnact EXCEPT ![id] = @ - 1]
           /\ event_active' = ClearEventsOf(th_status, id)
           /\ Become(PreemptionPoint(MakeReady(Now, id)))
           /\ UNCHANGED <<oo_started, irq, th_nextask, resVars>>
  <2> DEFINE k == MakeReady(Now, id)
  <2>1. id \in Tasks /\ th_rnact[id] # 0
    BY <1>2 DEF Accept, ActivateError
  <2>2. /\ Now \in SchedType /\ QLevels(Now.rq) /\ Top(Now.stk) = current
        /\ th_rnact \in [Tasks -> Nat] /\ th_rnact \in [Tasks -> Int]
    BY NowIs
  <2>3. Fits(Now, th_rnact, current) /\ WakesFit(Now, event_active, W, R)
    BY DEF StatusInv
  <2>4. Now.status[id] # "WAITING"
    BY <2>1, <2>2, <2>3, WaitingIsFull
  <2>5. k \in SchedType /\ QLevels(k.rq) /\ Top(k.stk) = current
    BY <2>1, <2>2, MakeReadyTyped, MakeReadyLevels
  <2>6. Fits(k, th_rnact', current)
    BY <1>2, <2>1, <2>2, <2>3, <2>4, MakeReadyFits
  <2>7. WakesFit(k, event_active', W, R)
    <3>1. event_active' = ClearEventsOf(Now.status, id) /\ StateTypes
      BY <1>2 DEF Now, KernelInv, TypeInv
    <3> QED BY <2>1, <2>2, <2>3, <3>1, MakeReadyWakes
  <2>8. th_rnact' \in [Tasks -> Int]
    <3>1. th_rnact[id] - 1 \in Int
      BY <2>1, <2>2
    <3> QED BY <1>2, <2>2, <3>1
  <2>9. Become(PreemptionPoint(k)) /\ \A t \in MissingEnd : th_nextask'[t] = NIL
    BY <1>2 DEF StatusInv
  <2> HIDE DEF k
  <2> QED BY <2>5, <2>6, <2>7, <2>8, <2>9, PointFits
<1> QED BY <1>1, <1>2 DEF ActivateTask

\* The end of an instance: rn is the count after the activation of the task
\* chained to, if any, has been taken.
LEMMA EndInstanceFits ==
  ASSUME NEW W, NEW R, KernelInv, StatusInv(W, R), KernelInv', current # NIL,
         NEW next \in Tasks \cup {NIL}, NEW rn, NEW c \in SUBSET Levels,
         rn = IF next = NIL THEN th_rnact ELSE [th_rnact EXCEPT ![next] = @ - 1],
         next # NIL /\ next # current => th_rnact[next] # 0,
         EndInstance(rn, c, next), \A t \in MissingEnd : th_nextask'[t] = NIL
  PROVE  StatusInv(W, R)'
<1> DEFINE st == IF rn[current] + 1 = RnactMax[current] \/ current = next
                 THEN "SUSPENDED" ELSE "READY"
           k1 == LeaveStack(Now, st, c)
           k2 == IF next = NIL THEN k1 ELSE MakeReady(k1, next)
<1>1. /\ Now \in SchedType /\ QLevels(Now.rq) /\ Distinct(Now.stk)
      /\ th_rnact \in [Tasks -> Nat] /\ th_rnact \in [Tasks -> Int]
      /\ current \in Tasks /\ Now.stk # <<>> /\ Now.stk[Len(Now.stk)] = current
      /\ StateTypes /\ NIL \notin Tasks
  BY NowIs, TaskAssumption DEF KernelInv, TypeInv
<1>2. Fits(Now, th_rnact, current) /\ WakesFit(Now, event_active, W, R)
  BY DEF StatusInv
<1>3. /\ th_rnact' = [rn EXCEPT ![current] = rn[current] + 1]
      /\ event_active' = IF next = NIL THEN event_active ELSE ClearEventsOf(k1.status, next)
      /\ Become(SwitchAway(k2))
  BY DEF EndInstance
<1>4. st \in Statuses /\ st # "WAITING"
  BY DEF Statuses
<1> HIDE DEF st
<1>5. /\ k1 \in SchedType /\ k1.status = [Now.status EXCEPT ![current] = st] /\ k1.rq = Now.rq
      /\ Now.status \in [Tasks -> Statuses]
  <2>1. k1 \in SchedType
    BY <1>1, <1>4, LeaveStackTyped
  <2>2. k1.status = [Now.status EXCEPT ![current] = st] /\ k1.rq = Now.rq
    BY <1>1, <1>4, LeaveFields
  <2> QED BY <1>1, <2>1, <2>2 DEF SchedType
<1>6. WakesFit(k1, event_active, W, R)
  BY <1>1, <1>2, <1>4, EndedWakes
<1>7. CASE next = NIL
  <2>1. st = IF th_rnact[current] + 1 = RnactMax[current] THEN "SUSPENDED" ELSE "READY"
    BY <1>1, <1>7 DEF st
  <2>2. th_rnact' = [th_rnact EXCEPT ![current] = @ + 1] /\ th_rnact' \in [Tasks -> Int]
    BY <1>1, <1>3, <1>7
  <2>3. Fits(k1, th_rnact', NIL)
    BY <1>1, <1>2, <1>4, <2>1, <2>2, EndedFits
  <2>4. k2 = k1 /\ event_active' = event_active
    BY <1>3, <1>7
  <2> HIDE DEF k1, k2
  <2>5. Become(SwitchAway(k1)) /\ QLevels(k1.rq) /\ WakesFit(k1, event_active', W, R)
    BY <1>1, <1>3, <1>5, <1>6, <2>4
  <2> QED BY <1>1, <1>3, <1>5, <2>2, <2>3, <2>5, AwayFits
<1>8. CASE next = current
  <2>1. st = "SUSPENDED" /\ next \in Tasks /\ k2 = MakeReady(LeaveStack(Now, "SUSPENDED", c), current)
    BY <1>1, <1>8 DEF st
  <2>2. th_rnact' = th_rnact
    BY <1>1, <1>3, <1>8
  <2>3. Fits(k2, th_rnact', NIL)
    BY <1>1, <1>2, <2>1, <2>2, ChainedToItselfFits
  <2>4. WakesFit(k2, event_active', W, R)
    <3>1. k1.status[current] = "SUSPENDED" /\ k1.waswaiting = Now.waswaiting
      BY <1>1, <1>4, <1>5, <2>1, LeaveFields
    <3>2. event_active' = [event_active EXCEPT ![current] = {}]
      BY <1>1, <1>3, <1>8, <3>1 DEF ClearEventsOf
    <3>3. TaskFits(current, Now.status[current], TRUE, In(Now.stk, current), Count(Now.rq, current),
                   Now.waswaiting[current], th_rnact[current])
      BY <1>1, <1>2 DEF Fits
    <3>4. In(Now.stk, current)
      BY <1>1, LeaveIn
    <3>5. ~k1.waswaiting[current]
      BY <3>1, <3>3, <3>4 DEF TaskFits
    <3>9. WakeFits(k1.status[current], k1.waswaiting[current],
                   event_active[current] \cap k1.waitmask[current] # {},
                   k1.waitmask[current] = {}, current \in W, current \in R)
      BY <1>1, <1>6 DEF WakesFit
    <3>6. /\ k2.status = [k1.status EXCEPT ![current] = "READY"]
          /\ k2.waitmask = k1.waitmask /\ k2.waswaiting = k1.waswaiting
          /\ k1.status \in [Tasks -> Statuses]
      BY <1>1, <1>5, <1>8, <3>1 DEF MakeReady, SchedType
    <3>7. \A t \in Tasks \ {current} :
            /\ k2.status[t] = k1.status[t] /\ k2.waswaiting[t] = k1.waswaiting[t]
            /\ k2.waitmask[t] = k1.waitmask[t] /\ event_active'[t] = event_active[t]
      BY <3>2, <3>6 DEF StateTypes
    <3>8. WakeFits(k2.status[current], k2.waswaiting[current],
                   event_active'[current] \cap k2.waitmask[current] # {},
                   k2.waitmask[current] = {}, current \in W, current \in R)
      BY <1>1, <3>1, <3>5, <3>6, <3>9 DEF WakeFits
    <3> HIDE DEF k1, k2
    <3> QED BY <1>1, <1>6, <3>7, <3>8, OthersWake
  <2>5. k2 \in SchedType /\ QLevels(k2.rq) /\ th_rnact' \in [Tasks -> Int]
    BY <1>1, <1>5, <2>1, <2>2, MakeReadyTyped, MakeReadyLevels
  <2> HIDE DEF k1, k2
  <2> QED BY <1>1, <1>3, <2>3, <2>4, <2>5, AwayFits
<1>9. CASE next # NIL /\ next # current
  <2> DEFINE rn1 == [th_rnact EXCEPT ![current] = @ + 1]
  <2>1. next \in Tasks /\ th_rnact[next] # 0
    BY <1>9
  <2>2. st = IF th_rnact[current] + 1 = RnactMax[current] THEN "SUSPENDED" ELSE "READY"
    BY <1>1, <1>9 DEF st
  <2>3. Fits(k1, rn1, NIL)
    BY <1>1, <1>2, <1>4, <2>2, EndedFits
  <2>4. k1.status[next] # "WAITING"
    <3>1. Now.status[next] # "WAITING"
      BY <1>1, <1>2, <2>1, WaitingIsFull
    <3> QED BY <1>5, <1>9, <3>1, <2>1
  <2>5. rn1 \in [Tasks -> Int] /\ th_rnact' = [rn1 EXCEPT ![next] = @ - 1]
    <3>1. /\ rn \in [Tasks -> Int] /\ rn[current] = th_rnact[current]
          /\ \A t \in Tasks : rn[t] = IF t = next THEN th_rnact[t] - 1 ELSE th_rnact[t]
      BY <1>1, <1>9, <2>1
    <3>2. rn1 \in [Tasks -> Int] /\ rn1[next] = th_rnact[next]
      BY <1>1, <1>9, <2>1
    <3>3. /\ th_rnact' \in [Tasks -> Int]
          /\ \A t \in Tasks : th_rnact'[t] = IF t = current THEN rn[t] + 1 ELSE rn[t]
      BY <1>1, <1>3, <3>1
    <3>4. /\ [rn1 EXCEPT ![next] = @ - 1] \in [Tasks -> Int]
          /\ \A t \in Tasks : [rn1 EXCEPT ![next] = @ - 1][t] = IF t = next THEN rn1[t] - 1 ELSE rn1[t]
      BY <2>1, <3>2
    <3>5. \A t \in Tasks : th_rnact'[t] = [rn1 EXCEPT ![next] = @ - 1][t]
      BY <1>1, <1>9, <3>1, <3>3, <3>4
    <3> QED BY <3>2, <3>3, <3>4, <3>5
  <2> HIDE DEF rn1
  <2>6. k2 = MakeReady(k1, next) /\ event_active' = ClearEventsOf(k1.status, next)
    BY <1>3, <1>9
  <2> HIDE DEF k1, k2
  <2>7. Fits(k2, th_rnact', NIL)
    BY <1>5, <2>1, <2>3, <2>4, <2>5, <2>6, MakeReadyFits
  <2>8. WakesFit(k2, event_active', W, R)
    BY <1>1, <1>5, <1>6, <2>1, <2>3, <2>6, MakeReadyWakes
  <2>9. k2 \in SchedType /\ QLevels(k2.rq)
    BY <1>1, <1>5, <2>1, <2>6, MakeReadyTyped, MakeReadyLevels
  <2>10. th_rnact' \in [Tasks -> Int]
    BY <2>1, <2>5
  <2> QED BY <1>3, <2>7, <2>8, <2>9, <2>10, AwayFits
<1> QED BY <1>7, <1>8, <1>9
\* TerminateTask gives the activation back.
LEMMA TerminateFits ==
  ASSUME NEW W, NEW R, KernelInv, StatusInv(W, R), KernelInv', TerminateTask
  PROVE  StatusInv(W, R)'
<1>1. CASE Reject(TerminateError)
  BY <1>1, RejectFits
<1>2. CASE /\ Accept(TerminateError)
           /\ th_nextask' = [th_nextask EXCEPT ![current] = NIL]
           /\ EndInstance(th_rnact, sys_ceiling, NIL)
           /\ UNCHANGED <<oo_started, irq, resVars>>
  <2>1. current # NIL
    BY <1>2 DEF Accept, TerminateError, TerminateTask, Caller
  <2>2. \A t \in MissingEnd : th_nextask'[t] = NIL
    BY <1>2, TaskAssumption DEF StatusInv, KernelInv, TypeInv, StateTypes
  <2>3. sys_ceiling \in SUBSET Levels
    BY DEF KernelInv, TypeInv, StateTypes
  <2> QED BY <1>2, <2>1, <2>2, <2>3, EndInstanceFits
<1> QED BY <1>1, <1>2 DEF TerminateTask

\* ChainTask takes the activation of the task it names first.
LEMMA ChainFits ==
  ASSUME NEW W, NEW R, CleanBodies, KernelInv, StatusInv(W, R), KernelInv', NEW id \in Tasks \cup {NIL}, ChainTask(id)
  PROVE  StatusInv(W, R)'
<1>1. CASE Reject(ChainError(id))
  BY <1>1, RejectFits
<1>2. CASE /\ Accept(ChainError(id))
           /\ th_nextask' = [th_nextask EXCEPT ![current] = id]
           /\ EndInstance([th_rnact EXCEPT ![id] = @ - 1], sys_ceiling, id)
           /\ UNCHANGED <<oo_started, irq, resVars>>
  <2>1. /\ irq = 0 /\ current # NIL /\ current \in Tasks /\ id \in Tasks /\ id # NIL
        /\ id # current => th_rnact[id] # 0
    BY <1>2, NowIs, TaskAssumption DEF Accept, ChainError, CallLevel
  <2>2. current \notin MissingEnd
    BY <2>1 DEF ChainTask, CleanBodies
  <2>3. \A t \in MissingEnd : th_nextask'[t] = NIL
    BY <1>2, <2>2, TaskAssumption DEF StatusInv, KernelInv, TypeInv, StateTypes
  <2>4. sys_ceiling \in SUBSET Levels
    BY DEF KernelInv, TypeInv, StateTypes
  <2> DEFINE rn == [th_rnact EXCEPT ![id] = @ - 1]
  <2>5. EndInstance(rn, sys_ceiling, id) /\ rn = IF id = NIL THEN th_rnact ELSE [th_rnact EXCEPT ![id] = @ - 1]
    BY <1>2, <2>1
  <2> HIDE DEF rn
  <2> QED BY <2>1, <2>3, <2>4, <2>5, EndInstanceFits
<1> QED BY <1>1, <1>2 DEF ChainTask

\* A body that returns has never chained: nothing stale is readied.
LEMMA BodyReturnsFits ==
  ASSUME NEW W, NEW R, KernelInv, StatusInv(W, R), KernelInv', TaskBodyReturns
  PROVE  StatusInv(W, R)'
<1>1. current # NIL /\ current \in MissingEnd /\ th_nextask' = th_nextask
  BY DEF TaskBodyReturns, InTask
<1>2. th_nextask[current] = NIL /\ \A t \in MissingEnd : th_nextask'[t] = NIL
  BY <1>1 DEF StatusInv
<1>3. CeilingReleased(current) \in SUBSET Levels
  <2>1. held[current] \in Seq(Resources)
    BY <1>1, TaskAssumption DEF KernelInv, TypeInv, StateTypes
  <2>2. held[current] # <<>> => held[current][1] \in Resources
    BY <2>1
  <2> QED BY <2>2 DEF CeilingReleased, KernelInv, TypeInv, StateTypes
<1>4. EndInstance(th_rnact, CeilingReleased(current), NIL)
  BY <1>2 DEF TaskBodyReturns
<1> QED BY <1>1, <1>2, <1>3, <1>4, EndInstanceFits

\* Inside Schedule the running task becomes READY and stays on the stack.
LEMMA ScheduleFits ==
  ASSUME NEW W, NEW R, KernelInv, StatusInv(W, R), KernelInv', Schedule
  PROVE  StatusInv(W, R)'
<1>1. CASE Reject(ScheduleError)
  BY <1>1, RejectFits
<1>2. CASE /\ Accept(ScheduleError)
           /\ Become(ScheduleSwitch(Now))
           /\ UNCHANGED <<oo_started, irq, th_rnact, th_nextask, event_active, resVars>>
  <2> DEFINE j == [Now EXCEPT !.status[current] = "READY",
                   !.ceiling = (@ \ {DispatchPrio[current]}) \cup {ReadyPrio[current]},
                   !.inSchedule = @ \cup {current}]
             d == ScheduleSwitch(Now)
  <2>1. current # NIL /\ current \in Tasks
    BY <1>2, NowIs DEF Accept, ScheduleError, CallLevel
  <2>2. /\ Now \in SchedType /\ QLevels(Now.rq) /\ Top(Now.stk) = current
        /\ th_rnact \in [Tasks -> Int]
        /\ Fits(Now, th_rnact, current) /\ WakesFit(Now, event_active, W, R)
        /\ \A t \in MissingEnd : th_nextask'[t] = NIL
        /\ th_rnact' = th_rnact /\ event_active' = event_active
    BY <1>2, NowIs DEF StatusInv
  <2>3. /\ j \in SchedType /\ j.rq = Now.rq /\ j.stk = Now.stk
        /\ j.waswaiting = Now.waswaiting /\ j.waitmask = Now.waitmask
        /\ j.status = [t \in Tasks |-> IF t = Top(Now.stk) THEN "READY" ELSE Now.status[t]]
    <3>1. ReadyPrio[current] \in Levels
      BY <2>1, TaskAssumption
    <3> QED BY <2>1, <2>2, <3>1 DEF SchedType, Statuses
  <2>4. \/ NonEmpty(Now.rq) # {} /\ d = DispatchFirst(j)
        \/ d = Now
    BY DEF ScheduleSwitch
  <2>5. Become(d)
    BY <1>2
  <2> HIDE DEF d, j
  <2>6. Fits(j, th_rnact, NIL)
    BY <2>2, <2>3, PreemptedFits
  <2>7. WakesFit(j, event_active, W, R)
    BY <2>2, <2>3, PreemptedWakes
  <2>8. Distinct(d.stk)
    BY <2>5, NextDistinct
  <2>9. CASE NonEmpty(Now.rq) # {} /\ d = DispatchFirst(j)
    <3>1. Fits(d, th_rnact, Top(d.stk)) /\ d \in SchedType
      BY <2>2, <2>3, <2>6, <2>8, <2>9, DispatchFits, DispatchTyped
    <3>2. WakesFit(d, event_active, W, R)
      BY <2>2, <2>3, <2>6, <2>7, <2>9, DispatchWakes
    <3> QED BY <2>2, <2>5, <3>1, <3>2, BecomeFits
  <2>10. CASE d = Now
    BY <2>2, <2>5, <2>10, BecomeFits
  <2> QED BY <2>4, <2>9, <2>10
<1> QED BY <1>1, <1>2 DEF Schedule

\* ForceSchedule is a preemption point.
LEMMA ForceScheduleFits ==
  ASSUME NEW W, NEW R, KernelInv, StatusInv(W, R), KernelInv', ForceSchedule
  PROVE  StatusInv(W, R)'
<1>1. /\ Now \in SchedType /\ QLevels(Now.rq) /\ Top(Now.stk) = current /\ th_rnact \in [Tasks -> Int]
      /\ Fits(Now, th_rnact, current) /\ WakesFit(Now, event_active, W, R)
  BY NowIs DEF StatusInv
<1>2. /\ Become(PreemptionPoint(Now)) /\ th_rnact' = th_rnact /\ event_active' = event_active
      /\ \A t \in MissingEnd : th_nextask'[t] = NIL
  BY DEF ForceSchedule, StatusInv
<1> QED BY <1>1, <1>2, PointFits

\* The end of an interrupt is a preemption.
LEMMA IRQExitFits ==
  ASSUME NEW W, NEW R, KernelInv, StatusInv(W, R), KernelInv', IRQExit
  PROVE  StatusInv(W, R)'
<1>1. /\ Now \in SchedType /\ QLevels(Now.rq) /\ Top(Now.stk) = current /\ th_rnact \in [Tasks -> Int]
      /\ Fits(Now, th_rnact, current) /\ WakesFit(Now, event_active, W, R)
  BY NowIs DEF StatusInv
<1>2. /\ Become(Preempt(Now)) /\ th_rnact' = th_rnact /\ event_active' = event_active
      /\ \A t \in MissingEnd : th_nextask'[t] = NIL
  BY DEF IRQExit, StatusInv
<1>3. Preempt(Now) \in SchedType /\ Distinct(Preempt(Now).stk)
  BY <1>1, <1>2, PreemptTyped, NextDistinct
<1>4. Fits(Preempt(Now), th_rnact, Top(Preempt(Now).stk)) /\ WakesFit(Preempt(Now), event_active, W, R)
  BY <1>1, <1>3, PreemptFits, PreemptWakes
<1> QED BY <1>2, <1>3, <1>4, BecomeFits

\* ReleaseResource changes the ceiling and then is a preemption point.
LEMMA ReleaseFits ==
  ASSUME NEW W, NEW R, KernelInv, StatusInv(W, R), KernelInv', NEW r \in Resources \cup {NIL}, ReleaseResource(r)
  PROVE  StatusInv(W, R)'
<1>1. CASE Reject(ReleaseResourceError(r))
  BY <1>1, RejectFits
<1>2. CASE /\ Accept(ReleaseResourceError(r))
           /\ held' = [held EXCEPT ![current] = Pop(@)]
           /\ locked' = [locked EXCEPT ![r] = FALSE]
           /\ Become(PreemptionPoint([Now EXCEPT !.ceiling = oldceiling[r]]))
           /\ UNCHANGED <<oo_started, irq, th_rnact, th_nextask, event_active, oldceiling>>
  <2> DEFINE k == [Now EXCEPT !.ceiling = oldceiling[r]]
  <2>1. r \in Resources
    BY <1>2 DEF Accept, ReleaseResourceError
  <2>2. /\ Now \in SchedType /\ QLevels(Now.rq) /\ Top(Now.stk) = current
        /\ th_rnact \in [Tasks -> Int]
        /\ Fits(Now, th_rnact, current) /\ WakesFit(Now, event_active, W, R)
    BY NowIs DEF StatusInv
  <2>3. oldceiling[r] \in SUBSET Levels
    BY <2>1 DEF KernelInv, TypeInv, StateTypes
  <2>4. /\ k \in SchedType /\ k.rq = Now.rq /\ k.stk = Now.stk /\ k.status = Now.status
        /\ k.waswaiting = Now.waswaiting /\ k.waitmask = Now.waitmask
    BY <2>2, <2>3 DEF SchedType
  <2>5. Become(PreemptionPoint(k))
    BY <1>2
  <2> HIDE DEF k
  <2>6. Fits(k, th_rnact, current)
    BY <2>2, <2>4 DEF Fits
  <2>7. WakesFit(k, event_active, W, R)
    BY <2>2, <2>4 DEF WakesFit
  <2>8. /\ th_rnact' = th_rnact /\ event_active' = event_active
        /\ \A t \in MissingEnd : th_nextask'[t] = NIL
    BY <1>2 DEF StatusInv
  <2> QED BY <2>2, <2>4, <2>5, <2>6, <2>7, <2>8, PointFits
<1> QED BY <1>1, <1>2 DEF ReleaseResource

\* GetResource touches no task but by the ceiling.
LEMMA GetFits ==
  ASSUME NEW W, NEW R, StatusInv(W, R), NEW r, GetResource(r)
  PROVE  StatusInv(W, R)'
BY RejectFits, SameFits DEF GetResource, taskVars, eventVars

\* An event that is set wakes its task exactly if it waits for it.
LEMMA SetEventFits ==
  ASSUME NEW W, NEW R, KernelInv, StatusInv(W, R), KernelInv', NEW id, NEW mask, SetEvent(id, mask)
  PROVE  StatusInv(W, R)'
<1>1. CASE Reject(SetEventError(id))
  BY <1>1, RejectFits
<1>2. CASE /\ Accept(SetEventError(id))
           /\ event_active' = [event_active EXCEPT ![id] = @ \cup mask]
           /\ Become(IF Wakes(id, mask)
                     THEN PreemptionPoint([Now EXCEPT !.status[id] = "READY",
                                                      !.rq = RqInsert(@, id)])
                     ELSE Now)
           /\ UNCHANGED <<oo_started, irq, th_rnact, th_nextask, resVars>>
  <2> DEFINE j == [Now EXCEPT !.status[id] = "READY", !.rq = RqInsert(@, id)]
  <2>1. id \in Tasks
    BY <1>2 DEF Accept, SetEventError
  <2>2. /\ Now \in SchedType /\ QLevels(Now.rq) /\ Top(Now.stk) = current
        /\ th_rnact \in [Tasks -> Int]
        /\ Fits(Now, th_rnact, current) /\ WakesFit(Now, event_active, W, R)
        /\ th_rnact' = th_rnact /\ \A t \in MissingEnd : th_nextask'[t] = NIL
    BY <1>2, NowIs DEF StatusInv
  <2>3. Now.status = th_status /\ Now.waitmask = event_waitmask /\ Now.stk = stk /\ Now.rq = rq
        /\ Now.waswaiting = waswaiting
    BY DEF Now
  <2>4. /\ event_active'[id] = event_active[id] \cup mask
        /\ \A t \in Tasks \ {id} : event_active'[t] = event_active[t]
    BY <1>2, <2>1 DEF KernelInv, TypeInv, StateTypes
  <2>5. WakeFits(Now.status[id], Now.waswaiting[id], event_active[id] \cap Now.waitmask[id] # {},
                 Now.waitmask[id] = {}, id \in W, id \in R)
    BY <2>1, <2>2 DEF WakesFit
  <2>6. CASE Wakes(id, mask)
    <3>1. /\ j \in SchedType /\ QLevels(j.rq) /\ j.stk = Now.stk /\ j.rq = RqInsert(Now.rq, id)
          /\ j.status = [Now.status EXCEPT ![id] = "READY"]
          /\ j.waswaiting = Now.waswaiting /\ j.waitmask = Now.waitmask
      <4>1. RqInsert(Now.rq, id) \in Queues /\ QLevels(RqInsert(Now.rq, id))
        BY <2>1, <2>2, InsertTyped, InsertLevels DEF SchedType
      <4> QED BY <2>1, <2>2, <4>1 DEF SchedType, Statuses
    <3>2. Now.status[id] = "WAITING" /\ Now.waitmask[id] \cap mask # {}
      BY <2>3, <2>6 DEF Wakes
    <3>3. Fits(j, th_rnact, current)
      BY <2>1, <2>2, <3>1, <3>2, WokenFits
    <3>4. WakesFit(j, event_active', W, R)
      <4>1. j.status[id] = "READY" /\ event_active'[id] \cap j.waitmask[id] # {}
        BY <2>1, <2>2, <2>4, <3>1, <3>2 DEF SchedType
      <4>2. WakeFits(j.status[id], j.waswaiting[id], event_active'[id] \cap j.waitmask[id] # {},
                     j.waitmask[id] = {}, id \in W, id \in R)
        <5>1. Now.waitmask[id] # {} /\ id \notin W /\ Now.waswaiting[id]
          BY <2>5, <3>2 DEF WakeFits
        <5> QED BY <3>1, <4>1, <5>1 DEF WakeFits
      <4>3. \A t \in Tasks \ {id} :
              /\ j.status[t] = Now.status[t] /\ j.waswaiting[t] = Now.waswaiting[t]
              /\ j.waitmask[t] = Now.waitmask[t] /\ event_active'[t] = event_active[t]
        BY <2>2, <2>4, <3>1 DEF SchedType
      <4> HIDE DEF j
      <4> QED BY <2>1, <2>2, <4>2, <4>3, OthersWake
    <3>5. Become(PreemptionPoint(j))
      BY <1>2, <2>6
    <3> HIDE DEF j
    <3> QED BY <2>2, <3>1, <3>3, <3>4, <3>5, PointFits
  <2>7. CASE ~Wakes(id, mask)
    <3>1. Now.status[id] = "WAITING" => Now.waitmask[id] \cap mask = {}
      BY <2>3, <2>7 DEF Wakes
    <3>2. event_active[id] \cap Now.waitmask[id] # {} => event_active'[id] \cap Now.waitmask[id] # {}
      BY <2>4
    <3>3. Now.status[id] = "WAITING" => event_active'[id] \cap Now.waitmask[id] = {}
      BY <2>4, <2>5, <3>1 DEF WakeFits
    <3>4. WakeFits(Now.status[id], Now.waswaiting[id], event_active'[id] \cap Now.waitmask[id] # {},
                   Now.waitmask[id] = {}, id \in W, id \in R)
      BY <2>5, <3>2, <3>3 DEF WakeFits
    <3>5. WakesFit(Now, event_active', W, R)
      BY <2>1, <2>2, <2>4, <3>4, OthersWake
    <3>6. Become(Now)
      BY <1>2, <2>7
    <3> QED BY <2>2, <3>5, <3>6, BecomeFits
  <2> QED BY <2>6, <2>7
<1> QED BY <1>1, <1>2 DEF SetEvent

\* WaitEvent blocks only if no event of the mask is active.
LEMMA WaitEventFits ==
  ASSUME NEW W, NEW R, KernelInv, StatusInv(W, R), KernelInv', NEW mask \in Masks, WaitEvent(mask)
  PROVE  StatusInv(W, R)'
<1>1. CASE Reject(WaitEventError)
  BY <1>1, RejectFits
<1>2. CASE /\ Accept(WaitEventError)
           /\ Become(IF event_active[current] \cap mask # {} THEN Now
                     ELSE SwitchAway(Block([Now EXCEPT !.waitmask[current] = mask])))
           /\ UNCHANGED <<oo_started, irq, th_rnact, th_nextask, event_active, resVars>>
  <2> DEFINE m == [Now EXCEPT !.waitmask[current] = mask]
             b == Block(m)
  <2>1. current # NIL /\ current \in Extended
    BY <1>2 DEF Accept, WaitEventError, CallLevel
  <2>2. /\ Now \in SchedType /\ QLevels(Now.rq) /\ Distinct(Now.stk) /\ Top(Now.stk) = current
        /\ th_rnact \in [Tasks -> Nat] /\ th_rnact \in [Tasks -> Int]
        /\ current \in Tasks /\ Now.stk # <<>> /\ Now.stk[Len(Now.stk)] = current
    BY <2>1, NowIs
  <2>3. /\ Fits(Now, th_rnact, current) /\ WakesFit(Now, event_active, W, R)
        /\ th_rnact' = th_rnact /\ event_active' = event_active
        /\ \A t \in MissingEnd : th_nextask'[t] = NIL
    BY <1>2 DEF StatusInv
  <2>4. CASE event_active[current] \cap mask # {}
    BY <1>2, <2>2, <2>3, <2>4, BecomeFits
  <2>5. CASE event_active[current] \cap mask = {}
    <3>1. mask \in (SUBSET Events) \ {{}}
      BY DEF Masks
    <3>2. /\ m \in SchedType /\ m.stk = Now.stk /\ m.rq = Now.rq /\ m.status = Now.status
          /\ m.waswaiting = Now.waswaiting
      BY <2>2, <3>1 DEF SchedType
    <3>3. WakesFit(b, event_active, W, R)
      BY <2>2, <2>3, <2>5, <3>1, BlockedWakes
    <3>4. Become(SwitchAway(b))
      BY <1>2, <2>5
    <3> HIDE DEF m
    <3>5. Fits(m, th_rnact, current)
      BY <2>3, <3>2 DEF Fits
    <3>6. Fits(b, th_rnact, NIL)
      BY <2>1, <2>2, <3>2, <3>5, BlockedFits
    <3>7. LeaveStack(m, "WAITING", m.ceiling) \in SchedType
      BY <2>2, <3>2, LeaveStackTyped DEF SchedType, Statuses
    <3>8. LeaveStack(m, "WAITING", m.ceiling).rq = m.rq
      BY <3>2 DEF LeaveStack, SchedType
    <3>9. b \in SchedType /\ b.rq = m.rq
      BY <2>2, <3>7, <3>8 DEF Block, SchedType
    <3> HIDE DEF b
    <3> QED BY <2>2, <2>3, <3>2, <3>3, <3>4, <3>6, <3>9, AwayFits
  <2> QED BY <2>4, <2>5
<1> QED BY <1>1, <1>2 DEF WaitEvent

\* The running task that clears an event waits for none.
LEMMA ClearEventFits ==
  ASSUME NEW W, NEW R, KernelInv, StatusInv(W, R), NEW mask, ClearEvent(mask)
  PROVE  StatusInv(W, R)'
<1>1. CASE Reject(ClearEventError)
  BY <1>1, RejectFits
<1>2. CASE /\ Accept(ClearEventError)
           /\ event_active' = [event_active EXCEPT ![current] = @ \ mask]
           /\ UNCHANGED <<oo_started, irq, taskVars, schedVars, event_waitmask,
                          waswaiting, resVars>>
  <2>1. current # NIL /\ current \in Tasks
    BY <1>2, NowIs DEF Accept, ClearEventError, CallLevel
  <2>2. /\ Fits(Now, th_rnact, current) /\ WakesFit(Now, event_active, W, R)
        /\ Now \in SchedType /\ Top(Now.stk) = current
    BY NowIs DEF StatusInv
  <2>3. UNCHANGED <<th_rnact, th_nextask>> /\ Become(Now)
    BY <1>2 DEF taskVars, schedVars, Become, Now
  <2>4. WakesFit(Now, event_active', W, R)
    <3>1. TaskFits(current, Now.status[current], TRUE, In(Now.stk, current), Count(Now.rq, current),
                   Now.waswaiting[current], th_rnact[current])
      BY <2>1, <2>2 DEF Fits
    <3>2. Now.status[current] = "RUNNING"
      BY <3>1 DEF TaskFits
    <3>3. WakeFits(Now.status[current], Now.waswaiting[current],
                   event_active'[current] \cap Now.waitmask[current] # {},
                   Now.waitmask[current] = {}, current \in W, current \in R)
      <4>1. WakeFits(Now.status[current], Now.waswaiting[current],
                     event_active[current] \cap Now.waitmask[current] # {},
                     Now.waitmask[current] = {}, current \in W, current \in R)
        BY <2>1, <2>2 DEF WakesFit
      <4>2. ~Now.waswaiting[current]
        BY <3>1, <3>2 DEF TaskFits
      <4> QED BY <3>2, <4>1, <4>2 DEF WakeFits
    <3>4. \A t \in Tasks \ {current} : event_active'[t] = event_active[t]
      BY <1>2, <2>1 DEF KernelInv, TypeInv, StateTypes
    <3> QED BY <2>1, <2>2, <3>3, <3>4, OthersWake
  <2> QED BY <2>2, <2>3, <2>4, BecomeFits DEF StatusInv
<1> QED BY <1>1, <1>2 DEF ClearEvent
\* The autostart array queues each task it names once, at its level.
LEMMA AutostartCount ==
  /\ AutostartQueue \in Queues /\ QLevels(AutostartQueue)
  /\ \A t \in Tasks : Count(AutostartQueue, t) = IF InAutostart(t) THEN 1 ELSE 0
<1>1. AutostartQueue \in Queues
  BY AutostartAssumption DEF Queues
<1>2. \A l \in Levels : DOMAIN AutostartQueue[l] = 1 .. Len(AutostartQueue[l])
  BY <1>1 DEF Queues
<1>3. QLevels(AutostartQueue)
  BY <1>2, AutostartAssumption DEF QLevels
<1>4. ASSUME NEW t \in Tasks
      PROVE  Count(AutostartQueue, t) = IF InAutostart(t) THEN 1 ELSE 0
  <2> DEFINE l == ReadyPrio[t]
  <2>1. l \in Levels /\ AutostartQueue[l] \in Seq(Tasks)
    BY <1>1, Prios DEF Queues
  <2>2. Distinct(AutostartQueue[l])
    BY <1>2, <2>1, AutostartAssumption DEF Distinct
  <2>3. InAutostart(t) <=> In(AutostartQueue[l], t)
    BY <1>2, <2>1 DEF InAutostart, In
  <2> HIDE DEF l
  <2>4. Occ(AutostartQueue[l], t) = IF In(AutostartQueue[l], t) THEN 1 ELSE 0
    BY <2>1, <2>2, OccDistinct
  <2> QED BY <2>3, <2>4 DEF Count, l
<1> QED BY <1>1, <1>3, <1>4

\* StartOS takes an activation of each autostart task and queues it.
LEMMA StartOSFits ==
  ASSUME NEW W, NEW R, KernelInv, StatusInv(W, R), KernelInv', StartOS
  PROVE  StatusInv(W, R)'
<1> DEFINE k == [Now EXCEPT
                   !.status = [t \in Tasks |-> IF InAutostart(t) THEN "READY" ELSE @[t]],
                   !.rq = AutostartQueue]
           d == IF NonEmpty(k.rq) = {} THEN k ELSE DispatchFirst(k)
<1>1. /\ Now \in SchedType /\ Now.stk = stk
      /\ stk = <<>> /\ current = NIL /\ th_rnact = RnactMax
      /\ Fits(Now, th_rnact, current) /\ WakesFit(Now, event_active, W, R)
  BY NowIs, NowGood DEF KernelInv, TypeInv, StartOS, StatusInv, current, Top
<1>2. AutostartQueue \in Queues /\ QLevels(AutostartQueue)
  BY AutostartCount
<1>3. /\ k \in SchedType /\ k.rq = AutostartQueue /\ k.stk = <<>>
      /\ k.waswaiting = Now.waswaiting /\ k.waitmask = Now.waitmask
      /\ k.status = [t \in Tasks |-> IF InAutostart(t) THEN "READY" ELSE Now.status[t]]
  BY <1>1, <1>2 DEF SchedType, Statuses
<1>4. /\ Become(d) /\ event_active' = event_active
      /\ th_rnact' = [t \in Tasks |-> IF InAutostart(t) THEN th_rnact[t] - 1 ELSE th_rnact[t]]
      /\ \A t \in MissingEnd : th_nextask'[t] = NIL
  BY DEF StartOS, StatusInv
<1> HIDE DEF k
<1>5. ASSUME NEW t \in Tasks
      PROVE  Now.status[t] = "SUSPENDED" /\ ~Now.waswaiting[t] /\ ~In(k.stk, t)
  <2>1. TaskFits(t, Now.status[t], t = NIL, In(Now.stk, t), Count(Now.rq, t),
                 Now.waswaiting[t], RnactMax[t])
    BY <1>1 DEF Fits
  <2>2. t # NIL /\ RnactMax[t] \in Nat
    BY TaskAssumption
  <2>3. ~In(<<>>, t) /\ Count(Now.rq, t) \in Nat /\ Now.status[t] \in Statuses
    BY <1>1, CountIs DEF In, SchedType
  <2>4. Count(Now.rq, t) = 0 /\ Now.status[t] # "WAITING"
    BY <2>1, <2>2, <2>3 DEF TaskFits
  <2>5. Now.status[t] = "SUSPENDED"
    BY <1>1, <2>1, <2>2, <2>3, <2>4 DEF TaskFits, Statuses
  <2> QED BY <1>3, <2>1, <2>3, <2>5 DEF TaskFits
<1>6. Fits(k, th_rnact', NIL)
  <2> SUFFICES ASSUME NEW t \in Tasks
               PROVE  TaskFits(t, k.status[t], t = NIL, In(k.stk, t), Count(k.rq, t),
                               k.waswaiting[t], th_rnact'[t])
    BY DEF Fits
  <2>1. t # NIL /\ RnactMax[t] \in Nat
    BY TaskAssumption
  <2>2. Count(k.rq, t) = IF InAutostart(t) THEN 1 ELSE 0
    BY <1>3, AutostartCount
  <2>3. k.status[t] = (IF InAutostart(t) THEN "READY" ELSE "SUSPENDED") /\ ~k.waswaiting[t] /\ ~In(k.stk, t)
    BY <1>3, <1>5
  <2>4. th_rnact'[t] = IF InAutostart(t) THEN RnactMax[t] - 1 ELSE RnactMax[t]
    BY <1>1, <1>4
  <2>5. CASE InAutostart(t)
    <3>1. RnactMax[t] = th_rnact'[t] + Count(k.rq, t) + 0
      BY <2>1, <2>2, <2>4, <2>5
    <3> QED BY <2>1, <2>2, <2>3, <2>5, <3>1 DEF TaskFits
  <2>6. CASE ~InAutostart(t)
    <3>1. RnactMax[t] = th_rnact'[t] + Count(k.rq, t) + 0
      BY <2>1, <2>2, <2>4, <2>6
    <3> QED BY <2>1, <2>2, <2>3, <2>6, <3>1 DEF TaskFits
  <2> QED BY <2>5, <2>6
<1>7. WakesFit(k, event_active, W, R)
  <2> SUFFICES ASSUME NEW t \in Tasks
               PROVE  WakeFits(k.status[t], k.waswaiting[t], event_active[t] \cap k.waitmask[t] # {},
                               k.waitmask[t] = {}, t \in W, t \in R)
    BY DEF WakesFit
  <2>1. k.status[t] \in {"READY", "SUSPENDED"} /\ ~k.waswaiting[t]
    BY <1>3, <1>5
  <2>2. WakeFits(Now.status[t], Now.waswaiting[t], event_active[t] \cap Now.waitmask[t] # {},
                 Now.waitmask[t] = {}, t \in W, t \in R)
    BY <1>1 DEF WakesFit
  <2>3. Now.status[t] = "SUSPENDED" /\ k.waitmask[t] = Now.waitmask[t] /\ ~Now.waswaiting[t]
    BY <1>3, <1>5
  <2> QED BY <2>1, <2>2, <2>3 DEF WakeFits
<1>8. th_rnact' \in [Tasks -> Int]
  BY DEF KernelInv, TypeInv, StateTypes
<1>9. Distinct(d.stk)
  BY <1>4, NextDistinct
<1>10. CASE NonEmpty(k.rq) = {}
  <2>1. d = k /\ Top(k.stk) = NIL
    BY <1>3, <1>10 DEF Top
  <2> QED BY <1>3, <1>4, <1>6, <1>7, <2>1, BecomeFits
<1>11. CASE NonEmpty(k.rq) # {}
  <2>1. d = DispatchFirst(k)
    BY <1>11
  <2>2. d \in SchedType /\ Fits(d, th_rnact', Top(d.stk)) /\ WakesFit(d, event_active, W, R)
    BY <1>2, <1>3, <1>6, <1>7, <1>8, <1>9, <1>11, <2>1, DispatchTyped, DispatchFits, DispatchWakes
  <2> HIDE DEF d
  <2> QED BY <1>4, <2>2, BecomeFits
<1> QED BY <1>10, <1>11

\* Initially every task is suspended and accepts all its activations.
LEMMA InitFits ==
  ASSUME NEW R, Init
  PROVE  StatusInv({}, R)
<1>1. Fits(Now, th_rnact, current)
  <2> SUFFICES ASSUME NEW t \in Tasks
               PROVE  TaskFits(t, Now.status[t], t = current, In(Now.stk, t), Count(Now.rq, t),
                               Now.waswaiting[t], th_rnact[t])
    BY DEF Fits
  <2>1. /\ t # current /\ Now.status[t] = "SUSPENDED" /\ ~Now.waswaiting[t]
        /\ th_rnact[t] = RnactMax[t] /\ RnactMax[t] \in Nat
    BY TaskAssumption DEF Init, Now, current, Top
  <2>2. ~In(Now.stk, t)
    BY DEF Init, Now, In
  <2>3. Count(Now.rq, t) = 0
    <3>1. Now.rq[ReadyPrio[t]] = <<>> /\ <<>> \in Seq(Tasks)
      BY Prios DEF Init, Now
    <3>2. Pos(<<>>, t) = {}
      BY DEF Pos
    <3> QED BY <3>1, <3>2, FS_EmptySet DEF Count, Occ
  <2>4. RnactMax[t] = th_rnact[t] + Count(Now.rq, t) + 0
    BY <2>1, <2>3
  <2> QED BY <2>1, <2>2, <2>3, <2>4 DEF TaskFits
<1>2. WakesFit(Now, event_active, {}, R)
  BY DEF Init, Now, WakesFit, WakeFits
<1>3. \A t \in MissingEnd : th_nextask[t] = NIL
  BY TaskAssumption DEF Init
<1> QED BY <1>1, <1>2, <1>3 DEF StatusInv

\* Every step keeps the tasks fitting, if bodies that fall off their end never chain.
LEMMA NextFits ==
  ASSUME NEW W, NEW R, CleanBodies
  PROVE  KernelInv /\ StatusInv(W, R) /\ [Next]_vars => StatusInv(W, R)'
<1> SUFFICES ASSUME KernelInv, StatusInv(W, R), [Next]_vars PROVE StatusInv(W, R)'
  OBVIOUS
<1>0. KernelInv'
  BY NextGood
<1>1. CASE UNCHANGED vars
  BY <1>1, SameFits DEF vars, kernelVars, taskVars, schedVars, eventVars
<1>2. CASE StartOS \/ StartOSAgain
  BY <1>0, <1>2, StartOSFits, RejectFits DEF StartOSAgain
<1>3. ASSUME NEW id \in Tasks \cup {NIL}, ActivateTask(id) \/ ChainTask(id)
      PROVE  StatusInv(W, R)'
  BY <1>0, <1>3, ActivateFits, ChainFits
<1>4. CASE TerminateTask \/ TaskBodyReturns \/ Schedule \/ ForceSchedule
  BY <1>0, <1>4, TerminateFits, BodyReturnsFits, ScheduleFits, ForceScheduleFits
<1>5. ASSUME NEW id \in Tasks \cup {NIL}, NEW mask \in Masks, SetEvent(id, mask)
      PROVE  StatusInv(W, R)'
  BY <1>0, <1>5, SetEventFits
<1>6. ASSUME NEW mask \in Masks, WaitEvent(mask) \/ ClearEvent(mask)
      PROVE  StatusInv(W, R)'
  BY <1>0, <1>6, WaitEventFits, ClearEventFits
<1>7. ASSUME NEW r \in Resources \cup {NIL}, GetResource(r) \/ ReleaseResource(r)
      PROVE  StatusInv(W, R)'
  BY <1>0, <1>7, GetFits, ReleaseFits
<1>8. CASE IRQEnter
  BY <1>8, SameFits DEF IRQEnter, taskVars, schedVars, eventVars
<1>9. CASE IRQExit
  BY <1>0, <1>9, IRQExitFits
<1>10. CASE ShutdownOS \/ ShutdownLoop
  BY <1>10, SameFits DEF ShutdownOS, ShutdownLoop, vars, kernelVars, taskVars, schedVars, eventVars
<1> QED BY <1>1, <1>2, <1>3, <1>4, <1>5, <1>6, <1>7, <1>8, <1>9, <1>10 DEF Next

\* The inductive invariant holds in every reachable state.
LEMMA StatusHolds ==
  ASSUME CleanBodies
  PROVE  Spec => [](KernelInv /\ StatusInv({}, {}))
<1>1. Init => KernelInv /\ StatusInv({}, {})
  BY InitGood, InitFits
<1>2. KernelInv /\ StatusInv({}, {}) /\ [Next]_vars => (KernelInv /\ StatusInv({}, {}))'
  BY NextGood, NextFits
<1> QED BY <1>1, <1>2, PTL DEF Spec

-----------------------------------------------------------------------------
(* The properties.                                                         *)

\* What the invariant says of one task, in the words of the properties.
LEMMA TaskIs ==
  ASSUME NEW W, NEW R, KernelInv, StatusInv(W, R), NEW t \in Tasks
  PROVE  /\ TaskFits(t, th_status[t], t = current, OnStack(t), Cardinality(Queued(t)),
                     waswaiting[t], th_rnact[t])
         /\ WakeFits(th_status[t], waswaiting[t], event_active[t] \cap event_waitmask[t] # {},
                     event_waitmask[t] = {}, t \in W, t \in R)
         /\ Cardinality(Queued(t)) \in Nat
         /\ Cardinality(Queued(t)) = 0 <=> Queued(t) = {}
<1>1. /\ Now.status = th_status /\ Now.stk = stk /\ Now.rq = rq
      /\ Now.waswaiting = waswaiting /\ Now.waitmask = event_waitmask
  BY DEF Now
<1>2. stk \in Seq(Tasks) /\ rq[ReadyPrio[t]] \in Seq(Tasks)
  BY Prios DEF KernelInv, TypeInv, StateTypes
<1>3. OnStack(t) <=> In(stk, t)
  BY <1>2 DEF OnStack, In
<1>4. Queued(t) = Pos(rq[ReadyPrio[t]], t)
  BY <1>2 DEF Queued, Pos
<1>5. /\ Cardinality(Queued(t)) = Count(rq, t)
      /\ Cardinality(Queued(t)) \in Nat
      /\ Cardinality(Queued(t)) = 0 <=> Queued(t) = {}
  BY <1>2, <1>4, OccIs DEF Count, Occ
<1>6. TaskFits(t, th_status[t], t = current, In(stk, t), Count(rq, t), waswaiting[t], th_rnact[t])
  BY <1>1 DEF StatusInv, Fits
<1>7. TaskFits(t, th_status[t], t = current, OnStack(t), Count(rq, t), waswaiting[t], th_rnact[t])
  BY <1>3, <1>6 DEF TaskFits
<1>8. WakeFits(th_status[t], waswaiting[t], event_active[t] \cap event_waitmask[t] # {},
               event_waitmask[t] = {}, t \in W, t \in R)
  BY <1>1 DEF StatusInv, WakesFit
<1> QED BY <1>5, <1>7, <1>8

\* The inductive invariant implies that the three views of a task agree, ...
LEMMA AgreeStep ==
  ASSUME NEW W, NEW R, KernelInv, StatusInv(W, R)
  PROVE  StatusAgrees
<1> SUFFICES ASSUME NEW t \in Tasks
             PROVE  /\ th_status[t] = "RUNNING" <=> t = current
                    /\ OnStack(t) => th_status[t] \in {"RUNNING", "READY"}
                    /\ Queued(t) # {} => th_status[t] \in {"RUNNING", "READY"}
                    /\ th_status[t] = "READY" => OnStack(t) \/ Queued(t) # {}
  BY DEF StatusAgrees
<1> QED BY TaskIs DEF TaskFits

\* ... that the activations are accounted for, ...
LEMMA AccountingStep ==
  ASSUME NEW W, NEW R, KernelInv, StatusInv(W, R)
  PROVE  ActivationAccounting
<1> SUFFICES ASSUME NEW t \in Tasks
             PROVE  RnactMax[t] = th_rnact[t] + Cardinality(Queued(t))
                                  + (IF OnStack(t) \/ th_status[t] = "WAITING" THEN 1 ELSE 0)
  BY DEF ActivationAccounting
<1> QED BY TaskIs DEF TaskFits

\* ... that no wakeup is lost, ...
LEMMA WakeupStep ==
  ASSUME NEW W, KernelInv, StatusInv(W, {})
  PROVE  NoLostWakeup
<1> SUFFICES ASSUME NEW t \in Tasks
             PROVE  LET due == event_active[t] \cap event_waitmask[t] IN
                    /\ th_status[t] = "WAITING" => waswaiting[t] /\ due = {}
                    /\ waswaiting[t] => th_status[t] \in {"WAITING", "READY"}
                    /\ waswaiting[t] /\ th_status[t] = "READY" => due # {}
  BY DEF NoLostWakeup
<1> QED BY TaskIs DEF TaskFits, WakeFits

\* ... and that an extended task is queued once.
LEMMA ExtendedStep ==
  ASSUME NEW W, NEW R, KernelInv, StatusInv(W, R)
  PROVE  ExtendedQueuedOnce
<1> SUFFICES ASSUME NEW t \in Extended
             PROVE  Cardinality(Queued(t)) =< 1
  BY DEF ExtendedQueuedOnce
<1>1. t \in Tasks /\ RnactMax[t] = 1 /\ th_rnact[t] \in Nat
  BY TaskAssumption DEF KernelInv, TypeInv, StateTypes
<1>2. RnactMax[t] = th_rnact[t] + Cardinality(Queued(t))
                    + (IF OnStack(t) \/ th_status[t] = "WAITING" THEN 1 ELSE 0)
      /\ Cardinality(Queued(t)) \in Nat
  BY <1>1, TaskIs DEF TaskFits
<1> QED BY <1>1, <1>2

\* The status array, the stack and the ready queues never disagree about a
\* task, in any interleaving of services, switches and interrupts.
THEOREM StatusesAgree ==
  ASSUME CleanBodies
  PROVE  Spec => []StatusAgrees
<1>1. Spec => [](KernelInv /\ StatusInv({}, {}))
  BY StatusHolds
<1>2. KernelInv /\ StatusInv({}, {}) => StatusAgrees
  BY AgreeStep
<1> QED BY <1>1, <1>2, PTL

\* Every activation accepted is queued, running, preempted or waiting.
THEOREM ActivationsAccounted ==
  ASSUME CleanBodies
  PROVE  Spec => []ActivationAccounting
<1>1. Spec => [](KernelInv /\ StatusInv({}, {}))
  BY StatusHolds
<1>2. KernelInv /\ StatusInv({}, {}) => ActivationAccounting
  BY AccountingStep
<1> QED BY <1>1, <1>2, PTL

\* A task waits only while no event of its mask is active.
THEOREM WakeupsKept ==
  ASSUME CleanBodies
  PROVE  Spec => []NoLostWakeup
<1>1. Spec => [](KernelInv /\ StatusInv({}, {}))
  BY StatusHolds
<1>2. KernelInv /\ StatusInv({}, {}) => NoLostWakeup
  BY WakeupStep
<1> QED BY <1>1, <1>2, PTL

\* What the comment of EE_thread_end_instance says of extended tasks holds when
\* no body chains in one instance and falls off its end in another.
THEOREM ExtendedOnce ==
  ASSUME CleanBodies
  PROVE  Spec => []ExtendedQueuedOnce
<1>1. Spec => [](KernelInv /\ StatusInv({}, {}))
  BY StatusHolds
<1>2. KernelInv /\ StatusInv({}, {}) => ExtendedQueuedOnce
  BY ExtendedStep
<1> QED BY <1>1, <1>2, PTL
=============================================================================
