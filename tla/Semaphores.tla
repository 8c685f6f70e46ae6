------------------------------ MODULE Semaphores ------------------------------
(***************************************************************************)
(* The semaphores of ERIKA (ee_semwait.c, ee_sempost.c, ee_semtrywait.c,   *)
(* ee_semgetvalue.c) on top of the kernel. The waiters of a semaphore and  *)
(* the tasks on the stack are linked through one array, EE_th_next: a task *)
(* is in at most one of these lists, and every service that moves a task   *)
(* from one to the other rewrites the links the other tasks rely on.       *)
(***************************************************************************)
EXTENDS OsekKernel, Links

Seqs == INSTANCE SequencesExt

CONSTANTS
  Sems,             \* the SemType objects of the application
  MaxSemCounter,    \* EE_MAX_SEM_COUNTER
  InitCount         \* STATICSEM(n), InitSem(s, n)

ASSUME SemAssumption ==
  /\ NIL \notin Sems
  /\ MaxSemCounter \in Nat \ {0}
  /\ InitCount \in [Sems -> 0 .. MaxSemCounter]

VARIABLES
  sem,              \* count, first and last of each semaphore
  th_next           \* EE_th_next

semVars == <<sem, th_next>>
allVars == <<vars, semVars>>

SemInit ==
  /\ Init
  /\ sem = [s \in Sems |-> [count |-> InitCount[s], first |-> NIL, last |-> NIL]]
  /\ th_next = [t \in Tasks |-> NIL]

-----------------------------------------------------------------------------
(* The links.                                                              *)

\* A fault: the link of a dispatched task is not set.
PushLinkNone(next) == next

\* EE_rq2stk_exchange, the stack half: a task that goes on the stack is linked
\* to the one below it. Leaving the stack writes no link.
PushLink(next) ==
  IF Seqs!IsPrefix(stk', stk) THEN next
  ELSE [next EXCEPT ![Top(stk')] = Top(Pop(stk'))]

\* A fault: the second waiter replaces the first instead of following it.
EnterQueueNoLink(s) == [th_next EXCEPT ![current] = NIL]

\* The running task becomes the last waiter of s.
EnterQueue(s) ==
  LET linked == IF sem[s].first # NIL
                THEN [th_next EXCEPT ![sem[s].last] = current] ELSE th_next
  IN [linked EXCEPT ![current] = NIL]

-----------------------------------------------------------------------------
(* Services.                                                               *)

SemReject(e) == e # "E_OK" /\ ret' = e /\ UNCHANGED <<kernelVars, semVars>>

WaitSemError(s) ==
  IF CallLevel THEN "E_OS_CALLEVEL"
  ELSE IF held[current] # <<>> THEN "E_OS_RESOURCE"
  ELSE IF current \notin Extended THEN "E_OS_ACCESS"
  ELSE IF s = NIL THEN "E_OS_PARAM_POINTER"
  ELSE "E_OK"

\* The count is taken, or the task blocks at the tail of the queue.
WaitSem(s) ==
  /\ Caller
  /\ \/ SemReject(WaitSemError(s))
     \/ /\ Accept(WaitSemError(s))
        /\ IF sem[s].count # 0
           THEN /\ sem' = [sem EXCEPT ![s].count = @ - 1]
                /\ UNCHANGED <<th_status, schedVars, event_waitmask, waswaiting, th_next>>
           ELSE /\ sem' = [sem EXCEPT ![s].first = IF @ = NIL THEN current ELSE @,
                                      ![s].last = current]
                /\ Become(SwitchAway(Block(Now)))
                /\ th_next' = PushLink(EnterQueue(s))
        /\ UNCHANGED <<oo_started, irq, th_rnact, th_nextask, event_active, resVars>>

\* A fault: last is not reset when the queue becomes empty.
WokenLastStays(s) == [sem EXCEPT ![s].first = th_next[@]]

\* A fault: the woken task stays in the queue.
WokenStays(s) == sem

\* A fault: the post is counted too when it is handed to a waiter.
WokenCounted(s) ==
  LET n == th_next[sem[s].first] IN
  [sem EXCEPT ![s].first = n, ![s].last = IF n = NIL THEN NIL ELSE @, ![s].count = @ + 1]

\* The queue of s without its first waiter.
Woken(s) ==
  LET n == th_next[sem[s].first] IN
  [sem EXCEPT ![s].first = n, ![s].last = IF n = NIL THEN NIL ELSE @]

PostSemError(s) ==
  IF s = NIL THEN "E_OS_PARAM_POINTER"
  ELSE IF sem[s].first = NIL /\ sem[s].count = MaxSemCounter THEN "E_OS_VALUE"
  ELSE "E_OK"

\* Called by a task or an ISR: the first waiter becomes ready, or the post is
\* counted.
PostSem(s) ==
  /\ Caller
  /\ \/ SemReject(PostSemError(s))
     \/ /\ Accept(PostSemError(s))
        /\ IF sem[s].first = NIL
           THEN /\ sem' = [sem EXCEPT ![s].count = @ + 1]
                /\ UNCHANGED <<th_status, schedVars, event_waitmask, waswaiting, th_next>>
           ELSE /\ Become(PreemptionPoint([Now EXCEPT
                     !.status[sem[s].first] = "READY",
                     !.rq = RqInsert(@, sem[s].first)]))
                /\ sem' = Woken(s)
                /\ th_next' = PushLink(th_next)
        /\ UNCHANGED <<oo_started, irq, th_rnact, th_nextask, event_active, resVars>>

\* What the call returns is 0, 1 or EE_NIL; it never blocks.
TryWaitSem(s) ==
  /\ Caller
  /\ ret' = IF s = NIL THEN "EE_NIL" ELSE IF sem[s].count # 0 THEN "0" ELSE "1"
  /\ sem' = IF ret' = "0" THEN [sem EXCEPT ![s].count = @ - 1] ELSE sem
  /\ UNCHANGED <<kernelVars, th_next>>

\* GetValueSem: the count, or -1 while tasks wait.
GetValueSem(s) ==
  /\ Caller
  /\ ret' = IF s = NIL THEN "-1" ELSE IF sem[s].first = NIL THEN "count" ELSE "-1"
  /\ UNCHANGED <<kernelVars, semVars>>

\* Every other service of the kernel.
KernelStep == Next /\ th_next' = PushLink(th_next) /\ UNCHANGED sem

SemNext ==
  \/ KernelStep
  \/ \E s \in Sems \cup {NIL} : WaitSem(s) \/ PostSem(s) \/ TryWaitSem(s) \/ GetValueSem(s)

SemSpec == SemInit /\ [][SemNext]_allVars

-----------------------------------------------------------------------------
(* Properties.                                                             *)

\* The waiters of s in the order the links give them.
Chain(s) == Follow(sem[s].first, th_next, NIL, Cardinality(Tasks))

\* Every variable keeps the type of the C object it stands for; a semaphore has
\* a first waiter exactly when it has a last one.
SemTypeOK ==
  /\ sem \in [Sems -> [count : 0 .. MaxSemCounter, first : Tasks \cup {NIL},
                       last : Tasks \cup {NIL}]]
  /\ th_next \in [Tasks -> Tasks \cup {NIL}]
  /\ \A s \in Sems : sem[s].first = NIL <=> sem[s].last = NIL

\* The links of the tasks on the stack survive every queue operation: when the
\* running task leaves, EE_th_next gives the task it had preempted.
StackLinked ==
  \A i \in DOMAIN stk : th_next[stk[i]] = IF i = 1 THEN NIL ELSE stk[i - 1]

\* A waiting task waits in one place: once in the queue of one semaphore, or
\* for events with a mask, never both; the queue of a semaphore ends at last
\* and holds nobody who is ready, running or suspended. Hence SetEvent cannot
\* wake a task out of WaitSem nor PostSem one out of WaitEvent.
WaitsInOnePlace ==
  LET chain == [s \in Sems |-> Chain(s)]
      places(t) == {p \in Sems \X (1 .. Cardinality(Tasks)) :
                      p[2] \in DOMAIN chain[p[1]] /\ chain[p[1]][p[2]] = t}
  IN /\ \A t \in Tasks :
          th_status[t] = "WAITING"
            <=> Cardinality(places(t)) + (IF event_waitmask[t] # {} /\ t # current
                                             /\ Queued(t) = {} THEN 1 ELSE 0) = 1
     /\ \A t \in Tasks : places(t) # {} => th_status[t] = "WAITING" /\ event_waitmask[t] = {}
     /\ \A s \in Sems : sem[s].last = Top(chain[s])

\* The kernel's own accounts stay exact when tasks block on semaphores: status,
\* stack, ready queues, ceiling and pending activations.
KernelAgrees == StatusAgrees /\ ActivationAccounting /\ CeilingExact /\ StackOrdered

\* Each semaphore is a counting semaphore with a first-come queue: no post is
\* lost or served twice, no waiter is overtaken, and no call on one semaphore
\* changes another.
Fifo == INSTANCE FifoSemaphore
  WITH Waiters <- Tasks, MaxCount <- MaxSemCounter,
       count <- [s \in Sems |-> sem[s].count], queue <- [s \in Sems |-> Chain(s)]
ImplementsFifo == Fifo!Spec
=============================================================================
