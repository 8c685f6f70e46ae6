------------------------------- MODULE ReadyQueue -------------------------------
(***************************************************************************)
(* The ready queue of conformance class ECC2 as the C code lays it out: a  *)
(* pool of pairs linked by index into one list per level and a free list,  *)
(* a 16-bit mask of the non-empty levels looked up byte by byte, and the   *)
(* stack linked through EE_th_next. Its callers are the services of        *)
(* OsekKernel, whose invariants are the guards of the two actions that the *)
(* code leaves unprotected.                                                *)
(***************************************************************************)
EXTENDS Links

CONSTANTS
  Tasks, NIL,       \* the TIDs and EE_NIL
  rq_link,          \* EE_rq_link: index of the queue of each task
  RnactMax,         \* EE_th_rnact_max
  Pairs             \* the number of pairs

\* What the tasks may ask for at one time.
Activations == UNION {{t} \X (1 .. RnactMax[t]) : t \in Tasks}

ASSUME ReadyQueueAssumption ==
  /\ IsFiniteSet(Tasks) /\ NIL \notin Tasks
  /\ rq_link \in [Tasks -> 0 .. 15]
  /\ RnactMax \in [Tasks -> Nat \ {0}]
  /\ Pairs \in Nat \ {0}
  \* eecfg.c: there are as many pairs as activations in total.
  /\ Pairs = Cardinality(Activations)

VARIABLES
  pairs_next,       \* EE_rq_pairs_next
  pairs_tid,        \* EE_rq_pairs_tid
  queues_head,      \* EE_rq_queues_head
  queues_tail,      \* EE_rq_queues_tail
  rq_free,          \* EE_rq_free
  rq_bitmask,       \* EE_rq_bitmask
  stkfirst,         \* EE_stkfirst
  th_next           \* EE_th_next

rqVars == <<pairs_next, pairs_tid, queues_head, queues_tail, rq_free, rq_bitmask>>
rqStkVars == <<rqVars, stkfirst, th_next>>

Levels == 0 .. 15
PairIds == 0 .. Pairs - 1

\* EE_rq_lookup: position of the highest bit of a byte, -1 for none.
rq_lookup(byte) ==
  IF byte = 0 THEN -1 ELSE CHOOSE x \in 0 .. 7 : 2^x =< byte /\ byte < 2^(x + 1)

\* A fault: the low byte is looked up first.
HighestLevelLowFirst ==
  IF rq_bitmask % 256 # 0 THEN rq_lookup(rq_bitmask % 256)
  ELSE IF rq_bitmask = 0 THEN -1
  ELSE rq_lookup(rq_bitmask \div 256) + 8

\* The two lookups of EE_rq_queryfirst and EE_rq2stk_exchange.
HighestLevel ==
  IF rq_bitmask \div 256 # 0 THEN rq_lookup(rq_bitmask \div 256) + 8
  ELSE rq_lookup(rq_bitmask)

rq_queryfirst == IF HighestLevel = -1 THEN NIL ELSE pairs_tid[queues_head[HighestLevel]]

RqInit ==
  /\ pairs_next = [x \in PairIds |-> IF x = Pairs - 1 THEN -1 ELSE x + 1]
  /\ pairs_tid = [x \in PairIds |-> NIL]
  /\ queues_head = [p \in Levels |-> -1]
  /\ queues_tail = [p \in Levels |-> -1]
  /\ rq_free = 0
  /\ rq_bitmask = 0
  /\ stkfirst = NIL
  /\ th_next = [t \in Tasks |-> NIL]

\* A fault: the tail is not moved when the queue has a task already.
rq_insert_keeps_tail(t) ==
  LET p == rq_link[t]
      empty == queues_tail[p] = -1
  IN
  /\ rq_free' = pairs_next[rq_free]
  /\ pairs_tid' = [pairs_tid EXCEPT ![rq_free] = t]
  /\ pairs_next' = IF empty THEN [pairs_next EXCEPT ![rq_free] = -1]
                   ELSE [pairs_next EXCEPT ![rq_free] = -1, ![queues_tail[p]] = rq_free]
  /\ rq_bitmask' = IF empty THEN rq_bitmask + 2^p ELSE rq_bitmask
  /\ queues_head' = IF empty THEN [queues_head EXCEPT ![p] = rq_free] ELSE queues_head
  /\ queues_tail' = IF empty THEN [queues_tail EXCEPT ![p] = rq_free] ELSE queues_tail

\* EE_rq_insert: a free pair is filled and put at the tail of its queue.
rq_insert(t) ==
  LET p == rq_link[t]
      empty == queues_tail[p] = -1
  IN
  /\ rq_free' = pairs_next[rq_free]
  /\ pairs_tid' = [pairs_tid EXCEPT ![rq_free] = t]
  /\ pairs_next' = IF empty THEN [pairs_next EXCEPT ![rq_free] = -1]
                   ELSE [pairs_next EXCEPT ![rq_free] = -1, ![queues_tail[p]] = rq_free]
  /\ rq_bitmask' = IF empty THEN rq_bitmask + 2^p ELSE rq_bitmask
  /\ queues_head' = IF empty THEN [queues_head EXCEPT ![p] = rq_free] ELSE queues_head
  /\ queues_tail' = [queues_tail EXCEPT ![p] = rq_free]

\* A fault: the tail of a queue that becomes empty is not reset.
rq2stk_exchange_keeps_tail ==
  LET x == HighestLevel
      y == queues_head[x]
      last == pairs_next[y] = -1
  IN
  /\ queues_head' = [queues_head EXCEPT ![x] = pairs_next[y]]
  /\ pairs_next' = [pairs_next EXCEPT ![y] = rq_free]
  /\ rq_free' = y
  /\ rq_bitmask' = IF last THEN rq_bitmask - 2^x ELSE rq_bitmask
  /\ th_next' = [th_next EXCEPT ![pairs_tid[y]] = stkfirst]
  /\ stkfirst' = pairs_tid[y]
  /\ UNCHANGED <<pairs_tid, queues_tail>>

\* A fault: the pair of the dispatched task is not freed.
rq2stk_exchange_leaks ==
  LET x == HighestLevel
      y == queues_head[x]
      last == pairs_next[y] = -1
  IN
  /\ queues_head' = [queues_head EXCEPT ![x] = pairs_next[y]]
  /\ queues_tail' = IF last THEN [queues_tail EXCEPT ![x] = -1] ELSE queues_tail
  /\ rq_bitmask' = IF last THEN rq_bitmask - 2^x ELSE rq_bitmask
  /\ th_next' = [th_next EXCEPT ![pairs_tid[y]] = stkfirst]
  /\ stkfirst' = pairs_tid[y]
  /\ UNCHANGED <<pairs_next, pairs_tid, rq_free>>

\* EE_rq2stk_exchange: the first task leaves its queue for the top of the stack
\* and its pair goes back to the head of the free list.
rq2stk_exchange ==
  LET x == HighestLevel
      y == queues_head[x]
      last == pairs_next[y] = -1
  IN
  /\ queues_head' = [queues_head EXCEPT ![x] = pairs_next[y]]
  /\ pairs_next' = [pairs_next EXCEPT ![y] = rq_free]
  /\ rq_free' = y
  /\ queues_tail' = IF last THEN [queues_tail EXCEPT ![x] = -1] ELSE queues_tail
  /\ rq_bitmask' = IF last THEN rq_bitmask - 2^x ELSE rq_bitmask
  /\ th_next' = [th_next EXCEPT ![pairs_tid[y]] = stkfirst]
  /\ stkfirst' = pairs_tid[y]
  /\ UNCHANGED pairs_tid

-----------------------------------------------------------------------------
(* The lists, as sequences.                                                *)

QueuePairs(p) == Follow(queues_head[p], pairs_next, -1, Pairs + 1)
FreePairs == Follow(rq_free, pairs_next, -1, Pairs + 1)
StackSeq == Follow(stkfirst, th_next, NIL, Cardinality(Tasks) + 1)

StackTasks == {StackSeq[i] : i \in DOMAIN StackSeq}
QueueSeq(p) == [i \in DOMAIN QueuePairs(p) |-> pairs_tid[QueuePairs(p)[i]]]

Instances(t) == Cardinality({i \in DOMAIN QueueSeq(rq_link[t]) : QueueSeq(rq_link[t])[i] = t})
              + (IF t \in StackTasks THEN 1 ELSE 0)

-----------------------------------------------------------------------------
(* The calls the services make.                                            *)

\* ActivationAccounting of OsekKernel: no more instances than activations.
RqInsert(t) ==
  /\ Instances(t) < RnactMax[t]
  /\ rq_insert(t)
  /\ UNCHANGED <<stkfirst, th_next>>

\* StackOrdered of OsekKernel: a task on the stack is not dispatched again.
Exchange ==
  /\ rq_queryfirst \notin StackTasks \cup {NIL}
  /\ rq2stk_exchange

\* EE_stk_getfirst: the task that ends or waits leaves the stack.
PopStack ==
  /\ stkfirst # NIL
  /\ stkfirst' = th_next[stkfirst]
  /\ UNCHANGED <<rqVars, th_next>>

RqNext == (\E t \in Tasks : RqInsert(t)) \/ Exchange \/ PopStack

RqSpec == RqInit /\ [][RqNext]_rqStkVars

-----------------------------------------------------------------------------
(* Properties.                                                             *)

\* Every pair is in exactly one list, once: none leaks, none is shared by two
\* lists and no list has a cycle, whatever the order of insertions and removals.
PoolPartitioned ==
  LET queued == [p \in Levels |-> QueuePairs(p)]
      free == FreePairs
  IN \A x \in PairIds :
       Cardinality({a \in Levels \X (1 .. Pairs + 1) :
                      a[2] \in DOMAIN queued[a[1]] /\ queued[a[1]][a[2]] = x})
         + Cardinality({i \in DOMAIN free : free[i] = x}) = 1

\* The mask, the heads and the tails agree on which queues are empty, and a tail
\* is the last pair of its queue.
MaskHeadTailAgree ==
  \A p \in Levels :
    /\ (rq_bitmask \div 2^p) % 2 = (IF queues_head[p] = -1 THEN 0 ELSE 1)
    /\ queues_head[p] = -1 <=> queues_tail[p] = -1
    /\ queues_tail[p] # -1 => queues_tail[p] = QueuePairs(p)[Len(QueuePairs(p))]

\* The unprotected EE_rq_insert never meets an empty free list.
FreePairLeft == \A t \in Tasks : Instances(t) < RnactMax[t] => rq_free # -1

Fifo == INSTANCE ReadyFifo WITH
  Prio <- rq_link,
  queue <- [p \in Levels |-> QueueSeq(p)],
  stack <- StackSeq,
  first <- rq_queryfirst

\* The linked pairs behave as FIFO queues by level and a stack, and the lookup
\* through the mask finds the head of the highest non-empty level.
FifoSpec == Fifo!Spec
=============================================================================
