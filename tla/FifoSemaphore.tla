---------------------------- MODULE FifoSemaphore ----------------------------
(***************************************************************************)
(* What the semaphores of the kernel promise, without the links they are   *)
(* made of: bounded counts, and waiters served in the order they came. A   *)
(* post is handed to the first waiter and never counted at the same time.  *)
(***************************************************************************)
EXTENDS Naturals, Sequences

CONSTANTS Sems, Waiters, MaxCount

VARIABLES count, queue

vars == <<count, queue>>

Init == count \in [Sems -> 0 .. MaxCount] /\ queue = [s \in Sems |-> <<>>]

Take(s) ==
  /\ count[s] > 0
  /\ count' = [count EXCEPT ![s] = @ - 1]
  /\ UNCHANGED queue

\* A waiter waits for one thing at a time.
Enter(s, t) ==
  /\ count[s] = 0
  /\ \A u \in Sems : \A i \in DOMAIN queue[u] : queue[u][i] # t
  /\ queue' = [queue EXCEPT ![s] = Append(@, t)]
  /\ UNCHANGED count

HandOver(s) ==
  /\ queue[s] # <<>>
  /\ queue' = [queue EXCEPT ![s] = Tail(@)]
  /\ UNCHANGED count

Post(s) ==
  /\ queue[s] = <<>> /\ count[s] < MaxCount
  /\ count' = [count EXCEPT ![s] = @ + 1]
  /\ UNCHANGED queue

Next == \E s \in Sems : Take(s) \/ HandOver(s) \/ Post(s) \/ \E t \in Waiters : Enter(s, t)

Spec == Init /\ [][Next]_vars
=============================================================================
