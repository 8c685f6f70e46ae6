----------------------------- MODULE MCSemaphores -----------------------------
(* Three tasks of three priorities, two of them extended, and two semaphores. *)
EXTENDS Semaphores

SemTasks == {"lo", "mid", "hi"}
SemLevels == 0 .. 2
SemReady == [t \in SemTasks |-> CASE t = "lo" -> 0 [] t = "mid" -> 1 [] t = "hi" -> 2]
\* lo runs with an internal resource that it shares with mid.
SemDispatch == [t \in SemTasks |-> CASE t = "lo" -> 1 [] t = "mid" -> 1 [] t = "hi" -> 2]
SemRnact == [t \in SemTasks |-> 1]
SemAuto == [l \in SemLevels |-> IF l = 0 THEN <<"lo">> ELSE <<>>]
SemChain == [t \in SemTasks |-> {}]
NoRes == [r \in {} |-> 0]
SemInitCount == [s \in {"s1", "s2"} |-> IF s = "s1" THEN 1 ELSE 0]
=============================================================================
