------------------------------- MODULE ReadyFifo -------------------------------
(***************************************************************************)
(* What OsekKernel takes the ready queue and the stack to be: one FIFO of  *)
(* task identifiers per priority level and a stack of tasks.               *)
(***************************************************************************)
EXTENDS Integers, Sequences

CONSTANTS Tasks, NIL, Levels, Prio

VARIABLES queue, stack, first

vars == <<queue, stack, first>>

NonEmptyLevels(q) == {l \in Levels : q[l] # <<>>}
TopLevel(q) == CHOOSE l \in NonEmptyLevels(q) : \A m \in NonEmptyLevels(q) : m =< l
FirstOf(q) == IF NonEmptyLevels(q) = {} THEN NIL ELSE Head(q[TopLevel(q)])

Init ==
  /\ queue = [l \in Levels |-> <<>>]
  /\ stack = <<>>
  /\ first = NIL

Insert(t) ==
  /\ queue' = [queue EXCEPT ![Prio[t]] = Append(@, t)]
  /\ first' = FirstOf(queue')
  /\ UNCHANGED stack

\* The first task of the highest level moves to the top of the stack.
Exchange ==
  /\ first # NIL
  /\ queue' = [queue EXCEPT ![TopLevel(queue)] = Tail(@)]
  /\ stack' = <<first>> \o stack
  /\ first' = FirstOf(queue')

PopStack ==
  /\ stack # <<>>
  /\ stack' = Tail(stack)
  /\ UNCHANGED <<queue, first>>

Next == (\E t \in Tasks : Insert(t)) \/ Exchange \/ PopStack

Spec == Init /\ [][Next]_vars
=============================================================================
