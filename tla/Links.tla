--------------------------------- MODULE Links ---------------------------------
(***************************************************************************)
(* Lists that the kernel keeps as links in an array, read as sequences.    *)
(***************************************************************************)
EXTENDS Integers, Sequences, FiniteSets

\* What is met from first through the links next, n entries of it; nil follows nil.
Trail(first, next, nil, n) ==
  LET at[i \in 1 .. n] ==
        IF i = 1 THEN first ELSE IF at[i - 1] = nil THEN nil ELSE next[at[i - 1]]
  IN at

\* The list that the links give from first to nil, at most n entries of it.
Follow(first, next, nil, n) ==
  IF first = nil THEN <<>>
  ELSE LET met == Trail(first, next, nil, n) IN
       [i \in 1 .. Cardinality({j \in DOMAIN met : met[j] # nil}) |-> met[i]]
=============================================================================
