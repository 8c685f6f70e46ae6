--------------------------------- MODULE Heap ---------------------------------
(***************************************************************************)
(* The first-fit heap (contrib/bcm/utils/malloc.c): a list of free chunks, *)
(* blocks carved from the end of a chunk, and chunks merged again when a   *)
(* block is freed. Sizes and addresses are in units of 8 bytes. One heap   *)
(* is modelled, each call as one step: malloc and free hold MallocLock,    *)
(* the _atomic calls disable interrupts, and a heap is used either way but *)
(* not both. The magic numbers, read only by DBG_ASSERT, are left out.     *)
(***************************************************************************)
EXTENDS Naturals, Sequences, FiniteSets

CONSTANTS
  HeapSize, \* from system_malloc_baseaddr to system_malloc_endaddr
  Requests  \* bound: the sizes asked for

Alignment == 4    \* MSIZE_ALIGN
AllocHeader == 1  \* sizeof(malloc_alloc_t)
FreeHeader == 2   \* sizeof(malloc_free_t)

ASSUME HeapIsAligned == HeapSize \in Nat \ {0} /\ HeapSize % Alignment = 0
ASSUME RequestsAreSizes == Requests \subseteq Nat

\* Up to 2^32 - 40 bytes: with more, ALIGN(size + sizeof(malloc_alloc_t)) wraps around
\* in its 32 bits and malloc_internal looks for a chunk that is too small.
ASSUME RequestsDoNotWrap == \A n \in Requests : n <= 536870907

VARIABLES
  pool,    \* the list of free chunks, in list order
  blocks,  \* allocated blocks, with the size asked for
  defined  \* no NULL pointer has been written through

heapVars == <<pool, blocks, defined>>

EndOf(c) == c.at + c.size
AlignUp(n) == ((n + Alignment - 1) \div Alignment) * Alignment
SetSize(i, n) == [pool EXCEPT ![i].size = n]
Without(list, i) == SubSeq(list, 1, i - 1) \o SubSeq(list, i + 1, Len(list))
After(list, i, c) == SubSeq(list, 1, i) \o <<c>> \o SubSeq(list, i + 1, Len(list))

\* heap_init, mm_init
HeapInit ==
  /\ pool = <<[at |-> 0, size |-> HeapSize]>> /\ blocks = {} /\ defined = TRUE

\* malloc_internal and its wrappers. Without a chunk that is large enough nothing
\* changes and NULL is returned, with an empty list too.
Malloc(n) ==
  LET need == AlignUp(n + AllocHeader)
      fits == {i \in DOMAIN pool : pool[i].size >= need}
      i == CHOOSE k \in fits : \A j \in fits : k <= j
      whole == \/ pool[i].size = need
               \/ n + FreeHeader = pool[i].size   \* a header would be left; not while sizes are aligned
      size == IF pool[i].size # need /\ whole THEN need + FreeHeader ELSE need
  IN
  /\ defined /\ n > 0 /\ fits # {}
  /\ IF whole
     THEN /\ pool' = Without(pool, i)
          /\ blocks' = blocks \cup {[at |-> pool[i].at, size |-> size, asked |-> n]}
     ELSE /\ pool' = SetSize(i, pool[i].size - need)
          /\ blocks' = blocks \cup {[at |-> EndOf(pool[i]) - need, size |-> need, asked |-> n]}
  /\ UNCHANGED defined

\* Mutant of MergeFollowing.
MergeFollowingKeeps(list, i) ==   \* the chunk merged stays in the list
  IF i < Len(list) /\ EndOf(list[i]) = list[i + 1].at
  THEN [list EXCEPT ![i].size = @ + list[i + 1].size]
  ELSE list

\* "Check for a merge with the following free area", following in the list.
MergeFollowing(list, i) ==
  IF i < Len(list) /\ EndOf(list[i]) = list[i + 1].at
  THEN Without([list EXCEPT ![i].size = @ + list[i + 1].size], i + 1)
  ELSE list

\* free_internal and its wrappers. The search starts behind the first chunk, so a
\* block in front of it is put after it.
Free(b) ==
  LET passed == {k \in DOMAIN pool : \A j \in 2 .. k : pool[j].at < b.at}
      i == Cardinality(passed)
      chunk == [at |-> b.at, size |-> b.size]
  IN
  /\ defined
  /\ IF pool = <<>>
     THEN defined' = FALSE /\ UNCHANGED pool
     ELSE /\ pool' = IF EndOf(pool[i]) = b.at
                     THEN MergeFollowing(SetSize(i, pool[i].size + b.size), i)
                     ELSE MergeFollowing(After(pool, i, chunk), i + 1)
          /\ UNCHANGED defined
  /\ blocks' = blocks \ {b}

HeapNext ==
  \/ \E n \in Requests : Malloc(n)
  \/ \E b \in blocks : Free(b)
HeapSpec == HeapInit /\ [][HeapNext]_heapVars

-----------------------------------------------------------------------------
\* As long as the list was never empty at a free, every unit of the heap belongs to
\* exactly one free chunk or one block, and a block holds its header and what
\* was asked for: nothing is handed out twice and nothing lost, in whatever
\* order blocks are freed and however badly the list is sorted.
HeapTiled ==
  defined =>
    /\ \A u \in 0 .. HeapSize - 1 :
         Cardinality({i \in DOMAIN pool : u \in pool[i].at .. EndOf(pool[i]) - 1})
           + Cardinality({b \in blocks : u \in b.at .. EndOf(b) - 1}) = 1
    /\ \A i \in DOMAIN pool : EndOf(pool[i]) <= HeapSize
    /\ \A b \in blocks : b.asked + AllocHeader <= b.size /\ EndOf(b) <= HeapSize
=============================================================================
