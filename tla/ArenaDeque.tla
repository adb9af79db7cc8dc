----------------------------- MODULE ArenaDeque -----------------------------
(***************************************************************************)
(* The append-only containers of the syntax tree (bant/util/arena-         *)
(* container.h): a chain of blocks in the arena, each at most twice as     *)
(* long as the one before.  Append, operator[], iteration and end() each   *)
(* work out for themselves where a block is full, and they have to agree.  *)
(*                                                                         *)
(* A block is one unit for its next pointer and one for each value.  The   *)
(* deque object, with its first block, is itself allocated in the arena,   *)
(* between other allocations and next to other deques.                     *)
(***************************************************************************)
EXTENDS Sequences, FiniteSets, Arena

CONSTANTS
  Deques,         \* the containers alive in the arena
  MinBlockSize,   \* MIN_BLOCK_SIZE
  MaxBlockSize,   \* MAX_BLOCK_SIZE
  Values,         \* what is stored
  MaxSize,        \* bound on the length of one container
  MaxOther        \* bound: others allocate only while there are fewer allocations

ASSUME BlockSizes ==
  /\ MinBlockSize \in Nat \ {0}
  /\ MaxBlockSize \in Nat
  /\ MinBlockSize <= MaxBlockSize
  /\ MaxSize \in Nat

VARIABLES
  memory,    \* address -> next pointer or value, for what was written
  deque,     \* the members of each container; Unmade before it is constructed
  appended   \* ghost: what was appended to each container, in order

vars == <<arenaVars, memory, deque, appended>>

NullPtr == <<0, 0>>

\* The members at first; top_ is the first block.
Empty(top) ==
  [top |-> top, current |-> top, next_block_pos |-> 0, block_size |-> MinBlockSize, size |-> 0]
Unmade == Empty(NullPtr)

(* BlockSizeTracker by what current() returns, the length of a block: it   *)
(* doubles, and stops to where the next one were above the maximum.        *)
AdvanceNextBounded(current) ==
  IF 2 * current <= MaxBlockSize THEN 2 * current ELSE current

BlockBytes(n) == 1 + n
ValueAt(block, i) == <<block[1], block[2] + 1 + i>>
Write(mem, at, v) == [a \in DOMAIN mem \cup {at} |-> IF a = at THEN v ELSE mem[a]]

DequeInit ==
  /\ Init
  /\ memory = <<>>
  /\ deque = [d \in Deques |-> Unmade]
  /\ appended = [d \in Deques |-> <<>>]

Made(d) == deque[d] # Unmade

(* arena->New<List>(): top_ is part of the object. *)
Construct(d) ==
  /\ ~Made(d)
  /\ Alloc(BlockBytes(MinBlockSize))
  /\ LET top == AllocatedAt(BlockBytes(MinBlockSize)) IN
       /\ deque' = [deque EXCEPT ![d] = Empty(top)]
       /\ memory' = Write(memory, top, NullPtr)
  /\ UNCHANGED appended

\* One more value, the last in the block it is in.
Grown(d, current, block_size, next_block_pos) ==
  [deque EXCEPT ![d] =
     [top |-> @.top, current |-> current, next_block_pos |-> next_block_pos,
      block_size |-> block_size, size |-> @.size + 1]]

AppendWithin(d, v) ==
  /\ deque[d].next_block_pos < deque[d].block_size
  /\ memory' = Write(memory, ValueAt(deque[d].current, deque[d].next_block_pos), v)
  /\ deque' = Grown(d, deque[d].current, deque[d].block_size, deque[d].next_block_pos + 1)
  /\ UNCHANGED arenaVars

AppendInNewBlock(d, v) ==
  LET new_N == AdvanceNextBounded(deque[d].block_size)
      bytes == BlockBytes(new_N)
      block == AllocatedAt(bytes)
      linked == Write(Write(memory, deque[d].current, block), block, NullPtr)
  IN /\ deque[d].next_block_pos >= deque[d].block_size
     /\ Alloc(bytes)
     /\ memory' = Write(linked, ValueAt(block, 0), v)
     /\ deque' = Grown(d, block, new_N, 1)

AppendValue(d, v) ==
  /\ Made(d)
  /\ deque[d].size < MaxSize
  /\ AppendWithin(d, v) \/ AppendInNewBlock(d, v)
  /\ appended' = [appended EXCEPT ![d] = Append(@, v)]

(* Any other user of the arena: a node, a string. *)
OtherAlloc(size) ==
  /\ Cardinality(allocations) < MaxOther
  /\ Alloc(size)
  /\ UNCHANGED <<memory, deque, appended>>

DequeNext ==
  \/ \E d \in Deques : Construct(d) \/ \E v \in Values : AppendValue(d, v)
  \/ \E size \in RequestSizes : OtherAlloc(size)

DequeSpec == DequeInit /\ [][DequeNext]_vars
-----------------------------------------------------------------------------
(* A place in a chain of blocks: a block, its length, and a position in it  *)
(* or counted from it.                                                     *)
Place == [block : Nat \X Nat, pos : Nat, block_size : Nat]

SkipBlock[access \in Place] ==
  IF access.pos < access.block_size THEN access
  ELSE [block      |-> memory[access.block],
        pos        |-> access.pos - access.block_size,
        block_size |-> AdvanceNextBounded(access.block_size)]

(* operator[]: skip whole blocks while the position is behind them, which  *)
(* is done after as many as there are positions.                           *)
At(d, i) ==
  LET skipped[n \in 0..i] ==
        IF n = 0
        THEN [block |-> deque[d].top, pos |-> i, block_size |-> MinBlockSize]
        ELSE SkipBlock[skipped[n - 1]]
  IN memory[ValueAt(skipped[i].block, skipped[i].pos)]

Begin(d) == [block |-> deque[d].top, pos |-> 0, block_size |-> MinBlockSize]

\* Mutant: the iterator's blocks do not grow.
AdvancedSameSize(it) ==
  IF it.pos + 1 >= it.block_size
    THEN [block |-> memory[it.block], pos |-> 0, block_size |-> it.block_size]
    ELSE [it EXCEPT !.pos = @ + 1]
(* iterator::operator++ *)
Advanced(it) ==
  IF it.pos + 1 >= it.block_size
    THEN [block      |-> memory[it.block],
          pos        |-> 0,
          block_size |-> AdvanceNextBounded(it.block_size)]
    ELSE [it EXCEPT !.pos = @ + 1]

\* Mutant: a full last block is no special case.
EndIteratorInBlock(d) ==
  [block |-> deque[d].current, pos |-> deque[d].next_block_pos]
EndIterator(d) ==
  IF deque[d].next_block_pos = deque[d].block_size
    THEN [block |-> NullPtr, pos |-> 0]
    ELSE [block |-> deque[d].current, pos |-> deque[d].next_block_pos]

(* operator== with end(). *)
AtEnd(d, it) == it.block = EndIterator(d).block /\ it.pos = EndIterator(d).pos

Read(it) == ValueAt(it.block, it.pos)

Increment[it \in Place] == IF Read(it) \in DOMAIN memory THEN Advanced(it) ELSE it

(* The iterator after each number of increments.  Where what it stands at  *)
(* was never written, it has run off the end and gets nowhere.             *)
After(d) ==
  LET after[n \in 0..deque[d].size] ==
        IF n = 0 THEN Begin(d) ELSE Increment[after[n - 1]]
  IN after

(* for (x : deque): compare with end() before every element.  A null       *)
(* element stands for an iteration that does not stop in time.             *)
Iterated(d) ==
  LET ends == {n \in 0..deque[d].size : AtEnd(d, After(d)[n])}
      stop == CHOOSE n \in ends : \A m \in ends : n <= m
  IN IF ends = {} THEN <<NullPtr>>
     ELSE [n \in 1..stop |-> memory[Read(After(d)[n - 1])]]

DequeTypeOK ==
  /\ TypeOK
  /\ \A d \in Deques :
       /\ deque[d].size \in 0..MaxSize
       /\ appended[d] \in Seq(Values)
       /\ deque[d].block_size \in MinBlockSize..MaxBlockSize
       /\ deque[d].next_block_pos \in 0..deque[d].block_size

(* Iterating a container visits what was appended to it, in that order,    *)
(* and stops: no boundary of a block skips, repeats or invents an element, *)
(* whatever else was allocated in between (iterator, end(), Append).       *)
IterationIsAppendOrder == \A d \in Deques : Made(d) => Iterated(d) = appended[d]

(* operator[] finds the same element as the iteration, and size() is the   *)
(* number of them.                                                         *)
IndexAgreesWithIteration ==
  \A d \in Deques : Made(d) =>
    /\ deque[d].size = Len(appended[d])
    /\ \A i \in 0..deque[d].size - 1 : At(d, i) = appended[d][i + 1]

(* Every address the containers write lies in memory the arena gave to     *)
(* them: "enough so that we can write beyond the nominal end of value".    *)
WritesAreAllocated ==
  \A a \in DOMAIN memory : \E m \in allocations :
    m.block = a[1] /\ m.start <= a[2] /\ a[2] < m.start + m.size

(* What a container promises: an append-only sequence per container.       *)
Promise == INSTANCE AppendOnly WITH
  Keys <- Deques, contents <- [d \in Deques |-> IF Made(d) THEN Iterated(d) ELSE <<>>]

(* The chain of blocks implements that: every step of the arena and the    *)
(* containers is, seen through iteration, an append of one element to one  *)
(* container or nothing at all.                                            *)
ImplementsAppendOnly == Promise!Spec

(* The chain of blocks, seen from all its sides: iterator, operator[],     *)
(* size(), and the addresses that Append() writes to.                      *)
ContainersAreSound ==
  DequeTypeOK /\ IterationIsAppendOrder /\ IndexAgreesWithIteration /\ WritesAreAllocated
=============================================================================
