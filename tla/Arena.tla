------------------------------- MODULE Arena -------------------------------
(***************************************************************************)
(* The arena all syntax tree nodes, lists and evaluated strings live in    *)
(* (bant/util/arena.h): memory is cut off the front of the current block,  *)
(* a request that does not fit starts a new block, and nothing is freed    *)
(* before everything is.                                                   *)
(*                                                                         *)
(* An address is a pair <<block number, offset>>; an allocation is the     *)
(* record of the block it was cut from, where it starts and how long it    *)
(* is.  A request for no bytes is legal (an empty glob() makes one): it    *)
(* returns the current position and moves nothing.                         *)
(***************************************************************************)
EXTENDS Integers

CONSTANTS
  BlockSize,    \* block_size_ the arena is made with
  RequestSizes  \* the sizes asked for

ASSUME BlockSizeAssumption == BlockSize \in Nat \ {0}
ASSUME RequestSizesAssumption == RequestSizes \subseteq Nat

VARIABLES
  blocks_,      \* number of blocks allocated so far; the last one is current
  end_,         \* length of the current block
  pos_,         \* next free offset in it
  allocations   \* everything handed out (ghost: the code keeps a count only)

arenaVars == <<blocks_, end_, pos_, allocations>>

Init ==
  /\ blocks_ = 0
  /\ end_ = 0
  /\ pos_ = 0
  /\ allocations = {}

(* pos_ is a null pointer until there is a block. *)
NeedsNewBlock(size) == blocks_ = 0 \/ size > end_ - pos_

(* std::max(size, block_size_): an oversized request has a block of its own. *)
NewBlockLength(size) == IF size > BlockSize THEN size ELSE BlockSize

(* Where Alloc(size) points to. *)
AllocatedAt(size) ==
  IF NeedsNewBlock(size) THEN <<blocks_ + 1, 0>> ELSE <<blocks_, pos_>>

\* Mutant: the request that started a block is not taken from it.
PosAfterForgetful(size) == IF NeedsNewBlock(size) THEN 0 ELSE pos_ + size
PosAfter(size) == IF NeedsNewBlock(size) THEN size ELSE pos_ + size

Alloc(size) ==
  /\ IF NeedsNewBlock(size)
       THEN blocks_' = blocks_ + 1 /\ end_' = NewBlockLength(size)
       ELSE UNCHANGED <<blocks_, end_>>
  /\ pos_' = PosAfter(size)
  /\ allocations' = allocations \cup
       {[block |-> AllocatedAt(size)[1], start |-> AllocatedAt(size)[2], size |-> size]}

Next == \E size \in RequestSizes : Alloc(size)

Spec == Init /\ [][Next]_arenaVars
-----------------------------------------------------------------------------
TypeOK ==
  /\ blocks_ \in Nat
  /\ end_ \in Nat
  /\ pos_ \in Nat
  /\ allocations \subseteq [block : Nat, start : Nat, size : Nat]

Overlap(a, b) ==
  /\ a.block = b.block
  /\ a.start < b.start + b.size
  /\ b.start < a.start + a.size

(* No byte is handed out twice: two different allocations never share      *)
(* memory, whatever sizes were asked for and wherever blocks were started  *)
(* (Alloc, NewBlock).                                                      *)
NoOverlap == \A a, b \in allocations : a # b => ~Overlap(a, b)

(* Everything handed out of the current block lies before the position the *)
(* next request is served from, and that position lies in the block: what  *)
(* makes NoOverlap inductive, and what keeps a write inside its block.     *)
CutFromTheFront ==
  /\ pos_ <= end_
  /\ \A a \in allocations :
       /\ a.block <= blocks_
       /\ a.block = blocks_ => a.start + a.size <= pos_
=============================================================================
