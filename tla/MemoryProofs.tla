---------------------------- MODULE MemoryProofs ----------------------------
(***************************************************************************)
(* The arena hands out no byte twice, for every block size and every       *)
(* sequence of requests; the containers in it are append-only sequences,   *)
(* for all sizes of their blocks and whatever is between them; every       *)
(* string has its location, for any texts, packages and memory: what the   *)
(* map finds by the end of a range is the one entry the range is in; and   *)
(* the scanner, which makes these ranges, is faithful to any text.         *)
(***************************************************************************)
EXTENDS ArenaDeque, SourceLocations, ScannedText, Induction, SequenceTheorems, FiniteSetTheorems, TLAPS

-----------------------------------------------------------------------------
(* The arena.                                                              *)

ArenaInv == TypeOK /\ CutFromTheFront /\ NoOverlap

(* A request is served behind everything cut from the same block before,   *)
(* and ends inside the block (Alloc).                                      *)
LEMMA ServedBehindTheRest ==
  ASSUME ArenaInv, NEW size \in Nat, Alloc(size)
  PROVE  LET at == AllocatedAt(size) IN
         /\ at[1] = blocks_' /\ at[1] \in Nat /\ at[2] \in Nat
         /\ blocks_' \in Nat /\ end_' \in Nat /\ pos_' \in Nat
         /\ at[2] + size = pos_' /\ pos_' <= end_'
         /\ blocks_ <= blocks_'
         /\ \A a \in allocations :
              /\ a.block <= blocks_'
              /\ a.block = blocks_' => a.start + a.size <= at[2]
<1>1. size \in Nat /\ BlockSize \in Nat
  BY BlockSizeAssumption
<1>2. CASE NeedsNewBlock(size)
  <2>1. /\ blocks_' = blocks_ + 1
        /\ end_' = NewBlockLength(size)
        /\ pos_' = size
        /\ AllocatedAt(size) = <<blocks_ + 1, 0>>
    BY <1>2 DEF Alloc, PosAfter, AllocatedAt
  <2>2. NewBlockLength(size) \in Nat /\ size <= NewBlockLength(size)
    BY <1>1 DEF NewBlockLength
  <2>3. \A a \in allocations : a.block \in Nat /\ a.block < blocks_ + 1
    BY DEF ArenaInv, TypeOK, CutFromTheFront
  <2> QED BY <1>1, <2>1, <2>2, <2>3 DEF ArenaInv, TypeOK
<1>3. CASE ~NeedsNewBlock(size)
  <2>1. /\ blocks_' = blocks_
        /\ end_' = end_
        /\ pos_' = pos_ + size
        /\ AllocatedAt(size) = <<blocks_, pos_>>
    BY <1>3 DEF Alloc, PosAfter, AllocatedAt
  <2>2. size <= end_ - pos_
    BY <1>1, <1>3 DEF NeedsNewBlock, ArenaInv, TypeOK
  <2> QED BY <1>1, <2>1, <2>2 DEF ArenaInv, TypeOK, CutFromTheFront
<1> QED BY <1>2, <1>3

LEMMA AllocPreserves ==
  ASSUME ArenaInv, NEW size \in Nat, Alloc(size)
  PROVE  ArenaInv'
<1> DEFINE at == AllocatedAt(size)
           new == [block |-> at[1], start |-> at[2], size |-> size]
<1>1. size \in Nat
  OBVIOUS
<1>2. allocations' = allocations \cup {new}
  BY DEF Alloc
<1>3. /\ at[1] = blocks_' /\ at[1] \in Nat /\ at[2] \in Nat
      /\ blocks_' \in Nat /\ end_' \in Nat /\ pos_' \in Nat
      /\ at[2] + size = pos_' /\ pos_' <= end_'
      /\ blocks_ <= blocks_'
      /\ \A a \in allocations :
           /\ a.block <= blocks_'
           /\ a.block = blocks_' => a.start + a.size <= at[2]
  BY ServedBehindTheRest
<1> HIDE DEF at
<1>4. new \in [block : Nat, start : Nat, size : Nat]
  BY <1>1, <1>3
<1>5. TypeOK'
  BY <1>2, <1>3, <1>4 DEF ArenaInv, TypeOK
<1>6. CutFromTheFront'
  <2>1. ASSUME NEW a \in allocations', a.block = blocks_'
        PROVE  a.start + a.size <= pos_'
    <3>1. CASE a = new BY <1>1, <1>3, <3>1
    <3>2. CASE a \in allocations
      BY <1>1, <1>3, <2>1, <3>2 DEF ArenaInv, TypeOK
    <3> QED BY <1>2, <3>1, <3>2
  <2>2. ASSUME NEW a \in allocations' PROVE a.block <= blocks_'
    BY <1>2, <1>3
  <2> QED BY <1>3, <2>1, <2>2 DEF CutFromTheFront
<1>7. NoOverlap'
  <2>1. ASSUME NEW a \in allocations PROVE ~Overlap(a, new) /\ ~Overlap(new, a)
    BY <1>1, <1>3 DEF Overlap, ArenaInv, TypeOK
  <2>2. \A a, b \in allocations : a # b => ~Overlap(a, b)
    BY DEF ArenaInv, NoOverlap
  <2>3. \A a, b \in allocations' : a # b => ~Overlap(a, b)
    BY <1>2, <2>1, <2>2
  <2> QED BY <2>3 DEF NoOverlap, Overlap
<1> QED BY <1>5, <1>6, <1>7 DEF ArenaInv

LEMMA InvariantHolds == Spec => []ArenaInv
<1>1. Init => ArenaInv
  BY DEF Init, ArenaInv, TypeOK, CutFromTheFront, NoOverlap
<1>2. ArenaInv /\ [Next]_arenaVars => ArenaInv'
  <2>1. ASSUME ArenaInv, NEW size \in Nat, Alloc(size) PROVE ArenaInv'
    BY <2>1, AllocPreserves
  <2>2. ASSUME ArenaInv, UNCHANGED arenaVars PROVE ArenaInv'
    BY <2>2 DEF arenaVars, ArenaInv, TypeOK, CutFromTheFront, NoOverlap, Overlap
  <2>3. ASSUME ArenaInv, Next PROVE ArenaInv'
    BY <2>1, <2>3, RequestSizesAssumption DEF Next
  <2> QED BY <2>2, <2>3
<1> QED BY <1>1, <1>2, PTL DEF Spec

(* The counters of the arena and its record of what it handed out keep     *)
(* their types, and a request is always served inside its block.           *)
THEOREM ServedInsideTheBlock == Spec => [](TypeOK /\ CutFromTheFront)
<1>1. ArenaInv => TypeOK /\ CutFromTheFront
  BY DEF ArenaInv
<1> QED BY <1>1, InvariantHolds, PTL

(* Two different allocations never share memory.                           *)
THEOREM AllocationsAreDisjoint == Spec => []NoOverlap
<1>1. ArenaInv => NoOverlap
  BY DEF ArenaInv
<1> QED BY <1>1, InvariantHolds, PTL

-----------------------------------------------------------------------------
(* The containers: what is written and where.                              *)

Addresses == Nat \X Nat

\* The memory of an address handed out is not a null pointer's.
MemoryInv ==
  /\ WritesAreAllocated
  /\ DOMAIN memory \subseteq Addresses
  /\ \A m \in allocations : m.block >= 1

\* The members of a container, in the ranges the code keeps them in.
MembersOK(d) ==
  /\ deque[d].top \in Addresses /\ deque[d].current \in Addresses
  /\ deque[d].size \in 0..MaxSize
  /\ deque[d].block_size \in MinBlockSize..MaxBlockSize
  /\ deque[d].next_block_pos \in 0..deque[d].block_size
  /\ appended[d] \in Seq(Values)
  /\ deque[d].size = Len(appended[d])
  /\ ~Made(d) => appended[d] = <<>>

Member == [top : Addresses, current : Addresses, next_block_pos : Nat, block_size : Nat, size : Nat]

MembersInv ==
  /\ deque \in [Deques -> Member]
  /\ appended \in [Deques -> Seq(Values)]
  /\ \A d \in Deques : MembersOK(d)

\* The last block ends the chain, is allocated, and not written behind its values.
Room(d) ==
  LET q == deque[d] IN
  /\ q.current \in DOMAIN memory /\ memory[q.current] = NullPtr
  /\ [block |-> q.current[1], start |-> q.current[2], size |-> BlockBytes(q.block_size)]
       \in allocations
  /\ \A n \in q.next_block_pos .. q.block_size - 1 :
       ValueAt(q.current, n) \notin DOMAIN memory

\* p says where the iterator is after n increments.
WalksAlong(d, p) ==
  p = [n \in 0..deque[d].size |-> IF n = 0 THEN Begin(d) ELSE Increment[p[n - 1]]]

\* There it reads the value appended as number n.
Visits(d, p) ==
  \A n \in 0..deque[d].size - 1 :
    /\ p[n] \in Place /\ p[n].pos < p[n].block_size
    /\ p[n].block \in DOMAIN memory
    /\ Read(p[n]) \in DOMAIN memory
    /\ memory[Read(p[n])] = appended[d][n + 1]

\* The last of them are in the last block.
LastOnes(d, p) ==
  /\ \A n \in 0..deque[d].size - 1 :
       p[n].block = deque[d].current =>
         /\ p[n].block_size = deque[d].block_size
         /\ p[n].pos = deque[d].next_block_pos - (deque[d].size - n)
  /\ deque[d].next_block_pos > 0 =>
       deque[d].size > 0 /\ p[deque[d].size - 1].block = deque[d].current

\* In the end it is where the next value will be, or off the chain.
Arrives(d, p) ==
  p[deque[d].size] =
    IF deque[d].next_block_pos < deque[d].block_size
    THEN [block |-> deque[d].current, pos |-> deque[d].next_block_pos,
          block_size |-> deque[d].block_size]
    ELSE [block |-> NullPtr, pos |-> 0,
          block_size |-> AdvanceNextBounded(deque[d].block_size)]

Path(d, p) == WalksAlong(d, p) /\ Visits(d, p) /\ LastOnes(d, p) /\ Arrives(d, p)

\* The last block of d is not that of e, nor behind a value or a block of e.
Apart(d, e, p) ==
  /\ d # e => deque[d].current # deque[e].current
  /\ \A n \in 0..deque[e].size - 1 :
       Read(p[n]) # deque[d].current /\ (d # e => p[n].block # deque[d].current)

Chains(P) ==
  /\ \A d \in Deques : Made(d) => Room(d) /\ Path(d, P[d])
  /\ \A d, e \in Deques : Made(d) /\ Made(e) => Apart(d, e, P[e])

DequeInv == ArenaInv /\ MemoryInv /\ MembersInv /\ \E P : Chains(P)

LEMMA InitDequeInv == DequeInit => DequeInv
<1>. SUFFICES ASSUME DequeInit PROVE DequeInv
  OBVIOUS
<1>1. ArenaInv
  BY DEF DequeInit, Init, ArenaInv, TypeOK, CutFromTheFront, NoOverlap
<1>2. DOMAIN memory = {}
  BY DEF DequeInit
<1>3. MemoryInv
  BY <1>2 DEF DequeInit, Init, MemoryInv, WritesAreAllocated
<1>4. MembersInv
  BY BlockSizes DEF DequeInit, MembersInv, MembersOK, Made, Unmade, Empty, NullPtr, Addresses, Member
<1>5. Chains(0)
  BY DEF DequeInit, Chains, Made
<1>. QED  BY <1>1, <1>3, <1>4, <1>5 DEF DequeInv

\* A new allocation is written nowhere, and behind all others of its arena block.
LEMMA Fresh ==
  ASSUME ArenaInv, MemoryInv, NEW size \in Nat \ {0}, Alloc(size)
  PROVE  LET at == AllocatedAt(size) IN
         /\ at \in Addresses /\ at[1] >= 1
         /\ [block |-> at[1], start |-> at[2], size |-> size] \in allocations'
         /\ \A m \in allocations : m.block = at[1] => m.start + m.size <= at[2]
         /\ \A k \in 0..size - 1 : <<at[1], at[2] + k>> \notin DOMAIN memory
<1>. DEFINE at == AllocatedAt(size)
<1>1. at[1] \in Nat /\ at[2] \in Nat
      /\ \A m \in allocations : m.block = at[1] => m.start + m.size <= at[2]
  BY ServedBehindTheRest
<1>2. at = <<at[1], at[2]>>
  BY DEF AllocatedAt
<1>3. at[1] >= 1
  BY DEF AllocatedAt, NeedsNewBlock, ArenaInv, TypeOK
<1>4. [block |-> at[1], start |-> at[2], size |-> size] \in allocations'
  BY DEF Alloc
<1>. HIDE DEF at
<1>5. ASSUME NEW k \in 0..size - 1, <<at[1], at[2] + k>> \in DOMAIN memory PROVE FALSE
  <2>1. PICK m \in allocations : /\ m.block = at[1] /\ m.start <= at[2] + k
                                 /\ at[2] + k < m.start + m.size
    BY <1>5 DEF MemoryInv, WritesAreAllocated
  <2>2. m.start \in Nat /\ m.size \in Nat
    BY DEF ArenaInv, TypeOK
  <2>. QED  BY <1>1, <2>1, <2>2
<1>6. at \in Addresses
  BY <1>1, <1>2 DEF Addresses
<1>. QED  BY <1>1, <1>3, <1>4, <1>5, <1>6 DEF at

\* An iterator that is not at the end of its block, and one that is.
LEMMA IncrementIs ==
  ASSUME NEW it \in Place, Read(it) \in DOMAIN memory
  PROVE  Increment[it] = Advanced(it)
BY DEF Increment

\* A walk does not depend on what was written elsewhere.
LEMMA KeepPath ==
  ASSUME NEW e \in Deques, NEW p, Path(e, p), deque'[e] = deque[e], appended'[e] = appended[e],
         deque[e].size \in Nat,
         DOMAIN memory \subseteq DOMAIN memory',
         \A n \in 0..deque[e].size - 1 :
           memory'[p[n].block] = memory[p[n].block] /\ memory'[Read(p[n])] = memory[Read(p[n])]
  PROVE  Path(e, p)'
<1>. DEFINE size == deque[e].size
<1>1. \A n \in 0..size - 1 : Increment'[p[n]] = Increment[p[n]]
  <2>. SUFFICES ASSUME NEW n \in 0..size - 1 PROVE Increment'[p[n]] = Increment[p[n]]
    OBVIOUS
  <2>1. p[n] \in Place /\ Read(p[n]) \in DOMAIN memory /\ Read(p[n]) \in DOMAIN memory'
    BY DEF Path, Visits
  <2>2. Advanced(p[n])' = Advanced(p[n])
    BY DEF Advanced
  <2>3. Increment[p[n]] = Advanced(p[n])
    BY <2>1, IncrementIs
  <2>4. Increment'[p[n]] = Advanced(p[n])'
    BY <2>1 DEF Increment, Read, ValueAt
  <2>. QED  BY <2>2, <2>3, <2>4
<1>2. WalksAlong(e, p)'
  <2>1. p = [n \in 0..size |-> IF n = 0 THEN Begin(e) ELSE Increment[p[n - 1]]]
    BY DEF Path, WalksAlong
  <2>2. Begin(e)' = Begin(e)
    BY DEF Begin
  <2>3. \A n \in 0..size : n # 0 => n - 1 \in 0..size - 1
    OBVIOUS
  <2>4. deque'[e].size = size
    OBVIOUS
  <2>. HIDE DEF size
  <2>5. [n \in 0..size |-> IF n = 0 THEN Begin(e) ELSE Increment[p[n - 1]]]
        = [n \in 0..size |-> IF n = 0 THEN Begin(e)' ELSE Increment'[p[n - 1]]]
    BY <1>1, <2>2, <2>3
  <2>6. p = [n \in 0..size |-> IF n = 0 THEN Begin(e)' ELSE Increment'[p[n - 1]]]
    BY <2>1, <2>5
  <2>. QED  BY <2>4, <2>6 DEF WalksAlong
<1>. HIDE DEF size
<1>3. Visits(e, p)'
  BY DEF Path, Visits, Read, ValueAt
<1>4. LastOnes(e, p)'
  BY DEF Path, LastOnes
<1>5. Arrives(e, p)'
  BY DEF Path, Arrives
<1>. QED  BY <1>2, <1>3, <1>4, <1>5 DEF Path

\* A last block keeps its room where only other addresses are written.
LEMMA KeepRoom ==
  ASSUME NEW e \in Deques, Room(e), deque'[e] = deque[e], allocations \subseteq allocations',
         memory'[deque[e].current] = memory[deque[e].current],
         DOMAIN memory \subseteq DOMAIN memory',
         \A n \in deque[e].next_block_pos .. deque[e].block_size - 1 :
           ValueAt(deque[e].current, n) \in DOMAIN memory'
             => ValueAt(deque[e].current, n) \in DOMAIN memory
  PROVE  Room(e)'
BY DEF Room, ValueAt, BlockBytes

\* The last blocks of two containers have no address in common.
LEMMA RoomsApart ==
  ASSUME DequeInv, NEW P, Chains(P), NEW d \in Deques, NEW e \in Deques, d # e, Made(d), Made(e),
         NEW k \in 0..deque[d].block_size - 1, NEW n \in 0..deque[e].block_size - 1
  PROVE  ValueAt(deque[d].current, k) # ValueAt(deque[e].current, n)
<1>. DEFINE x == deque[d].current
            y == deque[e].current
            a == [block |-> x[1], start |-> x[2], size |-> BlockBytes(deque[d].block_size)]
            b == [block |-> y[1], start |-> y[2], size |-> BlockBytes(deque[e].block_size)]
<1>1. a \in allocations /\ b \in allocations
  BY DEF Chains, Room
<1>2. /\ x \in Addresses /\ y \in Addresses
      /\ deque[d].block_size \in Nat /\ deque[e].block_size \in Nat
  BY BlockSizes DEF DequeInv, MembersInv, MembersOK
<1>3. x # y
  BY DEF Chains, Apart
<1>4. x[1] # y[1] \/ x[2] # y[2]
  BY <1>2, <1>3 DEF Addresses
<1>5. a # b
  BY <1>4
<1>6. ~Overlap(a, b)
  BY <1>1, <1>5 DEF DequeInv, ArenaInv, NoOverlap
<1>7. /\ a.block = x[1] /\ a.start = x[2] /\ a.size = 1 + deque[d].block_size
      /\ b.block = y[1] /\ b.start = y[2] /\ b.size = 1 + deque[e].block_size
  BY DEF BlockBytes
<1>8. x[1] # y[1] \/ ~(x[2] < y[2] + (1 + deque[e].block_size)) \/ ~(y[2] < x[2] + (1 + deque[d].block_size))
  BY <1>6, <1>7 DEF Overlap
<1>9. x[2] \in Nat /\ y[2] \in Nat
  BY <1>2 DEF Addresses
<1>. HIDE DEF x, y, a, b
<1>10. ASSUME x[1] = y[1] PROVE x[2] + 1 + k # y[2] + 1 + n
  BY <1>2, <1>8, <1>9, <1>10
<1>. QED  BY <1>10 DEF ValueAt, x, y

\* An address written is in an allocation that was there.
LEMMA WrittenBefore ==
  ASSUME DequeInv, NEW P, Chains(P), NEW e \in Deques, Made(e)
  PROVE  /\ deque[e].current \in DOMAIN memory
         /\ \A n \in 0..deque[e].size - 1 :
              P[e][n].block \in DOMAIN memory /\ Read(P[e][n]) \in DOMAIN memory
         /\ deque[e].size \in Nat /\ deque[e].next_block_pos \in Nat /\ deque[e].block_size \in Nat
         /\ deque[e].block_size >= 1
         /\ \A n \in deque[e].next_block_pos .. deque[e].block_size - 1 :
              n \in 0..deque[e].block_size - 1
<1>1. Room(e) /\ Path(e, P[e])
  BY DEF Chains
<1>2. /\ deque[e].size \in Nat /\ deque[e].next_block_pos \in Nat /\ deque[e].block_size \in Nat
      /\ deque[e].block_size >= 1
  BY BlockSizes DEF DequeInv, MembersInv, MembersOK
<1>3. deque[e].current \in DOMAIN memory
  BY <1>1 DEF Room
<1>4. \A n \in 0..deque[e].size - 1 :
        P[e][n].block \in DOMAIN memory /\ Read(P[e][n]) \in DOMAIN memory
  BY <1>1 DEF Path, Visits
<1>. QED  BY <1>2, <1>3, <1>4

\* A container that a step leaves alone keeps its chain if what the step writes is
\* written for the first time, outside its last block, or the end of another chain.
LEMMA KeepOther ==
  ASSUME DequeInv, NEW P, Chains(P), NEW e \in Deques, Made(e),
         deque'[e] = deque[e], appended'[e] = appended[e], allocations \subseteq allocations',
         DOMAIN memory \subseteq DOMAIN memory',
         \A a \in DOMAIN memory :
           \/ memory'[a] = memory[a]
           \/ \E d \in Deques : d # e /\ Made(d) /\ a = deque[d].current,
         \A n \in 0..deque[e].block_size - 1 :
           ValueAt(deque[e].current, n) \in DOMAIN memory'
             => ValueAt(deque[e].current, n) \in DOMAIN memory
  PROVE  Room(e)' /\ Path(e, P[e])'
<1>1. \A d \in Deques : d # e /\ Made(d) =>
        /\ deque[d].current # deque[e].current
        /\ \A n \in 0..deque[e].size - 1 :
             P[e][n].block # deque[d].current /\ Read(P[e][n]) # deque[d].current
  BY DEF Chains, Apart
<1>2. Room(e) /\ Path(e, P[e])
  BY DEF Chains
<1>3. Room(e)'
  BY <1>1, <1>2, WrittenBefore, KeepRoom
<1>4. \A n \in 0..deque[e].size - 1 :
        memory'[P[e][n].block] = memory[P[e][n].block] /\ memory'[Read(P[e][n])] = memory[Read(P[e][n])]
  BY <1>1, WrittenBefore
<1>5. Path(e, P[e])'
  BY <1>2, <1>4, WrittenBefore, KeepPath
<1>. QED  BY <1>3, <1>5

LEMMA ConstructKeeps ==
  ASSUME DequeInv, NEW d \in Deques, Construct(d) PROVE DequeInv'
<1>. DEFINE bytes == BlockBytes(MinBlockSize)
<1>a. PICK top : top = AllocatedAt(bytes)
  OBVIOUS
<1>. DEFINE fresh == [top |-> top, current |-> top, next_block_pos |-> 0,
                     block_size |-> MinBlockSize, size |-> 0]
<1>0. bytes \in Nat \ {0} /\ bytes = 1 + MinBlockSize
  BY BlockSizes DEF BlockBytes
<1>. HIDE DEF bytes
<1>1. /\ ~Made(d) /\ Alloc(bytes)
      /\ memory' = Write(memory, top, NullPtr) /\ appended' = appended
      /\ deque' = [deque EXCEPT ![d] = fresh]
  BY <1>a DEF Construct, Empty, bytes
<1>2. ArenaInv'
  BY <1>0, <1>1, AllocPreserves DEF DequeInv
<1>3. /\ top \in Addresses /\ top[1] >= 1
      /\ [block |-> top[1], start |-> top[2], size |-> bytes] \in allocations'
      /\ \A m \in allocations : m.block = top[1] => m.start + m.size <= top[2]
      /\ \A k \in 0..bytes - 1 : <<top[1], top[2] + k>> \notin DOMAIN memory
  BY <1>0, <1>1, <1>a, Fresh DEF DequeInv
<1>4. top \notin DOMAIN memory
  <2>1. top = <<top[1], top[2] + 0>> /\ 0 \in 0..bytes - 1
    BY <1>0, <1>3 DEF Addresses
  <2>. QED  BY <1>3, <2>1
<1>5. allocations' = allocations \cup {[block |-> top[1], start |-> top[2], size |-> bytes]}
  BY <1>1, <1>a DEF Alloc
<1>6. /\ DOMAIN memory' = DOMAIN memory \cup {top} /\ memory'[top] = NullPtr
      /\ \A a \in DOMAIN memory : memory'[a] = memory[a]
  BY <1>1, <1>4 DEF Write
<1>7. MemoryInv'
  <2>1. DOMAIN memory' \subseteq Addresses
    BY <1>3, <1>6 DEF DequeInv, MemoryInv
  <2>2. \A m \in allocations' : m.block >= 1
    BY <1>3, <1>5 DEF DequeInv, MemoryInv
  <2>3. ASSUME NEW a \in DOMAIN memory'
        PROVE  \E m \in allocations' : m.block = a[1] /\ m.start <= a[2] /\ a[2] < m.start + m.size
    <3>1. CASE a = top
      <4>. DEFINE m == [block |-> top[1], start |-> top[2], size |-> bytes]
      <4>1. m \in allocations' /\ m.block = top[1] /\ m.start = top[2] /\ m.size = bytes
        BY <1>3
      <4>2. top[2] \in Nat
        BY <1>3 DEF Addresses
      <4>. HIDE DEF m
      <4>. QED  BY <1>0, <3>1, <4>1, <4>2
    <3>2. CASE a \in DOMAIN memory
      BY <1>5, <3>2 DEF DequeInv, MemoryInv, WritesAreAllocated
    <3>. QED  BY <1>6, <3>1, <3>2
  <2>. QED  BY <2>1, <2>2, <2>3 DEF MemoryInv, WritesAreAllocated
<1>8. deque \in [Deques -> Member]
  BY DEF DequeInv, MembersInv
<1>9. deque'[d] = fresh /\ \A e \in Deques : e # d => deque'[e] = deque[e]
  BY <1>1, <1>8
<1>10. MembersInv'
  <2>1. fresh \in Member
    BY <1>3, BlockSizes DEF Member
  <2>2. deque' \in [Deques -> Member]
    BY <1>1, <1>8, <2>1
  <2>3. ASSUME NEW e \in Deques PROVE MembersOK(e)'
    <3>1. CASE e = d
      <4>1. appended[d] = <<>>
        BY <1>1 DEF DequeInv, MembersInv, MembersOK
      <4>. QED  BY <1>1, <1>3, <1>9, <3>1, <4>1, BlockSizes DEF MembersOK
    <3>2. CASE e # d
      BY <1>1, <1>9, <3>2 DEF DequeInv, MembersInv, MembersOK, Made, Unmade, Empty
    <3>. QED  BY <3>1, <3>2
  <2>. QED  BY <1>1, <2>2, <2>3 DEF DequeInv, MembersInv
<1>11. PICK P : Chains(P)
  BY DEF DequeInv
<1>. DEFINE start == [block |-> top, pos |-> 0, block_size |-> MinBlockSize]
            p == [n \in 0..0 |-> start]
            Q == [e \in Deques |-> IF e = d THEN p ELSE P[e]]
<1>12. Room(d)' /\ Path(d, p)'
  <2>1. deque'[d].current = top /\ deque'[d].top = top /\ deque'[d].next_block_pos = 0
        /\ deque'[d].block_size = MinBlockSize /\ deque'[d].size = 0
    BY <1>9
  <2>2. Room(d)'
    <3>1. ASSUME NEW n \in 0..MinBlockSize - 1 PROVE ValueAt(top, n) \notin DOMAIN memory'
      <4>1. 1 + n \in 0..bytes - 1 /\ top[2] \in Nat
        BY <1>0, <1>3, BlockSizes DEF Addresses
      <4>2. ValueAt(top, n) = <<top[1], top[2] + (1 + n)>>
        BY <4>1 DEF ValueAt
      <4>3. ValueAt(top, n) # top
        BY <4>1, <4>2
      <4>. QED  BY <1>3, <1>6, <4>1, <4>2, <4>3
    <3>2. BlockBytes(MinBlockSize) = bytes
      BY DEF bytes
    <3>. QED  BY <1>3, <1>6, <2>1, <3>1, <3>2 DEF Room, ValueAt, NullPtr, BlockBytes
  <2>3. WalksAlong(d, p)'
    <3>1. p = [n \in 0..0 |-> IF n = 0 THEN start ELSE Increment'[p[n - 1]]]
      OBVIOUS
    <3>2. Begin(d)' = start
      BY <2>1 DEF Begin
    <3>. HIDE DEF p, start
    <3>. QED  BY <2>1, <3>1, <3>2 DEF WalksAlong
  <2>4. Visits(d, p)' /\ LastOnes(d, p)'
    BY <2>1 DEF Visits, LastOnes
  <2>5. Arrives(d, p)'
    <3>1. p[0] = start
      OBVIOUS
    <3>. HIDE DEF p
    <3>. QED  BY <2>1, <3>1, BlockSizes DEF Arrives
  <2>. QED  BY <2>2, <2>3, <2>4, <2>5 DEF Path
<1>13. ASSUME NEW e \in Deques, Made(e), e # d PROVE Room(e)' /\ Path(e, P[e])'
  <2>1. \A n \in 0..deque[e].block_size - 1 :
          ValueAt(deque[e].current, n) \in DOMAIN memory'
             => ValueAt(deque[e].current, n) \in DOMAIN memory
    <3>. SUFFICES ASSUME NEW n \in 0..deque[e].block_size - 1,
                         ValueAt(deque[e].current, n) = top
                  PROVE  FALSE
      BY <1>6
    <3>. DEFINE y == deque[e].current
                m == [block |-> y[1], start |-> y[2], size |-> BlockBytes(deque[e].block_size)]
    <3>1. m \in allocations
      BY <1>11, <1>13 DEF Chains, Room
    <3>2. m.block = y[1] /\ m.start = y[2] /\ m.size = 1 + deque[e].block_size
      BY DEF BlockBytes
    <3>3. y[2] \in Nat /\ deque[e].block_size \in Nat /\ top[2] \in Nat
      BY <1>3, BlockSizes DEF DequeInv, MembersInv, MembersOK, Addresses
    <3>4. top[1] = y[1] /\ top[2] = y[2] + 1 + n
      BY DEF ValueAt
    <3>. HIDE DEF m, y
    <3>5. m.start + m.size <= top[2]
      BY <1>3, <3>1, <3>2, <3>4
    <3>. QED  BY <3>2, <3>3, <3>4, <3>5
  <2>. QED  BY <1>1, <1>5, <1>6, <1>9, <1>11, <1>13, <2>1, KeepOther
<1>14. \A e \in Deques : Made(e)' => e = d \/ Made(e)
  BY <1>9 DEF Made, Unmade, Empty
<1>15. ASSUME NEW e \in Deques, Made(e)', NEW f \in Deques, Made(f)' PROVE Apart(e, f, Q[f])'
  <2>1. CASE e # d /\ f # d
    <3>1. Apart(e, f, P[f])
      BY <1>11, <1>14, <1>15, <2>1 DEF Chains
    <3>. QED  BY <1>9, <2>1, <3>1 DEF Apart, Read, ValueAt
  <2>2. CASE e = d /\ f # d
    <3>1. Made(f)
      BY <1>14, <1>15, <2>2
    <3>2. deque'[e].current = top /\ deque'[f] = deque[f] /\ Q[f] = P[f]
      BY <1>9, <2>2
    <3>3. /\ deque[f].current # top
          /\ \A n \in 0..deque[f].size - 1 : P[f][n].block # top /\ Read(P[f][n]) # top
      BY <1>4, <1>11, <3>1, WrittenBefore
    <3>. HIDE DEF Q
    <3>. QED  BY <3>2, <3>3 DEF Apart, Read, ValueAt
  <2>3. CASE f = d
    <3>1. deque'[d].size = 0 /\ deque'[d].current = top
      BY <1>9
    <3>2. e # d => deque'[e].current # top
      BY <1>4, <1>9, <1>11, <1>14, <1>15, WrittenBefore
    <3>. HIDE DEF Q
    <3>. QED  BY <2>3, <3>1, <3>2 DEF Apart
  <2>. QED  BY <2>1, <2>2, <2>3
<1>16. Chains(Q)'
  <2>1. ASSUME NEW e \in Deques, Made(e)' PROVE Room(e)' /\ Path(e, Q[e])'
    <3>1. CASE e = d
      BY <1>12, <3>1
    <3>2. CASE e # d
      BY <1>13, <1>14, <2>1, <3>2
    <3>. QED  BY <3>1, <3>2
  <2>. HIDE DEF Q
  <2>. QED  BY <1>15, <2>1 DEF Chains
<1>. QED  BY <1>2, <1>7, <1>10, <1>16 DEF DequeInv

LEMMA OtherAllocKeeps ==
  ASSUME DequeInv, NEW size \in RequestSizes, OtherAlloc(size) PROVE DequeInv'
<1>1. /\ size \in Nat /\ Alloc(size) /\ UNCHANGED <<memory, deque, appended>>
      /\ allocations \subseteq allocations'
  BY RequestSizesAssumption DEF OtherAlloc, Alloc
<1>2. ArenaInv'
  BY <1>1, AllocPreserves DEF DequeInv
<1>3. MemoryInv'
  <2>1. \A m \in allocations' : m.block >= 1
    <3>1. AllocatedAt(size)[1] >= 1
      BY DEF AllocatedAt, NeedsNewBlock, DequeInv, ArenaInv, TypeOK
    <3>. QED  BY <1>1, <3>1 DEF Alloc, DequeInv, MemoryInv
  <2>2. WritesAreAllocated'
    BY <1>1 DEF DequeInv, MemoryInv, WritesAreAllocated
  <2>. QED  BY <1>1, <2>1, <2>2 DEF DequeInv, MemoryInv
<1>4. MembersInv'
  BY <1>1 DEF DequeInv, MembersInv, MembersOK, Made
<1>5. PICK P : Chains(P)
  BY DEF DequeInv
<1>6. ASSUME NEW e \in Deques, Made(e) PROVE Room(e)' /\ Path(e, P[e])'
  BY <1>1, <1>5, <1>6, KeepOther
<1>7. \A e, f \in Deques : Made(e) /\ Made(f) => Apart(e, f, P[f])'
  BY <1>1, <1>5 DEF Chains, Apart
<1>8. \A e \in Deques : Made(e)' = Made(e)
  BY <1>1 DEF Made
<1>9. Chains(P)'
  BY <1>6, <1>7, <1>8 DEF Chains
<1>. QED  BY <1>2, <1>3, <1>4, <1>9 DEF DequeInv

\* What an append does to the members and to the ghost.
Grows(d, v, block, bs, pos) ==
  /\ Made(d) /\ deque[d].size < MaxSize
  /\ deque' = Grown(d, block, bs, pos)
  /\ appended' = [appended EXCEPT ![d] = Append(@, v)]
  /\ block \in Addresses /\ block # NullPtr
  /\ bs \in MinBlockSize..MaxBlockSize /\ pos \in 1..bs

LEMMA AppendedOne ==
  ASSUME MembersInv, NEW d \in Deques, NEW v \in Values,
         NEW block, NEW bs, NEW pos, Grows(d, v, block, bs, pos)
  PROVE  /\ MembersInv'
         /\ deque'[d].top = deque[d].top /\ deque'[d].current = block
         /\ deque'[d].block_size = bs /\ deque'[d].next_block_pos = pos
         /\ deque'[d].size = deque[d].size + 1
         /\ \A n \in 1..deque[d].size : appended'[d][n] = appended[d][n]
         /\ appended'[d][deque[d].size + 1] = v
         /\ \A e \in Deques : e # d => deque'[e] = deque[e] /\ appended'[e] = appended[e]
         /\ \A e \in Deques : Made(e)' = Made(e)
<1>. USE DEF MembersInv, Grows
<1>0. bs \in Nat /\ pos \in Nat /\ deque[d].size \in 0..MaxSize /\ MaxSize \in Nat
  BY BlockSizes DEF MembersOK
<1>1. deque[d] \in Member
  OBVIOUS
<1>2. /\ deque'[d] \in Member
      /\ deque'[d].top = deque[d].top /\ deque'[d].current = block
      /\ deque'[d].block_size = bs /\ deque'[d].next_block_pos = pos
      /\ deque'[d].size = deque[d].size + 1
  BY <1>0, <1>1 DEF Member, Grown
<1>3. \A e \in Deques : e # d => deque'[e] = deque[e] /\ appended'[e] = appended[e]
  BY DEF Grown
<1>4. appended[d] \in Seq(Values) /\ appended'[d] = Append(appended[d], v)
      /\ Len(appended[d]) = deque[d].size
  BY DEF MembersOK
<1>5. /\ \A n \in 1..deque[d].size : appended'[d][n] = appended[d][n]
      /\ appended'[d][deque[d].size + 1] = v
      /\ Len(appended'[d]) = deque[d].size + 1 /\ appended'[d] \in Seq(Values)
  BY <1>4
<1>6. \A e \in Deques : Made(e)' = Made(e)
  <2>1. Made(d)'
    BY <1>2 DEF Made, Unmade, Empty
  <2>. QED  BY <1>3, <2>1 DEF Made, Unmade, Empty
<1>7. MembersOK(d)'
  BY <1>0, <1>1, <1>2, <1>5, <1>6 DEF MembersOK, Member
<1>8. \A e \in Deques : MembersOK(e)'
  BY <1>3, <1>6, <1>7 DEF MembersOK
<1>9. deque' \in [Deques -> Member] /\ appended' \in [Deques -> Seq(Values)]
  BY <1>2, <1>5 DEF Grown
<1>. QED  BY <1>2, <1>3, <1>5, <1>6, <1>8, <1>9

LEMMA WalkStep ==
  ASSUME NEW d, NEW p, WalksAlong(d, p), NEW n \in 0..deque[d].size
  PROVE  p[n] = IF n = 0 THEN Begin(d) ELSE Increment[p[n - 1]]
<1>. DEFINE F(m) == IF m = 0 THEN Begin(d) ELSE Increment[p[m - 1]]
<1>1. p = [m \in 0..deque[d].size |-> F(m)]
  BY DEF WalksAlong
<1>. HIDE DEF F
<1>2. p[n] = F(n)
  BY ONLY <1>1, n \in 0..deque[d].size
<1>. QED  BY <1>2 DEF F

\* A walk with its last step replaced and one more.
Longer(p, size, last, new) ==
  [n \in 0..size + 1 |-> IF n = size + 1 THEN new ELSE IF n = size THEN last ELSE p[n]]

LEMMA PathOn ==
  ASSUME NEW d \in Deques, NEW p, Path(d, p), NEW N \in Nat, deque[d].size = N,
         deque[d].next_block_pos \in Nat, deque[d].block_size \in Nat,
         NEW cur, NEW bs \in Nat, NEW pos \in 1..bs, NEW v,
         /\ deque'[d].top = deque[d].top /\ deque'[d].current = cur
         /\ deque'[d].block_size = bs /\ deque'[d].next_block_pos = pos
         /\ deque'[d].size = N + 1,
         \A n \in 1..N : appended'[d][n] = appended[d][n],
         appended'[d][N + 1] = v,
         DOMAIN memory \subseteq DOMAIN memory',
         \A n \in 0..N - 1 : memory'[Read(p[n])] = memory[Read(p[n])],
         \A n \in 0..N - 1 : p[n].block = cur =>
           cur = deque[d].current /\ bs = deque[d].block_size
             /\ pos = deque[d].next_block_pos + 1,
         NEW last, last = [block |-> cur, pos |-> pos - 1, block_size |-> bs],
         cur \in Addresses, cur \in DOMAIN memory',
         Read(last) \in DOMAIN memory', memory'[Read(last)] = v,
         NEW new, new = IF pos < bs THEN [block |-> cur, pos |-> pos, block_size |-> bs]
                        ELSE [block |-> NullPtr, pos |-> 0, block_size |-> AdvanceNextBounded(bs)],
         N = 0 => last = Begin(d),
         \A n \in 0..N - 1 : Increment'[p[n]] = IF n = N - 1 THEN last ELSE Increment[p[n]],
         Increment'[last] = new
  PROVE  Path(d, Longer(p, N, last, new))'
<1>. DEFINE l == [n \in 0..N + 1 |-> IF n = N + 1 THEN new ELSE IF n = N THEN last ELSE p[n]]
<1>1. l[N + 1] = new /\ l[N] = last /\ \A n \in 0..N - 1 : l[n] = p[n]
  OBVIOUS
<1>2. l = [n \in 0..N + 1 |-> l[n]]
  OBVIOUS
<1>. HIDE DEF l
<1>3. \A n \in 0..N : n \in 0..N - 1 \/ n = N
  OBVIOUS
<1>4. /\ deque'[d].size = N + 1 /\ deque'[d].current = cur /\ deque'[d].block_size = bs
      /\ deque'[d].next_block_pos = pos
      /\ N \in Nat /\ bs \in Nat /\ pos \in 1..bs /\ (N + 1) - 1 = N /\ N + 1 > 0 /\ N \in 0..N
  OBVIOUS
<1>5. last.block = cur /\ last.pos = pos - 1 /\ last.block_size = bs
  OBVIOUS
<1>6. WalksAlong(d, l)'
  <2>1. \A n \in 0..N : p[n] = IF n = 0 THEN Begin(d) ELSE Increment[p[n - 1]]
    BY WalkStep DEF Path
  <2>2. Begin(d)' = Begin(d)
    BY DEF Begin
  <2>3. /\ N = 0 => last = Begin(d)
        /\ \A n \in 0..N - 1 : Increment'[p[n]] = IF n = N - 1 THEN last ELSE Increment[p[n]]
        /\ Increment'[last] = new
    OBVIOUS
  <2>4. ASSUME NEW n \in 0..N + 1
        PROVE  l[n] = IF n = 0 THEN Begin(d) ELSE Increment'[l[n - 1]]
    <3>1. CASE n = N + 1
      BY ONLY <1>1, <1>4, <2>3, <3>1
    <3>2. CASE n = N /\ n # 0
      <4>1. n - 1 \in 0..N - 1 /\ n - 1 = N - 1
        BY <3>2
      <4>. QED  BY ONLY <1>1, <2>3, <3>2, <4>1
    <3>3. CASE n = 0 /\ n # N
      <4>1. 0 \in 0..N - 1 /\ 0 \in 0..N
        BY <3>3
      <4>. QED  BY ONLY <1>1, <2>1, <3>3, <4>1
    <3>4. CASE n = 0 /\ n = N
      BY ONLY <1>1, <2>3, <3>4
    <3>5. CASE n \in 1..N - 1
      <4>1. n \in 0..N /\ n \in 0..N - 1 /\ n - 1 \in 0..N - 1 /\ n # 0 /\ n - 1 # N - 1
        BY <3>5
      <4>2. l[n] = p[n] /\ l[n - 1] = p[n - 1]
        BY ONLY <1>1, <4>1
      <4>. QED  BY ONLY <2>1, <2>3, <4>1, <4>2
    <3>6. n = N + 1 \/ n = N \/ n = 0 \/ n \in 1..N - 1
      OBVIOUS
    <3>. QED  BY ONLY <3>1, <3>2, <3>3, <3>4, <3>5, <3>6
  <2>. DEFINE F(n) == IF n = 0 THEN Begin(d)' ELSE Increment'[l[n - 1]]
  <2>5. \A n \in 0..N + 1 : l[n] = F(n)
    BY ONLY <2>2, <2>4
  <2>. HIDE DEF F
  <2>6. l = [n \in 0..N + 1 |-> F(n)]
    BY ONLY <1>2, <2>5
  <2>7. l = [n \in 0..N + 1 |-> IF n = 0 THEN Begin(d)' ELSE Increment'[l[n - 1]]]
    BY ONLY <2>6 DEF F
  <2>. QED  BY ONLY <1>4, <2>7 DEF WalksAlong
<1>7. Visits(d, l)'
  <2>1. ASSUME NEW n \in 0..N - 1
        PROVE  /\ l[n] \in Place /\ l[n].pos < l[n].block_size
               /\ l[n].block \in DOMAIN memory'
               /\ Read(l[n]) \in DOMAIN memory'
               /\ memory'[Read(l[n])] = appended'[d][n + 1]
    <3>1. n + 1 \in 1..N /\ l[n] = p[n]
      BY <1>1
    <3>2. /\ p[n] \in Place /\ p[n].pos < p[n].block_size
          /\ p[n].block \in DOMAIN memory
          /\ Read(p[n]) \in DOMAIN memory
          /\ memory[Read(p[n])] = appended[d][n + 1]
      BY DEF Path, Visits
    <3>. QED  BY <3>1, <3>2
  <2>2. last \in Place /\ last.pos < last.block_size /\ last.block \in DOMAIN memory'
    BY DEF Place, Addresses
  <2>3. Read(last) \in DOMAIN memory' /\ memory'[Read(last)] = appended'[d][N + 1]
    OBVIOUS
  <2>4. ASSUME NEW n \in 0..N
        PROVE  /\ l[n] \in Place /\ l[n].pos < l[n].block_size
               /\ l[n].block \in DOMAIN memory'
               /\ Read(l[n]) \in DOMAIN memory'
               /\ memory'[Read(l[n])] = appended'[d][n + 1]
    BY ONLY <1>1, <1>3, <2>1, <2>2, <2>3, <2>4
  <2>. QED  BY ONLY <1>4, <2>4 DEF Visits, Read, ValueAt
<1>8. LastOnes(d, l)'
  <2>1. ASSUME NEW n \in 0..N - 1, l[n].block = cur
        PROVE  l[n].block_size = bs /\ l[n].pos = pos - (N + 1 - n)
    <3>1. l[n] = p[n]
      BY <1>1
    <3>2. /\ cur = deque[d].current /\ bs = deque[d].block_size
          /\ pos = deque[d].next_block_pos + 1
      BY <2>1, <3>1
    <3>3. p[n].block_size = deque[d].block_size
          /\ p[n].pos = deque[d].next_block_pos - (N - n)
      BY <2>1, <3>1, <3>2 DEF Path, LastOnes
    <3>4. deque[d].next_block_pos \in Nat /\ n \in Int
      OBVIOUS
    <3>. QED  BY ONLY <1>4, <3>1, <3>2, <3>3, <3>4
  <2>2. pos - 1 = pos - (N + 1 - N)
    BY ONLY <1>4
  <2>3. \A n \in 0..N : l[n].block = cur
          => l[n].block_size = bs /\ l[n].pos = pos - (N + 1 - n)
    BY ONLY <1>1, <1>3, <1>5, <2>1, <2>2
  <2>. QED  BY ONLY <1>1, <1>4, <1>5, <2>3 DEF LastOnes
<1>9. Arrives(d, l)'
  BY <1>1 DEF Arrives, AdvanceNextBounded
<1>. QED  BY ONLY <1>6, <1>7, <1>8, <1>9 DEF Path, Longer, l

\* No address of a container is a null pointer's.
LEMMA CurrentIsNotNull ==
  ASSUME DequeInv, NEW a \in DOMAIN memory PROVE a # NullPtr
BY DEF DequeInv, MemoryInv, WritesAreAllocated, NullPtr

LEMMA AppendWithinKeeps ==
  ASSUME DequeInv, NEW d \in Deques, NEW v \in Values, AppendValue(d, v), AppendWithin(d, v)
  PROVE  DequeInv'
<1>1. PICK P : Chains(P)
  BY DEF DequeInv
<1>2. PICK q : q = deque[d]
  OBVIOUS
<1>. DEFINE N == q.size
            s == ValueAt(q.current, q.next_block_pos)
<1>3. /\ Made(d) /\ N < MaxSize /\ q.next_block_pos < q.block_size
      /\ memory' = Write(memory, s, v)
      /\ deque' = Grown(d, deque[d].current, deque[d].block_size, deque[d].next_block_pos + 1)
      /\ appended' = [appended EXCEPT ![d] = Append(@, v)]
      /\ UNCHANGED arenaVars
  BY <1>2 DEF AppendValue, AppendWithin
<1>4. /\ q \in Member /\ deque \in [Deques -> Member]
      /\ N \in Nat /\ q.next_block_pos \in Nat /\ q.block_size \in Nat
      /\ q.current \in Addresses /\ q.block_size \in MinBlockSize..MaxBlockSize
      /\ q.next_block_pos + 1 \in 1..q.block_size
  BY <1>2, <1>3, BlockSizes DEF DequeInv, MembersInv, MembersOK
<1>5. Room(d) /\ Path(d, P[d])
  BY <1>1, <1>3 DEF Chains
<1>6. /\ q.current \in DOMAIN memory /\ memory[q.current] = NullPtr
      /\ [block |-> q.current[1], start |-> q.current[2], size |-> BlockBytes(q.block_size)]
           \in allocations
      /\ \A n \in q.next_block_pos .. q.block_size - 1 :
           ValueAt(q.current, n) \notin DOMAIN memory
  BY <1>2, <1>5 DEF Room
<1>7. s \notin DOMAIN memory
  BY <1>3, <1>4, <1>6
<1>8. /\ DOMAIN memory' = DOMAIN memory \cup {s} /\ memory'[s] = v
      /\ \A a \in DOMAIN memory : memory'[a] = memory[a]
  BY <1>3, <1>7 DEF Write
<1>9. deque' = Grown(d, q.current, q.block_size, q.next_block_pos + 1)
  BY <1>2, <1>3
<1>10. /\ MembersInv'
       /\ deque'[d].top = deque[d].top /\ deque'[d].current = q.current
       /\ deque'[d].block_size = q.block_size
       /\ deque'[d].next_block_pos = q.next_block_pos + 1
       /\ deque'[d].size = deque[d].size + 1
       /\ \A n \in 1..deque[d].size : appended'[d][n] = appended[d][n]
       /\ appended'[d][deque[d].size + 1] = v
       /\ \A e \in Deques : e # d => deque'[e] = deque[e] /\ appended'[e] = appended[e]
       /\ \A e \in Deques : Made(e)' = Made(e)
  <2>1. q.current # NullPtr
    BY <1>6, CurrentIsNotNull
  <2>2. Grows(d, v, q.current, q.block_size, q.next_block_pos + 1)
    BY <1>2, <1>3, <1>4, <1>9, <2>1 DEF Grows
  <2>. QED  BY <2>2, AppendedOne DEF DequeInv
<1>11. ArenaInv'
  BY <1>3 DEF DequeInv, arenaVars, ArenaInv, TypeOK, CutFromTheFront, NoOverlap, Overlap
<1>12. MemoryInv'
  <2>1. q.current[1] \in Nat /\ q.current[2] \in Nat
    BY <1>4 DEF Addresses
  <2>2. s \in Addresses
    BY <1>4, <2>1 DEF ValueAt, Addresses
  <2>3. \E m \in allocations : m.block = s[1] /\ m.start <= s[2] /\ s[2] < m.start + m.size
    <3>. DEFINE m == [block |-> q.current[1], start |-> q.current[2],
                      size |-> BlockBytes(q.block_size)]
    <3>1. m.block = s[1] /\ m.start <= s[2] /\ s[2] < m.start + m.size
      BY <1>3, <1>4, <2>1, SMTT(30) DEF ValueAt, BlockBytes
    <3>. HIDE DEF m
    <3>2. m \in allocations
      BY <1>6 DEF m
    <3>. QED  BY <3>1, <3>2
  <2>4. allocations' = allocations
    BY <1>3 DEF arenaVars
  <2>. HIDE DEF s
  <2>. QED  BY <1>8, <2>2, <2>3, <2>4 DEF DequeInv, MemoryInv, WritesAreAllocated
<1>13. allocations' = allocations
  BY <1>3 DEF arenaVars
<1>14. ASSUME NEW e \in Deques, Made(e), e # d PROVE Room(e)' /\ Path(e, P[e])'
  <2>1. \A n \in 0..deque[e].block_size - 1 : ValueAt(deque[e].current, n) # s
    <3>1. q.next_block_pos \in 0..deque[d].block_size - 1
      BY <1>2, <1>3, <1>4
    <3>. QED  BY <1>1, <1>2, <1>3, <1>14, <3>1, RoomsApart
  <2>2. \A n \in 0..deque[e].block_size - 1 :
          ValueAt(deque[e].current, n) \in DOMAIN memory'
             => ValueAt(deque[e].current, n) \in DOMAIN memory
    BY <1>8, <2>1
  <2>. HIDE DEF s
  <2>. QED  BY <1>1, <1>8, <1>10, <1>13, <1>14, <2>2, KeepOther
<1>15. Room(d)'
  <2>1. \A n \in q.next_block_pos + 1 .. q.block_size - 1 :
          ValueAt(q.current, n) \notin DOMAIN memory /\ ValueAt(q.current, n) # s
    <3>1. \A n \in q.next_block_pos + 1 .. q.block_size - 1 :
            n \in q.next_block_pos .. q.block_size - 1 /\ n # q.next_block_pos
            /\ q.current[2] + 1 + n # q.current[2] + 1 + q.next_block_pos
      <4>1. q.current[2] \in Nat
        BY <1>4 DEF Addresses
      <4>. QED  BY <1>4, <4>1
    <3>. QED  BY <1>6, <3>1 DEF ValueAt
  <2>. HIDE DEF s
  <2>2. \A n \in q.next_block_pos + 1 .. q.block_size - 1 :
          ValueAt(q.current, n) \notin DOMAIN memory'
    BY <1>8, <2>1
  <2>3. memory'[q.current] = NullPtr /\ q.current \in DOMAIN memory'
    BY <1>6, <1>8
  <2>. QED  BY <1>6, <1>10, <1>13, <2>2, <2>3 DEF Room, ValueAt, BlockBytes
<1>. DEFINE last == [block |-> q.current, pos |-> q.next_block_pos, block_size |-> q.block_size]
            new == IF q.next_block_pos + 1 < q.block_size
                   THEN [block |-> q.current, pos |-> q.next_block_pos + 1,
                         block_size |-> q.block_size]
                   ELSE [block |-> NullPtr, pos |-> 0,
                         block_size |-> AdvanceNextBounded(q.block_size)]
            l == Longer(P[d], N, last, new)
<1>16. Read(last) = s /\ last \in Place
  BY <1>4 DEF Read, Place, Addresses
<1>17. P[d][N] = last
  BY <1>2, <1>3, <1>5 DEF Path, Arrives
<1>18. Path(d, l)'
  <2>1. \A n \in 0..N - 1 : /\ Read(P[d][n]) \in DOMAIN memory /\ P[d][n] \in Place
                            /\ P[d][n].block \in DOMAIN memory
    BY <1>2, <1>5 DEF Path, Visits
  <2>2. ASSUME NEW n \in 0..N - 1 PROVE Increment'[P[d][n]] = Increment[P[d][n]]
    <3>1. Increment[P[d][n]] = Advanced(P[d][n])
      BY <2>1, IncrementIs
    <3>2. Increment'[P[d][n]] = Advanced(P[d][n])'
      <4>1. Read(P[d][n]) \in DOMAIN memory'
        BY <1>8, <2>1
      <4>. QED  BY <2>1, <4>1 DEF Increment, Read, ValueAt
    <3>3. Advanced(P[d][n])' = Advanced(P[d][n])
      BY <1>8, <2>1 DEF Advanced
    <3>. QED  BY <3>1, <3>2, <3>3
  <2>3. \A n \in 0..N - 1 : n = N - 1 => Increment[P[d][n]] = last
    <3>1. P[d][N] = IF N = 0 THEN Begin(d) ELSE Increment[P[d][N - 1]]
      BY <1>2, <1>4, <1>5, WalkStep DEF Path
    <3>. HIDE DEF last
    <3>. QED  BY <1>4, <1>17, <3>1
  <2>4. N = 0 => last = Begin(d)
    <3>1. P[d][0] = Begin(d)
      BY <1>2, <1>4, <1>5, WalkStep DEF Path
    <3>. HIDE DEF last
    <3>. QED  BY <1>17, <3>1
  <2>5. Increment'[last] = new
    <3>1. Increment'[last] = Advanced(last)'
      BY <1>8, <1>16 DEF Increment, Read, ValueAt
    <3>2. memory'[q.current] = NullPtr
      BY <1>6, <1>8
    <3>3. Advanced(last)' = new
      BY <1>3, <1>4, <3>2 DEF Advanced
    <3>. QED  BY <3>1, <3>3
  <2>6. /\ \A n \in 0..N - 1 : memory'[Read(P[d][n])] = memory[Read(P[d][n])]
        /\ DOMAIN memory \subseteq DOMAIN memory'
        /\ q.current \in DOMAIN memory'
        /\ Read(last) \in DOMAIN memory' /\ memory'[Read(last)] = v
    BY <1>6, <1>8, <1>16, <2>1
  <2>7. \A n \in 0..N - 1 : Increment'[P[d][n]] = IF n = N - 1 THEN last ELSE Increment[P[d][n]]
    <3>. HIDE DEF last
    <3>. QED  BY <2>2, <2>3
  <2>8. last = [block |-> q.current, pos |-> (q.next_block_pos + 1) - 1, block_size |-> q.block_size]
    BY <1>4
  <2>9. /\ deque[d].next_block_pos \in Nat /\ deque[d].block_size \in Nat
        /\ deque[d].size = N /\ N \in Nat
        /\ q.current = deque[d].current /\ q.block_size = deque[d].block_size
        /\ q.next_block_pos + 1 = deque[d].next_block_pos + 1
    BY <1>2, <1>4
  <2>10. Path(d, P[d])
    BY <1>5
  <2>11. PICK x, y : x = last /\ y = new
    OBVIOUS
  <2>12. y = IF q.next_block_pos + 1 < q.block_size
             THEN [block |-> q.current, pos |-> q.next_block_pos + 1,
                   block_size |-> q.block_size]
             ELSE [block |-> NullPtr, pos |-> 0, block_size |-> AdvanceNextBounded(q.block_size)]
    BY <2>11
  <2>. HIDE DEF N, s, last, new
  <2>13. Path(d, Longer(P[d], N, x, y))'
    BY ONLY <1>4, <1>10, <2>4, <2>5, <2>6, <2>7, <2>8, <2>9, <2>10, <2>11, <2>12, PathOn,
            d \in Deques, SMTT(30)
  <2>. QED  BY <2>11, <2>13
<1>. DEFINE Q == [e \in Deques |-> IF e = d THEN l ELSE P[e]]
<1>19. ASSUME NEW e \in Deques, Made(e), NEW f \in Deques, Made(f) PROVE Apart(e, f, Q[f])'
  <2>1. Apart(e, f, P[f])
    BY <1>1, <1>19 DEF Chains
  <2>2. deque'[e].current = deque[e].current /\ deque'[f].current = deque[f].current
    BY <1>2, <1>10
  <2>3. CASE f # d
    <3>1. deque'[f].size = deque[f].size /\ Q[f] = P[f]
      BY <1>10, <2>3
    <3>. HIDE DEF Q, l
    <3>. QED  BY <2>1, <2>2, <3>1 DEF Apart, Read, ValueAt
  <2>4. CASE f = d
    <3>1. /\ Q[f] = l /\ l[N] = last /\ \A n \in 0..N - 1 : l[n] = P[f][n]
      BY <1>4, <2>4 DEF Longer
    <3>2. deque'[f].size - 1 = N /\ deque[f].size = N
      BY <1>2, <1>4, <1>10, <2>4
    <3>3. deque[e].current \in DOMAIN memory
      BY <1>1, <1>19, WrittenBefore
    <3>4. Read(last) # deque[e].current
      BY <1>7, <1>16, <3>3
    <3>5. e # d => last.block # deque[e].current
      BY <1>2, <2>1, <2>4 DEF Apart
    <3>6. \A n \in 0..N : n \in 0..N - 1 \/ n = N
      BY <1>4
    <3>. HIDE DEF Q, l, last
    <3>7. \A n \in 0..N : Read(l[n]) # deque[e].current /\ (e # d => l[n].block # deque[e].current)
      BY <2>1, <2>4, <3>1, <3>2, <3>4, <3>5, <3>6 DEF Apart
    <3>. QED  BY <2>1, <2>2, <2>4, <3>1, <3>2, <3>7 DEF Apart, Read, ValueAt
  <2>. QED  BY <2>3, <2>4
<1>20. Chains(Q)'
  <2>1. ASSUME NEW e \in Deques, Made(e)' PROVE Room(e)' /\ Path(e, Q[e])'
    <3>1. CASE e = d
      <4>. HIDE DEF l
      <4>. QED  BY <1>15, <1>18, <3>1
    <3>2. CASE e # d
      <4>. HIDE DEF l
      <4>. QED  BY <1>10, <1>14, <2>1, <3>2
    <3>. QED  BY <3>1, <3>2
  <2>. HIDE DEF Q
  <2>. QED  BY <1>10, <1>19, <2>1 DEF Chains
<1>. QED  BY <1>10, <1>11, <1>12, <1>20 DEF DequeInv

LEMMA AppendInNewBlockKeeps ==
  ASSUME DequeInv, NEW d \in Deques, NEW v \in Values, AppendValue(d, v), AppendInNewBlock(d, v)
  PROVE  DequeInv'
<1>1. PICK P : Chains(P)
  BY DEF DequeInv
<1>2. PICK q : q = deque[d]
  OBVIOUS
<1>3. PICK new_N : new_N = AdvanceNextBounded(q.block_size)
  OBVIOUS
<1>. DEFINE N == q.size
            bytes == BlockBytes(new_N)
<1>a. PICK block : block = AllocatedAt(bytes)
  OBVIOUS
<1>. DEFINE s == ValueAt(block, 0)
<1>4. /\ Made(d) /\ N < MaxSize /\ q.next_block_pos >= q.block_size
      /\ Alloc(bytes)
      /\ memory' = Write(Write(Write(memory, q.current, block), block, NullPtr), s, v)
      /\ deque' = Grown(d, block, new_N, 1)
      /\ appended' = [appended EXCEPT ![d] = Append(@, v)]
  BY <1>2, <1>3, <1>a DEF AppendValue, AppendInNewBlock
<1>5. /\ q \in Member
      /\ N \in Nat /\ q.next_block_pos \in Nat /\ q.block_size \in Nat
      /\ q.next_block_pos = q.block_size /\ q.block_size >= 1
      /\ q.current \in Addresses
      /\ q.block_size \in MinBlockSize..MaxBlockSize
  BY <1>2, <1>4, BlockSizes DEF DequeInv, MembersInv, MembersOK
<1>6. /\ new_N \in MinBlockSize..MaxBlockSize /\ new_N \in Nat /\ new_N >= 1
      /\ bytes = 1 + new_N /\ bytes \in Nat \ {0}
  BY <1>3, <1>5, BlockSizes DEF AdvanceNextBounded, BlockBytes
<1>7. Room(d) /\ Path(d, P[d])
  BY <1>1, <1>4 DEF Chains
<1>8. q.current \in DOMAIN memory
  BY <1>2, <1>7 DEF Room
<1>9. /\ block \in Addresses /\ block[1] >= 1
      /\ [block |-> block[1], start |-> block[2], size |-> bytes] \in allocations'
      /\ \A m \in allocations : m.block = block[1] => m.start + m.size <= block[2]
      /\ \A k \in 0..bytes - 1 : <<block[1], block[2] + k>> \notin DOMAIN memory
  <2>. HIDE DEF bytes
  <2>. QED  BY <1>4, <1>6, <1>a, Fresh DEF DequeInv
<1>10. block[1] \in Nat /\ block[2] \in Nat /\ block = <<block[1], block[2]>> /\ block # NullPtr
  BY <1>9 DEF Addresses, NullPtr
<1>11. \A n \in 0..new_N - 1 : /\ ValueAt(block, n) = <<block[1], block[2] + (1 + n)>>
                               /\ ValueAt(block, n) \notin DOMAIN memory
                               /\ ValueAt(block, n) # block
  <2>. SUFFICES ASSUME NEW n \in 0..new_N - 1
                PROVE  /\ ValueAt(block, n) = <<block[1], block[2] + (1 + n)>>
                       /\ ValueAt(block, n) \notin DOMAIN memory
                       /\ ValueAt(block, n) # block
    OBVIOUS
  <2>1. 1 + n \in 0..bytes - 1
    BY <1>6
  <2>2. ValueAt(block, n) = <<block[1], block[2] + (1 + n)>>
    BY <1>6, <1>10 DEF ValueAt
  <2>3. block[2] + (1 + n) # block[2]
    BY <1>6, <1>10
  <2>. QED  BY <1>9, <1>10, <2>1, <2>2, <2>3
<1>12. block \notin DOMAIN memory
  <2>1. block = <<block[1], block[2] + 0>> /\ 0 \in 0..bytes - 1
    BY <1>6, <1>10
  <2>. QED  BY <1>9, <2>1
<1>13. s \notin DOMAIN memory /\ s # block /\ q.current # block /\ q.current # s
  BY <1>6, <1>8, <1>11, <1>12
<1>14. /\ DOMAIN memory' = DOMAIN memory \cup {block, s}
       /\ memory'[s] = v /\ memory'[block] = NullPtr /\ memory'[q.current] = block
       /\ \A a \in DOMAIN memory : a # q.current => memory'[a] = memory[a]
  <2>. HIDE DEF s
  <2>. QED  BY <1>4, <1>8, <1>12, <1>13 DEF Write
<1>15. allocations' = allocations \cup {[block |-> block[1], start |-> block[2], size |-> bytes]}
  BY <1>4, <1>a DEF Alloc
<1>16. ArenaInv'
  <2>. HIDE DEF bytes
  <2>. QED  BY <1>4, <1>6, AllocPreserves DEF DequeInv
<1>17. MemoryInv'
  <2>1. s \in Addresses
    BY <1>10 DEF ValueAt, Addresses
  <2>2. \A m \in allocations' : m.block >= 1
    BY <1>9, <1>15 DEF DequeInv, MemoryInv
  <2>3. ASSUME NEW a \in DOMAIN memory'
        PROVE  \E m \in allocations' : m.block = a[1] /\ m.start <= a[2] /\ a[2] < m.start + m.size
    <3>1. CASE a \in {block, s}
      <4>. DEFINE m == [block |-> block[1], start |-> block[2], size |-> bytes]
      <4>1. m \in allocations' /\ m.block = block[1] /\ m.start = block[2] /\ m.size = 1 + new_N
        BY <1>6, <1>9
      <4>2. a[1] = block[1] /\ (a[2] = block[2] \/ a[2] = block[2] + 1)
        BY <1>10, <3>1 DEF ValueAt
      <4>. HIDE DEF m
      <4>. QED  BY <1>6, <1>10, <4>1, <4>2
    <3>2. CASE a \in DOMAIN memory
      BY <1>15, <3>2 DEF DequeInv, MemoryInv, WritesAreAllocated
    <3>. QED  BY <1>14, <3>1, <3>2
  <2>4. DOMAIN memory' \subseteq Addresses
    <3>. HIDE DEF s
    <3>. QED  BY <1>9, <1>14, <2>1 DEF DequeInv, MemoryInv
  <2>. QED  BY <2>2, <2>3, <2>4 DEF MemoryInv, WritesAreAllocated
<1>18. /\ MembersInv'
       /\ deque'[d].top = deque[d].top /\ deque'[d].current = block
       /\ deque'[d].block_size = new_N /\ deque'[d].next_block_pos = 1
       /\ deque'[d].size = deque[d].size + 1
       /\ \A n \in 1..deque[d].size : appended'[d][n] = appended[d][n]
       /\ appended'[d][deque[d].size + 1] = v
       /\ \A e \in Deques : e # d => deque'[e] = deque[e] /\ appended'[e] = appended[e]
       /\ \A e \in Deques : Made(e)' = Made(e)
  <2>1. Grows(d, v, block, new_N, 1)
    BY <1>2, <1>4, <1>6, <1>9, <1>10 DEF Grows
  <2>. QED  BY <2>1, AppendedOne DEF DequeInv
<1>19. ASSUME NEW e \in Deques, Made(e), e # d PROVE Room(e)' /\ Path(e, P[e])'
  <2>1. \A n \in 0..deque[e].block_size - 1 :
          ValueAt(deque[e].current, n) # block /\ ValueAt(deque[e].current, n) # s
    <3>. SUFFICES ASSUME NEW n \in 0..deque[e].block_size - 1,
                         NEW a \in {block, s}, ValueAt(deque[e].current, n) = a
                  PROVE  FALSE
      OBVIOUS
    <3>. DEFINE y == deque[e].current
                m == [block |-> y[1], start |-> y[2], size |-> BlockBytes(deque[e].block_size)]
    <3>1. m \in allocations
      BY <1>1, <1>19 DEF Chains, Room
    <3>2. m.block = y[1] /\ m.start = y[2] /\ m.size = 1 + deque[e].block_size
      BY DEF BlockBytes
    <3>3. y[2] \in Nat /\ deque[e].block_size \in Nat
      BY BlockSizes DEF DequeInv, MembersInv, MembersOK, Addresses
    <3>4. a[1] = block[1] /\ a[2] >= block[2] /\ a[2] \in Nat
      BY <1>10 DEF ValueAt
    <3>5. a[1] = y[1] /\ a[2] = y[2] + 1 + n
      BY DEF ValueAt
    <3>. HIDE DEF m, y
    <3>6. m.start + m.size <= block[2]
      BY <1>9, <3>1, <3>2, <3>4, <3>5
    <3>. QED  BY <1>10, <3>2, <3>3, <3>4, <3>5, <3>6
  <2>2. \A n \in 0..deque[e].block_size - 1 :
          ValueAt(deque[e].current, n) \in DOMAIN memory'
             => ValueAt(deque[e].current, n) \in DOMAIN memory
    BY <1>14, <2>1
  <2>3. /\ DOMAIN memory \subseteq DOMAIN memory' /\ allocations \subseteq allocations'
        /\ deque'[e] = deque[e] /\ appended'[e] = appended[e]
    BY <1>14, <1>15, <1>18, <1>19
  <2>4. \A a \in DOMAIN memory :
           \/ memory'[a] = memory[a]
           \/ \E c \in Deques : c # e /\ Made(c) /\ a = deque[c].current
    BY <1>2, <1>4, <1>14, <1>19
  <2>. QED  BY ONLY <1>1, <1>19, <2>2, <2>3, <2>4, KeepOther, DequeInv
<1>20. Room(d)'
  <2>1. \A n \in 1 .. new_N - 1 : ValueAt(block, n) \notin DOMAIN memory'
    <3>. SUFFICES ASSUME NEW n \in 1 .. new_N - 1 PROVE ValueAt(block, n) \notin DOMAIN memory'
      OBVIOUS
    <3>1. n \in 0..new_N - 1 /\ 0 \in 0..new_N - 1 /\ block[2] + (1 + n) # block[2] + (1 + 0)
      BY <1>6, <1>10
    <3>2. ValueAt(block, n) # s
      BY <1>11, <3>1
    <3>. QED  BY <1>11, <1>14, <3>1, <3>2
  <2>. QED  BY <1>9, <1>14, <1>18, <2>1 DEF Room, ValueAt, BlockBytes
<1>. DEFINE last == [block |-> block, pos |-> 0, block_size |-> new_N]
            new == IF 1 < new_N
                   THEN [block |-> block, pos |-> 1, block_size |-> new_N]
                   ELSE [block |-> NullPtr, pos |-> 0, block_size |-> AdvanceNextBounded(new_N)]
            l == Longer(P[d], N, last, new)
<1>21. Read(last) = s /\ last \in Place
  BY <1>6, <1>9 DEF Read, Place, Addresses
<1>22. /\ N >= 1 /\ P[d][N - 1].block = q.current
       /\ \A n \in 0..N - 1 : /\ Read(P[d][n]) \in DOMAIN memory /\ P[d][n] \in Place
                              /\ P[d][n].block \in DOMAIN memory
                              /\ Read(P[d][n]) # q.current
                              /\ P[d][n].pos < P[d][n].block_size
                              /\ P[d][n].block = q.current =>
                                   /\ P[d][n].block_size = q.block_size
                                   /\ P[d][n].pos = q.next_block_pos - (N - n)
  <2>1. Visits(d, P[d]) /\ LastOnes(d, P[d]) /\ Apart(d, d, P[d])
    BY <1>1, <1>4, <1>7 DEF Chains, Path
  <2>. QED  BY <1>2, <1>5, <2>1 DEF Visits, LastOnes, Apart
<1>23. Path(d, l)'
  <2>1. ASSUME NEW n \in 0..N - 1
        PROVE  Increment'[P[d][n]] = IF n = N - 1 THEN last ELSE Increment[P[d][n]]
    <3>1. PICK it : it = P[d][n]
      OBVIOUS
    <3>2. /\ Read(it) \in DOMAIN memory /\ it \in Place /\ it.pos < it.block_size
          /\ it.block \in DOMAIN memory
          /\ it.block = q.current =>
               it.block_size = q.block_size /\ it.pos = q.next_block_pos - (N - n)
      BY <1>22, <3>1
    <3>3. Increment[it] = Advanced(it)
      BY <3>2, IncrementIs
    <3>4. Increment'[it] = Advanced(it)'
      <4>1. Read(it) \in DOMAIN memory'
        BY <1>14, <3>2
      <4>. QED  BY <3>2, <4>1 DEF Increment, Read, ValueAt
    <3>5. CASE n = N - 1
      <4>1. it.block = q.current /\ it.pos + 1 = it.block_size /\ it.block_size = q.block_size
        BY <1>5, <1>22, <3>1, <3>2, <3>5
      <4>2. it.pos + 1 >= it.block_size
        BY <1>5, <4>1
      <4>3. Advanced(it)' = [block |-> memory'[it.block], pos |-> 0,
                             block_size |-> AdvanceNextBounded(it.block_size)]
        BY ONLY <4>2 DEF Advanced
      <4>4. Advanced(it)' = last
        BY <1>3, <1>14, <4>1, <4>3
      <4>. QED  BY <3>1, <3>4, <3>5, <4>4
    <3>6. CASE n # N - 1
      <4>1. it.pos + 1 >= it.block_size => it.block # q.current
        BY <1>5, <3>2, <3>6
      <4>2. it.pos + 1 >= it.block_size => memory'[it.block] = memory[it.block]
        BY <1>14, <3>2, <4>1
      <4>3. Advanced(it)' = Advanced(it)
        BY ONLY <4>2 DEF Advanced
      <4>. QED  BY <3>1, <3>3, <3>4, <3>6, <4>3
    <3>. QED  BY <3>5, <3>6
  <2>2. Increment'[last] = new
    <3>1. Increment'[last] = Advanced(last)'
      BY <1>14, <1>21 DEF Increment, Read, ValueAt
    <3>2. Advanced(last)' = new
      BY <1>6, <1>14 DEF Advanced
    <3>. QED  BY <3>1, <3>2
  <2>3. /\ DOMAIN memory \subseteq DOMAIN memory'
        /\ \A n \in 0..N - 1 : memory'[Read(P[d][n])] = memory[Read(P[d][n])]
        /\ block \in DOMAIN memory'
        /\ Read(last) \in DOMAIN memory' /\ memory'[Read(last)] = v
    BY <1>14, <1>21, <1>22
  <2>4. \A n \in 0..N - 1 : P[d][n].block # block
    BY <1>12, <1>22
  <2>5. /\ deque[d].next_block_pos \in Nat /\ deque[d].block_size \in Nat
        /\ deque[d].size = N /\ N \in Nat /\ N # 0
    BY <1>2, <1>5, <1>22
  <2>6. last = [block |-> block, pos |-> 1 - 1, block_size |-> new_N]
    OBVIOUS
  <2>7. 1 \in 1..new_N
    BY <1>6
  <2>8. PICK x, y : x = last /\ y = new
    OBVIOUS
  <2>9. y = IF 1 < new_N THEN [block |-> block, pos |-> 1, block_size |-> new_N]
            ELSE [block |-> NullPtr, pos |-> 0, block_size |-> AdvanceNextBounded(new_N)]
    BY <2>8
  <2>10. Path(d, P[d])
    BY <1>7
  <2>. HIDE DEF N, s, bytes, last, new
  <2>11. Path(d, Longer(P[d], N, x, y))'
    BY ONLY <1>6, <1>9, <1>18, <2>1, <2>2, <2>3, <2>4, <2>5, <2>6, <2>7, <2>8, <2>9, <2>10,
            PathOn, d \in Deques
  <2>. QED  BY <2>8, <2>11
<1>. DEFINE Q == [e \in Deques |-> IF e = d THEN l ELSE P[e]]
<1>24. ASSUME NEW e \in Deques, Made(e), NEW f \in Deques, Made(f) PROVE Apart(e, f, Q[f])'
  <2>1. Apart(e, f, P[f]) /\ Apart(f, e, P[e])
    BY <1>1, <1>24 DEF Chains
  <2>2. deque[e].current \in DOMAIN memory /\ deque[f].current \in DOMAIN memory
    BY <1>1, <1>24, WrittenBefore
  <2>3. CASE f # d
    <3>1. deque'[f] = deque[f] /\ Q[f] = P[f]
      BY <1>18, <2>3
    <3>2. \A n \in 0..deque[f].size - 1 :
            Read(P[f][n]) \in DOMAIN memory /\ P[f][n].block \in DOMAIN memory
      BY <1>1, <1>24, WrittenBefore
    <3>. HIDE DEF Q, l
    <3>3. CASE e # d
      BY <1>18, <2>1, <3>1, <3>3 DEF Apart, Read, ValueAt
    <3>4. CASE e = d
      BY <1>12, <1>18, <2>2, <3>1, <3>2, <3>4 DEF Apart, Read, ValueAt
    <3>. QED  BY <3>3, <3>4
  <2>4. CASE f = d
    <3>1. /\ Q[f] = l /\ l[N] = last /\ \A n \in 0..N - 1 : l[n] = P[d][n]
      BY <1>5, <2>4 DEF Longer
    <3>2. deque'[f].size - 1 = N /\ deque[f].size = N /\ deque'[f].current = block
      BY <1>2, <1>5, <1>18, <2>4
    <3>3. \A n \in 0..N : n \in 0..N - 1 \/ n = N
      BY <1>5
    <3>. HIDE DEF Q, l
    <3>4. last.block = block
      OBVIOUS
    <3>. HIDE DEF last, s
    <3>5. CASE e = d
      <4>1. \A n \in 0..N : Read(l[n]) # block
        BY <1>12, <1>13, <1>21, <1>22, <3>1, <3>3
      <4>. QED  BY <2>4, <3>1, <3>2, <3>5, <4>1 DEF Apart, Read, ValueAt
    <3>6. CASE e # d
      <4>1. deque'[e].current = deque[e].current
        BY <1>18, <3>6
      <4>2. \A n \in 0..N :
              Read(l[n]) # deque[e].current /\ l[n].block # deque[e].current
        BY <1>12, <1>13, <1>21, <2>1, <2>2, <2>4, <3>1, <3>2, <3>3, <3>4, <3>6 DEF Apart
      <4>. QED  BY <1>12, <2>2, <2>4, <3>1, <3>2, <3>6, <4>1, <4>2 DEF Apart, Read, ValueAt
    <3>. QED  BY <3>5, <3>6
  <2>. QED  BY <2>3, <2>4
<1>25. Chains(Q)'
  <2>1. ASSUME NEW e \in Deques, Made(e)' PROVE Room(e)' /\ Path(e, Q[e])'
    <3>1. CASE e = d
      <4>. HIDE DEF l
      <4>. QED  BY <1>20, <1>23, <3>1
    <3>2. CASE e # d
      <4>. HIDE DEF l
      <4>. QED  BY <1>18, <1>19, <2>1, <3>2
    <3>. QED  BY <3>1, <3>2
  <2>. HIDE DEF Q
  <2>. QED  BY <1>18, <1>24, <2>1 DEF Chains
<1>. QED  BY <1>16, <1>17, <1>18, <1>25 DEF DequeInv

\* A step of the arena and its containers keeps the chains as they have to be.
LEMMA NextDequeInv ==
  ASSUME DequeInv, [DequeNext]_vars PROVE DequeInv'
<1>1. ASSUME NEW d \in Deques, Construct(d) PROVE DequeInv'
  BY <1>1, ConstructKeeps
<1>2. ASSUME NEW d \in Deques, NEW v \in Values, AppendValue(d, v) PROVE DequeInv'
  <2>1. AppendWithin(d, v) \/ AppendInNewBlock(d, v)
    BY <1>2 DEF AppendValue
  <2>. QED  BY <1>2, <2>1, AppendWithinKeeps, AppendInNewBlockKeeps
<1>3. ASSUME NEW size \in RequestSizes, OtherAlloc(size) PROVE DequeInv'
  BY <1>3, OtherAllocKeeps
<1>4. CASE UNCHANGED vars
  <2>1. ArenaInv' /\ MemoryInv' /\ MembersInv'
    BY <1>4 DEF vars, arenaVars, DequeInv, ArenaInv, TypeOK, CutFromTheFront, NoOverlap, Overlap,
                MemoryInv, WritesAreAllocated, MembersInv, MembersOK, Made
  <2>2. PICK P : Chains(P)
    BY DEF DequeInv
  <2>3. ASSUME NEW e \in Deques, Made(e) PROVE Room(e)' /\ Path(e, P[e])'
    BY <1>4, <2>2, <2>3, KeepOther DEF vars, arenaVars
  <2>4. \A e, f \in Deques : Made(e) /\ Made(f) => Apart(e, f, P[f])'
    BY <1>4, <2>2 DEF vars, Chains, Apart
  <2>5. \A e \in Deques : Made(e)' = Made(e)
    BY <1>4 DEF vars, Made
  <2>6. Chains(P)'
    BY <2>3, <2>4, <2>5 DEF Chains
  <2>. QED  BY <2>1, <2>6 DEF DequeInv
<1>. QED  BY <1>1, <1>2, <1>3, <1>4 DEF DequeNext

-----------------------------------------------------------------------------
(* What is read: the walk is that of the iterator, and operator[] gets to   *)
(* the same places.                                                        *)

\* There is one walk along the blocks, and After() is it.
LEMMA AfterIs ==
  ASSUME NEW d, NEW p, WalksAlong(d, p), deque[d].size \in Nat
  PROVE  After(d) = p
<1>. DEFINE size == deque[d].size
            a == After(d)
<1>1. a = [n \in 0..size |-> IF n = 0 THEN Begin(d) ELSE Increment[a[n - 1]]]
  <2>1. p = [n \in 0..size |-> IF n = 0 THEN Begin(d) ELSE Increment[p[n - 1]]]
    BY DEF WalksAlong
  <2>. QED  BY <2>1 DEF After
<1>. HIDE DEF a
<1>2. WalksAlong(d, a)
  BY <1>1 DEF WalksAlong
<1>3. \A n \in 0..size : a[n] = p[n]
  <2>. DEFINE S == {n \in Nat : n \in 0..size => a[n] = p[n]}
  <2>1. \A n \in 0..size : /\ p[n] = IF n = 0 THEN Begin(d) ELSE Increment[p[n - 1]]
                           /\ a[n] = IF n = 0 THEN Begin(d) ELSE Increment[a[n - 1]]
    BY <1>2, WalkStep
  <2>2. 0 \in S
    BY <2>1
  <2>3. ASSUME NEW n \in Nat, n \in S PROVE n + 1 \in S
    <3>. SUFFICES ASSUME n + 1 \in 0..size PROVE a[n + 1] = p[n + 1]
      OBVIOUS
    <3>1. a[n] = p[n] /\ (n + 1) - 1 = n /\ n + 1 # 0
      BY <2>3
    <3>. QED  BY <2>1, <3>1
  <2>. HIDE DEF S
  <2>4. Nat \subseteq S
    BY <2>2, <2>3, AllNaturals
  <2>. QED  BY <2>4 DEF S
<1>4. a = [n \in 0..size |-> a[n]]
  <2>. DEFINE F(n) == IF n = 0 THEN Begin(d) ELSE Increment[a[n - 1]]
  <2>1. a = [n \in 0..size |-> F(n)]
    BY <1>1
  <2>. HIDE DEF F
  <2>. QED  BY ONLY <2>1
<1>5. p = [n \in 0..size |-> p[n]]
  <2>. DEFINE F(n) == IF n = 0 THEN Begin(d) ELSE Increment[p[n - 1]]
  <2>1. p = [n \in 0..size |-> F(n)]
    BY DEF WalksAlong
  <2>. HIDE DEF F
  <2>. QED  BY ONLY <2>1
<1>6. a = p
  BY ONLY <1>3, <1>4, <1>5
<1>. QED  BY <1>6 DEF a

\* The walk of a chain is at the end where it arrives, and nowhere before.
LEMMA EndsAtSize ==
  ASSUME DequeInv, NEW P, Chains(P), NEW d \in Deques, Made(d)
  PROVE  /\ AtEnd(d, P[d][deque[d].size])
         /\ \A n \in 0..deque[d].size - 1 : ~AtEnd(d, P[d][n])
<1>1. Room(d) /\ Visits(d, P[d]) /\ Arrives(d, P[d])
  BY DEF Chains, Path
<1>2. /\ deque[d].block_size \in Nat /\ deque[d].next_block_pos \in 0..deque[d].block_size
  BY BlockSizes DEF DequeInv, MembersInv, MembersOK
<1>3. AtEnd(d, P[d][deque[d].size])
  BY <1>1, <1>2 DEF Arrives, AtEnd, EndIterator
<1>4. ASSUME NEW n \in 0..deque[d].size - 1, AtEnd(d, P[d][n]) PROVE FALSE
  <2>1. P[d][n].block \in DOMAIN memory /\ Read(P[d][n]) \in DOMAIN memory
    BY <1>1 DEF Visits
  <2>2. CASE deque[d].next_block_pos = deque[d].block_size
    BY <1>4, <2>1, <2>2, CurrentIsNotNull DEF AtEnd, EndIterator
  <2>3. CASE deque[d].next_block_pos # deque[d].block_size
    <3>1. deque[d].next_block_pos \in deque[d].next_block_pos .. deque[d].block_size - 1
      BY <1>2, <2>3
    <3>2. Read(P[d][n]) = ValueAt(deque[d].current, deque[d].next_block_pos)
      BY <1>4, <2>3 DEF AtEnd, EndIterator, Read
    <3>. QED  BY <1>1, <2>1, <3>1, <3>2 DEF Room
  <2>. QED  BY <2>2, <2>3
<1>. QED  BY <1>3, <1>4

LEMMA IteratesInOrder ==
  ASSUME DequeInv, NEW d \in Deques, Made(d) PROVE Iterated(d) = appended[d]
<1>1. PICK P : Chains(P)
  BY DEF DequeInv
<1>. DEFINE size == deque[d].size
            a == After(d)
            ends == {n \in 0..size : AtEnd(d, a[n])}
            stop == CHOOSE n \in ends : \A m \in ends : n <= m
<1>2. /\ size \in Nat /\ appended[d] \in Seq(Values) /\ size = Len(appended[d])
  BY BlockSizes DEF DequeInv, MembersInv, MembersOK
<1>3. Visits(d, a) /\ a = P[d]
  BY <1>1, <1>2, AfterIs DEF Chains, Path
<1>4. Iterated(d) = IF ends = {} THEN <<NullPtr>> ELSE [n \in 1..stop |-> memory[Read(a[n - 1])]]
  BY DEF Iterated
<1>. HIDE DEF a
<1>5. ends = {size}
  <2>1. AtEnd(d, a[size]) /\ \A n \in 0..size - 1 : ~AtEnd(d, a[n])
    BY <1>1, <1>3, EndsAtSize
  <2>2. \A n \in 0..size : n \in 0..size - 1 \/ n = size
    BY <1>2
  <2>. QED  BY <1>2, <2>1, <2>2
<1>. HIDE DEF ends
<1>6. stop = size
  BY <1>2, <1>5
<1>. HIDE DEF stop
<1>7. Iterated(d) = [n \in 1..size |-> memory[Read(a[n - 1])]]
  BY <1>4, <1>5, <1>6
<1>8. \A n \in 1..size : memory[Read(a[n - 1])] = appended[d][n]
  <2>. SUFFICES ASSUME NEW n \in 1..size PROVE memory[Read(a[n - 1])] = appended[d][n]
    OBVIOUS
  <2>1. n - 1 \in 0..size - 1 /\ (n - 1) + 1 = n
    BY <1>2
  <2>2. memory[Read(a[n - 1])] = appended[d][(n - 1) + 1]
    BY <1>3, <2>1 DEF Visits
  <2>. QED  BY <2>1, <2>2
<1>9. appended[d] = [n \in 1..size |-> appended[d][n]]
  BY <1>2
<1>. QED  BY ONLY <1>7, <1>8, <1>9

\* Where the walk is at the begin of a block, it is in that block for as long as it is,
\* and then at the begin of the next.
Behind(d, p, j, at, k, m) ==
  /\ WalksAlong(d, p) /\ Visits(d, p) /\ deque[d].size \in Nat
  /\ j \in Nat /\ at \in Place /\ p[j] = at /\ at.pos = 0
  /\ k \in Nat /\ m = j + k /\ m < deque[d].size

Moved(at, k) == [at EXCEPT !.pos = k]
NextBlock(at) ==
  [block |-> memory[at.block], pos |-> 0, block_size |-> AdvanceNextBounded(at.block_size)]

LEMMA WithinBlock ==
  ASSUME NEW d, NEW p, NEW j, NEW at, NEW k, NEW m, Behind(d, p, j, at, k, m)
  PROVE  /\ k < at.block_size => p[m] = Moved(at, k)
         /\ k = at.block_size => p[m] = NextBlock(at)
<1>. USE DEF Behind, Moved, NextBlock
<1>. DEFINE size == deque[d].size
            S == {n \in Nat : j + n < size /\ n < at.block_size => p[j + n] = [at EXCEPT !.pos = n]}
<1>0. at.block_size \in Nat /\ at = [block |-> at.block, pos |-> 0, block_size |-> at.block_size]
  BY DEF Place
<1>1. ASSUME NEW n \in Nat, j + n + 1 < size, p[j + n] = [at EXCEPT !.pos = n]
      PROVE  p[j + n + 1] = Advanced([at EXCEPT !.pos = n])
  <2>1. j + n + 1 \in 0..size /\ j + n + 1 # 0 /\ (j + n + 1) - 1 = j + n /\ j + n \in 0..size - 1
    BY <1>1
  <2>2. p[j + n + 1] = Increment[p[j + n]]
    BY <2>1, WalkStep
  <2>3. p[j + n] \in Place /\ Read(p[j + n]) \in DOMAIN memory
    BY <2>1 DEF Visits
  <2>. QED  BY <1>1, <2>2, <2>3, IncrementIs
<1>2. 0 \in S
  BY <1>0
<1>3. ASSUME NEW n \in Nat, n \in S PROVE n + 1 \in S
  <2>. SUFFICES ASSUME j + (n + 1) < size, n + 1 < at.block_size
                PROVE  p[j + (n + 1)] = [at EXCEPT !.pos = n + 1]
    OBVIOUS
  <2>1. p[j + n] = [at EXCEPT !.pos = n] /\ j + n + 1 < size /\ j + n + 1 = j + (n + 1)
    BY <1>0, <1>3
  <2>2. p[j + (n + 1)] = Advanced([at EXCEPT !.pos = n])
    BY <1>1, <2>1
  <2>3. /\ [at EXCEPT !.pos = n] = [block |-> at.block, pos |-> n, block_size |-> at.block_size]
        /\ [at EXCEPT !.pos = n + 1]
             = [block |-> at.block, pos |-> n + 1, block_size |-> at.block_size]
    BY <1>0
  <2>4. Advanced([block |-> at.block, pos |-> n, block_size |-> at.block_size])
        = [block |-> at.block, pos |-> n + 1, block_size |-> at.block_size]
    BY <1>0 DEF Advanced
  <2>. QED  BY ONLY <2>2, <2>3, <2>4
<1>. HIDE DEF S
<1>4. Nat \subseteq S
  BY <1>2, <1>3, AllNaturals
<1>5. \A n \in Nat : j + n < size /\ n < at.block_size => p[j + n] = [at EXCEPT !.pos = n]
  BY <1>4 DEF S
<1>6. CASE k = at.block_size /\ k # 0
  <2>1. k - 1 \in Nat /\ j + (k - 1) < size /\ k - 1 < at.block_size /\ j + (k - 1) + 1 = j + k
    BY <1>0, <1>6
  <2>2. p[j + (k - 1)] = [at EXCEPT !.pos = k - 1]
    BY <1>5, <2>1
  <2>3. p[j + k] = Advanced([at EXCEPT !.pos = k - 1])
    BY <1>1, <2>1, <2>2
  <2>. QED  BY <1>0, <1>6, <2>3 DEF Advanced
<1>7. at.block_size # 0
  <2>1. j \in 0..size - 1
    OBVIOUS
  <2>. QED  BY <1>0, <2>1 DEF Visits
<1>. QED  BY <1>5, <1>6, <1>7

\* The places operator[] comes through, by what it still has to go: the walk at the
\* begin of a block, so far behind.
Skipping(p, i, a) ==
  /\ a \in Place /\ a.pos <= i
  /\ p[i - a.pos] = [a EXCEPT !.pos = 0]

LEMMA SkipOne ==
  ASSUME NEW d, NEW p, WalksAlong(d, p), Visits(d, p), deque[d].size \in Nat,
         NEW i \in 0..deque[d].size - 1, NEW a, Skipping(p, i, a)
  PROVE  /\ Skipping(p, i, SkipBlock[a])
         /\ a.block_size \in Nat \ {0}
         /\ a.pos < a.block_size => SkipBlock[a] = a
         /\ a.pos >= a.block_size => SkipBlock[a].pos = a.pos - a.block_size
<1>. DEFINE j == i - a.pos
            at == [a EXCEPT !.pos = 0]
<1>1. a \in Place /\ a.pos \in Nat /\ a.block_size \in Nat /\ a.pos <= i
      /\ a = [block |-> a.block, pos |-> a.pos, block_size |-> a.block_size]
  BY DEF Skipping, Place
<1>2. /\ at \in Place /\ at.pos = 0 /\ at.block = a.block /\ at.block_size = a.block_size
  BY <1>1 DEF Place
<1>3. j \in Nat /\ j \in 0..deque[d].size - 1 /\ p[j] = at /\ j + a.pos = i
  BY <1>1 DEF Skipping
<1>4. a.block_size # 0
  BY <1>1, <1>2, <1>3 DEF Visits
<1>5. CASE a.pos < a.block_size
  <2>1. SkipBlock[a] = a
    BY <1>1, <1>5 DEF SkipBlock
  <2>. QED  BY <1>1, <1>4, <1>5, <2>1
<1>6. CASE a.pos >= a.block_size
  <2>. DEFINE b == [block |-> memory[a.block], pos |-> a.pos - a.block_size,
                    block_size |-> AdvanceNextBounded(a.block_size)]
  <2>1. SkipBlock[a] = b
    BY <1>1, <1>6 DEF SkipBlock
  <2>2. j + a.block_size < deque[d].size /\ j + a.block_size = i - b.pos
        /\ b.pos \in Nat /\ b.pos <= i /\ j + a.block_size \in 0..deque[d].size - 1
    BY <1>1, <1>3, <1>6
  <2>3. p[j + a.block_size] = [block |-> memory[a.block], pos |-> 0,
                               block_size |-> AdvanceNextBounded(a.block_size)]
    <3>1. j \in Nat /\ j + a.block_size \in Nat
      BY <1>1, <1>3
    <3>. HIDE DEF at, j, b
    <3>2. Behind(d, p, j, at, a.block_size, j + a.block_size)
      BY <1>1, <1>2, <1>3, <2>2, <3>1 DEF Behind
    <3>3. p[j + a.block_size] = NextBlock(at)
      BY ONLY <1>2, <3>2, WithinBlock
    <3>. QED  BY ONLY <1>2, <3>3 DEF NextBlock
  <2>4. [b EXCEPT !.pos = 0] = [block |-> memory[a.block], pos |-> 0,
                                block_size |-> AdvanceNextBounded(a.block_size)]
    OBVIOUS
  <2>5. p[j + a.block_size] \in Place
    BY <2>2 DEF Visits
  <2>6. b \in Place
    BY <2>2, <2>3, <2>5 DEF Place
  <2>7. p[i - b.pos] = [b EXCEPT !.pos = 0]
    BY ONLY <2>2, <2>3, <2>4
  <2>8. b.pos = a.pos - a.block_size
    OBVIOUS
  <2>. HIDE DEF b
  <2>9. Skipping(p, i, b)
    BY ONLY <2>2, <2>6, <2>7 DEF Skipping
  <2>. QED  BY <1>1, <1>4, <1>6, <2>1, <2>8, <2>9
<1>. QED  BY <1>1, <1>5, <1>6

\* The skipping, written as one function, exists.
LEMMA SkippingExists ==
  ASSUME NEW a, NEW i \in Nat
  PROVE  \E f : f = [n \in 0..i |-> IF n = 0 THEN a ELSE SkipBlock[f[n - 1]]]
<1>. DEFINE S == {k \in Nat :
              \E f : f = [n \in 0..k |-> IF n = 0 THEN a ELSE SkipBlock[f[n - 1]]]}
<1>1. 0 \in S
  <2>. DEFINE f == [n \in 0..0 |-> a]
  <2>1. f = [n \in 0..0 |-> IF n = 0 THEN a ELSE SkipBlock[f[n - 1]]]
    OBVIOUS
  <2>. HIDE DEF f
  <2>. QED  BY <2>1
<1>2. ASSUME NEW k \in Nat, k \in S PROVE k + 1 \in S
  <2>1. PICK f : f = [n \in 0..k |-> IF n = 0 THEN a ELSE SkipBlock[f[n - 1]]]
    BY <1>2
  <2>2. \A n \in 0..k : f[n] = IF n = 0 THEN a ELSE SkipBlock[f[n - 1]]
    <3>. DEFINE F(n) == IF n = 0 THEN a ELSE SkipBlock[f[n - 1]]
    <3>1. f = [n \in 0..k |-> F(n)]
      BY <2>1
    <3>. HIDE DEF F
    <3>2. \A n \in 0..k : f[n] = F(n)
      BY ONLY <3>1
    <3>. QED  BY <3>2 DEF F
  <2>. DEFINE g == [n \in 0..k + 1 |-> IF n = k + 1 THEN SkipBlock[f[k]] ELSE f[n]]
              G(n) == IF n = 0 THEN a ELSE SkipBlock[g[n - 1]]
  <2>3. g[k + 1] = SkipBlock[f[k]] /\ \A n \in 0..k : g[n] = f[n]
    OBVIOUS
  <2>4. g = [n \in 0..k + 1 |-> g[n]]
    OBVIOUS
  <2>. HIDE DEF g
  <2>5. ASSUME NEW n \in 0..k + 1 PROVE g[n] = G(n)
    <3>1. CASE n = k + 1
      <4>1. k \in 0..k /\ n - 1 = k /\ n # 0
        BY <3>1
      <4>. QED  BY <2>3, <3>1, <4>1
    <3>2. CASE n = 0
      BY <2>2, <2>3, <3>2
    <3>3. CASE n # 0 /\ n # k + 1
      <4>1. n \in 0..k /\ n - 1 \in 0..k
        BY <3>3
      <4>. QED  BY <2>2, <2>3, <3>3, <4>1
    <3>. QED  BY <3>1, <3>2, <3>3
  <2>. HIDE DEF G
  <2>6. g = [n \in 0..k + 1 |-> G(n)]
    BY ONLY <2>4, <2>5
  <2>7. g = [n \in 0..k + 1 |-> IF n = 0 THEN a ELSE SkipBlock[g[n - 1]]]
    BY ONLY <2>6 DEF G
  <2>8. k + 1 \in Nat
    OBVIOUS
  <2>. QED  BY <2>7, <2>8
<1>. HIDE DEF S
<1>3. Nat \subseteq S
  BY <1>1, <1>2, AllNaturals
<1>. QED  BY <1>3 DEF S

LEMMA IndexesInOrder ==
  ASSUME DequeInv, NEW d \in Deques, Made(d), NEW i \in 0..deque[d].size - 1
  PROVE  At(d, i) = appended[d][i + 1]
<1>1. PICK P : Chains(P)
  BY DEF DequeInv
<1>2. PICK p : p = P[d]
  OBVIOUS
<1>3. deque[d].size \in Nat /\ i \in Nat
  BY BlockSizes DEF DequeInv, MembersInv, MembersOK
<1>4. WalksAlong(d, p) /\ Visits(d, p)
  BY <1>1, <1>2 DEF Chains, Path
<1>. DEFINE first == [block |-> deque[d].top, pos |-> i, block_size |-> MinBlockSize]
            f == CHOOSE f : f = [n \in 0..i |-> IF n = 0 THEN first ELSE SkipBlock[f[n - 1]]]
<1>5. At(d, i) = memory[ValueAt(f[i].block, f[i].pos)]
  BY DEF At
<1>6. \A n \in 0..i : f[n] = IF n = 0 THEN first ELSE SkipBlock[f[n - 1]]
  <2>. HIDE DEF first
  <2>1. f = [n \in 0..i |-> IF n = 0 THEN first ELSE SkipBlock[f[n - 1]]]
    BY <1>3, SkippingExists, SMTT(30)
  <2>. HIDE DEF f
  <2>. DEFINE F(n) == IF n = 0 THEN first ELSE SkipBlock[f[n - 1]]
  <2>2. f = [n \in 0..i |-> F(n)]
    BY <2>1
  <2>. HIDE DEF F
  <2>3. \A n \in 0..i : f[n] = F(n)
    BY ONLY <2>2
  <2>. QED  BY <2>3 DEF F
<1>. HIDE DEF f
<1>7. Skipping(p, i, first) /\ first.pos = i
  <2>1. p[0] = Begin(d) /\ 0 \in 0..deque[d].size - 1
    BY <1>3, <1>4, WalkStep
  <2>2. [first EXCEPT !.pos = 0] = Begin(d) /\ i - first.pos = 0
    BY <1>3 DEF Begin
  <2>3. Begin(d) \in Place
    BY <1>4, <2>1 DEF Visits
  <2>4. first \in Place
    BY <1>3, <2>3 DEF Place, Begin
  <2>5. first.pos = i /\ i <= i
    BY <1>3
  <2>. HIDE DEF first
  <2>. QED  BY ONLY <2>1, <2>2, <2>4, <2>5 DEF Skipping
<1>. HIDE DEF first
<1>. DEFINE Done(n) == f[n].pos < f[n].block_size \/ f[n].pos + n <= i
            S == {n \in Nat : n \in 0..i => Skipping(p, i, f[n]) /\ Done(n)}
<1>8. 0 \in S
  <2>1. f[0] = first
    BY <1>3, <1>6
  <2>. QED  BY <1>3, <1>7, <2>1
<1>9. ASSUME NEW n \in Nat, n \in S PROVE n + 1 \in S
  <2>. SUFFICES ASSUME n + 1 \in 0..i PROVE Skipping(p, i, f[n + 1]) /\ Done(n + 1)
    OBVIOUS
  <2>1. n \in 0..i /\ (n + 1) - 1 = n /\ n + 1 # 0
    BY <1>3
  <2>2. Skipping(p, i, f[n]) /\ Done(n)
    BY <1>9, <2>1
  <2>3. f[n + 1] = SkipBlock[f[n]]
    BY <1>6, <2>1
  <2>4. /\ Skipping(p, i, SkipBlock[f[n]])
        /\ f[n].block_size \in Nat \ {0}
        /\ f[n].pos < f[n].block_size => SkipBlock[f[n]] = f[n]
        /\ f[n].pos >= f[n].block_size => SkipBlock[f[n]].pos = f[n].pos - f[n].block_size
    BY ONLY <1>3, <1>4, <2>2, i \in 0..deque[d].size - 1, SkipOne
  <2>5. f[n].pos \in Nat
    BY <2>2 DEF Skipping, Place
  <2>. QED  BY <1>3, <2>2, <2>3, <2>4, <2>5
<1>. HIDE DEF S
<1>10. Nat \subseteq S
  BY <1>8, <1>9, AllNaturals
<1>11. Skipping(p, i, f[i]) /\ Done(i)
  BY <1>3, <1>10 DEF S
<1>12. PICK a : a = f[i]
  OBVIOUS
<1>13. /\ a.block_size \in Nat \ {0} /\ a \in Place /\ a.pos \in Nat /\ a.pos <= i
       /\ p[i - a.pos] = [a EXCEPT !.pos = 0]
  <2>1. a.block_size \in Nat \ {0}
    BY ONLY <1>3, <1>4, <1>11, <1>12, i \in 0..deque[d].size - 1, SkipOne
  <2>. QED  BY <1>11, <1>12, <2>1 DEF Skipping, Place
<1>14. a.pos < a.block_size
  BY <1>3, <1>11, <1>12, <1>13
<1>15. p[i] = a
  <2>. DEFINE at == [a EXCEPT !.pos = 0]
              j == i - a.pos
  <2>1. at \in Place /\ at.pos = 0 /\ at.block_size = a.block_size /\ j \in Nat
        /\ j + a.pos = i /\ j + a.pos < deque[d].size /\ p[j] = at
    BY <1>3, <1>13 DEF Place
  <2>2. [at EXCEPT !.pos = a.pos] = a
    BY <1>13 DEF Place
  <2>. HIDE DEF at, j
  <2>3. p[j + a.pos] = [at EXCEPT !.pos = a.pos]
    <3>1. Behind(d, p, j, at, a.pos, j + a.pos)
      BY <1>3, <1>4, <1>13, <2>1 DEF Behind
    <3>2. p[j + a.pos] = Moved(at, a.pos)
      BY ONLY <1>14, <2>1, <3>1, WithinBlock
    <3>. QED  BY ONLY <3>2 DEF Moved
  <2>. QED  BY ONLY <2>1, <2>2, <2>3
<1>16. memory[Read(p[i])] = appended[d][i + 1]
  BY <1>4 DEF Visits
<1>. QED  BY <1>5, <1>12, <1>15, <1>16 DEF Read

-----------------------------------------------------------------------------
(* The containers keep their promises.                                     *)

LEMMA DequeInvariantHolds == DequeSpec => []DequeInv
<1>. QED  BY InitDequeInv, NextDequeInv, PTL DEF DequeSpec

LEMMA SoundIfChained == DequeInv => ContainersAreSound
<1>. SUFFICES ASSUME DequeInv PROVE ContainersAreSound
  OBVIOUS
<1>1. DequeTypeOK
  BY DEF DequeInv, ArenaInv, MembersInv, MembersOK, DequeTypeOK
<1>2. IterationIsAppendOrder
  BY IteratesInOrder DEF IterationIsAppendOrder
<1>3. \A d \in Deques : deque[d].size = Len(appended[d])
  BY DEF DequeInv, MembersInv, MembersOK
<1>4. IndexAgreesWithIteration
  BY <1>3, IndexesInOrder DEF IndexAgreesWithIteration
<1>. QED  BY <1>1, <1>2, <1>4 DEF ContainersAreSound, DequeInv, MemoryInv

(* Iteration visits what was appended to a container, in that order, and   *)
(* stops; operator[] and size() agree with it; and every address written   *)
(* is in memory the arena gave out: for all sizes of the blocks and all    *)
(* interleavings of the containers with other users of the arena           *)
(* (Append, iterator, operator[]).                                         *)
THEOREM SoundContainers == DequeSpec => []ContainersAreSound
<1>. QED  BY DequeInvariantHolds, SoundIfChained, PTL

\* What the containers hold, seen through iteration.
Contents == [d \in Deques |-> IF Made(d) THEN Iterated(d) ELSE <<>>]

LEMMA ContentsAreAppended == DequeInv => Contents = appended
<1>. SUFFICES ASSUME DequeInv PROVE Contents = appended
  OBVIOUS
<1>1. \A d \in Deques : (IF Made(d) THEN Iterated(d) ELSE <<>>) = appended[d]
  BY IteratesInOrder DEF DequeInv, MembersInv, MembersOK
<1>2. appended = [d \in Deques |-> appended[d]]
  BY DEF DequeInv, MembersInv
<1>. QED  BY ONLY <1>1, <1>2 DEF Contents

LEMMA AppendsOnly ==
  ASSUME DequeInv, DequeInv', [DequeNext]_vars
  PROVE  Contents' = Contents \/ \E d \in Deques, v \in Values :
           Contents' = [Contents EXCEPT ![d] = Append(@, v)]
<1>1. Contents = appended
  BY ContentsAreAppended
<1>2. (Contents = appended)'
  BY ContentsAreAppended, PTL
<1>3. appended' = appended \/ \E d \in Deques, v \in Values :
        appended' = [appended EXCEPT ![d] = Append(@, v)]
  BY DEF DequeNext, Construct, AppendValue, OtherAlloc, vars
<1>. QED  BY <1>1, <1>2, <1>3

(* Every step is, seen through iteration, an append of one element to one  *)
(* container or nothing at all: the chains implement AppendOnly.           *)
THEOREM AppendOnlyIsImplemented == DequeSpec => ImplementsAppendOnly
<1>1. DequeInit => Promise!Init
  BY DEF DequeInit, Made, Promise!Init
<1>2. ASSUME DequeInv, DequeInv', [DequeNext]_vars PROVE [Promise!Next]_Contents
  <2>1. Contents' = Contents \/ \E d \in Deques, v \in Values :
           Contents' = [Contents EXCEPT ![d] = Append(@, v)]
    BY <1>2, AppendsOnly
  <2>. QED  BY <2>1 DEF Promise!Next, Promise!Extend, Contents
<1>. QED  BY <1>1, <1>2, DequeInvariantHolds, PTL
          DEF DequeSpec, ImplementsAppendOnly, Promise!Spec, Contents

-----------------------------------------------------------------------------
(* The locations.                                                          *)

FileEntry(f) ==
  [end |-> Content(f).end, begin |-> Content(f).begin, locator |-> FileLocator(f.package)]
MadeEntry(m) ==
  [end |-> Assembled(m).end, begin |-> Assembled(m).begin,
   locator |-> FixedSourceLocator(m.location)]

RangesApart(d, e) == d.end < e.begin \/ e.end < d.begin

(* The map has an entry for each block and nothing else; since there is    *)
(* something between any two blocks, no two entries have the same end.     *)
MapInv ==
  /\ \A f \in files : FileEntry(f) \in location_maps
  /\ \A m \in made : MadeEntry(m) \in location_maps
  /\ \A e \in location_maps : Span(e.begin, e.end) \in Blocks
  /\ \A e \in location_maps : e.begin \in Int /\ e.end \in Int /\ e.begin <= e.end
  /\ \A d, e \in location_maps : d = e \/ RangesApart(d, e)

(* One file for each package, and locations that are locations.            *)
KeptInv ==
  /\ \A f, g \in files : f.package = g.package => f = g
  /\ \A m \in made : \E package, range : m.location = [package |-> package, range |-> range]

(* Insert() drops nothing if the new range is at a free place.             *)
LEMMA InsertAtFreePlace ==
  ASSUME MapInv, NEW n \in Nat, NEW b \in Places(n), NEW locator,
         NEW r, r = Span(b, b + n)
  PROVE  LET new == [end |-> r.end, begin |-> r.begin, locator |-> locator]
         IN  /\ Insert(location_maps, r, locator) = location_maps \cup {new}
             /\ new.begin \in Int /\ new.end \in Int /\ new.begin <= new.end
             /\ \A e \in location_maps : RangesApart(new, e)
<1> DEFINE new == [end |-> r.end, begin |-> r.begin, locator |-> locator]
<1>1. b \in Int /\ \A blk \in Blocks : b + n < blk.begin \/ blk.end < b
  BY SizesAssumption DEF Places
<1>2. new.begin = b /\ new.end = b + n
  BY DEF Span
<1>3. \A e \in location_maps : RangesApart(new, e)
  <2> SUFFICES ASSUME NEW e \in location_maps PROVE RangesApart(new, e)
    OBVIOUS
  <2>1. b + n < e.begin \/ e.end < b
    <3>1. Span(e.begin, e.end) \in Blocks
      BY DEF MapInv
    <3> QED BY <1>1, <3>1 DEF Span
  <2> QED BY <1>2, <2>1 DEF RangesApart
<1>4. \A e \in location_maps : e.end # r.end
  BY <1>1, <1>2, <1>3 DEF MapInv, RangesApart
<1>5. Insert(location_maps, r, locator) = location_maps \cup {new}
  BY <1>4 DEF Insert
<1> QED BY <1>1, <1>2, <1>3, <1>5

(* FindBySubrange() finds the entry a range is in.                         *)
LEMMA FindsWhatHolds ==
  ASSUME MapInv, NEW e \in location_maps, NEW r,
         r.begin \in Int, r.end \in Int,
         e.begin <= r.begin, r.begin <= r.end, r.end <= e.end
  PROVE  FindBySubrange(r) = {e.locator}
<1> DEFINE behind == {d \in location_maps : d.end >= r.end}
           IsLower(d) == d \in behind /\ \A x \in behind : d.end <= x.end
<1>1. e \in behind
  BY DEF MapInv
<1>2. \A d \in behind : e.end <= d.end
  <2> SUFFICES ASSUME NEW d \in behind, d # e PROVE e.end <= d.end
    BY DEF MapInv
  <2>1. RangesApart(d, e) /\ d.begin <= d.end /\ d.end >= r.end /\ d.begin \in Int /\ d.end \in Int
        /\ e.begin \in Int /\ e.end \in Int
    BY DEF MapInv
  <2> QED BY <2>1 DEF RangesApart
<1>3. \A d \in behind : (\A x \in behind : d.end <= x.end) => d = e
  <2> SUFFICES ASSUME NEW d \in behind, \A x \in behind : d.end <= x.end PROVE d = e
    OBVIOUS
  <2>1. d.end = e.end
    BY <1>1, <1>2 DEF MapInv
  <2>2. d.begin <= d.end /\ e.begin <= e.end /\ d.begin \in Int /\ d.end \in Int /\ e.begin \in Int
    BY DEF MapInv
  <2>3. ~RangesApart(d, e)
    BY <2>1, <2>2 DEF RangesApart
  <2> QED BY <2>3 DEF MapInv
<1>4. (CHOOSE d \in behind : \A x \in behind : d.end <= x.end) = e
  BY <1>1, <1>2, <1>3
<1>5. ~(e.begin > r.begin) /\ behind # {}
  BY <1>1 DEF MapInv
<1> HIDE DEF behind
<1>6. FindBySubrange(r) = IF behind = {} THEN NotFound
                          ELSE IF (CHOOSE d \in behind : \A x \in behind : d.end <= x.end).begin > r.begin
                               THEN NotFound
                               ELSE {(CHOOSE d \in behind : \A x \in behind : d.end <= x.end).locator}
  BY DEF FindBySubrange, behind
<1> QED BY <1>4, <1>5, <1>6

LEMMA PartsAreInside ==
  ASSUME NEW b, b.begin \in Int, b.end \in Int, NEW r \in Subranges(b)
  PROVE  /\ r.begin \in Int /\ r.end \in Int
         /\ b.begin <= r.begin /\ r.begin <= r.end /\ r.end <= b.end
BY DEF Subranges, Span

LEMMA LocationOfFilePart ==
  ASSUME MapInv, KeptInv, NEW f \in files, NEW r \in Subranges(Content(f))
  PROVE  GetLocation(r) = {[package |-> f.package, range |-> GetRange(f, r)]}
<1>1. FileEntry(f) \in location_maps /\ Content(f).begin \in Int /\ Content(f).end \in Int
  BY DEF MapInv, FileEntry
<1>2. FindBySubrange(r) = {FileLocator(f.package)}
  BY <1>1, PartsAreInside, FindsWhatHolds DEF FileEntry
<1>3. FileOf(f.package) = f
  BY DEF KeptInv, FileOf
<1>4. FileLocator(f.package).fixed = <<>> /\ FileLocator(f.package).package = f.package
  BY DEF FileLocator
<1> QED BY <1>2, <1>3, <1>4 DEF GetLocation

LEMMA LocationOfMadePart ==
  ASSUME MapInv, KeptInv, NEW m \in made, NEW r \in Subranges(Assembled(m))
  PROVE  GetLocation(r) = {m.location}
<1>1. MadeEntry(m) \in location_maps /\ Assembled(m).begin \in Int /\ Assembled(m).end \in Int
  BY DEF MapInv, MadeEntry
<1>2. FindBySubrange(r) = {FixedSourceLocator(m.location)}
  BY <1>1, PartsAreInside, FindsWhatHolds DEF MadeEntry
<1>3. PICK package, range : m.location = [package |-> package, range |-> range]
  BY DEF KeptInv
<1>4. /\ FixedSourceLocator(m.location).fixed # <<>>
      /\ FixedSourceLocator(m.location).fixed[1] = m.location.range
      /\ FixedSourceLocator(m.location).package = m.location.package
  BY DEF FixedSourceLocator
<1> QED BY <1>2, <1>3, <1>4 DEF GetLocation

LEMMA LocatedInit == LocationsInit => MapInv /\ KeptInv
BY DEF LocationsInit, MapInv, KeptInv

LEMMA LocatedFile ==
  ASSUME MapInv, KeptInv, AddBuildFileContent
  PROVE  MapInv' /\ KeptInv'
<1>1. PICK package \in Packages, text \in Texts : \E address \in Places(Len(text)) :
        LET f == [package |-> package, address |-> address, text |-> text]
        IN IF \E g \in files : g.package = package
           THEN /\ seen_before' = seen_before \cup {package}
                /\ UNCHANGED <<files, made, location_maps>>
           ELSE /\ files' = files \cup {f}
                /\ location_maps' = Insert(location_maps, Content(f), FileLocator(package))
                /\ UNCHANGED <<made, seen_before>>
  BY DEF AddBuildFileContent
<1>2. CASE \E g \in files : g.package = package
  <2>1. UNCHANGED <<files, made, location_maps>>
    BY <1>1, <1>2
  <2> QED BY <2>1 DEF MapInv, KeptInv, Blocks, FileEntry, MadeEntry
<1>3. CASE \A g \in files : g.package # package
  <2>1. PICK address \in Places(Len(text)) :
          LET f == [package |-> package, address |-> address, text |-> text]
          IN /\ files' = files \cup {f}
             /\ location_maps' = Insert(location_maps, Content(f), FileLocator(package))
             /\ UNCHANGED <<made, seen_before>>
    BY <1>1, <1>3
  <2> DEFINE f == [package |-> package, address |-> address, text |-> text]
  <2>2. Content(f) = Span(address, address + Len(text)) /\ f.package = package
    BY DEF Content
  <2>3. Len(text) \in Nat
    BY SizesAssumption, \A s \in Seq(STRING) : Len(s) \in Nat
  <2> HIDE DEF f
  <2>4. /\ location_maps' = location_maps \cup {FileEntry(f)}
        /\ FileEntry(f).begin \in Int /\ FileEntry(f).end \in Int
        /\ FileEntry(f).begin <= FileEntry(f).end
        /\ \A e \in location_maps : RangesApart(FileEntry(f), e)
    BY <2>1, <2>2, <2>3, InsertAtFreePlace DEF FileEntry, f
  <2>5. files' = files \cup {f} /\ made' = made
    BY <2>1 DEF f
  <2>6. Blocks' = Blocks \cup {Content(f)}
    BY <2>5 DEF Blocks
  <2>7. Span(FileEntry(f).begin, FileEntry(f).end) = Content(f)
    BY <2>2 DEF FileEntry, Span
  <2>8. MapInv'
    <3>1. /\ \A g \in files' : FileEntry(g) \in location_maps'
          /\ \A m \in made' : MadeEntry(m) \in location_maps'
      BY <2>4, <2>5 DEF MapInv
    <3>2. \A e \in location_maps' : Span(e.begin, e.end) \in Blocks'
      BY <2>4, <2>6, <2>7 DEF MapInv
    <3>3. \A e \in location_maps' : e.begin \in Int /\ e.end \in Int /\ e.begin <= e.end
      BY <2>4 DEF MapInv
    <3>4. \A d, e \in location_maps' : d = e \/ RangesApart(d, e)
      BY <2>4 DEF MapInv, RangesApart
    <3> QED BY <3>1, <3>2, <3>3, <3>4 DEF MapInv, FileEntry, MadeEntry
  <2>9. KeptInv'
    BY <2>2, <2>5, <1>3 DEF KeptInv
  <2> QED BY <2>8, <2>9
<1> QED BY <1>2, <1>3

LEMMA LocatedMake ==
  ASSUME MapInv, KeptInv, NEW n \in Nat, Make(n)
  PROVE  MapInv' /\ KeptInv'
<1>1. PICK f \in files : \E op \in {r \in Subranges(Content(f)) : r.begin < r.end} :
        \E location \in GetLocation(op) : \E address \in Places(n) :
          LET m == [address |-> address, size |-> n, location |-> location]
          IN /\ made' = made \cup {m}
             /\ location_maps' = Insert(location_maps, Assembled(m), FixedSourceLocator(location))
             /\ UNCHANGED <<files, seen_before>>
  BY DEF Make
<1>a. PICK op \in Subranges(Content(f)) :
        \E location \in GetLocation(op) : \E address \in Places(n) :
          LET m == [address |-> address, size |-> n, location |-> location]
          IN /\ made' = made \cup {m}
             /\ location_maps' = Insert(location_maps, Assembled(m), FixedSourceLocator(location))
             /\ UNCHANGED <<files, seen_before>>
  BY <1>1
<1>b. PICK location \in GetLocation(op) : \E address \in Places(n) :
          LET m == [address |-> address, size |-> n, location |-> location]
          IN /\ made' = made \cup {m}
             /\ location_maps' = Insert(location_maps, Assembled(m), FixedSourceLocator(location))
             /\ UNCHANGED <<files, seen_before>>
  BY <1>a
<1>2. PICK address \in Places(n) :
          LET m == [address |-> address, size |-> n, location |-> location]
          IN /\ made' = made \cup {m}
             /\ location_maps' = Insert(location_maps, Assembled(m), FixedSourceLocator(location))
             /\ UNCHANGED <<files, seen_before>>
  BY <1>b
<1> DEFINE m == [address |-> address, size |-> n, location |-> location]
<1>3. Assembled(m) = Span(address, address + n) /\ m.location = location
  BY DEF Assembled
<1>4. location = [package |-> f.package, range |-> GetRange(f, op)]
  BY LocationOfFilePart
<1> HIDE DEF m
<1>5. /\ location_maps' = location_maps \cup {MadeEntry(m)}
      /\ MadeEntry(m).begin \in Int /\ MadeEntry(m).end \in Int
      /\ MadeEntry(m).begin <= MadeEntry(m).end
      /\ \A e \in location_maps : RangesApart(MadeEntry(m), e)
  BY <1>2, <1>3, InsertAtFreePlace DEF MadeEntry, m
<1>6. made' = made \cup {m} /\ files' = files
  BY <1>2 DEF m
<1>7. Blocks' = Blocks \cup {Assembled(m)}
  BY <1>6 DEF Blocks
<1>8. Span(MadeEntry(m).begin, MadeEntry(m).end) = Assembled(m)
  BY <1>3 DEF MadeEntry, Span
<1>9. MapInv'
  <2>1. /\ \A g \in files' : FileEntry(g) \in location_maps'
        /\ \A k \in made' : MadeEntry(k) \in location_maps'
    BY <1>5, <1>6 DEF MapInv
  <2>2. \A e \in location_maps' : Span(e.begin, e.end) \in Blocks'
    BY <1>5, <1>7, <1>8 DEF MapInv
  <2>3. \A e \in location_maps' : e.begin \in Int /\ e.end \in Int /\ e.begin <= e.end
    BY <1>5 DEF MapInv
  <2>4. \A d, e \in location_maps' : d = e \/ RangesApart(d, e)
    BY <1>5 DEF MapInv, RangesApart
  <2> QED BY <2>1, <2>2, <2>3, <2>4 DEF MapInv, FileEntry, MadeEntry
<1>10. KeptInv'
  BY <1>3, <1>4, <1>6 DEF KeptInv
<1> QED BY <1>9, <1>10

LEMMA LocatedInductive ==
  ASSUME MapInv, KeptInv, [LocationsNext]_locationVars
  PROVE  MapInv' /\ KeptInv'
<1>1. CASE AddBuildFileContent
  BY <1>1, LocatedFile
<1>2. ASSUME NEW n \in MadeSizes, Make(n) PROVE MapInv' /\ KeptInv'
  BY <1>2, LocatedMake, SizesAssumption
<1>3. CASE UNCHANGED locationVars
  BY <1>3 DEF locationVars, MapInv, KeptInv, Blocks, FileEntry, MadeEntry
<1> QED BY <1>1, <1>2, <1>3 DEF LocationsNext, ConcatStrings, HandleGlob

(* No CHECK ends the program, and no message points to a neighbour in      *)
(* memory or to a file that was not kept: every part of a file kept and of *)
(* a string made leads to its own file or to the expression it comes from. *)
THEOREM AllLocated == LocationsSpec => []EveryStringHasItsLocation
<1>1. MapInv /\ KeptInv => EveryStringHasItsLocation
  BY LocationOfFilePart, LocationOfMadePart DEF EveryStringHasItsLocation
<1> QED BY <1>1, LocatedInit, LocatedInductive, PTL DEF LocationsSpec

(* The map has only ranges of what is alive: the address of a file that is *)
(* destroyed leads nowhere.                                                *)
THEOREM NothingDangles == LocationsSpec => []NoRangeDangles
<1>1. MapInv => NoRangeDangles
  BY DEF MapInv, NoRangeDangles
<1> QED BY <1>1, LocatedInit, LocatedInductive, PTL DEF LocationsSpec

(* Files lie somewhere, and their texts are those of the packages.         *)
TextsInv == \A f \in files : f.address \in Int /\ f.text \in Seq(STRING)

LEMMA TextsInductive ==
  /\ LocationsInit => TextsInv
  /\ TextsInv /\ [LocationsNext]_locationVars => TextsInv'
<1>1. LocationsInit => TextsInv
  BY DEF LocationsInit, TextsInv
<1>2. ASSUME TextsInv, AddBuildFileContent PROVE TextsInv'
  <2>1. \A n \in Nat : \A address \in Places(n) : address \in Int
    BY SizesAssumption DEF Places
  <2>2. \A text \in Texts : text \in Seq(STRING) /\ Len(text) \in Nat
    BY SizesAssumption
  <2>3. PICK package \in Packages, text \in Texts : \E address \in Places(Len(text)) :
          files' = files \/ files' = files \cup {[package |-> package, address |-> address, text |-> text]}
    BY <1>2 DEF AddBuildFileContent
  <2>4. PICK address \in Places(Len(text)) :
          files' = files \/ files' = files \cup {[package |-> package, address |-> address, text |-> text]}
    BY <2>3
  <2> QED BY <1>2, <2>1, <2>2, <2>4 DEF TextsInv
<1>3. ASSUME TextsInv, NEW n, Make(n) PROVE TextsInv'
  <2>1. files' = files
    BY <1>3 DEF Make
  <2> QED BY <1>3, <2>1 DEF TextsInv
<1>4. ASSUME TextsInv, UNCHANGED locationVars PROVE TextsInv'
  BY <1>4 DEF TextsInv, locationVars
<1> QED BY <1>1, <1>2, <1>3, <1>4 DEF LocationsNext, ConcatStrings, HandleGlob

(* GetPos() counts the newlines in front, since each of them begins one    *)
(* line and the first line begins without one; what is behind the last of  *)
(* them is an interval.                                                    *)
LEMMA PositionIsCounted ==
  ASSUME NEW f, f.address \in Int, f.text \in Seq(STRING),
         NEW pos \in f.address..(f.address + Len(f.text))
  PROVE  LET before == SubSeq(f.text, 1, pos - f.address)
             newlines == {i \in DOMAIN before : before[i] = "\n"}
         IN /\ GetPos(f, pos).line = Cardinality(newlines)
            /\ GetPos(f, pos).col = Cardinality({i \in DOMAIN before : \A n \in newlines : n < i})
<1> DEFINE before == SubSeq(f.text, 1, pos - f.address)
           newlines == {i \in DOMAIN before : before[i] = "\n"}
           begun == {f.address + i : i \in newlines}
           starts == {s \in LineStarts(f) : s <= pos}
           start == CHOOSE s \in starts : \A t \in starts : t <= s
<1>1. Len(f.text) \in Nat /\ pos \in Int /\ pos - f.address \in 0..Len(f.text)
  OBVIOUS
<1>2. DOMAIN before = 1..(pos - f.address) /\ \A i \in 1..(pos - f.address) : before[i] = f.text[i]
  BY <1>1
<1>3. newlines \subseteq 1..(pos - f.address)
  BY <1>2
<1>p. newlines = {i \in 1..(pos - f.address) : f.text[i] = "\n"}
  BY <1>2
<1> HIDE DEF newlines, before
<1>4. starts = {f.address} \cup begun
  <2>1. DOMAIN f.text = 1..Len(f.text)
    OBVIOUS
  <2>2. \A i \in DOMAIN f.text :
          f.address + i <= pos /\ f.text[i] = "\n" <=> i \in newlines
    BY <1>1, <1>p, <2>1
  <2>3. newlines \subseteq DOMAIN f.text
    BY <1>1, <1>3, <2>1
  <2> QED BY <1>1, <2>2, <2>3 DEF LineStarts
<1>5. IsFiniteSet(newlines)
  <2>1. IsFiniteSet(1..(pos - f.address))
    BY <1>1, FS_Interval
  <2> QED BY <1>3, <2>1, FS_Subset
<1>6. IsFiniteSet(begun) /\ Cardinality(begun) = Cardinality(newlines)
  <2> DEFINE shift == [i \in newlines |-> f.address + i]
  <2>1. shift \in Bijection(newlines, begun)
    <3>1. shift \in [newlines -> begun]
      OBVIOUS
    <3>2. \A i, j \in newlines : shift[i] = shift[j] => i = j
      BY <1>1, <1>3
    <3>3. \A b \in begun : \E i \in newlines : shift[i] = b
      OBVIOUS
    <3> HIDE DEF shift, begun
    <3> QED BY <3>1, <3>2, <3>3 DEF Bijection, Injection, Surjection, IsInjective
  <2>2. ExistsBijection(newlines, begun)
    BY <2>1 DEF ExistsBijection
  <2> HIDE DEF begun
  <2> QED BY <1>5, <2>2, FS_Bijection
<1>7. f.address \notin begun
  BY <1>1, <1>3
<1>8. Cardinality(starts) = Cardinality(newlines) + 1
  <2> HIDE DEF begun
  <2>1. Cardinality(begun \cup {f.address}) = Cardinality(begun) + 1
    BY <1>6, <1>7, FS_AddElement
  <2> QED BY <1>4, <1>6, <2>1
<1>9. start \in starts /\ \A t \in starts : t <= start
  <2>1. starts \subseteq Int /\ \A s \in starts : s <= pos
    <3>1. \A i \in newlines : f.address + i \in Int
      BY <1>1, <1>3
    <3>2. starts \subseteq Int
      BY <1>4, <3>1
    <3> QED BY <3>2
  <2>3. f.address \in starts
    BY <1>4
  <2> HIDE DEF starts
  <2>2. \E s \in starts : \A t \in starts : t <= s
    BY <1>1, <2>1, <2>3, GreatestOf
  <2> QED BY <2>2
<1> HIDE DEF start, starts
<1>10. Cardinality(newlines) \in Nat
  BY <1>5, FS_CardinalityType
<1>11. {i \in DOMAIN before : \A n \in newlines : n < i} = (start - f.address + 1)..(pos - f.address)
  <2>1. CASE newlines = {}
    <3>1. start = f.address
      BY <1>4, <1>9, <2>1
    <3> QED BY <1>1, <1>2, <2>1, <3>1
  <2>2. CASE newlines # {}
    <3>1. PICK k \in newlines : start = f.address + k
      <4>1. PICK n \in newlines : TRUE
        BY <2>2
      <4>2. f.address + n \in starts
        BY <1>4
      <4>3. f.address + n <= start /\ n \in 1..(pos - f.address)
        BY <1>3, <1>9, <4>2
      <4>4. start # f.address
        BY <1>1, <4>3
      <4> QED BY <1>4, <1>9, <4>4
    <3>2. \A n \in newlines : n <= k
      <4> TAKE n \in newlines
      <4>1. f.address + n <= f.address + k
        BY <1>4, <1>9, <3>1
      <4> QED BY <1>1, <1>3, <4>1
    <3>3. start - f.address = k
      BY <1>1, <1>3, <3>1
    <3> QED BY <1>1, <1>2, <1>3, <3>2, <3>3
  <2> QED BY <2>1, <2>2
<1>12. start \in f.address..pos
  BY <1>1, <1>3, <1>4, <1>9
<1>13. Cardinality((start - f.address + 1)..(pos - f.address)) = pos - start
  <2> DEFINE a == start - f.address + 1
             b == pos - f.address
  <2>1. a \in Int /\ b \in Int /\ a <= b + 1 /\ b - a + 1 = pos - start
    <3>1. \A x, y, z \in Int : y \in x..z =>
            z - x - (y - x + 1) + 1 = z - y /\ y - x + 1 <= (z - x) + 1 /\ y - x + 1 \in Int /\ z - x \in Int
      OBVIOUS
    <3>2. f.address \in Int /\ start \in Int /\ pos \in Int
      BY <1>1, <1>12
    <3> QED BY <1>12, <3>1, <3>2
  <2> HIDE DEF a, b
  <2>2. Cardinality(a..b) = b - a + 1
    <3>1. Cardinality(a..b) = IF a > b THEN 0 ELSE b - a + 1
      BY <2>1, FS_Interval
    <3> QED BY <2>1, <3>1
  <2> QED BY <2>1, <2>2 DEF a, b
<1>14. GetPos(f, pos) = [line |-> Cardinality(starts) - 1, col |-> pos - start]
  BY DEF GetPos, starts, start
<1>15. GetPos(f, pos).line = Cardinality(newlines) /\ GetPos(f, pos).col = pos - start
  BY <1>8, <1>10, <1>14
<1> QED BY <1>11, <1>13, <1>15 DEF newlines, before

(* GetSurroundingLine() walks as far as it can in both directions.         *)
LEMMA LineIsWhole ==
  ASSUME NEW f, f.address \in Int, f.text \in Seq(STRING), NEW r \in Subranges(Content(f))
  PROVE  LET line == GetSurroundingLine(f, r)
             outside == (line.begin..(r.begin - 1)) \cup (r.end..(line.end - 1))
         IN /\ line.begin <= r.begin /\ r.end <= line.end
            /\ \A a \in outside : CharAt(f, a) # "\n"
            /\ line.begin = f.address \/ CharAt(f, line.begin - 1) = "\n"
            /\ line.end = Content(f).end \/ CharAt(f, line.end) = "\n"
<1> DEFINE low == Content(f).begin
           high == Content(f).end
           starts == {s \in low..r.begin : \A a \in s..(r.begin - 1) : CharAt(f, a) # "\n"}
           ends   == {e \in r.end..high : \A a \in r.end..(e - 1) : CharAt(f, a) # "\n"}
           first == CHOOSE s \in starts : \A t \in starts : s <= t
           last == CHOOSE e \in ends : \A t \in ends : t <= e
<1>1. low \in Int /\ high \in Int /\ low = f.address
  BY DEF Content, Span
<1>2. r.begin \in Int /\ r.end \in Int /\ low <= r.begin /\ r.begin <= r.end /\ r.end <= high
  BY <1>1, PartsAreInside
<1> HIDE DEF low, high
<1>3. first \in starts /\ \A t \in starts : first <= t
  <2>1. starts \subseteq Int /\ \A s \in starts : low <= s
    BY <1>1, <1>2
  <2>2. r.begin \in starts
    BY <1>1, <1>2
  <2> HIDE DEF starts
  <2>3. \E s \in starts : \A t \in starts : s <= t
    BY <1>1, <2>1, <2>2, LeastOf
  <2> QED BY <2>3
<1>4. last \in ends /\ \A t \in ends : t <= last
  <2>1. ends \subseteq Int /\ \A e \in ends : e <= high
    BY <1>1, <1>2
  <2>2. r.end \in ends
    BY <1>1, <1>2
  <2> HIDE DEF ends
  <2>3. \E e \in ends : \A t \in ends : t <= e
    BY <1>1, <2>1, <2>2, GreatestOf
  <2> QED BY <2>3
<1> HIDE DEF first, last
<1>5. GetSurroundingLine(f, r).begin = first /\ GetSurroundingLine(f, r).end = last
  BY DEF GetSurroundingLine, first, last, low, high, Span
<1>6. /\ first \in low..r.begin /\ last \in r.end..high
      /\ \A a \in first..(r.begin - 1) : CharAt(f, a) # "\n"
      /\ \A a \in r.end..(last - 1) : CharAt(f, a) # "\n"
  BY <1>3, <1>4
<1>7. first = low \/ CharAt(f, first - 1) = "\n"
  <2> SUFFICES ASSUME first # low, CharAt(f, first - 1) # "\n" PROVE FALSE
    OBVIOUS
  <2>1. first - 1 \in low..r.begin
    BY <1>1, <1>2, <1>6
  <2>2. \A a \in (first - 1)..(r.begin - 1) : a = first - 1 \/ a \in first..(r.begin - 1)
    BY <1>2, <1>6
  <2>3. first - 1 \in starts
    BY <1>6, <2>1, <2>2
  <2> QED BY <1>2, <1>3, <1>6, <2>3
<1>8. last = high \/ CharAt(f, last) = "\n"
  <2> SUFFICES ASSUME last # high, CharAt(f, last) # "\n" PROVE FALSE
    OBVIOUS
  <2>1. last + 1 \in r.end..high
    BY <1>1, <1>2, <1>6
  <2>2. \A a \in r.end..((last + 1) - 1) : a = last \/ a \in r.end..(last - 1)
    BY <1>2, <1>6
  <2>3. last + 1 \in ends
    BY <1>6, <2>1, <2>2
  <2> QED BY <1>2, <1>4, <1>6, <2>3
<1>9. \A a \in (first..(r.begin - 1)) \cup (r.end..(last - 1)) : CharAt(f, a) # "\n"
  BY <1>6
<1>10. first <= r.begin /\ r.end <= last
  BY <1>2, <1>6
<1> QED BY <1>1, <1>5, <1>7, <1>8, <1>9, <1>10 DEF high

(* Line, column and the line shown around a text are what a reader of the  *)
(* file counts and sees, and what they are looked up in is still there.    *)
THEOREM LocationsTrue == LocationsSpec => []LocationsAreTrue
<1>1. MapInv /\ TextsInv => LocationsAreTrue
  BY PositionIsCounted, LineIsWhole
  DEF LocationsAreTrue, MapInv, TextsInv, NoRangeDangles, PositionsAreTrue, LinesAreWhole
<1> QED BY <1>1, LocatedInit, LocatedInductive, TextsInductive, PTL DEF LocationsSpec

-----------------------------------------------------------------------------
Increasing(s) == \A i, j \in 1..Len(s) : i < j => s[i] < s[j]
ValuesOf(s) == {s[i] : i \in 1..Len(s)}

(* Of an increasing sequence, those that are not above p come first.       *)
LEMMA NotAbove ==
  ASSUME NEW s \in Seq(Nat), Increasing(s), NEW p \in Nat
  PROVE  LET K == {i \in 1..Len(s) : s[i] <= p}
             V == {v \in ValuesOf(s) : v <= p}
         IN /\ Cardinality(K) \in Nat /\ K = 1..Cardinality(K)
            /\ IsFiniteSet(V) /\ Cardinality(V) = Cardinality(K)
            /\ V # {} => /\ Cardinality(K) \in 1..Len(s) /\ s[Cardinality(K)] \in V
                         /\ \A v \in V : v <= s[Cardinality(K)]
<1> DEFINE K == {i \in 1..Len(s) : s[i] <= p}
           V == {v \in ValuesOf(s) : v <= p}
<1>0. Len(s) \in Nat /\ \A i \in 1..Len(s) : s[i] \in Nat
  OBVIOUS
<1>1. PICK k \in 0..Len(s) : K = 1..k
  <2>1. CASE K = {}
    <3>1. K = 1..0 /\ 0 \in 0..Len(s)
      BY <2>1
    <3> QED BY <3>1
  <2>2. CASE K # {}
    <3>1. PICK k \in K : \A m \in K : m <= k
      <4>1. K \subseteq Int /\ \A m \in K : m <= Len(s)
        OBVIOUS
      <4> HIDE DEF K
      <4>2. Len(s) \in Int
        BY <1>0
      <4> QED BY <2>2, <4>1, <4>2, GreatestOf
    <3>2. k \in 1..Len(s) /\ s[k] <= p
      OBVIOUS
    <3>3. \A i \in 1..k : i \in 1..Len(s) /\ s[i] <= p
      BY <1>0, <3>2 DEF Increasing
    <3>4. K = 1..k
      BY <3>1, <3>2, <3>3
    <3> QED BY <3>2, <3>4
  <2> QED BY <2>1, <2>2
<1>2. Cardinality(K) = k /\ IsFiniteSet(K) /\ k \in Nat
  <2>1. k \in Nat /\ IsFiniteSet(1..k) /\ Cardinality(1..k) = k
    BY <1>1, FS_Interval
  <2> HIDE DEF K
  <2> QED BY <1>1, <2>1
<1>3. V = {s[i] : i \in K}
  BY DEF ValuesOf
<1> DEFINE f == [i \in K |-> s[i]]
<1>4. f \in Bijection(K, V)
  <2>1. f \in [K -> V] /\ \A v \in V : \E i \in K : f[i] = v
    BY <1>3
  <2>2. \A i, j \in K : f[i] = f[j] => i = j
    <3> SUFFICES ASSUME NEW i \in K, NEW j \in K, s[i] = s[j], i # j PROVE FALSE
      OBVIOUS
    <3>1. i < j \/ j < i
      OBVIOUS
    <3> QED BY <1>0, <3>1 DEF Increasing
  <2> HIDE DEF f, K, V
  <2> QED BY <2>1, <2>2 DEF Bijection, Injection, Surjection, IsInjective
<1>5. IsFiniteSet(V) /\ Cardinality(V) = k
  <2>1. ExistsBijection(K, V)
    BY <1>4 DEF ExistsBijection
  <2> HIDE DEF K, V
  <2> QED BY <1>2, <2>1, FS_Bijection
<1>6. V # {} => /\ k \in 1..Len(s) /\ s[k] \in V
                /\ \A v \in V : v <= s[k]
  <2> SUFFICES ASSUME V # {} PROVE k \in 1..Len(s) /\ s[k] \in V /\ \A v \in V : v <= s[k]
    OBVIOUS
  <2>1. k \in K /\ k \in 1..Len(s)
    BY <1>1, <1>3
  <2>2. \A i \in K : s[i] <= s[k]
    <3> SUFFICES ASSUME NEW i \in 1..k PROVE s[i] <= s[k]
      BY <1>1
    <3>1. i = k \/ i < k
      OBVIOUS
    <3>2. i \in 1..Len(s) /\ s[i] \in Nat /\ s[k] \in Nat
      BY <1>0, <2>1
    <3> QED BY <2>1, <3>1, <3>2 DEF Increasing
  <2> QED BY <1>3, <2>1, <2>2
<1> HIDE DEF K, V
<1> QED BY <1>1, <1>2, <1>5, <1>6 DEF K, V

-----------------------------------------------------------------------------
(* The scanner, over any texts.                                            *)

IsText == content \in Seq(STRING)

LEMMA CountIs == \A S : Scanning!Cardinality(S) = Cardinality(S)
BY DEF Scanning!Cardinality, Cardinality

LEMMA EndIs ==
  ASSUME IsText
  PROVE  /\ Scanning!End \in Nat /\ Scanning!End >= 1
         /\ DOMAIN content = 1..(Scanning!End - 1)
         /\ \A p \in 1..(Scanning!End - 1) : content[p] \in STRING
BY DEF IsText, Scanning!End

LEMMA FirstIs ==
  ASSUME IsText, NEW S, S \subseteq 1..(Scanning!End - 1)
  PROVE  /\ Scanning!FirstOf(S) \in S \cup {Scanning!End}
         /\ S # {} => Scanning!FirstOf(S) \in S
         /\ \A p \in S : Scanning!FirstOf(S) <= p
         /\ \A p \in 1..(Scanning!FirstOf(S) - 1) : p \notin S
<1> DEFINE U == S \cup {Scanning!End}
<1>0. Scanning!End \in Nat /\ Scanning!End >= 1
  BY EndIs
<1>1. U \subseteq Int /\ U # {} /\ \A p \in U : 1 <= p
  BY <1>0
<1>2. \E f \in U : \A p \in U : f <= p
  <2> HIDE DEF U
  <2>1. \A b \in Int : (\A p \in U : b <= p) => \E f \in U : \A p \in U : f <= p
    BY <1>1, LeastOf, Zenon
  <2> QED BY <1>1, <2>1
<1>3. Scanning!FirstOf(S) = CHOOSE f \in U : \A p \in U : f <= p
  BY DEF Scanning!FirstOf, Scanning!Min
<1>4. Scanning!FirstOf(S) \in U /\ \A p \in U : Scanning!FirstOf(S) <= p
  <2> HIDE DEF U
  <2> QED BY <1>2, <1>3
<1>5. \A p \in S : p \in 1..(Scanning!End - 1) /\ Scanning!FirstOf(S) <= p
  BY <1>4
<1> DEFINE f == Scanning!FirstOf(S)
<1>6. f \in S \cup {Scanning!End} /\ f \in Nat
  <2>1. \A p \in U : p \in Nat
    BY <1>0
  <2> HIDE DEF f
  <2>2. f \in U
    BY <1>4 DEF f
  <2> QED BY <2>1, <2>2
<1> HIDE DEF f
<1>7. S # {} => f \in S
  <2> SUFFICES ASSUME NEW p \in S PROVE f # Scanning!End
    BY <1>6
  <2>1. p \in 1..(Scanning!End - 1) /\ f <= p
    BY <1>5 DEF f
  <2> QED BY <1>0, <1>6, <2>1
<1>8. \A p \in 1..(f - 1) : p \notin S
  BY <1>5, <1>6 DEF f
<1> QED BY <1>5, <1>6, <1>7, <1>8 DEF f

LEMMA NewlinesAre ==
  ASSUME IsText
  PROVE  /\ \A a \in Nat, b \in Nat :
              /\ Scanning!Newlines(a, b) \subseteq Nat /\ IsFiniteSet(Scanning!Newlines(a, b))
              /\ \A p : p \in Scanning!Newlines(a, b) <=> p \in a..(b - 1) /\ content[p] = "\n"
         /\ \A a \in Nat, b \in Nat, c \in Nat : a <= b /\ b <= c =>
              Scanning!Newlines(a, c) = Scanning!Newlines(a, b) \cup Scanning!Newlines(b, c)
<1>1. \A a \in Nat, b \in Nat : IsFiniteSet(a..(b - 1))
  BY FS_Interval
<1>2. \A a \in Nat, b \in Nat :
        /\ Scanning!Newlines(a, b) \subseteq Nat /\ Scanning!Newlines(a, b) \subseteq a..(b - 1)
        /\ \A p : p \in Scanning!Newlines(a, b) <=> p \in a..(b - 1) /\ content[p] = "\n"
  BY DEF Scanning!Newlines
<1>3. \A a \in Nat, b \in Nat : IsFiniteSet(Scanning!Newlines(a, b))
  BY <1>1, <1>2, FS_Subset
<1>4. ASSUME NEW a \in Nat, NEW b \in Nat, NEW c \in Nat, a <= b, b <= c
      PROVE  Scanning!Newlines(a, c) = Scanning!Newlines(a, b) \cup Scanning!Newlines(b, c)
  <2>1. \A p : p \in a..(c - 1) <=> p \in a..(b - 1) \/ p \in b..(c - 1)
    BY <1>4
  <2> QED BY <1>2, <2>1
<1> QED BY <1>2, <1>3, <1>4

LEMMA SkipSpaceIs ==
  ASSUME IsText, NEW from \in 1..Scanning!End
  PROVE  LET start == Scanning!SkipSpace(from) IN
         /\ start \in from..Scanning!End
         /\ start # Scanning!End => content[start] \notin Scanning!Space
         /\ \A p \in from..(start - 1) :
              \/ content[p] \in Scanning!Space \cup {"\\"}
              \/ \E h \in from..p : content[h] = "#" /\ Scanning!Newlines(h, p) = {}
<1> DEFINE S == {p \in Scanning!Until(from, Scanning!Space \cup {"\\", "#"}) : ~Scanning!InComment(from, p)}
           start == Scanning!SkipSpace(from)
<1>0. Scanning!End \in Nat /\ Scanning!End >= 1
  BY EndIs
<1>1. \A p : p \in S <=> /\ p \in from..(Scanning!End - 1)
                         /\ content[p] \notin Scanning!Space \cup {"\\", "#"}
                         /\ ~Scanning!InComment(from, p)
  BY DEF Scanning!Until
<1>2. start = Scanning!FirstOf(S)
  BY DEF Scanning!SkipSpace
<1>3. S \subseteq 1..(Scanning!End - 1)
  BY <1>0, <1>1
<1> HIDE DEF S, start
<1>4. /\ start \in S \cup {Scanning!End}
      /\ \A p \in 1..(start - 1) : p \notin S
  BY <1>2, <1>3, FirstIs
<1>5. start \in from..Scanning!End
  BY <1>0, <1>1, <1>4
<1>6. start # Scanning!End => content[start] \notin Scanning!Space
  BY <1>1, <1>4
<1>7. ASSUME NEW p \in from..(start - 1)
      PROVE  \/ content[p] \in Scanning!Space \cup {"\\"}
             \/ \E h \in from..p : content[h] = "#" /\ Scanning!Newlines(h, p) = {}
  <2>1. p \in from..(Scanning!End - 1) /\ p \in 1..(start - 1)
    BY <1>0, <1>5
  <2>2. p \notin S
    BY <1>4, <2>1
  <2>3. CASE Scanning!InComment(from, p)
    BY <2>3 DEF Scanning!InComment
  <2>4. CASE content[p] = "#"
    <3>1. Scanning!Newlines(p, p) = {}
      BY DEF Scanning!Newlines
    <3> QED BY <2>4, <3>1
  <2> QED BY <1>1, <2>1, <2>2, <2>3, <2>4
<1> QED BY <1>5, <1>6, <1>7 DEF start

-----------------------------------------------------------------------------
(* The loop of HandleString.                                               *)

LEMMA LoopAtIs ==
  ASSUME NEW body \in Nat, NEW quote, NEW n \in Int
  PROVE  LET before == Scanning!LoopAt(content, body, quote, n) IN \A p \in Nat :
         /\ before[p].count \in Int /\ before[p].escaped \in BOOLEAN
         /\ p <= body => before[p].count = n /\ ~before[p].escaped
         /\ p >= body =>
              /\ before[p + 1].count = IF content[p] = quote /\ ~before[p].escaped
                                       THEN before[p].count - 1 ELSE n
              /\ before[p + 1].escaped <=> content[p] = "\\" /\ ~before[p].escaped
<1> DEFINE T == [count : Int, escaped : BOOLEAN]
           Fst == [count |-> n, escaped |-> FALSE]
           Then(p, s) == [count |-> IF content[p - 1] = quote /\ ~s.escaped THEN s.count - 1 ELSE n,
                          escaped |-> content[p - 1] = "\\" /\ ~s.escaped]
           Step(p, s) == IF p <= body THEN Fst ELSE Then(p, s)
           Rec(f) == f = [p \in Nat |-> Step(p, f[p - 1])]
           before == Scanning!LoopAt(content, body, quote, n)
<1>1. \A p, s : s \in T => Then(p, s) \in T
  OBVIOUS
<1>2. Fst \in T
  OBVIOUS
<1>3. before = CHOOSE f : Rec(f)
  BY DEF Scanning!LoopAt
<1> HIDE DEF T, Fst, Then
<1>4. \E f : f \in [Nat -> T] /\ Rec(f)
  <2> DEFINE step == [x \in Nat \X T |-> Step(x[1] + 1, x[2])]
  <2>1. step \in [Nat \X T -> T]
    BY <1>1, <1>2
  <2>2. PICK g \in [Nat -> T] : g[0] = Fst /\ \A k \in Nat : g[k + 1] = step[<<k, g[k]>>]
    <3> HIDE DEF step
    <3>1. \E g \in [Nat -> T] : g[0] = Fst /\ \A k \in Nat : g[k + 1] = step[<<k, g[k]>>]
      <4>1. Recursion(T, Fst, step)
        BY <1>2, <2>1, PrimitiveRecursion, Zenon
      <4> QED BY <4>1 DEF Recursion
    <3> QED BY <3>1
  <2>3. \A k \in Nat : g[k + 1] = Step(k + 1, g[k])
    BY <2>2
  <2>4. ASSUME NEW p \in Nat PROVE g[p] = Step(p, g[p - 1])
    <3>1. CASE p = 0
      BY <2>2, <3>1
    <3>2. CASE p # 0
      <4>1. p - 1 \in Nat /\ (p - 1) + 1 = p
        BY <3>2
      <4> HIDE DEF Step
      <4> QED BY <2>3, <4>1
    <3> QED BY <3>1, <3>2
  <2>5. Rec(g)
    <3> HIDE DEF Step
    <3> QED BY <2>4
  <2> QED BY <2>5
<1>5. Rec(before)
  <2> HIDE DEF Rec
  <2> QED BY <1>3, <1>4
<1>6. \A p \in Nat : before[p] = Step(p, before[p - 1])
  <2> HIDE DEF Step, before
  <2> QED BY <1>5
<1> HIDE DEF before
<1>7. \A p \in Nat : before[p] \in T
  <2> DEFINE S == {p \in Nat : before[p] \in T}
  <2>1. 0 \in S
    BY <1>2, <1>6
  <2>2. ASSUME NEW p \in Nat, p \in S PROVE p + 1 \in S
    <3>1. before[p + 1] = Step(p + 1, before[p])
      <4>1. p + 1 \in Nat /\ (p + 1) - 1 = p
        OBVIOUS
      <4> HIDE DEF Step
      <4> QED BY <1>6, <4>1
    <3> QED BY <1>1, <1>2, <2>2, <3>1
  <2> HIDE DEF S
  <2>3. Nat \subseteq S
    BY <2>1, <2>2, AllNaturals
  <2> QED BY <2>3 DEF S
<1>8. ASSUME NEW p \in Nat, p >= body PROVE before[p + 1] = Then(p + 1, before[p])
  <2>1. p + 1 \in Nat /\ (p + 1) - 1 = p /\ ~(p + 1 <= body)
    BY <1>8
  <2>2. before[p + 1] = Step(p + 1, before[p])
    <3> HIDE DEF Step
    <3> QED BY <1>6, <2>1
  <2> QED BY <2>1, <2>2
<1>9. \A p \in Nat : p <= body => before[p] = Fst
  BY <1>6
<1>10. ASSUME NEW p \in Nat, p >= body
       PROVE  /\ before[p + 1].count = IF content[p] = quote /\ ~before[p].escaped
                                       THEN before[p].count - 1 ELSE n
              /\ before[p + 1].escaped <=> content[p] = "\\" /\ ~before[p].escaped
  <2>1. (p + 1) - 1 = p /\ before[p + 1] = Then(p + 1, before[p])
    BY <1>8, <1>10
  <2>2. \A s : /\ Then(p + 1, s).count = IF content[p] = quote /\ ~s.escaped THEN s.count - 1 ELSE n
               /\ Then(p + 1, s).escaped <=> content[p] = "\\" /\ ~s.escaped
    BY <2>1, Zenon DEF Then
  <2> QED BY <2>1, <2>2
<1>11. \A p \in Nat : before[p].count \in Int /\ before[p].escaped \in BOOLEAN
  BY <1>7 DEF T
<1>12. \A p \in Nat : p <= body => before[p].count = n /\ ~before[p].escaped
  BY <1>9 DEF Fst
<1> QED BY <1>10, <1>11, <1>12, Zenon DEF before

Backslashes(body, q) == {p \in body..q - 1 : \A r \in p..q - 1 : content[r] = "\\"}
Slashes(body, q) == Cardinality(Backslashes(body, q))
Closes(body, quote, n, q) ==
  \A r \in q - n + 1..q : r >= body /\ content[r] = quote /\ Slashes(body, r) % 2 = 0

LEMMA SlashesAre ==
  ASSUME NEW body \in Nat, NEW q \in Nat, q >= body
  PROVE  /\ Slashes(body, body) = 0
         /\ IsFiniteSet(Backslashes(body, q)) /\ Slashes(body, q) \in Nat
         /\ Slashes(body, q + 1) = IF content[q] = "\\" THEN Slashes(body, q) + 1 ELSE 0
<1>1. Backslashes(body, body) = {}
  BY DEF Backslashes
<1>2. IsFiniteSet(Backslashes(body, q)) /\ Slashes(body, q) \in Nat
  <2>1. IsFiniteSet(body..(q - 1))
    BY FS_Interval
  <2>2. Backslashes(body, q) \subseteq body..(q - 1)
    BY DEF Backslashes
  <2> QED BY <2>1, <2>2, FS_Subset, FS_CardinalityType DEF Slashes
<1>3. CASE content[q] = "\\"
  <2>1. Backslashes(body, q + 1) = Backslashes(body, q) \cup {q} /\ q \notin Backslashes(body, q)
    <3>1. ASSUME NEW p \in body..(q - 1)
          PROVE  (\A r \in p..(q - 1) : content[r] = "\\") <=> (\A r \in p..((q + 1) - 1) : content[r] = "\\")
      <4>1. \A r : r \in p..((q + 1) - 1) <=> r \in p..(q - 1) \/ r = q
        OBVIOUS
      <4> QED BY <1>3, <4>1
    <3>2. \A r \in q..((q + 1) - 1) : content[r] = "\\"
      <4>1. \A r \in q..((q + 1) - 1) : r = q
        OBVIOUS
      <4> QED BY <1>3, <4>1
    <3>3. \A p : p \in body..((q + 1) - 1) <=> p \in body..(q - 1) \/ p = q
      OBVIOUS
    <3>4. q \notin body..(q - 1)
      OBVIOUS
    <3> QED BY <3>1, <3>2, <3>3, <3>4, Zenon DEF Backslashes
  <2>2. Cardinality(Backslashes(body, q) \cup {q}) = Cardinality(Backslashes(body, q)) + 1
    BY <1>2, <2>1, FS_AddElement
  <2> QED BY <1>1, <1>2, <1>3, <2>1, <2>2, FS_EmptySet DEF Slashes
<1>4. CASE content[q] # "\\"
  <2>1. Backslashes(body, q + 1) = {}
    <3>1. \A p \in body..((q + 1) - 1) : q \in p..((q + 1) - 1)
      OBVIOUS
    <3> QED BY <1>4, <3>1 DEF Backslashes
  <2> QED BY <1>1, <1>2, <1>4, <2>1, FS_EmptySet DEF Slashes
<1> QED BY <1>3, <1>4

(* A place is escaped behind an odd number of backslashes.                 *)
LEMMA EscapedIs ==
  ASSUME NEW body \in Nat, NEW quote, NEW n \in Int, NEW q \in Nat, q >= body
  PROVE  Scanning!LoopAt(content, body, quote, n)[q].escaped <=> Slashes(body, q) % 2 = 1
<1> DEFINE b == Scanning!LoopAt(content, body, quote, n)
           S == {k \in Nat : b[body + k].escaped <=> Slashes(body, body + k) % 2 = 1}
<1>1. \A p \in Nat : /\ b[p].escaped \in BOOLEAN
                     /\ p <= body => ~b[p].escaped
                     /\ p >= body => (b[p + 1].escaped <=> content[p] = "\\" /\ ~b[p].escaped)
  BY LoopAtIs
<1>2. \A p \in Nat : p >= body =>
        /\ Slashes(body, body) = 0 /\ Slashes(body, p) \in Nat
        /\ Slashes(body, p + 1) = IF content[p] = "\\" THEN Slashes(body, p) + 1 ELSE 0
  BY SlashesAre
<1> HIDE DEF b
<1>3. 0 \in S
  BY <1>1, <1>2
<1>4. ASSUME NEW k \in Nat, k \in S PROVE k + 1 \in S
  <2> DEFINE p == body + k
  <2>1. p \in Nat /\ p >= body /\ body + (k + 1) = p + 1
    OBVIOUS
  <2>2. b[p].escaped <=> Slashes(body, p) % 2 = 1
    BY <1>4
  <2> HIDE DEF p
  <2>3. \A s \in Nat : (s + 1) % 2 = 1 <=> ~(s % 2 = 1)
    OBVIOUS
  <2>4. 0 % 2 = 0
    OBVIOUS
  <2>5. b[p + 1].escaped <=> Slashes(body, p + 1) % 2 = 1
    <3>1. CASE content[p] = "\\"
      <4>1. Slashes(body, p) \in Nat /\ Slashes(body, p + 1) = Slashes(body, p) + 1
        BY <1>2, <2>1, <3>1
      <4>2. b[p + 1].escaped <=> ~b[p].escaped
        BY <1>1, <2>1, <3>1
      <4> QED BY <2>2, <2>3, <4>1, <4>2
    <3>2. CASE content[p] # "\\"
      <4>1. Slashes(body, p + 1) = 0
        BY <1>2, <2>1, <3>2
      <4>2. ~b[p + 1].escaped
        BY <1>1, <2>1, <3>2
      <4> QED BY <2>4, <4>1, <4>2
    <3> QED BY <3>1, <3>2
  <2> QED BY <2>1, <2>5 DEF p
<1>5. q - body \in Nat /\ body + (q - body) = q
  OBVIOUS
<1> HIDE DEF S
<1>6. q - body \in S
  BY <1>3, <1>4, <1>5, AllNaturals
<1> QED BY <1>5, <1>6 DEF S, b

(* Until the string is closed, the count says how many quotes are missing. *)
LEMMA MissingQuotes ==
  ASSUME NEW body \in Nat, NEW quote, NEW n \in Nat, n >= 1, NEW q \in Nat, q >= body,
         \A r \in body..(q - 1) :
           LET b == Scanning!LoopAt(content, body, quote, n)
           IN  ~(content[r] = quote /\ ~b[r].escaped /\ b[r].count = 1)
  PROVE  LET b == Scanning!LoopAt(content, body, quote, n) IN
         /\ b[q].count \in 1..n
         /\ \A k \in 0..(n - 1) :
              b[q].count <= n - k <=>
                /\ q - k >= body
                /\ \A r \in (q - k)..(q - 1) : content[r] = quote /\ ~b[r].escaped
<1> DEFINE b == Scanning!LoopAt(content, body, quote, n)
           Q(r) == content[r] = quote /\ ~b[r].escaped
           Run(p, k) == p - k >= body /\ \A r \in (p - k)..(p - 1) : Q(r)
           Good(p) == /\ b[p].count \in 1..n
                      /\ \A k \in 0..(n - 1) : b[p].count <= n - k <=> Run(p, k)
           S == {k \in Nat : body + k <= q => Good(body + k)}
<1>1. \A p \in Nat : /\ b[p].count \in Int /\ b[p].escaped \in BOOLEAN
                     /\ p <= body => b[p].count = n /\ ~b[p].escaped
                     /\ p >= body => b[p + 1].count = IF Q(p) THEN b[p].count - 1 ELSE n
  BY LoopAtIs
<1>0. \A r \in body..(q - 1) : ~(Q(r) /\ b[r].count = 1)
  OBVIOUS
<1> HIDE DEF b, Q
<1>2. \A p \in Nat : Run(p, 0)  <=> p >= body
  OBVIOUS
<1>3. 0 \in S
  <2>1. b[body].count = n
    BY <1>1
  <2>2. \A k \in 0..(n - 1) : n <= n - k <=> Run(body, k)
    <3> TAKE k \in 0..(n - 1)
    <3>1. CASE k = 0
      BY <1>2, <3>1
    <3>2. CASE k # 0
      BY <3>2
    <3> QED BY <3>1, <3>2
  <2>3. body + 0 = body /\ n \in 1..n
    OBVIOUS
  <2> HIDE DEF Run
  <2> QED BY <2>1, <2>2, <2>3
<1>4. ASSUME NEW m \in Nat, m \in S PROVE m + 1 \in S
  <2> DEFINE p == body + m
  <2> SUFFICES ASSUME p + 1 <= q PROVE Good(p + 1)
    <3>1. body + (m + 1) = p + 1
      OBVIOUS
    <3> HIDE DEF Good
    <3> QED BY <3>1
  <2>1. p \in Nat /\ p >= body /\ p \in body..(q - 1) /\ p <= q
    OBVIOUS
  <2>2. Good(p)
    <3> HIDE DEF Good
    <3> QED BY <1>4, <2>1
  <2> HIDE DEF p
  <2>3. CASE Q(p)
    <3>1. b[p + 1].count = b[p].count - 1 /\ b[p].count # 1
      BY <1>0, <1>1, <2>1, <2>3
    <3>2. b[p + 1].count \in 1..n
      BY <2>2, <3>1
    <3>3. ASSUME NEW k \in 0..(n - 1) PROVE b[p + 1].count <= n - k <=> Run(p + 1, k)
      <4>1. CASE k = 0
        <5>1. Run(p + 1, 0) /\ b[p + 1].count <= n - 0
          BY <1>2, <2>1, <3>2
        <5> QED BY <4>1, <5>1
      <4>2. CASE k # 0
        <5>1. k - 1 \in 0..(n - 1)
          BY <4>2
        <5>2. b[p].count <= n - (k - 1) <=> Run(p, k - 1)
          BY <2>2, <5>1
        <5>3. Run(p, k - 1) <=> Run(p + 1, k)
          <6>1. p - (k - 1) = (p + 1) - k
            BY <2>1
          <6>2. (p + 1) - k >= body =>
                  \A r : r \in ((p + 1) - k)..((p + 1) - 1) <=> r \in ((p + 1) - k)..(p - 1) \/ r = p
            BY <2>1, <4>2
          <6> QED BY <2>3, <6>1, <6>2
        <5>4. b[p + 1].count <= n - k <=> b[p].count <= n - (k - 1)
          BY <2>2, <3>1
        <5> QED BY <5>2, <5>3, <5>4
      <4> QED BY <4>1, <4>2
    <3> QED BY <3>2, <3>3
  <2>4. CASE ~Q(p)
    <3>1. b[p + 1].count = n
      BY <1>1, <2>1, <2>4
    <3>3. ASSUME NEW k \in 0..(n - 1) PROVE n <= n - k <=> Run(p + 1, k)
      <4>1. CASE k = 0
        <5>1. Run(p + 1, 0)
          BY <1>2, <2>1
        <5> QED BY <4>1, <5>1
      <4>2. CASE k # 0
        <5>1. p \in ((p + 1) - k)..((p + 1) - 1)
          BY <2>1, <4>2
        <5> QED BY <2>4, <4>2, <5>1
      <4> QED BY <4>1, <4>2
    <3> HIDE DEF Run
    <3> QED BY <3>1, <3>3
  <2> QED BY <2>3, <2>4
<1>5. q - body \in Nat /\ body + (q - body) = q
  OBVIOUS
<1>6. q - body \in S
  <2> HIDE DEF S
  <2> QED BY <1>3, <1>4, <1>5, AllNaturals
<1>7. Good(q)
  <2> HIDE DEF Good
  <2> QED BY <1>5, <1>6
<1> QED BY <1>7 DEF b, Q

LEMMA StringLoopIs ==
  ASSUME IsText, NEW body \in 1..Scanning!End, NEW quote, NEW n \in Nat, n >= 1
  PROVE  LET loop == Scanning!StringLoop(body, quote, n) IN
         /\ loop.closed \in BOOLEAN /\ loop.to \in body..Scanning!End
         /\ loop.closed =>
              /\ loop.to > body /\ Closes(body, quote, n, loop.to - 1)
              /\ \A q \in body..(loop.to - 2) : ~Closes(body, quote, n, q)
<1> DEFINE b == Scanning!LoopAt(content, body, quote, n)
           Q(r) == content[r] = quote /\ ~b[r].escaped
           closing == {p \in body..(Scanning!End - 1) : content[p] = quote /\ ~b[p].escaped /\ b[p].count = 1}
           loop == Scanning!StringLoop(body, quote, n)
           E == Scanning!End
           first == Scanning!FirstOf(closing)
<1>0. E \in Nat /\ E >= 1 /\ body \in Nat /\ body >= 1 /\ body <= E
  BY EndIs
<1>1. /\ loop.closed = (closing # {})
      /\ loop.to = IF closing = {} THEN E ELSE first + 1
  BY DEF Scanning!StringLoop
<1>2. closing \subseteq 1..(Scanning!End - 1)
  BY <1>0
<1>3. /\ closing # {} => first \in closing
      /\ \A p \in 1..(first - 1) : p \notin closing
  <2> HIDE DEF closing
  <2> QED BY <1>2, FirstIs
<1>4. ASSUME NEW q \in body..(E - 1), \A r \in body..(q - 1) : r \notin closing
      PROVE  q \in closing <=> Closes(body, quote, n, q)
  <2>0. q \in Nat /\ q >= body
    BY <1>0
  <2>1. \A r \in body..(q - 1) : ~(Q(r) /\ b[r].count = 1)
    <3> TAKE r \in body..(q - 1)
    <3>1. r \in body..(E - 1) /\ r \notin closing
      BY <1>0, <1>4
    <3>2. r \in body..(Scanning!End - 1)
      BY <3>1
    <3> HIDE DEF b
    <3> QED BY <3>1, <3>2, Zenon
  <2>2. /\ b[q].count \in 1..n
        /\ \A k \in 0..(n - 1) :
              b[q].count <= n - k <=>
                /\ q - k >= body
                /\ \A r \in (q - k)..(q - 1) : content[r] = quote /\ ~b[r].escaped
    BY <1>0, <2>0, <2>1, MissingQuotes
  <2>3. \A r \in Nat : r >= body => (~b[r].escaped <=> Slashes(body, r) % 2 = 0)
    <3>1. \A r \in Nat : r >= body => (b[r].escaped <=> Slashes(body, r) % 2 = 1)
      BY <1>0, EscapedIs
    <3>2. \A r \in Nat : r >= body => Slashes(body, r) \in Nat
      BY <1>0, SlashesAre
    <3>3. \A s \in Nat : s % 2 = 1 <=> ~(s % 2 = 0)
      OBVIOUS
    <3> HIDE DEF b
    <3> QED BY <3>1, <3>2, <3>3
  <2>6. q \in closing <=> Q(q) /\ b[q].count = 1
    OBVIOUS
  <2> HIDE DEF b, closing
  <2>4. b[q].count = 1 <=> /\ q - (n - 1) >= body
                           /\ \A r \in (q - (n - 1))..(q - 1) : Q(r)
    <3>1. n - 1 \in 0..(n - 1) /\ n - (n - 1) = 1 /\ \A c \in 1..n : c <= 1 <=> c = 1
      OBVIOUS
    <3> QED BY <2>2, <3>1
  <2>5. q - (n - 1) = q - n + 1 /\ \A r : r \in (q - n + 1)..q <=> r \in (q - n + 1)..(q - 1) \/ r = q
    BY <2>0
  <2>7. q \in closing <=> q - n + 1 >= body /\ \A r \in (q - n + 1)..q : Q(r)
    <3>1. q \in closing <=> Q(q) /\ q - n + 1 >= body /\ \A r \in (q - n + 1)..(q - 1) : Q(r)
      BY <2>4, <2>5, <2>6
    <3> HIDE DEF Q
    <3> QED BY <2>5, <3>1
  <2>8. q - n + 1 >= body <=> \A r \in (q - n + 1)..q : r >= body
    BY <2>0
  <2>9. q - n + 1 >= body => \A r \in (q - n + 1)..q : r \in Nat /\ r >= body
    BY <2>0, <1>0
  <2>10. Closes(body, quote, n, q) <=>
           \A r \in (q - n + 1)..q : r >= body /\ content[r] = quote /\ Slashes(body, r) % 2 = 0
    BY DEF Closes
  <2>11. CASE q - n + 1 >= body
    <3>1. \A r \in (q - n + 1)..q : r \in Nat /\ r >= body /\ (~b[r].escaped <=> Slashes(body, r) % 2 = 0)
      BY <2>3, <2>9, <2>11
    <3> QED BY <2>7, <2>10, <2>11, <3>1
  <2>12. CASE ~(q - n + 1 >= body)
    BY <2>7, <2>8, <2>10, <2>12
  <2> QED BY <2>11, <2>12
<1>5. CASE closing = {}
  <2>1. loop.closed = FALSE /\ loop.to = E
    BY <1>1, <1>5
  <2> HIDE DEF loop, E
  <2>2. loop.to \in body..E
    BY <1>0, <2>1
  <2> QED BY <2>1, <2>2 DEF E, loop
<1>6. CASE closing # {}
  <2>1. first \in body..(E - 1) /\ first \in closing
    BY <1>3, <1>6
  <2> DEFINE f == first
  <2>2. f \in body..(E - 1) /\ f \in closing /\ \A p \in 1..(f - 1) : p \notin closing
    BY <1>3, <2>1
  <2>3. loop.closed = TRUE /\ loop.to = f + 1
    BY <1>1, <1>6
  <2> HIDE DEF f, closing, loop, E
  <2>4. f \in Nat /\ \A r \in body..(f - 1) : r \in 1..(f - 1)
    BY <1>0, <2>2
  <2>5. Closes(body, quote, n, f)
    BY <1>4, <2>2, <2>4
  <2>6. ASSUME NEW q \in body..(f - 1) PROVE ~Closes(body, quote, n, q)
    <3>1. q \in body..(E - 1) /\ q \in 1..(f - 1) /\ \A r \in body..(q - 1) : r \in 1..(f - 1)
      BY <1>0, <2>2
    <3> QED BY <1>4, <2>2, <3>1
  <2>7. (f + 1) - 1 = f /\ (f + 1) - 2 = f - 1 /\ f + 1 \in body..E /\ f + 1 > body
    BY <1>0, <2>2
  <2> QED BY <2>3, <2>5, <2>6, <2>7 DEF E, loop
<1> QED BY <1>5, <1>6

(* PushNewline of newlines not before those that are already there.        *)
LEMMA PushedIs ==
  ASSUME NEW s \in Seq(Nat), Increasing(s), NEW L, L \subseteq Nat, IsFiniteSet(L),
         \A v \in ValuesOf(s), p \in L : v <= p
  PROVE  LET new == Scanning!Pushed(s, L) IN
         /\ new \in Seq(Nat) /\ Increasing(new) /\ (s # <<>> => new # <<>>)
         /\ ValuesOf(new) = ValuesOf(s) \cup {p + 1 : p \in L}
<1> DEFINE n == Cardinality(L)
           Rank(p) == Cardinality({q \in L : q < p})
           at(i) == CHOOSE p \in L : Scanning!Cardinality({q \in L : q < p}) = i - 1
           more == [i \in 1..n |-> 1 + at(i)]
           new == Scanning!Pushed(s, L)
<1>1. /\ n \in Nat
      /\ \A p \in L : Rank(p) \in 0..(n - 1)
      /\ \A p, q \in L : p < q => Rank(p) < Rank(q)
      /\ \A i \in 1..n : \E p \in L : Rank(p) = i - 1
  BY Numbered
<1>2. new = s \o more
  <2>1. Scanning!Cardinality(L) = n
    BY CountIs
  <2> QED BY <2>1 DEF Scanning!Pushed
<1>3. \A p : Scanning!Cardinality({q \in L : q < p}) = Rank(p)
  BY CountIs
<1> DEFINE rank == [p \in L |-> Rank(p)]
           place == [i \in 1..n |-> at(i)]
<1>4. place \in [1..n -> L] /\ \A i \in 1..n : rank[place[i]] = i - 1
  <2> SUFFICES ASSUME NEW i \in 1..n PROVE at(i) \in L /\ Rank(at(i)) = i - 1
    OBVIOUS
  <2> HIDE DEF Rank, n
  <2>1. PICK p \in L : Scanning!Cardinality({q \in L : q < p}) = i - 1
    BY <1>1, <1>3
  <2>2. at(i) \in L /\ Scanning!Cardinality({q \in L : q < at(i)}) = i - 1
    BY <2>1
  <2> HIDE DEF at
  <2> QED BY <1>3, <2>2
<1>5. \A p \in L : p \in Nat
  OBVIOUS
<1>a. /\ rank \in [L -> 0..(n - 1)]
      /\ \A p, q \in L : p < q => rank[p] < rank[q]
  BY <1>1
<1>b. more = [i \in 1..n |-> 1 + place[i]]
  OBVIOUS
<1> HIDE DEF rank, place, n, Rank, at
<1>6. ASSUME NEW i \in 1..n, NEW j \in 1..n, i < j PROVE place[i] < place[j]
  <2>1. rank[place[i]] < rank[place[j]]
    BY <1>1, <1>4, <1>6
  <2>2. place[i] \in Nat /\ place[j] \in Nat /\ place[i] \in L /\ place[j] \in L
    BY <1>4, <1>5
  <2>3. place[j] < place[i] => rank[place[j]] < rank[place[i]]
    BY <1>a, <2>2
  <2>4. rank[place[i]] \in Int /\ rank[place[j]] \in Int
    BY <1>1, <1>a, <2>2
  <2> QED BY <2>1, <2>2, <2>3, <2>4
<1>7. more \in Seq(Nat) /\ Len(more) = n /\ \A i \in 1..n : more[i] = 1 + place[i]
  <2>1. \A i \in 1..n : place[i] \in Nat
    BY <1>4, <1>5
  <2> HIDE DEF more
  <2>2. more \in [1..n -> Nat] /\ \A i \in 1..n : more[i] = 1 + place[i]
    BY <1>b, <2>1
  <2> QED BY <1>1, <2>2
<1>8. ValuesOf(more) = {p + 1 : p \in L}
  <2>1. ASSUME NEW p \in L PROVE \E i \in 1..n : place[i] = p
    <3>1. rank[p] \in 0..(n - 1)
      BY <1>a
    <3> DEFINE i == rank[p] + 1
    <3>2. i \in 1..n /\ i - 1 = rank[p] /\ rank[p] \in Int
      BY <1>1, <3>1
    <3> HIDE DEF i
    <3>3. place[i] \in L /\ rank[place[i]] = rank[p] /\ place[i] \in Nat /\ p \in Nat
      BY <1>4, <1>5, <3>2
    <3>4. /\ place[i] < p => rank[place[i]] < rank[p]
          /\ p < place[i] => rank[p] < rank[place[i]]
      BY <1>a, <3>3
    <3>5. place[i] = p
      BY <3>2, <3>3, <3>4
    <3> QED BY <3>2, <3>5
  <2>2. \A v : v \in ValuesOf(more) <=> \E i \in 1..n : v = 1 + place[i]
    BY <1>7 DEF ValuesOf
  <2>3. \A i \in 1..n : place[i] \in L
    BY <1>4
  <2>4. \A p \in L : 1 + p = p + 1
    BY <1>5
  <2> HIDE DEF more
  <2>5. ASSUME NEW v PROVE v \in ValuesOf(more) <=> \E p \in L : v = p + 1
    <3>1. ASSUME NEW i \in 1..n, v = 1 + place[i] PROVE \E p \in L : v = p + 1
      BY <2>3, <2>4, <3>1
    <3>2. ASSUME NEW p \in L, v = p + 1 PROVE \E i \in 1..n : v = 1 + place[i]
      <4>1. PICK i \in 1..n : place[i] = p
        BY <2>1
      <4> QED BY <2>4, <3>2, <4>1
    <3> QED BY <2>2, <3>1, <3>2
  <2> QED BY <2>5
<1> HIDE DEF more, new
<1>9. /\ new \in Seq(Nat) /\ Len(new) = Len(s) + n /\ Len(s) \in Nat
      /\ \A i \in 1..Len(new) : new[i] = IF i <= Len(s) THEN s[i] ELSE more[i - Len(s)]
  <2>1. new = s \o more /\ s \in Seq(Nat) /\ more \in Seq(Nat) /\ Len(more) = n
    BY <1>2, <1>7
  <2>2. /\ s \o more \in Seq(Nat) /\ Len(s \o more) = Len(s) + Len(more) /\ Len(s) \in Nat
        /\ \A i \in 1..Len(s) + Len(more) : (s \o more)[i] = IF i <= Len(s) THEN s[i] ELSE more[i - Len(s)]
    <3>1. ASSUME NEW a \in Seq(Nat), NEW b \in Seq(Nat)
          PROVE  /\ a \o b \in Seq(Nat) /\ Len(a \o b) = Len(a) + Len(b) /\ Len(a) \in Nat
                 /\ \A i \in 1..Len(a) + Len(b) : (a \o b)[i] = IF i <= Len(a) THEN a[i] ELSE b[i - Len(a)]
      OBVIOUS
    <3> QED BY <2>1, <3>1
  <2> QED BY <2>1, <2>2
<1>10. s # <<>> => new # <<>>
  <2>1. s # <<>> => Len(s) > 0
    OBVIOUS
  <2> QED BY <1>1, <1>9, <2>1
<1>11. ValuesOf(new) = ValuesOf(s) \cup ValuesOf(more)
  <2>1. \A i \in 1..Len(s) : i \in 1..Len(new) /\ new[i] = s[i]
    BY <1>1, <1>9
  <2>2. \A i \in 1..n : Len(s) + i \in 1..Len(new) /\ new[Len(s) + i] = more[i]
    <3> TAKE i \in 1..n
    <3> DEFINE k == Len(s) + i
    <3>1. k \in 1..Len(new) /\ ~(k <= Len(s)) /\ k - Len(s) = i
      BY <1>1, <1>9
    <3> HIDE DEF k
    <3>2. new[k] = more[i]
      BY <1>9, <3>1
    <3> QED BY <3>1, <3>2 DEF k
  <2>3. \A i \in 1..Len(new) : (i \in 1..Len(s) /\ new[i] = s[i]) \/ (i - Len(s) \in 1..n /\ new[i] = more[i - Len(s)])
    BY <1>1, <1>9
  <2>4. Len(more) = n
    BY <1>7
  <2>5. ASSUME NEW v PROVE v \in ValuesOf(new) <=> v \in ValuesOf(s) \/ v \in ValuesOf(more)
    <3>1. ASSUME v \in ValuesOf(new) PROVE v \in ValuesOf(s) \/ v \in ValuesOf(more)
      <4>1. PICK i \in 1..Len(new) : v = new[i]
        BY <3>1 DEF ValuesOf
      <4> QED BY <2>3, <2>4, <4>1 DEF ValuesOf
    <3>2. ASSUME v \in ValuesOf(s) PROVE v \in ValuesOf(new)
      <4>1. PICK i \in 1..Len(s) : v = s[i]
        BY <3>2 DEF ValuesOf
      <4> QED BY <2>1, <4>1 DEF ValuesOf
    <3>3. ASSUME v \in ValuesOf(more) PROVE v \in ValuesOf(new)
      <4>1. PICK i \in 1..n : v = more[i]
        BY <2>4, <3>3 DEF ValuesOf
      <4> QED BY <2>2, <4>1 DEF ValuesOf
    <3> QED BY <3>1, <3>2, <3>3
  <2> QED BY <2>5
<1>12. Increasing(new)
  <2> SUFFICES ASSUME NEW i \in 1..Len(new), NEW j \in 1..Len(new), i < j PROVE new[i] < new[j]
    BY DEF Increasing
  <2>1. CASE j <= Len(s)
    <3>1. i \in 1..Len(s) /\ j \in 1..Len(s) /\ new[i] = s[i] /\ new[j] = s[j]
      BY <1>9, <2>1
    <3> QED BY <3>1 DEF Increasing
  <2>2. CASE i <= Len(s) /\ ~(j <= Len(s))
    <3>1. i \in 1..Len(s) /\ (j - Len(s)) \in 1..n /\ new[i] = s[i] /\ new[j] = 1 + place[j - Len(s)]
      <4>1. /\ i \in Nat /\ j \in Nat /\ n \in Nat /\ Len(s) \in Nat
            /\ 1 <= i /\ i <= Len(s) /\ Len(s) < j /\ j <= Len(s) + n
        BY <1>1, <1>9, <2>2
      <4>2. i \in 1..Len(s) /\ (j - Len(s)) \in 1..n
        BY <4>1
      <4>3. new[i] = s[i] /\ new[j] = more[j - Len(s)]
        BY <1>9, <4>1, SMTT(30)
      <4> QED BY <1>7, <4>2, <4>3
    <3>2. s[i] \in ValuesOf(s) /\ s[i] \in Nat
      BY <3>1 DEF ValuesOf
    <3>3. s[i] <= place[j - Len(s)] /\ place[j - Len(s)] \in Nat
      BY <1>4, <1>5, <3>1, <3>2
    <3> QED BY <3>1, <3>2, <3>3
  <2>3. CASE ~(i <= Len(s))
    <3>1. /\ (i - Len(s)) \in 1..n /\ (j - Len(s)) \in 1..n /\ i - Len(s) < j - Len(s)
          /\ new[i] = 1 + place[i - Len(s)] /\ new[j] = 1 + place[j - Len(s)]
      <4>0. /\ i \in Nat /\ j \in Nat /\ n \in Nat /\ Len(s) \in Nat
            /\ Len(s) < i /\ i < j /\ j <= Len(s) + n
        <5>1. i \in 1..Len(new) /\ j \in 1..Len(new) /\ i < j
          OBVIOUS
        <5>2. n \in Nat /\ Len(s) \in Nat /\ Len(new) = Len(s) + n
          BY <1>1, <1>9
        <5> HIDE DEF n
        <5> QED BY <2>3, <5>1, <5>2
      <4>1. i - Len(s) \in 1..n /\ j - Len(s) \in 1..n /\ i - Len(s) < j - Len(s) /\ ~(j <= Len(s))
        <5> HIDE DEF n
        <5> QED BY <4>0
      <4> QED BY <1>7, <1>9, <2>3, <4>1
    <3>2. place[i - Len(s)] < place[j - Len(s)] /\ place[i - Len(s)] \in Nat /\ place[j - Len(s)] \in Nat
      BY <1>4, <1>5, <1>6, <3>1
    <3> QED BY <3>1, <3>2
  <2>4. i \in Int /\ j \in Int /\ Len(s) \in Int
    BY <1>9
  <2> QED BY <2>1, <2>2, <2>3, <2>4
<1> QED BY <1>8, <1>9, <1>10, <1>11, <1>12 DEF new

-----------------------------------------------------------------------------
(* The handlers.                                                           *)

OpenOf(from) == IF content[from] = "r" THEN from + 1 ELSE from
TripleAt(open) ==
  Scanning!Is(open + 1, {content[open]}) /\ Scanning!Is(open + 2, {content[open]})
NeededAt(open) == IF TripleAt(open) THEN 3 ELSE 1

StringIsGood(from, to) ==
  LET open == OpenOf(from)
      n    == NeededAt(open)
  IN /\ open \in from..(Scanning!End - 1) /\ content[open] \in Scanning!Quotes
     /\ open + n < to /\ Closes(open + n, content[open], n, to - 1)
     /\ \A q \in (open + n)..(to - 2) : ~Closes(open + n, content[open], n, q)

Types ==
  Scanning!AsIs \cup Scanning!MayDouble \cup
  {"double", "number", "string", "error", "not", "not in", "in", "if", "identifier"}

ScannedWell(start, scanned) ==
  /\ scanned.to \in start + 1..Scanning!End
  /\ scanned.lines \subseteq Scanning!Newlines(start, scanned.to)
  /\ Scanning!NotInIsOnOneLine => scanned.lines = Scanning!Newlines(start, scanned.to)
  /\ scanned.type \in Scanning!AsIs => scanned.lines = {}
  /\ scanned.type \in Types /\ scanned.type # "eof"
  /\ scanned.type = "string" => StringIsGood(start, scanned.to)

LEMMA HandleStringIs ==
  ASSUME IsText, NEW start \in 1..(Scanning!End - 1),
         OpenOf(start) < Scanning!End, content[OpenOf(start)] \in Scanning!Quotes
  PROVE  ScannedWell(start, Scanning!HandleString(start))
<1> DEFINE E == Scanning!End
           open == OpenOf(start)
           quote == content[open]
           n == NeededAt(open)
           body == open + n
           loop == Scanning!StringLoop(body, quote, n)
           s == Scanning!HandleString(start)
<1>0. E \in Nat /\ E >= 1 /\ start \in Nat /\ start >= 1 /\ start < E
  BY EndIs
<1>1. open \in start..(E - 1) /\ open \in Nat
  BY <1>0 DEF OpenOf
<1>2. n \in Nat /\ n >= 1 /\ body \in Nat /\ body > start
  BY <1>0, <1>1 DEF NeededAt
<1>3. body \in 1..E
  <2>1. CASE TripleAt(open)
    <3>1. open + 2 < E /\ n = 3
      BY <2>1 DEF TripleAt, Scanning!Is, NeededAt
    <3> QED BY <1>0, <1>1, <3>1
  <2>2. CASE ~TripleAt(open)
    <3>1. n = 1
      BY <2>2 DEF NeededAt
    <3> QED BY <1>0, <1>1, <3>1
  <2> QED BY <2>1, <2>2
<1>4. s = [type |-> IF loop.closed THEN "string" ELSE "error", to |-> loop.to,
           lines |-> Scanning!Newlines(body, loop.to)]
  <2>1. (IF Scanning!Is(start, {"r"}) THEN start + 1 ELSE start) = open
    BY <1>0 DEF OpenOf, Scanning!Is
  <2>2. (IF Scanning!Is(open + 1, {quote}) /\ Scanning!Is(open + 2, {quote}) THEN open + 3 ELSE open + 1) = body
    BY DEF NeededAt, TripleAt
  <2>3. (IF Scanning!Is(open + 1, {quote}) /\ Scanning!Is(open + 2, {quote}) THEN 3 ELSE 1) = n
    BY DEF NeededAt, TripleAt
  <2> HIDE DEF open, quote, n, body
  <2> QED BY <2>1, <2>2, <2>3, Zenon DEF Scanning!HandleString, quote
<1>5. /\ loop.closed \in BOOLEAN /\ loop.to \in body..E
      /\ loop.closed =>
           /\ loop.to > body /\ Closes(body, quote, n, loop.to - 1)
           /\ \A q \in body..(loop.to - 2) : ~Closes(body, quote, n, q)
  <2> HIDE DEF body, quote, n
  <2> QED BY <1>2, <1>3, StringLoopIs
<1>6. \A p \in start..(body - 1) : content[p] # "\n"
  <2> SUFFICES ASSUME NEW p \in start..(body - 1) PROVE content[p] # "\n"
    OBVIOUS
  <2>0. quote # "\n"
    BY DEF Scanning!Quotes
  <2>1. CASE p = start
    <3>1. content[start] = "r" \/ content[start] = quote
      BY DEF OpenOf
    <3> QED BY <2>0, <2>1, <3>1
  <2>2. CASE p = open
    BY <2>0, <2>2
  <2>3. CASE p > open
    <3>1. TripleAt(open) /\ (p = open + 1 \/ p = open + 2)
      BY <1>1, <2>3 DEF NeededAt
    <3> QED BY <2>0, <3>1 DEF TripleAt, Scanning!Is
  <2>4. p = start \/ p = open \/ p > open
    <3>1. open = start \/ open = start + 1
      BY DEF OpenOf
    <3> QED BY <1>1, <3>1
  <2> QED BY <2>1, <2>2, <2>3, <2>4
<1> HIDE DEF loop, s, body, n, quote, open, E
<1>7. s.to = loop.to /\ s.type = (IF loop.closed THEN "string" ELSE "error")
      /\ s.lines = Scanning!Newlines(body, loop.to)
  BY <1>4
<1>8. s.to \in start + 1..E /\ loop.to \in Nat
  BY <1>0, <1>2, <1>5, <1>7
<1>9. s.lines = Scanning!Newlines(start, s.to)
  <2>1. Scanning!Newlines(start, s.to) = Scanning!Newlines(start, body) \cup Scanning!Newlines(body, s.to)
    BY <1>0, <1>2, <1>5, <1>7, <1>8, NewlinesAre
  <2>2. Scanning!Newlines(start, body) = {}
    BY <1>0, <1>2, <1>6, NewlinesAre
  <2> QED BY <1>7, <2>1, <2>2
<1>10. s.type = "string" => StringIsGood(start, s.to)
  <2> SUFFICES ASSUME loop.closed PROVE StringIsGood(start, s.to)
    BY <1>7
  <2>1. body < s.to /\ Closes(body, quote, n, s.to - 1)
        /\ \A q \in body..(s.to - 2) : ~Closes(body, quote, n, q)
    BY <1>2, <1>5, <1>7
  <2> QED BY <1>1, <2>1, Zenon DEF StringIsGood, body, n, quote, open, E
<1>11. s.type \notin Scanning!AsIs /\ s.type \in Types /\ s.type # "eof"
  <2>1. s.type = "string" \/ s.type = "error"
    BY <1>7
  <2>2. "string" \notin Scanning!AsIs /\ "error" \notin Scanning!AsIs
    BY Zenon DEF Scanning!AsIs
  <2>3. "string" \in Types /\ "error" \in Types /\ "string" # "eof" /\ "error" # "eof"
    BY Zenon DEF Types
  <2> QED BY <2>1, <2>2, <2>3, Zenon
<1>12. ScannedWell(start, s)
  BY <1>8, <1>9, <1>10, <1>11, Zenon DEF ScannedWell, E
<1> QED BY <1>12 DEF s

LEMMA HandleNumberIs ==
  ASSUME IsText, NEW start \in 1..(Scanning!End - 1), content[start] \in Scanning!Digits
  PROVE  ScannedWell(start, Scanning!HandleNumber(start))
<1> DEFINE E == Scanning!End
           prefix == content[start] = "0" /\ Scanning!Is(start + 1, {"x"})
           digits == IF prefix THEN start + 2 ELSE start + 1
           dots == {p \in digits..(E - 1) : content[p] = "."}
           S == Scanning!Until(digits, Scanning!Digits \cup {"."}) \cup {p \in dots : \E q \in dots : q < p}
           to == Scanning!FirstOf(S)
           s == Scanning!HandleNumber(start)
<1>0. E \in Nat /\ E >= 1 /\ start \in Nat /\ start >= 1 /\ start < E
  BY EndIs
<1>1. s.to = to /\ s.type = (IF Scanning!Is(to, {"."}) THEN "error" ELSE "number") /\ s.lines = {}
  BY DEF Scanning!HandleNumber
<1>2. digits \in start + 1..E /\ \A p \in start..(digits - 1) : content[p] # "\n"
  <2>1. CASE prefix
    <3>1. start + 1 < E /\ content[start] = "0" /\ content[start + 1] = "x" /\ digits = start + 2
      BY <2>1 DEF Scanning!Is
    <3>2. \A p \in start..((start + 2) - 1) : p = start \/ p = start + 1
      OBVIOUS
    <3> HIDE DEF digits
    <3> QED BY <1>0, <3>1, <3>2
  <2>2. CASE ~prefix
    <3>1. digits = start + 1
      BY <2>2
    <3>2. \A p \in start..((start + 1) - 1) : p = start
      OBVIOUS
    <3>3. content[start] # "\n"
      BY DEF Scanning!Digits
    <3> HIDE DEF digits
    <3> QED BY <1>0, <3>1, <3>2, <3>3
  <2> QED BY <2>1, <2>2
<1> HIDE DEF digits
<1>3. S \subseteq digits..(E - 1)
  BY DEF Scanning!Until
<1>4. \A p \in digits..(E - 1) : p \notin S => content[p] # "\n"
  <2>1. ASSUME NEW p \in digits..(E - 1), p \notin S PROVE content[p] # "\n"
    <3>1. content[p] \in Scanning!Digits \cup {"."}
      BY <2>1 DEF Scanning!Until
    <3> QED BY <3>1 DEF Scanning!Digits
  <2> QED BY <2>1
<1> HIDE DEF S, s
<1>5. to \in S \cup {E} /\ \A p \in 1..(to - 1) : p \notin S
  <2>1. S \subseteq 1..(Scanning!End - 1)
    BY <1>0, <1>2, <1>3
  <2> QED BY <2>1, FirstIs
<1> HIDE DEF to, E
<1>6. to \in digits..E
  BY <1>0, <1>2, <1>3, <1>5
<1>7. s.to \in start + 1..E
  BY <1>0, <1>1, <1>2, <1>6
<1>8. Scanning!Newlines(start, s.to) = {}
  <2>1. ASSUME NEW p \in start..(to - 1) PROVE content[p] # "\n"
    <3>1. CASE p \in start..(digits - 1)
      BY <1>2, <3>1
    <3>2. CASE p \in digits..(E - 1)
      <4>1. p \in 1..(to - 1)
        BY <1>0, <1>6
      <4> QED BY <1>4, <1>5, <3>2, <4>1
    <3> QED BY <1>0, <1>2, <1>6, <3>1, <3>2
  <2>2. to \in Nat
    BY <1>0, <1>2, <1>6
  <2> QED BY <1>0, <1>1, <2>1, <2>2, NewlinesAre
<1>9. s.type \in Types /\ s.type # "eof" /\ s.type # "string"
  <2>1. s.type = "number" \/ s.type = "error"
    BY <1>1
  <2>2. /\ "number" \in Types /\ "error" \in Types /\ "number" # "eof" /\ "error" # "eof"
        /\ "number" # "string" /\ "error" # "string"
    BY Zenon DEF Types
  <2> QED BY <2>1, <2>2, Zenon
<1>10. ScannedWell(start, s)
  <2>1. s.lines = Scanning!Newlines(start, s.to) /\ s.lines = {}
    BY <1>1, <1>8
  <2> QED BY <1>7, <1>9, <2>1, Zenon DEF ScannedWell, E
<1> QED BY <1>10 DEF s

(* A token without newlines that is neither a string nor the end.          *)
LEMMA PlainTokenIs ==
  ASSUME IsText, NEW start \in 1..(Scanning!End - 1), NEW type \in Types \ {"string"},
         NEW to \in (start + 1)..Scanning!End,
         Scanning!NotInIsOnOneLine => \A p \in start..(to - 1) : content[p] # "\n"
  PROVE  ScannedWell(start, [type |-> type, to |-> to, lines |-> {}])
<1> DEFINE s == [type |-> type, to |-> to, lines |-> {}]
<1>0. Scanning!End \in Nat /\ to \in Nat /\ start \in Nat
  BY EndIs
<1>1. Scanning!NotInIsOnOneLine => Scanning!Newlines(start, to) = {}
  BY <1>0, NewlinesAre
<1>2. s.type = type /\ s.to = to /\ s.lines = {}
  OBVIOUS
<1>3. "eof" \notin Types
  BY Zenon DEF Types, Scanning!AsIs, Scanning!MayDouble
<1>4. type \in Types /\ type # "string" /\ type # "eof"
  BY <1>3
<1> HIDE DEF s
<1>5. ScannedWell(start, s)
  BY <1>1, <1>2, <1>4 DEF ScannedWell
<1> QED BY <1>5 DEF s

LEMMA HandleOperatorIs ==
  ASSUME IsText, NEW start \in 1..(Scanning!End - 1), content[start] \in Scanning!MayDouble
  PROVE  ScannedWell(start, Scanning!HandleOperator(start))
<1> DEFINE second == IF content[start] = "/" THEN "/" ELSE "="
           double == Scanning!Is(start + 1, {second})
           type == IF double THEN "double" ELSE content[start]
           to == IF double THEN start + 2 ELSE start + 1
<1>0. Scanning!End \in Nat /\ Scanning!End >= 1 /\ start \in Nat /\ start >= 1 /\ start < Scanning!End
  BY EndIs
<1>1. Scanning!HandleOperator(start) = [type |-> type, to |-> to, lines |-> {}]
  BY DEF Scanning!HandleOperator
<1>2. type \in Types \ {"string"}
  <2>1. "double" \in Types \ {"string"} /\ Scanning!MayDouble \subseteq Types \ {"string"}
    BY Zenon DEF Types, Scanning!MayDouble
  <2> HIDE DEF double
  <2> QED BY <2>1
<1>3. to \in (start + 1)..Scanning!End /\ \A p \in start..(to - 1) : content[p] # "\n"
  <2>1. content[start] # "\n" /\ second # "\n"
    BY DEF Scanning!MayDouble
  <2>2. CASE double
    <3>1. start + 1 < Scanning!End /\ content[start + 1] = second /\ to = start + 2
      BY <2>2 DEF Scanning!Is
    <3>2. \A p \in start..((start + 2) - 1) : p = start \/ p = start + 1
      OBVIOUS
    <3> HIDE DEF to, second
    <3> QED BY <1>0, <2>1, <3>1, <3>2
  <2>3. CASE ~double
    <3>1. to = start + 1
      BY <2>3
    <3>2. \A p \in start..((start + 1) - 1) : p = start
      OBVIOUS
    <3> HIDE DEF to, second
    <3> QED BY <1>0, <2>1, <3>1, <3>2
  <2> QED BY <2>2, <2>3
<1> HIDE DEF type, to
<1> QED BY <1>1, <1>2, <1>3, PlainTokenIs

LEMMA ConsumeOptionalInIs ==
  ASSUME IsText, NEW start \in 1..(Scanning!End - 1), content[start] = "not"
  PROVE  LET to == Scanning!ConsumeOptionalIn(start + 1) IN
         /\ to \in (start + 1)..Scanning!End
         /\ Scanning!NotInIsOnOneLine => \A p \in start..(to - 1) : content[p] # "\n"
<1> DEFINE E == Scanning!End
           S == Scanning!Until(start + 1, Scanning!Space)
           run == Scanning!FirstOf(S)
           to == Scanning!ConsumeOptionalIn(start + 1)
<1>0. E \in Nat /\ E >= 1 /\ start \in Nat /\ start >= 1 /\ start < E
  BY EndIs
<1>1. S \subseteq (start + 1)..(E - 1) /\ \A p \in (start + 1)..(E - 1) : p \notin S => content[p] \in Scanning!Space
  BY DEF Scanning!Until
<1>2. to = IF Scanning!Is(run, {"in"}) THEN run + 1 ELSE start + 1
  BY DEF Scanning!ConsumeOptionalIn
<1> HIDE DEF S, to
<1>3. run \in S \cup {E} /\ \A p \in 1..(run - 1) : p \notin S
  <2>1. S \subseteq 1..(Scanning!End - 1)
    BY <1>0, <1>1
  <2> QED BY <2>1, FirstIs
<1>4. run \in (start + 1)..E
  <2>1. \A r \in S \cup {E} : r \in (start + 1)..E
    BY <1>0, <1>1
  <2> HIDE DEF run
  <2> QED BY <1>3, <2>1
<1> HIDE DEF run
<1>5. content[start] # "\n"
  OBVIOUS
<1>6. CASE Scanning!Is(run, {"in"})
  <2>1. run < E /\ content[run] = "in" /\ to = run + 1
    BY <1>2, <1>6 DEF Scanning!Is
  <2>2. \A r \in (start + 1)..(run - 1) : content[r] \in Scanning!Space
    <3> TAKE r \in (start + 1)..(run - 1)
    <3>1. r \in (start + 1)..(E - 1) /\ r \in 1..(run - 1)
      BY <1>0, <1>4
    <3> QED BY <1>1, <1>3, <3>1
  <2>3. start \in 1..Len(content) /\ run \in 1..Len(content) /\ start < run
    BY <1>0, <1>4, <2>1 DEF IsText, Scanning!End
  <2>4. Scanning!NotInIsOnOneLine => \A r \in (start + 1)..(run - 1) : content[r] # "\n"
    BY <2>1, <2>2, <2>3 DEF Scanning!NotInIsOnOneLine
  <2>5. \A p \in start..((run + 1) - 1) : p = start \/ p = run \/ p \in (start + 1)..(run - 1)
    BY <1>4
  <2>6. content[run] # "\n"
    BY <2>1
  <2>7. run + 1 \in (start + 1)..E
    BY <1>0, <1>4, <2>1
  <2> QED BY <1>5, <2>1, <2>4, <2>5, <2>6, <2>7 DEF to
<1>7. CASE ~Scanning!Is(run, {"in"})
  <2>1. to = start + 1
    BY <1>2, <1>7
  <2>2. \A p \in start..((start + 1) - 1) : p = start
    OBVIOUS
  <2>3. start + 1 \in (start + 1)..E
    BY <1>0
  <2> QED BY <1>5, <2>1, <2>2, <2>3 DEF to
<1> QED BY <1>6, <1>7

LEMMA HandleWordIs ==
  ASSUME IsText,
         NEW start \in 1..(Scanning!End - 1), content[start] \notin Scanning!Space,
         content[start] \notin Scanning!Quotes
  PROVE  ScannedWell(start, Scanning!HandleIdentifierKeywordRawStringOrInvalid(start))
<1> DEFINE E == Scanning!End
           Chars == Scanning!IdentifierChars
           S == Scanning!Until(start, Chars)
           to == Scanning!IdentifierEnd(start)
           text == SubSeq(content, start, to - 1)
           end == Scanning!ConsumeOptionalIn(to)
           raw == E - start > 2 /\ content[start] = "r" /\ content[start + 1] \in Scanning!Quotes
           Token(type, place) == [type |-> type, to |-> place, lines |-> {}]
           word == Scanning!HandleIdentifierKeywordRawStringOrInvalid(start)
<1>0. E \in Nat /\ E >= 1 /\ start \in Nat /\ start >= 1 /\ start < E
  BY EndIs
<1>1. word = CASE raw -> Scanning!HandleString(start)
               [] content[start] \notin Chars -> Token("error", start + 1)
               [] text = <<"not">> -> Token(IF end = to THEN "not" ELSE "not in", end)
               [] text # <<"not">> /\ Len(text) = 1 /\ text[1] \in Scanning!Keywords -> Token(text[1], to)
               [] OTHER -> Token("identifier", to)
  BY DEF Scanning!HandleIdentifierKeywordRawStringOrInvalid
<1>2. S \subseteq start..(E - 1) /\ \A p \in start..(E - 1) : p \notin S <=> content[p] \in Chars
  BY DEF Scanning!Until
<1>3. to \in S \cup {E} /\ \A p \in 1..(to - 1) : p \notin S
  <2>1. S \subseteq 1..(Scanning!End - 1)
    <3> HIDE DEF S
    <3> QED BY <1>0, <1>2
  <2>2. to = Scanning!FirstOf(S)
    BY DEF Scanning!IdentifierEnd
  <2> HIDE DEF S, to
  <2> QED BY <2>1, <2>2, FirstIs
<1>4. "\n" \notin Chars /\ "r" \in Chars /\ content[start] # "\n"
  BY DEF Scanning!IdentifierChars, Scanning!Words, Scanning!Digits, Scanning!Space
<1> HIDE DEF S, word, Chars, to, end
<1>5. to \in start..E /\ (content[start] \in Chars => to \in (start + 1)..E)
  BY <1>0, <1>2, <1>3
<1>6. \A p \in start..(to - 1) : content[p] \in Chars
  <2> TAKE p \in start..(to - 1)
  <2>1. p \in start..(E - 1) /\ p \in 1..(to - 1)
    BY <1>0, <1>5
  <2> QED BY <1>2, <1>3, <2>1
<1>7. \A p \in start..(to - 1) : content[p] # "\n"
  BY <1>4, <1>6
<1>8. to > start => /\ Len(text) = to - start /\ text[1] = content[start]
                    /\ Len(text) = 1 => to = start + 1
  <2> SUFFICES ASSUME to > start PROVE Len(text) = to - start /\ text[1] = content[start] /\ (Len(text) = 1 => to = start + 1)
    OBVIOUS
  <2>1. content \in Seq(STRING) /\ E = Len(content) + 1
    BY DEF IsText, Scanning!End
  <2>2. to - 1 \in start..Len(content) /\ to \in Nat
    BY <1>0, <1>5, <2>1
  <2>3. text \in Seq(STRING) /\ Len(text) = (to - 1) - start + 1 /\ text[1] = content[start + 1 - 1]
    BY <1>0, <2>1, <2>2
  <2> QED BY <1>0, <2>2, <2>3
<1>9. CASE raw
  <2>1. ~(content[start] \notin Chars)
    BY <1>4, <1>9
  <2>2. to > start
    BY <1>0, <1>5, <2>1
  <2>3. text # <<"not">> /\ ~(text # <<"not">> /\ Len(text) = 1 /\ text[1] \in Scanning!Keywords)
    <3>1. text[1] = "r"
      BY <1>8, <1>9, <2>2
    <3>2. "r" \notin Scanning!Keywords /\ <<"not">>[1] # "r"
      BY DEF Scanning!Keywords
    <3> HIDE DEF text
    <3> QED BY <3>1, <3>2
  <2>4. word = Scanning!HandleString(start)
    <3> HIDE DEF raw, text, Token
    <3> QED BY <1>1, <1>9, <2>1, <2>3
  <2>5. OpenOf(start) = start + 1 /\ start + 1 < E
    BY <1>0, <1>9 DEF OpenOf
  <2>6. ScannedWell(start, Scanning!HandleString(start))
    BY <1>9, <2>5, HandleStringIs
  <2> QED BY <2>4, <2>6 DEF word
<1>10. CASE content[start] \notin Chars
  <2>1. ~raw
    BY <1>4, <1>10
  <2>2. to = start
    BY <1>0, <1>2, <1>3, <1>5, <1>10
  <2>3. Len(text) = 0 /\ text # <<"not">>
    <3>1. text = << >>
      BY <1>0, <2>2
    <3>2. Len(<< >>) = 0 /\ Len(<<"not">>) = 1
      OBVIOUS
    <3> HIDE DEF text
    <3> QED BY <3>1, <3>2
  <2>4. word = Token("error", start + 1)
    <3> HIDE DEF raw, text, Token
    <3> QED BY <1>1, <1>10, <2>1, <2>3
  <2>5. "error" \in Types \ {"string"}
    BY Zenon DEF Types
  <2>6. start + 1 \in (start + 1)..E /\ \A p \in start..((start + 1) - 1) : content[p] # "\n"
    BY <1>0, <1>4
  <2>7. ScannedWell(start, Token("error", start + 1))
    BY <2>5, <2>6, PlainTokenIs
  <2> QED BY <2>4, <2>7 DEF word
<1>11. CASE content[start] \in Chars /\ ~raw
  <2>1. to > start /\ to \in (start + 1)..E
    BY <1>0, <1>5, <1>11
  <2>2. CASE text = <<"not">>
    <3>1. word = Token(IF end = to THEN "not" ELSE "not in", end)
      <4> HIDE DEF raw, text, Token
      <4> QED BY <1>1, <1>11, <2>2
    <3>2. to = start + 1 /\ content[start] = "not"
      <4>1. Len(<<"not">>) = 1 /\ <<"not">>[1] = "not"
        OBVIOUS
      <4> HIDE DEF text
      <4> QED BY <1>8, <2>1, <2>2, <4>1
    <3>3. /\ end \in (start + 1)..E
          /\ Scanning!NotInIsOnOneLine => \A p \in start..(end - 1) : content[p] # "\n"
      BY <3>2, ConsumeOptionalInIs DEF end
    <3> DEFINE type == IF end = to THEN "not" ELSE "not in"
    <3>4. type \in Types \ {"string"}
      BY Zenon DEF Types
    <3> HIDE DEF type
    <3>5. ScannedWell(start, Token(type, end))
      BY <3>3, <3>4, PlainTokenIs
    <3> QED BY <3>1, <3>5 DEF word, type
  <2>3. CASE text # <<"not">> /\ Len(text) = 1 /\ text[1] \in Scanning!Keywords
    <3>1. word = Token(text[1], to)
      <4> HIDE DEF raw, text, Token
      <4> QED BY <1>1, <1>11, <2>3
    <3>2. Scanning!Keywords \subseteq Types \ {"string"}
      BY Zenon DEF Types, Scanning!Keywords
    <3>3. ScannedWell(start, Token(text[1], to))
      <4> HIDE DEF text
      <4> QED BY <1>7, <2>1, <2>3, <3>2, PlainTokenIs
    <3> QED BY <3>1, <3>3 DEF word
  <2>4. CASE text # <<"not">> /\ ~(Len(text) = 1 /\ text[1] \in Scanning!Keywords)
    <3>1. word = Token("identifier", to)
      <4> HIDE DEF raw, text, Token
      <4> QED BY <1>1, <1>11, <2>4
    <3>2. "identifier" \in Types \ {"string"}
      BY Zenon DEF Types
    <3>3. ScannedWell(start, Token("identifier", to))
      BY <1>7, <2>1, <3>2, PlainTokenIs
    <3> QED BY <3>1, <3>3 DEF word
  <2> QED BY <2>2, <2>3, <2>4
<1> QED BY <1>9, <1>10, <1>11

LEMMA ScanIs ==
  ASSUME IsText,
         NEW start \in 1..(Scanning!End - 1), content[start] \notin Scanning!Space
  PROVE  ScannedWell(start, Scanning!Scan(start))
<1> DEFINE c == content[start]
<1>1. Scanning!Scan(start) =
        IF c \in Scanning!AsIs THEN [type |-> c, to |-> start + 1, lines |-> {}]
        ELSE IF c \in Scanning!MayDouble THEN Scanning!HandleOperator(start)
        ELSE IF c \in Scanning!Digits THEN Scanning!HandleNumber(start)
        ELSE IF c \in Scanning!Quotes THEN Scanning!HandleString(start)
        ELSE Scanning!HandleIdentifierKeywordRawStringOrInvalid(start)
  BY DEF Scanning!Scan
<1>0. Scanning!End \in Nat /\ start \in Nat /\ start >= 1 /\ start < Scanning!End
  BY EndIs
<1>2. CASE c \in Scanning!AsIs
  <2>1. c \in Types \ {"string"}
    <3>1. Scanning!AsIs \subseteq Types \ {"string"}
      BY Zenon DEF Types, Scanning!AsIs
    <3> QED BY <1>2, <3>1
  <2>2. start + 1 \in (start + 1)..Scanning!End /\ \A p \in start..((start + 1) - 1) : content[p] # "\n"
    <3>1. content[start] # "\n"
      BY DEF Scanning!Space
    <3> QED BY <1>0, <3>1
  <2>3. ScannedWell(start, [type |-> c, to |-> start + 1, lines |-> {}])
    <3> HIDE DEF c
    <3> QED BY <2>1, <2>2, PlainTokenIs
  <2> QED BY <1>1, <1>2, <2>3
<1>3. CASE c \notin Scanning!AsIs /\ c \in Scanning!MayDouble
  BY <1>1, <1>3, HandleOperatorIs
<1>4. CASE c \notin Scanning!AsIs /\ c \notin Scanning!MayDouble /\ c \in Scanning!Digits
  BY <1>1, <1>4, HandleNumberIs
<1>5. CASE c \notin Scanning!AsIs /\ c \notin Scanning!MayDouble /\ c \notin Scanning!Digits /\ c \in Scanning!Quotes
  <2>1. OpenOf(start) = start
    BY <1>5 DEF OpenOf, Scanning!Quotes
  <2> QED BY <1>0, <1>1, <1>5, <2>1, HandleStringIs
<1>6. CASE c \notin Scanning!AsIs /\ c \notin Scanning!MayDouble /\ c \notin Scanning!Digits /\ c \notin Scanning!Quotes
  BY <1>1, <1>6, HandleWordIs
<1> QED BY <1>2, <1>3, <1>4, <1>5, <1>6

-----------------------------------------------------------------------------
(* What one call of Next() does to a scanner that is in order.             *)

ScanOK(s) ==
  /\ s.line_map # <<>> /\ Increasing(s.line_map)
  /\ ValuesOf(s.line_map) \subseteq {1} \cup {p + 1 : p \in Scanning!Newlines(1, s.pos)}
  /\ Scanning!NotInIsOnOneLine => ValuesOf(s.line_map) = {1} \cup {p + 1 : p \in Scanning!Newlines(1, s.pos)}
  /\ s.pos # Scanning!End => s.last_count = s.count
ScanStates ==
  {s \in [pos : 1..Scanning!End, line_map : Seq(Nat), count : Nat, last_count : Nat] : ScanOK(s)}

TokenSet == [type : Types \cup {"eof"}, from : Nat, to : Nat, flag : BOOLEAN]
GoodToken(before, t) ==
  /\ t \in TokenSet /\ t.from \in 1..Scanning!End /\ t.to \in t.from..Scanning!End
  /\ before <= t.from /\ (t.type # "eof" => t.from < t.to)
  /\ \A p \in before..(t.from - 1) :
        \/ content[p] \in Scanning!Space \cup {"\\"}
        \/ \E h \in before..p : content[h] = "#" /\ Scanning!Newlines(h, p) = {}
  /\ t.type \in Scanning!AsIs => (t.flag <=> Scanning!Newlines(before, t.from) # {})
  /\ t.type = "string" => StringIsGood(t.from, t.to)

LEMMA PushedLinesAre ==
  ASSUME IsText, NEW s \in ScanStates, NEW to \in s.pos..Scanning!End,
         NEW L, L \subseteq Scanning!Newlines(s.pos, to),
         Scanning!NotInIsOnOneLine => L = Scanning!Newlines(s.pos, to)
  PROVE  LET map == Scanning!Pushed(s.line_map, L)
         IN /\ Scanning!Cardinality(L) \in Nat /\ (Scanning!Cardinality(L) = 0 <=> L = {})
            /\ map \in Seq(Nat) /\ map # <<>> /\ Increasing(map)
            /\ ValuesOf(map) \subseteq {1} \cup {p + 1 : p \in Scanning!Newlines(1, to)}
            /\ Scanning!NotInIsOnOneLine => ValuesOf(map) = {1} \cup {p + 1 : p \in Scanning!Newlines(1, to)}
<1> DEFINE map == Scanning!Pushed(s.line_map, L)
           N == Scanning!Newlines(s.pos, to)
           Old == {1} \cup {p + 1 : p \in Scanning!Newlines(1, s.pos)}
           New == {1} \cup {p + 1 : p \in Scanning!Newlines(1, to)}
<1>0. /\ Scanning!End \in Nat /\ s.pos \in Nat /\ 1 <= s.pos /\ to \in Nat /\ s.pos <= to
      /\ s.line_map \in Seq(Nat) /\ s.line_map # <<>> /\ Increasing(s.line_map)
      /\ ValuesOf(s.line_map) \subseteq Old
      /\ Scanning!NotInIsOnOneLine => ValuesOf(s.line_map) = Old
  BY EndIs DEF ScanStates, ScanOK
<1>1. /\ N \subseteq Nat /\ IsFiniteSet(N)
      /\ \A p : p \in N <=> p \in s.pos..(to - 1) /\ content[p] = "\n"
  BY <1>0, NewlinesAre
<1>2. /\ Scanning!Newlines(1, to) = Scanning!Newlines(1, s.pos) \cup N
      /\ \A p : p \in Scanning!Newlines(1, s.pos) => p \in 1..(s.pos - 1)
  BY <1>0, NewlinesAre
<1>3. L \subseteq Nat /\ IsFiniteSet(L) /\ \A p \in L : p \in N
  BY <1>1, FS_Subset
<1>4. \A v \in ValuesOf(s.line_map), p \in L : v <= p
  <2>1. \A v \in ValuesOf(s.line_map) : v \in Nat /\ v <= s.pos
    BY <1>0, <1>2
  <2>2. \A p \in L : p \in Nat /\ s.pos <= p
    BY <1>0, <1>1, <1>3
  <2>3. ASSUME NEW v \in ValuesOf(s.line_map), NEW p \in L PROVE v <= p
    <3>1. v \in Nat /\ v <= s.pos /\ p \in Nat /\ s.pos <= p /\ s.pos \in Nat
      BY <1>0, <2>1, <2>2
    <3> QED BY <3>1
  <2> QED BY <2>3
<1>5. /\ map \in Seq(Nat) /\ Increasing(map) /\ map # <<>>
      /\ ValuesOf(map) = ValuesOf(s.line_map) \cup {p + 1 : p \in L}
  BY <1>0, <1>3, <1>4, PushedIs
<1>6. New = Old \cup {p + 1 : p \in N}
  <2> HIDE DEF N
  <2> QED BY <1>2
<1> HIDE DEF map, Old, New, N
<1>7. ValuesOf(map) \subseteq New
  BY <1>0, <1>3, <1>5, <1>6
<1>8. Scanning!NotInIsOnOneLine => ValuesOf(map) = New
  BY <1>0, <1>5, <1>6 DEF N
<1>9. Scanning!Cardinality(L) \in Nat /\ (Scanning!Cardinality(L) = 0 <=> L = {})
  BY <1>3, CountIs, FS_CardinalityType, FS_EmptySet
<1> QED BY <1>5, <1>7, <1>8, <1>9 DEF map, New

LEMMA AdvancedIs ==
  ASSUME IsText, NEW s \in ScanStates
  PROVE  LET a == Scanning!Advanced(s) IN
         /\ a.scan \in ScanStates /\ s.pos <= a.scan.pos /\ a.token.to = a.scan.pos
         /\ GoodToken(s.pos, a.token)
<1> DEFINE E == Scanning!End
           start == Scanning!SkipSpace(s.pos)
           skipped == Scanning!Newlines(s.pos, start)
           scanned == Scanning!Scan(start)
           lines == skipped \cup scanned.lines
           count == s.count + Scanning!Cardinality(lines)
           a == Scanning!Advanced(s)
           Between(p) == \/ content[p] \in Scanning!Space \cup {"\\"}
                         \/ \E h \in s.pos..p : content[h] = "#" /\ Scanning!Newlines(h, p) = {}
<1>0. /\ E \in Nat /\ E >= 1 /\ s.pos \in 1..E /\ s.line_map \in Seq(Nat) /\ s.count \in Nat /\ s.last_count \in Nat
      /\ s.pos # E => s.last_count = s.count
      /\ s \in [pos : 1..E, line_map : Seq(Nat), count : Nat, last_count : Nat]
  BY EndIs DEF ScanStates, ScanOK
<1>1. /\ start \in s.pos..E
      /\ start # E => content[start] \notin Scanning!Space
      /\ \A p \in s.pos..(start - 1) : Between(p)
  BY <1>0, SkipSpaceIs
<1>2. a = IF start = E
          THEN [token |-> [type |-> "eof", from |-> E, to |-> E, flag |-> FALSE],
                scan  |-> [s EXCEPT !.pos = E, !.line_map = Scanning!Pushed(s.line_map, skipped),
                                    !.count = s.count + Scanning!Cardinality(skipped)]]
          ELSE [token |-> [type |-> scanned.type, from |-> start, to |-> scanned.to,
                           flag |-> s.last_count # count],
                scan  |-> [pos |-> scanned.to, line_map |-> Scanning!Pushed(s.line_map, lines),
                           count |-> count, last_count |-> count]]
  BY DEF Scanning!Advanced, Scanning!Consumed, Scanning!LinesIn
<1>3. start \in Nat /\ start \in 1..E
  BY <1>0, <1>1
<1> HIDE DEF start, E, a, Between, scanned
<1>4. CASE start = E
  <2> DEFINE t == [type |-> "eof", from |-> E, to |-> E, flag |-> FALSE]
             m == Scanning!Pushed(s.line_map, skipped)
             k == s.count + Scanning!Cardinality(skipped)
             z == [pos |-> E, line_map |-> m, count |-> k, last_count |-> s.last_count]
  <2>1. a.token = t /\ a.scan = z
    <3>1. [s EXCEPT !.pos = E, !.line_map = m, !.count = k] = z
      <4> DEFINE r == [s EXCEPT !.pos = E]
                 rr == [r EXCEPT !.line_map = m]
                 rrr == [rr EXCEPT !.count = k]
      <4> HIDE DEF m, k
      <4>0. s = [pos |-> s.pos, line_map |-> s.line_map, count |-> s.count, last_count |-> s.last_count]
        BY <1>0
      <4>1. r = [pos |-> E, line_map |-> s.line_map, count |-> s.count, last_count |-> s.last_count]
        BY <4>0
      <4> HIDE DEF r
      <4>2. rr = [pos |-> E, line_map |-> m, count |-> s.count, last_count |-> s.last_count]
        BY <4>1
      <4> HIDE DEF rr
      <4>3. rrr = [pos |-> E, line_map |-> m, count |-> k, last_count |-> s.last_count]
        BY <4>2
      <4> QED BY <4>3 DEF rr, r
    <3> HIDE DEF m, k, z, t, skipped, lines
    <3>2. a = [token |-> t, scan |-> z]
      BY <1>2, <1>4, <3>1 DEF t, m, k
    <3> QED BY <3>2
  <2>2. /\ Scanning!Cardinality(skipped) \in Nat
        /\ m \in Seq(Nat) /\ m # <<>> /\ Increasing(m)
        /\ ValuesOf(m) \subseteq {1} \cup {p + 1 : p \in Scanning!Newlines(1, start)}
        /\ Scanning!NotInIsOnOneLine => ValuesOf(m) = {1} \cup {p + 1 : p \in Scanning!Newlines(1, start)}
    BY <1>1, PushedLinesAre DEF E
  <2> HIDE DEF m, skipped, lines
  <2>3. z \in [pos : 1..E, line_map : Seq(Nat), count : Nat, last_count : Nat]
    BY <1>0, <2>2
  <2>4. z.pos = E /\ z.line_map = m
    OBVIOUS
  <2> HIDE DEF z
  <2>5. z \in ScanStates
    BY <1>4, <2>2, <2>3, <2>4 DEF ScanStates, ScanOK, E
  <2>6. t.type = "eof" /\ t.from = E /\ t.to = E /\ t \in TokenSet
    BY <1>0 DEF TokenSet
  <2>7. "eof" \notin Scanning!AsIs
    BY Zenon DEF Scanning!AsIs
  <2> HIDE DEF t
  <2>8. E \in 1..E /\ E \in E..E /\ s.pos <= E
    BY <1>0
  <2>9. \A p \in s.pos..(t.from - 1) : Between(p)
    BY <1>1, <1>4, <2>6
  <2>10. t.from \in 1..E /\ t.to \in t.from..E /\ s.pos <= t.from /\ t.type = "eof" /\ t.type \notin Scanning!AsIs
    BY <2>6, <2>7, <2>8
  <2>11. GoodToken(s.pos, t)
    BY <2>6, <2>9, <2>10 DEF GoodToken, Between, E
  <2> QED BY <2>1, <2>4, <2>5, <2>6, <2>8, <2>11 DEF a
<1>5. CASE start # E
  <2>0. start \in 1..(Scanning!End - 1)
    BY <1>0, <1>3, <1>5 DEF E
  <2>1. ScannedWell(start, scanned)
    BY <1>1, <1>5, <2>0, ScanIs DEF scanned
  <2>2. /\ scanned.to \in (start + 1)..E
        /\ scanned.lines \subseteq Scanning!Newlines(start, scanned.to)
        /\ Scanning!NotInIsOnOneLine => scanned.lines = Scanning!Newlines(start, scanned.to)
        /\ scanned.type \in Scanning!AsIs => scanned.lines = {}
        /\ scanned.type \in Types /\ scanned.type # "eof"
        /\ scanned.type = "string" => StringIsGood(start, scanned.to)
    BY <2>1 DEF ScannedWell, E
  <2>3. scanned.to \in Nat /\ scanned.to \in s.pos..E
    BY <1>0, <1>1, <1>3, <2>2
  <2>4. /\ lines \subseteq Scanning!Newlines(s.pos, scanned.to)
        /\ Scanning!NotInIsOnOneLine => lines = Scanning!Newlines(s.pos, scanned.to)
    <3>1. s.pos \in Nat /\ s.pos <= start /\ start <= scanned.to
      BY <1>0, <1>1, <1>3, <2>2
    <3>2. Scanning!Newlines(s.pos, scanned.to) = skipped \cup Scanning!Newlines(start, scanned.to)
      BY <1>3, <2>3, <3>1, NewlinesAre
    <3> QED BY <2>2, <3>2
  <2> DEFINE m == Scanning!Pushed(s.line_map, lines)
             flag == s.last_count # count
             t == [type |-> scanned.type, from |-> start, to |-> scanned.to, flag |-> flag]
             z == [pos |-> scanned.to, line_map |-> m, count |-> count, last_count |-> count]
  <2>5. a.token = t /\ a.scan = z
    <3> HIDE DEF skipped, lines, count
    <3>1. a = [token |-> t, scan |-> z]
      BY <1>2, <1>5
    <3> HIDE DEF t, z
    <3> QED BY <3>1
  <2>6. /\ Scanning!Cardinality(lines) \in Nat /\ (Scanning!Cardinality(lines) = 0 <=> lines = {})
        /\ m \in Seq(Nat) /\ m # <<>> /\ Increasing(m)
        /\ ValuesOf(m) \subseteq {1} \cup {p + 1 : p \in Scanning!Newlines(1, scanned.to)}
        /\ Scanning!NotInIsOnOneLine => ValuesOf(m) = {1} \cup {p + 1 : p \in Scanning!Newlines(1, scanned.to)}
    <3> HIDE DEF lines, m
    <3> QED BY <2>3, <2>4, PushedLinesAre DEF E, m
  <2> HIDE DEF lines, m
  <2>7. count \in Nat /\ (flag <=> lines # {})
    <3>1. s.last_count = s.count
      BY <1>0, <1>1, <1>3, <1>5
    <3> QED BY <1>0, <2>6, <3>1
  <2> HIDE DEF count, flag
  <2>8. z \in [pos : 1..E, line_map : Seq(Nat), count : Nat, last_count : Nat]
    BY <1>0, <2>3, <2>6, <2>7
  <2>9. z.pos = scanned.to /\ z.line_map = m /\ z.last_count = z.count
    OBVIOUS
  <2> HIDE DEF z
  <2>10. z \in ScanStates
    BY <2>6, <2>8, <2>9 DEF ScanStates, ScanOK, E
  <2>11. t.type = scanned.type /\ t.from = start /\ t.to = scanned.to /\ t.flag = flag
    OBVIOUS
  <2>12. t \in TokenSet
    <3>1. flag \in BOOLEAN
      BY DEF flag
    <3> QED BY <1>3, <2>2, <2>3, <3>1 DEF TokenSet
  <2> HIDE DEF t
  <2>13. t.from \in 1..E /\ t.to \in t.from..E /\ s.pos <= t.from /\ t.from < t.to
    BY <1>0, <1>1, <1>3, <2>2, <2>11
  <2>14. \A p \in s.pos..(t.from - 1) : Between(p)
    BY <1>1, <2>11
  <2>15. t.type \in Scanning!AsIs => (t.flag <=> Scanning!Newlines(s.pos, t.from) # {})
    <3> SUFFICES ASSUME t.type \in Scanning!AsIs PROVE flag <=> skipped # {}
      BY <2>11
    <3>1. scanned.lines = {}
      BY <2>2, <2>11
    <3>2. lines = skipped
      BY <3>1 DEF lines
    <3> QED BY <2>7, <3>2
  <2>16. t.type = "string" => StringIsGood(t.from, t.to)
    BY <2>2, <2>11
  <2>17. GoodToken(s.pos, t)
    BY <2>12, <2>13, <2>14, <2>15, <2>16 DEF GoodToken, Between, E
  <2>18. s.pos <= scanned.to
    BY <1>0, <2>3
  <2> QED BY <2>5, <2>9, <2>10, <2>11, <2>17, <2>18 DEF a
<1> QED BY <1>4, <1>5

-----------------------------------------------------------------------------
(* The value of a string.                                                  *)
LEMMA ValueIs ==
  ASSUME IsText, Scanning!SingleQuotesAreNotTripled,
         NEW t, t.from \in 1..Scanning!End, t.to \in 1..Scanning!End, StringIsGood(t.from, t.to)
  PROVE  LET open == OpenOf(t.from)
             n    == NeededAt(open)
         IN Scanning!StringValue(t) = [from |-> open + n, to |-> t.to - n]
<1> DEFINE E == Scanning!End
           open == OpenOf(t.from)
           quote == content[open]
           n == NeededAt(open)
           triple == /\ t.to - open >= 6
                     /\ \A p \in open..open + 2 : content[p] = "dq"
           quotes == IF triple THEN 3 ELSE 1
<1>0. /\ E \in Nat /\ E >= 1 /\ open \in t.from..(E - 1) /\ open \in Nat /\ open >= 1
      /\ t.to \in Nat /\ t.to <= E /\ quote \in {"dq", "sq"}
  BY EndIs DEF StringIsGood, Scanning!Quotes
<1>1. open + n < t.to /\ Closes(open + n, quote, n, t.to - 1)
  BY DEF StringIsGood
<1>2. Scanning!StringValue(t) = [from |-> open + quotes, to |-> t.to - quotes]
  BY DEF Scanning!StringValue, OpenOf
<1>3. TripleAt(open) <=> /\ open + 1 < E /\ content[open + 1] = quote
                         /\ open + 2 < E /\ content[open + 2] = quote
  BY DEF TripleAt, Scanning!Is
<1>4. n = IF TripleAt(open) THEN 3 ELSE 1
  BY DEF NeededAt
<1>5. Len(content) = E - 1
  BY DEF Scanning!End, IsText
<1> HIDE DEF open, E, n
<1>6. \A p \in open..open + 2 : p = open \/ p = open + 1 \/ p = open + 2
  BY <1>0
<1>7. open \in open..open + 2 /\ open + 1 \in open..open + 2 /\ open + 2 \in open..open + 2
  BY <1>0
<1>8. CASE TripleAt(open)
  <2>1. n = 3
    BY <1>4, <1>8
  <2>2. \A r \in ((t.to - 1) - 3 + 1)..(t.to - 1) : r >= open + 3 /\ content[r] = quote
    BY <1>1, <2>1 DEF Closes
  <2>3. (t.to - 3) >= open + 3 /\ content[t.to - 3] = quote /\ content[t.to - 2] = quote /\ content[t.to - 1] = quote
    <3>1. /\ t.to - 3 \in ((t.to - 1) - 3 + 1)..(t.to - 1)
          /\ t.to - 2 \in ((t.to - 1) - 3 + 1)..(t.to - 1)
          /\ t.to - 1 \in ((t.to - 1) - 3 + 1)..(t.to - 1)
      BY <1>0
    <3> QED BY <2>2, <3>1
  <2>4. CASE quote = "dq"
    <3>1. triple
      BY <1>0, <1>3, <1>6, <1>8, <2>3, <2>4
    <3> QED BY <1>2, <2>1, <3>1 DEF open, n
  <2>5. CASE quote = "sq"
    <3> DEFINE q == t.to - 3
    <3>1. /\ open \in 1..Len(content) /\ q \in 1..Len(content) /\ open + 3 <= q /\ q + 2 <= Len(content)
      BY <1>0, <1>5, <2>3, SMTT(30)
    <3>2. PICK k \in 0..2 : content[open + k] # "sq" \/ content[q + k] # "sq"
      <4> HIDE DEF q
      <4> QED BY <3>1 DEF Scanning!SingleQuotesAreNotTripled
    <3>3. q + 0 = t.to - 3 /\ q + 1 = t.to - 2 /\ q + 2 = t.to - 1 /\ open + 0 = open
      BY <1>0
    <3>4. k = 0 \/ k = 1 \/ k = 2
      OBVIOUS
    <3> QED BY <1>3, <1>8, <2>3, <2>5, <3>2, <3>3, <3>4
  <2> QED BY <1>0, <2>4, <2>5
<1>9. CASE ~TripleAt(open)
  <2>1. n = 1
    BY <1>4, <1>9
  <2>2. ~triple
    <3> SUFFICES ASSUME triple PROVE FALSE
      OBVIOUS
    <3>1. content[open] = "dq" /\ content[open + 1] = "dq" /\ content[open + 2] = "dq"
      BY <1>7
    <3>2. open + 1 < E /\ open + 2 < E
      BY <1>0
    <3> QED BY <1>3, <1>9, <3>1, <3>2
  <2> QED BY <1>2, <2>1, <2>2 DEF open, n
<1> QED BY <1>8, <1>9

-----------------------------------------------------------------------------
(* Scanning from the beginning.                                            *)
LEMMA FreshIs ==
  ASSUME IsText
  PROVE  Scanning!Fresh \in ScanStates /\ Scanning!Fresh.pos = 1
<1> DEFINE s == [pos |-> 1, line_map |-> <<1>>, count |-> 0, last_count |-> 0]
<1>1. Scanning!End \in Nat /\ Scanning!End >= 1
  BY EndIs
<1>2. s \in [pos : 1..Scanning!End, line_map : Seq(Nat), count : Nat, last_count : Nat]
  <2>1. <<1>> \in Seq(Nat)
    OBVIOUS
  <2> QED BY <1>1, <2>1
<1>3. s.pos = 1 /\ s.line_map = <<1>> /\ s.count = 0 /\ s.last_count = 0
  OBVIOUS
<1>4. <<1>> # << >> /\ Increasing(<<1>>) /\ ValuesOf(<<1>>) = {1}
  BY DEF Increasing, ValuesOf
<1>5. Scanning!Newlines(1, 1) = {}
  BY DEF Scanning!Newlines
<1> HIDE DEF s
<1>6. {1} = {1} \cup {p + 1 : p \in Scanning!Newlines(1, 1)}
  BY <1>5
<1>7. s \in ScanStates
  BY <1>2, <1>3, <1>4, <1>6 DEF ScanStates, ScanOK
<1> QED BY <1>3, <1>7 DEF s, Scanning!Fresh

LEMMA ScanAfterIs ==
  ASSUME IsText
  PROVE  /\ Scanning!ScanAfter = [n \in Nat |-> IF n = 0 THEN Scanning!Fresh
                                                ELSE Scanning!Advanced(Scanning!ScanAfter[n - 1]).scan]
         /\ Scanning!ScanAfter[0] = Scanning!Fresh
         /\ \A n \in Nat : /\ Scanning!ScanAfter[n] \in ScanStates
                           /\ Scanning!ScanAfter[n + 1] = Scanning!Advanced(Scanning!ScanAfter[n]).scan
<1> DEFINE Then(s) == Scanning!Advanced(s).scan
           Fst == Scanning!Fresh
           Rec(f) == f = [n \in Nat |-> IF n = 0 THEN Fst ELSE Then(f[n - 1])]
           after == Scanning!ScanAfter
<1>1. Fst \in ScanStates /\ \A s \in ScanStates : Then(s) \in ScanStates
  BY FreshIs, AdvancedIs
<1>2. after = CHOOSE f : Rec(f)
  BY DEF Scanning!ScanAfter
<1> HIDE DEF Then, Fst, after
<1>3. \E f : f \in [Nat -> ScanStates] /\ Rec(f)
  <2> DEFINE step == [x \in Nat \X ScanStates |-> Then(x[2])]
  <2>1. step \in [Nat \X ScanStates -> ScanStates]
    BY <1>1
  <2>2. PICK g \in [Nat -> ScanStates] : g[0] = Fst /\ \A k \in Nat : g[k + 1] = step[<<k, g[k]>>]
    <3> HIDE DEF step
    <3>1. Recursion(ScanStates, Fst, step)
      BY <1>1, <2>1, PrimitiveRecursion, Zenon
    <3> QED BY <3>1 DEF Recursion
  <2>3. \A k \in Nat : g[k + 1] = Then(g[k])
    BY <2>2
  <2>4. ASSUME NEW n \in Nat PROVE g[n] = IF n = 0 THEN Fst ELSE Then(g[n - 1])
    <3>1. CASE n = 0
      BY <2>2, <3>1
    <3>2. CASE n # 0
      <4>1. n - 1 \in Nat /\ (n - 1) + 1 = n
        BY <3>2
      <4> QED BY <2>3, <3>2, <4>1
    <3> QED BY <3>1, <3>2
  <2>5. Rec(g)
    BY <2>4
  <2> QED BY <2>5
<1>4. Rec(after)
  <2> HIDE DEF Rec
  <2> QED BY <1>2, <1>3
<1>5. after[0] = Fst /\ \A n \in Nat : after[n + 1] = Then(after[n])
  <2>1. \A n \in Nat : after[n] = IF n = 0 THEN Fst ELSE Then(after[n - 1])
    BY <1>4
  <2>2. \A n \in Nat : n + 1 \in Nat /\ n + 1 # 0 /\ (n + 1) - 1 = n
    OBVIOUS
  <2>3. 0 \in Nat
    OBVIOUS
  <2> QED BY <2>1, <2>2, <2>3
<1>6. \A n \in Nat : after[n] \in ScanStates
  <2> DEFINE S == {n \in Nat : after[n] \in ScanStates}
  <2>1. 0 \in S
    BY <1>1, <1>5
  <2>2. ASSUME NEW n \in Nat, n \in S PROVE n + 1 \in S
    BY <1>1, <1>5, <2>2
  <2> HIDE DEF S
  <2>3. Nat \subseteq S
    BY <2>1, <2>2, AllNaturals
  <2> QED BY <2>3 DEF S
<1>7. after = [n \in Nat |-> IF n = 0 THEN Fst ELSE Then(after[n - 1])]
  BY <1>4
<1> QED BY <1>5, <1>6, <1>7 DEF after, Fst, Then

(* The scanner never goes back.                                            *)
LEMMA ScanningGoesOn ==
  ASSUME IsText, NEW m \in Nat, NEW n \in Nat, m <= n
  PROVE  Scanning!ScanAfter[m].pos <= Scanning!ScanAfter[n].pos
<1> DEFINE P(k) == Scanning!ScanAfter[k].pos
           S == {k \in Nat : P(m) <= P(m + k)}
<1>1. \A k \in Nat : P(k) \in Nat /\ P(k + 1) \in Nat /\ P(k) <= P(k + 1)
  <2> TAKE k \in Nat
  <2>1. /\ Scanning!ScanAfter[k] \in ScanStates /\ Scanning!ScanAfter[k + 1] \in ScanStates
        /\ Scanning!ScanAfter[k + 1] = Scanning!Advanced(Scanning!ScanAfter[k]).scan
    BY ScanAfterIs
  <2>2. P(k) <= P(k + 1)
    BY <2>1, AdvancedIs
  <2>3. Scanning!End \in Nat
    BY EndIs
  <2> QED BY <2>1, <2>2, <2>3, SMTT(30) DEF ScanStates
<1> HIDE DEF P
<1>2. 0 \in S
  BY <1>1
<1>3. ASSUME NEW k \in Nat, k \in S PROVE k + 1 \in S
  <2>1. P(m) <= P(m + k) /\ m + k \in Nat /\ m + (k + 1) = (m + k) + 1
    BY <1>3
  <2>2. P(m) \in Nat /\ P(m + k) \in Nat /\ P((m + k) + 1) \in Nat /\ P(m + k) <= P((m + k) + 1)
    BY <1>1, <2>1
  <2>3. P(m) <= P(m + (k + 1))
    BY <2>1, <2>2
  <2> QED BY <2>3
<1> HIDE DEF S
<1>4. Nat \subseteq S
  BY <1>2, <1>3, AllNaturals
<1>5. n - m \in S /\ m + (n - m) = n
  <2>1. n - m \in Nat /\ m + (n - m) = n
    OBVIOUS
  <2> QED BY <1>4, <2>1
<1> QED BY <1>5 DEF S, P

-----------------------------------------------------------------------------
(* The text does not change, and all that is said of it does not either.   *)
LEMMA SameText ==
  ASSUME content' = content
  PROVE  /\ Scanning!End' = Scanning!End
         /\ \A p, S : Scanning!Is(p, S)' <=> Scanning!Is(p, S)
         /\ \A a, b : Scanning!Newlines(a, b)' = Scanning!Newlines(a, b)
         /\ \A a, S : Scanning!Until(a, S)' = Scanning!Until(a, S)
         /\ \A S : Scanning!FirstOf(S)' = Scanning!FirstOf(S)
<1>1. Scanning!End' = Scanning!End
  BY DEF Scanning!End
<1>2. \A p, S : Scanning!Is(p, S)' <=> Scanning!Is(p, S)
  BY <1>1 DEF Scanning!Is
<1>3. \A a, b : Scanning!Newlines(a, b)' = Scanning!Newlines(a, b)
  BY DEF Scanning!Newlines
<1>4. \A a, S : Scanning!Until(a, S)' = Scanning!Until(a, S)
  BY <1>1 DEF Scanning!Until
<1>5. \A S : Scanning!FirstOf(S)' = Scanning!FirstOf(S)
  BY <1>1 DEF Scanning!FirstOf
<1> QED BY <1>1, <1>2, <1>3, <1>4, <1>5

LEMMA SameHandlers ==
  ASSUME content' = content, NEW start
  PROVE  /\ Scanning!SkipSpace(start)' = Scanning!SkipSpace(start)
         /\ Scanning!HandleString(start)' = Scanning!HandleString(start)
         /\ Scanning!HandleNumber(start)' = Scanning!HandleNumber(start)
         /\ Scanning!HandleOperator(start)' = Scanning!HandleOperator(start)
         /\ Scanning!HandleIdentifierKeywordRawStringOrInvalid(start)' = Scanning!HandleIdentifierKeywordRawStringOrInvalid(start)
<1>0. /\ Scanning!End' = Scanning!End
      /\ \A p, S : Scanning!Is(p, S)' <=> Scanning!Is(p, S)
      /\ \A a, b : Scanning!Newlines(a, b)' = Scanning!Newlines(a, b)
      /\ \A a, S : Scanning!Until(a, S)' = Scanning!Until(a, S)
      /\ \A S : Scanning!FirstOf(S)' = Scanning!FirstOf(S)
  BY SameText
<1>1. Scanning!SkipSpace(start)' = Scanning!SkipSpace(start)
  BY <1>0 DEF Scanning!SkipSpace, Scanning!InComment
<1>2. \A b, q, n : Scanning!StringLoop(b, q, n)' = Scanning!StringLoop(b, q, n)
  BY <1>0 DEF Scanning!StringLoop
<1>3. Scanning!HandleString(start)' = Scanning!HandleString(start)
  BY <1>0, <1>2 DEF Scanning!HandleString
<1>4. Scanning!HandleNumber(start)' = Scanning!HandleNumber(start)
  BY <1>0 DEF Scanning!HandleNumber
<1>5. Scanning!HandleOperator(start)' = Scanning!HandleOperator(start)
  BY <1>0 DEF Scanning!HandleOperator
<1>6. \A p : Scanning!ConsumeOptionalIn(p)' = Scanning!ConsumeOptionalIn(p)
  BY <1>0 DEF Scanning!ConsumeOptionalIn
<1>7. \A p : Scanning!IdentifierEnd(p)' = Scanning!IdentifierEnd(p)
  BY <1>0 DEF Scanning!IdentifierEnd
<1>8. Scanning!HandleIdentifierKeywordRawStringOrInvalid(start)' = Scanning!HandleIdentifierKeywordRawStringOrInvalid(start)
  BY <1>0, <1>3, <1>6, <1>7 DEF Scanning!HandleIdentifierKeywordRawStringOrInvalid
<1> QED BY <1>1, <1>3, <1>4, <1>5, <1>8

LEMMA SameAdvanced ==
  ASSUME content' = content, NEW s
  PROVE  Scanning!Advanced(s)' = Scanning!Advanced(s)
<1>1. \A start : /\ Scanning!SkipSpace(start)' = Scanning!SkipSpace(start)
                 /\ Scanning!HandleString(start)' = Scanning!HandleString(start)
                 /\ Scanning!HandleNumber(start)' = Scanning!HandleNumber(start)
                 /\ Scanning!HandleOperator(start)' = Scanning!HandleOperator(start)
                 /\ Scanning!HandleIdentifierKeywordRawStringOrInvalid(start)' = Scanning!HandleIdentifierKeywordRawStringOrInvalid(start)
  BY SameHandlers
<1>2. \A start : Scanning!Scan(start)' = Scanning!Scan(start)
  BY <1>1 DEF Scanning!Scan
<1>3. /\ Scanning!End' = Scanning!End
      /\ \A a, b : Scanning!Newlines(a, b)' = Scanning!Newlines(a, b)
  BY SameText
<1> QED BY <1>1, <1>2, <1>3 DEF Scanning!Advanced, Scanning!Consumed

LEMMA SameScanAfter ==
  ASSUME IsText, content' = content
  PROVE  Scanning!ScanAfter' = Scanning!ScanAfter
<1>a. PICK g : g = Scanning!ScanAfter
  OBVIOUS
<1>b. PICK h : h = Scanning!ScanAfter'
  OBVIOUS
<1> DEFINE Then(s) == Scanning!Advanced(s).scan
           ThenP(s) == (Scanning!Advanced(s)').scan
           RecP(f) == f = [n \in Nat |-> IF n = 0 THEN Scanning!Fresh ELSE ThenP(f[n - 1])]
<1>1. \A s : ThenP(s) = Then(s)
  BY SameAdvanced
<1>2. g = [n \in Nat |-> IF n = 0 THEN Scanning!Fresh ELSE Then(g[n - 1])]
  BY <1>a, ScanAfterIs
<1>3. h = CHOOSE f : RecP(f)
  BY <1>b DEF Scanning!ScanAfter, Scanning!Fresh
<1> HIDE DEF Then, ThenP
<1>4. RecP(g)
  <2>1. \A n \in Nat : ThenP(g[n - 1]) = Then(g[n - 1])
    BY <1>1
  <2> QED BY <1>2, <2>1
<1>5. RecP(h)
  <2> HIDE DEF RecP
  <2> QED BY <1>3, <1>4
<1>6. /\ \A n \in Nat : h[n] = IF n = 0 THEN Scanning!Fresh ELSE Then(h[n - 1])
      /\ \A n \in Nat : g[n] = IF n = 0 THEN Scanning!Fresh ELSE Then(g[n - 1])
  <2>1. \A n \in Nat : h[n] = IF n = 0 THEN Scanning!Fresh ELSE ThenP(h[n - 1])
    BY <1>5
  <2>2. \A n \in Nat : g[n] = IF n = 0 THEN Scanning!Fresh ELSE Then(g[n - 1])
    BY <1>2
  <2> QED BY <1>1, <2>1, <2>2
<1> DEFINE S == {n \in Nat : h[n] = g[n]}
<1>7. 0 \in S
  BY <1>6
<1>8. ASSUME NEW n \in Nat, n \in S PROVE n + 1 \in S
  <2>1. n + 1 \in Nat /\ n + 1 # 0 /\ (n + 1) - 1 = n
    OBVIOUS
  <2> QED BY <1>6, <1>8, <2>1
<1> HIDE DEF S
<1>9. Nat \subseteq S
  BY <1>7, <1>8, AllNaturals
<1>10. \A n \in Nat : h[n] = g[n]
  BY <1>9 DEF S
<1>11. h = [n \in Nat |-> h[n]] /\ g = [n \in Nat |-> g[n]]
  <2>1. h = [n \in DOMAIN h |-> h[n]] /\ DOMAIN h = Nat
    BY <1>5
  <2>2. g = [n \in DOMAIN g |-> g[n]] /\ DOMAIN g = Nat
    BY <1>2
  <2> QED BY <2>1, <2>2
<1>12. h = g
  BY <1>10, <1>11
<1> QED BY <1>a, <1>b, <1>12

-----------------------------------------------------------------------------
(* What holds all the time: the scanner is where scanning without ever     *)
(* peeking had been after as many tokens.                                  *)
TokenAt(k) == Scanning!Advanced(Scanning!ScanAfter[k]).token
StateAt(k) == Scanning!ScanAfter[k]

LEMMA SameTokens ==
  ASSUME IsText, content' = content, NEW k
  PROVE  TokenAt(k)' = TokenAt(k) /\ StateAt(k)' = StateAt(k)
<1>1. Scanning!ScanAfter' = Scanning!ScanAfter
  BY SameScanAfter
<1>2. StateAt(k)' = StateAt(k)
  BY <1>1 DEF StateAt
<1>3. \A s : Scanning!Advanced(s)' = Scanning!Advanced(s)
  BY SameAdvanced
<1>4. TokenAt(k)' = TokenAt(k)
  BY <1>1, <1>3 DEF TokenAt
<1> QED BY <1>2, <1>4

ScannerInv ==
  /\ content \in ScannedContents
  /\ handed_out \in Seq(TokenSet)
  /\ upcoming_ = Scanning!NoToken \/ upcoming_ \in TokenSet
  /\ \A i \in 1..Len(handed_out) : handed_out[i] = TokenAt(i - 1)
  /\ upcoming_ = Scanning!NoToken => scan = StateAt(Len(handed_out))
  /\ upcoming_ # Scanning!NoToken =>
       upcoming_ = TokenAt(Len(handed_out)) /\ scan = StateAt(Len(handed_out) + 1)

LEMMA TextsAre ==
  ASSUME Scanning!ContentsAreTexts, content \in ScannedContents
  PROVE  IsText
BY DEF IsText, Scanning!ContentsAreTexts

LEMMA NoTokenIsNone == Scanning!NoToken \notin TokenSet
<1>1. Scanning!NoToken.type = "none"
  BY DEF Scanning!NoToken
<1>2. "none" \notin Types \cup {"eof"}
  BY Zenon DEF Types, Scanning!AsIs, Scanning!MayDouble
<1> QED BY <1>1, <1>2 DEF TokenSet

LEMMA ScannerInvInit ==
  ASSUME Scanning!ContentsAreTexts, Scanning!Init
  PROVE  ScannerInv
<1>1. content \in ScannedContents /\ scan = Scanning!Fresh /\ upcoming_ = Scanning!NoToken /\ handed_out = << >>
  BY DEF Scanning!Init
<1>2. StateAt(0) = Scanning!Fresh
  BY <1>1, TextsAre, ScanAfterIs DEF StateAt
<1>3. handed_out \in Seq(TokenSet) /\ Len(handed_out) = 0
  BY <1>1
<1> QED BY <1>1, <1>2, <1>3 DEF ScannerInv

LEMMA ScannerInvNext ==
  ASSUME Scanning!ContentsAreTexts, ScannerInv, [Scanning!Next]_Scanning!vars
  PROVE  ScannerInv'
<1> DEFINE n == Len(handed_out)
<1>1. IsText /\ content' = content /\ content \in ScannedContents
  <2>1. content' = content
    BY DEF Scanning!Next, Scanning!vars, Scanning!NextPeeked, Scanning!NextScanned, Scanning!Peek
  <2> QED BY <2>1, TextsAre DEF ScannerInv
<1>2. \A k : TokenAt(k)' = TokenAt(k) /\ StateAt(k)' = StateAt(k)
  BY <1>1, SameTokens
<1>4. \A k \in Nat : /\ StateAt(k) \in ScanStates
                     /\ StateAt(k + 1) = Scanning!Advanced(StateAt(k)).scan
                     /\ TokenAt(k) = Scanning!Advanced(StateAt(k)).token
  BY <1>1, ScanAfterIs DEF StateAt, TokenAt
<1>5. \A k \in Nat : TokenAt(k) \in TokenSet
  BY <1>1, <1>4, AdvancedIs DEF GoodToken
<1>6. Types' = Types /\ TokenSet' = TokenSet
  BY DEF TokenSet, Types, Scanning!AsIs, Scanning!MayDouble
<1>7. Scanning!NoToken' = Scanning!NoToken
  BY DEF Scanning!NoToken
<1>0. /\ handed_out \in Seq(TokenSet) /\ n \in Nat
      /\ \A i \in 1..n : handed_out[i] = TokenAt(i - 1)
      /\ upcoming_ = Scanning!NoToken \/ upcoming_ \in TokenSet
      /\ upcoming_ = Scanning!NoToken => scan = StateAt(n)
      /\ upcoming_ # Scanning!NoToken => upcoming_ = TokenAt(n) /\ scan = StateAt(n + 1)
  BY DEF ScannerInv
<1> DEFINE Goal(h, u, s) ==
             /\ h \in Seq(TokenSet)
             /\ u = Scanning!NoToken \/ u \in TokenSet
             /\ \A i \in 1..Len(h) : h[i] = TokenAt(i - 1)
             /\ u = Scanning!NoToken => s = StateAt(Len(h))
             /\ u # Scanning!NoToken => u = TokenAt(Len(h)) /\ s = StateAt(Len(h) + 1)
<1>8. SUFFICES Goal(handed_out', upcoming_', scan')
  BY <1>1, <1>2, <1>6, <1>7 DEF ScannerInv
<1>9. ASSUME NEW t \in TokenSet, t = TokenAt(n), handed_out' = Append(handed_out, t)
      PROVE  /\ handed_out' \in Seq(TokenSet) /\ Len(handed_out') = n + 1
             /\ \A i \in 1..Len(handed_out') : handed_out'[i] = TokenAt(i - 1)
  <2>1. /\ handed_out' \in Seq(TokenSet) /\ Len(handed_out') = n + 1
        /\ \A i \in 1..n : handed_out'[i] = handed_out[i]
        /\ handed_out'[n + 1] = t
    BY <1>0, <1>9
  <2>2. \A i \in 1..(n + 1) : i \in 1..n \/ i = n + 1
    BY <1>0
  <2>3. (n + 1) - 1 = n
    BY <1>0
  <2> QED BY <1>0, <1>9, <2>1, <2>2, <2>3
<1> HIDE DEF n
<1>10. CASE Scanning!NextPeeked
  <2>1. upcoming_ # Scanning!NoToken /\ handed_out' = Append(handed_out, upcoming_) /\ upcoming_' = Scanning!NoToken /\ scan' = scan
    BY <1>10 DEF Scanning!NextPeeked
  <2>2. upcoming_ \in TokenSet /\ upcoming_ = TokenAt(n) /\ scan = StateAt(n + 1)
    BY <1>0, <2>1
  <2> QED BY <1>9, <2>1, <2>2
<1>11. CASE Scanning!NextScanned
  <2>1. /\ upcoming_ = Scanning!NoToken /\ upcoming_' = upcoming_
        /\ handed_out' = Append(handed_out, Scanning!Advanced(scan).token) /\ scan' = Scanning!Advanced(scan).scan
    BY <1>11 DEF Scanning!NextScanned
  <2>2. scan = StateAt(n) /\ scan' = StateAt(n + 1) /\ Scanning!Advanced(scan).token = TokenAt(n) /\ TokenAt(n) \in TokenSet
    BY <1>0, <1>4, <1>5, <2>1
  <2> QED BY <1>9, <2>1, <2>2
<1>12. CASE Scanning!Peek
  <2>1. /\ upcoming_ = Scanning!NoToken /\ upcoming_' = Scanning!Advanced(scan).token
        /\ handed_out' = handed_out /\ scan' = Scanning!Advanced(scan).scan
    BY <1>12 DEF Scanning!Peek
  <2>2. scan = StateAt(n) /\ scan' = StateAt(n + 1) /\ Scanning!Advanced(scan).token = TokenAt(n) /\ TokenAt(n) \in TokenSet
    BY <1>0, <1>4, <1>5, <2>1
  <2>3. upcoming_' # Scanning!NoToken
    BY <2>1, <2>2, NoTokenIsNone
  <2> QED BY <1>0, <2>1, <2>2, <2>3 DEF n
<1>13. CASE UNCHANGED Scanning!vars
  BY <1>0, <1>13 DEF Scanning!vars, n
<1> QED BY <1>10, <1>11, <1>12, <1>13 DEF Scanning!Next

-----------------------------------------------------------------------------
(* What is true in such a state.                                           *)

LEMMA ReturnedIs ==
  ASSUME Scanning!ContentsAreTexts, ScannerInv
  PROVE  LET R == Scanning!Returned IN
         /\ R \in Seq(TokenSet) /\ Len(R) \in Nat
         /\ \A i \in 1..Len(R) : R[i] = TokenAt(i - 1)
         /\ scan = StateAt(Len(R))
         /\ \A t \in Scanning!Tokens : \E i \in 1..Len(R) : t = R[i]
<1> DEFINE n == Len(handed_out)
           R == Scanning!Returned
<1>0. /\ handed_out \in Seq(TokenSet) /\ n \in Nat
      /\ \A i \in 1..n : handed_out[i] = TokenAt(i - 1)
      /\ upcoming_ = Scanning!NoToken => scan = StateAt(n)
      /\ upcoming_ # Scanning!NoToken =>
           upcoming_ \in TokenSet /\ upcoming_ = TokenAt(n) /\ scan = StateAt(n + 1)
  BY DEF ScannerInv
<1>1. CASE upcoming_ = Scanning!NoToken
  <2>1. R = handed_out
    <3>1. R = handed_out \o << >>
      BY <1>1 DEF Scanning!Returned
    <3> HIDE DEF R
    <3> QED BY <1>0, <3>1
  <2>2. \A t \in Scanning!Tokens : \E i \in 1..n : t = handed_out[i]
    BY <1>1 DEF Scanning!Tokens
  <2> QED BY <1>0, <1>1, <2>1, <2>2
<1>2. CASE upcoming_ # Scanning!NoToken
  <2>1. R = handed_out \o <<upcoming_>>
    BY <1>2 DEF Scanning!Returned
  <2> HIDE DEF R
  <2>2. /\ R \in Seq(TokenSet) /\ Len(R) = n + 1 /\ R[n + 1] = upcoming_
        /\ \A i \in 1..n : R[i] = handed_out[i]
    BY <1>0, <1>2, <2>1
  <2>3. \A t \in Scanning!Tokens : t = upcoming_ \/ \E i \in 1..n : t = handed_out[i]
    BY DEF Scanning!Tokens
  <2> HIDE DEF n
  <2>4. \A i \in 1..(n + 1) : i \in 1..n \/ i = n + 1
    BY <1>0
  <2>5. (n + 1) - 1 = n /\ n + 1 \in 1..(n + 1) /\ \A i \in 1..n : i \in 1..(n + 1)
    BY <1>0
  <2>6. \A i \in 1..Len(R) : R[i] = TokenAt(i - 1)
    BY <1>0, <1>2, <2>2, <2>4, <2>5
  <2>7. \A t \in Scanning!Tokens : \E i \in 1..Len(R) : t = R[i]
    BY <2>2, <2>3, <2>5
  <2>8. scan = StateAt(Len(R)) /\ Len(R) \in Nat
    BY <1>0, <1>2, <2>2
  <2> QED BY <2>2, <2>6, <2>7, <2>8 DEF R
<1> QED BY <1>1, <1>2

LEMMA EachTokenIs ==
  ASSUME Scanning!ContentsAreTexts, ScannerInv, NEW i \in 1..Len(Scanning!Returned)
  PROVE  LET R == Scanning!Returned
             before == IF i = 1 THEN 1 ELSE R[i - 1].to
         IN /\ GoodToken(before, R[i])
            /\ R[i].to <= scan.pos /\ scan \in ScanStates
            /\ R[i] = Scanning!Advanced(Scanning!ScanAfter[i - 1]).token
<1> DEFINE R == Scanning!Returned
<1>0. IsText
  BY TextsAre DEF ScannerInv
<1>1. \A k \in Nat : /\ StateAt(k) \in ScanStates
                     /\ StateAt(k + 1) = Scanning!Advanced(StateAt(k)).scan
                     /\ TokenAt(k) = Scanning!Advanced(StateAt(k)).token
  BY <1>0, ScanAfterIs DEF StateAt, TokenAt
<1>2. \A k \in Nat : TokenAt(k).to = StateAt(k + 1).pos /\ GoodToken(StateAt(k).pos, TokenAt(k))
  BY <1>0, <1>1, AdvancedIs
<1>3. StateAt(0).pos = 1
  BY <1>0, ScanAfterIs, FreshIs DEF StateAt
<1>4. /\ Len(R) \in Nat /\ \A j \in 1..Len(R) : R[j] = TokenAt(j - 1)
      /\ scan = StateAt(Len(R))
  BY ReturnedIs
<1> HIDE DEF R
<1>5. i \in 1..Len(R)
  BY DEF R
<1>6. i - 1 \in Nat /\ (i - 1) + 1 = i /\ i \in Nat /\ i <= Len(R)
  BY <1>4, <1>5
<1>7. StateAt(i - 1).pos = IF i = 1 THEN 1 ELSE R[i - 1].to
  <2>1. CASE i = 1
    <3>1. i - 1 = 0
      BY <2>1
    <3> QED BY <1>3, <2>1, <3>1
  <2>2. CASE i # 1
    <3>1. i - 1 \in 1..Len(R) /\ (i - 1) - 1 \in Nat /\ ((i - 1) - 1) + 1 = i - 1
      BY <1>4, <1>5, <2>2
    <3> QED BY <1>2, <1>4, <2>2, <3>1
  <2> QED BY <2>1, <2>2
<1>8. R[i] = TokenAt(i - 1) /\ GoodToken(StateAt(i - 1).pos, TokenAt(i - 1)) /\ TokenAt(i - 1).to = StateAt(i).pos
  BY <1>2, <1>4, <1>5, <1>6
<1>9. StateAt(i).pos <= scan.pos
  BY <1>0, <1>4, <1>6, ScanningGoesOn DEF StateAt
<1> QED BY <1>1, <1>4, <1>7, <1>8, <1>9 DEF R, TokenAt

(* The line index answers for every place the scanner has passed.          *)
LEMMA PositionIs ==
  ASSUME IsText, Scanning!NotInIsOnOneLine, scan \in ScanStates, NEW p \in 1..scan.pos
  PROVE  /\ Scanning!LineOf(p) = Scanning!TrueLine(p)
         /\ scan.line_map[Scanning!LineOf(p) + 1] = Scanning!Max({1} \cup {q + 1 : q \in Scanning!Newlines(1, p)})
<1> DEFINE s == scan.line_map
           K == {i \in 1..Len(s) : s[i] <= p}
           V == {v \in ValuesOf(s) : v <= p}
           N == Scanning!Newlines(1, p)
           W == {1} \cup {q + 1 : q \in N}
<1>0. /\ s \in Seq(Nat) /\ Increasing(s) /\ scan.pos \in Nat /\ p \in Nat /\ 1 <= p /\ p <= scan.pos
      /\ ValuesOf(s) = {1} \cup {q + 1 : q \in Scanning!Newlines(1, scan.pos)}
  <2>1. scan.pos \in 1..Scanning!End
    BY DEF ScanStates
  <2>2. scan.pos \in Nat
    BY <2>1, EndIs
  <2> QED BY <2>2 DEF ScanStates, ScanOK
<1>1. /\ N \subseteq Nat /\ IsFiniteSet(N)
      /\ \A q : q \in N <=> q \in 1..(p - 1) /\ content[q] = "\n"
      /\ \A q : q \in Scanning!Newlines(1, scan.pos) <=> q \in 1..(scan.pos - 1) /\ content[q] = "\n"
  BY <1>0, NewlinesAre
<1>2. V = W
  <2>1. \A q \in Scanning!Newlines(1, scan.pos) : q + 1 <= p <=> q \in N
    BY <1>0, <1>1
  <2>2. \A q \in N : q \in Scanning!Newlines(1, scan.pos)
    BY <1>0, <1>1
  <2> HIDE DEF N
  <2>3. ASSUME NEW v PROVE v \in V <=> v \in W
    <3>1. ASSUME v \in V PROVE v \in W
      <4>1. v = 1 \/ \E q \in Scanning!Newlines(1, scan.pos) : v = q + 1
        BY <1>0, <3>1
      <4> QED BY <2>1, <3>1, <4>1
    <3>2. ASSUME v \in W PROVE v \in V
      <4>1. v = 1 \/ \E q \in N : v = q + 1
        BY <3>2
      <4>2. 1 \in V
        BY <1>0
      <4>3. \A q \in N : q + 1 \in V
        BY <1>0, <2>1, <2>2
      <4> QED BY <4>1, <4>2, <4>3
    <3> QED BY <3>1, <3>2
  <2> HIDE DEF V, W
  <2> QED BY <2>3
<1>3. /\ Cardinality(K) \in Nat
      /\ IsFiniteSet(V) /\ Cardinality(V) = Cardinality(K)
      /\ V # {} => /\ s[Cardinality(K)] \in V /\ \A v \in V : v <= s[Cardinality(K)]
  <2> HIDE DEF s
  <2> QED BY <1>0, NotAbove
<1> HIDE DEF s, K, V, N
<1>4. Cardinality(W) = Cardinality(N) + 1 /\ Cardinality(N) \in Nat
  <2> DEFINE U == {q + 1 : q \in N}
             f == [q \in N |-> q + 1]
  <2>1. f \in Bijection(N, U)
    <3>1. f \in [N -> U] /\ \A u \in U : \E q \in N : f[q] = u
      OBVIOUS
    <3>2. \A q, r \in N : f[q] = f[r] => q = r
      BY <1>1
    <3> HIDE DEF f, U
    <3> QED BY <3>1, <3>2 DEF Bijection, Injection, Surjection, IsInjective
  <2>2. IsFiniteSet(U) /\ Cardinality(U) = Cardinality(N)
    <3>1. ExistsBijection(N, U)
      BY <2>1 DEF ExistsBijection
    <3> HIDE DEF U
    <3> QED BY <1>1, <3>1, FS_Bijection
  <2>3. 1 \notin U
    <3>1. \A q \in N : q >= 1 /\ q \in Nat
      BY <1>1
    <3> QED BY <3>1
  <2>4. Cardinality(U \cup {1}) = Cardinality(U) + 1
    <3> HIDE DEF U
    <3> QED BY <2>2, <2>3, FS_AddElement
  <2>5. W = U \cup {1}
    OBVIOUS
  <2>6. Cardinality(N) \in Nat
    BY <1>1, FS_CardinalityType
  <2> HIDE DEF U, W
  <2> QED BY <2>2, <2>4, <2>5, <2>6
<1>5. 1 \in W
  OBVIOUS
<1>6. Scanning!LineOf(p) = Cardinality(K) - 1
  BY CountIs DEF Scanning!LineOf, K, s
<1>7. Scanning!TrueLine(p) = Cardinality(N)
  BY CountIs DEF Scanning!TrueLine, N
<1>8. Scanning!LineOf(p) + 1 = Cardinality(K)
  BY <1>3, <1>6
<1>9. \A v \in W : v \in Nat
  BY <1>1
<1> HIDE DEF W
<1>10. s[Cardinality(K)] \in W /\ \A v \in W : s[Cardinality(K)] >= v
  BY <1>2, <1>3, <1>5, <1>9
<1>11. Scanning!Max(W) = s[Cardinality(K)]
  <2>1. Scanning!Max(W) = CHOOSE v \in W : \A w \in W : v >= w
    BY DEF Scanning!Max
  <2>2. Scanning!Max(W) \in W /\ \A w \in W : Scanning!Max(W) >= w
    BY <1>10, <2>1
  <2>3. Scanning!Max(W) >= s[Cardinality(K)] /\ s[Cardinality(K)] >= Scanning!Max(W)
    BY <1>10, <2>2
  <2>4. Scanning!Max(W) \in Nat /\ s[Cardinality(K)] \in Nat
    BY <1>9, <1>10, <2>2
  <2> QED BY <2>3, <2>4
<1>12. Scanning!LineOf(p) = Scanning!TrueLine(p)
  BY <1>2, <1>3, <1>4, <1>6, <1>7
<1> QED BY <1>8, <1>11, <1>12 DEF W, N, s

LEMMA InvGivesLocations ==
  ASSUME Scanning!ContentsAreTexts, ScannerInv, Scanning!NotInIsOnOneLine
  PROVE  Scanning!LocationsAreExact
<1> SUFFICES ASSUME NEW t \in Scanning!Tokens
    PROVE /\ Scanning!GetRange(t).start = [line |-> Scanning!TrueLine(t.from), col |-> Scanning!TrueColumn(t.from)]
          /\ Scanning!GetRange(t).end = [line |-> Scanning!TrueLine(t.to), col |-> Scanning!TrueColumn(t.to)]
          /\ Scanning!GetSurroundingLine(t).from = scan.line_map[Scanning!GetPos(t.from).line + 1]
  BY DEF Scanning!LocationsAreExact
<1>0. IsText
  BY TextsAre DEF ScannerInv
<1>1. PICK i \in 1..Len(Scanning!Returned) : t = Scanning!Returned[i]
  BY ReturnedIs
<1>2. t.to <= scan.pos /\ scan \in ScanStates /\ t.from \in 1..Scanning!End /\ t.to \in t.from..Scanning!End
  BY <1>1, EachTokenIs DEF GoodToken
<1>3. scan.pos \in 1..Scanning!End /\ Scanning!End \in Nat
  BY <1>0, <1>2, EndIs DEF ScanStates
<1>4. t.from \in 1..scan.pos /\ t.to \in 1..scan.pos
  BY <1>2, <1>3
<1>5. ASSUME NEW p \in 1..scan.pos
      PROVE  /\ Scanning!GetPos(p) = [line |-> Scanning!TrueLine(p), col |-> Scanning!TrueColumn(p)]
             /\ scan.line_map[Scanning!GetPos(p).line + 1] = Scanning!Max({1} \cup {q + 1 : q \in Scanning!Newlines(1, p)})
  <2>1. /\ Scanning!LineOf(p) = Scanning!TrueLine(p)
        /\ scan.line_map[Scanning!LineOf(p) + 1] = Scanning!Max({1} \cup {q + 1 : q \in Scanning!Newlines(1, p)})
    BY <1>0, <1>2, PositionIs
  <2>2. Scanning!GetPos(p) = [line |-> Scanning!LineOf(p), col |-> p - scan.line_map[Scanning!LineOf(p) + 1]]
    BY DEF Scanning!GetPos
  <2>3. Scanning!GetPos(p).line = Scanning!LineOf(p)
    BY <2>2
  <2> QED BY <2>1, <2>2, <2>3, Zenon DEF Scanning!TrueColumn
<1>6. Scanning!GetRange(t).start = Scanning!GetPos(t.from) /\ Scanning!GetRange(t).end = Scanning!GetPos(t.to)
  BY DEF Scanning!GetRange
<1>7. Scanning!GetSurroundingLine(t).from = Scanning!Max({1} \cup {p + 1 : p \in Scanning!Newlines(1, t.from)})
  BY DEF Scanning!GetSurroundingLine
<1> QED BY <1>4, <1>5, <1>6, <1>7

LEMMA InvGivesStrings ==
  ASSUME Scanning!ContentsAreTexts, ScannerInv
  PROVE  /\ Scanning!StringsEndWhereTheyClose
         /\ Scanning!SingleQuotesAreNotTripled => Scanning!ValueHasQuotesRemoved
<1>0. IsText
  BY TextsAre DEF ScannerInv
<1>1. ASSUME NEW t \in {u \in Scanning!Tokens : u.type = "string"}
      PROVE  StringIsGood(t.from, t.to) /\ t.from \in 1..Scanning!End /\ t.to \in 1..Scanning!End
  <2>1. PICK i \in 1..Len(Scanning!Returned) : t = Scanning!Returned[i]
    BY ReturnedIs
  <2>2. Scanning!End \in Nat
    BY <1>0, EndIs
  <2>3. /\ t.type = "string" => StringIsGood(t.from, t.to)
        /\ t.from \in 1..Scanning!End /\ t.to \in t.from..Scanning!End
    BY <2>1, EachTokenIs DEF GoodToken
  <2> QED BY <2>2, <2>3
<1>2. Scanning!StringsEndWhereTheyClose
  <2> SUFFICES ASSUME NEW t \in {u \in Scanning!Tokens : u.type = "string"}
      PROVE LET open   == IF content[t.from] = "r" THEN t.from + 1 ELSE t.from
                quote  == content[open]
                triple == Scanning!Is(open + 1, {quote}) /\ Scanning!Is(open + 2, {quote})
                n      == IF triple THEN 3 ELSE 1
                slashes(q) == Scanning!Cardinality({p \in open + n..q - 1 : \A r \in p..q - 1 : content[r] = "\\"})
                closes(q) == \A r \in q - n + 1..q : r >= open + n /\ content[r] = quote /\ slashes(r) % 2 = 0
            IN closes(t.to - 1) /\ \A q \in open + n..t.to - 2 : ~closes(q)
    BY DEF Scanning!StringsEndWhereTheyClose
  <2> DEFINE open == OpenOf(t.from)
             n == NeededAt(open)
  <2>1. Closes(open + n, content[open], n, t.to - 1) /\ \A q \in open + n..t.to - 2 : ~Closes(open + n, content[open], n, q)
    BY <1>1 DEF StringIsGood
  <2> DEFINE Of(b, q) == Scanning!Cardinality({p \in b..q - 1 : \A r \in p..q - 1 : content[r] = "\\"})
             Ends(b, quote, k, q) == \A r \in q - k + 1..q : r >= b /\ content[r] = quote /\ Of(b, r) % 2 = 0
  <2>2. \A b, q : Of(b, q) = Slashes(b, q)
    BY CountIs DEF Slashes, Backslashes
  <2>3. \A b, quote, k, q : Ends(b, quote, k, q) <=> Closes(b, quote, k, q)
    <3> HIDE DEF Of
    <3> QED BY <2>2 DEF Closes
  <2>4. Ends(open + n, content[open], n, t.to - 1) /\ \A q \in open + n..t.to - 2 : ~Ends(open + n, content[open], n, q)
    <3> HIDE DEF Ends, open, n
    <3> QED BY <2>1, <2>3
  <2> QED BY <2>4, Zenon DEF OpenOf, NeededAt, TripleAt
<1>3. ASSUME Scanning!SingleQuotesAreNotTripled
      PROVE  Scanning!ValueHasQuotesRemoved
  <2> SUFFICES ASSUME NEW t \in {u \in Scanning!Tokens : u.type = "string"}
      PROVE LET open   == IF content[t.from] = "r" THEN t.from + 1 ELSE t.from
                triple == \A p \in open..open + 2 : Scanning!Is(p, {content[open]})
                n      == IF triple THEN 3 ELSE 1
            IN Scanning!StringValue(t) = [from |-> open + n, to |-> t.to - n]
    BY DEF Scanning!ValueHasQuotesRemoved
  <2> DEFINE open == OpenOf(t.from)
             n == NeededAt(open)
  <2>1. Scanning!StringValue(t) = [from |-> open + n, to |-> t.to - n]
    BY <1>0, <1>1, <1>3, ValueIs
  <2>2. open \in t.from..(Scanning!End - 1) /\ t.from \in 1..Scanning!End /\ Scanning!End \in Nat
    BY <1>0, <1>1, EndIs DEF StringIsGood
  <2>3. open = IF content[t.from] = "r" THEN t.from + 1 ELSE t.from
    BY DEF OpenOf
  <2>4. n = IF TripleAt(open) THEN 3 ELSE 1
    BY DEF NeededAt
  <2> HIDE DEF open, n
  <2>5. TripleAt(open) <=> \A p \in open..open + 2 : Scanning!Is(p, {content[open]})
    <3>1. \A p : p \in open..open + 2 <=> p = open \/ p = open + 1 \/ p = open + 2
      BY <2>2
    <3>2. Scanning!Is(open, {content[open]})
      BY <2>2 DEF Scanning!Is
    <3> QED BY <3>1, <3>2, Zenon DEF TripleAt
  <2> QED BY <2>1, <2>3, <2>4, <2>5, Zenon
<1> QED BY <1>2, <1>3

LEMMA InvGivesScannerIsFaithful ==
  ASSUME Scanning!ContentsAreTexts, ScannerInv
  PROVE  Scanning!ScannerIsFaithful
<1> DEFINE R == Scanning!Returned
<1>0. IsText /\ Scanning!End \in Nat
  BY TextsAre, EndIs DEF ScannerInv
<1>1. scan \in ScanStates
  <2>1. Len(R) \in Nat /\ scan = Scanning!ScanAfter[Len(R)]
    BY ReturnedIs DEF StateAt
  <2> HIDE DEF R
  <2> QED BY <1>0, <2>1, ScanAfterIs
<1>2. \A t \in Scanning!Tokens : \E i \in 1..Len(R) : t = R[i]
  BY ReturnedIs
<1>3. ASSUME NEW i \in 1..Len(R)
      PROVE  /\ GoodToken(IF i = 1 THEN 1 ELSE R[i - 1].to, R[i])
             /\ R[i] = Scanning!Advanced(Scanning!ScanAfter[i - 1]).token
  BY EachTokenIs
<1>4. Scanning!TypeOK
  <2>1. scan.pos \in 1..Scanning!End /\ scan.line_map # << >>
    BY <1>1 DEF ScanStates, ScanOK
  <2>2. ASSUME NEW t \in Scanning!Tokens
        PROVE  t.from \in 1..Scanning!End /\ t.to \in t.from..Scanning!End
    <3>1. PICK i \in 1..Len(R) : t = R[i]
      BY <1>2
    <3> HIDE DEF R
    <3> QED BY <1>3, <3>1 DEF GoodToken
  <2> QED BY <2>1, <2>2 DEF Scanning!TypeOK
<1>5. Scanning!LineIndexIsOrdered
  BY <1>1 DEF Scanning!LineIndexIsOrdered, ScanStates, ScanOK, Increasing
<1>6. Scanning!NothingIsLost
  BY <1>3 DEF Scanning!NothingIsLost, GoodToken
<1>7. Scanning!BracketFlagIsRight
  BY <1>3 DEF Scanning!BracketFlagIsRight, GoodToken
<1>8. Scanning!PeekingChangesNothing
  BY <1>3 DEF Scanning!PeekingChangesNothing
<1> QED BY <1>4, <1>5, <1>6, <1>7, <1>8, InvGivesLocations, InvGivesStrings DEF Scanning!ScannerIsFaithful

(* The scanner is faithful to its text, whatever the text is: no text is   *)
(* lost or read twice, strings end where they close, a bracket on a new    *)
(* line is flagged, Peek() never changes what Next() returns, every token  *)
(* is where GetRange() says it is unless a "not in" spans lines, and       *)
(* FromLiteral removes the quotes unless single ones are tripled.          *)
THEOREM ScannerFaithful == Scanning!Spec => []ScannerIsFaithful
<1>1. Scanning!Init => ScannerInv
  BY ContentsAssumption, ScannerInvInit
<1>2. ScannerInv /\ [Scanning!Next]_Scanning!vars => ScannerInv'
  BY ContentsAssumption, ScannerInvNext
<1>3. ScannerInv => ScannerIsFaithful
  BY ContentsAssumption, InvGivesScannerIsFaithful DEF ScannerIsFaithful
<1> QED BY <1>1, <1>2, <1>3, PTL DEF Scanning!Spec
=============================================================================
