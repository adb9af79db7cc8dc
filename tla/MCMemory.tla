------------------------------ MODULE MCMemory ------------------------------
(***************************************************************************)
(* Memory and what it is told about.  Two containers in one arena whose    *)
(* blocks hold six units, with chains of one, two and two values: a chain  *)
(* doubles, reaches its maximum, fits in the rest of an arena block, and   *)
(* does not.  Or two packages, every text of up to three characters, and   *)
(* strings made of up to two bytes, at every place of a small memory.      *)
(***************************************************************************)
EXTENDS ArenaDeque, SourceLocations, TLC

Interchangeable == Permutations(Deques) \cup Permutations(Values)
TheTexts == UNION {[1..n -> {"x", "\n"}] : n \in 0..3}

(* The two share nothing; a behaviour is one of either.                    *)
MemoryInit == DequeInit /\ LocationsInit
UseArena == files = {} /\ seen_before = {} /\ DequeNext /\ UNCHANGED locationVars
Locate == allocations = {} /\ LocationsNext /\ UNCHANGED vars
MemoryNext == UseArena \/ Locate
MemorySpec == MemoryInit /\ [][MemoryNext]_<<vars, locationVars>>
=============================================================================
