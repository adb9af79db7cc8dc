----------------------------- MODULE AppendOnly -----------------------------
(***************************************************************************)
(* What the containers of the syntax tree promise: a sequence for each     *)
(* container that only ever grows at its end, one element at a time, and   *)
(* independently of the other containers.                                  *)
(***************************************************************************)
EXTENDS Sequences

CONSTANTS Keys, Values

VARIABLE contents

Init == contents = [k \in Keys |-> <<>>]

Extend(k, v) == contents' = [contents EXCEPT ![k] = Append(@, v)]

Next == \E k \in Keys, v \in Values : Extend(k, v)

Spec == Init /\ [][Next]_contents
=============================================================================
