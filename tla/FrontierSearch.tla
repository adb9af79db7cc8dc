--------------------------- MODULE FrontierSearch ---------------------------
(***************************************************************************)
(* What BuildDependencyGraph() promises, without packages, parsing or the  *)
(* order of the rules in a file: a breadth first search that takes one     *)
(* whole layer per step, so that its result depends on the graph alone.    *)
(***************************************************************************)
EXTENDS Integers

CONSTANTS
  Node,        \* the vertices of the graph
  Unlimited    \* the search depth that is never exhausted

VARIABLES
  succ,        \* a function: the vertices that can be visited, to their edges
  visited,     \* the vertices of the result so far
  frontier,    \* the layer to be visited next
  missing,     \* vertices that were wanted but can not be visited
  layers,      \* the layers that may still follow this one
  state        \* "searching", "done" or "aborted"

vars == <<succ, visited, frontier, missing, layers, state>>

Init ==
  /\ DOMAIN succ \subseteq Node
  /\ visited = {}
  /\ missing = {}
  /\ frontier \subseteq DOMAIN succ
  /\ layers \in Nat \cup {Unlimited}
  /\ state = "searching"

Found == frontier \cap DOMAIN succ

Beyond == (UNION {succ[n] : n \in Found}) \ (visited \cup frontier)

VisitLayer ==
  /\ state = "searching"
  /\ visited' = visited \cup Found
  /\ missing' = missing \cup (frontier \ Found)
  /\ frontier' = Beyond
  /\ state' = IF Beyond # {} /\ (layers = Unlimited \/ layers > 0)
              THEN "searching" ELSE "done"
  /\ layers' = IF Beyond = {} \/ layers = Unlimited THEN layers ELSE layers - 1
  /\ UNCHANGED succ

Abort ==
  /\ state = "searching"
  /\ state' = "aborted"
  /\ UNCHANGED <<succ, visited, frontier, missing, layers>>

Next == VisitLayer \/ Abort

Spec == Init /\ [][Next]_vars
=============================================================================
