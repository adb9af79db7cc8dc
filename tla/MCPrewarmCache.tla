--------------------------- MODULE MCPrewarmCache ---------------------------
(***************************************************************************)
(* Two threads and two paths for PrewarmCache. Liveness is checked, so the *)
(* threads and paths are no symmetry sets.                                 *)
(***************************************************************************)
EXTENDS PrewarmCache

CONSTANTS r1, r2,  \* threads
          x, y     \* paths

TwoRunners == {r1, r2}
TwoPaths == {x, y}
=============================================================================
