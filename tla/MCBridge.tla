------------------------------ MODULE MCBridge ------------------------------
(***************************************************************************)
(* A small instance of Bridge for TLC: one phone that may be re-paired     *)
(* once, two questions, a row and a drain.                                 *)
(***************************************************************************)
EXTENDS Bridge, TLC

CONSTANTS d1, d2, p1, h1, h2, t1, t2

MCPhoneOf == (d1 :> p1) @@ (d2 :> p1)
Symmetry == Permutations({h1, h2}) \cup Permutations({t1, t2})
=============================================================================
