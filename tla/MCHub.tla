------------------------------- MODULE MCHub -------------------------------
(* Hub on small instances. *)
EXTENDS Hub, TLC

CONSTANTS d1, h1, h2, t1, t2

OneDevice == {d1}
OneDrain == {h1}
TwoDrains == {h1, h2}
OneTool == {t1}
TwoTools == {t1, t2}

\* Drains and tool calls are interchangeable.
Symmetry == Permutations(Drains) \cup Permutations(Tools)
=============================================================================
