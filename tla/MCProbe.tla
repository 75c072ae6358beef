------------------------------ MODULE MCProbe -------------------------------
(***************************************************************************)
(* A small instance of Probe for TLC: two panes over a gateway that comes  *)
(* and goes.                                                               *)
(***************************************************************************)
EXTENDS Probe
=============================================================================
