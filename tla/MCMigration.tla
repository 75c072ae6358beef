---------------------------- MODULE MCMigration ----------------------------
(* Migration on small instances. *)
EXTENDS Migration, TLC

CONSTANTS p1, p2, d1, d2, d3, i1

TwoProcesses == {p1, p2}
ThreeDevices == {d1, d2, d3}
TwoFiled == {d1, d2}
FirstActive == {d1}
OneItem == {i1}
ToFirst == [i \in Items |-> d1]
AnyContent == {"good", "malformed", "raising"}
GoodContent == {"good"}
=============================================================================
