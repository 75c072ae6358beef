--------------------------- MODULE MCDeliveryLive ---------------------------
(* DeliveryLive on small instances; no symmetry, which liveness forbids. *)
EXTENDS DeliveryLive, TLC

CONSTANTS d1, d2, d3, n1, i1, i2, r1, r2

ThreeDevices == {d1, d2, d3}
OneImported == {d1}
TwoImported == {d1, d2}
OneInstall == {n1}
OneItem == {i1}
OneRequest == {r1}
TwoRequests == {r1, r2}
None == {}
=============================================================================
