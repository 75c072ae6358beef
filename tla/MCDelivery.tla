----------------------------- MODULE MCDelivery -----------------------------
(* Delivery on small instances. *)
EXTENDS Delivery, TLC

CONSTANTS d1, d2, d3, n1, n2, i1, i2, i3, r1, r2, p1

TwoDevices == {d1, d2}
ThreeDevices == {d1, d2, d3}
OneImported == {d1}
OneInstall == {n1}
TwoInstalls == {n1, n2}
OneItem == {i1}
TwoItems == {i1, i2}
OneRequest == {r1}
TwoRequests == {r1, r2}
OneProducer == {p1}
None == {}

\* Installs, rows and requests are interchangeable; so are the devices that
\* are not imported.
Symmetry == Permutations(Installs) \cup Permutations(Items)
            \cup Permutations(Requests) \cup Permutations(LegacyDevices)
            \cup Permutations(Devices \ LegacyDevices)
=============================================================================
