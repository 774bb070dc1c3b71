--------------------------- MODULE MCPackageCache ----------------------------
(* Instances of PackageCache for TLC: one or two clients, two-chunk packages. *)
EXTENDS PackageCache

CONSTANTS p1, p2, r1, r2, i1, i2, i3

OneClient == {p1}
TwoClients == {p1, p2}
OneRevision == {r1}
TwoRevisions == {r1, r2}
ThreeInodes == {i1, i2, i3}
==============================================================================
