------------------------------ MODULE MCAirgap -------------------------------
(* Instances of Airgap for TLC: two or three wraps, one of a prerelease.    *)
EXTENDS Airgap

CONSTANTS a, b, t1, t2, rc

Chart(n, v) == [name |-> n, version |-> v]

MCTriples == {t1, t2}
MCSegments == {a, b, t1, t2, rc}

\* "a" and "a-b" at releases, "b" at a release candidate.
MixedCharts == {Chart(<<a>>, <<t1>>), Chart(<<a, b>>, <<t1>>), Chart(<<b>>, <<t2, rc>>)}

\* A release candidate beside a release.
CandidateCharts == {Chart(<<a>>, <<t1>>), Chart(<<a>>, <<t2, rc>>)}
==============================================================================
