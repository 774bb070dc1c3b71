------------------------------ MODULE MCSyncer -------------------------------
(* Instances of Syncer for TLC: two or three charts, one or two names.      *)
EXTENDS Syncer

CONSTANTS a, b, one, two, v     \* segments of names and versions

Chart(n, s) == [name |-> n, version |-> s]

na == <<a>>
nb == <<b>>
v1 == <<one>>
v2 == <<two>>

\* Two versions of a, one of b.
PlainCharts == {Chart(na, v1), Chart(na, v2), Chart(nb, v1)}
PlainNames == {na, nb}
PlainRank == [n \in {na, nb} |-> IF n = na THEN 1 ELSE 2]
PlainVersions == {v1, v2}
PlainPrecedence == [w \in {v1, v2} |-> IF w = v1 THEN 1 ELSE 2]
PlainCanonical == [w \in {v1, v2} |-> w]
OldestFirst == [c \in PlainCharts |-> IF c = Chart(na, v1) THEN 2 ELSE 3]

\* The configuration of deployment/cronjob.yaml without --latest-version-only.
MirrorAll ==
  [charts |-> {}, skip |-> {}, latestOnly |-> FALSE, dryRun |-> FALSE,
   autoDiscovery |-> TRUE, from |-> NoDate]
MirrorLatest == [MirrorAll EXCEPT !.latestOnly = TRUE]

DiscoveryConfigs ==
  { MirrorAll,
    MirrorLatest,
    [MirrorAll EXCEPT !.skip = {nb}, !.from = 3],
    [MirrorAll EXCEPT !.charts = {nb}, !.dryRun = TRUE, !.autoDiscovery = FALSE],
    [MirrorAll EXCEPT !.from = BadDate] }

ListedLatest == [MirrorLatest EXCEPT !.charts = {na, nb}]
ListedAll == [MirrorAll EXCEPT !.charts = {na, nb}]
ListedConfigs == {ListedAll, ListedLatest}

OnlyMirrorAll == {MirrorAll}
OnlyListedLatest == {ListedLatest}

\* A registry where b also carries the tag of a version with build metadata,
\* 1.0.0_b1, which semver rejects.
tagged == <<v>>
TaggedCharts == {Chart(na, v1), Chart(nb, v1), Chart(nb, tagged)}
TaggedVersions == {v1, tagged}
TaggedParsable == {v1}
TaggedPrecedence == [w \in {v1} |-> 1]
TaggedCanonical == [w \in {v1} |-> w]
TaggedCreated == [c \in TaggedCharts |-> 3]
LatestFirstRank == [n \in {na, nb} |-> IF n = nb THEN 1 ELSE 2]

\* A Helm repository whose entry for a second version of b has no URLs.
BrokenChart == Chart(nb, v2)
BrokenCharts == PlainCharts \cup {BrokenChart}
OnlyBroken == {BrokenChart}
BrokenCreated == [c \in BrokenCharts |-> IF c = Chart(na, v1) THEN 2 ELSE 3]
==============================================================================
