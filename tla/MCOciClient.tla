----------------------------- MODULE MCOciClient -----------------------------
(* An instance of OciClient for TLC: 1.0.0, 1.0.0+b1 and a floating tag.    *)
EXTENDS OciClient

CONSTANTS one, oneb, oneb_, stable     \* 1.0.0, 1.0.0+b1, 1.0.0_b1, stable

MCTags == {one, oneb_, stable}
MCVersions == MCTags \cup {oneb}
MCSemver == {one, oneb}
MCTagOf == [v \in MCVersions |-> IF v = oneb THEN oneb_ ELSE v]

Chart(v) == [helm |-> TRUE, package |-> v]
Bare == [helm |-> TRUE, package |-> None]      \* a Helm config without a chart
Image == [helm |-> FALSE, package |-> None]

MCMayHold == [t \in MCTags |->
  IF t = one THEN {Chart(one)} ELSE IF t = stable THEN {Chart(one)}
  ELSE {Chart(oneb), Bare, Image}]

\* The index lags, or does not know the name.
MCIndexes == {{}, {one}, {one, oneb}}
==============================================================================
