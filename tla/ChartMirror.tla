----------------------------- MODULE ChartMirror -----------------------------
(***************************************************************************)
(* What charts-syncer promises of one pair of repositories, with every     *)
(* detail of how it does it left out: a sequence of runs, each of which    *)
(* owes the target a set of charts of the source, copies charts it owes,   *)
(* and may call itself synced only when nothing it owes is missing.        *)
(* The runs of Syncer.tla are shown to implement this specification, and   *)
(* the exports and the imports of Airgap.tla one each.                     *)
(***************************************************************************)
EXTENDS FiniteSets

CONSTANT
  Charts        \* every chart that may ever be published, a record with a name

VARIABLES
  source,       \* the charts the source repository serves
  target,       \* the charts the target repository serves
  owed,         \* the charts the present run was asked to bring to the target
  report        \* "running", or how the last run ended

mirrorVars == <<source, target, owed, report>>

Init ==
  /\ source \in SUBSET Charts
  /\ target = {}
  /\ owed = {}
  /\ report = "never"

\* Anyone may publish; charts-syncer never does, and never withdraws a chart.
Publish ==
  /\ \E c \in Charts \ source : source' = source \cup {c}
  /\ UNCHANGED <<target, owed, report>>

Begin ==
  /\ report # "running"
  /\ report' = "running"
  /\ owed' \in SUBSET source
  /\ UNCHANGED <<source, target>>

\* A run that lists the source while it works may owe charts published since
\* it began; it drops a chart only for a newer one of the same name.
Learn ==
  /\ report = "running"
  /\ owed' \in SUBSET source
  /\ \A c \in owed \ owed' : \E d \in owed' \ owed : d.name = c.name
  /\ UNCHANGED <<source, target, report>>

Copy ==
  /\ report = "running"
  /\ \E c \in owed \ target : target' = target \cup {c}
  /\ UNCHANGED <<source, owed, report>>

FinishSynced ==
  /\ report = "running"
  /\ owed \subseteq target
  /\ report' = "synced"
  /\ UNCHANGED <<source, target, owed>>

\* A run that finds nothing missing may be over as it begins.
NothingToDo ==
  /\ report # "running"
  /\ report' = "synced"
  /\ owed' \in SUBSET (source \cap target)
  /\ UNCHANGED <<source, target>>

\* A failed run keeps what it copied and promises nothing else.
FinishFailed ==
  /\ report' = "failed"
  /\ owed' \in {owed, {}}
  /\ UNCHANGED <<source, target>>

Next ==
  \/ Publish \/ Begin \/ Learn \/ Copy \/ FinishSynced \/ NothingToDo \/ FinishFailed

Spec == Init /\ [][Next]_mirrorVars

-----------------------------------------------------------------------------
(* What that comes to. *)

\* Nothing is made up: the target has only charts of the source, and none is owed
\* that is not published.
NothingInvented == owed \subseteq source /\ target \subseteq source /\ source \subseteq Charts

\* A target lacks nothing of what the last run owed, if that run was synced.
SyncedLacksNothing == report = "synced" => owed \subseteq target
==============================================================================
