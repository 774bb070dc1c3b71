-------------------------- MODULE ChartMirrorProofs ---------------------------
(* What holds of every specification that implements ChartMirror. *)
EXTENDS ChartMirror, TLAPS

\* Whatever runs are interrupted or fail: the target has only charts of the source.
THEOREM NothingInventedTheorem == Spec => []NothingInvented
<1>1. Init => NothingInvented
  BY DEF Init, NothingInvented
<1>2. NothingInvented /\ [Next]_mirrorVars => NothingInvented'
  BY DEF NothingInvented, Next, Publish, Begin, Learn, Copy, FinishSynced, NothingToDo,
     FinishFailed, mirrorVars
<1> QED
  BY <1>1, <1>2, PTL DEF Spec

\* Once synced, what a run owed stays in the target until the next run.
THEOREM SyncedLacksNothingTheorem == Spec => []SyncedLacksNothing
<1>1. Init => SyncedLacksNothing
  BY DEF Init, SyncedLacksNothing
<1>2. SyncedLacksNothing /\ [Next]_mirrorVars => SyncedLacksNothing'
  BY DEF SyncedLacksNothing, Next, Publish, Begin, Learn, Copy, FinishSynced, NothingToDo,
     FinishFailed, mirrorVars
<1> QED
  BY <1>1, <1>2, PTL DEF Spec
==============================================================================
