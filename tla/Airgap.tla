-------------------------------- MODULE Airgap -------------------------------
(***************************************************************************)
(* The two-step relocation of docs/airgap.md: export runs copy wrapped     *)
(* charts into a directory (repo kind LOCAL as the target), import runs    *)
(* push what the directory holds to a registry (LOCAL as the source).      *)
(*                                                                         *)
(* The directory is read once, when a run starts, by matching file names   *)
(* against versionRe; pkg/client/repo/local is modelled in full, the       *)
(* loading of the charts themselves in one step, with the charts it loses. *)
(***************************************************************************)
EXTENDS Integers, Sequences, FiniteSets, SequencesExt

CONSTANTS
  Segments,         \* hyphen-free pieces of names and versions
  Charts,           \* [name, version], as sequences of segments
  Triples,          \* those of the form 1.2.3
  Dated,            \* the choices of --from-date imports are run with
  MaxFaults,        \* bound on charts that fail to load, wrap or push
  MaxInterrupts,    \* bound on failed writes of wraps and killed runs
  Absent, Torn

File(r) == r.name \o r.version
Files == {File(c) : c \in Charts}

ASSUME AirgapAssumption ==
  /\ Charts \subseteq [name : Seq(Segments), version : Seq(Segments)] /\ IsFiniteSet(Charts)
  /\ \A c \in Charts : c.name # <<>> /\ c.version # <<>>
  /\ \A c, d \in Charts : File(c) = File(d) => c = d
  /\ Dated \subseteq BOOLEAN
  /\ MaxFaults \in Nat /\ MaxInterrupts \in Nat
  /\ Absent \notin Charts /\ Torn \notin Charts /\ Absent # Torn

VARIABLES
  source,      \* the charts of the connected repository
  dir,         \* the directory of wraps: what each file holds
  target,      \* the charts of the disconnected registry
  entries,     \* Repo.entries: the references read off the file names by New
  todo,        \* references the run has still to copy
  current,     \* the chart whose wrap is being written
  pc,          \* "idle", or where the run is
  errs,        \* whether an error was joined to errs
  dated,       \* whether the run was given a --from-date (after the Unix epoch)
  outcome,     \* how the last run ended
  exported,    \* history: the charts the last synced export was to provide
  owed,        \* history: the charts of the source when the export began
  faults, interrupts

vars == <<source, dir, target, entries, todo, current, pc, errs, dated, outcome, exported,
          owed, faults, interrupts>>

-----------------------------------------------------------------------------
(* repo/local: the directory read through versionRe. *)

\* (.*)-(\d+\.\d+\.\d+)(\.wrap)?\.tgz matches when the last segment is a triple
\* and something precedes it; the first group takes all the rest.
Matches(f) == Len(f) > 1 /\ Last(f) \in Triples

Parse_FirstHyphen(f) == [name |-> <<Head(f)>>, version |-> Tail(f)]
Parse(f) == [name |-> Front(f), version |-> <<Last(f)>>]

Present == {f \in Files : dir[f] # Absent}

\* New indexes the submatches of every file without looking whether there are any.
Panics == \E f \in Present : ~ Matches(f)

Scan == {Parse(f) : f \in Present}

\* Upload appends the version to the entries of the name.
Record_NameTwice(c) == entries' = entries \cup {[name |-> c.name, version |-> c.name]}
Record(c) == entries' = entries \cup {c}

JoinError_Warns == errs' = errs
JoinError == errs' = TRUE

-----------------------------------------------------------------------------
Init ==
  /\ source \in SUBSET Charts
  /\ dir = [f \in Files |-> Absent]
  /\ target = {}
  /\ entries = {} /\ todo = {} /\ current = Absent
  /\ pc = "idle" /\ errs = FALSE /\ dated = FALSE /\ outcome = "none"
  /\ exported = {} /\ owed = {}
  /\ faults = 0 /\ interrupts = 0

Publish ==
  /\ \E c \in Charts \ source : source' = source \cup {c}
  /\ UNCHANGED <<dir, target, entries, todo, current, pc, errs, dated, outcome, exported, owed,
                 faults, interrupts>>

Panic ==
  /\ pc = "idle"
  /\ Panics
  /\ outcome' = "panic"
  /\ UNCHANGED <<source, dir, target, entries, todo, current, pc, errs, dated, exported, owed,
                 faults, interrupts>>

\* loadCharts indexes the missing charts but those that could not be looked up,
\* checked or fetched. When nothing is indexed the run is over, whatever the
\* reason: ErrNoChartsToSync, which the command takes for success.
Load(missing, lost, step, nothing) ==
  /\ faults + Cardinality(lost) <= MaxFaults /\ faults' = faults + Cardinality(lost)
  /\ todo' = missing \ lost
  /\ errs' = (lost # {})
  /\ pc' = IF todo' = {} THEN "idle" ELSE step
  /\ outcome' = IF todo' = {} THEN nothing ELSE "running"

StartExport ==
  /\ pc = "idle"
  /\ ~ Panics
  /\ entries' = Scan
  /\ \E lost \in SUBSET (source \ entries') :
       Load(source \ entries', lost, "export", "nothingToExport")
  /\ owed' = source
  /\ exported' = IF todo' = {} /\ ~ errs' THEN owed' ELSE exported
  /\ dated' = FALSE
  /\ UNCHANGED <<source, dir, target, current, interrupts>>

\* Wrapping c fails.
ExportFails(c) ==
  /\ pc = "export" /\ c \in todo
  /\ faults < MaxFaults /\ faults' = faults + 1
  /\ todo' = todo \ {c} /\ JoinError
  /\ UNCHANGED <<source, dir, target, entries, current, pc, dated, outcome, exported, owed,
                 interrupts>>

\* Upload refuses a reference it has an entry for; WriteFile truncates, then writes.
OpenWrap(c) ==
  /\ pc = "export" /\ c \in todo
  /\ todo' = todo \ {c}
  /\ IF c \in entries
       THEN /\ JoinError
            /\ UNCHANGED <<dir, current, pc>>
       ELSE /\ dir' = [dir EXCEPT ![File(c)] = Torn]
            /\ current' = c /\ pc' = "write"
            /\ UNCHANGED errs
  /\ UNCHANGED <<source, target, entries, dated, outcome, exported, owed, faults, interrupts>>

WriteDone ==
  /\ pc = "write" /\ pc' = "export"
  /\ dir' = [dir EXCEPT ![File(current)] = current]
  /\ Record(current)
  /\ current' = Absent
  /\ UNCHANGED <<source, target, todo, errs, dated, outcome, exported, owed, faults,
                 interrupts>>

\* WriteFile leaves what it wrote when it fails.
WriteFails ==
  /\ pc = "write" /\ pc' = "export"
  /\ interrupts < MaxInterrupts /\ interrupts' = interrupts + 1
  /\ JoinError
  /\ current' = Absent
  /\ UNCHANGED <<source, dir, target, entries, todo, dated, outcome, exported, owed, faults>>

\* A killed run leaves the directory and the registry as they are.
Kill ==
  /\ pc # "idle" /\ pc' = "idle"
  /\ interrupts < MaxInterrupts /\ interrupts' = interrupts + 1
  /\ todo' = {} /\ current' = Absent
  /\ outcome' = "dead"
  /\ UNCHANGED <<source, dir, target, entries, errs, dated, exported, owed, faults>>

FinishExport ==
  /\ pc = "export" /\ todo = {}
  /\ pc' = "idle"
  /\ outcome' = IF errs THEN "failed" ELSE "exported"
  /\ exported' = IF errs THEN exported ELSE owed
  /\ UNCHANGED <<source, dir, target, entries, todo, current, errs, dated, owed, faults,
                 interrupts>>

\* A LOCAL source dates every chart at the Unix epoch: a run with a --from-date
\* after it leaves all of them out.
TooOld == dated'

StartImport ==
  /\ pc = "idle"
  /\ ~ Panics
  /\ dated' \in Dated
  /\ entries' = Scan
  /\ LET missing == {r \in entries' : ~ TooOld /\ r \notin target}
     IN \E lost \in SUBSET missing : Load(missing, lost, "import", "nothingToImport")
  /\ UNCHANGED <<source, dir, target, current, exported, owed, interrupts>>

\* The wrap is pushed under the name and version of the chart inside it.
Unwrap(r) ==
  /\ pc = "import" /\ r \in todo
  /\ todo' = todo \ {r}
  /\ IF dir[File(r)] \in Charts
       THEN target' = target \cup {dir[File(r)]} /\ UNCHANGED errs
       ELSE JoinError /\ UNCHANGED target
  /\ UNCHANGED <<source, dir, entries, current, pc, dated, outcome, exported, owed, faults,
                 interrupts>>

ImportFails(r) ==
  /\ pc = "import" /\ r \in todo
  /\ faults < MaxFaults /\ faults' = faults + 1
  /\ todo' = todo \ {r} /\ JoinError
  /\ UNCHANGED <<source, dir, target, entries, current, pc, dated, outcome, exported, owed,
                 interrupts>>

FinishImport ==
  /\ pc = "import" /\ todo = {}
  /\ pc' = "idle"
  /\ outcome' = IF errs THEN "failed" ELSE "imported"
  /\ UNCHANGED <<source, dir, target, entries, todo, current, errs, dated, exported, owed, faults,
                 interrupts>>

ExportStep ==
  \/ \E c \in Charts : ExportFails(c) \/ OpenWrap(c)
  \/ WriteDone \/ WriteFails \/ FinishExport

ImportStep ==
  \/ \E f \in Files : Unwrap(Parse(f)) \/ ImportFails(Parse(f))
  \/ FinishImport

Next ==
  Publish \/ Panic \/ StartExport \/ ExportStep \/ StartImport \/ ImportStep \/ Kill

Spec == Init /\ [][Next]_vars

-----------------------------------------------------------------------------
(* Properties. *)

\* Every variable stays in its type: in particular what Upload records is the
\* reference of a file in the directory, as New would read it off its name.
TypeOK ==
  /\ source \in SUBSET Charts /\ target \in SUBSET Charts
  /\ dir \in [Files -> Charts \cup {Absent, Torn}]
  /\ \A r \in entries : File(r) \in Present
  /\ \A r \in todo : r \in entries \/ r \in source
  /\ current \in Charts \cup {Absent}
  /\ pc \in {"idle", "export", "write", "import"}
  /\ pc = "write" <=> current # Absent
  /\ errs \in BOOLEAN /\ dated \in BOOLEAN
  /\ outcome \in {"none", "running", "exported", "imported", "nothingToExport",
                  "nothingToImport", "failed", "dead", "panic"}
  /\ exported \in SUBSET Charts /\ owed \in SUBSET Charts
  /\ faults \in 0..MaxFaults /\ interrupts \in 0..MaxInterrupts

\* A run started on a directory charts-syncer itself filled does not panic.
NoPanic == outcome # "panic"

\* End to end: an import without errors has brought to the registry every chart
\* of the last export without errors, whatever earlier runs left torn. That holds
\* of an import that found nothing to do as well, but not of one with a
\* --from-date, which finds nothing to do in any directory.
Relocated ==
  outcome \in {"imported", "nothingToImport"} /\ ~ errs /\ ~ dated =>
    exported \subseteq target

\* What New reads off a file name is the chart the file holds, so that the
\* comparison with the other side's charts is about the chart that is copied.
NamesTellCharts ==
  \A f \in Present : Matches(f) /\ dir[f] \in Charts => Parse(f) = dir[f]

\* The two steps as mirrors, the charts in the directory, whole or torn, being the
\* target of the one and the source of the other. Of a run of the other kind
\* each says no more than of a failed one.
Wrapped == {c \in Charts : File(c) \in Present}

Report(running, ended) ==
  IF outcome = "none" THEN "never"
  ELSE IF pc \in running THEN "running"
  ELSE IF outcome \in ended /\ ~ errs THEN "synced"
  ELSE "failed"

ExportReport == Report({"export", "write"}, {"exported", "nothingToExport"})
ImportReport == Report({"import"}, {"imported", "nothingToImport"})

ExportOwed == IF ExportReport = "failed" THEN {} ELSE owed
ImportOwed == IF ImportReport = "failed" \/ dated THEN {} ELSE entries \cap Charts

ExportMirror ==
  INSTANCE ChartMirror WITH target <- Wrapped, owed <- ExportOwed, report <- ExportReport

ImportMirror ==
  INSTANCE ChartMirror WITH source <- Wrapped, owed <- ImportOwed, report <- ImportReport

\* An export writes wraps of missing charts only, each under a name of its own,
\* and is synced when it says so, whatever the directory held before.
ImplementsExportMirror == ExportMirror!Spec

\* An import pushes only what the directory held when it began, as read off the
\* file names, and is synced when it says so; a dated one owes nothing.
ImplementsImportMirror == ImportMirror!Spec
==============================================================================
