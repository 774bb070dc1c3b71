----------------------------- MODULE AirgapProofs ----------------------------
(* Theorems about Airgap, for any charts and any number of runs.             *)
EXTENDS Airgap, TLAPS, FiniteSetTheorems, SequenceTheorems

\* A version that ends in a segment like 1.2.3 is that segment.
PlainVersions == \A c \in Charts : Last(c.version) \in Triples => Len(c.version) = 1

References == [name : Seq(Segments), version : Seq(Segments)]

LEMMA FileType ==
  /\ \A r \in References : File(r) \in Seq(Segments)
  /\ Charts \subseteq References /\ Files \subseteq Seq(Segments)
<1>1. \A r \in References : File(r) \in Seq(Segments)
  BY DEF References, File
<1>2. Charts \subseteq References
  BY AirgapAssumption DEF References
<1> QED
  BY <1>1, <1>2 DEF Files

\* Read off a file name that matches, and written again, a reference is the name.
LEMMA ParseFile ==
  ASSUME NEW f \in Seq(Segments), Matches(f)
  PROVE  /\ Parse(f) \in References /\ File(Parse(f)) = f
<1>1. Len(f) \in Nat /\ Len(f) > 1
  BY DEF Matches
<1>2. Front(f) \in Seq(Segments) /\ <<Last(f)>> \in Seq(Segments)
  BY <1>1 DEF Front, Last
<1>3. Front(f) \o <<Last(f)>> = f
  BY <1>1 DEF Front, Last
<1> QED
  BY <1>2, <1>3 DEF Parse, File, References

LEMMA FrontConcat ==
  ASSUME NEW S, NEW s \in Seq(S), NEW t \in Seq(S), Len(t) = 1
  PROVE  Front(s \o t) = s
<1>1. Len(s) \in Nat /\ Len(s \o t) = Len(s) + 1 /\ s \o t \in Seq(S)
  <2>1. s \o t \in Seq(S) /\ Len(s \o t) = Len(s) + Len(t)
    BY ConcatProperties, Zenon
  <2>2. Len(s) \in Nat
    BY LenProperties, Zenon
  <2> QED
    BY <2>1, <2>2, Zenon
<1>2. Len(s) + 1 - 1 = Len(s)
  BY <1>1
<1>3. SubSeq(s \o t, 1, Len(s)) = s
  OBVIOUS
<1> QED
  BY <1>1, <1>2, <1>3 DEF Front

LEMMA LastOfConcat ==
  ASSUME NEW S, NEW s \in Seq(S), NEW t \in Seq(S), s # <<>>, t # <<>>
  PROVE  Len(s \o t) > 1 /\ Last(s \o t) = Last(t)
<1> DEFINE m == Len(s)
           n == Len(t)
<1>1. m \in Nat \ {0} /\ n \in Nat \ {0}
  BY LenProperties, EmptySeq
<1>2. Len(s \o t) = m + n
  BY ConcatProperties, Zenon
<1>3. \A i \in 1..(m + n) : (s \o t)[i] = IF i <= m THEN s[i] ELSE t[i - m]
  BY ConcatProperties, Zenon
<1>4. m + n > 1 /\ m + n \in 1..(m + n) /\ ~ (m + n <= m) /\ (m + n) - m = n
  <2> HIDE DEF m, n
  <2> QED
    BY <1>1
<1>5. (s \o t)[m + n] = t[n]
  <2> HIDE DEF m, n
  <2> QED
    BY <1>3, <1>4
<1> QED
  BY <1>2, <1>4, <1>5, Zenon DEF Last

\* Under the hypothesis a file name that matches tells the chart it was made of.
LEMMA ParseChart ==
  ASSUME PlainVersions, NEW c \in Charts, Matches(File(c))
  PROVE  Parse(File(c)) = c
<1>1. c.name \in Seq(Segments) /\ c.version \in Seq(Segments) /\ c.version # <<>>
      /\ c = [name |-> c.name, version |-> c.version]
  BY AirgapAssumption
<1>2. Last(File(c)) = Last(c.version)
  BY <1>1 DEF File, Last
<1>3. Len(c.version) = 1 /\ c.version = <<Last(c.version)>>
  BY <1>1, <1>2 DEF Matches, PlainVersions, Last
<1>4. Front(File(c)) = c.name
  BY <1>1, <1>3, FrontConcat DEF File
<1> QED
  BY <1>1, <1>2, <1>3, <1>4 DEF Parse
-----------------------------------------------------------------------------
(* Types. *)

EntriesType == entries \subseteq References

\* The values a function takes on a finite set are finitely many.
LEMMA ImageFinite ==
  ASSUME NEW S, IsFiniteSet(S), NEW T, NEW f \in [S -> T], \A t \in T : \E s \in S : f[s] = t
  PROVE  IsFiniteSet(T)
<1>1. f \in Surjection(S, T)
  BY Zenon DEF Surjection
<1> QED
  BY <1>1, FS_Surjection, Zenon

LEMMA FilesFinite == IsFiniteSet(Files)
<1> DEFINE f == [c \in Charts |-> File(c)]
<1>1. f \in [Charts -> Files] /\ \A t \in Files : \E c \in Charts : f[c] = t
  BY Zenon DEF Files
<1>2. IsFiniteSet(Charts)
  BY AirgapAssumption
<1> HIDE DEF f
<1> QED
  BY <1>1, <1>2, ImageFinite

LEMMA ScanFinite == IsFiniteSet(Scan)
<1> DEFINE f == [x \in Present |-> Parse(x)]
<1>1. f \in [Present -> Scan] /\ \A t \in Scan : \E x \in Present : f[x] = t
  BY Zenon DEF Scan
<1>2. IsFiniteSet(Present)
  BY FilesFinite, FS_Subset DEF Present
<1> HIDE DEF f
<1> QED
  BY <1>1, <1>2, ImageFinite

\* What a scan finds are references of files that are there.
LEMMA ScanType ==
  ASSUME ~ Panics
  PROVE  /\ Scan \subseteq References /\ \A r \in Scan : File(r) \in Present
<1>1. Present \subseteq Files /\ \A f \in Present : Matches(f) /\ f \in Seq(Segments)
  BY FileType DEF Panics, Present
<1> QED
  BY <1>1, ParseFile DEF Scan

\* Loading counts the charts it loses.
LEMMA LoadType ==
  ASSUME TypeOK, NEW missing, IsFiniteSet(missing), NEW lost \in SUBSET missing,
         NEW step, NEW nothing, Load(missing, lost, step, nothing)
  PROVE  /\ faults' \in 0..MaxFaults /\ errs' \in BOOLEAN /\ todo' \subseteq missing
         /\ pc' \in {"idle", step} /\ outcome' \in {"running", nothing}
<1>1. Cardinality(lost) \in Nat
  BY FS_Subset, FS_CardinalityType
<1>2. faults' \in 0..MaxFaults
  BY <1>1, AirgapAssumption DEF Load, TypeOK
<1>3. errs' \in BOOLEAN
  BY Zenon DEF Load
<1>4. todo' \subseteq missing
  BY Zenon DEF Load
<1>5. pc' \in {"idle", step} /\ outcome' \in {"running", nothing}
  BY Zenon DEF Load
<1> QED
  BY <1>2, <1>3, <1>4, <1>5

\* A run goes on exactly when something was indexed.
LEMMA LoadOutcome ==
  ASSUME NEW missing, NEW lost \in SUBSET missing, NEW step \in {"export", "import"},
         NEW nothing, Load(missing, lost, step, nothing)
  PROVE  /\ \/ pc' = "idle" /\ todo' = {} /\ outcome' = nothing
            \/ pc' = step /\ outcome' = "running"
         /\ errs' \/ todo' = missing
<1>1. errs' \/ lost = {}
  BY Zenon DEF Load
<1>2. todo' = missing \ lost
  BY Zenon DEF Load
<1>3. \/ pc' = "idle" /\ todo' = {} /\ outcome' = nothing
      \/ pc' = step /\ outcome' = "running"
  BY Zenon DEF Load
<1> QED
  BY <1>1, <1>2, <1>3

\* TypeOK in three parts, the last two for the flags and the counters.
DataOK ==
  /\ source \in SUBSET Charts /\ target \in SUBSET Charts
  /\ dir \in [Files -> Charts \cup {Absent, Torn}]
  /\ \A r \in entries : File(r) \in Present
  /\ \A r \in todo : r \in entries \/ r \in source
  /\ current \in Charts \cup {Absent}
  /\ pc \in {"idle", "export", "write", "import"}
  /\ pc = "write" <=> current # Absent
  /\ outcome \in {"none", "running", "exported", "imported", "nothingToExport",
                  "nothingToImport", "failed", "dead", "panic"}
  /\ exported \in SUBSET Charts /\ owed \in SUBSET Charts
  /\ entries \subseteq References
FlagsOK == errs \in BOOLEAN /\ dated \in BOOLEAN
CountersOK == faults \in 0..MaxFaults /\ interrupts \in 0..MaxInterrupts

LEMMA TypeParts ==
  /\ (TypeOK /\ EntriesType) <=> (DataOK /\ FlagsOK /\ CountersOK)
  /\ (TypeOK /\ EntriesType)' <=> (DataOK /\ FlagsOK /\ CountersOK)'
  BY Zenon DEF TypeOK, EntriesType, DataOK, FlagsOK, CountersOK

LEMMA TypeInit == Init => TypeOK /\ EntriesType
<1> SUFFICES ASSUME Init PROVE DataOK /\ FlagsOK /\ CountersOK
  BY TypeParts
<1>1. DataOK
  BY AirgapAssumption DEF Init, DataOK
<1>2. FlagsOK
  BY Zenon DEF Init, FlagsOK
<1>3. CountersOK
  BY AirgapAssumption DEF Init, CountersOK
<1> QED
  BY <1>1, <1>2, <1>3

LEMMA FlagsNext == TypeOK /\ [Next]_vars => FlagsOK'
<1> SUFFICES ASSUME TypeOK, [Next]_vars PROVE FlagsOK'
  OBVIOUS
<1> USE DEF FlagsOK
<1>0. errs \in BOOLEAN /\ dated \in BOOLEAN /\ Dated \subseteq BOOLEAN
  BY AirgapAssumption, Zenon DEF TypeOK
<1>1. CASE Publish \/ Panic \/ Kill
  BY <1>0, <1>1, Zenon DEF Publish, Panic, Kill
<1>2. CASE StartExport
  BY <1>2, Zenon DEF StartExport, Load
<1>3. CASE StartImport
  BY <1>0, <1>3, Zenon DEF StartImport, Load
<1>4. CASE WriteDone \/ WriteFails
  BY <1>0, <1>4, Zenon DEF WriteDone, WriteFails, JoinError
<1>5. CASE FinishExport \/ FinishImport
  BY <1>0, <1>5, Zenon DEF FinishExport, FinishImport
<1>6. ASSUME NEW c \in Charts, ExportFails(c) \/ OpenWrap(c) PROVE FlagsOK'
  BY <1>0, <1>6, Zenon DEF ExportFails, OpenWrap, JoinError
<1>7. ASSUME NEW r, Unwrap(r) \/ ImportFails(r) PROVE FlagsOK'
  BY <1>0, <1>7, Zenon DEF Unwrap, ImportFails, JoinError
<1>8. CASE UNCHANGED vars
  BY <1>0, <1>8, Zenon DEF vars
<1> QED
  BY <1>1, <1>2, <1>3, <1>4, <1>5, <1>6, <1>7, <1>8 DEF Next, ExportStep, ImportStep

LEMMA TypeNext == TypeOK /\ EntriesType /\ [Next]_vars => TypeOK' /\ EntriesType'
<1> SUFFICES ASSUME TypeOK, EntriesType, [Next]_vars PROVE (DataOK /\ CountersOK)'
  BY TypeParts, FlagsNext
<1>a. /\ MaxFaults \in Nat /\ MaxInterrupts \in Nat
      /\ Absent \notin Charts /\ Torn \notin Charts /\ Absent # Torn
      /\ Charts \subseteq References /\ \A c \in Charts : File(c) \in Files
  BY AirgapAssumption, FileType DEF Files
<1>b. DataOK /\ CountersOK
  BY TypeParts
<1> USE DEF DataOK, CountersOK, Present
<1>1. CASE Publish \/ Panic
  BY <1>1, <1>b DEF Publish, Panic
<1>2. CASE StartExport
  <2>1. PICK lost \in SUBSET (source \ Scan) :
          Load(source \ Scan, lost, "export", "nothingToExport")
    BY <1>2 DEF StartExport
  <2>2. IsFiniteSet(source \ Scan)
    BY <1>b, AirgapAssumption, FS_Subset
  <2>3. /\ faults' \in 0..MaxFaults /\ todo' \subseteq source
        /\ pc' \in {"idle", "export"} /\ outcome' \in {"running", "nothingToExport"}
    BY <2>1, <2>2, LoadType
  <2>4. /\ ~ Panics /\ entries' = Scan /\ pc = "idle"
        /\ UNCHANGED <<source, dir, target, current, interrupts>>
        /\ owed' = source /\ exported' \in {source, exported}
    BY <1>2, Zenon DEF StartExport
  <2>5. Scan \subseteq References /\ \A r \in Scan : File(r) \in Present
    BY <2>4, ScanType
  <2> QED
    BY <2>3, <2>4, <2>5, <1>b
<1>3. CASE StartImport
  <2> DEFINE missing == {r \in Scan : ~ dated' /\ r \notin target}
  <2>1. PICK lost \in SUBSET missing : Load(missing, lost, "import", "nothingToImport")
    BY <1>3 DEF StartImport, TooOld
  <2>2. /\ ~ Panics /\ entries' = Scan /\ pc = "idle"
        /\ UNCHANGED <<source, dir, target, current, exported, owed, interrupts>>
    BY <1>3, Zenon DEF StartImport
  <2>3. Scan \subseteq References /\ \A r \in Scan : File(r) \in Present
    BY <2>2, ScanType
  <2>4. missing \subseteq Scan
    OBVIOUS
  <2> HIDE DEF missing
  <2>5. IsFiniteSet(missing)
    BY <2>4, ScanFinite, FS_Subset
  <2>6. /\ faults' \in 0..MaxFaults /\ todo' \subseteq Scan
        /\ pc' \in {"idle", "import"} /\ outcome' \in {"running", "nothingToImport"}
    BY <2>1, <2>4, <2>5, LoadType
  <2> QED
    BY <2>2, <2>3, <2>6, <1>b
<1>4. ASSUME NEW c \in Charts, ExportFails(c) PROVE (DataOK /\ CountersOK)'
  BY <1>4, <1>a, <1>b DEF ExportFails
<1>5. ASSUME NEW c \in Charts, OpenWrap(c) PROVE (DataOK /\ CountersOK)'
  <2>1. CASE c \in entries
    BY <1>5, <2>1, <1>b DEF OpenWrap
  <2>2. CASE c \notin entries
    BY <1>5, <2>2, <1>a, <1>b DEF OpenWrap
  <2> QED
    BY <2>1, <2>2
<1>6. CASE WriteDone
  BY <1>6, <1>a, <1>b DEF WriteDone, Record
<1>7. CASE WriteFails
  BY <1>7, <1>a, <1>b DEF WriteFails
<1>8. CASE Kill
  BY <1>8, <1>a, <1>b DEF Kill
<1>9. CASE FinishExport \/ FinishImport
  BY <1>9, <1>a, <1>b DEF FinishExport, FinishImport
<1>10. ASSUME NEW r, Unwrap(r) PROVE (DataOK /\ CountersOK)'
  BY <1>10, <1>a, <1>b DEF Unwrap
<1>11. ASSUME NEW r, ImportFails(r) PROVE (DataOK /\ CountersOK)'
  BY <1>11, <1>a, <1>b DEF ImportFails
<1>12. CASE UNCHANGED vars
  BY <1>12, <1>b DEF vars
<1> QED
  BY <1>1, <1>2, <1>3, <1>4, <1>5, <1>6, <1>7, <1>8, <1>9, <1>10, <1>11, <1>12
     DEF Next, ExportStep, ImportStep

\* The type invariant holds for all charts and bounds: what the directory is
\* taken to hold are references of files that are in it.
THEOREM TypeCorrect == Spec => []TypeOK
<1>1. TypeOK /\ EntriesType /\ [Next]_vars => (TypeOK /\ EntriesType)'
  BY TypeNext
<1> QED
  BY <1>1, TypeInit, PTL DEF Spec
-----------------------------------------------------------------------------
(* Relocation. *)

\* A file holds the chart it is named after, or is cut short.
FilesTell == \A f \in Files : dir[f] \in Charts => File(dir[f]) = f

\* A chart an export owes is in a file, still to be written, or an error was joined.
Exporting ==
  pc \in {"export", "write"} =>
    outcome = "running" /\ \A c \in owed : errs \/ c \in todo \/ File(c) \in Present

\* What an export was to provide has a file ever after, be it cut short.
Provided == \A c \in exported : File(c) \in Present

\* An import has copied what was exported, is still to copy it, or joined an error.
Importing ==
  pc = "import" =>
    /\ outcome = "running"
    /\ ~ dated => \A c \in exported : errs \/ c \in todo \/ c \in target

RelocationInv == FilesTell /\ Exporting /\ Provided /\ Importing /\ Relocated

LEMMA RelocationInit == Init => RelocationInv
  BY AirgapAssumption DEF Init, RelocationInv, FilesTell, Exporting, Provided, Importing,
     Relocated

LEMMA RelocationNext ==
  ASSUME PlainVersions, TypeOK, TypeOK', EntriesType, RelocationInv, [Next]_vars
  PROVE  RelocationInv'
<1>a. /\ Absent \notin Charts /\ Torn \notin Charts /\ Absent # Torn
      /\ \A c, d \in Charts : File(c) = File(d) => c = d
      /\ \A c \in Charts : File(c) \in Files
  BY AirgapAssumption DEF Files
<1>b. /\ dir \in [Files -> Charts \cup {Absent, Torn}]
      /\ source \subseteq Charts /\ exported \subseteq Charts /\ owed \subseteq Charts
  BY DEF TypeOK
<1>c. ~ Panics => \A c \in Charts : File(c) \in Present <=> c \in Scan
  <2>1. ASSUME ~ Panics, NEW c \in Charts, File(c) \in Present PROVE c \in Scan
    BY <2>1, ParseChart DEF Panics, Scan
  <2>2. ASSUME ~ Panics, NEW c \in Charts, c \in Scan PROVE File(c) \in Present
    BY <2>2, ScanType
  <2> QED
    BY <2>1, <2>2
<1> USE DEF RelocationInv
<1>1. CASE Publish \/ Panic
  BY <1>1 DEF Publish, Panic, FilesTell, Exporting, Provided, Importing, Relocated, Present
<1>2. CASE StartExport
  <2>1. PICK lost \in SUBSET (source \ Scan) :
          Load(source \ Scan, lost, "export", "nothingToExport")
    BY <1>2 DEF StartExport
  <2>3. /\ pc' \in {"idle", "export"} /\ outcome' \in {"running", "nothingToExport"}
        /\ pc' # "idle" => outcome' = "running"
        /\ ~ errs' => todo' = source \ Scan
    BY <2>1, LoadOutcome
  <2>4. /\ ~ Panics /\ owed' = source /\ UNCHANGED dir
        /\ exported' = IF todo' = {} /\ ~ errs' THEN owed' ELSE exported
    BY <1>2 DEF StartExport
  <2>5. Provided'
    BY <2>3, <2>4, <1>b, <1>c DEF Provided, Present
  <2>6. \A c \in owed' : errs' \/ c \in todo' \/ (File(c) \in Present)'
    BY <2>3, <2>4, <1>b, <1>c DEF Present
  <2> QED
    BY <2>3, <2>4, <2>5, <2>6 DEF FilesTell, Exporting, Importing, Relocated
<1>3. CASE StartImport
  <2> DEFINE missing == {r \in Scan : ~ dated' /\ r \notin target}
  <2>1. PICK lost \in SUBSET missing : Load(missing, lost, "import", "nothingToImport")
    BY <1>3 DEF StartImport, TooOld
  <2>2. ~ Panics /\ UNCHANGED <<dir, target, exported>>
    BY <1>3 DEF StartImport
  <2>4. /\ \/ pc' = "idle" /\ todo' = {} /\ outcome' = "nothingToImport"
           \/ pc' = "import" /\ outcome' = "running"
        /\ errs' \/ todo' = missing
    <3> HIDE DEF missing
    <3> QED
      BY <2>1, LoadOutcome
  <2>5. ~ dated' => \A c \in exported : errs' \/ c \in todo' \/ c \in target'
    BY <2>2, <2>4, <1>b, <1>c DEF Provided
  <2>6. Relocated' /\ Importing'
    <3> HIDE DEF missing
    <3> QED
      BY <2>2, <2>4, <2>5 DEF Relocated, Importing
  <2> QED
    BY <2>2, <2>4, <2>6 DEF FilesTell, Exporting, Provided, Present
<1>4. ASSUME NEW c \in Charts, ExportFails(c) PROVE RelocationInv'
  BY <1>4 DEF ExportFails, JoinError, FilesTell, Exporting, Provided, Importing, Relocated,
     Present
<1>5. ASSUME NEW c \in Charts, OpenWrap(c) PROVE RelocationInv'
  <2>1. /\ pc = "export" /\ pc' \in {"export", "write"} /\ todo' = todo \ {c}
        /\ UNCHANGED <<target, outcome, exported, owed, dated>> /\ (errs => errs')
    BY <1>5 DEF OpenWrap, JoinError
  <2>2. CASE c \in entries
    <3>1. errs' /\ UNCHANGED dir
      BY <1>5, <2>2 DEF OpenWrap, JoinError
    <3> QED
      BY <2>1, <3>1 DEF FilesTell, Exporting, Provided, Importing, Relocated, Present
  <2>3. CASE c \notin entries
    <3>1. dir' = [dir EXCEPT ![File(c)] = Torn] /\ errs' = errs
      BY <1>5, <2>3 DEF OpenWrap
    <3>2. Present' = Present \cup {File(c)}
      BY <3>1, <1>a, <1>b DEF Present
    <3>3. FilesTell'
      BY <3>1, <1>a, <1>b DEF FilesTell
    <3> QED
      BY <2>1, <3>1, <3>2, <3>3 DEF Exporting, Provided, Importing, Relocated
  <2> QED
    BY <2>2, <2>3
<1>6. CASE WriteDone
  <2>1. /\ pc = "write" /\ pc' = "export" /\ current \in Charts
        /\ dir' = [dir EXCEPT ![File(current)] = current]
        /\ UNCHANGED <<todo, target, errs, outcome, exported, owed, dated>>
    BY <1>6 DEF WriteDone, TypeOK
  <2>2. Present \subseteq Present' /\ FilesTell'
    BY <2>1, <1>a, <1>b DEF Present, FilesTell
  <2> QED
    BY <2>1, <2>2 DEF Exporting, Provided, Importing, Relocated
<1>7. CASE WriteFails \/ Kill
  BY <1>7 DEF WriteFails, Kill, JoinError, FilesTell, Exporting, Provided, Importing, Relocated,
     Present
<1>8. CASE FinishExport
  BY <1>8 DEF FinishExport, FilesTell, Exporting, Provided, Importing, Relocated, Present
<1>9. ASSUME NEW r, Unwrap(r) PROVE RelocationInv'
  <2>1. /\ pc = "import" /\ pc' = "import" /\ todo' = todo \ {r}
        /\ UNCHANGED <<dir, outcome, exported, owed, dated>>
        /\ target \subseteq target' /\ (errs => errs')
    BY <1>9 DEF Unwrap, JoinError
  <2>2. r \in exported => r \in target' \/ errs'
    <3>1. r \in exported => r \in Charts /\ File(r) \in Files
      BY <1>a, <1>b
    <3>2. CASE dir[File(r)] \in Charts
      BY <1>9, <3>1, <3>2, <1>a DEF Unwrap, FilesTell
    <3>3. CASE dir[File(r)] \notin Charts
      BY <1>9, <3>3 DEF Unwrap, JoinError
    <3> QED
      BY <3>2, <3>3
  <2> QED
    BY <2>1, <2>2 DEF FilesTell, Exporting, Provided, Importing, Relocated, Present
<1>10. ASSUME NEW r, ImportFails(r) PROVE RelocationInv'
  BY <1>10 DEF ImportFails, JoinError, FilesTell, Exporting, Provided, Importing, Relocated,
     Present
<1>11. CASE FinishImport
  BY <1>11 DEF FinishImport, FilesTell, Exporting, Provided, Importing, Relocated, Present
<1>12. CASE UNCHANGED vars
  BY <1>12 DEF vars, FilesTell, Exporting, Provided, Importing, Relocated, Present
<1> QED
  BY <1>1, <1>2, <1>3, <1>4, <1>5, <1>6, <1>7, <1>8, <1>9, <1>10, <1>11, <1>12
     DEF Next, ExportStep, ImportStep

AirgapInv == TypeOK /\ EntriesType /\ RelocationInv

LEMMA AirgapInvariant ==
  ASSUME PlainVersions
  PROVE  (Init => AirgapInv) /\ (AirgapInv /\ [Next]_vars => AirgapInv')
  BY TypeInit, TypeNext, RelocationInit, RelocationNext DEF AirgapInv

\* However many exports and imports are interrupted or fail in between: an undated
\* import without errors completes the last export without errors.
THEOREM RelocatedTheorem ==
  ASSUME PlainVersions
  PROVE  Spec => []Relocated
<1>1. AirgapInv => Relocated
  BY DEF AirgapInv, RelocationInv
<1> QED
  BY <1>1, AirgapInvariant, PTL DEF Spec

\* And the chart New reads off a file name that matches is the one the file holds.
THEOREM NamesTellChartsTheorem ==
  ASSUME PlainVersions
  PROVE  Spec => []NamesTellCharts
<1>1. AirgapInv => NamesTellCharts
  BY ParseChart DEF AirgapInv, RelocationInv, FilesTell, NamesTellCharts, Present
<1> QED
  BY <1>1, AirgapInvariant, PTL DEF Spec
-----------------------------------------------------------------------------
(* The two steps as mirrors. *)

\* What an export has still to copy it owes, and no file has it; the chart it is
\* writing has one.
StillMissing ==
  /\ pc \in {"export", "write"} => \A c \in todo : c \in owed /\ File(c) \notin Present
  /\ pc = "write" => File(current) \in Present

\* An import works, undated, through charts it read off the file names, and forgets
\* none of them.
StillToPush ==
  pc = "import" =>
    /\ ~ dated /\ todo \subseteq entries /\ entries \subseteq Charts
    /\ \A c \in entries : errs \/ c \in todo \/ c \in target

\* Where New does not panic, the references it reads are the charts with a file.
LEMMA ScanTells ==
  ASSUME PlainVersions, ~ Panics
  PROVE  Scan = Wrapped
<1>1. ASSUME NEW r \in Scan PROVE r \in Wrapped
  <2>1. PICK f \in Present : r = Parse(f)
    BY DEF Scan
  <2>2. PICK c \in Charts : f = File(c)
    BY <2>1 DEF Present, Files
  <2> QED
    BY <2>1, <2>2, ParseChart DEF Panics, Wrapped
<1>2. ASSUME NEW c \in Wrapped PROVE c \in Scan
  <2>1. c \in Charts /\ File(c) \in Present
    BY DEF Wrapped
  <2> QED
    BY <2>1, ParseChart DEF Panics, Scan
<1> QED
  BY <1>1, <1>2

\* A wrap that is opened adds one chart to the directory, one that is finished none.
LEMMA WrappedNext ==
  ASSUME dir \in [Files -> Charts \cup {Absent, Torn}],
         NEW c \in Charts, NEW x \in Charts \cup {Torn}, dir' = [dir EXCEPT ![File(c)] = x]
  PROVE  /\ Wrapped' = Wrapped \cup {c}
         /\ Present' = Present \cup {File(c)}
<1>1. File(c) \in Files /\ x # Absent
  BY AirgapAssumption DEF Files
<1>2. Present' = Present \cup {File(c)}
  BY <1>1 DEF Present
<1>3. \A d \in Charts : File(d) = File(c) <=> d = c
  BY AirgapAssumption
<1> QED
  BY <1>2, <1>3 DEF Wrapped

LEMMA StillMissingNext ==
  ASSUME PlainVersions, TypeOK, StillMissing, [Next]_vars
  PROVE  StillMissing'
<1>a. /\ dir \in [Files -> Charts \cup {Absent, Torn}]
      /\ pc = "write" <=> current # Absent
      /\ current \in Charts \cup {Absent}
      /\ source \subseteq Charts
  BY DEF TypeOK
<1>b. Absent \notin Charts
  BY AirgapAssumption
<1> USE DEF StillMissing
<1>1. CASE Publish \/ Panic
  BY <1>1 DEF Publish, Panic, Present
<1>2. CASE StartExport
  <2>1. PICK lost \in SUBSET (source \ Scan) :
          Load(source \ Scan, lost, "export", "nothingToExport")
    BY <1>2 DEF StartExport
  <2>2. ~ Panics /\ owed' = source /\ UNCHANGED dir
    BY <1>2 DEF StartExport
  <2>3. pc' \in {"idle", "export"} /\ todo' \subseteq source \ Scan
    BY <2>1, Zenon DEF Load
  <2> QED
    BY <2>2, <2>3, <1>a, ScanTells DEF Wrapped, Present
<1>3. CASE StartImport
  <2>1. pc' \in {"idle", "import"}
    BY <1>3, Zenon DEF StartImport, Load
  <2> QED
    BY <2>1
<1>4. ASSUME NEW c \in Charts, ExportFails(c) PROVE StillMissing'
  BY <1>4 DEF ExportFails, Present
<1>5. ASSUME NEW c \in Charts, OpenWrap(c) PROVE StillMissing'
  <2>1. /\ pc = "export" /\ todo' = todo \ {c} /\ UNCHANGED owed
        /\ \/ UNCHANGED <<dir, current, pc>>
           \/ dir' = [dir EXCEPT ![File(c)] = Torn] /\ current' = c /\ pc' = "write"
    BY <1>5 DEF OpenWrap
  <2>2. CASE UNCHANGED <<dir, current, pc>>
    BY <2>1, <2>2 DEF Present
  <2>3. CASE dir' = [dir EXCEPT ![File(c)] = Torn] /\ current' = c /\ pc' = "write"
    <3>1. Present' = Present \cup {File(c)}
      BY <2>3, <1>a, WrappedNext
    <3>2. \A d \in todo' : d \in Charts /\ d # c /\ File(d) # File(c)
      BY <2>1, <1>a, AirgapAssumption DEF TypeOK
    <3> QED
      BY <2>1, <2>3, <3>1, <3>2
  <2> QED
    BY <2>1, <2>2, <2>3
<1>6. CASE WriteDone
  <2>1. /\ pc = "write" /\ pc' = "export" /\ current \in Charts
        /\ dir' = [dir EXCEPT ![File(current)] = current] /\ UNCHANGED <<todo, owed>>
    BY <1>6, <1>a DEF WriteDone
  <2>2. Present' = Present \cup {File(current)}
    BY <2>1, <1>a, WrappedNext
  <2> QED
    BY <2>1, <2>2
<1>7. CASE WriteFails \/ Kill
  BY <1>7 DEF WriteFails, Kill, Present
<1>8. CASE FinishExport \/ FinishImport
  BY <1>8 DEF FinishExport, FinishImport
<1>9. ASSUME NEW r, Unwrap(r) \/ ImportFails(r) PROVE StillMissing'
  BY <1>9 DEF Unwrap, ImportFails
<1>10. CASE UNCHANGED vars
  BY <1>10 DEF vars, Present
<1> QED
  BY <1>1, <1>2, <1>3, <1>4, <1>5, <1>6, <1>7, <1>8, <1>9, <1>10
     DEF Next, ExportStep, ImportStep

\* What an import unwraps is the chart its reference was read off.
LEMMA UnwrapsNamed ==
  ASSUME StillToPush, FilesTell, pc = "import", NEW r \in todo, dir[File(r)] \in Charts
  PROVE  dir[File(r)] = r
<1>1. r \in Charts /\ File(r) \in Files
  BY DEF StillToPush, Files
<1> QED
  BY <1>1, AirgapAssumption DEF FilesTell

LEMMA StillToPushNext ==
  ASSUME PlainVersions, StillToPush, FilesTell, TypeOK, [Next]_vars
  PROVE  StillToPush'
<1> USE DEF StillToPush
<1>1. CASE Publish \/ Panic
  BY <1>1 DEF Publish, Panic
<1>2. CASE StartExport
  <2>1. pc' \in {"idle", "export"}
    BY <1>2, Zenon DEF StartExport, Load
  <2> QED
    BY <2>1
<1>3. CASE StartImport
  <2> DEFINE missing == {r \in Scan : ~ dated' /\ r \notin target}
  <2>1. PICK lost \in SUBSET missing : Load(missing, lost, "import", "nothingToImport")
    BY <1>3 DEF StartImport, TooOld
  <2>2. entries' = Scan /\ Scan \subseteq Charts /\ UNCHANGED target
    BY <1>3, ScanTells DEF StartImport, Wrapped
  <2>3. missing \subseteq Scan /\ \A r \in Scan : dated' \/ r \in missing \/ r \in target
    OBVIOUS
  <2>4. dated' => missing = {}
    OBVIOUS
  <2> HIDE DEF missing
  <2>5. /\ pc' = "idle" \/ todo' # {}
        /\ todo' \subseteq missing /\ (errs' \/ todo' = missing)
    BY <2>1, Zenon DEF Load
  <2>6. pc' = "import" => ~ dated'
    BY <2>4, <2>5
  <2> QED
    BY <2>2, <2>3, <2>5, <2>6
<1>4. ASSUME NEW c \in Charts, ExportFails(c) \/ OpenWrap(c) PROVE StillToPush'
  BY <1>4 DEF ExportFails, OpenWrap
<1>5. CASE WriteDone \/ WriteFails \/ Kill
  BY <1>5 DEF WriteDone, WriteFails, Kill
<1>6. CASE FinishExport \/ FinishImport
  BY <1>6 DEF FinishExport, FinishImport
<1>7. ASSUME NEW r, Unwrap(r) PROVE StillToPush'
  <2>1. /\ pc = "import" /\ r \in todo /\ todo' = todo \ {r}
        /\ UNCHANGED <<entries, dated>> /\ target \subseteq target' /\ (errs => errs')
    BY <1>7 DEF Unwrap, JoinError
  <2>2. r \in target' \/ errs'
    BY <1>7, <2>1, UnwrapsNamed DEF Unwrap, JoinError
  <2> QED
    BY <2>1, <2>2
<1>8. ASSUME NEW r, ImportFails(r) PROVE StillToPush'
  BY <1>8 DEF ImportFails, JoinError
<1>9. CASE UNCHANGED vars
  BY <1>9 DEF vars
<1> QED
  BY <1>1, <1>2, <1>3, <1>4, <1>5, <1>6, <1>7, <1>8, <1>9 DEF Next, ExportStep, ImportStep

MirrorInv == AirgapInv /\ StillMissing /\ StillToPush

LEMMA MirrorInvariant ==
  ASSUME PlainVersions
  PROVE  (Init => MirrorInv) /\ (MirrorInv /\ [Next]_vars => MirrorInv')
<1>1. Init => StillMissing /\ StillToPush
  BY DEF Init, StillMissing, StillToPush
<1> QED
  BY <1>1, AirgapInvariant, StillMissingNext, StillToPushNext
     DEF MirrorInv, AirgapInv, RelocationInv

LEMMA ExportMirrorNext ==
  ASSUME PlainVersions, MirrorInv, [Next]_vars
  PROVE  [ExportMirror!Next]_(ExportMirror!mirrorVars)
<1> DEFINE Mapped == ExportMirror!Next \/ UNCHANGED ExportMirror!mirrorVars
<1> SUFFICES Mapped
  OBVIOUS
<1>a. /\ TypeOK /\ Exporting /\ Importing /\ StillMissing
      /\ dir \in [Files -> Charts \cup {Absent, Torn}]
      /\ pc = "write" <=> current # Absent
      /\ current \in Charts \cup {Absent}
      /\ source \subseteq Charts /\ owed \subseteq Charts
      /\ todo \subseteq Charts \/ pc # "export"
  BY DEF MirrorInv, AirgapInv, RelocationInv, TypeOK, StillMissing
<1>b. ASSUME UNCHANGED <<source, Wrapped, owed>>, ExportReport' = ExportReport
      PROVE  Mapped
  BY <1>b DEF ExportMirror!mirrorVars, ExportOwed
<1>c. ASSUME UNCHANGED <<source, Wrapped>>, ExportReport' = "failed"
      PROVE  Mapped
  BY <1>c DEF ExportMirror!Next, ExportMirror!FinishFailed, ExportOwed
<1>d. UNCHANGED dir => UNCHANGED Wrapped
  BY DEF Wrapped, Present
<1>e. /\ pc \in {"export", "write"} => ExportReport = "running" /\ ExportOwed = owed
      /\ pc' \in {"export", "write"} /\ outcome' # "none" =>
           ExportReport' = "running" /\ ExportOwed' = owed'
      /\ pc = "idle" => ExportReport # "running"
  BY <1>a DEF ExportReport, Report, ExportOwed, Exporting
<1>1. CASE Publish
  <2>1. ExportReport' = ExportReport /\ ExportOwed' = ExportOwed
    BY <1>1 DEF Publish, ExportReport, Report, ExportOwed
  <2> QED
    BY <1>1, <1>d, <2>1 DEF Publish, ExportMirror!Next, ExportMirror!Publish
<1>2. CASE Panic
  BY <1>2, <1>c, <1>d DEF Panic, ExportReport, Report
<1>3. CASE StartExport
  <2>1. PICK lost \in SUBSET (source \ Scan) :
          Load(source \ Scan, lost, "export", "nothingToExport")
    BY <1>3 DEF StartExport
  <2>2. /\ \/ pc' = "idle" /\ todo' = {} /\ outcome' = "nothingToExport"
           \/ pc' = "export" /\ outcome' = "running"
        /\ errs' \/ todo' = source \ Scan
    BY <2>1, LoadOutcome
  <2>3. /\ pc = "idle" /\ Scan = Wrapped /\ owed' = source
        /\ UNCHANGED <<source, target>> /\ UNCHANGED Wrapped
    BY <1>3, <1>d, ScanTells DEF StartExport
  <2>4. CASE pc' = "export" /\ outcome' = "running"
    <3>1. ExportReport # "running" /\ ExportReport' = "running" /\ ExportOwed' = source
      BY <1>e, <2>3, <2>4
    <3> QED
      BY <2>3, <3>1 DEF ExportMirror!Next, ExportMirror!Begin
  <2>5. CASE pc' = "idle" /\ todo' = {} /\ outcome' = "nothingToExport" /\ ~ errs'
    <3>1. ExportReport # "running" /\ ExportReport' = "synced" /\ ExportOwed' = source
      BY <1>e, <2>3, <2>5 DEF ExportReport, Report, ExportOwed
    <3>2. source \subseteq Wrapped
      BY <2>2, <2>3, <2>5
    <3> QED
      BY <2>3, <3>1, <3>2 DEF ExportMirror!Next, ExportMirror!NothingToDo
  <2>6. CASE pc' = "idle" /\ outcome' = "nothingToExport" /\ errs'
    BY <2>3, <2>6, <1>c DEF ExportReport, Report
  <2> QED
    BY <2>2, <2>4, <2>5, <2>6
<1>4. ASSUME NEW c \in Charts, ExportFails(c) PROVE Mapped
  BY <1>4, <1>a, <1>b, <1>d DEF ExportFails, ExportReport, Report
<1>5. ASSUME NEW c \in Charts, OpenWrap(c) PROVE Mapped
  <2>1. /\ pc = "export" /\ c \in owed /\ c \notin Wrapped
        /\ UNCHANGED <<source, owed, outcome>>
        /\ \/ UNCHANGED <<dir, pc>>
           \/ dir' = [dir EXCEPT ![File(c)] = Torn] /\ pc' = "write"
    BY <1>5, <1>a DEF OpenWrap, StillMissing, Wrapped
  <2>2. /\ ExportReport = "running" /\ ExportReport' = "running"
        /\ ExportOwed = owed /\ ExportOwed' = owed
    BY <2>1, <1>a, <1>e DEF Exporting
  <2>3. CASE UNCHANGED <<dir, pc>>
    BY <2>1, <2>2, <2>3, <1>b, <1>d
  <2>4. CASE dir' = [dir EXCEPT ![File(c)] = Torn] /\ pc' = "write"
    <3>1. Wrapped' = Wrapped \cup {c}
      BY <2>4, <1>a, WrappedNext
    <3> QED
      BY <2>1, <2>2, <3>1 DEF ExportMirror!Next, ExportMirror!Copy
  <2> QED
    BY <2>1, <2>3, <2>4
<1>6. CASE WriteDone
  <2>1. /\ pc = "write" /\ pc' = "export" /\ current \in Charts
        /\ dir' = [dir EXCEPT ![File(current)] = current]
        /\ UNCHANGED <<source, owed, outcome>>
    BY <1>6, <1>a DEF WriteDone
  <2>2. Wrapped' = Wrapped \cup {current}
    BY <2>1, <1>a, WrappedNext
  <2>3. current \in Wrapped
    BY <2>1, <1>a DEF StillMissing, Wrapped
  <2>4. ExportReport' = ExportReport
    BY <2>1, <1>a, <1>e DEF Exporting
  <2> QED
    BY <2>1, <2>2, <2>3, <2>4, <1>b
<1>7. CASE WriteFails
  BY <1>7, <1>a, <1>b, <1>d, <1>e DEF WriteFails, Exporting
<1>8. CASE Kill
  BY <1>8, <1>c, <1>d DEF Kill, ExportReport, Report
<1>9. CASE FinishExport
  <2>1. /\ pc = "export" /\ todo = {} /\ pc' = "idle" /\ errs' = errs
        /\ UNCHANGED <<source, owed>> /\ UNCHANGED Wrapped
        /\ outcome' = IF errs THEN "failed" ELSE "exported"
    BY <1>9, <1>d DEF FinishExport
  <2>2. CASE errs
    BY <2>1, <2>2, <1>c DEF ExportReport, Report
  <2>3. CASE ~ errs
    <3>1. ExportReport = "running" /\ ExportReport' = "synced"
      BY <2>1, <2>3, <1>e DEF ExportReport, Report
    <3>2. owed \subseteq Wrapped /\ ExportOwed = owed /\ ExportOwed' = owed
      BY <2>1, <2>3, <3>1, <1>a DEF Exporting, Wrapped, ExportOwed
    <3> QED
      BY <2>1, <3>1, <3>2 DEF ExportMirror!Next, ExportMirror!FinishSynced
  <2> QED
    BY <2>2, <2>3
<1>10. CASE StartImport
  <2>1. /\ pc' \in {"idle", "import"} /\ outcome' \in {"running", "nothingToImport"}
    BY <1>10, Zenon DEF StartImport, Load
  <2>2. UNCHANGED <<source, dir>>
    BY <1>10 DEF StartImport
  <2> QED
    BY <2>1, <2>2, <1>c, <1>d DEF ExportReport, Report
<1>11. ASSUME NEW r, Unwrap(r) \/ ImportFails(r) PROVE Mapped
  BY <1>11, <1>c, <1>d, <1>a DEF Unwrap, ImportFails, ExportReport, Report, Importing
<1>12. CASE FinishImport
  BY <1>12, <1>c, <1>d DEF FinishImport, ExportReport, Report
<1>13. CASE UNCHANGED vars
  BY <1>13, <1>b, <1>d DEF vars, ExportReport, Report
<1> QED
  BY <1>1, <1>2, <1>3, <1>4, <1>5, <1>6, <1>7, <1>8, <1>9, <1>10, <1>11, <1>12, <1>13
     DEF Next, ExportStep, ImportStep

LEMMA ImportMirrorNext ==
  ASSUME PlainVersions, MirrorInv, [Next]_vars
  PROVE  [ImportMirror!Next]_(ImportMirror!mirrorVars)
<1> DEFINE Mapped == ImportMirror!Next \/ UNCHANGED ImportMirror!mirrorVars
<1> SUFFICES Mapped
  OBVIOUS
<1>a. /\ TypeOK /\ Exporting /\ Importing /\ FilesTell /\ StillMissing /\ StillToPush
      /\ dir \in [Files -> Charts \cup {Absent, Torn}]
      /\ pc = "write" <=> current # Absent
      /\ current \in Charts \cup {Absent}
  BY DEF MirrorInv, AirgapInv, RelocationInv, TypeOK
<1>b. ASSUME UNCHANGED <<Wrapped, target, entries, dated>>, ImportReport' = ImportReport
      PROVE  Mapped
  BY <1>b DEF ImportMirror!mirrorVars, ImportOwed
<1>c. ASSUME UNCHANGED <<Wrapped, target>>, ImportReport' = "failed"
      PROVE  Mapped
  BY <1>c DEF ImportMirror!Next, ImportMirror!FinishFailed, ImportOwed
<1>d. UNCHANGED dir => UNCHANGED Wrapped
  BY DEF Wrapped, Present
<1>e. /\ pc \in {"export", "write"} =>
           /\ ImportReport = "failed" /\ ImportOwed = {}
           /\ outcome' = "running" /\ pc' \in {"export", "write"} =>
                ImportReport' = "failed" /\ ImportOwed' = {}
      /\ pc = "import" => ImportReport = "running" /\ ImportOwed = entries /\ outcome = "running"
      /\ pc' = "import" /\ outcome' = "running" => ImportReport' = "running"
      /\ pc = "idle" => ImportReport # "running"
  <2>1. pc = "import" => entries \cap Charts = entries /\ ~ dated
    BY <1>a DEF StillToPush
  <2> QED
    BY <1>a, <2>1 DEF ImportReport, Report, ImportOwed, Exporting, Importing
<1>1. CASE Publish
  BY <1>1, <1>b, <1>d DEF Publish, ImportReport, Report
<1>2. CASE Panic
  BY <1>2, <1>c, <1>d DEF Panic, ImportReport, Report
<1>3. CASE StartExport
  <2>1. /\ pc' \in {"idle", "export"} /\ outcome' \in {"running", "nothingToExport"}
    BY <1>3, Zenon DEF StartExport, Load
  <2>2. UNCHANGED <<target, dir>>
    BY <1>3 DEF StartExport
  <2> QED
    BY <2>1, <2>2, <1>c, <1>d DEF ImportReport, Report
<1>4. ASSUME NEW c \in Charts, ExportFails(c) PROVE Mapped
  BY <1>4, <1>a, <1>c, <1>d, <1>e DEF ExportFails, Exporting
<1>5. ASSUME NEW c \in Charts, OpenWrap(c) PROVE Mapped
  <2>1. /\ pc = "export" /\ c \notin Wrapped /\ outcome' = "running"
        /\ UNCHANGED target
        /\ \/ UNCHANGED <<dir, pc>>
           \/ dir' = [dir EXCEPT ![File(c)] = Torn] /\ pc' = "write"
    BY <1>5, <1>a DEF OpenWrap, StillMissing, Exporting, Wrapped
  <2>2. CASE UNCHANGED <<dir, pc>>
    BY <2>1, <2>2, <1>c, <1>d, <1>e
  <2>3. CASE dir' = [dir EXCEPT ![File(c)] = Torn] /\ pc' = "write"
    <3>1. Wrapped' = Wrapped \cup {c}
      BY <2>3, <1>a, WrappedNext
    <3> QED
      BY <2>1, <2>3, <3>1, <1>e DEF ImportMirror!Next, ImportMirror!Publish
  <2> QED
    BY <2>1, <2>2, <2>3
<1>6. CASE WriteDone
  <2>1. /\ pc = "write" /\ pc' = "export" /\ current \in Charts /\ outcome' = "running"
        /\ dir' = [dir EXCEPT ![File(current)] = current] /\ UNCHANGED target
    BY <1>6, <1>a DEF WriteDone, Exporting
  <2>2. Wrapped' = Wrapped \cup {current}
    BY <2>1, <1>a, WrappedNext
  <2>3. current \in Wrapped
    BY <2>1, <1>a DEF StillMissing, Wrapped
  <2> QED
    BY <2>1, <2>2, <2>3, <1>c, <1>e
<1>7. CASE WriteFails
  BY <1>7, <1>a, <1>c, <1>d, <1>e DEF WriteFails, Exporting
<1>8. CASE Kill
  BY <1>8, <1>c, <1>d DEF Kill, ImportReport, Report
<1>9. CASE FinishExport
  BY <1>9, <1>c, <1>d DEF FinishExport, ImportReport, Report
<1>10. CASE StartImport
  <2> DEFINE missing == {r \in Scan : ~ dated' /\ r \notin target}
  <2>1. PICK lost \in SUBSET missing : Load(missing, lost, "import", "nothingToImport")
    BY <1>10 DEF StartImport, TooOld
  <2>2. /\ \/ pc' = "idle" /\ todo' = {} /\ outcome' = "nothingToImport"
           \/ pc' = "import" /\ outcome' = "running"
        /\ errs' \/ todo' = missing
    <3> HIDE DEF missing
    <3> QED
      BY <2>1, LoadOutcome
  <2>3. /\ pc = "idle" /\ entries' = Wrapped /\ UNCHANGED target /\ UNCHANGED Wrapped
    BY <1>10, <1>d, ScanTells DEF StartImport
  <2>4. ImportOwed' \subseteq Wrapped /\ (dated' => ImportOwed' = {})
    BY <2>3 DEF ImportOwed
  <2>5. CASE pc' = "import" /\ outcome' = "running"
    <3>1. ImportReport # "running" /\ ImportReport' = "running"
      BY <1>e, <2>3, <2>5
    <3> QED
      BY <2>3, <2>4, <3>1 DEF ImportMirror!Next, ImportMirror!Begin
  <2>6. CASE pc' = "idle" /\ todo' = {} /\ outcome' = "nothingToImport" /\ ~ errs'
    <3>1. ImportReport # "running" /\ ImportReport' = "synced"
      BY <1>e, <2>3, <2>6 DEF ImportReport, Report
    <3>2. Scan = Wrapped
      BY <1>10, ScanTells DEF StartImport
    <3>3. ImportOwed' \subseteq target
      BY <2>2, <2>4, <2>6, <3>2
    <3> QED
      BY <2>3, <2>4, <3>1, <3>3 DEF ImportMirror!Next, ImportMirror!NothingToDo
  <2>7. CASE pc' = "idle" /\ outcome' = "nothingToImport" /\ errs'
    BY <2>3, <2>7, <1>c DEF ImportReport, Report
  <2> QED
    BY <2>2, <2>5, <2>6, <2>7
<1>11. ASSUME NEW r, Unwrap(r) PROVE Mapped
  <2>1. /\ pc = "import" /\ pc' = "import" /\ r \in entries /\ r \in todo
        /\ UNCHANGED <<dir, entries, dated, outcome>> /\ UNCHANGED Wrapped
        /\ IF dir[File(r)] \in Charts
             THEN target' = target \cup {dir[File(r)]} ELSE UNCHANGED target
    BY <1>11, <1>a, <1>d DEF Unwrap, StillToPush
  <2>2. target' \in {target, target \cup {r}}
    BY <2>1, <1>a, UnwrapsNamed
  <2>3. /\ ImportReport = "running" /\ ImportReport' = "running"
        /\ ImportOwed = entries /\ ImportOwed' = entries
    BY <2>1, <1>e DEF ImportReport, ImportOwed
  <2> QED
    BY <2>1, <2>2, <2>3 DEF ImportMirror!Next, ImportMirror!Copy, ImportMirror!mirrorVars
<1>12. ASSUME NEW r, ImportFails(r) PROVE Mapped
  BY <1>12, <1>b, <1>d, <1>e DEF ImportFails
<1>13. CASE FinishImport
  <2>1. /\ pc = "import" /\ todo = {} /\ pc' = "idle" /\ errs' = errs
        /\ UNCHANGED <<target, entries, dated>> /\ UNCHANGED Wrapped
        /\ outcome' = IF errs THEN "failed" ELSE "imported"
    BY <1>13, <1>d DEF FinishImport
  <2>2. CASE errs
    BY <2>1, <2>2, <1>c DEF ImportReport, Report
  <2>3. CASE ~ errs
    <3>1. ImportReport = "running" /\ ImportReport' = "synced"
      BY <2>1, <2>3, <1>e DEF ImportReport, Report
    <3>2. ImportOwed' = ImportOwed /\ ImportOwed \subseteq target
      BY <2>1, <2>3, <3>1, <1>a, <1>e DEF StillToPush, ImportOwed
    <3> QED
      BY <2>1, <3>1, <3>2 DEF ImportMirror!Next, ImportMirror!FinishSynced
  <2> QED
    BY <2>2, <2>3
<1>14. CASE UNCHANGED vars
  BY <1>14, <1>b, <1>d DEF vars, ImportReport, Report
<1> QED
  BY <1>1, <1>2, <1>3, <1>4, <1>5, <1>6, <1>7, <1>8, <1>9, <1>10, <1>11, <1>12, <1>13, <1>14
     DEF Next, ExportStep, ImportStep

LEMMA MirrorsInit ==
  ASSUME Init
  PROVE  ExportMirror!Init /\ ImportMirror!Init
<1>1. Wrapped = {} /\ ~ dated
  BY AirgapAssumption DEF Init, Wrapped, Present, Files
<1> QED
  BY <1>1 DEF Init, ExportMirror!Init, ImportMirror!Init, ExportReport, ImportReport, Report,
     ExportOwed, ImportOwed

\* Whatever is published, fails, is torn or is killed: an export writes files for
\* charts that have none only, none twice, and is synced when it says so, with
\* every chart it owes in a file.
THEOREM ImplementsExportMirrorTheorem ==
  ASSUME PlainVersions
  PROVE  Spec => ImplementsExportMirror
<1> QED
  BY MirrorInvariant, MirrorsInit, ExportMirrorNext, PTL
     DEF Spec, ImplementsExportMirror, ExportMirror!Spec

\* And an import pushes only charts the directory held a file of when it began,
\* each under the name of its file, and leaves none out when it says so.
THEOREM ImplementsImportMirrorTheorem ==
  ASSUME PlainVersions
  PROVE  Spec => ImplementsImportMirror
<1> QED
  BY MirrorInvariant, MirrorsInit, ImportMirrorNext, PTL
     DEF Spec, ImplementsImportMirror, ImportMirror!Spec
\* What is known of any mirror is known of these two.
Exports == INSTANCE ChartMirrorProofs WITH
  target <- Wrapped, owed <- ExportOwed, report <- ExportReport
Imports == INSTANCE ChartMirrorProofs WITH
  source <- Wrapped, owed <- ImportOwed, report <- ImportReport

\* Through both steps: every chart of the disconnected registry has a file in the
\* directory, and every chart with a file was published at the connected one.
THEOREM OnlyPublishedTheorem ==
  ASSUME PlainVersions
  PROVE  Spec => [](target \subseteq Wrapped /\ Wrapped \subseteq source)
<1>1. ExportMirror!Spec => Exports!Spec
  BY PTL DEF ExportMirror!Spec, ExportMirror!Init, ExportMirror!Next, ExportMirror!mirrorVars,
     ExportMirror!Publish, ExportMirror!Begin, ExportMirror!Learn, ExportMirror!Copy,
     ExportMirror!FinishSynced, ExportMirror!NothingToDo, ExportMirror!FinishFailed,
     Exports!Spec, Exports!Init, Exports!Next, Exports!mirrorVars, Exports!Publish,
     Exports!Begin, Exports!Learn, Exports!Copy, Exports!FinishSynced, Exports!NothingToDo,
     Exports!FinishFailed
<1>2. ImportMirror!Spec => Imports!Spec
  BY PTL DEF ImportMirror!Spec, ImportMirror!Init, ImportMirror!Next, ImportMirror!mirrorVars,
     ImportMirror!Publish, ImportMirror!Begin, ImportMirror!Learn, ImportMirror!Copy,
     ImportMirror!FinishSynced, ImportMirror!NothingToDo, ImportMirror!FinishFailed,
     Imports!Spec, Imports!Init, Imports!Next, Imports!mirrorVars, Imports!Publish,
     Imports!Begin, Imports!Learn, Imports!Copy, Imports!FinishSynced, Imports!NothingToDo,
     Imports!FinishFailed
<1>3. Exports!NothingInvented /\ Imports!NothingInvented =>
        target \subseteq Wrapped /\ Wrapped \subseteq source
  BY DEF Exports!NothingInvented, Imports!NothingInvented
<1> QED
  BY <1>1, <1>2, <1>3, Exports!NothingInventedTheorem, Imports!NothingInventedTheorem,
     ImplementsExportMirrorTheorem, ImplementsImportMirrorTheorem, PTL
     DEF ImplementsExportMirror, ImplementsImportMirror
-----------------------------------------------------------------------------
(* When a directory can be opened again. *)

\* It is the charts' versions that make New panic, and nothing a run does: if every
\* version ends in a segment of the form 1.2.3, releases and such prereleases as
\* 2.0.0-1.0.0, no directory a run leaves makes it panic.
THEOREM NoPanicTheorem ==
  ASSUME \A c \in Charts : Last(c.version) \in Triples
  PROVE  Spec => []NoPanic
<1>1. ASSUME NEW c \in Charts PROVE Matches(File(c))
  BY <1>1, AirgapAssumption, LastOfConcat DEF Matches, File
<1>2. ~ Panics
  BY <1>1 DEF Panics, Present, Files
<1>3. Init => NoPanic
  BY DEF Init, NoPanic
<1>4. TypeOK /\ NoPanic /\ [Next]_vars => NoPanic'
  <2>1. SUFFICES ASSUME TypeOK, NoPanic, [Next]_vars PROVE NoPanic'
    OBVIOUS
  <2>2. CASE Publish \/ Kill \/ FinishExport \/ FinishImport
    BY <2>1, <2>2 DEF Publish, Kill, FinishExport, FinishImport, NoPanic
  <2>3. CASE Panic
    BY <2>3, <1>2 DEF Panic
  <2>4. CASE StartExport \/ StartImport
    <3>1. outcome' \in {"running", "nothingToExport", "nothingToImport"}
      BY <2>4, Zenon DEF StartExport, StartImport, Load
    <3> QED
      BY <3>1 DEF NoPanic
  <2>5. CASE WriteDone \/ WriteFails
    BY <2>1, <2>5 DEF WriteDone, WriteFails, NoPanic
  <2>6. ASSUME NEW c \in Charts, ExportFails(c) \/ OpenWrap(c) PROVE NoPanic'
    BY <2>1, <2>6 DEF ExportFails, OpenWrap, NoPanic
  <2>7. ASSUME NEW r, Unwrap(r) \/ ImportFails(r) PROVE NoPanic'
    BY <2>1, <2>7 DEF Unwrap, ImportFails, NoPanic
  <2>8. CASE UNCHANGED vars
    BY <2>1, <2>8 DEF vars, NoPanic
  <2> QED
    BY <2>1, <2>2, <2>3, <2>4, <2>5, <2>6, <2>7, <2>8 DEF Next, ExportStep, ImportStep
<1> QED
  BY <1>3, <1>4, TypeCorrect, PTL DEF Spec
==============================================================================
