---------------------------- MODULE SyncerProofs -----------------------------
(* Theorems about Syncer, for every value of its constants. *)
EXTENDS Syncer, SequenceTheorems, TLAPS

\* References and ids are made of names and versions.
LEMMA RefType ==
  /\ \A n \in Names, v \in Versions : Ref(n, v) \in Refs
  /\ \A r \in Refs : r.name \in Names /\ r.version \in Versions /\ Ref(r.name, r.version) = r
  /\ \A r \in Refs : Id(r) \in Ids
  BY DEF Ref, Refs, Ids

\* What a client takes a reference to mean is a chart of the view, of that name.
LEMMA ResolveInView ==
  \A n, v : Resolve(n, v) \subseteq view /\ \A c \in Resolve(n, v) : c.name = n
  BY DEF Resolve, Named

\* The versions listed for a name are versions of charts.
LEMMA ListedVersionsType ==
  ASSUME view' \in SUBSET Charts
  PROVE  \A n : ListedVersions(n) \subseteq Versions
  BY ChartsAssumption DEF ListedVersions, Named, Refs

\* Initially every variable has its type.
LEMMA TypeInit == Init => TypeOK
<1> SUFFICES ASSUME Init PROVE TypeOK
  OBVIOUS
<1>1. cache \in [Ids -> Charts \cup {Absent, Torn}] /\ index \in [Ids -> Refs \cup {Absent}]
  BY DEF Init, NoIndex
<1>2. faults \in 0..MaxFaults /\ crashes \in 0..MaxCrashes
  BY EnvironmentAssumption DEF Init
<1>3. pc \in Ended \cup Running /\ pc # "push"
  BY DEF Init, Ended
<1> QED
  BY <1>1, <1>2, <1>3 DEF Init, TypeOK

\* Every step keeps every variable in its type.
LEMMA TypeNext == TypeOK /\ [Next]_vars => TypeOK'
<1> SUFFICES ASSUME TypeOK, [Next]_vars PROVE TypeOK'
  OBVIOUS
<1> USE DEF TypeOK
<1>a. Charts \subseteq Refs /\ Current \in Refs /\ Id(Current) \in Ids
  BY ChartsAssumption, RefType DEF Current
<1>b. /\ MaxFaults \in Nat /\ MaxCrashes \in Nat
      /\ Absent \notin Charts /\ Torn \notin Charts /\ Absent \notin Refs /\ Absent # Torn
  BY EnvironmentAssumption
<1>c. /\ Fault => faults' \in 0..MaxFaults
      /\ \A S \in SUBSET Charts : Blame(S) => errs' \in BOOLEAN /\ blamed' \in SUBSET Charts
      /\ \A n, v : Resolve(n, v) \in SUBSET Charts
  <2>1. Fault => faults' \in 0..MaxFaults
    BY <1>b DEF Fault
  <2>2. ASSUME NEW S \in SUBSET Charts, Blame(S)
        PROVE  errs' \in BOOLEAN /\ blamed' \in SUBSET Charts
    BY <2>2 DEF Blame
  <2>3. \A n, v : Resolve(n, v) \in SUBSET Charts
    BY ResolveInView
  <2> QED
    BY <2>1, <2>2, <2>3
<1>1. CASE Publish
  BY <1>1 DEF Publish
<1>2. CASE Start \/ StartFails
  <2>1. /\ todo' = {} /\ vtodo' = {} /\ pending' = {} /\ wrap' = Absent /\ blamed' = {}
        /\ aborted' = "no" /\ carried' = {} /\ cfg' \in Configs /\ index' = NoIndex
        /\ UNCHANGED <<source, target, crashes, name, version>>
    BY <1>2 DEF Start, StartFails, Fresh
  <2>2. cache' \in [Ids -> Charts \cup {Absent, Torn}]
    BY <1>2 DEF Start, StartFails, Fresh
  <2>3. index' \in [Ids -> Refs \cup {Absent}]
    BY <2>1 DEF NoIndex
  <2>4. /\ pc' \in {"request", "refused"} /\ view' \in SUBSET Charts /\ errs' \in BOOLEAN
        /\ entries' \in SUBSET Charts
        /\ faults' \in 0..MaxFaults
    BY <1>2, <1>c DEF Start, StartFails
  <2> QED
    BY <2>1, <2>2, <2>3, <2>4 DEF Returned, Ended, Running, Loading, Syncing
<1>16. CASE Again
  BY <1>16 DEF Again, Running
<1>3. CASE LoadCharts \/ LoadChartsFails
  <2>1. ASSUME LoadCharts PROVE todo' \in SUBSET Names
    <3>1. cfg.charts \in SUBSET Names
      BY EnvironmentAssumption DEF ConfigRecords
    <3>2. NamesIn(entries) \subseteq Names
      BY <1>a, RefType DEF NamesIn
    <3> QED
      BY <2>1, <3>1, <3>2 DEF LoadCharts, Requested, Discovered, Listed
  <2> QED
    BY <1>3, <2>1 DEF LoadCharts, LoadChartsFails, Returned, Ended, Running, Loading, Syncing
<1>4. ASSUME NEW n \in Names, SkipName(n) \/ ListFails(n) PROVE TypeOK'
  <2>1. Named(Charts, n) \in SUBSET Charts
    BY DEF Named
  <2> QED
    BY <1>4, <2>1, <1>c DEF SkipName, ListFails, NextName, First
<1>5. ASSUME NEW n \in Names, ListAllVersions(n) \/ ListLatestVersion(n) PROVE TypeOK'
  <2>1. view' \in SUBSET Charts
    BY <1>5 DEF ListAllVersions, ListLatestVersion, Listing, Named
  <2>2. vtodo' \in SUBSET Versions
    <3>1. CASE ListAllVersions(n)
      BY <3>1, <2>1, ListedVersionsType DEF ListAllVersions
    <3>2. CASE ListLatestVersion(n)
      <4>1. PICK v \in Highest(ListedVersions(n)) : vtodo' = {Canonical[v]}
        BY <3>2 DEF ListLatestVersion
      <4>2. v \in Parsable
        BY <3>2, <4>1 DEF ListLatestVersion, Highest
      <4> QED
        BY <4>1, <4>2, ChartsAssumption
    <3> QED
      BY <1>5, <3>1, <3>2
  <2> QED
    BY <1>5, <2>1, <2>2 DEF ListAllVersions, ListLatestVersion, Listing, NextName, First
<1>6. ASSUME NEW n \in Names, ListUnparsable(n) PROVE TypeOK'
  BY <1>6 DEF ListUnparsable, First, Named
<1>7. ASSUME NEW v \in Versions, ProcessFails(v) \/ SkipVersion(v) \/ FetchVersion(v)
      PROVE  TypeOK'
  BY <1>7, <1>c DEF ProcessFails, SkipVersion, FetchVersion, Process, Returned, Ended, Running,
     Loading, Syncing
<1>8. CASE FetchCached \/ FetchPanics \/ FetchFails \/ OpenDownload
  BY <1>8, <1>a, <1>b, <1>c DEF FetchCached, FetchPanics, FetchFails, OpenDownload, FetchStep, AddToIndex,
     Returned, Ended, Running, Loading, Syncing
<1>9. CASE DownloadDone
  BY <1>9, <1>a, <1>b, <1>c DEF DownloadDone, FetchStep, AddToIndex, Ended, Running, Loading,
     Syncing
<1>10. CASE DownloadFails \/ CloseFails \/ LayersFail
  BY <1>10, <1>a, <1>c DEF DownloadFails, CloseFails, LayersFail, Invalidated, FetchStep, Returned, Ended,
     Running, Loading, Syncing
<1>11. CASE Select
  BY <1>11 DEF Select, Returned, Ended, Running, Loading, Syncing
<1>12. ASSUME NEW id \in Ids, WrapFails(id) \/ WrapOnly(id) \/ Wrap(id) PROVE TypeOK'
  <2>1. Visit(id)
    BY <1>12 DEF WrapFails, WrapOnly, Wrap
  <2>2. index[id] \in Refs
    BY <2>1 DEF Visit
  <2>3. /\ name' \in Names /\ version' \in Versions
        /\ pending' \in SUBSET {i \in Ids : index'[i] # Absent}
    BY <2>1, <2>2, RefType DEF Visit
  <2> QED
    BY <1>12, <2>1, <2>3, <1>c DEF WrapFails, WrapOnly, Wrap, Visit, Ended, Running, Loading,
       Syncing
<1>13. CASE Push \/ PushFails
  BY <1>13, <1>c DEF Push, PushFails, Returned, Ended, Running, Loading, Syncing
<1>14. CASE Finish \/ Crash
  BY <1>14, <1>b DEF Finish, Crash, Returned, Ended, Running, Loading, Syncing
<1>15. CASE UNCHANGED vars
  BY <1>15 DEF vars
<1> QED
  BY <1>1, <1>2, <1>3, <1>4, <1>5, <1>6, <1>7, <1>8, <1>9, <1>10, <1>11, <1>12, <1>13, <1>14,
     <1>15, <1>16 DEF Next, LoadStep, SyncStep

\* The type invariant holds for all charts, kinds of source and configurations.
THEOREM TypeCorrect == Spec => []TypeOK
<1> QED
  BY TypeInit, TypeNext, PTL DEF Spec
-----------------------------------------------------------------------------
(* When ids tell charts apart. *)

\* Two ways of cutting a sequence agree if both cut before the first segment of a kind.
LEMMA CutUnique ==
  ASSUME NEW Segments, NEW Starters,
         NEW m \in Seq(Segments), NEW n \in Seq(Segments),
         NEW v \in Seq(Segments), NEW w \in Seq(Segments),
         v # <<>>, v[1] \in Starters, w # <<>>, w[1] \in Starters,
         \A i \in 1..Len(m) : m[i] \notin Starters,
         \A i \in 1..Len(n) : n[i] \notin Starters,
         m \o v = n \o w
  PROVE  m = n /\ v = w
<1>1. /\ Len(m) \in Nat /\ Len(n) \in Nat /\ Len(v) \in Nat \ {0} /\ Len(w) \in Nat \ {0}
      /\ Len(m) + Len(v) = Len(n) + Len(w)
  <2>1. Len(m \o v) = Len(m) + Len(v) /\ Len(n \o w) = Len(n) + Len(w)
    BY ConcatProperties
  <2> QED
    BY <2>1, LenProperties, EmptySeq
<1>2. \A i \in 1..Len(m) + Len(v) :
        (IF i <= Len(m) THEN m[i] ELSE v[i - Len(m)]) = (IF i <= Len(n) THEN n[i] ELSE w[i - Len(n)])
  <2>1. \A i \in 1..Len(m) + Len(v) :
          (m \o v)[i] = IF i <= Len(m) THEN m[i] ELSE v[i - Len(m)]
    BY ConcatProperties
  <2>2. \A i \in 1..Len(n) + Len(w) :
          (n \o w)[i] = IF i <= Len(n) THEN n[i] ELSE w[i - Len(n)]
    BY ConcatProperties
  <2> QED
    BY <2>1, <2>2, <1>1
<1>3. Len(m) = Len(n)
  <2>1. ASSUME Len(m) < Len(n) PROVE FALSE
    <3>1. Len(m) + 1 \in 1..Len(m) + Len(v) /\ Len(m) + 1 \in 1..Len(n)
          /\ ~ (Len(m) + 1 <= Len(m)) /\ Len(m) + 1 <= Len(n) /\ Len(m) + 1 - Len(m) = 1
      BY <1>1, <2>1
    <3> QED
      BY <1>2, <3>1
  <2>2. ASSUME Len(n) < Len(m) PROVE FALSE
    <3>1. Len(n) + 1 \in 1..Len(m) + Len(v) /\ Len(n) + 1 \in 1..Len(m)
          /\ ~ (Len(n) + 1 <= Len(n)) /\ Len(n) + 1 <= Len(m) /\ Len(n) + 1 - Len(n) = 1
      BY <1>1, <2>2
    <3> QED
      BY <1>2, <3>1
  <2> QED
    BY <1>1, <2>1, <2>2
<1>4. m = n
  <2>1. \A i \in 1..Len(m) : m[i] = n[i]
    BY <1>1, <1>2, <1>3
  <2> QED
    BY <1>3, <2>1, SeqEqual
<1>5. v = w
  <2>1. \A i \in 1..Len(v) : v[i] = w[i]
    <3>1. SUFFICES ASSUME NEW i \in 1..Len(v) PROVE v[i] = w[i]
      OBVIOUS
    <3>2. Len(m) + i \in 1..Len(m) + Len(v) /\ ~ (Len(m) + i <= Len(m)) /\ Len(m) + i - Len(m) = i
      BY <1>1
    <3> QED
      BY <1>2, <1>3, <3>2
  <2> QED
    BY <1>1, <1>3, <2>1, SeqEqual
<1> QED
  BY <1>4, <1>5

\* The ids of the engine, the cache and the directory are unambiguous as soon as
\* every version begins with a segment of a kind no name contains, as 1.2.3 is;
\* what follows in the version, a prerelease with hyphens, does not matter.
THEOREM DistinctIdsTheorem ==
  ASSUME NEW Segments, NEW Starters,
         Names \subseteq Seq(Segments), Versions \subseteq Seq(Segments),
         \A v \in Versions : v # <<>> /\ v[1] \in Starters,
         \A n \in Names : \A i \in 1..Len(n) : n[i] \notin Starters
  PROVE  DistinctIds
<1> SUFFICES ASSUME NEW r \in Refs, NEW s \in Refs, Id(r) = Id(s) PROVE r = s
  BY DEF DistinctIds
<1>1. /\ r.name \in Names /\ r.version \in Versions /\ r = Ref(r.name, r.version)
      /\ s.name \in Names /\ s.version \in Versions /\ s = Ref(s.name, s.version)
  BY RefType
<1>2. r.name \o r.version = s.name \o s.version
  BY DEF Id
<1>3. r.name = s.name /\ r.version = s.version
  BY <1>1, <1>2, CutUnique
<1> QED
  BY <1>1, <1>3
-----------------------------------------------------------------------------
(* What is indexed, cached and pushed is what its id says. *)

\* A client finds exactly the chart it is asked for, if there is one: what else
\* its version may be parsed like does not matter then.
LEMMA ResolveExact ==
  ASSUME TypeOK
  PROVE  \A n, v : Ref(n, v) \in view => Resolve(n, v) = {Ref(n, v)}
<1> SUFFICES ASSUME NEW n, NEW v, Ref(n, v) \in view
             PROVE  Resolve(n, v) = {Ref(n, v)}
  OBVIOUS
<1>1. \A c \in view : c = Ref(c.name, c.version)
  BY ChartsAssumption, RefType DEF TypeOK
<1>2. Ref(n, v).name = n /\ Ref(n, v).version = v
  BY DEF Ref
<1>3. {c \in Named(view, n) : c.version = v} = {Ref(n, v)}
  BY <1>1, <1>2 DEF Named
<1> QED
  BY <1>3 DEF Resolve

\* Initially nothing is indexed, cached or pushed.
LEMMA IdentifiedInit == Init => Identified
  BY EnvironmentAssumption DEF Init, Identified, NoIndex, Ids, Loading

\* Every step keeps index entries, cache files and the current chart in agreement.
LEMMA IdentifiedNext ==
  ASSUME DistinctIds, CanonicalVersions, TypeOK, TypeOK', Identified, [Next]_vars
  PROVE  Identified'
<1>a. /\ Charts \subseteq Refs /\ Current \in Refs /\ Id(Current) \in Ids
      /\ \A v \in Versions : Ref(name, v) \in Refs
  BY ChartsAssumption, RefType DEF Current, TypeOK
<1>b. Absent \notin Charts /\ Torn \notin Charts
  BY EnvironmentAssumption
<1>c. /\ view \in SUBSET Charts /\ source \in SUBSET Charts
      /\ index \in [Ids -> Refs \cup {Absent}]
      /\ cache \in [Ids -> Charts \cup {Absent, Torn}]
  BY DEF TypeOK
<1> USE DEF Identified
<1>1. CASE Publish
  BY <1>1 DEF Publish, Current
<1>2. CASE Start \/ StartFails
  BY <1>2, <1>b, <1>c DEF Start, StartFails, Fresh, NoIndex, Loading
<1>16. CASE Again
  BY <1>16, <1>c DEF Again, Loading
<1>3. CASE LoadCharts \/ LoadChartsFails
  BY <1>3 DEF LoadCharts, LoadChartsFails
<1>4. ASSUME NEW n \in Names, SkipName(n) \/ ListFails(n) PROVE Identified'
  BY <1>4 DEF SkipName, ListFails, NextName, First
<1>5. ASSUME NEW n \in Names, ListAllVersions(n) \/ ListLatestVersion(n) PROVE Identified'
  <2>1. /\ view \subseteq view' /\ view' \subseteq source'
        /\ name' = n /\ pc = "load"
        /\ UNCHANGED <<pc, source, entries, carried, index, cache, wrap, version>>
    BY <1>5 DEF ListAllVersions, ListLatestVersion, Listing, NextName, First, Named
  <2>2. vtodo' \subseteq ListedVersions(n)
    <3>1. CASE ListAllVersions(n)
      BY <3>1 DEF ListAllVersions
    <3>2. CASE ListLatestVersion(n)
      BY <3>2 DEF ListLatestVersion, Highest, CanonicalVersions, LatestOnly, TypeOK
    <3> QED
      BY <1>5, <3>1, <3>2
  <2>3. view' \subseteq Refs
    BY <1>a DEF TypeOK
  <2>4. \A v \in ListedVersions(n) : Ref(n, v) \in view'
    BY <2>3, RefType DEF ListedVersions, Named
  <2> QED
    BY <2>1, <2>2, <2>4
<1>6. ASSUME NEW n \in Names, ListUnparsable(n) PROVE Identified'
  BY <1>6 DEF ListUnparsable, First, Named
<1>7. ASSUME NEW v \in Versions, ProcessFails(v) \/ SkipVersion(v) \/ FetchVersion(v)
      PROVE  Identified'
  <2>1. /\ pc = "load" /\ Ref(name, v) \in view
        /\ \A w \in vtodo' : Ref(name, w) \in view
        /\ UNCHANGED <<source, entries, view, carried, name, index, cache, wrap>>
    BY <1>7 DEF ProcessFails, SkipVersion, FetchVersion, Process, Loading
  <2>2. pc' = "load" \/ (pc' = "fetch" /\ version' = v)
    BY <1>7, <2>1 DEF ProcessFails, SkipVersion, FetchVersion
  <2> QED
    BY <2>1, <2>2 DEF Current
<1>8. CASE FetchCached \/ FetchPanics \/ FetchFails \/ OpenDownload
  BY <1>8, <1>a, <1>b, <1>c DEF FetchCached, FetchPanics, FetchFails, OpenDownload, FetchStep, AddToIndex,
     Current, Loading
<1>9. CASE DownloadDone \/ CloseFails
  <2>1. Resolve(name, version) = {Current}
    BY <1>9, ResolveExact DEF DownloadDone, CloseFails, Current
  <2> QED
    BY <1>9, <2>1, <1>a, <1>b, <1>c DEF DownloadDone, CloseFails, FetchStep, AddToIndex,
       Current, Loading
<1>10. CASE DownloadFails \/ LayersFail
  BY <1>10, <1>a, <1>b, <1>c DEF DownloadFails, LayersFail, Invalidated, FetchStep, Current,
     Loading
<1>11. CASE Select
  BY <1>11 DEF Select, Loading
<1>12. ASSUME NEW id \in Ids, WrapFails(id) \/ WrapOnly(id) \/ Wrap(id) PROVE Identified'
  <2>1. Visit(id)
    BY <1>12 DEF WrapFails, WrapOnly, Wrap
  <2>2. index[id] \in view /\ Id(index[id]) = id /\ Current' = index[id]
    <3>1. index[id] # Absent
      BY <2>1 DEF Visit, TypeOK
    <3> QED
      BY <3>1, <2>1, <1>a, <1>c, RefType DEF Visit, Current, Ref
  <2>3. UNCHANGED <<source, entries, view, carried, index, cache>>
    BY <2>1 DEF Visit
  <2>4. pc' = "sync" \/ (pc' = "push" /\ wrap' = cache[id] /\ cache[id] \in Charts)
    BY <1>12 DEF WrapFails, WrapOnly, Wrap, Visit
  <2>5. pc' = "push" => wrap' = index[id]
    BY <2>2, <2>4, <1>a, <1>c DEF DistinctIds
  <2> QED
    BY <2>2, <2>3, <2>4, <2>5 DEF Loading
<1>13. CASE Push \/ PushFails
  BY <1>13 DEF Push, PushFails, Loading
<1>14. CASE Finish \/ Crash
  BY <1>14 DEF Finish, Crash, Loading
<1>15. CASE UNCHANGED vars
  BY <1>15 DEF vars, Current
<1> QED
  BY <1>1, <1>2, <1>3, <1>4, <1>5, <1>6, <1>7, <1>8, <1>9, <1>10, <1>11, <1>12, <1>13, <1>14,
     <1>15, <1>16 DEF Next, LoadStep, SyncStep
-----------------------------------------------------------------------------
(* Errors are remembered. *)

LEMMA RememberedNext ==
  ASSUME Remembered, [Next]_vars
  PROVE  Remembered'
<1> USE DEF Remembered
<1>a. \A S : Blame(S) => errs' = TRUE
  BY DEF Blame
<1>1. CASE Publish
  BY <1>1 DEF Publish
<1>2. CASE Start \/ StartFails
  BY <1>2 DEF Start, StartFails, Fresh
<1>12. CASE Again
  BY <1>12 DEF Again
<1>3. CASE LoadCharts \/ LoadChartsFails
  BY <1>3 DEF LoadCharts, LoadChartsFails
<1>4. ASSUME NEW n \in Names,
             \/ SkipName(n) \/ ListFails(n)
             \/ ListAllVersions(n) \/ ListLatestVersion(n) \/ ListUnparsable(n)
      PROVE  Remembered'
  BY <1>4, <1>a DEF SkipName, ListFails, ListAllVersions, ListLatestVersion, ListUnparsable,
     Listing, NextName, First
<1>5. ASSUME NEW v \in Versions, ProcessFails(v) \/ SkipVersion(v) \/ FetchVersion(v)
      PROVE  Remembered'
  BY <1>5, <1>a DEF ProcessFails, SkipVersion, FetchVersion, Process
<1>6. CASE FetchCached \/ FetchPanics \/ FetchFails \/ OpenDownload \/ DownloadDone \/ DownloadFails
           \/ CloseFails \/ LayersFail
  BY <1>6, <1>a DEF FetchCached, FetchPanics, FetchFails, OpenDownload, DownloadDone, DownloadFails, CloseFails,
     LayersFail, FetchStep
<1>7. CASE Select
  BY <1>7 DEF Select
<1>8. ASSUME NEW id \in Ids, WrapFails(id) \/ WrapOnly(id) \/ Wrap(id) PROVE Remembered'
  BY <1>8, <1>a DEF WrapFails, WrapOnly, Wrap, Visit
<1>9. CASE Push \/ PushFails
  BY <1>9, <1>a DEF Push, PushFails
<1>10. CASE Finish \/ Crash
  BY <1>10 DEF Finish, Crash
<1>11. CASE UNCHANGED vars
  BY <1>11 DEF vars
<1> QED
  BY <1>1, <1>2, <1>3, <1>4, <1>5, <1>6, <1>7, <1>8, <1>9, <1>10, <1>11, <1>12
     DEF Next, LoadStep, SyncStep

-----------------------------------------------------------------------------
(* Only missing charts are indexed and pushed. *)

LEMMA StillMissingNext ==
  ASSUME DistinctIds, TypeOK, TypeOK', Identified, Identified', StillMissing, [Next]_vars
  PROVE  StillMissing'
<1>a. /\ target \in SUBSET Charts /\ target' \in SUBSET Charts /\ Absent \notin Charts
      /\ index \in [Ids -> Refs \cup {Absent}] /\ Current \in Refs /\ Id(Current) \in Ids
      /\ view \subseteq Refs /\ pending \subseteq Ids
      /\ \A id \in pending : index[id] # Absent
  BY EnvironmentAssumption, ChartsAssumption, RefType DEF TypeOK, Current
<1> USE DEF StillMissing, NewUnlessCarried
<1>1. CASE Publish
  BY <1>1 DEF Publish, Current
<1>2. CASE Start \/ StartFails
  BY <1>2, <1>a DEF Start, StartFails, Fresh, NoIndex, Loading, Syncing
<1>12. CASE Again
  BY <1>12, <1>a DEF Again, Loading, Syncing
<1>3. CASE LoadCharts \/ LoadChartsFails
  BY <1>3 DEF LoadCharts, LoadChartsFails, Loading, Syncing
<1>4. ASSUME NEW n \in Names,
             \/ SkipName(n) \/ ListFails(n)
             \/ ListAllVersions(n) \/ ListLatestVersion(n) \/ ListUnparsable(n)
      PROVE  StillMissing'
  BY <1>4 DEF SkipName, ListFails, ListAllVersions, ListLatestVersion, ListUnparsable,
     Listing, NextName, First, Loading, Syncing
<1>5. ASSUME NEW v \in Versions, ProcessFails(v) \/ SkipVersion(v) \/ FetchVersion(v)
      PROVE  StillMissing'
  BY <1>5 DEF ProcessFails, SkipVersion, FetchVersion, Process, NotWanted, InTarget, Current,
     Loading, Syncing
<1>6. CASE FetchCached \/ FetchPanics \/ FetchFails \/ OpenDownload \/ DownloadDone \/ DownloadFails
           \/ CloseFails \/ LayersFail
  BY <1>6, <1>a DEF FetchCached, FetchPanics, FetchFails, OpenDownload, DownloadDone, DownloadFails, CloseFails,
     LayersFail, FetchStep, AddToIndex, Current, Loading, Syncing
<1>7. CASE Select
  BY <1>7 DEF Select, Loading, Syncing
<1>8. ASSUME NEW id \in Ids, WrapFails(id) \/ WrapOnly(id) \/ Wrap(id) PROVE StillMissing'
  <2>1. Visit(id)
    BY <1>8 DEF WrapFails, WrapOnly, Wrap
  <2>2. /\ pc = "sync" /\ id \in pending /\ pending' = pending \ {id}
        /\ UNCHANGED <<target, index, carried>>
    BY <2>1 DEF Visit
  <2>3. index[id] \in view /\ Id(index[id]) = id /\ Current' = index[id]
    BY <2>1, <2>2, <1>a, RefType DEF Visit, Identified, Current, Ref
  <2>4. pc' \in {"sync", "push"}
    BY <1>8, <2>2 DEF WrapFails, WrapOnly, Wrap
  <2> QED
    BY <2>2, <2>3, <2>4 DEF Loading, Syncing
<1>9. CASE Push \/ PushFails
  <2>1. /\ pc = "push" /\ pc' = "sync" /\ UNCHANGED <<index, pending, carried>>
        /\ target' \subseteq target \cup {Current}
    BY <1>9 DEF Push, PushFails, Identified
  <2>2. \A id \in pending : index[id] # Current
    BY <2>1, <1>a DEF Identified
  <2> QED
    BY <2>1, <2>2 DEF Loading, Syncing
<1>10. CASE Finish \/ Crash
  BY <1>10 DEF Finish, Crash, Loading, Syncing
<1>11. CASE UNCHANGED vars
  BY <1>11 DEF vars, Current
<1> QED
  BY <1>1, <1>2, <1>3, <1>4, <1>5, <1>6, <1>7, <1>8, <1>9, <1>10, <1>11, <1>12
     DEF Next, LoadStep, SyncStep
-----------------------------------------------------------------------------
(* No chart a run owes is lost sight of. *)

\* With dated entries, or dated runs, the filters skip nothing that is owed.
LEMMA OwedIsFresh ==
  ASSUME TypeOK, DatedCharts, NEW c \in Goal
  PROVE  ~ TooOld(c)
<1>1. c \in Charts /\ PublishedAt(c) \in Nat
  BY ChartsAssumption DEF TypeOK, Goal, PublishedAt
<1>3. cfg.from = NoDate => PublishedAt(c) >= UnixEpoch
  BY <1>1, ChartsAssumption DEF TypeOK, PublishedAt, DatedCharts, UnixEpoch
<1>2. cfg.from # NoDate => PublishedAt(c) >= cfg.from /\ cfg.from \in Nat
  BY EnvironmentAssumption DEF Goal, Asked, AskedBy, TypeOK, ConfigRecords
<1> QED
  BY <1>1, <1>2, <1>3 DEF TooOld, Threshold, UnixEpoch

\* Listing one name changes what is owed of that name only.
LEMMA ListingOwes ==
  ASSUME NEW n, Listing(n), NEW c \in Goal'
  PROVE  /\ c.name # n => c \in Goal
         /\ c.name = n => c \in Named(view', n)
<1>1. cfg' = cfg /\ entries' = entries /\ \A d \in view' \ view : d.name = n
  BY DEF Listing, NextName, Named
<1>2. view \subseteq view' /\ c \in view'
  BY DEF Listing, Goal
<1>3. ASSUME c.name # n PROVE c \in Goal
  <2>1. Named(view', c.name) = Named(view, c.name)
    BY <1>1, <1>2, <1>3 DEF Named
  <2>2. Asked(c)
    BY <1>1, <2>1 DEF Goal, Asked, AskedBy, PublishedAt, NamesIn
  <2> QED
    BY <1>1, <1>2, <1>3, <2>2 DEF Goal
<1> QED
  BY <1>2, <1>3 DEF Named

LEMMA NothingLostNext ==
  ASSUME DistinctIds, CanonicalVersions, DistinctPrecedence, DatedCharts,
         TypeOK, TypeOK', Identified, Identified', NothingLost, [Next]_vars
  PROVE  NothingLost'
<1>a. /\ Goal \subseteq view /\ view \subseteq Charts /\ Charts \subseteq Refs
      /\ Current \in Refs /\ Id(Current) \in Ids /\ Absent \notin Refs
      /\ \A c \in Refs : c = Ref(c.name, c.version) /\ Id(c) \in Ids
      /\ index \in [Ids -> Refs \cup {Absent}]
  BY ChartsAssumption, EnvironmentAssumption, RefType DEF TypeOK, Current, Goal
<1>b. Goal' \subseteq view'
  BY DEF Goal
<1>c. ASSUME UNCHANGED <<cfg, entries, view>> PROVE Goal' = Goal
  BY <1>c DEF Goal, Asked, AskedBy, PublishedAt, Named
<1>d. SUFFICES ASSUME pc' \notin {"off", "refused", "dead"}, aborted' = "no", NEW c \in Goal'
               PROVE  Accounted(c)'
  BY DEF NothingLost
<1>1. CASE Publish
  BY <1>1, <1>c, <1>d DEF Publish, NothingLost, Accounted, Current
<1>2. CASE Start \/ StartFails
  BY <1>2, <1>b DEF Start, StartFails, Accounted
<1>18. CASE Again
  BY <1>18 DEF Again, Accounted
<1>3. CASE LoadCharts
  <2>1. c \in Goal /\ c.name \in Requested
    BY <1>3, <1>c, <1>d, <1>a DEF LoadCharts, Requested, Discovered, Listed, Goal, Asked, AskedBy, NamesIn
  <2> QED
    BY <1>3, <2>1 DEF LoadCharts, Accounted, Loading
<1>4. CASE LoadChartsFails
  BY <1>4, <1>d DEF LoadChartsFails
<1>5. ASSUME NEW n \in Names, SkipName(n) \/ ListFails(n) PROVE Accounted(c)'
  <2>1. /\ c \in Goal /\ pc = "load" /\ aborted = "no" /\ todo' = todo \ {n} /\ vtodo = {}
        /\ UNCHANGED <<pc, index, target, vtodo>> /\ blamed \subseteq blamed'
    BY <1>5, <1>c, <1>d DEF SkipName, ListFails, NextName, First, Blame
  <2>2. c.name = n => c \in blamed'
    BY <1>5, <2>1, <1>a DEF SkipName, ListFails, ShouldSkip, Goal, Asked, AskedBy, Blame, Named
  <2> QED
    BY <2>1, <2>2 DEF NothingLost, Accounted, Loading, Syncing
<1>6. ASSUME NEW n \in Names, ListAllVersions(n) \/ ListLatestVersion(n) PROVE Accounted(c)'
  <2>1. Listing(n)
    BY <1>6 DEF ListAllVersions, ListLatestVersion
  <2>2. /\ pc = "load" /\ aborted = "no" /\ todo' = todo \ {n} /\ vtodo = {} /\ name' = n
        /\ UNCHANGED <<pc, index, target, blamed>>
    BY <1>6, <1>d DEF ListAllVersions, ListLatestVersion, Listing, NextName, First
  <2>3. CASE c.name # n
    <3>1. c \in Goal
      BY <2>1, <2>3, ListingOwes
    <3> QED
      BY <2>2, <2>3, <3>1 DEF NothingLost, Accounted, Loading, Syncing
  <2>4. CASE c.name = n
    <3>1. c \in Named(view', n)
      BY <2>1, <2>4, ListingOwes
    <3>2. c.version \in ListedVersions(n)
      BY <3>1 DEF ListedVersions
    <3>3. CASE ListAllVersions(n)
      BY <2>2, <2>4, <3>2, <3>3 DEF ListAllVersions, Accounted, Loading
    <3>4. CASE ListLatestVersion(n)
      <4>1. PICK v \in Highest(ListedVersions(n)) : vtodo' = {Canonical[v]}
        BY <3>4 DEF ListLatestVersion
      <4>2. /\ ListedVersions(n) \subseteq Parsable /\ v \in ListedVersions(n)
            /\ \A w \in ListedVersions(n) : Precedence[w] <= Precedence[v]
        BY <3>4, <4>1 DEF ListLatestVersion, Highest
      <4>3. PICK d \in Named(view', n) : d.version = v
        BY <4>2 DEF ListedVersions
      <4>4. cfg'.latestOnly
        BY <3>4 DEF ListLatestVersion, Listing, NextName
      <4>5. Precedence[v] <= Precedence[c.version]
        BY <2>4, <4>2, <4>3, <4>4 DEF Goal, Asked, AskedBy
      <4>6. Precedence[v] = Precedence[c.version]
        BY <3>2, <4>2, <4>5, ChartsAssumption
      <4>7. c.version = v /\ Canonical[v] = v
        BY <3>2, <4>2, <4>6, <4>4 DEF DistinctPrecedence, CanonicalVersions, LatestOnly, TypeOK
      <4> QED
        BY <2>2, <2>4, <4>1, <4>7 DEF Accounted, Loading
    <3> QED
      BY <1>6, <3>3, <3>4
  <2> QED
    BY <2>3, <2>4
<1>7. ASSUME NEW n \in Names, ListUnparsable(n) PROVE Accounted(c)'
  BY <1>7, <1>d DEF ListUnparsable
<1>8. ASSUME NEW v \in Versions, ProcessFails(v) \/ SkipVersion(v) \/ FetchVersion(v)
      PROVE  Accounted(c)'
  <2>1. /\ c \in Goal /\ pc = "load" /\ aborted = "no" /\ vtodo' = vtodo \ {v} /\ v \in vtodo
        /\ UNCHANGED <<todo, name, index, target>> /\ blamed \subseteq blamed'
        /\ pc' \in {"load", "fetch"}
    BY <1>8, <1>c, <1>d DEF ProcessFails, SkipVersion, FetchVersion, Process, Blame
  <2>2. Accounted(c)
    BY <2>1 DEF NothingLost
  <2>3. CASE c.name = name /\ c.version = v
    <3>1. Resolve(name, v) = {c} /\ c = Ref(name, v)
      BY <2>1, <2>3, <1>a, ResolveExact DEF Identified, Loading
    <3>2. CASE ProcessFails(v)
      BY <3>1, <3>2 DEF ProcessFails, Blame, Accounted
    <3>3. CASE SkipVersion(v)
      <4>1. ~ TooOld(c)
        BY <2>1, OwedIsFresh
      <4>2. c \in target \/ index[Id(c)] # Absent
        BY <3>1, <3>3, <4>1 DEF SkipVersion, NotWanted, InTarget
      <4>3. index[Id(c)] # Absent => index[Id(c)] = c
        BY <2>1, <1>a DEF Identified, DistinctIds
      <4> QED
        BY <2>1, <4>2, <4>3 DEF Accounted, Loading
    <3>4. CASE FetchVersion(v)
      BY <2>1, <3>1, <3>4 DEF FetchVersion, Accounted, Current
    <3> QED
      BY <1>8, <3>2, <3>3, <3>4
  <2>4. CASE ~ (c.name = name /\ c.version = v)
    BY <2>1, <2>2, <2>4 DEF Accounted, Loading, Syncing
  <2> QED
    BY <2>3, <2>4
<1>9. CASE FetchCached \/ DownloadDone
  <2>1. /\ c \in Goal /\ pc \in {"fetch", "download"} /\ aborted = "no" /\ pc' = "load"
        /\ UNCHANGED <<todo, name, vtodo, target, blamed>>
        /\ index' = [index EXCEPT ![Id(Current)] = Current]
    BY <1>9, <1>c, <1>d DEF FetchCached, DownloadDone, FetchStep, AddToIndex
  <2>2. Accounted(c)
    BY <2>1 DEF NothingLost
  <2>3. index[Id(c)] = c => index'[Id(c)] = c
    BY <2>1, <1>a DEF DistinctIds
  <2>4. index'[Id(Current)] = Current
    BY <2>1, <1>a
  <2> QED
    BY <2>1, <2>2, <2>3, <2>4 DEF Accounted, Loading, Syncing
<1>10. CASE OpenDownload
  BY <1>10, <1>c, <1>d DEF OpenDownload, FetchStep, NothingLost, Accounted, Current, Loading,
     Syncing
<1>11. CASE FetchFails \/ DownloadFails \/ CloseFails \/ LayersFail
  <2>1. /\ c \in Goal /\ pc \in {"fetch", "download"} /\ aborted = "no" /\ pc' = "load"
        /\ UNCHANGED <<todo, name, vtodo, target, index>>
        /\ blamed' = blamed \cup Resolve(name, version)
    BY <1>11, <1>c, <1>d DEF FetchFails, DownloadFails, CloseFails, LayersFail, FetchStep, Blame
  <2>2. Current \in Resolve(name, version)
    BY <2>1, ResolveExact DEF Identified, Current
  <2> QED
    BY <2>1, <2>2 DEF NothingLost, Accounted, Loading, Syncing
<1>12. CASE Select
  BY <1>12, <1>a, <1>c, <1>d DEF Select, NothingLost, Accounted, Loading, Syncing
<1>13. ASSUME NEW id \in Ids, WrapFails(id) \/ WrapOnly(id) \/ Wrap(id) PROVE Accounted(c)'
  <2>1. Visit(id)
    BY <1>13 DEF WrapFails, WrapOnly, Wrap
  <2>2. /\ c \in Goal /\ pc = "sync" /\ aborted = "no" /\ id \in pending
        /\ pending' = pending \ {id} /\ UNCHANGED <<target, index>>
        /\ blamed \subseteq blamed' /\ pc' \in {"sync", "push"}
    BY <1>13, <2>1, <1>c, <1>d DEF Visit, WrapFails, WrapOnly, Wrap, Blame
  <2>3. /\ index[id] \in view /\ Id(index[id]) = id /\ Current' = index[id]
        /\ index[id] \in Resolve(index[id].name, index[id].version)
    <3>1. index[id] \in view /\ Id(index[id]) = id
      BY <2>2 DEF Identified, TypeOK
    <3>2. index[id] = Ref(index[id].name, index[id].version)
      BY <3>1, <1>a
    <3>3. Current' = index[id]
      BY <2>1, <3>2 DEF Visit, Current
    <3> QED
      BY <3>1, <3>2, <3>3, ResolveExact
  <2>4. CASE c = index[id]
    <3>1. CASE WrapFails(id)
      BY <2>3, <2>4, <3>1 DEF WrapFails, Blame, Accounted
    <3>2. CASE WrapOnly(id)
      BY <2>2, <3>2 DEF WrapOnly, Goal
    <3>3. CASE Wrap(id)
      BY <2>3, <2>4, <3>3 DEF Wrap, Accounted
    <3> QED
      BY <1>13, <3>1, <3>2, <3>3
  <2>5. CASE c # index[id]
    BY <2>2, <2>3, <2>5 DEF NothingLost, Accounted, Loading, Syncing
  <2> QED
    BY <2>4, <2>5
<1>14. CASE Push \/ PushFails
  <2>1. /\ c \in Goal /\ pc = "push" /\ aborted = "no" /\ pc' = "sync"
        /\ UNCHANGED <<index, pending>> /\ target \subseteq target' /\ blamed \subseteq blamed'
    BY <1>14, <1>c, <1>d DEF Push, PushFails, Blame
  <2>2. c = Current => c \in target' \/ c \in blamed'
    BY <1>14, <2>1, ResolveExact DEF Push, PushFails, Blame, Identified, Current
  <2> QED
    BY <2>1, <2>2 DEF NothingLost, Accounted, Loading, Syncing
<1>15. CASE Finish
  BY <1>15, <1>c, <1>d DEF Finish, NothingLost, Accounted, Loading, Syncing
<1>16. CASE Crash \/ FetchPanics
  BY <1>16, <1>d DEF Crash, FetchPanics
<1>17. CASE UNCHANGED vars
  BY <1>17, <1>c, <1>d DEF vars, NothingLost, Accounted, Current
<1> QED
  BY <1>1, <1>2, <1>3, <1>4, <1>5, <1>6, <1>7, <1>8, <1>9, <1>10, <1>11, <1>12, <1>13, <1>14,
     <1>15, <1>16, <1>17, <1>18 DEF Next, LoadStep, SyncStep
-----------------------------------------------------------------------------
(* The safety theorems. *)

SafeInv ==
  /\ TypeOK
  /\ Identified
  /\ Remembered
  /\ NothingLost
  /\ StillMissing

LEMMA SafeInit == Init => SafeInv
<1> SUFFICES ASSUME Init PROVE SafeInv
  OBVIOUS
<1>1. TypeOK /\ Identified
  BY TypeInit, IdentifiedInit
<1> QED
  BY <1>1 DEF Init, SafeInv, Remembered, NothingLost, StillMissing, Loading, Syncing

LEMMA SafeNext ==
  ASSUME DistinctIds, CanonicalVersions, DistinctPrecedence, DatedCharts
  PROVE  SafeInv /\ [Next]_vars => SafeInv'
  BY TypeNext, IdentifiedNext, RememberedNext, NothingLostNext, StillMissingNext DEF SafeInv

LEMMA SafeMeansSynced == SafeInv => NoErrorMeansSynced
  BY DEF SafeInv, NoErrorMeansSynced, Remembered, NothingLost, Accounted, Loading, Syncing

\* Whatever the charts, the faults and the crashes: a run that ends without an
\* error has brought every chart its options ask for to the target, provided
\* charts are written canonically, told apart by id and precedence, and dated.
THEOREM NoErrorMeansSyncedTheorem ==
  ASSUME DistinctIds, CanonicalVersions, DistinctPrecedence, DatedCharts
  PROVE  Spec => []NoErrorMeansSynced
<1> QED
  BY SafeMeansSynced, SafeInit, SafeNext, PTL DEF Spec

\* A load that nothing cut short has lost no chart but those an error was about,
\* whether a name could not be listed or a version not be looked up, fetched,
\* wrapped or pushed.
THEOREM CallFailuresIsolatedTheorem ==
  ASSUME DistinctIds, CanonicalVersions, DistinctPrecedence, DatedCharts
  PROVE  Spec => []CallFailuresIsolated
<1>1. SafeInv => CallFailuresIsolated
  BY DEF SafeInv, TypeOK, CallFailuresIsolated, Returned, NothingLost, Accounted, Loading, Syncing
<1> QED
  BY <1>1, SafeInit, SafeNext, PTL DEF Spec

\* No version is unparsable, so the load is never cut short by one.
LEMMA NeverUnparsable ==
  ASSUME AllParsable
  PROVE  TypeOK /\ aborted # "version" /\ [Next]_vars => aborted' # "version"
<1> SUFFICES ASSUME TypeOK, aborted # "version", [Next]_vars, aborted' = "version"
             PROVE  FALSE
  OBVIOUS
<1>1. PICK n \in Names : ListUnparsable(n)
  BY DEF Next, LoadStep, SyncStep, vars, Publish, Start, StartFails, Fresh, Again, LoadCharts,
     LoadChartsFails, SkipName, ListFails, ListAllVersions, ListLatestVersion, Listing,
     NextName, ProcessFails, SkipVersion, FetchVersion, Process, FetchCached, FetchPanics, FetchFails,
     OpenDownload, DownloadDone, DownloadFails, CloseFails, LayersFail, FetchStep, Select,
     WrapFails, WrapOnly, Wrap, Visit, Push, PushFails, Finish, Crash
<1>2. view' \subseteq Charts
  BY <1>1 DEF ListUnparsable, TypeOK, Named
<1>3. ListedVersions(n) \subseteq Parsable
  BY <1>1, <1>2 DEF ListedVersions, Named, AllParsable, LatestOnly, ListUnparsable, TypeOK
<1> QED
  BY <1>1, <1>3 DEF ListUnparsable

\* Under the same conditions, and when semver accepts every version, a failing
\* chart costs no other chart: what is neither blamed nor copied is not owed.
THEOREM FailureIsolationTheorem ==
  ASSUME DistinctIds, CanonicalVersions, DistinctPrecedence, DatedCharts, AllParsable
  PROVE  Spec => []FailureIsolation
<1> DEFINE Inv == SafeInv /\ aborted # "version"
<1>1. Init => Inv
  BY SafeInit DEF Init
<1>2. Inv /\ [Next]_vars => Inv'
  BY SafeNext, NeverUnparsable DEF SafeInv
<1>3. Inv => FailureIsolation
  BY DEF SafeInv, TypeOK, FailureIsolation, Returned, NothingLost, Accounted, Loading, Syncing
<1> QED
  BY <1>1, <1>2, <1>3, PTL DEF Spec

\* A Syncer used once carries nothing from one call to another.
LEMMA UsedOnce ==
  ASSUME ~ Reused, carried = {}, [Next]_vars
  PROVE  carried' = {}
  BY DEF Next, LoadStep, SyncStep, vars, Publish, Start, StartFails, Fresh, Again, LoadCharts,
     LoadChartsFails, SkipName, ListFails, ListAllVersions, ListLatestVersion, ListUnparsable,
     First, Listing, NextName, ProcessFails, SkipVersion, FetchVersion, Process, FetchCached,
     FetchPanics, FetchFails, OpenDownload, DownloadDone, DownloadFails, CloseFails, LayersFail,
     FetchStep, Select, WrapFails, WrapOnly, Wrap, Visit, Push, PushFails, Finish, Crash

\* Whatever happened to earlier runs and calls, a chart the target has is pushed
\* only if an earlier call on the same Syncer indexed it; dates and precedence
\* play no part in it.
THEOREM PushesAgainOnlyCarriedTheorem ==
  ASSUME DistinctIds, CanonicalVersions
  PROVE  Spec => []PushesAgainOnlyCarried
<1> DEFINE Inv == TypeOK /\ Identified /\ StillMissing
<1>1. Init => Inv
  BY SafeInit DEF SafeInv
<1>2. Inv /\ [Next]_vars => Inv'
  BY TypeNext, IdentifiedNext, StillMissingNext
<1>3. Inv => PushesAgainOnlyCarried
  BY DEF Identified, StillMissing, NewUnlessCarried, PushesAgainOnlyCarried
<1> QED
  BY <1>1, <1>2, <1>3, PTL DEF Spec

\* So as long as a Syncer is used once, only charts missing from the target are
\* ever pushed.
THEOREM PushesOnlyMissingTheorem ==
  ASSUME DistinctIds, CanonicalVersions, ~ Reused
  PROVE  Spec => []PushesOnlyMissing
<1>1. Init => carried = {}
  BY DEF Init
<1>2. carried = {} /\ [Next]_vars => (carried = {})'
  BY UsedOnce
<1>3. PushesAgainOnlyCarried /\ carried = {} => PushesOnlyMissing
  BY DEF PushesAgainOnlyCarried, PushesOnlyMissing
<1> QED
  BY <1>1, <1>2, <1>3, PushesAgainOnlyCarriedTheorem, PTL DEF Spec
-----------------------------------------------------------------------------
(* Runs end. *)

\* No step of a run leads back, whatever fails on the way: with finitely many names
\* and versions a run has finitely many steps.
THEOREM RunsEndTheorem == Spec => RunsEnd
<1>1. ASSUME LoadStep \/ SyncStep PROVE Advance
  <2>1. CASE LoadCharts \/ LoadChartsFails
    BY <2>1 DEF LoadCharts, LoadChartsFails, Advance, Phase, Loading
  <2>2. ASSUME NEW n \in Names,
               \/ SkipName(n) \/ ListAllVersions(n) \/ ListLatestVersion(n)
               \/ ListUnparsable(n) \/ ListFails(n)
        PROVE  Advance
    <3>1. Shorter(todo', todo) /\ pc' = pc
      BY <2>2 DEF SkipName, ListAllVersions, ListLatestVersion, Listing, ListUnparsable, ListFails,
         NextName, First, Shorter
    <3> QED
      BY <3>1 DEF Advance, Phase
  <2>3. ASSUME NEW v \in Versions, ProcessFails(v) \/ SkipVersion(v) \/ FetchVersion(v)
        PROVE  Advance
    <3>1. /\ todo' = todo /\ Shorter(vtodo', vtodo)
          /\ pc = "load" /\ pc' \in {"load", "fetch"}
      BY <2>3 DEF ProcessFails, SkipVersion, FetchVersion, Process, Shorter
    <3> QED
      BY <3>1 DEF Advance, Phase, Loading
  <2>4. CASE FetchPanics
    BY <2>4 DEF FetchPanics, Advance, Phase, Loading, Syncing
  <2>5. CASE \/ FetchCached \/ FetchFails \/ OpenDownload
             \/ DownloadDone \/ DownloadFails \/ CloseFails \/ LayersFail
    <3>1. /\ UNCHANGED <<todo, vtodo, pending>>
          /\ \/ pc = "fetch" /\ pc' \in {"load", "download"}
             \/ pc = "download" /\ pc' = "load"
      BY <2>5 DEF FetchCached, FetchFails, OpenDownload, DownloadDone, DownloadFails, CloseFails,
         LayersFail, FetchStep
    <3> QED
      BY <3>1 DEF Advance, Phase, Detour, Loading
  <2>6. CASE Select \/ Finish
    <3>1. \/ pc = "load" /\ pc' \in {"noCharts", "sync"}
          \/ pc = "sync" /\ pc' \in {"failed", "synced"}
      BY <2>6 DEF Select, Finish
    <3> QED
      BY <3>1 DEF Advance, Phase, Loading, Syncing
  <2>7. ASSUME NEW id \in Ids, WrapFails(id) \/ WrapOnly(id) \/ Wrap(id) PROVE Advance
    <3>1. /\ UNCHANGED <<todo, vtodo>> /\ Shorter(pending', pending)
          /\ pc = "sync" /\ pc' \in {"sync", "push"}
      BY <2>7 DEF WrapFails, WrapOnly, Wrap, Visit, Shorter
    <3> QED
      BY <3>1 DEF Advance, Phase, Loading, Syncing
  <2>8. CASE Push \/ PushFails
    <3>1. UNCHANGED <<todo, vtodo, pending>> /\ pc = "push" /\ pc' = "sync"
      BY <2>8 DEF Push, PushFails
    <3> QED
      BY <3>1 DEF Advance, Phase, Detour, Loading, Syncing
  <2> QED
    BY <1>1, <2>1, <2>2, <2>3, <2>4, <2>5, <2>6, <2>7, <2>8 DEF LoadStep, SyncStep
<1>2. [Next]_vars => [LoadStep \/ SyncStep => Advance]_vars
  BY <1>1
<1> QED
  BY <1>2, PTL DEF Spec, RunsEnd
-----------------------------------------------------------------------------
(* Nothing is made up. *)

\* Whatever has come over from the source was published there: what is listed, what
\* is cached, what is being pushed and what the target has.
FromSource ==
  /\ entries \subseteq source /\ view \subseteq source /\ target \subseteq source
  /\ \A id \in Ids : cache[id] \in Charts => cache[id] \in source
  /\ wrap \in Charts => wrap \in source

LEMMA FromSourceNext == TypeOK /\ FromSource /\ [Next]_vars => FromSource'
<1> SUFFICES ASSUME TypeOK, FromSource, [Next]_vars PROVE FromSource'
  OBVIOUS
<1>a. /\ Absent \notin Charts /\ Torn \notin Charts
      /\ cache \in [Ids -> Charts \cup {Absent, Torn}]
      /\ \A n, v : Resolve(n, v) \subseteq view
      /\ pc = "push" => wrap \in Charts
  BY EnvironmentAssumption, ResolveInView DEF TypeOK
<1> USE DEF FromSource
<1>1. CASE Publish
  BY <1>1 DEF Publish
<1>2. CASE Start \/ StartFails
  <2>1. /\ UNCHANGED <<source, target>> /\ wrap' = Absent
        /\ cache' = cache \/ cache' = [id \in Ids |-> Absent]
    BY <1>2 DEF Start, StartFails, Fresh
  <2>2. entries' \subseteq source /\ view' \subseteq source
    BY <1>2 DEF Start, StartFails, Fresh
  <2> QED
    BY <2>1, <2>2, <1>a
<1>3. CASE Again \/ LoadCharts \/ LoadChartsFails
  BY <1>3 DEF Again, LoadCharts, LoadChartsFails
<1>4. ASSUME NEW n \in Names,
             \/ SkipName(n) \/ ListFails(n)
             \/ ListAllVersions(n) \/ ListLatestVersion(n) \/ ListUnparsable(n)
      PROVE  FromSource'
  <2>1. /\ UNCHANGED <<source, target, cache, wrap, entries>>
        /\ view' = view \/ view' = view \cup Named(source, n)
    BY <1>4 DEF SkipName, ListFails, ListAllVersions, ListLatestVersion, ListUnparsable, Listing,
       NextName
  <2> QED
    BY <2>1 DEF Named
<1>5. ASSUME NEW v \in Versions, ProcessFails(v) \/ SkipVersion(v) \/ FetchVersion(v)
      PROVE  FromSource'
  BY <1>5 DEF ProcessFails, SkipVersion, FetchVersion, Process
<1>6. CASE FetchCached \/ FetchPanics \/ FetchFails \/ LayersFail
  BY <1>6 DEF FetchCached, FetchPanics, FetchFails, LayersFail, FetchStep
<1>7. CASE OpenDownload \/ DownloadFails
  <2>1. /\ UNCHANGED <<source, target, wrap, entries, view>>
        /\ \E x \in {Absent, Torn} : cache' = [cache EXCEPT ![Id(Current)] = x]
    BY <1>7 DEF OpenDownload, DownloadFails, Invalidated, FetchStep
  <2> QED
    BY <2>1, <1>a
<1>8. CASE DownloadDone \/ CloseFails
  <2>1. /\ UNCHANGED <<source, target, wrap, entries, view>>
        /\ \E c \in view : cache' = [cache EXCEPT ![Id(Current)] = c]
    BY <1>8, <1>a DEF DownloadDone, CloseFails, FetchStep
  <2> QED
    BY <2>1, <1>a
<1>9. CASE Select \/ Finish \/ Crash
  BY <1>9 DEF Select, Finish, Crash
<1>10. ASSUME NEW id \in Ids, WrapFails(id) \/ WrapOnly(id) \/ Wrap(id) PROVE FromSource'
  BY <1>10 DEF WrapFails, WrapOnly, Wrap, Visit
<1>11. CASE Push \/ PushFails
  BY <1>11, <1>a DEF Push, PushFails
<1>12. CASE UNCHANGED vars
  BY <1>12 DEF vars
<1> QED
  BY <1>1, <1>2, <1>3, <1>4, <1>5, <1>6, <1>7, <1>8, <1>9, <1>10, <1>11, <1>12
     DEF Next, LoadStep, SyncStep

\* Also where ids collide, versions are not canonical, packages are torn and runs
\* are killed: the target only ever has charts, whole, of the source.
THEOREM FromSourceTheorem == Spec => []FromSource
<1>1. Init => FromSource
  BY EnvironmentAssumption DEF Init, FromSource
<1>2. TypeOK /\ FromSource /\ [Next]_vars => FromSource'
  BY FromSourceNext
<1> QED
  BY <1>1, <1>2, TypeCorrect, PTL DEF Spec
-----------------------------------------------------------------------------
(* What is torn stays torn. *)

\* The chart's package is cut short, nobody is writing it, and the target lacks it.
Stuck(c) ==
  /\ c \notin target
  /\ cache[Id(c)] = Torn /\ ~ (pc = "download" /\ c = Current)

\* What is being pushed is in the cache.
PushedIsCached == pc = "push" => cache[Id(Current)] = wrap

LEMMA PushedIsCachedNext ==
  ASSUME TypeOK, Identified, PushedIsCached, [Next]_vars
  PROVE  PushedIsCached'
<1> USE DEF PushedIsCached
<1>1. ASSUME NEW id \in Ids, Wrap(id) PROVE PushedIsCached'
  <2>1. /\ index[id] # Absent /\ Id(index[id]) = id /\ index[id] \in Refs
        /\ name' = index[id].name /\ version' = index[id].version
        /\ UNCHANGED cache /\ wrap' = cache[id]
    BY <1>1 DEF Wrap, Visit, Identified, TypeOK
  <2>2. Current' = index[id]
    BY <2>1, RefType DEF Current
  <2> QED
    BY <2>1, <2>2
<1>2. CASE Publish \/ UNCHANGED vars
  BY <1>2 DEF Publish, vars, Current
<1>3. CASE Next /\ ~ Publish /\ ~ \E id \in Ids : Wrap(id)
  <2>1. pc' # "push"
    BY <1>3 DEF Next, LoadStep, SyncStep, Start, StartFails, Again, LoadCharts, LoadChartsFails,
       SkipName, ListFails, ListAllVersions, ListLatestVersion, Listing, ListUnparsable, NextName,
       First, ProcessFails, SkipVersion, FetchVersion, Process, FetchCached, FetchPanics,
       FetchFails, OpenDownload, DownloadDone, DownloadFails, CloseFails, LayersFail, Select,
       WrapFails, WrapOnly, Visit, Push, PushFails, Finish, Crash
  <2> QED
    BY <2>1
<1> QED
  BY <1>1, <1>2, <1>3

LEMMA StuckNext ==
  ASSUME DistinctIds, PersistentWorkdir, TypeOK, Identified, PushedIsCached,
         NEW c \in Charts, Stuck(c), [Next]_vars
  PROVE  Stuck(c)'
<1>a. /\ c \in Refs /\ Id(c) \in Ids /\ Current \in Refs /\ Id(Current) \in Ids
      /\ Absent # Torn /\ Torn \notin Charts
      /\ cache \in [Ids -> Charts \cup {Absent, Torn}]
      /\ Id(c) = Id(Current) => c = Current
  BY ChartsAssumption, EnvironmentAssumption, RefType DEF TypeOK, Current, DistinctIds
<1> USE DEF Stuck
<1>b. ASSUME UNCHANGED <<target, cache>>, pc' # "download" PROVE Stuck(c)'
  BY <1>b
<1>1. CASE Publish
  BY <1>1 DEF Publish, Current
<1>2. CASE Start \/ StartFails \/ Again
  <2>1. UNCHANGED <<target, cache>> /\ pc' # "download"
    BY <1>2 DEF Start, StartFails, Fresh, Again
  <2> QED
    BY <2>1
<1>3. CASE LoadCharts \/ LoadChartsFails \/ Select \/ Finish \/ Crash
  BY <1>3, <1>b DEF LoadCharts, LoadChartsFails, Select, Finish, Crash
<1>4. ASSUME NEW n \in Names,
             \/ SkipName(n) \/ ListFails(n)
             \/ ListAllVersions(n) \/ ListLatestVersion(n) \/ ListUnparsable(n)
      PROVE  Stuck(c)'
  BY <1>4, <1>b DEF SkipName, ListFails, ListAllVersions, ListLatestVersion, ListUnparsable,
     Listing, NextName, First
<1>5. ASSUME NEW v \in Versions, ProcessFails(v) \/ SkipVersion(v) \/ FetchVersion(v)
      PROVE  Stuck(c)'
  BY <1>5, <1>b DEF ProcessFails, SkipVersion, FetchVersion, Process
<1>6. CASE FetchCached \/ FetchPanics \/ FetchFails \/ LayersFail
  BY <1>6, <1>b DEF FetchCached, FetchPanics, FetchFails, LayersFail, FetchStep
<1>7. CASE OpenDownload
  <2>1. cache[Id(Current)] = Absent /\ UNCHANGED <<target, name, version>>
        /\ cache' = [cache EXCEPT ![Id(Current)] = Torn]
    BY <1>7 DEF OpenDownload, FetchStep
  <2> QED
    BY <2>1, <1>a DEF Current
<1>8. CASE DownloadDone \/ CloseFails \/ DownloadFails
  <2>1. /\ pc = "download" /\ pc' = "load" /\ UNCHANGED target
        /\ \E x : cache' = [cache EXCEPT ![Id(Current)] = x]
    BY <1>8 DEF DownloadDone, CloseFails, DownloadFails, Invalidated, FetchStep
  <2> QED
    BY <2>1, <1>a
<1>9. ASSUME NEW id \in Ids, WrapFails(id) \/ WrapOnly(id) \/ Wrap(id) PROVE Stuck(c)'
  BY <1>9, <1>b DEF WrapFails, WrapOnly, Wrap, Visit
<1>10. CASE Push \/ PushFails
  <2>1. /\ pc = "push" /\ pc' = "sync" /\ UNCHANGED cache
        /\ target' \in {target, target \cup {wrap}}
    BY <1>10 DEF Push, PushFails
  <2>2. wrap = Current /\ wrap \in Charts /\ cache[Id(wrap)] = wrap
    BY <2>1 DEF Identified, PushedIsCached, TypeOK
  <2> QED
    BY <2>1, <2>2, <1>a
<1>11. CASE UNCHANGED vars
  BY <1>11 DEF vars, Current
<1> QED
  BY <1>1, <1>2, <1>3, <1>4, <1>5, <1>6, <1>7, <1>8, <1>9, <1>10, <1>11
     DEF Next, LoadStep, SyncStep

\* A download cut short costs the chart for as long as the working directory is
\* kept: no later run heals the file, and none brings the chart over, whatever
\* the fairness. Only a write in progress is another matter.
TornForGood == [][\A c \in Charts : Stuck(c) => Stuck(c)']_vars

\* Chart by chart, from what a kept working directory keeps.
THEOREM TornForGoodTheorem ==
  ASSUME DistinctIds, CanonicalVersions, PersistentWorkdir
  PROVE  Spec => TornForGood
<1> DEFINE Inv == TypeOK /\ Identified /\ PushedIsCached
<1>1. Init => Inv
  BY TypeInit, IdentifiedInit DEF Init, PushedIsCached
<1>2. Inv /\ [Next]_vars => Inv'
  BY TypeNext, IdentifiedNext, PushedIsCachedNext
<1>3. Inv /\ [Next]_vars => [\A c \in Charts : Stuck(c) => Stuck(c)']_vars
  BY StuckNext
<1> QED
  BY <1>1, <1>2, <1>3, PTL DEF Spec, TornForGood
==============================================================================
