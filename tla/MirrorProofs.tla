---------------------------- MODULE MirrorProofs -----------------------------
(* Syncer implements ChartMirror, and each of its cache files CacheFile, for  *)
(* every value of its constants.                                             *)
EXTENDS SyncerProofs, FiniteSetTheorems

-----------------------------------------------------------------------------
(* What this needs beyond the safety proofs: every chart at hand is one the *)
(* run was asked for, and the charts of earlier calls are not lost.         *)

\* A listing semver accepts has a highest version.
HighestExists == \A vs \in SUBSET Parsable : vs # {} => Highest(vs) # {}

\* It does as soon as the versions are finitely many: the version with the fewest
\* versions above it has none.
LEMMA FiniteHighest == IsFiniteSet(Parsable) => HighestExists
<1> SUFFICES ASSUME IsFiniteSet(Parsable), NEW vs \in SUBSET Parsable, vs # {}
             PROVE  Highest(vs) # {}
  BY DEF HighestExists
<1> DEFINE Above(v) == {w \in vs : ~ (Precedence[w] <= Precedence[v])}
           Aboves == {Above(v) : v \in vs}
<1>1. Aboves \subseteq FiniteSubsetsOf(Parsable) /\ Aboves # {}
  <2>1. ASSUME NEW v \in vs PROVE Above(v) \in FiniteSubsetsOf(Parsable)
    BY FS_Subset DEF FiniteSubsetsOf
  <2> QED
    BY <2>1
<1>2. IsWellFoundedOn(StrictSubsetOrdering(Parsable), FiniteSubsetsOf(Parsable))
  BY FS_StrictSubsetOrderingWellFounded
<1>3. PICK A \in Aboves : \A B \in Aboves : ~ (<<B, A>> \in StrictSubsetOrdering(Parsable))
  <2> HIDE DEF Aboves
  <2> QED
    BY <1>1, <1>2, WFMin
<1>4. PICK v \in vs : A = Above(v)
  OBVIOUS
<1>5. ASSUME NEW w \in vs, ~ (Precedence[w] <= Precedence[v]) PROVE FALSE
  <2>1. \A u \in vs : Precedence[u] \in Nat
    BY ChartsAssumption
  <2>2. Above(w) \subseteq Above(v)
    BY <1>5, <2>1
  <2>3. w \in Above(v) /\ w \notin Above(w)
    BY <1>5, <2>1
  <2>4. <<Above(w), Above(v)>> \in StrictSubsetOrdering(Parsable)
    BY <2>2, <2>3 DEF StrictSubsetOrdering
  <2> QED
    BY <1>3, <1>4, <2>4
<1> QED
  BY <1>5 DEF Highest

\* The date aside, the configuration asks for c.
Eligible(c) ==
  /\ c.name \in Requested
  /\ ~ ShouldSkip(c.name)
  /\ cfg.latestOnly =>
       /\ c.version \in Parsable
       /\ \A d \in Named(view, c.name) :
            d.version \in Parsable => Precedence[d.version] <= Precedence[c.version]

\* A readable --from-date, and c is one of the charts asked for.
Selected(c) == cfg.from # BadDate /\ Asked(c)

\* c was indexed by an earlier call, or is one this call was asked for.
Justified(c) == c \in carried \/ Selected(c)

Indexed == {index[id] : id \in {i \in Ids : index[i] # Absent}}

OnlySelected ==
  /\ pc \in Loading => todo \subseteq Requested
  /\ pc \in Loading /\ (todo # {} \/ vtodo # {}) => cfg.from # BadDate
  /\ pc \in Loading => \A v \in vtodo : Eligible(Ref(name, v)) /\ name \notin todo
  /\ pc \in {"fetch", "download"} => Selected(Current) /\ name \notin todo
  /\ pc = "request" => Indexed \subseteq carried /\ todo = {}
  /\ pc \in Loading \cup Syncing => \A r \in Indexed : Justified(r)
  /\ pc \in Loading => \A r \in Indexed \ carried : r.name \notin todo
  /\ pc = "push" => ~ cfg.dryRun /\ Justified(Current)

CarriedKept ==
  /\ \A r \in carried : index[Id(r)] = r
  /\ pc \in Syncing /\ ~ cfg.dryRun =>
       \A r \in carried : \/ r \in target \/ errs
                          \/ Id(r) \in pending
                          \/ pc = "push" /\ r = Current

LEMMA OnlySelectedInit == Init => OnlySelected /\ CarriedKept
  BY DEF Init, OnlySelected, CarriedKept, Loading, Syncing

\* The charts of earlier calls stay indexed, and are copied like the others.
LEMMA CarriedKeptNext ==
  ASSUME DistinctIds, TypeOK, TypeOK', Identified, Identified', CarriedKept, [Next]_vars
  PROVE  CarriedKept'
<1>a. /\ index \in [Ids -> Refs \cup {Absent}] /\ Current \in Refs /\ Id(Current) \in Ids
      /\ carried \subseteq Refs /\ Absent \notin Refs
      /\ \A r \in Refs : Id(r) \in Ids /\ r = Ref(r.name, r.version)
  BY EnvironmentAssumption, RefType DEF TypeOK, Current
<1> USE DEF CarriedKept
<1>1. CASE Publish
  BY <1>1 DEF Publish, Current
<1>2. CASE Start \/ StartFails
  BY <1>2 DEF Start, StartFails, Fresh, Syncing
<1>3. CASE Again
  BY <1>3 DEF Again, Identified, Syncing
<1>4. CASE LoadCharts \/ LoadChartsFails
  BY <1>4 DEF LoadCharts, LoadChartsFails, Syncing
<1>5. ASSUME NEW n \in Names,
             \/ SkipName(n) \/ ListFails(n)
             \/ ListAllVersions(n) \/ ListLatestVersion(n) \/ ListUnparsable(n)
      PROVE  CarriedKept'
  BY <1>5 DEF SkipName, ListFails, ListAllVersions, ListLatestVersion, ListUnparsable,
     Listing, NextName, First, Syncing
<1>6. ASSUME NEW v \in Versions, ProcessFails(v) \/ SkipVersion(v) \/ FetchVersion(v)
      PROVE  CarriedKept'
  BY <1>6 DEF ProcessFails, SkipVersion, FetchVersion, Process, Syncing
<1>7. CASE FetchCached \/ DownloadDone
  BY <1>7, <1>a DEF FetchCached, DownloadDone, FetchStep, AddToIndex, DistinctIds, Syncing
<1>8. CASE FetchPanics \/ FetchFails \/ OpenDownload \/ DownloadFails \/ CloseFails \/ LayersFail
  BY <1>8 DEF FetchPanics, FetchFails, OpenDownload, DownloadFails, CloseFails, LayersFail,
     FetchStep, Syncing
<1>9. CASE Select
  BY <1>9, <1>a DEF Select, Syncing
<1>10. ASSUME NEW id \in Ids, WrapFails(id) \/ WrapOnly(id) \/ Wrap(id) PROVE CarriedKept'
  <2>1. Visit(id) /\ pc \in Syncing /\ pc # "push"
    BY <1>10 DEF WrapFails, WrapOnly, Wrap, Visit, Syncing
  <2>2. UNCHANGED <<index, carried, target, cfg>> /\ pending' = pending \ {id}
    BY <2>1 DEF Visit
  <2>3. index[id] \in Refs /\ Current' = index[id]
    BY <2>1, <1>a DEF Visit, TypeOK, Current, Ref
  <2>4. errs => errs'
    BY <1>10 DEF WrapFails, WrapOnly, Wrap, Blame
  <2>5. \A r \in carried : Id(r) = id => r = index[id]
    BY <1>a
  <2>6. CASE WrapFails(id)
    BY <2>2, <2>6 DEF WrapFails, Blame
  <2>7. CASE WrapOnly(id)
    BY <2>2, <2>7 DEF WrapOnly
  <2>8. CASE Wrap(id)
    BY <2>1, <2>2, <2>3, <2>4, <2>5, <2>8 DEF Wrap
  <2> QED
    BY <1>10, <2>6, <2>7, <2>8
<1>11. CASE Push \/ PushFails
  BY <1>11, <1>a DEF Push, PushFails, Blame, Identified, Syncing
<1>12. CASE Finish \/ Crash
  BY <1>12 DEF Finish, Crash, Syncing
<1>13. CASE UNCHANGED vars
  BY <1>13 DEF vars, Current
<1> QED
  BY <1>1, <1>2, <1>3, <1>4, <1>5, <1>6, <1>7, <1>8, <1>9, <1>10, <1>11, <1>12, <1>13
     DEF Next, LoadStep, SyncStep

\* Listing one name changes what is asked of that name only.
LEMMA ListingAsks ==
  ASSUME NEW n, UNCHANGED <<cfg, entries>>,
         view' \in {view, view \cup Named(source, n)}, NEW c, c.name # n
  PROVE  Selected(c)' <=> Selected(c)
<1>1. Named(view', c.name) = Named(view, c.name)
  BY DEF Named
<1> QED
  BY <1>1 DEF Selected, Asked, AskedBy, PublishedAt, NamesIn

\* The filters leave only charts that were asked for.
LEMMA EligibleIsSelected ==
  ASSUME TypeOK, NEW c \in view, Eligible(c), ~ TooOld(c), cfg.from # BadDate
  PROVE  Selected(c)
<1>1. cfg.from = NoDate \/ PublishedAt(c) >= cfg.from
  <2>1. CASE cfg.from # NoDate
    <3>1. PublishedAt(c) \in Nat /\ cfg.from \in Nat
      BY <2>1, ChartsAssumption, EnvironmentAssumption DEF TypeOK, PublishedAt, ConfigRecords
    <3> QED
      BY <2>1, <3>1 DEF TooOld, Threshold
  <2> QED
    BY <2>1
<1>2. /\ cfg.charts = {} \/ c.name \in cfg.charts
      /\ cfg.charts = {} => c.name \in NamesIn(entries)
  BY DEF Eligible, Requested, Discovered, Listed
<1> QED
  BY <1>1, <1>2 DEF Eligible, Selected, Asked, AskedBy, ShouldSkip

\* No step indexes, fetches or pushes a chart nobody asked for.
LEMMA OnlySelectedNext ==
  ASSUME DistinctIds, CanonicalVersions, TypeOK, TypeOK', Identified, Identified',
         OnlySelected, [Next]_vars
  PROVE  OnlySelected'
<1>a. /\ index \in [Ids -> Refs \cup {Absent}] /\ Current \in Refs /\ Id(Current) \in Ids
      /\ Absent \notin Refs /\ view \subseteq Charts /\ Charts \subseteq Refs
      /\ \A r \in Refs : Id(r) \in Ids /\ r = Ref(r.name, r.version)
  BY EnvironmentAssumption, ChartsAssumption, RefType DEF TypeOK, Current
<1>b. ASSUME UNCHANGED <<cfg, entries, view>>
      PROVE  /\ Requested' = Requested
             /\ \A c : (Selected(c)' <=> Selected(c)) /\ (Eligible(c)' <=> Eligible(c))
  BY <1>b DEF Requested, Discovered, Listed, Selected, Asked, AskedBy, PublishedAt, Eligible,
     ShouldSkip, Named
<1>c. ASSUME UNCHANGED <<cfg, entries, view, carried>>
      PROVE  \A c : Justified(c)' <=> Justified(c)
  BY <1>b, <1>c DEF Justified
<1>d. ASSUME UNCHANGED index PROVE Indexed' = Indexed
  BY <1>d DEF Indexed
<1> USE DEF OnlySelected
<1>1. CASE Publish
  <2>1. UNCHANGED <<cfg, entries, view, carried, index, pc, todo, vtodo, name, version>>
    BY <1>1 DEF Publish
  <2> QED
    BY <2>1, <1>b, <1>c, <1>d DEF Current
<1>2. CASE Start \/ StartFails
  <2>1. pc' \in {"request", "refused"} /\ Indexed' = {} /\ todo' = {}
    BY <1>2 DEF Start, StartFails, Fresh, NoIndex, Indexed
  <2> QED
    BY <2>1 DEF Loading, Syncing
<1>3. CASE Again
  BY <1>3 DEF Again, Indexed, Loading, Syncing
<1>4. CASE LoadCharts \/ LoadChartsFails
  <2>1. /\ pc = "request" /\ pc' = "load" /\ vtodo' = {}
        /\ UNCHANGED <<cfg, entries, view, carried, index>>
    BY <1>4 DEF LoadCharts, LoadChartsFails, Identified
  <2>2. todo' \subseteq Requested /\ (todo' # {} => cfg.from # BadDate)
    BY <1>4 DEF LoadCharts, LoadChartsFails
  <2>3. Indexed' \subseteq carried'
    BY <2>1, <1>d
  <2> QED
    BY <2>1, <2>2, <2>3, <1>b DEF Loading, Syncing, Justified
<1>5. ASSUME NEW n \in Names, SkipName(n) \/ ListFails(n) PROVE OnlySelected'
  <2>1. /\ pc = "load" /\ vtodo = {} /\ n \in todo /\ todo' = todo \ {n}
        /\ UNCHANGED <<pc, vtodo, cfg, entries, view, carried, index>>
    BY <1>5 DEF SkipName, ListFails, NextName, First
  <2> QED
    BY <2>1, <1>b, <1>c, <1>d DEF Loading, Syncing
<1>6. ASSUME NEW n \in Names, ListAllVersions(n) \/ ListLatestVersion(n) \/ ListUnparsable(n)
      PROVE  OnlySelected'
  <2>1. /\ pc = "load" /\ vtodo = {} /\ n \in todo /\ todo' \subseteq todo \ {n} /\ name' = n
        /\ UNCHANGED <<pc, cfg, entries, carried, index>> /\ ~ ShouldSkip(n)
        /\ view' \in {view, view \cup Named(source, n)}
    BY <1>6 DEF ListAllVersions, ListLatestVersion, ListUnparsable, Listing, NextName, First
  <2>2. cfg.from # BadDate /\ Requested' = Requested /\ n \in Requested
    BY <2>1 DEF Loading, Requested, Discovered, Listed
  <2>3. Indexed' = Indexed /\ \A r \in Indexed : Justified(r)'
    <3>1. \A r \in Indexed : Justified(r) /\ (r \in carried \/ r.name # n)
      BY <2>1 DEF Loading
    <3> QED
      BY <2>1, <3>1, <1>d, ListingAsks DEF Justified
  <2>4. \A v \in vtodo' : Eligible(Ref(n, v))'
    <3>1. SUFFICES ASSUME NEW v \in vtodo' PROVE Eligible(Ref(n, v))'
      OBVIOUS
    <3>2. Ref(n, v).name = n /\ Ref(n, v).version = v
      BY DEF Ref
    <3>3. ASSUME cfg.latestOnly
          PROVE  /\ v \in Parsable
                 /\ \A d \in Named(view', n) :
                      d.version \in Parsable => Precedence[d.version] <= Precedence[v]
      <4>1. CASE ListAllVersions(n)
        BY <3>1, <3>3, <4>1 DEF ListAllVersions
      <4>2. CASE ListLatestVersion(n)
        <5>1. PICK w \in Highest(ListedVersions(n)) : vtodo' = {Canonical[w]}
          BY <4>2 DEF ListLatestVersion
        <5>2. v = w /\ v \in Parsable
          BY <3>1, <3>3, <4>2, <5>1 DEF ListLatestVersion, Highest, CanonicalVersions,
             LatestOnly, TypeOK
        <5>3. \A x \in ListedVersions(n) : Precedence[x] <= Precedence[v]
          BY <5>1, <5>2 DEF Highest
        <5> QED
          BY <5>2, <5>3 DEF ListedVersions
      <4>3. CASE ListUnparsable(n)
        BY <2>1, <3>1, <4>3 DEF ListUnparsable
      <4> QED
        BY <1>6, <4>1, <4>2, <4>3
    <3> QED
      BY <2>1, <2>2, <3>2, <3>3 DEF Eligible, ShouldSkip
  <2> QED
    BY <2>1, <2>2, <2>3, <2>4 DEF Loading, Syncing
<1>7. ASSUME NEW v \in Versions, ProcessFails(v) \/ SkipVersion(v) \/ FetchVersion(v)
      PROVE  OnlySelected'
  <2>1. /\ pc = "load" /\ v \in vtodo /\ vtodo' \subseteq vtodo
        /\ Eligible(Ref(name, v)) /\ name \notin todo /\ cfg.from # BadDate
        /\ UNCHANGED <<cfg, entries, view, carried, index, todo, name>>
    BY <1>7 DEF ProcessFails, SkipVersion, FetchVersion, Process, Loading
  <2>2. CASE FetchVersion(v)
    <3>1. Resolve(name, v) \subseteq {Ref(name, v)} /\ Ref(name, v) \in view
      BY <2>1, ResolveExact DEF Identified, Loading
    <3>2. ~ TooOld(Ref(name, v))
      BY <2>2, <3>1 DEF FetchVersion, NotWanted
    <3>3. pc' = "fetch" /\ Current' = Ref(name, v)
      BY <2>1, <2>2 DEF FetchVersion, Current
    <3>4. Selected(Ref(name, v))
      BY <2>1, <3>1, <3>2, EligibleIsSelected
    <3> QED
      BY <2>1, <3>3, <3>4, <1>b, <1>c, <1>d DEF Loading, Syncing
  <2>3. CASE ProcessFails(v) \/ SkipVersion(v)
    BY <2>1, <2>3, <1>b, <1>c, <1>d DEF ProcessFails, SkipVersion, Loading, Syncing
  <2> QED
    BY <1>7, <2>2, <2>3
<1>8. CASE FetchCached \/ DownloadDone
  <2>1. /\ pc \in {"fetch", "download"} /\ pc' = "load"
        /\ Selected(Current) /\ name \notin todo
        /\ UNCHANGED <<cfg, entries, view, carried, todo, vtodo, name, version>>
        /\ index' = [index EXCEPT ![Id(Current)] = Current]
    BY <1>8 DEF FetchCached, DownloadDone, FetchStep, AddToIndex
  <2>2. Indexed' \subseteq Indexed \cup {Current}
    BY <2>1, <1>a DEF Indexed
  <2>3. Current.name = name
    BY DEF Current, Ref
  <2> QED
    BY <2>1, <2>2, <2>3, <1>b, <1>c DEF Loading, Syncing, Justified
<1>9. CASE FetchPanics \/ FetchFails \/ OpenDownload \/ DownloadFails \/ CloseFails \/ LayersFail
  <2>1. /\ pc \in {"fetch", "download"} /\ pc' \in {"dead", "load", "download"}
        /\ UNCHANGED <<cfg, entries, view, carried, todo, vtodo, name, version, index>>
    BY <1>9 DEF FetchPanics, FetchFails, OpenDownload, DownloadFails, CloseFails, LayersFail,
       FetchStep
  <2> QED
    BY <2>1, <1>b, <1>c, <1>d DEF Loading, Syncing, Current
<1>10. CASE Select
  <2>1. /\ pc = "load" /\ pc' \in {"noCharts", "sync"}
        /\ UNCHANGED <<cfg, entries, view, carried, index>>
    BY <1>10 DEF Select
  <2> QED
    BY <2>1, <1>b, <1>c, <1>d DEF Loading, Syncing
<1>11. ASSUME NEW id \in Ids, WrapFails(id) \/ WrapOnly(id) \/ Wrap(id) PROVE OnlySelected'
  <2>1. Visit(id)
    BY <1>11 DEF WrapFails, WrapOnly, Wrap
  <2>2. /\ pc = "sync" /\ pc' \in {"sync", "push"} /\ (pc' = "push" => ~ cfg.dryRun)
        /\ UNCHANGED <<cfg, entries, view, carried, index>>
    BY <1>11, <2>1 DEF Visit, WrapFails, WrapOnly, Wrap
  <2>3. Current' = index[id] /\ index[id] \in Indexed
    BY <2>1, <1>a DEF Visit, TypeOK, Current, Ref, Indexed
  <2> QED
    BY <2>2, <2>3, <1>b, <1>c, <1>d DEF Loading, Syncing
<1>12. CASE Push \/ PushFails
  <2>1. /\ pc = "push" /\ pc' = "sync"
        /\ UNCHANGED <<cfg, entries, view, carried, index>>
    BY <1>12 DEF Push, PushFails
  <2> QED
    BY <2>1, <1>b, <1>c, <1>d DEF Loading, Syncing
<1>13. CASE Finish \/ Crash
  BY <1>13 DEF Finish, Crash, Loading, Syncing
<1>14. CASE UNCHANGED vars
  <2>1. UNCHANGED <<cfg, entries, view, carried, index, pc, todo, vtodo, name, version>>
    BY <1>14 DEF vars
  <2> QED
    BY <2>1, <1>b, <1>c, <1>d DEF Current
<1> QED
  BY <1>1, <1>2, <1>3, <1>4, <1>5, <1>6, <1>7, <1>8, <1>9, <1>10, <1>11, <1>12, <1>13, <1>14
     DEF Next, LoadStep, SyncStep
-----------------------------------------------------------------------------
(* The refinement. *)

\* What is owed depends on these variables only; what a running process reports.
LEMMA MirrorState ==
  /\ UNCHANGED <<cfg, entries, view, carried>> => Owed' = Owed
  /\ pc \in Running => Report = "running"
  /\ pc' \in Running => Report' = "running"
  /\ pc \in Ended => Report # "running"
<1>1. UNCHANGED <<cfg, entries, view, carried>> => Owed' = Owed
  BY DEF Owed, Goal, Asked, AskedBy, PublishedAt, Named, NamesIn
<1> QED
  BY <1>1 DEF Report, Running, Loading, Syncing, Ended, Returned

\* A chart is owed no longer only because a newer one of its name was listed.
LEMMA ListingSupersedes ==
  ASSUME HighestExists, SafeInv, SafeInv', UNCHANGED <<cfg, entries, carried>>,
         NEW n, view' = IF Live(n) THEN view \cup Named(source, n) ELSE view,
         NEW c \in Owed \ Owed'
  PROVE  \E d \in Owed' \ Owed : d.name = c.name
<1>a. /\ view \subseteq view' /\ view' \subseteq Charts /\ carried \subseteq view
      /\ \A d \in Charts : d.version \in Versions /\ d = Ref(d.name, d.version)
      /\ Precedence \in [Parsable -> Nat]
  BY ChartsAssumption, RefType DEF SafeInv, TypeOK, Identified
<1>1. /\ ~ cfg.dryRun /\ cfg.from # BadDate /\ c \in view /\ c \notin carried
      /\ Asked(c) /\ ~ Asked(c)'
  BY <1>a DEF Owed, Goal
<1>2. c.name = n
  BY <1>1, ListingAsks DEF Selected
<1>3. Live(n)
  BY <1>1 DEF Asked, AskedBy, PublishedAt, Named, NamesIn
<1>4. \A d \in Charts : PublishedAt(d) = Today
  BY <1>3 DEF Live, PublishedAt
<1> DEFINE Semantic == {d \in Named(view', n) : d.version \in Parsable}
<1>5. PICK v \in Highest({d.version : d \in Semantic}) : TRUE
  <2>1. /\ {d.version : d \in Semantic} \subseteq Parsable
        /\ cfg.latestOnly /\ c \in Semantic
    BY <1>1, <1>2, <1>a DEF Asked, AskedBy, PublishedAt, NamesIn, Named
  <2> QED
    BY <2>1 DEF HighestExists
<1>6. PICK d \in Semantic : d.version = v
  BY <1>5 DEF Highest
<1>7. \A e \in Semantic : Precedence[e.version] <= Precedence[d.version]
  BY <1>5, <1>6 DEF Highest
<1>8. d \in view' /\ d.name = n
  BY DEF Named
<1>9. Asked(d)'
  BY <1>1, <1>2, <1>4, <1>7, <1>8, <1>a DEF Asked, AskedBy, PublishedAt, NamesIn, Named
<1>10. d \notin view
  <2>1. SUFFICES ASSUME d \in view PROVE FALSE
    OBVIOUS
  <2>2. Precedence[d.version] <= Precedence[c.version]
    BY <1>1, <1>2, <1>8, <2>1 DEF Asked, AskedBy, Named
  <2>3. Asked(c)'
    <3>1. /\ cfg.latestOnly /\ c.version \in Parsable
      BY <1>1, <1>a DEF Asked, AskedBy, PublishedAt, NamesIn, Named
    <3>2. \A e \in Semantic : Precedence[e.version] <= Precedence[c.version]
      <4>1. SUFFICES ASSUME NEW e \in Semantic
                     PROVE  Precedence[e.version] <= Precedence[c.version]
        OBVIOUS
      <4>2. {Precedence[e.version], Precedence[d.version], Precedence[c.version]} \subseteq Nat
        BY <3>1, <1>6, <1>a
      <4>3. Precedence[e.version] <= Precedence[d.version]
        BY <1>7
      <4> HIDE DEF Semantic
      <4> QED
        BY <2>2, <4>2, <4>3
    <3> QED
      BY <1>1, <1>2, <3>1, <3>2 DEF Asked, AskedBy, PublishedAt, NamesIn, Named
  <2> QED
    BY <1>1, <2>3
<1> QED
  BY <1>1, <1>2, <1>8, <1>9, <1>10, <1>a DEF Owed, Goal

LEMMA MirrorInit == Init => Mirror!Init
  BY DEF Init, Mirror!Init, Owed, Goal, Report

\* Every step of a run is a step of the mirror, or none it can see.
LEMMA MirrorNext ==
  ASSUME HighestExists, SafeInv, SafeInv', OnlySelected, CarriedKept, [Next]_vars
  PROVE  [Mirror!Next]_(Mirror!mirrorVars)
<1>a. /\ TypeOK /\ TypeOK' /\ Identified /\ Identified' /\ Remembered
      /\ Goal \subseteq view /\ Goal' \subseteq view'
      /\ Owed \subseteq source /\ Owed' \subseteq source'
  BY DEF SafeInv, Identified, Owed, Goal
<1>b. ASSUME UNCHANGED <<source, target, cfg, entries, view, carried>>,
             pc \in Running, pc' \in Running
      PROVE  UNCHANGED Mirror!mirrorVars
  BY <1>b, MirrorState DEF Mirror!mirrorVars
<1>c. ASSUME UNCHANGED <<source, target, cfg, entries, view, carried>>, Report' = "failed"
      PROVE  Mirror!FinishFailed
  BY <1>c, MirrorState DEF Mirror!FinishFailed
<1>1. CASE Publish
  <2>1. Owed' = Owed /\ Report' = Report
    BY <1>1, MirrorState DEF Publish, Report
  <2> QED
    BY <1>1, <2>1 DEF Publish, Mirror!Next, Mirror!Publish
<1>2. CASE Start \/ Again
  <2>1. Report # "running" /\ Report' = "running"
    BY <1>2, MirrorState DEF Start, Again, Fresh, Ended, Running
  <2>2. UNCHANGED <<source, target>>
    BY <1>2 DEF Start, Again, Fresh
  <2> QED
    BY <2>1, <2>2, <1>a DEF Mirror!Next, Mirror!Begin
<1>3. CASE StartFails
  <2>1. Owed' = {} /\ Report' = "failed" /\ UNCHANGED <<source, target>>
    BY <1>3 DEF StartFails, Fresh, Owed, Goal, Report, Running, Loading, Syncing
  <2> QED
    BY <2>1 DEF Mirror!Next, Mirror!FinishFailed
<1>4. CASE LoadCharts \/ LoadChartsFails
  BY <1>4, <1>b DEF LoadCharts, LoadChartsFails, Running, Loading
<1>5. ASSUME NEW n \in Names, SkipName(n) \/ ListFails(n)
      PROVE  UNCHANGED Mirror!mirrorVars
  BY <1>5, <1>b DEF SkipName, ListFails, NextName, First, Running, Loading
<1>6. ASSUME NEW n \in Names, ListAllVersions(n) \/ ListLatestVersion(n) \/ ListUnparsable(n)
      PROVE  [Mirror!Next]_(Mirror!mirrorVars)
  <2>1. /\ pc \in Running /\ pc' \in Running
        /\ UNCHANGED <<source, target, cfg, entries, carried>>
        /\ view' = IF Live(n) THEN view \cup Named(source, n) ELSE view
    BY <1>6 DEF ListAllVersions, ListLatestVersion, ListUnparsable, Listing, NextName, First,
       Running, Loading
  <2>2. \A c \in Owed \ Owed' : \E d \in Owed' \ Owed : d.name = c.name
    BY <2>1, ListingSupersedes
  <2> QED
    BY <2>1, <2>2, <1>a, MirrorState DEF Mirror!Next, Mirror!Learn
<1>7. ASSUME NEW v \in Versions, ProcessFails(v) \/ SkipVersion(v) \/ FetchVersion(v)
      PROVE  UNCHANGED Mirror!mirrorVars
  BY <1>7, <1>b DEF ProcessFails, SkipVersion, FetchVersion, Process, Running, Loading
<1>8. CASE \/ FetchCached \/ FetchFails \/ OpenDownload
           \/ DownloadDone \/ DownloadFails \/ CloseFails \/ LayersFail
  BY <1>8, <1>b DEF FetchCached, FetchFails, OpenDownload, DownloadDone, DownloadFails,
     CloseFails, LayersFail, FetchStep, Running, Loading
<1>9. CASE FetchPanics \/ Crash
  <2>1. UNCHANGED <<source, target, cfg, entries, view, carried>> /\ Report' = "failed"
    BY <1>9 DEF FetchPanics, Crash, FetchStep, Report, Running, Loading, Syncing
  <2>2. Mirror!FinishFailed
    BY <2>1, <1>c
  <2> QED
    BY <2>2 DEF Mirror!Next
<1>10. CASE Select \/ Finish
  <2>1. /\ UNCHANGED <<source, target, cfg, entries, view, carried, index, errs>>
        /\ pc \in Running
    BY <1>10 DEF Select, Finish, Running, Loading, Syncing
  <2>2. CASE pc' = "sync"
    BY <2>1, <2>2, <1>b DEF Running, Syncing
  <2>3. CASE pc' \in {"noCharts", "synced"} /\ ~ errs
    <3>1. Goal \subseteq target
      <4>1. NoErrorMeansSynced'
        BY SafeMeansSynced, PTL
      <4>2. Goal' = Goal
        BY <2>1 DEF Goal, Asked, AskedBy, PublishedAt, Named, NamesIn
      <4> QED
        BY <2>1, <2>3, <4>1, <4>2 DEF NoErrorMeansSynced
    <3>2. ~ cfg.dryRun => carried \subseteq target
      <4>1. CASE Select
        <5>1. \A r \in carried : Id(r) \in Ids /\ index[Id(r)] # Absent
          BY <1>a, RefType, EnvironmentAssumption DEF CarriedKept, TypeOK
        <5> QED
          BY <2>3, <4>1, <5>1 DEF Select
      <4>2. CASE Finish
        BY <2>3, <4>2 DEF Finish, CarriedKept, Syncing
      <4> QED
        BY <1>10, <4>1, <4>2
    <3>3. Owed \subseteq target /\ Report = "running" /\ Report' = "synced"
      BY <2>1, <2>3, <3>1, <3>2, MirrorState DEF Owed, Report, Running, Loading, Syncing
    <3> QED
      BY <2>1, <3>3, MirrorState DEF Mirror!Next, Mirror!FinishSynced
  <2>4. CASE pc' = "failed" \/ (pc' \in {"noCharts", "synced"} /\ errs)
    <3>1. Report' = "failed"
      BY <2>1, <2>4 DEF Report, Running, Loading, Syncing
    <3> QED
      BY <2>1, <3>1, <1>c DEF Mirror!Next
  <2> QED
    BY <1>10, <2>2, <2>3, <2>4 DEF Select, Finish
<1>11. ASSUME NEW id \in Ids, WrapFails(id) \/ WrapOnly(id) \/ Wrap(id)
       PROVE  UNCHANGED Mirror!mirrorVars
  BY <1>11, <1>b DEF WrapFails, WrapOnly, Wrap, Visit, Running, Syncing
<1>12. CASE Push \/ PushFails
  <2>1. /\ pc \in Running /\ pc' \in Running
        /\ UNCHANGED <<source, cfg, entries, view, carried>>
        /\ target' \in {target, target \cup {Current}}
    BY <1>12, <1>a DEF Push, PushFails, Identified, Running, Syncing
  <2>2. Current \in Owed
    BY <1>12, <1>a DEF Push, PushFails, OnlySelected, Justified, Selected, Identified, Owed, Goal
  <2> QED
    BY <2>1, <2>2, MirrorState DEF Mirror!Next, Mirror!Copy, Mirror!mirrorVars
<1>13. CASE UNCHANGED vars
  BY <1>13, MirrorState DEF vars, Report, Mirror!mirrorVars
<1> QED
  BY <1>1, <1>2, <1>3, <1>4, <1>5, <1>6, <1>7, <1>8, <1>9, <1>10, <1>11, <1>12, <1>13
     DEF Next, LoadStep, SyncStep

\* Whatever the charts, the faults, the crashes and the number of calls on one
\* Syncer: its runs copy only what they owe, learn only of what is published,
\* and call themselves synced only when nothing they owe is missing.
THEOREM ImplementsMirrorTheorem ==
  ASSUME DistinctIds, CanonicalVersions, DistinctPrecedence, DatedCharts, IsFiniteSet(Parsable)
  PROVE  Spec => ImplementsMirror
<1> DEFINE Inv == SafeInv /\ OnlySelected /\ CarriedKept
<1>1. Init => Inv /\ Mirror!Init
  BY SafeInit, OnlySelectedInit, MirrorInit
<1>2. Inv /\ [Next]_vars => Inv'
  BY SafeNext, OnlySelectedNext, CarriedKeptNext DEF SafeInv
<1>3. Inv /\ Inv' /\ [Next]_vars => [Mirror!Next]_(Mirror!mirrorVars)
  BY MirrorNext, FiniteHighest
<1> QED
  BY <1>1, <1>2, <1>3, PTL DEF Spec, ImplementsMirror, Mirror!Spec
-----------------------------------------------------------------------------
(* The cache files. *)

\* A file not being written is not touched; the one being written is torn until
\* the download is done, and gone, whole or left as it is then.
LEMMA CacheFileNext ==
  ASSUME TypeOK, NEW id \in Ids, [Next]_vars
  PROVE  [CacheOf(id)!Next]_(CacheOf(id)!fileVars)
<1> DEFINE Mapped == CacheOf(id)!Next \/ UNCHANGED CacheOf(id)!fileVars
<1> SUFFICES Mapped
  OBVIOUS
<1>a. /\ cache \in [Ids -> Charts \cup {Absent, Torn}] /\ Id(Current) \in Ids
      /\ \A n, v : Resolve(n, v) \subseteq Charts
  BY RefType, ResolveInView DEF TypeOK, Current
<1>b. ASSUME UNCHANGED cache, pc # "download", pc' # "download"
      PROVE  Mapped
  BY <1>b DEF CacheOf!fileVars
<1>c. ASSUME UNCHANGED <<cache, pc, name, version>> PROVE Mapped
  BY <1>c DEF CacheOf!fileVars, Current
<1> HIDE DEF Mapped
<1>1. CASE Publish
  BY <1>1, <1>c DEF Publish
<1>2. CASE Start \/ StartFails
  <2>1. pc # "download" /\ pc' # "download" /\ cache'[id] \in {cache[id], Absent}
    BY <1>2, <1>a DEF Start, StartFails, Fresh, Ended, Returned
  <2> QED
    BY <2>1 DEF Mapped, CacheOf!Next, CacheOf!Remove, CacheOf!fileVars
<1>3. CASE Again \/ LoadCharts \/ LoadChartsFails
  BY <1>3, <1>b DEF Again, LoadCharts, LoadChartsFails, Returned
<1>4. ASSUME NEW n \in Names,
             \/ SkipName(n) \/ ListFails(n)
             \/ ListAllVersions(n) \/ ListLatestVersion(n) \/ ListUnparsable(n)
      PROVE  Mapped
  BY <1>4, <1>b DEF SkipName, ListFails, ListAllVersions, ListLatestVersion, ListUnparsable,
     Listing, NextName, First
<1>5. ASSUME NEW v \in Versions, ProcessFails(v) \/ SkipVersion(v) \/ FetchVersion(v)
      PROVE  Mapped
  BY <1>5, <1>b DEF ProcessFails, SkipVersion, FetchVersion, Process
<1>6. CASE FetchCached \/ FetchPanics \/ FetchFails
  BY <1>6, <1>b DEF FetchCached, FetchPanics, FetchFails, FetchStep
<1>7. CASE OpenDownload
  <2>1. /\ pc = "fetch" /\ pc' = "download" /\ Current' = Current
        /\ cache[Id(Current)] = Absent /\ cache' = [cache EXCEPT ![Id(Current)] = Torn]
    BY <1>7 DEF OpenDownload, FetchStep, Current
  <2> QED
    BY <2>1, <1>a DEF Mapped, CacheOf!Next, CacheOf!Create, CacheOf!fileVars
<1>8. CASE DownloadDone \/ CloseFails
  <2>1. PICK c \in Charts : cache' = [cache EXCEPT ![Id(Current)] = c]
    BY <1>8, <1>a DEF DownloadDone, CloseFails
  <2>2. pc = "download" /\ pc' = "load"
    BY <1>8 DEF DownloadDone, CloseFails
  <2> QED
    BY <2>1, <2>2, <1>a DEF Mapped, CacheOf!Next, CacheOf!Complete, CacheOf!fileVars
<1>9. CASE DownloadFails
  <2>1. pc = "download" /\ pc' = "load" /\ cache' = [cache EXCEPT ![Id(Current)] = Absent]
    BY <1>9 DEF DownloadFails, Invalidated
  <2> QED
    BY <2>1, <1>a DEF Mapped, CacheOf!Next, CacheOf!Remove, CacheOf!fileVars
<1>10. CASE LayersFail \/ Crash
  <2>1. pc' # "download" /\ UNCHANGED cache
    BY <1>10 DEF LayersFail, Crash
  <2> QED
    BY <2>1 DEF Mapped, CacheOf!Next, CacheOf!Abandon, CacheOf!fileVars
<1>11. CASE Select \/ Push \/ PushFails \/ Finish
  BY <1>11, <1>b DEF Select, Push, PushFails, Finish
<1>12. ASSUME NEW i \in Ids, WrapFails(i) \/ WrapOnly(i) \/ Wrap(i) PROVE Mapped
  BY <1>12, <1>b DEF WrapFails, WrapOnly, Wrap, Visit
<1>13. CASE UNCHANGED vars
  BY <1>13, <1>c DEF vars
<1> QED
  BY <1>1, <1>2, <1>3, <1>4, <1>5, <1>6, <1>7, <1>8, <1>9, <1>10, <1>11, <1>12, <1>13
     DEF Next, LoadStep, SyncStep

\* Whatever is published, fails or is killed: no run ever writes over a file of the
\* working directory, and a whole package stays in it until it is removed.
THEOREM ImplementsCacheFilesTheorem == Spec => ImplementsCacheFiles
<1>1. Init => \A id \in Ids : CacheOf(id)!Init
  BY DEF Init, CacheOf!Init
<1>2. TypeOK /\ [Next]_vars =>
        [\A id \in Ids : [CacheOf(id)!Next]_(CacheOf(id)!fileVars)]_vars
  BY CacheFileNext
<1> QED
  BY <1>1, <1>2, TypeCorrect, PTL DEF Spec, ImplementsCacheFiles
==============================================================================
