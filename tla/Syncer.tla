------------------------------- MODULE Syncer --------------------------------
(***************************************************************************)
(* The sync command of charts-syncer: pkg/syncer driving a remote source   *)
(* (a Helm repository or an OCI registry) and an OCI target through the    *)
(* on-disk cache of fetched packages, run again and again: in a pod, as    *)
(* deployment/cronjob.yaml has it, whose working directory goes with it,   *)
(* or on a host, where the default one, ~/.charts-syncer, stays.           *)
(*                                                                         *)
(* A run first loads an index of the charts missing from the target        *)
(* (index.go), fetching each package, then wraps and pushes every indexed  *)
(* chart (sync.go).  Remote calls fail at will and the process may be      *)
(* killed between any two steps; the cache directory may outlive it.       *)
(***************************************************************************)
EXTENDS Integers, Sequences, FiniteSets

CONSTANTS
  Charts,            \* the charts that may be published: [name, version]
  Names, Versions,   \* names and versions, as sequences of hyphen-free segments
  NameRank,          \* the order sort.Strings gives the names
  Parsable,          \* the versions semver.NewVersion accepts
  Precedence,        \* the order of the parsable versions
  Canonical,         \* what (*semver.Version).String() makes of a parsable version
  Created,           \* publication dates: 0 is Go's zero time, 1 the Unix epoch
  Today,             \* the date an OCI client reports for every chart
  NoUrl,             \* the charts whose entry in a Helm index has no URL
  Kind,              \* the kind of the source: "HELM" or "OCI"
  Configs,           \* the configurations a run may be started with
  Deployed,          \* the one runs are repeated with
  Reused,            \* whether SyncPendingCharts may be called again on a Syncer
  PersistentWorkdir, \* whether --workdir outlives the process
  MaxFaults,         \* bound on failing remote calls
  MaxCrashes,        \* bound on killed runs
  Absent, Torn,      \* no file or entry; a file cut short
  NoDate, BadDate    \* --from-date empty, or not a date

Refs == [name : Names, version : Versions]

\* "%s-%s": joining two hyphenated strings with a hyphen.
Id(r) == r.name \o r.version
Ids == {Id(r) : r \in Refs}

UnixEpoch == 1

ConfigRecords ==
  [charts : SUBSET Names, skip : SUBSET Names, latestOnly : BOOLEAN,
   dryRun : BOOLEAN, autoDiscovery : BOOLEAN, from : Nat \cup {NoDate, BadDate}]

ASSUME ChartsAssumption ==
  /\ Charts \subseteq Refs
  /\ Names # {} /\ Versions # {}
  /\ NameRank \in [Names -> Nat]
  /\ \A m, n \in Names : NameRank[m] = NameRank[n] => m = n
  /\ Parsable \subseteq Versions
  /\ Precedence \in [Parsable -> Nat]
  /\ Canonical \in [Parsable -> Parsable]
  /\ Created \in [Charts -> Nat]
  /\ NoUrl \subseteq Charts
  /\ Today \in Nat /\ Today > UnixEpoch

ASSUME EnvironmentAssumption ==
  /\ Kind \in {"HELM", "OCI"}
  /\ Configs \subseteq ConfigRecords /\ Deployed \in Configs
  /\ PersistentWorkdir \in BOOLEAN /\ Reused \in BOOLEAN
  /\ MaxFaults \in Nat /\ MaxCrashes \in Nat
  /\ Absent \notin Charts /\ Torn \notin Charts /\ Absent \notin Refs
  /\ Absent # Torn
  /\ NoDate \notin Nat /\ BadDate \notin Nat /\ NoDate # BadDate

\* Helm's index loader drops the entries whose version is not a semantic version.
ASSUME HelmIndexAssumption ==
  Kind = "HELM" => \A c \in Charts : c.version \in Parsable

VARIABLES
  source,    \* the charts the source serves
  target,    \* the charts the target serves
  cache,     \* the cache file of each id: Absent, Torn, or the chart it holds
  faults,    \* failing calls so far
  crashes,   \* killed runs so far
  pc,        \* where the run is, or how the last one ended
  cfg,       \* the configuration of the run
  entries,   \* the charts of the index the source client read when it was made
  view,      \* what the run takes the source to hold
  todo,      \* names loadCharts has still to visit
  name,      \* the chart name being loaded or synced
  vtodo,     \* versions of name still to process
  version,   \* the version being fetched or synced
  index,     \* Syncer.index: the chart indexed under each id
  pending,   \* indexed ids the sync loop has still to visit
  wrap,      \* the chart in the wrap being pushed
  errs,      \* whether an error was joined to errs
  blamed,    \* history: the charts some error of this run was about
  aborted,   \* history: what made loadCharts return early, if anything did
  carried    \* history: the charts indexed by earlier calls on this Syncer

vars == <<source, target, cache, faults, crashes, pc, cfg, entries, view, todo, name,
          vtodo, version, index, pending, wrap, errs, blamed, aborted, carried>>

Returned == {"synced", "noCharts", "failed"}
Ended == {"off", "refused", "dead"} \cup Returned
Loading == {"load", "fetch", "download"}
Syncing == {"sync", "push"}
Running == {"request"} \cup Loading \cup Syncing

-----------------------------------------------------------------------------
(* The source and target clients, as the syncer sees them. *)

Named(S, n) == {c \in S : c.name = n}
NamesIn(S) == {c.name : c \in S}

\* Whether ListChartVersions(n) asks the registry instead of the index read by New.
Live(n) == Kind = "OCI" /\ n \notin NamesIn(entries)

\* The charts a client takes (n, v) to mean: a Helm index falls back from the
\* exact version to one that parses alike, a registry knows exact tags only.
Resolve(n, v) ==
  LET exact == {c \in Named(view, n) : c.version = v}
      alike == {c \in Named(view, n) : c.version \in Parsable /\ Canonical[c.version] = v}
  IN IF Kind = "HELM" /\ exact = {} THEN alike ELSE exact

PublishedAt(c) == IF Kind = "HELM" THEN Created[c] ELSE Today

InTarget_Never(r) == FALSE
InTarget_ByName(r) == r.name \in NamesIn(target)
InTarget(r) == r \in target

Highest(vs) == {v \in vs : \A w \in vs : Precedence[w] <= Precedence[v]}

Threshold == IF cfg.from = NoDate THEN UnixEpoch ELSE cfg.from

TooOld_Never(c) == FALSE
TooOld(c) == PublishedAt(c) < Threshold

ShouldSkip(n) == n \in cfg.skip

-----------------------------------------------------------------------------
(* What a run owes the target: the promise its options make, independent of *)
(* how the code goes about it.                                              *)

\* Whether configuration k asks for chart c, if S is what the source holds.
AskedBy(k, S, c) ==
  /\ k.charts = {} \/ c.name \in k.charts
  /\ c.name \notin k.skip
  /\ k.from = NoDate \/ PublishedAt(c) >= k.from
  /\ k.latestOnly =>
       /\ c.version \in Parsable
       /\ \A d \in Named(S, c.name) :
            d.version \in Parsable => Precedence[d.version] <= Precedence[c.version]

\* Discovery asks for the names of the index only.
Asked(c) ==
  /\ AskedBy(cfg, view, c)
  /\ cfg.charts = {} => c.name \in NamesIn(entries)

Goal == IF cfg.dryRun \/ cfg.from = BadDate THEN {} ELSE {c \in view : Asked(c)}

-----------------------------------------------------------------------------
(* Errors, and the start of a run. *)

Fault == faults < MaxFaults /\ faults' = faults + 1

Blame_Warns(S) == errs' = errs /\ blamed' = blamed
Blame(S) == errs' = TRUE /\ blamed' = blamed \cup S

NoIndex == [id \in Ids |-> Absent]

Init ==
  /\ source \in SUBSET Charts
  /\ target = {}
  /\ cache = [id \in Ids |-> Absent]
  /\ faults = 0 /\ crashes = 0
  /\ pc = "off"
  /\ cfg \in Configs
  /\ entries = {} /\ view = {}
  /\ todo = {} /\ vtodo = {}
  /\ name \in Names /\ version \in Versions
  /\ index = NoIndex
  /\ pending = {}
  /\ wrap = Absent
  /\ errs = FALSE /\ blamed = {} /\ aborted = "no" /\ carried = {}

Publish ==
  /\ \E c \in Charts \ source : source' = source \cup {c}
  /\ UNCHANGED <<target, cache, faults, crashes, pc, cfg, entries, view, todo, name, vtodo,
                 version, index, pending, wrap, errs, blamed, aborted, carried>>

\* What a new process begins with.
Fresh ==
  /\ pc \in Ended
  /\ cfg' \in Configs
  /\ cache' = IF PersistentWorkdir THEN cache ELSE [id \in Ids |-> Absent]
  /\ todo' = {} /\ vtodo' = {}
  /\ index' = NoIndex
  /\ pending' = {}
  /\ wrap' = Absent
  /\ blamed' = {} /\ aborted' = "no" /\ carried' = {}
  /\ UNCHANGED <<source, target, crashes, name, version>>

\* New reads the index of the source. The charts index of a registry is made by
\* others: it lags behind the registry, or is not there at all.
Start ==
  /\ Fresh
  /\ pc' = "request"
  /\ entries' \in IF Kind = "HELM" THEN {source} ELSE SUBSET source
  /\ view' = entries'
  /\ errs' = FALSE
  /\ UNCHANGED faults

StartFails ==
  /\ Fresh
  /\ Fault
  /\ pc' = "refused"
  /\ entries' = {} /\ view' = {}
  /\ errs' = TRUE

\* A program that uses the package calls SyncPendingCharts once more, with other
\* names: the clients and the index of the Syncer are those of the last call.
Again ==
  /\ Reused /\ pc \in Returned
  /\ \E k \in Configs : k = [cfg EXCEPT !.charts = k.charts] /\ cfg' = k
  /\ pc' = "request"
  /\ todo' = {} /\ vtodo' = {} /\ pending' = {}
  /\ errs' = FALSE /\ blamed' = {} /\ aborted' = "no"
  /\ carried' = {index[id] : id \in {i \in Ids : index[i] # Absent}}
  /\ UNCHANGED <<source, target, cache, faults, crashes, entries, view, name, version,
                 index, wrap>>

-----------------------------------------------------------------------------
(* loadCharts. *)

Listed == NamesIn(entries)
Discovered == IF cfg.autoDiscovery THEN Listed ELSE {}
Requested == IF cfg.charts = {} THEN Discovered ELSE cfg.charts

LoadCharts ==
  /\ pc = "request"
  /\ Requested # {} /\ cfg.from # BadDate
  /\ todo' = Requested
  /\ pc' = "load"
  /\ UNCHANGED <<source, target, cache, faults, crashes, cfg, entries, view, name, vtodo,
                 version, index, pending, wrap, errs, blamed, aborted, carried>>

LoadChartsFails ==
  /\ pc = "request"
  /\ Requested = {} \/ cfg.from = BadDate
  /\ aborted' = "request" /\ errs' = TRUE
  /\ pc' = "load"
  /\ UNCHANGED <<source, target, cache, faults, crashes, cfg, entries, view, todo, name, vtodo,
                 version, index, pending, wrap, blamed, carried>>

\* The names are visited in the order of sort.Strings.
First(n) ==
  /\ pc = "load" /\ vtodo = {}
  /\ n \in todo
  /\ \A m \in todo : NameRank[n] <= NameRank[m]

NextName(n) ==
  /\ First(n)
  /\ todo' = todo \ {n}
  /\ name' = n
  /\ UNCHANGED <<source, target, cache, crashes, pc, cfg, entries, version, index,
                 pending, wrap, carried>>

SkipName(n) ==
  /\ NextName(n)
  /\ ShouldSkip(n)
  /\ UNCHANGED <<faults, view, vtodo, errs, blamed, aborted>>

\* A registry may know a name under which it has other artifacts than charts only.
Listing(n) ==
  /\ NextName(n)
  /\ ~ ShouldSkip(n)
  /\ view' = IF Live(n) THEN view \cup Named(source, n) ELSE view

ListedVersions(n) == {c.version : c \in Named(view', n)}

ListAllVersions_Always(n) ==
  /\ Listing(n)
  /\ vtodo' = ListedVersions(n)
  /\ UNCHANGED <<faults, errs, blamed, aborted>>

ListAllVersions(n) ==
  /\ Listing(n)
  /\ ~ cfg.latestOnly \/ ListedVersions(n) = {}
  /\ vtodo' = ListedVersions(n)
  /\ UNCHANGED <<faults, errs, blamed, aborted>>

ListLatestVersion(n) ==
  /\ Listing(n)
  /\ cfg.latestOnly
  /\ ListedVersions(n) \subseteq Parsable
  /\ \E v \in Highest(ListedVersions(n)) : vtodo' = {Canonical[v]}
  /\ UNCHANGED <<faults, errs, blamed, aborted>>

\* One version semver rejects ends the whole load, not only that chart's.
ListUnparsable(n) ==
  /\ First(n)
  /\ ~ ShouldSkip(n)
  /\ cfg.latestOnly
  /\ view' = IF Live(n) THEN view \cup Named(source, n) ELSE view
  /\ ~ (ListedVersions(n) \subseteq Parsable)
  /\ todo' = {}
  /\ name' = n
  /\ aborted' = "version" /\ errs' = TRUE
  /\ UNCHANGED <<source, target, cache, faults, crashes, pc, cfg, entries, vtodo, version,
                 index, pending, wrap, blamed, carried>>

ListFails_Returns(n) ==
  /\ First(n) /\ Live(n)
  /\ \/ Named(source, n) = {} /\ UNCHANGED faults
     \/ Fault
  /\ todo' = {}
  /\ Blame(Named(Charts, n))
  /\ UNCHANGED <<source, target, cache, crashes, pc, cfg, entries, view, name, vtodo,
                 version, index, pending, wrap, aborted, carried>>

\* The registry does not know the name, or the call fails.
ListFails(n) ==
  /\ NextName(n)
  /\ ~ ShouldSkip(n)
  /\ Live(n)
  /\ \/ Named(source, n) = {} /\ UNCHANGED faults
     \/ Fault
  /\ Blame(Named(Charts, n))
  /\ UNCHANGED <<view, vtodo, aborted>>

-----------------------------------------------------------------------------
(* processVersion. *)

Ref(n, v) == [name |-> n, version |-> v]
Current == Ref(name, version)

Process(v) ==
  /\ pc = "load"
  /\ v \in vtodo
  /\ vtodo' = vtodo \ {v}
  /\ UNCHANGED <<source, target, cache, crashes, cfg, entries, view, todo, name, index,
                 pending, wrap, aborted, carried>>

ProcessFails_Retries(v) ==
  /\ pc = "load" /\ v \in vtodo
  /\ Fault
  /\ Blame(Resolve(name, v))
  /\ UNCHANGED <<source, target, cache, crashes, pc, cfg, entries, view, todo, name, vtodo,
                 version, index, pending, wrap, aborted, carried>>

\* GetChartDetails finds nothing, or it or dst.Has fails.
ProcessFails(v) ==
  /\ Process(v)
  /\ \/ Resolve(name, v) = {} /\ UNCHANGED faults
     \/ Fault /\ (Kind = "HELM" => \E c \in Resolve(name, v) : ~ TooOld(c))
  /\ Blame(Resolve(name, v))
  /\ UNCHANGED <<pc, version>>

NotWanted(v, c) ==
  \/ TooOld(c)
  \/ InTarget(Ref(name, v))
  \/ index[Id(Ref(name, v))] # Absent

SkipVersion(v) ==
  /\ Process(v)
  /\ \E c \in Resolve(name, v) : NotWanted(v, c)
  /\ UNCHANGED <<pc, faults, version, errs, blamed>>

FetchVersion(v) ==
  /\ Process(v)
  /\ \E c \in Resolve(name, v) : ~ NotWanted(v, c)
  /\ version' = v
  /\ pc' = "fetch"
  /\ UNCHANGED <<faults, errs, blamed>>

-----------------------------------------------------------------------------
(* loadChart: Fetch through the cache, then Add to the index. *)

FetchStep ==
  UNCHANGED <<source, target, crashes, cfg, entries, view, todo, name, vtodo, version,
              pending, wrap, aborted, carried>>

AddToIndex == index' = [index EXCEPT ![Id(Current)] = Current]

FetchCached ==
  /\ pc = "fetch" /\ pc' = "load"
  /\ cache[Id(Current)] # Absent
  /\ AddToIndex
  /\ FetchStep
  /\ UNCHANGED <<cache, faults, errs, blamed>>

\* GetDownloadURL takes the first URL of the entry without looking: an entry
\* without one takes the whole process down.
Unfetchable == Kind = "HELM" /\ Resolve(name, version) \cap NoUrl # {}

FetchPanics ==
  /\ pc = "fetch" /\ pc' = "dead"
  /\ cache[Id(Current)] = Absent
  /\ Unfetchable
  /\ FetchStep
  /\ UNCHANGED <<cache, faults, index, errs, blamed>>

FetchFails ==
  /\ pc = "fetch" /\ pc' = "load"
  /\ cache[Id(Current)] = Absent /\ ~ Unfetchable
  /\ Fault
  /\ Blame(Resolve(name, version))
  /\ FetchStep
  /\ UNCHANGED <<cache, index>>

OpenDownload_Blind ==
  /\ pc = "fetch" /\ pc' = "download"
  /\ ~ Unfetchable
  /\ cache' = [cache EXCEPT ![Id(Current)] = Torn]
  /\ FetchStep
  /\ UNCHANGED <<faults, index, errs, blamed>>

\* The cache file exists from the moment it is opened for writing.
OpenDownload ==
  /\ pc = "fetch" /\ pc' = "download"
  /\ cache[Id(Current)] = Absent /\ ~ Unfetchable
  /\ cache' = [cache EXCEPT ![Id(Current)] = Torn]
  /\ FetchStep
  /\ UNCHANGED <<faults, index, errs, blamed>>

DownloadDone ==
  /\ pc = "download" /\ pc' = "load"
  /\ \E c \in Resolve(name, version) : cache' = [cache EXCEPT ![Id(Current)] = c]
  /\ AddToIndex
  /\ FetchStep
  /\ UNCHANGED <<faults, errs, blamed>>

Invalidated_Not == cache
Invalidated == [cache EXCEPT ![Id(Current)] = Absent]

DownloadFails ==
  /\ pc = "download" /\ pc' = "load"
  /\ Fault
  /\ cache' = Invalidated
  /\ Blame(Resolve(name, version))
  /\ FetchStep
  /\ UNCHANGED index

\* Closing the response fails only after the package is whole.
CloseFails ==
  /\ pc = "download" /\ pc' = "load"
  /\ Kind = "HELM"
  /\ Fault
  /\ \E c \in Resolve(name, version) : cache' = [cache EXCEPT ![Id(Current)] = c]
  /\ Blame(Resolve(name, version))
  /\ FetchStep
  /\ UNCHANGED index

\* Of the OCI client's error returns, the one for img.Layers() does not invalidate.
LayersFail ==
  /\ pc = "download" /\ pc' = "load"
  /\ Kind # "HELM"
  /\ Fault
  /\ Blame(Resolve(name, version))
  /\ FetchStep
  /\ UNCHANGED <<cache, index>>

-----------------------------------------------------------------------------
(* SyncPendingCharts and syncChart. *)

Select_Strict ==
  /\ pc = "load" /\ todo = {} /\ vtodo = {}
  /\ pending' = {id \in Ids : index[id] # Absent}
  /\ pc' = IF errs THEN "failed" ELSE IF pending' = {} THEN "noCharts" ELSE "sync"
  /\ UNCHANGED <<source, target, cache, faults, crashes, cfg, entries, view, todo, name, vtodo,
                 version, index, wrap, errs, blamed, aborted, carried>>

\* ErrNoChartsToSync hides the errors met while loading.
Select ==
  /\ pc = "load" /\ todo = {} /\ vtodo = {}
  /\ pending' = {id \in Ids : index[id] # Absent}
  /\ pc' = IF pending' = {} THEN "noCharts" ELSE "sync"
  /\ UNCHANGED <<source, target, cache, faults, crashes, cfg, entries, view, todo, name, vtodo,
                 version, index, wrap, errs, blamed, aborted, carried>>

Visit(id) ==
  /\ pc = "sync"
  /\ id \in pending
  /\ pending' = pending \ {id}
  /\ name' = index[id].name /\ version' = index[id].version
  /\ UNCHANGED <<source, target, cache, crashes, cfg, entries, view, todo, vtodo, index, aborted, carried>>

\* Wrapping fails on a package cut short, or when its images cannot be pulled.
WrapFails(id) ==
  /\ Visit(id)
  /\ \/ cache[id] \notin Charts /\ UNCHANGED faults
     \/ Fault
  /\ Blame(Resolve(index[id].name, index[id].version))
  /\ UNCHANGED <<pc, wrap>>

WrapOnly(id) ==
  /\ Visit(id)
  /\ cache[id] \in Charts
  /\ cfg.dryRun
  /\ UNCHANGED <<pc, faults, wrap, errs, blamed>>

Wrap_Unread(id) ==
  /\ Visit(id)
  /\ ~ cfg.dryRun
  /\ wrap' = cache[id]
  /\ pc' = "push"
  /\ UNCHANGED <<faults, errs, blamed>>

Wrap(id) ==
  /\ Visit(id)
  /\ cache[id] \in Charts
  /\ ~ cfg.dryRun
  /\ wrap' = cache[id]
  /\ pc' = "push"
  /\ UNCHANGED <<faults, errs, blamed>>

\* The chart is pushed under its own name and version, whatever id it had.
Push ==
  /\ pc = "push" /\ pc' = "sync"
  /\ target' = target \cup {wrap}
  /\ wrap' = Absent
  /\ UNCHANGED <<source, cache, faults, crashes, cfg, entries, view, todo, name, vtodo,
                 version, index, pending, errs, blamed, aborted, carried>>

\* A failed push may have reached the registry.
PushFails ==
  /\ pc = "push" /\ pc' = "sync"
  /\ Fault
  /\ target' \in {target, target \cup {wrap}}
  /\ wrap' = Absent
  /\ Blame(Resolve(name, version))
  /\ UNCHANGED <<source, cache, crashes, cfg, entries, view, todo, name, vtodo,
                 version, index, pending, aborted, carried>>

Finish ==
  /\ pc = "sync" /\ pending = {}
  /\ pc' = IF errs THEN "failed" ELSE "synced"
  /\ UNCHANGED <<source, target, cache, faults, crashes, cfg, entries, view, todo, name, vtodo,
                 version, index, pending, wrap, errs, blamed, aborted, carried>>

\* The process is killed; only the repositories and the cache directory survive.
Crash ==
  /\ pc \in Running
  /\ crashes < MaxCrashes
  /\ crashes' = crashes + 1
  /\ pc' = "dead"
  /\ UNCHANGED <<source, target, cache, faults, cfg, entries, view, todo, name, vtodo,
                 version, index, pending, wrap, errs, blamed, aborted, carried>>

-----------------------------------------------------------------------------
LoadStep ==
  \/ LoadCharts \/ LoadChartsFails
  \/ \E n \in Names : \/ SkipName(n) \/ ListAllVersions(n) \/ ListLatestVersion(n)
                      \/ ListUnparsable(n) \/ ListFails(n)
  \/ \E v \in Versions : ProcessFails(v) \/ SkipVersion(v) \/ FetchVersion(v)
  \/ FetchCached \/ FetchPanics \/ FetchFails \/ OpenDownload
  \/ DownloadDone \/ DownloadFails \/ CloseFails \/ LayersFail

SyncStep ==
  \/ Select
  \/ \E id \in Ids : WrapFails(id) \/ WrapOnly(id) \/ Wrap(id)
  \/ Push \/ PushFails \/ Finish

Next == Publish \/ Start \/ StartFails \/ Again \/ LoadStep \/ SyncStep \/ Crash

Spec == Init /\ [][Next]_vars

\* The start of one of the repeated runs, when the index of the source is up to date.
Deployment == Start /\ cfg' = Deployed /\ entries' = source

\* A started process keeps running. New ones keep being started: runs with other
\* options come in between, but not every time the hour of the repeated one comes.
FairSpec == Spec /\ WF_vars(LoadStep \/ SyncStep) /\ SF_vars(Deployment)
-----------------------------------------------------------------------------
(* Properties. *)

\* Every variable stays in its type: in particular index and cache hold whole
\* chart references and charts, and what is pushed is always a chart.
TypeOK ==
  /\ source \in SUBSET Charts /\ target \in SUBSET Charts
  /\ cache \in [Ids -> Charts \cup {Absent, Torn}]
  /\ faults \in 0..MaxFaults /\ crashes \in 0..MaxCrashes
  /\ pc \in Ended \cup Running
  /\ cfg \in Configs
  /\ entries \in SUBSET Charts /\ view \in SUBSET Charts
  /\ carried \in SUBSET Refs
  /\ todo \in SUBSET Names /\ name \in Names
  /\ vtodo \in SUBSET Versions /\ version \in Versions
  /\ index \in [Ids -> Refs \cup {Absent}]
  /\ pending \in SUBSET {id \in Ids : index[id] # Absent}
  /\ wrap \in Charts \cup {Absent}
  /\ pc = "push" => wrap \in Charts
  /\ errs \in BOOLEAN
  /\ blamed \in SUBSET Charts
  /\ aborted \in {"no", "request", "version"}

\* A run that ends without an error has brought to the target every chart its
\* options ask for: nothing is lost between the listing of the source, the
\* filters, the cache, the index and the sync loop without an error.
NoErrorMeansSynced ==
  pc \in {"synced", "noCharts"} /\ ~ errs => Goal \subseteq target

\* One chart's failure does not cost another: when a run ends by itself, every
\* chart it owes is in the target unless an error was about that very chart
\* (or the request itself was refused before any chart was looked at).
FailureIsolation ==
  pc \in Returned /\ aborted # "request" => Goal \ blamed \subseteq target

\* The same of a load nothing cut short: a name that cannot be listed, a version
\* that cannot be looked up, fetched, wrapped or pushed costs no other chart.
CallFailuresIsolated ==
  pc \in Returned /\ aborted = "no" => Goal \ blamed \subseteq target

\* Only charts missing from the target are pushed, although the target is
\* looked at while loading and pushed to much later: no call pushes a chart
\* twice, and a call over a synced pair of repositories pushes nothing.
PushesOnlyMissing == pc = "push" => wrap \notin target

\* What a further call on a Syncer pushes again is what an earlier call indexed, and
\* nothing else, however the calls before it ended.
PushesAgainOnlyCarried == pc = "push" /\ wrap \in target => wrap \in carried

\* "No charts to sync" is said only of a target that lacks nothing.
NoChartsMeansInSync == pc = "noCharts" => Goal \subseteq target

\* A run ends: each of its steps, those that fail included, shortens the list of
\* names, or of the versions of a name, or of the indexed charts, or ends a detour
\* from these loops, and no step adds to a list but in place of a longer one.
Phase ==
  IF pc = "request" THEN 3 ELSE IF pc \in Loading THEN 2 ELSE IF pc \in Syncing THEN 1 ELSE 0
Detour == IF pc = "fetch" THEN 2 ELSE IF pc \in {"download", "push"} THEN 1 ELSE 0

Shorter(S, T) == S \subseteq T /\ S # T

Advance ==
  \/ Phase' < Phase
  \/ /\ Phase' = Phase
     /\ \/ Shorter(todo', todo)
        \/ todo' = todo /\ Shorter(vtodo', vtodo)
        \/ <<todo, vtodo>>' = <<todo, vtodo>> /\ Shorter(pending', pending)
        \/ <<todo, vtodo, pending>>' = <<todo, vtodo, pending>> /\ Detour' < Detour

RunsEnd == [][LoadStep \/ SyncStep => Advance]_vars

\* The implementation of ChartMirror: a call of SyncPendingCharts copies only
\* charts of the source its options select, and those earlier calls on the same
\* Syncer indexed; it copies nothing in a dry run, and is synced when it says so.
Report ==
  IF pc = "off" THEN "never"
  ELSE IF pc \in Running THEN "running"
  ELSE IF pc \in {"synced", "noCharts"} /\ ~ errs THEN "synced"
  ELSE "failed"

Owed == IF cfg.dryRun THEN {} ELSE Goal \cup carried

Mirror == INSTANCE ChartMirror WITH owed <- Owed, report <- Report

ImplementsMirror == Mirror!Spec

\* The implementation of CacheFile by every file of the working directory: a
\* package is fetched only where there is none, and none is written over. This is
\* \A id \in Ids : CacheOf(id)!Spec, with the quantifier where TLC can read it.
CacheOf(id) ==
  INSTANCE CacheFile WITH
    Packages <- Charts, file <- cache[id], open <- pc = "download" /\ id = Id(Current)

ImplementsCacheFiles ==
  /\ \A id \in Ids : CacheOf(id)!Init
  /\ [][\A id \in Ids : [CacheOf(id)!Next]_(CacheOf(id)!fileVars)]_vars

\* What the repeated runs have to bring to the target as things are.
Owing(c) == c \in source /\ AskedBy(Deployed, source, c)

\* Once calls stop failing, every chart the repeated runs ask for reaches the target
\* (or is superseded), whatever earlier runs left behind in the cache directory
\* and however the index lagged.
EventuallyMirrored == \A c \in Charts : Owing(c) ~> (c \in target \/ ~ Owing(c))

\* What may stand in the way for good: a run killed while it downloaded the
\* chart, or an entry without URL, on which every run dies before its first push.
Spoilt(c) ==
  \/ crashes > 0 /\ pc \in Ended /\ cache[Id(c)] = Torn
  \/ Kind = "HELM" /\ \E d \in NoUrl : Owing(d)

\* With a working directory that is kept, those two are the only obstacles:
\* failing calls never leave one behind.
MirroredUnlessSpoilt ==
  \A c \in Charts : Owing(c) ~> (c \in target \/ ~ Owing(c) \/ Spoilt(c))
-----------------------------------------------------------------------------
(* The inductive invariant behind the safety properties, and the hypotheses *)
(* on the published charts under which it holds.                            *)

\* No two chart references are written alike.
DistinctIds == \A r, s \in Refs : Id(r) = Id(s) => r = s

\* The first three on versions matter only where some run asks for the latest one.
LatestOnly == \E k \in Configs : k.latestOnly

\* Versions are written the way semver prints them: no "v" prefix, no "1.0".
CanonicalVersions == LatestOnly => \A v \in Parsable : Canonical[v] = v

\* No two versions have the same precedence (they do not differ in build metadata only).
DistinctPrecedence ==
  LatestOnly => \A v, w \in Parsable : Precedence[v] = Precedence[w] => v = w

\* No listed version is one semver rejects.
AllParsable == LatestOnly => \A c \in Charts : c.version \in Parsable

\* Every entry of a Helm index has a creation date, or every run a --from-date.
DatedCharts ==
  Kind = "HELM" /\ (\E k \in Configs : k.from = NoDate) =>
    \A c \in Charts : Created[c] >= UnixEpoch

\* An id under which something is indexed or cached is the id of that thing,
\* and the chart at hand is one the source was seen to hold.
Identified ==
  /\ entries \subseteq view /\ view \subseteq source /\ carried \subseteq view
  /\ \A id \in Ids : index[id] # Absent => index[id] \in view /\ Id(index[id]) = id
  /\ \A id \in Ids : cache[id] \in Charts => Id(cache[id]) = id
  /\ pc \in Loading => \A v \in vtodo : Ref(name, v) \in view
  /\ pc = "request" => vtodo = {}
  /\ pc \in {"fetch", "download", "push"} => Current \in view
  /\ pc = "push" => wrap = Current

\* Errors are never forgotten.
Remembered ==
  /\ blamed # {} \/ aborted # "no" => errs
  /\ pc = "synced" => ~ errs

\* Where a chart the run owes can be while the run goes on.
Accounted(c) ==
  \/ c \in blamed
  \/ c \in target
  \/ pc = "request"
  \/ pc \in Loading /\ c.name \in todo
  \/ pc \in Loading /\ c.name = name /\ c.version \in vtodo
  \/ pc \in {"fetch", "download"} /\ c = Current
  \/ pc \in Loading /\ index[Id(c)] = c
  \/ pc \in Syncing /\ index[Id(c)] = c /\ Id(c) \in pending
  \/ pc = "push" /\ c = Current

\* Until it ends, a run that was not aborted has lost sight of no chart it owes.
NothingLost ==
  pc \notin {"off", "refused", "dead"} /\ aborted = "no" => \A c \in Goal : Accounted(c)

\* What this call indexed or is about to push is not in the target yet.
NewUnlessCarried(r) == r \notin carried => r \notin target

StillMissing ==
  /\ pc \in {"fetch", "download"} => Current \notin target
  /\ pc = "push" => NewUnlessCarried(Current)
  /\ pc \in {"request"} \cup Loading => \A id \in Ids : NewUnlessCarried(index[id])
  /\ pc \in Syncing => \A id \in pending : NewUnlessCarried(index[id])
  /\ pc = "push" => Id(Current) \notin pending
==============================================================================
