# A verification project for charts-syncer

charts-syncer copies Helm charts, with their container images, from a source
repository to a target OCI registry, or in two steps through a directory when the
two sides are not connected. It is run by hand or by a CronJob
(`deployment/cronjob.yaml`), again and again, and its promise is about what the
*sequence* of runs achieves: the target ends up with every chart asked for, each
copied once, and a run that reports no error has left nothing out.

This directory holds TLA+ models of the parts that carry this promise, TLC
configurations that check them on small instances, and proofs that hold for all
instances. Paths below are relative to `src/`.

Contents: 1 the system, 2 what is hard about it, 3 the modules, 4 the runs,
5 the proofs, 6 what the work found, 7 what is left out, 8 the plan.

## 1. The system

| Component | State it keeps | Operations | Interacts with |
|---|---|---|---|
| Sync engine: `pkg/syncer/{index,sync,syncer,workdir}.go`, `cmd/sync.go` | `Syncer.index` (charts found missing, by id `name-version`), the options of the run, the working directory | `New`, `SyncPendingCharts` = `loadCharts` (`processVersion`, `loadChart`), then `syncChart` for each indexed chart | calls source and target clients, `FetchAndCache` |
| Helm client: `pkg/client/repo/helmclassic` | the index read by `New`, a cache handle | `List`, `ListChartVersions`, `GetChartDetails`, `Has`, `Fetch` | HTTP, cache |
| OCI client: `pkg/client/repo/oci` | the charts index, if the registry has one; a cache handle | the same, the registry asked live where the index knows nothing; `Upload` | registry, cache, indexer |
| ChartMuseum, Harbor: `pkg/client/repo/{chartmuseum,harbor}` | as Helm | as Helm, and `Upload` | HTTP, cache |
| Local repository: `pkg/client/{repo,source,target}/local` | `entries`, read off the file names of a directory | `New`, `List`, `ListChartVersions`, `Has`, `Fetch`, `Upload`; `Wrap` and `Unwrap` pass the file through | file system |
| Source and target wrappers: `pkg/client/{source,target}/common` | none | `Wrap`, `Unwrap` with the distribution-tooling library | registry |
| Package cache: `internal/cache/cachedisk` | files in the working directory, and nothing in memory | `Has`, `Read`, `Store`, `Writer`, `Invalidate` | shared by clients, and by processes given one `--workdir` |
| Download helper and small functions: `internal/utils` | none | `FetchAndCache`, `GetDateThreshold`, URL and archive helpers | cache, HTTP |
| Charts index: `internal/indexer` | none | `Get`, with a list of reference resolvers | registry |
| Configuration: `internal/config`, `api`, and the making of clients from it: `cmd/sync.go`, `pkg/client/*/core.go` | viper's bindings of keys to environment variables; the `api.Config` of the command | `InitEnvBindings`, `Load`, `Validate`, `NewClient` | command line, environment, the clients |

The engine is one goroutine. What makes its behaviour non-trivial is everything
that can happen between its steps: any remote call may fail, a failed push may
have arrived, the process may be killed, charts may be published, and the working
directory may or may not outlive the process. Two processes meet in the
cache when they share a working directory.

A run in more detail, since the order matters:

1. `New` builds the clients. A Helm client downloads the whole index here; an OCI
   client downloads the charts index here, if there is one.
2. `loadCharts` takes the names given in the configuration, or the ones discovered
   in the source index, sorts them and visits them in turn, leaving out the skipped
   ones. It lists the versions of each and, under `--latest-version-only`, keeps the
   highest. For every version, `processVersion` drops the chart if it is older than
   the date threshold, already in the target or already indexed; otherwise
   `loadChart` fetches the package through the cache and adds the chart to the
   index. Most failures are joined to `errs` and the loop goes on; two make the
   whole of `loadCharts` return.
3. `SyncPendingCharts` visits the index (a Go map: any order), wraps each cached
   package and pushes it to the target. If the index is empty it returns
   `ErrNoChartsToSync`, which the command treats as success.

What makes each component correct:

- *Engine*: no error means everything asked for is in the target; one chart's failure
  costs no other chart; only missing charts are pushed; nothing is pushed that was
  not asked for; repeated runs bring every chart over.
- *OCI client*: a listing has what was there all the while and nothing that never was; every
  form of a version finds the same chart; what is fetched is the package that was looked at.
- *Cache*: what is read is a whole package of one revision; what is left at rest is
  whole or absent; an upload replaces what was cached.
- *Configuration*: what the three checks of `Load`, `Validate` and `New` let through together
  is a supported configuration; each client uses the credentials of its own side, the
  environment before the file, and whole pairs for its own calls; a missing charts index and an
  unreadable one are told apart.
- *Local repository*: file names tell charts apart, and opening a directory the
  program wrote succeeds; export and import together deliver every chart.

## 2. What is hard to test

The list with its lines is in `PROJECT.json` under `hazards`, each with the properties that would show it
or a note why none does. In groups:

- *One of several steps failing.* A joined error, a returned error and a warning look
  alike in the code and mean very different things for the charts not visited yet
  (`index.go:96`, `:111`, `sync.go:97`, `oci.go:203`).
- *State looked at early and used late.* The target is consulted while loading, the
  push comes after all loading; the Helm index is as old as the client, the charts index of a
  registry as old as whoever made it (`index.go:150`, `helmclassic.go:84`, `oci.go:169`).
- *Many calls for one answer.* The live listing of a registry is a call for the tags and
  one more per tag; details and package of one version are resolved separately, while tags move
  (`oci.go:200`, `:243`).
- *Crashes around files.* Cache files and exported wraps are written under their
  final names and taken as complete when present (`utils.go:459`, `local.go:121`).
- *Names as keys.* `name-version` keys the index, the cache and the exported files;
  versions exist in the form the chart has, in the form semver prints and in the form
  of a tag, and a tag need not be the version of its chart
  (`index.go:117`, `:144`, `local.go:48`, `oci.go:206`, `:297`).
- *State that outlives its use.* `Syncer.index` is kept from one `SyncPendingCharts` to the next
  (`index.go:39`).
- *Check, then act, between processes* (`cachedisk.go:104`, `utils.go:412`).
- *Boundaries*: the zero date and the Unix epoch (`index.go:145`, `local.go:134`); an index
  entry with an empty list of URLs (`helmclassic.go:115`).
- *Checks spread over packages*: credentials that are half in the environment and used in four places,
  rules about the configuration that three packages enforce in turn (`config.go:91`, `api/config.go:43`).
- *Answers that look alike*: a charts index that is missing and one that cannot be read (`oci.go:472`).
- *Progress*: runs fail, and the sequence of runs must still arrive.

## 3. The modules

Two abstract specifications, and the modules that implement them:

    ChartMirror       what one pair of repositories is promised         <- ChartMirrorProofs
    CacheFile         what one file of the cache is promised to its only client

    Syncer            the engine, its clients, the cache as files       <- MCSyncer, SyncerProofs
                      implements ChartMirror, and CacheFile with each file (MirrorProofs)
    OciClient         a run over one name, call by call, of a registry
                      that others change                                <- MCOciClient, OciClientProofs
    PackageCache      one cache file, down to inodes and writes         <- MCPackageCache, PackageCacheProofs
                      implements CacheFile when it has one client
    Startup           from the configuration file to two clients        <- MCStartup, StartupProofs
    Airgap            export and import through a local repository      <- MCAirgap, AirgapProofs
                      implements ChartMirror twice, once with each step

`Syncer` is the whole, with each client call and each cache file as one step or one value.
`OciClient` and `PackageCache` open up two of those: what the calls of the OCI client are made
of, and what happens inside a cache file. `Startup` ends where `Syncer` begins.

`map` in `PROJECT.json` gives for every definition the lines it stands for. An operator named
after another with a suffix, as `InTarget_ByName`, is used by no action: it is a variant of the
definition below it with a plausible bug, see section 4.

### ChartMirror

Four variables: the two repositories, the set of charts the present run *owes*, and
its report. A run may copy only what it owes, may learn of more charts while it
works, may drop one only for a newer one of the same name, and may call itself synced only when
nothing it owes is missing. A run that finds nothing missing may be over in one step
(`NothingToDo`). `NothingInvented` and `SyncedLacksNothing` say what follows for any implementation.

### CacheFile

Two variables: what is found under a name, and whether a writer is at work on it. A file
comes to be only where there was none, is whole once its writer is done, and changes no more but
by being removed; a writer that stops half-way leaves it torn.

### Syncer

The complete run of section 1, for an OCI target and a source of kind `HELM` or `OCI`. A registry
may have a charts index, which lags behind it: `New` reads any part of what the registry has,
and names it does not know are listed live. A step is a remote call, or the code between two of
them; what a killed process leaves is exactly what TLC sees between two steps. A run is a process
(`Start`), and where `Reused` is TRUE a process may call `SyncPendingCharts` on its `Syncer`
again (`Again`), with other names and the index of the last call.

| Variable | In the code |
|---|---|
| `source`, `target` | the repositories |
| `cache` | the files of the working directory, by id; `Torn` is a file cut short |
| `cfg` | the fields of `Syncer` set by options |
| `entries` | the index the source client read in `New` |
| `view` | what the run takes the source to hold: `entries`, and what live listings add to it |
| `todo`, `name`, `vtodo`, `version` | the loops of `loadCharts` and the one of `SyncPendingCharts` |
| `index`, `pending` | `Syncer.index`, and the ids the sync loop has not visited |
| `wrap`, `errs` | the wrap between `Wrap` and `Unwrap`; whether `errs` is not nil |
| `blamed`, `aborted` | history: which charts errors were about, and what made `loadCharts` return. No guard reads them |
| `carried` | history: the charts earlier calls on this `Syncer` indexed |
| `faults`, `crashes` | counters for the bounds |

Abstractions. A live listing of a name the registry does not know fails (`ListFails`), or lists nothing if only
other artifacts have that name. Names and versions are sequences of hyphen-free segments, so that
`name + "-" + version` is concatenation and ambiguous ids exist. Semantic versions
are given by constants: which parse (`Parsable`), in which order (`Precedence`), and
how they are printed (`Canonical`). Dates are numbers, 0 the zero `time.Time` and 1
the Unix epoch. A call that fails is a `Fault`; where the code fails without one
(an unknown chart, a package cut short) the guard says so. A push that fails may or
may not have arrived. A chart in `NoUrl` has an entry without URLs in the Helm index; fetching it
takes the process down (`FetchPanics`). What a live listing reports is added to `view` when it
succeeds, also for the lookups of the chart's details that follow.

`Goal` is what a run owes, defined from the options alone and not from how
the code applies them; the properties compare the target with it.

### OciClient

Runs over the charts of one name, from a source registry in which others push, move and delete
tags between any two calls (`Move`). A tag holds a manifest: of another
kind of artifact, of Helm's kind with a package, or of Helm's kind without one. A version may be
written otherwise as a tag (`TagOf`: `1.0.0+b1` and `1.0.0_b1`), and a tag may hold a
chart of another version, as `stable` does.

| Variable | In the code |
|---|---|
| `src`, `tgt` | the tags of the two registries |
| `cache` | the cached file of each version; `Empty` is a whole file without a package |
| `entries` | what the charts index lists for the name; nothing if it does not know it |
| `tags`, `listed` | the loop of `ListChartVersions`: tags still to look at, versions to return |
| `todo`, `version`, `img`, `index`, `wrap` | the loops of the engine, and the manifest `Fetch` resolved |
| `lasting`, `seen`, `moved`, `floated` | history: which tags were charts all through, or at some time of the listing; which versions had their tag moved between the lookups; target tags filled for another tag. No guard reads them |

The engine is here only as the caller: list, then for each version details, target check and
fetch, then the pushes. What it does with errors is in `Syncer`.

### Airgap

`docs/airgap.md`: runs that export to a directory and runs that import from it, in any
order. The local repository is modelled step by step: `New` and its
regular expression (`Scan`, `Matches`, `Panics`), `Upload` with its truncating
write, and the pass-through `Wrap` and `Unwrap`. Loading, which `Syncer` has in detail, is
one step, `Load`, which loses any of the missing charts; a run left with nothing ends there,
as `ErrNoChartsToSync`. An import may be given a `--from-date` (`dated`). File names are
sequences of hyphen-free segments as in `Syncer`: `versionRe` matches when the last segment has
the form `1.2.3`, and its greedy first group takes everything before it.

Each step is shown to implement `ChartMirror`, with the charts that have a file (`Wrapped`) as the
target of exports (`ImplementsExportMirror`) and as the source of imports
(`ImplementsImportMirror`). Seen from one of them a run of the other is a failed run: it owes
nothing and promises nothing. An import owes what it read off the file names when it began.

### PackageCache

One file of the cache at the grain of the file system: `dir` binds the name to an
inode, `os.Create` truncates the bound inode or binds a fresh one, `os.Remove` unbinds the name
while open inodes live on, and content is written chunk by chunk. `Has` and `Create`
are separate steps, as in `Writer` and `Store`. Clients fetch (`FetchAndCache`, the OCI
client's `Fetch`) or upload (ChartMuseum, Harbor).

`Syncer` has the cache at a coarser grain, one value per id (absent, torn, whole), and one
process per working directory. That this grain is right is not taken for granted: with one
client `PackageCache` implements `CacheFile` (`ImplementsCacheFile`: what the inode bound to the
name has, torn as long as its writer is copying), and so does every file of `Syncer`
(`ImplementsCacheFiles`). Two clients of one directory do not, since one truncates what the other
is writing; `cache_shared` has properties of its own for them. A client that was killed, failed or
is done fetches again.

### Startup

The sync command before its first chart: `InitConfigFile`, `Load` (with the overrides from
the environment and the defaults for the charts index), `Validate`, the two clients, and the
request for charts. Each step may refuse the run (`refusal` says which), and each checks other things.
The client of a
registry asks for the charts index (`AskIndex`), which is there, is not, or cannot be read, and goes on
or gives up (`NewClient`, `IndexFails`) by what it takes the answer for (`IsNotFound`).

A setting is modelled by where its value came from: the side it belongs to, and the environment
variable, the older variable (`SOURCE_AUTH_USERNAME` and its like), or the file. So a
value used on the wrong side, or preferred in the wrong order, is visible; what it says is not. A
section `containers.auth` may be there and empty, which `Validate` refuses.

A client uses credentials in four places, which treat half a pair differently (`Presented`): its own calls are
anonymous unless user name and password are both there (`PairOrNone`, as in `oci.go:120` and
`helmclassic.go:41`), and so is the request of a Helm index, while the request of a charts index
(`oci.go:459`) and distribution-tooling, for charts and for container images, are handed what there is.
What those two libraries make of half a pair is outside `src/`.

| Variable | In the code |
|---|---|
| `file`, `environment` | what viper reads |
| `config` | the `api.Config` after `Load` |
| `clients` | `Syncer.cli`: kind of each client, and its credentials for its calls, for an index, for charts and for images |
| `answers` | what a registry answered when asked for its charts index, as it really is |
| `pc`, `refusal` | how far `newSyncCmd` got |

A run whose source knows of no chart is refused by `loadCharts` in the model; the command
reports it as nothing to do, since `SyncPendingCharts` then returns `ErrNoChartsToSync`
(section 6, `no_charts`).

## 4. The runs

Every property of a passing run has a *mutant*: the model with one plausible bug, under which
TLC finds that property violated (`mutants` in `PROJECT.json`). The operators with a suffix in the
modules are these bugs.

| Run | Instance | Shows |
|---|---|---|
| `syncer_helm` | Helm source, charts a-1, a-2, b-1 and b-2, of which b-2 has no URL; five configurations (all, latest only, skip and date, dry run, bad date); working directory kept; 1 failing call, 1 killed run | `TypeOK`; `NoErrorMeansSynced`; `FailureIsolation`; `PushesOnlyMissing`; the engine implements `ChartMirror` (`ImplementsMirror`); `MirroredUnlessSpoilt`: only a killed download or the chart without URL stands in the way of later runs |
| `syncer_oci` | a registry with an index that lags, charts a-1, b-1 and a tag of b that semver rejects; two configurations; further calls on one `Syncer`; working directory lost with the process; 1 failing call, 1 killed run | `NoErrorMeansSynced`; `CallFailuresIsolated`; `PushesAgainOnlyCarried`: a chart is pushed again only if an earlier call on this `Syncer` indexed it; `ImplementsMirror` with calls after calls; `ImplementsCacheFiles`; `RunsEnd`: each step of a run shortens what it has before it; `EventuallyMirrored` |
| `oci_client` | tags for 1.0.0, 1.0.0+b1 and `stable`; an index that is absent or lags; 2 tags moved by others, 1 failing call | `TypeOK`; `ListsWhatLasted`; `EmptyOnlyIfMoved`; `PushesToEmptyTag` |
| `cache_shared` | two processes, one directory, 2 faults, packages of two chunks | `RestsWhole`: they hurt each other's downloads but leave a whole file or none; `KeepsReadingWhole`: and each gets a whole package again and again |
| `cache_crash` | one OCI client, two revisions, uploads, republication, 2 faults, 1 crash | `TypeOK`; `ReadsOneRevision`; `UploadedIsCached`; `ImplementsCacheFile` |
| `airgap_relocate` | wraps a-1.0.0, a-b-1.0.0 and a prerelease of b; imports with and without a date; 2 failing charts, 2 interruptions | `TypeOK`; `Relocated`: an undated import without errors completes the last export without errors, also one with nothing to do; `NamesTellCharts`; `ImplementsExportMirror`; `ImplementsImportMirror` |
| `startup` | 359 files, of which one side varies (kind, URL and index, or any combination of six settings, or an empty `containers.auth`) while the other is plain, a source that varies its settings being a Helm repository or a registry; 64 environments | `TypeOK`; `UsableWhenStarted`; `CredentialsAsDocumented`: a pair that is set is used everywhere, each half from its documented place, and half a pair is never completed; `OnlySourceIsIndexed`; `IndexToldApart`: no run goes on from an unreadable index or ends as if there were nothing to sync, and a missing one refuses no run that lists its charts |
| `no_charts`, `unparsable_version`, `killed_download`, `second_call`, `airgap_candidate` | the smallest instance that shows it | one disagreement each, see section 6 |

`Publish` is enabled in all of the `Syncer` and `Airgap` runs, between any two steps, and `Move` in
that of `OciClient`.

*Bounds.* Two names and two versions give every pair of charts a loop can
confuse: two versions of one name, one version of two names, and an order of names
in which an early return has something to lose. One failing call and one killed
run already produce each kind of leftover, and the other in a later run finds it. The number of runs,
and of calls on one `Syncer`, is not bounded. In `OciClient` two moves are a tag replaced and
replaced back, or two tags; one fault leaves what a later run finds. In `PackageCache` two clients are what
check-then-act needs, two chunks tell empty, partial and whole apart, and three inodes
let both clients hold a removed file while the name is bound to another. In `Startup` the two sides meet
only in the order of the steps, so one side at a time is varied; the environment sets the same variables on both
sides, so that a value of the wrong side is there to be taken. Beyond the bounds see
section 5: all the safety properties are theorems too, under the hypotheses named there.

*Fairness.* `FairSpec` of `Syncer` assumes weak fairness of the steps of a run together (a
started process goes on; the calls return, with a result or an error), and strong fairness of
`Deployment`: again and again the hour of the repeated run comes, by CronJob or by crontab, when no
run is under way, and the run that is started has the configuration they all have and finds an index that
has caught up with the registry. The fairness is strong because other runs may be started in between, with other
options, by hand; all it excludes is that they always win. Nothing is assumed
of particular charts or branches: which name, version or id is next is
left to the code's order or to the map iteration. Failing calls and killed runs
are bounded by constants, that is, they stop eventually; how often they may
happen before that does not matter to the argument. `StartFails`, `Publish`, `Again` and `Crash`
are not fair. `FairSpec` of `PackageCache` assumes weak fairness of each client's steps: a
process that runs keeps running, and its owner runs it again.

*Deadlock* is checked in every run but `startup`, which ends when the command starts syncing or
is refused.

## 5. The proofs

The safety properties of all passing runs, the action property and the five refinements are
theorems: they hold for every
value of the constants, of which the runs check one. The hypotheses named here are conditions on
top of the `ASSUME`s of the modules.

| Module | Theorem | Hypotheses |
|---|---|---|
| `SyncerProofs` | `TypeCorrect`, `RunsEndTheorem`, `FromSourceTheorem` | none |
| | `DistinctIdsTheorem`: `DistinctIds` holds | versions begin with a segment no name contains |
| | `PushesAgainOnlyCarriedTheorem` | `DistinctIds`, `CanonicalVersions` |
| | `PushesOnlyMissingTheorem` | these and `~ Reused` |
| | `TornForGoodTheorem` | these and `PersistentWorkdir` |
| | `NoErrorMeansSyncedTheorem`, `CallFailuresIsolatedTheorem` | `DistinctIds`, `CanonicalVersions`, `DistinctPrecedence`, `DatedCharts` |
| | `FailureIsolationTheorem` | these and `AllParsable` |
| `MirrorProofs` | `ImplementsMirrorTheorem`: `Spec => Mirror!Spec` | the four, and `IsFiniteSet(Parsable)` |
| | `ImplementsCacheFilesTheorem` | none |
| `ChartMirrorProofs` | `NothingInventedTheorem`, `SyncedLacksNothingTheorem` | none |
| `OciClientProofs` | `TypeCorrect`, `ListsWhatLastedTheorem`, `EmptyOnlyIfMovedTheorem` | none |
| | `PushesToEmptyTagTheorem` | `DistinctTags` |
| `PackageCacheProofs` | `TypeCorrect` | none |
| | `RestsWholeTheorem` | `OnlyFetching` |
| | `ReadsOneRevisionTheorem`, `UploadedIsCachedTheorem`, `ImplementsCacheFileTheorem` | `Alone` |
| `StartupProofs` | `TypeCorrect`, `UsableWhenStartedTheorem`, `CredentialsAsDocumentedTheorem`, `OnlySourceIsIndexedTheorem`, `IndexToldApartTheorem` | none |
| `AirgapProofs` | `TypeCorrect` | none |
| | `RelocatedTheorem`, `NamesTellChartsTheorem`, `ImplementsExportMirrorTheorem`, `ImplementsImportMirrorTheorem`, `OnlyPublishedTheorem` | `PlainVersions` |
| | `NoPanicTheorem` | every version ends in a segment `1.2.3` |

### The engine

*Hypotheses.* They are conditions on what is published, not on the
environment, and each stands for a behaviour of the code. Ids must be distinct,
because `app` at `1-2` and `app-1` at `2` have one id, and the second is taken for the first
(`index.go:158`). `DistinctIdsTheorem` says when they are: a version begins with a segment of a kind
no name contains, as `1.2.3` is, whatever follows it. `CanonicalVersions`, `DistinctPrecedence` and
`AllParsable` ask something only where some configuration has `--latest-version-only`: the version looked
for in the target is then the canonical form and the one pushed is
the chart's own (`index.go:117`), of versions that differ only in build metadata one is
chosen, and one that does not parse ends the load, which is the run
`unparsable_version`. `DatedCharts` asks something only of Helm sources and only where some run
has no `--from-date`: the zero time is before the default threshold.
A `Syncer` must be used once (`~ Reused`) for `PushesOnlyMissing` alone;
that is the run `second_call`.

*Inductive invariant.* The properties speak of the end of a run and are not inductive.
The strengthening says where everything is in between, in four parts, defined at the
end of `Syncer.tla`:

- `Identified`: what is indexed, cached or at hand under an id is the chart of that
  id, and one the source was seen to hold. Here distinct ids and canonical versions enter.
- `Remembered`: a blamed chart or an aborted load means `errs` is set, and no run with
  `errs` set ends as synced.
- `NothingLost`: a chart the run owes is blamed, in the target, or at one definite
  place: still to be requested, among the names to visit, among the versions
  listed, being fetched, in the index, pending in the sync loop, or being pushed. Each action
  moves a chart from one place to the next. The step that lists a name is the hard one, since
  it changes what the run owes (`OwedIsFresh`, `ListingOwes`).
- `StillMissing`: what this call indexed and is still pending, or at hand, is not in the target. It
  needs that the sync loop visits no id twice, and that nobody else writes to the target.

`PushesAgainOnlyCarried` follows from `Identified` and `StillMissing`, and
`PushesOnlyMissing` from it, with nothing carried; the others from `NothingLost` at the end of a run,
where all places but "blamed" and "in the target" are empty. `NoErrorMeansSynced`
needs `Remembered` in addition: nothing is blamed. It does not need `AllParsable`, because an aborted
load is remembered.

*Refinement.* `NothingLost` bounds what is copied from below; that a run copies nothing it does
not owe needs two more parts, defined in `MirrorProofs`. `OnlySelected`: each name to visit was
requested, each version to process passed the latest-only filter against what is
known of its name (which no later listing of the run changes, since a name is visited once), and
each indexed chart is one the options ask for or one of an earlier call. `CarriedKept`: the charts
of earlier calls are still indexed, and on their way like the others; without it a
further call could report success and lack one. Then each step of `Syncer` is a
step of `ChartMirror` or a stutter. A listing is `Learn`, and `ListingSupersedes` shows that it drops a
chart only for a newer one of its name; this is where finiteness is used, for a highest version
(`FiniteHighest`).

*The cache.* `ImplementsCacheFiles` needs no hypothesis: whatever ids clash, a file of the
working directory is opened only where there is none, and only the step that is writing it changes it.

*How a run ends.* `RunsEnd` is the half of termination that needs no fairness. Each step of a run, failing or
not, goes on to the next of the three loops, or shortens the list of names, the list of versions or that
of pending charts, or ends a detour to fetch or push one chart; no step lengthens one of these
but in place of an earlier one. With finitely many charts a run therefore
has finitely many steps. That they are taken is fairness, and is only model-checked.

*With less, and for longer.* `FromSource` needs no hypothesis: where ids clash a run may push the
wrong chart, but never one the source does not have. `TornForGood` is the general form of finding 3: the
package of a chart that is cut short, is not being written and is missing from the target stays so for
ever when the working directory is kept. It rests on `Identified`, and on the chart at hand in a push having a whole
package (`PushedIsCached`).

### The OCI client

`ListsWhatLasted`: at each point of a listing, a tag that was a chart all the while is returned
already or still to be looked at, and every version returned was seen (`Looking`). `EmptyOnlyIfMoved`: between the
details and the fetch of a version, its tag has a package or was moved (`Resolved`).
`PushesToEmptyTag`: an indexed version's tag in the target is empty or was filled for another tag, and
stays so until the push, because the versions of one listing have tags of their own (`OneForm`); this
needs that no two versions of charts are written as one tag.

### The cache

`RestsWhole` is proved for any number of processes on one directory and packages of any
size, if all fetch one package through `FetchAndCache`, and none is killed. The
invariant is `Tended`: each chunk missing from the file that is there
will still be written by some client that has this file open, or some client is about to remove
the file. Truncation by a second `Create` keeps it, since the one who truncates has
everything still to write. The fetch of the OCI client is left out because of `LayersFail`, kills because of what
the run `killed_download` shows. `ReadsOneRevision` and `UploadedIsCached` are proved
for one client per directory (`Alone`), with kills, uploads and republication: what is in a file is always the
beginning of one revision, as long as it has been written. `ImplementsCacheFile` needs in addition that nobody
creates the file between the look for it and its creation (`CreatesNew`).

`RestsWhole` cannot be had with uploads, republication or kills: an upload whose copy fails leaves
what it wrote (`chartmuseum.go`, `harbor.go` return without `Invalidate`), two revisions may be
interleaved in one file, and a kill leaves a beginning.

### Configuration

The theorems hold for every file and environment. What one step has checked holds
ever after, since nothing writes the configuration after `Load` (`Passed`); the client of each side is the one its section makes (`Made`).
`CredentialsAsDocumented` follows by cases on which settings are set: a pair that viper completes is preferred
half by half, one it does not complete is the file's and has a half missing, and half a
pair for container registries does not get past `Validate`. `IndexToldApart` is inductive with the fact
that only a source registry is asked, and asked before its client is made.

### The local repository

`Relocated` needs to know where a chart an export owes is: still to be written, or in a file,
whole or torn, or an error was joined (`Exporting`); that no file of an export ever goes
(`Provided`); and that an import has pushed it, has it still to push, or joined an error (`Importing`). A
torn wrap counts as exported by later runs, and it is the import's error that tells. File names tell charts apart under
`PlainVersions`: a version ending in a segment of the form `1.2.3` is that segment. A
version as `1.0.0-2.0.0` would be read off as part of the name.

The two refinements use more: an export's charts still to be written have no file (`StillMissing`), so each
`Upload` is a `Copy`; an undated import forgets none of the charts it read, and they all have files
(`StillToPush`, `ScanTells`). `OnlyPublished` is then a consequence of `ChartMirror` alone: `NothingInvented`, taken through
the import's mirror and through the export's, gives that what reached the disconnected registry was published at
the connected one. `NoPanicTheorem` is the general form of finding 5: what makes `New` panic is a
version that does not end in a segment `1.2.3`, and nothing that a run does, torn wraps included.

*Only model-checked.* Liveness (`EventuallyMirrored`, `MirroredUnlessSpoilt`, `KeepsReadingWhole`)
is out of reach of this prover; `RunsEnd` and `TornForGood` are what can be proved of it.

## 6. What the models found

Five runs expect a violation; `findings` quotes the line each is about.

1. `no_charts`: when every chart fails to load, the index is empty, and
   `ErrNoChartsToSync` replaces the joined errors; the command reports success.
2. `unparsable_version`: under `--latest-version-only`, one tag that is no semantic
   version ends the load, and the charts sorted after it are never synced.
3. `killed_download`: with a working directory that outlives the process, as the default one,
   `~/.charts-syncer`, does on a host, a run killed
   while downloading leaves a partial package that every later run takes from the
   cache, and fails to wrap, although it finds the chart missing from the target each time. The fairness of `FairSpec` does not help: the chart is
   stuck. `syncer_oci` shows that the deployed CronJob, whose directory goes with the
   pod, is not affected, and `syncer_helm` that failures short of being killed are not either; `TornForGoodTheorem` shows that
   the chart is lost in every instance with a kept directory.
4. `second_call`: a second `SyncPendingCharts` on one `Syncer` starts from the index of the first
   and pushes its charts once more. Nothing is lost by it (`ImplementsMirror` holds
   of further calls as well), and the command makes one call only.
5. `airgap_candidate`: the wrap of a prerelease has a file name `versionRe` does not
   match, and the next run that opens the directory indexes a nil slice. `NoPanicTheorem` shows that only such
   versions do this.

Seen while modelling, with no run of their own:

- the hypotheses on ids, canonical versions and dates of section 5;
- an entry without URLs in a Helm index takes down every run that asks for its chart, before the
  run pushed anything (`FetchPanics`; `MirroredUnlessSpoilt` has it as an exception);
- a tag that is not the version of its chart, as `stable`, is looked for in the target as that tag
  and pushed under the version, so it is pushed again by every run (`floated` in `PushesToEmptyTag`);
- a tag moved between the details and the fetch to an artifact without a chart layer is cached
  as an empty package, which a kept working directory serves forever (`EmptyOnlyIfMoved`);
- of the error returns of the OCI client's `Fetch` after it created the cache file, the one for
  `img.Layers()` does not remove it (`oci.go:255`), with the same effect (`LayersFail`);
- an import with a `--from-date` finds nothing to do in any directory and the command
  reports success, since a LOCAL source dates all charts at the Unix epoch;
- a wrap cut short in the export directory counts as done for later exports, and only the import
  reports it;
- an upload that the repository refuses stays in the cache;
- with a user name and no password, or the reverse, the clients' own calls are anonymous, while the
  charts index is asked for, and distribution-tooling is called, with the half there is (`HalfPair`).

## 7. What is not modelled

- A target other than OCI in `Syncer`; `Airgap` has the LOCAL ones.
- Container images, and the distribution-tooling library: `Wrap` and `Unwrap` succeed or fail.
- `Upload` of the OCI client, which only tests call.
- The encoding of indexes and the resolvers of the charts index: an index is there, missing or unreadable.
- What the settings say (`Startup` knows only where they came from); command line, logging, generated code, test doubles.
- `NormalizeChartURL`, `Untar` and the SHA-1 of ids: the first and the last are formatting, the
  second is called by tests only.
- Withdrawing or replacing charts in the repositories seen by `Syncer`. (`PackageCache` has
  republication of one package, `OciClient` moved and deleted tags.)

## 8. The plan

Done: all modules of section 3 and their runs; the safety properties of every passing run, the action
property and the refinements proved.

Left, in this order:

1. `OciClient` as the source of `Syncer`: its listing, details and fetch as a refinement of `Syncer`'s
   one-step calls, which holds only while no tag moves during a run.
2. The files `OciClient` caches as `CacheFile`, and the analogue of `RunsEnd` for its three loops.
3. The hazards that no property covers (`hazards` in `PROJECT.json`, each with its note): most need another
   writer to the target, or an instance outside the hypotheses of section 5.
4. Pure helpers against reference definitions: `NormalizeChartURL`, the target path of an extracted
   archive member.
