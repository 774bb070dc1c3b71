------------------------------ MODULE OciClient ------------------------------
(***************************************************************************)
(* The OCI repository client (pkg/client/repo/oci) on both sides of runs   *)
(* over the charts of one name, call by call, against a source registry    *)
(* whose tags others move and delete between any two calls.                *)
(*                                                                         *)
(* A version is what the client is given and gives out; a tag is how the   *)
(* registry knows it, with + written as _. The charts index names charts   *)
(* by their versions, the live listing by their tags.                      *)
(***************************************************************************)
EXTENDS Integers

CONSTANTS
  Versions,        \* versions as strings: those of charts, and every tag
  Semver,          \* the versions a chart can have
  Tags,
  TagOf,           \* the tag of each version
  MayHold,         \* the artifacts others push under each tag
  Indexes,         \* what the charts index may list for the name: {} if not the name
  MaxMoves,        \* bound on tags moved or deleted by others
  MaxFaults,       \* bound on failing calls
  None,            \* no artifact, no package, no file
  Torn, Empty      \* a file cut short; a whole file without a package

\* A manifest: whether its config is Helm's, and the package in its chart
\* content layer, if it has one.
Artifacts == [helm : BOOLEAN, package : Semver \cup {None}]

ASSUME OciAssumption ==
  /\ Tags \subseteq Versions /\ Semver \subseteq Versions
  /\ TagOf \in [Versions -> Tags]
  /\ \A t \in Tags : TagOf[t] = t
  /\ MayHold \in [Tags -> SUBSET Artifacts]
  /\ Indexes \subseteq SUBSET Semver
  /\ MaxMoves \in Nat /\ MaxFaults \in Nat
  /\ {None, Torn, Empty} \cap Versions = {}
  /\ None # Torn /\ None # Empty /\ Torn # Empty

VARIABLES
  src,      \* the artifact under each tag of the source
  tgt,      \* the package under each tag of the target
  cache,    \* the cached file of each version
  entries,  \* the versions of the charts index read by New
  pc,
  tags,     \* listed tags whose manifest is still to be looked at
  listed,   \* the versions ListChartVersions returns
  todo,     \* versions still to be processed
  version,  \* the version being processed
  img,      \* the manifest Fetch resolved
  index,    \* fetched versions still to be synced
  wrap,     \* the package being pushed
  lasting,  \* history: tags that were charts all through the listing
  seen,     \* history: tags that were charts at some time of the listing
  moved,    \* history: versions whose tag moved while they were being processed
  floated,  \* history: target tags pushed for a version with another tag
  moves, faults

vars == <<src, tgt, cache, entries, pc, tags, listed, todo, version, img, index, wrap,
          lasting, seen, moved, floated, moves, faults>>

registries == <<src, tgt>>
history == <<lasting, seen, moved, floated, moves>>

NoManifest == [helm |-> FALSE, package |-> None]
Charts(registry) == {t \in Tags : registry[t] # None /\ registry[t].helm}

Fault == faults < MaxFaults /\ faults' = faults + 1
Goto(l) == pc' = l

Init ==
  /\ src \in [Tags -> Artifacts \cup {None}]
  /\ \A t \in Tags : src[t] = None \/ src[t] \in MayHold[t]
  /\ tgt = [t \in Tags |-> None]
  /\ cache = [v \in Versions |-> None]
  /\ entries = {} /\ pc = "idle" /\ tags = {} /\ listed = {} /\ todo = {} /\ index = {}
  /\ version \in Tags /\ img = NoManifest /\ wrap = None
  /\ lasting = {} /\ seen = {} /\ moved = {} /\ floated = {} /\ moves = 0 /\ faults = 0

\* Others push to a tag, point it elsewhere, or delete it.
Move(t) ==
  /\ moves < MaxMoves /\ moves' = moves + 1
  /\ \E a \in (MayHold[t] \cup {None}) \ {src[t]} : src' = [src EXCEPT ![t] = a]
  /\ lasting' = IF pc = "look" THEN lasting \cap Charts(src') ELSE lasting
  /\ seen' = IF pc = "look" THEN seen \cup Charts(src') ELSE seen
  /\ moved' = IF pc \in {"check", "fetch"} /\ t = TagOf[version]
              THEN moved \cup {version} ELSE moved
  /\ UNCHANGED <<tgt, cache, entries, pc, tags, listed, todo, version, img, index, wrap,
                 floated, faults>>

-----------------------------------------------------------------------------
(* New and ListChartVersions. *)

Connect ==
  /\ pc = "idle" /\ Goto("list")
  /\ entries' \in Indexes
  /\ listed' = {} /\ lasting' = {} /\ seen' = {}
  /\ UNCHANGED <<registries, cache, tags, todo, version, img, index, wrap, moved, floated,
                 moves, faults>>

ListIndexed ==
  /\ pc = "list" /\ Goto("load")
  /\ entries # {}
  /\ listed' = entries /\ todo' = entries
  /\ UNCHANGED <<registries, cache, entries, tags, version, img, index, wrap, history, faults>>

\* The tags are those of one moment, the manifests those of later ones.
ListTags ==
  /\ pc = "list" /\ Goto("look")
  /\ entries = {}
  /\ tags' = {t \in Tags : src[t] # None}
  /\ lasting' = Charts(src) /\ seen' = Charts(src)
  /\ UNCHANGED <<registries, cache, entries, listed, todo, version, img, index, wrap, moved,
                 floated, moves, faults>>

Look(t) ==
  /\ pc = "look" /\ t \in tags
  /\ tags' = tags \ {t}
  /\ UNCHANGED <<registries, cache, entries, todo, version, img, index, wrap, history>>

LookAt(t) ==
  /\ Look(t)
  /\ src[t] # None
  /\ listed' = IF src[t].helm THEN listed \cup {t} ELSE listed
  /\ UNCHANGED <<pc, faults>>

LookFails_Skips(t) ==
  /\ Look(t)
  /\ \/ src[t] = None /\ UNCHANGED faults
     \/ Fault
  /\ UNCHANGED <<pc, listed>>

\* One manifest that cannot be had makes the listing fail.
LookFails(t) ==
  /\ pc = "look" /\ t \in tags /\ Goto("idle")
  /\ \/ src[t] = None /\ UNCHANGED faults
     \/ Fault
  /\ tags' = {} /\ listed' = {} /\ lasting' = {} /\ seen' = {}
  /\ UNCHANGED <<registries, cache, entries, todo, version, img, index, wrap, moved, floated,
                 moves>>

\* The registry does not know the repository, or the call fails.
ListTagsFails ==
  /\ pc = "list" /\ Goto("idle")
  /\ entries = {}
  /\ \/ (\A t \in Tags : src[t] = None) /\ UNCHANGED faults
     \/ Fault
  /\ UNCHANGED <<registries, cache, entries, tags, listed, todo, version, img, index, wrap,
                 history>>

ListDone ==
  /\ pc = "look" /\ Goto("load")
  /\ tags = {}
  /\ todo' = listed
  /\ UNCHANGED <<registries, cache, entries, tags, listed, version, img, index, wrap, history,
                 faults>>

-----------------------------------------------------------------------------
(* GetChartDetails, Has, Fetch: what processVersion and loadChart call. *)

DigestOf_Any(t) == src[t] # None
\* getChartDigest: the digest of the chart content layer, if there is one.
DigestOf(t) == src[t] # None /\ src[t].package # None

Details(v) ==
  /\ pc = "load" /\ v \in todo
  /\ todo' = todo \ {v}
  /\ UNCHANGED <<registries, cache, entries, tags, listed, img, index, wrap, history>>

DetailsFound(v) ==
  /\ Details(v) /\ Goto("check")
  /\ DigestOf(TagOf[v])
  /\ version' = v
  /\ UNCHANGED faults

DetailsFail(v) ==
  /\ Details(v)
  /\ \/ ~ DigestOf(TagOf[v]) /\ UNCHANGED faults
     \/ Fault
  /\ UNCHANGED <<pc, version>>

Has_Verbatim(v) == v \in Tags /\ tgt[v] # None
Has(v) == tgt[TagOf[v]] # None

CheckTarget ==
  /\ pc = "check"
  /\ Goto(IF Has(version) THEN "load" ELSE "fetch")
  /\ UNCHANGED <<registries, cache, entries, tags, listed, todo, version, img, index, wrap,
                 history, faults>>

CheckTargetFails ==
  /\ pc = "check" /\ Goto("load")
  /\ Fault
  /\ UNCHANGED <<registries, cache, entries, tags, listed, todo, version, img, index, wrap,
                 history>>

Fetched ==
  /\ Goto("load")
  /\ UNCHANGED <<registries, entries, tags, listed, todo, version, img, wrap, history>>

FetchCached ==
  /\ pc = "fetch"
  /\ cache[version] # None
  /\ index' = index \cup {version}
  /\ Fetched
  /\ UNCHANGED <<cache, faults>>

\* The manifest is resolved once more, then the cache file is created.
FetchOpens ==
  /\ pc = "fetch" /\ Goto("copy")
  /\ cache[version] = None /\ src[TagOf[version]] # None
  /\ img' = src[TagOf[version]]
  /\ cache' = [cache EXCEPT ![version] = Torn]
  /\ UNCHANGED <<registries, entries, tags, listed, todo, version, index, wrap, history, faults>>

FetchFails ==
  /\ pc = "fetch"
  /\ cache[version] = None
  /\ \/ src[TagOf[version]] = None /\ UNCHANGED faults
     \/ Fault
  /\ Fetched
  /\ UNCHANGED <<cache, index>>

\* Every chart content layer is copied, be there none; blobs do not change.
CopyDone ==
  /\ pc = "copy"
  /\ cache' = [cache EXCEPT ![version] = IF img.package = None THEN Empty ELSE img.package]
  /\ index' = index \cup {version}
  /\ Fetched
  /\ UNCHANGED faults

CopyFails ==
  /\ pc = "copy"
  /\ Fault
  /\ cache' = [cache EXCEPT ![version] = None]
  /\ Fetched
  /\ UNCHANGED index

LayersFail ==
  /\ pc = "copy"
  /\ Fault
  /\ Fetched
  /\ UNCHANGED <<cache, index>>

-----------------------------------------------------------------------------
(* The sync loop; the chart goes to the tag of its own version. *)

LoadDone ==
  /\ pc = "load" /\ Goto("sync")
  /\ todo = {}
  /\ UNCHANGED <<registries, cache, entries, tags, listed, todo, version, img, index, wrap,
                 history, faults>>

Sync(v) ==
  /\ pc = "sync" /\ v \in index
  /\ index' = index \ {v}
  /\ version' = v
  /\ UNCHANGED <<registries, cache, entries, tags, listed, todo, img, history>>

Wrap_Unread(v) ==
  /\ Sync(v) /\ Goto("push")
  /\ wrap' = cache[v]
  /\ UNCHANGED faults

Wrap(v) ==
  /\ Sync(v) /\ Goto("push")
  /\ cache[v] \in Semver
  /\ wrap' = cache[v]
  /\ UNCHANGED faults

WrapFails(v) ==
  /\ Sync(v)
  /\ \/ cache[v] \notin Semver /\ UNCHANGED faults
     \/ Fault
  /\ UNCHANGED <<pc, wrap>>

Pushed == [tgt EXCEPT ![TagOf[wrap]] = wrap]

PushStep ==
  /\ pc = "push" /\ Goto("sync")
  /\ wrap' = None
  /\ floated' = IF TagOf[wrap] # TagOf[version] THEN floated \cup {TagOf[wrap]} ELSE floated
  /\ UNCHANGED <<src, cache, entries, tags, listed, todo, version, img, index, lasting, seen,
                 moved, moves>>

Push == PushStep /\ tgt' = Pushed /\ UNCHANGED faults

\* A failed push may have reached the registry.
PushFails == PushStep /\ tgt' \in {tgt, Pushed} /\ Fault

Finish ==
  /\ pc = "sync" /\ Goto("idle")
  /\ index = {}
  /\ UNCHANGED <<registries, cache, entries, tags, listed, todo, version, img, index, wrap,
                 history, faults>>

Next ==
  \/ \E t \in Tags : Move(t) \/ LookAt(t) \/ LookFails(t)
  \/ Connect \/ ListIndexed \/ ListTags \/ ListTagsFails \/ ListDone
  \/ \E v \in Versions : DetailsFound(v) \/ DetailsFail(v) \/ Wrap(v) \/ WrapFails(v)
  \/ CheckTarget \/ CheckTargetFails
  \/ FetchCached \/ FetchOpens \/ FetchFails \/ CopyDone \/ CopyFails \/ LayersFail
  \/ LoadDone \/ Push \/ PushFails \/ Finish

Spec == Init /\ [][Next]_vars

-----------------------------------------------------------------------------
(* Properties. *)

\* Every variable stays in its type, and only a package is ever pushed.
TypeOK ==
  /\ src \in [Tags -> Artifacts \cup {None}]
  /\ tgt \in [Tags -> Semver \cup {None}]
  /\ cache \in [Versions -> Semver \cup {None, Torn, Empty}]
  /\ entries \in SUBSET Semver
  /\ pc \in {"idle", "list", "look", "load", "check", "fetch", "copy", "sync", "push"}
  /\ tags \in SUBSET Tags /\ listed \in SUBSET Versions /\ todo \in SUBSET listed
  /\ version \in Versions /\ img \in Artifacts /\ index \in SUBSET listed
  /\ wrap \in Semver \cup {None} /\ (pc = "push" <=> wrap # None)
  /\ lasting \in SUBSET Tags /\ seen \in SUBSET Tags /\ floated \in SUBSET Tags
  /\ moved \in SUBSET Versions
  /\ moves \in 0..MaxMoves /\ faults \in 0..MaxFaults

\* The live listing is made of many calls, and tags come and go between them.
\* What it returns is still an answer: every tag that was a chart all the while,
\* and none that never was.
ListsWhatLasted ==
  pc \in {"load", "check", "fetch", "copy", "sync", "push"} /\ entries = {} =>
    lasting \subseteq listed /\ listed \subseteq seen

\* Fetch writes a file for any manifest, one without a chart too. As the details
\* are asked for first, that takes a tag moved between the two calls.
EmptyOnlyIfMoved == \A v \in Versions : cache[v] = Empty => v \in moved

\* A chart goes to a tag of the target that was empty, whether the charts index
\* or the listing of tags named it, now or in an earlier run. A tag with a chart
\* of another version ("stable") is what it takes to push one that is there.
PushesToEmptyTag ==
  pc = "push" /\ tgt[TagOf[wrap]] # None =>
    TagOf[wrap] # TagOf[version] \/ TagOf[wrap] \in floated
==============================================================================
