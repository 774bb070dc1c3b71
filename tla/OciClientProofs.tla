--------------------------- MODULE OciClientProofs ---------------------------
(* Theorems about OciClient, for every registry, index and bound.            *)
EXTENDS OciClient, TLAPS

Working == {"check", "fetch", "copy"}

\* What the loops have left to do was listed in this run.
Listing ==
  /\ pc \in {"idle", "list", "look"} => todo = {} /\ index = {}
  /\ pc = "sync" \/ pc = "push" => todo = {}
  /\ pc \in Working => version \in listed
  /\ pc = "list" => listed = {}
  /\ pc = "look" => entries = {}

\* A live listing in progress has kept or still has to look at what lasts.
Looking ==
  pc = "look" =>
    /\ lasting \subseteq Charts(src) /\ Charts(src) \subseteq seen
    /\ lasting \subseteq tags \cup listed
    /\ listed \subseteq seen

LEMMA TypeInit == Init => TypeOK /\ Listing /\ Looking
<1> SUFFICES ASSUME Init PROVE TypeOK /\ Listing /\ Looking
  OBVIOUS
<1>1. /\ tgt \in [Tags -> Semver \cup {None}]
      /\ cache \in [Versions -> Semver \cup {None, Torn, Empty}]
      /\ img \in Artifacts /\ version \in Versions
  BY OciAssumption DEF Init, NoManifest, Artifacts
<1>2. moves \in 0..MaxMoves /\ faults \in 0..MaxFaults
  BY OciAssumption DEF Init
<1> QED
  BY <1>1, <1>2 DEF Init, TypeOK, Listing, Looking, Working

\* A step of the loops of the engine, or of the calls it makes.
LEMMA TypeNext == TypeOK /\ Listing /\ [Next]_vars => TypeOK' /\ Listing'
<1> SUFFICES ASSUME TypeOK, Listing, [Next]_vars PROVE TypeOK' /\ Listing'
  OBVIOUS
<1>a. /\ Tags \subseteq Versions /\ Semver \subseteq Versions /\ TagOf \in [Versions -> Tags]
      /\ MayHold \in [Tags -> SUBSET Artifacts] /\ Indexes \subseteq SUBSET Semver
      /\ MaxMoves \in Nat /\ MaxFaults \in Nat
      /\ None \notin Semver /\ Torn \notin Semver /\ Empty \notin Semver
  BY OciAssumption
<1>b. Fault => faults' \in 0..MaxFaults
  BY <1>a DEF Fault, TypeOK
<1>c. \A f : Charts(f) \subseteq Tags
  BY DEF Charts
<1>d. \A a \in Artifacts : a.package \in Semver \cup {None}
  BY DEF Artifacts
<1> USE DEF TypeOK, Listing, Working, registries, history, Goto
<1>1. ASSUME NEW t \in Tags, Move(t) PROVE TypeOK' /\ Listing'
  <2>1. src' \in [Tags -> Artifacts \cup {None}]
    <3>1. PICK a \in MayHold[t] \cup {None} : src' = [src EXCEPT ![t] = a]
      BY <1>1 DEF Move
    <3>2. a \in Artifacts \cup {None}
      BY <1>a
    <3> QED
      BY <3>1, <3>2
  <2>2. moves' \in 0..MaxMoves
    BY <1>1, <1>a DEF Move
  <2>3. lasting' \in SUBSET Tags /\ seen' \in SUBSET Tags /\ moved' \in SUBSET Versions
    BY <1>1, <1>c DEF Move
  <2> QED
    BY <1>1, <2>1, <2>2, <2>3 DEF Move
<1>2. CASE Connect \/ ListIndexed \/ ListTags \/ ListTagsFails \/ ListDone
  BY <1>2, <1>a, <1>b, <1>c DEF Connect, ListIndexed, ListTags, ListTagsFails, ListDone
<1>3. ASSUME NEW t \in Tags, LookAt(t) \/ LookFails(t) PROVE TypeOK' /\ Listing'
  BY <1>3, <1>a, <1>b DEF LookAt, LookFails, Look
<1>4. ASSUME NEW v \in Versions, DetailsFound(v) \/ DetailsFail(v) PROVE TypeOK' /\ Listing'
  BY <1>4, <1>a, <1>b DEF DetailsFound, DetailsFail, Details
<1>5. CASE CheckTarget \/ CheckTargetFails
  BY <1>5, <1>a, <1>b DEF CheckTarget, CheckTargetFails
<1>6. CASE FetchCached \/ FetchOpens \/ FetchFails
  BY <1>6, <1>a, <1>b DEF FetchCached, FetchOpens, FetchFails, Fetched
<1>7. CASE CopyDone \/ CopyFails \/ LayersFail
  BY <1>7, <1>a, <1>b, <1>d DEF CopyDone, CopyFails, LayersFail, Fetched
<1>8. ASSUME NEW v \in Versions, Wrap(v) \/ WrapFails(v) PROVE TypeOK' /\ Listing'
  BY <1>8, <1>a, <1>b DEF Wrap, WrapFails, Sync
<1>9. CASE Push \/ PushFails
  BY <1>9, <1>a, <1>b DEF Push, PushFails, PushStep, Pushed
<1>10. CASE LoadDone \/ Finish
  BY <1>10 DEF LoadDone, Finish
<1>11. CASE UNCHANGED vars
  BY <1>11 DEF vars
<1> QED
  BY <1>1, <1>2, <1>3, <1>4, <1>5, <1>6, <1>7, <1>8, <1>9, <1>10, <1>11 DEF Next

\* The type invariant holds for all registries, charts indexes and bounds: what
\* is pushed is a package, and the loops handle only versions that were listed.
THEOREM TypeCorrect == Spec => []TypeOK
<1> DEFINE Inv == TypeOK /\ Listing
<1>1. Init => Inv
  BY TypeInit
<1>2. Inv /\ [Next]_vars => Inv'
  BY TypeNext
<1> QED
  BY <1>1, <1>2, PTL DEF Spec
-----------------------------------------------------------------------------
(* The live listing. *)

ListingInv == ListsWhatLasted /\ Looking

LEMMA ListingInvNext ==
  ASSUME TypeOK, Listing, ListingInv, [Next]_vars
  PROVE  ListingInv'
<1> USE DEF ListingInv, ListsWhatLasted, Looking, registries, history, Goto
<1>1. ASSUME NEW t \in Tags, Move(t) PROVE ListingInv'
  BY <1>1 DEF Move
<1>2. CASE Connect \/ ListIndexed \/ ListTagsFails
  BY <1>2 DEF Connect, ListIndexed, ListTagsFails
<1>3. CASE ListTags
  BY <1>3 DEF ListTags, Listing, Charts
<1>4. CASE ListDone
  BY <1>4 DEF ListDone
<1>5. ASSUME NEW t \in Tags, LookAt(t) PROVE ListingInv'
  <2>1. /\ pc = "look" /\ pc' = "look" /\ tags' = tags \ {t}
        /\ UNCHANGED <<src, lasting, seen>>
        /\ listed' = IF src[t].helm THEN listed \cup {t} ELSE listed
        /\ src[t] # None
    BY <1>5 DEF LookAt, Look
  <2>2. src[t].helm <=> t \in Charts(src)
    BY <2>1 DEF Charts
  <2> QED
    BY <2>1, <2>2
<1>6. ASSUME NEW t \in Tags, LookFails(t) PROVE ListingInv'
  BY <1>6 DEF LookFails
<1>7. ASSUME NEW v \in Versions, DetailsFound(v) \/ DetailsFail(v) PROVE ListingInv'
  BY <1>7 DEF DetailsFound, DetailsFail, Details
<1>8. CASE CheckTarget \/ CheckTargetFails
  BY <1>8 DEF CheckTarget, CheckTargetFails
<1>9. CASE \/ FetchCached \/ FetchOpens \/ FetchFails
           \/ CopyDone \/ CopyFails \/ LayersFail
  BY <1>9 DEF FetchCached, FetchOpens, FetchFails, CopyDone, CopyFails, LayersFail, Fetched
<1>10. ASSUME NEW v \in Versions, Wrap(v) \/ WrapFails(v) PROVE ListingInv'
  BY <1>10 DEF Wrap, WrapFails, Sync
<1>11. CASE Push \/ PushFails
  BY <1>11 DEF Push, PushFails, PushStep
<1>12. CASE LoadDone \/ Finish
  BY <1>12 DEF LoadDone, Finish
<1>13. CASE UNCHANGED vars
  BY <1>13 DEF vars
<1> QED
  BY <1>1, <1>2, <1>3, <1>4, <1>5, <1>6, <1>7, <1>8, <1>9, <1>10, <1>11, <1>12, <1>13
     DEF Next

\* However tags come, move and go between the calls a live listing is made of,
\* it returns every tag that was a chart all the while and none that never was.
THEOREM ListsWhatLastedTheorem == Spec => []ListsWhatLasted
<1> DEFINE Inv == TypeOK /\ Listing /\ ListingInv
<1>1. Init => Inv
  BY TypeInit DEF Init, ListingInv, ListsWhatLasted
<1>2. Inv /\ [Next]_vars => Inv'
  BY TypeNext, ListingInvNext
<1>3. Inv => ListsWhatLasted
  BY DEF ListingInv
<1> QED
  BY <1>1, <1>2, <1>3, PTL DEF Spec
-----------------------------------------------------------------------------
(* The package in the cache file. *)

\* Until the file is written the manifest has a package, or its tag moved.
Resolved ==
  /\ pc \in {"check", "fetch"} => DigestOf(TagOf[version]) \/ version \in moved
  /\ pc = "copy" => img.package # None \/ version \in moved

EmptyInv == EmptyOnlyIfMoved /\ Resolved

LEMMA EmptyInvNext ==
  ASSUME TypeOK, EmptyInv, [Next]_vars
  PROVE  EmptyInv'
<1>a. /\ None \notin Semver /\ Torn # Empty /\ None # Empty /\ Empty \notin Semver
      /\ TagOf \in [Versions -> Tags]
      /\ img.package \in Semver \cup {None}
  BY OciAssumption DEF TypeOK, Artifacts
<1> USE DEF EmptyInv, EmptyOnlyIfMoved, Resolved, registries, history, Goto
<1>1. ASSUME NEW t \in Tags, Move(t) PROVE EmptyInv'
  <2>1. /\ UNCHANGED <<pc, version, img, cache>> /\ moved \subseteq moved'
        /\ pc \in {"check", "fetch"} /\ t = TagOf[version] => version \in moved'
        /\ \A u \in Tags : u # t => src'[u] = src[u]
    BY <1>1 DEF Move, TypeOK
  <2>2. pc \in {"check", "fetch"} /\ t # TagOf[version] =>
          (DigestOf(TagOf[version])' <=> DigestOf(TagOf[version]))
    BY <2>1, <1>a DEF DigestOf, TypeOK
  <2> QED
    BY <2>1, <2>2
<1>2. CASE Connect \/ ListIndexed \/ ListTags \/ ListTagsFails \/ ListDone
  BY <1>2 DEF Connect, ListIndexed, ListTags, ListTagsFails, ListDone
<1>3. ASSUME NEW t \in Tags, LookAt(t) \/ LookFails(t) PROVE EmptyInv'
  BY <1>3 DEF LookAt, LookFails, Look
<1>4. ASSUME NEW v \in Versions, DetailsFound(v) \/ DetailsFail(v) PROVE EmptyInv'
  BY <1>4 DEF DetailsFound, DetailsFail, Details, DigestOf
<1>5. CASE CheckTarget \/ CheckTargetFails
  BY <1>5 DEF CheckTarget, CheckTargetFails, DigestOf
<1>6. CASE FetchCached \/ FetchFails
  BY <1>6 DEF FetchCached, FetchFails, Fetched
<1>7. CASE FetchOpens
  BY <1>7, <1>a DEF FetchOpens, DigestOf, TypeOK
<1>8. CASE CopyDone
  BY <1>8, <1>a DEF CopyDone, Fetched, TypeOK
<1>9. CASE CopyFails \/ LayersFail
  BY <1>9, <1>a DEF CopyFails, LayersFail, Fetched, TypeOK
<1>10. ASSUME NEW v \in Versions, Wrap(v) \/ WrapFails(v) PROVE EmptyInv'
  BY <1>10 DEF Wrap, WrapFails, Sync
<1>11. CASE Push \/ PushFails
  BY <1>11 DEF Push, PushFails, PushStep
<1>12. CASE LoadDone \/ Finish
  BY <1>12 DEF LoadDone, Finish
<1>13. CASE UNCHANGED vars
  BY <1>13 DEF vars, DigestOf
<1> QED
  BY <1>1, <1>2, <1>3, <1>4, <1>5, <1>6, <1>7, <1>8, <1>9, <1>10, <1>11, <1>12, <1>13
     DEF Next

\* Only a tag that moved between the lookup of the digest and the fetch leaves a
\* whole cache file without a package, in whatever run it is found.
THEOREM EmptyOnlyIfMovedTheorem == Spec => []EmptyOnlyIfMoved
<1> DEFINE Inv == TypeOK /\ Listing /\ EmptyInv
<1>1. Init => Inv
  <2>1. Init => EmptyInv
    BY OciAssumption DEF Init, EmptyInv, EmptyOnlyIfMoved, Resolved
  <2> QED
    BY <2>1, TypeInit
<1>2. Inv /\ [Next]_vars => Inv'
  BY TypeNext, EmptyInvNext
<1>3. Inv => EmptyOnlyIfMoved
  BY DEF EmptyInv
<1> QED
  BY <1>1, <1>2, <1>3, PTL DEF Spec
-----------------------------------------------------------------------------
(* The tags of the target. *)

\* No two versions a chart can have are written as one tag.
DistinctTags == \A v, w \in Semver : TagOf[v] = TagOf[w] => v = w

\* Versions listed in one run have tags of their own.
OneForm ==
  /\ \A v, w \in listed : TagOf[v] = TagOf[w] => v = w
  /\ pc = "look" => listed \subseteq Tags

\* The tag of a version still to be pushed is empty, or was filled by another.
TagFree(v) == tgt[TagOf[v]] = None \/ TagOf[v] \in floated

FreeInv ==
  /\ \A v \in index : TagFree(v)
  /\ pc \in {"fetch", "copy", "push"} => TagFree(version)
  /\ pc = "push" => version \in listed /\ version \notin index

LEMMA OneFormNext ==
  ASSUME DistinctTags, TypeOK, Listing, OneForm, [Next]_vars
  PROVE  OneForm'
<1>a. Tags \subseteq Versions /\ \A t \in Tags : TagOf[t] = t
  BY OciAssumption
<1> USE DEF OneForm, registries, history, Goto
<1>1. ASSUME NEW t \in Tags, Move(t) PROVE OneForm'
  BY <1>1 DEF Move
<1>2. CASE Connect \/ ListTags \/ ListTagsFails \/ ListDone
  BY <1>2 DEF Connect, ListTags, ListTagsFails, ListDone, Listing
<1>3. CASE ListIndexed
  BY <1>3 DEF ListIndexed, DistinctTags, TypeOK
<1>4. ASSUME NEW t \in Tags, LookAt(t) PROVE OneForm'
  <2>1. /\ pc = "look" /\ pc' = "look" /\ listed' \subseteq listed \cup {t}
    BY <1>4 DEF LookAt, Look
  <2> QED
    BY <2>1, <1>a
<1>5. ASSUME NEW t \in Tags, LookFails(t) PROVE OneForm'
  BY <1>5 DEF LookFails
<1>6. ASSUME NEW v \in Versions, DetailsFound(v) \/ DetailsFail(v) PROVE OneForm'
  BY <1>6 DEF DetailsFound, DetailsFail, Details
<1>7. CASE CheckTarget \/ CheckTargetFails
  BY <1>7 DEF CheckTarget, CheckTargetFails
<1>8. CASE \/ FetchCached \/ FetchOpens \/ FetchFails
           \/ CopyDone \/ CopyFails \/ LayersFail
  BY <1>8 DEF FetchCached, FetchOpens, FetchFails, CopyDone, CopyFails, LayersFail, Fetched
<1>9. ASSUME NEW v \in Versions, Wrap(v) \/ WrapFails(v) PROVE OneForm'
  BY <1>9 DEF Wrap, WrapFails, Sync
<1>10. CASE Push \/ PushFails
  BY <1>10 DEF Push, PushFails, PushStep
<1>11. CASE LoadDone \/ Finish
  BY <1>11 DEF LoadDone, Finish
<1>12. CASE UNCHANGED vars
  BY <1>12 DEF vars
<1> QED
  BY <1>1, <1>2, <1>3, <1>4, <1>5, <1>6, <1>7, <1>8, <1>9, <1>10, <1>11, <1>12 DEF Next

LEMMA FreeInvNext ==
  ASSUME TypeOK, Listing, OneForm, FreeInv, [Next]_vars
  PROVE  FreeInv'
<1>a. TagOf \in [Versions -> Tags] /\ Semver \subseteq Versions
  BY OciAssumption
<1>b. ASSUME UNCHANGED <<tgt, floated>> PROVE \A v : TagFree(v)' <=> TagFree(v)
  BY <1>b DEF TagFree
<1> USE DEF FreeInv, registries, history, Goto
<1>1. ASSUME NEW t \in Tags, Move(t) PROVE FreeInv'
  BY <1>1, <1>b DEF Move
<1>2. CASE Connect \/ ListIndexed \/ ListTags \/ ListTagsFails \/ ListDone
  BY <1>2, <1>b DEF Connect, ListIndexed, ListTags, ListTagsFails, ListDone
<1>3. ASSUME NEW t \in Tags, LookAt(t) \/ LookFails(t) PROVE FreeInv'
  BY <1>3, <1>b DEF LookAt, LookFails, Look
<1>4. ASSUME NEW v \in Versions, DetailsFound(v) \/ DetailsFail(v) PROVE FreeInv'
  BY <1>4, <1>b DEF DetailsFound, DetailsFail, Details
<1>5. CASE CheckTarget \/ CheckTargetFails
  BY <1>5, <1>b DEF CheckTarget, CheckTargetFails, Has, TagFree
<1>6. CASE FetchCached \/ FetchOpens \/ FetchFails
  BY <1>6, <1>b DEF FetchCached, FetchOpens, FetchFails, Fetched
<1>7. CASE CopyDone \/ CopyFails \/ LayersFail
  BY <1>7, <1>b DEF CopyDone, CopyFails, LayersFail, Fetched
<1>8. ASSUME NEW v \in Versions, Wrap(v) \/ WrapFails(v) PROVE FreeInv'
  BY <1>8, <1>b DEF Wrap, WrapFails, Sync, TypeOK
<1>9. CASE Push \/ PushFails
  <2>1. /\ pc = "push" /\ pc' = "sync" /\ index' = index
        /\ tgt' = tgt \/ tgt' = [tgt EXCEPT ![TagOf[wrap]] = wrap]
        /\ floated' = IF TagOf[wrap] # TagOf[version] THEN floated \cup {TagOf[wrap]}
                      ELSE floated
    BY <1>9 DEF Push, PushFails, PushStep, Pushed
  <2>2. SUFFICES ASSUME NEW v \in index PROVE TagFree(v)'
    BY <2>1
  <2>3. TagFree(v) /\ TagOf[v] # TagOf[version] /\ v \in Versions /\ TagOf[v] \in Tags
    BY <2>1, <1>a DEF OneForm, TypeOK
  <2> QED
    BY <2>1, <2>3 DEF TagFree, TypeOK
<1>10. CASE LoadDone \/ Finish
  BY <1>10, <1>b DEF LoadDone, Finish
<1>11. CASE UNCHANGED vars
  BY <1>11, <1>b DEF vars
<1> QED
  BY <1>1, <1>2, <1>3, <1>4, <1>5, <1>6, <1>7, <1>8, <1>9, <1>10, <1>11 DEF Next

\* Across all runs and however listed, a chart is pushed only to a tag that was
\* empty when it was indexed and is still, unless the tag of another version is
\* what brought it there; provided no two chart versions are written alike.
THEOREM PushesToEmptyTagTheorem ==
  ASSUME DistinctTags
  PROVE  Spec => []PushesToEmptyTag
<1> DEFINE Inv == TypeOK /\ Listing /\ OneForm /\ FreeInv
<1>1. Init => Inv
  BY TypeInit DEF Init, OneForm, FreeInv
<1>2. Inv /\ [Next]_vars => Inv'
  BY TypeNext, OneFormNext, FreeInvNext
<1>3. Inv => PushesToEmptyTag
  BY DEF FreeInv, TagFree, PushesToEmptyTag
<1> QED
  BY <1>1, <1>2, <1>3, PTL DEF Spec
==============================================================================
