-------------------------- MODULE PackageCacheProofs -------------------------
(* Theorems about PackageCache, for any number of clients and chunks.        *)
EXTENDS PackageCache, TLAPS

\* A client that has something to write or to post knows what.
HasBody == \A p \in Clients : pc[p] \in {"writer", "create", "copy", "post"} => body[p] # None

LEMMA TypeInit == Init => TypeOK /\ HasBody
<1> SUFFICES ASSUME Init PROVE TypeOK /\ HasBody
  OBVIOUS
<1>1. Empty \in Contents /\ 1 \in 1..NChunks + 1 /\ faults \in 0..MaxFaults
      /\ crashes \in 0..MaxCrashes
  BY CacheAssumption DEF Init, Empty, Contents
<1> QED
  BY <1>1 DEF Init, TypeOK, HasBody

LEMMA TypeNext == TypeOK /\ HasBody /\ [Next]_vars => TypeOK' /\ HasBody'
<1> SUFFICES ASSUME TypeOK, HasBody, [Next]_vars PROVE TypeOK' /\ HasBody'
  OBVIOUS
<1>a. /\ NChunks \in Nat \ {0} /\ MaxFaults \in Nat /\ MaxCrashes \in Nat
      /\ None \notin Revisions /\ None \notin Inodes
  BY CacheAssumption
<1>b. Fault => faults' \in 0..MaxFaults
  BY <1>a DEF Fault, TypeOK
<1>c. Empty \in Contents
  BY DEF Empty, Contents
<1> USE DEF TypeOK, HasBody, Goto, At
<1>1. CASE Republish
  BY <1>1 DEF Republish
<1>2. ASSUME NEW p \in Clients, FetchHit(p) \/ FetchMiss(p) \/ Respond(p) \/ RequestFails(p)
      PROVE  TypeOK' /\ HasBody'
  BY <1>2, <1>a, <1>b DEF FetchHit, FetchMiss, Respond, RequestFails
<1>3. ASSUME NEW p \in Clients, WriterRefused(p) \/ WriterAllowed(p)
      PROVE  TypeOK' /\ HasBody'
  BY <1>3 DEF WriterRefused, WriterAllowed
<1>4. ASSUME NEW p \in Clients, OpenFile(p) PROVE TypeOK' /\ HasBody'
  BY <1>4, <1>a, <1>c DEF OpenFile, Create
<1>5. ASSUME NEW p \in Clients, LayersFail(p) \/ CopyDone(p) \/ CopyFails(p)
      PROVE  TypeOK' /\ HasBody'
  BY <1>5, <1>a, <1>b DEF LayersFail, CopyDone, CopyFails, Close
<1>6. ASSUME NEW p \in Clients, CopyChunk(p) PROVE TypeOK' /\ HasBody'
  <2>1. inode' \in [Inodes -> Contents]
    BY <1>6 DEF CopyChunk, Contents
  <2>2. chunk' \in [Clients -> 1..NChunks + 1]
    <3>1. chunk[p] + 1 \in 1..NChunks + 1
      BY <1>6, <1>a DEF CopyChunk, Chunks
    <3> QED
      BY <1>6, <3>1 DEF CopyChunk
  <2> QED
    BY <1>6, <2>1, <2>2 DEF CopyChunk
<1>7. ASSUME NEW p \in Clients, Invalidate(p) \/ Use(p) PROVE TypeOK' /\ HasBody'
  BY <1>7 DEF Invalidate, Invalidated, Use
<1>8. ASSUME NEW p \in Clients, NEW r \in Revisions, StartUpload(p, r)
      PROVE  TypeOK' /\ HasBody'
  BY <1>8, <1>a DEF StartUpload, Invalidated
<1>9. ASSUME NEW p \in Clients, Post(p) \/ PostFails(p) PROVE TypeOK' /\ HasBody'
  BY <1>9, <1>b DEF Post, PostFails
<1>10. ASSUME NEW p \in Clients, Again(p) PROVE TypeOK' /\ HasBody'
  BY <1>10, <1>c DEF Again
<1>11. ASSUME NEW p \in Clients, Crash(p) PROVE TypeOK' /\ HasBody'
  BY <1>11, <1>a DEF Crash, Close
<1>12. CASE UNCHANGED vars
  BY <1>12 DEF vars
<1> QED
  BY <1>1, <1>2, <1>3, <1>4, <1>5, <1>6, <1>7, <1>8, <1>9, <1>10, <1>11, <1>12
     DEF Next, FetchStep, UploadStep

\* The type invariant holds for any number of clients, chunks and revisions: a
\* client copies just as long as it holds an open file.
THEOREM TypeCorrect == Spec => []TypeOK
<1>1. TypeOK /\ HasBody /\ [Next]_vars => (TypeOK /\ HasBody)'
  BY TypeNext
<1> QED
  BY <1>1, TypeInit, PTL DEF Spec
-----------------------------------------------------------------------------
(* Any number of clients that fetch one package at a time. *)

\* Clients other than OCI ones, none of which uploads, replaces or is killed.
OnlyFetching == ~ Oci /\ ~ Uploads /\ ~ Republishing /\ MaxCrashes = 0

\* Whoever writes, writes what the repository serves.
OneBody ==
  /\ \A p \in Clients : job[p] = "fetch" /\ pc[p] # "post" /\ body[p] \in {None, repo}
  /\ \A i \in Inodes, k \in Chunks : inode[i][k] \in {None, repo}

Writes(p, k) == pc[p] = "copy" /\ handle[p] = dir /\ chunk[p] <= k

\* A chunk missing from the cached file is still to be written by a client that
\* has the file open, or else some client is about to remove the file.
Tended ==
  dir # None =>
    \/ \E p \in Clients : pc[p] = "invalidate"
    \/ \A k \in Chunks : inode[dir][k] = repo \/ \E p \in Clients : Writes(p, k)

LEMMA OneBodyNext ==
  ASSUME OnlyFetching, TypeOK, HasBody, OneBody, [Next]_vars
  PROVE  OneBody' /\ repo' = repo
<1>a. MaxFaults \in Nat
  BY CacheAssumption
<1> USE DEF OnlyFetching, TypeOK, OneBody, Goto, At
<1>1. CASE Republish
  BY <1>1 DEF Republish
<1>2. ASSUME NEW p \in Clients, FetchHit(p) \/ FetchMiss(p) \/ Respond(p) \/ RequestFails(p)
      PROVE  OneBody' /\ repo' = repo
  BY <1>2 DEF FetchHit, FetchMiss, Respond, RequestFails
<1>3. ASSUME NEW p \in Clients,
             \/ WriterRefused(p) \/ WriterAllowed(p) \/ LayersFail(p) \/ CopyDone(p)
             \/ CopyFails(p) \/ Invalidate(p) \/ Use(p)
      PROVE  OneBody' /\ repo' = repo
  BY <1>3 DEF WriterRefused, WriterAllowed, LayersFail, CopyDone, CopyFails, Invalidate, Use
<1>4. ASSUME NEW p \in Clients, OpenFile(p) PROVE OneBody' /\ repo' = repo
  BY <1>4 DEF OpenFile, Create, Empty
<1>5. ASSUME NEW p \in Clients, CopyChunk(p) PROVE OneBody' /\ repo' = repo
  <2>1. inode' = [inode EXCEPT ![handle[p]][chunk[p]] = body[p]]
    BY <1>5 DEF CopyChunk
  <2>2. \A i \in Inodes, k \in Chunks : inode'[i][k] \in {inode[i][k], body[p]}
    BY <2>1 DEF Contents
  <2> QED
    BY <1>5, <2>2 DEF CopyChunk
<1>6. ASSUME NEW p \in Clients, NEW r \in Revisions, StartUpload(p, r)
      PROVE  OneBody' /\ repo' = repo
  BY <1>6 DEF StartUpload
<1>7. ASSUME NEW p \in Clients, Post(p) \/ PostFails(p) \/ Again(p) \/ Crash(p)
      PROVE  OneBody' /\ repo' = repo
  BY <1>7 DEF Post, PostFails, Again, Crash
<1>8. CASE UNCHANGED vars
  BY <1>8 DEF vars
<1> QED
  BY <1>1, <1>2, <1>3, <1>4, <1>5, <1>6, <1>7, <1>8 DEF Next, FetchStep, UploadStep

LEMMA TendedNext ==
  ASSUME OnlyFetching, TypeOK, TypeOK', HasBody, OneBody, repo' = repo, Tended, [Next]_vars
  PROVE  Tended'
<1>a. /\ NChunks \in Nat \ {0} /\ None \notin Inodes
  BY CacheAssumption
<1> USE DEF OnlyFetching, Goto, At
<1>1. CASE Republish
  BY <1>1 DEF Republish
<1>2. ASSUME NEW p \in Clients,
             \/ FetchHit(p) \/ FetchMiss(p) \/ Respond(p) \/ RequestFails(p)
             \/ WriterRefused(p) \/ WriterAllowed(p) \/ Use(p) \/ Again(p)
      PROVE  Tended'
  <2>1. /\ UNCHANGED <<dir, inode, handle, chunk>>
        /\ pc[p] \notin {"copy", "invalidate"}
        /\ \A q \in Clients : q # p => pc'[q] = pc[q]
    BY <1>2 DEF FetchHit, FetchMiss, Respond, RequestFails, WriterRefused, WriterAllowed, Use,
       Again, TypeOK
  <2> QED
    BY <2>1 DEF Tended, Writes
<1>3. ASSUME NEW p \in Clients, OpenFile(p) PROVE Tended'
  <2>1. dir' \in Inodes /\ pc'[p] = "copy" /\ handle'[p] = dir' /\ chunk'[p] = 1
    BY <1>3 DEF OpenFile, Create, TypeOK
  <2>2. \A k \in Chunks : Writes(p, k)'
    BY <2>1 DEF Writes, Chunks
  <2> QED
    BY <2>2 DEF Tended
<1>4. ASSUME NEW p \in Clients, CopyChunk(p) PROVE Tended'
  <2>1. /\ UNCHANGED <<dir, pc, handle>> /\ chunk' = [chunk EXCEPT ![p] = @ + 1]
        /\ inode' = [inode EXCEPT ![handle[p]][chunk[p]] = body[p]]
        /\ pc[p] = "copy" /\ handle[p] \in Inodes /\ chunk[p] \in Chunks /\ body[p] = repo
    BY <1>4, <1>a DEF CopyChunk, TypeOK, HasBody, OneBody
  <2>2. SUFFICES ASSUME dir \in Inodes, NEW k \in Chunks,
                        ~ \E q \in Clients : pc[q] = "invalidate"
                 PROVE  inode'[dir][k] = repo \/ \E q \in Clients : Writes(q, k)'
    BY <2>1 DEF Tended, TypeOK
  <2>3. inode'[dir][k] \in {inode[dir][k], repo}
    BY <2>1, <2>2 DEF TypeOK, Contents
  <2>4. inode[dir][k] = repo \/ \E q \in Clients : Writes(q, k)
    BY <2>2, <1>a DEF Tended
  <2>5. ASSUME NEW q \in Clients, Writes(q, k), q # p PROVE Writes(q, k)'
    BY <2>1, <2>5 DEF Writes, TypeOK
  <2>6. ASSUME Writes(p, k) PROVE inode'[dir][k] = repo \/ Writes(p, k)'
    <3>1. chunk[p] \in Nat /\ k \in Nat /\ chunk[p] <= k /\ handle[p] = dir
      BY <2>1, <2>6, <1>a DEF Writes, Chunks
    <3>2. CASE chunk[p] = k
      BY <2>1, <2>2, <3>1, <3>2 DEF TypeOK, Contents
    <3>3. CASE chunk[p] # k
      BY <2>1, <3>1, <3>3 DEF Writes, TypeOK
    <3> QED
      BY <3>2, <3>3
  <2> QED
    BY <2>3, <2>4, <2>5, <2>6
<1>5. ASSUME NEW p \in Clients, CopyDone(p) PROVE Tended'
  <2>1. /\ UNCHANGED <<dir, inode, chunk>>
        /\ pc[p] = "copy" /\ chunk[p] \notin Chunks /\ chunk[p] \in 1..NChunks + 1
        /\ \A q \in Clients : q # p => pc'[q] = pc[q] /\ handle'[q] = handle[q]
    BY <1>5 DEF CopyDone, Close, TypeOK
  <2>2. \A k \in Chunks : ~ Writes(p, k)
    BY <2>1, <1>a DEF Writes, Chunks
  <2> QED
    BY <2>1, <2>2 DEF Tended, Writes
<1>6. ASSUME NEW p \in Clients, CopyFails(p) PROVE Tended'
  <2>1. pc'[p] = "invalidate"
    BY <1>6 DEF CopyFails, OneBody, TypeOK
  <2> QED
    BY <2>1 DEF Tended
<1>7. ASSUME NEW p \in Clients, Invalidate(p) PROVE Tended'
  BY <1>7 DEF Invalidate, Invalidated, Tended
<1>8. ASSUME NEW p \in Clients, LayersFail(p) \/ Post(p) \/ PostFails(p) PROVE Tended'
  BY <1>8 DEF LayersFail, Post, PostFails, OneBody
<1>9. ASSUME NEW p \in Clients, NEW r \in Revisions, StartUpload(p, r) PROVE Tended'
  BY <1>9 DEF StartUpload
<1>10. ASSUME NEW p \in Clients, Crash(p) PROVE Tended'
  BY <1>10 DEF Crash, TypeOK
<1>11. CASE UNCHANGED vars
  BY <1>11 DEF vars, Tended, Writes
<1> QED
  BY <1>1, <1>2, <1>3, <1>4, <1>5, <1>6, <1>7, <1>8, <1>9, <1>10, <1>11
     DEF Next, FetchStep, UploadStep

\* However many processes share a working directory and truncate or remove one
\* another's downloads: when none is at work the file is whole, or is not there.
THEOREM RestsWholeTheorem ==
  ASSUME OnlyFetching
  PROVE  Spec => []RestsWhole
<1> DEFINE Inv == TypeOK /\ HasBody /\ OneBody /\ Tended
<1>1. Init => Inv
  <2>1. Init => OneBody /\ Tended
    BY DEF Init, OneBody, Tended, Empty
  <2> QED
    BY <2>1, TypeInit
<1>2. Inv /\ [Next]_vars => Inv'
  BY TypeNext, OneBodyNext, TendedNext
<1>3. Inv => RestsWhole
  <2> SUFFICES ASSUME Inv, AtRest, dir # None PROVE Whole(inode[dir])
    BY DEF RestsWhole, Has
  <2>1. inode[dir] \in Contents /\ repo \in Revisions
    BY DEF TypeOK
  <2>2. \A k \in Chunks : inode[dir][k] = repo
    BY DEF AtRest, Tended, Writes
  <2> QED
    BY <2>1, <2>2 DEF Whole, Contents
<1> QED
  BY <1>1, <1>2, <1>3, PTL DEF Spec
-----------------------------------------------------------------------------
(* One client with a working directory of its own, that fetches and uploads, *)
(* fails and is killed, while others replace the package.                    *)

Alone == \A p, q \in Clients : p = q

\* The first n chunks of revision r.
Prefix(r, n) == [k \in Chunks |-> IF k <= n THEN r ELSE None]
CutShort(content) == \E r \in Revisions, n \in 0..NChunks : content = Prefix(r, n)

AloneInv ==
  /\ \A i \in Inodes : CutShort(inode[i])
  /\ \A p \in Clients :
       /\ CutShort(got[p])
       /\ pc[p] = "use" => job[p] = "fetch"
       /\ pc[p] = "copy" => handle[p] = dir /\ inode[dir] = Prefix(body[p], chunk[p] - 1)
       /\ pc[p] = "post" \/ (pc[p] = "done" /\ job[p] = "upload") =>
            dir # None /\ inode[dir] = Prefix(body[p], NChunks)

LEMMA CutShortFacts ==
  ASSUME TypeOK
  PROVE  /\ CutShort(Empty)
         /\ \A r : Empty = Prefix(r, 0)
         /\ \A r \in Revisions, n \in 0..NChunks : CutShort(Prefix(r, n))
<1>1. \A r : Empty = Prefix(r, 0)
  BY CacheAssumption DEF Empty, Prefix, Chunks
<1>2. repo \in Revisions /\ 0 \in 0..NChunks
  BY CacheAssumption DEF TypeOK
<1> QED
  BY <1>1, <1>2 DEF CutShort

LEMMA AloneNext ==
  ASSUME Alone, TypeOK, TypeOK', HasBody, AloneInv, [Next]_vars
  PROVE  AloneInv'
<1>a. NChunks \in Nat \ {0} /\ None \notin Inodes
  BY CacheAssumption
<1>b. CutShort(Empty) /\ \A r : Empty = Prefix(r, 0)
  BY CutShortFacts
<1>c. \A content : CutShort(content)' <=> CutShort(content)
  BY DEF CutShort, Prefix
<1> USE DEF Alone, AloneInv, Goto, At, TypeOK
<1>1. CASE Republish
  BY <1>1 DEF Republish
<1>2. ASSUME NEW p \in Clients, FetchHit(p) \/ FetchMiss(p) \/ Respond(p) \/ RequestFails(p)
      PROVE  AloneInv'
  BY <1>2 DEF FetchHit, FetchMiss, Respond, RequestFails
<1>3. ASSUME NEW p \in Clients, WriterRefused(p) \/ WriterAllowed(p) PROVE AloneInv'
  BY <1>3 DEF WriterRefused, WriterAllowed
<1>4. ASSUME NEW p \in Clients, OpenFile(p) PROVE AloneInv'
  <2>1. PICK i \in Inodes : /\ dir' = i /\ inode' = [inode EXCEPT ![i] = Empty]
                            /\ handle' = [handle EXCEPT ![p] = i]
    BY <1>4 DEF OpenFile, Create
  <2>2. /\ pc' = [pc EXCEPT ![p] = "copy"] /\ chunk'[p] = 1 /\ UNCHANGED <<job, body, got>>
    BY <1>4 DEF OpenFile
  <2>3. inode'[i] = Prefix(body[p], 0) /\ \A j \in Inodes : CutShort(inode'[j])
    BY <2>1, <1>b
  <2> QED
    BY <2>1, <2>2, <2>3
<1>5. ASSUME NEW p \in Clients, CopyChunk(p) PROVE AloneInv'
  <2>0. pc[p] = "copy" /\ handle[p] = dir /\ dir \in Inodes /\ body[p] \in Revisions
    BY <1>5, <1>a DEF CopyChunk, HasBody
  <2>1. /\ UNCHANGED <<dir, pc, handle, job, body, got>> /\ chunk' = [chunk EXCEPT ![p] = @ + 1]
        /\ inode' = [inode EXCEPT ![dir][chunk[p]] = body[p]]
        /\ pc[p] = "copy" /\ dir \in Inodes /\ chunk[p] \in Chunks /\ body[p] \in Revisions
        /\ inode[dir] = Prefix(body[p], chunk[p] - 1)
    BY <1>5, <2>0 DEF CopyChunk
  <2>2. inode'[dir] = Prefix(body[p], chunk[p])
    <3>1. inode'[dir] = [Prefix(body[p], chunk[p] - 1) EXCEPT ![chunk[p]] = body[p]]
      BY <2>1
    <3>2. \A k \in Chunks : k <= chunk[p] <=> k <= chunk[p] - 1 \/ k = chunk[p]
      BY <2>1, <1>a DEF Chunks
    <3> QED
      BY <3>1, <3>2 DEF Prefix
  <2>3. CutShort(Prefix(body[p], chunk[p]))
    BY <2>1, <1>a, CutShortFacts DEF Chunks
  <2>4. \A j \in Inodes : CutShort(inode'[j])
    BY <2>1, <2>2, <2>3
  <2>5. chunk'[p] - 1 = chunk[p]
    BY <2>1, <1>a DEF Chunks
  <2> QED
    BY <2>1, <2>2, <2>4, <2>5
<1>6. ASSUME NEW p \in Clients, CopyDone(p) PROVE AloneInv'
  <2>1. /\ pc[p] = "copy" /\ chunk[p] - 1 = NChunks
        /\ UNCHANGED <<dir, inode, job, body, got>>
        /\ pc' = [pc EXCEPT ![p] = IF job[p] = "fetch" THEN "use" ELSE "post"]
    BY <1>6, <1>a DEF CopyDone, Chunks
  <2>2. handle[p] = dir /\ dir # None
    BY <2>1, <1>a
  <2> QED
    BY <2>1, <2>2
<1>7. ASSUME NEW p \in Clients, LayersFail(p) \/ CopyFails(p) PROVE AloneInv'
  BY <1>7 DEF LayersFail, CopyFails
<1>8. ASSUME NEW p \in Clients, Invalidate(p) PROVE AloneInv'
  BY <1>8 DEF Invalidate
<1>9. ASSUME NEW p \in Clients, Use(p) PROVE AloneInv'
  BY <1>9 DEF Use
<1>10. ASSUME NEW p \in Clients, NEW r \in Revisions, StartUpload(p, r) PROVE AloneInv'
  BY <1>10 DEF StartUpload
<1>11. ASSUME NEW p \in Clients, Post(p) \/ PostFails(p) PROVE AloneInv'
  BY <1>11 DEF Post, PostFails
<1>12. ASSUME NEW p \in Clients, Again(p) \/ Crash(p) PROVE AloneInv'
  BY <1>12, <1>b DEF Again, Crash
<1>13. CASE UNCHANGED vars
  BY <1>13 DEF vars
<1> QED
  BY <1>1, <1>2, <1>3, <1>4, <1>5, <1>6, <1>7, <1>8, <1>9, <1>10, <1>11, <1>12, <1>13
     DEF Next, FetchStep, UploadStep

LEMMA AloneInit == Init => AloneInv
  BY TypeInit, CutShortFacts DEF Init, AloneInv

\* Of whatever size the package: a client with a directory of its own never
\* reads a mixture of revisions, through failures, kills and republications.
THEOREM ReadsOneRevisionTheorem ==
  ASSUME Alone
  PROVE  Spec => []ReadsOneRevision
<1> DEFINE Inv == TypeOK /\ HasBody /\ AloneInv
<1>1. Init => Inv
  BY TypeInit, AloneInit
<1>2. Inv /\ [Next]_vars => Inv'
  BY TypeNext, AloneNext
<1>3. Inv => ReadsOneRevision
  BY DEF AloneInv, CutShort, Prefix, ReadsOneRevision
<1> QED
  BY <1>1, <1>2, <1>3, PTL DEF Spec

\* And after a successful upload the cache holds just what was uploaded.
THEOREM UploadedIsCachedTheorem ==
  ASSUME Alone
  PROVE  Spec => []UploadedIsCached
<1> DEFINE Inv == TypeOK /\ HasBody /\ AloneInv
<1>1. Init => Inv
  BY TypeInit, AloneInit
<1>2. Inv /\ [Next]_vars => Inv'
  BY TypeNext, AloneNext
<1>3. Inv => UploadedIsCached
  <2>1. \A r : Prefix(r, NChunks) = [k \in Chunks |-> r]
    BY CacheAssumption DEF Prefix, Chunks
  <2> QED
    BY <2>1 DEF AloneInv, UploadedIsCached, Has
<1> QED
  BY <1>1, <1>2, <1>3, PTL DEF Spec
-----------------------------------------------------------------------------
(* The refinement of CacheFile.                                              *)

\* Between looking for the file and creating it, nobody else creates it.
CreatesNew == \A p \in Clients : pc[p] = "create" => dir = None

LEMMA CreatesNewNext ==
  ASSUME Alone, TypeOK, CreatesNew, [Next]_vars
  PROVE  CreatesNew'
<1> USE DEF Alone, CreatesNew, Goto, At, TypeOK
<1>1. CASE Republish
  BY <1>1 DEF Republish
<1>2. ASSUME NEW p \in Clients, FetchStep(p)
      PROVE  CreatesNew'
  BY <1>2 DEF FetchStep, FetchHit, FetchMiss, Respond, RequestFails, WriterRefused,
     WriterAllowed, OpenFile, LayersFail, CopyChunk, CopyDone, CopyFails, Invalidate, Use, Has
<1>3. ASSUME NEW p \in Clients, UploadStep(p) \/ Again(p) \/ Crash(p)
      PROVE  CreatesNew'
  BY <1>3 DEF UploadStep, StartUpload, Post, PostFails, Again, Crash
<1>4. CASE UNCHANGED vars
  BY <1>4 DEF vars
<1> QED
  BY <1>1, <1>2, <1>3, <1>4 DEF Next

\* What is found under the name is nothing, a torn file or a package.
LEMMA FoundFacts ==
  /\ dir = None => Found = {}
  /\ dir # None /\ Copying => Found = {None}
  /\ dir # None => Found = {None} \/ \E r \in Revisions : Found = {r}
<1>1. ASSUME NEW r, NEW content, content = [k \in Chunks |-> r]
      PROVE  {content[k] : k \in Chunks} = {r}
  <2>1. 1 \in Chunks
    BY CacheAssumption DEF Chunks
  <2> QED
    BY <1>1, <2>1
<1>2. dir = None => Found = {}
  BY DEF Found
<1>3. dir # None /\ Copying => Found = {None}
  BY DEF Found
<1>4. ASSUME dir # None PROVE Found = {None} \/ \E r \in Revisions : Found = {r}
  <2>1. CASE Copying \/ ~ Whole(inode[dir])
    BY <1>4, <2>1 DEF Found
  <2>2. CASE ~ Copying /\ Whole(inode[dir])
    <3>1. PICK r \in Revisions : inode[dir] = [k \in Chunks |-> r]
      BY <2>2 DEF Whole
    <3>2. Found = {inode[dir][k] : k \in Chunks}
      BY <1>4, <2>2 DEF Found
    <3> QED
      BY <1>1, <3>1, <3>2
  <2> QED
    BY <2>1, <2>2
<1> QED
  BY <1>2, <1>3, <1>4

\* Each step of a lone client creates the file, completes, abandons or removes
\* it, or leaves it as it is.
LEMMA CacheFileNext ==
  ASSUME Alone, TypeOK, AloneInv, CreatesNew, [Next]_vars
  PROVE  [File!Next]_(File!fileVars)
<1> DEFINE Mapped == File!Next \/ UNCHANGED File!fileVars
<1> SUFFICES Mapped
  OBVIOUS
<1>a. /\ None \notin Inodes
      /\ \A p \in Clients : Copying <=> pc[p] = "copy"
      /\ \A p \in Clients : Copying' <=> pc'[p] = "copy"
  BY CacheAssumption DEF Alone, Copying, At
<1>b. (/\ dir = None => Found = {}
       /\ dir # None /\ Copying => Found = {None}
       /\ dir # None => Found = {None} \/ \E r \in Revisions : Found = {r})'
  BY FoundFacts, PTL
<1>c. ASSUME UNCHANGED <<dir, inode>>, NEW p \in Clients, pc[p] # "copy", pc'[p] # "copy"
      PROVE  Mapped
  <2>1. ~ Copying /\ ~ Copying' /\ Copying' = Copying
    BY <1>a, <1>c DEF Copying
  <2>2. Found' = Found
    BY <2>1, <1>c DEF Found, Whole
  <2> QED
    BY <2>1, <2>2 DEF File!fileVars
<1>d. ASSUME UNCHANGED <<dir, inode>>, NEW p \in Clients, pc[p] = "copy", pc'[p] # "copy",
             dir # None
      PROVE  Mapped
  <2>1. Copying /\ Copying' = FALSE /\ Found = {None}
    BY <1>a, <1>d, FoundFacts DEF Copying
  <2>2. Found' = {None} \/ \E r \in Revisions : Found' = {r}
    BY <1>b, <1>d
  <2> QED
    BY <2>1, <2>2 DEF File!Next, File!Complete, File!Abandon
<1>e. ASSUME dir' = None, NEW p \in Clients, pc'[p] # "copy"
      PROVE  Mapped
  <2>1. Copying' = FALSE /\ Found' = {}
    BY <1>a, <1>b, <1>e DEF Copying
  <2> QED
    BY <2>1 DEF File!Next, File!Remove
<1> HIDE DEF Mapped
<1> USE DEF TypeOK, Goto, At
<1>1. CASE Republish
  <2>1. UNCHANGED <<dir, inode, pc>>
    BY <1>1 DEF Republish
  <2>2. Found' = Found /\ Copying' = Copying
    BY <2>1 DEF Found, Copying, Whole
  <2> QED
    BY <2>2 DEF Mapped, File!fileVars
<1>2. ASSUME NEW p \in Clients,
             \/ FetchHit(p) \/ FetchMiss(p) \/ Respond(p) \/ RequestFails(p)
             \/ WriterRefused(p) \/ WriterAllowed(p) \/ Use(p)
      PROVE  Mapped
  BY <1>2, <1>c DEF FetchHit, FetchMiss, Respond, RequestFails, WriterRefused, WriterAllowed, Use
<1>3. ASSUME NEW p \in Clients, OpenFile(p) PROVE Mapped
  <2>1. dir = None /\ dir' # None /\ pc'[p] = "copy"
    BY <1>3, <1>a DEF OpenFile, Create, CreatesNew
  <2>2. Found = {} /\ Found' = {None} /\ Copying' = TRUE
    BY <2>1, <1>a, <1>b, FoundFacts DEF Copying
  <2> QED
    BY <2>2 DEF Mapped, File!Next, File!Create
<1>4. ASSUME NEW p \in Clients, CopyChunk(p) PROVE Mapped
  <2>1. UNCHANGED <<dir, pc>> /\ Copying /\ Copying' = Copying
    BY <1>4, <1>a DEF CopyChunk, Copying
  <2>2. Found' = Found
    BY <2>1, <1>b, FoundFacts
  <2> QED
    BY <2>1, <2>2 DEF Mapped, File!fileVars
<1>5. ASSUME NEW p \in Clients, LayersFail(p) \/ CopyDone(p) \/ CopyFails(p) PROVE Mapped
  <2>1. UNCHANGED <<dir, inode>> /\ pc[p] = "copy" /\ pc'[p] # "copy" /\ dir # None
    BY <1>5, <1>a DEF LayersFail, CopyDone, CopyFails, AloneInv
  <2> QED
    BY <2>1, <1>d
<1>6. ASSUME NEW p \in Clients, Invalidate(p) \/ \E r \in Revisions : StartUpload(p, r)
      PROVE  Mapped
  BY <1>6, <1>e DEF Invalidate, StartUpload, Invalidated
<1>7. ASSUME NEW p \in Clients, Post(p) \/ PostFails(p) \/ Again(p) PROVE Mapped
  BY <1>7, <1>c DEF Post, PostFails, Again
<1>8. ASSUME NEW p \in Clients, Crash(p) PROVE Mapped
  <2>1. UNCHANGED <<dir, inode>> /\ pc'[p] # "copy" /\ (pc[p] = "copy" => dir # None)
    BY <1>8, <1>a DEF Crash, AloneInv
  <2> QED
    BY <2>1, <1>c, <1>d
<1>9. CASE UNCHANGED vars
  <2>1. Found' = Found /\ Copying' = Copying
    BY <1>9 DEF vars, Found, Copying, Whole
  <2> QED
    BY <2>1 DEF Mapped, File!fileVars
<1> QED
  BY <1>1, <1>2, <1>3, <1>4, <1>5, <1>6, <1>7, <1>8, <1>9 DEF Next, FetchStep, UploadStep

\* Of whatever size the package, and however its client fails or is killed: a
\* file of the cache is created where there is none, is complete or torn when its
\* writer is done with it, and is not written over after that.
THEOREM ImplementsCacheFileTheorem ==
  ASSUME Alone
  PROVE  Spec => ImplementsCacheFile
<1> DEFINE Inv == TypeOK /\ HasBody /\ AloneInv /\ CreatesNew
<1>1. Init => Inv /\ File!Init
  <2>1. Init => CreatesNew /\ File!Init
    BY DEF Init, CreatesNew, File!Init, Found, Copying, At
  <2> QED
    BY <2>1, TypeInit, AloneInit
<1>2. Inv /\ [Next]_vars => Inv'
  BY TypeNext, AloneNext, CreatesNewNext
<1>3. Inv /\ [Next]_vars => [File!Next]_(File!fileVars)
  BY CacheFileNext
<1> QED
  BY <1>1, <1>2, <1>3, PTL DEF Spec, ImplementsCacheFile, File!Spec
==============================================================================
