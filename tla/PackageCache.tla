----------------------------- MODULE PackageCache ----------------------------
(***************************************************************************)
(* One package in the on-disk cache (internal/cache/cachedisk) of the      *)
(* clients that share a working directory, with the file system seen as    *)
(* it is: a name bound to an inode, inodes that stay alive while open,     *)
(* creation that truncates, and content written chunk by chunk.            *)
(*                                                                         *)
(* A client is a repository client of one process: it fetches the package  *)
(* through the cache (utils.FetchAndCache, or Fetch of the OCI client), or *)
(* uploads one (Upload of the ChartMuseum and Harbor clients), which       *)
(* writes the cache before it calls the repository.                        *)
(***************************************************************************)
EXTENDS Integers, FiniteSets

CONSTANTS
  Clients,
  Revisions,     \* contents the package may have
  Inodes,        \* enough for every client and the name
  NChunks,       \* the writes it takes to store the package
  Oci,           \* whether the clients are OCI clients
  Uploads,       \* whether clients upload, too
  Republishing,  \* whether others replace the package in the repository
  MaxFaults, MaxCrashes,
  None

ASSUME CacheAssumption ==
  /\ Cardinality(Inodes) > Cardinality(Clients)
  /\ NChunks \in Nat \ {0}
  /\ Oci \in BOOLEAN /\ Uploads \in BOOLEAN /\ Republishing \in BOOLEAN
  /\ MaxFaults \in Nat /\ MaxCrashes \in Nat
  /\ None \notin Revisions /\ None \notin Inodes

VARIABLES
  repo,     \* the revision the repository serves, or None
  dir,      \* the inode the cache file's name is bound to, or None
  inode,    \* the revision of each chunk of each inode, None where nothing was written
  pc,       \* where each client is
  job,      \* "fetch" or "upload"
  body,     \* the revision each client is copying
  handle,   \* the inode each client writes to
  chunk,    \* the next chunk it writes
  got,      \* what the caller of a successful Fetch read at the returned path
  faults, crashes

vars == <<repo, dir, inode, pc, job, body, handle, chunk, got, faults, crashes>>

Chunks == 1..NChunks
Contents == [Chunks -> Revisions \cup {None}]
Empty == [k \in Chunks |-> None]
Whole(content) == \E r \in Revisions : content = [k \in Chunks |-> r]

AtRest == \A p \in Clients : pc[p] \in {"idle", "done", "failed"}

-----------------------------------------------------------------------------
(* internal/cache/cachedisk *)

Has == dir # None

\* os.Create: the file bound to the name is truncated, or a new one is bound.
Create(p) ==
  \E i \in Inodes :
    /\ IF dir # None THEN i = dir ELSE \A q \in Clients : handle[q] # i
    /\ dir' = i
    /\ inode' = [inode EXCEPT ![i] = Empty]
    /\ handle' = [handle EXCEPT ![p] = i]

\* os.Remove unbinds the name; open inodes stay alive.
Invalidated_Not == dir
Invalidated == None

Goto(p, l) == pc' = [pc EXCEPT ![p] = l]
At(p, l) == pc[p] = l
Fault == faults < MaxFaults /\ faults' = faults + 1

\* Closing, or never writing again: the error paths leak the open file.
Close_Not(p) == UNCHANGED handle
Close(p) == handle' = [handle EXCEPT ![p] = None]

-----------------------------------------------------------------------------
Init ==
  /\ repo \in Revisions
  /\ dir = None
  /\ inode = [i \in Inodes |-> Empty]
  /\ pc = [p \in Clients |-> "idle"]
  /\ job = [p \in Clients |-> "fetch"]
  /\ body = [p \in Clients |-> None]
  /\ handle = [p \in Clients |-> None]
  /\ chunk = [p \in Clients |-> 1]
  /\ got = [p \in Clients |-> Empty]
  /\ faults = 0 /\ crashes = 0

Republish ==
  /\ Republishing
  /\ repo' \in Revisions \ {repo}
  /\ UNCHANGED <<dir, inode, pc, job, body, handle, chunk, got, faults, crashes>>

FetchHit(p) ==
  /\ At(p, "idle") /\ Has
  /\ Goto(p, "use")
  /\ job' = [job EXCEPT ![p] = "fetch"]
  /\ UNCHANGED <<repo, dir, inode, body, handle, chunk, got, faults, crashes>>

FetchMiss(p) ==
  /\ At(p, "idle") /\ ~ Has
  /\ Goto(p, "request")
  /\ job' = [job EXCEPT ![p] = "fetch"]
  /\ UNCHANGED <<repo, dir, inode, body, handle, chunk, got, faults, crashes>>

Respond(p) ==
  /\ At(p, "request")
  /\ body' = [body EXCEPT ![p] = repo]
  /\ Goto(p, "writer")
  /\ UNCHANGED <<repo, dir, inode, job, handle, chunk, got, faults, crashes>>

RequestFails(p) ==
  /\ At(p, "request")
  /\ Fault
  /\ Goto(p, "failed")
  /\ UNCHANGED <<repo, dir, inode, job, body, handle, chunk, got, crashes>>

\* Uploading a new revision begins by dropping the cached one.
StartUpload_KeepsCache(p, r) ==
  /\ At(p, "idle") /\ Uploads
  /\ job' = [job EXCEPT ![p] = "upload"]
  /\ body' = [body EXCEPT ![p] = r]
  /\ Goto(p, "post")
  /\ UNCHANGED <<repo, dir, inode, handle, chunk, got, faults, crashes>>

StartUpload_Overwrites(p, r) ==
  /\ At(p, "idle") /\ Uploads
  /\ job' = [job EXCEPT ![p] = "upload"]
  /\ body' = [body EXCEPT ![p] = r]
  /\ Goto(p, "create")
  /\ UNCHANGED <<repo, dir, inode, handle, chunk, got, faults, crashes>>

StartUpload(p, r) ==
  /\ At(p, "idle") /\ Uploads
  /\ job' = [job EXCEPT ![p] = "upload"]
  /\ body' = [body EXCEPT ![p] = r]
  /\ dir' = Invalidated
  /\ Goto(p, "writer")
  /\ UNCHANGED <<repo, inode, handle, chunk, got, faults, crashes>>

\* Writer and Store look for the file first, and only then create it.
WriterRefused(p) ==
  /\ At(p, "writer") /\ Has
  /\ Goto(p, "failed")
  /\ UNCHANGED <<repo, dir, inode, job, body, handle, chunk, got, faults, crashes>>

WriterAllowed(p) ==
  /\ At(p, "writer") /\ ~ Has
  /\ Goto(p, "create")
  /\ UNCHANGED <<repo, dir, inode, job, body, handle, chunk, got, faults, crashes>>

OpenFile(p) ==
  /\ At(p, "create")
  /\ Create(p)
  /\ chunk' = [chunk EXCEPT ![p] = 1]
  /\ Goto(p, "copy")
  /\ UNCHANGED <<repo, job, body, got, faults, crashes>>

\* The OCI client asks for the layers after it created the file, and does not
\* invalidate it when that fails.
LayersFail(p) ==
  /\ Oci
  /\ At(p, "copy") /\ chunk[p] = 1 /\ job[p] = "fetch"
  /\ Fault
  /\ Close(p)
  /\ Goto(p, "failed")
  /\ UNCHANGED <<repo, dir, inode, job, body, chunk, got, crashes>>

CopyChunk_Resumes(p) ==
  /\ At(p, "copy") /\ chunk[p] \in Chunks
  /\ inode' = [inode EXCEPT ![handle[p]][chunk[p]] = repo]
  /\ chunk' = [chunk EXCEPT ![p] = @ + 1]
  /\ UNCHANGED <<repo, dir, pc, job, body, handle, got, faults, crashes>>

CopyChunk(p) ==
  /\ At(p, "copy") /\ chunk[p] \in Chunks
  /\ inode' = [inode EXCEPT ![handle[p]][chunk[p]] = body[p]]
  /\ chunk' = [chunk EXCEPT ![p] = @ + 1]
  /\ UNCHANGED <<repo, dir, pc, job, body, handle, got, faults, crashes>>

CopyDone(p) ==
  /\ At(p, "copy") /\ chunk[p] \notin Chunks
  /\ Close(p)
  /\ Goto(p, IF job[p] = "fetch" THEN "use" ELSE "post")
  /\ UNCHANGED <<repo, dir, inode, job, body, chunk, got, faults, crashes>>

CopyFails_Keeps(p) ==
  /\ At(p, "copy")
  /\ Fault
  /\ Close(p)
  /\ Goto(p, "failed")
  /\ UNCHANGED <<repo, dir, inode, job, body, chunk, got, crashes>>

\* A failed download is invalidated; a failed upload leaves its file.
CopyFails(p) ==
  /\ At(p, "copy")
  /\ Fault
  /\ Close(p)
  /\ Goto(p, IF job[p] = "fetch" THEN "invalidate" ELSE "failed")
  /\ UNCHANGED <<repo, dir, inode, job, body, chunk, got, crashes>>

Invalidate(p) ==
  /\ At(p, "invalidate")
  /\ dir' = Invalidated
  /\ Goto(p, "failed")
  /\ UNCHANGED <<repo, inode, job, body, handle, chunk, got, faults, crashes>>

\* The caller opens the path Fetch returned.
Use(p) ==
  /\ At(p, "use")
  /\ IF dir = None
       THEN Goto(p, "failed") /\ UNCHANGED got
       ELSE Goto(p, "done") /\ got' = [got EXCEPT ![p] = inode[dir]]
  /\ UNCHANGED <<repo, dir, inode, job, body, handle, chunk, faults, crashes>>

Post(p) ==
  /\ At(p, "post")
  /\ repo' = body[p]
  /\ Goto(p, "done")
  /\ UNCHANGED <<dir, inode, job, body, handle, chunk, got, faults, crashes>>

PostFails(p) ==
  /\ At(p, "post")
  /\ Fault
  /\ Goto(p, "failed")
  /\ UNCHANGED <<repo, dir, inode, job, body, handle, chunk, got, crashes>>

\* The next run: a client whose last call is over.
Again(p) ==
  /\ pc[p] \in {"done", "failed"}
  /\ Goto(p, "idle")
  /\ got' = [got EXCEPT ![p] = Empty]
  /\ body' = [body EXCEPT ![p] = None]
  /\ UNCHANGED <<repo, dir, inode, job, handle, chunk, faults, crashes>>

Crash(p) ==
  /\ pc[p] \notin {"idle", "done", "failed"}
  /\ crashes < MaxCrashes /\ crashes' = crashes + 1
  /\ Close(p)
  /\ Goto(p, "failed")
  /\ UNCHANGED <<repo, dir, inode, job, body, chunk, got, faults>>

FetchStep(p) ==
  \/ FetchHit(p) \/ FetchMiss(p) \/ Respond(p) \/ RequestFails(p)
  \/ WriterRefused(p) \/ WriterAllowed(p) \/ OpenFile(p) \/ LayersFail(p)
  \/ CopyChunk(p) \/ CopyDone(p) \/ CopyFails(p) \/ Invalidate(p) \/ Use(p)

UploadStep(p) ==
  \/ \E r \in Revisions : StartUpload(p, r)
  \/ Post(p) \/ PostFails(p)

Next ==
  \/ Republish
  \/ \E p \in Clients : FetchStep(p) \/ UploadStep(p) \/ Again(p) \/ Crash(p)

Spec == Init /\ [][Next]_vars

\* Processes keep running, and every client's next run comes.
FairSpec == Spec /\ \A p \in Clients : WF_vars(FetchStep(p) \/ Again(p))

-----------------------------------------------------------------------------
(* Properties. *)

\* Every variable stays in its type, and a client that copies holds an open file.
TypeOK ==
  /\ repo \in Revisions
  /\ dir \in Inodes \cup {None}
  /\ inode \in [Inodes -> Contents]
  /\ pc \in [Clients -> {"idle", "request", "writer", "create", "copy", "invalidate", "use",
                         "post", "done", "failed"}]
  /\ job \in [Clients -> {"fetch", "upload"}]
  /\ chunk \in [Clients -> 1..NChunks + 1]
  /\ body \in [Clients -> Revisions \cup {None}]
  /\ handle \in [Clients -> Inodes \cup {None}]
  /\ got \in [Clients -> Contents]
  /\ \A p \in Clients : pc[p] = "copy" <=> handle[p] # None
  /\ faults \in 0..MaxFaults /\ crashes \in 0..MaxCrashes

\* What a single client reads is never a mixture: even after crashes, failed
\* uploads and republications it is a package, or a package cut short, of one revision.
ReadsOneRevision ==
  \A p \in Clients : pc[p] = "done" /\ job[p] = "fetch" =>
    \E r \in Revisions, n \in 0..NChunks :
      got[p] = [k \in Chunks |-> IF k <= n THEN r ELSE None]

\* When nobody is at work the cache holds a whole package or none, although
\* clients truncate, overwrite and remove one another's files while they work.
RestsWhole == AtRest /\ Has => Whole(inode[dir])

\* A client may take a download in progress for the package, have its own removed
\* or truncated by another, or be refused the file; none of it is for good:
\* every client keeps coming to a run in which it reads the whole package.
KeepsReadingWhole ==
  \A p \in Clients : []<>(pc[p] = "done" /\ Whole(got[p]))

\* What a successful upload leaves in the cache is what it uploaded, not what
\* an earlier fetch, or an upload that failed half-way, had left there.
UploadedIsCached ==
  \A p \in Clients : pc[p] = "done" /\ job[p] = "upload" =>
    Has /\ inode[dir] = [k \in Chunks |-> body[p]]

\* The implementation of CacheFile by a client that has the directory to itself:
\* its file is never written over, and what it completed stays until removed.
Copying == \E p \in Clients : At(p, "copy")

Found ==
  IF dir = None THEN {}
  ELSE IF Copying \/ ~ Whole(inode[dir]) THEN {None}
  ELSE {inode[dir][k] : k \in Chunks}

File ==
  INSTANCE CacheFile WITH
    Packages <- {{r} : r \in Revisions}, Absent <- {}, Torn <- {None},
    file <- Found, open <- Copying

ImplementsCacheFile == File!Spec
==============================================================================
