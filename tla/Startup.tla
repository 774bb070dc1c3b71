------------------------------- MODULE Startup -------------------------------
(***************************************************************************)
(* What happens before the first chart is looked at: the sync command      *)
(* reads its configuration file and the environment (internal/config),     *)
(* validates them (api.Validate) and makes the two clients (syncer.New,    *)
(* pkg/client), which ask their repositories for an index.  Any of the     *)
(* steps may refuse the run; they check different things in different      *)
(* packages, and what reaches the clients is the sum of them.              *)
(*                                                                         *)
(* A credential is modelled by where it came from: its side and the file,  *)
(* the environment variable, or the older variable that set it.            *)
(***************************************************************************)
EXTENDS Naturals, FiniteSets

CONSTANTS
  Files,          \* the configuration files a run may find
  Environments    \* the environments it may find

Sides == {"source", "target"}
Kinds == {"UNKNOWN", "HELM", "CHARTMUSEUM", "HARBOR", "OCI", "LOCAL"}
Remote == {"HELM", "CHARTMUSEUM", "HARBOR", "OCI"}

RepoKeys == {"repo.auth.username", "repo.auth.password"}
ContainerKeys ==
  {"containers.auth.username", "containers.auth.password", "containers.auth.registry"}
BoundKeys == RepoKeys \cup ContainerKeys
\* The section of the file that holds the three may also be there and empty.
Keys == BoundKeys \cup {"containers.url", "containers.auth"}

Origins == {"env", "legacy", "file", "nowhere"}
Values == [side : Sides, from : Origins]
Nothing(s) == [side |-> s, from |-> "nowhere"]
Auths == [username : Values, password : Values]
Anonymous(s) == [username |-> Nothing(s), password |-> Nothing(s)]
IsSet(v) == v.from # "nowhere"

\* What a client has for its own calls, for the request of an index, and what it hands on
\* to distribution-tooling for charts and for container images.
Credentials == [calls : Auths, index : Auths, tool : Auths, containers : Auths]
NoCredentials(s) ==
  [calls |-> Anonymous(s), index |-> Anonymous(s), tool |-> Anonymous(s),
   containers |-> Anonymous(s)]

\* One side of a file: whether it names a repository, of which kind, with a URL that
\* parses as an absolute one, only as a relative one, or not at all, with which charts
\* index, and the settings that are not empty.
FileSides ==
  [repo : BOOLEAN, kind : Kinds, url : {"absolute", "relative", "malformed"},
   index : {"default", "own", "disabled"}, keys : SUBSET Keys]

ASSUME StartupAssumption ==
  /\ Files \subseteq [readable : BOOLEAN, wellFormed : BOOLEAN, charts : BOOLEAN,
                      skip : BOOLEAN, source : FileSides, target : FileSides]
  /\ Environments \subseteq [env : [Sides -> SUBSET BoundKeys],
                             legacy : [Sides -> SUBSET RepoKeys]]

VARIABLES
  file, environment,   \* what the run was started with
  config,              \* the api.Config of the command, once loaded
  clients,             \* Syncer.cli: the kind of each client and its credentials
  answers,             \* what each side's registry answered when asked for its charts index
  pc,                  \* where the command is
  refusal              \* the step that refused the run, or "none"

vars == <<file, environment, config, clients, answers, pc, refusal>>

-----------------------------------------------------------------------------
(* internal/config *)

\* viper.GetString: the variable named after the key, then the older one, then the file.
Lookup(s, k) ==
  [side |-> s,
   from |-> IF k \in environment.env[s] THEN "env"
            ELSE IF k \in environment.legacy[s] THEN "legacy"
            ELSE IF k \in file[s].keys THEN "file" ELSE "nowhere"]

InFile(s, k) == [side |-> s, from |-> IF k \in file[s].keys THEN "file" ELSE "nowhere"]

\* A pair that viper completes replaces the file's; an incomplete one does not.
RepoAuth_SourceOnly(s) ==
  LET u == Lookup("source", "repo.auth.username")
      p == Lookup("source", "repo.auth.password")
  IN IF IsSet(u) /\ IsSet(p)
       THEN [username |-> u, password |-> p]
       ELSE [username |-> InFile(s, "repo.auth.username"),
             password |-> InFile(s, "repo.auth.password")]

RepoAuth(s) ==
  LET u == Lookup(s, "repo.auth.username")
      p == Lookup(s, "repo.auth.password")
  IN IF IsSet(u) /\ IsSet(p)
       THEN [username |-> u, password |-> p]
       ELSE [username |-> InFile(s, "repo.auth.username"),
             password |-> InFile(s, "repo.auth.password")]

\* One half is enough to replace the file's section, with the registry's URL for a default;
\* Validate looks at the result, also of a section without settings.
ContainerAuth(s) ==
  LET u == Lookup(s, "containers.auth.username")
      p == Lookup(s, "containers.auth.password")
      r == Lookup(s, "containers.auth.registry")
      registry == IF IsSet(r) THEN r ELSE Lookup(s, "containers.url")
  IN IF IsSet(u) \/ IsSet(p)
       THEN [present |-> TRUE, username |-> u, password |-> p, registry |-> registry]
       ELSE [present |-> file[s].keys \cap (ContainerKeys \cup {"containers.auth"}) # {},
             username |-> Nothing(s), password |-> Nothing(s),
             registry |-> InFile(s, "containers.auth.registry")]

\* The index left to find: a target registry never has one.
Index_AsConfigured(s) == file[s].index
Index(s) == IF s = "target" /\ file[s].kind = "OCI" THEN "disabled" ELSE file[s].index

NeedsDefaultIndex == file.source.repo /\ file.source.index = "default"

Loadable ==
  /\ file.wellFormed
  /\ NeedsDefaultIndex => file.source.url # "malformed"
  /\ ~ (file.charts /\ file.skip)

-----------------------------------------------------------------------------
(* api.Validate *)

UrlValid(s) == config[s].repo /\ config[s].kind \in Remote => config[s].url = "absolute"

ContainerAuthValid(s) ==
  LET c == config[s].containers
  IN c.present =>
       IsSet(c.username) /\ IsSet(c.password) /\ (s = "source" => IsSet(c.registry))

TargetKindValid_Any == TRUE
TargetKindValid == config.target.repo => config.target.kind \in {"OCI", "LOCAL"}

Valid ==
  /\ \A s \in Sides : UrlValid(s) /\ ContainerAuthValid(s)
  /\ TargetKindValid

-----------------------------------------------------------------------------
(* syncer.New and the clients. *)

\* The clients' own calls carry a user name and a password, or neither.
PairOrNone(s) ==
  IF IsSet(config[s].auth.username) /\ IsSet(config[s].auth.password)
    THEN config[s].auth ELSE Anonymous(s)

\* So does the request for a Helm index; the one for a charts index has what is configured.
IndexAuth(s) == IF config[s].kind = "OCI" THEN config[s].auth ELSE PairOrNone(s)

ContainerPair(s) ==
  [username |-> config[s].containers.username, password |-> config[s].containers.password]

\* A directory is given no credentials.
Presented(s) ==
  IF config[s].kind = "LOCAL" THEN NoCredentials(s)
  ELSE [calls |-> PairOrNone(s), index |-> IndexAuth(s), tool |-> config[s].auth,
        containers |-> ContainerPair(s)]

AsksForIndex(s) == config[s].kind = "OCI" /\ config[s].index # "disabled"

\* Of the answers without an index, only this one stands for an empty index.
IsNotFound_Any(answer) == answer \in {"none", "unreadable"}
IsNotFound(answer) == answer = "none"

Client_Forgotten(s) == clients
Client(s) == [clients EXCEPT ![s] = [kind |-> config[s].kind, auth |-> Presented(s)]]

Refuse(step) ==
  /\ pc' = "refused" /\ refusal' = step
  /\ UNCHANGED <<file, environment, config, clients>>

Init ==
  /\ file \in Files /\ environment \in Environments
  /\ config = [s \in Sides |-> [repo |-> FALSE]]
  /\ clients = [s \in Sides |-> [kind |-> "none", auth |-> NoCredentials(s)]]
  /\ answers = [s \in Sides |-> "not asked"]
  /\ pc = "init" /\ refusal = "none"

InitConfigFile ==
  /\ pc = "init"
  /\ IF file.readable
       THEN pc' = "load" /\ UNCHANGED <<file, environment, config, clients, refusal>>
       ELSE Refuse("init")
  /\ UNCHANGED answers

Load ==
  /\ pc = "load"
  /\ Loadable
  /\ config' = [s \in Sides |->
       [repo |-> file[s].repo, kind |-> file[s].kind, url |-> file[s].url,
        index |-> Index(s), auth |-> RepoAuth(s), containers |-> ContainerAuth(s)]]
  /\ pc' = "validate"
  /\ UNCHANGED <<file, environment, clients, answers, refusal>>

LoadFails ==
  /\ pc = "load" /\ ~ Loadable
  /\ Refuse("load")
  /\ UNCHANGED answers

Validate ==
  /\ pc = "validate"
  /\ IF Valid
       THEN pc' = "source" /\ UNCHANGED <<file, environment, config, clients, refusal>>
       ELSE Refuse("validate")
  /\ UNCHANGED answers

\* The client of a registry asks for its charts index, and is told of one, or that there is
\* none, or gets no answer it can use: no connection, no permission, no index in what came.
AskIndex(s) ==
  /\ pc = s
  /\ config[s].repo /\ AsksForIndex(s) /\ answers[s] = "not asked"
  /\ \E a \in {"index", "none", "unreadable"} : answers' = [answers EXCEPT ![s] = a]
  /\ UNCHANGED <<file, environment, config, clients, pc, refusal>>

\* The source client is made first, then the target client.
NewClient(s) ==
  /\ pc = s
  /\ config[s].repo /\ config[s].kind # "UNKNOWN"
  /\ AsksForIndex(s) => answers[s] = "index" \/ IsNotFound(answers[s])
  /\ clients' = Client(s)
  /\ pc' = IF s = "source" THEN "target" ELSE "request"
  /\ UNCHANGED <<file, environment, config, answers, refusal>>

\* There is no such client, its cache or its directory cannot be made, or the index
\* of a Helm repository cannot be had.
NewClientFails(s) ==
  /\ pc = s /\ answers[s] = "not asked"
  /\ Refuse(s)
  /\ UNCHANGED answers

IndexFails(s) ==
  /\ pc = s /\ answers[s] \notin {"not asked", "index"} /\ ~ IsNotFound(answers[s])
  /\ Refuse("index")
  /\ UNCHANGED answers

\* The charts of the configuration, or the ones the source client knows of.
Request ==
  /\ pc = "request"
  /\ file.charts \/ clients.source.kind # "OCI" \/ answers.source = "index"
  /\ pc' = "started"
  /\ UNCHANGED <<file, environment, config, clients, answers, refusal>>

\* Nothing was discovered; the command ends as if all charts were in sync.
RequestFails ==
  /\ pc = "request"
  /\ ~ file.charts
  /\ Refuse("request")
  /\ UNCHANGED answers

Next ==
  \/ InitConfigFile \/ Load \/ LoadFails \/ Validate
  \/ \E s \in Sides : AskIndex(s) \/ NewClient(s) \/ NewClientFails(s) \/ IndexFails(s)
  \/ Request \/ RequestFails

Spec == Init /\ [][Next]_vars

-----------------------------------------------------------------------------
(* Properties. *)

\* Every variable stays in its type, and no syncer is without its clients.
TypeOK ==
  /\ pc \in {"init", "load", "validate", "request", "started", "refused"} \cup Sides
  /\ refusal \in {"none", "init", "load", "validate", "index", "request"} \cup Sides
  /\ refusal = "none" <=> pc # "refused"
  /\ answers \in [Sides -> {"not asked", "index", "none", "unreadable"}]
  /\ \A s \in Sides : clients[s].kind \in Kinds \cup {"none"} /\ clients[s].auth \in Credentials
  /\ pc \in {"target", "request", "started"} => clients.source.kind # "none"
  /\ pc \in {"request", "started"} => clients.target.kind # "none"

\* Whatever file and environment a run finds, what it starts with is something the
\* documentation supports, although Load, Validate and New each check a part only:
\* a known kind of source, an OCI or LOCAL target, complete credentials for the
\* container registries or none, and not both a list of charts and one of exceptions.
UsableWhenStarted ==
  pc = "started" =>
    /\ clients.source.kind \in Remote \cup {"LOCAL"}
    /\ clients.target.kind \in {"OCI", "LOCAL"}
    /\ \A s \in Sides : LET c == config[s].containers
                        IN c.username.from = "nowhere" <=> c.password.from = "nowhere"
    /\ ~ (file.charts /\ file.skip)

\* The origins that set a key, and the documented precedence among them.
SetIn(s, k) ==
  {o \in {"env", "legacy", "file"} :
     \/ o = "env" /\ k \in environment.env[s]
     \/ o = "legacy" /\ k \in environment.legacy[s]
     \/ o = "file" /\ k \in file[s].keys}
Rank == [env |-> 3, legacy |-> 2, file |-> 1]
Preferred(s, k, v) ==
  v.side = s /\ v.from \in SetIn(s, k) /\ \A o \in SetIn(s, k) : ~ (Rank[o] > Rank[v.from])

PreferredPair(s, user, pass, auth) ==
  Preferred(s, user, auth.username) /\ Preferred(s, pass, auth.password)

\* What is never made into a pair: at most one half, of the side's own file.
HalfPair(s, auth) ==
  /\ {auth.username, auth.password} \subseteq [side : {s}, from : {"file", "nowhere"}]
  /\ ~ (IsSet(auth.username) /\ IsSet(auth.password))

RepoAsDocumented(s, auth) ==
  IF \A k \in RepoKeys : SetIn(s, k) # {}
    THEN \A a \in {auth.calls, auth.index, auth.tool} :
           PreferredPair(s, "repo.auth.username", "repo.auth.password", a)
    ELSE auth.calls = Anonymous(s) /\ HalfPair(s, auth.index) /\ HalfPair(s, auth.tool)

ContainersAsDocumented(s, auth) ==
  IF SetIn(s, "containers.auth.username") \cup SetIn(s, "containers.auth.password") = {}
    THEN auth.containers = Anonymous(s)
    ELSE PreferredPair(s, "containers.auth.username", "containers.auth.password", auth.containers)

\* A user name and a password that are both set for a side, wherever, are what its client
\* uses for every purpose, each taken from the environment before the file, although three
\* layers decide on them.  Otherwise nothing makes a pair of halves: the client's own calls
\* are anonymous, and what it hands on is no more than half a pair, of its side's own file.
\* Container registries get the preferred pair of their own settings, or none if no half is set.
CredentialsAsDocumented ==
  pc = "started" => \A s \in Sides : clients[s].kind \in Remote =>
    RepoAsDocumented(s, clients[s].auth) /\ ContainersAsDocumented(s, clients[s].auth)

\* Only a source registry is asked for a charts index: a target without one, or one
\* whose index cannot be read, never keeps a run from starting.
OnlySourceIsIndexed == answers.target = "not asked"

\* A registry without a charts index and one whose index cannot be read end differently.
\* From an unreadable index no run goes on, with charts that are listed or without, and none
\* ends as if there were nothing to sync; a missing one refuses no run that lists its charts.
\* A run that discovers its charts in a registry has read its index.
IndexToldApart ==
  /\ answers.source = "unreadable" => pc \in {"source", "refused"} /\ refusal \in {"none", "index"}
  /\ answers.source = "none" => refusal # "index" /\ (file.charts => refusal # "request")
  /\ pc = "started" /\ clients.source.kind = "OCI" /\ ~ file.charts => answers.source = "index"
==============================================================================
