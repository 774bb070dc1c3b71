---------------------------- MODULE StartupProofs ----------------------------
(* Theorems about Startup, for every configuration file and environment.     *)
EXTENDS Startup, TLAPS

\* What Load makes of the file and the environment.
Loaded ==
  [s \in Sides |->
     [repo |-> file[s].repo, kind |-> file[s].kind, url |-> file[s].url,
      index |-> Index(s), auth |-> RepoAuth(s), containers |-> ContainerAuth(s)]]

Made(s) ==
  /\ config[s].repo /\ config[s].kind # "UNKNOWN"
  /\ clients[s] = [kind |-> config[s].kind, auth |-> Presented(s)]

\* What each step has checked or made holds ever after.
Passed ==
  /\ file \in Files /\ environment \in Environments
  /\ pc \in {"validate", "request", "started"} \cup Sides =>
       config = Loaded /\ ~ (file.charts /\ file.skip)
  /\ pc \in {"request", "started"} \cup Sides => Valid
  /\ pc \in {"target", "request", "started"} => Made("source")
  /\ pc \in {"request", "started"} => Made("target")
  /\ pc \in {"init", "load", "validate"} => answers.source = "not asked"
  /\ pc = "source" /\ answers.source # "not asked" => AsksForIndex("source")

\* The domain of clients, which the type invariant leaves open.
ClientsFunction == clients \in [Sides -> [kind : Kinds \cup {"none"}, auth : Credentials]]

StartupInv ==
  TypeOK /\ ClientsFunction /\ Passed /\ OnlySourceIsIndexed /\ IndexToldApart

\* The file's sides are sides of a file, and what is looked up in it is a value.
LEMMA FileType ==
  ASSUME file \in Files
  PROVE  /\ \A s \in Sides : file[s] \in FileSides
         /\ \A s \in Sides : Index(s) \in {"default", "own", "disabled"}
         /\ \A s \in Sides : RepoAuth(s) \in Auths /\ Anonymous(s) \in Auths
         /\ \A s \in Sides : ContainerAuth(s).username \in Values /\ ContainerAuth(s).password \in Values
         /\ \A s \in Sides : NoCredentials(s) \in Credentials
<1>1. \A s \in Sides : file[s] \in FileSides
  BY StartupAssumption DEF Sides
<1>2. \A k : \A s \in Sides : Lookup(s, k) \in Values /\ InFile(s, k) \in Values
  BY DEF Lookup, InFile, Values, Origins
<1>3. \A s \in Sides : Nothing(s) \in Values
  BY DEF Nothing, Values, Origins
<1>4. \A s \in Sides : Index(s) \in {"default", "own", "disabled"}
  BY <1>1 DEF Index, FileSides
<1>5. \A s \in Sides : RepoAuth(s) \in Auths /\ Anonymous(s) \in Auths
  BY <1>2, <1>3 DEF RepoAuth, Anonymous, Auths
<1>6. \A s \in Sides : ContainerAuth(s).username \in Values /\ ContainerAuth(s).password \in Values
  BY <1>2, <1>3 DEF ContainerAuth
<1>7. \A s \in Sides : NoCredentials(s) \in Credentials
  BY <1>5 DEF NoCredentials, Credentials
<1> QED
  BY <1>1, <1>4, <1>5, <1>6, <1>7

LEMMA StartupInit == Init => StartupInv
<1> SUFFICES ASSUME Init PROVE StartupInv
  OBVIOUS
<1>1. \A s \in Sides : NoCredentials(s) \in Credentials
  BY FileType DEF Init
<1>2. ClientsFunction
  BY <1>1 DEF Init, ClientsFunction
<1>3. TypeOK
  BY <1>1 DEF Init, TypeOK, Sides
<1>4. Passed /\ OnlySourceIsIndexed /\ IndexToldApart
  BY DEF Init, Passed, OnlySourceIsIndexed, IndexToldApart, Sides
<1> QED
  BY <1>2, <1>3, <1>4 DEF StartupInv

\* A step that refuses the run.
LEMMA RefuseKeeps ==
  ASSUME StartupInv, NEW step, Refuse(step), answers' = answers,
         step \in {"init", "load", "validate", "index", "request"} \cup Sides,
         answers.source = "unreadable" => step = "index",
         answers.source = "none" => step # "index" /\ (file.charts => step # "request")
  PROVE  StartupInv'
  BY DEF StartupInv, Refuse, TypeOK, ClientsFunction, Passed, OnlySourceIsIndexed,
     IndexToldApart, Sides

LEMMA StartupNext == StartupInv /\ [Next]_vars => StartupInv'
<1> SUFFICES ASSUME StartupInv, [Next]_vars PROVE StartupInv'
  OBVIOUS
<1>a. TypeOK /\ ClientsFunction /\ Passed /\ OnlySourceIsIndexed /\ IndexToldApart
  BY DEF StartupInv
<1>b. ASSUME UNCHANGED <<file, environment, config>>
      PROVE  /\ Loaded' = Loaded /\ Valid' = Valid
             /\ \A s \in Sides : clients'[s] = clients[s] => Made(s)' = Made(s)
             /\ \A s \in Sides : Presented(s)' = Presented(s) /\ AsksForIndex(s)' = AsksForIndex(s)
  <2>1. Loaded' = Loaded
    BY <1>b DEF Loaded, Index, RepoAuth, ContainerAuth, Lookup, InFile, Nothing
  <2>2. Valid' = Valid
    BY <1>b DEF Valid, UrlValid, ContainerAuthValid, TargetKindValid
  <2>3. \A s \in Sides : Presented(s)' = Presented(s) /\ AsksForIndex(s)' = AsksForIndex(s)
    BY <1>b DEF Presented, PairOrNone, IndexAuth, ContainerPair, NoCredentials, Anonymous, Nothing,
       AsksForIndex
  <2> QED
    BY <1>b, <2>1, <2>2, <2>3 DEF Made, Sides
<1>1. CASE InitConfigFile
  <2>1. CASE file.readable
    BY <1>1, <2>1, <1>a DEF InitConfigFile, StartupInv, TypeOK, ClientsFunction, Passed,
       OnlySourceIsIndexed, IndexToldApart, Sides
  <2>2. CASE ~ file.readable
    BY <1>1, <2>2, <1>a, RefuseKeeps DEF InitConfigFile, Passed
  <2> QED
    BY <2>1, <2>2
<1>2. CASE Load
  <2>1. /\ config' = Loaded' /\ ~ (file.charts /\ file.skip) /\ pc' = "validate"
        /\ UNCHANGED <<file, environment, clients, answers, refusal>> /\ pc = "load"
    BY <1>2 DEF Load, Loadable, Loaded, Index, RepoAuth, ContainerAuth, Lookup, InFile, Nothing
  <2> QED
    BY <2>1, <1>a DEF StartupInv, TypeOK, ClientsFunction, Passed, OnlySourceIsIndexed,
       IndexToldApart, Sides
<1>3. CASE LoadFails
  BY <1>3, <1>a, RefuseKeeps DEF LoadFails, Passed
<1>4. CASE Validate
  <2>1. CASE Valid
    <3>1. pc = "validate" /\ pc' = "source" /\ UNCHANGED <<file, environment, config, clients, answers, refusal>>
      BY <1>4, <2>1 DEF Validate
    <3> QED
      BY <3>1, <2>1, <1>a, <1>b DEF StartupInv, TypeOK, ClientsFunction, Passed,
         OnlySourceIsIndexed, IndexToldApart, Sides
  <2>2. CASE ~ Valid
    BY <1>4, <2>2, <1>a, RefuseKeeps DEF Validate, Passed
  <2> QED
    BY <2>1, <2>2
<1>5. ASSUME NEW s \in Sides, NewClient(s) PROVE StartupInv'
  <2>1. /\ pc = s /\ pc' = (IF s = "source" THEN "target" ELSE "request")
        /\ config[s].repo /\ config[s].kind # "UNKNOWN"
        /\ UNCHANGED <<file, environment, config, refusal>>
        /\ config = Loaded
    BY <1>5, <1>a DEF NewClient, Passed
  <2>2. config[s].kind \in Kinds /\ Presented(s) \in Credentials
    <3>1. /\ config[s].kind \in Kinds /\ config[s].auth \in Auths /\ Anonymous(s) \in Auths
          /\ config[s].containers.username \in Values /\ config[s].containers.password \in Values
          /\ NoCredentials(s) \in Credentials
      BY <2>1, <1>a, FileType DEF Loaded, Passed, FileSides
    <3>2. ContainerPair(s) \in Auths /\ PairOrNone(s) \in Auths /\ IndexAuth(s) \in Auths
      BY <3>1 DEF ContainerPair, PairOrNone, IndexAuth, Auths
    <3> QED
      BY <3>1, <3>2 DEF Presented, Credentials
  <2>3. /\ clients' \in [Sides -> [kind : Kinds \cup {"none"}, auth : Credentials]]
        /\ Made(s)' /\ clients'[s].kind # "none"
        /\ \A r \in Sides : r # s => clients'[r] = clients[r]
    <3>1. clients' = Client(s)
      BY <1>5 DEF NewClient
    <3>2. clients'[s] = [kind |-> config[s].kind, auth |-> Presented(s)]
      BY <3>1, <1>a DEF Client, ClientsFunction
    <3>3. clients'[s].kind # "none"
      BY <3>2, <2>2 DEF Kinds
    <3>4. Made(s)'
      BY <2>1, <3>2, <1>b DEF Made
    <3> QED
      BY <3>1, <3>2, <3>3, <3>4, <2>2, <1>a DEF Client, ClientsFunction
  <2>4. answers' = answers /\ refusal = "none"
    BY <1>5, <2>1, <1>a DEF NewClient, TypeOK, Sides
  <2>5. answers.source # "unreadable"
    <3>1. CASE s = "source"
      BY <1>5, <2>1, <3>1, <1>a DEF NewClient, IsNotFound, Passed
    <3>2. CASE s = "target"
      BY <2>1, <3>2, <1>a DEF IndexToldApart
    <3> QED
      BY <3>1, <3>2 DEF Sides
  <2> QED
    BY <2>1, <2>3, <2>4, <2>5, <1>a, <1>b DEF StartupInv, TypeOK, ClientsFunction, Passed,
       OnlySourceIsIndexed, IndexToldApart, Sides
<1>6. ASSUME NEW s \in Sides, NewClientFails(s) PROVE StartupInv'
  BY <1>6, <1>a, RefuseKeeps DEF NewClientFails, Passed, IndexToldApart, Sides
<1>7. ASSUME NEW s \in Sides, AskIndex(s) PROVE StartupInv'
  <2>1. /\ pc = s /\ AsksForIndex(s) /\ config = Loaded
        /\ UNCHANGED <<file, environment, config, clients, pc, refusal>>
        /\ \E a \in {"index", "none", "unreadable"} : answers' = [answers EXCEPT ![s] = a]
    BY <1>7, <1>a DEF AskIndex, Passed
  <2>2. s = "source"
    BY <2>1 DEF AsksForIndex, Loaded, Index, Sides
  <2>3. /\ answers' \in [Sides -> {"not asked", "index", "none", "unreadable"}]
        /\ answers'.target = "not asked" /\ refusal = "none"
    BY <2>1, <2>2, <1>a DEF TypeOK, OnlySourceIsIndexed, Sides
  <2> QED
    BY <2>1, <2>2, <2>3, <1>a, <1>b DEF StartupInv, TypeOK, ClientsFunction, Passed, OnlySourceIsIndexed,
       IndexToldApart, Sides
<1>11. ASSUME NEW s \in Sides, IndexFails(s) PROVE StartupInv'
  <2>1. s = "source" /\ answers.source = "unreadable" /\ Refuse("index") /\ answers' = answers
    BY <1>11, <1>a DEF IndexFails, IsNotFound, OnlySourceIsIndexed, TypeOK, Sides
  <2> QED
    BY <2>1, RefuseKeeps
<1>8. CASE Request
  <2>1. /\ pc = "request" /\ pc' = "started"
        /\ UNCHANGED <<file, environment, config, clients, answers, refusal>>
        /\ file.charts \/ clients.source.kind # "OCI" \/ answers.source = "index"
    BY <1>8 DEF Request
  <2> QED
    BY <2>1, <1>a, <1>b DEF StartupInv, TypeOK, ClientsFunction, Passed, OnlySourceIsIndexed,
       IndexToldApart, Sides
<1>9. CASE RequestFails
  BY <1>9, <1>a, RefuseKeeps DEF RequestFails, IndexToldApart
<1>10. CASE UNCHANGED vars
  <2>1. UNCHANGED <<file, environment, config, clients, answers, pc, refusal>>
    BY <1>10 DEF vars
  <2> QED
    BY <2>1, <1>a, <1>b DEF StartupInv, TypeOK, ClientsFunction, Passed, OnlySourceIsIndexed,
       IndexToldApart, Sides
<1> QED
  BY <1>1, <1>2, <1>3, <1>4, <1>5, <1>6, <1>7, <1>8, <1>9, <1>10, <1>11 DEF Next

\* The type invariant holds for all files and environments.
THEOREM TypeCorrect == Spec => []TypeOK
<1>1. StartupInv => TypeOK
  BY DEF StartupInv
<1> QED
  BY <1>1, StartupInit, StartupNext, PTL DEF Spec

\* No combination of file and environment slips through the three sets of checks:
\* what the command starts with is a supported configuration.
THEOREM UsableWhenStartedTheorem == Spec => []UsableWhenStarted
<1>1. StartupInv => UsableWhenStarted
  <2> SUFFICES ASSUME StartupInv, pc = "started" PROVE UsableWhenStarted
    BY DEF UsableWhenStarted
  <2>1. /\ config = Loaded /\ ~ (file.charts /\ file.skip) /\ Valid
        /\ Made("source") /\ Made("target") /\ file \in Files
    BY DEF StartupInv, Passed
  <2>2. \A s \in Sides : config[s].kind \in Kinds
    BY <2>1, FileType DEF Loaded, FileSides
  <2>3. /\ clients.source.kind \in Remote \cup {"LOCAL"}
        /\ clients.target.kind \in {"OCI", "LOCAL"}
    BY <2>1, <2>2 DEF Made, Kinds, Remote, Valid, TargetKindValid, Sides
  <2>4. \A s \in Sides : config[s].containers.username.from = "nowhere"
                         <=> config[s].containers.password.from = "nowhere"
    BY <2>1 DEF Valid, ContainerAuthValid, IsSet, Loaded, ContainerAuth, Nothing
  <2> QED
    BY <2>1, <2>3, <2>4 DEF UsableWhenStarted
<1> QED
  BY <1>1, StartupInit, StartupNext, PTL DEF Spec

\* Whichever settings and variables are there on either side, what each client uses is of its
\* own side, in the documented order of preference, and nothing makes a pair of halves.
THEOREM CredentialsAsDocumentedTheorem == Spec => []CredentialsAsDocumented
<1>1. StartupInv => CredentialsAsDocumented
  <2> SUFFICES ASSUME StartupInv, pc = "started", NEW s \in Sides, clients[s].kind \in Remote
               PROVE  /\ RepoAsDocumented(s, clients[s].auth)
                      /\ ContainersAsDocumented(s, clients[s].auth)
    BY DEF CredentialsAsDocumented
  <2> DEFINE auth == clients[s].auth
             user == Lookup(s, "repo.auth.username")
             pass == Lookup(s, "repo.auth.password")
  <2>1. config = Loaded /\ Made(s) /\ Valid
    BY DEF StartupInv, Passed, Sides
  <2>2. /\ config[s].auth = RepoAuth(s) /\ config[s].containers = ContainerAuth(s)
        /\ auth.calls = PairOrNone(s) /\ auth.index = IndexAuth(s)
        /\ auth.tool = RepoAuth(s) /\ auth.containers = ContainerPair(s)
    BY <2>1 DEF Loaded, Made, Remote, Presented
  <2>3. \A k : IsSet(Lookup(s, k)) <=> SetIn(s, k) # {}
    BY DEF IsSet, Lookup, SetIn
  <2>4. \A k : SetIn(s, k) # {} => Preferred(s, k, Lookup(s, k))
    BY DEF SetIn, Preferred, Lookup, Rank
  <2>5. (\A k \in RepoKeys : SetIn(s, k) # {}) <=> IsSet(user) /\ IsSet(pass)
    BY <2>3 DEF RepoKeys
  <2>6. RepoAsDocumented(s, auth)
    <3>1. CASE \A k \in RepoKeys : SetIn(s, k) # {}
      <4>1. RepoAuth(s) = [username |-> user, password |-> pass]
        BY <2>5, <3>1 DEF RepoAuth
      <4>2. auth.calls = RepoAuth(s) /\ auth.index = RepoAuth(s) /\ auth.tool = RepoAuth(s)
        BY <2>2, <2>5, <3>1, <4>1 DEF PairOrNone, IndexAuth
      <4>3. PreferredPair(s, "repo.auth.username", "repo.auth.password", RepoAuth(s))
        BY <2>4, <3>1, <4>1 DEF RepoKeys, PreferredPair
      <4> QED
        BY <3>1, <4>2, <4>3 DEF RepoAsDocumented
    <3>2. CASE ~ \A k \in RepoKeys : SetIn(s, k) # {}
      <4>1. RepoAuth(s) = [username |-> InFile(s, "repo.auth.username"),
                           password |-> InFile(s, "repo.auth.password")]
        BY <2>5, <3>2 DEF RepoAuth
      <4>2. ~ (IsSet(RepoAuth(s).username) /\ IsSet(RepoAuth(s).password))
        BY <2>5, <3>2, <4>1 DEF IsSet, InFile, Lookup
      <4>3. auth.calls = Anonymous(s) /\ auth.index \in {RepoAuth(s), Anonymous(s)}
        BY <2>2, <4>2 DEF PairOrNone, IndexAuth
      <4>4. HalfPair(s, RepoAuth(s)) /\ HalfPair(s, Anonymous(s))
        BY <4>1, <4>2 DEF HalfPair, InFile, Anonymous, Nothing, IsSet
      <4> QED
        BY <2>2, <3>2, <4>3, <4>4 DEF RepoAsDocumented
    <3> QED
      BY <3>1, <3>2
  <2>7. ContainersAsDocumented(s, auth)
    <3>1. CASE SetIn(s, "containers.auth.username") \cup SetIn(s, "containers.auth.password") = {}
      <4>1. ~ IsSet(Lookup(s, "containers.auth.username")) /\ ~ IsSet(Lookup(s, "containers.auth.password"))
        BY <2>3, <3>1
      <4> QED
        BY <2>2, <3>1, <4>1 DEF ContainerAuth, ContainerPair, Anonymous, ContainersAsDocumented
    <3>2. CASE SetIn(s, "containers.auth.username") \cup SetIn(s, "containers.auth.password") # {}
      <4>1. IsSet(Lookup(s, "containers.auth.username")) \/ IsSet(Lookup(s, "containers.auth.password"))
        BY <2>3, <3>2
      <4>2. /\ ContainerAuth(s).present
            /\ ContainerAuth(s).username = Lookup(s, "containers.auth.username")
            /\ ContainerAuth(s).password = Lookup(s, "containers.auth.password")
        BY <4>1 DEF ContainerAuth
      <4>3. IsSet(ContainerAuth(s).username) /\ IsSet(ContainerAuth(s).password)
        BY <2>1, <2>2, <4>2 DEF Valid, ContainerAuthValid
      <4>4. /\ Preferred(s, "containers.auth.username", ContainerAuth(s).username)
            /\ Preferred(s, "containers.auth.password", ContainerAuth(s).password)
        BY <2>3, <2>4, <4>2, <4>3
      <4>5. /\ auth.containers.username = ContainerAuth(s).username
            /\ auth.containers.password = ContainerAuth(s).password
        BY <2>2 DEF ContainerPair
      <4> QED
        BY <3>2, <4>4, <4>5 DEF PreferredPair, ContainersAsDocumented
    <3> QED
      BY <3>1, <3>2
  <2> QED
    BY <2>6, <2>7
<1> QED
  BY <1>1, StartupInit, StartupNext, PTL DEF Spec

\* The charts index of a target is never asked for.
THEOREM OnlySourceIsIndexedTheorem == Spec => []OnlySourceIsIndexed
<1>1. StartupInv => OnlySourceIsIndexed
  BY DEF StartupInv
<1> QED
  BY <1>1, StartupInit, StartupNext, PTL DEF Spec

\* A missing charts index and an unreadable one are told apart, whatever the configuration:
\* neither do runs go on from an unreadable one, nor does a missing one stop a run with a list.
THEOREM IndexToldApartTheorem == Spec => []IndexToldApart
<1>1. StartupInv => IndexToldApart
  BY DEF StartupInv
<1> QED
  BY <1>1, StartupInit, StartupNext, PTL DEF Spec
==============================================================================
