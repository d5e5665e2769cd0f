---------------------------- MODULE ComposerProofs ----------------------------
(***************************************************************************)
(* Theorems about the composer and its repository, for every list of       *)
(* configurations, every set of requests, and every order in which         *)
(* requests, builds and updates interleave.                                *)
(***************************************************************************)
EXTENDS Composer, SequenceTheorems, TLAPS

-----------------------------------------------------------------------------
(* The repository.                                                         *)

\* The three parts are installed one after the other, and the repository has
\* the backends of its configuration.
Installed ==
    /\ authAt \in Nat /\ conf \in Nat /\ repoAt \in Nat
    /\ 1 <= authAt /\ authAt <= conf /\ conf <= repoAt /\ repoAt <= Len(Files)
    /\ DOMAIN installed = Keys(Files[repoAt])

\* An engine is in the repository only if it could be built from what is
\* installed there.
EnginesMade == \A k \in DOMAIN engines : CanMake(k) /\ engines[k].backend = installed[k]

RepoInv == Installed /\ EnginesMade

\* What a step does to the repository: nothing, an engine more, an update.
Makes(k) ==
    /\ k \in DOMAIN installed /\ Buildable(installed[k])
    /\ k \notin DOMAIN engines
    /\ DOMAIN engines' = DOMAIN engines \cup {k}
    /\ \A j \in DOMAIN engines : engines'[j] = engines[j]
    /\ engines'[k].backend = installed[k]
    /\ UNCHANGED <<installed, conf, repoAt, authAt>>
Updates ==
    /\ engines' = Nothing
    /\ repoAt = authAt /\ repoAt < Len(Files) /\ repoAt' = repoAt + 1
    /\ DOMAIN installed' = Keys(Files[repoAt'])
    /\ UNCHANGED <<conf, authAt>>
Rests ==
    /\ UNCHANGED <<engines, installed, repoAt>>
    /\ \/ UNCHANGED <<conf, authAt>>
       \/ conf < repoAt /\ conf' = repoAt /\ authAt' = authAt
       \/ authAt < conf /\ authAt' = conf /\ conf' = conf

LEMMA MakeEngineMakes ==
  ASSUME NEW k, MakeEngine(k), UNCHANGED <<conf, repoAt, authAt>> PROVE Makes(k)
  <1>1. /\ k \notin DOMAIN engines /\ k \in DOMAIN installed /\ Buildable(installed[k])
        /\ engines' = With(engines, k, Built(k))
        /\ UNCHANGED installed
    BY DEF MakeEngine, Known, CanMake
  <1>2. /\ DOMAIN engines' = DOMAIN engines \cup {k}
        /\ \A j \in DOMAIN engines : engines'[j] = engines[j]
        /\ engines'[k] = Built(k)
    BY <1>1 DEF With
  <1> QED BY <1>1, <1>2 DEF Makes, Built

LEMMA StepOfRepo ==
  ASSUME [Next]_vars PROVE Rests \/ Updates \/ \E k : Makes(k)
  <1> USE DEF server, composer, repo, serving, building
  <1>1. CASE UNCHANGED vars
    BY <1>1 DEF vars, Rests
  <1>2. ASSUME NEW r \in Requests, Arrive(r) \/ Decide(r) \/ Attempt(r) PROVE Rests
    BY <1>2 DEF Arrive, Decide, Attempt, Rests
  <1>3. ASSUME NEW r \in Requests, GetEngine(r) PROVE Rests \/ \E k : Makes(k)
    <2>1. CASE Lock(r)
      <3> DEFINE k == <<Model(r), want[r][2]>>
      <3>1. UNCHANGED <<conf, repoAt, authAt>>
        BY <1>3, <2>1 DEF GetEngine, Lock
      <3>2. UNCHANGED repo \/ MakeEngine(k)
        BY <2>1 DEF Lock, CannotMake
      <3>3. CASE UNCHANGED repo
        BY <3>1, <3>3 DEF Rests
      <3>4. CASE MakeEngine(k)
        <4> HIDE DEF k
        <4> QED BY <3>1, <3>4, MakeEngineMakes
      <3> QED BY <3>2, <3>3, <3>4
    <2>2. CASE ~Lock(r)
      <3>1. UNCHANGED <<repo, server>> /\ UNCHANGED conf
        BY <1>3, <2>2 DEF GetEngine, Hit, Refuse, Permit, ReadNames, Store, BuildFails, Look
      <3> QED BY <3>1 DEF Rests
    <2> QED BY <2>1, <2>2
  <1>4. CASE InstallInRepo
    BY <1>4 DEF InstallInRepo, UpdateRepo, Updates
  <1>5. CASE InstallInComposer
    BY <1>5 DEF InstallInComposer, UpdateComposer, Rests
  <1>6. CASE InstallInAuth
    BY <1>6 DEF InstallInAuth, UpdateAuth, Rests
  <1>7. CASE AllOver
    BY <1>7 DEF AllOver, vars, Rests
  <1> QED BY <1>1, <1>2, <1>3, <1>4, <1>5, <1>6, <1>7 DEF Next

LEMMA RepoInvInit == Init => RepoInv
  <1> SUFFICES ASSUME Init PROVE RepoInv
    OBVIOUS
  <1>1. authAt = 1 /\ conf = 1 /\ repoAt = 1 /\ engines = Nothing /\ DOMAIN installed = Keys(Files[1])
    BY DEF Init, RepoInit
  <1>2. EnginesMade
    BY <1>1 DEF EnginesMade, Nothing
  <1> QED BY <1>1, <1>2, FilesAssumption DEF RepoInv, Installed

LEMMA RepoInvNext == RepoInv /\ [Next]_vars => RepoInv'
  <1> SUFFICES ASSUME RepoInv, [Next]_vars PROVE RepoInv'
    OBVIOUS
  <1>1. CASE Rests
    BY <1>1 DEF Rests, RepoInv, Installed, EnginesMade, CanMake
  <1>2. CASE Updates
    BY <1>2, FilesAssumption DEF Updates, RepoInv, Installed, EnginesMade, Nothing
  <1>3. ASSUME NEW k, Makes(k) PROVE RepoInv'
    <2>1. Installed'
      BY <1>3 DEF Makes, RepoInv, Installed
    <2>2. EnginesMade'
      BY <1>3 DEF Makes, RepoInv, EnginesMade, CanMake
    <2> QED BY <2>1, <2>2 DEF RepoInv
  <1> QED BY <1>1, <1>2, <1>3, StepOfRepo

\* The repository is what it was installed with, throughout.
THEOREM RepoInvariant == Spec => []RepoInv
  BY RepoInvInit, RepoInvNext, PTL DEF Spec

\* No engine of an old configuration is in the repository (UpdateFromConfig
\* and GetEngine, and the locks of both).
THEOREM EnginesAreCurrent == Spec => []RegistryIsCurrent
  <1>1. RepoInv => RegistryIsCurrent
    BY DEF RepoInv, EnginesMade, CanMake, RegistryIsCurrent
  <1> QED BY <1>1, RepoInvariant, PTL

\* The double-checked lookup gives a backend one engine between two updates.
THEOREM ImplementsRegistry == Spec => RegistrySpec
  <1>1. Init => Registry!Init
    BY DEF Init, RepoInit, Nothing, Registry!Init
  <1>2. RepoInv /\ [Next]_vars => [Registry!Next]_engines
    <2> SUFFICES ASSUME RepoInv, [Next]_vars PROVE [Registry!Next]_engines
      OBVIOUS
    <2>1. CASE Rests
      BY <2>1 DEF Rests
    <2>2. CASE Updates
      BY <2>2 DEF Updates, Nothing, Registry!Next, Registry!Install
    <2>3. ASSUME NEW k, Makes(k) PROVE Registry!Next
      <3>1. k \in AllKeys
        BY <2>3 DEF Makes, RepoInv, Installed, AllKeys
      <3>2. Registry!Make(k)
        BY <2>3 DEF Makes, Registry!Make
      <3> QED BY <3>1, <3>2 DEF Registry!Next
    <2> QED BY <2>1, <2>2, <2>3, StepOfRepo
  <1> QED BY <1>1, <1>2, RepoInvariant, PTL DEF Spec, RegistrySpec, Registry!Spec

-----------------------------------------------------------------------------
(* Access.                                                                 *)

Functions ==
    /\ DOMAIN pc = Requests /\ DOMAIN asks = Requests /\ DOMAIN org = Requests
    /\ DOMAIN seen = Requests /\ DOMAIN since = Requests /\ DOMAIN todo = Requests
    /\ DOMAIN rule = Requests /\ DOMAIN tried = Requests /\ DOMAIN request = Requests /\ DOMAIN sent = Requests
    /\ DOMAIN got = Requests /\ DOMAIN want = Requests /\ DOMAIN engine = Requests

\* A configuration up to the one in force said so.
KeyGiven(key, o) == \E v \in 1 .. authAt : o \in DOMAIN Files[v].users /\ key \in KeysOf(v, o)
ModelGiven(o, m) == \E v \in 1 .. conf : Allowed(v, o, m)

Outside == {"new", "asked", "refused"}

\* What holds of the keys and of the cache holds of the requests that were
\* let in by them.
AccessInv ==
    /\ \A key \in DOMAIN apiKeys : KeyGiven(key, apiKeys[key])
    /\ \A c \in DOMAIN cache : ModelGiven(c[1], c[2])
    /\ \A r \in Requests : pc[r] # "new" /\ org[r] # NoOrg => KeyGiven(asks[r].key, org[r])
    /\ \A r \in Requests : pc[r] \notin Outside => ModelGiven(org[r], Model(r))

\* What a step does to access: a request comes, is let in, or goes on
\* inside, and may cache its engine; nobody else is touched.
Comes(r) ==
    /\ pc[r] = "new" /\ pc' = [pc EXCEPT ![r] = "asked"]
    /\ \E kind \in Kinds :
          /\ asks' = [asks EXCEPT ![r] = kind]
          /\ org' = [org EXCEPT ![r] = Authenticated(kind.key)]
    /\ UNCHANGED <<cache, conf, authAt, apiKeys>>
LetIn(r) ==
    /\ pc[r] = "asked"
    /\ \/ pc' = [pc EXCEPT ![r] = "refused"]
       \/ /\ CacheKey(r) \in DOMAIN cache \/ Allowed(conf, org[r], Model(r))
          /\ \E q \in {"serving", "permitted"} : pc' = [pc EXCEPT ![r] = q]
    /\ UNCHANGED <<asks, org, cache, conf, authAt, apiKeys>>
Inside(r) ==
    /\ pc[r] \notin Outside
    /\ UNCHANGED pc \/ \E q : q \notin Outside /\ pc' = [pc EXCEPT ![r] = q]
    /\ UNCHANGED cache \/ DOMAIN cache' = DOMAIN cache \cup {CacheKey(r)}
    /\ UNCHANGED <<asks, org, conf, authAt, apiKeys>>
Elsewhere ==
    /\ \/ UNCHANGED <<conf, authAt, apiKeys>>
       \/ conf < repoAt /\ conf' = repoAt /\ UNCHANGED <<authAt, apiKeys>>
       \/ UpdateAuth(conf) /\ authAt < conf /\ UNCHANGED conf
    /\ UNCHANGED <<pc, asks, org, cache>>

LEMMA StepOfAccess ==
  ASSUME [Next]_vars
  PROVE  Elsewhere \/ \E r \in Requests : Comes(r) \/ LetIn(r) \/ Inside(r)
  <1> USE DEF server, composer, repo, serving, building
  <1>1. CASE UNCHANGED vars
    BY <1>1 DEF vars, Elsewhere
  <1>2. ASSUME NEW r \in Requests, Arrive(r) PROVE Comes(r)
    BY <1>2 DEF Arrive, Comes
  <1>3. ASSUME NEW r \in Requests, Decide(r) PROVE Inside(r)
    <2>1. \E q : q \notin Outside /\ pc' = [pc EXCEPT ![r] = q]
      BY <1>3 DEF Decide, Outside
    <2> QED BY <1>3, <2>1 DEF Decide, Inside, Outside
  <1>4. ASSUME NEW r \in Requests, Attempt(r) PROVE Inside(r)
    <2>1. UNCHANGED pc \/ \E q : q \notin Outside /\ pc' = [pc EXCEPT ![r] = q]
      BY <1>4 DEF Attempt, Succeed, Fail, Outside
    <2> QED BY <1>4, <2>1 DEF Attempt, Inside, Outside
  <1>5. ASSUME NEW r \in Requests, GetEngine(r) PROVE LetIn(r) \/ Inside(r)
    <2>1. CASE Hit(r) \/ Refuse(r) \/ Permit(r)
      BY <1>5, <2>1 DEF GetEngine, Hit, Refuse, Permit, LetIn
    <2>2. CASE ReadNames(r, repoAt) \/ Look(r) \/ Lock(r) \/ Store(r) \/ BuildFails(r)
      <3>1. pc[r] \in {"permitted", "building", "locking"} /\ UNCHANGED <<asks, org, conf, authAt, apiKeys>>
        BY <1>5, <2>2 DEF GetEngine, ReadNames, Look, Lock, Store, BuildFails
      <3>2. UNCHANGED pc \/ \E q \in {"building", "locking", "serving", "failed"} : pc' = [pc EXCEPT ![r] = q]
        BY <1>5, <2>2 DEF GetEngine, ReadNames, Look, Lock, Store, BuildFails
      <3>3. UNCHANGED cache \/ DOMAIN cache' = DOMAIN cache \cup {CacheKey(r)}
        BY <1>5, <2>2 DEF GetEngine, ReadNames, Look, Lock, Store, BuildFails, With
      <3> QED BY <3>1, <3>2, <3>3 DEF Inside, Outside
    <2> QED BY <1>5, <2>1, <2>2 DEF GetEngine
  <1>6. CASE InstallInRepo
    BY <1>6 DEF InstallInRepo, Elsewhere
  <1>7. CASE InstallInComposer
    BY <1>7 DEF InstallInComposer, UpdateComposer, Elsewhere
  <1>8. CASE InstallInAuth
    BY <1>8 DEF InstallInAuth, UpdateAuth, Elsewhere
  <1>9. CASE AllOver
    BY <1>9 DEF AllOver, vars, Elsewhere
  <1> QED BY <1>1, <1>2, <1>3, <1>4, <1>5, <1>6, <1>7, <1>8, <1>9 DEF Next

\* The organisation of a key is one that has it.
LEMMA OwnersHaveTheirKeys ==
  ASSUME NEW v, NEW key \in DOMAIN NewApiKeys(v)
  PROVE  /\ NewApiKeys(v)[key] \in DOMAIN Files[v].users
         /\ key \in KeysOf(v, NewApiKeys(v)[key])
  <1>1. \E o \in DOMAIN Files[v].users : key \in KeysOf(v, o)
    BY DEF NewApiKeys
  <1>2. NewApiKeys(v)[key] = CHOOSE o \in DOMAIN Files[v].users : key \in KeysOf(v, o)
    BY DEF NewApiKeys
  <1> QED BY <1>1, <1>2

LEMMA FunctionsHold == Spec => []Functions
  <1>1. Init => Functions
    BY DEF Init, Functions
  <1>2. Functions /\ [Next]_vars => Functions'
    <2> SUFFICES ASSUME Functions, [Next]_vars PROVE Functions'
      OBVIOUS
    <2> USE DEF server, composer, repo, serving, building, Functions
    <2>1. CASE UNCHANGED vars \/ InstallInRepo \/ InstallInComposer \/ InstallInAuth \/ AllOver
      BY <2>1 DEF vars, InstallInRepo, InstallInComposer, UpdateComposer, InstallInAuth, UpdateAuth, AllOver
    <2>2. ASSUME NEW r \in Requests, Arrive(r) \/ Decide(r) \/ Attempt(r) PROVE Functions'
      BY <2>2 DEF Arrive, Decide, Attempt, Succeed, Fail
    <2>3. ASSUME NEW r \in Requests, GetEngine(r) PROVE Functions'
      BY <2>3 DEF GetEngine, Hit, Refuse, Permit, ReadNames, Look, Lock, Store, BuildFails, Take, Skip
    <2> QED BY <2>1, <2>2, <2>3 DEF Next
  <1> QED BY <1>1, <1>2, PTL DEF Spec

LEMMA AccessInvInit == Init => AccessInv
  <1> SUFFICES ASSUME Init PROVE AccessInv
    OBVIOUS
  <1>1. /\ apiKeys = NewApiKeys(1) /\ authAt = 1 /\ cache = Nothing
        /\ \A r \in Requests : pc[r] = "new"
    BY DEF Init
  <1>2. \A key \in DOMAIN apiKeys : KeyGiven(key, apiKeys[key])
    BY <1>1, OwnersHaveTheirKeys DEF KeyGiven
  <1> QED BY <1>1, <1>2 DEF AccessInv, Nothing, Outside

LEMMA AccessInvNext == Functions /\ RepoInv /\ AccessInv /\ [Next]_vars => AccessInv'
  <1> SUFFICES ASSUME Functions, RepoInv, AccessInv, [Next]_vars PROVE AccessInv'
    OBVIOUS
  <1> USE DEF Functions, Outside
  <1>1. CASE Elsewhere
    <2>1. /\ authAt \in Nat /\ authAt' \in Nat /\ conf \in Nat /\ conf' \in Nat
          /\ authAt <= authAt' /\ conf <= conf' /\ 1 <= authAt'
      BY <1>1 DEF Elsewhere, UpdateAuth, RepoInv, Installed
    <2>2. \A o, m : ModelGiven(o, m) => ModelGiven(o, m)'
      BY <2>1 DEF ModelGiven
    <2>3. \A key, o : KeyGiven(key, o) => KeyGiven(key, o)'
      BY <2>1 DEF KeyGiven
    <2>4. ASSUME NEW key \in DOMAIN apiKeys' PROVE KeyGiven(key, apiKeys[key])'
      <3>1. CASE apiKeys' = apiKeys
        BY <3>1, <2>3 DEF AccessInv
      <3>2. CASE apiKeys' = NewApiKeys(conf) /\ authAt' = conf
        <4>1. conf \in 1 .. authAt'
          BY <3>2, <2>1
        <4>2. /\ apiKeys'[key] \in DOMAIN Files[conf].users
              /\ key \in KeysOf(conf, apiKeys'[key])
          BY <3>2, OwnersHaveTheirKeys
        <4> QED BY <4>1, <4>2 DEF KeyGiven
      <3> QED BY <1>1, <3>1, <3>2 DEF Elsewhere, UpdateAuth
    <2> QED BY <1>1, <2>2, <2>3, <2>4 DEF Elsewhere, AccessInv, Model
  <1>2. ASSUME NEW r \in Requests, Comes(r) PROVE AccessInv'
    <2>1. /\ \A s \in Requests \ {r} : pc'[s] = pc[s] /\ asks'[s] = asks[s] /\ org'[s] = org[s]
          /\ pc'[r] = "asked" /\ org'[r] = Authenticated(asks'[r].key)
          /\ UNCHANGED <<cache, conf, authAt, apiKeys>>
      BY <1>2 DEF Comes
    <2>2. \A o, m : ModelGiven(o, m)' = ModelGiven(o, m)
      BY <2>1 DEF ModelGiven
    <2>3. \A key, o : KeyGiven(key, o)' = KeyGiven(key, o)
      BY <2>1 DEF KeyGiven
    <2>4. org'[r] # NoOrg => KeyGiven(asks'[r].key, org'[r])
      BY <2>1 DEF Authenticated, AccessInv
    <2>5. \A s \in Requests : pc'[s] # "new" /\ org'[s] # NoOrg => KeyGiven(asks'[s].key, org'[s])
      BY <2>1, <2>4 DEF AccessInv
    <2>6. \A s \in Requests : pc'[s] \notin Outside => ModelGiven(org'[s], asks'[s].model)
      BY <2>1 DEF AccessInv, Model
    <2> QED BY <2>1, <2>2, <2>3, <2>5, <2>6 DEF AccessInv, Model
  <1>3. ASSUME NEW r \in Requests, LetIn(r) \/ Inside(r) PROVE AccessInv'
    <2>1. /\ \A s \in Requests \ {r} : pc'[s] = pc[s]
          /\ pc[r] # "new"
          /\ UNCHANGED <<asks, org, conf, authAt, apiKeys>>
      BY <1>3 DEF LetIn, Inside
    <2>2. \A o, m : ModelGiven(o, m)' = ModelGiven(o, m)
      BY <2>1 DEF ModelGiven
    <2>3. \A key, o : KeyGiven(key, o)' = KeyGiven(key, o)
      BY <2>1 DEF KeyGiven
    <2>4. conf \in 1 .. conf
      BY DEF RepoInv, Installed
    <2>5. pc'[r] = "refused" \/ ModelGiven(org[r], Model(r))
      <3>1. CASE Inside(r)
        BY <3>1 DEF Inside, AccessInv
      <3>2. CASE LetIn(r)
        BY <3>2, <2>4 DEF LetIn, AccessInv, CacheKey, ModelGiven
      <3> QED BY <1>3, <3>1, <3>2
    <2>6. \A c \in DOMAIN cache' : ModelGiven(c[1], c[2])
      BY <1>3, <2>5 DEF LetIn, Inside, AccessInv, CacheKey
    <2>7. \A s \in Requests : pc'[s] \notin Outside => ModelGiven(org[s], Model(s))
      BY <2>1, <2>5 DEF AccessInv
    <2>8. \A s \in Requests : pc'[s] # "new" /\ org[s] # NoOrg => KeyGiven(asks[s].key, org[s])
      BY <2>1 DEF AccessInv
    <2> QED BY <2>1, <2>2, <2>3, <2>6, <2>7, <2>8 DEF AccessInv, Model
  <1> QED BY <1>1, <1>2, <1>3, StepOfAccess

\* Whoever is served had a key of its organisation and the organisation the
\* model, also by an engine from the cache (getEngine, Handle, and the
\* updates between their steps).
THEOREM AccessIsChecked == Spec => []ServedWasAllowed
  <1>1. AccessInv => ServedWasAllowed
    <2> SUFFICES ASSUME AccessInv, NEW r \in Requests, pc[r] \notin Outside
                 PROVE  /\ \E v \in 1 .. conf : Allowed(v, org[r], Model(r))
                        /\ org[r] # NoOrg => \E v \in 1 .. authAt :
                              /\ org[r] \in DOMAIN Files[v].users
                              /\ asks[r].key \in KeysOf(v, org[r])
      BY DEF ServedWasAllowed, Outside
    <2>1. ModelGiven(org[r], Model(r))
      BY DEF AccessInv
    <2>2. org[r] # NoOrg => KeyGiven(asks[r].key, org[r])
      BY DEF AccessInv, Outside
    <2> QED BY <2>1, <2>2 DEF ModelGiven, KeyGiven
  <1>2. Functions /\ RepoInv /\ AccessInv /\ [Next]_vars => AccessInv'
    BY AccessInvNext
  <1> QED BY <1>1, <1>2, AccessInvInit, FunctionsHold, RepoInvariant, PTL DEF Spec

-----------------------------------------------------------------------------
(* Builds.                                                                 *)

\* The names a section is built of.
Names(r, i) == IF i = 0 THEN DefaultNames ELSE DOMAIN Forwards(r, i)

UnderWay == {"building", "locking"}

\* Each name of a section is still to be got, or was got, or cannot be: as
\* long as the configuration of the repository is the one it began with.
Building(r) ==
    /\ since[r] \in Nat /\ since[r] <= repoAt
    /\ DOMAIN todo[r] = Sections(r) /\ DOMAIN got[r] = Sections(r)
    /\ \A i \in Sections(r) : todo[r][i] \subseteq Names(r, i) /\ DOMAIN got[r][i] \subseteq Names(r, i)
    /\ pc[r] = "locking" => want[r][1] \in Sections(r) /\ want[r][2] \in todo[r][want[r][1]]
    /\ since[r] = repoAt =>
          \A i \in Sections(r) : DOMAIN got[r][i] = Usable(Model(r), Names(r, i)) \ todo[r][i]

BuildInv == \A r \in Requests : pc[r] \in UnderWay => Building(r)

\* The request is at the same place of the same build.
SameBuild(r) ==
    /\ seen'[r] = seen[r] /\ org'[r] = org[r] /\ asks'[r] = asks[r] /\ since'[r] = since[r]

LEMMA SameNames ==
  ASSUME NEW r, SameBuild(r)
  PROVE  /\ Sections(r)' = Sections(r)
         /\ Model(r)' = Model(r)
         /\ \A i : Names(r, i)' = Names(r, i)
  <1>1. Rules(r)' = Rules(r) /\ Model(r)' = Model(r)
    BY DEF SameBuild, Rules, Model
  <1> QED BY <1>1 DEF Sections, Names, Forwards

LEMMA SameUsable ==
  ASSUME installed' = installed PROVE \A m, names : Usable(m, names)' = Usable(m, names)
  BY DEF Usable, CanMake

\* A step of somebody else, in the repository or not.
LEMMA OthersKeepBuild ==
  ASSUME NEW r, Building(r), Installed, SameBuild(r),
         pc'[r] = pc[r], todo'[r] = todo[r], got'[r] = got[r], want'[r] = want[r],
         (installed' = installed /\ repoAt' = repoAt) \/ repoAt' = repoAt + 1
  PROVE  Building(r)'
  <1>1. /\ Sections(r)' = Sections(r) /\ Model(r)' = Model(r)
        /\ \A i : Names(r, i)' = Names(r, i)
    BY SameNames
  <1>2. /\ since'[r] = since[r] /\ since[r] \in Nat /\ since[r] <= repoAt
        /\ repoAt \in Nat
    BY DEF SameBuild, Building, Installed
  <1>3. CASE repoAt' = repoAt + 1
    <2>1. since'[r] \in Nat /\ since'[r] <= repoAt' /\ since'[r] # repoAt'
      BY <1>2, <1>3
    <2> QED BY <1>1, <2>1 DEF Building
  <1>4. CASE installed' = installed /\ repoAt' = repoAt
    <2>1. \A m, names : Usable(m, names)' = Usable(m, names)
      BY <1>4, SameUsable
    <2>2. \A i : Usable(Model(r), Names(r, i))' = Usable(Model(r), Names(r, i))
      BY <1>1, <2>1
    <2> QED BY <1>1, <1>2, <1>4, <2>2 DEF Building
  <1> QED BY <1>3, <1>4

\* Of one section, a name that can be made is got, another one is skipped.
LEMMA NameDone ==
  ASSUME NEW r \in Requests, NEW i \in Sections(r), NEW n \in todo[r][i],
         Functions, Building(r), SameBuild(r), installed' = installed, repoAt' = repoAt,
         pc'[r] = "building",
         todo' = [todo EXCEPT ![r][i] = @ \ {n}],
         \/ \E x : got' = [got EXCEPT ![r][i] = With(@, n, x)] /\ CanMake(<<Model(r), n>>)
         \/ UNCHANGED got /\ ~CanMake(<<Model(r), n>>)
  PROVE  Building(r)'
  <1>1. /\ Sections(r)' = Sections(r) /\ Model(r)' = Model(r)
        /\ \A j : Names(r, j)' = Names(r, j)
    BY SameNames
  <1>2. \A m, names : Usable(m, names)' = Usable(m, names)
    BY SameUsable
  <1>3. /\ DOMAIN todo[r] = Sections(r) /\ DOMAIN got[r] = Sections(r)
        /\ r \in DOMAIN todo /\ r \in DOMAIN got
    BY DEF Building, Functions
  <1>4. /\ DOMAIN todo'[r] = Sections(r)
        /\ todo'[r][i] = todo[r][i] \ {n}
        /\ \A j \in Sections(r) \ {i} : todo'[r][j] = todo[r][j]
    BY <1>3
  <1>5. /\ DOMAIN got'[r] = Sections(r)
        /\ \A j \in Sections(r) \ {i} : got'[r][j] = got[r][j]
        /\ DOMAIN got'[r][i] = DOMAIN got[r][i] \cup (IF CanMake(<<Model(r), n>>) THEN {n} ELSE {})
    BY <1>3 DEF With
  <1>6. /\ n \in Names(r, i)
        /\ \A j \in Sections(r) : todo'[r][j] \subseteq Names(r, j) /\ DOMAIN got'[r][j] \subseteq Names(r, j)
    BY <1>4, <1>5 DEF Building
  <1>7. n \in Usable(Model(r), Names(r, i)) <=> CanMake(<<Model(r), n>>)
    BY <1>6 DEF Usable
  <1>8. ASSUME since[r] = repoAt
        PROVE  \A j \in Sections(r) : DOMAIN got'[r][j] = Usable(Model(r), Names(r, j)) \ todo'[r][j]
    <2>1. \A j \in Sections(r) : DOMAIN got[r][j] = Usable(Model(r), Names(r, j)) \ todo[r][j]
      BY <1>8 DEF Building
    <2>2. DOMAIN got'[r][i] = Usable(Model(r), Names(r, i)) \ todo'[r][i]
      BY <2>1, <1>4, <1>5, <1>7
    <2> QED BY <2>1, <2>2, <1>4, <1>5
  <1>9. \A j : Usable(Model(r), Names(r, j))' = Usable(Model(r), Names(r, j))
    BY <1>1, <1>2
  <1> QED BY <1>1, <1>4, <1>5, <1>6, <1>8, <1>9 DEF Building, SameBuild

LEMMA LookKeepsBuild ==
  ASSUME NEW r \in Requests, Functions, RepoInv, BuildInv, Look(r), UNCHANGED server
  PROVE  Building(r)'
  <1>1. /\ SameBuild(r) /\ installed' = installed /\ repoAt' = repoAt
        /\ pc[r] = "building" /\ Building(r) /\ Installed
    BY DEF Look, SameBuild, repo, server, BuildInv, UnderWay, RepoInv
  <1>2. PICK i \in Sections(r) : \E n \in todo[r][i] :
          \/ Known(<<Model(r), n>>) /\ Take(r, i, n) /\ UNCHANGED <<pc, want>>
          \/ /\ want' = [want EXCEPT ![r] = <<i, n>>]
             /\ pc' = [pc EXCEPT ![r] = "locking"]
             /\ UNCHANGED <<todo, got>>
    BY DEF Look
  <1> SUFFICES
        ASSUME NEW n \in todo[r][i],
               \/ Known(<<Model(r), n>>) /\ Take(r, i, n) /\ UNCHANGED <<pc, want>>
               \/ /\ want' = [want EXCEPT ![r] = <<i, n>>]
                  /\ pc' = [pc EXCEPT ![r] = "locking"]
                  /\ UNCHANGED <<todo, got>>
        PROVE  Building(r)'
    BY <1>2
  <1>3. CASE Known(<<Model(r), n>>) /\ Take(r, i, n) /\ UNCHANGED <<pc, want>>
    <2>1. CanMake(<<Model(r), n>>)
      BY <1>3 DEF RepoInv, EnginesMade, Known
    <2> QED BY <1>1, <1>3, <2>1, NameDone DEF Take
  <1>4. CASE /\ want' = [want EXCEPT ![r] = <<i, n>>]
             /\ pc' = [pc EXCEPT ![r] = "locking"]
             /\ UNCHANGED <<todo, got>>
    <2>1. want'[r] = <<i, n>>
      BY <1>4 DEF Functions
    <2>2. /\ Sections(r)' = Sections(r) /\ Model(r)' = Model(r)
          /\ \A j : Names(r, j)' = Names(r, j)
      BY <1>1, SameNames
    <2>3. \A j : Usable(Model(r), Names(r, j))' = Usable(Model(r), Names(r, j))
      BY <1>1, <2>2, SameUsable
    <2> QED BY <1>1, <1>4, <2>1, <2>2, <2>3 DEF Building, SameBuild
  <1> QED BY <1>3, <1>4

LEMMA LockKeepsBuild ==
  ASSUME NEW r \in Requests, Functions, RepoInv, BuildInv, Lock(r), UNCHANGED server
  PROVE  Building(r)'
  <1> DEFINE i == want[r][1]
             n == want[r][2]
             k == <<Model(r), n>>
  <1>1. /\ SameBuild(r) /\ repoAt' = repoAt /\ pc[r] = "locking" /\ Building(r)
        /\ pc' = [pc EXCEPT ![r] = "building"]
    BY DEF Lock, SameBuild, server, BuildInv, UnderWay
  <1>2. pc'[r] = "building" /\ i \in Sections(r) /\ n \in todo[r][i]
    BY <1>1 DEF Functions, Building
  <1>3. CASE Known(k) /\ Take(r, i, n) /\ UNCHANGED repo
    <2>1. CanMake(k) /\ installed' = installed
      BY <1>3 DEF RepoInv, EnginesMade, Known, repo
    <2>2. /\ todo' = [todo EXCEPT ![r][i] = @ \ {n}]
          /\ \E x : got' = [got EXCEPT ![r][i] = With(@, n, x)]
      BY <1>3 DEF Take
    <2> HIDE DEF i, n
    <2> QED BY <1>1, <1>2, <2>1, <2>2, NameDone
  <1>4. CASE /\ MakeEngine(k)
             /\ got' = [got EXCEPT ![r][i] = With(@, n, engines'[k])]
             /\ todo' = [todo EXCEPT ![r][i] = @ \ {n}]
    <2>1. CanMake(k) /\ installed' = installed
      BY <1>4 DEF MakeEngine
    <2>2. \E x : got' = [got EXCEPT ![r][i] = With(@, n, x)]
      BY <1>4
    <2> HIDE DEF i, n
    <2> QED BY <1>1, <1>2, <1>4, <2>1, <2>2, NameDone
  <1>5. CASE CannotMake(k) /\ Skip(r, i, n)
    <2>1. ~CanMake(k) /\ installed' = installed
      BY <1>5 DEF CannotMake, repo
    <2>2. todo' = [todo EXCEPT ![r][i] = @ \ {n}] /\ UNCHANGED got
      BY <1>5 DEF Skip
    <2> HIDE DEF i, n
    <2> QED BY <1>1, <1>2, <2>1, <2>2, NameDone
  <1> QED BY <1>3, <1>4, <1>5 DEF Lock

LEMMA ReadNamesBeginsBuild ==
  ASSUME NEW r \in Requests, Functions, RepoInv, ReadNames(r, repoAt), UNCHANGED <<repo, server>>
  PROVE  Building(r)'
  <1>1. /\ seen' = seen /\ org' = org /\ asks' = asks /\ repoAt' = repoAt /\ installed' = installed
        /\ pc'[r] = "building" /\ since'[r] = repoAt
        /\ todo'[r] = [i \in Sections(r) |-> IF i = 0 THEN BackendNames(Model(r)) \cap DefaultNames
                                             ELSE DOMAIN Forwards(r, i)]
        /\ got'[r] = [i \in Sections(r) |-> Nothing]
    BY DEF ReadNames, Functions, repo, server
  <1>2. /\ Rules(r)' = Rules(r) /\ Model(r)' = Model(r)
    BY <1>1 DEF Rules, Model
  <1>3. /\ Sections(r)' = Sections(r)
        /\ \A i : Names(r, i)' = Names(r, i)
    BY <1>2 DEF Sections, Names, Forwards
  <1>4. \A i \in Sections(r) : todo'[r][i] \subseteq Names(r, i) /\ DOMAIN got'[r][i] = {}
    BY <1>1 DEF Names, Nothing
  <1>5. \A i \in Sections(r) : Usable(Model(r), Names(r, i)) \subseteq todo'[r][i]
    <2>1. \A n : CanMake(<<Model(r), n>>) => n \in BackendNames(Model(r))
      BY DEF CanMake, BackendNames
    <2> QED BY <1>1, <2>1 DEF Usable, Names
  <1>6. \A i : Usable(Model(r), Names(r, i))' = Usable(Model(r), Names(r, i))
    BY <1>1, <1>2, <1>3, SameUsable
  <1>7. repoAt \in Nat
    BY DEF RepoInv, Installed
  <1>8. DOMAIN todo'[r] = Sections(r) /\ DOMAIN got'[r] = Sections(r)
    BY <1>1
  <1>9. \A i \in Sections(r) : DOMAIN got'[r][i] = Usable(Model(r), Names(r, i)) \ todo'[r][i]
    BY <1>4, <1>5
  <1>10. \A i \in Sections(r)' : DOMAIN got'[r][i] = (Usable(Model(r), Names(r, i)) \ todo[r][i])'
    BY <1>3, <1>6, <1>9
  <1>11. \A i \in Sections(r)' : (todo[r][i] \subseteq Names(r, i) /\ DOMAIN got[r][i] \subseteq Names(r, i))'
    BY <1>3, <1>4
  <1>12. (since[r] \in Nat /\ since[r] <= repoAt)'
    BY <1>1, <1>7
  <1>13. (DOMAIN todo[r] = Sections(r) /\ DOMAIN got[r] = Sections(r))'
    BY <1>3, <1>8
  <1>14. pc'[r] # "locking"
    BY <1>1
  <1> QED BY <1>10, <1>11, <1>12, <1>13, <1>14 DEF Building

LEMMA BuildInvNext == Functions /\ RepoInv /\ BuildInv /\ [Next]_vars => BuildInv'
  <1> SUFFICES ASSUME Functions, RepoInv, BuildInv, [Next]_vars,
                      NEW r \in Requests, pc'[r] \in UnderWay
               PROVE  Building(r)'
    BY DEF BuildInv
  <1> DEFINE Same == /\ pc'[r] = pc[r] /\ SameBuild(r)
                     /\ todo'[r] = todo[r] /\ got'[r] = got[r] /\ want'[r] = want[r]
  <1>1. CASE GetEngine(r) /\ (Look(r) \/ Lock(r) \/ ReadNames(r, repoAt))
    <2>1. UNCHANGED server
      BY <1>1 DEF GetEngine
    <2>2. CASE ReadNames(r, repoAt) /\ UNCHANGED repo
      BY <2>1, <2>2, ReadNamesBeginsBuild
    <2>3. CASE Look(r)
      BY <2>1, <2>3, LookKeepsBuild
    <2>4. CASE Lock(r)
      BY <2>1, <2>4, LockKeepsBuild
    <2>5. ReadNames(r, repoAt) => Look(r) \/ Lock(r) \/ UNCHANGED repo
      BY <1>1 DEF GetEngine, ReadNames, Hit, Refuse, Permit, Store, BuildFails, Look, Lock
    <2> QED BY <1>1, <2>2, <2>3, <2>4, <2>5
  <1>2. ASSUME ~(GetEngine(r) /\ (Look(r) \/ Lock(r) \/ ReadNames(r, repoAt))) PROVE Same
    <2> USE DEF composer, serving, building, SameBuild, Functions, UnderWay
    <2>1. CASE UNCHANGED vars \/ InstallInRepo \/ InstallInComposer \/ InstallInAuth \/ AllOver
      BY <2>1 DEF vars, InstallInRepo, InstallInComposer, UpdateComposer, InstallInAuth, UpdateAuth, AllOver
    <2>2. ASSUME NEW s \in Requests, Arrive(s) PROVE Same
      BY <2>2 DEF Arrive
    <2>3. ASSUME NEW s \in Requests, Decide(s) PROVE Same
      BY <2>3 DEF Decide
    <2>4. ASSUME NEW s \in Requests, Attempt(s) PROVE Same
      BY <2>4 DEF Attempt, Succeed, Fail
    <2>5. ASSUME NEW s \in Requests \ {r}, GetEngine(s) PROVE Same
      BY <2>5 DEF GetEngine, Hit, Refuse, Permit, ReadNames, Look, Lock, Store, BuildFails, Take, Skip
    <2>6. CASE GetEngine(r)
      <3>1. Hit(r) \/ Refuse(r) \/ Permit(r) \/ Store(r) \/ BuildFails(r)
        BY <1>2, <2>6 DEF GetEngine
      <3>2. pc'[r] \notin UnderWay
        BY <3>1 DEF Hit, Refuse, Permit, Store, BuildFails
      <3> QED BY <3>2
    <2> QED BY <2>1, <2>2, <2>3, <2>4, <2>5, <2>6 DEF Next
  <1>3. CASE Same
    <2>1. Building(r) /\ Installed
      BY <1>3 DEF BuildInv, RepoInv
    <2>2. (installed' = installed /\ repoAt' = repoAt) \/ repoAt' = repoAt + 1
      BY StepOfRepo DEF Rests, Updates, Makes
    <2> QED BY <1>3, <2>1, <2>2, OthersKeepBuild
  <1> QED BY <1>1, <1>2, <1>3

\* A build that no update falls into misses no backend that can be made,
\* whoever else looks it up, makes it or builds meanwhile (getEngine, and
\* both lookups of GetEngine).
THEOREM QuietBuildsAreWhole == Spec => []QuietBuildIsWhole
  <1>1. Init => BuildInv
    BY DEF Init, BuildInv, UnderWay
  <1>2. BuildInv => QuietBuildIsWhole
    BY DEF BuildInv, UnderWay, Building, Names, QuietBuildIsWhole
  <1>3. Functions /\ RepoInv /\ BuildInv /\ [Next]_vars => BuildInv'
    BY BuildInvNext
  <1> QED BY <1>1, <1>2, <1>3, FunctionsHold, RepoInvariant, PTL DEF Spec

-----------------------------------------------------------------------------
(* Rules.                                                                  *)

\* The engine was made of the rules of v.
MadeOf(e, v, o, m) ==
    LET rules == FinalRules(v, o, m)
    IN  /\ DOMAIN e.rules = 1 .. Len(rules)
        /\ DOMAIN e.base \subseteq DefaultNames
        /\ \A i \in 1 .. Len(rules) :
              /\ e.rules[i].match = rules[i].match
              /\ e.rules[i].deny = rules[i].deny
              /\ rules[i].deny \/ DOMAIN e.rules[i].items \subseteq DOMAIN rules[i].forward_weights
EngineGiven(e, o, m) == \E v \in 1 .. conf : Allowed(v, o, m) /\ MadeOf(e, v, o, m)

Early == {"new", "asked", "refused", "permitted", "building", "locking"}
Decided == {"denied", "crashed", "trying", "failed", "answered"}

\* The engine of a request is of its own model and organisation, whoever
\* built it; its rule is the first that matches, and what was tried is what
\* this rule leads to.
ByRules(r) ==
    /\ pc[r] \in Early => engine[r] = Nil
    /\ pc[r] \in Early \cup {"serving"} => tried[r] = {}
    /\ pc[r] \in {"permitted", "building", "locking"} =>
          seen[r] \in 1 .. conf /\ Allowed(seen[r], org[r], Model(r))
    /\ pc[r] \notin Early /\ engine[r] # Nil => EngineGiven(engine[r], org[r], Model(r))
    /\ pc[r] \in Decided /\ engine[r] # Nil =>
          /\ FirstMatch(engine[r], asks[r], rule[r])
          /\ pc[r] = "denied" <=> Denies(engine[r], rule[r])
          /\ tried[r] \subseteq DOMAIN Items(engine[r], rule[r])

RulesInv ==
    /\ \A c \in DOMAIN cache : EngineGiven(cache[c], c[1], c[2])
    /\ \A r \in Requests : ByRules(r)

LEMMA ListsAreSequences ==
  ASSUME NEW s, IsList(s)
  PROVE  /\ Len(s) \in Nat /\ DOMAIN s = 1 .. Len(s)
         /\ \E S : s \in Seq(S)
  BY DEF IsList

LEMMA RulesAreAList ==
  ASSUME NEW v \in 1 .. Len(Files), NEW o, NEW m \in DOMAIN Files[v].models
  PROVE  Len(FinalRules(v, o, m)) \in Nat
  <1> DEFINE defaults == Files[v].models[m].default_rules
             own == Files[v].users[o].models[m]
  <1>1. Len(defaults) \in Nat /\ \E S : defaults \in Seq(S)
    BY RulesAssumption, ListsAreSequences
  <1>2. CASE HasOrgConf(v, o, m)
    <2>1. Len(own) \in Nat /\ \E S : own \in Seq(S)
      BY <1>2, RulesAssumption, ListsAreSequences DEF HasOrgConf
    <2> HIDE DEF own, defaults
    <2>2. Len(own \o defaults) \in Nat
      <3>1. PICK S, T : own \in Seq(S) /\ defaults \in Seq(T)
        BY <1>1, <2>1
      <3>2. own \in Seq(S \cup T) /\ defaults \in Seq(S \cup T)
        BY <3>1
      <3> QED BY <3>2
    <2> QED BY <1>2, <2>2 DEF FinalRules, own, defaults
  <1>3. CASE ~HasOrgConf(v, o, m)
    BY <1>1, <1>3 DEF FinalRules
  <1> QED BY <1>2, <1>3

\* What a finished build makes of the rules.
LEMMA BuiltOfItsRules ==
  ASSUME NEW r \in Requests, Installed, Building(r), ByRules(r), pc[r] = "building"
  PROVE  EngineGiven(RuleEngine(r), org[r], Model(r))
  <1> DEFINE v == seen[r]
             n == Len(Rules(r))
  <1>1. v \in 1 .. conf /\ v \in 1 .. Len(Files) /\ Allowed(v, org[r], Model(r))
    BY DEF ByRules, Installed
  <1>2. n \in Nat
    BY <1>1, RulesAreAList DEF Rules, Allowed
  <1>3. 0 \in Sections(r) /\ \A i \in 1 .. n : i \in Sections(r) /\ i # 0
    BY <1>2 DEF Sections
  <1>4. /\ DOMAIN got[r][0] \subseteq DefaultNames
        /\ \A i \in 1 .. n : DOMAIN got[r][i] \subseteq DOMAIN Forwards(r, i)
    BY <1>3 DEF Building, Names
  <1>5. /\ DOMAIN RuleEngine(r).rules = 1 .. n
        /\ RuleEngine(r).base = got[r][0]
        /\ \A i \in 1 .. n : /\ RuleEngine(r).rules[i].match = Rules(r)[i].match
                             /\ RuleEngine(r).rules[i].deny = Rules(r)[i].deny
                             /\ RuleEngine(r).rules[i].items = got[r][i]
    BY DEF RuleEngine
  <1>6. MadeOf(RuleEngine(r), v, org[r], Model(r))
    BY <1>4, <1>5 DEF MadeOf, Rules, Forwards
  <1> QED BY <1>1, <1>6 DEF EngineGiven

LEMMA EnginesStayGiven ==
  ASSUME Installed, [Next]_vars
  PROVE  /\ conf \in Nat /\ conf' \in Nat /\ conf <= conf'
         /\ \A e, o, m : EngineGiven(e, o, m) => EngineGiven(e, o, m)'
  <1>1. conf \in Nat /\ conf' \in Nat /\ conf <= conf'
    <2>1. Rests \/ Updates \/ \E k : Makes(k)
      BY StepOfRepo
    <2>2. conf' = conf \/ (conf < repoAt /\ conf' = repoAt)
      BY <2>1 DEF Rests, Updates, Makes
    <2> QED BY <2>2 DEF Installed
  <1>2. \A v \in 1 .. conf : v \in 1 .. conf'
    BY <1>1
  <1> QED BY <1>1, <1>2 DEF EngineGiven

\* A step of somebody else.
LEMMA OthersKeepRules ==
  ASSUME NEW r, ByRules(r), Installed, [Next]_vars,
         pc'[r] = pc[r], engine'[r] = engine[r], asks'[r] = asks[r], org'[r] = org[r],
         seen'[r] = seen[r], rule'[r] = rule[r], tried'[r] = tried[r]
  PROVE  ByRules(r)'
  <1>1. /\ conf \in Nat /\ conf' \in Nat /\ conf <= conf'
        /\ \A e, o, m : EngineGiven(e, o, m) => EngineGiven(e, o, m)'
    BY EnginesStayGiven
  <1>2. Model(r)' = Model(r)
    BY DEF Model
  <1>3. seen[r] \in 1 .. conf => seen[r] \in 1 .. conf'
    BY <1>1
  <1> QED BY <1>1, <1>2, <1>3 DEF ByRules

\* Up to an engine.
LEMMA GettingKeepsRules ==
  ASSUME NEW r \in Requests, Functions, RepoInv, BuildInv, RulesInv, GetEngine(r)
  PROVE  ByRules(r)'
  <1> USE DEF Functions, server, serving, building
  <1>1. /\ Model(r)' = Model(r) /\ asks' = asks /\ org' = org /\ conf' = conf
        /\ rule' = rule /\ tried' = tried
        /\ ByRules(r) /\ Installed
    BY DEF GetEngine, Hit, Refuse, Permit, ReadNames, Look, Lock, Store, BuildFails, Model, RulesInv, RepoInv
  <1>2. \A e, o, m : EngineGiven(e, o, m)' = EngineGiven(e, o, m)
    BY <1>1 DEF EngineGiven
  <1>3. CASE Hit(r)
    <2>1. EngineGiven(engine'[r], org[r], Model(r)) /\ pc'[r] = "serving" /\ pc[r] = "asked"
      BY <1>3 DEF Hit, RulesInv, CacheKey
    <2> QED BY <1>1, <1>2, <2>1 DEF ByRules, Early, Decided
  <1>4. CASE Refuse(r)
    <2>1. pc'[r] = "refused" /\ pc[r] = "asked" /\ engine' = engine
      BY <1>4 DEF Refuse
    <2> QED BY <1>1, <2>1 DEF ByRules, Early, Decided
  <1>5. CASE Permit(r)
    <2>1. /\ pc'[r] = "permitted" /\ pc[r] = "asked" /\ engine' = engine
          /\ seen'[r] = conf /\ Allowed(conf, org[r], Model(r))
      BY <1>5 DEF Permit
    <2>2. conf \in 1 .. conf
      BY <1>1 DEF Installed
    <2> QED BY <1>1, <2>1, <2>2 DEF ByRules, Early, Decided
  <1>6. CASE ReadNames(r, repoAt) \/ Look(r) \/ Lock(r)
    <2>1. /\ pc'[r] \in {"building", "locking"} /\ pc[r] \in {"permitted", "building", "locking"}
          /\ engine' = engine /\ seen' = seen
      BY <1>6 DEF ReadNames, Look, Lock
    <2> QED BY <1>1, <2>1 DEF ByRules, Early, Decided
  <1>7. CASE BuildFails(r)
    <2>1. pc'[r] = "failed" /\ pc[r] = "building" /\ engine' = engine
      BY <1>7 DEF BuildFails
    <2>2. engine'[r] = Nil
      BY <1>1, <2>1 DEF ByRules, Early
    <2> QED BY <1>1, <2>1, <2>2 DEF ByRules, Early, Decided
  <1>8. CASE Store(r)
    <2>1. /\ pc'[r] = "serving" /\ pc[r] = "building"
          /\ engine'[r] = RuleEngine(r)
      BY <1>8 DEF Store
    <2>2. EngineGiven(engine'[r], org[r], Model(r))
      BY <1>1, <2>1, BuiltOfItsRules DEF BuildInv, UnderWay
    <2> QED BY <1>1, <1>2, <2>1, <2>2 DEF ByRules, Early, Decided
  <1> QED BY <1>3, <1>4, <1>5, <1>6, <1>7, <1>8 DEF GetEngine

\* With one.
LEMMA ServingKeepsRules ==
  ASSUME NEW r \in Requests, Functions, RulesInv, Decide(r) \/ Attempt(r)
  PROVE  ByRules(r)'
  <1> USE DEF Functions, server, building
  <1>1. /\ Model(r)' = Model(r) /\ asks' = asks /\ org' = org /\ conf' = conf
        /\ engine' = engine /\ ByRules(r)
        /\ pc[r] \in {"serving", "trying"}
    BY DEF Decide, Attempt, Model, RulesInv
  <1>2. \A e, o, m : EngineGiven(e, o, m)' = EngineGiven(e, o, m)
    BY <1>1 DEF EngineGiven
  <1>3. CASE Decide(r)
    <2>1. /\ FirstMatch(engine[r], asks[r], rule'[r]) /\ tried' = tried /\ pc[r] = "serving"
          /\ pc'[r] \in {"denied", "crashed", "trying"}
          /\ pc'[r] = "denied" <=> Denies(engine[r], rule'[r])
      BY <1>3 DEF Decide
    <2>2. tried[r] = {}
      BY <1>1, <2>1 DEF ByRules
    <2> QED BY <1>1, <1>2, <2>1, <2>2 DEF ByRules, Early, Decided
  <1>4. CASE Attempt(r)
    <2>1. /\ pc[r] = "trying" /\ rule' = rule
          /\ pc'[r] \in {"trying", "answered", "failed"}
          /\ \E n \in DOMAIN Items(engine[r], rule[r]) : tried'[r] = tried[r] \cup {n}
      BY <1>4 DEF Attempt, Succeed, Fail, Pickable
    <2> QED BY <1>1, <1>2, <2>1 DEF ByRules, Early, Decided
  <1> QED BY <1>3, <1>4

LEMMA RulesInvNext == Functions /\ RepoInv /\ BuildInv /\ RulesInv /\ [Next]_vars => RulesInv'
  <1> SUFFICES ASSUME Functions, RepoInv, BuildInv, RulesInv, [Next]_vars PROVE RulesInv'
    OBVIOUS
  <1>1. Installed /\ \A r \in Requests : ByRules(r)
    BY DEF RepoInv, RulesInv
  <1>2. \A e, o, m : EngineGiven(e, o, m) => EngineGiven(e, o, m)'
    BY <1>1, EnginesStayGiven
  <1>3. ASSUME NEW c \in DOMAIN cache' PROVE EngineGiven(cache[c], c[1], c[2])'
    <2>1. CASE cache' = cache
      BY <1>2, <2>1 DEF RulesInv
    <2>2. ASSUME NEW r \in Requests, Store(r) PROVE EngineGiven(cache[c], c[1], c[2])'
      <3>1. EngineGiven(RuleEngine(r), org[r], Model(r))
        BY <1>1, <2>2, BuiltOfItsRules DEF Store, BuildInv, UnderWay
      <3>2. CASE c = CacheKey(r)
        BY <1>2, <2>2, <3>1, <3>2 DEF Store, With, CacheKey
      <3>3. CASE c # CacheKey(r)
        <4>1. c \in DOMAIN cache /\ cache'[c] = cache[c]
          BY <2>2, <3>3 DEF Store, With
        <4> QED BY <1>2, <4>1 DEF RulesInv
      <3> QED BY <3>2, <3>3
    <2>3. cache' = cache \/ \E r \in Requests : Store(r)
      <3> USE DEF composer, serving, building
      <3>1. CASE UNCHANGED vars \/ InstallInRepo \/ InstallInComposer \/ InstallInAuth \/ AllOver
        BY <3>1 DEF vars, InstallInRepo, InstallInComposer, UpdateComposer, InstallInAuth, UpdateAuth, AllOver
      <3>2. ASSUME NEW r \in Requests, Arrive(r) \/ Decide(r) \/ Attempt(r) PROVE cache' = cache
        BY <3>2 DEF Arrive, Decide, Attempt
      <3>3. ASSUME NEW r \in Requests, GetEngine(r), ~Store(r) PROVE cache' = cache
        BY <3>3 DEF GetEngine, Hit, Refuse, Permit, ReadNames, Look, Lock, BuildFails
      <3> QED BY <3>1, <3>2, <3>3 DEF Next
    <2> QED BY <2>1, <2>2, <2>3
  <1>4. ASSUME NEW r \in Requests PROVE ByRules(r)'
    <2> DEFINE Same == /\ pc'[r] = pc[r] /\ engine'[r] = engine[r] /\ asks'[r] = asks[r]
                       /\ org'[r] = org[r] /\ seen'[r] = seen[r]
                       /\ rule'[r] = rule[r] /\ tried'[r] = tried[r]
    <2> USE DEF Functions, composer, serving, building
    <2>1. CASE Same
      BY <1>1, <2>1, OthersKeepRules
    <2>2. CASE UNCHANGED vars \/ InstallInRepo \/ InstallInComposer \/ InstallInAuth \/ AllOver
      <3>1. Same
        BY <2>2 DEF vars, InstallInRepo, InstallInComposer, UpdateComposer, InstallInAuth, UpdateAuth, AllOver
      <3> QED BY <2>1, <3>1
    <2>3. CASE GetEngine(r)
      BY <2>3, GettingKeepsRules
    <2>4. CASE Decide(r) \/ Attempt(r)
      BY <2>4, ServingKeepsRules
    <2>5. CASE Arrive(r)
      <3>1. /\ pc[r] = "new" /\ pc'[r] = "asked"
            /\ engine' = engine /\ tried' = tried
        BY <2>5 DEF Arrive
      <3>2. engine[r] = Nil /\ tried[r] = {}
        BY <1>1, <3>1 DEF ByRules, Early
      <3> QED BY <3>1, <3>2 DEF ByRules, Early, Decided
    <2>6. ASSUME NEW s \in Requests \ {r}, Arrive(s) PROVE Same
      BY <2>6 DEF Arrive
    <2>7. ASSUME NEW s \in Requests \ {r}, GetEngine(s) PROVE Same
      BY <2>7 DEF GetEngine, Hit, Refuse, Permit, ReadNames, Look, Lock, Store, BuildFails
    <2>8. ASSUME NEW s \in Requests \ {r}, Decide(s) PROVE Same
      BY <2>8 DEF Decide
    <2>9. ASSUME NEW s \in Requests \ {r}, Attempt(s) PROVE Same
      BY <2>9 DEF Attempt, Succeed, Fail
    <2> QED BY <2>1, <2>2, <2>3, <2>4, <2>5, <2>6, <2>7, <2>8, <2>9 DEF Next
  <1> QED BY <1>3, <1>4 DEF RulesInv

LEMMA PartsOfConcat ==
  ASSUME NEW S, NEW s \in Seq(S), NEW t \in Seq(S)
  PROVE  /\ Len(s \o t) = Len(s) + Len(t)
         /\ \A i \in 1 .. Len(s) : (s \o t)[i] = s[i]
         /\ \A i \in 1 .. Len(t) : (s \o t)[Len(s) + i] = t[i]
  <1>1. Len(s) \in Nat /\ Len(t) \in Nat
    OBVIOUS
  <1>2. /\ Len(s \o t) = Len(s) + Len(t)
        /\ \A i \in 1 .. Len(s) + Len(t) :
              (s \o t)[i] = IF i <= Len(s) THEN s[i] ELSE t[i - Len(s)]
    BY ConcatProperties
  <1>3. ASSUME NEW i \in 1 .. Len(s) PROVE (s \o t)[i] = s[i]
    <2>1. i \in 1 .. Len(s) + Len(t) /\ i <= Len(s)
      BY <1>1
    <2> QED BY <1>2, <2>1
  <1>4. ASSUME NEW i \in 1 .. Len(t) PROVE (s \o t)[Len(s) + i] = t[i]
    <2>1. Len(s) + i \in 1 .. Len(s) + Len(t) /\ ~(Len(s) + i <= Len(s)) /\ Len(s) + i - Len(s) = i
      BY <1>1
    <2> QED BY <1>2, <2>1
  <1> QED BY <1>2, <1>3, <1>4

LEMMA PartsOfJoint ==
  ASSUME NEW s, NEW t, IsList(s), IsList(t)
  PROVE  /\ Len(s \o t) = Len(s) + Len(t)
         /\ \A i \in 1 .. Len(s) : (s \o t)[i] = s[i]
         /\ \A i \in 1 .. Len(t) : (s \o t)[Len(s) + i] = t[i]
  <1> DEFINE U == {s[i] : i \in DOMAIN s} \cup {t[i] : i \in DOMAIN t}
  <1>1. s \in Seq({s[i] : i \in DOMAIN s}) /\ t \in Seq({t[i] : i \in DOMAIN t})
    BY DEF IsList
  <1>2. s \in Seq(U) /\ t \in Seq(U)
    BY <1>1
  <1> HIDE DEF U
  <1> QED BY <1>2, PartsOfConcat

LEMMA ZeroOffset ==
  ASSUME NEW b \in Nat PROVE 0 + b = b /\ 1 .. 0 = {} /\ \A i \in 1 .. b : 0 + i = i
  OBVIOUS

\* A rule of the joint list is one of the organisation, or one of the model
\* behind all of those.
LEMMA JointList ==
  ASSUME NEW v \in 1 .. Len(Files), NEW o, NEW m \in DOMAIN Files[v].models,
         NEW own, NEW defaults, own = OwnRules(v, o, m), defaults = DefaultRules(v, m)
  PROVE  LET rules == FinalRules(v, o, m)
         IN  /\ Len(own) \in Nat /\ DOMAIN own = 1 .. Len(own)
             /\ Len(defaults) \in Nat /\ DOMAIN defaults = 1 .. Len(defaults)
             /\ Len(rules) = Len(own) + Len(defaults)
             /\ \A i \in 1 .. Len(own) : rules[i] = own[i]
             /\ \A i \in 1 .. Len(defaults) : rules[Len(own) + i] = defaults[i]
  <1>1. Len(defaults) \in Nat /\ DOMAIN defaults = 1 .. Len(defaults) /\ \E S : defaults \in Seq(S)
    BY RulesAssumption, ListsAreSequences DEF OwnRules, DefaultRules
  <1>2. CASE HasOrgConf(v, o, m)
    <2>1. Len(own) \in Nat /\ DOMAIN own = 1 .. Len(own) /\ \E S : own \in Seq(S)
      BY <1>2, RulesAssumption, ListsAreSequences, SMTT(30) DEF HasOrgConf, OwnRules, DefaultRules
    <2>2. FinalRules(v, o, m) = own \o defaults
      BY <1>2 DEF FinalRules, OwnRules, DefaultRules
    <2>3. IsList(own) /\ IsList(defaults)
      BY <1>2, RulesAssumption DEF HasOrgConf, OwnRules, DefaultRules
    <2>4. /\ Len(own \o defaults) = Len(own) + Len(defaults)
          /\ \A i \in 1 .. Len(own) : (own \o defaults)[i] = own[i]
          /\ \A i \in 1 .. Len(defaults) : (own \o defaults)[Len(own) + i] = defaults[i]
      BY <2>3, PartsOfJoint
    <2> QED BY <1>1, <2>1, <2>2, <2>4
  <1>3. CASE ~HasOrgConf(v, o, m)
    <2>1. own = <<>> /\ FinalRules(v, o, m) = defaults
      BY <1>3 DEF FinalRules, OwnRules, DefaultRules
    <2>2. Len(own) = 0 /\ DOMAIN own = 1 .. 0
      BY <2>1
    <2>3. /\ Len(own) + Len(defaults) = Len(defaults)
          /\ \A i \in 1 .. Len(defaults) : Len(own) + i = i
          /\ \A i \in 1 .. Len(own) : FALSE
      <3>1. Len(defaults) \in Nat
        BY <1>1
      <3> QED BY <2>2, <3>1, ZeroOffset, Zenon
    <2> QED BY <1>1, <2>1, <2>2, <2>3
  <1> QED BY <1>2, <1>3

\* The first match in the joint list decides.
LEMMA FirstOfJoint ==
  ASSUME NEW r, NEW own, NEW defaults, NEW rules, NEW a \in Nat, NEW b \in Nat,
         DOMAIN own = 1 .. a, DOMAIN defaults = 1 .. b,
         \A i \in 1 .. a : rules[i] = own[i],
         \A i \in 1 .. b : rules[a + i] = defaults[i],
         NEW i \in 0 .. a + b,
         i > 0 => Matches(rules[i], asks[r]) /\ FitsRule(r, rules, i),
         i = 0 => pc[r] # "denied" /\ tried[r] \subseteq DefaultNames,
         \A j \in 1 .. a + b : Matches(rules[j], asks[r]) => 0 < i /\ i <= j
  PROVE  DecidedBy(r, own, defaults)
  <1>1. CASE i \in 1 .. a
    <2>1. rules[i] = own[i] /\ i > 0
      BY <1>1
    <2>2. \A j \in 1 .. i - 1 : j \in 1 .. a /\ j \in 1 .. a + b /\ ~(i <= j) /\ rules[j] = own[j]
      BY <1>1
    <2>3. FirstOf(own, i, asks[r])
      BY <2>1, <2>2 DEF FirstOf
    <2>4. FitsRule(r, own, i)
      BY <2>1 DEF FitsRule
    <2> QED BY <1>1, <2>3, <2>4 DEF DecidedBy
  <1>2. ASSUME i \notin 1 .. a PROVE NoneOf(own, asks[r])
    <2> SUFFICES ASSUME NEW j \in 1 .. a PROVE ~Matches(own[j], asks[r])
      BY DEF NoneOf
    <2>1. j \in 1 .. a + b /\ ~(0 < i /\ i <= j)
      BY <1>2
    <2> QED BY <2>1
  <1>3. CASE i \notin 1 .. a /\ i > 0
    <2> DEFINE k == i - a
    <2>1. k \in 1 .. b /\ a + k = i
      BY <1>3
    <2>2. rules[i] = defaults[k]
      BY <2>1
    <2>3. \A j \in 1 .. k - 1 : j \in 1 .. b /\ a + j \in 1 .. a + b /\ ~(i <= a + j)
      BY <2>1
    <2>4. FirstOf(defaults, k, asks[r])
      <3>1. \A j \in 1 .. k - 1 : ~Matches(rules[a + j], asks[r]) /\ rules[a + j] = defaults[j]
        BY <2>3
      <3> QED BY <1>3, <2>2, <3>1 DEF FirstOf
    <2>5. FitsRule(r, defaults, k)
      BY <1>3, <2>2 DEF FitsRule
    <2> QED BY <1>2, <1>3, <2>1, <2>4, <2>5 DEF DecidedBy
  <1>4. CASE i = 0
    <2>1. NoneOf(defaults, asks[r])
      <3> SUFFICES ASSUME NEW j \in 1 .. b PROVE ~Matches(defaults[j], asks[r])
        BY DEF NoneOf
      <3>1. a + j \in 1 .. a + b
        OBVIOUS
      <3> QED BY <1>4, <3>1
    <2> QED BY <1>2, <1>4, <2>1 DEF DecidedBy
  <1> QED BY <1>1, <1>3, <1>4

LEMMA DecidedByItsRules ==
  ASSUME NEW r \in Requests, RulesInv, Installed, pc[r] \in Decided, engine[r] # Nil
  PROVE  \E v \in 1 .. conf :
             DecidedBy(r, OwnRules(v, org[r], Model(r)), DefaultRules(v, Model(r)))
  <1> DEFINE e == engine[r]
             m == Model(r)
  <1>1. PICK v \in 1 .. conf : Allowed(v, org[r], m) /\ MadeOf(e, v, org[r], m)
    <2>1. ByRules(r) /\ pc[r] \notin Early
      BY DEF RulesInv, Decided, Early
    <2> QED BY <2>1 DEF ByRules, EngineGiven
  <1>2. /\ FirstMatch(e, asks[r], rule[r])
        /\ pc[r] = "denied" <=> Denies(e, rule[r])
        /\ tried[r] \subseteq DOMAIN Items(e, rule[r])
    BY DEF RulesInv, ByRules
  <1>3. v \in 1 .. Len(Files) /\ m \in DOMAIN Files[v].models
    BY <1>1 DEF Installed, Allowed
  <1> DEFINE own == OwnRules(v, org[r], m)
             defaults == DefaultRules(v, m)
             rules == FinalRules(v, org[r], m)
             i == rule[r]
             a == Len(own)
             b == Len(defaults)
  <1>4. /\ a \in Nat /\ DOMAIN own = 1 .. a
        /\ b \in Nat /\ DOMAIN defaults = 1 .. b
        /\ Len(rules) = a + b
        /\ \A j \in 1 .. a : rules[j] = own[j]
        /\ \A j \in 1 .. b : rules[a + j] = defaults[j]
    BY <1>3, JointList, SMTT(30)
  <1>5. /\ DOMAIN e.rules = 1 .. a + b
        /\ DOMAIN e.base \subseteq DefaultNames
        /\ \A j \in 1 .. a + b :
              /\ e.rules[j].match = rules[j].match
              /\ e.rules[j].deny = rules[j].deny
              /\ rules[j].deny \/ DOMAIN e.rules[j].items \subseteq DOMAIN rules[j].forward_weights
    BY <1>1, <1>4 DEF MadeOf
  <1>6. \A j \in 1 .. a + b : Matches(e.rules[j], asks[r]) <=> Matches(rules[j], asks[r])
    BY <1>5 DEF Matches, Always
  <1>7. /\ i \in 0 .. a + b
        /\ i > 0 => Matches(rules[i], asks[r])
        /\ \A j \in 1 .. a + b : Matches(rules[j], asks[r]) => 0 < i /\ i <= j
    <2>1. i \in {0} \cup 1 .. a + b
      BY <1>2, <1>5 DEF FirstMatch
    <2>2. i \in 0 .. a + b /\ (i > 0 => i \in 1 .. a + b)
      BY <2>1, <1>4
    <2> QED BY <2>2, <1>2, <1>5, <1>6 DEF FirstMatch
  <1>8. i > 0 => FitsRule(r, rules, i)
    <2> SUFFICES ASSUME i > 0 PROVE FitsRule(r, rules, i)
      OBVIOUS
    <2>1. i \in 1 .. a + b
      BY <1>4, <1>7
    <2>2. DOMAIN Items(e, i) \subseteq DOMAIN e.rules[i].items \cup DOMAIN e.base
      BY DEF Items
    <2>3. pc[r] = "denied" <=> rules[i].deny
      BY <1>2, <1>5, <2>1 DEF Denies
    <2> QED BY <1>2, <1>5, <2>1, <2>2, <2>3 DEF FitsRule
  <1>9. i = 0 => pc[r] # "denied" /\ tried[r] \subseteq DefaultNames
    BY <1>2, <1>5 DEF Denies, Items
  <1>10. DecidedBy(r, own, defaults)
    <2> HIDE DEF rules, i, a, b, own, defaults
    <2> QED BY <1>4, <1>7, <1>8, <1>9, FirstOfJoint
  <1> QED BY <1>10

\* The first rule that matches, of the organisation and then of the model,
\* decides, also by an engine from the cache (finalRules, the cache of
\* engines, RuleEngine.Process, and the balancer of the rule).
THEOREM RulesAreFollowed == Spec => []RulesDecide
  <1>1. Init => RulesInv
    BY DEF Init, RulesInv, ByRules, Nothing, Early, Decided
  <1>2. RulesInv /\ RepoInv => RulesDecide
    BY DecidedByItsRules DEF RepoInv, RulesDecide, Decided
  <1>3. Functions /\ RepoInv /\ BuildInv /\ RulesInv /\ [Next]_vars => RulesInv'
    BY RulesInvNext
  <1>4. Init => BuildInv
    BY DEF Init, BuildInv, UnderWay
  <1>5. Functions /\ RepoInv /\ BuildInv /\ [Next]_vars => BuildInv'
    BY BuildInvNext
  <1> QED BY <1>1, <1>2, <1>3, <1>4, <1>5, FunctionsHold, RepoInvariant, PTL DEF Spec

-----------------------------------------------------------------------------
(* Rewrites.                                                               *)

\* What a rewrite makes of the keys of a body.
KeysAfter(policy, keys) ==
    IF policy = Nil THEN keys
    ELSE Over(policy.set, [k \in DOMAIN keys \ policy.remove |-> keys[k]])

Shaped(req) ==
    /\ DOMAIN req = {"format", "header", "body"}
    /\ DOMAIN req.body = {"writtenAs", "readAs", "keys"}

LEMMA RewrittenKeys ==
  ASSUME NEW policy, NEW body, "keys" \in DOMAIN body
  PROVE  /\ RewriteJSON(policy, body).keys = KeysAfter(policy, body.keys)
         /\ DOMAIN RewriteJSON(policy, body) = DOMAIN body
  BY DEF RewriteJSON, KeysAfter

LEMMA RewrittenRequest ==
  ASSUME NEW policy, NEW req, Shaped(req)
  PROVE  /\ Shaped(Rewritten(policy, req))
         /\ Rewritten(policy, req).format = req.format
         /\ Rewritten(policy, req).body.keys = KeysAfter(policy, req.body.keys)
  <1>1. "keys" \in DOMAIN req.body
    BY DEF Shaped
  <1> QED BY <1>1, RewrittenKeys DEF Shaped, Rewritten

\* A request that is not converted.
LEMMA ConvertedRequest ==
  ASSUME NEW b, NEW req, Shaped(req)
  PROVE  /\ Shaped(Converted(b, req))
         /\ ~(Converts(b) /\ req.format = "messages") => Converted(b, req) = req
  BY DEF Converted, Shaped

LEMMA BeforeClient ==
  ASSUME NEW b, NEW req, Shaped(req)
  PROVE  /\ Shaped(Before(b, req))
         /\ ~(Converts(b) /\ req.format = "messages") =>
               /\ Before(b, req).format = req.format
               /\ Before(b, req).body.keys = KeysAfter(b.rewrites["request"], req.body.keys)
  <1> DEFINE once == Rewritten(b.rewrites["request"], req)
  <1>1. /\ Shaped(once) /\ once.format = req.format
        /\ once.body.keys = KeysAfter(b.rewrites["request"], req.body.keys)
    BY RewrittenRequest
  <1>2. Before(b, req) = Converted(b, once)
    BY DEF Before
  <1> HIDE DEF once
  <1> QED BY <1>1, <1>2, ConvertedRequest

LEMMA HeadersOnly ==
  ASSUME NEW b, NEW req, Shaped(req)
  PROVE  /\ Shaped(WithHeaders(b, req))
         /\ WithHeaders(b, req).format = req.format
         /\ WithHeaders(b, req).body = req.body
  BY DEF WithHeaders, Shaped

LEMMA ReceivedByClient ==
  ASSUME NEW b, NEW req, Shaped(req), ~(Converts(b) /\ req.format = "messages")
  PROVE  /\ Received(b, req).format = req.format
         /\ AnsweredIn(b, req) = req.format
         /\ Received(b, req).body.keys =
               KeysAfter(b.rewrites["post"], KeysAfter(b.rewrites["request"], req.body.keys))
  <1> DEFINE before == Before(b, req)
             with == WithHeaders(b, before)
  <1>1. /\ Shaped(before) /\ before.format = req.format
        /\ before.body.keys = KeysAfter(b.rewrites["request"], req.body.keys)
    BY BeforeClient
  <1>2. Shaped(with) /\ with.format = before.format /\ with.body = before.body
    <2> HIDE DEF before
    <2> QED BY <1>1, HeadersOnly
  <1>3. Received(b, req) = Rewritten(b.rewrites["post"], with)
    BY DEF Received
  <1>4. AnsweredIn(b, req) = IF before.format # req.format THEN "messages" ELSE Received(b, req).format
    BY DEF AnsweredIn
  <1> HIDE DEF before, with
  <1> QED BY <1>1, <1>2, <1>3, <1>4, RewrittenRequest

LEMMA LeftByFailure ==
  ASSUME NEW b, NEW req, Shaped(req)
  PROVE  /\ Shaped(AfterFailure(b, req))
         /\ ~(Converts(b) /\ req.format = "messages") =>
               /\ AfterFailure(b, req).format = req.format
               /\ AfterFailure(b, req).body.keys = req.body.keys
  <1> DEFINE before == Before(b, req)
             left == WithHeaders(b, before)
  <1>1. /\ Shaped(before)
        /\ ~(Converts(b) /\ req.format = "messages") =>
              /\ before.format = req.format
              /\ before.body.keys = KeysAfter(b.rewrites["request"], req.body.keys)
    BY BeforeClient
  <1>2. Shaped(left) /\ left.format = before.format /\ left.body = before.body
    <2> HIDE DEF before
    <2> QED BY <1>1, HeadersOnly
  <1>3. AfterFailure(b, req) =
           IF b.rewrites["request"] = Nil THEN left
           ELSE [left EXCEPT !.body = [@ EXCEPT !.writtenAs = req.body.writtenAs,
                                                !.keys = req.body.keys]]
    BY DEF AfterFailure
  <1> HIDE DEF before, left
  <1>4. CASE b.rewrites["request"] = Nil
    BY <1>1, <1>2, <1>3, <1>4 DEF KeysAfter
  <1>5. CASE b.rewrites["request"] # Nil
    <2>1. /\ Shaped(AfterFailure(b, req))
          /\ AfterFailure(b, req).format = left.format
          /\ AfterFailure(b, req).body.keys = req.body.keys
      BY <1>2, <1>3, <1>5 DEF Shaped
    <2> QED BY <1>1, <1>2, <2>1
  <1> QED BY <1>4, <1>5

BackendOf(r, n) == Items(engine[r], rule[r])[n].backend
\* No backend the request was tried on converted it.
Unconverted(r) == \A n \in tried[r] : asks[r].format = "messages" => ~Converts(BackendOf(r, n))

\* What the last backend got is made of what the client sent, and so will be
\* what the next one gets.
OwnOnly(r) ==
    /\ pc[r] \in Early \cup {"serving"} => sent[r] = Nil
    /\ pc[r] # "new" => Shaped(request[r])
    /\ pc[r] # "new" /\ Unconverted(r) =>
          /\ request[r].format = asks[r].format
          /\ request[r].body.keys = asks[r].body
    /\ sent[r] # Nil /\ Unconverted(r) =>
          LET b == BackendOf(r, sent[r].to)
          IN  /\ sent[r].got.body.keys =
                    KeysAfter(b.rewrites["post"], KeysAfter(b.rewrites["request"], asks[r].body))
              /\ sent[r].got.format = asks[r].format
              /\ sent[r].answer \in {Nil, asks[r].format}
OwnInv == \A r \in Requests : OwnOnly(r)

LEMMA OthersKeepOwn ==
  ASSUME NEW r, OwnOnly(r), pc'[r] = pc[r], engine'[r] = engine[r], asks'[r] = asks[r],
         rule'[r] = rule[r], tried'[r] = tried[r], request'[r] = request[r], sent'[r] = sent[r]
  PROVE  OwnOnly(r)'
  <1>1. \A n : BackendOf(r, n)' = BackendOf(r, n)
    BY DEF BackendOf, Items
  <1>2. Unconverted(r)' = Unconverted(r)
    BY <1>1 DEF Unconverted
  <1> QED BY <1>1, <1>2 DEF OwnOnly

LEMMA AttemptKeepsOwn ==
  ASSUME NEW r \in Requests, Functions, OwnOnly(r), Attempt(r) PROVE OwnOnly(r)'
  <1>1. PICK n : /\ tried' = [tried EXCEPT ![r] = @ \cup {n}]
                 /\ Succeed(r, n, BackendOf(r, n)) \/ Fail(r, n, BackendOf(r, n))
    BY DEF Attempt, BackendOf
  <1> DEFINE b == BackendOf(r, n)
  <1>2. /\ pc[r] = "trying" /\ pc'[r] \in {"trying", "answered", "failed"}
        /\ rule' = rule /\ engine' = engine /\ asks' = asks
        /\ tried'[r] = tried[r] \cup {n}
    BY <1>1 DEF Attempt, Succeed, Fail, Functions
  <1>3. \A k : BackendOf(r, k)' = BackendOf(r, k)
    BY <1>2 DEF BackendOf, Items
  <1>4. Unconverted(r)' => Unconverted(r) /\ ~(Converts(b) /\ asks[r].format = "messages")
    BY <1>2, <1>3 DEF Unconverted
  <1>5. /\ Shaped(request[r])
        /\ Unconverted(r) => request[r].format = asks[r].format /\ request[r].body.keys = asks[r].body
    BY <1>2 DEF OwnOnly
  <1>6. Unconverted(r)' =>
           /\ Received(b, request[r]).format = asks[r].format
           /\ AnsweredIn(b, request[r]) = asks[r].format
           /\ Received(b, request[r]).body.keys =
                 KeysAfter(b.rewrites["post"], KeysAfter(b.rewrites["request"], asks[r].body))
    <2> HIDE DEF b
    <2> QED BY <1>4, <1>5, ReceivedByClient
  <1>7. /\ Shaped(AfterFailure(b, request[r]))
        /\ Unconverted(r)' => /\ AfterFailure(b, request[r]).format = asks[r].format
                              /\ AfterFailure(b, request[r]).body.keys = asks[r].body
    <2> HIDE DEF b
    <2> QED BY <1>4, <1>5, LeftByFailure
  <1>8. request'[r] = request[r] \/ request'[r] = AfterFailure(b, request[r])
    BY <1>1 DEF Succeed, Fail, Functions
  <1>9. \/ sent'[r] = sent[r]
        \/ /\ sent'[r].to = n /\ sent'[r].got = Received(b, request[r])
           /\ sent'[r].answer \in {Nil, AnsweredIn(b, request[r])}
    BY <1>1 DEF Succeed, Fail, Functions
  <1>10. /\ Shaped(request'[r])
         /\ Unconverted(r)' => request'[r].format = asks[r].format /\ request'[r].body.keys = asks[r].body
    <2> HIDE DEF b
    <2> QED BY <1>4, <1>5, <1>7, <1>8
  <1>11. ASSUME Unconverted(r)', sent'[r] # Nil
         PROVE  LET c == BackendOf(r, sent'[r].to)
                IN  /\ sent'[r].got.body.keys =
                          KeysAfter(c.rewrites["post"], KeysAfter(c.rewrites["request"], asks[r].body))
                    /\ sent'[r].got.format = asks[r].format
                    /\ sent'[r].answer \in {Nil, asks[r].format}
    <2>1. CASE sent'[r] = sent[r]
      BY <1>4, <1>11, <2>1 DEF OwnOnly
    <2>2. CASE /\ sent'[r].to = n /\ sent'[r].got = Received(b, request[r])
               /\ sent'[r].answer \in {Nil, AnsweredIn(b, request[r])}
      BY <1>6, <1>11, <2>2
    <2> QED BY <1>9, <2>1, <2>2
  <1> HIDE DEF b
  <1> QED BY <1>2, <1>3, <1>10, <1>11 DEF OwnOnly, Early

LEMMA OwnInvNext == Functions /\ RulesInv /\ OwnInv /\ [Next]_vars => OwnInv'
  <1> SUFFICES ASSUME Functions, RulesInv, OwnInv, [Next]_vars, NEW r \in Requests
               PROVE  OwnOnly(r)'
    BY DEF OwnInv
  <1> DEFINE Same == /\ pc'[r] = pc[r] /\ engine'[r] = engine[r] /\ asks'[r] = asks[r]
                     /\ rule'[r] = rule[r] /\ tried'[r] = tried[r]
                     /\ request'[r] = request[r] /\ sent'[r] = sent[r]
  <1> USE DEF Functions, composer, serving, building
  <1>1. OwnOnly(r) /\ ByRules(r)
    BY DEF OwnInv, RulesInv
  <1>2. CASE Same
    BY <1>1, <1>2, OthersKeepOwn
  <1>3. CASE UNCHANGED vars \/ InstallInRepo \/ InstallInComposer \/ InstallInAuth \/ AllOver
    <2>1. Same
      BY <1>3 DEF vars, InstallInRepo, InstallInComposer, UpdateComposer, InstallInAuth, UpdateAuth, AllOver
    <2> QED BY <1>2, <2>1
  <1>4. CASE Attempt(r)
    BY <1>1, <1>4, AttemptKeepsOwn
  <1>5. CASE Arrive(r)
    <2>1. /\ sent' = sent /\ pc[r] = "new" /\ pc'[r] = "asked"
          /\ \E kind : /\ asks'[r] = kind
                       /\ request'[r] = [format |-> kind.format, header |-> Nothing,
                                         body |-> [writtenAs |-> kind.format, readAs |-> kind.format,
                                                   keys |-> kind.body]]
      BY <1>5 DEF Arrive
    <2>2. sent[r] = Nil
      BY <1>1, <2>1 DEF OwnOnly, Early
    <2>3. /\ Shaped(request[r])'
          /\ request'[r].format = asks'[r].format /\ request'[r].body.keys = asks'[r].body
      BY <2>1 DEF Shaped
    <2> QED BY <2>1, <2>2, <2>3 DEF OwnOnly
  <1>6. CASE GetEngine(r) \/ Decide(r)
    <2>1. /\ sent' = sent /\ request' = request /\ tried' = tried /\ asks' = asks
          /\ pc[r] \in Early \cup {"serving"} /\ pc[r] # "new"
      BY <1>6 DEF GetEngine, Hit, Refuse, Permit, ReadNames, Look, Lock, Store, BuildFails, Decide, Early
    <2>2. sent[r] = Nil /\ tried[r] = {}
      BY <1>1, <2>1 DEF OwnOnly, ByRules
    <2>3. /\ Unconverted(r) /\ Shaped(request[r])
          /\ request[r].format = asks[r].format /\ request[r].body.keys = asks[r].body
      BY <1>1, <2>1, <2>2 DEF OwnOnly, Unconverted
    <2> QED BY <2>1, <2>2, <2>3 DEF OwnOnly
  <1>7. ASSUME NEW s \in Requests \ {r}, Arrive(s) PROVE Same
    BY <1>7 DEF Arrive
  <1>8. ASSUME NEW s \in Requests \ {r}, GetEngine(s) PROVE Same
    BY <1>8 DEF GetEngine, Hit, Refuse, Permit, ReadNames, Look, Lock, Store, BuildFails
  <1>9. ASSUME NEW s \in Requests \ {r}, Decide(s) PROVE Same
    BY <1>9 DEF Decide
  <1>10. ASSUME NEW s \in Requests \ {r}, Attempt(s) PROVE Same
    BY <1>10 DEF Attempt, Succeed, Fail
  <1> QED BY <1>2, <1>3, <1>4, <1>5, <1>6, <1>7, <1>8, <1>9, <1>10 DEF Next

\* A backend gets the client's request with its own rewrites and no other's,
\* however many were tried before it, as long as none converted it (the
\* defer of RewriteEngine.Process that puts the bytes back).
THEOREM RewritesStayOwn == Spec => []OwnRewritesOnly
  <1>1. Init => OwnInv
    BY DEF Init, OwnInv, OwnOnly
  <1>2. OwnInv => OwnRewritesOnly
    <2> SUFFICES ASSUME OwnInv, NEW r \in Requests, sent[r] # Nil, Unconverted(r)
                 PROVE  LET b == BackendOf(r, sent[r].to)
                            once == RewriteJSON(b.rewrites["request"], [keys |-> asks[r].body])
                        IN  /\ sent[r].got.body.keys = RewriteJSON(b.rewrites["post"], once).keys
                            /\ sent[r].got.format = asks[r].format
                            /\ sent[r].answer \in {Nil, asks[r].format}
      BY DEF OwnRewritesOnly, Unconverted, BackendOf
    <2> DEFINE b == BackendOf(r, sent[r].to)
               body == [keys |-> asks[r].body]
               once == RewriteJSON(b.rewrites["request"], body)
    <2>1. "keys" \in DOMAIN body /\ body.keys = asks[r].body
      OBVIOUS
    <2>2. /\ once.keys = KeysAfter(b.rewrites["request"], asks[r].body)
          /\ "keys" \in DOMAIN once
      <3> HIDE DEF body
      <3> QED BY <2>1, RewrittenKeys
    <2>3. RewriteJSON(b.rewrites["post"], once).keys =
             KeysAfter(b.rewrites["post"], KeysAfter(b.rewrites["request"], asks[r].body))
      <3> HIDE DEF once
      <3> QED BY <2>2, RewrittenKeys
    <2>4. OwnOnly(r)
      BY DEF OwnInv
    <2> HIDE DEF once
    <2> QED BY <2>3, <2>4 DEF OwnOnly, once
  <1>3. Functions /\ RulesInv /\ OwnInv /\ [Next]_vars => OwnInv'
    BY OwnInvNext
  <1>4. Init => RulesInv
    BY DEF Init, RulesInv, ByRules, Nothing, Early, Decided
  <1>5. Functions /\ RepoInv /\ BuildInv /\ RulesInv /\ [Next]_vars => RulesInv'
    BY RulesInvNext
  <1>6. Init => BuildInv
    BY DEF Init, BuildInv, UnderWay
  <1>7. Functions /\ RepoInv /\ BuildInv /\ [Next]_vars => BuildInv'
    BY BuildInvNext
  <1> QED BY <1>1, <1>2, <1>3, <1>4, <1>5, <1>6, <1>7, FunctionsHold, RepoInvariant, PTL DEF Spec
=============================================================================
