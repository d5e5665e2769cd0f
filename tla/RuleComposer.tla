----------------------------- MODULE RuleComposer -----------------------------
(***************************************************************************)
(* The rule composer (pkg/composer/rule_composer.go) and the rule engine   *)
(* it builds (pkg/engines/rule-engine): who may use a model, which rules   *)
(* decide on the request, and the load balancers that the rules forward    *)
(* to.  Engines are cached by organisation and model.                      *)
(*                                                                         *)
(* Building takes many steps, each of which locks only the repository, and *)
(* other requests and configuration updates fall between them.             *)
(***************************************************************************)
EXTENDS BackendChain

CONSTANTS
    Requests,
    Kinds,         \* what may be asked: records of key, model, traits, format and body
    DefaultNames,  \* the backend names that start with "default:"
    RetryMaxCount  \* lbRetryCount

\* Rules are lists.
IsList(s) == s \in Seq({s[i] : i \in DOMAIN s})
ASSUME RulesAssumption ==
    \A v \in 1 .. Len(Files) :
        /\ \A m \in DOMAIN Files[v].models : IsList(Files[v].models[m].default_rules)
        /\ \A o \in DOMAIN Files[v].users : \A m \in DOMAIN Files[v].users[o].models :
              IsList(Files[v].users[o].models[m])

VARIABLES
    conf,    \* the configuration of the composer, as an index of Files
    cache,   \* orgModelEngine
    pc,      \* where each request is
    asks,    \* what it asks for, a member of Kinds
    org,     \* the organisation it was authenticated for, or ""
    seen,    \* the configuration its getEngine works with
    since,   \* history: the configuration of the repository when it began
    todo,    \* the backend names still to get, for each section it builds
    got,     \* the engines it has, by section and name
    want,    \* the section and name it waits for the write lock with
    engine   \* what getEngine returned

building == <<seen, since, todo, got, want>>
composer == <<conf, cache, pc, asks, org, building, engine>>

NoOrg == ""

-----------------------------------------------------------------------------
(* What a configuration says.                                              *)

HasOrgConf(v, o, m) ==
    /\ o # NoOrg
    /\ o \in DOMAIN Files[v].users
    /\ m \in DOMAIN Files[v].users[o].models

\* The access checks of getEngine.
Allowed(v, o, m) ==
    /\ m \in DOMAIN Files[v].models
    /\ Files[v].models[m].access = "internal" => o # NoOrg
    /\ Files[v].models[m].access = "private" => HasOrgConf(v, o, m)

\* Altered: the rules of the model come first.
FinalRulesSwapped(v, o, m) ==
    LET defaults == Files[v].models[m].default_rules
    IN  IF HasOrgConf(v, o, m) THEN defaults \o Files[v].users[o].models[m] ELSE defaults
\* finalRules: the rules of the organisation before those of the model.
FinalRules(v, o, m) ==
    LET defaults == Files[v].models[m].default_rules
    IN  IF HasOrgConf(v, o, m) THEN Files[v].users[o].models[m] \o defaults ELSE defaults

Model(r) == asks[r].model
Rules(r) == FinalRules(seen[r], org[r], Model(r))

\* Section 0 is the default engine, section i the load balancer of rule i.
Sections(r) == 0 .. Len(Rules(r))
Forwards(r, i) == IF Rules(r)[i].deny THEN Nothing ELSE Rules(r)[i].forward_weights

-----------------------------------------------------------------------------
(* getEngine.                                                              *)

\* Altered: engines are cached by model alone.
CacheKeyModel(r) == <<NoOrg, Model(r)>>
\* orgModelEngine[orgName][modelName].
CacheKey(r) == <<org[r], Model(r)>>

\* RuleComposerEngine.Process finds the engine in the cache.
Hit(r) ==
    /\ pc[r] = "asked"
    /\ CacheKey(r) \in DOMAIN cache
    /\ engine' = [engine EXCEPT ![r] = cache[CacheKey(r)]]
    /\ pc' = [pc EXCEPT ![r] = "serving"]
    /\ UNCHANGED <<conf, cache, asks, org, building>>

\* Or takes the configuration of this moment; no model, no access.
Refuse(r) ==
    /\ pc[r] = "asked"
    /\ CacheKey(r) \notin DOMAIN cache
    /\ ~Allowed(conf, org[r], Model(r))
    /\ pc' = [pc EXCEPT ![r] = "refused"]
    /\ UNCHANGED <<conf, cache, asks, org, building, engine>>

\* With access, it goes on with that configuration.
Permit(r) ==
    /\ pc[r] = "asked"
    /\ CacheKey(r) \notin DOMAIN cache
    /\ Allowed(conf, org[r], Model(r))
    /\ seen' = [seen EXCEPT ![r] = conf]
    /\ pc' = [pc EXCEPT ![r] = "permitted"]
    /\ UNCHANGED <<conf, cache, asks, org, since, todo, got, want, engine>>

\* What is to be got: the default names the repository has, read once, and
\* the names the rules forward to.  now is the repository's configuration.
ReadNames(r, now) ==
    /\ pc[r] = "permitted"
    /\ since' = [since EXCEPT ![r] = now]
    /\ todo' = [todo EXCEPT ![r] =
                   [i \in Sections(r) |-> IF i = 0 THEN BackendNames(Model(r)) \cap DefaultNames
                                          ELSE DOMAIN Forwards(r, i)]]
    /\ got' = [got EXCEPT ![r] = [i \in Sections(r) |-> Nothing]]
    /\ pc' = [pc EXCEPT ![r] = "building"]
    /\ UNCHANGED <<conf, cache, asks, org, seen, want, engine>>

Finished(r, i) == todo[r][i] = {}
\* NewWeightedRoundRobin refuses a negative weight, which ends the build.
BadWeight(r, i) == i > 0 /\ \E n \in DOMAIN got[r][i] : Forwards(r, i)[n] < 0
Broken(r) == \E i \in Sections(r) : Finished(r, i) /\ BadWeight(r, i)

\* The next names to get: the sections in order, the names of one in any.
Current(r, i) ==
    /\ ~Broken(r)
    /\ ~Finished(r, i)
    /\ \A j \in Sections(r) : j < i => Finished(r, j)

Take(r, i, n) ==
    /\ got' = [got EXCEPT ![r][i] = With(@, n, engines[<<Model(r), n>>])]
    /\ todo' = [todo EXCEPT ![r][i] = @ \ {n}]
Skip(r, i, n) ==
    /\ todo' = [todo EXCEPT ![r][i] = @ \ {n}]
    /\ UNCHANGED got

\* modelRepo.GetEngine up to the end of its read lock.
Look(r) ==
    /\ pc[r] = "building"
    /\ \E i \in Sections(r) : \E n \in todo[r][i] :
          /\ Current(r, i)
          /\ \/ /\ Known(<<Model(r), n>>)
                /\ Take(r, i, n)
                /\ UNCHANGED <<pc, want>>
             \/ /\ ~Known(<<Model(r), n>>)
                /\ want' = [want EXCEPT ![r] = <<i, n>>]
                /\ pc' = [pc EXCEPT ![r] = "locking"]
                /\ UNCHANGED <<todo, got>>
    /\ UNCHANGED <<conf, cache, asks, org, seen, since, engine, repo>>

\* Altered: an engine made by another request meanwhile is not taken.
LockAndMissOthers(r) ==
    LET i == want[r][1]
        n == want[r][2]
        k == <<Model(r), n>>
    IN  /\ pc[r] = "locking"
        /\ \/ Known(k) /\ Skip(r, i, n) /\ UNCHANGED repo
           \/ /\ MakeEngine(k)
              /\ got' = [got EXCEPT ![r][i] = With(@, n, engines'[k])]
              /\ todo' = [todo EXCEPT ![r][i] = @ \ {n}]
           \/ CannotMake(k) /\ Skip(r, i, n)
        /\ pc' = [pc EXCEPT ![r] = "building"]
        /\ UNCHANGED <<conf, cache, asks, org, seen, since, want, engine>>
\* The rest of it, under the write lock; a failure is logged and skipped.
Lock(r) ==
    LET i == want[r][1]
        n == want[r][2]
        k == <<Model(r), n>>
    IN  /\ pc[r] = "locking"
        /\ \/ Known(k) /\ Take(r, i, n) /\ UNCHANGED repo
           \/ /\ MakeEngine(k)
              /\ got' = [got EXCEPT ![r][i] = With(@, n, engines'[k])]
              /\ todo' = [todo EXCEPT ![r][i] = @ \ {n}]
           \/ CannotMake(k) /\ Skip(r, i, n)
        /\ pc' = [pc EXCEPT ![r] = "building"]
        /\ UNCHANGED <<conf, cache, asks, org, seen, since, want, engine>>

Complete(r) == ~Broken(r) /\ \A i \in Sections(r) : Finished(r, i)
\* Without rules the default engine has to be there.
NoEngineAtAll(r) == Complete(r) /\ Rules(r) = <<>> /\ got[r][0] = Nothing

\* The engine of the finished build; base may be empty, a nil engine.
RuleEngine(r) ==
    [base |-> got[r][0],
     rules |-> [i \in 1 .. Len(Rules(r)) |->
                  [match |-> Rules(r)[i].match, deny |-> Rules(r)[i].deny, items |-> got[r][i],
                   weights |-> [n \in DOMAIN got[r][i] |-> Forwards(r, i)[n]]]]]

\* Cached under the write lock, whatever is there by now.
Store(r) ==
    /\ pc[r] = "building"
    /\ Complete(r) /\ ~NoEngineAtAll(r)
    /\ cache' = With(cache, CacheKey(r), RuleEngine(r))
    /\ engine' = [engine EXCEPT ![r] = RuleEngine(r)]
    /\ pc' = [pc EXCEPT ![r] = "serving"]
    /\ UNCHANGED <<conf, asks, org, building>>

\* No engine at all, or a rule that cannot be built: an error, not cached.
BuildFails(r) ==
    /\ pc[r] = "building"
    /\ Broken(r) \/ NoEngineAtAll(r)
    /\ pc' = [pc EXCEPT ![r] = "failed"]
    /\ UNCHANGED <<conf, cache, asks, org, building, engine>>

\* UpdateFromConfig: the cache of engines is left as it is.
UpdateComposer(v) ==
    /\ conf' = v
    /\ UNCHANGED <<cache, pc, asks, org, building, engine>>

-----------------------------------------------------------------------------
(* The rule engine.                                                        *)

\* A rule without an expression always matches.
Always(rule) == rule.match = ""
Matches(rule, kind) == Always(rule) \/ rule.match \in kind.traits

\* i is the first of the rules that match; 0 stands for the fallback rule at
\* the end.
FirstMatch(e, kind, i) ==
    /\ i \in {0} \cup DOMAIN e.rules
    /\ i > 0 => Matches(e.rules[i], kind)
    /\ \A j \in DOMAIN e.rules : Matches(e.rules[j], kind) => 0 < i /\ i <= j

\* DenyEngine: the rule answers with an error of its own.
Denies(e, i) == i > 0 /\ e.rules[i].deny

\* Where the matching rule sends the request: its own balancer, or the
\* default engine when none of its backends could be got.
Items(e, i) == IF i > 0 /\ e.rules[i].items # Nothing THEN e.rules[i].items ELSE e.base
Weight(e, i, n) == IF i > 0 /\ e.rules[i].items # Nothing THEN e.rules[i].weights[n] ELSE 100
\* A backend of weight zero is picked only if all weigh nothing.
Pickable(e, i) ==
    {n \in DOMAIN Items(e, i) :
        Weight(e, i, n) = 0 => \A m \in DOMAIN Items(e, i) : Weight(e, i, m) = 0}
=============================================================================
