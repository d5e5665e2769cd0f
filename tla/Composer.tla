------------------------------- MODULE Composer -------------------------------
(***************************************************************************)
(* A gateway from the authentication of a request (BearerKeyMW of          *)
(* cmd/octollm-server) through the rule composer to the attempts of a load *)
(* balancer on the engines of its backends, while an operator installs     *)
(* configurations: in the repository, in the composer and in the           *)
(* authentication, each by itself and in this order, as the server does at *)
(* its start.  The server installs only one; the three update operations   *)
(* and their locks are there for more, and requests fall between them.     *)
(***************************************************************************)
EXTENDS RuleComposer

VARIABLES
    apiKeys,   \* the organisation of each key
    repoAt,    \* history: the configuration the repository has
    authAt,    \* history: the configuration the keys are of
    rule,      \* the rule that matched, 0 the fallback
    failures,  \* retryCount of the balancer
    request,   \* the request object: format, body and header
    tried,     \* history: the names of the backends it was tried on
    sent       \* history: what the backend of the last attempt received

serving == <<rule, failures, request, tried, sent>>
server == <<apiKeys, repoAt, authAt>>
vars == <<repo, composer, server, serving>>

-----------------------------------------------------------------------------
(* Authentication.                                                         *)

\* The API keys of each organisation, with their users.
KeysOf(v, o) == {Files[v].users[o].api_keys[u] : u \in DOMAIN Files[v].users[o].api_keys}
Duplicate(v) ==
    \/ \E o, p \in DOMAIN Files[v].users : o # p /\ KeysOf(v, o) \cap KeysOf(v, p) # {}
    \/ \E o \in DOMAIN Files[v].users :
          LET users == Files[v].users[o].api_keys
          IN  \E u, w \in DOMAIN users : u # w /\ users[u] = users[w]
NewApiKeys(v) ==
    [k \in UNION {KeysOf(v, o) : o \in DOMAIN Files[v].users} |->
        CHOOSE o \in DOMAIN Files[v].users : k \in KeysOf(v, o)]

\* BearerKeyMW.UpdateFromConfig: a key given twice leaves the old ones.
UpdateAuth(v) ==
    /\ IF Duplicate(v) THEN UNCHANGED apiKeys ELSE apiKeys' = NewApiKeys(v)
    /\ authAt' = v
    /\ UNCHANGED <<repo, composer, repoAt, serving>>

\* BearerKeyMW.Handle: an unknown key is no key, and not refused.
Authenticated(key) == IF key \in DOMAIN apiKeys THEN apiKeys[key] ELSE NoOrg

Arrive(r) ==
    /\ pc[r] = "new"
    /\ \E kind \in Kinds :
          /\ asks' = [asks EXCEPT ![r] = kind]
          /\ org' = [org EXCEPT ![r] = Authenticated(kind.key)]
          /\ request' = [request EXCEPT ![r] =
                [format |-> kind.format, header |-> Nothing,
                 body |-> [writtenAs |-> kind.format, readAs |-> kind.format, keys |-> kind.body]]]
    /\ pc' = [pc EXCEPT ![r] = "asked"]
    /\ UNCHANGED <<conf, cache, building, engine, repo, server, rule, failures, tried, sent>>

-----------------------------------------------------------------------------
(* Configuration updates.                                                  *)

InstallInRepo ==
    /\ repoAt < Len(Files) /\ repoAt = authAt
    /\ UpdateRepo(Files[repoAt + 1])
    /\ repoAt' = repoAt + 1
    /\ UNCHANGED <<composer, apiKeys, authAt, serving>>
InstallInComposer ==
    /\ conf < repoAt
    /\ UpdateComposer(repoAt)
    /\ UNCHANGED <<repo, server, serving>>
InstallInAuth ==
    /\ authAt < conf
    /\ UpdateAuth(conf)

-----------------------------------------------------------------------------
(* Serving.                                                                *)

\* getEngine, with the repository.
GetEngine(r) ==
    /\ \/ (Hit(r) \/ Refuse(r) \/ Permit(r) \/ ReadNames(r, repoAt)
           \/ Store(r) \/ BuildFails(r)) /\ UNCHANGED repo
       \/ Look(r)
       \/ Lock(r)
    /\ UNCHANGED <<server, serving>>

\* RuleEngine.Process: the first rule that matches decides.
Decide(r) ==
    /\ pc[r] = "serving"
    /\ \E i \in 0 .. Len(engine[r].rules) :
           /\ FirstMatch(engine[r], asks[r], i)
           /\ rule' = [rule EXCEPT ![r] = i]
           /\ pc' = [pc EXCEPT ![r] = IF Denies(engine[r], i) THEN "denied"
                                      ELSE IF Items(engine[r], i) = Nothing THEN "crashed"
                                      ELSE "trying"]
    /\ UNCHANGED <<conf, cache, asks, org, building, engine, repo, server,
                   failures, request, tried, sent>>

\* An attempt on backend n that succeeds: the answer goes to the client.
Succeed(r, n, b) ==
    /\ Sendable(b, request[r])
    /\ sent' = [sent EXCEPT ![r] = [to |-> n, got |-> Received(b, request[r]),
                                    answer |-> AnsweredIn(b, request[r])]]
    /\ pc' = [pc EXCEPT ![r] = "answered"]
    /\ UNCHANGED <<failures, request>>

\* One that fails, at the backend or for want of an endpoint: the balancer
\* gives up (its time or count is over, the client has left, or the error is
\* final), or tries again with the request as it now is.
Fail(r, n, b) ==
    /\ sent' = IF Sendable(b, request[r])
               THEN [sent EXCEPT ![r] = [to |-> n, got |-> Received(b, request[r]),
                                         answer |-> Nil]]
               ELSE sent
    /\ request' = [request EXCEPT ![r] = AfterFailure(b, @)]
    /\ failures' = [failures EXCEPT ![r] = @ + 1]
    /\ \/ pc' = [pc EXCEPT ![r] = "failed"]
       \/ /\ failures[r] + 1 < RetryMaxCount
          /\ UNCHANGED pc

Attempt(r) ==
    /\ pc[r] = "trying"
    /\ \E n \in Pickable(engine[r], rule[r]) :
          LET b == Items(engine[r], rule[r])[n].backend
          IN  /\ tried' = [tried EXCEPT ![r] = @ \cup {n}]
              /\ Succeed(r, n, b) \/ Fail(r, n, b)
    /\ UNCHANGED <<conf, cache, asks, org, building, engine, repo, server, rule>>

Ends == {"refused", "denied", "crashed", "failed", "answered"}
AllOver ==
    /\ \A r \in Requests : pc[r] \in Ends
    /\ UNCHANGED vars

Init ==
    /\ RepoInit
    /\ conf = 1 /\ cache = Nothing
    /\ pc = [r \in Requests |-> "new"]
    /\ asks = [r \in Requests |-> Nil]
    /\ org = [r \in Requests |-> NoOrg]
    /\ seen = [r \in Requests |-> 1] /\ since = [r \in Requests |-> 1]
    /\ todo = [r \in Requests |-> Nothing] /\ got = [r \in Requests |-> Nothing]
    /\ want = [r \in Requests |-> Nil]
    /\ engine = [r \in Requests |-> Nil]
    /\ apiKeys = NewApiKeys(1) /\ repoAt = 1 /\ authAt = 1
    /\ rule = [r \in Requests |-> 0]
    /\ failures = [r \in Requests |-> 0]
    /\ request = [r \in Requests |-> Nil]
    /\ tried = [r \in Requests |-> {}]
    /\ sent = [r \in Requests |-> Nil]

Next ==
    \/ \E r \in Requests : Arrive(r) \/ GetEngine(r) \/ Decide(r) \/ Attempt(r)
    \/ InstallInRepo
    \/ InstallInComposer
    \/ InstallInAuth
    \/ AllOver

Spec == Init /\ [][Next]_vars
-----------------------------------------------------------------------------
(* Properties.                                                             *)

\* While updates and builds interleave, no engine of an old configuration is
\* in the repository: an engine has the settings that are installed.
RegistryIsCurrent ==
    \A k \in DOMAIN engines : k \in DOMAIN installed /\ engines[k].backend = installed[k]

\* The lookup under the read lock and the second one under the write lock
\* give a backend at most one engine between two updates, however many
\* requests ask for it first.
AllKeys == UNION {Keys(Files[v]) : v \in 1 .. Len(Files)}
Registry == INSTANCE BackendRegistry WITH Backends <- AllKeys
RegistrySpec == Registry!Spec

\* Whoever gets beyond the access check, also by an engine that was cached
\* for someone else's request, has authenticated with a key of its
\* organisation, and a configuration gave that organisation the model.
ServedWasAllowed ==
    \A r \in Requests :
        pc[r] \notin {"new", "asked", "refused"} =>
            /\ \E v \in 1 .. conf : Allowed(v, org[r], Model(r))
            /\ org[r] # NoOrg => \E v \in 1 .. authAt :
                  /\ org[r] \in DOMAIN Files[v].users
                  /\ asks[r].key \in KeysOf(v, org[r])

\* A build that no update falls into has every backend the configuration
\* gives it, although others build and look up the same ones meanwhile.
Usable(m, names) ==
    {n \in names : CanMake(<<m, n>>)}
QuietBuildIsWhole ==
    \A r \in Requests :
        pc[r] \in {"building", "locking"} /\ since[r] = repoAt =>
            \A i \in Sections(r) :
                DOMAIN got[r][i] = Usable(Model(r), IF i = 0 THEN DefaultNames ELSE DOMAIN Forwards(r, i))
                                   \ todo[r][i]

\* The rules a request is subject to, and what the first one that matches
\* says of its end.
OwnRules(v, o, m) == IF HasOrgConf(v, o, m) THEN Files[v].users[o].models[m] ELSE <<>>
DefaultRules(v, m) == Files[v].models[m].default_rules
FirstOf(rules, i, kind) == Matches(rules[i], kind) /\ \A j \in 1 .. i - 1 : ~Matches(rules[j], kind)
NoneOf(rules, kind) == \A i \in DOMAIN rules : ~Matches(rules[i], kind)
FitsRule(r, rules, i) ==
    IF rules[i].deny THEN pc[r] = "denied"
    ELSE pc[r] # "denied" /\ tried[r] \subseteq DOMAIN rules[i].forward_weights \cup DefaultNames
DecidedBy(r, own, defaults) ==
    \/ \E i \in DOMAIN own : FirstOf(own, i, asks[r]) /\ FitsRule(r, own, i)
    \/ NoneOf(own, asks[r]) /\ \E i \in DOMAIN defaults : FirstOf(defaults, i, asks[r]) /\ FitsRule(r, defaults, i)
    \/ NoneOf(own, asks[r]) /\ NoneOf(defaults, asks[r]) /\ pc[r] # "denied" /\ tried[r] \subseteq DefaultNames

\* The rules of the organisation, then those of the model: the first that
\* matches decides, from whatever cache the engine came, and a request goes
\* only to the backends that rule names, or to default ones.
RulesDecide ==
    \A r \in Requests :
        pc[r] \in {"denied", "crashed", "trying", "failed", "answered"} /\ engine[r] # Nil =>
            \E v \in 1 .. conf : DecidedBy(r, OwnRules(v, org[r], Model(r)), DefaultRules(v, Model(r)))

\* What a backend receives carries the rewrites of this backend on what the
\* client sent, and of no other it was tried on before, as long as none of
\* them converted the request.
OwnRewritesOnly ==
    \A r \in Requests :
        /\ sent[r] # Nil
        /\ \A n \in tried[r] :
              asks[r].format = "messages" => ~Converts(Items(engine[r], rule[r])[n].backend)
        => LET b == Items(engine[r], rule[r])[sent[r].to].backend
               once == RewriteJSON(b.rewrites["request"], [keys |-> asks[r].body])
           IN  /\ sent[r].got.body.keys = RewriteJSON(b.rewrites["post"], once).keys
               /\ sent[r].got.format = asks[r].format
               /\ sent[r].answer \in {Nil, asks[r].format}

\* The comment at the revert of a rewrite ("to make sure the original request
\* body is not changed for other engines in the chain"): every attempt
\* starts with the request the client sent.
OriginalKept ==
    \A r \in Requests :
        pc[r] = "trying" =>
            /\ request[r].format = asks[r].format
            /\ request[r].body = [writtenAs |-> asks[r].format, readAs |-> asks[r].format,
                                  keys |-> asks[r].body]
=============================================================================
