------------------------------ MODULE ModelRepo ------------------------------
(***************************************************************************)
(* The model repository (pkg/composer/model_repo.go): it merges what a     *)
(* configuration file says of a backend with the global backend it uses,   *)
(* and builds the engine of a backend when it is first asked for.          *)
(*                                                                         *)
(* A backend in a file is a record: use names a global backend (or is      *)
(* Nil), own holds the plain fields that are given, maps the two header    *)
(* maps and rewrites the four rewrite policies, each Nil when not given.   *)
(* A key is a pair of a model and a backend name.                          *)
(***************************************************************************)
EXTENDS Naturals, Sequences, FiniteSets, TLC

CONSTANTS
    Files,  \* the configuration files, in the order they are installed
    Nil

\* There is a first configuration.
ASSUME FilesAssumption == Len(Files) \in Nat \ {0}

VARIABLES
    installed,  \* modelBackendConfig: the merged backend of each key
    engines,    \* modelBackendEngine: the engines built so far, by key
    builds      \* history: how many engines were ever built

repo == <<installed, engines, builds>>

MapFields == {"headers", "headersByExpr"}
RewriteFields == {"request", "response", "chunk", "post"}
Nothing == [k \in {} |-> Nil]
Given(map) == IF map = Nil THEN Nothing ELSE map
Over(f, g) == f @@ g
With(f, k, v) == [j \in DOMAIN f \cup {k} |-> IF j = k THEN v ELSE f[j]]

Keys(file) ==
    UNION {{m} \X DOMAIN file.models[m].backends : m \in DOMAIN file.models}
Backend(file, k) == file.models[k[1]].backends[k[2]]
Global(file, k) == file.backends[Backend(file, k).use]
UsesGlobal(file, k) == Backend(file, k).use \in DOMAIN file.backends

\* RewritePolicy.Merge: q's keys go over p's, both remove.
Merge(p, q) ==
    IF q = Nil THEN p
    ELSE IF p = Nil THEN q
    ELSE [set |-> Over(q.set, p.set), remove |-> p.remove \cup q.remove]

\* The keys that write into the global map f that k's backend shares, the
\* global map being one object that finalBackend only points to.
Sharers(file, k, f) ==
    {j \in Keys(file) :
        /\ UsesGlobal(file, j)
        /\ Backend(file, j).use = Backend(file, k).use
        /\ Backend(file, j).maps[f] # Nil}

\* What is in a map of k's backend once all are merged, in the given order
\* of iteration: the last writer of an entry has it.
MergedMap(file, k, f, order) ==
    IF ~UsesGlobal(file, k) \/ Global(file, k).maps[f] = Nil
    THEN Backend(file, k).maps[f]
    ELSE LET shared == Global(file, k).maps[f]
             Writers(h) == {j \in Sharers(file, k, f) : h \in DOMAIN Backend(file, j).maps[f]}
             names == DOMAIN shared
                      \cup UNION {DOMAIN Backend(file, j).maps[f] : j \in Sharers(file, k, f)}
             Last(h) == CHOOSE j \in Writers(h) : \A i \in Writers(h) : order[i] <= order[j]
         IN  [h \in names |-> IF Writers(h) = {} THEN shared[h]
                              ELSE Backend(file, Last(h)).maps[f][h]]

\* finalBackend.
Merged(file, k, order) ==
    LET own == Backend(file, k)
        base == IF UsesGlobal(file, k) THEN Global(file, k)
                ELSE [own |-> Nothing, rewrites |-> [w \in RewriteFields |-> Nil]]
    IN  [own |-> Over(own.own, base.own),
         maps |-> [f \in MapFields |-> Given(MergedMap(file, k, f, order))],
         rewrites |-> [w \in RewriteFields |-> Merge(base.rewrites[w], own.rewrites[w])]]

\* Any order in which Go may range over the maps.
Orders(file) ==
    {p \in [Keys(file) -> 1 .. Cardinality(Keys(file))] :
        \A i, j \in Keys(file) : p[i] = p[j] => i = j}

RepoInit ==
    /\ \E order \in Orders(Files[1]) :
          installed = [k \in Keys(Files[1]) |-> Merged(Files[1], k, order)]
    /\ engines = Nothing
    /\ builds = 0

\* Altered: the engines of the old configuration stay.
UpdateRepoKeeping(file) ==
    /\ \E order \in Orders(file) :
          installed' = [k \in Keys(file) |-> Merged(file, k, order)]
    /\ UNCHANGED <<engines, builds>>
\* UpdateFromConfig: both maps are replaced under the lock.
UpdateRepo(file) ==
    /\ \E order \in Orders(file) :
          installed' = [k \in Keys(file) |-> Merged(file, k, order)]
    /\ engines' = Nothing
    /\ UNCHANGED builds

BackendNames(m) == {k[2] : k \in {j \in DOMAIN installed : j[1] = m}}

-----------------------------------------------------------------------------
(* GetEngine.                                                              *)

Formats == {"messages", "chat"}
Path(f) == IF f = "chat" THEN "url_path_chat" ELSE "url_path_messages"

\* Which formats have an endpoint: a path that is not given has a default,
\* an empty one switches the format off.
Endpoints(b) == {f \in Formats : Path(f) \in DOMAIN b.own => b.own[Path(f)] # ""}

\* Every header expression compiles.
Compiles(b) == \A h \in DOMAIN b.maps["headersByExpr"] : b.maps["headersByExpr"][h] # "invalid"

\* BuildEngineByBackend fails otherwise.
Buildable(b) == Endpoints(b) # {} /\ Compiles(b)
CanMake(k) == k \in DOMAIN installed /\ Buildable(installed[k])

\* ProxyClientManager.GetClient: one client for each proxy, the default one
\* without a proxy or with one that is no URL.
Client(b) ==
    IF "http_proxy" \notin DOMAIN b.own \/ b.own["http_proxy"] \in {"", "unparsable"}
    THEN "default" ELSE b.own["http_proxy"]

Built(k) == [key |-> k, backend |-> installed[k], client |-> Client(installed[k]), made |-> builds + 1]

\* The lookup under the read lock.
Known(k) == k \in DOMAIN engines

\* Altered: without the second lookup.
MakeEngineBlindly(k) ==
    /\ CanMake(k)
    /\ engines' = With(engines, k, Built(k))
    /\ builds' = builds + 1
    /\ UNCHANGED installed
\* Under the write lock: looked up once more, built and kept.
MakeEngine(k) ==
    /\ ~Known(k)
    /\ CanMake(k)
    /\ engines' = With(engines, k, Built(k))
    /\ builds' = builds + 1
    /\ UNCHANGED installed

\* Not found, or not buildable: the caller gets an error.
CannotMake(k) ==
    /\ ~Known(k)
    /\ ~CanMake(k)
    /\ UNCHANGED repo
=============================================================================
