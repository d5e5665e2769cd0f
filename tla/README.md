# A verification project for OctoLLM

OctoLLM is a gateway in front of LLM services: a library of *engines* that
forward a request, limit it, route it, rewrite it or check it, and a server
that puts them together from a configuration. This directory holds TLA+ models
of its parts, the TLC configurations that check them on small instances, and
theorems about them with proofs that TLAPS checks.

To run a check, from this directory:

    tlc -workers 2 -config MCTokenLimiter.cfg MCTokenLimiter
    tlapm ComposerProofs.tla

`PROJECT.json` lists the components, the runs, the map from definitions to
source lines, the hazards, and for every property an altered operator (a
plausible bug) that breaks it. The altered operators stand in the modules
directly before the definition they alter; their comment starts "Altered:" and
the specification does not use them.

## 1. The system and its components

An engine has one operation, `Process(req) (resp, error)`. Engines are nested:
each one changes the request, calls the next one and changes the response or
wraps its body. A response body is either a whole message or a stream: a
channel of chunks which a goroutine fills, with a close function. So the engines
share no lock and no object; they interact through the call stack, through the
request's context and metadata, through the channels of a stream, and, between
gateways, through Redis.

| component | state | operations | what is hard | correct when |
|---|---|---|---|---|
| concurrency limiter | sorted set in Redis: member -> time of last renewal; a renewal goroutine per request | `allow`, `renewMember`, `Process`, close hook | time between reading the clock and the script; lost calls; a renewal that races the release; a crash | the limit holds, a released slot stays released, a denial has a living cause |
| color marker and limiter | a sorted set per band, per tier; priority in the context | acquire, release, renew of one and of two sets | two engines and two sets that expire apart | slots reserved for high priorities stay reserved |
| request limiter, marker, color limiter | token buckets in Redis | `allow`, `dualAllow` scripts | clocks of several gateways, key expiry, lost replies | the rate holds over every span; low tiers leave room |
| token limiter | a token bucket that may go negative | `allow` (two calls), `deduction` (three calls), a callback per attempt, called after the response | nothing is atomic, every call may fail, a clock is older than the calls that use it | a stale write takes no more than the callbacks booked; a use is forgotten only for known reasons |
| weighted round robin | smooth weights under a mutex | `GetNextEngine`, retry loop | requests and retries interleave on the same weights | every backend gets its share, weight 0 gets nothing |
| shard-key round robin | the weights; sorted sets in Redis of the backends a shard key went to | resolve, trim, select, record, retry with exclusions | requests with the same key race; names may be missing | a retry moves on; weight 0 comes last; weights are conserved |
| shard-key concurrency | counts in Redis through the limiter of each backend | hit or least-used choice, retry loop | counts are stale when used and may be missing; capacities change | a failover keeps its error; the loop ends; headroom stays reserved |
| HTTP handler | the response, one writer; a keep-alive goroutine | `httpSSEHandler` and others | two goroutines, one response writer; client goes away | one writer, everything delivered in order |
| HTTP client | the call, its context, a reading goroutine | `Process`, SSE and JSON-array readers | upstream breaks off or falls silent | the goroutine ends, the response is closed |
| output moderation | a goroutine with a buffer of held-back chunks and a window of text | `Process`, `moderateStream` | the check runs behind the chunks | nothing is shown before it was checked |
| rewrite engine | the request object, which attempts share; one goroutine per stream | `Process`, revert | what an attempt leaves behind for the next one | a backend gets its own rewrites of what the client sent |
| Claude converter | one goroutine per stream, with the block that is open | request, whole answers, streams | text, thinking and fragments of several calls in one chunk; an upstream that breaks off | the events keep the grammar; nothing is lost; calls and their results come back in order |
| non-stream to stream | the accumulated message | asks for a stream and merges it | a stream that breaks off | a stop reason means the whole answer |
| composer, model repository, rule engine | engines by backend; engines by organisation and model | `Process`, `getEngine`, `GetEngine`, `UpdateFromConfig`, first match | builds of many steps, two locks, updates while requests run | one engine per backend; no access without permission; the right rule decides |
| image cache, image fetch | files by time bucket and key, an index in memory, downloads | `Get`, `Put`, `Delete`, `DeleteBucket`, parallel fetch | file and index change apart | a request has whole images within the limits; no file is lost to the index |
| traffic replication | a detached copy of the request with a deadline | `Process`, drain | outlives the request | the copy ends and is closed |
| moderation services, adapters, error translation, message types, small engines, server | none, or counters | pure functions, outside calls, wiring | data formats | - |

The hard behaviours fall into five groups, and `PROJECT.json` names each of
them at its line under `hazards`:

1. *Redis calls that race, get lost or come late* - the limiters. A script is
   atomic; reading the clock, sending the script and reading the reply are not.
2. *Keys and members that expire under their owners.*
3. *State of earlier picks* - the load balancers, where a bad sequence of picks
   starves a backend or repeats a failed one.
4. *Goroutines joined by channels* - the stream pipeline, where a goroutine that
   nobody receives from or nobody cancels stays for ever.
5. *Callbacks after the response* - close hooks and deductions that must happen
   once, whatever the response did.

## 2. The plan

Ordered by what the gateway promises to those who run it: limits first, then
routing, then streams, then the parts that keep local state.

| step | modules | status |
|---|---|---|
| 1 | `ConcurrencyLimiter`, `BoundedAdmission`, proofs | done |
| 2 | `ColorConcurrency`, proofs | done |
| 3 | `SmoothWeights`, `WeightedRoundRobin`, `ShardKeyRoundRobin`, `FoldTheorems`, proofs | done |
| 4 | `ShardKeyConcurrency`, proofs | done |
| 5 | `RequestLimiters`, `TokenLimiter`, proofs | done |
| 6 | `StreamState`, `StreamSource`, `StreamRelay`, `ResponseHandler`, `StreamPipeline`, proofs | done |
| 7 | `ImageCache`, `ImageFetch`, proofs | done |
| 8 | `ModelRepo`, `BackendRegistry`, `BackendChain`, `RuleComposer`, `Composer`, proofs | done |
| 9 | `SequenceFolds`, `StreamMerge`, `ClaudeConversion`, `ClaudeEvents`, `Translation`, proofs | done |
| 10 | traffic replication as another consumer of the pipeline | left, see section 8 |

Every safety property of a run is a theorem now, but for `NoStarvation` (section 7),
which does not hold for every list. What could come next: `TokenLimiter` at rates that
are not whole.

## 3. The modules and the code

Every definition that stands for code has its lines in `PROJECT.json` under
`map`. What follows is how state and actions correspond.

**Concurrency** (`pkg/engines/limiter`).

- `BoundedAdmission` is the abstract specification: a set of requests inside,
  `Admit` only below the limit, `Leave` at any time.
- `ConcurrencyLimiter` is `concurrency_limiter.go`. `score` and `expireAt` are the
  sorted set and its TTL, `pc` is where a `Process` call is, `renewer`,
  `nextTick`, `renewCmd` and `fails` are its goroutine. `Start` reads the clock,
  `AcquireScript` runs the script, `Granted` is its reply; a renewal is
  `TickFires` (clock read), `RenewScript`, or `RenewFails`. `Respond`, `Close`
  and `Release` are the response, its close hook and `done()`. `Crash` takes a
  gateway away with its members left behind. It refines `BoundedAdmission` with
  `inside <- InFlight`.
- `ColorConcurrency` composes `concurrency_color_marker.go` and
  `concurrency_color_limiter.go`: `band` and `tier` are the sorted sets, `prio`
  is the priority the marker leaves in the context. `AllowSingle` and
  `AllowDual` are the two scripts, with a renewal and a release for each;
  `MarkerErrs` and `LimiterErrs` are scripts that did not run.

**Load balancing** (`pkg/engines/load-balancer`).

- `SmoothWeights` is the weight arithmetic that both round robins (and the
  moderation service balancer) share: initial weights, raise, pick, pay.
- `WeightedRoundRobin` has the mutex-protected weights and the retry loop of each
  request: `Pick`, `Attempt`.
- `ShardKeyRoundRobin` adds the sorted sets of a shard key (`zset`): `Resolve`
  reads them, any of them with a failure, `Trim` cuts them on the basis of that
  read, `Pick` takes a
  prioritised backend or the smooth weights without the excluded names, `Succeed`
  records.
- `ShardKeyConcurrency` is the loop of `shard_key_concurrency.go` over a list of
  hits: `TryHit`, `Select`, `Acquire` by the concurrency limiter of the backend
  (which here is an atomic count: `BoundedAdmission` is what it promises),
  `Resize` for a capacity function that answers differently, and `Answers` for one
  that does so between the two readings of one round; `GiveUp` is the error that is
  not retried. Requests and backends are `Calls` and `Engines` here, as its theorems
  share a module with others.

**Rates** (`pkg/engines/limiter`).

- `RequestLimiters` chains the request limiter, the color marker and the color
  limiter. A bucket is `tokens`, `age` (seconds since `lastRefill`) and `left`
  (its TTL); times are relative, so that the clock needs no bound. Each script
  is atomic and takes the clock of its gateway, up to `Skew` apart; a reply may
  be lost (`ScriptFails`).
- `TokenLimiter` is `token_limiter.go` call by call: `AllowClock`, `AllowTtl`,
  `AllowRead`; `Admit` adds a deduction callback, `Refuse` leaves those of earlier
  attempts; `Answer` begins to call them: `DeductClock`, `DeductTtl`, `DeductRead`,
  `DeductWrite`, and `DeductFails` wherever a call can be lost. `ideal` is the balance
  if every callback had booked its use at once. It is the balance of the callbacks and
  not of the requests: a request that was let in twice is booked twice.

**Streams** (`pkg/octollm`, `pkg/engines`).

- `StreamState` has the variables the goroutines share, the contexts, and the
  close functions.
- `StreamSource` is the HTTP client's reading goroutine (`engines/client`),
  `StreamRelay` the goroutine of the engine in between (rewrite, Claude
  converter or output moderation, by `conf.relay`), `ResponseHandler` the
  request's own goroutine: admission, the call, the body path of each engine,
  the merge of a stream into a body, `httpSSEHandler` and its keep-alive
  goroutine.
- `StreamPipeline` EXTENDS the three and states the specification and its
  properties. A channel without a buffer is a step of sender and receiver
  together; a `select` is a choice among its ready branches. The upstream may answer
  without a stream where one was asked for (`CallAnswers`), which the merge passes
  through; the converter leaves its loop behind `[DONE]`, the moderator with it, the
  rewriter when the channel is closed.

**Images** (`pkg/engines/image-url-fetch`).

- `ImageCache` is the package `cache`: `file` is the disk, by path (bucket and
  key), `dirs` and `temps` its directories and temporary files, `byKey` and
  `byBucket` the index. The index is under a lock, so `deleteKey`,
  `insertOrReplace` and `removeBucket` are single steps; a file is changed in
  steps of its own, before or after. The sweeper is the caller of `Delete` and
  `DeleteBucket`, one file at a time; `IndexHTTPStore` is the same index without
  files (`store`).
- `ImageFetch` is the engine: a goroutine for each URL of a request, with the
  steps of `Get` (`Lookup`, `ReadFile`, `Purge`; `Refetch`), of the download, and
  of `Put` (`MakeDirectory`, `WriteTemporary`, `RenameTemporary`, `Insert`,
  `RemoveOld`), its attempts, and `Finish` after `wg.Wait`.

**Composer** (`pkg/composer`, `pkg/engines/rule-engine`, `cmd/octollm-server`).

- `BackendRegistry` is the abstract specification of the model repository: at
  most one engine for a backend between two updates.
- `ModelRepo` is `model_repo.go`: `UpdateFromConfig` merges each backend of a file
  with the global one it uses (`Merged`; the header map of the global backend is
  shared and written into, in the order in which Go goes through the models:
  `MergedMap`, `Orders`), and `GetEngine` looks under the read lock (`Known`) and
  again under the write lock before it builds (`MakeEngine`).
- `BackendChain` is what `BuildEngineByBackend` nests around a client, as a
  function of the request: rewrites, conversion, headers, rewrites after the
  conversion, the endpoint; `AfterFailure` is the request a failed attempt leaves.
- `RuleComposer` is `rule_composer.go`: `Hit`, or `Permit` and then, name by name,
  `Look` and `Lock` in the repository, and `Store`. An update may fall between any
  two of them, as only the repository is locked. `since` and `seen` remember the
  configurations a build began with.
- `Composer` puts requests before and behind them: `Arrive` is the bearer-key
  middleware, `Decide` the rule engine, `Attempt` a retry loop on the engines.
  `InstallInRepo`, `InstallInComposer` and `InstallInAuth` are the three updates in
  the server's order. The server does this once, at its start; the operations and
  their locks are made for more, and the model installs two files.

**Translation** (`pkg/engines/converter`, `pkg/streammerge`,
`pkg/engines/non_stream_to_stream.go`).

- `StreamMerge` has the two folds: chunks into a chat completion, Claude events
  into a message. `ClaudeConversion` has the conversions of whole values: an
  answer, a request with its history. `SequenceFolds` has the two folds of sequences
  that these and the properties are built from: lists put one behind the other
  (`Concat`), and the elements of a kind (`Selected`).
- `ClaudeEvents` is the abstract specification: the grammar of a stream of Claude
  events.
- `Translation` is the goroutine of `convertStreamResponse`, event by event
  (`SendStart`, `StopBlock`, `StartBlock`, `SendDelta`, `LastStop`, `SendReason`,
  `SendStop`), with the upstream that sends chunks (`Receive`), ends or breaks off
  (`ReceiveDone`, `Leave`), a chunk that does not parse, a call without a function,
  at which the goroutine panics, and a reader that leaves (`Cancel`, `Drop`). Its
  reader folds the events; `NextTurn` has the client answer the calls and convert
  its whole history. `chat` is the same answer folded by the other merger, which
  is also what the path without a stream converts: the properties compare the two.

## 4. The runs

All bounds are constants given in the `.cfg`; counters that the code does not
bound have a bound in a guard (`MaxTime`, `MaxAge`, `MaxOwed`, `MaxBucket`, `MaxSweeps`, `MaxChunks`,
`MaxStream`, `MaxBeats`, `RetryMaxCount`).

| run | asks | bounds |
|---|---|---|
| `concurrency` | Does the limit hold while renewals keep up (section 5), with lost calls, late renewals, crashes, panics and expiry? Does `Close` finish? Is it a `BoundedAdmission`? | 2 requests, limit 1, timeout 8, renewal period 2, latency 1, 1 failure in a row, clock to 10: one longer than the timeout, so that every member can become stale, and the second request meets every stage of the first |
| `color` | Are slots reserved? Do the two sets of a low-priority request agree? | 4 requests, 3 bands over 3 tiers, rates 1 and 2 of 3; timeout 1 and clock to 1, so members and keys expire under running requests; symmetry over requests (all properties are safety) |
| `round_robin` | Shares, starvation, switched-off backends | weights 2, 0, 1, 1; 3 requests of up to 3 attempts: 9 picks, two rounds of the total weight 4; every random start |
| `shard_key_round_robin` | Retries, weight 0, conservation | 4 backends, one of weight 0, two unnamed; 3 requests over 2 keys, one of them with both; the newest 1 member is kept, not 3, so that a set of 2 is long |
| `shard_key_concurrency` | Failover, retries, termination | a static backend (2 slots, ceiling 50 %), a dynamic one that goes to 0 and back; 3 requests; 4 lists of hits with strong and weak ones; counts may be missing |
| `request_limiters` | The rate over any span, room for high tiers, refills | 2 requests that come again and again, 2 tiers on both sides, window 2, limits that do not divide it, clocks 1 second apart; no bound on time |
| `token_limiter` | Can a stale write take more than was booked? What forgets a use? How far can requests overdraw together? | burst 2, 1 token a second, 2 requests of up to 2 paid attempts and 2 tokens each, calls of up to 1 second: two deductions can overlap and the key can expire with a debt; ages up to 13 seconds, enough to pay 10 tokens of debt and to fill the bucket |
| `stream_pipeline` | Moderated, ordered, complete; one writer; every goroutine ends | up to 4 chunks, a check at every second rune, a window of 2: two full batches, or one and a tail; 1 keep-alive newline; every kind of request and relay; the client leaves and the upstream ends, breaks off or falls silent at any step |
| `image_fetch` | Whole images within their limits? Files without an entry? | 3 goroutines of 2 requests that meet at one key (a rule gives two URLs the same), 2 time buckets, one Delete or DeleteBucket, 2 attempts, images of 1 to 3 bytes against limits of 2 and 3; every cache mode |
| `composer` | Who is served, by which engine, under which rules, while a second configuration is installed? Is the repository a `BackendRegistry`? | 2 requests of 6 kinds; 2 organisations and none; 2 models; 2 files: the second moves a backend, lets another be built, opens the model and gives an organisation rules. One update is enough for a build that straddles it, two requests for two builds of one backend; 2 attempts |
| `translation` | Do the events keep the grammar? Is a message all the chunks had? Does a stop reason mean the end? Does the next turn have the calls and their results in order? | 5 chunks of 12 shapes (one kind, two kinds, two calls in one chunk, a continued call, none of all, a usage that grows, one whose figures are spread over two chunks), which make three blocks and a continuation; with and without a stream, merged or not |
| `retry_after_conversion` | Does every attempt start with the client's request? violated | the same two files |

Deadlock is checked in all runs but the one of `ShardKeyConcurrency`, whose
requests all end; elsewhere a last, named action (`Finished`, `AllOver`, `ResponseOver`, `AllAnswered`) marks
the states in which nothing is left to do, so any other stop is an error.

One run ends in a violation, of what a comment says of the code:

- **The revert.** `rewrite.go` (l.144) reverts its rewrite "to make sure the original
  request body is not changed for other engines in the chain". When the backend
  converts, the engine inside has put a new body and a new format into the request
  by then: the revert writes the old bytes into the new body, and the next backend
  of the balancer gets a request whose format, parser and bytes do not agree.

Further places where the models show something a reader of the code may not
expect, each at its line among the hazards or below:

- Two requests that read the same long set of a shard key both remove the surplus
  they saw (`shard_key_round_robin.go:160`); the headroom test uses `>` on a count
  without the request itself (`shard_key_concurrency.go:304`).
- A Get that finds no file removes the entry of its key; when a Put has moved the
  key in between, that entry is the new one, and no deletion finds its file
  (`file_store.go:98`). `NoOrphans` says that this is the only way.
- Headers of one model's backend are written into the global backend it uses and
  so into others (`model_repo.go:84-102`); an engine built across an update is cached
  with both configurations in it, and updates leave that cache
  (`rule_composer.go:42`); headers of a failed attempt stay on the request.
- A request that passes the token limiter twice, as a load balancer before it tries
  again, leaves two callbacks, and `DoDeduction` books its use for each
  (`token_limiter.go:317`). No property says that it pays once: it does not.
- Of a usage whose figures come in different chunks the converter tells the last part
  alone (`claude.go:551`). The merger of the same chunks puts the parts together
  (`streammerge/chatcompletion.go:76-78`, `119-122`), and its test sends such a stream
  (`TestChatCompletionMerger_UsageSplitAcrossChunks`): cached tokens early, the totals
  at the end. So the same answer costs a client other figures with a merge than
  without. `StopReasonMeansWhole` leaves out the usage of these streams, by `spread`.
- An admission of the request limiter drops the fraction of a token that had accrued
  (`request_limiter.go:166`), an engine is never built again (`rule_composer.go:42`):
  the models have both, and no property measures them.
- A call that directly follows thinking goes into the thinking block, whose
  reader drops it (`claude.go:686-695` has no case for it). An upstream that sends
  `[DONE]` and nothing else makes a `message_stop` without a `message_start`.

## 5. Assumptions and fairness

*Timing.* `RenewalsKeepUp` of `ConcurrencyLimiter` is what a timeout must satisfy
for a living member never to look stale: longer than three latencies (the reply
of the acquire, the tick, the renewal) and the renewals that may fail in a row,
the same for the key's TTL, and calls shorter than a renewal period. The code
renews every minute and its constructor accepts any positive timeout: with a
timeout below a minute the slot of a running request is purged between two
renewals and more requests than the maximum run together. So the bound holds for
configurations with a timeout of several minutes, and for those only.
`Latency`, and `Delay` of `TokenLimiter`, bound the time from reading the clock to the
end of the Redis calls that use it, as the client's timeouts do.

*Constants.* `ConcurrencyAssumption`, `TimingAssumption`, `RatesAssumption`,
`WeightsAssumption`, `RetryAssumption`, `NamesAssumption` and the like say what
the constructors enforce. `StreamAssumption` says that a batch of
the moderator fits what its service takes; the code cuts a longer one to its
tail and forwards the rest unchecked, so configurations have to see to it. `SkewAssumption`: clocks of gateways
are at most one second apart, as times in Redis are whole seconds.

`FilesAssumption`, `RulesAssumption` and `PlansAssumption` say that
lists are lists, that there is a first configuration and that a list of hits names a
backend once, as `resolvePrioritizedBackends` makes it. `AsksAssumption`: a client's
request has lists of system texts and of messages, and a message a list of blocks;
`ShapesAssumption`: the calls of a chunk are a list of fragments. `NilAssumption` and
`ShapesAssumption` also say that the value for none is no kind, number, text, block or
usage.

*Tokens.* `LimiterAssumption`: `MaxAge`, at which the age of a bucket stops counting,
is long enough to fill it from the deepest debt the guards allow (`MaxOwed`), so that
an older bucket is no different. `WholeRate`, an assumption of two theorems only, says
that a second earns a whole number of tokens. At other rates the code rounds a refill
down over its whole age and the history (`ideal`) rounds every second, so that the two
may differ by a token for a deduction: what these theorems say is then true up to that.

*The upstream of `Translation`* sends one choice, and the fragments of a call one behind
the other. Its usage may come in any chunk, in several, and in parts: `LacksFigure` says
that one lacks a figure of an earlier one, and `spread` remembers it.

*Fairness.* Only what the Go scheduler owes is assumed.

- `ConcurrencyLimiter`: weak fairness of `RenewerCancelled` and `Release`. A
  request may run for ever, a response may stay open.
- `ShardKeyConcurrency`: of the loop, the engine's return and the close of the
  response, as `http.Server` closes it. Capacities and Redis owe nothing.
- `StreamPipeline`: of each goroutine, with a moderation service that answers.
  The upstream owes nothing: it may fall silent before the call returns or in
  mid-stream, and clients need not leave; `Drains` asks for the end only when
  the client left or the upstream ended.
- The other specifications have no fairness and no liveness property.

## 6. What is proved

For all values of the constants, in eight modules.

**`LimiterProofs`**, for the two limiters of a plain number.

*Concurrency.* `TypeCorrect`; `NeverResurrected` (only an acquire
creates a member: a late renewal does not); `SlotsBounded` and
`DeniedByTheLivingOnly`, from `MembersInv`, which counts members; and, under
`RenewalsKeepUp`, `MaximumConcurrency` and `ImplementsBoundedAdmission`.
`InFlightBounded` is not inductive: a member may be purged while its request
runs. `AliveInv` is why it is not: for each request in flight the score is no
older than the renewals that are still missing allow (`RenewerOnTime`), a
renewal on its way carries a recent time (`CommandRecent`), and the key outlives
its members (`ScoreRecorded`). Then those in flight are members, and members are
bounded. The refinement follows: `Granted` is `Admit`, `Release` and `Crash` are
`Leave`, all others stutter.

*Tokens.* Between the read and the write of a deduction the bucket changes under it,
so the bucket alone is no invariant: each request that is about to write carries a
bucket of its own (`seen`), as old as its clock.

- `StaleWritesForgive` (`NeverBelowBookings`) from `Covered`: what the bucket is worth,
  its tokens with what its age has earned, is never below the balance on which every
  callback's use is booked at once (`BucketCovers`), and what a deduction will write is
  not either, before its own use (`WriteCovers`). So a write can only be stale in the
  client's favour. What a retry books twice is in both balances.
- `UseForgottenForAReason` (`UsesPersist`) from `BalanceKept`, the other direction:
  unless a use was forgotten, bucket (`BucketKept`) and writes (`WriteKept`) are worth
  no more than the balance and what is earned while one deduction takes its time. A key
  whose TTL has run out is worth a full bucket, and then so is the balance
  (`RestedIsFull`). A deduction reads a bucket that is older than its clock
  (`ReadInOrder`); where another one has overtaken it, the model notes it (`leaked`).
- `JointOverdraft` (`OverdraftBounded`) from `RoomKept`: bucket and writes are worth at
  least one token less what the attempts that are not pending may have used (`Room`). A
  request is let in at one token or more, and then becomes pending; a deduction takes
  at most `MaxUse` tokens and one attempt out of `Pending`.

Products of a rate and an age are kept behind `Earned`, of which a few lemmas say what
the rest needs: it adds the rate every second and never shrinks, a refill brings no less
(`RefillFair`) and at a whole rate no more (`RefillWhole`), and a bucket of age `MaxAge`
is full (`OldIsFull`).

**`FoldTheorems`** has what the balancers need of sums over their backends, and the
converter of lists. The library's induction takes an operator as a parameter, which the
provers cannot instantiate; but of the subsets of a finite set that lack a property one
is the smallest (`FS_StrictSubsetOrderingWellFounded`, `WFMin`), and that is induction
too. It speaks of a set of subsets, of numbers or of sequences: `SubsetInduction`,
`NatSetInduction`, `SequenceInduction`.

- Sums: the function that a sum is defined by exists (`SumsExist`), a sum takes one
  element and the rest (`SumTakesSome`), sums add (`SumAdds`), grow (`SumGrows`), and
  are over a part where only the part counts (`SumOfPart`).
- Sequences: the recursive function of `Concat` exists too (`UpToExists`), so that one
  more list comes behind the others (`ConcatAppend`) and lists of lists are put behind
  each other (`ConcatJoin`). `Picked`, the elements in a set, is a `Concat`, and what
  holds of it follows: of all, of none, of two lists (`PickedAll`, `PickedNone`,
  `PickedJoin`).

**`BalancerProofs`**, for two load balancers.

*Weighted round robin.* `TypeCorrect`, `SwitchedOffStaysOff`, `ShareBounded`
(`NoOverload`) from the ledger of a backend: its current weight is what it began with,
plus its weight for every pick, minus the total for every pick of its own, and it stays
above minus the total since only a backend raised above 0 pays. `SomeoneIsPicked` and
`NobodyForgotten` need the backends together: `SumInv` says that the current weights
add up to between 0 and the total, as no pick changes their sum. Raised by the total
the sum is positive, so the largest is, and there is a first of the largest: Process
never calls a nil engine. And as all others are above minus the total, none is far
above it, so none is far behind its share: by no more picks than there are backends.

*The concurrency-based balancer.* `BalancerTypeCorrect`, `ErrorIsKept`
(`FailoverKeepsError`), `RetriesMoveOn` (`NoBackendTwice`), for all capacities that change
and counts that fail. `Bookkeeping` is the invariant: while a request chooses, all it
tried is excluded; what it tried is no longer in its list of hits; and it has tried
nothing, or counted a failure, so that an end without a backend can only have an error
to return.

**`ShardKeyRoundRobinProofs`.** `RetriesMoveOn`, `ZeroIsLastResort`, and, for distinct
names, `SomeBackendLeft` (the branch "should not happen" does not), from the
bookkeeping of the loop: excluded names are the names of the backends tried.
`WeightIsConserved` (`WeightConserved`) from `SettledSum`: what the candidates gain is
the sum of their weights, which the selected one pays.

**`TierProofs`**, for the limiters of bands and tiers.

*Requests.* `TypeCorrect`, `RateIsBounded`, `RoomForHigh`,
`RefillNotPutOff`. The invariant relates what a bucket still owes to what it
holds: a debt fits in the burst with the tokens and the refill that is due
(`Paid`); a key that expires is old enough to be full (`Timer`); the last token
given is owed until time pays it back (`Recent`); tier 0 has room for the tiers
above the last taker (`Room`). Without `Timer` an expired key would forgive a
debt.

*Colors.* `ReservedSlotsStayFree` (`SlotsReserved`), `MembersCountTwice`
(`CountedInBoth`) and, as a property of steps, `TopDeniedByTopOnly` (`TopDeniedByTop`),
for any numbers of bands and tiers and any rates, from `SlotsInv`. Two facts have to
be added. A request is a member of no tier before its script has run (`NotHeldYet`):
until then the marker may still give it another priority, and a member that changed
its tier would be counted among other ones. And tier 0 has finitely many members
(`FiniteMembers`), of however many requests, as scripts add them one at a time; so
that counting them means something. Where the dual script adds a member of tier t, it
has seen fewer than the total less t in tier 0; purges, releases and expiry only take
members away, and a renewal brings none back. `CountedInBoth` holds up to the timeout
only: a set may be purged or expire while the other is not, but its members are then
older than the timeout in both. A denial at the top has a top member: the set is
full, and the lower tiers never fill all of it.

**`ImageFetchProofs`.** `TypeCorrect`, which includes that the two maps of the
index agree, and `OnlyGetsLoseFiles`: a file on disk is listed in the index, or
someone holds its path and is about to list or to remove it, or a Get removed its
entry without having looked at it (`orphans`). The invariant adds that only a
`FileStore` has files, since `Delete` removes none for the other, and that a
goroutine holds nothing before its request has started it. `DeleteBucket` is
where the agreement of the maps is needed: the keys it finds are all that have
an entry in the bucket. `OnlyFitImages` (`ForwardedFit`) from `Provenance`, which follows
an image from the server to the disk, the index and another request: every file and
every entry of a key was made for a URL of that key, and no image has got past the limit
for one. A request that went on has goroutines that ended, so their sum stays what
`Process` measured.

**`ComposerProofs`.** For all lists of configurations, requests and interleavings:

- `EnginesAreCurrent` and `ImplementsRegistry` from `RepoInv`: the three parts are
  installed in order, and every engine is made of what is installed.
- `AccessIsChecked` from `AccessInv`, which goes through the cache: an entry is there
  only for an organisation that some configuration gave the model.
- `QuietBuildsAreWhole` from `BuildInv`: what a build still has to do and what it has
  are together all the usable names of the configuration it began with, unless the
  repository has moved on.
- `RulesAreFollowed` from `RulesInv`: each engine, building, cached or in use, has the
  final rules of one configuration, and a request's rule is the first that matches
  in it; the rest is arithmetic on the two lists that were put together.
- `RewritesStayOwn` from `OwnInv`: while no engine it was tried on converts, the
  request is the client's again after each attempt, its headers apart.

**`ResponseProofs`**, for answers and their streams.

*Translation.* `KeepsGrammar`: `Translation` implements `ClaudeEvents`, for
chunks of every shape, in any number. What is needed is `Places`, what the goroutine
knows where: a block is open exactly if there is a current kind, except between the
two events that end one block and begin the next; a reason or an end is only sent at
the end. The lemmas on sequences say that all pieces of a chunk have a kind.
`ReasonMeansWhole` (`StopReasonMeansWhole`), from `TellsTheEnd`: until the end is told,
the reason and usage the goroutine keeps are those of the upstream's answer as its
own merger folds it, and the reader has none; `[DONE]` comes before it is told, and
nothing after. The latest usage is the merged one unless a figure was missing from it
(`EmitKeepsUsage`); so the theorem leaves out the usage of a stream with `spread`, and
that one only: the reason, and the usage of an answer that was merged, are always told.

`KeepsAll` (`NothingLost`): two folds of the same chunks agree, the chat completion of
one merger and the message that the other makes of the converter's events. `NothingLost`
speaks of messages that came to their end; its invariant, `LosesNothing`, of every
moment before:

- `Held`: what the blocks have and what the pieces still to convert have, one behind the
  other, is the text of the answer so far, and its thinking.
- `CallsHeld` says so of calls: those that the blocks hold, merged with the fragments
  still to convert, are the calls of the answer. A fragment is merged by its index in one
  fold and goes to the block that is open in the other, so it adds that the open block is
  of the last call there is, and that the pieces go on from there in the order of their
  indices (`PiecesInOrder`). Calls directly behind thinking are excepted (`buried`): the
  converter begins no block for them.
- `Same`: at the end no pieces are left. An answer without a stream is converted as a
  whole, and begins here.

A chunk brings any number of fragments, so each is an induction over the fragments
(`MergedUpTo`) or over the blocks (`BuiltAll`).

`CallsReturn` (`CallsComeBack`): what the client is sent comes back to the upstream. The
request of the next turn is the earlier messages, what the assistant said and a message
for each result (`RequestEnds`, `LastAssistant`). But results without an id are left
out, so that a call would have no answer if its block had begun with a fragment that
has no id. `NamesCalls` is why none does: in what is still to convert, such a fragment is
directly behind another one of its call, and the first of them meets the block, or the
thinking, that it goes on (`Continues`). This holds for calls behind thinking too, which
lose their block but leave none without an id.

*The pipeline.* `ChunksInOrder` (`InOrder`), `NoSpamPasses` (`SpamHeldBack`),
`RepliesComplete` (`Complete`) and `OneWriterOnly` (`OneWriter`), for any number of
chunks, any batch and window, every relay, merged or not, from `ResponseInv`. What the
client has is the end of a chain, so the invariant speaks of each link, and every link
takes a part of it:

- `ConfKept`: the engines of a request stay; its kind changes only when the upstream
  answers without a stream, and then there is nothing to merge.
- `CallInv`, `SourceInv`, `BodyInv`: what the handler has been given at each of its
  places, and which goroutines there are then. A body that is no stream is a single chunk.
- `RelayInv` and `Passed`: what the relay has taken is what the source has handed over;
  what it has sent, may send and has taken are one behind the other; it holds back at
  most a batch, and what it may send has passed the service.
- `DirectInv` and `RelayedInv`: whoever reads the channel has all that its sender has
  sent and nothing else (`Delivered`), and at the end all that was read (`All`). `Known`
  bounds it by what the upstream sent.
- `CtxInv` and `SlotInv`: while the handler reads, a context is only cancelled by the
  client's leaving or by the converter at its end, and the slot of the limiter is held
  while there is something to come, so that nobody cancels a call under its reader.
- `AnsweredInv`: a reply that ended has `All`, unless the client left, a write failed
  or the moderator refused. `Complete` alone is not inductive, as it says nothing
  before the end.
- `WriterInv`: the keep-alive goroutine is over when the handler begins to write.

## 7. What is only model-checked

- Liveness (`CloseCompletes`, `RequestsEnd`, `Drains`): out of the prover's reach.
- `NoStarvation`, which is no theorem: lists of dozens of backends violate it (one
  heavy, one of a tenth of that, the others light). It holds for the few backends of
  the run; `NobodyForgotten` says what holds for every list.
- `UsesPersist` and `OverdraftBounded` of `TokenLimiter` at rates that are not whole,
  where they hold up to rounding (section 5); the run has a token a second.
- The `TypeOK` of `ColorConcurrency`, `TokenLimiter` and the stream modules is proved
  and not among the properties of a run, as it restates the assignments.

## 8. What is not modelled, and why

- Traffic replication: a detached copy of the request with a deadline, which a
  goroutine of its own drains and closes. The copy shares no state with its request
  that another model would tell apart, and its consumer is a simpler one than the
  handler of `StreamPipeline`.
- The repeat detector and the feature extractors of rules: pure functions of one
  text. The expression language: a library; a rule matches by traits of a request.
- Several choices in an answer, images, JSON schemas and sampling parameters in
  the converter; signatures and blocks without deltas in the mergers. Formats other
  than chat and messages have no merger in the code.
- Data races on a word that every writer sets alike (the compiled expression of a
  matcher, the default HTTP client).
- How the image engine finds URLs in a message and rewrites its JSON; the content
  type of an image; files left behind by a crash, which the store leaves to its
  caller.
- Redis itself failing over or losing data; a pipeline over several keys is one
  step, as it is sent in one round trip.
- Disabled and pass-through engines, which keep no state.
- The time between reading the clock and running a script of the color marker and
  limiter, which are one step there (`ConcurrencyLimiter` has them apart). Members are
  purged and added by their scores, so a late script purges less and adds an older one.
- An image store that the configuration supplies (`image_url_fetch.go:104`); empty
  images.
- Bodies and signals that cannot be read, which end a request before the composer
  begins (`rule_composer.go:264-304`); the error that lets a chain of rules go on
  (`rule-engine/engine.go:76-84`), which no engine of the repository returns.
- In the converter, arguments of a call that came truncated out of a merge, and a body
  that cannot be compacted (`claude.go:379-388`, `231`): they end in the error that
  `PlainError` has for other reasons.
- Floating-point error of rates: amounts are exact fractions.
- The JSON-array handler, which is the SSE handler without a keep-alive; sampled
  moderation (every batch is checked); the lines of the event stream protocol
  (a chunk is one value); an event stream that answers a request for a body and
  is recognised by its Content-Type.
- Moderation services and adapters, error bodies, message types and their generated
  lexers, canned answers, metrics, routes and telemetry: stateless or outside.
