---------------------------- MODULE StreamState ----------------------------
(* What the goroutines that serve one request share: the upstream          *)
(* connection, the contexts, the concurrency slot and the channels between *)
(* the HTTP client, the engine that rewrites its stream, and the handler.  *)
(* A chunk is named by its place in `up`, the chunks the upstream sent; 0  *)
(* is the chunk a moderator puts in the place of a refused one.            *)
EXTENDS Naturals, Sequences, FiniteSets

CONSTANTS
    MaxStream,      \* bound: chunks the upstream sends
    ModerateEvery,  \* chunks between two checks of the moderator
    MaxRunes,       \* text the moderation service takes, in chunks
    MaxBeats        \* bound: keep-alive newlines

\* A batch fits the moderation service. A longer one is cut to its tail by
\* the code, and what is cut off is forwarded unchecked.
ASSUME StreamAssumption ==
    /\ MaxStream \in Nat \ {0} /\ MaxBeats \in Nat
    /\ ModerateEvery \in Nat \ {0}
    /\ MaxRunes \in Nat /\ ModerateEvery <= MaxRunes

ChunkKinds == {"text", "spam", "done", "broken"}

VARIABLES
    conf,     \* the request's kind, plain once it is answered without a
              \* stream, and the engine between client and handler
    up,       \* kinds of the chunks read from the upstream, in order
    src,      \* the client's reading goroutine, and how the upstream ended
    relay,    \* the goroutine of the engine in between
    ctx,      \* which contexts are cancelled
    slot,     \* the slot of the concurrency limiter around the client
    handler,  \* the request's own goroutine
    out,      \* chunks the handler, or the merging engine, has taken
    beat,     \* the keep-alive goroutine
    isSpam,   \* the request's metadata: the moderator blocked its output
    gone      \* the HTTP client went away

streamVars == <<conf, up, src, relay, ctx, slot, handler, out, beat, isSpam, gone>>

\* "stream": the client asked for a stream; "merged": it did not, and
\* NonStreamToStreamEngine asks the upstream for one; "plain": neither.
RequestKinds == {"stream", "merged", "plain"}
Relays == {"none", "rewrite", "convert", "moderate"}

SourceDone == ctx.req \/ ctx.src
RelayDone == ctx.req \/ ctx.relay

\* The limiter's done, run by the hook it left on the response.
Freed == IF slot = "held" THEN "freed" ELSE "twice"

\* resp.Stream.Close(): the converter's only cancels its own context, and
\* leaves the source to its goroutine; the others close the source, which
\* cancels the client and runs the limiter's hook, then cancel themselves.
CloseStream ==
    /\ ctx' = [ctx EXCEPT !.relay = TRUE, !.src = @ \/ conf.relay # "convert"]
    /\ slot' = IF conf.relay = "convert" THEN slot ELSE Freed

\* Where the engine's goroutine goes from its loop: the converter has more to
\* do than to close its channel.
LoopLeft == IF conf.relay = "convert" THEN "finish" ELSE "exit"

\* Altered: the last chunk of a batch stays in the buffer.
ForwardedAgain(i) ==
    [relay EXCEPT !.fwd = IF i < relay.ok \/ relay.pc = "last" THEN i ELSE i - 1,
                  !.pc = IF i < relay.ok THEN relay.pc
                         ELSE IF relay.pc = "last" THEN LoopLeft ELSE "recv"]

\* Chunk i is sent: the next of the batch follows, or the loop goes on.
Forwarded(i) ==
    [relay EXCEPT !.fwd = i,
                  !.pc = IF i < relay.ok THEN relay.pc
                         ELSE IF relay.pc = "last" THEN LoopLeft ELSE "recv"]

\* The consumer's channel gives chunk i: an unbuffered channel, so the sender
\* moves on in the same step.
HandOver(i) ==
    \/ /\ conf.relay = "none" /\ src.pc = "send" /\ i = Len(up)
       /\ src' = [src EXCEPT !.pc = "scan"]
       /\ UNCHANGED relay
    \/ /\ relay.pc \in {"flush", "last"} /\ i = relay.fwd + 1
       /\ relay' = Forwarded(i)
       /\ UNCHANGED src
    \/ /\ relay.pc = "swap" /\ i = 0
       /\ relay' = [relay EXCEPT !.pc = "exit"]
       /\ UNCHANGED src

\* The consumer's channel is closed.
OutClosed == IF conf.relay = "none" THEN src.pc = "exit" ELSE relay.pc = "exit"
=============================================================================
