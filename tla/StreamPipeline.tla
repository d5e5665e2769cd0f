-------------------------- MODULE StreamPipeline --------------------------
(* One request from the handler to the upstream and back, with every        *)
(* goroutine that serves it. The limiter stands around the HTTP client, one *)
(* engine (or none) around the limiter, and NonStreamToStreamEngine around  *)
(* that when the client wants no stream.                                    *)
EXTENDS StreamSource, StreamRelay, ResponseHandler

StreamInit ==
    /\ conf \in [kind : RequestKinds, relay : Relays]
    /\ up = <<>> /\ out = <<>> /\ slot = "none"
    /\ gone = FALSE /\ isSpam = FALSE
    /\ src = [pc |-> "off", end |-> "open"]
    /\ relay = [pc |-> "off", got |-> 0, ok |-> 0, fwd |-> 0]
    /\ ctx = [req |-> FALSE, src |-> FALSE, relay |-> FALSE]
    /\ handler = [pc |-> "start", result |-> "none", cut |-> FALSE]
    /\ beat = [pc |-> "wait", sig |-> "none", sent |-> 0]

IsOver(g) == g.pc \in {"off", "exit"}
Released == IsOver(src) /\ IsOver(relay) /\ beat.pc = "exit" /\ slot \in {"none", "freed"}

\* Nothing is left to do: a state without a step elsewhere is a deadlock.
ResponseOver == handler.pc = "over" /\ Released /\ UNCHANGED streamVars

StreamNext ==
    \/ ChunkArrives \/ BodyArrives \/ UpstreamEnds \/ LateLine \/ CallReturns
    \/ SourceStep \/ RelayStep \/ HandlerStep \/ BeatStep
    \/ ClientLeaves \/ ResponseOver

\* Every goroutine runs on, and the moderation service answers. The upstream
\* owes nothing: it may fall silent before the call returns or in mid-stream.
StreamSpec == StreamInit /\ [][StreamNext]_streamVars
        /\ WF_streamVars(SourceStep) /\ WF_streamVars(RelayStep)
        /\ WF_streamVars(HandlerStep) /\ WF_streamVars(BeatStep)

Sources == [pc : {"off", "scan", "send", "body", "exit"}, end : {"open", "eof", "error"}]
RelayStates == [pc : {"off", "recv", "check", "tail", "flush", "last", "replace", "swap", "finish", "exit"},
                got : 0 .. MaxStream, ok : 0 .. MaxStream, fwd : 0 .. MaxStream]
Handlers == [pc : {"start", "admit", "call", "transform", "merge"} \cup Returned,
             result : {"none", "error", "stream", "body"}, cut : BOOLEAN]
Beats == [pc : {"wait", "tick", "write", "exit"}, sig : {"none", "stream", "body"}, sent : 0 .. MaxBeats]

TypeOK ==
    /\ conf \in [kind : RequestKinds, relay : Relays]
    /\ up \in Seq(ChunkKinds) /\ Len(up) <= MaxStream
    /\ out \in Seq(0 .. MaxStream)
    /\ src \in Sources /\ relay \in RelayStates /\ handler \in Handlers /\ beat \in Beats
    /\ relay.fwd <= relay.got /\ relay.ok <= relay.got /\ relay.got <= Len(up)
    /\ ctx \in [req : BOOLEAN, src : BOOLEAN, relay : BOOLEAN]
    /\ slot \in {"none", "held", "freed"} /\ gone \in BOOLEAN /\ isSpam \in BOOLEAN

\* What a moderator refuses never reaches the client, in whatever batch and
\* at whatever end of the stream it came (TextModeratorEngine.Process holds
\* chunks back until a check that covers them has passed).
SpamHeldBack ==
    conf.relay = "moderate" => \A n \in 1 .. Len(out) : out[n] > 0 => up[out[n]] # "spam"

\* What the consumer takes are the upstream's chunks, in order and without a
\* gap but for what the converter cannot parse; a replacement comes last.
Taken == {out[n] : n \in 1 .. Len(out)}
Skipped(i) == up[i] = "broken" /\ conf.relay = "convert"
InOrder ==
    \A n \in 1 .. Len(out) :
      IF out[n] = 0 THEN n = Len(out)
      ELSE /\ \A m \in 1 .. n - 1 : out[m] < out[n]
           /\ \A i \in 1 .. out[n] : i \in Taken \/ Skipped(i)

\* A reply that ends early has a reason: the client left, a chunk could not be
\* written, or the moderator refused (isSpam). Else the client has all that was
\* read before the upstream ended or broke off, a moderator's tail included.
Unhindered == ~gone /\ ~handler.cut /\ ~isSpam
Complete ==
    (handler.pc = "over" /\ handler.result \in {"stream", "body"} /\ Unhindered) =>
        \A i \in 1 .. Len(up) : i \in Taken \/ Skipped(i)

\* The keep-alive newlines come before the reply and never into a stream:
\* the response writer has one user at a time.
OneWriter ==
    /\ beat.pc = "write" => handler.pc \notin Returned \ {"settle"}
    /\ beat.sent > 0 => handler.result # "stream"

\* The request ends when the client leaves or the upstream ends, and then all
\* goroutines end, the upstream's body is closed and the slot is returned,
\* once.
Drains ==
    /\ (gone \/ src.end # "open") ~> (handler.pc = "over")
    /\ (handler.pc = "over") ~> []Released
=============================================================================
