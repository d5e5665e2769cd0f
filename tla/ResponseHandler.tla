-------------------------- MODULE ResponseHandler --------------------------
(* The request's own goroutine: httpSSEHandler, the engines it calls down   *)
(* to the HTTP client and back, NonStreamToStreamEngine's merge; and the    *)
(* keep-alive goroutine that writes newlines while a reply takes long.      *)
EXTENDS StreamState

Goto(pc) == handler' = [handler EXCEPT !.pc = pc]
Answer(result) == handler' = [handler EXCEPT !.pc = "settle", !.result = result]

\* RuleComposerEngine tells the keep-alive goroutine what the client asked.
Signal ==
    /\ handler.pc = "start"
    /\ Goto("admit")
    /\ beat' = [beat EXCEPT !.sig = IF conf.kind = "stream" THEN "stream" ELSE "body"]
    /\ UNCHANGED <<conf, up, src, relay, ctx, slot, out, isSpam, gone>>

\* The body cannot be parsed; or the moderator refuses the input, or the
\* limiter the request.
Refused ==
    /\ handler.pc \in {"start", "admit"}
    /\ Answer("error")
    /\ UNCHANGED <<conf, up, src, relay, ctx, slot, out, beat, isSpam, gone>>

Admitted ==
    /\ handler.pc = "admit"
    /\ slot' = "held"
    /\ Goto("call")
    /\ UNCHANGED <<conf, up, src, relay, ctx, out, beat, isSpam, gone>>

\* No connection, a cancelled context or a status other than 200: the
\* limiter returns the slot with the error.
CallFails ==
    /\ handler.pc = "call"
    /\ Answer("error")
    /\ slot' = Freed
    /\ UNCHANGED <<conf, up, src, relay, ctx, out, beat, isSpam, gone>>

\* The reply's head has come: the body is open, and the hook is on the reply.
CallStreams ==
    /\ handler.pc = "call" /\ conf.kind # "plain" /\ ~ctx.req
    /\ src' = [src EXCEPT !.pc = "scan"]
    /\ relay' = [relay EXCEPT !.pc = IF conf.relay = "none" THEN "off" ELSE "recv"]
    /\ IF conf.kind = "merged" THEN Goto("merge") ELSE Answer("stream")
    /\ UNCHANGED <<conf, up, ctx, slot, out, beat, isSpam, gone>>

\* The upstream decides: it may answer without a stream where one was asked
\* for, and then there is nothing to merge either.
CallAnswers ==
    /\ handler.pc = "call" /\ ~ctx.req
    /\ conf' = [conf EXCEPT !.kind = "plain"]
    /\ src' = [src EXCEPT !.pc = "body"]
    /\ IF conf.relay = "none" THEN Answer("body") ELSE Goto("transform")
    /\ UNCHANGED <<up, relay, ctx, slot, out, beat, isSpam, gone>>

\* Reading a non-stream body: it ends, breaks off, or the client is gone.
BodyRead == src.pc = "body" /\ (src.end # "open" \/ ctx.req)
BodyComplete == src.end = "eof"
Usable == /\ BodyComplete
          /\ conf.relay # "rewrite" => up[1] # "broken"
CloseBody == src' = [src EXCEPT !.pc = "exit"]

\* The engine in between reads the whole body. What it cannot read it closes,
\* with the hook; the converter closes what it has read and answers with a
\* body of its own, the others change the body in place and leave the hook.
Transform ==
    /\ handler.pc = "transform" /\ BodyRead /\ CloseBody
    /\ \/ /\ ~Usable
          /\ Answer("error") /\ slot' = Freed /\ UNCHANGED <<out, isSpam>>
       \/ /\ Usable
          /\ conf.relay = "moderate" => up[1] # "spam"
          /\ Answer("body") /\ out' = <<1>> /\ UNCHANGED isSpam
          /\ slot' = IF conf.relay = "convert" THEN Freed ELSE slot
       \/ /\ Usable /\ conf.relay = "moderate"
          /\ isSpam' = TRUE
          /\ \/ Answer("body") /\ out' = <<0>> /\ UNCHANGED slot
             \/ Answer("error") /\ slot' = Freed /\ UNCHANGED out
    /\ UNCHANGED <<conf, up, relay, ctx, beat, gone>>

\* The merge folds chunk after chunk; what it cannot parse is an error.
MergeChunk ==
    /\ handler.pc = "merge"
    /\ \E i \in 0 .. MaxStream :
         /\ HandOver(i)
         /\ IF i > 0 /\ up[i] = "broken"
            THEN Answer("error") /\ CloseStream /\ UNCHANGED out
            ELSE out' = Append(out, i) /\ UNCHANGED <<handler, ctx, slot>>
    /\ UNCHANGED <<conf, up, beat, isSpam, gone>>

\* The channel is closed, for whatever reason: what came is the reply, unless
\* there is nothing to make one of. The deferred Close runs either way.
MergeEnds ==
    /\ handler.pc = "merge" /\ OutClosed
    /\ CloseStream
    /\ Answer("body") \/ Answer("error")
    /\ UNCHANGED <<conf, up, src, relay, out, beat, isSpam, gone>>

\* The engines have answered. The keep-alive goroutine is cancelled and
\* waited for before anything is written.
Returned == {"settle", "reply", "stream", "write", "copy", "close", "end", "over"}

\* Altered: the goroutine is cancelled and not waited for.
NotWaitedFor == TRUE

Quiet == beat.pc = "exit"

Settle ==
    /\ handler.pc = "settle" /\ Quiet
    /\ Goto("reply")
    /\ UNCHANGED <<conf, up, src, relay, ctx, slot, out, beat, isSpam, gone>>

\* The error, or the reply's head.
WriteReply ==
    /\ handler.pc = "reply"
    /\ Goto(CASE handler.result = "stream" -> "stream"
              [] handler.result = "body" -> "copy"
              [] OTHER -> "end")
    /\ UNCHANGED <<conf, up, src, relay, ctx, slot, out, beat, isSpam, gone>>

\* The body is copied to the client as it comes. A body an engine made or
\* read is in memory.
Copy ==
    /\ handler.pc = "copy" /\ (src.pc = "body" => BodyRead)
    /\ Goto("close")
    /\ out' = IF src.pc = "body" /\ BodyComplete THEN <<1>> ELSE out
    /\ UNCHANGED <<conf, up, src, relay, ctx, slot, beat, isSpam, gone>>

NextChunk ==
    /\ handler.pc = "stream"
    /\ \E i \in 0 .. MaxStream : HandOver(i) /\ out' = Append(out, i)
    /\ Goto("write")
    /\ UNCHANGED <<conf, up, ctx, slot, beat, isSpam, gone>>

\* The chunk is written and flushed, or cannot be serialised.
WriteChunk ==
    /\ handler.pc = "write"
    /\ \/ Goto("stream")
       \/ handler' = [handler EXCEPT !.pc = "close", !.cut = TRUE]
    /\ UNCHANGED <<conf, up, src, relay, ctx, slot, out, beat, isSpam, gone>>

StreamOver ==
    /\ handler.pc = "stream" /\ OutClosed
    /\ Goto("close")
    /\ UNCHANGED <<conf, up, src, relay, ctx, slot, out, beat, isSpam, gone>>

\* The deferred Close of the reply. A body the converter or the merge made
\* has no hook of the limiter's.
Close ==
    /\ handler.pc = "close"
    /\ Goto("end")
    /\ IF handler.result = "stream" THEN CloseStream /\ UNCHANGED src
       ELSE /\ src' = IF src.pc = "body" THEN [src EXCEPT !.pc = "exit"] ELSE src
            /\ slot' = IF conf.kind = "merged" \/ conf.relay = "convert" THEN slot ELSE Freed
            /\ UNCHANGED ctx
    /\ UNCHANGED <<conf, up, relay, out, beat, isSpam, gone>>

\* ServeHTTP returns, and the server cancels the request's context.
Over ==
    /\ handler.pc = "end"
    /\ Goto("over")
    /\ ctx' = [ctx EXCEPT !.req = TRUE]
    /\ UNCHANGED <<conf, up, src, relay, slot, out, beat, isSpam, gone>>

ClientLeaves ==
    /\ handler.pc # "over" /\ ~gone
    /\ gone' = TRUE
    /\ ctx' = [ctx EXCEPT !.req = TRUE]
    /\ UNCHANGED <<conf, up, src, relay, slot, handler, out, beat, isSpam>>

BeatCancelled == ctx.req \/ handler.pc \in Returned

\* The keep-alive goroutine waits to hear what was asked; a stream needs none.
BeatStarts ==
    /\ beat.pc = "wait" /\ beat.sig # "none"
    /\ beat' = [beat EXCEPT !.pc = IF beat.sig = "stream" THEN "exit" ELSE "tick", !.sig = "none"]
    /\ UNCHANGED <<conf, up, src, relay, ctx, slot, handler, out, isSpam, gone>>

BeatTicks ==
    /\ beat.pc = "tick" /\ beat.sent < MaxBeats
    /\ beat' = [beat EXCEPT !.pc = "write"]
    /\ UNCHANGED <<conf, up, src, relay, ctx, slot, handler, out, isSpam, gone>>

BeatWrites ==
    /\ beat.pc = "write"
    /\ beat' = [beat EXCEPT !.pc = "tick", !.sent = @ + 1]
    /\ UNCHANGED <<conf, up, src, relay, ctx, slot, handler, out, isSpam, gone>>

BeatEnds ==
    /\ beat.pc \in {"wait", "tick"} /\ BeatCancelled
    /\ beat' = [beat EXCEPT !.pc = "exit"]
    /\ UNCHANGED <<conf, up, src, relay, ctx, slot, handler, out, isSpam, gone>>

BeatStep == BeatStarts \/ BeatTicks \/ BeatWrites \/ BeatEnds

\* The upstream's part in a call, which it may never do.
CallReturns == CallStreams \/ CallAnswers \/ (CallFails /\ ~ctx.req)

HandlerStep ==
    \/ Signal \/ Refused \/ Admitted \/ (CallFails /\ ctx.req)
    \/ Transform \/ MergeChunk \/ MergeEnds
    \/ Settle \/ WriteReply \/ Copy \/ NextChunk \/ WriteChunk \/ StreamOver \/ Close \/ Over
=============================================================================
