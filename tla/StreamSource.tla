---------------------------- MODULE StreamSource ----------------------------
(* HTTPEndpoint: the call to the upstream, and the goroutine that reads its *)
(* event stream (or JSON array) and sends the chunks on.                   *)
EXTENDS StreamState

\* The reading goroutine returns: the body is closed, then the channel.
Stop(end) == src' = [pc |-> "exit", end |-> end]

\* A chunk is complete. The loop looks at its context after every read.
ChunkArrives ==
    /\ src.pc = "scan" /\ ~SourceDone
    /\ Len(up) < MaxStream
    /\ \A i \in 1 .. Len(up) : up[i] # "done"
    /\ \E k \in ChunkKinds : up' = Append(up, k)
    /\ src' = [src EXCEPT !.pc = "send"]
    /\ UNCHANGED <<conf, relay, ctx, slot, handler, out, beat, isSpam, gone>>

\* The whole of a non-stream body has arrived, or its connection broke.
BodyArrives ==
    /\ src.pc = "body" /\ src.end = "open"
    /\ \/ /\ \E k \in ChunkKinds \ {"done"} : up' = <<k>>
          /\ src' = [src EXCEPT !.end = "eof"]
       \/ /\ src' = [src EXCEPT !.end = "error"]
          /\ UNCHANGED up
    /\ UNCHANGED <<conf, relay, ctx, slot, handler, out, beat, isSpam, gone>>

\* The stream ends, or reading it fails: both end the loop, and the channel
\* is closed alike.
UpstreamEnds ==
    /\ src.pc = "scan" /\ ~ctx.req
    /\ \E end \in {"eof", "error"} : Stop(end)
    /\ UNCHANGED <<conf, up, relay, ctx, slot, handler, out, beat, isSpam, gone>>

\* The upstream request carries the context of the incoming one, so its end
\* fails the read. A context cancelled by Close does not: it is noticed only
\* when another line has been read.
ReadCancelled ==
    /\ src.pc = "scan" /\ ctx.req
    /\ Stop(src.end)
    /\ UNCHANGED <<conf, up, relay, ctx, slot, handler, out, beat, isSpam, gone>>

LateLine ==
    /\ src.pc = "scan" /\ ctx.src /\ ~ctx.req
    /\ Stop(src.end)
    /\ UNCHANGED <<conf, up, relay, ctx, slot, handler, out, beat, isSpam, gone>>

\* The send selects on the context too.
SendCancelled ==
    /\ src.pc = "send" /\ SourceDone
    /\ Stop(src.end)
    /\ UNCHANGED <<conf, up, relay, ctx, slot, handler, out, beat, isSpam, gone>>

\* What the goroutine does by itself, whatever the upstream does.
SourceStep == ReadCancelled \/ SendCancelled
=============================================================================
