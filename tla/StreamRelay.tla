---------------------------- MODULE StreamRelay ----------------------------
(* The engines that answer with a stream of their own: each has a goroutine *)
(* that reads the source's channel and sends on one the handler reads.     *)
(* `got` chunks were received, the first `ok` of them may be sent, the     *)
(* first `fwd` of them were: got - fwd are in the moderator's buffer.      *)
EXTENDS StreamState

\* Receiving frees the source to read on.
TakeChunk ==
    /\ relay.pc = "recv" /\ src.pc = "send"
    /\ src' = [src EXCEPT !.pc = "scan"]

\* RewriteEngine sends every chunk on.
RewriteReceives ==
    /\ conf.relay = "rewrite" /\ TakeChunk
    /\ relay' = [pc |-> "flush", got |-> Len(up), ok |-> Len(up), fwd |-> Len(up) - 1]
    /\ UNCHANGED <<conf, up, ctx, slot, handler, out, beat, isSpam, gone>>

\* The converter leaves its loop when its context is cancelled or behind the
\* terminator, and skips a chunk it cannot parse.
ConvertReceives ==
    /\ conf.relay = "convert" /\ TakeChunk
    /\ LET n == Len(up)
       IN  relay' = IF RelayDone THEN [relay EXCEPT !.pc = "finish"]
                    ELSE IF up[n] = "broken"
                    THEN [pc |-> "recv", got |-> n, ok |-> n, fwd |-> n]
                    ELSE [pc |-> IF up[n] = "done" THEN "last" ELSE "flush",
                          got |-> n, ok |-> n, fwd |-> n - 1]
    /\ UNCHANGED <<conf, up, ctx, slot, handler, out, beat, isSpam, gone>>

\* The moderator buffers: a chunk without readable text fails the stream, the
\* terminator is kept and ends the loop, every other one is counted.
ModerateReceives ==
    /\ conf.relay = "moderate" /\ TakeChunk
    /\ LET n == Len(up)
       IN  relay' = IF up[n] = "broken" THEN [relay EXCEPT !.pc = "replace"]
                    ELSE IF up[n] = "done" THEN [relay EXCEPT !.got = n, !.pc = "tail"]
                    ELSE IF n - relay.fwd >= ModerateEvery THEN [relay EXCEPT !.got = n, !.pc = "check"]
                    ELSE [relay EXCEPT !.got = n]
    /\ UNCHANGED <<conf, up, ctx, slot, handler, out, beat, isSpam, gone>>

\* Texts so far, and what the service is shown of them: the last MaxRunes.
Texts == {i \in 1 .. relay.got : up[i] \in {"text", "spam"}}
\* Altered: a long text is cut at its end.
ShownHead == {i \in Texts : Cardinality({j \in Texts : j < i}) < MaxRunes}

Shown == {i \in Texts : Cardinality({j \in Texts : j > i}) < MaxRunes}

\* The service refuses what has spam in it, and may fail on anything.
Check ==
    /\ relay.pc \in {"check", "tail"}
    /\ \/ /\ \A i \in Shown : up[i] # "spam"
          /\ relay' = [relay EXCEPT !.ok = relay.got,
                                    !.pc = IF relay.pc = "check" THEN "flush" ELSE "last"]
       \/ /\ Shown # {}
          /\ relay' = [relay EXCEPT !.pc = "replace"]
    /\ UNCHANGED <<conf, up, src, ctx, slot, handler, out, beat, isSpam, gone>>

\* A refused buffer becomes one replacement chunk, if the adapter makes one.
Replace ==
    /\ relay.pc = "replace"
    /\ \/ relay.got > relay.fwd /\ relay' = [relay EXCEPT !.pc = "swap"]
       \/ relay' = [relay EXCEPT !.pc = "exit"]
    /\ isSpam' = TRUE
    /\ UNCHANGED <<conf, up, src, ctx, slot, handler, out, beat, gone>>

\* Altered: what the moderator holds when the stream ends is lost.
SourceClosedTailLost ==
    /\ relay.pc = "recv" /\ src.pc = "exit"
    /\ relay' = [relay EXCEPT !.pc = LoopLeft]
    /\ UNCHANGED <<conf, up, src, ctx, slot, handler, out, beat, isSpam, gone>>

\* The source's channel is closed. What the moderator still holds is checked.
SourceClosed ==
    /\ relay.pc = "recv" /\ src.pc = "exit"
    /\ relay' = [relay EXCEPT !.pc = IF conf.relay # "convert" /\ relay.got > relay.fwd THEN "tail"
                                       ELSE LoopLeft]
    /\ UNCHANGED <<conf, up, src, ctx, slot, handler, out, beat, isSpam, gone>>

\* A send that saw its context end. The converter logs it and, but for the
\* terminator, reads on.
RelayCancelled ==
    /\ relay.pc \in {"flush", "last", "swap"} /\ RelayDone
    /\ relay' = [relay EXCEPT !.pc = IF conf.relay = "convert" /\ relay.pc # "last" THEN "recv"
                                       ELSE LoopLeft]
    /\ UNCHANGED <<conf, up, src, ctx, slot, handler, out, beat, isSpam, gone>>

\* Altered: the converter does not close its source.
ConvertFinishesOpen ==
    /\ relay.pc = "finish"
    /\ ctx' = [ctx EXCEPT !.relay = TRUE]
    /\ relay' = [relay EXCEPT !.pc = "exit"]
    /\ UNCHANGED <<conf, up, src, slot, handler, out, beat, isSpam, gone>>

\* The converter's defers: cancel, close the source, close its channel.
ConvertFinishes ==
    /\ relay.pc = "finish"
    /\ ctx' = [ctx EXCEPT !.relay = TRUE, !.src = TRUE]
    /\ slot' = Freed
    /\ relay' = [relay EXCEPT !.pc = "exit"]
    /\ UNCHANGED <<conf, up, src, handler, out, beat, isSpam, gone>>

RelayStep == \/ RewriteReceives \/ ConvertReceives \/ ModerateReceives
             \/ Check \/ Replace \/ SourceClosed \/ RelayCancelled \/ ConvertFinishes
=============================================================================
