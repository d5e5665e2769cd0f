----------------------------- MODULE Translation -----------------------------
(***************************************************************************)
(* A Claude client and an upstream that speaks chat completions: the       *)
(* Claude converter between them, with NonStreamToStreamEngine in front of *)
(* it or not.  The upstream's answer comes in chunks; the goroutine of     *)
(* convertStreamResponse makes events of each, one at a time, for a reader *)
(* (the client, or the merger of NonStreamToStreamEngine) that folds them  *)
(* into a message.  Afterwards the client answers the calls of that        *)
(* message, and its whole history goes upstream.                           *)
(*                                                                         *)
(* The channel has no buffer: that an event is sent and read is one step.  *)
(***************************************************************************)
EXTENDS ClaudeConversion

CONSTANTS
    Asks,        \* the requests of the client
    Allowlists,  \* of NonStreamToStreamEngine; Nil where there is none
    Shapes,      \* what a chunk can be like
    MaxChunks    \* bound: how many the upstream sends

\* A client's request has lists of texts and of messages, these of blocks.
ASSUME AsksAssumption == \A req \in Asks :
    /\ {"system", "messages"} \subseteq DOMAIN req
    /\ req.system \in Seq(STRING)
    /\ req.messages \in
          Seq([role : STRING, content : Seq([kind : STRING, id : Nat \cup {Nil}, data : Data])])

\* The calls of a chunk are a list of fragments.  A usage has all its
\* figures, and Nil is none.
Usages == [{"prompt", "completion", "cached"} -> Nat]
ASSUME ShapesAssumption ==
    /\ \A shape \in Shapes :
          /\ {shape.thinking, shape.text} \subseteq {"none", "blank", "some"}
          /\ shape.calls \in Seq({"new", "empty", "bare", "more"})
          /\ shape.usage \in Usages \cup {Nil}
    /\ \A figures \in SUBSET {"input", "output", "cacheRead"} : Nil \notin [figures -> Int]

VARIABLES
    asked,    \* the client's request
    mode,     \* stream, merged or plain; new before
    request,  \* what the upstream is asked
    (* the upstream *)
    chunks,   \* how many chunks it has sent
    latest,   \* the kind of the last piece it sent
    buried,   \* history: it sent a call directly after thinking
    spread,   \* history: a usage lacked a figure that an earlier one had
    chat,     \* its answer so far, as the chat merger folds it
    done,     \* it has sent [DONE]
    (* the converter *)
    at,          \* where its goroutine is
    started,
    kind,        \* currentBlockType, Nil for none
    toolIndex,   \* currentToolCallIndex
    blockIndex,  \* currentBlockIndex
    todo,        \* the pieces of the chunk still to convert
    finish,      \* pendingFinishReason
    usage,       \* pendingUsage
    (* the reader *)
    sent,      \* history: the last event
    count,     \* history: how many there were
    message,   \* what it has made of the events
    cancelled  \* it has left: the context is cancelled

client == <<asked, mode, request>>
upstream == <<chunks, latest, buried, spread, chat, done>>
converter == <<at, started, kind, toolIndex, blockIndex, todo, finish, usage>>
reader == <<sent, count, message, cancelled>>
vars == <<client, upstream, converter, reader>>

-----------------------------------------------------------------------------
(* The request.                                                            *)

\* For: the formats that have a merger.
HasMerger(format) == format \in {"chat", "messages"}

\* NonStreamToStreamEngine.Process asks for a stream: it is there, allows
\* the format, and the client did not ask for one itself.
Forced(req, allowlist) ==
    /\ allowlist # Nil
    /\ allowlist = {} \/ req.format \in allowlist
    /\ ~req.stream
    /\ HasMerger(req.format)

\* bodyStreamRequest: a copy; the request of the outer engines stays.
ToStreamRequest(req) == [req EXCEPT !.stream = TRUE]

Ask ==
    /\ mode = "new"
    /\ \E req \in Asks, allowlist \in Allowlists :
          /\ asked' = req
          /\ IF Forced(req, allowlist)
             THEN mode' = "merged" /\ request' = ConvertedRequest(ToStreamRequest(req))
             ELSE /\ mode' = IF req.stream THEN "stream" ELSE "plain"
                  /\ request' = ConvertedRequest(req)
    /\ UNCHANGED <<upstream, converter, reader>>

-----------------------------------------------------------------------------
(* The upstream.  A shape says for thinking and text whether they are      *)
(* none, blank or some; calls lists its fragments of calls: new, empty (no *)
(* arguments yet), bare (no function at all), or more of the last one.     *)

Text(what) == CASE what = "none" -> Nil [] what = "blank" -> <<>> [] what = "some" -> <<chunks + 1>>

Fragment(shape, i) ==
    LET begun == Len(chat.calls) + Len(Selected(SubSeq(shape.calls, 1, i), LAMBDA c : c # "more"))
        what == shape.calls[i]
    IN  [index |-> begun - 1,
         id |-> IF what = "more" THEN Nil ELSE begun,
         function |-> CASE what = "bare" -> Nil [] what = "empty" -> <<>> [] OTHER -> <<chunks + 1>>]

Chunk(shape) ==
    [thinking |-> Text(shape.thinking), text |-> Text(shape.text),
     calls |-> [i \in DOMAIN shape.calls |-> Fragment(shape, i)],
     finish |-> shape.finish, usage |-> shape.usage]

\* The fragments of a call follow each other directly.
Possible(shape) ==
    (IF shape.calls = <<>> THEN FALSE ELSE shape.calls[1] = "more")
        => latest = "tool_use" /\ shape.thinking # "some" /\ shape.text # "some"

\* A usage may come several times, and in parts.
LacksFigure(shape) ==
    /\ shape.usage # Nil /\ chat.usage # Nil
    /\ \E figure \in DOMAIN shape.usage : chat.usage[figure] # 0 /\ shape.usage[figure] = 0

Before(shape) ==
    IF shape.text = "some" THEN "text" ELSE IF shape.thinking = "some" THEN "thinking" ELSE latest

\* The upstream side of a chunk.
Emit(shape) ==
    /\ Possible(shape)
    /\ chunks < MaxChunks
    /\ ~done
    /\ chunks' = chunks + 1
    /\ latest' = IF shape.calls # <<>> THEN "tool_use" ELSE Before(shape)
    /\ buried' = (buried \/ (shape.calls # <<>> /\ Before(shape) = "thinking"))
    /\ spread' = (spread \/ LacksFigure(shape))
    /\ chat' = ChatMerge(chat, Chunk(shape))
    /\ UNCHANGED done

-----------------------------------------------------------------------------
(* The goroutine of convertStreamResponse.                                 *)

Piece(k, index, id, data) == [kind |-> k, index |-> index, id |-> id, data |-> data]

\* What there is to convert in a chunk, in order.
Pieces(chunk) ==
    (IF chunk.thinking \notin {Nil, <<>>} THEN <<Piece("thinking", 0, Nil, chunk.thinking)>> ELSE <<>>)
    \o (IF chunk.text \notin {Nil, <<>>} THEN <<Piece("text", 0, Nil, chunk.text)>> ELSE <<>>)
    \o [i \in DOMAIN chunk.calls |->
           Piece("tool_use", chunk.calls[i].index, chunk.calls[i].id, chunk.calls[i].function)]

\* A chunk comes and the reader is there.
Receive(shape) ==
    /\ mode \in {"stream", "merged"} /\ at = "receive" /\ ~cancelled
    /\ Emit(shape)
    /\ todo' = Pieces(Chunk(shape))
    /\ finish' = IF shape.finish # Nil THEN shape.finish ELSE finish
    /\ usage' = IF shape.usage # Nil THEN shape.usage ELSE usage
    /\ at' = IF started THEN "piece" ELSE "start"
    /\ UNCHANGED <<client, started, kind, toolIndex, blockIndex, reader>>

\* One that cannot be parsed is skipped.
Unparsable ==
    /\ mode \in {"stream", "merged"} /\ at = "receive" /\ ~cancelled
    /\ chunks < MaxChunks /\ ~done
    /\ chunks' = chunks + 1
    /\ UNCHANGED <<client, latest, buried, spread, chat, done, converter, reader>>

\* [DONE] is the last thing in the channel.
ReceiveDone ==
    /\ mode \in {"stream", "merged"} /\ at = "receive" /\ ~cancelled
    /\ ~done
    /\ done' = TRUE
    /\ at' = "finish"
    /\ UNCHANGED <<client, chunks, latest, buried, spread, chat, started, kind, toolIndex, blockIndex,
                   todo, finish, usage, reader>>

\* Altered: what is known of the end is told then.
LeaveTelling ==
    /\ mode \in {"stream", "merged"} /\ at = "receive"
    /\ at' = "over"
    /\ IF finish # Nil
       THEN /\ count' = count + 1
            /\ sent' = MessageTold(MapFinishReason(finish), ClaudeUsage(usage))
            /\ message' = ClaudeMerge(message, sent')
       ELSE UNCHANGED <<sent, count, message>>
    /\ UNCHANGED <<client, upstream, started, kind, toolIndex, blockIndex, todo, finish, usage, cancelled>>
\* The channel is closed without it, or something comes after the reader
\* left: the goroutine ends, and closes the channel of events.
Leave ==
    /\ mode \in {"stream", "merged"} /\ at = "receive"
    /\ at' = "over"
    /\ UNCHANGED <<client, upstream, started, kind, toolIndex, blockIndex, todo, finish, usage, reader>>

\* sendEvent, with the reader's part.
Send(event) ==
    /\ sent' = event
    /\ count' = count + 1
    /\ message' = ClaudeMerge(message, event)
    /\ UNCHANGED cancelled

SendStart ==
    /\ at = "start"
    /\ Send(Plain("message_start"))
    /\ started' = TRUE
    /\ at' = "piece"
    /\ UNCHANGED <<client, upstream, kind, toolIndex, blockIndex, todo, finish, usage>>

\* All of the chunk is converted.
ChunkDone ==
    /\ at = "piece" /\ todo = <<>>
    /\ at' = "receive"
    /\ UNCHANGED <<client, upstream, started, kind, toolIndex, blockIndex, todo, finish, usage, reader>>

\* Altered: fragments of another call go into the block of the first.
NeedsBlockOfKind(piece) ==
    IF piece.kind = "tool_use" THEN kind \in {Nil, "text"} ELSE kind # piece.kind
\* needNewBlock, by the three switches: the one for calls has no case for a
\* thinking block.
NeedsBlock(piece) ==
    IF piece.kind = "tool_use"
    THEN kind \in {Nil, "text"} \/ (kind = "tool_use" /\ toolIndex # piece.index)
    ELSE kind # piece.kind

\* Altered: the open block is not stopped before the next one.
StopBlockSkipped ==
    /\ at = "piece" /\ todo # <<>>
    /\ kind # Nil
    /\ NeedsBlock(Head(todo))
    /\ at' = "begin"
    /\ UNCHANGED <<client, upstream, started, kind, toolIndex, blockIndex, todo, finish, usage, reader>>
StopBlock ==
    /\ at = "piece" /\ todo # <<>>
    /\ kind # Nil
    /\ NeedsBlock(Head(todo))
    /\ Send(BlockEvent("content_block_stop", blockIndex))
    /\ at' = "begin"
    /\ UNCHANGED <<client, upstream, started, kind, toolIndex, blockIndex, todo, finish, usage>>

\* The name of a call is read from its function.
StartsBlock == at = "begin" \/ (at = "piece" /\ todo # <<>> /\ kind = Nil)
NoFunction == Head(todo).kind = "tool_use" /\ Head(todo).data = Nil

StartBlock ==
    /\ StartsBlock /\ ~NoFunction
    /\ Send(BlockStarted(blockIndex + 1, Head(todo).kind, Head(todo).id))
    /\ blockIndex' = blockIndex + 1
    /\ kind' = Head(todo).kind
    /\ toolIndex' = IF Head(todo).kind = "tool_use" THEN Head(todo).index ELSE toolIndex
    /\ at' = "piece"
    /\ UNCHANGED <<client, upstream, started, todo, finish, usage>>

\* Where there is none, the goroutine panics; its deferred calls close the
\* channel.
Panic ==
    /\ StartsBlock /\ NoFunction
    /\ at' = "over"
    /\ UNCHANGED <<client, upstream, started, kind, toolIndex, blockIndex, todo, finish, usage, reader>>

\* A fragment of a call may have no arguments.
Silent(piece) == piece.data = Nil \/ piece.data = <<>>
InBlock == at = "piece" /\ todo # <<>> /\ kind # Nil /\ ~NeedsBlock(Head(todo))

SendDelta ==
    /\ InBlock /\ ~Silent(Head(todo))
    /\ Send(Delta(blockIndex, Head(todo).kind, Head(todo).data))
    /\ todo' = Tail(todo)
    /\ UNCHANGED <<client, upstream, at, started, kind, toolIndex, blockIndex, finish, usage>>
NoDelta ==
    /\ InBlock /\ Silent(Head(todo))
    /\ todo' = Tail(todo)
    /\ UNCHANGED <<client, upstream, at, started, kind, toolIndex, blockIndex, finish, usage, reader>>

\* After [DONE]: the open block, the reason and the usage, the end.
LastStop ==
    /\ at = "finish" /\ kind # Nil
    /\ Send(BlockEvent("content_block_stop", blockIndex))
    /\ kind' = Nil
    /\ UNCHANGED <<client, upstream, at, started, toolIndex, blockIndex, todo, finish, usage>>
SendReason ==
    /\ at = "finish" /\ kind = Nil /\ finish # Nil
    /\ Send(MessageTold(MapFinishReason(finish), ClaudeUsage(usage)))
    /\ finish' = Nil
    /\ at' = "stop"
    /\ UNCHANGED <<client, upstream, started, kind, toolIndex, blockIndex, todo, usage>>
SendStop ==
    /\ at = "stop" \/ (at = "finish" /\ kind = Nil /\ finish = Nil)
    /\ Send(Plain("message_stop"))
    /\ at' = "over"
    /\ UNCHANGED <<client, upstream, started, kind, toolIndex, blockIndex, todo, finish, usage>>

\* Sending to a reader that has left may fail (or not: select takes either
\* branch).  Of a chunk the rest is given up, but of its calls only the one
\* at hand; the index of a block that could not start is used up.
Drop ==
    /\ cancelled
    /\ at \in {"start", "piece", "begin", "finish", "stop"}
    /\ at = "piece" => todo # <<>>
    /\ ~(StartsBlock /\ NoFunction)
    /\ blockIndex' = IF StartsBlock THEN blockIndex + 1 ELSE blockIndex
    /\ IF at \in {"finish", "stop"}
       THEN at' = "over" /\ UNCHANGED todo
       ELSE IF at # "start" /\ Head(todo).kind = "tool_use"
       THEN at' = "piece" /\ todo' = Tail(todo)
       ELSE at' = "receive" /\ todo' = <<>>
    /\ UNCHANGED <<client, upstream, started, kind, toolIndex, finish, usage, reader>>

Cancel ==
    /\ mode \in {"stream", "merged"} /\ at \notin {"over", "again"}
    /\ ~cancelled
    /\ cancelled' = TRUE
    /\ UNCHANGED <<client, upstream, converter, sent, count, message>>

-----------------------------------------------------------------------------
(* An answer that is no stream; it comes as a whole, here chunk by chunk.  *)

PlainMore(shape) ==
    /\ mode = "plain" /\ at = "receive"
    /\ Emit(shape)
    /\ UNCHANGED <<client, converter, reader>>
PlainAnswer ==
    /\ mode = "plain" /\ at = "receive"
    /\ ~Unmarshallable(chat)
    /\ done' = TRUE
    /\ message' = ConvertedWhole(chat)
    /\ at' = "over"
    /\ UNCHANGED <<client, chunks, latest, buried, spread, chat, started, kind, toolIndex, blockIndex,
                   todo, finish, usage, sent, count, cancelled>>
\* The upstream fails, or its answer cannot be marshalled.
PlainError ==
    /\ mode = "plain" /\ at = "receive"
    /\ at' = "over"
    /\ UNCHANGED <<client, upstream, started, kind, toolIndex, blockIndex, todo, finish, usage, reader>>

-----------------------------------------------------------------------------
(* The next turn.                                                          *)

HasEnded == sent.type = "message_stop" \/ (mode = "plain" /\ done)

\* The client answers the calls in one message, with text before or behind.
Result(use) == [kind |-> "tool_result", id |-> use.id, data |-> <<0>>]
Note == [kind |-> "text", id |-> Nil, data |-> <<0>>]
Reply(uses, first, last) ==
    [role |-> "user",
     content |-> (IF first THEN <<Note>> ELSE <<>>) \o [i \in DOMAIN uses |-> Result(uses[i])]
                 \o (IF last THEN <<Note>> ELSE <<>>)]
History(content, first, last) ==
    asked.messages
    \o <<[role |-> "assistant", content |-> content], Reply(Only(content, {"tool_use"}), first, last)>>

NextTurn ==
    /\ at = "over" /\ HasEnded /\ ~cancelled
    /\ \E first, last \in BOOLEAN :
          /\ first \/ last \/ Only(Content(message), {"tool_use"}) # <<>>
          /\ request' = ConvertedRequest([asked EXCEPT !.messages = History(Content(message), first, last)])
    /\ at' = "again"
    /\ UNCHANGED <<asked, mode, upstream, started, kind, toolIndex, blockIndex, todo, finish, usage, reader>>

AllOver ==
    /\ at = "again" \/ (at = "over" /\ ~(HasEnded /\ ~cancelled))
    /\ UNCHANGED vars

Init ==
    /\ asked = Nil /\ mode = "new" /\ request = Nil
    /\ chunks = 0 /\ latest = Nil /\ buried = FALSE /\ spread = FALSE /\ chat = NoChat /\ done = FALSE
    /\ at = "receive" /\ started = FALSE
    /\ kind = Nil /\ toolIndex = -1 /\ blockIndex = -1
    /\ todo = <<>> /\ finish = Nil /\ usage = Nil
    /\ sent = Plain("none") /\ count = 0 /\ message = NoMessage /\ cancelled = FALSE

Next ==
    \/ Ask
    \/ \E shape \in Shapes : Receive(shape) \/ PlainMore(shape)
    \/ Unparsable \/ ReceiveDone \/ Leave
    \/ SendStart \/ ChunkDone \/ StopBlock \/ StartBlock \/ Panic \/ SendDelta \/ NoDelta
    \/ LastStop \/ SendReason \/ SendStop \/ Drop \/ Cancel
    \/ PlainAnswer \/ PlainError
    \/ NextTurn \/ AllOver

Spec == Init /\ [][Next]_vars
-----------------------------------------------------------------------------
(* Properties.                                                             *)

\* The events keep the grammar of a Claude stream, whatever the chunks and
\* wherever a failure falls, as long as the reader is there.
Events == INSTANCE ClaudeEvents WITH
    stage <- IF cancelled THEN "abandoned"
             ELSE IF sent.type = "message_stop" THEN "ended"
             ELSE IF ~started THEN "fresh"
             ELSE IF sent.type = "message_delta" THEN "told"
             ELSE IF kind = Nil \/ sent.type = "content_block_stop" THEN "message"
             ELSE "block",
    blocks <- blockIndex + 1,
    event <- [type |-> sent.type, index |-> sent.index]
ClaudeEventsSpec == Events!Spec

\* What a merged or streamed answer has of one kind, and what the chat had.
TextOf(k) == Concat(DataOf(Only(Content(message), {k})))
Told(text) == IF text = Nil THEN <<>> ELSE text
CallsOf(content) ==
    LET uses == Only(content, {"tool_use"})
    IN  [i \in DOMAIN uses |-> [id |-> uses[i].id, args |-> uses[i].data]]
ChatCalls ==
    LET calls == WithFunction(chat.calls)
    IN  [i \in DOMAIN calls |-> [id |-> calls[i].id,
                                 args |-> IF calls[i].args = <<>> THEN EmptyObject ELSE calls[i].args]]

\* A message that came to its end has all that the chunks had, in the order
\* of each kind, whether it was streamed, merged or converted as a whole:
\* both ways of the converter say the same.  Calls that directly follow
\* thinking are the exception: their fragments go into the thinking block.
NothingLost ==
    HasEnded =>
        /\ TextOf("thinking") = Told(chat.thinking)
        /\ TextOf("text") = Told(chat.text)
        /\ ~buried => CallsOf(Content(message)) = ChatCalls

\* A reader that is given a stop reason has the answer to its end, with the
\* last reason and the usage of the upstream: one that broke off, or that the
\* converter gave up, has none, also when NonStreamToStreamEngine makes a reply
\* of it that looks complete.  The exception is a usage spread over chunks: of a
\* stream the converter tells the last one alone, and loses the figures (those of
\* the cache, say) that only earlier ones had, where the merger keeps them.
StopReasonMeansWhole ==
    message.stop # Nil =>
        /\ done
        /\ chat.finish # Nil => message.stop = MapFinishReason(chat.finish)
        /\ chat.usage # Nil /\ (mode = "plain" \/ ~spread) =>
              \A field \in DOMAIN ClaudeUsage(chat.usage) :
                  message.usage[field] = ClaudeUsage(chat.usage)[field]

\* In the next turn the upstream is shown the text and the calls it made in
\* this one (but its thinking, and but calls buried in it), and directly
\* behind them one answer to each.
Assistant(messages) == CHOOSE i \in DOMAIN messages :
    /\ messages[i].role = "assistant"
    /\ \A j \in DOMAIN messages : messages[j].role = "assistant" => j <= i
CallsComeBack ==
    at = "again" =>
        LET i == Assistant(request.messages)
            told == request.messages[i]
            n == Len(told.calls)
        IN  /\ Concat(told.parts) = Told(chat.text)
            /\ ~buried => [j \in 1 .. n |-> [id |-> told.calls[j].id, args |-> told.calls[j].args]] = ChatCalls
            /\ \A j \in 1 .. n : \E k \in 1 .. n :
                  /\ i + k <= Len(request.messages)
                  /\ request.messages[i + k].answers = told.calls[j].id
            /\ \A k \in i + n + 1 .. Len(request.messages) : request.messages[k].role = "user"
=============================================================================
