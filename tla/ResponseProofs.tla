---------------------------- MODULE ResponseProofs ----------------------------
(***************************************************************************)
(* Theorems about what becomes of a reply: the chunks of Translation, for  *)
(* chunks of every make in any number, and the goroutines of               *)
(* StreamPipeline, for every number of chunks, batches of every size and   *)
(* any number of heartbeats, wherever the upstream breaks off and the      *)
(* reader leaves.                                                          *)
(***************************************************************************)
EXTENDS Translation, StreamPipeline, FoldTheorems, FiniteSetTheorems, SequenceTheorems, TLAPS

-----------------------------------------------------------------------------
(* The converter's stream keeps the grammar of Claude events.              *)
(*                                                                         *)
(* The proof rests on what the goroutine knows at each of its places: that *)
(* a block is open exactly if there is a current kind, but between the two *)
(* events that end one block and begin the next.                           *)

\* Every piece has a kind.
PiecesKnown(s) ==
    /\ s \in Seq({s[i] : i \in DOMAIN s})
    /\ \A i \in 1 .. Len(s) : s[i].kind \in Kinds

Ended == {"message_delta", "message_stop"}

Places ==
    /\ at = "start" => ~started
    /\ at \in {"piece", "begin", "stop"} => started
    /\ ~started /\ at \in {"receive", "start", "finish"} => kind = Nil /\ sent.type = "none"
    /\ ~started /\ at \in {"receive", "finish"} => finish = Nil
    /\ at \in {"receive", "start", "piece", "finish"} => sent.type \notin Ended
    /\ at \in {"receive", "piece", "finish"} /\ kind # Nil =>
          sent.type \in {"content_block_start", "content_block_delta"}
    /\ at = "begin" => kind # Nil /\ sent.type = "content_block_stop"
    /\ at = "stop" => kind = Nil /\ sent.type = "message_delta"

IInv ==
    /\ blockIndex \in Int
    /\ PiecesKnown(todo)
    /\ at = "begin" => todo # <<>>
    /\ cancelled \in BOOLEAN
    /\ ~cancelled => Places

LEMMA RestOfPieces ==
  ASSUME NEW s, PiecesKnown(s), s # <<>>
  PROVE  PiecesKnown(Tail(s)) /\ Head(s).kind \in Kinds
  <1> DEFINE S == {s[i] : i \in DOMAIN s}
             t == Tail(s)
  <1>1. s \in Seq(S)
    BY DEF PiecesKnown
  <1>2. /\ Len(s) \in Nat /\ Len(s) > 0 /\ Head(s) = s[1]
        /\ t \in Seq(S) /\ Len(t) = Len(s) - 1
        /\ \A i \in 1 .. Len(t) : t[i] = s[i + 1]
    <2> HIDE DEF S
    <2> QED BY <1>1, HeadTailProperties, EmptySeq
  <1>3. \A i \in 1 .. Len(t) : i + 1 \in 1 .. Len(s)
    BY <1>2
  <1>4. 1 \in 1 .. Len(s)
    BY <1>2
  <1>5. t \in Seq({t[i] : i \in DOMAIN t})
    <2> HIDE DEF t
    <2> QED BY <1>2
  <1> QED BY <1>2, <1>3, <1>4, <1>5 DEF PiecesKnown

LEMMA JoinedPieces ==
  ASSUME NEW s, NEW t, PiecesKnown(s), PiecesKnown(t) PROVE PiecesKnown(s \o t)
  <1> DEFINE U == {s[i] : i \in DOMAIN s} \cup {t[i] : i \in DOMAIN t}
             c == s \o t
  <1>1. s \in Seq(U) /\ t \in Seq(U)
    <2>1. s \in Seq({s[i] : i \in DOMAIN s}) /\ t \in Seq({t[i] : i \in DOMAIN t})
      BY DEF PiecesKnown
    <2> QED BY <2>1
  <1>2. /\ c \in Seq(U)
        /\ Len(c) = Len(s) + Len(t)
        /\ \A i \in 1 .. Len(s) + Len(t) : c[i] = IF i <= Len(s) THEN s[i] ELSE t[i - Len(s)]
    <2> HIDE DEF U
    <2> QED BY <1>1, ConcatProperties
  <1>3. Len(s) \in Nat /\ Len(t) \in Nat
    BY <1>1
  <1>4. ASSUME NEW i \in 1 .. Len(c) PROVE c[i].kind \in Kinds
    <2> HIDE DEF c
    <2>1. CASE i <= Len(s)
      <3>1. i \in 1 .. Len(s) /\ c[i] = s[i]
        BY <1>2, <1>3, <2>1
      <3> QED BY <3>1 DEF PiecesKnown
    <2>2. CASE ~(i <= Len(s))
      <3>1. i - Len(s) \in 1 .. Len(t) /\ c[i] = t[i - Len(s)]
        BY <1>2, <1>3, <2>2
      <3> QED BY <3>1 DEF PiecesKnown
    <2> QED BY <2>1, <2>2
  <1>5. c \in Seq({c[i] : i \in DOMAIN c})
    <2> HIDE DEF c
    <2> QED BY <1>2
  <1> HIDE DEF c
  <1>6. PiecesKnown(c)
    BY <1>4, <1>5 DEF PiecesKnown
  <1> QED BY <1>6 DEF c

LEMMA PiecesOfChunk == ASSUME NEW shape \in Shapes PROVE PiecesKnown(Pieces(Chunk(shape)))
  <1> DEFINE chunk == Chunk(shape)
             first == IF chunk.thinking \notin {Nil, <<>>}
                      THEN <<Piece("thinking", 0, Nil, chunk.thinking)>> ELSE <<>>
             second == IF chunk.text \notin {Nil, <<>>}
                       THEN <<Piece("text", 0, Nil, chunk.text)>> ELSE <<>>
             third == [i \in DOMAIN chunk.calls |->
                          Piece("tool_use", chunk.calls[i].index, chunk.calls[i].id, chunk.calls[i].function)]
  <1>1. PiecesKnown(<<>>)
    BY DEF PiecesKnown
  <1>2. ASSUME NEW p, p.kind \in Kinds PROVE PiecesKnown(<<p>>)
    BY <1>2 DEF PiecesKnown
  <1>3. PiecesKnown(first) /\ PiecesKnown(second)
    <2>1. \A k, i, id, d : k \in Kinds => Piece(k, i, id, d).kind \in Kinds
      BY DEF Piece
    <2> QED BY <1>1, <1>2, <2>1 DEF Kinds
  <1>4. PiecesKnown(third)
    <2>1. PICK n \in Nat : DOMAIN shape.calls = 1 .. n
      BY ShapesAssumption
    <2>2. DOMAIN chunk.calls = 1 .. n
      BY <2>1 DEF Chunk
    <2>3. /\ DOMAIN third = 1 .. n /\ third = [i \in 1 .. n |-> third[i]]
          /\ \A i \in 1 .. n : third[i].kind \in Kinds
      BY <2>2 DEF Piece, Kinds
    <2> HIDE DEF third
    <2>4. third \in Seq({third[i] : i \in DOMAIN third}) /\ Len(third) = n
      BY <2>3
    <2> QED BY <2>3, <2>4 DEF PiecesKnown
  <1>5. Pieces(chunk) = first \o second \o third
    BY DEF Pieces
  <1> HIDE DEF first, second, third
  <1> QED BY <1>3, <1>4, <1>5, JoinedPieces

\* What an event is called, and whose block it is of.
LEMMA EventNames ==
  /\ \A t : Plain(t).type = t /\ Plain(t).index = 0
  /\ \A t, i : BlockEvent(t, i).type = t /\ BlockEvent(t, i).index = i
  /\ \A i, k, id : BlockStarted(i, k, id).type = "content_block_start" /\ BlockStarted(i, k, id).index = i
  /\ \A i, k, f : Delta(i, k, f).type = "content_block_delta" /\ Delta(i, k, f).index = i
  /\ \A r, u : MessageTold(r, u).type = "message_delta" /\ MessageTold(r, u).index = 0
  BY DEF Plain, BlockEvent, BlockStarted, Delta, MessageTold

LEMMA InitIInv == Init => IInv
  <1>1. PiecesKnown(<<>>)
    BY DEF PiecesKnown
  <1>2. Init => Places
    BY EventNames DEF Init, Places, Ended
  <1>3. Init => blockIndex \in Int /\ todo = <<>> /\ at # "begin" /\ cancelled \in BOOLEAN
    <2>1. -1 \in Int
      OBVIOUS
    <2>2. Init => blockIndex = -1 /\ todo = <<>> /\ at = "receive" /\ cancelled = FALSE
      BY Zenon DEF Init
    <2> QED BY <2>1, <2>2
  <1> QED BY <1>1, <1>2, <1>3 DEF IInv

\* The goroutine's knowledge of its pieces.
LEMMA StepKeepsPieces ==
  ASSUME IInv, [Next]_vars
  PROVE  /\ blockIndex' \in Int /\ PiecesKnown(todo)' /\ cancelled' \in BOOLEAN
         /\ (at = "begin" => todo # <<>>)'
  <1> USE DEF client, upstream, converter, reader, vars
  <1>0. PiecesKnown(<<>>)
    BY DEF PiecesKnown
  <1>1. todo # <<>> => PiecesKnown(Tail(todo))
    BY RestOfPieces DEF IInv
  <1>2. ASSUME NEW shape \in Shapes, Receive(shape) PROVE PiecesKnown(todo)'
    <2>1. PiecesKnown(Pieces(Chunk(shape)))
      BY PiecesOfChunk
    <2>2. todo' = Pieces(Chunk(shape))
      BY <1>2 DEF Receive
    <2> QED BY <2>1, <2>2 DEF PiecesKnown
  <1>3. ASSUME NEW s, PiecesKnown(s), todo' = s PROVE PiecesKnown(todo)'
    BY <1>3 DEF PiecesKnown
  <1>4. todo' = todo => PiecesKnown(todo)'
    BY <1>3 DEF IInv
  <1>5. ASSUME Drop PROVE PiecesKnown(todo)'
    <2>1. todo' \in {todo, <<>>} \/ (todo # <<>> /\ todo' = Tail(todo))
      BY <1>5 DEF Drop, IInv
    <2> QED BY <2>1, <1>0, <1>1, <1>3, <1>4
  <1>6. PiecesKnown(todo)'
    <2>1. ASSUME SendDelta \/ NoDelta PROVE PiecesKnown(todo)'
      BY <1>1, <1>3, <2>1 DEF SendDelta, NoDelta, InBlock
    <2>2. \/ todo' = todo \/ Drop \/ SendDelta \/ NoDelta
          \/ \E shape \in Shapes : Receive(shape)
      BY DEF Next, Ask, PlainMore, Unparsable, ReceiveDone, Leave, SendStart, ChunkDone, StopBlock,
             StartBlock, Panic, LastStop, SendReason, SendStop, Cancel, PlainAnswer, PlainError,
             NextTurn, AllOver
    <2> QED BY <1>2, <1>4, <1>5, <2>1, <2>2
  <1>7. blockIndex' \in Int
    BY DEF IInv, Next, Ask, Receive, PlainMore, Unparsable, ReceiveDone, Leave, SendStart, ChunkDone,
           StopBlock, StartBlock, Panic, SendDelta, NoDelta, LastStop, SendReason, SendStop, Drop,
           Cancel, PlainAnswer, PlainError, NextTurn, AllOver
  <1>8. cancelled' \in BOOLEAN
    BY DEF IInv, Next, Ask, Receive, PlainMore, Unparsable, ReceiveDone, Leave, SendStart, ChunkDone,
           StopBlock, StartBlock, Panic, SendDelta, NoDelta, LastStop, SendReason, SendStop, Drop,
           Cancel, PlainAnswer, PlainError, NextTurn, AllOver, Send
  <1>9. (at = "begin" => todo # <<>>)'
    BY DEF IInv, Next, Ask, Receive, PlainMore, Unparsable, ReceiveDone, Leave, SendStart, ChunkDone,
           StopBlock, StartBlock, Panic, SendDelta, NoDelta, InBlock, LastStop, SendReason, SendStop, Drop,
           Cancel, PlainAnswer, PlainError, NextTurn, AllOver
  <1> QED BY <1>6, <1>7, <1>8, <1>9

\* The kind of a block that starts is not Nil.
LEMMA StartedHasKind == ASSUME IInv, StartsBlock PROVE Head(todo).kind # Nil
  BY RestOfPieces, NilAssumption DEF IInv, StartsBlock, Kinds

LEMMA StepKeepsPlaces ==
  ASSUME IInv, [Next]_vars, ~cancelled' PROVE Places'
  <1> USE DEF client, upstream, converter, reader
  <1>1. ~cancelled
    BY DEF Next, vars, Ask, Receive, PlainMore, Unparsable, ReceiveDone, Leave, SendStart, ChunkDone,
           StopBlock, StartBlock, Panic, SendDelta, NoDelta, LastStop, SendReason, SendStop, Drop,
           Cancel, PlainAnswer, PlainError, NextTurn, AllOver, Send
  <1>2. Places
    BY <1>1 DEF IInv
  <1> USE <1>1, <1>2, EventNames DEF Places, Ended
  <1>3. CASE UNCHANGED vars
    BY <1>3 DEF vars
  <1>4. CASE Ask
    BY <1>4 DEF Ask
  <1>5. ASSUME NEW shape \in Shapes, Receive(shape) PROVE Places'
    BY <1>5 DEF Receive
  <1>6. ASSUME NEW shape \in Shapes, PlainMore(shape) PROVE Places'
    BY <1>6 DEF PlainMore
  <1>7. CASE Unparsable \/ ReceiveDone \/ Leave
    BY <1>7 DEF Unparsable, ReceiveDone, Leave
  <1>8. CASE SendStart
    BY <1>8 DEF SendStart, Send
  <1>9. CASE ChunkDone \/ Panic
    BY <1>9 DEF ChunkDone, Panic
  <1>10. CASE StopBlock
    BY <1>10 DEF StopBlock, Send
  <1>11. CASE StartBlock
    <2>1. kind' # Nil
      BY <1>11, StartedHasKind DEF StartBlock
    <2> QED BY <1>11, <2>1 DEF StartBlock, StartsBlock, Send
  <1>12. CASE SendDelta
    BY <1>12 DEF SendDelta, InBlock, Send
  <1>13. CASE NoDelta
    BY <1>13 DEF NoDelta, InBlock
  <1>14. CASE LastStop
    BY <1>14 DEF LastStop, Send
  <1>15. CASE SendReason
    BY <1>15 DEF SendReason, Send
  <1>16. CASE SendStop
    BY <1>16 DEF SendStop, Send
  <1>17. CASE Drop \/ Cancel
    BY <1>17 DEF Drop, Cancel
  <1>18. CASE PlainAnswer \/ PlainError
    BY <1>18 DEF PlainAnswer, PlainError
  <1>19. CASE NextTurn \/ AllOver
    BY <1>19 DEF NextTurn, AllOver, vars
  <1> QED BY <1>3, <1>4, <1>5, <1>6, <1>7, <1>8, <1>9, <1>10, <1>11, <1>12, <1>13, <1>14, <1>15,
             <1>16, <1>17, <1>18, <1>19 DEF Next

LEMMA NextIInv == IInv /\ [Next]_vars => IInv'
  BY StepKeepsPieces, StepKeepsPlaces DEF IInv

\* What the goroutine knows at each of its places, in every behaviour.
THEOREM PlacesInvariant == Spec => []IInv
  BY InitIInv, NextIInv, PTL DEF Spec

-----------------------------------------------------------------------------
(* The refinement.                                                         *)

LEMMA InitEvents == Init => Events!Init
  BY EventNames DEF Init, Events!Init, Events!Event

LEMMA StepEvents ==
  ASSUME IInv, [Next]_vars
  PROVE  Events!Next \/ (UNCHANGED <<sent, count, kind, started, blockIndex>> /\ cancelled' = cancelled)
  <1> USE DEF client, upstream, converter, reader
  <1>1. CASE cancelled'
    BY <1>1 DEF Events!Next, Events!Abandon
  <1>2. CASE ~cancelled'
    <2>1. ~cancelled
      BY <1>2 DEF Next, vars, Ask, Receive, PlainMore, Unparsable, ReceiveDone, Leave, SendStart, ChunkDone,
           StopBlock, StartBlock, Panic, SendDelta, NoDelta, LastStop, SendReason, SendStop, Drop,
           Cancel, PlainAnswer, PlainError, NextTurn, AllOver, Send
    <2>2. Places /\ Places' /\ blockIndex \in Int
      BY <1>2, <2>1, StepKeepsPlaces DEF IInv
    <2> USE <1>2, <2>1, <2>2, EventNames DEF Events!Event, Events!Sent, Ended
    <2>3. CASE SendStart
      <3>1. Events!MessageStart
        BY <2>3 DEF SendStart, Send, Places, Events!MessageStart
      <3> QED BY <3>1 DEF Events!Next
    <2>4. CASE StopBlock
      <3>1. Events!BlockStop
        BY <2>4 DEF StopBlock, Send, Places, Events!BlockStop
      <3> QED BY <3>1 DEF Events!Next
    <2>5. CASE StartBlock
      <3>1. kind' # Nil
        BY <2>5, StartedHasKind DEF StartBlock
      <3>2. Events!BlockStart
        BY <2>5, <3>1 DEF StartBlock, StartsBlock, Send, Places, Events!BlockStart
      <3> QED BY <3>2 DEF Events!Next
    <2>6. CASE SendDelta
      <3>1. Events!BlockDelta
        BY <2>6 DEF SendDelta, InBlock, Send, Places, Events!BlockDelta
      <3> QED BY <3>1 DEF Events!Next
    <2>7. CASE LastStop
      <3>1. Events!BlockStop
        BY <2>7 DEF LastStop, Send, Places, Events!BlockStop
      <3> QED BY <3>1 DEF Events!Next
    <2>8. CASE SendReason
      <3>1. Events!MessageDelta
        BY <2>8 DEF SendReason, Send, Places, Events!MessageDelta
      <3> QED BY <3>1 DEF Events!Next
    <2>9. CASE SendStop
      <3>1. Events!MessageStop
        BY <2>9 DEF SendStop, Send, Places, Events!MessageStop
      <3> QED BY <3>1 DEF Events!Next
    <2>10. CASE UNCHANGED vars \/ Ask \/ Unparsable \/ ReceiveDone \/ Leave \/ ChunkDone \/ Panic \/ NoDelta
      BY <2>10 DEF vars, Ask, Unparsable, ReceiveDone, Leave, ChunkDone, Panic, NoDelta
    <2>11. ASSUME NEW shape \in Shapes, Receive(shape) \/ PlainMore(shape)
           PROVE UNCHANGED <<sent, count, kind, started, blockIndex>> /\ cancelled' = cancelled
      BY <2>11 DEF Receive, PlainMore
    <2>12. CASE Drop \/ Cancel \/ PlainAnswer \/ PlainError \/ NextTurn \/ AllOver
      BY <2>12 DEF Drop, Cancel, PlainAnswer, PlainError, NextTurn, AllOver, vars
    <2> QED BY <2>3, <2>4, <2>5, <2>6, <2>7, <2>8, <2>9, <2>10, <2>11, <2>12 DEF Next
  <1> QED BY <1>1, <1>2

\* The events that convertStreamResponse sends keep the grammar of a Claude
\* stream: one start, blocks one behind the other that are started, filled
\* and stopped, the reason when none is open, nothing behind the end; for
\* chunks of every make, until the reader leaves.
THEOREM KeepsGrammar == Spec => ClaudeEventsSpec
  <1>1. IInv /\ [Next]_vars =>
          [Events!Next]_<<IF cancelled THEN "abandoned"
             ELSE IF sent.type = "message_stop" THEN "ended"
             ELSE IF ~started THEN "fresh"
             ELSE IF sent.type = "message_delta" THEN "told"
             ELSE IF kind = Nil \/ sent.type = "content_block_stop" THEN "message"
             ELSE "block", blockIndex + 1, [type |-> sent.type, index |-> sent.index], count>>
    BY StepEvents
  <1> QED BY <1>1, InitEvents, PlacesInvariant, PTL DEF Spec, ClaudeEventsSpec, Events!Spec

-----------------------------------------------------------------------------
(* A stop reason means the whole answer.                                   *)
(*                                                                         *)
(* The goroutine keeps a finish reason and a usage of its own, and the     *)
(* reader gets them in one event behind [DONE].  The invariant says that   *)
(* they are those of the upstream's whole answer until then (the usage, as *)
(* long as none was spread over chunks), and that the reader has no reason *)
(* before; what it is told later it keeps, as nothing more comes from      *)
(* upstream.                                                               *)

\* No event comes after these places, but for the end of the message.
Behind == {"stop", "over", "again"}

\* The reader's message is a record of these fields.
Fields(m) == [started |-> m.started, blocks |-> m.blocks, stop |-> m.stop, usage |-> m.usage, error |-> m.error]

TellsTheEnd ==
    /\ message = Fields(message)
    /\ chat.usage \in Usages \cup {Nil}
    /\ mode = "new" => at = "receive"
    /\ mode = "plain" => at \in {"receive", "over", "again"}
    /\ spread \in BOOLEAN
    /\ mode # "plain" /\ ~spread => usage = chat.usage
    /\ mode # "plain" /\ at \notin Behind => finish = chat.finish
    /\ at \in {"finish", "stop"} => done
    /\ message.stop # Nil => at \in Behind
    /\ StopReasonMeansWhole

\* What one event puts over the usage so far is there.
LEMMA OverlaidHas ==
  ASSUME NEW u, NEW v, v # Nil
  PROVE  \A f \in DOMAIN v : OverlaidUsage(u, v)[f] = v[f]
  BY DEF OverlaidUsage

\* A usage of the upstream makes one of the client's.
LEMMA UsageMade ==
  ASSUME NEW u \in Usages, u # Nil PROVE ClaudeUsage(u) # Nil
  <1>1. u.prompt \in Nat /\ u.completion \in Nat /\ u.cached \in Nat
    BY DEF Usages
  <1>2. CASE u.cached > 0
    <2>1. ClaudeUsage(u) \in [{"input", "output", "cacheRead"} -> Int]
      BY <1>1, <1>2 DEF ClaudeUsage
    <2> QED BY <2>1, ShapesAssumption
  <1>3. CASE ~(u.cached > 0)
    <2>1. ClaudeUsage(u) \in [{"input", "output"} -> Int]
      BY <1>1, <1>3 DEF ClaudeUsage
    <2> QED BY <2>1, ShapesAssumption
  <1> QED BY <1>2, <1>3

\* Of the events only the reason changes what the message says of its end.
LEMMA KeepsEnd ==
  ASSUME NEW m, m = Fields(m), NEW event, event.type # "message_delta"
  PROVE  /\ ClaudeMerge(m, event) = Fields(ClaudeMerge(m, event))
         /\ ClaudeMerge(m, event).stop = m.stop
         /\ event.type # "message_start" => ClaudeMerge(m, event).usage = m.usage
  <1>1. CASE event.type = "message_start"
    BY <1>1 DEF ClaudeMerge, Fields
  <1>2. CASE event.type = "content_block_start"
    BY <1>2 DEF ClaudeMerge, Fields
  <1>3. CASE event.type = "content_block_delta"
    BY <1>3 DEF ClaudeMerge, Fields
  <1>4. CASE event.type \notin {"message_start", "content_block_start", "content_block_delta"}
    BY <1>4 DEF ClaudeMerge
  <1> QED BY <1>1, <1>2, <1>3, <1>4

LEMMA TellsReason ==
  ASSUME NEW m, m = Fields(m), NEW reason, NEW u
  PROVE  LET told == ClaudeMerge(m, MessageTold(reason, u))
         IN  told = Fields(told) /\ told.stop = reason /\ told.usage = OverlaidUsage(m.usage, u)
  BY DEF ClaudeMerge, MessageTold, Fields

LEMMA InitTellsTheEnd == Init => TellsTheEnd
  <1> SUFFICES ASSUME Init PROVE TellsTheEnd
    OBVIOUS
  <1>1. message = Fields(message) /\ message.stop = Nil /\ chat.usage = Nil /\ chat.finish = Nil
    BY DEF Init, Fields, NoMessage, NoChat
  <1>2. mode = "new" /\ at = "receive" /\ usage = Nil /\ finish = Nil /\ spread = FALSE
    BY DEF Init
  <1> QED BY <1>1, <1>2 DEF TellsTheEnd, Behind, StopReasonMeansWhole

\* One more chunk: unless a figure is missing from it, the usage of the answer
\* is the one that came last.
LEMMA EmitKeepsUsage ==
  ASSUME TellsTheEnd, NEW shape \in Shapes, Emit(shape)
  PROVE  /\ chat'.usage \in Usages \cup {Nil}
         /\ spread' \in BOOLEAN /\ (spread => spread')
         /\ ~spread' => chat'.usage = IF shape.usage # Nil THEN shape.usage ELSE chat.usage
         /\ chat'.finish = IF shape.finish # Nil THEN shape.finish ELSE chat.finish
         /\ done' = done /\ ~done
  <1>1. /\ chat'.usage = MergedUsage(chat.usage, shape.usage)
        /\ chat'.finish = IF shape.finish # Nil THEN shape.finish ELSE chat.finish
    BY DEF Emit, ChatMerge, Chunk
  <1>2. shape.usage \in Usages \cup {Nil} /\ chat.usage \in Usages \cup {Nil}
    BY ShapesAssumption DEF TellsTheEnd
  <1>3. /\ done' = done /\ ~done
        /\ spread' = (spread \/ LacksFigure(shape)) /\ spread' \in BOOLEAN
    BY DEF Emit, LacksFigure, TellsTheEnd
  <1>4. CASE shape.usage = Nil \/ chat.usage = Nil
    BY <1>1, <1>2, <1>3, <1>4 DEF MergedUsage
  <1>5. CASE shape.usage # Nil /\ chat.usage # Nil
    <2>1. MergedUsage(chat.usage, shape.usage) \in Usages
      BY <1>2, <1>5 DEF MergedUsage, Usages
    <2>2. ASSUME ~spread' PROVE MergedUsage(chat.usage, shape.usage) = shape.usage
      <3>1. \A figure \in DOMAIN shape.usage : chat.usage[figure] # 0 => shape.usage[figure] # 0
        BY <1>3, <1>5, <2>2 DEF LacksFigure
      <3> QED BY <1>2, <1>5, <3>1 DEF MergedUsage, Usages
    <2> QED BY <1>1, <1>3, <1>5, <2>1, <2>2
  <1> QED BY <1>4, <1>5

LEMMA NextTellsTheEnd ==
  ASSUME TellsTheEnd, [Next]_vars PROVE TellsTheEnd'
  <1> USE DEF client, upstream, converter, reader, Behind
  <1>0. ASSUME NEW event, Send(event), event.type \notin {"message_start", "message_delta"}
        PROVE message' = Fields(message') /\ message'.stop = message.stop /\ message'.usage = message.usage
    BY <1>0, KeepsEnd DEF Send, TellsTheEnd
  <1>1. CASE UNCHANGED vars \/ AllOver
    BY <1>1 DEF vars, AllOver, TellsTheEnd, StopReasonMeansWhole
  <1>2. CASE Ask
    BY <1>2 DEF Ask, TellsTheEnd, StopReasonMeansWhole
  <1>3. ASSUME NEW shape \in Shapes, Receive(shape) PROVE TellsTheEnd'
    BY <1>3, EmitKeepsUsage DEF Receive, TellsTheEnd, StopReasonMeansWhole
  <1>4. ASSUME NEW shape \in Shapes, PlainMore(shape) PROVE TellsTheEnd'
    BY <1>4, EmitKeepsUsage DEF PlainMore, TellsTheEnd, StopReasonMeansWhole
  <1>5. CASE Unparsable \/ ReceiveDone \/ Leave
    BY <1>5 DEF Unparsable, ReceiveDone, Leave, TellsTheEnd, StopReasonMeansWhole
  <1>6. CASE SendStart
    BY <1>6, KeepsEnd, EventNames DEF SendStart, Send, TellsTheEnd, StopReasonMeansWhole
  <1>7. CASE ChunkDone \/ Panic \/ NoDelta \/ Drop \/ Cancel
    BY <1>7 DEF ChunkDone, Panic, StartsBlock, NoDelta, InBlock, Drop, Cancel, TellsTheEnd, StopReasonMeansWhole
  <1>8. CASE StopBlock
    BY <1>8, <1>0, EventNames DEF StopBlock, TellsTheEnd, StopReasonMeansWhole
  <1>9. CASE StartBlock
    BY <1>9, <1>0, EventNames DEF StartBlock, StartsBlock, TellsTheEnd, StopReasonMeansWhole
  <1>10. CASE SendDelta
    BY <1>10, <1>0, EventNames DEF SendDelta, InBlock, TellsTheEnd, StopReasonMeansWhole
  <1>11. CASE LastStop
    BY <1>11, <1>0, EventNames DEF LastStop, TellsTheEnd, StopReasonMeansWhole
  <1>12. CASE SendReason
    <2>1. /\ message' = Fields(message') /\ message'.stop = MapFinishReason(finish)
          /\ message'.usage = OverlaidUsage(message.usage, ClaudeUsage(usage))
      BY <1>12, TellsReason DEF SendReason, Send, TellsTheEnd
    <2>2. finish = chat.finish /\ (~spread => usage = chat.usage) /\ done /\ mode # "plain"
      BY <1>12 DEF SendReason, TellsTheEnd
    <2>3. chat.usage # Nil /\ ~spread => \A f \in DOMAIN ClaudeUsage(chat.usage) :
                                 message'.usage[f] = ClaudeUsage(chat.usage)[f]
      BY <2>1, <2>2, OverlaidHas, UsageMade DEF TellsTheEnd
    <2>4. UNCHANGED <<mode, chat, spread, done>>
      BY <1>12 DEF SendReason
    <2>5. StopReasonMeansWhole'
      BY <2>1, <2>2, <2>3, <2>4 DEF StopReasonMeansWhole
    <2> QED BY <1>12, <2>1, <2>2, <2>5 DEF SendReason, Send, TellsTheEnd
  <1>13. CASE SendStop
    BY <1>13, <1>0, EventNames DEF SendStop, TellsTheEnd, StopReasonMeansWhole
  <1>14. CASE PlainAnswer
    <2>1. /\ message' = Fields(message') /\ message'.usage = ClaudeUsage(chat.usage)
          /\ chat.finish # Nil => message'.stop = MapFinishReason(chat.finish)
      BY <1>14 DEF PlainAnswer, ConvertedWhole, Fields
    <2>2. mode = "plain" /\ done' = TRUE /\ at' = "over" /\ UNCHANGED <<mode, chat, spread, usage, finish>>
      BY <1>14 DEF PlainAnswer
    <2>3. StopReasonMeansWhole'
      BY <2>1, <2>2 DEF StopReasonMeansWhole
    <2> QED BY <2>1, <2>2, <2>3 DEF TellsTheEnd
  <1>15. CASE PlainError \/ NextTurn
    BY <1>15 DEF PlainError, NextTurn, TellsTheEnd, StopReasonMeansWhole
  <1> QED BY <1>1, <1>2, <1>3, <1>4, <1>5, <1>6, <1>7, <1>8, <1>9, <1>10, <1>11, <1>12, <1>13,
             <1>14, <1>15 DEF Next

\* The reader of convertStreamResponse's events, or of a whole answer, is
\* given a stop reason only when the upstream's answer is complete, wherever
\* the stream breaks off, and then the last one of that answer.  Its usage is
\* that of the answer too, unless it was a stream in which a usage lacked a
\* figure of an earlier one: the converter then tells the last usage alone.
THEOREM ReasonMeansWhole == Spec => []StopReasonMeansWhole
  <1>1. TellsTheEnd => StopReasonMeansWhole
    BY DEF TellsTheEnd
  <1>2. TellsTheEnd /\ [Next]_vars => TellsTheEnd'
    BY NextTellsTheEnd
  <1> QED BY <1>1, <1>2, InitTellsTheEnd, PTL DEF Spec

-----------------------------------------------------------------------------
(* Nothing is lost.                                                        *)
(*                                                                         *)
(* What a message will have is what its blocks have, and behind it what    *)
(* the pieces still to convert have: of the thinking and of the text one   *)
(* text behind the other, of the calls what mergeToolCall makes of the     *)
(* calls told so far and the fragments to come.  The invariant says that   *)
(* this is the answer of the chat, at each place of the goroutine.  For    *)
(* the calls it needs to know that the pieces come in order, so that the   *)
(* block that is open is the call that a fragment is for.                  *)

CallSet == [index : Int, id : Nat \cup {Nil}, hasFunc : BOOLEAN, args : Data]
FragmentSet == [index : Int, id : Nat \cup {Nil}, function : Data \cup {Nil}]
PieceSet == {p \in [kind : Kinds, index : Int, id : Nat \cup {Nil}, data : Data \cup {Nil}] :
                p.kind # "tool_use" => p.data # Nil}

\* What there is of one kind, one behind the other.
Words(c, k) == Concat(DataOf(Only(c, {k})))

\* The calls that have a block, and the fragments that have not come to one.
AsCall(use, i) == [index |-> i - 1, id |-> use.id, hasFunc |-> TRUE, args |-> use.data]
AsFragment(piece) == [index |-> piece.index, id |-> piece.id, function |-> piece.data]
CallsTold(c) ==
    LET uses == Only(c, {"tool_use"}) IN [i \in DOMAIN uses |-> AsCall(uses[i], i)]
Untold(c) ==
    LET uses == Only(c, {"tool_use"}) IN [i \in DOMAIN uses |-> AsFragment(uses[i])]

\* Behind a piece of kind k, and n calls, of which the last may have the id
\* d: a fragment is for the last call, or the first of the next one.
Follows(p, k, n, d) ==
    p.kind = "tool_use" =>
        \/ k = "tool_use" /\ p.index = n - 1 /\ p.id \in {Nil, d}
        \/ k # "thinking" /\ p.index = n /\ p.id # Nil
\* The same for each piece of a list; calls come last.
PiecesInOrder(c, k, n, d) ==
    /\ c # <<>> => Follows(c[1], k, n, d)
    /\ \A i, j \in 1 .. Len(c) : i < j /\ c[i].kind = "tool_use" => c[j].kind = "tool_use"
    /\ \A j \in 2 .. Len(c) :
          IF c[j - 1].kind = "tool_use" THEN Follows(c[j], "tool_use", c[j - 1].index + 1, Nil)
          ELSE Follows(c[j], c[j - 1].kind, n, Nil)
\* The kind of the last piece, or k where there is none.
LastKind(c, k) == IF c = <<>> THEN k ELSE c[Len(c)].kind

\* The block that came last.
LastBlock == message.blocks[Len(message.blocks)]
LastId == IF message.blocks = <<>> THEN Nil ELSE LastBlock.id

CallsHeld ==
    LET calls == CallsTold(message.blocks)
    IN  /\ MergeToolCalls(calls, Untold(todo)) = chat.calls
        /\ PiecesInOrder(todo, kind, Len(calls), LastId)
        /\ kind = "tool_use" => toolIndex = Len(calls) - 1
        /\ latest = LastKind(todo, kind)

Held ==
    /\ message.blocks \in Seq(Blocks) /\ Len(message.blocks) = blockIndex + 1
    /\ kind # Nil => message.blocks # <<>> /\ LastBlock.kind = kind
    /\ todo \in Seq(PieceSet)
    /\ at = "receive" => todo = <<>>
    /\ at = "begin" => todo # <<>> /\ NeedsBlock(Head(todo))
    /\ Words(message.blocks, "thinking") \o Words(todo, "thinking") = Told(chat.thinking)
    /\ Words(message.blocks, "text") \o Words(todo, "text") = Told(chat.text)
    /\ ~buried => CallsHeld

\* What NothingLost says of a message at its end.
Same ==
    /\ TextOf("thinking") = Told(chat.thinking)
    /\ TextOf("text") = Told(chat.text)
    /\ ~buried => CallsOf(Content(message)) = ChatCalls

LosesNothing ==
    /\ chunks \in Nat
    /\ chat.thinking \in Data \cup {Nil} /\ chat.text \in Data \cup {Nil} /\ chat.calls \in Seq(CallSet)
    /\ mode = "new" => ~done
    /\ sent.type = "message_stop" => at \in {"over", "again"}
    /\ mode = "plain" /\ done => at \in {"over", "again"}
    /\ mode # "plain" /\ ~cancelled /\ at \in {"receive", "start", "piece", "begin"} => Held
    /\ at \in {"finish", "stop"} \/ HasEnded => Same

-----------------------------------------------------------------------------
(* The elements of some kinds, and what they say one behind the other.     *)

LEMMA OnlyIsPicked ==
  ASSUME NEW A, NEW ks, NEW c \in Seq(A)
  PROVE  Only(c, ks) = Picked(c, {a \in A : a.kind \in ks})
  <1> DEFINE K == {a \in A : a.kind \in ks}
  <1>1. \A i \in DOMAIN c : c[i] \in A
    BY LenProperties, ElementOfSeq
  <1>2. Marked(c, K) = [i \in DOMAIN c |-> IF c[i].kind \in ks THEN <<c[i]>> ELSE <<>>]
    BY <1>1 DEF Marked
  <1> QED BY <1>2 DEF Only, Selected, Picked

LEMMA OnlyEmpty == ASSUME NEW ks PROVE Only(<<>>, ks) = <<>>
  <1>1. <<>> \in Seq({})
    BY EmptySeq
  <1>2. Only(<<>>, ks) = Picked(<<>>, {a \in {} : a.kind \in ks})
    BY <1>1, OnlyIsPicked
  <1>3. \A K : Picked(<<>>, K) = <<>>
    BY PickedEmpty
  <1> QED BY <1>2, <1>3

LEMMA OnlyType ==
  ASSUME NEW A, NEW ks, NEW c \in Seq(A)
  PROVE  Only(c, ks) \in Seq({a \in A : a.kind \in ks})
  <1> DEFINE K == {a \in A : a.kind \in ks}
  <1>1. A \cap K = K
    OBVIOUS
  <1>2. Picked(c, K) \in Seq(A \cap K)
    <2> HIDE DEF K
    <2> QED BY PickedType
  <1> QED BY <1>1, <1>2, OnlyIsPicked

LEMMA OnlyAppend ==
  ASSUME NEW A, NEW ks, NEW c \in Seq(A), NEW e \in A
  PROVE  Only(Append(c, e), ks) = IF e.kind \in ks THEN Append(Only(c, ks), e) ELSE Only(c, ks)
  <1> DEFINE K == {a \in A : a.kind \in ks}
  <1>1. Append(c, e) \in Seq(A)
    BY AppendProperties
  <1>2. Picked(Append(c, e), K) = IF e \in K THEN Append(Picked(c, K), e) ELSE Picked(c, K)
    <2> HIDE DEF K
    <2> QED BY PickedAppend
  <1>3. Only(c, ks) = Picked(c, K) /\ Only(Append(c, e), ks) = Picked(Append(c, e), K)
    BY <1>1, OnlyIsPicked
  <1>4. e \in K <=> e.kind \in ks
    OBVIOUS
  <1> HIDE DEF K
  <1> QED BY <1>2, <1>3, <1>4

LEMMA OnlyJoin ==
  ASSUME NEW A, NEW ks, NEW c \in Seq(A), NEW d \in Seq(A)
  PROVE  Only(c \o d, ks) = Only(c, ks) \o Only(d, ks)
  <1> DEFINE K == {a \in A : a.kind \in ks}
  <1>1. c \o d \in Seq(A)
    BY ConcatProperties
  <1>2. Picked(c \o d, K) = Picked(c, K) \o Picked(d, K)
    <2> HIDE DEF K
    <2> QED BY PickedJoin
  <1>3. Only(c, ks) = Picked(c, K) /\ Only(d, ks) = Picked(d, K) /\ Only(c \o d, ks) = Picked(c \o d, K)
    BY <1>1, OnlyIsPicked
  <1> HIDE DEF K
  <1> QED BY <1>2, <1>3

LEMMA OnlyAll ==
  ASSUME NEW A, NEW ks, NEW c \in Seq(A), \A a \in A : a.kind \in ks PROVE Only(c, ks) = c
  <1>1. {a \in A : a.kind \in ks} = A
    OBVIOUS
  <1> QED BY <1>1, OnlyIsPicked, PickedAll

LEMMA OnlyNone ==
  ASSUME NEW A, NEW ks, NEW c \in Seq(A), \A a \in A : a.kind \notin ks PROVE Only(c, ks) = <<>>
  <1>1. {a \in A : a.kind \in ks} = {}
    OBVIOUS
  <1>2. Only(c, ks) = Picked(c, {})
    BY <1>1, OnlyIsPicked
  <1>3. A \cap {} = {}
    OBVIOUS
  <1>4. Picked(c, {}) = <<>>
    BY <1>3, PickedNone
  <1> QED BY <1>2, <1>4

\* The data of a list.
LEMMA DataOfList ==
  ASSUME NEW A, NEW V, NEW c \in Seq(A), \A a \in A : a.data \in V
  PROVE  /\ DataOf(c) \in Seq(V) /\ Len(DataOf(c)) = Len(c)
         /\ \A e \in A : DataOf(Append(c, e)) = Append(DataOf(c), e.data)
  <1>1. Len(c) \in Nat /\ DOMAIN c = 1 .. Len(c) /\ \A i \in 1 .. Len(c) : c[i] \in A
    BY LenProperties, ElementOfSeq
  <1>2. DataOf(c) \in [1 .. Len(c) -> V]
    BY <1>1 DEF DataOf
  <1>3. DataOf(c) \in Seq(V) /\ Len(DataOf(c)) = Len(c)
    BY <1>1, <1>2, IsSequence
  <1>4. ASSUME NEW e \in A PROVE DataOf(Append(c, e)) = Append(DataOf(c), e.data)
    <2> DEFINE t == DataOf(Append(c, e))
               m == DataOf(c)
               v == e.data
    <2>1. /\ DOMAIN Append(c, e) = 1 .. Len(c) + 1 /\ Append(c, e)[Len(c) + 1] = e
          /\ \A i \in 1 .. Len(c) : Append(c, e)[i] = c[i]
      <3>1. Append(c, e) \in Seq(A) /\ Len(Append(c, e)) = Len(c) + 1
        BY AppendProperties
      <3> QED BY <3>1, AppendProperties, LenProperties
    <2>2. DOMAIN t = DOMAIN Append(c, e) /\ t = [i \in DOMAIN t |-> t[i]]
      BY DEF DataOf
    <2>3. (\A i \in 1 .. Len(c) : t[i] = m[i]) /\ t[Len(c) + 1] = v
      BY <1>1, <2>1 DEF DataOf
    <2>4. v \in V
      OBVIOUS
    <2>5. m \in Seq(V) /\ Len(m) = Len(c)
      BY <1>3
    <2> HIDE DEF t, m, v
    <2>6. t = Append(m, v)
      BY <2>2, <2>3, <2>4, <2>5, MappedAppend
    <2> QED BY <2>6 DEF t, m, v
  <1> QED BY <1>3, <1>4

LEMMA WordsEmpty == ASSUME NEW k PROVE Words(<<>>, k) = <<>>
  <1>1. DataOf(<<>>) = <<>>
    BY DEF DataOf
  <1> QED BY <1>1, OnlyEmpty, ConcatEmpty DEF Words

LEMMA WordsType ==
  ASSUME NEW A, NEW k, NEW c \in Seq(A), \A a \in A : a.kind = k => a.data \in Data
  PROVE  Words(c, k) \in Data
  <1> DEFINE K == {a \in A : a.kind \in {k}}
             u == Only(c, {k})
  <1>1. u \in Seq(K)
    BY OnlyType
  <1>2. \A a \in K : a.data \in Seq(Nat)
    BY DEF Data
  <1> HIDE DEF K, u
  <1>3. DataOf(u) \in Seq(Seq(Nat))
    BY <1>1, <1>2, DataOfList
  <1>4. Concat(DataOf(u)) \in Seq(Nat)
    BY <1>3, ConcatType
  <1> QED BY <1>4 DEF Words, Data, u

LEMMA WordsAppend ==
  ASSUME NEW A, NEW k, NEW c \in Seq(A), NEW e \in A, \A a \in A : a.kind = k => a.data \in Data
  PROVE  Words(Append(c, e), k) = IF e.kind = k THEN Words(c, k) \o e.data ELSE Words(c, k)
  <1> DEFINE K == {a \in A : a.kind \in {k}}
             u == Only(c, {k})
  <1>1. u \in Seq(K)
    BY OnlyType
  <1>2. \A a \in K : a.data \in Seq(Nat)
    BY DEF Data
  <1>3. Only(Append(c, e), {k}) = IF e.kind \in {k} THEN Append(u, e) ELSE u
    BY OnlyAppend
  <1>4. CASE e.kind = k
    <2>1. e \in K /\ e.data \in Seq(Nat)
      BY <1>4 DEF Data
    <2>2. Only(Append(c, e), {k}) = Append(u, e)
      BY <1>3, <1>4
    <2> HIDE DEF K, u
    <2>3. DataOf(Append(u, e)) = Append(DataOf(u), e.data) /\ DataOf(u) \in Seq(Seq(Nat))
      BY <1>1, <1>2, <2>1, DataOfList
    <2>4. Concat(Append(DataOf(u), e.data)) = Concat(DataOf(u)) \o e.data
      BY <2>1, <2>3, ConcatAppend
    <2> QED BY <1>4, <2>2, <2>3, <2>4 DEF Words, u
  <1>5. CASE e.kind # k
    <2>1. Only(Append(c, e), {k}) = u
      BY <1>3, <1>5
    <2> QED BY <1>5, <2>1 DEF Words
  <1> QED BY <1>4, <1>5

LEMMA WordsOne ==
  ASSUME NEW A, NEW k, NEW e \in A, \A a \in A : a.kind = k => a.data \in Data
  PROVE  Words(<<e>>, k) = IF e.kind = k THEN e.data ELSE <<>>
  <1>1. <<>> \in Seq(A) /\ Append(<<>>, e) = <<e>>
    BY EmptySeq
  <1> DEFINE none == <<>>
             had == Words(none, k)
  <1>0. none \in Seq(A) /\ had = <<>>
    BY <1>1, WordsEmpty
  <1> HIDE DEF none
  <1>4. Words(Append(none, e), k) = IF e.kind = k THEN had \o e.data ELSE had
    BY <1>0, WordsAppend
  <1> HIDE DEF had
  <1>2. Words(Append(<<>>, e), k) = IF e.kind = k THEN <<>> \o e.data ELSE <<>>
    BY <1>0, <1>4 DEF none
  <1>3. e.kind = k => <<>> \o e.data = e.data
    BY ConcatEmptySeq DEF Data
  <1> QED BY <1>1, <1>2, <1>3

LEMMA WordsJoin ==
  ASSUME NEW A, NEW k, NEW c \in Seq(A), NEW d \in Seq(A), \A a \in A : a.kind = k => a.data \in Data
  PROVE  Words(c \o d, k) = Words(c, k) \o Words(d, k)
  <1> DEFINE K == {a \in A : a.kind \in {k}}
             u == Only(c, {k})
             w == Only(d, {k})
             T == {h \in Seq(K) : DataOf(u \o h) = DataOf(u) \o DataOf(h)}
  <1>0. Only(c \o d, {k}) = u \o w
    BY OnlyJoin
  <1>1. u \in Seq(K) /\ w \in Seq(K) /\ Only(c \o d, {k}) = u \o w
    <2>1. u \in Seq(K)
      BY OnlyType
    <2>2. w \in Seq(K)
      BY OnlyType
    <2> QED BY <1>0, <2>1, <2>2
  <1>2. \A a \in K : a.data \in Seq(Nat)
    BY DEF Data
  <1> HIDE DEF K, u, w
  <1>3. \A h \in Seq(K) : DataOf(h) \in Seq(Seq(Nat))
    BY <1>2, DataOfList
  <1>4. <<>> \in T
    <2>1. DataOf(<<>>) = <<>>
      BY DEF DataOf
    <2>2. DataOf(u) \o <<>> = DataOf(u)
      BY <1>1, <1>3, ConcatEmptySeq
    <2>3. u \o <<>> = u /\ <<>> \in Seq(K)
      BY <1>1, ConcatEmptySeq, EmptySeq
    <2> QED BY <2>1, <2>2, <2>3
  <1>5. ASSUME NEW h \in Seq(K), NEW e \in K, h \in T PROVE Append(h, e) \in T
    <2> DEFINE long == u \o h
               x == DataOf(u)
               y == DataOf(h)
               z == e.data
    <2>1. long \in Seq(K) /\ Append(h, e) \in Seq(K) /\ u \o Append(h, e) = Append(long, e)
      BY <1>1, JoinAppend
    <2>2. DataOf(Append(h, e)) = Append(y, z)
      BY <1>2, DataOfList
    <2>3. DataOf(Append(long, e)) = Append(DataOf(long), z)
      <3> HIDE DEF long
      <3> QED BY <1>2, <2>1, DataOfList
    <2>4. DataOf(long) = x \o y
      BY <1>5
    <2>5. x \in Seq(Seq(Nat)) /\ y \in Seq(Seq(Nat)) /\ z \in Seq(Nat)
      BY <1>1, <1>2, <1>3
    <2>6. DataOf(u \o Append(h, e)) = Append(x \o y, z)
      BY <2>1, <2>3, <2>4
    <2> HIDE DEF x, y, z, long
    <2>7. x \o y \in Seq(Seq(Nat)) /\ Append(y, z) \in Seq(Seq(Nat)) /\ x \o Append(y, z) = Append(x \o y, z)
      BY <2>5, JoinAppend
    <2>8. DataOf(u \o Append(h, e)) = DataOf(u) \o DataOf(Append(h, e))
      BY <2>2, <2>6, <2>7 DEF x
    <2> QED BY <2>1, <2>8
  <1>6. Seq(K) \subseteq T
    <2> HIDE DEF T
    <2> QED BY <1>4, <1>5, SequenceInduction
  <1>7. DataOf(u \o w) = DataOf(u) \o DataOf(w)
    BY <1>1, <1>6
  <1>8. Concat(DataOf(u) \o DataOf(w)) = Concat(DataOf(u)) \o Concat(DataOf(w))
    BY <1>1, <1>3, ConcatJoin
  <1> QED BY <1>1, <1>7, <1>8 DEF Words, u, w

\* What the first says comes before what the others say.
LEMMA HeadFirst ==
  ASSUME NEW A, NEW c \in Seq(A), c # <<>>
  PROVE  Head(c) \in A /\ Tail(c) \in Seq(A) /\ <<Head(c)>> \in Seq(A) /\ c = <<Head(c)>> \o Tail(c)
  <1>1. Head(c) \in A /\ Tail(c) \in Seq(A)
    BY HeadTailProperties
  <1>2. c = <<Head(c)>> \o Tail(c)
    OBVIOUS
  <1> QED BY <1>1, <1>2

LEMMA WordsHead ==
  ASSUME NEW A, NEW k, NEW c \in Seq(A), c # <<>>, \A a \in A : a.kind = k => a.data \in Data
  PROVE  /\ Head(c).kind = k => Words(c, k) = Head(c).data \o Words(Tail(c), k)
         /\ Head(c).kind # k => Words(c, k) = Words(Tail(c), k)
  <1> DEFINE h == Head(c)
             one == <<h>>
             t == Tail(c)
  <1>1. h \in A /\ one \in Seq(A) /\ t \in Seq(A) /\ c = one \o t
    BY HeadFirst
  <1>2. Words(one, k) = IF h.kind = k THEN h.data ELSE <<>>
    BY <1>1, WordsOne
  <1> HIDE DEF h, one, t
  <1>3. Words(c, k) = Words(one, k) \o Words(t, k)
    BY <1>1, WordsJoin
  <1>4. Words(t, k) \in Seq(Nat)
    BY <1>1, WordsType DEF Data
  <1>5. <<>> \o Words(t, k) = Words(t, k)
    BY <1>4, ConcatEmptySeq
  <1> QED BY <1>2, <1>3, <1>5 DEF h, t

-----------------------------------------------------------------------------
(* Fragments merged one after the other.                                   *)

MergeStep(calls, fragments, g, n) == IF n = 0 THEN calls ELSE MergeToolCall(g[n - 1], fragments[n])
MergedUpTo(calls, fragments) ==
    CHOOSE g : g = [n \in 0 .. Len(fragments) |-> MergeStep(calls, fragments, g, n)]

LEMMA MergeIsFold ==
  ASSUME NEW calls, NEW fragments
  PROVE  MergeToolCalls(calls, fragments) = MergedUpTo(calls, fragments)[Len(fragments)]
BY DEF MergeToolCalls, MergedUpTo, MergeStep

LEMMA MergedUpToExists ==
  ASSUME NEW calls, NEW f, Len(f) \in Nat
  PROVE  MergedUpTo(calls, f) = [n \in 0 .. Len(f) |-> MergeStep(calls, f, MergedUpTo(calls, f), n)]
  <1> DEFINE Right(g, m) == \A n \in 0 .. m : g[n] = MergeStep(calls, f, g, n)
             T == {m \in Nat : \E g : Right(g, m)}
  <1>1. 0 \in T
    <2> DEFINE g == [n \in 0 .. 0 |-> calls]
    <2>1. Right(g, 0)
      BY DEF MergeStep
    <2> QED BY <2>1
  <1>2. ASSUME NEW m \in Nat, NEW g, Right(g, m)
        PROVE  Right([n \in 0 .. m + 1 |-> MergeStep(calls, f, g, n)], m + 1)
    <2> DEFINE h == [n \in 0 .. m + 1 |-> MergeStep(calls, f, g, n)]
    <2> SUFFICES ASSUME NEW n \in 0 .. m + 1 PROVE h[n] = MergeStep(calls, f, h, n)
      OBVIOUS
    <2>1. CASE n = 0
      BY <2>1 DEF MergeStep
    <2>2. CASE n # 0
      <3>1. n - 1 \in 0 .. m /\ n - 1 \in 0 .. m + 1
        BY <2>2
      <3>2. h[n - 1] = g[n - 1]
        BY <1>2, <3>1
      <3> QED BY <2>2, <3>2 DEF MergeStep
    <2> QED BY <2>1, <2>2
  <1>3. ASSUME NEW m \in Nat, m \in T PROVE m + 1 \in T
    <2>1. PICK g : Right(g, m)
      BY <1>3
    <2>2. Right([n \in 0 .. m + 1 |-> MergeStep(calls, f, g, n)], m + 1)
      BY <1>2, <2>1
    <2> HIDE DEF Right
    <2> QED BY <2>2
  <1>4. Nat \subseteq T
    <2> HIDE DEF T
    <2> QED BY <1>1, <1>3, NatSetInduction
  <1>5. PICK g : Right(g, Len(f))
    BY <1>4
  <1> DEFINE h == [n \in 0 .. Len(f) |-> MergeStep(calls, f, g, n)]
  <1>6. \A n \in 0 .. Len(f) : h[n] = g[n]
    BY <1>5
  <1>7. \A n \in 0 .. Len(f) : n # 0 => n - 1 \in 0 .. Len(f)
    OBVIOUS
  <1>8. h = [n \in 0 .. Len(f) |-> MergeStep(calls, f, h, n)]
    BY <1>6, <1>7 DEF MergeStep
  <1> QED BY <1>8 DEF MergedUpTo

LEMMA MergedUpToStep ==
  ASSUME NEW calls, NEW f, Len(f) \in Nat, NEW n \in 0 .. Len(f)
  PROVE  MergedUpTo(calls, f)[n] = IF n = 0 THEN calls ELSE MergeToolCall(MergedUpTo(calls, f)[n - 1], f[n])
  <1> DEFINE G == MergedUpTo(calls, f)
             F == [k \in 0 .. Len(f) |-> MergeStep(calls, f, G, k)]
  <1>1. G = F
    BY MergedUpToExists
  <1>2. F[n] = MergeStep(calls, f, G, n)
    <2> HIDE DEF G
    <2> QED OBVIOUS
  <1>3. G[n] = F[n]
    <2> HIDE DEF G, F
    <2> QED BY <1>1
  <1> QED BY <1>2, <1>3 DEF MergeStep

LEMMA MergedUpToAgrees ==
  ASSUME NEW calls, NEW f, NEW g, Len(f) \in Nat, Len(g) \in Nat, Len(f) <= Len(g),
         \A i \in 1 .. Len(f) : f[i] = g[i]
  PROVE  \A n \in 0 .. Len(f) : MergedUpTo(calls, f)[n] = MergedUpTo(calls, g)[n]
  <1> DEFINE T == {n \in Nat : n <= Len(f) => MergedUpTo(calls, f)[n] = MergedUpTo(calls, g)[n]}
  <1>1. 0 \in T
    BY MergedUpToStep
  <1>2. ASSUME NEW n \in Nat, n \in T PROVE n + 1 \in T
    <2> SUFFICES ASSUME n + 1 <= Len(f) PROVE MergedUpTo(calls, f)[n + 1] = MergedUpTo(calls, g)[n + 1]
      OBVIOUS
    <2>1. n + 1 \in 0 .. Len(f) /\ n + 1 \in 0 .. Len(g) /\ n + 1 # 0 /\ (n + 1) - 1 = n /\ n <= Len(f)
      OBVIOUS
    <2>2. /\ MergedUpTo(calls, f)[n + 1] = MergeToolCall(MergedUpTo(calls, f)[n], f[n + 1])
          /\ MergedUpTo(calls, g)[n + 1] = MergeToolCall(MergedUpTo(calls, g)[n], g[n + 1])
      BY <2>1, MergedUpToStep
    <2>3. MergedUpTo(calls, f)[n] = MergedUpTo(calls, g)[n]
      BY <1>2, <2>1
    <2>4. f[n + 1] = g[n + 1]
      BY <2>1
    <2> QED BY <2>2, <2>3, <2>4
  <1>3. Nat \subseteq T
    <2> HIDE DEF T
    <2> QED BY <1>1, <1>2, NatSetInduction
  <1> QED BY <1>3

LEMMA MergeNone == ASSUME NEW calls PROVE MergeToolCalls(calls, <<>>) = calls
  <1>1. Len(<<>>) = 0
    OBVIOUS
  <1>2. MergedUpTo(calls, <<>>)[0] = calls
    BY <1>1, MergedUpToStep
  <1> QED BY <1>1, <1>2, MergeIsFold

LEMMA MergeAppend ==
  ASSUME NEW calls, NEW S, NEW f \in Seq(S), NEW e \in S
  PROVE  MergeToolCalls(calls, Append(f, e)) = MergeToolCall(MergeToolCalls(calls, f), e)
  <1> DEFINE g == Append(f, e)
             G == MergedUpTo(calls, g)
             F == MergedUpTo(calls, f)
  <1>1. Len(f) \in Nat /\ Len(g) = Len(f) + 1 /\ (\A i \in 1 .. Len(f) : f[i] = g[i]) /\ g[Len(g)] = e
    BY AppendProperties, LenProperties
  <1>2. G[Len(g)] = MergeToolCall(G[Len(f)], e)
    <2> HIDE DEF g
    <2>1. Len(g) \in Nat /\ Len(g) \in 0 .. Len(g) /\ Len(g) # 0 /\ Len(g) - 1 = Len(f)
      BY <1>1
    <2> QED BY <1>1, <2>1, MergedUpToStep
  <1>3. G[Len(f)] = F[Len(f)]
    <2> HIDE DEF g
    <2>1. Len(f) \in 0 .. Len(f) /\ Len(f) <= Len(g) /\ Len(g) \in Nat
      BY <1>1
    <2> QED BY <1>1, <2>1, MergedUpToAgrees
  <1>4. MergeToolCalls(calls, f) = F[Len(f)] /\ MergeToolCalls(calls, g) = G[Len(g)]
    BY MergeIsFold
  <1> HIDE DEF G, F
  <1> QED BY <1>2, <1>3, <1>4

\* The first fragment may be merged before the others.
LEMMA MergeFirst ==
  ASSUME NEW calls, NEW S, NEW f \in S, NEW rest \in Seq(S)
  PROVE  MergeToolCalls(calls, <<f>> \o rest) = MergeToolCalls(MergeToolCall(calls, f), rest)
  <1> DEFINE one == <<f>>
             merged == MergeToolCall(calls, f)
             T == {h \in Seq(S) : MergeToolCalls(calls, one \o h) = MergeToolCalls(merged, h)}
  <1>0. one \in Seq(S) /\ one = Append(<<>>, f) /\ <<>> \in Seq(S)
    BY EmptySeq
  <1>1. <<>> \in T
    <2> DEFINE none == <<>>
    <2>0. none \in Seq(S) /\ one = Append(none, f)
      BY <1>0
    <2>1. one \o <<>> = one
      BY <1>0, ConcatEmptySeq
    <2>2. MergeToolCalls(calls, none) = calls
      BY MergeNone
    <2>3. MergeToolCalls(calls, one) = MergeToolCall(MergeToolCalls(calls, none), f)
      <3> HIDE DEF none, one
      <3> QED BY <2>0, MergeAppend
    <2>4. MergeToolCalls(calls, one) = merged
      BY <2>2, <2>3
    <2>5. MergeToolCalls(merged, <<>>) = merged
      BY MergeNone
    <2> HIDE DEF one, merged
    <2> QED BY <1>0, <2>1, <2>4, <2>5
  <1>2. ASSUME NEW h \in Seq(S), NEW e \in S, h \in T PROVE Append(h, e) \in T
    <2> DEFINE long == one \o h
    <2>1. long \in Seq(S) /\ Append(h, e) \in Seq(S) /\ one \o Append(h, e) = Append(long, e)
      <3> HIDE DEF one
      <3> QED BY <1>0, JoinAppend
    <2>2. MergeToolCalls(calls, Append(long, e)) = MergeToolCall(MergeToolCalls(calls, long), e)
      <3> HIDE DEF long
      <3> QED BY <2>1, MergeAppend
    <2>3. MergeToolCalls(merged, Append(h, e)) = MergeToolCall(MergeToolCalls(merged, h), e)
      <3> HIDE DEF merged
      <3> QED BY MergeAppend
    <2>4. MergeToolCalls(calls, long) = MergeToolCalls(merged, h)
      BY <1>2
    <2> HIDE DEF one, merged
    <2> QED BY <2>1, <2>2, <2>3, <2>4
  <1>3. Seq(S) \subseteq T
    <2> HIDE DEF T
    <2> QED BY <1>1, <1>2, SequenceInduction
  <1> QED BY <1>3

\* The calls stay such.
LEMMA MergeCallType ==
  ASSUME NEW calls \in Seq(CallSet), NEW f \in FragmentSet
  PROVE  MergeToolCall(calls, f) \in Seq(CallSet)
  <1>1. Len(calls) \in Nat /\ DOMAIN calls = 1 .. Len(calls) /\ \A i \in 1 .. Len(calls) : calls[i] \in CallSet
    BY LenProperties, ElementOfSeq
  <1>2. ASSUME NEW call \in CallSet PROVE WithFragment(call, f) \in CallSet
    <2>1. call.args \in Data /\ (f.function # Nil => f.function \in Data)
      BY DEF CallSet, FragmentSet
    <2>2. f.function # Nil => call.args \o f.function \in Data
      BY <2>1, ConcatProperties DEF Data
    <2>3. (f.id # Nil => f.id \in Nat) /\ (call.hasFunc \/ f.function # Nil) \in BOOLEAN
      BY DEF FragmentSet
    <2> QED BY <2>1, <2>2, <2>3 DEF WithFragment, CallSet
  <1>3. NewCall(f) \in CallSet
    <2>1. <<>> \in Data
      BY EmptySeq DEF Data
    <2> QED BY <2>1 DEF NewCall, CallSet, FragmentSet
  <1>4. CASE \E i \in DOMAIN calls : calls[i].index = f.index
    <2> DEFINE m == MergeToolCall(calls, f)
    <2>1. m \in [1 .. Len(calls) -> CallSet]
      BY <1>1, <1>2, <1>4 DEF MergeToolCall
    <2> HIDE DEF m
    <2>2. m \in Seq(CallSet)
      BY <1>1, <2>1, IsSequence
    <2> QED BY <2>2 DEF m
  <1>5. CASE ~\E i \in DOMAIN calls : calls[i].index = f.index
    BY <1>2, <1>3, <1>5, AppendProperties DEF MergeToolCall
  <1> QED BY <1>4, <1>5

LEMMA MergeType ==
  ASSUME NEW calls \in Seq(CallSet), NEW f \in Seq(FragmentSet)
  PROVE  MergeToolCalls(calls, f) \in Seq(CallSet)
  <1> DEFINE T == {h \in Seq(FragmentSet) : MergeToolCalls(calls, h) \in Seq(CallSet)}
  <1>1. <<>> \in T
    BY MergeNone, EmptySeq
  <1>2. ASSUME NEW h \in Seq(FragmentSet), NEW e \in FragmentSet, h \in T PROVE Append(h, e) \in T
    BY <1>2, MergeAppend, MergeCallType, AppendProperties
  <1>3. Seq(FragmentSet) \subseteq T
    <2> HIDE DEF T
    <2> QED BY <1>1, <1>2, SequenceInduction
  <1> QED BY <1>3

\* Calls that are numbered in their order.
Numbered(calls) == calls \in Seq(CallSet) /\ \A i \in 1 .. Len(calls) : calls[i].index = i - 1

LEMMA FragmentAdds ==
  ASSUME NEW call \in CallSet, NEW f, f.function # Nil
  PROVE  WithFragment(call, f) = [index |-> call.index, id |-> IF f.id # Nil THEN f.id ELSE call.id,
                                  hasFunc |-> TRUE, args |-> call.args \o f.function]
  <1>1. call = [index |-> call.index, id |-> call.id, hasFunc |-> call.hasFunc, args |-> call.args]
    BY DEF CallSet
  <1> DEFINE x == IF f.id # Nil THEN f.id ELSE call.id
             y == call.hasFunc \/ f.function # Nil
             z == IF f.function # Nil THEN call.args \o f.function ELSE call.args
  <1>2. WithFragment(call, f) = [call EXCEPT !.id = x, !.hasFunc = y, !.args = z]
    BY DEF WithFragment
  <1>3. (y = TRUE) /\ z = call.args \o f.function
    OBVIOUS
  <1>4. [call EXCEPT !.id = x, !.hasFunc = y, !.args = z]
           = [index |-> call.index, id |-> x, hasFunc |-> y, args |-> z]
    <2> HIDE DEF x, y, z
    <2> DEFINE one == [call EXCEPT !.id = x]
               two == [one EXCEPT !.hasFunc = y]
    <2>1. one = [index |-> call.index, id |-> x, hasFunc |-> call.hasFunc, args |-> call.args]
      BY <1>1
    <2> HIDE DEF one
    <2>2. two = [index |-> call.index, id |-> x, hasFunc |-> y, args |-> call.args]
      BY <2>1
    <2> HIDE DEF two
    <2>3. [two EXCEPT !.args = z] = [index |-> call.index, id |-> x, hasFunc |-> y, args |-> z]
      BY <2>2
    <2> QED BY <2>3 DEF one, two
  <1> HIDE DEF y, z
  <1> QED BY <1>2, <1>3, <1>4

\* The first fragment of a call puts it at the end,
LEMMA MergeNew ==
  ASSUME NEW calls, Numbered(calls), NEW f \in FragmentSet, f.index = Len(calls), f.function # Nil
  PROVE  MergeToolCall(calls, f)
            = Append(calls, [index |-> f.index, id |-> f.id, hasFunc |-> TRUE, args |-> f.function])
  <1>1. Len(calls) \in Nat /\ DOMAIN calls = 1 .. Len(calls)
    BY LenProperties DEF Numbered
  <1>2. ~\E i \in DOMAIN calls : calls[i].index = f.index
    BY <1>1 DEF Numbered
  <1>3. <<>> \o f.function = f.function
    BY ConcatEmptySeq DEF FragmentSet, Data
  <1>4. WithFragment(NewCall(f), f) = [index |-> f.index, id |-> f.id, hasFunc |-> TRUE, args |-> f.function]
    <2> DEFINE c == NewCall(f)
    <2>1. c \in CallSet /\ c.index = f.index /\ c.id = Nil /\ c.args = <<>>
      <3>1. <<>> \in Data /\ f.index \in Int
        BY EmptySeq DEF Data, FragmentSet
      <3> QED BY <3>1 DEF NewCall, CallSet
    <2> HIDE DEF c
    <2>3. WithFragment(c, f) = [index |-> c.index, id |-> IF f.id # Nil THEN f.id ELSE c.id,
                                hasFunc |-> TRUE, args |-> c.args \o f.function]
      BY <2>1, FragmentAdds
    <2>4. (IF f.id # Nil THEN f.id ELSE c.id) = f.id /\ c.args \o f.function = f.function
      BY <2>1, <1>3
    <2>5. WithFragment(c, f) = [index |-> f.index, id |-> f.id, hasFunc |-> TRUE, args |-> f.function]
      BY <2>1, <2>3, <2>4
    <2> QED BY <2>5 DEF c
  <1> QED BY <1>2, <1>4 DEF MergeToolCall

\* and one for the last call goes into it.
LEMMA MergeIntoLast ==
  ASSUME NEW calls, Numbered(calls), NEW call \in CallSet, call.index = Len(calls), call.hasFunc,
         NEW f \in FragmentSet, f.index = call.index, f.id \in {Nil, call.id}
  PROVE  /\ f.function = Nil => MergeToolCall(Append(calls, call), f) = Append(calls, call)
         /\ f.function # Nil => MergeToolCall(Append(calls, call), f)
                                   = Append(calls, [call EXCEPT !.args = @ \o f.function])
  <1> DEFINE long == Append(calls, call)
             n == Len(calls)
             m == MergeToolCall(long, f)
             new == WithFragment(call, f)
  <1>1. /\ n \in Nat /\ calls \in Seq(CallSet) /\ DOMAIN calls = 1 .. n
        /\ long \in Seq(CallSet) /\ Len(long) = n + 1 /\ DOMAIN long = 1 .. n + 1
        /\ (\A i \in 1 .. n : long[i] = calls[i]) /\ long[n + 1] = call
    <2>1. n \in Nat /\ calls \in Seq(CallSet) /\ DOMAIN calls = 1 .. n
      BY LenProperties DEF Numbered
    <2>2. /\ long \in Seq(CallSet) /\ Len(long) = n + 1
          /\ (\A i \in 1 .. n : long[i] = calls[i]) /\ long[n + 1] = call
      BY <2>1, AppendProperties
    <2>3. DOMAIN long = 1 .. n + 1
      <3> HIDE DEF long, n
      <3> QED BY <2>1, <2>2, LenProperties
    <2> QED BY <2>1, <2>2, <2>3
  <1>2. (\A i \in 1 .. n : long[i].index # f.index) /\ long[n + 1].index = f.index
    <2> HIDE DEF long
    <2> QED BY <1>1 DEF Numbered
  <1>3. \E i \in DOMAIN long : long[i].index = f.index
    <2> HIDE DEF long, n
    <2> QED BY <1>1, <1>2
  <1>4. m = [i \in DOMAIN long |-> IF long[i].index = f.index THEN WithFragment(long[i], f) ELSE long[i]]
    <2> HIDE DEF long
    <2> QED BY <1>3 DEF MergeToolCall
  <1>5. DOMAIN m = DOMAIN long /\ m = [i \in DOMAIN m |-> m[i]]
    <2> HIDE DEF long, m
    <2> QED BY <1>4
  <1>6. (\A i \in 1 .. n : m[i] = calls[i]) /\ m[n + 1] = new
    <2> HIDE DEF long, n, m
    <2> QED BY <1>1, <1>2, <1>4
  <1>7. new \in CallSet
    <2>1. call.args \in Data /\ (f.function # Nil => f.function \in Data)
      BY DEF CallSet, FragmentSet
    <2>2. f.function # Nil => call.args \o f.function \in Data
      BY <2>1, ConcatProperties DEF Data
    <2>3. (f.id # Nil => f.id \in Nat) /\ (call.hasFunc \/ f.function # Nil) \in BOOLEAN
      BY DEF FragmentSet
    <2> QED BY <2>1, <2>2, <2>3 DEF WithFragment, CallSet
  <1>8. m = Append(calls, new)
    <2> HIDE DEF m, new
    <2> QED BY <1>1, <1>5, <1>6, <1>7, MappedAppend
  <1>9. call = [index |-> call.index, id |-> call.id, hasFunc |-> TRUE, args |-> call.args]
    BY DEF CallSet
  <1>10. f.function = Nil => new = call
    BY <1>9 DEF WithFragment
  <1>11. f.function # Nil => new = [call EXCEPT !.args = @ \o f.function]
    BY <1>9 DEF WithFragment
  <1> QED BY <1>8, <1>10, <1>11

\* And one without a function changes nothing.
LEMMA MergeOfNothing ==
  ASSUME NEW calls, Numbered(calls), NEW call \in CallSet, call.index = Len(calls), call.hasFunc,
         NEW f \in FragmentSet, f.index = call.index, f.id \in {Nil, call.id}, f.function = Nil
  PROVE  MergeToolCall(Append(calls, call), f) = Append(calls, call)
BY MergeIntoLast

\* A list with one element in front.
LEMMA OneFirst ==
  ASSUME NEW S, NEW e \in S, NEW s \in Seq(S)
  PROVE  /\ <<e>> \o s \in Seq(S) /\ Len(<<e>> \o s) = 1 + Len(s)
         /\ \A i \in 1 .. 1 + Len(s) : (<<e>> \o s)[i] = IF i <= 1 THEN e ELSE s[i - 1]
  <1> DEFINE one == <<e>>
             c == one \o s
  <1>1. one \in Seq(S) /\ Len(one) = 1 /\ one[1] = e /\ Len(s) \in Nat
    BY LenProperties
  <1> HIDE DEF one
  <1>2. /\ c \in Seq(S) /\ Len(c) = Len(one) + Len(s)
        /\ \A i \in 1 .. Len(one) + Len(s) : c[i] = IF i <= Len(one) THEN one[i] ELSE s[i - Len(one)]
    BY <1>1, ConcatProperties
  <1> HIDE DEF c
  <1>3. ASSUME NEW i \in 1 .. 1 + Len(s) PROVE c[i] = IF i <= 1 THEN e ELSE s[i - 1]
    <2>1. c[i] = IF i <= 1 THEN one[i] ELSE s[i - 1]
      BY <1>1, <1>2
    <2>2. i <= 1 => i = 1
      BY <1>1
    <2> QED BY <1>1, <2>1, <2>2
  <1>4. c \in Seq(S) /\ Len(c) = 1 + Len(s)
    BY <1>1, <1>2
  <1> QED BY <1>3, <1>4 DEF c, one

-----------------------------------------------------------------------------
(* The calls told and untold.                                              *)

LEMMA CallsToldEmpty == CallsTold(<<>>) = <<>>
  <1>1. Only(<<>>, {"tool_use"}) = <<>>
    BY OnlyEmpty
  <1> QED BY <1>1 DEF CallsTold

LEMMA CallsToldType ==
  ASSUME NEW c \in Seq(Blocks)
  PROVE  Numbered(CallsTold(c)) /\ \A i \in 1 .. Len(CallsTold(c)) : CallsTold(c)[i].hasFunc
  <1> DEFINE U == {b \in Blocks : b.kind \in {"tool_use"}}
             u == Only(c, {"tool_use"})
             m == CallsTold(c)
  <1>1. u \in Seq(U)
    BY OnlyType
  <1>2. Len(u) \in Nat /\ DOMAIN u = 1 .. Len(u) /\ \A i \in 1 .. Len(u) : u[i] \in U
    <2> HIDE DEF u, U
    <2> QED BY <1>1, LenProperties, ElementOfSeq
  <1>3. m = [i \in DOMAIN u |-> AsCall(u[i], i)]
    BY DEF CallsTold
  <1> HIDE DEF m, u
  <1>4. ASSUME NEW i \in 1 .. Len(u) PROVE AsCall(u[i], i) \in CallSet
    <2>1. u[i] \in Blocks /\ i - 1 \in Int
      BY <1>2
    <2> QED BY <2>1 DEF AsCall, CallSet, Blocks
  <1>5. m \in [1 .. Len(u) -> CallSet]
    BY <1>2, <1>3, <1>4
  <1>6. m \in Seq(CallSet) /\ Len(m) = Len(u)
    BY <1>2, <1>5, IsSequence
  <1>7. \A i \in 1 .. Len(u) : m[i].index = i - 1 /\ m[i].hasFunc
    BY <1>2, <1>3 DEF AsCall
  <1> QED BY <1>6, <1>7 DEF Numbered, m

LEMMA CallsToldAppend ==
  ASSUME NEW c \in Seq(Blocks), NEW b \in Blocks
  PROVE  /\ b.kind # "tool_use" => CallsTold(Append(c, b)) = CallsTold(c)
         /\ b.kind = "tool_use" =>
               CallsTold(Append(c, b)) = Append(CallsTold(c), AsCall(b, Len(CallsTold(c)) + 1))
  <1> DEFINE U == {x \in Blocks : x.kind \in {"tool_use"}}
             u == Only(c, {"tool_use"})
             v == Only(Append(c, b), {"tool_use"})
             m == CallsTold(c)
             t == CallsTold(Append(c, b))
             n == Len(u)
  <1>1. u \in Seq(U)
    BY OnlyType
  <1>2. n \in Nat /\ DOMAIN u = 1 .. n
    <2> HIDE DEF u, U
    <2> QED BY <1>1, LenProperties
  <1>3. v = IF b.kind = "tool_use" THEN Append(u, b) ELSE u
    BY OnlyAppend
  <1>4. m = [i \in DOMAIN u |-> AsCall(u[i], i)] /\ t = [i \in DOMAIN v |-> AsCall(v[i], i)]
    BY DEF CallsTold
  <1>5. CASE b.kind # "tool_use"
    BY <1>3, <1>5 DEF CallsTold
  <1>6. CASE b.kind = "tool_use"
    <2>1. v = Append(u, b) /\ b \in U
      BY <1>3, <1>6
    <2>2. m \in Seq(CallSet)
      BY CallsToldType DEF Numbered
    <2> HIDE DEF u, v, m, t, U
    <2>3. DOMAIN v = 1 .. n + 1 /\ (\A i \in 1 .. n : v[i] = u[i]) /\ v[n + 1] = b
      <3>1. v \in Seq(U) /\ Len(v) = n + 1
        BY <1>1, <2>1, AppendProperties
      <3> QED BY <1>1, <2>1, <3>1, AppendProperties, LenProperties
    <2>4. Len(m) = n
      BY <1>2, <1>4, <2>2, LenProperties
    <2>5. AsCall(b, n + 1) \in CallSet
      BY <1>2 DEF AsCall, CallSet, Blocks
    <2>6. (\A i \in 1 .. n : t[i] = m[i]) /\ t[n + 1] = AsCall(b, n + 1)
      BY <1>2, <1>4, <2>3
    <2>7. DOMAIN t = DOMAIN Append(u, b) /\ t = [i \in DOMAIN t |-> t[i]]
      <3>1. DOMAIN t = DOMAIN v
        BY <1>4
      <3>2. t = [i \in DOMAIN t |-> t[i]]
        BY <1>4
      <3> QED BY <2>1, <3>1, <3>2
    <2>8. t = Append(m, AsCall(b, n + 1))
      BY <1>1, <2>1, <2>2, <2>4, <2>5, <2>6, <2>7, MappedAppend
    <2>9. t = Append(m, AsCall(b, Len(m) + 1))
      BY <2>4, <2>8
    <2> QED BY <1>6, <2>9 DEF m, t
  <1> QED BY <1>5, <1>6

LEMMA UntoldEmpty == Untold(<<>>) = <<>>
  <1>1. Only(<<>>, {"tool_use"}) = <<>>
    BY OnlyEmpty
  <1> QED BY <1>1 DEF Untold

LEMMA UntoldType == ASSUME NEW c \in Seq(PieceSet) PROVE Untold(c) \in Seq(FragmentSet)
  <1> DEFINE U == {b \in PieceSet : b.kind \in {"tool_use"}}
             u == Only(c, {"tool_use"})
             m == Untold(c)
  <1>1. u \in Seq(U)
    BY OnlyType
  <1>2. Len(u) \in Nat /\ DOMAIN u = 1 .. Len(u) /\ \A i \in 1 .. Len(u) : u[i] \in PieceSet
    <2>1. \A i \in 1 .. Len(u) : u[i] \in U
      <3> HIDE DEF u, U
      <3> QED BY <1>1, LenProperties, ElementOfSeq
    <2> QED BY <1>1, <2>1, LenProperties
  <1>3. m = [i \in DOMAIN u |-> AsFragment(u[i])]
    BY DEF Untold
  <1> HIDE DEF m, u
  <1>4. ASSUME NEW p \in PieceSet PROVE AsFragment(p) \in FragmentSet
    BY DEF PieceSet, AsFragment, FragmentSet
  <1>5. m \in [1 .. Len(u) -> FragmentSet]
    BY <1>2, <1>3, <1>4
  <1>6. m \in Seq(FragmentSet)
    BY <1>2, <1>5, IsSequence
  <1> QED BY <1>6 DEF m

LEMMA UntoldHead ==
  ASSUME NEW c \in Seq(PieceSet), c # <<>>
  PROVE  /\ Head(c).kind # "tool_use" => Untold(c) = Untold(Tail(c))
         /\ Head(c).kind = "tool_use" => Untold(c) = <<AsFragment(Head(c))>> \o Untold(Tail(c))
  <1> DEFINE h == Head(c)
             one == <<h>>
             t == Tail(c)
             u == Only(t, {"tool_use"})
             v == Only(c, {"tool_use"})
             f == AsFragment(h)
             W == Seq(FragmentSet)
  <1>1. h \in PieceSet /\ one \in Seq(PieceSet) /\ t \in Seq(PieceSet) /\ c = one \o t
    BY HeadFirst
  <1>2. v = Only(one, {"tool_use"}) \o u
    <2> HIDE DEF one, t
    <2> QED BY <1>1, OnlyJoin
  <1>3. u \in Seq(PieceSet)
    <2>1. u \in Seq({b \in PieceSet : b.kind \in {"tool_use"}})
      BY <1>1, OnlyType
    <2> QED BY <2>1
  <1>4. CASE h.kind # "tool_use"
    <2>1. one \in Seq({h}) /\ \A a \in {h} : a.kind \notin {"tool_use"}
      BY <1>4
    <2>2. Only(one, {"tool_use"}) = <<>>
      <3> HIDE DEF one, h
      <3> QED BY <2>1, OnlyNone
    <2>3. v = u
      BY <1>2, <1>3, <2>2, ConcatEmptySeq
    <2> QED BY <1>4, <2>3 DEF Untold
  <1>5. CASE h.kind = "tool_use"
    <2>1. one \in Seq({h}) /\ \A a \in {h} : a.kind \in {"tool_use"}
      BY <1>5
    <2>2. Only(one, {"tool_use"}) = one
      <3> HIDE DEF one, h
      <3> QED BY <2>1, OnlyAll
    <2>3. v = one \o u
      BY <1>2, <2>2
    <2> DEFINE x == Untold(c)
               y == Untold(t)
               g == <<f>>
    <2>4. x = [i \in DOMAIN v |-> AsFragment(v[i])] /\ y = [i \in DOMAIN u |-> AsFragment(u[i])]
      BY DEF Untold
    <2>5. x \in W /\ y \in W
      BY <1>1, UntoldType
    <2>6. f \in FragmentSet
      <3> HIDE DEF h
      <3> QED BY <1>1 DEF PieceSet, AsFragment, FragmentSet
    <2> HIDE DEF x, y, v, u, f, h
    <2>9. Len(u) \in Nat /\ DOMAIN u = 1 .. Len(u) /\ DOMAIN y = 1 .. Len(u) /\ Len(y) = Len(u)
      BY <1>3, <2>4, <2>5, LenProperties
    <2>10. /\ v \in Seq(PieceSet) /\ Len(v) = 1 + Len(u)
           /\ \A i \in 1 .. 1 + Len(u) : v[i] = IF i <= 1 THEN h ELSE u[i - 1]
      BY <1>1, <1>3, <2>3, OneFirst
    <2>11. /\ g \o y \in W /\ Len(g \o y) = 1 + Len(u)
           /\ \A i \in 1 .. 1 + Len(u) : (g \o y)[i] = IF i <= 1 THEN f ELSE y[i - 1]
      BY <2>5, <2>6, <2>9, OneFirst
    <2> HIDE DEF g, one
    <2>12. DOMAIN v = 1 .. 1 + Len(u)
      BY <2>10, LenProperties
    <2>13. ASSUME NEW i \in 1 .. 1 + Len(u) PROVE x[i] = (g \o y)[i]
      <3>0. x[i] = AsFragment(v[i])
        BY <2>4, <2>12
      <3>1. CASE i <= 1
        <4>1. i = 1 /\ v[i] = h /\ (g \o y)[i] = f
          BY <2>9, <2>10, <2>11, <3>1
        <4> QED BY <3>0, <4>1 DEF f
      <3>2. CASE ~(i <= 1)
        <4>1. i - 1 \in 1 .. Len(u) /\ v[i] = u[i - 1] /\ (g \o y)[i] = y[i - 1]
          BY <2>9, <2>10, <2>11, <3>2
        <4>2. y[i - 1] = AsFragment(u[i - 1])
          BY <2>4, <2>9, <4>1
        <4> QED BY <3>0, <4>1, <4>2
      <3> QED BY <3>1, <3>2
    <2>14. x = [i \in 1 .. 1 + Len(u) |-> x[i]]
      BY <2>4, <2>12
    <2>15. g \o y = [i \in 1 .. 1 + Len(u) |-> (g \o y)[i]]
      BY <2>11, LenProperties
    <2>16. x = g \o y
      BY <2>13, <2>14, <2>15
    <2> QED BY <1>5, <2>16 DEF x, y, g, f, h
  <1> QED BY <1>4, <1>5

-----------------------------------------------------------------------------
(* What the message is made of at its end.                                 *)

BuiltAll(c) == [i \in DOMAIN c |-> Built(c[i])]

LEMMA BuiltType ==
  ASSUME NEW b \in Blocks
  PROVE  /\ Built(b) \in Blocks /\ Built(b).kind = b.kind /\ Built(b).id = b.id
         /\ b.kind # "tool_use" => Built(b) = b
         /\ b.kind = "tool_use" => Built(b).data = IF b.data = <<>> THEN EmptyObject ELSE b.data
  <1>1. EmptyObject \in Data
    BY DEF EmptyObject, Data
  <1>2. PICK k, d, x : b = [kind |-> k, id |-> d, data |-> x] /\ k \in Kinds /\ d \in Nat \cup {Nil} /\ x \in Data
    <2>1. b = [kind |-> b.kind, id |-> b.id, data |-> b.data]
      BY DEF Blocks
    <2>2. b.kind \in Kinds /\ b.id \in Nat \cup {Nil} /\ b.data \in Data
      BY DEF Blocks
    <2> QED BY <2>1, <2>2
  <1> DEFINE e == [kind |-> k, id |-> d, data |-> EmptyObject]
  <1>3. [b EXCEPT !.data = EmptyObject] = e
    BY <1>2
  <1>4. e \in Blocks /\ e.kind = b.kind /\ e.id = b.id /\ e.data = EmptyObject
    BY <1>1, <1>2 DEF Blocks
  <1>5. CASE b.kind = "tool_use" /\ b.data = <<>>
    <2>1. Built(b) = e
      BY <1>3, <1>5 DEF Built
    <2> HIDE DEF e
    <2> QED BY <1>4, <1>5, <2>1
  <1>6. CASE ~(b.kind = "tool_use" /\ b.data = <<>>)
    <2>1. Built(b) = b
      BY <1>6 DEF Built
    <2> QED BY <1>6, <2>1
  <1> QED BY <1>5, <1>6

LEMMA BuiltAppend ==
  ASSUME NEW c \in Seq(Blocks), NEW e \in Blocks
  PROVE  /\ BuiltAll(c) \in Seq(Blocks)
         /\ BuiltAll(Append(c, e)) = Append(BuiltAll(c), Built(e))
  <1> DEFINE t == BuiltAll(Append(c, e))
             m == BuiltAll(c)
             v == Built(e)
  <1>1. Len(c) \in Nat /\ DOMAIN c = 1 .. Len(c) /\ \A i \in 1 .. Len(c) : c[i] \in Blocks
    BY LenProperties, ElementOfSeq
  <1>2. m \in [1 .. Len(c) -> Blocks]
    BY <1>1, BuiltType DEF BuiltAll
  <1>3. m \in Seq(Blocks) /\ Len(m) = Len(c)
    <2> HIDE DEF m
    <2> QED BY <1>1, <1>2, IsSequence
  <1>4. /\ DOMAIN Append(c, e) = 1 .. Len(c) + 1 /\ Append(c, e)[Len(c) + 1] = e
        /\ \A i \in 1 .. Len(c) : Append(c, e)[i] = c[i]
    <2>1. Append(c, e) \in Seq(Blocks) /\ Len(Append(c, e)) = Len(c) + 1
      BY AppendProperties
    <2> QED BY <2>1, AppendProperties, LenProperties
  <1>5. DOMAIN t = DOMAIN Append(c, e) /\ t = [i \in DOMAIN t |-> t[i]]
    BY DEF BuiltAll
  <1>6. (\A i \in 1 .. Len(c) : t[i] = m[i]) /\ t[Len(c) + 1] = v
    BY <1>1, <1>4 DEF BuiltAll
  <1>7. v \in Blocks
    BY BuiltType
  <1> HIDE DEF t, m, v
  <1>8. t = Append(m, v)
    BY <1>3, <1>5, <1>6, <1>7, MappedAppend
  <1> QED BY <1>3, <1>8 DEF t, m, v

LEMMA BuiltWords ==
  ASSUME NEW c \in Seq(Blocks), NEW k, k # "tool_use"
  PROVE  Words(BuiltAll(c), k) = Words(c, k)
  <1> DEFINE T == {h \in Seq(Blocks) : Words(BuiltAll(h), k) = Words(h, k)}
  <1>0. \A a \in Blocks : a.kind = k => a.data \in Data
    BY DEF Blocks
  <1>1. <<>> \in T
    <2>1. BuiltAll(<<>>) = <<>>
      BY DEF BuiltAll
    <2> QED BY <2>1, EmptySeq
  <1>2. ASSUME NEW h \in Seq(Blocks), NEW e \in Blocks, h \in T PROVE Append(h, e) \in T
    <2> DEFINE m == BuiltAll(h)
               v == Built(e)
    <2>1. m \in Seq(Blocks) /\ BuiltAll(Append(h, e)) = Append(m, v)
      BY BuiltAppend
    <2>2. v \in Blocks /\ v.kind = e.kind /\ (e.kind = k => v = e)
      BY BuiltType
    <2>3. Append(h, e) \in Seq(Blocks)
      BY AppendProperties
    <2>4. Words(m, k) = Words(h, k)
      BY <1>2
    <2> HIDE DEF m, v
    <2>5. Words(Append(m, v), k) = IF v.kind = k THEN Words(m, k) \o v.data ELSE Words(m, k)
      BY <1>0, <2>1, <2>2, WordsAppend
    <2>6. Words(Append(h, e), k) = IF e.kind = k THEN Words(h, k) \o e.data ELSE Words(h, k)
      BY <1>0, WordsAppend
    <2>7. Words(BuiltAll(Append(h, e)), k) = Words(Append(h, e), k)
      BY <2>1, <2>2, <2>4, <2>5, <2>6
    <2> QED BY <2>3, <2>7
  <1>3. Seq(Blocks) \subseteq T
    <2> HIDE DEF T
    <2> QED BY <1>1, <1>2, SequenceInduction
  <1> QED BY <1>3

LEMMA BuiltOnly ==
  ASSUME NEW c \in Seq(Blocks), NEW ks
  PROVE  Only(BuiltAll(c), ks) = BuiltAll(Only(c, ks))
  <1> DEFINE T == {h \in Seq(Blocks) : Only(BuiltAll(h), ks) = BuiltAll(Only(h, ks))}
  <1>1. <<>> \in T
    <2>1. BuiltAll(<<>>) = <<>>
      BY DEF BuiltAll
    <2> QED BY <2>1, OnlyEmpty, EmptySeq
  <1>2. ASSUME NEW h \in Seq(Blocks), NEW e \in Blocks, h \in T PROVE Append(h, e) \in T
    <2> DEFINE m == BuiltAll(h)
               v == Built(e)
               u == Only(h, ks)
    <2>1. m \in Seq(Blocks) /\ BuiltAll(Append(h, e)) = Append(m, v)
      BY BuiltAppend
    <2>2. v \in Blocks /\ v.kind = e.kind
      BY BuiltType
    <2>3. Append(h, e) \in Seq(Blocks)
      BY AppendProperties
    <2>4. u \in Seq(Blocks)
      <3>1. u \in Seq({a \in Blocks : a.kind \in ks})
        BY OnlyType
      <3> QED BY <3>1
    <2>5. Only(m, ks) = BuiltAll(u)
      BY <1>2
    <2>6. Only(Append(h, e), ks) = IF e.kind \in ks THEN Append(u, e) ELSE u
      BY OnlyAppend
    <2>7. BuiltAll(Append(u, e)) = Append(BuiltAll(u), v)
      <3> HIDE DEF u
      <3> QED BY <2>4, BuiltAppend
    <2> HIDE DEF m, v, u
    <2>8. Only(Append(m, v), ks) = IF v.kind \in ks THEN Append(Only(m, ks), v) ELSE Only(m, ks)
      BY <2>1, <2>2, OnlyAppend
    <2>9. Only(BuiltAll(Append(h, e)), ks) = BuiltAll(Only(Append(h, e), ks))
      BY <2>1, <2>2, <2>5, <2>6, <2>7, <2>8
    <2> QED BY <2>3, <2>9
  <1>3. Seq(Blocks) \subseteq T
    <2> HIDE DEF T
    <2> QED BY <1>1, <1>2, SequenceInduction
  <1> QED BY <1>3

\* All blocks are there.
LEMMA ContentIs ==
  ASSUME NEW m, m.blocks \in Seq(Blocks)
  PROVE  Content(m) = BuiltAll(m.blocks) /\ Content(m) \in Seq(Blocks)
  <1> DEFINE c == m.blocks
             there == Selected(c, LAMBDA b : b # Nil)
  <1>1. \A i \in DOMAIN c : c[i] \in Blocks /\ c[i] # Nil
    <2>1. \A i \in DOMAIN c : c[i] \in Blocks
      BY LenProperties, ElementOfSeq
    <2> QED BY <2>1, NilAssumption
  <1>2. Marked(c, Blocks) = [i \in DOMAIN c |-> IF c[i] # Nil THEN <<c[i]>> ELSE <<>>]
    <2> HIDE DEF c
    <2> QED BY <1>1 DEF Marked
  <1>3. there = Picked(c, Blocks)
    <2>1. there = Concat([i \in DOMAIN c |-> IF c[i] # Nil THEN <<c[i]>> ELSE <<>>])
      BY DEF Selected
    <2> QED BY <1>2, <2>1 DEF Picked
  <1>4. there = c
    <2> HIDE DEF there, c
    <2>1. c \in Seq(Blocks)
      BY DEF c
    <2> QED BY <1>3, <2>1, PickedAll
  <1>5. Content(m) = BuiltAll(there)
    BY DEF Content, BuiltAll
  <1>6. BuiltAll(c) \in Seq(Blocks)
    <2>1. [kind |-> "text", id |-> Nil, data |-> <<>>] \in Blocks
      BY EmptySeq DEF Blocks, Kinds, Data
    <2> QED BY <2>1, BuiltAppend
  <1> HIDE DEF there
  <1> QED BY <1>4, <1>5, <1>6

\* What a list of calls is to look like.
TellCalls(uses) ==
    [i \in DOMAIN uses |-> [id |-> uses[i].id,
                            args |-> IF uses[i].data = <<>> THEN EmptyObject ELSE uses[i].data]]

LEMMA ContentSays ==
  ASSUME NEW m, m.blocks \in Seq(Blocks)
  PROVE  /\ \A k \in {"thinking", "text"} : Words(Content(m), k) = Words(m.blocks, k)
         /\ CallsOf(Content(m)) = TellCalls(Only(m.blocks, {"tool_use"}))
  <1> DEFINE c == m.blocks
             u == Only(c, {"tool_use"})
  <1>1. Content(m) = BuiltAll(c)
    BY ContentIs
  <1>2. \A k \in {"thinking", "text"} : Words(BuiltAll(c), k) = Words(c, k)
    BY BuiltWords
  <1>3. Only(BuiltAll(c), {"tool_use"}) = BuiltAll(u)
    BY BuiltOnly
  <1>4. u \in Seq({a \in Blocks : a.kind \in {"tool_use"}})
    BY OnlyType
  <1>5. \A i \in DOMAIN u : u[i] \in Blocks /\ u[i].kind = "tool_use"
    <2>1. \A i \in DOMAIN u : u[i] \in {a \in Blocks : a.kind \in {"tool_use"}}
      <3> HIDE DEF u
      <3> QED BY <1>4, LenProperties, ElementOfSeq
    <2> QED BY <2>1
  <1>6. CallsOf(BuiltAll(c)) = [i \in DOMAIN BuiltAll(u) |-> [id |-> BuiltAll(u)[i].id, args |-> BuiltAll(u)[i].data]]
    BY <1>3 DEF CallsOf
  <1> HIDE DEF u
  <1>7. DOMAIN BuiltAll(u) = DOMAIN u /\ \A i \in DOMAIN u : BuiltAll(u)[i] = Built(u[i])
    BY DEF BuiltAll
  <1>8. ASSUME NEW i \in DOMAIN u
        PROVE  [id |-> BuiltAll(u)[i].id, args |-> BuiltAll(u)[i].data]
                  = [id |-> u[i].id, args |-> IF u[i].data = <<>> THEN EmptyObject ELSE u[i].data]
    BY <1>5, <1>7, BuiltType
  <1>9. CallsOf(BuiltAll(c)) = TellCalls(u)
    BY <1>6, <1>7, <1>8 DEF TellCalls
  <1> QED BY <1>1, <1>2, <1>9 DEF u

\* The calls with a function; all of them where each has one.
LEMMA WithFunctionIs ==
  ASSUME NEW calls \in Seq(CallSet)
  PROVE  /\ WithFunction(calls) \in Seq(CallSet)
         /\ (\A i \in 1 .. Len(calls) : calls[i].hasFunc) => WithFunction(calls) = calls
  <1> DEFINE F == {x \in CallSet : x.hasFunc}
  <1>1. \A i \in DOMAIN calls : calls[i] \in CallSet
    BY LenProperties, ElementOfSeq
  <1>2. Marked(calls, F) = [i \in DOMAIN calls |-> IF calls[i].hasFunc THEN <<calls[i]>> ELSE <<>>]
    BY <1>1 DEF Marked
  <1>3. WithFunction(calls) = Picked(calls, F)
    <2>1. WithFunction(calls) = Concat([i \in DOMAIN calls |-> IF calls[i].hasFunc THEN <<calls[i]>> ELSE <<>>])
      BY DEF WithFunction, Selected
    <2> QED BY <1>2, <2>1 DEF Picked
  <1>4. Picked(calls, F) \in Seq(CallSet)
    <2>1. Picked(calls, F) \in Seq(CallSet \cap F)
      <3> HIDE DEF F
      <3> QED BY PickedType
    <2>2. CallSet \cap F \subseteq CallSet
      OBVIOUS
    <2> HIDE DEF F
    <2> QED BY <2>1, <2>2
  <1>5. ASSUME \A i \in 1 .. Len(calls) : calls[i].hasFunc PROVE Picked(calls, F) = calls
    <2>1. Len(calls) \in Nat /\ DOMAIN calls = 1 .. Len(calls) /\ \A i \in 1 .. Len(calls) : calls[i] \in F
      BY <1>5, LenProperties, ElementOfSeq
    <2>2. calls \in [1 .. Len(calls) -> F]
      <3>1. calls \in [1 .. Len(calls) -> CallSet]
        BY LenProperties
      <3> HIDE DEF F
      <3> QED BY <2>1, <3>1
    <2>3. calls \in Seq(F)
      <3> HIDE DEF F
      <3> QED BY <2>1, <2>2, IsSequence
    <2> HIDE DEF F
    <2> QED BY <2>3, PickedAll
  <1> QED BY <1>3, <1>4, <1>5

\* The calls of an answer, as the message is to have them.
ChatTells(ch) ==
    LET calls == WithFunction(ch.calls)
    IN  [i \in DOMAIN calls |-> [id |-> calls[i].id,
                                 args |-> IF calls[i].args = <<>> THEN EmptyObject ELSE calls[i].args]]

\* Where the blocks are the chat's, the message is.
LEMMA ToldIsSame ==
  ASSUME NEW m, NEW ch, m.blocks \in Seq(Blocks), ch.calls \in Seq(CallSet),
         Words(m.blocks, "thinking") = Told(ch.thinking),
         Words(m.blocks, "text") = Told(ch.text)
  PROVE  /\ Words(Content(m), "thinking") = Told(ch.thinking)
         /\ Words(Content(m), "text") = Told(ch.text)
         /\ CallsTold(m.blocks) = ch.calls => CallsOf(Content(m)) = ChatTells(ch)
  <1> DEFINE c == m.blocks
             u == Only(c, {"tool_use"})
  <1>1. Words(Content(m), "thinking") = Told(ch.thinking) /\ Words(Content(m), "text") = Told(ch.text)
    BY ContentSays 
  <1>2. ASSUME CallsTold(m.blocks) = ch.calls PROVE CallsOf(Content(m)) = ChatTells(ch)
    <2>1. CallsOf(Content(m)) = TellCalls(u)
      BY ContentSays
    <2>2. CallsTold(c) = ch.calls
      BY <1>2
    <2>3. \A i \in 1 .. Len(ch.calls) : ch.calls[i].hasFunc
      BY <2>2, CallsToldType
    <2>4. WithFunction(ch.calls) = ch.calls
      BY <2>3, WithFunctionIs
    <2>5. ChatTells(ch) = [i \in DOMAIN ch.calls |->
                          [id |-> ch.calls[i].id,
                           args |-> IF ch.calls[i].args = <<>> THEN EmptyObject ELSE ch.calls[i].args]]
      BY <2>4 DEF ChatTells
    <2>6. DOMAIN ch.calls = DOMAIN u /\ \A i \in DOMAIN u : ch.calls[i] = AsCall(u[i], i)
      BY <2>2 DEF CallsTold
    <2> HIDE DEF u
    <2>7. \A i \in DOMAIN u : ch.calls[i].id = u[i].id /\ ch.calls[i].args = u[i].data
      <3>1. \A x, i : AsCall(x, i).id = x.id /\ AsCall(x, i).args = x.data
        BY DEF AsCall
      <3> QED BY <2>6, <3>1
    <2>8. ChatTells(ch) = TellCalls(u)
      BY <2>5, <2>6, <2>7 DEF TellCalls
    <2> QED BY <2>1, <2>8
  <1> QED BY <1>1, <1>2

\* A whole answer is.
LEMMA WholeIsSame ==
  ASSUME NEW m, NEW ch, m.blocks = WholeContent(ch), ch.calls \in Seq(CallSet),
         ch.thinking \in Data \cup {Nil}, ch.text \in Data \cup {Nil}
  PROVE  /\ Words(Content(m), "thinking") = Told(ch.thinking)
         /\ Words(Content(m), "text") = Told(ch.text)
         /\ CallsOf(Content(m)) = ChatTells(ch)
         /\ m.blocks \in Seq(Blocks)
  <1> DEFINE first == IF ch.thinking # Nil THEN <<[kind |-> "thinking", id |-> Nil, data |-> ch.thinking]>> ELSE <<>>
             second == IF ch.text \notin {Nil, <<>>} THEN <<[kind |-> "text", id |-> Nil, data |-> ch.text]>> ELSE <<>>
             calls == WithFunction(ch.calls)
             third == [i \in DOMAIN calls |-> [kind |-> "tool_use", id |-> calls[i].id, data |-> calls[i].args]]
             A(k) == {b \in Blocks : b.kind = k}
  <1>0. calls \in Seq(CallSet)
    BY WithFunctionIs
  <1>1. first \in Seq(A("thinking")) /\ Words(first, "thinking") = Told(ch.thinking)
    <2>1. CASE ch.thinking = Nil
      BY <2>1, WordsEmpty, EmptySeq DEF Told
    <2>2. CASE ch.thinking # Nil
      <3> DEFINE b == [kind |-> "thinking", id |-> Nil, data |-> ch.thinking]
      <3>1. b \in A("thinking") /\ b.kind = "thinking" /\ b.data = ch.thinking
        BY <2>2 DEF Blocks, Kinds
      <3>2. \A a \in A("thinking") : a.kind = "thinking" => a.data \in Data
        BY DEF Blocks
      <3>3. first = <<b>>
        BY <2>2
      <3> HIDE DEF b, A, first
      <3>4. Words(<<b>>, "thinking") = b.data
        BY <3>1, <3>2, WordsOne
      <3>5. <<b>> \in Seq(A("thinking"))
        BY <3>1
      <3> QED BY <2>2, <3>1, <3>3, <3>4, <3>5 DEF Told
    <2> QED BY <2>1, <2>2
  <1>2. second \in Seq(A("text")) /\ Words(second, "text") = Told(ch.text)
    <2>1. CASE ch.text \in {Nil, <<>>}
      BY <2>1, WordsEmpty, EmptySeq DEF Told
    <2>2. CASE ch.text \notin {Nil, <<>>}
      <3> DEFINE b == [kind |-> "text", id |-> Nil, data |-> ch.text]
      <3>1. b \in A("text") /\ b.kind = "text" /\ b.data = ch.text
        BY <2>2 DEF Blocks, Kinds
      <3>2. \A a \in A("text") : a.kind = "text" => a.data \in Data
        BY DEF Blocks
      <3>3. second = <<b>>
        BY <2>2
      <3> HIDE DEF b, A, second
      <3>4. Words(<<b>>, "text") = b.data
        BY <3>1, <3>2, WordsOne
      <3>5. <<b>> \in Seq(A("text"))
        BY <3>1
      <3> QED BY <2>2, <3>1, <3>3, <3>4, <3>5 DEF Told
    <2> QED BY <2>1, <2>2
  <1>3. third \in Seq(A("tool_use")) /\ DOMAIN third = DOMAIN calls
    <2>1. Len(calls) \in Nat /\ DOMAIN calls = 1 .. Len(calls) /\ \A i \in 1 .. Len(calls) : calls[i] \in CallSet
      <3> HIDE DEF calls
      <3> QED BY <1>0, LenProperties, ElementOfSeq
    <2> HIDE DEF calls
    <2>2. \A i \in 1 .. Len(calls) : third[i] \in A("tool_use")
      BY <2>1 DEF CallSet, Blocks, Kinds
    <2>3. third \in [1 .. Len(calls) -> A("tool_use")]
      <3>1. DOMAIN third = 1 .. Len(calls) /\ third = [i \in DOMAIN third |-> third[i]]
        BY <2>1
      <3> HIDE DEF third, A
      <3> QED BY <2>2, <3>1
    <2> HIDE DEF third, A
    <2>4. third \in Seq(A("tool_use")) /\ DOMAIN third = 1 .. Len(calls)
      BY <2>1, <2>3, IsSequence
    <2> QED BY <2>1, <2>4
  <1>4. \A k : A(k) \subseteq Blocks
    OBVIOUS
  <1>5. m.blocks = (first \o second) \o third
    BY DEF WholeContent
  <1>6. \A i \in DOMAIN third : third[i].id = calls[i].id /\ third[i].data = calls[i].args
    <2> HIDE DEF calls
    <2> QED OBVIOUS
  <1> HIDE DEF first, second, third, calls
  <1>7. first \in Seq(Blocks) /\ second \in Seq(Blocks) /\ third \in Seq(Blocks)
    <2> HIDE DEF A
    <2> QED BY <1>1, <1>2, <1>3, <1>4
  <1> DEFINE front == first \o second
  <1>8. front \in Seq(Blocks) /\ front \o third \in Seq(Blocks)
    BY <1>7, ConcatProperties
  <1>9. ASSUME NEW k PROVE Only(m.blocks, {k}) = (Only(first, {k}) \o Only(second, {k})) \o Only(third, {k})
    <2>1. Only(front, {k}) = Only(first, {k}) \o Only(second, {k})
      BY <1>7, OnlyJoin
    <2> HIDE DEF front
    <2>2. Only(front \o third, {k}) = Only(front, {k}) \o Only(third, {k})
      BY <1>7, <1>8, OnlyJoin
    <2> QED BY <1>5, <2>1, <2>2 DEF front
  <1>10. ASSUME NEW k, NEW l, NEW s \in Seq(A(l))
         PROVE  /\ k # l => Only(s, {k}) = <<>>
                /\ k = l => Only(s, {k}) = s
    <2>1. (k # l => \A a \in A(l) : a.kind \notin {k}) /\ (k = l => \A a \in A(l) : a.kind \in {k})
      OBVIOUS
    <2> HIDE DEF A
    <2>2. ASSUME k # l PROVE Only(s, {k}) = <<>>
      BY <2>1, <2>2, OnlyNone
    <2>3. ASSUME k = l PROVE Only(s, {k}) = s
      <3>1. \A a \in A(l) : a.kind \in {k}
        BY <2>1, <2>3
      <3> QED BY <3>1, OnlyAll
    <2> QED BY <2>2, <2>3
  <1>11. ASSUME NEW s \in Seq(Blocks) PROVE s \o <<>> = s /\ <<>> \o s = s
    BY ConcatEmptySeq
  <1>12. <<>> \in Seq(Blocks)
    BY EmptySeq
  <1> HIDE DEF A
  <1>13. Only(m.blocks, {"thinking"}) = first
    <2>1. Only(first, {"thinking"}) = first /\ Only(second, {"thinking"}) = <<>> /\ Only(third, {"thinking"}) = <<>>
      BY <1>1, <1>2, <1>3, <1>10, ZenonT(60)
    <2>2. Only(m.blocks, {"thinking"}) = (first \o <<>>) \o <<>>
      BY <1>9, <2>1
    <2> QED BY <1>7, <1>11, <2>2
  <1>14. Only(m.blocks, {"text"}) = second
    <2>1. Only(first, {"text"}) = <<>> /\ Only(second, {"text"}) = second /\ Only(third, {"text"}) = <<>>
      BY <1>1, <1>2, <1>3, <1>10, ZenonT(60)
    <2>2. Only(m.blocks, {"text"}) = (<<>> \o second) \o <<>>
      BY <1>9, <2>1
    <2> QED BY <1>7, <1>11, <2>2
  <1>15. Only(m.blocks, {"tool_use"}) = third
    <2>1. Only(first, {"tool_use"}) = <<>> /\ Only(second, {"tool_use"}) = <<>> /\ Only(third, {"tool_use"}) = third
      BY <1>1, <1>2, <1>3, <1>10, ZenonT(60)
    <2>2. Only(m.blocks, {"tool_use"}) = (<<>> \o <<>>) \o third
      BY <1>9, <2>1
    <2> QED BY <1>7, <1>11, <1>12, <2>2
  <1>16. m.blocks \in Seq(Blocks)
    BY <1>5, <1>8
  <1>17. Words(Content(m), "thinking") = Told(ch.thinking)
    <2>1. Words(m.blocks, "thinking") = Words(first, "thinking")
      <3>1. Only(first, {"thinking"}) = first
        BY <1>1, <1>10
      <3> QED BY <1>13, <3>1 DEF Words
    <2> QED BY <1>1, <1>16, <2>1, ContentSays 
  <1>18. Words(Content(m), "text") = Told(ch.text)
    <2>1. Words(m.blocks, "text") = Words(second, "text")
      <3>1. Only(second, {"text"}) = second
        BY <1>2, <1>10
      <3> QED BY <1>14, <3>1 DEF Words
    <2> QED BY <1>2, <1>16, <2>1, ContentSays 
  <1>19. CallsOf(Content(m)) = ChatTells(ch)
    <2>1. CallsOf(Content(m)) = TellCalls(third)
      BY <1>15, <1>16, ContentSays
    <2>2. ChatTells(ch) = [i \in DOMAIN calls |-> [id |-> calls[i].id,
                                               args |-> IF calls[i].args = <<>> THEN EmptyObject ELSE calls[i].args]]
      BY DEF ChatTells, calls
    <2>3. ChatTells(ch) = TellCalls(third)
      BY <1>3, <1>6, <2>2 DEF TellCalls
    <2> QED BY <2>1, <2>3
  <1> QED BY <1>16, <1>17, <1>18, <1>19

-----------------------------------------------------------------------------
(* A list of pieces, and its first one.                                    *)

LEMMA PiecesKinds ==
  /\ \A p \in PieceSet : p.kind \in {"thinking", "text"} => p.data \in Data
  /\ \A k \in {"thinking", "text"} : \A p \in PieceSet : p.kind = k => p.data \in Data
BY DEF PieceSet

\* A piece that is no call, in front of others.
LEMMA PieceInFront ==
  ASSUME NEW p \in PieceSet, p.kind # "tool_use", NEW s \in Seq(PieceSet), NEW n
  PROVE  LET c == <<p>> \o s
         IN  /\ c \in Seq(PieceSet) /\ c # <<>> /\ Head(c) = p /\ Tail(c) = s
             /\ Untold(c) = Untold(s)
             /\ \A k \in {"thinking", "text"} :
                   Words(c, k) = IF p.kind = k THEN p.data \o Words(s, k) ELSE Words(s, k)
             /\ PiecesInOrder(s, p.kind, n, Nil) => \A k, d : PiecesInOrder(c, k, n, d)
             /\ \A k : LastKind(c, k) = LastKind(s, p.kind)
  <1> DEFINE c == <<p>> \o s
  <1>1. /\ c \in Seq(PieceSet) /\ Len(c) = 1 + Len(s)
        /\ \A i \in 1 .. 1 + Len(s) : c[i] = IF i <= 1 THEN p ELSE s[i - 1]
    BY OneFirst
  <1>2. Len(s) \in Nat
    BY LenProperties
  <1>3. Head(c) = p /\ Tail(c) = s
    OBVIOUS
  <1> HIDE DEF c
  <1>4. c # <<>> /\ c[1] = p /\ \A i \in 1 .. Len(s) : c[i + 1] = s[i]
    <2>1. Len(c) # 0
      BY <1>1, <1>2
    <2>2. Len(<<>>) = 0
      OBVIOUS
    <2> QED BY <1>1, <1>2, <2>1, <2>2
  <1>5. Untold(c) = Untold(s)
    BY <1>1, <1>3, <1>4, UntoldHead
  <1>8. ASSUME NEW k \in {"thinking", "text"}
        PROVE  Words(c, k) = IF p.kind = k THEN p.data \o Words(s, k) ELSE Words(s, k)
    <2>1. \A a \in PieceSet : a.kind = k => a.data \in Data
      BY PiecesKinds
    <2>2. /\ Head(c).kind = k => Words(c, k) = Head(c).data \o Words(Tail(c), k)
          /\ Head(c).kind # k => Words(c, k) = Words(Tail(c), k)
      BY <1>1, <1>4, <2>1, WordsHead
    <2> QED BY <1>3, <2>2
  <1>6. ASSUME PiecesInOrder(s, p.kind, n, Nil), NEW k, NEW d PROVE PiecesInOrder(c, k, n, d)
    <2>1. Follows(c[1], k, n, d)
      BY <1>4 DEF Follows
    <2>2. ASSUME NEW i \in 1 .. Len(c), NEW j \in 1 .. Len(c), i < j, c[i].kind = "tool_use"
          PROVE  c[j].kind = "tool_use"
      <3>1. i # 1
        BY <1>4, <2>2
      <3>2. i - 1 \in 1 .. Len(s) /\ j - 1 \in 1 .. Len(s) /\ i - 1 < j - 1
        BY <1>1, <1>2, <2>2, <3>1
      <3>3. c[i] = s[i - 1] /\ c[j] = s[j - 1]
        BY <1>1, <1>2, <3>2
      <3> QED BY <1>6, <2>2, <3>2, <3>3 DEF PiecesInOrder
    <2>3. ASSUME NEW j \in 2 .. Len(c)
          PROVE  IF c[j - 1].kind = "tool_use" THEN Follows(c[j], "tool_use", c[j - 1].index + 1, Nil)
                 ELSE Follows(c[j], c[j - 1].kind, n, Nil)
      <3>1. CASE j = 2
        <4>1. 1 \in 1 .. Len(s) /\ c[j] = s[1] /\ c[j - 1] = p
          BY <1>1, <1>2, <1>4, <3>1
        <4>2. s # <<>>
          BY <4>1
        <4>3. Follows(s[1], p.kind, n, Nil)
          BY <1>6, <4>2 DEF PiecesInOrder
        <4> QED BY <4>1, <4>3
      <3>2. CASE j # 2
        <4>0. j \in Int /\ 2 <= j /\ j <= Len(s) + 1 /\ Len(s) \in Nat
          BY <1>1, <1>2
        <4>1. j - 1 \in 2 .. Len(s) /\ j - 2 \in 1 .. Len(s) /\ j - 1 \in 1 .. Len(s) /\ (j - 2) + 1 = j - 1 /\ (j - 1) + 1 = j
          BY <3>2, <4>0
        <4>2. c[j] = s[j - 1] /\ c[j - 1] = s[j - 2] /\ (j - 1) - 1 = j - 2
          BY <1>4, <4>1
        <4> QED BY <1>6, <4>1, <4>2 DEF PiecesInOrder
      <3> QED BY <3>1, <3>2
    <2> QED BY <2>1, <2>2, <2>3 DEF PiecesInOrder
  <1>7. ASSUME NEW k PROVE LastKind(c, k) = LastKind(s, p.kind)
    <2>1. CASE s = <<>>
      <3>1. Len(c) = 1
        BY <1>1, <2>1
      <3> QED BY <1>4, <2>1, <3>1 DEF LastKind
    <2>2. CASE s # <<>>
      <3>1. Len(s) \in 1 .. Len(s)
        BY <2>2, EmptySeq
      <3>2. c[Len(c)] = s[Len(s)]
        BY <1>1, <1>2, <1>4, <3>1
      <3> QED BY <1>4, <2>2, <3>2 DEF LastKind
    <2> QED BY <2>1, <2>2
  <1> QED BY <1>1, <1>3, <1>4, <1>5, <1>6, <1>7, <1>8 DEF c

\* The others are in order behind the first.
LEMMA OrderOfTail ==
  ASSUME NEW c \in Seq(PieceSet), c # <<>>, NEW k, NEW n, NEW d, PiecesInOrder(c, k, n, d)
  PROVE  /\ Head(c).kind # "tool_use" => \A e : PiecesInOrder(Tail(c), Head(c).kind, n, e)
         /\ Head(c).kind = "tool_use" => \A e : PiecesInOrder(Tail(c), "tool_use", Head(c).index + 1, e)
         /\ \A l : LastKind(c, l) = LastKind(Tail(c), Head(c).kind)
  <1> DEFINE h == Head(c)
             t == Tail(c)
  <1>1. /\ Len(c) \in Nat /\ Len(c) # 0 /\ h = c[1]
        /\ t \in Seq(PieceSet) /\ Len(t) = Len(c) - 1
        /\ \A i \in 1 .. Len(t) : t[i] = c[i + 1]
    BY HeadTailProperties, EmptySeq, LenProperties
  <1> HIDE DEF h, t
  <1>2. t # <<>> => 2 \in 2 .. Len(c) /\ t[1] = c[2] /\ c[2 - 1] = h
    <2>1. t # <<>> => Len(t) # 0
      BY <1>1, EmptySeq
    <2>2. t # <<>> => Len(c) >= 2 /\ 1 \in 1 .. Len(t)
      BY <1>1, <2>1
    <2>3. t # <<>> => t[1] = c[1 + 1]
      BY <1>1, <2>2
    <2> QED BY <1>1, <2>2, <2>3
  <1>3. \A i, j \in 1 .. Len(t) : i < j /\ t[i].kind = "tool_use" => t[j].kind = "tool_use"
    <2> SUFFICES ASSUME NEW i \in 1 .. Len(t), NEW j \in 1 .. Len(t), i < j, t[i].kind = "tool_use"
                 PROVE  t[j].kind = "tool_use"
      OBVIOUS
    <2>1. i + 1 \in 1 .. Len(c) /\ j + 1 \in 1 .. Len(c) /\ i + 1 < j + 1 /\ t[i] = c[i + 1] /\ t[j] = c[j + 1]
      BY <1>1
    <2> QED BY <2>1 DEF PiecesInOrder
  <1>4. ASSUME NEW j \in 2 .. Len(t)
        PROVE  /\ IF t[j - 1].kind = "tool_use" THEN Follows(t[j], "tool_use", t[j - 1].index + 1, Nil)
                  ELSE Follows(t[j], t[j - 1].kind, n, Nil)
               /\ h.kind = "tool_use" => t[j - 1].kind = "tool_use"
    <2>1. /\ j + 1 \in 2 .. Len(c) /\ j - 1 \in 1 .. Len(t) /\ j \in 1 .. Len(c) /\ 1 \in 1 .. Len(c)
          /\ t[j] = c[j + 1] /\ t[j - 1] = c[j] /\ (j + 1) - 1 = j /\ 1 < j
      <3>1. j + 1 \in 2 .. Len(c) /\ j - 1 \in 1 .. Len(t) /\ j \in 1 .. Len(t) /\ (j - 1) + 1 = j
        BY <1>1
      <3>2. t[j] = c[j + 1] /\ t[j - 1] = c[j]
        BY <1>1, <3>1
      <3>3. j \in 1 .. Len(c) /\ 1 \in 1 .. Len(c)
        BY <1>1
      <3> QED BY <3>1, <3>2, <3>3
    <2>2. c[1].kind = "tool_use" => c[j].kind = "tool_use"
      BY <2>1 DEF PiecesInOrder
    <2>3. IF c[(j + 1) - 1].kind = "tool_use" THEN Follows(c[j + 1], "tool_use", c[(j + 1) - 1].index + 1, Nil)
          ELSE Follows(c[j + 1], c[(j + 1) - 1].kind, n, Nil)
      BY <2>1 DEF PiecesInOrder
    <2> QED BY <1>1, <2>1, <2>2, <2>3
  <1>5. t # <<>> => IF h.kind = "tool_use" THEN Follows(t[1], "tool_use", h.index + 1, Nil)
                    ELSE Follows(t[1], h.kind, n, Nil)
    <2> SUFFICES ASSUME t # <<>> PROVE IF h.kind = "tool_use" THEN Follows(t[1], "tool_use", h.index + 1, Nil)
                                       ELSE Follows(t[1], h.kind, n, Nil)
      OBVIOUS
    <2>1. IF c[2 - 1].kind = "tool_use" THEN Follows(c[2], "tool_use", c[2 - 1].index + 1, Nil)
          ELSE Follows(c[2], c[2 - 1].kind, n, Nil)
      BY <1>2 DEF PiecesInOrder
    <2> QED BY <1>2, <2>1
  <1>6. \A p, l, m, e : Follows(p, l, m, Nil) => Follows(p, l, m, e)
    BY DEF Follows
  <1>7. ASSUME h.kind # "tool_use", NEW e PROVE PiecesInOrder(t, h.kind, n, e)
    BY <1>3, <1>4, <1>5, <1>6, <1>7 DEF PiecesInOrder
  <1>8. ASSUME h.kind = "tool_use", NEW e PROVE PiecesInOrder(t, "tool_use", h.index + 1, e)
    <2>1. t # <<>> => Follows(t[1], "tool_use", h.index + 1, e)
      BY <1>5, <1>6, <1>8
    <2>2. \A j \in 2 .. Len(t) : t[j - 1].kind = "tool_use" /\ Follows(t[j], "tool_use", t[j - 1].index + 1, Nil)
      BY <1>4, <1>8
    <2> QED BY <1>3, <2>1, <2>2 DEF PiecesInOrder
  <1>9. ASSUME NEW l PROVE LastKind(c, l) = LastKind(t, h.kind)
    <2>1. CASE t = <<>>
      <3>1. Len(t) = 0
        BY <2>1
      <3>2. Len(c) = 1
        BY <1>1, <3>1
      <3> QED BY <1>1, <2>1, <3>2 DEF LastKind
    <2>2. CASE t # <<>>
      <3>1. Len(t) # 0
        BY <1>1, <2>2, EmptySeq
      <3>2. Len(t) \in 1 .. Len(t) /\ Len(t) + 1 = Len(c)
        BY <1>1, <3>1
      <3>3. t[Len(t)] = c[Len(c)]
        BY <1>1, <3>2
      <3> QED BY <2>2, <3>3 DEF LastKind
    <2> QED BY <2>1, <2>2
  <1> QED BY <1>7, <1>8, <1>9 DEF h, t

-----------------------------------------------------------------------------
(* The pieces of a chunk.                                                  *)

Marks == {"new", "empty", "bare", "more"}
\* How many calls the first fragments begin.
Begun(s, i) == Len(Selected(SubSeq(s, 1, i), LAMBDA c : c # "more"))

LEMMA BegunCounts ==
  ASSUME NEW s \in Seq(Marks)
  PROVE  /\ Begun(s, 0) = 0
         /\ \A i \in 0 .. Len(s) : Begun(s, i) \in Nat
         /\ \A i \in 1 .. Len(s) : Begun(s, i) = IF s[i] = "more" THEN Begun(s, i - 1) ELSE Begun(s, i - 1) + 1
  <1> DEFINE K == {"new", "empty", "bare"}
  <1>0. Len(s) \in Nat
    BY LenProperties
  <1>1. ASSUME NEW u \in Seq(Marks) PROVE Selected(u, LAMBDA c : c # "more") = Picked(u, K)
    <2>1. \A i \in DOMAIN u : u[i] \in Marks
      BY LenProperties, ElementOfSeq
    <2>2. \A i \in DOMAIN u : u[i] \in K <=> u[i] # "more"
      BY <2>1 DEF Marks
    <2>3. Marked(u, K) = [i \in DOMAIN u |-> IF u[i] # "more" THEN <<u[i]>> ELSE <<>>]
      <3> HIDE DEF K
      <3> QED BY <2>2 DEF Marked
    <2> QED BY <2>3 DEF Selected, Picked
  <1>2. ASSUME NEW i \in 0 .. Len(s) PROVE SubSeq(s, 1, i) \in Seq(Marks)
    <2>1. \A j \in 1 .. i : s[j] \in Marks
      BY <1>0, ElementOfSeq
    <2> QED BY <2>1, SubSeqProperties
  <1>3. ASSUME NEW i \in 0 .. Len(s) PROVE Begun(s, i) = Len(Picked(SubSeq(s, 1, i), K))
    BY <1>1, <1>2 DEF Begun
  <1>4. Begun(s, 0) = 0
    <2>1. SubSeq(s, 1, 0) = <<>>
      BY SubSeqEmpty
    <2>2. Picked(<<>>, K) = <<>>
      BY PickedEmpty
    <2>3. 0 \in 0 .. Len(s) /\ Len(<<>>) = 0
      BY <1>0
    <2>4. Begun(s, 0) = Len(Picked(SubSeq(s, 1, 0), K))
      BY <1>3, <2>3
    <2> HIDE DEF K
    <2> QED BY <2>1, <2>2, <2>3, <2>4
  <1>5. ASSUME NEW i \in 0 .. Len(s) PROVE Begun(s, i) \in Nat
    <2>1. Picked(SubSeq(s, 1, i), K) \in Seq(Marks \cap K)
      <3> HIDE DEF K
      <3> QED BY <1>2, PickedType
    <2> HIDE DEF K
    <2> QED BY <1>3, <2>1, LenProperties
  <1>6. ASSUME NEW i \in 1 .. Len(s)
        PROVE  Begun(s, i) = IF s[i] = "more" THEN Begun(s, i - 1) ELSE Begun(s, i - 1) + 1
    <2> DEFINE u == SubSeq(s, 1, i - 1)
               e == s[i]
    <2>1. e \in Marks
      BY ElementOfSeq
    <2>2. i - 1 \in 0 .. Len(s) /\ i \in 0 .. Len(s)
      BY <1>0
    <2>3. u \in Seq(Marks)
      BY <1>2, <2>2
    <2>4. SubSeq(s, 1, i) = u \o <<e>>
      <3>1. 1 \in 1 .. Len(s) /\ i \in 1 .. Len(s)
        BY <1>0
      <3> QED BY <3>1, SubSeqRecursiveSecond
    <2> HIDE DEF u, e
    <2>5. SubSeq(s, 1, i) = Append(u, e)
      BY <2>1, <2>3, <2>4, AppendIsConcat
    <2>6. Picked(Append(u, e), K) = IF e \in K THEN Append(Picked(u, K), e) ELSE Picked(u, K)
      <3> HIDE DEF K
      <3> QED BY <2>1, <2>3, PickedAppend
    <2>7. e \in K <=> e # "more"
      BY <2>1 DEF Marks
    <2>8. Picked(u, K) \in Seq(Marks)
      <3>1. Picked(u, K) \in Seq(Marks \cap K)
        <4> HIDE DEF K
        <4> QED BY <2>3, PickedType
      <3>2. Marks \cap K \subseteq Marks
        OBVIOUS
      <3> HIDE DEF K
      <3> QED BY <3>1, <3>2
    <2>9. Begun(s, i) = Len(Picked(Append(u, e), K)) /\ Begun(s, i - 1) = Len(Picked(u, K))
      BY <1>3, <2>2, <2>5 DEF u
    <2> HIDE DEF K
    <2>10. Len(Append(Picked(u, K), e)) = Len(Picked(u, K)) + 1
      BY <2>1, <2>8, AppendProperties
    <2>11. e = "more" => Begun(s, i) = Begun(s, i - 1)
      BY <2>6, <2>7, <2>9
    <2>12. e # "more" => Begun(s, i) = Begun(s, i - 1) + 1
      BY <2>6, <2>7, <2>9, <2>10
    <2> QED BY <2>11, <2>12 DEF e
  <1> QED BY <1>4, <1>5, <1>6

LEMMA ChunkTypes ==
  ASSUME NEW shape \in Shapes, chunks \in Nat, chat.calls \in Seq(CallSet)
  PROVE  LET chunk == Chunk(shape)
         IN  /\ chunk.thinking \in Data \cup {Nil} /\ chunk.text \in Data \cup {Nil}
             /\ chunk.thinking \notin {Nil, <<>>} <=> shape.thinking = "some"
             /\ chunk.text \notin {Nil, <<>>} <=> shape.text = "some"
             /\ shape.calls \in Seq(Marks) /\ Len(shape.calls) \in Nat
             /\ DOMAIN chunk.calls = 1 .. Len(shape.calls)
             /\ chunk.calls \in Seq(FragmentSet) /\ Len(chunk.calls) = Len(shape.calls)
             /\ \A i \in 1 .. Len(shape.calls) :
                   /\ chunk.calls[i] = [index |-> chunk.calls[i].index, id |-> chunk.calls[i].id,
                                        function |-> chunk.calls[i].function]
                   /\ chunk.calls[i].index = Len(chat.calls) + Begun(shape.calls, i) - 1
                   /\ shape.calls[i] = "more" => chunk.calls[i].id = Nil
                   /\ shape.calls[i] # "more" => chunk.calls[i].id # Nil
  <1> DEFINE chunk == Chunk(shape)
             calls == shape.calls
             f == [i \in DOMAIN calls |-> Fragment(shape, i)]
  <1>1. <<chunks + 1>> \in Data /\ <<>> \in Data /\ <<chunks + 1>> # <<>>
    <2>1. chunks + 1 \in Nat
      OBVIOUS
    <2> QED BY <2>1, EmptySeq DEF Data
  <1>2. Nil \notin Data /\ Nil \notin Nat
    BY NilAssumption
  <1>3. ASSUME NEW what \in {"none", "blank", "some"}
        PROVE  Text(what) \in Data \cup {Nil} /\ (Text(what) \notin {Nil, <<>>} <=> what = "some")
    <2>1. CASE what = "none"
      BY <2>1 DEF Text
    <2>2. CASE what = "blank"
      BY <1>1, <2>2 DEF Text
    <2>3. CASE what = "some"
      <3>1. Text(what) = <<chunks + 1>>
        BY <2>3 DEF Text
      <3> QED BY <1>1, <1>2, <2>3, <3>1
    <2> QED BY <2>1, <2>2, <2>3
  <1>4. chunk.thinking = Text(shape.thinking) /\ chunk.text = Text(shape.text) /\ chunk.calls = f
    BY DEF Chunk
  <1>5. shape.thinking \in {"none", "blank", "some"} /\ shape.text \in {"none", "blank", "some"}
    BY ShapesAssumption
  <1>6. calls \in Seq(Marks)
    BY ShapesAssumption DEF Marks
  <1> HIDE DEF calls, chunk
  <1>7. Len(calls) \in Nat /\ DOMAIN calls = 1 .. Len(calls) /\ Len(chat.calls) \in Nat
    BY <1>6, LenProperties
  <1>8. ASSUME NEW i \in 1 .. Len(calls)
        PROVE  /\ Fragment(shape, i) \in FragmentSet
               /\ Fragment(shape, i) = [index |-> Fragment(shape, i).index, id |-> Fragment(shape, i).id,
                                        function |-> Fragment(shape, i).function]
               /\ Fragment(shape, i).index = Len(chat.calls) + Begun(calls, i) - 1
               /\ calls[i] = "more" => Fragment(shape, i).id = Nil
               /\ calls[i] # "more" => Fragment(shape, i).id # Nil
    <2> DEFINE begun == Len(chat.calls) + Begun(calls, i)
               id == IF calls[i] = "more" THEN Nil ELSE begun
               function == CASE calls[i] = "bare" -> Nil [] calls[i] = "empty" -> <<>> [] OTHER -> <<chunks + 1>>
    <2>1. Fragment(shape, i) = [index |-> begun - 1, id |-> id, function |-> function]
      BY DEF Fragment, Begun, calls
    <2>2. begun \in Nat
      <3>1. i \in 0 .. Len(calls)
        BY <1>7
      <3> QED BY <1>6, <1>7, <3>1, BegunCounts
    <2>3. function \in Data \cup {Nil}
      BY <1>1
    <2>4. id \in Nat \cup {Nil} /\ (calls[i] = "more" => id = Nil) /\ (calls[i] # "more" => id # Nil)
      <3> HIDE DEF begun
      <3> QED BY <1>2, <2>2
    <2>5. begun - 1 \in Int
      BY <2>2
    <2>6. begun - 1 = Len(chat.calls) + Begun(calls, i) - 1
      <3>1. i \in 0 .. Len(calls)
        BY <1>7
      <3>2. Begun(calls, i) \in Nat
        BY <1>6, <3>1, BegunCounts
      <3> QED BY <1>7, <3>2
    <2> HIDE DEF id, function, begun
    <2> QED BY <2>1, <2>3, <2>4, <2>5, <2>6 DEF FragmentSet
  <1>9. f \in [1 .. Len(calls) -> FragmentSet]
    BY <1>7, <1>8
  <1>10. \A i \in 1 .. Len(calls) : f[i] = Fragment(shape, i)
    BY <1>7
  <1> HIDE DEF f
  <1>11. f \in Seq(FragmentSet) /\ Len(f) = Len(calls) /\ DOMAIN f = 1 .. Len(calls)
    BY <1>7, <1>9, IsSequence
  <1> QED BY <1>3, <1>4, <1>5, <1>6, <1>7, <1>8, <1>10, <1>11 DEF chunk, calls

\* What the pieces of a chunk say, and that they come in order behind what
\* there was.
LEMMA ChunkSays ==
  ASSUME NEW shape \in Shapes, chunks \in Nat, chat.calls \in Seq(CallSet), Possible(shape)
  PROVE  LET chunk == Chunk(shape)
             c == Pieces(chunk)
         IN  /\ c \in Seq(PieceSet)
             /\ Words(c, "thinking") = Told(chunk.thinking) /\ Words(c, "text") = Told(chunk.text)
             /\ Untold(c) = chunk.calls
             /\ LastKind(c, latest) = IF shape.calls # <<>> THEN "tool_use" ELSE Before(shape)
             /\ (shape.calls # <<>> => Before(shape) # "thinking")
                   => \A d : PiecesInOrder(c, latest, Len(chat.calls), d)
  <1> DEFINE chunk == Chunk(shape)
             calls == chunk.calls
             n == Len(chat.calls)
             m == Len(shape.calls)
             p == Piece("thinking", 0, Nil, chunk.thinking)
             q == Piece("text", 0, Nil, chunk.text)
             first == IF chunk.thinking \notin {Nil, <<>>} THEN <<p>> ELSE <<>>
             second == IF chunk.text \notin {Nil, <<>>} THEN <<q>> ELSE <<>>
             third == [i \in DOMAIN calls |-> Piece("tool_use", calls[i].index, calls[i].id, calls[i].function)]
             behind == second \o third
             thought == IF shape.thinking = "some" THEN "thinking" ELSE latest
             Fine == shape.calls # <<>> => Before(shape) # "thinking"
  <1>1. /\ chunk.thinking \in Data \cup {Nil} /\ chunk.text \in Data \cup {Nil}
        /\ chunk.thinking \notin {Nil, <<>>} <=> shape.thinking = "some"
        /\ chunk.text \notin {Nil, <<>>} <=> shape.text = "some"
        /\ shape.calls \in Seq(Marks) /\ m \in Nat
        /\ DOMAIN calls = 1 .. m /\ calls \in Seq(FragmentSet) /\ Len(calls) = m
    BY ChunkTypes
  <1>2. \A i \in 1 .. m :
           /\ calls[i] = [index |-> calls[i].index, id |-> calls[i].id, function |-> calls[i].function]
           /\ calls[i].index = n + Begun(shape.calls, i) - 1
           /\ shape.calls[i] = "more" => calls[i].id = Nil
           /\ shape.calls[i] # "more" => calls[i].id # Nil
    BY ChunkTypes
  <1>3. Pieces(chunk) = (first \o second) \o third
    BY DEF Pieces
  <1>4. /\ shape.thinking = "some" => p \in PieceSet /\ p.kind = "thinking" /\ p.data = Told(chunk.thinking)
        /\ shape.text = "some" => q \in PieceSet /\ q.kind = "text" /\ q.data = Told(chunk.text)
    <2>1. ASSUME NEW k \in {"thinking", "text"}, NEW x \in Data
          PROVE  Piece(k, 0, Nil, x) \in PieceSet /\ Piece(k, 0, Nil, x).kind = k /\ Piece(k, 0, Nil, x).data = x
      <3>1. x # Nil
        BY NilAssumption
      <3> QED BY <3>1 DEF Piece, PieceSet, Kinds
    <2>2. shape.thinking = "some" => chunk.thinking \in Data /\ Told(chunk.thinking) = chunk.thinking
      BY <1>1 DEF Told
    <2>3. shape.text = "some" => chunk.text \in Data /\ Told(chunk.text) = chunk.text
      BY <1>1 DEF Told
    <2> HIDE DEF chunk
    <2> QED BY <2>1, <2>2, <2>3
  <1>5. /\ shape.thinking # "some" => first = <<>> /\ Told(chunk.thinking) = <<>>
        /\ shape.text # "some" => second = <<>> /\ Told(chunk.text) = <<>>
        /\ shape.thinking = "some" => first = <<p>>
        /\ shape.text = "some" => second = <<q>>
    BY <1>1 DEF Told
  <1> HIDE DEF chunk
  <1>6. /\ DOMAIN third = 1 .. m /\ third \in Seq(PieceSet) /\ Len(third) = m
        /\ \A i \in 1 .. m : third[i] = Piece("tool_use", calls[i].index, calls[i].id, calls[i].function)
    <2>1. \A i \in 1 .. m : third[i] = Piece("tool_use", calls[i].index, calls[i].id, calls[i].function)
      <3> HIDE DEF calls, m
      <3> QED BY <1>1
    <2>2. DOMAIN third = 1 .. m /\ third = [i \in 1 .. m |-> third[i]]
      <3> HIDE DEF calls, m
      <3> QED BY <1>1
    <2> HIDE DEF third
    <2>3. ASSUME NEW i \in 1 .. m PROVE third[i] \in PieceSet
      <3>1. calls[i] \in FragmentSet
        <4> HIDE DEF calls, m
        <4> QED BY <1>1, ElementOfSeq
      <3>2. ASSUME NEW f \in FragmentSet PROVE Piece("tool_use", f.index, f.id, f.function) \in PieceSet
        <4>1. f.index \in Int /\ f.id \in Nat \cup {Nil} /\ f.function \in Data \cup {Nil}
          BY DEF FragmentSet
        <4> QED BY <4>1 DEF Piece, PieceSet, Kinds
      <3> HIDE DEF calls
      <3> QED BY <2>1, <3>1, <3>2
    <2>4. third \in [1 .. m -> PieceSet]
      BY <2>2, <2>3
    <2> HIDE DEF m
    <2> QED BY <1>1, <2>1, <2>2, <2>4, IsSequence
  <1> HIDE DEF calls, third, m, n, p, q, first, second
  <1>7. \A i \in 1 .. m : /\ third[i].kind = "tool_use" /\ third[i].index = calls[i].index
                          /\ third[i].id = calls[i].id /\ AsFragment(third[i]) = calls[i]
    BY <1>2, <1>6 DEF Piece, AsFragment
  <1>17. \A i \in 1 .. m : /\ third[i].index = n + Begun(shape.calls, i) - 1
                           /\ shape.calls[i] = "more" => third[i].id = Nil
                           /\ shape.calls[i] # "more" => third[i].id # Nil
    BY <1>2, <1>7
  <1>8. third \in Seq({a \in PieceSet : a.kind = "tool_use"})
    <2> DEFINE U == {a \in PieceSet : a.kind = "tool_use"}
    <2>1. \A i \in 1 .. m : third[i] \in U
      BY <1>6, <1>7, ElementOfSeq
    <2> HIDE DEF U
    <2>2. third \in [1 .. m -> U]
      BY <1>6, <2>1, LenProperties
    <2>3. third \in Seq(U)
      BY <1>1, <2>2, IsSequence
    <2> QED BY <2>3 DEF U
  <1>9. \A k \in {"thinking", "text"} : Words(third, k) = <<>>
    <2> SUFFICES ASSUME NEW k \in {"thinking", "text"} PROVE Words(third, k) = <<>>
      OBVIOUS
    <2>1. Only(third, {k}) = <<>> /\ Only(<<>>, {k}) = <<>>
      <3>1. \A a \in {a \in PieceSet : a.kind = "tool_use"} : a.kind \notin {k}
        OBVIOUS
      <3>2. Only(third, {k}) = <<>>
        BY <1>8, <3>1, OnlyNone
      <3> QED BY <3>2, OnlyEmpty
    <2> QED BY <2>1, WordsEmpty DEF Words
  <1>10. Untold(third) = calls
    <2>1. Only(third, {"tool_use"}) = third
      <3>1. \A a \in {a \in PieceSet : a.kind = "tool_use"} : a.kind \in {"tool_use"}
        OBVIOUS
      <3> QED BY <1>8, <3>1, OnlyAll
    <2>2. Untold(third) = [i \in 1 .. m |-> AsFragment(third[i])]
      BY <1>6, <2>1 DEF Untold
    <2>3. calls = [i \in 1 .. m |-> calls[i]]
      BY <1>1, LenProperties
    <2> QED BY <1>7, <2>2, <2>3
  <1>11. m = 0 <=> shape.calls = <<>>
    BY <1>1, EmptySeq DEF m
  <1>12. \A k : LastKind(third, k) = IF shape.calls # <<>> THEN "tool_use" ELSE k
    <2>1. third = <<>> <=> m = 0
      BY <1>6, EmptySeq
    <2>2. m # 0 => m \in 1 .. m
      BY <1>1
    <2> QED BY <1>6, <1>7, <1>11, <2>1, <2>2 DEF LastKind
  <1>13. ASSUME Fine, NEW d PROVE PiecesInOrder(third, Before(shape), n, d)
    <2>0. n \in Nat /\ Begun(shape.calls, 0) = 0 /\ (\A i \in 0 .. m : Begun(shape.calls, i) \in Nat)
          /\ \A i \in 1 .. m : Begun(shape.calls, i) = IF shape.calls[i] = "more" THEN Begun(shape.calls, i - 1)
                                                       ELSE Begun(shape.calls, i - 1) + 1
      <3>1. n \in Nat
        BY LenProperties DEF n
      <3> QED BY <1>1, <3>1, BegunCounts DEF m
    <2>1. ASSUME third # <<>> PROVE Follows(third[1], Before(shape), n, d)
      <3>1. 1 \in 1 .. m /\ shape.calls # <<>>
        BY <1>1, <1>6, <1>11, <2>1, EmptySeq
      <3>2. CASE shape.calls[1] = "more"
        <4>1. latest = "tool_use" /\ shape.thinking # "some" /\ shape.text # "some"
          BY <3>1, <3>2 DEF Possible
        <4>2. Before(shape) = "tool_use"
          BY <4>1 DEF Before
        <4>3. Begun(shape.calls, 1) = 0
          BY <2>0, <3>1, <3>2
        <4>4. third[1].index = n - 1 /\ third[1].id = Nil
          BY <1>17, <2>0, <3>1, <3>2, <4>3
        <4> QED BY <4>2, <4>4 DEF Follows
      <3>3. CASE shape.calls[1] # "more"
        <4>1. Begun(shape.calls, 1) = 1
          BY <2>0, <3>1, <3>3
        <4>2. third[1].index = n /\ third[1].id # Nil
          BY <1>17, <2>0, <3>1, <3>3, <4>1
        <4> QED BY <1>13, <3>1, <4>2 DEF Follows
      <3> QED BY <3>2, <3>3
    <2>2. \A i, j \in 1 .. Len(third) : third[j].kind = "tool_use"
      BY <1>6, <1>7
    <2>3. ASSUME NEW j \in 2 .. Len(third)
          PROVE  third[j - 1].kind = "tool_use" /\ Follows(third[j], "tool_use", third[j - 1].index + 1, Nil)
      <3>1. j \in 1 .. m /\ j - 1 \in 1 .. m /\ j - 1 \in 0 .. m
        BY <1>1, <1>6
      <3>2. third[j - 1].kind = "tool_use" /\ third[j - 1].index + 1 = n + Begun(shape.calls, j - 1)
        BY <1>7, <1>17, <2>0, <3>1
      <3>3. CASE shape.calls[j] = "more"
        <4>1. third[j].index = n + Begun(shape.calls, j - 1) - 1 /\ third[j].id = Nil
          BY <1>17, <2>0, <3>1, <3>3
        <4>2. third[j].index = (third[j - 1].index + 1) - 1
          BY <2>0, <3>1, <3>2, <4>1
        <4> QED BY <3>2, <4>1, <4>2 DEF Follows
      <3>4. CASE shape.calls[j] # "more"
        <4>1. third[j].index = n + Begun(shape.calls, j - 1) /\ third[j].id # Nil
          BY <1>17, <2>0, <3>1, <3>4
        <4> QED BY <3>2, <4>1 DEF Follows
      <3> QED BY <3>3, <3>4
    <2> QED BY <2>1, <2>2, <2>3 DEF PiecesInOrder
  <1>14. first \in Seq(PieceSet) /\ second \in Seq(PieceSet) /\ behind \in Seq(PieceSet)
         /\ Pieces(chunk) = first \o behind
    <2>1. \A a \in PieceSet : <<a>> \in Seq(PieceSet)
      OBVIOUS
    <2>2. first \in Seq(PieceSet)
      BY <1>4, <1>5, <2>1, EmptySeq
    <2>3. second \in Seq(PieceSet)
      BY <1>4, <1>5, <2>1, EmptySeq
    <2>4. behind \in Seq(PieceSet)
      BY <1>6, <2>3, ConcatProperties
    <2>5. (first \o second) \o third = first \o (second \o third)
      BY <1>6, <2>2, <2>3, ConcatAssociative
    <2> QED BY <1>3, <2>2, <2>3, <2>4, <2>5
  <1>15. /\ Words(behind, "thinking") = <<>> /\ Words(behind, "text") = Told(chunk.text) /\ Untold(behind) = calls
         /\ LastKind(behind, thought) = IF shape.calls # <<>> THEN "tool_use" ELSE Before(shape)
         /\ Fine => \A d : PiecesInOrder(behind, thought, n, d)
    <2>1. CASE shape.text = "some"
      <3>1. behind = <<q>> \o third /\ Before(shape) = "text"
        BY <1>5, <2>1 DEF Before
      <3>2. q \in PieceSet /\ q.kind = "text" /\ q.data = Told(chunk.text)
        BY <1>4, <2>1
      <3>3. q.data \o <<>> = q.data
        <4>1. q.data \in Data
          BY <3>2, PiecesKinds
        <4> QED BY <4>1, ConcatEmptySeq DEF Data
      <3> HIDE DEF behind
      <3>4. /\ Untold(behind) = Untold(third)
            /\ \A k \in {"thinking", "text"} :
                  Words(behind, k) = IF q.kind = k THEN q.data \o Words(third, k) ELSE Words(third, k)
            /\ PiecesInOrder(third, q.kind, n, Nil) => \A k, d : PiecesInOrder(behind, k, n, d)
            /\ \A k : LastKind(behind, k) = LastKind(third, q.kind)
        BY <1>6, <3>1, <3>2, PieceInFront
      <3>5. Words(behind, "thinking") = <<>> /\ Words(behind, "text") = Told(chunk.text)
        BY <1>9, <3>2, <3>3, <3>4
      <3>6. Fine => PiecesInOrder(third, q.kind, n, Nil)
        BY <1>13, <3>1, <3>2
      <3> QED BY <1>10, <1>12, <3>1, <3>2, <3>4, <3>5, <3>6
    <2>2. CASE shape.text # "some"
      <3>1. behind = third /\ Before(shape) = thought
        BY <1>5, <1>6, <2>2, ConcatEmptySeq DEF Before
      <3>2. Told(chunk.text) = <<>>
        BY <1>5, <2>2
      <3> HIDE DEF behind, thought
      <3> QED BY <1>9, <1>10, <1>12, <1>13, <3>1, <3>2
    <2> QED BY <2>1, <2>2
  <1> DEFINE c == Pieces(chunk)
  <1>16. /\ c \in Seq(PieceSet)
         /\ Words(c, "thinking") = Told(chunk.thinking) /\ Words(c, "text") = Told(chunk.text)
         /\ Untold(c) = calls
         /\ LastKind(c, latest) = IF shape.calls # <<>> THEN "tool_use" ELSE Before(shape)
         /\ Fine => \A d : PiecesInOrder(c, latest, n, d)
    <2>1. CASE shape.thinking = "some"
      <3>1. c = <<p>> \o behind /\ thought = "thinking"
        BY <1>5, <1>14, <2>1
      <3>2. p \in PieceSet /\ p.kind = "thinking" /\ p.data = Told(chunk.thinking)
        BY <1>4, <2>1
      <3>3. p.data \o <<>> = p.data
        <4>1. p.data \in Data
          BY <3>2, PiecesKinds
        <4> QED BY <4>1, ConcatEmptySeq DEF Data
      <3> HIDE DEF behind, thought, c
      <3>4. /\ c \in Seq(PieceSet)
            /\ Untold(c) = Untold(behind)
            /\ \A k \in {"thinking", "text"} :
                  Words(c, k) = IF p.kind = k THEN p.data \o Words(behind, k) ELSE Words(behind, k)
            /\ PiecesInOrder(behind, p.kind, n, Nil) => \A k, d : PiecesInOrder(c, k, n, d)
            /\ \A k : LastKind(c, k) = LastKind(behind, p.kind)
        BY <1>14, <3>1, <3>2, PieceInFront
      <3>5. Words(c, "thinking") = Told(chunk.thinking) /\ Words(c, "text") = Told(chunk.text)
        BY <1>15, <3>2, <3>3, <3>4
      <3>6. Fine => PiecesInOrder(behind, p.kind, n, Nil)
        BY <1>15, <3>1, <3>2
      <3> QED BY <1>15, <3>1, <3>2, <3>4, <3>5, <3>6
    <2>2. CASE shape.thinking # "some"
      <3>1. c = behind /\ thought = latest
        <4> HIDE DEF behind
        <4> QED BY <1>5, <1>14, <2>2, ConcatEmptySeq
      <3>2. Told(chunk.thinking) = <<>>
        BY <1>5, <2>2
      <3> HIDE DEF behind, thought, c
      <3> QED BY <1>14, <1>15, <3>1, <3>2
    <2> QED BY <2>1, <2>2
  <1> HIDE DEF c
  <1> QED BY <1>16 DEF c, chunk, calls, n

-----------------------------------------------------------------------------
(* What the events do to the blocks.                                       *)

LEMMA OtherEvents ==
  ASSUME NEW m, m = Fields(m), NEW event, event.type \notin {"content_block_start", "content_block_delta"}
  PROVE  ClaudeMerge(m, event).blocks = m.blocks
  <1>1. CASE event.type = "message_start"
    BY <1>1 DEF ClaudeMerge, Fields
  <1>2. CASE event.type = "message_delta"
    BY <1>2 DEF ClaudeMerge, Fields
  <1>3. CASE event.type \notin {"message_start", "message_delta"}
    BY <1>3 DEF ClaudeMerge
  <1> QED BY <1>1, <1>2, <1>3

LEMMA BlockComes ==
  ASSUME NEW m, m = Fields(m), m.blocks \in Seq(Blocks), NEW i, i + 1 = Len(m.blocks) + 1,
         NEW k \in Kinds, NEW id \in Nat \cup {Nil}
  PROVE  LET new == [kind |-> k, id |-> id, data |-> <<>>]
         IN  new \in Blocks /\ ClaudeMerge(m, BlockStarted(i, k, id)).blocks = Append(m.blocks, new)
  <1> DEFINE c == m.blocks
             e == BlockStarted(i, k, id)
             new == [kind |-> k, id |-> id, data |-> <<>>]
             t == WithBlock(c, e)
             n == Len(c)
  <1>1. new \in Blocks
    BY EmptySeq DEF Blocks, Data
  <1>2. e.type = "content_block_start" /\ e.index = i /\ e.kind = k /\ e.id = id
    BY DEF BlockStarted
  <1> HIDE DEF e
  <1>3. ClaudeMerge(m, e).blocks = t
    BY <1>2 DEF ClaudeMerge, Fields
  <1>4. n \in Nat /\ DOMAIN c = 1 .. n
    BY LenProperties
  <1>5. DOMAIN t = 1 .. n + 1 /\ t = [j \in DOMAIN t |-> t[j]]
    <2> HIDE DEF c, n
    <2>1. e.index + 1 = n + 1 /\ n + 1 > n
      BY <1>2, <1>4 DEF n, c
    <2> QED BY <1>2, <1>4, <2>1 DEF WithBlock, n
  <1>6. (\A j \in 1 .. n : t[j] = c[j]) /\ t[n + 1] = new
    <2> HIDE DEF c, n
    <2>1. e.index + 1 = n + 1 /\ n + 1 > n
      BY <1>2, <1>4 DEF n, c
    <2> QED BY <1>2, <1>4, <2>1 DEF WithBlock, n
  <1>7. DOMAIN Append(c, new) = 1 .. n + 1
    <2>1. Append(c, new) \in Seq(Blocks) /\ Len(Append(c, new)) = n + 1
      BY <1>1, AppendProperties
    <2> HIDE DEF n, c
    <2> QED BY <2>1, LenProperties
  <1> HIDE DEF t, new
  <1>8. t = Append(c, new)
    BY <1>1, <1>5, <1>6, <1>7, MappedAppend
  <1> QED BY <1>1, <1>3, <1>8 DEF new, e

\* A block with more.
Grown(block, f) == [block EXCEPT !.data = @ \o f]

LEMMA DeltaComes ==
  ASSUME NEW m, m = Fields(m), NEW front \in Seq(Blocks), NEW last \in Blocks, m.blocks = Append(front, last),
         NEW i, i + 1 = Len(m.blocks), NEW k, NEW f \in Data
  PROVE  LET more == Grown(last, f)
             then == ClaudeMerge(m, Delta(i, k, f))
         IN  /\ more \in Blocks /\ more.kind = last.kind /\ more.id = last.id /\ more.data = last.data \o f
             /\ last.kind = k => then.blocks = Append(front, more)
             /\ last.kind # k => then.blocks = m.blocks
  <1> DEFINE c == m.blocks
             n == Len(front)
             e == Delta(i, k, f)
             more == Grown(last, f)
             then == ClaudeMerge(m, e)
             new == IF last.kind = k THEN more ELSE last
             t == then.blocks
  <1>1. more \in Blocks /\ more.kind = last.kind /\ more.id = last.id /\ more.data = last.data \o f
    <2>1. last.data \in Data
      BY DEF Blocks
    <2>2. last.data \o f \in Data
      BY <2>1, ConcatProperties DEF Data
    <2> QED BY <2>2 DEF Blocks, Grown
  <1>2. e.type = "content_block_delta" /\ e.index = i /\ e.kind = k /\ e.fragment = f
    BY DEF Delta
  <1>3. /\ n \in Nat /\ c \in Seq(Blocks) /\ Len(c) = n + 1 /\ DOMAIN c = 1 .. n + 1
        /\ (\A j \in 1 .. n : c[j] = front[j]) /\ c[n + 1] = last
    <2>1. /\ n \in Nat /\ c \in Seq(Blocks) /\ Len(c) = n + 1
          /\ (\A j \in 1 .. n : c[j] = front[j]) /\ c[n + 1] = last
      BY AppendProperties, LenProperties
    <2> HIDE DEF n, c
    <2> QED BY <2>1, LenProperties
  <1>4. i + 1 = n + 1
    BY <1>3
  <1> HIDE DEF e, more
  <1>5. HasBlock(m, e)
    <2>1. last # Nil
      BY NilAssumption
    <2>2. e.index + 1 = n + 1 /\ n + 1 \in DOMAIN m.blocks /\ m.blocks[n + 1] = last
      BY <1>2, <1>3, <1>4
    <2> HIDE DEF n
    <2> QED BY <2>1, <2>2 DEF HasBlock
  <1>6. ApplyDelta(last, e) = new
    BY <1>2 DEF ApplyDelta, more, Grown
  <1>7. t = [c EXCEPT ![n + 1] = ApplyDelta(last, e)]
    <2>1. then = [m EXCEPT !.blocks[e.index + 1] = ApplyDelta(@, e)]
      BY <1>2, <1>5 DEF ClaudeMerge
    <2>2. e.index + 1 = n + 1 /\ c[n + 1] = last
      BY <1>2, <1>3, <1>4
    <2> HIDE DEF n, then
    <2>3. then.blocks = [m.blocks EXCEPT ![e.index + 1] = ApplyDelta(m.blocks[e.index + 1], e)]
      BY <2>1 DEF Fields
    <2> QED BY <2>2, <2>3
  <1>8. new \in Blocks
    BY <1>1
  <1> HIDE DEF new, then, c
  <1>9. t = [j \in 1 .. n + 1 |-> IF j = n + 1 THEN new ELSE c[j]]
    BY <1>3, <1>6, <1>7
  <1>10. DOMAIN t = DOMAIN Append(front, new) /\ t = [j \in DOMAIN t |-> t[j]]
    <2>1. Append(front, new) \in Seq(Blocks) /\ Len(Append(front, new)) = n + 1
      BY <1>8, AppendProperties
    <2>2. DOMAIN Append(front, new) = 1 .. n + 1
      <3> HIDE DEF n
      <3> QED BY <2>1, LenProperties
    <2> HIDE DEF n, t
    <2> QED BY <1>9, <2>2
  <1>11. (\A j \in 1 .. n : t[j] = front[j]) /\ t[n + 1] = new
    <2> HIDE DEF n, t
    <2> QED BY <1>3, <1>9
  <1>12. t = Append(front, new)
    <2> HIDE DEF t
    <2> QED BY <1>8, <1>10, <1>11, MappedAppend
  <1>13. last.kind = k => t = Append(front, more)
    BY <1>12 DEF new
  <1>14. last.kind # k => t = m.blocks
    BY <1>12 DEF new
  <1> QED BY <1>1, <1>13, <1>14 DEF more, then, e

-----------------------------------------------------------------------------
(* A step keeps what the message is held to.                               *)

LEMMA AppendedTold ==
  ASSUME NEW t \in Data \cup {Nil}, NEW f \in Data \cup {Nil}
  PROVE  /\ Appended(t, f) \in Data \cup {Nil} /\ Told(Appended(t, f)) = Told(t) \o Told(f)
         /\ Told(t) \in Data /\ Told(f) \in Data
  <1>1. Nil \notin Data
    BY NilAssumption
  <1>2. \A x \in Data : <<>> \o x = x /\ x \o <<>> = x
    BY ConcatEmptySeq DEF Data
  <1>3. \A x, y \in Data : x \o y \in Data
    BY ConcatProperties DEF Data
  <1>4. <<>> \in Data
    BY EmptySeq DEF Data
  <1>5. Told(t) \in Data /\ Told(f) \in Data
    BY <1>4 DEF Told
  <1>6. CASE f = Nil
    BY <1>2, <1>5, <1>6 DEF Appended, Told
  <1>7. CASE f # Nil /\ t = Nil
    <2>1. Appended(t, f) = f /\ Told(t) = <<>> /\ Told(f) = f /\ f \in Data
      BY <1>7 DEF Appended, Told
    <2>2. <<>> \o f = f
      BY <1>2, <2>1
    <2> QED BY <1>5, <2>1, <2>2
  <1>8. CASE f # Nil /\ t # Nil
    <2>1. t \o f \in Data /\ t \o f # Nil
      BY <1>1, <1>3, <1>8
    <2> QED BY <1>5, <1>8, <2>1 DEF Appended, Told
  <1> QED BY <1>5, <1>6, <1>7, <1>8

\* No event of a chunk.
LEMMA HeldSame ==
  ASSUME Held, UNCHANGED <<kind, toolIndex, blockIndex, todo, chat, latest, buried>>,
         message'.blocks = message.blocks,
         at' = "receive" => todo = <<>>,
         at' = "begin" => todo # <<>> /\ NeedsBlock(Head(todo))
  PROVE  Held'
  <1>1. LastBlock' = LastBlock /\ LastId' = LastId
    BY DEF LastBlock, LastId
  <1>2. CallsHeld => CallsHeld'
    BY <1>1 DEF CallsHeld
  <1>3. NeedsBlock(Head(todo)) => NeedsBlock(Head(todo))'
    BY DEF NeedsBlock
  <1> QED BY <1>1, <1>2, <1>3 DEF Held

LEMMA CallGets ==
  ASSUME NEW calls, Numbered(calls), NEW n \in Int, n = Len(calls), NEW id \in Nat \cup {Nil}, NEW d \in Data,
         NEW f \in FragmentSet, f.index = n, f.id \in {Nil, id}
  PROVE  LET call == [index |-> n, id |-> id, hasFunc |-> TRUE, args |-> d]
         IN  /\ f.function = Nil => MergeToolCall(Append(calls, call), f) = Append(calls, call)
             /\ f.function # Nil =>
                   MergeToolCall(Append(calls, call), f)
                      = Append(calls, [index |-> n, id |-> id, hasFunc |-> TRUE, args |-> d \o f.function])
  <1> DEFINE call == [index |-> n, id |-> id, hasFunc |-> TRUE, args |-> d]
             then == [index |-> n, id |-> id, hasFunc |-> TRUE, args |-> d \o f.function]
  <1>1. call \in CallSet
    BY DEF CallSet
  <1>2. call.index = n /\ call.hasFunc /\ call.id = id /\ [call EXCEPT !.args = @ \o f.function] = then
    <2>1. call.index = n /\ call.id = id /\ call.args = d
      OBVIOUS
    <2>2. call.hasFunc
      BY Zenon
    <2> DEFINE w == call.args \o f.function
    <2>3. w = d \o f.function
      BY <2>1
    <2> HIDE DEF w
    <2>4. [call EXCEPT !.args = w] = [index |-> n, id |-> id, hasFunc |-> TRUE, args |-> w]
      <3> DEFINE b == TRUE
      <3> HIDE DEF b
      <3>1. [[index |-> n, id |-> id, hasFunc |-> b, args |-> d] EXCEPT !.args = w]
               = [index |-> n, id |-> id, hasFunc |-> b, args |-> w]
        OBVIOUS
      <3> QED BY <3>1 DEF b
    <2>5. [call EXCEPT !.args = w] = then
      BY <2>3, <2>4
    <2> QED BY <2>1, <2>2, <2>5 DEF w
  <1> HIDE DEF call, then
  <1>3. /\ f.function = Nil => MergeToolCall(Append(calls, call), f) = Append(calls, call)
        /\ f.function # Nil => MergeToolCall(Append(calls, call), f)
                                  = Append(calls, [call EXCEPT !.args = @ \o f.function])
    BY <1>1, <1>2, MergeIntoLast
  <1> QED BY <1>2, <1>3 DEF call, then

\* The block of a call begins: its first fragment is still to come.
LEMMA CallBegins ==
  ASSUME NEW c \in Seq(Blocks), NEW q \in Seq(PieceSet), q # <<>>, Head(q).kind = "tool_use", Head(q).data # Nil,
         Head(q).index = Len(CallsTold(c)),
         NEW new \in Blocks, new.kind = "tool_use", new.id = Head(q).id, new.data = <<>>
  PROVE  /\ Len(CallsTold(Append(c, new))) = Len(CallsTold(c)) + 1
         /\ MergeToolCalls(CallsTold(Append(c, new)), Untold(q)) = MergeToolCalls(CallsTold(c), Untold(q))
  <1> DEFINE calls == CallsTold(c)
             n == Len(calls)
             call == AsCall(new, n + 1)
             f == AsFragment(Head(q))
             rest == Untold(Tail(q))
  <1>1. Numbered(calls) /\ calls \in Seq(CallSet) /\ n \in Nat
    BY CallsToldType, LenProperties DEF Numbered
  <1>2. CallsTold(Append(c, new)) = Append(calls, call)
    BY CallsToldAppend
  <1>3. Head(q) \in PieceSet /\ Tail(q) \in Seq(PieceSet)
    BY HeadFirst
  <1>4. Untold(q) = <<f>> \o rest /\ rest \in Seq(FragmentSet)
    BY <1>3, UntoldHead, UntoldType
  <1>5. /\ f \in FragmentSet /\ f.index = n /\ f.id = new.id /\ f.function = Head(q).data /\ f.function # Nil
        /\ f.function \in Data
    BY <1>3 DEF PieceSet, FragmentSet, AsFragment
  <1>6. call = [index |-> n, id |-> new.id, hasFunc |-> TRUE, args |-> <<>>]
    <2> HIDE DEF n
    <2>1. (n + 1) - 1 = n
      BY <1>1
    <2> QED BY <2>1 DEF AsCall
  <1>13. call \in CallSet /\ new.id \in Nat \cup {Nil} /\ n \in Int
    <2>1. <<>> \in Data
      BY EmptySeq DEF Data
    <2>2. new.id \in Nat \cup {Nil}
      BY DEF Blocks
    <2> HIDE DEF n
    <2>3. n \in Int
      BY <1>1
    <2> DEFINE b == TRUE
    <2>4. b \in BOOLEAN
      OBVIOUS
    <2> HIDE DEF b, call
    <2>5. [index |-> n, id |-> new.id, hasFunc |-> b, args |-> <<>>] \in CallSet
      BY <2>1, <2>2, <2>3, <2>4 DEF CallSet
    <2> QED BY <1>6, <2>2, <2>3, <2>5 DEF b
  <1> HIDE DEF call, f, rest, calls
  <1>7. MergeToolCall(calls, f) = Append(calls, [index |-> f.index, id |-> f.id, hasFunc |-> TRUE, args |-> f.function])
    BY <1>1, <1>5, MergeNew
  <1>8. MergeToolCall(Append(calls, [index |-> n, id |-> new.id, hasFunc |-> TRUE, args |-> <<>>]), f)
           = Append(calls, [index |-> n, id |-> new.id, hasFunc |-> TRUE, args |-> <<>> \o f.function])
    <2>1. <<>> \in Data
      BY EmptySeq DEF Data
    <2> HIDE DEF n
    <2> QED BY <1>1, <1>5, <1>13, <2>1, CallGets DEF n
  <1>9. <<>> \o f.function = f.function
    BY <1>5, ConcatEmptySeq DEF Data
  <1>10. MergeToolCalls(calls, <<f>> \o rest) = MergeToolCalls(MergeToolCall(calls, f), rest)
    BY <1>4, <1>5, MergeFirst
  <1>11. MergeToolCalls(Append(calls, call), <<f>> \o rest) = MergeToolCalls(MergeToolCall(Append(calls, call), f), rest)
    BY <1>4, <1>5, MergeFirst
  <1>12. Len(Append(calls, call)) = n + 1
    BY <1>1, <1>13, AppendProperties
  <1>14. MergeToolCall(Append(calls, call), f) = MergeToolCall(calls, f)
    BY <1>5, <1>6, <1>7, <1>8, <1>9
  <1> QED BY <1>2, <1>4, <1>10, <1>11, <1>12, <1>14 DEF calls

\* A fragment comes to the block that is open.
LEMMA FragmentCame ==
  ASSUME NEW front \in Seq(Blocks), NEW last \in Blocks, last.kind = "tool_use",
         NEW q \in Seq(PieceSet), q # <<>>, Head(q).kind = "tool_use",
         Head(q).index = Len(CallsTold(Append(front, last))) - 1, Head(q).id \in {Nil, last.id},
         NEW more \in Blocks, more.kind = "tool_use", more.id = last.id,
         Head(q).data = Nil => more.data = last.data,
         Head(q).data # Nil => more.data = last.data \o Head(q).data
  PROVE  /\ Len(CallsTold(Append(front, more))) = Len(CallsTold(Append(front, last)))
         /\ MergeToolCalls(CallsTold(Append(front, more)), Untold(Tail(q)))
               = MergeToolCalls(CallsTold(Append(front, last)), Untold(q))
  <1> DEFINE calls == CallsTold(front)
             n == Len(calls)
             call == AsCall(last, n + 1)
             then == AsCall(more, n + 1)
             f == AsFragment(Head(q))
             rest == Untold(Tail(q))
  <1>1. Numbered(calls) /\ calls \in Seq(CallSet) /\ n \in Nat
    BY CallsToldType, LenProperties DEF Numbered
  <1>2. CallsTold(Append(front, last)) = Append(calls, call) /\ CallsTold(Append(front, more)) = Append(calls, then)
    BY CallsToldAppend
  <1>3. Head(q) \in PieceSet /\ Tail(q) \in Seq(PieceSet)
    BY HeadFirst
  <1>4. Untold(q) = <<f>> \o rest /\ rest \in Seq(FragmentSet)
    BY <1>3, UntoldHead, UntoldType
  <1>5. /\ call \in CallSet /\ then \in CallSet /\ call.index = n /\ call.hasFunc /\ call.id = last.id
        /\ call.args = last.data
        /\ call = [index |-> n, id |-> last.id, hasFunc |-> TRUE, args |-> last.data]
        /\ then = [index |-> n, id |-> last.id, hasFunc |-> TRUE, args |-> more.data]
    <2> HIDE DEF n
    <2>1. (n + 1) - 1 = n /\ n \in Int
      BY <1>1
    <2> QED BY <1>1, <2>1 DEF AsCall, CallSet, Blocks
  <1> HIDE DEF call, then, rest, calls
  <1>6. Len(Append(calls, call)) = n + 1 /\ Len(Append(calls, then)) = n + 1
    BY <1>1, <1>5, AppendProperties
  <1>7. f \in FragmentSet /\ f.index = n /\ f.id \in {Nil, call.id} /\ f.function = Head(q).data
    <2>1. Head(q).index = n
      <3> HIDE DEF n
      <3> QED BY <1>1, <1>2, <1>6
    <2> DEFINE h == Head(q)
    <2>2. h \in PieceSet /\ h.kind = "tool_use" /\ h.index = n /\ h.id \in {Nil, call.id}
      BY <1>3, <1>5, <2>1
    <2>3. f = AsFragment(h)
      OBVIOUS
    <2> HIDE DEF n, h, f
    <2>4. AsFragment(h) \in FragmentSet
      BY <2>2 DEF PieceSet, FragmentSet, AsFragment
    <2>5. AsFragment(h).index = h.index /\ AsFragment(h).id = h.id /\ AsFragment(h).function = h.data
      BY DEF AsFragment
    <2> QED BY <2>2, <2>3, <2>4, <2>5 DEF h
  <1> HIDE DEF f
  <1>8. MergeToolCall(Append(calls, call), f) = Append(calls, then)
    <2>1. CASE Head(q).data = Nil
      <3>1. MergeToolCall(Append(calls, call), f) = Append(calls, call)
        <4>1. call.index = Len(calls) /\ f.index = call.index /\ f.function = Nil
          BY <1>5, <1>7, <2>1
        <4>2. Numbered(calls) /\ call \in CallSet /\ call.hasFunc /\ f \in FragmentSet /\ f.id \in {Nil, call.id}
          BY <1>1, <1>5, <1>7
        <4> HIDE DEF n
        <4> QED BY <4>1, <4>2, MergeOfNothing
      <3>2. call = then
        BY <1>5, <2>1
      <3> QED BY <3>1, <3>2
    <2>2. CASE Head(q).data # Nil
      <3>1. last.id \in Nat \cup {Nil} /\ last.data \in Data /\ n \in Int /\ f.id \in {Nil, last.id}
        BY <1>1, <1>5, <1>7 DEF Blocks
      <3>2. MergeToolCall(Append(calls, [index |-> n, id |-> last.id, hasFunc |-> TRUE, args |-> last.data]), f)
               = Append(calls, [index |-> n, id |-> last.id, hasFunc |-> TRUE, args |-> last.data \o f.function])
        <4> HIDE DEF n
        <4> QED BY <1>1, <1>7, <2>2, <3>1, CallGets DEF n
      <3> QED BY <1>5, <1>7, <2>2, <3>2
    <2> QED BY <2>1, <2>2
  <1>9. MergeToolCalls(Append(calls, call), <<f>> \o rest) = MergeToolCalls(MergeToolCall(Append(calls, call), f), rest)
    BY <1>4, <1>7, MergeFirst
  <1> QED BY <1>2, <1>4, <1>6, <1>8, <1>9 DEF rest

\* Where all pieces are calls, only the first one's neighbour matters.
LEMMA OrderOfCalls ==
  ASSUME NEW q \in Seq(PieceSet), q # <<>>, Head(q).kind = "tool_use", NEW k, NEW n, NEW d, PiecesInOrder(q, k, n, d),
         NEW l, NEW m, NEW e, Follows(Head(q), l, m, e)
  PROVE  PiecesInOrder(q, l, m, e)
  <1>1. Head(q) = q[1] /\ Len(q) \in Nat /\ Len(q) # 0
    BY HeadTailProperties, EmptySeq, LenProperties
  <1>2. ASSUME NEW j \in 2 .. Len(q) PROVE q[j - 1].kind = "tool_use"
    <2>1. 1 \in 1 .. Len(q) /\ j - 1 \in 1 .. Len(q) /\ (j - 1 = 1 \/ 1 < j - 1)
      BY <1>1
    <2> QED BY <1>1, <2>1 DEF PiecesInOrder
  <1> QED BY <1>1, <1>2 DEF PiecesInOrder

\* Where none of the next pieces is the first, it does not matter behind what.
LEMMA OrderOfOthers ==
  ASSUME NEW q \in Seq(PieceSet), q # <<>>, Head(q).kind # "tool_use", NEW k, NEW n, NEW d, PiecesInOrder(q, k, n, d)
  PROVE  \A l, e : PiecesInOrder(q, l, n, e)
  <1>1. Head(q) = q[1]
    BY HeadTailProperties
  <1> QED BY <1>1 DEF PiecesInOrder, Follows

\* A block begins.
LEMMA StartHeld ==
  ASSUME Held, message = Fields(message), StartBlock PROVE Held'
  <1> USE DEF client, upstream
  <1> DEFINE c == message.blocks
             h == Head(todo)
             new == [kind |-> h.kind, id |-> h.id, data |-> <<>>]
  <1>1. todo # <<>> /\ todo \in Seq(PieceSet) /\ h \in PieceSet
    <2>1. todo # <<>> /\ todo \in Seq(PieceSet)
      BY DEF StartBlock, StartsBlock, Held
    <2> QED BY <2>1, HeadFirst
  <1>2. h.kind \in Kinds /\ h.id \in Nat \cup {Nil} /\ h.kind # Nil
    BY <1>1, NilAssumption DEF PieceSet
  <1>3. c \in Seq(Blocks) /\ Len(c) = blockIndex + 1 /\ Len(c) \in Nat
    BY LenProperties DEF Held
  <1>4. new \in Blocks /\ message'.blocks = Append(c, new)
    <2>1. message' = ClaudeMerge(message, BlockStarted(blockIndex + 1, h.kind, h.id))
      BY DEF StartBlock, Send
    <2>2. blockIndex + 1 + 1 = Len(message.blocks) + 1
      BY <1>3
    <2> QED BY <1>2, <1>3, <2>1, <2>2, BlockComes, ZenonT(60)
  <1>5. /\ blockIndex' = blockIndex + 1 /\ kind' = h.kind /\ at' = "piece" /\ todo' = todo
        /\ UNCHANGED <<chat, latest, buried>>
        /\ toolIndex' = IF h.kind = "tool_use" THEN h.index ELSE toolIndex
        /\ h.kind = "tool_use" => h.data # Nil
    BY DEF StartBlock, NoFunction
  <1>6. /\ Append(c, new) \in Seq(Blocks) /\ Len(Append(c, new)) = Len(c) + 1
        /\ Append(c, new)[Len(c) + 1] = new /\ Append(c, new) # <<>>
    <2>1. Append(c, new) \in Seq(Blocks) /\ Len(Append(c, new)) = Len(c) + 1
          /\ Append(c, new)[Len(c) + 1] = new
      BY <1>3, <1>4, AppendProperties
    <2> HIDE DEF new, c
    <2> QED BY <1>3, <2>1, EmptySeq
  <1>7. LastBlock' = new /\ LastId' = h.id
    <2>1. LastBlock' = new
      BY <1>4, <1>6 DEF LastBlock
    <2> QED BY <1>4, <1>6, <2>1 DEF LastId
  <1>8. ASSUME NEW k \in {"thinking", "text"} PROVE Words(Append(c, new), k) = Words(c, k)
    <2>1. \A b \in Blocks : b.kind = k => b.data \in Data
      BY DEF Blocks
    <2>2. Words(Append(c, new), k) = IF new.kind = k THEN Words(c, k) \o new.data ELSE Words(c, k)
      <3> HIDE DEF new, c
      <3> QED BY <1>3, <1>4, <2>1, WordsAppend
    <2>3. Words(c, k) \in Data
      <3> HIDE DEF new, c
      <3> QED BY <1>3, <2>1, WordsType
    <2>4. Words(c, k) \o <<>> = Words(c, k)
      BY <2>3, ConcatEmptySeq DEF Data
    <2> QED BY <2>2, <2>4
  <1>9. ASSUME ~buried PROVE CallsHeld'
    <2> DEFINE n == Len(CallsTold(c))
    <2>1. CallsHeld
      BY <1>9 DEF Held
    <2>2. n \in Nat
      BY <1>3, CallsToldType, LenProperties DEF Numbered
    <2>3. MergeToolCalls(CallsTold(c), Untold(todo)) = chat.calls /\ PiecesInOrder(todo, kind, n, LastId)
      BY <2>1 DEF CallsHeld
    <2>4. latest' = LastKind(todo', kind')
      BY <1>1, <1>5, <2>1 DEF CallsHeld, LastKind
    <2>5. CASE h.kind # "tool_use"
      <3>1. CallsTold(Append(c, new)) = CallsTold(c)
        <4>1. new.kind # "tool_use"
          BY <2>5
        <4> HIDE DEF new, c
        <4> QED BY <1>3, <1>4, <4>1, CallsToldAppend
      <3>2. PiecesInOrder(todo, h.kind, n, h.id)
        BY <1>1, <2>3, <2>5, OrderOfOthers
      <3> QED BY <1>4, <1>5, <1>7, <2>3, <2>4, <2>5, <3>1, <3>2 DEF CallsHeld
    <2>6. CASE h.kind = "tool_use"
      <3>1. kind \in {Nil, "text"} \/ (kind = "tool_use" /\ toolIndex # h.index)
        BY <2>6 DEF StartBlock, StartsBlock, Held, NeedsBlock
      <3>2. Follows(h, kind, n, LastId)
        <4>1. h = todo[1]
          BY <1>1, HeadTailProperties
        <4> QED BY <1>1, <2>3, <4>1 DEF PiecesInOrder
      <3>3. kind = "tool_use" => toolIndex = n - 1
        BY <2>1 DEF CallsHeld
      <3>4. h.index = n /\ h.id # Nil
        <4>1. kind \in {Nil, "text"} => kind # "tool_use"
          BY NilAssumption DEF Kinds
        <4> HIDE DEF n, h
        <4> QED BY <2>6, <3>1, <3>2, <3>3, <4>1 DEF Follows
      <3>5. /\ Len(CallsTold(Append(c, new))) = n + 1
            /\ MergeToolCalls(CallsTold(Append(c, new)), Untold(todo)) = MergeToolCalls(CallsTold(c), Untold(todo))
        <4>1. new.kind = "tool_use" /\ new.id = Head(todo).id /\ new.data = <<>>
          BY <2>6
        <4> HIDE DEF new, c
        <4> QED BY <1>1, <1>3, <1>4, <1>5, <2>6, <3>4, <4>1, CallBegins
      <3>6. PiecesInOrder(todo, "tool_use", n + 1, h.id)
        <4>1. Follows(h, "tool_use", n + 1, h.id)
          <5>1. (n + 1) - 1 = n
            <6> HIDE DEF n
            <6> QED BY <2>2
          <5> HIDE DEF n, h
          <5> QED BY <3>4, <5>1 DEF Follows
        <4> HIDE DEF n
        <4> QED BY <1>1, <2>3, <2>6, <4>1, OrderOfCalls
      <3>7. toolIndex' = (n + 1) - 1
        <4> HIDE DEF n, h
        <4> QED BY <1>5, <2>2, <2>6, <3>4
      <3> HIDE DEF n, c, new, h
      <3>8. /\ message'.blocks = Append(c, new) /\ todo' = todo /\ chat' = chat /\ kind' = "tool_use"
            /\ LastId' = h.id
        BY <1>4, <1>5, <1>7, <2>6
      <3> QED BY <2>3, <2>4, <3>5, <3>6, <3>7, <3>8 DEF CallsHeld
    <2> QED BY <2>5, <2>6
  <1>10. Len(message'.blocks) = blockIndex' + 1
    <2> HIDE DEF c, new
    <2> QED BY <1>3, <1>4, <1>5, <1>6
  <1>11. /\ Words(message'.blocks, "thinking") \o Words(todo', "thinking") = Told(chat'.thinking)
         /\ Words(message'.blocks, "text") \o Words(todo', "text") = Told(chat'.text)
    BY <1>4, <1>5, <1>8 DEF Held
  <1> HIDE DEF c, new, h
  <1>12. /\ message'.blocks \in Seq(Blocks) /\ message'.blocks # <<>> /\ LastBlock'.kind = kind'
    BY <1>4, <1>5, <1>6, <1>7 DEF new
  <1>13. todo' \in Seq(PieceSet) /\ at' = "piece"
    BY <1>1, <1>5
  <1> QED BY <1>5, <1>9, <1>10, <1>11, <1>12, <1>13 DEF Held

\* What a piece makes of the block that is open.
Takes(last, h, more) ==
    /\ more \in Blocks /\ more.kind = last.kind /\ more.id = last.id
    /\ h.kind # last.kind => more = last
    /\ h.kind = last.kind /\ h.data = Nil => more.data = last.data
    /\ h.kind = last.kind /\ h.data # Nil => more.data = last.data \o h.data

LEMMA PieceTaken ==
  ASSUME Held, message = Fields(message), SendDelta \/ NoDelta,
         NEW front \in Seq(Blocks), NEW last \in Blocks, message.blocks = Append(front, last)
  PROVE  \E more : Takes(last, Head(todo), more) /\ message'.blocks = Append(front, more)
  <1> DEFINE h == Head(todo)
  <1>1. h \in PieceSet
    <2>1. todo # <<>> /\ todo \in Seq(PieceSet)
      BY DEF SendDelta, NoDelta, InBlock, Held
    <2> QED BY <2>1, HeadFirst
  <1>2. CASE NoDelta
    <2>1. message'.blocks = Append(front, last)
      BY <1>2 DEF NoDelta, reader
    <2>2. last.data \in Data /\ h.data \in {Nil, <<>>}
      BY <1>2 DEF NoDelta, Silent, Blocks
    <2>3. last.data \o <<>> = last.data
      BY <2>2, ConcatEmptySeq DEF Data
    <2>4. Takes(last, h, last)
      <3> HIDE DEF h
      <3> QED BY <2>2, <2>3 DEF Takes
    <2> QED BY <2>1, <2>4
  <1>3. CASE SendDelta
    <2>1. message' = ClaudeMerge(message, Delta(blockIndex, h.kind, h.data)) /\ h.data # Nil
      BY <1>3 DEF SendDelta, Send, Silent
    <2>2. h.data \in Data
      BY <1>1, <2>1 DEF PieceSet
    <2>3. blockIndex + 1 = Len(message.blocks)
      BY DEF Held
    <2> DEFINE more == Grown(last, h.data)
    <2>4. /\ more \in Blocks /\ more.kind = last.kind /\ more.id = last.id /\ more.data = last.data \o h.data
          /\ last.kind = h.kind => message'.blocks = Append(front, more)
          /\ last.kind # h.kind => message'.blocks = message.blocks
      <3> DEFINE f == h.data
                 k == h.kind
                 e == Delta(blockIndex, k, f)
                 then == ClaudeMerge(message, e)
      <3>1. f \in Data
        BY <2>2
      <3> HIDE DEF f, k
      <3> DEFINE m == message
      <3>4. m = Fields(m) /\ m.blocks = Append(front, last) /\ blockIndex + 1 = Len(m.blocks)
        BY <2>3
      <3> HIDE DEF m
      <3>2. LET grown == Grown(last, f)
            IN  /\ grown \in Blocks /\ grown.kind = last.kind /\ grown.id = last.id /\ grown.data = last.data \o f
                /\ last.kind = k => then.blocks = Append(front, grown)
                /\ last.kind # k => then.blocks = message.blocks
        BY <3>1, <3>4, DeltaComes DEF m
      <3>3. message' = then
        BY <2>1 DEF f, k
      <3> HIDE DEF then
      <3> QED BY <3>2, <3>3 DEF f, k
    <2> HIDE DEF more, h
    <2>5. CASE last.kind = h.kind
      <3>1. Takes(last, h, more)
        BY <2>1, <2>4, <2>5 DEF Takes
      <3> QED BY <2>4, <2>5, <3>1 DEF h
    <2>6. CASE last.kind # h.kind
      <3>1. Takes(last, h, last)
        BY <2>1, <2>6 DEF Takes
      <3> QED BY <2>4, <2>6, <3>1 DEF h
    <2> QED BY <2>5, <2>6
  <1> QED BY <1>2, <1>3

LEMMA FourJoined ==
  ASSUME NEW a \in Data, NEW b \in Data, NEW c \in Data, NEW d \in Data
  PROVE  (a \o (b \o c)) \o d = (a \o b) \o (c \o d)
  <1> DEFINE S == Nat
             x == b \o c
             y == c \o d
  <1>1. a \in Seq(S) /\ b \in Seq(S) /\ c \in Seq(S) /\ d \in Seq(S)
    BY DEF Data
  <1> HIDE DEF S
  <1>2. x \in Seq(S) /\ y \in Seq(S)
    BY <1>1, ConcatProperties
  <1>3. x \o d = b \o y
    BY <1>1, ConcatAssociative, SMTT(30)
  <1> HIDE DEF x, y
  <1>4. (a \o x) \o d = a \o (x \o d)
    BY <1>1, <1>2, ConcatAssociative, SMTT(30)
  <1>5. (a \o b) \o y = a \o (b \o y)
    BY <1>1, <1>2, ConcatAssociative, SMTT(30)
  <1> QED BY <1>3, <1>4, <1>5 DEF x, y

LEMMA WordsOfLast ==
  ASSUME NEW c \in Seq(Blocks), NEW e \in Blocks, NEW k
  PROVE  Words(Append(c, e), k) = IF e.kind = k THEN Words(c, k) \o e.data ELSE Words(c, k)
  <1>1. \A b \in Blocks : b.kind = k => b.data \in Data
    BY DEF Blocks
  <1> QED BY <1>1, WordsAppend

LEMMA WordsTaken ==
  ASSUME NEW front \in Seq(Blocks), NEW last \in Blocks, NEW q \in Seq(PieceSet), q # <<>>,
         NEW more \in Blocks, more.kind = last.kind, Head(q).kind # last.kind => more = last,
         Head(q).kind = last.kind /\ Head(q).data # Nil => more.data = last.data \o Head(q).data,
         NEW k \in {"thinking", "text"}, Head(q).kind = k => last.kind = k
  PROVE  Words(Append(front, more), k) \o Words(Tail(q), k) = Words(Append(front, last), k) \o Words(q, k)
  <1> DEFINE h == Head(q)
             rest == Words(Tail(q), k)
             w == Words(front, k)
  <1>1. h \in PieceSet /\ Tail(q) \in Seq(PieceSet) /\ (h.kind = k => h.data \in Data /\ h.data # Nil)
    <2>1. h \in PieceSet /\ Tail(q) \in Seq(PieceSet)
      BY HeadFirst
    <2>2. h.kind = k => h.data \in Data
      BY <2>1, PiecesKinds
    <2> QED BY <2>1, <2>2, NilAssumption
  <1>2. (\A p \in PieceSet : p.kind = k => p.data \in Data) /\ (\A b \in Blocks : b.kind = k => b.data \in Data)
    BY PiecesKinds DEF Blocks
  <1>3. /\ h.kind = k => Words(q, k) = h.data \o rest
        /\ h.kind # k => Words(q, k) = rest
    BY <1>2, WordsHead
  <1>4. w \in Data /\ rest \in Data
    <2>1. w \in Data
      BY <1>2, WordsType
    <2>2. rest \in Data
      BY <1>1, <1>2, WordsType
    <2> QED BY <2>1, <2>2
  <1>5. Words(Append(front, last), k) = IF last.kind = k THEN w \o last.data ELSE w
    BY WordsOfLast
  <1>6. Words(Append(front, more), k) = IF last.kind = k THEN w \o more.data ELSE w
    BY WordsOfLast, ZenonT(60)
  <1>7. last.data \in Data
    BY DEF Blocks
  <1> HIDE DEF w, rest, h
  <1>8. CASE h.kind = k
    <2>1. last.kind = k /\ more.data = last.data \o h.data
      BY <1>1, <1>8 DEF h
    <2> DEFINE l == last.data
               d == h.data
    <2>3. l \in Data /\ d \in Data
      BY <1>1, <1>7, <1>8
    <2> HIDE DEF l, d
    <2>4. (w \o (l \o d)) \o rest = (w \o l) \o (d \o rest)
      BY <1>4, <2>3, FourJoined, ZenonT(60)
    <2>2. (w \o (last.data \o h.data)) \o rest = (w \o last.data) \o (h.data \o rest)
      BY <2>4 DEF l, d
    <2> QED BY <1>3, <1>5, <1>6, <1>8, <2>1, <2>2 DEF rest
  <1>9. CASE h.kind # k
    <2>1. last.kind = k => more = last
      BY <1>9 DEF h
    <2> QED BY <1>3, <1>5, <1>6, <1>9, <2>1 DEF rest
  <1> QED BY <1>8, <1>9

\* A piece goes into the block that is open, or nowhere.
LEMMA TakeHeld ==
  ASSUME Held, message = Fields(message), SendDelta \/ NoDelta PROVE Held'
  <1> USE DEF client, upstream
  <1> DEFINE c == message.blocks
             h == Head(todo)
             q == Tail(todo)
  <1>1. /\ todo # <<>> /\ todo \in Seq(PieceSet) /\ kind # Nil /\ ~NeedsBlock(h) /\ at = "piece"
        /\ UNCHANGED <<kind, toolIndex, blockIndex, chat, latest, buried, at>> /\ todo' = q
    BY DEF SendDelta, NoDelta, InBlock, Held
  <1>2. h \in PieceSet /\ q \in Seq(PieceSet)
    BY <1>1, HeadFirst
  <1>3. c \in Seq(Blocks) /\ c # <<>> /\ LastBlock.kind = kind /\ Len(c) = blockIndex + 1
    BY <1>1 DEF Held
  <1>4. PICK front \in Seq(Blocks), last \in Blocks : c = Append(front, last)
    <2> HIDE DEF c
    <2> QED BY <1>3, SequenceEmptyOrAppend
  <1>5. PICK more : Takes(last, h, more) /\ message'.blocks = Append(front, more)
    <2>1. message.blocks = Append(front, last)
      BY <1>4
    <2> QED BY <2>1, PieceTaken
  <1>6. more \in Blocks /\ more.kind = last.kind /\ more.id = last.id
    BY <1>5 DEF Takes
  <1>7. ASSUME NEW e \in Blocks
        PROVE  /\ Append(front, e) \in Seq(Blocks) /\ Append(front, e) # <<>>
               /\ Len(Append(front, e)) = Len(front) + 1 /\ Append(front, e)[Len(Append(front, e))] = e
    <2>1. /\ Append(front, e) \in Seq(Blocks) /\ Len(Append(front, e)) = Len(front) + 1
          /\ Append(front, e)[Len(front) + 1] = e /\ Len(front) \in Nat
      BY <1>7, AppendProperties, LenProperties
    <2> QED BY <2>1, EmptySeq
  <1>8. LastBlock = last /\ LastId = last.id /\ last.kind = kind
    <2>1. LastBlock = last
      BY <1>4, <1>7 DEF LastBlock
    <2> QED BY <1>3, <2>1 DEF LastId
  <1>9. LastBlock' = more /\ LastId' = last.id /\ message'.blocks # <<>>
    <2>1. LastBlock' = more /\ message'.blocks # <<>>
      BY <1>5, <1>6, <1>7 DEF LastBlock
    <2> QED BY <1>6, <2>1 DEF LastId
  <1>10. h.kind # "tool_use" => h.kind = kind
    BY <1>1 DEF NeedsBlock
  <1>11. ASSUME NEW k \in {"thinking", "text"}
         PROVE  Words(message'.blocks, k) \o Words(todo', k) = Words(c, k) \o Words(todo, k)
    <2>1. h.kind = k => last.kind = k
      BY <1>8, <1>10
    <2>2. /\ h.kind # last.kind => more = last
          /\ h.kind = last.kind /\ h.data # Nil => more.data = last.data \o h.data
      BY <1>5 DEF Takes
    <2>3. Words(Append(front, more), k) \o Words(Tail(todo), k) = Words(Append(front, last), k) \o Words(todo, k)
      BY <1>1, <1>6, <2>1, <2>2, WordsTaken
    <2> QED BY <1>1, <1>4, <1>5, <2>3
  <1>12. ASSUME ~buried PROVE CallsHeld'
    <2> DEFINE n == Len(CallsTold(c))
    <2>1. CallsHeld
      BY <1>12 DEF Held
    <2>2. /\ MergeToolCalls(CallsTold(c), Untold(todo)) = chat.calls /\ PiecesInOrder(todo, kind, n, LastId)
          /\ kind = "tool_use" => toolIndex = n - 1
          /\ latest = LastKind(todo, kind)
      BY <2>1 DEF CallsHeld
    <2>3. n \in Nat
      BY <1>3, CallsToldType, LenProperties DEF Numbered
    <2>4. latest = LastKind(q, h.kind)
      BY <1>1, <2>2, OrderOfTail
    <2>5. CASE h.kind # "tool_use"
      <3>1. CallsTold(Append(front, more)) = CallsTold(c)
        <4>1. last.kind # "tool_use" /\ more.kind # "tool_use"
          BY <1>6, <1>8, <1>10, <2>5
        <4> QED BY <1>4, <1>6, <4>1, CallsToldAppend
      <3>2. Untold(q) = Untold(todo)
        BY <1>1, <2>5, UntoldHead
      <3>3. PiecesInOrder(q, kind, n, LastId')
        <4>1. \A e : PiecesInOrder(Tail(todo), Head(todo).kind, n, e)
          <5> HIDE DEF n
          <5> QED BY <1>1, <2>2, <2>5, OrderOfTail
        <4> QED BY <1>10, <2>5, <4>1
      <3>4. kind # "tool_use"
        BY <1>10, <2>5
      <3>5. latest = LastKind(q, kind)
        BY <1>10, <2>4, <2>5
      <3> HIDE DEF c, n, h, q
      <3> QED BY <1>1, <1>5, <2>2, <3>1, <3>2, <3>3, <3>4, <3>5 DEF CallsHeld, n
    <2>6. CASE h.kind = "tool_use"
      <3>1. Follows(h, kind, n, LastId)
        <4>1. h = todo[1]
          BY <1>1, HeadTailProperties
        <4> QED BY <1>1, <2>2, <4>1 DEF PiecesInOrder
      <3>2. kind = "tool_use" /\ toolIndex = h.index
        <4>1. kind # "text" /\ (kind = "tool_use" => toolIndex = h.index)
          BY <1>1, <2>6 DEF NeedsBlock
        <4>2. kind \in {"thinking", "tool_use"}
          BY <1>8, <4>1 DEF Blocks, Kinds
        <4> HIDE DEF h, n
        <4> QED BY <2>6, <3>1, <4>1, <4>2 DEF Follows
      <3>3. h.index = n - 1 /\ h.id \in {Nil, last.id}
        <4>1. h.index = n - 1 /\ n - 1 # n
          <5> HIDE DEF n
          <5> QED BY <2>2, <2>3, <3>2
        <4> HIDE DEF h, n
        <4> QED BY <1>8, <2>6, <3>1, <4>1 DEF Follows
      <3>4. /\ Len(CallsTold(Append(front, more))) = Len(CallsTold(Append(front, last)))
            /\ MergeToolCalls(CallsTold(Append(front, more)), Untold(Tail(todo)))
                 = MergeToolCalls(CallsTold(Append(front, last)), Untold(todo))
        <4>1. last.kind = "tool_use" /\ more.kind = "tool_use"
          BY <1>6, <1>8, <3>2
        <4>2. /\ h.data = Nil => more.data = last.data
              /\ h.data # Nil => more.data = last.data \o h.data
          BY <1>5, <2>6, <4>1 DEF Takes
        <4>3. h.index = Len(CallsTold(Append(front, last))) - 1
          BY <1>4, <3>3
        <4> QED BY <1>1, <1>6, <2>6, <3>3, <4>1, <4>2, <4>3, FragmentCame
      <3>5. PiecesInOrder(q, "tool_use", n, LastId')
        <4>1. \A e : PiecesInOrder(Tail(todo), "tool_use", Head(todo).index + 1, e)
          <5> HIDE DEF n
          <5> QED BY <1>1, <2>2, <2>6, OrderOfTail
        <4>2. h.index + 1 = n
          <5> HIDE DEF n, h
          <5> QED BY <2>3, <3>3
        <4> HIDE DEF n
        <4> QED BY <4>1, <4>2
      <3>6. latest = LastKind(q, kind)
        BY <2>4, <2>6, <3>2
      <3>7. /\ MergeToolCalls(CallsTold(message'.blocks), Untold(q)) = chat.calls
            /\ Len(CallsTold(message'.blocks)) = n
        BY <1>4, <1>5, <2>2, <3>4
      <3> HIDE DEF c, n, h, q
      <3> QED BY <1>1, <2>2, <3>2, <3>5, <3>6, <3>7 DEF CallsHeld
    <2> QED BY <2>5, <2>6
  <1>13. Len(message'.blocks) = blockIndex' + 1
    <2>1. Len(message'.blocks) = Len(c)
      BY <1>4, <1>5, <1>6, <1>7
    <2> QED BY <1>1, <1>3, <2>1
  <1>14. message'.blocks \in Seq(Blocks) /\ LastBlock'.kind = kind'
    BY <1>1, <1>5, <1>6, <1>7, <1>8, <1>9
  <1>15. /\ Words(message'.blocks, "thinking") \o Words(todo', "thinking") = Told(chat'.thinking)
         /\ Words(message'.blocks, "text") \o Words(todo', "text") = Told(chat'.text)
    BY <1>1, <1>11 DEF Held
  <1>16. at' = "piece" /\ todo' \in Seq(PieceSet) /\ (~buried' => CallsHeld')
    BY <1>1, <1>2, <1>12
  <1> HIDE DEF c, h, q
  <1> QED BY <1>9, <1>13, <1>14, <1>15, <1>16 DEF Held

\* The pieces of a new chunk stand for what it brings.
LEMMA ReceiveHeld ==
  ASSUME Held, at = "receive", chunks \in Nat, chat.calls \in Seq(CallSet),
         chat.thinking \in Data \cup {Nil}, chat.text \in Data \cup {Nil},
         NEW shape \in Shapes, Receive(shape)
  PROVE  Held'
  <1> USE DEF client, reader
  <1> DEFINE chunk == Chunk(shape)
             q == Pieces(chunk)
             c == message.blocks
  <1>1. /\ Possible(shape) /\ todo' = q /\ at' \in {"piece", "start"} /\ UNCHANGED <<kind, toolIndex, blockIndex, message>>
        /\ latest' = IF shape.calls # <<>> THEN "tool_use" ELSE Before(shape)
        /\ buried' = (buried \/ (shape.calls # <<>> /\ Before(shape) = "thinking"))
        /\ chat' = ChatMerge(chat, chunk)
    BY DEF Receive, Emit
  <1>2. /\ q \in Seq(PieceSet)
        /\ Words(q, "thinking") = Told(chunk.thinking) /\ Words(q, "text") = Told(chunk.text)
        /\ Untold(q) = chunk.calls
        /\ LastKind(q, latest) = IF shape.calls # <<>> THEN "tool_use" ELSE Before(shape)
        /\ (shape.calls # <<>> => Before(shape) # "thinking")
              => \A d : PiecesInOrder(q, latest, Len(chat.calls), d)
    BY <1>1, ChunkSays
  <1>3. chunk.thinking \in Data \cup {Nil} /\ chunk.text \in Data \cup {Nil}
    BY ChunkTypes
  <1> HIDE DEF chunk, q
  <1>4. /\ chat'.thinking = Appended(chat.thinking, chunk.thinking) /\ chat'.text = Appended(chat.text, chunk.text)
        /\ chat'.calls = MergeToolCalls(chat.calls, chunk.calls)
    BY <1>1 DEF ChatMerge
  <1>5. todo = <<>> /\ c \in Seq(Blocks) /\ Len(c) = blockIndex + 1 /\ (kind # Nil => c # <<>> /\ LastBlock.kind = kind)
    BY DEF Held
  <1>6. ASSUME NEW k \in {"thinking", "text"}, NEW t, Words(c, k) \o Words(todo, k) = t PROVE Words(c, k) = t
    <2>1. Words(c, k) \in Data
      <3>1. \A b \in Blocks : b.kind = k => b.data \in Data
        BY DEF Blocks
      <3> QED BY <1>5, <3>1, WordsType
    <2>2. Words(todo, k) = <<>>
      BY <1>5, WordsEmpty
    <2>3. Words(c, k) \o <<>> = Words(c, k)
      BY <2>1, ConcatEmptySeq DEF Data
    <2> QED BY <1>6, <2>2, <2>3
  <1>7. Words(c, "thinking") = Told(chat.thinking) /\ Words(c, "text") = Told(chat.text)
    BY <1>6 DEF Held
  <1>8. Words(c, "thinking") \o Words(q, "thinking") = Told(chat'.thinking)
    <2>1. Told(Appended(chat.thinking, chunk.thinking)) = Told(chat.thinking) \o Told(chunk.thinking)
      BY <1>3, AppendedTold
    <2> QED BY <1>2, <1>4, <1>7, <2>1
  <1>9. Words(c, "text") \o Words(q, "text") = Told(chat'.text)
    <2>1. Told(Appended(chat.text, chunk.text)) = Told(chat.text) \o Told(chunk.text)
      BY <1>3, AppendedTold
    <2> QED BY <1>2, <1>4, <1>7, <2>1
  <1>10. ASSUME ~buried' PROVE CallsHeld'
    <2>1. CallsHeld /\ (shape.calls # <<>> => Before(shape) # "thinking")
      BY <1>1, <1>10 DEF Held
    <2>2. CallsTold(c) = chat.calls
      <3>1. MergeToolCalls(CallsTold(c), <<>>) = CallsTold(c)
        BY MergeNone
      <3> QED BY <1>5, <2>1, <3>1, UntoldEmpty DEF CallsHeld
    <2>3. latest = kind
      BY <1>5, <2>1 DEF CallsHeld, LastKind
    <2>4. PiecesInOrder(q, kind, Len(CallsTold(c)), LastId')
      BY <1>2, <2>1, <2>2, <2>3
    <2>5. latest' = LastKind(q, kind)
      BY <1>1, <1>2, <2>3
    <2>6. MergeToolCalls(CallsTold(c), Untold(q)) = chat'.calls
      BY <1>2, <1>4, <2>2
    <2>7. kind = "tool_use" => toolIndex = Len(CallsTold(c)) - 1
      BY <2>1 DEF CallsHeld
    <2>8. message'.blocks = c /\ todo' = q /\ kind' = kind /\ toolIndex' = toolIndex
      BY <1>1
    <2> HIDE DEF c
    <2> QED BY <2>4, <2>5, <2>6, <2>7, <2>8 DEF CallsHeld
  <1>11. LastBlock' = LastBlock
    BY <1>1 DEF LastBlock
  <1> QED BY <1>1, <1>2, <1>5, <1>8, <1>9, <1>10, <1>11 DEF Held

\* One more chunk keeps the types of the answer.
LEMMA AnswerTyped ==
  ASSUME chunks \in Nat, chat.calls \in Seq(CallSet),
         chat.thinking \in Data \cup {Nil}, chat.text \in Data \cup {Nil},
         NEW shape \in Shapes, Emit(shape)
  PROVE  /\ chunks' \in Nat /\ chat'.calls \in Seq(CallSet)
         /\ chat'.thinking \in Data \cup {Nil} /\ chat'.text \in Data \cup {Nil}
  <1> DEFINE chunk == Chunk(shape)
  <1>1. chunk.thinking \in Data \cup {Nil} /\ chunk.text \in Data \cup {Nil} /\ chunk.calls \in Seq(FragmentSet)
    BY ChunkTypes
  <1> HIDE DEF chunk
  <1>2. /\ chat'.thinking = Appended(chat.thinking, chunk.thinking) /\ chat'.text = Appended(chat.text, chunk.text)
        /\ chat'.calls = MergeToolCalls(chat.calls, chunk.calls) /\ chunks' = chunks + 1
    BY DEF Emit, ChatMerge, chunk
  <1>3. chat'.thinking \in Data \cup {Nil}
    BY <1>1, <1>2, AppendedTold
  <1>4. chat'.text \in Data \cup {Nil}
    BY <1>1, <1>2, AppendedTold
  <1>5. chat'.calls \in Seq(CallSet)
    BY <1>1, <1>2, MergeType
  <1> QED BY <1>2, <1>3, <1>4, <1>5

\* A step that is no part of the answer keeps what there is of it.
LEMMA SameKept ==
  ASSUME Same, UNCHANGED <<chat, buried>>, message'.blocks = message.blocks PROVE Same'
  <1>1. Content(message') = Content(message)
    BY DEF Content
  <1> QED BY <1>1 DEF Same, TextOf, ChatCalls

\* After [DONE] all pieces have come to their blocks.
LEMMA DoneIsSame ==
  ASSUME Held, todo = <<>>, chat.calls \in Seq(CallSet) PROVE Same
  <1> DEFINE c == message.blocks
  <1>1. c \in Seq(Blocks)
    BY DEF Held
  <1>2. ASSUME NEW k \in {"thinking", "text"} PROVE Words(c, k) \o Words(todo, k) = Words(c, k)
    <2>1. Words(c, k) \in Data
      <3>1. \A b \in Blocks : b.kind = k => b.data \in Data
        BY DEF Blocks
      <3> QED BY <1>1, <3>1, WordsType
    <2>2. Words(todo, k) = <<>>
      BY WordsEmpty
    <2> QED BY <2>1, <2>2, ConcatEmptySeq DEF Data
  <1>3. Words(c, "thinking") = Told(chat.thinking) /\ Words(c, "text") = Told(chat.text)
    BY <1>2 DEF Held
  <1>4. ~buried => CallsTold(c) = chat.calls
    <2>1. MergeToolCalls(CallsTold(c), <<>>) = CallsTold(c)
      BY MergeNone
    <2> QED BY <2>1, UntoldEmpty DEF Held, CallsHeld
  <1>5. /\ Words(Content(message), "thinking") = Told(chat.thinking)
        /\ Words(Content(message), "text") = Told(chat.text)
        /\ CallsTold(c) = chat.calls => CallsOf(Content(message)) = ChatTells(chat)
    BY <1>1, <1>3, ToldIsSame
  <1> QED BY <1>4, <1>5 DEF Same, TextOf, Words, ChatCalls, ChatTells

\* So has the whole answer.
LEMMA WholeAnswerIsSame ==
  ASSUME PlainAnswer, chat.calls \in Seq(CallSet), chat.thinking \in Data \cup {Nil}, chat.text \in Data \cup {Nil}
  PROVE  Same'
  <1>1. message'.blocks = WholeContent(chat) /\ chat' = chat
    BY DEF PlainAnswer, ConvertedWhole
  <1>2. /\ Words(Content(message'), "thinking") = Told(chat.thinking)
        /\ Words(Content(message'), "text") = Told(chat.text)
        /\ CallsOf(Content(message')) = ChatTells(chat)
    BY <1>1, WholeIsSame
  <1> QED BY <1>1, <1>2 DEF Same, TextOf, Words, ChatCalls, ChatTells

\* The steps in which the message's blocks stay.
LEMMA BlocksKept ==
  ASSUME message = Fields(message),
         \/ UNCHANGED message
         \/ \E event : Send(event) /\ event.type \notin {"content_block_start", "content_block_delta"}
  PROVE  message'.blocks = message.blocks
  BY OtherEvents DEF Send

LEMMA InitLosesNothing == Init => LosesNothing
  <1> SUFFICES ASSUME Init PROVE LosesNothing
    OBVIOUS
  <1>1. /\ chunks = 0 /\ chat = NoChat /\ mode = "new" /\ done = FALSE /\ at = "receive" /\ kind = Nil
        /\ blockIndex = -1 /\ todo = <<>> /\ sent = Plain("none") /\ message = NoMessage /\ latest = Nil
        /\ toolIndex = -1
    BY Zenon DEF Init
  <1>2. sent.type # "message_stop"
    BY <1>1, EventNames
  <1>3. chat.thinking = Nil /\ chat.text = Nil /\ chat.calls = <<>> /\ message.blocks = <<>>
    BY <1>1 DEF NoChat, NoMessage
  <1>4. \A k : Words(message.blocks, k) \o Words(todo, k) = <<>>
    BY <1>1, <1>3, WordsEmpty, ConcatEmptySeq, EmptySeq
  <1>5. Told(Nil) = <<>>
    BY DEF Told
  <1>6. CallsHeld
    <2>1. CallsTold(message.blocks) = <<>> /\ Untold(todo) = <<>> /\ Len(<<>>) = 0
      BY <1>1, <1>3, CallsToldEmpty, UntoldEmpty
    <2>2. PiecesInOrder(todo, kind, 0, LastId)
      BY <1>1 DEF PiecesInOrder
    <2>3. Nil # "tool_use"
      BY NilAssumption DEF Kinds
    <2> QED BY <1>1, <1>3, <2>1, <2>2, <2>3, MergeNone DEF CallsHeld, LastKind
  <1>7. message.blocks \in Seq(Blocks) /\ Len(message.blocks) = blockIndex + 1 /\ todo \in Seq(PieceSet)
    <2>1. (-1) + 1 = 0
      OBVIOUS
    <2> QED BY <1>1, <1>3, <2>1, EmptySeq
  <1>8. Held
    BY <1>1, <1>3, <1>4, <1>5, <1>6, <1>7 DEF Held
  <1>9. chat.calls \in Seq(CallSet)
    BY <1>3, EmptySeq
  <1> QED BY <1>1, <1>2, <1>3, <1>8, <1>9 DEF LosesNothing, HasEnded

\* The places where the message is held to what is to come.
Converting == mode # "plain" /\ ~cancelled /\ at \in {"receive", "start", "piece", "begin"}
AtEnd == at \in {"finish", "stop"} \/ HasEnded

LEMMA NextHeld ==
  ASSUME TellsTheEnd, LosesNothing, [Next]_vars, Converting' PROVE Held'
  <1> USE DEF client, upstream, converter, reader
  <1>1. message = Fields(message) /\ (mode = "plain" => at \in {"receive", "over", "again"})
        /\ (mode = "new" => at = "receive")
    BY DEF TellsTheEnd
  <1>2. Converting => Held
    BY DEF LosesNothing, Converting
  <1>3. CASE UNCHANGED vars \/ AllOver
    <2>1. UNCHANGED vars
      BY <1>3 DEF AllOver
    <2>2. Converting
      BY <2>1 DEF Converting, vars
    <2>3. Held
      BY <1>2, <2>2
    <2>4. /\ UNCHANGED <<kind, toolIndex, blockIndex, todo, chat, latest, buried, at>> /\ message'.blocks = message.blocks
      BY <2>1 DEF vars
    <2>5. (at = "receive" => todo = <<>>) /\ (at = "begin" => todo # <<>> /\ NeedsBlock(Head(todo)))
      BY <2>3 DEF Held
    <2> QED BY <2>3, <2>4, <2>5, HeldSame
  <1>4. CASE Ask
    <2>1. Converting
      BY <1>1, <1>4 DEF Ask, Converting
    <2>2. Held /\ at = "receive"
      BY <1>1, <1>2, <1>4, <2>1 DEF Ask
    <2>3. UNCHANGED <<kind, toolIndex, blockIndex, todo, chat, latest, buried, at>> /\ message'.blocks = message.blocks
      BY <1>4 DEF Ask
    <2>4. todo = <<>>
      BY <2>2 DEF Held
    <2> QED BY <2>2, <2>3, <2>4, HeldSame
  <1>5. ASSUME NEW shape \in Shapes, Receive(shape) PROVE Held'
    <2>1. Converting /\ at = "receive"
      BY <1>5 DEF Receive, Converting
    <2> QED BY <1>2, <1>5, <2>1, ReceiveHeld DEF LosesNothing
  <1>6. ASSUME NEW shape \in Shapes, PlainMore(shape) PROVE FALSE
    BY <1>6 DEF PlainMore, Converting
  <1>7. CASE Unparsable
    <2>1. Converting /\ at = "receive"
      BY <1>7 DEF Unparsable, Converting
    <2>2. Held
      BY <1>2, <2>1
    <2>3. UNCHANGED <<kind, toolIndex, blockIndex, todo, chat, latest, buried, at>> /\ message'.blocks = message.blocks
      BY <1>7 DEF Unparsable
    <2>4. todo = <<>>
      BY <2>1, <2>2 DEF Held
    <2> QED BY <2>1, <2>2, <2>3, <2>4, HeldSame
  <1>8. CASE ReceiveDone \/ Leave \/ Panic \/ LastStop \/ SendReason \/ SendStop \/ Drop \/ Cancel
             \/ PlainAnswer \/ PlainError \/ NextTurn
    BY <1>8 DEF ReceiveDone, Leave, Panic, LastStop, SendReason, SendStop, Drop, Cancel, PlainAnswer, PlainError,
                NextTurn, Converting, Send
  <1>9. CASE SendStart
    <2>1. Held
      BY <1>2, <1>9 DEF SendStart, Send, Converting
    <2>2. UNCHANGED <<kind, toolIndex, blockIndex, todo, chat, latest, buried>> /\ at' = "piece"
      BY <1>9 DEF SendStart
    <2>3. message'.blocks = message.blocks
      BY <1>1, <1>9, OtherEvents, EventNames DEF SendStart, Send
    <2> QED BY <2>1, <2>2, <2>3, HeldSame
  <1>10. CASE ChunkDone
    <2>1. Held /\ todo = <<>>
      BY <1>2, <1>10 DEF ChunkDone, Converting
    <2>2. /\ UNCHANGED <<kind, toolIndex, blockIndex, todo, chat, latest, buried>> /\ at' = "receive"
          /\ message'.blocks = message.blocks
      BY <1>10 DEF ChunkDone
    <2> QED BY <2>1, <2>2, HeldSame
  <1>11. CASE StopBlock
    <2>1. Held /\ todo # <<>> /\ NeedsBlock(Head(todo))
      BY <1>2, <1>11 DEF StopBlock, Send, Converting
    <2>2. UNCHANGED <<kind, toolIndex, blockIndex, todo, chat, latest, buried>> /\ at' = "begin"
      BY <1>11 DEF StopBlock
    <2>3. message'.blocks = message.blocks
      BY <1>1, <1>11, OtherEvents, EventNames DEF StopBlock, Send
    <2> QED BY <2>1, <2>2, <2>3, HeldSame
  <1>12. CASE StartBlock
    <2>1. Held
      BY <1>2, <1>12 DEF StartBlock, StartsBlock, Send, Converting
    <2> QED BY <1>1, <1>12, <2>1, StartHeld
  <1>13. CASE SendDelta \/ NoDelta
    <2>1. Held
      BY <1>2, <1>13 DEF SendDelta, NoDelta, InBlock, Send, Converting
    <2> QED BY <1>1, <1>13, <2>1, TakeHeld
  <1> QED BY <1>3, <1>4, <1>5, <1>6, <1>7, <1>8, <1>9, <1>10, <1>11, <1>12, <1>13 DEF Next

LEMMA NextSame ==
  ASSUME TellsTheEnd, LosesNothing, [Next]_vars, AtEnd' PROVE Same'
  <1> USE DEF client, upstream, converter, reader
  <1>1. /\ message = Fields(message) /\ (mode = "plain" => at \in {"receive", "over", "again"})
        /\ (mode = "new" => at = "receive")
    BY DEF TellsTheEnd
  <1>2. /\ AtEnd => Same
        /\ at \notin {"over", "again"} => sent.type # "message_stop" /\ ~(mode = "plain" /\ done)
        /\ mode = "new" => ~done
    BY DEF LosesNothing, AtEnd
  <1>3. CASE UNCHANGED vars \/ AllOver
    <2>1. AtEnd /\ UNCHANGED <<chat, buried>> /\ message'.blocks = message.blocks
      BY <1>3 DEF AllOver, vars, AtEnd, HasEnded
    <2> QED BY <1>2, <2>1, SameKept
  <1>4. CASE Ask
    BY <1>1, <1>2, <1>4 DEF Ask, AtEnd, HasEnded
  <1>5. ASSUME NEW shape \in Shapes, Receive(shape) PROVE FALSE
    BY <1>2, <1>5 DEF Receive, AtEnd, HasEnded
  <1>6. ASSUME NEW shape \in Shapes, PlainMore(shape) PROVE FALSE
    BY <1>2, <1>6 DEF PlainMore, Emit, AtEnd, HasEnded
  <1>7. CASE ReceiveDone
    <2>1. Converting /\ at = "receive"
      BY <1>7 DEF ReceiveDone, Converting
    <2>2. Held
      BY <2>1 DEF LosesNothing, Converting
    <2>3. todo = <<>> /\ chat.calls \in Seq(CallSet)
      BY <2>1, <2>2 DEF Held, LosesNothing
    <2>4. Same
      BY <2>2, <2>3, DoneIsSame
    <2>5. UNCHANGED <<chat, buried>> /\ message'.blocks = message.blocks
      BY <1>7 DEF ReceiveDone
    <2> QED BY <2>4, <2>5, SameKept
  <1>8. CASE Unparsable \/ Leave \/ SendStart \/ ChunkDone \/ StopBlock \/ StartBlock \/ Panic \/ SendDelta \/ NoDelta
    <2>1. at \notin {"over", "again", "finish", "stop"} /\ at' \notin {"finish", "stop"} /\ mode # "plain" /\ mode' = mode
      BY <1>1, <1>8 DEF Unparsable, Leave, SendStart, ChunkDone, StopBlock, StartBlock, StartsBlock, Panic, SendDelta,
                        NoDelta, InBlock
    <2>2. sent' = sent \/ sent'.type # "message_stop"
      BY <1>8, EventNames DEF Unparsable, Leave, SendStart, ChunkDone, StopBlock, StartBlock, Panic, SendDelta, NoDelta, Send
    <2> QED BY <1>2, <2>1, <2>2 DEF AtEnd, HasEnded
  <1>9. CASE LastStop \/ SendReason \/ SendStop
    <2>1. AtEnd /\ UNCHANGED <<chat, buried>>
      BY <1>9 DEF LastStop, SendReason, SendStop, AtEnd
    <2>2. message'.blocks = message.blocks
      BY <1>1, <1>9, OtherEvents, EventNames DEF LastStop, SendReason, SendStop, Send
    <2> QED BY <1>2, <2>1, <2>2, SameKept
  <1>10. CASE Drop \/ Cancel
    <2>1. /\ at \notin {"over", "again"} /\ UNCHANGED <<mode, done, sent, chat, buried, message>>
          /\ at' \in {"finish", "stop"} => at \in {"finish", "stop"}
      BY <1>10 DEF Drop, Cancel
    <2>2. AtEnd
      BY <1>2, <2>1 DEF AtEnd, HasEnded
    <2>3. message'.blocks = message.blocks
      BY <2>1
    <2> QED BY <1>2, <2>1, <2>2, <2>3, SameKept
  <1>11. CASE PlainAnswer
    BY <1>11, WholeAnswerIsSame DEF LosesNothing
  <1>12. CASE PlainError
    BY <1>2, <1>12 DEF PlainError, AtEnd, HasEnded
  <1>13. CASE NextTurn
    <2>1. AtEnd /\ UNCHANGED <<chat, buried>> /\ message'.blocks = message.blocks
      BY <1>13 DEF NextTurn, AtEnd
    <2> QED BY <1>2, <2>1, SameKept
  <1> QED BY <1>3, <1>4, <1>5, <1>6, <1>7, <1>8, <1>9, <1>10, <1>11, <1>12, <1>13 DEF Next

LEMMA NextLosesNothing == ASSUME TellsTheEnd, LosesNothing, [Next]_vars PROVE LosesNothing'
  <1> USE DEF client, upstream, converter, reader
  <1>1. /\ mode = "plain" => at \in {"receive", "over", "again"}
        /\ mode = "new" => at = "receive"
    BY DEF TellsTheEnd
  <1>2. /\ chunks' \in Nat /\ chat'.calls \in Seq(CallSet)
        /\ chat'.thinking \in Data \cup {Nil} /\ chat'.text \in Data \cup {Nil}
    <2>1. ASSUME NEW shape \in Shapes, Receive(shape) \/ PlainMore(shape)
          PROVE /\ chunks' \in Nat /\ chat'.calls \in Seq(CallSet)
                /\ chat'.thinking \in Data \cup {Nil} /\ chat'.text \in Data \cup {Nil}
      BY <2>1, AnswerTyped DEF Receive, PlainMore, LosesNothing
    <2>2. \/ chat' = chat /\ chunks' \in {chunks, chunks + 1}
          \/ \E shape \in Shapes : Receive(shape) \/ PlainMore(shape)
      BY DEF vars, Next, Ask, Unparsable, ReceiveDone, Leave, SendStart, ChunkDone, StopBlock, StartBlock, Panic,
             SendDelta, NoDelta, LastStop, SendReason, SendStop, Drop, Cancel, PlainAnswer, PlainError, NextTurn, AllOver
    <2>3. chunks \in Nat /\ chat.calls \in Seq(CallSet) /\ chat.thinking \in Data \cup {Nil} /\ chat.text \in Data \cup {Nil}
      BY DEF LosesNothing
    <2> QED BY <2>1, <2>2, <2>3
  <1>3. /\ (mode = "new" => ~done)'
        /\ (mode = "plain" /\ done => at \in {"over", "again"})'
    BY <1>1 DEF LosesNothing, vars, Next, Ask, Receive, PlainMore, Emit, Unparsable, ReceiveDone, Leave, SendStart, ChunkDone,
           StopBlock, StartBlock, StartsBlock, Panic, SendDelta, NoDelta, InBlock, LastStop, SendReason, SendStop, Drop, Cancel,
           PlainAnswer, PlainError, NextTurn, AllOver
  <1>4. (sent.type = "message_stop" => at \in {"over", "again"})'
    BY EventNames DEF LosesNothing, vars, Next, Ask, Receive, PlainMore, Unparsable, ReceiveDone, Leave, SendStart, ChunkDone,
           StopBlock, StartBlock, StartsBlock, Panic, SendDelta, NoDelta, InBlock, LastStop, SendReason, SendStop, Drop, Cancel,
           PlainAnswer, PlainError, NextTurn, AllOver, Send
  <1>5. Converting' => Held'
    BY NextHeld
  <1>6. AtEnd' => Same'
    BY NextSame
  <1> QED BY <1>2, <1>3, <1>4, <1>5, <1>6 DEF LosesNothing, Converting, AtEnd

\* A message that came to its end has all the thinking, text and calls of
\* the chunks, for chunks of every make in any number: the block that
\* convertStreamResponse has open is the one each fragment is for, and
\* convertNonStreamResponseBody makes the same of a whole answer.  Calls
\* directly behind thinking are the exception.
THEOREM KeepsAll == Spec => []NothingLost
  <1>1. LosesNothing => NothingLost
    BY DEF LosesNothing, Same, NothingLost
  <1>2. TellsTheEnd /\ LosesNothing /\ [Next]_vars => TellsTheEnd' /\ LosesNothing'
    BY NextTellsTheEnd, NextLosesNothing
  <1> QED BY <1>1, <1>2, InitTellsTheEnd, InitLosesNothing, PTL DEF Spec

-----------------------------------------------------------------------------
(* The calls come back.                                                    *)
(*                                                                         *)
(* In the next turn each call has an answer only if it has an id: results  *)
(* without one are left out.  That a fragment without an id never starts a *)
(* block holds by where it comes, wherever calls are buried: directly      *)
(* behind another one of its call.                                         *)

\* All calls, numbered in their order, have an id; and so have their blocks.
Named(calls) == Numbered(calls) /\ \A i \in 1 .. Len(calls) : calls[i].id # Nil
BlocksNamed(c) == c \in Seq(Blocks) /\ \A i \in 1 .. Len(c) : c[i].kind = "tool_use" => c[i].id # Nil

\* Behind a piece of kind k, and the call of index i: the call goes on.
GoesOn(k, i, index) == k \in {"thinking", "tool_use"} /\ (k = "tool_use" => i = index)
Nameless(p) == p.kind = "tool_use" /\ p.id = Nil
Continues(q, k, i, l, n) ==
    /\ q # <<>> /\ Nameless(q[1]) => GoesOn(k, i, q[1].index)
    /\ \A j \in 2 .. Len(q) : Nameless(q[j]) => q[j - 1].kind = "tool_use" /\ q[j - 1].index = q[j].index
    /\ l = "tool_use" /\ q = <<>> => GoesOn(k, i, n - 1)
    /\ l = "tool_use" /\ q # <<>> => q[Len(q)].kind = "tool_use" /\ q[Len(q)].index = n - 1

\* The next turn's request, if there was one.
Turned ==
    \E first, last \in BOOLEAN :
        request = ConvertedRequest([asked EXCEPT !.messages = History(Content(message), first, last)])

NamesCalls ==
    /\ mode # "new" => asked \in Asks
    /\ Named(chat.calls)
    /\ latest = "tool_use" => chat.calls # <<>>
    /\ Converting => Continues(todo, kind, toolIndex, latest, Len(chat.calls))
    /\ Converting \/ AtEnd => BlocksNamed(message.blocks)
    /\ at = "again" => HasEnded /\ mode # "new" /\ Turned

\* A fragment with an id begins the next call; others are of one that is there.
LEMMA NamedGrows ==
  ASSUME NEW calls, Named(calls), NEW f \in FragmentSet
  PROVE  LET then == MergeToolCall(calls, f)
         IN  /\ f.index = Len(calls) /\ f.id # Nil => Named(then) /\ Len(then) = Len(calls) + 1
             /\ f.index \in 0 .. Len(calls) - 1 => Named(then) /\ Len(then) = Len(calls)
  <1> DEFINE n == Len(calls)
             then == MergeToolCall(calls, f)
  <1>1. /\ calls \in Seq(CallSet) /\ n \in Nat /\ DOMAIN calls = 1 .. n
        /\ \A i \in 1 .. n : calls[i] \in CallSet /\ calls[i].index = i - 1 /\ calls[i].id # Nil
    BY LenProperties, ElementOfSeq DEF Named, Numbered
  <1>2. then \in Seq(CallSet)
    BY <1>1, MergeCallType
  <1>3. ASSUME NEW call \in CallSet
        PROVE  LET more == WithFragment(call, f)
               IN  more.index = call.index /\ more.id = IF f.id # Nil THEN f.id ELSE call.id
    BY DEF WithFragment, CallSet
  <1>4. ASSUME f.index = n, f.id # Nil PROVE Named(then) /\ Len(then) = n + 1
    <2> DEFINE new == WithFragment(NewCall(f), f)
    <2>1. NewCall(f) \in CallSet /\ NewCall(f).index = f.index
      <3>1. <<>> \in Data
        BY EmptySeq DEF Data
      <3> QED BY <3>1 DEF NewCall, CallSet, FragmentSet
    <2>2. new.index = n /\ new.id # Nil
      BY <1>3, <1>4, <2>1
    <2>3. then = Append(calls, new)
      <3>1. ~\E i \in DOMAIN calls : calls[i].index = f.index
        <4> HIDE DEF n
        <4> QED BY <1>1, <1>4
      <3> QED BY <3>1 DEF MergeToolCall
    <2> HIDE DEF new, then
    <2>4. Len(then) = n + 1 /\ (\A i \in 1 .. n : then[i] = calls[i]) /\ then[n + 1] = new
      BY <2>3, AppendProperties DEF n
    <2>5. \A i \in 1 .. Len(then) : then[i].index = i - 1 /\ then[i].id # Nil
      <3> SUFFICES ASSUME NEW i \in 1 .. Len(then) PROVE then[i].index = i - 1 /\ then[i].id # Nil
        OBVIOUS
      <3> HIDE DEF n
      <3>1. CASE i \in 1 .. n
        BY <1>1, <2>4, <3>1
      <3>2. CASE i = n + 1
        BY <1>1, <2>2, <2>4, <3>2
      <3> QED BY <1>1, <2>4, <3>1, <3>2
    <2> QED BY <1>2, <2>4, <2>5 DEF Named, Numbered
  <1>5. ASSUME f.index \in 0 .. n - 1 PROVE Named(then) /\ Len(then) = n
    <2>1. \E i \in DOMAIN calls : calls[i].index = f.index
      <3> HIDE DEF n
      <3>1. f.index + 1 \in 1 .. n /\ (f.index + 1) - 1 = f.index
        BY <1>1, <1>5, SMTT(30)
      <3> QED BY <1>1, <3>1
    <2>2. then = [i \in 1 .. n |-> IF calls[i].index = f.index THEN WithFragment(calls[i], f) ELSE calls[i]]
      BY <1>1, <2>1 DEF MergeToolCall
    <2>3. DOMAIN then = 1 .. n
      BY <2>2
    <2> HIDE DEF then, n
    <2>4. Len(then) = n
      BY <1>1, <1>2, <2>3, LenProperties
    <2>5. \A i \in 1 .. n : then[i].index = i - 1 /\ then[i].id # Nil
      BY <1>1, <1>3, <2>2
    <2> QED BY <1>2, <2>4, <2>5 DEF Named, Numbered
  <1> QED BY <1>4, <1>5

\* So the calls of a chunk are counted.
LEMMA ChunkNamed ==
  ASSUME NEW shape \in Shapes, chunks \in Nat, Named(chat.calls), latest = "tool_use" => chat.calls # <<>>, Possible(shape)
  PROVE  LET made == MergeToolCalls(chat.calls, Chunk(shape).calls)
         IN  /\ Named(made) /\ Len(made) = Len(chat.calls) + Begun(shape.calls, Len(shape.calls))
             /\ shape.calls # <<>> => made # <<>>
  <1> DEFINE s == shape.calls
             f == Chunk(shape).calls
             n == Len(chat.calls)
             U == MergedUpTo(chat.calls, f)
             Good(k) == Named(U[k]) /\ Len(U[k]) = n + Begun(s, k) /\ (k # 0 => Len(U[k]) # 0)
             T == {k \in Nat : k <= Len(s) => Good(k)}
  <1>1. chat.calls \in Seq(CallSet) /\ n \in Nat
    BY LenProperties DEF Named, Numbered
  <1>2. /\ s \in Seq(Marks) /\ Len(s) \in Nat /\ f \in Seq(FragmentSet) /\ Len(f) = Len(s)
        /\ \A i \in 1 .. Len(s) : /\ f[i].index = n + Begun(s, i) - 1
                                  /\ s[i] # "more" => f[i].id # Nil
    BY <1>1, ChunkTypes
  <1>3. /\ Begun(s, 0) = 0
        /\ \A i \in 0 .. Len(s) : Begun(s, i) \in Nat
        /\ \A i \in 1 .. Len(s) : Begun(s, i) = IF s[i] = "more" THEN Begun(s, i - 1) ELSE Begun(s, i - 1) + 1
    BY <1>2, BegunCounts
  <1>4. Len(s) # 0 /\ s[1] = "more" => n # 0
    <2>1. Len(s) # 0 => s # <<>>
      BY <1>2, EmptySeq
    <2>2. Len(s) # 0 /\ s[1] = "more" => latest = "tool_use"
      BY <2>1 DEF Possible
    <2>3. n = 0 => chat.calls = <<>>
      BY <1>1, EmptySeq
    <2> QED BY <2>2, <2>3
  <1> HIDE DEF s, f, U, n
  <1>5. \A k \in 0 .. Len(f) : U[k] = IF k = 0 THEN chat.calls ELSE MergeToolCall(U[k - 1], f[k])
    BY <1>2, MergedUpToStep DEF U
  <1>6. 0 \in T
    <2>1. U[0] = chat.calls
      BY <1>2, <1>5
    <2>2. Good(0)
      BY <1>1, <1>3, <2>1 DEF n
    <2> HIDE DEF Good
    <2> QED BY <2>2
  <1>7. ASSUME NEW k \in Nat, k \in T PROVE k + 1 \in T
    <2> SUFFICES ASSUME k + 1 <= Len(s)
                 PROVE  Named(U[k + 1]) /\ Len(U[k + 1]) = n + Begun(s, k + 1) /\ Len(U[k + 1]) # 0
      <3>1. (k + 1 <= Len(s) => Good(k + 1)) => k + 1 \in T
        <4> HIDE DEF Good
        <4> QED OBVIOUS
      <3> QED BY <3>1
    <2>0. k <= Len(s) => Good(k)
      <3> HIDE DEF Good
      <3> QED BY <1>7
    <2> DEFINE had == U[k]
               e == f[k + 1]
    <2>1. k + 1 \in 1 .. Len(s) /\ k + 1 \in 0 .. Len(f) /\ k + 1 # 0 /\ (k + 1) - 1 = k /\ k \in 0 .. Len(s)
      BY <1>2
    <2>2. U[k + 1] = MergeToolCall(had, e)
      BY <1>5, <2>1
    <2>3. Named(had) /\ Len(had) = n + Begun(s, k) /\ (k # 0 => Len(had) # 0) /\ Begun(s, k) \in Nat
      BY <1>3, <2>0, <2>1
    <2>4. e \in FragmentSet
      BY <1>2, <2>1, ElementOfSeq
    <2>5. /\ e.index = n + Begun(s, k + 1) - 1 /\ (s[k + 1] # "more" => e.id # Nil)
          /\ Begun(s, k + 1) = IF s[k + 1] = "more" THEN Begun(s, k) ELSE Begun(s, k) + 1
      BY <1>2, <1>3, <2>1
    <2> HIDE DEF had, e
    <2>6. CASE s[k + 1] # "more"
      <3>1. e.index = Len(had) /\ e.id # Nil
        BY <1>1, <2>3, <2>5, <2>6
      <3>2. Named(MergeToolCall(had, e)) /\ Len(MergeToolCall(had, e)) = Len(had) + 1
        BY <2>3, <2>4, <3>1, NamedGrows
      <3> QED BY <1>1, <2>2, <2>3, <2>5, <2>6, <3>2
    <2>7. CASE s[k + 1] = "more"
      <3>1. Len(had) # 0
        <4>1. CASE k = 0
          <5>1. n # 0
            BY <1>2, <1>4, <2>7, <4>1
          <5> QED BY <1>1, <2>3, <5>1
        <4> QED BY <2>3, <4>1
      <3>2. e.index = Len(had) - 1 /\ e.index \in 0 .. Len(had) - 1
        BY <1>1, <2>3, <2>5, <2>7, <3>1
      <3>3. Named(MergeToolCall(had, e)) /\ Len(MergeToolCall(had, e)) = Len(had)
        BY <2>3, <2>4, <3>2, NamedGrows
      <3> QED BY <2>2, <2>3, <2>5, <2>7, <3>1, <3>3
    <2> QED BY <2>6, <2>7
  <1>8. Nat \subseteq T
    <2> HIDE DEF T
    <2> QED BY <1>6, <1>7, NatSetInduction
  <1>13. Good(Len(s))
    <2> HIDE DEF Good
    <2> QED BY <1>2, <1>8
  <1>9. /\ Named(U[Len(s)]) /\ Len(U[Len(s)]) = n + Begun(s, Len(s))
        /\ Len(s) # 0 => Len(U[Len(s)]) # 0
    BY <1>13
  <1>10. MergeToolCalls(chat.calls, f) = U[Len(s)]
    BY <1>2, MergeIsFold DEF U
  <1>11. s # <<>> => Len(s) # 0
    BY <1>2, EmptySeq
  <1>12. s # <<>> => U[Len(s)] # <<>>
    BY <1>9, <1>11
  <1> QED BY <1>9, <1>10, <1>12 DEF s, f, n

\* A piece that is no call, in front of others that do not go on a call.
LEMMA ContinuesInFront ==
  ASSUME NEW p \in PieceSet, p.kind # "tool_use", NEW s \in Seq(PieceSet), NEW k, NEW i, NEW l, NEW n,
         Continues(s, k, i, l, n), s # <<>> => ~Nameless(s[1]), s = <<>> => l # "tool_use",
         NEW c, c = <<p>> \o s
  PROVE  c # <<>> /\ ~Nameless(c[1]) /\ Continues(c, k, i, l, n)
  <1>1. /\ c \in Seq(PieceSet) /\ Len(c) = 1 + Len(s)
        /\ \A j \in 1 .. 1 + Len(s) : c[j] = IF j <= 1 THEN p ELSE s[j - 1]
    BY OneFirst
  <1>2. Len(s) \in Nat /\ (s = <<>> <=> Len(s) = 0)
    BY LenProperties, EmptySeq
  <1>3. c # <<>> /\ c[1] = p
    BY <1>1, <1>2, EmptySeq
  <1>4. ~Nameless(c[1])
    BY <1>3 DEF Nameless
  <1>5. ASSUME NEW j \in 2 .. Len(c), Nameless(c[j])
        PROVE  c[j - 1].kind = "tool_use" /\ c[j - 1].index = c[j].index
    <2>1. c[j] = s[j - 1] /\ Len(s) # 0
      BY <1>1, <1>2
    <2>2. j # 2
      BY <1>2, <1>5, <2>1
    <2>3. j - 1 \in 2 .. Len(s) /\ j - 1 \in 1 .. 1 + Len(s) /\ ~(j - 1 <= 1)
      BY <1>1, <1>2, <2>2
    <2>4. c[j - 1] = s[(j - 1) - 1]
      BY <1>1, <2>3
    <2>5. s[(j - 1) - 1].kind = "tool_use" /\ s[(j - 1) - 1].index = s[j - 1].index
      BY <1>5, <2>1, <2>3 DEF Continues
    <2> QED BY <2>1, <2>4, <2>5
  <1>6. ASSUME l = "tool_use" PROVE c[Len(c)].kind = "tool_use" /\ c[Len(c)].index = n - 1
    <2>1. s # <<>> /\ Len(s) # 0
      BY <1>2, <1>6
    <2>2. s[Len(s)].kind = "tool_use" /\ s[Len(s)].index = n - 1
      BY <1>6, <2>1 DEF Continues
    <2>3. Len(c) \in 1 .. 1 + Len(s) /\ ~(Len(c) <= 1) /\ Len(c) - 1 = Len(s)
      BY <1>1, <1>2, <2>1
    <2>4. c[Len(c)] = s[Len(s)]
      BY <1>1, <2>3
    <2> QED BY <2>2, <2>4
  <1> QED BY <1>3, <1>4, <1>5, <1>6 DEF Continues

\* A fragment without an id comes directly behind another one of its call.
LEMMA ChunkContinues ==
  ASSUME NEW shape \in Shapes, chunks \in Nat, chat.calls \in Seq(CallSet), Possible(shape),
         NEW k, NEW i, latest = "tool_use" => GoesOn(k, i, Len(chat.calls) - 1)
  PROVE  Continues(Pieces(Chunk(shape)), k, i, IF shape.calls # <<>> THEN "tool_use" ELSE Before(shape),
                   Len(chat.calls) + Begun(shape.calls, Len(shape.calls)))
  <1> DEFINE chunk == Chunk(shape)
             calls == chunk.calls
             s == shape.calls
             n == Len(chat.calls)
             m == Len(s)
             n2 == n + Begun(s, m)
             l == IF s # <<>> THEN "tool_use" ELSE Before(shape)
             p == Piece("thinking", 0, Nil, chunk.thinking)
             q == Piece("text", 0, Nil, chunk.text)
             first == IF chunk.thinking \notin {Nil, <<>>} THEN <<p>> ELSE <<>>
             second == IF chunk.text \notin {Nil, <<>>} THEN <<q>> ELSE <<>>
             third == [j \in DOMAIN calls |-> Piece("tool_use", calls[j].index, calls[j].id, calls[j].function)]
             behind == second \o third
  <1>1. /\ chunk.thinking \in Data \cup {Nil} /\ chunk.text \in Data \cup {Nil}
        /\ chunk.thinking \notin {Nil, <<>>} <=> shape.thinking = "some"
        /\ chunk.text \notin {Nil, <<>>} <=> shape.text = "some"
        /\ s \in Seq(Marks) /\ m \in Nat
        /\ DOMAIN calls = 1 .. m /\ calls \in Seq(FragmentSet) /\ Len(calls) = m
    BY ChunkTypes
  <1>2. \A j \in 1 .. m :
           /\ calls[j].index = n + Begun(s, j) - 1
           /\ s[j] # "more" => calls[j].id # Nil
    BY ChunkTypes
  <1>3. Pieces(chunk) = (first \o second) \o third
    BY DEF Pieces
  <1>4. /\ shape.thinking = "some" => p \in PieceSet /\ p.kind = "thinking"
        /\ shape.text = "some" => q \in PieceSet /\ q.kind = "text"
    <2>1. ASSUME NEW y \in {"thinking", "text"}, NEW x \in Data
          PROVE  Piece(y, 0, Nil, x) \in PieceSet /\ Piece(y, 0, Nil, x).kind = y
      <3>1. x # Nil
        BY NilAssumption
      <3> QED BY <3>1 DEF Piece, PieceSet, Kinds
    <2>2. shape.thinking = "some" => chunk.thinking \in Data
      BY <1>1
    <2>3. shape.text = "some" => chunk.text \in Data
      BY <1>1
    <2> HIDE DEF chunk
    <2> QED BY <2>1, <2>2, <2>3
  <1>5. /\ shape.thinking # "some" => first = <<>>
        /\ shape.text # "some" => second = <<>>
        /\ shape.thinking = "some" => first = <<p>>
        /\ shape.text = "some" => second = <<q>>
    BY <1>1
  <1> HIDE DEF chunk
  <1>6. /\ DOMAIN third = 1 .. m /\ third \in Seq(PieceSet) /\ Len(third) = m
        /\ \A j \in 1 .. m : third[j] = Piece("tool_use", calls[j].index, calls[j].id, calls[j].function)
    <2>1. \A j \in 1 .. m : third[j] = Piece("tool_use", calls[j].index, calls[j].id, calls[j].function)
      <3> HIDE DEF calls, m
      <3> QED BY <1>1
    <2>2. DOMAIN third = 1 .. m /\ third = [j \in 1 .. m |-> third[j]]
      <3> HIDE DEF calls, m
      <3> QED BY <1>1
    <2> HIDE DEF third
    <2>3. ASSUME NEW j \in 1 .. m PROVE third[j] \in PieceSet
      <3>1. calls[j] \in FragmentSet
        <4> HIDE DEF calls, m
        <4> QED BY <1>1, ElementOfSeq
      <3>2. ASSUME NEW f \in FragmentSet PROVE Piece("tool_use", f.index, f.id, f.function) \in PieceSet
        <4>1. f.index \in Int /\ f.id \in Nat \cup {Nil} /\ f.function \in Data \cup {Nil}
          BY DEF FragmentSet
        <4> QED BY <4>1 DEF Piece, PieceSet, Kinds
      <3> HIDE DEF calls
      <3> QED BY <2>1, <3>1, <3>2
    <2>4. third \in [1 .. m -> PieceSet]
      BY <2>2, <2>3
    <2> HIDE DEF m
    <2> QED BY <1>1, <2>1, <2>2, <2>4, IsSequence
  <1> HIDE DEF calls, third, m, n, p, q, first, second
  <1>7. \A j \in 1 .. m : /\ third[j].kind = "tool_use" /\ third[j].index = calls[j].index
                          /\ third[j].id = calls[j].id
    BY <1>2, <1>6 DEF Piece
  <1>8. \A j \in 1 .. m : /\ third[j].kind = "tool_use" /\ third[j].index = n + Begun(s, j) - 1
                          /\ Nameless(third[j]) => s[j] = "more"
    BY <1>2, <1>7 DEF Nameless
  <1>9. n \in Nat /\ Begun(s, 0) = 0 /\ (\A j \in 0 .. m : Begun(s, j) \in Nat)
        /\ \A j \in 1 .. m : Begun(s, j) = IF s[j] = "more" THEN Begun(s, j - 1) ELSE Begun(s, j - 1) + 1
    <2>1. n \in Nat
      BY LenProperties DEF n
    <2> QED BY <1>1, <2>1, BegunCounts DEF m
  <1>10. /\ third = <<>> <=> s = <<>>
         /\ s = <<>> <=> m = 0
    BY <1>1, <1>6, EmptySeq DEF m
  <1>11. third # <<>> /\ Nameless(third[1]) => latest = "tool_use" /\ shape.thinking # "some" /\ shape.text # "some"
    <2> SUFFICES ASSUME third # <<>>, Nameless(third[1])
                 PROVE latest = "tool_use" /\ shape.thinking # "some" /\ shape.text # "some"
      OBVIOUS
    <2>1. 1 \in 1 .. m /\ s # <<>>
      BY <1>1, <1>10
    <2>2. s[1] = "more"
      BY <1>8, <2>1
    <2> QED BY <2>1, <2>2 DEF Possible
  <1>12. Continues(third, k, i, l, n2)
    <2>1. ASSUME third # <<>>, Nameless(third[1]) PROVE GoesOn(k, i, third[1].index)
      <3>1. 1 \in 1 .. m /\ 0 \in 0 .. m
        BY <1>1, <1>10, <2>1
      <3>2. s[1] = "more"
        BY <1>8, <2>1, <3>1
      <3>3. Begun(s, 1) = 0
        BY <1>9, <3>1, <3>2
      <3>4. third[1].index = n - 1
        BY <1>8, <1>9, <3>1, <3>3
      <3> QED BY <1>11, <2>1, <3>4 DEF n
    <2>2. ASSUME NEW j \in 2 .. Len(third), Nameless(third[j])
          PROVE  third[j - 1].kind = "tool_use" /\ third[j - 1].index = third[j].index
      <3>1. j \in 1 .. m /\ j - 1 \in 1 .. m
        BY <1>1, <1>6
      <3>2. s[j] = "more"
        BY <1>8, <2>2, <3>1
      <3>3. Begun(s, j) = Begun(s, j - 1)
        BY <1>9, <3>1, <3>2
      <3> QED BY <1>8, <3>1, <3>3
    <2>3. ASSUME l = "tool_use", third = <<>> PROVE GoesOn(k, i, n2 - 1)
      <3>1. latest = "tool_use"
        BY <1>10, <2>3 DEF Before
      <3>2. n2 = n
        BY <1>9, <1>10, <2>3
      <3> HIDE DEF n2
      <3> QED BY <3>1, <3>2 DEF n
    <2>4. ASSUME third # <<>> PROVE third[Len(third)].kind = "tool_use" /\ third[Len(third)].index = n2 - 1
      <3>1. m \in 1 .. m
        BY <1>1, <1>10, <2>4
      <3>2. third[m].index = n + Begun(s, m) - 1 /\ third[m].kind = "tool_use"
        BY <1>8, <3>1
      <3>3. n + Begun(s, m) - 1 = n2 - 1
        <4>1. m \in 0 .. m
          BY <1>1
        <4>2. n \in Nat /\ Begun(s, m) \in Nat
          BY <1>9, <4>1
        <4> QED BY <4>2
      <3> HIDE DEF n2
      <3> QED BY <1>6, <3>2, <3>3
    <2> HIDE DEF n2, l
    <2> QED BY <2>1, <2>2, <2>3, <2>4 DEF Continues
  <1>13. first \in Seq(PieceSet) /\ second \in Seq(PieceSet) /\ behind \in Seq(PieceSet)
         /\ Pieces(chunk) = first \o behind
    <2>1. \A a \in PieceSet : <<a>> \in Seq(PieceSet)
      OBVIOUS
    <2>2. first \in Seq(PieceSet)
      BY <1>4, <1>5, <2>1, EmptySeq
    <2>3. second \in Seq(PieceSet)
      BY <1>4, <1>5, <2>1, EmptySeq
    <2>4. behind \in Seq(PieceSet)
      BY <1>6, <2>3, ConcatProperties
    <2>5. (first \o second) \o third = first \o (second \o third)
      BY <1>6, <2>2, <2>3, ConcatAssociative
    <2> QED BY <1>3, <2>2, <2>3, <2>4, <2>5
  <1>14. /\ Continues(behind, k, i, l, n2)
         /\ behind # <<>> /\ Nameless(behind[1]) => shape.thinking # "some"
         /\ behind = <<>> => s = <<>> /\ shape.text # "some"
    <2>1. CASE shape.text = "some"
      <3>1. behind = <<q>> \o third
        BY <1>5, <2>1
      <3>2. third = <<>> => l # "tool_use"
        BY <1>10, <2>1 DEF Before
      <3>3. q \in PieceSet /\ q.kind # "tool_use"
        BY <1>4, <2>1
      <3>4. third # <<>> => ~Nameless(third[1])
        BY <1>11, <2>1
      <3> HIDE DEF behind, l, n2
      <3>5. behind # <<>> /\ ~Nameless(behind[1]) /\ Continues(behind, k, i, l, n2)
        BY <1>6, <1>12, <3>1, <3>2, <3>3, <3>4, ContinuesInFront
      <3> QED BY <3>5
    <2>2. CASE shape.text # "some"
      <3>1. behind = third
        BY <1>5, <1>6, <2>2, ConcatEmptySeq
      <3> HIDE DEF behind, l, n2
      <3> QED BY <1>10, <1>11, <1>12, <2>2, <3>1
    <2> QED BY <2>1, <2>2
  <1> DEFINE c == Pieces(chunk)
  <1>15. Continues(c, k, i, l, n2)
    <2>1. CASE shape.thinking = "some"
      <3>1. c = <<p>> \o behind
        BY <1>5, <1>13, <2>1
      <3>2. behind = <<>> => l # "tool_use"
        <4> HIDE DEF behind
        <4> QED BY <1>14, <2>1 DEF Before
      <3>3. p \in PieceSet /\ p.kind # "tool_use"
        BY <1>4, <2>1
      <3> HIDE DEF behind, c, l, n2
      <3>4. behind # <<>> => ~Nameless(behind[1])
        BY <1>14, <2>1
      <3> QED BY <1>13, <1>14, <3>1, <3>2, <3>3, <3>4, ContinuesInFront
    <2>2. CASE shape.thinking # "some"
      <3> HIDE DEF behind
      <3>1. c = behind
        BY <1>5, <1>13, <2>2, ConcatEmptySeq
      <3> HIDE DEF c, l, n2
      <3> QED BY <1>14, <3>1
    <2> QED BY <2>1, <2>2
  <1> HIDE DEF c
  <1> QED BY <1>15 DEF c, chunk, l, n2, n, m, s

\* What is behind the first piece, where the converter has taken that.
LEMMA ContinuesBehind ==
  ASSUME NEW q \in Seq(PieceSet), q # <<>>, NEW k, NEW i, NEW l, NEW n, Continues(q, k, i, l, n),
         NEW k2, NEW i2, Head(q).kind = "tool_use" => GoesOn(k2, i2, Head(q).index)
  PROVE  Continues(Tail(q), k2, i2, l, n)
  <1> DEFINE t == Tail(q)
  <1>1. /\ Len(q) \in Nat /\ Len(q) > 0 /\ Head(q) = q[1]
        /\ t \in Seq(PieceSet) /\ Len(t) = Len(q) - 1
        /\ \A j \in 1 .. Len(t) : t[j] = q[j + 1]
    BY HeadTailProperties, EmptySeq
  <1> HIDE DEF t
  <1>2. t = <<>> <=> Len(t) = 0
    BY <1>1, EmptySeq
  <1>3. ASSUME t # <<>>, Nameless(t[1]) PROVE GoesOn(k2, i2, t[1].index)
    <2>1. 1 \in 1 .. Len(t) /\ 2 \in 2 .. Len(q)
      BY <1>1, <1>2, <1>3
    <2>2. t[1] = q[2] /\ q[2 - 1] = q[1]
      BY <1>1, <2>1
    <2>3. q[1].kind = "tool_use" /\ q[1].index = q[2].index
      BY <1>3, <2>1, <2>2 DEF Continues
    <2> QED BY <1>1, <2>2, <2>3
  <1>4. ASSUME NEW j \in 2 .. Len(t), Nameless(t[j]) PROVE t[j - 1].kind = "tool_use" /\ t[j - 1].index = t[j].index
    <2>1. j \in 1 .. Len(t) /\ j - 1 \in 1 .. Len(t) /\ j + 1 \in 2 .. Len(q) /\ (j - 1) + 1 = (j + 1) - 1
      BY <1>1
    <2>2. t[j] = q[j + 1] /\ t[j - 1] = q[(j + 1) - 1]
      BY <1>1, <2>1
    <2> QED BY <1>4, <2>1, <2>2 DEF Continues
  <1>5. ASSUME l = "tool_use", t = <<>> PROVE GoesOn(k2, i2, n - 1)
    <2>1. Len(q) = 1
      BY <1>1, <1>2, <1>5
    <2>2. q[1].kind = "tool_use" /\ q[1].index = n - 1
      BY <1>5, <2>1 DEF Continues
    <2> QED BY <1>1, <2>2
  <1>6. ASSUME l = "tool_use", t # <<>> PROVE t[Len(t)].kind = "tool_use" /\ t[Len(t)].index = n - 1
    <2>1. Len(t) \in 1 .. Len(t) /\ Len(t) + 1 = Len(q)
      BY <1>1, <1>2, <1>6
    <2>2. t[Len(t)] = q[Len(q)]
      BY <1>1, <2>1
    <2> QED BY <1>6, <2>2 DEF Continues
  <1> QED BY <1>3, <1>4, <1>5, <1>6 DEF Continues, t

\* The upstream side of a chunk, and that what it sends goes on its calls.
LEMMA EmitNames ==
  ASSUME chunks \in Nat, Named(chat.calls), latest = "tool_use" => chat.calls # <<>>, NEW shape \in Shapes, Emit(shape)
  PROVE  /\ Named(chat'.calls) /\ (latest' = "tool_use" => chat'.calls # <<>>)
         /\ \A k, i : (latest = "tool_use" => GoesOn(k, i, Len(chat.calls) - 1))
                => Continues(Pieces(Chunk(shape)), k, i, latest', Len(chat'.calls))
  <1> DEFINE chunk == Chunk(shape)
             made == MergeToolCalls(chat.calls, chunk.calls)
             s == shape.calls
  <1>1. Possible(shape) /\ latest' = (IF s # <<>> THEN "tool_use" ELSE Before(shape)) /\ chat'.calls = made
    BY DEF Emit, ChatMerge
  <1>2. Named(made) /\ Len(made) = Len(chat.calls) + Begun(s, Len(s)) /\ (s # <<>> => made # <<>>)
    BY <1>1, ChunkNamed
  <1>3. chat.calls \in Seq(CallSet)
    BY DEF Named, Numbered
  <1>4. ASSUME NEW k, NEW i, latest = "tool_use" => GoesOn(k, i, Len(chat.calls) - 1)
        PROVE  Continues(Pieces(Chunk(shape)), k, i, latest', Len(chat'.calls))
    <2>1. Continues(Pieces(Chunk(shape)), k, i, IF s # <<>> THEN "tool_use" ELSE Before(shape),
                    Len(chat.calls) + Begun(s, Len(s)))
      BY <1>1, <1>3, <1>4, ChunkContinues
    <2> HIDE DEF made
    <2> QED BY <1>1, <1>2, <2>1
  <1>5. ASSUME latest' = "tool_use" PROVE made # <<>>
    <2>1. CASE s # <<>>
      BY <1>2, <2>1
    <2>2. CASE s = <<>>
      <3>1. latest = "tool_use"
        BY <1>1, <1>5, <2>2 DEF Before
      <3>2. Len(chat.calls) \in Nat /\ Len(chat.calls) # 0
        BY <1>3, <3>1, LenProperties, EmptySeq
      <3>3. s \in Seq(Marks) /\ Len(s) = 0 /\ Begun(s, 0) = 0
        <4>1. s \in Seq(Marks) /\ Len(<<>>) = 0
          BY <1>3, ChunkTypes
        <4> QED BY <2>2, <4>1, BegunCounts
      <3>4. Len(made) = Len(chat.calls) + 0
        BY <1>2, <3>3
      <3>5. Len(<<>>) = 0
        OBVIOUS
      <3> HIDE DEF made
      <3> QED BY <3>2, <3>4, <3>5
    <2> QED BY <2>1, <2>2
  <1> HIDE DEF made
  <1> QED BY <1>1, <1>2, <1>4, <1>5

\* A block that begins has an id where it is a call.
LEMMA StartNames ==
  ASSUME Held, message = Fields(message), StartBlock, NEW l, NEW n,
         Continues(todo, kind, toolIndex, l, n), BlocksNamed(message.blocks)
  PROVE  Continues(todo', kind', toolIndex', l, n) /\ BlocksNamed(message'.blocks)
  <1> DEFINE c == message.blocks
             h == Head(todo)
             new == [kind |-> h.kind, id |-> h.id, data |-> <<>>]
  <1>1. todo # <<>> /\ todo \in Seq(PieceSet) /\ h \in PieceSet
    <2>1. todo # <<>> /\ todo \in Seq(PieceSet)
      BY DEF StartBlock, StartsBlock, Held
    <2> QED BY <2>1, HeadFirst
  <1>2. h.kind \in Kinds /\ h.id \in Nat \cup {Nil}
    BY <1>1 DEF PieceSet
  <1>3. c \in Seq(Blocks) /\ Len(c) = blockIndex + 1 /\ Len(c) \in Nat
    BY LenProperties DEF Held
  <1>4. new \in Blocks /\ message'.blocks = Append(c, new)
    <2>1. message' = ClaudeMerge(message, BlockStarted(blockIndex + 1, h.kind, h.id))
      BY DEF StartBlock, Send
    <2> DEFINE k == h.kind
               id == h.id
               next == blockIndex + 1
    <2>2. next + 1 = Len(message.blocks) + 1
      BY <1>3
    <2>3. k \in Kinds /\ id \in Nat \cup {Nil} /\ message' = ClaudeMerge(message, BlockStarted(next, k, id))
      BY <1>2, <2>1
    <2> HIDE DEF k, id, next
    <2>4. LET b == [kind |-> k, id |-> id, data |-> <<>>]
          IN  b \in Blocks /\ ClaudeMerge(message, BlockStarted(next, k, id)).blocks = Append(message.blocks, b)
      BY <1>3, <2>2, <2>3, BlockComes
    <2> QED BY <2>3, <2>4 DEF k, id
  <1>5. h = todo[1]
    BY <1>1, HeadTailProperties
  <1>6. ~Nameless(h)
    <2> SUFFICES ASSUME Nameless(h) PROVE FALSE
      OBVIOUS
    <2>1. GoesOn(kind, toolIndex, h.index) /\ h.kind = "tool_use"
      BY <1>1, <1>5 DEF Continues, Nameless
    <2>2. kind \in {Nil, "text"} \/ (kind = "tool_use" /\ toolIndex # h.index)
      BY <2>1 DEF StartBlock, StartsBlock, Held, NeedsBlock
    <2>3. Nil \notin {"thinking", "tool_use"}
      BY NilAssumption DEF Kinds
    <2> QED BY <2>1, <2>2, <2>3 DEF GoesOn
  <1>7. todo' = todo /\ Continues(todo, kind', toolIndex', l, n)
    BY <1>1, <1>5, <1>6 DEF Continues, StartBlock, converter
  <1>8. BlocksNamed(Append(c, new))
    <2>0. Append(c, new) \in Seq(Blocks)
      BY <1>3, <1>4, AppendProperties
    <2> SUFFICES ASSUME NEW j \in 1 .. Len(Append(c, new)), Append(c, new)[j].kind = "tool_use"
                 PROVE  Append(c, new)[j].id # Nil
      BY <2>0 DEF BlocksNamed
    <2>1. Len(Append(c, new)) = Len(c) + 1 /\ Append(c, new)[Len(c) + 1] = new
          /\ \A a \in 1 .. Len(c) : Append(c, new)[a] = c[a]
      BY <1>3, <1>4, AppendProperties
    <2>2. new.kind = h.kind /\ new.id = h.id
      OBVIOUS
    <2> HIDE DEF new, c, h
    <2>3. CASE j \in 1 .. Len(c)
      BY <2>1, <2>3 DEF BlocksNamed, c
    <2>4. CASE j = Len(c) + 1
      BY <1>6, <2>1, <2>2, <2>4 DEF Nameless
    <2> QED BY <1>3, <2>1, <2>3, <2>4
  <1> QED BY <1>4, <1>7, <1>8

\* A piece keeps the ids of the blocks.
LEMMA TakeNames ==
  ASSUME Held, message = Fields(message), SendDelta \/ NoDelta, NEW l, NEW n,
         Continues(todo, kind, toolIndex, l, n), BlocksNamed(message.blocks)
  PROVE  Continues(todo', kind', toolIndex', l, n) /\ BlocksNamed(message'.blocks)
  <1> DEFINE c == message.blocks
             h == Head(todo)
  <1>1. /\ todo # <<>> /\ todo \in Seq(PieceSet) /\ kind # Nil /\ ~NeedsBlock(h)
        /\ todo' = Tail(todo) /\ kind' = kind /\ toolIndex' = toolIndex
    BY DEF SendDelta, NoDelta, InBlock, Held
  <1>2. c \in Seq(Blocks) /\ c # <<>> /\ LastBlock.kind = kind /\ Len(c) \in Nat
    BY <1>1, LenProperties DEF Held
  <1>3. PICK front \in Seq(Blocks), last \in Blocks : c = Append(front, last)
    BY <1>2, SequenceEmptyOrAppend
  <1>4. /\ Len(front) \in Nat /\ Len(c) = Len(front) + 1 /\ c[Len(front) + 1] = last
        /\ \A a \in 1 .. Len(front) : c[a] = front[a]
    BY <1>3, AppendProperties, LenProperties
  <1>5. kind \in Kinds
    <2>1. LastBlock = last
      <3> HIDE DEF c
      <3> QED BY <1>4 DEF LastBlock, c
    <2> QED BY <1>2, <2>1 DEF Blocks
  <1>6. h.kind = "tool_use" => GoesOn(kind, toolIndex, h.index)
    BY <1>1, <1>5 DEF NeedsBlock, GoesOn, Kinds
  <1>7. Continues(Tail(todo), kind, toolIndex, l, n)
    BY <1>1, <1>6, ContinuesBehind
  <1>8. PICK more : Takes(last, h, more) /\ message'.blocks = Append(front, more)
    BY <1>3, PieceTaken
  <1>9. more \in Blocks /\ more.kind = last.kind /\ more.id = last.id
    BY <1>8 DEF Takes
  <1>10. BlocksNamed(Append(front, more))
    <2>0. Append(front, more) \in Seq(Blocks)
      BY <1>9, AppendProperties
    <2> SUFFICES ASSUME NEW j \in 1 .. Len(Append(front, more)), Append(front, more)[j].kind = "tool_use"
                 PROVE  Append(front, more)[j].id # Nil
      BY <2>0 DEF BlocksNamed
    <2>1. Len(Append(front, more)) = Len(front) + 1 /\ Append(front, more)[Len(front) + 1] = more
          /\ \A a \in 1 .. Len(front) : Append(front, more)[a] = front[a]
      BY <1>9, AppendProperties
    <2>2. \A a \in 1 .. Len(c) : c[a].kind = "tool_use" => c[a].id # Nil
      BY DEF BlocksNamed
    <2> HIDE DEF c
    <2>3. CASE j \in 1 .. Len(front)
      BY <1>4, <2>1, <2>2, <2>3
    <2>4. CASE j = Len(front) + 1
      BY <1>4, <1>9, <2>1, <2>2, <2>4
    <2> QED BY <1>4, <2>1, <2>3, <2>4
  <1> QED BY <1>1, <1>7, <1>8, <1>10

\* Leaving out the calls without a function keeps what they are.
LEMMA WithFunctionKeeps ==
  ASSUME NEW K, NEW calls \in Seq(K), K \subseteq CallSet
  PROVE  WithFunction(calls) \in Seq(K)
  <1> DEFINE F == {x \in K : x.hasFunc}
  <1>1. \A i \in DOMAIN calls : calls[i] \in K
    BY LenProperties, ElementOfSeq
  <1>2. Marked(calls, F) = [i \in DOMAIN calls |-> IF calls[i].hasFunc THEN <<calls[i]>> ELSE <<>>]
    BY <1>1 DEF Marked
  <1>3. WithFunction(calls) = Picked(calls, F)
    <2>1. WithFunction(calls) = Concat([i \in DOMAIN calls |-> IF calls[i].hasFunc THEN <<calls[i]>> ELSE <<>>])
      BY DEF WithFunction, Selected
    <2> QED BY <1>2, <2>1 DEF Picked
  <1>4. Picked(calls, F) \in Seq(K \cap F)
    <2> HIDE DEF F
    <2> QED BY PickedType
  <1>5. K \cap F \subseteq K
    OBVIOUS
  <1> HIDE DEF F
  <1> QED BY <1>3, <1>4, <1>5

\* The calls of a whole answer have their ids.
LEMMA WholeNames ==
  ASSUME Named(chat.calls), chat.thinking \in Data \cup {Nil}, chat.text \in Data \cup {Nil}
  PROVE  BlocksNamed(WholeContent(chat))
  <1> DEFINE first == IF chat.thinking # Nil THEN <<[kind |-> "thinking", id |-> Nil, data |-> chat.thinking]>> ELSE <<>>
             second == IF chat.text \notin {Nil, <<>>} THEN <<[kind |-> "text", id |-> Nil, data |-> chat.text]>> ELSE <<>>
             calls == WithFunction(chat.calls)
             third == [i \in DOMAIN calls |-> [kind |-> "tool_use", id |-> calls[i].id, data |-> calls[i].args]]
             Good == {b \in Blocks : b.kind = "tool_use" => b.id # Nil}
             Fine == {call \in CallSet : call.id # Nil}
  <1>1. chat.calls \in Seq(Fine)
    <2>1. chat.calls \in Seq(CallSet) /\ \A i \in 1 .. Len(chat.calls) : chat.calls[i].id # Nil
      BY DEF Named, Numbered
    <2>2. \A i \in 1 .. Len(chat.calls) : chat.calls[i] \in Fine
      BY <2>1, ElementOfSeq
    <2> HIDE DEF Fine
    <2>3. chat.calls \in [1 .. Len(chat.calls) -> Fine]
      BY <2>1, <2>2, LenProperties
    <2> QED BY <2>1, <2>3, LenProperties, IsSequence
  <1>2. calls \in Seq(Fine)
    <2>1. Fine \subseteq CallSet
      OBVIOUS
    <2> HIDE DEF Fine
    <2> QED BY <1>1, <2>1, WithFunctionKeeps
  <1>3. ASSUME NEW k \in {"thinking", "text"}, NEW x \in Data PROVE <<[kind |-> k, id |-> Nil, data |-> x]>> \in Seq(Good)
    <2>1. [kind |-> k, id |-> Nil, data |-> x] \in Good
      BY <1>3 DEF Blocks, Kinds
    <2> HIDE DEF Good
    <2> QED BY <2>1
  <1>4. ASSUME NEW call \in Fine PROVE [kind |-> "tool_use", id |-> call.id, data |-> call.args] \in Good
    BY <1>4 DEF Blocks, Kinds, CallSet
  <1> HIDE DEF Good, Fine
  <1>5. first \in Seq(Good)
    <2>1. CASE chat.thinking = Nil
      BY <2>1, EmptySeq
    <2>2. CASE chat.thinking # Nil
      BY <1>3, <2>2
    <2> QED BY <2>1, <2>2
  <1>6. second \in Seq(Good)
    <2>1. CASE chat.text \in {Nil, <<>>}
      BY <2>1, EmptySeq
    <2>2. CASE chat.text \notin {Nil, <<>>}
      BY <1>3, <2>2
    <2> QED BY <2>1, <2>2
  <1>7. third \in Seq(Good)
    <2> HIDE DEF calls
    <2>1. DOMAIN calls = 1 .. Len(calls) /\ Len(calls) \in Nat
      BY <1>2, LenProperties
    <2>2. ASSUME NEW i \in 1 .. Len(calls) PROVE third[i] \in Good
      <3>1. calls[i] \in Fine
        BY <1>2, <2>1, ElementOfSeq
      <3>2. third[i] = [kind |-> "tool_use", id |-> calls[i].id, data |-> calls[i].args]
        BY <2>1
      <3> QED BY <1>4, <3>1, <3>2
    <2>3. DOMAIN third = 1 .. Len(calls) /\ third = [i \in 1 .. Len(calls) |-> third[i]]
      BY <2>1
    <2> HIDE DEF third
    <2>4. third \in [1 .. Len(calls) -> Good]
      BY <2>2, <2>3
    <2> QED BY <2>1, <2>4, IsSequence
  <1>8. WholeContent(chat) = (first \o second) \o third
    BY DEF WholeContent
  <1> HIDE DEF first, second, third
  <1>9. WholeContent(chat) \in Seq(Good)
    BY <1>5, <1>6, <1>7, <1>8, ConcatProperties
  <1> DEFINE c == WholeContent(chat)
  <1>10. ASSUME NEW i \in 1 .. Len(c) PROVE c[i] \in Good
    <2> HIDE DEF c
    <2> QED BY <1>9, ElementOfSeq DEF c
  <1>11. Len(c) \in Nat /\ DOMAIN c = 1 .. Len(c)
    BY <1>9, LenProperties
  <1> HIDE DEF c
  <1>12. \A i \in 1 .. Len(c) : c[i] \in Blocks /\ (c[i].kind = "tool_use" => c[i].id # Nil)
    BY <1>10 DEF Good
  <1>13. c \in [1 .. Len(c) -> Blocks]
    <2>1. c = [i \in 1 .. Len(c) |-> c[i]]
      BY <1>9, <1>11 DEF c
    <2> QED BY <1>12, <2>1
  <1>14. c \in Seq(Blocks)
    BY <1>11, <1>13, IsSequence
  <1> QED BY <1>12, <1>14 DEF BlocksNamed, c

\* Before a request there are no calls.
LEMMA InitNamesCalls == Init => NamesCalls
  <1> SUFFICES ASSUME Init PROVE NamesCalls
    OBVIOUS
  <1>1. /\ chat = NoChat /\ mode = "new" /\ done = FALSE /\ at = "receive" /\ kind = Nil
        /\ todo = <<>> /\ sent = Plain("none") /\ message = NoMessage /\ latest = Nil
    BY Zenon DEF Init
  <1>2. chat.calls = <<>> /\ message.blocks = <<>>
    BY <1>1 DEF NoChat, NoMessage
  <1>3. latest # "tool_use"
    BY <1>1, NilAssumption DEF Kinds
  <1>4. Len(<<>>) = 0 /\ 1 .. 0 = {} /\ 2 .. 0 = {}
    OBVIOUS
  <1>5. Named(chat.calls)
    BY <1>2, <1>4, EmptySeq DEF Named, Numbered
  <1>6. BlocksNamed(message.blocks)
    BY <1>2, <1>4, EmptySeq DEF BlocksNamed
  <1>7. Continues(todo, kind, toolIndex, latest, Len(chat.calls))
    BY <1>1, <1>3, <1>4 DEF Continues
  <1> QED BY <1>1, <1>3, <1>5, <1>6, <1>7 DEF NamesCalls

\* The steps of the goroutine before [DONE].
LEMMA NextContinues ==
  ASSUME TellsTheEnd, LosesNothing, NamesCalls, [Next]_vars, Converting'
  PROVE  Continues(todo', kind', toolIndex', latest', Len(chat'.calls)) /\ BlocksNamed(message'.blocks)
  <1> USE DEF client, upstream, converter, reader
  <1>1. message = Fields(message) /\ (mode = "plain" => at \in {"receive", "over", "again"})
        /\ (mode = "new" => at = "receive")
    BY DEF TellsTheEnd
  <1>2. Converting => /\ Held /\ Continues(todo, kind, toolIndex, latest, Len(chat.calls))
                      /\ BlocksNamed(message.blocks)
    BY DEF LosesNothing, Converting, NamesCalls
  <1>3. CASE UNCHANGED vars \/ AllOver
    <2>1. UNCHANGED vars
      BY <1>3 DEF AllOver
    <2>2. Converting
      BY <2>1 DEF Converting, vars
    <2>3. UNCHANGED <<kind, toolIndex, todo, chat, latest, message>>
      BY <2>1 DEF vars
    <2> QED BY <1>2, <2>2, <2>3
  <1>4. CASE Ask
    <2>1. Converting
      BY <1>1, <1>4 DEF Ask, Converting
    <2>2. UNCHANGED <<kind, toolIndex, todo, chat, latest, message>>
      BY <1>4 DEF Ask
    <2> QED BY <1>2, <2>1, <2>2
  <1>5. ASSUME NEW shape \in Shapes, Receive(shape)
        PROVE  Continues(todo', kind', toolIndex', latest', Len(chat'.calls)) /\ BlocksNamed(message'.blocks)
    <2>1. Converting /\ at = "receive"
      BY <1>5 DEF Receive, Converting
    <2>2. Held /\ Continues(todo, kind, toolIndex, latest, Len(chat.calls)) /\ BlocksNamed(message.blocks) /\ todo = <<>>
      BY <1>2, <2>1 DEF Held
    <2>3. latest = "tool_use" => GoesOn(kind, toolIndex, Len(chat.calls) - 1)
      BY <2>2 DEF Continues
    <2>4. Emit(shape) /\ UNCHANGED <<kind, toolIndex, message>> /\ todo' = Pieces(Chunk(shape))
      BY <1>5 DEF Receive
    <2>5. chunks \in Nat /\ Named(chat.calls) /\ (latest = "tool_use" => chat.calls # <<>>)
      BY DEF NamesCalls, LosesNothing
    <2>6. Continues(Pieces(Chunk(shape)), kind, toolIndex, latest', Len(chat'.calls))
      BY <2>3, <2>4, <2>5, EmitNames
    <2> QED BY <2>2, <2>4, <2>6
  <1>6. ASSUME NEW shape \in Shapes, PlainMore(shape) PROVE FALSE
    BY <1>6 DEF PlainMore, Converting
  <1>7. CASE Unparsable
    <2>1. Converting
      BY <1>7 DEF Unparsable, Converting
    <2>2. UNCHANGED <<kind, toolIndex, todo, chat, latest, message>>
      BY <1>7 DEF Unparsable
    <2> QED BY <1>2, <2>1, <2>2
  <1>8. CASE ReceiveDone \/ Leave \/ Panic \/ LastStop \/ SendReason \/ SendStop \/ Drop \/ Cancel
             \/ PlainAnswer \/ PlainError \/ NextTurn
    BY <1>8 DEF ReceiveDone, Leave, Panic, LastStop, SendReason, SendStop, Drop, Cancel, PlainAnswer, PlainError,
                NextTurn, Converting, Send
  <1>9. CASE SendStart \/ ChunkDone \/ StopBlock
    <2>1. Converting /\ UNCHANGED <<kind, toolIndex, todo, chat, latest>>
      BY <1>9 DEF SendStart, ChunkDone, StopBlock, Send, Converting
    <2>2. message'.blocks = message.blocks
      BY <1>1, <1>9, BlocksKept, EventNames DEF SendStart, ChunkDone, StopBlock
    <2> QED BY <1>2, <2>1, <2>2
  <1>10. CASE StartBlock
    <2>1. Converting /\ UNCHANGED <<chat, latest>>
      BY <1>10 DEF StartBlock, StartsBlock, Send, Converting
    <2> QED BY <1>1, <1>2, <1>10, <2>1, StartNames
  <1>11. CASE SendDelta \/ NoDelta
    <2>1. Converting /\ UNCHANGED <<chat, latest>>
      BY <1>11 DEF SendDelta, NoDelta, InBlock, Send, Converting
    <2> QED BY <1>1, <1>2, <1>11, <2>1, TakeNames
  <1> QED BY <1>3, <1>4, <1>5, <1>6, <1>7, <1>8, <1>9, <1>10, <1>11 DEF Next

\* The steps at the end of the message.
LEMMA NextEndNamed ==
  ASSUME TellsTheEnd, LosesNothing, NamesCalls, [Next]_vars, AtEnd' PROVE BlocksNamed(message'.blocks)
  <1> USE DEF client, upstream, converter, reader
  <1>1. /\ message = Fields(message) /\ (mode = "plain" => at \in {"receive", "over", "again"})
        /\ (mode = "new" => at = "receive")
    BY DEF TellsTheEnd
  <1>2. /\ AtEnd \/ Converting => BlocksNamed(message.blocks)
        /\ at \notin {"over", "again"} => sent.type # "message_stop" /\ ~(mode = "plain" /\ done)
        /\ mode = "new" => ~done
    BY DEF LosesNothing, AtEnd, NamesCalls
  <1>3. CASE UNCHANGED vars \/ AllOver
    <2>1. AtEnd /\ message' = message
      BY <1>3 DEF AllOver, vars, AtEnd, HasEnded
    <2> QED BY <1>2, <2>1
  <1>4. CASE Ask
    BY <1>1, <1>2, <1>4 DEF Ask, AtEnd, HasEnded
  <1>5. ASSUME NEW shape \in Shapes, Receive(shape) \/ PlainMore(shape) PROVE FALSE
    BY <1>2, <1>5 DEF Receive, PlainMore, Emit, AtEnd, HasEnded
  <1>6. CASE ReceiveDone
    <2>1. Converting /\ message' = message
      BY <1>6 DEF ReceiveDone, Converting
    <2> QED BY <1>2, <2>1
  <1>7. CASE Unparsable \/ Leave \/ SendStart \/ ChunkDone \/ StopBlock \/ StartBlock \/ Panic \/ SendDelta \/ NoDelta
    <2>1. at \notin {"over", "again", "finish", "stop"} /\ at' \notin {"finish", "stop"} /\ mode # "plain" /\ mode' = mode
      BY <1>1, <1>7 DEF Unparsable, Leave, SendStart, ChunkDone, StopBlock, StartBlock, StartsBlock, Panic, SendDelta,
                        NoDelta, InBlock
    <2>2. sent' = sent \/ sent'.type # "message_stop"
      BY <1>7, EventNames DEF Unparsable, Leave, SendStart, ChunkDone, StopBlock, StartBlock, Panic, SendDelta, NoDelta, Send
    <2> QED BY <1>2, <2>1, <2>2 DEF AtEnd, HasEnded
  <1>8. CASE LastStop \/ SendReason \/ SendStop
    <2>1. AtEnd
      BY <1>8 DEF LastStop, SendReason, SendStop, AtEnd
    <2>2. message'.blocks = message.blocks
      BY <1>1, <1>8, OtherEvents, EventNames DEF LastStop, SendReason, SendStop, Send
    <2> QED BY <1>2, <2>1, <2>2
  <1>9. CASE Drop \/ Cancel
    <2>1. /\ at \notin {"over", "again"} /\ UNCHANGED <<mode, done, sent, message>>
          /\ at' \in {"finish", "stop"} => at \in {"finish", "stop"}
      BY <1>9 DEF Drop, Cancel
    <2>2. AtEnd
      BY <1>2, <2>1 DEF AtEnd, HasEnded
    <2> QED BY <1>2, <2>1, <2>2
  <1>10. CASE PlainAnswer
    <2>1. message'.blocks = WholeContent(chat)
      BY <1>10 DEF PlainAnswer, ConvertedWhole
    <2>2. Named(chat.calls) /\ chat.thinking \in Data \cup {Nil} /\ chat.text \in Data \cup {Nil}
      BY DEF NamesCalls, LosesNothing
    <2> QED BY <2>1, <2>2, WholeNames
  <1>11. CASE PlainError
    BY <1>2, <1>11 DEF PlainError, AtEnd, HasEnded
  <1>12. CASE NextTurn
    <2>1. AtEnd /\ message' = message
      BY <1>12 DEF NextTurn, AtEnd
    <2> QED BY <1>2, <2>1
  <1> QED BY <1>3, <1>4, <1>5, <1>6, <1>7, <1>8, <1>9, <1>10, <1>11, <1>12 DEF Next

\* Every step keeps the calls numbered and named.
LEMMA NextNamesCalls == ASSUME TellsTheEnd, LosesNothing, NamesCalls, [Next]_vars PROVE NamesCalls'
  <1> USE DEF client, upstream, converter, reader
  <1>1. /\ mode = "plain" => at \in {"receive", "over", "again"}
        /\ mode = "new" => at = "receive"
    BY DEF TellsTheEnd
  <1>2. (mode # "new" => asked \in Asks)'
    BY DEF NamesCalls, vars, Next, Ask, Receive, PlainMore, Unparsable, ReceiveDone, Leave, SendStart, ChunkDone,
           StopBlock, StartBlock, Panic, SendDelta, NoDelta, LastStop, SendReason, SendStop, Drop, Cancel,
           PlainAnswer, PlainError, NextTurn, AllOver
  <1>3. Named(chat'.calls) /\ (latest' = "tool_use" => chat'.calls # <<>>)
    <2>1. chunks \in Nat /\ Named(chat.calls) /\ (latest = "tool_use" => chat.calls # <<>>)
      BY DEF NamesCalls, LosesNothing
    <2>2. ASSUME NEW shape \in Shapes, Receive(shape) \/ PlainMore(shape)
          PROVE  Named(chat'.calls) /\ (latest' = "tool_use" => chat'.calls # <<>>)
      <3>1. Emit(shape)
        BY <2>2 DEF Receive, PlainMore
      <3> QED BY <2>1, <3>1, EmitNames
    <2>3. \/ UNCHANGED <<chat, latest>>
          \/ \E shape \in Shapes : Receive(shape) \/ PlainMore(shape)
      BY DEF vars, Next, Ask, Unparsable, ReceiveDone, Leave, SendStart, ChunkDone, StopBlock, StartBlock, Panic,
             SendDelta, NoDelta, LastStop, SendReason, SendStop, Drop, Cancel, PlainAnswer, PlainError, NextTurn, AllOver
    <2> QED BY <2>1, <2>2, <2>3
  <1>4. Converting' => Continues(todo', kind', toolIndex', latest', Len(chat'.calls)) /\ BlocksNamed(message'.blocks)
    BY NextContinues
  <1>5. AtEnd' => BlocksNamed(message'.blocks)
    BY NextEndNamed
  <1>6. ASSUME at' = "again" PROVE HasEnded' /\ mode' # "new" /\ Turned'
    <2>1. CASE at = "again"
      <3>1. UNCHANGED vars
        BY <1>1, <2>1 DEF Next, Ask, Receive, PlainMore, Unparsable, ReceiveDone, Leave, SendStart, ChunkDone,
             StopBlock, StartBlock, StartsBlock, Panic, SendDelta, NoDelta, InBlock, LastStop, SendReason, SendStop, Drop,
             Cancel, PlainAnswer, PlainError, NextTurn, AllOver
      <3>2. HasEnded /\ mode # "new" /\ Turned
        BY <2>1 DEF NamesCalls
      <3>3. HasEnded' /\ mode' # "new"
        BY <3>1, <3>2 DEF vars, HasEnded
      <3>4. Turned'
        BY <3>1, <3>2 DEF vars, Turned, History
      <3> QED BY <3>3, <3>4
    <2>2. CASE at # "again"
      <3>1. NextTurn
        BY <1>6, <2>2 DEF vars, Next, Ask, Receive, PlainMore, Unparsable, ReceiveDone, Leave, SendStart, ChunkDone,
             StopBlock, StartBlock, Panic, SendDelta, NoDelta, LastStop, SendReason, SendStop, Drop,
             Cancel, PlainAnswer, PlainError, AllOver
      <3>2. HasEnded' /\ mode' # "new"
        BY <1>1, <3>1 DEF NextTurn, HasEnded
      <3>3. Turned'
        BY <3>1 DEF NextTurn, Turned, History
      <3> QED BY <3>2, <3>3
    <2> QED BY <2>1, <2>2
  <1> QED BY <1>2, <1>3, <1>4, <1>5, <1>6 DEF NamesCalls, Converting, AtEnd

-----------------------------------------------------------------------------
(* A request upstream: its messages, and how it ends in the next turn.     *)

BlockSet == [kind : STRING \cup Kinds \cup {"tool_result"}, id : Nat \cup {Nil}, data : Data]
Roles == {"system", "user", "assistant", "tool"}
TurnSet == [role : STRING \cup Roles, content : Seq(BlockSet)]
UseSet == [index : Int, id : Nat \cup {Nil}, args : Data]
PartSet == STRING \cup Data
MessageSet == [role : Roles, parts : Seq(PartSet), calls : Seq(UseSet), answers : Nat \cup {Nil}]

\* A list of some is one of more.
LEMMA WiderList == ASSUME NEW A, NEW B, A \subseteq B, NEW s \in Seq(A) PROVE s \in Seq(B)
  <1>1. Len(s) \in Nat /\ s \in [1 .. Len(s) -> A]
    BY LenProperties
  <1>2. s \in [1 .. Len(s) -> B]
    BY <1>1
  <1> QED BY <1>1, <1>2, IsSequence

\* Texts and data are parts.
LEMMA PartLists == Seq(STRING) \subseteq Seq(PartSet) /\ Seq(Data) \subseteq Seq(PartSet)
  <1>1. STRING \subseteq PartSet /\ Data \subseteq PartSet
    BY DEF PartSet
  <1> QED BY <1>1, WiderList

\* The fields of a message.
LEMMA MessageFields ==
  \A role, parts, calls, answers :
     LET m == Message(role, parts, calls, answers)
     IN  /\ m.role = role /\ m.parts = parts /\ m.calls = calls /\ m.answers = answers
         /\ role \in Roles /\ parts \in Seq(PartSet) /\ calls \in Seq(UseSet) /\ answers \in Nat \cup {Nil}
               => m \in MessageSet
BY DEF Message, MessageSet
\* The roles.
LEMMA RolesKnown == "system" \in Roles /\ "user" \in Roles /\ "assistant" \in Roles /\ "tool" \in Roles
BY DEF Roles
\* One part is a list.
LEMMA OnePart == \A x \in PartSet : <<x>> \in Seq(PartSet)
OBVIOUS

\* A list made of the elements of another.
LEMMA ListOf ==
  ASSUME NEW A, NEW B, NEW s \in Seq(A), NEW t, DOMAIN t = DOMAIN s, t = [i \in DOMAIN t |-> t[i]],
         \A i \in DOMAIN s : t[i] \in B
  PROVE  t \in Seq(B) /\ Len(t) = Len(s)
  <1>1. Len(s) \in Nat /\ DOMAIN s = 1 .. Len(s)
    BY LenProperties
  <1>2. t \in [1 .. Len(s) -> B]
    BY <1>1
  <1> QED BY <1>1, <1>2, IsSequence

\* The messages of the system prompt.
LEMMA SystemType == ASSUME NEW system \in Seq(STRING) PROVE System(system) \in Seq(MessageSet)
  <1> DEFINE kept == IF system # <<>> /\ Head(system) = "billing" THEN Tail(system) ELSE system
             t == [i \in DOMAIN kept |-> Message("system", <<kept[i]>>, <<>>, Nil)]
  <1>1. kept \in Seq(STRING)
    BY HeadTailProperties
  <1>2. System(system) = t
    BY DEF System
  <1> HIDE DEF kept
  <1>3. ASSUME NEW i \in DOMAIN kept PROVE t[i] \in MessageSet
    <2>1. kept[i] \in STRING
      BY <1>1, <1>3, LenProperties, ElementOfSeq
    <2>2. <<kept[i]>> \in Seq(PartSet) /\ <<>> \in Seq(UseSet)
      <3>1. kept[i] \in PartSet
        BY <2>1 DEF PartSet
      <3> QED BY <3>1, EmptySeq, OnePart
    <2> DEFINE text == <<kept[i]>>
    <2> HIDE DEF text
    <2>3. Message("system", text, <<>>, Nil) \in MessageSet
      BY <2>2, MessageFields, RolesKnown DEF text
    <2> QED BY <2>3 DEF text
  <1>4. DOMAIN t = DOMAIN kept /\ t = [i \in DOMAIN t |-> t[i]]
    OBVIOUS
  <1> HIDE DEF t
  <1> QED BY <1>1, <1>2, <1>3, <1>4, ListOf

\* The messages of results.
ToolMessages(results) ==
    [i \in DOMAIN results |-> Message("tool", <<results[i].data>>, <<>>, results[i].id)]
\* Each answers the call of its result.
LEMMA ToolMessagesAre ==
  ASSUME NEW results \in Seq(BlockSet)
  PROVE  LET t == ToolMessages(results)
         IN  /\ t \in Seq(MessageSet) /\ Len(t) = Len(results)
             /\ \A i \in 1 .. Len(results) : t[i].role = "tool" /\ t[i].answers = results[i].id
  <1> DEFINE t == ToolMessages(results)
  <1>1. Len(results) \in Nat /\ DOMAIN results = 1 .. Len(results)
        /\ \A i \in 1 .. Len(results) : results[i] \in BlockSet
    BY LenProperties, ElementOfSeq
  <1>2. DOMAIN t = DOMAIN results /\ t = [i \in DOMAIN t |-> t[i]]
        /\ \A i \in DOMAIN results : t[i] = Message("tool", <<results[i].data>>, <<>>, results[i].id)
    BY DEF ToolMessages
  <1> HIDE DEF t
  <1>3. ASSUME NEW i \in DOMAIN results
        PROVE  t[i] \in MessageSet /\ t[i].role = "tool" /\ t[i].answers = results[i].id
    <2>1. results[i].data \in Data /\ results[i].id \in Nat \cup {Nil}
      BY <1>1 DEF BlockSet
    <2> DEFINE text == <<results[i].data>>
               id == results[i].id
    <2>2. text \in Seq(PartSet) /\ <<>> \in Seq(UseSet) /\ id \in Nat \cup {Nil}
      <3>1. results[i].data \in PartSet
        BY <2>1 DEF PartSet
      <3> QED BY <2>1, <3>1, EmptySeq, OnePart
    <2> DEFINE none == <<>>
    <2>5. none \in Seq(UseSet)
      BY EmptySeq
    <2>3. t[i] = Message("tool", text, none, id)
      BY <1>2
    <2> HIDE DEF text, id, none
    <2>4. t[i] \in MessageSet /\ t[i].role = "tool" /\ t[i].answers = id
      BY <2>2, <2>3, <2>5, MessageFields, RolesKnown
    <2> QED BY <2>4 DEF id
  <1>4. t \in Seq(MessageSet) /\ Len(t) = Len(results)
    BY <1>2, <1>3, ListOf
  <1> QED BY <1>1, <1>3, <1>4 DEF t

\* The results of a message that have an id.
Answers == {b \in BlockSet : b.kind = "tool_result" /\ b.id # Nil}
\* They are what UserMessages selects.
LEMMA ResultsArePicked ==
  ASSUME NEW c \in Seq(BlockSet)
  PROVE  /\ Selected(c, LAMBDA b : b.kind = "tool_result" /\ b.id # Nil) = Picked(c, Answers)
         /\ Picked(c, Answers) \in Seq(BlockSet)
  <1>1. \A i \in DOMAIN c : c[i] \in BlockSet
    BY LenProperties, ElementOfSeq
  <1>2. Marked(c, Answers) = [i \in DOMAIN c |-> IF c[i].kind = "tool_result" /\ c[i].id # Nil THEN <<c[i]>> ELSE <<>>]
    BY <1>1 DEF Marked, Answers
  <1>3. Picked(c, Answers) \in Seq(BlockSet)
    <2>1. Picked(c, Answers) \in Seq(BlockSet \cap Answers)
      BY PickedType
    <2>2. BlockSet \cap Answers \subseteq BlockSet
      OBVIOUS
    <2> QED BY <2>1, <2>2
  <1> QED BY <1>2, <1>3 DEF Selected, Picked

\* What becomes of a user's message: results, and behind them the rest.
LEMMA UserMessagesAre ==
  ASSUME NEW c \in Seq(BlockSet)
  PROVE  LET t == ToolMessages(Picked(c, Answers))
         IN  /\ t \in Seq(MessageSet) /\ UserMessages(c) \in Seq(MessageSet)
             /\ \/ UserMessages(c) = t
                \/ \E m \in MessageSet : m.role = "user" /\ UserMessages(c) = Append(t, m)
  <1> DEFINE t == ToolMessages(Picked(c, Answers))
             u == Only(c, {"text", "image"})
             parts == DataOf(u)
             m == Message("user", parts, <<>>, Nil)
             rest == IF parts # <<>> THEN <<m>> ELSE <<>>
  <1>1. t \in Seq(MessageSet)
    BY ResultsArePicked, ToolMessagesAre
  <1>2. UserMessages(c) = t \o rest
    BY ResultsArePicked DEF UserMessages, ToolMessages
  <1>3. parts \in Seq(Data)
    <2> DEFINE K == {a \in BlockSet : a.kind \in {"text", "image"}}
    <2>1. u \in Seq(K)
      BY OnlyType
    <2>2. \A a \in K : a.data \in Data
      BY DEF BlockSet
    <2> HIDE DEF K, u
    <2> QED BY <2>1, <2>2, DataOfList
  <1> HIDE DEF parts
  <1>4. m \in MessageSet /\ m.role = "user"
    <2> DEFINE none == <<>>
    <2>1. none \in Seq(UseSet)
      BY EmptySeq
    <2> HIDE DEF none
    <2>2. Message("user", parts, none, Nil) \in MessageSet /\ Message("user", parts, none, Nil).role = "user"
      BY <1>3, <2>1, PartLists, MessageFields, RolesKnown
    <2> QED BY <2>2 DEF none
  <1> HIDE DEF t, m
  <1>5. CASE parts = <<>>
    <2>1. t \o <<>> = t
      BY <1>1, ConcatEmptySeq
    <2> QED BY <1>1, <1>2, <1>5, <2>1 DEF t
  <1>6. CASE parts # <<>>
    <2>1. t \o <<m>> = Append(t, m) /\ Append(t, m) \in Seq(MessageSet)
      BY <1>1, <1>4, AppendIsConcat, AppendProperties
    <2> QED BY <1>1, <1>2, <1>4, <1>6, <2>1 DEF t
  <1> QED BY <1>5, <1>6

\* And of an assistant's.
LEMMA AssistantMessagesAre ==
  ASSUME NEW c \in Seq(BlockSet)
  PROVE  LET uses == Only(c, {"tool_use"})
             told == AssistantMessages(c)[1]
         IN  /\ uses \in Seq(BlockSet) /\ told \in MessageSet /\ AssistantMessages(c) = <<told>>
             /\ told.role = "assistant" /\ told.parts = DataOf(Only(c, {"text"}))
             /\ told.calls = [i \in DOMAIN uses |-> [index |-> i - 1, id |-> uses[i].id, args |-> uses[i].data]]
  <1> DEFINE uses == Only(c, {"tool_use"})
             calls == [i \in DOMAIN uses |-> [index |-> i - 1, id |-> uses[i].id, args |-> uses[i].data]]
             texts == Only(c, {"text"})
             parts == DataOf(texts)
             told == Message("assistant", parts, calls, Nil)
  <1>1. AssistantMessages(c) = <<told>>
    BY DEF AssistantMessages
  <1>2. uses \in Seq(BlockSet) /\ texts \in Seq(BlockSet)
    <2>1. ASSUME NEW ks PROVE Only(c, ks) \in Seq(BlockSet)
      <3>1. Only(c, ks) \in Seq({a \in BlockSet : a.kind \in ks})
        BY OnlyType
      <3>2. {a \in BlockSet : a.kind \in ks} \subseteq BlockSet
        OBVIOUS
      <3> QED BY <3>1, <3>2
    <2> QED BY <2>1
  <1> HIDE DEF uses, texts
  <1>3. parts \in Seq(Data)
    <2>1. \A a \in BlockSet : a.data \in Data
      BY DEF BlockSet
    <2> QED BY <1>2, <2>1, DataOfList
  <1>4. calls \in Seq(UseSet)
    <2>1. ASSUME NEW i \in DOMAIN uses PROVE calls[i] \in UseSet
      <3>1. uses[i] \in BlockSet /\ i \in Int
        BY <1>2, <2>1, LenProperties, ElementOfSeq
      <3>2. uses[i].id \in Nat \cup {Nil} /\ uses[i].data \in Data /\ i - 1 \in Int
        BY <3>1 DEF BlockSet
      <3> QED BY <3>2 DEF UseSet
    <2>2. DOMAIN calls = DOMAIN uses /\ calls = [i \in DOMAIN calls |-> calls[i]]
      OBVIOUS
    <2> HIDE DEF calls
    <2> QED BY <1>2, <2>1, <2>2, ListOf
  <1> HIDE DEF parts, calls
  <1>5. told \in MessageSet /\ told.role = "assistant" /\ told.parts = parts /\ told.calls = calls
    BY <1>3, <1>4, PartLists, MessageFields, RolesKnown
  <1> HIDE DEF told
  <1>6. AssistantMessages(c)[1] = told
    BY <1>1
  <1> QED BY <1>1, <1>2, <1>5, <1>6 DEF uses, calls, parts, texts

\* The messages of any turn.
LEMMA ConvertedType ==
  ASSUME NEW m \in TurnSet PROVE Converted(m) \in Seq(MessageSet)
  <1>1. m.content \in Seq(BlockSet)
    BY DEF TurnSet
  <1>2. UserMessages(m.content) \in Seq(MessageSet)
    BY <1>1, UserMessagesAre
  <1>3. AssistantMessages(m.content) \in Seq(MessageSet)
    <2> DEFINE told == AssistantMessages(m.content)[1]
    <2>1. told \in MessageSet /\ AssistantMessages(m.content) = <<told>>
      BY <1>1, AssistantMessagesAre
    <2> HIDE DEF told
    <2> QED BY <2>1
  <1>4. <<>> \in Seq(MessageSet)
    BY EmptySeq
  <1> QED BY <1>2, <1>3, <1>4 DEF Converted

\* The answers to calls become a message each, the note one behind them.
LEMMA ReplyMessages ==
  ASSUME NEW uses \in Seq({b \in Blocks : b.id # Nil}), NEW first \in BOOLEAN, NEW last \in BOOLEAN
  PROVE  LET c == Reply(uses, first, last).content
             V == UserMessages(c)
         IN  /\ c \in Seq(BlockSet)
             /\ V \in Seq(MessageSet) /\ Len(uses) <= Len(V)
             /\ \A i \in 1 .. Len(uses) : V[i].role = "tool" /\ V[i].answers = uses[i].id
             /\ \A i \in 1 .. Len(V) : i > Len(uses) => V[i].role = "user"
  <1> DEFINE c == Reply(uses, first, last).content
             V == UserMessages(c)
             F == IF first THEN <<Note>> ELSE <<>>
             R == [i \in DOMAIN uses |-> Result(uses[i])]
             L == IF last THEN <<Note>> ELSE <<>>
             n == Len(uses)
             U == {b \in Blocks : b.id # Nil}
             t == ToolMessages(R)
  <1>1. n \in Nat /\ DOMAIN uses = 1 .. n /\ \A i \in 1 .. n : uses[i] \in U
    <2>1. uses \in Seq(U)
      OBVIOUS
    <2> HIDE DEF U
    <2> QED BY <2>1, LenProperties, ElementOfSeq
  <1>2. Note \in BlockSet /\ Note \notin Answers
    <2> DEFINE d == <<0>>
               k == "text"
    <2>1. d \in Data
      BY DEF Data
    <2>2. k \in STRING \cup Kinds \cup {"tool_result"}
      BY DEF Kinds
    <2>3. Note = [kind |-> k, id |-> Nil, data |-> d]
      BY DEF Note
    <2> HIDE DEF d, k
    <2>4. Note \in BlockSet /\ Note.id = Nil
      BY <2>1, <2>2, <2>3 DEF BlockSet
    <2> QED BY <2>4 DEF Answers
  <1>3. ASSUME NEW use \in U PROVE Result(use) \in Answers /\ Result(use).id = use.id
    <2> DEFINE d == <<0>>
               k == "tool_result"
    <2>1. d \in Data
      BY DEF Data
    <2>2. k \in STRING \cup Kinds \cup {"tool_result"}
      BY DEF Kinds
    <2>3. Result(use) = [kind |-> k, id |-> use.id, data |-> d]
      BY DEF Result
    <2>4. use.id \in Nat \cup {Nil} /\ use.id # Nil
      BY DEF Blocks
    <2> HIDE DEF d, U
    <2>5. Result(use).kind = k /\ Result(use).id = use.id
      BY <2>3
    <2> HIDE DEF k
    <2>6. Result(use) \in BlockSet
      BY <2>1, <2>2, <2>3, <2>4 DEF BlockSet
    <2> QED BY <2>4, <2>5, <2>6 DEF Answers, k
  <1>4. c = (F \o R) \o L
    BY DEF Reply
  <1>5. R \in Seq(Answers) /\ Len(R) = n /\ \A i \in 1 .. n : R[i].id = uses[i].id
    <2>1. DOMAIN R = DOMAIN uses /\ R = [i \in DOMAIN R |-> R[i]] /\ \A i \in DOMAIN uses : R[i] = Result(uses[i])
      OBVIOUS
    <2> HIDE DEF R
    <2>2. \A i \in DOMAIN uses : R[i] \in Answers /\ R[i].id = uses[i].id
      BY <1>1, <1>3, <2>1
    <2> HIDE DEF n
    <2>3. R \in [1 .. n -> Answers]
      BY <1>1, <2>1, <2>2
    <2> QED BY <1>1, <2>2, <2>3, IsSequence
  <1>6. Answers \subseteq BlockSet
    BY DEF Answers
  <1>7. /\ F \in Seq({Note}) /\ L \in Seq({Note}) /\ F \in Seq(BlockSet) /\ L \in Seq(BlockSet)
        /\ R \in Seq(BlockSet)
    <2>4. <<Note>> \in Seq({Note}) /\ <<>> \in Seq({Note})
      OBVIOUS
    <2>1. F \in Seq({Note})
      BY <2>4
    <2>2. L \in Seq({Note})
      BY <2>4
    <2>3. {Note} \subseteq BlockSet
      BY <1>2
    <2> HIDE DEF F, L, R
    <2> QED BY <1>5, <1>6, <2>1, <2>2, <2>3, WiderList
  <1> HIDE DEF F, R, L, c
  <1>8. F \o R \in Seq(BlockSet) /\ c \in Seq(BlockSet)
    BY <1>4, <1>7, ConcatProperties
  <1>9. Picked(c, Answers) = R
    <2>1. Picked(F, Answers) = <<>> /\ Picked(L, Answers) = <<>>
      <3>1. {Note} \cap Answers = {}
        BY <1>2
      <3> QED BY <1>7, <3>1, PickedNone
    <2>2. Picked(R, Answers) = R
      BY <1>5, PickedAll
    <2>3. Picked(c, Answers) = Picked(F \o R, Answers) \o Picked(L, Answers)
      BY <1>4, <1>7, <1>8, PickedJoin
    <2>4. Picked(F \o R, Answers) = Picked(F, Answers) \o Picked(R, Answers)
      BY <1>7, PickedJoin
    <2>5. <<>> \o R = R /\ R \o <<>> = R
      BY <1>5, ConcatEmptySeq
    <2> QED BY <2>1, <2>2, <2>3, <2>4, <2>5
  <1>10. /\ t \in Seq(MessageSet) /\ Len(t) = n
         /\ \A i \in 1 .. n : t[i].role = "tool" /\ t[i].answers = uses[i].id
    BY <1>5, <1>7, ToolMessagesAre
  <1>11. /\ V \in Seq(MessageSet)
         /\ V = t \/ \E m \in MessageSet : m.role = "user" /\ V = Append(t, m)
    <2> HIDE DEF t, V
    <2> QED BY <1>8, <1>9, UserMessagesAre DEF t, V
  <1> HIDE DEF t, V
  <1>12. CASE V = t
    <2> HIDE DEF n
    <2>1. n <= Len(V) /\ \A i \in 1 .. Len(V) : ~(i > n)
      BY <1>1, <1>10, <1>12
    <2>2. \A i \in 1 .. n : V[i].role = "tool" /\ V[i].answers = uses[i].id
      BY <1>10, <1>12
    <2> QED BY <1>8, <1>11, <2>1, <2>2 DEF V, c, n
  <1>13. CASE \E m \in MessageSet : m.role = "user" /\ V = Append(t, m)
    <2>1. PICK m \in MessageSet : m.role = "user" /\ V = Append(t, m)
      BY <1>13
    <2>2. Len(V) = n + 1 /\ V[n + 1] = m /\ \A i \in 1 .. n : V[i] = t[i]
      BY <1>10, <2>1, AppendProperties
    <2> HIDE DEF n
    <2>3. n <= Len(V) /\ \A i \in 1 .. Len(V) : i > n => i = n + 1
      BY <1>1, <2>2
    <2>4. /\ \A i \in 1 .. n : V[i].role = "tool" /\ V[i].answers = uses[i].id
          /\ \A i \in 1 .. Len(V) : i > n => V[i].role = "user"
      BY <1>10, <2>1, <2>2, <2>3
    <2> QED BY <1>8, <1>11, <2>3, <2>4 DEF V, c, n
  <1> QED BY <1>11, <1>12, <1>13

\* What a list of turns becomes, turn by turn.
ConvertedAll(messages) == [i \in DOMAIN messages |-> Converted(messages[i])]

\* One more turn: its messages come behind the others.
LEMMA ConvertedAppend ==
  ASSUME NEW ms \in Seq(TurnSet), NEW m \in TurnSet
  PROVE  /\ ConvertedAll(ms) \in Seq(Seq(MessageSet)) /\ Converted(m) \in Seq(MessageSet)
         /\ Concat(ConvertedAll(ms)) \in Seq(MessageSet)
         /\ Concat(ConvertedAll(Append(ms, m))) = Concat(ConvertedAll(ms)) \o Converted(m)
  <1> DEFINE S == Seq(MessageSet)
             g == ConvertedAll(ms)
             t == ConvertedAll(Append(ms, m))
             v == Converted(m)
  <1>1. Len(ms) \in Nat /\ DOMAIN ms = 1 .. Len(ms) /\ \A i \in 1 .. Len(ms) : ms[i] \in TurnSet
    BY LenProperties, ElementOfSeq
  <1>2. \A x \in TurnSet : Converted(x) \in S
    BY ConvertedType
  <1> HIDE DEF S
  <1>3. g \in Seq(S) /\ Len(g) = Len(ms)
    <2>1. DOMAIN g = DOMAIN ms /\ g = [i \in DOMAIN g |-> g[i]] /\ \A i \in DOMAIN ms : g[i] = Converted(ms[i])
      BY DEF ConvertedAll
    <2> HIDE DEF g
    <2> QED BY <1>1, <1>2, <2>1, ListOf
  <1>4. /\ DOMAIN Append(ms, m) = 1 .. Len(ms) + 1 /\ Append(ms, m)[Len(ms) + 1] = m
        /\ \A i \in 1 .. Len(ms) : Append(ms, m)[i] = ms[i]
    <2>1. Append(ms, m) \in Seq(TurnSet) /\ Len(Append(ms, m)) = Len(ms) + 1
      BY AppendProperties
    <2> QED BY <2>1, AppendProperties, LenProperties
  <1>5. DOMAIN t = DOMAIN Append(ms, m) /\ t = [i \in DOMAIN t |-> t[i]]
    BY DEF ConvertedAll
  <1>6. (\A i \in 1 .. Len(ms) : t[i] = g[i]) /\ t[Len(ms) + 1] = v
    BY <1>1, <1>4 DEF ConvertedAll
  <1>7. v \in S
    BY <1>2
  <1> HIDE DEF g, t, v
  <1>8. t = Append(g, v)
    BY <1>3, <1>4, <1>5, <1>6, <1>7, MappedAppend
  <1>9. Concat(t) = Concat(g) \o v
    BY <1>3, <1>7, <1>8, ConcatAppend
  <1>10. Concat(g) \in S
    BY <1>3, ConcatType DEF S
  <1> QED BY <1>3, <1>7, <1>9, <1>10 DEF g, t, v, S

\* The request of the next turn ends with what the assistant said, and the
\* answers to it.
LEMMA RequestEnds ==
  ASSUME asked \in Asks, NEW content \in Seq(Blocks), NEW first \in BOOLEAN, NEW last \in BOOLEAN,
         Only(content, {"tool_use"}) \in Seq({b \in Blocks : b.id # Nil})
  PROVE  LET r == Reply(Only(content, {"tool_use"}), first, last)
             told == AssistantMessages(content)[1]
         IN  \E before \in Seq(MessageSet) :
                ConvertedRequest([asked EXCEPT !.messages = History(content, first, last)]).messages
                   = before \o (<<told>> \o UserMessages(r.content))
  <1> DEFINE a == [role |-> "assistant", content |-> content]
             r == Reply(Only(content, {"tool_use"}), first, last)
             told == AssistantMessages(content)[1]
             V == UserMessages(r.content)
             ms == asked.messages
             H == History(content, first, last)
             req == [asked EXCEPT !.messages = H]
             early == Concat(ConvertedAll(ms))
             sys == System(asked.system)
  <1>1. ms \in Seq(TurnSet) /\ asked.system \in Seq(STRING)
    <2> DEFINE A == [kind : STRING, id : Nat \cup {Nil}, data : Data]
               B == [role : STRING, content : Seq(A)]
    <2>1. ms \in Seq(B) /\ asked.system \in Seq(STRING)
      BY AsksAssumption
    <2>2. A \subseteq BlockSet
      BY DEF BlockSet
    <2> HIDE DEF A
    <2>3. Seq(A) \subseteq Seq(BlockSet)
      BY <2>2, WiderList
    <2>4. B \subseteq TurnSet
      BY <2>3 DEF TurnSet
    <2> HIDE DEF B
    <2> QED BY <2>1, <2>4, WiderList
  <1>2. Blocks \subseteq BlockSet
    BY DEF Blocks, BlockSet
  <1>3. content \in Seq(BlockSet)
    BY <1>2, WiderList
  <1>4. r.content \in Seq(BlockSet) /\ V \in Seq(MessageSet)
    BY ReplyMessages
  <1>5. a \in TurnSet
    BY <1>3 DEF TurnSet, Roles
  <1>6. r \in TurnSet /\ r.role = "user"
    <2> DEFINE c == r.content
    <2>1. r = [role |-> "user", content |-> c]
      BY DEF Reply
    <2>2. c \in Seq(BlockSet)
      BY <1>4
    <2> HIDE DEF r, c
    <2> QED BY <2>1, <2>2 DEF TurnSet, Roles
  <1>7. told \in MessageSet /\ AssistantMessages(content) = <<told>>
    BY <1>3, AssistantMessagesAre
  <1>8. Converted(a) = <<told>> /\ Converted(r) = V
    <2>1. a.role = "assistant" /\ a.content = content
      OBVIOUS
    <2> HIDE DEF a, r, told
    <2> QED BY <1>6, <1>7, <2>1 DEF Converted, V
  <1>9. H = ms \o <<a, r>>
    BY DEF History
  <1>10. req.messages = H /\ req.system = asked.system
    <2>1. "messages" \in DOMAIN asked /\ "system" \in DOMAIN asked
      BY AsksAssumption
    <2> HIDE DEF H
    <2> QED BY <2>1
  <1> HIDE DEF a, r, told, ms, H, V
  <1>11. Append(ms, a) \in Seq(TurnSet) /\ H = Append(Append(ms, a), r)
    <2>1. <<a>> \in Seq(TurnSet) /\ <<a, r>> = Append(<<a>>, r)
      BY <1>5, <1>6
    <2> DEFINE one == <<a>>
    <2> HIDE DEF one
    <2>2. ms \o Append(one, r) = Append(ms \o one, r)
      BY <1>1, <1>6, <2>1, JoinAppend DEF one
    <2>3. Append(ms, a) = ms \o <<a>> /\ Append(ms, a) \in Seq(TurnSet)
      BY <1>1, <1>5, AppendIsConcat, AppendProperties
    <2> QED BY <1>9, <2>1, <2>2, <2>3 DEF one
  <1>12. early \in Seq(MessageSet) /\ Concat(ConvertedAll(Append(ms, a))) = early \o <<told>>
    BY <1>1, <1>5, <1>8, ConvertedAppend
  <1>13. Concat(ConvertedAll(H)) = Concat(ConvertedAll(Append(ms, a))) \o V
    BY <1>6, <1>8, <1>11, ConvertedAppend
  <1>14. ConvertedRequest(req).messages = sys \o Concat(ConvertedAll(H))
    BY <1>10 DEF ConvertedRequest, ConvertedAll
  <1>15. sys \in Seq(MessageSet)
    BY <1>1, SystemType
  <1> DEFINE one == <<told>>
  <1>16. one \in Seq(MessageSet)
    BY <1>7
  <1> HIDE DEF one, early, sys, req
  <1>17. Concat(ConvertedAll(H)) = early \o (one \o V)
    <2>1. (early \o one) \o V = early \o (one \o V)
      BY <1>4, <1>12, <1>16, ConcatAssociative DEF V
    <2> QED BY <1>12, <1>13, <2>1 DEF one
  <1> DEFINE before == sys \o early
             rest == one \o V
  <1>18. before \in Seq(MessageSet) /\ rest \in Seq(MessageSet)
    BY <1>4, <1>12, <1>15, <1>16, ConcatProperties DEF V
  <1>19. sys \o (early \o rest) = before \o rest
    <2> HIDE DEF rest
    <2> QED BY <1>12, <1>15, <1>18, ConcatAssociative, SMTT(30)
  <1>20. ConvertedRequest(req).messages = before \o (<<told>> \o V)
    BY <1>14, <1>17, <1>19 DEF one
  <1> HIDE DEF before
  <1> QED BY <1>18, <1>20 DEF req, H, told, V, r

\* The assistant's last message, and what is behind it.
NoAssistant(V) == \A i \in 1 .. Len(V) : V[i].role # "assistant"
Ends(messages, told, V) ==
    LET i == Assistant(messages)
    IN  /\ i \in Nat /\ messages[i] = told /\ Len(messages) = i + Len(V)
        /\ \A k \in 1 .. Len(V) : messages[i + k] = V[k]
LEMMA LastAssistant ==
  ASSUME NEW before \in Seq(MessageSet), NEW told \in MessageSet, told.role = "assistant",
         NEW V \in Seq(MessageSet), NoAssistant(V), NEW messages, messages = before \o (<<told>> \o V)
  PROVE  Ends(messages, told, V)
  <1> DEFINE rest == <<told>> \o V
             b == Len(before)
             n == Len(V)
             Last(i) == /\ messages[i].role = "assistant"
                        /\ \A j \in DOMAIN messages : messages[j].role = "assistant" => j <= i
  <1>1. /\ rest \in Seq(MessageSet) /\ Len(rest) = 1 + n
        /\ \A i \in 1 .. 1 + n : rest[i] = IF i <= 1 THEN told ELSE V[i - 1]
    BY OneFirst
  <1> HIDE DEF rest
  <1>2. b \in Nat /\ n \in Nat
    BY LenProperties
  <1>3. /\ messages \in Seq(MessageSet) /\ Len(messages) = b + Len(rest)
        /\ \A i \in 1 .. b + Len(rest) : messages[i] = IF i <= b THEN before[i] ELSE rest[i - b]
    BY <1>1, ConcatProperties DEF rest
  <1> HIDE DEF b, n
  <1>4. DOMAIN messages = 1 .. b + (1 + n) /\ Len(messages) = (b + 1) + n
    <2>1. DOMAIN messages = 1 .. Len(messages)
      BY <1>3, LenProperties
    <2> QED BY <1>1, <1>2, <1>3, <2>1
  <1>5. messages[b + 1] = told
    <2>1. b + 1 \in 1 .. b + Len(rest) /\ ~(b + 1 <= b) /\ (b + 1) - b = 1 /\ 1 \in 1 .. 1 + n
      BY <1>1, <1>2
    <2>2. messages[b + 1] = rest[1]
      BY <1>3, <2>1
    <2>3. rest[1] = told
      BY <1>1, <2>1
    <2> QED BY <2>2, <2>3
  <1>6. ASSUME NEW k \in 1 .. n PROVE messages[(b + 1) + k] = V[k]
    <2>1. /\ (b + 1) + k \in 1 .. b + Len(rest) /\ ~((b + 1) + k <= b) /\ ((b + 1) + k) - b = 1 + k
          /\ 1 + k \in 1 .. 1 + n /\ ~(1 + k <= 1) /\ (1 + k) - 1 = k
      BY <1>1, <1>2
    <2>2. messages[(b + 1) + k] = rest[1 + k]
      BY <1>3, <2>1
    <2>3. rest[1 + k] = V[k]
      BY <1>1, <2>1
    <2> QED BY <2>2, <2>3
  <1>7. ASSUME NEW j \in DOMAIN messages, messages[j].role = "assistant" PROVE j <= b + 1
    <2> SUFFICES ASSUME ~(j <= b + 1) PROVE FALSE
      OBVIOUS
    <2>1. j - (b + 1) \in 1 .. n /\ (b + 1) + (j - (b + 1)) = j
      BY <1>2, <1>4, <1>7
    <2>2. messages[j] = V[j - (b + 1)]
      BY <1>6, <2>1
    <2> QED BY <1>7, <2>1, <2>2 DEF n, NoAssistant
  <1>8. b + 1 \in DOMAIN messages /\ Last(b + 1)
    BY <1>2, <1>4, <1>5, <1>7, SMTT(30)
  <1> DEFINE c == Assistant(messages)
  <1>9. c \in DOMAIN messages /\ Last(c)
    BY <1>8 DEF Assistant
  <1>10. c = b + 1
    <2>1. c <= b + 1 /\ b + 1 <= c
      BY <1>8, <1>9
    <2>2. c \in Int
      BY <1>2, <1>4, <1>9
    <2> HIDE DEF c
    <2> QED BY <1>2, <2>1, <2>2
  <1> HIDE DEF c
  <1>11. c \in Nat /\ messages[c] = told /\ Len(messages) = c + n
    BY <1>2, <1>4, <1>5, <1>10
  <1>12. \A k \in 1 .. n : messages[c + k] = V[k]
    BY <1>6, <1>10
  <1> QED BY <1>11, <1>12 DEF c, n, Ends

\* The calls of a message that has come to its end have an id.
LEMMA UsesNamed ==
  ASSUME BlocksNamed(message.blocks)
  PROVE  /\ Content(message) \in Seq(Blocks)
         /\ Only(Content(message), {"tool_use"}) \in Seq({b \in Blocks : b.id # Nil})
  <1> DEFINE c == message.blocks
             t == Content(message)
             A == {b \in Blocks : b.kind = "tool_use" => b.id # Nil}
             K == {a \in A : a.kind \in {"tool_use"}}
  <1>1. c \in Seq(Blocks) /\ \A i \in 1 .. Len(c) : c[i].kind = "tool_use" => c[i].id # Nil
    BY DEF BlocksNamed
  <1>2. t = BuiltAll(c) /\ t \in Seq(Blocks)
    BY <1>1, ContentIs
  <1>3. Len(c) \in Nat /\ DOMAIN c = 1 .. Len(c) /\ \A i \in 1 .. Len(c) : c[i] \in Blocks
    BY <1>1, LenProperties, ElementOfSeq
  <1>4. DOMAIN t = DOMAIN c /\ t = [i \in DOMAIN t |-> t[i]] /\ \A i \in DOMAIN c : t[i] = Built(c[i])
    BY <1>2 DEF BuiltAll
  <1> HIDE DEF t, c
  <1>5. ASSUME NEW i \in DOMAIN c PROVE t[i] \in A
    <2>1. c[i] \in Blocks /\ (c[i].kind = "tool_use" => c[i].id # Nil)
      BY <1>1, <1>3
    <2>2. t[i] \in Blocks /\ t[i].kind = c[i].kind /\ t[i].id = c[i].id
      BY <1>4, <2>1, BuiltType
    <2> QED BY <2>1, <2>2
  <1>6. t \in Seq(A)
    <2> HIDE DEF A
    <2> QED BY <1>1, <1>4, <1>5, ListOf
  <1>7. Only(t, {"tool_use"}) \in Seq(K)
    <2> HIDE DEF A
    <2> QED BY <1>6, OnlyType
  <1>8. K \subseteq {b \in Blocks : b.id # Nil}
    OBVIOUS
  <1> DEFINE N == {b \in Blocks : b.id # Nil}
  <1> HIDE DEF K
  <1>9. Only(t, {"tool_use"}) \in Seq(N)
    <2> HIDE DEF N
    <2> QED BY <1>7, <1>8, WiderList DEF N
  <1> QED BY <1>2, <1>9 DEF t

\* What the invariants say of the request of the next turn.
LEMMA TurnComesBack ==
  ASSUME LosesNothing, NamesCalls PROVE CallsComeBack
  <1> SUFFICES ASSUME at = "again" PROVE CallsComeBack
    BY DEF CallsComeBack
  <1> DEFINE content == Content(message)
             uses == Only(content, {"tool_use"})
             told == AssistantMessages(content)[1]
             messages == request.messages
             i == Assistant(messages)
  <1>1. Same /\ asked \in Asks /\ Turned /\ BlocksNamed(message.blocks)
    BY DEF LosesNothing, NamesCalls, AtEnd
  <1>2. content \in Seq(Blocks) /\ uses \in Seq({b \in Blocks : b.id # Nil})
    BY <1>1, UsesNamed
  <1>3. PICK first \in BOOLEAN, last \in BOOLEAN :
           request = ConvertedRequest([asked EXCEPT !.messages = History(content, first, last)])
    BY <1>1 DEF Turned
  <1> DEFINE V == UserMessages(Reply(uses, first, last).content)
             n == Len(uses)
  <1>4. PICK before \in Seq(MessageSet) : messages = before \o (<<told>> \o V)
    <2>1. LET r == Reply(Only(content, {"tool_use"}), first, last)
              t == AssistantMessages(content)[1]
          IN  \E before \in Seq(MessageSet) :
                 ConvertedRequest([asked EXCEPT !.messages = History(content, first, last)]).messages
                    = before \o (<<t>> \o UserMessages(r.content))
      <3> HIDE DEF content
      <3> QED BY <1>1, <1>2, RequestEnds DEF uses, content
    <2> QED BY <1>3, <2>1
  <1>5. /\ V \in Seq(MessageSet) /\ n <= Len(V)
        /\ \A j \in 1 .. n : V[j].role = "tool" /\ V[j].answers = uses[j].id
        /\ \A j \in 1 .. Len(V) : j > n => V[j].role = "user"
    <2> HIDE DEF uses
    <2> QED BY <1>2, ReplyMessages
  <1>6. /\ told \in MessageSet /\ told.role = "assistant" /\ told.parts = DataOf(Only(content, {"text"}))
        /\ told.calls = [j \in DOMAIN uses |-> [index |-> j - 1, id |-> uses[j].id, args |-> uses[j].data]]
    <2>1. Blocks \subseteq BlockSet
      BY DEF Blocks, BlockSet
    <2>2. content \in Seq(BlockSet)
      <3> HIDE DEF content
      <3> QED BY <1>2, <2>1, WiderList
    <2> HIDE DEF content
    <2> QED BY <2>2, AssistantMessagesAre
  <1>7. n \in Nat /\ DOMAIN uses = 1 .. n
    <2> HIDE DEF uses
    <2> QED BY <1>2, LenProperties
  <1>8. Len(V) \in Nat
    BY <1>5, LenProperties
  <1>9. TextOf("text") = Told(chat.text) /\ (~buried => CallsOf(content) = ChatCalls)
    BY <1>1 DEF Same
  <1>10. Concat(told.parts) = Told(chat.text)
    BY <1>6, <1>9 DEF TextOf
  <1> HIDE DEF V
  <1>11. NoAssistant(V)
    <2> SUFFICES ASSUME NEW j \in 1 .. Len(V) PROVE V[j].role # "assistant"
      BY DEF NoAssistant
    <2>1. j \in 1 .. n \/ j > n
      BY <1>7, <1>8
    <2> HIDE DEF n
    <2> QED BY <1>5, <2>1
  <1> HIDE DEF told, messages
  <1>12. /\ i \in Nat /\ messages[i] = told /\ Len(messages) = i + Len(V)
         /\ \A k \in 1 .. Len(V) : messages[i + k] = V[k]
    <2>1. before \in Seq(MessageSet) /\ told \in MessageSet /\ told.role = "assistant" /\ V \in Seq(MessageSet)
      BY <1>5, <1>6
    <2>2. Ends(messages, told, V)
      BY <1>4, <1>11, <2>1, LastAssistant
    <2> QED BY <2>2 DEF Ends
  <1> HIDE DEF i, uses, n
  <1>13. told.calls \in Seq(UseSet) /\ DOMAIN told.calls = 1 .. n /\ Len(told.calls) = n
    <2>1. told.calls \in Seq(UseSet)
      BY <1>6 DEF MessageSet
    <2>2. DOMAIN told.calls = DOMAIN uses
      BY <1>6
    <2> QED BY <1>7, <2>1, <2>2, LenProperties
  <1>14. \A j \in 1 .. n : told.calls[j].id = uses[j].id /\ told.calls[j].args = uses[j].data
    BY <1>6, <1>7
  <1>15. [j \in 1 .. n |-> [id |-> told.calls[j].id, args |-> told.calls[j].args]] = CallsOf(content)
    <2>1. CallsOf(content) = [j \in 1 .. n |-> [id |-> uses[j].id, args |-> uses[j].data]]
      BY <1>7 DEF CallsOf, uses
    <2> QED BY <1>14, <2>1
  <1>16. ASSUME NEW j \in 1 .. n
         PROVE  j \in 1 .. n /\ i + j <= Len(messages) /\ messages[i + j].answers = told.calls[j].id
    <2>1. j \in 1 .. Len(V)
      BY <1>5, <1>7, <1>8
    <2>2. messages[i + j] = V[j] /\ i + j <= Len(messages)
      BY <1>8, <1>12, <2>1
    <2> QED BY <1>5, <1>14, <2>2
  <1>17. ASSUME NEW k \in i + n + 1 .. Len(messages) PROVE messages[k].role = "user"
    <2>1. k - i \in 1 .. Len(V) /\ k - i > n /\ i + (k - i) = k
      BY <1>7, <1>8, <1>12
    <2>2. messages[k] = V[k - i]
      BY <1>12, <2>1
    <2> QED BY <1>5, <2>1, <2>2
  <1> HIDE DEF content
  <1>18. /\ Concat(messages[i].parts) = Told(chat.text)
         /\ ~buried => [j \in 1 .. n |-> [id |-> messages[i].calls[j].id, args |-> messages[i].calls[j].args]] = ChatCalls
         /\ \A j \in 1 .. n : \E k \in 1 .. n :
               i + k <= Len(messages) /\ messages[i + k].answers = messages[i].calls[j].id
         /\ \A k \in i + n + 1 .. Len(messages) : messages[k].role = "user"
         /\ Len(messages[i].calls) = n
    BY <1>9, <1>10, <1>12, <1>13, <1>15, <1>16, <1>17
  <1> QED BY <1>18 DEF CallsComeBack, i, messages

\* In the next turn the upstream is shown the text and the calls of its last
\* answer, and directly behind them one answer to each, and then only what
\* the user says: the conversions of convertNonStreamResponseBody, of the
\* stream and of convertRequestBody fit together, for answers of any make.
THEOREM CallsReturn == Spec => []CallsComeBack
  <1>1. LosesNothing /\ NamesCalls => CallsComeBack
    BY TurnComesBack
  <1>2. /\ TellsTheEnd /\ LosesNothing /\ NamesCalls /\ [Next]_vars
           => TellsTheEnd' /\ LosesNothing' /\ NamesCalls'
    BY NextTellsTheEnd, NextLosesNothing, NextNamesCalls
  <1> QED BY <1>1, <1>2, InitTellsTheEnd, InitLosesNothing, InitNamesCalls, PTL DEF Spec

-----------------------------------------------------------------------------
(* The response: what the goroutines of one request know of each other.    *)
(* That the client gets every chunk once and in order depends on where     *)
(* each goroutine is: what the source has read and not yet handed over,    *)
(* what the engine in between has taken, may send and has sent, and what   *)
(* the consumer has.  The invariant says so for each pair of neighbours,   *)
(* and who may still be waited for.                                        *)

\* The consumer reads the stream: the merge, or the handler's loop.
Reading ==
    \/ handler.pc = "merge"
    \/ handler.result = "stream" /\ handler.pc \in {"settle", "reply", "stream", "write"}
\* The handler has no answer from the HTTP client yet.
Calling == handler.pc \in {"start", "admit", "call"}
\* The upstream answers with a stream.
Streaming == conf.kind # "plain"

\* The keep-alive goroutine has stopped before the handler writes, and it
\* writes only where no stream is announced.
WriterInv ==
    /\ handler.pc \in Returned \ {"settle"} => beat.pc = "exit"
    /\ handler.result = "stream" => conf.kind = "stream"
    /\ beat.sig = "body" \/ beat.pc \in {"tick", "write"} \/ beat.sent > 0 => conf.kind # "stream"
    /\ beat.pc = "write" => beat.sent < MaxBeats

\* Where the handler is says what it has been given.
CallInv ==
    /\ Calling => /\ src.pc = "off" /\ src.end = "open"
                  /\ up = <<>> /\ out = <<>>
    /\ Calling \/ handler.pc \in {"transform", "merge"} => handler.result = "none"
    /\ Calling \/ handler.pc \in {"transform", "merge"} \/ handler.pc \in Returned
    /\ handler.pc = "merge" => conf.kind = "merged"
    /\ handler.pc \in {"stream", "write"} => handler.result = "stream"
    /\ handler.pc = "copy" => handler.result = "body"
    /\ handler.pc = "close" => handler.result \in {"stream", "body"}
    /\ handler.result = "body" => conf.kind # "stream"
    /\ handler.pc = "transform" => ~Streaming /\ conf.relay # "none" /\ src.pc = "body"
    /\ Reading => src.pc # "off"
    /\ handler.cut => handler.result = "stream" /\ handler.pc \in {"close", "end", "over"}
    /\ handler.result = "body" /\ ~Streaming /\ handler.pc \in {"settle", "reply", "copy"} =>
          src.pc = IF conf.relay = "none" THEN "body" ELSE "exit"

\* Which goroutines a reply has.
SourceInv ==
    /\ Streaming => src.pc # "body"
    /\ ~Streaming => src.pc \notin {"scan", "send"} /\ relay.pc = "off"
    /\ conf.relay = "none" => relay.pc = "off"
    /\ src.pc = "off" => relay.pc = "off"
    /\ Streaming /\ conf.relay # "none" /\ src.pc # "off" => relay.pc # "off"
    /\ relay.pc = "finish" => conf.relay = "convert"
    /\ relay.pc \in {"check", "tail", "replace", "swap"} => conf.relay = "moderate"
    /\ relay.pc = "last" => conf.relay \in {"moderate", "convert"}

\* The slot of the limiter is kept while anything of the reply is to come.
SlotInv ==
    /\ handler.pc \in {"start", "admit"} => slot = "none"
    /\ handler.pc \in {"call", "transform"} => slot = "held"
    /\ Streaming /\ conf.relay = "convert" /\ relay.pc \notin {"off", "exit"} => slot = "held"
    /\ conf.relay # "convert" =>
          /\ handler.pc = "merge" => slot = "held"
          /\ /\ handler.pc \in Returned \ {"end", "over"}
             /\ handler.result = "stream" \/ (handler.result = "body" /\ ~Streaming)
             => slot = "held"

\* A body that is no stream is read at one place, as a single chunk.
BodyInv ==
    src.pc = "body" =>
      /\ src.end = "open" => up = <<>> /\ out = <<>>
      /\ src.end = "eof" => Len(up) = 1
      /\ src.end = "error" => up = <<>>
      /\ handler.pc \in {"transform", "settle", "reply", "copy"} => out = <<>>
      /\ handler.pc = "transform" \/ conf.relay = "none"

\* A context is cancelled by the client, by the end of the request or by the
\* converter when it ends.
CtxInv ==
    /\ ctx.req => gone \/ handler.pc = "over"
    /\ Calling \/ handler.pc = "transform" => ~ctx.src /\ ~ctx.relay
    /\ Reading /\ (ctx.src \/ ctx.relay) => conf.relay = "convert" /\ relay.pc = "exit"

\* The engine in between takes what the source handed over, and holds back at
\* most a batch.
RelayInv ==
    /\ relay.pc = "off" => relay.got = 0 /\ relay.ok = 0 /\ relay.fwd = 0
    /\ relay.pc \in {"recv", "check", "flush"} =>
         /\ src.pc = "scan" => relay.got = Len(up)
         /\ src.pc = "send" => relay.got = Len(up) - 1
    /\ relay.pc = "recv" /\ conf.relay = "moderate" =>
         relay.ok = relay.fwd /\ relay.got - relay.fwd < ModerateEvery
    /\ relay.pc = "recv" /\ conf.relay = "rewrite" => relay.got = relay.fwd
    /\ relay.pc = "recv" /\ conf.relay = "convert" /\ ~RelayDone => relay.got = relay.fwd
    /\ relay.pc \in {"check", "tail"} =>
         relay.ok = relay.fwd /\ relay.fwd < relay.got /\ relay.got - relay.fwd <= ModerateEvery
    /\ relay.pc \in {"flush", "last"} => relay.fwd < relay.ok /\ relay.ok = relay.got

\* What may be sent on has been shown to the moderation service, and passed.
Passed == conf.relay = "moderate" => \A i \in 1 .. relay.ok : up[i] # "spam"
\* The consumer has nothing that the upstream did not send.
Known == \A k \in 1 .. Len(out) : out[k] <= Len(up)

\* The consumer has chunk i, or cannot have it.
Had(i) == i \in Taken \/ Skipped(i)
\* It has all that it can have of the first n chunks, and nothing else.
Delivered(n) == /\ \A k \in 1 .. Len(out) : out[k] \in 1 .. n
                /\ \A i \in 1 .. n : Had(i)
\* It has all that it can have.
All == \A i \in 1 .. Len(up) : Had(i)

\* No chunk will come any more.
NothingMore ==
    \/ src.pc = "exit"
    \/ src.pc = "body" /\ src.end # "open"
    \/ \E i \in 1 .. Len(up) : up[i] = "done"

\* The consumer at the source's channel, and at that of the engine in between.
DirectInv ==
    Reading /\ conf.relay = "none" =>
      /\ src.pc = "scan" => Delivered(Len(up))
      /\ src.pc = "send" => Len(up) > 0 /\ Delivered(Len(up) - 1)
      /\ src.pc = "exit" /\ ~gone => All

RelayedInv ==
    Reading /\ conf.relay # "none" =>
      /\ relay.pc # "exit" => Delivered(relay.fwd)
      /\ relay.pc \in {"recv", "check", "flush"} /\ src.pc = "exit" /\ ~gone => relay.got = Len(up)
      /\ relay.pc = "swap" => isSpam
      /\ relay.pc \in {"tail", "last"} /\ ~gone => NothingMore /\ relay.got = Len(up)
      /\ relay.pc = "finish" /\ ~gone => NothingMore /\ All
      /\ relay.pc = "exit" /\ ~gone /\ ~isSpam => NothingMore /\ All

\* The client has its reply, or an engine holds all of it.
Answered ==
    \/ handler.result = "stream" /\ handler.pc \in {"close", "end", "over"} /\ ~handler.cut
    \/ handler.result = "body" /\ (Streaming \/ conf.relay # "none" \/ handler.pc \in {"close", "end", "over"})
\* Such a reply is whole, unless the client left or the moderator refused.
AnsweredInv == Answered /\ ~gone /\ ~isSpam => All /\ NothingMore

-----------------------------------------------------------------------------
(* Who changes what.                                                       *)

\* Each goroutine changes its own state; what it shares is written by few.
LEMMA Writers ==
  ASSUME StreamNext
  PROVE  /\ conf' = conf \/ CallAnswers
         /\ up' = up \/ ChunkArrives \/ BodyArrives
         /\ out' = out \/ Transform \/ MergeChunk \/ Copy \/ NextChunk
         /\ \/ src' = src \/ ChunkArrives \/ BodyArrives
            \/ UpstreamEnds \/ LateLine \/ ReadCancelled \/ SendCancelled
            \/ RewriteReceives \/ ConvertReceives \/ ModerateReceives
            \/ CallStreams \/ CallAnswers \/ Transform \/ MergeChunk \/ NextChunk \/ Close
         /\ relay' = relay \/ RelayStep \/ CallStreams \/ MergeChunk \/ NextChunk
         /\ handler' = handler \/ HandlerStep \/ CallReturns
         /\ beat' = beat \/ Signal \/ BeatStep
         /\ ctx' = ctx \/ ConvertFinishes \/ MergeChunk \/ MergeEnds \/ Close \/ Over \/ ClientLeaves
         /\ \/ slot' = slot \/ ConvertFinishes \/ Admitted \/ CallFails
            \/ Transform \/ MergeChunk \/ MergeEnds \/ Close
         /\ isSpam' = isSpam \/ (isSpam' = TRUE /\ (Replace \/ Transform))
         /\ gone' = gone \/ (gone' = TRUE /\ ClientLeaves)
<1>1. CASE ChunkArrives \/ BodyArrives \/ UpstreamEnds \/ LateLine \/ SourceStep
  BY <1>1 DEF ChunkArrives, BodyArrives, UpstreamEnds, LateLine, SourceStep, ReadCancelled,
      SendCancelled
<1>2. CASE RelayStep
  BY <1>2 DEF RelayStep, RewriteReceives, ConvertReceives, ModerateReceives, Check, Replace,
      SourceClosed, RelayCancelled, ConvertFinishes
<1>3. CASE Signal \/ Refused \/ Admitted \/ CallFails \/ CallStreams \/ CallAnswers
  BY <1>3 DEF Signal, Refused, Admitted, CallFails, CallStreams, CallAnswers, HandlerStep,
      CallReturns
<1>4. CASE Transform \/ MergeChunk \/ MergeEnds
  BY <1>4 DEF Transform, MergeChunk, MergeEnds, HandlerStep
<1>5. CASE Settle \/ WriteReply \/ Copy \/ NextChunk \/ WriteChunk \/ StreamOver \/ Close \/ Over
  BY <1>5 DEF Settle, WriteReply, Copy, NextChunk, WriteChunk, StreamOver, Close, Over, HandlerStep
<1>6. CASE BeatStep \/ ClientLeaves
  BY <1>6 DEF BeatStep, BeatStarts, BeatTicks, BeatWrites, BeatEnds, ClientLeaves
<1>7. CASE UNCHANGED streamVars
  BY <1>7 DEF streamVars
<1> QED BY <1>1, <1>2, <1>3, <1>4, <1>5, <1>6, <1>7 DEF StreamNext, CallReturns, HandlerStep, ResponseOver

\* The engines stay; an answer without a stream leaves nothing to stream.
LEMMA ConfKept ==
  ASSUME TypeOK, StreamNext
  PROVE  /\ conf' \in [kind : RequestKinds, relay : Relays] /\ conf'.relay = conf.relay
         /\ ~CallAnswers => conf' = conf
         /\ CallAnswers => conf'.kind = "plain"
<1>1. CASE CallAnswers
  BY <1>1 DEF CallAnswers, TypeOK, RequestKinds
<1>2. CASE ~CallAnswers
  BY <1>2, Writers DEF TypeOK
<1> QED BY <1>1, <1>2

\* The chunk that the consumer takes comes from the source, or from the engine in between.
LEMMA Handed ==
  ASSUME TypeOK, SourceInv, RelayInv, NEW i \in 0 .. MaxStream, HandOver(i)
  PROVE  \/ /\ conf.relay = "none" /\ src.pc = "send" /\ i = Len(up)
            /\ src'.pc = "scan" /\ src'.end = src.end /\ relay' = relay
         \/ /\ conf.relay # "none" /\ relay.pc \in {"flush", "last"} /\ i = relay.fwd + 1 /\ i <= relay.ok
            /\ src' = src /\ relay'.got = relay.got /\ relay'.ok = relay.ok /\ relay'.fwd = i
            /\ relay'.pc = IF i < relay.ok THEN relay.pc ELSE IF relay.pc = "last" THEN LoopLeft ELSE "recv"
         \/ /\ conf.relay = "moderate" /\ relay.pc = "swap" /\ i = 0
            /\ src' = src /\ relay'.got = relay.got /\ relay'.ok = relay.ok /\ relay'.fwd = relay.fwd
            /\ relay'.pc = "exit"
<1>1. relay.fwd \in Nat /\ relay.ok \in Nat
  BY DEF TypeOK, RelayStates
<1>2. conf.relay = "none" => relay.pc = "off"
  BY DEF SourceInv
<1> USE DEF TypeOK, RelayStates, Sources
<1>3. CASE conf.relay = "none" /\ src.pc = "send" /\ i = Len(up) /\ src' = [src EXCEPT !.pc = "scan"] /\ UNCHANGED relay
  BY <1>3
<1>4. CASE relay.pc \in {"flush", "last"} /\ i = relay.fwd + 1 /\ relay' = Forwarded(i) /\ UNCHANGED src
  <2>1. i <= relay.ok /\ conf.relay # "none"
    BY <1>1, <1>2, <1>4 DEF RelayInv
  <2> QED BY <1>1, <1>4, <2>1 DEF Forwarded
<1>5. CASE relay.pc = "swap" /\ i = 0 /\ relay' = [relay EXCEPT !.pc = "exit"] /\ UNCHANGED src
  BY <1>5 DEF SourceInv
<1> QED BY <1>3, <1>4, <1>5 DEF HandOver

\* Its number is that of a chunk that the upstream sent.
LEMMA HandedTyped ==
  ASSUME TypeOK, SourceInv, RelayInv, NEW i \in 0 .. MaxStream, HandOver(i)
  PROVE  /\ src' \in Sources /\ relay' \in RelayStates
         /\ relay'.fwd <= relay'.got /\ relay'.ok <= relay'.got /\ relay'.got <= Len(up)
<1>1. src' \in Sources /\ relay' \in RelayStates
  BY DEF HandOver, Forwarded, LoopLeft, TypeOK, RelayStates, Sources
<1> QED BY <1>1, Handed DEF TypeOK, RelayStates

-----------------------------------------------------------------------------
(* Types.                                                                  *)

\* The upstream sends one chunk after the other.
LEMMA NextUp ==
  ASSUME TypeOK, BodyInv, StreamNext
  PROVE  /\ up' \in Seq(ChunkKinds) /\ Len(up') <= MaxStream /\ Len(up) <= Len(up')
         /\ \A i \in 1 .. Len(up) : up'[i] = up[i]
<1>1. CASE ChunkArrives
  BY <1>1, StreamAssumption DEF ChunkArrives, TypeOK
<1>2. CASE BodyArrives
  <2>1. PICK k \in ChunkKinds : up' = up \/ up' = <<k>>
    BY <1>2 DEF BodyArrives, ChunkKinds
  <2>2. Len(up) = 0
    BY <1>2 DEF BodyArrives, BodyInv
  <2>3. <<k>> \in Seq(ChunkKinds) /\ Len(<<k>>) = 1
    OBVIOUS
  <2>4. /\ up' \in Seq(ChunkKinds) /\ Len(up') \in {0, 1}
    BY <2>1, <2>2, <2>3 DEF TypeOK
  <2> QED BY <2>2, <2>4, StreamAssumption
<1>3. CASE up' = up
  BY <1>3 DEF TypeOK
<1> QED BY <1>1, <1>2, <1>3, Writers

\* The consumer takes one chunk at a time.
LEMMA NextOut ==
  ASSUME TypeOK, StreamNext
  PROVE  out' \in Seq(0 .. MaxStream)
<1>1. CASE Transform \/ Copy
  <2>1. <<0>> \in Seq(0 .. MaxStream) /\ <<1>> \in Seq(0 .. MaxStream)
    BY StreamAssumption
  <2>2. out' \in {out, <<0>>, <<1>>}
    BY <1>1 DEF Transform, Copy
  <2> QED BY <2>1, <2>2 DEF TypeOK
<1>2. CASE MergeChunk \/ NextChunk
  <2>1. out' = out \/ \E i \in 0 .. MaxStream : out' = Append(out, i)
    BY <1>2 DEF MergeChunk, NextChunk
  <2> DEFINE S == 0 .. MaxStream
  <2>2. out \in Seq(S) /\ (out' = out \/ \E i \in S : out' = Append(out, i))
    BY <2>1 DEF TypeOK
  <2>3. out' \in Seq(S)
    <3> HIDE DEF S
    <3> QED BY <2>2, AppendProperties
  <2> QED BY <2>3
<1> QED BY <1>1, <1>2, Writers DEF TypeOK

\* The source stays in its places,
LEMMA NextSrc ==
  ASSUME TypeOK, SourceInv, RelayInv, StreamNext
  PROVE  src' \in Sources
<1>1. CASE MergeChunk \/ NextChunk
  BY <1>1, HandedTyped DEF MergeChunk, NextChunk
<1>2. CASE CallStreams \/ CallAnswers \/ Transform \/ Close
  BY <1>2 DEF CallStreams, CallAnswers, Transform, Close, CloseBody, TypeOK, Sources
<1>3. CASE RewriteReceives \/ ConvertReceives \/ ModerateReceives
  BY <1>3 DEF RewriteReceives, ConvertReceives, ModerateReceives, TakeChunk, TypeOK, Sources
<1>4. CASE ChunkArrives \/ BodyArrives \/ UpstreamEnds \/ LateLine \/ ReadCancelled \/ SendCancelled
  BY <1>4 DEF ChunkArrives, BodyArrives, UpstreamEnds, LateLine, ReadCancelled, SendCancelled,
      Stop, TypeOK, Sources
<1> QED BY <1>1, <1>2, <1>3, <1>4, Writers DEF TypeOK

\* so does the engine in between, with its counts,
LEMMA NextRelay ==
  ASSUME TypeOK, SourceInv, BodyInv, RelayInv, StreamNext
  PROVE  /\ relay' \in RelayStates
         /\ relay'.fwd <= relay'.got /\ relay'.ok <= relay'.got /\ relay'.got <= Len(up')
<1>0. /\ Len(up) \in Nat /\ Len(up') \in Nat /\ Len(up) <= Len(up') /\ Len(up') <= MaxStream
      /\ MaxStream \in Nat
      /\ relay \in RelayStates /\ relay.fwd <= relay.got /\ relay.ok <= relay.got /\ relay.got <= Len(up)
  BY NextUp, StreamAssumption DEF TypeOK
<1> USE DEF RelayStates
<1>1. CASE MergeChunk \/ NextChunk
  BY <1>0, <1>1, HandedTyped DEF MergeChunk, NextChunk
<1>2. CASE CallStreams
  BY <1>0, <1>2 DEF CallStreams
<1>3. CASE RewriteReceives
  <2>1. Len(up) > 0 /\ up' = up
    BY <1>0, <1>3 DEF RewriteReceives, TakeChunk, RelayInv
  <2> QED BY <1>0, <1>3, <2>1 DEF RewriteReceives
<1>4. CASE ConvertReceives
  <2>1. Len(up) > 0 /\ up' = up
    BY <1>0, <1>4 DEF ConvertReceives, TakeChunk, RelayInv
  <2>2. relay' \in {[relay EXCEPT !.pc = "finish"],
                    [pc |-> "recv", got |-> Len(up), ok |-> Len(up), fwd |-> Len(up)],
                    [pc |-> "flush", got |-> Len(up), ok |-> Len(up), fwd |-> Len(up) - 1],
                    [pc |-> "last", got |-> Len(up), ok |-> Len(up), fwd |-> Len(up) - 1]}
    BY <1>4 DEF ConvertReceives
  <2>3. Len(up) \in 0 .. MaxStream /\ Len(up) - 1 \in 0 .. MaxStream
    BY <1>0, <2>1
  <2>4. CASE relay' = [relay EXCEPT !.pc = "finish"]
    BY <1>0, <2>1, <2>4
  <2>5. CASE relay' # [relay EXCEPT !.pc = "finish"]
    BY <1>0, <2>1, <2>2, <2>3, <2>5
  <2> QED BY <2>4, <2>5
<1>5. CASE ModerateReceives
  <2>1. up' = up /\ relay.got < Len(up)
    BY <1>0, <1>5 DEF ModerateReceives, TakeChunk, RelayInv
  <2>2. relay' \in {[relay EXCEPT !.pc = "replace"], [relay EXCEPT !.got = Len(up), !.pc = "tail"],
                    [relay EXCEPT !.got = Len(up), !.pc = "check"], [relay EXCEPT !.got = Len(up)]}
    BY <1>5 DEF ModerateReceives
  <2>3. PICK pc \in {"replace", "tail", "check", "recv"}, got \in {relay.got, Len(up)} :
           relay' = [relay EXCEPT !.got = got, !.pc = pc]
    BY <1>5, <2>2 DEF ModerateReceives, TakeChunk
  <2>4. got \in 0 .. MaxStream /\ relay.got <= got /\ got <= Len(up)
    BY <1>0
  <2>5. relay' \in RelayStates
    BY <1>0, <2>3, <2>4
  <2>6. relay'.got = got /\ relay'.ok = relay.ok /\ relay'.fwd = relay.fwd
    BY <1>0, <2>3
  <2> QED BY <1>0, <2>1, <2>4, <2>5, <2>6
<1>6. CASE Check
  <2>1. relay' \in {[relay EXCEPT !.ok = relay.got, !.pc = "flush"], [relay EXCEPT !.ok = relay.got, !.pc = "last"],
                    [relay EXCEPT !.pc = "replace"]}
    BY <1>6 DEF Check
  <2>2. up' = up
    BY <1>6 DEF Check
  <2>3. PICK pc \in {"flush", "last", "replace"}, ok \in {relay.ok, relay.got} :
           relay' = [relay EXCEPT !.ok = ok, !.pc = pc]
    BY <2>1
  <2>4. ok \in 0 .. MaxStream /\ ok <= relay.got
    BY <1>0
  <2>5. relay' \in RelayStates
    BY <1>0, <2>3, <2>4
  <2>6. relay'.got = relay.got /\ relay'.ok = ok /\ relay'.fwd = relay.fwd
    BY <1>0, <2>3
  <2> QED BY <1>0, <2>2, <2>4, <2>5, <2>6
<1>7. CASE Replace \/ RelayCancelled \/ ConvertFinishes \/ SourceClosed
  <2>1. \E pc \in {"swap", "exit", "recv", "finish", "tail"} : relay' = [relay EXCEPT !.pc = pc]
    BY <1>7 DEF Replace, RelayCancelled, ConvertFinishes, SourceClosed, LoopLeft
  <2> QED BY <1>0, <2>1
<1>8. CASE relay' = relay
  BY <1>0, <1>8
<1> QED BY <1>1, <1>2, <1>3, <1>4, <1>5, <1>6, <1>7, <1>8, Writers DEF RelayStep

\* the handler,
LEMMA NextHandler ==
  ASSUME TypeOK, StreamNext
  PROVE  handler' \in Handlers
<1> USE DEF Goto, Answer, TypeOK, Handlers, Returned
<1>1. CASE Signal \/ Refused \/ Admitted \/ CallFails
  BY <1>1 DEF Signal, Refused, Admitted, CallFails
<1>2. CASE CallStreams
  BY <1>2 DEF CallStreams
<1>3. CASE CallAnswers
  BY <1>3 DEF CallAnswers
<1>4. CASE Transform \/ MergeEnds
  BY <1>4 DEF Transform, MergeEnds
<1>5. CASE MergeChunk
  <2>1. handler' = handler \/ Answer("error")
    BY <1>5 DEF MergeChunk
  <2> QED BY <2>1
<1>6. CASE Settle \/ WriteReply \/ Copy
  BY <1>6 DEF Settle, WriteReply, Copy
<1>7. CASE NextChunk \/ WriteChunk \/ StreamOver \/ Close \/ Over
  BY <1>7 DEF NextChunk, WriteChunk, StreamOver, Close, Over
<1> QED BY <1>1, <1>2, <1>3, <1>4, <1>5, <1>6, <1>7, Writers DEF HandlerStep, CallReturns

\* the keep-alive goroutine,
LEMMA NextBeat ==
  ASSUME TypeOK, WriterInv, StreamNext
  PROVE  beat' \in Beats
<1> USE DEF TypeOK, Beats
<1>1. CASE Signal
  BY <1>1 DEF Signal
<1>3. CASE BeatStarts \/ BeatTicks \/ BeatEnds
  BY <1>3 DEF BeatStarts, BeatTicks, BeatEnds
<1>2. CASE BeatWrites
  <2>1. beat.sent + 1 \in 0 .. MaxBeats
    BY <1>2, StreamAssumption DEF BeatWrites, WriterInv
  <2> QED BY <1>2, <2>1 DEF BeatWrites
<1> QED BY <1>1, <1>2, <1>3, Writers DEF BeatStep

\* and the slot.
LEMMA NextSlot ==
  ASSUME TypeOK, CallInv, SourceInv, SlotInv, StreamNext
  PROVE  slot' \in {"none", "held", "freed"}
<1> USE DEF TypeOK, Freed, SlotInv
<1>1. CASE Admitted \/ CallFails \/ Transform
  BY <1>1 DEF Admitted, CallFails, Transform
<1>2. CASE ConvertFinishes
  BY <1>2 DEF ConvertFinishes, SourceInv
<1>3. CASE MergeChunk \/ MergeEnds
  BY <1>3 DEF MergeChunk, MergeEnds, CloseStream
<1>4. CASE Close
  <2>1. handler.pc = "close" /\ handler.pc \in Returned \ {"end", "over"}
    BY <1>4 DEF Close, Returned
  <2>2. handler.result = "body" \/ handler.result = "stream"
    BY <2>1 DEF CallInv
  <2>3. conf.kind \in {"stream", "merged", "plain"}
    BY DEF RequestKinds
  <2> QED BY <1>4, <2>1, <2>2, <2>3 DEF Close, CloseStream, Streaming, CallInv
<1> QED BY <1>1, <1>2, <1>3, <1>4, Writers

-----------------------------------------------------------------------------
(* The handler and the keep-alive goroutine.                               *)

\* The handler goes on only when the keep-alive goroutine has ended.
LEMMA NextWriter ==
  ASSUME TypeOK, WriterInv, CallInv, StreamNext
  PROVE  WriterInv'
<1> USE DEF WriterInv, TypeOK, Handlers, Beats, Returned
<1>4. CASE CallAnswers
  BY <1>4, ConfKept DEF CallAnswers, Goto, Answer, CallInv, Calling
<1> SUFFICES ASSUME ~CallAnswers PROVE WriterInv'
  BY <1>4
<1>0. conf' = conf
  BY Writers
<1>1. CASE Signal
  BY <1>0, <1>1 DEF Signal, Goto
<1>2. CASE BeatStep
  <2>1. handler' = handler
    BY <1>2 DEF BeatStep, BeatStarts, BeatTicks, BeatWrites, BeatEnds
  <2>2. CASE BeatStarts
    BY <1>0, <2>1, <2>2 DEF BeatStarts
  <2>3. CASE BeatTicks
    BY <1>0, <2>1, <2>3 DEF BeatTicks
  <2>4. CASE BeatWrites
    BY <1>0, <2>1, <2>4, StreamAssumption DEF BeatWrites
  <2>5. CASE BeatEnds
    BY <1>0, <2>1, <2>5 DEF BeatEnds
  <2> QED BY <1>2, <2>2, <2>3, <2>4, <2>5 DEF BeatStep
<1>3. CASE beat' = beat
  <2>1. CASE handler' = handler
    BY <1>0, <1>3, <2>1
  <2>2. CASE CallStreams
    BY <1>0, <1>3, <2>2 DEF CallStreams, Goto, Answer, RequestKinds
  <2>3. CASE Refused \/ Admitted \/ CallFails
    BY <1>0, <1>3, <2>3 DEF Refused, Admitted, CallFails, Goto, Answer
  <2>4. CASE Transform \/ MergeEnds
    BY <1>0, <1>3, <2>4 DEF Transform, MergeEnds, Answer
  <2>5. CASE MergeChunk
    <3>1. handler' = handler \/ (handler.pc = "merge" /\ Answer("error"))
      BY <2>5 DEF MergeChunk
    <3> QED BY <1>0, <1>3, <3>1 DEF Answer
  <2>6. CASE Settle
    BY <1>0, <1>3, <2>6 DEF Settle, Quiet, Goto
  <2>7. CASE WriteReply \/ Copy \/ NextChunk \/ WriteChunk \/ StreamOver \/ Close \/ Over
    BY <1>0, <1>3, <2>7 DEF WriteReply, Copy, NextChunk, WriteChunk, StreamOver, Close, Over, Goto
  <2> QED BY <1>1, <2>1, <2>2, <2>3, <2>4, <2>5, <2>6, <2>7, Writers DEF HandlerStep, CallReturns
<1> QED BY <1>1, <1>2, <1>3, Writers

\* At the end of the source's stream only the moderator has anything left.
LEMMA AtTheEnd ==
  ASSUME TypeOK, SourceInv, RelayInv, SourceClosed
  PROVE  /\ relay.pc = "recv" /\ src.pc = "exit" /\ UNCHANGED <<conf, up, src, handler, out, ctx, gone, isSpam>>
         /\ relay'.got = relay.got /\ relay'.ok = relay.ok /\ relay'.fwd = relay.fwd
         /\ \/ relay'.pc = "finish" /\ conf.relay = "convert"
            \/ relay'.pc = "tail" /\ conf.relay = "moderate" /\ relay.got > relay.fwd
            \/ relay'.pc = "exit" /\ conf.relay # "convert" /\ relay.got = relay.fwd
<1>1. /\ relay.pc = "recv" /\ src.pc = "exit" /\ relay \in RelayStates /\ relay.fwd <= relay.got
      /\ UNCHANGED <<conf, up, src, handler, out, ctx, gone, isSpam>>
  BY DEF SourceClosed, TypeOK
<1>2. conf.relay \in {"rewrite", "convert", "moderate"}
  BY <1>1 DEF SourceInv, TypeOK, Relays
<1>3. PICK pc \in {"finish", "tail", "exit"} :
         /\ relay' = [relay EXCEPT !.pc = pc]
         /\ pc = IF conf.relay = "convert" THEN "finish"
              ELSE IF relay.got > relay.fwd THEN "tail" ELSE "exit"
  BY DEF SourceClosed, LoopLeft
<1>4. relay'.pc = pc /\ relay'.got = relay.got /\ relay'.ok = relay.ok /\ relay'.fwd = relay.fwd
  BY <1>1, <1>3 DEF RelayStates
<1>5. CASE conf.relay = "convert"
  BY <1>1, <1>3, <1>4, <1>5
<1>6. CASE conf.relay # "convert" /\ relay.got > relay.fwd
  BY <1>1, <1>2, <1>3, <1>4, <1>6 DEF RelayInv, RelayStates
<1>7. CASE conf.relay # "convert" /\ ~(relay.got > relay.fwd)
  BY <1>1, <1>3, <1>4, <1>7 DEF RelayStates
<1> QED BY <1>5, <1>6, <1>7

\* Every step of the handler follows from the answer it got.
LEMMA NextCall ==
  ASSUME TypeOK, CallInv, SourceInv, RelayInv, StreamNext
  PROVE  CallInv'
<1>8. CASE CallAnswers
  BY ConfKept, <1>8, ZenonT(60) DEF CallAnswers, CallInv, Answer, Goto, Calling, Returned, Streaming, Reading,
      SourceInv, TypeOK, Sources, Handlers, RequestKinds, Relays
<1> SUFFICES ASSUME ~CallAnswers PROVE CallInv'
  BY <1>8
<1>0. conf' = conf
  BY Writers
<1>1. CASE ChunkArrives \/ BodyArrives \/ UpstreamEnds \/ LateLine \/ SourceStep
  BY <1>0, <1>1 DEF BodyArrives, UpstreamEnds, LateLine, SourceStep, CallInv, Stop,
      ReadCancelled, SendCancelled, Calling, Returned, Streaming, Reading, SourceDone,
      ChunkArrives, SourceInv, TypeOK, Sources, Handlers
<1>2. CASE RewriteReceives \/ ConvertReceives \/ ModerateReceives
  BY <1>0, <1>2 DEF RewriteReceives, ConvertReceives, ModerateReceives, CallInv, TakeChunk,
      RelayDone, Calling, Returned, Streaming, Reading, SourceInv, TypeOK, Sources, Handlers
<1>3. CASE Check
  BY <1>0, <1>3 DEF Check, CallInv, Calling, Streaming, Reading
<1>4. CASE Replace \/ SourceClosed \/ RelayCancelled
  BY <1>0, <1>4 DEF Replace, SourceClosed, RelayCancelled, CallInv, Calling, Returned, Streaming,
      Reading, SourceInv
<1>5. CASE ConvertFinishes
  BY <1>0, <1>5 DEF ConvertFinishes, CallInv, Calling, Streaming, Reading
<1>6. CASE Signal \/ Refused \/ Admitted \/ CallFails
  BY <1>0, <1>6, ZenonT(60) DEF Signal, Refused, Admitted, CallFails, CallInv, Goto, Answer, Freed, Calling,
      Returned, Streaming, Reading, SourceInv, TypeOK, Sources, Handlers, RequestKinds, Relays
<1>7. CASE CallStreams
  BY <1>0, <1>7, ZenonT(60) DEF CallStreams, CallInv, Goto, Answer, Calling, Returned, Streaming, Reading,
      SourceInv, TypeOK, Sources, Handlers, RequestKinds, Relays
<1>9. CASE Transform
  BY <1>0, <1>9 DEF Transform, CallInv, BodyRead, CloseBody, Usable, Answer, Freed, Calling,
      Returned, Streaming, Reading, BodyComplete, SourceInv, TypeOK, Sources, Handlers,
      RequestKinds, Relays
<1>10. CASE MergeChunk
  <2>1. PICK i \in 0 .. MaxStream :
           /\ HandOver(i)
           /\ \/ out' = Append(out, i) /\ UNCHANGED <<handler, ctx, slot>>
              \/ Answer("error") /\ CloseStream /\ UNCHANGED out
    BY <1>10 DEF MergeChunk
  <2> QED BY <1>0, <1>10, <2>1, Handed DEF CloseStream, CallInv, Freed, Calling, Returned,
      Streaming, Reading, MergeChunk, Answer, SourceInv, TypeOK, Sources, Handlers, RequestKinds,
      Relays
<1>11. CASE MergeEnds
  BY <1>0, <1>11 DEF MergeEnds, CallInv, OutClosed, CloseStream, Answer, Calling, Returned,
      Streaming, Reading, Freed, SourceInv, TypeOK, Sources, Handlers, RequestKinds, Relays
<1>12. CASE Settle \/ WriteReply \/ Copy
  BY <1>0, <1>12 DEF Settle, WriteReply, Copy, CallInv, Quiet, Goto, BodyRead, BodyComplete, Calling,
      Returned, Streaming, Reading, SourceInv, TypeOK, Sources, Handlers
<1>13. CASE NextChunk
  <2>1. PICK i \in 0 .. MaxStream : HandOver(i) /\ out' = Append(out, i)
    BY <1>13 DEF NextChunk
  <2> QED BY <1>0, <1>13, <2>1, Handed DEF CallInv, Calling, Returned, Reading, NextChunk, Goto
<1>14. CASE WriteChunk \/ StreamOver
  BY <1>0, <1>14 DEF WriteChunk, StreamOver, CallInv, Goto, OutClosed, Calling, Returned,
      Streaming, Reading, SourceInv, TypeOK, Sources, Handlers, RequestKinds, Relays
<1>15. CASE Close
  BY <1>0, <1>15 DEF Close, CallInv, Goto, Calling, Returned, Streaming, Reading, SourceInv
<1>16. CASE Over \/ ClientLeaves
  BY <1>0, <1>16 DEF Over, ClientLeaves, CallInv, Goto, Calling, Returned, Streaming, Reading,
      TypeOK, Sources, Handlers, RequestKinds, Relays
<1>17. CASE BeatStep
  BY <1>0, <1>17 DEF BeatStep, CallInv, BeatStarts, BeatTicks, BeatWrites, BeatEnds, Calling,
      Returned, Streaming, Reading
<1>18. CASE UNCHANGED streamVars
  BY <1>0, <1>18 DEF CallInv, Calling, Streaming, Reading, streamVars
<1> QED BY <1>1, <1>2, <1>3, <1>4, <1>5, <1>6, <1>7, <1>9, <1>10, <1>11, <1>12, <1>13, <1>14, <1>15, <1>16, <1>17, <1>18 DEF
    StreamNext, CallReturns, RelayStep, HandlerStep, ResponseOver

\* The answer of the HTTP client starts the goroutines of its kind of reply.
LEMMA NextSource ==
  ASSUME TypeOK, CallInv, SourceInv, RelayInv, StreamNext
  PROVE  SourceInv'
<1>8. CASE CallAnswers
  BY ConfKept, <1>8 DEF CallAnswers, SourceInv, Streaming, CallInv, Calling, TypeOK, Sources
<1> SUFFICES ASSUME ~CallAnswers PROVE SourceInv'
  BY <1>8
<1>0. conf' = conf
  BY Writers
<1>1. CASE ChunkArrives \/ BodyArrives \/ UpstreamEnds \/ LateLine \/ SourceStep
  BY <1>0, <1>1 DEF BodyArrives, UpstreamEnds, LateLine, SourceStep, SourceInv, Stop,
      ReadCancelled, SendCancelled, Streaming, SourceDone, ChunkArrives, CallInv, TypeOK, Sources
<1>2. CASE RewriteReceives \/ ConvertReceives \/ ModerateReceives
  <2>1. CASE RewriteReceives
    BY <1>0, <2>1 DEF RewriteReceives, SourceInv, TakeChunk, Streaming
  <2>2. CASE ConvertReceives
    BY <1>0, <2>2 DEF ConvertReceives, SourceInv, TakeChunk, Streaming
  <2>3. CASE ModerateReceives
    BY <1>0, <2>3 DEF ModerateReceives, SourceInv, TakeChunk, Streaming
  <2> QED BY <1>2, <2>1, <2>2, <2>3
<1>3. CASE Check
  BY <1>0, <1>3 DEF Check, SourceInv, Shown, Streaming, Texts, CallInv, Calling, RelayStates,
      TypeOK, Sources, Handlers, Returned, RequestKinds, Relays
<1>4. CASE Replace \/ SourceClosed \/ RelayCancelled
  <2>1. CASE Replace
    BY <1>0, <2>1 DEF Replace, SourceInv, Streaming, RelayStates, TypeOK
  <2>2. CASE SourceClosed
    BY <1>0, <2>2, AtTheEnd DEF SourceInv, Streaming, TypeOK, RelayStates
  <2>3. CASE RelayCancelled
    BY <1>0, <2>3 DEF RelayCancelled, LoopLeft, SourceInv, Streaming, RelayStates, TypeOK
  <2> QED BY <1>4, <2>1, <2>2, <2>3
<1>5. CASE ConvertFinishes
  BY <1>0, <1>5 DEF ConvertFinishes, SourceInv, Streaming
<1>6. CASE Signal \/ Refused \/ Admitted \/ CallFails
  BY <1>0, <1>6 DEF Signal, Refused, Admitted, CallFails, SourceInv, Streaming
<1>7. CASE CallStreams
  BY <1>0, <1>7 DEF CallStreams, SourceInv, Streaming
<1>9. CASE Transform
  BY <1>0, <1>9 DEF Transform, SourceInv, BodyRead, CloseBody, Streaming
<1>10. CASE MergeChunk
  <2>1. PICK i \in 0 .. MaxStream :
           /\ HandOver(i)
           /\ \/ out' = Append(out, i) /\ UNCHANGED <<handler, ctx, slot>>
              \/ Answer("error") /\ CloseStream /\ UNCHANGED out
    BY <1>10 DEF MergeChunk
  <2> QED BY <1>0, <1>10, <2>1, Handed DEF SourceInv, Streaming, LoopLeft
<1>11. CASE MergeEnds
  BY <1>0, <1>11 DEF MergeEnds, SourceInv, Streaming
<1>12. CASE Settle \/ WriteReply \/ Copy
  BY <1>0, <1>12 DEF Settle, WriteReply, Copy, SourceInv, Streaming
<1>13. CASE NextChunk
  <2>1. PICK i \in 0 .. MaxStream : HandOver(i) /\ out' = Append(out, i)
    BY <1>13 DEF NextChunk
  <2> QED BY <1>0, <1>13, <2>1, Handed DEF SourceInv, Streaming, LoopLeft
<1>14. CASE WriteChunk \/ StreamOver
  BY <1>0, <1>14 DEF WriteChunk, StreamOver, SourceInv, Streaming
<1>15. CASE Close
  BY <1>0, <1>15 DEF Close, SourceInv, Streaming, TypeOK, Sources, Handlers
<1>16. CASE Over \/ ClientLeaves
  BY <1>0, <1>16 DEF Over, ClientLeaves, SourceInv, Streaming
<1>17. CASE BeatStep
  BY <1>0, <1>17 DEF BeatStep, SourceInv, BeatStarts, BeatTicks, BeatWrites, BeatEnds, Streaming
<1>18. CASE UNCHANGED streamVars
  BY <1>0, <1>18 DEF SourceInv, Streaming, streamVars
<1> QED BY <1>1, <1>2, <1>3, <1>4, <1>5, <1>6, <1>7, <1>9, <1>10, <1>11, <1>12, <1>13, <1>14, <1>15, <1>16, <1>17, <1>18 DEF
    StreamNext, CallReturns, RelayStep, HandlerStep, ResponseOver

\* The slot is freed where the body is closed, and not before.
LEMMA NextSlotInv ==
  ASSUME TypeOK, CallInv, SourceInv, SlotInv, RelayInv, StreamNext
  PROVE  SlotInv'
<1>8. CASE CallAnswers
  BY ConfKept, <1>8 DEF CallAnswers, SlotInv, Answer, Goto, Streaming, Returned, CallInv, Calling,
      Reading, SourceInv, TypeOK, Sources, Handlers, RequestKinds, Relays
<1> SUFFICES ASSUME ~CallAnswers PROVE SlotInv'
  BY <1>8
<1>0. conf' = conf
  BY Writers
<1>1. CASE ChunkArrives \/ BodyArrives \/ UpstreamEnds \/ LateLine \/ SourceStep
  BY <1>0, <1>1 DEF BodyArrives, UpstreamEnds, LateLine, SourceStep, SlotInv, Stop,
      ReadCancelled, SendCancelled, Streaming, Returned, SourceDone, ChunkArrives
<1>2. CASE RewriteReceives \/ ConvertReceives \/ ModerateReceives
  BY <1>0, <1>2 DEF RewriteReceives, ConvertReceives, ModerateReceives, SlotInv, TakeChunk,
      Streaming
<1>3. CASE Check
  BY <1>0, <1>3 DEF Check, SlotInv, Streaming
<1>4. CASE Replace \/ SourceClosed \/ RelayCancelled
  BY <1>0, <1>4 DEF Replace, SourceClosed, RelayCancelled, SlotInv, Streaming
<1>5. CASE ConvertFinishes
  BY <1>0, <1>5 DEF ConvertFinishes, SlotInv, CallInv, Calling, SourceInv
<1>6. CASE Signal \/ Refused \/ Admitted \/ CallFails
  BY <1>0, <1>6 DEF Signal, Refused, Admitted, CallFails, SlotInv, Goto, Answer, Freed,
      Streaming, Returned, CallInv, Calling, Reading, SourceInv, TypeOK, Sources, Handlers,
      RequestKinds, Relays
<1>7. CASE CallStreams
  BY <1>0, <1>7 DEF CallStreams, SlotInv, Goto, Answer, Streaming, Returned, CallInv, Calling,
      Reading, SourceInv, TypeOK, Sources, Handlers, RequestKinds, Relays
<1>9. CASE Transform
  BY <1>0, <1>9 DEF Transform, SlotInv, BodyRead, CloseBody, Usable, Answer, Freed, Streaming,
      Returned, BodyComplete, CallInv, Calling, Reading, SourceInv, TypeOK, Sources, Handlers,
      RequestKinds, Relays
<1>10. CASE MergeChunk
  <2>1. PICK i \in 0 .. MaxStream :
           /\ HandOver(i)
           /\ \/ out' = Append(out, i) /\ UNCHANGED <<handler, ctx, slot>>
              \/ Answer("error") /\ CloseStream /\ UNCHANGED out
    BY <1>10 DEF MergeChunk
  <2> QED BY <1>0, <1>10, <2>1, Handed DEF CloseStream, SlotInv, Freed, Streaming, Returned,
      MergeChunk, Answer, CallInv, Calling, Reading, SourceInv, TypeOK, Sources, Handlers,
      RequestKinds, Relays
<1>11. CASE MergeEnds
  BY <1>0, <1>11 DEF MergeEnds, SlotInv, OutClosed, CloseStream, Answer, Streaming, Returned,
      Freed, CallInv, Calling, Reading, SourceInv, TypeOK, Sources, Handlers, RequestKinds, Relays
<1>12. CASE Settle \/ WriteReply \/ Copy
  BY <1>0, <1>12 DEF Settle, WriteReply, Copy, SlotInv, Quiet, Goto, Streaming, Returned, TypeOK,
      Sources, Handlers, RequestKinds
<1>13. CASE NextChunk
  <2>1. PICK i \in 0 .. MaxStream : HandOver(i) /\ out' = Append(out, i)
    BY <1>13 DEF NextChunk
  <2> QED BY <1>0, <1>13, <2>1, Handed DEF SlotInv, Streaming, NextChunk, Goto, CallInv
<1>14. CASE WriteChunk \/ StreamOver
  BY <1>0, <1>14 DEF WriteChunk, StreamOver, SlotInv, Goto, OutClosed, Streaming, Returned,
      CallInv, Calling, Reading, SourceInv, TypeOK, Sources, Handlers, RequestKinds, Relays
<1>15. CASE Close
  BY <1>0, <1>15 DEF Close, SlotInv, Goto, CloseStream, Streaming
<1>16. CASE Over \/ ClientLeaves
  BY <1>0, <1>16 DEF Over, ClientLeaves, SlotInv, Goto, Streaming, Returned, TypeOK, Sources,
      Handlers, RequestKinds
<1>17. CASE BeatStep
  BY <1>0, <1>17 DEF BeatStep, SlotInv, BeatStarts, BeatTicks, BeatWrites, BeatEnds, Streaming
<1>18. CASE UNCHANGED streamVars
  BY <1>0, <1>18 DEF SlotInv, Streaming, streamVars
<1> QED BY <1>1, <1>2, <1>3, <1>4, <1>5, <1>6, <1>7, <1>9, <1>10, <1>11, <1>12, <1>13, <1>14, <1>15, <1>16, <1>17, <1>18 DEF
    StreamNext, CallReturns, RelayStep, HandlerStep, ResponseOver

\* A body is read once.
LEMMA NextBody ==
  ASSUME TypeOK, CallInv, SourceInv, BodyInv, RelayInv, StreamNext
  PROVE  BodyInv'
<1>8. CASE CallAnswers
  BY ConfKept, <1>8 DEF CallAnswers, BodyInv, Goto, CallInv, TypeOK, Handlers, Returned
<1> SUFFICES ASSUME ~CallAnswers PROVE BodyInv'
  BY <1>8
<1>0. conf' = conf
  BY Writers
<1>1. CASE ChunkArrives \/ BodyArrives \/ UpstreamEnds \/ LateLine \/ SourceStep
  BY <1>0, <1>1 DEF BodyArrives, UpstreamEnds, LateLine, SourceStep, BodyInv, Stop,
      ReadCancelled, SendCancelled, SourceDone, ChunkArrives, TypeOK, Sources
<1>2. CASE RewriteReceives \/ ConvertReceives \/ ModerateReceives
  BY <1>0, <1>2 DEF RewriteReceives, ConvertReceives, ModerateReceives, BodyInv, TakeChunk,
      RelayDone, TypeOK, Sources
<1>3. CASE Check
  BY <1>0, <1>3 DEF Check, BodyInv
<1>4. CASE Replace \/ SourceClosed \/ RelayCancelled
  BY <1>0, <1>4 DEF Replace, SourceClosed, RelayCancelled, BodyInv
<1>5. CASE ConvertFinishes
  BY <1>0, <1>5 DEF ConvertFinishes, BodyInv
<1>6. CASE Signal \/ Refused \/ Admitted \/ CallFails
  BY <1>0, <1>6 DEF Signal, Refused, Admitted, CallFails, BodyInv, Goto, CallInv, Calling
<1>7. CASE CallStreams
  BY <1>0, <1>7 DEF CallStreams, BodyInv
<1>9. CASE Transform
  BY <1>0, <1>9 DEF Transform, BodyInv, CloseBody
<1>10. CASE MergeChunk
  <2>1. PICK i \in 0 .. MaxStream :
           /\ HandOver(i)
           /\ \/ out' = Append(out, i) /\ UNCHANGED <<handler, ctx, slot>>
              \/ Answer("error") /\ CloseStream /\ UNCHANGED out
    BY <1>10 DEF MergeChunk
  <2> QED BY <1>0, <1>10, <2>1, Handed DEF BodyInv, MergeChunk
<1>11. CASE MergeEnds
  BY <1>0, <1>11 DEF MergeEnds, BodyInv, OutClosed
<1>12. CASE Settle \/ WriteReply \/ Copy
  BY <1>0, <1>12 DEF Settle, WriteReply, Copy, BodyInv, Quiet, Goto, BodyRead, BodyComplete, TypeOK,
      Sources, Handlers, Returned
<1>13. CASE NextChunk
  <2>1. PICK i \in 0 .. MaxStream : HandOver(i) /\ out' = Append(out, i)
    BY <1>13 DEF NextChunk
  <2> QED BY <1>0, <1>13, <2>1, Handed DEF BodyInv, NextChunk
<1>14. CASE WriteChunk \/ StreamOver
  BY <1>0, <1>14 DEF WriteChunk, StreamOver, BodyInv, Goto, OutClosed, CallInv, Calling,
      Streaming, SourceInv, TypeOK, Sources, Handlers, Returned, RequestKinds, Relays
<1>15. CASE Close
  BY <1>0, <1>15 DEF Close, BodyInv, Goto, TypeOK, Sources, Handlers
<1>16. CASE Over \/ ClientLeaves
  BY <1>0, <1>16 DEF Over, ClientLeaves, BodyInv, Goto, TypeOK, Handlers, Returned
<1>17. CASE BeatStep
  BY <1>0, <1>17 DEF BeatStep, BodyInv, BeatStarts, BeatTicks, BeatWrites, BeatEnds
<1>18. CASE UNCHANGED streamVars
  BY <1>0, <1>18 DEF BodyInv, streamVars
<1> QED BY <1>1, <1>2, <1>3, <1>4, <1>5, <1>6, <1>7, <1>9, <1>10, <1>11, <1>12, <1>13, <1>14, <1>15, <1>16, <1>17, <1>18 DEF
    StreamNext, CallReturns, RelayStep, HandlerStep, ResponseOver

\* Nobody else cancels.
LEMMA NextCtx ==
  ASSUME TypeOK, CallInv, SourceInv, CtxInv, RelayInv, StreamNext
  PROVE  CtxInv'
<1>8. CASE CallAnswers
  BY ConfKept, <1>8 DEF CallAnswers, CtxInv, Calling
<1> SUFFICES ASSUME ~CallAnswers PROVE CtxInv'
  BY <1>8
<1>0. conf' = conf
  BY Writers
<1>1. CASE ChunkArrives \/ BodyArrives \/ UpstreamEnds \/ LateLine \/ SourceStep
  BY <1>0, <1>1 DEF BodyArrives, UpstreamEnds, LateLine, SourceStep, CtxInv, Stop, ReadCancelled,
      SendCancelled, Calling, Reading, SourceDone, ChunkArrives
<1>2. CASE RewriteReceives \/ ConvertReceives \/ ModerateReceives
  BY <1>0, <1>2 DEF RewriteReceives, ConvertReceives, ModerateReceives, CtxInv, TakeChunk, Calling,
      Reading
<1>3. CASE Check
  BY <1>0, <1>3 DEF Check, CtxInv, Calling, Reading
<1>4. CASE Replace \/ SourceClosed \/ RelayCancelled
  BY <1>0, <1>4 DEF Replace, SourceClosed, RelayCancelled, CtxInv, Calling, Reading
<1>5. CASE ConvertFinishes
  BY <1>0, <1>5 DEF ConvertFinishes, CtxInv, Calling, CallInv, SourceInv
<1>6. CASE Signal \/ Refused \/ Admitted \/ CallFails
  BY <1>0, <1>6 DEF Signal, Refused, Admitted, CallFails, CtxInv, Calling
<1>7. CASE CallStreams
  BY <1>0, <1>7 DEF CallStreams, CtxInv, Calling
<1>9. CASE Transform
  BY <1>0, <1>9 DEF Transform, CtxInv
<1>10. CASE MergeChunk
  <2>1. PICK i \in 0 .. MaxStream :
           /\ HandOver(i)
           /\ \/ out' = Append(out, i) /\ UNCHANGED <<handler, ctx, slot>>
              \/ Answer("error") /\ CloseStream /\ UNCHANGED out
    BY <1>10 DEF MergeChunk
  <2> QED BY <1>0, <1>10, <2>1, Handed DEF CloseStream, CtxInv, Freed, Calling, Reading,
      MergeChunk, Answer, CallInv, SourceInv, TypeOK, Sources, Handlers, Returned, RequestKinds,
      Relays
<1>11. CASE MergeEnds
  BY <1>0, <1>11 DEF MergeEnds, CtxInv, OutClosed, CloseStream, Answer, Calling, Reading, Freed,
      CallInv, SourceInv, TypeOK, Sources, Handlers, Returned, RequestKinds, Relays
<1>12. CASE Settle \/ WriteReply \/ Copy
  BY <1>0, <1>12 DEF Settle, WriteReply, Copy, CtxInv, Quiet, Goto, Calling, Reading, TypeOK, Sources,
      Handlers, Returned
<1>13. CASE NextChunk
  <2>1. PICK i \in 0 .. MaxStream : HandOver(i) /\ out' = Append(out, i)
    BY <1>13 DEF NextChunk
  <2> QED BY <1>0, <1>13, <2>1, Handed DEF CtxInv, Reading, NextChunk, CallInv
<1>14. CASE WriteChunk \/ StreamOver
  BY <1>0, <1>14 DEF WriteChunk, StreamOver, CtxInv, Goto, OutClosed, Calling, Reading, CallInv,
      SourceInv, TypeOK, Sources, Handlers, Returned, RequestKinds, Relays
<1>15. CASE Close
  BY <1>0, <1>15 DEF Close, CtxInv, Goto, CloseStream, Freed, Calling, Reading, CallInv,
      SourceInv, TypeOK, Sources, Handlers, Returned, RequestKinds, Relays
<1>16. CASE Over \/ ClientLeaves
  BY <1>0, <1>16 DEF Over, ClientLeaves, CtxInv, Goto, Calling, Reading, TypeOK, Handlers,
      Returned
<1>17. CASE BeatStep
  BY <1>0, <1>17 DEF BeatStep, CtxInv, BeatStarts, BeatTicks, BeatWrites, BeatEnds, Calling,
      Reading
<1>18. CASE UNCHANGED streamVars
  BY <1>0, <1>18 DEF CtxInv, Calling, Reading, streamVars
<1> QED BY <1>1, <1>2, <1>3, <1>4, <1>5, <1>6, <1>7, <1>9, <1>10, <1>11, <1>12, <1>13, <1>14, <1>15, <1>16, <1>17, <1>18 DEF
    StreamNext, CallReturns, RelayStep, HandlerStep, ResponseOver

\* The engine takes every chunk that the source hands over, one by one.
LEMMA NextRelayInv ==
  ASSUME TypeOK, CallInv, SourceInv, BodyInv, CtxInv, RelayInv, StreamNext
  PROVE  RelayInv'
<1>8. CASE CallAnswers
  BY ConfKept, <1>8 DEF CallAnswers, RelayInv, RelayDone
<1> SUFFICES ASSUME ~CallAnswers PROVE RelayInv'
  BY <1>8
<1>0. conf' = conf
  BY Writers
<1>1. CASE ChunkArrives \/ BodyArrives \/ UpstreamEnds \/ LateLine \/ SourceStep
  <2>1. CASE ChunkArrives
    BY <1>0, <2>1 DEF ChunkArrives, RelayInv, RelayDone
  <2>2. CASE BodyArrives
    BY <1>0, <2>2 DEF BodyArrives, RelayInv, SourceInv
  <2>3. CASE UpstreamEnds
    BY <1>0, <2>3 DEF UpstreamEnds, RelayInv, Stop, RelayDone
  <2>4. CASE LateLine
    BY <1>0, <2>4 DEF LateLine, RelayInv, Stop, RelayDone
  <2>5. CASE SourceStep
    BY <1>0, <2>5 DEF SourceStep, RelayInv, ReadCancelled, SendCancelled, RelayDone, Stop
  <2> QED BY <1>1, <2>1, <2>2, <2>3, <2>4, <2>5
<1>2. CASE RewriteReceives \/ ConvertReceives \/ ModerateReceives
  <2>1. CASE RewriteReceives
    BY <1>0, <2>1, StreamAssumption DEF RewriteReceives, RelayInv, TakeChunk
  <2>2. CASE ConvertReceives
    BY <1>0, <2>2, StreamAssumption DEF ConvertReceives, RelayInv, TakeChunk
  <2>3. CASE ModerateReceives
    BY <1>0, <2>3, StreamAssumption DEF ModerateReceives, RelayInv, TakeChunk, RelayStates, TypeOK,
        Sources
  <2> QED BY <1>2, <2>1, <2>2, <2>3
<1>3. CASE Check
  BY <1>0, <1>3, ZenonT(60) DEF Check, RelayInv, Shown, RelayDone, Texts, CallInv, Calling, Streaming,
      BodyInv, SourceInv, RelayStates, TypeOK, Sources, Handlers, Returned, RequestKinds, Relays
<1>4. CASE Replace \/ SourceClosed \/ RelayCancelled
  <2>1. CASE Replace
    BY <1>0, <2>1, StreamAssumption DEF Replace, RelayInv, RelayStates, TypeOK
  <2>2. CASE SourceClosed
    BY <1>0, <2>2, AtTheEnd, StreamAssumption DEF RelayInv, RelayDone, TypeOK, RelayStates
  <2>3. CASE RelayCancelled
    BY <1>0, <2>3, StreamAssumption DEF RelayCancelled, LoopLeft, RelayInv, RelayDone, SourceInv, TypeOK,
        RelayStates
  <2> QED BY <1>4, <2>1, <2>2, <2>3
<1>5. CASE ConvertFinishes
  BY <1>0, <1>5 DEF ConvertFinishes, RelayInv
<1>6. CASE Signal \/ Refused \/ Admitted \/ CallFails
  <2>1. UNCHANGED <<conf, up, src, relay, ctx>>
    BY <1>0, <1>6 DEF Signal, Refused, Admitted, CallFails
  <2> QED BY <2>1 DEF RelayInv, RelayDone
<1>7. CASE CallStreams
  BY <1>0, <1>7, StreamAssumption DEF RelayInv, CallStreams, CallInv, Calling, SourceInv
<1>9. CASE Transform
  BY <1>0, <1>9 DEF Transform, RelayInv, CloseBody, RelayDone
<1>10. CASE MergeChunk
  <2>1. PICK i \in 0 .. MaxStream : HandOver(i)
    BY <1>10 DEF MergeChunk
  <2>2. UNCHANGED up
    BY <1>10 DEF MergeChunk
  <2>4. RelayDone => RelayDone'
    BY <1>10 DEF CloseStream, Freed, MergeChunk, RelayDone, TypeOK
  <2>5. CASE conf.relay = "none"
    BY <1>0, <2>1, <2>2, <2>5, Handed DEF RelayInv, SourceInv
  <2>6. CASE conf.relay # "none" /\ relay'.pc = "recv"
    BY <1>0, <2>1, <2>2, <2>4, <2>6, Handed, StreamAssumption DEF RelayInv, LoopLeft, RelayStates, TypeOK
  <2>7. CASE conf.relay # "none" /\ relay'.pc # "recv"
    BY <1>0, <2>1, <2>2, <2>7, Handed DEF RelayInv, LoopLeft
  <2> QED BY <2>5, <2>6, <2>7
<1>11. CASE MergeEnds
  BY <1>0, <1>11 DEF MergeEnds, RelayInv, OutClosed
<1>12. CASE Settle \/ WriteReply \/ Copy
  <2>1. UNCHANGED <<conf, up, src, relay, ctx>>
    BY <1>0, <1>12 DEF Settle, WriteReply, Copy
  <2> QED BY <2>1 DEF RelayInv, RelayDone
<1>13. CASE NextChunk
  <2>1. PICK i \in 0 .. MaxStream : HandOver(i)
    BY <1>13 DEF NextChunk
  <2>2. UNCHANGED up
    BY <1>13 DEF NextChunk
  <2>4. RelayDone => RelayDone'
    BY <1>13 DEF NextChunk, RelayDone
  <2>5. CASE conf.relay = "none"
    BY <1>0, <2>1, <2>2, <2>5, Handed DEF RelayInv, SourceInv
  <2>6. CASE conf.relay # "none" /\ relay'.pc = "recv"
    BY <1>0, <2>1, <2>2, <2>4, <2>6, Handed, StreamAssumption DEF RelayInv, LoopLeft, RelayStates, TypeOK
  <2>7. CASE conf.relay # "none" /\ relay'.pc # "recv"
    BY <1>0, <2>1, <2>2, <2>7, Handed DEF RelayInv, LoopLeft
  <2> QED BY <2>5, <2>6, <2>7
<1>14. CASE WriteChunk \/ StreamOver
  <2>1. UNCHANGED <<conf, up, src, relay, ctx>>
    BY <1>0, <1>14 DEF WriteChunk, StreamOver
  <2> QED BY <2>1 DEF RelayInv, RelayDone
<1>15. CASE Close
  BY <1>0, <1>15, ZenonT(60) DEF Close, RelayInv, Goto, CloseStream, Freed, RelayDone, CallInv, Calling,
      Streaming, BodyInv, SourceInv, RelayStates, TypeOK, Sources, Handlers, Returned,
      RequestKinds, Relays
<1>16. CASE Over \/ ClientLeaves
  BY <1>0, <1>16 DEF Over, ClientLeaves, RelayInv, Goto, RelayDone, CallInv, Calling, Streaming,
      RelayStates, TypeOK, Returned, RequestKinds, Relays
<1>17. CASE BeatStep
  <2>1. UNCHANGED <<conf, up, src, relay, ctx>>
    BY <1>0, <1>17 DEF BeatStep, BeatStarts, BeatTicks, BeatWrites, BeatEnds
  <2> QED BY <2>1 DEF RelayInv, RelayDone
<1>18. CASE UNCHANGED streamVars
  <2>1. UNCHANGED <<conf, up, src, relay, ctx>>
    BY <1>0, <1>18 DEF streamVars
  <2> QED BY <2>1 DEF RelayInv, RelayDone
<1> QED BY <1>1, <1>2, <1>3, <1>4, <1>5, <1>6, <1>7, <1>9, <1>10, <1>11, <1>12, <1>13, <1>14, <1>15, <1>16, <1>17, <1>18 DEF
    StreamNext, CallReturns, RelayStep, HandlerStep, ResponseOver

\* Together: every step keeps the types.
LEMMA NextType ==
  ASSUME TypeOK, WriterInv, CallInv, SourceInv, SlotInv, BodyInv, RelayInv, StreamNext
  PROVE  TypeOK'
<1>1. conf' \in [kind : RequestKinds, relay : Relays]
  BY ConfKept
<1>2. ctx' \in [req : BOOLEAN, src : BOOLEAN, relay : BOOLEAN]
  <2>1. CASE ConvertFinishes \/ MergeChunk \/ MergeEnds \/ Close \/ Over \/ ClientLeaves
    BY <2>1 DEF ConvertFinishes, MergeChunk, MergeEnds, Close, Over, ClientLeaves, CloseStream,
        TypeOK
  <2> QED BY <2>1, Writers DEF TypeOK
<1>3. gone' \in BOOLEAN /\ isSpam' \in BOOLEAN
  BY Writers DEF TypeOK
<1> QED BY <1>1, <1>2, <1>3, NextUp, NextOut, NextSrc, NextRelay, NextHandler, NextBeat, NextSlot DEF
    TypeOK

-----------------------------------------------------------------------------
(* What the consumer takes.                                                *)

\* What Append does.
LEMMA ChunkAppended ==
  ASSUME NEW S, NEW s \in Seq(S), NEW e \in S
  PROVE  /\ Append(s, e) \in Seq(S) /\ Len(Append(s, e)) = Len(s) + 1 /\ Len(s) \in Nat
         /\ \A k \in 1 .. Len(s) : Append(s, e)[k] = s[k]
         /\ Append(s, e)[Len(s) + 1] = e
BY AppendProperties, LenProperties

\* What was had is had.
LEMMA NextHad ==
  ASSUME TypeOK, CallInv, SourceInv, BodyInv, RelayInv, StreamNext, out \in Seq(0 .. MaxStream),
         out' = out \/ \E i \in 0 .. MaxStream : out' = Append(out, i)
  PROVE  \A i \in 1 .. Len(up) : Had(i) => Had(i)'
<1>1. Taken \subseteq Taken'
  <2> DEFINE S == 0 .. MaxStream
  <2>1. out \in Seq(S) /\ (out' = out \/ \E i \in S : out' = Append(out, i))
    BY DEF TypeOK
  <2>2. \A k \in 1 .. Len(out) : k \in 1 .. Len(out') /\ out'[k] = out[k]
    <3> HIDE DEF S
    <3> QED BY <2>1, ChunkAppended
  <2> QED BY <2>2 DEF Taken
<1> QED BY <1>1, NextUp, ConfKept DEF Had, Skipped

\* Who reads the stream, and what moves while it is read.
LEMMA ReadingMoves ==
  ASSUME TypeOK, WriterInv, CallInv, SourceInv, StreamNext, Reading'
  PROVE  \/ CallStreams
         \/ /\ Reading /\ handler.pc \in {"merge", "stream"}
            /\ \E i \in 0 .. MaxStream : HandOver(i) /\ out' = Append(out, i)
            /\ UNCHANGED <<up, ctx, gone, isSpam>>
         \/ Reading /\ ChunkArrives
         \/ Reading /\ (UpstreamEnds \/ ReadCancelled \/ LateLine \/ SendCancelled)
         \/ Reading /\ RelayStep
         \/ Reading /\ UNCHANGED <<up, src, relay, out>>
<1> USE DEF TypeOK, Handlers, Reading
<1>1. CASE SourceStep \/ UpstreamEnds \/ LateLine \/ ChunkArrives
  BY <1>1 DEF SourceStep, UpstreamEnds, LateLine, ChunkArrives, ReadCancelled, SendCancelled
<1>2. CASE BodyArrives
  BY <1>2 DEF BodyArrives, SourceInv, CallInv, WriterInv, Streaming
<1>3. CASE RelayStep
  BY <1>3 DEF RewriteReceives, RelayStep, ConvertReceives, ModerateReceives, Check, Replace,
      SourceClosed, RelayCancelled, ConvertFinishes
<1>4. CASE Signal \/ Refused \/ Admitted \/ CallFails \/ CallAnswers \/ Transform \/ MergeEnds
  <2>1. handler.pc # "over" /\ handler.result # "stream"
    BY <1>4 DEF Signal, Refused, Admitted, CallFails, CallAnswers, Transform, MergeEnds, CallInv,
        Calling
  <2>2. handler'.pc \notin {"merge"} /\ handler'.result # "stream"
    <3>1. CASE Signal \/ Admitted
      BY <2>1, <3>1 DEF Signal, Admitted, Goto
    <3>3. CASE Refused \/ CallFails
      BY <2>1, <3>3 DEF Refused, CallFails, Answer
    <3>2. CASE CallAnswers \/ Transform \/ MergeEnds
      BY <2>1, <3>2 DEF CallAnswers, Answer, Goto, Transform, MergeEnds
    <3> QED BY <1>4, <3>1, <3>2, <3>3
  <2> QED BY <2>2
<1>5. CASE MergeChunk
  <2>1. \E i \in 0 .. MaxStream :
           HandOver(i) /\ ((out' = Append(out, i) /\ UNCHANGED <<handler, ctx, slot>>) \/ Answer("error"))
    BY <1>5 DEF MergeChunk
  <2> QED BY <1>5, <2>1 DEF MergeChunk, Answer
<1>6. CASE NextChunk
  BY <1>6 DEF NextChunk, CallInv
<1>7. CASE Settle \/ WriteReply \/ WriteChunk \/ StreamOver \/ Over \/ ClientLeaves
  BY <1>7 DEF Settle, Quiet, Goto, WriteReply, WriteChunk, StreamOver, Over, ClientLeaves
<1>8. CASE Copy \/ Close
  BY <1>8 DEF Copy, Goto, Close
<1>9. CASE BeatStep \/ UNCHANGED streamVars
  BY <1>9 DEF BeatStep, BeatStarts, BeatTicks, BeatWrites, BeatEnds, streamVars
<1> QED BY <1>1, <1>2, <1>3, <1>4, <1>5, <1>6, <1>7, <1>8, <1>9 DEF StreamNext, CallReturns,
    HandlerStep, ResponseOver

\* The consumer is where it was.
LEMMA Waits ==
  ASSUME TypeOK, CallInv, SourceInv, BodyInv, RelayInv, StreamNext, out' = out,
         NEW n \in 0 .. Len(up), Delivered(n)
  PROVE  (\A k \in 1 .. Len(out') : out'[k] \in 1 .. n) /\ \A i \in 1 .. n : Had(i)'
<1>1. \A i \in 1 .. Len(up) : Had(i) => Had(i)'
  BY NextHad DEF TypeOK
<1> QED BY <1>1 DEF Delivered, TypeOK

\* The consumer takes the next chunk.
LEMMA Consumes ==
  ASSUME TypeOK, CallInv, SourceInv, BodyInv, RelayInv, StreamNext,
         NEW n \in 1 .. Len(up), Delivered(n - 1), out' = Append(out, n)
  PROVE  (\A k \in 1 .. Len(out') : out'[k] \in 1 .. n) /\ \A i \in 1 .. n : Had(i)'
<1>0. Len(up) \in Nat /\ Len(up) <= MaxStream /\ MaxStream \in Nat /\ n \in 0 .. MaxStream
  BY StreamAssumption DEF TypeOK
<1>1. \A i \in 1 .. Len(up) : Had(i) => Had(i)'
  BY <1>0, NextHad DEF TypeOK
<1> DEFINE S == 0 .. MaxStream
<1>2. /\ Len(out') = Len(out) + 1 /\ Len(out) \in Nat
      /\ \A k \in 1 .. Len(out) : out'[k] = out[k]
      /\ out'[Len(out) + 1] = n
  <2>1. out \in Seq(S) /\ n \in S
    BY <1>0 DEF TypeOK
  <2> HIDE DEF S
  <2> QED BY <2>1, ChunkAppended
<1>3. \A k \in 1 .. Len(out') : out'[k] \in 1 .. n
  BY <1>0, <1>2 DEF Delivered
<1>4. n \in Taken'
  BY <1>2 DEF Taken
<1>5. Had(n)'
  BY <1>4 DEF Had
<1> QED BY <1>0, <1>1, <1>3, <1>5 DEF Delivered

\* At the source's channel.
LEMMA NextDirect ==
  ASSUME TypeOK, WriterInv, CallInv, SourceInv, BodyInv, CtxInv, RelayInv, DirectInv, StreamNext
  PROVE  DirectInv'
<1> SUFFICES ASSUME Reading', conf.relay = "none"
             PROVE  /\ src'.pc = "scan" => Delivered(Len(up))'
                    /\ src'.pc = "send" => Len(up') > 0 /\ Delivered(Len(up) - 1)'
                    /\ src'.pc = "exit" /\ ~gone' => All'
  BY ConfKept DEF DirectInv
<1>0. /\ Len(up) \in Nat /\ up \in Seq(ChunkKinds) /\ src \in Sources
  BY DEF TypeOK
<1>7. ~gone' => ~gone
  BY Writers
<1>1. CASE CallStreams
  <2>1. /\ Len(up') = 0 /\ Len(out') = 0 /\ src'.pc = "scan"
    BY <1>0, <1>1 DEF CallStreams, CallInv, Calling, Sources
  <2> QED BY <2>1 DEF Delivered
<1>2. CASE Reading /\ UNCHANGED up /\ \E i \in 0 .. MaxStream : HandOver(i) /\ out' = Append(out, i)
  <2>1. PICK i \in 0 .. MaxStream : HandOver(i) /\ out' = Append(out, i)
    BY <1>2
  <2>2. src.pc = "send" /\ i = Len(up) /\ src'.pc = "scan"
    BY <2>1, Handed
  <2>3. Len(up) > 0 /\ Delivered(Len(up) - 1)
    BY <1>2, <2>2 DEF DirectInv
  <2>4. (\A k \in 1 .. Len(out') : out'[k] \in 1 .. Len(up)) /\ \A j \in 1 .. Len(up) : Had(j)'
    BY <1>0, <2>1, <2>2, <2>3, Consumes
  <2> QED BY <1>2, <2>2, <2>4 DEF Delivered
<1>3. CASE Reading /\ ChunkArrives
  <2>1. /\ src.pc = "scan" /\ src'.pc = "send" /\ out' = out /\ Len(up') = Len(up) + 1
    BY <1>0, <1>3 DEF ChunkArrives, Sources
  <2>2. Delivered(Len(up))
    BY <1>3, <2>1 DEF DirectInv
  <2>3. (\A k \in 1 .. Len(out') : out'[k] \in 1 .. Len(up)) /\ \A j \in 1 .. Len(up) : Had(j)'
    <3>1. Len(up) \in 0 .. Len(up)
      BY <1>0
    <3> QED BY <2>1, <2>2, <3>1, Waits
  <2> QED BY <1>0, <2>1, <2>3 DEF Delivered
<1>4. CASE Reading /\ (UpstreamEnds \/ ReadCancelled \/ LateLine \/ SendCancelled)
  <2>1. /\ UNCHANGED <<up, out>> /\ src'.pc = "exit"
        /\ src.pc \in {"scan", "send"}
        /\ src.pc = "send" => ctx.req \/ ctx.src
        /\ src.pc = "scan" => UpstreamEnds \/ ctx.req \/ ctx.src
    <3>1. CASE UpstreamEnds
      BY <3>1 DEF UpstreamEnds, Stop
    <3>2. CASE ReadCancelled \/ LateLine
      BY <3>2 DEF ReadCancelled, Stop, LateLine
    <3>3. CASE SendCancelled
      BY <3>3 DEF SendCancelled, SourceDone, Stop
    <3> QED BY <1>4, <3>1, <3>2, <3>3
  <2>2. handler.pc # "over" /\ ~ctx.src
    BY <1>4 DEF CtxInv, Reading
  <2>3. ~gone => src.pc = "scan"
    BY <2>1, <2>2 DEF CtxInv
  <2>4. ~gone => \A j \in 1 .. Len(up) : Had(j)'
    BY <1>0, <1>4, <2>1, <2>3, NextHad DEF DirectInv, Delivered, TypeOK
  <2> QED BY <1>0, <1>7, <2>1, <2>4 DEF All
<1>5. CASE Reading /\ UNCHANGED <<up, src, out>>
  <2>1. \A j \in 1 .. Len(up) : Had(j) => Had(j)'
    BY <1>5, NextHad DEF TypeOK
  <2> QED BY <1>0, <1>5, <1>7, <2>1 DEF DirectInv, Delivered, All
<1>6. ~RelayStep
  BY DEF RelayStep, RewriteReceives, ConvertReceives, ModerateReceives, Check, Replace,
      SourceClosed, RelayCancelled, ConvertFinishes, TakeChunk, SourceInv
<1> QED BY <1>1, <1>2, <1>3, <1>4, <1>5, <1>6, ReadingMoves

\* Once nothing more comes, nothing does.
LEMMA NoMore ==
  ASSUME TypeOK, CallInv, SourceInv, BodyInv, RelayInv, StreamNext, NothingMore
  PROVE  NothingMore' /\ up' = up
<1>1. up' = up
  <2>1. ~ChunkArrives
    BY DEF ChunkArrives, NothingMore
  <2>2. ~BodyArrives \/ up' = up
    BY DEF BodyArrives, NothingMore, BodyInv, TypeOK
  <2> QED BY <2>1, <2>2, Writers
<1>2. CASE \E i \in 1 .. Len(up) : up[i] = "done"
  BY <1>1, <1>2 DEF NothingMore
<1>3. CASE src.pc = "exit"
  <2>1. src'.pc = "exit"
    <3>1. ~ChunkArrives /\ ~BodyArrives /\ ~UpstreamEnds /\ ~LateLine /\ ~ReadCancelled /\ ~SendCancelled
      BY <1>3 DEF ChunkArrives, BodyArrives, UpstreamEnds, LateLine, ReadCancelled, SendCancelled
    <3>2. ~RewriteReceives /\ ~ConvertReceives /\ ~ModerateReceives
      BY <1>3 DEF RewriteReceives, ConvertReceives, ModerateReceives, TakeChunk
    <3>3. ~CallStreams /\ ~CallAnswers /\ ~Transform
      BY <1>3 DEF CallStreams, CallAnswers, Transform, CallInv, Calling
    <3>4. CASE MergeChunk \/ NextChunk
      BY <1>3, <3>4, Handed DEF MergeChunk, NextChunk
    <3>5. CASE Close
      BY <1>3, <3>5 DEF Close
    <3> QED BY <1>3, <3>1, <3>2, <3>3, <3>4, <3>5, Writers
  <2> QED BY <1>1, <2>1 DEF NothingMore
<1>4. CASE src.pc = "body" /\ src.end # "open"
  <2>1. ~ChunkArrives /\ ~BodyArrives /\ ~UpstreamEnds /\ ~LateLine /\ ~ReadCancelled /\ ~SendCancelled
    BY <1>4 DEF ChunkArrives, BodyArrives, UpstreamEnds, LateLine, ReadCancelled, SendCancelled
  <2>2. ~RewriteReceives /\ ~ConvertReceives /\ ~ModerateReceives
    BY <1>4 DEF RewriteReceives, ConvertReceives, ModerateReceives, TakeChunk
  <2>3. ~CallStreams /\ ~CallAnswers
    BY <1>4 DEF CallStreams, CallAnswers, CallInv, Calling
  <2>4. CASE MergeChunk \/ NextChunk
    <3>1. \E i \in 0 .. MaxStream : HandOver(i)
      BY <2>4 DEF MergeChunk, NextChunk
    <3>2. src' = src
      BY <1>4, <3>1, Handed
    <3> QED BY <1>1, <1>4, <3>2 DEF NothingMore
  <2>5. CASE Close \/ Transform
    <3>1. src' = src \/ src'.pc = "exit"
      BY <1>4, <2>5 DEF Close, Transform, CloseBody, TypeOK, Sources
    <3> QED BY <1>1, <1>4, <3>1 DEF NothingMore
  <2>6. CASE src' = src
    BY <1>1, <1>4, <2>6 DEF NothingMore
  <2> QED BY <1>1, <1>4, <2>1, <2>2, <2>3, <2>4, <2>5, <2>6, Writers
<1> QED BY <1>2, <1>3, <1>4 DEF NothingMore

\* All that was had is had while nothing more comes.
LEMMA NextAll ==
  ASSUME TypeOK, CallInv, SourceInv, BodyInv, RelayInv, StreamNext, out' = out, up' = up, All
  PROVE  All'
BY NextHad DEF All, TypeOK

\* At the channel of the engine in between.
LEMMA NextRelayed ==
  ASSUME TypeOK, WriterInv, CallInv, SourceInv, BodyInv, CtxInv, RelayInv, RelayedInv, StreamNext
  PROVE  RelayedInv'
<1> SUFFICES ASSUME Reading', conf.relay # "none"
             PROVE  /\ relay'.pc # "exit" => Delivered(relay.fwd)'
                    /\ relay'.pc \in {"recv", "check", "flush"} /\ src'.pc = "exit" /\ ~gone' => relay'.got = Len(up')
                    /\ relay'.pc = "swap" => isSpam'
                    /\ relay'.pc \in {"tail", "last"} /\ ~gone' => NothingMore' /\ relay'.got = Len(up')
                    /\ relay'.pc = "finish" /\ ~gone' => NothingMore' /\ All'
                    /\ relay'.pc = "exit" /\ ~gone' /\ ~isSpam' => NothingMore' /\ All'
  BY ConfKept DEF RelayedInv
<1>0. /\ Len(up) \in Nat /\ up \in Seq(ChunkKinds) /\ src \in Sources /\ relay \in RelayStates
      /\ relay.fwd \in 0 .. Len(up) /\ relay.fwd <= relay.got /\ relay.got <= Len(up)
  BY DEF TypeOK, RelayStates
<1>1. ~gone' => ~gone
  BY Writers
<1>2. ~isSpam' => ~isSpam
  BY Writers
<1>3. Reading => (ctx.req \/ ctx.src \/ ctx.relay => gone \/ (conf.relay = "convert" /\ relay.pc = "exit"))
  BY DEF CtxInv, Reading, SourceInv
<1>4. CASE CallStreams
  <2>1. /\ Len(up') = 0 /\ Len(out') = 0 /\ src'.pc = "scan" /\ relay'.pc = "recv" /\ relay'.fwd = 0
    BY <1>0, <1>4 DEF CallStreams, CallInv, Calling
  <2> QED BY <2>1 DEF Delivered
<1>5. CASE /\ Reading
           /\ \E i \in 0 .. MaxStream : HandOver(i) /\ out' = Append(out, i)
           /\ UNCHANGED <<up, ctx, gone, isSpam>>
  <2>1. PICK i \in 0 .. MaxStream : HandOver(i) /\ out' = Append(out, i)
    BY <1>5
  <2>2. CASE /\ relay.pc \in {"flush", "last"} /\ i = relay.fwd + 1 /\ i <= relay.ok
             /\ src' = src /\ relay'.got = relay.got /\ relay'.fwd = i
             /\ relay'.pc = IF i < relay.ok THEN relay.pc ELSE IF relay.pc = "last" THEN LoopLeft ELSE "recv"
    <3>1. i \in 1 .. Len(up) /\ Delivered(i - 1)
      BY <1>0, <1>5, <2>2 DEF RelayedInv, RelayInv, RelayStates, Delivered
    <3>2. (\A k \in 1 .. Len(out') : out'[k] \in 1 .. i) /\ \A j \in 1 .. i : Had(j)'
      BY <2>1, <3>1, Consumes
    <3>3. Delivered(relay.fwd)'
      BY <2>2, <3>2 DEF Delivered
    <3>4. CASE relay.pc = "flush"
      BY <1>5, <2>2, <3>3, <3>4 DEF RelayedInv
    <3>5. CASE relay.pc = "last"
      <4>1. relay'.pc \in {"last", "finish", "exit"}
        BY <2>2, <3>5 DEF LoopLeft
      <4>2. ~gone => NothingMore /\ relay.got = Len(up)
        BY <1>5, <3>5 DEF RelayedInv
      <4>3. relay'.pc # "last" /\ ~gone => i = Len(up)
        BY <1>0, <2>2, <3>5, <4>2 DEF RelayInv, RelayStates
      <4>4. relay'.pc # "last" /\ ~gone => All'
        BY <1>5, <3>2, <4>3 DEF All
      <4>5. ~gone => NothingMore'
        BY <4>2, NoMore
      <4> QED BY <1>5, <2>2, <3>3, <3>5, <4>1, <4>2, <4>4, <4>5
    <3> QED BY <2>2, <3>4, <3>5
  <2>3. CASE relay.pc = "swap" /\ conf.relay = "moderate" /\ relay'.pc = "exit"
    BY <1>5, <2>3 DEF RelayedInv
  <2> QED BY <2>1, <2>2, <2>3, Handed
<1>6. CASE Reading /\ ChunkArrives
  <2>1. /\ src.pc = "scan" /\ src'.pc = "send" /\ UNCHANGED <<relay, out, gone, isSpam>> /\ ~NothingMore
    BY <1>0, <1>6 DEF ChunkArrives, Sources, NothingMore
  <2>2. relay.pc # "exit" => Delivered(relay.fwd)'
    <3>1. CASE relay.pc # "exit"
      <4>1. (\A k \in 1 .. Len(out') : out'[k] \in 1 .. relay.fwd) /\ \A j \in 1 .. relay.fwd : Had(j)'
        BY <1>0, <1>6, <2>1, <3>1, Waits DEF RelayedInv
      <4> QED BY <2>1, <4>1 DEF Delivered
    <3> QED BY <3>1
  <2> QED BY <1>6, <2>1, <2>2 DEF RelayedInv
<1>7. CASE Reading /\ UNCHANGED <<up, src, relay, out>>
  <2>1. relay.pc # "exit" => Delivered(relay.fwd)'
    <3>1. CASE relay.pc # "exit"
      <4>1. (\A k \in 1 .. Len(out') : out'[k] \in 1 .. relay.fwd) /\ \A j \in 1 .. relay.fwd : Had(j)'
        BY <1>0, <1>7, <3>1, Waits DEF RelayedInv
      <4> QED BY <1>7, <4>1 DEF Delivered
    <3> QED BY <3>1
  <2>2. All => All'
    BY <1>7, NextAll
  <2>3. NothingMore => NothingMore'
    BY NoMore
  <2>4. isSpam => isSpam'
    BY Writers
  <2> QED BY <1>1, <1>2, <1>7, <2>1, <2>2, <2>3, <2>4 DEF RelayedInv
<1>8. CASE Reading /\ (UpstreamEnds \/ ReadCancelled \/ LateLine \/ SendCancelled)
  <2>1. UNCHANGED <<up, out, relay, gone, isSpam>> /\ src'.pc = "exit"
    <3>1. CASE UpstreamEnds
      BY <3>1 DEF UpstreamEnds, Stop
    <3>2. CASE ReadCancelled \/ LateLine
      BY <3>2 DEF ReadCancelled, Stop, LateLine
    <3>3. CASE SendCancelled
      BY <3>3 DEF SendCancelled, SourceDone, Stop
    <3> QED BY <1>8, <3>1, <3>2, <3>3
  <2>2. src.pc = "scan" \/ (src.pc = "send" /\ (ctx.req \/ ctx.src))
    BY <1>8 DEF SendCancelled, SourceDone, UpstreamEnds, ReadCancelled, LateLine
  <2>3. relay.pc # "exit" => Delivered(relay.fwd)'
    <3>1. CASE relay.pc # "exit"
      <4>1. (\A k \in 1 .. Len(out') : out'[k] \in 1 .. relay.fwd) /\ \A j \in 1 .. relay.fwd : Had(j)'
        BY <1>0, <1>8, <2>1, <3>1, Waits DEF RelayedInv
      <4> QED BY <2>1, <4>1 DEF Delivered
    <3> QED BY <3>1
  <2>4. All => All'
    BY <2>1, NextAll
  <2>5. NothingMore'
    BY <2>1 DEF NothingMore
  <2>6. relay.pc \in {"recv", "check", "flush"} /\ ~gone => relay.got = Len(up)
    BY <1>3, <1>8, <2>2 DEF RelayInv
  <2> QED BY <1>8, <2>1, <2>3, <2>4, <2>5, <2>6 DEF RelayedInv
<1>9. CASE Reading /\ RelayStep
  <2>1. UNCHANGED <<up, out, gone>> /\ (isSpam => isSpam')
    <3>1. UNCHANGED <<up, out, gone>>
      BY <1>9 DEF RelayStep, RewriteReceives, ConvertReceives, ModerateReceives, Check, Replace,
          SourceClosed, RelayCancelled, ConvertFinishes
    <3>2. isSpam => isSpam'
      BY Writers
    <3> QED BY <3>1, <3>2
  <2>2. relay.pc # "exit" /\ Delivered(relay.fwd) /\ (ctx.req \/ ctx.src \/ ctx.relay => gone)
    <3>1. relay.pc # "exit"
      BY <1>9 DEF RewriteReceives, TakeChunk, RelayStep, ConvertReceives, ModerateReceives, Check,
          Replace, SourceClosed, RelayCancelled, ConvertFinishes
    <3> QED BY <1>3, <1>9, <3>1 DEF RelayedInv
  <2>3. (\A k \in 1 .. Len(out') : out'[k] \in 1 .. relay.fwd) /\ \A j \in 1 .. relay.fwd : Had(j)'
    BY <1>0, <2>1, <2>2, Waits
  <2>4. relay'.fwd = relay.fwd => Delivered(relay.fwd)'
    BY <2>3 DEF Delivered
  <2>5. All => All'
    BY <2>1, NextAll
  <2>6. NothingMore => NothingMore'
    BY NoMore
  <2>7. CASE RewriteReceives
    <3>1. relay.fwd = Len(up) - 1
      BY <2>7 DEF RewriteReceives, TakeChunk, RelayInv
    <3>2. relay'.pc = "flush" /\ relay'.fwd = Len(up) - 1 /\ src'.pc = "scan"
      BY <1>0, <2>7 DEF RewriteReceives, TakeChunk, Sources
    <3> QED BY <2>4, <3>1, <3>2
  <2>8. CASE ConvertReceives
    <3>0. src'.pc = "scan" /\ relay.got = Len(up) - 1 /\ relay.pc = "recv" /\ conf.relay = "convert"
      BY <1>0, <2>8 DEF ConvertReceives, TakeChunk, Sources, RelayInv
    <3>1. CASE RelayDone
      <4>1. gone /\ relay'.fwd = relay.fwd /\ relay'.pc = "finish"
        BY <1>0, <2>2, <2>8, <3>1 DEF ConvertReceives, RelayDone, RelayStates
      <4> QED BY <1>1, <2>4, <3>0, <4>1
    <3>2. CASE ~RelayDone /\ up[Len(up)] = "broken"
      <4>1. relay'.pc = "recv" /\ relay'.fwd = Len(up) /\ relay.fwd = Len(up) - 1
        BY <2>8, <3>0, <3>2 DEF ConvertReceives, RelayInv
      <4>2. \A j \in 1 .. Len(up) : j = Len(up) => Had(j)'
        BY <2>1, <3>0, <3>2, ConfKept DEF Had, Skipped
      <4>3. Delivered(relay.fwd)'
        BY <1>0, <2>3, <4>1, <4>2 DEF Delivered
      <4> QED BY <3>0, <4>1, <4>3
    <3>3. CASE ~RelayDone /\ up[Len(up)] # "broken"
      <4>1. /\ relay'.fwd = Len(up) - 1 /\ relay'.got = Len(up) /\ relay.fwd = Len(up) - 1
            /\ relay'.pc = IF up[Len(up)] = "done" THEN "last" ELSE "flush"
        BY <2>8, <3>0, <3>3 DEF ConvertReceives, RelayInv
      <4>2. Len(up) \in 1 .. Len(up)
        BY <1>0, <3>0, <4>1 DEF RelayStates
      <4>3. up[Len(up)] = "done" => NothingMore'
        BY <2>6, <4>2 DEF NothingMore
      <4> QED BY <2>1, <2>4, <3>0, <4>1, <4>3
    <3> QED BY <3>1, <3>2, <3>3
  <2>9. CASE ModerateReceives
    <3>1. PICK pc \in {"replace", "tail", "check", "recv"}, got \in {relay.got, Len(up)} :
             /\ relay' = [relay EXCEPT !.got = got, !.pc = pc]
             /\ pc = "tail" => got = Len(up) /\ up[Len(up)] = "done"
      BY <2>9 DEF ModerateReceives, TakeChunk
    <3>2. relay'.pc = pc /\ relay'.got = got /\ relay'.fwd = relay.fwd
      BY <1>0, <3>1 DEF RelayStates
    <3>3. src'.pc = "scan" /\ Len(up) > 0
      BY <1>0, <2>9 DEF ModerateReceives, TakeChunk, RelayInv
    <3>4. pc = "tail" => NothingMore
      BY <1>0, <3>1, <3>3 DEF NothingMore
    <3> QED BY <2>1, <2>4, <2>6, <3>1, <3>2, <3>3, <3>4
  <2>10. CASE Check
    <3>1. relay.pc \in {"check", "tail"} /\ src' = src
      BY <2>10 DEF Check
    <3>2. relay'.fwd = relay.fwd /\ relay'.got = relay.got
      BY <1>0, <2>10 DEF Check, RelayStates
    <3>3. relay'.pc = "replace" \/ (relay.pc = "check" /\ relay'.pc = "flush") \/ (relay.pc = "tail" /\ relay'.pc = "last")
      BY <1>0, <2>10 DEF Check, RelayStates
    <3> QED BY <1>1, <1>9, <2>1, <2>4, <2>6, <3>1, <3>2, <3>3 DEF RelayedInv
  <2>11. CASE Replace
    <3>1. relay'.pc \in {"swap", "exit"} /\ relay'.fwd = relay.fwd /\ isSpam' /\ relay.pc = "replace"
      BY <1>0, <2>11 DEF Replace, RelayStates
    <3>2. conf.relay = "moderate"
      BY <3>1 DEF SourceInv
    <3> QED BY <2>4, <3>1, <3>2
  <2>12. CASE SourceClosed
    <3>1. ~gone => relay.got = Len(up)
      BY <1>9, <2>12, AtTheEnd DEF RelayedInv
    <3>2. relay.got = relay.fwd /\ ~gone => All'
      BY <2>1, <2>3, <3>1 DEF All
    <3>3. conf.relay = "convert" /\ ~gone => relay.got = relay.fwd
      BY <2>2, <2>12, AtTheEnd DEF RelayInv, RelayDone
    <3>4. NothingMore /\ src' = src
      BY <2>12, AtTheEnd DEF NothingMore
    <3> QED BY <1>1, <2>1, <2>4, <2>6, <2>12, <3>1, <3>2, <3>3, <3>4, AtTheEnd
  <2>13. CASE RelayCancelled
    <3>1. gone /\ relay'.fwd = relay.fwd /\ relay'.pc \in {"recv", "finish", "exit"}
      BY <1>0, <2>2, <2>13 DEF RelayCancelled, RelayDone, RelayStates, LoopLeft
    <3> QED BY <1>1, <2>4, <3>1
  <2>14. CASE ConvertFinishes
    <3>1. relay.pc = "finish" /\ relay'.pc = "exit"
      BY <1>0, <2>14 DEF ConvertFinishes, RelayStates
    <3>2. ~gone => NothingMore /\ All
      BY <1>9, <3>1 DEF RelayedInv
    <3> QED BY <1>1, <2>5, <2>6, <3>1, <3>2
  <2> QED BY <1>9, <2>7, <2>8, <2>9, <2>10, <2>11, <2>12, <2>13, <2>14 DEF RelayStep
<1> QED BY <1>4, <1>5, <1>6, <1>7, <1>8, <1>9, ReadingMoves

-----------------------------------------------------------------------------
(* What is taken.                                                          *)

\* The moderation service is shown all that a check lets pass.
LEMMA BatchShown ==
  ASSUME TypeOK, SourceInv, RelayInv, relay.pc \in {"check", "tail"},
         NEW i \in relay.fwd + 1 .. relay.got, up[i] = "spam"
  PROVE  i \in Shown
<1>0. /\ relay.fwd \in Nat /\ relay.got \in Nat /\ relay.got - relay.fwd <= ModerateEvery
      /\ ModerateEvery \in Nat /\ MaxRunes \in Nat /\ ModerateEvery <= MaxRunes
      /\ i \in Nat /\ i > relay.fwd /\ i <= relay.got
  BY StreamAssumption DEF TypeOK, RelayStates, RelayInv
<1> DEFINE Later == {j \in Texts : j > i}
<1>1. Later \subseteq (i + 1) .. relay.got
  BY <1>0 DEF Texts
<1>2. IsFiniteSet((i + 1) .. relay.got) /\ Cardinality((i + 1) .. relay.got) <= relay.got - i
  <2>1. i + 1 \in Int /\ relay.got \in Int
    BY <1>0
  <2>2. IsFiniteSet((i + 1) .. relay.got)
    BY <2>1, FS_Interval
  <2>3. Cardinality((i + 1) .. relay.got) = IF i + 1 > relay.got THEN 0 ELSE relay.got - (i + 1) + 1
    BY <2>1, FS_Interval
  <2> QED BY <1>0, <2>2, <2>3
<1>3. Cardinality(Later) \in Nat /\ Cardinality(Later) <= Cardinality((i + 1) .. relay.got)
  <2>1. IsFiniteSet(Later) /\ Cardinality(Later) <= Cardinality((i + 1) .. relay.got)
    BY <1>1, <1>2, FS_Subset
  <2> QED BY <2>1, FS_CardinalityType
<1>4. Cardinality((i + 1) .. relay.got) \in Nat
  BY <1>2, FS_CardinalityType
<1>5. Cardinality(Later) < MaxRunes
  <2> HIDE DEF Later
  <2> QED BY <1>0, <1>2, <1>3, <1>4
<1>6. i \in Texts
  BY <1>0 DEF Texts
<1> QED BY <1>5, <1>6 DEF Shown

\* A chunk is let pass only by a check that was shown it.
LEMMA NextPassed ==
  ASSUME TypeOK, CallInv, SourceInv, BodyInv, RelayInv, Passed, StreamNext
  PROVE  Passed'
<1> SUFFICES ASSUME conf.relay = "moderate", NEW i \in 1 .. relay'.ok
             PROVE  up'[i] # "spam"
  BY ConfKept DEF Passed
<1>0. /\ relay \in RelayStates /\ relay.ok <= relay.got /\ relay.got <= Len(up)
      /\ \A j \in 1 .. Len(up) : up'[j] = up[j]
  BY NextUp DEF TypeOK
<1>1. CASE Check
  <2>1. relay'.ok \in {relay.ok, relay.got} /\ relay.pc \in {"check", "tail"} /\ up' = up
    BY <1>0, <1>1 DEF Check, RelayStates
  <2>2. CASE i \in 1 .. relay.ok
    BY <2>1, <2>2 DEF Passed
  <2>3. CASE i \notin 1 .. relay.ok
    <3>1. relay'.ok = relay.got /\ i \in relay.fwd + 1 .. relay.got
      BY <1>0, <2>1, <2>3 DEF RelayInv, RelayStates
    <3>2. relay'.ok # relay.ok
      BY <1>0, <2>3, <3>1 DEF RelayStates
    <3>3. \A j \in Shown : up[j] # "spam"
      BY <1>0, <1>1, <3>2 DEF Check, RelayStates
    <3> QED BY <2>1, <3>1, <3>3, BatchShown
  <2> QED BY <2>2, <2>3
<1>2. CASE ~Check
  <2>1. relay'.ok = relay.ok
    <3>1. CASE MergeChunk \/ NextChunk
      BY <3>1, Handed DEF MergeChunk, NextChunk
    <3>2. CASE CallStreams
      BY <1>0, <3>2 DEF CallStreams, RelayStates
    <3>3. CASE ModerateReceives
      BY <1>0, <3>3 DEF ModerateReceives, RelayStates
    <3>4. CASE Replace \/ RelayCancelled \/ ConvertFinishes
      BY <1>0, <3>4 DEF Replace, RelayCancelled, ConvertFinishes, RelayStates
    <3>5. CASE SourceClosed
      BY <3>5, AtTheEnd
    <3> QED BY <1>2, <3>1, <3>2, <3>3, <3>4, <3>5, Writers DEF RelayStep, RewriteReceives,
        ConvertReceives
  <2> QED BY <1>0, <2>1 DEF Passed, RelayStates
<1> QED BY <1>1, <1>2

\* The next chunk taken is the next one the consumer can have, and none the
\* moderator refuses; nothing follows a replacement.
LEMMA NextTaken ==
  ASSUME TypeOK, WriterInv, CallInv, SourceInv, BodyInv, RelayInv, Passed, DirectInv, RelayedInv, StreamNext
  PROVE  \/ out' = out
         \/ \E i \in 0 .. MaxStream :
              /\ out' = Append(out, i) /\ up' = up /\ i <= Len(up)
              /\ conf.relay = "moderate" /\ i > 0 => up[i] # "spam"
              /\ \A k \in 1 .. Len(out) : out[k] > 0 /\ (i > 0 => out[k] < i)
              /\ \A j \in 1 .. i - 1 : Had(j)
<1>0. /\ Len(up) \in Nat /\ Len(up) <= MaxStream /\ MaxStream \in Nat /\ relay \in RelayStates
      /\ 0 \in 0 .. MaxStream /\ 1 \in 0 .. MaxStream
  BY StreamAssumption DEF TypeOK
<1>1. CASE Transform \/ Copy
  <2>1. out = <<>> \/ out' = out
    BY <1>1 DEF Transform, Copy, BodyRead, BodyInv
  <2>2. /\ up' = up
        /\ \/ out' = out \/ out' = <<0>>
           \/ out' = <<1>> /\ src.end = "eof" /\ src.pc = "body" /\ (conf.relay = "moderate" => up[1] # "spam")
    <3>1. CASE Transform
      BY <3>1 DEF Transform, BodyRead, Usable, BodyComplete
    <3>2. CASE Copy
      BY <3>2 DEF Copy, BodyComplete, BodyInv
    <3> QED BY <1>1, <3>1, <3>2
  <2>3. out' = <<1>> /\ src.end = "eof" /\ src.pc = "body" => 1 <= Len(up)
    BY DEF BodyInv
  <2>4. CASE out = <<>>
    <3>1. Append(out, 0) = <<0>> /\ Append(out, 1) = <<1>> /\ Len(out) = 0
      BY <2>4
    <3> QED BY <1>0, <2>2, <2>3, <3>1
  <2> QED BY <2>1, <2>4
<1>2. CASE MergeChunk \/ NextChunk
  <2>1. CASE out' # out
    <3>1. PICK i \in 0 .. MaxStream : HandOver(i) /\ out' = Append(out, i)
      BY <1>2, <2>1 DEF MergeChunk, NextChunk
    <3>2. up' = up /\ Reading
      BY <1>2 DEF MergeChunk, NextChunk, Reading, CallInv
    <3>3. CASE conf.relay = "none" /\ src.pc = "send" /\ i = Len(up)
      <4>1. Delivered(Len(up) - 1)
        BY <3>2, <3>3 DEF DirectInv
      <4> QED BY <1>0, <3>1, <3>2, <3>3, <4>1 DEF Delivered
    <3>4. CASE conf.relay # "none" /\ relay.pc \in {"flush", "last"} /\ i = relay.fwd + 1 /\ i <= relay.ok
      <4>1. Delivered(relay.fwd) /\ i <= Len(up)
        BY <1>0, <3>2, <3>4 DEF RelayedInv, TypeOK, RelayStates
      <4>2. conf.relay = "moderate" /\ i > 0 => up[i] # "spam"
        BY <1>0, <3>4 DEF Passed, RelayStates
      <4> QED BY <1>0, <3>1, <3>2, <3>4, <4>1, <4>2, SMTT(30) DEF Delivered, RelayStates
    <3>5. CASE conf.relay = "moderate" /\ relay.pc = "swap" /\ i = 0
      <4>1. Delivered(relay.fwd)
        BY <3>2, <3>5 DEF RelayedInv
      <4> QED BY <1>0, <3>1, <3>2, <3>5, <4>1 DEF Delivered, RelayStates
    <3> QED BY <3>1, <3>3, <3>4, <3>5, Handed
  <2> QED BY <2>1
<1> QED BY <1>1, <1>2, Writers

\* An appended chunk is at the end, and the rest where it was.
LEMMA OutAppended ==
  ASSUME TypeOK, NEW i \in 0 .. MaxStream, out' = Append(out, i)
  PROVE  /\ Len(out') = Len(out) + 1 /\ Len(out) \in Nat /\ out'[Len(out) + 1] = i
         /\ \A k \in 1 .. Len(out) : out'[k] = out[k] /\ out[k] \in Nat
<1> DEFINE S == 0 .. MaxStream
<1>1. out \in Seq(S) /\ i \in S
  BY DEF TypeOK
<1>2. /\ Len(out') = Len(out) + 1 /\ Len(out) \in Nat /\ out'[Len(out) + 1] = i
      /\ \A k \in 1 .. Len(out) : out'[k] = out[k] /\ out[k] \in S
  <2> HIDE DEF S
  <2> QED BY <1>1, ChunkAppended
<1>3. \A k \in S : k \in Nat
  OBVIOUS
<1> QED BY <1>2, <1>3

\* What the consumer has are numbers of chunks.
LEMMA OutTyped ==
  ASSUME TypeOK
  PROVE  \A k \in 1 .. Len(out) : out[k] \in Nat
<1> DEFINE S == 0 .. MaxStream
<1>1. out \in Seq(S)
  BY DEF TypeOK
<1>2. \A k \in 1 .. Len(out) : out[k] \in S
  <2> HIDE DEF S
  <2> QED BY <1>1, ElementOfSeq
<1> QED BY <1>2

\* It takes only what was sent.
LEMMA NextKnown ==
  ASSUME TypeOK, WriterInv, CallInv, SourceInv, BodyInv, RelayInv, Passed, DirectInv, RelayedInv, Known, StreamNext
  PROVE  Known'
<1>0. Len(up) \in Nat /\ Len(up') \in Nat /\ Len(up) <= Len(up')
  BY NextUp DEF TypeOK
<1>1. CASE out' = out
  BY <1>0, <1>1, OutTyped DEF Known
<1>2. CASE \E i \in 0 .. MaxStream : out' = Append(out, i) /\ up' = up /\ i <= Len(up)
  <2>1. PICK i \in 0 .. MaxStream : out' = Append(out, i) /\ up' = up /\ i <= Len(up)
    BY <1>2
  <2> QED BY <2>1, OutAppended DEF Known
<1> QED BY <1>1, <1>2, NextTaken

\* It takes no chunk that the moderator refuses.
LEMMA NextSpam ==
  ASSUME TypeOK, WriterInv, CallInv, SourceInv, BodyInv, RelayInv, Passed, DirectInv, RelayedInv, Known, SpamHeldBack, StreamNext
  PROVE  SpamHeldBack'
<1> SUFFICES ASSUME conf.relay = "moderate", NEW n \in 1 .. Len(out'), out'[n] > 0
             PROVE  up'[out'[n]] # "spam"
  BY ConfKept DEF SpamHeldBack
<1>1. CASE out' = out
  <2>1. out[n] \in 1 .. Len(up)
    BY <1>1, OutTyped DEF Known
  <2> QED BY <1>1, <2>1, NextUp DEF SpamHeldBack
<1>2. CASE out' # out
  <2>1. PICK i \in 0 .. MaxStream : out' = Append(out, i) /\ up' = up /\ (i > 0 => up[i] # "spam")
    BY <1>2, NextTaken
  <2> QED BY <2>1, OutAppended DEF SpamHeldBack
<1> QED BY <1>1, <1>2

\* It takes the chunks in order, none twice.
LEMMA NextInOrder ==
  ASSUME TypeOK, WriterInv, CallInv, SourceInv, BodyInv, RelayInv, Passed, DirectInv, RelayedInv, Known, InOrder, StreamNext
  PROVE  InOrder'
<1> SUFFICES ASSUME NEW n \in 1 .. Len(out')
             PROVE  IF out'[n] = 0 THEN n = Len(out')
                    ELSE (\A m \in 1 .. n - 1 : out'[m] < out'[n]) /\ \A j \in 1 .. out'[n] : Had(j)'
  BY DEF InOrder, Had
<1>0. /\ Len(up) \in Nat
      /\ \A k \in 1 .. Len(out) :
           /\ out[k] \in Nat /\ out[k] <= Len(up)
           /\ IF out[k] = 0 THEN k = Len(out)
              ELSE (\A m \in 1 .. k - 1 : out[m] < out[k]) /\ \A j \in 1 .. out[k] : Had(j)
  <2>1. Len(up) \in Nat
    BY DEF TypeOK
  <2> QED BY <2>1, OutTyped DEF Known, InOrder, Had
<1>1. CASE out' = out
  <2>1. \A j \in 1 .. Len(up) : Had(j) => Had(j)'
    BY <1>1, NextHad DEF TypeOK
  <2> QED BY <1>0, <1>1, <2>1
<1>2. CASE out' # out
  <2>1. PICK i \in 0 .. MaxStream :
            /\ out' = Append(out, i) /\ up' = up /\ i <= Len(up)
            /\ \A k \in 1 .. Len(out) : out[k] > 0 /\ (i > 0 => out[k] < i)
            /\ \A j \in 1 .. i - 1 : Had(j)
    BY <1>2, NextTaken
  <2>2. \A j \in 1 .. Len(up) : Had(j) => Had(j)'
    BY <2>1, NextHad DEF TypeOK
  <2>3. /\ Len(out') = Len(out) + 1 /\ Len(out) \in Nat /\ out'[Len(out) + 1] = i
        /\ \A k \in 1 .. Len(out) : out'[k] = out[k]
    BY <2>1, OutAppended
  <2>4. \A j \in 1 .. Len(up) : j = i => Had(j)'
    BY <2>3 DEF Had, Taken
  <2>5. CASE n \in 1 .. Len(out)
    <3>1. out'[n] = out[n] /\ out[n] > 0 /\ out[n] <= Len(up) /\ out[n] \in Nat
      BY <1>0, <2>1, <2>3, <2>5
    <3>2. \A m \in 1 .. n - 1 : out'[m] < out'[n]
      BY <1>0, <2>3, <2>5, <3>1
    <3>3. \A j \in 1 .. out[n] : Had(j)'
      BY <1>0, <2>2, <2>5, <3>1
    <3> QED BY <3>1, <3>2, <3>3
  <2>6. CASE n = Len(out) + 1
    <3>1. out'[n] = i
      BY <2>3, <2>6
    <3>2. i > 0 => \A m \in 1 .. n - 1 : out'[m] < i
      BY <2>1, <2>3, <2>6
    <3>3. \A j \in 1 .. i : Had(j)'
      BY <1>0, <2>1, <2>2, <2>4
    <3> QED BY <2>3, <2>6, <3>1, <3>2, <3>3
  <2> QED BY <2>3, <2>5, <2>6
<1> QED BY <1>1, <1>2

\* The reply is whole when the client has it, or an engine holds all of it.
LEMMA NextAnswered ==
  ASSUME TypeOK, WriterInv, CallInv, SourceInv, BodyInv, CtxInv, RelayInv, DirectInv, RelayedInv, AnsweredInv, StreamNext
  PROVE  AnsweredInv'
<1> SUFFICES ASSUME Answered', ~gone', ~isSpam'
             PROVE  All' /\ NothingMore'
  BY DEF AnsweredInv
<1>0. handler \in Handlers /\ src \in Sources /\ Len(up) \in Nat
  BY DEF TypeOK
<1>1. ~gone /\ ~isSpam
  <2>1. ~gone
    BY Writers
  <2>2. ~isSpam
    BY Writers
  <2> QED BY <2>1, <2>2
<1>2. CASE out' = out /\ All /\ NothingMore
  BY <1>2, NoMore, NextAll
<1>3. CASE Transform
  <2>1. handler' \in Handlers /\ handler'.result \in {"error", "body"} /\ src'.pc = "exit"
    BY <1>0, <1>3, NextHandler DEF Transform, CloseBody, Answer, Sources, Handlers
  <2>2. handler'.result = "body"
    BY <2>1 DEF Answered
  <2>3. src.end = "eof" /\ src.pc = "body" /\ out' = <<1>> /\ up' = up
    <3>1. ~(Answer("error"))
      BY <1>0, <2>2 DEF Answer, Handlers
    <3>2. ~(isSpam' = TRUE)
      OBVIOUS
    <3> QED BY <1>3, <3>1, <3>2 DEF Transform, Usable, BodyComplete, BodyRead
  <2>4. Len(up') = 1 /\ 1 \in Taken'
    BY <2>3 DEF BodyInv, Taken
  <2>5. All'
    BY <2>4 DEF All, Had
  <2> QED BY <2>1, <2>5 DEF NothingMore
<1>4. CASE MergeEnds
  <2>1. Reading /\ OutClosed /\ out' = out
    BY <1>4 DEF MergeEnds, Reading
  <2>2. All /\ NothingMore
    BY <1>1, <2>1 DEF OutClosed, DirectInv, RelayedInv, NothingMore
  <2> QED BY <1>2, <2>1, <2>2
<1>5. CASE StreamOver
  <2>1. Reading /\ OutClosed /\ out' = out
    BY <1>5 DEF StreamOver, Reading, CallInv
  <2>2. All /\ NothingMore
    BY <1>1, <2>1 DEF OutClosed, DirectInv, RelayedInv, NothingMore
  <2> QED BY <1>2, <2>1, <2>2
<1>6. CASE Copy
  <2>1. handler.pc = "copy" /\ handler.result = "body"
    BY <1>6 DEF Copy, CallInv
  <2>2. CASE Answered
    <3>1. Streaming \/ conf.relay # "none"
      BY <2>1, <2>2 DEF Answered
    <3>2. src.pc # "body"
      BY <2>1, <3>1 DEF CallInv, SourceInv
    <3> QED BY <1>1, <1>2, <1>6, <2>2, <3>2 DEF AnsweredInv, Copy
  <2>3. CASE ~Answered
    <3>1. src.pc = "body"
      BY <2>1, <2>3 DEF Answered, CallInv
    <3>2. src.end \in {"eof", "error"} /\ UNCHANGED <<up, src>> /\ (src.end = "eof" => out' = <<1>>)
      BY <1>0, <1>1, <1>6, <2>1, <3>1 DEF Copy, BodyRead, BodyComplete, CtxInv, Sources
    <3>3. src.end = "eof" => Len(up') = 1 /\ 1 \in Taken'
      BY <3>1, <3>2 DEF BodyInv, Taken
    <3>4. src.end = "error" => Len(up') = 0
      BY <3>1, <3>2 DEF BodyInv
    <3>5. All'
      <4>1. CASE src.end = "eof"
        <5>1. Len(up') = 1 /\ 1 \in Taken'
          BY <3>3, <4>1
        <5> QED BY <5>1 DEF All, Had
      <4>2. CASE src.end = "error"
        BY <3>4, <4>2 DEF All
      <4> QED BY <3>2, <4>1, <4>2
    <3> QED BY <3>1, <3>2, <3>5 DEF NothingMore
  <2> QED BY <2>2, <2>3
<1>7. CASE ~Transform /\ ~MergeEnds /\ ~StreamOver /\ ~Copy
  <2>1. Answered
    <3>0. ~CallAnswers
      <4> SUFFICES ASSUME CallAnswers PROVE FALSE
        OBVIOUS
      <4>1. handler.result = "none"
        BY DEF CallAnswers, CallInv, Calling
      <4>2. IF conf.relay = "none" THEN handler'.pc = "settle" ELSE handler'.result = "none"
        BY <1>0, <4>1 DEF CallAnswers, Answer, Goto, Handlers
      <4>3. ~Streaming' /\ conf'.relay = conf.relay
        BY ConfKept DEF Streaming
      <4>4. handler'.result # "stream"
        BY <1>0, <4>1 DEF CallAnswers, Answer, Goto, Handlers
      <4> QED BY <4>2, <4>3, <4>4 DEF Answered
    <3>1. CASE handler' = handler
      BY <3>0, <3>1, Writers DEF Answered, Streaming
    <3>2. CASE Signal \/ Admitted
      BY <1>0, <3>2 DEF Answered, Signal, Admitted, Goto, CallInv, Calling, Handlers
    <3>3. CASE Refused \/ CallFails
      BY <1>0, <3>3 DEF Answered, Refused, CallFails, Answer, Handlers
    <3>4. CASE CallStreams
      BY <1>0, <3>4 DEF Answered, CallStreams, Answer, Goto, Streaming, CallInv, Calling, Handlers
    <3>5. CASE MergeChunk
      <4>1. handler' = handler \/ Answer("error")
        BY <3>5 DEF MergeChunk
      <4> QED BY <1>0, <3>1, <4>1 DEF Answered, Answer, Handlers
    <3>6. CASE Settle \/ WriteReply
      BY <1>0, <3>0, <3>6, Writers DEF Answered, Settle, WriteReply, Goto, Streaming, Handlers
    <3>7. CASE NextChunk \/ WriteChunk
      BY <1>0, <3>7 DEF Answered, NextChunk, WriteChunk, Goto, CallInv, Handlers
    <3>8. CASE Close \/ Over
      BY <1>0, <3>0, <3>8, Writers DEF Answered, Close, Over, Goto, Handlers
    <3> QED BY <1>7, <3>0, <3>1, <3>2, <3>3, <3>4, <3>5, <3>6, <3>7, <3>8, Writers DEF HandlerStep,
        CallReturns
  <2>2. ~MergeChunk /\ ~NextChunk
    BY <2>1 DEF Answered, MergeChunk, NextChunk, CallInv
  <2> QED BY <1>1, <1>2, <1>7, <2>1, <2>2, Writers DEF AnsweredInv
<1> QED BY <1>3, <1>4, <1>5, <1>6, <1>7

-----------------------------------------------------------------------------
(* The theorems.                                                           *)

\* The inductive invariant.
ResponseInv ==
    /\ TypeOK /\ WriterInv /\ CallInv /\ SourceInv /\ SlotInv /\ BodyInv /\ CtxInv /\ RelayInv
    /\ Passed /\ Known /\ DirectInv /\ RelayedInv /\ AnsweredInv /\ SpamHeldBack /\ InOrder

\* It holds when the request comes in,
LEMMA InitResponseInv == StreamInit => ResponseInv
<1> SUFFICES ASSUME StreamInit PROVE ResponseInv
  OBVIOUS
<1>1. /\ up = <<>> /\ out = <<>> /\ Len(up) = 0 /\ Len(out) = 0
      /\ up \in Seq(ChunkKinds) /\ out \in Seq(0 .. MaxStream)
  BY DEF StreamInit
<1>2. TypeOK
  <2>1. relay \in RelayStates
    BY StreamAssumption DEF StreamInit, RelayStates
  <2>2. src \in Sources /\ handler \in Handlers /\ beat \in Beats
    BY StreamAssumption DEF StreamInit, Sources, Handlers, Beats
  <2>3. relay.fwd = 0 /\ relay.got = 0 /\ relay.ok = 0
    BY DEF StreamInit
  <2>4. conf \in [kind : RequestKinds, relay : Relays] /\ ctx \in [req : BOOLEAN, src : BOOLEAN, relay : BOOLEAN]
    BY DEF StreamInit
  <2>5. slot \in {"none", "held", "freed"} /\ gone \in BOOLEAN /\ isSpam \in BOOLEAN
    BY DEF StreamInit
  <2> QED BY <1>1, <2>1, <2>2, <2>3, <2>4, <2>5, StreamAssumption DEF TypeOK
<1>3. WriterInv /\ CallInv /\ SourceInv /\ SlotInv /\ BodyInv /\ CtxInv
  BY <1>1 DEF StreamInit, WriterInv, CallInv, SourceInv, SlotInv, BodyInv, CtxInv, Calling, Reading,
      Returned
<1>4. RelayInv /\ DirectInv /\ RelayedInv /\ AnsweredInv
  BY <1>1 DEF StreamInit, RelayInv, DirectInv, RelayedInv, AnsweredInv, Reading, Answered
<1>5. Passed /\ Known /\ SpamHeldBack /\ InOrder
  BY <1>1 DEF StreamInit, Passed, Known, SpamHeldBack, InOrder
<1> QED BY <1>2, <1>3, <1>4, <1>5 DEF ResponseInv

\* and every step of every goroutine keeps it.
LEMMA NextResponseInv == ResponseInv /\ [StreamNext]_streamVars => ResponseInv'
<1> SUFFICES ASSUME ResponseInv, [StreamNext]_streamVars PROVE ResponseInv'
  OBVIOUS
<1>1. CASE UNCHANGED streamVars
  BY <1>1 DEF ResponseInv, streamVars, TypeOK, WriterInv, CallInv, SourceInv, SlotInv, BodyInv, CtxInv,
      RelayInv, Passed, Known, DirectInv, RelayedInv, AnsweredInv, SpamHeldBack, InOrder,
      Reading, Calling, Streaming, RelayDone, Delivered, All, Had, Taken, Skipped, NothingMore,
      Answered
<1>2. CASE StreamNext
  <2> USE <1>2 DEF ResponseInv
  <2>1. TypeOK' /\ WriterInv' /\ CallInv' /\ SourceInv'
    BY NextType, NextWriter, NextCall, NextSource
  <2>2. SlotInv' /\ BodyInv' /\ CtxInv' /\ RelayInv'
    BY NextSlotInv, NextBody, NextCtx, NextRelayInv
  <2>3. Passed' /\ Known' /\ DirectInv' /\ RelayedInv' /\ AnsweredInv'
    BY NextPassed, NextKnown, NextDirect, NextRelayed, NextAnswered
  <2>4. SpamHeldBack' /\ InOrder'
    BY NextSpam, NextInOrder
  <2> QED BY <2>1, <2>2, <2>3, <2>4
<1> QED BY <1>1, <1>2

\* The invariant holds in every state of the pipeline.
THEOREM StreamInvariant == StreamSpec => []ResponseInv
<1> QED BY InitResponseInv, NextResponseInv, PTL DEF StreamSpec

\* Every reachable state has the declared types.
THEOREM StreamTypeCorrect == StreamSpec => []TypeOK
<1>1. ResponseInv => TypeOK
  BY DEF ResponseInv
<1> QED BY <1>1, StreamInvariant, PTL

\* No chunk that the moderation service refuses reaches the client, for every
\* number of chunks and every size of the batches.
THEOREM NoSpamPasses == StreamSpec => []SpamHeldBack
<1>1. ResponseInv => SpamHeldBack
  BY DEF ResponseInv
<1> QED BY <1>1, StreamInvariant, PTL

\* The client gets the chunks in the order of the upstream and none of them
\* twice, wherever the upstream breaks off or the client leaves.
THEOREM ChunksInOrder == StreamSpec => []InOrder
<1>1. ResponseInv => InOrder
  BY DEF ResponseInv
<1> QED BY <1>1, StreamInvariant, PTL

\* A reply that ends without the client leaving, a failed write or a refusal
\* has all the chunks that were read, the tail a moderator held back included.
THEOREM RepliesComplete == StreamSpec => []Complete
<1>1. ResponseInv => Complete
  BY DEF ResponseInv, Complete, Unhindered, AnsweredInv, Answered, All, Had
<1> QED BY <1>1, StreamInvariant, PTL

\* The handler and its keep-alive goroutine never write at the same time.
THEOREM OneWriterOnly == StreamSpec => []OneWriter
<1>1. ResponseInv => OneWriter
  BY DEF ResponseInv, OneWriter, WriterInv
<1> QED BY <1>1, StreamInvariant, PTL
=============================================================================
