----------------------------- MODULE StreamMerge -----------------------------
(***************************************************************************)
(* The two mergers of pkg/streammerge: the chunks of a chat completion     *)
(* folded into one answer, and Claude events folded into one message.      *)
(*                                                                         *)
(* A text is the sequence of its fragments.  A chunk has thinking and text *)
(* (either may be empty), fragments of tool calls, a finish reason and a   *)
(* usage, the last two Nil in most.  A fragment of a call has an index, an *)
(* id (Nil but in the first) and a function: Nil, or the fragment of its   *)
(* arguments.                                                              *)
(***************************************************************************)
EXTENDS SequenceFolds

CONSTANT Nil
\* What a block of a message is made of.
Kinds == {"thinking", "text", "tool_use"}
Data == Seq(Nat)
Blocks == [kind : Kinds, id : Nat \cup {Nil}, data : Data]
\* None of these is what stands for none.
ASSUME NilAssumption == Nil \notin Kinds /\ Nil \notin Nat /\ Nil \notin Data /\ Nil \notin Blocks

-----------------------------------------------------------------------------
(* chatCompletionMerger, for the one choice there is.                      *)

NoChat == [thinking |-> Nil, text |-> Nil, calls |-> <<>>, finish |-> Nil, usage |-> Nil]

\* mergeChatCompletionUsage: fields that are not zero go over earlier ones.
MergedUsage(u, v) ==
    IF v = Nil THEN u
    ELSE IF u = Nil THEN v
    ELSE [f \in DOMAIN u |-> IF v[f] # 0 THEN v[f] ELSE u[f]]

NewCall(fragment) == [index |-> fragment.index, id |-> Nil, hasFunc |-> FALSE, args |-> <<>>]
WithFragment(call, fragment) ==
    [call EXCEPT !.id = IF fragment.id # Nil THEN fragment.id ELSE @,
                 !.hasFunc = @ \/ fragment.function # Nil,
                 !.args = IF fragment.function # Nil THEN @ \o fragment.function ELSE @]

\* mergeToolCall: the call of this index, or a new one at the end.
MergeToolCall(calls, fragment) ==
    IF \E i \in DOMAIN calls : calls[i].index = fragment.index
    THEN [i \in DOMAIN calls |->
             IF calls[i].index = fragment.index THEN WithFragment(calls[i], fragment) ELSE calls[i]]
    ELSE Append(calls, WithFragment(NewCall(fragment), fragment))
MergeToolCalls(calls, fragments) ==
    LET upTo[n \in 0 .. Len(fragments)] ==
            IF n = 0 THEN calls ELSE MergeToolCall(upTo[n - 1], fragments[n])
    IN  upTo[Len(fragments)]

\* A text that was seen is kept, also when it is empty.
Appended(text, fragment) ==
    IF fragment = Nil THEN text ELSE IF text = Nil THEN fragment ELSE text \o fragment

ChatMerge(chat, chunk) ==
    [thinking |-> Appended(chat.thinking, chunk.thinking),
     text     |-> Appended(chat.text, chunk.text),
     calls    |-> MergeToolCalls(chat.calls, chunk.calls),
     finish   |-> IF chunk.finish # Nil THEN chunk.finish ELSE chat.finish,
     usage    |-> MergedUsage(chat.usage, chunk.usage)]

-----------------------------------------------------------------------------
(* claudeMessagesMerger.  Its blocks are numbered from 1 here.             *)

NoMessage == [started |-> FALSE, blocks |-> <<>>, stop |-> Nil, usage |-> Nil, error |-> FALSE]

\* The events.  kind is the kind of a block, or of the block a delta is for.
Plain(type) == [type |-> type, index |-> 0]
BlockEvent(type, index) == [type |-> type, index |-> index]
BlockStarted(index, kind, id) ==
    [type |-> "content_block_start", index |-> index, kind |-> kind, id |-> id]
Delta(index, kind, fragment) ==
    [type |-> "content_block_delta", index |-> index, kind |-> kind, fragment |-> fragment]
MessageTold(stop, usage) ==
    [type |-> "message_delta", index |-> 0, stop |-> stop, usage |-> usage]

\* newBlockAcc, at its place in a list that grows as needed.
WithBlock(blocks, event) ==
    [i \in 1 .. (IF event.index + 1 > Len(blocks) THEN event.index + 1 ELSE Len(blocks)) |->
        IF i = event.index + 1 THEN [kind |-> event.kind, id |-> event.id, data |-> <<>>]
        ELSE IF i <= Len(blocks) THEN blocks[i] ELSE Nil]

\* applyDelta: a delta of another kind than its block is dropped.
ApplyDelta(block, event) ==
    IF block.kind = event.kind THEN [block EXCEPT !.data = @ \o event.fragment] ELSE block

\* mergeClaudeUsage: the counts a later event has go over earlier ones.
OverlaidUsage(u, v) ==
    IF v = Nil THEN u
    ELSE IF u = Nil THEN v
    ELSE [f \in DOMAIN u \cup DOMAIN v |-> IF f \in DOMAIN v THEN v[f] ELSE u[f]]

\* Where a delta has no block, Merge returns an error.
HasBlock(message, event) ==
    IF event.index + 1 \in DOMAIN message.blocks
    THEN message.blocks[event.index + 1] # Nil ELSE FALSE

ClaudeMerge(message, event) ==
    CASE event.type = "message_start" ->
            [message EXCEPT !.started = TRUE,
                            !.usage = OverlaidUsage(@, [input |-> 0, output |-> 0])]
      [] event.type = "content_block_start" ->
            [message EXCEPT !.blocks = WithBlock(@, event)]
      [] event.type = "content_block_delta" ->
            IF HasBlock(message, event)
            THEN [message EXCEPT !.blocks[event.index + 1] = ApplyDelta(@, event)]
            ELSE [message EXCEPT !.error = TRUE]
      [] event.type = "message_delta" ->
            [message EXCEPT !.stop = event.stop, !.usage = OverlaidUsage(@, event.usage)]
      [] OTHER -> message

\* build: a call without arguments gets the empty object, which 0 stands for.
EmptyObject == <<0>>
Built(block) ==
    IF block.kind = "tool_use" /\ block.data = <<>> THEN [block EXCEPT !.data = EmptyObject] ELSE block

\* finalize: the blocks there are.
Content(message) ==
    LET there == Selected(message.blocks, LAMBDA b : b # Nil)
    IN  [i \in DOMAIN there |-> Built(there[i])]
=============================================================================
