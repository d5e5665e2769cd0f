--------------------------- MODULE ClaudeConversion ---------------------------
(***************************************************************************)
(* The parts of the Claude converter (pkg/engines/converter/claude.go)     *)
(* that turn one value into another: a request, and an answer that is no   *)
(* stream.                                                                 *)
(*                                                                         *)
(* A block of a Claude message has a kind, an id (of a call, or of the     *)
(* call a result is for) and data.  A chat message has a role, the data of *)
(* its parts, its calls, and the id of the call it answers.                *)
(***************************************************************************)
EXTENDS StreamMerge

Only(blocks, kinds) == Selected(blocks, LAMBDA b : b.kind \in kinds)
DataOf(blocks) == [i \in DOMAIN blocks |-> blocks[i].data]

-----------------------------------------------------------------------------
(* convertNonStreamResponseBody.                                           *)

\* mapFinishReason: any other reason stays what it is.
MapFinishReason(reason) ==
    CASE reason = "stop" -> "end_turn"
      [] reason = "length" -> "max_tokens"
      [] reason = "tool_calls" -> "tool_use"
      [] OTHER -> reason

\* Prompt tokens count the cached ones, input tokens do not.
ClaudeUsage(u) ==
    IF u = Nil THEN Nil
    ELSE IF u.cached > 0
    THEN [input |-> u.prompt - u.cached, output |-> u.completion, cacheRead |-> u.cached]
    ELSE [input |-> u.prompt, output |-> u.completion]

WithFunction(calls) == Selected(calls, LAMBDA c : c.hasFunc)

\* The marshalling fails on arguments that are no JSON, as none at all are;
\* what else is no JSON is left to the failures of the answer.
Unmarshallable(chat) == \E i \in DOMAIN chat.calls : chat.calls[i].hasFunc /\ chat.calls[i].args = <<>>

\* Thinking, then the text, then the calls, in whatever order they came.
WholeContent(chat) ==
    (IF chat.thinking # Nil THEN <<[kind |-> "thinking", id |-> Nil, data |-> chat.thinking]>> ELSE <<>>)
    \o (IF chat.text \notin {Nil, <<>>} THEN <<[kind |-> "text", id |-> Nil, data |-> chat.text]>> ELSE <<>>)
    \o [i \in DOMAIN WithFunction(chat.calls) |->
           [kind |-> "tool_use", id |-> WithFunction(chat.calls)[i].id, data |-> WithFunction(chat.calls)[i].args]]

ConvertedWhole(chat) ==
    [started |-> TRUE, blocks |-> WholeContent(chat), usage |-> ClaudeUsage(chat.usage), error |-> FALSE,
     stop |-> IF chat.finish = Nil THEN "" ELSE MapFinishReason(chat.finish)]

-----------------------------------------------------------------------------
(* convertRequestBody.                                                     *)

Message(role, parts, calls, answers) ==
    [role |-> role, parts |-> parts, calls |-> calls, answers |-> answers]

\* A first system block with the billing header is left out.
System(system) ==
    LET kept == IF system # <<>> /\ Head(system) = "billing" THEN Tail(system) ELSE system
    IN  [i \in DOMAIN kept |-> Message("system", <<kept[i]>>, <<>>, Nil)]

\* Altered: results stay behind the text of their message.
UserMessagesTextFirst(content) ==
    LET results == Selected(content, LAMBDA b : b.kind = "tool_result" /\ b.id # Nil)
        parts == DataOf(Only(content, {"text", "image"}))
    IN  (IF parts # <<>> THEN <<Message("user", parts, <<>>, Nil)>> ELSE <<>>)
        \o [i \in DOMAIN results |-> Message("tool", <<results[i].data>>, <<>>, results[i].id)]
\* Each result with an id becomes a message of its own; these come before
\* the message with the texts and images.
UserMessages(content) ==
    LET results == Selected(content, LAMBDA b : b.kind = "tool_result" /\ b.id # Nil)
        parts == DataOf(Only(content, {"text", "image"}))
    IN  [i \in DOMAIN results |-> Message("tool", <<results[i].data>>, <<>>, results[i].id)]
        \o (IF parts # <<>> THEN <<Message("user", parts, <<>>, Nil)>> ELSE <<>>)

\* Texts and calls; thinking is left out, and the message is there anyway.
AssistantMessages(content) ==
    LET uses == Only(content, {"tool_use"})
        calls == [i \in DOMAIN uses |-> [index |-> i - 1, id |-> uses[i].id, args |-> uses[i].data]]
    IN  <<Message("assistant", DataOf(Only(content, {"text"})), calls, Nil)>>

Converted(message) ==
    CASE message.role = "user" -> UserMessages(message.content)
      [] message.role = "assistant" -> AssistantMessages(message.content)
      [] OTHER -> <<>>

\* The choice of tools; a tool of no name cannot be chosen.
ToolChoice(choice) ==
    CASE choice = "any" -> "required"
      [] choice = "unnamed" -> Nil
      [] OTHER -> choice

ConvertedRequest(req) ==
    [stream |-> req.stream,
     thinking |-> IF req.thinking \in {Nil, "enabled"} THEN req.thinking ELSE "disabled",
     tools |-> Selected(req.tools, LAMBDA t : t # ""),
     choice |-> ToolChoice(req.choice),
     messages |-> System(req.system)
                  \o Concat([i \in DOMAIN req.messages |-> Converted(req.messages[i])])]
=============================================================================
