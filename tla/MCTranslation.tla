---------------------------- MODULE MCTranslation ----------------------------
(* Chunks of every make, among them several kinds and calls in one, and     *)
(* usages that follow each other: one grows, and one is spread, as in       *)
(* TestChatCompletionMerger_UsageSplitAcrossChunks.                         *)
EXTENDS Translation

Shape(thinking, text, calls, reason) ==
    [thinking |-> thinking, text |-> text, calls |-> calls, finish |-> reason, usage |-> Nil]
Spent(prompt, completion, cached) ==
    [thinking |-> "none", text |-> "none", calls |-> <<>>, finish |-> Nil,
     usage |-> [prompt |-> prompt, completion |-> completion, cached |-> cached]]
MCShapes == {
    Shape("some", "none", <<>>, Nil), Shape("none", "some", <<>>, Nil), Shape("some", "some", <<>>, Nil),
    Shape("blank", "blank", <<>>, "stop"), Shape("none", "none", <<"empty">>, Nil),
    Shape("none", "none", <<"more">>, "tool_calls"), Shape("none", "some", <<"new", "new">>, Nil),
    Shape("none", "none", <<"more", "new">>, "length"), Shape("none", "none", <<"bare">>, Nil),
    Spent(0, 0, 1), Spent(3, 2, 0), Spent(3, 2, 1)}

Question == [role |-> "user", content |-> <<[kind |-> "text", id |-> Nil, data |-> <<0>>]>>]
Asked(stream, format) ==
    [stream |-> stream, format |-> format, thinking |-> "enabled", system |-> <<"billing", "prompt">>,
     tools |-> <<"tool">>, choice |-> "any", messages |-> <<Question>>]
MCAsks == {Asked(TRUE, "messages"), Asked(FALSE, "messages")}
MCAllowlists == {Nil, {}, {"chat"}}
=============================================================================
