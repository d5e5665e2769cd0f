----------------------------- MODULE BackendChain -----------------------------
(***************************************************************************)
(* The engines that BuildEngineByBackend puts around the client of a       *)
(* backend, as a function of the request: request rewrites outermost, then *)
(* the conversion to chat completions, the header expressions, the headers *)
(* and the rewrites after the conversion.  All of them change the request  *)
(* object itself, which a load balancer uses again for its next attempt.   *)
(*                                                                         *)
(* A request has a format, a body and headers.  A body is written in one   *)
(* format and read by the parser of a format; keys stands for its JSON.    *)
(***************************************************************************)
EXTENDS ModelRepo

\* RewriteJSON: keys are removed first and set then.
RewriteJSON(policy, body) ==
    IF policy = Nil THEN body
    ELSE [body EXCEPT !.keys =
             Over(policy.set, [k \in DOMAIN body.keys \ policy.remove |-> body.keys[k]])]
Rewritten(policy, req) == [req EXCEPT !.body = RewriteJSON(policy, @)]

Converts(b) == "convert_to_messages" \in DOMAIN b.own

\* convertRequestBody and what Process assigns: a new body, and the format.
Converted(b, req) ==
    IF Converts(b) /\ req.format = "messages"
    THEN [req EXCEPT !.format = "chat",
                     !.body = [writtenAs |-> "chat", readAs |-> "chat", keys |-> @.keys]]
    ELSE req

\* AddHeaderByExprEngine, and AddHeaderEngine after it.
ExprHeaders(b, header) == Over(b.maps["headersByExpr"], header)
AddedHeaders(b, header) == Over(b.maps["headers"], header)
WithHeaders(b, req) == [req EXCEPT !.header = AddedHeaders(b, ExprHeaders(b, @))]

Before(b, req) == Converted(b, Rewritten(b.rewrites["request"], req))

\* The request that comes to the client of the backend.
Received(b, req) == Rewritten(b.rewrites["post"], WithHeaders(b, Before(b, req)))

Sendable(b, req) == Received(b, req).format \in Endpoints(b)

\* The format the caller gets its answer in: the converter turns answers
\* back when it converted the request.
AnsweredIn(b, req) ==
    IF Before(b, req).format # req.format THEN "messages" ELSE Received(b, req).format

\* Altered: the rewrite is not taken back.
AfterFailureKept(b, req) == WithHeaders(b, Before(b, req))
\* The request as a failed attempt leaves it.  Each rewrite engine puts the
\* bytes it read back into the body the request has now; format, body object
\* and headers stay.
AfterFailure(b, req) ==
    LET left == WithHeaders(b, Before(b, req))
    IN  IF b.rewrites["request"] = Nil THEN left
        ELSE [left EXCEPT !.body = [@ EXCEPT !.writtenAs = req.body.writtenAs,
                                             !.keys = req.body.keys]]
=============================================================================
