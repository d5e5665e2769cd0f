------------------------------ MODULE MCComposer ------------------------------
(* One model that is private at first and internal after an update, which  *)
(* also moves a backend: an organisation with rules of its own, one more    *)
(* with a key, and clients without.  Two backends share the header map of a *)
(* global one, one has a header of its own and cannot be built at first,    *)
(* one converts.                                                            *)
EXTENDS Composer

NoRewrites == [w \in RewriteFields |-> Nil]
NoMaps == [f \in MapFields |-> Nil]
Sets(v) == [set |-> ("model" :> v), remove |-> {"top_p"}]

Provider == [use |-> Nil, own |-> ("base_url" :> "provider"),
             maps |-> [NoMaps EXCEPT !["headers"] = ("X-Key" :> "global")],
             rewrites |-> [NoRewrites EXCEPT !["request"] = Sets("global")]]
First == [use |-> "provider", own |-> ("http_proxy" :> "proxy"),
          maps |-> [NoMaps EXCEPT !["headers"] = ("X-Key" :> "first")],
          rewrites |-> [NoRewrites EXCEPT !["post"] = Sets("post")]]
Second == [use |-> "provider", own |-> ("base_url" :> "second"),
           maps |-> [NoMaps EXCEPT !["headers"] = ("X-Key" :> "second")],
           rewrites |-> [NoRewrites EXCEPT !["request"] = Sets("second")]]
Converting == [use |-> Nil, own |-> ("convert_to_messages" :> "from_chat") @@ ("base_url" :> "chat"),
               maps |-> NoMaps, rewrites |-> [NoRewrites EXCEPT !["request"] = [set |-> ("model" :> "chat"), remove |-> {}]]]
Uncompiled == [Second EXCEPT !.maps["headersByExpr"] = ("X-Time" :> "invalid")]

Deny(match) == [match |-> match, deny |-> TRUE, forward_weights |-> Nothing]
Forward(match, weights) == [match |-> match, deny |-> FALSE, forward_weights |-> weights]

File1 == [backends |-> ("provider" :> Provider),
          models |-> ("m" :> [access |-> "private",
                              backends |-> ("default:1" :> First) @@ ("vip" :> Uncompiled),
                              default_rules |-> <<Deny("long")>>])
                     @@ ("x" :> [access |-> "public", backends |-> Nothing,
                                 default_rules |-> <<Forward("long", ("vip" :> 1))>>]),
          users |-> ("a" :> [api_keys |-> ("u" :> "ka"),
                             models |-> ("m" :> <<Forward("stream", ("vip" :> 1))>>)])
                    @@ ("b" :> [api_keys |-> ("u" :> "kb"), models |-> Nothing])]
File2 == [File1 EXCEPT
    !.models["m"].access = "internal",
    !.models["m"].backends = ("default:1" :> Second) @@ ("default:2" :> Converting) @@ ("vip" :> First),
    !.models["x"].default_rules = <<>>,
    !.users["b"].models = ("m" :> <<Forward("stream", ("vip" :> 0) @@ ("default:2" :> 1))>>)]
MCFiles == <<File1, File2>>

Asked(key, model, traits, format) ==
    [key |-> key, model |-> model, traits |-> traits, format |-> format,
     body |-> ("model" :> model) @@ ("top_p" :> "1")]
MCKinds == {Asked("ka", "m", {"stream", "long"}, "messages"), Asked("ka", "m", {"long"}, "messages"),
            Asked("kb", "m", {}, "messages"), Asked("kb", "m", {}, "chat"), Asked("none", "m", {}, "chat"),
            Asked("none", "x", {}, "chat")}
MCDefaultNames == {"default:1", "default:2"}
=============================================================================
