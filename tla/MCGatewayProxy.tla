---------------------------- MODULE MCGatewayProxy ----------------------------
(* Small instances of GatewayProxy for TLC. *)
EXTENDS GatewayProxy

CONSTANTS k1, gpt, mini

Chat(model, stream) == [key |-> k1, provider |-> "configured", body |-> "object",
                        model |-> model, stream |-> stream]
Bare(key, provider, body) == [key |-> key, provider |-> provider, body |-> body,
                              model |-> NoModel, stream |-> FALSE]

(* Chats, an upload that is not JSON, and the requests that are turned away. *)
SomeInputs == {Chat(gpt, FALSE), Chat(mini, TRUE), Bare(k1, "configured", "text"),
               Bare("none", "configured", "empty"), Bare(k1, "unknown", "empty"),
               Bare(k1, "keyless", "empty"), Bare(k1, "configured", "array")}
Forwardable == {Chat(gpt, FALSE), Chat(gpt, TRUE), Bare(k1, "configured", "text")}

AllowAll     == {{}}
AllowSome    == {{}, {gpt}, {mini}}
OneCent      == {1}
UpToTwoCents == {1, 2}
===============================================================================
