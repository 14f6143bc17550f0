--------------------------- MODULE ChatServiceMC ----------------------------
(* One answer of each sort the client tells apart; a chat, a stream and a     *)
(* request of somebody else, with one connection fewer than requests.         *)
EXTENDS ChatService

CONSTANTS r1, r2, r3, c1, c2

Response(status, quota, body) ==
  [arrived |-> "response", status |-> status, quota |-> quota, body |-> body]
Raised(exception) ==
  [arrived |-> exception, status |-> 0, quota |-> FALSE, body |-> "none"]

SomeAnswers ==
  {Response(200, FALSE, body) : body \in {"reply", "unusable", "garbage"}}
    \union {Response(status, FALSE, "none") : status \in {401, 404, 429, 503}}
    \union {Response(429, TRUE, "none")}
    \union {Raised("timeout"), Raised("transport")}

Limits == [bucket \in Bucket |-> CASE bucket = "auth" -> 0
                                   [] bucket = "chat" -> 2
                                   [] OTHER -> 1]

Clients == [r \in Request |-> IF r = r3 THEN c2 ELSE c1]

Asks == [r \in Request |-> CASE r = r1 -> {"chat"}
                             [] r = r2 -> {"stream"}
                             [] OTHER -> {"read", "login", "readyz", "options"}]
=============================================================================
