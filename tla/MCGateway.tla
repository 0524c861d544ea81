----------------------------- MODULE MCGateway -----------------------------
(* An instance of Gateway: any two requests of these kinds. *)
EXTENDS Gateway

CONSTANTS r1, r2, k1

Request(route, token, malformed, key) ==
    [route |-> route, token |-> token, malformed |-> malformed, key |-> key]

Valid(route, token) == Request(route, token, FALSE, NoKey)

MCKind ==
    {Request("create", "USER", malformed, key) : malformed \in BOOLEAN, key \in {NoKey, k1}}
    \cup {Request("pay", token, FALSE, k1) : token \in Roles}
    \cup {Valid("me", token) : token \in {"none", "invalid", "USER"}}
    \cup {Valid("login", "none"), Valid("get", "roleless"), Valid("prismaCreate", "OPERATOR")}
=============================================================================
