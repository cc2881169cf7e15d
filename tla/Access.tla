-------------------------------- MODULE Access --------------------------------
(***************************************************************************)
(* Who a request to the server comes from: the Authorization header        *)
(* (PlazmaServer/src/utils/auth.hpp) and the token in it                   *)
(* (PlazmaServer/src/utils/jwt.cpp).                                       *)
(***************************************************************************)

CONSTANTS
    Users,
    NoUser      \* null

(* A token: the claims of its payload, and whether its signature is the    *)
(* one the secret of the server gives for them.                            *)
Token == [sub : Users, exp : {"ahead", "past"}, signed : BOOLEAN]

(* 30 days ahead; the token of an earlier login may have expired.          *)
Mint(u) == [sub |-> u, exp |-> "ahead", signed |-> TRUE]

(* A header that is missing; of another scheme, or too short; with         *)
(* something that does not have the three parts of a token; with a token.  *)
Headers ==
    [scheme : {"none", "other", "garbled"}, token : {Mint(u) : u \in Users}]
        \cup [scheme : {"bearer"}, token : Token]

(* The claim "sub", or nothing.                                            *)
Verify(token) ==
    IF token.signed /\ token.exp = "ahead" THEN token.sub ELSE NoUser

ExtractAuth(header) ==
    LET user == Verify(header.token) IN
    CASE header.scheme = "none" -> [result |-> "anonymous", user |-> NoUser]
      [] header.scheme \in {"other", "garbled"} -> [result |-> "invalid", user |-> NoUser]
      [] header.scheme = "bearer" ->
            [result |-> IF user = NoUser THEN "invalid" ELSE "authenticated", user |-> user]

Invalid(header) == ExtractAuth(header).result = "invalid"
Authenticated(header) == ExtractAuth(header).result = "authenticated"
IsUser(header, u) == ExtractAuth(header) = [result |-> "authenticated", user |-> u]
================================================================================
