--------------------------------- MODULE Replies ---------------------------------
(***************************************************************************)
(* How an answer of the server reaches a callback: RequestBuilder::send()  *)
(* (Plazma/src/api.cpp) and the guards it is unwrapped with                *)
(* (Plazma/src/validators).  What matters of a body is the JSON type of    *)
(* the fields that are asked for; a body that is not an object has none.   *)
(***************************************************************************)

Types == {"array", "object", "string", "number", "other", "missing",
          "empty string", "number <= 0"}

(* JsonTraits<T>::matches().                                               *)
Matches(T, type) ==
    \/ type = T
    \/ T = "string" /\ type = "empty string"
    \/ T = "number" /\ type = "number <= 0"

(* extract<T>(): the field is there and is a T.                            *)
Extracts(T, body, key) == Matches(T, body[key])

ExtractsNonEmptyString(body, key) == Extracts("string", body, key) /\ body[key] # "empty string"
ExtractsPositiveInteger(body, key) == Extracts("number", body, key) /\ body[key] # "number <= 0"

(* resolveField<T>(): a body without the field calls nobody.               *)
ResolveField(T, body, key) == IF Extracts(T, body, key) THEN "done" ELSE "garbled"
ResolveArrayField(body, key) == ResolveField("array", body, key)
ResolveObjectField(body, key) == ResolveField("object", body, key)

(* What can come for a request whose answer should be the body whole: a    *)
(* failure of the connection or of the server, or a 2xx status with that   *)
(* body or one in which a field is something else.                         *)
Failure == [ok |-> FALSE, body |-> <<>>]
Replies(whole) ==
    {Failure} \cup {[ok |-> TRUE, body |-> [whole EXCEPT ![key] = type]] :
                        key \in DOMAIN whole, type \in Types}

(* send(): the fail callback, or what the done callback makes of the body. *)
Outcome(reply, Done(_)) == IF reply.ok THEN Done(reply.body) ELSE "failed"
================================================================================
