--------------------------------- MODULE Login ---------------------------------
(***************************************************************************)
(* Signing in: TelegramClient (Plazma/src/client.cpp), whose polling       *)
(* thread takes updates and responses from TDLib and answers them with     *)
(* requests; the phone and code models and the Session, which live on the  *)
(* GUI thread and get the client's signals through its event queue; the    *)
(* login at the server (api.cpp, coreController.cpp, and the handler in    *)
(* PlazmaServer/src/handlers/user/auth_login.cpp).                         *)
(*                                                                         *)
(* TDLib is external: an authorization state, and a queue of what receive  *)
(* will return.  It answers every request, and puts the update a request   *)
(* causes before or after its response.                                    *)
(***************************************************************************)
EXTENDS Naturals, Sequences, FiniteSets, Replies

CONSTANTS MaxSubmits    \* bound: phone numbers and codes the user submits

Threads == {"gui", "polling"}
Kinds == {"version", "params", "phone", "code", "me"}

VARIABLES
    td,         \* TDLib's authorization state
    inbox,      \* TDLib's queue
    handlers,   \* response_handlers_, with the kind of the request
    lastId,     \* current_request_id_
    sending,    \* per thread: the request between its registration and its sending
    events,     \* the event queue of the GUI thread
    waiting,    \* waitingForPhone_, waitingForAuthCode_
    posts,      \* the logins whose answer the client waits for
    server,     \* what the handler at the server does next for the last one
    account,    \* users_by_phone has a row of this number
    valid,      \* Session::valid_
    message,    \* Session::errorMessage_
    submits

loginVars == <<td, inbox, handlers, lastId, sending, events, waiting, posts, server, account, valid, message, submits>>
serverVars == <<server, account>>
guiButServer == <<waiting, posts, valid, message>>
guiVars == <<guiButServer, serverVars>>

NotSending == [id |-> 0, kind |-> "none"]
Idle(t) == sending[t] = NotSending

Update(state) == [id |-> 0, kind |-> state, error |-> ""]
Response(r, error) == [id |-> r.id, kind |-> r.kind, error |-> error]

-------------------------------------------------------------------------------
(* TDLib, external: what request r makes of the state, and how it answers. *)
Outcomes(r) ==
    LET ok(state) == [state |-> state, error |-> ""]
        error(e) == [state |-> td, error |-> e]
    IN CASE r.kind = "params" -> {ok("phone"), ok("ready"), error("locked")}
         [] r.kind = "phone" /\ td = "params" -> {error("needed")}
         [] r.kind = "phone" /\ td \in {"phone", "code"} -> {ok("code"), error("invalid")}
         [] r.kind = "code" /\ td = "code" -> {ok("ready"), ok("password"), error("invalid")}
         [] r.kind \in {"phone", "code"} -> {error("unexpected")}
         [] OTHER -> {ok(td)}

TdServes(r) ==
    \E o \in Outcomes(r) :
        LET response == <<Response(r, o.error)>>
            update == IF r.kind \in {"params", "phone", "code"} /\ o.error = ""
                        THEN <<Update(o.state)>> ELSE <<>>
        IN /\ td' = o.state
           /\ \/ inbox' = inbox \o response \o update
              \/ inbox' = inbox \o update \o response

-------------------------------------------------------------------------------
(* send_request(): the handler is in the table before TDLib has the        *)
(* request; the GUI thread may do the same meanwhile.                      *)

Register(t, kind) ==
    /\ Idle(t)
    /\ lastId' = lastId + 1
    /\ handlers' = handlers \cup {<<lastId + 1, kind>>}
    /\ sending' = [sending EXCEPT ![t] = [id |-> lastId + 1, kind |-> kind]]

Send(t) ==
    /\ ~ Idle(t)
    /\ TdServes(sending[t])
    /\ sending' = [sending EXCEPT ![t] = NotSending]
    /\ UNCHANGED <<handlers, lastId, events, guiVars, submits>>

NoRequest == UNCHANGED <<handlers, lastId, sending>>

-------------------------------------------------------------------------------
(* pollForUpdates(), process_update().                                     *)

Take == Idle("polling") /\ inbox # <<>> /\ inbox' = Tail(inbox)
Emit(s) == events' = events \o s
IsUpdate(state) == inbox # <<>> /\ Head(inbox) = Update(state)

PollUpdate ==
    /\ Take
    /\ \/ IsUpdate("params") /\ Register("polling", "params") /\ Emit(<<>>)
       \/ IsUpdate("ready") /\ Register("polling", "me") /\ Emit(<<>>)
       \/ IsUpdate("phone") /\ NoRequest /\ Emit(<<"phoneNumberRequired">>)
       \/ IsUpdate("code") /\ NoRequest /\ Emit(<<"authCodeRequired">>)
       \/ IsUpdate("password") /\ NoRequest /\ Emit(<<>>)
    /\ UNCHANGED <<td, guiVars, submits>>

Error(e) == IF e = "" THEN <<>> ELSE <<e>>

(* Mutant: the handler stays in the table.                                 *)
NotErased(id) == handlers

Erased(id) == {h \in handlers : h[1] # id}

(* An error is emitted and is given to the handler, too; the handler of    *)
(* getMe takes the user out of the response, the others do nothing.        *)
PollResponse ==
    /\ Take
    /\ Head(inbox).id # 0
    /\ LET r == Head(inbox)
       IN /\ handlers' = Erased(r.id)
          /\ Emit(Error(r.error)
                  \o (IF <<r.id, "me">> \in handlers THEN <<"userLoaded">> ELSE <<>>))
    /\ UNCHANGED <<td, lastId, sending, guiVars, submits>>

-------------------------------------------------------------------------------
(* The GUI thread: the events in their order, and the user.                *)

IsEvent(e) == Idle("gui") /\ events # <<>> /\ Head(events) = e /\ events' = Tail(events)

OnPhoneNumberRequired ==
    /\ IsEvent("phoneNumberRequired")
    /\ waiting' = waiting \cup {"phone"}
    /\ UNCHANGED <<td, inbox, posts, serverVars, valid, message, submits>> /\ NoRequest

OnAuthCodeRequired ==
    /\ IsEvent("authCodeRequired")
    /\ waiting' = waiting \cup {"code"}
    /\ UNCHANGED <<td, inbox, posts, serverVars, valid, message, submits>> /\ NoRequest

(* Session::reportAuthError(): that TDLib has no parameters is the         *)
(* consequence of an error which may be on the screen already.             *)
ReportAuthError(e) ==
    /\ IsEvent(e)
    /\ message' = IF e = "needed" /\ message # "" THEN message ELSE e
    /\ UNCHANGED <<td, inbox, waiting, posts, serverVars, valid, submits>> /\ NoRequest

(* UserModel::onUserLoaded(), and the login at the server.                 *)
OnUserLoaded ==
    /\ IsEvent("userLoaded")
    /\ posts' = posts + 1
    /\ server' = "validate"
    /\ UNCHANGED <<td, inbox, waiting, account, valid, message, submits>> /\ NoRequest

-------------------------------------------------------------------------------
(* The handler at the server, statement by statement.  One that fails ends *)
(* it (500).  There is one login here: Telegram accepts a user once.       *)

ServerOnly == UNCHANGED <<td, inbox, events, guiButServer, submits>> /\ NoRequest

(* 422 when a name, the number or the id is missing.                       *)
Validate ==
    /\ server = "validate"
    /\ server' \in {"select", "gone"}
    /\ UNCHANGED account /\ ServerOnly

SelectUser ==
    /\ server = "select"
    /\ server' \in {IF account THEN "answer" ELSE "insert", "gone"}
    /\ UNCHANGED account /\ ServerOnly

(* An insert that fails may have been written.                             *)
InsertUser ==
    /\ server = "insert"
    /\ \/ server' = "reread" /\ account' = TRUE
       \/ server' = "gone" /\ account' \in {account, TRUE}
    /\ ServerOnly

(* The row is read again; without it, 500.                                 *)
RereadUser ==
    /\ server = "reread"
    /\ server' \in {IF account THEN "answer" ELSE "gone", "gone"}
    /\ UNCHANGED account /\ ServerOnly

Serves == Validate \/ SelectUser \/ InsertUser \/ RereadUser

-------------------------------------------------------------------------------
(* The answer, on the GUI thread.                                          *)

(* The user of the answer, and its token.                                  *)
WholeLogin == [user |-> "object", user_id |-> "number", phone_number |-> "string",
               first_name |-> "string", token |-> "string"]

EnsureLoginResponse(body) ==
    /\ Extracts("object", body, "user")
    /\ ExtractsPositiveInteger(body, "user_id")
    /\ ExtractsNonEmptyString(body, "phone_number")
    /\ ExtractsNonEmptyString(body, "first_name")

(* loginUser().                                                            *)
LoginDone(body) ==
    IF EnsureLoginResponse(body) /\ ExtractsNonEmptyString(body, "token") THEN "done" ELSE "garbled"

(* Mutant: a malformed answer is logged and dropped, as in all other calls. *)
DropsMalformed(outcome) == outcome = "failed"

IsLoginError(outcome) == outcome \in {"failed", "garbled"}

(* A token for the row, and the user as the row has it.                    *)
Grants == server = "answer"

(* loginSuccess and Session::start(), or loginError and reportError().  The *)
(* connection may fail at any time, whatever the server does meanwhile.    *)
LoginAnswered(reply) ==
    LET outcome == Outcome(reply, LoginDone) IN
    /\ posts > 0 /\ Idle("gui")
    /\ reply.ok => Grants
    /\ posts' = posts - 1
    /\ valid' = (valid \/ outcome = "done")
    /\ message' = IF outcome = "done" THEN ""
                  ELSE IF IsLoginError(outcome) THEN "login failed" ELSE message
    /\ UNCHANGED <<td, inbox, events, waiting, serverVars, submits>> /\ NoRequest

Submits == submits < MaxSubmits /\ submits' = submits + 1

(* PhoneNumberModel::submitPhoneNumber(), from the pages that are shown    *)
(* when a number is needed or there is an error; a retry is sent as well.  *)
SubmitPhoneNumber ==
    /\ Submits
    /\ "phone" \in waiting \/ message # ""
    /\ Register("gui", "phone")
    /\ waiting' = waiting \ {"phone"}
    /\ UNCHANGED <<td, inbox, events, posts, serverVars, valid, message>>

(* AuthorizationCodeModel::submitAuthCode(): sent only if one is awaited.  *)
SubmitAuthCode ==
    /\ Submits
    /\ "code" \in waiting
    /\ Register("gui", "code")
    /\ waiting' = waiting \ {"code"}
    /\ UNCHANGED <<td, inbox, events, posts, serverVars, valid, message>>

-------------------------------------------------------------------------------
(* createInstance(), before the polling thread runs: getOption("version")  *)
(* has been sent.                                                          *)
LoginInit ==
    /\ td = "params"
    /\ inbox \in {<<Update("params"), Response([id |-> 1, kind |-> "version"], "")>>,
                  <<Response([id |-> 1, kind |-> "version"], ""), Update("params")>>}
    /\ handlers = {<<1, "version">>} /\ lastId = 1
    /\ sending = [t \in Threads |-> NotSending]
    /\ events = <<>> /\ waiting = {} /\ posts = 0
    /\ server = "gone" /\ account \in BOOLEAN
    /\ valid = FALSE /\ message = "" /\ submits = 0

Polling == PollUpdate \/ PollResponse \/ Send("polling")
Gui ==
    \/ OnPhoneNumberRequired \/ OnAuthCodeRequired \/ OnUserLoaded \/ Send("gui")
    \/ \E e \in {"locked", "needed", "invalid", "unexpected"} : ReportAuthError(e)

LoginNext ==
    \/ Polling \/ Gui \/ Serves
    \/ \E reply \in Replies(WholeLogin) : LoginAnswered(reply)
    \/ SubmitPhoneNumber \/ SubmitAuthCode

(* The two threads run, and a call to the server ends.                     *)
LoginFairness ==
    /\ WF_loginVars(Polling) /\ WF_loginVars(Gui)
    /\ WF_loginVars(\E reply \in Replies(WholeLogin) : LoginAnswered(reply))
LoginSpec == LoginInit /\ [][LoginNext]_loginVars

-------------------------------------------------------------------------------
(* Properties.                                                             *)

(* The table holds the handler of every request that is not answered yet,  *)
(* and no other, whichever thread sends and however fast TDLib answers: a  *)
(* response always finds its handler, and none is left behind.             *)
HandlersAwait ==
    LET answered == {i \in DOMAIN inbox : inbox[i].id # 0}
    IN handlers = {<<inbox[i].id, inbox[i].kind>> : i \in answered}
                  \cup {<<sending[t].id, sending[t].kind>> : t \in {s \in Threads : ~ Idle(s)}}

(* Once Telegram has accepted the user, there is a session of a user the   *)
(* server keeps, or the user is told that the login failed: the news goes  *)
(* by signals through two threads, the server may fail between any two of  *)
(* its statements or the connection before it is through, and any answer   *)
(* of the server counts, even one that makes no sense.  (The code tells it once: a number submitted again after that is *)
(* answered with an error and does not log in.)                            *)
LoginEnds ==
    (\E i \in DOMAIN inbox : inbox[i] = Update("ready"))
        ~> ((valid /\ account) \/ message = "login failed")
================================================================================
