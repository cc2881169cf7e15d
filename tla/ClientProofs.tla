------------------------------ MODULE ClientProofs ------------------------------
(***************************************************************************)
(* Proofs about the parts of the client that MCClient puts side by side,   *)
(* for every value of the constants: the end of the player, the table of   *)
(* response handlers, the uploads and the copy of the playlists; then of   *)
(* the whole client.                                                       *)
(***************************************************************************)
EXTENDS MCClient, FiniteSetTheorems, SequenceTheorems, WellFoundedInduction, TLAPS

-------------------------------------------------------------------------------
(* PlayerTeardown.  A callback that looks at the guarded pointer has the   *)
(* guard's mutex, which the destructor needs to clear it; the renderer     *)
(* holds a reference for longer than its context exists.                   *)
Destruction == {"alive", "detached", "silenced", "gone"}

TeardownInv ==
    /\ object \in Destruction
    /\ callback \in [Teardown!Callbacks -> {"idle", "entered", "calling", "leaving"}]
    /\ \A c \in Teardown!Callbacks : callback[c] \in {"calling", "leaving"} => holder = c
    /\ guarded <=> object \in {"alive", "detached"}
    /\ \A c \in Teardown!Callbacks : callback[c] = "calling" => object \in {"alive", "detached"}
    /\ context => renderer \in {"alive", "detached"}
    /\ renderer \in {"alive", "detached", "freed"} => "renderer" \in owners
    /\ guarded \in BOOLEAN /\ context \in BOOLEAN

LEMMA TeardownInitInv == Teardown!TeardownInit => TeardownInv
BY DEF Teardown!TeardownInit, TeardownInv, Teardown!Callbacks, Destruction

LEMMA TeardownInvInductive ==
  TeardownInv /\ [Teardown!TeardownNext]_teardownVars => TeardownInv'
<1> SUFFICES ASSUME TeardownInv, [Teardown!TeardownNext]_teardownVars PROVE TeardownInv'
  OBVIOUS
<1> USE DEF TeardownInv, Teardown!objectVars, Teardown!rendererVars
<1>1. CASE Teardown!MakeRenderer
  BY <1>1 DEF Teardown!MakeRenderer
<1>2. CASE Teardown!DetachUpdates
  BY <1>2 DEF Teardown!DetachUpdates
<1>3. CASE Teardown!FreeContext
  BY <1>3 DEF Teardown!FreeContext
<1>4. CASE Teardown!ReleaseRenderer
  BY <1>4 DEF Teardown!ReleaseRenderer
<1>5. CASE Teardown!DetachWakeups
  BY <1>5 DEF Teardown!DetachWakeups, Destruction
<1>6. CASE Teardown!Silence
  BY <1>6 DEF Teardown!Silence, Teardown!Unlocked, Teardown!Callbacks, Destruction
<1>7. CASE Teardown!ReleaseObject
  BY <1>7 DEF Teardown!ReleaseObject, Destruction
<1>8. ASSUME NEW c \in Teardown!Callbacks, Teardown!Enter(c) PROVE TeardownInv'
  BY <1>8 DEF Teardown!Enter, Teardown!CallsOf
<1>9. ASSUME NEW c \in Teardown!Callbacks, Teardown!Lock(c) PROVE TeardownInv'
  BY <1>9 DEF Teardown!Lock, Teardown!CallsOf, Teardown!Callbacks
<1>10. ASSUME NEW c \in Teardown!Callbacks, Teardown!Leave(c) PROVE TeardownInv'
  BY <1>10 DEF Teardown!Leave, Teardown!CallsOf, Teardown!Callbacks
<1>11. CASE UNCHANGED teardownVars
  BY <1>11 DEF teardownVars
<1> QED
  BY <1>1, <1>2, <1>3, <1>4, <1>5, <1>6, <1>7, <1>8, <1>9, <1>10, <1>11
     DEF Teardown!TeardownNext

LEMMA TeardownInvSafe == TeardownInv => TeardownSafe
BY DEF TeardownInv, TeardownSafe, Teardown!TeardownSafe, Teardown!Handle

(* No callback posts to an object that is being released, and mpv's handle *)
(* outlives the render context, in whatever order the two destructors run  *)
(* and wherever the callbacks are by then.                                 *)
THEOREM TeardownIsSafe == Teardown!TeardownSpec => []TeardownSafe
<1>1. TeardownInv /\ [Teardown!TeardownNext]_(Teardown!teardownVars) => TeardownInv'
  BY TeardownInvInductive DEF Teardown!teardownVars, teardownVars
<1> QED
  BY <1>1, TeardownInitInv, TeardownInvSafe, PTL DEF Teardown!TeardownSpec
-------------------------------------------------------------------------------
(* Login.  Requests have ids of their own, of which one is in one place:   *)
(* the thread that is about to send the request, or TDLib's queue, as its  *)
(* response.                                                               *)
TdStates == {"params", "phone", "code", "password", "ready"}
Errors == {"", "locked", "needed", "invalid", "unexpected"}
Messages == [id : Nat, kind : Client!Kinds \cup TdStates, error : Errors]
Requests == [id : Nat \ {0}, kind : Client!Kinds] \cup {Client!NotSending}

(* The responses of a queue, as the entries of the table they will take.   *)
Responses(q) == {i \in DOMAIN q : q[i].id # 0}
Expected(q) == {<<q[i].id, q[i].kind>> : i \in Responses(q)}
BeingSent == {<<sending[t].id, sending[t].kind>> : t \in {s \in Client!Threads : ~ Client!Idle(s)}}

IdsOf(q) == {q[i].id : i \in Responses(q)}
Distinct(q) == \A i, j \in Responses(q) : q[i].id = q[j].id => i = j

LoginTypes ==
    /\ inbox \in Seq(Messages)
    /\ sending \in [Client!Threads -> Requests]
    /\ lastId \in Nat \ {0}
    /\ td \in TdStates

IdsUnique ==
    /\ Distinct(inbox)
    /\ \A n \in IdsOf(inbox) : n <= lastId
    /\ \A t \in Client!Threads : sending[t].id <= lastId /\ sending[t].id \notin IdsOf(inbox)
    /\ ~ Client!Idle("gui") => sending["gui"].id # sending["polling"].id

LoginInv == LoginTypes /\ IdsUnique /\ HandlersAwait

LEMMA TailOfInbox ==
  ASSUME NEW q \in Seq(Messages), q # << >>, Distinct(q)
  PROVE  /\ Head(q) \in Messages /\ Tail(q) \in Seq(Messages) /\ Distinct(Tail(q))
         /\ IdsOf(Tail(q)) \subseteq IdsOf(q)
         /\ Head(q).id \notin IdsOf(Tail(q))
         /\ Head(q).id = 0 => Expected(Tail(q)) = Expected(q)
         /\ Head(q).id # 0 =>
              /\ Head(q).id \in IdsOf(q)
              /\ Expected(q) = Expected(Tail(q)) \cup {<<Head(q).id, Head(q).kind>>}
<1> DEFINE t == Tail(q)
<1>1. /\ Head(q) \in Messages /\ t \in Seq(Messages) /\ Len(t) = Len(q) - 1
      /\ \A i \in 1 .. Len(t) : t[i] = q[i + 1]
  BY HeadTailProperties
<1>2. Len(q) \in Nat /\ Len(q) # 0 /\ DOMAIN q = 1 .. Len(q) /\ DOMAIN t = 1 .. Len(t)
      /\ Head(q) = q[1]
  BY <1>1, EmptySeq
<1> HIDE DEF t
<1>3. \A i \in DOMAIN t : i + 1 \in DOMAIN q /\ i + 1 # 1 /\ t[i] = q[i + 1]
  BY <1>1, <1>2
<1>4. \A j \in DOMAIN q : j # 1 => j - 1 \in DOMAIN t /\ t[j - 1] = q[j]
  <2> SUFFICES ASSUME NEW j \in DOMAIN q, j # 1 PROVE j - 1 \in DOMAIN t /\ t[j - 1] = q[j]
    OBVIOUS
  <2>1. j - 1 \in 1 .. Len(t) /\ (j - 1) + 1 = j
    BY <1>1, <1>2
  <2> QED
    BY <1>1, <1>2, <2>1
<1>5. \A i \in Responses(t) : i + 1 \in Responses(q)
  BY <1>3 DEF Responses
<1>6. Distinct(t)
  <2> SUFFICES ASSUME NEW i \in Responses(t), NEW j \in Responses(t), t[i].id = t[j].id
               PROVE  i = j
    BY DEF Distinct
  <2>1. i + 1 = j + 1 /\ i \in Nat /\ j \in Nat
    BY <1>2, <1>3, <1>5 DEF Distinct, Responses
  <2> QED
    BY <2>1
<1>7. 1 \in DOMAIN q
  BY <1>2
<1>8. Head(q).id \notin IdsOf(t)
  <2> SUFFICES ASSUME NEW i \in Responses(t), q[1].id = t[i].id PROVE FALSE
    BY <1>2 DEF IdsOf
  <2>1. i + 1 \in Responses(q) /\ q[i + 1].id = q[1].id /\ q[1].id # 0
    BY <1>3, <1>5 DEF Responses
  <2>2. 1 \in Responses(q)
    BY <1>7, <2>1 DEF Responses
  <2>3. i + 1 = 1
    BY <2>1, <2>2 DEF Distinct
  <2> QED
    BY <1>3, <2>3 DEF Responses
<1>9. IdsOf(t) \subseteq IdsOf(q) /\ Expected(t) \subseteq Expected(q)
  BY <1>3, <1>5 DEF IdsOf, Expected, Responses
<1>10. \A j \in Responses(q) : j # 1 => <<q[j].id, q[j].kind>> \in Expected(t)
  BY <1>4 DEF Responses, Expected
<1>11. CASE Head(q).id = 0
  <2>1. 1 \notin Responses(q)
    BY <1>2, <1>11 DEF Responses
  <2>2. Expected(q) \subseteq Expected(t)
    BY <1>10, <2>1 DEF Expected
  <2> QED
    BY <1>1, <1>6, <1>8, <1>9, <1>11, <2>2 DEF t
<1>12. CASE Head(q).id # 0
  <2>1. 1 \in Responses(q)
    BY <1>2, <1>7, <1>12 DEF Responses
  <2>2. Expected(q) = Expected(t) \cup {<<Head(q).id, Head(q).kind>>}
    BY <1>2, <1>9, <1>10, <2>1 DEF Expected
  <2>3. Head(q).id \in IdsOf(q)
    BY <1>2, <2>1 DEF IdsOf
  <2> QED
    BY <1>1, <1>6, <1>8, <1>9, <1>12, <2>2, <2>3 DEF t
<1> QED
  BY <1>11, <1>12

LEMMA ConcatOfInboxes ==
  ASSUME NEW q \in Seq(Messages), NEW r \in Seq(Messages), Distinct(q), Distinct(r),
         IdsOf(q) \cap IdsOf(r) = {}
  PROVE  /\ q \o r \in Seq(Messages) /\ Distinct(q \o r)
         /\ IdsOf(q \o r) = IdsOf(q) \cup IdsOf(r)
         /\ Expected(q \o r) = Expected(q) \cup Expected(r)
<1> DEFINE c == q \o r
<1>1. /\ c \in Seq(Messages) /\ Len(c) = Len(q) + Len(r)
      /\ \A i \in 1 .. Len(q) + Len(r) : c[i] = IF i <= Len(q) THEN q[i] ELSE r[i - Len(q)]
  BY ConcatProperties
<1>2. /\ Len(q) \in Nat /\ DOMAIN q = 1 .. Len(q)
      /\ Len(r) \in Nat /\ DOMAIN r = 1 .. Len(r) /\ DOMAIN c = 1 .. Len(q) + Len(r)
  BY <1>1
<1> HIDE DEF c
<1>3. \A i \in DOMAIN q : i \in DOMAIN c /\ c[i] = q[i]
  BY <1>1, <1>2
<1>4. \A i \in DOMAIN r : i + Len(q) \in DOMAIN c /\ c[i + Len(q)] = r[i]
  <2> TAKE i \in DOMAIN r
  <2>1. /\ i + Len(q) \in 1 .. Len(q) + Len(r) /\ ~ (i + Len(q) <= Len(q))
        /\ (i + Len(q)) - Len(q) = i
    BY <1>2
  <2> QED
    BY <1>1, <1>2, <2>1
<1>5. \A k \in DOMAIN c : \/ k \in DOMAIN q /\ c[k] = q[k]
                          \/ k - Len(q) \in DOMAIN r /\ c[k] = r[k - Len(q)]
  BY <1>1, <1>2
<1>6. \A k \in Responses(c) : \/ k \in Responses(q) /\ c[k] = q[k]
                              \/ k - Len(q) \in Responses(r) /\ c[k] = r[k - Len(q)]
  BY <1>5 DEF Responses
<1>7. /\ \A i \in Responses(q) : i \in Responses(c) /\ c[i] = q[i]
      /\ \A i \in Responses(r) : i + Len(q) \in Responses(c) /\ c[i + Len(q)] = r[i]
  BY <1>3, <1>4 DEF Responses
<1>8. IdsOf(c) \subseteq IdsOf(q) \cup IdsOf(r) /\ Expected(c) \subseteq Expected(q) \cup Expected(r)
  BY <1>6 DEF IdsOf, Expected
<1>9. /\ IdsOf(q) \subseteq IdsOf(c) /\ IdsOf(r) \subseteq IdsOf(c)
      /\ Expected(q) \subseteq Expected(c) /\ Expected(r) \subseteq Expected(c)
  BY <1>7 DEF IdsOf, Expected
<1>10. Distinct(c)
  <2> SUFFICES ASSUME NEW i \in Responses(c), NEW j \in Responses(c), c[i].id = c[j].id
               PROVE  i = j
    BY DEF Distinct
  <2>1. \A a \in Responses(q), b \in Responses(r) : q[a].id # r[b].id
    BY DEF IdsOf
  <2>2. i \in Nat /\ j \in Nat
    BY <1>2 DEF Responses
  <2>3. CASE i \in Responses(q) /\ c[i] = q[i]
    <3>1. j \in Responses(q) /\ c[j] = q[j]
      BY <1>6, <2>1, <2>3
    <3> QED
      BY <2>3, <3>1 DEF Distinct
  <2>4. CASE i - Len(q) \in Responses(r) /\ c[i] = r[i - Len(q)]
    <3>1. j - Len(q) \in Responses(r) /\ c[j] = r[j - Len(q)]
      BY <1>6, <2>1, <2>4
    <3>2. i - Len(q) = j - Len(q)
      BY <2>4, <3>1 DEF Distinct
    <3> QED
      BY <1>2, <2>2, <3>2
  <2> QED
    BY <1>6, <2>3, <2>4
<1> QED
  BY <1>1, <1>8, <1>9, <1>10 DEF c

LEMMA HandlersAre == HandlersAwait <=> handlers = Expected(inbox) \cup BeingSent
BY DEF HandlersAwait, Client!HandlersAwait, Expected, Responses, BeingSent

(* Nothing that matters here is touched by the server or the screen.       *)
LEMMA LoginUntouched ==
  ASSUME LoginInv, UNCHANGED <<td, inbox, handlers, lastId, sending>>
  PROVE  LoginInv'
<1>1. LoginTypes'
  BY DEF LoginInv, LoginTypes
<1>2. IdsUnique'
  BY DEF LoginInv, IdsUnique, Client!Idle, IdsOf, Distinct, Responses
<1>3. HandlersAwait'
  <2>1. BeingSent' = BeingSent /\ Expected(inbox)' = Expected(inbox)
    BY DEF BeingSent, Client!Idle, Expected, Responses
  <2>2. handlers' = (Expected(inbox) \cup BeingSent)'
    BY <2>1, HandlersAre DEF LoginInv
  <2> QED
    BY <2>2 DEF HandlersAwait, Client!HandlersAwait, Expected, Responses, BeingSent
<1> QED
  BY <1>1, <1>2, <1>3 DEF LoginInv

LEMMA LoginInitInv == Client!LoginInit => LoginInv
<1> SUFFICES ASSUME Client!LoginInit PROVE LoginInv
  OBVIOUS
<1> DEFINE u == Client!Update("params")
           m == Client!Response([id |-> 1, kind |-> "version"], "")
<1>1. u \in Messages /\ u.id = 0 /\ m \in Messages /\ m.id = 1 /\ m.kind = "version"
  BY DEF Client!Update, Client!Response, Messages, Client!Kinds, TdStates, Errors
<1> HIDE DEF u, m
<1>2. /\ Responses(<<u, m>>) = {2} /\ Responses(<<m, u>>) = {1}
      /\ <<u, m>>[2] = m /\ <<m, u>>[1] = m
      /\ <<u, m>> \in Seq(Messages) /\ <<m, u>> \in Seq(Messages)
  <2>1. DOMAIN <<u, m>> = {1, 2} /\ DOMAIN <<m, u>> = {1, 2}
    OBVIOUS
  <2> QED
    BY <1>1, <2>1 DEF Responses
<1>3. inbox \in {<<u, m>>, <<m, u>>}
  BY DEF Client!LoginInit, u, m
<1>4. /\ inbox \in Seq(Messages) /\ Distinct(inbox)
      /\ IdsOf(inbox) = {1} /\ Expected(inbox) = {<<1, "version">>}
  <2>1. CASE inbox = <<u, m>>
    BY <1>1, <1>2, <2>1 DEF Distinct, IdsOf, Expected
  <2>2. CASE inbox = <<m, u>>
    BY <1>1, <1>2, <2>2 DEF Distinct, IdsOf, Expected
  <2> QED
    BY <1>3, <2>1, <2>2
<1>5. /\ sending = [t \in Client!Threads |-> Client!NotSending]
      /\ handlers = {<<1, "version">>} /\ lastId = 1 /\ td = "params"
  BY DEF Client!LoginInit
<1>6. LoginTypes
  BY <1>4, <1>5 DEF LoginTypes, Requests, TdStates
<1>7. \A t \in Client!Threads : Client!Idle(t) /\ sending[t].id = 0
  BY <1>5 DEF Client!Idle, Client!NotSending
<1>8. IdsUnique
  BY <1>4, <1>5, <1>7 DEF IdsUnique, Client!Threads
<1>9. BeingSent = {}
  BY <1>7 DEF BeingSent
<1> QED
  BY <1>4, <1>5, <1>6, <1>8, <1>9, HandlersAre DEF LoginInv

(* A thread registers a handler under the next id.                         *)
LEMMA RegisterKeeps ==
  ASSUME LoginInv, NEW t \in Client!Threads, NEW kind \in Client!Kinds, Client!Register(t, kind),
         inbox' \in Seq(Messages), Distinct(inbox'), td' \in TdStates,
         IdsOf(inbox') \subseteq IdsOf(inbox), Expected(inbox') = Expected(inbox)
  PROVE  LoginInv'
<1> DEFINE r == [id |-> lastId + 1, kind |-> kind]
<1>1. /\ sending \in [Client!Threads -> Requests] /\ lastId \in Nat \ {0}
      /\ \A n \in IdsOf(inbox) : n <= lastId
      /\ \A s \in Client!Threads : sending[s].id <= lastId /\ sending[s].id \notin IdsOf(inbox)
      /\ ~ Client!Idle("gui") => sending["gui"].id # sending["polling"].id
      /\ handlers = Expected(inbox) \cup BeingSent
  BY HandlersAre DEF LoginInv, LoginTypes, IdsUnique
<1>2. /\ sending[t] = Client!NotSending /\ lastId' = lastId + 1
      /\ handlers' = handlers \cup {<<lastId + 1, kind>>}
      /\ sending' = [sending EXCEPT ![t] = r]
  BY DEF Client!Register, Client!Idle
<1>3. r \in Requests /\ r # Client!NotSending /\ r.id = lastId + 1 /\ r.kind = kind
  BY <1>1 DEF Requests, Client!NotSending
<1> HIDE DEF r
<1>4. /\ sending' \in [Client!Threads -> Requests] /\ sending'[t] = r
      /\ \A s \in Client!Threads : s # t => sending'[s] = sending[s]
  BY <1>1, <1>2, <1>3
<1>5. LoginTypes'
  BY <1>1, <1>2, <1>4 DEF LoginTypes
<1>6. \A n \in IdsOf(inbox') : n \in Nat /\ n <= lastId
  <2>1. \A n \in IdsOf(inbox) : n \in Nat
    <3>1. inbox \in Seq(Messages)
      BY DEF LoginInv, LoginTypes
    <3>2. \A i \in Responses(inbox) : inbox[i] \in Messages
      BY <3>1 DEF Responses
    <3> QED
      BY <3>2 DEF IdsOf, Messages
  <2> QED
    BY <1>1, <2>1
<1>7. \A s \in Client!Threads : sending[s].id \in Nat
  BY <1>1 DEF Requests, Client!NotSending
<1>8. IdsUnique'
  <2>1. \A n \in IdsOf(inbox') : n <= lastId'
    BY <1>1, <1>2, <1>6
  <2>2. \A s \in Client!Threads : sending'[s].id <= lastId' /\ sending'[s].id \notin IdsOf(inbox')
    BY <1>1, <1>2, <1>3, <1>4, <1>6, <1>7
  <2>3. sending'["gui"].id # sending'["polling"].id \/ sending'["gui"] = Client!NotSending
    BY <1>1, <1>3, <1>4, <1>7 DEF Client!Threads, Client!Idle
  <2> QED
    BY <2>1, <2>2, <2>3 DEF IdsUnique, Client!Idle, IdsOf, Distinct, Responses
<1>9. BeingSent' = BeingSent \cup {<<lastId + 1, kind>>}
  <2>1. \A s \in Client!Threads : Client!Idle(s)' <=> sending'[s] = Client!NotSending
    BY DEF Client!Idle
  <2> QED
    BY <1>2, <1>3, <1>4, <2>1 DEF BeingSent, Client!Idle
<1>10. handlers' = Expected(inbox') \cup BeingSent'
  BY <1>1, <1>2, <1>9
<1>11. HandlersAwait'
  BY <1>10 DEF HandlersAwait, Client!HandlersAwait, Expected, Responses, BeingSent
<1> QED
  BY <1>5, <1>8, <1>11 DEF LoginInv

(* A queue of one message.                                                 *)
LEMMA OneMessage ==
  ASSUME NEW m \in Messages
  PROVE  /\ <<m>> \in Seq(Messages) /\ Distinct(<<m>>)
         /\ m.id # 0 => IdsOf(<<m>>) = {m.id} /\ Expected(<<m>>) = {<<m.id, m.kind>>}
         /\ m.id = 0 => IdsOf(<<m>>) = {} /\ Expected(<<m>>) = {}
<1>1. <<m>> \in Seq(Messages) /\ DOMAIN <<m>> = {1} /\ <<m>>[1] = m
  OBVIOUS
<1>2. m.id # 0 => Responses(<<m>>) = {1}
  BY <1>1 DEF Responses
<1>3. m.id = 0 => Responses(<<m>>) = {}
  BY <1>1 DEF Responses
<1> QED
  BY <1>1, <1>2, <1>3 DEF Distinct, IdsOf, Expected

LEMMA NoMessage ==
  /\ << >> \in Seq(Messages) /\ Distinct(<< >>)
  /\ IdsOf(<< >>) = {} /\ Expected(<< >>) = {}
BY DEF Distinct, IdsOf, Expected, Responses

(* TDLib's state after a request, and the error it answers with.           *)
LEMMA OutcomesTyped ==
  ASSUME td \in TdStates, NEW r, NEW o \in Client!Outcomes(r)
  PROVE  o.state \in TdStates /\ o.error \in Errors
<1>1. \E s \in TdStates, e \in Errors : o = [state |-> s, error |-> e]
  BY DEF Client!Outcomes, TdStates, Errors
<1> QED
  BY <1>1

(* TDLib answers a request: its response, and perhaps an update, are put   *)
(* in the queue.                                                           *)
LEMMA TdAnswers ==
  ASSUME LoginInv, NEW r \in Requests, r.id # 0, r.id \notin IdsOf(inbox), Client!TdServes(r)
  PROVE  /\ inbox' \in Seq(Messages) /\ Distinct(inbox') /\ td' \in TdStates
         /\ IdsOf(inbox') = IdsOf(inbox) \cup {r.id}
         /\ Expected(inbox') = Expected(inbox) \cup {<<r.id, r.kind>>}
<1> DEFINE m(o) == Client!Response(r, o.error)
           u(o) == IF r.kind \in {"params", "phone", "code"} /\ o.error = ""
                     THEN <<Client!Update(o.state)>> ELSE << >>
<1>1. PICK o \in Client!Outcomes(r) :
         /\ td' = o.state
         /\ inbox' = inbox \o <<m(o)>> \o u(o) \/ inbox' = inbox \o u(o) \o <<m(o)>>
  BY DEF Client!TdServes
<1>2. inbox \in Seq(Messages) /\ Distinct(inbox) /\ td \in TdStates
  BY DEF LoginInv, LoginTypes, IdsUnique
<1>3. o.state \in TdStates /\ o.error \in Errors
  BY <1>1, <1>2, OutcomesTyped
<1>4. r.id \in Nat /\ r.kind \in Client!Kinds
  BY DEF Requests, Client!NotSending
<1> DEFINE a == <<m(o)>>
           b == u(o)
<1>5. /\ a \in Seq(Messages) /\ Distinct(a)
      /\ IdsOf(a) = {r.id} /\ Expected(a) = {<<r.id, r.kind>>}
  <2>1. m(o) \in Messages /\ m(o).id = r.id /\ m(o).kind = r.kind
    BY <1>3, <1>4 DEF Client!Response, Messages
  <2> HIDE DEF m
  <2> QED
    BY <2>1, OneMessage
<1>6. b \in Seq(Messages) /\ Distinct(b) /\ IdsOf(b) = {} /\ Expected(b) = {}
  <2> DEFINE x == Client!Update(o.state)
  <2>1. x \in Messages /\ x.id = 0
    BY <1>3 DEF Client!Update, Messages, Errors
  <2> HIDE DEF x
  <2>2. <<x>> \in Seq(Messages) /\ Distinct(<<x>>) /\ IdsOf(<<x>>) = {} /\ Expected(<<x>>) = {}
    BY <2>1, OneMessage
  <2>3. b = <<x>> \/ b = << >>
    BY DEF x
  <2> QED
    BY <2>2, <2>3, NoMessage
<1>7. inbox' = inbox \o a \o b \/ inbox' = inbox \o b \o a
  BY <1>1
<1> HIDE DEF a, b, m, u
<1> DEFINE c == inbox \o a
           d == inbox \o b
<1>8. /\ c \in Seq(Messages) /\ Distinct(c) /\ IdsOf(c) = IdsOf(inbox) \cup {r.id}
      /\ Expected(c) = Expected(inbox) \cup {<<r.id, r.kind>>}
  BY <1>2, <1>5, ConcatOfInboxes
<1>9. /\ d \in Seq(Messages) /\ Distinct(d) /\ IdsOf(d) = IdsOf(inbox)
      /\ Expected(d) = Expected(inbox)
  <2>1. IdsOf(inbox) \cap IdsOf(b) = {}
    BY <1>6
  <2>2. /\ d \in Seq(Messages) /\ Distinct(d) /\ IdsOf(d) = IdsOf(inbox) \cup IdsOf(b)
        /\ Expected(d) = Expected(inbox) \cup Expected(b)
    BY <1>2, <1>6, <2>1, ConcatOfInboxes
  <2> HIDE DEF d
  <2> QED
    BY <1>6, <2>2
<1>10. inbox' = c \o b \/ inbox' = d \o a
  BY <1>7
<1> HIDE DEF c, d
<1>11. /\ c \o b \in Seq(Messages) /\ Distinct(c \o b)
       /\ IdsOf(c \o b) = IdsOf(inbox) \cup {r.id}
       /\ Expected(c \o b) = Expected(inbox) \cup {<<r.id, r.kind>>}
  BY <1>6, <1>8, ConcatOfInboxes
<1>12. /\ d \o a \in Seq(Messages) /\ Distinct(d \o a)
       /\ IdsOf(d \o a) = IdsOf(inbox) \cup {r.id}
       /\ Expected(d \o a) = Expected(inbox) \cup {<<r.id, r.kind>>}
  BY <1>5, <1>9, ConcatOfInboxes
<1>13. td' \in TdStates
  BY <1>1, <1>3
<1>14. CASE inbox' = c \o b
  BY <1>11, <1>13, <1>14
<1>15. CASE inbox' = d \o a
  BY <1>12, <1>13, <1>15
<1> QED
  BY <1>10, <1>14, <1>15

LEMMA SendKeeps ==
  ASSUME LoginInv, NEW t \in Client!Threads, Client!Send(t)
  PROVE  LoginInv'
<1> DEFINE r == sending[t]
<1>1. /\ sending \in [Client!Threads -> Requests] /\ lastId \in Nat \ {0}
      /\ \A n \in IdsOf(inbox) : n <= lastId
      /\ \A s \in Client!Threads : sending[s].id <= lastId /\ sending[s].id \notin IdsOf(inbox)
      /\ ~ Client!Idle("gui") => sending["gui"].id # sending["polling"].id
      /\ handlers = Expected(inbox) \cup BeingSent
  BY HandlersAre DEF LoginInv, LoginTypes, IdsUnique
<1>2. /\ r # Client!NotSending /\ Client!TdServes(r)
      /\ sending' = [sending EXCEPT ![t] = Client!NotSending]
      /\ handlers' = handlers /\ lastId' = lastId
  BY DEF Client!Send, Client!Idle
<1>3. r \in Requests /\ r.id # 0
  BY <1>1, <1>2 DEF Requests
<1>4. /\ inbox' \in Seq(Messages) /\ Distinct(inbox') /\ td' \in TdStates
      /\ IdsOf(inbox') = IdsOf(inbox) \cup {r.id}
      /\ Expected(inbox') = Expected(inbox) \cup {<<r.id, r.kind>>}
  BY <1>1, <1>2, <1>3, TdAnswers
<1>5. /\ sending' \in [Client!Threads -> Requests] /\ sending'[t] = Client!NotSending
      /\ \A s \in Client!Threads : s # t => sending'[s] = sending[s]
  BY <1>1, <1>2 DEF Requests
<1>6. LoginTypes'
  BY <1>1, <1>2, <1>4, <1>5 DEF LoginTypes
<1>7. IdsUnique'
  <2>1. \A n \in IdsOf(inbox') : n <= lastId'
    BY <1>1, <1>2, <1>4
  <2>2. 0 \notin IdsOf(inbox')
    BY DEF IdsOf, Responses
  <2>3. \A s \in Client!Threads : sending[s].id = 0 \/ sending[s] # Client!NotSending
    BY DEF Client!NotSending
  <2>4. \A s \in Client!Threads : sending'[s].id <= lastId' /\ sending'[s].id \notin IdsOf(inbox')
    <3>1. ASSUME NEW s \in Client!Threads, s # t
          PROVE  sending[s].id # r.id
      BY <1>1, <1>3, <3>1 DEF Client!Threads, Client!Idle, Client!NotSending
    <3> QED
      BY <1>1, <1>2, <1>4, <1>5, <2>2, <3>1 DEF Client!NotSending
  <2>5. sending'["gui"] # Client!NotSending => sending'["gui"].id # sending'["polling"].id
    <3>1. \A s \in Client!Threads : sending[s] # Client!NotSending => sending[s].id # 0
      BY <1>1 DEF Requests
    <3> QED
      BY <1>1, <1>5, <3>1 DEF Client!Threads, Client!Idle, Client!NotSending
  <2> QED
    BY <1>4, <2>1, <2>4, <2>5 DEF IdsUnique, Client!Idle, IdsOf, Distinct, Responses
<1>8. BeingSent = BeingSent' \cup {<<r.id, r.kind>>}
  <2>1. \A s \in Client!Threads : Client!Idle(s)' <=> sending'[s] = Client!NotSending
    BY DEF Client!Idle
  <2> QED
    BY <1>2, <1>5, <2>1 DEF BeingSent, Client!Idle
<1>9. handlers' = Expected(inbox') \cup BeingSent'
  BY <1>1, <1>2, <1>4, <1>8
<1>10. HandlersAwait'
  BY <1>9 DEF HandlersAwait, Client!HandlersAwait, Expected, Responses, BeingSent
<1> QED
  BY <1>6, <1>7, <1>10 DEF LoginInv

(* The polling thread takes an update: the handlers still wait for theirs. *)
LEMMA PollUpdateKeeps ==
  ASSUME LoginInv, Client!PollUpdate
  PROVE  LoginInv'
<1>1. /\ inbox \in Seq(Messages) /\ Distinct(inbox) /\ td \in TdStates
      /\ inbox # << >> /\ inbox' = Tail(inbox) /\ td' = td
  BY DEF LoginInv, LoginTypes, IdsUnique, Client!PollUpdate, Client!Take
<1>2. Head(inbox).id = 0
  <2>1. PICK state : Client!IsUpdate(state)
    BY Zenon DEF Client!PollUpdate
  <2> QED
    <3> DEFINE m == Head(inbox)
    <3>1. m = [id |-> 0, kind |-> state, error |-> ""]
      BY <2>1, Zenon DEF Client!IsUpdate, Client!Update
    <3> HIDE DEF m
    <3>2. m.id = 0
      BY <3>1
    <3> QED
      BY <3>2 DEF m
<1>3. /\ inbox' \in Seq(Messages) /\ Distinct(inbox')
      /\ IdsOf(inbox') \subseteq IdsOf(inbox) /\ Expected(inbox') = Expected(inbox)
  BY <1>1, <1>2, TailOfInbox
<1>4. "polling" \in Client!Threads /\ {"params", "me"} \subseteq Client!Kinds
  BY DEF Client!Threads, Client!Kinds
<1>5. CASE Client!Register("polling", "params") \/ Client!Register("polling", "me")
  BY <1>1, <1>3, <1>4, <1>5, RegisterKeeps
<1>6. CASE Client!NoRequest
  <2>1. handlers' = handlers /\ lastId' = lastId /\ sending' = sending
    BY <1>6 DEF Client!NoRequest
  <2>2. LoginTypes'
    BY <1>1, <1>3, <2>1 DEF LoginInv, LoginTypes
  <2>3. /\ \A n \in IdsOf(inbox) : n <= lastId
        /\ \A t \in Client!Threads : sending[t].id <= lastId /\ sending[t].id \notin IdsOf(inbox)
        /\ sending["gui"] # Client!NotSending => sending["gui"].id # sending["polling"].id
    BY DEF LoginInv, IdsUnique, Client!Idle
  <2>4. IdsUnique'
    BY <1>3, <2>1, <2>3 DEF IdsUnique, Client!Idle, IdsOf, Distinct, Responses
  <2>5. BeingSent' = BeingSent
    BY <2>1 DEF BeingSent, Client!Idle
  <2>6. handlers' = Expected(inbox') \cup BeingSent'
    BY <1>3, <2>1, <2>5, HandlersAre DEF LoginInv
  <2>7. HandlersAwait'
    BY <2>6 DEF HandlersAwait, Client!HandlersAwait, Expected, Responses, BeingSent
  <2> QED
    BY <2>2, <2>4, <2>7 DEF LoginInv
<1> QED
  BY <1>5, <1>6 DEF Client!PollUpdate

(* It takes a response: its handler, and no other, leaves the table.       *)
LEMMA PollResponseKeeps ==
  ASSUME LoginInv, Client!PollResponse
  PROVE  LoginInv'
<1> DEFINE m == Head(inbox)
<1>1. /\ inbox \in Seq(Messages) /\ Distinct(inbox) /\ td \in TdStates
      /\ inbox # << >> /\ inbox' = Tail(inbox) /\ td' = td /\ m.id # 0
      /\ handlers' = {h \in handlers : h[1] # m.id}
      /\ lastId' = lastId /\ sending' = sending
  BY DEF LoginInv, LoginTypes, IdsUnique, Client!PollResponse, Client!Take, Client!Erased
<1>2. /\ inbox' \in Seq(Messages) /\ Distinct(inbox')
      /\ IdsOf(inbox') \subseteq IdsOf(inbox) /\ m.id \notin IdsOf(inbox')
      /\ m.id \in IdsOf(inbox)
      /\ Expected(inbox) = Expected(inbox') \cup {<<m.id, m.kind>>}
  BY <1>1, TailOfInbox
<1> HIDE DEF m
<1>3. /\ \A n \in IdsOf(inbox) : n <= lastId
      /\ \A t \in Client!Threads : sending[t].id <= lastId /\ sending[t].id \notin IdsOf(inbox)
      /\ sending["gui"] # Client!NotSending => sending["gui"].id # sending["polling"].id
  BY DEF LoginInv, IdsUnique, Client!Idle
<1>4. LoginTypes'
  BY <1>1, <1>2 DEF LoginInv, LoginTypes
<1>5. IdsUnique'
  BY <1>1, <1>2, <1>3 DEF IdsUnique, Client!Idle, IdsOf, Distinct, Responses
<1>6. BeingSent' = BeingSent
  BY <1>1 DEF BeingSent, Client!Idle
<1>7. handlers = Expected(inbox) \cup BeingSent
  BY HandlersAre DEF LoginInv
<1>8. \A h \in BeingSent : h[1] # m.id
  BY <1>2, <1>3 DEF BeingSent
<1>9. \A h \in Expected(inbox') : h[1] # m.id
  BY <1>2 DEF Expected, IdsOf
<1>10. handlers' = Expected(inbox') \cup BeingSent
  BY <1>1, <1>2, <1>7, <1>8, <1>9
<1>11. HandlersAwait'
  BY <1>6, <1>10 DEF HandlersAwait, Client!HandlersAwait, Expected, Responses, BeingSent
<1> QED
  BY <1>4, <1>5, <1>11 DEF LoginInv

LEMMA LoginInvInductive == LoginInv /\ [Client!LoginNext]_loginVars => LoginInv'
<1> SUFFICES ASSUME LoginInv, [Client!LoginNext]_loginVars PROVE LoginInv'
  OBVIOUS
<1>1. CASE Client!PollUpdate
  BY <1>1, PollUpdateKeeps
<1>2. CASE Client!PollResponse
  BY <1>2, PollResponseKeeps
<1>3. ASSUME NEW t \in Client!Threads, Client!Send(t) PROVE LoginInv'
  BY <1>3, SendKeeps
<1>4. CASE \/ Client!OnPhoneNumberRequired \/ Client!OnAuthCodeRequired \/ Client!OnUserLoaded
           \/ \E e \in {"locked", "needed", "invalid", "unexpected"} : Client!ReportAuthError(e)
  BY <1>4, LoginUntouched
     DEF Client!OnPhoneNumberRequired, Client!OnAuthCodeRequired, Client!OnUserLoaded,
         Client!ReportAuthError, Client!NoRequest
<1>5. CASE Client!Serves
  BY <1>5, LoginUntouched
     DEF Client!Serves, Client!Validate, Client!SelectUser, Client!InsertUser,
         Client!RereadUser, Client!ServerOnly, Client!NoRequest
<1>6. ASSUME NEW reply, Client!LoginAnswered(reply) PROVE LoginInv'
  BY <1>6, LoginUntouched DEF Client!LoginAnswered, Client!NoRequest
<1>7. ASSUME NEW kind \in {"phone", "code"}, Client!Register("gui", kind), UNCHANGED <<td, inbox>>
      PROVE  LoginInv'
  <2>1. "gui" \in Client!Threads /\ kind \in Client!Kinds
    BY DEF Client!Threads, Client!Kinds
  <2>2. /\ inbox' \in Seq(Messages) /\ Distinct(inbox') /\ td' \in TdStates
        /\ IdsOf(inbox') \subseteq IdsOf(inbox) /\ Expected(inbox') = Expected(inbox)
    BY <1>7 DEF LoginInv, LoginTypes, IdsUnique
  <2> QED
    BY <1>7, <2>1, <2>2, RegisterKeeps
<1>8. CASE Client!SubmitPhoneNumber \/ Client!SubmitAuthCode
  BY <1>7, <1>8 DEF Client!SubmitPhoneNumber, Client!SubmitAuthCode
<1>9. CASE UNCHANGED loginVars
  BY <1>9, LoginUntouched DEF loginVars
<1>10. {"gui", "polling"} \subseteq Client!Threads
  BY DEF Client!Threads
<1> QED
  BY <1>1, <1>2, <1>3, <1>4, <1>5, <1>6, <1>8, <1>9, <1>10
     DEF Client!LoginNext, Client!Polling, Client!Gui

(* The table of response handlers has those of the requests that are not   *)
(* answered yet, and no other: a response that TDLib has put in its queue  *)
(* finds its handler, however many requests the two threads have sent.     *)
THEOREM LoginHandlersAwait == Client!LoginSpec => []HandlersAwait
<1>1. LoginInv /\ [Client!LoginNext]_(Client!loginVars) => LoginInv'
  BY LoginInvInductive DEF Client!loginVars, loginVars
<1>2. LoginInv => HandlersAwait
  BY DEF LoginInv
<1> QED
  BY <1>1, <1>2, LoginInitInv, PTL DEF Client!LoginSpec
-------------------------------------------------------------------------------
(* Upload.  What is known of a file that nobody has changed: the content   *)
(* is the first edition; a task has read nothing of it, half of it or all. *)
DiskTypes ==
    disk \in [Files -> [is : Uploads!States, data : Nat, mime : Uploads!Mimes,
                        name : Uploads!FileNames]]

TaskSteps == {"none", "queued", "measured", "half", "processed", "skipped", "waiting",
              "sent", "taken", "refused", "broken", "finished", "failed"}
Pictures == {<< >>, <<"frame">>}
TaskTypes ==
    /\ tasks \in [Files -> [at : TaskSteps, sized : BOOLEAN, data : Seq(Nat), large : BOOLEAN]]
    /\ frames \in [Files -> [at : {"none", "check", "seek", "again", "frame", "done"},
                             jpg : Pictures]]
    /\ stored \in [Files -> [data : Seq(Nat), thumbnail : BOOLEAN]]

InOrder(task, found) ==
    /\ task.at = "half" => task.data = <<0>> /\ found.is \in {"fits", "large", "huge"}
    /\ task.at # "half" => task.data \in {<< >>, <<0, 0>>}
ReadInOrder ==
    \A f \in Files : f \notin upset.edited =>
        disk[f].data = 0 /\ InOrder(tasks[f], disk[f])

UploadInv == DiskTypes /\ TaskTypes /\ ReadInOrder /\ StoredWasPicked

LEMMA UploadInitInv == Uploads!UploadInit => UploadInv
<1> SUFFICES ASSUME Uploads!UploadInit PROVE UploadInv
  OBVIOUS
<1>1. DiskTypes /\ disk \in [Files -> [is : Uploads!States, data : {0}, mime : Uploads!Mimes,
                                      name : Uploads!FileNames]]
  BY DEF Uploads!UploadInit, DiskTypes
<1>2. << >> \in Seq(Nat)
  BY EmptySeq
<1>3. TaskTypes
  BY <1>2 DEF Uploads!UploadInit, TaskTypes, TaskSteps, Pictures, Uploads!NotStored
<1>4. ReadInOrder
  BY <1>1 DEF Uploads!UploadInit, ReadInOrder, InOrder
<1>5. StoredWasPicked
  BY DEF Uploads!UploadInit, StoredWasPicked, Uploads!StoredWasPicked
<1> QED
  BY <1>1, <1>3, <1>4, <1>5 DEF UploadInv

LEMMA ShortConcats ==
  \A x, y : <<x>> \o << >> = <<x>> /\ <<x>> \o <<y>> = <<x, y>>
<1> SUFFICES ASSUME NEW x, NEW y
             PROVE  <<x>> \o << >> = <<x>> /\ <<x>> \o <<y>> = <<x, y>>
  OBVIOUS
<1> DEFINE S == {x, y}
           a == <<x>>
           b == <<y>>
           c == <<x, y>>
<1>1. /\ a \in Seq(S) /\ Len(a) = 1 /\ a[1] = x
      /\ b \in Seq(S) /\ Len(b) = 1 /\ b[1] = y
      /\ c \in Seq(S) /\ Len(c) = 2 /\ c[1] = x /\ c[2] = y
  OBVIOUS
<1> HIDE DEF S, a, b, c
<1>2. a \o << >> = a
  BY <1>1, ConcatEmptySeq
<1>3. /\ a \o b \in Seq(S) /\ Len(a \o b) = Len(a) + Len(b)
      /\ \A i \in 1 .. Len(a) + Len(b) :
            (a \o b)[i] = IF i <= Len(a) THEN a[i] ELSE b[i - Len(a)]
  BY <1>1, ConcatProperties
<1>4. Len(a \o b) = 2 /\ (a \o b)[1] = x /\ (a \o b)[2] = y
  BY <1>1, <1>3
<1> DEFINE d == a \o b
<1>5. d \in Seq(S) /\ Len(d) = Len(c) /\ \A i \in 1 .. Len(d) : d[i] = c[i]
  BY <1>1, <1>3, <1>4
<1> HIDE DEF d
<1>6. d = c
  BY <1>1, <1>5, SeqEqual
<1> QED
  BY <1>2, <1>6 DEF a, b, c, d

(* Of the parts of an upload only the first, the video, can be taken for   *)
(* the file.                                                               *)
LEMMA FilePartIsVideo ==
  ASSUME NEW f \in Files, DiskTypes, TaskTypes,
         Uploads!FileParts(Uploads!ParseMultipart(Uploads!Parts(f))) # {}
  PROVE  LET video == Uploads!FilePart(Uploads!ParseMultipart(Uploads!Parts(f))) IN
         video.type = disk[f].mime /\ video.data = tasks[f].data
<1> DEFINE v == [name |-> "video", filename |-> disk[f].name, type |-> disk[f].mime,
                 data |-> tasks[f].data]
           t == [name |-> "thumbnail", filename |-> <<"letters">>, type |-> "image/jpeg",
                 data |-> frames[f].jpg]
           p == Uploads!Parts(f)
           q == Uploads!ParseMultipart(p)
<1>1. p = <<v>> \o << >> \/ p = <<v>> \o <<t>>
  BY DEF Uploads!Parts
<1>2. v.type = disk[f].mime /\ v.data = tasks[f].data /\ t.name = "thumbnail"
  OBVIOUS
<1>3. \A x : [v EXCEPT !.filename = x].type = v.type /\ [v EXCEPT !.filename = x].data = v.data
             /\ [t EXCEPT !.filename = x].name = t.name
  OBVIOUS
<1> HIDE DEF v, t
<1>4. p = <<v>> \/ p = <<v, t>>
  BY <1>1, ShortConcats, Zenon
<1>5. DOMAIN p \subseteq {1, 2} /\ 1 \in DOMAIN p /\ p[1] = v /\ (2 \in DOMAIN p => p[2] = t)
  BY <1>4
<1> HIDE DEF p
<1>6. /\ DOMAIN q = DOMAIN p
      /\ \A i \in DOMAIN p :
            q[i] = [p[i] EXCEPT !.filename = Uploads!UpToQuote(p[i].filename)]
  BY DEF Uploads!ParseMultipart
<1>7. q[1].type = v.type /\ q[1].data = v.data /\ (2 \in DOMAIN q => q[2].name = "thumbnail")
  <2>1. q[1] = [v EXCEPT !.filename = Uploads!UpToQuote(v.filename)]
    BY <1>5, <1>6, Zenon
  <2>2. 2 \in DOMAIN q => q[2] = [t EXCEPT !.filename = Uploads!UpToQuote(t.filename)]
    BY <1>5, <1>6, Zenon
  <2> QED
    BY ZenonT(40), <1>2, <1>3, <2>1, <2>2
<1> HIDE DEF q
<1>8. Uploads!FileParts(q) \subseteq {1}
  BY <1>5, <1>6, <1>7 DEF Uploads!FileParts
<1>9. Uploads!FileParts(q) = {1}
  BY <1>8 DEF p, q
<1>10. Uploads!FilePart(q) = q[1]
  BY <1>9 DEF Uploads!FilePart, Uploads!Min
<1> QED
  BY <1>2, <1>7, <1>10 DEF p, q

(* A step of the thread that extracts a frame changes nothing else.        *)
LEMMA FramesChange ==
  ASSUME UploadInv, UNCHANGED <<disk, tasks, stored, upset>>,
         frames' \in [Files -> [at : {"none", "check", "seek", "again", "frame", "done"},
                               jpg : Pictures]]
  PROVE  UploadInv'
BY DEF UploadInv, DiskTypes, TaskTypes, ReadInOrder, InOrder, StoredWasPicked, Uploads!StoredWasPicked,
       Uploads!Video

(* Nor does a step that takes a task further, and what it has read with it.*)
LEMMA TaskMoves ==
  ASSUME UploadInv, NEW f \in Files, NEW step \in TaskSteps \ {"half"}, tasks[f].at # "half",
         Uploads!To(f, step), UNCHANGED <<disk, frames, stored>>,
         upset'.edited = upset.edited
  PROVE  UploadInv'
<1>1. /\ tasks' \in [Files -> [at : TaskSteps, sized : BOOLEAN, data : Seq(Nat), large : BOOLEAN]]
      /\ tasks'[f].at = step /\ tasks'[f].data = tasks[f].data
      /\ \A g \in Files : g # f => tasks'[g] = tasks[g]
  BY DEF UploadInv, TaskTypes, Uploads!To
<1> QED
  BY ZenonT(40), <1>1 DEF UploadInv, DiskTypes, TaskTypes, ReadInOrder, InOrder, StoredWasPicked,
     Uploads!StoredWasPicked, Uploads!Video

(* A step of the worker: what it has read of an unchanged file is half of  *)
(* it, nothing or all.                                                     *)
LEMMA LoadedInOrder ==
  ASSUME UploadInv, NEW f \in Files, UNCHANGED <<disk, frames, stored, upset>>,
         tasks' \in [Files -> [at : TaskSteps, sized : BOOLEAN, data : Seq(Nat), large : BOOLEAN]],
         \A g \in Files : g # f => tasks'[g] = tasks[g],
         f \notin upset.edited => InOrder(tasks'[f], disk[f])
  PROVE  UploadInv'
<1> USE DEF UploadInv
<1>1. ReadInOrder'
  BY DEF ReadInOrder
<1> QED
  BY <1>1 DEF DiskTypes, TaskTypes, StoredWasPicked, Uploads!StoredWasPicked, Uploads!Video

LEMMA LoadKeeps ==
  ASSUME UploadInv, NEW f \in Files, Uploads!Load(f)
  PROVE  UploadInv'
<1> USE DEF UploadInv
<1> DEFINE Tasks == [at : TaskSteps, sized : BOOLEAN, data : Seq(Nat), large : BOOLEAN]
<1>0. /\ UNCHANGED <<disk, frames, stored, upset>>
      /\ tasks \in [Files -> Tasks] /\ disk[f].data \in Nat
  BY DEF Uploads!Load, Uploads!Measure, Uploads!Open, Uploads!Read, TaskTypes, DiskTypes
<1>2. f \notin upset.edited =>
        disk[f].data = 0 /\ InOrder(tasks[f], disk[f])
  BY DEF ReadInOrder
<1>3. /\ tasks[f].sized \in BOOLEAN /\ tasks[f].data \in Seq(Nat) /\ tasks[f].large \in BOOLEAN
      /\ Uploads!Large(f) \in BOOLEAN /\ Uploads!Readable(f) \in BOOLEAN
  BY <1>0 DEF Uploads!Large, Uploads!Readable
<1>4. CASE Uploads!Measure(f)
  <2> DEFINE step == IF Uploads!Fit(f) THEN "measured" ELSE "processed"
             sized == Uploads!Readable(f) \/ disk[f].is = "locked"
  <2>1. /\ tasks[f].at = "queued"
        /\ tasks' = [tasks EXCEPT ![f].at = step, ![f].sized = sized]
    BY <1>4 DEF Uploads!Measure, Uploads!OneOf
  <2>2. step \in TaskSteps /\ step # "half" /\ sized \in BOOLEAN
    BY DEF TaskSteps
  <2> HIDE DEF step, sized
  <2>3. /\ tasks' \in [Files -> Tasks]
        /\ tasks'[f].at = step /\ tasks'[f].data = tasks[f].data
        /\ \A g \in Files : g # f => tasks'[g] = tasks[g]
    BY <1>0, <2>1, <2>2
  <2> QED
    BY <1>0, LoadedInOrder, <1>2, <2>1, <2>2, <2>3 DEF InOrder
<1>5. CASE Uploads!Open(f)
  <2>1. CASE Uploads!Readable(f)
    <3>1. tasks' = [tasks EXCEPT ![f].at = "half", ![f].data = <<disk[f].data>>,
                                 ![f].large = Uploads!Large(f)]
      BY <1>5, <2>1 DEF Uploads!Open
    <3> DEFINE data == <<disk[f].data>>
    <3>2. data \in Seq(Nat) /\ "half" \in TaskSteps
      BY <1>0 DEF TaskSteps
    <3>3. f \notin upset.edited => data = <<0>>
      BY <1>2
    <3> HIDE DEF data
    <3>4. /\ tasks' \in [Files -> Tasks]
          /\ tasks'[f].at = "half" /\ tasks'[f].data = data
          /\ \A g \in Files : g # f => tasks'[g] = tasks[g]
      BY <1>0, <1>3, <3>1, <3>2 DEF data
    <3> QED
      BY <1>0, LoadedInOrder, <2>1, <3>3, <3>4 DEF InOrder, Uploads!Readable
  <2>2. CASE ~ Uploads!Readable(f)
    <3>1. /\ tasks[f].at = "measured"
          /\ Uploads!To(f, "processed")
      BY <1>5, <2>2 DEF Uploads!Open, Uploads!OneOf
    <3> QED
      BY <1>0, <3>1, TaskMoves DEF TaskSteps
  <2> QED
    BY <2>1, <2>2
<1>6. CASE Uploads!Read(f)
  <2>1. PICK rest \in {tasks[f].data} \cup
                      {IF disk[f].is = "empty" THEN << >> ELSE <<disk[f].data>>},
             large \in {tasks[f].large, Uploads!Large(f)} :
          Uploads!ReadRest(f, rest, large)
    BY <1>6, Zenon DEF Uploads!Read
  <2> DEFINE data == tasks[f].data \o rest
  <2>2. rest \in Seq(Nat)
    <3>1. <<disk[f].data>> \in Seq(Nat) /\ << >> \in Seq(Nat)
      BY <1>0
    <3> QED
      BY <1>3, <2>1, <3>1, Zenon
  <2>3. data \in Seq(Nat)
    BY <1>3, <2>2, ConcatProperties
  <2>4. f \notin upset.edited => data = <<0, 0>>
    <3> HAVE f \notin upset.edited
    <3>1. tasks[f].data = <<0>> /\ disk[f].is # "empty" /\ disk[f].data = 0
      BY <1>2, <1>6 DEF Uploads!Read, Uploads!OneOf, InOrder
    <3>2. <<disk[f].data>> = <<0>> /\ <<0>> \o <<0>> = <<0, 0>>
      BY <3>1, ShortConcats, Zenon
    <3>3. rest = <<0>>
      BY <2>1, <3>1, <3>2, Zenon
    <3> QED
      BY <3>1, <3>2, <3>3, Zenon
  <2>5. tasks' = [tasks EXCEPT ![f].at = "processed", ![f].data = data, ![f].large = large]
        /\ large \in BOOLEAN
    BY <1>3, <2>1 DEF Uploads!ReadRest
  <2> HIDE DEF data
  <2>6. "processed" \in TaskSteps
    BY DEF TaskSteps
  <2>7. /\ tasks' \in [Files -> Tasks]
        /\ tasks'[f].at = "processed" /\ tasks'[f].data = data
        /\ \A g \in Files : g # f => tasks'[g] = tasks[g]
    BY <1>0, <2>3, <2>5, <2>6
  <2> QED
    BY <1>0, LoadedInOrder, <2>4, <2>7 DEF InOrder
<1> QED
  BY <1>4, <1>5, <1>6 DEF Uploads!Load

LEMMA ServeKeeps ==
  ASSUME UploadInv, NEW f \in Files, Uploads!Serve(f)
  PROVE  UploadInv'
<1> DEFINE parts == Uploads!ParseMultipart(Uploads!Parts(f))
           thumb == \E i \in DOMAIN parts : Uploads!IsThumbnail(parts[i])
<1>0. tasks[f].at = "sent" /\ UNCHANGED <<disk, frames, upset>>
  BY DEF Uploads!Serve, Uploads!OneOf
<1> PICK within \in Uploads!WithinLimit(f) :
         IF within /\ Uploads!Accepted(parts)
           THEN /\ stored' = [stored EXCEPT ![f] =
                     [data |-> Uploads!FilePart(parts).data, thumbnail |-> thumb]]
                /\ Uploads!To(f, "taken")
           ELSE Uploads!To(f, "refused") /\ UNCHANGED stored
  BY DEF Uploads!Serve
<1>1. CASE within /\ Uploads!Accepted(parts)
  <2> DEFINE video == Uploads!FilePart(parts)
  <2>1. /\ stored' = [stored EXCEPT ![f] = [data |-> video.data, thumbnail |-> thumb]]
        /\ Uploads!To(f, "taken")
    BY <1>1
  <2>2. /\ Uploads!FileParts(parts) # {}
        /\ video.type \in {"video/mp4"} /\ video.data # << >>
    BY <1>1 DEF Uploads!Accepted, Uploads!AllowedMimes
  <2>3. video.type = disk[f].mime /\ video.data = tasks[f].data
    BY <2>2, FilePartIsVideo DEF UploadInv
  <2>4. thumb \in BOOLEAN
    OBVIOUS
  <2> HIDE DEF parts, thumb, video
  <2>5. /\ tasks' \in [Files -> [at : TaskSteps, sized : BOOLEAN, data : Seq(Nat), large : BOOLEAN]]
        /\ tasks'[f].at = "taken" /\ tasks'[f].data = tasks[f].data
        /\ \A g \in Files : g # f => tasks'[g] = tasks[g]
    <3>1. tasks \in [Files -> [at : TaskSteps, sized : BOOLEAN, data : Seq(Nat), large : BOOLEAN]]
      BY DEF UploadInv, TaskTypes
    <3>2. "taken" \in TaskSteps /\ tasks' = [tasks EXCEPT ![f].at = "taken"]
      BY <2>1 DEF Uploads!To, TaskSteps
    <3> QED
      BY <3>1, <3>2
  <2>6. tasks[f].data \in Seq(Nat)
    BY DEF UploadInv, TaskTypes
  <2>7. /\ stored' \in [Files -> [data : Seq(Nat), thumbnail : BOOLEAN]]
        /\ stored'[f].data = tasks[f].data
        /\ \A g \in Files : g # f => stored'[g] = stored[g]
    BY <2>1, <2>3, <2>4, <2>6 DEF UploadInv, TaskTypes
  <2>8. ReadInOrder'
    BY <1>0, <2>5 DEF UploadInv, ReadInOrder, InOrder
  <2>9. f \notin upset.edited => tasks[f].data = <<0, 0>>
    BY <1>0, <2>2, <2>3 DEF UploadInv, ReadInOrder, InOrder
  <2>10. StoredWasPicked'
    BY <1>0, <2>2, <2>3, <2>7, <2>9
       DEF UploadInv, StoredWasPicked, Uploads!StoredWasPicked, Uploads!Video
  <2> QED
    BY <1>0, <2>5, <2>7, <2>8, <2>10 DEF UploadInv, DiskTypes, TaskTypes
<1>2. CASE ~ (within /\ Uploads!Accepted(parts))
  <2>1. Uploads!To(f, "refused") /\ UNCHANGED stored
    BY <1>2
  <2> QED
    BY <1>0, <2>1, TaskMoves DEF TaskSteps
<1> QED
  BY <1>1, <1>2

LEMMA EditKeeps ==
  ASSUME UploadInv, NEW f \in Files, NEW to \in Uploads!States, Uploads!Edit(f, to)
  PROVE  UploadInv'
<1>1. /\ disk' \in [Files -> [is : Uploads!States, data : Nat, mime : Uploads!Mimes,
                              name : Uploads!FileNames]]
      /\ disk'[f].mime = disk[f].mime
      /\ \A g \in Files : g # f => disk'[g] = disk[g]
  BY DEF UploadInv, DiskTypes, Uploads!Edit
<1>2. /\ f \in upset'.edited /\ upset.edited \subseteq upset'.edited
      /\ UNCHANGED <<tasks, frames, stored>>
  BY DEF Uploads!Edit
<1> QED
  BY <1>1, <1>2 DEF UploadInv, DiskTypes, TaskTypes, ReadInOrder, InOrder, StoredWasPicked,
     Uploads!StoredWasPicked, Uploads!Video

LEMMA UploadInvInductive == UploadInv /\ [Uploads!UploadNext]_uploadVars => UploadInv'
<1> SUFFICES ASSUME UploadInv, [Uploads!UploadNext]_uploadVars PROVE UploadInv'
  OBVIOUS
<1>1. ASSUME NEW picked \in Uploads!GetOpenPaths, Uploads!AttachFiles(picked) PROVE UploadInv'
  <2>1. /\ tasks' \in [Files -> [at : TaskSteps, sized : BOOLEAN, data : Seq(Nat), large : BOOLEAN]]
        /\ \A g \in Files : tasks'[g].data = tasks[g].data
        /\ \A g \in Files : tasks'[g].at = "half" <=> tasks[g].at = "half"
    <3>1. tasks \in [Files -> [at : TaskSteps, sized : BOOLEAN, data : Seq(Nat), large : BOOLEAN]]
      BY DEF UploadInv, TaskTypes
    <3>2. tasks' = [g \in Files |->
                     IF g \in picked THEN [tasks[g] EXCEPT !.at = "queued"] ELSE tasks[g]]
          /\ \A g \in picked : tasks[g].at = "none"
      BY <1>1 DEF Uploads!AttachFiles, Uploads!OneOf
    <3>3. \A t \in [at : TaskSteps, sized : BOOLEAN, data : Seq(Nat), large : BOOLEAN] :
             LET u == [t EXCEPT !.at = "queued"] IN
             /\ u \in [at : TaskSteps, sized : BOOLEAN, data : Seq(Nat), large : BOOLEAN]
             /\ u.data = t.data /\ u.at = "queued"
      BY DEF TaskSteps
    <3> QED
      BY <3>1, <3>2, <3>3
  <2>2. frames' \in [Files -> [at : {"none", "check", "seek", "again", "frame", "done"},
                              jpg : Pictures]]
    BY <1>1 DEF UploadInv, TaskTypes, Uploads!AttachFiles
  <2>3. UNCHANGED <<disk, stored, upset>>
    BY <1>1 DEF Uploads!AttachFiles
  <2> QED
    BY <2>1, <2>2, <2>3 DEF UploadInv, DiskTypes, TaskTypes, ReadInOrder, InOrder, StoredWasPicked,
       Uploads!StoredWasPicked, Uploads!Video
<1>2. ASSUME NEW f \in Files, Uploads!Load(f) PROVE UploadInv'
  BY <1>2, LoadKeeps
<1>3. ASSUME NEW f \in Files, Uploads!Extract(f) \/ Uploads!FfmpegEnds(f) PROVE UploadInv'
  <2> DEFINE FrameSteps == {"none", "check", "seek", "again", "frame", "done"}
  <2>0. frames \in [Files -> [at : FrameSteps, jpg : Pictures]]
    BY DEF UploadInv, TaskTypes
  <2>1. frames' \in [Files -> [at : FrameSteps, jpg : Pictures]]
    <3>1. CASE Uploads!ReadFrame(f)
      BY <2>0, <3>1 DEF Uploads!ReadFrame, Pictures
    <3>2. CASE \E step \in FrameSteps : Uploads!Frame(f, step)
      BY <2>0, <3>2 DEF Uploads!Frame
    <3> QED
      BY <1>3, <3>1, <3>2 DEF Uploads!Extract, Uploads!FfmpegEnds, Uploads!CheckFile,
         Uploads!FfmpegTimeout
  <2>2. UNCHANGED <<disk, tasks, stored, upset>>
    BY <1>3 DEF Uploads!Extract, Uploads!FfmpegEnds, Uploads!CheckFile,
       Uploads!FfmpegTimeout, Uploads!ReadFrame
  <2> QED
    BY <2>1, <2>2, FramesChange
<1>4. ASSUME NEW f \in Files, Uploads!Gui(f) PROVE UploadInv'
  <2>1. /\ tasks[f].at # "half" /\ UNCHANGED <<disk, frames, stored, upset>>
        /\ \E step \in TaskSteps \ {"half"} : Uploads!To(f, step)
    BY <1>4 DEF Uploads!Gui, Uploads!Finish, Uploads!SendUpload, Uploads!Answer,
       Uploads!OneOf, TaskSteps
  <2> QED
    BY <2>1, TaskMoves
<1>5. ASSUME NEW f \in Files, Uploads!Serve(f) PROVE UploadInv'
  BY <1>5, ServeKeeps
<1>6. ASSUME NEW f \in Files, Uploads!Break(f) PROVE UploadInv'
  <2>1. /\ tasks[f].at # "half" /\ UNCHANGED <<disk, frames, stored>>
        /\ Uploads!To(f, "broken") /\ "broken" \in TaskSteps \ {"half"}
    BY <1>6 DEF Uploads!Break, TaskSteps
  <2>2. upset'.edited = upset.edited
    BY <1>6 DEF Uploads!Break
  <2> QED
    BY <2>1, <2>2, TaskMoves
<1>7. ASSUME NEW f \in Files, NEW to \in Uploads!States, Uploads!Edit(f, to) PROVE UploadInv'
  BY <1>7, EditKeeps
<1>8. CASE UNCHANGED uploadVars
  BY <1>8 DEF uploadVars, UploadInv, DiskTypes, TaskTypes, ReadInOrder, InOrder, StoredWasPicked,
     Uploads!StoredWasPicked, Uploads!Video
<1> QED
  BY <1>1, <1>2, <1>3, <1>4, <1>5, <1>6, <1>7, <1>8 DEF Uploads!UploadNext

(* What the server stores was read from the file the user picked: a video, *)
(* not empty, and both halves of the edition that was picked if nobody     *)
(* changed the file; for any number of files, edits and broken uploads.    *)
THEOREM UploadStoredWasPicked == Uploads!UploadSpec => []StoredWasPicked
<1>1. UploadInv /\ [Uploads!UploadNext]_(Uploads!uploadVars) => UploadInv'
  BY UploadInvInductive DEF Uploads!uploadVars, uploadVars
<1>2. UploadInv => StoredWasPicked
  BY DEF UploadInv
<1> QED
  BY <1>1, <1>2, UploadInitInv, PTL DEF Uploads!UploadSpec
-------------------------------------------------------------------------------
(* PlaylistsMirror.  Each playlist fits the server by itself, up to the    *)
(* calls on it that are under way.                                         *)

(* No row of a playlist is shown, or one, which is p.                      *)
NoRow(m, id) == \A i \in DOMAIN m : m[i].id # id
OneRow(m, id, p) ==
    \E i \in DOMAIN m : m[i] = p /\ \A j \in DOMAIN m : m[j].id = id <=> j = i

CallOn(n, id, c) == n[c] # NoCall /\ n[c].id = id
ItemsOnly(n, id) == \A c \in Calls : CallOn(n, id, c) => n[c].op \in Playlists!ItemOps
Quiet(n, id) == \A c \in Calls : ~ CallOn(n, id, c)
Separate(vs) == \A i, j \in DOMAIN vs : i # j => vs[i] # vs[j]
ShownIn(vs, v) == \E i \in DOMAIN vs : vs[i] = v

(* The videos of a row, where the server's are on: the client is ahead of  *)
(* the server by the calls that were not served.                           *)
ItemFits(k, on, vs) ==
    /\ k.op = "add" => /\ ShownIn(vs, k.item)
                       /\ k.item \in on.videos <=> k.answer \in {"done", "garbled"}
    /\ k.op = "remove" => /\ ~ ShownIn(vs, k.item)
                          /\ k.item \in on.videos <=> k.answer # "done"
VideosFit(n, id, on, vs) ==
    /\ Separate(vs)
    /\ \A v \in Items :
         (\A c \in Calls : CallOn(n, id, c) /\ n[c].op \in Playlists!ItemOps => n[c].item # v)
            => (ShownIn(vs, v) <=> v \in on.videos)
    /\ \A c \in Calls : CallOn(n, id, c) => ItemFits(n[c], on, vs)

RowFits(m, n, id, on, kind, name) ==
    \E p \in Playlists!Playlist : /\ OneRow(m, id, p) /\ p.name = name
                                  /\ kind = "none" => VideosFit(n, id, on, p.videos)

(* A playlist with calls on its items only.                                *)
Settled(m, n, id, on, kind) ==
    IF on = NoList THEN NoRow(m, id) /\ Quiet(n, id)
                   ELSE RowFits(m, n, id, on, kind, on.name)

(* A playlist with the call k.                                             *)
CreateFits(m, id, on, k) ==
    /\ OneRow(m, id, [id |-> id, name |-> k.name, videos |-> <<>>])
    /\ k.answer = "none" => on = NoList
    /\ k.answer \in {"done", "garbled"} => on = [name |-> k.name, videos |-> {}]
RenameFits(m, n, id, on, kind, k) ==
    /\ on # NoList
    /\ RowFits(m, n, id, on, kind, k.name)
    /\ on.name = IF k.answer \in {"none", "failed"} THEN k.undo ELSE k.name
DeleteFits(m, n, id, on, kind, k) ==
    /\ NoRow(m, id)
    /\ k.answer = "done" => on = NoList
    /\ k.answer # "done" /\ ~ k.rollback =>
         /\ on # NoList /\ k.undo.name = on.name
         /\ kind = "none" => VideosFit(n, id, on, k.undo.videos)
CallFits(m, n, id, on, kind, k) ==
    /\ k.op = "create" => CreateFits(m, id, on, k)
    /\ k.op = "rename" => RenameFits(m, n, id, on, kind, k)
    /\ k.op = "delete" => DeleteFits(m, n, id, on, kind, k)
    /\ k.op = "add" /\ k.answer = "done" => k.name = on.name

(* Calls that do not disturb each other.                                   *)
Apart(n, id, kind) ==
    \A c, e \in Calls :
        c # e /\ CallOn(n, id, c) /\ CallOn(n, id, e) =>
            /\ n[c].op \in Playlists!ItemOps /\ n[e].op \in Playlists!ItemOps
            /\ kind = "none" => n[c].item # n[e].item

Fits(m, n, id, on, kind) ==
    /\ Apart(n, id, kind)
    /\ ItemsOnly(n, id) => Settled(m, n, id, on, kind)
    /\ \A c \in Calls : CallOn(n, id, c) => CallFits(m, n, id, on, kind, n[c])

CallTyped(k) ==
    /\ k \in Playlists!Call
    /\ k.op \in {"create", "rename"} => k.name \in Names
    /\ k.op = "rename" => k.undo \in Names
    /\ k.op = "delete" => k.undo \in Playlists!Playlist /\ k.undo.id = k.id
    /\ k.op \in Playlists!ItemOps => k.item \in Items
    /\ k.op = "add" /\ k.answer = "done" => k.name \in Names
    /\ k.op \in {"delete", "remove"} => k.answer # "garbled"

MirrorTypes ==
    /\ mirror \in Seq(Playlists!Playlist)
    /\ changes \in Nat
    /\ queued \in BOOLEAN
    /\ srv \in [Ids -> Playlists!OnServer \cup {NoList}]
    /\ doubt \in [Ids -> {"unused", "none", "items", "row"}]
    /\ net \in [Calls -> Playlists!Call \cup {NoCall}]
    /\ \A c \in Calls : Playlists!Busy(c) => CallTyped(net[c])
    /\ listing = [at |-> listing.at, list |-> listing.list, touched |-> listing.touched]
    /\ \A id \in DOMAIN listing.list : id \in Ids /\ listing.list[id] \in Names

(* A list that was served is still right about what nobody has touched.    *)
ListFits(id) ==
    listing.at = "done" /\ <<id, "row">> \notin listing.touched =>
        /\ id \in DOMAIN listing.list <=> srv[id] # NoList
        /\ id \in DOMAIN listing.list => listing.list[id] = srv[id].name
Unused(id) ==
    NoRow(mirror, id) /\ srv[id] = NoList /\ Quiet(net, id) /\ id \notin DOMAIN listing.list

PlaylistInv(id) ==
    /\ ListFits(id)
    /\ doubt[id] = "unused" => Unused(id)
    /\ doubt[id] \in {"none", "items"} => Fits(mirror, net, id, srv[id], doubt[id])

InTouched(id) ==
    listing.at \in {"sent", "done"} =>
        \A c \in Calls : CallOn(net, id, c) => <<id, Playlists!Part(net[c].op)>> \in listing.touched

MirrorInv ==
    /\ MirrorTypes
    /\ current # NoList => Playlists!Has(mirror, current)
    /\ \A id \in Ids : InTouched(id) /\ PlaylistInv(id)

LEMMA MirrorCardinality == ASSUME NEW S PROVE Playlists!Cardinality(S) = Cardinality(S)
BY Zenon DEF Cardinality, Playlists!Cardinality

(* Arranged() is a permutation: the number of elements before one is its   *)
(* place, and no two have the same.                                        *)
Orders(R, D) ==
    /\ \A i \in D : <<i, i>> \notin R
    /\ \A i, j \in D : i # j => <<i, j>> \in R \/ <<j, i>> \in R
    /\ \A i, j, k \in D : <<i, j>> \in R /\ <<j, k>> \in R => <<i, k>> \in R
Earlier(D, R, i) == {k \in D : <<k, i>> \in R}

LEMMA EarlierGrows ==
  ASSUME NEW D, IsFiniteSet(D), NEW R, Orders(R, D), NEW i \in D, NEW j \in D, <<i, j>> \in R
  PROVE  /\ Cardinality(Earlier(D, R, i)) \in Nat /\ Cardinality(Earlier(D, R, j)) \in Nat
         /\ Cardinality(Earlier(D, R, i)) < Cardinality(Earlier(D, R, j))
<1> DEFINE S == Earlier(D, R, i)
           T == Earlier(D, R, j)
<1>1. S \in SUBSET D /\ T \in SUBSET D
  BY DEF Earlier
<1>2. IsFiniteSet(S) /\ IsFiniteSet(T)
  BY <1>1, FS_Subset
<1>3. S \in SUBSET T /\ i \in T /\ i \notin S
  BY DEF Earlier, Orders
<1> HIDE DEF S, T
<1>4. Cardinality(S) \in Nat /\ Cardinality(T) \in Nat
  BY <1>2, FS_CardinalityType
<1>5. Cardinality(S) <= Cardinality(T) /\ Cardinality(T) # Cardinality(S)
  BY <1>2, <1>3, FS_Subset
<1> QED
  BY <1>4, <1>5 DEF S, T

LEMMA EarlierBounds ==
  ASSUME NEW D, IsFiniteSet(D), NEW R, Orders(R, D), NEW i \in D
  PROVE  /\ Cardinality(D) \in Nat /\ Cardinality(Earlier(D, R, i)) \in Nat
         /\ Cardinality(Earlier(D, R, i)) < Cardinality(D)
<1> DEFINE S == Earlier(D, R, i)
<1>1. S \in SUBSET D /\ i \notin S
  BY DEF Earlier, Orders
<1> HIDE DEF S
<1>2. IsFiniteSet(S) /\ Cardinality(S) <= Cardinality(D) /\ Cardinality(D) # Cardinality(S)
  BY <1>1, FS_Subset
<1>3. Cardinality(S) \in Nat /\ Cardinality(D) \in Nat
  BY <1>2, FS_CardinalityType
<1> QED
  BY <1>2, <1>3 DEF S

LEMMA EarlierDiffers ==
  ASSUME NEW D, IsFiniteSet(D), NEW R, Orders(R, D), NEW i \in D, NEW j \in D,
         Cardinality(Earlier(D, R, i)) = Cardinality(Earlier(D, R, j))
  PROVE  i = j
<1> SUFFICES ASSUME i # j PROVE FALSE
  OBVIOUS
<1>1. CASE <<i, j>> \in R
  BY <1>1, EarlierGrows
<1>2. CASE <<j, i>> \in R
  BY <1>2, EarlierGrows
<1> QED
  BY <1>1, <1>2 DEF Orders

LEMMA EachPlaceIsTaken ==
  ASSUME NEW D, IsFiniteSet(D), NEW R, Orders(R, D), NEW n \in 0 .. Cardinality(D) - 1
  PROVE  \E i \in D : Cardinality(Earlier(D, R, i)) = n
<1> DEFINE T == 0 .. Cardinality(D) - 1
           f == [i \in D |-> Cardinality(Earlier(D, R, i))]
<1>1. Cardinality(D) \in Nat
  BY FS_CardinalityType
<1>2. f \in [D -> T]
  BY <1>1, EarlierBounds
<1>3. f \in Injection(D, T)
  BY <1>2, EarlierDiffers DEF Injection, IsInjective
<1>4. IsFiniteSet(T) /\ Cardinality(T) = Cardinality(D)
  BY <1>1, FS_Interval
<1> HIDE DEF f, T
<1>5. f \in Surjection(D, T)
  BY <1>3, <1>4, FS_Injection
<1>6. n \in T
  BY DEF T
<1> QED
  BY <1>5, <1>6 DEF Surjection, f

LEMMA ArrangedPermutes ==
  ASSUME NEW D, IsFiniteSet(D), NEW R, Orders(R, D), NEW before,
         \A i \in D : before[i] = Playlists!Cardinality(Earlier(D, R, i))
  PROVE  LET order == Playlists!Arranged(D, before)
             n == Cardinality(D)
         IN /\ n \in Nat /\ order \in [1 .. n -> D]
            /\ \A i, j \in 1 .. n : order[i] = order[j] => i = j
            /\ \A k \in D : \E i \in 1 .. n : order[i] = k
<1> DEFINE order == Playlists!Arranged(D, before)
           n == Cardinality(D)
           Place(i) == before[i]
<1>1. n \in Nat /\ n = Playlists!Cardinality(D)
  BY FS_CardinalityType, MirrorCardinality
<1>2. order = [m \in 1 .. n |-> CHOOSE i \in D : Place(i) = m - 1]
  BY <1>1 DEF Playlists!Arranged
<1>3. \A i \in D : Place(i) = Cardinality(Earlier(D, R, i))
  BY MirrorCardinality
<1>4. \A m \in 1 .. n : order[m] \in D /\ Place(order[m]) = m - 1
  <2> SUFFICES ASSUME NEW m \in 1 .. n PROVE order[m] \in D /\ Place(order[m]) = m - 1
    OBVIOUS
  <2>1. \E i \in D : Place(i) = m - 1
    BY <1>3, <1>1, EachPlaceIsTaken
  <2> HIDE DEF Place, order
  <2> QED
    BY <1>2, <2>1
<1>5. order \in [1 .. n -> D]
  <2> HIDE DEF Place, order, n
  <2> QED
    BY <1>2, <1>4
<1>6. \A i, j \in 1 .. n : order[i] = order[j] => i = j
  BY <1>1, <1>4
<1>7. ASSUME NEW k \in D PROVE \E i \in 1 .. n : order[i] = k
  <2>1. Place(k) + 1 \in 1 .. n
    BY <1>3, <1>1, EarlierBounds
  <2>2. Place(order[Place(k) + 1]) = Place(k)
    BY <1>3, <1>1, <1>4, <2>1, EarlierBounds
  <2>3. order[Place(k) + 1] = k
    BY <1>3, <1>4, <2>1, <2>2, EarlierDiffers
  <2> QED
    BY <2>1, <2>3
<1> QED
  BY <1>1, <1>5, <1>6, <1>7

(* What becomes of a row.  Keeps: nothing, for it is of another playlist,  *)
(* or the rows are only moved.                                             *)
Keeps(m, n, id) ==
    /\ NoRow(m, id) <=> NoRow(n, id)
    /\ \A p \in Playlists!Playlist : OneRow(m, id, p) => OneRow(n, id, p)

LEMMA MirrorConstants ==
  /\ \A id \in Ids : id \in Nat
  /\ \A name \in Names : name \in Nat
  /\ NewNames \subseteq Names /\ MaxChanges \in Nat
  /\ NoList \notin Playlists!OnServer /\ NoCall \notin Playlists!Call
  /\ IsFiniteSet(Ids)
<1>1. Playlists!IsFiniteSet(Ids) => IsFiniteSet(Ids)
  BY Zenon DEF Playlists!IsFiniteSet, IsFiniteSet
<1> QED
  BY <1>1, ClientPlaylists DEF Playlists!MirrorAssumption

LEMMA HasRow == \A m, id : Playlists!Has(m, id) <=> ~ NoRow(m, id)
BY DEF Playlists!Has, Playlists!IndicesOf, NoRow

LEMMA HasMin ==
  ASSUME NEW S \in SUBSET Nat, S # {}
  PROVE  Playlists!Min(S) \in S
<1>1. \E x \in S : \A y \in S : ~ (y < x)
  <2>1. PICK x \in S : \A y \in S : ~ (<<y, x>> \in OpToRel(<, Nat))
    BY NatLessThanWellFounded, WFMin
  <2> QED
    BY <2>1 DEF OpToRel
<1>2. \E x \in S : \A y \in S : x <= y
  BY <1>1
<1> QED
  BY <1>2 DEF Playlists!Min

LEMMA IndexIsFirst ==
  ASSUME NEW m \in Seq(Playlists!Playlist), NEW id \in Ids, Playlists!Has(m, id)
  PROVE  Playlists!IndexOf(m, id) \in DOMAIN m /\ m[Playlists!IndexOf(m, id)].id = id
<1> DEFINE S == Playlists!IndicesOf(m, id)
<1>1. S \in SUBSET Nat /\ S # {}
  BY DEF Playlists!IndicesOf, Playlists!Has
<1>2. Playlists!Min(S) \in S
  BY <1>1, HasMin
<1> QED
  BY <1>2 DEF Playlists!IndexOf, Playlists!IndicesOf, Playlists!IndicesOf

LEMMA FindOne ==
  ASSUME NEW m \in Seq(Playlists!Playlist), NEW id \in Ids, NEW p, OneRow(m, id, p)
  PROVE  /\ Playlists!Has(m, id) /\ Playlists!Find(m, id) = p /\ p.id = id
         /\ Playlists!IndicesOf(m, id) = {Playlists!IndexOf(m, id)}
<1>1. PICK i \in DOMAIN m : m[i] = p /\ \A j \in DOMAIN m : m[j].id = id <=> j = i
  BY DEF OneRow
<1>2. Playlists!IndicesOf(m, id) = {i}
  BY <1>1 DEF Playlists!IndicesOf
<1>3. Playlists!Min({i}) = i
  BY <1>1 DEF Playlists!Min
<1> QED
  BY <1>1, <1>2, <1>3 DEF Playlists!Has, Playlists!Find, Playlists!IndexOf

LEMMA SortKeeps ==
  ASSUME NEW m \in Seq(Playlists!Playlist)
  PROVE  Playlists!SortByName(m) \in Seq(Playlists!Playlist) /\ \A id \in Ids : Keeps(m, Playlists!SortByName(m), id)
<1> DEFINE D == DOMAIN m
           Precedes(k, i) == Playlists!Before(m[k], m[i]) \/ (k < i /\ ~ Playlists!Before(m[i], m[k]))
           R == {e \in D \X D : Precedes(e[1], e[2])}
           before == [i \in D |-> Playlists!Cardinality({k \in D : Precedes(k, i)})]
           order == Playlists!Arranged(D, before)
           s == [n \in D |-> m[order[n]]]
<1>1. D = 1 .. Len(m) /\ Len(m) \in Nat
  OBVIOUS
<1>2. IsFiniteSet(D) /\ Cardinality(D) = Len(m)
  <2>1. IsFiniteSet(1 .. Len(m)) /\ Cardinality(1 .. Len(m)) = Len(m)
    BY <1>1, FS_Interval
  <2> QED
    BY <1>1, <2>1
<1>3. Playlists!SortByName(m) = s
  BY DEF Playlists!SortByName
<1>4. ASSUME NEW i \in D PROVE m[i] \in Playlists!Playlist /\ m[i].id \in Nat /\ m[i].name \in Nat
  <2>1. m[i] \in Playlists!Playlist
    OBVIOUS
  <2>2. m[i].id \in Ids /\ m[i].name \in Names
    BY <2>1 DEF Playlists!Playlist
  <2> QED
    BY <2>1, <2>2, MirrorConstants
<1>5. ASSUME NEW k \in D, NEW i \in D
      PROVE  <<k, i>> \in R <=> Playlists!Before(m[k], m[i]) \/ (k < i /\ ~ Playlists!Before(m[i], m[k]))
  <2> DEFINE e == <<k, i>>
  <2>1. e \in D \X D /\ e[1] = k /\ e[2] = i
    OBVIOUS
  <2> HIDE DEF e
  <2> QED
    BY <2>1 DEF e
<1> HIDE DEF R
<1>6. \A i \in D : before[i] = Playlists!Cardinality(Earlier(D, R, i))
  <2>1. ASSUME NEW i \in D PROVE {k \in D : Precedes(k, i)} = Earlier(D, R, i)
    BY <1>5 DEF Earlier
  <2> QED
    BY <2>1, Zenon
<1>7. Orders(R, D)
  <2>1. \A i \in D : <<i, i>> \notin R
    BY <1>1, <1>4, <1>5 DEF Playlists!Before
  <2>2. \A i, j \in D : i # j => <<i, j>> \in R \/ <<j, i>> \in R
    BY <1>1, <1>4, <1>5 DEF Playlists!Before
  <2>3. ASSUME NEW i \in D, NEW j \in D, NEW k \in D, <<i, j>> \in R, <<j, k>> \in R
        PROVE  <<i, k>> \in R
    <3>1. /\ m[i].id \in Nat /\ m[j].id \in Nat /\ m[k].id \in Nat
          /\ m[i].name \in Nat /\ m[j].name \in Nat /\ m[k].name \in Nat
          /\ i \in Nat /\ j \in Nat /\ k \in Nat
      BY <1>1, <1>4
    <3>2. /\ Playlists!Before(m[i], m[j]) \/ (i < j /\ ~ Playlists!Before(m[j], m[i]))
          /\ Playlists!Before(m[j], m[k]) \/ (j < k /\ ~ Playlists!Before(m[k], m[j]))
      BY <1>5, <2>3
    <3>3. Playlists!Before(m[i], m[k]) \/ (i < k /\ ~ Playlists!Before(m[k], m[i]))
      BY <3>1, <3>2 DEF Playlists!Before
    <3> QED
      BY <1>5, <3>3
  <2> QED
    BY <2>1, <2>2, <2>3 DEF Orders
<1> HIDE DEF before
<1>8. /\ order \in [1 .. Cardinality(D) -> D]
      /\ \A i, j \in 1 .. Cardinality(D) : order[i] = order[j] => i = j
      /\ \A k \in D : \E i \in 1 .. Cardinality(D) : order[i] = k
  BY <1>2, <1>7, <1>6, ArrangedPermutes
<1>9. /\ order \in [D -> D]
      /\ \A i, j \in D : order[i] = order[j] => i = j
      /\ \A k \in D : \E i \in D : order[i] = k
  BY <1>2, <1>1, <1>8
<1> HIDE DEF order
<1>10. s \in Seq(Playlists!Playlist) /\ DOMAIN s = D /\ \A n \in D : s[n] = m[order[n]]
  BY <1>1, <1>4, <1>9
<1> HIDE DEF s
<1>11. ASSUME NEW id \in Ids PROVE Keeps(m, s, id)
  <2>1. NoRow(m, id) <=> NoRow(s, id)
    BY <1>9, <1>10 DEF NoRow
  <2>2. ASSUME NEW p \in Playlists!Playlist, OneRow(m, id, p) PROVE OneRow(s, id, p)
    <3>1. PICK i \in D : m[i] = p /\ \A j \in D : m[j].id = id <=> j = i
      BY <2>2 DEF OneRow
    <3>2. PICK n \in D : order[n] = i
      BY <1>9
    <3>3. s[n] = p /\ \A j \in D : s[j].id = id <=> j = n
      BY <1>9, <1>10, <3>1, <3>2
    <3> QED
      BY <1>10, <3>3 DEF OneRow
  <2> QED
    BY <2>1, <2>2 DEF Keeps
<1> QED
  BY <1>3, <1>10, <1>11

LEMMA WithoutAt ==
  ASSUME NEW S, NEW s \in Seq(S), NEW i \in DOMAIN s
  PROVE  LET w == Playlists!Without(s, i)
         IN /\ w \in Seq(S) /\ DOMAIN w = 1 .. Len(s) - 1
            /\ \A j \in DOMAIN w : w[j] = s[IF j < i THEN j ELSE j + 1]
            /\ \A j \in DOMAIN s : j # i => \E k \in DOMAIN w : w[k] = s[j] /\ (k = j \/ k = j - 1)
<1> DEFINE a == SubSeq(s, 1, i - 1)
           b == SubSeq(s, i + 1, Len(s))
           w == Playlists!Without(s, i)
<1>1. Len(s) \in Nat /\ i \in 1 .. Len(s) /\ DOMAIN s = 1 .. Len(s)
  OBVIOUS
<1>2. /\ a \in Seq(S) /\ Len(a) = i - 1
      /\ \A j \in 1 .. i - 1 : a[j] = s[j]
  BY <1>1, SubSeqProperties
<1>3. /\ b \in Seq(S) /\ Len(b) = Len(s) - i
      /\ \A j \in 1 .. Len(s) - i : b[j] = s[i + j]
  BY <1>1, SubSeqProperties
<1>4. w = a \o b
  BY DEF Playlists!Without
<1> HIDE DEF a, b, w
<1>5. /\ w \in Seq(S) /\ Len(w) = Len(s) - 1
      /\ \A j \in 1 .. Len(w) : w[j] = IF j <= Len(a) THEN a[j] ELSE b[j - Len(a)]
  <2>1. /\ a \o b \in Seq(S) /\ Len(a \o b) = Len(a) + Len(b)
        /\ \A j \in 1 .. Len(a) + Len(b) :
             (a \o b)[j] = IF j <= Len(a) THEN a[j] ELSE b[j - Len(a)]
    BY <1>2, <1>3, ConcatProperties
  <2>2. Len(a) + Len(b) = Len(s) - 1
    BY <1>1, <1>2, <1>3
  <2> QED
    BY <1>4, <2>1, <2>2
<1>6. DOMAIN w = 1 .. Len(s) - 1
  BY <1>5
<1>7. ASSUME NEW j \in DOMAIN w PROVE w[j] = s[IF j < i THEN j ELSE j + 1]
  <2>1. j \in Nat /\ j >= 1 /\ j <= Len(s) - 1 /\ i \in Nat
    BY <1>1, <1>6
  <2>2. CASE j < i
    BY <1>1, <1>2, <1>5, <2>1, <2>2
  <2>3. CASE ~ (j < i)
    <3> DEFINE k == j - Len(a)
    <3>1. k \in 1 .. Len(s) - i /\ i + k = j + 1 /\ ~ (j <= Len(a))
      BY <1>1, <1>2, <2>1, <2>3
    <3>2. w[j] = b[k]
      BY <1>5, <1>6, <3>1
    <3>3. b[k] = s[i + k]
      BY <1>3, <3>1
    <3> QED
      BY <2>3, <3>1, <3>2, <3>3
  <2> QED
    BY <2>2, <2>3
<1>8. ASSUME NEW j \in DOMAIN s, j # i
      PROVE  \E k \in DOMAIN w : w[k] = s[j] /\ (k = j \/ k = j - 1)
  <2>1. CASE j < i
    BY <1>1, <1>6, <1>7, <2>1
  <2>2. CASE ~ (j < i)
    <3>1. j - 1 \in DOMAIN w /\ ~ (j - 1 < i) /\ (j - 1) + 1 = j
      BY <1>1, <1>6, <1>8, <2>2
    <3> QED
      BY <1>7, <3>1
  <2> QED
    BY <2>1, <2>2
<1> QED
  BY <1>5, <1>6, <1>7, <1>8 DEF w

LEMMA WithoutRow ==
  ASSUME NEW m \in Seq(Playlists!Playlist), NEW id \in Ids, Playlists!Has(m, id)
  PROVE  LET n == Playlists!Without(m, Playlists!IndexOf(m, id))
         IN /\ n \in Seq(Playlists!Playlist)
            /\ \A y \in Ids : y # id => Keeps(m, n, y)
            /\ \A p \in Playlists!Playlist : OneRow(m, id, p) => NoRow(n, id)
<1> DEFINE i == Playlists!IndexOf(m, id)
           n == Playlists!Without(m, i)
<1>1. i \in DOMAIN m /\ m[i].id = id /\ DOMAIN m = 1 .. Len(m) /\ Len(m) \in Nat
  BY IndexIsFirst
<1> HIDE DEF i
<1>2. /\ n \in Seq(Playlists!Playlist) /\ DOMAIN n = 1 .. Len(m) - 1
      /\ \A j \in DOMAIN n : n[j] = m[IF j < i THEN j ELSE j + 1]
      /\ \A j \in DOMAIN m : j # i => \E k \in DOMAIN n : n[k] = m[j] /\ (k = j \/ k = j - 1)
  BY <1>1, WithoutAt
<1> HIDE DEF n
<1>3. ASSUME NEW j \in DOMAIN n
      PROVE  \E k \in DOMAIN m : k # i /\ n[j] = m[k] /\ k = IF j < i THEN j ELSE j + 1
  BY <1>1, <1>2
<1>4. ASSUME NEW y \in Ids, y # id PROVE Keeps(m, n, y)
  <2>1. NoRow(m, y) <=> NoRow(n, y)
    BY <1>1, <1>2, <1>3, <1>4 DEF NoRow
  <2>2. ASSUME NEW p \in Playlists!Playlist, OneRow(m, y, p) PROVE OneRow(n, y, p)
    <3>1. PICK k \in DOMAIN m : m[k] = p /\ \A j \in DOMAIN m : m[j].id = y <=> j = k
      BY <2>2 DEF OneRow
    <3>2. k # i
      BY <1>1, <1>4, <3>1
    <3>3. PICK l \in DOMAIN n : n[l] = p
      BY <1>2, <3>1, <3>2
    <3>4. ASSUME NEW j \in DOMAIN n PROVE n[j].id = y <=> j = l
      <4>1. PICK a \in DOMAIN m : a # i /\ n[j] = m[a] /\ a = IF j < i THEN j ELSE j + 1
        BY <1>3
      <4>2. PICK b \in DOMAIN m : b # i /\ n[l] = m[b] /\ b = IF l < i THEN l ELSE l + 1
        BY <1>3
      <4>3. b = k
        BY <3>1, <3>3, <4>2
      <4>4. n[j].id = y <=> a = k
        BY <3>1, <4>1
      <4>5. a = b <=> j = l
        BY <1>1, <1>2, <4>1, <4>2
      <4> QED
        BY <4>3, <4>4, <4>5
    <3> QED
      BY <3>3, <3>4 DEF OneRow
  <2> QED
    BY <2>1, <2>2 DEF Keeps
<1>5. ASSUME NEW p \in Playlists!Playlist, OneRow(m, id, p) PROVE NoRow(n, id)
  BY <1>1, <1>3, <1>5 DEF OneRow, NoRow
<1> QED
  BY <1>2, <1>4, <1>5 DEF n, i

LEMMA ChangedRow ==
  ASSUME NEW m \in Seq(Playlists!Playlist), NEW id \in Ids, Playlists!Has(m, id),
         NEW p \in Playlists!Playlist, p.id = id
  PROVE  LET n == [m EXCEPT ![Playlists!IndexOf(m, id)] = p]
         IN /\ n \in Seq(Playlists!Playlist) /\ Playlists!Has(n, id)
            /\ \A y \in Ids : y # id => Keeps(m, n, y)
            /\ \A q \in Playlists!Playlist : OneRow(m, id, q) => OneRow(n, id, p)
<1> DEFINE i == Playlists!IndexOf(m, id)
           n == [m EXCEPT ![i] = p]
<1>1. i \in DOMAIN m /\ m[i].id = id /\ DOMAIN m = 1 .. Len(m) /\ Len(m) \in Nat
  BY IndexIsFirst
<1> HIDE DEF i
<1>2. /\ n \in Seq(Playlists!Playlist) /\ DOMAIN n = DOMAIN m /\ n[i] = p
      /\ \A j \in DOMAIN m : j # i => n[j] = m[j]
      /\ \A j \in DOMAIN m : n[j].id = m[j].id
  BY <1>1
<1> HIDE DEF n
<1>3. \A y \in Ids : NoRow(m, y) <=> NoRow(n, y)
  BY <1>2 DEF NoRow
<1>4. ASSUME NEW y \in Ids, y # id, NEW q \in Playlists!Playlist, OneRow(m, y, q) PROVE OneRow(n, y, q)
  BY <1>1, <1>2, <1>4 DEF OneRow
<1>5. ASSUME NEW q \in Playlists!Playlist, OneRow(m, id, q) PROVE OneRow(n, id, p)
  BY <1>1, <1>2, <1>5 DEF OneRow
<1>6. Playlists!Has(n, id)
  BY <1>3, HasRow
<1> QED
  BY <1>2, <1>3, <1>4, <1>5, <1>6 DEF n, i, Keeps

LEMMA AppendedRow ==
  ASSUME NEW m \in Seq(Playlists!Playlist), NEW p \in Playlists!Playlist
  PROVE  LET n == Append(m, p)
         IN /\ n \in Seq(Playlists!Playlist) /\ Playlists!Has(n, p.id)
            /\ \A y \in Ids : y # p.id => Keeps(m, n, y)
            /\ NoRow(m, p.id) => OneRow(n, p.id, p)
<1> DEFINE n == Append(m, p)
           l == Len(m) + 1
<1>1. Len(m) \in Nat /\ DOMAIN m = 1 .. Len(m)
  OBVIOUS
<1>2. /\ n \in Seq(Playlists!Playlist) /\ DOMAIN n = 1 .. l /\ n[l] = p
      /\ \A j \in DOMAIN m : n[j] = m[j]
  BY <1>1
<1> HIDE DEF n
<1>3. l \in DOMAIN n /\ \A j \in DOMAIN n : j \in DOMAIN m \/ j = l
  BY <1>1, <1>2
<1>4. l \notin DOMAIN m /\ \A j \in DOMAIN m : j \in DOMAIN n
  BY <1>1, <1>2
<1> HIDE DEF l
<1>5. ASSUME NEW y \in Ids, y # p.id PROVE Keeps(m, n, y)
  <2>1. NoRow(m, y) <=> NoRow(n, y)
    BY <1>2, <1>3, <1>4, <1>5 DEF NoRow
  <2>2. ASSUME NEW q \in Playlists!Playlist, OneRow(m, y, q) PROVE OneRow(n, y, q)
    BY <1>2, <1>3, <1>4, <1>5, <2>2 DEF OneRow
  <2> QED
    BY <2>1, <2>2 DEF Keeps
<1>6. ~ NoRow(n, p.id)
  BY <1>2, <1>3 DEF NoRow
<1>7. ASSUME NoRow(m, p.id) PROVE OneRow(n, p.id, p)
  BY <1>2, <1>3, <1>4, <1>7 DEF NoRow, OneRow
<1> QED
  BY <1>2, <1>5, <1>6, <1>7, HasRow DEF n

LEMMA KeepsAndKeeps ==
  ASSUME NEW a, NEW b, NEW c, NEW id, Keeps(a, b, id), Keeps(b, c, id)
  PROVE  Keeps(a, c, id)
BY DEF Keeps

LEMMA ReconcileSingleKeeps ==
  ASSUME NEW m \in Seq(Playlists!Playlist), NEW id \in Ids, NEW name \in Names
  PROVE  LET n == Playlists!ReconcileSingle(m, id, name)
         IN /\ n \in Seq(Playlists!Playlist) /\ Playlists!Has(n, id)
            /\ \A y \in Ids : y # id => Keeps(m, n, y)
            /\ \A p \in Playlists!Playlist : OneRow(m, id, p) => OneRow(n, id, [p EXCEPT !.name = name])
<1> DEFINE n == Playlists!ReconcileSingle(m, id, name)
<1>1. CASE Playlists!Has(m, id)
  <2> DEFINE q == [Playlists!Find(m, id) EXCEPT !.name = name]
             r == [m EXCEPT ![Playlists!IndexOf(m, id)] = q]
  <2>1. Playlists!Find(m, id) \in Playlists!Playlist /\ Playlists!Find(m, id).id = id /\ Playlists!IndexOf(m, id) \in DOMAIN m
    BY <1>1, IndexIsFirst DEF Playlists!Find
  <2>2. q \in Playlists!Playlist /\ q.id = id
    BY <2>1 DEF Playlists!Playlist
  <2>3. n = Playlists!SortByName(r)
    BY <1>1 DEF Playlists!ReconcileSingle, Playlists!Find
  <2>4. \A p : OneRow(m, id, p) => q = [p EXCEPT !.name = name]
    BY FindOne
  <2> HIDE DEF q, n
  <2>5. /\ r \in Seq(Playlists!Playlist) /\ Playlists!Has(r, id)
        /\ \A y \in Ids : y # id => Keeps(m, r, y)
        /\ \A p \in Playlists!Playlist : OneRow(m, id, p) => OneRow(r, id, q)
    BY <1>1, <2>2, ChangedRow
  <2> HIDE DEF r
  <2>6. n \in Seq(Playlists!Playlist) /\ \A y \in Ids : Keeps(r, n, y)
    BY <2>3, <2>5, SortKeeps
  <2>7. Playlists!Has(n, id)
    BY <2>5, <2>6, HasRow DEF Keeps
  <2>8. \A p \in Playlists!Playlist : OneRow(m, id, p) => OneRow(n, id, [p EXCEPT !.name = name])
    BY <2>2, <2>4, <2>5, <2>6 DEF Keeps
  <2>9. \A y \in Ids : y # id => Keeps(m, n, y)
    BY <2>5, <2>6, KeepsAndKeeps
  <2> QED
    BY <2>6, <2>7, <2>8, <2>9 DEF n
<1>2. CASE ~ Playlists!Has(m, id)
  <2> DEFINE q == [id |-> id, name |-> name, videos |-> <<>>]
             r == Append(m, q)
  <2>1. q \in Playlists!Playlist /\ q.id = id
    BY DEF Playlists!Playlist
  <2>2. n = Playlists!SortByName(r)
    BY <1>2 DEF Playlists!ReconcileSingle
  <2> HIDE DEF q, n
  <2>3. /\ r \in Seq(Playlists!Playlist) /\ Playlists!Has(r, id)
        /\ \A y \in Ids : y # id => Keeps(m, r, y)
    BY <2>1, AppendedRow
  <2> HIDE DEF r
  <2>4. n \in Seq(Playlists!Playlist) /\ \A y \in Ids : Keeps(r, n, y)
    BY <2>2, <2>3, SortKeeps
  <2>5. Playlists!Has(n, id)
    BY <2>3, <2>4, HasRow DEF Keeps
  <2>6. \A p \in Playlists!Playlist : ~ OneRow(m, id, p)
    BY <1>2, FindOne
  <2>7. \A y \in Ids : y # id => Keeps(m, n, y)
    BY <2>3, <2>4, KeepsAndKeeps
  <2> QED
    BY <2>4, <2>5, <2>6, <2>7 DEF n
<1> QED
  BY <1>1, <1>2

Carried(m, id) == IF Playlists!Has(m, id) THEN Playlists!Find(m, id).videos ELSE <<>>

LEMMA ReconcileAllIs ==
  ASSUME NEW list, DOMAIN list \in SUBSET Ids, \A id \in DOMAIN list : list[id] \in Names,
         mirror \in Seq(Playlists!Playlist)
  PROVE  LET n == Playlists!ReconcileAll(list)
         IN /\ n \in Seq(Playlists!Playlist)
            /\ \A id \in Ids : id \notin DOMAIN list => NoRow(n, id)
            /\ \A id \in DOMAIN list :
                 OneRow(n, id, [id |-> id, name |-> list[id], videos |-> Carried(mirror, id)])
<1> DEFINE ids == DOMAIN list
           row(id) == [id |-> id, name |-> list[id], videos |-> Carried(mirror, id)]
           Rows == {row(id) : id \in ids}
           N == Cardinality(ids)
           Whole(s) == {s[i].id : i \in DOMAIN s} = ids
           s == CHOOSE s \in [1 .. N -> Rows] : Whole(s)
<1>1. Playlists!ReconcileAll(list) = Playlists!SortByName(s)
  BY MirrorCardinality DEF Playlists!ReconcileAll, Carried
<1>2. ASSUME NEW id \in ids PROVE row(id) \in Playlists!Playlist /\ row(id).id = id
  <2>1. Carried(mirror, id) \in Seq(Items)
    <3>1. CASE Playlists!Has(mirror, id)
      <4>1. mirror[Playlists!IndexOf(mirror, id)] \in Playlists!Playlist
        BY <3>1, IndexIsFirst
      <4> QED
        BY <3>1, <4>1 DEF Carried, Playlists!Find, Playlists!Playlist
    <3> QED
      BY <3>1 DEF Carried
  <2> QED
    BY <2>1 DEF Playlists!Playlist
<1>3. IsFiniteSet(ids) /\ N \in Nat
  BY MirrorConstants, FS_Subset, FS_CardinalityType
<1>4. \E t \in [1 .. N -> Rows] : Whole(t)
  <2>1. PICK b \in Bijection(1 .. N, ids) : TRUE
    BY <1>3, FS_CardinalityType DEF ExistsBijection
  <2>2. b \in [1 .. N -> ids] /\ \A id \in ids : \E i \in 1 .. N : b[i] = id
    BY <2>1 DEF Bijection, Surjection, Injection
  <2> DEFINE t == [i \in 1 .. N |-> row(b[i])]
  <2>3. t \in [1 .. N -> Rows]
    BY <2>2
  <2>4. DOMAIN t = 1 .. N /\ \A i \in 1 .. N : t[i].id = b[i]
    BY <2>2
  <2> HIDE DEF t
  <2>5. Whole(t)
    BY <2>2, <2>4
  <2> QED
    BY <2>3, <2>5
<1> HIDE DEF N
<1>5. s \in [1 .. N -> Rows] /\ Whole(s)
  <2> HIDE DEF Rows, Whole
  <2> QED
    BY <1>4
<1> HIDE DEF s
<1>6. \A i \in 1 .. N : s[i].id \in ids /\ s[i] = row(s[i].id)
  BY <1>2, <1>5
<1>7. s \in Seq(Playlists!Playlist) /\ DOMAIN s = 1 .. N
  BY <1>2, <1>3, <1>5, <1>6
<1>8. \A i, j \in 1 .. N : s[i].id = s[j].id => i = j
  <2> DEFINE f == [i \in 1 .. N |-> s[i].id]
  <2>1. f \in Surjection(1 .. N, ids)
    <3>1. f \in [1 .. N -> ids]
      BY <1>6
    <3>2. \A id \in ids : \E i \in 1 .. N : f[i] = id
      BY <1>5, <1>7
    <3> QED
      BY <3>1, <3>2 DEF Surjection
  <2>2. IsFiniteSet(1 .. N) /\ Cardinality(1 .. N) = N
    BY <1>3, FS_Interval
  <2>3. Cardinality(1 .. N) = Cardinality(ids)
    BY <2>2 DEF N
  <2> HIDE DEF f
  <2>4. f \in Injection(1 .. N, ids)
    BY <2>1, <2>2, <2>3, FS_SurjSameCardinalityImpliesInj
  <2> QED
    BY <2>4 DEF Injection, IsInjective, f
<1>9. ASSUME NEW id \in Ids, id \notin ids PROVE NoRow(s, id)
  BY <1>6, <1>7, <1>9 DEF NoRow
<1>10. ASSUME NEW id \in ids PROVE OneRow(s, id, row(id))
  <2>1. PICK i \in 1 .. N : s[i].id = id
    BY <1>5, <1>7
  <2> QED
    BY <1>6, <1>7, <1>8, <2>1 DEF OneRow
<1>11. Playlists!SortByName(s) \in Seq(Playlists!Playlist) /\ \A id \in Ids : Keeps(s, Playlists!SortByName(s), id)
  BY <1>7, SortKeeps
<1> QED
  BY <1>1, <1>2, <1>9, <1>10, <1>11 DEF Keeps

(* The videos of a row: one more, one less.                                *)
LEMMA AppendedVideo ==
  ASSUME NEW vs \in Seq(Items), NEW v \in Items, ~ ShownIn(vs, v)
  PROVE  /\ Append(vs, v) \in Seq(Items)
         /\ Separate(vs) => Separate(Append(vs, v))
         /\ \A u \in Items : ShownIn(Append(vs, v), u) <=> ShownIn(vs, u) \/ u = v
<1> DEFINE w == Append(vs, v)
           l == Len(vs) + 1
<1>1. Len(vs) \in Nat /\ DOMAIN vs = 1 .. Len(vs)
  OBVIOUS
<1>2. w \in Seq(Items) /\ DOMAIN w = 1 .. l /\ w[l] = v /\ \A j \in DOMAIN vs : w[j] = vs[j]
  BY <1>1
<1> HIDE DEF w
<1>3. /\ l \in DOMAIN w /\ l \notin DOMAIN vs
      /\ \A j \in DOMAIN w : j \in DOMAIN vs \/ j = l
      /\ \A j \in DOMAIN vs : j \in DOMAIN w
  BY <1>1, <1>2
<1> HIDE DEF l
<1>4. Separate(vs) => Separate(w)
  BY <1>2, <1>3 DEF Separate, ShownIn
<1>5. \A u \in Items : ShownIn(w, u) <=> ShownIn(vs, u) \/ u = v
  BY <1>2, <1>3 DEF ShownIn
<1> QED
  BY <1>2, <1>4, <1>5 DEF w

LEMMA RemovedVideo ==
  ASSUME NEW vs \in Seq(Items), NEW v \in Items, ShownIn(vs, v)
  PROVE  LET w == Playlists!Without(vs, Playlists!Min({i \in DOMAIN vs : vs[i] = v}))
         IN /\ w \in Seq(Items)
            /\ Separate(vs) =>
                 /\ Separate(w)
                 /\ \A u \in Items : ShownIn(w, u) <=> ShownIn(vs, u) /\ u # v
<1> DEFINE I == {i \in DOMAIN vs : vs[i] = v}
           k == Playlists!Min(I)
           w == Playlists!Without(vs, k)
<1>1. I \in SUBSET Nat /\ I # {}
  BY DEF ShownIn
<1> HIDE DEF I
<1>2. k \in I
  BY <1>1, HasMin
<1>3. k \in DOMAIN vs /\ vs[k] = v /\ DOMAIN vs = 1 .. Len(vs) /\ Len(vs) \in Nat
  BY <1>2 DEF I
<1> HIDE DEF k
<1>4. /\ w \in Seq(Items) /\ DOMAIN w = 1 .. Len(vs) - 1
      /\ \A j \in DOMAIN w : w[j] = vs[IF j < k THEN j ELSE j + 1]
      /\ \A j \in DOMAIN vs : j # k => \E i \in DOMAIN w : w[i] = vs[j] /\ (i = j \/ i = j - 1)
  BY <1>3, WithoutAt
<1> HIDE DEF w
<1>5. ASSUME NEW j \in DOMAIN w
      PROVE  \E i \in DOMAIN vs : i # k /\ w[j] = vs[i] /\ i = IF j < k THEN j ELSE j + 1
  BY <1>3, <1>4
<1>6. ASSUME Separate(vs) PROVE Separate(w)
  <2> SUFFICES ASSUME NEW i \in DOMAIN w, NEW j \in DOMAIN w, i # j PROVE w[i] # w[j]
    BY DEF Separate
  <2>1. PICK a \in DOMAIN vs : a # k /\ w[i] = vs[a] /\ a = IF i < k THEN i ELSE i + 1
    BY <1>5
  <2>2. PICK b \in DOMAIN vs : b # k /\ w[j] = vs[b] /\ b = IF j < k THEN j ELSE j + 1
    BY <1>5
  <2>3. a # b
    BY <1>3, <1>4, <2>1, <2>2
  <2> QED
    BY <1>6, <2>1, <2>2, <2>3 DEF Separate
<1>7. ASSUME Separate(vs), NEW u \in Items PROVE ShownIn(w, u) <=> ShownIn(vs, u) /\ u # v
  <2>1. ASSUME ShownIn(w, u) PROVE ShownIn(vs, u) /\ u # v
    BY <1>3, <1>5, <1>7, <2>1 DEF ShownIn, Separate
  <2>2. ASSUME ShownIn(vs, u), u # v PROVE ShownIn(w, u)
    BY <1>3, <1>4, <2>2 DEF ShownIn
  <2> QED
    BY <2>1, <2>2
<1> QED
  BY <1>4, <1>6, <1>7 DEF w, k, I

LEMMA ErasedVideo ==
  ASSUME NEW vs \in Seq(Items), NEW v \in Items
  PROVE  LET w == Playlists!WithoutAll(vs, v)
         IN /\ w \in Seq(Items)
            /\ Separate(vs) => Separate(w)
            /\ \A u \in Items : ShownIn(w, u) <=> ShownIn(vs, u) /\ u # v
<1> DEFINE D == {i \in DOMAIN vs : vs[i] # v}
           R == {e \in D \X D : e[1] < e[2]}
           before == [i \in D |-> Playlists!Cardinality({k \in D : k < i})]
           order == Playlists!Arranged(D, before)
           n == Cardinality(D)
           w == [i \in DOMAIN order |-> vs[order[i]]]
<1>1. Playlists!WithoutAll(vs, v) = w
  BY DEF Playlists!WithoutAll
<1>2. IsFiniteSet(D) /\ \A i \in D : i \in Nat /\ i \in DOMAIN vs /\ vs[i] \in Items
  <2>1. IsFiniteSet(1 .. Len(vs))
    BY FS_Interval
  <2>2. D \in SUBSET (1 .. Len(vs))
    OBVIOUS
  <2> QED
    BY <2>1, <2>2, FS_Subset
<1>3. ASSUME NEW k \in D, NEW i \in D PROVE <<k, i>> \in R <=> k < i
  <2> DEFINE e == <<k, i>>
  <2>1. e \in D \X D /\ e[1] = k /\ e[2] = i
    OBVIOUS
  <2> HIDE DEF e
  <2> QED
    BY <2>1 DEF e
<1>4. Orders(R, D)
  <2> HIDE DEF R, D
  <2> QED
    BY <1>2, <1>3 DEF Orders
<1>5. \A i \in D : before[i] = Playlists!Cardinality(Earlier(D, R, i))
  <2>1. ASSUME NEW i \in D PROVE {k \in D : k < i} = Earlier(D, R, i)
    <3> HIDE DEF R, D
    <3> QED
      BY <1>3 DEF Earlier
  <2> QED
    BY <2>1, Zenon
<1>6. \A i : i \in D <=> i \in DOMAIN vs /\ vs[i] # v
  OBVIOUS
<1>7. IsFiniteSet(D)
  BY <1>2
<1> HIDE DEF before, R, D
<1>8. /\ n \in Nat /\ order \in [1 .. n -> D]
      /\ \A i, j \in 1 .. n : order[i] = order[j] => i = j
      /\ \A k \in D : \E i \in 1 .. n : order[i] = k
  BY <1>4, <1>5, <1>7, ArrangedPermutes
<1> HIDE DEF order, n
<1>9. w \in Seq(Items) /\ DOMAIN w = 1 .. n /\ \A i \in 1 .. n : w[i] = vs[order[i]]
  BY <1>2, <1>8
<1> HIDE DEF w
<1>10. ASSUME Separate(vs) PROVE Separate(w)
  <2> SUFFICES ASSUME NEW i \in 1 .. n, NEW j \in 1 .. n, i # j PROVE w[i] # w[j]
    BY <1>9 DEF Separate
  <2>1. order[i] \in DOMAIN vs /\ order[j] \in DOMAIN vs /\ order[i] # order[j]
    BY <1>6, <1>8
  <2> QED
    BY <1>9, <1>10, <2>1 DEF Separate
<1>11. ASSUME NEW u \in Items PROVE ShownIn(w, u) <=> ShownIn(vs, u) /\ u # v
  <2>1. ASSUME NEW i \in DOMAIN w, w[i] = u PROVE ShownIn(vs, u) /\ u # v
    BY <1>6, <1>8, <1>9, <2>1 DEF ShownIn
  <2>2. ASSUME NEW j \in DOMAIN vs, vs[j] = u, u # v PROVE ShownIn(w, u)
    <3>1. PICK i \in 1 .. n : order[i] = j
      BY <1>6, <1>8, <2>2
    <3> QED
      BY <1>9, <2>2, <3>1 DEF ShownIn
  <2> QED
    BY <2>1, <2>2 DEF ShownIn
<1> QED
  BY <1>1, <1>9, <1>10, <1>11 DEF w

(* A step of one playlist leaves the others as they fit.                   *)
SameCalls(n, n2, id) ==
    \A c \in Calls : /\ CallOn(n, id, c) <=> CallOn(n2, id, c)
                     /\ CallOn(n, id, c) => n2[c] = n[c]

LEMMA SameVideosFit ==
  ASSUME NEW n, NEW n2, NEW id, NEW on, NEW vs,
         SameCalls(n, n2, id), VideosFit(n, id, on, vs)
  PROVE  VideosFit(n2, id, on, vs)
<1>1. \A c \in Calls : CallOn(n2, id, c) => CallOn(n, id, c) /\ n2[c] = n[c]
  BY DEF SameCalls
<1>2. \A c \in Calls : CallOn(n, id, c) => CallOn(n2, id, c) /\ n2[c] = n[c]
  BY DEF SameCalls
<1> QED
  BY <1>1, <1>2 DEF VideosFit

LEMMA SameRowFits ==
  ASSUME NEW m, NEW m2, NEW n, NEW n2, NEW id, NEW on, NEW kind, NEW name,
         Keeps(m, m2, id), SameCalls(n, n2, id), RowFits(m, n, id, on, kind, name)
  PROVE  RowFits(m2, n2, id, on, kind, name)
<1>1. PICK p \in Playlists!Playlist : /\ OneRow(m, id, p) /\ p.name = name
                                      /\ kind = "none" => VideosFit(n, id, on, p.videos)
  BY DEF RowFits
<1>2. OneRow(m2, id, p)
  BY <1>1 DEF Keeps
<1>3. kind = "none" => VideosFit(n2, id, on, p.videos)
  BY <1>1, SameVideosFit
<1> QED
  BY <1>1, <1>2, <1>3 DEF RowFits

LEMMA SameFits ==
  ASSUME NEW m, NEW m2, NEW n, NEW n2, NEW id \in Ids, NEW on, NEW kind,
         Fits(m, n, id, on, kind), Keeps(m, m2, id), SameCalls(n, n2, id),
         \A c \in Calls : CallOn(n, id, c) => CallTyped(n[c])
  PROVE  Fits(m2, n2, id, on, kind)
<1>1. \A c \in Calls : CallOn(n2, id, c) => CallOn(n, id, c) /\ n2[c] = n[c]
  BY DEF SameCalls
<1>2. Apart(n2, id, kind)
  BY <1>1 DEF Fits, Apart
<1>3. ASSUME ItemsOnly(n2, id) PROVE Settled(m2, n2, id, on, kind)
  <2>1. ItemsOnly(n, id)
    BY <1>3 DEF ItemsOnly, SameCalls
  <2>2. Settled(m, n, id, on, kind)
    BY <2>1 DEF Fits
  <2>3. CASE on = NoList
    BY <1>1, <2>2, <2>3 DEF Settled, Keeps, Quiet
  <2>4. CASE on # NoList
    <3>1. RowFits(m, n, id, on, kind, on.name)
      BY <2>2, <2>4 DEF Settled
    <3>2. RowFits(m2, n2, id, on, kind, on.name)
      BY <3>1, SameRowFits
    <3> QED
      BY <2>4, <3>2 DEF Settled
  <2> QED
    BY <2>3, <2>4
<1>4. ASSUME NEW c \in Calls, CallOn(n2, id, c) PROVE CallFits(m2, n2, id, on, kind, n2[c])
  <2> DEFINE k == n[c]
  <2>1. n2[c] = k /\ CallFits(m, n, id, on, kind, k) /\ CallTyped(k)
    BY <1>1, <1>4 DEF Fits
  <2> HIDE DEF k
  <2>2. ASSUME k.op = "create" PROVE CreateFits(m2, id, on, k)
    <3>1. [id |-> id, name |-> k.name, videos |-> <<>>] \in Playlists!Playlist
      BY <2>1, <2>2 DEF CallTyped, Playlists!Playlist
    <3>2. CreateFits(m, id, on, k)
      BY <2>1, <2>2 DEF CallFits
    <3> QED
      BY <3>1, <3>2 DEF CreateFits, Keeps
  <2>3. ASSUME k.op = "rename" PROVE RenameFits(m2, n2, id, on, kind, k)
    <3>1. RenameFits(m, n, id, on, kind, k)
      BY <2>1, <2>3 DEF CallFits
    <3>2. RowFits(m, n, id, on, kind, k.name)
      BY <3>1 DEF RenameFits
    <3>3. RowFits(m2, n2, id, on, kind, k.name)
      BY <3>2, SameRowFits
    <3> QED
      BY <3>1, <3>3 DEF RenameFits
  <2>4. ASSUME k.op = "delete" PROVE DeleteFits(m2, n2, id, on, kind, k)
    <3>1. DeleteFits(m, n, id, on, kind, k)
      BY <2>1, <2>4 DEF CallFits
    <3>2. VideosFit(n, id, on, k.undo.videos) => VideosFit(n2, id, on, k.undo.videos)
      BY SameVideosFit
    <3>3. NoRow(m, id) => NoRow(m2, id)
      BY DEF Keeps
    <3> QED
      BY <3>1, <3>2, <3>3 DEF DeleteFits
  <2> QED
    BY <2>1, <2>2, <2>3, <2>4 DEF CallFits
<1> QED
  BY <1>2, <1>3, <1>4 DEF Fits

LEMMA OnePlaylistSteps ==
  ASSUME NEW id \in Ids, MirrorInv, MirrorTypes',
         current' # NoList => Playlists!Has(mirror', current'),
         listing'.at = listing.at, listing'.list = listing.list,
         listing.touched \subseteq listing'.touched,
         \A y \in Ids : y # id => /\ Keeps(mirror, mirror', y) /\ SameCalls(net, net', y)
                                  /\ srv'[y] = srv[y] /\ doubt'[y] = doubt[y],
         InTouched(id)', PlaylistInv(id)'
  PROVE  MirrorInv'
<1> SUFFICES ASSUME NEW y \in Ids, y # id PROVE InTouched(y)' /\ PlaylistInv(y)'
  BY DEF MirrorInv
<1>1. /\ Keeps(mirror, mirror', y) /\ SameCalls(net, net', y)
      /\ srv'[y] = srv[y] /\ doubt'[y] = doubt[y]
  OBVIOUS
<1>2. \A c \in Calls : CallOn(net', y, c) => CallOn(net, y, c) /\ net'[c] = net[c]
  BY <1>1 DEF SameCalls
<1>3. InTouched(y) /\ PlaylistInv(y) /\ MirrorTypes
  BY DEF MirrorInv
<1>4. InTouched(y)'
  BY <1>2, <1>3 DEF InTouched
<1>5. ListFits(y)'
  BY <1>1, <1>3 DEF PlaylistInv, ListFits
<1>6. ASSUME doubt'[y] = "unused" PROVE Unused(y)'
  <2>1. Unused(y)
    BY <1>1, <1>3, <1>6 DEF PlaylistInv
  <2> QED
    BY <1>1, <1>2, <2>1 DEF Unused, Keeps, Quiet
<1>7. ASSUME doubt'[y] \in {"none", "items"}
      PROVE  Fits(mirror', net', y, srv'[y], doubt'[y])
  <2>1. Fits(mirror, net, y, srv[y], doubt[y])
    BY <1>1, <1>3, <1>7 DEF PlaylistInv
  <2>2. \A c \in Calls : CallOn(net, y, c) => CallTyped(net[c])
    BY <1>3 DEF MirrorTypes, CallOn, Playlists!Busy
  <2> QED
    BY <1>1, <2>1, <2>2, SameFits
<1> QED
  BY <1>4, <1>5, <1>6, <1>7 DEF PlaylistInv

LEMMA OneCall ==
  ASSUME NEW id \in Ids, NEW c \in Calls, NEW k, NEW n, NEW n2, n2 = [n EXCEPT ![c] = k],
         DOMAIN n = Calls, k = NoCall \/ k.id = id, n[c] = NoCall \/ n[c].id = id
  PROVE  /\ DOMAIN n2 = Calls /\ n2[c] = k /\ \A e \in Calls : e # c => n2[e] = n[e]
         /\ \A y \in Ids : y # id => SameCalls(n, n2, y)
<1>1. n2[c] = k /\ \A e \in Calls : e # c => n2[e] = n[e]
  OBVIOUS
<1>2. ASSUME NEW y \in Ids, y # id PROVE SameCalls(n, n2, y)
  <2>1. ~ CallOn(n, y, c) /\ ~ CallOn(n2, y, c)
    BY <1>1, <1>2 DEF CallOn
  <2>2. \A e \in Calls : e # c => (CallOn(n, y, e) <=> CallOn(n2, y, e))
    BY <1>1 DEF CallOn
  <2> QED
    BY <1>1, <2>1, <2>2 DEF SameCalls
<1> QED
  BY <1>1, <1>2

LEMMA NotUnused ==
  ASSUME NEW id \in Ids, MirrorInv, (\E c \in Calls : CallOn(net, id, c)) \/ Playlists!Has(mirror, id)
  PROVE  doubt[id] # "unused"
BY HasRow DEF MirrorInv, PlaylistInv, Unused, Quiet

(* Another call starts on a playlist, or instead of one that ended.        *)
LEMMA SendSteps ==
  ASSUME NEW id \in Ids, NEW c \in Calls, NEW k \in Playlists!Call, CallTyped(k), k.id = id,
         MirrorInv, net[c] = NoCall \/ net[c].id = id, Playlists!Send(c, k), changes' \in Nat,
         mirror' \in Seq(Playlists!Playlist), current' # NoList => Playlists!Has(mirror', current'),
         \A y \in Ids : y # id => Keeps(mirror, mirror', y) /\ doubt'[y] = doubt[y],
         doubt' \in [Ids -> {"none", "items", "row", "unused"}], doubt'[id] # "unused",
         doubt'[id] \in {"none", "items"} =>
             Fits(mirror', [net EXCEPT ![c] = k], id, srv[id], doubt'[id])
  PROVE  MirrorInv'
<1>1. /\ net' = [net EXCEPT ![c] = k] /\ queued' = queued /\ srv' = srv
      /\ listing' = Playlists!Touched(k.op, id)
  BY DEF Playlists!Send
<1>2. MirrorTypes /\ InTouched(id) /\ PlaylistInv(id)
  BY DEF MirrorInv
<1>3. DOMAIN net = Calls /\ k # NoCall
  BY <1>2, MirrorConstants DEF MirrorTypes
<1>4. /\ DOMAIN net' = Calls /\ net'[c] = k /\ \A e \in Calls : e # c => net'[e] = net[e]
      /\ \A y \in Ids : y # id => SameCalls(net, net', y)
  BY <1>1, <1>3, OneCall
<1>5. /\ listing'.at = listing.at /\ listing'.list = listing.list
      /\ listing.touched \subseteq listing'.touched
      /\ listing.at \in {"sent", "done"} => <<id, Playlists!Part(k.op)>> \in listing'.touched
      /\ listing' = [at |-> listing'.at, list |-> listing'.list, touched |-> listing'.touched]
  BY <1>1, <1>2 DEF Playlists!Touched, MirrorTypes
<1>6. MirrorTypes'
  <2>1. net' \in [Calls -> Playlists!Call \cup {NoCall}]
    BY <1>1, <1>2 DEF MirrorTypes
  <2>2. \A e \in Calls : net'[e] # NoCall => CallTyped(net'[e])
    BY <1>2, <1>4 DEF MirrorTypes, Playlists!Busy
  <2> QED
    BY <1>1, <1>2, <1>5, <2>1, <2>2 DEF MirrorTypes, Playlists!Busy
<1>7. InTouched(id)'
  BY <1>2, <1>4, <1>5 DEF InTouched, CallOn
<1>8. PlaylistInv(id)'
  BY <1>1, <1>2, <1>5 DEF PlaylistInv, ListFits
<1> QED
  BY <1>1, <1>4, <1>5, <1>6, <1>7, <1>8, OnePlaylistSteps

(* A call ends.                                                            *)
LEMMA EndSteps ==
  ASSUME NEW id \in Ids, NEW c \in Calls, CallOn(net, id, c),
         MirrorInv, Playlists!End(c), changes' \in Nat, listing' = listing,
         mirror' \in Seq(Playlists!Playlist), current' # NoList => Playlists!Has(mirror', current'),
         \A y \in Ids : y # id => Keeps(mirror, mirror', y) /\ doubt'[y] = doubt[y],
         doubt' \in [Ids -> {"none", "items", "row", "unused"}], doubt'[id] # "unused",
         doubt'[id] \in {"none", "items"} =>
             Fits(mirror', [net EXCEPT ![c] = NoCall], id, srv[id], doubt'[id])
  PROVE  MirrorInv'
<1>1. net' = [net EXCEPT ![c] = NoCall] /\ queued' = queued /\ srv' = srv
  BY DEF Playlists!End
<1>2. MirrorTypes /\ InTouched(id) /\ PlaylistInv(id)
  BY DEF MirrorInv
<1>3. DOMAIN net = Calls /\ net[c].id = id
  BY <1>2 DEF MirrorTypes, CallOn
<1>4. /\ DOMAIN net' = Calls /\ net'[c] = NoCall /\ \A e \in Calls : e # c => net'[e] = net[e]
      /\ \A y \in Ids : y # id => SameCalls(net, net', y)
  BY <1>1, <1>3, OneCall
<1>5. MirrorTypes'
  <2>1. net' \in [Calls -> Playlists!Call \cup {NoCall}]
    BY <1>1, <1>2 DEF MirrorTypes
  <2>2. \A e \in Calls : net'[e] # NoCall => CallTyped(net'[e])
    BY <1>2, <1>4 DEF MirrorTypes, Playlists!Busy
  <2> QED
    BY <1>1, <1>2, <2>1, <2>2 DEF MirrorTypes, Playlists!Busy
<1>6. InTouched(id)'
  BY <1>2, <1>4 DEF InTouched, CallOn
<1>7. PlaylistInv(id)'
  BY <1>1, <1>2 DEF PlaylistInv, ListFits
<1> QED
  BY <1>1, <1>4, <1>5, <1>6, <1>7, OnePlaylistSteps

(* What fits a playlist with no call on it, with one call that is not on   *)
(* an item, and with calls on items.                                       *)
Plain(on, vs) == Separate(vs) /\ \A v \in Items : ShownIn(vs, v) <=> v \in on.videos

LEMMA VideosArePlain ==
  ASSUME NEW n, NEW id, NEW on, NEW vs,
         \A c \in Calls : CallOn(n, id, c) => n[c].op \notin Playlists!ItemOps
  PROVE  VideosFit(n, id, on, vs) <=> Plain(on, vs)
BY DEF VideosFit, Plain, ItemFits, Playlists!ItemOps

LEMMA Alone ==
  ASSUME NEW n, NEW id, NEW kind, Apart(n, id, kind),
         NEW c \in Calls, CallOn(n, id, c), n[c].op \notin Playlists!ItemOps
  PROVE  \A e \in Calls : CallOn(n, id, e) <=> e = c
BY DEF Apart

LEMMA QuietRowFits ==
  ASSUME NEW p \in Playlists!Playlist, NEW m, NEW n, NEW id, NEW on, NEW kind,
         Quiet(n, id), OneRow(m, id, p), on # NoList, p.name = on.name,
         kind = "none" => Plain(on, p.videos)
  PROVE  Fits(m, n, id, on, kind)
<1>1. kind = "none" => VideosFit(n, id, on, p.videos)
  BY VideosArePlain DEF Quiet
<1>2. RowFits(m, n, id, on, kind, on.name)
  BY <1>1 DEF RowFits
<1> QED
  BY <1>2 DEF Fits, Settled, Apart, Quiet

LEMMA QuietGone ==
  ASSUME NEW m, NEW n, NEW id, NEW on, NEW kind, Quiet(n, id), NoRow(m, id), on = NoList
  PROVE  Fits(m, n, id, on, kind)
BY DEF Fits, Settled, Apart, Quiet

LEMMA LoneCallFits ==
  ASSUME NEW c \in Calls, NEW m, NEW n, NEW id, NEW on, NEW kind,
         \A e \in Calls : CallOn(n, id, e) <=> e = c,
         n[c].op \notin Playlists!ItemOps, CallFits(m, n, id, on, kind, n[c])
  PROVE  Fits(m, n, id, on, kind)
BY DEF Fits, Apart, ItemsOnly

LEMMA ItemsFit ==
  ASSUME NEW p \in Playlists!Playlist, NEW m, NEW n, NEW id, NEW on, NEW kind,
         ItemsOnly(n, id), Apart(n, id, kind), OneRow(m, id, p), on # NoList, p.name = on.name,
         kind = "none" => VideosFit(n, id, on, p.videos),
         \A c \in Calls : CallOn(n, id, c) /\ n[c].op = "add" /\ n[c].answer = "done" =>
                              n[c].name = on.name
  PROVE  Fits(m, n, id, on, kind)
<1>1. RowFits(m, n, id, on, kind, on.name)
  BY DEF RowFits
<1>2. \A c \in Calls : CallOn(n, id, c) => CallFits(m, n, id, on, kind, n[c])
  BY DEF CallFits, ItemsOnly, Playlists!ItemOps
<1> QED
  BY <1>1, <1>2 DEF Fits, Settled

(* The call on video v starts, is served or ends.                          *)
LEMMA VideoSteps ==
  ASSUME NEW v \in Items, NEW c \in Calls, NEW n, NEW n2, NEW id, NEW on, NEW on2, NEW vs, NEW vs2,
         VideosFit(n, id, on, vs), Separate(vs2),
         \A u \in Items : u # v => /\ ShownIn(vs2, u) <=> ShownIn(vs, u)
                                   /\ u \in on2.videos <=> u \in on.videos,
         \A e \in Calls : e # c => n2[e] = n[e],
         \A e \in Calls : e # c /\ CallOn(n, id, e) =>
             n[e].op \in Playlists!ItemOps /\ n[e].item \in Items /\ n[e].item # v,
         CallOn(n, id, c) => n[c].item = v,
         CallOn(n2, id, c) => n2[c].item = v /\ n2[c].op \in Playlists!ItemOps /\ ItemFits(n2[c], on2, vs2),
         ~ CallOn(n2, id, c) => (ShownIn(vs2, v) <=> v \in on2.videos)
  PROVE  VideosFit(n2, id, on2, vs2)
<1>1. \A e \in Calls : e # c => (CallOn(n2, id, e) <=> CallOn(n, id, e))
  BY DEF CallOn
<1>2. ASSUME NEW u \in Items,
             \A e \in Calls : CallOn(n2, id, e) /\ n2[e].op \in Playlists!ItemOps => n2[e].item # u
      PROVE  ShownIn(vs2, u) <=> u \in on2.videos
  <2>1. CASE u = v
    BY <1>2, <2>1
  <2>2. CASE u # v
    <3>1. \A e \in Calls : CallOn(n, id, e) /\ n[e].op \in Playlists!ItemOps => n[e].item # u
      BY <1>1, <1>2, <2>2
    <3>2. ShownIn(vs, u) <=> u \in on.videos
      BY <3>1 DEF VideosFit
    <3> QED
      BY <2>2, <3>2
  <2> QED
    BY <2>1, <2>2
<1>3. ASSUME NEW e \in Calls, CallOn(n2, id, e) PROVE ItemFits(n2[e], on2, vs2)
  <2>1. CASE e = c
    BY <1>3, <2>1
  <2>2. CASE e # c
    <3>1. ItemFits(n[e], on, vs)
      BY <1>1, <1>3, <2>2 DEF VideosFit
    <3>2. n[e].item \in Items /\ n[e].item # v /\ n2[e] = n[e]
      BY <1>1, <1>3, <2>2
    <3> QED
      BY <3>1, <3>2 DEF ItemFits
  <2> QED
    BY <2>1, <2>2
<1> QED
  BY <1>2, <1>3 DEF VideosFit

LEMMA CurrentKept ==
  ASSUME NEW id \in Ids, NEW m, MirrorInv, \A y \in Ids : y # id => Keeps(mirror, m, y),
         current # id \/ Playlists!Has(m, id)
  PROVE  current # NoList => Playlists!Has(m, current)
<1> SUFFICES ASSUME current # NoList, current # id PROVE Playlists!Has(m, current)
  OBVIOUS
<1>1. Playlists!Has(mirror, current) /\ mirror \in Seq(Playlists!Playlist)
  BY DEF MirrorInv, MirrorTypes
<1>2. current \in Ids
  <2>1. PICK i \in DOMAIN mirror : mirror[i].id = current
    BY <1>1 DEF Playlists!Has, Playlists!IndicesOf
  <2>2. mirror[i] \in Playlists!Playlist
    BY <1>1
  <2> QED
    BY <2>1, <2>2 DEF Playlists!Playlist
<1> QED
  BY <1>1, <1>2, HasRow DEF Keeps

LEMMA RowShown ==
  ASSUME NEW id \in Ids, MirrorInv, Playlists!Has(mirror, id)
  PROVE  LET p == Playlists!Find(mirror, id)
         IN /\ p \in Playlists!Playlist /\ p.id = id
            /\ doubt[id] \in {"none", "items"} /\ ItemsOnly(net, id) =>
                 /\ srv[id] # NoList /\ OneRow(mirror, id, p) /\ p.name = srv[id].name
                 /\ doubt[id] = "none" => VideosFit(net, id, srv[id], p.videos)
<1> DEFINE p == Playlists!Find(mirror, id)
<1>1. mirror \in Seq(Playlists!Playlist) /\ PlaylistInv(id)
  BY DEF MirrorInv, MirrorTypes
<1>2. p \in Playlists!Playlist /\ p.id = id
  BY <1>1, IndexIsFirst DEF Playlists!Find
<1>3. ASSUME doubt[id] \in {"none", "items"}, ItemsOnly(net, id)
      PROVE  /\ srv[id] # NoList /\ OneRow(mirror, id, p) /\ p.name = srv[id].name
             /\ doubt[id] = "none" => VideosFit(net, id, srv[id], p.videos)
  <2>1. Settled(mirror, net, id, srv[id], doubt[id])
    BY <1>1, <1>3 DEF PlaylistInv, Fits
  <2>2. srv[id] # NoList
    BY <2>1, HasRow DEF Settled
  <2>3. RowFits(mirror, net, id, srv[id], doubt[id], srv[id].name)
    BY <2>1, <2>2 DEF Settled
  <2>4. PICK q \in Playlists!Playlist : /\ OneRow(mirror, id, q) /\ q.name = srv[id].name
                                        /\ doubt[id] = "none" => VideosFit(net, id, srv[id], q.videos)
    BY <2>3 DEF RowFits
  <2>5. p = q
    BY <1>1, <2>4, FindOne
  <2> QED
    BY <2>2, <2>4, <2>5
<1> QED
  BY <1>2, <1>3

(* What two calls on one playlist leave in doubt.                          *)
Doubts == {"none", "items", "row", "unused"}

LEMMA DoubtIs ==
  ASSUME NEW id \in Ids, NEW kind \in {"items", "row"}, MirrorInv
  PROVE  LET d == Playlists!Doubt(id, kind)
         IN /\ d \in [Ids -> Doubts] /\ \A y \in Ids : y # id => d[y] = doubt[y]
            /\ d[id] = IF doubt[id] = "row" THEN "row" ELSE kind
BY DEF MirrorInv, MirrorTypes, Playlists!Doubt, Doubts

LEMMA OverlapIs ==
  ASSUME NEW id \in Ids, NEW op \in {"rename", "delete", "add", "remove"}, NEW v,
         MirrorInv, Playlists!Has(mirror, id)
  PROVE  LET d == Playlists!Overlap(op, id, v)
         IN /\ d \in [Ids -> Doubts] /\ \A y \in Ids : y # id => d[y] = doubt[y]
            /\ d[id] # "unused"
            /\ d[id] \in {"none", "items"} =>
                 /\ doubt[id] \in {"none", "items"} /\ ItemsOnly(net, id)
                 /\ d[id] = "none" => doubt[id] = "none" /\
                      \A c \in Calls : CallOn(net, id, c) => net[c].item # v
                 /\ op \notin Playlists!ItemOps => Quiet(net, id) /\ d[id] = doubt[id]
<1> DEFINE d == Playlists!Overlap(op, id, v)
           others == {c \in Calls : Playlists!Busy(c) /\ net[c].id = id}
<1>1. \A c \in Calls : c \in others <=> CallOn(net, id, c)
  BY DEF Playlists!Busy, CallOn
<1>2. d = IF \E c \in others : op \notin Playlists!ItemOps \/ net[c].op \notin Playlists!ItemOps THEN Playlists!Doubt(id, "row")
          ELSE IF \E c \in others : net[c].item = v THEN Playlists!Doubt(id, "items") ELSE doubt
  BY DEF Playlists!Overlap
<1>3. /\ doubt \in [Ids -> Doubts] /\ doubt[id] # "unused"
  BY NotUnused DEF MirrorInv, MirrorTypes, Doubts
<1>4. \A c \in others : c \in Calls
  OBVIOUS
<1> HIDE DEF others, d
<1>5. CASE \E c \in others : op \notin Playlists!ItemOps \/ net[c].op \notin Playlists!ItemOps
  <2>1. d = Playlists!Doubt(id, "row")
    BY <1>2, <1>5
  <2> QED
    BY <1>3, <2>1, DoubtIs DEF d
<1>6. CASE ~ \E c \in others : op \notin Playlists!ItemOps \/ net[c].op \notin Playlists!ItemOps
  <2>1. ItemsOnly(net, id)
    BY <1>1, <1>6 DEF ItemsOnly
  <2>2. op \notin Playlists!ItemOps => Quiet(net, id)
    BY <1>1, <1>6 DEF Quiet
  <2>3. CASE \E c \in others : net[c].item = v
    <3>1. d = Playlists!Doubt(id, "items")
      BY <1>2, <1>6, <2>3
    <3>2. op \in Playlists!ItemOps
      BY <1>6, <2>3
    <3> QED
      BY <1>3, <2>1, <3>1, <3>2, DoubtIs DEF d, Doubts
  <2>4. CASE ~ \E c \in others : net[c].item = v
    <3>1. d = doubt
      BY <1>2, <1>6, <2>4
    <3> QED
      BY <1>1, <1>3, <2>1, <2>2, <2>4, <3>1 DEF d, Doubts
  <2> QED
    BY <2>3, <2>4
<1> QED
  BY <1>5, <1>6

(* The user's operations.                                                  *)
LEMMA FreshCall ==
  ASSUME NEW id \in Ids, NEW c \in Calls, NEW k, MirrorInv, net[c] = NoCall,
         k # NoCall, k.id = id
  PROVE  LET n2 == [net EXCEPT ![c] = k]
         IN /\ n2[c] = k /\ CallOn(n2, id, c) /\ ~ CallOn(net, id, c)
            /\ \A e \in Calls : e # c => n2[e] = net[e]
            /\ \A e \in Calls : e # c => (CallOn(n2, id, e) <=> CallOn(net, id, e))
<1>1. DOMAIN net = Calls
  BY DEF MirrorInv, MirrorTypes
<1> QED
  BY <1>1 DEF CallOn

LEMMA CreateKeeps ==
  ASSUME NEW c \in Calls, NEW id \in Ids, NEW name \in NewNames, MirrorInv, changes' \in Nat,
         Playlists!Create(c, id, name)
  PROVE  MirrorInv'
<1> DEFINE p == [id |-> id, name |-> name, videos |-> <<>>]
           r == Append(mirror, p)
           k == Playlists!CreatePlaylistRemote(id, name)
           n2 == [net EXCEPT ![c] = k]
<1>1. /\ net[c] = NoCall /\ doubt[id] = "unused" /\ mirror' = Playlists!SortByName(r)
      /\ doubt' = [doubt EXCEPT ![id] = "none"] /\ Playlists!Send(c, k) /\ current' = current
  BY DEF Playlists!Create, Playlists!Busy
<1>2. mirror \in Seq(Playlists!Playlist) /\ doubt \in [Ids -> Doubts]
  BY DEF MirrorInv, MirrorTypes, Doubts
<1>3. name \in Names
  BY MirrorConstants
<1>4. p \in Playlists!Playlist /\ p.id = id
  BY <1>3 DEF Playlists!Playlist
<1>5. /\ k.op = "create" /\ k.id = id /\ k.name = name /\ k.answer = "none"
      /\ k \in Playlists!Call /\ CallTyped(k)
  BY <1>3 DEF Playlists!CreatePlaylistRemote, Playlists!ACall, Playlists!Call, CallTyped, Playlists!ItemOps
<1>6. NoRow(mirror, id) /\ srv[id] = NoList /\ Quiet(net, id)
  BY <1>1 DEF MirrorInv, PlaylistInv, Unused
<1> HIDE DEF k, p
<1>7. /\ r \in Seq(Playlists!Playlist) /\ Playlists!Has(r, id) /\ OneRow(r, id, p)
      /\ \A y \in Ids : y # id => Keeps(mirror, r, y)
  BY <1>2, <1>4, <1>6, AppendedRow
<1> HIDE DEF r
<1>8. mirror' \in Seq(Playlists!Playlist) /\ \A y \in Ids : Keeps(r, mirror', y)
  BY <1>1, <1>7, SortKeeps
<1>9. /\ Playlists!Has(mirror', id) /\ OneRow(mirror', id, p)
      /\ \A y \in Ids : y # id => Keeps(mirror, mirror', y)
  BY <1>4, <1>7, <1>8, KeepsAndKeeps, HasRow DEF Keeps
<1>10. k # NoCall
  BY <1>5, MirrorConstants
<1>11. n2[c] = k /\ \A e \in Calls : CallOn(n2, id, e) <=> e = c
  BY <1>1, <1>5, <1>6, <1>10, FreshCall DEF Quiet
<1>12. doubt' \in [Ids -> Doubts] /\ doubt'[id] = "none" /\ \A y \in Ids : y # id => doubt'[y] = doubt[y]
  BY <1>1, <1>2 DEF Doubts
<1>13. CallFits(mirror', n2, id, srv[id], doubt'[id], k)
  BY <1>5, <1>6, <1>9 DEF CallFits, CreateFits, p
<1> HIDE DEF n2
<1>14. Fits(mirror', n2, id, srv[id], doubt'[id])
  BY <1>5, <1>11, <1>13, LoneCallFits DEF Playlists!ItemOps
<1>15. current' # NoList => Playlists!Has(mirror', current')
  BY <1>1, <1>9, CurrentKept
<1> QED
  BY <1>1, <1>5, <1>8, <1>9, <1>12, <1>14, <1>15, SendSteps DEF Doubts, n2

LEMMA RenameKeeps ==
  ASSUME NEW c \in Calls, NEW id \in Ids, NEW name \in Names, MirrorInv, changes' \in Nat,
         Playlists!Rename(c, id, name)
  PROVE  MirrorInv'
<1> DEFINE p == Playlists!Find(mirror, id)
           q == [p EXCEPT !.name = name]
           r == [mirror EXCEPT ![Playlists!IndexOf(mirror, id)] = q]
           k == Playlists!RenamePlaylistRemote(id, name, p.name)
           n2 == [net EXCEPT ![c] = k]
<1>1. /\ net[c] = NoCall /\ Playlists!Has(mirror, id) /\ mirror' = Playlists!SortByName(r)
      /\ doubt' = Playlists!Overlap("rename", id, NoList) /\ Playlists!Send(c, k) /\ current' = current
  BY DEF Playlists!Rename, Playlists!Busy, Playlists!WithRow
<1>2. mirror \in Seq(Playlists!Playlist)
  BY DEF MirrorInv, MirrorTypes
<1>3. /\ p \in Playlists!Playlist /\ p.id = id
      /\ doubt[id] \in {"none", "items"} /\ ItemsOnly(net, id) =>
           /\ srv[id] # NoList /\ OneRow(mirror, id, p) /\ p.name = srv[id].name
           /\ doubt[id] = "none" => VideosFit(net, id, srv[id], p.videos)
  BY <1>1, RowShown
<1>4. q \in Playlists!Playlist /\ q.id = id /\ q.name = name /\ q.videos = p.videos /\ p.name \in Names
  BY <1>3 DEF Playlists!Playlist
<1>5. /\ k.op = "rename" /\ k.id = id /\ k.name = name /\ k.undo = p.name /\ k.answer = "none"
      /\ k \in Playlists!Call /\ CallTyped(k)
  BY <1>4 DEF Playlists!RenamePlaylistRemote, Playlists!ACall, Playlists!Call, CallTyped, Playlists!ItemOps
<1> HIDE DEF k, p, q
<1>6. /\ r \in Seq(Playlists!Playlist) /\ Playlists!Has(r, id)
      /\ \A y \in Ids : y # id => Keeps(mirror, r, y)
      /\ \A x \in Playlists!Playlist : OneRow(mirror, id, x) => OneRow(r, id, q)
  BY <1>1, <1>2, <1>4, ChangedRow
<1> HIDE DEF r
<1>7. mirror' \in Seq(Playlists!Playlist) /\ \A y \in Ids : Keeps(r, mirror', y)
  BY <1>1, <1>6, SortKeeps
<1>8. /\ Playlists!Has(mirror', id) /\ (OneRow(mirror, id, p) => OneRow(mirror', id, q))
      /\ \A y \in Ids : y # id => Keeps(mirror, mirror', y)
  BY <1>3, <1>4, <1>6, <1>7, KeepsAndKeeps, HasRow DEF Keeps
<1>9. k # NoCall
  BY <1>5, MirrorConstants
<1>10. /\ n2[c] = k /\ CallOn(n2, id, c) /\ ~ CallOn(net, id, c)
       /\ \A e \in Calls : e # c => (CallOn(n2, id, e) <=> CallOn(net, id, e))
  BY <1>1, <1>5, <1>9, FreshCall
<1>11. /\ doubt' \in [Ids -> Doubts] /\ doubt'[id] # "unused"
       /\ \A y \in Ids : y # id => doubt'[y] = doubt[y]
       /\ doubt'[id] \in {"none", "items"} =>
            doubt[id] = doubt'[id] /\ ItemsOnly(net, id) /\ Quiet(net, id)
  BY <1>1, OverlapIs DEF Playlists!ItemOps
<1> HIDE DEF n2
<1>12. ASSUME doubt'[id] \in {"none", "items"}
       PROVE  Fits(mirror', n2, id, srv[id], doubt'[id])
  <2>1. /\ doubt[id] = doubt'[id] /\ Quiet(net, id) /\ srv[id] # NoList
        /\ OneRow(mirror', id, q) /\ p.name = srv[id].name
        /\ doubt[id] = "none" => VideosFit(net, id, srv[id], p.videos)
    BY <1>3, <1>8, <1>11, <1>12
  <2>2. \A e \in Calls : CallOn(n2, id, e) <=> e = c
    BY <1>10, <2>1 DEF Quiet
  <2>3. VideosFit(net, id, srv[id], p.videos) <=> Plain(srv[id], p.videos)
    BY <2>1, VideosArePlain DEF Quiet
  <2>4. VideosFit(n2, id, srv[id], p.videos) <=> Plain(srv[id], p.videos)
    BY <1>5, <1>10, <2>2, VideosArePlain DEF Playlists!ItemOps
  <2>5. RowFits(mirror', n2, id, srv[id], doubt'[id], name)
    BY <1>4, <2>1, <2>3, <2>4 DEF RowFits
  <2>6. CallFits(mirror', n2, id, srv[id], doubt'[id], k)
    BY <1>5, <2>1, <2>5 DEF CallFits, RenameFits
  <2> QED
    BY <1>5, <1>10, <2>2, <2>6, LoneCallFits DEF Playlists!ItemOps
<1>13. current' # NoList => Playlists!Has(mirror', current')
  BY <1>1, <1>8, CurrentKept
<1> QED
  BY <1>1, <1>5, <1>7, <1>8, <1>11, <1>12, <1>13, SendSteps DEF Doubts, n2

LEMMA DeleteKeeps ==
  ASSUME NEW c \in Calls, NEW id \in Ids, MirrorInv, changes' \in Nat, Playlists!Delete(c, id)
  PROVE  MirrorInv'
<1> DEFINE p == Playlists!Find(mirror, id)
           k == Playlists!DeletePlaylistRemote(p, FALSE)
           n2 == [net EXCEPT ![c] = k]
<1>1. /\ net[c] = NoCall /\ Playlists!Has(mirror, id) /\ mirror' = Playlists!Without(mirror, Playlists!IndexOf(mirror, id))
      /\ doubt' = Playlists!Overlap("delete", id, NoList) /\ Playlists!Send(c, k)
      /\ current' = IF current = id THEN NoList ELSE current
  BY DEF Playlists!Delete, Playlists!Busy
<1>2. mirror \in Seq(Playlists!Playlist)
  BY DEF MirrorInv, MirrorTypes
<1>3. /\ p \in Playlists!Playlist /\ p.id = id
      /\ doubt[id] \in {"none", "items"} /\ ItemsOnly(net, id) =>
           /\ srv[id] # NoList /\ OneRow(mirror, id, p) /\ p.name = srv[id].name
           /\ doubt[id] = "none" => VideosFit(net, id, srv[id], p.videos)
  BY <1>1, RowShown
<1>4. /\ k.op = "delete" /\ k.id = id /\ k.undo = p /\ k.rollback = FALSE /\ k.answer = "none"
      /\ k \in Playlists!Call /\ CallTyped(k)
  BY <1>3 DEF Playlists!DeletePlaylistRemote, Playlists!ACall, Playlists!Call, CallTyped, Playlists!ItemOps
<1> HIDE DEF k, p
<1>5. /\ mirror' \in Seq(Playlists!Playlist) /\ (OneRow(mirror, id, p) => NoRow(mirror', id))
      /\ \A y \in Ids : y # id => Keeps(mirror, mirror', y)
  BY <1>1, <1>2, <1>3, WithoutRow
<1>6. k # NoCall
  BY <1>4, MirrorConstants
<1>7. /\ n2[c] = k /\ CallOn(n2, id, c) /\ ~ CallOn(net, id, c)
      /\ \A e \in Calls : e # c => (CallOn(n2, id, e) <=> CallOn(net, id, e))
  BY <1>1, <1>4, <1>6, FreshCall
<1>8. /\ doubt' \in [Ids -> Doubts] /\ doubt'[id] # "unused"
      /\ \A y \in Ids : y # id => doubt'[y] = doubt[y]
      /\ doubt'[id] \in {"none", "items"} =>
           doubt[id] = doubt'[id] /\ ItemsOnly(net, id) /\ Quiet(net, id)
  BY <1>1, OverlapIs DEF Playlists!ItemOps
<1> HIDE DEF n2
<1>9. ASSUME doubt'[id] \in {"none", "items"}
      PROVE  Fits(mirror', n2, id, srv[id], doubt'[id])
  <2>1. /\ doubt[id] = doubt'[id] /\ Quiet(net, id) /\ srv[id] # NoList
        /\ NoRow(mirror', id) /\ p.name = srv[id].name
        /\ doubt[id] = "none" => VideosFit(net, id, srv[id], p.videos)
    BY <1>3, <1>5, <1>8, <1>9
  <2>2. \A e \in Calls : CallOn(n2, id, e) <=> e = c
    BY <1>7, <2>1 DEF Quiet
  <2>3. VideosFit(net, id, srv[id], p.videos) <=> Plain(srv[id], p.videos)
    BY <2>1, VideosArePlain DEF Quiet
  <2>4. VideosFit(n2, id, srv[id], p.videos) <=> Plain(srv[id], p.videos)
    BY <1>4, <1>7, <2>2, VideosArePlain DEF Playlists!ItemOps
  <2>5. CallFits(mirror', n2, id, srv[id], doubt'[id], k)
    BY <1>4, <2>1, <2>3, <2>4 DEF CallFits, DeleteFits
  <2> QED
    BY <1>4, <1>7, <2>2, <2>5, LoneCallFits DEF Playlists!ItemOps
<1>10. current' # NoList => Playlists!Has(mirror', current')
  BY <1>1, <1>5, CurrentKept
<1> QED
  BY <1>1, <1>4, <1>5, <1>8, <1>9, <1>10, SendSteps DEF Doubts, n2

LEMMA ItemCallStarts ==
  ASSUME NEW id \in Ids, NEW c \in Calls, NEW v \in Items, NEW k \in Playlists!Call, NEW q \in Playlists!Playlist,
         MirrorInv, changes' \in Nat, net[c] = NoCall, Playlists!Has(mirror, id),
         k.op \in {"add", "remove"}, k.id = id, k.item = v, k.answer = "none",
         mirror' = [mirror EXCEPT ![Playlists!IndexOf(mirror, id)] = q],
         q.id = id, q.name = Playlists!Find(mirror, id).name,
         doubt' = Playlists!Overlap(k.op, id, v), Playlists!Send(c, k), current' = current,
         Separate(Playlists!Find(mirror, id).videos) =>
             /\ Separate(q.videos)
             /\ \A u \in Items : u # v =>
                  (ShownIn(q.videos, u) <=> ShownIn(Playlists!Find(mirror, id).videos, u))
             /\ ShownIn(q.videos, v) <=> k.op = "add"
             /\ ShownIn(Playlists!Find(mirror, id).videos, v) <=> k.op = "remove"
  PROVE  MirrorInv'
<1> DEFINE p == Playlists!Find(mirror, id)
           n2 == [net EXCEPT ![c] = k]
<1>1. mirror \in Seq(Playlists!Playlist) /\ \A e \in Calls : net[e] # NoCall => CallTyped(net[e])
  BY DEF MirrorInv, MirrorTypes, Playlists!Busy
<1>2. /\ p \in Playlists!Playlist /\ p.id = id
      /\ doubt[id] \in {"none", "items"} /\ ItemsOnly(net, id) =>
           /\ srv[id] # NoList /\ OneRow(mirror, id, p) /\ p.name = srv[id].name
           /\ doubt[id] = "none" => VideosFit(net, id, srv[id], p.videos)
  BY RowShown
<1>3. CallTyped(k)
  BY DEF CallTyped, Playlists!ItemOps
<1> HIDE DEF p
<1>4. /\ mirror' \in Seq(Playlists!Playlist) /\ Playlists!Has(mirror', id)
      /\ \A y \in Ids : y # id => Keeps(mirror, mirror', y)
      /\ \A x \in Playlists!Playlist : OneRow(mirror, id, x) => OneRow(mirror', id, q)
  BY <1>1, ChangedRow
<1>5. k # NoCall
  BY MirrorConstants
<1>6. /\ n2[c] = k /\ CallOn(n2, id, c) /\ ~ CallOn(net, id, c)
      /\ \A e \in Calls : e # c => n2[e] = net[e]
      /\ \A e \in Calls : e # c => (CallOn(n2, id, e) <=> CallOn(net, id, e))
  BY <1>5, FreshCall
<1>7. /\ doubt' \in [Ids -> Doubts] /\ doubt'[id] # "unused"
      /\ \A y \in Ids : y # id => doubt'[y] = doubt[y]
      /\ doubt'[id] \in {"none", "items"} =>
           /\ doubt[id] \in {"none", "items"} /\ ItemsOnly(net, id)
           /\ doubt'[id] = "none" => doubt[id] = "none" /\
                \A e \in Calls : CallOn(net, id, e) => net[e].item # v
  BY OverlapIs
<1> HIDE DEF n2
<1>8. ASSUME doubt'[id] \in {"none", "items"}
      PROVE  Fits(mirror', n2, id, srv[id], doubt'[id])
  <2>1. /\ doubt[id] \in {"none", "items"} /\ ItemsOnly(net, id) /\ srv[id] # NoList
        /\ OneRow(mirror', id, q) /\ p.name = srv[id].name
        /\ doubt[id] = "none" => VideosFit(net, id, srv[id], p.videos)
    BY <1>2, <1>4, <1>7, <1>8
  <2>2. ItemsOnly(n2, id)
    BY <1>6, <2>1 DEF ItemsOnly, Playlists!ItemOps
  <2>3. Fits(mirror, net, id, srv[id], doubt[id])
    BY <2>1 DEF MirrorInv, PlaylistInv
  <2>4. Apart(n2, id, doubt'[id])
    BY <1>6, <1>7, <1>8, <2>2, <2>3 DEF Fits, Apart, ItemsOnly
  <2>5. \A e \in Calls : e # c /\ CallOn(net, id, e) =>
            net[e].op \in Playlists!ItemOps /\ net[e].item \in Items
    BY <1>1, <2>1 DEF ItemsOnly, CallTyped, CallOn
  <2>6. ASSUME doubt'[id] = "none" PROVE VideosFit(n2, id, srv[id], q.videos)
    <3>1. doubt[id] = "none" /\ \A e \in Calls : CallOn(net, id, e) => net[e].item # v
      BY <1>7, <2>6
    <3>2. VideosFit(net, id, srv[id], p.videos)
      BY <2>1, <3>1
    <3>3. /\ Separate(q.videos)
          /\ \A u \in Items : u # v => (ShownIn(q.videos, u) <=> ShownIn(p.videos, u))
          /\ ShownIn(q.videos, v) <=> k.op = "add"
          /\ ShownIn(p.videos, v) <=> k.op = "remove"
      BY <3>2 DEF VideosFit, p
    <3>4. ShownIn(p.videos, v) <=> v \in srv[id].videos
      BY <3>1, <3>2 DEF VideosFit
    <3>5. ItemFits(k, srv[id], q.videos)
      BY <3>3, <3>4 DEF ItemFits
    <3>6. \A e \in Calls : e # c /\ CallOn(net, id, e) =>
              net[e].op \in Playlists!ItemOps /\ net[e].item \in Items /\ net[e].item # v
      BY <2>5, <3>1
    <3> QED
      BY <1>6, <3>2, <3>3, <3>5, <3>6, VideoSteps DEF Playlists!ItemOps
  <2>7. \A e \in Calls : CallOn(n2, id, e) /\ n2[e].op = "add" /\ n2[e].answer = "done" =>
                             n2[e].name = srv[id].name
    BY <1>6, <2>3 DEF Fits, CallFits
  <2>8. q.name = srv[id].name
    BY <2>1 DEF p
  <2> QED
    BY <2>1, <2>2, <2>4, <2>6, <2>7, <2>8, ItemsFit
<1>9. current' # NoList => Playlists!Has(mirror', current')
  BY <1>4, CurrentKept
<1> QED
  BY <1>3, <1>4, <1>7, <1>8, <1>9, SendSteps DEF Doubts, n2

LEMMA AddKeeps ==
  ASSUME NEW c \in Calls, NEW id \in Ids, NEW v \in Items, MirrorInv, changes' \in Nat,
         Playlists!Add(c, id, v)
  PROVE  MirrorInv'
<1> DEFINE p == Playlists!Find(mirror, id)
           w == Append(p.videos, v)
           q == [p EXCEPT !.videos = w]
           k == Playlists!AddPlaylistItem(id, v)
<1>1. /\ net[c] = NoCall /\ Playlists!Has(mirror, id) /\ ~ ShownIn(p.videos, v)
      /\ mirror' = [mirror EXCEPT ![Playlists!IndexOf(mirror, id)] = q]
      /\ doubt' = Playlists!Overlap("add", id, v) /\ Playlists!Send(c, k) /\ current' = current
  BY DEF Playlists!Add, Playlists!Busy, Playlists!WithRow, ShownIn
<1>2. p \in Playlists!Playlist /\ p.id = id
  BY <1>1, RowShown
<1>3. p.videos \in Seq(Items)
  BY <1>2 DEF Playlists!Playlist
<1>4. /\ w \in Seq(Items) /\ (Separate(p.videos) => Separate(w))
      /\ \A u \in Items : ShownIn(w, u) <=> ShownIn(p.videos, u) \/ u = v
  BY <1>1, <1>3, AppendedVideo
<1> HIDE DEF w
<1>5. q \in Playlists!Playlist /\ q.id = id /\ q.name = p.name /\ q.videos = w
  BY <1>2, <1>4 DEF Playlists!Playlist
<1>6. k.op = "add" /\ k.id = id /\ k.item = v /\ k.answer = "none" /\ k \in Playlists!Call
  BY DEF Playlists!AddPlaylistItem, Playlists!ACall, Playlists!Call
<1> HIDE DEF k, p, q
<1> QED
  BY <1>1, <1>2, <1>4, <1>5, <1>6, ItemCallStarts DEF p

LEMMA RemoveKeeps ==
  ASSUME NEW c \in Calls, NEW id \in Ids, NEW v \in Items, MirrorInv, changes' \in Nat,
         Playlists!Remove(c, id, v)
  PROVE  MirrorInv'
<1> DEFINE p == Playlists!Find(mirror, id)
           w == Playlists!Without(p.videos, Playlists!Min({i \in DOMAIN p.videos : p.videos[i] = v}))
           q == [p EXCEPT !.videos = w]
           k == Playlists!RemovePlaylistItem(id, v)
<1>1. /\ net[c] = NoCall /\ Playlists!Has(mirror, id) /\ ShownIn(p.videos, v)
      /\ mirror' = [mirror EXCEPT ![Playlists!IndexOf(mirror, id)] = q]
      /\ doubt' = Playlists!Overlap("remove", id, v) /\ Playlists!Send(c, k) /\ current' = current
  BY DEF Playlists!Remove, Playlists!Busy, Playlists!WithRow, ShownIn
<1>2. p \in Playlists!Playlist /\ p.id = id
  BY <1>1, RowShown
<1>3. p.videos \in Seq(Items)
  BY <1>2 DEF Playlists!Playlist
<1>4. /\ w \in Seq(Items)
      /\ Separate(p.videos) => /\ Separate(w)
                               /\ \A u \in Items : ShownIn(w, u) <=> ShownIn(p.videos, u) /\ u # v
  BY <1>1, <1>3, RemovedVideo
<1> HIDE DEF w
<1>5. q \in Playlists!Playlist /\ q.id = id /\ q.name = p.name /\ q.videos = w
  BY <1>2, <1>4 DEF Playlists!Playlist
<1>6. k.op = "remove" /\ k.id = id /\ k.item = v /\ k.answer = "none" /\ k \in Playlists!Call
  BY DEF Playlists!RemovePlaylistItem, Playlists!ACall, Playlists!Call
<1> HIDE DEF k, p, q
<1> QED
  BY <1>1, <1>2, <1>4, <1>5, <1>6, ItemCallStarts DEF p

(* The server.                                                             *)
LEMMA ServeSteps ==
  ASSUME NEW id \in Ids, NEW c \in Calls, NEW k \in Playlists!Call, CallTyped(k), CallOn(net, id, c),
         k.id = id, k.op = net[c].op, MirrorInv,
         net' = [net EXCEPT ![c] = k], UNCHANGED <<mirror, current, listing, queued, changes>>,
         srv' \in [Ids -> Playlists!OnServer \cup {NoList}],
         \A y \in Ids : y # id => srv'[y] = srv[y] /\ doubt'[y] = doubt[y],
         k.op \in Playlists!ItemOps => /\ srv'[id] = NoList <=> srv[id] = NoList
                                       /\ srv[id] # NoList => srv'[id].name = srv[id].name,
         doubt' \in [Ids -> Doubts], doubt'[id] # "unused",
         doubt'[id] \in {"none", "items"} =>
             Fits(mirror, [net EXCEPT ![c] = k], id, srv'[id], doubt'[id])
  PROVE  MirrorInv'
<1>1. MirrorTypes /\ InTouched(id) /\ PlaylistInv(id)
  BY DEF MirrorInv
<1>2. DOMAIN net = Calls /\ net[c].id = id /\ net[c] # NoCall /\ k # NoCall
  BY <1>1, MirrorConstants DEF MirrorTypes, CallOn
<1>3. /\ DOMAIN net' = Calls /\ net'[c] = k /\ \A e \in Calls : e # c => net'[e] = net[e]
      /\ \A y \in Ids : y # id => SameCalls(net, net', y)
  BY <1>2, OneCall
<1>4. MirrorTypes'
  <2>1. net' \in [Calls -> Playlists!Call \cup {NoCall}]
    BY <1>1 DEF MirrorTypes
  <2>2. \A e \in Calls : net'[e] # NoCall => CallTyped(net'[e])
    BY <1>1, <1>3 DEF MirrorTypes, Playlists!Busy
  <2> QED
    BY <1>1, <2>1, <2>2 DEF MirrorTypes, Playlists!Busy, Doubts
<1>5. InTouched(id)'
  BY <1>1, <1>2, <1>3 DEF InTouched, CallOn
<1>6. ListFits(id)'
  <2>1. CASE k.op \in Playlists!ItemOps
    BY <1>1, <2>1 DEF PlaylistInv, ListFits
  <2>2. CASE k.op \notin Playlists!ItemOps
    BY <1>1, <2>2 DEF ListFits, InTouched, Playlists!Part
  <2> QED
    BY <2>1, <2>2
<1>7. PlaylistInv(id)'
  BY <1>6 DEF PlaylistInv
<1>8. \A y \in Ids : y # id => Keeps(mirror, mirror', y)
  BY DEF Keeps
<1> QED
  BY <1>1, <1>3, <1>4, <1>5, <1>7, <1>8, OnePlaylistSteps DEF MirrorInv

(* The effect of a call, and none: the row fits as it did.                 *)
AfterCall(on, k) ==
    CASE k.op = "create" -> [name |-> k.name, videos |-> {}]
      [] k.op = "rename" -> [on EXCEPT !.name = k.name]
      [] k.op = "delete" -> NoList
      [] k.op = "add" -> [on EXCEPT !.videos = @ \cup {k.item}]
      [] OTHER -> IF on = NoList THEN on ELSE [on EXCEPT !.videos = @ \ {k.item}]

MaybeThere(on) == on \in Playlists!OnServer \/ on = NoList

LEMMA AfterCallIs ==
  ASSUME NEW k, NEW on, MaybeThere(on), CallTyped(k),
         k.op \in {"rename", "add"} => on # NoList
  PROVE  /\ MaybeThere(AfterCall(on, k))
         /\ k.op = "create" => AfterCall(on, k) = [name |-> k.name, videos |-> {}]
         /\ k.op = "rename" => /\ AfterCall(on, k) \in Playlists!OnServer
                               /\ AfterCall(on, k).name = k.name
                               /\ AfterCall(on, k).videos = on.videos
         /\ k.op = "delete" => AfterCall(on, k) = NoList
         /\ k.op \in Playlists!ItemOps /\ on = NoList => AfterCall(on, k) = NoList
         /\ k.op \in Playlists!ItemOps /\ on # NoList =>
              /\ AfterCall(on, k) \in Playlists!OnServer
              /\ AfterCall(on, k).name = on.name
              /\ \A u \in Items : u # k.item => (u \in AfterCall(on, k).videos <=> u \in on.videos)
              /\ k.item \in AfterCall(on, k).videos <=> k.op = "add"
<1> USE DEF MaybeThere
<1>1. k \in Playlists!Call /\ k.op \in {"create", "rename", "delete", "add", "remove"}
  BY DEF CallTyped, Playlists!Call
<1>2. CASE k.op = "create"
  BY <1>2 DEF AfterCall, CallTyped, Playlists!OnServer, Playlists!ItemOps
<1>3. CASE k.op = "rename"
  <2>1. on \in Playlists!OnServer /\ k.name \in Names /\ AfterCall(on, k) = [on EXCEPT !.name = k.name]
    BY <1>3 DEF AfterCall, CallTyped
  <2> QED
    BY <1>3, <2>1 DEF Playlists!OnServer, Playlists!ItemOps
<1>4. CASE k.op = "delete"
  BY <1>4 DEF AfterCall, Playlists!ItemOps
<1>5. CASE k.op = "add"
  <2>1. on \in Playlists!OnServer /\ k.item \in Items /\ AfterCall(on, k) = [on EXCEPT !.videos = @ \cup {k.item}]
    BY <1>5 DEF AfterCall, CallTyped, Playlists!ItemOps
  <2> QED
    BY <1>5, <2>1 DEF Playlists!OnServer, Playlists!ItemOps
<1>6. CASE k.op = "remove"
  <2>1. AfterCall(on, k) = IF on = NoList THEN on ELSE [on EXCEPT !.videos = @ \ {k.item}]
    BY <1>6 DEF AfterCall
  <2>2. k.item \in Items
    BY <1>6 DEF CallTyped, Playlists!ItemOps
  <2> QED
    BY <1>6, <2>1, <2>2 DEF Playlists!OnServer, Playlists!ItemOps
<1> QED
  BY <1>1, <1>2, <1>3, <1>4, <1>5, <1>6

(* A call on the playlist itself.                                          *)
LEMMA ServedRowFits ==
  ASSUME NEW c \in Calls, NEW id \in Ids, NEW k, NEW m, NEW n, NEW on, NEW on2, NEW kind,
         DOMAIN n = Calls, CallOn(n, id, c), Fits(m, n, id, on, kind),
         n[c].op \notin Playlists!ItemOps, n[c].answer = "none", CallTyped(n[c]),
         k # NoCall, k.id = id, k.op = n[c].op, k.name = n[c].name, k.undo = n[c].undo,
         k.rollback = n[c].rollback,
         \/ k.answer = "done" /\ on2 = AfterCall(on, n[c])
         \/ k.answer = "garbled" /\ k.op # "delete" /\ on2 = AfterCall(on, n[c])
         \/ k.answer = "failed" /\ (on2 = on \/ k.op = "create"),
         MaybeThere(on)
  PROVE  Fits(m, [n EXCEPT ![c] = k], id, on2, kind)
<1> DEFINE n2 == [n EXCEPT ![c] = k]
           l == n[c]
<1>1. CallTyped(l) /\ l.op = k.op /\ MaybeThere(on)
  OBVIOUS
<1> HIDE DEF l
<1>2. /\ l.op = "create" => AfterCall(on, l) = [name |-> l.name, videos |-> {}]
      /\ l.op = "rename" /\ on # NoList =>
           /\ AfterCall(on, l) \in Playlists!OnServer
           /\ AfterCall(on, l).name = l.name
           /\ AfterCall(on, l).videos = on.videos
      /\ l.op = "delete" => AfterCall(on, l) = NoList
  BY <1>1, AfterCallIs
<1> USE DEF l
<1>3. \A e \in Calls : CallOn(n, id, e) <=> e = c
  BY Alone DEF Fits
<1>4. n2[c] = k /\ \A e \in Calls : CallOn(n2, id, e) <=> e = c
  BY <1>3 DEF CallOn
<1>5. CallFits(m, n, id, on, kind, l)
  BY DEF Fits
<1> HIDE DEF n2
<1>6. \A vs, o : VideosFit(n, id, o, vs) <=> Plain(o, vs)
  BY <1>3, VideosArePlain
<1>7. \A vs, o : VideosFit(n2, id, o, vs) <=> Plain(o, vs)
  BY <1>4, VideosArePlain
<1>8. CASE k.op = "create"
  <2>1. AfterCall(on, l) = [name |-> l.name, videos |-> {}]
    BY <1>1, <1>8, <1>2
  <2>2. CreateFits(m, id, on2, k)
    BY <1>5, <1>8, <2>1 DEF CallFits, CreateFits
  <2> QED
    BY <1>4, <1>8, <2>2, LoneCallFits DEF CallFits, n2
<1>9. CASE k.op = "rename"
  <2>1. RenameFits(m, n, id, on, kind, l)
    BY <1>5, <1>9 DEF CallFits
  <2>2. /\ AfterCall(on, l) \in Playlists!OnServer /\ AfterCall(on, l).name = l.name
        /\ AfterCall(on, l).videos = on.videos
    BY <1>1, <1>9, <2>1, <1>2 DEF RenameFits
  <2>3. on2 # NoList /\ on2.videos = on.videos
    BY <1>9, <2>1, <2>2, MirrorConstants DEF RenameFits
  <2>4. RowFits(m, n2, id, on2, kind, k.name)
    BY <1>6, <1>7, <2>1, <2>3 DEF RenameFits, RowFits, Plain
  <2>5. on2.name = IF k.answer \in {"none", "failed"} THEN k.undo ELSE k.name
    BY <1>9, <2>1, <2>2 DEF RenameFits
  <2>6. CallFits(m, n2, id, on2, kind, k)
    BY <1>9, <2>3, <2>4, <2>5 DEF CallFits, RenameFits
  <2> QED
    BY <1>4, <2>6, LoneCallFits DEF n2
<1>10. CASE k.op = "delete"
  <2>1. DeleteFits(m, n, id, on, kind, l)
    BY <1>5, <1>10 DEF CallFits
  <2>2. AfterCall(on, l) = NoList
    BY <1>1, <1>10, <1>2
  <2>3. DeleteFits(m, n2, id, on2, kind, k)
    BY <1>6, <1>7, <1>10, <2>1, <2>2 DEF DeleteFits
  <2> QED
    BY <1>4, <1>10, <2>3, LoneCallFits DEF CallFits, n2
<1> QED
  BY <1>8, <1>9, <1>10 DEF CallTyped, Playlists!Call, Playlists!ItemOps

(* A call on an item.                                                      *)
LEMMA ItemCallFits ==
  ASSUME NEW c \in Calls, NEW id, NEW m, NEW n, NEW on, NEW kind,
         Fits(m, n, id, on, kind), CallOn(n, id, c), n[c].op \in Playlists!ItemOps
  PROVE  /\ ItemsOnly(n, id) /\ on # NoList
         /\ \E p \in Playlists!Playlist : /\ OneRow(m, id, p) /\ p.name = on.name
                                          /\ kind = "none" => VideosFit(n, id, on, p.videos)
         /\ kind = "none" => \A e \in Calls : e # c /\ CallOn(n, id, e) => n[e].item # n[c].item
<1>1. ItemsOnly(n, id)
  BY DEF Fits, Apart, ItemsOnly
<1>2. Settled(m, n, id, on, kind)
  BY <1>1 DEF Fits
<1>3. on # NoList
  BY <1>2 DEF Settled, Quiet
<1>4. RowFits(m, n, id, on, kind, on.name)
  BY <1>2, <1>3 DEF Settled
<1>5. kind = "none" => \A e \in Calls : e # c /\ CallOn(n, id, e) => n[e].item # n[c].item
  BY DEF Fits, Apart
<1> QED
  BY <1>1, <1>3, <1>4, <1>5 DEF RowFits

LEMMA ServedItemFits ==
  ASSUME NEW c \in Calls, NEW id \in Ids, NEW k, NEW m, NEW n, NEW on, NEW on2, NEW kind, NEW kind2,
         DOMAIN n = Calls, CallOn(n, id, c), Fits(m, n, id, on, kind),
         n[c].op \in Playlists!ItemOps, n[c].answer = "none",
         \A e \in Calls : CallOn(n, id, e) => CallTyped(n[e]),
         k # NoCall, k.id = id, k.op = n[c].op, k.item = n[c].item,
         k.op = "add" /\ k.answer = "done" => k.name = on.name,
         \/ k.answer \in {"done", "garbled"} /\ on2 = AfterCall(on, n[c])
         \/ k.answer = "failed" /\ (on2 = on \/ (on2 = AfterCall(on, n[c]) /\ kind2 = "items")),
         k.answer = "garbled" => k.op = "add",
         kind2 = "none" => kind = "none", MaybeThere(on)
  PROVE  Fits(m, [n EXCEPT ![c] = k], id, on2, kind2)
<1> DEFINE n2 == [n EXCEPT ![c] = k]
           l == n[c]
<1>1. /\ ItemsOnly(n, id) /\ on # NoList
      /\ kind = "none" => \A e \in Calls : e # c /\ CallOn(n, id, e) => n[e].item # l.item
  BY ItemCallFits
<1>2. PICK p \in Playlists!Playlist : /\ OneRow(m, id, p) /\ p.name = on.name
                                      /\ kind = "none" => VideosFit(n, id, on, p.videos)
  BY ItemCallFits
<1>3. /\ n2[c] = k /\ \A e \in Calls : e # c => n2[e] = n[e]
      /\ \A e \in Calls : CallOn(n2, id, e) <=> CallOn(n, id, e)
  BY DEF CallOn
<1> HIDE DEF n2
<1>4. CallTyped(l) /\ l.op \in Playlists!ItemOps /\ l.item \in Items
  BY DEF CallTyped
<1> HIDE DEF l
<1>5. /\ AfterCall(on, l) \in Playlists!OnServer /\ AfterCall(on, l).name = on.name
      /\ \A u \in Items : u # l.item => (u \in AfterCall(on, l).videos <=> u \in on.videos)
      /\ l.item \in AfterCall(on, l).videos <=> l.op = "add"
  BY <1>1, <1>4, AfterCallIs DEF Playlists!ItemOps
<1>6. on2 # NoList /\ on2.name = on.name
  BY <1>1, <1>5, MirrorConstants DEF l
<1>7. ItemsOnly(n2, id)
  BY <1>1, <1>3 DEF ItemsOnly
<1>8. Apart(n2, id, kind2)
  <2> SUFFICES ASSUME NEW d \in Calls, NEW e \in Calls, d # e, CallOn(n2, id, d), CallOn(n2, id, e)
               PROVE  /\ n2[d].op \in Playlists!ItemOps /\ n2[e].op \in Playlists!ItemOps
                      /\ kind2 = "none" => n2[d].item # n2[e].item
    BY DEF Apart
  <2>1. n2[d].op = n[d].op /\ n2[d].item = n[d].item /\ n2[e].op = n[e].op /\ n2[e].item = n[e].item
    BY <1>3
  <2> QED
    BY <1>3, <2>1 DEF Fits, Apart
<1>9. ASSUME kind2 = "none" PROVE VideosFit(n2, id, on2, p.videos)
  <2>1. VideosFit(n, id, on, p.videos)
    BY <1>2, <1>9
  <2>2. \A u \in Items : u # l.item => (u \in on2.videos <=> u \in on.videos)
    BY <1>5 DEF l
  <2>3. ItemFits(l, on, p.videos)
    BY <2>1 DEF VideosFit, l
  <2>4. ItemFits(k, on2, p.videos)
    BY <1>4, <1>5, <1>9, <2>3 DEF ItemFits, Playlists!ItemOps, l
  <2>5. \A e \in Calls : e # c /\ CallOn(n, id, e) =>
            n[e].op \in Playlists!ItemOps /\ n[e].item \in Items /\ n[e].item # l.item
    BY <1>1, <1>9 DEF ItemsOnly, CallTyped
  <2>6. Separate(p.videos)
    BY <2>1 DEF VideosFit
  <2>7. CallOn(n2, id, c) /\ n[c].item = l.item /\ n2[c].item = l.item /\ n2[c].op \in Playlists!ItemOps
    BY <1>3 DEF l
  <2>8. n2[c] = k
    BY <1>3
  <2> QED
    BY <1>3, <1>4, <2>1, <2>2, <2>4, <2>5, <2>6, <2>7, <2>8, VideoSteps
<1>10. \A e \in Calls : CallOn(n2, id, e) /\ n2[e].op = "add" /\ n2[e].answer = "done" =>
                            n2[e].name = on2.name
  BY <1>3, <1>6 DEF Fits, CallFits
<1> QED
  BY <1>2, <1>6, <1>7, <1>8, <1>9, <1>10, ItemsFit DEF n2

LEMMA ServeKeepsMirror ==
  ASSUME NEW c \in Calls, MirrorInv, Playlists!Serve(c), UNCHANGED changes
  PROVE  MirrorInv'
<1> DEFINE l == net[c]
           id == l.id
           Answered2(a) == [l EXCEPT !.answer = a,
                                     !.name = IF a = "done" /\ l.op = "add" THEN srv[id].name ELSE @]
<1>1. MirrorTypes /\ CallTyped(l) /\ l \in Playlists!Call /\ id \in Ids /\ l.answer = "none" /\ CallOn(net, id, c)
  BY DEF Playlists!Serve, MirrorInv, MirrorTypes, Playlists!Busy, CallTyped, CallOn, Playlists!Call
<1>2. /\ DOMAIN net = Calls /\ MaybeThere(srv[id]) /\ doubt[id] # "unused" /\ doubt \in [Ids -> Doubts]
      /\ \A e \in Calls : CallOn(net, id, e) => CallTyped(net[e])
  BY <1>1, NotUnused DEF MirrorTypes, MaybeThere, Doubts, CallOn, Playlists!Busy
<1>3. PICK a \in {"done", "garbled", "failed"} :
        /\ Playlists!Answer(c, a)
        /\ a = "garbled" => l.op \notin {"delete", "remove"}
        /\ \/ ~ Playlists!Refuses(c) /\ srv' = Playlists!Executed(c) /\
                doubt' = IF a = "failed" THEN Playlists!Spoils(c) ELSE doubt
           \/ a = "failed" /\ srv' = srv /\ doubt' = doubt
  BY DEF Playlists!Serve
<1> DEFINE k == Answered2(a)
<1>4. net' = [net EXCEPT ![c] = k]
  BY <1>1, <1>2, <1>3 DEF Playlists!Answer, Playlists!Call
<1>5. ~ Playlists!Refuses(c) => (l.op \in {"rename", "add"} => srv[id] # NoList)
  BY DEF Playlists!Refuses
<1>6. Playlists!Executed(c) = [srv EXCEPT ![id] = AfterCall(srv[id], l)]
  BY DEF Playlists!Executed, AfterCall
<1>7. /\ k.id = id /\ k.op = l.op /\ k.undo = l.undo /\ k.rollback = l.rollback /\ k.item = l.item
      /\ k.answer = a /\ k.name = IF a = "done" /\ l.op = "add" THEN srv[id].name ELSE l.name
  BY <1>1 DEF Playlists!Call
<1> HIDE DEF k
<1> DEFINE on == srv[id]
           on2 == AfterCall(on, l)
<1>8. ~ Playlists!Refuses(c) =>
        /\ MaybeThere(on2)
        /\ l.op \in Playlists!ItemOps => (on2 = NoList <=> on = NoList)
        /\ l.op \in Playlists!ItemOps /\ on # NoList => on2.name = on.name
  BY <1>1, <1>2, <1>5, AfterCallIs, MirrorConstants DEF Playlists!ItemOps
<1>9. k \in Playlists!Call /\ CallTyped(k)
  <2>1. a = "done" /\ l.op = "add" => on.name \in Names
    BY <1>2, <1>3, <1>5 DEF MaybeThere, Playlists!OnServer
  <2>2. k \in Playlists!Call
    BY <1>1, <1>3, <2>1 DEF k, Playlists!Call
  <2>3. a = "garbled" => k.op \notin {"delete", "remove"}
    BY <1>3, <1>7
  <2>4. k.name = IF a = "done" /\ l.op = "add" THEN on.name ELSE l.name
    BY <1>7
  <2> HIDE DEF on
  <2> QED
    BY <1>1, <1>7, <2>1, <2>2, <2>3, <2>4 DEF CallTyped
<1>10. /\ srv' \in [Ids -> Playlists!OnServer \cup {NoList}]
       /\ \A y \in Ids : y # id => srv'[y] = srv[y]
       /\ \/ srv'[id] = on
          \/ ~ Playlists!Refuses(c) /\ srv'[id] = on2
       /\ a # "failed" => srv'[id] = on2 /\ ~ Playlists!Refuses(c)
  BY <1>1, <1>3, <1>6, <1>8 DEF MirrorTypes, MaybeThere
<1>11. /\ doubt' \in [Ids -> Doubts] /\ doubt'[id] # "unused"
       /\ \A y \in Ids : y # id => doubt'[y] = doubt[y]
       /\ \/ doubt'[id] = doubt[id] /\ (a # "failed" \/ l.op = "create" \/ srv'[id] = on)
          \/ a = "failed" /\ doubt'[id] = "items" /\ doubt[id] # "row" /\ l.op \in Playlists!ItemOps
          \/ doubt'[id] = "row"
  <2>1. CASE doubt' = doubt /\ (a # "failed" \/ l.op = "create" \/ srv' = srv)
    BY <1>2, <2>1
  <2>2. CASE doubt' = Playlists!Spoils(c) /\ a = "failed" /\ l.op # "create"
    <3>1. CASE l.op \in Playlists!ItemOps
      <4>1. doubt' = Playlists!Doubt(id, "items")
        BY <2>2, <3>1 DEF Playlists!Spoils, Playlists!ItemOps
      <4> QED
        BY <1>1, <1>2, <2>2, <3>1, <4>1, DoubtIs
    <3>2. CASE l.op \notin Playlists!ItemOps
      <4>1. doubt' = Playlists!Doubt(id, "row")
        BY <2>2, <3>2 DEF Playlists!Spoils
      <4> QED
        BY <1>1, <1>2, <4>1, DoubtIs
    <3> QED
      BY <3>1, <3>2
  <2>3. l.op = "create" => Playlists!Spoils(c) = doubt
    BY DEF Playlists!Spoils, Playlists!ItemOps
  <2> QED
    BY <1>3, <2>1, <2>2, <2>3
<1>12. ASSUME doubt'[id] \in {"none", "items"}
       PROVE  Fits(mirror, [net EXCEPT ![c] = k], id, srv'[id], doubt'[id])
  <2>1. doubt[id] \in {"none", "items"} /\ Fits(mirror, net, id, on, doubt[id])
    BY <1>1, <1>2, <1>11, <1>12 DEF MirrorInv, PlaylistInv, Doubts
  <2>2. k # NoCall
    BY <1>9, MirrorConstants
  <2>3. CASE l.op \notin Playlists!ItemOps
    <3>1. doubt'[id] = doubt[id]
      BY <1>11, <1>12, <2>3
    <3>2. \/ a = "done" /\ srv'[id] = on2
          \/ a = "garbled" /\ l.op # "delete" /\ srv'[id] = on2
          \/ a = "failed" /\ (srv'[id] = on \/ l.op = "create")
      BY <1>3, <1>10, <1>11, <1>12, <2>3
    <3> QED
      BY <1>1, <1>2, <1>7, <2>1, <2>2, <2>3, <3>1, <3>2, ServedRowFits DEF Playlists!ItemOps
  <2>4. CASE l.op \in Playlists!ItemOps
    <3>1. \/ a \in {"done", "garbled"} /\ srv'[id] = on2
          \/ a = "failed" /\ (srv'[id] = on \/ (srv'[id] = on2 /\ doubt'[id] = "items"))
      BY <1>3, <1>10, <1>11, <1>12, <2>4 DEF Playlists!ItemOps
    <3>2. a = "garbled" => k.op = "add"
      BY <1>3, <1>7, <2>4 DEF Playlists!ItemOps
    <3>3. doubt'[id] = "none" => doubt[id] = "none"
      BY <1>11
    <3>4. k.op = "add" /\ k.answer = "done" => k.name = on.name
      BY <1>7
    <3> QED
      BY <1>1, <1>2, <1>7, <2>1, <2>2, <2>4, <3>1, <3>2, <3>3, <3>4, ServedItemFits
  <2> QED
    BY <2>3, <2>4
<1>13. /\ k.op \in Playlists!ItemOps => (srv'[id] = NoList <=> srv[id] = NoList)
       /\ k.op \in Playlists!ItemOps /\ srv[id] # NoList => srv'[id].name = srv[id].name
  BY <1>7, <1>8, <1>10
<1>14. UNCHANGED <<mirror, current, listing, queued, changes>>
  BY DEF Playlists!Serve
<1> QED
  BY <1>1, <1>4, <1>7, <1>9, <1>10, <1>11, <1>12, <1>13, <1>14, ServeSteps

(* The answers.  A call that has ended.                                    *)
LEMMA EndedCall ==
  ASSUME NEW id \in Ids, NEW c \in Calls, NEW n, DOMAIN n = Calls
  PROVE  LET n2 == [n EXCEPT ![c] = NoCall]
         IN /\ n2[c] = NoCall /\ ~ CallOn(n2, id, c)
            /\ \A e \in Calls : e # c => n2[e] = n[e]
            /\ \A e \in Calls : e # c => (CallOn(n2, id, e) <=> CallOn(n, id, e))
BY DEF CallOn

LEMMA AnswersAre ==
  ASSUME NEW c \in Calls, NEW op, NEW answer, MirrorInv, Playlists!Answered(c, op, answer)
  PROVE  /\ net[c] \in Playlists!Call /\ CallTyped(net[c]) /\ net[c].id \in Ids /\ CallOn(net, net[c].id, c)
         /\ net[c].op = op /\ net[c].answer = answer
         /\ mirror \in Seq(Playlists!Playlist) /\ DOMAIN net = Calls
         /\ doubt \in [Ids -> Doubts] /\ doubt[net[c].id] # "unused"
<1>1. CallTyped(net[c]) /\ net[c] # NoCall /\ net[c].op = op /\ net[c].answer = answer
  BY DEF Playlists!Answered, MirrorInv, MirrorTypes, Playlists!Busy
<1>2. net[c] \in Playlists!Call /\ net[c].id \in Ids
  BY <1>1 DEF CallTyped, Playlists!Call
<1>3. CallOn(net, net[c].id, c)
  BY <1>1 DEF CallOn
<1> QED
  BY <1>1, <1>2, <1>3, NotUnused DEF MirrorInv, MirrorTypes, Doubts

(* What fits once the only call on a playlist ended.                       *)
LEMMA LoneCallEnds ==
  ASSUME NEW id \in Ids, NEW c \in Calls, NEW m, NEW n, NEW on, NEW kind,
         DOMAIN n = Calls, CallOn(n, id, c), n[c].op \notin Playlists!ItemOps, Fits(m, n, id, on, kind)
  PROVE  /\ Quiet([n EXCEPT ![c] = NoCall], id)
         /\ CallFits(m, n, id, on, kind, n[c])
         /\ \A vs : VideosFit(n, id, on, vs) <=> Plain(on, vs)
<1> DEFINE n2 == [n EXCEPT ![c] = NoCall]
<1>1. \A e \in Calls : CallOn(n, id, e) <=> e = c
  BY Alone DEF Fits
<1>2. /\ ~ CallOn(n2, id, c)
      /\ \A e \in Calls : e # c => (CallOn(n2, id, e) <=> CallOn(n, id, e))
  BY EndedCall
<1> HIDE DEF n2
<1>3. Quiet(n2, id)
  BY <1>1, <1>2 DEF Quiet
<1>4. \A vs : VideosFit(n, id, on, vs) <=> Plain(on, vs)
  BY <1>1, VideosArePlain
<1> QED
  BY <1>3, <1>4 DEF Fits, n2

LEMMA ReconciledRow ==
  ASSUME NEW c \in Calls, NEW op, MirrorInv, changes' \in Nat, Playlists!Answered(c, op, "done"),
         op \in {"create", "rename"},
         mirror' = Playlists!ReconcileSingle(mirror, net[c].id, net[c].name), Playlists!End(c),
         UNCHANGED <<current, listing, doubt>>
  PROVE  MirrorInv'
<1> DEFINE l == net[c]
           id == l.id
           n2 == [net EXCEPT ![c] = NoCall]
           on == srv[id]
<1>1. /\ l \in Playlists!Call /\ CallTyped(l) /\ id \in Ids /\ CallOn(net, id, c) /\ l.op = op /\ l.answer = "done"
      /\ mirror \in Seq(Playlists!Playlist) /\ DOMAIN net = Calls
      /\ doubt \in [Ids -> Doubts] /\ doubt[id] # "unused"
  BY AnswersAre
<1>2. l.name \in Names
  BY <1>1 DEF CallTyped
<1>3. l.op \notin Playlists!ItemOps
  BY <1>1 DEF Playlists!ItemOps
<1> HIDE DEF n2
<1>4. /\ mirror' \in Seq(Playlists!Playlist) /\ Playlists!Has(mirror', id)
      /\ \A y \in Ids : y # id => Keeps(mirror, mirror', y)
      /\ \A p \in Playlists!Playlist : OneRow(mirror, id, p) => OneRow(mirror', id, [p EXCEPT !.name = l.name])
  BY <1>1, <1>2, ReconcileSingleKeeps
<1>5. ASSUME doubt[id] \in {"none", "items"}
      PROVE  Fits(mirror', n2, id, on, doubt[id])
  <2>1. Fits(mirror, net, id, on, doubt[id])
    BY <1>1, <1>5 DEF MirrorInv, PlaylistInv
  <2>2. /\ Quiet(n2, id) /\ CallFits(mirror, net, id, on, doubt[id], l)
        /\ \A vs : VideosFit(net, id, on, vs) <=> Plain(on, vs)
    BY <1>1, <1>3, <2>1, LoneCallEnds DEF n2
  <2>3. PICK p \in Playlists!Playlist : /\ OneRow(mirror, id, p) /\ p.name = l.name
                                        /\ doubt[id] = "none" => Plain(on, p.videos)
    <3>1. CASE op = "create"
      <4> DEFINE p == [id |-> id, name |-> l.name, videos |-> <<>>]
      <4>1. OneRow(mirror, id, p) /\ on = [name |-> l.name, videos |-> {}]
        BY <1>1, <2>2, <3>1 DEF CallFits, CreateFits
      <4>2. p \in Playlists!Playlist /\ p.name = l.name /\ p.videos = <<>>
        BY <1>1, <1>2 DEF Playlists!Playlist
      <4>3. Plain(on, <<>>)
        BY <4>1 DEF Plain, Separate, ShownIn
      <4> HIDE DEF p
      <4> QED
        BY <4>1, <4>2, <4>3
    <3>2. CASE op = "rename"
      <4>1. RowFits(mirror, net, id, on, doubt[id], l.name)
        BY <1>1, <2>2, <3>2 DEF CallFits, RenameFits
      <4> QED
        BY <2>2, <4>1 DEF RowFits
    <3> QED
      BY <3>1, <3>2
  <2>4. on # NoList /\ on.name = l.name
    <3>1. CASE op = "create"
      <4>1. on = [name |-> l.name, videos |-> {}]
        BY <1>1, <2>2, <3>1 DEF CallFits, CreateFits
      <4>2. on \in Playlists!OnServer
        BY <1>2, <4>1 DEF Playlists!OnServer
      <4> QED
        BY <4>1, <4>2, MirrorConstants
    <3>2. CASE op = "rename"
      BY <1>1, <2>2, <3>2 DEF CallFits, RenameFits
    <3> QED
      BY <3>1, <3>2
  <2> DEFINE q == [p EXCEPT !.name = l.name]
  <2>5. q \in Playlists!Playlist /\ q.name = l.name /\ q.videos = p.videos /\ OneRow(mirror', id, q)
    BY <1>2, <1>4, <2>3 DEF Playlists!Playlist
  <2> HIDE DEF q
  <2>6. doubt[id] = "none" => Plain(on, q.videos)
    BY <2>3, <2>5
  <2>7. q.name = on.name
    BY <2>4, <2>5
  <2> QED
    BY <2>2, <2>4, <2>5, <2>6, <2>7, QuietRowFits
<1>6. current' # NoList => Playlists!Has(mirror', current')
  BY <1>1, <1>4, CurrentKept
<1> QED
  BY <1>1, <1>4, <1>5, <1>6, EndSteps DEF Doubts, n2

LEMMA CreateOrRenameDoneKeeps ==
  ASSUME NEW c \in Calls, MirrorInv, UNCHANGED changes, Playlists!CreateOrRenameDone(c)
  PROVE  MirrorInv'
<1>1. changes' \in Nat
  BY DEF MirrorInv, MirrorTypes
<1>2. /\ mirror' = Playlists!ReconcileSingle(mirror, net[c].id, net[c].name)
      /\ Playlists!End(c) /\ UNCHANGED <<current, listing, doubt>>
  BY DEF Playlists!CreateOrRenameDone
<1>3. CASE Playlists!Answered(c, "create", "done")
  BY <1>1, <1>2, <1>3, ReconciledRow
<1>4. CASE Playlists!Answered(c, "rename", "done")
  BY <1>1, <1>2, <1>4, ReconciledRow
<1> QED
  BY <1>3, <1>4 DEF Playlists!CreateOrRenameDone

(* A playlist in doubt whose call ended.                                   *)
LEMMA RenameFailedKeeps ==
  ASSUME NEW c \in Calls, MirrorInv, UNCHANGED changes, Playlists!RenameFailed(c)
  PROVE  MirrorInv'
<1> DEFINE l == net[c]
           id == l.id
           n2 == [net EXCEPT ![c] = NoCall]
           on == srv[id]
           f == Playlists!Find(mirror, id)
           q == [f EXCEPT !.name = l.undo]
           r == Playlists!WithRow(id, q)
<1>1. /\ l \in Playlists!Call /\ CallTyped(l) /\ id \in Ids /\ CallOn(net, id, c) /\ l.op = "rename" /\ l.answer = "failed"
      /\ mirror \in Seq(Playlists!Playlist) /\ DOMAIN net = Calls
      /\ doubt \in [Ids -> Doubts] /\ doubt[id] # "unused"
  BY AnswersAre DEF Playlists!RenameFailed
<1>2. l.undo \in Names
  BY <1>1 DEF CallTyped
<1>3. /\ mirror' = IF Playlists!Has(mirror, id) THEN Playlists!SortByName(r) ELSE mirror
      /\ Playlists!End(c) /\ UNCHANGED <<current, listing, doubt>>
  BY DEF Playlists!RenameFailed
<1> HIDE DEF n2
<1>4. /\ mirror' \in Seq(Playlists!Playlist) /\ (Playlists!Has(mirror, id) => Playlists!Has(mirror', id))
      /\ \A y \in Ids : y # id => Keeps(mirror, mirror', y)
      /\ \A p \in Playlists!Playlist : OneRow(mirror, id, p) =>
           OneRow(mirror', id, [p EXCEPT !.name = l.undo])
  <2>1. CASE Playlists!Has(mirror, id)
    <3>1. f \in Playlists!Playlist /\ f.id = id
      BY <1>1, <2>1, RowShown
    <3>2. q \in Playlists!Playlist /\ q.id = id
      BY <1>2, <3>1 DEF Playlists!Playlist
    <3>3. \A p \in Playlists!Playlist : OneRow(mirror, id, p) => f = p
      BY <1>1, FindOne
    <3> HIDE DEF f
    <3>4. \A p \in Playlists!Playlist : OneRow(mirror, id, p) => q = [p EXCEPT !.name = l.undo]
      BY <3>3
    <3> HIDE DEF q
    <3>5. /\ r \in Seq(Playlists!Playlist) /\ Playlists!Has(r, id)
          /\ \A y \in Ids : y # id => Keeps(mirror, r, y)
          /\ \A p \in Playlists!Playlist : OneRow(mirror, id, p) => OneRow(r, id, q)
      BY <1>1, <2>1, <3>2, ChangedRow DEF Playlists!WithRow
    <3> HIDE DEF r
    <3>6. mirror' \in Seq(Playlists!Playlist) /\ \A y \in Ids : Keeps(r, mirror', y)
      BY <1>3, <2>1, <3>5, SortKeeps
    <3>7. \A y \in Ids : y # id => Keeps(mirror, mirror', y)
      BY <3>5, <3>6, KeepsAndKeeps
    <3>8. Playlists!Has(mirror', id) /\ \A p \in Playlists!Playlist : OneRow(mirror, id, p) => OneRow(mirror', id, q)
      BY <1>1, <3>2, <3>5, <3>6, HasRow DEF Keeps
    <3> QED
      BY <3>4, <3>6, <3>7, <3>8
  <2>2. CASE ~ Playlists!Has(mirror, id)
    <3>1. \A p \in Playlists!Playlist : ~ OneRow(mirror, id, p)
      BY <1>1, <2>2, FindOne
    <3> QED
      BY <1>1, <1>3, <2>2, <3>1 DEF Keeps
  <2> QED
    BY <2>1, <2>2
<1>5. ASSUME doubt[id] \in {"none", "items"}
      PROVE  Fits(mirror', n2, id, on, doubt[id])
  <2>1. Fits(mirror, net, id, on, doubt[id])
    BY <1>1, <1>5 DEF MirrorInv, PlaylistInv
  <2>2. /\ Quiet(n2, id) /\ CallFits(mirror, net, id, on, doubt[id], l)
        /\ \A vs : VideosFit(net, id, on, vs) <=> Plain(on, vs)
    BY <1>1, <2>1, LoneCallEnds DEF n2, Playlists!ItemOps
  <2>3. /\ on # NoList /\ on.name = l.undo
        /\ RowFits(mirror, net, id, on, doubt[id], l.name)
    BY <1>1, <2>2 DEF CallFits, RenameFits
  <2>4. PICK p \in Playlists!Playlist : /\ OneRow(mirror, id, p) /\ p.name = l.name
                                        /\ doubt[id] = "none" => VideosFit(net, id, on, p.videos)
    BY <2>3 DEF RowFits
  <2> DEFINE x == [p EXCEPT !.name = l.undo]
  <2>5. x \in Playlists!Playlist /\ x.name = l.undo /\ x.videos = p.videos /\ OneRow(mirror', id, x)
    BY <1>2, <1>4, <2>4 DEF Playlists!Playlist
  <2> HIDE DEF x
  <2>6. doubt[id] = "none" => Plain(on, x.videos)
    BY <2>2, <2>4, <2>5
  <2>7. x.name = on.name
    BY <2>3, <2>5
  <2> QED
    BY <2>2, <2>3, <2>5, <2>6, <2>7, QuietRowFits
<1>6. current # NoList => current # id \/ Playlists!Has(mirror', id)
  BY <1>4 DEF MirrorInv
<1>7. current' # NoList => Playlists!Has(mirror', current')
  BY <1>1, <1>3, <1>4, <1>6, CurrentKept
<1>8. changes' \in Nat
  BY DEF MirrorInv, MirrorTypes
<1> QED
  BY <1>1, <1>3, <1>4, <1>5, <1>7, <1>8, EndSteps DEF Doubts, n2

(* The row of a delete that failed is shown again; the one of a create     *)
(* that failed is in doubt.                                                *)
LEMMA DeleteFailedKeeps ==
  ASSUME NEW c \in Calls, MirrorInv, UNCHANGED changes, Playlists!DeleteFailed(c)
  PROVE  MirrorInv'
<1> DEFINE l == net[c]
           id == l.id
           n2 == [net EXCEPT ![c] = NoCall]
           on == srv[id]
           p == l.undo
           r == Append(mirror, p)
<1>1. /\ l \in Playlists!Call /\ CallTyped(l) /\ id \in Ids /\ CallOn(net, id, c) /\ l.op = "delete" /\ l.answer = "failed"
      /\ mirror \in Seq(Playlists!Playlist) /\ DOMAIN net = Calls
      /\ doubt \in [Ids -> Doubts] /\ doubt[id] # "unused"
  BY AnswersAre DEF Playlists!DeleteFailed
<1>2. p \in Playlists!Playlist /\ p.id = id
  BY <1>1 DEF CallTyped
<1>3. /\ mirror' = Playlists!SortByName(r)
      /\ doubt' = IF l.rollback THEN Playlists!Doubt(id, "row") ELSE doubt
      /\ Playlists!End(c) /\ UNCHANGED <<current, listing>>
  BY DEF Playlists!DeleteFailed, Playlists!Restored
<1> HIDE DEF n2
<1>4. /\ mirror' \in Seq(Playlists!Playlist) /\ Playlists!Has(mirror', id)
      /\ \A y \in Ids : y # id => Keeps(mirror, mirror', y)
      /\ NoRow(mirror, id) => OneRow(mirror', id, p)
  <2> HIDE DEF p
  <2>1. /\ r \in Seq(Playlists!Playlist) /\ Playlists!Has(r, id)
        /\ \A y \in Ids : y # id => Keeps(mirror, r, y)
        /\ NoRow(mirror, id) => OneRow(r, id, p)
    BY <1>1, <1>2, AppendedRow
  <2> HIDE DEF r
  <2>2. mirror' \in Seq(Playlists!Playlist) /\ \A y \in Ids : Keeps(r, mirror', y)
    BY <1>3, <2>1, SortKeeps
  <2>3. \A y \in Ids : y # id => Keeps(mirror, mirror', y)
    BY <2>1, <2>2, KeepsAndKeeps
  <2>4. Playlists!Has(mirror', id) /\ (NoRow(mirror, id) => OneRow(mirror', id, p))
    BY <1>1, <1>2, <2>1, <2>2, HasRow DEF Keeps
  <2> QED
    BY <2>2, <2>3, <2>4
<1>5. /\ doubt' \in [Ids -> Doubts] /\ doubt'[id] # "unused"
      /\ \A y \in Ids : y # id => doubt'[y] = doubt[y]
      /\ doubt'[id] \in {"none", "items"} => doubt'[id] = doubt[id] /\ ~ l.rollback
  <2>1. CASE l.rollback
    <3>1. doubt' = Playlists!Doubt(id, "row")
      BY <1>3, <2>1
    <3> QED
      BY <1>1, <3>1, DoubtIs
  <2>2. CASE ~ l.rollback
    BY <1>1, <1>3, <2>2
  <2> QED
    BY <2>1, <2>2
<1>6. ASSUME doubt'[id] \in {"none", "items"}
      PROVE  Fits(mirror', n2, id, on, doubt'[id])
  <2>1. Fits(mirror, net, id, on, doubt[id]) /\ doubt'[id] = doubt[id] /\ ~ l.rollback
    BY <1>1, <1>5, <1>6 DEF MirrorInv, PlaylistInv
  <2>2. /\ Quiet(n2, id) /\ CallFits(mirror, net, id, on, doubt[id], l)
        /\ \A vs : VideosFit(net, id, on, vs) <=> Plain(on, vs)
    BY <1>1, <2>1, LoneCallEnds DEF n2, Playlists!ItemOps
  <2>3. /\ NoRow(mirror, id) /\ on # NoList /\ p.name = on.name
        /\ doubt[id] = "none" => VideosFit(net, id, on, p.videos)
    BY <1>1, <2>1, <2>2 DEF CallFits, DeleteFits
  <2> HIDE DEF p
  <2>4. doubt'[id] = "none" => Plain(on, p.videos)
    BY <2>1, <2>2, <2>3
  <2> QED
    BY <1>2, <1>4, <2>2, <2>3, <2>4, QuietRowFits
<1>7. current' # NoList => Playlists!Has(mirror', current')
  BY <1>1, <1>3, <1>4, CurrentKept
<1>8. changes' \in Nat
  BY DEF MirrorInv, MirrorTypes
<1> QED
  BY <1>1, <1>3, <1>4, <1>5, <1>6, <1>7, <1>8, EndSteps DEF Doubts, n2

LEMMA CreateFailedKeeps ==
  ASSUME NEW c \in Calls, MirrorInv, UNCHANGED changes, Playlists!CreateFailed(c)
  PROVE  MirrorInv'
<1> DEFINE l == net[c]
           id == l.id
           n2 == [net EXCEPT ![c] = NoCall]
           on == srv[id]
           p == Playlists!Find(mirror, id)
           k == Playlists!DeletePlaylistRemote(p, TRUE)
           n3 == [net EXCEPT ![c] = k]
<1>1. /\ l \in Playlists!Call /\ CallTyped(l) /\ id \in Ids /\ CallOn(net, id, c) /\ l.op = "create" /\ l.answer = "failed"
      /\ mirror \in Seq(Playlists!Playlist) /\ DOMAIN net = Calls
      /\ doubt \in [Ids -> Doubts] /\ doubt[id] # "unused"
  BY AnswersAre DEF Playlists!CreateFailed
<1>2. changes' \in Nat
  BY DEF MirrorInv, MirrorTypes
<1>3. CASE Playlists!Has(mirror, id)
  <2>1. /\ mirror' = Playlists!Without(mirror, Playlists!IndexOf(mirror, id))
        /\ current' = IF current = id THEN NoList ELSE current
        /\ Playlists!Send(c, k) /\ doubt' = doubt
    BY <1>3 DEF Playlists!CreateFailed
  <2>2. p \in Playlists!Playlist /\ p.id = id
    BY <1>1, <1>3, RowShown
  <2>3. /\ k.op = "delete" /\ k.id = id /\ k.undo = p /\ k.rollback = TRUE /\ k.answer = "none"
        /\ k \in Playlists!Call /\ CallTyped(k)
    BY <1>1, <2>2 DEF Playlists!DeletePlaylistRemote, Playlists!ACall, Playlists!Call, CallTyped, Playlists!ItemOps
  <2>4. k # NoCall
    BY <2>3, MirrorConstants
  <2> HIDE DEF k, p
  <2>5. /\ mirror' \in Seq(Playlists!Playlist)
        /\ \A y \in Ids : y # id => Keeps(mirror, mirror', y)
        /\ \A x \in Playlists!Playlist : OneRow(mirror, id, x) => NoRow(mirror', id)
    BY <1>1, <1>3, <2>1, WithoutRow
  <2>6. /\ n3[c] = k /\ CallOn(n3, id, c)
        /\ \A e \in Calls : e # c => n3[e] = net[e]
        /\ \A e \in Calls : e # c => (CallOn(n3, id, e) <=> CallOn(net, id, e))
    BY <1>1, <2>3, <2>4 DEF CallOn
  <2> HIDE DEF n3
  <2>7. ASSUME doubt'[id] \in {"none", "items"}
        PROVE  Fits(mirror', n3, id, on, doubt'[id])
    <3>1. Fits(mirror, net, id, on, doubt[id])
      BY <1>1, <2>1, <2>7 DEF MirrorInv, PlaylistInv
    <3>2. \A e \in Calls : CallOn(net, id, e) <=> e = c
      BY <1>1, <3>1, Alone DEF Fits, Playlists!ItemOps
    <3>3. OneRow(mirror, id, [id |-> id, name |-> l.name, videos |-> <<>>])
      BY <1>1, <3>1 DEF Fits, CallFits, CreateFits
    <3>4. [id |-> id, name |-> l.name, videos |-> <<>>] \in Playlists!Playlist
      BY <1>1 DEF CallTyped, Playlists!Playlist
    <3>5. NoRow(mirror', id)
      BY <2>5, <3>3, <3>4
    <3>6. CallFits(mirror', n3, id, on, doubt'[id], k)
      BY <2>3, <3>5 DEF CallFits, DeleteFits
    <3> QED
      BY <2>3, <2>6, <3>2, <3>6, LoneCallFits DEF Playlists!ItemOps
  <2>8. current' # NoList => Playlists!Has(mirror', current')
    <3>1. CASE current = id
      BY <2>1, <3>1
    <3>2. CASE current # id
      BY <1>1, <2>1, <2>5, <3>2, CurrentKept
    <3> QED
      BY <3>1, <3>2
  <2> QED
    BY <1>1, <1>2, <2>1, <2>3, <2>5, <2>7, <2>8, SendSteps DEF Doubts, n3
<1>4. CASE ~ Playlists!Has(mirror, id)
  <2>1. /\ Playlists!End(c) /\ doubt' = Playlists!Doubt(id, "row")
        /\ UNCHANGED <<mirror, current, listing>>
    BY <1>4 DEF Playlists!CreateFailed
  <2>2. /\ doubt' \in [Ids -> Doubts] /\ \A y \in Ids : y # id => doubt'[y] = doubt[y]
        /\ doubt'[id] = "row"
    BY <1>1, <2>1, DoubtIs
  <2>3. \A y \in Ids : y # id => Keeps(mirror, mirror', y)
    BY <2>1 DEF Keeps
  <2>4. current' # NoList => Playlists!Has(mirror', current')
    BY <2>1 DEF MirrorInv
  <2> QED
    BY <1>1, <1>2, <2>1, <2>2, <2>3, <2>4, EndSteps DEF Doubts
<1> QED
  BY <1>3, <1>4

(* A call on an item ends: the row q is what is shown instead of p.        *)
VideoSettles(k, on, p, q) ==
    /\ p.name = on.name /\ (k.op = "add" /\ k.answer = "done" => k.name = on.name) =>
           q.name = on.name
    /\ Separate(p.videos) /\ ItemFits(k, on, p.videos) =>
           /\ Separate(q.videos)
           /\ \A u \in Items : u # k.item => (ShownIn(q.videos, u) <=> ShownIn(p.videos, u))
           /\ ShownIn(q.videos, k.item) <=> k.item \in on.videos

LEMMA ItemCallEnds ==
  ASSUME NEW id \in Ids, NEW c \in Calls, CallOn(net, id, c), net[c].op \in Playlists!ItemOps,
         MirrorInv, changes' \in Nat, Playlists!End(c), UNCHANGED <<current, listing, doubt>>,
         mirror' \in Seq(Playlists!Playlist), Playlists!Has(mirror, id) => Playlists!Has(mirror', id),
         \A y \in Ids : y # id => Keeps(mirror, mirror', y),
         \A p \in Playlists!Playlist : OneRow(mirror, id, p) =>
             \E q \in Playlists!Playlist : OneRow(mirror', id, q) /\ VideoSettles(net[c], srv[id], p, q)
  PROVE  MirrorInv'
<1> DEFINE l == net[c]
           n2 == [net EXCEPT ![c] = NoCall]
           on == srv[id]
<1>1. /\ MirrorTypes /\ DOMAIN net = Calls /\ doubt \in [Ids -> Doubts] /\ doubt[id] # "unused"
      /\ \A e \in Calls : CallOn(net, id, e) => CallTyped(net[e])
  BY NotUnused DEF MirrorInv, MirrorTypes, Doubts, CallOn, Playlists!Busy
<1>2. /\ n2[c] = NoCall /\ ~ CallOn(n2, id, c)
      /\ \A e \in Calls : e # c => n2[e] = net[e]
      /\ \A e \in Calls : e # c => (CallOn(n2, id, e) <=> CallOn(net, id, e))
  BY <1>1, EndedCall
<1> HIDE DEF n2
<1>3. ASSUME doubt[id] \in {"none", "items"}
      PROVE  Fits(mirror', n2, id, on, doubt[id])
  <2>1. Fits(mirror, net, id, on, doubt[id])
    BY <1>1, <1>3 DEF MirrorInv, PlaylistInv
  <2>2. /\ ItemsOnly(net, id) /\ on # NoList
        /\ doubt[id] = "none" => \A e \in Calls : e # c /\ CallOn(net, id, e) => net[e].item # l.item
    BY <2>1, ItemCallFits
  <2>3. PICK p \in Playlists!Playlist : /\ OneRow(mirror, id, p) /\ p.name = on.name
                                        /\ doubt[id] = "none" => VideosFit(net, id, on, p.videos)
    BY <2>1, ItemCallFits
  <2>4. PICK q \in Playlists!Playlist : OneRow(mirror', id, q) /\ VideoSettles(l, on, p, q)
    BY <2>3
  <2>5. \A e \in Calls : CallOn(net, id, e) /\ net[e].op = "add" /\ net[e].answer = "done" =>
                             net[e].name = on.name
    BY <2>1 DEF Fits, CallFits
  <2>6. q.name = on.name
    BY <2>3, <2>4, <2>5 DEF VideoSettles
  <2>7. ItemsOnly(n2, id)
    BY <1>2, <2>2 DEF ItemsOnly
  <2>8. Apart(n2, id, doubt[id])
    <3> SUFFICES ASSUME NEW d \in Calls, NEW e \in Calls, d # e, CallOn(n2, id, d), CallOn(n2, id, e)
                 PROVE  /\ n2[d].op \in Playlists!ItemOps /\ n2[e].op \in Playlists!ItemOps
                        /\ doubt[id] = "none" => n2[d].item # n2[e].item
      BY DEF Apart
    <3>1. d # c /\ e # c
      BY <1>2
    <3>2. n2[d] = net[d] /\ n2[e] = net[e] /\ CallOn(net, id, d) /\ CallOn(net, id, e)
      BY <1>2, <3>1
    <3> QED
      BY <2>1, <3>2 DEF Fits, Apart
  <2>9. ASSUME doubt[id] = "none" PROVE VideosFit(n2, id, on, q.videos)
    <3>1. VideosFit(net, id, on, p.videos)
      BY <2>3, <2>9
    <3>2. Separate(p.videos) /\ ItemFits(l, on, p.videos)
      BY <3>1 DEF VideosFit
    <3>3. /\ Separate(q.videos)
          /\ \A u \in Items : u # l.item => (ShownIn(q.videos, u) <=> ShownIn(p.videos, u))
          /\ ShownIn(q.videos, l.item) <=> l.item \in on.videos
      BY <2>4, <3>2 DEF VideoSettles
    <3>4. \A e \in Calls : e # c /\ CallOn(net, id, e) =>
              net[e].op \in Playlists!ItemOps /\ net[e].item \in Items /\ net[e].item # l.item
      BY <1>1, <2>2, <2>9 DEF ItemsOnly, CallTyped
    <3>5. l.item \in Items
      BY <1>1 DEF CallTyped
    <3> HIDE DEF l, on
    <3> QED
      BY <1>2, <3>1, <3>3, <3>4, <3>5, VideoSteps DEF l
  <2>10. \A e \in Calls : CallOn(n2, id, e) /\ n2[e].op = "add" /\ n2[e].answer = "done" =>
                              n2[e].name = on.name
    BY <1>2, <2>5
  <2> QED
    BY <2>2, <2>4, <2>6, <2>7, <2>8, <2>9, <2>10, ItemsFit
<1>4. current # NoList => current # id \/ Playlists!Has(mirror', id)
  BY DEF MirrorInv
<1>5. current' # NoList => Playlists!Has(mirror', current')
  BY <1>4, CurrentKept
<1> QED
  BY <1>1, <1>3, <1>5, EndSteps DEF Doubts, n2

(* The row's videos are put back to what they were; there is no row.       *)
LEMMA VideosRestored ==
  ASSUME NEW c \in Calls, NEW op \in Playlists!ItemOps, MirrorInv, UNCHANGED changes, Playlists!Answered(c, op, "failed"),
         NEW w \in Seq(Items), Playlists!Has(mirror, net[c].id),
         mirror' = Playlists!WithRow(net[c].id, [Playlists!Find(mirror, net[c].id) EXCEPT !.videos = w]),
         Playlists!End(c), UNCHANGED <<current, listing, doubt>>,
         Separate(Playlists!Find(mirror, net[c].id).videos)
           /\ ItemFits(net[c], srv[net[c].id], Playlists!Find(mirror, net[c].id).videos) =>
                /\ Separate(w)
                /\ \A u \in Items : u # net[c].item =>
                     (ShownIn(w, u) <=> ShownIn(Playlists!Find(mirror, net[c].id).videos, u))
                /\ ShownIn(w, net[c].item) <=> net[c].item \in srv[net[c].id].videos
  PROVE  MirrorInv'
<1> DEFINE l == net[c]
           id == l.id
           on == srv[id]
           p == Playlists!Find(mirror, id)
           q == [p EXCEPT !.videos = w]
           r == Playlists!WithRow(id, q)
<1>1. mirror' = r
  OBVIOUS
<1>2. /\ l \in Playlists!Call /\ CallTyped(l) /\ id \in Ids /\ CallOn(net, id, c) /\ l.op = op /\ l.answer = "failed"
      /\ mirror \in Seq(Playlists!Playlist) /\ DOMAIN net = Calls
      /\ doubt \in [Ids -> Doubts] /\ doubt[id] # "unused"
  BY AnswersAre
<1>3. changes' \in Nat
  BY DEF MirrorInv, MirrorTypes
<1>4. p \in Playlists!Playlist /\ p.id = id
  BY <1>2, RowShown
<1>5. q \in Playlists!Playlist /\ q.id = id /\ q.name = p.name /\ q.videos = w
  BY <1>4 DEF Playlists!Playlist
<1> HIDE DEF q
<1>6. VideoSettles(l, on, p, q)
  BY <1>2, <1>5 DEF VideoSettles
<1>7. \A x \in Playlists!Playlist : OneRow(mirror, id, x) => p = x
  BY <1>2, FindOne
<1> HIDE DEF p
<1>8. /\ mirror' \in Seq(Playlists!Playlist) /\ Playlists!Has(mirror', id)
      /\ \A y \in Ids : y # id => Keeps(mirror, mirror', y)
      /\ \A x \in Playlists!Playlist : OneRow(mirror, id, x) => OneRow(mirror', id, q)
  <2>1. mirror \in Seq(Playlists!Playlist) /\ id \in Ids /\ Playlists!Has(mirror, id) /\ q \in Playlists!Playlist /\ q.id = id
    BY <1>2, <1>5
  <2>2. /\ r \in Seq(Playlists!Playlist) /\ Playlists!Has(r, id)
        /\ \A y \in Ids : y # id => Keeps(mirror, r, y)
        /\ \A x \in Playlists!Playlist : OneRow(mirror, id, x) => OneRow(r, id, q)
    BY <2>1, ChangedRow DEF Playlists!WithRow
  <2> HIDE DEF r
  <2> QED
    BY <1>1, <2>2
<1>9. \A x \in Playlists!Playlist : OneRow(mirror, id, x) =>
          \E y \in Playlists!Playlist : OneRow(mirror', id, y) /\ VideoSettles(l, on, x, y)
  BY <1>5, <1>6, <1>7, <1>8
<1> QED
  BY <1>2, <1>3, <1>8, <1>9, ItemCallEnds

LEMMA NothingRestored ==
  ASSUME NEW c \in Calls, NEW op \in Playlists!ItemOps, MirrorInv, UNCHANGED changes, Playlists!Answered(c, op, "failed"),
         ~ Playlists!Has(mirror, net[c].id), Playlists!End(c), UNCHANGED <<mirror, current, listing, doubt>>
  PROVE  MirrorInv'
<1> DEFINE l == net[c]
           id == l.id
<1>1. /\ id \in Ids /\ CallOn(net, id, c) /\ l.op = op
      /\ mirror \in Seq(Playlists!Playlist)
  BY AnswersAre
<1>2. changes' \in Nat
  BY DEF MirrorInv, MirrorTypes
<1>3. \A x \in Playlists!Playlist : ~ OneRow(mirror, id, x)
  BY <1>1, FindOne
<1>4. \A y \in Ids : y # id => Keeps(mirror, mirror', y)
  BY DEF Keeps
<1> QED
  BY <1>1, <1>2, <1>3, <1>4, ItemCallEnds

LEMMA AddFailedKeeps ==
  ASSUME NEW c \in Calls, MirrorInv, UNCHANGED changes, Playlists!AddFailed(c)
  PROVE  MirrorInv'
<1> DEFINE l == net[c]
           id == l.id
           p == Playlists!Find(mirror, id)
           w == Playlists!WithoutAll(p.videos, l.item)
<1>1. /\ l \in Playlists!Call /\ CallTyped(l) /\ id \in Ids /\ l.op = "add" /\ l.answer = "failed"
  BY AnswersAre DEF Playlists!AddFailed
<1>2. l.item \in Items
  BY <1>1 DEF CallTyped, Playlists!ItemOps
<1>3. Playlists!Answered(c, "add", "failed") /\ Playlists!End(c) /\ UNCHANGED <<current, listing, doubt>>
  BY DEF Playlists!AddFailed
<1>4. CASE Playlists!Has(mirror, id)
  <2>1. p.videos \in Seq(Items)
    BY <1>1, <1>4, RowShown DEF Playlists!Playlist
  <2>2. /\ w \in Seq(Items)
        /\ Separate(p.videos) => Separate(w)
        /\ \A u \in Items : ShownIn(w, u) <=> ShownIn(p.videos, u) /\ u # l.item
    BY <1>2, <2>1, ErasedVideo
  <2>3. mirror' = Playlists!WithRow(id, [p EXCEPT !.videos = w])
    BY <1>4 DEF Playlists!AddFailed
  <2> HIDE DEF w
  <2>4. Separate(p.videos) /\ ItemFits(l, srv[id], p.videos) =>
           /\ Separate(w)
           /\ \A u \in Items : u # l.item => (ShownIn(w, u) <=> ShownIn(p.videos, u))
           /\ ShownIn(w, l.item) <=> l.item \in srv[id].videos
    BY <1>1, <1>2, <2>2 DEF ItemFits
  <2> QED
    BY <1>3, <1>4, <2>2, <2>3, <2>4, VideosRestored DEF Playlists!ItemOps
<1>5. CASE ~ Playlists!Has(mirror, id)
  <2>1. mirror' = mirror
    BY <1>5 DEF Playlists!AddFailed
  <2> QED
    BY <1>3, <1>5, <2>1, NothingRestored DEF Playlists!ItemOps
<1> QED
  BY <1>4, <1>5

LEMMA RemoveFailedKeeps ==
  ASSUME NEW c \in Calls, MirrorInv, UNCHANGED changes, Playlists!RemoveFailed(c)
  PROVE  MirrorInv'
<1> DEFINE l == net[c]
           id == l.id
           p == Playlists!Find(mirror, id)
           w == Append(p.videos, l.item)
<1>1. /\ l \in Playlists!Call /\ CallTyped(l) /\ id \in Ids /\ l.op = "remove" /\ l.answer = "failed"
  BY AnswersAre DEF Playlists!RemoveFailed
<1>2. l.item \in Items
  BY <1>1 DEF CallTyped, Playlists!ItemOps
<1>3. Playlists!Answered(c, "remove", "failed") /\ Playlists!End(c) /\ UNCHANGED <<current, listing, doubt>>
  BY DEF Playlists!RemoveFailed
<1>4. CASE Playlists!Has(mirror, id)
  <2>1. p.videos \in Seq(Items)
    BY <1>1, <1>4, RowShown DEF Playlists!Playlist
  <2>2. /\ w \in Seq(Items)
        /\ ~ ShownIn(p.videos, l.item) =>
             /\ Separate(p.videos) => Separate(w)
             /\ \A u \in Items : ShownIn(w, u) <=> ShownIn(p.videos, u) \/ u = l.item
    BY <1>2, <2>1, AppendedVideo
  <2>3. mirror' = Playlists!WithRow(id, [p EXCEPT !.videos = w])
    BY <1>4 DEF Playlists!RemoveFailed
  <2> HIDE DEF w
  <2>4. Separate(p.videos) /\ ItemFits(l, srv[id], p.videos) =>
           /\ Separate(w)
           /\ \A u \in Items : u # l.item => (ShownIn(w, u) <=> ShownIn(p.videos, u))
           /\ ShownIn(w, l.item) <=> l.item \in srv[id].videos
    BY <1>1, <1>2, <2>2 DEF ItemFits
  <2> QED
    BY <1>3, <1>4, <2>2, <2>3, <2>4, VideosRestored DEF Playlists!ItemOps
<1>5. CASE ~ Playlists!Has(mirror, id)
  <2>1. mirror' = mirror
    BY <1>5 DEF Playlists!RemoveFailed
  <2> QED
    BY <1>3, <1>5, <2>1, NothingRestored DEF Playlists!ItemOps
<1> QED
  BY <1>4, <1>5

(* An item was added: the row takes the name that came with the answer.    *)
LEMMA AddDoneKeeps ==
  ASSUME NEW c \in Calls, MirrorInv, UNCHANGED changes, Playlists!AddDone(c)
  PROVE  MirrorInv'
<1> DEFINE l == net[c]
           id == l.id
           on == srv[id]
<1>1. /\ l \in Playlists!Call /\ CallTyped(l) /\ id \in Ids /\ CallOn(net, id, c) /\ l.op = "add" /\ l.answer = "done"
      /\ mirror \in Seq(Playlists!Playlist)
  BY AnswersAre DEF Playlists!AddDone
<1>2. l.name \in Names
  BY <1>1 DEF CallTyped
<1>3. /\ mirror' = Playlists!ReconcileSingle(mirror, id, l.name) /\ Playlists!End(c)
      /\ UNCHANGED <<current, listing, doubt>>
  BY DEF Playlists!AddDone
<1>4. /\ mirror' \in Seq(Playlists!Playlist) /\ Playlists!Has(mirror', id)
      /\ \A y \in Ids : y # id => Keeps(mirror, mirror', y)
      /\ \A p \in Playlists!Playlist : OneRow(mirror, id, p) => OneRow(mirror', id, [p EXCEPT !.name = l.name])
  BY <1>1, <1>2, <1>3, ReconcileSingleKeeps
<1>5. ASSUME NEW p \in Playlists!Playlist, OneRow(mirror, id, p)
      PROVE  \E q \in Playlists!Playlist : OneRow(mirror', id, q) /\ VideoSettles(l, on, p, q)
  <2> DEFINE q == [p EXCEPT !.name = l.name]
  <2>1. q \in Playlists!Playlist /\ q.name = l.name /\ q.videos = p.videos
    BY <1>2 DEF Playlists!Playlist
  <2>2. OneRow(mirror', id, q)
    BY <1>4, <1>5
  <2> HIDE DEF q
  <2>3. VideoSettles(l, on, p, q)
    BY <1>1, <2>1 DEF VideoSettles, ItemFits
  <2> QED
    BY <2>1, <2>2, <2>3
<1>6. changes' \in Nat
  BY DEF MirrorInv, MirrorTypes
<1> QED
  BY <1>1, <1>3, <1>4, <1>5, <1>6, ItemCallEnds DEF Playlists!ItemOps

(* An answer that changes nothing here: the row is as the server has it.   *)
LEMMA IgnoredKeeps ==
  ASSUME NEW c \in Calls, MirrorInv, UNCHANGED changes, Playlists!Ignored(c)
  PROVE  MirrorInv'
<1> DEFINE l == net[c]
           id == l.id
           on == srv[id]
           n2 == [net EXCEPT ![c] = NoCall]
<1>1. Playlists!Answered(c, l.op, l.answer)
  BY DEF Playlists!Ignored, Playlists!Answered
<1>2. /\ l \in Playlists!Call /\ CallTyped(l) /\ id \in Ids /\ CallOn(net, id, c)
      /\ mirror \in Seq(Playlists!Playlist) /\ DOMAIN net = Calls
      /\ doubt \in [Ids -> Doubts] /\ doubt[id] # "unused"
  BY <1>1, AnswersAre
<1>3. /\ \/ l.answer = "garbled" /\ l.op \in {"create", "rename", "add"}
         \/ l.answer = "done" /\ l.op \in {"delete", "remove"}
      /\ Playlists!End(c) /\ UNCHANGED <<mirror, current, listing, doubt>>
  BY <1>2 DEF Playlists!Ignored, CallTyped, Playlists!Call
<1>4. \A y \in Ids : Keeps(mirror, mirror', y)
  BY <1>3 DEF Keeps
<1>5. changes' \in Nat
  BY DEF MirrorInv, MirrorTypes
<1>6. CASE l.op \in Playlists!ItemOps
  <2>1. \A p \in Playlists!Playlist : VideoSettles(l, on, p, p)
    BY <1>3, <1>6 DEF VideoSettles, ItemFits, Playlists!ItemOps
  <2>2. \A p \in Playlists!Playlist : OneRow(mirror, id, p) =>
            \E q \in Playlists!Playlist : OneRow(mirror', id, q) /\ VideoSettles(l, on, p, q)
    BY <1>3, <2>1
  <2> QED
    BY <1>2, <1>3, <1>4, <1>5, <1>6, <2>2, ItemCallEnds
<1>7. CASE l.op \notin Playlists!ItemOps
  <2> HIDE DEF n2
  <2>1. ASSUME doubt[id] \in {"none", "items"}
        PROVE  Fits(mirror, n2, id, on, doubt[id])
    <3>1. Fits(mirror, net, id, on, doubt[id])
      BY <1>2, <2>1 DEF MirrorInv, PlaylistInv
    <3>2. /\ Quiet(n2, id) /\ CallFits(mirror, net, id, on, doubt[id], l)
          /\ \A vs : VideosFit(net, id, on, vs) <=> Plain(on, vs)
      BY <1>2, <1>7, <3>1, LoneCallEnds DEF n2
    <3>3. CASE l.op = "create"
      <4> DEFINE p == [id |-> id, name |-> l.name, videos |-> <<>>]
      <4>1. OneRow(mirror, id, p) /\ on = [name |-> l.name, videos |-> {}]
        BY <1>3, <3>2, <3>3 DEF CallFits, CreateFits
      <4>2. p \in Playlists!Playlist /\ p.name = l.name /\ p.videos = <<>> /\ on \in Playlists!OnServer
        BY <1>2, <3>3, <4>1 DEF Playlists!Playlist, Playlists!OnServer, CallTyped
      <4>3. Plain(on, <<>>)
        BY <4>1 DEF Plain, Separate, ShownIn
      <4>4. on # NoList
        BY <4>2, MirrorConstants
      <4>5. on.name = l.name
        BY <4>1
      <4> HIDE DEF p
      <4> QED
        BY <3>2, <4>1, <4>2, <4>3, <4>4, <4>5, QuietRowFits
    <3>4. CASE l.op = "rename"
      <4>1. on # NoList /\ RowFits(mirror, net, id, on, doubt[id], l.name) /\ on.name = l.name
        BY <1>3, <3>2, <3>4 DEF CallFits, RenameFits
      <4>2. PICK p \in Playlists!Playlist : /\ OneRow(mirror, id, p) /\ p.name = l.name
                                            /\ doubt[id] = "none" => VideosFit(net, id, on, p.videos)
        BY <4>1 DEF RowFits
      <4>3. doubt[id] = "none" => Plain(on, p.videos)
        BY <3>2, <4>2
      <4> QED
        BY <3>2, <4>1, <4>2, <4>3, QuietRowFits
    <3>5. CASE l.op = "delete"
      <4>1. NoRow(mirror, id) /\ on = NoList
        BY <1>3, <3>2, <3>5 DEF CallFits, DeleteFits
      <4> QED
        BY <3>2, <4>1, QuietGone
    <3> QED
      BY <1>3, <1>7, <3>3, <3>4, <3>5 DEF Playlists!ItemOps
  <2>2. current' # NoList => Playlists!Has(mirror', current')
    BY <1>3 DEF MirrorInv
  <2> QED
    BY <1>2, <1>3, <1>4, <1>5, <2>1, <2>2, EndSteps DEF Doubts, n2
<1> QED
  BY <1>6, <1>7

(* The other steps: no call starts, is served or ends.                     *)
LEMMA ListingSteps ==
  ASSUME MirrorInv, UNCHANGED <<mirror, net, srv, doubt, changes>>, queued' \in BOOLEAN,
         current' # NoList => Playlists!Has(mirror, current'),
         listing' = [at |-> listing'.at, list |-> listing'.list, touched |-> listing'.touched],
         \A id \in DOMAIN listing'.list :
             \/ id \in Ids /\ srv[id] # NoList /\ listing'.list[id] \in Names
             \/ id \in DOMAIN listing.list /\ listing'.list[id] = listing.list[id],
         \A id \in Ids : InTouched(id)' /\ ListFits(id)'
  PROVE  MirrorInv'
<1>1. MirrorTypes'
  BY DEF MirrorInv, MirrorTypes, Playlists!Busy
<1>2. ASSUME NEW id \in Ids PROVE PlaylistInv(id)'
  <2>1. PlaylistInv(id)
    BY DEF MirrorInv
  <2>2. ASSUME doubt[id] = "unused" PROVE Unused(id)'
    BY <2>1, <2>2 DEF PlaylistInv, Unused
  <2> QED
    BY <2>1, <2>2 DEF PlaylistInv
<1> QED
  BY <1>1, <1>2 DEF MirrorInv

(* What a list that is asked for now will be right about.                  *)
LEMMA NewListingIs ==
  ASSUME NEW id \in Ids, NEW l, l \in {Playlists!NewListing, Playlists!IdleListing}
  PROVE  /\ l = [at |-> l.at, list |-> l.list, touched |-> l.touched]
         /\ l.at \in {"sent", "idle"} /\ DOMAIN l.list = {}
         /\ l.at = "sent" => \A c \in Calls : CallOn(net, id, c) => <<id, Playlists!Part(net[c].op)>> \in l.touched
<1>1. ASSUME NEW c \in Calls, CallOn(net, id, c) PROVE <<id, Playlists!Part(net[c].op)>> \in Playlists!InFlight
  BY <1>1 DEF Playlists!InFlight, CallOn, Playlists!Busy
<1> QED
  BY <1>1 DEF Playlists!NewListing, Playlists!IdleListing

LEMMA OpenKeeps ==
  ASSUME NEW id \in Ids, MirrorInv, UNCHANGED changes, Playlists!Open(id)
  PROVE  MirrorInv'
<1>1. /\ UNCHANGED <<mirror, listing, queued, net, srv, doubt>> /\ current' = id /\ Playlists!Has(mirror, id)
      /\ MirrorTypes
  BY DEF Playlists!Open, MirrorInv
<1>2. \A y \in Ids : InTouched(y)' /\ ListFits(y)'
  BY <1>1 DEF MirrorInv, InTouched, PlaylistInv, ListFits
<1> QED
  BY <1>1, <1>2, ListingSteps DEF MirrorTypes

LEMMA CloseKeeps ==
  ASSUME MirrorInv, UNCHANGED changes, Playlists!Close
  PROVE  MirrorInv'
<1>1. /\ UNCHANGED <<mirror, listing, queued, net, srv, doubt>> /\ current' = NoList
      /\ MirrorTypes
  BY DEF Playlists!Close, MirrorInv
<1>2. \A y \in Ids : InTouched(y)' /\ ListFits(y)'
  BY <1>1 DEF MirrorInv, InTouched, PlaylistInv, ListFits
<1> QED
  BY <1>1, <1>2, ListingSteps DEF MirrorTypes

LEMMA RefreshKeeps ==
  ASSUME MirrorInv, UNCHANGED changes, Playlists!Refresh
  PROVE  MirrorInv'
<1>1. UNCHANGED <<mirror, current, net, srv, doubt>> /\ MirrorTypes /\ queued' \in BOOLEAN
  BY DEF Playlists!Refresh, MirrorInv, MirrorTypes
<1>2. current' # NoList => Playlists!Has(mirror, current')
  BY <1>1 DEF MirrorInv
<1>3. CASE listing.at # "idle"
  <2>1. listing' = listing
    BY <1>3 DEF Playlists!Refresh
  <2>2. \A y \in Ids : InTouched(y)' /\ ListFits(y)'
    BY <1>1, <2>1 DEF MirrorInv, InTouched, PlaylistInv, ListFits
  <2> QED
    BY <1>1, <1>2, <2>1, <2>2, ListingSteps DEF MirrorTypes
<1>4. CASE listing.at = "idle"
  <2>1. listing' = Playlists!NewListing
    BY <1>4 DEF Playlists!Refresh
  <2>2. listing' \in {Playlists!NewListing, Playlists!IdleListing}
    BY <2>1
  <2>3. \A y \in Ids : InTouched(y)' /\ ListFits(y)'
    BY <1>1, <2>2, NewListingIs DEF InTouched, ListFits, CallOn
  <2>4. listing' = [at |-> listing'.at, list |-> listing'.list, touched |-> listing'.touched]
        /\ DOMAIN listing'.list = {}
    BY <2>1 DEF Playlists!NewListing
  <2> QED
    BY <1>1, <1>2, <2>3, <2>4, ListingSteps
<1> QED
  BY <1>3, <1>4

LEMMA ListFailedKeeps ==
  ASSUME MirrorInv, UNCHANGED changes, Playlists!ListFailed
  PROVE  MirrorInv'
<1>1. /\ UNCHANGED <<mirror, current, net, srv, doubt>> /\ queued' = FALSE
      /\ listing' \in {Playlists!NewListing, Playlists!IdleListing}
  BY DEF Playlists!ListFailed, Playlists!NextRefresh
<1>2. current' # NoList => Playlists!Has(mirror, current')
  BY <1>1 DEF MirrorInv
<1>3. \A y \in Ids : InTouched(y)' /\ ListFits(y)'
  BY <1>1, NewListingIs DEF InTouched, ListFits, CallOn
<1>4. listing' = [at |-> listing'.at, list |-> listing'.list, touched |-> listing'.touched]
      /\ DOMAIN listing'.list = {}
  BY <1>1 DEF Playlists!NewListing, Playlists!IdleListing
<1> QED
  BY <1>1, <1>2, <1>3, <1>4, ListingSteps

LEMMA ServeListKeeps ==
  ASSUME MirrorInv, UNCHANGED changes, Playlists!ServeList
  PROVE  MirrorInv'
<1> DEFINE done == [listing EXCEPT !.at = "done",
                       !.list = [id \in Playlists!Returned |-> srv[id].name],
                       !.touched = @ \cup ((Playlists!Existing \ Playlists!Returned) \X {"row"})]
<1>1. /\ UNCHANGED <<mirror, current, queued, net, srv, doubt>> /\ MirrorTypes /\ listing.at = "sent"
      /\ \/ listing' = done
         \/ listing' = [listing EXCEPT !.at = "failed"]
         \/ listing' = [listing EXCEPT !.at = "garbled"]
  BY DEF Playlists!ServeList, MirrorInv
<1>2. current' # NoList => Playlists!Has(mirror, current')
  BY <1>1 DEF MirrorInv
<1>3. listing = [at |-> listing.at, list |-> listing.list, touched |-> listing.touched]
  BY <1>1 DEF MirrorTypes
<1>4. CASE listing' = done
  <2>1. /\ listing'.at = "done" /\ listing'.list = [id \in Playlists!Returned |-> srv[id].name]
        /\ listing'.touched = listing.touched \cup ((Playlists!Existing \ Playlists!Returned) \X {"row"})
        /\ listing' = [at |-> listing'.at, list |-> listing'.list, touched |-> listing'.touched]
    BY <1>3, <1>4
  <2>2. \A id \in Playlists!Returned : id \in Playlists!Existing
    BY DEF Playlists!Returned
  <2>3. \A id \in Ids : id \in Playlists!Existing <=> srv[id] # NoList
    BY DEF Playlists!Existing
  <2>4. \A id \in Playlists!Existing : id \in Ids /\ srv[id] # NoList /\ srv[id].name \in Names
    BY <1>1 DEF Playlists!Existing, MirrorTypes, Playlists!OnServer
  <2>5. \A id \in DOMAIN listing'.list :
            id \in Ids /\ srv[id] # NoList /\ listing'.list[id] \in Names
    BY <2>1, <2>2, <2>4
  <2>6. ASSUME NEW y \in Ids PROVE InTouched(y)' /\ ListFits(y)'
    <3>1. InTouched(y)'
      BY <1>1, <2>1 DEF MirrorInv, InTouched, CallOn
    <3>2. y \in Playlists!Existing \ Playlists!Returned => <<y, "row">> \in listing'.touched
      BY <2>1
    <3>3. ListFits(y)'
      BY <1>1, <2>1, <2>2, <2>3, <3>2 DEF ListFits
    <3> QED
      BY <3>1, <3>3
  <2> QED
    BY <1>1, <1>2, <2>1, <2>5, <2>6, ListingSteps DEF MirrorTypes
<1>5. CASE listing' # done
  <2>1. /\ listing'.at \in {"failed", "garbled"} /\ listing'.list = listing.list
        /\ listing' = [at |-> listing'.at, list |-> listing'.list, touched |-> listing'.touched]
    BY <1>1, <1>3, <1>5
  <2>2. \A y \in Ids : InTouched(y)' /\ ListFits(y)'
    BY <2>1 DEF InTouched, ListFits
  <2> QED
    BY <1>1, <1>2, <2>1, <2>2, ListingSteps DEF MirrorTypes
<1> QED
  BY <1>4, <1>5

LEMMA ElsewhereKeeps ==
  ASSUME NEW id \in Ids, MirrorInv, changes' \in Nat, Playlists!Elsewhere(id)
  PROVE  MirrorInv'
<1>1. /\ UNCHANGED <<mirror, current, queued, net>> /\ MirrorTypes /\ InTouched(id)
      /\ srv' = [srv EXCEPT ![id] = NoList] /\ doubt' = Playlists!Doubt(id, "row")
      /\ listing' = Playlists!Touched("delete", id)
  BY DEF Playlists!Elsewhere, MirrorInv
<1>2. /\ listing'.at = listing.at /\ listing'.list = listing.list
      /\ listing.touched \subseteq listing'.touched
      /\ listing.at \in {"sent", "done"} => <<id, "row">> \in listing'.touched
      /\ listing' = [at |-> listing'.at, list |-> listing'.list, touched |-> listing'.touched]
  BY <1>1 DEF Playlists!Touched, MirrorTypes, Playlists!Part, Playlists!ItemOps
<1>3. /\ doubt' \in [Ids -> Doubts] /\ doubt'[id] = "row"
      /\ \A y \in Ids : y # id => doubt'[y] = doubt[y]
  BY <1>1, DoubtIs
<1>4. srv' \in [Ids -> Playlists!OnServer \cup {NoList}] /\ \A y \in Ids : y # id => srv'[y] = srv[y]
  BY <1>1 DEF MirrorTypes
<1>5. MirrorTypes'
  BY <1>1, <1>2, <1>3, <1>4 DEF MirrorTypes, Playlists!Busy, Doubts
<1>6. InTouched(id)' /\ PlaylistInv(id)'
  BY <1>1, <1>2, <1>3 DEF InTouched, PlaylistInv, ListFits
<1>7. \A y \in Ids : Keeps(mirror, mirror', y) /\ SameCalls(net, net', y)
  BY <1>1 DEF Keeps, SameCalls
<1>8. current' # NoList => Playlists!Has(mirror', current')
  BY <1>1 DEF MirrorInv
<1> QED
  BY <1>2, <1>3, <1>4, <1>5, <1>6, <1>7, <1>8, OnePlaylistSteps

(* A list is shown: what nobody touched since is as the server has it.     *)
LEMMA ListedRowFits ==
  ASSUME NEW id \in Ids, NEW m, MirrorInv, listing.at = "done", <<id, "row">> \notin listing.touched,
         id \notin DOMAIN listing.list => NoRow(m, id),
         id \in DOMAIN listing.list =>
             OneRow(m, id, [id |-> id, name |-> listing.list[id], videos |-> Carried(mirror, id)]),
         NEW kind \in {"none", "items"},
         doubt[id] = kind \/ (doubt[id] = "row" /\ kind = "items" /\ <<id, "items">> \notin listing.touched)
  PROVE  Fits(m, net, id, srv[id], kind)
<1> DEFINE q == [id |-> id, name |-> listing.list[id], videos |-> Carried(mirror, id)]
           on == srv[id]
<1>1. InTouched(id) /\ PlaylistInv(id) /\ MirrorTypes
  BY DEF MirrorInv
<1>2. \A c \in Calls : CallOn(net, id, c) => <<id, Playlists!Part(net[c].op)>> \in listing.touched
  BY <1>1 DEF InTouched
<1>3. ItemsOnly(net, id)
  BY <1>2 DEF ItemsOnly, Playlists!Part
<1>4. doubt[id] = "row" => Quiet(net, id)
  BY <1>2, <1>3 DEF ItemsOnly, Playlists!Part, Quiet
<1>5. /\ id \in DOMAIN listing.list <=> on # NoList
      /\ id \in DOMAIN listing.list => listing.list[id] = on.name /\ listing.list[id] \in Names
  BY <1>1 DEF PlaylistInv, ListFits, MirrorTypes
<1>6. Carried(mirror, id) \in Seq(Items)
  BY RowShown DEF Carried, Playlists!Playlist
<1>7. id \in DOMAIN listing.list => q \in Playlists!Playlist /\ q.name = on.name
  BY <1>5, <1>6 DEF Playlists!Playlist
<1>8. q.videos = Carried(mirror, id)
  OBVIOUS
<1> HIDE DEF q
<1>9. CASE doubt[id] = kind
  <2>1. Fits(mirror, net, id, on, kind)
    BY <1>1, <1>9 DEF PlaylistInv
  <2>2. Settled(mirror, net, id, on, kind)
    BY <1>3, <2>1 DEF Fits
  <2>3. CASE on = NoList
    BY <1>5, <2>2, <2>3, QuietGone DEF Settled
  <2>4. CASE on # NoList
    <3>1. RowFits(mirror, net, id, on, kind, on.name)
      BY <2>2, <2>4 DEF Settled
    <3>2. PICK p \in Playlists!Playlist : /\ OneRow(mirror, id, p) /\ p.name = on.name
                                          /\ kind = "none" => VideosFit(net, id, on, p.videos)
      BY <3>1 DEF RowFits
    <3>3. Playlists!Has(mirror, id) /\ Playlists!Find(mirror, id) = p
      BY <1>1, <3>2, FindOne DEF MirrorTypes
    <3>4. kind = "none" => VideosFit(net, id, on, q.videos)
      BY <1>8, <3>2, <3>3 DEF Carried
    <3>5. q \in Playlists!Playlist /\ OneRow(m, id, q) /\ q.name = on.name
      BY <1>5, <1>7, <2>4 DEF q
    <3>6. \A c \in Calls : CallOn(net, id, c) /\ net[c].op = "add" /\ net[c].answer = "done" =>
                               net[c].name = on.name
      BY <2>1 DEF Fits, CallFits
    <3>7. Apart(net, id, kind)
      BY <2>1 DEF Fits
    <3> QED
      BY <1>3, <2>4, <3>4, <3>5, <3>6, <3>7, ItemsFit
  <2> QED
    BY <2>3, <2>4
<1>10. CASE doubt[id] = "row" /\ kind = "items"
  <2>1. CASE on = NoList
    BY <1>4, <1>5, <1>10, <2>1, QuietGone
  <2>2. CASE on # NoList
    <3>1. q \in Playlists!Playlist /\ OneRow(m, id, q) /\ q.name = on.name
      BY <1>5, <1>7, <2>2 DEF q
    <3> QED
      BY <1>4, <1>10, <2>2, <3>1, QuietRowFits
  <2> QED
    BY <2>1, <2>2
<1> QED
  BY <1>9, <1>10

LEMMA ListDoneKeeps ==
  ASSUME MirrorInv, UNCHANGED changes, Playlists!ListDone
  PROVE  MirrorInv'
<1>1. /\ mirror' = Playlists!ReconcileAll(listing.list) /\ current' = Playlists!OpenIn(mirror') /\ UNCHANGED <<net, srv>>
      /\ listing' \in {Playlists!NewListing, Playlists!IdleListing} /\ queued' = FALSE /\ listing.at = "done"
      /\ doubt' = [id \in Ids |-> IF doubt[id] = "unused" THEN "unused"
                                  ELSE IF <<id, "row">> \in listing.touched THEN "row"
                                  ELSE IF doubt[id] = "row" /\ <<id, "items">> \notin listing.touched
                                    THEN "items" ELSE doubt[id]]
  BY DEF Playlists!ListDone, Playlists!NextRefresh
<1>2. MirrorTypes
  BY DEF MirrorInv
<1>3. /\ mirror' \in Seq(Playlists!Playlist)
      /\ \A id \in Ids : id \notin DOMAIN listing.list => NoRow(mirror', id)
      /\ \A id \in DOMAIN listing.list :
           OneRow(mirror', id, [id |-> id, name |-> listing.list[id], videos |-> Carried(mirror, id)])
  BY <1>1, <1>2, ReconcileAllIs DEF MirrorTypes
<1>4. \A y \in Ids : InTouched(y)' /\ ListFits(y)'
  BY <1>1, NewListingIs DEF InTouched, ListFits, CallOn
<1>5. listing' = [at |-> listing'.at, list |-> listing'.list, touched |-> listing'.touched]
      /\ DOMAIN listing'.list = {}
  BY <1>1 DEF Playlists!NewListing, Playlists!IdleListing
<1>6. doubt' \in [Ids -> Doubts]
  BY <1>1, <1>2 DEF MirrorTypes, Doubts
<1>7. MirrorTypes'
  BY <1>1, <1>2, <1>3, <1>5, <1>6 DEF MirrorTypes, Playlists!Busy, Doubts
<1>8. current' # NoList => Playlists!Has(mirror', current')
  BY <1>1 DEF Playlists!OpenIn
<1>9. ASSUME NEW id \in Ids PROVE PlaylistInv(id)'
  <2>1. ASSUME doubt'[id] = "unused" PROVE Unused(id)'
    <3>1. doubt[id] = "unused"
      BY <1>1, <2>1
    <3>2. Unused(id)
      BY <3>1 DEF MirrorInv, PlaylistInv
    <3> QED
      BY <1>1, <1>3, <1>5, <3>2 DEF Unused, Quiet, CallOn
  <2>2. ASSUME doubt'[id] \in {"none", "items"}
        PROVE  Fits(mirror', net', id, srv'[id], doubt'[id])
    <3>1. /\ <<id, "row">> \notin listing.touched
          /\ doubt[id] = doubt'[id] \/
               (doubt[id] = "row" /\ doubt'[id] = "items" /\ <<id, "items">> \notin listing.touched)
      BY <1>1, <2>2
    <3>2. Fits(mirror', net, id, srv[id], doubt'[id])
      BY <1>1, <1>3, <2>2, <3>1, ListedRowFits
    <3> QED
      BY <1>1, <3>2
  <2> QED
    BY <1>4, <2>1, <2>2 DEF PlaylistInv
<1> QED
  BY <1>4, <1>7, <1>8, <1>9 DEF MirrorInv

LEMMA MirrorStarts ==
  ASSUME Playlists!MirrorInit
  PROVE  MirrorInv
<1>1. /\ mirror = <<>> /\ current = NoList /\ changes \in 0 .. MaxChanges
      /\ listing = Playlists!IdleListing /\ queued = FALSE
      /\ net = [c \in Calls |-> NoCall]
      /\ doubt \in [Ids -> {"unused", "row"}]
  BY DEF Playlists!MirrorInit
<1>2. PICK old \in SUBSET {id \in Ids : doubt[id] = "row"} : \E name \in [old -> Names] :
         srv = [id \in Ids |-> IF id \in old THEN [name |-> name[id], videos |-> {}] ELSE NoList]
  BY DEF Playlists!MirrorInit
<1>3. PICK name \in [old -> Names] :
         srv = [id \in Ids |-> IF id \in old THEN [name |-> name[id], videos |-> {}] ELSE NoList]
  BY <1>2
<1>4. srv \in [Ids -> Playlists!OnServer \cup {NoList}] /\ \A id \in Ids : doubt[id] = "unused" => srv[id] = NoList
  BY <1>3 DEF Playlists!OnServer
<1>5. listing.at = "idle" /\ DOMAIN listing.list = {}
      /\ listing = [at |-> listing.at, list |-> listing.list, touched |-> listing.touched]
  BY <1>1 DEF Playlists!IdleListing
<1>6. \A c \in Calls : ~ Playlists!Busy(c) /\ \A id \in Ids : ~ CallOn(net, id, c)
  BY <1>1 DEF Playlists!Busy, CallOn
<1>7. changes \in Nat
  BY <1>1, MirrorConstants
<1>8. MirrorTypes
  <2>1. <<>> \in Seq(Playlists!Playlist)
    OBVIOUS
  <2>2. mirror \in Seq(Playlists!Playlist) /\ queued \in BOOLEAN
    BY <1>1, <2>1, Zenon
  <2>3. net \in [Calls -> Playlists!Call \cup {NoCall}]
    BY <1>1
  <2>4. doubt \in [Ids -> {"unused", "none", "items", "row"}]
    BY <1>1
  <2>5. \A c \in Calls : Playlists!Busy(c) => CallTyped(net[c])
    BY <1>6
  <2>6. \A id \in DOMAIN listing.list : id \in Ids /\ listing.list[id] \in Names
    BY <1>5
  <2>7. listing = [at |-> listing.at, list |-> listing.list, touched |-> listing.touched]
    BY <1>5
  <2>8. srv \in [Ids -> Playlists!OnServer \cup {NoList}]
    BY <1>4
  <2> QED
    BY <1>7, <2>2, <2>3, <2>4, <2>5, <2>6, <2>7, <2>8 DEF MirrorTypes
<1>9. \A id \in Ids : InTouched(id) /\ ListFits(id)
  BY <1>5 DEF InTouched, ListFits
<1>10. ASSUME NEW id \in Ids, doubt[id] = "unused" PROVE Unused(id)
  BY <1>1, <1>4, <1>5, <1>6, <1>10 DEF Unused, Quiet, NoRow
<1> QED
  BY <1>1, <1>8, <1>9, <1>10 DEF MirrorInv, PlaylistInv

LEMMA MirrorSteps ==
  ASSUME MirrorInv, Playlists!MirrorNext
  PROVE  MirrorInv'
<1>1. changes \in Nat
  BY DEF MirrorInv, MirrorTypes
<1>2. CASE changes > 0 /\ changes' = changes - 1 /\ \E c \in Calls : Playlists!User(c)
  <2>1. PICK c \in Calls : Playlists!User(c)
    BY <1>2
  <2>2. changes' \in Nat
    BY <1>1, <1>2
  <2>3. PICK id \in Ids :
          \/ \E name \in NewNames : Playlists!Create(c, id, name)
          \/ \E name \in Names : Playlists!Rename(c, id, name)
          \/ Playlists!Delete(c, id)
          \/ \E v \in Items : Playlists!Add(c, id, v) \/ Playlists!Remove(c, id, v)
    BY <2>1 DEF Playlists!User
  <2> QED
    BY <2>2, <2>3, CreateKeeps, RenameKeeps, DeleteKeeps, AddKeeps, RemoveKeeps
<1>3. CASE changes > 0 /\ changes' = changes - 1 /\ \E id \in Ids : Playlists!Elsewhere(id)
  <2>1. changes' \in Nat
    BY <1>1, <1>3
  <2> QED
    BY <1>3, <2>1, ElsewhereKeeps
<1>4. CASE UNCHANGED changes /\ \E c \in Calls : Playlists!Serve(c) \/ Playlists!Deliver(c)
  <2>1. PICK c \in Calls : Playlists!Serve(c) \/ Playlists!Deliver(c)
    BY <1>4
  <2>2. CASE Playlists!Serve(c)
    BY <1>4, <2>2, ServeKeepsMirror
  <2>3. CASE Playlists!Deliver(c)
    BY <1>4, <2>3, CreateOrRenameDoneKeeps, CreateFailedKeeps, RenameFailedKeeps,
       DeleteFailedKeeps, AddDoneKeeps, AddFailedKeeps, RemoveFailedKeeps, IgnoredKeeps DEF Playlists!Deliver
  <2> QED
    BY <2>1, <2>2, <2>3
<1>5. CASE UNCHANGED changes /\ \/ \E id \in Ids : Playlists!Open(id)
                                \/ Playlists!Close \/ Playlists!Refresh \/ Playlists!ServeList \/ Playlists!ListDone \/ Playlists!ListFailed
  BY <1>5, OpenKeeps, CloseKeeps, RefreshKeeps, ServeListKeeps, ListDoneKeeps, ListFailedKeeps
<1> QED
  BY <1>2, <1>3, <1>4, <1>5 DEF Playlists!MirrorNext

LEMMA MirrorStutters ==
  ASSUME MirrorInv, UNCHANGED mirrorVars
  PROVE  MirrorInv'
<1>1. UNCHANGED <<mirror, current, listing, queued, net, srv, changes, doubt>>
  BY DEF mirrorVars
<1>2. MirrorTypes /\ queued \in BOOLEAN
  BY DEF MirrorInv, MirrorTypes
<1>3. \A y \in Ids : InTouched(y)' /\ ListFits(y)'
  BY <1>1 DEF MirrorInv, InTouched, PlaylistInv, ListFits
<1> QED
  BY <1>1, <1>2, <1>3, ListingSteps DEF MirrorTypes, MirrorInv

LEMMA MirrorInvInductive == MirrorInv /\ [Playlists!MirrorNext]_mirrorVars => MirrorInv'
BY MirrorSteps, MirrorStutters

(* Different videos, each the server's: as many are shown as it has.       *)
LEMMA CountedOnce ==
  ASSUME NEW vs \in Seq(Items), NEW S \in SUBSET Items, Separate(vs),
         \A v \in Items : ShownIn(vs, v) <=> v \in S
  PROVE  Cardinality(S) = Len(vs)
<1>1. Len(vs) \in Nat /\ DOMAIN vs = 1 .. Len(vs) /\ vs \in [1 .. Len(vs) -> Items]
  OBVIOUS
<1>2. vs \in [1 .. Len(vs) -> S]
  <2>1. \A i \in 1 .. Len(vs) : vs[i] \in S
    BY <1>1 DEF ShownIn
  <2> QED
    BY <1>1, <2>1
<1>3. vs \in Bijection(1 .. Len(vs), S)
  <2>1. vs \in Injection(1 .. Len(vs), S)
    BY <1>1, <1>2 DEF Separate, Injection, IsInjective
  <2>2. \A v \in S : \E i \in 1 .. Len(vs) : vs[i] = v
    BY <1>1 DEF ShownIn
  <2>3. vs \in Surjection(1 .. Len(vs), S)
    BY <1>2, <2>2 DEF Surjection
  <2> QED
    BY <2>1, <2>3 DEF Bijection
<1>4. ExistsBijection(1 .. Len(vs), S)
  BY <1>3 DEF ExistsBijection
<1> QED
  BY <1>1, <1>4, FS_CountingElements

LEMMA MirrorInvAgrees ==
  ASSUME MirrorInv
  PROVE  MirrorAgrees
<1>1. mirror \in Seq(Playlists!Playlist) /\ srv \in [Ids -> Playlists!OnServer \cup {NoList}]
  BY DEF MirrorInv, MirrorTypes
<1>2. ASSUME NEW id \in Ids, doubt[id] \in {"none", "items"},
             \A c \in Calls : Playlists!Busy(c) => net[c].id # id
      PROVE  /\ Playlists!Cardinality(Playlists!IndicesOf(mirror, id)) = IF srv[id] = NoList THEN 0 ELSE 1
             /\ \A i \in Playlists!IndicesOf(mirror, id), v \in Items :
                  /\ Playlists!SummariesForVideo(v)[i].name = srv[id].name
                  /\ doubt[id] = "none" =>
                       /\ Playlists!SummariesForVideo(v)[i].contains = (v \in srv[id].videos)
                       /\ Playlists!SummariesForVideo(v)[i].videoCount = Playlists!Cardinality(srv[id].videos)
  <2> DEFINE on == srv[id]
             rows == Playlists!IndicesOf(mirror, id)
  <2>1. Quiet(net, id)
    BY <1>2 DEF Quiet, CallOn, Playlists!Busy
  <2>2. Settled(mirror, net, id, on, doubt[id])
    BY <1>2, <2>1 DEF MirrorInv, PlaylistInv, Fits, ItemsOnly, Quiet
  <2>3. CASE on = NoList
    <3>1. rows = {}
      BY <2>2, <2>3 DEF Settled, NoRow, Playlists!IndicesOf
    <3>2. Playlists!Cardinality(rows) = 0
      BY <3>1, FS_EmptySet, MirrorCardinality
    <3> QED
      BY <2>3, <3>1, <3>2
  <2>4. CASE on # NoList
    <3>1. PICK p \in Playlists!Playlist : /\ OneRow(mirror, id, p) /\ p.name = on.name
                                          /\ doubt[id] = "none" => VideosFit(net, id, on, p.videos)
      BY <2>2, <2>4 DEF Settled, RowFits
    <3>2. rows = {Playlists!IndexOf(mirror, id)} /\ Playlists!Find(mirror, id) = p
      BY <1>1, <3>1, FindOne
    <3>3. Playlists!Cardinality(rows) = 1
      BY <3>2, FS_Singleton, MirrorCardinality
    <3>4. ASSUME NEW i \in rows, NEW v \in Items
          PROVE  /\ Playlists!SummariesForVideo(v)[i].name = on.name
                 /\ doubt[id] = "none" =>
                      /\ Playlists!SummariesForVideo(v)[i].contains = (v \in on.videos)
                      /\ Playlists!SummariesForVideo(v)[i].videoCount = Playlists!Cardinality(on.videos)
      <4>1. i \in DOMAIN mirror /\ mirror[i] = p
        BY <3>2, <3>4 DEF Playlists!IndicesOf, Playlists!Find
      <4>2. /\ Playlists!SummariesForVideo(v)[i].name = p.name
            /\ Playlists!SummariesForVideo(v)[i].videoCount = Len(p.videos)
            /\ Playlists!SummariesForVideo(v)[i].contains = ShownIn(p.videos, v)
        BY <4>1 DEF Playlists!SummariesForVideo, ShownIn
      <4>3. ASSUME doubt[id] = "none"
            PROVE  ShownIn(p.videos, v) = (v \in on.videos) /\ Len(p.videos) = Playlists!Cardinality(on.videos)
        <5>1. Plain(on, p.videos)
          BY <2>1, <3>1, <4>3, VideosArePlain DEF Quiet
        <5>2. on.videos \in SUBSET Items /\ p.videos \in Seq(Items)
          BY <1>1, <2>4 DEF Playlists!OnServer, Playlists!Playlist
        <5>3. Cardinality(on.videos) = Len(p.videos)
          BY <5>1, <5>2, CountedOnce DEF Plain
        <5>4. Playlists!Cardinality(on.videos) = Cardinality(on.videos)
          BY MirrorCardinality
        <5>5. ShownIn(p.videos, v) <=> v \in on.videos
          BY <5>1 DEF Plain
        <5>6. ShownIn(p.videos, v) \in BOOLEAN /\ (v \in on.videos) \in BOOLEAN
          BY DEF ShownIn
        <5> QED
          BY <5>3, <5>4, <5>5, <5>6
      <4> QED
        BY <3>1, <4>2, <4>3
    <3> QED
      BY <2>4, <3>3, <3>4
  <2> QED
    BY <2>3, <2>4
<1>3. current # NoList => Playlists!Has(mirror, current)
  BY DEF MirrorInv
<1> QED
  BY <1>2, <1>3 DEF MirrorAgrees, Playlists!MirrorAgrees

(* What the client shows of a playlist no call on which is under way is     *)
(* what the server has, but for what is left in doubt: one row, with its    *)
(* name, and its videos, each once; after any calls, answers, failures and  *)
(* refreshes, for any number of playlists, videos and calls.                *)
THEOREM MirrorShowsServer == Playlists!MirrorSpec => []MirrorAgrees
<1>1. Playlists!MirrorInit => MirrorInv
  BY MirrorStarts
<1>2. MirrorInv /\ [Playlists!MirrorNext]_(Playlists!mirrorVars) => MirrorInv'
  BY MirrorInvInductive DEF Playlists!mirrorVars, mirrorVars
<1> QED
  BY <1>1, <1>2, MirrorInvAgrees, PTL DEF Playlists!MirrorSpec
-------------------------------------------------------------------------------
(* The client.  A step of it is one of one part, and to each part that is  *)
(* a step of its own or none.                                              *)
LEMMA ClientSteps ==
  ASSUME [ClientNext]_clientVars
  PROVE  /\ [FeedNext]_feedVars
         /\ [Client!LoginNext]_loginVars
         /\ [Teardown!TeardownNext]_teardownVars
         /\ [Uploads!UploadNext]_uploadVars
         /\ [Playlists!MirrorNext]_mirrorVars
         /\ [Mpv!PlayerNext]_playerVars
BY DEF ClientNext, clientVars

(* The same two properties of the client as a whole: nothing another part  *)
(* does gets in their way.                                                 *)
THEOREM ClientHandlersAwait == ClientSpec => []HandlersAwait
<1>1. ClientInit => LoginInv
  BY LoginInitInv DEF ClientInit
<1>2. LoginInv /\ [ClientNext]_clientVars => LoginInv'
  BY LoginInvInductive, ClientSteps
<1>3. LoginInv => HandlersAwait
  BY DEF LoginInv
<1> QED
  BY <1>1, <1>2, <1>3, PTL DEF ClientSpec

(* ... and of the end of the player.                                       *)
THEOREM ClientTeardownSafe == ClientSpec => []TeardownSafe
<1>1. ClientInit => TeardownInv
  BY TeardownInitInv DEF ClientInit
<1>2. TeardownInv /\ [ClientNext]_clientVars => TeardownInv'
  BY TeardownInvInductive, ClientSteps
<1> QED
  BY <1>1, <1>2, TeardownInvSafe, PTL DEF ClientSpec

(* ... of the uploads.                                                     *)
THEOREM ClientStoredWasPicked == ClientSpec => []StoredWasPicked
<1>1. ClientInit => UploadInv
  BY UploadInitInv DEF ClientInit
<1>2. UploadInv /\ [ClientNext]_clientVars => UploadInv'
  BY UploadInvInductive, ClientSteps
<1>3. UploadInv => StoredWasPicked
  BY DEF UploadInv
<1> QED
  BY <1>1, <1>2, <1>3, PTL DEF ClientSpec

(* ... of the playlists.                                                   *)
THEOREM ClientMirrorAgrees == ClientSpec => []MirrorAgrees
<1>1. ClientInit => MirrorInv
  BY MirrorStarts DEF ClientInit
<1>2. MirrorInv /\ [ClientNext]_clientVars => MirrorInv'
  BY MirrorInvInductive, ClientSteps
<1> QED
  BY <1>1, <1>2, MirrorInvAgrees, PTL DEF ClientSpec
================================================================================
