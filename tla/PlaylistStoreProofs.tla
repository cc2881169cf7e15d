-------------------------- MODULE PlaylistStoreProofs --------------------------
(***************************************************************************)
(* Proofs about PlaylistStore, for every value of its constants.  As long  *)
(* as the requests that overlap on one playlist add or remove items        *)
(* (Overlap \subseteq ItemOps): the type invariant, the reservation of     *)
(* every name shown, and that the list shows no playlist that cannot be    *)
(* opened.  As long as they only add items (Overlap \subseteq {"add"}):    *)
(* that each item is in a playlist once, where the index says, and that a  *)
(* playlist nothing has hit agrees with itself.  Statements may fail and   *)
(* the server may stop anywhere.                                           *)
(***************************************************************************)
EXTENDS PlaylistStore, SequenceTheorems, FiniteSetTheorems, NaturalsInduction, WellFoundedInduction, TLAPS

-------------------------------------------------------------------------------
(* The covers an item leaves behind are videos.                            *)

LEMMA RemoveAtType ==
  ASSUME NEW s \in Seq(Videos), NEW i \in 1 .. Len(s)
  PROVE  RemoveAt(s, i) \in Seq(Videos)
<1>1. SubSeq(s, 1, i - 1) \in Seq(Videos)
  BY SubSeqProperties, \A j \in 1 .. i - 1 : s[j] \in Videos
<1>2. SubSeq(s, i + 1, Len(s)) \in Seq(Videos)
  BY SubSeqProperties
<1> QED
  BY <1>1, <1>2 DEF RemoveAt

(* A nonempty set of numbers has a least element.                          *)
LEMMA LeastIndex ==
  ASSUME NEW I \in SUBSET Nat, I # {}
  PROVE  \E k \in I : \A m \in I : k <= m
<1>1. PICK k \in I : \A m \in I : ~ (<<m, k>> \in OpToRel(<, Nat))
  BY NatLessThanWellFounded, WFMin
<1>2. ASSUME NEW m \in I PROVE k <= m
  <2>1. m \in Nat /\ k \in Nat
    OBVIOUS
  <2>2. <<m, k>> \in OpToRel(<, Nat) <=> m < k
    BY <2>1 DEF OpToRel
  <2>3. ~ (m < k)
    BY <1>1, <2>2
  <2> QED
    BY <2>1, <2>3
<1> QED
  BY <1>2

LEMMA RemoveFirstType ==
  ASSUME NEW s \in Seq(Videos), NEW v
  PROVE  RemoveFirst(s, v) \in Seq(Videos)
<1> DEFINE I == {i \in 1 .. Len(s) : s[i] = v}
<1>1. CASE I = {}
  BY <1>1 DEF RemoveFirst
<1>2. CASE I # {}
  <2>1. I \in SUBSET Nat
    OBVIOUS
  <2>2. PICK k \in I : \A m \in I : k <= m
    BY <1>2, <2>1, LeastIndex
  <2>3. (CHOOSE x \in I : \A y \in I : x <= y) \in I
    BY <2>2
  <2>4. RemoveFirst(s, v) = RemoveAt(s, CHOOSE x \in I : \A y \in I : x <= y)
    BY <1>2 DEF RemoveFirst, SelectInSeq, Min
  <2> QED
    BY <2>3, <2>4, RemoveAtType
<1> QED
  BY <1>1, <1>2

LEMMA CoversWithType ==
  ASSUME NEW c \in Seq(Videos), NEW v \in Videos
  PROVE  CoversWith(c, v) \in Seq(Videos)
<1> DEFINE all == IF v \in Thumbnailed THEN <<v>> \o RemoveFirst(c, v) ELSE c
           k == IF Len(all) < MaxCovers THEN Len(all) ELSE MaxCovers
<1>1. all \in Seq(Videos)
  BY RemoveFirstType
<1>2. k \in Int /\ k <= Len(all)
  BY <1>1, LimitsAssumption
<1>3. \A i \in 1 .. k : all[i] \in Videos
  BY <1>1, <1>2
<1>4. SubSeq(all, 1, k) \in Seq(Videos)
  BY <1>2, <1>3, SubSeqProperties
<1> QED
  BY <1>4 DEF CoversWith

LEMMA CoversOfType ==
  ASSUME NEW S, NEW c \in CoversOf(S)
  PROVE  c \in Seq(Videos)
<1>1. c \in SeqOf(Videos, MaxCovers)
  BY DEF CoversOf
<1> QED
  BY <1>1, LimitsAssumption DEF SeqOf

-------------------------------------------------------------------------------
(* The inductive invariant.                                                *)

(* The playlist a request is about is its user's.                          *)
Owns(q, d) == d.byId[q.pl] # NoRow /\ d.byId[q.pl].user = q.user
Holds(q, n, d) == d.names[<<q.user, Fold[n]>>] = q.pl

(* What a handler relies on before each of its statements.                 *)
CreateOK(q, d) ==
    /\ q.arg \in Names
    /\ q.at \in {"count", "reserve", "insertById", "insertByUser"}
    /\ q.at # "insertByUser" => d.byId[q.pl] = NoRow
    /\ q.at \in {"insertById", "insertByUser"} => Holds(q, q.arg, d)
    /\ q.at = "insertByUser" => d.byId[q.pl] = NewRow(q)

RenameOK(q, d) ==
    /\ q.arg \in Names /\ q.meta \in Row /\ q.meta.name \in Names
    /\ q.at \in {"reserve", "nameById", "nameByUser", "release"}
    /\ Owns(q, d)
    /\ Holds(q, q.meta.name, d)
    /\ q.at # "reserve" => Holds(q, q.arg, d)
    /\ q.at \in {"nameByUser", "release"} => d.byId[q.pl].name = q.arg
    /\ q.at = "release" =>
         /\ d.byUser[<<q.user, q.pl>>] # NoRow /\ d.byUser[<<q.user, q.pl>>].name = q.arg
         /\ Fold[q.meta.name] # Fold[q.arg]

DeleteOK(q, d) ==
    /\ q.meta \in Row /\ q.meta.name \in Names
    /\ q.at \in {"dropByUser", "dropById", "release", "readMembers", "purge", "dropItems"}
    /\ q.at \in {"dropByUser", "dropById"} => Owns(q, d)
    /\ q.at \in {"dropByUser", "dropById", "release"} => Holds(q, q.meta.name, d)
    /\ q.at = "dropById" => d.byUser[<<q.user, q.pl>>] = NoRow
    /\ q.at = "release" => d.byId[q.pl] = NoRow

ItemOK(q, d) ==
    /\ q.arg \in Videos /\ q.meta \in Row
    /\ q.at \in {"lookup", "existing", "member", "insertItem", "dropItem", "dropMember",
                  "covers", "countById", "countByUser"}
    /\ Owns(q, d)

HandlerOK(q, d) ==
    \/ q = Idle
    \/ /\ q \in Request
       /\ q.op = "create" => CreateOK(q, d)
       /\ q.op = "rename" => RenameOK(q, d)
       /\ q.op = "delete" => DeleteOK(q, d)
       /\ q.op \in {"add", "remove"} => ItemOK(q, d)

(* What is always so of the rows of one playlist.                          *)
PlaylistOK(d, p) ==
    /\ d.byId[p] # NoRow =>
         /\ d.byId[p].user \in Users /\ d.byId[p].name \in Names
         /\ d.names[<<d.byId[p].user, Fold[d.byId[p].name]>>] = p
    /\ \A u \in Users : d.byUser[<<u, p>>] # NoRow =>
         /\ d.byId[p] # NoRow /\ d.byId[p].user = u
         /\ d.byUser[<<u, p>>].name # NoName =>
              d.names[<<u, Fold[d.byUser[<<u, p>>].name]>>] = p

(* Only adds and removals overlap on a playlist.                           *)
ItemOps == {"add", "remove"}
Alone ==
    \A r, s \in Slots : r # s /\ req[r].pl = req[s].pl /\ req[r].pl # NoPlaylist
                          => {req[r].op, req[s].op} \subseteq ItemOps

Inv ==
    /\ TypeOK
    /\ \A p \in Playlists : PlaylistOK(db, p)
    /\ \A r \in Slots : HandlerOK(req[r], db)
    /\ Alone

(* The tables d and e differ only in what belongs to playlist p.           *)
LocalTo(p, d, e) ==
    /\ \A p2 \in Playlists \ {p} : e.byId[p2] = d.byId[p2]
    /\ \A u \in Users, p2 \in Playlists \ {p} : e.byUser[<<u, p2>>] = d.byUser[<<u, p2>>]
    /\ \A k \in Users \X Folded : d.names[k] \in Playlists \ {p} => e.names[k] = d.names[k]

LEMMA HandlerFrame ==
  ASSUME NEW d \in Tables, NEW e \in Tables, NEW p, NEW q,
         LocalTo(p, d, e), HandlerOK(q, d), q.pl # p
  PROVE  HandlerOK(q, e)
<1>1. CASE q = Idle
  BY <1>1 DEF HandlerOK
<1>2. CASE q # Idle
  <2>1. q \in Request /\ q.pl \in Playlists \ {p} /\ q.user \in Users
    BY <1>2 DEF HandlerOK, Request
  <2>2. e.byId[q.pl] = d.byId[q.pl] /\ e.byUser[<<q.user, q.pl>>] = d.byUser[<<q.user, q.pl>>]
    BY <2>1 DEF LocalTo
  <2>3. \A n \in Names : Holds(q, n, d) => Holds(q, n, e)
    BY <2>1 DEF LocalTo, Holds, Folded
  <2>4. Owns(q, d) => Owns(q, e)
    BY <2>2 DEF Owns
  <2>5. q.op = "create" => CreateOK(q, e)
    BY <1>2, <2>2, <2>3 DEF HandlerOK, CreateOK
  <2>6. q.op = "rename" => RenameOK(q, e)
    BY <1>2, <2>2, <2>3, <2>4 DEF HandlerOK, RenameOK
  <2>7. q.op = "delete" => DeleteOK(q, e)
    BY <1>2, <2>2, <2>3, <2>4 DEF HandlerOK, DeleteOK
  <2>8. q.op \in {"add", "remove"} => ItemOK(q, e)
    BY <1>2, <2>4 DEF HandlerOK, ItemOK
  <2> QED
    BY <2>1, <2>5, <2>6, <2>7, <2>8 DEF HandlerOK
<1> QED
  BY <1>1, <1>2

LEMMA PlaylistFrame ==
  ASSUME NEW d \in Tables, NEW e \in Tables, NEW p, NEW p2 \in Playlists \ {p},
         LocalTo(p, d, e), PlaylistOK(d, p2)
  PROVE  PlaylistOK(e, p2)
<1>1. e.byId[p2] = d.byId[p2] /\ \A u \in Users : e.byUser[<<u, p2>>] = d.byUser[<<u, p2>>]
  BY DEF LocalTo
<1>2. \A u \in Users, n \in Names :
        d.names[<<u, Fold[n]>>] = p2 => e.names[<<u, Fold[n]>>] = p2
  BY DEF LocalTo, Folded
<1>3. \A u \in Users : d.byUser[<<u, p2>>] # NoRow => d.byUser[<<u, p2>>] \in Row
  BY DEF Tables
<1>4. \A u \in Users : d.byUser[<<u, p2>>] # NoRow /\ d.byUser[<<u, p2>>].name # NoName
        => d.byUser[<<u, p2>>].name \in Names
  BY <1>3 DEF Row
<1>5. d.byId[p2] # NoRow =>
        /\ d.byId[p2].user \in Users /\ d.byId[p2].name \in Names
        /\ e.names[<<d.byId[p2].user, Fold[d.byId[p2].name]>>] = p2
  BY <1>2 DEF PlaylistOK
<1>6. ASSUME NEW u \in Users, d.byUser[<<u, p2>>] # NoRow
      PROVE  /\ d.byId[p2] # NoRow /\ d.byId[p2].user = u
             /\ d.byUser[<<u, p2>>].name # NoName =>
                  e.names[<<u, Fold[d.byUser[<<u, p2>>].name]>>] = p2
  BY <1>2, <1>4, <1>6 DEF PlaylistOK
<1> QED
  BY <1>1, <1>5, <1>6 DEF PlaylistOK

-------------------------------------------------------------------------------
(* Steps, of any handler.                                                  *)

(* The request q goes on as t, or ends.                                    *)
GoesOn(q, t) == t = Idle \/ (t.pl = q.pl /\ t.op = q.op)

LEMMA SameTables ==
  ASSUME NEW p, NEW d
  PROVE  LocalTo(p, d, d)
BY DEF LocalTo

LEMMA ServedOK ==
  ASSUME Inv, NEW r \in Slots, req[r].at # "idle"
  PROVE  /\ req[r] \in Request /\ HandlerOK(req[r], db)
         /\ req[r].pl \in Playlists /\ req[r].user \in Users
         /\ req[r].op \in {"create", "rename", "delete", "add", "remove"}
         /\ PlaylistOK(db, req[r].pl)
<1>1. HandlerOK(req[r], db) /\ req[r] # Idle
  BY DEF Inv, Idle
<1>2. req[r] \in Request
  BY <1>1 DEF HandlerOK
<1>3. req[r].pl \in Playlists /\ req[r].user \in Users /\ req[r].op \in Ops
  BY <1>2 DEF Request
<1> QED
  BY <1>1, <1>2, <1>3, LimitsAssumption DEF Inv

(* Idle is always fine.                                                    *)
LEMMA IdleOK ==
    /\ \A d : HandlerOK(Idle, d) /\ Idle.pl = NoPlaylist /\ Idle.at = "idle"
    /\ \A q : GoesOn(q, Idle)
BY DEF HandlerOK, GoesOn, Idle

(* The request in slot r takes a step, and becomes q.                      *)
LEMMA Moves ==
  ASSUME Inv, NEW r \in Slots, req[r].at # "idle", NEW q,
         db' \in Tables, LocalTo(req[r].pl, db, db'), PlaylistOK(db', req[r].pl),
         req' = [req EXCEPT ![r] = q], HandlerOK(q, db'), GoesOn(req[r], q),
         req[r].op \in ItemOps => Owns(req[r], db'),
         now' \in Nat, hit' \in [Playlists -> SUBSET {"fault", "overlap"}]
  PROVE  Inv'
<1> DEFINE p == req[r].pl
<1>1. p \in Playlists /\ p # NoPlaylist
  BY ServedOK, NullAssumption
<1>2. db \in Tables /\ req \in [Slots -> Request \cup {Idle}]
  BY DEF Inv, TypeOK
<1>3. q \in Request \cup {Idle}
  BY DEF HandlerOK
<1>4. TypeOK'
  BY <1>2, <1>3 DEF TypeOK
<1>5. \A p2 \in Playlists : PlaylistOK(db, p2)'
  BY <1>2, PlaylistFrame DEF Inv
<1>6. ASSUME NEW s \in Slots PROVE HandlerOK(req[s], db)'
  <2>1. CASE s = r
    BY <1>2, <2>1
  <2>2. CASE s # r
    <3>1. req'[s] = req[s] /\ HandlerOK(req[s], db)
      BY <1>2, <2>2 DEF Inv
    <3>2. CASE req[s].pl # p
      BY <1>2, <3>1, <3>2, HandlerFrame
    <3>3. CASE req[s].pl = p
      <4>1. req[r].op \in ItemOps /\ req[s].op \in ItemOps
        BY <1>1, <2>2, <3>3 DEF Inv, Alone
      <4>2. req[s] # Idle /\ req[s] \in Request /\ ItemOK(req[s], db)
        BY <3>1, <4>1 DEF HandlerOK, ItemOps, Idle
      <4>3. req[r] # Idle /\ ItemOK(req[r], db)
        BY <4>1, ServedOK DEF HandlerOK, ItemOps, Idle
      <4>4. Owns(req[s], db')
        BY <3>3, <4>1, <4>2, <4>3 DEF ItemOK, Owns
      <4>5. ItemOK(req[s], db')
        BY <4>2, <4>4 DEF ItemOK
      <4> QED
        BY <3>1, <4>1, <4>2, <4>5 DEF HandlerOK, ItemOps
    <3> QED
      BY <3>2, <3>3
  <2> QED
    BY <2>1, <2>2
<1>7. Alone'
  <2> SUFFICES ASSUME NEW s1 \in Slots, NEW s2 \in Slots, s1 # s2,
                      req'[s1].pl = req'[s2].pl, req'[s1].pl # NoPlaylist
               PROVE  {req'[s1].op, req'[s2].op} \subseteq ItemOps
    BY DEF Alone
  <2>1. \A s \in Slots : req'[s].pl # NoPlaylist =>
          req'[s].pl = req[s].pl /\ req'[s].op = req[s].op
    BY <1>2, IdleOK DEF GoesOn
  <2> QED
    BY <2>1 DEF Inv, Alone
<1> QED
  BY <1>4, <1>5, <1>6, <1>7 DEF Inv

LEMMA ReadsStep ==
  ASSUME Inv, NEW r \in Slots, req[r].at # "idle", NEW q,
         Reads(r, q), HandlerOK(q, db), GoesOn(req[r], q)
  PROVE  Inv'
<1>1. db' = db /\ now' = now /\ hit' = hit /\ req' = [req EXCEPT ![r] = q]
  BY DEF Reads
<1>2. TypeOK
  BY DEF Inv
<1>3. req[r].op \in ItemOps => Owns(req[r], db)
  BY ServedOK DEF HandlerOK, ItemOK, ItemOps, Idle
<1> QED
  BY <1>1, <1>2, <1>3, Moves, ServedOK, SameTables DEF TypeOK

LEMMA WritesStep ==
  ASSUME Inv, NEW r \in Slots, req[r].at # "idle", NEW d, NEW q, NEW c,
         d \in Tables, LocalTo(req[r].pl, db, d), PlaylistOK(d, req[r].pl),
         HandlerOK(q, d), HandlerOK(c, d), HandlerOK(c, db),
         GoesOn(req[r], q), GoesOn(req[r], c), req[r].op \in ItemOps => Owns(req[r], d),
         Writes(r, d, q, c)
  PROVE  Inv'
<1>1. TypeOK
  BY DEF Inv
<1>2. req[r].op \in ItemOps => Owns(req[r], db)
  BY ServedOK DEF HandlerOK, ItemOK, ItemOps, Idle
<1>3. CASE db' = d /\ req' = [req EXCEPT ![r] = q] /\ UNCHANGED <<now, hit>>
  BY <1>1, <1>3, Moves DEF TypeOK
<1>4. ASSUME db' \in {db, d}, req' = [req EXCEPT ![r] = c], now' = now,
             hit' = [hit EXCEPT ![req[r].pl] = @ \cup {"fault"}]
      PROVE  Inv'
  <2>1. hit' \in [Playlists -> SUBSET {"fault", "overlap"}]
    BY <1>1, <1>4, ServedOK DEF TypeOK
  <2>2. CASE db' = d
    BY <1>1, <1>4, <2>1, <2>2, Moves DEF TypeOK
  <2>3. CASE db' = db
    BY <1>1, <1>4, <1>2, <2>1, <2>3, Moves, ServedOK, SameTables DEF TypeOK
  <2> QED
    BY <1>4, <2>2, <2>3
<1> QED
  BY <1>3, <1>4 DEF Writes

(* A request arrives, for a playlist on which nothing else is done, except *)
(* that items may be added or removed by several requests.                 *)
LEMMA ArrivesStep ==
  ASSUME Inv, Overlap \subseteq ItemOps, NEW r \in Slots, NEW q,
         Arrives(r, q), HandlerOK(q, db), q \in Request, UNCHANGED now
  PROVE  Inv'
<1>1. \A s \in Slots : req[s].pl = q.pl => {q.op, req[s].op} \subseteq ItemOps
  BY DEF Arrives
<1>2. q.pl \in Playlists /\ TypeOK
  BY DEF Inv, Request
<1>3. db' = db /\ req' = [req EXCEPT ![r] = q]
  BY DEF Arrives
<1>4. hit' \in [Playlists -> SUBSET {"fault", "overlap"}]
  BY <1>2 DEF Arrives, TypeOK
<1>5. TypeOK'
  BY <1>2, <1>3, <1>4 DEF TypeOK
<1>6. \A s \in Slots : HandlerOK(req[s], db)'
  BY <1>2, <1>3 DEF Inv, TypeOK
<1>7. Alone'
  BY <1>1, <1>2, <1>3 DEF Inv, TypeOK, Alone
<1> QED
  BY <1>3, <1>5, <1>6, <1>7 DEF Inv

(* The name a playlist has is reserved for it.                             *)
LEMMA OwnerHolds ==
  ASSUME NEW d \in Tables, NEW q \in Request, PlaylistOK(d, q.pl), Owns(q, d)
  PROVE  /\ d.byId[q.pl] \in Row /\ d.byId[q.pl].name \in Names
         /\ Holds(q, d.byId[q.pl].name, d)
BY DEF PlaylistOK, Owns, Holds, Tables, Request

-------------------------------------------------------------------------------
(* Arrivals.                                                               *)

LEMMA CreateStep ==
  ASSUME Inv, Overlap \subseteq ItemOps, NEW r \in Slots, NEW u \in Users, NEW p \in Playlists,
         NEW n \in Names, Create(r, u, p, n)
  PROVE  Inv'
<1> DEFINE q == Asked("create", "count", u, p, n)
<1>1. q = [op |-> "create", at |-> "count", user |-> u, pl |-> p, arg |-> n,
           meta |-> NoRow, stamp |-> 0, todo |-> {}]
  BY DEF Create, Asked
<1>2. q \in Request
  BY <1>1 DEF Create, Arrives, Request, Steps
<1>3. HandlerOK(q, db)
  BY <1>1, <1>2 DEF Create, HandlerOK, CreateOK
<1> QED
  BY <1>2, <1>3, ArrivesStep DEF Create

LEMMA RenameStep ==
  ASSUME Inv, Overlap \subseteq ItemOps, NEW r \in Slots, NEW u \in Users, NEW p \in Playlists,
         NEW n \in Names, Rename(r, u, p, n)
  PROVE  Inv'
<1> DEFINE step == IF Fold[db.byId[p].name] = Fold[n] THEN "nameById" ELSE "reserve"
           q == Asked("rename", step, u, p, n)
<1>1. q = [op |-> "rename", at |-> step, user |-> u, pl |-> p, arg |-> n,
           meta |-> db.byId[p], stamp |-> 0, todo |-> {}]
  BY DEF Asked
<1>2. db \in Tables /\ PlaylistOK(db, p)
  BY DEF Inv, TypeOK
<1>3. db.byId[p] \in Row
  BY <1>2 DEF Rename, Mine, Tables
<1>4. q \in Request
  <2>1. "rename" \in Ops
    BY <1>1 DEF Rename, Arrives, Asked
  <2>2. step \in {"nameById", "reserve"}
    OBVIOUS
  <2> HIDE DEF step
  <2> QED
    BY <1>1, <1>3, <2>1, <2>2 DEF Request, Steps
<1>5. Owns(q, db)
  BY <1>1 DEF Rename, Mine, Owns
<1>6. db.byId[p].name \in Names /\ Holds(q, db.byId[p].name, db)
  BY <1>1, <1>2, <1>4, <1>5, OwnerHolds
<1>7. step = "reserve" \/ Holds(q, n, db)
  BY <1>6 DEF Holds
<1>8. RenameOK(q, db)
  <2>1. step \in {"reserve", "nameById"}
    OBVIOUS
  <2> HIDE DEF step
  <2> QED
    BY <1>1, <1>3, <1>5, <1>6, <1>7, <2>1 DEF RenameOK
<1>9. HandlerOK(q, db)
  BY <1>1, <1>4, <1>8 DEF HandlerOK
<1> QED
  BY <1>4, <1>9, ArrivesStep DEF Rename

LEMMA DeleteStep ==
  ASSUME Inv, Overlap \subseteq ItemOps, NEW r \in Slots, NEW u \in Users, NEW p \in Playlists,
         Delete(r, u, p)
  PROVE  Inv'
<1> DEFINE q == Asked("delete", "dropByUser", u, p, NoName)
<1>1. q = [op |-> "delete", at |-> "dropByUser", user |-> u, pl |-> p, arg |-> NoName,
           meta |-> db.byId[p], stamp |-> 0, todo |-> {}]
  BY DEF Asked
<1>2. db \in Tables /\ PlaylistOK(db, p)
  BY DEF Inv, TypeOK
<1>3. db.byId[p] \in Row
  BY <1>2 DEF Delete, Mine, Tables
<1>4. q \in Request
  BY <1>1, <1>3 DEF Delete, Arrives, Request, Steps
<1>5. Owns(q, db)
  BY <1>1 DEF Delete, Mine, Owns
<1>6. db.byId[p].name \in Names /\ Holds(q, db.byId[p].name, db)
  BY <1>1, <1>2, <1>4, <1>5, OwnerHolds
<1>7. HandlerOK(q, db)
  BY <1>1, <1>3, <1>4, <1>5, <1>6 DEF HandlerOK, DeleteOK
<1> QED
  BY <1>4, <1>7, ArrivesStep DEF Delete

(* AddItem and RemoveItem.                                                 *)
LEMMA ItemStep ==
  ASSUME Inv, Overlap \subseteq ItemOps, NEW r \in Slots, NEW u \in Users, NEW p \in Playlists,
         NEW v \in Videos, AddItem(r, u, p, v) \/ RemoveItem(r, u, p, v)
  PROVE  Inv'
<1> SUFFICES ASSUME NEW op \in {"add", "remove"}, Mine(u, p), UNCHANGED now,
                    Arrives(r, Asked(op, "lookup", u, p, v))
             PROVE  Inv'
  BY DEF AddItem, RemoveItem
<1> DEFINE q == Asked(op, "lookup", u, p, v)
<1>1. q = [op |-> op, at |-> "lookup", user |-> u, pl |-> p, arg |-> v,
           meta |-> db.byId[p], stamp |-> 0, todo |-> {}]
  BY DEF Asked
<1>2. db \in Tables
  BY DEF Inv, TypeOK
<1>3. db.byId[p] \in Row
  BY <1>2 DEF Mine, Tables
<1>4. q \in Request
  BY <1>1, <1>3 DEF Arrives, Request, Steps
<1>5. Owns(q, db)
  BY <1>1 DEF Mine, Owns
<1>6. HandlerOK(q, db)
  BY <1>1, <1>3, <1>4, <1>5 DEF HandlerOK, ItemOK
<1> QED
  BY <1>4, <1>6, ArrivesStep

-------------------------------------------------------------------------------
(* The statements of create and rename.                                    *)

LEMMA CountStep ==
  ASSUME Inv, NEW r \in Slots, CountPlaylists(r)
  PROVE  Inv'
<1> DEFINE q == req[r]
           t == To(r, "reserve")
<1>1. /\ q.at = "count" /\ q \in Request /\ HandlerOK(q, db)
      /\ q.op \in {"create", "rename", "delete", "add", "remove"}
  BY ServedOK DEF CountPlaylists, At
<1>2. q.op = "create" /\ CreateOK(q, db)
  BY <1>1, IdleOK DEF HandlerOK, RenameOK, DeleteOK, ItemOK
<1>3. t \in Request /\ t.at = "reserve" /\ t.op = q.op /\ t.user = q.user /\ t.pl = q.pl
        /\ t.arg = q.arg
  BY <1>1 DEF To, Request, Steps
<1>4. HandlerOK(t, db)
  BY <1>1, <1>2, <1>3 DEF HandlerOK, CreateOK
<1>on. GoesOn(q, t)
  BY <1>3 DEF GoesOn
<1> QED
  BY <1>on, <1>1, <1>3, <1>4, IdleOK, ReadsStep DEF CountPlaylists

LEMMA ReserveStep ==
  ASSUME Inv, NEW r \in Slots, Reserve(r)
  PROVE  Inv'
<1> DEFINE q == req[r]
           k == <<q.user, Fold[q.arg]>>
           d == [db EXCEPT !.names[k] = q.pl]
           step == IF q.op = "create" THEN "insertById" ELSE "nameById"
           t == To(r, step)
<1>1. /\ q.at = "reserve" /\ q \in Request /\ HandlerOK(q, db) /\ q.pl \in Playlists
      /\ q.user \in Users /\ PlaylistOK(db, q.pl) /\ db \in Tables
      /\ q.op \in {"create", "rename", "delete", "add", "remove"}
  BY ServedOK DEF Reserve, At, Inv, TypeOK
<1>2. \/ q.op = "create" /\ CreateOK(q, db)
      \/ q.op = "rename" /\ RenameOK(q, db)
  BY <1>1, IdleOK DEF HandlerOK, DeleteOK, ItemOK
<1>3. q.arg \in Names /\ k \in Users \X Folded
  BY <1>1, <1>2 DEF CreateOK, RenameOK, Folded
<1>4. CASE ~ Free(k)
  BY <1>1, <1>4, IdleOK, ReadsStep DEF Reserve
<1>5. CASE Free(k)
  <2>1. Writes(r, d, t, Idle)
    BY <1>5 DEF Reserve, Failed
  <2>2. /\ d \in Tables /\ d.byId = db.byId /\ d.byUser = db.byUser
        /\ d.names = [db.names EXCEPT ![k] = q.pl]
    BY <1>1, <1>3 DEF Tables
  <2>3. \A j \in Users \X Folded : db.names[j] \in Playlists => d.names[j] = db.names[j]
    BY <1>1, <1>3, <1>5, <2>2, NullAssumption DEF Free, Tables
  <2>4. LocalTo(q.pl, db, d)
    BY <2>2, <2>3 DEF LocalTo
  <2>5. d.names[k] = q.pl
    BY <1>1, <1>3, <2>2 DEF Tables
  <2>6. PlaylistOK(d, q.pl)
    <3>1. \A u \in Users, n \in Names :
            db.names[<<u, Fold[n]>>] = q.pl => d.names[<<u, Fold[n]>>] = q.pl
      BY <1>1, <2>3 DEF Folded
    <3>2. \A u \in Users : db.byUser[<<u, q.pl>>] # NoRow =>
            db.byUser[<<u, q.pl>>].name \in Names \cup {NoName}
      BY <1>1 DEF Tables, Row
    <3>3. d.byId[q.pl] # NoRow =>
            /\ d.byId[q.pl].user \in Users /\ d.byId[q.pl].name \in Names
            /\ d.names[<<d.byId[q.pl].user, Fold[d.byId[q.pl].name]>>] = q.pl
      <4> SUFFICES ASSUME d.byId[q.pl] # NoRow
                   PROVE  /\ d.byId[q.pl].user \in Users /\ d.byId[q.pl].name \in Names
                          /\ d.names[<<d.byId[q.pl].user, Fold[d.byId[q.pl].name]>>] = q.pl
        OBVIOUS
      <4> DEFINE row == db.byId[q.pl]
      <4>1. d.byId[q.pl] = row
        BY <2>2
      <4> HIDE DEF d
      <4>2. row.user \in Users /\ row.name \in Names /\ db.names[<<row.user, Fold[row.name]>>] = q.pl
        BY <1>1, <4>1 DEF PlaylistOK
      <4> QED
        BY <3>1, <4>1, <4>2
    <3>4. ASSUME NEW u \in Users, d.byUser[<<u, q.pl>>] # NoRow
          PROVE  /\ d.byId[q.pl] # NoRow /\ d.byId[q.pl].user = u
                 /\ d.byUser[<<u, q.pl>>].name # NoName =>
                      d.names[<<u, Fold[d.byUser[<<u, q.pl>>].name]>>] = q.pl
      <4> DEFINE row == db.byUser[<<u, q.pl>>]
      <4>1. d.byUser[<<u, q.pl>>] = row /\ d.byId[q.pl] = db.byId[q.pl] /\ row # NoRow
        BY <2>2, <3>4
      <4> HIDE DEF d
      <4>2. /\ db.byId[q.pl] # NoRow /\ db.byId[q.pl].user = u
            /\ row.name # NoName => db.names[<<u, Fold[row.name]>>] = q.pl
        BY <1>1, <4>1 DEF PlaylistOK
      <4>3. row.name \in Names \cup {NoName}
        BY <3>2, <4>1
      <4> QED
        BY <3>1, <4>1, <4>2, <4>3
    <3> QED
      BY <3>3, <3>4 DEF PlaylistOK
  <2>7. /\ t \in Request /\ t.at = step /\ t.op = q.op /\ t.user = q.user /\ t.pl = q.pl
        /\ t.arg = q.arg /\ t.meta = q.meta
    BY <1>1 DEF To, Request, Steps
  <2>8. ASSUME q.op = "create", CreateOK(q, db) PROVE HandlerOK(t, d)
    BY <1>1, <2>2, <2>5, <2>7, <2>8 DEF HandlerOK, CreateOK, Holds
  <2>9. ASSUME q.op = "rename", RenameOK(q, db) PROVE HandlerOK(t, d)
    <3>1. Holds(q, q.meta.name, d)
      BY <1>1, <2>3, <2>9 DEF RenameOK, Holds, Folded
    <3> QED
      BY <1>1, <2>2, <2>5, <2>7, <2>9, <3>1 DEF HandlerOK, RenameOK, Holds, Owns
  <2>on. q.op \notin ItemOps /\ GoesOn(q, t)
    BY <1>2, <2>7 DEF GoesOn, ItemOps
  <2> QED
    BY <2>on, <1>1, <1>2, <2>1, <2>2, <2>4, <2>6, <2>7, <2>8, <2>9, IdleOK, WritesStep
<1> QED
  BY <1>4, <1>5

(* The row of a playlist is written, and its names are left alone.         *)
WithById(d, p, row) == [d EXCEPT !.byId[p] = row]
WithByUser(d, u, p, row) == [d EXCEPT !.byUser[<<u, p>>] = row]

LEMMA ByIdWrite ==
  ASSUME NEW d \in Tables, NEW p \in Playlists, NEW row \in Row, PlaylistOK(d, p),
         row.user \in Users, row.name \in Names,
         d.names[<<row.user, Fold[row.name]>>] = p,
         d.byId[p] # NoRow => row.user = d.byId[p].user
  PROVE  LET e == WithById(d, p, row) IN
         /\ e \in Tables /\ LocalTo(p, d, e) /\ PlaylistOK(e, p)
         /\ e.byId[p] = row /\ e.byUser = d.byUser /\ e.names = d.names
<1> DEFINE e == WithById(d, p, row)
<1>1. e \in Tables /\ e.byId = [d.byId EXCEPT ![p] = row] /\ e.byUser = d.byUser
        /\ e.names = d.names
  BY DEF Tables, WithById
<1> HIDE DEF e
<1>2. e.byId[p] = row /\ \A p2 \in Playlists \ {p} : e.byId[p2] = d.byId[p2]
  BY <1>1 DEF Tables
<1>3. LocalTo(p, d, e)
  BY <1>1, <1>2 DEF LocalTo
<1>4. PlaylistOK(e, p)
  BY <1>1, <1>2, NullAssumption DEF PlaylistOK
<1> QED
  BY <1>1, <1>2, <1>3, <1>4 DEF e

LEMMA ByUserWrite ==
  ASSUME NEW d \in Tables, NEW p \in Playlists, NEW u \in Users, NEW row \in Row \cup {NoRow},
         PlaylistOK(d, p),
         row # NoRow => /\ d.byId[p] # NoRow /\ d.byId[p].user = u
                        /\ row.name # NoName => d.names[<<u, Fold[row.name]>>] = p
  PROVE  LET e == WithByUser(d, u, p, row) IN
         /\ e \in Tables /\ LocalTo(p, d, e) /\ PlaylistOK(e, p)
         /\ e.byUser[<<u, p>>] = row /\ e.byId = d.byId /\ e.names = d.names
<1> DEFINE e == WithByUser(d, u, p, row)
<1>1. e \in Tables /\ e.byUser = [d.byUser EXCEPT ![<<u, p>>] = row] /\ e.byId = d.byId
        /\ e.names = d.names
  BY DEF Tables, WithByUser
<1> HIDE DEF e
<1>2. /\ e.byUser[<<u, p>>] = row
      /\ \A u2 \in Users, p2 \in Playlists :
           <<u2, p2>> # <<u, p>> => e.byUser[<<u2, p2>>] = d.byUser[<<u2, p2>>]
  BY <1>1 DEF Tables
<1>3. LocalTo(p, d, e)
  BY <1>1, <1>2 DEF LocalTo
<1>4. ASSUME NEW u2 \in Users, e.byUser[<<u2, p>>] # NoRow
      PROVE  /\ e.byId[p] # NoRow /\ e.byId[p].user = u2
             /\ e.byUser[<<u2, p>>].name # NoName =>
                  e.names[<<u2, Fold[e.byUser[<<u2, p>>].name]>>] = p
  <2>1. CASE u2 = u
    BY <1>1, <1>2, <1>4, <2>1
  <2>2. CASE u2 # u
    <3>1. e.byUser[<<u2, p>>] = d.byUser[<<u2, p>>]
      BY <1>2, <2>2
    <3> QED
      BY <1>1, <1>4, <3>1 DEF PlaylistOK
  <2> QED
    BY <2>1, <2>2
<1>5. PlaylistOK(e, p)
  BY <1>1, <1>4 DEF PlaylistOK
<1> QED
  BY <1>1, <1>2, <1>3, <1>5 DEF e

LEMMA InsertByIdStep ==
  ASSUME Inv, NEW r \in Slots, InsertById(r)
  PROVE  Inv'
<1> DEFINE q == req[r]
           d == WithById(db, q.pl, NewRow(q))
           t == To(r, "insertByUser")
<1>1. /\ q.at = "insertById" /\ q \in Request /\ HandlerOK(q, db) /\ q.pl \in Playlists
      /\ q.user \in Users /\ PlaylistOK(db, q.pl) /\ db \in Tables
      /\ q.op \in {"create", "rename", "delete", "add", "remove"}
  BY ServedOK DEF InsertById, At, Inv, TypeOK
<1>2. q.op = "create" /\ CreateOK(q, db)
  BY <1>1, IdleOK DEF HandlerOK, RenameOK, DeleteOK, ItemOK
<1>3. NewRow(q) \in Row /\ NewRow(q).user = q.user /\ NewRow(q).name = q.arg
  BY <1>1, <1>2 DEF NewRow, Row, CreateOK
<1>4. db.byId[q.pl] = NoRow /\ db.names[<<q.user, Fold[q.arg]>>] = q.pl /\ q.arg \in Names
  BY <1>1, <1>2 DEF CreateOK, Holds
<1>5. /\ d \in Tables /\ LocalTo(q.pl, db, d) /\ PlaylistOK(d, q.pl)
      /\ d.byId[q.pl] = NewRow(q) /\ d.names = db.names
  <2>1. /\ NewRow(q).user \in Users /\ NewRow(q).name \in Names
        /\ db.names[<<NewRow(q).user, Fold[NewRow(q).name]>>] = q.pl
        /\ db.byId[q.pl] # NoRow => NewRow(q).user = db.byId[q.pl].user
    BY <1>1, <1>3, <1>4
  <2> QED
    BY <1>1, <1>3, <2>1, ByIdWrite
<1>6. /\ t \in Request /\ t.at = "insertByUser" /\ t.op = q.op /\ t.user = q.user
      /\ t.pl = q.pl /\ t.arg = q.arg
  BY <1>1 DEF To, Request, Steps
<1>7. HandlerOK(t, d)
  BY <1>2, <1>4, <1>5, <1>6 DEF HandlerOK, CreateOK, Holds, NewRow
<1>8. Writes(r, d, t, Idle)
  BY DEF InsertById, Failed, WithById
<1>on. q.op \notin ItemOps /\ GoesOn(q, t)
  BY <1>2, <1>6 DEF GoesOn, ItemOps
<1> QED
  BY <1>on, <1>1, <1>5, <1>6, <1>7, <1>8, IdleOK, WritesStep

LEMMA InsertByUserStep ==
  ASSUME Inv, NEW r \in Slots, InsertByUser(r)
  PROVE  Inv'
<1> DEFINE q == req[r]
           d == WithByUser(db, q.user, q.pl, NewRow(q))
<1>1. /\ q.at = "insertByUser" /\ q \in Request /\ HandlerOK(q, db) /\ q.pl \in Playlists
      /\ q.user \in Users /\ PlaylistOK(db, q.pl) /\ db \in Tables
      /\ q.op \in {"create", "rename", "delete", "add", "remove"}
  BY ServedOK DEF InsertByUser, At, Inv, TypeOK
<1>2. q.op = "create" /\ CreateOK(q, db)
  BY <1>1, IdleOK DEF HandlerOK, RenameOK, DeleteOK, ItemOK
<1>3. NewRow(q) \in Row /\ NewRow(q).user = q.user /\ NewRow(q).name = q.arg
  BY <1>1, <1>2 DEF NewRow, Row, CreateOK
<1>4. db.byId[q.pl] = NewRow(q) /\ db.names[<<q.user, Fold[q.arg]>>] = q.pl
  BY <1>1, <1>2 DEF CreateOK, Holds
<1>5. d \in Tables /\ LocalTo(q.pl, db, d) /\ PlaylistOK(d, q.pl)
  <2>1. /\ db.byId[q.pl] # NoRow /\ db.byId[q.pl].user = q.user
        /\ db.names[<<q.user, Fold[NewRow(q).name]>>] = q.pl
    BY <1>3, <1>4, NullAssumption
  <2> QED
    BY <1>1, <1>3, <2>1, ByUserWrite
<1>6. Writes(r, d, Idle, Idle)
  BY DEF InsertByUser, Failed, WithByUser
<1>on. q.op \notin ItemOps
  BY <1>2 DEF ItemOps
<1> QED
  BY <1>on, <1>1, <1>5, <1>6, IdleOK, WritesStep

LEMMA NameByIdStep ==
  ASSUME Inv, NEW r \in Slots, NameById(r)
  PROVE  Inv'
<1> DEFINE q == req[r]
           row == Named(db.byId[q.pl], NoUser, q.arg)
           d == WithById(db, q.pl, row)
           t == To(r, "nameByUser")
<1>1. /\ q.at = "nameById" /\ q \in Request /\ HandlerOK(q, db) /\ q.pl \in Playlists
      /\ q.user \in Users /\ PlaylistOK(db, q.pl) /\ db \in Tables
      /\ q.op \in {"create", "rename", "delete", "add", "remove"}
  BY ServedOK DEF NameById, At, Inv, TypeOK
<1>2. q.op = "rename" /\ RenameOK(q, db)
  BY <1>1, IdleOK DEF HandlerOK, CreateOK, DeleteOK, ItemOK
<1>3. /\ db.byId[q.pl] # NoRow /\ db.byId[q.pl] \in Row /\ db.byId[q.pl].user = q.user
      /\ q.arg \in Names /\ db.names[<<q.user, Fold[q.arg]>>] = q.pl
  BY <1>1, <1>2 DEF RenameOK, Owns, Holds, Tables
<1>4. row \in Row /\ row.user = q.user /\ row.name = q.arg
  BY <1>3 DEF Named, Row
<1> HIDE DEF row
<1>5. /\ d \in Tables /\ LocalTo(q.pl, db, d) /\ PlaylistOK(d, q.pl)
      /\ d.byId[q.pl] = row /\ d.byUser = db.byUser /\ d.names = db.names
  <2>1. /\ row.user \in Users /\ row.name \in Names
        /\ db.names[<<row.user, Fold[row.name]>>] = q.pl
        /\ db.byId[q.pl] # NoRow => row.user = db.byId[q.pl].user
    BY <1>1, <1>3, <1>4
  <2> QED
    BY <1>1, <1>4, <2>1, ByIdWrite
<1>6. /\ t \in Request /\ t.at = "nameByUser" /\ t.op = q.op /\ t.user = q.user
      /\ t.pl = q.pl /\ t.arg = q.arg /\ t.meta = q.meta
  BY <1>1 DEF To, Request, Steps
<1>7. RenameOK(t, d)
  BY <1>1, <1>2, <1>3, <1>4, <1>5, <1>6, NullAssumption DEF RenameOK, Holds, Owns
<1>8. Writes(r, d, t, Idle)
  BY DEF NameById, Failed, WithById, row
<1>on. q.op \notin ItemOps /\ GoesOn(q, t)
  BY <1>2, <1>6 DEF GoesOn, ItemOps
<1> QED
  BY <1>on, <1>1, <1>2, <1>5, <1>6, <1>7, <1>8, IdleOK, WritesStep DEF HandlerOK

LEMMA NameByUserStep ==
  ASSUME Inv, NEW r \in Slots, NameByUser(r)
  PROVE  Inv'
<1> DEFINE q == req[r]
           row == Named(db.byUser[<<q.user, q.pl>>], q.user, q.arg)
           d == WithByUser(db, q.user, q.pl, row)
           t == To(r, "release")
           next == IF Fold[q.meta.name] = Fold[q.arg] THEN Idle ELSE t
<1>1. /\ q.at = "nameByUser" /\ q \in Request /\ HandlerOK(q, db) /\ q.pl \in Playlists
      /\ q.user \in Users /\ PlaylistOK(db, q.pl) /\ db \in Tables
      /\ q.op \in {"create", "rename", "delete", "add", "remove"}
  BY ServedOK DEF NameByUser, At, Inv, TypeOK
<1>2. q.op = "rename" /\ RenameOK(q, db)
  BY <1>1, IdleOK DEF HandlerOK, CreateOK, DeleteOK, ItemOK
<1>3. /\ db.byUser[<<q.user, q.pl>>] \in Row \cup {NoRow}
      /\ q.arg \in Names /\ db.names[<<q.user, Fold[q.arg]>>] = q.pl
      /\ db.byId[q.pl] # NoRow /\ db.byId[q.pl].user = q.user /\ db.byId[q.pl].name = q.arg
  BY <1>1, <1>2 DEF RenameOK, Holds, Owns, Tables
<1>4. row \in Row /\ row.name = q.arg
  BY <1>1, <1>3 DEF Named, Row
<1> HIDE DEF row
<1>5. /\ d \in Tables /\ LocalTo(q.pl, db, d) /\ PlaylistOK(d, q.pl)
      /\ d.byUser[<<q.user, q.pl>>] = row /\ d.byId = db.byId /\ d.names = db.names
  <2>1. /\ db.byId[q.pl] # NoRow /\ db.byId[q.pl].user = q.user
        /\ row.name # NoName => db.names[<<q.user, Fold[row.name]>>] = q.pl
    BY <1>1, <1>3, <1>4
  <2> QED
    BY <1>1, <1>4, <2>1, ByUserWrite
<1>6. /\ t \in Request /\ t.at = "release" /\ t.op = q.op /\ t.user = q.user
      /\ t.pl = q.pl /\ t.arg = q.arg /\ t.meta = q.meta
  BY <1>1 DEF To, Request, Steps
<1>7. Fold[q.meta.name] # Fold[q.arg] => HandlerOK(t, d)
  BY <1>1, <1>2, <1>3, <1>4, <1>5, <1>6, NullAssumption DEF HandlerOK, RenameOK, Holds, Owns
<1>8. Writes(r, d, next, Idle)
  BY DEF NameByUser, Failed, WithByUser, row
<1>9. HandlerOK(next, d) /\ next.pl \in {q.pl, NoPlaylist}
  BY <1>6, <1>7, IdleOK
<1>on. q.op \notin ItemOps /\ GoesOn(q, next)
  BY <1>2, <1>6, IdleOK DEF GoesOn, ItemOps
<1> QED
  BY <1>on, <1>1, <1>5, <1>8, <1>9, IdleOK, WritesStep

(* A name the rows no longer show is given back.                           *)
LEMMA ReleaseStep ==
  ASSUME Inv, NEW r \in Slots, Release(r)
  PROVE  Inv'
<1> DEFINE q == req[r]
           k == <<q.user, Fold[q.meta.name]>>
           d == [db EXCEPT !.names[k] = NoPlaylist]
           t == To(r, "readMembers")
           next == IF q.op = "delete" THEN t ELSE Idle
<1>1. /\ q.at = "release" /\ q \in Request /\ HandlerOK(q, db) /\ q.pl \in Playlists
      /\ q.user \in Users /\ PlaylistOK(db, q.pl) /\ db \in Tables
      /\ q.op \in {"create", "rename", "delete", "add", "remove"}
  BY ServedOK DEF Release, At, Inv, TypeOK
<1>2. \/ q.op = "rename" /\ RenameOK(q, db)
      \/ q.op = "delete" /\ DeleteOK(q, db)
  BY <1>1, IdleOK DEF HandlerOK, CreateOK, ItemOK
<1>3. q.meta \in Row /\ q.meta.name \in Names /\ k \in Users \X Folded /\ db.names[k] = q.pl
  BY <1>1, <1>2 DEF RenameOK, DeleteOK, Folded, Holds
<1>4. /\ d \in Tables /\ d.byId = db.byId /\ d.byUser = db.byUser
      /\ d.names = [db.names EXCEPT ![k] = NoPlaylist]
  BY <1>1, <1>3 DEF Tables
<1>5. \A j \in Users \X Folded : j # k => d.names[j] = db.names[j]
  BY <1>1, <1>3, <1>4 DEF Tables
<1> HIDE DEF d
<1>6. LocalTo(q.pl, db, d)
  BY <1>3, <1>4, <1>5 DEF LocalTo
<1>7. PlaylistOK(d, q.pl)
  <2>1. CASE q.op = "delete"
    <3>1. db.byId[q.pl] = NoRow
      BY <1>1, <1>2, <2>1 DEF DeleteOK
    <3> QED
      BY <1>1, <1>4, <3>1 DEF PlaylistOK
  <2>2. CASE q.op = "rename"
    <3>1. /\ db.byId[q.pl] # NoRow /\ db.byId[q.pl].user = q.user /\ db.byId[q.pl].name = q.arg
          /\ db.byUser[<<q.user, q.pl>>].name = q.arg
          /\ q.arg \in Names /\ db.names[<<q.user, Fold[q.arg]>>] = q.pl
          /\ Fold[q.meta.name] # Fold[q.arg]
      BY <1>1, <1>2, <2>2 DEF RenameOK, Owns, Holds
    <3>2. d.names[<<q.user, Fold[q.arg]>>] = q.pl
      BY <1>1, <1>5, <3>1 DEF Folded
    <3>3. ASSUME NEW u \in Users, d.byUser[<<u, q.pl>>] # NoRow
          PROVE  u = q.user
      BY <1>1, <1>4, <3>1, <3>3 DEF PlaylistOK
    <3>4. /\ d.byId[q.pl].user \in Users /\ d.byId[q.pl].name \in Names
          /\ d.names[<<d.byId[q.pl].user, Fold[d.byId[q.pl].name]>>] = q.pl
      BY <1>1, <1>4, <3>1, <3>2
    <3>5. ASSUME NEW u \in Users, d.byUser[<<u, q.pl>>] # NoRow
          PROVE  /\ d.byId[q.pl] # NoRow /\ d.byId[q.pl].user = u
                 /\ d.names[<<u, Fold[d.byUser[<<u, q.pl>>].name]>>] = q.pl
      <4>1. u = q.user
        BY <3>3, <3>5
      <4> QED
        BY <1>4, <3>1, <3>2, <4>1
    <3> QED
      BY <3>4, <3>5 DEF PlaylistOK
  <2> QED
    BY <1>2, <2>1, <2>2
<1>8. /\ t \in Request /\ t.at = "readMembers" /\ t.op = q.op /\ t.pl = q.pl /\ t.meta = q.meta
  BY <1>1 DEF To, Request, Steps
<1>9. \A e : q.op = "delete" => HandlerOK(t, e)
  BY <1>3, <1>8 DEF HandlerOK, DeleteOK
<1>10. Writes(r, d, next, next)
  BY DEF Release, d
<1>11. \A e : HandlerOK(next, e) /\ next.pl \in {q.pl, NoPlaylist}
  BY <1>8, <1>9, IdleOK
<1>on. q.op \notin ItemOps /\ GoesOn(q, next)
  BY <1>2, <1>8, IdleOK DEF GoesOn, ItemOps, next
<1> HIDE DEF next
<1> QED
  BY <1>on, <1>1, <1>4, <1>6, <1>7, <1>10, <1>11, WritesStep

-------------------------------------------------------------------------------
(* The statements of delete.                                               *)

LEMMA DropByUserStep ==
  ASSUME Inv, NEW r \in Slots, DropByUser(r)
  PROVE  Inv'
<1> DEFINE q == req[r]
           d == WithByUser(db, q.user, q.pl, NoRow)
           t == To(r, "dropById")
<1>1. /\ q.at = "dropByUser" /\ q \in Request /\ HandlerOK(q, db) /\ q.pl \in Playlists
      /\ q.user \in Users /\ PlaylistOK(db, q.pl) /\ db \in Tables
      /\ q.op \in {"create", "rename", "delete", "add", "remove"}
  BY ServedOK DEF DropByUser, At, Inv, TypeOK
<1>2. q.op = "delete" /\ DeleteOK(q, db)
  BY <1>1, IdleOK DEF HandlerOK, CreateOK, RenameOK, ItemOK
<1>3. /\ d \in Tables /\ LocalTo(q.pl, db, d) /\ PlaylistOK(d, q.pl)
      /\ d.byUser[<<q.user, q.pl>>] = NoRow /\ d.byId = db.byId /\ d.names = db.names
  <2>1. NoRow \in Row \cup {NoRow} /\ ~ (NoRow # NoRow)
    OBVIOUS
  <2> QED
    BY <1>1, <2>1, ByUserWrite
<1>4. /\ t \in Request /\ t.at = "dropById" /\ t.op = q.op /\ t.user = q.user
      /\ t.pl = q.pl /\ t.meta = q.meta
  BY <1>1 DEF To, Request, Steps
<1>5. HandlerOK(t, d)
  BY <1>1, <1>2, <1>3, <1>4 DEF HandlerOK, DeleteOK, Owns, Holds
<1>6. Writes(r, d, t, Idle)
  BY DEF DropByUser, Failed, WithByUser
<1>on. q.op \notin ItemOps /\ GoesOn(q, t)
  BY <1>2, <1>4 DEF GoesOn, ItemOps
<1> QED
  BY <1>on, <1>1, <1>3, <1>4, <1>5, <1>6, IdleOK, WritesStep

LEMMA DropByIdStep ==
  ASSUME Inv, NEW r \in Slots, DropById(r)
  PROVE  Inv'
<1> DEFINE q == req[r]
           d == [db EXCEPT !.byId[q.pl] = NoRow]
           t == To(r, "release")
<1>1. /\ q.at = "dropById" /\ q \in Request /\ HandlerOK(q, db) /\ q.pl \in Playlists
      /\ q.user \in Users /\ PlaylistOK(db, q.pl) /\ db \in Tables
      /\ q.op \in {"create", "rename", "delete", "add", "remove"}
  BY ServedOK DEF DropById, At, Inv, TypeOK
<1>2. q.op = "delete" /\ DeleteOK(q, db)
  BY <1>1, IdleOK DEF HandlerOK, CreateOK, RenameOK, ItemOK
<1>3. /\ d \in Tables /\ d.byUser = db.byUser /\ d.names = db.names
      /\ d.byId = [db.byId EXCEPT ![q.pl] = NoRow]
  BY <1>1 DEF Tables
<1>4. d.byId[q.pl] = NoRow /\ \A p \in Playlists \ {q.pl} : d.byId[p] = db.byId[p]
  BY <1>1, <1>3 DEF Tables
<1> HIDE DEF d
<1>5. LocalTo(q.pl, db, d)
  BY <1>3, <1>4 DEF LocalTo
<1>6. \A u \in Users : db.byUser[<<u, q.pl>>] = NoRow
  BY <1>1, <1>2 DEF PlaylistOK, DeleteOK, Owns
<1>7. PlaylistOK(d, q.pl)
  BY <1>3, <1>4, <1>6 DEF PlaylistOK
<1>8. /\ t \in Request /\ t.at = "release" /\ t.op = q.op /\ t.user = q.user
      /\ t.pl = q.pl /\ t.meta = q.meta
  BY <1>1 DEF To, Request, Steps
<1>9. HandlerOK(t, d)
  BY <1>1, <1>2, <1>3, <1>4, <1>8 DEF HandlerOK, DeleteOK, Holds
<1>10. Writes(r, d, t, Idle)
  BY DEF DropById, Failed, d
<1>on. q.op \notin ItemOps /\ GoesOn(q, t)
  BY <1>2, <1>8 DEF GoesOn, ItemOps
<1> QED
  BY <1>on, <1>1, <1>3, <1>5, <1>7, <1>8, <1>9, <1>10, IdleOK, WritesStep

(* Items and members matter to no other table.                             *)
LEMMA IndexWrite ==
  ASSUME NEW d \in Tables, NEW e \in Tables, NEW p,
         e.byId = d.byId, e.byUser = d.byUser, e.names = d.names, PlaylistOK(d, p)
  PROVE  LocalTo(p, d, e) /\ PlaylistOK(e, p)
BY DEF LocalTo, PlaylistOK

(* The rest of delete relies on nothing.                                   *)
LEMMA TailStep ==
  ASSUME Inv, NEW r \in Slots,
         ReadMembers(r) \/ (\E v \in Videos : PurgeMember(r, v)) \/ Purged(r) \/ DropItems(r)
  PROVE  Inv'
<1> DEFINE q == req[r]
<1>1. /\ q.at \in {"readMembers", "purge", "dropItems"} /\ q \in Request /\ HandlerOK(q, db)
      /\ q.pl \in Playlists /\ q.user \in Users /\ PlaylistOK(db, q.pl) /\ db \in Tables
      /\ q.op \in {"create", "rename", "delete", "add", "remove"}
  BY ServedOK DEF ReadMembers, PurgeMember, Purged, DropItems, At, Inv, TypeOK
<1>2. q.op = "delete" /\ DeleteOK(q, db)
  BY <1>1, IdleOK DEF HandlerOK, CreateOK, RenameOK, ItemOK
<1>on. q.op \notin ItemOps
  BY <1>2 DEF ItemOps
<1>3. ASSUME NEW step \in {"purge", "dropItems"}, NEW T \in SUBSET Videos, NEW e,
             NEW t, t = [q EXCEPT !.at = step] \/ t = [[q EXCEPT !.at = step] EXCEPT !.todo = T]
      PROVE  HandlerOK(t, e) /\ GoesOn(q, t)
  <2>1. t \in Request /\ t.at = step /\ t.op = q.op /\ t.pl = q.pl /\ t.meta = q.meta
    BY ZenonT(40), <1>1, <1>3 DEF Request, Steps
  <2> QED
    BY <1>2, <2>1 DEF HandlerOK, DeleteOK, GoesOn
<1>4. CASE ReadMembers(r)
  <2> DEFINE T == {i.video : i \in db.items[q.pl]}
             t == [To(r, "purge") EXCEPT !.todo = T]
             c == To(r, "dropItems")
  <2>1. T \in SUBSET Videos
    BY <1>1 DEF Tables, Item
  <2>2. Writes(r, db, t, c)
    BY <1>4 DEF ReadMembers
  <2>3. HandlerOK(t, db) /\ GoesOn(q, t) /\ HandlerOK(c, db) /\ GoesOn(q, c)
    BY <1>3, <2>1 DEF To
  <2> HIDE DEF t, c
  <2> QED
    BY <1>1, <1>on, <2>2, <2>3, SameTables, WritesStep
<1>5. ASSUME NEW v \in Videos, PurgeMember(r, v)
      PROVE  Inv'
  <2> DEFINE T == q.todo \ {v}
             t == [To(r, "purge") EXCEPT !.todo = T]
             d == [db EXCEPT !.members[<<q.user, v, q.pl>>] = 0]
  <2>1. d \in Tables /\ d.byId = db.byId /\ d.byUser = db.byUser /\ d.names = db.names
    BY <1>1 DEF Tables
  <2>2. T \in SUBSET Videos
    BY <1>1 DEF Request
  <2>3. Writes(r, d, t, t)
    BY <1>5 DEF PurgeMember
  <2>4. \A e : HandlerOK(t, e) /\ GoesOn(q, t)
    BY <1>3, <2>2 DEF To
  <2> HIDE DEF t, d
  <2> QED
    BY <1>1, <1>on, <2>1, <2>3, <2>4, IndexWrite, WritesStep
<1>6. CASE Purged(r)
  <2> DEFINE t == To(r, "dropItems")
  <2>1. HandlerOK(t, db) /\ GoesOn(q, t)
    BY <1>3 DEF To
  <2> QED
    BY <1>1, <1>6, <2>1, ReadsStep DEF Purged
<1>7. CASE DropItems(r)
  <2> DEFINE d == [db EXCEPT !.items[q.pl] = {}]
  <2>1. d \in Tables /\ d.byId = db.byId /\ d.byUser = db.byUser /\ d.names = db.names
    BY <1>1 DEF Tables
  <2>2. Writes(r, d, Idle, Idle)
    BY <1>7 DEF DropItems
  <2> HIDE DEF d
  <2> QED
    BY <1>1, <1>on, <2>1, <2>2, IdleOK, IndexWrite, WritesStep
<1> QED
  BY <1>4, <1>5, <1>6, <1>7

-------------------------------------------------------------------------------
(* The statements of add and remove.                                       *)

(* A request that adds or removes an item takes a step.                    *)
ItemSteps == {"lookup", "existing", "member", "insertItem", "dropItem", "dropMember",
              "covers", "countById", "countByUser"}

LEMMA ItemServed ==
  ASSUME Inv, NEW r \in Slots, req[r].at \in ItemSteps
  PROVE  /\ req[r] \in Request /\ req[r].pl \in Playlists /\ req[r].user \in Users
         /\ db \in Tables /\ PlaylistOK(db, req[r].pl)
         /\ req[r].op \in {"add", "remove"} /\ req[r].at # "idle"
         /\ req[r].arg \in Videos /\ req[r].meta \in Row
         /\ Owns(req[r], db)
<1> DEFINE q == req[r]
<1>1. q.at # "idle"
  BY DEF ItemSteps
<1>2. /\ q \in Request /\ HandlerOK(q, db) /\ q.pl \in Playlists
      /\ q.user \in Users /\ PlaylistOK(db, q.pl) /\ db \in Tables
      /\ q.op \in {"create", "rename", "delete", "add", "remove"}
  BY <1>1, ServedOK DEF Inv, TypeOK
<1>3. q.op \in {"add", "remove"}
  BY <1>1, <1>2, IdleOK DEF HandlerOK, CreateOK, RenameOK, DeleteOK, ItemSteps
<1>4. ItemOK(q, db)
  BY <1>1, <1>2, <1>3, IdleOK DEF HandlerOK
<1> QED
  BY <1>1, <1>2, <1>3, <1>4 DEF ItemOK

(* What such a request may become.                                         *)
LEMMA ItemBecomes ==
  ASSUME NEW q \in Request, q.op \in {"add", "remove"}, q.arg \in Videos,
         NEW t \in Request, t.at \in ItemSteps, t.meta \in Row,
         t.op = q.op, t.user = q.user, t.pl = q.pl, t.arg = q.arg
  PROVE  \A d : Owns(q, d) => HandlerOK(t, d)
<1>1. ASSUME NEW d, Owns(q, d) PROVE ItemOK(t, d)
  BY <1>1 DEF ItemOK, ItemSteps, Owns
<1> QED
  BY <1>1 DEF HandlerOK

LEMMA LookupStep ==
  ASSUME Inv, NEW r \in Slots, Lookup(r)
  PROVE  Inv'
<1> DEFINE q == req[r]
           m == db.members[<<q.user, q.arg, q.pl>>]
           t == [To(r, "existing") EXCEPT !.stamp = m]
           w == [To(r, "dropItem") EXCEPT !.stamp = m]
<1>1. q.at = "lookup" /\ q.at \in ItemSteps
  BY DEF Lookup, At, ItemSteps
<1>2. /\ q \in Request /\ q.pl \in Playlists /\ q.user \in Users /\ db \in Tables
      /\ q.op \in {"add", "remove"} /\ q.at # "idle" /\ q.arg \in Videos /\ q.meta \in Row
      /\ Owns(q, db)
  BY <1>1, ItemServed
<1>3. m \in Nat
  BY <1>2 DEF Tables
<1>4. \A x \in {t, w} : /\ x \in Request /\ x.at \in ItemSteps /\ x.meta \in Row
                        /\ x.op = q.op /\ x.user = q.user /\ x.pl = q.pl /\ x.arg = q.arg
  BY ZenonT(40), <1>2, <1>3 DEF To, Request, Steps, ItemSteps
<1>5. \A x \in {t, w} : HandlerOK(x, db) /\ x.pl = q.pl
  BY <1>2, <1>4, ItemBecomes
<1>6. Reads(r, t) \/ Reads(r, w) \/ Reads(r, Idle)
  BY <1>2 DEF Lookup
<1>on. GoesOn(q, t) /\ GoesOn(q, w)
  BY <1>4 DEF GoesOn
<1> HIDE DEF t, w
<1> QED
  BY <1>on, <1>2, <1>5, <1>6, IdleOK, ReadsStep

LEMMA ExistingStep ==
  ASSUME Inv, NEW r \in Slots, Existing(r)
  PROVE  Inv'
<1> DEFINE q == req[r]
           t == [To(r, "member") EXCEPT !.stamp = now']
<1>1. q.at = "existing" /\ q.at \in ItemSteps
  BY DEF Existing, At, ItemSteps
<1>2. /\ q \in Request /\ q.pl \in Playlists /\ q.user \in Users /\ db \in Tables
      /\ q.op \in {"add", "remove"} /\ q.at # "idle" /\ q.arg \in Videos /\ q.meta \in Row
      /\ Owns(q, db) /\ PlaylistOK(db, q.pl)
  BY <1>1, ItemServed
<1>3. CASE Reads(r, Idle)
  BY <1>2, <1>3, IdleOK, ReadsStep
<1>4. CASE now' = now + 1 /\ req' = [req EXCEPT ![r] = t] /\ UNCHANGED <<db, hit>>
  <2>1. TypeOK
    BY DEF Inv
  <2>2. now' \in Nat /\ hit' \in [Playlists -> SUBSET {"fault", "overlap"}] /\ db' = db
    BY <1>4, <2>1 DEF TypeOK
  <2>3. /\ t \in Request /\ t.at \in ItemSteps /\ t.meta \in Row
        /\ t.op = q.op /\ t.user = q.user /\ t.pl = q.pl /\ t.arg = q.arg
    BY <1>2, <2>2 DEF To, Request, Steps, ItemSteps
  <2>4. HandlerOK(t, db')
    BY <1>2, <2>2, <2>3, ItemBecomes
  <2>on. GoesOn(q, t) /\ Owns(q, db')
    BY <1>2, <2>2, <2>3 DEF GoesOn
  <2> HIDE DEF t
  <2> QED
    BY <2>on, <1>2, <1>4, <2>2, <2>3, <2>4, SameTables, Moves
<1> QED
  BY <1>3, <1>4 DEF Existing

LEMMA MemberStep ==
  ASSUME Inv, NEW r \in Slots, Member(r)
  PROVE  Inv'
<1> DEFINE q == req[r]
           d == [db EXCEPT !.members[<<q.user, q.arg, q.pl>>] = q.stamp]
           t == To(r, "insertItem")
<1>1. q.at = "member" /\ q.at \in ItemSteps
  BY DEF Member, At, ItemSteps
<1>2. /\ q \in Request /\ q.pl \in Playlists /\ q.user \in Users /\ db \in Tables
      /\ q.op \in {"add", "remove"} /\ q.at # "idle" /\ q.arg \in Videos /\ q.meta \in Row
      /\ Owns(q, db) /\ PlaylistOK(db, q.pl)
  BY <1>1, ItemServed
<1>3. d \in Tables /\ d.byId = db.byId /\ d.byUser = db.byUser /\ d.names = db.names
  BY <1>2 DEF Tables, Request
<1>4. /\ t \in Request /\ t.at \in ItemSteps /\ t.meta \in Row
      /\ t.op = q.op /\ t.user = q.user /\ t.pl = q.pl /\ t.arg = q.arg
  BY <1>2 DEF To, Request, Steps, ItemSteps
<1>5. HandlerOK(t, d)
  <2>1. Owns(q, d)
    BY <1>2, <1>3 DEF Owns
  <2> HIDE DEF t, d
  <2> QED
    BY <1>2, <1>4, <2>1, ItemBecomes
<1>6. Writes(r, d, t, Idle) \/ Reads(r, Idle)
  BY DEF Member, Failed
<1>on. GoesOn(q, t) /\ Owns(q, d)
  BY <1>2, <1>3, <1>4 DEF GoesOn, Owns
<1> HIDE DEF t, d
<1> QED
  BY <1>on, <1>2, <1>3, <1>4, <1>5, <1>6, IdleOK, IndexWrite, WritesStep, ReadsStep

LEMMA InsertItemStep ==
  ASSUME Inv, NEW r \in Slots, InsertItem(r)
  PROVE  Inv'
<1> DEFINE q == req[r]
           d == [db EXCEPT !.items[q.pl] = @ \cup {[at |-> q.stamp, video |-> q.arg]}]
           t == [To(r, "countById") EXCEPT !.meta.count = @ + 1,
                                           !.meta.covers = CoversWith(@, q.arg)]
<1>1. q.at = "insertItem" /\ q.at \in ItemSteps
  BY DEF InsertItem, At, ItemSteps
<1>2. /\ q \in Request /\ q.pl \in Playlists /\ q.user \in Users /\ db \in Tables
      /\ q.op \in {"add", "remove"} /\ q.at # "idle" /\ q.arg \in Videos /\ q.meta \in Row
      /\ Owns(q, db) /\ PlaylistOK(db, q.pl)
  BY <1>1, ItemServed
<1>3. d \in Tables /\ d.byId = db.byId /\ d.byUser = db.byUser /\ d.names = db.names
  <2> DEFINE i == [at |-> q.stamp, video |-> q.arg]
  <2>1. i \in Item
    BY <1>2 DEF Request, Item
  <2> HIDE DEF i
  <2>2. db.items[q.pl] \cup {i} \in SUBSET Item
    BY <1>2, <2>1 DEF Tables
  <2>3. [db EXCEPT !.items[q.pl] = @ \cup {i}] \in Tables
    BY <1>2, <2>2 DEF Tables
  <2> QED
    BY <1>2, <2>3 DEF i, Tables
<1>4. q.meta.count + 1 \in Nat /\ CoversWith(q.meta.covers, q.arg) \in Seq(Videos)
  BY SMTT(30), <1>2, CoversWithType DEF Row
<1>5. /\ t \in Request /\ t.at \in ItemSteps /\ t.meta \in Row
      /\ t.op = q.op /\ t.user = q.user /\ t.pl = q.pl /\ t.arg = q.arg
  BY ZenonT(40), <1>2, <1>4 DEF To, Request, Row, Steps, ItemSteps
<1>6. HandlerOK(t, d)
  <2>1. Owns(q, d)
    BY <1>2, <1>3 DEF Owns
  <2> HIDE DEF t, d
  <2> QED
    BY <1>2, <1>5, <2>1, ItemBecomes
<1>7. Writes(r, d, t, Idle)
  BY DEF InsertItem, Failed
<1>on. GoesOn(q, t) /\ Owns(q, d)
  BY <1>2, <1>3, <1>5 DEF GoesOn, Owns
<1> HIDE DEF t, d
<1> QED
  BY <1>on, <1>2, <1>3, <1>5, <1>6, <1>7, IdleOK, IndexWrite, WritesStep

LEMMA DropItemStep ==
  ASSUME Inv, NEW r \in Slots, DropItem(r) \/ DropMember(r)
  PROVE  Inv'
<1> DEFINE q == req[r]
<1>1. q.at \in ItemSteps
  BY DEF DropItem, DropMember, At, ItemSteps
<1>2. /\ q \in Request /\ q.pl \in Playlists /\ q.user \in Users /\ db \in Tables
      /\ q.op \in {"add", "remove"} /\ q.at # "idle" /\ q.arg \in Videos /\ q.meta \in Row
      /\ Owns(q, db) /\ PlaylistOK(db, q.pl)
  BY <1>1, ItemServed
<1>3. ASSUME NEW step \in {"dropMember", "covers"}, NEW d \in Tables,
             Writes(r, d, To(r, step), To(r, step)),
             d.byId = db.byId, d.byUser = db.byUser, d.names = db.names
      PROVE  Inv'
  <2> DEFINE t == To(r, step)
  <2>1. /\ t \in Request /\ t.at \in ItemSteps /\ t.meta \in Row
        /\ t.op = q.op /\ t.user = q.user /\ t.pl = q.pl /\ t.arg = q.arg
    BY <1>2, <1>3 DEF To, Request, Steps, ItemSteps
  <2>2. HandlerOK(t, d) /\ HandlerOK(t, db)
    BY <1>2, <1>3, <2>1, ItemBecomes DEF Owns
  <2>on. GoesOn(q, t) /\ Owns(q, d)
    BY <1>2, <1>3, <2>1 DEF GoesOn, Owns
  <2> HIDE DEF t
  <2> QED
    BY <2>on, <1>2, <1>3, <2>1, <2>2, IndexWrite, WritesStep DEF t
<1>4. CASE DropItem(r)
  <2> DEFINE d == [db EXCEPT !.items[q.pl] = @ \ {[at |-> q.stamp, video |-> q.arg]}]
  <2>1. d \in Tables /\ d.byId = db.byId /\ d.byUser = db.byUser /\ d.names = db.names
    BY <1>2 DEF Tables
  <2> QED
    BY <1>3, <1>4, <2>1 DEF DropItem
<1>5. CASE DropMember(r)
  <2> DEFINE d == [db EXCEPT !.members[<<q.user, q.arg, q.pl>>] = 0]
  <2>1. d \in Tables /\ d.byId = db.byId /\ d.byUser = db.byUser /\ d.names = db.names
    BY <1>2 DEF Tables
  <2> QED
    BY <1>3, <1>5, <2>1 DEF DropMember
<1> QED
  BY <1>4, <1>5

LEMMA CoversStep ==
  ASSUME Inv, NEW r \in Slots, Covers(r)
  PROVE  Inv'
<1> DEFINE q == req[r]
           next == [To(r, "countById") EXCEPT !.meta.count = Decremented(@)]
<1>1. q.at = "covers" /\ q.at \in ItemSteps
  BY DEF Covers, At, ItemSteps
<1>2. /\ q \in Request /\ q.pl \in Playlists /\ q.user \in Users /\ db \in Tables
      /\ q.op \in {"add", "remove"} /\ q.at # "idle" /\ q.arg \in Videos /\ q.meta \in Row
      /\ Owns(q, db) /\ PlaylistOK(db, q.pl)
  BY <1>1, ItemServed
<1>3. PICK c \in CoversOf(db.items[q.pl]) :
        Writes(r, db, [next EXCEPT !.meta.covers = c], next)
  BY DEF Covers
<1> DEFINE t == [next EXCEPT !.meta.covers = c]
<1>4. c \in Seq(Videos) /\ Decremented(q.meta.count) \in Nat
  BY <1>2, CoversOfType DEF Row, Decremented
<1>5. /\ next \in Request /\ next.at \in ItemSteps /\ next.meta \in Row
      /\ next.op = q.op /\ next.user = q.user /\ next.pl = q.pl /\ next.arg = q.arg
  BY ZenonT(40), <1>2, <1>4 DEF To, Request, Row, Steps, ItemSteps
<1> HIDE DEF next
<1>6. /\ t \in Request /\ t.at \in ItemSteps /\ t.meta \in Row
      /\ t.op = q.op /\ t.user = q.user /\ t.pl = q.pl /\ t.arg = q.arg
  BY <1>4, <1>5 DEF Request, Row
<1>7. HandlerOK(t, db) /\ HandlerOK(next, db)
  BY <1>2, <1>5, <1>6, ItemBecomes
<1>on. GoesOn(q, t) /\ GoesOn(q, next)
  BY <1>5, <1>6 DEF GoesOn
<1> HIDE DEF t
<1> QED
  BY <1>on, <1>2, <1>3, <1>5, <1>6, <1>7, SameTables, WritesStep DEF t

LEMMA CountByIdStep ==
  ASSUME Inv, NEW r \in Slots, CountById(r)
  PROVE  Inv'
<1> DEFINE q == req[r]
           row == Counted(db.byId[q.pl], NoUser, q.meta)
           d == WithById(db, q.pl, row)
           t == To(r, "countByUser")
<1>1. q.at = "countById" /\ q.at \in ItemSteps
  BY DEF CountById, At, ItemSteps
<1>2. /\ q \in Request /\ q.pl \in Playlists /\ q.user \in Users /\ db \in Tables
      /\ q.op \in {"add", "remove"} /\ q.at # "idle" /\ q.arg \in Videos /\ q.meta \in Row
      /\ Owns(q, db) /\ PlaylistOK(db, q.pl)
  BY <1>1, ItemServed
<1>3. db.byId[q.pl] \in Row /\ db.byId[q.pl] # NoRow /\ db.byId[q.pl].user = q.user
  BY <1>2 DEF Owns, Tables
<1>4. row \in Row /\ row.user = q.user /\ row.name = db.byId[q.pl].name
  BY <1>2, <1>3 DEF Counted, Row
<1>5. /\ row.user \in Users /\ row.name \in Names
      /\ db.names[<<row.user, Fold[row.name]>>] = q.pl
      /\ db.byId[q.pl] # NoRow => row.user = db.byId[q.pl].user
  BY <1>2, <1>3, <1>4 DEF PlaylistOK
<1> HIDE DEF row
<1>6. /\ d \in Tables /\ LocalTo(q.pl, db, d) /\ PlaylistOK(d, q.pl)
      /\ d.byId[q.pl] = row
  BY <1>2, <1>4, <1>5, ByIdWrite
<1>7. Owns(q, d)
  BY <1>4, <1>6, NullAssumption DEF Owns
<1>8. /\ t \in Request /\ t.at \in ItemSteps /\ t.meta \in Row
      /\ t.op = q.op /\ t.user = q.user /\ t.pl = q.pl /\ t.arg = q.arg
  BY <1>2 DEF To, Request, Steps, ItemSteps
<1>9. HandlerOK(t, d)
  BY <1>2, <1>7, <1>8, ItemBecomes
<1>10. Writes(r, d, t, Idle)
  BY DEF CountById, Failed, WithById, row
<1>on. GoesOn(q, t)
  BY <1>8 DEF GoesOn
<1> HIDE DEF t, d
<1> QED
  BY <1>on, <1>2, <1>6, <1>7, <1>8, <1>9, <1>10, IdleOK, WritesStep

LEMMA CountByUserStep ==
  ASSUME Inv, NEW r \in Slots, CountByUser(r)
  PROVE  Inv'
<1> DEFINE q == req[r]
           old == db.byUser[<<q.user, q.pl>>]
           row == Counted(old, q.user, q.meta)
           d == WithByUser(db, q.user, q.pl, row)
<1>1. q.at = "countByUser" /\ q.at \in ItemSteps
  BY DEF CountByUser, At, ItemSteps
<1>2. /\ q \in Request /\ q.pl \in Playlists /\ q.user \in Users /\ db \in Tables
      /\ q.op \in {"add", "remove"} /\ q.at # "idle" /\ q.arg \in Videos /\ q.meta \in Row
      /\ Owns(q, db) /\ PlaylistOK(db, q.pl)
  BY <1>1, ItemServed
<1>3. db.byId[q.pl] # NoRow /\ db.byId[q.pl].user = q.user /\ old \in Row \cup {NoRow}
  BY <1>2 DEF Owns, Tables
<1>4. /\ row \in Row
      /\ row.name = IF old = NoRow THEN NoName ELSE old.name
  BY <1>2, <1>3 DEF Counted, Row
<1>5. row.name # NoName => db.names[<<q.user, Fold[row.name]>>] = q.pl
  BY <1>2, <1>4 DEF PlaylistOK
<1> HIDE DEF row
<1>6. d \in Tables /\ LocalTo(q.pl, db, d) /\ PlaylistOK(d, q.pl) /\ d.byId = db.byId
  <2>1. /\ row \in Row \cup {NoRow}
        /\ db.byId[q.pl] # NoRow /\ db.byId[q.pl].user = q.user
        /\ row.name # NoName => db.names[<<q.user, Fold[row.name]>>] = q.pl
    BY <1>3, <1>4, <1>5
  <2> QED
    BY ZenonT(40), <1>2, <2>1, ByUserWrite
<1>7. Writes(r, d, Idle, Idle)
  BY DEF CountByUser, Failed, WithByUser, row
<1>on. Owns(q, d)
  BY <1>3, <1>6 DEF Owns
<1> HIDE DEF d
<1> QED
  BY <1>on, <1>2, <1>6, <1>7, IdleOK, WritesStep

-------------------------------------------------------------------------------
(* Every step, and the theorems.                                           *)

LEMMA RestartStep ==
  ASSUME Inv, Restart
  PROVE  Inv'
<1>1. req' = [r \in Slots |-> Idle] /\ db' = db /\ now' = now
  BY DEF Restart
<1>2. TypeOK
  BY DEF Inv
<1>3. hit' \in [Playlists -> SUBSET {"fault", "overlap"}]
  <2>1. \A p \in Playlists : hit[p] \cup {"fault"} \in SUBSET {"fault", "overlap"}
    BY <1>2 DEF TypeOK
  <2> QED
    BY <1>2, <2>1 DEF Restart, TypeOK
<1>4. TypeOK'
  BY <1>1, <1>2, <1>3 DEF TypeOK
<1>5. \A r \in Slots : HandlerOK(req[r], db)'
  BY <1>1, IdleOK
<1>6. Alone'
  BY <1>1, IdleOK DEF Alone
<1> QED
  BY <1>1, <1>4, <1>5, <1>6 DEF Inv

LEMMA InvInit ==
  ASSUME Init
  PROVE  Inv
<1>1. TypeOK
  BY DEF Init, TypeOK, Tables
<1>2. \A p \in Playlists : PlaylistOK(db, p)
  BY DEF Init, PlaylistOK
<1>3. \A r \in Slots : HandlerOK(req[r], db)
  BY IdleOK DEF Init
<1>4. Alone
  BY IdleOK DEF Init, Alone
<1> QED
  BY <1>1, <1>2, <1>3, <1>4 DEF Inv

LEMMA InvNext ==
  ASSUME Inv, Overlap \subseteq ItemOps, [Next]_vars
  PROVE  Inv'
<1>1. CASE UNCHANGED vars
  BY <1>1 DEF vars, Inv, TypeOK, Alone
<1>2. CASE Restart
  BY <1>2, RestartStep
<1>3. ASSUME NEW r \in Slots, Arrival(r)
      PROVE  Inv'
  <2>1. PICK u \in Users, p \in Playlists :
          \/ Delete(r, u, p)
          \/ \E n \in Names : Create(r, u, p, n) \/ Rename(r, u, p, n)
          \/ \E v \in Videos : AddItem(r, u, p, v) \/ RemoveItem(r, u, p, v)
    BY <1>3 DEF Arrival
  <2> QED
    BY <2>1, CreateStep, RenameStep, DeleteStep, ItemStep
<1>4. ASSUME NEW r \in Slots, Statement(r)
      PROVE  Inv'
  <2>1. CASE \/ CountPlaylists(r) \/ Reserve(r) \/ InsertById(r) \/ InsertByUser(r)
             \/ NameById(r) \/ NameByUser(r) \/ Release(r)
    BY <2>1, CountStep, ReserveStep, InsertByIdStep, InsertByUserStep, NameByIdStep,
       NameByUserStep, ReleaseStep
  <2>2. CASE \/ DropByUser(r) \/ DropById(r) \/ ReadMembers(r) \/ Purged(r) \/ DropItems(r)
             \/ \E v \in Videos : PurgeMember(r, v)
    BY <2>2, DropByUserStep, DropByIdStep, TailStep
  <2>3. CASE \/ Lookup(r) \/ Existing(r) \/ Member(r) \/ InsertItem(r) \/ DropItem(r)
             \/ DropMember(r) \/ Covers(r) \/ CountById(r) \/ CountByUser(r)
    BY <2>3, LookupStep, ExistingStep, MemberStep, InsertItemStep, DropItemStep, CoversStep,
       CountByIdStep, CountByUserStep
  <2> QED
    BY <1>4, <2>1, <2>2, <2>3 DEF Statement
<1> QED
  BY <1>1, <1>2, <1>3, <1>4 DEF Next

LEMMA Inductive == ASSUME Overlap \subseteq ItemOps PROVE Spec => []Inv
<1>1. Init => Inv
  BY InvInit
<1>2. Inv /\ [Next]_vars => Inv'
  BY InvNext
<1> QED
  BY <1>1, <1>2, PTL DEF Spec

(* No statement of any handler, executed or failed, puts a value of the    *)
(* wrong type into a table or into a request's locals.                     *)
THEOREM TypeCorrect == ASSUME Overlap \subseteq ItemOps PROVE Spec => []TypeOK
<1>1. Inv => TypeOK
  BY DEF Inv
<1> QED
  BY <1>1, Inductive, PTL

(* For any number of users, playlists, names and concurrent requests,      *)
(* whatever fails and wherever the server stops, every name shown is       *)
(* reserved for the playlist it is shown for: TryReserveName() comes       *)
(* before and ReleaseName() after (create.cpp, rename.cpp, delete.cpp).    *)
THEOREM NamesReserved == ASSUME Overlap \subseteq ItemOps PROVE Spec => []NameIsReserved
<1>1. Inv => NameIsReserved
  <2> SUFFICES ASSUME Inv, NEW u \in Users, NEW p \in Playlists
               PROVE  /\ p \in Listed(u) /\ db.byUser[<<u, p>>].name # NoName =>
                            db.names[<<u, Fold[db.byUser[<<u, p>>].name]>>] = p
                      /\ Mine(u, p) => db.names[<<u, Fold[db.byId[p].name]>>] = p
    BY DEF NameIsReserved
  <2>1. PlaylistOK(db, p)
    BY DEF Inv
  <2> QED
    BY <2>1 DEF PlaylistOK, Listed, Mine
<1> QED
  BY <1>1, Inductive, PTL

(* Hence no two playlists of a user are listed under one name, up to case. *)
THEOREM NamesStayUnique == ASSUME Overlap \subseteq ItemOps PROVE Spec => []NamesUnique
<1>1. NameIsReserved => NamesUnique
  <2> SUFFICES ASSUME NameIsReserved, NEW u \in Users, NEW p \in Listed(u), NEW q \in Listed(u),
                      p # q, NoName \notin {db.byUser[<<u, p>>].name, db.byUser[<<u, q>>].name}
               PROVE  Fold[db.byUser[<<u, p>>].name] # Fold[db.byUser[<<u, q>>].name]
    BY DEF NamesUnique
  <2>1. p \in Playlists /\ q \in Playlists
    BY DEF Listed
  <2>2. /\ db.names[<<u, Fold[db.byUser[<<u, p>>].name]>>] = p
        /\ db.names[<<u, Fold[db.byUser[<<u, q>>].name]>>] = q
    BY <2>1 DEF NameIsReserved
  <2> QED
    BY <2>2
<1> QED
  BY <1>1, NamesReserved, PTL

(* What a user's list shows is there, and is theirs: the row of the list   *)
(* is written after the row it stands for and removed before it            *)
(* (playlists_common.cpp, delete.cpp).                                     *)
THEOREM ListsNoGhosts == ASSUME Overlap \subseteq ItemOps PROVE Spec => []NoGhosts
<1>1. Inv => NoGhosts
  <2> SUFFICES ASSUME Inv, NEW u \in Users, NEW p \in Listed(u)
               PROVE  Mine(u, p)
    BY DEF NoGhosts
  <2>1. p \in Playlists /\ db.byUser[<<u, p>>] # NoRow
    BY DEF Listed
  <2>2. PlaylistOK(db, p)
    BY <2>1 DEF Inv
  <2> QED
    BY <2>1, <2>2 DEF PlaylistOK, Mine
<1> QED
  BY <1>1, Inductive, PTL

-------------------------------------------------------------------------------
(* The second invariant, for the items: of playlists on which only adds    *)
(* overlap.                                                                *)

VideosIn(S) == {i.video : i \in S}
(* The videos the membership index has for p.                              *)
Members(d, u, p) == {v \in Videos : d.members[<<u, v, p>>] # 0}
OnlyOf(d, u, p) == \A u2 \in Users \ {u} : Members(d, u2, p) = {}

(* Times: every item was added at some time.                               *)
TimesOK(S, t) == IsFiniteSet(S) /\ \A i \in S : i.at \in 1 .. t
StepOK(q, t) ==
    /\ q.at \in {"existing", "member", "insertItem"} => q.op = "add"
    /\ q.at \in {"dropItem", "dropMember", "covers"} => q.op = "remove"
    /\ q.at \in {"readMembers", "purge", "dropItems"} => q.op = "delete"
    /\ q.at \in {"member", "insertItem"} => q.stamp \in 1 .. t

(* Of a playlist no fault has hit, each item is where the index says, and  *)
(* nothing is left of a playlist that was deleted.                         *)
IndexedOK(d, p) ==
    d.byId[p] # NoRow =>
        \A i \in d.items[p] : d.members[<<d.byId[p].user, i.video, p>>] = i.at
Deleted(d, p) == d.byId[p] = NoRow => d.items[p] = {}
WorkOK(q, d) ==
    /\ q.at \in {"insertItem", "dropItem"} => d.members[<<q.user, q.arg, q.pl>>] = q.stamp
    /\ q.at = "dropMember" => q.arg \notin VideosIn(d.items[q.pl])
    /\ q.at \in {"readMembers", "purge", "dropItems"} => d.byId[q.pl] = NoRow

(* Of a playlist that nothing has hit: a row that counts the items S and   *)
(* shows their covers.                                                     *)
Counts(row, S) == row \in Row /\ row.count = Cardinality(S) /\ row.covers \in CoversOf(S)
Listing(d, u, p) == Members(d, u, p) = VideosIn(d.items[p])

Rest(d, p) ==
    IF d.byId[p] = NoRow
      THEN d.items[p] = {} /\ \A u \in Users : Members(d, u, p) = {}
      ELSE LET u == d.byId[p].user IN
           /\ d.byUser[<<u, p>>] = d.byId[p]
           /\ Counts(d.byId[p], d.items[p])
           /\ Listing(d, u, p) /\ OnlyOf(d, u, p)

(* The metadata rows before each statement of a handler that changes them. *)
Both(q, d) == d.byUser[<<q.user, q.pl>>] = d.byId[q.pl]
CreateFits(q, d) == d.items[q.pl] = {} /\ Members(d, q.user, q.pl) = {}
RenameFits(q, d) ==
    /\ Counts(d.byId[q.pl], d.items[q.pl]) /\ Listing(d, q.user, q.pl)
    /\ IF q.at = "nameByUser"
         THEN /\ d.byUser[<<q.user, q.pl>>] \in Row
              /\ d.byId[q.pl] = [d.byUser[<<q.user, q.pl>>] EXCEPT !.name = q.arg]
         ELSE Both(q, d)
DeleteFits(q, d) ==
    /\ q.at \in {"dropByUser", "dropById", "release", "readMembers"} => Listing(d, q.user, q.pl)
    /\ q.at = "purge" => Members(d, q.user, q.pl) \subseteq q.todo
    /\ q.at = "dropItems" => Members(d, q.user, q.pl) = {}
ItemFits(q, d) ==
    LET S == d.items[q.pl] IN
    /\ q.at # "countByUser" => Both(q, d)
    /\ q.at \notin {"countById", "countByUser"} => q.meta = d.byId[q.pl]
    /\ q.at \notin {"dropMember", "covers"} => Counts(q.meta, S)
    /\ q.at \in {"dropMember", "covers"} => q.meta.count = Cardinality(S) + 1
    /\ q.at \in {"member", "insertItem"} => \A i \in S : i.at < q.stamp
    /\ q.at = "dropItem" => q.stamp # 0
    /\ q.at = "countByUser" =>
         /\ d.byUser[<<q.user, q.pl>>] \in Row
         /\ d.byId[q.pl] = [d.byUser[<<q.user, q.pl>>] EXCEPT !.count = q.meta.count,
                                                              !.covers = q.meta.covers]
    /\ IF q.at \in {"insertItem", "dropMember"}
         THEN /\ q.arg \notin VideosIn(S)
              /\ Members(d, q.user, q.pl) = VideosIn(S) \cup {q.arg}
         ELSE Listing(d, q.user, q.pl)

Fits(q, d) ==
    /\ OnlyOf(d, q.user, q.pl)
    /\ q.op = "create" => CreateFits(q, d)
    /\ q.op = "rename" => RenameFits(q, d)
    /\ q.op = "delete" => DeleteFits(q, d)
    /\ q.op \in ItemOps => ItemFits(q, d)

Busy(p) == \E r \in Slots : req[r].pl = p
AloneButAdds ==
    \A r, s \in Slots : r # s /\ req[r].pl = req[s].pl /\ req[r].pl # NoPlaylist
                          => req[r].op = "add" /\ req[s].op = "add" /\ hit[req[r].pl] # {}

Tidy ==
    /\ \A p \in Playlists : TimesOK(db.items[p], now)
    /\ \A r \in Slots : StepOK(req[r], now)
    /\ AloneButAdds
    /\ \A p \in Playlists : "fault" \notin hit[p] =>
         /\ IndexedOK(db, p)
         /\ (\A r \in Slots : req[r].pl = p => req[r].op # "delete") => Deleted(db, p)
    /\ \A r \in Slots : req[r] # Idle =>
         /\ "fault" \notin hit[req[r].pl] => WorkOK(req[r], db)
         /\ hit[req[r].pl] = {} => Fits(req[r], db)
    /\ \A p \in Playlists : hit[p] = {} /\ ~ Busy(p) => Rest(db, p)

-------------------------------------------------------------------------------
(* What a step on one playlist leaves alone.                               *)

Elsewhere(p, d, e) ==
    \A p2 \in Playlists \ {p} :
        /\ e.byId[p2] = d.byId[p2] /\ e.items[p2] = d.items[p2]
        /\ \A u \in Users : e.byUser[<<u, p2>>] = d.byUser[<<u, p2>>]
        /\ \A u \in Users, v \in Videos : e.members[<<u, v, p2>>] = d.members[<<u, v, p2>>]

LEMMA MembersFrame ==
  ASSUME NEW p, NEW d, NEW e, Elsewhere(p, d, e), NEW p2 \in Playlists \ {p}
  PROVE  \A u \in Users : Members(e, u, p2) = Members(d, u, p2)
BY DEF Elsewhere, Members

LEMMA RestFrame ==
  ASSUME NEW p, NEW d, NEW e, Elsewhere(p, d, e), NEW p2 \in Playlists \ {p}, PlaylistOK(d, p2)
  PROVE  /\ Rest(d, p2) => Rest(e, p2)
         /\ IndexedOK(d, p2) /\ d.items[p2] \in SUBSET Item => IndexedOK(e, p2)
         /\ Deleted(d, p2) => Deleted(e, p2)
<1>1. /\ e.byId[p2] = d.byId[p2] /\ e.items[p2] = d.items[p2]
      /\ \A u \in Users : e.byUser[<<u, p2>>] = d.byUser[<<u, p2>>]
      /\ \A u \in Users, v \in Videos : e.members[<<u, v, p2>>] = d.members[<<u, v, p2>>]
  BY DEF Elsewhere
<1>2. \A u \in Users : Members(e, u, p2) = Members(d, u, p2)
  BY MembersFrame
<1>3. d.byId[p2] # NoRow => d.byId[p2].user \in Users
  BY DEF PlaylistOK
<1>4. Rest(d, p2) => Rest(e, p2)
  BY <1>1, <1>2, <1>3 DEF Rest, Listing, OnlyOf
<1>5. IndexedOK(d, p2) /\ d.items[p2] \in SUBSET Item => IndexedOK(e, p2)
  BY <1>1, <1>3 DEF IndexedOK, Item
<1>6. Deleted(d, p2) => Deleted(e, p2)
  BY <1>1 DEF Deleted
<1> QED
  BY <1>4, <1>5, <1>6

LEMMA FitsFrame ==
  ASSUME NEW p, NEW d, NEW e, Elsewhere(p, d, e), NEW q \in Request, q.pl # p
  PROVE  /\ Fits(q, d) => Fits(q, e)
         /\ WorkOK(q, d) /\ (q.at \in {"insertItem", "dropItem"} => q.arg \in Videos)
              => WorkOK(q, e)
<1>0. q.pl \in Playlists \ {p} /\ q.user \in Users
  BY DEF Request
<1>1. /\ e.byId[q.pl] = d.byId[q.pl] /\ e.items[q.pl] = d.items[q.pl]
      /\ e.byUser[<<q.user, q.pl>>] = d.byUser[<<q.user, q.pl>>]
      /\ \A u \in Users, v \in Videos : e.members[<<u, v, q.pl>>] = d.members[<<u, v, q.pl>>]
  BY <1>0 DEF Elsewhere
<1>2. \A u \in Users : Members(e, u, q.pl) = Members(d, u, q.pl)
  BY <1>0, MembersFrame
<1>3. OnlyOf(d, q.user, q.pl) => OnlyOf(e, q.user, q.pl)
  BY <1>2 DEF OnlyOf
<1>4. CreateFits(q, d) => CreateFits(q, e)
  BY <1>0, <1>1, <1>2 DEF CreateFits
<1>5. RenameFits(q, d) => RenameFits(q, e)
  BY <1>0, <1>1, <1>2 DEF RenameFits, Both, Listing
<1>6. DeleteFits(q, d) => DeleteFits(q, e)
  BY <1>0, <1>1, <1>2 DEF DeleteFits, Listing
<1>7. ItemFits(q, d) => ItemFits(q, e)
  BY <1>0, <1>1, <1>2 DEF ItemFits, Both, Listing
<1>8. Fits(q, d) => Fits(q, e)
  BY <1>3, <1>4, <1>5, <1>6, <1>7 DEF Fits
<1>9. ASSUME WorkOK(q, d), q.at \in {"insertItem", "dropItem"} => q.arg \in Videos
      PROVE  WorkOK(q, e)
  BY <1>0, <1>1, <1>9 DEF WorkOK
<1> QED
  BY <1>8, <1>9

-------------------------------------------------------------------------------
(* Steps, of any handler.                                                  *)

(* An add changes no membership that is there.                             *)
Grows(d, e, p) ==
    \A u \in Users, v \in Videos :
        d.members[<<u, v, p>>] # 0 => e.members[<<u, v, p>>] = d.members[<<u, v, p>>]

(* The request of slot r has made the tables d, and becomes q.             *)
Serves(r, q, d) ==
    LET p == req[r].pl IN
    /\ "fault" \notin hit[p] =>
         /\ IndexedOK(d, p)
         /\ q.op # "delete" => Deleted(d, p)
         /\ q # Idle => WorkOK(q, d)
         /\ req[r].op = "add" => Grows(db, d, p)
    /\ hit[p] = {} => IF q = Idle THEN Rest(d, p) ELSE Fits(q, d)

LEMMA ItemArg ==
  ASSUME Inv, NEW r \in Slots
  PROVE  /\ req[r].at \in {"insertItem", "dropItem", "member"} => req[r].arg \in Videos
         /\ req[r] # Idle => req[r] \in Request /\ req[r].at # "idle"
<1>1. req[r] = Idle \/ req[r] \in Request
  BY DEF Inv, HandlerOK
<1>2. req[r] # Idle => req[r] \in Request /\ req[r].at # "idle"
  BY <1>1 DEF Request
<1>3. req[r].at \in {"insertItem", "dropItem", "member"} => req[r].at \in ItemSteps
  BY DEF ItemSteps
<1> QED
  BY <1>2, <1>3, ItemServed

LEMMA TidyMoves ==
  ASSUME Inv, Inv', Tidy, NEW r \in Slots, req[r].at # "idle", NEW q,
         req' = [req EXCEPT ![r] = q], GoesOn(req[r], q),
         Elsewhere(req[r].pl, db, db'), now' \in Nat, now <= now',
         TimesOK(db'.items[req[r].pl], now'), StepOK(q, now'),
         \/ hit' = [hit EXCEPT ![req[r].pl] = @ \cup {"fault"}]
         \/ hit' = hit /\ Serves(r, q, db')
  PROVE  Tidy'
<1> DEFINE p == req[r].pl
<1>1. /\ p \in Playlists /\ p # NoPlaylist /\ req[r] \in Request
      /\ db \in Tables /\ now \in Nat /\ req \in [Slots -> Request \cup {Idle}]
      /\ hit \in [Playlists -> SUBSET {"fault", "overlap"}]
  BY ServedOK, NullAssumption DEF Inv, TypeOK
<1>2. \A s \in Slots : req'[s] = IF s = r THEN q ELSE req[s]
  BY <1>1
<1>3. \A p2 \in Playlists \ {p} : hit'[p2] = hit[p2]
  BY <1>1
<1>4. (hit' = hit /\ Serves(r, q, db')) \/ "fault" \in hit'[p]
  BY <1>1
<1>5. \A p2 \in Playlists : hit'[p2] = {} => hit[p2] = {}
  BY <1>1
<1>6. \A p2 \in Playlists : "fault" \notin hit'[p2] => "fault" \notin hit[p2]
  BY <1>1
<1>7. q = Idle \/ (q.pl = p /\ q.op = req[r].op)
  BY DEF GoesOn
<1>8. q = Idle \/ q \in Request
  BY <1>1, <1>2 DEF Inv, HandlerOK
<1>a. (\A p2 \in Playlists : TimesOK(db.items[p2], now))'
  <2> SUFFICES ASSUME NEW p2 \in Playlists \ {p} PROVE TimesOK(db'.items[p2], now')
    OBVIOUS
  <2>1. TimesOK(db.items[p2], now) /\ db'.items[p2] = db.items[p2]
    BY DEF Tidy, Elsewhere
  <2> QED
    BY <1>1, <2>1 DEF TimesOK
<1>b. (\A s \in Slots : StepOK(req[s], now))'
  <2> SUFFICES ASSUME NEW s \in Slots PROVE StepOK(req'[s], now')
    OBVIOUS
  <2>1. CASE s = r
    BY <1>2, <2>1
  <2>2. CASE s # r
    <3>1. req'[s] = req[s] /\ StepOK(req[s], now)
      BY <1>2, <2>2 DEF Tidy
    <3> QED
      BY <1>1, <3>1 DEF StepOK
  <2> QED
    BY <2>1, <2>2
<1>c. AloneButAdds'
  <2> SUFFICES ASSUME NEW s1 \in Slots, NEW s2 \in Slots, s1 # s2,
                      req'[s1].pl = req'[s2].pl, req'[s1].pl # NoPlaylist
               PROVE  req'[s1].op = "add" /\ req'[s2].op = "add" /\ hit'[req'[s1].pl] # {}
    BY DEF AloneButAdds
  <2>1. \A s \in Slots : req'[s].pl # NoPlaylist =>
          req'[s].pl = req[s].pl /\ req'[s].op = req[s].op
    BY <1>2, <1>7, IdleOK
  <2>2. \A s \in Slots : req[s].pl # NoPlaylist => req[s].pl \in Playlists
    BY <1>1, IdleOK DEF Request
  <2> QED
    BY <1>5, <2>1, <2>2 DEF Tidy, AloneButAdds
<1>d. ASSUME NEW p2 \in Playlists, "fault" \notin hit'[p2]
      PROVE  /\ IndexedOK(db', p2)
             /\ (\A s \in Slots : req'[s].pl = p2 => req'[s].op # "delete") => Deleted(db', p2)
  <2>1. CASE p2 = p
    <3>1. Serves(r, q, db') /\ "fault" \notin hit[p]
      BY <1>4, <1>6, <1>d, <2>1
    <3>2. (\A s \in Slots : req'[s].pl = p2 => req'[s].op # "delete") => q.op # "delete"
      BY <1>2, <1>7, <2>1 DEF Idle
    <3> QED
      BY <2>1, <3>1, <3>2 DEF Serves
  <2>2. CASE p2 # p
    <3>1. "fault" \notin hit[p2]
      BY <1>6, <1>d
    <3>2. (\A s \in Slots : req'[s].pl = p2 => req'[s].op # "delete") =>
          (\A s \in Slots : req[s].pl = p2 => req[s].op # "delete")
      BY <1>2, <2>2
    <3>3. db.items[p2] \in SUBSET Item /\ PlaylistOK(db, p2)
      BY <1>1 DEF Tables, Inv
    <3> QED
      BY <2>2, <3>1, <3>2, <3>3, RestFrame DEF Tidy
  <2> QED
    BY <2>1, <2>2
<1>e. ASSUME NEW s \in Slots, req'[s] # Idle
      PROVE  /\ "fault" \notin hit'[req'[s].pl] => WorkOK(req'[s], db')
             /\ hit'[req'[s].pl] = {} => Fits(req'[s], db')
  <2>1. CASE s = r
    <3>1. req'[s] = q /\ q.pl = p
      BY <1>2, <1>7, <1>e, <2>1
    <3>2. ASSUME "fault" \notin hit'[p] PROVE WorkOK(q, db')
      BY <1>4, <1>6, <1>1, <1>e, <3>1, <3>2 DEF Serves
    <3>3. ASSUME hit'[p] = {} PROVE Fits(q, db')
      BY <1>4, <1>5, <1>1, <1>e, <3>1, <3>3 DEF Serves
    <3> QED
      BY <3>1, <3>2, <3>3
  <2>2. CASE s # r
    <3>1. /\ req'[s] = req[s] /\ req[s] # Idle /\ req[s] \in Request
          /\ "fault" \notin hit[req[s].pl] => WorkOK(req[s], db)
          /\ hit[req[s].pl] = {} => Fits(req[s], db)
          /\ req[s].at \in {"insertItem", "dropItem"} => req[s].arg \in Videos
      BY <1>2, <1>e, <2>2, ItemArg DEF Tidy
    <3>2. CASE req[s].pl # p
      <4>1. hit'[req[s].pl] = hit[req[s].pl]
        BY <1>3, <3>1, <3>2 DEF Request
      <4> QED
        BY <3>1, <3>2, <4>1, FitsFrame
    <3>3. CASE req[s].pl = p
      <4>1. req[r].op = "add" /\ req[s].op = "add" /\ hit[p] # {}
        BY <1>1, <2>2, <3>3 DEF Tidy, AloneButAdds
      <4>2. hit'[p] # {}
        BY <1>1, <1>5, <4>1
      <4>3. ASSUME "fault" \notin hit'[p] PROVE WorkOK(req[s], db')
        <5>1. Grows(db, db', p) /\ WorkOK(req[s], db)
          BY <1>1, <1>4, <1>6, <3>1, <3>3, <4>1, <4>3 DEF Serves
        <5>2. StepOK(req[s], now)
          BY DEF Tidy
        <5>3. req[s].at = "insertItem" =>
                db'.members[<<req[s].user, req[s].arg, p>>] = req[s].stamp
          <6> SUFFICES ASSUME req[s].at = "insertItem"
                       PROVE  db'.members[<<req[s].user, req[s].arg, p>>] = req[s].stamp
            OBVIOUS
          <6>1. db.members[<<req[s].user, req[s].arg, p>>] = req[s].stamp
            BY <3>3, <5>1 DEF WorkOK
          <6>2. req[s].stamp # 0 /\ req[s].user \in Users /\ req[s].arg \in Videos
            BY <1>1, <3>1, <5>2 DEF StepOK, Request
          <6> QED
            BY <5>1, <6>1, <6>2 DEF Grows
        <5> QED
          BY <3>3, <4>1, <5>2, <5>3 DEF WorkOK, StepOK
      <4> QED
        BY <3>1, <3>3, <4>2, <4>3
    <3> QED
      BY <3>2, <3>3
  <2> QED
    BY <2>1, <2>2
<1>f. ASSUME NEW p2 \in Playlists, hit'[p2] = {}, ~ Busy(p2)' PROVE Rest(db', p2)
  <2>1. \A s \in Slots : req'[s].pl # p2
    BY <1>f DEF Busy
  <2>2. CASE p2 = p
    <3>1. q = Idle
      BY <1>2, <1>7, <2>1, <2>2
    <3> QED
      BY <1>1, <1>4, <1>5, <1>f, <2>2, <3>1 DEF Serves
  <2>3. CASE p2 # p
    <3>1. ~ Busy(p2) /\ hit[p2] = {}
      BY <1>2, <1>5, <1>f, <2>1, <2>3 DEF Busy
    <3>2. PlaylistOK(db, p2)
      BY DEF Inv
    <3> QED
      BY <2>3, <3>1, <3>2, RestFrame DEF Tidy
  <2> QED
    BY <2>2, <2>3
<1> QED
  BY <1>a, <1>b, <1>c, <1>d, <1>e, <1>f DEF Tidy

LEMMA SameElsewhere ==
  ASSUME NEW p, NEW d
  PROVE  Elsewhere(p, d, d)
BY DEF Elsewhere

LEMMA IdleSteps == \A t : StepOK(Idle, t)
BY DEF StepOK, Idle

(* What is known of the playlist a request is about.                       *)
LEMMA Around ==
  ASSUME Inv, Tidy, NEW r \in Slots, req[r].at # "idle"
  PROVE  /\ req[r].pl \in Playlists /\ req[r].user \in Users /\ req[r] \in Request
         /\ db \in Tables /\ now \in Nat
         /\ TimesOK(db.items[req[r].pl], now) /\ StepOK(req[r], now)
         /\ "fault" \notin hit[req[r].pl] => IndexedOK(db, req[r].pl) /\ WorkOK(req[r], db)
         /\ hit[req[r].pl] = {} => Fits(req[r], db) /\ OnlyOf(db, req[r].user, req[r].pl)
         /\ req[r].op # "delete" /\ "fault" \notin hit[req[r].pl] => Deleted(db, req[r].pl)
         /\ \A s \in Slots : s # r /\ req[s].pl = req[r].pl => req[r].op = "add"
<1> DEFINE p == req[r].pl
<1>1. /\ p \in Playlists /\ p # NoPlaylist /\ req[r] \in Request /\ req[r].user \in Users
      /\ db \in Tables /\ now \in Nat /\ req[r] # Idle
  BY ServedOK, NullAssumption DEF Inv, TypeOK, Idle
<1>2. \A s \in Slots : s # r /\ req[s].pl = p => req[r].op = "add" /\ req[s].op = "add"
  BY <1>1 DEF Tidy, AloneButAdds
<1>3. req[r].op # "delete" => \A s \in Slots : req[s].pl = p => req[s].op # "delete"
  BY <1>2
<1>4. "fault" \notin hit[p] => IndexedOK(db, p) /\ WorkOK(req[r], db)
  BY <1>1 DEF Tidy
<1>5. hit[p] = {} => Fits(req[r], db) /\ OnlyOf(db, req[r].user, p)
  BY <1>1 DEF Tidy, Fits
<1>6. req[r].op # "delete" /\ "fault" \notin hit[p] => Deleted(db, p)
  BY <1>1, <1>3 DEF Tidy
<1>7. TimesOK(db.items[p], now) /\ StepOK(req[r], now)
  BY <1>1 DEF Tidy
<1> QED
  BY <1>1, <1>2, <1>4, <1>5, <1>6, <1>7

LEMMA ReadsTidy ==
  ASSUME Inv, Inv', Tidy, NEW r \in Slots, req[r].at # "idle", NEW q, Reads(r, q),
         GoesOn(req[r], q), StepOK(q, now), Serves(r, q, db)
  PROVE  Tidy'
<1>1. db' = db /\ now' = now /\ hit' = hit /\ req' = [req EXCEPT ![r] = q]
  BY DEF Reads
<1>2. now \in Nat /\ TimesOK(db.items[req[r].pl], now)
  BY Around
<1>3. Elsewhere(req[r].pl, db, db')
  BY <1>1, SameElsewhere
<1>4. now' \in Nat /\ now <= now' /\ TimesOK(db'.items[req[r].pl], now') /\ StepOK(q, now')
  BY <1>1, <1>2
<1>5. hit' = hit /\ Serves(r, q, db')
  BY <1>1
<1> QED
  BY <1>1, <1>3, <1>4, <1>5, TidyMoves

LEMMA WritesTidy ==
  ASSUME Inv, Inv', Tidy, NEW r \in Slots, req[r].at # "idle", NEW d, NEW q, NEW c,
         Writes(r, d, q, c), Elsewhere(req[r].pl, db, d), TimesOK(d.items[req[r].pl], now),
         GoesOn(req[r], q), GoesOn(req[r], c), StepOK(q, now), StepOK(c, now), Serves(r, q, d)
  PROVE  Tidy'
<1>1. /\ now' = now /\ now' \in Nat /\ now <= now'
      /\ TimesOK(db.items[req[r].pl], now') /\ TimesOK(d.items[req[r].pl], now')
      /\ StepOK(q, now') /\ StepOK(c, now')
  BY Around DEF Writes
<1>2. Elsewhere(req[r].pl, db, db)
  BY SameElsewhere
<1>3. CASE db' = d /\ req' = [req EXCEPT ![r] = q] /\ hit' = hit
  <2>1. Elsewhere(req[r].pl, db, db') /\ TimesOK(db'.items[req[r].pl], now') /\ Serves(r, q, db')
    BY <1>1, <1>3
  <2> QED
    BY <1>1, <1>3, <2>1, TidyMoves
<1>4. CASE /\ db' \in {db, d} /\ req' = [req EXCEPT ![r] = c]
           /\ hit' = [hit EXCEPT ![req[r].pl] = @ \cup {"fault"}]
  <2>1. Elsewhere(req[r].pl, db, db') /\ TimesOK(db'.items[req[r].pl], now')
    <3>1. CASE db' = db
      BY <1>1, <1>2, <3>1
    <3>2. CASE db' = d
      BY <1>1, <3>2
    <3> QED
      BY <1>4, <3>1, <3>2
  <2> QED
    BY <1>1, <1>4, <2>1, TidyMoves
<1> QED
  BY <1>3, <1>4 DEF Writes

(* A request arrives; if nothing has hit the playlist, nobody is there.    *)
LEMMA ArrivesTidy ==
  ASSUME Inv, Inv', Tidy, Overlap \subseteq {"add"}, NEW r \in Slots, NEW q \in Request,
         Arrives(r, q), UNCHANGED now,
         q.at \in {"count", "reserve", "nameById", "dropByUser", "lookup"},
         q.op = "delete" => db.byId[q.pl] # NoRow,
         Rest(db, q.pl) => Fits(q, db)
  PROVE  Tidy'
<1> DEFINE p == q.pl
           others == {s \in Slots : req[s].pl = p}
<1>1. /\ \A s \in others : {q.op, req[s].op} \subseteq {"add"}
      /\ hit' = IF others = {} THEN hit ELSE [hit EXCEPT ![p] = @ \cup {"overlap"}]
      /\ req' = [req EXCEPT ![r] = q] /\ db' = db /\ now' = now /\ req[r] = Idle
  BY DEF Arrives
<1>2. /\ p \in Playlists /\ p # NoPlaylist /\ q # Idle
      /\ db \in Tables /\ now \in Nat /\ req \in [Slots -> Request \cup {Idle}]
      /\ hit \in [Playlists -> SUBSET {"fault", "overlap"}]
  BY NullAssumption DEF Inv, TypeOK, Request, Idle
<1>3. \A s \in Slots : req'[s] = IF s = r THEN q ELSE req[s]
  BY <1>1, <1>2
<1>4. \A p2 \in Playlists : /\ hit'[p2] = {} => hit[p2] = {}
                            /\ "fault" \notin hit'[p2] => "fault" \notin hit[p2]
  BY <1>1, <1>2
<1>5. hit'[p] = {} => others = {}
  BY <1>1, <1>2
<1>6. others # {} => hit'[p] # {}
  BY <1>5
<1> HIDE DEF others
<1>a. (\A p2 \in Playlists : TimesOK(db.items[p2], now))'
  BY <1>1 DEF Tidy
<1>b. (\A s \in Slots : StepOK(req[s], now))'
  <2>1. StepOK(q, now)
    BY DEF StepOK
  <2> QED
    BY <1>1, <1>3, <2>1 DEF Tidy
<1>c. AloneButAdds'
  <2> SUFFICES ASSUME NEW s1 \in Slots, NEW s2 \in Slots, s1 # s2,
                      req'[s1].pl = req'[s2].pl, req'[s1].pl # NoPlaylist
               PROVE  req'[s1].op = "add" /\ req'[s2].op = "add" /\ hit'[req'[s1].pl] # {}
    BY DEF AloneButAdds
  <2>1. CASE s1 # r /\ s2 # r
    <3>1. req'[s1] = req[s1] /\ req'[s2] = req[s2]
      BY <1>3, <2>1
    <3>2. req[s1].pl \in Playlists
      BY <1>2, <3>1, IdleOK DEF Request
    <3> QED
      BY <1>4, <3>1, <3>2 DEF Tidy, AloneButAdds
  <2>2. ASSUME NEW s \in Slots, s # r, req[s].pl = p
        PROVE  q.op = "add" /\ req[s].op = "add" /\ hit'[p] # {}
    <3>1. s \in others
      BY <2>2 DEF others
    <3> QED
      BY <1>1, <1>6, <3>1
  <2>3. CASE s1 = r
    <3>1. req'[s1] = q /\ req'[s2] = req[s2] /\ req[s2].pl = p /\ s2 # r
      BY <1>3, <2>3
    <3> QED
      BY <2>2, <3>1
  <2>4. CASE s2 = r
    <3>1. req'[s2] = q /\ req'[s1] = req[s1] /\ req[s1].pl = p /\ s1 # r
      BY <1>3, <2>4
    <3> QED
      BY <2>2, <3>1
  <2> QED
    BY <2>1, <2>3, <2>4
<1>d. ASSUME NEW p2 \in Playlists, "fault" \notin hit'[p2]
      PROVE  /\ IndexedOK(db', p2)
             /\ (\A s \in Slots : req'[s].pl = p2 => req'[s].op # "delete") => Deleted(db', p2)
  <2>1. IndexedOK(db, p2)
    BY <1>4, <1>d DEF Tidy
  <2>2. ASSUME \A s \in Slots : req'[s].pl = p2 => req'[s].op # "delete" PROVE Deleted(db, p2)
    <3>1. \A s \in Slots : req[s].pl = p2 => req[s].op # "delete"
      <4> SUFFICES ASSUME NEW s \in Slots, req[s].pl = p2 PROVE req[s].op # "delete"
        OBVIOUS
      <4>1. s # r
        BY <1>1, <1>2, NullAssumption DEF Idle
      <4> QED
        BY <1>3, <2>2, <4>1
    <3> QED
      BY <1>4, <1>d, <3>1 DEF Tidy
  <2> QED
    BY <1>1, <2>1, <2>2
<1>e. ASSUME NEW s \in Slots, req'[s] # Idle
      PROVE  /\ "fault" \notin hit'[req'[s].pl] => WorkOK(req'[s], db')
             /\ hit'[req'[s].pl] = {} => Fits(req'[s], db')
  <2>1. CASE s = r
    <3>1. WorkOK(q, db)
      BY DEF WorkOK
    <3>2. ASSUME hit'[p] = {} PROVE Fits(q, db)
      <4>1. ~ Busy(p)
        BY <1>5, <3>2 DEF Busy, others
      <4> QED
        BY <1>2, <1>4, <3>2, <4>1 DEF Tidy
    <3> QED
      BY <1>1, <1>3, <2>1, <3>1, <3>2
  <2>2. CASE s # r
    <3>1. req'[s] = req[s] /\ req[s] # Idle
      BY <1>3, <1>e, <2>2
    <3>2. req[s].pl \in Playlists
      BY <1>2, <3>1 DEF Request
    <3> QED
      BY <1>1, <1>4, <3>1, <3>2 DEF Tidy
  <2> QED
    BY <2>1, <2>2
<1>f. ASSUME NEW p2 \in Playlists, hit'[p2] = {}, ~ Busy(p2)' PROVE Rest(db', p2)
  <2>1. p2 # p
    BY <1>3, <1>f DEF Busy
  <2>2. ~ Busy(p2)
    <3>1. \A s \in Slots : req'[s].pl # p2
      BY <1>f DEF Busy
    <3>2. req[r].pl # p2
      BY <1>1, NullAssumption DEF Idle
    <3> QED
      BY <1>3, <3>1, <3>2 DEF Busy
  <2> QED
    BY <1>1, <1>4, <1>f, <2>2 DEF Tidy
<1> QED
  BY <1>a, <1>b, <1>c, <1>d, <1>e, <1>f DEF Tidy

LEMMA RestartTidy ==
  ASSUME Inv, Tidy, Restart
  PROVE  Tidy'
<1>1. /\ req' = [r \in Slots |-> Idle] /\ db' = db /\ now' = now
      /\ hit' = [p \in Playlists |->
                   IF \E r \in Slots : req[r].pl = p THEN hit[p] \cup {"fault"} ELSE hit[p]]
  BY DEF Restart
<1>2. ASSUME NEW p \in Playlists, "fault" \notin hit'[p]
      PROVE  ~ Busy(p) /\ hit[p] = hit'[p]
  BY <1>1, <1>2 DEF Busy
<1>3. \A r \in Slots : StepOK(req'[r], now')
  BY <1>1, IdleSteps
<1>4. AloneButAdds'
  BY <1>1, IdleOK DEF AloneButAdds
<1>5. ASSUME NEW p \in Playlists, "fault" \notin hit'[p]
      PROVE  IndexedOK(db, p) /\ Deleted(db, p)
  <2>1. ~ Busy(p) /\ "fault" \notin hit[p]
    BY <1>2, <1>5
  <2>2. \A r \in Slots : req[r].pl = p => req[r].op # "delete"
    BY <2>1 DEF Busy
  <2> QED
    BY <2>1, <2>2 DEF Tidy
<1>6. ASSUME NEW p \in Playlists, hit'[p] = {} PROVE Rest(db, p)
  BY <1>2, <1>6 DEF Tidy
<1>7. (\A p \in Playlists : TimesOK(db.items[p], now))'
  BY <1>1 DEF Tidy
<1>8. \A r \in Slots : req'[r] = Idle
  BY <1>1
<1> QED
  BY <1>1, <1>3, <1>4, <1>5, <1>6, <1>7, <1>8 DEF Tidy

LEMMA TidyInit == Init => Tidy
<1> SUFFICES ASSUME Init PROVE Tidy
  OBVIOUS
<1>1. /\ \A p \in Playlists : db.byId[p] = NoRow /\ db.items[p] = {}
      /\ \A u \in Users, v \in Videos, p \in Playlists : db.members[<<u, v, p>>] = 0
      /\ \A r \in Slots : req[r] = Idle
      /\ now = 0
  BY DEF Init
<1>2. \A p \in Playlists : TimesOK(db.items[p], now)
  BY <1>1, FS_EmptySet DEF TimesOK
<1>3. \A p \in Playlists : IndexedOK(db, p) /\ Deleted(db, p) /\ Rest(db, p)
  BY <1>1 DEF IndexedOK, Deleted, Rest, Members
<1>4. AloneButAdds /\ \A r \in Slots : StepOK(req[r], now)
  BY <1>1, IdleOK, IdleSteps DEF AloneButAdds
<1> QED
  BY <1>1, <1>2, <1>3, <1>4 DEF Tidy

-------------------------------------------------------------------------------
(* Statements that write one table.                                        *)

LEMMA SameContents ==
  ASSUME NEW d, NEW e, e.items = d.items, e.members = d.members
  PROVE  \A u, p : /\ Members(e, u, p) = Members(d, u, p)
                   /\ OnlyOf(e, u, p) <=> OnlyOf(d, u, p)
                   /\ Listing(e, u, p) <=> Listing(d, u, p)
                   /\ Grows(d, e, p)
BY DEF Members, OnlyOf, Listing, Grows

LEMMA ByIdElsewhere ==
  ASSUME NEW d \in Tables, NEW p \in Playlists, NEW row
  PROVE  LET e == [d EXCEPT !.byId[p] = row] IN
         /\ Elsewhere(p, d, e) /\ e.byId[p] = row
         /\ e.byUser = d.byUser /\ e.items = d.items /\ e.members = d.members
<1> DEFINE e == [d EXCEPT !.byId[p] = row]
<1>1. /\ e.byId = [d.byId EXCEPT ![p] = row]
      /\ e.byUser = d.byUser /\ e.items = d.items /\ e.members = d.members
  BY DEF Tables
<1> HIDE DEF e
<1>2. e.byId[p] = row /\ \A p2 \in Playlists \ {p} : e.byId[p2] = d.byId[p2]
  BY <1>1 DEF Tables
<1>3. Elsewhere(p, d, e)
  BY <1>1, <1>2 DEF Elsewhere
<1> QED
  BY <1>1, <1>2, <1>3 DEF e

LEMMA ByUserElsewhere ==
  ASSUME NEW d \in Tables, NEW p \in Playlists, NEW u \in Users, NEW row
  PROVE  LET e == [d EXCEPT !.byUser[<<u, p>>] = row] IN
         /\ Elsewhere(p, d, e) /\ e.byUser[<<u, p>>] = row
         /\ e.byId = d.byId /\ e.items = d.items /\ e.members = d.members
<1> DEFINE e == [d EXCEPT !.byUser[<<u, p>>] = row]
<1>1. /\ e.byUser = [d.byUser EXCEPT ![<<u, p>>] = row]
      /\ e.byId = d.byId /\ e.items = d.items /\ e.members = d.members
  BY DEF Tables
<1> HIDE DEF e
<1>2. /\ e.byUser[<<u, p>>] = row
      /\ \A u2 \in Users, p2 \in Playlists \ {p} : e.byUser[<<u2, p2>>] = d.byUser[<<u2, p2>>]
  BY <1>1 DEF Tables
<1>3. Elsewhere(p, d, e)
  BY <1>1, <1>2 DEF Elsewhere
<1> QED
  BY <1>1, <1>2, <1>3 DEF e

LEMMA NamesElsewhere ==
  ASSUME NEW d \in Tables, NEW k, NEW x, NEW p
  PROVE  LET e == [d EXCEPT !.names[k] = x] IN
         /\ Elsewhere(p, d, e) /\ e.byId = d.byId /\ e.byUser = d.byUser
         /\ e.items = d.items /\ e.members = d.members
<1> DEFINE e == [d EXCEPT !.names[k] = x]
<1>1. e.byId = d.byId /\ e.byUser = d.byUser /\ e.items = d.items /\ e.members = d.members
  BY DEF Tables
<1> HIDE DEF e
<1>2. Elsewhere(p, d, e)
  BY <1>1 DEF Elsewhere
<1> QED
  BY <1>1, <1>2 DEF e

LEMMA ItemsElsewhere ==
  ASSUME NEW d \in Tables, NEW p \in Playlists, NEW S
  PROVE  LET e == [d EXCEPT !.items[p] = S] IN
         /\ Elsewhere(p, d, e) /\ e.items[p] = S
         /\ e.byId = d.byId /\ e.byUser = d.byUser /\ e.members = d.members
<1> DEFINE e == [d EXCEPT !.items[p] = S]
<1>1. /\ e.items = [d.items EXCEPT ![p] = S]
      /\ e.byId = d.byId /\ e.byUser = d.byUser /\ e.members = d.members
  BY DEF Tables
<1> HIDE DEF e
<1>2. e.items[p] = S /\ \A p2 \in Playlists \ {p} : e.items[p2] = d.items[p2]
  BY <1>1 DEF Tables
<1>3. Elsewhere(p, d, e)
  BY <1>1, <1>2 DEF Elsewhere
<1> QED
  BY <1>1, <1>2, <1>3 DEF e

LEMMA MemberElsewhere ==
  ASSUME NEW d \in Tables, NEW p \in Playlists, NEW u \in Users, NEW v \in Videos, NEW n, NEW e,
         e.members = [d.members EXCEPT ![<<u, v, p>>] = n],
         e.byId = d.byId, e.byUser = d.byUser, e.items = d.items
  PROVE  /\ Elsewhere(p, d, e)
         /\ \A u2 \in Users, v2 \in Videos :
              <<u2, v2>> # <<u, v>> => e.members[<<u2, v2, p>>] = d.members[<<u2, v2, p>>]
         /\ n = 0 => Members(e, u, p) = Members(d, u, p) \ {v}
         /\ n # 0 => Members(e, u, p) = Members(d, u, p) \cup {v}
         /\ OnlyOf(d, u, p) => OnlyOf(e, u, p)
<1>1. /\ e.members[<<u, v, p>>] = n
      /\ \A u2 \in Users, v2 \in Videos, p2 \in Playlists :
           <<u2, v2, p2>> # <<u, v, p>> => e.members[<<u2, v2, p2>>] = d.members[<<u2, v2, p2>>]
  BY DEF Tables
<1>2. Elsewhere(p, d, e)
  BY <1>1 DEF Elsewhere
<1>3. /\ n = 0 => Members(e, u, p) = Members(d, u, p) \ {v}
      /\ n # 0 => Members(e, u, p) = Members(d, u, p) \cup {v}
  BY <1>1 DEF Members
<1>4. OnlyOf(d, u, p) => OnlyOf(e, u, p)
  BY <1>1 DEF OnlyOf, Members
<1> QED
  BY <1>1, <1>2, <1>3, <1>4

(* A playlist that a request leaves in order.                              *)
LEMMA LeftAtRest ==
  ASSUME NEW d, NEW q, Owns(q, d), Both(q, d), Counts(d.byId[q.pl], d.items[q.pl]),
         Listing(d, q.user, q.pl), OnlyOf(d, q.user, q.pl)
  PROVE  Rest(d, q.pl)
BY DEF Rest, Owns, Both

(* And one that it finds in order.                                         *)
LEMMA FoundAtRest ==
  ASSUME NEW d, NEW q, Owns(q, d), Rest(d, q.pl)
  PROVE  /\ Both(q, d) /\ Counts(d.byId[q.pl], d.items[q.pl])
         /\ Listing(d, q.user, q.pl) /\ OnlyOf(d, q.user, q.pl)
BY DEF Rest, Owns, Both

LEMMA NoCovers == <<>> \in CoversOf({})
<1>1. <<>> \in SeqOf(Videos, MaxCovers)
  <2>1. 0 \in 0 .. MaxCovers
    BY LimitsAssumption
  <2>2. <<>> \in [1 .. 0 -> Videos]
    OBVIOUS
  <2> QED
    BY <2>1, <2>2 DEF SeqOf
<1> DEFINE g == [j \in {} |-> <<>>]
<1>2. g \in [DOMAIN <<>> -> {}] /\ DOMAIN <<>> = {}
  OBVIOUS
<1>3. {i \in {} : i.video \in Thumbnailed} = {}
  OBVIOUS
<1> QED
  BY <1>1, <1>2, <1>3 DEF CoversOf

-------------------------------------------------------------------------------
(* Arrivals.                                                               *)

LEMMA CreateTidy ==
  ASSUME Inv, Inv', Tidy, Overlap \subseteq {"add"}, NEW r \in Slots, NEW u \in Users,
         NEW p \in Playlists, NEW n \in Names, Create(r, u, p, n)
  PROVE  Tidy'
<1> DEFINE q == Asked("create", "count", u, p, n)
<1>1. q = [op |-> "create", at |-> "count", user |-> u, pl |-> p, arg |-> n,
           meta |-> NoRow, stamp |-> 0, todo |-> {}]
  BY DEF Create, Asked
<1>2. q \in Request
  BY <1>1 DEF Create, Arrives, Request, Steps
<1>3. db.byId[p] = NoRow
  BY DEF Create
<1>4. Rest(db, p) => Fits(q, db)
  BY <1>1, <1>3 DEF Rest, Fits, CreateFits, OnlyOf, ItemOps
<1> HIDE DEF q
<1>5. Arrives(r, q) /\ UNCHANGED now
  BY DEF Create, q
<1> QED
  BY <1>1, <1>2, <1>4, <1>5, ArrivesTidy

(* Of a playlist that is there.                                            *)
LEMMA FoundTidy ==
  ASSUME Inv, Inv', Tidy, Overlap \subseteq {"add"}, NEW r \in Slots, NEW u \in Users,
         NEW p \in Playlists, NEW op \in {"rename", "delete", "add", "remove"}, NEW at,
         NEW x \in Names \cup Videos \cup {NoName},
         Mine(u, p), UNCHANGED now, Arrives(r, Asked(op, at, u, p, x)),
         \/ op = "rename" /\ at \in {"reserve", "nameById"}
         \/ op = "delete" /\ at = "dropByUser"
         \/ op \in {"add", "remove"} /\ at = "lookup"
  PROVE  Tidy'
<1> DEFINE q == Asked(op, at, u, p, x)
<1>1. q = [op |-> op, at |-> at, user |-> u, pl |-> p, arg |-> x,
           meta |-> db.byId[p], stamp |-> 0, todo |-> {}]
  BY DEF Asked
<1>2. db.byId[p] \in Row /\ db.byId[p] # NoRow /\ db.byId[p].user = u
  BY DEF Mine, Inv, TypeOK, Tables
<1>3. q \in Request
  BY <1>1, <1>2 DEF Arrives, Request, Steps
<1>4. q.pl = p /\ q.user = u /\ q.op = op /\ q.at = at /\ q.meta = db.byId[p]
  BY <1>1
<1> HIDE DEF q
<1>5. Owns(q, db)
  BY <1>2, <1>4 DEF Owns
<1>6. ASSUME Rest(db, p) PROVE Fits(q, db)
  <2>1. /\ Both(q, db) /\ Counts(db.byId[p], db.items[p])
        /\ Listing(db, u, p) /\ OnlyOf(db, u, p)
    BY <1>4, <1>5, <1>6, FoundAtRest
  <2>2. op = "rename" => RenameFits(q, db)
    BY <1>4, <2>1 DEF RenameFits
  <2>3. op = "delete" => DeleteFits(q, db)
    BY <1>4, <2>1 DEF DeleteFits
  <2>4. op \in {"add", "remove"} => ItemFits(q, db)
    BY <1>4, <2>1 DEF ItemFits
  <2> QED
    BY <1>4, <2>1, <2>2, <2>3, <2>4 DEF Fits, ItemOps
<1>7. Arrives(r, q) /\ q.at \in {"reserve", "nameById", "dropByUser", "lookup"}
  BY <1>4 DEF q
<1> QED
  BY <1>2, <1>3, <1>4, <1>6, <1>7, ArrivesTidy

LEMMA ArrivalTidy ==
  ASSUME Inv, Inv', Tidy, Overlap \subseteq {"add"}, NEW r \in Slots, Arrival(r)
  PROVE  Tidy'
<1> SUFFICES ASSUME NEW u \in Users, NEW p \in Playlists,
                    \/ Delete(r, u, p)
                    \/ \E n \in Names : Create(r, u, p, n) \/ Rename(r, u, p, n)
                    \/ \E v \in Videos : AddItem(r, u, p, v) \/ RemoveItem(r, u, p, v)
             PROVE  Tidy'
  BY DEF Arrival
<1>1. CASE Delete(r, u, p)
  BY <1>1, FoundTidy DEF Delete
<1>2. ASSUME NEW n \in Names, Create(r, u, p, n) PROVE Tidy'
  BY <1>2, CreateTidy
<1>3. ASSUME NEW n \in Names, Rename(r, u, p, n) PROVE Tidy'
  <2> DEFINE at == IF Fold[db.byId[p].name] = Fold[n] THEN "nameById" ELSE "reserve"
  <2>1. at \in {"reserve", "nameById"}
    OBVIOUS
  <2>2. /\ Arrives(r, Asked("rename", at, u, p, n)) /\ Mine(u, p) /\ UNCHANGED now
        /\ n \in Names \cup Videos \cup {NoName}
    BY <1>3 DEF Rename
  <2> HIDE DEF at
  <2> QED
    BY <2>1, <2>2, FoundTidy
<1>4. ASSUME NEW v \in Videos, AddItem(r, u, p, v) \/ RemoveItem(r, u, p, v) PROVE Tidy'
  BY <1>4, FoundTidy DEF AddItem, RemoveItem
<1> QED
  BY <1>1, <1>2, <1>3, <1>4

-------------------------------------------------------------------------------
(* The statements of create, rename and delete.                            *)

LEMMA CountTidy ==
  ASSUME Inv, Inv', Tidy, NEW r \in Slots, CountPlaylists(r)
  PROVE  Tidy'
<1> DEFINE q == req[r]
           t == To(r, "reserve")
<1>1. /\ q.at = "count" /\ q.at # "idle" /\ q \in Request /\ HandlerOK(q, db)
      /\ q.op \in {"create", "rename", "delete", "add", "remove"}
  BY ServedOK DEF CountPlaylists, At
<1>2. q.op = "create" /\ CreateOK(q, db)
  BY <1>1, IdleOK DEF HandlerOK, RenameOK, DeleteOK, ItemOK
<1>3. t.at = "reserve" /\ t.op = q.op /\ t.user = q.user /\ t.pl = q.pl /\ t # Idle
  BY <1>1, <1>2 DEF To, Request, Idle
<1>4. /\ hit[q.pl] = {} => Fits(q, db) /\ OnlyOf(db, q.user, q.pl)
      /\ "fault" \notin hit[q.pl] => IndexedOK(db, q.pl) /\ Deleted(db, q.pl)
  BY <1>1, <1>2, Around
<1>5. db.byId[q.pl] = NoRow
  BY <1>1, <1>2 DEF CreateOK
<1>6. Fits(q, db) => Fits(t, db) /\ Rest(db, q.pl)
  BY <1>2, <1>3, <1>5 DEF Fits, CreateFits, ItemOps, Rest, OnlyOf
<1>7. Serves(r, t, db) /\ Serves(r, Idle, db)
  BY <1>2, <1>3, <1>4, <1>6, IdleOK DEF Serves, WorkOK
<1>8. StepOK(t, now) /\ GoesOn(q, t)
  BY <1>3 DEF StepOK, GoesOn
<1> HIDE DEF t
<1>9. Reads(r, t) \/ Reads(r, Idle)
  BY DEF CountPlaylists, t
<1> QED
  BY <1>1, <1>7, <1>8, <1>9, IdleOK, IdleSteps, ReadsTidy

LEMMA ReserveTidy ==
  ASSUME Inv, Inv', Tidy, NEW r \in Slots, Reserve(r)
  PROVE  Tidy'
<1> DEFINE q == req[r]
           k == <<q.user, Fold[q.arg]>>
           d == [db EXCEPT !.names[k] = q.pl]
           step == IF q.op = "create" THEN "insertById" ELSE "nameById"
           t == To(r, step)
<1>1. /\ q.at = "reserve" /\ q.at # "idle" /\ q \in Request /\ HandlerOK(q, db)
      /\ q.op \in {"create", "rename", "delete", "add", "remove"}
      /\ db \in Tables /\ q.pl \in Playlists
  BY ServedOK DEF Reserve, At, Inv, TypeOK
<1>2. \/ q.op = "create" /\ CreateOK(q, db)
      \/ q.op = "rename" /\ RenameOK(q, db)
  BY <1>1, IdleOK DEF HandlerOK, DeleteOK, ItemOK
<1>3. /\ t.at = step /\ t.op = q.op /\ t.user = q.user /\ t.pl = q.pl /\ t.arg = q.arg
      /\ step \in {"insertById", "nameById"} /\ t # Idle
  BY <1>1, <1>2 DEF To, Request, Idle
<1>4. /\ hit[q.pl] = {} => Fits(q, db) /\ OnlyOf(db, q.user, q.pl)
      /\ "fault" \notin hit[q.pl] => IndexedOK(db, q.pl) /\ Deleted(db, q.pl)
      /\ TimesOK(db.items[q.pl], now)
  BY <1>1, <1>2, Around
<1>5. /\ Elsewhere(q.pl, db, d) /\ d.byId = db.byId /\ d.byUser = db.byUser
      /\ d.items = db.items /\ d.members = db.members
  BY <1>1, NamesElsewhere
<1>6. Reads(r, Idle) \/ Writes(r, d, t, Idle)
  BY DEF Reserve, Failed
<1> HIDE DEF d, t, step
<1>7. \A u, p : /\ Members(d, u, p) = Members(db, u, p)
                /\ OnlyOf(d, u, p) <=> OnlyOf(db, u, p)
                /\ Listing(d, u, p) <=> Listing(db, u, p)
  BY <1>5, SameContents
<1>8. Fits(q, db) => Fits(t, d) /\ Rest(db, q.pl)
  <2>1. CASE q.op = "create"
    <3>1. db.byId[q.pl] = NoRow
      BY <1>1, <1>2, <2>1 DEF CreateOK
    <3>2. Fits(q, db) => Rest(db, q.pl)
      BY <2>1, <3>1 DEF Fits, CreateFits, Rest, OnlyOf
    <3> QED
      BY <1>3, <1>5, <1>7, <2>1, <3>2 DEF Fits, CreateFits, ItemOps
  <2>2. CASE q.op = "rename"
    <3>1. Owns(q, db)
      BY <1>2, <2>2 DEF RenameOK
    <3>2. ASSUME Fits(q, db) PROVE Rest(db, q.pl)
      <4>1. /\ OnlyOf(db, q.user, q.pl) /\ Both(q, db) /\ Listing(db, q.user, q.pl)
            /\ Counts(db.byId[q.pl], db.items[q.pl])
        BY <1>1, <2>2, <3>2 DEF Fits, RenameFits
      <4> QED
        BY <3>1, <4>1, LeftAtRest
    <3>3. ASSUME Fits(q, db) PROVE Fits(t, d)
      <4>1. /\ OnlyOf(db, q.user, q.pl) /\ RenameFits(q, db)
        BY <2>2, <3>3 DEF Fits
      <4>2. RenameFits(t, d)
        BY <1>1, <1>3, <1>5, <1>7, <4>1 DEF RenameFits, Both
      <4> QED
        BY <1>3, <1>7, <2>2, <4>1, <4>2 DEF Fits, ItemOps
    <3> QED
      BY <3>2, <3>3
  <2> QED
    BY <1>2, <2>1, <2>2
<1>9. IndexedOK(db, q.pl) /\ Deleted(db, q.pl) => IndexedOK(d, q.pl) /\ Deleted(d, q.pl)
  BY <1>5 DEF IndexedOK, Deleted
<1>10. Serves(r, t, d) /\ Serves(r, Idle, db)
  BY <1>2, <1>3, <1>4, <1>8, <1>9, IdleOK DEF Serves, WorkOK
<1>11. StepOK(t, now) /\ GoesOn(q, t) /\ TimesOK(d.items[q.pl], now)
  BY <1>3, <1>4, <1>5 DEF StepOK, GoesOn
<1>12. CASE Reads(r, Idle)
  BY <1>1, <1>10, <1>12, IdleOK, IdleSteps, ReadsTidy
<1>13. CASE Writes(r, d, t, Idle)
  BY <1>1, <1>5, <1>10, <1>11, <1>13, IdleOK, IdleSteps, WritesTidy
<1> QED
  BY <1>6, <1>12, <1>13

LEMMA InsertByIdTidy ==
  ASSUME Inv, Inv', Tidy, NEW r \in Slots, InsertById(r)
  PROVE  Tidy'
<1> DEFINE q == req[r]
           d == [db EXCEPT !.byId[q.pl] = NewRow(q)]
           t == To(r, "insertByUser")
<1>1. /\ q.at = "insertById" /\ q.at # "idle" /\ q \in Request /\ HandlerOK(q, db)
      /\ q.op \in {"create", "rename", "delete", "add", "remove"}
      /\ db \in Tables /\ q.pl \in Playlists
  BY ServedOK DEF InsertById, At, Inv, TypeOK
<1>2. q.op = "create" /\ CreateOK(q, db)
  BY <1>1, IdleOK DEF HandlerOK, RenameOK, DeleteOK, ItemOK
<1>3. t.at = "insertByUser" /\ t.op = q.op /\ t.user = q.user /\ t.pl = q.pl /\ t # Idle
  BY <1>1, <1>2 DEF To, Request, Idle
<1>4. /\ hit[q.pl] = {} => Fits(q, db)
      /\ "fault" \notin hit[q.pl] => IndexedOK(db, q.pl) /\ Deleted(db, q.pl)
      /\ TimesOK(db.items[q.pl], now)
  BY <1>1, <1>2, Around
<1>5. /\ Elsewhere(q.pl, db, d) /\ d.byId[q.pl] = NewRow(q)
      /\ d.items = db.items /\ d.members = db.members
  BY <1>1, ByIdElsewhere
<1>6. Writes(r, d, t, Idle)
  BY DEF InsertById, Failed
<1> HIDE DEF d, t
<1>7. "fault" \notin hit[q.pl] => d.items[q.pl] = {}
  BY <1>1, <1>2, <1>4, <1>5 DEF Deleted, CreateOK
<1>8. Fits(q, db) => Fits(t, d)
  BY <1>2, <1>3, <1>5, SameContents DEF Fits, CreateFits, ItemOps
<1>9. Serves(r, t, d)
  BY <1>2, <1>3, <1>4, <1>7, <1>8 DEF Serves, WorkOK, IndexedOK, Deleted
<1>10. StepOK(t, now) /\ GoesOn(q, t) /\ TimesOK(d.items[q.pl], now)
  BY <1>3, <1>4, <1>5 DEF StepOK, GoesOn
<1> QED
  BY <1>1, <1>5, <1>6, <1>9, <1>10, IdleOK, IdleSteps, WritesTidy

LEMMA InsertByUserTidy ==
  ASSUME Inv, Inv', Tidy, NEW r \in Slots, InsertByUser(r)
  PROVE  Tidy'
<1> DEFINE q == req[r]
           row == NewRow(q)
           d == [db EXCEPT !.byUser[<<q.user, q.pl>>] = row]
<1>1. /\ q.at = "insertByUser" /\ q.at # "idle" /\ q \in Request /\ HandlerOK(q, db)
      /\ q.op \in {"create", "rename", "delete", "add", "remove"}
      /\ db \in Tables /\ q.pl \in Playlists /\ q.user \in Users
  BY ServedOK DEF InsertByUser, At, Inv, TypeOK
<1>2. q.op = "create" /\ CreateOK(q, db)
  BY <1>1, IdleOK DEF HandlerOK, RenameOK, DeleteOK, ItemOK
<1>3. /\ NewRow(q) \in Row /\ NewRow(q).user = q.user
      /\ NewRow(q).count = 0 /\ NewRow(q).covers = <<>>
  BY <1>1, <1>2 DEF NewRow, Row, CreateOK
<1>4. /\ hit[q.pl] = {} => Fits(q, db)
      /\ "fault" \notin hit[q.pl] => IndexedOK(db, q.pl) /\ Deleted(db, q.pl)
      /\ TimesOK(db.items[q.pl], now)
  BY <1>1, <1>2, Around
<1>5. Writes(r, d, Idle, Idle)
  BY DEF InsertByUser, Failed
<1> HIDE DEF row
<1>6. /\ Elsewhere(q.pl, db, d) /\ d.byUser[<<q.user, q.pl>>] = row
      /\ d.byId = db.byId /\ d.items = db.items /\ d.members = db.members
  <2>1. d.byId = db.byId /\ d.items = db.items /\ d.members = db.members
    BY <1>1 DEF Tables
  <2>2. db \in Tables /\ q.pl \in Playlists /\ q.user \in Users
    BY <1>1
  <2>3. Elsewhere(q.pl, db, d)
    BY <2>2, ByUserElsewhere
  <2>4. d.byUser[<<q.user, q.pl>>] = row
    BY <2>2 DEF Tables
  <2> QED
    BY <2>1, <2>3, <2>4
<1> HIDE DEF d
<1> USE DEF row
<1>7. d.byId[q.pl] = NewRow(q)
  BY <1>1, <1>2, <1>6 DEF CreateOK
<1>8. ASSUME Fits(q, db) PROVE Rest(d, q.pl)
  <2>1. /\ d.items[q.pl] = {} /\ Members(d, q.user, q.pl) = {} /\ OnlyOf(d, q.user, q.pl)
    BY <1>2, <1>6, <1>8, SameContents DEF Fits, CreateFits
  <2>2. Owns(q, d) /\ Both(q, d)
    BY <1>3, <1>6, <1>7, NullAssumption DEF Owns, Both
  <2>3. Counts(d.byId[q.pl], d.items[q.pl])
    BY <1>3, <1>7, <2>1, NoCovers, FS_EmptySet DEF Counts
  <2>4. Listing(d, q.user, q.pl)
    BY <2>1 DEF Listing, VideosIn
  <2> QED
    BY <2>1, <2>2, <2>3, <2>4, LeftAtRest
<1>9. Serves(r, Idle, d)
  <2>1. IndexedOK(db, q.pl) /\ Deleted(db, q.pl) => IndexedOK(d, q.pl) /\ Deleted(d, q.pl)
    BY <1>6 DEF IndexedOK, Deleted
  <2> QED
    BY <1>2, <1>4, <1>8, <2>1 DEF Serves
<1>10. TimesOK(d.items[q.pl], now)
  BY <1>4, <1>6
<1> QED
  BY <1>1, <1>6, <1>5, <1>9, <1>10, IdleOK, IdleSteps, WritesTidy

LEMMA NameByIdTidy ==
  ASSUME Inv, Inv', Tidy, NEW r \in Slots, NameById(r)
  PROVE  Tidy'
<1> DEFINE q == req[r]
           row == Named(db.byId[q.pl], NoUser, q.arg)
           d == [db EXCEPT !.byId[q.pl] = row]
           t == To(r, "nameByUser")
<1>1. /\ q.at = "nameById" /\ q.at # "idle" /\ q \in Request /\ HandlerOK(q, db)
      /\ q.op \in {"create", "rename", "delete", "add", "remove"}
      /\ db \in Tables /\ q.pl \in Playlists /\ q.user \in Users
  BY ServedOK DEF NameById, At, Inv, TypeOK
<1>2. q.op = "rename" /\ RenameOK(q, db)
  BY <1>1, IdleOK DEF HandlerOK, CreateOK, DeleteOK, ItemOK
<1>3. /\ db.byId[q.pl] # NoRow /\ db.byId[q.pl] \in Row /\ db.byId[q.pl].user = q.user
      /\ q.arg \in Names
  BY <1>1, <1>2 DEF RenameOK, Owns, Tables
<1>4. /\ row = [db.byId[q.pl] EXCEPT !.name = q.arg]
      /\ row \in Row /\ row.user = q.user /\ row.name = q.arg
      /\ row.count = db.byId[q.pl].count /\ row.covers = db.byId[q.pl].covers
  BY <1>3 DEF Named, Row
<1>5. /\ t.at = "nameByUser" /\ t.op = q.op /\ t.user = q.user /\ t.pl = q.pl /\ t.arg = q.arg
      /\ t # Idle
  BY <1>1, <1>2 DEF To, Request, Idle
<1>6. Writes(r, d, t, Idle)
  BY DEF NameById, Failed
<1> HIDE DEF row
<1>7. /\ Elsewhere(q.pl, db, d) /\ d.byId[q.pl] = row
      /\ d.byUser = db.byUser /\ d.items = db.items /\ d.members = db.members
  BY <1>1, ByIdElsewhere
<1> HIDE DEF d, t
<1>8. /\ hit[q.pl] = {} => Fits(q, db)
      /\ "fault" \notin hit[q.pl] => IndexedOK(db, q.pl) /\ Deleted(db, q.pl)
      /\ TimesOK(db.items[q.pl], now)
  BY <1>1, <1>2, Around
<1>9. ASSUME Fits(q, db) PROVE Fits(t, d)
  <2>1. /\ OnlyOf(d, q.user, q.pl) /\ Both(q, db) /\ Listing(d, q.user, q.pl)
        /\ Counts(db.byId[q.pl], db.items[q.pl])
    BY <1>1, <1>2, <1>7, <1>9, SameContents DEF Fits, RenameFits
  <2>2. Counts(d.byId[q.pl], d.items[q.pl])
    BY <1>4, <1>7, <2>1 DEF Counts
  <2>3. d.byUser[<<q.user, q.pl>>] = db.byId[q.pl]
    BY <1>7, <2>1 DEF Both
  <2>4. RenameFits(t, d)
    BY <1>3, <1>4, <1>5, <1>7, <2>1, <2>2, <2>3 DEF RenameFits
  <2> QED
    BY <1>2, <1>5, <2>1, <2>4 DEF Fits, ItemOps
<1>10. Serves(r, t, d)
  <2>1. IndexedOK(db, q.pl) => IndexedOK(d, q.pl)
    BY <1>3, <1>4, <1>7 DEF IndexedOK
  <2>2. Deleted(d, q.pl)
    BY <1>4, <1>7, NullAssumption DEF Deleted
  <2> QED
    BY <1>2, <1>5, <1>8, <1>9, <2>1, <2>2 DEF Serves, WorkOK
<1>11. StepOK(t, now) /\ GoesOn(q, t) /\ TimesOK(d.items[q.pl], now)
  BY <1>5, <1>7, <1>8 DEF StepOK, GoesOn
<1> QED
  BY <1>1, <1>6, <1>7, <1>10, <1>11, IdleOK, IdleSteps, WritesTidy

LEMMA NameByUserTidy ==
  ASSUME Inv, Inv', Tidy, NEW r \in Slots, NameByUser(r)
  PROVE  Tidy'
<1> DEFINE q == req[r]
           old == db.byUser[<<q.user, q.pl>>]
           row == Named(old, q.user, q.arg)
           d == [db EXCEPT !.byUser[<<q.user, q.pl>>] = row]
           t == To(r, "release")
<1>1. /\ q.at = "nameByUser" /\ q.at # "idle" /\ q \in Request /\ HandlerOK(q, db)
      /\ q.op \in {"create", "rename", "delete", "add", "remove"}
      /\ db \in Tables /\ q.pl \in Playlists /\ q.user \in Users
  BY ServedOK DEF NameByUser, At, Inv, TypeOK
<1>2. q.op = "rename" /\ RenameOK(q, db) /\ Owns(q, db)
  BY <1>1, IdleOK DEF HandlerOK, CreateOK, DeleteOK, ItemOK, RenameOK
<1>3. old \in Row => row = [old EXCEPT !.name = q.arg]
  BY NullAssumption DEF Named
<1>4. /\ t.at = "release" /\ t.op = q.op /\ t.user = q.user /\ t.pl = q.pl /\ t # Idle
  BY <1>1, <1>2 DEF To, Request, Idle
<1>5. Writes(r, d, Idle, Idle) \/ Writes(r, d, t, Idle)
  BY DEF NameByUser, Failed
<1> HIDE DEF row
<1>6. /\ Elsewhere(q.pl, db, d) /\ d.byUser[<<q.user, q.pl>>] = row
      /\ d.byId = db.byId /\ d.items = db.items /\ d.members = db.members
  BY <1>1, ByUserElsewhere
<1> HIDE DEF d, t
<1>7. /\ hit[q.pl] = {} => Fits(q, db)
      /\ "fault" \notin hit[q.pl] => IndexedOK(db, q.pl) /\ Deleted(db, q.pl)
      /\ TimesOK(db.items[q.pl], now)
  BY <1>1, <1>2, Around
<1>8. ASSUME Fits(q, db) PROVE Fits(t, d) /\ Rest(d, q.pl)
  <2>1. /\ OnlyOf(d, q.user, q.pl) /\ Listing(d, q.user, q.pl)
        /\ Counts(d.byId[q.pl], d.items[q.pl])
        /\ old \in Row /\ d.byId[q.pl] = [old EXCEPT !.name = q.arg]
    BY <1>1, <1>2, <1>6, <1>8, SameContents DEF Fits, RenameFits
  <2>2. d.byUser[<<q.user, q.pl>>] = d.byId[q.pl]
    BY <1>3, <1>6, <2>1
  <2>3. RenameFits(t, d)
    BY <1>4, <2>1, <2>2 DEF RenameFits, Both
  <2>4. Owns(q, d) /\ Both(q, d)
    BY <1>2, <1>6, <2>2 DEF Owns, Both
  <2> QED
    BY <1>2, <1>4, <2>1, <2>3, <2>4, LeftAtRest DEF Fits, ItemOps
<1>9. Serves(r, t, d) /\ Serves(r, Idle, d)
  <2>1. IndexedOK(db, q.pl) /\ Deleted(db, q.pl) => IndexedOK(d, q.pl) /\ Deleted(d, q.pl)
    BY <1>6 DEF IndexedOK, Deleted
  <2> QED
    BY <1>2, <1>4, <1>7, <1>8, <2>1 DEF Serves, WorkOK
<1>10. StepOK(t, now) /\ GoesOn(q, t) /\ TimesOK(d.items[q.pl], now)
  BY <1>2, <1>4, <1>6, <1>7 DEF StepOK, GoesOn
<1>11. CASE Writes(r, d, Idle, Idle)
  BY <1>1, <1>6, <1>9, <1>10, <1>11, IdleOK, IdleSteps, WritesTidy
<1>12. CASE Writes(r, d, t, Idle)
  BY <1>1, <1>6, <1>9, <1>10, <1>12, IdleOK, IdleSteps, WritesTidy
<1> QED
  BY <1>5, <1>11, <1>12

(* A name is given back: the tables stay.                                  *)
LEMMA ReleaseTidy ==
  ASSUME Inv, Inv', Tidy, NEW r \in Slots, Release(r)
  PROVE  Tidy'
<1> DEFINE q == req[r]
           d == [db EXCEPT !.names[<<q.user, Fold[q.meta.name]>>] = NoPlaylist]
           t == To(r, "readMembers")
<1>1. /\ q.at = "release" /\ q.at # "idle" /\ q \in Request /\ HandlerOK(q, db)
      /\ q.op \in {"create", "rename", "delete", "add", "remove"}
      /\ db \in Tables /\ q.pl \in Playlists
  BY ServedOK DEF Release, At, Inv, TypeOK
<1>2. \/ q.op = "rename" /\ RenameOK(q, db)
      \/ q.op = "delete" /\ DeleteOK(q, db)
  BY <1>1, IdleOK DEF HandlerOK, CreateOK, ItemOK
<1>3. t.at = "readMembers" /\ t.op = q.op /\ t.user = q.user /\ t.pl = q.pl /\ t # Idle
  BY <1>1, <1>2 DEF To, Request, Idle
<1>4. /\ hit[q.pl] = {} => Fits(q, db) /\ OnlyOf(db, q.user, q.pl)
      /\ "fault" \notin hit[q.pl] => IndexedOK(db, q.pl)
      /\ q.op # "delete" /\ "fault" \notin hit[q.pl] => Deleted(db, q.pl)
      /\ TimesOK(db.items[q.pl], now)
  BY <1>1, Around
<1>5. /\ Elsewhere(q.pl, db, d) /\ d.byId = db.byId /\ d.byUser = db.byUser
      /\ d.items = db.items /\ d.members = db.members
  BY <1>1, NamesElsewhere
<1>6. IF q.op = "delete" THEN Writes(r, d, t, t) ELSE Writes(r, d, Idle, Idle)
  BY DEF Release
<1> HIDE DEF d, t
<1>7. /\ OnlyOf(db, q.user, q.pl) => OnlyOf(d, q.user, q.pl)
      /\ Listing(db, q.user, q.pl) => Listing(d, q.user, q.pl)
  BY <1>5, SameContents
<1>8. IndexedOK(db, q.pl) => IndexedOK(d, q.pl)
  BY <1>5 DEF IndexedOK
<1>9. TimesOK(d.items[q.pl], now)
  BY <1>4, <1>5
<1>10. CASE q.op = "delete"
  <2>1. DeleteOK(q, db) /\ d.byId[q.pl] = NoRow
    BY <1>1, <1>2, <1>5, <1>10 DEF DeleteOK
  <2>2. Fits(q, db) => Fits(t, d)
    BY <1>1, <1>3, <1>7, <1>10 DEF Fits, DeleteFits, ItemOps
  <2>3. Serves(r, t, d)
    BY <1>3, <1>4, <1>8, <1>10, <2>1, <2>2 DEF Serves, WorkOK
  <2>4. StepOK(t, now) /\ GoesOn(q, t)
    BY <1>3, <1>10 DEF StepOK, GoesOn
  <2> QED
    BY <1>1, <1>5, <1>6, <1>9, <1>10, <2>3, <2>4, WritesTidy
<1>11. CASE q.op = "rename"
  <2>1. Owns(q, d)
    BY <1>2, <1>5, <1>11 DEF RenameOK, Owns
  <2>2. ASSUME Fits(q, db) PROVE Rest(d, q.pl)
    <3>1. /\ OnlyOf(d, q.user, q.pl) /\ Listing(d, q.user, q.pl)
          /\ Counts(d.byId[q.pl], d.items[q.pl]) /\ Both(q, d)
      BY <1>1, <1>5, <1>7, <1>11, <2>2 DEF Fits, RenameFits, Both
    <3> QED
      BY <2>1, <3>1, LeftAtRest
  <2>3. Deleted(d, q.pl)
    BY <2>1 DEF Deleted, Owns
  <2>4. Serves(r, Idle, d)
    BY <1>4, <1>8, <1>11, <2>2, <2>3 DEF Serves
  <2> QED
    BY <1>1, <1>5, <1>6, <1>9, <1>11, <2>4, IdleOK, IdleSteps, WritesTidy
<1> QED
  BY <1>2, <1>10, <1>11

(* A statement of delete that leaves the user's list or the playlist's row *)
(* out.                                                                    *)
LEMMA DropRowsTidy ==
  ASSUME Inv, Inv', Tidy, NEW r \in Slots, DropByUser(r) \/ DropById(r)
  PROVE  Tidy'
<1> DEFINE q == req[r]
<1>1. /\ q.at \in {"dropByUser", "dropById"} /\ q.at # "idle" /\ q \in Request
      /\ HandlerOK(q, db) /\ q.op \in {"create", "rename", "delete", "add", "remove"}
      /\ db \in Tables /\ q.pl \in Playlists /\ q.user \in Users
  BY ServedOK DEF DropByUser, DropById, At, Inv, TypeOK
<1>2. q.op = "delete" /\ DeleteOK(q, db)
  BY <1>1, IdleOK DEF HandlerOK, CreateOK, RenameOK, ItemOK
<1>3. /\ hit[q.pl] = {} => Fits(q, db)
      /\ "fault" \notin hit[q.pl] => IndexedOK(db, q.pl)
      /\ TimesOK(db.items[q.pl], now)
  BY <1>1, Around
<1>4. ASSUME NEW step \in {"dropById", "release"}, NEW d, Writes(r, d, To(r, step), Idle),
             Elsewhere(q.pl, db, d), d.items = db.items, d.members = db.members,
             IndexedOK(db, q.pl) => IndexedOK(d, q.pl)
      PROVE  Tidy'
  <2> DEFINE t == To(r, step)
  <2>1. t.at = step /\ t.op = q.op /\ t.user = q.user /\ t.pl = q.pl /\ t # Idle
    BY <1>1, <1>2 DEF To, Request, Idle
  <2> HIDE DEF t
  <2>2. Fits(q, db) => Fits(t, d)
    <3>1. /\ OnlyOf(db, q.user, q.pl) => OnlyOf(d, q.user, q.pl)
          /\ Listing(db, q.user, q.pl) => Listing(d, q.user, q.pl)
      BY <1>4, SameContents
    <3> QED
      BY <1>1, <1>2, <1>4, <2>1, <3>1 DEF Fits, DeleteFits, ItemOps
  <2>3. Serves(r, t, d)
    BY <1>2, <1>3, <1>4, <2>1, <2>2 DEF Serves, WorkOK
  <2>4. StepOK(t, now) /\ GoesOn(q, t) /\ TimesOK(d.items[q.pl], now)
    BY <1>3, <1>4, <2>1 DEF StepOK, GoesOn
  <2>5. Writes(r, d, t, Idle)
    BY <1>4 DEF t
  <2> QED
    BY <1>1, <1>4, <2>3, <2>4, <2>5, IdleOK, IdleSteps, WritesTidy
<1>5. CASE DropByUser(r)
  <2> DEFINE d == [db EXCEPT !.byUser[<<q.user, q.pl>>] = NoRow]
  <2>1. /\ Elsewhere(q.pl, db, d) /\ d.byId = db.byId
        /\ d.items = db.items /\ d.members = db.members
    BY <1>1, ByUserElsewhere
  <2>2. Writes(r, d, To(r, "dropById"), Idle)
    BY <1>5 DEF DropByUser, Failed
  <2> HIDE DEF d
  <2>3. IndexedOK(db, q.pl) => IndexedOK(d, q.pl)
    BY <2>1 DEF IndexedOK
  <2> QED
    BY <1>4, <2>1, <2>2, <2>3
<1>6. CASE DropById(r)
  <2> DEFINE d == [db EXCEPT !.byId[q.pl] = NoRow]
  <2>1. /\ Elsewhere(q.pl, db, d) /\ d.byId[q.pl] = NoRow
        /\ d.items = db.items /\ d.members = db.members
    BY <1>1, ByIdElsewhere
  <2>2. Writes(r, d, To(r, "release"), Idle)
    BY <1>6 DEF DropById, Failed
  <2> HIDE DEF d
  <2>3. IndexedOK(d, q.pl)
    BY <2>1 DEF IndexedOK
  <2> QED
    BY <1>4, <2>1, <2>2, <2>3
<1> QED
  BY <1>5, <1>6

(* The index is emptied of the videos that were in the playlist, and of    *)
(* the items last.                                                         *)
LEMMA TailTidy ==
  ASSUME Inv, Inv', Tidy, NEW r \in Slots,
         ReadMembers(r) \/ (\E v \in Videos : PurgeMember(r, v)) \/ Purged(r) \/ DropItems(r)
  PROVE  Tidy'
<1> DEFINE q == req[r]
<1>1. /\ q.at \in {"readMembers", "purge", "dropItems"} /\ q.at # "idle" /\ q \in Request
      /\ q.op \in {"create", "rename", "delete", "add", "remove"}
      /\ db \in Tables /\ q.pl \in Playlists /\ q.user \in Users
  BY ServedOK DEF ReadMembers, PurgeMember, Purged, DropItems, At, Inv, TypeOK
<1>2. /\ hit[q.pl] = {} => Fits(q, db)
      /\ "fault" \notin hit[q.pl] => db.byId[q.pl] = NoRow
      /\ TimesOK(db.items[q.pl], now) /\ StepOK(q, now)
  BY <1>1, Around DEF WorkOK
<1>3. q.op = "delete"
  BY <1>1, <1>2 DEF StepOK
<1>4. ASSUME NEW d, d.byId = db.byId, NEW t, t # Idle, t.op = "delete", t.pl = q.pl,
             t.user = q.user, t.at \in {"purge", "dropItems"},
             Fits(q, db) => DeleteFits(t, d) /\ OnlyOf(d, q.user, q.pl)
      PROVE  Serves(r, t, d)
  BY <1>2, <1>3, <1>4 DEF Serves, IndexedOK, WorkOK, Fits, ItemOps
<1>5. \A t : t.op = "delete" /\ t.pl = q.pl /\ t.at \in {"purge", "dropItems"}
               => StepOK(t, now) /\ GoesOn(q, t)
  BY <1>3 DEF StepOK, GoesOn
<1>6. ASSUME NEW T \in SUBSET Videos, NEW t, t = [To(r, "purge") EXCEPT !.todo = T]
      PROVE  /\ t.op = "delete" /\ t.pl = q.pl /\ t.user = q.user /\ t.at = "purge"
             /\ t.todo = T /\ t # Idle
  BY <1>1, <1>3, <1>6 DEF To, Request, Idle
<1>7. ASSUME NEW t, t = To(r, "dropItems")
      PROVE  /\ t.op = "delete" /\ t.pl = q.pl /\ t.user = q.user /\ t.at = "dropItems"
             /\ t # Idle
  BY <1>1, <1>3, <1>7 DEF To, Request, Idle
<1>8. Fits(q, db) => DeleteFits(q, db) /\ OnlyOf(db, q.user, q.pl)
  BY <1>3 DEF Fits
<1>9. CASE ReadMembers(r)
  <2> DEFINE T == {i.video : i \in db.items[q.pl]}
             t == [To(r, "purge") EXCEPT !.todo = T]
             c == To(r, "dropItems")
  <2>1. T \in SUBSET Videos
    BY <1>1 DEF Tables, Item
  <2>2. Writes(r, db, t, c)
    BY <1>9 DEF ReadMembers
  <2>3. /\ t.op = "delete" /\ t.pl = q.pl /\ t.user = q.user /\ t.at = "purge"
        /\ t.todo = T /\ t # Idle
    BY <1>6, <2>1
  <2>4. c.op = "delete" /\ c.pl = q.pl /\ c.user = q.user /\ c.at = "dropItems" /\ c # Idle
    BY <1>7
  <2> HIDE DEF t, c
  <2>5. Fits(q, db) => DeleteFits(t, db) /\ OnlyOf(db, q.user, q.pl)
    <3>1. q.at = "readMembers"
      BY <1>9 DEF ReadMembers, At
    <3> QED
      BY <1>8, <2>3, <3>1 DEF DeleteFits, Listing, VideosIn
  <2>6. Serves(r, t, db)
    BY <1>4, <2>3, <2>5
  <2> QED
    BY <1>1, <1>2, <1>5, <2>2, <2>3, <2>4, <2>6, SameElsewhere, WritesTidy
<1>10. ASSUME NEW v \in Videos, PurgeMember(r, v)
       PROVE  Tidy'
  <2> DEFINE T == q.todo \ {v}
             t == [To(r, "purge") EXCEPT !.todo = T]
             d == [db EXCEPT !.members[<<q.user, v, q.pl>>] = 0]
  <2>1. T \in SUBSET Videos
    BY <1>1 DEF Request
  <2>2. Writes(r, d, t, t) /\ q.at = "purge"
    BY <1>10 DEF PurgeMember, At
  <2>3. /\ t.op = "delete" /\ t.pl = q.pl /\ t.user = q.user /\ t.at = "purge"
        /\ t.todo = T /\ t # Idle
    BY <1>6, <2>1
  <2>4. /\ Elsewhere(q.pl, db, d) /\ d.byId = db.byId /\ d.items = db.items
        /\ Members(d, q.user, q.pl) = Members(db, q.user, q.pl) \ {v}
        /\ OnlyOf(db, q.user, q.pl) => OnlyOf(d, q.user, q.pl)
    <3> DEFINE u == q.user
               p == q.pl
    <3>1. /\ d.members = [db.members EXCEPT ![<<u, v, p>>] = 0]
          /\ d.byId = db.byId /\ d.byUser = db.byUser /\ d.items = db.items
      BY <1>1 DEF Tables
    <3>2. u \in Users /\ p \in Playlists /\ db \in Tables
      BY <1>1
    <3> HIDE DEF d, u, p
    <3>3. /\ Elsewhere(p, db, d) /\ d.byId = db.byId /\ d.items = db.items
          /\ Members(d, u, p) = Members(db, u, p) \ {v}
          /\ OnlyOf(db, u, p) => OnlyOf(d, u, p)
      BY <3>1, <3>2, MemberElsewhere
    <3> QED
      BY <3>3 DEF u, p
  <2> HIDE DEF t, d
  <2>5. Fits(q, db) => DeleteFits(t, d) /\ OnlyOf(d, q.user, q.pl)
    BY <1>8, <2>2, <2>3, <2>4 DEF DeleteFits
  <2>6. Serves(r, t, d)
    BY <1>4, <2>3, <2>4, <2>5
  <2>7. TimesOK(d.items[q.pl], now)
    BY <1>2, <2>4
  <2> QED
    BY <1>1, <1>5, <2>2, <2>3, <2>4, <2>6, <2>7, WritesTidy
<1>11. CASE Purged(r)
  <2> DEFINE t == To(r, "dropItems")
  <2>1. t.op = "delete" /\ t.pl = q.pl /\ t.user = q.user /\ t.at = "dropItems" /\ t # Idle
    BY <1>7
  <2>2. Reads(r, t) /\ q.at = "purge" /\ q.todo = {}
    BY <1>11 DEF Purged, At
  <2> HIDE DEF t
  <2>3. Fits(q, db) => DeleteFits(t, db) /\ OnlyOf(db, q.user, q.pl)
    BY <1>8, <2>1, <2>2 DEF DeleteFits
  <2>4. Serves(r, t, db)
    BY <1>4, <2>1, <2>3
  <2> QED
    BY <1>1, <1>5, <2>1, <2>2, <2>4, ReadsTidy
<1>12. CASE DropItems(r)
  <2> DEFINE d == [db EXCEPT !.items[q.pl] = {}]
  <2>1. /\ Elsewhere(q.pl, db, d) /\ d.byId = db.byId /\ d.members = db.members
        /\ d.items[q.pl] = {}
    <3>1. db \in Tables /\ q.pl \in Playlists
      BY <1>1
    <3>2. d.byId = db.byId /\ d.members = db.members /\ d.items[q.pl] = {}
      BY <3>1 DEF Tables
    <3>3. Elsewhere(q.pl, db, d)
      BY <3>1, ItemsElsewhere
    <3> QED
      BY <3>2, <3>3
  <2>2. Writes(r, d, Idle, Idle) /\ q.at = "dropItems"
    BY <1>12 DEF DropItems, At
  <2> HIDE DEF d
  <2>3. TimesOK(d.items[q.pl], now)
    BY <2>1, FS_EmptySet DEF TimesOK
  <2>4. hit[q.pl] = {} => Rest(d, q.pl)
    <3> SUFFICES ASSUME hit[q.pl] = {} PROVE Rest(d, q.pl)
      OBVIOUS
    <3>1. Members(db, q.user, q.pl) = {} /\ OnlyOf(db, q.user, q.pl)
      BY <1>2, <1>8, <2>2 DEF DeleteFits
    <3>2. \A u \in Users : Members(d, u, q.pl) = {}
      BY <2>1, <3>1 DEF OnlyOf, Members
    <3> QED
      BY <1>2, <2>1, <3>2 DEF Rest
  <2>5. Serves(r, Idle, d)
    BY <1>2, <1>3, <2>1, <2>4 DEF Serves, IndexedOK, Deleted
  <2> QED
    BY <1>1, <2>1, <2>2, <2>3, <2>5, IdleOK, IdleSteps, WritesTidy
<1> QED
  BY <1>9, <1>10, <1>11, <1>12

-------------------------------------------------------------------------------
(* The covers with the newest item in front are those of the items with it *)
(* (CoversWith() against CoversOf()).                                      *)

(* The items that have a cover, and one choice of the newest.              *)
WithCover(S) == {i \in S : i.video \in Thumbnailed}
Newest(c, g, T) ==
    /\ g \in [DOMAIN c -> T]
    /\ \A j \in DOMAIN c : c[j] = g[j].video
    /\ \A j, k \in DOMAIN c : j < k => g[j].at > g[k].at
    /\ \A i \in T \ Range(g) : Len(c) = MaxCovers /\ \A j \in DOMAIN c : g[j].at > i.at

LEMMA CoversAre ==
  ASSUME NEW S, NEW c
  PROVE  c \in CoversOf(S) <=> c \in SeqOf(Videos, MaxCovers) /\ \E g : Newest(c, g, WithCover(S))
BY DEF CoversOf, WithCover, Newest

LEMMA SeqOfIs ==
  ASSUME NEW c
  PROVE  c \in SeqOf(Videos, MaxCovers) <=> c \in Seq(Videos) /\ Len(c) <= MaxCovers
<1>1. MaxCovers \in Nat
  BY LimitsAssumption
<1>2. ASSUME c \in SeqOf(Videos, MaxCovers) PROVE c \in Seq(Videos) /\ Len(c) <= MaxCovers
  <2>1. PICK m \in 0 .. MaxCovers : c \in [1 .. m -> Videos]
    BY <1>2 DEF SeqOf
  <2> QED
    BY <1>1, <2>1
<1>3. ASSUME c \in Seq(Videos), Len(c) <= MaxCovers PROVE c \in SeqOf(Videos, MaxCovers)
  <2>1. Len(c) \in 0 .. MaxCovers /\ c \in [1 .. Len(c) -> Videos]
    BY <1>1, <1>3
  <2> QED
    BY <2>1 DEF SeqOf
<1> QED
  BY <1>2, <1>3

LEMMA CoversGrow ==
  ASSUME NEW S \in SUBSET Item, NEW c \in CoversOf(S), NEW v \in Videos, NEW s \in Nat,
         v \notin VideosIn(S), \A i \in S : i.at < s
  PROVE  CoversWith(c, v) \in CoversOf(S \cup {[at |-> s, video |-> v]})
<1> DEFINE new == [at |-> s, video |-> v]
           T == WithCover(S)
<1>1. MaxCovers \in Nat \ {0} /\ new.at = s /\ new.video = v
  BY LimitsAssumption
<1>2. c \in Seq(Videos) /\ Len(c) <= MaxCovers /\ Len(c) \in Nat /\ DOMAIN c = 1 .. Len(c)
  BY CoversAre, SeqOfIs
<1>3. PICK g : Newest(c, g, T)
  BY CoversAre
<1>4. /\ \A j \in 1 .. Len(c) : g[j] \in T /\ g[j] \in S /\ g[j].at \in Nat /\ c[j] = g[j].video
      /\ \A j, k \in 1 .. Len(c) : j < k => g[j].at > g[k].at
      /\ \A i \in T \ Range(g) : Len(c) = MaxCovers /\ \A j \in 1 .. Len(c) : g[j].at > i.at
      /\ DOMAIN g = 1 .. Len(c)
  <2>1. /\ g \in [1 .. Len(c) -> T]
        /\ \A j \in 1 .. Len(c) : c[j] = g[j].video
        /\ \A j, k \in 1 .. Len(c) : j < k => g[j].at > g[k].at
    BY <1>2, <1>3 DEF Newest
  <2>2. \A i \in T \ Range(g) : Len(c) = MaxCovers /\ \A j \in 1 .. Len(c) : g[j].at > i.at
    BY <1>2, <1>3 DEF Newest
  <2>3. \A i \in T : i \in S /\ i.at \in Nat
    BY DEF WithCover, Item
  <2> HIDE DEF T
  <2> QED
    BY <2>1, <2>2, <2>3
<1>5. \A i \in T : i \in S /\ i.at \in Nat /\ i.at < s /\ i # new
  BY <1>1 DEF WithCover, Item, VideosIn
<1>6. CASE v \notin Thumbnailed
  <2>1. WithCover(S \cup {new}) = T
    BY <1>1, <1>6 DEF WithCover
  <2>2. CoversWith(c, v) = SubSeq(c, 1, Len(c))
    <3>1. (IF Len(c) < MaxCovers THEN Len(c) ELSE MaxCovers) = Len(c)
      <4>1. \A m, n \in Nat : m <= n => (IF m < n THEN m ELSE n) = m
        OBVIOUS
      <4>2. Len(c) \in Nat /\ MaxCovers \in Nat /\ Len(c) <= MaxCovers
        BY <1>1, <1>2
      <4> QED
        BY ONLY <4>1, <4>2
    <3> QED
      BY <1>6, <3>1 DEF CoversWith
  <2>3. SubSeq(c, 1, Len(c)) = c
    BY <1>2
  <2>4. c \in SeqOf(Videos, MaxCovers)
    BY CoversAre
  <2> HIDE DEF new
  <2>5. c \in CoversOf(S \cup {new})
    BY <1>3, <2>1, <2>4, CoversAre
  <2> QED
    BY <2>2, <2>3, <2>5 DEF new
<1>7. CASE v \in Thumbnailed
  <2> DEFINE all == <<v>> \o c
             k == IF Len(all) < MaxCovers THEN Len(all) ELSE MaxCovers
             w == SubSeq(all, 1, k)
             h == [j \in 1 .. k |-> IF j = 1 THEN new ELSE g[j - 1]]
  <2>1. RemoveFirst(c, v) = c
    <3>1. \A j \in 1 .. Len(c) : c[j] # v
      BY <1>4 DEF VideosIn
    <3> QED
      BY <3>1 DEF RemoveFirst
  <2>2. CoversWith(c, v) = w
    BY <1>7, <2>1 DEF CoversWith
  <2>3. /\ all \in Seq(Videos) /\ Len(all) = Len(c) + 1 /\ all[1] = v
        /\ \A j \in 2 .. Len(c) + 1 : all[j] = c[j - 1]
    BY <1>2
  <2> HIDE DEF all
  <2>4. /\ k \in Nat /\ 1 <= k /\ k <= MaxCovers /\ k <= Len(c) + 1
        /\ k = MaxCovers \/ k = Len(c) + 1
    BY <1>1, <1>2, <2>3
  <2> HIDE DEF k
  <2>5. /\ w \in Seq(Videos) /\ Len(w) = k /\ DOMAIN w = 1 .. k
        /\ \A j \in 1 .. k : w[j] = all[j]
    BY <2>3, <2>4
  <2>6. w \in SeqOf(Videos, MaxCovers)
    BY <2>4, <2>5, SeqOfIs
  <2>7. /\ DOMAIN h = 1 .. k /\ h[1] = new
        /\ \A j \in 2 .. k : h[j] = g[j - 1] /\ j - 1 \in 1 .. Len(c)
    BY <2>4, <1>2
  <2> HIDE DEF w
  <2>8. WithCover(S \cup {new}) = T \cup {new}
    BY <1>1, <1>7 DEF WithCover
  <2>9. h \in [1 .. k -> T \cup {new}]
    BY <1>4, <2>4, <2>7
  <2> HIDE DEF h
  <2>10. \A j \in 1 .. k : w[j] = h[j].video
    <3> SUFFICES ASSUME NEW j \in 1 .. k PROVE w[j] = h[j].video
      OBVIOUS
    <3>1. CASE j = 1
      BY <1>1, <2>3, <2>5, <2>7, <3>1
    <3>2. CASE j # 1
      <4>1. j \in 2 .. k /\ j \in 2 .. Len(c) + 1 /\ j - 1 \in 1 .. Len(c)
        BY <1>2, <2>4, <3>2
      <4> QED
        BY <1>4, <2>3, <2>5, <2>7, <4>1
    <3> QED
      BY <3>1, <3>2
  <2>11. \A j, m \in 1 .. k : j < m => h[j].at > h[m].at
    <3> SUFFICES ASSUME NEW j \in 1 .. k, NEW m \in 1 .. k, j < m PROVE h[j].at > h[m].at
      OBVIOUS
    <3>1. m \in 2 .. k /\ m - 1 \in 1 .. Len(c) /\ h[m] = g[m - 1]
      BY <2>4, <2>7
    <3>2. CASE j = 1
      BY <1>1, <1>4, <1>5, <2>7, <3>1, <3>2
    <3>3. CASE j # 1
      <4>1. j \in 2 .. k /\ j - 1 \in 1 .. Len(c) /\ h[j] = g[j - 1] /\ j - 1 < m - 1
        BY <2>4, <2>7, <3>3
      <4> QED
        BY <1>4, <3>1, <4>1
    <3> QED
      BY <3>2, <3>3
  <2>12. ASSUME NEW i \in (T \cup {new}) \ Range(h)
         PROVE  k = MaxCovers /\ \A j \in 1 .. k : h[j].at > i.at
    <3>1. 1 \in 1 .. k
      BY <2>4
    <3>2. i # new /\ i \in T
      BY <2>7, <2>12, <3>1 DEF Range
    <3>3. i.at \in Nat /\ i.at < s
      BY <1>5, <3>2
    <3>4. CASE i \notin Range(g)
      <4>1. Len(c) = MaxCovers /\ \A j \in 1 .. Len(c) : g[j].at > i.at
        BY <1>4, <3>2, <3>4
      <4>2. k = MaxCovers
        BY <1>1, <1>2, <2>4, <4>1
      <4>3. ASSUME NEW j \in 1 .. k PROVE h[j].at > i.at
        <5>1. CASE j = 1
          BY <1>1, <2>7, <3>3, <5>1
        <5>2. CASE j # 1
          <6>1. j \in 2 .. k
            BY <2>4, <5>2
          <6> QED
            BY <2>7, <4>1, <6>1
        <5> QED
          BY <5>1, <5>2
      <4> QED
        BY <4>2, <4>3
    <3>5. CASE i \in Range(g)
      <4>1. PICK m \in 1 .. Len(c) : i = g[m]
        BY <1>4, <3>5 DEF Range
      <4>2. ~ (m + 1 <= k)
        <5>1. ASSUME m + 1 <= k PROVE FALSE
          <6>1. m + 1 \in 2 .. k /\ m + 1 \in 1 .. k
            BY <1>2, <2>4, <5>1
          <6>2. h[m + 1] = g[(m + 1) - 1] /\ (m + 1) - 1 = m
            BY <2>7, <6>1
          <6> QED
            BY <2>7, <2>12, <4>1, <6>1, <6>2 DEF Range
        <5> QED
          BY <5>1
      <4>3. k = MaxCovers /\ k <= m
        BY <1>1, <1>2, <2>4, <4>2
      <4>4. ASSUME NEW j \in 1 .. k PROVE h[j].at > i.at
        <5>1. CASE j = 1
          BY <1>1, <2>7, <3>3, <5>1
        <5>2. CASE j # 1
          <6>1. j \in 2 .. k /\ j - 1 \in 1 .. Len(c) /\ h[j] = g[j - 1] /\ j - 1 < m
            BY <2>4, <2>7, <4>3, <5>2
          <6> QED
            BY <1>4, <4>1, <6>1
        <5> QED
          BY <5>1, <5>2
      <4> QED
        BY <4>3, <4>4
    <3> QED
      BY <3>4, <3>5
  <2>13. Newest(w, h, T \cup {new})
    BY <2>5, <2>9, <2>10, <2>11, <2>12 DEF Newest
  <2> HIDE DEF new, T
  <2>14. w \in CoversOf(S \cup {new})
    BY <2>6, <2>8, <2>13, CoversAre
  <2> QED
    BY <2>2, <2>14 DEF new
<1> QED
  BY <1>6, <1>7

-------------------------------------------------------------------------------
(* The statements of add and remove.                                       *)

(* IndexedOK, to the owner.                                                *)
Located(q, d) == \A i \in d.items[q.pl] : d.members[<<q.user, i.video, q.pl>>] = i.at

LEMMA ItemKnown ==
  ASSUME Inv, Tidy, NEW r \in Slots, req[r].at \in ItemSteps
  PROVE  /\ req[r] \in Request /\ req[r].pl \in Playlists /\ req[r].user \in Users
         /\ db \in Tables /\ now \in Nat /\ req[r].at # "idle" /\ req[r].op \in ItemOps
         /\ req[r].arg \in Videos /\ req[r].meta \in Row /\ Owns(req[r], db)
         /\ TimesOK(db.items[req[r].pl], now) /\ StepOK(req[r], now)
         /\ "fault" \notin hit[req[r].pl] => Located(req[r], db) /\ WorkOK(req[r], db)
         /\ hit[req[r].pl] = {} =>
              ItemFits(req[r], db) /\ OnlyOf(db, req[r].user, req[r].pl)
<1>1. /\ req[r] \in Request /\ req[r].pl \in Playlists /\ req[r].user \in Users
      /\ req[r].at # "idle" /\ req[r].op \in ItemOps
      /\ req[r].arg \in Videos /\ req[r].meta \in Row /\ Owns(req[r], db)
  BY ItemServed DEF ItemOps
<1>2. IndexedOK(db, req[r].pl) => Located(req[r], db)
  BY <1>1 DEF IndexedOK, Located, Owns
<1> QED
  BY <1>1, <1>2, Around DEF Fits

LEMMA ItemServes ==
  ASSUME Inv, Tidy, NEW r \in Slots, req[r].at \in ItemSteps, NEW d, Owns(req[r], d), NEW t,
         \/ t = Idle
         \/ t # Idle /\ t.op = req[r].op /\ t.user = req[r].user /\ t.pl = req[r].pl,
         "fault" \notin hit[req[r].pl] =>
           /\ Located(req[r], d)
           /\ t # Idle => WorkOK(t, d)
           /\ req[r].op = "add" => Grows(db, d, req[r].pl),
         hit[req[r].pl] = {} =>
           /\ OnlyOf(d, req[r].user, req[r].pl)
           /\ IF t = Idle
                THEN /\ Both(req[r], d) /\ Counts(d.byId[req[r].pl], d.items[req[r].pl])
                     /\ Listing(d, req[r].user, req[r].pl)
                ELSE ItemFits(t, d)
  PROVE  Serves(r, t, d) /\ GoesOn(req[r], t)
<1>1. Located(req[r], d) => IndexedOK(d, req[r].pl)
  BY DEF Located, IndexedOK, Owns
<1>2. Deleted(d, req[r].pl)
  BY DEF Deleted, Owns
<1>3. req[r].op \in ItemOps
  BY ItemKnown
<1>4. CASE t = Idle
  <2>1. hit[req[r].pl] = {} => Rest(d, req[r].pl)
    BY <1>4, LeftAtRest
  <2> QED
    BY <1>1, <1>2, <1>4, <2>1, IdleOK DEF Serves
<1>5. CASE t # Idle
  <2>1. hit[req[r].pl] = {} => Fits(t, d)
    BY <1>3, <1>5 DEF Fits, ItemOps
  <2> QED
    BY <1>1, <1>2, <1>5, <2>1 DEF Serves, GoesOn
<1> QED
  BY <1>4, <1>5

(* What goes on is this request.                                           *)
LEMMA GoingOn ==
  ASSUME NEW r \in Slots, req[r] \in Request, req[r].op \in ItemOps, NEW step
  PROVE  /\ To(r, step) # Idle /\ To(r, step).op = req[r].op
         /\ To(r, step).user = req[r].user /\ To(r, step).pl = req[r].pl
         /\ To(r, step).at = step /\ To(r, step).arg = req[r].arg
         /\ To(r, step).meta = req[r].meta /\ To(r, step).stamp = req[r].stamp
BY DEF To, Request, Idle, ItemOps

LEMMA LookupTidy ==
  ASSUME Inv, Inv', Tidy, NEW r \in Slots, Lookup(r)
  PROVE  Tidy'
<1> DEFINE q == req[r]
           m == db.members[<<q.user, q.arg, q.pl>>]
           t == [To(r, "existing") EXCEPT !.stamp = m]
           w == [To(r, "dropItem") EXCEPT !.stamp = m]
<1>1. q.at = "lookup" /\ q.at \in ItemSteps
  BY DEF Lookup, At, ItemSteps
<1>2. /\ q \in Request /\ q.pl \in Playlists /\ q.user \in Users /\ q.at # "idle"
      /\ q.op \in ItemOps /\ Owns(q, db)
      /\ "fault" \notin hit[q.pl] => Located(q, db)
      /\ hit[q.pl] = {} => ItemFits(q, db) /\ OnlyOf(db, q.user, q.pl)
  BY <1>1, ItemKnown
<1>3. /\ t # Idle /\ t.op = q.op /\ t.user = q.user /\ t.pl = q.pl /\ t.at = "existing"
      /\ t.meta = q.meta
      /\ w # Idle /\ w.op = q.op /\ w.user = q.user /\ w.pl = q.pl /\ w.at = "dropItem"
      /\ w.meta = q.meta /\ w.arg = q.arg /\ w.stamp = m
  BY <1>2 DEF To, Request, Idle, ItemOps
<1>4. \/ Reads(r, Idle)
      \/ q.op = "add" /\ Reads(r, t)
      \/ q.op = "remove" /\ m # 0 /\ Reads(r, w)
  BY <1>2 DEF Lookup, ItemOps
<1>5. ItemFits(q, db) => /\ Both(q, db) /\ q.meta = db.byId[q.pl]
                         /\ Counts(q.meta, db.items[q.pl]) /\ Listing(db, q.user, q.pl)
  BY <1>1 DEF ItemFits
<1>6. Grows(db, db, q.pl)
  BY DEF Grows
<1> HIDE DEF t, w
<1>7. CASE Reads(r, Idle)
  <2>1. Serves(r, Idle, db)
    BY <1>1, <1>2, <1>5, <1>6, ItemServes
  <2> QED
    BY <1>2, <1>7, <2>1, IdleOK, IdleSteps, ReadsTidy
<1>8. CASE q.op = "add" /\ Reads(r, t)
  <2>1. ItemFits(q, db) => ItemFits(t, db)
    BY <1>3, <1>5 DEF ItemFits, Both
  <2>2. WorkOK(t, db)
    BY <1>3 DEF WorkOK
  <2>3. Serves(r, t, db) /\ GoesOn(q, t)
    BY <1>1, <1>2, <1>3, <1>6, <2>1, <2>2, ItemServes
  <2>4. StepOK(t, now)
    BY <1>3, <1>8 DEF StepOK
  <2> QED
    BY <1>2, <1>8, <2>3, <2>4, ReadsTidy
<1>9. CASE q.op = "remove" /\ m # 0 /\ Reads(r, w)
  <2>1. ItemFits(q, db) => ItemFits(w, db)
    BY <1>3, <1>5, <1>9 DEF ItemFits, Both
  <2>2. WorkOK(w, db)
    BY <1>3 DEF WorkOK
  <2>3. Serves(r, w, db) /\ GoesOn(q, w)
    BY <1>1, <1>2, <1>3, <1>6, <2>1, <2>2, ItemServes
  <2>4. StepOK(w, now)
    BY <1>3, <1>9 DEF StepOK
  <2> QED
    BY <1>2, <1>9, <2>3, <2>4, ReadsTidy
<1> QED
  BY <1>4, <1>7, <1>8, <1>9

LEMMA ExistingTidy ==
  ASSUME Inv, Inv', Tidy, NEW r \in Slots, Existing(r)
  PROVE  Tidy'
<1> DEFINE q == req[r]
           n == now'
           t == [To(r, "member") EXCEPT !.stamp = n]
<1>1. q.at = "existing" /\ q.at \in ItemSteps
  BY DEF Existing, At, ItemSteps
<1>2. /\ q \in Request /\ q.pl \in Playlists /\ q.user \in Users /\ q.at # "idle"
      /\ q.op \in ItemOps /\ Owns(q, db) /\ now \in Nat /\ db \in Tables
      /\ TimesOK(db.items[q.pl], now) /\ StepOK(q, now)
      /\ "fault" \notin hit[q.pl] => Located(q, db)
      /\ hit[q.pl] = {} => ItemFits(q, db) /\ OnlyOf(db, q.user, q.pl)
  BY <1>1, ItemKnown
<1>3. /\ t # Idle /\ t.op = q.op /\ t.user = q.user /\ t.pl = q.pl /\ t.at = "member"
      /\ t.meta = q.meta /\ t.stamp = n
  BY <1>2 DEF To, Request, Idle, ItemOps
<1>4. ItemFits(q, db) => /\ Both(q, db) /\ q.meta = db.byId[q.pl]
                         /\ Counts(q.meta, db.items[q.pl]) /\ Listing(db, q.user, q.pl)
  BY <1>1 DEF ItemFits
<1>5. Grows(db, db, q.pl)
  BY DEF Grows
<1>6. CASE Reads(r, Idle)
  <2>1. Serves(r, Idle, db)
    BY <1>1, <1>2, <1>4, <1>5, ItemServes
  <2> QED
    BY <1>2, <1>6, <2>1, IdleOK, IdleSteps, ReadsTidy
<1>7. CASE n = now + 1 /\ req' = [req EXCEPT ![r] = t] /\ UNCHANGED <<db, hit>>
  <2> HIDE DEF t
  <2>1. /\ db' = db /\ hit' = hit /\ now' \in Nat /\ now <= now'
        /\ TimesOK(db'.items[q.pl], now')
    BY <1>2, <1>7 DEF TimesOK
  <2>2. \A i \in db.items[q.pl] : i.at < n
    BY <1>2, <1>7 DEF TimesOK
  <2>3. ItemFits(q, db) => ItemFits(t, db)
    BY <1>3, <1>4, <2>2 DEF ItemFits, Both
  <2>4. WorkOK(t, db)
    BY <1>3 DEF WorkOK
  <2>5. Serves(r, t, db) /\ GoesOn(q, t)
    BY <1>1, <1>2, <1>3, <1>5, <2>3, <2>4, ItemServes
  <2>6. StepOK(t, now')
    BY <1>1, <1>2, <1>3, <1>7 DEF StepOK
  <2>7. Serves(r, t, db') /\ Elsewhere(q.pl, db, db')
    BY <2>1, <2>5, SameElsewhere
  <2> QED
    BY <1>2, <1>7, <2>1, <2>5, <2>6, <2>7, TidyMoves
<1> QED
  BY <1>6, <1>7 DEF Existing

LEMMA MemberTidy ==
  ASSUME Inv, Inv', Tidy, NEW r \in Slots, Member(r)
  PROVE  Tidy'
<1> DEFINE q == req[r]
           u == q.user
           v == q.arg
           p == q.pl
           s == q.stamp
           d == [db EXCEPT !.members[<<u, v, p>>] = s]
           t == To(r, "insertItem")
<1>1. q.at = "member" /\ q.at \in ItemSteps
  BY DEF Member, At, ItemSteps
<1>2. /\ q \in Request /\ p \in Playlists /\ u \in Users /\ q.at # "idle" /\ v \in Videos
      /\ q.op \in ItemOps /\ Owns(q, db) /\ now \in Nat /\ db \in Tables
      /\ TimesOK(db.items[p], now) /\ StepOK(q, now)
      /\ "fault" \notin hit[p] => Located(q, db)
      /\ hit[p] = {} => ItemFits(q, db) /\ OnlyOf(db, u, p)
  BY <1>1, ItemKnown
<1>3. /\ t # Idle /\ t.op = q.op /\ t.user = u /\ t.pl = p /\ t.at = "insertItem"
      /\ t.meta = q.meta /\ t.stamp = q.stamp /\ t.arg = v
  BY <1>2, GoingOn
<1>4. ItemFits(q, db) => /\ Both(q, db) /\ q.meta = db.byId[p]
                         /\ Counts(q.meta, db.items[p]) /\ Listing(db, u, p)
                         /\ \A i \in db.items[p] : i.at < q.stamp
  BY <1>1 DEF ItemFits
<1>5. Reads(r, Idle) \/ (db.members[<<u, v, p>>] = 0 /\ Writes(r, d, t, Idle))
  BY DEF Member, FirstAdd, Failed
<1>6. CASE Reads(r, Idle)
  <2>1. Grows(db, db, p)
    BY DEF Grows
  <2>2. Serves(r, Idle, db)
    BY <1>1, <1>2, <1>4, <2>1, ItemServes
  <2> QED
    BY <1>2, <1>6, <2>2, IdleOK, IdleSteps, ReadsTidy
<1>7. CASE db.members[<<u, v, p>>] = 0 /\ Writes(r, d, t, Idle)
  <2>1. s \in Nat \ {0} /\ StepOK(t, now)
    BY <1>1, <1>2, <1>3 DEF StepOK
  <2>2. /\ d.members = [db.members EXCEPT ![<<u, v, p>>] = s]
        /\ d.byId = db.byId /\ d.byUser = db.byUser /\ d.items = db.items
    BY <1>2 DEF Tables
  <2> HIDE DEF d, t, u, v, p, s
  <2>3. /\ Elsewhere(p, db, d)
        /\ d.members[<<u, v, p>>] = s
        /\ \A u2 \in Users, v2 \in Videos :
             <<u2, v2>> # <<u, v>> => d.members[<<u2, v2, p>>] = db.members[<<u2, v2, p>>]
        /\ s # 0 => Members(d, u, p) = Members(db, u, p) \cup {v}
        /\ OnlyOf(db, u, p) => OnlyOf(d, u, p)
    <3>1. u \in Users /\ v \in Videos /\ p \in Playlists /\ db \in Tables
      BY <1>2 DEF u, v, p
    <3>2. <<u, v, p>> \in Users \X Videos \X Playlists
      BY <3>1
    <3>3. d.members[<<u, v, p>>] = s
      BY <2>2, <3>1, <3>2 DEF Tables
    <3>4. Elsewhere(p, db, d)
      BY <2>2, <3>1, MemberElsewhere
    <3>5. \A u2 \in Users, v2 \in Videos :
            <<u2, v2>> # <<u, v>> => d.members[<<u2, v2, p>>] = db.members[<<u2, v2, p>>]
      BY <2>2, <3>1, MemberElsewhere
    <3>6. s # 0 => Members(d, u, p) = Members(db, u, p) \cup {v}
      BY <2>2, <3>1, MemberElsewhere
    <3>7. OnlyOf(db, u, p) => OnlyOf(d, u, p)
      BY <2>2, <3>1, MemberElsewhere
    <3> QED
      BY <3>3, <3>4, <3>5, <3>6, <3>7
  <2>4. Owns(q, d)
    BY <1>2, <2>2, <2>3 DEF Owns
  <2>5. Grows(db, d, p)
    <3> SUFFICES ASSUME NEW u2 \in Users, NEW v2 \in Videos, db.members[<<u2, v2, p>>] # 0
                 PROVE  d.members[<<u2, v2, p>>] = db.members[<<u2, v2, p>>]
      BY DEF Grows
    <3>1. <<u2, v2>> # <<u, v>>
      BY <1>7
    <3> QED
      BY <2>2, <2>3, <3>1
  <2>6. ASSUME Located(q, db) PROVE Located(q, d)
    <3> SUFFICES ASSUME NEW i \in db.items[p] PROVE d.members[<<u, i.video, p>>] = i.at
      BY <2>2, <2>3 DEF Located, u, p
    <3>1. db.members[<<u, i.video, p>>] = i.at /\ i.at # 0 /\ i.video \in Videos
      BY <1>2, <2>6 DEF Located, TimesOK, Tables, Item, u, p
    <3> QED
      BY <1>2, <2>5, <3>1 DEF Grows
  <2>7. WorkOK(t, d)
    BY <1>3, <2>2, <2>3 DEF WorkOK, s
  <2>8. ASSUME ItemFits(q, db) PROVE ItemFits(t, d)
    <3>1. v \notin Members(db, u, p)
      BY <1>7 DEF Members
    <3>2. v \notin VideosIn(d.items[p]) /\ Members(d, u, p) = VideosIn(d.items[p]) \cup {v}
      BY <1>4, <2>1, <2>2, <2>3, <2>8, <3>1 DEF Listing
    <3>3. Both(t, d)
      BY <1>3, <1>4, <2>2, <2>3, <2>8 DEF Both, u, p
    <3>4. t.meta = d.byId[p] /\ Counts(t.meta, d.items[p]) /\ \A i \in d.items[p] : i.at < t.stamp
      BY <1>3, <1>4, <2>2, <2>3, <2>8 DEF s
    <3> QED
      BY <1>3, <3>2, <3>3, <3>4 DEF ItemFits
  <2>9. Serves(r, t, d) /\ GoesOn(q, t)
    BY <1>1, <1>2, <1>3, <2>2, <2>3, <2>4, <2>5, <2>6, <2>7, <2>8, ItemServes DEF u, p
  <2>10. TimesOK(d.items[p], now)
    BY <1>2, <2>2, <2>3
  <2> QED
    BY <1>2, <1>7, <2>1, <2>2, <2>3, <2>9, <2>10, IdleOK, IdleSteps, WritesTidy DEF p
<1> QED
  BY <1>5, <1>6, <1>7

LEMMA InsertItemTidy ==
  ASSUME Inv, Inv', Tidy, NEW r \in Slots, InsertItem(r)
  PROVE  Tidy'
<1> DEFINE q == req[r]
           p == q.pl
           S == db.items[p]
           new == [at |-> q.stamp, video |-> q.arg]
           more == CoversWith(q.meta.covers, q.arg)
           T == S \cup {new}
           d == [db EXCEPT !.items[p] = T]
           t == [To(r, "countById") EXCEPT !.meta.count = @ + 1,
                                           !.meta.covers = CoversWith(@, q.arg)]
<1>1. q.at = "insertItem" /\ q.at \in ItemSteps
  BY DEF InsertItem, At, ItemSteps
<1>2. /\ q \in Request /\ p \in Playlists /\ q.user \in Users /\ q.at # "idle"
      /\ q.op \in ItemOps /\ Owns(q, db) /\ now \in Nat /\ db \in Tables
      /\ q.arg \in Videos /\ q.meta \in Row
      /\ TimesOK(S, now) /\ StepOK(q, now)
      /\ "fault" \notin hit[p] => Located(q, db) /\ WorkOK(q, db)
      /\ hit[p] = {} => ItemFits(q, db) /\ OnlyOf(db, q.user, p)
  BY <1>1, ItemKnown
<1>3. q.stamp \in 1 .. now /\ q.stamp \in Nat /\ S \in SUBSET Item
  BY <1>1, <1>2 DEF StepOK, Tables
<1>4. /\ t # Idle /\ t.op = q.op /\ t.user = q.user /\ t.pl = p /\ t.at = "countById"
  BY <1>2 DEF To, Request, Idle, ItemOps
<1>b. /\ t.meta.count = q.meta.count + 1 /\ t.meta.covers = more
      /\ more \in Seq(Videos) => t.meta \in Row
  <2>1. q.meta.count + 1 \in Nat
    BY <1>2 DEF Row
  <2> QED
    BY <1>2, <2>1 DEF To, Request, Row
<1>5. Writes(r, d, t, Idle)
  BY DEF InsertItem, Failed
<1> HIDE DEF t, more
<1> HIDE DEF T
<1>a. db \in Tables /\ p \in Playlists
  BY <1>2
<1>6. /\ Elsewhere(p, db, d) /\ d.items[p] = T
      /\ d.byId = db.byId /\ d.byUser = db.byUser /\ d.members = db.members
  BY <1>a, ItemsElsewhere
<1> HIDE DEF d
<1> USE DEF T
<1>7. TimesOK(S \cup {new}, now)
  <2>1. IsFiniteSet(S \cup {new})
    BY <1>2, FS_AddElement DEF TimesOK
  <2> QED
    BY <1>2, <1>3, <2>1 DEF TimesOK
<1>8. ASSUME Located(q, db), WorkOK(q, db) PROVE Located(q, d)
  BY <1>1, <1>6, <1>8 DEF Located, WorkOK
<1>9. ASSUME ItemFits(q, db) PROVE ItemFits(t, d)
  <2>1. /\ Both(q, db) /\ Counts(q.meta, S) /\ \A i \in S : i.at < q.stamp
        /\ q.arg \notin VideosIn(S)
        /\ Members(db, q.user, p) = VideosIn(S) \cup {q.arg}
    BY <1>1, <1>9 DEF ItemFits
  <2>2. more \in CoversOf(S \cup {new})
    BY <1>2, <1>3, <2>1, CoversGrow DEF Counts, more
  <2>3. more \in Seq(Videos)
    BY <2>2, CoversAre, SeqOfIs
  <2>4. new \notin S /\ VideosIn(S \cup {new}) = VideosIn(S) \cup {q.arg}
    BY <2>1 DEF VideosIn
  <2>5. Cardinality(S \cup {new}) = q.meta.count + 1
    BY <1>2, <2>1, <2>4, FS_AddElement DEF TimesOK, Counts
  <2>6. Counts(t.meta, d.items[p])
    BY <1>b, <1>6, <2>2, <2>3, <2>5 DEF Counts
  <2>7. Both(t, d)
    BY <1>4, <1>6, <2>1 DEF Both
  <2>8. Listing(d, q.user, p)
    BY <1>6, <2>1, <2>4 DEF Listing, Members
  <2> QED
    BY <1>4, <2>6, <2>7, <2>8 DEF ItemFits
<1>10. OnlyOf(db, q.user, p) => OnlyOf(d, q.user, p)
  BY <1>6 DEF OnlyOf, Members
<1>11. Owns(q, d) /\ Grows(db, d, p) /\ WorkOK(t, d) /\ StepOK(t, now)
  BY <1>2, <1>4, <1>6 DEF Owns, Grows, WorkOK, StepOK
<1>12. Serves(r, t, d) /\ GoesOn(q, t)
  BY <1>1, <1>2, <1>4, <1>8, <1>9, <1>10, <1>11, ItemServes
<1> QED
  BY <1>2, <1>5, <1>6, <1>7, <1>11, <1>12, IdleOK, IdleSteps, WritesTidy

LEMMA DropItemTidy ==
  ASSUME Inv, Inv', Tidy, NEW r \in Slots, DropItem(r)
  PROVE  Tidy'
<1> DEFINE q == req[r]
           p == q.pl
           S == db.items[p]
           old == [at |-> q.stamp, video |-> q.arg]
           T == S \ {old}
           d == [db EXCEPT !.items[p] = T]
           t == To(r, "dropMember")
<1>1. q.at = "dropItem" /\ q.at \in ItemSteps
  BY DEF DropItem, At, ItemSteps
<1>2. /\ q \in Request /\ p \in Playlists /\ q.user \in Users /\ q.at # "idle"
      /\ q.op \in ItemOps /\ Owns(q, db) /\ now \in Nat /\ db \in Tables
      /\ q.arg \in Videos /\ q.meta \in Row
      /\ TimesOK(S, now) /\ StepOK(q, now)
      /\ "fault" \notin hit[p] => Located(q, db) /\ WorkOK(q, db)
      /\ hit[p] = {} => ItemFits(q, db) /\ OnlyOf(db, q.user, p)
  BY <1>1, ItemKnown
<1>3. q.op = "remove" /\ S \in SUBSET Item
  BY <1>1, <1>2 DEF StepOK, Tables
<1>4. /\ t # Idle /\ t.op = q.op /\ t.user = q.user /\ t.pl = p /\ t.at = "dropMember"
      /\ t.meta = q.meta /\ t.arg = q.arg
  BY <1>2, GoingOn
<1>5. Writes(r, d, t, t)
  BY DEF DropItem
<1> HIDE DEF t
<1> HIDE DEF T
<1>a. db \in Tables /\ p \in Playlists
  BY <1>2
<1>6. /\ Elsewhere(p, db, d) /\ d.items[p] = T
      /\ d.byId = db.byId /\ d.byUser = db.byUser /\ d.members = db.members
  BY <1>a, ItemsElsewhere
<1> HIDE DEF d
<1> USE DEF T
<1>7. TimesOK(S \ {old}, now)
  <2>1. IsFiniteSet(S \ {old})
    BY <1>2, FS_Subset DEF TimesOK
  <2> QED
    BY <1>2, <2>1 DEF TimesOK
<1>8. ASSUME Located(q, db), WorkOK(q, db)
      PROVE  /\ \A i \in S : i.video = q.arg => i = old
             /\ q.arg \notin VideosIn(S \ {old})
             /\ Located(q, d)
  <2>1. ASSUME NEW i \in S, i.video = q.arg PROVE i = old
    <3>1. i.at = q.stamp
      BY <1>1, <1>8, <2>1 DEF Located, WorkOK
    <3>2. i = [at |-> i.at, video |-> i.video]
      BY <1>3 DEF Item
    <3> QED
      BY <2>1, <3>1, <3>2
  <2> QED
    BY <1>6, <1>8, <2>1 DEF Located, VideosIn
<1>9. ASSUME ItemFits(q, db), Located(q, db), WorkOK(q, db) PROVE ItemFits(t, d)
  <2>1. /\ Both(q, db) /\ q.meta = db.byId[p] /\ Counts(q.meta, S) /\ q.stamp # 0
        /\ Listing(db, q.user, p)
    BY <1>1, <1>9 DEF ItemFits
  <2>2. q.arg \in VideosIn(S)
    BY <1>1, <1>2, <1>9, <2>1 DEF Listing, Members, WorkOK
  <2>3. old \in S /\ VideosIn(S) = VideosIn(S \ {old}) \cup {q.arg}
    BY <1>8, <1>9, <2>2 DEF VideosIn
  <2>4. Cardinality(S \ {old}) = Cardinality(S) - 1 /\ Cardinality(S) \in Nat
    <3>1. IsFiniteSet(S) /\ old \in S
      BY <1>2, <2>3 DEF TimesOK
    <3> HIDE DEF S, old
    <3> QED
      BY <3>1, FS_RemoveElement, FS_CardinalityType
  <2>5. t.meta.count = Cardinality(d.items[p]) + 1
    BY <1>4, <1>6, <2>1, <2>4 DEF Counts
  <2>6. Both(t, d)
    BY <1>4, <1>6, <2>1 DEF Both
  <2>7. /\ q.arg \notin VideosIn(d.items[p])
        /\ Members(d, q.user, p) = VideosIn(d.items[p]) \cup {q.arg}
    BY <1>6, <1>8, <1>9, <2>1, <2>3 DEF Listing, Members
  <2> QED
    BY <1>4, <1>6, <2>1, <2>5, <2>6, <2>7 DEF ItemFits
<1>10. OnlyOf(db, q.user, p) => OnlyOf(d, q.user, p)
  BY <1>6 DEF OnlyOf, Members
<1>11. Owns(q, d) /\ StepOK(t, now)
  BY <1>2, <1>3, <1>4, <1>6 DEF Owns, StepOK
<1>12. ASSUME Located(q, db), WorkOK(q, db) PROVE WorkOK(t, d)
  BY <1>4, <1>6, <1>8, <1>12 DEF WorkOK
<1>13. Serves(r, t, d) /\ GoesOn(q, t)
  BY <1>1, <1>2, <1>3, <1>4, <1>8, <1>9, <1>10, <1>11, <1>12, ItemServes
<1> QED
  BY <1>2, <1>5, <1>6, <1>7, <1>11, <1>13, WritesTidy

LEMMA DropMemberTidy ==
  ASSUME Inv, Inv', Tidy, NEW r \in Slots, DropMember(r)
  PROVE  Tidy'
<1> DEFINE q == req[r]
           u == q.user
           v == q.arg
           p == q.pl
           d == [db EXCEPT !.members[<<u, v, p>>] = 0]
           t == To(r, "covers")
<1>1. q.at = "dropMember" /\ q.at \in ItemSteps
  BY DEF DropMember, At, ItemSteps
<1>2. /\ q \in Request /\ p \in Playlists /\ u \in Users /\ q.at # "idle" /\ v \in Videos
      /\ q.op \in ItemOps /\ Owns(q, db) /\ now \in Nat /\ db \in Tables
      /\ TimesOK(db.items[p], now) /\ StepOK(q, now)
      /\ "fault" \notin hit[p] => Located(q, db) /\ WorkOK(q, db)
      /\ hit[p] = {} => ItemFits(q, db) /\ OnlyOf(db, u, p)
  BY <1>1, ItemKnown
<1>3. q.op = "remove" /\ db.items[p] \in SUBSET Item
  BY <1>1, <1>2 DEF StepOK, Tables
<1>4. /\ t # Idle /\ t.op = q.op /\ t.user = u /\ t.pl = p /\ t.at = "covers" /\ t.meta = q.meta
  BY <1>2, GoingOn
<1>5. Writes(r, d, t, t)
  BY DEF DropMember
<1>6. /\ d.members = [db.members EXCEPT ![<<u, v, p>>] = 0]
      /\ d.byId = db.byId /\ d.byUser = db.byUser /\ d.items = db.items
  BY <1>2 DEF Tables
<1> HIDE DEF d, t, u, v, p
<1>a. u \in Users /\ v \in Videos /\ p \in Playlists /\ db \in Tables
  BY <1>2
<1>7. Elsewhere(p, db, d)
  BY <1>a, <1>6, MemberElsewhere
<1>8. \A u2 \in Users, v2 \in Videos :
        <<u2, v2>> # <<u, v>> => d.members[<<u2, v2, p>>] = db.members[<<u2, v2, p>>]
  BY <1>a, <1>6, MemberElsewhere
<1>9. Members(d, u, p) = Members(db, u, p) \ {v}
  BY <1>a, <1>6, MemberElsewhere
<1>10. OnlyOf(db, u, p) => OnlyOf(d, u, p)
  BY <1>a, <1>6, MemberElsewhere
<1>11. WorkOK(q, db) => v \notin VideosIn(db.items[p])
  BY <1>1 DEF WorkOK, v, p
<1>12. ASSUME Located(q, db), WorkOK(q, db) PROVE Located(q, d)
  <2> SUFFICES ASSUME NEW i \in db.items[p] PROVE d.members[<<u, i.video, p>>] = i.at
    BY <1>6 DEF Located, u, p
  <2>1. db.members[<<u, i.video, p>>] = i.at
    BY <1>12 DEF Located, u, p
  <2>2. i.video # v /\ i.video \in Videos
    BY <1>3, <1>11, <1>12 DEF VideosIn, Item
  <2> QED
    BY <1>2, <1>8, <2>1, <2>2
<1>13. ASSUME ItemFits(q, db) PROVE ItemFits(t, d)
  <2>1. /\ Both(q, db) /\ q.meta = db.byId[p] /\ q.meta.count = Cardinality(db.items[p]) + 1
        /\ v \notin VideosIn(db.items[p])
        /\ Members(db, u, p) = VideosIn(db.items[p]) \cup {v}
    BY <1>1, <1>13 DEF ItemFits, u, v, p
  <2>2. Both(t, d)
    BY <1>4, <1>6, <2>1 DEF Both, u, p
  <2>3. Listing(d, u, p)
    BY <1>6, <1>9, <2>1 DEF Listing
  <2> QED
    BY <1>4, <1>6, <2>1, <2>2, <2>3 DEF ItemFits
<1>14. Owns(q, d) /\ WorkOK(t, d) /\ StepOK(t, now) /\ TimesOK(d.items[p], now)
  BY <1>2, <1>3, <1>4, <1>6 DEF Owns, WorkOK, StepOK
<1>15. Serves(r, t, d) /\ GoesOn(q, t)
  BY <1>1, <1>2, <1>3, <1>4, <1>10, <1>12, <1>13, <1>14, ItemServes DEF u, p
<1> QED
  BY <1>2, <1>5, <1>7, <1>14, <1>15, WritesTidy DEF p

LEMMA CoversTidy ==
  ASSUME Inv, Inv', Tidy, NEW r \in Slots, Covers(r)
  PROVE  Tidy'
<1> DEFINE q == req[r]
           S == db.items[q.pl]
           next == [To(r, "countById") EXCEPT !.meta.count = Decremented(@)]
<1>1. q.at = "covers" /\ q.at \in ItemSteps
  BY DEF Covers, At, ItemSteps
<1>2. /\ q \in Request /\ q.pl \in Playlists /\ q.user \in Users /\ q.at # "idle"
      /\ q.op \in ItemOps /\ Owns(q, db) /\ now \in Nat /\ db \in Tables
      /\ q.arg \in Videos /\ q.meta \in Row
      /\ TimesOK(S, now) /\ StepOK(q, now)
      /\ "fault" \notin hit[q.pl] => Located(q, db) /\ WorkOK(q, db)
      /\ hit[q.pl] = {} => ItemFits(q, db) /\ OnlyOf(db, q.user, q.pl)
  BY <1>1, ItemKnown
<1>3. q.op = "remove"
  BY <1>1, <1>2 DEF StepOK
<1>4. PICK c \in CoversOf(S) : Writes(r, db, [next EXCEPT !.meta.covers = c], next)
  BY DEF Covers
<1> DEFINE t == [next EXCEPT !.meta.covers = c]
<1>5. c \in Seq(Videos)
  BY CoversAre, SeqOfIs
<1>6. q.meta.count \in Nat /\ Decremented(q.meta.count) \in Nat
  BY <1>2 DEF Row, Decremented
<1>7. /\ next # Idle /\ next.op = q.op /\ next.user = q.user /\ next.pl = q.pl
      /\ next.at = "countById"
  BY <1>2 DEF To, Request, Idle, ItemOps
<1>8. /\ t # Idle /\ t.op = q.op /\ t.user = q.user /\ t.pl = q.pl /\ t.at = "countById"
      /\ t.meta.count = Decremented(q.meta.count) /\ t.meta.covers = c /\ t.meta \in Row
  BY <1>2, <1>5, <1>6 DEF To, Request, Idle, ItemOps, Row
<1>9. Writes(r, db, t, next)
  BY <1>4
<1> HIDE DEF t, next
<1>10. ASSUME ItemFits(q, db) PROVE ItemFits(t, db)
  <2>1. /\ Both(q, db) /\ q.meta.count = Cardinality(S) + 1 /\ Listing(db, q.user, q.pl)
    BY <1>1, <1>10 DEF ItemFits
  <2>2. Decremented(q.meta.count) = Cardinality(S)
    <3>1. Cardinality(S) \in Nat
      BY <1>2, FS_CardinalityType DEF TimesOK
    <3>2. \A n \in Nat : Decremented(n + 1) = n
      BY DEF Decremented
    <3> QED
      BY <2>1, <3>1, <3>2
  <2>3. Counts(t.meta, S) /\ Both(t, db)
    BY <1>8, <2>1, <2>2 DEF Counts, Both
  <2> QED
    BY <1>8, <2>1, <2>3 DEF ItemFits
<1>11. StepOK(t, now) /\ StepOK(next, now) /\ WorkOK(t, db) /\ GoesOn(q, next)
  BY <1>7, <1>8 DEF StepOK, WorkOK, GoesOn
<1>12. Serves(r, t, db) /\ GoesOn(q, t)
  BY <1>1, <1>2, <1>3, <1>8, <1>10, <1>11, ItemServes
<1> QED
  BY <1>2, <1>9, <1>11, <1>12, SameElsewhere, WritesTidy

LEMMA CountByIdTidy ==
  ASSUME Inv, Inv', Tidy, NEW r \in Slots, CountById(r)
  PROVE  Tidy'
<1> DEFINE q == req[r]
           p == q.pl
           row == Counted(db.byId[p], NoUser, q.meta)
           d == [db EXCEPT !.byId[p] = row]
           t == To(r, "countByUser")
<1>1. q.at = "countById" /\ q.at \in ItemSteps
  BY DEF CountById, At, ItemSteps
<1>2. /\ q \in Request /\ p \in Playlists /\ q.user \in Users /\ q.at # "idle"
      /\ q.op \in ItemOps /\ Owns(q, db) /\ now \in Nat /\ db \in Tables
      /\ q.arg \in Videos /\ q.meta \in Row
      /\ TimesOK(db.items[p], now) /\ StepOK(q, now)
      /\ "fault" \notin hit[p] => Located(q, db) /\ WorkOK(q, db)
      /\ hit[p] = {} => ItemFits(q, db) /\ OnlyOf(db, q.user, p)
  BY <1>1, ItemKnown
<1>3. db.byId[p] \in Row /\ db.byId[p] # NoRow /\ db.byId[p].user = q.user
  BY <1>2 DEF Owns, Tables
<1>4. /\ row = [db.byId[p] EXCEPT !.count = q.meta.count, !.covers = q.meta.covers]
      /\ row \in Row /\ row.user = q.user
  BY <1>2, <1>3 DEF Counted, Row
<1>5. /\ t # Idle /\ t.op = q.op /\ t.user = q.user /\ t.pl = p /\ t.at = "countByUser"
      /\ t.meta = q.meta
  BY <1>2, GoingOn
<1>6. Writes(r, d, t, Idle)
  BY DEF CountById, Failed
<1> HIDE DEF row
<1>7. /\ Elsewhere(p, db, d) /\ d.byId[p] = row
      /\ d.byUser = db.byUser /\ d.items = db.items /\ d.members = db.members
  BY <1>2, ByIdElsewhere
<1> HIDE DEF d, t
<1>8. Located(q, db) => Located(q, d)
  BY <1>7 DEF Located
<1>9. ASSUME ItemFits(q, db) PROVE ItemFits(t, d)
  <2>1. /\ db.byUser[<<q.user, p>>] = db.byId[p] /\ Counts(q.meta, db.items[p])
        /\ Listing(d, q.user, p)
    BY <1>1, <1>7, <1>9, SameContents DEF ItemFits, Both
  <2> QED
    BY <1>3, <1>4, <1>5, <1>7, <2>1 DEF ItemFits
<1>10. /\ OnlyOf(db, q.user, p) => OnlyOf(d, q.user, p)
       /\ Grows(db, d, p)
  BY <1>7, SameContents
<1>11. Owns(q, d) /\ WorkOK(t, d) /\ StepOK(t, now) /\ TimesOK(d.items[p], now)
  BY <1>2, <1>4, <1>5, <1>7, NullAssumption DEF Owns, WorkOK, StepOK
<1>12. Serves(r, t, d) /\ GoesOn(q, t)
  BY <1>1, <1>2, <1>5, <1>8, <1>9, <1>10, <1>11, ItemServes
<1> QED
  BY <1>2, <1>6, <1>7, <1>11, <1>12, IdleOK, IdleSteps, WritesTidy

LEMMA CountByUserTidy ==
  ASSUME Inv, Inv', Tidy, NEW r \in Slots, CountByUser(r)
  PROVE  Tidy'
<1> DEFINE q == req[r]
           p == q.pl
           old == db.byUser[<<q.user, p>>]
           row == Counted(old, q.user, q.meta)
           d == [db EXCEPT !.byUser[<<q.user, p>>] = row]
<1>1. q.at = "countByUser" /\ q.at \in ItemSteps
  BY DEF CountByUser, At, ItemSteps
<1>2. /\ q \in Request /\ p \in Playlists /\ q.user \in Users /\ q.at # "idle"
      /\ q.op \in ItemOps /\ Owns(q, db) /\ now \in Nat /\ db \in Tables
      /\ q.arg \in Videos /\ q.meta \in Row
      /\ TimesOK(db.items[p], now) /\ StepOK(q, now)
      /\ "fault" \notin hit[p] => Located(q, db) /\ WorkOK(q, db)
      /\ hit[p] = {} => ItemFits(q, db) /\ OnlyOf(db, q.user, p)
  BY <1>1, ItemKnown
<1>3. old \in Row => row = [old EXCEPT !.count = q.meta.count, !.covers = q.meta.covers]
  BY NullAssumption DEF Counted
<1>4. Writes(r, d, Idle, Idle)
  BY DEF CountByUser, Failed
<1> HIDE DEF row
<1>a. db \in Tables /\ p \in Playlists /\ q.user \in Users
  BY <1>2
<1>5. /\ Elsewhere(p, db, d) /\ d.byUser[<<q.user, p>>] = row
      /\ d.byId = db.byId /\ d.items = db.items /\ d.members = db.members
  <2>1. d.byId = db.byId /\ d.items = db.items /\ d.members = db.members
    BY <1>a DEF Tables
  <2>2. Elsewhere(p, db, d)
    BY <1>a, ByUserElsewhere
  <2>3. d.byUser[<<q.user, p>>] = row
    BY <1>a DEF Tables
  <2> QED
    BY <2>1, <2>2, <2>3
<1> HIDE DEF d
<1>6. Located(q, db) => Located(q, d)
  BY <1>5 DEF Located
<1>7. /\ OnlyOf(db, q.user, p) => OnlyOf(d, q.user, p)
      /\ Listing(db, q.user, p) => Listing(d, q.user, p)
      /\ Grows(db, d, p)
  BY <1>5, SameContents
<1>8. ASSUME ItemFits(q, db)
      PROVE  /\ Both(q, d) /\ Counts(d.byId[p], d.items[p]) /\ Listing(d, q.user, p)
  <2>1. /\ Counts(q.meta, db.items[p]) /\ old \in Row /\ Listing(db, q.user, p)
        /\ db.byId[p] = [old EXCEPT !.count = q.meta.count, !.covers = q.meta.covers]
    BY <1>1, <1>8 DEF ItemFits
  <2>2. Both(q, d)
    BY <1>3, <1>5, <2>1 DEF Both
  <2>3. /\ db.byId[p] \in Row /\ db.byId[p].count = q.meta.count
        /\ db.byId[p].covers = q.meta.covers
    BY <1>2, <2>1 DEF Row
  <2>4. Counts(d.byId[p], d.items[p])
    BY <1>5, <2>1, <2>3 DEF Counts
  <2> QED
    BY <1>7, <2>1, <2>2, <2>4
<1>9. Owns(q, d) /\ TimesOK(d.items[p], now)
  BY <1>2, <1>5 DEF Owns
<1>10. Serves(r, Idle, d)
  BY <1>1, <1>2, <1>6, <1>7, <1>8, <1>9, ItemServes
<1> QED
  BY <1>2, <1>4, <1>5, <1>9, <1>10, IdleOK, IdleSteps, WritesTidy

LEMMA TidyNext ==
  ASSUME Inv, Inv', Tidy, Overlap \subseteq {"add"}, [Next]_vars
  PROVE  Tidy'
<1>1. CASE UNCHANGED vars
  <2>1. db' = db /\ req' = req /\ now' = now /\ hit' = hit
    BY <1>1 DEF vars
  <2>2. AloneButAdds' = AloneButAdds /\ \A p \in Playlists : Busy(p)' = Busy(p)
    BY <2>1 DEF AloneButAdds, Busy
  <2> QED
    BY <2>1, <2>2 DEF Tidy
<1>2. CASE Restart
  BY <1>2, RestartTidy
<1>3. ASSUME NEW r \in Slots, Arrival(r) PROVE Tidy'
  BY <1>3, ArrivalTidy
<1>4. ASSUME NEW r \in Slots, Statement(r)
      PROVE  Tidy'
  <2>1. CASE \/ CountPlaylists(r) \/ Reserve(r) \/ InsertById(r) \/ InsertByUser(r)
             \/ NameById(r) \/ NameByUser(r) \/ Release(r)
    BY <2>1, CountTidy, ReserveTidy, InsertByIdTidy, InsertByUserTidy, NameByIdTidy,
       NameByUserTidy, ReleaseTidy
  <2>2. CASE \/ DropByUser(r) \/ DropById(r) \/ ReadMembers(r) \/ Purged(r) \/ DropItems(r)
             \/ \E v \in Videos : PurgeMember(r, v)
    BY <2>2, DropRowsTidy, TailTidy
  <2>3. CASE \/ Lookup(r) \/ Existing(r) \/ Member(r) \/ InsertItem(r) \/ DropItem(r)
             \/ DropMember(r) \/ Covers(r) \/ CountById(r) \/ CountByUser(r)
    BY <2>3, LookupTidy, ExistingTidy, MemberTidy, InsertItemTidy, DropItemTidy,
       DropMemberTidy, CoversTidy, CountByIdTidy, CountByUserTidy
  <2> QED
    BY <1>4, <2>1, <2>2, <2>3 DEF Statement
<1> QED
  BY <1>1, <1>2, <1>3, <1>4 DEF Next

LEMMA TidyHolds == ASSUME Overlap \subseteq {"add"} PROVE Spec => [](Inv /\ Tidy)
<1>1. Overlap \subseteq ItemOps
  BY DEF ItemOps
<1>2. Init => Inv /\ Tidy
  BY InvInit, TidyInit
<1>3. Inv /\ Tidy /\ [Next]_vars => Inv' /\ Tidy'
  BY <1>1, InvNext, TidyNext
<1> QED
  BY <1>2, <1>3, PTL DEF Spec

(* For any number of users, playlists, videos and adds that race on a      *)
(* playlist, whatever fails elsewhere and wherever the server stops: in a  *)
(* playlist no fault has hit, every item is at the time the membership     *)
(* index has for it, so a video is there once, and can be found and        *)
(* removed (item_add.cpp:220-255, item_remove.cpp).                        *)
THEOREM PlaylistItemsIndexed == ASSUME Overlap \subseteq {"add"} PROVE Spec => []ItemsIndexed
<1>1. Tidy => ItemsIndexed
  <2> SUFFICES ASSUME Tidy, NEW u \in Users, NEW p \in Playlists, Mine(u, p),
                      "fault" \notin hit[p], NEW i \in db.items[p]
               PROVE  db.members[<<u, i.video, p>>] = i.at
    BY DEF ItemsIndexed
  <2>1. IndexedOK(db, p)
    BY DEF Tidy
  <2> QED
    BY <2>1 DEF IndexedOK, Mine
<1> QED
  BY <1>1, TidyHolds, PTL

(* For any number of users, playlists and videos, and any limits: a        *)
(* playlist that nothing has hit agrees with itself whenever nobody works  *)
(* on it.  Its two rows are the same; the count every add and removal      *)
(* carries from the row it loaded is the number of items; the covers,      *)
(* prepended by adds and recomputed by removals, are those of the newest   *)
(* items; the index lists the items and nothing else (item_add.cpp,        *)
(* item_remove.cpp, delete.cpp).                                           *)
THEOREM PlaylistAgree == ASSUME Overlap \subseteq {"add"} PROVE Spec => []Agree
<1>1. Tidy => Agree
  <2> SUFFICES ASSUME Tidy, NEW u \in Users, NEW p \in Playlists, Mine(u, p), hit[p] = {},
                      \A r \in Slots : req[r].pl # p
               PROVE  /\ db.byUser[<<u, p>>] = db.byId[p]
                      /\ db.byId[p].count = Cardinality(db.items[p])
                      /\ db.byId[p].covers \in CoversOf(db.items[p])
                      /\ {v \in Videos : p \in ByVideo(u, v)} = {i.video : i \in db.items[p]}
    BY DEF Agree
  <2>1. Rest(db, p)
    BY DEF Tidy, Busy
  <2>2. {v \in Videos : p \in ByVideo(u, v)} = Members(db, u, p)
    BY DEF ByVideo, Members
  <2> QED
    BY <2>1, <2>2 DEF Rest, Mine, Counts, Listing, VideosIn
<1> QED
  BY <1>1, TidyHolds, PTL

================================================================================
