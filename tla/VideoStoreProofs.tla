---------------------------- MODULE VideoStoreProofs ----------------------------
(***************************************************************************)
(* Proofs about VideoStore, for any number of users, videos and concurrent *)
(* requests, whatever fails and wherever the server stops: that every URL  *)
(* shown names an object of the bucket, that what is not public stays with *)
(* its owner, and what the tables hold through the life of a video: once   *)
(* it is settled, once it is deleted, and when the lists are asked.        *)
(***************************************************************************)
EXTENDS VideoStore, TLAPS

Processes == Slots \cup Videos
AnyProcess == Process("create") \cup Process("delete") \cup Process("derive") \cup {Idle}

(* What a process does is of its kind.                                     *)
KindOK(p, q) ==
    /\ q \in AnyProcess
    /\ p \in Slots => q.op # "derive"
    /\ p \in Videos => q = Idle \/ (q.op = "derive" /\ q.v = p)

(* The object of a video is there until its owner deletes it.              *)
FileKept(v, o, h) == <<v, "file">> \in o \/ "delete" \in h[v]

Updates == {"setUser", "setById", "setByDay"}

(* What a request or a task relies on before each of its statements, with  *)
(* the bucket o and the history h.                                         *)
ProcOK(q, o, h) ==
    q # Idle =>
        /\ q.op \in {"create", "derive"} => q.vis \in h[q.v]
        /\ q.op = "delete" => "delete" \in h[q.v]
        /\ q.op = "create" =>
             /\ q.col = "thumbnail_url"
             /\ q.at # "put" => FileKept(q.v, o, h)
        /\ q.at \in Updates \cup {"lookup"} => <<q.v, q.col>> \in o
        /\ q.at \in {"insertByDay", "setByDay"} => q.vis = "public"

(* What is always so of row of table t for video v.                        *)
RowOK(t, v, row, o, h) ==
    row # NoRow =>
        /\ IF row.made THEN row.vis \in h[v] /\ FileKept(v, o, h) ELSE row.vis = "null"
        /\ \A c \in row.urls : <<v, c>> \in o
        /\ t = "videos_by_day" => "public" \in h[v]

DbOK(d, o, h) ==
    /\ d \in [Tables -> [Videos -> Row \cup {NoRow}]]
    /\ \A t \in Tables, v \in Videos : RowOK(t, v, d[t][v], o, h)

(* A video is uploaded once, with one visibility.                          *)
OneVisibility(h) ==
    \A v \in Videos : \A a, b \in h[v] \cap Visibilities : a = b

PastOK(h) == h \in [Videos -> SUBSET Events] /\ OneVisibility(h)

Inv ==
    /\ s3 \in SUBSET (Videos \X Objects)
    /\ PastOK(past)
    /\ DbOK(db, s3, past)
    /\ run \in [Processes -> AnyProcess]
    /\ \A p \in Processes : KindOK(p, run[p]) /\ ProcOK(run[p], s3, past)

-------------------------------------------------------------------------------
(* The kinds of processes.                                                 *)

Ops == {"create", "delete", "derive"}

LEMMA Steps ==
  /\ StepsOf["create"] = {"put", "insertUser", "insertById", "insertByDay", "seed", "lookup",
                          "setUser", "setById", "setByDay", "schedule"}
  /\ StepsOf["derive"] = {"created", "image", "setUser", "setById", "setByDay"}
  /\ StepsOf["delete"] = {"dropFile", "dropById", "dropByUser", "dropByDay"}
BY DEF StepsOf

LEMMA IdleFields == Idle.op = "none" /\ Idle.at = "idle"
BY DEF Idle

LEMMA Fields ==
  ASSUME NEW q \in AnyProcess, q # Idle
  PROVE  /\ q.op \in Ops /\ q \in Process(q.op)
         /\ q.at \in StepsOf[q.op] /\ q.v \in Videos
         /\ q.vis \in Visibilities \cup {"null"} /\ q.col \in Columns
         /\ q.given \in BOOLEAN /\ q.dated \in BOOLEAN
<1>1. PICK op \in Ops : q \in Process(op)
  BY DEF AnyProcess, Ops
<1>2. q.op = op
  BY <1>1 DEF Process
<1> QED
  BY <1>1, <1>2 DEF Process

LEMMA Made ==
  ASSUME NEW op \in Ops, NEW q \in Process(op)
  PROVE  q \in AnyProcess /\ q # Idle /\ q.op = op
<1>1. q.op = op
  BY DEF Process
<1> QED
  BY <1>1, IdleFields DEF AnyProcess, Ops

(* A process at a statement.                                               *)
LEMMA Standing ==
  ASSUME Inv, NEW p \in Processes, NEW s, s # "idle", At(p, s)
  PROVE  LET q == run[p] IN
         /\ q \in AnyProcess /\ q # Idle /\ q.op \in Ops /\ q \in Process(q.op)
         /\ q.at = s /\ s \in StepsOf[q.op] /\ q.v \in Videos
         /\ q.vis \in Visibilities \cup {"null"} /\ q.col \in Columns
         /\ KindOK(p, q) /\ ProcOK(q, s3, past)
<1>1. run[p] \in AnyProcess /\ KindOK(p, run[p]) /\ ProcOK(run[p], s3, past) /\ run[p].at = s
  BY DEF Inv, At
<1>2. run[p] # Idle
  BY <1>1, IdleFields
<1> QED
  BY <1>1, <1>2, Fields

(* It goes on to another statement of its handler.                         *)
LEMMA Moving ==
  ASSUME NEW p \in Processes, NEW q \in AnyProcess, q # Idle, KindOK(p, q),
         NEW at \in StepsOf[q.op]
  PROVE  LET n == [q EXCEPT !.at = at] IN
         /\ KindOK(p, n) /\ n # Idle /\ n \in AnyProcess
         /\ n.at = at /\ n.op = q.op /\ n.v = q.v /\ n.vis = q.vis /\ n.col = q.col
         /\ n.given = q.given /\ n.dated = q.dated
<1> DEFINE n == [q EXCEPT !.at = at]
<1>1. q.op \in Ops /\ q \in Process(q.op)
  BY Fields
<1>2. n \in Process(q.op) /\ n.at = at /\ n.op = q.op /\ n.v = q.v /\ n.vis = q.vis
      /\ n.col = q.col /\ n.given = q.given /\ n.dated = q.dated
  BY <1>1 DEF Process
<1>3. n \in AnyProcess /\ n # Idle
  BY <1>1, <1>2, Made
<1> QED
  BY <1>2, <1>3 DEF KindOK

LEMMA IdleOK == ASSUME NEW p \in Processes, NEW o, NEW h PROVE KindOK(p, Idle) /\ ProcOK(Idle, o, h)
BY IdleFields DEF KindOK, AnyProcess, ProcOK

-------------------------------------------------------------------------------
(* Nothing leaves the bucket but the object of a video that is deleted,    *)
(* and the history grows.                                                  *)

Kept(o, o2, h2) ==
    \A x \in o : x \in o2 \/ \E v \in Videos : x = <<v, "file">> /\ "delete" \in h2[v]
Grown(h, h2) == \A v \in Videos : h[v] \subseteq h2[v]

LEMMA ImageKept ==
  ASSUME NEW o, NEW o2, NEW h2, Kept(o, o2, h2), NEW v \in Videos, NEW c \in Columns,
         <<v, c>> \in o
  PROVE  <<v, c>> \in o2
<1>1. \A w \in Videos : <<v, c>> # <<w, "file">>
  BY DEF Columns
<1> QED
  BY <1>1 DEF Kept

LEMMA FileStays ==
  ASSUME NEW o, NEW o2, NEW h, NEW h2, Kept(o, o2, h2), Grown(h, h2), NEW v \in Videos,
         FileKept(v, o, h)
  PROVE  FileKept(v, o2, h2)
BY DEF Kept, Grown, FileKept

LEMMA ProcLater ==
  ASSUME NEW o, NEW o2, NEW h, NEW h2, Kept(o, o2, h2), Grown(h, h2),
         NEW q \in AnyProcess, ProcOK(q, o, h)
  PROVE  ProcOK(q, o2, h2)
<1> SUFFICES ASSUME q # Idle PROVE ProcOK(q, o2, h2)
  BY DEF ProcOK
<1>1. q.v \in Videos /\ q.col \in Columns
  BY Fields
<1> QED
  BY <1>1, ImageKept, FileStays DEF ProcOK, Grown

LEMMA DbLater ==
  ASSUME NEW o, NEW o2, NEW h, NEW h2, Kept(o, o2, h2), Grown(h, h2), NEW d, DbOK(d, o, h)
  PROVE  DbOK(d, o2, h2)
<1> SUFFICES ASSUME NEW t \in Tables, NEW v \in Videos, d[t][v] # NoRow
             PROVE  RowOK(t, v, d[t][v], o2, h2)
  BY DEF DbOK, RowOK
<1>1. d[t][v] \in Row /\ RowOK(t, v, d[t][v], o, h)
  BY DEF DbOK
<1>2. \A c \in d[t][v].urls : c \in Columns /\ <<v, c>> \in o
  BY <1>1 DEF Row, RowOK
<1>3. \A c \in d[t][v].urls : <<v, c>> \in o2
  BY <1>2, ImageKept
<1>4. d[t][v].made => FileKept(v, o2, h2)
  BY <1>1, FileStays DEF RowOK
<1> QED
  BY <1>1, <1>3, <1>4 DEF RowOK, Grown

LEMMA SameKept == ASSUME NEW o, NEW o2, NEW h, o \subseteq o2 PROVE Kept(o, o2, h) /\ Grown(h, h)
BY DEF Kept, Grown

LEMMA NotedOK ==
  ASSUME PastOK(past), NEW v \in Videos, NEW E \in SUBSET (Events \ Visibilities)
  PROVE  PastOK(Noted(v, E)) /\ Grown(past, Noted(v, E))
<1>1. /\ Noted(v, E) \in [Videos -> SUBSET Events]
      /\ \A w \in Videos : Noted(v, E)[w] = IF w = v THEN past[v] \cup E ELSE past[w]
  BY DEF PastOK, Noted
<1>2. \A w \in Videos : Noted(v, E)[w] \cap Visibilities = past[w] \cap Visibilities
  BY <1>1
<1> QED
  BY <1>1, <1>2 DEF PastOK, OneVisibility, Grown

-------------------------------------------------------------------------------
(* A step of one process.                                                  *)
LEMMA OneSteps ==
  ASSUME Inv, NEW p \in Processes, NEW q,
         run' = [run EXCEPT ![p] = q],
         KindOK(p, q), ProcOK(q, s3', past'),
         s3' \in SUBSET (Videos \X Objects), PastOK(past'),
         Kept(s3, s3', past'), Grown(past, past'),
         DbOK(db', s3', past')
  PROVE  Inv'
<1>1. run' \in [Processes -> AnyProcess]
  BY DEF Inv, KindOK
<1>2. ASSUME NEW r \in Processes PROVE KindOK(r, run'[r]) /\ ProcOK(run'[r], s3', past')
  <2>1. CASE r = p
    BY <2>1 DEF Inv
  <2>2. CASE r # p
    <3>1. run'[r] = run[r] /\ run[r] \in AnyProcess /\ KindOK(r, run[r])
          /\ ProcOK(run[r], s3, past)
      BY <2>2 DEF Inv
    <3> QED
      BY <3>1, ProcLater
  <2> QED
    BY <2>1, <2>2
<1> QED
  BY <1>1, <1>2 DEF Inv

FaultNoted(p) == Noted(run[p].v, {"fault"})

LEMMA FaultOK ==
  ASSUME Inv, NEW p \in Processes, run[p].v \in Videos
  PROVE  PastOK(FaultNoted(p)) /\ Grown(past, FaultNoted(p))
BY NotedOK DEF FaultNoted, Inv, Events, Visibilities

(* A statement, executed or not, whatever it writes and stores.            *)
LEMMA WritesOK ==
  ASSUME Inv, NEW p \in Processes, run[p].v \in Videos,
         NEW d, NEW o \in SUBSET (Videos \X Objects), NEW q, NEW c,
         Writes(p, d, o, q, c),
         KindOK(p, q), KindOK(p, c), ProcOK(q, o, past), ProcOK(c, s3, past),
         Kept(s3, o, past), DbOK(d, o, past)
  PROVE  Inv'
<1>0. PastOK(past) /\ Grown(past, past) /\ s3 \in SUBSET (Videos \X Objects) /\ DbOK(db, s3, past)
  BY DEF Inv, Grown
<1>1. CASE db' = d /\ s3' = o /\ run' = [run EXCEPT ![p] = q] /\ UNCHANGED past
  BY <1>0, <1>1, OneSteps
<1>2. ASSUME run' = [run EXCEPT ![p] = c], past' = FaultNoted(p),
             (db' = d /\ s3' = o) \/ UNCHANGED <<db, s3>>
      PROVE  Inv'
  <2>1. PastOK(past') /\ Grown(past, past')
    BY <1>2, FaultOK
  <2>2. c \in AnyProcess
    BY DEF KindOK
  <2>3. CASE db' = d /\ s3' = o
    <3>1. Kept(s3, o, past')
      BY <2>1 DEF Kept, Grown
    <3>2. Kept(o, o, past')
      BY SameKept
    <3>3. DbOK(d, o, past')
      BY <2>1, <3>2, DbLater
    <3>4. ProcOK(c, o, past')
      BY <2>1, <2>2, <3>1, ProcLater
    <3> QED
      BY <1>2, <2>1, <2>3, <3>1, <3>3, <3>4, OneSteps
  <2>4. CASE UNCHANGED <<db, s3>>
    <3>1. Kept(s3, s3, past')
      BY SameKept
    <3>2. DbOK(db, s3, past') /\ ProcOK(c, s3, past')
      BY <1>0, <2>1, <2>2, <3>1, DbLater, ProcLater
    <3> QED
      BY <1>0, <1>2, <2>1, <2>4, <3>1, <3>2, OneSteps
  <2> QED
    BY <1>2, <2>3, <2>4
<1> QED
  BY <1>1, <1>2 DEF Writes, FaultNoted

(* A statement on one row.                                                 *)
LEMMA RowWrite ==
  ASSUME NEW o, NEW t \in Tables, NEW v \in Videos, NEW row \in Row \cup {NoRow},
         DbOK(db, o, past), RowOK(t, v, row, o, past)
  PROVE  DbOK([db EXCEPT ![t][v] = row], o, past)
<1> DEFINE d == [db EXCEPT ![t][v] = row]
<1>1. /\ d \in [Tables -> [Videos -> Row \cup {NoRow}]]
      /\ \A s \in Tables, w \in Videos : d[s][w] = IF s = t /\ w = v THEN row ELSE db[s][w]
  BY DEF DbOK
<1> HIDE DEF d
<1>2. \A s \in Tables, w \in Videos : RowOK(s, w, d[s][w], o, past)
  BY <1>1 DEF DbOK
<1>3. DbOK(d, o, past)
  BY <1>1, <1>2 DEF DbOK
<1> QED
  BY <1>3 DEF d

LEMMA WritesRowOK ==
  ASSUME Inv, NEW p \in Processes, run[p].v \in Videos, NEW t \in Tables,
         NEW row \in Row \cup {NoRow}, NEW q, NEW c,
         WritesRow(p, t, row, q, c),
         KindOK(p, q), KindOK(p, c), ProcOK(q, s3, past), ProcOK(c, s3, past),
         RowOK(t, run[p].v, row, s3, past)
  PROVE  Inv'
<1>1. DbOK(db, s3, past) /\ s3 \in SUBSET (Videos \X Objects)
  BY DEF Inv
<1>2. DbOK([db EXCEPT ![t][run[p].v] = row], s3, past)
  BY <1>1, RowWrite
<1>3. Kept(s3, s3, past)
  BY SameKept
<1> QED
  BY <1>1, <1>2, <1>3, WritesOK DEF WritesRow

-------------------------------------------------------------------------------
(* video_create.cpp.                                                       *)

LEMMA CreateStep ==
  ASSUME Inv, NEW r \in Slots, NEW v \in Videos, NEW vis \in Visibilities, NEW thumb \in BOOLEAN,
         Create(r, v, vis, thumb)
  PROVE  Inv'
<1> DEFINE q == [Idle EXCEPT !.op = "create", !.at = "put", !.v = v, !.vis = vis, !.given = thumb]
<1>1. /\ run' = [run EXCEPT ![r] = q] /\ past' = Noted(v, {vis})
      /\ UNCHANGED <<db, s3>> /\ past[v] = {}
  BY DEF Create
<1>2. q \in Process("create") /\ q.at = "put" /\ q.v = v /\ q.vis = vis /\ q.col = "thumbnail_url"
  BY Steps DEF Idle, Process, Columns
<1> HIDE DEF q
<1>3. q \in AnyProcess /\ q # Idle /\ q.op = "create"
  BY <1>2, Made DEF Ops
<1>4. r \in Processes /\ r \notin Videos
  BY ProcessAssumption DEF Processes
<1>5. KindOK(r, q)
  BY <1>3, <1>4 DEF KindOK
<1>6. /\ past \in [Videos -> SUBSET Events] /\ OneVisibility(past)
      /\ s3 \in SUBSET (Videos \X Objects) /\ DbOK(db, s3, past)
  BY DEF Inv, PastOK
<1>7. /\ past' \in [Videos -> SUBSET Events]
      /\ \A w \in Videos : past'[w] = IF w = v THEN {vis} ELSE past[w]
  BY <1>1, <1>6 DEF Noted, Events
<1>8. PastOK(past') /\ Grown(past, past')
  BY <1>1, <1>6, <1>7 DEF PastOK, OneVisibility, Grown
<1>9. ProcOK(q, s3, past')
  BY <1>2, <1>3, <1>7 DEF ProcOK, Updates
<1>10. Kept(s3, s3, past')
  BY SameKept
<1>11. DbOK(db, s3, past')
  BY <1>6, <1>8, <1>10, DbLater
<1> QED
  BY <1>1, <1>4, <1>5, <1>6, <1>8, <1>9, <1>10, <1>11, OneSteps

(* What the statements of an upload have in common.                        *)
CreateSteps == {"put", "insertUser", "insertById", "insertByDay", "seed", "lookup", "schedule"}

LEMMA Creating ==
  ASSUME Inv, NEW p \in Processes, NEW s \in CreateSteps, At(p, s)
  PROVE  LET q == run[p] IN
         /\ q \in AnyProcess /\ q # Idle /\ q.op = "create" /\ q.at = s /\ q.v \in Videos
         /\ q.vis \in past[q.v] /\ q.vis \in Visibilities /\ q.col = "thumbnail_url"
         /\ s # "put" => FileKept(q.v, s3, past)
         /\ KindOK(p, q) /\ ProcOK(q, s3, past)
<1>1. s # "idle"
  BY DEF CreateSteps
<1>2. LET q == run[p] IN
         /\ q \in AnyProcess /\ q # Idle /\ q.op \in Ops
         /\ q.at = s /\ s \in StepsOf[q.op] /\ q.v \in Videos
         /\ q.vis \in Visibilities \cup {"null"}
         /\ KindOK(p, q) /\ ProcOK(q, s3, past)
  BY <1>1, Standing
<1>3. run[p].op = "create"
  BY <1>2, Steps DEF CreateSteps, Ops
<1>4. "null" \notin past[run[p].v]
  BY <1>2 DEF Inv, PastOK, Events, Visibilities
<1> QED
  BY <1>2, <1>3, <1>4 DEF ProcOK

(* Where it goes next.                                                     *)
LEMMA CreateMoves ==
  ASSUME Inv, NEW p \in Processes, NEW s \in CreateSteps, At(p, s),
         NEW o, s3 \subseteq o,
         NEW at \in CreateSteps \ {"lookup"}, at = "insertByDay" => run[p].vis = "public",
         FileKept(run[p].v, o, past)
  PROVE  KindOK(p, To(p, at)) /\ ProcOK(To(p, at), o, past)
<1> DEFINE q == run[p]
           n == To(p, at)
<1>1. /\ q \in AnyProcess /\ q # Idle /\ q.op = "create" /\ q.vis \in past[q.v]
      /\ q.col = "thumbnail_url" /\ KindOK(p, q)
  BY Creating
<1>2. at \in StepsOf[q.op]
  BY <1>1, Steps DEF CreateSteps
<1>3. /\ KindOK(p, n) /\ n.at = at /\ n.op = q.op /\ n.v = q.v /\ n.vis = q.vis /\ n.col = q.col
  BY <1>1, <1>2, Moving DEF To
<1> HIDE DEF n
<1>4. ProcOK(n, o, past)
  BY <1>1, <1>3 DEF ProcOK, CreateSteps, Updates
<1> QED
  BY <1>3, <1>4 DEF n

LEMMA PutFileStep == ASSUME Inv, NEW p \in Processes, PutFile(p) PROVE Inv'
<1> DEFINE o == WithFile(p)
<1>1. At(p, "put") /\ "put" \in CreateSteps /\ Writes(p, db, o, To(p, "insertUser"), Idle)
  BY DEF PutFile, CreateSteps
<1>2. run[p].v \in Videos
  BY <1>1, Creating
<1>3. /\ o \in SUBSET (Videos \X Objects) /\ s3 \subseteq o /\ FileKept(run[p].v, o, past)
      /\ DbOK(db, s3, past)
  BY <1>2 DEF Inv, WithFile, Objects, FileKept
<1>4. KindOK(p, To(p, "insertUser")) /\ ProcOK(To(p, "insertUser"), o, past)
  BY <1>1, <1>3, CreateMoves DEF CreateSteps
<1>5. Kept(s3, o, past) /\ Grown(past, past)
  BY <1>3, SameKept
<1>6. DbOK(db, o, past)
  BY <1>3, <1>5, DbLater
<1> QED
  BY <1>1, <1>2, <1>3, <1>4, <1>5, <1>6, IdleOK, WritesOK

LEMMA InsertedOK ==
  ASSUME Inv, NEW p \in Processes, NEW s \in CreateSteps \ {"put"}, At(p, s),
         NEW t \in Tables, t = "videos_by_day" => run[p].vis = "public"
  PROVE  Inserted(p) \in Row /\ RowOK(t, run[p].v, Inserted(p), s3, past)
<1>1. run[p].vis \in Visibilities /\ run[p].vis \in past[run[p].v] /\ FileKept(run[p].v, s3, past)
  BY Creating
<1> QED
  BY <1>1 DEF Inserted, Row, RowOK

LEMMA SeedingOK ==
  ASSUME Inv, NEW p \in Processes, NEW s \in CreateSteps \ {"put"}, At(p, s)
  PROVE  KindOK(p, Seeding(p)) /\ ProcOK(Seeding(p), s3, past)
<1>1. FileKept(run[p].v, s3, past)
  BY Creating
<1>2. /\ KindOK(p, To(p, "seed")) /\ ProcOK(To(p, "seed"), s3, past)
      /\ KindOK(p, To(p, "schedule")) /\ ProcOK(To(p, "schedule"), s3, past)
  BY <1>1, CreateMoves DEF CreateSteps
<1>3. Seeding(p) \in {To(p, "seed"), To(p, "schedule")}
  BY DEF Seeding
<1> QED
  BY <1>2, <1>3

LEMMA InsertStep ==
  ASSUME Inv, NEW p \in Processes, InsertUser(p) \/ InsertById(p) \/ InsertByDay(p)
  PROVE  Inv'
<1>1. CASE InsertUser(p)
  <2>1. At(p, "insertUser") /\ "insertUser" \in CreateSteps \ {"put"} /\ "videos" \in Tables
    BY <1>1 DEF InsertUser, CreateSteps, Tables
  <2>2. run[p].v \in Videos /\ FileKept(run[p].v, s3, past)
    BY <2>1, Creating
  <2>3. KindOK(p, To(p, "insertById")) /\ ProcOK(To(p, "insertById"), s3, past)
    BY <2>1, <2>2, CreateMoves DEF CreateSteps
  <2>4. Inserted(p) \in Row /\ RowOK("videos", run[p].v, Inserted(p), s3, past)
    BY <2>1, InsertedOK
  <2> QED
    BY <1>1, <2>1, <2>2, <2>3, <2>4, IdleOK, WritesRowOK DEF InsertUser
<1>2. CASE InsertById(p)
  <2> DEFINE n == IF InFeed(p) THEN To(p, "insertByDay") ELSE Seeding(p)
  <2>1. At(p, "insertById") /\ "insertById" \in CreateSteps \ {"put"} /\ "video_by_id" \in Tables
    BY <1>2 DEF InsertById, CreateSteps, Tables
  <2>2. run[p].v \in Videos /\ FileKept(run[p].v, s3, past)
    BY <2>1, Creating
  <2>3. InFeed(p) => KindOK(p, To(p, "insertByDay")) /\ ProcOK(To(p, "insertByDay"), s3, past)
    BY <2>1, <2>2, CreateMoves DEF CreateSteps, InFeed
  <2>4. KindOK(p, n) /\ ProcOK(n, s3, past)
    BY <2>1, <2>3, SeedingOK
  <2>5. Inserted(p) \in Row /\ RowOK("video_by_id", run[p].v, Inserted(p), s3, past)
    BY <2>1, InsertedOK
  <2>6. WritesRow(p, "video_by_id", Inserted(p), n, Idle)
    BY <1>2 DEF InsertById
  <2> HIDE DEF n
  <2> QED
    BY <2>1, <2>2, <2>4, <2>5, <2>6, IdleOK, WritesRowOK
<1>3. CASE InsertByDay(p)
  <2>1. At(p, "insertByDay") /\ "insertByDay" \in CreateSteps \ {"put"} /\ "videos_by_day" \in Tables
    BY <1>3 DEF InsertByDay, CreateSteps, Tables
  <2>2. run[p].v \in Videos /\ ProcOK(run[p], s3, past) /\ run[p] # Idle /\ run[p].at = "insertByDay"
    BY <2>1, Creating
  <2>3. run[p].vis = "public"
    BY <2>2 DEF ProcOK
  <2>4. Inserted(p) \in Row /\ RowOK("videos_by_day", run[p].v, Inserted(p), s3, past)
    BY <2>1, <2>3, InsertedOK
  <2> QED
    BY <1>3, <2>1, <2>2, <2>4, SeedingOK, IdleOK, WritesRowOK DEF InsertByDay
<1> QED
  BY <1>1, <1>2, <1>3

(* The request goes on without a thumbnail.                                *)
LEMMA UnseededOK ==
  ASSUME Inv, NEW p \in Processes, run[p] \in AnyProcess, run[p] # Idle, run[p].op = "create",
         run[p].at # "put", NEW o, s3 \subseteq o
  PROVE  KindOK(p, Unseeded(p)) /\ ProcOK(Unseeded(p), o, past)
<1> DEFINE q == run[p]
           t == To(p, "schedule")
           n == Unseeded(p)
<1>1. KindOK(p, q) /\ ProcOK(q, s3, past)
  BY DEF Inv
<1>2. "schedule" \in StepsOf[q.op]
  BY Steps
<1>3. /\ KindOK(p, t) /\ t # Idle /\ t \in AnyProcess
      /\ t.at = "schedule" /\ t.op = q.op /\ t.v = q.v /\ t.vis = q.vis /\ t.col = q.col
  BY <1>1, <1>2, Moving DEF To
<1> HIDE DEF t
<1>4. t \in Process("create") /\ q.v \in Videos
  BY <1>3, Fields
<1>5. n = [t EXCEPT !.given = FALSE]
  BY DEF Unseeded, t
<1>6. n \in Process("create") /\ n.at = "schedule" /\ n.v = q.v /\ n.vis = q.vis /\ n.col = q.col
  BY <1>3, <1>4, <1>5 DEF Process
<1> HIDE DEF n
<1>7. n \in AnyProcess /\ n # Idle /\ n.op = "create"
  BY <1>6, Made DEF Ops
<1>8. KindOK(p, n)
  BY <1>1, <1>7 DEF KindOK
<1>9. FileKept(q.v, o, past) /\ q.vis \in past[q.v] /\ q.col = "thumbnail_url"
  BY <1>1 DEF ProcOK, FileKept
<1>10. ProcOK(n, o, past)
  BY <1>6, <1>7, <1>9 DEF ProcOK, Updates
<1> QED
  BY <1>8, <1>10 DEF n

LEMMA SeedStep == ASSUME Inv, NEW p \in Processes, Seed(p) PROVE Inv'
<1> DEFINE q == run[p]
           o == s3 \cup {<<q.v, "thumbnail_url">>}
           n == To(p, "lookup")
<1>1. At(p, "seed") /\ "seed" \in CreateSteps /\ Writes(p, db, o, n, Unseeded(p))
  BY DEF Seed, CreateSteps
<1>2. /\ q \in AnyProcess /\ q # Idle /\ q.op = "create" /\ q.at = "seed" /\ q.v \in Videos
      /\ q.vis \in past[q.v] /\ q.col = "thumbnail_url" /\ FileKept(q.v, s3, past) /\ KindOK(p, q)
  BY <1>1, Creating
<1>3. "lookup" \in StepsOf[q.op]
  BY <1>2, Steps
<1>4. KindOK(p, n) /\ n.at = "lookup" /\ n.op = q.op /\ n.v = q.v /\ n.vis = q.vis /\ n.col = q.col
  BY <1>2, <1>3, Moving DEF To
<1>5. /\ o \in SUBSET (Videos \X Objects) /\ s3 \subseteq o /\ <<q.v, q.col>> \in o
      /\ DbOK(db, s3, past) /\ FileKept(q.v, o, past)
  BY <1>2 DEF Inv, Objects, Columns, FileKept
<1> HIDE DEF o, n
<1>6. ProcOK(n, o, past)
  BY <1>2, <1>4, <1>5 DEF ProcOK
<1>7. Kept(s3, o, past) /\ Grown(past, past)
  BY <1>5, SameKept
<1>8. DbOK(db, o, past)
  BY <1>5, <1>7, DbLater
<1>9. KindOK(p, Unseeded(p)) /\ ProcOK(Unseeded(p), s3, past)
  BY <1>2, UnseededOK
<1> QED
  BY <1>1, <1>2, <1>4, <1>5, <1>6, <1>7, <1>8, <1>9, WritesOK

LEMMA LookupStep == ASSUME Inv, NEW p \in Processes, Lookup(p) PROVE Inv'
<1> DEFINE q == run[p]
           row == db["video_by_id"][q.v]
           t == To(p, "setUser")
           found == [t EXCEPT !.dated = TRUE, !.vis = row.vis]
           n == IF row = NoRow THEN To(p, "schedule")
                ELSE IF ~ row.made THEN Unseeded(p) ELSE found
<1>1. At(p, "lookup") /\ "lookup" \in CreateSteps \ {"put"} /\ Writes(p, db, s3, n, Unseeded(p))
  BY DEF Lookup, CreateSteps
<1>2. /\ q \in AnyProcess /\ q # Idle /\ q.op = "create" /\ q.at = "lookup" /\ q.v \in Videos
      /\ q.vis \in past[q.v] /\ q.col = "thumbnail_url" /\ FileKept(q.v, s3, past)
      /\ KindOK(p, q) /\ ProcOK(q, s3, past)
  BY <1>1, Creating
<1>3. KindOK(p, Unseeded(p)) /\ ProcOK(Unseeded(p), s3, past)
  BY <1>2, UnseededOK
<1>4. KindOK(p, To(p, "schedule")) /\ ProcOK(To(p, "schedule"), s3, past)
  BY <1>1, <1>2, CreateMoves DEF CreateSteps
<1>5. ASSUME row # NoRow, row.made PROVE KindOK(p, found) /\ ProcOK(found, s3, past)
  <2>1. row \in Row /\ row.vis \in past[q.v] /\ row.vis \in Visibilities \cup {"null"}
    <3>1. "video_by_id" \in Tables
      BY DEF Tables
    <3> QED
      BY <1>2, <1>5, <3>1 DEF Inv, DbOK, RowOK, Row
  <2>2. "setUser" \in StepsOf[q.op]
    BY <1>2, Steps
  <2>3. /\ t # Idle /\ t \in AnyProcess
        /\ t.at = "setUser" /\ t.op = q.op /\ t.v = q.v /\ t.col = q.col
    BY <1>2, <2>2, Moving DEF To
  <2> HIDE DEF t, row
  <2>4. t \in Process("create")
    BY <1>2, <2>3, Fields
  <2>5. /\ found \in Process("create") /\ found.at = "setUser" /\ found.v = q.v
        /\ found.vis = row.vis /\ found.col = q.col
    BY <2>1, <2>3, <2>4 DEF Process
  <2> HIDE DEF found
  <2>6. found \in AnyProcess /\ found # Idle /\ found.op = "create"
    BY <2>5, Made DEF Ops
  <2>7. <<q.v, q.col>> \in s3
    BY <1>2 DEF ProcOK
  <2>8. KindOK(p, found)
    BY <1>2, <2>6 DEF KindOK
  <2> QED
    BY <1>2, <2>1, <2>5, <2>6, <2>7, <2>8 DEF ProcOK
<1>6. KindOK(p, n) /\ ProcOK(n, s3, past)
  BY <1>3, <1>4, <1>5
<1>7. Kept(s3, s3, past) /\ s3 \in SUBSET (Videos \X Objects) /\ DbOK(db, s3, past)
  BY SameKept DEF Inv
<1> HIDE DEF n
<1> QED
  BY <1>1, <1>2, <1>3, <1>6, <1>7, WritesOK

-------------------------------------------------------------------------------
(* The detached task.                                                      *)

(* What it is of any process that it is of this kind.                      *)
LEMMA Derived ==
  ASSUME NEW v \in Videos, NEW n \in Process("derive"), n.v = v
  PROVE  v \in Processes /\ n \in AnyProcess /\ n # Idle /\ n.op = "derive" /\ KindOK(v, n)
<1>1. n \in AnyProcess /\ n # Idle /\ n.op = "derive"
  BY Made DEF Ops
<1> QED
  BY <1>1, ProcessAssumption DEF Processes, KindOK

LEMMA Deriving ==
  ASSUME Inv, NEW p \in Processes, NEW s \in {"created", "image"}, At(p, s)
  PROVE  LET q == run[p] IN
         /\ q \in AnyProcess /\ q # Idle /\ q \in Process("derive") /\ q.op = "derive"
         /\ q.at = s /\ p \in Videos /\ q.v = p /\ q.vis \in past[q.v]
         /\ q.col \in Columns /\ KindOK(p, q)
<1>1. LET q == run[p] IN
         /\ q \in AnyProcess /\ q # Idle /\ q.op \in Ops /\ q \in Process(q.op)
         /\ q.at = s /\ s \in StepsOf[q.op] /\ q.col \in Columns
         /\ KindOK(p, q) /\ ProcOK(q, s3, past)
  BY Standing
<1>2. run[p].op = "derive"
  BY <1>1, Steps DEF Ops
<1>3. p \in Videos /\ run[p].v = p
  BY <1>1, <1>2 DEF KindOK, Processes
<1> QED
  BY <1>1, <1>2, <1>3 DEF ProcOK

(* A task that goes on with image col.                                     *)
LEMMA ImageOK ==
  ASSUME NEW p \in Videos, NEW q \in Process("derive"), q.v = p, NEW h, q.vis \in h[p],
         NEW n \in Process("derive"), n.v = p, n.vis = q.vis, n.at = "image", NEW o
  PROVE  KindOK(p, n) /\ ProcOK(n, o, h)
<1>1. n # Idle /\ n.op = "derive" /\ KindOK(p, n)
  BY Derived
<1> QED
  BY <1>1 DEF ProcOK, Updates

LEMMA NextImageOK ==
  ASSUME NEW p \in Videos, NEW o, NEW h, run[p] \in Process("derive"), run[p].v = p,
         run[p].vis \in h[p]
  PROVE  KindOK(p, NextImage(p)) /\ ProcOK(NextImage(p), o, h)
<1> DEFINE n == [To(p, "image") EXCEPT !.col = "storyboard_url"]
<1>1. n \in Process("derive") /\ n.v = p /\ n.vis = run[p].vis /\ n.at = "image"
  BY Steps DEF To, Process, Columns
<1> HIDE DEF n
<1>2. KindOK(p, n) /\ ProcOK(n, o, h)
  BY <1>1, ImageOK
<1>3. NextImage(p) \in {Idle, n}
  BY DEF NextImage, n
<1> QED
  BY <1>2, <1>3, IdleOK DEF Processes

LEMMA ReadCreatedStep == ASSUME Inv, NEW p \in Processes, ReadCreated(p) PROVE Inv'
<1> DEFINE q == run[p]
           row == db["video_by_id"][q.v]
           col == IF q.given THEN "storyboard_url" ELSE q.col
           dated == row # NoRow /\ row.made
           c == [To(p, "image") EXCEPT !.col = IF run[p].given THEN "storyboard_url" ELSE @]
           n == [c EXCEPT !.dated = dated]
<1>1. At(p, "created") /\ Writes(p, db, s3, n, c)
  BY DEF ReadCreated
<1>2. q \in Process("derive") /\ p \in Videos /\ q.v = p /\ q.vis \in past[p] /\ q.v \in Videos
  BY <1>1, Deriving
<1>3. dated \in BOOLEAN
  <2>1. "video_by_id" \in Tables
    BY DEF Tables
  <2>2. row \in Row \cup {NoRow}
    BY <1>2, <2>1 DEF Inv, DbOK
  <2> HIDE DEF row
  <2> QED
    BY <2>2 DEF Row
<1>4. c \in Process("derive") /\ c.v = p /\ c.vis = q.vis /\ c.at = "image"
  BY <1>2, Steps DEF To, Process, Columns
<1> HIDE DEF dated, c
<1>5. n \in Process("derive") /\ n.v = p /\ n.vis = q.vis /\ n.at = "image"
  BY <1>3, <1>4 DEF Process
<1> HIDE DEF n
<1>6. KindOK(p, n) /\ ProcOK(n, s3, past) /\ KindOK(p, c) /\ ProcOK(c, s3, past)
  BY <1>2, <1>4, <1>5, ImageOK
<1>7. Kept(s3, s3, past) /\ s3 \in SUBSET (Videos \X Objects) /\ DbOK(db, s3, past)
  BY SameKept DEF Inv
<1> QED
  BY <1>1, <1>2, <1>6, <1>7, WritesOK

LEMMA StoreImageStep == ASSUME Inv, NEW p \in Processes, StoreImage(p) PROVE Inv'
<1> DEFINE q == run[p]
           o == s3 \cup {<<q.v, q.col>>}
           n == To(p, "setUser")
           c == NextImage(p)
<1>1. /\ At(p, "image")
      /\ \/ Writes(p, db, o, n, c)
         \/ run' = [run EXCEPT ![p] = c] /\ past' = FaultNoted(p) /\ UNCHANGED <<db, s3>>
  BY DEF StoreImage, FaultNoted
<1>2. /\ q \in AnyProcess /\ q # Idle /\ q \in Process("derive") /\ q.op = "derive"
      /\ p \in Videos /\ q.v = p /\ q.vis \in past[q.v] /\ q.v \in Videos /\ q.col \in Columns
      /\ KindOK(p, q)
  BY <1>1, Deriving
<1>3. s3 \in SUBSET (Videos \X Objects) /\ DbOK(db, s3, past) /\ PastOK(past)
  BY DEF Inv
<1>4. CASE Writes(p, db, o, n, c)
  <2>1. KindOK(p, c) /\ ProcOK(c, s3, past)
    BY <1>2, NextImageOK
  <2>2. "setUser" \in StepsOf[q.op]
    BY <1>2, Steps
  <2>3. KindOK(p, n) /\ n.at = "setUser" /\ n.op = q.op /\ n.v = q.v /\ n.vis = q.vis /\ n.col = q.col
    BY <1>2, <2>2, Moving DEF To
  <2>4. o \in SUBSET (Videos \X Objects) /\ s3 \subseteq o /\ <<q.v, q.col>> \in o
    BY <1>2, <1>3 DEF Objects
  <2> HIDE DEF n, o, c
  <2>5. ProcOK(n, o, past)
    BY <1>2, <2>3, <2>4 DEF ProcOK
  <2>6. Kept(s3, o, past) /\ Grown(past, past)
    BY <2>4, SameKept
  <2>7. DbOK(db, o, past)
    BY <1>3, <2>6, DbLater
  <2> QED
    BY <1>2, <1>4, <2>1, <2>3, <2>4, <2>5, <2>6, <2>7, WritesOK
<1>5. CASE run' = [run EXCEPT ![p] = c] /\ past' = FaultNoted(p) /\ UNCHANGED <<db, s3>>
  <2>1. PastOK(past') /\ Grown(past, past')
    BY <1>2, <1>5, FaultOK
  <2>2. q.vis \in past'[p]
    BY <1>2, <2>1 DEF Grown
  <2>3. KindOK(p, c) /\ ProcOK(c, s3, past')
    BY <1>2, <2>2, NextImageOK
  <2>4. Kept(s3, s3, past')
    BY SameKept
  <2>5. DbOK(db, s3, past')
    BY <1>3, <2>1, <2>4, DbLater
  <2> HIDE DEF c
  <2> QED
    BY <1>3, <1>5, <2>1, <2>3, <2>4, <2>5, OneSteps
<1> QED
  BY <1>1, <1>4, <1>5

(* One UPDATE, of the seeding or of the task.                              *)
LEMMA UpdatedOK ==
  ASSUME Inv, NEW t \in Tables, NEW v \in Videos, NEW c \in Columns, <<v, c>> \in s3,
         t = "videos_by_day" => "public" \in past[v]
  PROVE  LET row == Updated(db[t][v], c) IN row \in Row /\ RowOK(t, v, row, s3, past)
<1>1. db[t][v] \in Row \cup {NoRow} /\ RowOK(t, v, db[t][v], s3, past)
  BY DEF Inv, DbOK
<1>2. CASE db[t][v] = NoRow
  BY <1>2 DEF Updated, Row, RowOK
<1>3. CASE db[t][v] # NoRow
  <2> DEFINE old == db[t][v]
             new == [old EXCEPT !.urls = @ \cup {c}]
  <2>1. old \in Row
    BY <1>1, <1>3
  <2>2. /\ new \in Row /\ new.made = old.made /\ new.vis = old.vis
        /\ new.urls = old.urls \cup {c}
    BY <2>1 DEF Row
  <2>3. Updated(old, c) = new
    BY <1>3 DEF Updated
  <2> HIDE DEF new
  <2> QED
    BY <1>1, <1>3, <2>2, <2>3 DEF RowOK
<1> QED
  BY <1>2, <1>3

LEMMA Updating ==
  ASSUME Inv, NEW p \in Processes, NEW s \in Updates, At(p, s)
  PROVE  LET q == run[p] IN
         /\ q \in AnyProcess /\ q # Idle /\ q.op \in {"create", "derive"} /\ q \in Process(q.op)
         /\ q.at = s /\ q.v \in Videos /\ q.col \in Columns /\ <<q.v, q.col>> \in s3
         /\ q.vis \in past[q.v] /\ KindOK(p, q) /\ ProcOK(q, s3, past)
         /\ q.op = "create" => q.col = "thumbnail_url" /\ FileKept(q.v, s3, past)
         /\ q.op = "derive" => p \in Videos /\ q.v = p
<1>1. s # "idle" /\ s # "put"
  BY DEF Updates
<1>2. LET q == run[p] IN
         /\ q \in AnyProcess /\ q # Idle /\ q.op \in Ops /\ q \in Process(q.op)
         /\ q.at = s /\ s \in StepsOf[q.op] /\ q.v \in Videos /\ q.col \in Columns
         /\ KindOK(p, q) /\ ProcOK(q, s3, past)
  BY <1>1, Standing
<1>3. run[p].op \in {"create", "derive"}
  BY <1>2, Steps DEF Ops, Updates
<1>4. run[p].op = "derive" => p \in Videos /\ run[p].v = p
  BY <1>2 DEF KindOK, Processes
<1> QED
  BY <1>1, <1>2, <1>3, <1>4 DEF ProcOK

LEMMA UpdateMoves ==
  ASSUME Inv, NEW p \in Processes, NEW s \in Updates, At(p, s),
         NEW at \in Updates, at = "setByDay" => run[p].vis = "public"
  PROVE  KindOK(p, To(p, at)) /\ ProcOK(To(p, at), s3, past)
<1> DEFINE q == run[p]
           n == To(p, at)
<1>1. /\ q \in AnyProcess /\ q # Idle /\ q.op \in {"create", "derive"}
      /\ q.vis \in past[q.v] /\ KindOK(p, q) /\ <<q.v, q.col>> \in s3
      /\ q.op = "create" => q.col = "thumbnail_url" /\ FileKept(q.v, s3, past)
  BY Updating
<1>2. at \in StepsOf[q.op]
  BY <1>1, Steps DEF Updates
<1>3. KindOK(p, n) /\ n.at = at /\ n.op = q.op /\ n.v = q.v /\ n.vis = q.vis /\ n.col = q.col
  BY <1>1, <1>2, Moving DEF To
<1> HIDE DEF n
<1>4. ProcOK(n, s3, past)
  BY <1>1, <1>3 DEF ProcOK, Updates
<1> QED
  BY <1>3, <1>4 DEF n

LEMMA UpdatesEndOK ==
  ASSUME Inv, NEW p \in Processes, NEW s \in Updates, At(p, s)
  PROVE  KindOK(p, UpdatesEnd(p)) /\ ProcOK(UpdatesEnd(p), s3, past)
<1> DEFINE q == run[p]
           n == To(p, "schedule")
<1>1. /\ q \in AnyProcess /\ q # Idle /\ q.op \in {"create", "derive"} /\ q \in Process(q.op)
      /\ q.vis \in past[q.v] /\ KindOK(p, q)
      /\ q.op = "create" => q.col = "thumbnail_url" /\ FileKept(q.v, s3, past)
      /\ q.op = "derive" => p \in Videos /\ q.v = p
  BY Updating
<1>2. CASE q.op = "create"
  <2>1. "schedule" \in StepsOf[q.op]
    BY <1>2, Steps
  <2>2. /\ KindOK(p, n) /\ n.at = "schedule" /\ n.op = q.op /\ n.v = q.v /\ n.vis = q.vis
        /\ n.col = q.col
    BY <1>1, <2>1, Moving DEF To
  <2>3. UpdatesEnd(p) = n
    BY <1>2 DEF UpdatesEnd
  <2> HIDE DEF n
  <2>4. ProcOK(n, s3, past)
    BY <1>1, <1>2, <2>2 DEF ProcOK, Updates
  <2> QED
    BY <2>2, <2>3, <2>4
<1>3. CASE q.op = "derive"
  <2>1. UpdatesEnd(p) = NextImage(p)
    BY <1>3 DEF UpdatesEnd
  <2> QED
    BY <1>1, <1>3, <2>1, NextImageOK
<1> QED
  BY <1>1, <1>2, <1>3

LEMMA UpdateOK ==
  ASSUME Inv, NEW p \in Processes, NEW s \in Updates, At(p, s),
         NEW t \in Tables, NEW next, Update(p, t, next),
         t = "videos_by_day" => run[p].vis = "public",
         KindOK(p, next), ProcOK(next, s3, past)
  PROVE  Inv'
<1> DEFINE q == run[p]
           row == Updated(db[t][q.v], q.col)
           c == IF q.op = "create" THEN Unseeded(p) ELSE next
<1>1. /\ q \in AnyProcess /\ q # Idle /\ q.v \in Videos /\ q.col \in Columns
      /\ <<q.v, q.col>> \in s3 /\ q.vis \in past[q.v] /\ q.at # "put"
  BY Updating DEF Updates
<1>2. row \in Row /\ RowOK(t, q.v, row, s3, past)
  BY <1>1, UpdatedOK
<1>3. q.op = "create" => KindOK(p, Unseeded(p)) /\ ProcOK(Unseeded(p), s3, past)
  BY <1>1, UnseededOK
<1>4. KindOK(p, c) /\ ProcOK(c, s3, past)
  BY <1>3
<1>5. WritesRow(p, t, row, next, c)
  BY DEF Update
<1> HIDE DEF row, c
<1> QED
  BY <1>1, <1>2, <1>4, <1>5, WritesRowOK

LEMMA SetStep ==
  ASSUME Inv, NEW p \in Processes, SetUser(p) \/ SetById(p) \/ SetByDay(p)
  PROVE  Inv'
<1>1. CASE SetUser(p)
  <2>1. At(p, "setUser") /\ Update(p, "videos", To(p, "setById"))
    BY <1>1 DEF SetUser
  <2>2. KindOK(p, To(p, "setById")) /\ ProcOK(To(p, "setById"), s3, past)
    BY <2>1, UpdateMoves DEF Updates
  <2> QED
    BY <2>1, <2>2, UpdateOK DEF Updates, Tables
<1>2. CASE SetById(p)
  <2> DEFINE n == IF HasDayRow(p) THEN To(p, "setByDay") ELSE UpdatesEnd(p)
  <2>1. At(p, "setById") /\ Update(p, "video_by_id", n)
    BY <1>2 DEF SetById
  <2>2. HasDayRow(p) => KindOK(p, To(p, "setByDay")) /\ ProcOK(To(p, "setByDay"), s3, past)
    BY <2>1, UpdateMoves DEF Updates, HasDayRow
  <2>3. KindOK(p, n) /\ ProcOK(n, s3, past)
    BY <2>1, <2>2, UpdatesEndOK DEF Updates
  <2> HIDE DEF n
  <2> QED
    BY <2>1, <2>3, UpdateOK DEF Updates, Tables
<1>3. CASE SetByDay(p)
  <2>1. At(p, "setByDay") /\ Update(p, "videos_by_day", UpdatesEnd(p))
    BY <1>3 DEF SetByDay
  <2>2. run[p] # Idle /\ run[p].at = "setByDay" /\ ProcOK(run[p], s3, past)
    BY <2>1, Updating DEF Updates
  <2>3. run[p].vis = "public"
    BY <2>2 DEF ProcOK
  <2> QED
    BY <2>1, <2>3, UpdatesEndOK, UpdateOK DEF Updates, Tables
<1> QED
  BY <1>1, <1>2, <1>3

(* The upload is answered and leaves the rest to a task.                   *)
LEMMA ScheduleStep == ASSUME Inv, NEW p \in Processes, Schedule(p) PROVE Inv'
<1> DEFINE q == run[p]
           n == [q EXCEPT !.op = "derive", !.at = "created", !.dated = FALSE]
<1>1. /\ At(p, "schedule") /\ "schedule" \in CreateSteps
      /\ run' = [run EXCEPT ![p] = Idle, ![q.v] = n]
      /\ past' = Noted(q.v, {"stored"}) /\ UNCHANGED <<db, s3>>
  BY DEF Schedule, CreateSteps
<1>2. /\ q \in AnyProcess /\ q # Idle /\ q.op = "create" /\ q.v \in Videos /\ q.vis \in past[q.v]
      /\ q.vis \in Visibilities
  BY <1>1, Creating
<1>3. q \in Process("create")
  BY <1>2, Fields
<1>4. n \in Process("derive") /\ n.v = q.v /\ n.vis = q.vis /\ n.at = "created"
  BY <1>3, Steps DEF Process
<1> HIDE DEF n
<1>5. n # Idle /\ n.op = "derive" /\ KindOK(q.v, n) /\ n \in AnyProcess /\ q.v \in Processes
  BY <1>2, <1>4, Derived
<1>6. PastOK(past) /\ s3 \in SUBSET (Videos \X Objects) /\ DbOK(db, s3, past)
      /\ run \in [Processes -> AnyProcess]
  BY DEF Inv
<1>7. PastOK(past') /\ Grown(past, past')
  BY <1>1, <1>2, <1>6, NotedOK DEF Events, Visibilities
<1>8. ProcOK(n, s3, past')
  BY <1>2, <1>4, <1>5, <1>7 DEF ProcOK, Updates, Grown
<1>9. Kept(s3, s3, past')
  BY SameKept
<1>10. DbOK(db, s3, past')
  BY <1>6, <1>7, <1>9, DbLater
<1>11. Idle \in AnyProcess
  BY DEF AnyProcess
<1>12. /\ run' \in [Processes -> AnyProcess]
       /\ \A r \in Processes : run'[r] = IF r = q.v THEN n ELSE IF r = p THEN Idle ELSE run[r]
  BY <1>1, <1>5, <1>6, <1>11
<1>13. ASSUME NEW r \in Processes PROVE KindOK(r, run'[r]) /\ ProcOK(run'[r], s3, past')
  <2>1. KindOK(r, run[r]) /\ ProcOK(run[r], s3, past) /\ run[r] \in AnyProcess
    BY DEF Inv
  <2>2. ProcOK(run[r], s3, past')
    BY <1>7, <1>9, <2>1, ProcLater
  <2> QED
    BY <1>5, <1>8, <1>12, <2>1, <2>2, IdleOK
<1> QED
  BY <1>1, <1>6, <1>7, <1>10, <1>12, <1>13 DEF Inv

-------------------------------------------------------------------------------
(* video_delete.cpp.                                                       *)

LEMMA DeleteStep == ASSUME Inv, NEW r \in Slots, NEW v \in Videos, Delete(r, v) PROVE Inv'
<1> DEFINE q == [Idle EXCEPT !.op = "delete", !.at = "dropFile", !.v = v]
           E == {"delete"} \cup (IF Busy(v, {"create", "derive"}) THEN {"late"} ELSE {})
                           \cup (IF Busy(v, {"create"}) THEN {"overlap"} ELSE {})
<1>1. run' = [run EXCEPT ![r] = q] /\ past' = Noted(v, E) /\ UNCHANGED <<db, s3>>
  BY DEF Delete
<1>2. q \in Process("delete") /\ q.at = "dropFile" /\ q.v = v
  BY Steps DEF Idle, Process, Columns
<1>3. E \in SUBSET (Events \ Visibilities) /\ "delete" \in E
  BY DEF Events, Visibilities
<1> HIDE DEF q, E
<1>4. q \in AnyProcess /\ q # Idle /\ q.op = "delete"
  BY <1>2, Made DEF Ops
<1>5. r \in Processes /\ r \notin Videos
  BY ProcessAssumption DEF Processes
<1>6. KindOK(r, q)
  BY <1>4, <1>5 DEF KindOK
<1>7. PastOK(past) /\ s3 \in SUBSET (Videos \X Objects) /\ DbOK(db, s3, past)
  BY DEF Inv
<1>8. PastOK(past') /\ Grown(past, past')
  BY <1>1, <1>3, <1>7, NotedOK
<1>9. "delete" \in past'[v]
  BY <1>1, <1>3, <1>7 DEF Noted, PastOK
<1>10. ProcOK(q, s3, past')
  BY <1>2, <1>4, <1>9 DEF ProcOK, Updates
<1>11. Kept(s3, s3, past')
  BY SameKept
<1>12. DbOK(db, s3, past')
  BY <1>7, <1>8, <1>11, DbLater
<1> QED
  BY <1>1, <1>5, <1>6, <1>7, <1>8, <1>10, <1>11, <1>12, OneSteps

DeleteSteps == {"dropFile", "dropById", "dropByUser", "dropByDay"}

LEMMA Deleting ==
  ASSUME Inv, NEW p \in Processes, NEW s \in DeleteSteps, At(p, s)
  PROVE  LET q == run[p] IN
         /\ q \in AnyProcess /\ q # Idle /\ q.op = "delete" /\ q.at = s /\ q.v \in Videos
         /\ "delete" \in past[q.v] /\ KindOK(p, q)
<1>1. s # "idle"
  BY DEF DeleteSteps
<1>2. LET q == run[p] IN
         /\ q \in AnyProcess /\ q # Idle /\ q.op \in Ops
         /\ q.at = s /\ s \in StepsOf[q.op] /\ q.v \in Videos
         /\ KindOK(p, q) /\ ProcOK(q, s3, past)
  BY <1>1, Standing
<1>3. run[p].op = "delete"
  BY <1>2, Steps DEF DeleteSteps, Ops
<1> QED
  BY <1>2, <1>3 DEF ProcOK

LEMMA DeleteMoves ==
  ASSUME Inv, NEW p \in Processes, NEW s \in DeleteSteps, At(p, s), NEW at \in DeleteSteps, NEW o
  PROVE  KindOK(p, To(p, at)) /\ ProcOK(To(p, at), o, past)
<1> DEFINE q == run[p]
           n == To(p, at)
<1>1. q \in AnyProcess /\ q # Idle /\ q.op = "delete" /\ "delete" \in past[q.v] /\ KindOK(p, q)
  BY Deleting
<1>2. at \in StepsOf[q.op]
  BY <1>1, Steps DEF DeleteSteps
<1>3. KindOK(p, n) /\ n.at = at /\ n.op = q.op /\ n.v = q.v
  BY <1>1, <1>2, Moving DEF To
<1> HIDE DEF n
<1>4. ProcOK(n, o, past)
  BY <1>1, <1>3 DEF ProcOK, DeleteSteps, Updates
<1> QED
  BY <1>3, <1>4 DEF n

(* The object goes only now that the delete is noted.                      *)
LEMMA DropFileStep == ASSUME Inv, NEW p \in Processes, DropFile(p) PROVE Inv'
<1> DEFINE o == s3 \ {<<run[p].v, "file">>}
<1>1. At(p, "dropFile") /\ "dropFile" \in DeleteSteps /\ Writes(p, db, o, To(p, "dropById"), Idle)
  BY DEF DropFile, DeleteSteps
<1>2. run[p].v \in Videos /\ "delete" \in past[run[p].v]
  BY <1>1, Deleting
<1>3. KindOK(p, To(p, "dropById")) /\ ProcOK(To(p, "dropById"), o, past)
  BY <1>1, DeleteMoves DEF DeleteSteps
<1>4. Kept(s3, o, past) /\ Grown(past, past)
  BY <1>2 DEF Kept, Grown
<1>5. s3 \in SUBSET (Videos \X Objects) /\ DbOK(db, s3, past)
  BY DEF Inv
<1>6. DbOK(db, o, past)
  BY <1>4, <1>5, DbLater
<1>7. KindOK(p, Idle) /\ ProcOK(Idle, s3, past)
  BY IdleOK
<1>8. o \in SUBSET (Videos \X Objects)
  BY <1>5
<1> HIDE DEF o
<1> QED
  BY <1>1, <1>2, <1>3, <1>4, <1>6, <1>7, <1>8, WritesOK

LEMMA DropRowStep ==
  ASSUME Inv, NEW p \in Processes, DropById(p) \/ DropByUser(p)
  PROVE  Inv'
<1>1. PICK s \in DeleteSteps, t \in Tables, at \in DeleteSteps :
          At(p, s) /\ WritesRow(p, t, NoRow, To(p, at), Idle)
  BY DEF DropById, DropByUser, DeleteSteps, Tables
<1>2. run[p].v \in Videos
  BY <1>1, Deleting
<1>3. KindOK(p, To(p, at)) /\ ProcOK(To(p, at), s3, past)
  BY <1>1, DeleteMoves
<1>4. KindOK(p, Idle) /\ ProcOK(Idle, s3, past)
  BY IdleOK
<1>5. RowOK(t, run[p].v, NoRow, s3, past)
  BY DEF RowOK
<1> QED
  BY <1>1, <1>2, <1>3, <1>4, <1>5, WritesRowOK

LEMMA DropByDayStep == ASSUME Inv, NEW p \in Processes, DropByDay(p) PROVE Inv'
<1> DEFINE v == run[p].v
<1>1. /\ At(p, "dropByDay") /\ "dropByDay" \in DeleteSteps /\ UNCHANGED s3
      /\ run' = [run EXCEPT ![p] = Idle] /\ db' \in {db, WithoutDayRow(v)}
      /\ past' = Noted(v, {"gone"}) \/ past' = Noted(v, {"fault"})
  BY DEF DropByDay, DeleteSteps
<1>2. v \in Videos
  BY <1>1, Deleting
<1>3. PastOK(past) /\ s3 \in SUBSET (Videos \X Objects) /\ DbOK(db, s3, past)
  BY DEF Inv
<1>4. PastOK(past') /\ Grown(past, past')
  BY <1>1, <1>2, <1>3, NotedOK DEF Events, Visibilities
<1>5. DbOK(db', s3, past)
  <2>1. RowOK("videos_by_day", v, NoRow, s3, past) /\ "videos_by_day" \in Tables
    BY DEF RowOK, Tables
  <2>2. DbOK(WithoutDayRow(v), s3, past)
    BY <1>2, <1>3, <2>1, RowWrite DEF WithoutDayRow
  <2> QED
    BY <1>1, <1>3, <2>2
<1>6. Kept(s3, s3, past')
  BY SameKept
<1>7. DbOK(db', s3, past')
  BY <1>4, <1>5, <1>6, DbLater
<1>8. KindOK(p, Idle) /\ ProcOK(Idle, s3, past')
  BY IdleOK
<1> QED
  BY <1>1, <1>3, <1>4, <1>6, <1>7, <1>8, OneSteps

-------------------------------------------------------------------------------
LEMMA RestartStep == ASSUME Inv, Restart PROVE Inv'
<1>1. /\ run' = [p \in Processes |-> Idle] /\ UNCHANGED <<db, s3>>
      /\ past' = [v \in Videos |->
                    IF Busy(v, {"create", "delete", "derive"}) THEN past[v] \cup {"fault"}
                                                               ELSE past[v]]
  BY DEF Restart, Processes
<1>2. PastOK(past) /\ s3 \in SUBSET (Videos \X Objects) /\ DbOK(db, s3, past)
  BY DEF Inv
<1>3. \A v \in Videos : past'[v] \in {past[v], past[v] \cup {"fault"}}
  BY <1>1
<1>4. \A v \in Videos : past[v] \subseteq past'[v]
                        /\ past'[v] \cap Visibilities = past[v] \cap Visibilities
  BY <1>3 DEF Visibilities
<1>5. past' \in [Videos -> SUBSET Events]
  BY <1>1, <1>2 DEF PastOK, Events
<1>6. PastOK(past') /\ Grown(past, past')
  BY <1>2, <1>4, <1>5 DEF PastOK, OneVisibility, Grown
<1>7. Kept(s3, s3, past')
  BY SameKept
<1>8. DbOK(db', s3', past')
  BY <1>1, <1>2, <1>6, <1>7, DbLater
<1>9. \A p \in Processes : KindOK(p, Idle) /\ ProcOK(Idle, s3', past')
  BY IdleOK
<1>10. Idle \in AnyProcess
  BY DEF AnyProcess
<1> QED
  BY <1>1, <1>2, <1>6, <1>8, <1>9, <1>10 DEF Inv

LEMMA InvInit == ASSUME Init PROVE Inv
<1>1. /\ db = [t \in Tables |-> [v \in Videos |-> NoRow]] /\ s3 = {}
      /\ run = [p \in Processes |-> Idle] /\ past = [v \in Videos |-> {}]
  BY DEF Init, Processes
<1>2. DbOK(db, s3, past)
  BY <1>1 DEF DbOK, RowOK
<1>3. PastOK(past)
  BY <1>1 DEF PastOK, OneVisibility
<1>4. \A p \in Processes : KindOK(p, Idle) /\ ProcOK(Idle, s3, past)
  BY IdleOK
<1>5. Idle \in AnyProcess
  BY DEF AnyProcess
<1> QED
  BY <1>1, <1>2, <1>3, <1>4, <1>5 DEF Inv

LEMMA InvNext == ASSUME Inv, [Next]_vars PROVE Inv'
<1>1. CASE UNCHANGED vars
  <2>1. db' = db /\ s3' = s3 /\ run' = run /\ past' = past
    BY <1>1 DEF vars
  <2> QED
    BY <2>1 DEF Inv
<1>2. ASSUME NEW r \in Slots, Arrival(r) PROVE Inv'
  BY <1>2, CreateStep, DeleteStep DEF Arrival
<1>3. ASSUME NEW p \in Processes, Statement(p) PROVE Inv'
  <2>1. \/ PutFile(p) \/ InsertUser(p) \/ InsertById(p) \/ InsertByDay(p)
        \/ Seed(p) \/ Lookup(p) \/ Schedule(p) \/ ReadCreated(p) \/ StoreImage(p)
        \/ SetUser(p) \/ SetById(p) \/ SetByDay(p)
        \/ DropFile(p) \/ DropById(p) \/ DropByUser(p) \/ DropByDay(p)
    BY <1>3 DEF Statement
  <2> QED
    BY <2>1, PutFileStep, InsertStep, SeedStep, LookupStep, ScheduleStep, ReadCreatedStep,
       StoreImageStep, SetStep, DropFileStep, DropRowStep, DropByDayStep
<1>4. CASE Restart
  BY <1>4, RestartStep
<1> QED
  BY <1>1, <1>2, <1>3, <1>4 DEF Next, Processes

(* Whatever fails and wherever the server stops, a row that was inserted   *)
(* has the visibility of its upload and an object in the bucket until its  *)
(* owner deletes it; a row that only an UPDATE made has no visibility; the *)
(* global feed holds nothing but public videos; and every process knows    *)
(* what its next statement needs (video_create.cpp:233-485,                *)
(* video_delete.cpp:66).                                                   *)
THEOREM VideoStoreInvariant == Spec => []Inv
BY InvInit, InvNext, PTL DEF Spec

-------------------------------------------------------------------------------
(* What the invariant gives.                                               *)

LEMMA InvUrlsResolve == ASSUME Inv PROVE UrlsResolve
<1> SUFFICES ASSUME NEW t \in Tables, NEW v \in Videos, Stored(t, v)
             PROVE  /\ \A c \in db[t][v].urls : <<v, c>> \in s3
                    /\ db[t][v].made /\ "delete" \notin past[v] => <<v, "file">> \in s3
  BY DEF UrlsResolve
<1>1. RowOK(t, v, db[t][v], s3, past) /\ db[t][v] # NoRow
  BY DEF Inv, DbOK, Stored
<1> QED
  BY <1>1 DEF RowOK, FileKept

(* The only header of a user that is believed has the token of a login.    *)
LEMMA OnlyTheirToken ==
  ASSUME NEW u \in Users, NEW h \in Headers, IsUser(h, u)
  PROVE  h = [scheme |-> "bearer", token |-> Mint(u)]
<1>1. ExtractAuth(h).result = "authenticated" /\ ExtractAuth(h).user = u
  BY DEF IsUser
<1>2. h.scheme \in {"none", "other", "garbled", "bearer"}
  BY DEF Headers
<1>3. h.scheme = "bearer"
  BY <1>1, <1>2 DEF ExtractAuth
<1>4. Verify(h.token) = u /\ Verify(h.token) # NoUser
  BY <1>1, <1>3 DEF ExtractAuth
<1>5. h \in [scheme : {"bearer"}, token : Token]
  BY <1>3 DEF Headers
<1>6. h.token \in Token /\ h = [scheme |-> "bearer", token |-> h.token]
  BY <1>5
<1>7. h.token.signed /\ h.token.exp = "ahead" /\ h.token.sub = u
  BY <1>4 DEF Verify
<1>8. h.token = [sub |-> u, exp |-> "ahead", signed |-> TRUE]
  BY <1>6, <1>7 DEF Token
<1> QED
  BY <1>6, <1>8 DEF Mint

LEMMA InvPagesKeepPrivate == ASSUME Inv PROVE PagesKeepPrivate
<1> SUFFICES ASSUME NEW v \in Videos, past[v] # {}, "public" \notin past[v],
                    NEW h \in Headers, h # [scheme |-> "bearer", token |-> Mint(Owner[v])]
             PROVE  /\ "private" \in past[v] => Page(h, v) # "200"
                    /\ v \notin Hits(h, NoUser) \cup Hits(h, Owner[v]) \cup Fallback(h, NoUser)
                    /\ v \notin Mine(h)
                    /\ v \in Listed(h, Owner[v]) \cup Fallback(h, Owner[v]) => ~ db["videos"][v].made
                    /\ AddItem(h, v) = "201" => \E u \in Users \ {Owner[v]} : IsUser(h, u)
  BY DEF PagesKeepPrivate
<1>1. ~ IsUser(h, Owner[v])
  BY OnlyTheirToken, OwnerAssumption
<1>2. \A t \in Tables : RowOK(t, v, db[t][v], s3, past)
  BY DEF Inv, DbOK
<1>3. past[v] \in SUBSET Events /\ \A a, b \in past[v] \cap Visibilities : a = b
  BY DEF Inv, PastOK, OneVisibility
<1>4. "null" \notin past[v]
  BY <1>3 DEF Events, Visibilities
<1>5. v \notin Feed
  BY <1>2 DEF Feed, Stored, RowOK, Tables
<1>6. ASSUME "private" \in past[v] PROVE Page(h, v) # "200"
  <2> DEFINE row == db["video_by_id"][v]
  <2>1. RowOK("video_by_id", v, row, s3, past)
    BY <1>2 DEF Tables
  <2>2. CASE row # NoRow /\ row.made
    <3>1. row.vis \in past[v]
      BY <2>1, <2>2 DEF RowOK
    <3>2. row.vis \in Visibilities => row.vis = "private"
      BY <1>3, <1>6, <3>1 DEF Visibilities
    <3>3. row.vis \in Visibilities \cup {"null"}
      <4>1. "video_by_id" \in Tables
        BY DEF Tables
      <4>2. row \in Row
        BY <2>2, <4>1 DEF Inv, DbOK
      <4> QED
        BY <4>2 DEF Row
    <3>4. Vis(row) = "private"
      BY <1>4, <3>1, <3>2, <3>3 DEF Vis
    <3> QED
      BY <1>1, <2>2, <3>4 DEF Page
  <2>3. CASE ~ (row # NoRow /\ row.made)
    BY <2>3 DEF Page
  <2> QED
    BY <2>2, <2>3
<1>7. v \notin Hits(h, NoUser) /\ v \notin Hits(h, Owner[v])
  BY <1>1 DEF Hits, IndexedPublic
<1>8. v \in Listed(h, Owner[v]) => ~ db["videos"][v].made
  <2> DEFINE row == db["videos"][v]
  <2>1. RowOK("videos", v, row, s3, past)
    BY <1>2 DEF Tables
  <2> SUFFICES ASSUME row # NoRow, row.made, Vis(row) = "public" PROVE FALSE
    BY <1>1 DEF Listed, Stored
  <2>2. row.vis \in past[v]
    BY <2>1 DEF RowOK
  <2> QED
    BY <1>4, <2>2 DEF Vis
<1>9. v \notin Mine(h)
  BY <1>1 DEF Mine
<1>10. Fallback(h, NoUser) = Feed /\ Fallback(h, Owner[v]) \in {Feed, Listed(h, Owner[v])}
  BY DEF Fallback
<1>11. ASSUME AddItem(h, v) = "201" PROVE \E u \in Users \ {Owner[v]} : IsUser(h, u)
  <2>1. Authenticated(h)
    BY <1>11 DEF AddItem
  <2>2. h.scheme = "bearer" /\ Verify(h.token) # NoUser
    BY <2>1 DEF Authenticated, ExtractAuth, Headers
  <2>3. h.token \in Token
    BY <2>2 DEF Headers
  <2>4. Verify(h.token) = h.token.sub /\ h.token.sub \in Users
    BY <2>2, <2>3 DEF Verify, Token
  <2>5. IsUser(h, h.token.sub)
    BY <2>2, <2>4 DEF IsUser, ExtractAuth
  <2> QED
    BY <1>1, <2>4, <2>5
<1> QED
  BY <1>5, <1>6, <1>7, <1>8, <1>9, <1>10, <1>11

(* A URL that a row shows leads to an object of the bucket, through        *)
(* failures and restarts, for any number of videos and concurrent          *)
(* requests: objects are stored before the rows that name them             *)
(* (video_create.cpp:233, 485).                                            *)
THEOREM VideoUrlsResolve == Spec => []UrlsResolve
BY VideoStoreInvariant, InvUrlsResolve, PTL

(* Whoever asks, whatever header they send and whatever failed before: the *)
(* page of what was uploaded as private is shown to its owner alone, and   *)
(* what was not uploaded as public is listed among videos with its title   *)
(* for the owner alone (video_get.cpp:57, video_list.cpp:312, 396,         *)
(* auth.hpp); through a playlist (item_add.cpp:201) it may be shown to     *)
(* other users, and only to users.                                         *)
THEOREM VideoPagesKeepPrivate == Spec => []PagesKeepPrivate
BY VideoStoreInvariant, InvPagesKeepPrivate, PTL
-------------------------------------------------------------------------------
(* The life of a video.  A second invariant, about what its tables hold    *)
(* while it is uploaded, worked on and deleted.                            *)

(* The row of table t has been inserted by an upload or before a task that *)
(* is at this statement.                                                   *)
Written(q, t) ==
    /\ q.at \notin {"put", "insertUser"}
    /\ t # "videos" => q.at # "insertById"
    /\ t = "videos_by_day" => q.at # "insertByDay" /\ q.vis = "public"

(* The URLs it has set in the row: those of the images before the one it   *)
(* is at, and that one if it has come past the table.                      *)
UrlsBefore(q) ==
    IF q.at \in {"schedule", "created"} THEN IF q.given THEN {"thumbnail_url"} ELSE {}
    ELSE IF q.col = "storyboard_url" THEN {"thumbnail_url"} ELSE {}
UpdatedBefore(q, t) ==
    \/ t = "videos" /\ q.at \in {"setById", "setByDay"}
    \/ t = "video_by_id" /\ q.at = "setByDay"
RowBefore(q, t) ==
    IF Written(q, t)
      THEN [made |-> TRUE, vis |-> q.vis,
            urls |-> UrlsBefore(q) \cup IF UpdatedBefore(q, t) THEN {q.col} ELSE {}]
      ELSE NoRow

InProgress(q, d) ==
    /\ \A t \in Tables : d[t][q.v] = RowBefore(q, t)
    /\ q.at \in Updates \cup {"image"} => q.dated
    /\ q.op = "create" /\ q.at \in Updates \cup {"seed", "lookup"} => q.given
    /\ q.op = "derive" /\ q.at = "created" => q.col = "thumbnail_url"

Finished(v, d, h) ==
    \E vis \in h[v] \cap Visibilities :
        \A t \in Tables :
            d[t][v] = IF t = "videos_by_day" /\ vis # "public" THEN NoRow
                      ELSE [made |-> TRUE, vis |-> vis, urls |-> Columns]

(* What is left of a row once it is dropped: nothing, or what an UPDATE    *)
(* that came late has made of it.                                          *)
Remnant(row, events) == row # NoRow => ~ row.made /\ "late" \in events

Dropping(q, d, o, h) ==
    /\ q.at # "dropFile" => <<q.v, "file">> \notin o
    /\ q.at \in {"dropByUser", "dropByDay"} => Remnant(d["video_by_id"][q.v], h[q.v])
    /\ q.at = "dropByDay" => Remnant(d["videos"][q.v], h[q.v])

Clean(events) == events \cap {"fault", "delete"} = {}

WorkOK(q, d, o, h) ==
    /\ q.op \in {"create", "derive"} =>
         /\ "late" \notin h[q.v] =>
              "delete" \notin h[q.v] /\ \A t \in Tables : Written(q, t) => d[t][q.v] # NoRow
         /\ Clean(h[q.v]) => InProgress(q, d)
    /\ q.op = "create" =>
         "stored" \notin h[q.v] /\ ("overlap" \notin h[q.v] => "delete" \notin h[q.v])
    /\ q.op = "derive" => "stored" \in h[q.v]
    /\ q.op = "delete" /\ "overlap" \notin h[q.v] => Dropping(q, d, o, h)

VideoOK(v, d, o, h, task) ==
    /\ "late" \notin h[v] => \A t \in Tables : d[t][v] # NoRow => d[t][v].made
    /\ "gone" \in h[v] => "delete" \in h[v]
    /\ "gone" \in h[v] /\ "overlap" \notin h[v] =>
         <<v, "file">> \notin o /\ \A t \in Tables : Remnant(d[t][v], h[v])
    /\ "stored" \in h[v] /\ Clean(h[v]) /\ task = Idle => Finished(v, d, h)

OneCreate(r) ==
    \A p1, p2 \in Processes :
        r[p1].op = "create" /\ r[p2].op = "create" /\ r[p1].v = r[p2].v => p1 = p2

Life ==
    /\ OneCreate(run)
    /\ \A p \in Processes : WorkOK(run[p], db, s3, past)
    /\ \A v \in Videos : VideoOK(v, db, s3, past, run[v])

-------------------------------------------------------------------------------
(* A step touches one video.                                               *)

Elsewhere(v, d, o, h, d2, o2, h2) ==
    \A w \in Videos \ {v} :
        /\ \A t \in Tables : d2[t][w] = d[t][w]
        /\ <<w, "file">> \in o2 <=> <<w, "file">> \in o
        /\ h2[w] = h[w]

LEMMA TableNames == /\ "videos" \in Tables /\ "video_by_id" \in Tables /\ "videos_by_day" \in Tables
                    /\ \A t \in Tables : t \in {"videos", "video_by_id", "videos_by_day"}
BY DEF Tables

LEMMA IdleWork == ASSUME NEW d, NEW o, NEW h PROVE WorkOK(Idle, d, o, h)
BY IdleFields DEF WorkOK

LEMMA WorkElsewhere ==
  ASSUME NEW d, NEW o, NEW h, NEW d2, NEW o2, NEW h2, NEW v, Elsewhere(v, d, o, h, d2, o2, h2),
         NEW q, q.v \in Videos, q.v # v, WorkOK(q, d, o, h)
  PROVE  WorkOK(q, d2, o2, h2)
<1>1. /\ \A t \in Tables : d2[t][q.v] = d[t][q.v]
      /\ <<q.v, "file">> \in o2 <=> <<q.v, "file">> \in o
      /\ h2[q.v] = h[q.v]
  BY DEF Elsewhere
<1>2. InProgress(q, d) => InProgress(q, d2)
  BY <1>1 DEF InProgress
<1>3. Dropping(q, d, o, h) => Dropping(q, d2, o2, h2)
  BY <1>1, TableNames DEF Dropping
<1> QED
  BY <1>1, <1>2, <1>3 DEF WorkOK

LEMMA VideoElsewhere ==
  ASSUME NEW d, NEW o, NEW h, NEW d2, NEW o2, NEW h2, NEW v, Elsewhere(v, d, o, h, d2, o2, h2),
         NEW w \in Videos, w # v, NEW task, VideoOK(w, d, o, h, task)
  PROVE  VideoOK(w, d2, o2, h2, task)
<1>1. /\ \A t \in Tables : d2[t][w] = d[t][w]
      /\ <<w, "file">> \in o2 <=> <<w, "file">> \in o
      /\ h2[w] = h[w]
  BY DEF Elsewhere
<1>2. Finished(w, d, h) => Finished(w, d2, h2)
  BY <1>1 DEF Finished
<1> QED
  BY <1>1, <1>2 DEF VideoOK

LEMMA IdleVideo == Idle.v \notin Videos
BY NullAssumption DEF Idle

(* What a step on video v has to keep.                                     *)
LEMMA LocalStep ==
  ASSUME Inv, Inv', Life, NEW v \in Videos, Elsewhere(v, db, s3, past, db', s3', past'),
         \A r \in Processes : run'[r] # run[r] => /\ (run[r] = Idle \/ run[r].v = v)
                                               /\ (run'[r] = Idle \/ run'[r].v = v),
         \A r \in Processes : run'[r].v = v => WorkOK(run'[r], db', s3', past'),
         \A p1, p2 \in Processes :
             /\ run'[p1].op = "create" /\ run'[p2].op = "create"
             /\ run'[p1].v = v /\ run'[p2].v = v
             => p1 = p2,
         VideoOK(v, db', s3', past', run'[v])
  PROVE  Life'
<1>1. \A r \in Processes : /\ run[r] \in AnyProcess /\ KindOK(r, run[r])
                            /\ run'[r] \in AnyProcess /\ KindOK(r, run'[r])
                            /\ (run[r] = Idle \/ run[r].v \in Videos)
                            /\ (run'[r] = Idle \/ run'[r].v \in Videos)
  BY Fields DEF Inv
<1>2. ASSUME NEW r \in Processes PROVE WorkOK(run'[r], db', s3', past')
  <2>1. CASE run'[r] = Idle
    BY <2>1, IdleWork
  <2>2. CASE run'[r] # Idle /\ run'[r].v # v
    <3>1. run'[r] = run[r] /\ run'[r].v \in Videos /\ WorkOK(run[r], db, s3, past)
      BY <1>1, <2>2 DEF Life
    <3> QED
      BY <2>2, <3>1, WorkElsewhere
  <2> QED
    BY <2>1, <2>2
<1>3. ASSUME NEW w \in Videos PROVE VideoOK(w, db', s3', past', run'[w])
  <2>1. CASE w # v
    <3>1. w \in Processes
      BY DEF Processes
    <3>2. KindOK(w, run[w]) /\ KindOK(w, run'[w])
      BY <3>1 DEF Inv
    <3>3. /\ run[w] = Idle \/ run[w].v = w
          /\ run'[w] = Idle \/ run'[w].v = w
      BY <3>2 DEF KindOK
    <3>4. run'[w] = run[w]
      BY <2>1, <3>1, <3>3, IdleVideo
    <3>5. VideoOK(w, db, s3, past, run[w])
      BY DEF Life
    <3>6. VideoOK(w, db', s3', past', run[w])
      BY <2>1, <3>5, VideoElsewhere
    <3> QED
      BY <3>4, <3>6
  <2> QED
    BY <2>1
<1>4. OneCreate(run')
  <2> SUFFICES ASSUME NEW p1 \in Processes, NEW p2 \in Processes,
                      run'[p1].op = "create", run'[p2].op = "create", run'[p1].v = run'[p2].v,
                      run'[p1].v # v
               PROVE  p1 = p2
    BY DEF OneCreate
  <2>1. run'[p1] # Idle /\ run'[p2] # Idle
    BY IdleFields
  <2>2. run'[p1] = run[p1] /\ run'[p2] = run[p2]
    BY <2>1
  <2> QED
    BY <2>2 DEF Life, OneCreate
<1> QED
  BY <1>2, <1>3, <1>4 DEF Life

-------------------------------------------------------------------------------
(* Statements of an upload or a task.                                      *)

Makers == {"create", "derive"}
MakerAt(p) == p \in Processes /\ run[p] # Idle /\ run[p].op \in Makers

(* A process goes on with what it is doing or ends.                        *)
GoesOn(q, n) == n = Idle \/ (n # Idle /\ n.op = q.op /\ n.v = q.v)

(* Only a delete may be at work on the same video, and it was noted.       *)
LEMMA Company ==
  ASSUME Inv, Life, NEW p, MakerAt(p), NEW r \in Processes, r # p, run[r].v = run[p].v
  PROVE  /\ run[p].v \in Videos
         /\ run[r].op = "delete" /\ "delete" \in past[run[p].v] /\ "late" \in past[run[p].v]
         /\ run[p].op = "create" => "overlap" \in past[run[p].v]
<1> DEFINE v == run[p].v
<1>1. /\ run[p] \in AnyProcess /\ p \in Processes /\ run[p] # Idle /\ run[p].op \in Makers
      /\ KindOK(p, run[p]) /\ WorkOK(run[p], db, s3, past)
  BY DEF MakerAt, Inv, Life
<1>2. v \in Videos
  BY <1>1, Fields
<1>3. run[r] # Idle /\ run[r] \in AnyProcess /\ KindOK(r, run[r]) /\ ProcOK(run[r], s3, past)
  BY <1>2, IdleVideo DEF Inv
<1>4. run[r].op \in Ops /\ WorkOK(run[r], db, s3, past)
  BY <1>3, Fields DEF Life
<1>5. run[r].op # "create"
  <2> SUFFICES ASSUME run[r].op = "create" PROVE FALSE
    OBVIOUS
  <2>1. CASE run[p].op = "create"
    BY <1>1, <2>1 DEF Life, OneCreate
  <2>2. CASE run[p].op = "derive"
    BY <1>1, <1>4, <2>2 DEF WorkOK
  <2> QED
    BY <1>1, <2>1, <2>2 DEF Makers
<1>6. run[r].op # "derive"
  <2> SUFFICES ASSUME run[r].op = "derive" PROVE FALSE
    OBVIOUS
  <2>1. CASE run[p].op = "create"
    BY <1>1, <1>4, <2>1 DEF WorkOK
  <2>2. CASE run[p].op = "derive"
    <3>1. p \in Videos /\ r \in Videos
      BY <1>1, <1>3, <2>2 DEF KindOK, Processes
    <3> QED
      BY <1>1, <1>3, <3>1 DEF KindOK
  <2> QED
    BY <1>1, <2>1, <2>2 DEF Makers
<1>7. run[r].op = "delete" /\ "delete" \in past[v]
  BY <1>3, <1>4, <1>5, <1>6 DEF Ops, ProcOK
<1> QED
  BY <1>1, <1>2, <1>7 DEF WorkOK, Makers

(* What it does to the rows and the object of its video.  late: a delete   *)
(* began while it ran.                                                     *)
RowsMade(p, d) ==
    LET v == run[p].v IN
    \A t \in Tables : d[t][v] # db[t][v] =>
        /\ d[t][v] # NoRow
        /\ run[p].op = "derive" /\ d[t][v].made => db[t][v] # NoRow /\ db[t][v].made
        /\ "late" \notin past[v] => d[t][v].made
FileMade(p, o) ==
    run[p].op = "derive" => (<<run[p].v, "file">> \in o <=> <<run[p].v, "file">> \in s3)
AllWritten(q, n, d, h) ==
    n # Idle /\ "late" \notin h[q.v] => \A t \in Tables : Written(n, t) => d[t][q.v] # NoRow
Progress(q, n, d, h) ==
    IF n = Idle THEN q.op = "derive" => Finished(q.v, d, h) ELSE InProgress(n, d)

LEMMA MakerStep ==
  ASSUME Inv, Inv', Life, NEW p, MakerAt(p), NEW n,
         run' = [run EXCEPT ![p] = n], GoesOn(run[p], n),
         Elsewhere(run[p].v, db, s3, past, db', s3', past'),
         past'[run[p].v] \in {past[run[p].v], past[run[p].v] \cup {"fault"}},
         RowsMade(p, db'), FileMade(p, s3'), AllWritten(run[p], n, db', past),
         Clean(past'[run[p].v]) /\ InProgress(run[p], db) => Progress(run[p], n, db', past')
  PROVE  Life'
<1> DEFINE q == run[p]
           v == q.v
<1>1. /\ q \in AnyProcess /\ p \in Processes /\ q # Idle /\ q.op \in Makers /\ KindOK(p, q)
      /\ WorkOK(q, db, s3, past) /\ OneCreate(run)
  BY DEF MakerAt, Inv, Life
<1>2. v \in Videos /\ VideoOK(v, db, s3, past, run[v])
  BY <1>1, Fields DEF Life
<1>3. \A r \in Processes : run'[r] = IF r = p THEN n ELSE run[r]
  BY DEF Inv
<1>4. /\ past[v] \subseteq past'[v]
      /\ \A e : e # "fault" => (e \in past'[v] <=> e \in past[v])
  OBVIOUS
<1>5. Clean(past'[v]) => Clean(past[v]) /\ past'[v] = past[v]
  BY <1>4 DEF Clean
<1>6. ASSUME NEW r \in Processes, run'[r].v = v PROVE WorkOK(run'[r], db', s3', past')
  <2>1. CASE r # p
    <3>1. run'[r] = run[r] /\ WorkOK(run[r], db, s3, past)
      BY <1>3, <2>1 DEF Life
    <3>2. /\ run[r].op = "delete" /\ "late" \in past[v] /\ run[r].v = v
          /\ q.op = "create" => "overlap" \in past[v]
      BY <1>6, <2>1, <3>1, Company
    <3>3. ASSUME "overlap" \notin past'[v] PROVE Dropping(run[r], db', s3', past')
      <4>1. q.op = "derive" /\ Dropping(run[r], db, s3, past)
        BY <1>1, <1>4, <3>1, <3>2, <3>3 DEF WorkOK, Makers
      <4>2. \A t \in Tables : Remnant(db[t][v], past[v]) => Remnant(db'[t][v], past'[v])
        BY <1>4, <3>2, <4>1 DEF RowsMade, Remnant
      <4> QED
        BY <3>2, <4>1, <4>2, TableNames DEF Dropping, FileMade
    <3> QED
      BY <3>1, <3>2, <3>3 DEF WorkOK
  <2>2. CASE r = p
    <3>1. run'[r] = n
      BY <1>3, <2>2
    <3>2. CASE n = Idle
      BY <3>1, <3>2, IdleWork
    <3>3. CASE n # Idle
      <4>1. n.op = q.op /\ n.v = v
        BY <3>3 DEF GoesOn
      <4>2. "late" \notin past'[v] =>
                "delete" \notin past'[v] /\ \A t \in Tables : Written(n, t) => db'[t][v] # NoRow
        BY <1>1, <1>4, <3>3 DEF WorkOK, AllWritten, Makers
      <4>3. Clean(past'[v]) => InProgress(n, db')
        BY <1>1, <1>5, <3>3 DEF WorkOK, Progress, Makers
      <4>4. q.op = "create" =>
                "stored" \notin past'[v] /\ ("overlap" \notin past'[v] => "delete" \notin past'[v])
        BY <1>1, <1>4 DEF WorkOK
      <4>5. q.op = "derive" => "stored" \in past'[v]
        BY <1>1, <1>4 DEF WorkOK
      <4>6. WorkOK(n, db', s3', past')
        BY <1>1, <4>1, <4>2, <4>3, <4>4, <4>5 DEF WorkOK, Makers
      <4> QED
        BY <3>1, <4>6
    <3> QED
      BY <3>2, <3>3
  <2> QED
    BY <2>1, <2>2
<1>7. ASSUME NEW p1 \in Processes, NEW p2 \in Processes,
             run'[p1].op = "create", run'[p2].op = "create", run'[p1].v = v, run'[p2].v = v
      PROVE  p1 = p2
  <2>1. \A r \in Processes : r # p /\ run[r].v = v => run[r].op = "delete"
    BY Company
  <2> QED
    BY <1>3, <1>7, <2>1
<1>8. VideoOK(v, db', s3', past', run'[v])
  <2>1. "late" \notin past'[v] => \A t \in Tables : db'[t][v] # NoRow => db'[t][v].made
    BY <1>2, <1>4 DEF VideoOK, RowsMade
  <2>2. "gone" \in past'[v] => "delete" \in past'[v]
    BY <1>2, <1>4 DEF VideoOK
  <2>3. ASSUME "gone" \in past'[v], "overlap" \notin past'[v]
        PROVE  <<v, "file">> \notin s3' /\ \A t \in Tables : Remnant(db'[t][v], past'[v])
    <3>1. "gone" \in past[v] /\ "delete" \in past[v] /\ "overlap" \notin past[v]
      BY <1>2, <1>4, <2>3 DEF VideoOK
    <3>2. q.op = "derive" /\ "late" \in past[v]
      BY <1>1, <3>1 DEF WorkOK, Makers
    <3>3. <<v, "file">> \notin s3 /\ \A t \in Tables : Remnant(db[t][v], past[v])
      BY <1>2, <3>1 DEF VideoOK
    <3> QED
      BY <1>4, <3>2, <3>3 DEF RowsMade, Remnant, FileMade
  <2>4. ASSUME "stored" \in past'[v], Clean(past'[v]), run'[v] = Idle
        PROVE  Finished(v, db', past')
    <3>1. "stored" \in past[v] /\ Clean(past[v]) /\ past'[v] = past[v]
      BY <1>4, <1>5, <2>4
    <3>2. q.op = "derive" /\ p = v
      BY <1>1, <3>1 DEF WorkOK, Makers, KindOK, Processes
    <3>3. n = Idle
      BY <1>1, <1>3, <2>4, <3>2
    <3>4. InProgress(q, db)
      BY <1>1, <3>1, <3>2 DEF WorkOK
    <3> QED
      BY <2>4, <3>2, <3>3, <3>4 DEF Progress
  <2> QED
    BY <2>1, <2>2, <2>3, <2>4 DEF VideoOK
<1>9. \A r \in Processes : run'[r] # run[r] => /\ run[r] = Idle \/ run[r].v = v
                                               /\ run'[r] = Idle \/ run'[r].v = v
  BY <1>3 DEF GoesOn
<1> HIDE DEF q, v
<1>10. Elsewhere(v, db, s3, past, db', s3', past')
  BY DEF v, q
<1> QED
  BY <1>2, <1>6, <1>7, <1>8, <1>9, <1>10, LocalStep

LEMMA RowsAlike ==
  ASSUME NEW p PROVE RowsMade(p, db) /\ FileMade(p, s3)
BY DEF RowsMade, FileMade

LEMMA FaultElsewhere ==
  ASSUME Inv, NEW v \in Videos, NEW E \in SUBSET Events
  PROVE  /\ Noted(v, E)[v] = past[v] \cup E
         /\ \A w \in Videos \ {v} : Noted(v, E)[w] = past[w]
BY DEF Inv, PastOK, Noted

(* A statement, executed or not.                                           *)
LEMMA MakerWrites ==
  ASSUME Inv, Inv', Life, NEW p, MakerAt(p), NEW d, NEW o, NEW n, NEW c,
         Writes(p, d, o, n, c), GoesOn(run[p], n), GoesOn(run[p], c),
         Elsewhere(run[p].v, db, s3, past, d, o, past),
         RowsMade(p, d), FileMade(p, o),
         AllWritten(run[p], n, d, past), AllWritten(run[p], c, db, past),
         Clean(past[run[p].v]) /\ InProgress(run[p], db) => Progress(run[p], n, d, past)
  PROVE  Life'
<1> DEFINE v == run[p].v
<1>0. v \in Videos
  BY Fields DEF MakerAt, Inv
<1>1. CASE db' = d /\ s3' = o /\ run' = [run EXCEPT ![p] = n] /\ UNCHANGED past
  BY <1>1, MakerStep
<1>2. ASSUME run' = [run EXCEPT ![p] = c], past' = Noted(v, {"fault"}),
             (db' = d /\ s3' = o) \/ UNCHANGED <<db, s3>>
      PROVE  Life'
  <2>1. /\ past'[v] = past[v] \cup {"fault"}
        /\ \A w \in Videos \ {v} : past'[w] = past[w]
    <3>1. {"fault"} \in SUBSET Events
      BY DEF Events
    <3> QED
      BY <1>0, <1>2, <3>1, FaultElsewhere
  <2>2. ~ Clean(past'[v])
    BY <2>1 DEF Clean
  <2>3. Elsewhere(v, db, s3, past, db', s3', past')
    BY <1>2, <2>1 DEF Elsewhere
  <2>4. RowsMade(p, db') /\ FileMade(p, s3')
    BY <1>2, RowsAlike
  <2>5. AllWritten(run[p], c, d, past)
    BY DEF AllWritten, RowsMade
  <2>6. AllWritten(run[p], c, db', past)
    BY <1>2, <2>5
  <2> QED
    BY <1>2, <2>1, <2>2, <2>3, <2>4, <2>6, MakerStep
<1> QED
  BY <1>1, <1>2 DEF Writes

LEMMA OneRow ==
  ASSUME Inv, NEW t \in Tables, NEW v \in Videos, NEW row
  PROVE  LET d == [db EXCEPT ![t][v] = row] IN
         /\ \A s \in Tables, w \in Videos : d[s][w] = IF s = t /\ w = v THEN row ELSE db[s][w]
         /\ Elsewhere(v, db, s3, past, d, s3, past)
<1> DEFINE d == [db EXCEPT ![t][v] = row]
<1>1. db \in [Tables -> [Videos -> Row \cup {NoRow}]]
  BY DEF Inv, DbOK
<1>2. \A s \in Tables, w \in Videos : d[s][w] = IF s = t /\ w = v THEN row ELSE db[s][w]
  BY <1>1
<1> HIDE DEF d
<1>3. Elsewhere(v, db, s3, past, d, s3, past)
  BY <1>2 DEF Elsewhere
<1> QED
  BY <1>2, <1>3 DEF d

LEMMA MakerWritesRow ==
  ASSUME Inv, Inv', Life, NEW p, MakerAt(p), NEW t \in Tables, NEW row \in Row, NEW n, NEW c,
         WritesRow(p, t, row, n, c), GoesOn(run[p], n), GoesOn(run[p], c),
         run[p].op = "derive" /\ row.made => db[t][run[p].v] # NoRow /\ db[t][run[p].v].made,
         "late" \notin past[run[p].v] => row.made,
         AllWritten(run[p], n, [db EXCEPT ![t][run[p].v] = row], past),
         AllWritten(run[p], c, db, past),
         Clean(past[run[p].v]) /\ InProgress(run[p], db)
             => Progress(run[p], n, [db EXCEPT ![t][run[p].v] = row], past)
  PROVE  Life'
<1> DEFINE v == run[p].v
           d == [db EXCEPT ![t][v] = row]
<1>1. v \in Videos
  BY Fields DEF MakerAt, Inv
<1>2. /\ \A s \in Tables, w \in Videos : d[s][w] = IF s = t /\ w = v THEN row ELSE db[s][w]
      /\ Elsewhere(v, db, s3, past, d, s3, past)
  BY <1>1, OneRow
<1>3. Writes(p, d, s3, n, c)
  BY DEF WritesRow
<1> HIDE DEF d
<1>4. RowsMade(p, d)
  BY <1>1, <1>2, NullAssumption DEF RowsMade
<1>5. FileMade(p, s3)
  BY RowsAlike
<1>6. /\ AllWritten(run[p], n, d, past)
      /\ Clean(past[run[p].v]) /\ InProgress(run[p], db) => Progress(run[p], n, d, past)
  BY DEF d
<1> QED
  BY <1>2, <1>3, <1>4, <1>5, <1>6, MakerWrites

-------------------------------------------------------------------------------
(* The life of a video through its upload.                                 *)

LEMMA Ends ==
  ASSUME NEW q, NEW d, NEW h PROVE GoesOn(q, Idle) /\ AllWritten(q, Idle, d, h)
BY DEF GoesOn, AllWritten

LEMMA CreatingLife ==
  ASSUME Inv, Life, NEW p \in Processes, NEW s \in CreateSteps, At(p, s)
  PROVE  LET q == run[p] IN
         /\ MakerAt(p) /\ q # Idle /\ q.op = "create" /\ q.v \in Videos /\ q.at = s
         /\ q.col = "thumbnail_url" /\ KindOK(p, q) /\ q \in AnyProcess
         /\ q.vis \in past[q.v] /\ q.vis \in Visibilities
         /\ "late" \notin past[q.v] => \A t \in Tables : Written(q, t) => db[t][q.v] # NoRow
<1>1. LET q == run[p] IN
         /\ q \in AnyProcess /\ q # Idle /\ q.op = "create" /\ q.at = s /\ q.v \in Videos
         /\ q.vis \in past[q.v] /\ q.vis \in Visibilities /\ q.col = "thumbnail_url"
         /\ KindOK(p, q)
  BY Creating
<1>2. WorkOK(run[p], db, s3, past)
  BY DEF Life
<1> QED
  BY <1>1, <1>2 DEF WorkOK, MakerAt, Makers

(* To another statement of the upload.                                     *)
LEMMA CreateGoes ==
  ASSUME Inv, Life, NEW p \in Processes, NEW s \in CreateSteps, At(p, s),
         NEW at \in CreateSteps \cup Updates
  PROVE  LET q == run[p]
             n == To(p, at) IN
         /\ n # Idle /\ n.op = "create" /\ n.v = q.v /\ n.vis = q.vis /\ n.col = q.col
         /\ n.at = at /\ n.given = q.given /\ n.dated = q.dated
         /\ GoesOn(q, n)
<1>1. /\ run[p] \in AnyProcess /\ run[p] # Idle /\ run[p].op = "create" /\ KindOK(p, run[p])
  BY CreatingLife
<1>2. at \in StepsOf[run[p].op]
  BY <1>1, Steps DEF CreateSteps, Updates
<1> QED
  BY <1>1, <1>2, Moving DEF To, GoesOn

(* It goes on without the rows having changed.                             *)
LEMMA SameRows ==
  ASSUME NEW q, NEW n, n # Idle, n.v = q.v, n.op = q.op, NEW d, NEW h,
         q.op = "derive" => n.at # "created",
         \A t \in Tables : Written(n, t) => Written(q, t),
         "late" \notin h[q.v] => \A t \in Tables : Written(q, t) => d[t][q.v] # NoRow,
         InProgress(q, d) =>
             /\ \A t \in Tables : RowBefore(n, t) = RowBefore(q, t)
             /\ n.at \in Updates \cup {"image"} => n.dated
             /\ n.op = "create" /\ n.at \in Updates \cup {"seed", "lookup"} => n.given
  PROVE  AllWritten(q, n, d, h) /\ (InProgress(q, d) => Progress(q, n, d, h))
BY DEF AllWritten, Progress, InProgress

LEMMA PutFileLife ==
  ASSUME Inv, Inv', Life, NEW p \in Processes, PutFile(p) PROVE Life'
<1> DEFINE q == run[p]
           o == WithFile(p)
           n == To(p, "insertUser")
<1>1. At(p, "put") /\ "put" \in CreateSteps /\ "insertUser" \in CreateSteps
      /\ Writes(p, db, o, n, Idle)
  BY DEF PutFile, CreateSteps
<1>2. /\ MakerAt(p) /\ q # Idle /\ q.op = "create" /\ q.v \in Videos /\ q.at = "put"
      /\ "late" \notin past[q.v] => \A t \in Tables : Written(q, t) => db[t][q.v] # NoRow
  BY <1>1, CreatingLife
<1>3. /\ n # Idle /\ n.op = "create" /\ n.v = q.v /\ n.at = "insertUser" /\ GoesOn(q, n)
  BY <1>1, CreateGoes
<1>4. Elsewhere(q.v, db, s3, past, db, o, past)
  BY DEF Elsewhere, WithFile
<1>5. RowsMade(p, db) /\ FileMade(p, o)
  BY <1>2, RowsAlike DEF FileMade
<1> HIDE DEF o, n
<1>6. \A t \in Tables : ~ Written(n, t) /\ ~ Written(q, t)
  BY <1>2, <1>3 DEF Written
<1>7. \A t \in Tables : RowBefore(n, t) = RowBefore(q, t)
  BY <1>6 DEF RowBefore
<1>8. AllWritten(q, n, db, past) /\ (InProgress(q, db) => Progress(q, n, db, past))
  BY <1>2, <1>3, <1>6, <1>7, SameRows DEF Updates
<1> HIDE DEF q
<1> QED
  BY <1>1, <1>2, <1>3, <1>4, <1>5, <1>8, MakerWrites, Ends DEF q

Inserts == {"insertUser", "insertById", "insertByDay"}

LEMMA InsertLife ==
  ASSUME Inv, Inv', Life, NEW p \in Processes, NEW s \in Inserts, At(p, s), NEW t \in Tables,
         NEW n, WritesRow(p, t, Inserted(p), n, Idle),
         n # Idle, n.op = "create", n.v = run[p].v, n.vis = run[p].vis, n.col = "thumbnail_url",
         n.at \in {"insertById", "insertByDay", "seed", "schedule"},
         IF n.at = "seed" THEN n.given ELSE n.at = "schedule" => ~ n.given,
         \A x \in Tables : Written(n, x) <=> Written(run[p], x) \/ x = t
  PROVE  Life'
<1> DEFINE q == run[p]
           v == q.v
           row == Inserted(p)
           d == [db EXCEPT ![t][v] = row]
<1>1. s \in CreateSteps \ {"put"}
  BY DEF Inserts, CreateSteps
<1>2. /\ MakerAt(p) /\ q # Idle /\ q.op = "create" /\ v \in Videos /\ q.at = s
      /\ q.col = "thumbnail_url" /\ q.vis \in Visibilities
      /\ "late" \notin past[v] => \A x \in Tables : Written(q, x) => db[x][v] # NoRow
  BY <1>1, CreatingLife
<1>3. row \in Row /\ row = [made |-> TRUE, vis |-> q.vis, urls |-> {}] /\ row.made
  BY <1>2 DEF Inserted, Row
<1> HIDE DEF row
<1>4. \A x \in Tables, w \in Videos : d[x][w] = IF x = t /\ w = v THEN row ELSE db[x][w]
  <2>1. db \in [Tables -> [Videos -> Row \cup {NoRow}]]
    BY DEF Inv, DbOK
  <2> QED
    BY <1>2, <2>1
<1>5. GoesOn(q, n)
  BY <1>2 DEF GoesOn
<1> HIDE DEF d
<1>6. AllWritten(q, n, d, past)
  BY ZenonT(40), <1>2, <1>3, <1>4, NullAssumption DEF AllWritten
<1>7. InProgress(q, db) => Progress(q, n, d, past)
  <2> SUFFICES ASSUME InProgress(q, db) PROVE InProgress(n, d)
    BY DEF Progress
  <2>1. UrlsBefore(n) = {} /\ UrlsBefore(q) = {}
    BY <1>2 DEF UrlsBefore, Inserts
  <2>2. \A x \in Tables : ~ UpdatedBefore(n, x) /\ ~ UpdatedBefore(q, x)
    BY <1>2 DEF UpdatedBefore, Inserts
  <2>3. \A x \in Tables : RowBefore(n, x) = IF Written(n, x) THEN row ELSE NoRow
    BY <1>3, <2>1, <2>2 DEF RowBefore
  <2>4. \A x \in Tables : RowBefore(q, x) = IF Written(q, x) THEN row ELSE NoRow
    BY <1>3, <2>1, <2>2 DEF RowBefore
  <2>5. \A x \in Tables : d[x][v] = RowBefore(n, x)
    BY <1>2, <1>4, <2>3, <2>4 DEF InProgress
  <2> QED
    BY <2>5 DEF InProgress, Updates
<1>8. WritesRow(p, t, row, n, Idle) /\ AllWritten(run[p], Idle, db, past) /\ GoesOn(q, Idle)
  BY Ends DEF row
<1>9. /\ AllWritten(run[p], n, [db EXCEPT ![t][run[p].v] = row], past)
      /\ InProgress(run[p], db) => Progress(run[p], n, [db EXCEPT ![t][run[p].v] = row], past)
  BY <1>6, <1>7 DEF d
<1> QED
  BY <1>2, <1>3, <1>5, <1>8, <1>9, MakerWritesRow

LEMMA InsertsLife ==
  ASSUME Inv, Inv', Life, NEW p \in Processes, InsertUser(p) \/ InsertById(p) \/ InsertByDay(p)
  PROVE  Life'
<1> DEFINE q == run[p]
<1>1. CASE InsertUser(p)
  <2> DEFINE n == To(p, "insertById")
  <2>1. At(p, "insertUser") /\ "insertUser" \in Inserts /\ "insertUser" \in CreateSteps
        /\ WritesRow(p, "videos", Inserted(p), n, Idle) /\ "insertById" \in CreateSteps
    BY <1>1 DEF InsertUser, Inserts, CreateSteps
  <2>2. q.at = "insertUser" /\ q.col = "thumbnail_url"
    BY <2>1, CreatingLife
  <2>3. /\ n # Idle /\ n.op = "create" /\ n.v = q.v /\ n.vis = q.vis /\ n.col = q.col
        /\ n.at = "insertById"
    BY <2>1, CreateGoes
  <2> HIDE DEF n
  <2>4. \A x \in Tables : Written(n, x) <=> Written(q, x) \/ x = "videos"
    BY <2>2, <2>3, TableNames DEF Written
  <2> QED
    BY <2>1, <2>2, <2>3, <2>4, TableNames, InsertLife
<1>2. ASSUME NEW s \in {"insertById", "insertByDay"}, NEW t \in Tables, At(p, s),
             t = (IF s = "insertById" THEN "video_by_id" ELSE "videos_by_day"),
             s = "insertById" => q.vis # "public",
             s = "insertByDay" => q.vis = "public",
             WritesRow(p, t, Inserted(p), Seeding(p), Idle)
      PROVE  Life'
  <2> DEFINE at == IF q.given THEN "seed" ELSE "schedule"
             n == To(p, at)
  <2>1. s \in Inserts /\ s \in CreateSteps /\ at \in CreateSteps
    BY DEF Inserts, CreateSteps
  <2>2. q.at = s /\ q.col = "thumbnail_url"
    BY <1>2, <2>1, CreatingLife
  <2> HIDE DEF at
  <2>3. /\ n # Idle /\ n.op = "create" /\ n.v = q.v /\ n.vis = q.vis /\ n.col = q.col
        /\ n.at = at /\ n.given = q.given
    BY ZenonT(40), <1>2, <2>1, CreateGoes
  <2>4. Seeding(p) = n
    BY DEF Seeding, at
  <2> HIDE DEF n
  <2>5. \A x \in Tables : Written(n, x) <=> Written(q, x) \/ x = t
    BY <1>2, <2>2, <2>3, TableNames DEF Written, at
  <2>6. /\ n.at \in {"insertById", "insertByDay", "seed", "schedule"}
        /\ IF n.at = "seed" THEN n.given ELSE n.at = "schedule" => ~ n.given
    BY <2>3 DEF at
  <2>7. WritesRow(p, t, Inserted(p), n, Idle)
    BY <1>2, <2>4
  <2> QED
    BY <1>2, <2>1, <2>2, <2>3, <2>5, <2>6, <2>7, InsertLife
<1>3. CASE InsertById(p) /\ ~ InFeed(p)
  BY <1>2, <1>3, TableNames DEF InsertById, InFeed
<1>4. CASE InsertById(p) /\ InFeed(p)
  <2> DEFINE n == To(p, "insertByDay")
  <2>1. At(p, "insertById") /\ "insertById" \in Inserts /\ "insertById" \in CreateSteps
        /\ WritesRow(p, "video_by_id", Inserted(p), n, Idle) /\ "insertByDay" \in CreateSteps
        /\ q.vis = "public"
    BY <1>4 DEF InsertById, Inserts, CreateSteps, InFeed
  <2>2. q.at = "insertById" /\ q.col = "thumbnail_url"
    BY <2>1, CreatingLife
  <2>3. /\ n # Idle /\ n.op = "create" /\ n.v = q.v /\ n.vis = q.vis /\ n.col = q.col
        /\ n.at = "insertByDay"
    BY <2>1, CreateGoes
  <2> HIDE DEF n
  <2>4. \A x \in Tables : Written(n, x) <=> Written(q, x) \/ x = "video_by_id"
    BY <2>2, <2>3, TableNames DEF Written
  <2> QED
    BY <2>1, <2>2, <2>3, <2>4, TableNames, InsertLife
<1>5. CASE InsertByDay(p)
  <2>1. At(p, "insertByDay") /\ "insertByDay" \in CreateSteps
        /\ WritesRow(p, "videos_by_day", Inserted(p), Seeding(p), Idle)
    BY <1>5 DEF InsertByDay, CreateSteps
  <2>2. ProcOK(q, s3, past) /\ q # Idle /\ q.at = "insertByDay"
    BY <2>1, Creating
  <2>3. q.vis = "public"
    BY <2>2 DEF ProcOK
  <2> QED
    BY <1>2, <2>1, <2>3, TableNames
<1> QED
  BY <1>1, <1>3, <1>4, <1>5

(* The request goes on without a thumbnail.                                *)
LEMMA UnseededGoes ==
  ASSUME Inv, Life, NEW p \in Processes, MakerAt(p), run[p].op = "create",
         run[p].at \in {"seed", "lookup"} \cup Updates
  PROVE  /\ GoesOn(run[p], Unseeded(p))
         /\ AllWritten(run[p], Unseeded(p), db, past)
<1> DEFINE q == run[p]
           t == To(p, "schedule")
           n == Unseeded(p)
<1>1. /\ q \in AnyProcess /\ q # Idle /\ q.op = "create" /\ KindOK(p, q) /\ WorkOK(q, db, s3, past)
  BY DEF MakerAt, Inv, Life
<1>2. "schedule" \in StepsOf[q.op]
  BY <1>1, Steps
<1>3. /\ KindOK(p, t) /\ t # Idle /\ t \in AnyProcess
      /\ t.at = "schedule" /\ t.op = q.op /\ t.v = q.v /\ t.vis = q.vis /\ t.col = q.col
  BY <1>1, <1>2, Moving DEF To
<1> HIDE DEF t
<1>4. t \in Process("create")
  BY <1>1, <1>3, Fields
<1>5. n = [t EXCEPT !.given = FALSE]
  BY DEF Unseeded, t
<1>6. n.op = "create" /\ n.at = "schedule" /\ n.v = q.v /\ n.vis = q.vis
  BY <1>3, <1>4, <1>5 DEF Process
<1> HIDE DEF n
<1>7. n # Idle
  BY <1>6, IdleFields
<1>8. \A x \in Tables : Written(n, x) => Written(q, x)
  BY <1>6, TableNames DEF Written, Updates
<1>9. AllWritten(q, n, db, past)
  BY <1>1, <1>8 DEF AllWritten, WorkOK
<1> QED
  BY <1>1, <1>6, <1>7, <1>9 DEF GoesOn, n

LEMMA SeedLife == ASSUME Inv, Inv', Life, NEW p \in Processes, Seed(p) PROVE Life'
<1> DEFINE q == run[p]
           o == s3 \cup {<<q.v, "thumbnail_url">>}
           n == To(p, "lookup")
<1>1. At(p, "seed") /\ "seed" \in CreateSteps /\ "lookup" \in CreateSteps
      /\ Writes(p, db, o, n, Unseeded(p))
  BY DEF Seed, CreateSteps
<1>2. /\ MakerAt(p) /\ q # Idle /\ q.op = "create" /\ q.v \in Videos /\ q.at = "seed"
      /\ "late" \notin past[q.v] => \A t \in Tables : Written(q, t) => db[t][q.v] # NoRow
      /\ q.col = "thumbnail_url"
  BY <1>1, CreatingLife
<1>3. /\ n # Idle /\ n.op = "create" /\ n.v = q.v /\ n.at = "lookup" /\ GoesOn(q, n)
      /\ n.given = q.given /\ n.vis = q.vis /\ n.col = q.col
  BY <1>1, CreateGoes
<1>4. Elsewhere(q.v, db, s3, past, db, o, past)
  BY DEF Elsewhere
<1>5. RowsMade(p, db) /\ FileMade(p, o)
  BY RowsAlike DEF FileMade
<1>6. GoesOn(q, Unseeded(p)) /\ AllWritten(q, Unseeded(p), db, past)
  BY <1>2, UnseededGoes
<1> HIDE DEF o, n
<1>7. \A t \in Tables : Written(n, t) <=> Written(q, t)
  BY <1>2, <1>3, TableNames DEF Written
<1>8. \A t \in Tables : RowBefore(n, t) = RowBefore(q, t)
  BY <1>2, <1>3, <1>7 DEF RowBefore, UrlsBefore, UpdatedBefore
<1>9. InProgress(q, db) => n.given
  BY <1>2, <1>3 DEF InProgress
<1>10. AllWritten(q, n, db, past) /\ (InProgress(q, db) => Progress(q, n, db, past))
  BY <1>2, <1>3, <1>7, <1>8, <1>9, SameRows DEF Updates
<1> HIDE DEF q
<1> QED
  BY <1>1, <1>2, <1>3, <1>4, <1>5, <1>6, <1>10, MakerWrites DEF q

(* The row it has just inserted is there, unless a delete came.            *)
LEMMA LookupLife == ASSUME Inv, Inv', Life, NEW p \in Processes, Lookup(p) PROVE Life'
<1> DEFINE q == run[p]
           v == q.v
           row == db["video_by_id"][v]
           t == To(p, "setUser")
           found == [t EXCEPT !.dated = TRUE, !.vis = row.vis]
           n == IF row = NoRow THEN To(p, "schedule")
                ELSE IF ~ row.made THEN Unseeded(p) ELSE found
<1>1. At(p, "lookup") /\ "lookup" \in CreateSteps /\ "schedule" \in CreateSteps
      /\ "setUser" \in Updates /\ Writes(p, db, s3, n, Unseeded(p))
  BY DEF Lookup, CreateSteps, Updates
<1>2. /\ MakerAt(p) /\ q # Idle /\ q.op = "create" /\ v \in Videos /\ q.at = "lookup"
      /\ q \in AnyProcess /\ KindOK(p, q)
      /\ q.vis \in past[v] /\ q.vis \in Visibilities /\ q.col = "thumbnail_url"
      /\ "late" \notin past[v] => \A x \in Tables : Written(q, x) => db[x][v] # NoRow
  BY <1>1, CreatingLife
<1>3. GoesOn(q, Unseeded(p)) /\ AllWritten(q, Unseeded(p), db, past)
  BY <1>2, UnseededGoes
<1>4. Written(q, "video_by_id")
  BY <1>2 DEF Written
<1>5. "late" \notin past[v] => row # NoRow /\ row.made /\ row.vis = q.vis
  <2> SUFFICES ASSUME "late" \notin past[v] PROVE row # NoRow /\ row.made /\ row.vis = q.vis
    OBVIOUS
  <2>1. row # NoRow
    BY <1>2, <1>4, TableNames
  <2>2. row.made
    BY <1>2, <2>1, TableNames DEF Life, VideoOK
  <2>3. row \in Row /\ row.vis \in past[v] /\ row.vis \in Visibilities \cup {"null"}
    BY <1>2, <2>1, <2>2, TableNames DEF Inv, DbOK, RowOK, Row
  <2>4. "null" \notin past[v] /\ \A a, b \in past[v] \cap Visibilities : a = b
    BY <1>2 DEF Inv, PastOK, OneVisibility, Events, Visibilities
  <2> QED
    BY <1>2, <2>1, <2>2, <2>3, <2>4
<1>6. InProgress(q, db) => row # NoRow /\ row.made /\ row.vis = q.vis /\ q.given
  <2> SUFFICES ASSUME InProgress(q, db)
               PROVE row # NoRow /\ row.made /\ row.vis = q.vis /\ q.given
    OBVIOUS
  <2>1. row = RowBefore(q, "video_by_id") /\ q.given
    BY <1>2, TableNames DEF InProgress
  <2>2. row = [made |-> TRUE, vis |-> q.vis, urls |-> {}]
    BY <1>2, <1>4, <2>1 DEF RowBefore, UrlsBefore, UpdatedBefore
  <2>3. row \in Row
    BY <1>2, <2>2 DEF Row
  <2> QED
    BY <2>1, <2>2, <2>3, NullAssumption
<1>7. GoesOn(q, n) /\ AllWritten(q, n, db, past) /\ (InProgress(q, db) => Progress(q, n, db, past))
  <2>1. CASE row = NoRow
    <3>1. GoesOn(q, To(p, "schedule"))
      BY <1>1, CreateGoes
    <3> QED
      BY <1>5, <1>6, <2>1, <3>1 DEF AllWritten
  <2>2. CASE row # NoRow /\ ~ row.made
    BY <1>3, <1>6, <2>2
  <2>3. CASE row # NoRow /\ row.made
    <3>1. "setUser" \in StepsOf[q.op]
      BY <1>2, Steps
    <3>2. /\ t # Idle /\ t \in AnyProcess
          /\ t.at = "setUser" /\ t.op = q.op /\ t.v = q.v /\ t.col = q.col /\ t.given = q.given
      BY <1>2, <3>1, Moving DEF To
    <3> HIDE DEF t, row
    <3>3. t \in Process("create")
      BY <1>2, <3>2, Fields
    <3>4. /\ found.at = "setUser" /\ found.v = q.v /\ found.op = q.op /\ found.dated
          /\ found.vis = row.vis /\ found.col = q.col /\ found.given = q.given
      BY <3>2, <3>3 DEF Process
    <3> HIDE DEF found
    <3>5. n = found /\ found # Idle /\ GoesOn(q, found)
      BY <1>2, <2>3, <3>4, IdleFields DEF GoesOn
    <3> HIDE DEF n
    <3>6. row.vis = q.vis => \A x \in Tables : Written(found, x) => Written(q, x)
      BY <1>2, <3>4, TableNames DEF Written
    <3>7. AllWritten(q, found, db, past)
      BY <1>2, <1>5, <3>6 DEF AllWritten
    <3>8. ASSUME InProgress(q, db) PROVE InProgress(found, db)
      <4>1. row.vis = q.vis /\ q.given
        BY <1>6, <3>8
      <4>2. \A x \in Tables : Written(found, x) <=> Written(q, x)
        BY <1>2, <3>4, <4>1, TableNames DEF Written
      <4>3. \A x \in Tables : RowBefore(found, x) = RowBefore(q, x)
        BY <1>2, <3>4, <4>1, <4>2 DEF RowBefore, UrlsBefore, UpdatedBefore
      <4> QED
        BY <1>2, <3>4, <3>8, <4>1, <4>3 DEF InProgress
    <3> QED
      BY <3>5, <3>7, <3>8 DEF Progress
  <2> QED
    BY <2>1, <2>2, <2>3
<1>8. RowsMade(p, db) /\ FileMade(p, s3) /\ Elsewhere(v, db, s3, past, db, s3, past)
  BY RowsAlike DEF Elsewhere
<1> HIDE DEF n
<1> QED
  BY <1>1, <1>2, <1>3, <1>7, <1>8, MakerWrites

-------------------------------------------------------------------------------
(* The life of a video through its task.                                   *)

LEMMA DerivingLife ==
  ASSUME Inv, Life, NEW p \in Processes, NEW s \in {"created", "image"}, At(p, s)
  PROVE  LET q == run[p] IN
         /\ MakerAt(p) /\ q # Idle /\ q \in Process("derive") /\ q.op = "derive" /\ q.v \in Videos
         /\ q.at = s /\ p \in Videos /\ q.v = p /\ q.col \in Columns /\ KindOK(p, q)
         /\ q.vis \in past[q.v] /\ q \in AnyProcess
         /\ "late" \notin past[q.v] => \A t \in Tables : Written(q, t) => db[t][q.v] # NoRow
<1>1. LET q == run[p] IN
         /\ q \in AnyProcess /\ q # Idle /\ q \in Process("derive") /\ q.op = "derive"
         /\ q.at = s /\ p \in Videos /\ q.v = p /\ q.vis \in past[q.v]
         /\ q.col \in Columns /\ KindOK(p, q)
  BY Deriving
<1>2. WorkOK(run[p], db, s3, past)
  BY DEF Life
<1> QED
  BY <1>1, <1>2 DEF WorkOK, MakerAt, Makers

LEMMA ReadCreatedLife == ASSUME Inv, Inv', Life, NEW p \in Processes, ReadCreated(p) PROVE Life'
<1> DEFINE q == run[p]
           row == db["video_by_id"][q.v]
           dated == row # NoRow /\ row.made
           col == IF q.given THEN "storyboard_url" ELSE q.col
           c == [To(p, "image") EXCEPT !.col = IF run[p].given THEN "storyboard_url" ELSE @]
           n == [c EXCEPT !.dated = dated]
<1>1. At(p, "created") /\ Writes(p, db, s3, n, c)
  BY DEF ReadCreated
<1>2. /\ MakerAt(p) /\ q # Idle /\ q \in Process("derive") /\ q.op = "derive" /\ q.v \in Videos
      /\ q.at = "created" /\ p \in Videos /\ q.v = p
      /\ "late" \notin past[q.v] => \A t \in Tables : Written(q, t) => db[t][q.v] # NoRow
  BY <1>1, DerivingLife
<1>3. InProgress(q, db) => dated
  <2> SUFFICES ASSUME InProgress(q, db) PROVE dated
    OBVIOUS
  <2>1. row = RowBefore(q, "video_by_id") /\ Written(q, "video_by_id")
    BY <1>2, TableNames DEF InProgress, Written
  <2>2. row = [made |-> TRUE, vis |-> q.vis,
               urls |-> UrlsBefore(q) \cup IF UpdatedBefore(q, "video_by_id") THEN {q.col} ELSE {}]
    BY <2>1 DEF RowBefore
  <2>3. q.vis \in Visibilities \cup {"null"} /\ q.col \in Columns
    BY <1>2 DEF Process
  <2>4. UrlsBefore(q) \subseteq Columns
    BY <2>3 DEF UrlsBefore, Columns
  <2> HIDE DEF row
  <2>5. row \in Row /\ row.made
    BY <2>2, <2>3, <2>4 DEF Row
  <2> QED
    BY <2>5, NullAssumption
<1> HIDE DEF dated
<1>4. /\ c \in Process("derive") /\ c.v = q.v /\ c.vis = q.vis /\ c.at = "image" /\ c.col = col
  BY <1>2, Steps DEF To, Process, Columns
<1> HIDE DEF c
<1>5. /\ n.v = q.v /\ n.vis = q.vis /\ n.at = "image" /\ n.op = "derive"
      /\ n.dated = dated /\ n.col = col
  BY <1>4 DEF Process
<1>6. c.op = "derive"
  BY <1>4 DEF Process
<1> HIDE DEF n
<1>7. n # Idle /\ c # Idle /\ GoesOn(q, n) /\ GoesOn(q, c)
  BY <1>2, <1>4, <1>5, <1>6, IdleFields DEF GoesOn
<1>8. \A t \in Tables : /\ Written(n, t) <=> Written(q, t)
                        /\ Written(c, t) <=> Written(q, t)
  BY <1>2, <1>4, <1>5, TableNames DEF Written
<1>9. ASSUME InProgress(q, db), NEW t \in Tables PROVE RowBefore(n, t) = RowBefore(q, t)
  <2>1. q.col = "thumbnail_url"
    BY <1>2, <1>9 DEF InProgress
  <2>2. UrlsBefore(n) = UrlsBefore(q)
    BY <1>2, <1>5, <2>1 DEF UrlsBefore
  <2> QED
    BY <1>2, <1>5, <1>8, <2>2 DEF RowBefore, UpdatedBefore
<1> HIDE DEF col
<1>10. AllWritten(q, n, db, past) /\ (InProgress(q, db) => Progress(q, n, db, past))
  BY <1>2, <1>3, <1>5, <1>7, <1>8, <1>9, SameRows DEF Updates
<1>11. AllWritten(q, c, db, past)
  BY <1>2, <1>8 DEF AllWritten
<1>12. RowsMade(p, db) /\ FileMade(p, s3) /\ Elsewhere(q.v, db, s3, past, db, s3, past)
  BY RowsAlike DEF Elsewhere
<1> HIDE DEF q
<1> QED
  BY <1>1, <1>2, <1>7, <1>10, <1>11, <1>12, MakerWrites DEF q

LEMMA NextImageGoes ==
  ASSUME NEW p, run[p] \in Process("derive"), run[p].at \in {"image"} \cup Updates
  PROVE  LET q == run[p]
             n == NextImage(p) IN
         /\ GoesOn(q, n)
         /\ n # Idle => /\ n.op = "derive" /\ n.v = q.v /\ n.vis = q.vis /\ n.at = "image"
                        /\ n.dated = q.dated
                        /\ q.col = "thumbnail_url" /\ n.col = "storyboard_url"
                        /\ \A t \in Tables : Written(q, t) <=> Written(n, t)
         /\ n = Idle => q.col = "storyboard_url"
<1> DEFINE q == run[p]
           m == [To(p, "image") EXCEPT !.col = "storyboard_url"]
<1>1. /\ m.op = "derive" /\ m.v = q.v /\ m.vis = q.vis /\ m.at = "image" /\ m.dated = q.dated
      /\ m.col = "storyboard_url" /\ q.op = "derive" /\ q.col \in Columns
  BY DEF To, Process
<1>2. NextImage(p) = IF q.col = "thumbnail_url" THEN m ELSE Idle
  BY DEF NextImage
<1> HIDE DEF m
<1>3. m # Idle
  BY <1>1, IdleFields
<1>4. \A t \in Tables : Written(q, t) <=> Written(m, t)
  BY <1>1, TableNames DEF Written, Updates
<1> HIDE DEF q
<1>5. GoesOn(q, m) /\ GoesOn(q, Idle)
  BY <1>1, <1>3 DEF GoesOn
<1> QED
  BY <1>1, <1>2, <1>3, <1>4, <1>5 DEF q, Columns

LEMMA StoreImageLife == ASSUME Inv, Inv', Life, NEW p \in Processes, StoreImage(p) PROVE Life'
<1> DEFINE q == run[p]
           o == s3 \cup {<<q.v, q.col>>}
           n == To(p, "setUser")
           c == NextImage(p)
<1>1. /\ At(p, "image")
      /\ \/ Writes(p, db, o, n, c)
         \/ run' = [run EXCEPT ![p] = c] /\ past' = Noted(q.v, {"fault"}) /\ UNCHANGED <<db, s3>>
  BY DEF StoreImage
<1>2. /\ MakerAt(p) /\ q # Idle /\ q \in Process("derive") /\ q.op = "derive" /\ q.v \in Videos
      /\ q.at = "image" /\ q.col \in Columns /\ KindOK(p, q) /\ q \in AnyProcess
      /\ "late" \notin past[q.v] => \A t \in Tables : Written(q, t) => db[t][q.v] # NoRow
  BY <1>1, DerivingLife
<1>3. /\ GoesOn(q, c)
      /\ c # Idle => \A t \in Tables : Written(q, t) <=> Written(c, t)
  BY <1>2, NextImageGoes
<1>4. AllWritten(q, c, db, past)
  BY <1>2, <1>3 DEF AllWritten
<1>5. CASE Writes(p, db, o, n, c)
  <2>1. "setUser" \in StepsOf[q.op]
    BY <1>2, Steps
  <2>2. n # Idle /\ n.at = "setUser" /\ n.op = q.op /\ n.v = q.v /\ n.vis = q.vis /\ n.col = q.col
        /\ n.dated = q.dated
    BY <1>2, <2>1, Moving DEF To
  <2>3. GoesOn(q, n)
    BY <2>2 DEF GoesOn
  <2>4. Elsewhere(q.v, db, s3, past, db, o, past)
    BY <1>2 DEF Elsewhere
  <2>5. RowsMade(p, db)
    BY RowsAlike
  <2>6. FileMade(p, o)
    BY <1>2 DEF FileMade, Columns
  <2> HIDE DEF n, o, c
  <2>7. \A t \in Tables : Written(n, t) <=> Written(q, t)
    BY <1>2, <2>2, TableNames DEF Written
  <2>8. \A t \in Tables : RowBefore(n, t) = RowBefore(q, t)
    BY <1>2, <2>2, <2>7 DEF RowBefore, UrlsBefore, UpdatedBefore
  <2>9. InProgress(q, db) => n.dated
    BY <1>2, <2>2 DEF InProgress
  <2>10. AllWritten(q, n, db, past) /\ (InProgress(q, db) => Progress(q, n, db, past))
    BY <1>2, <2>2, <2>7, <2>8, <2>9, SameRows
  <2> HIDE DEF q
  <2> QED
    BY <1>2, <1>3, <1>4, <1>5, <2>3, <2>4, <2>5, <2>6, <2>10, MakerWrites DEF q
<1>6. CASE run' = [run EXCEPT ![p] = c] /\ past' = Noted(q.v, {"fault"}) /\ UNCHANGED <<db, s3>>
  <2>1. {"fault"} \in SUBSET Events
    BY DEF Events
  <2>2. past'[q.v] = past[q.v] \cup {"fault"} /\ \A w \in Videos \ {q.v} : past'[w] = past[w]
    BY <1>2, <1>6, <2>1, FaultElsewhere
  <2>3. ~ Clean(past'[q.v])
    BY <2>2 DEF Clean
  <2>4. Elsewhere(q.v, db, s3, past, db', s3', past')
    BY <1>6, <2>2 DEF Elsewhere
  <2>5. RowsMade(p, db') /\ FileMade(p, s3') /\ AllWritten(q, c, db', past)
    BY <1>4, <1>6, RowsAlike
  <2> HIDE DEF c
  <2> QED
    BY <1>2, <1>3, <1>6, <2>2, <2>3, <2>4, <2>5, MakerStep
<1> QED
  BY <1>1, <1>5, <1>6

(* One UPDATE of an upload or a task: the row is there unless a delete     *)
(* came.                                                                   *)
TableOf(s) ==
    IF s = "setUser" THEN "videos" ELSE IF s = "setById" THEN "video_by_id" ELSE "videos_by_day"

RowAfter(q, x) ==
    IF Written(q, x)
      THEN [made |-> TRUE, vis |-> q.vis,
            urls |-> UrlsBefore(q) \cup
                       IF UpdatedBefore(q, x) \/ x = TableOf(q.at) THEN {q.col} ELSE {}]
      ELSE NoRow

LEMMA UpdatingLife ==
  ASSUME Inv, Life, NEW p \in Processes, NEW s \in Updates, At(p, s)
  PROVE  LET q == run[p] IN
         /\ MakerAt(p) /\ q # Idle /\ q.op \in Makers /\ q.v \in Videos /\ q \in Process(q.op)
         /\ q.at = s /\ q.col \in Columns /\ KindOK(p, q) /\ q \in AnyProcess
         /\ q.vis \in past[q.v] /\ q.vis \in Visibilities
         /\ q.op = "create" => q.col = "thumbnail_url"
         /\ Written(q, TableOf(s)) /\ TableOf(s) \in Tables
         /\ "late" \notin past[q.v] => \A t \in Tables : Written(q, t) => db[t][q.v] # NoRow
<1> DEFINE q == run[p]
<1>1. /\ q \in AnyProcess /\ q # Idle /\ q.op \in {"create", "derive"} /\ q \in Process(q.op)
      /\ q.at = s /\ q.v \in Videos /\ q.col \in Columns
      /\ q.vis \in past[q.v] /\ KindOK(p, q) /\ ProcOK(q, s3, past)
      /\ q.op = "create" => q.col = "thumbnail_url"
  BY Updating
<1>2. WorkOK(q, db, s3, past)
  BY DEF Life
<1>3. q.vis \in Visibilities
  <2>1. q.vis \in Visibilities \cup {"null"}
    BY <1>1 DEF Process
  <2>2. "null" \notin past[q.v]
    BY <1>1 DEF Inv, PastOK, Events, Visibilities
  <2> QED
    BY <1>1, <2>1, <2>2
<1>4. s = "setByDay" => q.vis = "public"
  BY <1>1 DEF ProcOK
<1>5. Written(q, TableOf(s)) /\ TableOf(s) \in Tables
  BY <1>1, <1>4, TableNames DEF Written, TableOf, Updates
<1> QED
  BY <1>1, <1>2, <1>3, <1>5 DEF WorkOK, MakerAt, Makers

LEMMA UpdateLife ==
  ASSUME Inv, Inv', Life, NEW p \in Processes, NEW s \in Updates, At(p, s), NEW next,
         Update(p, TableOf(s), next), GoesOn(run[p], next),
         next # Idle => \A x \in Tables : Written(next, x) => Written(run[p], x),
         InProgress(run[p], db) =>
           IF next = Idle
             THEN run[p].op = "derive" => \A x \in Tables : Written(run[p], x) =>
                    RowAfter(run[p], x) = [made |-> TRUE, vis |-> run[p].vis, urls |-> Columns]
             ELSE /\ \A x \in Tables : RowBefore(next, x) = RowAfter(run[p], x)
                  /\ next.at \in Updates \cup {"image"} => next.dated
                  /\ next.op = "create" /\ next.at \in Updates \cup {"seed", "lookup"} => next.given
                  /\ next.at # "created"
  PROVE  Life'
<1> DEFINE q == run[p]
           v == q.v
           t == TableOf(s)
           old == db[t][v]
           row == Updated(old, q.col)
           c == IF q.op = "create" THEN Unseeded(p) ELSE next
           d == [db EXCEPT ![t][v] = row]
<1>1. /\ MakerAt(p) /\ q # Idle /\ q.op \in Makers /\ v \in Videos
      /\ q.at = s /\ q.col \in Columns /\ q.vis \in past[v] /\ q.vis \in Visibilities
      /\ Written(q, t) /\ t \in Tables
      /\ "late" \notin past[v] => \A x \in Tables : Written(q, x) => db[x][v] # NoRow
  BY UpdatingLife
<1>2. old \in Row \cup {NoRow}
  BY <1>1 DEF Inv, DbOK
<1>3. WritesRow(p, t, row, next, c)
  BY <1>1 DEF Update
<1> HIDE DEF t
<1>4. /\ row \in Row
      /\ old = NoRow => ~ row.made
      /\ old # NoRow => row.made = old.made /\ row.vis = old.vis /\ row.urls = old.urls \cup {q.col}
  <2> HIDE DEF old
  <2>1. CASE old = NoRow
    BY <1>1, <2>1 DEF Updated, Row
  <2>2. CASE old # NoRow
    BY <1>1, <1>2, <2>2 DEF Updated, Row
  <2> QED
    BY <2>1, <2>2
<1> HIDE DEF row
<1>5. "late" \notin past[v] => row.made
  BY <1>1, <1>4 DEF Life, VideoOK
<1>6. \A x \in Tables, w \in Videos : d[x][w] = IF x = t /\ w = v THEN row ELSE db[x][w]
  <2>1. db \in [Tables -> [Videos -> Row \cup {NoRow}]]
    BY DEF Inv, DbOK
  <2> QED
    BY <1>1, <2>1
<1> HIDE DEF d
<1>7. AllWritten(q, next, d, past)
  BY <1>1, <1>4, <1>6, NullAssumption DEF AllWritten
<1>8. AllWritten(q, c, db, past) /\ GoesOn(q, c)
  <2>1. CASE q.op = "create"
    BY <1>1, <2>1, UnseededGoes
  <2>2. CASE q.op # "create"
    BY <1>1, <2>2 DEF AllWritten
  <2> QED
    BY <2>1, <2>2
<1>9. ASSUME InProgress(q, db) PROVE Progress(q, next, d, past)
  <2>1. \A x \in Tables : db[x][v] = RowBefore(q, x)
    BY <1>9 DEF InProgress
  <2>2. row = RowAfter(q, t)
    <3>1. old = [made |-> TRUE, vis |-> q.vis,
                 urls |-> UrlsBefore(q) \cup IF UpdatedBefore(q, t) THEN {q.col} ELSE {}]
      BY <1>1, <2>1 DEF RowBefore
    <3> HIDE DEF old
    <3>2. UrlsBefore(q) \subseteq Columns
      BY <1>1 DEF UrlsBefore, Columns
    <3>3. old \in Row
      BY <1>1, <3>1, <3>2 DEF Row
    <3>4. old # NoRow /\ old.made /\ old.vis = q.vis
          /\ old.urls = UrlsBefore(q) \cup IF UpdatedBefore(q, t) THEN {q.col} ELSE {}
      BY <3>1, <3>3, NullAssumption
    <3>5. row.made = TRUE /\ row.vis = q.vis /\ row.urls = UrlsBefore(q) \cup {q.col}
      BY <1>4, <3>1, <3>4
    <3>6. row = [made |-> TRUE, vis |-> q.vis, urls |-> UrlsBefore(q) \cup {q.col}]
      BY <1>4, <3>5 DEF Row
    <3> QED
      BY <1>1, <3>6 DEF RowAfter, t
  <2>3. \A x \in Tables : d[x][v] = RowAfter(q, x)
    <3> SUFFICES ASSUME NEW x \in Tables PROVE d[x][v] = RowAfter(q, x)
      OBVIOUS
    <3>1. x = t => d[x][v] = RowAfter(q, x)
      BY <1>1, <1>6, <2>2
    <3>2. x # t => RowAfter(q, x) = RowBefore(q, x)
      BY <1>1 DEF RowAfter, RowBefore, t
    <3> QED
      BY <1>1, <1>6, <2>1, <3>1, <3>2
  <2>4. CASE next = Idle
    <3> SUFFICES ASSUME q.op = "derive" PROVE Finished(v, d, past)
      BY <2>4 DEF Progress
    <3>1. \A x \in Tables : Written(q, x) => d[x][v] = [made |-> TRUE, vis |-> q.vis, urls |-> Columns]
      BY <1>9, <2>3, <2>4
    <3>2. \A x \in Tables : ~ Written(q, x) => d[x][v] = NoRow
      BY <2>3 DEF RowAfter
    <3>3. \A x \in Tables : Written(q, x) <=> ~ (x = "videos_by_day" /\ q.vis # "public")
      BY <1>1, TableNames DEF Written, Updates
    <3>4. q.vis \in past[v] \cap Visibilities
      BY <1>1
    <3> QED
      BY <3>1, <3>2, <3>3, <3>4 DEF Finished
  <2>5. CASE next # Idle
    <3>1. next.v = v
      BY <2>5 DEF GoesOn
    <3>2. InProgress(next, d)
      BY <1>9, <2>3, <2>5, <3>1 DEF InProgress
    <3> QED
      BY <2>5, <3>2 DEF Progress
  <2> QED
    BY <2>4, <2>5
<1>10. /\ AllWritten(run[p], next, [db EXCEPT ![t][run[p].v] = row], past)
       /\ InProgress(run[p], db) => Progress(run[p], next, [db EXCEPT ![t][run[p].v] = row], past)
  BY <1>7, <1>9 DEF d
<1>11. run[p].op = "derive" /\ row.made => db[t][run[p].v] # NoRow /\ db[t][run[p].v].made
  BY <1>4
<1> HIDE DEF c
<1> QED
  BY <1>1, <1>3, <1>4, <1>5, <1>8, <1>10, <1>11, MakerWritesRow

(* To the next table of the same image.                                    *)
LEMMA NextTable ==
  ASSUME Inv, Inv', Life, NEW p \in Processes, NEW s \in Updates, At(p, s),
         NEW at \in {"setById", "setByDay"}, s = (IF at = "setById" THEN "setUser" ELSE "setById"),
         Update(p, TableOf(s), To(p, at)), at = "setByDay" => run[p].vis = "public"
  PROVE  Life'
<1> DEFINE q == run[p]
           n == To(p, at)
<1>1. /\ q # Idle /\ q.op \in Makers /\ q \in AnyProcess /\ KindOK(p, q) /\ q.at = s
  BY UpdatingLife
<1>2. at \in StepsOf[q.op]
  BY <1>1, Steps DEF Makers
<1>3. /\ n # Idle /\ n.at = at /\ n.op = q.op /\ n.v = q.v /\ n.vis = q.vis /\ n.col = q.col
      /\ n.given = q.given /\ n.dated = q.dated
  BY <1>1, <1>2, Moving DEF To
<1> HIDE DEF n
<1>4. GoesOn(q, n)
  BY <1>3 DEF GoesOn
<1>5. \A x \in Tables : Written(n, x) <=> Written(q, x)
  BY <1>1, <1>3, TableNames DEF Written
<1>6. UrlsBefore(n) = UrlsBefore(q)
  BY <1>1, <1>3 DEF UrlsBefore, Updates
<1>7. \A x \in Tables : UpdatedBefore(n, x) <=> UpdatedBefore(q, x) \/ x = TableOf(s)
  BY <1>1, <1>3, TableNames DEF UpdatedBefore, TableOf
<1>8. \A x \in Tables : RowBefore(n, x) = RowAfter(q, x)
  BY <1>1, <1>3, <1>5, <1>6, <1>7 DEF RowBefore, RowAfter
<1>9. InProgress(q, db) =>
           /\ n.at \in Updates \cup {"image"} => n.dated
           /\ n.op = "create" /\ n.at \in Updates \cup {"seed", "lookup"} => n.given
           /\ n.at # "created"
  BY <1>1, <1>3 DEF InProgress
<1>10. Update(p, TableOf(s), n)
  BY DEF n
<1> HIDE DEF q
<1> QED
  BY <1>3, <1>4, <1>5, <1>8, <1>9, <1>10, UpdateLife DEF q

(* After the last table of an image.                                       *)
LEMMA LastTable ==
  ASSUME Inv, Inv', Life, NEW p \in Processes, NEW s \in {"setById", "setByDay"}, At(p, s),
         Update(p, TableOf(s), UpdatesEnd(p)),
         s = "setById" => ~ HasDayRow(p)
  PROVE  Life'
<1> DEFINE q == run[p]
           n == UpdatesEnd(p)
           end == [made |-> TRUE, vis |-> q.vis, urls |-> UrlsBefore(q) \cup {q.col}]
<1>0. s \in Updates
  BY DEF Updates
<1>1. /\ q # Idle /\ q.op \in Makers /\ q \in AnyProcess /\ q \in Process(q.op) /\ KindOK(p, q)
      /\ q.at = s /\ q.col \in Columns /\ q.vis \in Visibilities
      /\ q.op = "create" => q.col = "thumbnail_url"
  BY <1>0, UpdatingLife
<1>2. ASSUME InProgress(q, db), NEW x \in Tables
      PROVE  RowAfter(q, x) = IF Written(q, x) THEN end ELSE NoRow
  <2>1. q.dated
    BY <1>0, <1>1, <1>2 DEF InProgress
  <2>2. s = "setById" => q.vis # "public"
    BY <2>1 DEF HasDayRow
  <2>3. Written(q, x) => UpdatedBefore(q, x) \/ x = TableOf(s)
    BY <1>1, <2>2, TableNames DEF Written, UpdatedBefore, TableOf
  <2> QED
    BY <1>1, <2>3 DEF RowAfter
<1>3. CASE q.op = "create"
  <2> DEFINE m == To(p, "schedule")
  <2>1. "schedule" \in StepsOf[q.op]
    BY <1>3, Steps
  <2>2. /\ m # Idle /\ m.at = "schedule" /\ m.op = q.op /\ m.v = q.v /\ m.vis = q.vis
        /\ m.col = q.col /\ m.given = q.given
    BY <1>1, <2>1, Moving DEF To
  <2>3. n = m
    BY <1>3 DEF UpdatesEnd
  <2> HIDE DEF m, n, end
  <2>4. GoesOn(q, n)
    BY <2>2, <2>3 DEF GoesOn
  <2>5. \A x \in Tables : Written(n, x) <=> Written(q, x)
    BY <1>1, <2>2, <2>3, TableNames DEF Written
  <2>6. ASSUME InProgress(q, db), NEW x \in Tables PROVE RowBefore(n, x) = RowAfter(q, x)
    <3>1. q.given /\ q.col = "thumbnail_url"
      BY <1>0, <1>1, <1>3, <2>6 DEF InProgress
    <3>2. UrlsBefore(q) = {} /\ UrlsBefore(n) = {"thumbnail_url"}
      BY <1>1, <2>2, <2>3, <3>1 DEF UrlsBefore
    <3>3. ~ UpdatedBefore(n, x)
      BY <2>2, <2>3 DEF UpdatedBefore
    <3>4. RowBefore(n, x) = IF Written(q, x)
                            THEN [made |-> TRUE, vis |-> q.vis, urls |-> {"thumbnail_url"}]
                            ELSE NoRow
      BY <2>2, <2>3, <2>5, <3>2, <3>3 DEF RowBefore
    <3>5. end = [made |-> TRUE, vis |-> q.vis, urls |-> {"thumbnail_url"}]
      BY <3>1, <3>2 DEF end
    <3> QED
      BY <1>2, <2>6, <3>4, <3>5
  <2>7. n # Idle /\ n.at \notin Updates \cup {"image", "seed", "lookup", "created"}
    BY <2>2, <2>3 DEF Updates
  <2>8. Update(p, TableOf(s), n)
    BY DEF n
  <2> HIDE DEF q
  <2> QED
    BY <1>0, <2>4, <2>5, <2>6, <2>7, <2>8, UpdateLife DEF q
<1>4. CASE q.op = "derive"
  <2>1. n = NextImage(p)
    BY <1>4 DEF UpdatesEnd
  <2>2. /\ GoesOn(q, n)
        /\ n # Idle => /\ n.op = "derive" /\ n.v = q.v /\ n.vis = q.vis /\ n.at = "image"
                       /\ n.dated = q.dated
                       /\ q.col = "thumbnail_url" /\ n.col = "storyboard_url"
                       /\ \A t \in Tables : Written(q, t) <=> Written(n, t)
        /\ n = Idle => q.col = "storyboard_url"
    BY <1>0, <1>1, <1>4, <2>1, NextImageGoes
  <2> HIDE DEF n, end
  <2>3. ASSUME InProgress(q, db), n # Idle, NEW x \in Tables PROVE RowBefore(n, x) = RowAfter(q, x)
    <3>1. UrlsBefore(q) = {} /\ UrlsBefore(n) = {"thumbnail_url"}
      BY <1>1, <2>2, <2>3 DEF UrlsBefore
    <3>2. ~ UpdatedBefore(n, x)
      BY <2>2, <2>3 DEF UpdatedBefore
    <3>3. RowBefore(n, x) = IF Written(q, x)
                            THEN [made |-> TRUE, vis |-> q.vis, urls |-> {"thumbnail_url"}]
                            ELSE NoRow
      BY <2>2, <2>3, <3>1, <3>2 DEF RowBefore
    <3>4. end = [made |-> TRUE, vis |-> q.vis, urls |-> {"thumbnail_url"}]
      BY <2>2, <2>3, <3>1 DEF end
    <3> QED
      BY <1>2, <2>3, <3>3, <3>4
  <2>4. ASSUME InProgress(q, db), n = Idle, NEW x \in Tables, Written(q, x)
        PROVE  RowAfter(q, x) = [made |-> TRUE, vis |-> q.vis, urls |-> Columns]
    <3>1. UrlsBefore(q) \cup {q.col} = Columns
      BY <1>1, <2>2, <2>4 DEF UrlsBefore, Columns
    <3>2. end = [made |-> TRUE, vis |-> q.vis, urls |-> Columns]
      BY <3>1 DEF end
    <3> QED
      BY <1>2, <2>4, <3>2
  <2>5. InProgress(q, db) /\ n # Idle => n.dated
    BY <1>0, <1>1, <2>2 DEF InProgress
  <2>6. Update(p, TableOf(s), n)
    BY DEF n
  <2>7. n # Idle => n.op # "create" /\ n.at # "created"
    BY <2>2
  <2> HIDE DEF q
  <2> QED
    BY <1>0, <2>2, <2>3, <2>4, <2>5, <2>6, <2>7, UpdateLife DEF q
<1> QED
  BY <1>1, <1>3, <1>4 DEF Makers

LEMMA SetsLife ==
  ASSUME Inv, Inv', Life, NEW p \in Processes, SetUser(p) \/ SetById(p) \/ SetByDay(p)
  PROVE  Life'
<1>0. /\ TableOf("setUser") = "videos" /\ TableOf("setById") = "video_by_id"
      /\ TableOf("setByDay") = "videos_by_day"
      /\ "setUser" \in Updates /\ "setById" \in Updates /\ "setByDay" \in Updates
  BY DEF TableOf, Updates
<1>1. CASE SetUser(p)
  BY <1>0, <1>1, NextTable DEF SetUser
<1>2. CASE SetById(p) /\ HasDayRow(p)
  <2>1. Update(p, TableOf("setById"), To(p, "setByDay")) /\ At(p, "setById") /\ run[p].vis = "public"
    BY <1>0, <1>2 DEF SetById, HasDayRow
  <2> QED
    BY <1>0, <2>1, NextTable
<1>3. CASE SetById(p) /\ ~ HasDayRow(p)
  BY <1>0, <1>3, LastTable DEF SetById
<1>4. CASE SetByDay(p)
  BY <1>0, <1>4, LastTable DEF SetByDay
<1> QED
  BY <1>1, <1>2, <1>3, <1>4

(* The task goes on where the upload ends.                                 *)
LEMMA ScheduleLife == ASSUME Inv, Inv', Life, NEW p \in Processes, Schedule(p) PROVE Life'
<1> DEFINE q == run[p]
           v == q.v
           n == [q EXCEPT !.op = "derive", !.at = "created", !.dated = FALSE]
<1>1. /\ At(p, "schedule") /\ "schedule" \in CreateSteps
      /\ run' = [run EXCEPT ![p] = Idle, ![v] = n]
      /\ past' = Noted(v, {"stored"}) /\ db' = db /\ s3' = s3
  BY DEF Schedule, CreateSteps
<1>2. /\ MakerAt(p) /\ q # Idle /\ q.op = "create" /\ v \in Videos /\ q.at = "schedule"
      /\ q.col = "thumbnail_url" /\ KindOK(p, q) /\ q \in AnyProcess
      /\ "late" \notin past[v] => \A t \in Tables : Written(q, t) => db[t][v] # NoRow
  BY <1>1, CreatingLife
<1>3. q \in Process("create") /\ WorkOK(q, db, s3, past) /\ VideoOK(v, db, s3, past, run[v])
  BY <1>2, Fields DEF Life
<1>4. /\ n.op = "derive" /\ n.at = "created" /\ n.v = v /\ n.vis = q.vis /\ n.col = q.col
      /\ n.given = q.given
  BY <1>3 DEF Process
<1>5. \A r \in Processes : run'[r] = IF r = v THEN n ELSE IF r = p THEN Idle ELSE run[r]
  BY <1>1 DEF Inv
<1>6. v \in Processes /\ p # v
  BY <1>2 DEF Processes, KindOK
<1>7. {"stored"} \in SUBSET Events
  BY DEF Events
<1>8. past'[v] = past[v] \cup {"stored"} /\ \A w \in Videos \ {v} : past'[w] = past[w]
  BY <1>1, <1>2, <1>7, FaultElsewhere
<1>9. Elsewhere(v, db, s3, past, db', s3', past')
  BY <1>1, <1>8 DEF Elsewhere
<1>10. \A r \in Processes : r # p /\ run[r].v = v => run[r].op = "delete"
  BY <1>2, Company
<1> HIDE DEF n
<1>11. n # Idle
  BY <1>4, IdleFields
<1>12. run[v] = Idle
  <2>1. KindOK(v, run[v])
    BY <1>6 DEF Inv
  <2> QED
    BY <1>2, <1>6, <1>10, <2>1 DEF KindOK
<1>13. WorkOK(n, db', s3', past')
  <2>1. "late" \notin past'[v] =>
            "delete" \notin past'[v] /\ \A t \in Tables : Written(n, t) => db'[t][v] # NoRow
    <3>1. \A t \in Tables : Written(n, t) => Written(q, t)
      BY <1>2, <1>4, TableNames DEF Written
    <3> QED
      BY <1>1, <1>2, <1>3, <1>8, <3>1 DEF WorkOK
  <2>2. ASSUME Clean(past'[v]) PROVE InProgress(n, db')
    <3>1. InProgress(q, db)
      BY <1>2, <1>3, <1>8, <2>2 DEF WorkOK, Clean
    <3>2. \A t \in Tables : Written(n, t) <=> Written(q, t)
      BY <1>2, <1>4, TableNames DEF Written
    <3>3. \A t \in Tables : RowBefore(n, t) = RowBefore(q, t)
      BY <1>2, <1>4, <3>2 DEF RowBefore, UrlsBefore, UpdatedBefore
    <3> QED
      BY <1>1, <1>2, <1>4, <3>1, <3>3 DEF InProgress, Updates
  <2> QED
    BY <1>4, <1>8, <2>1, <2>2 DEF WorkOK
<1>14. ASSUME NEW r \in Processes, run'[r].v = v PROVE WorkOK(run'[r], db', s3', past')
  <2>1. CASE r = v
    BY <1>5, <1>13, <2>1
  <2>2. CASE r # v
    <3>1. r # p /\ run'[r] = run[r]
      BY <1>2, <1>5, <1>14, <2>2, IdleVideo
    <3>2. run[r].op = "delete" /\ WorkOK(run[r], db, s3, past)
      BY <1>10, <1>14, <3>1 DEF Life
    <3>3. Dropping(run[r], db, s3, past) => Dropping(run[r], db', s3', past')
      BY <1>1, <1>8, <1>14, <3>1 DEF Dropping, Remnant
    <3> QED
      BY <1>8, <1>14, <3>1, <3>2, <3>3 DEF WorkOK
  <2> QED
    BY <2>1, <2>2
<1>15. VideoOK(v, db', s3', past', run'[v])
  BY <1>1, <1>3, <1>5, <1>6, <1>8, <1>11 DEF VideoOK, Remnant
<1>16. ASSUME NEW p1 \in Processes, NEW p2 \in Processes,
              run'[p1].op = "create", run'[p2].op = "create", run'[p1].v = v, run'[p2].v = v
       PROVE  p1 = p2
  BY <1>4, <1>5, <1>10, <1>16, IdleFields
<1>17. \A r \in Processes : run'[r] # run[r] => /\ run[r] = Idle \/ run[r].v = v
                                                /\ run'[r] = Idle \/ run'[r].v = v
  BY <1>4, <1>5, <1>12
<1> HIDE DEF q, v
<1> QED
  BY <1>2, <1>9, <1>14, <1>15, <1>16, <1>17, LocalStep

-------------------------------------------------------------------------------
(* The life of a video through a delete.                                   *)

LEMMA DeletingLife ==
  ASSUME Inv, Life, NEW p \in Processes, NEW s \in DeleteSteps, At(p, s)
  PROVE  LET q == run[p] IN
         /\ q \in AnyProcess /\ q # Idle /\ q.op = "delete" /\ q.at = s /\ q.v \in Videos
         /\ "delete" \in past[q.v] /\ KindOK(p, q)
         /\ "overlap" \notin past[q.v] => Dropping(q, db, s3, past)
<1>1. LET q == run[p] IN
         /\ q \in AnyProcess /\ q # Idle /\ q.op = "delete" /\ q.at = s /\ q.v \in Videos
         /\ "delete" \in past[q.v] /\ KindOK(p, q)
  BY Deleting
<1>2. WorkOK(run[p], db, s3, past)
  BY DEF Life
<1> QED
  BY <1>1, <1>2 DEF WorkOK

RowsDropped(v, d) == \A t \in Tables : d[t][v] = db[t][v] \/ d[t][v] = NoRow

LEMMA DropStep ==
  ASSUME Inv, Inv', Life, NEW p \in Processes, NEW s \in DeleteSteps, At(p, s), NEW n,
         run' = [run EXCEPT ![p] = n], GoesOn(run[p], n),
         Elsewhere(run[p].v, db, s3, past, db', s3', past'),
         RowsDropped(run[p].v, db'),
         <<run[p].v, "file">> \in s3' => <<run[p].v, "file">> \in s3,
         past'[run[p].v] \in {past[run[p].v], past[run[p].v] \cup {"fault"},
                              past[run[p].v] \cup {"gone"}},
         "overlap" \notin past[run[p].v] /\ n # Idle => Dropping(n, db', s3', past'),
         "overlap" \notin past[run[p].v] /\ past'[run[p].v] = past[run[p].v] \cup {"gone"} =>
             /\ <<run[p].v, "file">> \notin s3'
             /\ \A t \in Tables : Remnant(db'[t][run[p].v], past'[run[p].v])
  PROVE  Life'
<1> DEFINE q == run[p]
           v == q.v
<1>1. /\ q # Idle /\ q.op = "delete" /\ v \in Videos /\ "delete" \in past[v]
  BY DeletingLife
<1>2. VideoOK(v, db, s3, past, run[v])
  BY <1>1 DEF Life
<1>3. \A r \in Processes : run'[r] = IF r = p THEN n ELSE run[r]
  BY DEF Inv
<1>4. /\ past[v] \subseteq past'[v]
      /\ \A e : e \notin {"fault", "gone"} => (e \in past'[v] <=> e \in past[v])
  OBVIOUS
<1>5. ~ Clean(past[v]) /\ ~ Clean(past'[v])
  BY <1>1, <1>4 DEF Clean
<1>6. \A t \in Tables : Remnant(db[t][v], past[v]) => Remnant(db'[t][v], past'[v])
  BY <1>4 DEF RowsDropped, Remnant
<1>7. ASSUME NEW r \in Processes, run'[r].v = v PROVE WorkOK(run'[r], db', s3', past')
  <2>1. CASE r # p
    <3>1. run'[r] = run[r] /\ run[r].v = v /\ WorkOK(run[r], db, s3, past)
      BY <1>3, <1>7, <2>1 DEF Life
    <3>2. Dropping(run[r], db, s3, past) => Dropping(run[r], db', s3', past')
      BY <1>6, <3>1, TableNames DEF Dropping
    <3>3. run[r].op \in {"create", "derive"} => "late" \in past'[v]
      BY <1>1, <1>4, <3>1 DEF WorkOK
    <3> QED
      BY <1>1, <1>4, <1>5, <3>1, <3>2, <3>3 DEF WorkOK
  <2>2. CASE r = p
    <3>1. run'[r] = n
      BY <1>3, <2>2
    <3>2. CASE n = Idle
      BY <3>1, <3>2, IdleWork
    <3>3. CASE n # Idle
      <4>1. n.op = "delete" /\ n.v = v
        BY <1>1, <3>3 DEF GoesOn
      <4> QED
        BY <1>4, <3>1, <3>3, <4>1 DEF WorkOK
    <3> QED
      BY <3>2, <3>3
  <2> QED
    BY <2>1, <2>2
<1>8. ASSUME NEW p1 \in Processes, NEW p2 \in Processes,
             run'[p1].op = "create", run'[p2].op = "create", run'[p1].v = v, run'[p2].v = v
      PROVE  p1 = p2
  <2>1. n.op # "create"
    BY <1>1, IdleFields DEF GoesOn
  <2>2. run[p1].op = "create" /\ run[p2].op = "create" /\ run[p1].v = v /\ run[p2].v = v
    BY <1>3, <1>8, <2>1
  <2> QED
    BY <2>2 DEF Life, OneCreate
<1>9. VideoOK(v, db', s3', past', run'[v])
  <2>1. "late" \notin past'[v] => \A t \in Tables : db'[t][v] # NoRow => db'[t][v].made
    BY <1>2, <1>4 DEF VideoOK, RowsDropped
  <2>2. "delete" \in past'[v]
    BY <1>1, <1>4
  <2>3. ASSUME "gone" \in past'[v], "overlap" \notin past'[v]
        PROVE  <<v, "file">> \notin s3' /\ \A t \in Tables : Remnant(db'[t][v], past'[v])
    <3>1. CASE "gone" \in past[v]
      BY <1>2, <1>4, <1>6, <2>3, <3>1 DEF VideoOK
    <3>2. CASE "gone" \notin past[v]
      <4>1. past'[v] = past[v] \cup {"gone"}
        BY <2>3, <3>2
      <4> QED
        BY <1>4, <2>3, <4>1
    <3> QED
      BY <3>1, <3>2
  <2> QED
    BY <1>5, <2>1, <2>2, <2>3 DEF VideoOK
<1>10. \A r \in Processes : run'[r] # run[r] => /\ run[r] = Idle \/ run[r].v = v
                                                /\ run'[r] = Idle \/ run'[r].v = v
  BY <1>3 DEF GoesOn
<1> HIDE DEF q, v
<1>11. Elsewhere(v, db, s3, past, db', s3', past')
  BY DEF v, q
<1> QED
  BY <1>1, <1>7, <1>8, <1>9, <1>10, <1>11, LocalStep

(* A statement of a delete that is not the last.                           *)
LEMMA DropWrites ==
  ASSUME Inv, Inv', Life, NEW p \in Processes, NEW s \in DeleteSteps, At(p, s), NEW d, NEW o, NEW n,
         Writes(p, d, o, n, Idle), GoesOn(run[p], n), n # Idle,
         Elsewhere(run[p].v, db, s3, past, d, o, past),
         RowsDropped(run[p].v, d),
         <<run[p].v, "file">> \in o => <<run[p].v, "file">> \in s3,
         "overlap" \notin past[run[p].v] => Dropping(n, d, o, past)
  PROVE  Life'
<1> DEFINE v == run[p].v
<1>0. v \in Videos
  BY DeletingLife
<1>1. CASE db' = d /\ s3' = o /\ run' = [run EXCEPT ![p] = n] /\ UNCHANGED past
  <2>1. past'[v] # past[v] \cup {"gone"} \/ "gone" \in past[v]
    BY <1>1
  <2>2. VideoOK(v, db, s3, past, run[v])
    BY <1>0 DEF Life
  <2>3. ASSUME "gone" \in past[v], "overlap" \notin past[v]
        PROVE  <<v, "file">> \notin s3' /\ \A t \in Tables : Remnant(db'[t][v], past'[v])
    <3>1. <<v, "file">> \notin s3 /\ \A t \in Tables : Remnant(db[t][v], past[v])
      BY <2>2, <2>3 DEF VideoOK
    <3> QED
      BY <1>1, <3>1 DEF RowsDropped, Remnant
  <2> QED
    BY <1>1, <2>1, <2>3, DropStep
<1>2. ASSUME run' = [run EXCEPT ![p] = Idle], past' = Noted(v, {"fault"}),
             (db' = d /\ s3' = o) \/ UNCHANGED <<db, s3>>
      PROVE  Life'
  <2>1. {"fault"} \in SUBSET Events
    BY DEF Events
  <2>2. /\ past'[v] = past[v] \cup {"fault"}
        /\ \A w \in Videos \ {v} : past'[w] = past[w]
    BY <1>0, <1>2, <2>1, FaultElsewhere
  <2>3. Elsewhere(v, db, s3, past, db', s3', past')
    BY <1>2, <2>2 DEF Elsewhere
  <2>4. RowsDropped(v, db') /\ (<<v, "file">> \in s3' => <<v, "file">> \in s3)
    BY <1>2 DEF RowsDropped
  <2>5. ASSUME "overlap" \notin past[v], past'[v] = past[v] \cup {"gone"}
        PROVE  <<v, "file">> \notin s3' /\ \A t \in Tables : Remnant(db'[t][v], past'[v])
    <3>1. "gone" \in past[v]
      BY <2>2, <2>5
    <3>2. <<v, "file">> \notin s3 /\ \A t \in Tables : Remnant(db[t][v], past[v])
      BY <1>0, <2>5, <3>1 DEF Life, VideoOK
    <3> QED
      BY <2>2, <2>4, <3>2 DEF RowsDropped, Remnant
  <2>6. GoesOn(run[p], Idle)
    BY Ends
  <2> QED
    BY <1>2, <2>2, <2>3, <2>4, <2>5, <2>6, DropStep
<1> QED
  BY <1>1, <1>2 DEF Writes

LEMMA DropGoes ==
  ASSUME Inv, Life, NEW p \in Processes, NEW s \in DeleteSteps, At(p, s), NEW at \in DeleteSteps
  PROVE  LET n == To(p, at) IN
         n # Idle /\ n.op = "delete" /\ n.v = run[p].v /\ n.at = at /\ GoesOn(run[p], n)
<1>1. run[p] \in AnyProcess /\ run[p] # Idle /\ run[p].op = "delete" /\ KindOK(p, run[p])
  BY DeletingLife
<1>2. at \in StepsOf[run[p].op]
  BY <1>1, Steps DEF DeleteSteps
<1> QED
  BY <1>1, <1>2, Moving DEF To, GoesOn

LEMMA DropFileLife == ASSUME Inv, Inv', Life, NEW p \in Processes, DropFile(p) PROVE Life'
<1> DEFINE v == run[p].v
           o == s3 \ {<<v, "file">>}
           n == To(p, "dropById")
<1>1. /\ At(p, "dropFile") /\ "dropFile" \in DeleteSteps /\ "dropById" \in DeleteSteps
      /\ Writes(p, db, o, n, Idle)
  BY DEF DropFile, DeleteSteps
<1>2. n # Idle /\ n.op = "delete" /\ n.v = v /\ n.at = "dropById" /\ GoesOn(run[p], n)
  BY <1>1, DropGoes
<1>3. /\ Elsewhere(v, db, s3, past, db, o, past) /\ RowsDropped(v, db)
      /\ <<v, "file">> \in o => <<v, "file">> \in s3
  BY DEF Elsewhere, RowsDropped
<1>4. <<v, "file">> \notin o
  OBVIOUS
<1> HIDE DEF o, n
<1>5. Dropping(n, db, o, past)
  BY <1>2, <1>4 DEF Dropping
<1> QED
  BY <1>1, <1>2, <1>3, <1>5, DropWrites

LEMMA DropRowLife ==
  ASSUME Inv, Inv', Life, NEW p \in Processes, DropById(p) \/ DropByUser(p) PROVE Life'
<1>1. ASSUME NEW s \in {"dropById", "dropByUser"}, At(p, s), NEW t \in Tables, NEW at,
             t = (IF s = "dropById" THEN "video_by_id" ELSE "videos"),
             at = (IF s = "dropById" THEN "dropByUser" ELSE "dropByDay"),
             WritesRow(p, t, NoRow, To(p, at), Idle)
      PROVE  Life'
  <2> DEFINE v == run[p].v
             d == [db EXCEPT ![t][v] = NoRow]
             n == To(p, at)
  <2>1. s \in DeleteSteps /\ at \in DeleteSteps /\ Writes(p, d, s3, n, Idle)
    BY <1>1 DEF DeleteSteps, WritesRow
  <2>2. n # Idle /\ n.op = "delete" /\ n.v = v /\ n.at = at /\ GoesOn(run[p], n)
    BY <1>1, <2>1, DropGoes
  <2>3. run[p].at = s /\ v \in Videos /\ ("overlap" \notin past[v] => Dropping(run[p], db, s3, past))
    BY <1>1, <2>1, DeletingLife
  <2>4. /\ \A x \in Tables, w \in Videos : d[x][w] = IF x = t /\ w = v THEN NoRow ELSE db[x][w]
        /\ Elsewhere(v, db, s3, past, d, s3, past)
    BY <2>3, OneRow
  <2> HIDE DEF d, n
  <2>5. RowsDropped(v, d)
    BY <2>3, <2>4 DEF RowsDropped
  <2>6. ASSUME "overlap" \notin past[v] PROVE Dropping(n, d, s3, past)
    <3>1. Dropping(run[p], db, s3, past)
      BY <2>3, <2>6
    <3>2. \A x \in Tables : Remnant(db[x][v], past[v]) => Remnant(d[x][v], past[v])
      BY <2>3, <2>4 DEF Remnant
    <3>3. Remnant(d[t][v], past[v])
      BY <2>3, <2>4 DEF Remnant
    <3> QED
      BY <1>1, <2>2, <2>3, <3>1, <3>2, <3>3, TableNames DEF Dropping
  <2> QED
    BY <1>1, <2>1, <2>2, <2>4, <2>5, <2>6, DropWrites
<1>2. CASE DropById(p)
  BY <1>1, <1>2, TableNames DEF DropById
<1>3. CASE DropByUser(p)
  BY <1>1, <1>3, TableNames DEF DropByUser
<1> QED
  BY <1>2, <1>3

LEMMA DropByDayLife == ASSUME Inv, Inv', Life, NEW p \in Processes, DropByDay(p) PROVE Life'
<1> DEFINE v == run[p].v
           d == [db EXCEPT !["videos_by_day"][v] = NoRow]
<1>1. /\ At(p, "dropByDay") /\ "dropByDay" \in DeleteSteps /\ s3' = s3
      /\ run' = [run EXCEPT ![p] = Idle]
      /\ \/ db' = d /\ past' = Noted(v, {"gone"})
         \/ db' \in {db, d} /\ past' = Noted(v, {"fault"})
  BY DEF DropByDay, DeleteSteps, WithoutDayRow
<1>2. /\ run[p].at = "dropByDay" /\ v \in Videos
      /\ "overlap" \notin past[v] => Dropping(run[p], db, s3, past)
  BY <1>1, DeletingLife
<1>3. "videos_by_day" \in Tables
  BY TableNames
<1>4. /\ \A x \in Tables, w \in Videos : d[x][w] = IF x = "videos_by_day" /\ w = v THEN NoRow ELSE db[x][w]
      /\ Elsewhere(v, db, s3, past, d, s3, past)
  BY <1>2, <1>3, OneRow
<1> HIDE DEF d
<1>5. {"fault"} \in SUBSET Events /\ {"gone"} \in SUBSET Events
  BY DEF Events
<1>6. /\ \A w \in Videos \ {v} : past'[w] = past[w]
      /\ past'[v] \in {past[v] \cup {"fault"}, past[v] \cup {"gone"}}
      /\ db' # d => past'[v] = past[v] \cup {"fault"}
  BY <1>1, <1>2, <1>5, FaultElsewhere
<1>7. RowsDropped(v, db')
  BY <1>1, <1>2, <1>4 DEF RowsDropped
<1>8. Elsewhere(v, db, s3, past, db', s3', past')
  BY <1>1, <1>4, <1>6 DEF Elsewhere
<1>9. ASSUME "overlap" \notin past[v], past'[v] = past[v] \cup {"gone"}
      PROVE  <<v, "file">> \notin s3' /\ \A t \in Tables : Remnant(db'[t][v], past'[v])
  <2>1. /\ <<v, "file">> \notin s3 /\ Remnant(db["video_by_id"][v], past[v])
        /\ Remnant(db["videos"][v], past[v])
    BY <1>2, <1>9 DEF Dropping
  <2>2. CASE db' = d
    BY <1>1, <1>2, <1>4, <1>9, <2>1, <2>2, TableNames DEF Remnant
  <2>3. CASE db' # d
    <3>1. "gone" \in past[v] \/ past[v] \cup {"fault"} = past[v] \cup {"gone"}
      BY <1>6, <1>9, <2>3
    <3>2. "gone" \in past[v]
      BY <3>1
    <3>3. <<v, "file">> \notin s3 /\ \A t \in Tables : Remnant(db[t][v], past[v])
      BY <1>2, <1>9, <3>2 DEF Life, VideoOK
    <3> QED
      BY <1>1, <1>7, <1>9, <3>3 DEF RowsDropped, Remnant
  <2> QED
    BY <2>2, <2>3
<1>10. GoesOn(run[p], Idle) /\ (<<v, "file">> \in s3' => <<v, "file">> \in s3)
  BY <1>1, Ends
<1> QED
  BY <1>1, <1>6, <1>7, <1>8, <1>9, <1>10, DropStep

-------------------------------------------------------------------------------
(* A video begins, is asked to be deleted, and the server stops.           *)

LEMMA CreateLife ==
  ASSUME Inv, Inv', Life, NEW r \in Slots, NEW v \in Videos, NEW vis \in Visibilities,
         NEW thumb \in BOOLEAN, Create(r, v, vis, thumb)
  PROVE  Life'
<1> DEFINE n == [Idle EXCEPT !.op = "create", !.at = "put", !.v = v, !.vis = vis, !.given = thumb]
<1>1. /\ run[r] = Idle /\ past[v] = {}
      /\ run' = [run EXCEPT ![r] = n] /\ past' = Noted(v, {vis}) /\ db' = db /\ s3' = s3
  BY DEF Create
<1>2. n.op = "create" /\ n.at = "put" /\ n.v = v /\ n.vis = vis
  BY DEF Idle
<1> HIDE DEF n
<1>3. r \in Processes /\ r \notin Videos
  BY ProcessAssumption DEF Processes
<1>4. \A p \in Processes : run'[p] = IF p = r THEN n ELSE run[p]
  BY <1>1 DEF Inv
<1>5. {vis} \in SUBSET Events
  BY DEF Events
<1>6. past'[v] = {vis} /\ \A w \in Videos \ {v} : past'[w] = past[w]
  BY <1>1, <1>5, FaultElsewhere
<1>7. Elsewhere(v, db, s3, past, db', s3', past')
  BY <1>1, <1>6 DEF Elsewhere
<1>8. vis \notin {"stored", "late", "overlap", "delete", "gone", "fault"}
  BY DEF Visibilities
<1>9. \A p \in Processes : run[p].v # v
  <2> SUFFICES ASSUME NEW p \in Processes, run[p].v = v PROVE FALSE
    OBVIOUS
  <2>1. run[p] # Idle /\ run[p] \in AnyProcess /\ ProcOK(run[p], s3, past)
    BY IdleVideo DEF Inv
  <2>2. run[p].op \in Ops
    BY <2>1, Fields
  <2> QED
    BY <1>1, <2>1, <2>2 DEF ProcOK, Ops
<1>10. \A t \in Tables : db[t][v] = NoRow
  <2> SUFFICES ASSUME NEW t \in Tables, db[t][v] # NoRow PROVE FALSE
    OBVIOUS
  <2>1. RowOK(t, v, db[t][v], s3, past)
    BY DEF Inv, DbOK
  <2>2. VideoOK(v, db, s3, past, run[v])
    BY DEF Life
  <2>3. db[t][v].made
    BY <1>1, <2>2 DEF VideoOK
  <2> QED
    BY <1>1, <2>1, <2>3 DEF RowOK
<1>11. WorkOK(n, db', s3', past')
  <2>1. \A t \in Tables : ~ Written(n, t)
    BY <1>2 DEF Written
  <2>2. InProgress(n, db')
    BY <1>1, <1>2, <1>10, <2>1 DEF InProgress, RowBefore, Updates
  <2> QED
    BY <1>2, <1>6, <1>8, <2>1, <2>2 DEF WorkOK
<1>12. VideoOK(v, db', s3', past', run'[v])
  BY <1>1, <1>6, <1>8, <1>10 DEF VideoOK
<1>13. \A p \in Processes : run'[p].v = v => p = r /\ run'[p] = n
  BY <1>4, <1>9
<1>14. \A p \in Processes : run'[p] # run[p] => /\ run[p] = Idle \/ run[p].v = v
                                                /\ run'[p] = Idle \/ run'[p].v = v
  BY <1>1, <1>2, <1>4
<1> QED
  BY <1>7, <1>11, <1>12, <1>13, <1>14, LocalStep

LEMMA DeleteLife ==
  ASSUME Inv, Inv', Life, NEW r \in Slots, NEW v \in Videos, Delete(r, v) PROVE Life'
<1> DEFINE n == [Idle EXCEPT !.op = "delete", !.at = "dropFile", !.v = v]
           E == {"delete"} \cup (IF Busy(v, {"create", "derive"}) THEN {"late"} ELSE {})
                           \cup (IF Busy(v, {"create"}) THEN {"overlap"} ELSE {})
<1>1. /\ run[r] = Idle /\ run' = [run EXCEPT ![r] = n] /\ past' = Noted(v, E)
      /\ db' = db /\ s3' = s3
  BY DEF Delete
<1>2. n.op = "delete" /\ n.at = "dropFile" /\ n.v = v
  BY DEF Idle
<1> HIDE DEF n
<1>3. E \in SUBSET Events /\ "delete" \in E /\ "stored" \notin E /\ "gone" \notin E
  BY DEF Events
<1>4. /\ \A p \in Processes : run[p].v = v /\ run[p].op \in {"create", "derive"} => "late" \in E
      /\ \A p \in Processes : run[p].v = v /\ run[p].op = "create" => "overlap" \in E
  BY DEF Busy, Processes
<1> HIDE DEF E
<1>5. r \in Processes
  BY DEF Processes
<1>6. \A p \in Processes : run'[p] = IF p = r THEN n ELSE run[p]
  BY <1>1 DEF Inv
<1>7. past'[v] = past[v] \cup E /\ \A w \in Videos \ {v} : past'[w] = past[w]
  BY <1>1, <1>3, FaultElsewhere
<1>8. Elsewhere(v, db, s3, past, db', s3', past')
  BY <1>1, <1>7 DEF Elsewhere
<1>9. ~ Clean(past'[v])
  BY <1>3, <1>7 DEF Clean
<1>10. \A t \in Tables : Remnant(db[t][v], past[v]) => Remnant(db'[t][v], past'[v])
  BY <1>1, <1>7 DEF Remnant
<1>11. ASSUME NEW p \in Processes, run'[p].v = v PROVE WorkOK(run'[p], db', s3', past')
  <2>1. CASE p = r
    <3>1. Dropping(n, db', s3', past')
      BY <1>2 DEF Dropping
    <3> QED
      BY <1>2, <1>6, <2>1, <3>1 DEF WorkOK
  <2>2. CASE p # r
    <3>1. run'[p] = run[p] /\ run[p].v = v /\ WorkOK(run[p], db, s3, past)
      BY <1>6, <1>11, <2>2 DEF Life
    <3>2. Dropping(run[p], db, s3, past) => Dropping(run[p], db', s3', past')
      BY <1>1, <1>10, <3>1, TableNames DEF Dropping
    <3>3. /\ run[p].op \in {"create", "derive"} => "late" \in past'[v]
          /\ run[p].op = "create" => "overlap" \in past'[v]
          /\ "stored" \in past'[v] <=> "stored" \in past[v]
      BY <1>3, <1>4, <1>7, <3>1
    <3> QED
      BY <1>7, <1>9, <3>1, <3>2, <3>3 DEF WorkOK
  <2> QED
    BY <2>1, <2>2
<1>12. VideoOK(v, db', s3', past', run'[v])
  <2>1. VideoOK(v, db, s3, past, run[v])
    BY DEF Life
  <2> QED
    BY <1>1, <1>3, <1>7, <1>9, <1>10, <2>1 DEF VideoOK
<1>13. ASSUME NEW p1 \in Processes, NEW p2 \in Processes,
              run'[p1].op = "create", run'[p2].op = "create", run'[p1].v = v, run'[p2].v = v
       PROVE  p1 = p2
  BY <1>2, <1>6, <1>13 DEF Life, OneCreate
<1>14. \A p \in Processes : run'[p] # run[p] => /\ run[p] = Idle \/ run[p].v = v
                                                /\ run'[p] = Idle \/ run'[p].v = v
  BY <1>1, <1>2, <1>6
<1> QED
  BY <1>8, <1>11, <1>12, <1>13, <1>14, LocalStep

LEMMA RestartLife == ASSUME Inv, Life, Restart PROVE Life'
<1>1. /\ run' = [p \in Processes |-> Idle] /\ db' = db /\ s3' = s3
      /\ past' = [v \in Videos |->
                    IF Busy(v, {"create", "delete", "derive"}) THEN past[v] \cup {"fault"}
                                                               ELSE past[v]]
  BY DEF Restart, Processes
<1>2. \A p \in Processes : run'[p] = Idle
  BY <1>1
<1>3. \A p \in Processes : WorkOK(run'[p], db', s3', past')
  BY <1>2, IdleWork
<1>4. OneCreate(run')
  BY <1>2, IdleFields DEF OneCreate
<1>5. ASSUME NEW v \in Videos PROVE VideoOK(v, db', s3', past', run'[v])
  <2>1. VideoOK(v, db, s3, past, run[v])
    BY DEF Life
  <2>2. past'[v] = IF Busy(v, {"create", "delete", "derive"}) THEN past[v] \cup {"fault"}
                                                              ELSE past[v]
    BY <1>1
  <2>3. CASE Busy(v, {"create", "delete", "derive"})
    <3>1. ~ Clean(past'[v]) /\ past'[v] = past[v] \cup {"fault"}
      BY <2>2, <2>3 DEF Clean
    <3> QED
      BY <1>1, <2>1, <3>1 DEF VideoOK, Remnant
  <2>4. CASE ~ Busy(v, {"create", "delete", "derive"})
    <3>1. past'[v] = past[v]
      BY <2>2, <2>4
    <3>2. v \in Processes /\ KindOK(v, run[v])
      BY DEF Inv, Processes
    <3>3. run[v] = Idle
      BY <2>4, <3>2 DEF KindOK, Busy, Processes
    <3>4. Finished(v, db, past) => Finished(v, db', past')
      BY <1>1, <3>1 DEF Finished
    <3> QED
      BY <1>1, <2>1, <3>1, <3>3, <3>4 DEF VideoOK
  <2> QED
    BY <2>3, <2>4
<1> QED
  BY <1>3, <1>4, <1>5 DEF Life

LEMMA LifeInit == ASSUME Init PROVE Life
<1>1. /\ db = [t \in Tables |-> [v \in Videos |-> NoRow]]
      /\ run = [p \in Processes |-> Idle] /\ past = [v \in Videos |-> {}]
  BY DEF Init, Processes
<1>2. \A p \in Processes : run[p] = Idle /\ WorkOK(run[p], db, s3, past)
  BY <1>1, IdleWork
<1>3. OneCreate(run)
  BY <1>2, IdleFields DEF OneCreate
<1>4. \A v \in Videos : past[v] = {} /\ \A t \in Tables : db[t][v] = NoRow
  BY <1>1
<1>5. \A v \in Videos : VideoOK(v, db, s3, past, run[v])
  BY <1>4 DEF VideoOK
<1> QED
  BY <1>2, <1>3, <1>5 DEF Life

LEMMA LifeNext == ASSUME Inv, Life, [Next]_vars PROVE Life'
<1>0. Inv'
  BY InvNext
<1>1. CASE UNCHANGED vars
  <2>1. db' = db /\ s3' = s3 /\ run' = run /\ past' = past
    BY <1>1 DEF vars
  <2> QED
    BY <2>1 DEF Life
<1>2. ASSUME NEW r \in Slots, Arrival(r) PROVE Life'
  BY <1>0, <1>2, CreateLife, DeleteLife DEF Arrival
<1>3. ASSUME NEW p \in Processes, Statement(p) PROVE Life'
  <2>1. \/ PutFile(p) \/ InsertUser(p) \/ InsertById(p) \/ InsertByDay(p)
        \/ Seed(p) \/ Lookup(p) \/ Schedule(p) \/ ReadCreated(p) \/ StoreImage(p)
        \/ SetUser(p) \/ SetById(p) \/ SetByDay(p)
        \/ DropFile(p) \/ DropById(p) \/ DropByUser(p) \/ DropByDay(p)
    BY <1>3 DEF Statement
  <2> QED
    BY <1>0, <2>1, PutFileLife, InsertsLife, SeedLife, LookupLife, ScheduleLife, ReadCreatedLife,
       StoreImageLife, SetsLife, DropFileLife, DropRowLife, DropByDayLife
<1>4. CASE Restart
  BY <1>4, RestartLife
<1> QED
  BY <1>1, <1>2, <1>3, <1>4 DEF Next, Processes

(* While a video is uploaded and worked on and nothing fails, its rows are *)
(* exactly what the statements so far have written; a delete leaves behind *)
(* it only what an UPDATE that came late has made of a row                 *)
(* (video_create.cpp:244-508, video_delete.cpp:66-113).                    *)
THEOREM VideoStoreLife == Spec => [](Inv /\ Life)
<1>1. Init => Inv /\ Life
  BY InvInit, LifeInit
<1>2. Inv /\ Life /\ [Next]_vars => (Inv /\ Life)'
  BY InvNext, LifeNext
<1> QED
  BY <1>1, <1>2, PTL DEF Spec

LEMMA InvSettledAgree == ASSUME Inv, Life PROVE SettledAgree
<1> SUFFICES ASSUME NEW v \in Videos, "stored" \in past[v], past[v] \cap {"fault", "delete"} = {},
                    ~ Busy(v, {"derive"})
             PROVE  /\ db["videos"][v] = [made |-> TRUE, vis |-> db["videos"][v].vis, urls |-> Columns]
                    /\ db["video_by_id"][v] = db["videos"][v]
                    /\ db["videos_by_day"][v] = IF "public" \in past[v] THEN db["videos"][v] ELSE NoRow
  BY DEF SettledAgree
<1>1. v \in Processes /\ KindOK(v, run[v])
  BY DEF Inv, Processes
<1>2. run[v] = Idle
  BY <1>1 DEF KindOK, Busy, Processes
<1>3. Finished(v, db, past)
  BY <1>2 DEF Life, VideoOK, Clean
<1>4. PICK vis \in past[v] \cap Visibilities :
          \A t \in Tables : db[t][v] = IF t = "videos_by_day" /\ vis # "public" THEN NoRow
                            ELSE [made |-> TRUE, vis |-> vis, urls |-> Columns]
  BY <1>3 DEF Finished
<1>5. "public" \in past[v] <=> vis = "public"
  BY DEF Inv, PastOK, OneVisibility, Visibilities
<1>6. /\ db["videos"][v] = [made |-> TRUE, vis |-> vis, urls |-> Columns]
      /\ db["video_by_id"][v] = [made |-> TRUE, vis |-> vis, urls |-> Columns]
      /\ db["videos_by_day"][v] = IF vis # "public" THEN NoRow
                                  ELSE [made |-> TRUE, vis |-> vis, urls |-> Columns]
  BY <1>4, TableNames
<1> QED
  BY <1>5, <1>6

(* When an upload and its task are through and nothing failed, whatever    *)
(* other uploads, tasks and deletes ran meanwhile, the three tables agree  *)
(* and show both images, and the feed has the video exactly if it is       *)
(* public (video_create.cpp:244-297, 389-508).                             *)
THEOREM VideoSettledAgree == Spec => []SettledAgree
BY VideoStoreLife, InvSettledAgree, PTL

LEMMA InvGoneStaysGone == ASSUME Life PROVE GoneStaysGone
BY DEF Life, VideoOK, Remnant, GoneStaysGone, Stored

(* What was answered 204 stays deleted, unless the upload was still being  *)
(* written: through failures and restarts, a task that was still running   *)
(* leaves rows without a title, and nothing else (video_delete.cpp:66-113, *)
(* video_create.cpp:441).                                                  *)
THEOREM VideoGoneStaysGone == Spec => []GoneStaysGone
BY VideoStoreLife, InvGoneStaysGone, PTL

LEMMA InvListsAnswer == ASSUME Life PROVE ListsAnswer
<1>1. ASSUME NEW v \in Videos, NEW t \in Tables, "late" \notin past[v], Stored(t, v)
      PROVE  db[t][v].made
  BY <1>1 DEF Life, VideoOK, Stored
<1>2. ASSUME NEW h \in Headers, NEW o \in Users,
             \A v \in Videos : Owner[v] = o => "late" \notin past[v]
      PROVE  Answers("videos", Listed(h, o) \cup (IF IsUser(h, o) THEN Mine(h) ELSE {}))
  <2> SUFFICES ASSUME NEW v \in Videos, Stored("videos", v),
                      Owner[v] = o \/ (IsUser(h, o) /\ IsUser(h, Owner[v]))
               PROVE  db["videos"][v].made
    BY DEF Answers, Listed, Mine
  <2>1. Owner[v] = o
    BY DEF IsUser
  <2> QED
    BY <1>1, <1>2, <2>1, TableNames
<1>3. ASSUME \A v \in Videos : "late" \notin past[v] PROVE Answers("videos_by_day", Feed)
  BY <1>1, <1>3, TableNames DEF Answers, Feed
<1> QED
  BY <1>2, <1>3 DEF ListsAnswer

(* Whatever fails, every list answers unless one of its videos was deleted *)
(* while it was uploaded or its images were extracted: no statement makes  *)
(* a row that lacks its title (video_create.cpp:441, video_list.cpp:384).  *)
THEOREM VideoListsAnswer == Spec => []ListsAnswer
BY VideoStoreLife, InvListsAnswer, PTL
================================================================================
