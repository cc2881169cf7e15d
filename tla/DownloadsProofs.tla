---------------------------- MODULE DownloadsProofs ----------------------------
(***************************************************************************)
(* Proofs about Downloads, for every value of its constants: the type      *)
(* invariant, the cap on concurrent transfers, the absence of stalls, that *)
(* the saved lists agree with the rows, and what the bar may hide.  Then,  *)
(* for videos with titles of their own: that a resumed transfer continues  *)
(* where its ".part" ends, that no transfer touches a saved file, and what *)
(* a completed row stands for.                                             *)
(***************************************************************************)
EXTENDS Downloads, FiniteSetTheorems, SequenceTheorems, TLAPS

PartsType == [Paths -> Seq(Cells) \cup {NoFile}]
BarType == [id : Videos \cup {NoVideo}, visible : BOOLEAN, hiding : BOOLEAN]

-------------------------------------------------------------------------------
(* The sets of rows a handler counts are finite.                           *)
LEMMA RowsFinite ==
  ASSUME NEW q \in Seq(Entry), NEW S
  PROVE  /\ DOMAIN q = 1 .. Len(q)
         /\ RowsIn(q, S) \subseteq DOMAIN q
         /\ IsFiniteSet(DOMAIN q)
         /\ IsFiniteSet(RowsIn(q, S))
         /\ Cardinality(RowsIn(q, S)) \in Nat
<1>1. DOMAIN q = 1 .. Len(q) /\ Len(q) \in Nat
  OBVIOUS
<1>2. IsFiniteSet(DOMAIN q)
  BY <1>1, FS_Interval
<1>3. RowsIn(q, S) \subseteq DOMAIN q
  BY DEF RowsIn
<1>4. IsFiniteSet(RowsIn(q, S))
  BY <1>2, <1>3, FS_Subset
<1> QED
  BY <1>1, <1>2, <1>3, <1>4, FS_CardinalityType

(* A nonempty finite set of numbers has a least and a greatest element.    *)
LEMMA LeastNumber ==
  ASSUME NEW T \in SUBSET Nat, T # {}
  PROVE  \E k \in T : \A m \in T : k <= m
<1>1. PICK k \in T : \A m \in T : ~ (<<m, k>> \in OpToRel(<, Nat))
  BY NatLessThanWellFounded, WFMin
<1>2. ASSUME NEW m \in T PROVE k <= m
  <2>1. m \in Nat /\ k \in Nat
    OBVIOUS
  <2>2. <<m, k>> \in OpToRel(<, Nat) <=> m < k
    BY <2>1 DEF OpToRel
  <2>3. ~ (m < k)
    BY <1>1, <2>2
  <2> QED
    BY <2>1, <2>3
<1> QED
  BY <1>2

LEMMA GreatestNumber ==
  ASSUME NEW n \in Nat, NEW T \in SUBSET (1 .. n), T # {}
  PROVE  \E k \in T : \A m \in T : m <= k
<1> DEFINE U == {j \in Nat : \E k \in T : j = n - k}
<1>1. U # {} /\ U \in SUBSET Nat
  <2>1. PICK k \in T : TRUE
    OBVIOUS
  <2>2. n - k \in Nat
    OBVIOUS
  <2> QED
    BY <2>2
<1> HIDE DEF U
<1>2. PICK j \in U : \A i \in U : j <= i
  BY <1>1, LeastNumber
<1> USE DEF U
<1>3. PICK k \in T : j = n - k
  BY <1>2
<1>4. \A m \in T : n - m \in U
  OBVIOUS
<1>5. ASSUME NEW m \in T PROVE m <= k
  <2>1. j <= n - m
    BY <1>2, <1>4
  <2> QED
    BY <2>1, <1>3
<1> QED
  BY <1>5

-------------------------------------------------------------------------------
(* Erasing rows keeps a list of rows, and each row that is kept is found   *)
(* exactly once, in the same order.                                        *)
LEMMA KeepingRows ==
  ASSUME NEW q \in Seq(Entry), NEW S \in SUBSET DOMAIN q, NEW r \in Keeping(q, S)
  PROVE  /\ r \in Seq(Entry)
         /\ \E f \in Bijection(DOMAIN r, S) :
               /\ \A a \in DOMAIN r : r[a] = q[f[a]]
               /\ \A a, b \in DOMAIN r : a < b => f[a] < f[b]
<1> DEFINE n == Cardinality(S)
<1>1. IsFiniteSet(S) /\ n \in Nat
  BY RowsFinite, FS_Subset, FS_CardinalityType
<1>2. PICK f \in Enumerations(S) : r = [a \in 1 .. n |-> q[f[a]]]
  BY DEF Keeping
<1>3. /\ f \in [1 .. n -> S]
      /\ \A a, b \in 1 .. n : a < b => f[a] < f[b]
  BY <1>2 DEF Enumerations
<1>4. \A a \in 1 .. n : q[f[a]] \in Entry
  BY <1>3
<1>5. r \in Seq(Entry) /\ DOMAIN r = 1 .. n
  BY <1>1, <1>2, <1>4
<1>6. \A a, b \in 1 .. n : f[a] = f[b] => a = b
  <2>1. S \subseteq Nat
    BY RowsFinite
  <2> QED
    BY <1>1, <1>3, <2>1
<1>7. f \in Injection(1 .. n, S)
  BY <1>3, <1>6 DEF Injection, IsInjective
<1>8. Cardinality(1 .. n) = n
  BY <1>1, FS_Interval
<1>9. f \in Surjection(1 .. n, S)
  BY <1>1, <1>7, <1>8, FS_Injection
<1> QED
  BY <1>2, <1>3, <1>5, <1>7, <1>9 DEF Bijection
-------------------------------------------------------------------------------
(* processQueue(): what it kicks off never exceeds the slots, and it only  *)
(* leaves a row waiting when every slot is taken.                          *)
Going(q, out) == {j \in Queued(q) : out[j] = "go"}

LEMMA OutcomesFillSlots ==
  ASSUME NEW q \in Seq(Entry), NEW out \in Outcomes(q),
         Cardinality(Downloading(q)) <= MaxConcurrent
  PROVE  LET taken == Downloading(q) \cup Going(q, out)
         IN /\ Cardinality(taken) \in Nat
            /\ Cardinality(taken) <= MaxConcurrent
            /\ \A i \in Queued(q) :
                  out[i] = "wait" => Cardinality(taken) >= MaxConcurrent
<1> DEFINE D == Downloading(q)
           G == Going(q, out)
           Before(i) == {j \in Queued(q) : j < i /\ out[j] = "go"}
<1>1. /\ IsFiniteSet(D) /\ Cardinality(D) \in Nat
      /\ IsFiniteSet(Queued(q)) /\ Queued(q) \subseteq 1 .. Len(q)
  BY RowsFinite DEF Downloading, Queued
<1>2. D \cap G = {}
  BY DEF Downloading, Queued, Going, RowsIn
<1>3. \A T \in SUBSET G : /\ IsFiniteSet(T) /\ Cardinality(T) \in Nat
                           /\ Cardinality(T) <= Cardinality(G)
                           /\ Cardinality(D \cup T) = Cardinality(D) + Cardinality(T)
  <2> SUFFICES ASSUME NEW T \in SUBSET G
               PROVE  /\ IsFiniteSet(T) /\ Cardinality(T) \in Nat
                      /\ Cardinality(T) <= Cardinality(G)
                      /\ Cardinality(D \cup T) = Cardinality(D) + Cardinality(T)
    OBVIOUS
  <2>1. G \subseteq Queued(q)
    BY DEF Going
  <2>2. IsFiniteSet(G)
    BY <1>1, <2>1, FS_Subset
  <2>3. IsFiniteSet(T) /\ Cardinality(T) <= Cardinality(G) /\ Cardinality(T) \in Nat
    BY <2>2, FS_Subset, FS_CardinalityType
  <2>4. D \cap T = {}
    BY <1>2
  <2>5. Cardinality(D \cup T) = Cardinality(D) + Cardinality(T) - 0
    BY <1>1, <2>3, <2>4, FS_Union, FS_EmptySet
  <2> QED
    BY <1>1, <2>3, <2>5
<1>4. \A i \in Queued(q) :
         out[i] # "wait" <=> Cardinality(D) + Cardinality(Before(i)) < MaxConcurrent
  BY DEF Outcomes, Room
<1>5. \A i \in Queued(q) : Before(i) \in SUBSET G
  BY DEF Going
<1>6. /\ IsFiniteSet(G) /\ Cardinality(G) \in Nat
      /\ Cardinality(D \cup G) = Cardinality(D) + Cardinality(G)
      /\ Cardinality(D \cup G) \in Nat
  <2> HIDE DEF D, G
  <2>1. G \in SUBSET G
    OBVIOUS
  <2>2. /\ IsFiniteSet(G) /\ Cardinality(G) \in Nat
        /\ Cardinality(D \cup G) = Cardinality(D) + Cardinality(G)
    BY <1>3, <2>1
  <2> QED
    BY <1>1, <2>2
<1>7. Cardinality(D \cup G) <= MaxConcurrent
  <2>1. CASE G = {}
    <3>1. D \cup G = D
      BY <2>1
    <3> QED
      BY <3>1
  <2>2. CASE G # {}
    <3>1. G \in SUBSET (1 .. Len(q)) /\ Len(q) \in Nat
      BY <1>1 DEF Going
    <3>2. PICK k \in G : \A m \in G : m <= k
      BY <2>2, <3>1, GreatestNumber
    <3>3. k \in Queued(q) /\ out[k] = "go"
      BY <3>2 DEF Going
    <3>4. Before(k) = G \ {k}
      <4>1. \A m \in G : m # k => m < k
        BY <3>1, <3>2
      <4>2. ~ (k < k)
        BY <3>1
      <4> QED
        BY <4>1, <4>2, <3>3 DEF Going
    <3>5. Cardinality(D) + Cardinality(Before(k)) < MaxConcurrent
      BY <1>4, <3>3
    <3>6. Cardinality(G \ {k}) = Cardinality(G) - 1
      BY <1>6, <3>2, FS_RemoveElement
    <3> HIDE DEF D, G, Before
    <3>7. Cardinality(D) + (Cardinality(G) - 1) < MaxConcurrent
      BY <3>4, <3>5, <3>6
    <3> QED
      BY <1>1, <1>6, <3>7, LimitsAssumption
  <2> QED
    BY <2>1, <2>2
<1>8. ASSUME NEW i \in Queued(q), out[i] = "wait"
      PROVE  Cardinality(D \cup G) >= MaxConcurrent
  <2>1. ~ (Cardinality(D) + Cardinality(Before(i)) < MaxConcurrent)
    BY <1>4, <1>8
  <2>2. Before(i) \in SUBSET G
    BY <1>5
  <2> HIDE DEF D, G, Before
  <2>3. Cardinality(Before(i)) \in Nat /\ Cardinality(Before(i)) <= Cardinality(G)
    BY <1>3, <2>2
  <2> QED
    BY <1>1, <1>6, <2>1, <2>3, LimitsAssumption
<1> QED
  BY <1>6, <1>7, <1>8

-------------------------------------------------------------------------------
(* Types: names, rows, parts and the bar.                                  *)
LEMMA DestPathType ==
  ASSUME NEW fs, NEW ps, NEW t \in Titles, NEW x \in Exts
  PROVE  DestPath(fs, ps, t, x) \in Paths
<1> DEFINE free == FreeNumbers(fs, ps, t, x)
<1>1. free \subseteq 0 .. MaxCollisionAttempts /\ free \in SUBSET Nat
  BY CollisionAssumption DEF FreeNumbers
<1>2. ASSUME free # {}
      PROVE  (CHOOSE k \in free : \A m \in free : k <= m) \in free
  <2> HIDE DEF free
  <2>1. \E k \in free : \A m \in free : k <= m
    BY <1>1, <1>2, LeastNumber
  <2> QED
    BY <2>1
<1>3. MaxCollisionAttempts \in 0 .. MaxCollisionAttempts
  BY CollisionAssumption
<1> QED
  BY <1>1, <1>2, <1>3 DEF DestPath, Paths

LEMMA StoppedType ==
  ASSUME NEW e \in Entry, NEW status \in Statuses, NEW reason \in Reasons
  PROVE  /\ Stopped(e, status, reason) \in Entry
         /\ Stopped(e, status, reason).status = status
         /\ Stopped(e, status, reason).id = e.id
         /\ Stopped(e, status, reason).total = e.total
         /\ Stopped(e, status, reason).retries = e.retries
<1>1. 1 \in 1 .. Size + 1
  BY SizeAssumption
<1> QED
  BY <1>1 DEF Stopped, Entry

LEMMA OpenedType ==
  ASSUME NEW c \in Seq(Cells) \cup {NoFile}, NEW total
  PROVE  /\ Opened(c, total) \in Seq(Cells)
         /\ OpenFailed(c, total) \in Seq(Cells) \cup {NoFile}
BY DEF Opened, OpenFailed, Resumable

LEMMA EndedType ==
  ASSUME NEW b \in BarType, NEW V
  PROVE  Ended(b, V) \in BarType /\ Dropped(b, V) \in BarType
BY DEF Ended, Dropped, BarType

LEMMA KickedRowType ==
  ASSUME NEW e \in Entry, NEW how \in {"go", "space", "open", "wait"}, NEW ps \in PartsType
  PROVE  /\ KickedRow(e, how, ps) \in Entry
         /\ how = "go" => KickedRow(e, how, ps).status = "Downloading"
         /\ how \in {"space", "open"} => KickedRow(e, how, ps).status = "Failed"
         /\ how = "wait" => KickedRow(e, how, ps) = e
<1>1. CASE how = "go"
  <2>1. ps[e.dest] \in Seq(Cells) \cup {NoFile}
    BY DEF PartsType, Entry
  <2>2. Len(Opened(ps[e.dest], e.total)) \in Nat
    BY <2>1, OpenedType
  <2>3. 1 \in 1 .. Size + 1
    BY SizeAssumption
  <2>4. "Downloading" \in Statuses
    BY DEF Statuses
  <2> QED
    BY <1>1, <2>2, <2>3, <2>4 DEF KickedRow, Entry
<1>2. CASE how \in {"space", "open"}
  <2>1. "Failed" \in Statuses /\ "DiskSpace" \in Reasons /\ "DiskWrite" \in Reasons
    BY DEF Statuses, Reasons
  <2> QED
    BY <1>2, <2>1, StoppedType DEF KickedRow
<1>3. CASE how = "wait"
  BY <1>3 DEF KickedRow
<1> QED
  BY <1>1, <1>2, <1>3

(* processQueue(), called with a list of rows that fits in the slots,      *)
(* leaves a list of rows that fits in the slots and has nothing waiting    *)
(* for a free one.                                                         *)
LEMMA ProcessQueueRows ==
  ASSUME NEW q \in Seq(Entry), NEW ps \in PartsType, NEW b \in BarType,
         Cardinality(Downloading(q)) <= MaxConcurrent,
         ProcessQueue(q, ps, b)
  PROVE  /\ entries' \in Seq(Entry)
         /\ parts' \in PartsType
         /\ bar' \in BarType
         /\ SlotCap'
         /\ Cardinality(Downloading(entries')) >= MaxConcurrent \/ Queued(entries') = {}
<1>1. PICK out \in Outcomes(q) :
        /\ entries' = KickedRows(q, out, ps)
        /\ parts' = KickedParts(q, out, ps)
        /\ bar' = Ended(b, {q[i].id : i \in {j \in Queued(q) : out[j] \in {"space", "open"}}})
  BY DEF ProcessQueue
<1>2. out \in [Queued(q) -> {"go", "space", "open", "wait"}]
  BY DEF Outcomes
<1>3. entries' = [i \in DOMAIN q |->
                    IF i \in Queued(q) THEN KickedRow(q[i], out[i], ps) ELSE q[i]]
  BY <1>1 DEF KickedRows
<1>4. \A i \in DOMAIN q : q[i] \in Entry /\ entries'[i] \in Entry
  <2> SUFFICES ASSUME NEW i \in DOMAIN q PROVE q[i] \in Entry /\ entries'[i] \in Entry
    OBVIOUS
  <2>1. q[i] \in Entry
    OBVIOUS
  <2>2. CASE i \in Queued(q)
    <3>1. out[i] \in {"go", "space", "open", "wait"}
      BY <1>2, <2>2
    <3>2. KickedRow(q[i], out[i], ps) \in Entry
      BY <2>1, <3>1, KickedRowType
    <3> QED
      BY <1>3, <2>1, <2>2, <3>2
  <2> QED
    BY <1>3, <2>1, <2>2
<1>5. entries' \in Seq(Entry) /\ DOMAIN entries' = DOMAIN q
  <2>1. DOMAIN q = 1 .. Len(q) /\ Len(q) \in Nat
    OBVIOUS
  <2> QED
    BY <1>3, <1>4, <2>1
<1>6. parts' \in PartsType
  <2>1. \A p \in Paths : ps[p] \in Seq(Cells) \cup {NoFile}
    BY DEF PartsType
  <2>2. \A p \in Paths : parts'[p] \in Seq(Cells) \cup {NoFile}
    BY <1>1, <2>1, OpenedType DEF KickedParts
  <2>3. parts' = [p \in Paths |-> parts'[p]]
    BY <1>1 DEF KickedParts
  <2> QED
    BY <2>2, <2>3 DEF PartsType
<1>7. bar' \in BarType
  BY <1>1, EndedType
<1>8. \A i \in DOMAIN q :
         IF i \in Queued(q)
           THEN /\ out[i] = "go" => entries'[i].status = "Downloading"
                /\ out[i] \in {"space", "open"} => entries'[i].status = "Failed"
                /\ out[i] = "wait" => entries'[i].status = "Queued"
                /\ out[i] \in {"go", "space", "open", "wait"}
           ELSE entries'[i].status = q[i].status
  <2> SUFFICES ASSUME NEW i \in DOMAIN q, i \in Queued(q)
               PROVE  /\ out[i] = "go" => entries'[i].status = "Downloading"
                      /\ out[i] \in {"space", "open"} => entries'[i].status = "Failed"
                      /\ out[i] = "wait" => entries'[i].status = "Queued"
                      /\ out[i] \in {"go", "space", "open", "wait"}
    BY <1>3
  <2>1. out[i] \in {"go", "space", "open", "wait"}
    BY <1>2
  <2>2. entries'[i] = KickedRow(q[i], out[i], ps) /\ q[i] \in Entry
    BY <1>3, <1>4
  <2>3. q[i].status = "Queued"
    BY DEF Queued, RowsIn
  <2> QED
    BY <2>1, <2>2, <2>3, KickedRowType
<1>9. /\ Downloading(entries') = Downloading(q) \cup Going(q, out)
      /\ \A i \in Queued(entries') : i \in Queued(q) /\ out[i] = "wait"
  BY <1>5, <1>8 DEF Downloading, Queued, Going, RowsIn
<1>10. SlotCap'
  BY <1>9, OutcomesFillSlots DEF SlotCap
<1>11. Cardinality(Downloading(entries')) >= MaxConcurrent \/ Queued(entries') = {}
  BY <1>9, OutcomesFillSlots
<1> QED
  BY <1>5, <1>6, <1>7, <1>10, <1>11

-------------------------------------------------------------------------------
(* How a handler changes the list before it calls processQueue(), or       *)
(* instead of calling it.                                                  *)
LEMMA FewerDownloading ==
  ASSUME NEW q \in Seq(Entry), NEW r, Downloading(r) \subseteq Downloading(q)
  PROVE  Cardinality(Downloading(r)) <= Cardinality(Downloading(q))
BY RowsFinite, FS_Subset DEF Downloading

LEMMA TornRows ==
  ASSUME NEW q \in Seq(Entry), NEW i \in DOMAIN q,
         NEW status \in Statuses \ {"Downloading"}, NEW reason \in Reasons
  PROVE  /\ Torn(q, i, status, reason) \in Seq(Entry)
         /\ Cardinality(Downloading(Torn(q, i, status, reason)))
              <= Cardinality(Downloading(q))
<1> DEFINE r == Torn(q, i, status, reason)
<1>1. /\ q[i] \in Entry
      /\ Stopped(q[i], status, reason) \in Entry
      /\ Stopped(q[i], status, reason).status = status
  BY StoppedType
<1>2. r \in Seq(Entry) /\ DOMAIN r = DOMAIN q
  BY <1>1 DEF Torn
<1>3. \A j \in DOMAIN q : r[j] = IF j = i THEN Stopped(q[i], status, reason) ELSE q[j]
  BY DEF Torn
<1>4. Downloading(r) \subseteq Downloading(q)
  BY <1>1, <1>2, <1>3 DEF Downloading, RowsIn
<1> QED
  BY <1>2, <1>4, FewerDownloading

LEMMA AllTornRows ==
  ASSUME NEW q \in Seq(Entry), NEW S, NEW status \in {"Queued", "Paused"}
  PROVE  /\ AllTorn(q, S, status) \in Seq(Entry)
         /\ Downloading(AllTorn(q, S, status)) \subseteq Downloading(q)
         /\ Cardinality(Downloading(AllTorn(q, S, status)))
              <= Cardinality(Downloading(q))
<1> DEFINE r == AllTorn(q, S, status)
<1>1. status \in Statuses /\ "None" \in Reasons
  BY DEF Statuses, Reasons
<1>2. \A i \in DOMAIN q : /\ q[i] \in Entry
                          /\ Stopped(q[i], status, "None") \in Entry
                          /\ Stopped(q[i], status, "None").status = status
  BY <1>1, StoppedType
<1>3. r = [i \in DOMAIN q |-> IF q[i].status \in S
                               THEN Stopped(q[i], status, "None") ELSE q[i]]
  BY DEF AllTorn
<1>4. r \in Seq(Entry) /\ DOMAIN r = DOMAIN q
  <2>1. DOMAIN q = 1 .. Len(q) /\ Len(q) \in Nat
    OBVIOUS
  <2>2. \A i \in DOMAIN q : r[i] \in Entry
    BY <1>2, <1>3
  <2> QED
    BY <1>3, <2>1, <2>2
<1>5. Downloading(r) \subseteq Downloading(q)
  BY <1>2, <1>3, <1>4 DEF Downloading, RowsIn
<1> QED
  BY <1>4, <1>5, FewerDownloading

LEMMA KeepingSlots ==
  ASSUME NEW q \in Seq(Entry), NEW S \in SUBSET DOMAIN q, NEW r \in Keeping(q, S)
  PROVE  Cardinality(Downloading(r)) <= Cardinality(Downloading(q))
<1>1. PICK f \in Bijection(DOMAIN r, S) : \A a \in DOMAIN r : r[a] = q[f[a]]
  BY KeepingRows
<1> DEFINE g == [a \in Downloading(r) |-> f[a]]
<1>2. \A a \in Downloading(r) : f[a] \in Downloading(q)
  BY <1>1 DEF Bijection, Injection, Downloading, RowsIn
<1>3. g \in Injection(Downloading(r), Downloading(q))
  BY <1>1, <1>2 DEF Bijection, Injection, IsInjective, Downloading, RowsIn
<1>4. IsFiniteSet(Downloading(q))
  BY RowsFinite DEF Downloading
<1> QED
  BY <1>3, <1>4, FS_Injection

(* Erasing rows that have ended frees no slot and makes nobody else the    *)
(* first row of a waiting video.                                           *)
LEMMA ErasingEnded ==
  ASSUME NEW q \in Seq(Entry), NEW S \in SUBSET DOMAIN q, NEW r \in Keeping(q, S),
         DOMAIN q \ S \subseteq RowsIn(q, Terminal)
  PROVE  /\ Cardinality(Downloading(r)) = Cardinality(Downloading(q))
         /\ Queued(r) # {} => Queued(q) # {}
         /\ \A v, i : IsFirst(q, v, i) /\ q[i].status = "Queued" =>
                \E a \in DOMAIN r : IsFirst(r, v, a) /\ r[a].status = "Queued"
<1>1. PICK f \in Bijection(DOMAIN r, S) :
         /\ \A a \in DOMAIN r : r[a] = q[f[a]]
         /\ \A a, b \in DOMAIN r : a < b => f[a] < f[b]
  BY KeepingRows
<1>2. /\ f \in [DOMAIN r -> S]
      /\ \A a, b \in DOMAIN r : f[a] = f[b] => a = b
      /\ \A i \in S : \E a \in DOMAIN r : f[a] = i
  BY <1>1 DEF Bijection, Injection, Surjection, IsInjective
<1>3. \A i \in DOMAIN q : q[i].status \in {"Downloading", "Queued"} => i \in S
  BY DEF RowsIn, Terminal
<1>4. Cardinality(Downloading(r)) = Cardinality(Downloading(q))
  <2> DEFINE g == [a \in Downloading(r) |-> f[a]]
  <2>1. g \in Bijection(Downloading(r), Downloading(q))
    <3>1. g \in [Downloading(r) -> Downloading(q)]
      BY <1>1, <1>2 DEF Downloading, RowsIn
    <3>2. IsInjective(g)
      BY <1>2 DEF Downloading, RowsIn, IsInjective
    <3>3. \A i \in Downloading(q) : \E a \in Downloading(r) : g[a] = i
      <4> SUFFICES ASSUME NEW i \in Downloading(q)
                   PROVE  \E a \in Downloading(r) : g[a] = i
        OBVIOUS
      <4>1. i \in S /\ q[i].status = "Downloading"
        BY <1>3 DEF Downloading, RowsIn
      <4>2. PICK a \in DOMAIN r : f[a] = i
        BY <1>2, <4>1
      <4> QED
        BY <1>1, <4>1, <4>2 DEF Downloading, RowsIn
    <3> QED
      BY <3>1, <3>2, <3>3 DEF Bijection, Injection, Surjection
  <2>2. IsFiniteSet(Downloading(r))
    BY KeepingRows, RowsFinite DEF Downloading
  <2> QED
    BY <2>1, <2>2, FS_Bijection DEF ExistsBijection
<1>5. Queued(r) # {} => Queued(q) # {}
  BY <1>1, <1>2 DEF Queued, RowsIn
<1>6. ASSUME NEW v, NEW i, IsFirst(q, v, i), q[i].status = "Queued"
      PROVE  \E a \in DOMAIN r : IsFirst(r, v, a) /\ r[a].status = "Queued"
  <2>1. i \in S
    BY <1>3, <1>6 DEF IsFirst
  <2>2. PICK a \in DOMAIN r : f[a] = i
    BY <1>2, <2>1
  <2>3. r \in Seq(Entry) /\ DOMAIN r = 1 .. Len(r)
    BY KeepingRows
  <2>4. ASSUME NEW b \in 1 .. a - 1 PROVE r[b].id # v
    <3>1. b \in DOMAIN r /\ b < a
      BY <2>3
    <3>2. f[b] < i /\ f[b] \in DOMAIN q
      BY <1>1, <1>2, <2>2, <3>1
    <3>3. f[b] \in 1 .. i - 1
      BY <1>6, <3>2 DEF IsFirst
    <3> QED
      BY <1>1, <1>6, <3>1, <3>3 DEF IsFirst
  <2> QED
    BY <1>1, <1>6, <2>2, <2>4 DEF IsFirst
<1> QED
  BY <1>4, <1>5, <1>6

(* What the registries hold.                                               *)
LEMMA RecordsType ==
  ASSUME NEW q \in Seq(Entry), NEW status
  PROVE  /\ RecordsOf(q, status) \in SUBSET Saved
         /\ IsFiniteSet(RecordsOf(q, status))
<1> DEFINE S == RowsIn(q, {status})
           f == [i \in S |-> Record(q[i])]
<1>1. \A i \in S : q[i] \in Entry
  BY DEF RowsIn
<1>2. RecordsOf(q, status) \in SUBSET Saved
  <2>1. ASSUME NEW e \in Entry PROVE Record(e) \in Saved
    BY DEF Record, Saved, Entry
  <2> QED
    BY <1>1, <2>1 DEF RecordsOf
<1>3. f \in Surjection(S, RecordsOf(q, status))
  BY DEF Surjection, RecordsOf
<1>4. IsFiniteSet(S)
  BY RowsFinite
<1> HIDE DEF S, f
<1> QED
  BY <1>2, <1>3, <1>4, FS_Surjection

LEMMA SavedCompletedType ==
  ASSUME NEW q \in Seq(Entry), NEW R \in SavedCompleted(q)
  PROVE  R \in SUBSET Saved /\ IsFiniteSet(R)
<1>1. R \in SUBSET RecordsOf(q, "Completed")
  BY DEF SavedCompleted
<1> QED
  BY <1>1, RecordsType, FS_Subset

-------------------------------------------------------------------------------
(* The inductive invariant.  NoStall is preserved only together with       *)
(* SlotCap (a full row of slots is what a waiting row may wait for), both  *)
(* need the types, and Restart needs registries that can be enumerated.    *)
IInv ==
    /\ TypeOK
    /\ SlotCap
    /\ NoStall
    /\ IsFiniteSet(completed)
    /\ IsFiniteSet(paused)

TimersType == [Videos -> 0 .. MaxTimers]

(* A handler that ends in processQueue().                                  *)
LEMMA AfterProcessQueue ==
  ASSUME NEW q \in Seq(Entry), NEW ps \in PartsType, NEW b \in BarType,
         Cardinality(Downloading(q)) <= MaxConcurrent,
         ProcessQueue(q, ps, b),
         files' \in PartsType, timers' \in TimersType,
         completed' \in SUBSET Saved, IsFiniteSet(completed'),
         paused' \in SUBSET Saved, IsFiniteSet(paused')
  PROVE  IInv'
<1>1. /\ entries' \in Seq(Entry)
      /\ parts' \in PartsType
      /\ bar' \in BarType
      /\ SlotCap'
      /\ Cardinality(Downloading(entries')) >= MaxConcurrent \/ Queued(entries') = {}
  BY ProcessQueueRows
<1>2. TypeOK'
  BY <1>1 DEF TypeOK, PartsType, BarType, TimersType
<1>3. Cardinality(Downloading(entries')) \in Nat
  BY <1>1, RowsFinite DEF Downloading
<1>4. NoStall'
  BY <1>1, <1>3, LimitsAssumption DEF NoStall
<1> QED
  BY <1>1, <1>2, <1>4 DEF IInv

(* A handler that leaves id and status of every row alone.                 *)
LEMMA SameRows ==
  ASSUME IInv, entries' \in Seq(Entry), DOMAIN entries' = DOMAIN entries,
         \A i \in DOMAIN entries : /\ entries'[i].id = entries[i].id
                                   /\ entries'[i].status = entries[i].status,
         parts' \in PartsType, files' \in PartsType, bar' \in BarType,
         UNCHANGED <<timers, completed, paused>>
  PROVE  IInv'
<1>1. /\ Downloading(entries') = Downloading(entries)
      /\ Queued(entries') = Queued(entries)
  BY DEF Downloading, Queued, RowsIn
<1>2. TypeOK'
  BY DEF IInv, TypeOK, PartsType, BarType
<1>3. SlotCap'
  BY <1>1 DEF IInv, SlotCap
<1>4. DOMAIN entries = 1 .. Len(entries)
  BY DEF IInv, TypeOK
<1>5. \A v \in Videos, i \in DOMAIN entries :
         IsFirst(entries, v, i) => IsFirst(entries', v, i)
  BY <1>4 DEF IsFirst
<1>6. NoStall'
  BY <1>1, <1>5 DEF IInv, NoStall
<1> QED
  BY <1>2, <1>3, <1>6 DEF IInv

(* A handler that erases rows that have ended.                             *)
LEMMA AfterErasing ==
  ASSUME IInv, NEW S \in SUBSET DOMAIN entries, entries' \in Keeping(entries, S),
         DOMAIN entries \ S \subseteq RowsIn(entries, Terminal),
         bar' \in BarType, completed' \in SUBSET Saved, IsFiniteSet(completed'),
         UNCHANGED <<parts, files, timers, paused>>
  PROVE  IInv'
<1>1. entries \in Seq(Entry)
  BY DEF IInv, TypeOK
<1>2. entries' \in Seq(Entry)
  BY <1>1, KeepingRows
<1>3. /\ Cardinality(Downloading(entries')) = Cardinality(Downloading(entries))
      /\ Queued(entries') # {} => Queued(entries) # {}
      /\ \A v, i : IsFirst(entries, v, i) /\ entries[i].status = "Queued" =>
             \E a \in DOMAIN entries' : IsFirst(entries', v, a) /\ entries'[a].status = "Queued"
  BY <1>1, ErasingEnded
<1>4. TypeOK'
  BY <1>2 DEF IInv, TypeOK, BarType
<1>5. SlotCap'
  BY <1>3 DEF IInv, SlotCap
<1>6. NoStall'
  BY <1>3 DEF IInv, NoStall
<1> QED
  BY <1>4, <1>5, <1>6 DEF IInv

LEMMA InitIInv == Init => IInv
<1> SUFFICES ASSUME Init PROVE IInv
  OBVIOUS
<1>1. TypeOK
  BY LimitsAssumption DEF Init, TypeOK
<1>2. Downloading(entries) = {} /\ Queued(entries) = {}
  BY DEF Init, Downloading, Queued, RowsIn
<1>3. SlotCap /\ NoStall
  BY <1>2, FS_EmptySet, LimitsAssumption DEF SlotCap, NoStall
<1> QED
  BY <1>1, <1>3, FS_EmptySet DEF IInv, Init

-------------------------------------------------------------------------------
(* One lemma per operation of the user interface.                          *)
LEMMA Facts ==
  ASSUME IInv
  PROVE  /\ entries \in Seq(Entry) /\ \A i \in DOMAIN entries : entries[i] \in Entry
         /\ parts \in PartsType /\ files \in PartsType /\ bar \in BarType
         /\ timers \in TimersType
         /\ completed \in SUBSET Saved /\ IsFiniteSet(completed)
         /\ paused \in SUBSET Saved /\ IsFiniteSet(paused)
         /\ Cardinality(Downloading(entries)) <= MaxConcurrent
         /\ \A v \in Videos : Focus(v) \in BarType
         /\ \A p : WithoutPart(parts, p) \in PartsType
         /\ {"Queued", "Paused", "Failed", "Canceled", "Completed"}
               \subseteq Statuses \ {"Downloading"}
         /\ "None" \in Reasons
<1>1. /\ entries \in Seq(Entry)
      /\ parts \in PartsType /\ files \in PartsType /\ bar \in BarType
      /\ timers \in TimersType
      /\ completed \in SUBSET Saved /\ IsFiniteSet(completed)
      /\ paused \in SUBSET Saved /\ IsFiniteSet(paused)
      /\ Cardinality(Downloading(entries)) <= MaxConcurrent
  BY DEF IInv, TypeOK, SlotCap, PartsType, BarType, TimersType
<1>2. \A i \in DOMAIN entries : entries[i] \in Entry
  BY <1>1
<1>3. \A v \in Videos : Focus(v) \in BarType
  BY DEF Focus, BarType
<1>4. \A p : WithoutPart(parts, p) \in PartsType
  BY <1>1 DEF WithoutPart, PartsType
<1> QED
  BY <1>1, <1>2, <1>3, <1>4 DEF Statuses, Reasons

LEMMA EnqueueStep ==
  ASSUME IInv, NEW v \in Videos, NEW x \in Exts, NEW hint \in 0 .. Size,
         Enqueue(v, x, hint)
  PROVE  IInv'
<1> DEFINE S == {i \in DOMAIN entries : ~ IsFirst(entries, v, i)}
           row == NewRow(v, x, hint)
<1>1. PICK q \in Keeping(entries, S) : ProcessQueue(Append(q, row), parts, Focus(v))
  BY DEF Enqueue
<1>2. row \in Entry /\ row.status = "Queued"
  <2>1. DestPath(files, parts, TitleOf[v], x) \in Paths
    BY DestPathType, TitleAssumption
  <2>2. 1 \in 1 .. Size + 1 /\ MaxRetries \in 0 .. MaxRetries
    BY SizeAssumption, LimitsAssumption
  <2> QED
    BY <2>1, <2>2 DEF NewRow, Entry, Statuses, Reasons
<1>3. /\ q \in Seq(Entry)
      /\ Cardinality(Downloading(q)) <= Cardinality(Downloading(entries))
  BY <1>1, Facts, KeepingRows, KeepingSlots
<1>4. Append(q, row) \in Seq(Entry)
  BY <1>2, <1>3
<1>5. Downloading(Append(q, row)) \subseteq Downloading(q)
  BY <1>2, <1>3 DEF Downloading, RowsIn
<1>6. Cardinality(Downloading(Append(q, row))) <= MaxConcurrent
  <2>1. /\ Cardinality(Downloading(Append(q, row))) <= Cardinality(Downloading(q))
        /\ Cardinality(Downloading(entries)) <= MaxConcurrent
    BY <1>3, <1>5, Facts, FewerDownloading
  <2>2. /\ Cardinality(Downloading(Append(q, row))) \in Nat
        /\ Cardinality(Downloading(q)) \in Nat
        /\ Cardinality(Downloading(entries)) \in Nat
    BY <1>3, <1>4, Facts, RowsFinite DEF Downloading
  <2> QED
    BY <1>3, <2>1, <2>2, LimitsAssumption
<1>7. UNCHANGED <<files, timers, completed, paused>>
  BY DEF Enqueue
<1> HIDE DEF row
<1> QED
  BY <1>1, <1>4, <1>6, <1>7, Facts, AfterProcessQueue

(* cancel(), the failed and the paused transfer: row i stops, then         *)
(* processQueue().                                                         *)
LEMMA StopStep ==
  ASSUME IInv, NEW i \in DOMAIN entries,
         NEW status \in Statuses \ {"Downloading"}, NEW reason \in Reasons,
         NEW ps \in PartsType, NEW b \in BarType,
         ProcessQueue(Torn(entries, i, status, reason), ps, b),
         files' \in PartsType, UNCHANGED timers,
         completed' \in SUBSET Saved, IsFiniteSet(completed'),
         paused' \in SUBSET Saved, IsFiniteSet(paused')
  PROVE  IInv'
<1> DEFINE q == Torn(entries, i, status, reason)
<1>1. /\ q \in Seq(Entry)
      /\ Cardinality(Downloading(q)) <= Cardinality(Downloading(entries))
  BY Facts, TornRows
<1>2. /\ Cardinality(Downloading(q)) \in Nat
      /\ Cardinality(Downloading(entries)) \in Nat
      /\ Cardinality(Downloading(entries)) <= MaxConcurrent
  BY <1>1, Facts, RowsFinite DEF Downloading
<1>3. Cardinality(Downloading(q)) <= MaxConcurrent
  BY <1>1, <1>2, LimitsAssumption
<1>4. timers' \in TimersType
  BY Facts
<1> HIDE DEF q
<1>5. ProcessQueue(q, ps, b)
  BY DEF q
<1> QED
  BY <1>1, <1>3, <1>4, <1>5, AfterProcessQueue

LEMMA CancelStep ==
  ASSUME IInv, NEW v \in Videos, Cancel(v)
  PROVE  IInv'
<1>1. PICK i \in DOMAIN entries :
        /\ ProcessQueue(Torn(entries, i, "Canceled", "None"),
                        WithoutPart(parts, entries[i].dest), Ended(bar, {v}))
        /\ UNCHANGED <<files, timers, completed, paused>>
  BY DEF Cancel
<1>2. Ended(bar, {v}) \in BarType
  BY Facts, EndedType
<1> QED
  BY <1>1, <1>2, Facts, StopStep

LEMMA PauseStep ==
  ASSUME IInv, NEW v \in Videos, Pause(v)
  PROVE  IInv'
<1>1. PICK i \in DOMAIN entries :
        /\ paused' = SavedPaused(Torn(entries, i, "Paused", "None"))
        /\ ProcessQueue(Torn(entries, i, "Paused", "None"), parts, bar)
        /\ UNCHANGED <<files, timers, completed>>
  BY DEF Pause
<1>2. paused' \in SUBSET Saved /\ IsFiniteSet(paused')
  BY <1>1, Facts, TornRows, RecordsType DEF SavedPaused
<1> QED
  BY <1>1, <1>2, Facts, StopStep

LEMMA ResumeStep ==
  ASSUME IInv, NEW v \in Videos, Resume(v)
  PROVE  IInv'
<1>1. PICK i \in DOMAIN entries :
        /\ paused' = SavedPaused(Torn(entries, i, "Queued", "None"))
        /\ ProcessQueue(Torn(entries, i, "Queued", "None"), parts, Focus(v))
        /\ UNCHANGED <<files, timers, completed>>
  BY DEF Resume
<1>2. paused' \in SUBSET Saved /\ IsFiniteSet(paused')
  BY <1>1, Facts, TornRows, RecordsType DEF SavedPaused
<1> QED
  BY <1>1, <1>2, Facts, StopStep

LEMMA PauseAllStep ==
  ASSUME IInv, PauseAll
  PROVE  IInv'
<1>1. /\ entries' = AllTorn(entries, InFlight, "Paused")
      /\ paused' = SavedPaused(entries')
      /\ UNCHANGED <<parts, files, timers, bar, completed>>
  BY DEF PauseAll
<1>2. entries' \in Seq(Entry) /\ Downloading(entries') \subseteq Downloading(entries)
  BY <1>1, Facts, AllTornRows
<1>3. paused' \in SUBSET Saved /\ IsFiniteSet(paused')
  BY <1>1, <1>2, RecordsType DEF SavedPaused
<1>4. TypeOK'
  BY <1>1, <1>2, <1>3 DEF IInv, TypeOK
<1>5. SlotCap'
  <2>1. Cardinality(Downloading(entries')) <= Cardinality(Downloading(entries))
    BY <1>2, Facts, FewerDownloading
  <2>2. /\ Cardinality(Downloading(entries')) \in Nat
        /\ Cardinality(Downloading(entries)) \in Nat
    BY <1>2, Facts, RowsFinite DEF Downloading
  <2> QED
    BY <2>1, <2>2, Facts, LimitsAssumption DEF SlotCap
<1>6. Queued(entries') = {}
  <2>1. \A i \in DOMAIN entries :
          /\ entries[i] \in Entry
          /\ Stopped(entries[i], "Paused", "None").status = "Paused"
    BY Facts, StoppedType
  <2> QED
    BY <1>1, <2>1 DEF AllTorn, Queued, RowsIn, InFlight
<1>7. NoStall'
  BY <1>6 DEF NoStall
<1> QED
  BY <1>1, <1>3, <1>4, <1>5, <1>7, Facts DEF IInv

LEMMA ResumeAllStep ==
  ASSUME IInv, ResumeAll
  PROVE  IInv'
<1> DEFINE q == AllTorn(entries, {"Paused"}, "Queued")
<1>1. /\ paused' = SavedPaused(q)
      /\ ProcessQueue(q, parts, bar)
      /\ UNCHANGED <<files, timers, completed>>
  BY DEF ResumeAll
<1>2. /\ q \in Seq(Entry)
      /\ Cardinality(Downloading(q)) <= Cardinality(Downloading(entries))
  BY Facts, AllTornRows
<1> HIDE DEF q
<1>3. paused' \in SUBSET Saved /\ IsFiniteSet(paused')
  BY <1>1, <1>2, RecordsType DEF SavedPaused
<1>4. Cardinality(Downloading(q)) <= MaxConcurrent
  <2>1. /\ Cardinality(Downloading(q)) \in Nat
        /\ Cardinality(Downloading(entries)) \in Nat
        /\ Cardinality(Downloading(entries)) <= MaxConcurrent
    BY <1>2, Facts, RowsFinite DEF Downloading
  <2> QED
    BY <1>2, <2>1, LimitsAssumption
<1> QED
  BY <1>1, <1>2, <1>3, <1>4, Facts, AfterProcessQueue

LEMMA RemoveActiveStep ==
  ASSUME IInv, NEW v \in Videos, RemoveActive(v)
  PROVE  IInv'
<1>0. PICK i \in DOMAIN entries :
        \E q \in Keeping(Torn(entries, i, "Canceled", "None"), DOMAIN entries \ {i}) :
           ProcessQueue(q, WithoutPart(parts, entries[i].dest), Dropped(bar, {v}))
  BY DEF RemoveActive
<1>1. PICK q \in Keeping(Torn(entries, i, "Canceled", "None"), DOMAIN entries \ {i}) :
        ProcessQueue(q, WithoutPart(parts, entries[i].dest), Dropped(bar, {v}))
  BY <1>0
<1> DEFINE t == Torn(entries, i, "Canceled", "None")
<1>2. /\ t \in Seq(Entry)
      /\ Cardinality(Downloading(t)) <= Cardinality(Downloading(entries))
  BY Facts, TornRows
<1>3. DOMAIN t = DOMAIN entries
  BY DEF Torn
<1> HIDE DEF t
<1>4. DOMAIN entries \ {i} \in SUBSET DOMAIN t /\ q \in Keeping(t, DOMAIN entries \ {i})
  BY <1>1, <1>3 DEF t
<1>5. q \in Seq(Entry) /\ Cardinality(Downloading(q)) <= Cardinality(Downloading(t))
  BY <1>2, <1>4, KeepingRows, KeepingSlots
<1>6. Cardinality(Downloading(q)) <= MaxConcurrent
  <2>1. /\ Cardinality(Downloading(q)) \in Nat
        /\ Cardinality(Downloading(t)) \in Nat
        /\ Cardinality(Downloading(entries)) \in Nat
        /\ Cardinality(Downloading(entries)) <= MaxConcurrent
    BY <1>2, <1>5, Facts, RowsFinite DEF Downloading
  <2> QED
    BY <1>2, <1>5, <2>1, LimitsAssumption
<1>7. Dropped(bar, {v}) \in BarType
  BY Facts, EndedType
<1>8. UNCHANGED <<files, timers, completed, paused>>
  BY DEF RemoveActive
<1> QED
  BY <1>1, <1>5, <1>6, <1>7, <1>8, Facts, AfterProcessQueue

LEMMA RemoveEndedStep ==
  ASSUME IInv, NEW v \in Videos, RemoveEnded(v)
  PROVE  IInv'
<1>1. PICK i \in DOMAIN entries :
        /\ entries[i].status \in Terminal
        /\ entries' \in Keeping(entries, DOMAIN entries \ {i})
        /\ bar' = Dropped(bar, {v})
        /\ completed' \in SavedCompleted(entries') \/ completed' = completed
        /\ UNCHANGED <<parts, files, timers, paused>>
  BY DEF RemoveEnded
<1> DEFINE S == DOMAIN entries \ {i}
<1>2. S \in SUBSET DOMAIN entries /\ DOMAIN entries \ S \subseteq RowsIn(entries, Terminal)
  BY <1>1 DEF RowsIn
<1>3. entries' \in Seq(Entry)
  BY <1>1, Facts, KeepingRows
<1>4. completed' \in SUBSET Saved /\ IsFiniteSet(completed')
  BY <1>1, <1>3, Facts, SavedCompletedType
<1>5. bar' \in BarType
  BY <1>1, Facts, EndedType
<1> QED
  BY <1>1, <1>2, <1>4, <1>5, AfterErasing

LEMMA ClearCompletedStep ==
  ASSUME IInv, ClearCompleted
  PROVE  IInv'
<1> DEFINE S == RowsIn(entries, Active)
<1>1. /\ entries' \in Keeping(entries, S)
      /\ bar' = Dropped(bar, {entries[i].id : i \in RowsIn(entries, Terminal)})
      /\ completed' \in SavedCompleted(entries') \/ completed' = completed
      /\ UNCHANGED <<parts, files, timers, paused>>
  BY DEF ClearCompleted
<1>2. S \in SUBSET DOMAIN entries /\ DOMAIN entries \ S \subseteq RowsIn(entries, Terminal)
  <2>1. \A i \in DOMAIN entries : entries[i].status \in Statuses
    BY Facts DEF Entry
  <2> QED
    BY <2>1 DEF RowsIn, Active, InFlight, Terminal, Statuses
<1>3. entries' \in Seq(Entry)
  BY <1>1, <1>2, Facts, KeepingRows
<1>4. completed' \in SUBSET Saved /\ IsFiniteSet(completed')
  BY <1>1, <1>3, Facts, SavedCompletedType
<1>5. bar' \in BarType
  BY <1>1, Facts, EndedType
<1> QED
  BY <1>1, <1>2, <1>4, <1>5, AfterErasing

LEMMA PurgeStaleCompletedStep ==
  ASSUME IInv, PurgeStaleCompleted
  PROVE  IInv'
<1> DEFINE S == DOMAIN entries \ Stale(entries)
<1>1. /\ entries' \in Keeping(entries, S)
      /\ completed' \in SavedCompleted(entries')
      /\ UNCHANGED <<parts, files, timers, bar, paused>>
  BY DEF PurgeStaleCompleted
<1>2. S \in SUBSET DOMAIN entries /\ DOMAIN entries \ S \subseteq RowsIn(entries, Terminal)
  BY DEF Stale, RowsIn, Terminal
<1>3. entries' \in Seq(Entry)
  BY <1>1, <1>2, Facts, KeepingRows
<1>4. completed' \in SUBSET Saved /\ IsFiniteSet(completed')
  BY <1>1, <1>3, SavedCompletedType
<1> QED
  BY <1>1, <1>2, <1>4, Facts, AfterErasing

LEMMA BarStep ==
  ASSUME IInv, (\E v \in Videos : StartAgain(v)) \/ DismissLatest \/ HideTimeout
  PROVE  IInv'
<1>1. /\ UNCHANGED <<entries, parts, files, timers, completed, paused>>
      /\ bar' \in BarType
  BY Facts DEF StartAgain, DismissLatest, HideTimeout, BarType
<1> QED
  BY <1>1, Facts, SameRows

LEMMA UserStepIInv ==
  ASSUME IInv, UserStep
  PROVE  IInv'
<1>1. ASSUME NEW v \in Videos, NEW hint \in SizeHints, Start(v, hint) PROVE IInv'
  <2>1. hint \in 0 .. Size
    BY SizeAssumption
  <2>2. "guess" \in Exts /\ "true" \in Exts
    BY DEF Exts
  <2> QED
    BY <1>1, <2>1, <2>2, EnqueueStep DEF Start
<1>2. ASSUME NEW v \in Videos, Retry(v) PROVE IInv'
  <2>1. PICK i \in DOMAIN entries : Enqueue(v, entries[i].dest[2], entries[i].total)
    BY <1>2 DEF Retry
  <2>2. entries[i].dest[2] \in Exts /\ entries[i].total \in 0 .. Size
    BY Facts DEF Entry, Paths
  <2> QED
    BY <2>1, <2>2, EnqueueStep
<1> QED
  BY <1>1, <1>2, CancelStep, PauseStep, ResumeStep, PauseAllStep, ResumeAllStep,
     RemoveActiveStep, RemoveEndedStep, ClearCompletedStep, PurgeStaleCompletedStep,
     BarStep DEF UserStep

-------------------------------------------------------------------------------
(* One lemma per timer and per outcome of handleFinished().                *)
LEMMA RetryKickStep ==
  ASSUME IInv, NEW v \in Videos, RetryKick(v)
  PROVE  IInv'
<1>1. /\ timers[v] > 0 /\ timers' = [timers EXCEPT ![v] = @ - 1]
      /\ UNCHANGED <<files, completed, paused>>
  BY DEF RetryKick
<1>2. timers' \in TimersType
  BY <1>1, Facts, LimitsAssumption DEF TimersType
<1>3. CASE Wakes(v)
  <2>1. ProcessQueue(entries, parts, bar)
    BY <1>3 DEF RetryKick
  <2> QED
    BY <1>1, <1>2, <2>1, Facts, AfterProcessQueue
<1>4. CASE ~ Wakes(v)
  <2>1. UNCHANGED <<entries, parts, bar>>
    BY <1>4 DEF RetryKick
  <2>2. TypeOK'
    BY <1>1, <1>2, <2>1 DEF IInv, TypeOK, TimersType
  <2>3. SlotCap'
    BY <2>1 DEF IInv, SlotCap
  <2>4. NoStall'
    <3> SUFFICES ASSUME Cardinality(Downloading(entries)) < MaxConcurrent,
                        Queued(entries) # {}
                 PROVE  \E u \in Videos, i \in DOMAIN entries :
                           timers'[u] > 0 /\ IsFirst(entries, u, i)
                           /\ entries[i].status = "Queued"
      BY <2>1 DEF NoStall
    <3>1. PICK u \in Videos, i \in DOMAIN entries :
             timers[u] > 0 /\ IsFirst(entries, u, i) /\ entries[i].status = "Queued"
      BY DEF IInv, NoStall
    <3>2. u # v
      BY <1>4, <3>1 DEF Wakes
    <3>3. timers'[u] = timers[u]
      BY <1>1, <3>2, Facts DEF TimersType
    <3> QED
      BY <3>1, <3>3
  <2> QED
    BY <1>1, <2>2, <2>3, <2>4 DEF IInv
<1> QED
  BY <1>3, <1>4

LEMMA PartsExcept ==
  ASSUME NEW ps \in PartsType, NEW p, NEW c \in Seq(Cells) \cup {NoFile}
  PROVE  [ps EXCEPT ![p] = c] \in PartsType
BY DEF PartsType

LEMMA FailStep ==
  ASSUME IInv, NEW i \in DOMAIN entries, NEW reason \in Reasons, Fail(i, reason)
  PROVE  IInv'
<1>1. /\ ProcessQueue(Torn(entries, i, "Failed", reason),
                      Dropping(entries[i]), Ended(bar, {entries[i].id}))
      /\ UNCHANGED <<files, timers, completed, paused>>
  BY DEF Fail
<1>2. Dropping(entries[i]) \in PartsType
  BY Facts DEF Dropping
<1>3. Ended(bar, {entries[i].id}) \in BarType
  BY Facts, EndedType
<1> QED
  BY <1>1, <1>2, <1>3, Facts, StopStep

(* The slot a transfer that backs off gives up is not offered to anybody:  *)
(* the timer it arms is the witness NoStall asks for.                      *)
LEMMA BackOffStep ==
  ASSUME IInv, NEW i \in DOMAIN entries, NEW ps \in PartsType,
         IsFirst(entries, entries[i].id, i), entries[i].retries > 0, BackOff(i, ps)
  PROVE  IInv'
<1> DEFINE e == entries[i]
           row == [Stopped(e, "Queued", "None") EXCEPT !.retries = @ - 1]
<1>1. /\ timers[e.id] < MaxTimers
      /\ entries' = [entries EXCEPT ![i] = row]
      /\ parts' = ps
      /\ timers' = [timers EXCEPT ![e.id] = @ + 1]
      /\ UNCHANGED <<files, bar, completed, paused>>
  <2>1. /\ timers[e.id] < MaxTimers
        /\ parts' = ps
        /\ timers' = [timers EXCEPT ![e.id] = @ + 1]
        /\ UNCHANGED <<files, bar, completed, paused>>
    BY DEF BackOff, ScheduleRetryKick
  <2>2. entries' = [entries EXCEPT ![i] = row]
    BY Facts DEF BackOff
  <2> QED
    BY <2>1, <2>2
<1>2. e \in Entry /\ e.id \in Videos
  BY Facts DEF Entry
<1>3. row \in Entry /\ row.status = "Queued" /\ row.id = e.id
  <2>1. /\ Stopped(e, "Queued", "None") \in Entry
        /\ Stopped(e, "Queued", "None").status = "Queued"
        /\ Stopped(e, "Queued", "None").id = e.id
        /\ Stopped(e, "Queued", "None").retries = e.retries
    BY <1>2, Facts, StoppedType
  <2>2. e.retries - 1 \in 0 .. MaxRetries
    BY <1>2, LimitsAssumption DEF Entry
  <2> QED
    BY <2>1, <2>2 DEF Entry
<1> HIDE DEF row
<1>4. /\ entries' \in Seq(Entry) /\ DOMAIN entries' = DOMAIN entries
      /\ \A j \in DOMAIN entries : entries'[j] = IF j = i THEN row ELSE entries[j]
  BY <1>1, <1>3, Facts
<1>5. /\ timers' \in TimersType /\ timers'[e.id] > 0
  BY <1>1, <1>2, Facts, LimitsAssumption DEF TimersType
<1>6. TypeOK'
  BY <1>1, <1>4, <1>5, Facts DEF TypeOK, PartsType, BarType, TimersType
<1>7. Downloading(entries') \subseteq Downloading(entries)
  BY <1>3, <1>4 DEF Downloading, RowsIn
<1>8. SlotCap'
  <2>1. Cardinality(Downloading(entries')) <= Cardinality(Downloading(entries))
    BY <1>7, Facts, FewerDownloading
  <2>2. /\ Cardinality(Downloading(entries')) \in Nat
        /\ Cardinality(Downloading(entries)) \in Nat
    BY <1>4, Facts, RowsFinite DEF Downloading
  <2> QED
    BY <2>1, <2>2, Facts, LimitsAssumption DEF SlotCap
<1>9. IsFirst(entries', e.id, i) /\ entries'[i].status = "Queued"
  <2>1. DOMAIN entries = 1 .. Len(entries) /\ i \in Nat
    BY Facts
  <2>2. \A j \in 1 .. i - 1 : j \in DOMAIN entries /\ j # i
    BY <2>1
  <2> QED
    BY <1>3, <1>4, <2>2 DEF IsFirst
<1>10. NoStall'
  BY <1>2, <1>4, <1>5, <1>9 DEF NoStall
<1> QED
  BY <1>1, <1>6, <1>8, <1>10, Facts DEF IInv

LEMMA NetFailureStep ==
  ASSUME IInv, NEW i \in DOMAIN entries, NEW ps \in PartsType, NEW nerr,
         IsFirst(entries, entries[i].id, i), NetFailure(i, nerr, ps)
  PROVE  IInv'
<1>1. CASE MayRetry(entries[i], nerr)
  BY <1>1, BackOffStep DEF NetFailure, MayRetry
<1>2. CASE ~ MayRetry(entries[i], nerr)
  <2>1. "Timeout" \in Reasons /\ "Network" \in Reasons
    BY DEF Reasons
  <2> QED
    BY <1>2, <2>1, FailStep DEF NetFailure
<1> QED
  BY <1>1, <1>2

LEMMA FinalizeFailedStep ==
  ASSUME IInv, NEW i \in DOMAIN entries, FinalizeFailed(i)
  PROVE  IInv'
<1> DEFINE e == entries[i]
<1>1. /\ files' = [files EXCEPT ![e.dest] = IF e.file = "none" THEN @ ELSE NoFile]
      /\ ProcessQueue(Torn(entries, i, "Failed", "DiskWrite"), Dropping(e),
                      Ended(bar, {e.id}))
      /\ UNCHANGED <<timers, completed, paused>>
  BY DEF FinalizeFailed
<1>2. files' \in PartsType
  BY <1>1, Facts DEF PartsType
<1>3. Dropping(e) \in PartsType /\ Ended(bar, {e.id}) \in BarType
  BY Facts, EndedType DEF Dropping
<1>4. "DiskWrite" \in Reasons
  BY DEF Reasons
<1> QED
  BY <1>1, <1>2, <1>3, <1>4, Facts, StopStep

LEMMA CompleteStep ==
  ASSUME IInv, NEW i \in DOMAIN entries, NEW c \in Seq(Cells) \cup {NoFile},
         NEW received \in 0 .. Size, Complete(i, c, received)
  PROVE  IInv'
<1> DEFINE e == entries[i]
           done == [Stopped(e, "Completed", "None") EXCEPT
                      !.total = IF @ = 0 THEN received ELSE @]
           q == [entries EXCEPT ![i] = done]
<1>1. /\ files' = [files EXCEPT ![e.dest] = c]
      /\ completed' \in SavedCompleted(q)
      /\ ProcessQueue(q, WithoutPart(parts, e.dest), Ended(bar, {e.id}))
      /\ UNCHANGED <<timers, paused>>
  BY DEF Complete
<1>2. done \in Entry /\ done.status = "Completed"
  <2>1. /\ Stopped(e, "Completed", "None") \in Entry
        /\ Stopped(e, "Completed", "None").status = "Completed"
    BY Facts, StoppedType
  <2> QED
    BY <2>1 DEF Entry
<1> HIDE DEF done
<1>3. /\ q \in Seq(Entry) /\ DOMAIN q = DOMAIN entries
      /\ \A j \in DOMAIN entries : q[j] = IF j = i THEN done ELSE entries[j]
  BY <1>2, Facts
<1> HIDE DEF q
<1>4. Downloading(q) \subseteq Downloading(entries)
  BY <1>2, <1>3 DEF Downloading, RowsIn
<1>5. Cardinality(Downloading(q)) <= MaxConcurrent
  <2>1. Cardinality(Downloading(q)) <= Cardinality(Downloading(entries))
    BY <1>4, Facts, FewerDownloading
  <2>2. /\ Cardinality(Downloading(q)) \in Nat
        /\ Cardinality(Downloading(entries)) \in Nat
    BY <1>3, Facts, RowsFinite DEF Downloading
  <2> QED
    BY <2>1, <2>2, Facts, LimitsAssumption
<1>6. completed' \in SUBSET Saved /\ IsFiniteSet(completed')
  BY <1>1, <1>3, SavedCompletedType
<1>7. files' \in PartsType /\ Ended(bar, {e.id}) \in BarType
  BY <1>1, Facts, PartsExcept, EndedType
<1> QED
  BY <1>1, <1>3, <1>5, <1>6, <1>7, Facts, AfterProcessQueue

-------------------------------------------------------------------------------
(* Contents stay sequences of cells.                                       *)
LEMMA PrefixType ==
  ASSUME NEW c \in Seq(Cells), NEW m \in Nat \ {0}, NEW k \in 0 .. Len(c)
  PROVE  SubSeq(c, m, k) \in Seq(Cells)
<1>1. \A j \in m .. k : c[j] \in Cells
  OBVIOUS
<1> QED
  BY <1>1, SubSeqProperties

LEMMA WrittenType ==
  ASSUME NEW c \in Seq(Cells) \cup {NoFile}, NEW chunk \in Seq(Cells)
  PROVE  /\ Written(c, chunk) \in Seq(Cells) \cup {NoFile}
         /\ WriteFailed(c, chunk) \subseteq Seq(Cells) \cup {NoFile}
         /\ Truncated(c) \in Seq(Cells) \cup {NoFile}
         /\ LostTail(c) \subseteq Seq(Cells) \cup {NoFile}
<1>1. \A d \in Seq(Cells) : Written(c, d) \in Seq(Cells) \cup {NoFile}
  BY DEF Written
<1>2. \A k \in 0 .. Len(chunk) : SubSeq(chunk, 1, k) \in Seq(Cells)
  BY PrefixType
<1>3. WriteFailed(c, chunk) \subseteq Seq(Cells) \cup {NoFile}
  BY <1>1, <1>2 DEF WriteFailed
<1>4. LostTail(c) \subseteq Seq(Cells) \cup {NoFile}
  BY PrefixType DEF LostTail
<1> QED
  BY <1>1, <1>3, <1>4 DEF Truncated

LEMMA BufferedType ==
  ASSUME NEW e \in Entry
  PROVE  Buffered(e) \in Seq(Cells)
<1>1. Body(e.id) \in Seq(Cells) /\ Len(Body(e.id)) = Size
  BY SizeAssumption DEF Body, Cells, Entry
<1>2. e.next \in Nat \ {0} /\ Size \in 0 .. Size
  BY SizeAssumption DEF Entry
<1> QED
  BY <1>1, <1>2, PrefixType DEF Buffered

LEMMA OnDiskType ==
  ASSUME IInv, NEW e \in Entry, NEW written \in BOOLEAN
  PROVE  OnDisk(e, written) \subseteq Seq(Cells) \cup {NoFile}
<1>1. parts[e.dest] \in Seq(Cells) \cup {NoFile}
  BY Facts DEF PartsType, Entry
<1>2. Buffered(e) \in Seq(Cells)
  BY BufferedType
<1>3. (IF written THEN {Written(parts[e.dest], Buffered(e))}
                  ELSE WriteFailed(parts[e.dest], Buffered(e)))
        \subseteq Seq(Cells) \cup {NoFile}
  BY <1>1, <1>2, WrittenType
<1>4. \A c \in Seq(Cells) \cup {NoFile} :
         (IF "flush" \in Faults THEN LostTail(c) ELSE {c}) \subseteq Seq(Cells) \cup {NoFile}
  BY <1>2, WrittenType
<1> QED
  BY <1>3, <1>4 DEF OnDisk

(* A signal of the reply that changes one row's bookkeeping, not its       *)
(* status.                                                                 *)
LEMMA RowStep ==
  ASSUME IInv, NEW i \in DOMAIN entries, NEW e \in Entry,
         e.id = entries[i].id, e.status = entries[i].status,
         entries' = [entries EXCEPT ![i] = e], parts' \in PartsType,
         UNCHANGED <<files, timers, bar, completed, paused>>
  PROVE  IInv'
<1>1. /\ entries' \in Seq(Entry) /\ DOMAIN entries' = DOMAIN entries
      /\ \A j \in DOMAIN entries : entries'[j] = IF j = i THEN e ELSE entries[j]
  BY Facts
<1> QED
  BY <1>1, Facts, SameRows

LEMMA PartialContentStep ==
  ASSUME IInv, NEW i \in DOMAIN entries, NEW known \in BOOLEAN, PartialContent(i, known)
  PROVE  IInv'
<1> DEFINE total == IF known THEN Size ELSE entries[i].total
           e == [entries[i] EXCEPT !.reply = "body", !.next = entries[i].from + 1,
                                   !.total = total]
<1>1. entries[i].from + 1 \in 1 .. Size + 1 /\ Size \in 0 .. Size
  BY SizeAssumption DEF PartialContent
<1>2. e \in Entry /\ e.id = entries[i].id /\ e.status = entries[i].status
  <2>1. entries[i] \in Entry
    BY Facts
  <2>2. total \in 0 .. Size
    BY <1>1, <2>1 DEF Entry
  <2> HIDE DEF total
  <2> QED
    BY <1>1, <2>1, <2>2 DEF Entry
<1>3. entries' = [entries EXCEPT ![i] = e]
  BY Facts DEF PartialContent, Entry
<1>4. UNCHANGED <<parts, files, timers, bar, completed, paused>>
  BY DEF PartialContent
<1> HIDE DEF e
<1> QED
  BY <1>2, <1>3, <1>4, Facts, RowStep

LEMMA LearnTotalStep ==
  ASSUME IInv, NEW i \in DOMAIN entries, LearnTotal(i)
  PROVE  IInv'
<1> DEFINE e == [entries[i] EXCEPT !.total = Size]
<1>1. e \in Entry /\ e.id = entries[i].id /\ e.status = entries[i].status
  <2>1. Size \in 0 .. Size /\ entries[i] \in Entry
    BY Facts, SizeAssumption
  <2> QED
    BY <2>1 DEF Entry
<1>2. entries' = [entries EXCEPT ![i] = e]
  BY Facts DEF LearnTotal
<1>3. UNCHANGED <<parts, files, timers, bar, completed, paused>>
  BY DEF LearnTotal
<1> HIDE DEF e
<1> QED
  BY <1>1, <1>2, <1>3, Facts, RowStep

LEMMA ChunkStep ==
  ASSUME IInv, NEW i \in DOMAIN entries, Chunk(i)
  PROVE  IInv'
<1> DEFINE e == [entries[i] EXCEPT !.next = @ + 1]
           cell == <<entries[i].id, entries[i].next>>
<1>1. entries[i].next \in 1 .. Size /\ entries[i].next + 1 \in 1 .. Size + 1
  BY SMTT(30), Facts, SizeAssumption DEF Chunk, Entry
<1>2. e \in Entry /\ e.id = entries[i].id /\ e.status = entries[i].status
  BY <1>1, Facts DEF Entry
<1>3. entries' = [entries EXCEPT ![i] = e]
  BY Facts DEF Chunk
<1>4. <<cell>> \in Seq(Cells)
  BY SMTT(30), <1>1, Facts DEF Cells, Entry
<1>5. parts[entries[i].dest] \in Seq(Cells) \cup {NoFile}
  BY Facts DEF PartsType, Entry
<1>6. parts' \in PartsType
  BY <1>4, <1>5, Facts, WrittenType, PartsExcept DEF Chunk
<1>7. UNCHANGED <<files, timers, bar, completed, paused>>
  BY DEF Chunk
<1> HIDE DEF e
<1> QED
  BY <1>2, <1>3, <1>6, <1>7, RowStep

LEMMA ChunkFailsStep ==
  ASSUME IInv, NEW i \in DOMAIN entries, ChunkFails(i)
  PROVE  IInv'
<1> DEFINE e == entries[i]
           cell == <<e.id, e.next>>
<1>1. /\ IsFirst(entries, e.id, i)
      /\ e.next <= Size
      /\ \E c \in WriteFailed(parts[e.dest], <<cell>>) :
            NetFailure(i, "canceled", [parts EXCEPT ![e.dest] = c])
  BY DEF ChunkFails, Transferring
<1>2. <<cell>> \in Seq(Cells)
  BY SMTT(30), <1>1, Facts, SizeAssumption DEF Cells, Entry
<1>3. parts[e.dest] \in Seq(Cells) \cup {NoFile}
  BY Facts DEF PartsType, Entry
<1> HIDE DEF cell
<1>4. PICK c \in WriteFailed(parts[e.dest], <<cell>>) :
            NetFailure(i, "canceled", [parts EXCEPT ![e.dest] = c])
  BY <1>1
<1>5. [parts EXCEPT ![e.dest] = c] \in PartsType
  BY <1>2, <1>3, <1>4, Facts, WrittenType, PartsExcept
<1> QED
  BY <1>1, <1>4, <1>5, NetFailureStep

LEMMA WholeBodyStep ==
  ASSUME IInv, NEW i \in DOMAIN entries, NEW typed \in BOOLEAN, WholeBody(i, typed)
  PROVE  IInv'
<1> DEFINE e == [entries[i] EXCEPT !.reply = "body", !.from = 0, !.next = 1]
           ps == Wiped(entries[i])
<1>1. e \in Entry /\ e.id = entries[i].id /\ e.status = entries[i].status
  <2>1. 1 \in 1 .. Size + 1
    BY SizeAssumption
  <2> QED
    BY <2>1, Facts DEF Entry
<1>2. ps \in PartsType
  <2>1. parts[entries[i].dest] \in Seq(Cells) \cup {NoFile}
    BY Facts DEF PartsType, Entry
  <2>2. Truncated(parts[entries[i].dest]) \in Seq(Cells) \cup {NoFile}
    BY <2>1 DEF Truncated
  <2> QED
    BY <2>2, Facts, PartsExcept DEF Wiped
<1>3. UNCHANGED <<files, timers, bar, completed, paused>>
  BY DEF WholeBody
<1>4. IF Relocates(e, typed) THEN Relocated(i, e, ps)
      ELSE entries' = [entries EXCEPT ![i] = e] /\ parts' = ps
  BY DEF WholeBody
<1> HIDE DEF e, ps
<1>5. CASE Relocates(e, typed)
  <2> DEFINE fresh == DestPath(files, ps, TitleOf[e.id], "true")
  <2>1. PICK file \in {"open", "none"} :
           /\ entries' = [entries EXCEPT ![i] =
                            [e EXCEPT !.dest = fresh, !.file = file, !.from = 0]]
           /\ parts' = [WithoutPart(ps, e.dest) EXCEPT ![fresh] =
                            IF file = "open" THEN <<>> ELSE NoFile]
    BY <1>4, <1>5 DEF Relocated
  <2>2. fresh \in Paths
    BY <1>1, DestPathType, TitleAssumption DEF Exts, Entry
  <2> HIDE DEF fresh
  <2> DEFINE f == [e EXCEPT !.dest = fresh, !.file = file, !.from = 0]
  <2>3. f \in Entry /\ f.id = entries[i].id /\ f.status = entries[i].status
    BY <1>1, <2>2 DEF Entry
  <2>4. parts' \in PartsType
    <3>1. WithoutPart(ps, e.dest) \in PartsType
      BY <1>2, PartsExcept DEF WithoutPart
    <3>2. (IF file = "open" THEN <<>> ELSE NoFile) \in Seq(Cells) \cup {NoFile}
      OBVIOUS
    <3> QED
      BY <2>1, <3>1, <3>2, PartsExcept
  <2> HIDE DEF f
  <2>5. entries' = [entries EXCEPT ![i] = f]
    BY <2>1 DEF f
  <2> QED
    BY <1>3, <2>3, <2>4, <2>5, RowStep
<1>6. CASE ~ Relocates(e, typed)
  BY <1>1, <1>2, <1>3, <1>4, <1>6, RowStep
<1> QED
  BY <1>5, <1>6

LEMMA FinishedStep ==
  ASSUME IInv, NEW i \in DOMAIN entries, Finished(i)
  PROVE  IInv'
<1> DEFINE e == entries[i]
<1>1. e \in Entry
  BY Facts
<1>2. CASE FinalizeFailed(i)
  BY <1>2, FinalizeFailedStep
<1>3. CASE ~ FinalizeFailed(i)
  <2>1. PICK written \in BOOLEAN :
          \E c \in OnDisk(e, written) : Complete(i, c, IF written THEN Size ELSE e.next - 1)
    BY <1>3 DEF Finished
  <2>2. PICK c \in OnDisk(e, written) : Complete(i, c, IF written THEN Size ELSE e.next - 1)
    BY <2>1
  <2>3. c \in Seq(Cells) \cup {NoFile}
    BY <1>1, OnDiskType
  <2>4. (IF written THEN Size ELSE e.next - 1) \in 0 .. Size
    BY <1>1, SizeAssumption DEF Entry
  <2> QED
    BY <2>2, <2>3, <2>4, CompleteStep
<1> QED
  BY <1>2, <1>3

LEMMA NetStepIInv ==
  ASSUME IInv, NEW i \in DOMAIN entries, NetStep(i)
  PROVE  IInv'
<1>1. CASE TruncateFails(i)
  BY <1>1, Facts, NetFailureStep DEF TruncateFails, Transferring
<1>2. CASE RangeRefused(i)
  <2>1. "Http" \in Reasons
    BY DEF Reasons
  <2> QED
    BY <1>2, <2>1, FailStep DEF RangeRefused
<1>3. ASSUME NEW kind \in {"http", "auth"}, HttpError(i, kind) PROVE IInv'
  <2>1. "Http" \in Reasons /\ "Auth" \in Reasons
    BY DEF Reasons
  <2> QED
    BY <1>3, <2>1, FailStep DEF HttpError
<1>4. ASSUME NEW nerr \in {"dropped", "timeout", "fatal"}, Broken(i, nerr) PROVE IInv'
  BY <1>4, Facts, NetFailureStep DEF Broken, Transferring
<1> QED
  BY <1>1, <1>2, <1>3, <1>4, PartialContentStep, WholeBodyStep, ChunkStep,
     ChunkFailsStep, LearnTotalStep, FinishedStep DEF NetStep

-------------------------------------------------------------------------------
(* What happens outside the program.                                       *)
LEMMA FilesStep ==
  ASSUME IInv, NEW p \in Paths, FileDeleted(p) \/ PartDeleted(p)
  PROVE  IInv'
<1>1. /\ UNCHANGED <<entries, timers, bar, completed, paused>>
      /\ parts' \in PartsType /\ files' \in PartsType
  <2>1. CASE FileDeleted(p)
    BY <2>1, Facts, PartsExcept DEF FileDeleted
  <2>2. CASE PartDeleted(p)
    BY <2>2, Facts DEF PartDeleted
  <2> QED
    BY <2>1, <2>2
<1> QED
  BY <1>1, Facts, SameRows

(* Rows restored from a registry, in any order, are a list of rows none of *)
(* which is in flight.                                                     *)
LEMMA RestoredRows ==
  ASSUME NEW R \in SUBSET Saved, IsFiniteSet(R), NEW status \in {"Completed", "Paused"},
         NEW a \in Arrangements({Restored(r, status) : r \in R})
  PROVE  a \in Seq(Entry) /\ \A i \in DOMAIN a : a[i].status = status
<1> DEFINE S == {Restored(r, status) : r \in R}
           f == [r \in R |-> Restored(r, status)]
<1>1. ASSUME NEW r \in R
      PROVE  Restored(r, status) \in Entry /\ Restored(r, status).status = status
  <2>1. /\ 1 \in 1 .. Size + 1 /\ 0 \in 0 .. MaxRetries /\ MaxRetries \in 0 .. MaxRetries
        /\ status \in Statuses /\ "None" \in Reasons
    BY SizeAssumption, LimitsAssumption DEF Statuses, Reasons
  <2> QED
    BY <2>1 DEF Restored, Entry, Saved
<1>2. f \in Surjection(R, S)
  BY DEF Surjection
<1>3. \A e \in S : e \in Entry /\ e.status = status
  BY <1>1
<1> HIDE DEF S, f
<1>4. Cardinality(S) \in Nat
  BY <1>2, FS_Surjection, FS_CardinalityType
<1>5. a \in [1 .. Cardinality(S) -> S]
  BY DEF Arrangements, S
<1> QED
  BY <1>3, <1>4, <1>5

LEMMA RestartStep ==
  ASSUME IInv, Restart
  PROVE  IInv'
<1> DEFINE writers == {i \in DOMAIN entries :
                         entries[i].file = "open" /\ parts[entries[i].dest] # NoFile}
           kept == {r \in completed : files[r.dest] # NoFile}
           stopped == {x \in paused : parts[x.dest] # NoFile}
<1>1. /\ completed' = kept
      /\ bar' = [id |-> NoVideo, visible |-> FALSE, hiding |-> FALSE]
      /\ timers' = [v \in Videos |-> 0]
      /\ UNCHANGED <<files, paused>>
  BY DEF Restart
<1>2. kept \in SUBSET Saved /\ IsFiniteSet(kept)
  BY Facts, FS_Subset
<1>3. stopped \in SUBSET Saved /\ IsFiniteSet(stopped)
  BY Facts, FS_Subset
<1>4. parts' \in PartsType
  <2>1. PICK left \in [writers -> 0 .. Size] :
          /\ \A i \in writers : left[i] <= Len(parts[entries[i].dest])
          /\ parts' = [p \in Paths |->
               IF \E i \in writers : entries[i].dest = p
                 THEN SubSeq(parts[p], 1, left[CHOOSE i \in writers : entries[i].dest = p])
                 ELSE parts[p]]
    BY DEF Restart
  <2>2. ASSUME NEW p \in Paths, \E i \in writers : entries[i].dest = p
        PROVE  SubSeq(parts[p], 1, left[CHOOSE i \in writers : entries[i].dest = p])
                 \in Seq(Cells)
    <3> DEFINE w == CHOOSE i \in writers : entries[i].dest = p
    <3>1. w \in writers /\ entries[w].dest = p
      BY <2>2
    <3> HIDE DEF w
    <3>2. parts[p] \in Seq(Cells)
      BY <3>1, Facts DEF PartsType
    <3>3. left[w] \in 0 .. Size /\ left[w] <= Len(parts[p])
      BY <2>1, <3>1
    <3>4. left[w] \in 0 .. Len(parts[p])
      BY <3>2, <3>3
    <3>5. SubSeq(parts[p], 1, left[w]) \in Seq(Cells)
      BY <3>2, <3>4, PrefixType
    <3> QED
      BY <3>5 DEF w
  <2>3. \A p \in Paths : parts[p] \in Seq(Cells) \cup {NoFile}
    BY Facts DEF PartsType
  <2> HIDE DEF writers
  <2> QED
    BY <2>1, <2>2, <2>3 DEF PartsType
<1>5. PICK a \in Arrangements({Restored(r, "Completed") : r \in kept}),
           b \in Arrangements({Restored(r, "Paused") : r \in stopped}) :
        entries' = a \o b
  BY DEF Restart
<1> HIDE DEF kept, stopped
<1>6. /\ a \in Seq(Entry) /\ \A i \in DOMAIN a : a[i].status = "Completed"
      /\ b \in Seq(Entry) /\ \A i \in DOMAIN b : b[i].status = "Paused"
  BY <1>2, <1>3, RestoredRows
<1>7. /\ entries' \in Seq(Entry)
      /\ \A i \in DOMAIN entries' : entries'[i].status \in {"Completed", "Paused"}
  BY <1>5, <1>6
<1>8. Downloading(entries') = {} /\ Queued(entries') = {}
  BY <1>7 DEF Downloading, Queued, RowsIn
<1>9. TypeOK'
  BY <1>1, <1>2, <1>4, <1>7, Facts, LimitsAssumption DEF TypeOK, PartsType
<1>10. SlotCap' /\ NoStall'
  BY <1>8, FS_EmptySet, LimitsAssumption DEF SlotCap, NoStall
<1> QED
  BY <1>1, <1>2, <1>9, <1>10, Facts DEF IInv

-------------------------------------------------------------------------------
(* Every step of the program, of the network and of the world.             *)
LEMMA NextIInv == IInv /\ [Next]_vars => IInv'
<1> SUFFICES ASSUME IInv, [Next]_vars PROVE IInv'
  OBVIOUS
<1>1. CASE UserStep
  BY <1>1, UserStepIInv
<1>2. CASE \E i \in DOMAIN entries : NetStep(i)
  BY <1>2, NetStepIInv
<1>3. CASE \E v \in Videos : RetryKick(v)
  BY <1>3, RetryKickStep
<1>4. CASE HideTimeout
  BY <1>4, BarStep
<1>5. CASE WorldStep
  BY <1>5, FilesStep, RestartStep DEF WorldStep
<1>6. CASE UNCHANGED vars
  BY <1>6 DEF vars, IInv, TypeOK, SlotCap, NoStall
<1> QED
  BY <1>1, <1>2, <1>3, <1>4, <1>5, <1>6 DEF Next

(* IInv is an invariant of the downloads model.                            *)
THEOREM DownloadsInvariant == Spec => []IInv
BY InitIInv, NextIInv, PTL DEF Spec

(* Every variable of the model, and of every row, keeps its type: retries  *)
(* never go below zero (downloads_model.cpp:1032), no write position runs  *)
(* past the body, no row gets a name outside the chosen folder.            *)
THEOREM DownloadsTypes == Spec => []TypeOK
<1>1. IInv => TypeOK
  BY DEF IInv
<1> QED
  BY <1>1, DownloadsInvariant, PTL

(* Never more than kMaxConcurrent transfers, for any number of videos,     *)
(* slots, retries and failures: each of the callers of processQueue()      *)
(* (downloads_model.cpp:663) leaves the cap in force.                      *)
THEOREM DownloadsSlotCap == Spec => []SlotCap
<1>1. IInv => SlotCap
  BY DEF IInv
<1> QED
  BY <1>1, DownloadsInvariant, PTL

(* No queued download is ever stranded: either every slot is taken, or a   *)
(* backoff timer that will call processQueue() is pending.                 *)
THEOREM DownloadsNoStall == Spec => []NoStall
<1>1. IInv => NoStall
  BY DEF IInv
<1> QED
  BY <1>1, DownloadsInvariant, PTL
-------------------------------------------------------------------------------
(* The second inductive invariant: what the list, the bar and the          *)
(* registries know of each other.                                          *)

(* A restart can bring back a video as a Completed and as a Paused row.    *)
(* No other list ever has two rows of one video.                           *)
Doubles(q) ==
    \A i, j \in DOMAIN q :
        i < j /\ q[i].id = q[j].id => q[i].status = "Completed" /\ q[j].status = "Paused"

(* The bar never shows such a video, and its countdown runs against an     *)
(* ended row.                                                              *)
BarFits(q, b) ==
    /\ \A i, j \in DOMAIN q : i < j /\ q[i].id = q[j].id => b.id # q[i].id
    /\ b.hiding /\ b.visible => \A i \in DOMAIN q : q[i].id = b.id => q[i].status \in Terminal

(* RegistriesAgree, of a list c and p are the registries of.               *)
Registered(q, c, p) ==
    /\ c \subseteq RecordsOf(q, "Completed")
    /\ Cardinality(c) < MaxPersisted => RecordsOf(q, "Completed") \subseteq c
    /\ RecordsOf(q, "Paused") \subseteq p

(* What is restored as Paused is one row of each video.                    *)
OncePaused(p) == \A r, s \in p : r.id = s.id => r = s

Orderly ==
    /\ Doubles(entries)
    /\ BarFits(entries, bar)
    /\ Registered(entries, completed, paused)
    /\ OncePaused(paused)

Alone(q, i) == \A j \in DOMAIN q : q[j].id = q[i].id => j = i

(* processQueue() touches Queued rows only, and starts the countdown of    *)
(* the bar only for rows it fails.                                         *)
LEMMA ProcessQueueMoves ==
  ASSUME NEW q \in Seq(Entry), NEW ps, NEW b, ProcessQueue(q, ps, b)
  PROVE  /\ DOMAIN entries' = DOMAIN q
         /\ \A i \in DOMAIN q :
               /\ entries'[i].id = q[i].id
               /\ q[i].status # "Queued" => entries'[i] = q[i]
               /\ q[i].status = "Queued" =>
                     entries'[i].status \in {"Queued", "Downloading", "Failed"}
               /\ entries'[i].status = "Queued" => entries'[i] = q[i]
         /\ \E V : /\ bar' = Ended(b, V)
                   /\ \A v \in V : \E i \in DOMAIN q :
                         /\ q[i].id = v /\ q[i].status = "Queued"
                         /\ entries'[i].status = "Failed"
                   /\ \A i \in DOMAIN q :
                         q[i].status = "Queued" /\ entries'[i].status = "Failed" => q[i].id \in V
<1>1. PICK out \in Outcomes(q) :
        /\ entries' = KickedRows(q, out, ps)
        /\ bar' = Ended(b, {q[i].id : i \in {j \in Queued(q) : out[j] \in {"space", "open"}}})
  BY DEF ProcessQueue
<1>2. out \in [Queued(q) -> {"go", "space", "open", "wait"}]
  BY DEF Outcomes
<1>3. entries' = [i \in DOMAIN q |->
                    IF i \in Queued(q) THEN KickedRow(q[i], out[i], ps) ELSE q[i]]
  BY <1>1 DEF KickedRows
<1>4. ASSUME NEW e \in Entry, NEW how \in {"go", "space", "open", "wait"}
      PROVE  /\ KickedRow(e, how, ps).id = e.id
             /\ how = "go" => KickedRow(e, how, ps).status = "Downloading"
             /\ how \in {"space", "open"} => KickedRow(e, how, ps).status = "Failed"
             /\ how = "wait" => KickedRow(e, how, ps) = e
  BY DEF KickedRow, Stopped, Entry
<1>5. \A i \in DOMAIN q : q[i] \in Entry /\ (i \in Queued(q) <=> q[i].status = "Queued")
  BY DEF Queued, RowsIn
<1>6. ASSUME NEW i \in DOMAIN q
      PROVE  /\ entries'[i].id = q[i].id
             /\ q[i].status # "Queued" => entries'[i] = q[i]
             /\ q[i].status = "Queued" =>
                   /\ entries'[i].status \in {"Queued", "Downloading", "Failed"}
                   /\ out[i] \in {"space", "open"} <=> entries'[i].status = "Failed"
             /\ entries'[i].status = "Queued" => entries'[i] = q[i]
  <2>1. CASE i \in Queued(q)
    <3>1. out[i] \in {"go", "space", "open", "wait"}
      BY <1>2, <2>1
    <3>2. entries'[i] = KickedRow(q[i], out[i], ps)
      BY <1>3, <2>1
    <3> QED
      BY <1>4, <1>5, <2>1, <3>1, <3>2
  <2>2. CASE i \notin Queued(q)
    BY <1>3, <1>5, <2>2
  <2> QED
    BY <2>1, <2>2
<1> DEFINE V == {q[i].id : i \in {j \in Queued(q) : out[j] \in {"space", "open"}}}
<1>7. \A v \in V : \E i \in DOMAIN q :
         q[i].id = v /\ q[i].status = "Queued" /\ entries'[i].status = "Failed"
  <2> SUFFICES ASSUME NEW i \in Queued(q), out[i] \in {"space", "open"}
               PROVE  /\ i \in DOMAIN q /\ q[i].status = "Queued"
                      /\ entries'[i].status = "Failed"
    OBVIOUS
  <2> QED
    BY <1>6 DEF Queued, RowsIn
<1>8. \A i \in DOMAIN q :
         q[i].status = "Queued" /\ entries'[i].status = "Failed" => q[i].id \in V
  BY <1>5, <1>6
<1>9. DOMAIN entries' = DOMAIN q
  BY <1>3
<1>10. bar' = Ended(b, V)
  BY <1>1
<1> HIDE DEF V
<1> QED
  BY <1>6, <1>7, <1>8, <1>9, <1>10

(* Of a video without a second row, one row may change as it likes.        *)
LEMMA FirstAlone ==
  ASSUME NEW q \in Seq(Entry), Doubles(q), NEW i \in DOMAIN q,
         IsFirst(q, q[i].id, i), q[i].status # "Completed"
  PROVE  Alone(q, i)
<1> SUFFICES ASSUME NEW j \in DOMAIN q, q[j].id = q[i].id, j # i PROVE FALSE
  BY DEF Alone
<1>1. i \in Nat \ {0} /\ j \in Nat \ {0}
  OBVIOUS
<1>2. CASE j < i
  BY <1>1, <1>2 DEF IsFirst
<1>3. CASE i < j
  BY <1>3 DEF Doubles
<1> QED
  BY <1>1, <1>2, <1>3

LEMMA OneRow ==
  ASSUME NEW q \in Seq(Entry), NEW i \in DOMAIN q, Alone(q, i), NEW b,
         Doubles(q), BarFits(q, b),
         NEW r \in Seq(Entry), DOMAIN r = DOMAIN q, r[i].id = q[i].id,
         \A j \in DOMAIN q : j # i => r[j] = q[j]
  PROVE  /\ Doubles(r)
         /\ Alone(r, i)
         /\ q[i].status \notin Terminal \/ r[i].status \in Terminal => BarFits(r, b)
         /\ BarFits(r, Focus(q[i].id))
         /\ \A s : r[i].status # s => RecordsOf(r, s) \subseteq RecordsOf(q, s)
         /\ \A s : q[i].status # s /\ r[i].status # s => RecordsOf(r, s) = RecordsOf(q, s)
<1>1. DOMAIN q \subseteq Nat
  OBVIOUS
<1>2. \A j \in DOMAIN q : r[j].id = q[j].id
  OBVIOUS
<1>3. \A j, k \in DOMAIN r : j < k /\ r[j].id = r[k].id => j # i /\ k # i
  BY <1>1, <1>2 DEF Alone
<1>4. Doubles(r)
  BY <1>2, <1>3 DEF Doubles
<1>5. Alone(r, i)
  BY <1>2 DEF Alone
<1>6. ASSUME q[i].status \notin Terminal \/ r[i].status \in Terminal PROVE BarFits(r, b)
  <2>1. \A j, k \in DOMAIN r : j < k /\ r[j].id = r[k].id => b.id # r[j].id
    BY <1>2 DEF BarFits
  <2>2. ASSUME b.hiding, b.visible, NEW j \in DOMAIN r, r[j].id = b.id
        PROVE  r[j].status \in Terminal
    <3>1. q[j].status \in Terminal
      BY <1>2, <2>2 DEF BarFits
    <3> QED
      BY <1>6, <3>1
  <2> QED
    BY <2>1, <2>2 DEF BarFits
<1>7. BarFits(r, Focus(q[i].id))
  BY <1>2, <1>3 DEF BarFits, Focus, Alone
<1>8. ASSUME NEW s, r[i].status # s
      PROVE  /\ RecordsOf(r, s) \subseteq RecordsOf(q, s)
             /\ q[i].status # s => RecordsOf(r, s) = RecordsOf(q, s)
  <2>1. RowsIn(r, {s}) = RowsIn(q, {s}) \ {i}
    BY <1>8 DEF RowsIn
  <2>2. \A j \in RowsIn(r, {s}) : r[j] = q[j]
    BY <2>1 DEF RowsIn
  <2>3. q[i].status # s => RowsIn(r, {s}) = RowsIn(q, {s})
    BY <2>1 DEF RowsIn
  <2> QED
    BY <2>1, <2>2, <2>3 DEF RecordsOf
<1> QED
  BY <1>4, <1>5, <1>6, <1>7, <1>8

(* The countdown may start when every row it concerns has ended; a bar     *)
(* that lets go of its rows shows nothing.                                 *)
LEMMA EndedFits ==
  ASSUME NEW q, NEW b, NEW V, BarFits(q, b),
         \A i \in DOMAIN q : q[i].id \in V /\ q[i].id = b.id => q[i].status \in Terminal
  PROVE  BarFits(q, Ended(b, V))
<1>1. CASE b.id \in V
  <2>1. Ended(b, V) = [b EXCEPT !.hiding = TRUE]
    BY <1>1 DEF Ended
  <2> QED
    BY <1>1, <2>1 DEF BarFits
<1>2. CASE b.id \notin V
  BY <1>2 DEF Ended
<1> QED
  BY <1>1, <1>2

LEMMA DroppedFits ==
  ASSUME NEW q \in Seq(Entry), NEW b \in BarType, NEW V, BarFits(q, b)
  PROVE  BarFits(q, Dropped(b, V))
<1>1. CASE b.id \in V
  <2>1. Dropped(b, V).id = NoVideo /\ Dropped(b, V).visible = FALSE
    BY <1>1 DEF Dropped, BarType
  <2>2. \A i \in DOMAIN q : q[i].id # NoVideo
    <3>1. \A i \in DOMAIN q : q[i] \in Entry
      OBVIOUS
    <3> QED
      BY <3>1, NoVideoAssumption DEF Entry
  <2> QED
    BY <2>1, <2>2 DEF BarFits
<1>2. CASE b.id \notin V
  BY <1>2 DEF Dropped
<1> QED
  BY <1>1, <1>2

(* Erasing rows disturbs neither list nor bar; it keeps the records of a   *)
(* status no erased row has.                                               *)
LEMMA KeepingFits ==
  ASSUME NEW q \in Seq(Entry), NEW S \in SUBSET DOMAIN q, NEW r \in Keeping(q, S), NEW b,
         Doubles(q), BarFits(q, b)
  PROVE  /\ Doubles(r)
         /\ BarFits(r, b)
         /\ \A s : (\A i \in DOMAIN q \ S : q[i].status # s) => RecordsOf(r, s) = RecordsOf(q, s)
<1>1. PICK f \in Bijection(DOMAIN r, S) :
         /\ \A a \in DOMAIN r : r[a] = q[f[a]]
         /\ \A a, c \in DOMAIN r : a < c => f[a] < f[c]
  BY KeepingRows
<1>2. /\ f \in [DOMAIN r -> S]
      /\ \A i \in S : \E a \in DOMAIN r : f[a] = i
  BY <1>1 DEF Bijection, Surjection
<1>3. Doubles(r)
  <2> SUFFICES ASSUME NEW i \in DOMAIN r, NEW j \in DOMAIN r, i < j, r[i].id = r[j].id
               PROVE  r[i].status = "Completed" /\ r[j].status = "Paused"
    BY DEF Doubles
  <2>1. f[i] < f[j] /\ f[i] \in DOMAIN q /\ f[j] \in DOMAIN q
    BY <1>1, <1>2
  <2> QED
    BY <1>1, <2>1 DEF Doubles
<1>4. BarFits(r, b)
  <2>1. ASSUME NEW i \in DOMAIN r, NEW j \in DOMAIN r, i < j, r[i].id = r[j].id
        PROVE  b.id # r[i].id
    <3>1. f[i] < f[j] /\ f[i] \in DOMAIN q /\ f[j] \in DOMAIN q
      BY <1>1, <1>2, <2>1
    <3> QED
      BY <1>1, <2>1, <3>1 DEF BarFits
  <2>2. ASSUME b.hiding, b.visible, NEW i \in DOMAIN r, r[i].id = b.id
        PROVE  r[i].status \in Terminal
    <3>1. f[i] \in DOMAIN q /\ r[i] = q[f[i]]
      BY <1>1, <1>2
    <3> QED
      BY <2>2, <3>1 DEF BarFits
  <2> QED
    BY <2>1, <2>2 DEF BarFits
<1>5. ASSUME NEW s, \A i \in DOMAIN q \ S : q[i].status # s
      PROVE  RecordsOf(r, s) = RecordsOf(q, s)
  <2>1. ASSUME NEW a \in RowsIn(r, {s})
        PROVE  f[a] \in RowsIn(q, {s}) /\ r[a] = q[f[a]]
    BY <1>1, <1>2 DEF RowsIn
  <2>2. ASSUME NEW i \in RowsIn(q, {s})
        PROVE  \E a \in RowsIn(r, {s}) : r[a] = q[i]
    <3>1. i \in S
      BY <1>5 DEF RowsIn
    <3>2. PICK a \in DOMAIN r : f[a] = i
      BY <1>2, <3>1
    <3> QED
      BY <1>1, <3>2 DEF RowsIn
  <2>3. RecordsOf(r, s) \subseteq RecordsOf(q, s)
    BY <2>1 DEF RecordsOf
  <2>4. RecordsOf(q, s) \subseteq RecordsOf(r, s)
    BY <2>2 DEF RecordsOf
  <2> QED
    BY <2>3, <2>4
<1> QED
  BY <1>3, <1>4, <1>5

(* processQueue() leaves an orderly model when it is given one.            *)
LEMMA QueueOrderly ==
  ASSUME NEW q \in Seq(Entry), NEW ps, NEW b, ProcessQueue(q, ps, b),
         Doubles(q), BarFits(q, b), Registered(q, completed', paused'), OncePaused(paused')
  PROVE  Orderly'
<1>1. /\ DOMAIN entries' = DOMAIN q
      /\ \A i \in DOMAIN q :
               /\ entries'[i].id = q[i].id
               /\ q[i].status # "Queued" => entries'[i] = q[i]
               /\ q[i].status = "Queued" =>
                     entries'[i].status \in {"Queued", "Downloading", "Failed"}
      /\ \E V : /\ bar' = Ended(b, V)
                /\ \A v \in V : \E i \in DOMAIN q :
                      /\ q[i].id = v /\ q[i].status = "Queued"
                      /\ entries'[i].status = "Failed"
  BY ProcessQueueMoves
<1>2. Doubles(entries')
  BY <1>1 DEF Doubles
<1>3. BarFits(entries', b)
  <2>1. \A i, j \in DOMAIN entries' :
           i < j /\ entries'[i].id = entries'[j].id => b.id # entries'[i].id
    BY <1>1 DEF BarFits
  <2>2. ASSUME b.hiding, b.visible, NEW i \in DOMAIN entries', entries'[i].id = b.id
        PROVE  entries'[i].status \in Terminal
    <3>1. i \in DOMAIN q /\ q[i].id = b.id
      BY <1>1, <2>2
    <3>2. q[i].status \in Terminal
      BY <2>2, <3>1 DEF BarFits
    <3> QED
      BY <1>1, <3>1, <3>2 DEF Terminal
  <2> QED
    BY <2>1, <2>2 DEF BarFits
<1>4. BarFits(entries', bar')
  <2>1. PICK V : /\ bar' = Ended(b, V)
                 /\ \A v \in V : \E i \in DOMAIN q :
                       /\ q[i].id = v /\ q[i].status = "Queued"
                       /\ entries'[i].status = "Failed"
    BY <1>1
  <2>2. ASSUME NEW j \in DOMAIN entries', entries'[j].id \in V, entries'[j].id = b.id
        PROVE  entries'[j].status \in Terminal
    <3>1. PICK i \in DOMAIN q : q[i].id = b.id /\ entries'[i].status = "Failed"
      BY <2>1, <2>2
    <3>2. j \in DOMAIN q /\ q[j].id = b.id
      BY <1>1, <2>2
    <3>3. i \in Nat /\ j \in Nat
      BY <3>2
    <3>4. ~ (i < j) /\ ~ (j < i)
      BY <3>1, <3>2 DEF BarFits
    <3>5. j = i
      BY <3>3, <3>4
    <3> QED
      BY <3>1, <3>5 DEF Terminal
  <2> QED
    BY <1>3, <2>1, <2>2, EndedFits
<1>5. ASSUME NEW s \in {"Completed", "Paused"}
      PROVE  RecordsOf(entries', s) = RecordsOf(q, s)
  <2>1. RowsIn(entries', {s}) = RowsIn(q, {s})
    BY <1>1 DEF RowsIn
  <2>2. \A i \in RowsIn(q, {s}) : entries'[i] = q[i]
    BY <1>1 DEF RowsIn
  <2> QED
    BY <2>1, <2>2 DEF RecordsOf
<1>6. Registered(entries', completed', paused')
  BY <1>5 DEF Registered
<1> QED
  BY <1>2, <1>4, <1>6 DEF Orderly
(* The registries, as they are written.                                    *)
LEMMA SavedRegistered ==
  ASSUME NEW q \in Seq(Entry), NEW R \in SavedCompleted(q)
  PROVE  /\ R \subseteq RecordsOf(q, "Completed")
         /\ Cardinality(R) < MaxPersisted => RecordsOf(q, "Completed") \subseteq R
<1> DEFINE all == RecordsOf(q, "Completed")
<1> HIDE DEF all
<1>1. R \in IF Cardinality(all) <= MaxPersisted THEN {all}
            ELSE {S \in SUBSET all : Cardinality(S) = MaxPersisted}
  BY DEF SavedCompleted, all
<1>2. CASE R = all
  BY <1>2 DEF all
<1>3. CASE R \in SUBSET all /\ Cardinality(R) = MaxPersisted
  BY <1>3, LimitsAssumption DEF all
<1> QED
  BY <1>1, <1>2, <1>3

LEMMA SavedOnce ==
  ASSUME NEW q \in Seq(Entry), Doubles(q)
  PROVE  OncePaused(SavedPaused(q))
<1> SUFFICES ASSUME NEW i \in DOMAIN q, NEW j \in DOMAIN q,
                    q[i].status = "Paused", q[j].status = "Paused", q[i].id = q[j].id
             PROVE  i = j
  BY DEF OncePaused, SavedPaused, RecordsOf, Record, RowsIn
<1>1. i \in Nat /\ j \in Nat
  OBVIOUS
<1>2. ~ (i < j) /\ ~ (j < i)
  BY DEF Doubles
<1> QED
  BY <1>1, <1>2

LEMMA InitOrderly == Init => Orderly
<1> SUFFICES ASSUME Init PROVE Orderly
  OBVIOUS
<1>1. entries = <<>> /\ completed = {} /\ paused = {}
  BY DEF Init
<1>2. \A s : RecordsOf(entries, s) = {}
  BY <1>1 DEF RecordsOf, RowsIn
<1> QED
  BY <1>1, <1>2 DEF Orderly, Doubles, BarFits, Registered, OncePaused

(* Row i of the list becomes row e, and somebody calls processQueue().     *)
LEMMA OneRowQueued ==
  ASSUME IInv, Orderly, NEW i \in DOMAIN entries,
         IsFirst(entries, entries[i].id, i), entries[i].status \in Active,
         NEW e \in Entry, e.id = entries[i].id, NEW ps, NEW b,
         \/ b = bar
         \/ b = Ended(bar, {entries[i].id}) /\ e.status \in Terminal
         \/ b = Focus(entries[i].id),
         ProcessQueue([entries EXCEPT ![i] = e], ps, b),
         \/ e.status # "Completed" /\ UNCHANGED completed
         \/ completed' \in SavedCompleted([entries EXCEPT ![i] = e]),
         \/ e.status # "Paused" /\ UNCHANGED paused
         \/ paused' = SavedPaused([entries EXCEPT ![i] = e])
  PROVE  Orderly'
<1> DEFINE q == [entries EXCEPT ![i] = e]
<1>1. /\ q \in Seq(Entry) /\ DOMAIN q = DOMAIN entries /\ q[i] = e
      /\ \A j \in DOMAIN entries : j # i => q[j] = entries[j]
  BY Facts
<1>2. entries \in Seq(Entry) /\ entries[i].status \notin Terminal
  BY Facts DEF Active, InFlight, Terminal
<1>3. entries[i].status # "Completed"
  BY DEF Active, InFlight
<1>4. Alone(entries, i)
  BY <1>2, <1>3, FirstAlone DEF Orderly
<1> HIDE DEF q
<1>5. /\ Doubles(q) /\ Alone(q, i) /\ BarFits(q, bar) /\ BarFits(q, Focus(entries[i].id))
      /\ \A s : e.status # s => RecordsOf(q, s) \subseteq RecordsOf(entries, s)
      /\ \A s : entries[i].status # s /\ e.status # s =>
             RecordsOf(q, s) = RecordsOf(entries, s)
  BY <1>1, <1>2, <1>4, OneRow DEF Orderly
<1>6. BarFits(q, b)
  <2>1. ASSUME e.status \in Terminal PROVE BarFits(q, Ended(bar, {entries[i].id}))
    <3>1. \A j \in DOMAIN q : q[j].id \in {entries[i].id} => q[j].status \in Terminal
      BY <1>1, <1>5, <2>1 DEF Alone
    <3> QED
      BY <1>5, <3>1, EndedFits
  <2> QED
    BY <1>5, <2>1
<1>7. /\ completed' \subseteq RecordsOf(q, "Completed")
      /\ Cardinality(completed') < MaxPersisted => RecordsOf(q, "Completed") \subseteq completed'
  <2>1. CASE completed' \in SavedCompleted(q)
    BY <1>1, <2>1, SavedRegistered
  <2>2. CASE e.status # "Completed" /\ UNCHANGED completed
    BY <1>3, <1>5, <2>2 DEF Orderly, Registered
  <2> QED
    BY <2>1, <2>2 DEF q
<1>8. RecordsOf(q, "Paused") \subseteq paused' /\ OncePaused(paused')
  <2>1. CASE paused' = SavedPaused(q)
    BY <1>1, <1>5, <2>1, SavedOnce DEF SavedPaused
  <2>2. CASE e.status # "Paused" /\ UNCHANGED paused
    BY <1>5, <2>2 DEF Orderly, Registered
  <2> QED
    BY <2>1, <2>2 DEF q
<1>9. ProcessQueue(q, ps, b)
  BY DEF q
<1> QED
  BY <1>1, <1>5, <1>6, <1>7, <1>8, <1>9, QueueOrderly DEF Registered

(* ... or nobody does.                                                     *)
LEMMA OneRowOnly ==
  ASSUME IInv, Orderly, NEW i \in DOMAIN entries,
         IsFirst(entries, entries[i].id, i), entries[i].status \in InFlight,
         NEW e \in Entry, e.id = entries[i].id, e.status \in InFlight,
         entries' = [entries EXCEPT ![i] = e],
         UNCHANGED <<bar, completed, paused>>
  PROVE  Orderly'
<1> DEFINE q == [entries EXCEPT ![i] = e]
<1>1. /\ q \in Seq(Entry) /\ DOMAIN q = DOMAIN entries /\ q[i] = e
      /\ \A j \in DOMAIN entries : j # i => q[j] = entries[j]
  BY Facts
<1> HIDE DEF q
<1>2. /\ entries \in Seq(Entry) /\ entries[i].status \notin Terminal
      /\ entries[i].status \notin {"Completed", "Paused"}
      /\ e.status \notin {"Completed", "Paused"}
  BY Facts DEF InFlight, Terminal
<1>3. Alone(entries, i)
  BY <1>2, FirstAlone DEF Orderly
<1>4. /\ Doubles(q) /\ BarFits(q, bar)
      /\ \A s : entries[i].status # s /\ e.status # s =>
             RecordsOf(q, s) = RecordsOf(entries, s)
  BY <1>1, <1>2, <1>3, OneRow DEF Orderly
<1>5. Registered(q, completed, paused)
  BY <1>2, <1>4 DEF Orderly, Registered
<1>6. entries' = q
  BY DEF q
<1> QED
  BY <1>4, <1>5, <1>6 DEF Orderly
-------------------------------------------------------------------------------
(* One lemma per operation, as above.                                      *)
LEMMA SameListOrderly ==
  ASSUME IInv, Orderly, UNCHANGED <<entries, completed, paused>>,
         \/ bar' = bar
         \/ bar'.visible = FALSE /\ bar'.id = bar.id
         \/ \E v \in Videos : StartAgain(v)
  PROVE  Orderly'
<1>1. CASE bar' = bar
  BY <1>1 DEF Orderly
<1>2. CASE bar'.visible = FALSE /\ bar'.id = bar.id
  <2>1. BarFits(entries, bar')
    BY <1>2 DEF Orderly, BarFits
  <2> QED
    BY <2>1 DEF Orderly
<1>3. ASSUME NEW v \in Videos, StartAgain(v) PROVE Orderly'
  <2>1. PICK i \in DOMAIN entries : IsFirst(entries, v, i) /\ entries[i].status \in InFlight
    BY <1>3 DEF StartAgain
  <2>2. entries[i].id = v /\ bar' = Focus(v)
    BY <1>3, <2>1 DEF StartAgain, IsFirst
  <2>3. Alone(entries, i)
    BY <2>1, <2>2, Facts, FirstAlone DEF Orderly, InFlight
  <2>4. BarFits(entries, Focus(v))
    BY <2>2, <2>3, Facts, OneRow DEF Orderly
  <2> QED
    BY <2>2, <2>4 DEF Orderly
<1> QED
  BY <1>1, <1>2, <1>3

(* A list with a row of a video has a first one.                           *)
LEMMA FirstExists ==
  ASSUME NEW q \in Seq(Entry), NEW j \in DOMAIN q
  PROVE  \E i \in DOMAIN q : IsFirst(q, q[j].id, i) /\ i <= j
<1> DEFINE T == {k \in DOMAIN q : q[k].id = q[j].id}
<1>1. T \in SUBSET Nat /\ T # {}
  OBVIOUS
<1> HIDE DEF T
<1>2. PICK i \in T : \A k \in T : i <= k
  BY <1>1, LeastNumber
<1>3. i \in DOMAIN q /\ q[i].id = q[j].id /\ i <= j
  BY <1>2 DEF T
<1>4. ASSUME NEW k \in 1 .. i - 1 PROVE q[k].id # q[j].id
  <2>1. k \in DOMAIN q /\ ~ (i <= k)
    BY <1>3
  <2> QED
    BY <1>2, <2>1 DEF T
<1> QED
  BY <1>3, <1>4 DEF IsFirst

LEMMA EnqueueOrderly ==
  ASSUME IInv, Orderly, NEW v \in Videos, NEW x \in Exts, NEW hint \in 0 .. Size,
         \A i \in DOMAIN entries :
            IsFirst(entries, v, i) => entries[i].status \in {"Failed", "Canceled"},
         Enqueue(v, x, hint)
  PROVE  Orderly'
<1> DEFINE S == {i \in DOMAIN entries : ~ IsFirst(entries, v, i)}
           row == NewRow(v, x, hint)
<1>1. PICK q \in Keeping(entries, S) : ProcessQueue(Append(q, row), parts, Focus(v))
  BY DEF Enqueue
<1>2. row \in Entry /\ row.status = "Queued" /\ row.id = v
  <2>1. DestPath(files, parts, TitleOf[v], x) \in Paths
    BY DestPathType, TitleAssumption
  <2>2. 1 \in 1 .. Size + 1 /\ MaxRetries \in 0 .. MaxRetries
    BY SizeAssumption, LimitsAssumption
  <2> QED
    BY <2>1, <2>2 DEF NewRow, Entry, Statuses, Reasons
<1>3. /\ entries \in Seq(Entry) /\ Doubles(entries) /\ BarFits(entries, bar)
      /\ S \in SUBSET DOMAIN entries
  BY Facts DEF Orderly
<1>4. ASSUME NEW j \in S PROVE entries[j].id # v
  <2> SUFFICES ASSUME entries[j].id = v PROVE FALSE
    OBVIOUS
  <2>1. PICK i \in DOMAIN entries : IsFirst(entries, v, i) /\ i <= j
    BY <1>3, FirstExists
  <2>2. i < j
    BY <1>3, <2>1
  <2> QED
    BY <1>3, <2>1, <2>2 DEF Doubles, IsFirst
<1>5. /\ Doubles(q)
      /\ \A s \in {"Completed", "Paused"} : RecordsOf(q, s) = RecordsOf(entries, s)
  <2>1. \A s \in {"Completed", "Paused"} : \A i \in DOMAIN entries \ S : entries[i].status # s
    OBVIOUS
  <2> HIDE DEF S
  <2> QED
    BY <1>1, <1>3, <2>1, KeepingFits
<1>6. q \in Seq(Entry) /\ \A a \in DOMAIN q : q[a].id # v
  <2>1. /\ q \in Seq(Entry)
        /\ \E f \in Bijection(DOMAIN q, S) : \A a \in DOMAIN q : q[a] = entries[f[a]]
    BY <1>1, <1>3, KeepingRows
  <2>2. PICK f \in [DOMAIN q -> S] : \A a \in DOMAIN q : q[a] = entries[f[a]]
    BY <2>1 DEF Bijection, Injection
  <2> HIDE DEF S
  <2> QED
    BY <1>4, <2>1, <2>2
<1> HIDE DEF S, row
<1> DEFINE r == Append(q, row)
<1>7. /\ r \in Seq(Entry) /\ Len(q) \in Nat /\ DOMAIN q = 1 .. Len(q)
      /\ DOMAIN r = 1 .. Len(q) + 1
      /\ \A a \in DOMAIN q : a \in DOMAIN r /\ r[a] = q[a]
      /\ r[Len(q) + 1] = row
      /\ \A a \in DOMAIN r : a \in DOMAIN q \/ a = Len(q) + 1
  BY <1>2, <1>6
<1> HIDE DEF r
<1>8. \A i, j \in DOMAIN r : i < j /\ r[i].id = r[j].id => i \in DOMAIN q /\ j \in DOMAIN q
  BY <1>2, <1>6, <1>7
<1>9. Doubles(r)
  BY <1>5, <1>7, <1>8 DEF Doubles
<1>10. BarFits(r, Focus(v))
  BY <1>6, <1>7, <1>8 DEF BarFits, Focus
<1>11. ASSUME NEW s \in {"Completed", "Paused"}
       PROVE  RecordsOf(r, s) = RecordsOf(entries, s)
  <2>1. RowsIn(r, {s}) = RowsIn(q, {s})
    BY <1>2, <1>7 DEF RowsIn
  <2>2. \A i \in RowsIn(q, {s}) : r[i] = q[i]
    BY <1>7 DEF RowsIn
  <2>3. RecordsOf(r, s) = RecordsOf(q, s)
    BY <2>1, <2>2 DEF RecordsOf
  <2> QED
    BY <1>5, <2>3
<1>12. UNCHANGED <<completed, paused>>
  BY DEF Enqueue
<1>13. Registered(r, completed', paused') /\ OncePaused(paused')
  BY <1>11, <1>12 DEF Orderly, Registered
<1>14. ProcessQueue(r, parts, Focus(v))
  BY <1>1 DEF r
<1> QED
  BY <1>7, <1>9, <1>10, <1>13, <1>14, QueueOrderly

LEMMA CancelOrderly ==
  ASSUME IInv, Orderly, NEW v \in Videos, Cancel(v) \/ Pause(v) \/ Resume(v)
  PROVE  Orderly'
<1>0. \A i \in DOMAIN entries, s \in {"Canceled", "Paused", "Queued"} :
         /\ Stopped(entries[i], s, "None") \in Entry
         /\ Stopped(entries[i], s, "None").id = entries[i].id
         /\ Stopped(entries[i], s, "None").status = s
  BY Facts, StoppedType
<1>1. CASE Cancel(v)
  <2>1. PICK i \in DOMAIN entries :
          /\ IsFirst(entries, v, i)
          /\ entries[i].status \in Active
          /\ ProcessQueue(Torn(entries, i, "Canceled", "None"),
                          WithoutPart(parts, entries[i].dest), Ended(bar, {v}))
    BY <1>1 DEF Cancel
  <2> DEFINE e == Stopped(entries[i], "Canceled", "None")
  <2>2. /\ entries[i].id = v /\ UNCHANGED <<completed, paused>>
        /\ e \in Entry /\ e.id = v /\ e.status = "Canceled"
        /\ ProcessQueue([entries EXCEPT ![i] = e],
                        WithoutPart(parts, entries[i].dest), Ended(bar, {v}))
    BY <1>0, <1>1, <2>1 DEF Cancel, Torn, IsFirst
  <2> HIDE DEF e
  <2> QED
    BY <2>1, <2>2, OneRowQueued DEF Terminal
<1>2. CASE Pause(v)
  <2>1. PICK i \in DOMAIN entries :
          /\ IsFirst(entries, v, i)
          /\ entries[i].status \in InFlight
          /\ paused' = SavedPaused(Torn(entries, i, "Paused", "None"))
          /\ ProcessQueue(Torn(entries, i, "Paused", "None"), parts, bar)
    BY <1>2 DEF Pause
  <2> DEFINE e == Stopped(entries[i], "Paused", "None")
  <2>2. /\ entries[i].id = v /\ UNCHANGED completed /\ entries[i].status \in Active
        /\ e \in Entry /\ e.id = v /\ e.status = "Paused"
        /\ ProcessQueue([entries EXCEPT ![i] = e], parts, bar)
        /\ paused' = SavedPaused([entries EXCEPT ![i] = e])
    BY <1>0, <1>2, <2>1 DEF Pause, Torn, IsFirst, Active
  <2> HIDE DEF e
  <2> QED
    BY <2>1, <2>2, OneRowQueued
<1>3. CASE Resume(v)
  <2>1. PICK i \in DOMAIN entries :
          /\ IsFirst(entries, v, i)
          /\ entries[i].status = "Paused"
          /\ paused' = SavedPaused(Torn(entries, i, "Queued", "None"))
          /\ ProcessQueue(Torn(entries, i, "Queued", "None"), parts, Focus(v))
    BY <1>3 DEF Resume
  <2> DEFINE e == Stopped(entries[i], "Queued", "None")
  <2>2. /\ entries[i].id = v /\ UNCHANGED completed /\ entries[i].status \in Active
        /\ e \in Entry /\ e.id = v /\ e.status = "Queued"
        /\ ProcessQueue([entries EXCEPT ![i] = e], parts, Focus(v))
        /\ paused' = SavedPaused([entries EXCEPT ![i] = e])
    BY <1>0, <1>3, <2>1 DEF Resume, Torn, IsFirst, Active
  <2> HIDE DEF e
  <2> QED
    BY <2>1, <2>2, OneRowQueued
<1> QED
  BY <1>1, <1>2, <1>3

(* pauseAll() and resumeAll() change rows of videos without a second row.  *)
LEMMA AllTornOrderly ==
  ASSUME IInv, Orderly, NEW S, NEW s \in {"Queued", "Paused"},
         S \in {InFlight, {"Paused"}},
         \A i \in RowsIn(entries, S) : IsFirst(entries, entries[i].id, i) \/ S = InFlight
  PROVE  LET q == AllTorn(entries, S, s) IN
         /\ q \in Seq(Entry)
         /\ Doubles(q)
         /\ BarFits(q, bar)
         /\ RecordsOf(q, "Completed") = RecordsOf(entries, "Completed")
<1> DEFINE q == AllTorn(entries, S, s)
<1>1. q \in Seq(Entry)
  BY Facts, AllTornRows
<1>2. \A i \in DOMAIN entries : /\ entries[i] \in Entry
                                /\ Stopped(entries[i], s, "None").status = s
                                /\ Stopped(entries[i], s, "None").id = entries[i].id
  BY Facts, StoppedType
<1>3. /\ DOMAIN q = DOMAIN entries
      /\ \A i \in DOMAIN entries :
            /\ entries[i].status \in S => q[i].status = s
            /\ entries[i].status \notin S => q[i] = entries[i]
            /\ q[i].id = entries[i].id
  BY <1>2 DEF AllTorn
<1> HIDE DEF q
<1>4. entries \in Seq(Entry) /\ Doubles(entries) /\ BarFits(entries, bar)
  BY Facts DEF Orderly
<1>5. ASSUME NEW i \in DOMAIN entries, NEW j \in DOMAIN entries,
             i < j, entries[i].id = entries[j].id
      PROVE  entries[i].status \notin S /\ entries[j].status \notin S
  <2>1. entries[i].status = "Completed" /\ entries[j].status = "Paused"
    BY <1>4, <1>5 DEF Doubles
  <2>2. ~ IsFirst(entries, entries[j].id, j)
    BY <1>4, <1>5 DEF IsFirst
  <2>3. S = InFlight
    BY <2>1, <2>2 DEF RowsIn
  <2> QED
    BY <2>1, <2>3 DEF InFlight
<1>6. Doubles(q)
  BY <1>3, <1>4, <1>5 DEF Doubles
<1>7. BarFits(q, bar)
  <2>1. ASSUME bar.hiding, bar.visible, NEW i \in DOMAIN q, q[i].id = bar.id
        PROVE  q[i].status \in Terminal
    <3>1. entries[i].status \in Terminal
      BY <1>3, <1>4, <2>1 DEF BarFits
    <3>2. entries[i].status \notin S
      BY <3>1 DEF Terminal, InFlight
    <3> QED
      BY <1>3, <2>1, <3>1, <3>2
  <2>2. \A i, j \in DOMAIN q : i < j /\ q[i].id = q[j].id => bar.id # q[i].id
    BY <1>3, <1>4 DEF BarFits
  <2> QED
    BY <2>1, <2>2 DEF BarFits
<1>8. RecordsOf(q, "Completed") = RecordsOf(entries, "Completed")
  <2>1. /\ RowsIn(q, {"Completed"}) = RowsIn(entries, {"Completed"})
        /\ \A i \in RowsIn(q, {"Completed"}) : q[i] = entries[i]
    BY <1>3 DEF RowsIn, InFlight
  <2> QED
    BY <2>1 DEF RecordsOf
<1> QED
  BY <1>1, <1>6, <1>7, <1>8 DEF q

LEMMA PauseAllOrderly ==
  ASSUME IInv, Orderly, PauseAll
  PROVE  Orderly'
<1> DEFINE q == AllTorn(entries, InFlight, "Paused")
<1>1. /\ q \in Seq(Entry) /\ Doubles(q) /\ BarFits(q, bar)
      /\ RecordsOf(q, "Completed") = RecordsOf(entries, "Completed")
  BY AllTornOrderly
<1>2. entries' = q /\ paused' = SavedPaused(q) /\ UNCHANGED <<bar, completed>>
  BY DEF PauseAll
<1> HIDE DEF q
<1>3. Registered(q, completed, paused')
  BY <1>1, <1>2 DEF Orderly, Registered, SavedPaused
<1>4. OncePaused(paused')
  BY <1>1, <1>2, SavedOnce
<1> QED
  BY <1>1, <1>2, <1>3, <1>4 DEF Orderly

LEMMA ResumeAllOrderly ==
  ASSUME IInv, Orderly, ResumeAll
  PROVE  Orderly'
<1> DEFINE q == AllTorn(entries, {"Paused"}, "Queued")
<1>1. \A i \in RowsIn(entries, {"Paused"}) : IsFirst(entries, entries[i].id, i)
  BY DEF ResumeAll
<1>2. /\ q \in Seq(Entry) /\ Doubles(q) /\ BarFits(q, bar)
      /\ RecordsOf(q, "Completed") = RecordsOf(entries, "Completed")
  BY <1>1, AllTornOrderly
<1>3. paused' = SavedPaused(q) /\ ProcessQueue(q, parts, bar) /\ UNCHANGED completed
  BY DEF ResumeAll
<1> HIDE DEF q
<1>4. Registered(q, completed', paused')
  BY <1>2, <1>3 DEF Orderly, Registered, SavedPaused
<1>5. OncePaused(paused')
  BY <1>2, <1>3, SavedOnce
<1> QED
  BY <1>2, <1>3, <1>4, <1>5, QueueOrderly
(* Rows that have ended are erased; whoever erases a Completed row saves   *)
(* the registry.                                                           *)
LEMMA ErasingOrderly ==
  ASSUME IInv, Orderly, NEW S \in SUBSET DOMAIN entries, entries' \in Keeping(entries, S),
         \A i \in DOMAIN entries \ S : entries[i].status # "Paused",
         bar' = bar \/ \E V : bar' = Dropped(bar, V),
         \/ completed' \in SavedCompleted(entries')
         \/ /\ UNCHANGED completed
            /\ \A i \in DOMAIN entries \ S : entries[i].status # "Completed",
         UNCHANGED paused
  PROVE  Orderly'
<1>1. entries \in Seq(Entry) /\ Doubles(entries) /\ BarFits(entries, bar) /\ bar \in BarType
  BY Facts DEF Orderly
<1> DEFINE q == entries'
<1>2. q \in Seq(Entry) /\ q \in Keeping(entries, S)
  BY <1>1, KeepingRows
<1> HIDE DEF q
<1>3. /\ Doubles(q) /\ BarFits(q, bar)
      /\ \A s : (\A i \in DOMAIN entries \ S : entries[i].status # s) =>
             RecordsOf(q, s) = RecordsOf(entries, s)
  BY <1>1, <1>2, KeepingFits
<1>4. BarFits(q, bar')
  BY <1>1, <1>2, <1>3, DroppedFits
<1>5. /\ completed' \subseteq RecordsOf(q, "Completed")
      /\ Cardinality(completed') < MaxPersisted => RecordsOf(q, "Completed") \subseteq completed'
  <2>1. CASE completed' \in SavedCompleted(q)
    BY <1>2, <2>1, SavedRegistered
  <2>2. CASE /\ UNCHANGED completed
             /\ \A i \in DOMAIN entries \ S : entries[i].status # "Completed"
    BY <1>3, <2>2 DEF Orderly, Registered
  <2> QED
    BY <2>1, <2>2 DEF q
<1>6. RecordsOf(q, "Paused") \subseteq paused' /\ OncePaused(paused')
  BY <1>3 DEF Orderly, Registered
<1> QED
  BY <1>3, <1>4, <1>5, <1>6 DEF q, Orderly, Registered

LEMMA RemoveOrderly ==
  ASSUME IInv, Orderly,
         (\E v \in Videos : RemoveEnded(v)) \/ ClearCompleted \/ PurgeStaleCompleted
  PROVE  Orderly'
<1>1. ASSUME NEW v \in Videos, RemoveEnded(v) PROVE Orderly'
  <2>1. PICK i \in DOMAIN entries :
          /\ entries[i].status \in Terminal
          /\ entries' \in Keeping(entries, DOMAIN entries \ {i})
          /\ bar' = Dropped(bar, {v})
          /\ IF entries[i].status = "Completed" THEN completed' \in SavedCompleted(entries')
                                                ELSE UNCHANGED completed
          /\ UNCHANGED paused
    BY <1>1 DEF RemoveEnded
  <2> DEFINE S == DOMAIN entries \ {i}
  <2>2. /\ S \in SUBSET DOMAIN entries /\ entries' \in Keeping(entries, S)
        /\ \A j \in DOMAIN entries \ S : j = i
    BY <2>1
  <2> HIDE DEF S
  <2>3. \E V : bar' = Dropped(bar, V)
    BY <2>1
  <2> QED
    BY <2>1, <2>2, <2>3, ErasingOrderly DEF Terminal
<1>2. CASE ClearCompleted
  <2> DEFINE S == RowsIn(entries, Active)
  <2>1. /\ entries' \in Keeping(entries, S)
        /\ \E V : bar' = Dropped(bar, V)
        /\ IF RowsIn(entries, {"Completed"}) # {} THEN completed' \in SavedCompleted(entries')
                                                  ELSE UNCHANGED completed
        /\ UNCHANGED paused
    BY <1>2 DEF ClearCompleted
  <2>2. /\ S \in SUBSET DOMAIN entries
        /\ \A i \in DOMAIN entries \ S : entries[i].status # "Paused"
    BY DEF RowsIn, Active
  <2>3. ASSUME RowsIn(entries, {"Completed"}) = {}
        PROVE  \A i \in DOMAIN entries : entries[i].status # "Completed"
    BY <2>3 DEF RowsIn
  <2> HIDE DEF S
  <2> QED
    BY <2>1, <2>2, <2>3, ErasingOrderly
<1>3. CASE PurgeStaleCompleted
  <2> DEFINE S == DOMAIN entries \ Stale(entries)
  <2>1. /\ entries' \in Keeping(entries, S)
        /\ completed' \in SavedCompleted(entries')
        /\ UNCHANGED <<bar, paused>>
    BY <1>3 DEF PurgeStaleCompleted
  <2>2. /\ S \in SUBSET DOMAIN entries
        /\ \A i \in DOMAIN entries \ S : entries[i].status # "Paused"
    BY DEF Stale, RowsIn
  <2> HIDE DEF S
  <2> QED
    BY <2>1, <2>2, ErasingOrderly
<1> QED
  BY <1>1, <1>2, <1>3

LEMMA RemoveActiveOrderly ==
  ASSUME IInv, Orderly, NEW v \in Videos, RemoveActive(v)
  PROVE  Orderly'
<1>0. PICK i \in DOMAIN entries :
        /\ IsFirst(entries, v, i)
        /\ entries[i].status \in Active
        /\ \E q \in Keeping(Torn(entries, i, "Canceled", "None"), DOMAIN entries \ {i}) :
              ProcessQueue(q, WithoutPart(parts, entries[i].dest), Dropped(bar, {v}))
  BY DEF RemoveActive
<1>1. PICK q \in Keeping(Torn(entries, i, "Canceled", "None"), DOMAIN entries \ {i}) :
        ProcessQueue(q, WithoutPart(parts, entries[i].dest), Dropped(bar, {v}))
  BY <1>0
<1> DEFINE e == Stopped(entries[i], "Canceled", "None")
           t == Torn(entries, i, "Canceled", "None")
           S == DOMAIN entries \ {i}
<1>2. /\ e.id = entries[i].id /\ e.status = "Canceled"
      /\ t = [entries EXCEPT ![i] = e] /\ t \in Seq(Entry)
  BY Facts, StoppedType, TornRows DEF Torn
<1> HIDE DEF e
<1>3. /\ DOMAIN t = DOMAIN entries /\ t[i] = e
      /\ \A j \in DOMAIN entries : j # i => t[j] = entries[j]
      /\ entries \in Seq(Entry) /\ bar \in BarType
  BY <1>2, Facts
<1> HIDE DEF t
<1>4. Alone(entries, i)
  BY <1>0, <1>3, FirstAlone DEF Orderly, Active, InFlight, IsFirst
<1>5. /\ Doubles(t) /\ BarFits(t, bar)
      /\ \A s : e.status # s => RecordsOf(t, s) \subseteq RecordsOf(entries, s)
      /\ \A s : entries[i].status # s /\ e.status # s =>
             RecordsOf(t, s) = RecordsOf(entries, s)
  <2>1. Doubles(entries) /\ BarFits(entries, bar)
    BY DEF Orderly
  <2>2. t[i].status \in Terminal /\ t[i].id = entries[i].id
    BY <1>2, <1>3 DEF Terminal
  <2>3. t \in Seq(Entry)
    BY <1>2
  <2> QED
    BY <1>3, <1>4, <2>1, <2>2, <2>3, OneRow
<1>6. /\ S \in SUBSET DOMAIN t /\ q \in Keeping(t, S)
      /\ \A s \in {"Completed", "Paused"} : \A j \in DOMAIN t \ S : t[j].status # s
  BY <1>1, <1>2, <1>3 DEF t
<1> HIDE DEF S
<1>7. /\ q \in Seq(Entry) /\ Doubles(q) /\ BarFits(q, bar)
      /\ \A s \in {"Completed", "Paused"} : RecordsOf(q, s) = RecordsOf(t, s)
  <2>1. t \in Seq(Entry)
    BY <1>2
  <2>2. q \in Seq(Entry)
    BY <1>6, <2>1, KeepingRows
  <2>3. /\ Doubles(q) /\ BarFits(q, bar)
        /\ \A s : (\A j \in DOMAIN t \ S : t[j].status # s) => RecordsOf(q, s) = RecordsOf(t, s)
    BY <1>5, <1>6, <2>1, KeepingFits
  <2> QED
    BY <1>6, <2>2, <2>3
<1>8. BarFits(q, Dropped(bar, {v}))
  BY <1>3, <1>7, DroppedFits
<1>9. UNCHANGED <<completed, paused>>
  BY DEF RemoveActive
<1>10. entries[i].status # "Completed"
  BY <1>0 DEF Active, InFlight
<1>11. RecordsOf(q, "Completed") = RecordsOf(entries, "Completed")
  BY <1>2, <1>5, <1>7, <1>10
<1>12. RecordsOf(q, "Paused") \subseteq RecordsOf(entries, "Paused")
  BY <1>2, <1>5, <1>7
<1>13. Registered(q, completed', paused') /\ OncePaused(paused')
  BY <1>9, <1>11, <1>12 DEF Orderly, Registered
<1> QED
  BY <1>1, <1>7, <1>8, <1>13, QueueOrderly

LEMMA RetryKickOrderly ==
  ASSUME IInv, Orderly, NEW v \in Videos, RetryKick(v)
  PROVE  Orderly'
<1>1. UNCHANGED <<completed, paused>>
  BY DEF RetryKick
<1>2. CASE Wakes(v)
  <2>1. ProcessQueue(entries, parts, bar)
    BY <1>2 DEF RetryKick
  <2>2. /\ Doubles(entries) /\ BarFits(entries, bar)
        /\ Registered(entries, completed', paused') /\ OncePaused(paused')
    BY <1>1 DEF Orderly
  <2> QED
    BY <2>1, <2>2, Facts, QueueOrderly
<1>3. CASE ~ Wakes(v)
  BY <1>1, <1>3 DEF RetryKick, Orderly
<1> QED
  BY <1>2, <1>3

LEMMA UserOrderly ==
  ASSUME IInv, Orderly, UserStep
  PROVE  Orderly'
<1>1. ASSUME NEW v \in Videos, NEW hint \in SizeHints, Start(v, hint) PROVE Orderly'
  <2>1. hint \in 0 .. Size
    BY SizeAssumption
  <2>2. "guess" \in Exts /\ "true" \in Exts
    BY DEF Exts
  <2> QED
    BY <1>1, <2>1, <2>2, EnqueueOrderly DEF Start
<1>2. ASSUME NEW v \in Videos, Retry(v) PROVE Orderly'
  <2>1. PICK i \in DOMAIN entries :
          /\ IsFirst(entries, v, i)
          /\ entries[i].status \in {"Failed", "Canceled"}
          /\ Enqueue(v, entries[i].dest[2], entries[i].total)
    BY <1>2 DEF Retry
  <2>2. entries[i].dest[2] \in Exts /\ entries[i].total \in 0 .. Size
    BY Facts DEF Entry, Paths
  <2>3. \A j \in DOMAIN entries : IsFirst(entries, v, j) => j = i
    <3> SUFFICES ASSUME NEW j \in DOMAIN entries, IsFirst(entries, v, j) PROVE j = i
      OBVIOUS
    <3>1. i \in Nat \ {0} /\ j \in Nat \ {0}
      BY Facts
    <3> QED
      BY <2>1, <3>1 DEF IsFirst
  <2> QED
    BY <2>1, <2>2, <2>3, EnqueueOrderly
<1>3. CASE DismissLatest
  <2>1. /\ UNCHANGED <<entries, completed, paused>>
        /\ bar'.visible = FALSE /\ bar'.id = bar.id
    BY <1>3, Facts DEF DismissLatest, BarType
  <2> QED
    BY <2>1, SameListOrderly
<1>4. ASSUME NEW v \in Videos, StartAgain(v) PROVE Orderly'
  <2>1. UNCHANGED <<entries, completed, paused>>
    BY <1>4 DEF StartAgain
  <2> QED
    BY <1>4, <2>1, SameListOrderly
<1> QED
  BY <1>1, <1>2, <1>3, <1>4, CancelOrderly, RemoveActiveOrderly, RemoveOrderly,
     PauseAllOrderly, ResumeAllOrderly DEF UserStep

-------------------------------------------------------------------------------
LEMMA FailOrderly ==
  ASSUME IInv, Orderly, NEW i \in DOMAIN entries, NEW reason \in Reasons, NEW ps,
         IsFirst(entries, entries[i].id, i), entries[i].status = "Downloading",
         ProcessQueue(Torn(entries, i, "Failed", reason), ps, Ended(bar, {entries[i].id})),
         UNCHANGED <<completed, paused>>
  PROVE  Orderly'
<1> DEFINE e == Stopped(entries[i], "Failed", reason)
<1>1. /\ e \in Entry /\ e.id = entries[i].id /\ e.status = "Failed"
      /\ ProcessQueue([entries EXCEPT ![i] = e], ps, Ended(bar, {entries[i].id}))
  <2>1. entries[i] \in Entry /\ "Failed" \in Statuses
    BY Facts DEF Statuses
  <2>2. e \in Entry /\ e.id = entries[i].id /\ e.status = "Failed"
    BY <2>1, StoppedType
  <2> QED
    BY <2>2 DEF Torn
<1>2. entries[i].status \in Active /\ e.status \in Terminal
  BY <1>1 DEF Active, InFlight, Terminal
<1> HIDE DEF e
<1> QED
  BY <1>1, <1>2, OneRowQueued

LEMMA NetFailureOrderly ==
  ASSUME IInv, Orderly, NEW i \in DOMAIN entries, NEW ps, NEW nerr,
         IsFirst(entries, entries[i].id, i), entries[i].status = "Downloading",
         NetFailure(i, nerr, ps)
  PROVE  Orderly'
<1>1. CASE MayRetry(entries[i], nerr)
  <2> DEFINE e == [Stopped(entries[i], "Queued", "None") EXCEPT !.retries = @ - 1]
  <2>1. e \in Entry /\ e.id = entries[i].id /\ e.status = "Queued"
    <3>1. /\ Stopped(entries[i], "Queued", "None") \in Entry
          /\ Stopped(entries[i], "Queued", "None").status = "Queued"
          /\ Stopped(entries[i], "Queued", "None").id = entries[i].id
          /\ Stopped(entries[i], "Queued", "None").retries = entries[i].retries
      BY Facts, StoppedType
    <3>2. entries[i].retries - 1 \in 0 .. MaxRetries
      BY SMTT(30), <1>1, Facts, LimitsAssumption DEF Entry, MayRetry
    <3> QED
      BY <3>1, <3>2 DEF Entry
  <2>2. entries' = [entries EXCEPT ![i] = e] /\ UNCHANGED <<bar, completed, paused>>
    BY <1>1, Facts DEF NetFailure, BackOff
  <2>3. entries[i].status \in InFlight /\ e.status \in InFlight
    BY <2>1 DEF InFlight
  <2> HIDE DEF e
  <2> QED
    BY <2>1, <2>2, <2>3, OneRowOnly
<1>2. CASE ~ MayRetry(entries[i], nerr)
  <2>1. PICK reason \in {"Timeout", "Network"} : Fail(i, reason)
    BY <1>2 DEF NetFailure
  <2>2. reason \in Reasons
    BY DEF Reasons
  <2> QED
    BY <2>1, <2>2, FailOrderly DEF Fail
<1> QED
  BY <1>1, <1>2

LEMMA CompleteOrderly ==
  ASSUME IInv, Orderly, NEW i \in DOMAIN entries, NEW c, NEW received \in 0 .. Size,
         IsFirst(entries, entries[i].id, i), entries[i].status = "Downloading",
         Complete(i, c, received)
  PROVE  Orderly'
<1> DEFINE e == [Stopped(entries[i], "Completed", "None") EXCEPT
                   !.total = IF @ = 0 THEN received ELSE @]
<1>1. e \in Entry /\ e.status = "Completed" /\ e.id = entries[i].id
  <2>1. /\ Stopped(entries[i], "Completed", "None") \in Entry
        /\ Stopped(entries[i], "Completed", "None").status = "Completed"
        /\ Stopped(entries[i], "Completed", "None").id = entries[i].id
    BY Facts, StoppedType
  <2> QED
    BY <2>1 DEF Entry
<1>2. /\ completed' \in SavedCompleted([entries EXCEPT ![i] = e])
      /\ ProcessQueue([entries EXCEPT ![i] = e], WithoutPart(parts, entries[i].dest),
                      Ended(bar, {entries[i].id}))
      /\ UNCHANGED paused
  BY DEF Complete
<1>3. entries[i].status \in Active /\ e.status \in Terminal
  BY <1>1 DEF Active, InFlight, Terminal
<1> HIDE DEF e
<1> QED
  BY <1>1, <1>2, <1>3, OneRowQueued

(* A signal that changes one row's bookkeeping.                            *)
LEMMA RowSignal ==
  ASSUME IInv, NEW i \in DOMAIN entries,
         \/ \E known \in BOOLEAN : PartialContent(i, known)
         \/ \E typed \in BOOLEAN : WholeBody(i, typed)
         \/ Chunk(i) \/ LearnTotal(i)
  PROVE  \E e : /\ entries' = [entries EXCEPT ![i] = e]
               /\ e.id = entries[i].id /\ e.status = entries[i].status
<1>1. entries[i] \in Entry
  BY Facts
<1>2. ASSUME NEW typed \in BOOLEAN, WholeBody(i, typed)
      PROVE  \E e : /\ entries' = [entries EXCEPT ![i] = e]
                    /\ e.id = entries[i].id /\ e.status = entries[i].status
  <2> DEFINE e == [entries[i] EXCEPT !.reply = "body", !.from = 0, !.next = 1]
             ps == Wiped(entries[i])
  <2>1. e.id = entries[i].id /\ e.status = entries[i].status /\ e \in Entry
    <3>1. 1 \in 1 .. Size + 1
      BY SizeAssumption
    <3> QED
      BY <1>1, <3>1 DEF Entry
  <2>2. IF Relocates(e, typed) THEN Relocated(i, e, ps)
        ELSE entries' = [entries EXCEPT ![i] = e]
    BY <1>2 DEF WholeBody
  <2> HIDE DEF e, ps
  <2>3. CASE ~ Relocates(e, typed)
    BY <2>1, <2>2, <2>3
  <2>4. CASE Relocates(e, typed)
    <3>1. PICK dest, file :
            entries' = [entries EXCEPT ![i] =
                          [e EXCEPT !.dest = dest, !.file = file, !.from = 0]]
      BY <2>2, <2>4 DEF Relocated
    <3>2. [e EXCEPT !.dest = dest, !.file = file, !.from = 0].id = e.id
      BY <2>1 DEF Entry
    <3>3. [e EXCEPT !.dest = dest, !.file = file, !.from = 0].status = e.status
      BY <2>1 DEF Entry
    <3> QED
      BY <2>1, <3>1, <3>2, <3>3
  <2> QED
    BY <2>3, <2>4
<1>3. CASE Chunk(i)
  <2> DEFINE e == [entries[i] EXCEPT !.next = @ + 1]
  <2>1. entries' = [entries EXCEPT ![i] = e]
    BY <1>3, Facts DEF Chunk
  <2>2. e.id = entries[i].id /\ e.status = entries[i].status
    BY <1>1 DEF Entry
  <2> HIDE DEF e
  <2> QED
    BY <2>1, <2>2
<1>4. CASE LearnTotal(i)
  <2> DEFINE e == [entries[i] EXCEPT !.total = Size]
  <2>1. entries' = [entries EXCEPT ![i] = e]
    BY <1>4, Facts DEF LearnTotal
  <2>2. e.id = entries[i].id /\ e.status = entries[i].status
    BY <1>1 DEF Entry
  <2> HIDE DEF e
  <2> QED
    BY <2>1, <2>2
<1>5. ASSUME NEW known \in BOOLEAN, PartialContent(i, known)
      PROVE  \E e : /\ entries' = [entries EXCEPT ![i] = e]
                    /\ e.id = entries[i].id /\ e.status = entries[i].status
  <2> DEFINE e == [entries[i] EXCEPT !.reply = "body", !.next = entries[i].from + 1,
                                  !.total = IF known THEN Size ELSE entries[i].total]
  <2>1. entries' = [entries EXCEPT ![i] = e]
    BY <1>5, Facts DEF PartialContent, Entry
  <2>2. e.id = entries[i].id /\ e.status = entries[i].status
    BY <1>1 DEF Entry
  <2> HIDE DEF e
  <2> QED
    BY <2>1, <2>2
<1> QED
  BY <1>2, <1>3, <1>4, <1>5

LEMMA RowOrderly ==
  ASSUME IInv, Orderly, NEW i \in DOMAIN entries,
         \/ \E known \in BOOLEAN : PartialContent(i, known)
         \/ \E typed \in BOOLEAN : WholeBody(i, typed)
         \/ Chunk(i) \/ LearnTotal(i)
  PROVE  Orderly'
<1>1. /\ IsFirst(entries, entries[i].id, i) /\ entries[i].status = "Downloading"
      /\ UNCHANGED <<bar, completed, paused>>
  BY DEF PartialContent, WholeBody, Chunk, LearnTotal, Transferring
<1>2. entries' \in Seq(Entry)
  <2>1. NetStep(i)
    BY DEF NetStep
  <2> QED
    BY <2>1, NetStepIInv DEF IInv, TypeOK
<1>3. PICK e : /\ entries' = [entries EXCEPT ![i] = e]
               /\ e.id = entries[i].id /\ e.status = entries[i].status
  BY RowSignal
<1>4. e \in Entry
  <2>1. entries'[i] = e /\ i \in DOMAIN entries'
    BY <1>3
  <2> QED
    BY <1>2, <2>1
<1>5. entries[i].status \in InFlight
  BY <1>1 DEF InFlight
<1> QED
  BY <1>1, <1>3, <1>4, <1>5, OneRowOnly

LEMMA NetOrderly ==
  ASSUME IInv, Orderly, NEW i \in DOMAIN entries, NetStep(i)
  PROVE  Orderly'
<1>1. IsFirst(entries, entries[i].id, i) /\ entries[i].status = "Downloading"
  BY DEF NetStep, PartialContent, WholeBody, TruncateFails, RangeRefused, HttpError,
         Chunk, ChunkFails, LearnTotal, Broken, Finished, Transferring
<1>2. CASE TruncateFails(i) \/ \E nerr \in {"dropped", "timeout", "fatal"} : Broken(i, nerr)
  BY <1>1, <1>2, NetFailureOrderly DEF TruncateFails, Broken
<1>3. CASE RangeRefused(i) \/ \E kind \in {"http", "auth"} : HttpError(i, kind)
  <2>1. PICK reason \in {"Http", "Auth"} : Fail(i, reason)
    BY <1>3 DEF RangeRefused, HttpError
  <2>2. reason \in Reasons
    BY DEF Reasons
  <2> QED
    BY <1>1, <2>1, <2>2, FailOrderly DEF Fail
<1>4. CASE ChunkFails(i)
  <2>1. PICK ps : NetFailure(i, "canceled", ps)
    BY <1>4 DEF ChunkFails
  <2> QED
    BY <1>1, <2>1, NetFailureOrderly
<1>5. CASE Finished(i)
  <2>1. CASE FinalizeFailed(i)
    <3>1. /\ ProcessQueue(Torn(entries, i, "Failed", "DiskWrite"), Dropping(entries[i]),
                          Ended(bar, {entries[i].id}))
          /\ UNCHANGED <<completed, paused>>
      BY <2>1 DEF FinalizeFailed
    <3>2. "DiskWrite" \in Reasons
      BY DEF Reasons
    <3> QED
      BY <1>1, <3>1, <3>2, FailOrderly
  <2>2. CASE ~ FinalizeFailed(i)
    <3>1. PICK written \in BOOLEAN :
            \E c \in OnDisk(entries[i], written) :
               Complete(i, c, IF written THEN Size ELSE entries[i].next - 1)
      BY <1>5, <2>2 DEF Finished
    <3>2. PICK c : Complete(i, c, IF written THEN Size ELSE entries[i].next - 1)
      BY <3>1
    <3>3. (IF written THEN Size ELSE entries[i].next - 1) \in 0 .. Size
      BY SMTT(30), Facts, SizeAssumption DEF Entry
    <3> QED
      BY <1>1, <3>2, <3>3, CompleteOrderly
  <2> QED
    BY <2>1, <2>2
<1> QED
  BY <1>2, <1>3, <1>4, <1>5, RowOrderly, <1>1 DEF NetStep

(* A restart restores one row of each record, Completed before Paused; of  *)
(* neither registry has a video two records.                               *)
LEMMA RestoredOnce ==
  ASSUME NEW R \in SUBSET Saved, IsFiniteSet(R), NEW status \in {"Completed", "Paused"},
         \A r, s \in R : r.id = s.id => r = s,
         NEW a \in Arrangements({Restored(r, status) : r \in R})
  PROVE  /\ a \in Seq(Entry)
         /\ \A i \in DOMAIN a : a[i].status = status
         /\ \A i, j \in DOMAIN a : a[i].id = a[j].id => i = j
         /\ {Record(a[i]) : i \in DOMAIN a} = R
<1> DEFINE S == {Restored(r, status) : r \in R}
           f == [r \in R |-> Restored(r, status)]
<1>1. a \in Seq(Entry) /\ \A i \in DOMAIN a : a[i].status = status
  BY RestoredRows
<1>2. ASSUME NEW r \in R PROVE Restored(r, status).id = r.id /\ Record(Restored(r, status)) = r
  <2>1. Record(Restored(r, status)) = [id |-> r.id, dest |-> r.dest, total |-> r.total]
    BY DEF Record, Restored
  <2>2. r \in Saved
    OBVIOUS
  <2> QED
    BY <2>1, <2>2 DEF Saved, Restored
<1>3. IsFiniteSet(S)
  <2>1. f \in Surjection(R, S)
    BY DEF Surjection
  <2> HIDE DEF S, f
  <2> QED
    BY <2>1, FS_Surjection
<1>4. /\ a \in [1 .. Cardinality(S) -> S] /\ Cardinality(S) \in Nat
      /\ \A i, j \in DOMAIN a : a[i] = a[j] => i = j
  BY <1>3, FS_CardinalityType DEF Arrangements
<1>5. \A i \in DOMAIN a : \E r \in R : a[i] = Restored(r, status)
  BY <1>4
<1>6. \A i, j \in DOMAIN a : a[i].id = a[j].id => i = j
  <2> SUFFICES ASSUME NEW i \in DOMAIN a, NEW j \in DOMAIN a, a[i].id = a[j].id PROVE i = j
    OBVIOUS
  <2>1. PICK r \in R : a[i] = Restored(r, status)
    BY <1>5
  <2>2. PICK s \in R : a[j] = Restored(s, status)
    BY <1>5
  <2>3. r = s
    BY <1>2, <2>1, <2>2
  <2> QED
    BY <1>4, <2>1, <2>2, <2>3
<1>7. \A e \in S : \E i \in DOMAIN a : a[i] = e
  <2> DEFINE n == Cardinality(S)
  <2>1. a \in Injection(1 .. n, S)
    BY <1>4 DEF Injection, IsInjective
  <2> HIDE DEF S
  <2>2. IsFiniteSet(1 .. n) /\ Cardinality(1 .. n) = n
    BY <1>4, FS_Interval
  <2>3. a \in Surjection(1 .. n, S)
    BY <1>3, <2>1, <2>2, FS_Injection
  <2> QED
    BY <1>4, <2>3 DEF Surjection
<1>8. {Record(a[i]) : i \in DOMAIN a} = R
  <2>1. ASSUME NEW i \in DOMAIN a PROVE Record(a[i]) \in R
    BY <1>2, <1>5
  <2>2. ASSUME NEW r \in R PROVE \E i \in DOMAIN a : Record(a[i]) = r
    <3>1. PICK i \in DOMAIN a : a[i] = Restored(r, status)
      BY <1>7
    <3> QED
      BY <1>2, <3>1
  <2> QED
    BY <2>1, <2>2
<1> QED
  BY <1>1, <1>6, <1>8

LEMMA RestartOrderly ==
  ASSUME IInv, Orderly, Restart
  PROVE  Orderly'
<1> DEFINE kept == {r \in completed : files[r.dest] # NoFile}
           stopped == {x \in paused : parts[x.dest] # NoFile}
<1>1. /\ completed' = kept
      /\ bar' = [id |-> NoVideo, visible |-> FALSE, hiding |-> FALSE]
      /\ UNCHANGED paused
  BY DEF Restart
<1>2. /\ kept \in SUBSET Saved /\ IsFiniteSet(kept)
      /\ stopped \in SUBSET Saved /\ IsFiniteSet(stopped) /\ stopped \subseteq paused
  BY Facts, FS_Subset
<1>3. \A r, s \in kept : r.id = s.id => r = s
  <2> SUFFICES ASSUME NEW r \in completed, NEW s \in completed, r.id = s.id PROVE r = s
    OBVIOUS
  <2>1. /\ \E i \in RowsIn(entries, {"Completed"}) : r = Record(entries[i])
        /\ \E i \in RowsIn(entries, {"Completed"}) : s = Record(entries[i])
    BY DEF Orderly, Registered, RecordsOf
  <2>2. PICK i \in RowsIn(entries, {"Completed"}) : r = Record(entries[i])
    BY <2>1
  <2>3. PICK j \in RowsIn(entries, {"Completed"}) : s = Record(entries[j])
    BY <2>1
  <2>4. /\ i \in DOMAIN entries /\ j \in DOMAIN entries
        /\ entries[i].status = "Completed" /\ entries[j].status = "Completed"
        /\ entries[i].id = entries[j].id
    BY <2>2, <2>3 DEF RowsIn, Record
  <2>5. ~ (i < j) /\ ~ (j < i)
    BY <2>4 DEF Orderly, Doubles
  <2>6. i \in Nat /\ j \in Nat
    BY <2>4, Facts
  <2> QED
    BY <2>2, <2>3, <2>5, <2>6
<1>4. \A r, s \in stopped : r.id = s.id => r = s
  BY DEF Orderly, OncePaused
<1>5. PICK a \in Arrangements({Restored(r, "Completed") : r \in kept}),
           b \in Arrangements({Restored(r, "Paused") : r \in stopped}) :
        entries' = a \o b
  BY DEF Restart
<1> HIDE DEF kept, stopped
<1>6. /\ a \in Seq(Entry) /\ \A i \in DOMAIN a : a[i].status = "Completed"
      /\ \A i, j \in DOMAIN a : a[i].id = a[j].id => i = j
      /\ {Record(a[i]) : i \in DOMAIN a} = kept
  BY <1>2, <1>3, RestoredOnce
<1>7. /\ b \in Seq(Entry) /\ \A i \in DOMAIN b : b[i].status = "Paused"
      /\ \A i, j \in DOMAIN b : b[i].id = b[j].id => i = j
      /\ {Record(b[i]) : i \in DOMAIN b} = stopped
  BY <1>2, <1>4, RestoredOnce
<1> DEFINE q == a \o b
           n == Len(a)
<1>8. /\ n \in Nat /\ DOMAIN a = 1 .. n /\ DOMAIN b = 1 .. Len(b) /\ Len(b) \in Nat
      /\ DOMAIN q = 1 .. n + Len(b) /\ q \in Seq(Entry)
      /\ \A i \in DOMAIN a : i \in DOMAIN q /\ q[i] = a[i]
      /\ \A j \in DOMAIN b : n + j \in DOMAIN q /\ q[n + j] = b[j]
      /\ \A i \in DOMAIN q : i \in DOMAIN a \/ (i > n /\ i - n \in DOMAIN b /\ q[i] = b[i - n])
  <2>1. /\ n \in Nat /\ DOMAIN a = 1 .. n /\ DOMAIN b = 1 .. Len(b) /\ Len(b) \in Nat
        /\ DOMAIN q = 1 .. n + Len(b) /\ q \in Seq(Entry)
    BY <1>6, <1>7
  <2>2. \A i \in DOMAIN q : q[i] = IF i <= n THEN a[i] ELSE b[i - n]
    BY <1>6, <1>7
  <2> HIDE DEF q, n
  <2>3. \A i \in DOMAIN a : i \in DOMAIN q /\ q[i] = a[i]
    BY <2>1, <2>2
  <2>4. \A j \in DOMAIN b : n + j \in DOMAIN q /\ ~ (n + j <= n) /\ (n + j) - n = j
    BY <2>1
  <2>5. \A j \in DOMAIN b : q[n + j] = b[j]
    BY <2>2, <2>4
  <2>6. \A i \in DOMAIN q : i \in DOMAIN a \/ (i > n /\ ~ (i <= n) /\ i - n \in DOMAIN b)
    BY <2>1
  <2> QED
    BY <2>1, <2>2, <2>3, <2>4, <2>5, <2>6
<1> HIDE DEF q, n
<1>9. Doubles(q)
  <2> SUFFICES ASSUME NEW i \in DOMAIN q, NEW j \in DOMAIN q, i < j, q[i].id = q[j].id
               PROVE  q[i].status = "Completed" /\ q[j].status = "Paused"
    BY DEF Doubles
  <2>0. i \in Nat /\ j \in Nat
    BY <1>8
  <2>1. CASE i \in DOMAIN a /\ j \in DOMAIN a
    BY <1>6, <1>8, <2>0, <2>1
  <2>2. CASE i \in DOMAIN a /\ j \notin DOMAIN a
    BY <1>6, <1>7, <1>8, <2>2
  <2>3. CASE i \notin DOMAIN a
    <3>1. j \notin DOMAIN a
      BY <1>8, <2>0, <2>3
    <3>2. i - n \in DOMAIN b /\ j - n \in DOMAIN b /\ q[i] = b[i - n] /\ q[j] = b[j - n]
      BY <1>8, <2>3, <3>1
    <3>3. i - n = j - n
      BY <1>7, <3>2
    <3> QED
      BY <1>8, <2>0, <3>3
  <2> QED
    BY <2>1, <2>2, <2>3
<1>10. RecordsOf(q, "Completed") = kept
  <2>1. RowsIn(q, {"Completed"}) = DOMAIN a
    BY <1>6, <1>7, <1>8 DEF RowsIn
  <2>2. \A i \in DOMAIN a : q[i] = a[i]
    BY <1>8
  <2> QED
    BY <1>6, <2>1, <2>2 DEF RecordsOf
<1>11. RecordsOf(q, "Paused") \subseteq paused
  <2>1. ASSUME NEW i \in RowsIn(q, {"Paused"}) PROVE Record(q[i]) \in stopped
    <3>1. i \in DOMAIN q /\ i \notin DOMAIN a
      BY <1>6, <1>8 DEF RowsIn
    <3>2. i - n \in DOMAIN b /\ q[i] = b[i - n]
      BY <1>8, <3>1
    <3> QED
      BY <1>7, <3>2
  <2> QED
    BY <1>2, <2>1 DEF RecordsOf
<1>12. BarFits(q, bar')
  <2>1. \A i \in DOMAIN q : q[i] \in Entry
    BY <1>8
  <2>2. \A i \in DOMAIN q : q[i].id # NoVideo
    BY <2>1, NoVideoAssumption DEF Entry
  <2>3. bar'.id = NoVideo /\ bar'.hiding = FALSE
    BY <1>1
  <2> QED
    BY <2>2, <2>3 DEF BarFits
<1>13. entries' = q
  BY <1>5 DEF q
<1>14. Registered(q, completed', paused') /\ OncePaused(paused')
  BY <1>1, <1>10, <1>11 DEF Orderly, Registered
<1> QED
  BY <1>9, <1>12, <1>13, <1>14 DEF Orderly

LEMMA NextOrderly == IInv /\ Orderly /\ [Next]_vars => Orderly'
<1> SUFFICES ASSUME IInv, Orderly, [Next]_vars PROVE Orderly'
  OBVIOUS
<1>1. CASE UserStep
  BY <1>1, UserOrderly
<1>2. CASE \E i \in DOMAIN entries : NetStep(i)
  BY <1>2, NetOrderly
<1>3. CASE \E v \in Videos : RetryKick(v)
  BY <1>3, RetryKickOrderly
<1>4. CASE HideTimeout
  <2>1. /\ UNCHANGED <<entries, completed, paused>>
        /\ bar'.visible = FALSE /\ bar'.id = bar.id
    BY <1>4, Facts DEF HideTimeout, BarType
  <2> QED
    BY <2>1, SameListOrderly
<1>5. CASE \E p \in Paths : FileDeleted(p) \/ PartDeleted(p)
  BY <1>5 DEF FileDeleted, PartDeleted, Orderly
<1>6. CASE UNCHANGED vars
  BY <1>6 DEF vars, Orderly
<1> QED
  BY <1>1, <1>2, <1>3, <1>4, <1>5, <1>6, RestartOrderly DEF Next, WorldStep

LEMMA DownloadsOrderly == Spec => [](IInv /\ Orderly)
BY InitIInv, NextIInv, InitOrderly, NextOrderly, PTL DEF Spec

(* What a restart would find agrees with the list, for any number of       *)
(* videos, slots, faults and restarts: the eight calls of savePersisted()  *)
(* and savePaused() (downloads_model.cpp:495-628, 1084) are the right      *)
(* eight.                                                                  *)
THEOREM DownloadsRegistriesAgree == Spec => []RegistriesAgree
<1>1. Orderly => RegistriesAgree
  BY DEF Orderly, Registered, RegistriesAgree
<1> QED
  BY <1>1, DownloadsOrderly, PTL

(* The countdown that hides the bar never runs against a row that is still *)
(* going, even when a restart has brought a video back twice.              *)
THEOREM DownloadsHidesOnlyEnded == Spec => []HidesOnlyEnded
<1>1. Orderly => HidesOnlyEnded
  BY DEF Orderly, BarFits, HidesOnlyEnded
<1> QED
  BY <1>1, DownloadsOrderly, PTL
-------------------------------------------------------------------------------
(* The bar hides by itself unless it shows a row that is still going.      *)
Counting(q, b) ==
    b.visible /\ ~ b.hiding => \E i \in DOMAIN q : q[i].id = b.id /\ q[i].status \notin Terminal

LEMMA QueueCounting ==
  ASSUME NEW q \in Seq(Entry), NEW ps, NEW b \in BarType,
         ProcessQueue(q, ps, b), Counting(q, b)
  PROVE  Counting(entries', bar')
<1>1. /\ DOMAIN entries' = DOMAIN q
      /\ \A i \in DOMAIN q :
            /\ entries'[i].id = q[i].id
            /\ q[i].status # "Queued" => entries'[i] = q[i]
            /\ q[i].status = "Queued" =>
                  entries'[i].status \in {"Queued", "Downloading", "Failed"}
  BY ProcessQueueMoves
<1>2. PICK V : /\ bar' = Ended(b, V)
               /\ \A i \in DOMAIN q :
                     q[i].status = "Queued" /\ entries'[i].status = "Failed" => q[i].id \in V
  BY ProcessQueueMoves
<1>3. CASE b.id \in V
  <2>1. bar'.hiding = TRUE
    BY <1>2, <1>3 DEF Ended, BarType
  <2> QED
    BY <2>1 DEF Counting
<1>4. CASE b.id \notin V
  <2>1. bar' = b
    BY <1>2, <1>4 DEF Ended
  <2> SUFFICES ASSUME b.visible, ~ b.hiding
               PROVE  \E i \in DOMAIN entries' :
                         entries'[i].id = b.id /\ entries'[i].status \notin Terminal
    BY <2>1 DEF Counting
  <2>2. PICK i \in DOMAIN q : q[i].id = b.id /\ q[i].status \notin Terminal
    BY DEF Counting
  <2>3. entries'[i].status \notin Terminal
    BY <1>1, <1>2, <1>4, <2>2 DEF Terminal
  <2> QED
    BY <1>1, <2>2, <2>3
<1> QED
  BY <1>3, <1>4

LEMMA OneRowCounting ==
  ASSUME IInv, Counting(entries, bar), NEW i \in DOMAIN entries,
         NEW e \in Entry, e.id = entries[i].id, NEW b,
         \/ b = bar /\ e.status \notin Terminal
         \/ b = Ended(bar, {entries[i].id})
         \/ b = Focus(entries[i].id) /\ e.status \notin Terminal
  PROVE  Counting([entries EXCEPT ![i] = e], b)
<1> DEFINE q == [entries EXCEPT ![i] = e]
<1>1. /\ DOMAIN q = DOMAIN entries /\ q[i] = e
      /\ \A j \in DOMAIN entries : j # i => q[j] = entries[j]
  BY Facts
<1> HIDE DEF q
<1>2. CASE b = bar /\ e.status \notin Terminal
  BY <1>1, <1>2 DEF Counting
<1>3. CASE b = Ended(bar, {entries[i].id})
  <2>1. CASE bar.id = entries[i].id
    <3>1. b.hiding = TRUE
      BY <1>3, <2>1, Facts DEF Ended, BarType
    <3> QED
      BY <3>1 DEF Counting
  <2>2. CASE bar.id # entries[i].id
    <3>1. b = bar
      BY <1>3, <2>2 DEF Ended
    <3> QED
      BY <1>1, <2>2, <3>1 DEF Counting
  <2> QED
    BY <2>1, <2>2
<1>4. CASE b = Focus(entries[i].id) /\ e.status \notin Terminal
  BY <1>1, <1>4 DEF Counting, Focus
<1> QED
  BY <1>2, <1>3, <1>4 DEF q

(* Erasing rows that have ended, or the rows the bar lets go of.           *)
LEMMA KeepingCounting ==
  ASSUME NEW q \in Seq(Entry), NEW S \in SUBSET DOMAIN q, NEW r \in Keeping(q, S), NEW V,
         NEW b \in BarType, Counting(q, b),
         \A i \in DOMAIN q \ S : q[i].id \in V \/ q[i].status \in Terminal
  PROVE  Counting(r, Dropped(b, V))
<1>1. CASE b.id \in V
  <2>1. Dropped(b, V).visible = FALSE
    BY <1>1 DEF Dropped, BarType
  <2> QED
    BY <2>1 DEF Counting
<1>2. CASE b.id \notin V
  <2>1. Dropped(b, V) = b
    BY <1>2 DEF Dropped
  <2> SUFFICES ASSUME b.visible, ~ b.hiding
               PROVE  \E a \in DOMAIN r : r[a].id = b.id /\ r[a].status \notin Terminal
    BY <2>1 DEF Counting
  <2>2. PICK i \in DOMAIN q : q[i].id = b.id /\ q[i].status \notin Terminal
    BY DEF Counting
  <2>3. i \in S
    BY <1>2, <2>2
  <2>4. PICK f \in Bijection(DOMAIN r, S) : \A a \in DOMAIN r : r[a] = q[f[a]]
    BY KeepingRows
  <2>5. PICK a \in DOMAIN r : f[a] = i
    BY <2>3, <2>4 DEF Bijection, Surjection
  <2> QED
    BY <2>2, <2>4, <2>5
<1> QED
  BY <1>1, <1>2

LEMMA UserCounting ==
  ASSUME IInv, Counting(entries, bar), UserStep
  PROVE  Counting(entries', bar')
<1>1. ASSUME NEW v \in Videos, NEW x \in Exts, NEW hint \in 0 .. Size, Enqueue(v, x, hint)
      PROVE  Counting(entries', bar')
  <2> DEFINE S == {i \in DOMAIN entries : ~ IsFirst(entries, v, i)}
             row == NewRow(v, x, hint)
  <2>1. PICK q \in Keeping(entries, S) : ProcessQueue(Append(q, row), parts, Focus(v))
    BY <1>1 DEF Enqueue
  <2>2. q \in Seq(Entry)
    BY <2>1, Facts, KeepingRows
  <2>3. row \in Entry /\ row.status = "Queued" /\ row.id = v
    <3>1. DestPath(files, parts, TitleOf[v], x) \in Paths
      BY DestPathType, TitleAssumption
    <3>2. 1 \in 1 .. Size + 1 /\ MaxRetries \in 0 .. MaxRetries
      BY SizeAssumption, LimitsAssumption
    <3> QED
      BY <3>1, <3>2 DEF NewRow, Entry, Statuses, Reasons
  <2> HIDE DEF row, S
  <2> DEFINE r == Append(q, row)
  <2>4. r \in Seq(Entry) /\ Len(q) + 1 \in DOMAIN r /\ r[Len(q) + 1] = row
    BY <2>2, <2>3
  <2> HIDE DEF r
  <2>5. Counting(r, Focus(v))
    BY <2>3, <2>4 DEF Counting, Focus, Terminal
  <2> QED
    BY <2>1, <2>4, <2>5, Facts, QueueCounting DEF r
<1>2. ASSUME NEW v \in Videos, NEW hint \in SizeHints, Start(v, hint)
      PROVE  Counting(entries', bar')
  <2>1. hint \in 0 .. Size /\ "guess" \in Exts /\ "true" \in Exts
    BY SizeAssumption DEF Exts
  <2> QED
    BY <1>1, <1>2, <2>1 DEF Start
<1>3. ASSUME NEW v \in Videos, Retry(v) PROVE Counting(entries', bar')
  <2>1. PICK i \in DOMAIN entries : Enqueue(v, entries[i].dest[2], entries[i].total)
    BY <1>3 DEF Retry
  <2>2. entries[i].dest[2] \in Exts /\ entries[i].total \in 0 .. Size
    BY Facts DEF Entry, Paths
  <2> QED
    BY <1>1, <2>1, <2>2
<1>4. ASSUME NEW v \in Videos, StartAgain(v) PROVE Counting(entries', bar')
  BY <1>4 DEF StartAgain, Counting, Focus, IsFirst, InFlight, Terminal
<1>5. \A i \in DOMAIN entries, s \in {"Canceled", "Paused", "Queued"} :
         /\ Stopped(entries[i], s, "None") \in Entry
         /\ Stopped(entries[i], s, "None").id = entries[i].id
         /\ Stopped(entries[i], s, "None").status = s
  BY Facts, StoppedType
<1>6. ASSUME NEW i \in DOMAIN entries, NEW s \in {"Canceled", "Paused", "Queued"}, NEW b,
             \/ b = bar /\ s # "Canceled"
             \/ b = Ended(bar, {entries[i].id})
             \/ b = Focus(entries[i].id) /\ s # "Canceled"
      PROVE  /\ Torn(entries, i, s, "None") \in Seq(Entry) /\ b \in BarType
             /\ Counting(Torn(entries, i, s, "None"), b)
  <2> DEFINE e == Stopped(entries[i], s, "None")
  <2>1. e \in Entry /\ e.id = entries[i].id /\ e.status = s
    BY <1>5
  <2>2. Torn(entries, i, s, "None") = [entries EXCEPT ![i] = e]
    BY Facts DEF Torn
  <2> HIDE DEF e
  <2>3. s # "Canceled" => e.status \notin Terminal
    BY <2>1 DEF Terminal
  <2>4. [entries EXCEPT ![i] = e] \in Seq(Entry)
    BY <2>1, Facts
  <2>5. b \in BarType
    <3>1. entries[i].id \in Videos
      BY Facts DEF Entry
    <3> QED
      BY <1>6, <3>1, Facts, EndedType
  <2> QED
    BY <1>6, <2>1, <2>2, <2>3, <2>4, <2>5, OneRowCounting
<1>7. ASSUME NEW v \in Videos, Cancel(v) \/ Pause(v) \/ Resume(v)
      PROVE  Counting(entries', bar')
  <2>0. PICK i \in DOMAIN entries, s \in {"Canceled", "Paused", "Queued"} :
          \E ps, b :
            /\ ProcessQueue(Torn(entries, i, s, "None"), ps, b)
            /\ \/ b = bar /\ s # "Canceled"
               \/ b = Ended(bar, {entries[i].id})
               \/ b = Focus(entries[i].id) /\ s # "Canceled"
    <3>1. CASE Cancel(v)
      <4>1. PICK i \in DOMAIN entries :
              /\ entries[i].id = v
              /\ ProcessQueue(Torn(entries, i, "Canceled", "None"),
                              WithoutPart(parts, entries[i].dest), Ended(bar, {v}))
        BY <3>1 DEF Cancel, IsFirst
      <4> QED
        BY <4>1
    <3>2. CASE Pause(v)
      <4>1. PICK i \in DOMAIN entries :
              ProcessQueue(Torn(entries, i, "Paused", "None"), parts, bar)
        BY <3>2 DEF Pause
      <4> QED
        BY <4>1
    <3>3. CASE Resume(v)
      <4>1. PICK i \in DOMAIN entries :
              /\ entries[i].id = v
              /\ ProcessQueue(Torn(entries, i, "Queued", "None"), parts, Focus(v))
        BY <3>3 DEF Resume, IsFirst
      <4> QED
        BY <4>1
    <3> QED
      BY <1>7, <3>1, <3>2, <3>3
  <2>1. PICK ps, b :
          /\ ProcessQueue(Torn(entries, i, s, "None"), ps, b)
          /\ \/ b = bar /\ s # "Canceled"
             \/ b = Ended(bar, {entries[i].id})
             \/ b = Focus(entries[i].id) /\ s # "Canceled"
    BY <2>0
  <2>2. /\ Torn(entries, i, s, "None") \in Seq(Entry) /\ b \in BarType
        /\ Counting(Torn(entries, i, s, "None"), b)
    BY <1>6, <2>1
  <2> QED
    BY <2>1, <2>2, QueueCounting
<1>8. ASSUME NEW S \in {InFlight, {"Paused"}}, NEW s \in {"Queued", "Paused"}
      PROVE  /\ AllTorn(entries, S, s) \in Seq(Entry)
             /\ Counting(AllTorn(entries, S, s), bar)
  <2> DEFINE q == AllTorn(entries, S, s)
  <2>1. /\ DOMAIN q = DOMAIN entries
        /\ \A i \in DOMAIN entries : /\ q[i].id = entries[i].id
                                     /\ q[i] = entries[i] \/ q[i].status = s
    BY <1>5 DEF AllTorn
  <2> HIDE DEF q
  <2>2. Counting(q, bar)
    <3> SUFFICES ASSUME bar.visible, ~ bar.hiding
                 PROVE  \E i \in DOMAIN q : q[i].id = bar.id /\ q[i].status \notin Terminal
      BY DEF Counting
    <3>1. PICK i \in DOMAIN entries :
            entries[i].id = bar.id /\ entries[i].status \notin Terminal
      BY DEF Counting
    <3> QED
      BY <2>1, <3>1 DEF Terminal
  <2> QED
    BY <2>2, Facts, AllTornRows DEF q
<1>9. CASE PauseAll
  BY <1>8, <1>9 DEF PauseAll
<1>10. CASE ResumeAll
  <2>1. ProcessQueue(AllTorn(entries, {"Paused"}, "Queued"), parts, bar)
    BY <1>10 DEF ResumeAll
  <2> QED
    BY <1>8, <2>1, Facts, QueueCounting
<1>11. ASSUME NEW v \in Videos, RemoveActive(v) PROVE Counting(entries', bar')
  <2>0. PICK i \in DOMAIN entries :
          /\ entries[i].id = v
          /\ \E q \in Keeping(Torn(entries, i, "Canceled", "None"), DOMAIN entries \ {i}) :
                ProcessQueue(q, WithoutPart(parts, entries[i].dest), Dropped(bar, {v}))
    BY <1>11 DEF RemoveActive, IsFirst
  <2> DEFINE t == Torn(entries, i, "Canceled", "None")
             S == DOMAIN entries \ {i}
  <2>1. PICK q \in Keeping(t, S) :
          ProcessQueue(q, WithoutPart(parts, entries[i].dest), Dropped(bar, {v}))
    BY <2>0
  <2>2. t \in Seq(Entry) /\ DOMAIN t = DOMAIN entries
    BY Facts, TornRows DEF Torn
  <2>3. t[i].id = v /\ \A j \in DOMAIN t : j # i => t[j] = entries[j]
    BY <1>5, <2>0, <2>2 DEF Torn
  <2> HIDE DEF t
  <2>4. S \in SUBSET DOMAIN t /\ \A j \in DOMAIN t \ S : t[j].id \in {v}
    BY <2>2, <2>3
  <2> HIDE DEF S
  <2>5. q \in Seq(Entry)
    BY <2>1, <2>2, <2>4, KeepingRows
  <2>6. CASE bar.id = v
    <3>1. Dropped(bar, {v}).visible = FALSE
      BY <2>6, Facts DEF Dropped, BarType
    <3>2. Counting(q, Dropped(bar, {v}))
      BY <3>1 DEF Counting
    <3> QED
      BY <2>1, <2>5, <3>2, Facts, EndedType, QueueCounting
  <2>7. CASE bar.id # v
    <3>1. Counting(t, bar)
      BY <2>0, <2>2, <2>3, <2>7 DEF Counting
    <3>2. Counting(q, Dropped(bar, {v}))
      BY <2>1, <2>2, <2>4, <3>1, Facts, KeepingCounting
    <3> QED
      BY <2>1, <2>5, <3>2, Facts, EndedType, QueueCounting
  <2> QED
    BY <2>6, <2>7
<1>12. ASSUME NEW S \in SUBSET DOMAIN entries, entries' \in Keeping(entries, S),
              DOMAIN entries \ S \subseteq RowsIn(entries, Terminal),
              bar' = bar \/ \E V : bar' = Dropped(bar, V)
       PROVE  Counting(entries', bar')
  <2>1. \E V : bar' = Dropped(bar, V)
    <3>1. bar = Dropped(bar, {})
      BY DEF Dropped
    <3> QED
      BY <1>12, <3>1
  <2>2. \A i \in DOMAIN entries \ S : entries[i].status \in Terminal
    BY <1>12 DEF RowsIn
  <2> QED
    BY <1>12, <2>1, <2>2, Facts, KeepingCounting
<1>13. ASSUME NEW v \in Videos, RemoveEnded(v) PROVE Counting(entries', bar')
  <2>1. PICK i \in DOMAIN entries :
          /\ entries[i].status \in Terminal
          /\ entries' \in Keeping(entries, DOMAIN entries \ {i})
          /\ bar' = Dropped(bar, {v})
    BY <1>13 DEF RemoveEnded
  <2> DEFINE S == DOMAIN entries \ {i}
  <2>2. /\ S \in SUBSET DOMAIN entries /\ entries' \in Keeping(entries, S)
        /\ DOMAIN entries \ S \subseteq RowsIn(entries, Terminal)
    BY <2>1 DEF RowsIn
  <2> HIDE DEF S
  <2> QED
    BY <1>12, <2>1, <2>2
<1>14. CASE ClearCompleted
  <2> DEFINE S == RowsIn(entries, Active)
  <2>1. entries' \in Keeping(entries, S) /\ \E V : bar' = Dropped(bar, V)
    BY <1>14 DEF ClearCompleted
  <2>2. S \in SUBSET DOMAIN entries /\ DOMAIN entries \ S \subseteq RowsIn(entries, Terminal)
    <3>1. \A i \in DOMAIN entries : entries[i].status \in Statuses
      BY Facts DEF Entry
    <3> QED
      BY <3>1 DEF RowsIn, Active, InFlight, Terminal, Statuses
  <2> HIDE DEF S
  <2> QED
    BY <1>12, <2>1, <2>2
<1>15. CASE PurgeStaleCompleted
  <2> DEFINE S == DOMAIN entries \ Stale(entries)
  <2>1. entries' \in Keeping(entries, S) /\ bar' = bar
    BY <1>15 DEF PurgeStaleCompleted
  <2>2. S \in SUBSET DOMAIN entries /\ DOMAIN entries \ S \subseteq RowsIn(entries, Terminal)
    BY DEF Stale, RowsIn, Terminal
  <2> HIDE DEF S
  <2> QED
    BY <1>12, <2>1, <2>2
<1>16. CASE DismissLatest
  BY <1>16, Facts DEF DismissLatest, Counting, BarType
<1> QED
  BY <1>2, <1>3, <1>4, <1>7, <1>9, <1>10, <1>11, <1>13, <1>14, <1>15, <1>16 DEF UserStep
LEMMA FailCounting ==
  ASSUME IInv, Counting(entries, bar), NEW i \in DOMAIN entries, NEW reason \in Reasons, NEW ps,
         ProcessQueue(Torn(entries, i, "Failed", reason), ps, Ended(bar, {entries[i].id}))
  PROVE  Counting(entries', bar')
<1> DEFINE e == Stopped(entries[i], "Failed", reason)
<1>1. e \in Entry /\ e.id = entries[i].id
  <2>1. entries[i] \in Entry /\ "Failed" \in Statuses
    BY Facts DEF Statuses
  <2> QED
    BY <2>1, StoppedType
<1>2. ProcessQueue([entries EXCEPT ![i] = e], ps, Ended(bar, {entries[i].id}))
  BY DEF Torn
<1> HIDE DEF e
<1>3. [entries EXCEPT ![i] = e] \in Seq(Entry)
  BY <1>1, Facts
<1>4. Counting([entries EXCEPT ![i] = e], Ended(bar, {entries[i].id}))
  BY <1>1, OneRowCounting
<1>5. Ended(bar, {entries[i].id}) \in BarType
  BY Facts, EndedType
<1> QED
  BY <1>2, <1>3, <1>4, <1>5, QueueCounting

LEMMA NetFailureCounting ==
  ASSUME IInv, Counting(entries, bar), NEW i \in DOMAIN entries, NEW ps, NEW nerr,
         NetFailure(i, nerr, ps)
  PROVE  Counting(entries', bar')
<1>1. CASE MayRetry(entries[i], nerr)
  <2> DEFINE e == [Stopped(entries[i], "Queued", "None") EXCEPT !.retries = @ - 1]
  <2>1. e \in Entry /\ e.id = entries[i].id /\ e.status = "Queued"
    <3>1. /\ Stopped(entries[i], "Queued", "None") \in Entry
          /\ Stopped(entries[i], "Queued", "None").status = "Queued"
          /\ Stopped(entries[i], "Queued", "None").id = entries[i].id
          /\ Stopped(entries[i], "Queued", "None").retries = entries[i].retries
      BY Facts, StoppedType
    <3>2. entries[i].retries - 1 \in 0 .. MaxRetries
      BY SMTT(30), <1>1, Facts, LimitsAssumption DEF Entry, MayRetry
    <3> QED
      BY <3>1, <3>2 DEF Entry
  <2>2. entries' = [entries EXCEPT ![i] = e] /\ UNCHANGED bar
    BY <1>1, Facts DEF NetFailure, BackOff
  <2> HIDE DEF e
  <2>3. Counting([entries EXCEPT ![i] = e], bar)
    BY <2>1, OneRowCounting DEF Terminal
  <2> QED
    BY <2>2, <2>3
<1>2. CASE ~ MayRetry(entries[i], nerr)
  <2>1. PICK reason \in {"Timeout", "Network"} : Fail(i, reason)
    BY <1>2 DEF NetFailure
  <2>2. reason \in Reasons
    BY DEF Reasons
  <2> QED
    BY <2>1, <2>2, FailCounting DEF Fail
<1> QED
  BY <1>1, <1>2

LEMMA CompleteCounting ==
  ASSUME IInv, Counting(entries, bar), NEW i \in DOMAIN entries, NEW c,
         NEW received \in 0 .. Size, Complete(i, c, received)
  PROVE  Counting(entries', bar')
<1> DEFINE e == [Stopped(entries[i], "Completed", "None") EXCEPT
                   !.total = IF @ = 0 THEN received ELSE @]
<1>1. e \in Entry /\ e.id = entries[i].id
  <2>1. /\ Stopped(entries[i], "Completed", "None") \in Entry
        /\ Stopped(entries[i], "Completed", "None").id = entries[i].id
    BY Facts, StoppedType
  <2> QED
    BY <2>1 DEF Entry
<1>2. ProcessQueue([entries EXCEPT ![i] = e], WithoutPart(parts, entries[i].dest),
                   Ended(bar, {entries[i].id}))
  BY DEF Complete
<1> HIDE DEF e
<1>3. [entries EXCEPT ![i] = e] \in Seq(Entry)
  BY <1>1, Facts
<1>4. Counting([entries EXCEPT ![i] = e], Ended(bar, {entries[i].id}))
  BY <1>1, OneRowCounting
<1>5. Ended(bar, {entries[i].id}) \in BarType
  BY Facts, EndedType
<1> QED
  BY <1>2, <1>3, <1>4, <1>5, QueueCounting

LEMMA NextCounting ==
  ASSUME IInv, Counting(entries, bar), [Next]_vars
  PROVE  Counting(entries', bar')
<1>1. ASSUME NEW i \in DOMAIN entries, NetStep(i) PROVE Counting(entries', bar')
  <2>1. CASE TruncateFails(i) \/ \E nerr \in {"dropped", "timeout", "fatal"} : Broken(i, nerr)
    BY <2>1, NetFailureCounting DEF TruncateFails, Broken
  <2>2. CASE RangeRefused(i) \/ \E kind \in {"http", "auth"} : HttpError(i, kind)
    <3>1. PICK reason \in {"Http", "Auth"} : Fail(i, reason)
      BY <2>2 DEF RangeRefused, HttpError
    <3>2. reason \in Reasons
      BY DEF Reasons
    <3> QED
      BY <3>1, <3>2, FailCounting DEF Fail
  <2>3. CASE ChunkFails(i)
    <3>1. PICK ps : NetFailure(i, "canceled", ps)
      BY <2>3 DEF ChunkFails
    <3> QED
      BY <3>1, NetFailureCounting
  <2>4. CASE Finished(i)
    <3>1. CASE FinalizeFailed(i)
      <4>1. ProcessQueue(Torn(entries, i, "Failed", "DiskWrite"), Dropping(entries[i]),
                         Ended(bar, {entries[i].id}))
        BY <3>1 DEF FinalizeFailed
      <4>2. "DiskWrite" \in Reasons
        BY DEF Reasons
      <4> QED
        BY <4>1, <4>2, FailCounting
    <3>2. CASE ~ FinalizeFailed(i)
      <4>1. PICK written \in BOOLEAN :
              \E c \in OnDisk(entries[i], written) :
                 Complete(i, c, IF written THEN Size ELSE entries[i].next - 1)
        BY <2>4, <3>2 DEF Finished
      <4>2. PICK c : Complete(i, c, IF written THEN Size ELSE entries[i].next - 1)
        BY <4>1
      <4>3. (IF written THEN Size ELSE entries[i].next - 1) \in 0 .. Size
        BY SMTT(30), Facts, SizeAssumption DEF Entry
      <4> QED
        BY <4>2, <4>3, CompleteCounting
    <3> QED
      BY <3>1, <3>2
  <2>5. CASE \/ \E known \in BOOLEAN : PartialContent(i, known)
             \/ \E typed \in BOOLEAN : WholeBody(i, typed)
             \/ Chunk(i) \/ LearnTotal(i)
    <3>1. PICK e : /\ entries' = [entries EXCEPT ![i] = e]
                   /\ e.id = entries[i].id /\ e.status = entries[i].status
      BY <2>5, RowSignal
    <3>2. entries[i].status = "Downloading" /\ UNCHANGED bar
      BY <2>5 DEF PartialContent, WholeBody, Chunk, LearnTotal, Transferring
    <3>3. e \in Entry
      <4>1. entries' \in Seq(Entry) /\ entries'[i] = e /\ i \in DOMAIN entries'
        BY <1>1, <3>1, Facts, NetStepIInv DEF IInv, TypeOK
      <4> QED
        BY <4>1
    <3>4. Counting([entries EXCEPT ![i] = e], bar)
      BY <3>1, <3>2, <3>3, OneRowCounting DEF Terminal
    <3> QED
      BY <3>1, <3>2, <3>4
  <2> QED
    BY <1>1, <2>1, <2>2, <2>3, <2>4, <2>5 DEF NetStep
<1>2. ASSUME NEW v \in Videos, RetryKick(v) PROVE Counting(entries', bar')
  <2>1. ProcessQueue(entries, parts, bar) \/ UNCHANGED <<entries, bar>>
    BY <1>2 DEF RetryKick
  <2> QED
    BY <2>1, Facts, QueueCounting
<1>3. CASE HideTimeout
  BY <1>3, Facts DEF HideTimeout, Counting, BarType
<1>4. CASE \E p \in Paths : FileDeleted(p) \/ PartDeleted(p)
  BY <1>4 DEF FileDeleted, PartDeleted
<1>5. CASE Restart
  BY <1>5 DEF Restart, Counting
<1>6. CASE UNCHANGED vars
  BY <1>6 DEF vars
<1> QED
  BY <1>1, <1>2, <1>3, <1>4, <1>5, <1>6, UserCounting DEF Next, WorldStep

BarCounts == Counting(entries, bar)

LEMMA DownloadsCounting == Spec => [](IInv /\ Orderly /\ BarCounts)
<1>1. Init => BarCounts
  BY DEF Init, Counting, BarCounts
<1>2. IInv /\ BarCounts /\ [Next]_vars => BarCounts'
  BY NextCounting DEF BarCounts
<1> QED
  BY <1>1, <1>2, DownloadsOrderly, PTL DEF Spec
-------------------------------------------------------------------------------
(* The third inductive invariant: what is on disk.  It is about videos     *)
(* with titles of their own.  Two rows of one title can pick one name,     *)
(* whatever else holds (the run downloads_shared_title).                   *)
SoleTitles == \A u, v \in Videos : u # v => TitleOf[u] # TitleOf[v]

OwnName(e) == e.dest[1] = TitleOf[e.id]
Begins(c, v) == \E k \in 0 .. Size : c = SubSeq(Body(v), 1, k)

(* What is under a ".part" name is the beginning of the video of that name *)
(* and of no other ...                                                     *)
PartOf(p, c) == c # NoFile => \A v \in Videos : TitleOf[v] = p[1] => Begins(c, v)

(* ... and as long as the transfer that writes it believes.                *)
Attached(e, c) ==
    c # NoFile /\ e.file = "open" =>
        /\ e.reply = "asked" => Len(c) = e.from
        /\ e.reply = "body" => Len(c) = e.next - 1

(* Rows q fit parts ps and files fs: a name has a ".part" or a file, and   *)
(* the row that may still write a name finds no file under it.             *)
Disk(q, ps, fs) ==
    /\ \A i \in DOMAIN q : OwnName(q[i])
    /\ \A p \in Paths : PartOf(p, ps[p]) /\ (fs[p] # NoFile => ps[p] = NoFile)
    /\ \A i \in RowsIn(q, Active) :
          Attached(q[i], ps[q[i].dest]) /\ fs[q[i].dest] = NoFile
    /\ \A i, j \in RowsIn(q, Active) : q[i].id = q[j].id => i = j

DiskOK == Disk(entries, parts, files) /\ \A r \in paused : OwnName(r)

(* A saved file holds the whole of the video of that name.                 *)
FilesWhole ==
    \A p \in Paths, v \in Videos : TitleOf[v] = p[1] => files[p] \in {NoFile, Body(v)}

-------------------------------------------------------------------------------
(* Beginnings of a body.                                                   *)
LEMMA BodyType ==
  ASSUME NEW v \in Videos
  PROVE  Body(v) \in Seq(Cells) /\ Len(Body(v)) = Size /\ DOMAIN Body(v) = 1 .. Size
BY SizeAssumption DEF Body, Cells

LEMMA BeginsMeans ==
  ASSUME NEW v \in Videos, NEW c, Begins(c, v)
  PROVE  /\ c \in Seq(Cells) /\ Len(c) \in 0 .. Size
         /\ c = SubSeq(Body(v), 1, Len(c))
         /\ \A j \in 1 .. Len(c) : c[j] = <<v, j>>
<1>1. PICK k \in 0 .. Size : c = SubSeq(Body(v), 1, k)
  BY DEF Begins
<1>2. Body(v) \in Seq(Cells) /\ Len(Body(v)) = Size
  BY BodyType
<1>3. c \in Seq(Cells) /\ Len(c) = k
  BY <1>1, <1>2, SizeAssumption, SubSeqProperties, PrefixType
<1>4. \A j \in 1 .. k : c[j] = Body(v)[j]
  BY <1>1, <1>2, SizeAssumption
<1>5. \A j \in 1 .. k : Body(v)[j] = <<v, j>>
  BY SizeAssumption DEF Body
<1> QED
  BY <1>1, <1>3, <1>4, <1>5

LEMMA EmptyPart ==
  ASSUME NEW p
  PROVE  PartOf(p, <<>>) /\ PartOf(p, NoFile) /\ \A v \in Videos : Begins(<<>>, v)
<1>1. ASSUME NEW v \in Videos PROVE Begins(<<>>, v)
  <2>1. SubSeq(Body(v), 1, 0) = <<>>
    BY SubSeqEmpty
  <2> QED
    BY <2>1, SizeAssumption DEF Begins
<1> QED
  BY <1>1 DEF PartOf

(* A sequence of the right cells is a beginning.                           *)
LEMMA BeginsIf ==
  ASSUME NEW v \in Videos, NEW c, NEW k \in 0 .. Size,
         c \in Seq(Cells), Len(c) = k, \A j \in 1 .. k : c[j] = <<v, j>>
  PROVE  Begins(c, v) /\ (k = Size => c = Body(v))
<1> DEFINE s == SubSeq(Body(v), 1, k)
<1>1. Body(v) \in Seq(Cells) /\ Len(Body(v)) = Size
  BY BodyType
<1>2. s \in Seq(Cells) /\ Len(s) = k /\ \A j \in 1 .. k : s[j] = Body(v)[j]
  BY <1>1, SizeAssumption, PrefixType
<1>3. \A j \in 1 .. Size : Body(v)[j] = <<v, j>>
  BY DEF Body
<1>4. \A j \in 1 .. k : s[j] = <<v, j>>
  BY <1>2, <1>3, SizeAssumption
<1> HIDE DEF s
<1>5. c = s
  BY <1>2, <1>4, SeqEqual
<1>6. k = Size => c = Body(v)
  BY <1>1, <1>3
<1> QED
  BY <1>5, <1>6 DEF Begins, s

LEMMA BeginsCut ==
  ASSUME NEW v \in Videos, NEW c, Begins(c, v), NEW m \in 0 .. Len(c)
  PROVE  Begins(SubSeq(c, 1, m), v) /\ Len(SubSeq(c, 1, m)) = m
<1>1. c \in Seq(Cells) /\ Len(c) \in 0 .. Size /\ \A j \in 1 .. Len(c) : c[j] = <<v, j>>
  BY BeginsMeans
<1> DEFINE s == SubSeq(c, 1, m)
<1>2. s \in Seq(Cells) /\ Len(s) = m /\ \A j \in 1 .. m : s[j] = c[j]
  BY <1>1, PrefixType
<1>3. m \in 0 .. Size /\ \A j \in 1 .. m : s[j] = <<v, j>>
  BY <1>1, <1>2, SizeAssumption
<1> HIDE DEF s
<1>4. Begins(s, v)
  BY <1>2, <1>3, BeginsIf
<1> QED
  BY <1>2, <1>4 DEF s

(* A beginning continues with the cells that come next: one or all.        *)
LEMMA BeginsOn ==
  ASSUME NEW v \in Videos, NEW c, Begins(c, v), NEW n \in 1 .. Size + 1, Len(c) = n - 1,
         NEW d \in Seq(Cells), NEW m \in 0 .. Size, m >= n - 1, Len(d) = m - (n - 1),
         \A j \in 1 .. Len(d) : d[j] = <<v, n - 1 + j>>
  PROVE  Begins(c \o d, v) /\ Len(c \o d) = m /\ (m = Size => c \o d = Body(v))
<1>1. c \in Seq(Cells) /\ Len(c) \in 0 .. Size /\ \A j \in 1 .. Len(c) : c[j] = <<v, j>>
  BY BeginsMeans
<1> DEFINE s == c \o d
<1>2. /\ s \in Seq(Cells) /\ Len(s) = m
      /\ \A j \in 1 .. m : s[j] = IF j <= Len(c) THEN c[j] ELSE d[j - Len(c)]
  <2>1. Len(c) + Len(d) = m
    BY <1>1, SizeAssumption
  <2> QED
    BY <1>1, <2>1, ConcatProperties
<1>3. ASSUME NEW j \in 1 .. m PROVE s[j] = <<v, j>>
  <2>1. CASE j <= Len(c)
    BY <1>1, <1>2, <2>1
  <2>2. CASE j > Len(c)
    <3>1. s[j] = d[j - Len(c)]
      BY <1>1, <1>2, <2>2
    <3>2. j - Len(c) \in 1 .. Len(d) /\ n - 1 + (j - Len(c)) = j
      BY <1>1, <2>2
    <3> QED
      BY <3>1, <3>2
  <2> QED
    BY <1>1, <2>1, <2>2
<1> HIDE DEF s
<1>4. Begins(s, v) /\ (m = Size => s = Body(v))
  BY <1>2, <1>3, BeginsIf
<1> QED
  BY <1>2, <1>4 DEF s
-------------------------------------------------------------------------------
(* What the handlers do to the disk and to the rows, one by one.           *)

(* Rows that may still write one name are one row.                         *)
LEMMA OneWriter ==
  ASSUME SoleTitles, NEW q \in Seq(Entry), NEW ps, NEW fs, Disk(q, ps, fs),
         NEW i \in RowsIn(q, Active), NEW j \in RowsIn(q, Active),
         q[i].dest[1] = q[j].dest[1]
  PROVE  i = j
<1>1. /\ q[i] \in Entry /\ OwnName(q[i])
      /\ q[j] \in Entry /\ OwnName(q[j])
  BY DEF Disk, RowsIn
<1>2. q[i].id = q[j].id
  BY <1>1 DEF OwnName, SoleTitles, Entry
<1> QED
  BY <1>2 DEF Disk

(* processQueue() opens the ".part" of a row that may write its name.      *)
LEMMA QueueDisk ==
  ASSUME SoleTitles, NEW q \in Seq(Entry), NEW ps \in PartsType, NEW b, NEW fs,
         Disk(q, ps, fs), ProcessQueue(q, ps, b)
  PROVE  Disk(entries', parts', fs)
<1>1. PICK out \in Outcomes(q) :
        entries' = KickedRows(q, out, ps) /\ parts' = KickedParts(q, out, ps)
  BY DEF ProcessQueue
<1>2. out \in [Queued(q) -> {"go", "space", "open", "wait"}]
  BY DEF Outcomes
<1> DEFINE tried(p, how) == {i \in Queued(q) : q[i].dest = p /\ out[i] = how}
<1>3. /\ \A i \in DOMAIN q : q[i] \in Entry /\ q[i].dest \in Paths /\ q[i].id \in Videos
      /\ \A i \in Queued(q) : i \in DOMAIN q /\ i \in RowsIn(q, Active)
  <2>1. \A i \in DOMAIN q : q[i] \in Entry
    OBVIOUS
  <2>2. \A i \in DOMAIN q : q[i].dest \in Paths /\ q[i].id \in Videos
    BY <2>1 DEF Entry
  <2>3. \A i \in Queued(q) : i \in DOMAIN q /\ i \in RowsIn(q, Active)
    BY DEF Queued, RowsIn, Active, InFlight
  <2> QED
    BY <2>1, <2>2, <2>3
<1>4. \A p \in Paths :
         parts'[p] = IF tried(p, "go") # {}
                       THEN Opened(ps[p], q[CHOOSE i \in tried(p, "go") : TRUE].total)
                     ELSE IF tried(p, "open") # {}
                       THEN OpenFailed(ps[p], q[CHOOSE i \in tried(p, "open") : TRUE].total)
                     ELSE ps[p]
  BY <1>1 DEF KickedParts
<1>5. \A i, j \in RowsIn(q, Active) : q[i].dest = q[j].dest => i = j
  BY OneWriter
<1>6. ASSUME NEW p \in Paths
      PROVE  /\ parts'[p] \in {ps[p], <<>>, NoFile}
             /\ parts'[p] # ps[p] => \E i \in Queued(q) : q[i].dest = p
  BY <1>4 DEF Opened, OpenFailed
<1>7. \A p \in Paths : PartOf(p, parts'[p]) /\ (fs[p] # NoFile => parts'[p] = NoFile)
  <2> SUFFICES ASSUME NEW p \in Paths
               PROVE  PartOf(p, parts'[p]) /\ (fs[p] # NoFile => parts'[p] = NoFile)
    OBVIOUS
  <2>1. PartOf(p, ps[p]) /\ (fs[p] # NoFile => ps[p] = NoFile)
    BY DEF Disk
  <2>2. PartOf(p, parts'[p])
    BY <1>6, <2>1, EmptyPart
  <2>3. ASSUME fs[p] # NoFile PROVE parts'[p] = NoFile
    <3>1. \A i \in Queued(q) : q[i].dest # p
      BY <1>3, <2>3 DEF Disk
    <3> QED
      BY <1>6, <2>1, <2>3, <3>1
  <2> QED
    BY <2>2, <2>3
<1>8. ASSUME NEW i \in DOMAIN q
      PROVE  /\ entries'[i].id = q[i].id /\ entries'[i].dest = q[i].dest
             /\ entries'[i].status \in Active =>
                  /\ q[i].status \in Active
                  /\ Attached(entries'[i], parts'[q[i].dest])
  <2> DEFINE p == q[i].dest
  <2>1. CASE i \notin Queued(q)
    <3>1. entries'[i] = q[i]
      BY <1>1, <2>1 DEF KickedRows
    <3>2. ASSUME q[i].status \in Active PROVE Attached(q[i], parts'[p])
      <4>1. i \in RowsIn(q, Active)
        BY <3>2 DEF RowsIn
      <4>2. parts'[p] = ps[p]
        BY <1>3, <1>5, <1>6, <2>1, <4>1
      <4> QED
        BY <4>1, <4>2 DEF Disk
    <3> QED
      BY <3>1, <3>2
  <2>2. CASE i \in Queued(q)
    <3>1. /\ entries'[i] = KickedRow(q[i], out[i], ps)
          /\ out[i] \in {"go", "space", "open", "wait"}
      BY <1>1, <1>2, <2>2 DEF KickedRows
    <3>2. q[i].status \in Active
      BY <2>2 DEF Queued, RowsIn, Active, InFlight
    <3>3. \A how : tried(p, how) \subseteq {i}
      BY <1>3, <1>5, <2>2
    <3>4. CASE out[i] = "go"
      <4>1. tried(p, "go") = {i}
        BY <2>2, <3>3, <3>4
      <4>2. (CHOOSE j \in tried(p, "go") : TRUE) = i
        BY <4>1
      <4>3. parts'[p] = Opened(ps[p], q[i].total)
        BY <1>3, <1>4, <4>1, <4>2
      <4> HIDE DEF tried
      <4>4. /\ entries'[i].id = q[i].id /\ entries'[i].dest = q[i].dest
            /\ entries'[i].reply = "asked"
            /\ entries'[i].from = Len(Opened(ps[p], q[i].total))
        BY <1>3, <3>1, <3>4 DEF KickedRow, Entry
      <4> QED
        BY <3>2, <4>3, <4>4 DEF Attached
    <3>5. CASE out[i] \in {"space", "open"}
      <4>1. /\ entries'[i].id = q[i].id /\ entries'[i].dest = q[i].dest
            /\ entries'[i].status = "Failed"
        BY <1>3, <3>1, <3>5 DEF KickedRow, Stopped, Entry
      <4> QED
        BY <4>1 DEF Active, InFlight
    <3>6. CASE out[i] = "wait"
      <4>1. entries'[i] = q[i]
        BY <3>1, <3>6 DEF KickedRow
      <4>2. tried(p, "go") = {} /\ tried(p, "open") = {}
        BY <3>3, <3>6
      <4>3. parts'[p] = ps[p]
        BY <1>3, <1>4, <4>2
      <4>4. Attached(q[i], ps[p])
        BY <1>3, <2>2 DEF Disk
      <4> QED
        BY <3>2, <4>1, <4>3, <4>4
    <3> QED
      BY <3>1, <3>4, <3>5, <3>6
  <2> QED
    BY <2>1, <2>2
<1>9. DOMAIN entries' = DOMAIN q
  BY <1>1 DEF KickedRows
<1>10. \A i \in DOMAIN entries' : OwnName(entries'[i])
  BY <1>8, <1>9 DEF Disk, OwnName
<1>11. \A i \in RowsIn(entries', Active) : i \in RowsIn(q, Active)
  BY <1>8, <1>9 DEF RowsIn
<1>12. ASSUME NEW i \in RowsIn(entries', Active)
       PROVE  Attached(entries'[i], parts'[entries'[i].dest]) /\ fs[entries'[i].dest] = NoFile
  <2>1. i \in DOMAIN q /\ entries'[i].status \in Active
    BY <1>9 DEF RowsIn
  <2>2. fs[q[i].dest] = NoFile
    BY <1>11 DEF Disk
  <2> QED
    BY <1>8, <2>1, <2>2
<1>13. \A i, j \in RowsIn(entries', Active) : entries'[i].id = entries'[j].id => i = j
  <2>1. \A i \in RowsIn(entries', Active) : i \in DOMAIN q
    BY <1>9 DEF RowsIn
  <2> QED
    BY <1>8, <1>11, <2>1 DEF Disk
<1> QED
  BY <1>7, <1>10, <1>12, <1>13 DEF Disk

(* A handler changes the row that may write a name, and what is on disk    *)
(* under names of its video.                                               *)
LEMMA OneRowDisk ==
  ASSUME SoleTitles, NEW q \in Seq(Entry), NEW ps, NEW fs, Disk(q, ps, fs),
         NEW i \in RowsIn(q, Active), NEW e \in Entry, e.id = q[i].id, OwnName(e),
         NEW r, DOMAIN r = DOMAIN q, r[i] = e, \A j \in DOMAIN q : j # i => r[j] = q[j],
         NEW ps2,
         \A p \in Paths : p # e.dest => ps2[p] = ps[p] \/ ps2[p] = NoFile,
         \A p \in Paths : p[1] # TitleOf[e.id] => ps2[p] = ps[p],
         PartOf(e.dest, ps2[e.dest]), fs[e.dest] = NoFile, Attached(e, ps2[e.dest])
  PROVE  Disk(r, ps2, fs)
<1>1. \A j \in DOMAIN r : OwnName(r[j])
  BY DEF Disk
<1>2. ASSUME NEW p \in Paths
      PROVE  PartOf(p, ps2[p]) /\ (fs[p] # NoFile => ps2[p] = NoFile)
  <2>1. PartOf(p, ps[p]) /\ (fs[p] # NoFile => ps[p] = NoFile)
    BY DEF Disk
  <2>2. CASE p = e.dest
    BY <2>2
  <2>3. CASE p # e.dest
    BY <2>1, <2>3, EmptyPart
  <2> QED
    BY <2>2, <2>3
<1>3. \A j \in RowsIn(r, Active) : j # i => j \in RowsIn(q, Active) /\ r[j] = q[j]
  BY DEF RowsIn
<1>4. i \in DOMAIN q
  BY DEF RowsIn
<1>5. ASSUME NEW j \in RowsIn(r, Active)
      PROVE  Attached(r[j], ps2[r[j].dest]) /\ fs[r[j].dest] = NoFile
  <2>1. CASE j = i
    BY <1>4, <2>1
  <2>2. CASE j # i
    <3>1. j \in RowsIn(q, Active) /\ r[j] = q[j] /\ q[j] \in Entry /\ q[i] \in Entry
      BY <1>3, <1>4, <2>2 DEF RowsIn
    <3>2. OwnName(q[j]) /\ q[j].id # e.id
      BY <2>2, <3>1 DEF Disk, RowsIn
    <3>3. q[j].dest \in Paths /\ q[j].dest[1] # TitleOf[e.id]
      BY <3>1, <3>2 DEF OwnName, SoleTitles, Entry
    <3>4. ps2[q[j].dest] = ps[q[j].dest]
      BY <3>3
    <3> QED
      BY <3>1, <3>4 DEF Disk
  <2> QED
    BY <2>1, <2>2
<1>6. \A j, k \in RowsIn(r, Active) : r[j].id = r[k].id => j = k
  BY <1>3 DEF Disk
<1> QED
  BY <1>1, <1>2, <1>5, <1>6 DEF Disk

(* A file disappears, or appears under a name that no ".part" and no row   *)
(* that may write it has.                                                  *)
LEMMA FilesDisk ==
  ASSUME NEW q, NEW ps, NEW fs, Disk(q, ps, fs), NEW fs2,
         \A i \in DOMAIN q : q[i].dest \in Paths,
         \A p \in Paths :
            \/ fs2[p] \in {fs[p], NoFile}
            \/ ps[p] = NoFile /\ \A i \in RowsIn(q, Active) : q[i].dest # p
  PROVE  Disk(q, ps, fs2)
<1>1. \A p \in Paths : fs2[p] # NoFile => ps[p] = NoFile
  BY DEF Disk
<1>2. \A i \in RowsIn(q, Active) : fs2[q[i].dest] = NoFile
  BY DEF Disk, RowsIn
<1> QED
  BY <1>1, <1>2 DEF Disk

(* A ".part" disappears.                                                   *)
LEMMA PartsDisk ==
  ASSUME NEW q, NEW ps, NEW fs, Disk(q, ps, fs), NEW ps2,
         \A i \in DOMAIN q : q[i].dest \in Paths,
         \A p \in Paths : ps2[p] = ps[p] \/ ps2[p] = NoFile
  PROVE  Disk(q, ps2, fs)
<1>1. \A p \in Paths : PartOf(p, ps2[p]) /\ (fs[p] # NoFile => ps2[p] = NoFile)
  BY EmptyPart DEF Disk
<1>2. \A i \in RowsIn(q, Active) : Attached(q[i], ps2[q[i].dest])
  BY DEF Disk, RowsIn, Attached
<1> QED
  BY <1>1, <1>2 DEF Disk

LEMMA KeepingDisk ==
  ASSUME NEW q \in Seq(Entry), NEW ps, NEW fs, Disk(q, ps, fs),
         NEW S \in SUBSET DOMAIN q, NEW r \in Keeping(q, S)
  PROVE  Disk(r, ps, fs)
<1>1. PICK f \in Bijection(DOMAIN r, S) : \A a \in DOMAIN r : r[a] = q[f[a]]
  BY KeepingRows
<1>2. /\ \A a \in DOMAIN r : f[a] \in DOMAIN q
      /\ \A a, b \in DOMAIN r : f[a] = f[b] => a = b
  BY <1>1 DEF Bijection, Injection, IsInjective
<1>3. \A a \in RowsIn(r, Active) : a \in DOMAIN r /\ f[a] \in RowsIn(q, Active)
  BY <1>1, <1>2 DEF RowsIn
<1>4. \A a \in DOMAIN r : OwnName(r[a])
  BY <1>1, <1>2 DEF Disk
<1>5. \A a \in RowsIn(r, Active) : Attached(r[a], ps[r[a].dest]) /\ fs[r[a].dest] = NoFile
  BY <1>1, <1>3 DEF Disk
<1>6. \A a, b \in RowsIn(r, Active) : r[a].id = r[b].id => a = b
  BY <1>1, <1>2, <1>3 DEF Disk
<1> QED
  BY <1>4, <1>5, <1>6 DEF Disk

(* pauseAll() and resumeAll().                                             *)
LEMMA AllTornDisk ==
  ASSUME NEW q \in Seq(Entry), NEW ps, NEW fs, Disk(q, ps, fs),
         NEW S, S \subseteq Active, NEW s \in {"Queued", "Paused"}
  PROVE  Disk(AllTorn(q, S, s), ps, fs)
<1> DEFINE r == AllTorn(q, S, s)
<1>1. ASSUME NEW i \in DOMAIN q
      PROVE  /\ r[i].id = q[i].id /\ r[i].dest = q[i].dest
             /\ r[i] = q[i] \/ (r[i].file = "none" /\ q[i].status \in Active)
  <2>1. q[i] \in Entry
    OBVIOUS
  <2> QED
    BY <2>1 DEF AllTorn, Stopped, Entry
<1>2. DOMAIN r = DOMAIN q
  BY DEF AllTorn
<1> HIDE DEF r
<1>3. \A i \in RowsIn(r, Active) : i \in DOMAIN q /\ i \in RowsIn(q, Active)
  BY <1>1, <1>2 DEF RowsIn
<1>4. \A i \in DOMAIN r : OwnName(r[i])
  BY <1>1, <1>2 DEF Disk, OwnName
<1>5. \A i \in RowsIn(r, Active) : Attached(r[i], ps[r[i].dest]) /\ fs[r[i].dest] = NoFile
  <2> SUFFICES ASSUME NEW i \in RowsIn(r, Active)
               PROVE  Attached(r[i], ps[r[i].dest]) /\ fs[r[i].dest] = NoFile
    OBVIOUS
  <2>1. Attached(q[i], ps[q[i].dest]) /\ fs[q[i].dest] = NoFile
    BY <1>3 DEF Disk
  <2>2. r[i] = q[i] \/ r[i].file = "none"
    BY <1>1, <1>3
  <2>3. r[i].dest = q[i].dest
    BY <1>1, <1>3
  <2> QED
    BY <2>1, <2>2, <2>3 DEF Attached
<1>6. \A i, j \in RowsIn(r, Active) : r[i].id = r[j].id => i = j
  BY <1>1, <1>3 DEF Disk
<1>7. Disk(r, ps, fs)
  BY <1>4, <1>5, <1>6 DEF Disk
<1> QED
  BY <1>7 DEF r

(* What is saved of rows that bear the names of their videos.              *)
LEMMA RecordsOwn ==
  ASSUME NEW q \in Seq(Entry), \A i \in DOMAIN q : OwnName(q[i]), NEW s
  PROVE  \A r \in RecordsOf(q, s) : OwnName(r)
BY DEF RecordsOf, Record, RowsIn, OwnName
-------------------------------------------------------------------------------
(* Rows that get a new status, then processQueue().                        *)
LEMMA DiskFacts ==
  ASSUME IInv, DiskOK
  PROVE  /\ entries \in Seq(Entry) /\ parts \in PartsType /\ Disk(entries, parts, files)
         /\ \A i \in DOMAIN entries : /\ entries[i] \in Entry /\ OwnName(entries[i])
                                      /\ entries[i].dest \in Paths
                                      /\ entries[i].id \in Videos
<1>1. \A i \in DOMAIN entries : entries[i].dest \in Paths /\ entries[i].id \in Videos
  BY Facts DEF Entry
<1> QED
  BY <1>1, Facts DEF DiskOK, Disk

LEMMA StoppedKeeps ==
  ASSUME NEW e \in Entry, NEW s, NEW reason
  PROVE  /\ Stopped(e, s, reason).id = e.id /\ Stopped(e, s, reason).dest = e.dest
         /\ Stopped(e, s, reason).file = "none"
BY DEF Stopped, Entry

LEMMA StopDisk ==
  ASSUME SoleTitles, IInv, DiskOK, NEW i \in DOMAIN entries, entries[i].status \in Active,
         NEW e \in Entry, e.id = entries[i].id, e.dest = entries[i].dest, e.file = "none",
         NEW ps \in PartsType, \A p \in Paths : p # e.dest => ps[p] = parts[p],
         PartOf(e.dest, ps[e.dest])
  PROVE  /\ [entries EXCEPT ![i] = e] \in Seq(Entry)
         /\ Disk([entries EXCEPT ![i] = e], ps, files)
<1> DEFINE r == [entries EXCEPT ![i] = e]
<1>1. /\ entries \in Seq(Entry) /\ Disk(entries, parts, files)
      /\ entries[i] \in Entry /\ OwnName(entries[i]) /\ entries[i].dest \in Paths
  BY DiskFacts
<1>2. /\ r \in Seq(Entry) /\ DOMAIN r = DOMAIN entries /\ r[i] = e
      /\ \A j \in DOMAIN entries : j # i => r[j] = entries[j]
  BY <1>1
<1>3. i \in RowsIn(entries, Active)
  BY DEF RowsIn
<1>4. OwnName(e) /\ files[e.dest] = NoFile /\ Attached(e, ps[e.dest])
  BY <1>1, <1>3 DEF OwnName, Disk, Attached
<1>5. \A p \in Paths : p[1] # TitleOf[e.id] => ps[p] = parts[p]
  BY <1>4 DEF OwnName
<1> HIDE DEF r
<1>6. Disk(r, ps, files)
  BY <1>1, <1>2, <1>3, <1>4, <1>5, OneRowDisk
<1> QED
  BY <1>2, <1>6 DEF r

LEMMA TornDisk ==
  ASSUME SoleTitles, IInv, DiskOK, NEW i \in DOMAIN entries, entries[i].status \in Active,
         NEW s \in Statuses \ {"Downloading"}, NEW reason \in Reasons,
         NEW ps, ps = parts \/ ps = WithoutPart(parts, entries[i].dest)
  PROVE  /\ ps \in PartsType
         /\ Torn(entries, i, s, reason) \in Seq(Entry)
         /\ Disk(Torn(entries, i, s, reason), ps, files)
<1> DEFINE e == Stopped(entries[i], s, reason)
<1>1. entries[i] \in Entry /\ entries[i].dest \in Paths /\ Disk(entries, parts, files)
  BY DiskFacts
<1>2. e \in Entry /\ e.id = entries[i].id /\ e.dest = entries[i].dest /\ e.file = "none"
  BY <1>1, StoppedType, StoppedKeeps
<1>3. ps \in PartsType /\ \A p \in Paths : p # e.dest => ps[p] = parts[p]
  BY <1>2, Facts DEF WithoutPart, PartsType
<1>4. PartOf(e.dest, ps[e.dest])
  <2>1. PartOf(e.dest, parts[e.dest])
    BY <1>1, <1>2 DEF Disk
  <2>2. ps[e.dest] = parts[e.dest] \/ ps[e.dest] = NoFile
    BY <1>1, <1>2, Facts DEF WithoutPart, PartsType
  <2> QED
    BY <2>1, <2>2, EmptyPart
<1>5. Torn(entries, i, s, reason) = [entries EXCEPT ![i] = e]
  BY DEF Torn
<1> HIDE DEF e
<1> QED
  BY <1>2, <1>3, <1>4, <1>5, StopDisk

LEMMA TornQueueDisk ==
  ASSUME SoleTitles, IInv, DiskOK, NEW i \in DOMAIN entries, entries[i].status \in Active,
         NEW s \in Statuses \ {"Downloading"}, NEW reason \in Reasons,
         NEW ps, ps = parts \/ ps = WithoutPart(parts, entries[i].dest),
         NEW b, ProcessQueue(Torn(entries, i, s, reason), ps, b), UNCHANGED files
  PROVE  Disk(entries', parts', files')
BY TornDisk, QueueDisk

(* A name computeDestPath() finds is free.                                 *)
LEMMA FreshName ==
  ASSUME NEW t \in Titles, NEW x \in Exts, NEW fs, NEW ps, FreeNumbers(fs, ps, t, x) # {}
  PROVE  /\ DestPath(fs, ps, t, x) \in Paths
         /\ DestPath(fs, ps, t, x)[1] = t
         /\ fs[DestPath(fs, ps, t, x)] = NoFile
         /\ ps[DestPath(fs, ps, t, x)] = NoFile
<1> DEFINE free == FreeNumbers(fs, ps, t, x)
           k == CHOOSE n \in free : \A m \in free : n <= m
<1>1. free \in SUBSET Nat /\ free # {}
  <2>1. free # {}
    OBVIOUS
  <2>2. free \subseteq 0 .. MaxCollisionAttempts /\ free \in SUBSET Nat
    BY CollisionAssumption DEF FreeNumbers
  <2> QED
    BY <2>1, <2>2
<1>2. k \in free
  <2> HIDE DEF free
  <2>1. \E n \in free : \A m \in free : n <= m
    BY <1>1, LeastNumber
  <2> QED
    BY <2>1
<1>3. DestPath(fs, ps, t, x) = <<t, x, k>>
  BY DEF DestPath
<1>4. fs[<<t, x, k>>] = NoFile /\ ps[<<t, x, k>>] = NoFile
  BY <1>2 DEF FreeNumbers
<1>5. DestPath(fs, ps, t, x) \in Paths
  BY DestPathType
<1> HIDE DEF k
<1> QED
  BY <1>3, <1>4, <1>5

LEMMA EnqueueDisk ==
  ASSUME SoleTitles, IInv, Orderly, DiskOK,
         NEW v \in Videos, NEW x \in Exts, NEW hint \in 0 .. Size,
         \A i \in DOMAIN entries :
            IsFirst(entries, v, i) => entries[i].status \in {"Failed", "Canceled"},
         Enqueue(v, x, hint)
  PROVE  DiskOK'
<1> DEFINE S == {i \in DOMAIN entries : ~ IsFirst(entries, v, i)}
           row == NewRow(v, x, hint)
<1>1. PICK q \in Keeping(entries, S) : ProcessQueue(Append(q, row), parts, Focus(v))
  BY DEF Enqueue
<1>2. /\ row \in Entry /\ row.status = "Queued" /\ row.id = v /\ row.file = "none"
      /\ OwnName(row) /\ files[row.dest] = NoFile
  <2>0. FreeNumbers(files, parts, TitleOf[v], x) # {} /\ TitleOf[v] \in Titles
    BY TitleAssumption DEF Enqueue
  <2> DEFINE p == DestPath(files, parts, TitleOf[v], x)
  <2>1. p \in Paths /\ p[1] = TitleOf[v] /\ files[p] = NoFile
    BY <2>0, FreshName
  <2>2. 1 \in 1 .. Size + 1 /\ MaxRetries \in 0 .. MaxRetries
    BY SizeAssumption, LimitsAssumption
  <2> QED
    BY <2>1, <2>2 DEF NewRow, OwnName, Entry, Statuses, Reasons
<1>3. /\ entries \in Seq(Entry) /\ Doubles(entries) /\ Disk(entries, parts, files)
      /\ S \in SUBSET DOMAIN entries
  BY DiskFacts DEF Orderly
<1>4. ASSUME NEW j \in S PROVE entries[j].id # v
  <2> SUFFICES ASSUME entries[j].id = v PROVE FALSE
    OBVIOUS
  <2>1. PICK i \in DOMAIN entries : IsFirst(entries, v, i) /\ i <= j
    BY <1>3, FirstExists
  <2>2. i < j
    BY <1>3, <2>1
  <2> QED
    BY <1>3, <2>1, <2>2 DEF Doubles, IsFirst
<1>5. /\ q \in Seq(Entry) /\ Disk(q, parts, files)
      /\ \A a \in DOMAIN q : q[a].id # v
  <2>1. /\ q \in Seq(Entry)
        /\ \E f \in Bijection(DOMAIN q, S) : \A a \in DOMAIN q : q[a] = entries[f[a]]
    BY <1>1, <1>3, KeepingRows
  <2>2. PICK f \in [DOMAIN q -> S] : \A a \in DOMAIN q : q[a] = entries[f[a]]
    BY <2>1 DEF Bijection, Injection
  <2> HIDE DEF S
  <2>3. Disk(q, parts, files)
    BY <1>1, <1>3, KeepingDisk
  <2> QED
    BY <1>4, <2>1, <2>2, <2>3
<1> HIDE DEF S, row
<1> DEFINE r == Append(q, row)
<1>6. /\ r \in Seq(Entry) /\ Len(q) \in Nat /\ DOMAIN q = 1 .. Len(q)
      /\ \A a \in DOMAIN q : r[a] = q[a]
      /\ r[Len(q) + 1] = row
      /\ \A a \in DOMAIN r : a \in DOMAIN q \/ a = Len(q) + 1
  BY <1>2, <1>5
<1>7. ProcessQueue(r, parts, Focus(v))
  BY <1>1
<1> HIDE DEF r
<1>8. Disk(r, parts, files)
  <2>1. \A a \in RowsIn(r, Active) : a \in RowsIn(q, Active) \/ a = Len(q) + 1
    BY <1>6 DEF RowsIn
  <2>2. \A a \in RowsIn(q, Active) : a \in DOMAIN q /\ r[a] = q[a]
    BY <1>6 DEF RowsIn
  <2>3. \A a \in DOMAIN r : OwnName(r[a])
    BY <1>2, <1>5, <1>6 DEF Disk
  <2>4. \A a \in RowsIn(r, Active) :
           Attached(r[a], parts[r[a].dest]) /\ files[r[a].dest] = NoFile
    BY <1>2, <1>5, <1>6, <2>1, <2>2 DEF Disk, Attached
  <2>5. \A a, b \in RowsIn(r, Active) : r[a].id = r[b].id => a = b
    BY <1>2, <1>5, <1>6, <2>1, <2>2 DEF Disk
  <2> QED
    BY <1>5, <2>3, <2>4, <2>5 DEF Disk
<1>9. parts \in PartsType /\ UNCHANGED <<files, paused>>
  BY DiskFacts DEF Enqueue
<1> QED
  BY <1>6, <1>7, <1>8, <1>9, QueueDisk DEF DiskOK

LEMMA CancelDisk ==
  ASSUME SoleTitles, IInv, DiskOK, NEW v \in Videos, Cancel(v) \/ Pause(v) \/ Resume(v)
  PROVE  DiskOK'
<1>1. {"Canceled", "Paused", "Queued"} \subseteq Statuses \ {"Downloading"}
      /\ "None" \in Reasons
  BY DEF Statuses, Reasons
<1>2. PICK i \in DOMAIN entries, s \in {"Canceled", "Paused", "Queued"} :
         /\ entries[i].status \in Active
         /\ \E ps, b : /\ ps = parts \/ ps = WithoutPart(parts, entries[i].dest)
                       /\ ProcessQueue(Torn(entries, i, s, "None"), ps, b)
         /\ paused' = paused \/ paused' = SavedPaused(Torn(entries, i, s, "None"))
  <2>1. CASE Cancel(v)
    <3>1. PICK i \in DOMAIN entries :
            /\ entries[i].status \in Active
            /\ ProcessQueue(Torn(entries, i, "Canceled", "None"),
                            WithoutPart(parts, entries[i].dest), Ended(bar, {v}))
            /\ UNCHANGED paused
      BY <2>1 DEF Cancel
    <3> QED
      BY <3>1
  <2>2. CASE Pause(v)
    <3>1. PICK i \in DOMAIN entries :
            /\ entries[i].status \in InFlight
            /\ paused' = SavedPaused(Torn(entries, i, "Paused", "None"))
            /\ ProcessQueue(Torn(entries, i, "Paused", "None"), parts, bar)
      BY <2>2 DEF Pause
    <3> QED
      BY <3>1 DEF Active
  <2>3. CASE Resume(v)
    <3>1. PICK i \in DOMAIN entries :
            /\ entries[i].status = "Paused"
            /\ paused' = SavedPaused(Torn(entries, i, "Queued", "None"))
            /\ ProcessQueue(Torn(entries, i, "Queued", "None"), parts, Focus(v))
      BY <2>3 DEF Resume
    <3> QED
      BY <3>1 DEF Active
  <2> QED
    BY <2>1, <2>2, <2>3
<1>3. PICK ps, b : /\ ps = parts \/ ps = WithoutPart(parts, entries[i].dest)
                   /\ ProcessQueue(Torn(entries, i, s, "None"), ps, b)
  BY <1>2
<1>4. UNCHANGED files
  BY DEF Cancel, Pause, Resume
<1>5. Disk(entries', parts', files')
  BY <1>1, <1>2, <1>3, <1>4, TornQueueDisk
<1>6. \A r \in paused' : OwnName(r)
  <2>1. /\ Torn(entries, i, s, "None") \in Seq(Entry)
        /\ Disk(Torn(entries, i, s, "None"), parts, files)
    BY <1>1, <1>2, TornDisk
  <2>2. \A r \in SavedPaused(Torn(entries, i, s, "None")) : OwnName(r)
    BY <2>1, RecordsOwn DEF Disk, SavedPaused
  <2> QED
    BY <1>2, <2>2 DEF DiskOK
<1> QED
  BY <1>5, <1>6 DEF DiskOK

LEMMA AllDisk ==
  ASSUME SoleTitles, IInv, DiskOK, PauseAll \/ ResumeAll
  PROVE  DiskOK'
<1>1. PICK S \in {InFlight, {"Paused"}}, s \in {"Queued", "Paused"} :
        LET q == AllTorn(entries, S, s) IN
        /\ paused' = SavedPaused(q)
        /\ (entries' = q /\ UNCHANGED parts) \/ ProcessQueue(q, parts, bar)
        /\ UNCHANGED files
  BY DEF PauseAll, ResumeAll
<1> DEFINE q == AllTorn(entries, S, s)
<1>2. S \subseteq Active
  BY DEF Active
<1>3. q \in Seq(Entry) /\ Disk(q, parts, files)
  BY <1>2, DiskFacts, AllTornRows, AllTornDisk
<1>4. /\ paused' = SavedPaused(q)
      /\ (entries' = q /\ UNCHANGED parts) \/ ProcessQueue(q, parts, bar)
      /\ UNCHANGED files
  BY <1>1
<1> HIDE DEF q
<1>5. Disk(entries', parts', files')
  BY <1>3, <1>4, DiskFacts, QueueDisk
<1>6. \A r \in paused' : OwnName(r)
  BY <1>3, <1>4, RecordsOwn DEF Disk, SavedPaused
<1> QED
  BY <1>5, <1>6 DEF DiskOK

LEMMA RemoveDisk ==
  ASSUME SoleTitles, IInv, DiskOK, NEW v \in Videos, RemoveActive(v)
  PROVE  DiskOK'
<1>1. PICK i \in DOMAIN entries :
        /\ entries[i].status \in Active
        /\ \E q \in Keeping(Torn(entries, i, "Canceled", "None"), DOMAIN entries \ {i}) :
              ProcessQueue(q, WithoutPart(parts, entries[i].dest), Dropped(bar, {v}))
  BY DEF RemoveActive
<1> DEFINE t == Torn(entries, i, "Canceled", "None")
           ps == WithoutPart(parts, entries[i].dest)
           S == DOMAIN entries \ {i}
<1>2. "Canceled" \in Statuses \ {"Downloading"} /\ "None" \in Reasons
  BY DEF Statuses, Reasons
<1>3. ps \in PartsType /\ t \in Seq(Entry) /\ Disk(t, ps, files)
  BY <1>1, <1>2, TornDisk
<1>4. S \in SUBSET DOMAIN t
  BY DEF Torn
<1>5. PICK q \in Keeping(t, S) : ProcessQueue(q, ps, Dropped(bar, {v}))
  BY <1>1
<1> HIDE DEF t, ps, S
<1>6. q \in Seq(Entry) /\ Disk(q, ps, files)
  BY <1>3, <1>4, KeepingRows, KeepingDisk
<1>7. Disk(entries', parts', files)
  BY <1>3, <1>5, <1>6, QueueDisk
<1>8. UNCHANGED <<files, paused>>
  BY DEF RemoveActive
<1> QED
  BY <1>7, <1>8 DEF DiskOK

LEMMA ErasedDisk ==
  ASSUME IInv, DiskOK, UNCHANGED <<parts, files, paused>>,
         NEW S \in SUBSET DOMAIN entries, entries' \in Keeping(entries, S)
  PROVE  DiskOK'
BY DiskFacts, KeepingDisk DEF DiskOK

LEMMA UserDisk ==
  ASSUME SoleTitles, IInv, Orderly, DiskOK, UserStep
  PROVE  DiskOK'
<1>1. ASSUME NEW v \in Videos, NEW hint \in SizeHints, Start(v, hint) PROVE DiskOK'
  <2>1. hint \in 0 .. Size /\ "guess" \in Exts /\ "true" \in Exts
    BY SizeAssumption DEF Exts
  <2> QED
    BY <1>1, <2>1, EnqueueDisk DEF Start
<1>2. ASSUME NEW v \in Videos, Retry(v) PROVE DiskOK'
  <2>1. PICK i \in DOMAIN entries :
          /\ IsFirst(entries, v, i) /\ entries[i].status \in {"Failed", "Canceled"}
          /\ Enqueue(v, entries[i].dest[2], entries[i].total)
    BY <1>2 DEF Retry
  <2>2. entries[i].dest[2] \in Exts /\ entries[i].total \in 0 .. Size
    BY Facts DEF Entry, Paths
  <2>3. ASSUME NEW j \in DOMAIN entries, IsFirst(entries, v, j) PROVE j = i
    <3>1. i \in Nat \ {0} /\ j \in Nat \ {0}
      BY Facts
    <3>2. ~ (i < j) /\ ~ (j < i)
      BY <2>1, <2>3, <3>1 DEF IsFirst
    <3> QED
      BY <3>1, <3>2
  <2> QED
    BY <2>1, <2>2, <2>3, EnqueueDisk
<1>3. ASSUME NEW v \in Videos, RemoveEnded(v) PROVE DiskOK'
  <2>1. PICK i : entries' \in Keeping(entries, DOMAIN entries \ {i})
    BY <1>3 DEF RemoveEnded
  <2> QED
    BY <1>3, <2>1, ErasedDisk DEF RemoveEnded
<1>4. CASE ClearCompleted \/ PurgeStaleCompleted
  <2>1. PICK S : S \in SUBSET DOMAIN entries /\ entries' \in Keeping(entries, S)
    BY <1>4 DEF ClearCompleted, PurgeStaleCompleted, RowsIn
  <2> QED
    BY <1>4, <2>1, ErasedDisk DEF ClearCompleted, PurgeStaleCompleted
<1>5. CASE DismissLatest \/ \E v \in Videos : StartAgain(v)
  BY <1>5 DEF DismissLatest, StartAgain, DiskOK
<1> QED
  BY <1>1, <1>2, <1>3, <1>4, <1>5, CancelDisk, AllDisk, RemoveDisk DEF UserStep
-------------------------------------------------------------------------------
(* The signals of a transfer.                                              *)
LEMMA OwnPart ==
  ASSUME SoleTitles, NEW v \in Videos, NEW p, p[1] = TitleOf[v], NEW c
  PROVE  PartOf(p, c) <=> (c # NoFile => Begins(c, v))
BY DEF PartOf, SoleTitles

(* What a handler knows of the row it has found.                           *)
LEMMA TransferFacts ==
  ASSUME SoleTitles, IInv, DiskOK, NEW i \in DOMAIN entries,
         entries[i].status = "Downloading"
  PROVE  LET e == entries[i]
             c == parts[e.dest]
         IN /\ e \in Entry /\ OwnName(e) /\ e.id \in Videos /\ e.dest \in Paths
            /\ e.status \in Active /\ i \in RowsIn(entries, Active)
            /\ files[e.dest] = NoFile
            /\ c \in Seq(Cells) \cup {NoFile}
            /\ c # NoFile => Begins(c, e.id)
            /\ PartOf(e.dest, c)
            /\ Attached(e, c)
            /\ e.next \in 1 .. Size + 1
<1> DEFINE e == entries[i]
           c == parts[e.dest]
<1>1. /\ e \in Entry /\ OwnName(e) /\ e.id \in Videos /\ e.dest \in Paths
      /\ Disk(entries, parts, files) /\ parts \in PartsType
  BY DiskFacts
<1>2. e.status \in Active /\ i \in RowsIn(entries, Active)
  BY DEF Active, InFlight, RowsIn
<1>3. files[e.dest] = NoFile /\ Attached(e, c) /\ PartOf(e.dest, c)
  BY <1>1, <1>2 DEF Disk
<1>4. c # NoFile => Begins(c, e.id)
  BY <1>1, <1>3, OwnPart DEF OwnName
<1>5. c \in Seq(Cells) \cup {NoFile} /\ e.next \in 1 .. Size + 1
  BY <1>1 DEF PartsType, Entry
<1> QED
  BY <1>1, <1>2, <1>3, <1>4, <1>5

(* A row changes, and the ".part" under its name.                          *)
LEMMA RowDisk ==
  ASSUME SoleTitles, IInv, DiskOK, NEW i \in DOMAIN entries,
         entries[i].status = "Downloading",
         NEW e \in Entry, e.id = entries[i].id, e.dest = entries[i].dest,
         entries' = [entries EXCEPT ![i] = e],
         \A p \in Paths : p # e.dest => parts'[p] = parts[p],
         PartOf(e.dest, parts'[e.dest]), Attached(e, parts'[e.dest]),
         UNCHANGED <<files, paused>>
  PROVE  DiskOK'
<1>1. /\ entries \in Seq(Entry) /\ Disk(entries, parts, files)
      /\ OwnName(entries[i]) /\ i \in RowsIn(entries, Active)
      /\ files[entries[i].dest] = NoFile
  BY DiskFacts, TransferFacts
<1>2. /\ DOMAIN entries' = DOMAIN entries /\ entries'[i] = e
      /\ \A j \in DOMAIN entries : j # i => entries'[j] = entries[j]
  BY <1>1
<1>3. OwnName(e) /\ files[e.dest] = NoFile
  BY <1>1 DEF OwnName
<1>4. \A p \in Paths : p[1] # TitleOf[e.id] => parts'[p] = parts[p]
  BY <1>3 DEF OwnName
<1> DEFINE r == entries'
           ps == parts'
<1>5. /\ DOMAIN r = DOMAIN entries /\ r[i] = e
      /\ \A j \in DOMAIN entries : j # i => r[j] = entries[j]
      /\ \A p \in Paths : p # e.dest => ps[p] = parts[p] \/ ps[p] = NoFile
      /\ \A p \in Paths : p[1] # TitleOf[e.id] => ps[p] = parts[p]
      /\ PartOf(e.dest, ps[e.dest]) /\ Attached(e, ps[e.dest])
  BY <1>2, <1>4
<1> HIDE DEF r, ps
<1>6. Disk(r, ps, files)
  BY <1>1, <1>3, <1>5, OneRowDisk
<1> QED
  BY <1>6 DEF DiskOK, r, ps

LEMMA FailDisk ==
  ASSUME SoleTitles, IInv, DiskOK, NEW i \in DOMAIN entries,
         entries[i].status = "Downloading", NEW reason \in Reasons, Fail(i, reason)
  PROVE  DiskOK'
<1>1. /\ ProcessQueue(Torn(entries, i, "Failed", reason), Dropping(entries[i]),
                      Ended(bar, {entries[i].id}))
      /\ UNCHANGED <<files, paused>>
  BY DEF Fail
<1>2. Dropping(entries[i]) \in {parts, WithoutPart(parts, entries[i].dest)}
  BY DEF Dropping
<1>3. "Failed" \in Statuses \ {"Downloading"} /\ entries[i].status \in Active
  BY DEF Statuses, Active, InFlight
<1>4. Disk(entries', parts', files')
  BY <1>1, <1>2, <1>3, TornQueueDisk
<1> QED
  BY <1>1, <1>4 DEF DiskOK

(* A transfer that backs off leaves what it has written.                   *)
LEMMA NetFailureDisk ==
  ASSUME SoleTitles, IInv, DiskOK, NEW i \in DOMAIN entries,
         entries[i].status = "Downloading", NEW nerr, NEW ps,
         \A p \in Paths : p # entries[i].dest => ps[p] = parts[p],
         PartOf(entries[i].dest, ps[entries[i].dest]), NetFailure(i, nerr, ps)
  PROVE  DiskOK'
<1>1. CASE MayRetry(entries[i], nerr)
  <2> DEFINE s == Stopped(entries[i], "Queued", "None")
             e == [s EXCEPT !.retries = @ - 1]
  <2>1. /\ s \in Entry /\ s.id = entries[i].id /\ s.dest = entries[i].dest
        /\ s.file = "none" /\ s.retries = entries[i].retries
    BY Facts, StoppedType, StoppedKeeps
  <2>2. s.retries - 1 \in 0 .. MaxRetries
    BY SMTT(30), <1>1, <2>1, LimitsAssumption DEF Entry, MayRetry
  <2> HIDE DEF s
  <2>3. /\ e \in Entry /\ e.id = entries[i].id /\ e.dest = entries[i].dest
        /\ e.file = "none"
    BY <2>1, <2>2 DEF Entry
  <2>4. /\ entries' = [entries EXCEPT ![i] = e] /\ parts' = ps
        /\ UNCHANGED <<files, paused>>
    BY <1>1, Facts DEF NetFailure, BackOff, s
  <2> HIDE DEF e
  <2> QED
    BY <2>3, <2>4, RowDisk DEF Attached
<1>2. CASE ~ MayRetry(entries[i], nerr)
  <2>1. PICK reason \in {"Timeout", "Network"} : Fail(i, reason)
    BY <1>2 DEF NetFailure
  <2>2. reason \in Reasons
    BY DEF Reasons
  <2> QED
    BY <2>1, <2>2, FailDisk
<1> QED
  BY <1>1, <1>2

LEMMA PartialContentDisk ==
  ASSUME SoleTitles, IInv, DiskOK, NEW i \in DOMAIN entries, NEW known \in BOOLEAN,
         PartialContent(i, known)
  PROVE  DiskOK'
<1> DEFINE total == IF known THEN Size ELSE entries[i].total
           e == [entries[i] EXCEPT !.reply = "body", !.next = entries[i].from + 1,
                                   !.total = total]
<1>1. /\ entries[i].from \in 1 .. Size - 1 /\ entries[i].reply = "asked"
      /\ entries[i].status = "Downloading" /\ UNCHANGED <<parts, files, paused>>
  BY DEF PartialContent, Transferring
<1>2. /\ entries[i] \in Entry /\ PartOf(entries[i].dest, parts[entries[i].dest])
      /\ Attached(entries[i], parts[entries[i].dest])
  BY <1>1, TransferFacts
<1>3. total \in 0 .. Size /\ entries[i].from + 1 \in 1 .. Size + 1
  BY <1>1, <1>2, SizeAssumption DEF Entry
<1> HIDE DEF total
<1>4. /\ e \in Entry /\ e.id = entries[i].id /\ e.dest = entries[i].dest
      /\ e.file = entries[i].file /\ e.reply = "body" /\ e.next = entries[i].from + 1
  BY <1>2, <1>3 DEF Entry
<1>5. entries' = [entries EXCEPT ![i] = e]
  BY Facts DEF PartialContent, Entry, total
<1> HIDE DEF e
<1>6. Attached(e, parts'[e.dest])
  BY <1>1, <1>2, <1>4 DEF Attached
<1> QED
  BY <1>1, <1>2, <1>4, <1>5, <1>6, RowDisk

LEMMA LearnTotalDisk ==
  ASSUME SoleTitles, IInv, DiskOK, NEW i \in DOMAIN entries, LearnTotal(i)
  PROVE  DiskOK'
<1> DEFINE e == [entries[i] EXCEPT !.total = Size]
<1>1. entries[i].status = "Downloading" /\ UNCHANGED <<parts, files, paused>>
  BY DEF LearnTotal, Transferring
<1>2. /\ entries[i] \in Entry /\ PartOf(entries[i].dest, parts[entries[i].dest])
      /\ Attached(entries[i], parts[entries[i].dest])
  BY <1>1, TransferFacts
<1>3. Size \in 0 .. Size
  BY SizeAssumption
<1>4. /\ e \in Entry /\ e.id = entries[i].id /\ e.dest = entries[i].dest
      /\ e.file = entries[i].file /\ e.reply = entries[i].reply
      /\ e.next = entries[i].next /\ e.from = entries[i].from
  BY <1>2, <1>3 DEF Entry
<1>5. entries' = [entries EXCEPT ![i] = e]
  BY Facts DEF LearnTotal
<1> HIDE DEF e
<1>6. Attached(e, parts'[e.dest])
  BY <1>1, <1>2, <1>4 DEF Attached
<1> QED
  BY <1>1, <1>2, <1>4, <1>5, <1>6, RowDisk

(* One more cell, or a part of it, which is all of it or nothing.          *)
LEMMA ChunkDisk ==
  ASSUME SoleTitles, IInv, DiskOK, NEW i \in DOMAIN entries, Chunk(i)
  PROVE  DiskOK'
<1> DEFINE old == entries[i]
           c == parts[old.dest]
           cell == <<old.id, old.next>>
           e == [old EXCEPT !.next = @ + 1]
<1>1. /\ old.next <= Size /\ old.reply = "body" /\ old.file # "none"
      /\ old.status = "Downloading" /\ UNCHANGED <<files, paused>>
      /\ parts' = [parts EXCEPT ![old.dest] = Written(@, <<cell>>)]
  BY DEF Chunk, Transferring
<1>2. /\ old \in Entry /\ OwnName(old) /\ old.id \in Videos /\ old.dest \in Paths
      /\ c # NoFile => Begins(c, old.id)
      /\ Attached(old, c) /\ old.next \in 1 .. Size + 1
  BY <1>1, TransferFacts
<1>3. old.next \in 1 .. Size /\ old.next + 1 \in 1 .. Size + 1
  BY SMTT(30), <1>1, <1>2, SizeAssumption
<1>4. /\ e \in Entry /\ e.id = old.id /\ e.dest = old.dest
      /\ e.file = old.file /\ e.reply = "body" /\ e.next = old.next + 1
  BY <1>1, <1>2, <1>3 DEF Entry
<1>5. entries' = [entries EXCEPT ![i] = e]
  BY Facts DEF Chunk
<1>6. /\ \A p \in Paths : p # old.dest => parts'[p] = parts[p]
      /\ parts'[old.dest] = Written(c, <<cell>>)
  BY <1>1, <1>2, Facts DEF PartsType
<1>7. ASSUME c # NoFile
      PROVE  Begins(c \o <<cell>>, old.id) /\ Len(c \o <<cell>>) = old.next
  <2>1. Begins(c, old.id) /\ Len(c) = old.next - 1
    BY <1>1, <1>2, <1>7 DEF Attached, Entry
  <2>2. <<cell>> \in Seq(Cells) /\ Len(<<cell>>) = 1 /\ <<cell>>[1] = <<old.id, old.next>>
    BY <1>2, <1>3 DEF Cells
  <2> DEFINE d == <<cell>>
             n == old.next
             m == old.next
  <2>3. /\ d \in Seq(Cells) /\ Len(d) = m - (n - 1)
        /\ \A j \in 1 .. Len(d) : d[j] = <<old.id, n - 1 + j>>
    BY <1>3, <2>2
  <2>4. n \in 1 .. Size + 1 /\ m \in 0 .. Size /\ m >= n - 1
    BY <1>3, SizeAssumption
  <2>5. Begins(c, old.id) /\ Len(c) = n - 1 /\ old.id \in Videos
    BY <1>2, <2>1
  <2>6. PICK v \in Videos : v = old.id
    BY <2>5
  <2> HIDE DEF d, n, m, c
  <2>7. Begins(c \o d, v) /\ Len(c \o d) = m
    <3>1. Begins(c, v) /\ \A j \in 1 .. Len(d) : d[j] = <<v, n - 1 + j>>
      BY <2>3, <2>5, <2>6
    <3> QED
      BY SMTT(30), <2>3, <2>4, <2>5, <3>1, BeginsOn
  <2> QED
    BY <2>6, <2>7 DEF d, m
<1> HIDE DEF e, cell, c
<1>8. PartOf(e.dest, parts'[e.dest])
  BY <1>2, <1>4, <1>6, <1>7, OwnPart DEF OwnName, Written
<1>9. Attached(e, parts'[e.dest])
  BY <1>3, <1>4, <1>6, <1>7 DEF Attached, Written
<1> QED
  BY <1>1, <1>4, <1>5, <1>6, <1>8, <1>9, RowDisk

LEMMA ChunkFailsDisk ==
  ASSUME SoleTitles, IInv, DiskOK, NEW i \in DOMAIN entries, ChunkFails(i)
  PROVE  DiskOK'
<1> DEFINE old == entries[i]
           c == parts[old.dest]
           cell == <<old.id, old.next>>
<1>1. /\ old.next <= Size /\ old.reply = "body" /\ old.file # "none"
      /\ old.status = "Downloading"
  BY DEF ChunkFails, Transferring
<1>2. /\ old \in Entry /\ OwnName(old) /\ old.id \in Videos /\ old.dest \in Paths
      /\ c # NoFile => Begins(c, old.id)
      /\ Attached(old, c) /\ old.next \in 1 .. Size + 1
  BY <1>1, TransferFacts
<1>3. PICK d \in WriteFailed(c, <<cell>>) :
         NetFailure(i, "canceled", [parts EXCEPT ![old.dest] = d])
  BY DEF ChunkFails
<1>4. old.next \in 1 .. Size
  BY SMTT(30), <1>1, <1>2, SizeAssumption
<1>5. <<cell>> \in Seq(Cells) /\ Len(<<cell>>) = 1 /\ <<cell>>[1] = <<old.id, old.next>>
  BY <1>2, <1>4 DEF Cells
<1> DEFINE n == old.next
<1>6. PICK k \in 0 .. 1 : d = Written(c, SubSeq(<<cell>>, 1, k))
  BY <1>3, <1>5 DEF WriteFailed
<1>7. ASSUME d # NoFile PROVE Begins(d, old.id)
  <2>1. c # NoFile /\ d = c \o SubSeq(<<cell>>, 1, k)
    BY <1>6, <1>7 DEF Written
  <2>2. Begins(c, old.id) /\ Len(c) = n - 1
    BY <1>1, <1>2, <2>1 DEF Attached, Entry
  <2> DEFINE s == SubSeq(<<cell>>, 1, k)
  <2>3. s \in Seq(Cells) /\ Len(s) = k /\ \A j \in 1 .. k : s[j] = <<cell>>[j]
    BY <1>5, SubSeqProperties, PrefixType
  <2>4. \A j \in 1 .. k : j = 1
    OBVIOUS
  <2> DEFINE m == n - 1 + k
  <2>5. /\ m \in 0 .. Size /\ m >= n - 1 /\ Len(s) = m - (n - 1)
        /\ n \in 1 .. Size + 1
    BY <1>4, <2>3, SizeAssumption
  <2>6. \A j \in 1 .. Len(s) : s[j] = <<old.id, n - 1 + j>>
    BY <1>4, <1>5, <2>3, <2>4
  <2> HIDE DEF s, m
  <2>7. Begins(c \o s, old.id)
    BY <1>2, <2>2, <2>3, <2>5, <2>6, BeginsOn
  <2> QED
    BY <2>1, <2>7 DEF s
<1> DEFINE ps == [parts EXCEPT ![old.dest] = d]
<1>8. /\ \A p \in Paths : p # old.dest => ps[p] = parts[p]
      /\ ps[old.dest] = d
  BY <1>2, Facts DEF PartsType
<1>9. NetFailure(i, "canceled", ps)
  BY <1>3
<1> HIDE DEF ps
<1>10. PartOf(old.dest, ps[old.dest])
  BY <1>2, <1>7, <1>8, OwnPart DEF OwnName
<1> QED
  BY <1>1, <1>8, <1>9, <1>10, NetFailureDisk

(* The whole body starts with the ".part" empty, under the old name or a   *)
(* new one.                                                                *)
LEMMA WholeBodyDisk ==
  ASSUME SoleTitles, IInv, DiskOK, NEW i \in DOMAIN entries, NEW typed \in BOOLEAN,
         WholeBody(i, typed)
  PROVE  DiskOK'
<1> DEFINE old == entries[i]
           e == [old EXCEPT !.reply = "body", !.from = 0, !.next = 1]
           ps == Wiped(old)
<1>1. /\ old.reply = "asked" /\ old.status = "Downloading"
      /\ UNCHANGED <<files, paused>>
      /\ IF Relocates(e, typed) THEN Relocated(i, e, ps)
         ELSE entries' = [entries EXCEPT ![i] = e] /\ parts' = ps
  BY DEF WholeBody, Transferring
<1>2. /\ old \in Entry /\ OwnName(old) /\ old.id \in Videos /\ old.dest \in Paths
      /\ i \in RowsIn(entries, Active) /\ files[old.dest] = NoFile
      /\ PartOf(old.dest, parts[old.dest]) /\ Attached(old, parts[old.dest])
  BY <1>1, TransferFacts
<1>3. /\ e \in Entry /\ e.id = old.id /\ e.dest = old.dest
      /\ e.file = old.file /\ e.reply = "body" /\ e.next = 1
  <2>1. 1 \in 1 .. Size + 1
    BY SizeAssumption
  <2> QED
    BY <1>2, <2>1 DEF Entry
<1>4. /\ ps \in PartsType /\ \A p \in Paths : p # old.dest => ps[p] = parts[p]
      /\ ps[old.dest] \in {parts[old.dest], <<>>, NoFile}
      /\ ps[old.dest] = parts[old.dest] => old.from = 0 \/ old.file # "open" \/ parts[old.dest] \in {<<>>, NoFile}
  <2>1. CASE old.from > 0 /\ old.file = "open"
    <3>1. ps = [parts EXCEPT ![old.dest] = Truncated(@)]
      BY <2>1 DEF Wiped
    <3>2. Truncated(parts[old.dest]) \in {<<>>, NoFile}
      BY DEF Truncated
    <3> HIDE DEF ps
    <3>3. ps \in PartsType
      <4>1. Truncated(parts[old.dest]) \in Seq(Cells) \cup {NoFile}
        BY <3>2, EmptySeq
      <4> QED
        BY <3>1, <4>1, Facts, PartsExcept
    <3>4. /\ \A p \in Paths : p # old.dest => ps[p] = parts[p]
          /\ ps[old.dest] = Truncated(parts[old.dest])
      BY <1>2, <3>1, Facts DEF PartsType
    <3> QED
      BY <3>2, <3>3, <3>4
  <2>2. CASE ~ (old.from > 0 /\ old.file = "open")
    <3>1. ps = parts
      BY <2>2 DEF Wiped
    <3>2. old.from = 0 \/ old.file # "open"
      BY <1>2, <2>2 DEF Entry
    <3> HIDE DEF ps
    <3> QED
      BY <3>1, <3>2, Facts
  <2> QED
    BY <2>1, <2>2
<1> HIDE DEF e, ps
<1>5. CASE ~ Relocates(e, typed)
  <2>1. entries' = [entries EXCEPT ![i] = e] /\ parts' = ps
    BY <1>1, <1>5
  <2>2. PartOf(e.dest, parts'[e.dest])
    BY <1>2, <1>3, <1>4, <2>1, EmptyPart
  <2>3. Len(<<>>) = 0
    OBVIOUS
  <2>4. Attached(e, parts'[e.dest])
    BY <1>1, <1>2, <1>3, <1>4, <2>1, <2>3 DEF Attached
  <2> QED
    BY <1>1, <1>3, <1>4, <2>1, <2>2, <2>4, RowDisk
<1>6. CASE Relocates(e, typed)
  <2> DEFINE fresh == DestPath(files, ps, TitleOf[e.id], "true")
  <2>1. PICK file \in {"open", "none"} :
           /\ entries' = [entries EXCEPT ![i] =
                            [e EXCEPT !.dest = fresh, !.file = file, !.from = 0]]
           /\ parts' = [WithoutPart(ps, e.dest) EXCEPT ![fresh] =
                            IF file = "open" THEN <<>> ELSE NoFile]
    BY <1>1, <1>6 DEF Relocated
  <2>2. fresh \in Paths /\ fresh[1] = TitleOf[e.id] /\ files[fresh] = NoFile
    <3>1. TitleOf[e.id] \in Titles /\ "true" \in Exts
      BY <1>2, <1>3, TitleAssumption DEF Exts
    <3>2. FreeNumbers(files, ps, TitleOf[e.id], "true") # {}
      BY <1>1, <1>6 DEF Relocated
    <3> QED
      BY <3>1, <3>2, FreshName
  <2> HIDE DEF fresh
  <2> DEFINE f == [e EXCEPT !.dest = fresh, !.file = file, !.from = 0]
  <2>3. /\ f \in Entry /\ f.id = old.id /\ f.dest = fresh
        /\ f.reply = "body" /\ f.next = 1
    BY <1>3, <2>2 DEF Entry
  <2>4. entries' = [entries EXCEPT ![i] = f]
    BY <2>1
  <2> HIDE DEF f
  <2>5. /\ DOMAIN entries' = DOMAIN entries /\ entries'[i] = f
        /\ \A j \in DOMAIN entries : j # i => entries'[j] = entries[j]
    BY <2>4, Facts
  <2>6. /\ parts'[fresh] \in {<<>>, NoFile}
        /\ \A p \in Paths : p # fresh =>
              parts'[p] = IF p = old.dest THEN NoFile ELSE ps[p]
    BY <1>3, <1>4, <2>1, <2>2 DEF WithoutPart, PartsType
  <2>7. OwnName(f) /\ TitleOf[f.id] = old.dest[1]
    BY <1>2, <1>3, <2>2, <2>3 DEF OwnName
  <2>8. PartOf(f.dest, parts'[f.dest])
    BY <2>3, <2>6, EmptyPart
  <2>9. Attached(f, parts'[f.dest])
    <3>1. Len(<<>>) = 0
      OBVIOUS
    <3> QED
      BY <2>3, <2>6, <3>1 DEF Attached
  <2>10. /\ \A p \in Paths : p # f.dest => parts'[p] = parts[p] \/ parts'[p] = NoFile
         /\ \A p \in Paths : p[1] # TitleOf[f.id] => parts'[p] = parts[p]
    BY <1>4, <2>2, <2>3, <2>6, <2>7 DEF OwnName
  <2> DEFINE r == entries'
             ps2 == parts'
  <2>11. /\ DOMAIN r = DOMAIN entries /\ r[i] = f
         /\ \A j \in DOMAIN entries : j # i => r[j] = entries[j]
         /\ \A p \in Paths : p # f.dest => ps2[p] = parts[p] \/ ps2[p] = NoFile
         /\ \A p \in Paths : p[1] # TitleOf[f.id] => ps2[p] = parts[p]
         /\ PartOf(f.dest, ps2[f.dest]) /\ Attached(f, ps2[f.dest])
    BY <2>5, <2>8, <2>9, <2>10
  <2>12. entries \in Seq(Entry) /\ Disk(entries, parts, files)
    BY DiskFacts
  <2>13. f \in Entry /\ f.id = entries[i].id /\ OwnName(f) /\ files[f.dest] = NoFile
    BY <2>2, <2>3, <2>7
  <2> HIDE DEF r, ps2
  <2>14. Disk(r, ps2, files)
    BY <1>2, <2>11, <2>12, <2>13, OneRowDisk
  <2> QED
    BY <1>1, <2>14 DEF DiskOK, r, ps2
<1> QED
  BY <1>5, <1>6
-------------------------------------------------------------------------------
(* finished: the ".part" is gone, and a file may be there in its place.    *)
LEMMA FinalizeFailedDisk ==
  ASSUME SoleTitles, IInv, DiskOK, NEW i \in DOMAIN entries,
         entries[i].status = "Downloading", FinalizeFailed(i)
  PROVE  DiskOK'
<1> DEFINE e == entries[i]
           q == Torn(entries, i, "Failed", "DiskWrite")
           ps == Dropping(e)
<1>1. /\ files' = [files EXCEPT ![e.dest] = IF e.file = "none" THEN @ ELSE NoFile]
      /\ ProcessQueue(q, ps, Ended(bar, {e.id}))
      /\ UNCHANGED paused
  BY DEF FinalizeFailed
<1>2. /\ ps = parts \/ ps = WithoutPart(parts, e.dest)
      /\ "Failed" \in Statuses \ {"Downloading"} /\ "DiskWrite" \in Reasons
      /\ e.status \in Active
  BY DEF Dropping, Statuses, Reasons, Active, InFlight
<1>3. ps \in PartsType /\ q \in Seq(Entry) /\ Disk(q, ps, files)
  BY <1>2, TornDisk
<1>4. \A p \in Paths : files'[p] \in {files[p], NoFile}
  BY <1>1, Facts DEF PartsType
<1> HIDE DEF q, ps
<1>5. \A j \in DOMAIN q : q[j].dest \in Paths
  <2>1. \A j \in DOMAIN q : q[j] \in Entry
    BY <1>3
  <2> QED
    BY <2>1 DEF Entry
<1>6. Disk(q, ps, files')
  BY <1>3, <1>4, <1>5, FilesDisk
<1>7. Disk(entries', parts', files')
  BY <1>1, <1>3, <1>6, QueueDisk
<1> QED
  BY <1>1, <1>7 DEF DiskOK

LEMMA CompleteDisk ==
  ASSUME SoleTitles, IInv, DiskOK, NEW i \in DOMAIN entries,
         entries[i].status = "Downloading", NEW c, NEW received \in 0 .. Size,
         Complete(i, c, received)
  PROVE  DiskOK'
<1> DEFINE old == entries[i]
           s == Stopped(old, "Completed", "None")
           e == [s EXCEPT !.total = IF @ = 0 THEN received ELSE @]
           q == [entries EXCEPT ![i] = e]
           ps == WithoutPart(parts, old.dest)
<1>1. /\ files' = [files EXCEPT ![old.dest] = c]
      /\ ProcessQueue(q, ps, Ended(bar, {old.id}))
      /\ UNCHANGED paused
  BY DEF Complete
<1>2. /\ old \in Entry /\ old.dest \in Paths
      /\ old.status \in Active /\ i \in RowsIn(entries, Active)
      /\ entries \in Seq(Entry) /\ Disk(entries, parts, files)
  BY DiskFacts, TransferFacts
<1>3. /\ s \in Entry /\ s.id = old.id /\ s.dest = old.dest
      /\ s.file = "none" /\ s.status = "Completed"
  <2>1. "Completed" \in Statuses /\ "None" \in Reasons
    BY DEF Statuses, Reasons
  <2> QED
    BY <1>2, <2>1, StoppedType, StoppedKeeps
<1> HIDE DEF s
<1>4. /\ e \in Entry /\ e.id = old.id /\ e.dest = old.dest
      /\ e.file = "none" /\ e.status = "Completed"
  BY <1>3 DEF Entry
<1> HIDE DEF e
<1>5. /\ ps \in PartsType /\ \A p \in Paths : p # old.dest => ps[p] = parts[p]
      /\ ps[old.dest] = NoFile
  BY <1>2, Facts DEF WithoutPart, PartsType
<1> HIDE DEF ps
<1>6. q \in Seq(Entry) /\ Disk(q, ps, files)
  BY <1>2, <1>4, <1>5, StopDisk, EmptyPart
<1>7. DOMAIN q = DOMAIN entries /\ \A j \in DOMAIN q : q[j] = IF j = i THEN e ELSE entries[j]
  OBVIOUS
<1> HIDE DEF q
<1>8. \A j \in DOMAIN q : q[j].dest \in Paths
  <2>1. \A j \in DOMAIN q : q[j] \in Entry
    BY <1>6
  <2> QED
    BY <2>1 DEF Entry
<1>9. ASSUME NEW j \in RowsIn(q, Active) PROVE q[j].dest # old.dest
  <2>1. j # i
    BY <1>4, <1>7 DEF RowsIn, Active, InFlight
  <2>2. j \in RowsIn(entries, Active) /\ q[j] = entries[j]
    BY <1>7, <2>1 DEF RowsIn
  <2> QED
    BY <1>2, <2>1, <2>2, OneWriter
<1>10. \A p \in Paths : files'[p] # files[p] => p = old.dest
  BY <1>1, Facts DEF PartsType
<1>11. \A p \in Paths : \/ files'[p] \in {files[p], NoFile}
                        \/ ps[p] = NoFile /\ \A j \in RowsIn(q, Active) : q[j].dest # p
  BY <1>5, <1>9, <1>10
<1>12. Disk(q, ps, files')
  BY <1>6, <1>8, <1>11, FilesDisk
<1>13. Disk(entries', parts', files')
  BY <1>1, <1>5, <1>6, <1>12, QueueDisk
<1> QED
  BY <1>1, <1>13 DEF DiskOK

(* How finished ends.                                                      *)
LEMMA FinishedEnds ==
  ASSUME IInv, NEW i \in DOMAIN entries, Finished(i)
  PROVE  \/ FinalizeFailed(i)
         \/ \E written \in BOOLEAN :
               /\ written \/ "tail" \in Faults
               /\ entries[i].file = "open" /\ parts[entries[i].dest] # NoFile
               /\ \E c \in OnDisk(entries[i], written) :
                     Complete(i, c, IF written THEN Size ELSE entries[i].next - 1)
<1>1. CASE FinalizeFailed(i)
  BY <1>1
<1>2. CASE ~ FinalizeFailed(i)
  <2>1. /\ entries[i].file = "open" /\ parts[entries[i].dest] # NoFile
        /\ \E written \in IF "tail" \in Faults THEN BOOLEAN ELSE {TRUE} :
              \E c \in OnDisk(entries[i], written) :
                 Complete(i, c, IF written THEN Size ELSE entries[i].next - 1)
    BY <1>2 DEF Finished
  <2>2. PICK written \in IF "tail" \in Faults THEN BOOLEAN ELSE {TRUE} :
              \E c \in OnDisk(entries[i], written) :
                 Complete(i, c, IF written THEN Size ELSE entries[i].next - 1)
    BY <2>1
  <2>3. written \in BOOLEAN /\ (written \/ "tail" \in Faults)
    OBVIOUS
  <2> QED
    BY <2>1, <2>2, <2>3
<1> QED
  BY <1>1, <1>2

LEMMA NetDisk ==
  ASSUME SoleTitles, IInv, DiskOK, NEW i \in DOMAIN entries, NetStep(i)
  PROVE  DiskOK'
<1>1. entries[i].status = "Downloading"
  BY DEF NetStep, PartialContent, WholeBody, TruncateFails, RangeRefused, HttpError,
         Chunk, ChunkFails, LearnTotal, Broken, Finished, Transferring
<1>2. CASE TruncateFails(i) \/ \E nerr \in {"dropped", "timeout", "fatal"} : Broken(i, nerr)
  <2>1. PICK nerr : NetFailure(i, nerr, parts)
    BY <1>2 DEF TruncateFails, Broken
  <2>2. PartOf(entries[i].dest, parts[entries[i].dest])
    BY <1>1, TransferFacts
  <2> QED
    BY <1>1, <2>1, <2>2, NetFailureDisk
<1>3. CASE RangeRefused(i) \/ \E kind \in {"http", "auth"} : HttpError(i, kind)
  <2>1. PICK reason \in {"Http", "Auth"} : Fail(i, reason)
    BY <1>3 DEF RangeRefused, HttpError
  <2>2. reason \in Reasons
    BY DEF Reasons
  <2> QED
    BY <1>1, <2>1, <2>2, FailDisk
<1>4. CASE Finished(i)
  <2>1. CASE FinalizeFailed(i)
    BY <1>1, <2>1, FinalizeFailedDisk
  <2>2. CASE ~ FinalizeFailed(i)
    <3>1. PICK written \in BOOLEAN : \E c :
            Complete(i, c, IF written THEN Size ELSE entries[i].next - 1)
      BY <1>4, <2>2, FinishedEnds
    <3>2. (IF written THEN Size ELSE entries[i].next - 1) \in 0 .. Size
      BY SMTT(30), Facts, SizeAssumption DEF Entry
    <3> QED
      BY <1>1, <3>1, <3>2, CompleteDisk
  <2> QED
    BY <2>1, <2>2
<1> QED
  BY <1>2, <1>3, <1>4, PartialContentDisk, WholeBodyDisk, ChunkDisk, ChunkFailsDisk,
     LearnTotalDisk DEF NetStep

-------------------------------------------------------------------------------
(* Outside the program.                                                    *)
LEMMA DeletedDisk ==
  ASSUME IInv, DiskOK, NEW d \in Paths, FileDeleted(d) \/ PartDeleted(d)
  PROVE  DiskOK'
<1>1. /\ Disk(entries, parts, files) /\ \A j \in DOMAIN entries : entries[j].dest \in Paths
      /\ UNCHANGED <<entries, paused>>
  BY DiskFacts DEF FileDeleted, PartDeleted
<1>2. \A p \in Paths : files'[p] \in {files[p], NoFile}
  BY Facts DEF FileDeleted, PartDeleted, PartsType
<1>3. \A p \in Paths : parts'[p] = parts[p] \/ parts'[p] = NoFile
  BY Facts DEF FileDeleted, PartDeleted, WithoutPart, PartsType
<1> DEFINE ps == parts'
           fs == files'
<1>4. /\ \A p \in Paths : ps[p] = parts[p] \/ ps[p] = NoFile
      /\ \A p \in Paths : fs[p] \in {files[p], NoFile}
  BY <1>2, <1>3
<1> HIDE DEF ps, fs
<1>5. Disk(entries, ps, files)
  BY <1>1, <1>4, PartsDisk
<1>6. Disk(entries, ps, fs)
  BY <1>1, <1>4, <1>5, FilesDisk
<1> QED
  BY <1>1, <1>6 DEF DiskOK, ps, fs

(* What a killed application leaves under a ".part" is still a beginning.  *)
LEMMA TornParts ==
  ASSUME IInv, DiskOK, Restart, NEW p \in Paths
  PROVE  PartOf(p, parts'[p]) /\ (files[p] # NoFile => parts'[p] = NoFile)
<1> DEFINE writers == {i \in DOMAIN entries :
                         entries[i].file = "open" /\ parts[entries[i].dest] # NoFile}
<1>1. PICK left \in [writers -> 0 .. Size] :
        /\ \A i \in writers : left[i] <= Len(parts[entries[i].dest])
        /\ parts' = [d \in Paths |->
             IF \E i \in writers : entries[i].dest = d
               THEN SubSeq(parts[d], 1, left[CHOOSE i \in writers : entries[i].dest = d])
               ELSE parts[d]]
  BY DEF Restart
<1>2. PartOf(p, parts[p]) /\ (files[p] # NoFile => parts[p] = NoFile)
  BY DEF DiskOK, Disk
<1>3. CASE \E i \in writers : entries[i].dest = p
  <2> DEFINE w == CHOOSE i \in writers : entries[i].dest = p
             m == left[w]
  <2>1. w \in writers /\ entries[w].dest = p
    BY <1>3
  <2>2. parts'[p] = SubSeq(parts[p], 1, m)
    BY <1>1, <1>3
  <2> HIDE DEF w
  <2>3. parts[p] # NoFile /\ parts[p] \in Seq(Cells)
    BY <2>1, Facts DEF PartsType
  <2>4. m \in 0 .. Len(parts[p])
    <3>1. m \in 0 .. Size /\ m <= Len(parts[p])
      BY <1>1, <2>1
    <3> QED
      BY <2>3, <3>1
  <2> HIDE DEF m
  <2>5. ASSUME NEW v \in Videos, TitleOf[v] = p[1] PROVE Begins(parts'[p], v)
    <3> DEFINE c == parts[p]
    <3>1. Begins(c, v) /\ m \in 0 .. Len(c)
      BY <1>2, <2>3, <2>4, <2>5 DEF PartOf
    <3> HIDE DEF c
    <3>2. Begins(SubSeq(c, 1, m), v)
      BY <3>1, BeginsCut
    <3> QED
      BY <2>2, <3>2 DEF c
  <2> QED
    BY <1>2, <2>3, <2>5 DEF PartOf
<1>4. CASE ~ \E i \in writers : entries[i].dest = p
  <2>1. parts'[p] = parts[p]
    BY <1>1, <1>4
  <2> QED
    BY <1>2, <2>1
<1> QED
  BY <1>3, <1>4

LEMMA RestoredFrom ==
  ASSUME NEW R, NEW s, NEW a \in Arrangements({Restored(r, s) : r \in R}),
         NEW i \in DOMAIN a
  PROVE  \E r \in R : a[i] = Restored(r, s)
BY DEF Arrangements

LEMMA RestartDisk ==
  ASSUME SoleTitles, IInv, Orderly, DiskOK, Restart
  PROVE  DiskOK'
<1> DEFINE kept == {r \in completed : files[r.dest] # NoFile}
           stopped == {x \in paused : parts[x.dest] # NoFile}
<1>1. UNCHANGED <<files, paused>>
  BY DEF Restart
<1>2. PICK a \in Arrangements({Restored(r, "Completed") : r \in kept}),
           b \in Arrangements({Restored(r, "Paused") : r \in stopped}) :
        entries' = a \o b
  BY DEF Restart
<1>3. a \in Seq(Entry) /\ b \in Seq(Entry)
  <2>1. /\ kept \in SUBSET Saved /\ IsFiniteSet(kept)
        /\ stopped \in SUBSET Saved /\ IsFiniteSet(stopped)
    BY Facts, FS_Subset
  <2> HIDE DEF kept, stopped
  <2> QED
    BY <2>1, RestoredRows
<1>4. ASSUME NEW j \in DOMAIN entries'
      PROVE  \/ \E r \in kept : entries'[j] = Restored(r, "Completed")
             \/ \E r \in stopped : entries'[j] = Restored(r, "Paused")
  <2> HIDE DEF kept, stopped
  <2>1. (\E k \in DOMAIN a : entries'[j] = a[k]) \/ (\E k \in DOMAIN b : entries'[j] = b[k])
    <3> DEFINE q == a \o b
    <3>1. /\ Len(a) \in Nat /\ Len(b) \in Nat
          /\ DOMAIN a = 1 .. Len(a) /\ DOMAIN b = 1 .. Len(b)
          /\ DOMAIN q = 1 .. Len(a) + Len(b)
      BY <1>3
    <3>2. j \in 1 .. Len(a) + Len(b) /\ entries'[j] = q[j]
      BY <1>2, <1>4, <3>1
    <3>3. q[j] = IF j <= Len(a) THEN a[j] ELSE b[j - Len(a)]
      BY <1>3, <3>2
    <3>4. j <= Len(a) => j \in DOMAIN a
      BY <3>1, <3>2
    <3>5. ~ (j <= Len(a)) => j - Len(a) \in DOMAIN b
      BY <3>1, <3>2
    <3> HIDE DEF q
    <3> QED
      BY <3>2, <3>3, <3>4, <3>5
  <2> QED
    BY <2>1, RestoredFrom
<1>5. /\ \A r \in kept : OwnName(r)
      /\ \A r \in stopped : OwnName(r) /\ files[r.dest] = NoFile
  <2>1. \A r \in completed : OwnName(r)
    BY DiskFacts, RecordsOwn DEF Orderly, Registered
  <2>2. ASSUME NEW r \in stopped PROVE OwnName(r) /\ files[r.dest] = NoFile
    <3>1. r \in paused /\ r.dest \in Paths /\ parts[r.dest] # NoFile
      BY Facts DEF Saved
    <3> QED
      BY <3>1 DEF DiskOK, Disk
  <2> QED
    BY <2>1, <2>2
<1> HIDE DEF kept, stopped
<1>6. ASSUME NEW r, NEW s
      PROVE  /\ Restored(r, s).id = r.id /\ Restored(r, s).dest = r.dest
             /\ Restored(r, s).status = s /\ Restored(r, s).file = "none"
  BY DEF Restored
<1>7. \A j \in DOMAIN entries' : OwnName(entries'[j])
  BY <1>4, <1>5, <1>6 DEF OwnName
<1>8. ASSUME NEW j \in RowsIn(entries', Active)
      PROVE  Attached(entries'[j], parts'[entries'[j].dest]) /\ files[entries'[j].dest] = NoFile
  <2>1. j \in DOMAIN entries' /\ entries'[j].status # "Completed"
    BY DEF RowsIn, Active, InFlight
  <2>2. PICK r \in stopped : entries'[j] = Restored(r, "Paused")
    BY <1>4, <1>6, <2>1
  <2> QED
    BY <1>5, <1>6, <2>2 DEF Attached
<1>9. \A j, k \in RowsIn(entries', Active) : entries'[j].id = entries'[k].id => j = k
  <2>1. Doubles(entries') /\ entries' \in Seq(Entry)
    BY <1>2, <1>3, RestartOrderly DEF Orderly
  <2> SUFFICES ASSUME NEW j \in RowsIn(entries', Active), NEW k \in RowsIn(entries', Active),
                      entries'[j].id = entries'[k].id
               PROVE  j = k
    OBVIOUS
  <2>2. /\ j \in DOMAIN entries' /\ entries'[j].status # "Completed"
        /\ k \in DOMAIN entries' /\ entries'[k].status # "Completed"
    BY DEF RowsIn, Active, InFlight
  <2>3. j \in Nat /\ k \in Nat
    BY <2>1, <2>2
  <2>4. ~ (j < k) /\ ~ (k < j)
    BY <2>1, <2>2 DEF Doubles
  <2> QED
    BY <2>3, <2>4
<1>10. Disk(entries', parts', files)
  BY <1>7, <1>8, <1>9, TornParts DEF Disk
<1> QED
  BY <1>1, <1>10 DEF DiskOK

LEMMA NextDisk ==
  ASSUME SoleTitles, IInv, Orderly, DiskOK, [Next]_vars
  PROVE  DiskOK'
<1>1. ASSUME NEW v \in Videos, RetryKick(v) PROVE DiskOK'
  <2>1. ProcessQueue(entries, parts, bar) \/ UNCHANGED <<entries, parts>>
    BY <1>1 DEF RetryKick
  <2>2. UNCHANGED <<files, paused>>
    BY <1>1 DEF RetryKick
  <2>3. Disk(entries', parts', files)
    BY <2>1, DiskFacts, QueueDisk
  <2> QED
    BY <2>2, <2>3 DEF DiskOK
<1>2. CASE HideTimeout \/ UNCHANGED vars
  BY <1>2 DEF HideTimeout, vars, DiskOK
<1> QED
  BY <1>1, <1>2, UserDisk, NetDisk, DeletedDisk, RestartDisk DEF Next, WorldStep

LEMMA DownloadsDisk == SoleTitles => (Spec => [](IInv /\ Orderly /\ DiskOK))
<1> SUFFICES ASSUME SoleTitles PROVE Spec => [](IInv /\ Orderly /\ DiskOK)
  OBVIOUS
<1>1. Init => DiskOK
  BY EmptyPart DEF Init, DiskOK, Disk, RowsIn
<1>2. IInv /\ Orderly /\ DiskOK /\ [Next]_vars => DiskOK'
  BY NextDisk
<1> QED
  BY <1>1, <1>2, DownloadsOrderly, PTL DEF Spec

(* Videos with titles of their own resume in step: what is under a row's   *)
(* ".part" is a beginning of its video, and the bytes that come next are   *)
(* the ones that follow it, whatever fails on disk or on the network,      *)
(* whatever the user deletes, and wherever the application is killed.      *)
THEOREM DownloadsResumeInStep ==
  ASSUME SoleTitles
  PROVE  Spec => []ResumeInStep
<1>1. IInv /\ DiskOK => ResumeInStep
  <2> SUFFICES ASSUME IInv, DiskOK, NEW i \in RowsIn(entries, Active),
                      parts[entries[i].dest] # NoFile
               PROVE  LET e == entries[i]
                          c == parts[e.dest]
                      IN /\ \E k \in 0 .. Size : c = SubSeq(Body(e.id), 1, k)
                         /\ e.file = "open" /\ e.reply = "asked" => Len(c) = e.from
                         /\ e.file = "open" /\ e.reply = "body" => Len(c) = e.next - 1
    BY DEF ResumeInStep
  <2>1. i \in DOMAIN entries
    BY DEF RowsIn
  <2>2. /\ Attached(entries[i], parts[entries[i].dest])
        /\ entries[i].dest \in Paths /\ entries[i].id \in Videos /\ OwnName(entries[i])
        /\ PartOf(entries[i].dest, parts[entries[i].dest])
    BY <2>1, DiskFacts DEF Disk
  <2>3. Begins(parts[entries[i].dest], entries[i].id)
    BY <2>2 DEF PartOf, OwnName
  <2> QED
    BY <2>2, <2>3 DEF Attached, Begins
<1> QED
  BY <1>1, DownloadsDisk, PTL
-------------------------------------------------------------------------------
(* The end of a transfer and the files.                                    *)

(* The file of a completed row is made where there was none ...            *)
LEMMA FinishedFiles ==
  ASSUME SoleTitles, IInv, DiskOK, NEW i \in DOMAIN entries, Finished(i), NEW p \in Paths
  PROVE  \/ files'[p] = files[p]
         \/ /\ p = entries[i].dest /\ files[p] = NoFile
            /\ entries[i].file = "open" /\ parts[p] # NoFile
            /\ \E w \in BOOLEAN : (w \/ "tail" \in Faults) /\ files'[p] \in OnDisk(entries[i], w)
<1>1. entries[i].status = "Downloading"
  BY DEF Finished, Transferring
<1>2. files[entries[i].dest] = NoFile /\ files \in PartsType
  BY <1>1, Facts, TransferFacts
<1>3. CASE FinalizeFailed(i)
  <2>1. files' = [files EXCEPT ![entries[i].dest] =
                    IF entries[i].file = "none" THEN @ ELSE NoFile]
    BY <1>3 DEF FinalizeFailed
  <2> QED
    BY <1>2, <2>1 DEF PartsType
<1>4. CASE ~ FinalizeFailed(i)
  <2>1. PICK w \in BOOLEAN :
               /\ w \/ "tail" \in Faults
               /\ entries[i].file = "open" /\ parts[entries[i].dest] # NoFile
               /\ \E c \in OnDisk(entries[i], w) :
                     Complete(i, c, IF w THEN Size ELSE entries[i].next - 1)
    BY <1>4, FinishedEnds
  <2>2. PICK c \in OnDisk(entries[i], w) :
               Complete(i, c, IF w THEN Size ELSE entries[i].next - 1)
    BY <2>1
  <2>3. files' = [files EXCEPT ![entries[i].dest] = c]
    BY <2>2 DEF Complete
  <2> QED
    BY <1>2, <2>1, <2>2, <2>3 DEF PartsType
<1> QED
  BY <1>3, <1>4

(* ... and no other step but the user's touches a file.                    *)
LEMMA FilesMove ==
  ASSUME SoleTitles, IInv, DiskOK, [Next]_vars, NEW p \in Paths
  PROVE  \/ files'[p] = files[p]
         \/ FileDeleted(p)
         \/ \E i \in DOMAIN entries : Finished(i) /\ p = entries[i].dest /\ files[p] = NoFile
<1>1. CASE UserStep \/ HideTimeout \/ UNCHANGED vars
  <2>1. ASSUME NEW v \in Videos, NEW hint \in SizeHints, Start(v, hint) PROVE UNCHANGED files
    BY <2>1 DEF Start, Enqueue
  <2>2. ASSUME NEW v \in Videos, Retry(v) PROVE UNCHANGED files
    BY <2>2 DEF Retry, Enqueue
  <2>3. ASSUME NEW v \in Videos,
               \/ StartAgain(v) \/ Cancel(v) \/ Pause(v) \/ Resume(v)
               \/ RemoveActive(v) \/ RemoveEnded(v)
        PROVE  UNCHANGED files
    BY <2>3 DEF StartAgain, Cancel, Pause, Resume, RemoveActive, RemoveEnded
  <2>4. CASE \/ PauseAll \/ ResumeAll \/ ClearCompleted \/ PurgeStaleCompleted
             \/ DismissLatest \/ HideTimeout \/ UNCHANGED vars
    BY <2>4 DEF PauseAll, ResumeAll, ClearCompleted, PurgeStaleCompleted,
       DismissLatest, HideTimeout, vars
  <2> QED
    BY <1>1, <2>1, <2>2, <2>3, <2>4 DEF UserStep
<1>2. CASE \E v \in Videos : RetryKick(v)
  BY <1>2 DEF RetryKick
<1>3. CASE WorldStep
  <2>1. ASSUME NEW d \in Paths, FileDeleted(d), files'[p] # files[p] PROVE d = p
    BY <2>1, Facts DEF FileDeleted, PartsType
  <2> QED
    BY <1>3, <2>1 DEF WorldStep, PartDeleted, Restart
<1>4. ASSUME NEW i \in DOMAIN entries, NetStep(i), ~ Finished(i) PROVE UNCHANGED files
  BY <1>4 DEF NetStep, PartialContent, WholeBody, TruncateFails, RangeRefused, HttpError,
     Chunk, ChunkFails, LearnTotal, Broken, NetFailure, BackOff, Fail
<1>5. ASSUME NEW i \in DOMAIN entries, Finished(i), files'[p] # files[p]
      PROVE  p = entries[i].dest /\ files[p] = NoFile
  BY <1>5, FinishedFiles
<1>6. CASE \E i \in DOMAIN entries : NetStep(i)
  <2>1. PICK i \in DOMAIN entries : NetStep(i)
    BY <1>6
  <2> QED
    BY <1>4, <1>5, <2>1
<1> QED
  BY <1>1, <1>2, <1>3, <1>6 DEF Next

(* No transfer of a video with a title of its own removes, overwrites or   *)
(* shortens a saved file: whatever finalize() removes before it renames    *)
(* (part_file.cpp:115) is not there, however long ago the name was chosen  *)
(* and whatever happened on disk since.                                    *)
THEOREM DownloadsNothingOverwritten ==
  ASSUME SoleTitles
  PROVE  Spec => NothingOverwritten
<1>1. IInv /\ DiskOK /\ [Next]_vars
        => [\A p \in Paths : files[p] # NoFile /\ files'[p] # files[p] => FileDeleted(p)]_vars
  BY FilesMove
<1> QED
  BY <1>1, DownloadsDisk, PTL DEF Spec, NothingOverwritten

(* What finished writes, when no write is cut short unseen.                *)
LEMMA TailWhole ==
  ASSUME SoleTitles, IInv, DiskOK, "flush" \notin Faults,
         NEW i \in DOMAIN entries, Finished(i),
         entries[i].file = "open", parts[entries[i].dest] # NoFile
  PROVE  \A c \in OnDisk(entries[i], TRUE) : c = Body(entries[i].id)
<1> DEFINE e == entries[i]
           c == parts[e.dest]
           d == Buffered(e)
           n == e.next
<1>1. e.status = "Downloading" /\ e.reply = "body"
  BY DEF Finished, Transferring
<1>2. /\ e.id \in Videos /\ Attached(e, c) /\ n \in 1 .. Size + 1
      /\ Begins(c, e.id)
  BY <1>1, TransferFacts
<1>3. Len(c) = n - 1
  BY <1>1, <1>2 DEF Attached
<1>4. PICK v \in Videos : v = e.id
  BY <1>2
<1>5. Body(v) \in Seq(Cells) /\ Len(Body(v)) = Size /\ \A j \in 1 .. Size : Body(v)[j] = <<v, j>>
  BY BodyType DEF Body
<1>6. d = SubSeq(Body(v), n, Size)
  BY <1>4 DEF Buffered
<1> HIDE DEF c, d, n
<1>7. d \in Seq(Cells) /\ Len(d) = Size - (n - 1) /\ \A j \in 1 .. Len(d) : d[j] = <<v, n - 1 + j>>
  <2>1. d \in Seq(Cells)
    BY SMTT(30), <1>2, <1>5, <1>6, SizeAssumption, SubSeqProperties
  <2>2. Len(d) = Size - (n - 1)
    BY SMTT(30), <1>2, <1>5, <1>6, SizeAssumption, SubSeqProperties
  <2>3. ASSUME NEW j \in 1 .. Len(d) PROVE d[j] = <<v, n - 1 + j>>
    <3>1. n - 1 + j \in 1 .. Size
      BY <1>2, <2>2, SizeAssumption
    <3>2. d[j] = Body(v)[n - 1 + j]
      BY SMTT(30), <1>2, <1>5, <1>6, <2>2, SizeAssumption, SubSeqProperties
    <3> QED
      BY <1>5, <3>1, <3>2
  <2> QED
    BY <2>1, <2>2, <2>3
<1>8. c \o d = Body(v)
  <2> DEFINE m == Size
  <2>1. m \in 0 .. Size /\ m >= n - 1 /\ Len(d) = m - (n - 1)
    BY <1>2, <1>7, SizeAssumption
  <2>2. Begins(c, v) /\ m = Size
    BY <1>2, <1>4
  <2> HIDE DEF m
  <2> QED
    BY SMTT(30), <1>2, <1>3, <1>7, <2>1, <2>2, BeginsOn
<1>9. OnDisk(e, TRUE) = {c \o d}
  BY DEF OnDisk, Written, c, d
<1> QED
  BY <1>4, <1>8, <1>9

LEMMA NextWhole ==
  ASSUME SoleTitles, "tail" \notin Faults, "flush" \notin Faults,
         IInv, DiskOK, FilesWhole, [Next]_vars
  PROVE  FilesWhole'
<1> SUFFICES ASSUME NEW p \in Paths, NEW v \in Videos, TitleOf[v] = p[1]
             PROVE  files'[p] \in {NoFile, Body(v)}
  BY DEF FilesWhole
<1>1. files[p] \in {NoFile, Body(v)}
  BY DEF FilesWhole
<1>2. CASE FileDeleted(p)
  BY <1>2, Facts DEF FileDeleted, PartsType
<1>3. ASSUME NEW i \in DOMAIN entries, Finished(i), p = entries[i].dest, files'[p] # files[p]
      PROVE  files'[p] = Body(v)
  <2>1. /\ entries[i].file = "open" /\ parts[p] # NoFile
        /\ \E w \in BOOLEAN : (w \/ "tail" \in Faults) /\ files'[p] \in OnDisk(entries[i], w)
    BY <1>3, FinishedFiles
  <2>2. files'[p] \in OnDisk(entries[i], TRUE)
    BY <2>1
  <2>3. files'[p] = Body(entries[i].id)
    BY <1>3, <2>1, <2>2, TailWhole
  <2>4. entries[i].id = v
    BY <1>3, DiskFacts DEF SoleTitles, OwnName
  <2> QED
    BY <2>3, <2>4
<1> QED
  BY <1>1, <1>2, <1>3, FilesMove

(* A row that says Completed, and the record it leaves, stand for a file   *)
(* that holds the whole video or that the user has deleted, when titles    *)
(* are not shared and the two writes whose result nobody looks at (the     *)
(* tail in handleFinished, the flush in finalize()) do not fail.           *)
THEOREM DownloadsCompletedIsWhole ==
  ASSUME SoleTitles, "tail" \notin Faults, "flush" \notin Faults
  PROVE  Spec => []CompletedIsWhole
<1>1. Init => FilesWhole
  BY DEF Init, FilesWhole
<1>2. IInv /\ DiskOK /\ FilesWhole /\ [Next]_vars => FilesWhole'
  BY NextWhole
<1>3. IInv /\ Orderly /\ DiskOK /\ FilesWhole => CompletedIsWhole
  <2> SUFFICES ASSUME IInv, Orderly, DiskOK, FilesWhole
               PROVE  CompletedIsWhole
    OBVIOUS
  <2>1. ASSUME NEW i \in RowsIn(entries, {"Completed"})
        PROVE  files[entries[i].dest] \in {NoFile, Body(entries[i].id)}
    <3>1. i \in DOMAIN entries
      BY DEF RowsIn
    <3> QED
      BY <3>1, DiskFacts DEF FilesWhole, OwnName
  <2>2. ASSUME NEW r \in completed PROVE files[r.dest] \in {NoFile, Body(r.id)}
    <3>1. OwnName(r)
      BY DiskFacts, RecordsOwn DEF Orderly, Registered
    <3>2. r.id \in Videos /\ r.dest \in Paths
      BY Facts DEF Saved
    <3> QED
      BY <3>1, <3>2 DEF FilesWhole, OwnName
  <2> QED
    BY <2>1, <2>2 DEF CompletedIsWhole
<1> QED
  BY <1>1, <1>2, <1>3, DownloadsDisk, PTL DEF Spec
================================================================================
