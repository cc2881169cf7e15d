------------------------------ MODULE ServerProofs ------------------------------
(***************************************************************************)
(* Proofs about the parts of the server that MCServer puts side by side,   *)
(* for every value of the constants: how often the breaker of the search   *)
(* lets ElasticSearch be asked, and what a client is shown that reads a    *)
(* list page by page; then of the whole server.                            *)
(***************************************************************************)
EXTENDS MCServer, FiniteSetTheorems, SequenceTheorems, TLAPS

-------------------------------------------------------------------------------
(* SearchBreaker.  What can still be sent before the next opening goes     *)
(* stale, if ElasticSearch answers nobody:                                 *)
(*  - A failure that does not trip is one of the Threshold - 1 the count   *)
(*    has left; a success that has yet to clear the count gives as many    *)
(*    again.                                                               *)
(*  - A search that trips must wait for another to close the breaker, and  *)
(*    each of those that have not yet done so will do it once: those that  *)
(*    found it stale, those that record a success; all, while it is stale. *)
Stale == openSince = "stale"
AtAny(steps) == {s \in Searches : search[s] \in steps}
Closers == IF Stale THEN Searches ELSE AtAny({"reset", "clear", "close"})
Clearing == AtAny({"clear"})
Ready == IF openSince = "closed" THEN AtAny({"idle"}) ELSE {}

N == Cardinality(Searches)
Left == IF failures < Threshold THEN Threshold - 1 - failures ELSE 0
Misses(c, left) == IF c = N THEN N * (Threshold - 1) ELSE c * (Threshold - 1) + left

(* Twice the sum, over the closers in the order in which they will close   *)
(* it, of the sends each has left, and over the others.                    *)
Rounds(p) == p * (2 * N + 1 - p)
InBudget(sends, p) == 2 * sends + Rounds(p) <= 2 * (N * Threshold) + N * (N - 1)

ProbesLeft ==
    probes # Breaker!Unknown =>
      InBudget(probes + Cardinality(Ready) + Misses(Cardinality(Clearing), Left),
               Cardinality(Closers))

BreakerTypes ==
    /\ failures \in 0 .. Threshold
    /\ openSince \in {"closed", "fresh", "stale"}
    /\ search \in [Searches -> Breaker!SearchAt]
    /\ es \in {"up", "down"}
    /\ probes \in Nat

BreakerInv == BreakerTypes /\ ProbesLeft

LEMMA SameFiniteSets ==
  ASSUME NEW S
  PROVE  /\ Breaker!IsFiniteSet(S) <=> IsFiniteSet(S)
         /\ Breaker!Cardinality(S) = Cardinality(S)
<1>1. Breaker!IsFiniteSet(S) <=> IsFiniteSet(S)
  BY Zenon DEF IsFiniteSet, Breaker!IsFiniteSet
<1>2. Breaker!Cardinality(S) = Cardinality(S)
  BY Zenon DEF Cardinality, Breaker!Cardinality
<1> QED
  BY <1>1, <1>2

LEMMA BreakerConstants == N \in Nat /\ Threshold \in Nat \ {0} /\ IsFiniteSet(Searches)
BY ServerBreaker, SameFiniteSets, FS_CardinalityType DEF Breaker!BreakerAssumption, N

(* One more closer can send once, and let the searches that are no closers *)
(* do so, one time more.                                                   *)
LEMMA RoundsFewer ==
  ASSUME NEW p \in Nat, p # 0, p <= N
  PROVE  Rounds(p - 1) + 2 * (N - (p - 1)) = Rounds(p)
<1>1. N \in Nat
  BY BreakerConstants
<1>2. \A n \in Int : (p - 1) * (2 * n + 1 - (p - 1)) + 2 * (n - (p - 1)) = p * (2 * n + 1 - p)
  OBVIOUS
<1> QED
  BY <1>1, <1>2 DEF Rounds

LEMMA RoundsAll ==
  ASSUME NEW p \in Nat, p < N
  PROVE  Rounds(p) + 2 * (N - p) <= Rounds(N)
<1>1. N \in Nat
  BY BreakerConstants
<1>2. \A n, m \in Int :
        (n - m) * (2 * n + 1 - (n - m)) + 2 * m = n * (2 * n + 1 - n) - m * (m - 1)
  OBVIOUS
<1>3. \A m \in Nat : m # 0 => m * (m - 1) >= 0
  OBVIOUS
<1> DEFINE m == N - p
<1>4. m \in Nat /\ m # 0 /\ N - m = p
  BY <1>1
<1>5. m * (m - 1) >= 0 /\ m * (m - 1) \in Int
  BY <1>3, <1>4
<1>6. p * (2 * N + 1 - p) + 2 * m = N * (2 * N + 1 - N) - m * (m - 1)
  BY <1>1, <1>2, <1>4
<1> HIDE DEF m
<1>7. p * (2 * N + 1 - p) \in Int /\ N * (2 * N + 1 - N) \in Int /\ m \in Nat
  BY <1>1, <1>4
<1>8. p * (2 * N + 1 - p) + 2 * m <= N * (2 * N + 1 - N)
  BY <1>5, <1>6, <1>7
<1> QED
  BY <1>8 DEF Rounds, m

LEMMA RoundsType == \A p \in 0 .. N : Rounds(p) \in Nat /\ p \in Nat
<1>1. N \in Nat
  BY BreakerConstants
<1> SUFFICES ASSUME NEW p \in 0 .. N PROVE Rounds(p) \in Nat /\ p \in Nat
  OBVIOUS
<1>2. p \in Nat /\ 2 * N + 1 - p \in Nat
  BY <1>1
<1>3. \A a, b \in Nat : a * b \in Nat
  OBVIOUS
<1> QED
  BY <1>2, <1>3 DEF Rounds

LEMMA MissesType ==
  ASSUME NEW c \in 0 .. N, NEW left \in 0 .. Threshold - 1
  PROVE  Misses(c, left) \in Nat /\ Misses(c, left) <= N * (Threshold - 1)
<1>1. N \in Nat /\ Threshold - 1 \in Nat
  BY BreakerConstants
<1>2. \A a, b \in Nat : a * b \in Nat
  OBVIOUS
<1>3. \A t \in Nat : c < N => c * t + t <= N * t
  <2> SUFFICES ASSUME NEW t \in Nat, c < N PROVE c * t + t <= N * t
    OBVIOUS
  <2>1. (N - c - 1) \in Nat /\ c \in Nat
    BY <1>1
  <2>2. (N - c - 1) * t \in Nat /\ c * t \in Nat
    BY <1>2, <2>1
  <2>3. \A n, d \in Nat : n * t = (n - d - 1) * t + d * t + t
    OBVIOUS
  <2>4. N * t = (N - c - 1) * t + c * t + t
    BY <1>1, <2>1, <2>3
  <2> QED
    BY <2>2, <2>4
<1>4. c \in Nat /\ left \in Nat /\ left <= Threshold - 1
  BY <1>1
<1>5. c * (Threshold - 1) \in Nat /\ N * (Threshold - 1) \in Nat
  BY <1>1, <1>2, <1>4
<1>6. c < N => c * (Threshold - 1) + (Threshold - 1) <= N * (Threshold - 1)
  BY <1>1, <1>3
<1>7. c # N => c < N
  BY <1>1
<1> DEFINE a == c * (Threshold - 1)
           b == N * (Threshold - 1)
           t == Threshold - 1
<1> HIDE DEF a, b, t
<1>8. a \in Nat /\ b \in Nat /\ t \in Nat /\ left <= t /\ (c < N => a + t <= b)
  BY <1>1, <1>4, <1>5, <1>6 DEF a, b, t
<1>9. c # N => a + left \in Nat /\ a + left <= b
  BY <1>4, <1>7, <1>8
<1> QED
  BY <1>8, <1>9 DEF Misses, a, b, t

-------------------------------------------------------------------------------
(* How many searches are where.                                            *)
LEMMA AtAnyFinite ==
  ASSUME NEW steps
  PROVE  /\ IsFiniteSet(AtAny(steps)) /\ Cardinality(AtAny(steps)) \in 0 .. N
<1>1. AtAny(steps) \in SUBSET Searches
  BY DEF AtAny
<1> QED
  BY <1>1, BreakerConstants, FS_Subset, FS_CardinalityType DEF N

LEMMA AtAnyDisjoint ==
  ASSUME NEW a, NEW b, a \cap b = {}
  PROVE  Cardinality(AtAny(a)) + Cardinality(AtAny(b)) <= N
<1>1. AtAny(a) \cap AtAny(b) = {} /\ AtAny(a) \cup AtAny(b) \in SUBSET Searches
  BY DEF AtAny
<1>2. Cardinality(AtAny(a) \cup AtAny(b))
        = Cardinality(AtAny(a)) + Cardinality(AtAny(b)) - Cardinality(AtAny(a) \cap AtAny(b))
  BY AtAnyFinite, FS_Union
<1>3. Cardinality(AtAny(a) \cup AtAny(b)) <= N
  BY <1>1, BreakerConstants, FS_Subset DEF N
<1>4. Cardinality(AtAny(a) \cap AtAny(b)) = 0
  BY <1>1, FS_EmptySet
<1>5. Cardinality(AtAny(a)) \in 0 .. N /\ Cardinality(AtAny(b)) \in 0 .. N
  BY AtAnyFinite
<1> QED
  BY <1>2, <1>3, <1>4, <1>5, BreakerConstants

LEMMA AtAnyMoves ==
  ASSUME BreakerTypes, NEW x \in Searches, NEW at, Breaker!Goes(x, at), NEW steps
  PROVE  Cardinality(AtAny(steps)') =
           CASE at \in steps /\ search[x] \notin steps -> Cardinality(AtAny(steps)) + 1
             [] at \notin steps /\ search[x] \in steps -> Cardinality(AtAny(steps)) - 1
             [] OTHER -> Cardinality(AtAny(steps))
<1>1. AtAny(steps)' = IF at \in steps THEN AtAny(steps) \cup {x} ELSE AtAny(steps) \ {x}
  BY DEF AtAny, BreakerTypes, Breaker!Goes
<1>2. x \in AtAny(steps) <=> search[x] \in steps
  BY DEF AtAny
<1>3. IsFiniteSet(AtAny(steps))
  BY AtAnyFinite
<1>4. /\ Cardinality(AtAny(steps) \cup {x}) =
           IF x \in AtAny(steps) THEN Cardinality(AtAny(steps)) ELSE Cardinality(AtAny(steps)) + 1
      /\ Cardinality(AtAny(steps) \ {x}) =
           IF x \in AtAny(steps) THEN Cardinality(AtAny(steps)) - 1 ELSE Cardinality(AtAny(steps))
  BY <1>3, FS_AddElement, FS_RemoveElement
<1> QED
  BY <1>1, <1>2, <1>4
-------------------------------------------------------------------------------
(* No step takes from what is left more than it adds to the searches sent. *)
LEMMA BudgetKept ==
  ASSUME NEW a \in Nat, NEW b \in Nat, NEW p \in 0 .. N, NEW q \in 0 .. N,
         InBudget(a, p), 2 * b + Rounds(q) <= 2 * a + Rounds(p)
  PROVE  InBudget(b, q)
<1> DEFINE k == 2 * (N * Threshold) + N * (N - 1)
           r == Rounds(p)
           t == Rounds(q)
<1>1. k \in Int /\ r \in Nat /\ t \in Nat
  <2>1. N * Threshold \in Int /\ N * (N - 1) \in Int
    BY BreakerConstants
  <2> QED
    BY <2>1, RoundsType
<1>2. 2 * a + r <= k /\ 2 * b + t <= 2 * a + r
  BY DEF InBudget
<1> HIDE DEF k, r, t
<1>3. 2 * b + t <= k
  BY <1>1, <1>2
<1> QED
  BY <1>3 DEF InBudget, k, t

Waiting == Cardinality(AtAny({"idle"}))
Pending == Cardinality(AtAny({"reset", "clear", "close"}))
ToClear == Cardinality(AtAny({"clear"}))

LEMMA Counts ==
  /\ Waiting \in 0 .. N /\ Pending \in 0 .. N /\ ToClear \in 0 .. N
  /\ Waiting + Pending <= N
  /\ Cardinality(Ready) = IF openSince = "closed" THEN Waiting ELSE 0
  /\ Cardinality(Closers) = IF Stale THEN N ELSE Pending
  /\ Cardinality(Clearing) = ToClear
<1>1. Waiting \in 0 .. N /\ Pending \in 0 .. N /\ ToClear \in 0 .. N
  BY AtAnyFinite DEF Waiting, Pending, ToClear
<1>2. Waiting + Pending <= N
  BY AtAnyDisjoint DEF Waiting, Pending
<1>3. Cardinality({}) = 0
  BY FS_EmptySet
<1> QED
  BY <1>1, <1>2, <1>3 DEF Ready, Closers, Clearing, Waiting, Pending, ToClear, N

LEMMA LeftType ==
  ASSUME BreakerTypes
  PROVE  Left \in 0 .. Threshold - 1
BY BreakerConstants DEF BreakerTypes, Left

NumberTypes ==
    /\ Cardinality(Ready) \in 0 .. N /\ Cardinality(Closers) \in 0 .. N
    /\ Misses(ToClear, Left) \in Nat /\ Misses(ToClear, Left) <= N * (Threshold - 1)
    /\ Cardinality(Clearing) = ToClear /\ N \in Nat

LEMMA NumbersAre == BreakerTypes => NumberTypes
<1> SUFFICES ASSUME BreakerTypes PROVE NumberTypes
  OBVIOUS
<1>1. Misses(ToClear, Left) \in Nat /\ Misses(ToClear, Left) <= N * (Threshold - 1)
  BY Counts, LeftType, MissesType
<1>2. N \in Nat
  BY BreakerConstants
<1> QED
  BY <1>1, <1>2, Counts DEF NumberTypes

LEMMA NumbersWillBe == BreakerTypes' => NumberTypes'
BY NumbersAre, PTL

(* A search that moves from one place to another, as the counts see it.    *)
Gain(steps, from, to) ==
    CASE to \in steps /\ from \notin steps -> 1
      [] to \notin steps /\ from \in steps -> -1
      [] OTHER -> 0

LEMMA CountsMove ==
  ASSUME BreakerTypes, NEW x \in Searches, NEW at, Breaker!Goes(x, at)
  PROVE  /\ Waiting' = Waiting + Gain({"idle"}, search[x], at)
         /\ Pending' = Pending + Gain({"reset", "clear", "close"}, search[x], at)
         /\ ToClear' = ToClear + Gain({"clear"}, search[x], at)
<1>1. ASSUME NEW steps
      PROVE  Cardinality(AtAny(steps)') = Cardinality(AtAny(steps)) + Gain(steps, search[x], at)
  <2>1. Cardinality(AtAny(steps)') =
           CASE at \in steps /\ search[x] \notin steps -> Cardinality(AtAny(steps)) + 1
             [] at \notin steps /\ search[x] \in steps -> Cardinality(AtAny(steps)) - 1
             [] OTHER -> Cardinality(AtAny(steps))
    BY AtAnyMoves
  <2>2. Cardinality(AtAny(steps)) \in Int
    BY AtAnyFinite, BreakerConstants
  <2> QED
    BY <2>1, <2>2 DEF Gain
<1>2. /\ Waiting' = Cardinality(AtAny({"idle"})')
      /\ Pending' = Cardinality(AtAny({"reset", "clear", "close"})')
      /\ ToClear' = Cardinality(AtAny({"clear"})')
  BY DEF Waiting, Pending, ToClear
<1> QED
  BY <1>1, <1>2 DEF Waiting, Pending, ToClear

(* What a step must not do.                                                *)
LEMMA ProbesLeftKept ==
  ASSUME BreakerInv, BreakerTypes',
         NEW sent \in {0, 1}, probes # Breaker!Unknown => probes' = probes + sent,
         probes = Breaker!Unknown => probes' = Breaker!Unknown,
         2 * (sent + Cardinality(Ready)' + Misses(ToClear, Left)') + Rounds(Cardinality(Closers)')
           <= 2 * (Cardinality(Ready) + Misses(ToClear, Left)) + Rounds(Cardinality(Closers))
  PROVE  ProbesLeft'
<1> SUFFICES ASSUME probes' # Breaker!Unknown, probes # Breaker!Unknown
             PROVE  InBudget(probes' + Cardinality(Ready)' + Misses(ToClear, Left)',
                             Cardinality(Closers)')
  <2>1. Breaker!Unknown' = Breaker!Unknown
    BY DEF Breaker!Unknown
  <2>2. Cardinality(Clearing)' = ToClear'
    BY Counts DEF ToClear, Clearing
  <2> QED
    BY <2>1, <2>2 DEF ProbesLeft, Misses, Left, InBudget
<1> DEFINE r == Cardinality(Ready)  rr == Cardinality(Ready)'
           m == Misses(ToClear, Left)  mm == Misses(ToClear, Left)'
           p == Cardinality(Closers)  q == Cardinality(Closers)'
<1>1. r \in 0 .. N /\ p \in 0 .. N /\ m \in Nat /\ N \in Nat
  BY NumbersAre DEF BreakerInv, NumberTypes
<1>2. rr \in 0 .. N /\ q \in 0 .. N /\ mm \in Nat
  BY NumbersWillBe DEF NumberTypes, N, Misses, Left
<1>3. InBudget(probes + r + m, p)
  BY Counts DEF BreakerInv, ProbesLeft
<1>4. probes \in Nat /\ probes' \in Nat /\ probes' = probes + sent
  BY DEF BreakerInv, BreakerTypes
<1>5. Rounds(p) \in Nat /\ Rounds(q) \in Nat
  BY <1>1, <1>2, RoundsType
<1>6. 2 * (sent + rr + mm) + Rounds(q) <= 2 * (r + m) + Rounds(p)
  OBVIOUS
<1> HIDE DEF r, rr, m, mm, p, q
<1>7. 2 * (probes' + rr + mm) + Rounds(q) <= 2 * (probes + r + m) + Rounds(p)
  BY <1>1, <1>2, <1>4, <1>5, <1>6
<1>8. probes + r + m \in Nat /\ probes' + rr + mm \in Nat
  BY <1>1, <1>2, <1>4
<1>9. InBudget(probes' + rr + mm, q)
  BY <1>1, <1>2, <1>3, <1>7, <1>8, BudgetKept
<1> QED
  BY <1>9 DEF r, rr, m, mm, p, q

LEMMA ProbesLeftSameClosers ==
  ASSUME BreakerInv, BreakerTypes',
         NEW sent \in {0, 1}, probes # Breaker!Unknown => probes' = probes + sent,
         probes = Breaker!Unknown => probes' = Breaker!Unknown,
         Cardinality(Closers)' = Cardinality(Closers),
         sent + Cardinality(Ready)' + Misses(ToClear, Left)' <= Cardinality(Ready) + Misses(ToClear, Left)
  PROVE  ProbesLeft'
<1> DEFINE r == Cardinality(Ready)  rr == Cardinality(Ready)'
           m == Misses(ToClear, Left)  mm == Misses(ToClear, Left)'
           p == Cardinality(Closers)  q == Cardinality(Closers)'
<1>1. r \in 0 .. N /\ p \in 0 .. N /\ m \in Nat /\ N \in Nat
  BY NumbersAre DEF BreakerInv, NumberTypes
<1>2. rr \in 0 .. N /\ q \in 0 .. N /\ mm \in Nat
  BY NumbersWillBe DEF NumberTypes, N, Misses, Left
<1>3. Rounds(p) \in Nat /\ Rounds(q) = Rounds(p)
  BY <1>1, RoundsType
<1>4. sent + rr + mm <= r + m
  OBVIOUS
<1> HIDE DEF r, rr, m, mm, p, q
<1>5. 2 * (sent + rr + mm) + Rounds(q) <= 2 * (r + m) + Rounds(p)
  BY <1>1, <1>2, <1>3, <1>4
<1> QED
  BY <1>5, ProbesLeftKept DEF r, rr, m, mm, p, q

CountsAre ==
  /\ Waiting \in 0 .. N /\ Pending \in 0 .. N /\ ToClear \in 0 .. N
  /\ Waiting + Pending <= N
  /\ Cardinality(Ready) = IF openSince = "closed" THEN Waiting ELSE 0
  /\ Cardinality(Closers) = IF Stale THEN N ELSE Pending

LEMMA CountsNow == CountsAre
BY Counts DEF CountsAre

LEMMA CountsThen == CountsAre'
BY CountsNow, PTL

(* What a search does to the counts by moving.                             *)
LEMMA Moved ==
  ASSUME BreakerInv, NEW x \in Searches, NEW at, Breaker!Goes(x, at)
  PROVE  /\ Waiting' = Waiting + Gain({"idle"}, search[x], at)
         /\ Pending' = Pending + Gain({"reset", "clear", "close"}, search[x], at)
         /\ ToClear' = ToClear + Gain({"clear"}, search[x], at)
         /\ Waiting \in Nat /\ Pending \in Nat /\ ToClear \in Nat /\ N \in Nat
         /\ Waiting <= N /\ Pending <= N /\ ToClear <= N /\ Waiting + Pending <= N
         /\ Cardinality(Ready) = IF openSince = "closed" THEN Waiting ELSE 0
         /\ Cardinality(Closers) = IF openSince = "stale" THEN N ELSE Pending
         /\ Cardinality(Ready)' = IF openSince' = "closed" THEN Waiting' ELSE 0
         /\ Cardinality(Closers)' = IF openSince' = "stale" THEN N ELSE Pending'
<1>1. N \in Nat
  BY BreakerConstants
<1>2. N' = N
  BY DEF N
<1> QED
  BY <1>1, <1>2, CountsMove, CountsNow, CountsThen DEF BreakerInv, CountsAre, Stale

LEMMA LoadKeeps ==
  ASSUME BreakerInv, BreakerTypes', NEW x \in Searches, Breaker!Load(x)
  PROVE  ProbesLeft'
<1>1. Misses(ToClear, Left) \in Nat
  BY NumbersAre DEF BreakerInv, NumberTypes
<1>2. CASE openSince = "closed" /\ Breaker!Sends(x)
  <2>1. /\ Breaker!Goes(x, "sent") /\ search[x] = "idle"
        /\ openSince' = "closed" /\ failures' = failures
        /\ probes' = IF probes = Breaker!Unknown THEN Breaker!Unknown ELSE probes + 1
    BY <1>2 DEF Breaker!Load, Breaker!Sends
  <2>2. /\ Cardinality(Closers)' = Cardinality(Closers) /\ ToClear' = ToClear
        /\ Cardinality(Ready)' = Cardinality(Ready) - 1 /\ Cardinality(Ready) \in Nat
    BY <1>2, <2>1, Moved DEF Gain
  <2>3. Misses(ToClear, Left)' = Misses(ToClear, Left)
    BY <2>1, <2>2 DEF Misses, Left, N
  <2> DEFINE r == Cardinality(Ready)  rr == Cardinality(Ready)'
             m == Misses(ToClear, Left)  mm == Misses(ToClear, Left)'
  <2>4. 1 + rr + mm <= r + m
    <3>1. r \in Nat /\ rr = r - 1 /\ m \in Nat /\ mm = m
      BY <1>1, <2>2, <2>3
    <3> HIDE DEF r, rr, m, mm
    <3> QED
      BY <3>1
  <2> QED
    BY <2>1, <2>2, <2>4, ProbesLeftSameClosers
<1>3. CASE openSince = "stale" /\ Breaker!Goes(x, "reset") /\ UNCHANGED probes
  <2>1. /\ Breaker!Goes(x, "reset") /\ search[x] = "idle"
        /\ openSince' = "stale" /\ failures' = failures /\ probes' = probes
    BY <1>3 DEF Breaker!Load
  <2>2. /\ Cardinality(Closers)' = Cardinality(Closers) /\ ToClear' = ToClear
        /\ Cardinality(Ready)' = 0 /\ Cardinality(Ready) = 0
    BY <1>3, <2>1, Moved DEF Gain
  <2>3. Misses(ToClear, Left)' = Misses(ToClear, Left)
    BY <2>1, <2>2 DEF Misses, Left, N
  <2>4. probes \in Nat
    BY DEF BreakerInv, BreakerTypes
  <2>5. 0 + Cardinality(Ready)' + Misses(ToClear, Left)' <= Cardinality(Ready) + Misses(ToClear, Left)
    BY <1>1, <2>2, <2>3
  <2> QED
    BY <2>1, <2>2, <2>4, <2>5, ProbesLeftSameClosers
<1> QED
  BY <1>2, <1>3 DEF Breaker!Load

(* What a success gives back to the count of failures was set aside for it *)
(* when it was answered.                                                   *)
LEMMA ClearFailuresKeeps ==
  ASSUME BreakerInv, BreakerTypes', NEW x \in Searches, Breaker!ClearFailures(x)
  PROVE  ProbesLeft'
<1>1. /\ Breaker!Goes(x, "close") /\ search[x] = "clear"
      /\ openSince' = openSince /\ failures' = 0 /\ probes' = probes
  BY DEF Breaker!ClearFailures
<1>2. /\ Cardinality(Closers)' = Cardinality(Closers) /\ ToClear' = ToClear - 1
      /\ ToClear \in 0 .. N /\ ToClear' \in Nat /\ N \in Nat
      /\ Cardinality(Ready)' = Cardinality(Ready) /\ Cardinality(Ready) \in Nat
  BY <1>1, Moved, CountsThen DEF Gain, CountsAre
<1> DEFINE t == Threshold - 1
           c == ToClear
<1>3. t \in Nat /\ Left' = t /\ Left \in Nat
  BY <1>1, BreakerConstants, LeftType DEF Left, BreakerInv
<1>4. (c - 1) * t + t = c * t
  <2>1. \A a, b \in Int : (a - 1) * b + b = a * b
    OBVIOUS
  <2> QED
    BY <1>2, <1>3, <2>1
<1>5. Misses(ToClear, Left)' = (c - 1) * t + t
  <2>1. c - 1 # N /\ N' = N
    BY <1>2 DEF N
  <2>2. Misses(ToClear, Left)' = (ToClear') * (Threshold - 1) + Left'
    BY <1>2, <2>1 DEF Misses
  <2> QED
    BY <1>2, <1>3, <2>2
<1>6. c * t <= Misses(ToClear, Left) /\ c * t \in Nat
  <2>1. \A a, b \in Nat : a * b \in Nat
    OBVIOUS
  <2>2. c * t \in Nat
    BY <1>2, <1>3, <2>1
  <2>3. Misses(ToClear, Left) = IF c = N THEN c * t ELSE c * t + Left
    BY DEF Misses
  <2> DEFINE k == c * t
  <2> HIDE DEF k
  <2>4. k \in Nat /\ Misses(ToClear, Left) = IF c = N THEN k ELSE k + Left
    BY <2>2, <2>3 DEF k
  <2>5. k <= Misses(ToClear, Left)
    BY <1>3, <2>4
  <2> QED
    BY <2>4, <2>5 DEF k
<1>7. Misses(ToClear, Left) \in Nat /\ Misses(ToClear, Left)' \in Nat
  BY <1>4, <1>5, <1>6, NumbersAre DEF BreakerInv, NumberTypes
<1>8. Misses(ToClear, Left)' <= Misses(ToClear, Left)
  BY <1>4, <1>5, <1>6
<1>9. 0 + Cardinality(Ready)' + Misses(ToClear, Left)' <= Cardinality(Ready) + Misses(ToClear, Left)
  BY <1>2, <1>7, <1>8
<1>10. probes \in Nat
  BY DEF BreakerInv, BreakerTypes
<1> QED
  BY <1>1, <1>2, <1>9, <1>10, ProbesLeftSameClosers

(* A failure that does not trip uses up one of those that are left.        *)
LEMMA CountFailureKeeps ==
  ASSUME BreakerInv, BreakerTypes', NEW x \in Searches, Breaker!CountFailure(x)
  PROVE  ProbesLeft'
<1>1. /\ Breaker!Goes(x, IF Breaker!Trips THEN "trip" ELSE "idle") /\ search[x] = "sent"
      /\ openSince' = openSince /\ probes' = probes
      /\ failures' = IF failures < Threshold THEN failures + 1 ELSE failures
  BY DEF Breaker!CountFailure
<1>2. failures \in 0 .. Threshold /\ Threshold \in Nat \ {0} /\ probes \in Nat
  BY BreakerConstants DEF BreakerInv, BreakerTypes
<1>3. Misses(ToClear, Left) \in Nat
  BY NumbersAre DEF BreakerInv, NumberTypes
<1>4. CASE failures + 1 >= Threshold
  <2>1. Breaker!Goes(x, "trip")
    BY <1>1, <1>4 DEF Breaker!Trips
  <2>2. /\ Cardinality(Closers)' = Cardinality(Closers) /\ ToClear' = ToClear
        /\ Cardinality(Ready)' = Cardinality(Ready) /\ Cardinality(Ready) \in Nat
    BY <1>1, <2>1, Moved DEF Gain
  <2>3. Left' = 0 /\ Left = 0
    BY <1>1, <1>2, <1>4 DEF Left
  <2>4. Misses(ToClear, Left)' = Misses(ToClear, Left)
    BY <2>2, <2>3 DEF Misses, N
  <2>5. 0 + Cardinality(Ready)' + Misses(ToClear, Left)' <= Cardinality(Ready) + Misses(ToClear, Left)
    BY <1>3, <2>2, <2>4
  <2> QED
    BY <1>1, <1>2, <2>2, <2>5, ProbesLeftSameClosers
<1>5. CASE ~ (failures + 1 >= Threshold)
  <2>1. Breaker!Goes(x, "idle")
    BY <1>1, <1>5 DEF Breaker!Trips
  <2>2. /\ Cardinality(Closers)' = Cardinality(Closers) /\ ToClear' = ToClear
        /\ Cardinality(Ready)' \in {Cardinality(Ready), Cardinality(Ready) + 1}
        /\ Cardinality(Ready) \in Nat
    BY <1>1, <2>1, Moved DEF Gain
  <2>3. Left' = Left - 1 /\ Left \in Nat /\ Left' \in Nat
    BY <1>1, <1>2, <1>5 DEF Left
  <2>4. ToClear # N
    <3>1. Cardinality(AtAny({"clear"})) + Cardinality(AtAny({"sent"})) <= N
      BY AtAnyDisjoint
    <3>2. AtAny({"sent"}) # {}
      BY <1>1 DEF AtAny
    <3>3. Cardinality(AtAny({"sent"})) # 0 /\ Cardinality(AtAny({"sent"})) \in 0 .. N
          /\ ToClear \in 0 .. N /\ N \in Nat
      BY <3>2, AtAnyFinite, FS_EmptySet, BreakerConstants DEF ToClear
    <3> QED
      BY <3>1, <3>3 DEF ToClear
  <2> DEFINE k == ToClear * (Threshold - 1)
  <2>5. k \in Nat
    <3>1. \A a, b \in Nat : a * b \in Nat
      OBVIOUS
    <3>2. ToClear \in Nat /\ Threshold - 1 \in Nat
      BY <1>2, CountsNow, BreakerConstants DEF CountsAre
    <3> QED
      BY <3>1, <3>2
  <2>6. Misses(ToClear, Left) = k + Left /\ Misses(ToClear, Left)' = k + Left'
    BY <2>2, <2>4 DEF Misses, N
  <2> HIDE DEF k
  <2>7. 0 + Cardinality(Ready)' + Misses(ToClear, Left)' <= Cardinality(Ready) + Misses(ToClear, Left)
    BY <2>2, <2>3, <2>5, <2>6
  <2> QED
    BY <1>1, <1>2, <2>2, <2>7, ProbesLeftSameClosers
<1> QED
  BY <1>4, <1>5

LEMMA TripKeeps ==
  ASSUME BreakerInv, BreakerTypes', NEW x \in Searches, Breaker!Trip(x)
  PROVE  ProbesLeft'
<1>1. /\ Breaker!Goes(x, "idle") /\ search[x] = "trip"
      /\ openSince' = (IF openSince = "closed" THEN "fresh" ELSE openSince)
      /\ failures' = failures /\ probes' = probes
  BY DEF Breaker!Trip
<1>2. /\ Cardinality(Closers)' = Cardinality(Closers) /\ ToClear' = ToClear
      /\ Cardinality(Ready)' = 0 /\ Cardinality(Ready) \in Nat
  BY <1>1, Moved DEF Gain
<1>3. Misses(ToClear, Left) \in Nat
  BY NumbersAre DEF BreakerInv, NumberTypes
<1>4. Misses(ToClear, Left)' = Misses(ToClear, Left)
  BY <1>1, <1>2 DEF Misses, Left, N
<1>5. 0 + Cardinality(Ready)' + Misses(ToClear, Left)' <= Cardinality(Ready) + Misses(ToClear, Left)
  BY <1>2, <1>3, <1>4
<1>6. probes \in Nat
  BY DEF BreakerInv, BreakerTypes
<1> QED
  BY <1>1, <1>2, <1>5, <1>6, ProbesLeftSameClosers

(* The two steps that close the breaker: the one search that made it goes  *)
(* on to send, or is ready to; the others that are idle become ready.      *)
LEMMA ClosingKeeps ==
  ASSUME BreakerInv, BreakerTypes', NEW x \in Searches, NEW at, NEW sent \in {0, 1},
         \/ search[x] = "reset" /\ at = "sent" /\ sent = 1
         \/ search[x] = "close" /\ at = "idle" /\ sent = 0,
         Breaker!Goes(x, at), openSince' = "closed", failures' = failures,
         probes # Breaker!Unknown => probes' = probes + sent,
         probes = Breaker!Unknown => probes' = Breaker!Unknown
  PROVE  ProbesLeft'
<1> DEFINE r == Cardinality(Ready)  rr == Cardinality(Ready)'
           m == Misses(ToClear, Left)  mm == Misses(ToClear, Left)'
           p == Cardinality(Closers)  q == Cardinality(Closers)'
           w == Waiting  b == Pending
<1>1. /\ w \in Nat /\ b \in Nat /\ N \in Nat /\ w + b <= N /\ w <= N /\ b <= N
      /\ ToClear' = ToClear /\ Waiting' = w + (1 - sent) /\ Pending' = b - 1
      /\ r = (IF openSince = "closed" THEN w ELSE 0)
      /\ p = (IF openSince = "stale" THEN N ELSE b)
      /\ rr = Waiting' /\ q = Pending'
  BY Moved DEF Gain
<1>2. q \in Nat
  BY CountsThen, <1>1, BreakerConstants DEF CountsAre
<1>3. m \in Nat
  BY NumbersAre DEF BreakerInv, NumberTypes
<1>4. mm = m
  BY <1>1 DEF Misses, Left, N
<1> HIDE DEF r, rr, m, mm, p, q, w, b
<1>5. b # 0 /\ q = b - 1 /\ q < N /\ sent + rr = w + 1 /\ sent + rr <= N - q /\ rr \in Nat
  BY <1>1, <1>2
<1>6. Rounds(p) \in Nat /\ Rounds(q) \in Nat /\ p \in 0 .. N /\ q \in 0 .. N
  <2>1. p \in 0 .. N /\ q \in 0 .. N
    BY <1>1, <1>5
  <2> QED
    BY <2>1, RoundsType
<1>7. CASE p = N
  <2>1. Rounds(q) + 2 * (N - q) <= Rounds(N)
    BY <1>2, <1>5, RoundsAll
  <2>2. r \in Nat
    BY <1>1
  <2>3. 2 * (sent + rr + mm) + Rounds(q) <= 2 * (r + m) + Rounds(p)
    BY <1>1, <1>3, <1>4, <1>5, <1>6, <1>7, <2>1, <2>2
  <2> QED
    BY <2>3, ProbesLeftKept DEF r, rr, m, mm, p, q
<1>8. CASE p # N
  <2>1. p = b /\ Rounds(b - 1) + 2 * (N - (b - 1)) = Rounds(b) /\ r \in Nat
    BY <1>1, <1>5, <1>8, RoundsFewer
  <2>2. 2 * (sent + rr + mm) + Rounds(q) <= 2 * (r + m) + Rounds(p)
    BY <1>1, <1>3, <1>4, <1>5, <1>6, <2>1
  <2> QED
    BY <2>2, ProbesLeftKept DEF r, rr, m, mm, p, q
<1> QED
  BY <1>7, <1>8

(* An opening that has become stale: all is as at the start.               *)
LEMMA ExpireKeeps ==
  ASSUME BreakerInv, BreakerTypes', Breaker!Expire
  PROVE  ProbesLeft'
<1> SUFFICES InBudget(probes' + Cardinality(Ready)' + Misses(Cardinality(Clearing), Left)',
                      Cardinality(Closers)')
  BY DEF ProbesLeft, InBudget, Rounds, N, Misses, Left
<1>1. /\ Cardinality(Ready)' = 0 /\ Cardinality(Closers)' = N
      /\ probes' = 0 /\ failures' = failures /\ search' = search
  BY CountsThen DEF CountsAre, Breaker!Expire, Stale, N
<1>2. Misses(Cardinality(Clearing), Left)' = Misses(ToClear, Left)
  BY <1>1 DEF Misses, Clearing, ToClear, AtAny, Left, N
<1> DEFINE m == Misses(ToClear, Left)
           k == N * (Threshold - 1)
<1>3. m \in Nat /\ m <= k /\ N \in Nat /\ Threshold \in Nat
  BY NumbersAre, BreakerConstants DEF BreakerInv, NumberTypes
<1>4. 2 * k + N * (2 * N + 1 - N) = 2 * (N * Threshold) + N * (N - 1)
  <2>1. \A n, t \in Int : 2 * (n * (t - 1)) + n * (2 * n + 1 - n) = 2 * (n * t) + n * (n - 1)
    OBVIOUS
  <2> QED
    BY <1>3, <2>1
<1>5. k \in Int /\ N * (2 * N + 1 - N) \in Int
  BY <1>3
<1> HIDE DEF m, k
<1>6. 2 * m + N * (2 * N + 1 - N) <= 2 * (N * Threshold) + N * (N - 1)
  BY <1>3, <1>4, <1>5
<1>7. 0 + 0 + m = m
  BY <1>3
<1>8. InBudget(m, N)
  BY <1>6 DEF InBudget, Rounds
<1> QED
  BY <1>1, <1>2, <1>7, <1>8 DEF m

LEMMA BreakerTypesKept ==
  ASSUME BreakerTypes, [Breaker!BreakerNext]_breakerVars
  PROVE  BreakerTypes'
<1>1. Threshold \in Nat \ {0} /\ N \in Nat
  BY BreakerConstants
<1>2. Breaker!Unknown \in Nat
  <2>1. \A a, b \in Nat : a * b * b + 1 \in Nat
    OBVIOUS
  <2> QED
    BY <1>1, <2>1, SameFiniteSets DEF Breaker!Unknown, N
<1>3. ASSUME NEW x \in Searches, NEW at \in Breaker!SearchAt, Breaker!Goes(x, at)
      PROVE  search' \in [Searches -> Breaker!SearchAt]
  BY <1>3 DEF BreakerTypes, Breaker!Goes
<1>4. ASSUME NEW x \in Searches, Breaker!Load(x) PROVE BreakerTypes'
  BY <1>2, <1>3, <1>4 DEF BreakerTypes, Breaker!Load, Breaker!Sends, Breaker!SearchAt
<1>5. ASSUME NEW x \in Searches, Breaker!SearchStep(x) PROVE BreakerTypes'
  BY <1>1, <1>2, <1>3, <1>5 DEF BreakerTypes, Breaker!SearchAt, Breaker!SearchStep,
     Breaker!Reset, Breaker!Sends, Breaker!Answered, Breaker!ClearFailures, Breaker!Close,
     Breaker!CountFailure, Breaker!Trip
<1>6. CASE Breaker!Expire \/ Breaker!EsChanges
  BY <1>6 DEF BreakerTypes, Breaker!Expire, Breaker!EsChanges
<1>7. CASE UNCHANGED breakerVars
  BY <1>7 DEF BreakerTypes, breakerVars
<1> QED
  BY <1>4, <1>5, <1>6, <1>7 DEF Breaker!BreakerNext

LEMMA BreakerInvInductive == BreakerInv /\ [Breaker!BreakerNext]_breakerVars => BreakerInv'
<1> SUFFICES ASSUME BreakerInv, [Breaker!BreakerNext]_breakerVars PROVE ProbesLeft'
  BY BreakerTypesKept DEF BreakerInv
<1>1. BreakerTypes' /\ probes \in Nat
  BY BreakerTypesKept DEF BreakerInv, BreakerTypes
<1>2. ASSUME NEW x \in Searches, Breaker!Load(x) PROVE ProbesLeft'
  BY <1>1, <1>2, LoadKeeps
<1>3. ASSUME NEW x \in Searches, Breaker!SearchStep(x) PROVE ProbesLeft'
  <2>1. CASE Breaker!Reset(x)
    <3>1. /\ search[x] = "reset" /\ Breaker!Goes(x, "sent")
          /\ openSince' = "closed" /\ failures' = failures
          /\ probes' = IF probes = Breaker!Unknown THEN Breaker!Unknown ELSE probes + 1
      BY <2>1 DEF Breaker!Reset, Breaker!Sends
    <3> QED
      BY <1>1, <3>1, ClosingKeeps
  <2>2. CASE Breaker!Answered(x)
    <3>1. probes' = Breaker!Unknown'
      BY <2>2 DEF Breaker!Answered, Breaker!Unknown
    <3> QED
      BY <3>1 DEF ProbesLeft
  <2>3. CASE Breaker!Close(x)
    <3>1. /\ search[x] = "close" /\ Breaker!Goes(x, "idle")
          /\ openSince' = "closed" /\ failures' = failures /\ probes' = probes
      BY <2>3 DEF Breaker!Close
    <3> QED
      BY <1>1, <3>1, ClosingKeeps
  <2> QED
    BY <1>1, <1>3, <2>1, <2>2, <2>3, ClearFailuresKeeps, CountFailureKeeps, TripKeeps
       DEF Breaker!SearchStep
<1>4. CASE Breaker!Expire
  BY <1>1, <1>4, ExpireKeeps
<1>5. CASE Breaker!EsChanges \/ UNCHANGED breakerVars
  BY <1>5 DEF Breaker!EsChanges, breakerVars, BreakerInv, ProbesLeft, InBudget, Rounds, N,
     Misses, Left, Ready, Closers, Clearing, AtAny, Stale, Breaker!Unknown
<1> QED
  BY <1>2, <1>3, <1>4, <1>5 DEF Breaker!BreakerNext

LEMMA BreakerInitInv == Breaker!BreakerInit => BreakerInv
<1> SUFFICES ASSUME Breaker!BreakerInit PROVE BreakerInv
  OBVIOUS
<1>1. Breaker!Unknown \in Nat /\ 0 \in 0 .. Threshold
  <2>1. \A a, b \in Nat : a * b * b + 1 \in Nat
    OBVIOUS
  <2> QED
    BY <2>1, BreakerConstants, SameFiniteSets DEF Breaker!Unknown, N
<1> QED
  BY <1>1 DEF Breaker!BreakerInit, BreakerInv, BreakerTypes, ProbesLeft, Breaker!SearchAt

LEMMA BreakerInvFewProbes == BreakerInv => FewProbes
<1> SUFFICES ASSUME BreakerInv, probes # Breaker!Unknown
             PROVE  probes <= Breaker!MostProbes
  BY DEF FewProbes, Breaker!FewProbes
<1> DEFINE r == Cardinality(Ready)
           m == Misses(Cardinality(Clearing), Left)
           c == Rounds(Cardinality(Closers))
<1>1. r \in Nat /\ m \in Nat /\ c \in Nat /\ probes \in Nat /\ N \in Nat /\ Threshold \in Nat
  BY NumbersAre, RoundsType, BreakerConstants DEF BreakerInv, NumberTypes, BreakerTypes
<1>2. 2 * (probes + r + m) + c <= 2 * (N * Threshold) + N * (N - 1)
  BY DEF BreakerInv, ProbesLeft, InBudget
<1> DEFINE k == N * Threshold
           j == N * (N - 1)
<1>3. k \in Nat /\ j \in Int
  <2>1. \A a, b \in Nat : a * b \in Nat
    OBVIOUS
  <2> QED
    BY <1>1, <2>1
<1>4. Breaker!MostProbes = k + j \div 2
  BY SameFiniteSets DEF Breaker!MostProbes, N
<1>5. 2 * (probes + r + m) + c <= 2 * k + j
  BY <1>2
<1> HIDE DEF r, m, c, k, j
<1>6. 2 * probes <= 2 * k + j
  BY <1>1, <1>3, <1>5
<1>7. probes <= k + j \div 2
  BY <1>1, <1>3, <1>6
<1> QED
  BY <1>4, <1>7

(* Between two answers ElasticSearch is asked at most so often per opening *)
(* of the breaker, whatever the number of searches and the threshold, and  *)
(* however their loads and stores of the two atomics interleave.           *)
THEOREM BreakerFewProbes == Breaker!BreakerSpec => []FewProbes
<1>1. BreakerInv /\ [Breaker!BreakerNext]_(Breaker!breakerVars) => BreakerInv'
  BY BreakerInvInductive DEF Breaker!breakerVars, breakerVars
<1> QED
  BY <1>1, BreakerInitInv, BreakerInvFewProbes, PTL DEF Breaker!BreakerSpec
-------------------------------------------------------------------------------
(* Pages.  What Precedes orders.                                           *)
LEMMA PageConstants ==
  /\ Ids \subseteq Nat
  /\ MaxTime \in Nat /\ MaxLimit \in Nat \ {0}
  /\ LimitArgs \subseteq Nat \cup {Absent, Garbled}
  /\ NoCursor \notin Paging!Cursors /\ NoCursor # Garbled
BY ServerPages DEF Paging!PagesAssumption

LEMMA SameFiniteInPages ==
  ASSUME NEW S
  PROVE  Paging!Cardinality(S) = Cardinality(S)
BY Zenon DEF Cardinality, Paging!Cardinality

LEMMA RowNumbers ==
  ASSUME NEW k \in Paging!Row
  PROVE  k.rank \in 0 .. 1 /\ k.at \in Nat /\ k.id \in Nat
<1>1. k.rank \in 0 .. 1 /\ k.at \in 0 .. MaxTime /\ k.id \in Ids
  BY DEF Paging!Row
<1>2. k.id \in Nat
  BY <1>1, PageConstants
<1>3. k.at \in Nat
  BY <1>1, PageConstants
<1> QED
  BY <1>1, <1>2, <1>3

LEMMA PrecedesOrders ==
  ASSUME NEW list \in Paging!Lists, NEW k \in Paging!Row, NEW l \in Paging!Row
  PROVE  /\ ~ (Paging!Precedes(list, k, l) /\ Paging!Precedes(list, l, k))
         /\ k.id # l.id => Paging!Precedes(list, k, l) \/ Paging!Precedes(list, l, k)
<1>1. /\ k.rank \in Nat /\ k.at \in Nat /\ k.id \in Nat
      /\ l.rank \in Nat /\ l.at \in Nat /\ l.id \in Nat
  BY RowNumbers
<1>2. CASE list = "items"
  BY <1>1, <1>2 DEF Paging!Precedes, Paging!Earlier
<1>3. CASE list = "recent"
  BY <1>1, <1>3 DEF Paging!Precedes, Paging!Earlier
<1>4. CASE list = "ranked"
  BY <1>1, <1>4 DEF Paging!Precedes, Paging!Earlier
<1> QED
  BY <1>2, <1>3, <1>4 DEF Paging!Lists

LEMMA PrecedesTransitive ==
  ASSUME NEW list \in Paging!Lists,
         NEW k \in Paging!Row, NEW l \in Paging!Row, NEW m \in Paging!Row,
         Paging!Precedes(list, k, l), Paging!Precedes(list, l, m)
  PROVE  Paging!Precedes(list, k, m)
<1>1. /\ k.rank \in Nat /\ k.at \in Nat /\ k.id \in Nat
      /\ l.rank \in Nat /\ l.at \in Nat /\ l.id \in Nat
      /\ m.rank \in Nat /\ m.at \in Nat /\ m.id \in Nat
  BY RowNumbers
<1>2. CASE list = "items"
  BY <1>1, <1>2 DEF Paging!Precedes, Paging!Earlier
<1>3. CASE list = "recent"
  BY <1>1, <1>3 DEF Paging!Precedes, Paging!Earlier
<1>4. CASE list = "ranked"
  BY <1>1, <1>4 DEF Paging!Precedes, Paging!Earlier
<1> QED
  BY <1>2, <1>3, <1>4 DEF Paging!Lists

(* Rows with ids of their own.                                             *)
OneOfEach(S) ==
    /\ S \in SUBSET Paging!Row /\ IsFiniteSet(S)
    /\ \A k, l \in S : k.id = l.id => k = l

Sorted(list, s) ==
    \A i, j \in DOMAIN s : i < j => Paging!Precedes(list, s[i], s[j])

-------------------------------------------------------------------------------
(* The rows of a set in order: a row's place is how many precede it.       *)
Ahead(S, list, k) == {l \in S : Paging!Precedes(list, l, k)}
Place(S, list, k) == Cardinality(Ahead(S, list, k))

LEMMA PlaceGrows ==
  ASSUME NEW list \in Paging!Lists, NEW S, OneOfEach(S),
         NEW k \in S, NEW l \in S, Paging!Precedes(list, k, l)
  PROVE  Place(S, list, k) < Place(S, list, l)
<1>1. IsFiniteSet(S) /\ k \in Paging!Row /\ l \in Paging!Row /\ S \subseteq Paging!Row
  BY DEF OneOfEach
<1>2. Ahead(S, list, l) \subseteq S /\ Ahead(S, list, k) \subseteq S
  BY DEF Ahead
<1>3. IsFiniteSet(Ahead(S, list, l)) /\ IsFiniteSet(Ahead(S, list, k))
  BY <1>1, <1>2, FS_Subset
<1>4. k \in Ahead(S, list, l) /\ k \notin Ahead(S, list, k)
  BY <1>1, PrecedesOrders DEF Ahead
<1>5. Ahead(S, list, k) \subseteq Ahead(S, list, l)
  <2>1. ASSUME NEW m \in Ahead(S, list, k) PROVE m \in Ahead(S, list, l)
    <3>1. m \in S /\ m \in Paging!Row /\ Paging!Precedes(list, m, k)
      BY <1>1 DEF Ahead
    <3>2. Paging!Precedes(list, m, l)
      BY <1>1, <3>1, PrecedesTransitive
    <3> QED
      BY <3>1, <3>2 DEF Ahead
  <2> QED
    BY <2>1
<1>6. /\ Cardinality(Ahead(S, list, k)) <= Cardinality(Ahead(S, list, l))
      /\ Cardinality(Ahead(S, list, k)) # Cardinality(Ahead(S, list, l))
  BY <1>3, <1>4, <1>5, FS_Subset
<1>7. Cardinality(Ahead(S, list, k)) \in Nat /\ Cardinality(Ahead(S, list, l)) \in Nat
  BY <1>3, FS_CardinalityType
<1> QED
  BY <1>6, <1>7 DEF Place

LEMMA PlaceType ==
  ASSUME NEW list \in Paging!Lists, NEW S, OneOfEach(S), NEW k \in S
  PROVE  Place(S, list, k) \in 0 .. Cardinality(S) - 1 /\ Cardinality(S) \in Nat
<1>1. IsFiniteSet(S) /\ k \in Paging!Row
  BY DEF OneOfEach
<1>2. Ahead(S, list, k) \subseteq S /\ k \notin Ahead(S, list, k)
  BY <1>1, PrecedesOrders DEF Ahead
<1>3. Cardinality(Ahead(S, list, k)) <= Cardinality(S) /\ Cardinality(Ahead(S, list, k)) # Cardinality(S)
  BY <1>1, <1>2, FS_Subset
<1>4. IsFiniteSet(Ahead(S, list, k))
  BY <1>1, <1>2, FS_Subset
<1>5. Cardinality(Ahead(S, list, k)) \in Nat /\ Cardinality(S) \in Nat
  BY <1>1, <1>4, FS_CardinalityType
<1> QED
  BY <1>3, <1>5 DEF Place

(* No two rows have one place, so each place has a row.                    *)
LEMMA EachPlace ==
  ASSUME NEW list \in Paging!Lists, NEW S, OneOfEach(S),
         NEW i \in 0 .. Cardinality(S) - 1
  PROVE  \E k \in S : Place(S, list, k) = i
<1> DEFINE n == Cardinality(S)
           P == 0 .. n - 1
           f == [k \in S |-> Place(S, list, k)]
<1>1. IsFiniteSet(S) /\ n \in Nat
  BY FS_CardinalityType DEF OneOfEach
<1>2. f \in [S -> P]
  BY PlaceType
<1>3. \A k, l \in S : k # l => f[k] # f[l]
  <2> SUFFICES ASSUME NEW k \in S, NEW l \in S, k # l PROVE f[k] # f[l]
    OBVIOUS
  <2>1. k.id # l.id /\ k \in Paging!Row /\ l \in Paging!Row
    BY DEF OneOfEach
  <2>2. Paging!Precedes(list, k, l) \/ Paging!Precedes(list, l, k)
    BY <2>1, PrecedesOrders
  <2>3. Place(S, list, k) < Place(S, list, l) \/ Place(S, list, l) < Place(S, list, k)
    BY <2>2, PlaceGrows
  <2>4. Place(S, list, k) \in Nat /\ Place(S, list, l) \in Nat
    BY <1>1, PlaceType
  <2> QED
    BY <2>3, <2>4
<1>4. IsFiniteSet(P) /\ Cardinality(P) = n
  BY <1>1, FS_Interval
<1> HIDE DEF f
<1>5. f \in Injection(S, P)
  BY <1>2, <1>3 DEF Injection, IsInjective
<1>6. f \in Surjection(S, P)
  BY <1>1, <1>4, <1>5, FS_Injection
<1> QED
  BY <1>6 DEF Surjection, f

(* What ORDER BY returns: every row, in order.                             *)
LEMMA InOrderSorts ==
  ASSUME NEW list \in Paging!Lists, NEW S, OneOfEach(S)
  PROVE  LET s == Paging!InOrder(S, list)
         IN /\ s \in Seq(S) /\ Len(s) = Cardinality(S) /\ Len(s) \in Nat
            /\ Sorted(list, s)
            /\ \A k \in S : \E i \in 1 .. Len(s) : s[i] = k
<1> DEFINE n == Cardinality(S)
           D == 1 .. n
           Right(s) == \A i, j \in DOMAIN s : i < j => Paging!Precedes(list, s[i], s[j])
           g == [i \in D |-> CHOOSE k \in S : Place(S, list, k) = i - 1]
<1>1. n \in Nat /\ S \in SUBSET Paging!Row
  BY FS_CardinalityType DEF OneOfEach
<1>2. \A i \in D : g[i] \in S /\ Place(S, list, g[i]) = i - 1
  <2> SUFFICES ASSUME NEW i \in D PROVE g[i] \in S /\ Place(S, list, g[i]) = i - 1
    OBVIOUS
  <2>1. i - 1 \in 0 .. n - 1
    BY <1>1
  <2>2. \E k \in S : Place(S, list, k) = i - 1
    BY <2>1, EachPlace
  <2> QED
    BY <2>2
<1>3. g \in [D -> S]
  BY <1>2
<1>4. Right(g)
  <2> SUFFICES ASSUME NEW i \in D, NEW j \in D, i < j
               PROVE  Paging!Precedes(list, g[i], g[j])
    OBVIOUS
  <2> DEFINE k == g[i]
             l == g[j]
  <2>1. /\ k \in S /\ Place(S, list, k) = i - 1
        /\ l \in S /\ Place(S, list, l) = j - 1
    BY <1>2
  <2>2. k # l
    BY <1>1, <2>1
  <2> HIDE DEF k, l
  <2>3. k.id # l.id /\ k \in Paging!Row /\ l \in Paging!Row
    BY <1>1, <2>1, <2>2 DEF OneOfEach
  <2>4. ~ Paging!Precedes(list, l, k)
    <3> SUFFICES ASSUME Paging!Precedes(list, l, k) PROVE FALSE
      OBVIOUS
    <3>1. Place(S, list, l) < Place(S, list, k)
      BY <2>1, PlaceGrows
    <3> QED
      BY <1>1, <2>1, <3>1
  <2>5. Paging!Precedes(list, k, l)
    BY <2>3, <2>4, PrecedesOrders
  <2> QED
    BY <2>5 DEF k, l
<1> DEFINE s == Paging!InOrder(S, list)
<1> HIDE DEF g
<1>5. s \in [D -> S] /\ Right(s)
  <2>1. s = CHOOSE t \in [D -> S] : Right(t)
    BY SameFiniteInPages DEF Paging!InOrder
  <2> HIDE DEF s, Right
  <2> QED
    BY <1>3, <1>4, <2>1
<1> HIDE DEF s
<1>6. s \in Seq(S) /\ Len(s) = n /\ DOMAIN s = D
  BY <1>1, <1>5
<1>7. Sorted(list, s)
  BY <1>5 DEF Sorted
<1>8. \A k \in S : \E i \in D : s[i] = k
  <2>1. \A i, j \in D : i # j => s[i] # s[j]
    <3> SUFFICES ASSUME NEW i \in D, NEW j \in D, i < j PROVE s[i] # s[j]
      BY <1>1
    <3>1. Paging!Precedes(list, s[i], s[j]) /\ s[i] \in Paging!Row
      BY <1>1, <1>5
    <3> QED
      BY <3>1, PrecedesOrders
  <2>2. s \in Injection(D, S)
    BY <1>5, <2>1 DEF Injection, IsInjective
  <2>3. IsFiniteSet(S) /\ Cardinality(D) = n
    BY <1>1, FS_Interval DEF OneOfEach
  <2>4. s \in Surjection(D, S)
    BY <2>2, <2>3, FS_Injection
  <2> QED
    BY <2>4 DEF Surjection
<1> QED
  BY <1>1, <1>6, <1>7, <1>8 DEF s

(* A page: the rows up to a place; those that are left come after it.      *)
LEMMA PageOf ==
  ASSUME NEW list \in Paging!Lists, NEW S, OneOfEach(S), NEW limit \in Nat \ {0}
  PROVE  LET found == Paging!First(S, list, limit + 1)
             page == Paging!UpTo(limit, found)
         IN /\ page \in Seq(S) /\ Sorted(list, page)
            /\ Paging!More(list, found, limit) => page # <<>>
            /\ ~ Paging!More(list, found, limit) => \A k \in S : \E i \in DOMAIN page : page[i] = k
            /\ page # <<>> => \A k \in S : \/ \E i \in DOMAIN page : page[i] = k
                                           \/ Paging!Precedes(list, page[Len(page)], k)
<1> DEFINE s == Paging!InOrder(S, list)
           n == Len(s)
           found == Paging!First(S, list, limit + 1)
           page == Paging!UpTo(limit, found)
           f == IF n < limit + 1 THEN n ELSE limit + 1
           m == IF n < limit THEN n ELSE limit
<1>1. /\ s \in Seq(S) /\ n \in Nat /\ Sorted(list, s) /\ DOMAIN s = 1 .. n
      /\ \A k \in S : \E i \in 1 .. n : s[i] = k
  BY InOrderSorts
<1>2. found = SubSeq(s, 1, f) /\ f \in 0 .. n /\ f \in Nat
  BY <1>1 DEF Paging!First, Paging!UpTo
<1> HIDE DEF s
<1>3. found \in Seq(S) /\ Len(found) = f /\ \A i \in 1 .. f : found[i] = s[i]
  BY <1>1, <1>2, SubSeqProperties
<1>4. page = SubSeq(found, 1, m) /\ m \in 0 .. f /\ m \in 0 .. n /\ m \in Nat
  BY <1>1, <1>3 DEF Paging!UpTo
<1> HIDE DEF found
<1>5. page \in Seq(S) /\ Len(page) = m /\ \A i \in 1 .. m : page[i] = found[i]
  BY <1>3, <1>4, SubSeqProperties
<1>6. DOMAIN page = 1 .. m /\ \A i \in 1 .. m : page[i] = s[i]
  BY <1>2, <1>3, <1>4, <1>5
<1> HIDE DEF page
<1>7. Sorted(list, page)
  BY <1>1, <1>4, <1>6 DEF Sorted
<1>8. Paging!More(list, found, limit) => m # 0
  BY <1>1, <1>3 DEF Paging!More
<1>9. ~ Paging!More(list, found, limit) => m = n
  BY <1>1, <1>3 DEF Paging!More
<1>10. ASSUME m # 0, NEW k \in S
       PROVE  (\E i \in DOMAIN page : page[i] = k) \/ Paging!Precedes(list, page[m], k)
  <2>1. PICK i \in 1 .. n : s[i] = k
    BY <1>1
  <2>2. CASE i <= m
    BY <1>4, <1>6, <2>1, <2>2
  <2>3. CASE i > m
    <3>1. m \in 1 .. n
      BY <1>4, <1>10
    <3>2. Paging!Precedes(list, s[m], s[i])
      BY <1>1, <2>3, <3>1 DEF Sorted
    <3> QED
      BY <1>4, <1>6, <1>10, <2>1, <3>1, <3>2
  <2> QED
    BY <1>4, <2>2, <2>3
<1>11. page # <<>> => m # 0
  BY <1>5
<1> QED
  BY <1>1, <1>5, <1>6, <1>7, <1>8, <1>9, <1>10, <1>11 DEF found, page

-------------------------------------------------------------------------------
(* What a sweep knows.  Nothing that was there all the time is skipped: it *)
(* was shown or is still to come.  A sweep by a rank that has changed, and *)
(* one that fell back, know nothing.                                       *)
SweepType ==
    [at : {"idle", "paging", "done", "refused", "degraded"}, list : Paging!Lists,
     cursor : Paging!Cursors \cup {NoCursor}, shown : Seq(Paging!Row),
     kept : SUBSET Ids, drifted : BOOLEAN]

End(s) == s[Len(s)]
Shown(s, id) == \E i \in DOMAIN s : s[i].id = id
ToCome(list, s, k) == s = <<>> \/ Paging!Precedes(list, End(s), k)
Steady == sweep.at # "degraded" /\ ~ (sweep.list = "ranked" /\ sweep.drifted)

PagesTypes ==
    /\ OneOfEach(rows) /\ clock \in 0 .. MaxTime
    /\ sweep \in SweepType
    /\ \A id \in sweep.kept : \E k \in rows : k.id = id

InSweep ==
    /\ sweep.at = "idle" => sweep.shown = <<>> /\ sweep.cursor = NoCursor
    /\ sweep.at = "paging" => /\ sweep.shown # <<>>
                              /\ sweep.cursor = Paging!Cursor(sweep.list, End(sweep.shown))
    /\ Steady =>
         /\ Sorted(sweep.list, sweep.shown)
         /\ sweep.at = "paging" =>
              \A k \in rows : k.id \in sweep.kept =>
                 Shown(sweep.shown, k.id) \/ ToCome(sweep.list, sweep.shown, k)
         /\ sweep.at = "done" => \A id \in sweep.kept : Shown(sweep.shown, id)

PagesInv == PagesTypes /\ InSweep

LEMMA PagesInvEachOnce == PagesInv => EachOnce
<1> SUFFICES ASSUME PagesInv, Steady
             PROVE  /\ \A i, j \in DOMAIN sweep.shown :
                         i < j => Paging!Precedes(sweep.list, sweep.shown[i], sweep.shown[j])
                    /\ sweep.at = "done" =>
                         sweep.kept \subseteq {k.id : k \in Paging!ToSet(sweep.shown)}
  BY DEF EachOnce, Paging!EachOnce, Steady
<1>1. Sorted(sweep.list, sweep.shown)
  BY DEF PagesInv, InSweep
<1>2. ASSUME sweep.at = "done", NEW id \in sweep.kept
      PROVE  id \in {k.id : k \in Paging!ToSet(sweep.shown)}
  <2>1. PICK i \in DOMAIN sweep.shown : sweep.shown[i].id = id
    BY <1>2 DEF PagesInv, InSweep, Shown
  <2>2. sweep.shown[i] \in Paging!ToSet(sweep.shown)
    BY DEF Paging!ToSet
  <2> QED
    BY <2>1, <2>2
<1> QED
  BY <1>1, <1>2 DEF Sorted

LEMMA PagesInitInv == Paging!PagesInit => PagesInv
<1> SUFFICES ASSUME Paging!PagesInit PROVE PagesInv
  OBVIOUS
<1>1. rows = {} /\ clock = 0
  BY DEF Paging!PagesInit
<1>2. /\ sweep \in SweepType /\ sweep.at = "idle" /\ sweep.shown = <<>>
      /\ sweep.kept = {} /\ sweep.cursor = NoCursor
  <2>1. PICK list \in {"items", "recent"} :
          sweep = [at |-> "idle", list |-> list, cursor |-> NoCursor, shown |-> <<>>, kept |-> {},
                   drifted |-> FALSE]
    BY DEF Paging!PagesInit
  <2>2. <<>> \in Seq(Paging!Row) /\ list \in Paging!Lists
    BY DEF Paging!Lists
  <2> QED
    BY <2>1, <2>2 DEF SweepType
<1>3. OneOfEach(rows) /\ clock \in 0 .. MaxTime
  BY <1>1, PageConstants, FS_EmptySet DEF OneOfEach
<1> QED
  BY <1>2, <1>3 DEF PagesInv, PagesTypes, InSweep, Sorted

(* The rows that a page is cut from.                                       *)
Rest(list) == {k \in rows : ToCome(list, sweep.shown, k)}

LEMMA RestOf ==
  ASSUME PagesInv, NEW list \in Paging!Queries(sweep.list),
         NEW cursor \in {sweep.cursor, Garbled}, Paging!Reading, Paging!Accepts(list, cursor)
  PROVE  /\ list \in Paging!Lists
         /\ sweep.at = "paging" => list = sweep.list
         /\ sweep.at = "idle" \/ sweep.at = "paging"
         /\ sweep.shown = <<>> <=> sweep.at = "idle"
<1>1. sweep \in SweepType
  BY DEF PagesInv, PagesTypes
<1>2. list \in Paging!Lists
  BY DEF Paging!Queries, Paging!Lists
<1>3. sweep.at = "idle" \/ sweep.at = "paging"
  BY DEF Paging!Reading
<1>4. sweep.shown = <<>> <=> sweep.at = "idle"
  BY <1>3 DEF PagesInv, InSweep
<1>5. ASSUME sweep.at = "paging" PROVE list = sweep.list
  <2>1. sweep.cursor = Paging!Cursor(sweep.list, End(sweep.shown)) /\ sweep.shown # <<>>
    BY <1>5 DEF PagesInv, InSweep
  <2>2. CASE sweep.list = "items"
    BY <2>2 DEF Paging!Queries
  <2>3. CASE sweep.list # "items"
    <3>1. sweep.cursor = [v |-> 1, k |-> End(sweep.shown), q |-> sweep.list] /\ list # "items"
      BY <2>1, <2>3 DEF Paging!Cursor, Paging!VideoCursor, Paging!Queries
    <3>2. End(sweep.shown) \in Paging!Row
      BY <1>1, <2>1 DEF SweepType, End
    <3>3. cursor # NoCursor
      BY <1>1, <3>1, <3>2, PageConstants DEF Paging!Cursors, SweepType
    <3>4. cursor = sweep.cursor /\ cursor.q = list
      BY <3>1, <3>3 DEF Paging!Accepts, Paging!DecodeCursor, Paging!Matches
    <3> QED
      BY <3>1, <3>4
  <2> QED
    BY <2>2, <2>3
<1> QED
  BY <1>2, <1>3, <1>4, <1>5

LEMMA FollowingIsRest ==
  ASSUME PagesInv, NEW list \in Paging!Queries(sweep.list), NEW cursor \in {sweep.cursor, Garbled},
         Paging!Reading, Paging!Accepts(list, cursor)
  PROVE  Paging!Following(list, cursor) = Rest(list)
<1>1. /\ sweep.at = "paging" => list = sweep.list
      /\ sweep.at = "idle" \/ sweep.at = "paging"
      /\ sweep.shown = <<>> <=> sweep.at = "idle"
  BY RestOf
<1>2. CASE sweep.at = "idle"
  <2>1. cursor = NoCursor
    BY <1>2, PageConstants DEF PagesInv, InSweep, Paging!Accepts, Paging!DecodeItemCursor,
       Paging!DecodeCursor
  <2> QED
    BY <1>1, <1>2, <2>1 DEF Paging!Following, Rest, ToCome
<1>3. CASE sweep.at = "paging"
  <2>1. /\ sweep.cursor = Paging!Cursor(list, End(sweep.shown)) /\ sweep.shown # <<>>
        /\ sweep \in SweepType /\ list \in Paging!Lists
    BY <1>1, <1>3, RestOf DEF PagesInv, InSweep, PagesTypes
  <2>2. sweep.cursor = [v |-> 1, k |-> End(sweep.shown), q |-> list]
    BY <2>1 DEF Paging!Cursor, Paging!VideoCursor, Paging!ItemCursor
  <2>3. End(sweep.shown) \in Paging!Row
    BY <2>1 DEF SweepType, End
  <2>4. cursor # NoCursor
    BY <2>1, <2>2, <2>3, PageConstants DEF Paging!Cursors
  <2>5. cursor = sweep.cursor
    BY <2>4 DEF Paging!Accepts, Paging!DecodeItemCursor, Paging!DecodeCursor
  <2> QED
    BY <2>1, <2>2, <2>4, <2>5 DEF Paging!Following, Rest, ToCome, Paging!Beyond
<1> QED
  BY <1>1, <1>2, <1>3

(* Two runs of rows in order, the second after the first.                  *)
LEMMA SortedConcat ==
  ASSUME NEW list \in Paging!Lists, NEW s \in Seq(Paging!Row), NEW t \in Seq(Paging!Row),
         Sorted(list, s), Sorted(list, t), \A j \in DOMAIN t : ToCome(list, s, t[j])
  PROVE  Sorted(list, s \o t)
<1> DEFINE u == s \o t
           n == Len(s)
<1>1. /\ u \in Seq(Paging!Row) /\ n \in Nat /\ Len(t) \in Nat
      /\ DOMAIN u = 1 .. n + Len(t) /\ DOMAIN s = 1 .. n /\ DOMAIN t = 1 .. Len(t)
      /\ \A i \in 1 .. n + Len(t) : u[i] = IF i <= n THEN s[i] ELSE t[i - n]
  OBVIOUS
<1> HIDE DEF u
<1>2. ASSUME NEW i \in DOMAIN u, NEW j \in DOMAIN u, i < j
      PROVE  Paging!Precedes(list, u[i], u[j])
  <2>1. CASE j <= n
    BY <1>1, <1>2, <2>1 DEF Sorted
  <2>2. CASE i > n
    <3>1. i - n \in DOMAIN t /\ j - n \in DOMAIN t /\ i - n < j - n
      BY <1>1, <1>2, <2>2
    <3>2. u[i] = t[i - n] /\ u[j] = t[j - n]
      BY <1>1, <1>2, <2>2
    <3> QED
      BY <3>1, <3>2 DEF Sorted
  <2>3. CASE i <= n /\ j > n
    <3>1. i \in 1 .. n /\ j - n \in DOMAIN t /\ u[i] = s[i] /\ u[j] = t[j - n] /\ n \in 1 .. n
      BY <1>1, <2>3
    <3> DEFINE k == s[i]
               l == End(s)
               m == t[j - n]
    <3>2. k \in Paging!Row /\ l \in Paging!Row /\ m \in Paging!Row
      BY <1>1, <3>1 DEF End
    <3>3. k = l \/ Paging!Precedes(list, k, l)
      BY <1>1, <3>1 DEF End, Sorted
    <3>4. Paging!Precedes(list, l, m)
      BY <1>1, <3>1 DEF ToCome
    <3> HIDE DEF k, l, m
    <3>5. Paging!Precedes(list, k, m)
      BY <3>2, <3>3, <3>4, PrecedesTransitive
    <3> QED
      BY <3>1, <3>5 DEF k, m
  <2> QED
    BY <1>1, <1>2, <2>1, <2>2, <2>3
<1> QED
  BY <1>2 DEF Sorted, u

(* What a sweep has been shown after one more page.                        *)
LEMMA ShownMore ==
  ASSUME NEW s \in Seq(Paging!Row), NEW t \in Seq(Paging!Row)
  PROVE  /\ s \o t \in Seq(Paging!Row)
         /\ \A i \in DOMAIN s : Shown(s \o t, s[i].id)
         /\ \A i \in DOMAIN t : Shown(s \o t, t[i].id)
         /\ t # <<>> => s \o t # <<>> /\ End(s \o t) = End(t)
<1> DEFINE u == s \o t
           n == Len(s)
<1>1. /\ u \in Seq(Paging!Row) /\ n \in Nat /\ Len(t) \in Nat /\ Len(u) = n + Len(t)
      /\ DOMAIN u = 1 .. n + Len(t) /\ DOMAIN s = 1 .. n /\ DOMAIN t = 1 .. Len(t)
      /\ \A i \in 1 .. n + Len(t) : u[i] = IF i <= n THEN s[i] ELSE t[i - n]
  OBVIOUS
<1>2. t # <<>> => Len(t) # 0
  OBVIOUS
<1> HIDE DEF u
<1>3. \A i \in DOMAIN s : i \in DOMAIN u /\ u[i] = s[i]
  BY <1>1
<1>4. ASSUME NEW i \in DOMAIN t PROVE i + n \in DOMAIN u /\ u[i + n] = t[i]
  BY <1>1
<1>5. ASSUME t # <<>> PROVE u # <<>> /\ End(u) = End(t)
  <2>1. Len(t) \in DOMAIN t
    BY <1>1, <1>2, <1>5
  <2>2. u[Len(t) + n] = t[Len(t)]
    BY <1>4, <2>1
  <2>3. Len(u) # 0
    BY <1>1, <1>2, <1>5
  <2> QED
    BY <1>1, <2>2, <2>3 DEF End
<1>6. \A i \in DOMAIN s : Shown(u, s[i].id)
  BY <1>3 DEF Shown
<1>7. \A i \in DOMAIN t : Shown(u, t[i].id)
  <2> SUFFICES ASSUME NEW i \in DOMAIN t PROVE Shown(u, t[i].id)
    OBVIOUS
  <2> QED
    BY <1>4 DEF Shown
<1> QED
  BY <1>1, <1>5, <1>6, <1>7 DEF u

LEMMA LimitType ==
  ASSUME NEW arg \in LimitArgs, arg # Garbled
  PROVE  Paging!LimitOf(arg) \in Nat \ {0}
BY PageConstants DEF Paging!LimitOf

LEMMA PageKeeps ==
  ASSUME PagesInv, NEW list \in Paging!Queries(sweep.list),
         NEW cursor \in {sweep.cursor, Garbled}, NEW arg \in LimitArgs,
         Paging!Page(list, cursor, arg)
  PROVE  PagesInv'
<1> DEFINE limit == Paging!LimitOf(arg)
           F == Paging!Following(list, cursor)
           found == Paging!First(F, list, limit + 1)
           page == Paging!UpTo(limit, found)
           more == Paging!More(list, found, limit)
           shown == sweep.shown \o page
           kept == IF sweep.at = "idle" THEN {k.id : k \in rows} ELSE sweep.kept
           seen == [sweep EXCEPT !.list = list, !.shown = shown, !.kept = kept]
<1>1. /\ Paging!Reading /\ Paging!Accepts(list, cursor) /\ arg # Garbled
      /\ UNCHANGED <<rows, clock>>
      /\ sweep' = IF more
           THEN [seen EXCEPT !.at = "paging", !.cursor = Paging!Cursor(list, Paging!Last(page))]
           ELSE [seen EXCEPT !.at = "done", !.cursor = NoCursor]
  BY DEF Paging!Page
<1>2. /\ list \in Paging!Lists /\ limit \in Nat \ {0}
      /\ sweep.at = "paging" => list = sweep.list
      /\ sweep.at = "idle" \/ sweep.at = "paging"
      /\ sweep.shown = <<>> <=> sweep.at = "idle"
  BY <1>1, RestOf, LimitType
<1>3. F = Rest(list)
  BY <1>1, FollowingIsRest
<1>4. /\ sweep \in SweepType /\ OneOfEach(rows) /\ rows \in SUBSET Paging!Row
      /\ \A id \in sweep.kept : \E k \in rows : k.id = id
  BY DEF PagesInv, PagesTypes, OneOfEach
<1>5. OneOfEach(F) /\ F \subseteq rows
  BY <1>3, <1>4, FS_Subset DEF Rest, OneOfEach
<1> HIDE DEF limit, F
<1>6. /\ page \in Seq(F) /\ Sorted(list, page)
      /\ more => page # <<>>
      /\ ~ more => \A k \in F : \E i \in DOMAIN page : page[i] = k
      /\ page # <<>> => \A k \in F : \/ \E i \in DOMAIN page : page[i] = k
                                     \/ Paging!Precedes(list, page[Len(page)], k)
  BY <1>2, <1>5, PageOf
<1> HIDE DEF page, more
<1>7. page \in Seq(Paging!Row) /\ \A i \in DOMAIN page : page[i] \in F
  BY <1>4, <1>5, <1>6
<1>8. sweep.shown \in Seq(Paging!Row)
  BY <1>4 DEF SweepType
<1>9. /\ shown \in Seq(Paging!Row)
      /\ \A i \in DOMAIN sweep.shown : Shown(shown, sweep.shown[i].id)
      /\ \A i \in DOMAIN page : Shown(shown, page[i].id)
      /\ page # <<>> => shown # <<>> /\ End(shown) = End(page)
  BY <1>7, <1>8, ShownMore
<1>10. more => Paging!Last(page) = End(shown) /\ shown # <<>> /\ End(shown) \in Paging!Row
  <2>1. page # <<>> => End(page) \in Paging!Row
    BY <1>7 DEF End
  <2> QED
    BY <1>6, <1>9, <2>1 DEF Paging!Last, End
<1> HIDE DEF shown
<1>11. kept \in SUBSET Ids /\ \A id \in kept : \E k \in rows : k.id = id
  BY <1>4 DEF SweepType, Paging!Row
<1>12. seen \in SweepType /\ seen.list = list /\ seen.shown = shown /\ seen.kept = kept
       /\ seen.drifted = sweep.drifted
  BY <1>2, <1>4, <1>9, <1>11 DEF SweepType
<1>13. ASSUME more PROVE Paging!Cursor(list, Paging!Last(page)) \in Paging!Cursors
  BY <1>2, <1>10, <1>13 DEF Paging!Cursor, Paging!ItemCursor, Paging!VideoCursor, Paging!Cursors
<1> HIDE DEF seen, kept
<1>14. /\ sweep' \in SweepType
       /\ sweep'.list = list /\ sweep'.shown = shown /\ sweep'.kept = kept
       /\ sweep'.drifted = sweep.drifted
       /\ sweep'.at = (IF more THEN "paging" ELSE "done")
       /\ more => sweep'.cursor = Paging!Cursor(list, Paging!Last(page))
  BY <1>1, <1>12, <1>13 DEF SweepType
<1>15. PagesTypes'
  BY <1>1, <1>11, <1>14 DEF PagesInv, PagesTypes, OneOfEach
<1>16. ASSUME Steady', sweep.at = "paging"
       PROVE  /\ Sorted(list, sweep.shown)
              /\ \A k \in rows : k.id \in sweep.kept =>
                    Shown(sweep.shown, k.id) \/ ToCome(list, sweep.shown, k)
  <2>1. Steady /\ list = sweep.list
    BY <1>2, <1>14, <1>16 DEF Steady
  <2> QED
    BY <1>16, <2>1 DEF PagesInv, InSweep
<1>17. ASSUME Steady' PROVE Sorted(list, shown)
  <2>1. Sorted(list, sweep.shown)
    BY <1>2, <1>16, <1>17 DEF Sorted
  <2>2. \A j \in DOMAIN page : ToCome(list, sweep.shown, page[j])
    BY <1>3, <1>7 DEF Rest
  <2> QED
    BY <1>2, <1>6, <1>7, <1>8, <2>1, <2>2, SortedConcat DEF shown
(* A row that was there all the time is on an earlier page, or on this one *)
(* or after it.                                                            *)
<1>18. ASSUME Steady', NEW k \in rows, k.id \in kept
       PROVE  Shown(shown, k.id) \/ (k \in F /\ more /\ ToCome(list, shown, k))
  <2>1. CASE Shown(sweep.shown, k.id)
    BY <1>9, <2>1 DEF Shown
  <2>2. CASE ~ Shown(sweep.shown, k.id)
    <3>1. k \in F
      BY <1>2, <1>3, <1>16, <1>18, <2>2 DEF Rest, ToCome, kept
    <3>2. CASE \E i \in DOMAIN page : page[i] = k
      BY <1>9, <3>2
    <3>3. CASE ~ \E i \in DOMAIN page : page[i] = k
      <4>1. more /\ page # <<>>
        BY <1>6, <3>1, <3>3
      <4>2. Paging!Precedes(list, End(page), k)
        BY <1>6, <3>1, <3>3, <4>1 DEF End
      <4> QED
        BY <1>9, <3>1, <4>1, <4>2 DEF ToCome
    <3> QED
      BY <3>2, <3>3
  <2> QED
    BY <2>1, <2>2
<1>19. ASSUME Steady', ~ more, NEW id \in kept PROVE Shown(shown, id)
  <2>1. PICK k \in rows : k.id = id
    BY <1>11
  <2> QED
    BY <1>18, <1>19, <2>1
<1> HIDE DEF kept
<1>20. InSweep'
  BY <1>1, <1>10, <1>14, <1>17, <1>18, <1>19 DEF InSweep
<1> QED
  BY <1>15, <1>20 DEF PagesInv

(* A sweep that ends early shows no more, and a degraded one knows nothing. *)
LEMMA RefuseKeeps ==
  ASSUME PagesInv, NEW list, NEW cursor, NEW arg,
         Paging!Refuse(list, cursor, arg)
  PROVE  PagesInv'
<1>1. /\ sweep' = [sweep EXCEPT !.at = "refused"] /\ UNCHANGED <<rows, clock>>
      /\ sweep \in SweepType
  BY DEF Paging!Refuse, PagesInv, PagesTypes
<1>2. /\ sweep' \in SweepType /\ sweep'.at = "refused" /\ sweep'.list = sweep.list
      /\ sweep'.shown = sweep.shown /\ sweep'.kept = sweep.kept
      /\ sweep'.drifted = sweep.drifted
  BY <1>1 DEF SweepType
<1>3. sweep.at # "degraded"
  BY DEF Paging!Refuse, Paging!Reading
<1> QED
  BY <1>1, <1>2, <1>3 DEF PagesInv, PagesTypes, InSweep, OneOfEach, Steady

LEMMA DegradedPageKeeps ==
  ASSUME PagesInv, NEW list \in Paging!Queries(sweep.list), NEW cursor, NEW arg \in LimitArgs,
         Paging!DegradedPage(list, cursor, arg)
  PROVE  PagesInv'
<1> DEFINE limit == Paging!LimitOf(arg)
           s == Paging!InOrder(rows, "recent")
           page == Paging!First(rows, "recent", limit)
<1>1. /\ arg # Garbled /\ UNCHANGED <<rows, clock>>
      /\ sweep' = [sweep EXCEPT !.at = "degraded", !.list = list, !.cursor = NoCursor,
                                !.shown = @ \o page]
      /\ sweep \in SweepType /\ OneOfEach(rows)
  BY DEF Paging!DegradedPage, PagesInv, PagesTypes
<1>2. limit \in Nat \ {0} /\ list \in Paging!Lists /\ "recent" \in Paging!Lists
  BY <1>1, LimitType DEF Paging!Queries, Paging!Lists
<1>3. s \in Seq(rows) /\ Len(s) \in Nat
  BY <1>1, <1>2, InOrderSorts
<1> HIDE DEF limit, s
<1>4. page \in Seq(rows)
  BY <1>2, <1>3, SubSeqProperties DEF Paging!First, Paging!UpTo, s
<1> HIDE DEF page
<1>5. page \in Seq(Paging!Row)
  BY <1>1, <1>4 DEF OneOfEach
<1>6. sweep.shown \o page \in Seq(Paging!Row)
  BY <1>1, <1>5 DEF SweepType
<1>7. sweep' \in SweepType /\ sweep'.at = "degraded" /\ sweep'.kept = sweep.kept
  BY <1>1, <1>2, <1>6 DEF SweepType
<1> QED
  BY <1>1, <1>7 DEF PagesInv, PagesTypes, InSweep, OneOfEach, Steady

-------------------------------------------------------------------------------
(* While the client reads.                                                 *)
LEMMA AddRowKeeps ==
  ASSUME PagesInv, NEW id \in Ids, Paging!AddRow(id)
  PROVE  PagesInv'
<1> DEFINE k == [rank |-> 0, at |-> clock, id |-> id]
<1>1. /\ \A l \in rows : l.id # id
      /\ rows' = rows \cup {k} /\ UNCHANGED <<clock, sweep>>
      /\ OneOfEach(rows) /\ k \in Paging!Row /\ k.id = id
      /\ sweep.at = "idle" \/ sweep.at = "paging"
  BY DEF Paging!AddRow, Paging!Reading, PagesInv, PagesTypes, Paging!Row
<1> HIDE DEF k
<1>2. OneOfEach(rows')
  BY <1>1, FS_AddElement DEF OneOfEach
<1>3. id \notin sweep.kept
  BY <1>1 DEF PagesInv, PagesTypes
<1>4. PagesTypes'
  BY <1>1, <1>2 DEF PagesInv, PagesTypes
<1>5. InSweep'
  BY <1>1, <1>3 DEF PagesInv, InSweep, Steady
<1> QED
  BY <1>4, <1>5 DEF PagesInv

LEMMA RemoveRowKeeps ==
  ASSUME PagesInv, NEW k, Paging!RemoveRow(k)
  PROVE  PagesInv'
<1>1. /\ k \in rows /\ rows' = rows \ {k} /\ UNCHANGED clock
      /\ sweep' = [sweep EXCEPT !.kept = @ \ {k.id}]
      /\ OneOfEach(rows) /\ sweep \in SweepType
  BY DEF Paging!RemoveRow, PagesInv, PagesTypes
<1>2. OneOfEach(rows')
  BY <1>1, FS_RemoveElement DEF OneOfEach
<1>3. /\ sweep' \in SweepType /\ sweep'.at = sweep.at /\ sweep'.list = sweep.list
      /\ sweep'.shown = sweep.shown /\ sweep'.cursor = sweep.cursor
      /\ sweep'.drifted = sweep.drifted /\ sweep'.kept = sweep.kept \ {k.id}
  BY <1>1 DEF SweepType
<1>4. PagesTypes'
  BY <1>1, <1>2, <1>3 DEF PagesInv, PagesTypes
<1>5. InSweep'
  BY <1>1, <1>3 DEF PagesInv, InSweep, Steady
<1> QED
  BY <1>4, <1>5 DEF PagesInv

(* A row whose rank changes keeps its place in a list by time.             *)
LEMMA DriftKeeps ==
  ASSUME PagesInv, NEW k, Paging!Drift(k)
  PROVE  PagesInv'
<1> DEFINE d == [k EXCEPT !.rank = @ + 1]
<1>1. /\ k \in rows /\ rows' = (rows \ {k}) \cup {d} /\ UNCHANGED clock
      /\ sweep' = [sweep EXCEPT !.drifted = @ \/ sweep.at = "paging"]
      /\ OneOfEach(rows) /\ sweep \in SweepType /\ k.rank < 1 /\ k \in Paging!Row
      /\ sweep.list # "items"
      /\ sweep.at = "idle" \/ sweep.at = "paging"
  BY DEF Paging!Drift, Paging!Reading, PagesInv, PagesTypes, OneOfEach
<1>2. d \in Paging!Row /\ d.id = k.id /\ d.at = k.at
  BY <1>1 DEF Paging!Row
<1> HIDE DEF d
<1>3. OneOfEach(rows')
  <2>1. IsFiniteSet(rows \ {k})
    BY <1>1, FS_RemoveElement DEF OneOfEach
  <2> QED
    BY <1>1, <1>2, <2>1, FS_AddElement DEF OneOfEach
<1>4. /\ sweep' \in SweepType /\ sweep'.at = sweep.at /\ sweep'.list = sweep.list
      /\ sweep'.shown = sweep.shown /\ sweep'.cursor = sweep.cursor
      /\ sweep'.kept = sweep.kept
      /\ sweep.drifted => sweep'.drifted
      /\ sweep.at = "paging" => sweep'.drifted
  BY <1>1 DEF SweepType
<1>5. PagesTypes'
  BY <1>1, <1>2, <1>3, <1>4 DEF PagesInv, PagesTypes
<1>6. ASSUME Steady' PROVE Steady /\ (sweep.at = "paging" => sweep.list = "recent")
  BY <1>1, <1>4, <1>6 DEF Steady, SweepType, Paging!Lists
<1>7. ASSUME Steady', sweep.at = "paging", ToCome(sweep.list, sweep.shown, k)
      PROVE  ToCome(sweep.list, sweep.shown, d)
  BY <1>2, <1>6, <1>7 DEF ToCome, Paging!Precedes, Paging!Earlier
<1>8. InSweep'
  <2>1. ASSUME Steady', sweep.at = "paging", NEW l \in rows', l.id \in sweep.kept
        PROVE  Shown(sweep.shown, l.id) \/ ToCome(sweep.list, sweep.shown, l)
    BY <1>1, <1>2, <1>6, <1>7, <2>1 DEF PagesInv, InSweep
  <2> QED
    BY <1>1, <1>4, <1>6, <2>1 DEF PagesInv, InSweep
<1> QED
  BY <1>5, <1>8 DEF PagesInv

LEMMA PagesInvInductive == PagesInv /\ [Paging!PagesNext]_pagesVars => PagesInv'
<1> SUFFICES ASSUME PagesInv, [Paging!PagesNext]_pagesVars PROVE PagesInv'
  OBVIOUS
<1>1. CASE Paging!Request
  BY <1>1, PageKeeps, RefuseKeeps, DegradedPageKeeps DEF Paging!Request
<1>2. CASE Paging!Tick
  <2>1. clock' \in 0 .. MaxTime
    BY <1>2, PageConstants DEF Paging!Tick, PagesInv, PagesTypes
  <2> QED
    BY <1>2, <2>1 DEF Paging!Tick, PagesInv, PagesTypes, InSweep, OneOfEach, Steady
<1>3. CASE UNCHANGED pagesVars
  BY <1>3 DEF pagesVars, PagesInv, PagesTypes, InSweep, OneOfEach, Steady
<1> QED
  BY <1>1, <1>2, <1>3, AddRowKeeps, RemoveRowKeeps, DriftKeeps DEF Paging!PagesNext

(* For any number of rows, instants and page sizes: a client that follows  *)
(* the cursors (items_list.cpp, video_list.cpp) is shown no row twice,     *)
(* each in its place, and in the end every row that was there all the      *)
(* time, whatever is added and removed between two pages.                  *)
THEOREM PagesEachOnce == Paging!PagesSpec => []EachOnce
<1>1. PagesInv /\ [Paging!PagesNext]_(Paging!pagesVars) => PagesInv'
  BY PagesInvInductive DEF Paging!pagesVars, pagesVars
<1> QED
  BY <1>1, PagesInitInv, PagesInvEachOnce, PTL DEF Paging!PagesSpec
-------------------------------------------------------------------------------
(* The server.  A step of it is one of one part, and to each part that is  *)
(* a step of its own or none.                                              *)
ServerSteps == [ServerNext]_<<part, vars, breakerVars, pagesVars>>

LEMMA ServerParts ==
  ASSUME ServerSteps
  PROVE  /\ [Next]_vars
         /\ [Breaker!BreakerNext]_breakerVars
         /\ [Paging!PagesNext]_pagesVars
BY DEF ServerSteps, ServerNext

(* The same of the server as a whole.                                      *)
THEOREM ServerFewProbes == ServerSpec => []FewProbes
<1>1. ServerInit => BreakerInv
  BY BreakerInitInv DEF ServerInit
<1>2. BreakerInv /\ [ServerNext]_<<part, vars, breakerVars, pagesVars>> => BreakerInv'
  BY BreakerInvInductive, ServerParts DEF ServerSteps
<1> QED
  BY <1>1, <1>2, BreakerInvFewProbes, PTL DEF ServerSpec

(* And of the pages.                                                       *)
THEOREM ServerEachOnce == ServerSpec => []EachOnce
<1>1. ServerInit => PagesInv
  BY PagesInitInv DEF ServerInit
<1>2. PagesInv /\ [ServerNext]_<<part, vars, breakerVars, pagesVars>> => PagesInv'
  BY PagesInvInductive, ServerParts DEF ServerSteps
<1> QED
  BY <1>1, <1>2, PagesInvEachOnce, PTL DEF ServerSpec
================================================================================
