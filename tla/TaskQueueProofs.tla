---------------------------- MODULE TaskQueueProofs ----------------------------
(***************************************************************************)
(* Proofs about TaskQueue, for every number of tasks, batches and signals: *)
(* its invariants, and that its two threads implement JobQueue.            *)
(***************************************************************************)
EXTENDS TaskQueue, SequenceTheorems, TLAPS

(* The one queue the two queues and the worker's hand make.                *)
Pending == toFinish \o Held \o toProcess

(* What the threads know of each other's tasks: no task is in two places,  *)
(* _taskInProcessId is only set while process() runs, and a task being     *)
(* canceled is past the point where the worker could still pick it up.     *)
InStep ==
    /\ worker.at = "process" => worker.task # NoTask
    /\ worker.at # "process" => inProcess = NoTask
    /\ main.task = NoTask <=> main.at \notin {"finish", "cancel"}
    /\ IsInjective(Pending)
    /\ main.at = "cancel" => main.task \notin ToSet(Held \o toProcess)

IInv == TypeOK /\ InStep /\ FinishAnnounced

-------------------------------------------------------------------------------
(* Sequences without repetitions, and what removing a member leaves.       *)

LEMMA RemoveAbsent ==
  ASSUME NEW S, NEW s \in Seq(S), NEW e, e \notin ToSet(s)
  PROVE  RemoveFirst(s, e) = s
BY DEF RemoveFirst, ToSet

LEMMA RemoveOnly ==
  ASSUME NEW S, NEW s \in Seq(S), IsInjective(s), NEW i \in 1 .. Len(s)
  PROVE  LET r == RemoveFirst(s, s[i])
         IN /\ r \in Seq(S) /\ Len(r) = Len(s) - 1
            /\ \A j \in 1 .. Len(r) : r[j] = IF j < i THEN s[j] ELSE s[j + 1]
<1> DEFINE I == {k \in 1 .. Len(s) : s[k] = s[i]}
           a == SubSeq(s, 1, i - 1)
           b == SubSeq(s, i + 1, Len(s))
<1>1. Len(s) \in Nat /\ i \in Nat /\ 1 <= i /\ i <= Len(s) /\ DOMAIN s = 1 .. Len(s)
  OBVIOUS
<1>2. I = {i}
  BY <1>1 DEF IsInjective
<1>3. Min(I) = i
  BY <1>1, <1>2 DEF Min
<1>4. SelectInSeq(s, LAMBDA v : v = s[i]) = i
  BY <1>2, <1>3 DEF SelectInSeq
<1>5. RemoveFirst(s, s[i]) = a \o b
  BY <1>1, <1>4 DEF RemoveFirst, RemoveAt
<1>6. /\ a \in Seq(S) /\ Len(a) = i - 1
      /\ \A j \in 1 .. i - 1 : a[j] = s[j]
  <2>1. \A j \in 1 .. i - 1 : s[j] \in S
    BY <1>1
  <2>2. 1 \in Int /\ i - 1 \in Int
    BY <1>1
  <2> QED
    BY <1>1, <2>1, <2>2, SubSeqProperties
<1>7. /\ b \in Seq(S) /\ Len(b) = Len(s) - i
      /\ \A j \in 1 .. Len(s) - i : b[j] = s[i + j]
  <2>1. \A j \in i + 1 .. Len(s) : s[j] \in S
    BY <1>1
  <2>2. i + 1 \in Int /\ Len(s) \in Int
    BY <1>1
  <2>3. /\ b \in Seq(S)
        /\ Len(b) = IF i + 1 <= Len(s) THEN Len(s) - (i + 1) + 1 ELSE 0
        /\ \A j \in 1 .. Len(s) - (i + 1) + 1 : b[j] = s[(i + 1) + j - 1]
    BY <2>1, <2>2, SubSeqProperties
  <2> HIDE DEF b
  <2>4. Len(b) = Len(s) - i /\ Len(s) - (i + 1) + 1 = Len(s) - i
    <3>1. Len(s) - (i + 1) + 1 = Len(s) - i
      BY <1>1
    <3>2. ~ (i + 1 <= Len(s)) => Len(s) - i = 0
      <4>1. \A m, n \in Nat : m <= n /\ ~ (m + 1 <= n) => n - m = 0
        OBVIOUS
      <4> QED
        BY ONLY <1>1, <4>1, Zenon
    <3>3. Len(b) = IF i + 1 <= Len(s) THEN Len(s) - i ELSE 0
      BY <2>3, <3>1
    <3> QED
      BY <3>1, <3>2, <3>3
  <2>5. \A j \in 1 .. Len(s) - i : (i + 1) + j - 1 = i + j
    BY <1>1
  <2> QED
    BY <2>3, <2>4, <2>5
<1> HIDE DEF a, b
<1>8. /\ a \o b \in Seq(S) /\ Len(a \o b) = Len(s) - 1
      /\ \A j \in 1 .. Len(s) - 1 : (a \o b)[j] = IF j <= i - 1 THEN a[j] ELSE b[j - (i - 1)]
  <2>1. Len(a) + Len(b) = Len(s) - 1
    BY <1>1, <1>6, <1>7
  <2>2. /\ a \o b \in Seq(S) /\ Len(a \o b) = Len(a) + Len(b)
        /\ \A j \in 1 .. Len(a) + Len(b) :
              (a \o b)[j] = IF j <= Len(a) THEN a[j] ELSE b[j - Len(a)]
    BY <1>6, <1>7, ConcatProperties
  <2> QED
    BY <1>6, <2>1, <2>2
<1>9. ASSUME NEW j \in 1 .. Len(s) - 1
      PROVE  (a \o b)[j] = IF j < i THEN s[j] ELSE s[j + 1]
  <2>1. CASE j < i
    BY <1>1, <1>6, <1>8, <2>1
  <2>2. CASE ~ (j < i)
    <3>1. j - (i - 1) \in 1 .. Len(s) - i
      BY <1>1, <2>2
    <3>2. i + (j - (i - 1)) = j + 1
      BY <1>1
    <3> QED
      BY <1>1, <1>7, <1>8, <2>2, <3>1, <3>2
  <2> QED
    BY <2>1, <2>2
<1> QED
  BY <1>5, <1>8, <1>9

LEMMA RemoveFirstInjective ==
  ASSUME NEW S, NEW s \in Seq(S), IsInjective(s), NEW e
  PROVE  /\ RemoveFirst(s, e) \in Seq(S)
         /\ IsInjective(RemoveFirst(s, e))
         /\ ToSet(RemoveFirst(s, e)) = ToSet(s) \ {e}
<1> DEFINE r == RemoveFirst(s, e)
<1>1. CASE e \notin ToSet(s)
  BY <1>1, RemoveAbsent
<1>2. CASE e \in ToSet(s)
  <2>1. PICK i \in 1 .. Len(s) : e = s[i]
    BY <1>2 DEF ToSet
  <2>2. /\ r \in Seq(S) /\ Len(r) = Len(s) - 1
        /\ \A j \in 1 .. Len(r) : r[j] = IF j < i THEN s[j] ELSE s[j + 1]
    BY <2>1, RemoveOnly
  <2> HIDE DEF r
  <2>3. /\ Len(s) \in Nat /\ DOMAIN s = 1 .. Len(s) /\ DOMAIN r = 1 .. Len(r)
        /\ \A j, k \in 1 .. Len(s) : s[j] = s[k] => j = k
    BY SMTT(30), <2>2 DEF IsInjective
  <2>4. IsInjective(r)
    <3> SUFFICES ASSUME NEW j \in 1 .. Len(r), NEW k \in 1 .. Len(r), r[j] = r[k]
                 PROVE  j = k
      BY <2>3 DEF IsInjective
    <3> DEFINE at(n) == IF n < i THEN n ELSE n + 1
    <3>1. at(j) \in 1 .. Len(s) /\ at(k) \in 1 .. Len(s)
      BY <2>2, <2>3
    <3>2. r[j] = s[at(j)] /\ r[k] = s[at(k)]
      BY <2>2
    <3>3. at(j) = at(k)
      BY <2>3, <3>1, <3>2
    <3> QED
      BY <3>3
  <2>5. \A j \in 1 .. Len(r) : r[j] \in ToSet(s) \ {e}
    <3> TAKE j \in 1 .. Len(r)
    <3> DEFINE n == IF j < i THEN j ELSE j + 1
    <3>1. n \in 1 .. Len(s) /\ n # i /\ r[j] = s[n]
      BY <2>2, <2>3
    <3> QED
      BY <2>1, <2>3, <3>1 DEF ToSet
  <2>6. ASSUME NEW n \in 1 .. Len(s), s[n] # e PROVE s[n] \in ToSet(r)
    <3> DEFINE j == IF n < i THEN n ELSE n - 1
    <3>1. j \in 1 .. Len(r) /\ r[j] = s[n]
      BY <2>1, <2>2, <2>3, <2>6
    <3> QED
      BY <2>3, <3>1 DEF ToSet
  <2>7. ToSet(r) = ToSet(s) \ {e}
    BY <2>3, <2>5, <2>6 DEF ToSet
  <2> QED
    BY <2>2, <2>4, <2>7 DEF r
<1> QED
  BY <1>1, <1>2

LEMMA ConcatMembers ==
  ASSUME NEW S, NEW s \in Seq(S), NEW t \in Seq(S)
  PROVE  ToSet(s \o t) = ToSet(s) \cup ToSet(t)
<1> DEFINE c == s \o t
<1>1. /\ c \in Seq(S) /\ Len(c) = Len(s) + Len(t)
      /\ \A i \in 1 .. Len(s) + Len(t) : c[i] = IF i <= Len(s) THEN s[i] ELSE t[i - Len(s)]
  BY ConcatProperties
<1>2. /\ Len(s) \in Nat /\ DOMAIN s = 1 .. Len(s)
      /\ Len(t) \in Nat /\ DOMAIN t = 1 .. Len(t) /\ DOMAIN c = 1 .. Len(s) + Len(t)
  BY <1>1
<1> HIDE DEF c
<1>3. ASSUME NEW i \in 1 .. Len(s) + Len(t) PROVE c[i] \in ToSet(s) \cup ToSet(t)
  <2>1. CASE i <= Len(s)
    BY <1>1, <1>2, <2>1 DEF ToSet
  <2>2. CASE ~ (i <= Len(s))
    <3>1. i - Len(s) \in 1 .. Len(t)
      BY <1>2, <2>2
    <3> QED
      BY <1>1, <1>2, <2>2, <3>1 DEF ToSet
  <2> QED
    BY <2>1, <2>2
<1>4. ASSUME NEW i \in 1 .. Len(s) PROVE s[i] \in ToSet(c)
  <2>1. i \in 1 .. Len(s) + Len(t) /\ i <= Len(s)
    BY <1>2
  <2> QED
    BY <1>1, <1>2, <2>1 DEF ToSet
<1>5. ASSUME NEW i \in 1 .. Len(t) PROVE t[i] \in ToSet(c)
  <2>1. /\ i + Len(s) \in 1 .. Len(s) + Len(t) /\ ~ (i + Len(s) <= Len(s))
        /\ (i + Len(s)) - Len(s) = i
    BY <1>2
  <2> QED
    BY <1>1, <1>2, <2>1 DEF ToSet
<1>6. ToSet(c) \subseteq ToSet(s) \cup ToSet(t)
  BY <1>2, <1>3 DEF ToSet
<1>7. ToSet(s) \subseteq ToSet(c) /\ ToSet(t) \subseteq ToSet(c)
  BY <1>2, <1>4, <1>5 DEF ToSet
<1> QED
  BY <1>6, <1>7 DEF c

LEMMA ConcatInjective ==
  ASSUME NEW S, NEW s \in Seq(S), NEW t \in Seq(S)
  PROVE  IsInjective(s \o t) <=>
            IsInjective(s) /\ IsInjective(t) /\ ToSet(s) \cap ToSet(t) = {}
<1> DEFINE c == s \o t
<1>1. /\ c \in Seq(S) /\ Len(c) = Len(s) + Len(t)
      /\ \A i \in 1 .. Len(s) + Len(t) : c[i] = IF i <= Len(s) THEN s[i] ELSE t[i - Len(s)]
  BY ConcatProperties
<1>2. /\ Len(s) \in Nat /\ DOMAIN s = 1 .. Len(s)
      /\ Len(t) \in Nat /\ DOMAIN t = 1 .. Len(t) /\ DOMAIN c = 1 .. Len(s) + Len(t)
  BY <1>1
<1> HIDE DEF c
<1>3. \A i \in 1 .. Len(s) : i \in DOMAIN c /\ c[i] = s[i]
  BY <1>1, <1>2
<1>4. \A i \in 1 .. Len(t) : i + Len(s) \in DOMAIN c /\ c[i + Len(s)] = t[i]
  <2> TAKE i \in 1 .. Len(t)
  <2>1. /\ i + Len(s) \in 1 .. Len(s) + Len(t) /\ ~ (i + Len(s) <= Len(s))
        /\ (i + Len(s)) - Len(s) = i
    BY <1>2
  <2> QED
    BY <1>1, <1>2, <2>1
<1>5. ASSUME IsInjective(c)
      PROVE  IsInjective(s) /\ IsInjective(t) /\ ToSet(s) \cap ToSet(t) = {}
  <2>1. IsInjective(s)
    BY <1>2, <1>3, <1>5 DEF IsInjective
  <2>2. IsInjective(t)
    <3> SUFFICES ASSUME NEW i \in 1 .. Len(t), NEW j \in 1 .. Len(t), t[i] = t[j]
                 PROVE  i = j
      BY <1>2 DEF IsInjective
    <3>1. i + Len(s) = j + Len(s)
      BY <1>4, <1>5 DEF IsInjective
    <3> QED
      BY <1>2, <3>1
  <2>3. ASSUME NEW i \in 1 .. Len(s), NEW j \in 1 .. Len(t), s[i] = t[j]
        PROVE  FALSE
    <3>1. i = j + Len(s)
      BY <1>3, <1>4, <1>5, <2>3 DEF IsInjective
    <3> QED
      BY <1>2, <3>1
  <2> QED
    BY <1>2, <2>1, <2>2, <2>3 DEF ToSet
<1>6. ASSUME IsInjective(s), IsInjective(t), ToSet(s) \cap ToSet(t) = {}
      PROVE  IsInjective(c)
  <2> SUFFICES ASSUME NEW i \in 1 .. Len(s) + Len(t), NEW j \in 1 .. Len(s) + Len(t),
                      c[i] = c[j]
               PROVE  i = j
    BY <1>2 DEF IsInjective
  <2>1. \A k \in 1 .. Len(s) + Len(t) :
            \/ k \in DOMAIN s /\ c[k] = s[k]
            \/ ~ (k <= Len(s)) /\ k - Len(s) \in DOMAIN t /\ c[k] = t[k - Len(s)]
    BY <1>1, <1>2
  <2>2. \A a \in DOMAIN s, b \in DOMAIN t : s[a] # t[b]
    BY <1>6 DEF ToSet
  <2>3. CASE i \in DOMAIN s /\ c[i] = s[i]
    <3>1. j \in DOMAIN s /\ c[j] = s[j]
      BY <2>1, <2>2, <2>3
    <3> QED
      BY <1>6, <2>3, <3>1 DEF IsInjective
  <2>4. CASE ~ (i <= Len(s)) /\ i - Len(s) \in DOMAIN t /\ c[i] = t[i - Len(s)]
    <3>1. j - Len(s) \in DOMAIN t /\ c[j] = t[j - Len(s)]
      BY <2>1, <2>2, <2>4
    <3>2. i - Len(s) = j - Len(s)
      BY <1>6, <2>4, <3>1 DEF IsInjective
    <3> QED
      BY <1>2, <3>2
  <2> QED
    BY <2>1, <2>3, <2>4
<1> QED
  BY <1>5, <1>6 DEF c

(* Without repetitions a task is removed from the part that has it.        *)
LEMMA RemoveFromConcat ==
  ASSUME NEW S, NEW s \in Seq(S), NEW t \in Seq(S), IsInjective(s \o t), NEW e
  PROVE  RemoveFirst(s \o t, e) = RemoveFirst(s, e) \o RemoveFirst(t, e)
<1> DEFINE c == s \o t
           r == RemoveFirst(c, e)
           a == RemoveFirst(s, e)
           b == RemoveFirst(t, e)
<1>1. /\ c \in Seq(S) /\ Len(c) = Len(s) + Len(t)
      /\ \A i \in 1 .. Len(s) + Len(t) : c[i] = IF i <= Len(s) THEN s[i] ELSE t[i - Len(s)]
  BY ConcatProperties
<1>2. IsInjective(s) /\ IsInjective(t) /\ ToSet(s) \cap ToSet(t) = {}
  BY ConcatInjective
<1>3. ToSet(c) = ToSet(s) \cup ToSet(t)
  BY ConcatMembers
<1>4. Len(s) \in Nat /\ DOMAIN s = 1 .. Len(s) /\ Len(t) \in Nat /\ DOMAIN t = 1 .. Len(t)
  OBVIOUS
<1>5. a \in Seq(S) /\ b \in Seq(S)
  BY <1>2, RemoveFirstInjective
<1>6. /\ a \o b \in Seq(S) /\ Len(a \o b) = Len(a) + Len(b)
      /\ \A i \in 1 .. Len(a) + Len(b) :
            (a \o b)[i] = IF i <= Len(a) THEN a[i] ELSE b[i - Len(a)]
  BY <1>5, ConcatProperties
<1>7. CASE e \notin ToSet(s) /\ e \notin ToSet(t)
  BY <1>1, <1>3, <1>7, RemoveAbsent
<1>8. CASE e \in ToSet(s)
  <2>1. PICK i \in 1 .. Len(s) : e = s[i]
    BY <1>8 DEF ToSet
  <2>2. i \in 1 .. Len(c) /\ e = c[i]
    BY <1>1, <1>4, <2>1
  <2>3. /\ r \in Seq(S) /\ Len(r) = Len(c) - 1
        /\ \A j \in 1 .. Len(r) : r[j] = IF j < i THEN c[j] ELSE c[j + 1]
    BY <1>1, <2>2, RemoveOnly
  <2>4. /\ Len(a) = Len(s) - 1
        /\ \A j \in 1 .. Len(a) : a[j] = IF j < i THEN s[j] ELSE s[j + 1]
    BY <1>2, <2>1, RemoveOnly
  <2>5. b = t
    BY <1>2, <1>8, RemoveAbsent
  <2> HIDE DEF c, r, a, b
  <2>6. Len(a \o b) = Len(r)
    BY <1>1, <1>4, <1>6, <2>3, <2>4, <2>5
  <2>7. ASSUME NEW j \in 1 .. Len(r) PROVE r[j] = (a \o b)[j]
    <3>1. CASE j <= Len(a)
      BY <1>1, <1>4, <1>6, <2>3, <2>4, <2>5, <3>1
    <3>2. CASE ~ (j <= Len(a))
      <4>1. /\ ~ (j < i) /\ ~ (j + 1 <= Len(s)) /\ j + 1 \in 1 .. Len(s) + Len(t)
            /\ (j + 1) - Len(s) = j - Len(a) /\ j \in 1 .. Len(a) + Len(b)
        BY <1>1, <1>4, <2>1, <2>3, <2>4, <2>5, <3>2
      <4> QED
        BY <1>1, <1>6, <2>3, <2>5, <3>2, <4>1
    <3> QED
      BY <3>1, <3>2
  <2>8. r = a \o b
    BY <1>6, <2>3, <2>6, <2>7, SeqEqual
  <2> QED
    BY <2>8 DEF c, r, a, b
<1>9. CASE e \in ToSet(t)
  <2>1. PICK i \in 1 .. Len(t) : e = t[i]
    BY <1>9 DEF ToSet
  <2>2. i + Len(s) \in 1 .. Len(c) /\ e = c[i + Len(s)]
    <3>1. /\ i + Len(s) \in 1 .. Len(s) + Len(t) /\ ~ (i + Len(s) <= Len(s))
          /\ (i + Len(s)) - Len(s) = i
      BY <1>4
    <3> QED
      BY <1>1, <2>1, <3>1
  <2>3. /\ r \in Seq(S) /\ Len(r) = Len(c) - 1
        /\ \A j \in 1 .. Len(r) : r[j] = IF j < i + Len(s) THEN c[j] ELSE c[j + 1]
    BY <1>1, <2>2, RemoveOnly
  <2>4. /\ Len(b) = Len(t) - 1
        /\ \A j \in 1 .. Len(b) : b[j] = IF j < i THEN t[j] ELSE t[j + 1]
    BY <1>2, <2>1, RemoveOnly
  <2>5. a = s
    BY <1>2, <1>9, RemoveAbsent
  <2> HIDE DEF c, r, a, b
  <2>6. Len(a \o b) = Len(r)
    BY <1>1, <1>4, <1>6, <2>3, <2>4, <2>5
  <2>7. ASSUME NEW j \in 1 .. Len(r) PROVE r[j] = (a \o b)[j]
    <3>1. CASE j <= Len(a)
      BY <1>1, <1>4, <1>6, <2>3, <2>4, <2>5, <3>1
    <3>2. CASE ~ (j <= Len(a))
      <4>1. /\ j - Len(a) \in 1 .. Len(b) /\ ~ (j <= Len(s)) /\ ~ (j + 1 <= Len(s))
            /\ j \in 1 .. Len(s) + Len(t) /\ j + 1 \in 1 .. Len(s) + Len(t)
            /\ j \in 1 .. Len(a) + Len(b)
            /\ (j + 1) - Len(s) = (j - Len(a)) + 1
            /\ j < i + Len(s) <=> j - Len(a) < i
        BY <1>1, <1>4, <2>1, <2>3, <2>4, <2>5, <3>2
      <4> QED
        BY <1>1, <1>6, <2>3, <2>4, <2>5, <3>2, <4>1
    <3> QED
      BY <3>1, <3>2
  <2>8. r = a \o b
    BY <1>6, <2>3, <2>6, <2>7, SeqEqual
  <2> QED
    BY <2>8 DEF c, r, a, b
<1> QED
  BY <1>7, <1>8, <1>9

LEMMA ShortMembers ==
  ASSUME NEW S, NEW e \in S
  PROVE  /\ << >> \in Seq(S) /\ IsInjective(<< >>) /\ ToSet(<< >>) = {}
         /\ <<e>> \in Seq(S) /\ IsInjective(<<e>>) /\ ToSet(<<e>>) = {e}
         /\ Len(<<e>>) = 1 /\ <<e>>[1] = e
<1>1. << >> \in Seq(S) /\ DOMAIN << >> = {} /\ <<e>> \in Seq(S)
  OBVIOUS
<1>2. DOMAIN <<e>> = {1} /\ <<e>>[1] = e /\ Len(<<e>>) = 1
  OBVIOUS
<1> QED
  BY <1>1, <1>2 DEF IsInjective, ToSet

(* A nonempty sequence is its first member and the others.                 *)
LEMMA HeadAndTail ==
  ASSUME NEW S, NEW s \in Seq(S), s # << >>
  PROVE  Head(s) \in S /\ Tail(s) \in Seq(S) /\ s = <<Head(s)>> \o Tail(s)
<1>1. /\ Head(s) \in S /\ Tail(s) \in Seq(S) /\ Len(Tail(s)) = Len(s) - 1
      /\ \A i \in 1 .. Len(Tail(s)) : Tail(s)[i] = s[i + 1]
  BY HeadTailProperties
<1>2. <<Head(s)>> \in Seq(S) /\ Len(<<Head(s)>>) = 1 /\ <<Head(s)>>[1] = Head(s)
  BY <1>1, ShortMembers
<1>3. Len(s) \in Nat /\ Len(s) # 0 /\ Head(s) = s[1]
  BY EmptySeq
<1> DEFINE a == <<Head(s)>>
           b == Tail(s)
<1> HIDE DEF a, b
<1>4. /\ a \o b \in Seq(S) /\ Len(a \o b) = Len(a) + Len(b)
      /\ \A i \in 1 .. Len(a) + Len(b) :
            (a \o b)[i] = IF i <= Len(a) THEN a[i] ELSE b[i - Len(a)]
  BY <1>1, <1>2, ConcatProperties DEF a, b
<1>5. Len(a) = 1 /\ Len(b) = Len(s) - 1 /\ a[1] = s[1]
  BY <1>1, <1>2, <1>3 DEF a, b
<1>6. ASSUME NEW i \in 1 .. Len(s) PROVE s[i] = (a \o b)[i]
  <2>1. CASE i = 1
    BY <1>3, <1>4, <1>5, <2>1
  <2>2. CASE i # 1
    <3>1. ~ (i <= 1) /\ i - 1 \in 1 .. Len(b) /\ (i - 1) + 1 = i
      BY <1>3, <1>5, <2>2
    <3>2. b[i - 1] = s[i]
      BY <1>1, <3>1 DEF b
    <3> QED
      BY <1>3, <1>4, <1>5, <3>1, <3>2
  <2> QED
    BY <2>1, <2>2
<1>7. s = a \o b
  <2> DEFINE c == a \o b
  <2>1. c \in Seq(S) /\ Len(c) = Len(s)
    BY <1>3, <1>4, <1>5
  <2>2. \A i \in 1 .. Len(s) : s[i] = c[i]
    BY <1>6
  <2> HIDE DEF c
  <2>3. s = c
    BY <2>1, <2>2, SeqEqual
  <2> QED
    BY <2>3 DEF c
<1> QED
  BY <1>1, <1>7 DEF a, b

(* ... and its end is nothing but what was put there.                      *)
LEMMA TailOfConcat ==
  ASSUME NEW S, NEW s \in Seq(S), NEW t \in Seq(S), s # << >>
  PROVE  /\ s \o t # << >>
         /\ Head(s \o t) = Head(s)
         /\ Tail(s \o t) = Tail(s) \o t
<1>1. Head(s) \in S /\ Tail(s) \in Seq(S) /\ s = <<Head(s)>> \o Tail(s)
  BY HeadAndTail
<1> DEFINE c == s \o t
<1>2. c \in Seq(S) /\ Len(c) = Len(s) + Len(t) /\ c[1] = s[1]
  <2>1. Len(s) \in Nat /\ Len(s) # 0 /\ Len(t) \in Nat
    BY EmptySeq
  <2>2. 1 \in 1 .. Len(s) + Len(t) /\ 1 <= Len(s)
    BY <2>1
  <2> QED
    BY <2>2, ConcatProperties
<1>3. Len(s) \in Nat /\ Len(s) # 0 /\ Len(t) \in Nat
  BY EmptySeq
<1>4. c # << >>
  BY <1>2, <1>3, EmptySeq
<1>5. Head(c) = Head(s)
  BY <1>2, <1>4
<1>6. Head(c) \in S /\ Tail(c) \in Seq(S) /\ c = <<Head(c)>> \o Tail(c)
  BY <1>2, <1>4, HeadAndTail
<1>7. <<Head(s)>> \in Seq(S) /\ Tail(s) \o t \in Seq(S)
  BY <1>1, ConcatProperties, ShortMembers
<1>8. c = <<Head(s)>> \o (Tail(s) \o t)
  BY <1>1, <1>7, ConcatAssociative
<1>9. \A u, v, w \in Seq(S) : u \o v = u \o w => v = w
  BY ConcatSimplifications
<1> QED
  BY <1>4, <1>5, <1>6, <1>7, <1>8, <1>9
-------------------------------------------------------------------------------
(* What each critical section does to the one queue.                       *)

LEMMA TasksConcat ==
  \A u, v, w \in Seq(Tasks) : (u \o v) \o w = u \o (v \o w)
BY SMTT(30), ConcatAssociative

LEMMA PendingParts ==
  ASSUME TypeOK
  PROVE  /\ inProcess \in Tasks \cup {NoTask}
         /\ Held \in Seq(Tasks) /\ IsInjective(Held)
         /\ ToSet(Held) = {inProcess} \ {NoTask}
         /\ toFinish \o Held \in Seq(Tasks) /\ Held \o toProcess \in Seq(Tasks)
         /\ Pending \in Seq(Tasks)
         /\ Pending = toFinish \o (Held \o toProcess)
         /\ ToSet(Pending) = ToSet(toFinish) \cup ToSet(Held) \cup ToSet(toProcess)
         /\ ToSet(Held \o toProcess) = ToSet(Held) \cup ToSet(toProcess)
         /\ IsInjective(Pending) =>
               /\ IsInjective(toFinish) /\ IsInjective(toProcess)
               /\ IsInjective(toFinish \o Held)
               /\ ToSet(toFinish) \cap ToSet(Held) = {}
               /\ ToSet(toFinish) \cap ToSet(toProcess) = {}
               /\ ToSet(Held) \cap ToSet(toProcess) = {}
<1>1. /\ toFinish \in Seq(Tasks) /\ toProcess \in Seq(Tasks)
      /\ inProcess \in Tasks \cup {NoTask}
  BY DEF TypeOK
<1>2. Held \in Seq(Tasks) /\ IsInjective(Held) /\ ToSet(Held) = {inProcess} \ {NoTask}
  <2>1. CASE inProcess = NoTask
    <3>1. << >> \in Seq(Tasks) /\ IsInjective(<< >>) /\ ToSet(<< >>) = {}
      BY DEF IsInjective, ToSet
    <3> QED
      BY <2>1, <3>1 DEF Held
  <2>2. CASE inProcess # NoTask
    BY <1>1, <2>2, ShortMembers DEF Held
  <2> QED
    BY <2>1, <2>2
<1>3. toFinish \o Held \in Seq(Tasks) /\ Held \o toProcess \in Seq(Tasks)
  BY <1>1, <1>2, ConcatProperties
<1>4. Pending \in Seq(Tasks)
  BY <1>1, <1>3, ConcatProperties DEF Pending
<1>5. Pending = toFinish \o (Held \o toProcess)
  BY SMTT(30), <1>1, <1>2, ConcatAssociative DEF Pending
<1>6. /\ ToSet(toFinish \o Held) = ToSet(toFinish) \cup ToSet(Held)
      /\ ToSet(Held \o toProcess) = ToSet(Held) \cup ToSet(toProcess)
      /\ ToSet(Pending) = ToSet(toFinish \o Held) \cup ToSet(toProcess)
  <2>1. ToSet(toFinish \o Held) = ToSet(toFinish) \cup ToSet(Held)
    BY <1>1, <1>2, ConcatMembers
  <2>2. ToSet(Held \o toProcess) = ToSet(Held) \cup ToSet(toProcess)
    BY <1>1, <1>2, ConcatMembers
  <2>3. ToSet(Pending) = ToSet(toFinish \o Held) \cup ToSet(toProcess)
    BY ZenonT(40), <1>1, <1>3, ConcatMembers DEF Pending
  <2> QED
    BY <2>1, <2>2, <2>3
<1>7. /\ IsInjective(Pending) <=>
            IsInjective(toFinish \o Held) /\ IsInjective(toProcess)
              /\ ToSet(toFinish \o Held) \cap ToSet(toProcess) = {}
      /\ IsInjective(toFinish \o Held) <=>
            IsInjective(toFinish) /\ IsInjective(Held) /\ ToSet(toFinish) \cap ToSet(Held) = {}
  BY <1>1, <1>2, <1>3, ConcatInjective DEF Pending
<1> QED
  BY <1>1, <1>2, <1>3, <1>4, <1>5, <1>6, <1>7

LEMMA AddTasksAdds ==
  ASSUME TypeOK, InStep, AddTasks
  PROVE  /\ Pending' \in Seq(Tasks) /\ IsInjective(Pending')
         /\ \E batch \in Seq(Tasks) : Pending' = Pending \o batch
         /\ toProcess' \in Seq(Tasks)
<1>1. PICK batch \in SeqOf(Tasks \ Live, MaxBatch) :
         IsInjective(batch) /\ toProcess' = toProcess \o batch
  BY DEF AddTasks
<1>2. batch \in Seq(Tasks) /\ ToSet(batch) \cap Live = {}
  <2>1. PICK m \in 0 .. MaxBatch : batch \in [1 .. m -> Tasks \ Live]
    BY DEF SeqOf
  <2>2. m \in Nat /\ DOMAIN batch = 1 .. m
    BY <2>1, BoundsAssumption
  <2>3. batch \in Seq(Tasks \ Live)
    BY <2>1, <2>2
  <2> QED
    BY <2>1, <2>2, <2>3, SeqMonotonic DEF ToSet
<1>3. ToSet(Pending) \subseteq Live
  BY PendingParts DEF Live, TypeOK
<1>4. toFinish \o Held \in Seq(Tasks) /\ toProcess \in Seq(Tasks) /\ Pending \in Seq(Tasks)
  BY PendingParts DEF TypeOK
<1>5. Held' = Held /\ toFinish' = toFinish
  BY DEF AddTasks, Held
<1>6. Pending' = Pending \o batch
  <2>1. ((toFinish \o Held) \o toProcess) \o batch = (toFinish \o Held) \o (toProcess \o batch)
    <3> DEFINE a == toFinish \o Held
    <3>1. a \in Seq(Tasks) /\ toProcess \in Seq(Tasks) /\ batch \in Seq(Tasks)
      BY <1>2, <1>4
    <3> HIDE DEF a
    <3> QED
      BY SMTT(30), <3>1, TasksConcat
  <2> QED
    BY <1>1, <1>5, <2>1, Zenon DEF Pending
<1>7. IsInjective(Pending \o batch)
  BY <1>1, <1>2, <1>3, <1>4, ConcatInjective DEF InStep
<1> QED
  BY <1>1, <1>2, <1>4, <1>6, <1>7, ConcatProperties

LEMMA CancelTaskRemoves ==
  ASSUME TypeOK, InStep, NEW t \in Tasks, CancelTask(t)
  PROVE  /\ toProcess' \in Seq(Tasks)
         /\ Pending' \in Seq(Tasks) /\ IsInjective(Pending')
         /\ Pending' \in {Pending, RemoveFirst(Pending, t)}
         /\ t \notin ToSet((Held \o toProcess)')
<1>1. toFinish \in Seq(Tasks) /\ toProcess \in Seq(Tasks) /\ IsInjective(Pending)
  BY DEF TypeOK, InStep
<1>2. /\ toFinish' = toFinish /\ toProcess' = RemoveFirst(toProcess, t)
      /\ inProcess' = IF inProcess = t THEN NoTask ELSE inProcess
  BY DEF CancelTask, InProcessWithout
<1>3. Held' = RemoveFirst(Held, t)
  <2>1. CASE inProcess = t
    <3>1. Held = <<t>> /\ Held' = << >>
      BY <1>2, <2>1, NoTaskAssumption DEF Held
    <3>2. <<t>> \in Seq(Tasks) /\ IsInjective(<<t>>) /\ ToSet(<<t>>) = {t}
      BY ShortMembers
    <3>3. RemoveFirst(<<t>>, t) \in Seq(Tasks) /\ ToSet(RemoveFirst(<<t>>, t)) = {}
      <4> DEFINE u == <<t>>
      <4> HIDE DEF u
      <4>1. u \in Seq(Tasks) /\ IsInjective(u) /\ ToSet(u) = {t}
        BY <3>2 DEF u
      <4>2. RemoveFirst(u, t) \in Seq(Tasks) /\ ToSet(RemoveFirst(u, t)) = ToSet(u) \ {t}
        BY <4>1, RemoveFirstInjective
      <4> QED
        BY <4>1, <4>2 DEF u
    <3>4. \A s \in Seq(Tasks) : ToSet(s) = {} => s = << >>
      <4> TAKE s \in Seq(Tasks)
      <4>1. s # << >> => 1 \in DOMAIN s
        BY EmptySeq
      <4> QED
        BY <4>1 DEF ToSet
    <3> QED
      BY <3>1, <3>3, <3>4
  <2>2. CASE inProcess # t
    <3>1. Held' = Held /\ t \notin ToSet(Held)
      BY <1>2, <2>2, PendingParts DEF Held
    <3> QED
      BY <3>1, PendingParts, RemoveAbsent
  <2> QED
    BY <2>1, <2>2
<1>4. /\ Held' \in Seq(Tasks) /\ IsInjective(Held') /\ ToSet(Held') = ToSet(Held) \ {t}
      /\ toProcess' \in Seq(Tasks) /\ IsInjective(toProcess')
      /\ ToSet(toProcess') = ToSet(toProcess) \ {t}
  BY <1>1, <1>2, <1>3, PendingParts, RemoveFirstInjective
<1>5. t \notin ToSet((Held \o toProcess)')
  BY <1>4, ConcatMembers
<1>6. RemoveFirst(Pending, t) =
         (RemoveFirst(toFinish, t) \o Held') \o toProcess'
  <2> DEFINE u == toFinish \o Held
  <2>1. RemoveFirst(Pending, t) = RemoveFirst(u, t) \o RemoveFirst(toProcess, t)
    <3>1. u \in Seq(Tasks) /\ Pending = u \o toProcess
      BY PendingParts DEF Pending
    <3> HIDE DEF u
    <3> QED
      BY <1>1, <3>1, RemoveFromConcat
  <2>2. RemoveFirst(toFinish \o Held, t) = RemoveFirst(toFinish, t) \o RemoveFirst(Held, t)
    BY <1>1, PendingParts, RemoveFromConcat
  <2> QED
    BY <1>2, <1>3, <2>1, <2>2
<1>7. CASE t \notin ToSet(toFinish)
  <2>1. Pending' = RemoveFirst(Pending, t)
    BY <1>1, <1>2, <1>6, <1>7, RemoveAbsent DEF Pending
  <2> QED
    BY <1>1, <1>4, <1>5, <2>1, PendingParts, RemoveFirstInjective
<1>8. CASE t \in ToSet(toFinish)
  <2>1. t \notin ToSet(Held) /\ t \notin ToSet(toProcess)
    BY <1>1, <1>8, PendingParts
  <2>2. Held' = Held /\ toProcess' = toProcess
    BY <1>1, <1>2, <1>3, <2>1, PendingParts, RemoveAbsent
  <2>3. Pending' = Pending
    BY <1>2, <2>2 DEF Pending
  <2> QED
    BY <1>1, <1>4, <1>5, <2>3, PendingParts
<1> QED
  BY <1>7, <1>8

LEMMA CancelReturnsRemoves ==
  ASSUME TypeOK, InStep, CancelReturns
  PROVE  /\ toFinish' \in Seq(Tasks)
         /\ Pending' \in Seq(Tasks) /\ IsInjective(Pending')
         /\ Pending' = RemoveFirst(Pending, main.task)
<1>1. toFinish \in Seq(Tasks) /\ toProcess \in Seq(Tasks) /\ IsInjective(Pending)
  BY DEF TypeOK, InStep
<1>2. /\ toFinish' = RemoveFirst(toFinish, main.task) /\ toProcess' = toProcess /\ Held' = Held
      /\ main.at = "cancel"
  BY DEF CancelReturns, Held
<1>3. main.task \notin ToSet(Held) /\ main.task \notin ToSet(toProcess)
  BY <1>2, PendingParts DEF InStep
<1>4. RemoveFirst(Pending, main.task) =
         (RemoveFirst(toFinish, main.task) \o RemoveFirst(Held, main.task))
            \o RemoveFirst(toProcess, main.task)
  <2> DEFINE u == toFinish \o Held
  <2>1. RemoveFirst(Pending, main.task) = RemoveFirst(u, main.task) \o RemoveFirst(toProcess, main.task)
    <3>1. u \in Seq(Tasks) /\ Pending = u \o toProcess
      BY PendingParts DEF Pending
    <3> HIDE DEF u
    <3> QED
      BY <1>1, <3>1, RemoveFromConcat
  <2>2. RemoveFirst(toFinish \o Held, main.task) =
           RemoveFirst(toFinish, main.task) \o RemoveFirst(Held, main.task)
    BY <1>1, PendingParts, RemoveFromConcat
  <2> QED
    BY <2>1, <2>2
<1>5. RemoveFirst(Held, main.task) = Held /\ RemoveFirst(toProcess, main.task) = toProcess
  BY <1>1, <1>3, PendingParts, RemoveAbsent
<1>6. Pending' = RemoveFirst(Pending, main.task)
  BY <1>2, <1>4, <1>5 DEF Pending
<1> QED
  BY <1>1, <1>2, <1>6, PendingParts, RemoveFirstInjective

LEMMA DrainOneTakes ==
  ASSUME TypeOK, InStep, DrainOne
  PROVE  /\ Head(toFinish) \in Tasks /\ toFinish' \in Seq(Tasks)
         /\ Pending # << >> /\ Head(Pending) = Head(toFinish)
         /\ Pending' = Tail(Pending)
         /\ Pending' \in Seq(Tasks) /\ IsInjective(Pending')
<1>1. toFinish \in Seq(Tasks) /\ toProcess \in Seq(Tasks) /\ IsInjective(Pending)
  BY DEF TypeOK, InStep
<1>2. toFinish # << >> /\ toFinish' = Tail(toFinish) /\ toProcess' = toProcess /\ Held' = Held
  BY DEF DrainOne, Held
<1>3. Head(toFinish) \in Tasks /\ Tail(toFinish) \in Seq(Tasks)
  BY <1>1, <1>2, HeadAndTail
<1>4. /\ Pending # << >> /\ Head(Pending) = Head(toFinish)
      /\ Tail(Pending) = Tail(toFinish) \o (Held \o toProcess)
  <2> DEFINE u == Held \o toProcess
  <2>1. u \in Seq(Tasks) /\ Pending = toFinish \o u
    BY PendingParts
  <2> HIDE DEF u
  <2>2. /\ Pending # << >> /\ Head(Pending) = Head(toFinish)
        /\ Tail(Pending) = Tail(toFinish) \o u
    BY <1>1, <1>2, <2>1, TailOfConcat
  <2> QED
    BY <2>2 DEF u
<1>5. Pending' = Tail(Pending)
  <2>1. (Tail(toFinish) \o Held) \o toProcess = Tail(toFinish) \o (Held \o toProcess)
    <3> DEFINE a == Tail(toFinish)
    <3>1. a \in Seq(Tasks) /\ Held \in Seq(Tasks) /\ toProcess \in Seq(Tasks)
      BY <1>1, <1>3, PendingParts
    <3> HIDE DEF a
    <3>2. (a \o Held) \o toProcess = a \o (Held \o toProcess)
      BY <3>1, TasksConcat
    <3> QED
      BY <3>2 DEF a
  <2> QED
    BY <1>2, <1>4, <2>1, Zenon DEF Pending
<1>6. /\ <<Head(Pending)>> \in Seq(Tasks) /\ Tail(Pending) \in Seq(Tasks)
      /\ Pending = <<Head(Pending)>> \o Tail(Pending)
  BY <1>4, PendingParts, HeadAndTail, ShortMembers
<1>7. IsInjective(Tail(Pending))
  BY <1>1, <1>6, ConcatInjective
<1> QED
  BY <1>2, <1>3, <1>4, <1>5, <1>6, <1>7

(* The worker moves a task along the queue.                                *)
LEMMA TakeTaskMoves ==
  ASSUME TypeOK, InStep, TakeTask
  PROVE  /\ inProcess' \in Tasks /\ toProcess' \in Seq(Tasks)
         /\ Pending' = Pending /\ (Held \o toProcess)' = Held \o toProcess
<1>1. toFinish \in Seq(Tasks) /\ toProcess \in Seq(Tasks)
  BY DEF TypeOK
<1>2. /\ toProcess # << >> /\ toFinish' = toFinish /\ toProcess' = Tail(toProcess)
      /\ inProcess' = Head(toProcess) /\ inProcess = NoTask
  BY DEF TakeTask, Taken, InStep
<1>3. /\ Head(toProcess) \in Tasks /\ Tail(toProcess) \in Seq(Tasks)
      /\ toProcess = <<Head(toProcess)>> \o Tail(toProcess)
  BY <1>1, <1>2, HeadAndTail
<1>4. Held = << >> /\ Held' = <<Head(toProcess)>>
  BY <1>2, <1>3, NoTaskAssumption DEF Held
<1>5. Held \o toProcess = toProcess /\ (Held \o toProcess)' = toProcess
  BY <1>1, <1>2, <1>3, <1>4, ConcatEmptySeq
<1>6. <<Head(toProcess)>> \in Seq(Tasks)
  BY <1>3, ShortMembers
<1>7. Pending' = toFinish \o (Held \o toProcess)'
  BY <1>1, <1>2, <1>3, <1>4, <1>6, ConcatAssociative DEF Pending
<1> QED
  BY <1>2, <1>3, <1>5, <1>7, PendingParts

LEMMA ProcessedMoves ==
  ASSUME TypeOK, InStep, Processed
  PROVE  /\ toFinish' \in Seq(Tasks)
         /\ Pending' = Pending
         /\ ToSet((Held \o toProcess)') \subseteq ToSet(Held \o toProcess)
<1>1. toFinish \in Seq(Tasks) /\ toProcess \in Seq(Tasks)
  BY DEF TypeOK
<1>2. /\ toFinish' = Append(toFinish, inProcess) /\ toProcess' = toProcess
      /\ inProcess' = NoTask /\ inProcess \in Tasks
  BY PendingParts DEF Processed, InStep
<1>3. Held = <<inProcess>> /\ Held' = << >> /\ << >> \in Seq(Tasks)
  BY <1>2, NoTaskAssumption DEF Held
<1>4. toFinish' = toFinish \o Held /\ toFinish' \in Seq(Tasks)
  BY <1>1, <1>2, <1>3, AppendIsConcat, AppendProperties
<1>5. toFinish' \o Held' = toFinish \o Held
  BY <1>3, <1>4, ConcatEmptySeq
<1>6. (Held \o toProcess)' = toProcess
  BY <1>1, <1>2, <1>3, ConcatEmptySeq
<1> QED
  BY <1>2, <1>4, <1>5, <1>6, PendingParts DEF Pending

-------------------------------------------------------------------------------
(* The invariant.  Every critical section and every handler keeps it.      *)

LEMMA InitIInv == Init => IInv
<1> SUFFICES ASSUME Init PROVE IInv
  OBVIOUS
<1>1. Pending = << >> /\ << >> \in Seq(Tasks)
  <2>1. << >> \in Seq(Tasks) /\ Held = << >>
    BY DEF Init, Held
  <2> QED
    BY <2>1, ConcatEmptySeq DEF Init, Pending
<1>2. TypeOK
  BY <1>1 DEF Init, TypeOK, AtLoop, MainAt, WorkerAt
<1>3. InStep
  BY <1>1 DEF Init, InStep, AtLoop, IsInjective
<1>4. FinishAnnounced
  BY DEF Init, FinishAnnounced
<1> QED
  BY <1>2, <1>3, <1>4 DEF IInv

LEMMA AddTasksKeeps ==
  ASSUME IInv, AddTasks
  PROVE  IInv'
<1>1. TypeOK /\ InStep /\ FinishAnnounced
  BY DEF IInv
<1>2. TypeOK'
  BY <1>1, AddTasksAdds DEF AddTasks, TypeOK, MainAt, WorkerAt, AtLoop
<1>3. InStep'
  BY <1>1, AddTasksAdds, NoTaskAssumption DEF AddTasks, TypeOK, InStep, AtLoop
<1>4. FinishAnnounced'
  BY <1>1, AddTasksAdds DEF AddTasks, TypeOK, InStep, FinishAnnounced, AtLoop
<1> QED
  BY <1>2, <1>3, <1>4 DEF IInv

LEMMA CancelTaskKeeps ==
  ASSUME IInv, NEW t \in Tasks, CancelTask(t)
  PROVE  IInv'
<1>1. TypeOK /\ InStep /\ FinishAnnounced
  BY DEF IInv
<1>2. TypeOK'
  BY <1>1, CancelTaskRemoves DEF CancelTask, TypeOK, MainAt, WorkerAt, AtLoop, InProcessWithout
<1>3. InStep'
  BY <1>1, CancelTaskRemoves, NoTaskAssumption DEF CancelTask, TypeOK, InStep, AtLoop, InProcessWithout
<1>4. FinishAnnounced'
  BY <1>1, CancelTaskRemoves DEF CancelTask, TypeOK, InStep, FinishAnnounced, AtLoop, InProcessWithout
<1> QED
  BY <1>2, <1>3, <1>4 DEF IInv

LEMMA CancelReturnsKeeps ==
  ASSUME IInv, CancelReturns
  PROVE  IInv'
<1>1. TypeOK /\ InStep /\ FinishAnnounced
  BY DEF IInv
<1>2. TypeOK'
  BY <1>1, CancelReturnsRemoves DEF CancelReturns, TypeOK, MainAt, WorkerAt, AtLoop
<1>3. InStep'
  BY <1>1, CancelReturnsRemoves, NoTaskAssumption DEF CancelReturns, TypeOK, InStep, AtLoop
<1>4. FinishAnnounced'
  <2>1. toFinish = << >> => toFinish' = << >>
    BY RemoveAbsent, ShortMembers DEF CancelReturns, TypeOK, RemoveFirst
  <2> QED
    BY <1>1, <2>1 DEF CancelReturns, FinishAnnounced, AtLoop
<1> QED
  BY <1>2, <1>3, <1>4 DEF IInv

LEMMA DrainOneKeeps ==
  ASSUME IInv, DrainOne
  PROVE  IInv'
<1>1. TypeOK /\ InStep /\ FinishAnnounced
  BY DEF IInv
<1>2. TypeOK'
  BY <1>1, DrainOneTakes DEF DrainOne, TypeOK, MainAt, WorkerAt, AtLoop
<1>3. InStep'
  BY <1>1, DrainOneTakes, NoTaskAssumption DEF DrainOne, TypeOK, InStep, AtLoop
<1>4. FinishAnnounced'
  BY <1>1, DrainOneTakes DEF DrainOne, TypeOK, InStep, FinishAnnounced, AtLoop
<1> QED
  BY <1>2, <1>3, <1>4 DEF IInv

LEMMA TakeTaskKeeps ==
  ASSUME IInv, TakeTask
  PROVE  IInv'
<1>1. TypeOK /\ InStep /\ FinishAnnounced
  BY DEF IInv
<1>2. TypeOK'
  BY <1>1, TakeTaskMoves DEF TakeTask, TypeOK, MainAt, WorkerAt, AtLoop, Taken
<1>3. InStep'
  BY <1>1, TakeTaskMoves, NoTaskAssumption DEF TakeTask, TypeOK, InStep, AtLoop, Taken
<1>4. FinishAnnounced'
  BY <1>1, TakeTaskMoves DEF TakeTask, TypeOK, InStep, FinishAnnounced, AtLoop, Taken
<1> QED
  BY <1>2, <1>3, <1>4 DEF IInv

LEMMA ProcessedKeeps ==
  ASSUME IInv, Processed
  PROVE  IInv'
<1>1. TypeOK /\ InStep /\ FinishAnnounced
  BY DEF IInv
<1>2. TypeOK'
  BY <1>1, ProcessedMoves DEF Processed, TypeOK, MainAt, WorkerAt, AtLoop, Announces, TasksLeft
<1>3. InStep'
  BY <1>1, ProcessedMoves, NoTaskAssumption DEF Processed, TypeOK, InStep, AtLoop, Announces, TasksLeft
<1>4. FinishAnnounced'
  BY <1>1, ProcessedMoves DEF Processed, TypeOK, InStep, FinishAnnounced, AtLoop, Announces, TasksLeft
<1> QED
  BY <1>2, <1>3, <1>4 DEF IInv

LEMMA WakeThreadKeeps ==
  ASSUME IInv, WakeThread
  PROVE  IInv'
<1>1. TypeOK /\ InStep /\ FinishAnnounced
  BY DEF IInv
<1>2. Pending' = Pending /\ (Held \o toProcess)' = Held \o toProcess
  BY DEF WakeThread, Pending, Held
<1>3. TypeOK'
  <2>1. worker \in [at : WorkerAt, task : Tasks \cup {NoTask}, left : BOOLEAN]
    BY <1>1 DEF TypeOK
  <2>2. worker' \in [at : WorkerAt, task : Tasks \cup {NoTask}, left : BOOLEAN]
    BY <2>1 DEF WakeThread, WorkerAt
  <2>3. inProcess' \in {NoTask, worker'.task}
    BY <1>1, <2>1 DEF WakeThread, TypeOK
  <2>4. main' \in [at : MainAt, task : Tasks \cup {NoTask}]
    BY <1>1 DEF WakeThread, TypeOK, MainAt, AtLoop
  <2>5. added' \in Nat /\ processed' \in Nat
    BY <1>1 DEF WakeThread, TypeOK
  <2> QED
    BY <1>1, <2>2, <2>3, <2>4, <2>5 DEF WakeThread, TypeOK
<1>4. InStep'
  BY <1>1, <1>2 DEF WakeThread, TypeOK, InStep, AtLoop, BackToDrain
<1>5. FinishAnnounced'
  BY <1>1 DEF WakeThread, TypeOK, InStep, FinishAnnounced, AtLoop, BackToDrain
<1> QED
  BY <1>3, <1>4, <1>5 DEF IInv

LEMMA OnTaskProcessedKeeps ==
  ASSUME IInv, OnTaskProcessed
  PROVE  IInv'
<1>1. TypeOK /\ InStep /\ FinishAnnounced
  BY DEF IInv
<1>2. Pending' = Pending /\ (Held \o toProcess)' = Held \o toProcess
  BY DEF OnTaskProcessed, Pending, Held
<1>3. TypeOK'
  BY <1>1 DEF OnTaskProcessed, TypeOK, MainAt, WorkerAt, AtLoop, BackToDrain
<1>4. InStep'
  BY <1>1, <1>2 DEF OnTaskProcessed, TypeOK, InStep, AtLoop, BackToDrain
<1>5. FinishAnnounced'
  BY <1>1 DEF OnTaskProcessed, TypeOK, InStep, FinishAnnounced, AtLoop, BackToDrain
<1> QED
  BY <1>3, <1>4, <1>5 DEF IInv

LEMMA DrainDoneKeeps ==
  ASSUME IInv, DrainDone
  PROVE  IInv'
<1>1. TypeOK /\ InStep /\ FinishAnnounced
  BY DEF IInv
<1>2. Pending' = Pending /\ (Held \o toProcess)' = Held \o toProcess
  BY DEF DrainDone, Pending, Held
<1>3. TypeOK'
  BY <1>1 DEF DrainDone, TypeOK, MainAt, WorkerAt, AtLoop, BackToDrain
<1>4. InStep'
  BY <1>1, <1>2 DEF DrainDone, TypeOK, InStep, AtLoop, BackToDrain
<1>5. FinishAnnounced'
  BY <1>1 DEF DrainDone, TypeOK, InStep, FinishAnnounced, AtLoop, BackToDrain
<1> QED
  BY <1>3, <1>4, <1>5 DEF IInv

LEMMA FinishReturnsKeeps ==
  ASSUME IInv, FinishReturns
  PROVE  IInv'
<1>1. TypeOK /\ InStep /\ FinishAnnounced
  BY DEF IInv
<1>2. Pending' = Pending /\ (Held \o toProcess)' = Held \o toProcess
  BY DEF FinishReturns, Pending, Held
<1>3. TypeOK'
  BY <1>1 DEF FinishReturns, TypeOK, MainAt, WorkerAt, AtLoop, BackToDrain
<1>4. InStep'
  BY <1>1, <1>2 DEF FinishReturns, TypeOK, InStep, AtLoop, BackToDrain
<1>5. FinishAnnounced'
  BY <1>1 DEF FinishReturns, TypeOK, InStep, FinishAnnounced, AtLoop, BackToDrain
<1> QED
  BY <1>3, <1>4, <1>5 DEF IInv

LEMMA StopKeeps ==
  ASSUME IInv, Stop
  PROVE  IInv'
<1>1. TypeOK /\ InStep /\ FinishAnnounced
  BY DEF IInv
<1>2. Pending' = Pending /\ (Held \o toProcess)' = Held \o toProcess
  BY DEF Stop, Pending, Held
<1>3. TypeOK'
  BY <1>1 DEF Stop, TypeOK, MainAt, WorkerAt, AtLoop, BackToDrain
<1>4. InStep'
  BY <1>1, <1>2 DEF Stop, TypeOK, InStep, AtLoop, BackToDrain
<1>5. FinishAnnounced'
  BY <1>1 DEF Stop, TypeOK, InStep, FinishAnnounced, AtLoop, BackToDrain
<1> QED
  BY <1>3, <1>4, <1>5 DEF IInv

LEMMA StopReturnsKeeps ==
  ASSUME IInv, StopReturns
  PROVE  IInv'
<1>1. TypeOK /\ InStep /\ FinishAnnounced
  BY DEF IInv
<1>2. Pending' = Pending /\ (Held \o toProcess)' = Held \o toProcess
  BY DEF StopReturns, Pending, Held
<1>3. TypeOK'
  BY <1>1 DEF StopReturns, TypeOK, MainAt, WorkerAt, AtLoop, BackToDrain
<1>4. InStep'
  BY <1>1, <1>2 DEF StopReturns, TypeOK, InStep, AtLoop, BackToDrain
<1>5. FinishAnnounced'
  BY <1>1 DEF StopReturns, TypeOK, InStep, FinishAnnounced, AtLoop, BackToDrain
<1> QED
  BY <1>3, <1>4, <1>5 DEF IInv

LEMMA OnTaskAddedKeeps ==
  ASSUME IInv, OnTaskAdded
  PROVE  IInv'
<1>1. TypeOK /\ InStep /\ FinishAnnounced
  BY DEF IInv
<1>2. Pending' = Pending /\ (Held \o toProcess)' = Held \o toProcess
  BY DEF OnTaskAdded, Pending, Held
<1>3. TypeOK'
  <2>1. worker \in [at : WorkerAt, task : Tasks \cup {NoTask}, left : BOOLEAN]
    BY <1>1 DEF TypeOK
  <2>2. worker' \in [at : WorkerAt, task : Tasks \cup {NoTask}, left : BOOLEAN]
    BY <2>1 DEF OnTaskAdded, WorkerAt
  <2>3. inProcess' \in {NoTask, worker'.task}
    BY <1>1, <2>1 DEF OnTaskAdded, TypeOK
  <2>4. main' \in [at : MainAt, task : Tasks \cup {NoTask}]
    BY <1>1 DEF OnTaskAdded, TypeOK, MainAt
  <2>5. added' \in Nat /\ processed' \in Nat
    BY <1>1 DEF OnTaskAdded, TypeOK
  <2> QED
    BY <1>1, <2>2, <2>3, <2>4, <2>5 DEF OnTaskAdded, TypeOK
<1>4. InStep'
  BY <1>1, <1>2 DEF OnTaskAdded, TypeOK, InStep, AtLoop, BackToDrain
<1>5. FinishAnnounced'
  BY <1>1 DEF OnTaskAdded, TypeOK, InStep, FinishAnnounced, AtLoop, BackToDrain
<1> QED
  BY <1>3, <1>4, <1>5 DEF IInv

LEMMA TakeNothingKeeps ==
  ASSUME IInv, TakeNothing
  PROVE  IInv'
<1>1. TypeOK /\ InStep /\ FinishAnnounced
  BY DEF IInv
<1>2. Pending' = Pending /\ (Held \o toProcess)' = Held \o toProcess
  BY DEF TakeNothing, Pending, Held
<1>3. TypeOK'
  BY <1>1 DEF TakeNothing, TypeOK, MainAt, WorkerAt, AtLoop, BackToDrain
<1>4. InStep'
  BY <1>1, <1>2 DEF TakeNothing, TypeOK, InStep, AtLoop, BackToDrain
<1>5. FinishAnnounced'
  BY <1>1 DEF TakeNothing, TypeOK, InStep, FinishAnnounced, AtLoop, BackToDrain
<1> QED
  BY <1>3, <1>4, <1>5 DEF IInv

LEMMA ProcessedForNothingKeeps ==
  ASSUME IInv, ProcessedForNothing
  PROVE  IInv'
<1>1. TypeOK /\ InStep /\ FinishAnnounced
  BY DEF IInv
<1>2. Pending' = Pending /\ (Held \o toProcess)' = Held \o toProcess
  BY DEF ProcessedForNothing, Pending, Held
<1>3. TypeOK'
  BY <1>1 DEF ProcessedForNothing, TypeOK, MainAt, WorkerAt, AtLoop, BackToDrain
<1>4. InStep'
  BY <1>1, <1>2 DEF ProcessedForNothing, TypeOK, InStep, AtLoop, BackToDrain
<1>5. FinishAnnounced'
  BY <1>1 DEF ProcessedForNothing, TypeOK, InStep, FinishAnnounced, AtLoop, BackToDrain
<1> QED
  BY <1>3, <1>4, <1>5 DEF IInv

LEMMA EmitTaskProcessedKeeps ==
  ASSUME IInv, EmitTaskProcessed
  PROVE  IInv'
<1>1. TypeOK /\ InStep /\ FinishAnnounced
  BY DEF IInv
<1>2. Pending' = Pending /\ (Held \o toProcess)' = Held \o toProcess
  BY DEF EmitTaskProcessed, Pending, Held
<1>3. TypeOK'
  BY <1>1 DEF EmitTaskProcessed, TypeOK, MainAt, WorkerAt, AtLoop, BackToDrain
<1>4. InStep'
  BY <1>1, <1>2 DEF EmitTaskProcessed, TypeOK, InStep, AtLoop, BackToDrain
<1>5. FinishAnnounced'
  BY <1>1 DEF EmitTaskProcessed, TypeOK, InStep, FinishAnnounced, AtLoop, BackToDrain
<1> QED
  BY <1>3, <1>4, <1>5 DEF IInv

LEMMA EventsDeliveredKeeps ==
  ASSUME IInv, EventsDelivered
  PROVE  IInv'
<1>1. TypeOK /\ InStep /\ FinishAnnounced
  BY DEF IInv
<1>2. Pending' = Pending /\ (Held \o toProcess)' = Held \o toProcess
  BY DEF EventsDelivered, Pending, Held
<1>3. TypeOK'
  <2>1. worker \in [at : WorkerAt, task : Tasks \cup {NoTask}, left : BOOLEAN]
    BY <1>1 DEF TypeOK
  <2>2. worker' \in [at : WorkerAt, task : Tasks \cup {NoTask}, left : BOOLEAN]
    BY <2>1 DEF EventsDelivered, WorkerAt
  <2>3. inProcess' \in {NoTask, worker'.task}
    BY <1>1, <2>1 DEF EventsDelivered, TypeOK, InStep
  <2>4. main' \in [at : MainAt, task : Tasks \cup {NoTask}]
    BY <1>1 DEF EventsDelivered, TypeOK, MainAt
  <2>5. added' \in Nat /\ processed' \in Nat
    BY <1>1 DEF EventsDelivered, TypeOK
  <2> QED
    BY <1>1, <2>2, <2>3, <2>4, <2>5 DEF EventsDelivered, TypeOK
<1>4. InStep'
  BY <1>1, <1>2 DEF EventsDelivered, TypeOK, InStep, AtLoop, BackToDrain
<1>5. FinishAnnounced'
  BY <1>1 DEF EventsDelivered, TypeOK, InStep, FinishAnnounced, AtLoop, BackToDrain
<1> QED
  BY <1>3, <1>4, <1>5 DEF IInv

LEMMA ThreadExitsKeeps ==
  ASSUME IInv, ThreadExits
  PROVE  IInv'
<1>1. TypeOK /\ InStep /\ FinishAnnounced
  BY DEF IInv
<1>2. Pending' = Pending /\ (Held \o toProcess)' = Held \o toProcess
  BY DEF ThreadExits, Pending, Held
<1>3. TypeOK'
  BY <1>1 DEF ThreadExits, TypeOK, MainAt, WorkerAt, AtLoop, BackToDrain
<1>4. InStep'
  BY <1>1, <1>2 DEF ThreadExits, TypeOK, InStep, AtLoop, BackToDrain
<1>5. FinishAnnounced'
  BY <1>1 DEF ThreadExits, TypeOK, InStep, FinishAnnounced, AtLoop, BackToDrain
<1> QED
  BY <1>3, <1>4, <1>5 DEF IInv

LEMMA StutterKeeps ==
  ASSUME IInv, UNCHANGED vars
  PROVE  IInv'
BY DEF IInv, TypeOK, InStep, FinishAnnounced, Pending, Held, vars

LEMMA IInvInductive == IInv /\ [Next]_vars => IInv'
<1> SUFFICES ASSUME IInv, [Next]_vars PROVE IInv'
  OBVIOUS
<1>1. CASE AddTasks
  BY <1>1, AddTasksKeeps
<1>2. CASE Stop
  BY <1>2, StopKeeps
<1>3. CASE OnTaskProcessed
  BY <1>3, OnTaskProcessedKeeps
<1>4. CASE WakeThread
  BY <1>4, WakeThreadKeeps
<1>5. CASE CancelReturns
  BY <1>5, CancelReturnsKeeps
<1>6. CASE DrainOne
  BY <1>6, DrainOneKeeps
<1>7. CASE DrainDone
  BY <1>7, DrainDoneKeeps
<1>8. CASE FinishReturns
  BY <1>8, FinishReturnsKeeps
<1>9. CASE StopReturns
  BY <1>9, StopReturnsKeeps
<1>10. CASE OnTaskAdded
  BY <1>10, OnTaskAddedKeeps
<1>11. CASE TakeTask
  BY <1>11, TakeTaskKeeps
<1>12. CASE TakeNothing
  BY <1>12, TakeNothingKeeps
<1>13. CASE Processed
  BY <1>13, ProcessedKeeps
<1>14. CASE ProcessedForNothing
  BY <1>14, ProcessedForNothingKeeps
<1>15. CASE EmitTaskProcessed
  BY <1>15, EmitTaskProcessedKeeps
<1>16. CASE EventsDelivered
  BY <1>16, EventsDeliveredKeeps
<1>17. CASE ThreadExits
  BY <1>17, ThreadExitsKeeps
<1>18. CASE \E t \in Tasks : CancelTask(t)
  BY <1>18, CancelTaskKeeps
<1>19. CASE UNCHANGED vars
  BY <1>19, StutterKeeps
<1> QED
  BY <1>1, <1>2, <1>3, <1>4, <1>5, <1>6, <1>7, <1>8, <1>9, <1>10, <1>11, <1>12, <1>13, <1>14, <1>15, <1>16, <1>17, <1>18, <1>19
     DEF Next, MainStep, WorkerStep

(* Every reachable state satisfies the invariant.                          *)
THEOREM TaskQueueInvariant == Spec => []IInv
BY InitIInv, IInvInductive, PTL DEF Spec

(* Type correctness: the queues hold tasks, and _taskInProcessId is the    *)
(* task the worker has in hand or none.                                    *)
THEOREM TaskQueueTypes == Spec => []TypeOK
<1>1. IInv => TypeOK
  BY DEF IInv
<1> QED
  BY <1>1, TaskQueueInvariant, PTL

(* A task that is ready to finish is never forgotten, although the worker  *)
(* only signals when the queue to the main thread was empty: whatever is   *)
(* added and canceled, and whenever the thread is stopped.                 *)
THEOREM TaskQueueFinishAnnounced == Spec => []FinishAnnounced
<1>1. IInv => FinishAnnounced
  BY DEF IInv
<1> QED
  BY <1>1, TaskQueueInvariant, PTL

-------------------------------------------------------------------------------
(* The two threads implement JobQueue: what each step of theirs is to the  *)
(* thread that owns the queue.                                             *)

(* JobQueue's operators on sequences are this module's.                    *)
LEMMA JobsSequences ==
  /\ \A s, e : Jobs!RemoveFirst(s, e) = RemoveFirst(s, e)
  /\ \A s, t : Jobs!IsPrefix(s, t) <=> IsPrefix(s, t)
  /\ \A s : Jobs!IsInjective(s) <=> IsInjective(s)
<1>1. \A s, e : Jobs!RemoveFirst(s, e) = RemoveFirst(s, e)
  BY DEF Jobs!RemoveFirst, Jobs!RemoveAt, Jobs!SelectInSeq, Jobs!Min,
         RemoveFirst, RemoveAt, SelectInSeq, Min
<1>2. \A s, t : Jobs!IsPrefix(s, t) <=> IsPrefix(s, t)
  BY DEF Jobs!IsPrefix, IsPrefix
<1>3. \A s : Jobs!IsInjective(s) <=> IsInjective(s)
  BY DEF Jobs!IsInjective, IsInjective
<1> QED
  BY <1>1, <1>2, <1>3

LEMMA PrefixOfConcat ==
  ASSUME NEW S, NEW s \in Seq(S), NEW t \in Seq(S)
  PROVE  IsPrefix(s, s \o t)
<1> DEFINE c == s \o t
<1>1. /\ c \in Seq(S) /\ Len(c) = Len(s) + Len(t)
      /\ \A i \in 1 .. Len(s) + Len(t) : c[i] = IF i <= Len(s) THEN s[i] ELSE t[i - Len(s)]
  BY ConcatProperties
<1>2. Len(s) \in Nat /\ Len(t) \in Nat
  OBVIOUS
<1> HIDE DEF c
<1>3. \A i \in 1 .. Len(s) : c[i] = s[i] /\ c[i] \in S /\ s[i] \in S
  BY <1>1, <1>2
<1> DEFINE a == SubSeq(s, 1, Len(s))
           b == SubSeq(c, 1, Len(s))
<1>4. /\ a \in Seq(S) /\ Len(a) = IF 1 <= Len(s) THEN Len(s) - 1 + 1 ELSE 0
      /\ \A i \in 1 .. Len(s) - 1 + 1 : a[i] = s[1 + i - 1]
  BY <1>2, <1>3, SubSeqProperties
<1>5. /\ b \in Seq(S) /\ Len(b) = IF 1 <= Len(s) THEN Len(s) - 1 + 1 ELSE 0
      /\ \A i \in 1 .. Len(s) - 1 + 1 : b[i] = c[1 + i - 1]
  BY <1>2, <1>3, SubSeqProperties
<1> HIDE DEF a, b
<1>6. Len(a) = Len(s) /\ Len(b) = Len(s)
  BY <1>2, <1>4, <1>5
<1>7. \A i \in 1 .. Len(a) : a[i] = b[i]
  BY <1>2, <1>3, <1>4, <1>5, <1>6
<1>8. a = b
  BY <1>4, <1>5, <1>6, <1>7, SeqEqual
<1>9. Len(s) <= Len(c)
  BY <1>1, <1>2
<1> QED
  BY <1>8, <1>9 DEF IsPrefix, a, b, c

LEMMA InitJobs == Init => Jobs!Init
<1> SUFFICES ASSUME Init PROVE Jobs!Init
  OBVIOUS
<1>1. toFinish \o Held \o toProcess = << >>
  <2>1. << >> \in Seq(Tasks) /\ Held = << >>
    BY DEF Init, Held
  <2> QED
    BY <2>1, ConcatEmptySeq DEF Init
<1> QED
  BY <1>1 DEF Init, AtLoop, Jobs!Init

LEMMA JobsStep ==
  ASSUME IInv, [Next]_vars
  PROVE  [Jobs!Next]_(Jobs!vars)
<1>1. TypeOK /\ InStep
  BY DEF IInv
<1> USE DEF Pending
<1>2. CASE AddTasks
  <2>1. PICK batch \in Seq(Tasks) : Pending' = Pending \o batch
    BY <1>1, <1>2, AddTasksAdds
  <2>2. Pending' \in Seq(Tasks) /\ IsInjective(Pending') /\ IsPrefix(Pending, Pending')
    BY <1>1, <1>2, <2>1, AddTasksAdds, PendingParts, PrefixOfConcat
  <2>3. main.at = "loop" /\ main'.at = "wake"
    BY <1>1, <1>2 DEF AddTasks, TypeOK
  <2>4. Jobs!Add
    BY <2>2, <2>3, JobsSequences DEF Jobs!Add, Jobs!OwnerIsFree
  <2> QED
    BY <2>4 DEF Jobs!Next
<1>3. ASSUME NEW t \in Tasks, CancelTask(t) PROVE Jobs!Next
  <2>1. Pending' \in {Pending, RemoveFirst(Pending, t)}
    BY <1>1, <1>3, CancelTaskRemoves
  <2>2. main.at = "loop" /\ main'.at = "cancel" /\ main'.task = t
    BY <1>3 DEF CancelTask
  <2>3. Jobs!Cancel(t)
    BY <2>1, <2>2, JobsSequences DEF Jobs!Cancel, Jobs!OwnerIsFree
  <2> QED
    BY <2>3 DEF Jobs!Next
<1>4. CASE CancelReturns
  <2>1. Pending' = RemoveFirst(Pending, main.task)
    BY <1>1, <1>4, CancelReturnsRemoves
  <2>2. main.at = "cancel" /\ main.task # NoTask /\ main'.at = "loop"
    BY <1>1, <1>4 DEF CancelReturns, InStep, AtLoop
  <2>3. Jobs!CancelReturns
    BY <2>1, <2>2, JobsSequences DEF Jobs!CancelReturns
  <2> QED
    BY <2>3 DEF Jobs!Next
<1>5. CASE DrainOne
  <2>1. Pending # << >> /\ Head(Pending) = Head(toFinish) /\ Pending' = Tail(Pending)
    BY <1>1, <1>5, DrainOneTakes
  <2>2. main.at = "drain" /\ main'.at = "finish" /\ main'.task = Head(toFinish)
    BY <1>5 DEF DrainOne
  <2>3. Jobs!Finish
    BY <2>1, <2>2 DEF Jobs!Finish, Jobs!OwnerIsFree
  <2> QED
    BY <2>3 DEF Jobs!Next
<1>6. CASE FinishReturns
  <2>1. main.at = "finish" /\ main.task # NoTask /\ main'.at = "drain"
    BY <1>1, <1>6 DEF FinishReturns, InStep, BackToDrain
  <2>2. Pending' = Pending
    BY <1>6 DEF FinishReturns, Held
  <2>3. Jobs!FinishReturns
    BY <2>1, <2>2 DEF Jobs!FinishReturns
  <2> QED
    BY <2>3 DEF Jobs!Next
<1>7. ASSUME Pending' = Pending,
             main' = main \/ (/\ main.at \notin {"finish", "cancel"}
                              /\ main'.at \notin {"finish", "cancel"})
      PROVE  UNCHANGED Jobs!vars
  BY <1>7 DEF Jobs!vars
<1>8. CASE TakeTask
  BY <1>1, <1>7, <1>8, TakeTaskMoves DEF TakeTask
<1>9. CASE Processed
  BY <1>1, <1>7, <1>9, ProcessedMoves DEF Processed
<1>10. CASE WakeThread
  BY <1>1, <1>7, <1>10 DEF WakeThread, TypeOK, AtLoop, Held
<1>11. CASE OnTaskProcessed
  BY <1>1, <1>7, <1>11 DEF OnTaskProcessed, TypeOK, AtLoop, Held
<1>12. CASE DrainDone
  BY <1>1, <1>7, <1>12 DEF DrainDone, TypeOK, AtLoop, Held
<1>13. CASE Stop
  BY <1>1, <1>7, <1>13 DEF Stop, TypeOK, AtLoop, Held
<1>14. CASE StopReturns
  BY <1>1, <1>7, <1>14 DEF StopReturns, TypeOK, AtLoop, Held
<1>15. CASE OnTaskAdded
  BY <1>7, <1>15 DEF OnTaskAdded, Held
<1>16. CASE TakeNothing
  BY <1>7, <1>16 DEF TakeNothing, Held
<1>17. CASE ProcessedForNothing
  BY <1>7, <1>17 DEF ProcessedForNothing, Held
<1>18. CASE EmitTaskProcessed
  BY <1>7, <1>18 DEF EmitTaskProcessed, Held
<1>19. CASE EventsDelivered
  BY <1>7, <1>19 DEF EventsDelivered, Held
<1>20. CASE ThreadExits
  BY <1>7, <1>20 DEF ThreadExits, Held
<1>21. CASE UNCHANGED vars
  BY <1>7, <1>21 DEF vars, Held
<1> QED
  BY <1>2, <1>3, <1>4, <1>5, <1>6, <1>8, <1>9, <1>10, <1>11, <1>12, <1>13, <1>14, <1>15, <1>16, <1>17, <1>18, <1>19, <1>20, <1>21
     DEF Next, MainStep, WorkerStep

(* The refinement: to the thread that owns it the queue, its worker and    *)
(* the cancels in between are one FIFO of tasks, each finished once and in *)
(* the order added, and a canceled one gone when cancelTask() returns.     *)
THEOREM TaskQueueIsJobQueue == Spec => IsJobQueue
<1>1. Init => Jobs!Init
  BY InitJobs
<1>2. IInv /\ [Next]_vars => [Jobs!Next]_(Jobs!vars)
  BY JobsStep
<1> QED
  BY <1>1, <1>2, TaskQueueInvariant, PTL DEF Spec, IsJobQueue, Jobs!Spec
-------------------------------------------------------------------------------
(* When the worker leaves tasks behind.                                    *)
LEMMA LeavesBehind ==
  ASSUME IInv, [Next]_vars, Attended, ~ Attended'
  PROVE  \/ EventsDelivered /\ added > 0
         \/ \E t \in Tasks : CancelTask(t) /\ t = worker.task
         \/ main.at = "stop" \/ worker.at = "dead"
<1>1. TypeOK /\ InStep
  BY DEF IInv
<1> SUFFICES ASSUME main.at # "stop", worker.at # "dead"
             PROVE  \/ EventsDelivered /\ added > 0
                    \/ \E t \in Tasks : CancelTask(t) /\ t = worker.task
  OBVIOUS
<1>2. CASE AddTasks
  BY <1>1, <1>2 DEF AddTasks, Attended, TypeOK, InStep, AtLoop, BackToDrain, Taken, TasksLeft, Announces
<1>3. CASE WakeThread
  BY <1>1, <1>3 DEF WakeThread, Attended, TypeOK, InStep, AtLoop, BackToDrain, Taken, TasksLeft, Announces
<1>4. CASE CancelReturns
  BY <1>1, <1>4 DEF CancelReturns, Attended, TypeOK, InStep, AtLoop, BackToDrain, Taken, TasksLeft, Announces
<1>5. CASE OnTaskProcessed
  BY <1>1, <1>5 DEF OnTaskProcessed, Attended, TypeOK, InStep, AtLoop, BackToDrain, Taken, TasksLeft, Announces
<1>6. CASE DrainOne
  BY <1>1, <1>6 DEF DrainOne, Attended, TypeOK, InStep, AtLoop, BackToDrain, Taken, TasksLeft, Announces
<1>7. CASE DrainDone
  BY <1>1, <1>7 DEF DrainDone, Attended, TypeOK, InStep, AtLoop, BackToDrain, Taken, TasksLeft, Announces
<1>8. CASE FinishReturns
  BY <1>1, <1>8 DEF FinishReturns, Attended, TypeOK, InStep, AtLoop, BackToDrain, Taken, TasksLeft, Announces
<1>9. CASE Stop
  BY <1>1, <1>9 DEF Stop, Attended, TypeOK, InStep, AtLoop, BackToDrain, Taken, TasksLeft, Announces
<1>10. CASE StopReturns
  BY <1>1, <1>10 DEF StopReturns, Attended, TypeOK, InStep, AtLoop, BackToDrain, Taken, TasksLeft, Announces
<1>11. CASE OnTaskAdded
  BY <1>1, <1>11 DEF OnTaskAdded, Attended, TypeOK, InStep, AtLoop, BackToDrain, Taken, TasksLeft, Announces
<1>12. CASE TakeTask
  BY <1>1, <1>12 DEF TakeTask, Attended, TypeOK, InStep, AtLoop, BackToDrain, Taken, TasksLeft, Announces
<1>13. CASE TakeNothing
  BY <1>1, <1>13 DEF TakeNothing, Attended, TypeOK, InStep, AtLoop, BackToDrain, Taken, TasksLeft, Announces
<1>14. CASE Processed
  BY <1>1, <1>14 DEF Processed, Attended, TypeOK, InStep, AtLoop, BackToDrain, Taken, TasksLeft, Announces
<1>15. CASE ProcessedForNothing
  BY <1>1, <1>15 DEF ProcessedForNothing, Attended, TypeOK, InStep, AtLoop, BackToDrain, Taken, TasksLeft, Announces
<1>16. CASE EmitTaskProcessed
  BY <1>1, <1>16 DEF EmitTaskProcessed, Attended, TypeOK, InStep, AtLoop, BackToDrain, Taken, TasksLeft, Announces
<1>17. CASE ThreadExits
  BY <1>1, <1>17 DEF ThreadExits, Attended, TypeOK, InStep, AtLoop, BackToDrain, Taken, TasksLeft, Announces
<1>18. CASE EventsDelivered
  BY <1>1, <1>18 DEF EventsDelivered, Attended, TypeOK
<1>19. ASSUME NEW t \in Tasks, CancelTask(t) PROVE t = worker.task
  BY <1>1, <1>19, ShortMembers DEF CancelTask, InProcessWithout, RemoveFirst, Attended, TypeOK
<1>20. CASE UNCHANGED vars
  BY <1>20 DEF vars, Attended
<1> QED
  BY <1>2, <1>3, <1>4, <1>5, <1>6, <1>7, <1>8, <1>9, <1>10, <1>11, <1>12, <1>13, <1>14, <1>15, <1>16, <1>17, <1>18, <1>19, <1>20
     DEF Next, MainStep, WorkerStep

(* The worker's loop is left with tasks still queued, and nobody coming,   *)
(* only where a signal is swallowed by the loop it was meant to start, the *)
(* task in hand is canceled, or the thread is being stopped or gone.       *)
THEOREM TaskQueueLeftBehind == Spec => LeftBehindOnlyBy
<1>1. IInv /\ [Next]_vars =>
         [Attended /\ ~ Attended' =>
             \/ EventsDelivered /\ added > 0
             \/ \E t \in Tasks : CancelTask(t) /\ t = worker.task
             \/ main.at = "stop" \/ worker.at = "dead"]_vars
  BY LeavesBehind
<1> QED
  BY <1>1, TaskQueueInvariant, PTL DEF Spec, LeftBehindOnlyBy
================================================================================
