--------------------------- MODULE ChannelProofs ----------------------------
(***************************************************************************)
(* The channel of the SDK's coroutines: proofs about Channel for any       *)
(* goroutines and buffer, and that Coroutine keeps to it.                  *)
(***************************************************************************)
EXTENDS Coroutine, SequenceTheorems, TLAPS

(* The loop that takes a waiter out of its queue takes it out at one index. *)
LEMMA Removed ==
  ASSUME NEW S, NEW s \in Seq(S), NEW e, \E i \in 1 .. Len(s) : s[i] = e
  PROVE  \E i \in 1 .. Len(s) : s[i] = e /\ Without(s, e) = CutAt(s, i)
<1> DEFINE i == CHOOSE i \in DOMAIN s : s[i] = e
<1>1. e \in Range(s) /\ i \in DOMAIN s /\ s[i] = e
  BY DEF Range
<1>2. Without(s, e) = CutAt(s, i)
  BY Zenon, <1>1 DEF Without
<1>3. DOMAIN s = 1 .. Len(s)
  OBVIOUS
<1> QED
  BY Zenon, <1>1, <1>2, <1>3

(* What is left of a sequence without its element at i. *)
LEMMA RemovedAt ==
  ASSUME NEW S, NEW s \in Seq(S), NEW i \in 1 .. Len(s)
  PROVE  /\ CutAt(s, i) \in Seq(S) /\ Len(CutAt(s, i)) = Len(s) - 1
         /\ \A j \in 1 .. Len(s) - 1 : CutAt(s, i)[j] = IF j < i THEN s[j] ELSE s[j + 1]
<1> DEFINE a == SubSeq(s, 1, i - 1)     b == SubSeq(s, i + 1, Len(s))
<1>0. Len(s) \in Nat
  BY LenProperties
<1>1. a \in Seq(S) /\ Len(a) = i - 1 /\ \A j \in 1 .. i - 1 : a[j] = s[j]
  BY <1>0, SubSeqProperties
<1>2. b \in Seq(S) /\ Len(b) = Len(s) - i /\ \A j \in 1 .. Len(s) - i : b[j] = s[i + j]
  BY <1>0, SubSeqProperties
<1> HIDE DEF a, b
<1> DEFINE c == a \o b
<1>3. /\ c \in Seq(S) /\ Len(c) = Len(a) + Len(b)
      /\ \A j \in 1 .. Len(a) + Len(b) : c[j] = IF j <= Len(a) THEN a[j] ELSE b[j - Len(a)]
  BY <1>1, <1>2, ConcatProperties, Zenon
<1>c. CutAt(s, i) = c
  BY DEF CutAt, a, b
<1> HIDE DEF c
<1>m. Len(a) + Len(b) = Len(s) - 1
  BY <1>0, <1>1, <1>2
<1>n. \A j \in 1 .. Len(s) - 1 : c[j] = IF j <= i - 1 THEN a[j] ELSE b[j - (i - 1)]
  BY Zenon, <1>1, <1>3, <1>m
<1>4. ASSUME NEW j \in 1 .. Len(s) - 1 PROVE c[j] = IF j < i THEN s[j] ELSE s[j + 1]
  <2>1. CASE j < i
    <3>1. j <= i - 1 /\ j \in 1 .. i - 1
      BY <2>1
    <3>2. c[j] = a[j]
      BY <1>n, <3>1
    <3>3. a[j] = s[j]
      BY <1>1, <3>1
    <3> QED
      BY <2>1, <3>2, <3>3
  <2>2. CASE ~(j < i)
    <3>1. ~(j <= i - 1) /\ j - (i - 1) \in 1 .. Len(s) - i /\ i + (j - (i - 1)) = j + 1
      BY <1>0, <2>2
    <3>2. c[j] = b[j - (i - 1)]
      BY <1>n, <3>1
    <3>3. b[j - (i - 1)] = s[i + (j - (i - 1))]
      BY <1>2, <3>1
    <3> QED
      BY <2>2, <3>1, <3>2, <3>3
  <2> QED
    BY <2>1, <2>2
<1>5. Len(c) = Len(s) - 1
  BY <1>0, <1>1, <1>2, <1>3
<1> QED
  BY <1>3, <1>4, <1>5, <1>c

-----------------------------------------------------------------------------
(* The line: what Append, Head and Tail do to a concatenation. *)
LEMMA LineAppend ==
  ASSUME NEW S, NEW s \in Seq(S), NEW t \in Seq(S), NEW e \in S
  PROVE  s \o Append(t, e) = Append(s \o t, e)
<1>1. <<e>> \in Seq(S) /\ s \o t \in Seq(S)
  BY ConcatProperties
<1>2. Append(t, e) = t \o <<e>> /\ Append(s \o t, e) = (s \o t) \o <<e>>
  BY <1>1, AppendIsConcat
<1>3. (s \o t) \o <<e>> = s \o (t \o <<e>>)
  BY <1>1, ConcatAssociative
<1> QED
  BY <1>2, <1>3

(* The head of the second part of a line moved to the first. *)
LEMMA LineShift ==
  ASSUME NEW S, NEW s \in Seq(S), NEW t \in Seq(S), t # <<>>
  PROVE  Append(s, Head(t)) \o Tail(t) = s \o t
<1>1. Head(t) \in S /\ Tail(t) \in Seq(S) /\ <<Head(t)>> \in Seq(S)
  BY HeadTailProperties
<1>2. Append(s, Head(t)) = s \o <<Head(t)>>
  BY <1>1, AppendIsConcat
<1>3. (s \o <<Head(t)>>) \o Tail(t) = s \o (<<Head(t)>> \o Tail(t))
  BY <1>1, ConcatAssociative
<1>4. <<Head(t)>> \o Tail(t) = t
  <2> DEFINE h == <<Head(t)>>
  <2>0. Len(h) = 1 /\ h[1] = t[1] /\ h \in Seq(S)
    BY <1>1
  <2>1. Len(t) \in Nat /\ Len(Tail(t)) = Len(t) - 1 /\ \A i \in 1 .. Len(Tail(t)) : Tail(t)[i] = t[i + 1]
    BY HeadTailProperties, LenProperties
  <2> HIDE DEF h
  <2> DEFINE c == h \o Tail(t)
  <2>2. /\ c \in Seq(S) /\ Len(c) = Len(h) + Len(Tail(t))
        /\ \A i \in 1 .. Len(h) + Len(Tail(t)) : c[i] = IF i <= Len(h) THEN h[i] ELSE Tail(t)[i - Len(h)]
    BY <1>1, <2>0, ConcatProperties, Zenon
  <2> HIDE DEF c
  <2>3. Len(c) = Len(t)
    BY <2>0, <2>1, <2>2
  <2>4. \A i \in 1 .. Len(t) : c[i] = IF i <= 1 THEN h[i] ELSE Tail(t)[i - 1]
    BY <2>0, <2>1, <2>2
  <2>5. ASSUME NEW i \in 1 .. Len(c) PROVE c[i] = t[i]
    <3>1. CASE i = 1
      BY <2>0, <2>3, <2>4, <3>1
    <3>2. CASE i # 1
      <4>1. i - 1 \in 1 .. Len(Tail(t)) /\ ~(i <= 1) /\ (i - 1) + 1 = i /\ i \in 1 .. Len(t)
        BY <2>1, <2>3, <3>2
      <4>2. c[i] = Tail(t)[i - 1]
        BY <2>4, <4>1
      <4>3. Tail(t)[i - 1] = t[(i - 1) + 1]
        BY <2>1, <4>1
      <4> QED
        BY <4>1, <4>2, <4>3
    <3> QED
      BY <3>1, <3>2
  <2>6. c = t
    BY <2>2, <2>3, <2>5, SeqEqual
  <2> QED
    BY <2>6 DEF c, h
<1> QED
  BY <1>2, <1>3, <1>4

(* An element taken out of the second part of a line. *)
LEMMA LineRemove ==
  ASSUME NEW S, NEW s \in Seq(S), NEW t \in Seq(S), NEW k \in 1 .. Len(t)
  PROVE  /\ s \o CutAt(t, k) = CutAt(s \o t, Len(s) + k)
         /\ Len(s) + k \in 1 .. Len(s \o t) /\ (s \o t)[Len(s) + k] = t[k]
<1> DEFINE c == s \o t     r == CutAt(t, k)     n == Len(s) + k
<1>0. Len(s) \in Nat /\ Len(t) \in Nat
  BY LenProperties
<1>1. /\ c \in Seq(S) /\ Len(c) = Len(s) + Len(t)
      /\ \A i \in 1 .. Len(s) + Len(t) : c[i] = IF i <= Len(s) THEN s[i] ELSE t[i - Len(s)]
  BY ConcatProperties, Zenon
<1>2. /\ r \in Seq(S) /\ Len(r) = Len(t) - 1
      /\ \A j \in 1 .. Len(t) - 1 : r[j] = IF j < k THEN t[j] ELSE t[j + 1]
  BY RemovedAt
<1> HIDE DEF c, r
<1>3. n \in 1 .. Len(c) /\ c[n] = t[k]
  <2>1. n \in 1 .. Len(c) /\ ~(n <= Len(s)) /\ n - Len(s) = k
    BY <1>0, <1>1
  <2> QED
    BY <1>1, <2>1
<1> DEFINE x == s \o r     y == CutAt(c, n)
<1>4. /\ x \in Seq(S) /\ Len(x) = Len(s) + Len(r)
      /\ \A i \in 1 .. Len(s) + Len(r) : x[i] = IF i <= Len(s) THEN s[i] ELSE r[i - Len(s)]
  BY <1>2, ConcatProperties, Zenon
<1>5. /\ y \in Seq(S) /\ Len(y) = Len(c) - 1
      /\ \A j \in 1 .. Len(c) - 1 : y[j] = IF j < n THEN c[j] ELSE c[j + 1]
  BY Zenon, <1>1, <1>3, RemovedAt
<1> HIDE DEF x, y
<1>6. Len(x) = Len(y) /\ Len(x) = Len(s) + Len(t) - 1
  BY <1>0, <1>1, <1>2, <1>4, <1>5
<1>7. ASSUME NEW i \in 1 .. Len(x) PROVE x[i] = y[i]
  <2>0. i \in 1 .. Len(s) + Len(r) /\ i \in 1 .. Len(c) - 1 /\ i \in 1 .. Len(s) + Len(t) /\ i + 1 \in 1 .. Len(s) + Len(t)
    BY <1>0, <1>1, <1>2, <1>6
  <2>1. CASE i <= Len(s)
    <3>1. i < n
      BY <1>0, <2>1
    <3>2. x[i] = s[i] /\ y[i] = c[i] /\ c[i] = s[i]
      BY <1>1, <1>4, <1>5, <2>0, <2>1, <3>1
    <3> QED
      BY <3>2
  <2>2. CASE ~(i <= Len(s)) /\ i < n
    <3>1. x[i] = r[i - Len(s)] /\ y[i] = c[i] /\ c[i] = t[i - Len(s)]
      BY Zenon, <1>1, <1>4, <1>5, <2>0, <2>2
    <3>2. i - Len(s) \in 1 .. Len(t) - 1 /\ i - Len(s) < k
      BY <1>0, <1>6, <2>2
    <3>3. r[i - Len(s)] = t[i - Len(s)]
      BY Zenon, <1>2, <3>2
    <3> QED
      BY <3>1, <3>3
  <2>3. CASE ~(i <= Len(s)) /\ ~(i < n)
    <3>0. ~(i + 1 <= Len(s)) /\ (i + 1) - Len(s) = (i - Len(s)) + 1
      BY <1>0, <2>3
    <3>1. x[i] = r[i - Len(s)] /\ y[i] = c[i + 1] /\ c[i + 1] = t[(i + 1) - Len(s)]
      BY <1>1, <1>4, <1>5, <2>0, <2>3, <3>0
    <3>2. i - Len(s) \in 1 .. Len(t) - 1 /\ ~(i - Len(s) < k)
      BY <1>0, <1>6, <2>3
    <3>3. r[i - Len(s)] = t[(i - Len(s)) + 1]
      BY Zenon, <1>2, <3>2
    <3> QED
      BY <3>0, <3>1, <3>3
  <2> QED
    BY <2>1, <2>2, <2>3
<1>8. x = y
  BY <1>4, <1>5, <1>6, <1>7, SeqEqual
<1> QED
  BY <1>3, <1>8 DEF x, y, c, r

(* The values of a line that only grows by the next number, or loses one value. *)
LEMMA GrowsByNext ==
  ASSUME NEW s \in Seq(Nat), NEW n \in Nat, Increasing(s), Range(s) \subseteq 1 .. n
  PROVE  Increasing(Append(s, n + 1)) /\ Range(Append(s, n + 1)) = Range(s) \cup {n + 1}
<1> DEFINE a == Append(s, n + 1)
<1>1. /\ a \in Seq(Nat) /\ Len(a) = Len(s) + 1 /\ (\A i \in 1 .. Len(s) : a[i] = s[i]) /\ a[Len(s) + 1] = n + 1
  BY AppendProperties
<1>2. Len(s) \in Nat /\ DOMAIN s = 1 .. Len(s) /\ DOMAIN a = 1 .. Len(a)
  BY <1>1, LenProperties
<1> HIDE DEF a
<1>3. \A i \in 1 .. Len(s) : s[i] \in 1 .. n
  BY <1>2 DEF Range
<1>4. Increasing(a)
  <2>1. ASSUME NEW i \in 1 .. Len(a), NEW j \in 1 .. Len(a), i < j PROVE a[i] < a[j]
    <3>1. i \in 1 .. Len(s)
      BY <1>1, <1>2, <2>1
    <3>2. CASE j = Len(s) + 1
      <4>1. a[j] = n + 1 /\ a[i] = s[i]
        BY <1>1, <3>1, <3>2
      <4>2. s[i] \in 1 .. n
        BY <1>3, <3>1
      <4> QED
        BY <4>1, <4>2
    <3>3. CASE j # Len(s) + 1
      <4>1. j \in 1 .. Len(s)
        BY <1>1, <1>2, <3>3
      <4> QED
        BY <1>1, <2>1, <3>1, <4>1 DEF Increasing
    <3> QED
      BY <3>2, <3>3
  <2> QED
    BY <2>1 DEF Increasing
<1>5. Range(a) = Range(s) \cup {n + 1}
  <2>1. ASSUME NEW v \in Range(a) PROVE v \in Range(s) \cup {n + 1}
    <3>1. PICK i \in 1 .. Len(a) : v = a[i]
      BY <1>2 DEF Range
    <3>2. i = Len(s) + 1 \/ i \in 1 .. Len(s)
      BY <1>1, <1>2
    <3>3. v = n + 1 \/ \E h \in 1 .. Len(s) : v = s[h]
      BY <1>1, <3>1, <3>2
    <3> QED
      BY <1>2, <3>3 DEF Range
  <2>2. ASSUME NEW v \in Range(s) \cup {n + 1} PROVE v \in Range(a)
    <3>1. Len(s) + 1 \in 1 .. Len(a) /\ \A i \in 1 .. Len(s) : i \in 1 .. Len(a)
      BY <1>1, <1>2
    <3> QED
      BY Zenon, <1>1, <1>2, <3>1 DEF Range
  <2> QED
    BY <2>1, <2>2
<1> QED
  BY <1>4, <1>5 DEF a

(* The places of a sequence, counted past the one that is cut out, keep their order. *)
LEMMA Skipping ==
  ASSUME NEW k \in Nat, NEW i \in Nat, NEW j \in Nat, i < j
  PROVE  (IF i < k THEN i ELSE i + 1) < (IF j < k THEN j ELSE j + 1)
OBVIOUS

(* And a place other than the one cut out is found again. *)
LEMMA CountBack ==
  ASSUME NEW n \in Nat, NEW k \in 1 .. n, NEW i \in 1 .. n, i # k
  PROVE  (IF i < k THEN i ELSE i - 1) \in 1 .. (n - 1)
OBVIOUS

(* A rising sequence without one of its elements. *)
LEMMA LosesOne ==
  ASSUME NEW s \in Seq(Nat), NEW k \in 1 .. Len(s), Increasing(s)
  PROVE  Increasing(CutAt(s, k)) /\ Range(CutAt(s, k)) = Range(s) \ {s[k]}
<1> DEFINE r == CutAt(s, k)
<1>1. /\ r \in Seq(Nat) /\ Len(r) = Len(s) - 1
      /\ \A j \in 1 .. Len(s) - 1 : r[j] = IF j < k THEN s[j] ELSE s[j + 1]
  BY RemovedAt
<1>2. Len(s) \in Nat /\ DOMAIN s = 1 .. Len(s) /\ DOMAIN r = 1 .. Len(r)
  BY <1>1, LenProperties
<1>n. \A i \in 1 .. Len(s) : s[i] \in Nat
  BY <1>2, LenProperties
<1> HIDE DEF r
<1>q. ASSUME NEW j \in 1 .. Len(r)
      PROVE  \E m \in 1 .. Len(s) : m = (IF j < k THEN j ELSE j + 1) /\ r[j] = s[m]
  <2>0. j \in 1 .. Len(s) - 1
    BY <1>1
  <2>1. CASE j < k
    <3>1. r[j] = s[j] /\ j \in 1 .. Len(s)
      <4>1. j \in 1 .. Len(s)
        BY <1>2, <2>0
      <4> QED
        BY Zenon, <1>1, <2>0, <2>1, <4>1
    <3>2. (IF j < k THEN j ELSE j + 1) = j
      BY Zenon, <2>1
    <3> QED
      BY Zenon, <3>1, <3>2
  <2>2. CASE ~(j < k)
    <3>1. r[j] = s[j + 1] /\ j + 1 \in 1 .. Len(s)
      <4>1. j + 1 \in 1 .. Len(s)
        BY <1>2, <2>0
      <4> QED
        BY Zenon, <1>1, <2>0, <2>2, <4>1
    <3>2. (IF j < k THEN j ELSE j + 1) = j + 1
      BY Zenon, <2>2
    <3> QED
      BY Zenon, <3>1, <3>2
  <2> QED
    BY <2>1, <2>2
<1>3. Increasing(r)
  <2>1. ASSUME NEW i \in 1 .. Len(r), NEW j \in 1 .. Len(r), i < j PROVE r[i] < r[j]
    <3>1. PICK m \in 1 .. Len(s) : m = (IF i < k THEN i ELSE i + 1) /\ r[i] = s[m]
      BY <1>q
    <3>2. PICK n \in 1 .. Len(s) : n = (IF j < k THEN j ELSE j + 1) /\ r[j] = s[n]
      BY <1>q
    <3>3. m < n
      <4>1. i \in Nat /\ j \in Nat /\ k \in Nat
        BY <1>2
      <4> QED
        BY Zenon, <2>1, <3>1, <3>2, <4>1, Skipping
    <3> QED
      BY Zenon, <3>1, <3>2, <3>3 DEF Increasing
  <2> QED
    BY <2>1 DEF Increasing
<1>4. \A i, j \in 1 .. Len(s) : s[i] = s[j] => i = j
  <2>1. ASSUME NEW i \in 1 .. Len(s), NEW j \in 1 .. Len(s), s[i] = s[j], i # j PROVE FALSE
    <3>1. i < j \/ j < i
      BY <2>1
    <3> QED
      BY <1>n, <2>1, <3>1 DEF Increasing
  <2> QED
    BY <2>1
<1>5. Range(r) = Range(s) \ {s[k]}
  <2>1. ASSUME NEW j \in 1 .. Len(r) PROVE r[j] \in Range(s) \ {s[k]}
    <3>1. PICK m \in 1 .. Len(s) : m = (IF j < k THEN j ELSE j + 1) /\ r[j] = s[m]
      BY Zenon, <1>q
    <3>2. m # k
      BY <3>1
    <3> QED
      BY Zenon, <1>2, <1>4, <3>1, <3>2 DEF Range
  <2>2. ASSUME NEW i \in 1 .. Len(s), s[i] # s[k] PROVE s[i] \in Range(r)
    <3>1. PICK j \in 1 .. Len(r) : j = IF i < k THEN i ELSE i - 1
      <4>1. i # k
        BY Zenon, <2>2
      <4> QED
        BY Zenon, <1>1, <1>2, <4>1, CountBack
    <3>2. r[j] = s[i]
      <4>1. CASE i < k
        BY <1>1, <1>2, <3>1, <4>1
      <4>2. CASE ~(i < k)
        <5>1. i > k /\ ~(j < k) /\ j + 1 = i
          BY <2>2, <3>1, <4>2
        <5> QED
          BY Zenon, <1>1, <3>1, <5>1
      <4> QED
        BY <4>1, <4>2
    <3> QED
      BY <1>2, <3>2 DEF Range
  <2> QED
    BY <1>2, <2>1, <2>2 DEF Range
<1> QED
  BY <1>3, <1>5 DEF r

-----------------------------------------------------------------------------
(* A queue that lists a set of goroutines, each once. *)
Lists(s, P) ==
  /\ \A i \in 1 .. Len(s) : s[i] \in P
  /\ \A p \in P : \E i \in 1 .. Len(s) : s[i] = p
  /\ \A i, j \in 1 .. Len(s) : s[i] = s[j] => i = j

(* The empty queue. *)
LEMMA ListsNone == \A P : Lists(<<>>, P) <=> P = {}
BY DEF Lists

(* A queue without its head. *)
LEMMA ListsTail ==
  ASSUME NEW S, NEW s \in Seq(S), s # <<>>, NEW P, Lists(s, P)
  PROVE  Lists(Tail(s), P \ {Head(s)}) /\ Head(s) \in P
<1> DEFINE t == Tail(s)     h == Head(s)
<1>1. Len(s) \in Nat \ {0} /\ Len(t) = Len(s) - 1 /\ (\A i \in 1 .. Len(t) : t[i] = s[i + 1]) /\ h = s[1]
  BY HeadTailProperties, LenProperties
<1> HIDE DEF t, h
<1>2. 1 \in 1 .. Len(s) /\ \A i \in 1 .. Len(t) : i + 1 \in 1 .. Len(s) /\ i + 1 # 1
  BY <1>1
<1>3. \A i \in 1 .. Len(t) : t[i] \in P \ {h}
  BY <1>1, <1>2 DEF Lists
<1>4. ASSUME NEW p \in P \ {h} PROVE \E i \in 1 .. Len(t) : t[i] = p
  <2>1. PICK j \in 1 .. Len(s) : s[j] = p
    BY DEF Lists
  <2>2. j # 1
    BY <1>1, <2>1
  <2>3. j - 1 \in 1 .. Len(t) /\ (j - 1) + 1 = j
    BY <1>1, <2>2
  <2>4. t[j - 1] = p
    BY <1>1, <2>1, <2>3
  <2> QED
    BY <2>3, <2>4
<1>5. ASSUME NEW i \in 1 .. Len(t), NEW j \in 1 .. Len(t), t[i] = t[j] PROVE i = j
  <2>1. s[i + 1] = s[j + 1]
    BY <1>1, <1>5
  <2>2. i + 1 = j + 1
    BY <1>2, <2>1 DEF Lists
  <2> QED
    BY <2>2
<1>6. h \in P
  BY <1>1, <1>2 DEF Lists
<1>7. Lists(t, P \ {h})
  BY <1>3, <1>4, <1>5 DEF Lists
<1> QED
  BY <1>6, <1>7 DEF t, h

(* A queue with one more waiter. *)
LEMMA ListsAppend ==
  ASSUME NEW S, NEW s \in Seq(S), NEW P, NEW p \in S \ P, Lists(s, P)
  PROVE  Lists(Append(s, p), P \cup {p})
<1> DEFINE a == Append(s, p)
<1>1. Len(s) \in Nat /\ Len(a) = Len(s) + 1 /\ (\A i \in 1 .. Len(s) : a[i] = s[i]) /\ a[Len(s) + 1] = p
  BY AppendProperties, LenProperties
<1> HIDE DEF a
<1>2. \A i \in 1 .. Len(a) : i = Len(s) + 1 \/ i \in 1 .. Len(s)
  BY <1>1
<1>3. \A i \in 1 .. Len(s) : a[i] \in P
  BY <1>1 DEF Lists
<1>4. \A i \in 1 .. Len(a) : a[i] \in P \cup {p}
  BY <1>1, <1>2, <1>3
<1>5. ASSUME NEW q \in P \cup {p} PROVE \E i \in 1 .. Len(a) : a[i] = q
  <2>1. CASE q = p
    <3>1. Len(s) + 1 \in 1 .. Len(a)
      BY <1>1
    <3> QED
      BY <1>1, <2>1, <3>1
  <2>2. CASE q \in P
    <3>1. PICK i \in 1 .. Len(s) : s[i] = q
      BY <2>2 DEF Lists
    <3>2. i \in 1 .. Len(a) /\ a[i] = q
      BY <1>1, <3>1
    <3> QED
      BY <3>2
  <2> QED
    BY <2>1, <2>2
<1>6. ASSUME NEW i \in 1 .. Len(a), NEW j \in 1 .. Len(a), a[i] = a[j] PROVE i = j
  <2>1. CASE i \in 1 .. Len(s) /\ j \in 1 .. Len(s)
    <3>1. s[i] = s[j]
      BY <1>1, <1>6, <2>1
    <3> QED
      BY <2>1, <3>1 DEF Lists
  <2>2. CASE i = Len(s) + 1 \/ j = Len(s) + 1
    BY <1>1, <1>2, <1>3, <1>6, <2>2
  <2> QED
    BY <1>2, <2>1, <2>2
<1>7. Lists(a, P \cup {p})
  BY <1>4, <1>5, <1>6 DEF Lists
<1> QED
  BY <1>7 DEF a

(* A queue without one of its waiters. *)
LEMMA ListsRemove ==
  ASSUME NEW S, NEW s \in Seq(S), NEW P, NEW p \in P, Lists(s, P)
  PROVE  \E k \in 1 .. Len(s) : /\ s[k] = p /\ Without(s, p) = CutAt(s, k)
                                /\ Lists(CutAt(s, k), P \ {p})
<1>1. \E i \in 1 .. Len(s) : s[i] = p
  BY DEF Lists
<1>2. PICK k \in 1 .. Len(s) : s[k] = p /\ Without(s, p) = CutAt(s, k)
  BY <1>1, Removed
<1> DEFINE r == CutAt(s, k)
<1>3. Len(r) = Len(s) - 1 /\ \A j \in 1 .. Len(s) - 1 : r[j] = IF j < k THEN s[j] ELSE s[j + 1]
  BY RemovedAt
<1>4. Len(s) \in Nat
  BY LenProperties
<1> HIDE DEF r
<1>5. ASSUME NEW j \in 1 .. Len(r)
      PROVE  \E m \in 1 .. Len(s) : m = (IF j < k THEN j ELSE j + 1) /\ r[j] = s[m]
  <2>0. j \in 1 .. Len(s) - 1
    BY <1>3
  <2>1. CASE j < k
    <3>1. r[j] = s[j] /\ j \in 1 .. Len(s)
      BY <1>3, <1>4, <2>0, <2>1
    <3> QED
      BY <2>1, <3>1
  <2>2. CASE ~(j < k)
    <3>1. r[j] = s[j + 1] /\ j + 1 \in 1 .. Len(s)
      BY <1>3, <1>4, <2>0, <2>2
    <3> QED
      BY <2>2, <3>1
  <2> QED
    BY <2>1, <2>2
<1>6. ASSUME NEW j \in 1 .. Len(r) PROVE r[j] \in P \ {p}
  <2>1. PICK m \in 1 .. Len(s) : m = (IF j < k THEN j ELSE j + 1) /\ r[j] = s[m]
    BY <1>5
  <2>2. m # k
    BY <2>1
  <2> QED
    BY <1>2, <2>1, <2>2 DEF Lists
<1>7. ASSUME NEW q \in P \ {p} PROVE \E j \in 1 .. Len(r) : r[j] = q
  <2>1. PICK i \in 1 .. Len(s) : s[i] = q
    BY DEF Lists
  <2>2. i # k
    BY <1>2, <2>1
  <2>3. CASE i < k
    <3>1. i \in 1 .. Len(r) /\ r[i] = s[i]
      BY <1>3, <1>4, <2>3
    <3> QED
      BY <2>1, <3>1
  <2>4. CASE ~(i < k)
    <3>1. i - 1 \in 1 .. Len(s) - 1 /\ ~(i - 1 < k) /\ (i - 1) + 1 = i
      BY <1>4, <2>2, <2>4
    <3>2. r[i - 1] = s[(i - 1) + 1]
      BY <1>3, <3>1
    <3> QED
      BY <1>3, <2>1, <3>1, <3>2
  <2> QED
    BY <2>3, <2>4
<1>8. ASSUME NEW i \in 1 .. Len(r), NEW j \in 1 .. Len(r), r[i] = r[j] PROVE i = j
  <2>1. PICK m \in 1 .. Len(s) : m = (IF i < k THEN i ELSE i + 1) /\ r[i] = s[m]
    BY <1>5
  <2>2. PICK n \in 1 .. Len(s) : n = (IF j < k THEN j ELSE j + 1) /\ r[j] = s[n]
    BY <1>5
  <2>3. m = n
    BY Zenon, <1>8, <2>1, <2>2 DEF Lists
  <2> QED
    BY <2>1, <2>2, <2>3
<1>9. Lists(r, P \ {p})
  BY Zenon, <1>6, <1>7, <1>8 DEF Lists
<1> QED
  BY <1>2, <1>9 DEF r

(* A waiter that is not in the queue is not removed from it. *)
LEMMA ListsWithout ==
  ASSUME NEW S, NEW s \in Seq(S), NEW P, NEW p, p \notin P, Lists(s, P)
  PROVE  Without(s, p) = s
BY DEF Without, Lists, Range

-----------------------------------------------------------------------------
CallType == [op : {"none", "send", "sent", "recv", "got", "panic", "arming", "select", "woken"}, val : Nat]
AtOp(op) == {p \in Goroutines : call[p].op = op}
Line == taken \o buf \o Payloads

(* The types, with the record of a call under one name. *)
LEMMA ChannelTypes ==
  ChannelTypeOK <=>
    /\ size \in Nat /\ signal \in BOOLEAN /\ closed \in BOOLEAN
    /\ buf \in Seq(Nat) /\ taken \in Seq(Nat) /\ sent \in Nat /\ withdrawn \in SUBSET (1 .. sent)
    /\ recvWaiters \in Seq(Goroutines) /\ sendWaiters \in Seq(Goroutines)
    /\ wakers \in SUBSET Goroutines /\ canceled \in SUBSET Goroutines
    /\ call \in [Goroutines -> CallType]
BY DEF ChannelTypeOK, CallType

(* The queues hold the parked goroutines, each once. *)
LEMMA QueuesList ==
  ASSUME ChannelTypeOK
  PROVE  QueuesHeld <=> /\ Lists(recvWaiters, AtOp("recv")) /\ Lists(sendWaiters, AtOp("send"))
                        /\ signal => sendWaiters = <<>>
<1>1. /\ \A i \in 1 .. Len(recvWaiters) : recvWaiters[i] \in Goroutines
      /\ \A i \in 1 .. Len(sendWaiters) : sendWaiters[i] \in Goroutines
  BY ChannelTypes
<1> QED
  BY <1>1 DEF QueuesHeld, Queued, Lists, AtOp, Inside

(* The payloads of the parked senders. *)
LEMMA PayloadTypes ==
  ASSUME ChannelTypeOK
  PROVE  /\ Payloads \in Seq(Nat) /\ Len(Payloads) = Len(sendWaiters)
         /\ \A i \in 1 .. Len(sendWaiters) : Payloads[i] = call[sendWaiters[i]].val
<1>1. Len(sendWaiters) \in Nat /\ \A i \in 1 .. Len(sendWaiters) : sendWaiters[i] \in Goroutines
  BY ChannelTypes, LenProperties
<1>2. \A i \in 1 .. Len(sendWaiters) : call[sendWaiters[i]].val \in Nat
  BY <1>1, ChannelTypes DEF CallType
<1>3. Payloads \in [1 .. Len(sendWaiters) -> Nat]
  BY <1>2 DEF Payloads
<1>4. Payloads \in Seq(Nat)
  BY <1>1, <1>3, SeqDef
<1>5. Len(Payloads) = Len(sendWaiters)
  <2>1. DOMAIN Payloads = 1 .. Len(Payloads) /\ Len(Payloads) \in Nat
    BY <1>4, LenProperties
  <2> QED
    BY <1>1, <1>3, <2>1
<1> QED
  BY <1>4, <1>5 DEF Payloads

(* What was received, is buffered and is to be sent are numbers of sends. *)
LEMMA LineTypes ==
  ASSUME ChannelTypeOK
  PROVE  taken \o buf \in Seq(Nat) /\ Line \in Seq(Nat)
<1>1. taken \o buf \in Seq(Nat)
  BY ChannelTypes, ConcatProperties
<1> QED
  BY <1>1, PayloadTypes, ConcatProperties DEF Line

(* Fifo, as one line of payloads. *)
LEMMA FifoLine == Fifo <=> Increasing(Line) /\ Range(Line) = 1 .. sent \ withdrawn
BY DEF Fifo, Line

(* The three things that happen to the line. *)
LEMMA LineStays ==
  ASSUME Fifo, UNCHANGED <<sent, withdrawn>>, Line' = Line
  PROVE  Fifo'
BY DEF Fifo, Line, Increasing

(* A send adds its payload at the end of the line. *)
LEMMA LineGrows ==
  ASSUME ChannelTypeOK, Fifo, sent' = sent + 1, UNCHANGED withdrawn, Line' = Append(Line, sent + 1)
  PROVE  Fifo'
<1>1. Line \in Seq(Nat) /\ sent \in Nat /\ withdrawn \in SUBSET (1 .. sent)
  BY LineTypes, ChannelTypes
<1>2. Increasing(Line) /\ Range(Line) = 1 .. sent \ withdrawn
  BY FifoLine
<1>3. Increasing(Line') /\ Range(Line') = (1 .. sent \ withdrawn) \cup {sent + 1}
  <2>1. Range(Line) \subseteq 1 .. sent
    BY <1>2
  <2> QED
    BY <1>1, <1>2, <2>1, GrowsByNext
<1>4. (1 .. sent \ withdrawn) \cup {sent + 1} = 1 .. (sent + 1) \ withdrawn
  BY <1>1
<1>5. Fifo' <=> Increasing(Line') /\ Range(Line') = 1 .. sent' \ withdrawn'
  BY DEF Fifo, Line, Increasing
<1> QED
  BY <1>3, <1>4, <1>5

(* A canceled send takes its payload out of the line. *)
LEMMA LineLoses ==
  ASSUME ChannelTypeOK, Fifo, sent' = sent, NEW k \in 1 .. Len(Line),
         withdrawn' = withdrawn \cup {Line[k]}, Line' = CutAt(Line, k)
  PROVE  Fifo' /\ withdrawn' \in SUBSET (1 .. sent')
<1>1. Line \in Seq(Nat) /\ sent \in Nat /\ withdrawn \in SUBSET (1 .. sent)
  BY LineTypes, ChannelTypes
<1>2. Increasing(Line) /\ Range(Line) = 1 .. sent \ withdrawn
  BY FifoLine
<1>3. Increasing(Line') /\ Range(Line') = Range(Line) \ {Line[k]}
  BY <1>1, <1>2, LosesOne
<1>4. Line[k] \in Range(Line)
  <2>1. DOMAIN Line = 1 .. Len(Line)
    BY <1>1, LenProperties
  <2> QED
    BY <2>1 DEF Range
<1>5. Fifo' <=> Increasing(Line') /\ Range(Line') = 1 .. sent' \ withdrawn'
  BY DEF Fifo, Line, Increasing
<1> QED
  BY Zenon, <1>1, <1>2, <1>3, <1>4, <1>5

(* The payloads of the parked senders, when the queue does not change. *)
LEMMA PayloadsStay ==
  ASSUME ChannelTypeOK, QueuesHeld, UNCHANGED sendWaiters,
         \A p \in AtOp("send") : call'[p].val = call[p].val
  PROVE  Payloads' = Payloads
<1>1. \A i \in 1 .. Len(sendWaiters) : sendWaiters[i] \in AtOp("send")
  BY QueuesList DEF Lists
<1> QED
  BY <1>1 DEF Payloads

(* signalWakersLocked touches only the selectors that registered. *)
LEMMA WokenKeeps ==
  ASSUME NEW c \in [Goroutines -> CallType]
  PROVE  /\ Woken(c) \in [Goroutines -> CallType]
         /\ \A p \in Goroutines : /\ c[p].op # "select" => Woken(c)[p] = c[p]
                                  /\ Woken(c)[p].op = "select" => c[p].op = "select" /\ p \notin wakers
                                  /\ Woken(c)[p].op # c[p].op => c[p].op = "select" /\ Woken(c)[p].op = "woken"
<1>1. Doing("woken", 0) \in CallType /\ Doing("woken", 0).op = "woken"
  BY DEF Doing, CallType
<1> QED
  BY <1>1 DEF Woken

-----------------------------------------------------------------------------
(* What there is to show of a step. *)
LEMMA TypesAfter ==
  ASSUME size' \in Nat, signal' \in BOOLEAN, closed' \in BOOLEAN,
         buf' \in Seq(Nat), taken' \in Seq(Nat), sent' \in Nat, withdrawn' \in SUBSET (1 .. sent'),
         recvWaiters' \in Seq(Goroutines), sendWaiters' \in Seq(Goroutines),
         wakers' \in SUBSET Goroutines, canceled' \in SUBSET Goroutines, call' \in [Goroutines -> CallType]
  PROVE  ChannelTypeOK'
BY DEF ChannelTypeOK, CallType

(* The queues after a step, from its parts. *)
LEMMA QueuesAfter ==
  ASSUME ChannelTypeOK', Lists(recvWaiters', AtOp("recv")'), Lists(sendWaiters', AtOp("send")'),
         signal' => sendWaiters' = <<>>
  PROVE  QueuesHeld'
BY DEF QueuesHeld, Queued, Lists, AtOp, Inside

(* NoLostWakeup after a step, from its parts. *)
LEMMA WakeupAfter ==
  ASSUME \A p \in AtOp("recv")' : ~hasValue', size' > 0 /\ sendWaiters' # <<>> => Len(buf') >= size',
         \A p \in AtOp("select")' : p \in wakers' => ~hasValue'
  PROVE  NoLostWakeup'
BY DEF NoLostWakeup, AtOp, Inside

(* What the invariant says of the queues and of the wake-ups before a step. *)
LEMMA Before ==
  ASSUME ChannelInv
  PROVE  /\ ChannelTypeOK /\ QueuesHeld /\ Fifo
         /\ Lists(recvWaiters, AtOp("recv")) /\ Lists(sendWaiters, AtOp("send"))
         /\ signal => sendWaiters = <<>>
         /\ \A p \in AtOp("recv") : ~hasValue
         /\ size > 0 /\ sendWaiters # <<>> => Len(buf) >= size
         /\ \A p \in AtOp("select") : p \in wakers => ~hasValue
         /\ recvWaiters # <<>> => ~hasValue /\ buf = <<>> /\ sendWaiters = <<>> /\ ~closed
<1>1. ChannelTypeOK /\ QueuesHeld /\ Fifo /\ NoLostWakeup
  BY DEF ChannelInv
<1>2. /\ Lists(recvWaiters, AtOp("recv")) /\ Lists(sendWaiters, AtOp("send"))
      /\ signal => sendWaiters = <<>>
  BY <1>1, QueuesList
<1>3. /\ \A p \in AtOp("recv") : ~hasValue
      /\ size > 0 /\ sendWaiters # <<>> => Len(buf) >= size
      /\ \A p \in AtOp("select") : p \in wakers => ~hasValue
  BY <1>1 DEF NoLostWakeup, AtOp, Inside
<1>4. ASSUME recvWaiters # <<>> PROVE ~hasValue /\ buf = <<>> /\ sendWaiters = <<>> /\ ~closed
  <2>1. ~hasValue
    <3>1. Head(recvWaiters) \in AtOp("recv")
      BY Zenon, <1>1, <1>2, <1>4, ListsTail, ChannelTypes
    <3> QED
      BY <1>3, <3>1
  <2>2. buf = <<>> /\ ~closed
    BY <2>1 DEF hasValue
  <2>3. size \in Nat /\ Len(buf) = 0
    BY <1>1, <2>2, ChannelTypes
  <2> QED
    BY <1>3, <2>1, <2>2, <2>3 DEF hasValue
<1> QED
  BY <1>1, <1>2, <1>3, <1>4

(* A goroutine moves outside of the two queues: SendPanics, Return, the Selector's steps. *)
LEMMA OutsideStep ==
  ASSUME ChannelInv, UNCHANGED <<size, signal, buf, closed, recvWaiters, sendWaiters, canceled, sent, taken, withdrawn>>,
         NEW p \in Goroutines, NEW c \in CallType, call' = [call EXCEPT ![p] = c],
         call[p].op \notin {"send", "recv"}, c.op \notin {"send", "recv"}, c.op = "select" => ~hasValue,
         wakers' \in SUBSET Goroutines, \A q \in Goroutines : q # p /\ q \in wakers' => q \in wakers
  PROVE  ChannelInv'
<1>t. /\ size \in Nat /\ signal \in BOOLEAN /\ closed \in BOOLEAN
      /\ buf \in Seq(Nat) /\ taken \in Seq(Nat) /\ sent \in Nat /\ withdrawn \in SUBSET (1 .. sent)
      /\ recvWaiters \in Seq(Goroutines) /\ sendWaiters \in Seq(Goroutines)
      /\ wakers \in SUBSET Goroutines /\ canceled \in SUBSET Goroutines
      /\ call \in [Goroutines -> CallType]
  BY Before, ChannelTypes
<1>1. call' \in [Goroutines -> CallType] /\ call'[p] = c /\ \A q \in Goroutines : q # p => call'[q] = call[q]
  BY <1>t
<1>2. AtOp("recv")' = AtOp("recv") /\ AtOp("send")' = AtOp("send")
  BY <1>1 DEF AtOp
<1>3. hasValue' = hasValue
  BY DEF hasValue
<1>4. ChannelTypeOK'
  BY <1>t, <1>1, TypesAfter
<1>5. QueuesHeld'
  BY <1>2, <1>4, Before, QueuesAfter
<1>6. NoLostWakeup'
  <2>1. \A q \in AtOp("select")' : q \in wakers' => ~hasValue'
    BY <1>1, <1>3, Before DEF AtOp
  <2> QED
    BY <1>2, <1>3, <2>1, Before, WakeupAfter
<1>7. Fifo'
  <2>1. Payloads' = Payloads
    BY <1>1, Before, PayloadsStay DEF AtOp
  <2> QED
    BY <2>1, Before, LineStays DEF Line
<1> QED
  BY <1>4, <1>5, <1>6, <1>7 DEF ChannelInv

(* A context is canceled: nothing of the channel changes. *)
LEMMA CancelStep ==
  ASSUME ChannelInv, canceled' \in SUBSET Goroutines,
         UNCHANGED <<size, signal, buf, closed, recvWaiters, sendWaiters, wakers, call, sent, taken, withdrawn>>
  PROVE  ChannelInv'
<1>1. ChannelTypeOK' /\ QueuesHeld'
  BY DEF ChannelInv, ChannelTypeOK, QueuesHeld, Queued, Inside
<1>2. NoLostWakeup'
  BY DEF ChannelInv, NoLostWakeup, hasValue, Inside
<1>3. Fifo'
  <2>1. Payloads' = Payloads
    BY DEF Payloads
  <2> QED
    BY <2>1, LineStays DEF ChannelInv, Line
<1> QED
  BY <1>1, <1>2, <1>3 DEF ChannelInv

-----------------------------------------------------------------------------
(* The payloads of a queue of senders that grows, moves up or loses a sender. *)
PayloadsOf(s, c) == [i \in 1 .. Len(s) |-> c[s[i]].val]

(* The payloads of a queue. *)
LEMMA PayType ==
  ASSUME NEW s \in Seq(Goroutines), NEW c \in [Goroutines -> CallType]
  PROVE  /\ PayloadsOf(s, c) \in Seq(Nat) /\ Len(PayloadsOf(s, c)) = Len(s) /\ Len(s) \in Nat
         /\ \A i \in 1 .. Len(s) : PayloadsOf(s, c)[i] = c[s[i]].val
<1>1. Len(s) \in Nat /\ \A i \in 1 .. Len(s) : s[i] \in Goroutines
  BY LenProperties
<1>2. \A i \in 1 .. Len(s) : c[s[i]].val \in Nat
  BY <1>1 DEF CallType
<1>3. PayloadsOf(s, c) \in [1 .. Len(s) -> Nat]
  BY <1>2 DEF PayloadsOf
<1>4. PayloadsOf(s, c) \in Seq(Nat)
  BY <1>1, <1>3, SeqDef
<1>5. Len(PayloadsOf(s, c)) = Len(s)
  <2>1. DOMAIN PayloadsOf(s, c) = 1 .. Len(PayloadsOf(s, c)) /\ Len(PayloadsOf(s, c)) \in Nat
    BY <1>4, LenProperties
  <2> QED
    BY <1>1, <1>3, <2>1
<1> QED
  BY <1>1, <1>4, <1>5 DEF PayloadsOf

(* The payloads of a queue with one more sender. *)
LEMMA PayAppend ==
  ASSUME NEW s \in Seq(Goroutines), NEW c \in [Goroutines -> CallType], NEW d \in [Goroutines -> CallType],
         NEW p \in Goroutines, \A i \in 1 .. Len(s) : d[s[i]].val = c[s[i]].val
  PROVE  PayloadsOf(Append(s, p), d) = Append(PayloadsOf(s, c), d[p].val)
<1> DEFINE x == PayloadsOf(s, c)     t == Append(s, p)     y == PayloadsOf(t, d)     z == Append(x, d[p].val)
<1>0. d[p].val \in Nat
  BY DEF CallType
<1>1. /\ t \in Seq(Goroutines) /\ Len(t) = Len(s) + 1 /\ (\A i \in 1 .. Len(s) : t[i] = s[i]) /\ t[Len(s) + 1] = p
  BY AppendProperties
<1>2. /\ x \in Seq(Nat) /\ Len(x) = Len(s) /\ Len(s) \in Nat /\ \A i \in 1 .. Len(s) : x[i] = c[s[i]].val
  BY PayType
<1> HIDE DEF t, x
<1>3. /\ y \in Seq(Nat) /\ Len(y) = Len(t) /\ \A i \in 1 .. Len(t) : y[i] = d[t[i]].val
  BY <1>1, PayType
<1>4. /\ z \in Seq(Nat) /\ Len(z) = Len(x) + 1 /\ (\A i \in 1 .. Len(x) : z[i] = x[i]) /\ z[Len(x) + 1] = d[p].val
  BY <1>0, <1>2, AppendProperties
<1> HIDE DEF y, z
<1>5. Len(y) = Len(z)
  BY <1>1, <1>2, <1>3, <1>4
<1>6. ASSUME NEW i \in 1 .. Len(y) PROVE y[i] = z[i]
  <2>0. y[i] = d[t[i]].val
    BY <1>3
  <2>1. CASE i = Len(s) + 1
    BY <1>1, <1>2, <1>4, <2>0, <2>1
  <2>2. CASE i # Len(s) + 1
    <3>1. i \in 1 .. Len(s) /\ i \in 1 .. Len(x)
      BY <1>1, <1>2, <1>3, <2>2
    <3>2. y[i] = d[s[i]].val
      BY <1>1, <2>0, <3>1
    <3>3. z[i] = c[s[i]].val
      BY <1>2, <1>4, <3>1
    <3> QED
      BY <3>1, <3>2, <3>3
  <2> QED
    BY <2>1, <2>2
<1>7. y = z
  BY <1>3, <1>4, <1>5, <1>6, SeqEqual
<1> QED
  BY <1>7 DEF x, t, y, z

(* The payloads of a queue without its head. *)
LEMMA PayTail ==
  ASSUME NEW s \in Seq(Goroutines), s # <<>>, NEW c \in [Goroutines -> CallType], NEW d \in [Goroutines -> CallType],
         \A i \in 1 .. Len(s) : d[s[i]].val = c[s[i]].val
  PROVE  /\ PayloadsOf(Tail(s), d) = Tail(PayloadsOf(s, c)) /\ PayloadsOf(s, c) # <<>>
         /\ Head(PayloadsOf(s, c)) = c[Head(s)].val
<1> DEFINE x == PayloadsOf(s, c)     t == Tail(s)     y == PayloadsOf(t, d)     z == Tail(x)
<1>1. /\ t \in Seq(Goroutines) /\ Len(t) = Len(s) - 1 /\ \A i \in 1 .. Len(t) : t[i] = s[i + 1]
  BY HeadTailProperties
<1>2. /\ x \in Seq(Nat) /\ Len(x) = Len(s) /\ Len(s) \in Nat \ {0} /\ \A i \in 1 .. Len(s) : x[i] = c[s[i]].val
  BY PayType
<1> HIDE DEF t, x
<1>h. x # <<>> /\ Head(x) = c[Head(s)].val
  <2>1. x # <<>> /\ 1 \in 1 .. Len(s)
    BY <1>2
  <2>2. Head(x) = x[1] /\ Head(s) = s[1]
    BY <1>2, <2>1
  <2> QED
    BY <1>2, <2>1, <2>2
<1>3. /\ y \in Seq(Nat) /\ Len(y) = Len(t) /\ \A i \in 1 .. Len(t) : y[i] = d[t[i]].val
  BY Zenon, <1>1, PayType
<1>4. /\ z \in Seq(Nat) /\ Len(z) = Len(x) - 1 /\ \A i \in 1 .. Len(z) : z[i] = x[i + 1]
  BY <1>2, <1>h, HeadTailProperties
<1> HIDE DEF y, z
<1>5. Len(y) = Len(z)
  BY <1>1, <1>2, <1>3, <1>4
<1>6. ASSUME NEW i \in 1 .. Len(y) PROVE y[i] = z[i]
  <2>1. i + 1 \in 1 .. Len(s) /\ i \in 1 .. Len(t) /\ i \in 1 .. Len(z)
    BY <1>1, <1>2, <1>3, <1>5
  <2>2. y[i] = d[s[i + 1]].val
    BY <1>1, <1>3, <2>1
  <2>3. z[i] = c[s[i + 1]].val
    BY <1>2, <1>4, <2>1
  <2> QED
    BY <2>1, <2>2, <2>3
<1>7. y = z
  BY Zenon, <1>3, <1>4, <1>5, <1>6, SeqEqual
<1> QED
  BY <1>7, <1>h DEF x, t, y, z

(* The payloads of a queue without one of its senders. *)
LEMMA PayRemove ==
  ASSUME NEW s \in Seq(Goroutines), NEW k \in 1 .. Len(s), NEW c \in [Goroutines -> CallType],
         NEW d \in [Goroutines -> CallType], \A i \in 1 .. Len(s) : i # k => d[s[i]].val = c[s[i]].val
  PROVE  PayloadsOf(CutAt(s, k), d) = CutAt(PayloadsOf(s, c), k)
<1> DEFINE x == PayloadsOf(s, c)     t == CutAt(s, k)     y == PayloadsOf(t, d)     z == CutAt(x, k)
<1>1. /\ t \in Seq(Goroutines) /\ Len(t) = Len(s) - 1
      /\ \A i \in 1 .. Len(s) - 1 : t[i] = IF i < k THEN s[i] ELSE s[i + 1]
  BY Zenon, RemovedAt
<1>2. /\ x \in Seq(Nat) /\ Len(x) = Len(s) /\ Len(s) \in Nat /\ \A i \in 1 .. Len(s) : x[i] = c[s[i]].val
  BY Zenon, PayType
<1> HIDE DEF t, x
<1>3. /\ y \in Seq(Nat) /\ Len(y) = Len(t) /\ \A i \in 1 .. Len(t) : y[i] = d[t[i]].val
  BY Zenon, <1>1, PayType
<1>4. /\ z \in Seq(Nat) /\ Len(z) = Len(x) - 1
      /\ \A i \in 1 .. Len(x) - 1 : z[i] = IF i < k THEN x[i] ELSE x[i + 1]
  BY <1>2, RemovedAt
<1> HIDE DEF y, z
<1>5. Len(y) = Len(z)
  BY <1>1, <1>2, <1>3, <1>4
<1>6. ASSUME NEW i \in 1 .. Len(y) PROVE y[i] = z[i]
  <2>0. i \in 1 .. Len(s) - 1 /\ i \in 1 .. Len(x) - 1 /\ i \in 1 .. Len(t)
    BY <1>1, <1>2, <1>3
  <2>1. CASE i < k
    <3>1. t[i] = s[i] /\ z[i] = x[i] /\ i \in 1 .. Len(s) /\ i # k
      BY <1>1, <1>2, <1>4, <2>0, <2>1
    <3>2. y[i] = d[s[i]].val /\ z[i] = c[s[i]].val
      BY Zenon, <1>2, <1>3, <2>0, <3>1
    <3> QED
      BY <3>1, <3>2
  <2>2. CASE ~(i < k)
    <3>1. t[i] = s[i + 1] /\ z[i] = x[i + 1] /\ i + 1 \in 1 .. Len(s) /\ i + 1 # k
      BY <1>1, <1>2, <1>4, <2>0, <2>2
    <3>2. y[i] = d[s[i + 1]].val /\ z[i] = c[s[i + 1]].val
      BY Zenon, <1>2, <1>3, <2>0, <3>1
    <3> QED
      BY <3>1, <3>2
  <2> QED
    BY <2>1, <2>2
<1>7. y = z
  BY Zenon, <1>3, <1>4, <1>5, <1>6, SeqEqual
<1> QED
  BY <1>7 DEF x, t, y, z

(* The payloads before and after a step. *)
LEMMA PayloadsAre == Payloads = PayloadsOf(sendWaiters, call) /\ Payloads' = PayloadsOf(sendWaiters', call')
BY DEF Payloads, PayloadsOf

(* No senders, no payloads. *)
LEMMA NoPayloads == (sendWaiters = <<>> => Payloads = <<>>) /\ (sendWaiters' = <<>> => Payloads' = <<>>)
BY DEF Payloads

-----------------------------------------------------------------------------
(* A value goes to the receiver that has waited longest: Send, and SignalAsync. *)
LEMMA HandOver ==
  ASSUME ChannelInv, recvWaiters # <<>>, recvWaiters' = Tail(recvWaiters), sent' = sent + 1,
         taken' = Append(taken, sent + 1), buf' = <<>>, call' \in {Answered(sent + 1), Woken(Answered(sent + 1))},
         wakers' \in {wakers, {}}, UNCHANGED <<size, signal, closed, sendWaiters, canceled, withdrawn>>
  PROVE  ChannelInv'
<1>t. /\ size \in Nat /\ signal \in BOOLEAN /\ closed \in BOOLEAN
      /\ buf \in Seq(Nat) /\ taken \in Seq(Nat) /\ sent \in Nat /\ withdrawn \in SUBSET (1 .. sent)
      /\ recvWaiters \in Seq(Goroutines) /\ sendWaiters \in Seq(Goroutines)
      /\ wakers \in SUBSET Goroutines /\ canceled \in SUBSET Goroutines
      /\ call \in [Goroutines -> CallType]
  BY Before, ChannelTypes
<1>b. buf = <<>> /\ sendWaiters = <<>> /\ ~hasValue /\ ~closed
  BY Before
<1>h. PICK h \in AtOp("recv") : h = Head(recvWaiters) /\ Lists(recvWaiters', AtOp("recv") \ {h})
  BY Zenon, <1>t, Before, ListsTail
<1>g. h \in Goroutines /\ call[h].op = "recv" /\ AtOp("send") = {}
  BY Zenon, <1>b, Before, ListsNone DEF AtOp
<1> DEFINE c == [call EXCEPT ![h] = Doing("got", sent + 1)]
<1>0. Doing("got", sent + 1) \in CallType /\ Doing("got", sent + 1).op = "got"
  BY <1>t DEF Doing, CallType
<1>1. c \in [Goroutines -> CallType] /\ c[h].op = "got" /\ \A q \in Goroutines : q # h => c[q] = call[q]
  BY <1>t, <1>g, <1>0
<1>c. call' \in {c, Woken(c)}
  BY <1>h DEF Answered
<1> HIDE DEF c
<1>2. call' \in [Goroutines -> CallType] /\ \A q \in Goroutines : call'[q].op \in {"recv", "send"} <=> c[q].op \in {"recv", "send"}
  BY <1>1, <1>c, WokenKeeps
<1>3. \A q \in Goroutines : c[q].op \in {"recv", "send"} => call'[q] = c[q]
  BY <1>1, <1>c, WokenKeeps
<1>4. AtOp("recv")' = AtOp("recv") \ {h} /\ AtOp("send")' = AtOp("send")
  BY <1>1, <1>2, <1>3, <1>g DEF AtOp
<1>5. ChannelTypeOK'
  <2>1. taken' \in Seq(Nat) /\ buf' \in Seq(Nat) /\ recvWaiters' \in Seq(Goroutines)
    BY <1>t
  <2>2. withdrawn' \in SUBSET (1 .. sent') /\ sent' \in Nat
    BY <1>t
  <2> QED
    BY <1>t, <1>2, <2>1, <2>2, TypesAfter
<1>6. QueuesHeld'
  BY Zenon, <1>4, <1>5, <1>h, Before, QueuesAfter
<1>7. NoLostWakeup'
  <2>1. ~hasValue'
    BY <1>b DEF hasValue
  <2> QED
    BY <1>b, <2>1, WakeupAfter
<1>8. Fifo'
  <2>1. Payloads = <<>> /\ Payloads' = <<>>
    BY <1>b, NoPayloads
  <2>2. taken \o buf = taken /\ taken' \o buf' = taken'
    <3>1. taken' \in Seq(Nat)
      BY <1>t
    <3> QED
      BY <1>t, <1>b, <3>1, ConcatEmptySeq
  <2>3. Line = taken /\ Line' = taken'
    <3>1. taken' \in Seq(Nat)
      BY <1>t
    <3> QED
      BY <1>t, <2>1, <2>2, <3>1, ConcatEmptySeq DEF Line
  <2> QED
    BY <2>3, Before, LineGrows
<1> QED
  BY <1>5, <1>6, <1>7, <1>8 DEF ChannelInv

(* A value goes to the buffer: Send, and SignalAsync. *)
LEMMA Buffered ==
  ASSUME ChannelInv, recvWaiters = <<>>, sendWaiters = <<>>, sent' = sent + 1,
         buf' = Append(buf, sent + 1), call' = Woken(call), wakers' = {},
         UNCHANGED <<size, signal, closed, recvWaiters, sendWaiters, canceled, taken, withdrawn>>
  PROVE  ChannelInv'
<1>t. /\ size \in Nat /\ signal \in BOOLEAN /\ closed \in BOOLEAN
      /\ buf \in Seq(Nat) /\ taken \in Seq(Nat) /\ sent \in Nat /\ withdrawn \in SUBSET (1 .. sent)
      /\ recvWaiters \in Seq(Goroutines) /\ sendWaiters \in Seq(Goroutines)
      /\ wakers \in SUBSET Goroutines /\ canceled \in SUBSET Goroutines
      /\ call \in [Goroutines -> CallType]
  BY Before, ChannelTypes
<1>1. call' \in [Goroutines -> CallType]
  BY <1>t, WokenKeeps
<1>2. AtOp("recv")' = AtOp("recv") /\ AtOp("send")' = AtOp("send")
  BY Zenon, <1>t, <1>1, WokenKeeps DEF AtOp
<1>g. AtOp("recv") = {} /\ AtOp("send") = {}
  BY Before, ListsNone
<1>5. ChannelTypeOK'
  <2>1. buf' \in Seq(Nat) /\ withdrawn' \in SUBSET (1 .. sent') /\ sent' \in Nat
    BY <1>t
  <2> QED
    BY <1>t, <1>1, <2>1, TypesAfter
<1>6. QueuesHeld'
  BY <1>2, <1>5, Before, QueuesAfter
<1>7. NoLostWakeup'
  BY <1>2, <1>g, WakeupAfter
<1>8. Fifo'
  <2>1. Payloads = <<>> /\ Payloads' = <<>>
    BY NoPayloads
  <2>2. taken' \o buf' = Append(taken \o buf, sent + 1)
    BY <1>t, LineAppend
  <2>3. Line = taken \o buf /\ Line' = Append(Line, sent + 1)
    <3>1. taken \o buf \in Seq(Nat) /\ taken' \o buf' \in Seq(Nat)
      BY <1>t, <2>2, ConcatProperties, AppendProperties
    <3>2. Line = taken \o buf /\ Line' = taken' \o buf'
      BY <2>1, <3>1, ConcatEmptySeq DEF Line
    <3> QED
      BY <2>2, <3>2
  <2> QED
    BY <2>3, Before, LineGrows
<1> QED
  BY <1>5, <1>6, <1>7, <1>8 DEF ChannelInv

(* Send finds no room and no receiver, and parks. *)
LEMMA ParkSend ==
  ASSUME ChannelInv, NEW p \in Goroutines, SendParks(p)
  PROVE  ChannelInv'
<1>t. /\ size \in Nat /\ signal \in BOOLEAN /\ closed \in BOOLEAN
      /\ buf \in Seq(Nat) /\ taken \in Seq(Nat) /\ sent \in Nat /\ withdrawn \in SUBSET (1 .. sent)
      /\ recvWaiters \in Seq(Goroutines) /\ sendWaiters \in Seq(Goroutines)
      /\ wakers \in SUBSET Goroutines /\ canceled \in SUBSET Goroutines
      /\ call \in [Goroutines -> CallType]
  BY Zenon, Before, ChannelTypes
<1>u. /\ recvWaiters = <<>> /\ ~signal /\ sent' = sent + 1 /\ call[p].op = "none" /\ (size = 0 \/ Len(buf) >= size)
      /\ sendWaiters' = Append(sendWaiters, p)
      /\ UNCHANGED <<size, signal, buf, closed, recvWaiters, canceled, taken, withdrawn>>
  BY DEF SendParks, Sending, Inside
<1> DEFINE c == [call EXCEPT ![p] = Doing("send", sent + 1)]
<1>c. IF size = 0 THEN call' = Woken(c) /\ wakers' = {} ELSE call' = c /\ wakers' = wakers
  BY DEF SendParks
<1>0. Doing("send", sent + 1) \in CallType /\ Doing("send", sent + 1).op = "send" /\ Doing("send", sent + 1).val = sent + 1
  BY <1>t DEF Doing, CallType
<1>1. /\ c \in [Goroutines -> CallType] /\ c[p].op = "send" /\ c[p].val = sent + 1
      /\ \A q \in Goroutines : q # p => c[q] = call[q]
  BY <1>t, <1>0
<1> HIDE DEF c
<1>2. /\ call' \in [Goroutines -> CallType]
      /\ \A q \in Goroutines : call'[q].op \in {"recv", "send"} <=> c[q].op \in {"recv", "send"}
  BY <1>1, <1>c, WokenKeeps
<1>3. \A q \in Goroutines : c[q].op \in {"recv", "send"} => call'[q] = c[q]
  BY <1>1, <1>c, WokenKeeps
<1>4. AtOp("recv")' = AtOp("recv") /\ AtOp("send")' = AtOp("send") \cup {p} /\ p \notin AtOp("send")
  BY <1>1, <1>2, <1>3, <1>u DEF AtOp
<1>g. AtOp("recv") = {}
  BY Zenon, <1>u, Before, ListsNone
<1>5. ChannelTypeOK'
  <2>1. sendWaiters' \in Seq(Goroutines) /\ withdrawn' \in SUBSET (1 .. sent') /\ sent' \in Nat /\ wakers' \in SUBSET Goroutines
    BY <1>t, <1>u, <1>c
  <2> QED
    BY <1>t, <1>u, <1>2, <2>1, TypesAfter
<1>6. QueuesHeld'
  <2>1. Lists(sendWaiters', AtOp("send")')
    BY <1>t, <1>u, <1>4, Before, ListsAppend
  <2> QED
    BY <1>4, <1>5, <1>u, <2>1, Before, QueuesAfter
<1>7. NoLostWakeup'
  <2>1. size > 0 => wakers' = wakers /\ call' = c /\ hasValue
    <3>1. size > 0 => Len(buf) > 0
      BY <1>t, <1>u
    <3>2. size > 0 => buf # <<>>
      BY <1>t, <3>1
    <3> QED
      BY <1>c, <3>2 DEF hasValue
  <2>2. \A q \in AtOp("select")' : q \in wakers' => ~hasValue'
    <3>1. CASE size = 0
      BY <1>c, <3>1
    <3>2. CASE size > 0
      <4>1. \A q \in AtOp("select")' : q \in AtOp("select")
        BY <1>1, <2>1, <3>2 DEF AtOp
      <4> QED
        BY <2>1, <3>2, <4>1, Before
    <3> QED
      BY <1>t, <3>1, <3>2
  <2>3. size' > 0 => Len(buf') >= size'
    BY <1>t, <1>u
  <2> QED
    BY <1>4, <1>g, <2>2, <2>3, WakeupAfter
<1>8. Fifo'
  <2>1. \A i \in 1 .. Len(sendWaiters) : call'[sendWaiters[i]].val = call[sendWaiters[i]].val
    <3>1. \A i \in 1 .. Len(sendWaiters) : sendWaiters[i] \in AtOp("send")
      BY Before DEF Lists
    <3>2. \A q \in AtOp("send") : call'[q] = call[q]
      BY <1>1, <1>3, <1>u DEF AtOp
    <3> QED
      BY <3>1, <3>2
  <2>2. Payloads' = Append(Payloads, call'[p].val)
    BY Zenon, <1>t, <1>u, <1>2, <2>1, PayloadsAre, PayAppend
  <2>3. call'[p].val = sent + 1
    BY <1>1, <1>3
  <2>4. Line' = Append(Line, sent + 1)
    <3>1. taken \o buf \in Seq(Nat) /\ Payloads \in Seq(Nat)
      BY Before, LineTypes, PayloadTypes
    <3>2. (taken \o buf) \o Append(Payloads, sent + 1) = Append((taken \o buf) \o Payloads, sent + 1)
      <4>1. sent + 1 \in Nat
        BY <1>t
      <4> DEFINE front == taken \o buf     pays == Payloads     e == sent + 1
      <4>2. front \in Seq(Nat) /\ pays \in Seq(Nat) /\ e \in Nat
        BY Zenon, <3>1, <4>1
      <4> HIDE DEF front, pays, e
      <4>3. front \o Append(pays, e) = Append(front \o pays, e)
        BY <4>2, LineAppend
      <4> QED
        BY <4>3 DEF front, pays, e
    <3>3. Line' = (taken \o buf) \o Payloads'
      BY Zenon, <1>u DEF Line
    <3>4. Payloads' = Append(Payloads, sent + 1)
      BY Zenon, <2>2, <2>3
    <3> QED
      BY Zenon, <3>2, <3>3, <3>4 DEF Line
  <2> QED
    BY <1>u, <2>4, Before, LineGrows
<1> QED
  BY <1>5, <1>6, <1>7, <1>8 DEF ChannelInv

-----------------------------------------------------------------------------
(* A receiver takes a value, and a parked sender moves up or is released: Receive and
   ReceiveAsync. *)
LEMMA TakeStep ==
  ASSUME ChannelInv, Take, UNCHANGED <<size, signal, closed, recvWaiters, wakers, canceled, sent, withdrawn>>
  PROVE  ChannelInv'
<1>t. /\ size \in Nat /\ signal \in BOOLEAN /\ closed \in BOOLEAN
      /\ buf \in Seq(Nat) /\ taken \in Seq(Nat) /\ sent \in Nat /\ withdrawn \in SUBSET (1 .. sent)
      /\ recvWaiters \in Seq(Goroutines) /\ sendWaiters \in Seq(Goroutines)
      /\ wakers \in SUBSET Goroutines /\ canceled \in SUBSET Goroutines
      /\ call \in [Goroutines -> CallType]
  BY Zenon, Before, ChannelTypes
<1>p. Payloads \in Seq(Nat) /\ taken \o buf \in Seq(Nat)
  BY Before, PayloadTypes, LineTypes
<1>r. ASSUME sendWaiters # <<>>, sendWaiters' = Tail(sendWaiters), call' = Released
      PROVE  /\ call' \in [Goroutines -> CallType] /\ sendWaiters' \in Seq(Goroutines)
             /\ AtOp("recv")' = AtOp("recv") /\ Lists(sendWaiters', AtOp("send")')
             /\ \A q \in AtOp("select")' : q \in AtOp("select")
             /\ Payloads # <<>> /\ Payloads' = Tail(Payloads) /\ Head(Payloads) = call[Head(sendWaiters)].val
             /\ Tail(Payloads) \in Seq(Nat) /\ Head(Payloads) \in Nat
  <2>1. PICK h \in AtOp("send") : h = Head(sendWaiters) /\ Lists(sendWaiters', AtOp("send") \ {h})
    BY Zenon, <1>t, <1>r, Before, ListsTail
  <2>2. h \in Goroutines /\ call[h].op = "send" /\ call[h] \in CallType
    BY <1>t DEF AtOp
  <2>3. call' = [call EXCEPT ![h] = [call[h] EXCEPT !.op = "sent"]]
    BY <1>t, <1>r, <2>1, <2>2 DEF Released
  <2>4. /\ [call[h] EXCEPT !.op = "sent"] \in CallType /\ [call[h] EXCEPT !.op = "sent"].op = "sent"
        /\ [call[h] EXCEPT !.op = "sent"].val = call[h].val
    BY <2>2 DEF CallType
  <2>5. /\ call' \in [Goroutines -> CallType] /\ call'[h].op = "sent" /\ call'[h].val = call[h].val
        /\ \A q \in Goroutines : q # h => call'[q] = call[q]
    BY <1>t, <2>2, <2>3, <2>4
  <2>6. /\ AtOp("recv")' = AtOp("recv") /\ AtOp("send")' = AtOp("send") \ {h}
        /\ \A q \in AtOp("select")' : q \in AtOp("select")
    BY <2>2, <2>5 DEF AtOp
  <2>7. \A i \in 1 .. Len(sendWaiters) : call'[sendWaiters[i]].val = call[sendWaiters[i]].val
    <3>1. \A i \in 1 .. Len(sendWaiters) : sendWaiters[i] \in Goroutines
      BY <1>t
    <3> QED
      BY <2>5, <3>1
  <2>8. /\ Payloads' = Tail(Payloads) /\ Payloads # <<>> /\ Head(Payloads) = call[Head(sendWaiters)].val
    BY Zenon, <1>t, <1>r, <2>5, <2>7, PayloadsAre, PayTail
  <2>9. Tail(Payloads) \in Seq(Nat) /\ Head(Payloads) \in Nat
    BY <1>p, <2>8, HeadTailProperties
  <2>10. sendWaiters' \in Seq(Goroutines)
    BY <1>t, <1>r
  <2> QED
    BY Zenon, <2>1, <2>5, <2>6, <2>8, <2>9, <2>10
<1>1. /\ call' \in [Goroutines -> CallType] /\ sendWaiters' \in Seq(Goroutines) /\ buf' \in Seq(Nat) /\ taken' \in Seq(Nat)
      /\ AtOp("recv")' = AtOp("recv") /\ Lists(sendWaiters', AtOp("send")')
      /\ \A q \in AtOp("select")' : q \in AtOp("select")
      /\ hasValue /\ (sendWaiters = <<>> => sendWaiters' = <<>>)
      /\ sendWaiters' # <<>> /\ buf # <<>> => Len(buf') = Len(buf)
      /\ buf = <<>> => buf' = <<>>
      /\ Line' = Line
  <2>1. CASE /\ buf # <<>> /\ taken' = Append(taken, Head(buf)) /\ sendWaiters # <<>>
             /\ buf' = Append(Tail(buf), call[Head(sendWaiters)].val)
             /\ sendWaiters' = Tail(sendWaiters) /\ call' = Released
    <3> DEFINE v == Head(Payloads)
    <3>1. Head(buf) \in Nat /\ Tail(buf) \in Seq(Nat) /\ Len(Tail(buf)) = Len(buf) - 1 /\ Len(buf) \in Nat
      BY Zenon, <1>t, <2>1, HeadTailProperties, LenProperties
    <3>2. /\ v \in Nat /\ v = call[Head(sendWaiters)].val /\ Payloads' = Tail(Payloads) /\ Payloads # <<>>
      BY <1>r, <2>1
    <3> HIDE DEF v
    <3>3. taken' \in Seq(Nat) /\ buf' \in Seq(Nat) /\ Len(buf') = Len(buf) /\ buf' = Append(Tail(buf), v)
      BY <1>t, <2>1, <3>1, <3>2, AppendProperties
    <3>4. taken' \o buf' = Append(taken' \o Tail(buf), v)
      <4> DEFINE front == taken'     rest == Tail(buf)
      <4>1. front \in Seq(Nat) /\ rest \in Seq(Nat) /\ v \in Nat
        BY Zenon, <3>1, <3>2, <3>3
      <4> HIDE DEF front, rest
      <4>2. front \o Append(rest, v) = Append(front \o rest, v)
        BY <4>1, LineAppend
      <4> QED
        BY Zenon, <3>3, <4>2 DEF front, rest
    <3>5. taken' \o Tail(buf) = taken \o buf
      BY Zenon, <1>t, <2>1, LineShift
    <3>6. Append(taken \o buf, v) \o Tail(Payloads) = (taken \o buf) \o Payloads
      BY Zenon, <1>p, <3>2, LineShift DEF v
    <3>7. Line' = Line
      BY Zenon, <3>2, <3>4, <3>5, <3>6 DEF Line
    <3> QED
      BY <1>r, <2>1, <3>3, <3>7 DEF hasValue
  <2>2. CASE /\ buf # <<>> /\ taken' = Append(taken, Head(buf)) /\ sendWaiters = <<>>
             /\ buf' = Tail(buf) /\ UNCHANGED <<call, sendWaiters>>
    <3>1. Head(buf) \in Nat /\ Tail(buf) \in Seq(Nat)
      BY <1>t, <2>2, HeadTailProperties
    <3>2. taken' \in Seq(Nat) /\ buf' \in Seq(Nat)
      BY <1>t, <2>2, <3>1, AppendProperties
    <3>3. taken' \o buf' = taken \o buf
      BY Zenon, <1>t, <2>2, LineShift
    <3>4. Payloads' = Payloads
      BY <2>2 DEF Payloads
    <3>5. Line' = Line
      BY <3>3, <3>4 DEF Line
    <3>6. /\ AtOp("recv")' = AtOp("recv") /\ AtOp("send")' = AtOp("send") /\ AtOp("select")' = AtOp("select")
      BY <2>2 DEF AtOp
    <3> QED
      BY <1>t, <2>2, <3>2, <3>5, <3>6, Before DEF hasValue
  <2>3. CASE /\ buf = <<>> /\ size = 0 /\ sendWaiters # <<>> /\ taken' = Append(taken, call[Head(sendWaiters)].val)
             /\ sendWaiters' = Tail(sendWaiters) /\ call' = Released /\ UNCHANGED buf
    <3> DEFINE v == Head(Payloads)
    <3>2. /\ v \in Nat /\ v = call[Head(sendWaiters)].val /\ Payloads' = Tail(Payloads) /\ Payloads # <<>>
      BY <1>r, <2>3
    <3> HIDE DEF v
    <3>3. taken' \in Seq(Nat) /\ taken' = Append(taken, v)
      BY <1>t, <2>3, <3>2, AppendProperties
    <3>4. taken' \o buf' = taken' /\ taken \o buf = taken
      BY <1>t, <2>3, <3>3, ConcatEmptySeq
    <3>5. Append(taken, v) \o Tail(Payloads) = taken \o Payloads
      BY Zenon, <1>t, <1>p, <3>2, LineShift DEF v
    <3>7. Line' = Line
      BY Zenon, <3>2, <3>3, <3>4, <3>5 DEF Line
    <3> QED
      BY <1>t, <1>r, <2>3, <3>3, <3>7 DEF hasValue
  <2> QED
    BY Zenon, <2>1, <2>2, <2>3 DEF Take
<1>2. ChannelTypeOK'
  BY <1>t, <1>1, TypesAfter
<1>3. QueuesHeld'
  BY <1>1, <1>2, Before, QueuesAfter
<1>4. NoLostWakeup'
  <2>1. size > 0 /\ sendWaiters' # <<>> => Len(buf') >= size
    <3> SUFFICES ASSUME size > 0, sendWaiters' # <<>> PROVE Len(buf') >= size
      OBVIOUS
    <3>1. Len(buf) >= size
      BY <1>1, Before
    <3>2. buf # <<>>
      BY <1>t, <3>1
    <3> QED
      BY <1>1, <3>1, <3>2
  <2> QED
    <3>1. AtOp("recv")' = {} /\ \A q \in AtOp("select")' : q \notin wakers'
      BY <1>1, Before
    <3> QED
      BY <2>1, <3>1, WakeupAfter
<1>5. Fifo'
  BY <1>1, Before, LineStays
<1> QED
  BY <1>2, <1>3, <1>4, <1>5 DEF ChannelInv

(* Receive finds nothing, and parks. *)
LEMMA ParkReceive ==
  ASSUME ChannelInv, NEW p \in Goroutines, ReceiveParks(p)
  PROVE  ChannelInv'
<1>t. /\ size \in Nat /\ signal \in BOOLEAN /\ closed \in BOOLEAN
      /\ buf \in Seq(Nat) /\ taken \in Seq(Nat) /\ sent \in Nat /\ withdrawn \in SUBSET (1 .. sent)
      /\ recvWaiters \in Seq(Goroutines) /\ sendWaiters \in Seq(Goroutines)
      /\ wakers \in SUBSET Goroutines /\ canceled \in SUBSET Goroutines
      /\ call \in [Goroutines -> CallType]
  BY Before, ChannelTypes
<1>u. /\ call[p].op = "none" /\ ~hasValue /\ recvWaiters' = Append(recvWaiters, p)
      /\ call' = [call EXCEPT ![p] = Doing("recv", 0)]
      /\ UNCHANGED <<size, signal, buf, closed, sendWaiters, wakers, canceled, sent, taken, withdrawn>>
  BY DEF ReceiveParks, Inside
<1>0. Doing("recv", 0) \in CallType /\ Doing("recv", 0).op = "recv"
  BY DEF Doing, CallType
<1>1. /\ call' \in [Goroutines -> CallType] /\ call'[p].op = "recv" /\ \A q \in Goroutines : q # p => call'[q] = call[q]
  BY <1>t, <1>u, <1>0
<1>2. /\ AtOp("recv")' = AtOp("recv") \cup {p} /\ p \notin AtOp("recv") /\ AtOp("send")' = AtOp("send")
  BY <1>1, <1>u DEF AtOp
<1>3. ~hasValue'
  BY <1>u DEF hasValue
<1>4. ChannelTypeOK'
  <2>1. recvWaiters' \in Seq(Goroutines)
    BY <1>t, <1>u
  <2> QED
    BY <1>t, <1>u, <1>1, <2>1, TypesAfter
<1>5. QueuesHeld'
  <2>0. Lists(recvWaiters, AtOp("recv")) /\ Lists(sendWaiters, AtOp("send")) /\ (signal => sendWaiters = <<>>)
    BY Before
  <2>1. Lists(recvWaiters', AtOp("recv")')
    <3>1. Lists(Append(recvWaiters, p), AtOp("recv") \cup {p})
      BY <1>t, <1>2, <2>0, ListsAppend
    <3> QED
      BY Zenon, <1>u, <1>2, <3>1
  <2>2. Lists(sendWaiters', AtOp("send")') /\ (signal' => sendWaiters' = <<>>)
    BY <1>u, <1>2, <2>0
  <2> QED
    BY <1>4, <2>1, <2>2, QueuesAfter
<1>6. NoLostWakeup'
  <2>1. size' > 0 /\ sendWaiters' # <<>> => Len(buf') >= size'
    BY <1>u, Before
  <2> QED
    BY <1>3, <2>1, WakeupAfter
<1>7. Fifo'
  <2>1. Payloads' = Payloads
    BY Zenon, <1>1, <1>u, Before, PayloadsStay DEF AtOp
  <2> QED
    BY <1>u, <2>1, Before, LineStays DEF Line
<1> QED
  BY <1>4, <1>5, <1>6, <1>7 DEF ChannelInv

(* Close wakes the parked receivers and the Selectors. *)
LEMMA CloseStep ==
  ASSUME ChannelInv, NEW p \in Goroutines, Close(p)
  PROVE  ChannelInv'
<1>t. /\ size \in Nat /\ signal \in BOOLEAN /\ closed \in BOOLEAN
      /\ buf \in Seq(Nat) /\ taken \in Seq(Nat) /\ sent \in Nat /\ withdrawn \in SUBSET (1 .. sent)
      /\ recvWaiters \in Seq(Goroutines) /\ sendWaiters \in Seq(Goroutines)
      /\ wakers \in SUBSET Goroutines /\ canceled \in SUBSET Goroutines
      /\ call \in [Goroutines -> CallType]
  BY Before, ChannelTypes
<1> DEFINE c == [q \in Goroutines |-> IF q \in Range(recvWaiters) THEN Doing("got", 0) ELSE call[q]]
<1>u. /\ ~signal /\ closed' = TRUE /\ wakers' = {} /\ recvWaiters' = <<>> /\ call' = Woken(c)
      /\ UNCHANGED <<size, signal, buf, sendWaiters, canceled, sent, taken, withdrawn>>
  BY DEF Close
<1>0. Doing("got", 0) \in CallType /\ Doing("got", 0).op = "got"
  BY DEF Doing, CallType
<1>q. Range(recvWaiters) = AtOp("recv")
  <2>1. DOMAIN recvWaiters = 1 .. Len(recvWaiters) /\ Lists(recvWaiters, AtOp("recv"))
    BY Zenon, <1>t, Before, LenProperties
  <2> QED
    BY <2>1 DEF Range, Lists
<1>1. /\ c \in [Goroutines -> CallType]
      /\ \A q \in Goroutines : IF q \in AtOp("recv") THEN c[q].op = "got" ELSE c[q] = call[q]
  BY Zenon, <1>t, <1>0, <1>q
<1> HIDE DEF c
<1>2. /\ call' \in [Goroutines -> CallType]
      /\ \A q \in Goroutines : call'[q].op \in {"recv", "send"} <=> c[q].op \in {"recv", "send"}
  BY <1>1, <1>u, WokenKeeps
<1>3. \A q \in Goroutines : c[q].op \in {"recv", "send"} => call'[q] = c[q]
  BY <1>1, <1>u, WokenKeeps
<1>4. AtOp("recv")' = {} /\ AtOp("send")' = AtOp("send")
  BY <1>1, <1>2, <1>3 DEF AtOp
<1>5. ChannelTypeOK'
  <2>1. recvWaiters' \in Seq(Goroutines)
    BY <1>u
  <2> QED
    BY Zenon, <1>t, <1>u, <1>2, <2>1, TypesAfter
<1>6. QueuesHeld'
  <2>1. Lists(recvWaiters', AtOp("recv")')
    BY <1>u, <1>4, ListsNone
  <2> QED
    BY <1>4, <1>5, <1>u, <2>1, Before, QueuesAfter
<1>7. NoLostWakeup'
  <2>1. size' > 0 /\ sendWaiters' # <<>> => Len(buf') >= size'
    BY <1>u, Before
  <2> QED
    BY <1>4, <1>u, <2>1, WakeupAfter
<1>8. Fifo'
  <2>1. \A q \in AtOp("send") : call'[q].val = call[q].val
    BY <1>1, <1>3 DEF AtOp
  <2>2. Payloads' = Payloads
    BY <1>u, <2>1, Before, PayloadsStay
  <2> QED
    BY <1>u, <2>2, Before, LineStays DEF Line
<1> QED
  BY <1>5, <1>6, <1>7, <1>8 DEF ChannelInv

(* A canceled call returns: a waiter that is still queued leaves its queue. *)
LEMMA ReturnCanceledStep ==
  ASSUME ChannelInv, NEW p \in Goroutines, ReturnCanceled(p)
  PROVE  ChannelInv'
<1>t. /\ size \in Nat /\ signal \in BOOLEAN /\ closed \in BOOLEAN
      /\ buf \in Seq(Nat) /\ taken \in Seq(Nat) /\ sent \in Nat /\ withdrawn \in SUBSET (1 .. sent)
      /\ recvWaiters \in Seq(Goroutines) /\ sendWaiters \in Seq(Goroutines)
      /\ wakers \in SUBSET Goroutines /\ canceled \in SUBSET Goroutines
      /\ call \in [Goroutines -> CallType]
  BY Before, ChannelTypes
<1>u. /\ call[p].op \in {"send", "recv", "sent", "got"} /\ call' = [call EXCEPT ![p] = Idle]
      /\ sendWaiters' = Without(sendWaiters, p) /\ recvWaiters' = Without(recvWaiters, p)
      /\ withdrawn' = IF call[p].op = "send" THEN withdrawn \cup {call[p].val} ELSE withdrawn
      /\ UNCHANGED <<size, signal, buf, closed, wakers, canceled, sent, taken>>
  BY DEF ReturnCanceled, Inside
<1>0. Idle \in CallType /\ Idle.op = "none"
  BY DEF Idle, CallType
<1>1. /\ call' \in [Goroutines -> CallType] /\ call'[p].op = "none" /\ \A q \in Goroutines : q # p => call'[q] = call[q]
  BY <1>t, <1>u, <1>0
<1>2. /\ AtOp("recv")' = AtOp("recv") \ {p} /\ AtOp("send")' = AtOp("send") \ {p}
      /\ \A q \in AtOp("select")' : q \in AtOp("select")
  BY <1>1 DEF AtOp
<1>3. Lists(recvWaiters', AtOp("recv")') /\ recvWaiters' \in Seq(Goroutines)
  <2>1. CASE p \in AtOp("recv")
    <3>1. PICK k \in 1 .. Len(recvWaiters) : /\ recvWaiters' = CutAt(recvWaiters, k)
                                             /\ Lists(CutAt(recvWaiters, k), AtOp("recv") \ {p})
      BY Zenon, <1>t, <1>u, <2>1, Before, ListsRemove
    <3> QED
      BY Zenon, <1>t, <1>2, <3>1, RemovedAt
  <2>2. CASE p \notin AtOp("recv")
    <3>1. recvWaiters' = recvWaiters /\ AtOp("recv") \ {p} = AtOp("recv")
      BY Zenon, <1>t, <1>u, <2>2, Before, ListsWithout
    <3> QED
      BY ZenonT(30), <1>t, <1>2, <3>1, Before
  <2> QED
    BY <2>1, <2>2
<1>4. /\ Lists(sendWaiters', AtOp("send")') /\ sendWaiters' \in Seq(Goroutines) /\ Fifo'
      /\ withdrawn' \in SUBSET (1 .. sent') /\ (sendWaiters = <<>> => sendWaiters' = <<>>)
  <2>1. CASE p \in AtOp("send")
    <3>0. call[p].op = "send"
      BY <2>1 DEF AtOp
    <3>1. PICK k \in 1 .. Len(sendWaiters) : /\ sendWaiters[k] = p /\ sendWaiters' = CutAt(sendWaiters, k)
                                             /\ Lists(CutAt(sendWaiters, k), AtOp("send") \ {p})
      BY ZenonT(30), <1>t, <1>u, <2>1, Before, ListsRemove
    <3>2. \A i \in 1 .. Len(sendWaiters) : i # k => call'[sendWaiters[i]].val = call[sendWaiters[i]].val
      <4>1. ASSUME NEW i \in 1 .. Len(sendWaiters), i # k PROVE sendWaiters[i] # p /\ sendWaiters[i] \in Goroutines
        <5>1. Lists(sendWaiters, AtOp("send"))
          BY Before
        <5> QED
          BY Zenon, <3>1, <4>1, <5>1 DEF Lists, AtOp
      <4> QED
        BY Zenon, <1>1, <4>1
    <3>3. Payloads' = CutAt(Payloads, k)
      BY ZenonT(30), <1>t, <1>1, <3>1, <3>2, PayloadsAre, PayRemove
    <3>4. Payloads \in Seq(Nat) /\ taken \o buf \in Seq(Nat) /\ Len(Payloads) = Len(sendWaiters) /\ Payloads[k] = call[p].val
      BY Zenon, <3>1, Before, PayloadTypes, LineTypes
    <3> DEFINE front == taken \o buf     pays == Payloads     m == Len(front) + k
    <3>l. front \in Seq(Nat) /\ pays \in Seq(Nat) /\ k \in 1 .. Len(pays)
      BY <3>1, <3>4
    <3> HIDE DEF front, pays
    <3>5. /\ front \o CutAt(pays, k) = CutAt(front \o pays, m)
          /\ m \in 1 .. Len(front \o pays) /\ (front \o pays)[m] = pays[k]
      BY ZenonT(30), <3>l, LineRemove
    <3> USE DEF front, pays
    <3>6. m \in 1 .. Len(Line) /\ Line[m] = call[p].val /\ Line' = CutAt(Line, m)
      BY <1>u, <3>3, <3>4, <3>5 DEF Line
    <3> HIDE DEF m
    <3>7. Fifo' /\ withdrawn' \in SUBSET (1 .. sent')
      BY <1>u, <3>0, <3>6, Before, LineLoses
    <3>8. sendWaiters' \in Seq(Goroutines) /\ sendWaiters # <<>>
      BY <1>t, <3>1, RemovedAt
    <3> QED
      BY Zenon, <1>2, <3>1, <3>7, <3>8
  <2>2. CASE p \notin AtOp("send")
    <3>0. call[p].op # "send"
      BY <2>2 DEF AtOp
    <3>1. sendWaiters' = sendWaiters /\ AtOp("send") \ {p} = AtOp("send")
      BY Zenon, <1>t, <1>u, <2>2, Before, ListsWithout
    <3>2. Payloads' = Payloads
      BY Zenon, <1>1, <2>2, <3>1, Before, PayloadsStay DEF AtOp
    <3>3. Fifo'
      BY <1>u, <3>0, <3>2, Before, LineStays DEF Line
    <3> QED
      BY Zenon, <1>t, <1>u, <1>2, <3>0, <3>1, <3>3, Before
  <2> QED
    BY <2>1, <2>2
<1>5. ChannelTypeOK'
  BY <1>t, <1>u, <1>1, <1>3, <1>4, TypesAfter
<1>6. QueuesHeld'
  BY <1>3, <1>4, <1>5, <1>u, Before, QueuesAfter
<1>7. NoLostWakeup'
  <2>1. ~hasValue => ~hasValue'
    BY <1>u, <1>4 DEF hasValue
  <2>2. size' > 0 /\ sendWaiters' # <<>> => Len(buf') >= size'
    BY <1>u, <1>4, Before
  <2>3. /\ \A q \in AtOp("recv")' : ~hasValue'
        /\ \A q \in AtOp("select")' : q \in wakers' => ~hasValue'
    BY <1>u, <1>2, <2>1, Before
  <2> QED
    BY <2>2, <2>3, WakeupAfter
<1> QED
  BY <1>4, <1>5, <1>6, <1>7 DEF ChannelInv

(* SignalAsync puts its value at the end of the buffer and hands the oldest one over. *)
LEMMA SignalStep ==
  ASSUME ChannelInv, SignalAsync
  PROVE  ChannelInv'
<1>t. /\ size \in Nat /\ signal \in BOOLEAN /\ closed \in BOOLEAN
      /\ buf \in Seq(Nat) /\ taken \in Seq(Nat) /\ sent \in Nat /\ withdrawn \in SUBSET (1 .. sent)
      /\ recvWaiters \in Seq(Goroutines) /\ sendWaiters \in Seq(Goroutines)
      /\ wakers \in SUBSET Goroutines /\ canceled \in SUBSET Goroutines
      /\ call \in [Goroutines -> CallType]
  BY Zenon, Before, ChannelTypes
<1>s. sendWaiters = <<>>
  BY Before DEF SignalAsync
<1>1. CASE recvWaiters # <<>>
  <2>1. buf = <<>>
    BY <1>1, Before
  <2>2. Head(Append(buf, sent + 1)) = sent + 1 /\ Tail(Append(buf, sent + 1)) = <<>>
    BY <1>t, <2>1, HeadTailAppend
  <2> QED
    BY <1>1, <2>2, HandOver DEF SignalAsync
<1>2. CASE recvWaiters = <<>>
  BY <1>2, <1>s, Buffered DEF SignalAsync
<1> QED
  BY <1>1, <1>2

(* The operations of a goroutine that runs. *)
LEMMA OperateStep ==
  ASSUME ChannelInv, NEW p \in Goroutines, Operate(p)
  PROVE  ChannelInv'
<1>t. /\ size \in Nat /\ signal \in BOOLEAN /\ closed \in BOOLEAN
      /\ buf \in Seq(Nat) /\ taken \in Seq(Nat) /\ sent \in Nat /\ withdrawn \in SUBSET (1 .. sent)
      /\ recvWaiters \in Seq(Goroutines) /\ sendWaiters \in Seq(Goroutines)
      /\ wakers \in SUBSET Goroutines /\ canceled \in SUBSET Goroutines
      /\ call \in [Goroutines -> CallType]
  BY Before, ChannelTypes
<1>i. Idle \in CallType /\ Idle.op = "none" /\ Doing("panic", 0) \in CallType /\ Doing("panic", 0).op = "panic"
  BY DEF Idle, CallType, Doing
<1>1. CASE SendPanics(p)
  BY Zenon, <1>t, <1>i, <1>1, OutsideStep DEF SendPanics, Inside
<1>2. CASE SendHandsOver(p)
  <2>1. recvWaiters # <<>> /\ buf' = <<>>
    BY <1>2, Before DEF SendHandsOver
  <2> QED
    BY <1>2, <2>1, HandOver DEF SendHandsOver, Sending
<1>3. CASE SendBuffers(p)
  <2>1. sendWaiters = <<>>
    <3>1. size > 0 /\ ~(Len(buf) >= size)
      BY <1>t, <1>3, LenProperties DEF SendBuffers
    <3> QED
      BY <3>1, Before
  <2> QED
    BY <1>3, <2>1, Buffered DEF SendBuffers, Sending
<1>4. CASE SendParks(p)
  BY <1>4, ParkSend
<1>5. CASE ReceiveTakes(p) \/ ReceiveAsync(p)
  BY <1>5, TakeStep DEF ReceiveTakes, ReceiveAsync
<1>6. CASE ReceiveParks(p)
  BY <1>6, ParkReceive
<1>7. CASE Close(p)
  BY <1>7, CloseStep
<1>8. CASE Return(p)
  BY Zenon, <1>t, <1>i, <1>8, OutsideStep DEF Return
<1>9. CASE ReturnCanceled(p)
  BY <1>9, ReturnCanceledStep
<1> QED
  BY <1>1, <1>2, <1>3, <1>4, <1>5, <1>6, <1>7, <1>8, <1>9 DEF Operate

(* Select scans, registers its waker, or leaves. *)
LEMMA SelectorStep ==
  ASSUME ChannelInv, NEW p \in Goroutines, SelectScans(p) \/ RegisterReadyWaker(p) \/ SelectLeaves(p)
  PROVE  ChannelInv'
<1>t. /\ size \in Nat /\ signal \in BOOLEAN /\ closed \in BOOLEAN
      /\ buf \in Seq(Nat) /\ taken \in Seq(Nat) /\ sent \in Nat /\ withdrawn \in SUBSET (1 .. sent)
      /\ recvWaiters \in Seq(Goroutines) /\ sendWaiters \in Seq(Goroutines)
      /\ wakers \in SUBSET Goroutines /\ canceled \in SUBSET Goroutines
      /\ call \in [Goroutines -> CallType]
  BY Before, ChannelTypes
<1>i. /\ Idle \in CallType /\ Idle.op = "none"
      /\ Doing("arming", 0) \in CallType /\ Doing("arming", 0).op = "arming"
      /\ Doing("woken", 0) \in CallType /\ Doing("woken", 0).op = "woken"
      /\ Doing("select", 0) \in CallType /\ Doing("select", 0).op = "select"
  BY DEF Idle, CallType, Doing
<1>1. CASE SelectScans(p)
  BY Zenon, <1>t, <1>i, <1>1, OutsideStep DEF SelectScans, Inside
<1>2. CASE RegisterReadyWaker(p)
  <2>1. CASE hasValue
    BY Zenon, <1>t, <1>i, <1>2, <2>1, OutsideStep DEF RegisterReadyWaker, Inside
  <2>2. CASE ~hasValue
    BY Zenon, <1>t, <1>i, <1>2, <2>2, OutsideStep DEF RegisterReadyWaker, Inside
  <2> QED
    BY <2>1, <2>2
<1>3. CASE SelectLeaves(p)
  BY Zenon, <1>t, <1>i, <1>3, OutsideStep DEF SelectLeaves
<1> QED
  BY <1>1, <1>2, <1>3

-----------------------------------------------------------------------------
(* The inductive invariant of Channel: the queues list the parked goroutines, the line of
   payloads is in the order of the sends, and no waiter has what it waits for. *)
THEOREM ChannelInvariant == ChannelSpec => []ChannelInv
<1>1. ChannelInit => ChannelInv
  <2> SUFFICES ASSUME ChannelInit PROVE ChannelInv
    OBVIOUS
  <2>1. /\ size \in Nat /\ signal \in BOOLEAN /\ closed = FALSE /\ buf = <<>> /\ recvWaiters = <<>> /\ sendWaiters = <<>>
        /\ wakers = {} /\ canceled = {} /\ sent = 0 /\ taken = <<>> /\ withdrawn = {} /\ call = [p \in Goroutines |-> Idle]
    <3>1. MaxSends + 1 \in Nat
      BY ChannelAssumption
    <3>2. CASE NewBufferedChannel
      <4>1. PICK n \in Sizes : newChan(n)
        BY <3>2 DEF NewBufferedChannel
      <4>2. n \in Nat
        BY ChannelAssumption
      <4> QED
        BY <3>2, <4>1, <4>2, Zenon DEF ChannelInit, NewBufferedChannel, newChan
    <3>3. CASE NewSignalChannel
      BY <3>1, <3>3, Zenon DEF ChannelInit, NewSignalChannel, newChan
    <3> QED
      BY <3>2, <3>3, Zenon DEF ChannelInit
  <2>2. Idle \in CallType /\ Idle.op = "none"
    BY DEF Idle, CallType
  <2>3. ChannelTypeOK
    <3>1. <<>> \in Seq(Nat) /\ <<>> \in Seq(Goroutines) /\ 0 \in Nat
      OBVIOUS
    <3>2. {} \in SUBSET (1 .. sent) /\ {} \in SUBSET Goroutines /\ FALSE \in BOOLEAN
      OBVIOUS
    <3>3. call \in [Goroutines -> CallType]
      BY <2>1, <2>2
    <3> QED
      BY <2>1, <3>1, <3>2, <3>3, ChannelTypes, Zenon
  <2>4. AtOp("recv") = {} /\ AtOp("send") = {} /\ \A p \in Goroutines : call[p].op = "none"
    BY <2>1, <2>2 DEF AtOp
  <2>5. QueuesHeld
    BY <2>1, <2>3, <2>4, QueuesList, ListsNone
  <2>6. NoLostWakeup
    BY <2>1, <2>4 DEF NoLostWakeup, Inside
  <2>7. Fifo
    <3>1. Payloads = <<>>
      BY <2>1, NoPayloads
    <3>2. Line = <<>>
      BY <2>1, <3>1, ConcatEmptySeq DEF Line
    <3>3. Increasing(<<>>) /\ Range(<<>>) = {}
      BY DEF Increasing, Range
    <3>4. 1 .. sent \ withdrawn = {}
      BY <2>1
    <3> QED
      BY <3>2, <3>3, <3>4, FifoLine
  <2> QED
    BY <2>3, <2>5, <2>6, <2>7 DEF ChannelInv
<1>2. ChannelInv /\ [ChannelNext]_chanVars => ChannelInv'
  <2> SUFFICES ASSUME ChannelInv, [ChannelNext]_chanVars PROVE ChannelInv'
    OBVIOUS
  <2>t. canceled \in SUBSET Goroutines
    BY Before, ChannelTypes
  <2>1. CASE SignalAsync
    BY <2>1, SignalStep
  <2>2. ASSUME NEW p \in Goroutines, Operate(p) PROVE ChannelInv'
    BY <2>2, OperateStep
  <2>3. ASSUME NEW p \in Goroutines, Cancel(p) PROVE ChannelInv'
    BY <2>3, <2>t, CancelStep DEF Cancel
  <2>4. ASSUME NEW p \in Goroutines, SelectScans(p) \/ RegisterReadyWaker(p) \/ SelectLeaves(p) PROVE ChannelInv'
    BY <2>4, SelectorStep
  <2>5. CASE UNCHANGED chanVars
    BY <2>5, <2>t, CancelStep DEF chanVars
  <2> QED
    BY <2>1, <2>2, <2>3, <2>4, <2>5, Zenon DEF ChannelNext
<1> QED
  BY <1>1, <1>2, PTL DEF ChannelSpec

(* No receiver or Selector stays parked on a channel that has a value or is closed, and no
   sender on a buffer with room: every operation wakes whom it serves (chanImpl.Send,
   Receive, Close, signalWakersLocked). *)
THEOREM WakeupsNotLost == ChannelSpec => []NoLostWakeup
<1>1. ChannelInv => NoLostWakeup
  BY DEF ChannelInv
<1> QED
  BY <1>1, ChannelInvariant, PTL

(* Values are received in the order they were sent, whether they pass through the buffer
   or from a parked sender; only a canceled send is left out (chanImpl.Send, Receive). *)
THEOREM ChannelIsFifo == ChannelSpec => []Fifo
<1>1. ChannelInv => Fifo
  BY DEF ChannelInv
<1> QED
  BY <1>1, ChannelInvariant, PTL

(* The scheduler of the coroutines takes the channel's steps and no others: every
   behaviour of Coroutine is one of Channel. *)
THEOREM CoroutineUsesChannel == CoroutineInit /\ [][CoroutineNext]_coroutineVars => ChannelSpec
<1>1. CoroutineInit => ChannelInit
  BY DEF CoroutineInit, CoroutineAt
<1>2. [CoroutineNext]_coroutineVars => [ChannelNext]_chanVars
  <2> SUFFICES ASSUME [CoroutineNext]_coroutineVars PROVE [ChannelNext]_chanVars
    OBVIOUS
  <2>m. Main \in Goroutines
    BY CoroutineAssumption
  <2>1. CASE Helpers
    BY <2>1 DEF Helpers, TimerFires, TimerSettles, ChildStarted, ChildFails, ChildSettles, Merge, FanIn
  <2>2. CASE ArmWaker
    BY <2>2, <2>m DEF ArmWaker, ChannelNext
  <2>3. CASE ContextDone
    BY <2>3 DEF ContextDone
  <2>4. CASE Signals
    BY <2>4 DEF Signals, ChannelNext
  <2>5. ASSUME NEW p \in Goroutines, UseChannel(p) \/ CancelScope(p) PROVE [ChannelNext]_chanVars
    BY <2>5 DEF UseChannel, CancelScope, ChannelNext
  <2>6. CASE SelectParks \/ StubSelectParks
    BY <2>6, <2>m DEF SelectParks, StubSelectParks, SelectFanIn, ChannelNext
  <2>7. CASE SelectReturns
    BY <2>7, <2>m DEF SelectReturns, ChannelNext
  <2>8. CASE Cleanup
    <3>1. CASE Main \in canceled
      BY <2>8, <3>1 DEF Cleanup, chanVars
    <3>2. CASE Main \notin canceled
      BY <2>8, <2>m, <3>2 DEF Cleanup, Cancel, ChannelNext
    <3> QED
      BY <3>1, <3>2
  <2>9. CASE \/ NewTimer \/ Sleep \/ ExecuteChildWorkflow \/ CallActivity
             \/ StubNewTimer \/ StubSleep \/ StubExecuteChildWorkflow \/ StubCallActivity
    BY <2>9 DEF NewTimer, Sleep, ExecuteChildWorkflow, CallActivity, StubNewTimer, StubSleep,
                StubExecuteChildWorkflow, StubCallActivity, NewWallClockTimer
  <2>10. CASE GetBlocked \/ GetWaits \/ GetReturns \/ SelectAtOnce \/ FunctionReturns
    BY <2>10 DEF GetBlocked, GetWaits, GetReturns, SelectAtOnce, FunctionReturns
  <2>11. CASE UNCHANGED coroutineVars
    BY <2>11 DEF coroutineVars
  <2> QED
    BY <2>1, <2>2, <2>3, <2>4, <2>5, <2>6, <2>7, <2>8, <2>9, <2>10, <2>11, Zenon DEF CoroutineNext, Function
<1> QED
  BY <1>1, <1>2, PTL DEF ChannelSpec

(* So the goroutines of a workflow lose no wakeup and receive in order, whatever the
   scheduler, the timers and the stubs do (channel.go, timer.go, stub.go). *)
COROLLARY CoroutinesAreServed ==
  CoroutineInit /\ [][CoroutineNext]_coroutineVars => [](NoLostWakeup /\ Fifo)
BY CoroutineUsesChannel, WakeupsNotLost, ChannelIsFifo, PTL
=============================================================================
