----------------------------- MODULE ListLemmas -----------------------------
(***************************************************************************)
(* What the list operations of the models do to a sequence, element by     *)
(* element, as the proofs need it.                                         *)
(***************************************************************************)
EXTENDS Naturals, Sequences, SequencesExt, SequenceTheorems, FiniteSetTheorems,
        WellFoundedInduction, TLAPS

----------------------------------------------------------------------------

\* A push adds the item behind the others (UpdateQueue::Push(), AddInject()).
LEMMA AppendFacts ==
  ASSUME NEW T, NEW q \in Seq(T), NEW e \in T
  PROVE  /\ Append(q, e) \in Seq(T)
         /\ Len(Append(q, e)) = Len(q) + 1
         /\ \A i \in 1..Len(q) : Append(q, e)[i] = q[i]
         /\ Append(q, e)[Len(q) + 1] = e
  BY AppendProperties

\* Popping the front item keeps the others (UpdateQueue::Pop(), HandleInject()).
LEMMA TailFacts ==
  ASSUME NEW T, NEW q \in Seq(T), q # << >>
  PROVE  /\ Head(q) \in T /\ 1 \in DOMAIN q /\ Head(q) = q[1]
         /\ Tail(q) \in Seq(T) /\ Len(Tail(q)) = Len(q) - 1
         /\ \A j \in DOMAIN Tail(q) : j + 1 \in DOMAIN q /\ Tail(q)[j] = q[j + 1]
  BY HeadTailProperties

\* Taking one item out keeps the others, in order (UpdateQueue::Erase(),
\* RemoveInject()).
LEMMA EraseFacts ==
  ASSUME NEW T, NEW q \in Seq(T), NEW i \in DOMAIN q
  PROVE  /\ RemoveAt(q, i) \in Seq(T)
         /\ Len(RemoveAt(q, i)) = Len(q) - 1
         /\ \A j \in DOMAIN RemoveAt(q, i) :
              RemoveAt(q, i)[j] = IF j < i THEN q[j] ELSE q[j + 1]
<1>. DEFINE a == SubSeq(q, 1, i - 1)
            b == SubSeq(q, i + 1, Len(q))
<1>0. i \in 1..Len(q) /\ Len(q) \in Nat
  BY LenProperties
<1>1. /\ a \in Seq(T) /\ Len(a) = i - 1
      /\ \A j \in 1..(i - 1) : a[j] = q[j]
  BY <1>0, SubSeqProperties
<1>2. /\ b \in Seq(T) /\ Len(b) = Len(q) - i
      /\ \A j \in 1..(Len(q) - i) : b[j] = q[i + j]
  BY <1>0, SubSeqProperties
<1>. HIDE DEF a, b
<1>3. /\ a \o b \in Seq(T) /\ Len(a \o b) = Len(q) - 1
      /\ \A j \in 1..(Len(q) - 1) :
           (a \o b)[j] = IF j <= i - 1 THEN a[j] ELSE b[j - (i - 1)]
  BY <1>0, <1>1, <1>2, ConcatProperties
<1>4. RemoveAt(q, i) = a \o b
  BY DEF RemoveAt, a, b
<1>5. ASSUME NEW j \in 1..(Len(q) - 1)
      PROVE  (a \o b)[j] = IF j < i THEN q[j] ELSE q[j + 1]
  <2>1. CASE j <= i - 1
    BY <2>1, <1>0, <1>1, <1>3
  <2>2. CASE ~(j <= i - 1)
    <3>. DEFINE m == j - (i - 1)
    <3>1. m \in 1..(Len(q) - i) /\ i + m = j + 1
      BY <2>2, <1>0
    <3>2. (a \o b)[j] = b[m]
      BY <2>2, <1>0, <1>3
    <3>. HIDE DEF m
    <3>3. b[m] = q[i + m]
      BY <3>1, <1>2
    <3>. QED  BY <2>2, <1>0, <3>1, <3>2, <3>3
  <2>. QED  BY <2>1, <2>2
<1>. QED
  BY <1>0, <1>3, <1>4, <1>5, LenProperties

\* An item in front of a queue: the job being worked on, and those that wait.
LEMMA HeadedQueue ==
  ASSUME NEW T, NEW h \in T, NEW q \in Seq(T)
  PROVE  /\ <<h>> \o q \in Seq(T) /\ Len(<<h>> \o q) = Len(q) + 1
         /\ <<h>> \o q # << >>
         /\ Head(<<h>> \o q) = h /\ Tail(<<h>> \o q) = q
         /\ \A i \in 1..Len(q) : (<<h>> \o q)[i + 1] = q[i]
         /\ (<<h>> \o q)[1] = h
<1>. DEFINE p == <<h>> \o q
<1>1. <<h>> \in Seq(T) /\ Len(<<h>>) = 1 /\ <<h>>[1] = h
  OBVIOUS
<1>2. /\ p \in Seq(T) /\ Len(p) = Len(q) + 1 /\ Len(q) \in Nat
      /\ \A i \in 1..(1 + Len(q)) : p[i] = IF i <= 1 THEN <<h>>[i] ELSE q[i - 1]
  BY <1>1, ConcatProperties, LenProperties
<1>. HIDE DEF p
<1>3. p # << >>
  BY <1>2
<1>4. p[1] = h /\ \A i \in 1..Len(q) : p[i + 1] = q[i]
  <2>1. p[1] = h
    BY <1>1, <1>2
  <2>2. ASSUME NEW i \in 1..Len(q) PROVE p[i + 1] = q[i]
    BY <1>2, i + 1 \in 1..(1 + Len(q)), ~(i + 1 <= 1), i + 1 - 1 = i
  <2>. QED
    BY <2>1, <2>2
<1>5. /\ Head(p) = h
      /\ Tail(p) \in Seq(T) /\ Len(Tail(p)) = Len(q)
      /\ \A i \in 1..Len(q) : Tail(p)[i] = q[i]
  BY <1>2, <1>3, <1>4, HeadTailProperties
<1>6. Tail(p) = q
  BY <1>5, SeqEqual
<1>. QED
  BY <1>2, <1>3, <1>4, <1>5, <1>6 DEF p

\* A push behind a queue with a head.
LEMMA HeadedAppend ==
  ASSUME NEW T, NEW h \in T, NEW q \in Seq(T), NEW e \in T
  PROVE  <<h>> \o Append(q, e) = Append(<<h>> \o q, e)
<1>1. <<h>> \in Seq(T) /\ <<e>> \in Seq(T)
  OBVIOUS
<1>2. Append(q, e) = q \o <<e>> /\ Append(<<h>> \o q, e) = (<<h>> \o q) \o <<e>>
  BY HeadedQueue, AppendIsConcat
<1>. QED
  BY <1>1, <1>2, ConcatAssociative

\* What is taken out of the queue is taken out of the whole, one place further.
LEMMA HeadedErase ==
  ASSUME NEW T, NEW h \in T, NEW q \in Seq(T), NEW i \in DOMAIN q
  PROVE  <<h>> \o RemoveAt(q, i) = RemoveAt(<<h>> \o q, i + 1)
<1>. DEFINE p == <<h>> \o q
            r == RemoveAt(q, i)
            s == <<h>> \o r
            t == RemoveAt(p, i + 1)
<1>1. /\ p \in Seq(T) /\ Len(p) = Len(q) + 1 /\ p[1] = h
      /\ \A j \in 1..Len(q) : p[j + 1] = q[j]
  BY HeadedQueue
<1>2. /\ r \in Seq(T) /\ Len(r) = Len(q) - 1
      /\ \A j \in DOMAIN r : r[j] = IF j < i THEN q[j] ELSE q[j + 1]
  BY EraseFacts
<1>3. /\ Len(q) \in Nat /\ DOMAIN q = 1..Len(q) /\ DOMAIN r = 1..(Len(q) - 1)
      /\ DOMAIN p = 1..(Len(q) + 1)
  BY <1>1, <1>2, LenProperties
<1>. HIDE DEF p, r
<1>4. /\ s \in Seq(T) /\ Len(s) = Len(q) /\ s[1] = h
      /\ \A j \in 1..(Len(q) - 1) : s[j + 1] = r[j]
  BY <1>2, <1>3, HeadedQueue
<1>5. /\ t \in Seq(T) /\ Len(t) = Len(q)
      /\ \A j \in DOMAIN t : t[j] = IF j < i + 1 THEN p[j] ELSE p[j + 1]
  <2>1. i + 1 \in DOMAIN p
    BY <1>3
  <2>2. /\ t \in Seq(T) /\ Len(t) = Len(p) - 1
        /\ \A j \in DOMAIN t : t[j] = IF j < i + 1 THEN p[j] ELSE p[j + 1]
    BY <1>1, <2>1, EraseFacts
  <2>. QED
    BY <1>1, <1>3, <2>2
<1>6. DOMAIN t = 1..Len(q)
  BY <1>5, LenProperties
<1>. HIDE DEF s, t
<1>7. ASSUME NEW j \in 1..Len(q)
      PROVE  s[j] = t[j]
  <2>1. CASE j = 1
    <3>1. 1 \in DOMAIN t /\ 1 < i + 1
      BY <2>1, <1>3, <1>6
    <3>. QED
      BY <2>1, <3>1, <1>1, <1>4, <1>5
  <2>2. CASE j # 1
    <3>. DEFINE k == j - 1
    <3>1. k \in 1..(Len(q) - 1) /\ k \in 1..Len(q) /\ k + 1 \in 1..Len(q) /\ j = k + 1
      BY <2>2, <1>3
    <3>. HIDE DEF k
    <3>2. s[j] = IF k < i THEN q[k] ELSE q[k + 1]
      BY <3>1, <1>2, <1>3, <1>4
    <3>3. p[k + 1] = q[k] /\ p[k + 1 + 1] = q[k + 1]
      BY <3>1, <1>1
    <3>4. t[j] = IF k < i THEN p[k + 1] ELSE p[k + 1 + 1]
      BY <3>1, <1>3, <1>5, <1>6
    <3>. QED
      BY <3>2, <3>3, <3>4
  <2>. QED
    BY <2>1, <2>2
<1>8. s = t
  BY <1>3, <1>4, <1>5, <1>7, SeqEqual
<1>. QED
  BY <1>8 DEF s, t, p, r

----------------------------------------------------------------------------
(***************************************************************************)
(* Induction over the naturals, as the least counterexample.               *)
(***************************************************************************)

\* A set of naturals that is not empty has a least element.
LEMMA LeastNatural ==
  ASSUME NEW S \in SUBSET Nat, S # {}
  PROVE  \E n \in S : \A m \in S : n <= m
<1>. DEFINE R == {ss \in Nat \X Nat : ss[1] < ss[2]}
<1>1. IsWellFoundedOn(R, Nat)
  BY NatLessThanWellFounded, Zenon DEF OpToRel
<1>2. PICK n \in S : \A m \in S : ~(<<m, n>> \in R)
  <2>. HIDE DEF R
  <2>. QED BY <1>1, WFMin
<1>3. ASSUME NEW m \in S PROVE n <= m
  <2>1. ASSUME m < n PROVE <<m, n>> \in R
    BY <2>1
  <2>. QED BY <1>2, <2>1
<1>. QED BY <1>3

\* The indices in a set can be listed in increasing order.
LEMMA Enumeration ==
  ASSUME NEW n \in Nat, NEW I \in SUBSET (1..n)
  PROVE  /\ IsFiniteSet(I) /\ Cardinality(I) \in Nat
         /\ \E f \in [1..Cardinality(I) -> I] :
              \A i, j \in 1..Cardinality(I) : i < j => f[i] < f[j]
<1>. DEFINE Good(J) == \E f \in [1..Cardinality(J) -> J] :
              \A i, j \in 1..Cardinality(J) : i < j => f[i] < f[j]
            Bad == {m \in Nat : \E J \in SUBSET (1..m) : ~Good(J)}
<1>1. ASSUME NEW m \in Nat, NEW J \in SUBSET (1..m)
      PROVE  IsFiniteSet(J) /\ Cardinality(J) \in Nat
  <2>1. IsFiniteSet(1..m)
    BY FS_Interval
  <2>2. IsFiniteSet(J)
    BY <2>1, FS_Subset
  <2>. QED
    BY <2>2, FS_CardinalityType
<1>2. ASSUME NEW m \in Nat, NEW J \in SUBSET (1..m),
             \A k \in Nat : k < m => \A K \in SUBSET (1..k) : Good(K)
      PROVE  Good(J)
  <2>1. IsFiniteSet(J) /\ Cardinality(J) \in Nat
    BY <1>1
  <2>2. CASE m = 0
    <3>1. J = {}
      BY <2>2
    <3>2. Cardinality(J) = 0
      BY <3>1, FS_EmptySet
    <3>3. [i \in 1..0 |-> i] \in [1..Cardinality(J) -> J]
      BY <3>2
    <3>. QED
      BY <3>2, <3>3
  <2>3. CASE m # 0 /\ m \notin J
    <3>. HIDE DEF Good
    <3>1. m - 1 \in Nat /\ m - 1 < m /\ J \in SUBSET (1..(m - 1))
      BY <2>3
    <3>. QED
      BY <3>1, <1>2
  <2>4. CASE m # 0 /\ m \in J
    <3>. DEFINE K == J \ {m}
                c == Cardinality(K)
    <3>1. m - 1 \in Nat /\ m - 1 < m /\ K \in SUBSET (1..(m - 1))
      BY <2>4
    <3>2. Good(K)
      <4>. HIDE DEF Good, K
      <4>. QED
        BY <1>2, <3>1
    <3>3. IsFiniteSet(K) /\ c \in Nat
      BY <1>1, <3>1
    <3>4. Cardinality(J) = c + 1
      <4>1. J = K \cup {m} /\ m \notin K
        BY <2>4
      <4>. HIDE DEF K
      <4>. QED
        BY <3>3, <4>1, FS_AddElement
    <3>5. PICK f \in [1..c -> K] : \A i, j \in 1..c : i < j => f[i] < f[j]
      BY <3>2
    <3>. DEFINE g == [i \in 1..(c + 1) |-> IF i = c + 1 THEN m ELSE f[i]]
    <3>. HIDE DEF c
    <3>6. g \in [1..(c + 1) -> J]
      BY <2>4, <3>3, <3>5
    <3>7. ASSUME NEW i \in 1..(c + 1), NEW j \in 1..(c + 1), i < j
          PROVE  g[i] < g[j]
      <4>1. i \in 1..c /\ g[i] = f[i]
        BY <3>3, <3>7
      <4>2. f[i] \in 1..(m - 1)
        BY <4>1, <3>1, <3>5
      <4>3. CASE j = c + 1
        BY <4>1, <4>2, <4>3
      <4>4. CASE j # c + 1
        <5>1. j \in 1..c /\ g[j] = f[j]
          BY <4>4, <3>3
        <5>. QED
          BY <4>1, <5>1, <3>5, <3>7
      <4>. QED
        BY <4>3, <4>4
    <3>. QED
      BY <3>4, <3>6, <3>7
  <2>. QED
    BY <2>2, <2>3, <2>4
<1>. HIDE DEF Good
<1>3. ASSUME Bad # {} PROVE FALSE
  <2>1. Bad \in SUBSET Nat
    OBVIOUS
  <2>2. PICK m \in Bad : \A k \in Bad : m <= k
    <3>. HIDE DEF Bad
    <3>. QED
      BY <1>3, <2>1, LeastNatural
  <2>3. PICK J \in SUBSET (1..m) : ~Good(J)
    BY <2>2
  <2>4. ASSUME NEW k \in Nat, k < m PROVE \A K \in SUBSET (1..k) : Good(K)
    <3>1. k \notin Bad
      <4>1. m \in Nat
        BY <2>1
      <4>. HIDE DEF Bad
      <4>. QED
        BY <2>2, <2>4, <4>1
    <3>. QED
      BY <3>1
  <2>. QED
    BY <1>2, <2>1, <2>3, <2>4
<1>4. Good(I)
  BY <1>3
<1>. QED
  BY <1>1, <1>4 DEF Good

\* What holds for the first index and for the next one of each, holds for all.
LEMMA UpTo ==
  ASSUME NEW a \in Int, NEW b \in Int, NEW S, a \in S,
         \A n \in a..(b - 1) : n \in S => n + 1 \in S
  PROVE  \A n \in a..b : n \in S
<1>. DEFINE Bad == {k \in Nat : a + k <= b /\ a + k \notin S}
<1>1. ASSUME Bad # {} PROVE FALSE
  <2>1. Bad \in SUBSET Nat
    OBVIOUS
  <2>2. PICK k \in Bad : \A m \in Bad : k <= m
    <3>. HIDE DEF Bad
    <3>. QED
      BY <1>1, <2>1, LeastNatural
  <2>3. k # 0 /\ k \in Nat
    BY <2>2
  <2>4. k - 1 \in Nat /\ k - 1 \notin Bad
    <3>. HIDE DEF Bad
    <3>. QED
      BY <2>2, <2>3
  <2>5. a + (k - 1) \in S
    BY <2>2, <2>3, <2>4
  <2>6. a + (k - 1) \in a..(b - 1) /\ a + (k - 1) + 1 = a + k
    BY <2>2, <2>3
  <2>. QED
    BY <2>2, <2>5, <2>6
<1>2. ASSUME NEW n \in a..b PROVE n \in S
  <2>1. n - a \in Nat /\ a + (n - a) = n /\ n <= b
    OBVIOUS
  <2>2. n - a \notin Bad
    BY <1>1
  <2>. QED
    BY <2>1, <2>2
<1>. QED
  BY <1>2

\* The same from the last index down.
LEMMA DownTo ==
  ASSUME NEW a \in Int, NEW b \in Int, NEW S, b \in S,
         \A n \in a..(b - 1) : n + 1 \in S => n \in S
  PROVE  \A n \in a..b : n \in S
<1>. DEFINE T == {m \in Int : -m \in S}
<1>1. -b \in Int /\ -a \in Int /\ -b \in T
  OBVIOUS
<1>2. ASSUME NEW n \in (-b)..(-a - 1), n \in T PROVE n + 1 \in T
  <2>1. -n - 1 \in a..(b - 1) /\ (-n - 1) + 1 = -n /\ -(n + 1) = -n - 1
    OBVIOUS
  <2>. QED
    BY <1>2, <2>1
<1>3. \A n \in (-b)..(-a) : n \in T
  <2>. HIDE DEF T
  <2>. QED
    BY <1>1, <1>2, UpTo
<1>4. ASSUME NEW n \in a..b PROVE n \in S
  <2>1. -n \in (-b)..(-a) /\ -(-n) = n
    OBVIOUS
  <2>. QED
    BY <1>3, <2>1
<1>. QED
  BY <1>4

\* g holds the values of a loop that starts with v and turns the value x of one
\* turn into F[<<n, x>>] in the next; the values lie in the sets I[n].
LoopUp(g, a, b, v, F, I) ==
  /\ g = [n \in a..b |-> IF n = a THEN v ELSE F[<<n, g[n - 1]>>]]
  /\ \A n \in a..b : g[n] \in I[n]
LoopDown(g, a, b, v, F, I) ==
  /\ g = [n \in a..b |-> IF n = b THEN v ELSE F[<<n, g[n + 1]>>]]
  /\ \A n \in a..b : g[n] \in I[n]

\* A loop whose turns stay within these sets goes through all of them.
LEMMA RecursionUp ==
  ASSUME NEW a \in Int, NEW b \in Int, a <= b, NEW I, NEW F, NEW v, v \in I[a],
         \A n \in a + 1 .. b : \A x \in I[n - 1] : F[<<n, x>>] \in I[n]
  PROVE  \E g : LoopUp(g, a, b, v, F, I)
<1>. DEFINE Ok(g, k) == /\ g = [n \in a..k |-> IF n = a THEN v ELSE F[<<n, g[n - 1]>>]]
                        /\ \A n \in a..k : g[n] \in I[n]
            S == {k \in Int : \E g : Ok(g, k)}
<1>1. a \in S
  <2>. DEFINE g == [n \in a..a |-> v]
  <2>1. g = [n \in a..a |-> IF n = a THEN v ELSE F[<<n, g[n - 1]>>]]
    OBVIOUS
  <2>2. \A n \in a..a : g[n] \in I[n]
    OBVIOUS
  <2>. HIDE DEF g
  <2>. QED
    BY <2>1, <2>2
<1>2. ASSUME NEW k \in a..(b - 1), k \in S PROVE k + 1 \in S
  <2>1. PICK g : Ok(g, k)
    BY <1>2
  <2>. DEFINE h == [n \in a..(k + 1) |-> IF n <= k THEN g[n] ELSE F[<<n, g[n - 1]>>]]
  <2>2. g[k] \in I[k]
    BY <2>1
  <2>3. ASSUME NEW n \in a..(k + 1)
        PROVE  h[n] = IF n = a THEN v ELSE F[<<n, h[n - 1]>>]
    <3>1. CASE n = a
      BY <2>1, <3>1
    <3>2. CASE n # a /\ n <= k
      <4>1. n \in a..k /\ n - 1 \in a..k /\ n - 1 \in a..(k + 1) /\ n - 1 <= k
        BY <3>2
      <4>2. h[n] = g[n] /\ h[n - 1] = g[n - 1]
        BY <3>2, <4>1
      <4>3. g[n] = F[<<n, g[n - 1]>>]
        BY <2>1, <3>2, <4>1
      <4>. QED
        BY <3>2, <4>2, <4>3
    <3>3. CASE n = k + 1
      <4>1. h[n] = F[<<n, g[n - 1]>>] /\ n # a /\ n - 1 = k
        BY <3>3
      <4>2. h[k] = g[k]
        OBVIOUS
      <4>. QED
        BY <4>1, <4>2
    <3>. QED
      BY <3>1, <3>2, <3>3
  <2>4. ASSUME NEW n \in a..(k + 1) PROVE h[n] \in I[n]
    <3>1. CASE n <= k
      BY <2>1, <3>1
    <3>2. CASE n = k + 1
      <4>1. n \in a + 1 .. b /\ n - 1 = k /\ h[n] = F[<<n, g[k]>>]
        BY <3>2
      <4>. QED
        BY <2>2, <4>1
    <3>. QED
      BY <3>1, <3>2
  <2>5. h = [n \in a..(k + 1) |-> IF n = a THEN v ELSE F[<<n, h[n - 1]>>]]
    <3>1. h = [n \in a..(k + 1) |-> h[n]]
      OBVIOUS
    <3>. HIDE DEF h
    <3>. QED
      BY <2>3, <3>1
  <2>. HIDE DEF h
  <2>6. Ok(h, k + 1)
    BY <2>4, <2>5
  <2>7. k + 1 \in Int
    OBVIOUS
  <2>. HIDE DEF Ok
  <2>. QED
    BY <2>6, <2>7
<1>3. b \in S
  <2>. HIDE DEF S
  <2>1. \A n \in a..b : n \in S
    BY <1>1, <1>2, UpTo
  <2>. QED
    BY <2>1
<1>. QED
  BY <1>3 DEF LoopUp

\* The same for a loop that counts down.
LEMMA RecursionDown ==
  ASSUME NEW a \in Int, NEW b \in Int, a <= b, NEW I, NEW F, NEW v, v \in I[b],
         \A n \in a .. b - 1 : \A x \in I[n + 1] : F[<<n, x>>] \in I[n]
  PROVE  \E g : LoopDown(g, a, b, v, F, I)
<1>. DEFINE J == [n \in (-b)..(-a) |-> I[-n]]
            V == UNION {I[n] : n \in a..b}
            G == [y \in ((-b)..(-a)) \X V |-> F[<<-y[1], y[2]>>]]
<1>1. -b \in Int /\ -a \in Int /\ -b <= -a /\ v \in J[-b]
  OBVIOUS
<1>2. \A n \in (-b)..(-a) : J[n] = I[-n] /\ -n \in a..b /\ J[n] \subseteq V
  OBVIOUS
<1>3. ASSUME NEW n \in (-b)..(-a), NEW x \in V PROVE G[<<n, x>>] = F[<<-n, x>>]
  OBVIOUS
<1>4. ASSUME NEW n \in (-b) + 1 .. -a, NEW x \in J[n - 1] PROVE G[<<n, x>>] \in J[n]
  <2>1. n \in (-b)..(-a) /\ n - 1 \in (-b)..(-a) /\ -n \in a .. b - 1 /\ -(n - 1) = -n + 1
    OBVIOUS
  <2>2. x \in I[-n + 1] /\ x \in V
    BY <1>2, <2>1
  <2>3. F[<<-n, x>>] \in I[-n]
    BY <2>1, <2>2
  <2>. QED
    BY <1>2, <1>3, <2>1, <2>2, <2>3
<1>. HIDE DEF J, G, V
<1>5a. PICK g : LoopUp(g, -b, -a, v, G, J)
  BY <1>1, <1>4, RecursionUp
<1>5. /\ g = [n \in (-b)..(-a) |-> IF n = -b THEN v ELSE G[<<n, g[n - 1]>>]]
      /\ \A n \in (-b)..(-a) : g[n] \in J[n]
  BY <1>5a DEF LoopUp
<1>. DEFINE h == [n \in a..b |-> g[-n]]
<1>6. ASSUME NEW n \in a..b
      PROVE  h[n] = (IF n = b THEN v ELSE F[<<n, h[n + 1]>>]) /\ h[n] \in I[n]
  <2>1. -n \in (-b)..(-a) /\ -(-n) = n /\ h[n] = g[-n]
    OBVIOUS
  <2>2. h[n] \in I[n]
    BY <1>2, <1>5, <2>1
  <2>3. CASE n = b
    BY <1>5, <2>1, <2>2, <2>3
  <2>4. CASE n # b
    <3>1. -n # -b /\ -n - 1 \in (-b)..(-a) /\ n + 1 \in a..b /\ -(n + 1) = -n - 1
      BY <2>4
    <3>2. g[-n - 1] \in V /\ h[n + 1] = g[-n - 1]
      BY <1>2, <1>5, <3>1
    <3>3. g[-n] = G[<<-n, g[-n - 1]>>]
      BY <1>5, <2>1, <3>1
    <3>4. g[-n] = F[<<n, h[n + 1]>>]
      BY <1>3, <2>1, <3>2, <3>3
    <3>. QED
      BY <2>1, <2>2, <2>4, <3>4
  <2>. QED
    BY <2>3, <2>4
<1>7. h = [n \in a..b |-> h[n]]
  OBVIOUS
<1>. HIDE DEF h
<1>8. h = [n \in a..b |-> IF n = b THEN v ELSE F[<<n, h[n + 1]>>]]
  BY <1>6, <1>7
<1>. QED
  BY <1>6, <1>8 DEF LoopDown

\* A list of the numbers up to n without repetition has all of them.
LEMMA PermutationFacts ==
  ASSUME NEW S, IsFiniteSet(S), NEW f \in [S -> S],
         \A i, j \in S : f[i] = f[j] => i = j
  PROVE  \A p \in S : \E i \in S : f[i] = p
<1>1. f \in Injection(S, S)
  BY DEF Injection, IsInjective
<1>2. f \in Surjection(S, S)
  BY <1>1, FS_Injection
<1>. QED
  BY <1>2 DEF Surjection
=============================================================================
