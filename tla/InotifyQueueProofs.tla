------------------------- MODULE InotifyQueueProofs -------------------------
(***************************************************************************)
(* TLAPS proofs about InotifyQueue.tla, for every set of directories and   *)
(* every queue size: nothing but a change in the music directory itself,   *)
(* or below a directory the database does not know, is ever forgotten.     *)
(***************************************************************************)
EXTENDS InotifyQueue, ListLemmas, TLAPS

----------------------------------------------------------------------------
(***************************************************************************)
(* Prefixes, and entries of a sequence.                                    *)
(***************************************************************************)

Uri == Seq(STRING)

\* A prefix agrees with the sequence as far as it goes.
LEMMA PrefixEntries ==
  ASSUME NEW s \in Uri, NEW t \in Uri, IsPrefix(s, t)
  PROVE  \A i \in 1..Len(s) : s[i] = t[i] /\ s[i] \in STRING
<1>1. Len(s) \in Nat /\ Len(t) \in Nat /\ Len(s) <= Len(t)
  BY LenProperties DEF Uri, IsPrefix
<1>2. \A i \in 1..Len(s) : s[i] \in STRING /\ t[i] \in STRING
  BY <1>1, ElementOfSeq DEF Uri
<1>3. \A i \in 1..Len(s) : SubSeq(s, 1, Len(s))[i] = s[i]
  BY <1>1, <1>2, SubSeqProperties
<1>4. \A i \in 1..Len(s) : SubSeq(t, 1, Len(s))[i] = t[i]
  BY <1>1, <1>2, SubSeqProperties
<1>5. SubSeq(s, 1, Len(s)) = SubSeq(t, 1, Len(s))
  BY <1>1 DEF IsPrefix
<1>. QED
  BY <1>2, <1>3, <1>4, <1>5

\* "Is above or the same as" is a partial order of the URIs.
LEMMA PrefixFacts ==
  ASSUME NEW u \in Uri, NEW v \in Uri, NEW w \in Uri
  PROVE  /\ IsPrefix(u, u)
         /\ IsPrefix(u, v) /\ IsPrefix(v, w) => IsPrefix(u, w)
         /\ IsPrefix(u, << >>) => u = << >>
<1>1. ASSUME NEW s \in Uri, NEW t \in Uri
      PROVE  IsPrefix(s, t) <=>
               /\ Len(s) <= Len(t)
               /\ \A i \in 1..Len(s) : s[i] = t[i]
  <2>1. CASE Len(s) <= Len(t)
    <3>. DEFINE x == SubSeq(s, 1, Len(s))
                y == SubSeq(t, 1, Len(s))
    <3>1. Len(s) \in Nat /\ Len(t) \in Nat
      BY LenProperties DEF Uri
    <3>2. \A i \in 1..Len(s) : s[i] \in STRING /\ t[i] \in STRING
      BY <2>1, <3>1, ElementOfSeq DEF Uri
    <3>3. /\ x \in Seq(STRING) /\ Len(x) = Len(s)
          /\ \A i \in 1..Len(s) : x[i] = s[i]
      BY <3>1, <3>2, SubSeqProperties
    <3>4. /\ y \in Seq(STRING) /\ Len(y) = Len(s)
          /\ \A i \in 1..Len(s) : y[i] = t[i]
      BY <3>1, <3>2, SubSeqProperties
    <3>5. IsPrefix(s, t) <=> x = y
      BY <2>1 DEF IsPrefix
    <3>. HIDE DEF x, y
    <3>6. x = y <=> \A i \in 1..Len(s) : x[i] = y[i]
      BY <3>3, <3>4, SeqEqual
    <3>. QED
      BY <2>1, <3>3, <3>4, <3>5, <3>6
  <2>2. CASE ~(Len(s) <= Len(t))
    BY <2>2 DEF IsPrefix
  <2>. QED
    BY <2>1, <2>2
<1>2. Len(u) \in Nat /\ Len(v) \in Nat /\ Len(w) \in Nat
  BY LenProperties DEF Uri
<1>3. IsPrefix(u, u)
  BY <1>1, <1>2
<1>4. IsPrefix(u, v) /\ IsPrefix(v, w) => IsPrefix(u, w)
  BY <1>1, <1>2
<1>5. IsPrefix(u, << >>) => u = << >>
  <2>1. << >> \in Uri /\ Len(<< >>) = 0
    BY DEF Uri
  <2>2. IsPrefix(u, << >>) => Len(u) <= 0
    BY <1>1, <2>1
  <2>. QED
    BY <1>2, <2>2, EmptySeq DEF Uri
<1>. QED
  BY <1>3, <1>4, <1>5

\* f lists the indices I in order, and Entries(q, I) what is there.
Listing(q, I, f) ==
  /\ \A k \in 1..Cardinality(I) : Entries(q, I)[k] = q[f[k]]
  /\ \A k, l \in 1..Cardinality(I) : k < l => f[k] < f[l]
  /\ \A i \in I : \E k \in 1..Cardinality(I) : f[k] = i

\* The entries at a set of indices: all of them, each once.
LEMMA EntriesFacts ==
  ASSUME NEW T, NEW q \in Seq(T), NEW I \in SUBSET (DOMAIN q)
  PROVE  /\ Entries(q, I) \in Seq(T)
         /\ Cardinality(I) \in Nat
         /\ Len(Entries(q, I)) = Cardinality(I)
         /\ \E f \in [1..Cardinality(I) -> I] : Listing(q, I, f)
<1>. DEFINE n == Cardinality(I)
            f == Sorted(I)
            r == Entries(q, I)
<1>1. Len(q) \in Nat /\ I \in SUBSET (1..Len(q)) /\ DOMAIN q = 1..Len(q)
  BY LenProperties
<1>2. IsFiniteSet(I) /\ n \in Nat
  BY <1>1, Enumeration
<1>3. \E g \in [1..n -> I] : \A i, j \in 1..n : i < j => g[i] < g[j]
  BY <1>1, Enumeration
<1>4. f \in [1..n -> I] /\ \A i, j \in 1..n : i < j => f[i] < f[j]
  <2>1. \E g \in [1..n -> I] : \A i, j \in DOMAIN g : i < j => g[i] < g[j]
    BY <1>3
  <2>. QED
    BY <2>1 DEF Sorted
<1>5. r = [k \in 1..n |-> q[f[k]]]
  BY DEF Entries
<1>. HIDE DEF n, f, r
<1>6. ASSUME NEW k \in 1..n PROVE q[f[k]] \in T
  BY <1>1, <1>4, ElementOfSeq
<1>7. r \in Seq(T) /\ Len(r) = n /\ \A k \in 1..n : r[k] = q[f[k]]
  BY <1>2, <1>5, <1>6
<1>8. \A i \in I : \E k \in 1..n : f[k] = i
  <2>1. f \in Injection(1..n, I)
    <3>1. \A k, l \in 1..n : f[k] = f[l] => k = l
      <4>. SUFFICES ASSUME NEW k \in 1..n, NEW l \in 1..n, f[k] = f[l], k # l PROVE FALSE
        OBVIOUS
      <4>1. f[k] \in Nat /\ f[l] \in Nat
        BY <1>1, <1>4
      <4>2. k < l \/ l < k
        BY <1>2
      <4>. QED
        BY <1>4, <4>1, <4>2
    <3>. QED
      BY <1>4, <3>1 DEF Injection, IsInjective
  <2>2. Cardinality(1..n) = n
    BY <1>2, FS_Interval
  <2>3. f \in Surjection(1..n, I)
    BY <1>2, <2>1, <2>2, FS_Injection DEF n
  <2>. QED
    BY <2>3 DEF Surjection
<1>. QED
  BY <1>2, <1>4, <1>7, <1>8 DEF n, f, r, Listing

----------------------------------------------------------------------------
(***************************************************************************)
(* The queue.                                                              *)
(***************************************************************************)

\* No entry lies below another.
Antichain(q) == \A i, j \in DOMAIN q : i # j => ~Covers(q[i], q[j])

\* An entry other than the music directory covers the directory.
Holds(q, directory) ==
  \E i \in DOMAIN q : q[i] # << >> /\ Covers(q[i], directory)

\* Part of an antichain is one, and holds what the entries kept cover.
LEMMA PartFacts ==
  ASSUME NEW T \in SUBSET Uri, NEW q \in Seq(T), NEW I \in SUBSET (DOMAIN q)
  PROVE  /\ Antichain(q) => Antichain(Entries(q, I))
         /\ \A k \in DOMAIN Entries(q, I) : \E i \in I : Entries(q, I)[k] = q[i]
         /\ \A i \in I : \E k \in DOMAIN Entries(q, I) : Entries(q, I)[k] = q[i]
<1>. DEFINE n == Cardinality(I)
            r == Entries(q, I)
<1>1. n \in Nat /\ r \in Seq(T) /\ Len(r) = n
  BY EntriesFacts
<1>2. DOMAIN r = 1..n
  BY <1>1, LenProperties
<1>3. DOMAIN q = 1..Len(q) /\ Len(q) \in Nat
  BY LenProperties
<1>0. PICK f \in [1..n -> I] : Listing(q, I, f)
  BY EntriesFacts, Zenon
<1>4. /\ f \in [1..n -> I]
      /\ \A k \in 1..n : r[k] = q[f[k]]
      /\ \A k, l \in 1..n : k < l => f[k] < f[l]
      /\ \A i \in I : \E k \in 1..n : f[k] = i
  BY <1>0 DEF Listing
<1>. HIDE DEF n, r
<1>5. ASSUME Antichain(q), NEW k \in 1..n, NEW l \in 1..n, k # l
      PROVE  ~Covers(r[k], r[l])
  <2>1. k < l \/ l < k
    BY <1>1, <1>5
  <2>2. f[k] \in DOMAIN q /\ f[l] \in DOMAIN q /\ f[k] \in Nat /\ f[l] \in Nat
    BY <1>3, <1>4
  <2>3. f[k] # f[l]
    BY <1>4, <2>1, <2>2
  <2>4. ~Covers(q[f[k]], q[f[l]])
    BY <1>5, <2>2, <2>3 DEF Antichain
  <2>. QED
    BY <1>4, <2>4
<1>6. Antichain(q) => Antichain(r)
  BY <1>2, <1>5 DEF Antichain
<1>7. \A k \in DOMAIN r : \E i \in I : r[k] = q[i]
  BY <1>2, <1>4
<1>8. \A i \in I : \E k \in DOMAIN r : r[k] = q[i]
  <2>. SUFFICES ASSUME NEW i \in I PROVE \E k \in DOMAIN r : r[k] = q[i]
    OBVIOUS
  <2>1. PICK k \in 1..n : f[k] = i
    BY <1>4
  <2>. QED
    BY <1>2, <1>4, <2>1
<1>. QED
  BY <1>6, <1>7, <1>8 DEF r

\* The least of a set of indices.
LEMMA MinFacts ==
  ASSUME NEW n \in Nat, NEW S \in SUBSET (1..n), S # {}
  PROVE  Min(S) \in S /\ \A i \in S : Min(S) <= i
<1>1. \E x \in S : \A y \in S : x <= y
  <2>1. S \in SUBSET Nat
    OBVIOUS
  <2>. QED
    BY <2>1, LeastNatural
<1>. QED
  BY <1>1 DEF Min

\* Enqueue() keeps the queue an antichain and every directory covered that was;
\* the new URI is covered unless it is the music directory.
LEMMA EnqueueFacts ==
  ASSUME NEW T \in SUBSET Uri, NEW q \in Seq(T), NEW uri \in T, Antichain(q)
  PROVE  /\ Enqueue(q, uri) \in Seq(T)
         /\ Antichain(Enqueue(q, uri))
         /\ uri # << >> => Holds(Enqueue(q, uri), uri)
         /\ \A d \in T : Holds(q, d) => Holds(Enqueue(q, uri), d)
<1>. DEFINE found == {i \in DOMAIN q : path_in(uri, q[i])}
            scanned == IF found = {} THEN DOMAIN q ELSE 1..(Min(found) - 1)
            below == {i \in scanned : path_in(q[i], uri)}
            I == DOMAIN q \ below
            rest == Entries(q, I)
            e == Enqueue(q, uri)
<1>1. e = IF found = {} THEN Append(rest, uri) ELSE rest
  BY DEF Enqueue
<1>2. /\ DOMAIN q = 1..Len(q) /\ Len(q) \in Nat
      /\ \A i \in DOMAIN q : q[i] \in T /\ q[i] \in Uri
      /\ uri \in Uri
  BY LenProperties, ElementOfSeq
<1>3. \A i \in DOMAIN q : i \in found <=> path_in(uri, q[i])
  OBVIOUS
<1>4. found = {} => \A i \in DOMAIN q : i \in I <=> ~path_in(q[i], uri)
  OBVIOUS
<1>5. ASSUME found # {}
      PROVE  Min(found) \in found /\ Min(found) \in DOMAIN q /\ Min(found) \in I
  <2>1. Min(found) \in found
    <3>1. found \in SUBSET (1..Len(q))
      BY <1>2
    <3>. HIDE DEF found
    <3>. QED
      BY <1>2, <1>5, <3>1, MinFacts
  <2>2. Min(found) \in DOMAIN q /\ Min(found) \in Nat
    BY <1>2, <2>1
  <2>3. Min(found) \notin scanned
    BY <1>5, <2>2
  <2>. QED
    BY <2>1, <2>2, <2>3
<1>6. I \in SUBSET (DOMAIN q)
  OBVIOUS
<1>6a. \A i \in DOMAIN q : i \notin I => path_in(q[i], uri)
  OBVIOUS
<1>. HIDE DEF found, I
<1>7. /\ rest \in Seq(T) /\ Antichain(rest)
      /\ DOMAIN rest = 1..Len(rest) /\ Len(rest) \in Nat
  BY <1>6, PartFacts, EntriesFacts, LenProperties
<1>8. /\ \A k \in DOMAIN rest : \E i \in I : rest[k] = q[i]
      /\ \A i \in I : \E k \in DOMAIN rest : rest[k] = q[i]
  BY <1>6, PartFacts
<1>. HIDE DEF rest, e
<1>9. CASE found = {}
  <2>1. /\ e \in Seq(T) /\ Len(e) = Len(rest) + 1
        /\ \A k \in 1..Len(rest) : e[k] = rest[k]
        /\ e[Len(rest) + 1] = uri
    BY <1>1, <1>7, <1>9, AppendFacts
  <2>2. DOMAIN e = 1..(Len(rest) + 1) /\ Len(rest) + 1 \in DOMAIN e
    BY <1>7, <2>1, LenProperties
  <2>3. ASSUME NEW k \in 1..Len(rest)
        PROVE  /\ rest[k] \in Uri
               /\ ~Covers(rest[k], uri) /\ ~Covers(uri, rest[k])
    <3>1. PICK i \in I : rest[k] = q[i]
      BY <1>7, <1>8
    <3>2. ~path_in(q[i], uri) /\ ~path_in(uri, q[i]) /\ q[i] \in Uri
      BY <1>2, <1>3, <1>4, <1>6, <1>9
    <3>3. q[i] # << >> /\ uri # << >>
      BY <3>2 DEF path_in
    <3>. QED
      BY <3>1, <3>2, <3>3 DEF path_in, Covers
  <2>4. ASSUME NEW k \in DOMAIN e, NEW l \in DOMAIN e, k # l
        PROVE  ~Covers(e[k], e[l])
    <3>1. CASE k \in 1..Len(rest) /\ l \in 1..Len(rest)
      BY <1>7, <2>1, <2>4, <3>1 DEF Antichain
    <3>2. CASE k \in 1..Len(rest) /\ l = Len(rest) + 1
      BY <2>1, <2>3, <3>2
    <3>3. CASE k = Len(rest) + 1 /\ l \in 1..Len(rest)
      BY <2>1, <2>3, <3>3
    <3>. QED
      BY <1>7, <2>2, <2>4, <3>1, <3>2, <3>3
  <2>5. uri # << >> => Holds(e, uri)
    BY <1>2, <2>1, <2>2, PrefixFacts DEF Holds, Covers
  <2>6. ASSUME NEW d \in T, Holds(q, d) PROVE Holds(e, d)
    <3>1. PICK i \in DOMAIN q : q[i] # << >> /\ Covers(q[i], d)
      BY <2>6 DEF Holds
    <3>2. CASE i \in I
      <4>1. PICK k \in DOMAIN rest : rest[k] = q[i]
        BY <1>8, <3>2
      <4>2. k \in DOMAIN e /\ e[k] = q[i]
        BY <1>7, <2>1, <2>2, <4>1
      <4>. QED
        BY <3>1, <4>2 DEF Holds
    <3>3. CASE i \notin I
      <4>1. uri # << >> /\ Covers(uri, q[i])
        BY <1>6a, <3>1, <3>3 DEF path_in, Covers
      <4>2. Covers(uri, d)
        BY <1>2, <3>1, <4>1, PrefixFacts DEF Covers
      <4>. QED
        BY <2>1, <2>2, <4>1, <4>2 DEF Holds
    <3>. QED
      BY <3>2, <3>3
  <2>7. Antichain(e)
    BY <2>4 DEF Antichain
  <2>. QED
    BY <2>1, <2>5, <2>6, <2>7 DEF e
<1>10. CASE found # {}
  <2>1. e = rest
    BY <1>1, <1>10
  <2>. DEFINE m == Min(found)
  <2>2. m \in DOMAIN q /\ m \in I /\ path_in(uri, q[m])
    BY <1>3, <1>5, <1>10
  <2>3. PICK k \in DOMAIN rest : rest[k] = q[m]
    BY <1>8, <2>2
  <2>. HIDE DEF m
  <2>4. uri # << >> => q[m] # << >> /\ Covers(q[m], uri)
    BY <2>2 DEF path_in, Covers
  <2>5. uri # << >> => Holds(e, uri)
    BY <2>1, <2>3, <2>4 DEF Holds
  <2>6. ASSUME NEW d \in T, Holds(q, d) PROVE Holds(e, d)
    <3>1. PICK i \in DOMAIN q : q[i] # << >> /\ Covers(q[i], d)
      BY <2>6 DEF Holds
    <3>2. CASE i \in I
      <4>1. PICK l \in DOMAIN rest : rest[l] = q[i]
        BY <1>8, <3>2
      <4>. QED
        BY <2>1, <3>1, <4>1 DEF Holds
    <3>3. CASE i \notin I
      <4>1. uri # << >> /\ Covers(uri, q[i])
        BY <1>6a, <3>1, <3>3 DEF path_in, Covers
      <4>2. Covers(q[m], q[i])
        BY <1>2, <2>2, <2>4, <4>1, PrefixFacts DEF Covers
      <4>3. Covers(q[m], d)
        BY <1>2, <2>2, <3>1, <4>2, PrefixFacts DEF Covers
      <4>. QED
        BY <2>1, <2>3, <2>4, <4>1, <4>3 DEF Holds
    <3>. QED
      BY <3>2, <3>3
  <2>. QED
    BY <1>7, <2>1, <2>5, <2>6 DEF e
<1>. QED
  BY <1>9, <1>10

----------------------------------------------------------------------------
(***************************************************************************)
(* The inductive invariant.                                                *)
(***************************************************************************)

\* As Waiting(), but an entry for the music directory does not count: the next
\* one enqueued erases it.
Held(directory) ==
  \/ directory \in events \cup abandoned
  \/ \E i \in DOMAIN jobs : Covers(jobs[i], directory)
  \/ Holds(queue, directory)

\* No changed directory that the updates can get to is forgotten, but for the
\* music directory itself.
ChangesWait ==
  \A directory \in dirty :
    directory # << >> => Held(directory) \/ Missing(directory) # {}

Inv == TypeOK /\ QueueIsAntichain /\ ChangesWait

\* What is done with the entries up to the one that did not fit.
LEMMA OnDelayFacts ==
  ASSUME TypeOK, NEW failing \in SUBSET (DOMAIN queue), OnDelay(failing)
  PROVE  \E stop \in 1..(Len(queue) + 1) :
           /\ jobs' = jobs \o Entries(queue, 1..(stop - 1) \ failing)
           /\ Cardinality(1..(stop - 1) \ failing) <= Capacity - Len(jobs)
           /\ queue' = SubSeq(queue, stop, Len(queue))
           /\ delay' \in BOOLEAN
           /\ abandoned' = abandoned \cup {directory \in dirty :
                \E i \in 1..(stop - 1) \cap failing : Covers(queue[i], directory)}
           /\ UNCHANGED <<known, dirty, events, changes>>
<1>. DEFINE room == Capacity - Len(jobs)
            full == {i \in DOMAIN queue \ failing :
                       Cardinality((1..i) \ failing) > room}
            stop == IF full = {} THEN Len(queue) + 1 ELSE Min(full)
            I == 1..(stop - 1) \ failing
<1>1. /\ jobs' = jobs \o Entries(queue, I)
      /\ queue' = SubSeq(queue, stop, Len(queue))
      /\ delay' \in BOOLEAN
      /\ abandoned' = abandoned \cup {directory \in dirty :
           \E i \in 1..(stop - 1) \cap failing : Covers(queue[i], directory)}
      /\ UNCHANGED <<known, dirty, events, changes>>
  BY Zenon DEF OnDelay
<1>2. /\ DOMAIN queue = 1..Len(queue) /\ Len(queue) \in Nat
      /\ Len(jobs) \in Nat /\ Len(jobs) <= Capacity /\ Capacity \in Nat
  BY LenProperties, InotifyAssumption DEF TypeOK
<1>3. full # {} => Min(full) \in full /\ \A i \in full : Min(full) <= i
  <2>1. full \in SUBSET (1..Len(queue))
    BY <1>2
  <2>. HIDE DEF full
  <2>. QED
    BY <1>2, <2>1, MinFacts
<1>4. stop \in 1..(Len(queue) + 1) /\ \A i \in 1..(stop - 1) : i \in 1..Len(queue) /\ i \notin full
  <2>1. full \in SUBSET (1..Len(queue))
    BY <1>2
  <2>. HIDE DEF full
  <2>2. CASE full = {}
    BY <1>2, <2>2
  <2>3. CASE full # {}
    <3>1. stop \in full /\ (\A i \in full : stop <= i) /\ stop \in 1..Len(queue)
      BY <1>3, <2>1, <2>3
    <3>. HIDE DEF stop
    <3>. QED
      BY <1>2, <3>1
  <2>. QED
    BY <2>2, <2>3
<1>5. ASSUME NEW i \in I PROVE Cardinality((1..i) \ failing) <= room
  <2>1. i \in DOMAIN queue \ failing /\ i \notin full
    BY <1>2, <1>4
  <2>2. ~(Cardinality((1..i) \ failing) > room)
    BY <2>1
  <2>3. Cardinality((1..i) \ failing) \in Nat
    <3>1. i \in Nat /\ (1..i) \ failing \in SUBSET (1..i)
      BY <1>2, <2>1
    <3>. QED
      BY <3>1, Enumeration
  <2>. QED
    BY <1>2, <2>2, <2>3
<1>6. I \in SUBSET (1..Len(queue))
  BY <1>4
<1>. HIDE DEF stop, I, full
<1>7. Cardinality(I) <= room
  <2>1. /\ IsFiniteSet(I) /\ Cardinality(I) \in Nat
        /\ \E f \in [1..Cardinality(I) -> I] : Listing(queue, I, f)
    BY <1>2, <1>6, Enumeration, EntriesFacts DEF TypeOK
  <2>2. CASE Cardinality(I) = 0
    BY <1>2, <2>2
  <2>3. CASE Cardinality(I) # 0
    <3>. DEFINE n == Cardinality(I)
    <3>1. PICK f \in [1..n -> I] : Listing(queue, I, f)
      BY <2>1
    <3>2. /\ \A k, l \in 1..n : k < l => f[k] < f[l]
          /\ \A i \in I : \E k \in 1..n : f[k] = i
      BY <3>1 DEF Listing
    <3>. HIDE DEF n
    <3>3. n \in 1..n /\ f[n] \in I /\ f[n] \in Nat
      <4>1. n \in 1..n
        BY <2>1, <2>3 DEF n
      <4>2. f[n] \in I
        BY <4>1
      <4>3. f[n] \in 1..Len(queue)
        BY <1>6, <4>2, Zenon
      <4>4. f[n] \in Nat
        BY <1>2, <4>3
      <4>. QED
        BY <4>1, <4>2, <4>4
    <3>4. ASSUME NEW i \in I PROVE i \in 1..f[n]
      <4>1. PICK k \in 1..n : f[k] = i
        BY <3>2
      <4>2. k = n \/ k < n
        BY <2>1 DEF n
      <4>3. i \in Nat /\ 1 <= i
        BY <1>2, <1>6
      <4>. QED
        BY <3>2, <3>3, <4>1, <4>2, <4>3
    <3>5. I \subseteq (1..f[n]) \ failing
      BY <3>4 DEF I
    <3>6. /\ IsFiniteSet((1..f[n]) \ failing)
          /\ Cardinality((1..f[n]) \ failing) \in Nat
      BY <3>3, Enumeration
    <3>7. n <= Cardinality((1..f[n]) \ failing)
      BY <3>5, <3>6, FS_Subset DEF n
    <3>. QED
      BY <1>2, <1>5, <2>1, <3>3, <3>6, <3>7 DEF n
  <2>. QED
    BY <2>2, <2>3
<1>. QED
  BY <1>1, <1>4, <1>7 DEF I

----------------------------------------------------------------------------
(***************************************************************************)
(* Every action preserves it.                                              *)
(***************************************************************************)

\* The queue is a list of URIs.
LEMMA QueueAsSeq ==
  ASSUME TypeOK
  PROVE  /\ DOMAIN queue = 1..Len(queue) /\ Len(queue) \in Nat
         /\ DOMAIN jobs = 1..Len(jobs) /\ Len(jobs) \in Nat
         /\ Watched \in SUBSET Uri
         /\ queue \in Seq(Watched) /\ jobs \in Seq(Watched)
         /\ Capacity \in Nat /\ MaxChanges \in Nat
  BY LenProperties, InotifyAssumption DEF TypeOK, Uri

\* A change waits as an event.
LEMMA ChangeStep ==
  ASSUME Inv, NEW directory \in Watched, Change(directory)
  PROVE  Inv'
<1>1. TypeOK'
  BY InotifyAssumption DEF Inv, TypeOK, Change
<1>2. QueueIsAntichain'
  BY DEF Inv, QueueIsAntichain, Change
<1>3. ASSUME NEW d \in dirty', d # << >> PROVE Held(d)' \/ (Missing(d) # {})'
  <2>1. CASE d = directory
    BY <2>1 DEF Held, Change
  <2>2. CASE d # directory
    <3>1. Held(d) \/ Missing(d) # {}
      BY <1>3, <2>2 DEF Inv, ChangesWait, Change
    <3>2. CASE Held(d)
      BY <2>2, <3>2 DEF Held, Holds, Change
    <3>3. CASE Missing(d) # {}
      BY <3>3 DEF Missing, Change
    <3>. QED
      BY <3>1, <3>2, <3>3
  <2>. QED
    BY <2>1, <2>2
<1>. QED
  BY <1>1, <1>2, <1>3 DEF Inv, ChangesWait

\* A change that was read waits in the queue.
LEMMA OnInotifyStep ==
  ASSUME Inv, NEW directory \in Watched, OnInotify(directory)
  PROVE  Inv'
<1>0. TypeOK
  BY DEF Inv
<1>1. Antichain(queue)
  BY DEF Inv, QueueIsAntichain, Antichain
<1>2. /\ queue' \in Seq(Watched) /\ Antichain(queue')
      /\ directory # << >> => Holds(queue', directory)
      /\ \A d \in Watched : Holds(queue, d) => Holds(queue', d)
  <2>1. queue' = Enqueue(queue, directory)
    BY DEF OnInotify
  <2>. QED
    BY <1>0, <1>1, <2>1, QueueAsSeq, EnqueueFacts
<1>3. TypeOK'
  BY <1>0, <1>2 DEF TypeOK, OnInotify
<1>4. QueueIsAntichain'
  BY <1>2 DEF QueueIsAntichain, Antichain
<1>5. ASSUME NEW d \in dirty', d # << >> PROVE Held(d)' \/ (Missing(d) # {})'
  <2>1. (Held(d) \/ Missing(d) # {}) /\ d \in Watched
    BY <1>0, <1>5 DEF Inv, ChangesWait, OnInotify, TypeOK
  <2>2. CASE d = directory
    BY <1>2, <1>5, <2>2 DEF Held, Holds
  <2>3. CASE d # directory /\ ~Holds(queue, d) /\ Held(d)
    BY <2>1, <2>3 DEF Held, OnInotify
  <2>4. CASE Holds(queue, d)
    BY <1>2, <2>1, <2>4 DEF Held, Holds
  <2>5. CASE Missing(d) # {}
    BY <2>5 DEF Missing, OnInotify
  <2>. QED
    BY <2>1, <2>2, <2>3, <2>4, <2>5
<1>. QED
  BY <1>3, <1>4, <1>5 DEF Inv, ChangesWait

\* Entries become updates, are given up, or stay for the next time.
LEMMA OnDelayStep ==
  ASSUME Inv, NEW failing \in SUBSET (DOMAIN queue), OnDelay(failing)
  PROVE  Inv'
<1>0. TypeOK
  BY DEF Inv
<1>1. PICK stop \in 1..(Len(queue) + 1) :
           /\ jobs' = jobs \o Entries(queue, 1..(stop - 1) \ failing)
           /\ Cardinality(1..(stop - 1) \ failing) <= Capacity - Len(jobs)
           /\ queue' = SubSeq(queue, stop, Len(queue))
           /\ delay' \in BOOLEAN
           /\ abandoned' = abandoned \cup {directory \in dirty :
                \E i \in 1..(stop - 1) \cap failing : Covers(queue[i], directory)}
           /\ UNCHANGED <<known, dirty, events, changes>>
  BY <1>0, OnDelayFacts
<1>2. /\ DOMAIN queue = 1..Len(queue) /\ Len(queue) \in Nat
      /\ DOMAIN jobs = 1..Len(jobs) /\ Len(jobs) \in Nat
      /\ Watched \in SUBSET Uri
      /\ queue \in Seq(Watched) /\ jobs \in Seq(Watched)
      /\ Capacity \in Nat /\ MaxChanges \in Nat
  BY <1>0, QueueAsSeq
<1>. DEFINE I == 1..(stop - 1) \ failing
            r == Entries(queue, I)
<1>3. I \in SUBSET (DOMAIN queue)
  BY <1>2
<1>4. /\ r \in Seq(Watched) /\ Len(r) = Cardinality(I) /\ Cardinality(I) \in Nat
      /\ \A i \in I : \E k \in DOMAIN r : r[k] = queue[i]
  <2>. HIDE DEF I
  <2>. QED
    BY <1>2, <1>3, EntriesFacts, PartFacts
<1>5. DOMAIN r = 1..Len(r)
  BY <1>4, LenProperties
<1>6. jobs' = jobs \o r /\ Len(r) <= Capacity - Len(jobs)
  BY <1>1, <1>4
<1>. HIDE DEF r
<1>7. /\ jobs' \in Seq(Watched) /\ Len(jobs') = Len(jobs) + Len(r)
      /\ \A i \in 1..(Len(jobs) + Len(r)) :
           jobs'[i] = IF i <= Len(jobs) THEN jobs[i] ELSE r[i - Len(jobs)]
  BY <1>2, <1>4, <1>6, ConcatProperties
<1>8. DOMAIN jobs' = 1..(Len(jobs) + Len(r)) /\ Len(r) \in Nat
  BY <1>4, <1>7, LenProperties
<1>9. ASSUME NEW i \in I PROVE \E k \in DOMAIN jobs' : jobs'[k] = queue[i]
  <2>1. PICK k \in DOMAIN r : r[k] = queue[i]
    BY <1>4
  <2>. DEFINE m == Len(jobs) + k
  <2>2. /\ m \in 1..(Len(jobs) + Len(r)) /\ ~(m <= Len(jobs))
        /\ m - Len(jobs) = k
    BY <1>2, <1>5, <1>8, <2>1
  <2>. HIDE DEF m
  <2>. QED
    BY <1>7, <1>8, <2>1, <2>2
<1>10. \A i \in DOMAIN jobs : i \in DOMAIN jobs' /\ jobs'[i] = jobs[i]
  BY <1>2, <1>7, <1>8
<1>11. /\ queue' \in Seq(Watched) /\ Len(queue') = Len(queue) + 1 - stop
       /\ \A k \in 1..(Len(queue) + 1 - stop) : queue'[k] = queue[stop + k - 1]
  <2>1. /\ stop \in Int /\ Len(queue) \in Int
        /\ \A i \in stop..Len(queue) : queue[i] \in Watched
    BY <1>2, ElementOfSeq
  <2>2. /\ queue' \in Seq(Watched)
        /\ Len(queue') = IF stop <= Len(queue) THEN Len(queue) - stop + 1 ELSE 0
        /\ \A k \in 1..(Len(queue) - stop + 1) : queue'[k] = queue[stop + k - 1]
    BY <1>1, <2>1, SubSeqProperties
  <2>3. Len(queue) - stop + 1 = Len(queue) + 1 - stop
    BY <1>2
  <2>. QED
    BY <1>2, <2>2, <2>3
<1>12. DOMAIN queue' = 1..(Len(queue) + 1 - stop)
  BY <1>11, LenProperties
<1>13. TypeOK'
  <2>1. abandoned' \subseteq dirty'
    BY <1>0, <1>1 DEF TypeOK
  <2>2. Len(jobs') <= Capacity
    BY <1>2, <1>6, <1>7, <1>8
  <2>3. UNCHANGED <<known, dirty, events, changes>> /\ delay' \in BOOLEAN
    BY <1>1
  <2>. QED
    BY <1>0, <1>7, <1>11, <2>1, <2>2, <2>3 DEF TypeOK
<1>14. QueueIsAntichain'
  <2>. SUFFICES ASSUME NEW k \in DOMAIN queue', NEW l \in DOMAIN queue', k # l
                PROVE  ~Covers(queue'[k], queue'[l])
    BY DEF QueueIsAntichain, Covers
  <2>. DEFINE i == stop + k - 1
              j == stop + l - 1
  <2>1. i \in DOMAIN queue /\ j \in DOMAIN queue /\ i # j
    BY <1>2, <1>12
  <2>2. queue'[k] = queue[i] /\ queue'[l] = queue[j]
    BY <1>11, <1>12
  <2>. HIDE DEF i, j
  <2>3. ~Covers(queue[i], queue[j])
    BY <2>1 DEF Inv, QueueIsAntichain
  <2>. QED
    BY <2>2, <2>3
<1>15. ASSUME NEW d \in dirty', d # << >> PROVE Held(d)' \/ (Missing(d) # {})'
  <2>1. /\ Held(d) \/ Missing(d) # {}
        /\ d \in dirty /\ events' = events /\ abandoned \subseteq abandoned'
    BY <1>1, <1>15 DEF Inv, ChangesWait
  <2>5. CASE Missing(d) # {}
    BY <1>1, <2>5 DEF Missing
  <2>2. CASE d \in events \cup abandoned
    BY <2>1, <2>2 DEF Held
  <2>3. CASE \E i \in DOMAIN jobs : Covers(jobs[i], d)
    BY <1>10, <2>3 DEF Held, Covers
  <2>4. CASE Holds(queue, d)
    <3>1. PICK i \in DOMAIN queue : queue[i] # << >> /\ Covers(queue[i], d)
      BY <2>4 DEF Holds
    <3>2. CASE i < stop /\ i \in failing
      <4>1. i \in 1..(stop - 1) \cap failing
        BY <1>2, <3>2
      <4>2. d \in abandoned'
        BY <1>1, <2>1, <3>1, <4>1
      <4>. QED
        BY <4>2 DEF Held
    <3>3. CASE i < stop /\ i \notin failing
      <4>1. i \in I
        BY <1>2, <3>3
      <4>2. PICK k \in DOMAIN jobs' : jobs'[k] = queue[i]
        BY <1>9, <4>1
      <4>. QED
        BY <3>1, <4>2 DEF Held, Covers
    <3>4. CASE ~(i < stop)
      <4>. DEFINE k == i - stop + 1
      <4>1. k \in 1..(Len(queue) + 1 - stop) /\ stop + k - 1 = i
        BY <1>2, <3>4
      <4>. HIDE DEF k
      <4>2. k \in DOMAIN queue' /\ queue'[k] = queue[i]
        BY <1>11, <1>12, <4>1
      <4>. QED
        BY <3>1, <4>2 DEF Held, Holds, Covers
    <3>. QED
      BY <3>2, <3>3, <3>4
  <2>. QED
    BY <2>1, <2>2, <2>3, <2>4, <2>5 DEF Held
<1>. QED
  BY <1>13, <1>14, <1>15 DEF Inv, ChangesWait

\* The parents of a URI are shorter, above it and above all below it; those of
\* a watched directory are watched.
LEMMA ParentFacts ==
  ASSUME NEW uri \in Uri, NEW d \in Uri, Covers(uri, d), NEW p \in Parents(uri)
  PROVE  p \in Uri /\ p \in Parents(d)
<1>1. Len(uri) \in Nat /\ Len(d) \in Nat /\ Len(uri) <= Len(d)
  BY LenProperties DEF Uri, Covers, IsPrefix
<1>2. PICK n \in 1..(Len(uri) - 1) : p = SubSeq(uri, 1, n)
  BY DEF Parents
<1>3. \A i \in 1..Len(uri) : uri[i] = d[i] /\ uri[i] \in STRING
  BY <1>1, PrefixEntries DEF Covers, Uri
<1>4. n \in Nat /\ n \in 1..(Len(d) - 1)
  BY <1>1
<1>5. /\ SubSeq(uri, 1, n) \in Seq(STRING) /\ Len(SubSeq(uri, 1, n)) = n
      /\ \A i \in 1..n : SubSeq(uri, 1, n)[i] = uri[i]
  BY <1>1, <1>3, <1>4, SubSeqProperties
<1>6. /\ SubSeq(d, 1, n) \in Seq(STRING) /\ Len(SubSeq(d, 1, n)) = n
      /\ \A i \in 1..n : SubSeq(d, 1, n)[i] = d[i]
  BY <1>1, <1>3, <1>4, SubSeqProperties
<1>7. \A i \in 1..n : SubSeq(uri, 1, n)[i] = SubSeq(d, 1, n)[i]
  BY <1>1, <1>3, <1>5, <1>6
<1>8. SubSeq(uri, 1, n) = SubSeq(d, 1, n)
  BY <1>5, <1>6, <1>7, SeqEqual
<1>. QED
  BY <1>2, <1>4, <1>5, <1>8 DEF Parents, Uri

\* What lies below a parent that became known by being seen was seen itself.
LEMMA BelowParent ==
  ASSUME NEW d \in Uri, NEW p \in Parents(d)
  PROVE  p \in Uri /\ IsPrefix(p, d)
<1>1. Len(d) \in Nat
  BY LenProperties DEF Uri
<1>2. PICK n \in 1..(Len(d) - 1) : p = SubSeq(d, 1, n)
  BY DEF Parents
<1>3. n \in Nat /\ n <= Len(d) /\ \A i \in 1..n : d[i] \in STRING
  BY <1>1, ElementOfSeq DEF Uri
<1>4. p \in Seq(STRING) /\ Len(p) = n
  BY <1>2, <1>3, SubSeqProperties
<1>5. SubSeq(p, 1, Len(p)) = p
  <2>1. \A i \in 1..n : p[i] \in STRING
    BY <1>4, ElementOfSeq
  <2>2. /\ SubSeq(p, 1, n) \in Seq(STRING) /\ Len(SubSeq(p, 1, n)) = n
        /\ \A i \in 1..n : SubSeq(p, 1, n)[i] = p[i]
    BY <1>3, <1>4, <2>1, SubSeqProperties
  <2>. QED
    BY <1>4, <2>2, SeqEqual
<1>. QED
  BY <1>2, <1>3, <1>4, <1>5 DEF Uri, IsPrefix

\* An update takes off the list what it looks at.  What it misses for want of a
\* parent stays out of reach until an update has looked at it.
LEMMA RunUpdateStep ==
  ASSUME Inv, RunUpdate
  PROVE  Inv'
<1>0. TypeOK
  BY DEF Inv
<1>1. /\ DOMAIN jobs = 1..Len(jobs) /\ Len(jobs) \in Nat
      /\ jobs \in Seq(Watched) /\ jobs # << >> /\ Capacity \in Nat
  BY <1>0, QueueAsSeq DEF RunUpdate
<1>2. /\ jobs' \in Seq(Watched) /\ Len(jobs') = Len(jobs) - 1
      /\ Head(jobs) = jobs[1]
      /\ \A j \in DOMAIN jobs' : j + 1 \in DOMAIN jobs /\ jobs'[j] = jobs[j + 1]
  <2>1. jobs' = Tail(jobs)
    BY DEF RunUpdate
  <2>. QED
    BY <1>1, <2>1, TailFacts
<1>3. DOMAIN jobs' = 1..(Len(jobs) - 1)
  BY <1>2, LenProperties
<1>4. TypeOK'
  <2>1. Len(jobs') <= Capacity
    BY <1>0, <1>1, <1>2 DEF TypeOK
  <2>2. Head(jobs) \in Watched /\ Len(Head(jobs)) \in Nat
    <3>1. jobs[1] \in Watched
      BY <1>1, ElementOfSeq, EmptySeq
    <3>2. jobs[1] \in Seq(STRING)
      BY <1>0, <3>1, QueueAsSeq DEF Uri
    <3>. QED
      BY <1>2, <3>1, <3>2, LenProperties
  <2>3. Made(Head(jobs)) \subseteq Watched
    <3>. SUFFICES ASSUME NEW p \in Made(Head(jobs)) PROVE p \in Watched
      OBVIOUS
    <3>1. PICK n \in 1..(Len(Head(jobs)) - 1) : p = SubSeq(Head(jobs), 1, n)
      BY DEF Made, Parents
    <3>2. n \in 1..Len(Head(jobs))
      BY <2>2
    <3>. QED
      BY <2>2, <3>1, <3>2, InotifyAssumption
  <2>4. Seen(Head(jobs)) \subseteq Watched
    BY DEF Seen
  <2>5. known' \subseteq Watched
    BY <1>0, <2>3, <2>4 DEF TypeOK, RunUpdate
  <2>. QED
    BY <1>0, <1>2, <2>1, <2>5 DEF TypeOK, RunUpdate
<1>5. QueueIsAntichain'
  BY DEF Inv, QueueIsAntichain, RunUpdate
<1>6. ASSUME NEW d \in dirty', d # << >> PROVE Held(d)' \/ (Missing(d) # {})'
  <2>. DEFINE uri == jobs[1]
  <2>0. uri \in Uri /\ uri \in Watched
    BY <1>0, <1>1, <1>2, ElementOfSeq, QueueAsSeq
  <2>1. /\ Held(d) \/ Missing(d) # {}
        /\ d \in dirty /\ d \in Uri /\ d \in Watched
        /\ d \notin Seen(uri)
        /\ known' = known \cup Made(uri) \cup Seen(uri)
    BY <1>0, <1>2, <1>6, QueueAsSeq DEF Inv, ChangesWait, RunUpdate, TypeOK
  <2>. HIDE DEF uri
  <2>5. ASSUME NEW p \in Missing(d) PROVE (Missing(d) # {})'
    <3>1. p \in Parents(d) /\ p \notin known /\ ~Found(p)
      BY <2>5 DEF Missing
    <3>2. p \notin Made(uri)
      <4>. SUFFICES ASSUME p \in Made(uri) PROVE FALSE
        OBVIOUS
      <4>1. p \in Parents(uri) /\ \A q \in Missing(uri) : Len(p) < Len(q)
        BY DEF Made
      <4>2. p \in Missing(uri)
        BY <3>1, <4>1 DEF Missing
      <4>3. Len(p) < Len(p)
        BY <4>1, <4>2
      <4>4. Len(p) \in Nat
        BY <2>1, <3>1, BelowParent, LenProperties DEF Uri
      <4>. QED
        BY <4>3, <4>4
    <3>3. p \notin Seen(uri)
      <4>. SUFFICES ASSUME p \in Seen(uri) PROVE FALSE
        OBVIOUS
      <4>1. Missing(uri) = {} /\ IsPrefix(uri, p)
        BY DEF Seen, Covers
      <4>2. p \in Uri /\ IsPrefix(p, d)
        BY <2>1, <3>1, BelowParent
      <4>3. IsPrefix(uri, d)
        BY <2>0, <2>1, <4>1, <4>2, PrefixFacts
      <4>. QED
        BY <2>1, <4>1, <4>3 DEF Seen, Covers
    <3>4. p \notin known'
      BY <2>1, <3>1, <3>2, <3>3
    <3>. QED
      BY <3>1, <3>4 DEF Missing
  <2>6. CASE Covers(uri, d)
    <3>1. PICK p \in Missing(uri) : TRUE
      BY <2>1, <2>6 DEF Seen
    <3>2. p \in Missing(d)
      BY <2>0, <2>1, <2>6, <3>1, ParentFacts DEF Missing
    <3>. QED
      BY <2>5, <3>2
  <2>2. CASE d \in events \cup abandoned
    BY <1>6, <2>2 DEF Held, RunUpdate
  <2>3. CASE \E i \in DOMAIN jobs : Covers(jobs[i], d)
    <3>1. PICK i \in DOMAIN jobs : Covers(jobs[i], d)
      BY <2>3
    <3>2. CASE i = 1
      BY <2>6, <3>1, <3>2 DEF uri
    <3>. SUFFICES ASSUME i # 1 PROVE Held(d)'
      BY <3>2
    <3>. DEFINE j == i - 1
    <3>3. j \in DOMAIN jobs' /\ j + 1 = i
      BY <1>1, <1>3
    <3>. HIDE DEF j
    <3>4. jobs'[j] = jobs[i]
      BY <1>2, <3>3
    <3>. QED
      BY <3>1, <3>3, <3>4 DEF Held, Covers
  <2>4. CASE Holds(queue, d)
    BY <2>4 DEF Held, Holds, RunUpdate
  <2>. QED
    BY <2>1, <2>2, <2>3, <2>4, <2>5 DEF Held
<1>. QED
  BY <1>4, <1>5, <1>6 DEF Inv, ChangesWait

----------------------------------------------------------------------------
(***************************************************************************)
(* The theorems.                                                           *)
(***************************************************************************)

\* The invariant is inductive.
THEOREM Invariance == Spec => []Inv
<1>1. Init => Inv
  <2>. SUFFICES ASSUME Init PROVE Inv
    OBVIOUS
  <2>1. TypeOK
    <3>1. /\ << >> \in Seq(Watched) /\ Len(<< >>) = 0
          /\ Capacity \in Nat /\ MaxChanges \in Nat
      BY EmptySeq, InotifyAssumption
    <3>2. Len(jobs) <= Capacity /\ changes \in 0..MaxChanges
      BY <3>1 DEF Init
    <3>. QED
      BY <3>1, <3>2 DEF Init, TypeOK
  <2>2. QueueIsAntichain /\ ChangesWait
    BY DEF Init, QueueIsAntichain, ChangesWait
  <2>. QED
    BY <2>1, <2>2 DEF Inv
<1>2. Inv /\ [Next]_vars => Inv'
  <2>. SUFFICES ASSUME Inv, [Next]_vars PROVE Inv'
    OBVIOUS
  <2>1. CASE \E directory \in Watched : Change(directory)
    BY <2>1, ChangeStep
  <2>2. CASE \E directory \in Watched : OnInotify(directory)
    BY <2>2, OnInotifyStep
  <2>3. CASE \E failing \in SUBSET DOMAIN queue : OnDelay(failing)
    BY <2>3, OnDelayStep
  <2>4. CASE RunUpdate
    BY <2>4, RunUpdateStep
  <2>5. CASE UNCHANGED vars
    BY <2>5 DEF vars, Inv, TypeOK, QueueIsAntichain, ChangesWait, Held, Holds, Missing
  <2>. QED
    BY <2>1, <2>2, <2>3, <2>4, <2>5 DEF Next
<1>. QED
  BY <1>1, <1>2, PTL DEF Spec

\* The variables keep their types, and OnDelay() never hands the update service
\* more than it has room for.
THEOREM TypeCorrect == Spec => []TypeOK
<1>1. Inv => TypeOK
  BY DEF Inv
<1>. QED
  BY <1>1, Invariance, PTL

\* InotifyQueue::Enqueue() never leaves an entry below another, the music
\* directory watched or not: nothing is updated twice by one batch.
THEOREM NothingTwice == Spec => []QueueIsAntichain
<1>1. Inv => QueueIsAntichain
  BY DEF Inv
<1>. QED
  BY <1>1, Invariance, PTL

\* Enqueue() and the updates forget no change but in the music directory itself
\* (path_in() takes it to be inside every other) and below a directory that the
\* database does not know and UpdateUri() cannot make.
THEOREM ChangesAreNotForgotten == Spec => []NoChangeForgotten
<1>1. Inv => NoChangeForgotten
  <2>. SUFFICES ASSUME Inv, NEW d \in dirty, d # << >>
                PROVE  Waiting(d) \/ Missing(d) # {}
    BY DEF NoChangeForgotten
  <2>1. Held(d) \/ Missing(d) # {}
    BY DEF Inv, ChangesWait
  <2>2. Held(d) => Waiting(d)
    BY DEF Held, Waiting, Holds, ToSet
  <2>. QED
    BY <2>1, <2>2
<1>. QED
  BY <1>1, Invariance, PTL
=============================================================================
