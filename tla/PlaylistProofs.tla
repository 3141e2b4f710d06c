--------------------------- MODULE PlaylistProofs ---------------------------
(***************************************************************************)
(* TLAPS proofs about PlayQueue.tla and Playlist.tla.  First the queue:    *)
(* every method of it leaves it consistent, for every length, every size   *)
(* of the table of ids and every random number.  Then the playlist: its    *)
(* operations and those of PlayerControl map worlds to sets of worlds;     *)
(* each lemma says what they keep, for every world, and the actions        *)
(* follow.  Last, with the songs followed through every edit: what the     *)
(* player plays is what the playlist has asked for.                        *)
(***************************************************************************)
EXTENDS Playlist, ListLemmas, TLAPS

----------------------------------------------------------------------------
(***************************************************************************)
(* Queues that are well formed.                                            *)
(***************************************************************************)

\* uint8_t, the priority of a song
Bytes == 0..255

Items == [id : Ids, song : Songs, version : 0..(MaxVersion - 1), priority : Bytes,
          tag : BOOLEAN]

Queues == [items : Seq(Items), order : Seq(Nat), table : [Ids -> 0..MaxLength],
           next : Ids, version : 1..(MaxVersion - 1), repeat : BOOLEAN,
           random : BOOLEAN, single : Modes, consume : Modes]

\* The order is a permutation of the positions.
OrderOK(q) ==
  /\ q.order \in [Positions(q) -> Positions(q)]
  /\ \A a, b \in Positions(q) : q.order[a] = q.order[b] => a = b

\* Positions and ids lead to each other.
TableOK(q) ==
  /\ \A p \in Positions(q) : q.table[q.items[p].id] = p
  /\ \A i \in Ids : q.table[i] # 0 =>
       q.table[i] \in Positions(q) /\ q.items[q.table[i]].id = i

Good(q) == q \in Queues /\ Length(q) <= MaxLength /\ OrderOK(q) /\ TableOK(q)

\* The constants are numbers.
LEMMA Sizes ==
  /\ MaxLength \in Nat /\ MaxLength > 0
  /\ IdSize \in Nat /\ IdSize > MaxLength
  /\ MaxVersion \in Nat /\ MaxVersion > 1
  BY PlayQueueAssumption

\* What there is in a queue.
LEMMA QueueFacts ==
  ASSUME NEW q, Good(q)
  PROVE  /\ q \in Queues
         /\ Length(q) \in Nat /\ Length(q) <= MaxLength /\ Length(q) \in 0..MaxLength
         /\ q.items \in [Positions(q) -> Items]
         /\ q.order \in [Positions(q) -> Positions(q)]
         /\ DOMAIN q.items = Positions(q) /\ DOMAIN q.order = Positions(q)
         /\ q.table \in [Ids -> 0..MaxLength]
         /\ \A p \in Positions(q) : q.items[p] \in Items /\ q.items[p].id \in Ids
         /\ \A p \in Positions(q) : p \in Nat /\ p # 0
<1>1. q.items \in Seq(Items) /\ q.table \in [Ids -> 0..MaxLength] /\ q \in Queues
  BY DEF Good, Queues
<1>2. Length(q) \in Nat /\ DOMAIN q.items = Positions(q)
  BY <1>1, LenProperties DEF Length, Positions
<1>3. \A p \in Positions(q) : q.items[p] \in Items
  BY <1>1, ElementOfSeq DEF Length, Positions
<1>4. q.items = [p \in Positions(q) |-> q.items[p]]
  BY <1>1, <1>2, LenProperties DEF Positions, Length
<1>5. q.items \in [Positions(q) -> Items]
  BY <1>3, <1>4
<1>6. \A p \in Positions(q) : q.items[p].id \in Ids
  BY <1>3 DEF Items
<1>7. \A p \in Positions(q) : p \in Nat /\ p # 0
  BY <1>2 DEF Positions
<1>8. q.order \in [Positions(q) -> Positions(q)]
  BY DEF Good, OrderOK
<1>9. Length(q) <= MaxLength /\ MaxLength \in Nat
  BY Sizes DEF Good
<1>. QED
  BY <1>1, <1>2, <1>3, <1>5, <1>6, <1>7, <1>8, <1>9

\* A well-formed queue is consistent.
LEMMA GoodIsConsistent ==
  ASSUME NEW q, Good(q)
  PROVE  Consistent(q)
<1>1. /\ Length(q) \in Nat /\ q.order \in [Positions(q) -> Positions(q)]
      /\ q \in Queues
  BY QueueFacts
<1>2. Len(q.order) = Length(q)
  <2>1. q.order \in Seq(Nat)
    BY <1>1 DEF Queues
  <2>2. DOMAIN q.order = 1..Len(q.order) /\ Len(q.order) \in Nat
    BY <2>1, LenProperties
  <2>3. DOMAIN q.order = 1..Length(q)
    BY <1>1 DEF Positions
  <2>. QED
    BY <1>1, <2>2, <2>3
<1>3. \A p \in Positions(q) : \E o \in Positions(q) : q.order[o] = p
  <2>1. IsFiniteSet(Positions(q))
    BY <1>1, FS_Interval DEF Positions
  <2>2. \A a, b \in Positions(q) : q.order[a] = q.order[b] => a = b
    BY DEF Good, OrderOK
  <2>. QED
    BY <1>1, <2>1, <2>2, PermutationFacts
<1>. QED
  BY <1>2, <1>3 DEF Consistent, Good, TableOK

\* PositionToOrder() is the inverse of the order.
LEMMA PositionFacts ==
  ASSUME NEW q, Good(q), NEW p \in Positions(q)
  PROVE  /\ PositionToOrder(q, p) \in Positions(q)
         /\ q.order[PositionToOrder(q, p)] = p
         /\ \A o \in Positions(q) : q.order[o] = p => o = PositionToOrder(q, p)
<1>1. \E o \in Positions(q) : q.order[o] = p
  BY GoodIsConsistent DEF Consistent
<1>2. PositionToOrder(q, p) \in Positions(q) /\ q.order[PositionToOrder(q, p)] = p
  BY <1>1 DEF PositionToOrder
<1>. QED
  BY <1>2 DEF Good, OrderOK

\* The next song in the order is one of the queue.
LEMMA NextOrderFacts ==
  ASSUME NEW q, Good(q), NEW o \in 1..Length(q)
  PROVE  GetNextOrder(q, o) \in 0..Length(q)
  BY QueueFacts DEF GetNextOrder, Positions

\* Two songs never have the same id.
LEMMA IdsDiffer ==
  ASSUME NEW q, Good(q), NEW a \in Positions(q), NEW b \in Positions(q),
         q.items[a].id = q.items[b].id
  PROVE  a = b
  BY DEF Good, TableOK

----------------------------------------------------------------------------
(***************************************************************************)
(* Methods that change neither ids nor positions.                          *)
(***************************************************************************)

\* A function on the positions is a list of that length.
LEMMA ListOf ==
  ASSUME NEW T, NEW n \in Nat, NEW f \in [1..n -> T]
  PROVE  f \in Seq(T) /\ Len(f) = n
  OBVIOUS

\* New versions, priorities, tags and modes leave the queue well formed.
LEMMA SameSongs ==
  ASSUME NEW q, Good(q), NEW r \in Queues,
         r.order = q.order, r.table = q.table,
         r.items \in [Positions(q) -> Items],
         \A p \in Positions(q) : r.items[p].id = q.items[p].id
  PROVE  Good(r) /\ Length(r) = Length(q) /\ Positions(r) = Positions(q)
<1>1. Length(q) \in Nat
  BY QueueFacts
<1>2. Length(r) = Length(q)
  BY <1>1, ListOf DEF Positions, Length
<1>3. Positions(r) = Positions(q)
  BY <1>2 DEF Positions
<1>4. OrderOK(r)
  BY <1>3 DEF Good, OrderOK
<1>5. TableOK(r)
  BY <1>3 DEF Good, TableOK
<1>. QED
  BY <1>2, <1>3, <1>4, <1>5 DEF Good

\* A new permutation leaves the queue well formed.
LEMMA SameItems ==
  ASSUME NEW q, Good(q), NEW f \in [Positions(q) -> Positions(q)],
         \A a, b \in Positions(q) : f[a] = f[b] => a = b
  PROVE  /\ Good([q EXCEPT !.order = f])
         /\ [q EXCEPT !.order = f].order = f
         /\ Length([q EXCEPT !.order = f]) = Length(q)
         /\ Positions([q EXCEPT !.order = f]) = Positions(q)
<1>. DEFINE r == [q EXCEPT !.order = f]
<1>1. q \in Queues /\ Length(q) \in Nat
  BY QueueFacts
<1>2. f \in Seq(Nat)
  BY <1>1 DEF Positions
<1>3. r \in Queues
  BY <1>1, <1>2 DEF Queues
<1>4. r.items = q.items /\ r.table = q.table /\ r.order = f
  BY <1>1 DEF Queues
<1>. HIDE DEF r
<1>5. Length(r) = Length(q) /\ Positions(r) = Positions(q)
  BY <1>4 DEF Length, Positions
<1>6. OrderOK(r) /\ TableOK(r)
  BY <1>4, <1>5 DEF Good, OrderOK, TableOK
<1>7. Good(r)
  BY <1>3, <1>5, <1>6 DEF Good
<1>. QED
  BY <1>4, <1>5, <1>7 DEF r

\* IncrementVersion()
LEMMA IncrementVersionFacts ==
  ASSUME NEW q, Good(q)
  PROVE  /\ Good(IncrementVersion(q))
         /\ Length(IncrementVersion(q)) = Length(q)
         /\ IncrementVersion(q).order = q.order
         /\ IncrementVersion(q).random = q.random
<1>. DEFINE r == IncrementVersion(q)
<1>1. /\ q \in Queues /\ q.items \in [Positions(q) -> Items]
      /\ Length(q) \in Nat /\ q.version \in 1..(MaxVersion - 1)
      /\ MaxVersion \in Nat /\ MaxVersion > 1
  BY QueueFacts, Sizes DEF Queues
<1>2. CASE q.version + 1 >= MaxVersion
  <2>. DEFINE items == [p \in Positions(q) |-> [q.items[p] EXCEPT !.version = 0]]
  <2>1. r = [q EXCEPT !.version = 1, !.items = items]
    BY <1>1, <1>2 DEF IncrementVersion
  <2>2. items \in [Positions(q) -> Items]
    BY <1>1 DEF Items
  <2>4. \A p \in Positions(q) : items[p].id = q.items[p].id
    BY <1>1 DEF Items
  <2>. HIDE DEF items
  <2>3. items \in Seq(Items)
    BY <1>1, <2>2, ListOf DEF Positions
  <2>5. r \in Queues
    <3>1. 1 \in 1..(MaxVersion - 1)
      BY <1>1
    <3>. HIDE DEF r
    <3>. QED
      BY <1>1, <2>1, <2>3, <3>1 DEF Queues
  <2>6. r.order = q.order /\ r.table = q.table /\ r.items = items /\ r.random = q.random
    BY <1>1, <2>1 DEF Queues
  <2>. HIDE DEF r
  <2>. QED
    BY <2>2, <2>4, <2>5, <2>6, SameSongs DEF r
<1>3. CASE ~(q.version + 1 >= MaxVersion)
  <2>1. r = [q EXCEPT !.version = q.version + 1]
    BY <1>3 DEF IncrementVersion
  <2>2. q.version + 1 \in 1..(MaxVersion - 1)
    BY <1>1, <1>3
  <2>3. r \in Queues
    BY <1>1, <2>1, <2>2 DEF Queues
  <2>4. r.order = q.order /\ r.table = q.table /\ r.items = q.items /\ r.random = q.random
    BY <1>1, <2>1 DEF Queues
  <2>. HIDE DEF r
  <2>. QED
    BY <1>1, <2>3, <2>4, SameSongs DEF r
<1>. QED
  BY <1>2, <1>3

\* Another item with the same id at one position.
LEMMA NewItem ==
  ASSUME NEW q, Good(q), NEW p \in Positions(q), NEW item \in Items,
         item.id = q.items[p].id
  PROVE  /\ Good([q EXCEPT !.items[p] = item])
         /\ Length([q EXCEPT !.items[p] = item]) = Length(q)
         /\ [q EXCEPT !.items[p] = item].order = q.order
         /\ [q EXCEPT !.items[p] = item].items = [q.items EXCEPT ![p] = item]
         /\ [q EXCEPT !.items[p] = item].random = q.random
<1>. DEFINE items == [q.items EXCEPT ![p] = item]
            r == [q EXCEPT !.items[p] = item]
<1>1. /\ q \in Queues /\ q.items \in [Positions(q) -> Items] /\ Length(q) \in Nat
  BY QueueFacts
<1>2. items \in [Positions(q) -> Items]
  BY <1>1
<1>3. items \in Seq(Items)
  BY <1>1, <1>2 DEF Positions
<1>4. \A x \in Positions(q) : items[x].id = q.items[x].id
  BY <1>1
<1>5. r = [q EXCEPT !.items = items]
  OBVIOUS
<1>. HIDE DEF items, r
<1>6. r \in Queues
  BY <1>1, <1>3, <1>5 DEF Queues
<1>7. r.order = q.order /\ r.table = q.table /\ r.items = items /\ r.random = q.random
  BY <1>1, <1>5 DEF Queues
<1>8. Good(r) /\ Length(r) = Length(q)
  BY <1>2, <1>4, <1>6, <1>7, SameSongs
<1>. QED
  BY <1>7, <1>8 DEF r, items

\* ModifyAtPosition()
LEMMA ModifyFacts ==
  ASSUME NEW q, Good(q), NEW p \in Positions(q)
  PROVE  /\ Good(ModifyAtPosition(q, p))
         /\ Length(ModifyAtPosition(q, p)) = Length(q)
         /\ ModifyAtPosition(q, p).order = q.order
<1>. DEFINE item == [q.items[p] EXCEPT !.version = q.version]
<1>1. /\ q.items[p] \in Items /\ q.version \in 0..(MaxVersion - 1)
      /\ DOMAIN q.items = Positions(q)
  BY QueueFacts, Sizes DEF Queues
<1>2. item \in Items /\ item.id = q.items[p].id
  BY <1>1 DEF Items
<1>3. ModifyAtPosition(q, p) = [q EXCEPT !.items[p] = item]
  BY <1>1 DEF ModifyAtPosition
<1>. HIDE DEF item
<1>. QED
  BY <1>2, <1>3, NewItem

\* ChangePriority(), the first part of SetPriority()
LEMMA ChangePriorityFacts ==
  ASSUME NEW q, Good(q), NEW p \in Positions(q), NEW priority \in Bytes
  PROVE  /\ Good(ChangePriority(q, p, priority))
         /\ Length(ChangePriority(q, p, priority)) = Length(q)
         /\ ChangePriority(q, p, priority).order = q.order
         /\ ChangePriority(q, p, priority).random = q.random
<1>. DEFINE item == [q.items[p] EXCEPT !.version = q.version, !.priority = priority]
<1>1. /\ q.items[p] \in Items /\ q.version \in 0..(MaxVersion - 1)
      /\ DOMAIN q.items = Positions(q)
  BY QueueFacts, Sizes DEF Queues
<1>2. item \in Items /\ item.id = q.items[p].id
  BY <1>1 DEF Items
<1>3. ChangePriority(q, p, priority) = [q EXCEPT !.items[p] = item]
  BY <1>1 DEF ChangePriority
<1>. HIDE DEF item
<1>. QED
  BY <1>2, <1>3, NewItem

\* The tag of one song is edited.
LEMMA EditFacts ==
  ASSUME NEW q, Good(q), NEW p \in Positions(q)
  PROVE  /\ Good(NewTag(q, p))
         /\ Length(NewTag(q, p)) = Length(q)
         /\ NewTag(q, p).order = q.order
<1>. DEFINE item == [q.items[p] EXCEPT !.tag = ~@]
<1>1. q.items[p] \in Items /\ DOMAIN q.items = Positions(q)
  BY QueueFacts
<1>2. item \in Items /\ item.id = q.items[p].id
  BY <1>1 DEF Items
<1>3. NewTag(q, p) = [q EXCEPT !.items[p] = item]
  BY <1>1 DEF NewTag
<1>. HIDE DEF item
<1>. QED
  BY <1>2, <1>3, NewItem

----------------------------------------------------------------------------
(***************************************************************************)
(* Songs change places.                                                    *)
(***************************************************************************)

\* Songs trade places among some positions, and the table follows.
LEMMA RearrangedFacts ==
  ASSUME NEW q, Good(q), NEW D \in SUBSET Positions(q), NEW from \in [D -> D],
         \A a, b \in D : from[a] = from[b] => a = b
  PROVE  /\ Good(Rearranged(q, from))
         /\ Length(Rearranged(q, from)) = Length(q)
         /\ Rearranged(q, from).order = q.order
         /\ Rearranged(q, from).random = q.random
<1>. DEFINE items == [p \in Positions(q) |-> IF p \in D THEN Moved(q.items[from[p]], q.version)
                                             ELSE q.items[p]]
            Has(i) == \E p \in D : q.items[from[p]].id = i
            table == [i \in Ids |-> IF Has(i) THEN CHOOSE p \in D : q.items[from[p]].id = i
                                    ELSE q.table[i]]
            r == Rearranged(q, from)
<1>1. /\ q \in Queues /\ q.items \in [Positions(q) -> Items] /\ Length(q) \in Nat
      /\ DOMAIN q.items = Positions(q)
      /\ q.table \in [Ids -> 0..MaxLength] /\ Positions(q) \subseteq 0..MaxLength
      /\ q.version \in 0..(MaxVersion - 1)
      /\ \A p \in Positions(q) : q.items[p] \in Items /\ q.items[p].id \in Ids
      /\ \A p \in Positions(q) : p # 0
  BY QueueFacts, Sizes DEF Queues, Positions
<1>2. \A p \in D : p \in Positions(q) /\ from[p] \in D /\ from[p] \in Positions(q)
  OBVIOUS
<1>3. r = [q EXCEPT !.items = items, !.table = table]
  <2>1. DOMAIN from = D
    OBVIOUS
  <2>. QED
    BY <1>1, <2>1 DEF Rearranged
<1>4. \A p \in D : \E a \in D : from[a] = p
  <2>1. IsFiniteSet(Positions(q))
    BY <1>1, FS_Interval DEF Positions
  <2>2. IsFiniteSet(D)
    BY <2>1, FS_Subset
  <2>. QED
    BY <2>2, PermutationFacts
<1>5. ASSUME NEW p \in Positions(q)
      PROVE  /\ items[p] \in Items
             /\ items[p].id = IF p \in D THEN q.items[from[p]].id ELSE q.items[p].id
  <2>1. CASE p \in D
    <3>1. q.items[from[p]] \in Items /\ items[p] = Moved(q.items[from[p]], q.version)
      BY <1>1, <1>2, <2>1
    <3>. HIDE DEF items
    <3>. QED
      BY <1>1, <2>1, <3>1 DEF Moved, Items
  <2>2. CASE p \notin D
    BY <1>1, <2>2
  <2>. QED
    BY <2>1, <2>2
<1>6. items \in [Positions(q) -> Items]
  BY <1>5
<1>7. ASSUME NEW i \in Ids, NEW p \in D, q.items[from[p]].id = i
      PROVE  table[i] = p
  <2>. DEFINE c == CHOOSE a \in D : q.items[from[a]].id = i
  <2>1. c \in D /\ q.items[from[c]].id = i
    BY <1>7
  <2>2. table[i] = c
    BY <1>7
  <2>. HIDE DEF c
  <2>3. from[c] = from[p]
    BY <1>2, <1>7, <2>1, IdsDiffer
  <2>. QED
    BY <2>1, <2>2, <2>3
<1>8. \A i \in Ids : ~Has(i) => table[i] = q.table[i]
  OBVIOUS
<1>9. ASSUME NEW i \in Ids PROVE table[i] \in 0..MaxLength
  <2>1. CASE Has(i)
    <3>1. PICK p \in D : q.items[from[p]].id = i
      BY <2>1
    <3>2. table[i] = p
      BY <1>7, <3>1
    <3>. QED
      BY <1>1, <1>2, <3>2
  <2>2. CASE ~Has(i)
    BY <1>1, <1>8, <2>2
  <2>. QED
    BY <2>1, <2>2
<1>10. table \in [Ids -> 0..MaxLength]
  BY <1>9
<1>. HIDE DEF items, table, r
<1>11. items \in Seq(Items) /\ Len(items) = Length(q)
  BY <1>1, <1>6, ListOf DEF Positions
<1>12. r \in Queues
  BY <1>1, <1>3, <1>10, <1>11 DEF Queues
<1>13. r.items = items /\ r.table = table /\ r.order = q.order /\ r.random = q.random
  BY <1>1, <1>3 DEF Queues
<1>14. Length(r) = Length(q) /\ Positions(r) = Positions(q)
  BY <1>11, <1>13 DEF Length, Positions
<1>15. OrderOK(r)
  BY <1>13, <1>14 DEF Good, OrderOK
<1>16. ASSUME NEW p \in Positions(q) PROVE table[items[p].id] = p
  <2>1. CASE p \in D
    BY <1>1, <1>2, <1>5, <1>7, <2>1
  <2>2. CASE p \notin D
    <3>. DEFINE i == q.items[p].id
    <3>1. items[p].id = i /\ i \in Ids
      BY <1>1, <1>5, <2>2
    <3>2. ~Has(i)
      <4>. SUFFICES ASSUME NEW a \in D, q.items[from[a]].id = i PROVE FALSE
        OBVIOUS
      <4>1. from[a] = p
        BY <1>2, IdsDiffer
      <4>. QED
        BY <1>2, <2>2, <4>1
    <3>3. q.table[i] = p
      BY DEF Good, TableOK
    <3>. QED
      BY <1>8, <3>1, <3>2, <3>3
  <2>. QED
    BY <2>1, <2>2
<1>17. ASSUME NEW i \in Ids, table[i] # 0
       PROVE  table[i] \in Positions(q) /\ items[table[i]].id = i
  <2>1. CASE Has(i)
    <3>1. PICK p \in D : q.items[from[p]].id = i
      BY <2>1
    <3>2. table[i] = p
      BY <1>7, <3>1
    <3>. QED
      BY <1>2, <1>5, <3>1, <3>2
  <2>2. CASE ~Has(i)
    <3>. DEFINE p == q.table[i]
    <3>1. table[i] = p
      BY <1>8, <2>2
    <3>2. p \in Positions(q) /\ q.items[p].id = i
      BY <1>17, <3>1 DEF Good, TableOK
    <3>3. p \notin D
      BY <1>4, <2>2, <3>2
    <3>. QED
      BY <1>5, <3>1, <3>2, <3>3
  <2>. QED
    BY <2>1, <2>2
<1>18. TableOK(r)
  BY <1>13, <1>14, <1>16, <1>17 DEF TableOK
<1>19. Good(r)
  BY <1>12, <1>14, <1>15, <1>18 DEF Good
<1>. QED
  BY <1>13, <1>14, <1>19 DEF r

\* SwapPositions()
LEMMA SwapPositionsFacts ==
  ASSUME NEW q, Good(q), NEW a \in Positions(q), NEW b \in Positions(q)
  PROVE  /\ Good(SwapPositions(q, a, b))
         /\ Length(SwapPositions(q, a, b)) = Length(q)
         /\ SwapPositions(q, a, b).order = q.order
         /\ SwapPositions(q, a, b).random = q.random
<1>. DEFINE D == {a, b}
            f == [p \in D |-> IF p = a THEN b ELSE a]
<1>1. D \in SUBSET Positions(q) /\ f \in [D -> D]
  OBVIOUS
<1>2. \A x, y \in D : f[x] = f[y] => x = y
  OBVIOUS
<1>3. SwapPositions(q, a, b) = Rearranged(q, f)
  BY DEF SwapPositions
<1>. HIDE DEF f, D
<1>. QED
  BY <1>1, <1>2, <1>3, RearrangedFacts

\* SwapOrders()
LEMMA SwapOrdersFacts ==
  ASSUME NEW q, Good(q), NEW a \in Positions(q), NEW b \in Positions(q)
  PROVE  Good(SwapOrders(q, a, b)) /\ Length(SwapOrders(q, a, b)) = Length(q)
<1>. DEFINE f == [q.order EXCEPT ![a] = q.order[b], ![b] = q.order[a]]
<1>1. q.order \in [Positions(q) -> Positions(q)]
  BY QueueFacts
<1>2. \A x, y \in Positions(q) : q.order[x] = q.order[y] => x = y
  BY DEF Good, OrderOK
<1>3. f \in [Positions(q) -> Positions(q)]
  BY <1>1
<1>4. \A x, y \in Positions(q) : f[x] = f[y] => x = y
  BY <1>1, <1>2
<1>5. SwapOrders(q, a, b) = [q EXCEPT !.order = f]
  BY DEF SwapOrders
<1>. HIDE DEF f
<1>. QED
  BY <1>3, <1>4, <1>5, SameItems

\* MoveOrder()
LEMMA MoveOrderFacts ==
  ASSUME NEW q, Good(q), NEW from \in Positions(q), NEW to \in Positions(q)
  PROVE  Good(MoveOrder(q, from, to)) /\ Length(MoveOrder(q, from, to)) = Length(q)
<1>. DEFINE new(o) == CASE o = to -> from
                        [] from <= o /\ o < to -> o + 1
                        [] to < o /\ o <= from -> o - 1
                        [] OTHER -> o
            f == [o \in Positions(q) |->
                    CASE o = to -> q.order[from]
                      [] from <= o /\ o < to -> q.order[o + 1]
                      [] to < o /\ o <= from -> q.order[o - 1]
                      [] OTHER -> q.order[o]]
<1>1. /\ q.order \in [Positions(q) -> Positions(q)] /\ Length(q) \in Nat
      /\ DOMAIN q.order = Positions(q)
  BY QueueFacts
<1>2. \A x, y \in Positions(q) : q.order[x] = q.order[y] => x = y
  BY DEF Good, OrderOK
<1>3. \A o \in Positions(q) : new(o) \in Positions(q)
  BY <1>1 DEF Positions
<1>4. \A x, y \in Positions(q) : new(x) = new(y) => x = y
  BY <1>1 DEF Positions
<1>5. ASSUME NEW o \in Positions(q) PROVE f[o] = q.order[new(o)]
  <2>1. o \in Nat /\ from \in Nat /\ to \in Nat
    BY <1>1 DEF Positions
  <2>. QED
    BY <2>1
<1>6. MoveOrder(q, from, to) = [q EXCEPT !.order = f]
  BY <1>1 DEF MoveOrder
<1>7. f = [o \in Positions(q) |-> f[o]]
  OBVIOUS
<1>. HIDE DEF f, new
<1>8. f \in [Positions(q) -> Positions(q)]
  BY <1>1, <1>3, <1>5, <1>7
<1>9. \A x, y \in Positions(q) : f[x] = f[y] => x = y
  BY <1>2, <1>3, <1>4, <1>5
<1>. QED
  BY <1>6, <1>8, <1>9, SameItems

\* MoveRange()
LEMMA MoveRangeFacts ==
  ASSUME NEW q, Good(q), NEW start \in Positions(q),
         NEW end \in start + 1 .. Length(q) + 1, NEW to \in Positions(q),
         to + end - start - 1 <= Length(q)
  PROVE  /\ Good(MoveRange(q, start, end, to))
         /\ Length(MoveRange(q, start, end, to)) = Length(q)
         /\ MoveRange(q, start, end, to).random = q.random
<1>. DEFINE n == end - start
            lo == IF to < start THEN to ELSE start
            hi == IF to < start THEN end ELSE to + n
            D == lo .. hi - 1
            from == [p \in D |-> CASE p >= to /\ p < to + n -> p - to + start
                                   [] p < to -> p + n
                                   [] OTHER -> p - n]
            moved == Rearranged(q, from)
            New(p) == CASE p >= end /\ p < to + n -> p - n
                        [] p < start /\ p >= to -> p + n
                        [] p >= start /\ p < end -> p + to - start
                        [] OTHER -> p
            f == [o \in DOMAIN moved.order |-> New(moved.order[o])]
<1>1. /\ Length(q) \in Nat /\ start \in Nat /\ end \in Nat /\ to \in Nat
      /\ start >= 1 /\ to >= 1 /\ end > start /\ end <= Length(q) + 1
      /\ start <= Length(q) /\ to <= Length(q)
  BY QueueFacts DEF Positions
<1>2. D \in SUBSET Positions(q)
  BY <1>1 DEF Positions
<1>3. from \in [D -> D]
  BY <1>1
<1>4. ASSUME NEW a \in D, NEW b \in D, from[a] = from[b] PROVE a = b
  <2>. DEFINE Old(p) == CASE p >= to /\ p < to + n -> p - to + start
                          [] p < to -> p + n
                          [] OTHER -> p - n
  <2>1. from[a] = Old(a) /\ from[b] = Old(b)
    OBVIOUS
  <2>2. Old(a) = Old(b)
    BY <1>4, <2>1
  <2>3. CASE to < start
    BY <1>1, <2>2, <2>3
  <2>4. CASE ~(to < start)
    BY <1>1, <2>2, <2>4
  <2>. QED
    BY <2>3, <2>4
<1>5. /\ Good(moved) /\ Length(moved) = Length(q) /\ moved.order = q.order
      /\ moved.random = q.random
  <2>. HIDE DEF D, from
  <2>. QED
    BY <1>2, <1>3, <1>4, RearrangedFacts
<1>6. MoveRange(q, start, end, to) = IF q.random THEN [moved EXCEPT !.order = f] ELSE moved
  BY DEF MoveRange
<1>7. Positions(moved) = Positions(q)
  BY <1>5 DEF Positions
<1>8. \A p \in Positions(q) : New(p) \in Positions(q)
  BY <1>1 DEF Positions
<1>9. \A a, b \in Positions(q) : New(a) = New(b) => a = b
  BY <1>1 DEF Positions
<1>10. /\ q.order \in [Positions(q) -> Positions(q)]
       /\ \A x, y \in Positions(q) : q.order[x] = q.order[y] => x = y
  BY DEF Good, OrderOK
<1>. HIDE DEF New, moved
<1>11. f \in [Positions(q) -> Positions(q)]
  BY <1>5, <1>8, <1>10
<1>12. \A a, b \in Positions(q) : f[a] = f[b] => a = b
  BY <1>5, <1>8, <1>9, <1>10
<1>. HIDE DEF f
<1>13. /\ Good([moved EXCEPT !.order = f])
       /\ Length([moved EXCEPT !.order = f]) = Length(q)
  BY <1>5, <1>7, <1>11, <1>12, SameItems
<1>14. [moved EXCEPT !.order = f].random = moved.random
  BY <1>5 DEF Good, Queues
<1>. QED
  BY <1>5, <1>6, <1>13, <1>14

\* ShuffleRange()
LEMMA ShuffleRangeFacts ==
  ASSUME NEW q, Good(q), NEW start \in Nat \ {0}, NEW end \in Nat, end <= Length(q) + 1,
         NEW r \in ShuffleRange(q, start, end)
  PROVE  Good(r) /\ Length(r) = Length(q) /\ r.order = q.order /\ r.random = q.random
<1>. DEFINE D == start .. end - 1
<1>1. PICK f \in Arrangements(D) : r = Rearranged(q, f)
  BY DEF ShuffleRange
<1>2. f \in [D -> D] /\ \A a, b \in D : f[a] = f[b] => a = b
  BY <1>1 DEF Arrangements
<1>3. D \in SUBSET Positions(q)
  BY QueueFacts DEF Positions
<1>. HIDE DEF D
<1>. QED
  BY <1>1, <1>2, <1>3, RearrangedFacts

\* RestoreOrder()
LEMMA RestoreOrderFacts ==
  ASSUME NEW q, Good(q)
  PROVE  Good(RestoreOrder(q)) /\ Length(RestoreOrder(q)) = Length(q)
<1>. DEFINE f == [o \in Positions(q) |-> o]
<1>1. DOMAIN q.order = Positions(q)
  BY QueueFacts
<1>2. RestoreOrder(q) = [q EXCEPT !.order = f]
  BY <1>1 DEF RestoreOrder
<1>3. f \in [Positions(q) -> Positions(q)] /\ \A a, b \in Positions(q) : f[a] = f[b] => a = b
  OBVIOUS
<1>. HIDE DEF f
<1>. QED
  BY <1>2, <1>3, SameItems

\* ShuffleOrder()
LEMMA ShuffleOrderFacts ==
  ASSUME NEW q, Good(q), NEW r \in ShuffleOrder(q)
  PROVE  /\ Good(r) /\ Length(r) = Length(q) /\ Positions(r) = Positions(q)
         /\ r.random = q.random /\ r.items = q.items
<1>1. PICK f \in Arrangements(Positions(q)) : r = [q EXCEPT !.order = f]
  BY DEF ShuffleOrder
<1>2. /\ f \in [Positions(q) -> Positions(q)]
      /\ \A a, b \in Positions(q) : f[a] = f[b] => a = b
  BY DEF Arrangements
<1>3. r.random = q.random /\ r.items = q.items
  BY <1>1 DEF Good, Queues
<1>. QED
  BY <1>1, <1>2, <1>3, SameItems

\* ShuffleOrderLastWithPriority()
LEMMA ShuffleLastFacts ==
  ASSUME NEW q, Good(q), NEW start \in 1..Length(q),
         NEW r \in ShuffleOrderLastWithPriority(q, start)
  PROVE  Good(r) /\ Length(r) = Length(q)
<1>. DEFINE last == Length(q)
            same == {o \in start .. last : Priority(q, o) = Priority(q, last)}
            first == CHOOSE o \in same : \A x \in same : o <= x
<1>1. Length(q) \in Nat
  BY QueueFacts
<1>2. PICK o \in first .. last : r = SwapOrders(q, last, o)
  BY DEF ShuffleOrderLastWithPriority
<1>3. first \in same
  <2>1. last \in same /\ same \in SUBSET Nat
    BY <1>1
  <2>. HIDE DEF same
  <2>2. \E x \in same : \A y \in same : x <= y
    BY <2>1, LeastNatural
  <2>. QED
    BY <2>2
<1>4. first \in 1..Length(q)
  BY <1>1, <1>3
<1>. HIDE DEF first
<1>5. o \in Positions(q) /\ last \in Positions(q)
  BY <1>1, <1>2, <1>4 DEF Positions
<1>. QED
  BY <1>2, <1>5, SwapOrdersFacts

----------------------------------------------------------------------------
(***************************************************************************)
(* Songs come and go.                                                      *)
(***************************************************************************)

\* How many numbers there are.
LEMMA CountFacts ==
  ASSUME NEW n \in Nat
  PROVE  IsFiniteSet(1..n) /\ Cardinality(1..n) = n
<1>1. IsFiniteSet(1..n) /\ Cardinality(1..n) = IF 1 > n THEN 0 ELSE n - 1 + 1
  BY FS_Interval
<1>. QED
  BY <1>1

\* There is always an id for another song (IdTable::GenerateId()).
LEMMA GenerateIdFacts ==
  ASSUME NEW q, Good(q), Length(q) < MaxLength
  PROVE  GenerateId(q) \in Ids /\ q.table[GenerateId(q)] = 0
<1>. DEFINE unused == {i \in Ids : q.table[i] = 0}
            ahead == {i \in unused : i >= q.next}
            from == IF ahead = {} THEN unused ELSE ahead
<1>1. /\ Length(q) \in Nat /\ q.table \in [Ids -> 0..MaxLength]
      /\ MaxLength \in Nat /\ IdSize \in Nat /\ IdSize > MaxLength
  BY QueueFacts, Sizes
<1>2. unused # {}
  <2>. SUFFICES ASSUME \A i \in Ids : q.table[i] # 0 PROVE FALSE
    BY <1>1
  <2>1. \A i \in Ids : q.table[i] \in Positions(q) /\ q.items[q.table[i]].id = i
    BY DEF Good, TableOK
  <2>2. q.table \in [Ids -> Positions(q)]
    BY <1>1, <2>1
  <2>3. q.table \in Injection(Ids, Positions(q))
    BY <2>1, <2>2 DEF Injection, IsInjective
  <2>4. IsFiniteSet(Positions(q)) /\ Cardinality(Positions(q)) = Length(q)
    BY <1>1, CountFacts DEF Positions
  <2>5. Cardinality(Ids) = IdSize - 1
    BY <1>1, IdSize - 1 \in Nat, CountFacts DEF Ids
  <2>6. Cardinality(Ids) <= Cardinality(Positions(q))
    BY <2>3, <2>4, FS_Injection
  <2>. QED
    BY <1>1, <2>4, <2>5, <2>6
<1>3. from # {} /\ from \in SUBSET Nat /\ from \subseteq unused
  BY <1>1, <1>2 DEF Ids
<1>4. GenerateId(q) = CHOOSE i \in from : \A j \in from : i <= j
  BY DEF GenerateId
<1>5. GenerateId(q) \in from
  <2>. HIDE DEF from
  <2>1. \E i \in from : \A j \in from : i <= j
    BY <1>3, LeastNatural
  <2>. QED
    BY <1>4, <2>1
<1>. QED
  BY <1>3, <1>5

\* Queue::Append()
LEMMA AppendItemFacts ==
  ASSUME NEW q, Good(q), Length(q) < MaxLength,
         NEW song \in Songs, NEW priority \in Bytes, NEW tag \in BOOLEAN
  PROVE  /\ Good(AppendItem(q, song, priority, tag))
         /\ Length(AppendItem(q, song, priority, tag)) = Length(q) + 1
         /\ AppendItem(q, song, priority, tag).random = q.random
<1>. DEFINE id == GenerateId(q)
            p == Length(q) + 1
            item == [id |-> id, song |-> song, version |-> q.version,
                     priority |-> priority, tag |-> tag]
            items == Append(q.items, item)
            order == Append(q.order, p)
            table == [q.table EXCEPT ![id] = p]
            next == IF id + 1 = IdSize THEN 1 ELSE id + 1
            r == AppendItem(q, song, priority, tag)
<1>1. /\ q \in Queues /\ Length(q) \in Nat /\ q.items \in Seq(Items) /\ q.order \in Seq(Nat)
      /\ q.table \in [Ids -> 0..MaxLength] /\ q.version \in 0..(MaxVersion - 1)
      /\ MaxLength \in Nat /\ IdSize \in Nat /\ IdSize > MaxLength /\ MaxLength > 0
      /\ \A x \in Positions(q) : q.items[x].id \in Ids
      /\ q.order \in [Positions(q) -> Positions(q)]
  BY QueueFacts, Sizes DEF Queues
<1>2. id \in Ids /\ q.table[id] = 0
  BY GenerateIdFacts
<1>3. r = [q EXCEPT !.items = items, !.order = order, !.table = table, !.next = next]
  BY DEF AppendItem
<1>. HIDE DEF id
<1>4. item \in Items /\ item.id = id
  BY <1>1, <1>2 DEF Items
<1>5. table \in [Ids -> 0..MaxLength] /\ table[id] = p
      /\ \A i \in Ids : i # id => table[i] = q.table[i]
  BY <1>1, <1>2
<1>6. next \in Ids
  BY <1>1, <1>2 DEF Ids
<1>7. Len(q.items) = Length(q) /\ Len(q.order) = Length(q)
  BY GoodIsConsistent DEF Consistent, Length
<1>. HIDE DEF item
<1>8. /\ items \in Seq(Items) /\ Len(items) = Length(q) + 1
      /\ \A x \in 1..Length(q) : items[x] = q.items[x]
      /\ items[p] = item
  BY <1>1, <1>4, <1>7, AppendFacts
<1>9. /\ order \in Seq(Nat) /\ Len(order) = Length(q) + 1
      /\ \A x \in 1..Length(q) : order[x] = q.order[x]
      /\ order[p] = p
  BY <1>1, <1>7, AppendFacts
<1>10. DOMAIN order = 1..(Length(q) + 1)
  BY <1>9, LenProperties
<1>. HIDE DEF items, order, table, next, r
<1>11. r \in Queues
  BY <1>1, <1>3, <1>5, <1>6, <1>8, <1>9 DEF Queues
<1>12. r.items = items /\ r.order = order /\ r.table = table /\ r.random = q.random
  BY <1>1, <1>3 DEF Queues
<1>13. /\ Length(r) = Length(q) + 1 /\ Positions(r) = 1..(Length(q) + 1)
       /\ Positions(q) = 1..Length(q)
  BY <1>8, <1>12 DEF Length, Positions
<1>14. OrderOK(r)
  <2>1. ASSUME NEW x \in 1..(Length(q) + 1)
        PROVE  order[x] \in 1..(Length(q) + 1) /\ (x # p => order[x] \in 1..Length(q))
    <3>1. CASE x = p
      BY <1>1, <1>9, <3>1
    <3>2. CASE x # p
      <4>1. x \in 1..Length(q)
        BY <1>1, <3>2
      <4>2. order[x] = q.order[x] /\ q.order[x] \in 1..Length(q)
        BY <1>1, <1>9, <1>13, <4>1
      <4>. QED
        BY <1>1, <4>2
    <3>. QED
      BY <3>1, <3>2
  <2>2. order = [x \in 1..(Length(q) + 1) |-> order[x]]
    BY <1>9, <1>10
  <2>3. order \in [1..(Length(q) + 1) -> 1..(Length(q) + 1)]
    BY <2>1, <2>2
  <2>4. ASSUME NEW x \in 1..(Length(q) + 1), NEW y \in 1..(Length(q) + 1), order[x] = order[y]
        PROVE  x = y
    <3>1. CASE x # p /\ y # p
      <4>1. x \in 1..Length(q) /\ y \in 1..Length(q)
        BY <1>1, <3>1
      <4>2. q.order[x] = q.order[y]
        BY <1>9, <2>4, <4>1
      <4>. QED
        BY <1>13, <4>1, <4>2 DEF Good, OrderOK
    <3>2. CASE x = p \/ y = p
      BY <1>1, <1>9, <2>1, <2>4, <3>2
    <3>. QED
      BY <3>1, <3>2
  <2>. QED
    BY <1>12, <1>13, <2>3, <2>4 DEF OrderOK
<1>15. ASSUME NEW x \in 1..(Length(q) + 1) PROVE table[items[x].id] = x
  <2>1. CASE x = p
    BY <1>4, <1>5, <1>8, <2>1
  <2>2. CASE x # p
    <3>1. x \in 1..Length(q) /\ x # 0
      BY <1>1, <2>2
    <3>2. q.table[q.items[x].id] = x
      BY <1>13, <3>1 DEF Good, TableOK
    <3>3. q.items[x].id \in Ids /\ q.items[x].id # id
      BY <1>1, <1>2, <1>13, <3>1, <3>2
    <3>. QED
      BY <1>5, <1>8, <3>1, <3>2, <3>3
  <2>. QED
    BY <2>1, <2>2
<1>16. ASSUME NEW i \in Ids, table[i] # 0
       PROVE  table[i] \in 1..(Length(q) + 1) /\ items[table[i]].id = i
  <2>1. CASE i = id
    BY <1>1, <1>4, <1>5, <1>8, <2>1
  <2>2. CASE i # id
    <3>1. table[i] = q.table[i]
      BY <1>5, <2>2
    <3>2. q.table[i] \in 1..Length(q) /\ q.items[q.table[i]].id = i
      BY <1>13, <1>16, <3>1 DEF Good, TableOK
    <3>. QED
      BY <1>1, <1>8, <3>1, <3>2
  <2>. QED
    BY <2>1, <2>2
<1>17. TableOK(r)
  BY <1>12, <1>13, <1>15, <1>16 DEF TableOK
<1>18. Good(r)
  BY <1>1, <1>11, <1>13, <1>14, <1>17 DEF Good
<1>. QED
  BY <1>12, <1>13, <1>18 DEF r

\* Queue::Clear()
LEMMA ClearFacts ==
  ASSUME NEW q, Good(q)
  PROVE  Good(Clear(q)) /\ Length(Clear(q)) = 0
<1>. DEFINE table == [i \in Ids |-> IF \E p \in Positions(q) : q.items[p].id = i THEN 0
                                    ELSE q.table[i]]
            r == Clear(q)
<1>1. q \in Queues /\ q.table \in [Ids -> 0..MaxLength] /\ MaxLength \in Nat
  BY QueueFacts, Sizes
<1>2. ASSUME NEW i \in Ids PROVE table[i] = 0
  BY DEF Good, TableOK
<1>3. r = [q EXCEPT !.items = <<>>, !.order = <<>>, !.table = table]
  BY <1>1 DEF Clear, Queues
<1>4. table \in [Ids -> 0..MaxLength]
  BY <1>1, <1>2
<1>5. <<>> \in Seq(Items) /\ <<>> \in Seq(Nat)
  OBVIOUS
<1>. HIDE DEF table, r
<1>6. r \in Queues
  BY <1>1, <1>3, <1>4, <1>5 DEF Queues
<1>7. r.items = <<>> /\ r.order = <<>> /\ r.table = table
  BY <1>1, <1>3 DEF Queues
<1>8. Length(r) = 0 /\ Positions(r) = {}
  BY <1>7 DEF Length, Positions
<1>9. OrderOK(r)
  BY <1>7, <1>8 DEF OrderOK
<1>10. TableOK(r)
  BY <1>2, <1>7, <1>8 DEF TableOK
<1>. QED
  BY <1>1, <1>6, <1>8, <1>9, <1>10 DEF Good, r

\* Queue::DeletePosition()
LEMMA DeletePositionFacts ==
  ASSUME NEW q, Good(q), NEW p \in Positions(q)
  PROVE  /\ Good(DeletePosition(q, p))
         /\ Length(DeletePosition(q, p)) = Length(q) - 1
         /\ DeletePosition(q, p).random = q.random
<1>. DEFINE o == PositionToOrder(q, p)
            n == Length(q) - 1
            after == p + 1 .. n + 1
            gone == q.items[p].id
            Later(i) == \E x \in after : q.items[x].id = i
            items == [i \in 1 .. n |-> IF i < p THEN q.items[i] ELSE Moved(q.items[i + 1], q.version)]
            table == [i \in Ids |-> IF i = gone THEN 0
                                    ELSE IF Later(i)
                                    THEN (CHOOSE x \in after : q.items[x].id = i) - 1
                                    ELSE q.table[i]]
            order == [i \in 1 .. n |-> Without(q.order[IF i < o THEN i ELSE i + 1], p)]
            r == DeletePosition(q, p)
<1>1. /\ q \in Queues /\ Length(q) \in Nat /\ q.items \in [Positions(q) -> Items]
      /\ q.order \in [Positions(q) -> Positions(q)]
      /\ q.table \in [Ids -> 0..MaxLength] /\ q.version \in 0..(MaxVersion - 1)
      /\ MaxLength \in Nat /\ Length(q) <= MaxLength
      /\ \A x \in Positions(q) : q.items[x] \in Items /\ q.items[x].id \in Ids
      /\ Positions(q) = 1..Length(q) /\ p \in 1..Length(q)
  <2>1. Positions(q) = 1..Length(q) /\ MaxLength \in Nat
    BY Sizes DEF Positions
  <2>2. q.version \in 0..(MaxVersion - 1)
    BY QueueFacts, Sizes DEF Queues
  <2>. QED
    BY <2>1, <2>2, QueueFacts
<1>2. o \in 1..Length(q) /\ q.order[o] = p
      /\ \A x \in 1..Length(q) : x # o => q.order[x] # p
  BY <1>1, PositionFacts
<1>3. r = [q EXCEPT !.items = items, !.table = table, !.order = order]
  BY DEF DeletePosition
<1>4. n \in Nat /\ n + 1 = Length(q) /\ \A x \in after : x \in 1..Length(q) /\ x # p
  BY <1>1
<1>. HIDE DEF o
<1>5. ASSUME NEW i \in 1..n
      PROVE  LET x == IF i < p THEN i ELSE i + 1 IN
             x \in 1..Length(q) /\ x # p /\ items[i] \in Items /\ items[i].id = q.items[x].id
  <2>1. CASE i < p
    <3>1. i \in 1..Length(q) /\ items[i] = q.items[i]
      BY <1>4, <2>1
    <3>. HIDE DEF items
    <3>. QED
      BY <1>1, <2>1, <3>1
  <2>2. CASE ~(i < p)
    <3>1. i + 1 \in 1..Length(q) /\ items[i] = Moved(q.items[i + 1], q.version) /\ i + 1 # p
      BY <1>1, <1>4, <2>2
    <3>2. q.items[i + 1] \in Items
      BY <1>1, <3>1
    <3>. HIDE DEF items
    <3>3. items[i] \in Items /\ items[i].id = q.items[i + 1].id
      BY <1>1, <3>1, <3>2 DEF Moved, Items
    <3>. QED
      BY <2>2, <3>1, <3>3
  <2>. QED
    BY <2>1, <2>2
<1>6. ASSUME NEW x \in after PROVE table[q.items[x].id] = x - 1
  <2>. DEFINE i == q.items[x].id
              c == CHOOSE y \in after : q.items[y].id = i
  <2>1. i \in Ids /\ i # gone
    BY <1>1, <1>4, IdsDiffer
  <2>2. c \in after /\ q.items[c].id = i
    OBVIOUS
  <2>3. table[i] = c - 1
    BY <2>1
  <2>. HIDE DEF c
  <2>4. c = x
    BY <1>1, <1>4, <2>2, IdsDiffer
  <2>. QED
    BY <2>3, <2>4
<1>7. ASSUME NEW i \in Ids
      PROVE  \/ i = gone /\ table[i] = 0
             \/ \E x \in after : q.items[x].id = i
             \/ i # gone /\ ~Later(i) /\ table[i] = q.table[i]
  OBVIOUS
<1>8. ASSUME NEW i \in Ids PROVE table[i] \in 0..MaxLength
  <2>1. CASE \E x \in after : q.items[x].id = i
    <3>1. PICK x \in after : q.items[x].id = i
      BY <2>1
    <3>2. table[i] = x - 1
      BY <1>6, <3>1
    <3>. HIDE DEF table
    <3>. QED
      BY <1>1, <1>4, <3>2
  <2>2. CASE ~(\E x \in after : q.items[x].id = i)
    <3>. HIDE DEF table, after
    <3>. QED
      BY <1>1, <1>7, <2>2
  <2>. QED
    BY <2>1, <2>2
<1>9. table = [i \in Ids |-> table[i]] /\ items = [i \in 1..n |-> items[i]]
  OBVIOUS
<1>. DEFINE y(i) == IF i < o THEN i ELSE i + 1
<1>10. ASSUME NEW i \in 1..n
       PROVE  /\ y(i) \in 1..Length(q) /\ y(i) # o
              /\ q.order[y(i)] \in 1..Length(q) /\ q.order[y(i)] # p
              /\ order[i] = Without(q.order[y(i)], p)
  <2>1. y(i) \in 1..Length(q) /\ y(i) # o
    BY <1>2, <1>4
  <2>2. order[i] = Without(q.order[y(i)], p)
    OBVIOUS
  <2>. HIDE DEF y
  <2>. QED
    BY <1>1, <1>2, <2>1, <2>2
<1>11. \A i, j \in 1..n : y(i) = y(j) => i = j
  BY <1>2, <1>4
<1>12. /\ \A a \in 1..Length(q) : a # p => Without(a, p) \in 1..n
       /\ \A a, b \in 1..Length(q) : a # p /\ b # p /\ Without(a, p) = Without(b, p) => a = b
  BY <1>1, <1>4 DEF Without
<1>13. order = [i \in 1..n |-> order[i]]
  OBVIOUS
<1>. HIDE DEF items, table, order, y, r
<1>14. order \in [1..n -> 1..n]
  BY <1>10, <1>12, <1>13
<1>15. ASSUME NEW i \in 1..n, NEW j \in 1..n, order[i] = order[j] PROVE i = j
  <2>1. q.order[y(i)] = q.order[y(j)]
    BY <1>10, <1>12, <1>15
  <2>2. y(i) = y(j)
    BY <1>1, <1>10, <2>1 DEF Good, OrderOK
  <2>. QED
    BY <1>11, <2>2
<1>16. table \in [Ids -> 0..MaxLength]
  BY <1>8, <1>9
<1>17. items \in [1..n -> Items]
  BY <1>5, <1>9
<1>18. items \in Seq(Items) /\ Len(items) = n
  BY <1>4, <1>17, ListOf
<1>19. order \in Seq(Nat)
  BY <1>4, <1>14
<1>20. r \in Queues
  BY <1>1, <1>3, <1>16, <1>18, <1>19 DEF Queues
<1>21. r.items = items /\ r.order = order /\ r.table = table /\ r.random = q.random
  BY <1>1, <1>3 DEF Queues
<1>22. Length(r) = n /\ Positions(r) = 1..n
  BY <1>18, <1>21 DEF Length, Positions
<1>23. OrderOK(r)
  BY <1>14, <1>15, <1>21, <1>22 DEF OrderOK
<1>24. ASSUME NEW i \in 1..n PROVE table[items[i].id] = i
  <2>1. CASE i < p
    <3>. DEFINE d == q.items[i].id
    <3>1. items[i].id = d /\ d \in Ids /\ i \in 1..Length(q) /\ i # p
      BY <1>1, <1>5, <2>1
    <3>2. d # gone
      BY <1>1, <3>1, IdsDiffer
    <3>3. \A x \in after : q.items[x].id # d
      <4>. SUFFICES ASSUME NEW x \in after, q.items[x].id = d PROVE FALSE
        OBVIOUS
      <4>1. x = i
        BY <1>1, <1>4, <3>1, IdsDiffer
      <4>. QED
        BY <1>1, <2>1, <4>1
    <3>4. q.table[d] = i
      BY <1>1, <3>1 DEF Good, TableOK
    <3>. HIDE DEF d, gone, after
    <3>. QED
      BY <1>7, <3>1, <3>2, <3>3, <3>4
  <2>2. CASE ~(i < p)
    <3>1. i + 1 \in after /\ i + 1 - 1 = i
      BY <1>1, <1>4, <2>2
    <3>2. items[i].id = q.items[i + 1].id
      BY <1>5, <2>2
    <3>. QED
      BY <1>6, <3>1, <3>2
  <2>. QED
    BY <2>1, <2>2
<1>25. ASSUME NEW i \in Ids, table[i] # 0
       PROVE  table[i] \in 1..n /\ items[table[i]].id = i
  <2>1. CASE \E x \in after : q.items[x].id = i
    <3>1. PICK x \in after : q.items[x].id = i
      BY <2>1
    <3>2. table[i] = x - 1
      BY <1>6, <3>1
    <3>3. x - 1 \in 1..n /\ ~(x - 1 < p) /\ (x - 1) + 1 = x
      BY <1>1, <1>4
    <3>4. items[x - 1].id = q.items[x].id
      BY <1>5, <3>3
    <3>. QED
      BY <3>1, <3>2, <3>3, <3>4
  <2>2. CASE ~(\E x \in after : q.items[x].id = i)
    <3>1. i # gone /\ table[i] = q.table[i]
      BY <1>7, <1>25, <2>2
    <3>. DEFINE x == q.table[i]
    <3>2. x \in 1..Length(q) /\ q.items[x].id = i
      BY <1>1, <1>25, <3>1 DEF Good, TableOK
    <3>. HIDE DEF x
    <3>3. x # p /\ x \notin after
      BY <2>2, <3>1, <3>2
    <3>4. x \in 1..n /\ x < p
      BY <1>1, <1>4, <3>2, <3>3
    <3>5. items[x].id = q.items[x].id
      BY <1>5, <3>4
    <3>. QED
      BY <3>1, <3>2, <3>4, <3>5 DEF x
  <2>. QED
    BY <2>1, <2>2
<1>26. TableOK(r)
  BY <1>21, <1>22, <1>24, <1>25 DEF TableOK
<1>27. Good(r)
  BY <1>1, <1>4, <1>20, <1>22, <1>23, <1>26 DEF Good
<1>. QED
  BY <1>21, <1>22, <1>27 DEF r

\* Empty queues
LEMMA EmptyFacts ==
  ASSUME NEW version \in 1..(MaxVersion - 1), NEW next \in Ids
  PROVE  Good(Empty(version, next)) /\ Length(Empty(version, next)) = 0
<1>. DEFINE q == Empty(version, next)
            table == [i \in Ids |-> 0]
<1>1. /\ q.items = <<>> /\ q.order = <<>> /\ q.table = table
  BY DEF Empty
<1>2. table \in [Ids -> 0..MaxLength] /\ <<>> \in Seq(Items) /\ <<>> \in Seq(Nat)
  BY Sizes
<1>3. q \in Queues
  BY <1>2 DEF Empty, Queues, Modes
<1>4. \A i \in Ids : table[i] = 0
  OBVIOUS
<1>. HIDE DEF q, table
<1>5. Length(q) = 0 /\ Positions(q) = {}
  BY <1>1 DEF Length, Positions
<1>6. OrderOK(q) /\ TableOK(q)
  BY <1>1, <1>4, <1>5 DEF OrderOK, TableOK
<1>. QED
  BY <1>3, <1>5, <1>6, Sizes DEF Good, q

\* playlist_state_load(): the songs of the state file are appended one by one.  T is
\* a set of queues that an append does not leave.
LEMMA LoadedLoop ==
  ASSUME NEW q, Good(q), Length(q) = 0, NEW items, NEW N \in 0..MaxLength, Len(items) = N,
         \A n \in 1..N : /\ items[n].song \in Songs /\ items[n].priority \in Bytes
                         /\ items[n].tag \in BOOLEAN,
         NEW T, q \in T,
         \A x \in T : \A n \in 1..N : Good(x) /\ Length(x) < MaxLength =>
            AppendItem(x, items[n].song, items[n].priority, items[n].tag) \in T
  PROVE  \E x \in T : Good(x) /\ Length(x) = N /\ Loaded(q, items) = IncrementVersion(x)
<1>. DEFINE Of(n) == {r \in Queues : Good(r) /\ Length(r) = n /\ r \in T}
            I == [n \in 0..N |-> Of(n)]
            F == [x \in (1..N) \X Queues |-> LoadSong(x[2], items[x[1]])]
            done == CHOOSE f : f = [n \in 0 .. N |-> IF n = 0 THEN q ELSE LoadSong(f[n - 1], items[n])]
<1>0. N \in Nat /\ N <= MaxLength /\ MaxLength \in Nat
  BY Sizes
<1>1. ASSUME NEW n \in 1..N, NEW x \in T, Good(x), Length(x) = n - 1
      PROVE  LoadSong(x, items[n]) \in Of(n)
  <2>1. Length(x) # MaxLength /\ Length(x) < MaxLength /\ n - 1 + 1 = n
    BY <1>0, <1>1
  <2>2. LoadSong(x, items[n]) = AppendItem(x, items[n].song, items[n].priority, items[n].tag)
    BY <2>1 DEF LoadSong
  <2>3. Good(LoadSong(x, items[n])) /\ Length(LoadSong(x, items[n])) = n
    BY <1>1, <2>1, <2>2, AppendItemFacts
  <2>4. LoadSong(x, items[n]) \in T
    BY <1>1, <2>1, <2>2
  <2>. QED
    BY <2>3, <2>4 DEF Good
<1>2. q \in I[0]
  BY <1>0 DEF Good
<1>3. ASSUME NEW n \in 0 + 1 .. N, NEW x \in I[n - 1] PROVE F[<<n, x>>] \in I[n]
  <2>1. n \in 1..N /\ n - 1 \in 0..N /\ n \in 0..N
    BY <1>0
  <2>2. x \in Queues /\ Good(x) /\ Length(x) = n - 1 /\ x \in T
    BY <1>3, <2>1
  <2>3. F[<<n, x>>] = LoadSong(x, items[n])
    BY <2>1, <2>2
  <2>4. I[n] = Of(n)
    BY <2>1
  <2>. HIDE DEF F, I, Of
  <2>. QED
    BY <1>1, <2>1, <2>2, <2>3, <2>4
<1>4. \A n \in 0..N : \A x \in I[n] : x \in Queues /\ Good(x) /\ Length(x) = n
  OBVIOUS
<1>5. \A n \in 1..N : \A x \in Queues : F[<<n, x>>] = LoadSong(x, items[n])
  OBVIOUS
<1>. HIDE DEF I, F
<1>6. PICK g : LoopUp(g, 0, N, q, F, I)
  <2>1. 0 \in Int /\ N \in Int /\ 0 <= N
    BY <1>0
  <2>2. \A n \in 0 + 1 .. N : \A x \in I[n - 1] : F[<<n, x>>] \in I[n]
    BY <1>3
  <2>. QED
    BY <1>2, <2>1, <2>2, RecursionUp, Zenon
<1>7. g = [n \in 0 .. N |-> IF n = 0 THEN q ELSE LoadSong(g[n - 1], items[n])]
  <2>1. /\ g = [n \in 0..N |-> IF n = 0 THEN q ELSE F[<<n, g[n - 1]>>]]
        /\ \A n \in 0..N : g[n] \in I[n]
    BY <1>6 DEF LoopUp
  <2>2. ASSUME NEW n \in 0..N, n # 0 PROVE F[<<n, g[n - 1]>>] = LoadSong(g[n - 1], items[n])
    <3>1. n \in 1..N /\ n - 1 \in 0..N
      BY <1>0, <2>2
    <3>. QED
      BY <1>4, <1>5, <2>1, <3>1
  <2>. QED
    BY <2>1, <2>2
<1>8. done = [n \in 0 .. N |-> IF n = 0 THEN q ELSE LoadSong(done[n - 1], items[n])]
  BY <1>7
<1>9. Loaded(q, items) = IncrementVersion(done[N])
  BY Zenon DEF Loaded
<1>. HIDE DEF done
<1>. DEFINE S == {k \in 0..N : Good(done[k]) /\ Length(done[k]) = k /\ done[k] \in T}
<1>10. \A n \in 0..N : n \in S
  <2>1. 0 \in S
    BY <1>0, <1>8
  <2>2. ASSUME NEW n \in 0..(N - 1), n \in S PROVE n + 1 \in S
    <3>1. n + 1 \in 1..N /\ n + 1 \in 0..N /\ (n + 1) - 1 = n /\ n + 1 # 0
      BY <1>0
    <3>2. Good(done[n]) /\ Length(done[n]) = n /\ done[n] \in T
      BY <2>2
    <3>3. done[n + 1] = LoadSong(done[n], items[n + 1])
      BY <1>8, <3>1
    <3>4. done[n + 1] \in Of(n + 1)
      <4>. HIDE DEF Of
      <4>. QED
        BY <1>1, <3>1, <3>2, <3>3
    <3>. QED
      BY <3>1, <3>4
  <2>. HIDE DEF S
  <2>3. \A n \in 0..(N - 1) : n \in S => n + 1 \in S
    BY <2>2
  <2>4. 0 \in Int /\ N \in Int
    BY <1>0
  <2>. QED
    BY <2>1, <2>3, <2>4, UpTo, Zenon
<1>11. Good(done[N]) /\ Length(done[N]) = N /\ done[N] \in T
  BY <1>0, <1>10
<1>. QED
  BY <1>9, <1>11

\* Every song of the state file gets its place.
LEMMA LoadedFacts ==
  ASSUME NEW q, Good(q), Length(q) = 0, NEW items, NEW N \in 0..MaxLength, Len(items) = N,
         \A n \in 1..N : /\ items[n].song \in Songs /\ items[n].priority \in Bytes
                         /\ items[n].tag \in BOOLEAN
  PROVE  Good(Loaded(q, items)) /\ Length(Loaded(q, items)) = N
<1>1. \A x \in Queues : \A n \in 1..N : Good(x) /\ Length(x) < MaxLength =>
         AppendItem(x, items[n].song, items[n].priority, items[n].tag) \in Queues
  BY AppendItemFacts DEF Good
<1>2. q \in Queues
  BY DEF Good
<1>3. PICK x \in Queues : Good(x) /\ Length(x) = N /\ Loaded(q, items) = IncrementVersion(x)
  BY <1>1, <1>2, LoadedLoop
<1>. QED
  BY <1>3, IncrementVersionFacts

----------------------------------------------------------------------------
(***************************************************************************)
(* Priorities.                                                             *)
(***************************************************************************)

\* The first of a set of order numbers, or the end.
LEMMA FirstFacts ==
  ASSUME NEW n \in Nat, NEW S \in SUBSET (1..n)
  PROVE  /\ (IF S = {} THEN n + 1 ELSE CHOOSE i \in S : \A j \in S : i <= j) \in 1..(n + 1)
         /\ S # {} => (CHOOSE i \in S : \A j \in S : i <= j) \in S
<1>1. CASE S = {}
  BY <1>1
<1>2. CASE S # {}
  <2>1. \E i \in S : \A j \in S : i <= j
    BY <1>2, S \in SUBSET Nat, LeastNatural
  <2>. DEFINE c == CHOOSE i \in S : \A j \in S : i <= j
  <2>2. c \in S
    BY <2>1
  <2>. HIDE DEF c
  <2>3. c \in 1..(n + 1)
    BY <2>2
  <2>. QED
    BY <1>2, <2>2, <2>3 DEF c
<1>. QED
  BY <1>1, <1>2

\* Queue::SetPriority()
LEMMA SetPriorityFacts ==
  ASSUME NEW q, Good(q), NEW p \in Positions(q), NEW priority \in Bytes,
         NEW after \in 0..Length(q), NEW s \in SetPriority(q, p, priority, after)
  PROVE  Good(s) /\ Length(s) = Length(q)
<1>. DEFINE r == ChangePriority(q, p, priority)
            o == PositionToOrder(q, p)
            lower == {i \in after + 1 .. Length(q) : Priority(r, i) <= priority /\ i # o}
            before == IF lower = {} THEN Length(q) + 1 ELSE CHOOSE i \in lower : \A j \in lower : i <= j
            new == BeforeOrder(o, before)
            moved == MoveOrder(r, o, new)
            others == {i \in new .. Length(q) : Priority(moved, i) # priority}
            end == IF others = {} THEN Length(q) + 1 ELSE CHOOSE i \in others : \A j \in others : i <= j
<1>1. Length(q) \in Nat /\ Positions(q) = 1..Length(q)
  BY QueueFacts DEF Positions
<1>2. Good(r) /\ Length(r) = Length(q) /\ Positions(r) = 1..Length(q)
  BY ChangePriorityFacts DEF Positions
<1>3. o \in 1..Length(q)
  BY <1>1, PositionFacts
<1>4. s = q \/ s = r \/ \E i \in new .. end - 1 : s = SwapOrders(moved, new, i)
  <2>. HIDE DEF r, new, moved, end
  <2>. QED
    BY DEF SetPriority, r, o, lower, before, new, moved, others, end
<1>5. before \in 1..(Length(q) + 1)
  <2>1. lower \in SUBSET (1..Length(q))
    BY <1>1
  <2>. HIDE DEF lower
  <2>. QED
    BY <1>1, <2>1, FirstFacts
<1>. HIDE DEF r, o, before
<1>6. new \in 1..Length(q)
  BY <1>1, <1>3, <1>5 DEF BeforeOrder
<1>. HIDE DEF new
<1>7. Good(moved) /\ Length(moved) = Length(q) /\ Positions(moved) = 1..Length(q)
  BY <1>2, <1>3, <1>6, MoveOrderFacts DEF Positions
<1>. HIDE DEF moved
<1>8. end \in 1..(Length(q) + 1)
  <2>1. others \in SUBSET (1..Length(q))
    BY <1>1, <1>6
  <2>. HIDE DEF others
  <2>. QED
    BY <1>1, <2>1, FirstFacts
<1>. HIDE DEF end
<1>9. ASSUME NEW i \in new .. end - 1
      PROVE  Good(SwapOrders(moved, new, i)) /\ Length(SwapOrders(moved, new, i)) = Length(q)
  <2>1. i \in 1..Length(q)
    BY <1>1, <1>6, <1>8
  <2>. QED
    BY <1>6, <1>7, <2>1, SwapOrdersFacts
<1>. QED
  BY <1>2, <1>4, <1>9

\* Queue::SetPriorityRange(): one song after another.  T is a set of queues that
\* SetPriority() does not leave.
LEMMA PriorityLoop ==
  ASSUME NEW q, Good(q), NEW start \in Positions(q),
         NEW end \in start + 1 .. Length(q) + 1, NEW priority \in Bytes,
         NEW after \in 0..Length(q),
         NEW s \in SetPriorityRange(q, start, end, priority, after),
         NEW T, q \in T,
         \A r \in T : \A p \in Positions(q) : \A x \in 0..Length(q) :
            Good(r) /\ Length(r) = Length(q) => \A t \in SetPriority(r, p, priority, x) : t \in T
  PROVE  s \in T /\ Good(s) /\ Length(s) = Length(q)
<1>. DEFINE position == IF after = 0 THEN 0 ELSE OrderToPosition(q, after)
            After(r) == IF position = 0 THEN 0 ELSE PositionToOrder(r, position)
            Of == {r \in Queues : Good(r) /\ Length(r) = Length(q) /\ r \in T}
            Turn(p, X) == UNION {SetPriority(r, p, priority, After(r)) : r \in X}
            a == start - 1
            b == end - 1
            I == [p \in a..b |-> SUBSET Of]
            F == [y \in (a..b) \X SUBSET Of |-> Turn(y[1], y[2])]
            done == CHOOSE f : f = [p \in start - 1 .. end - 1 |->
                        IF p = start - 1 THEN {q}
                        ELSE UNION {SetPriority(r, p, priority, After(r)) : r \in f[p - 1]}]
<1>0. /\ Length(q) \in Nat /\ Positions(q) = 1..Length(q)
      /\ a \in Int /\ b \in Int /\ a <= b /\ \A p \in a + 1 .. b : p \in 1..Length(q)
  BY QueueFacts DEF Positions
<1>1. ASSUME NEW r \in Of PROVE After(r) \in 0..Length(r) /\ Positions(r) = Positions(q) /\ Good(r)
  <2>1. Good(r) /\ Length(r) = Length(q) /\ Positions(r) = Positions(q)
    BY DEF Positions
  <2>2. CASE after = 0
    BY <1>0, <2>1, <2>2
  <2>3. CASE after # 0
    <3>1. after \in Positions(q)
      BY <1>0, <2>3
    <3>2. position \in Positions(q)
      BY <2>3, <3>1, QueueFacts DEF OrderToPosition
    <3>. HIDE DEF position
    <3>3. position \in Positions(r) /\ position # 0
      BY <1>0, <2>1, <3>2
    <3>4. PositionToOrder(r, position) \in Positions(r)
      BY <2>1, <3>3, PositionFacts
    <3>. QED
      BY <1>0, <2>1, <3>3, <3>4
  <2>. QED
    BY <2>2, <2>3
<1>. HIDE DEF After
<1>2. ASSUME NEW p \in a + 1 .. b, NEW X \in SUBSET Of PROVE Turn(p, X) \in SUBSET Of
  <2>. SUFFICES ASSUME NEW r \in X, NEW t \in SetPriority(r, p, priority, After(r))
                PROVE  t \in Of
    OBVIOUS
  <2>1. /\ Good(r) /\ Length(r) = Length(q) /\ After(r) \in 0..Length(r) /\ p \in Positions(r)
        /\ r \in T /\ p \in Positions(q)
    BY <1>0, <1>1
  <2>2. Good(t) /\ Length(t) = Length(r)
    BY <2>1, SetPriorityFacts
  <2>3. t \in T
    BY <2>1
  <2>. QED
    BY <2>1, <2>2, <2>3 DEF Good
<1>3. {q} \in SUBSET Of
  BY DEF Good
<1>. HIDE DEF Of
<1>4. \A p \in a..b : I[p] = SUBSET Of
  OBVIOUS
<1>5. \A p \in a..b : \A X \in SUBSET Of : F[<<p, X>>] = Turn(p, X)
  OBVIOUS
<1>6. \A p \in a + 1 .. b : p \in a..b /\ p - 1 \in a..b
  BY <1>0
<1>. HIDE DEF I, F
<1>7. \A p \in a + 1 .. b : \A X \in I[p - 1] : F[<<p, X>>] \in I[p]
  <2>. SUFFICES ASSUME NEW p \in a + 1 .. b, NEW X \in I[p - 1] PROVE F[<<p, X>>] \in I[p]
    OBVIOUS
  <2>1. X \in SUBSET Of
    BY <1>4, <1>6
  <2>2. Turn(p, X) \in SUBSET Of
    BY <1>2, <2>1
  <2>. HIDE DEF Turn
  <2>. QED
    BY <1>4, <1>5, <1>6, <2>1, <2>2
<1>8. {q} \in I[a]
  BY <1>0, <1>3, <1>4
<1>. HIDE DEF a, b
<1>9. PICK g : LoopUp(g, a, b, {q}, F, I)
  BY <1>0, <1>7, <1>8, RecursionUp, Zenon
<1>10. g = [p \in a..b |-> IF p = a THEN {q} ELSE Turn(p, g[p - 1])]
  <2>1. /\ g = [p \in a..b |-> IF p = a THEN {q} ELSE F[<<p, g[p - 1]>>]]
        /\ \A p \in a..b : g[p] \in I[p]
    BY <1>9 DEF LoopUp
  <2>2. ASSUME NEW p \in a..b, p # a PROVE F[<<p, g[p - 1]>>] = Turn(p, g[p - 1])
    <3>1. p - 1 \in a..b
      BY <1>0, <2>2
    <3>2. g[p - 1] \in SUBSET Of
      BY <1>4, <2>1, <3>1
    <3>. HIDE DEF Turn
    <3>. QED
      BY <1>5, <3>2
  <2>. HIDE DEF Turn
  <2>. QED
    BY <2>1, <2>2
<1>11. done = [p \in a..b |-> IF p = a THEN {q} ELSE Turn(p, done[p - 1])]
  BY <1>10, Zenon DEF a, b
<1>12. SetPriorityRange(q, start, end, priority, after) = done[b]
  BY Zenon DEF SetPriorityRange, After, b
<1>. HIDE DEF done, Turn
<1>. DEFINE S == {p \in a..b : done[p] \in SUBSET Of}
<1>13. \A p \in a..b : p \in S
  <2>1. a \in S
    BY <1>0, <1>3, <1>11
  <2>2. ASSUME NEW p \in a..(b - 1), p \in S PROVE p + 1 \in S
    <3>1. p + 1 \in a + 1 .. b /\ p + 1 \in a..b /\ (p + 1) - 1 = p /\ p + 1 # a
      BY <1>0
    <3>2. done[p + 1] = Turn(p + 1, done[p])
      BY <1>11, <3>1
    <3>. QED
      BY <1>2, <2>2, <3>1, <3>2
  <2>. HIDE DEF S
  <2>3. \A p \in a..(b - 1) : p \in S => p + 1 \in S
    BY <2>2
  <2>. QED
    BY <1>0, <2>1, <2>3, UpTo, Zenon
<1>14. s \in Of
  BY <1>0, <1>12, <1>13
<1>. QED
  BY <1>14 DEF Of

\* Queue::SetPriorityRange()
LEMMA SetPriorityRangeFacts ==
  ASSUME NEW q, Good(q), NEW start \in Positions(q),
         NEW end \in start + 1 .. Length(q) + 1, NEW priority \in Bytes,
         NEW after \in 0..Length(q),
         NEW s \in SetPriorityRange(q, start, end, priority, after)
  PROVE  Good(s) /\ Length(s) = Length(q)
<1>1. ASSUME NEW r \in Queues, NEW p \in Positions(q), NEW x \in 0..Length(q),
             Good(r), Length(r) = Length(q), NEW t \in SetPriority(r, p, priority, x)
      PROVE  t \in Queues
  BY <1>1, SetPriorityFacts DEF Good, Positions
<1>2. q \in Queues
  BY DEF Good
<1>3. \A r \in Queues : \A p \in Positions(q) : \A x \in 0..Length(q) :
         Good(r) /\ Length(r) = Length(q) => \A t \in SetPriority(r, p, priority, x) : t \in Queues
  BY <1>1
<1>. QED
  BY <1>2, <1>3, PriorityLoop

----------------------------------------------------------------------------
(***************************************************************************)
(* Worlds that are well formed.                                            *)
(***************************************************************************)

Players == [state : {"STOP", "PLAY", "PAUSE"}, song : Songs \cup {None}, next : Songs \cup {None},
            error : {"NONE", "DECODER", "OUTPUT"}, border : BOOLEAN, sync : BOOLEAN,
            bordered : BOOLEAN]

Lists == [playing : BOOLEAN, current : Nat, queued : Nat, stop_on_error : BOOLEAN,
          errors : Nat, fine : BOOLEAN, boot : Nat]

Worlds == [q : Queues, l : Lists, pc : Players, thrown : BOOLEAN, bulk : BOOLEAN]

\* The current song is one of the queue, and there is one while it is played.
Fits(q, l) == Good(q) /\ l.current \in 0..Length(q) /\ (l.playing => l.current # 0)

\* The queued song is one of the queue.  This is not so while songs are deleted.
Listed(q, l) == l.playing => l.queued \in 0..Length(q)

\* The player has stopped and the playlist will not be told.
Quiet(p) == p.state = "STOP" /\ ~p.sync

Half(w) == w \in Worlds /\ Fits(w.q, w.l) /\ ~(w.l.playing /\ Quiet(w.pc))
Whole(w) == Half(w) /\ Listed(w.q, w.l)

\* What PlayerControl's methods may do to a world: nothing but with the player,
\* which does not fall silent without telling.
Beside(w, v) ==
  /\ v \in Worlds /\ v.q = w.q /\ v.bulk = w.bulk
  /\ v.l.playing = w.l.playing /\ v.l.current = w.l.current /\ v.l.queued = w.l.queued
  /\ Quiet(v.pc) => Quiet(w.pc)

\* A world is made of a queue, a list and a player.
LEMMA Parts ==
  ASSUME NEW w \in Worlds
  PROVE  /\ w.q \in Queues /\ w.l \in Lists /\ w.pc \in Players
         /\ w.l.current \in Nat /\ w.l.queued \in Nat /\ w.l.playing \in BOOLEAN
         /\ w.thrown \in BOOLEAN /\ w.bulk \in BOOLEAN
<1>1. w.q \in Queues /\ w.l \in Lists /\ w.pc \in Players
  BY DEF Worlds
<1>2. w.l.current \in Nat /\ w.l.queued \in Nat
  BY <1>1 DEF Lists
<1>3. w.l.playing \in BOOLEAN
  BY <1>1 DEF Lists
<1>4. w.thrown \in BOOLEAN /\ w.bulk \in BOOLEAN
  BY DEF Worlds
<1>. QED
  BY <1>1, <1>2, <1>3, <1>4

\* What PlayerControl's methods do adds up.
LEMMA BesideTransitive ==
  ASSUME NEW w, NEW v, NEW u, Beside(w, v), Beside(v, u)
  PROVE  Beside(w, u)
  BY DEF Beside

\* An operator that only talks to the player keeps a world well formed.
LEMMA BesideKeeps ==
  ASSUME NEW w, NEW v, Beside(w, v)
  PROVE  /\ Half(w) => Half(v)
         /\ Whole(w) => Whole(v)
  BY DEF Beside, Half, Whole, Fits, Listed

\* A world with another player, another list or another queue
LEMMA OtherPlayer ==
  ASSUME NEW w \in Worlds, NEW p \in Players
  PROVE  /\ [w EXCEPT !.pc = p] \in Worlds
         /\ [w EXCEPT !.pc = p].q = w.q
         /\ [w EXCEPT !.pc = p].l = w.l
         /\ [w EXCEPT !.pc = p].bulk = w.bulk
         /\ [w EXCEPT !.pc = p].thrown = w.thrown
         /\ [w EXCEPT !.pc = p].pc = p
  BY DEF Worlds

\* An assertion leaves everything but "fine" alone.
LEMMA AssertingFacts ==
  ASSUME NEW w \in Worlds, NEW condition \in BOOLEAN
  PROVE  Beside(w, Asserting(w, condition)) /\ Asserting(w, condition).pc = w.pc
<1>. DEFINE l == [w.l EXCEPT !.fine = w.l.fine /\ condition]
<1>1. Asserting(w, condition) = [w EXCEPT !.l = l]
  BY DEF Asserting, Worlds
<1>2. w.l \in Lists
  BY Parts
<1>3. (w.l.fine /\ condition) \in BOOLEAN
  OBVIOUS
<1>4. l \in Lists /\ l.playing = w.l.playing /\ l.current = w.l.current /\ l.queued = w.l.queued
  BY <1>2, <1>3 DEF Lists
<1>. HIDE DEF l
<1>5. [w EXCEPT !.l = l] \in Worlds /\ [w EXCEPT !.l = l].l = l
      /\ [w EXCEPT !.l = l].q = w.q /\ [w EXCEPT !.l = l].pc = w.pc /\ [w EXCEPT !.l = l].bulk = w.bulk
  BY <1>4 DEF Worlds
<1>. QED
  BY <1>1, <1>4, <1>5 DEF Beside

\* An exception on its way changes nothing else.
LEMMA ThrowFacts ==
  ASSUME NEW w \in Worlds, NEW t \in BOOLEAN
  PROVE  Beside(w, [w EXCEPT !.thrown = t]) /\ [w EXCEPT !.thrown = t].pc = w.pc
  BY DEF Worlds, Beside

----------------------------------------------------------------------------
(***************************************************************************)
(* PlayerControl.                                                          *)
(***************************************************************************)

\* The fields of the player have their types.
LEMMA PlayerStates ==
  ASSUME NEW p \in Players
  PROVE  /\ p.state \in {"STOP", "PLAY", "PAUSE"}
         /\ p.song \in Songs \cup {None} /\ p.next \in Songs \cup {None}
         /\ p.border \in BOOLEAN /\ p.sync \in BOOLEAN /\ p.bordered \in BOOLEAN
  BY DEF Players

\* A player that ends tells.
LEMMA EndedFacts ==
  ASSUME NEW p \in Players, NEW e \in {"NONE", "DECODER", "OUTPUT"}
  PROVE  Ended(p, e) \in Players /\ ~Quiet(Ended(p, e))
<1>. DEFINE r == [p EXCEPT !.state = "STOP", !.song = None, !.next = None, !.sync = TRUE]
<1>1. r \in Players /\ r.sync
  BY DEF Players
<1>. HIDE DEF r
<1>2. CASE e = "NONE"
  BY <1>1, <1>2 DEF Ended, Error, Quiet, r
<1>3. CASE e # "NONE"
  <2>1. Ended(p, e) = [r EXCEPT !.error = e]
    BY <1>3 DEF Ended, Error, r
  <2>2. [r EXCEPT !.error = e] \in Players /\ [r EXCEPT !.error = e].sync = r.sync
    BY <1>1 DEF Players
  <2>. QED
    BY <1>1, <2>1, <2>2 DEF Quiet
<1>. QED
  BY <1>2, <1>3

\* A player that has just started a song has not stopped.
LEMMA StartedFacts ==
  ASSUME NEW p \in Players, NEW song \in Songs
  PROVE  Started(p, song) \in Players /\ ~Quiet(Started(p, song)) /\ Started(p, song).state = "PLAY"
  BY DEF Started, Players, Quiet

\* What the player does on its own
LEMMA PlayerStepsFacts ==
  ASSUME NEW p \in Players, NEW r \in PlayerSteps(p)
  PROVE  r \in Players /\ ~Quiet(r) /\ p.state # "STOP"
<1>1. CASE r = [p EXCEPT !.song = p.next, !.next = None, !.sync = TRUE,
                         !.state = IF p.border THEN "PAUSE" ELSE @, !.bordered = @ \/ p.border]
           /\ p.state = "PLAY"
  <2>. DEFINE s == IF p.border THEN "PAUSE" ELSE p.state
              b == p.bordered \/ p.border
  <2>1. s \in {"STOP", "PLAY", "PAUSE"} /\ b \in BOOLEAN
    BY PlayerStates
  <2>2. r = [p EXCEPT !.song = p.next, !.next = None, !.sync = TRUE, !.state = s, !.bordered = b]
    BY <1>1
  <2>. HIDE DEF s, b
  <2>3. r \in Players /\ r.sync
    BY <2>1, <2>2, PlayerStates DEF Players
  <2>. QED
    BY <1>1, <2>3 DEF Quiet
<1>2. CASE r = Ended(p, "NONE") /\ p.state = "PLAY"
  BY <1>2, EndedFacts
<1>3. CASE r = Error([p EXCEPT !.state = "PAUSE"], "OUTPUT") /\ p.state = "PLAY"
  <2>1. [p EXCEPT !.state = "PAUSE"] \in Players /\ [p EXCEPT !.state = "PAUSE"].state = "PAUSE"
    BY DEF Players
  <2>2. r \in Players /\ r.state = "PAUSE"
    BY <1>3, <2>1 DEF Error, Players
  <2>. QED
    BY <1>3, <2>2 DEF Quiet
<1>4. CASE r = Ended(p, "DECODER") /\ p.state # "STOP"
  BY <1>4, EndedFacts
<1>. QED
  BY <1>1, <1>2, <1>3, <1>4 DEF PlayerSteps

\* Another player in the same world.
LEMMA WithPlayer ==
  ASSUME NEW w \in Worlds, NEW p \in Players, Quiet(p) => Quiet(w.pc)
  PROVE  Beside(w, [w EXCEPT !.pc = p]) /\ [w EXCEPT !.pc = p].pc = p
  BY OtherPlayer DEF Beside

\* Doing nothing leaves everything alone.
LEMMA BesideItself ==
  ASSUME NEW w \in Worlds
  PROVE  Beside(w, w)
  BY DEF Beside

\* Waiting for the mutex of the player changes the player only.
LEMMA EnterFacts ==
  ASSUME NEW w \in Worlds, NEW v \in Enter(w)
  PROVE  Beside(w, v) /\ (w.pc.state = "STOP" => v.pc = w.pc) /\ (~Quiet(w.pc) => ~Quiet(v.pc))
<1>. DEFINE once == PlayerSteps(w.pc)
            twice == UNION {PlayerSteps(p) : p \in once}
<1>1. PICK p \in {w.pc} \cup once \cup twice : v = [w EXCEPT !.pc = p]
  BY DEF Enter
<1>2. w.pc \in Players
  BY Parts
<1>3. p = w.pc \/ (p \in Players /\ ~Quiet(p) /\ w.pc.state # "STOP")
  <2>1. CASE p \in once
    BY <1>2, <2>1, PlayerStepsFacts
  <2>2. CASE p \in twice
    <3>1. PICK r \in once : p \in PlayerSteps(r)
      BY <2>2
    <3>2. r \in Players /\ w.pc.state # "STOP"
      BY <1>2, PlayerStepsFacts
    <3>. QED
      BY <3>1, <3>2, PlayerStepsFacts
  <2>. QED
    BY <2>1, <2>2
<1>. QED
  BY <1>1, <1>2, <1>3, WithPlayer

\* PlayerControl::LockCancel()
LEMMA LockCancelFacts ==
  ASSUME NEW w \in Worlds, NEW u \in LockCancel(w)
  PROVE  Beside(w, u)
<1>1. PICK v \in Enter(w) : u = [v EXCEPT !.pc = Cancelled(v.pc)]
  BY DEF LockCancel
<1>2. Beside(w, v) /\ v \in Worlds /\ v.pc \in Players
  BY EnterFacts, Parts DEF Beside
<1>3. Cancelled(v.pc) \in Players /\ (Quiet(Cancelled(v.pc)) => Quiet(v.pc))
  <2>1. CASE Cancelled(v.pc) = Ended(v.pc, "NONE")
    BY <1>2, <2>1, EndedFacts
  <2>2. CASE Cancelled(v.pc) = [v.pc EXCEPT !.next = None]
    BY <1>2, <2>2 DEF Players, Quiet
  <2>. QED
    BY <2>1, <2>2 DEF Cancelled
<1>. QED
  BY <1>1, <1>2, <1>3, WithPlayer, BesideTransitive

\* PlayerControl::LockStop()
LEMMA LockStopFacts ==
  ASSUME NEW w \in Worlds, NEW u \in LockStop(w)
  PROVE  Beside(w, u)
<1>. DEFINE p(v) == IF v.pc.state = "STOP" THEN v.pc ELSE Ended(v.pc, "NONE")
<1>1. PICK v \in Enter(w) : u = [v EXCEPT !.pc = p(v)]
  BY DEF LockStop
<1>2. Beside(w, v) /\ v \in Worlds /\ v.pc \in Players
  BY EnterFacts, Parts DEF Beside
<1>3. p(v) \in Players /\ (Quiet(p(v)) => Quiet(v.pc))
  BY <1>2, EndedFacts
<1>. QED
  BY <1>1, <1>2, <1>3, WithPlayer, BesideTransitive

\* PlayerControl::LockEnqueueSong()
LEMMA LockEnqueueSongFacts ==
  ASSUME NEW w \in Worlds, NEW song \in Songs, NEW u \in LockEnqueueSong(w, song)
  PROVE  Beside(w, u)
<1>. DEFINE p(v) == IF v.pc.state = "STOP" THEN Started(v.pc, song) ELSE [v.pc EXCEPT !.next = song]
            t(v) == Asserting(v, v.pc.next = None)
<1>1. PICK v \in Enter(w) : u = [t(v) EXCEPT !.pc = p(v)]
  BY DEF LockEnqueueSong
<1>2. Beside(w, v) /\ v \in Worlds /\ v.pc \in Players
  BY EnterFacts, Parts DEF Beside
<1>3. p(v) \in Players /\ (Quiet(p(v)) => Quiet(v.pc))
  <2>1. CASE v.pc.state = "STOP"
    BY <1>2, <2>1, StartedFacts
  <2>2. CASE v.pc.state # "STOP"
    BY <1>2, <2>2 DEF Players, Quiet
  <2>. QED
    BY <2>1, <2>2
<1>. HIDE DEF p
<1>4. (v.pc.next = None) \in BOOLEAN
  OBVIOUS
<1>5. Beside(v, t(v)) /\ t(v).pc = v.pc
  BY <1>2, <1>4, AssertingFacts
<1>. HIDE DEF t
<1>6. t(v) \in Worlds
  BY <1>5 DEF Beside
<1>7. Beside(t(v), u)
  BY <1>1, <1>3, <1>5, <1>6, WithPlayer
<1>. QED
  BY <1>2, <1>5, <1>7, BesideTransitive

\* PlayerControl::PauseLocked()
LEMMA PauseLockedFacts ==
  ASSUME NEW w \in Worlds, NEW u \in PauseLocked(w)
  PROVE  Beside(w, u)
<1>1. w.pc \in Players /\ w.pc.state \in {"STOP", "PLAY", "PAUSE"}
  BY Parts, PlayerStates
<1>2. ASSUME NEW s \in {"PLAY", "PAUSE"}
      PROVE  Beside(w, [w EXCEPT !.pc.state = s])
  <2>1. [w EXCEPT !.pc.state = s] = [w EXCEPT !.pc = [w.pc EXCEPT !.state = s]]
    BY DEF Worlds
  <2>2. [w.pc EXCEPT !.state = s] \in Players /\ ~Quiet([w.pc EXCEPT !.state = s])
    BY <1>1 DEF Players, Quiet
  <2>. QED
    BY <2>1, <2>2, WithPlayer
<1>3. Beside(w, [w EXCEPT !.pc = Error(w.pc, "OUTPUT")])
  <2>1. Error(w.pc, "OUTPUT") \in Players /\ (Quiet(Error(w.pc, "OUTPUT")) => Quiet(w.pc))
    BY <1>1 DEF Error, Players, Quiet
  <2>. QED
    BY <2>1, WithPlayer
<1>4. \/ u = w \/ u = [w EXCEPT !.pc.state = "PAUSE"] \/ u = [w EXCEPT !.pc.state = "PLAY"]
      \/ u = [w EXCEPT !.pc = Error(w.pc, "OUTPUT")]
  BY <1>1 DEF PauseLocked
<1>. QED
  BY <1>2, <1>3, <1>4, BesideItself

\* A player whose outputs failed has paused and keeps its songs.
LEMMA StalledFacts ==
  ASSUME NEW p \in Players
  PROVE  /\ Stalled(p) \in Players /\ Stalled(p).state = "PAUSE"
         /\ Stalled(p).song = p.song /\ Stalled(p).next = p.next
<1>. DEFINE r == [p EXCEPT !.state = "PAUSE"]
<1>1. r \in Players /\ r.state = "PAUSE" /\ r.song = p.song /\ r.next = p.next
  BY DEF Players
<1>. HIDE DEF r
<1>2. /\ Error(r, "OUTPUT") \in Players /\ Error(r, "OUTPUT").state = r.state
      /\ Error(r, "OUTPUT").song = r.song /\ Error(r, "OUTPUT").next = r.next
  BY <1>1 DEF Error, Players
<1>. QED
  BY <1>1, <1>2 DEF Stalled, r

\* A seek leaves a player that plays, or one that has told that it does not.
LEMMA SeekFacts ==
  ASSUME NEW w \in Worlds, NEW song \in Songs, NEW zero, NEW u \in Seek(w, song, zero)
  PROVE  Beside(w, u) /\ ~Quiet(u.pc)
<1>. DEFINE p == [w.pc EXCEPT !.error = "NONE"]
            v == Asserting(w, w.pc.next = None)
            same == p.state # "STOP" /\ p.song = song
            playing == IF p.state = "STOP" THEN Started(p, song)
                       ELSE [p EXCEPT !.song = song, !.next = None, !.sync = TRUE]
<1>1. p \in Players
  BY Parts DEF Players
<1>2. playing \in Players /\ ~Quiet(playing)
  <2>. HIDE DEF p
  <2>1. CASE p.state = "STOP"
    BY <1>1, <2>1, StartedFacts
  <2>2. CASE p.state # "STOP"
    BY <1>1, <2>2 DEF Players, Quiet
  <2>. QED
    BY <2>1, <2>2
<1>3. Error(p, "DECODER") \in Players /\ Error(p, "DECODER").state = p.state
  <2>. HIDE DEF p
  <2>. QED
    BY <1>1 DEF Error, Players
<1>4. (w.pc.next = None) \in BOOLEAN
  OBVIOUS
<1>5. Beside(w, v) /\ v.pc = w.pc /\ v \in Worlds
  BY <1>4, AssertingFacts DEF Beside
<1>6. \/ u = [v EXCEPT !.pc = playing]
      \/ u = Throw([v EXCEPT !.pc = Ended(playing, "DECODER")])
      \/ same /\ u = [v EXCEPT !.pc = p]
      \/ same /\ u = Throw([v EXCEPT !.pc = Error(p, "DECODER")])
      \/ u = Throw([v EXCEPT !.pc = Stalled(playing)])
      \/ same /\ u = Throw([v EXCEPT !.pc = Stalled(p)])
  <2>. HIDE DEF p, v, playing
  <2>. QED
    BY DEF Seek, p, v, playing
<1>. HIDE DEF p, v, playing
<1>7. ASSUME NEW r \in Players, ~Quiet(r)
      PROVE  /\ Beside(w, [v EXCEPT !.pc = r]) /\ [v EXCEPT !.pc = r].pc = r
             /\ Beside(w, Throw([v EXCEPT !.pc = r])) /\ Throw([v EXCEPT !.pc = r]).pc = r
  <2>1. Beside(v, [v EXCEPT !.pc = r]) /\ [v EXCEPT !.pc = r].pc = r
    BY <1>5, <1>7, WithPlayer
  <2>2. [v EXCEPT !.pc = r] \in Worlds
    BY <2>1 DEF Beside
  <2>3. Beside([v EXCEPT !.pc = r], Throw([v EXCEPT !.pc = r])) /\ Throw([v EXCEPT !.pc = r]).pc = r
    BY <2>1, <2>2, ThrowFacts DEF Throw
  <2>. QED
    BY <1>5, <2>1, <2>3, BesideTransitive
<1>8. Ended(playing, "DECODER") \in Players /\ ~Quiet(Ended(playing, "DECODER"))
  BY <1>2, EndedFacts
<1>9. same => ~Quiet(p) /\ ~Quiet(Error(p, "DECODER"))
  BY <1>3 DEF Quiet
<1>10. /\ Stalled(playing) \in Players /\ ~Quiet(Stalled(playing))
       /\ Stalled(p) \in Players /\ ~Quiet(Stalled(p))
  BY <1>1, <1>2, StalledFacts DEF Quiet
<1>. QED
  BY <1>1, <1>2, <1>3, <1>6, <1>7, <1>8, <1>9, <1>10

\* PlayerControl::SeekLocked()
LEMMA SeekLockedFacts ==
  ASSUME NEW w \in Worlds, NEW song \in Songs, NEW zero, NEW u \in SeekLocked(w, song, zero)
  PROVE  Beside(w, u) /\ ~Quiet(u.pc)
<1>1. PICK v \in Enter(w) : \E t \in IF v.pc.next = None THEN {v} ELSE LockCancel(v) :
                               u \in Seek(t, song, zero)
  BY DEF SeekLocked
<1>2. PICK t \in IF v.pc.next = None THEN {v} ELSE LockCancel(v) : u \in Seek(t, song, zero)
  BY <1>1
<1>3. Beside(w, v) /\ v \in Worlds
  BY EnterFacts DEF Beside
<1>4. Beside(v, t)
  BY <1>3, LockCancelFacts, BesideItself
<1>5. t \in Worlds
  BY <1>4 DEF Beside
<1>6. Beside(t, u) /\ ~Quiet(u.pc)
  BY <1>2, <1>5, SeekFacts
<1>. QED
  BY <1>3, <1>4, <1>6, BesideTransitive

\* PlayerControl::Play()
LEMMA PlayFacts ==
  ASSUME NEW w \in Worlds, NEW song \in Songs, NEW u \in Play(w, song)
  PROVE  Beside(w, u) /\ ~Quiet(u.pc)
<1>1. PICK v \in SeekLocked(w, song, TRUE) : u = v \/ (v.pc.state = "PAUSE" /\ u \in PauseLocked(v))
  BY DEF Play, Then
<1>2. Beside(w, v) /\ ~Quiet(v.pc)
  BY SeekLockedFacts
<1>3. CASE u = v
  BY <1>2, <1>3
<1>4. CASE u \in PauseLocked(v)
  <2>1. Beside(v, u)
    BY <1>2, <1>4, PauseLockedFacts DEF Beside
  <2>. QED
    BY <1>2, <2>1, BesideTransitive DEF Beside
<1>. QED
  BY <1>1, <1>3, <1>4

----------------------------------------------------------------------------
(***************************************************************************)
(* The playlist's own methods.                                             *)
(***************************************************************************)

\* The same with edits of the queue that keep its length
Near(w, v) ==
  /\ v \in Worlds /\ Good(v.q) /\ Length(v.q) = Length(w.q) /\ v.bulk = w.bulk
  /\ v.l.playing = w.l.playing /\ v.l.current = w.l.current /\ v.l.queued = w.l.queued
  /\ Quiet(v.pc) => Quiet(w.pc)

\* Near is transitive,
LEMMA NearTransitive ==
  ASSUME NEW w, NEW v, NEW u, Near(w, v), Near(v, u)
  PROVE  Near(w, u)
  BY DEF Near

\* keeps a world well formed,
LEMMA NearKeeps ==
  ASSUME NEW w, NEW v, Near(w, v)
  PROVE  /\ Half(w) => Half(v)
         /\ Whole(w) => Whole(v)
  BY DEF Near, Half, Whole, Fits, Listed

\* and weaker than Beside.
LEMMA BesideIsNear ==
  ASSUME NEW w, NEW v, Good(w.q), Beside(w, v)
  PROVE  Near(w, v)
  BY DEF Near, Beside

\* Another queue in the same world.
LEMMA OtherQueue ==
  ASSUME NEW w \in Worlds, NEW r \in Queues
  PROVE  /\ [w EXCEPT !.q = r] \in Worlds
         /\ [w EXCEPT !.q = r].q = r
         /\ [w EXCEPT !.q = r].l = w.l
         /\ [w EXCEPT !.q = r].pc = w.pc
         /\ [w EXCEPT !.q = r].bulk = w.bulk
  BY DEF Worlds

\* Another playlist in the same world.
LEMMA OtherList ==
  ASSUME NEW w \in Worlds, NEW m \in Lists
  PROVE  /\ [w EXCEPT !.l = m] \in Worlds
         /\ [w EXCEPT !.l = m].q = w.q
         /\ [w EXCEPT !.l = m].l = m
         /\ [w EXCEPT !.l = m].pc = w.pc
         /\ [w EXCEPT !.l = m].bulk = w.bulk
  BY DEF Worlds

\* An edit of the queue that keeps its length
LEMMA EditIsNear ==
  ASSUME NEW w \in Worlds, NEW r, Good(r), Length(r) = Length(w.q)
  PROVE  Near(w, [w EXCEPT !.q = r])
  BY OtherQueue DEF Near, Good

\* playlist::OnModified()
LEMMA OnModifiedFacts ==
  ASSUME NEW w \in Worlds, Good(w.q)
  PROVE  Near(w, OnModified(w))
<1>1. Near(w, w)
  BY DEF Near
<1>2. Near(w, [w EXCEPT !.q = IncrementVersion(w.q)])
  BY IncrementVersionFacts, EditIsNear
<1>. QED
  BY <1>1, <1>2 DEF OnModified

\* The current song has a position.
LEMMA CurrentPositionFacts ==
  ASSUME NEW w \in Worlds, Good(w.q), w.l.current \in 0..Length(w.q)
  PROVE  /\ CurrentPosition(w) \in 0..Length(w.q)
         /\ w.l.current # 0 => CurrentPosition(w) \in Positions(w.q)
         /\ w.l.current = 0 => CurrentPosition(w) = 0
<1>1. CASE w.l.current = 0
  BY <1>1, QueueFacts DEF CurrentPosition
<1>2. CASE w.l.current # 0
  <2>1. w.l.current \in Positions(w.q) /\ Positions(w.q) \subseteq 0..Length(w.q)
    BY <1>2, QueueFacts DEF Positions
  <2>2. CurrentPosition(w) \in Positions(w.q)
    BY <1>2, <2>1, QueueFacts DEF CurrentPosition, OrderToPosition
  <2>. QED
    BY <1>2, <2>1, <2>2
<1>. QED
  BY <1>1, <1>2

\* playlist::SongStarted()
LEMMA SongStartedFacts ==
  ASSUME NEW w \in Worlds, Good(w.q), w.l.current \in 0..Length(w.q)
  PROVE  Near(w, SongStarted(w))
<1>. DEFINE r == ChangePriority(w.q, CurrentPosition(w), 0)
<1>1. CASE w.l.current = 0
  <2>1. SongStarted(w) = Asserting(w, FALSE)
    BY <1>1 DEF SongStarted
  <2>. QED
    BY <2>1, AssertingFacts, BesideIsNear
<1>2. CASE w.l.current # 0 /\ Priority(w.q, w.l.current) = 0
  <2>1. SongStarted(w) = w
    BY <1>2 DEF SongStarted
  <2>. QED
    BY <2>1 DEF Near
<1>3. CASE w.l.current # 0 /\ Priority(w.q, w.l.current) # 0
  <2>1. SongStarted(w) = OnModified([w EXCEPT !.q = r])
    BY <1>3 DEF SongStarted
  <2>2. Good(r) /\ Length(r) = Length(w.q)
    <3>1. CurrentPosition(w) \in Positions(w.q) /\ 0 \in Bytes
      BY <1>3, CurrentPositionFacts DEF Bytes
    <3>. QED
      BY <3>1, ChangePriorityFacts
  <2>. HIDE DEF r
  <2>3. Near(w, [w EXCEPT !.q = r])
    BY <2>2, EditIsNear
  <2>4. Near([w EXCEPT !.q = r], OnModified([w EXCEPT !.q = r]))
    BY <2>3, OnModifiedFacts DEF Near
  <2>. QED
    BY <2>1, <2>3, <2>4, NearTransitive
<1>. QED
  BY <1>1, <1>2, <1>3

\* The song at an order number
LEMMA SongFacts ==
  ASSUME NEW q, Good(q), NEW o \in 1..Length(q)
  PROVE  AtOrder(q, o).song \in Songs /\ AtOrder(q, o).id \in Ids /\ AtOrder(q, o).id # 0
<1>1. q.order[o] \in Positions(q)
  BY QueueFacts DEF Positions
<1>2. AtOrder(q, o) \in Items
  BY <1>1, QueueFacts DEF AtOrder
<1>. QED
  BY <1>2, Sizes DEF Items, Ids

\* Playback of a song begins, whatever the playlist did before.
LEMMA PlayOrderFacts ==
  ASSUME NEW w \in Worlds, Good(w.q), NEW o \in 1..Length(w.q), NEW u \in PlayOrder(w, o)
  PROVE  /\ Whole(u) /\ Length(u.q) = Length(w.q) /\ u.bulk = w.bulk
         /\ u.l.playing /\ u.l.current = o /\ u.l.queued = 0
<1>. DEFINE m == [w.l EXCEPT !.playing = TRUE, !.queued = 0, !.current = o]
            t == [w EXCEPT !.l = m]
            song == AtOrder(w.q, o).song
<1>0. Length(w.q) \in Nat
  BY QueueFacts
<1>1. m \in Lists /\ m.playing /\ m.queued = 0 /\ m.current = o
  <2>1. o \in Nat /\ w.l \in Lists
    BY <1>0, Parts
  <2>. QED
    BY <2>1 DEF Lists
<1>2. [w EXCEPT !.l.playing = TRUE, !.l.queued = 0, !.l.current = o] = t
  BY DEF Worlds
<1>3. song \in Songs
  BY SongFacts
<1>. HIDE DEF m, song
<1>4. t \in Worlds /\ t.q = w.q /\ t.l = m /\ t.bulk = w.bulk
  BY <1>1, OtherList
<1>. HIDE DEF t
<1>5. PICK v \in Play(t, song) : u = v \/ u = SongStarted(v)
  BY <1>2 DEF PlayOrder, Then, song
<1>6. Beside(t, v) /\ ~Quiet(v.pc)
  BY <1>3, <1>4, PlayFacts
<1>7. v \in Worlds /\ Good(v.q) /\ v.l.current \in 0..Length(v.q) /\ Near(t, v)
  <2>1. v \in Worlds /\ Good(v.q) /\ v.q = w.q /\ v.l.current = o
    BY <1>1, <1>4, <1>6 DEF Beside
  <2>2. Near(t, v)
    BY <1>4, <1>6, BesideIsNear
  <2>. QED
    BY <1>0, <2>1, <2>2
<1>8. Near(v, u)
  <2>1. Near(v, v)
    BY <1>7 DEF Near
  <2>. QED
    BY <1>5, <1>7, <2>1, SongStartedFacts
<1>9. Near(t, u) /\ ~Quiet(u.pc)
  BY <1>6, <1>7, <1>8, NearTransitive DEF Near
<1>10. /\ Length(u.q) = Length(w.q) /\ u.bulk = w.bulk /\ u.l.playing /\ u.l.current = o /\ u.l.queued = 0
       /\ u \in Worlds /\ Good(u.q)
  BY <1>1, <1>4, <1>9 DEF Near
<1>11. u.l.current \in 0..Length(u.q) /\ u.l.current # 0 /\ u.l.queued \in 0..Length(u.q)
  BY <1>0, <1>10
<1>. QED
  BY <1>9, <1>10, <1>11 DEF Whole, Half, Fits, Listed

\* Another queued song
LEMMA OtherQueued ==
  ASSUME NEW w, Half(w), NEW o \in 0..Length(w.q)
  PROVE  /\ Whole([w EXCEPT !.l.queued = o])
         /\ [w EXCEPT !.l.queued = o].q = w.q
         /\ [w EXCEPT !.l.queued = o].pc = w.pc
         /\ [w EXCEPT !.l.queued = o].bulk = w.bulk
         /\ [w EXCEPT !.l.queued = o].l.playing = w.l.playing
         /\ [w EXCEPT !.l.queued = o].l.current = w.l.current
<1>. DEFINE m == [w.l EXCEPT !.queued = o]
<1>1. w \in Worlds /\ Length(w.q) \in Nat
  BY QueueFacts DEF Half, Fits
<1>2. m \in Lists /\ m.queued = o /\ m.current = w.l.current /\ m.playing = w.l.playing
  BY <1>1, Parts DEF Lists
<1>3. [w EXCEPT !.l.queued = o] = [w EXCEPT !.l = m]
  BY <1>1 DEF Worlds
<1>. HIDE DEF m
<1>4. /\ [w EXCEPT !.l = m] \in Worlds /\ [w EXCEPT !.l = m].q = w.q /\ [w EXCEPT !.l = m].l = m
      /\ [w EXCEPT !.l = m].pc = w.pc /\ [w EXCEPT !.l = m].bulk = w.bulk
  BY <1>1, <1>2, OtherList
<1>. QED
  BY <1>2, <1>3, <1>4 DEF Whole, Half, Fits, Listed

\* playlist::QueueSongOrder()
LEMMA QueueSongOrderFacts ==
  ASSUME NEW w, Half(w), NEW o \in 1..Length(w.q), NEW u \in QueueSongOrder(w, o)
  PROVE  Whole(u) /\ u.q = w.q /\ u.bulk = w.bulk
<1>. DEFINE t == [w EXCEPT !.l.queued = o]
            song == AtOrder(w.q, o).song
<1>1. o \in 0..Length(w.q)
  BY QueueFacts DEF Half, Fits
<1>2. Whole(t) /\ t.q = w.q /\ t.bulk = w.bulk
  BY <1>1, OtherQueued
<1>. HIDE DEF t
<1>3. song \in Songs
  BY SongFacts DEF Half, Fits
<1>4. u \in LockEnqueueSong(t, song)
  BY DEF QueueSongOrder, t
<1>. HIDE DEF song
<1>5. Beside(t, u)
  BY <1>2, <1>3, <1>4, LockEnqueueSongFacts DEF Whole, Half
<1>. QED
  BY <1>2, <1>5, BesideKeeps DEF Beside

\* The order is shuffled, and "current" follows.
LEMMA ReshuffledFacts ==
  ASSUME NEW w, Half(w), w.l.current # 0, NEW u \in Reshuffled(w)
  PROVE  /\ Half(u) /\ Length(u.q) = Length(w.q) /\ u.bulk = w.bulk
         /\ u.l.playing = w.l.playing /\ u.l.queued = w.l.queued /\ u.l.current # 0
         /\ Whole(w) => Whole(u)
<1>1. PICK r \in ShuffleOrder(w.q) :
        u = [w EXCEPT !.q = r, !.l.current = PositionToOrder(r, CurrentPosition(w))]
  BY DEF Reshuffled
<1>. DEFINE m == [w.l EXCEPT !.current = PositionToOrder(r, CurrentPosition(w))]
<1>2. w \in Worlds /\ Good(w.q) /\ w.l \in Lists /\ Length(w.q) \in Nat
  BY Parts, QueueFacts DEF Half, Fits
<1>3. Good(r) /\ Length(r) = Length(w.q) /\ Positions(r) = Positions(w.q) /\ r \in Queues
  BY <1>2, ShuffleOrderFacts DEF Good
<1>4. CurrentPosition(w) \in Positions(r)
  BY <1>2, <1>3, CurrentPositionFacts DEF Half, Fits
<1>5. PositionToOrder(r, CurrentPosition(w)) \in 1..Length(w.q)
  BY <1>3, <1>4, PositionFacts DEF Positions
<1>6. /\ m \in Lists /\ m.playing = w.l.playing /\ m.queued = w.l.queued
      /\ m.current \in 1..Length(w.q)
  BY <1>2, <1>5 DEF Lists
<1>7. u = [w EXCEPT !.q = r, !.l = m]
  BY <1>1, <1>2 DEF Worlds
<1>. HIDE DEF m
<1>8. u \in Worlds /\ u.q = r /\ u.l = m /\ u.pc = w.pc /\ u.bulk = w.bulk
  <2>. DEFINE t == [w EXCEPT !.q = r, !.l = m]
  <2>1. t \in Worlds /\ t.q = r /\ t.l = m /\ t.pc = w.pc /\ t.bulk = w.bulk
    BY <1>2, <1>3, <1>6 DEF Worlds
  <2>. HIDE DEF t
  <2>. QED
    BY <1>7, <2>1 DEF t
<1>9. u.l.current # 0 /\ u.l.current \in 0..Length(u.q)
  BY <1>2, <1>3, <1>6, <1>8
<1>. QED
  BY <1>3, <1>6, <1>8, <1>9 DEF Half, Whole, Fits, Listed

\* The song that is queued afterwards is one of the queue.
LEMMA RequeueFacts ==
  ASSUME NEW w, Half(w), NEW next \in 0..Length(w.q), NEW prev, NEW u \in Requeue(w, next, prev)
  PROVE  Whole(u) /\ u.q = w.q /\ u.bulk = w.bulk
<1>. DEFINE song == IF next = 0 THEN 0 ELSE AtOrder(w.q, next).id
            Queue(v) == IF next = 0 THEN {v} ELSE QueueSongOrder(v, next)
<1>0. Length(w.q) \in Nat /\ Good(w.q)
  BY QueueFacts DEF Half, Fits
<1>1. \/ song = prev /\ u = [w EXCEPT !.l.queued = next]
      \/ song # prev /\ prev = 0 /\ u \in Queue(w)
      \/ \E v \in LockCancel(w) : u \in Queue([v EXCEPT !.l.queued = 0])
  <2>. HIDE DEF song, Queue
  <2>. QED
    BY DEF Requeue, song, Queue
<1>2. CASE u = [w EXCEPT !.l.queued = next]
  BY <1>2, OtherQueued
<1>3. ASSUME NEW v, Half(v), v.q = w.q, v.bulk = w.bulk, u \in Queue(v), Whole(v) \/ next # 0
      PROVE  Whole(u) /\ u.q = w.q /\ u.bulk = w.bulk
  <2>1. CASE next = 0
    BY <1>3, <2>1
  <2>2. CASE next # 0
    <3>1. next \in 1..Length(v.q)
      BY <1>0, <1>3, <2>2
    <3>. QED
      BY <1>3, <2>2, <3>1, QueueSongOrderFacts
  <2>. QED
    BY <2>1, <2>2
<1>4. CASE song # prev /\ prev = 0 /\ u \in Queue(w)
  <2>1. next # 0
    BY <1>4
  <2>. HIDE DEF Queue
  <2>. QED
    BY <1>3, <1>4, <2>1
<1>5. ASSUME NEW v \in LockCancel(w), u \in Queue([v EXCEPT !.l.queued = 0])
      PROVE  Whole(u) /\ u.q = w.q /\ u.bulk = w.bulk
  <2>. DEFINE t == [v EXCEPT !.l.queued = 0]
  <2>1. Half(v) /\ v.q = w.q /\ v.bulk = w.bulk
    BY LockCancelFacts, BesideKeeps DEF Half, Beside
  <2>2. 0 \in 0..Length(v.q)
    BY <1>0, <2>1
  <2>3. Whole(t) /\ t.q = w.q /\ t.bulk = w.bulk
    BY <2>1, <2>2, OtherQueued
  <2>. HIDE DEF t, Queue
  <2>4. u \in Queue(t)
    BY <1>5 DEF t
  <2>. QED
    BY <1>3, <2>3, <2>4 DEF Whole
<1>. HIDE DEF Queue, song
<1>. QED
  BY <1>1, <1>2, <1>4, <1>5

\* Outside a bulk edit a queued song that had gone is forgotten.
LEMMA UpdateQueuedSongFacts ==
  ASSUME NEW w, Half(w), NEW prev, NEW u \in UpdateQueuedSong(w, prev), Whole(w) \/ ~w.bulk
  PROVE  Whole(u) /\ Length(u.q) = Length(w.q) /\ u.bulk = w.bulk
<1>. DEFINE condition == w.q.items # <<>> /\ w.l.current # 0 /\ ((w.l.queued = 0) <=> (prev = 0))
            v == Asserting(w, condition)
            next == GetNextOrder(w.q, w.l.current)
            again == next = 1 /\ w.q.random /\ w.q.single = "OFF"
<1>1. CASE ~w.l.playing \/ (w.bulk /\ prev = 0)
  <2>1. u = w
    BY <1>1 DEF UpdateQueuedSong
  <2>. QED
    BY <1>1, <2>1 DEF Whole, Listed
<1>2. CASE ~(~w.l.playing \/ (w.bulk /\ prev = 0))
  <2>1. PICK t \in IF again THEN Reshuffled(v) ELSE {v} : u \in Requeue(t, next, prev)
    BY <1>2 DEF UpdateQueuedSong
  <2>2. condition \in BOOLEAN /\ w \in Worlds
    BY DEF Half
  <2>. HIDE DEF condition
  <2>3. Beside(w, v)
    BY <2>2, AssertingFacts
  <2>. HIDE DEF v
  <2>4. Half(v) /\ v.q = w.q /\ v.bulk = w.bulk /\ v.l.current # 0
    BY <1>2, <2>3, BesideKeeps DEF Beside, Half, Fits
  <2>5. Half(t) /\ Length(t.q) = Length(w.q) /\ t.bulk = w.bulk
    BY <2>4, ReshuffledFacts
  <2>6. next \in 0..Length(t.q)
    <3>1. w.l.current \in 1..Length(w.q) /\ Good(w.q)
      BY <1>2, QueueFacts DEF Half, Fits
    <3>. QED
      BY <2>5, <3>1, NextOrderFacts
  <2>. HIDE DEF next
  <2>. QED
    BY <2>1, <2>5, <2>6, RequeueFacts
<1>. QED
  BY <1>1, <1>2

\* playlist::UpdateQueuedSong()
LEMMA RequeuedFacts ==
  ASSUME NEW w, Half(w), NEW prev, NEW u \in Requeued(w, prev), Whole(w) \/ ~w.bulk
  PROVE  Whole(u) /\ Length(u.q) = Length(w.q) /\ u.bulk = w.bulk
<1>1. PICK v \in UpdateQueuedSong(w, prev) : u = OnModified(v)
  BY DEF Requeued
<1>2. Whole(v) /\ Length(v.q) = Length(w.q) /\ v.bulk = w.bulk
  BY UpdateQueuedSongFacts
<1>3. Near(v, u)
  BY <1>1, <1>2, OnModifiedFacts DEF Whole, Half, Fits
<1>. QED
  BY <1>2, <1>3, NearKeeps DEF Near

\* Playback stops; nothing is expected of the player.
LEMMA StoppedFacts ==
  ASSUME NEW w \in Worlds, Fits(w.q, w.l)
  PROVE  /\ Whole([w EXCEPT !.l.queued = 0, !.l.playing = FALSE])
         /\ [w EXCEPT !.l.queued = 0, !.l.playing = FALSE].q = w.q
         /\ [w EXCEPT !.l.queued = 0, !.l.playing = FALSE].bulk = w.bulk
         /\ [w EXCEPT !.l.queued = 0, !.l.playing = FALSE].l.current = w.l.current
         /\ ~[w EXCEPT !.l.queued = 0, !.l.playing = FALSE].l.playing
<1>. DEFINE m == [w.l EXCEPT !.queued = 0, !.playing = FALSE]
<1>1. m \in Lists /\ m.queued = 0 /\ m.current = w.l.current /\ ~m.playing
  BY Parts DEF Lists
<1>2. [w EXCEPT !.l.queued = 0, !.l.playing = FALSE] = [w EXCEPT !.l = m]
  BY DEF Worlds
<1>. HIDE DEF m
<1>3. /\ [w EXCEPT !.l = m] \in Worlds /\ [w EXCEPT !.l = m].q = w.q /\ [w EXCEPT !.l = m].l = m
      /\ [w EXCEPT !.l = m].pc = w.pc /\ [w EXCEPT !.l = m].bulk = w.bulk
  BY <1>1, OtherList
<1>. QED
  BY <1>1, <1>2, <1>3 DEF Whole, Half, Fits, Listed

\* playlist::Stop()
LEMMA StopWithFacts ==
  ASSUME NEW w \in Worlds, Fits(w.q, w.l), NEW u \in StopWith(w)
  PROVE  Whole(u) /\ Length(u.q) = Length(w.q) /\ u.bulk = w.bulk /\ ~u.l.playing
<1>1. CASE ~w.l.playing
  BY <1>1 DEF StopWith, Whole, Half, Listed
<1>2. CASE w.l.playing
  <2>1. PICK v \in LockStop(w) :
           LET t == [v EXCEPT !.l.queued = 0, !.l.playing = FALSE] IN
           u = t \/ u \in Reshuffled(t)
    BY <1>2 DEF StopWith
  <2>. DEFINE t == [v EXCEPT !.l.queued = 0, !.l.playing = FALSE]
  <2>2. v \in Worlds /\ Fits(v.q, v.l) /\ v.q = w.q /\ v.bulk = w.bulk /\ v.l.current # 0
    BY <1>2, LockStopFacts DEF Beside, Fits
  <2>3. Whole(t) /\ t.q = w.q /\ t.bulk = w.bulk /\ ~t.l.playing /\ t.l.current # 0
    BY <2>2, StoppedFacts
  <2>4. u = t \/ u \in Reshuffled(t)
    BY <2>1
  <2>. HIDE DEF t
  <2>. QED
    BY <2>3, <2>4, ReshuffledFacts DEF Whole
<1>. QED
  BY <1>1, <1>2

\* playlist::MoveOrderToCurrent()
LEMMA MoveOrderToCurrentFacts ==
  ASSUME NEW w \in Worlds, Fits(w.q, w.l), NEW o \in 1..Length(w.q)
  PROVE  /\ Good(MoveOrderToCurrent(w, o).q)
         /\ Length(MoveOrderToCurrent(w, o).q) = Length(w.q)
         /\ MoveOrderToCurrent(w, o).o \in 1..Length(w.q)
<1>. DEFINE to == CASE w.l.playing -> AfterOrder(o, w.l.current)
                    [] ~w.l.playing /\ w.l.current # 0 -> BeforeOrder(o, w.l.current)
                    [] OTHER -> 1
<1>1. Length(w.q) \in Nat /\ Good(w.q) /\ w.l.playing \in BOOLEAN /\ w.l.current \in 0..Length(w.q)
  BY QueueFacts, Parts DEF Fits
<1>2. to \in 1..Length(w.q)
  <2>1. CASE w.l.playing
    <3>1. to = AfterOrder(o, w.l.current) /\ w.l.current # 0
      BY <2>1 DEF Fits
    <3>. QED
      BY <1>1, <3>1 DEF AfterOrder
  <2>2. CASE ~w.l.playing /\ w.l.current # 0
    <3>1. to = BeforeOrder(o, w.l.current)
      BY <2>2
    <3>. QED
      BY <1>1, <2>2, <3>1 DEF BeforeOrder
  <2>3. CASE ~w.l.playing /\ w.l.current = 0
    <3>1. to = 1
      BY <2>3
    <3>. QED
      BY <1>1, <3>1
  <2>. QED
    BY <2>1, <2>2, <2>3
<1>3. MoveOrderToCurrent(w, o) = IF w.q.random THEN [q |-> MoveOrder(w.q, o, to), o |-> to]
                                 ELSE [q |-> w.q, o |-> o]
  BY DEF MoveOrderToCurrent
<1>. HIDE DEF to
<1>4. Good(MoveOrder(w.q, o, to)) /\ Length(MoveOrder(w.q, o, to)) = Length(w.q)
  BY <1>1, <1>2, MoveOrderFacts DEF Positions
<1>. QED
  BY <1>1, <1>2, <1>3, <1>4

\* The current song, if it is deleted, is replaced first.
LEMMA DeleteInternalFacts ==
  ASSUME NEW w, Half(w), NEW p \in Positions(w.q), NEW u \in DeleteInternal(w, p)
  PROVE  Half(u) /\ Length(u.q) = Length(w.q) - 1 /\ u.bulk = w.bulk
<1>. DEFINE o == PositionToOrder(w.q, p)
            next == GetNextOrder(w.q, o)
            replaced ==
              CASE w.l.playing /\ w.l.current = o ->
                     UNION {IF next # 0 /\ next # o /\ t.pc.state # "PAUSE"
                            THEN Caught(PlayOrder(t, next))
                            ELSE {[v EXCEPT !.l.playing = FALSE] :
                                   v \in LockStop([t EXCEPT !.l.current = IF next = o THEN 0 ELSE next])}
                            : t \in Enter(w)}
                [] ~w.l.playing /\ w.l.current = o -> {[w EXCEPT !.l.current = 0]}
                [] OTHER -> {w}
            n == Length(w.q)
<1>0. PICK v \in replaced : u = [v EXCEPT !.q = DeletePosition(v.q, p), !.l.current = Still(v.l.current, o)]
  <2>. HIDE DEF o, next
  <2>. QED
    BY Zenon DEF DeleteInternal, o, next
<1>1. w \in Worlds /\ Good(w.q) /\ n \in Nat /\ Fits(w.q, w.l) /\ w.l.playing \in BOOLEAN
  BY QueueFacts, Parts DEF Half, Fits
<1>2. o \in 1..n /\ p \in 1..n
  BY <1>1, PositionFacts DEF Positions
<1>3. next \in 0..n
  BY <1>1, <1>2, NextOrderFacts
<1>. HIDE DEF o, next
<1>4. Half(v) /\ Length(v.q) = n /\ v.bulk = w.bulk /\ v.l.current # o
  <2>1. CASE w.l.playing /\ w.l.current = o
    <3>0. replaced = UNION {IF next # 0 /\ next # o /\ t.pc.state # "PAUSE"
                            THEN Caught(PlayOrder(t, next))
                            ELSE {[s EXCEPT !.l.playing = FALSE] :
                                   s \in LockStop([t EXCEPT !.l.current = IF next = o THEN 0 ELSE next])}
                            : t \in Enter(w)}
      BY <2>1
    <3>1. PICK t \in Enter(w) :
             v \in IF next # 0 /\ next # o /\ t.pc.state # "PAUSE"
                   THEN Caught(PlayOrder(t, next))
                   ELSE {[s EXCEPT !.l.playing = FALSE] :
                          s \in LockStop([t EXCEPT !.l.current = IF next = o THEN 0 ELSE next])}
      <4>. HIDE DEF replaced
      <4>. QED
        BY <1>0, <3>0
    <3>. HIDE DEF replaced
    <3>2. t \in Worlds /\ t.q = w.q /\ t.bulk = w.bulk
      BY <1>1, EnterFacts DEF Beside
    <3>3. CASE next # 0 /\ next # o /\ t.pc.state # "PAUSE"
      <4>1. PICK s \in PlayOrder(t, next) : v = [s EXCEPT !.thrown = FALSE]
        BY <3>1, <3>3 DEF Caught
      <4>2. next \in 1..Length(t.q) /\ Good(t.q)
        BY <1>1, <1>3, <3>2, <3>3
      <4>3. Whole(s) /\ Length(s.q) = n /\ s.bulk = w.bulk /\ s.l.current = next
        BY <3>2, <4>2, PlayOrderFacts
      <4>4. Beside(s, v)
        BY <4>1, <4>3, ThrowFacts DEF Whole, Half
      <4>. QED
        BY <3>3, <4>3, <4>4, BesideKeeps DEF Whole, Beside
    <3>4. CASE ~(next # 0 /\ next # o /\ t.pc.state # "PAUSE")
      <4>. DEFINE c == IF next = o THEN 0 ELSE next
                  r == [t EXCEPT !.l = [t.l EXCEPT !.current = c]]
      <4>1. c \in 0..n /\ c # o /\ c \in Nat
        BY <1>1, <1>2, <1>3
      <4>. HIDE DEF c
      <4>2. PICK s \in LockStop([t EXCEPT !.l.current = c]) : v = [s EXCEPT !.l.playing = FALSE]
        BY <3>1, <3>4 DEF c
      <4>3. [t EXCEPT !.l.current = c] = r
        BY <3>2 DEF Worlds
      <4>4. [t.l EXCEPT !.current = c] \in Lists /\ [t.l EXCEPT !.current = c].current = c
        BY <3>2, <4>1, Parts DEF Lists
      <4>5. r \in Worlds /\ r.q = w.q /\ r.bulk = w.bulk /\ r.l.current = c
        BY <3>2, <4>4, OtherList
      <4>. HIDE DEF r
      <4>6. s \in Worlds /\ s.q = w.q /\ s.bulk = w.bulk /\ s.l.current = c
        BY <4>2, <4>3, <4>5, LockStopFacts DEF Beside
      <4>7. v = [s EXCEPT !.l = [s.l EXCEPT !.playing = FALSE]]
        BY <4>2, <4>6 DEF Worlds
      <4>8. /\ [s.l EXCEPT !.playing = FALSE] \in Lists /\ [s.l EXCEPT !.playing = FALSE].current = c
            /\ ~[s.l EXCEPT !.playing = FALSE].playing
        BY <4>6, Parts DEF Lists
      <4>9. v \in Worlds /\ v.q = w.q /\ v.bulk = w.bulk /\ v.l.current = c /\ ~v.l.playing
        BY <4>6, <4>7, <4>8, OtherList
      <4>. QED
        BY <1>1, <4>1, <4>9 DEF Half, Fits
    <3>. QED
      BY <3>3, <3>4
  <2>2. CASE ~w.l.playing /\ w.l.current = o
    <3>1. v = [w EXCEPT !.l.current = 0]
      BY <1>0, <2>2
    <3>2. v = [w EXCEPT !.l = [w.l EXCEPT !.current = 0]]
      BY <1>1, <3>1 DEF Worlds
    <3>3. /\ [w.l EXCEPT !.current = 0] \in Lists /\ [w.l EXCEPT !.current = 0].current = 0
          /\ ~[w.l EXCEPT !.current = 0].playing
      BY <1>1, <2>2, Parts DEF Lists
    <3>4. v \in Worlds /\ v.q = w.q /\ v.bulk = w.bulk /\ v.l.current = 0 /\ ~v.l.playing
      BY <1>1, <3>2, <3>3, OtherList
    <3>5. 0 \in 0..n /\ 0 # o
      BY <1>1, <1>2
    <3>. QED
      BY <1>1, <3>4, <3>5 DEF Half, Fits
  <2>3. CASE w.l.current # o
    <3>1. v = w
      BY <1>0, <2>3
    <3>. QED
      BY <2>3, <3>1
  <2>. QED
    BY <1>1, <2>1, <2>2, <2>3
<1>. HIDE DEF replaced
<1>. DEFINE r == DeletePosition(v.q, p)
            c == Still(v.l.current, o)
            m == [v.l EXCEPT !.current = c]
<1>5. v \in Worlds /\ Good(v.q) /\ v.l.current \in 0..n
  BY <1>4 DEF Half, Fits
<1>6. Good(r) /\ Length(r) = n - 1 /\ r \in Queues
  BY <1>2, <1>4, <1>5, DeletePositionFacts DEF Good, Positions
<1>7. c \in 0..(n - 1) /\ c \in Nat /\ (v.l.current # 0 => c # 0)
  BY <1>1, <1>2, <1>4, <1>5 DEF Still
<1>. HIDE DEF r, c
<1>8. m \in Lists /\ m.current = c /\ m.playing = v.l.playing
  BY <1>5, <1>7, Parts DEF Lists
<1>9. u = [v EXCEPT !.q = r, !.l = m]
  BY <1>0, <1>5 DEF Worlds, r, c
<1>. HIDE DEF m
<1>10. u \in Worlds /\ u.q = r /\ u.l = m /\ u.pc = v.pc /\ u.bulk = v.bulk
  BY <1>5, <1>6, <1>8, <1>9 DEF Worlds
<1>. QED
  BY <1>4, <1>6, <1>7, <1>8, <1>10 DEF Half, Fits

\* Songs are deleted from the last one to the first, and another one is queued.  T[p]
\* is a set of worlds in which the songs from "p" on are gone.
LEMMA DeleteLoop ==
  ASSUME NEW w, Half(w), NEW start \in Positions(w.q),
         NEW end \in start + 1 .. Length(w.q) + 1, NEW u \in DeleteRangeOf(w, start, end),
         NEW T, w \in T[end],
         \A p \in start .. end - 1 : \A v \in T[p + 1] : Half(v) /\ p \in Positions(v.q) =>
            \A t \in DeleteInternal(v, p) : t \in T[p]
  PROVE  \E v \in T[start] : /\ Half(v) /\ Length(v.q) = Length(w.q) - (end - start) /\ v.bulk = w.bulk
                             /\ u \in Requeued(v, QueuedAfter(v, w))
<1>. DEFINE n == Length(w.q)
            Of(p) == {v \in Worlds : Half(v) /\ Length(v.q) = n - (end - p) /\ v.bulk = w.bulk /\ v \in T[p]}
            Turn(p, X) == UNION {DeleteInternal(v, p) : v \in X}
            I == [p \in start .. end |-> SUBSET Of(p)]
            F == [y \in (start .. end) \X SUBSET Worlds |-> Turn(y[1], y[2])]
            done == CHOOSE f : f = [p \in start .. end |->
                        IF p = end THEN {w} ELSE UNION {DeleteInternal(v, p) : v \in f[p + 1]}]
<1>0. /\ n \in Nat /\ start \in Int /\ end \in Int /\ start <= end
      /\ \A p \in start .. end - 1 : p \in start .. end /\ p + 1 \in start .. end
      /\ \A p \in start .. end - 1 : p \in 1 .. n - (end - (p + 1))
  BY QueueFacts DEF Positions, Half, Fits
<1>1. ASSUME NEW p \in start .. end - 1, NEW X \in SUBSET Of(p + 1) PROVE Turn(p, X) \in SUBSET Of(p)
  <2>. SUFFICES ASSUME NEW v \in X, NEW t \in DeleteInternal(v, p)
                PROVE  t \in Of(p)
    OBVIOUS
  <2>1. Half(v) /\ Length(v.q) = n - (end - (p + 1)) /\ v.bulk = w.bulk /\ v \in T[p + 1]
    OBVIOUS
  <2>2. p \in Positions(v.q)
    BY <1>0, <2>1 DEF Positions
  <2>3. Half(t) /\ Length(t.q) = Length(v.q) - 1 /\ t.bulk = v.bulk
    BY <2>1, <2>2, DeleteInternalFacts
  <2>4. Length(t.q) = n - (end - p)
    BY <1>0, <2>1, <2>3
  <2>5. t \in T[p]
    BY <2>1, <2>2
  <2>. QED
    BY <2>1, <2>3, <2>4, <2>5 DEF Half
<1>2. {w} \in SUBSET Of(end)
  <2>1. n = n - (end - end)
    BY <1>0
  <2>. QED
    BY <2>1 DEF Half
<1>3. \A p \in start .. end : Of(p) \in SUBSET Worlds
  OBVIOUS
<1>. HIDE DEF Of
<1>4. \A p \in start .. end : I[p] = SUBSET Of(p)
  OBVIOUS
<1>5. \A p \in start .. end : \A X \in SUBSET Worlds : F[<<p, X>>] = Turn(p, X)
  OBVIOUS
<1>. HIDE DEF I, F
<1>6. \A p \in start .. end - 1 : \A X \in I[p + 1] : F[<<p, X>>] \in I[p]
  <2>. SUFFICES ASSUME NEW p \in start .. end - 1, NEW X \in I[p + 1] PROVE F[<<p, X>>] \in I[p]
    OBVIOUS
  <2>1. X \in SUBSET Of(p + 1) /\ X \in SUBSET Worlds
    BY <1>0, <1>3, <1>4
  <2>2. Turn(p, X) \in SUBSET Of(p)
    BY <1>1, <2>1
  <2>. HIDE DEF Turn
  <2>. QED
    BY <1>0, <1>4, <1>5, <2>1, <2>2
<1>7. {w} \in I[end]
  BY <1>0, <1>2, <1>4
<1>8. PICK g : LoopDown(g, start, end, {w}, F, I)
  BY <1>0, <1>6, <1>7, RecursionDown, Zenon
<1>9. g = [p \in start .. end |-> IF p = end THEN {w} ELSE Turn(p, g[p + 1])]
  <2>1. /\ g = [p \in start .. end |-> IF p = end THEN {w} ELSE F[<<p, g[p + 1]>>]]
        /\ \A p \in start .. end : g[p] \in I[p]
    BY <1>8 DEF LoopDown
  <2>2. ASSUME NEW p \in start .. end, p # end PROVE F[<<p, g[p + 1]>>] = Turn(p, g[p + 1])
    <3>1. p + 1 \in start .. end
      BY <1>0, <2>2
    <3>2. g[p + 1] \in SUBSET Worlds
      BY <1>3, <1>4, <2>1, <3>1
    <3>. HIDE DEF Turn
    <3>. QED
      BY <1>5, <3>2
  <2>. HIDE DEF Turn
  <2>. QED
    BY <2>1, <2>2
<1>10. done = [p \in start .. end |-> IF p = end THEN {w} ELSE Turn(p, done[p + 1])]
  BY <1>9, Zenon
<1>11. DeleteRangeOf(w, start, end) = UNION {Requeued(v, QueuedAfter(v, w)) : v \in done[start]}
  BY Zenon DEF DeleteRangeOf
<1>. HIDE DEF done, Turn
<1>. DEFINE S == {p \in start .. end : done[p] \in SUBSET Of(p)}
<1>12. \A p \in start .. end : p \in S
  <2>1. end \in S
    BY <1>0, <1>2, <1>10
  <2>2. ASSUME NEW p \in start .. (end - 1), p + 1 \in S PROVE p \in S
    <3>1. p \in start .. end - 1 /\ p \in start .. end /\ p # end
      BY <1>0
    <3>2. done[p] = Turn(p, done[p + 1])
      BY <1>10, <3>1
    <3>. QED
      BY <1>1, <2>2, <3>1, <3>2
  <2>. HIDE DEF S
  <2>3. \A p \in start .. (end - 1) : p + 1 \in S => p \in S
    BY <2>2
  <2>. QED
    BY <1>0, <2>1, <2>3, DownTo, Zenon
<1>13. PICK v \in done[start] : u \in Requeued(v, QueuedAfter(v, w))
  BY <1>11
<1>14. v \in Of(start)
  BY <1>0, <1>12
<1>15. Half(v) /\ Length(v.q) = n - (end - start) /\ v.bulk = w.bulk /\ v \in T[start]
  BY <1>14 DEF Of
<1>. QED
  BY <1>13, <1>15

\* playlist::DeleteRange()
LEMMA DeleteRangeOfFacts ==
  ASSUME NEW w, Half(w), ~w.bulk, NEW start \in Positions(w.q),
         NEW end \in start + 1 .. Length(w.q) + 1, NEW u \in DeleteRangeOf(w, start, end)
  PROVE  Whole(u) /\ Length(u.q) = Length(w.q) - (end - start) /\ u.bulk = w.bulk
<1>. DEFINE T == [p \in start .. end |-> Worlds]
<1>0. start \in Int /\ end \in Int /\ start < end
  BY QueueFacts DEF Half, Fits, Positions
<1>1. w \in T[end]
  BY <1>0 DEF Half
<1>2. ASSUME NEW p \in start .. end - 1, NEW v, Half(v), p \in Positions(v.q), NEW t \in DeleteInternal(v, p)
      PROVE  t \in T[p]
  <2>1. p \in start .. end
    BY <1>0
  <2>. QED
    BY <1>2, <2>1, DeleteInternalFacts DEF Half
<1>. HIDE DEF T
<1>3. PICK v \in T[start] : /\ Half(v) /\ Length(v.q) = Length(w.q) - (end - start) /\ v.bulk = w.bulk
                            /\ u \in Requeued(v, QueuedAfter(v, w))
  BY <1>1, <1>2, DeleteLoop
<1>. QED
  BY <1>3, RequeuedFacts

\* A mode of the queue changes.
LEMMA ModeFacts ==
  ASSUME NEW q, Good(q), NEW r \in Queues,
         r.items = q.items, r.order = q.order, r.table = q.table
  PROVE  Good(r) /\ Length(r) = Length(q) /\ Positions(r) = Positions(q)
  BY QueueFacts, SameSongs

\* The song that was played is deleted in consume mode.
LEMMA ConsumeFacts ==
  ASSUME NEW w, Whole(w), ~w.bulk, NEW o \in 1..Length(w.q), NEW u \in Consume(w, o)
  PROVE  Whole(u) /\ u.bulk = w.bulk
<1>. DEFINE mode(v) == IF v.q.consume = "ONE_SHOT" THEN "OFF" ELSE v.q.consume
<1>1. PICK v \in IF w.q.consume = "OFF" THEN {w} ELSE DeleteOrder(w, o) :
         u = [v EXCEPT !.q.consume = mode(v)]
  BY DEF Consume
<1>2. Whole(v) /\ v.bulk = w.bulk
  <2>1. CASE w.q.consume = "OFF"
    BY <1>1, <2>1
  <2>2. CASE w.q.consume # "OFF"
    <3>. DEFINE p == OrderToPosition(w.q, o)
    <3>1. Half(w) /\ Good(w.q) /\ Length(w.q) \in Nat
      BY QueueFacts DEF Whole, Half, Fits
    <3>2. p \in Positions(w.q)
      BY <3>1, QueueFacts DEF OrderToPosition, Positions
    <3>3. v \in DeleteRangeOf(w, p, p + 1)
      BY <1>1, <2>2 DEF DeleteOrder
    <3>. HIDE DEF p
    <3>4. p + 1 \in p + 1 .. Length(w.q) + 1
      BY <3>1, <3>2 DEF Positions
    <3>. QED
      BY <3>1, <3>2, <3>3, <3>4, DeleteRangeOfFacts
  <2>. QED
    BY <2>1, <2>2
<1>. DEFINE r == [v.q EXCEPT !.consume = mode(v)]
<1>3. v \in Worlds /\ Good(v.q) /\ v.q \in Queues
  BY <1>2 DEF Whole, Half, Fits, Good
<1>4. r \in Queues /\ r.items = v.q.items /\ r.order = v.q.order /\ r.table = v.q.table
  <2>1. mode(v) \in Modes
    BY <1>3 DEF Queues, Modes
  <2>. HIDE DEF mode
  <2>. QED
    BY <1>3, <2>1 DEF Queues
<1>5. u = [v EXCEPT !.q = r]
  BY <1>1, <1>3 DEF Worlds
<1>. HIDE DEF r
<1>6. Good(r) /\ Length(r) = Length(v.q)
  BY <1>3, <1>4, ModeFacts
<1>7. Near(v, u)
  BY <1>3, <1>5, <1>6, EditIsNear
<1>. QED
  BY <1>2, <1>7, NearKeeps DEF Near

\* Fields of the list that no lemma is about
LEMMA OtherFields ==
  ASSUME NEW w \in Worlds, NEW m \in Lists,
         m.playing = w.l.playing, m.current = w.l.current, m.queued = w.l.queued
  PROVE  Beside(w, [w EXCEPT !.l = m])
  BY OtherList DEF Beside

\* playlist::PlayNext()
LEMMA PlayNextOfFacts ==
  ASSUME NEW w \in Worlds, Fits(w.q, w.l), w.l.playing, ~w.bulk, NEW u \in PlayNextOf(w)
  PROVE  Whole(u) /\ u.bulk = w.bulk
<1>. DEFINE next == GetNextOrder(w.q, w.l.current)
            condition == w.l.current \in Positions(w.q)
            a == Asserting(w, condition)
            t == [a EXCEPT !.l.stop_on_error = FALSE]
            started == IF next = 0 THEN {[v EXCEPT !.l.current = 0] : v \in StopWith(t)}
                       ELSE UNION {PlayOrder([t EXCEPT !.q = r], next) :
                                     r \in IF next = 1 /\ t.q.random THEN ShuffleOrder(t.q) ELSE {t.q}}
<1>1. PICK v \in started : u = v \/ u \in Consume(v, w.l.current)
  <2>. HIDE DEF next, t
  <2>. QED
    BY DEF PlayNextOf, Then, next, t
<1>. HIDE DEF next, started, t, a, condition
<1>2. w.l.current \in 1..Length(w.q) /\ Length(w.q) \in Nat /\ Good(w.q)
  <2>1. Good(w.q) /\ w.l.current \in 0..Length(w.q) /\ w.l.current # 0
    BY DEF Fits
  <2>. QED
    BY <2>1, QueueFacts
<1>3. next \in 0..Length(w.q)
  BY <1>2, NextOrderFacts DEF next
<1>4. t \in Worlds /\ t.q = w.q /\ t.bulk = w.bulk /\ Fits(t.q, t.l)
  <2>1. condition \in BOOLEAN
    BY <1>2 DEF condition, Positions
  <2>2. Beside(w, a) /\ a \in Worlds
    BY <2>1, AssertingFacts DEF Beside, a
  <2>. DEFINE m == [a.l EXCEPT !.stop_on_error = FALSE]
  <2>3. m \in Lists /\ m.playing = a.l.playing /\ m.current = a.l.current /\ m.queued = a.l.queued
    BY <2>2, Parts DEF Lists
  <2>4. t = [a EXCEPT !.l = m]
    BY <2>2 DEF Worlds, t
  <2>. HIDE DEF m
  <2>5. Beside(a, t)
    BY <2>2, <2>3, <2>4, OtherFields
  <2>6. Beside(w, t)
    BY <2>2, <2>5, BesideTransitive
  <2>. QED
    BY <2>6 DEF Beside, Fits
<1>5. Whole(v) /\ v.bulk = w.bulk /\ Length(v.q) = Length(w.q)
  <2>1. CASE next = 0
    <3>1. PICK s \in StopWith(t) : v = [s EXCEPT !.l.current = 0]
      BY <1>1, <2>1 DEF started
    <3>2. Whole(s) /\ Length(s.q) = Length(w.q) /\ s.bulk = w.bulk /\ ~s.l.playing /\ s \in Worlds
      BY <1>4, StopWithFacts DEF Whole, Half
    <3>. DEFINE m == [s.l EXCEPT !.current = 0]
    <3>3. m \in Lists /\ ~m.playing /\ m.current = 0
      BY <3>2, Parts DEF Lists
    <3>4. v = [s EXCEPT !.l = m]
      BY <3>1, <3>2 DEF Worlds
    <3>. HIDE DEF m
    <3>5. v \in Worlds /\ v.q = s.q /\ v.l = m /\ v.bulk = s.bulk
      BY <3>2, <3>3, <3>4, OtherList
    <3>6. 0 \in 0..Length(v.q)
      BY <1>2, <3>2, <3>5
    <3>. QED
      BY <3>2, <3>3, <3>5, <3>6 DEF Whole, Half, Fits, Listed
  <2>2. CASE next # 0
    <3>1. PICK r \in IF next = 1 /\ t.q.random THEN ShuffleOrder(t.q) ELSE {t.q} :
             v \in PlayOrder([t EXCEPT !.q = r], next)
      BY <1>1, <2>2 DEF started
    <3>2. Good(r) /\ Length(r) = Length(w.q) /\ r \in Queues
      BY <1>2, <1>4, ShuffleOrderFacts DEF Good
    <3>. DEFINE s == [t EXCEPT !.q = r]
    <3>3. s \in Worlds /\ s.q = r /\ s.bulk = t.bulk
      BY <1>4, <3>2, OtherQueue
    <3>4. v \in PlayOrder(s, next)
      BY <3>1
    <3>. HIDE DEF s
    <3>5. next \in 1..Length(s.q) /\ Good(s.q)
      BY <1>2, <1>3, <2>2, <3>2, <3>3
    <3>. QED
      BY <1>4, <3>2, <3>3, <3>4, <3>5, PlayOrderFacts
  <2>. QED
    BY <2>1, <2>2
<1>6. w.l.current \in 1..Length(v.q)
  BY <1>2, <1>5
<1>. QED
  BY <1>1, <1>5, <1>6, ConsumeFacts

\* The player has stopped: the playlist stops, or goes on with the next song.
LEMMA ResumePlaybackFacts ==
  ASSUME NEW w \in Worlds, Fits(w.q, w.l), w.l.playing, ~w.bulk, NEW u \in ResumePlayback(w)
  PROVE  Whole(u)
<1>. DEFINE errors == IF w.pc.error = "NONE" THEN 0 ELSE w.l.errors + 1
            v == [w EXCEPT !.l.errors = errors]
            m == [w.l EXCEPT !.errors = errors]
<1>1. u \in StopWith(v) \/ u \in Caught(PlayNextOf(v))
  <2>. HIDE DEF v
  <2>. QED
    BY DEF ResumePlayback, v
<1>2. m \in Lists /\ m.playing = w.l.playing /\ m.current = w.l.current /\ m.queued = w.l.queued
  <2>1. w.l \in Lists /\ errors \in Nat
    BY Parts DEF Lists
  <2>. HIDE DEF errors
  <2>. QED
    BY <2>1 DEF Lists
<1>3. v = [w EXCEPT !.l = m]
  BY DEF Worlds
<1>. HIDE DEF v, m
<1>4. Beside(w, v)
  BY <1>2, <1>3, OtherFields
<1>5. v \in Worlds /\ Fits(v.q, v.l) /\ v.l.playing /\ ~v.bulk
  BY <1>4 DEF Beside, Fits
<1>6. ASSUME u \in Caught(PlayNextOf(v)) PROVE Whole(u)
  <2>1. PICK t \in PlayNextOf(v) : u = [t EXCEPT !.thrown = FALSE]
    BY <1>6 DEF Caught
  <2>2. Whole(t) /\ t \in Worlds
    BY <1>5, PlayNextOfFacts DEF Whole, Half
  <2>. QED
    BY <2>1, <2>2, ThrowFacts, BesideKeeps
<1>. QED
  BY <1>1, <1>5, <1>6, StopWithFacts

\* PlayerControl::ClearError()
LEMMA ClearErrorFacts ==
  ASSUME NEW w \in Worlds
  PROVE  Beside(w, ClearError(w))
<1>. DEFINE p == [w.pc EXCEPT !.error = "NONE"]
<1>1. p \in Players /\ (Quiet(p) => Quiet(w.pc))
  BY Parts DEF Players, Quiet
<1>2. ClearError(w) = [w EXCEPT !.pc = p]
  BY DEF Worlds, ClearError
<1>. HIDE DEF p
<1>. QED
  BY <1>1, <1>2, WithPlayer

\* Playing starts without an error.
LEMMA NoErrorFacts ==
  ASSUME NEW w \in Worlds
  PROVE  Beside(w, NoError(w))
<1>. DEFINE v == ClearError(w)
            m == [v.l EXCEPT !.stop_on_error = FALSE, !.errors = 0]
<1>1. Beside(w, v) /\ v \in Worlds
  BY ClearErrorFacts DEF Beside
<1>. HIDE DEF v
<1>2. m \in Lists /\ m.playing = v.l.playing /\ m.current = v.l.current /\ m.queued = v.l.queued
  BY <1>1, Parts DEF Lists
<1>3. NoError(w) = [v EXCEPT !.l = m]
  BY <1>1 DEF Worlds, NoError, v
<1>. HIDE DEF m
<1>. QED
  BY <1>1, <1>2, <1>3, OtherFields, BesideTransitive

\* playlist::PlayPosition()
LEMMA PlayPositionOfFacts ==
  ASSUME NEW w \in Worlds, Fits(w.q, w.l), NEW p \in Positions(w.q), NEW u \in PlayPositionOf(w, p)
  PROVE  Whole(u) /\ u.bulk = w.bulk
<1>. DEFINE o == IF w.q.random THEN PositionToOrder(w.q, p) ELSE p
            m == MoveOrderToCurrent(w, o)
            v == NoError(w)
            t == [v EXCEPT !.q = m.q]
<1>1. o \in 1..Length(w.q)
  BY PositionFacts DEF Fits, Positions
<1>2. u \in PlayOrder(t, m.o)
  <2>. HIDE DEF o, v
  <2>. QED
    BY DEF PlayPositionOf, o, v
<1>. HIDE DEF o
<1>3. Good(m.q) /\ Length(m.q) = Length(w.q) /\ m.o \in 1..Length(w.q) /\ m.q \in Queues
  BY <1>1, MoveOrderToCurrentFacts DEF Good
<1>. HIDE DEF m
<1>4. v \in Worlds /\ v.bulk = w.bulk
  BY NoErrorFacts DEF Beside
<1>. HIDE DEF v
<1>5. t \in Worlds /\ t.q = m.q /\ t.bulk = v.bulk
  BY <1>3, <1>4, OtherQueue
<1>. HIDE DEF t
<1>. QED
  BY <1>2, <1>3, <1>4, <1>5, PlayOrderFacts

\* A seek starts another song if it has to.
LEMMA SeekSongOrderFacts ==
  ASSUME NEW w \in Worlds, Fits(w.q, w.l), ~w.bulk, NEW o \in 1..Length(w.q), NEW zero,
         NEW u \in SeekSongOrder(w, o, zero)
  PROVE  Whole(u)
<1>. DEFINE m == MoveOrderToCurrent(w, o)
            a == ClearError(w)
            l == [a.l EXCEPT !.stop_on_error = TRUE, !.errors = 0, !.queued = 0]
            v == [a EXCEPT !.l = l]
            k == [l EXCEPT !.playing = TRUE, !.current = m.o]
            t == IF w.l.playing /\ w.l.current = o THEN v
                 ELSE [v EXCEPT !.q = m.q, !.l = k]
            song == AtOrder(t.q, t.l.current).song
<1>1. a \in Worlds /\ a.q = w.q /\ a.bulk = w.bulk /\ a.l.playing = w.l.playing /\ a.l.current = w.l.current
  BY ClearErrorFacts DEF Beside
<1>2. m.q \in Queues /\ Good(m.q) /\ Length(m.q) = Length(w.q) /\ m.o \in 1..Length(w.q) /\ Length(w.q) \in Nat
  BY MoveOrderToCurrentFacts, QueueFacts DEF Good, Fits
<1>3. PICK s \in SeekLocked(t, song, zero) : u \in UpdateQueuedSong([s EXCEPT !.thrown = FALSE], 0)
  <2>. DEFINE V == [a EXCEPT !.l.stop_on_error = TRUE, !.l.errors = 0, !.l.queued = 0]
              T == IF w.l.playing /\ w.l.current = o THEN V
                   ELSE [V EXCEPT !.q = m.q, !.l.playing = TRUE, !.l.current = m.o]
  <2>1. V = v
    <3>. HIDE DEF a
    <3>. QED
      BY <1>1 DEF Worlds
  <2>2. [v EXCEPT !.q = m.q, !.l.playing = TRUE, !.l.current = m.o] = [v EXCEPT !.q = m.q, !.l = k]
    <3>1. v \in Worlds /\ v.l = l
      <4>. HIDE DEF a
      <4>1. l \in Lists
        BY <1>1, Parts DEF Lists
      <4>. HIDE DEF l
      <4>. QED
        BY <1>1, <4>1, OtherList
    <3>. HIDE DEF v, l, m
    <3>. QED
      BY <3>1 DEF Worlds
  <2>3. T = t
    BY <2>1, <2>2, Zenon
  <2>4. SeekSongOrder(w, o, zero)
          = UNION {UpdateQueuedSong([s EXCEPT !.thrown = FALSE], 0) :
                   s \in SeekLocked(T, AtOrder(T.q, T.l.current).song, zero)}
    BY Zenon DEF SeekSongOrder
  <2>. HIDE DEF T, t
  <2>. QED
    BY <2>3, <2>4
<1>. HIDE DEF a, m
<1>4. l \in Lists /\ l.playing = w.l.playing /\ l.current = w.l.current /\ l.queued = 0
  BY <1>1, Parts DEF Lists
<1>. HIDE DEF l
<1>5. v \in Worlds /\ v.q = w.q /\ v.l = l /\ v.bulk = w.bulk /\ v.pc = a.pc
  BY <1>1, <1>4, OtherList
<1>. HIDE DEF v
<1>6. k \in Lists /\ k.playing /\ k.current = m.o /\ k.queued = 0
  <2>1. m.o \in Nat
    BY <1>2
  <2>. HIDE DEF t, song
  <2>. QED
    BY <1>4, <2>1 DEF Lists
<1>. HIDE DEF k
<1>7. t \in Worlds /\ Fits(t.q, t.l) /\ t.l.playing /\ t.l.queued = 0 /\ t.bulk = w.bulk
      /\ t.l.current \in 1..Length(t.q)
  <2>1. CASE w.l.playing /\ w.l.current = o
    BY <1>4, <1>5, <2>1 DEF Fits
  <2>2. CASE ~(w.l.playing /\ w.l.current = o)
    <3>1. t = [v EXCEPT !.q = m.q, !.l = k]
      BY <2>2
    <3>. HIDE DEF t
    <3>2. t \in Worlds /\ t.q = m.q /\ t.l = k /\ t.bulk = v.bulk
      BY <1>2, <1>5, <1>6, <3>1 DEF Worlds
    <3>3. t.l.current # 0 /\ t.l.current \in 0..Length(t.q) /\ t.l.current \in 1..Length(t.q)
      BY <1>2, <1>6, <3>2
    <3>. QED
      BY <1>2, <1>5, <1>6, <3>2, <3>3 DEF Fits
  <2>. QED
    BY <2>1, <2>2
<1>8. song \in Songs
  BY <1>7, SongFacts DEF Fits
<1>. HIDE DEF t, song
<1>9. Beside(t, s) /\ ~Quiet(s.pc)
  BY <1>7, <1>8, SeekLockedFacts
<1>10. Half(s) /\ ~s.bulk
  BY <1>7, <1>9 DEF Half, Fits, Beside
<1>11. Beside(s, [s EXCEPT !.thrown = FALSE])
  BY <1>10, ThrowFacts DEF Half
<1>12. Half([s EXCEPT !.thrown = FALSE]) /\ ~[s EXCEPT !.thrown = FALSE].bulk
  BY <1>10, <1>11, BesideKeeps DEF Beside
<1>. QED
  BY <1>3, <1>12, UpdateQueuedSongFacts

\* The player has gone on to the song that was queued.
LEMMA QueuedSongStartedFacts ==
  ASSUME NEW w, Whole(w), ~w.bulk, w.l.playing, w.l.queued # 0, NEW u \in QueuedSongStarted(w)
  PROVE  Whole(u) /\ ~u.bulk
<1>. DEFINE condition == w.l.current # 0
            a == Asserting(w, condition)
            m == [a.l EXCEPT !.current = w.l.queued, !.queued = 0]
            v == [a EXCEPT !.l = m]
<1>1. /\ w \in Worlds /\ Good(w.q) /\ Length(w.q) \in Nat
      /\ w.l.current \in 1..Length(w.q) /\ w.l.queued \in 1..Length(w.q)
  <2>1. /\ w \in Worlds /\ Good(w.q) /\ w.l.current \in 0..Length(w.q) /\ w.l.current # 0
        /\ w.l.queued \in 0..Length(w.q)
    BY DEF Whole, Half, Fits, Listed
  <2>2. Length(w.q) \in Nat
    BY <2>1, QueueFacts
  <2>. QED
    BY <2>1, <2>2
<1>2. condition = TRUE
  BY <1>1
<1>. HIDE DEF condition
<1>3. Beside(w, a) /\ a.pc = w.pc
  BY <1>1, <1>2, AssertingFacts
<1>4. a \in Worlds /\ a.q = w.q /\ a.bulk = w.bulk /\ a.l.playing = w.l.playing
  BY <1>3 DEF Beside
<1>5. PICK t \in Consume([a EXCEPT !.l.current = w.l.queued, !.l.queued = 0], w.l.current) :
        u = SongStarted(t)
  BY DEF QueuedSongStarted, a, condition
<1>. HIDE DEF a
<1>6. [a EXCEPT !.l.current = w.l.queued, !.l.queued = 0] = v
  BY <1>4 DEF Worlds
<1>7. m \in Lists /\ m.current = w.l.queued /\ m.queued = 0 /\ m.playing = w.l.playing
  <2>1. w.l.queued \in Nat /\ a.l \in Lists
    BY <1>1, <1>4, Parts
  <2>. QED
    BY <1>4, <2>1 DEF Lists
<1>. HIDE DEF m
<1>8. v \in Worlds /\ v.q = w.q /\ v.l = m /\ v.pc = w.pc /\ v.bulk = w.bulk
  BY <1>3, <1>4, <1>7, OtherList
<1>. HIDE DEF v
<1>9. Whole(v) /\ ~v.bulk
  <2>1. v.l.current \in 0..Length(v.q) /\ v.l.current # 0 /\ v.l.queued \in 0..Length(v.q)
    BY <1>1, <1>7, <1>8
  <2>. QED
    BY <1>1, <1>7, <1>8, <2>1 DEF Whole, Half, Fits, Listed
<1>10. Whole(t) /\ ~t.bulk
  BY <1>1, <1>5, <1>6, <1>8, <1>9, ConsumeFacts
<1>11. Near(t, u)
  BY <1>5, <1>10, SongStartedFacts DEF Whole, Half, Fits
<1>. QED
  BY <1>10, <1>11, NearKeeps DEF Near

\* A song is appended; in random mode its place in the order is drawn.
LEMMA AppendToFacts ==
  ASSUME NEW w, Whole(w), Length(w.q) < MaxLength, NEW song \in Songs, NEW u \in AppendTo(w, song)
  PROVE  Whole(u) /\ Length(u.q) = Length(w.q) + 1 /\ u.bulk = w.bulk
<1>. DEFINE r == AppendSong(w.q, song)
            start == IF w.l.queued # 0 THEN w.l.queued + 1 ELSE w.l.current + 1
            appended == IF r.random /\ start <= Length(r) THEN ShuffleOrderLastWithPriority(r, start)
                        ELSE {r}
<1>1. PICK s \in appended : u \in Requeued([w EXCEPT !.q = s], GetQueuedSong(w))
  <2>. HIDE DEF r, start
  <2>. QED
    BY DEF AppendTo, r, start
<1>2. w \in Worlds /\ Good(w.q) /\ Length(w.q) \in Nat /\ w.l.queued \in Nat /\ w.l.current \in Nat
  BY QueueFacts, Parts DEF Whole, Half, Fits
<1>3. Good(r) /\ Length(r) = Length(w.q) + 1
  <2>1. 0 \in Bytes
    BY DEF Bytes
  <2>. QED
    BY <1>2, <2>1, AppendItemFacts DEF AppendSong
<1>4. start \in Nat \ {0}
  BY <1>2
<1>. HIDE DEF r, start
<1>5. Good(s) /\ Length(s) = Length(w.q) + 1 /\ s \in Queues
  <2>1. CASE start <= Length(r)
    <3>1. start \in 1..Length(r)
      BY <1>2, <1>3, <1>4, <2>1
    <3>. QED
      BY <1>3, <3>1, ShuffleLastFacts DEF Good
  <2>2. CASE ~(start <= Length(r))
    BY <1>3, <2>2 DEF Good
  <2>. QED
    BY <2>1, <2>2
<1>. HIDE DEF appended
<1>. DEFINE v == [w EXCEPT !.q = s]
<1>6. v \in Worlds /\ v.q = s /\ v.l = w.l /\ v.pc = w.pc /\ v.bulk = w.bulk
  BY <1>2, <1>5, OtherQueue
<1>7. u \in Requeued(v, GetQueuedSong(w))
  BY <1>1
<1>. HIDE DEF v
<1>8. v.l.current \in 0..Length(v.q) /\ (w.l.playing => v.l.queued \in 0..Length(v.q))
  <2>1. w.l.current \in 0..Length(w.q) /\ (w.l.playing => w.l.queued \in 0..Length(w.q))
    BY DEF Whole, Half, Fits, Listed
  <2>2. 0..Length(w.q) \subseteq 0..Length(v.q)
    BY <1>2, <1>5, <1>6
  <2>. QED
    BY <1>6, <2>1, <2>2
<1>9. Whole(v)
  BY <1>5, <1>6, <1>8 DEF Whole, Half, Fits, Listed
<1>. QED
  BY <1>5, <1>6, <1>7, <1>9, RequeuedFacts DEF Whole

----------------------------------------------------------------------------
(***************************************************************************)
(* The invariant, and the events of the player thread.                     *)
(***************************************************************************)

\* The queue is well formed, "current" and "queued" are songs of it, and a player
\* that has stopped has told.
Inv ==
  /\ Good(queue) /\ list \in Lists /\ pc \in Players
  /\ Fits(queue, list) /\ Listed(queue, list)
  /\ ~(list.playing /\ Quiet(pc))
  /\ left \in 0..MaxCommands

\* The invariant says that the world a command begins with is well formed.
LEMMA WorldFacts ==
  ASSUME Inv
  PROVE  /\ Whole(World) /\ World \in Worlds /\ ~World.bulk
         /\ World.q = queue /\ World.l = list /\ World.pc = pc
         /\ Good(queue) /\ Fits(queue, list) /\ Length(queue) \in Nat
<1>1. queue \in Queues /\ list \in Lists /\ pc \in Players /\ Length(queue) \in Nat
  BY QueueFacts DEF Inv
<1>2. World \in Worlds /\ ~World.bulk
  BY <1>1 DEF World, Worlds
<1>3. World.q = queue /\ World.l = list /\ World.pc = pc
  BY DEF World
<1>. QED
  BY <1>1, <1>2, <1>3 DEF Whole, Half, Inv

\* The world an action ends in
LEMMA Landing ==
  ASSUME NEW w, Whole(w), queue' = w.q, list' = w.l, pc' = w.pc, left' \in 0..MaxCommands
  PROVE  Inv'
<1>1. w.l \in Lists /\ w.pc \in Players
  BY Parts DEF Whole, Half
<1>. QED
  BY <1>1 DEF Whole, Half, Fits, Inv

\* A command ends in one of its worlds.
LEMMA CommandFacts ==
  ASSUME Inv, NEW STATE S, Command(S)
  PROVE  /\ \E w \in S : queue' = w.q /\ list' = w.l /\ pc' = w.pc
         /\ left' \in 0..MaxCommands
<1>1. left \in 0..MaxCommands /\ left > 0 /\ left' = left - 1
  BY DEF Command, Inv
<1>2. left' \in 0..MaxCommands
  BY <1>1, PlaylistAssumption
<1>. QED
  BY <1>2 DEF Command, Result

\* From here on, one lemma per action: it keeps the invariant.
LEMMA PlayerThreadKeeps ==
  ASSUME Inv, PlayerThread
  PROVE  Inv'
<1>1. PICK p \in PlayerSteps(pc) : pc' = p
  BY DEF PlayerThread
<1>2. p \in Players /\ ~Quiet(p)
  BY <1>1, PlayerStepsFacts DEF Inv
<1>. QED
  BY <1>1, <1>2 DEF Inv, PlayerThread

\* SyncWithPlayer() takes the player's event; if the player has stopped, it is the
\* playlist's turn.
LEMMA SyncWithPlayerKeeps ==
  ASSUME Inv, SyncWithPlayer
  PROVE  Inv'
<1>. DEFINE p == [pc EXCEPT !.sync = FALSE]
            W == [World EXCEPT !.pc = p]
<1>0. left' \in 0..MaxCommands
  BY DEF Inv, SyncWithPlayer
<1>1. p \in Players /\ World \in Worlds
  BY WorldFacts DEF Inv, Players
<1>2. [World EXCEPT !.pc.sync = FALSE] = W
  BY <1>1, WorldFacts DEF Worlds
<1>. HIDE DEF p
<1>3. W \in Worlds /\ W.q = queue /\ W.l = list /\ W.pc = p /\ ~W.bulk
  BY <1>1, WorldFacts, OtherPlayer
<1>. DEFINE Heard(v) == IF v.pc.next = None /\ v.l.queued # 0 THEN QueuedSongStarted(v) ELSE {v}
            Told(u) == IF u.pc.next = None /\ u.l.queued = 0 THEN UpdateQueuedSong(u, 0) ELSE {u}
            Goes(v) == IF v.pc.state = "STOP" THEN ResumePlayback(v)
                       ELSE UNION {UNION {Told(u) : u \in Enter(t)} : t \in Heard(v)}
<1>4. CASE ~list.playing
  <2>1. queue' = W.q /\ list' = W.l /\ pc' = W.pc
    BY <1>2, <1>4 DEF SyncWithPlayer, Result
  <2>2. Whole(W)
    BY <1>3, <1>4, WorldFacts DEF Whole, Half, Listed
  <2>. QED
    BY <1>0, <2>1, <2>2, Landing
<1>5. CASE list.playing
  <2>1. Result(UNION {Goes(v) : v \in Enter(W)})
    <3>. HIDE DEF W
    <3>. QED
      BY <1>2, <1>5, Zenon DEF SyncWithPlayer
  <2>. HIDE DEF W, Goes
  <2>2. PICK v \in Enter(W) : \E x \in Goes(v) : queue' = x.q /\ list' = x.l /\ pc' = x.pc
    BY <2>1 DEF Result
  <2>3. PICK x \in Goes(v) : queue' = x.q /\ list' = x.l /\ pc' = x.pc
    BY <2>2
  <2>4. Beside(W, v)
    BY <1>3, EnterFacts
  <2>5. v \in Worlds /\ Fits(v.q, v.l) /\ Listed(v.q, v.l) /\ v.l.playing /\ ~v.bulk
    BY <1>3, <1>5, <2>4 DEF Beside, Fits, Listed, Inv
  <2>6. Whole(x)
    <3>1. CASE v.pc.state = "STOP"
      BY <2>5, <3>1, ResumePlaybackFacts DEF Goes
    <3>2. CASE v.pc.state # "STOP"
      <4>1. PICK t \in Heard(v) : \E u \in Enter(t) : x \in Told(u)
        <5>. HIDE DEF Heard, Told
        <5>. QED
          BY <3>2 DEF Goes
      <4>2. PICK u \in Enter(t) : x \in Told(u)
        BY <4>1
      <4>3. Whole(v)
        BY <2>5, <3>2 DEF Whole, Half, Quiet
      <4>4. Whole(t) /\ ~t.bulk
        BY <2>5, <4>3, QueuedSongStartedFacts
      <4>5. Beside(t, u)
        BY <4>4, EnterFacts DEF Whole, Half
      <4>6. Whole(u) /\ ~u.bulk
        BY <4>4, <4>5, BesideKeeps DEF Beside
      <4>. QED
        BY <4>2, <4>6, UpdateQueuedSongFacts DEF Whole
    <3>. QED
      BY <3>1, <3>2
  <2>. QED
    BY <1>0, <2>3, <2>6, Landing
<1>. QED
  BY <1>4, <1>5

\* playlist::BorderPause()
LEMMA BorderPauseKeeps ==
  ASSUME Inv, BorderPause
  PROVE  Inv'
<1>. DEFINE w == [World EXCEPT !.pc.bordered = FALSE]
            p == [pc EXCEPT !.bordered = FALSE]
<1>0. left' \in 0..MaxCommands
  BY DEF Inv, BorderPause
<1>1. p \in Players /\ (Quiet(p) => Quiet(pc)) /\ World \in Worlds
  BY WorldFacts DEF Inv, Players, Quiet
<1>2. w = [World EXCEPT !.pc = p]
  BY <1>1, WorldFacts DEF Worlds
<1>. HIDE DEF p
<1>3. Whole(w) /\ w \in Worlds
  <2>1. Beside(World, [World EXCEPT !.pc = p])
    BY <1>1, WorldFacts, WithPlayer
  <2>. QED
    BY <1>2, <2>1, WorldFacts, BesideKeeps DEF Beside
<1>4. \/ queue' = w.q /\ list' = w.l /\ pc' = w.pc
      \/ LET v == [w EXCEPT !.q.single = "OFF", !.pc.border = FALSE] IN
         queue' = v.q /\ list' = v.l /\ pc' = v.pc
  <2>. HIDE DEF w
  <2>. QED
    BY DEF BorderPause, Result, w
<1>. HIDE DEF w
<1>. DEFINE v == [w EXCEPT !.q.single = "OFF", !.pc.border = FALSE]
            r == [w.q EXCEPT !.single = "OFF"]
            b == [w.pc EXCEPT !.border = FALSE]
<1>5. r \in Queues /\ r.items = w.q.items /\ r.order = w.q.order /\ r.table = w.q.table
  BY <1>3, Parts DEF Queues, Modes
<1>6. b \in Players /\ (Quiet(b) => Quiet(w.pc))
  BY <1>3, Parts DEF Players, Quiet
<1>7. v = [w EXCEPT !.q = r, !.pc = b]
  BY <1>3 DEF Worlds
<1>. HIDE DEF r, b
<1>8. v \in Worlds /\ v.q = r /\ v.l = w.l /\ v.pc = b /\ v.bulk = w.bulk
  BY <1>3, <1>5, <1>6, <1>7 DEF Worlds
<1>9. Good(r) /\ Length(r) = Length(w.q)
  BY <1>3, <1>5, ModeFacts DEF Whole, Half, Fits
<1>10. Near(w, v)
  <2>. HIDE DEF v
  <2>. QED
    BY <1>6, <1>8, <1>9 DEF Near
<1>11. Whole(v)
  BY <1>3, <1>10, NearKeeps
<1>. HIDE DEF v
<1>. QED
  BY <1>0, <1>3, <1>4, <1>11, Landing DEF v

\* An edit that leaves order and playback alone
LEMMA EditedFacts ==
  ASSUME NEW w, Whole(w), NEW r, Good(r), Length(r) = Length(w.q)
  PROVE  Whole([w EXCEPT !.q = r]) /\ Whole(OnModified([w EXCEPT !.q = r]))
<1>. DEFINE v == [w EXCEPT !.q = r]
<1>1. Near(w, v)
  BY EditIsNear DEF Whole, Half
<1>2. Whole(v)
  BY <1>1, NearKeeps
<1>. HIDE DEF v
<1>3. Near(v, OnModified(v))
  BY <1>2, OnModifiedFacts DEF Whole, Half, Fits
<1>. QED
  BY <1>2, <1>3, NearKeeps DEF v

\* playlist::TagModified()
LEMMA TagModifiedKeeps ==
  ASSUME Inv, TagModified
  PROVE  Inv'
<1>. DEFINE condition == list.current # 0
            w == Asserting(World, condition)
            p == CurrentPosition(w)
            e == IF w.q.items[p].song = pc.song THEN NewTag(w.q, p) ELSE w.q
            r == ModifyAtPosition(e, p)
            v == OnModified([w EXCEPT !.q = r])
<1>0. left' \in 0..MaxCommands /\ list.playing
  <2>1. left \in 0..MaxCommands /\ left > 0 /\ left' = left - 1 /\ list.playing
    BY DEF TagModified, Inv
  <2>. QED
    BY <2>1, PlaylistAssumption
<1>1. condition \in BOOLEAN
  OBVIOUS
<1>. HIDE DEF condition
<1>2. Beside(World, w)
  BY <1>1, WorldFacts, AssertingFacts
<1>3. queue' = v.q /\ list' = v.l /\ pc' = v.pc
  <2>. HIDE DEF w, e, v
  <2>1. Result({v})
    BY Zenon DEF TagModified, w, condition, e, v
  <2>. QED
    BY <2>1 DEF Result
<1>. HIDE DEF w
<1>4. Whole(w) /\ w \in Worlds /\ Good(w.q) /\ w.l.current \in 0..Length(w.q) /\ w.l.current # 0
  BY <1>0, <1>2, WorldFacts, BesideKeeps DEF Beside, Fits
<1>5. p \in Positions(w.q)
  BY <1>4, CurrentPositionFacts
<1>. HIDE DEF p
<1>6. Good(e) /\ Length(e) = Length(w.q)
  BY <1>4, <1>5, EditFacts
<1>. HIDE DEF e
<1>7. Good(r) /\ Length(r) = Length(w.q)
  BY <1>5, <1>6, ModifyFacts DEF Positions
<1>. HIDE DEF r
<1>8. Whole(v)
  BY <1>4, <1>7, EditedFacts
<1>. HIDE DEF v
<1>. QED
  BY <1>0, <1>3, <1>8, Landing

----------------------------------------------------------------------------
(***************************************************************************)
(* Commands that edit the queue.                                           *)
(***************************************************************************)

\* playlist::AppendSong()
LEMMA AddKeeps ==
  ASSUME Inv, NEW song \in Songs, Add(song)
  PROVE  Inv'
<1>1. Command(AppendTo(World, song)) /\ Length(queue) < MaxLength
  BY DEF Add
<1>2. PICK w \in AppendTo(World, song) : queue' = w.q /\ list' = w.l /\ pc' = w.pc
  BY <1>1, CommandFacts
<1>3. Whole(w)
  BY <1>1, WorldFacts, AppendToFacts
<1>. QED
  BY <1>1, <1>2, <1>3, CommandFacts, Landing

\* Whether a bulk edit has begun or ended
LEMMA OtherBulk ==
  ASSUME NEW w, Whole(w), NEW b \in BOOLEAN
  PROVE  /\ Whole([w EXCEPT !.bulk = b]) /\ [w EXCEPT !.bulk = b].bulk = b
         /\ [w EXCEPT !.bulk = b].q = w.q
<1>. DEFINE v == [w EXCEPT !.bulk = b]
<1>1. v \in Worlds /\ v.bulk = b /\ v.q = w.q /\ v.l = w.l /\ v.pc = w.pc
  BY DEF Worlds, Whole, Half
<1>. HIDE DEF v
<1>2. Whole(v)
  BY <1>1 DEF Whole, Half
<1>. QED
  BY <1>1, <1>2 DEF v

\* playlist::AppendSong(), twice in one bulk edit
LEMMA AddTwoKeeps ==
  ASSUME Inv, NEW first \in Songs, NEW second \in Songs, AddTwo(first, second)
  PROVE  Inv'
<1>. DEFINE W == [World EXCEPT !.bulk = TRUE]
            bulk == UNION {AppendTo(w, second) : w \in AppendTo(W, first)}
            commit == {[w EXCEPT !.bulk = FALSE] : w \in bulk}
            S == {OnModified(w) : w \in
                    UNION {IF w.l.queued = 0 THEN UpdateQueuedSong(w, 0) ELSE {w} : w \in commit}}
<1>1. Command(S) /\ Length(queue) + 1 < MaxLength
  BY DEF AddTwo
<1>. HIDE DEF W
<1>2. PICK x \in S : queue' = x.q /\ list' = x.l /\ pc' = x.pc
  <2>. HIDE DEF S
  <2>. QED
    BY <1>1, CommandFacts
<1>3. PICK c \in commit : \E y \in IF c.l.queued = 0 THEN UpdateQueuedSong(c, 0) ELSE {c} :
                             x = OnModified(y)
  <2>. HIDE DEF commit
  <2>. QED
    BY <1>2
<1>4. PICK y \in IF c.l.queued = 0 THEN UpdateQueuedSong(c, 0) ELSE {c} : x = OnModified(y)
  BY <1>3
<1>5. PICK b \in bulk : c = [b EXCEPT !.bulk = FALSE]
  <2>. HIDE DEF bulk
  <2>. QED
    BY <1>3
<1>6. PICK a \in AppendTo(W, first) : b \in AppendTo(a, second)
  BY <1>5
<1>7. Length(queue) < MaxLength /\ Length(queue) \in Nat
  BY <1>1, WorldFacts, Sizes
<1>8. Whole(W) /\ W.q = queue
  BY WorldFacts, OtherBulk DEF W
<1>9. Whole(a) /\ Length(a.q) = Length(queue) + 1
  BY <1>6, <1>7, <1>8, AppendToFacts
<1>10. Whole(b)
  <2>1. Length(a.q) < MaxLength
    BY <1>1, <1>9
  <2>. QED
    BY <1>6, <1>9, <2>1, AppendToFacts
<1>11. Whole(c) /\ ~c.bulk
  BY <1>5, <1>10, OtherBulk
<1>12. Whole(y)
  BY <1>4, <1>11, UpdateQueuedSongFacts DEF Whole
<1>13. Whole(x)
  BY <1>4, <1>12, OnModifiedFacts, NearKeeps DEF Whole, Half, Fits
<1>. HIDE DEF S
<1>. QED
  BY <1>1, <1>2, <1>13, CommandFacts, Landing

\* playlist::DeleteRange()
LEMMA DeleteRangeKeeps ==
  ASSUME Inv, NEW start \in Positions(queue), NEW end \in start + 1 .. Length(queue) + 1,
         DeleteRange(start, end)
  PROVE  Inv'
<1>1. Command(DeleteRangeOf(World, start, end))
  BY DEF DeleteRange
<1>2. PICK w \in DeleteRangeOf(World, start, end) : queue' = w.q /\ list' = w.l /\ pc' = w.pc
  BY <1>1, CommandFacts
<1>3. Half(World) /\ ~World.bulk /\ start \in Positions(World.q) /\ end \in start + 1 .. Length(World.q) + 1
  BY WorldFacts DEF Whole
<1>4. Whole(w)
  BY <1>2, <1>3, DeleteRangeOfFacts
<1>. QED
  BY <1>1, <1>2, <1>4, CommandFacts, Landing

\* The instances of a song are deleted from the last one to the first; the lengths
\* of the queue on the way are not known, but no position is missed.
\* T is a set of worlds that a deletion does not leave.
LEMMA StaleLoop ==
  ASSUME NEW w, Whole(w), ~w.bulk, NEW song, NEW u \in StaleSongOf(w, song), NEW T, w \in T,
         \A v \in T : \A p \in Positions(v.q) : Whole(v) /\ ~v.bulk =>
            \A t \in DeleteRangeOf(v, p, p + 1) : t \in T
  PROVE  Whole(u) /\ u \in T
<1>. DEFINE b == Length(w.q) + 1
            kept == IF w.l.playing THEN CurrentPosition(w) ELSE 0
            Of(p) == {v \in Worlds : Whole(v) /\ Length(v.q) >= p - 1 /\ ~v.bulk /\ v \in T}
            Turn(p, X) == UNION {IF v.q.items[p].song = song /\ p # kept
                                 THEN DeleteRangeOf(v, p, p + 1) ELSE {v} : v \in X}
            I == [p \in 1..b |-> SUBSET Of(p)]
            F == [y \in (1..b) \X SUBSET Worlds |-> Turn(y[1], y[2])]
            done == CHOOSE f : f = [p \in 1 .. Length(w.q) + 1 |->
                        IF p = Length(w.q) + 1 THEN {w}
                        ELSE UNION {IF v.q.items[p].song = song /\ p # kept
                                    THEN DeleteRangeOf(v, p, p + 1) ELSE {v} : v \in f[p + 1]}]
<1>0. /\ Length(w.q) \in Nat /\ 1 \in Int /\ b \in Int /\ 1 <= b
      /\ \A p \in 1 .. b - 1 : p \in 1..b /\ p + 1 \in 1..b
  BY QueueFacts DEF Whole, Half, Fits
<1>. HIDE DEF kept
<1>1. ASSUME NEW p \in 1 .. b - 1, NEW X \in SUBSET Of(p + 1) PROVE Turn(p, X) \in SUBSET Of(p)
  <2>. SUFFICES ASSUME NEW v \in X, NEW t,
                       t = v \/ t \in DeleteRangeOf(v, p, p + 1)
                PROVE  t \in Of(p)
    OBVIOUS
  <2>1. /\ Whole(v) /\ Half(v) /\ Length(v.q) >= p /\ ~v.bulk /\ v \in Worlds /\ Length(v.q) \in Nat
        /\ v \in T
    <3>1. Whole(v) /\ Length(v.q) >= (p + 1) - 1 /\ ~v.bulk /\ v \in T
      OBVIOUS
    <3>2. Half(v) /\ v \in Worlds /\ Length(v.q) \in Nat
      BY <3>1, QueueFacts DEF Whole, Half, Fits
    <3>. QED
      BY <1>0, <3>1, <3>2
  <2>2. CASE t = v
    <3>1. Length(t.q) >= p - 1
      BY <1>0, <2>1, <2>2
    <3>. QED
      BY <2>1, <2>2, <3>1
  <2>3. CASE t \in DeleteRangeOf(v, p, p + 1)
    <3>1. p \in Positions(v.q) /\ p + 1 \in p + 1 .. Length(v.q) + 1
      BY <1>0, <2>1 DEF Positions
    <3>2. Whole(t) /\ Length(t.q) = Length(v.q) - ((p + 1) - p) /\ t.bulk = v.bulk
      BY <2>1, <2>3, <3>1, DeleteRangeOfFacts
    <3>3. Length(t.q) >= p - 1
      BY <1>0, <2>1, <3>2
    <3>4. t \in T
      BY <2>1, <2>3, <3>1
    <3>. QED
      BY <2>1, <3>2, <3>3, <3>4 DEF Whole, Half
  <2>. QED
    BY <2>2, <2>3
<1>2. {w} \in SUBSET Of(b)
  <2>1. Length(w.q) >= b - 1
    BY <1>0
  <2>. QED
    BY <2>1 DEF Whole, Half
<1>3. \A p \in 1..b : Of(p) \in SUBSET Worlds
  OBVIOUS
<1>. HIDE DEF Of
<1>4. \A p \in 1..b : I[p] = SUBSET Of(p)
  OBVIOUS
<1>5. \A p \in 1..b : \A X \in SUBSET Worlds : F[<<p, X>>] = Turn(p, X)
  OBVIOUS
<1>. HIDE DEF I, F
<1>6. \A p \in 1 .. b - 1 : \A X \in I[p + 1] : F[<<p, X>>] \in I[p]
  <2>. SUFFICES ASSUME NEW p \in 1 .. b - 1, NEW X \in I[p + 1] PROVE F[<<p, X>>] \in I[p]
    OBVIOUS
  <2>1. X \in SUBSET Of(p + 1) /\ X \in SUBSET Worlds
    BY <1>0, <1>3, <1>4
  <2>2. Turn(p, X) \in SUBSET Of(p)
    BY <1>1, <2>1
  <2>. HIDE DEF Turn
  <2>. QED
    BY <1>0, <1>4, <1>5, <2>1, <2>2
<1>7. {w} \in I[b]
  BY <1>0, <1>2, <1>4
<1>. HIDE DEF b
<1>8. PICK g : LoopDown(g, 1, b, {w}, F, I)
  BY <1>0, <1>6, <1>7, RecursionDown, Zenon
<1>9. g = [p \in 1..b |-> IF p = b THEN {w} ELSE Turn(p, g[p + 1])]
  <2>1. /\ g = [p \in 1..b |-> IF p = b THEN {w} ELSE F[<<p, g[p + 1]>>]]
        /\ \A p \in 1..b : g[p] \in I[p]
    BY <1>8 DEF LoopDown
  <2>2. ASSUME NEW p \in 1..b, p # b PROVE F[<<p, g[p + 1]>>] = Turn(p, g[p + 1])
    <3>1. p + 1 \in 1..b
      BY <1>0, <2>2
    <3>2. g[p + 1] \in SUBSET Worlds
      BY <1>3, <1>4, <2>1, <3>1
    <3>. HIDE DEF Turn
    <3>. QED
      BY <1>5, <3>2
  <2>. HIDE DEF Turn
  <2>. QED
    BY <2>1, <2>2
<1>10. done = [p \in 1..b |-> IF p = b THEN {w} ELSE Turn(p, done[p + 1])]
  BY <1>9, Zenon DEF b
<1>11. StaleSongOf(w, song) = done[1]
  BY Zenon DEF StaleSongOf, kept
<1>. HIDE DEF done, Turn
<1>. DEFINE S == {p \in 1..b : done[p] \in SUBSET Of(p)}
<1>12. \A p \in 1..b : p \in S
  <2>1. b \in S
    BY <1>0, <1>2, <1>10
  <2>2. ASSUME NEW p \in 1 .. (b - 1), p + 1 \in S PROVE p \in S
    <3>1. p \in 1 .. b - 1 /\ p \in 1..b /\ p # b
      BY <1>0
    <3>2. done[p] = Turn(p, done[p + 1])
      BY <1>10, <3>1
    <3>. QED
      BY <1>1, <2>2, <3>1, <3>2
  <2>. HIDE DEF S
  <2>3. \A p \in 1 .. (b - 1) : p + 1 \in S => p \in S
    BY <2>2
  <2>. QED
    BY <1>0, <2>1, <2>3, DownTo, Zenon
<1>13. u \in Of(1)
  BY <1>0, <1>11, <1>12
<1>. QED
  BY <1>13 DEF Of

\* The world after a song has gone stale.
LEMMA StaleSongOfFacts ==
  ASSUME NEW w, Whole(w), ~w.bulk, NEW song, NEW u \in StaleSongOf(w, song)
  PROVE  Whole(u)
<1>1. ASSUME NEW v, NEW p \in Positions(v.q), Whole(v), ~v.bulk, NEW t \in DeleteRangeOf(v, p, p + 1)
      PROVE  t \in Worlds
  <2>1. Half(v) /\ p + 1 \in p + 1 .. Length(v.q) + 1
    BY <1>1, QueueFacts DEF Whole, Half, Fits, Positions
  <2>. QED
    BY <1>1, <2>1, DeleteRangeOfFacts DEF Whole, Half
<1>2. w \in Worlds
  BY DEF Whole, Half
<1>. QED
  BY <1>1, <1>2, StaleLoop

\* playlist::StaleSong()
LEMMA StaleSongKeeps ==
  ASSUME Inv, NEW song, StaleSong(song)
  PROVE  Inv'
<1>1. Command(StaleSongOf(World, song))
  BY DEF StaleSong
<1>2. PICK w \in StaleSongOf(World, song) : queue' = w.q /\ list' = w.l /\ pc' = w.pc
  BY <1>1, CommandFacts
<1>3. Whole(w)
  BY WorldFacts, StaleSongOfFacts
<1>. QED
  BY <1>1, <1>2, <1>3, CommandFacts, Landing

\* playlist::Clear()
LEMMA ClearQueueKeeps ==
  ASSUME Inv, ClearQueue
  PROVE  Inv'
<1>. DEFINE S == {OnModified([w EXCEPT !.q = Clear(w.q), !.l.current = 0]) : w \in StopWith(World)}
<1>1. Command(S)
  BY DEF ClearQueue
<1>2. PICK x \in S : queue' = x.q /\ list' = x.l /\ pc' = x.pc
  <2>. HIDE DEF S
  <2>. QED
    BY <1>1, CommandFacts
<1>3. PICK w \in StopWith(World) : x = OnModified([w EXCEPT !.q = Clear(w.q), !.l.current = 0])
  BY <1>2
<1>. HIDE DEF S
<1>. DEFINE m == [w.l EXCEPT !.current = 0]
            r == Clear(w.q)
            v == [w EXCEPT !.q = r, !.l = m]
<1>4. Whole(w) /\ ~w.l.playing /\ w \in Worlds /\ Good(w.q)
  BY WorldFacts, StopWithFacts DEF Whole, Half, Fits
<1>5. m \in Lists /\ ~m.playing /\ m.current = 0
  BY <1>4, Parts DEF Lists
<1>6. Good(r) /\ Length(r) = 0 /\ r \in Queues
  BY <1>4, ClearFacts DEF Good
<1>7. [w EXCEPT !.q = Clear(w.q), !.l.current = 0] = v
  BY <1>4 DEF Worlds
<1>. HIDE DEF m, r
<1>8. v \in Worlds /\ v.q = r /\ v.l = m
  BY <1>4, <1>5, <1>6 DEF Worlds
<1>9. x = OnModified(v)
  BY <1>3, <1>7
<1>. HIDE DEF v
<1>10. Whole(v) /\ Good(v.q)
  <2>1. 0 \in 0..Length(r)
    BY <1>6
  <2>. QED
    BY <1>5, <1>6, <1>8, <2>1 DEF Whole, Half, Fits, Listed
<1>11. Whole(x)
  BY <1>8, <1>9, <1>10, OnModifiedFacts, NearKeeps
<1>. QED
  BY <1>1, <1>2, <1>11, CommandFacts, Landing

\* The songs or their order are rearranged, and the current song is found again.
LEMMA PlacedFacts ==
  ASSUME NEW w, Whole(w), NEW r, Good(r), Length(r) = Length(w.q),
         NEW c \in 0..Length(w.q), w.l.playing => c # 0
  PROVE  /\ Whole([w EXCEPT !.q = r, !.l.current = c])
         /\ [w EXCEPT !.q = r, !.l.current = c].bulk = w.bulk
<1>. DEFINE m == [w.l EXCEPT !.current = c]
            v == [w EXCEPT !.q = r, !.l = m]
<1>1. w \in Worlds /\ w.l \in Lists /\ Length(w.q) \in Nat /\ r \in Queues
  BY Parts, QueueFacts DEF Whole, Half, Fits, Good
<1>2. m \in Lists /\ m.current = c /\ m.playing = w.l.playing /\ m.queued = w.l.queued
  <2>1. c \in Nat
    BY <1>1
  <2>. QED
    BY <1>1, <2>1 DEF Lists
<1>3. [w EXCEPT !.q = r, !.l.current = c] = v
  BY <1>1 DEF Worlds
<1>. HIDE DEF m
<1>4. v \in Worlds /\ v.q = r /\ v.l = m /\ v.pc = w.pc /\ v.bulk = w.bulk
  BY <1>1, <1>2 DEF Worlds
<1>. HIDE DEF v
<1>5. Whole(v)
  BY <1>2, <1>4 DEF Whole, Half, Fits, Listed
<1>. QED
  BY <1>3, <1>4, <1>5

\* playlist::SwapPositions()
LEMMA SwapKeeps ==
  ASSUME Inv, NEW a \in Positions(queue), NEW b \in Positions(queue), Swap(a, b)
  PROVE  Inv'
<1>. DEFINE w == World
            swapped == SwapPositions(w.q, a, b)
            both == SwapOrders(swapped, PositionToOrder(swapped, a), PositionToOrder(swapped, b))
            c == IF w.l.current = a THEN b ELSE IF w.l.current = b THEN a ELSE w.l.current
            v == IF w.q.random THEN [w EXCEPT !.q = both]
                 ELSE [w EXCEPT !.q = swapped, !.l.current = c]
<1>1. Command(Requeued(v, GetQueuedSong(w)))
  BY Zenon DEF Swap
<1>. HIDE DEF w
<1>2. /\ Whole(w) /\ ~w.bulk /\ w.q = queue /\ w.l = list /\ Good(w.q) /\ Fits(w.q, w.l) /\ w \in Worlds
      /\ Length(w.q) \in Nat /\ a \in 1..Length(w.q) /\ b \in 1..Length(w.q) /\ Positions(w.q) = 1..Length(w.q)
  BY WorldFacts DEF w, Positions
<1>3. Good(swapped) /\ Length(swapped) = Length(w.q)
  BY <1>2, SwapPositionsFacts
<1>. HIDE DEF swapped
<1>4. Good(both) /\ Length(both) = Length(w.q)
  <2>1. a \in Positions(swapped) /\ b \in Positions(swapped)
    BY <1>2, <1>3 DEF Positions
  <2>. QED
    BY <1>3, <2>1, PositionFacts, SwapOrdersFacts
<1>. HIDE DEF both
<1>5. c \in 0..Length(w.q) /\ (w.l.playing => c # 0)
  <2>1. w.l.current \in 0..Length(w.q) /\ (w.l.playing => w.l.current # 0)
    BY <1>2 DEF Fits
  <2>2. c \in 0..Length(w.q) /\ (w.l.current # 0 => c # 0)
    BY <1>2, <2>1
  <2>. HIDE DEF c
  <2>. QED
    BY <2>1, <2>2
<1>. HIDE DEF c
<1>6. Whole(v) /\ ~v.bulk
  <2>1. CASE w.q.random
    BY <1>2, <1>4, <2>1, EditedFacts, OtherQueue DEF Good
  <2>2. CASE ~w.q.random
    <3>1. v = [w EXCEPT !.q = swapped, !.l.current = c]
      BY <2>2
    <3>. HIDE DEF v
    <3>2. Whole([w EXCEPT !.q = swapped, !.l.current = c]) /\ ~[w EXCEPT !.q = swapped, !.l.current = c].bulk
      BY <1>2, <1>3, <1>5, PlacedFacts
    <3>. QED
      BY <3>1, <3>2, Zenon
  <2>. QED
    BY <2>1, <2>2
<1>. HIDE DEF v
<1>7. PICK u \in Requeued(v, GetQueuedSong(w)) : queue' = u.q /\ list' = u.l /\ pc' = u.pc
  BY <1>1, CommandFacts
<1>8. Whole(u)
  BY <1>6, RequeuedFacts DEF Whole
<1>. QED
  BY <1>1, <1>7, <1>8, CommandFacts, Landing

\* Where the current song is believed to be is a position.
LEMMA MoveCurrentFacts ==
  ASSUME NEW n \in Nat, NEW c \in 1..n, NEW start \in 1..n, NEW end \in start + 1 .. n + 1,
         NEW to \in 1..n, to + end - start - 1 <= n
  PROVE  MoveCurrent(c, start, end, to) \in 1..n
  BY DEF MoveCurrent

\* playlist::MoveRange()
LEMMA MoveSongsKeeps ==
  ASSUME Inv, NEW start \in Positions(queue), NEW end \in start + 1 .. Length(queue) + 1,
         NEW to \in Positions(queue), MoveSongs(start, end, to)
  PROVE  Inv'
<1>. DEFINE w == World
            r == MoveRange(w.q, start, end, to)
            c == IF w.q.random \/ w.l.current = 0 THEN w.l.current
                 ELSE MoveCurrent(w.l.current, start, end, to)
            v == [w EXCEPT !.q = r, !.l.current = c]
<1>1. Command(Requeued(v, GetQueuedSong(w))) /\ to + end - start - 1 <= Length(queue)
  BY Zenon DEF MoveSongs
<1>. HIDE DEF w
<1>2. /\ Whole(w) /\ ~w.bulk /\ w.q = queue /\ w.l = list /\ Good(w.q) /\ Fits(w.q, w.l)
      /\ Length(w.q) \in Nat /\ start \in 1..Length(w.q) /\ to \in 1..Length(w.q)
      /\ Positions(w.q) = 1..Length(w.q)
  BY WorldFacts DEF w, Positions
<1>3. Good(r) /\ Length(r) = Length(w.q)
  BY <1>1, <1>2, MoveRangeFacts
<1>. HIDE DEF r
<1>4. c \in 0..Length(w.q) /\ (w.l.playing => c # 0)
  <2>1. w.l.current \in 0..Length(w.q) /\ (w.l.playing => w.l.current # 0)
    BY <1>2 DEF Fits
  <2>2. ASSUME w.l.current # 0 PROVE MoveCurrent(w.l.current, start, end, to) \in 1..Length(w.q)
    <3>1. w.l.current \in 1..Length(w.q) /\ end \in start + 1 .. Length(w.q) + 1
      BY <1>2, <2>1, <2>2
    <3>. QED
      BY <1>1, <1>2, <3>1, MoveCurrentFacts
  <2>3. c \in 0..Length(w.q) /\ (w.l.current # 0 => c # 0)
    BY <1>2, <2>1, <2>2
  <2>. HIDE DEF c
  <2>. QED
    BY <2>1, <2>3
<1>. HIDE DEF c
<1>5. Whole(v) /\ ~v.bulk
  BY <1>2, <1>3, <1>4, PlacedFacts
<1>. HIDE DEF v
<1>6. PICK u \in Requeued(v, GetQueuedSong(w)) : queue' = u.q /\ list' = u.l /\ pc' = u.pc
  BY <1>1, CommandFacts
<1>7. Whole(u)
  BY <1>5, RequeuedFacts DEF Whole
<1>. QED
  BY <1>1, <1>6, <1>7, CommandFacts, Landing

\* playlist::Shuffle()
LEMMA ShuffleKeeps ==
  ASSUME Inv, NEW start \in Positions(queue), NEW end \in start + 1 .. Length(queue) + 1,
         Shuffle(start, end)
  PROVE  Inv'
<1>. DEFINE w == World
            p == CurrentPosition(w)
            first == w.l.playing /\ p >= start /\ p < end
            r == IF first THEN SwapPositions(w.q, start, p) ELSE w.q
            c == IF first THEN (IF r.random THEN PositionToOrder(r, start) ELSE start)
                 ELSE IF w.l.playing THEN w.l.current ELSE 0
            from == IF first THEN start + 1 ELSE start
            S == UNION {Requeued([w EXCEPT !.q = s, !.l.current = c], GetQueuedSong(w))
                        : s \in ShuffleRange(r, from, end)}
<1>1. Command(S)
  BY Zenon DEF Shuffle
<1>. HIDE DEF w
<1>2. /\ Whole(w) /\ ~w.bulk /\ w.q = queue /\ w.l = list /\ Good(w.q) /\ Fits(w.q, w.l)
      /\ w \in Worlds /\ w.l.current \in 0..Length(w.q)
      /\ Length(w.q) \in Nat /\ start \in 1..Length(w.q) /\ end \in Nat /\ end <= Length(w.q) + 1
      /\ Positions(w.q) = 1..Length(w.q)
  BY WorldFacts DEF w, Positions, Fits
<1>3. p \in 0..Length(w.q) /\ (first => p \in Positions(w.q))
  <2>1. p \in 0..Length(w.q)
    BY <1>2, CurrentPositionFacts
  <2>. HIDE DEF p
  <2>2. first => p >= start
    OBVIOUS
  <2>. QED
    BY <1>2, <2>1, <2>2
<1>. HIDE DEF p, first
<1>4. Good(r) /\ Length(r) = Length(w.q) /\ Positions(r) = 1..Length(w.q)
  <2>1. CASE first
    BY <1>2, <1>3, <2>1, SwapPositionsFacts DEF Positions
  <2>2. CASE ~first
    BY <1>2, <2>2
  <2>. QED
    BY <2>1, <2>2
<1>. HIDE DEF r
<1>5. c \in 0..Length(w.q) /\ (w.l.playing => c # 0)
  <2>1. PositionToOrder(r, start) \in 1..Length(w.q)
    BY <1>2, <1>4, PositionFacts
  <2>2. CASE first
    <3>1. c \in 1..Length(w.q)
      BY <1>2, <2>1, <2>2
    <3>. HIDE DEF c
    <3>. QED
      BY <1>2, <3>1
  <2>3. CASE ~first /\ w.l.playing
    BY <1>2, <2>3 DEF Fits
  <2>4. CASE ~first /\ ~w.l.playing
    BY <1>2, <2>4
  <2>. QED
    BY <2>2, <2>3, <2>4
<1>. HIDE DEF c
<1>6. from \in Nat \ {0}
  BY <1>2
<1>. HIDE DEF from
<1>7. PICK u \in S : queue' = u.q /\ list' = u.l /\ pc' = u.pc
  <2>. HIDE DEF S
  <2>. QED
    BY <1>1, CommandFacts
<1>8. PICK s \in ShuffleRange(r, from, end) :
        u \in Requeued([w EXCEPT !.q = s, !.l.current = c], GetQueuedSong(w))
  BY <1>7
<1>9. Good(s) /\ Length(s) = Length(w.q)
  <2>. HIDE DEF S
  <2>1. end <= Length(r) + 1
    BY <1>2, <1>4
  <2>. QED
    BY <1>2, <1>4, <1>6, <2>1, ShuffleRangeFacts
<1>. DEFINE v == [w EXCEPT !.q = s, !.l.current = c]
<1>10. Whole(v) /\ ~v.bulk
  BY <1>2, <1>5, <1>9, PlacedFacts
<1>11. u \in Requeued(v, GetQueuedSong(w))
  BY <1>8
<1>. HIDE DEF v, S
<1>12. Whole(u)
  BY <1>10, <1>11, RequeuedFacts DEF Whole
<1>. QED
  BY <1>1, <1>7, <1>12, CommandFacts, Landing

\* playlist::SetPriorityRange()
LEMMA SetPrioritiesKeeps ==
  ASSUME Inv, NEW start \in Positions(queue), NEW end \in start + 1 .. Length(queue) + 1,
         NEW priority \in Priorities, SetPriorities(start, end, priority)
  PROVE  Inv'
<1>. DEFINE w == World
            p == CurrentPosition(w)
            c(r) == IF p = 0 THEN w.l.current ELSE PositionToOrder(r, p)
            S == UNION {Requeued([w EXCEPT !.q = r, !.l.current = c(r)], GetQueuedSong(w))
                        : r \in SetPriorityRange(w.q, start, end, priority, w.l.current)}
<1>1. Command(S)
  BY Zenon DEF SetPriorities
<1>. HIDE DEF w
<1>2. /\ Whole(w) /\ ~w.bulk /\ w.q = queue /\ w.l = list /\ Good(w.q) /\ Fits(w.q, w.l)
      /\ w \in Worlds /\ w.l.current \in 0..Length(w.q)
      /\ Length(w.q) \in Nat /\ start \in Positions(w.q) /\ end \in start + 1 .. Length(w.q) + 1
      /\ Positions(w.q) = 1..Length(w.q)
  BY WorldFacts DEF w, Positions, Fits
<1>3. p \in 0..Length(w.q) /\ (w.l.current = 0 => p = 0) /\ (w.l.current # 0 => p \in 1..Length(w.q))
  BY <1>2, CurrentPositionFacts
<1>. HIDE DEF p
<1>4. PICK u \in S : queue' = u.q /\ list' = u.l /\ pc' = u.pc
  <2>. HIDE DEF S
  <2>. QED
    BY <1>1, CommandFacts
<1>5. PICK r \in SetPriorityRange(w.q, start, end, priority, w.l.current) :
        u \in Requeued([w EXCEPT !.q = r, !.l.current = c(r)], GetQueuedSong(w))
  <2>. HIDE DEF c
  <2>. QED
    BY <1>4
<1>. HIDE DEF S
<1>6. Good(r) /\ Length(r) = Length(w.q)
  <2>1. priority \in Bytes
    BY PlaylistAssumption DEF Bytes
  <2>. QED
    BY <1>2, <2>1, SetPriorityRangeFacts
<1>. DEFINE d == c(r)
<1>7. d \in 0..Length(w.q) /\ (w.l.playing => d # 0)
  <2>1. CASE w.l.current = 0
    BY <1>2, <1>3, <2>1 DEF Fits
  <2>2. CASE w.l.current # 0
    <3>1. p \in Positions(r) /\ p # 0
      BY <1>2, <1>3, <1>6, <2>2 DEF Positions
    <3>2. PositionToOrder(r, p) \in 1..Length(w.q)
      BY <1>6, <3>1, PositionFacts DEF Positions
    <3>3. d = PositionToOrder(r, p)
      BY <3>1
    <3>. HIDE DEF d
    <3>. QED
      BY <1>2, <3>2, <3>3
  <2>. QED
    BY <2>1, <2>2
<1>8. u \in Requeued([w EXCEPT !.q = r, !.l.current = d], GetQueuedSong(w))
  BY <1>5
<1>. HIDE DEF d
<1>. DEFINE v == [w EXCEPT !.q = r, !.l.current = d]
<1>9. Whole(v) /\ ~v.bulk
  BY <1>2, <1>6, <1>7, PlacedFacts
<1>. HIDE DEF v
<1>10. Whole(u)
  BY <1>8, <1>9, RequeuedFacts DEF Whole, v
<1>. QED
  BY <1>1, <1>4, <1>10, CommandFacts, Landing

\* playlist::AddSongIdTag(), ClearSongIdTag()
LEMMA EditTagKeeps ==
  ASSUME Inv, NEW p \in Positions(queue), EditTag(p)
  PROVE  Inv'
<1>. DEFINE w == World
            e == NewTag(w.q, p)
            r == ModifyAtPosition(e, p)
            v == OnModified([w EXCEPT !.q = r])
<1>1. Command({v})
  BY Zenon DEF EditTag
<1>. HIDE DEF w
<1>2. Whole(w) /\ w.q = queue /\ Good(w.q)
  BY WorldFacts DEF w
<1>3. Good(e) /\ Length(e) = Length(w.q)
  BY <1>2, EditFacts
<1>. HIDE DEF e
<1>4. Good(r) /\ Length(r) = Length(w.q)
  BY <1>2, <1>3, ModifyFacts DEF Positions
<1>. HIDE DEF r
<1>5. Whole(v)
  BY <1>2, <1>4, EditedFacts
<1>. HIDE DEF v
<1>. QED
  BY <1>1, <1>5, CommandFacts, Landing

\* playlist::DatabaseModified()
LEMMA DatabaseModifiedKeeps ==
  ASSUME Inv, NEW changed, DatabaseModified(changed)
  PROVE  Inv'
<1>. DEFINE Updated(item) == IF item.song \in changed
                             THEN [item EXCEPT !.tag = ~@, !.version = queue.version] ELSE item
            w == World
            items == [p \in DOMAIN w.q.items |-> Updated(w.q.items[p])]
            r == [w.q EXCEPT !.items = items]
            v == OnModified([w EXCEPT !.q = r])
<1>1. Command({OnModified([w EXCEPT !.q.items = items])})
  BY Zenon DEF DatabaseModified
<1>. HIDE DEF w
<1>2. Whole(w) /\ w \in Worlds /\ w.q = queue /\ Good(w.q) /\ w.q \in Queues
  BY WorldFacts DEF w, Good
<1>3. [w EXCEPT !.q.items = items] = [w EXCEPT !.q = r]
  BY <1>2 DEF Worlds
<1>4. items \in [Positions(w.q) -> Items] /\ \A p \in Positions(w.q) : items[p].id = w.q.items[p].id
  <2>1. queue.version \in 0..(MaxVersion - 1)
    BY <1>2, Sizes DEF Queues
  <2>2. ASSUME NEW item \in Items PROVE Updated(item) \in Items /\ Updated(item).id = item.id
    <3>1. CASE item.song \in changed
      BY <2>1, <3>1 DEF Items
    <3>2. CASE item.song \notin changed
      BY <3>2
    <3>. QED
      BY <3>1, <3>2
  <2>. HIDE DEF Updated
  <2>. QED
    BY <1>2, <2>2, QueueFacts
<1>. HIDE DEF items
<1>5. r \in Queues /\ r.items = items /\ r.order = w.q.order /\ r.table = w.q.table
  <2>1. items \in Seq(Items)
    BY <1>2, <1>4, QueueFacts, ListOf DEF Positions
  <2>. QED
    BY <1>2, <2>1 DEF Queues
<1>. HIDE DEF r
<1>6. Good(r) /\ Length(r) = Length(w.q)
  BY <1>2, <1>4, <1>5, SameSongs
<1>7. Whole(v)
  BY <1>2, <1>6, EditedFacts
<1>8. Command({v})
  BY <1>1, <1>3
<1>. HIDE DEF v
<1>. QED
  BY <1>7, <1>8, CommandFacts, Landing

\* playlist::SetSongIdRange()
LEMMA SetSongIdRangeKeeps ==
  ASSUME Inv, NEW p \in Positions(queue), SetSongIdRange(p)
  PROVE  Inv'
<1>. DEFINE w == World
            requeue == w.l.playing /\ p = w.l.queued
            cancelled == IF requeue THEN {[v EXCEPT !.l.queued = 0] : v \in LockCancel(w)} ELSE {w}
            Tagged(v) == [v EXCEPT !.q = NewTag(v.q, p)]
            edited == UNION {IF requeue THEN UpdateQueuedSong(Tagged(v), 0) ELSE {Tagged(v)}
                             : v \in cancelled}
            S == cancelled \cup {OnModified([v EXCEPT !.q = ModifyAtPosition(v.q, p)]) : v \in edited}
<1>1. Command(S)
  BY Zenon DEF SetSongIdRange
<1>. HIDE DEF w
<1>2. Whole(w) /\ ~w.bulk /\ w.q = queue /\ Good(w.q) /\ w \in Worlds /\ Length(w.q) \in Nat
  BY WorldFacts DEF w
<1>3. ASSUME NEW v \in cancelled PROVE Whole(v) /\ ~v.bulk /\ v.q = queue
  <2>1. CASE v = w
    BY <1>2, <2>1
  <2>2. CASE v # w
    <3>1. PICK t \in LockCancel(w) : v = [t EXCEPT !.l.queued = 0]
      BY <2>2
    <3>2. Beside(w, t)
      BY <1>2, LockCancelFacts
    <3>3. Half(t) /\ t.q = queue /\ ~t.bulk /\ 0 \in 0..Length(t.q)
      BY <1>2, <3>2, BesideKeeps DEF Beside, Whole
    <3>4. LET s == [t EXCEPT !.l.queued = 0] IN Whole(s) /\ s.q = t.q /\ s.bulk = t.bulk
      BY <3>3, OtherQueued
    <3>. QED
      BY <3>1, <3>3, <3>4
  <2>. QED
    BY <2>1, <2>2
<1>. HIDE DEF cancelled, requeue
<1>4. ASSUME NEW v \in cancelled PROVE Whole(Tagged(v)) /\ ~Tagged(v).bulk /\ Length(Tagged(v).q) = Length(queue)
  <2>1. Whole(v) /\ ~v.bulk /\ v.q = queue /\ Good(v.q) /\ v \in Worlds
    BY <1>3 DEF Whole, Half, Fits
  <2>. DEFINE r == NewTag(v.q, p)
  <2>2. Good(r) /\ Length(r) = Length(queue) /\ r \in Queues
    BY <2>1, EditFacts DEF Good
  <2>. HIDE DEF r
  <2>3. Whole([v EXCEPT !.q = r]) /\ [v EXCEPT !.q = r].q = r /\ [v EXCEPT !.q = r].bulk = v.bulk
    BY <2>1, <2>2, EditedFacts, OtherQueue
  <2>. QED
    BY <2>1, <2>2, <2>3 DEF r
<1>5. ASSUME NEW y \in edited PROVE Whole(y) /\ Good(y.q) /\ p \in Positions(y.q)
  <2>1. PICK v \in cancelled : y \in IF requeue THEN UpdateQueuedSong(Tagged(v), 0) ELSE {Tagged(v)}
    <3>. HIDE DEF Tagged
    <3>. QED
      OBVIOUS
  <2>2. Whole(Tagged(v)) /\ Half(Tagged(v)) /\ Length(Tagged(v).q) = Length(queue)
    BY <1>4 DEF Whole
  <2>. HIDE DEF Tagged
  <2>3. Whole(y) /\ Length(y.q) = Length(queue)
    BY <2>1, <2>2, UpdateQueuedSongFacts
  <2>. QED
    BY <2>3 DEF Whole, Half, Fits, Positions
<1>. HIDE DEF edited, Tagged
<1>6. ASSUME NEW y \in edited PROVE Whole(OnModified([y EXCEPT !.q = ModifyAtPosition(y.q, p)]))
  <2>1. Whole(y) /\ Good(y.q) /\ p \in Positions(y.q)
    BY <1>5
  <2>2. Good(ModifyAtPosition(y.q, p)) /\ Length(ModifyAtPosition(y.q, p)) = Length(y.q)
    BY <2>1, ModifyFacts
  <2>. QED
    BY <2>1, <2>2, EditedFacts
<1>7. PICK u \in S : queue' = u.q /\ list' = u.l /\ pc' = u.pc
  <2>. HIDE DEF S
  <2>. QED
    BY <1>1, CommandFacts
<1>8. Whole(u)
  BY <1>3, <1>6, <1>7
<1>. HIDE DEF S
<1>. QED
  BY <1>1, <1>7, <1>8, CommandFacts, Landing

----------------------------------------------------------------------------
(***************************************************************************)
(* The commands that control playback.                                     *)
(***************************************************************************)

\* LockPause(), LockSetPause()
LEMMA EnterPauseFacts ==
  ASSUME NEW w, Whole(w), NEW v \in Enter(w), NEW u \in PauseLocked(v)
  PROVE  Whole(v) /\ Whole(u)
<1>1. w \in Worlds
  BY DEF Whole, Half
<1>2. Beside(w, v) /\ v \in Worlds
  BY <1>1, EnterFacts DEF Beside
<1>3. Beside(v, u)
  BY <1>2, PauseLockedFacts
<1>. QED
  BY <1>2, <1>3, BesideKeeps

\* playlist::PlayAny()
LEMMA PlayAnyKeeps ==
  ASSUME Inv, PlayAny
  PROVE  Inv'
<1>. DEFINE w == World
            o == IF list.current = 0 THEN 1 ELSE list.current
            resumed == UNION {IF v.pc.state = "PAUSE" THEN PauseLocked(v) ELSE {v} : v \in Enter(w)}
            S == IF list.playing THEN resumed ELSE PlayOrder(NoError(w), o)
<1>1. Command(S)
  BY Zenon DEF PlayAny
<1>. HIDE DEF w
<1>2. Whole(w) /\ w \in Worlds /\ w.q = queue /\ w.l = list /\ Good(queue) /\ Fits(queue, list)
  BY WorldFacts DEF w
<1>3. PICK u \in S : queue' = u.q /\ list' = u.l /\ pc' = u.pc
  <2>. HIDE DEF S
  <2>. QED
    BY <1>1, CommandFacts
<1>4. CASE list.playing
  <2>1. PICK v \in Enter(w) : u \in IF v.pc.state = "PAUSE" THEN PauseLocked(v) ELSE {v}
    BY <1>3, <1>4
  <2>2. Beside(w, v) /\ v \in Worlds
    BY <1>2, EnterFacts DEF Beside
  <2>3. Whole(v)
    BY <1>2, <2>2, BesideKeeps
  <2>4. Whole(u)
    BY <1>2, <2>1, <2>3, EnterPauseFacts
  <2>. QED
    BY <1>1, <1>3, <2>4, CommandFacts, Landing
<1>5. CASE ~list.playing
  <2>. DEFINE v == NoError(w)
  <2>1. Beside(w, v) /\ v \in Worlds /\ v.q = queue
    BY <1>2, NoErrorFacts DEF Beside
  <2>2. o \in 1..Length(queue)
    <3>1. queue.items # << >> /\ queue.items \in Seq(Items) /\ Length(queue) \in Nat
      BY <1>2, QueueFacts DEF PlayAny, Queues
    <3>2. Length(queue) # 0
      BY <3>1, EmptySeq DEF Length
    <3>3. list.current \in 0..Length(queue)
      BY <1>2 DEF Fits
    <3>. QED
      BY <3>1, <3>2, <3>3
  <2>3. u \in PlayOrder(v, o)
    BY <1>3, <1>5
  <2>. HIDE DEF v, o
  <2>4. Whole(u)
    BY <1>2, <2>1, <2>2, <2>3, PlayOrderFacts
  <2>. QED
    BY <1>1, <1>3, <2>4, CommandFacts, Landing
<1>. QED
  BY <1>4, <1>5

\* playlist::PlayPosition()
LEMMA PlayPositionKeeps ==
  ASSUME Inv, NEW p \in Positions(queue), PlayPosition(p)
  PROVE  Inv'
<1>. DEFINE w == World
            S == PlayPositionOf(w, p)
<1>1. Command(S)
  BY Zenon DEF PlayPosition
<1>. HIDE DEF w
<1>2. w \in Worlds /\ w.q = queue /\ w.l = list /\ Fits(w.q, w.l)
  BY WorldFacts DEF w
<1>3. PICK u \in S : queue' = u.q /\ list' = u.l /\ pc' = u.pc
  <2>. HIDE DEF S
  <2>. QED
    BY <1>1, CommandFacts
<1>4. Whole(u)
  BY <1>2, <1>3, PlayPositionOfFacts
<1>. QED
  BY <1>1, <1>3, <1>4, CommandFacts, Landing

\* playlist::PlayNext()
LEMMA PlayNextKeeps ==
  ASSUME Inv, PlayNext
  PROVE  Inv'
<1>. DEFINE w == World
            S == PlayNextOf(w)
<1>1. Command(S) /\ list.playing
  BY Zenon DEF PlayNext
<1>. HIDE DEF w
<1>2. w \in Worlds /\ w.q = queue /\ w.l = list /\ Fits(w.q, w.l) /\ ~w.bulk
  BY WorldFacts DEF w
<1>3. PICK u \in S : queue' = u.q /\ list' = u.l /\ pc' = u.pc
  <2>. HIDE DEF S
  <2>. QED
    BY <1>1, CommandFacts
<1>4. Whole(u)
  BY <1>1, <1>2, <1>3, PlayNextOfFacts
<1>. QED
  BY <1>1, <1>3, <1>4, CommandFacts, Landing

\* playlist::PlayPrevious()
LEMMA PlayPreviousKeeps ==
  ASSUME Inv, PlayPrevious
  PROVE  Inv'
<1>. DEFINE w == World
            o == CASE list.current > 1 -> list.current - 1
                   [] list.current <= 1 /\ queue.repeat -> Length(queue)
                   [] OTHER -> list.current
            S == PlayOrder(w, o)
<1>1. Command(S) /\ list.playing
  BY Zenon DEF PlayPrevious
<1>. HIDE DEF w
<1>2. w \in Worlds /\ w.q = queue /\ Good(w.q) /\ Fits(queue, list) /\ Length(queue) \in Nat
  BY WorldFacts DEF w
<1>3. o \in 1..Length(queue)
  <2>1. list.current \in 1..Length(queue)
    BY <1>1, <1>2 DEF Fits
  <2>2. CASE list.current > 1
    BY <1>2, <2>1, <2>2
  <2>3. CASE ~(list.current > 1)
    <3>1. list.current <= 1
      BY <2>1, <2>3
    <3>2. CASE queue.repeat
      BY <1>2, <2>1, <2>3, <3>1, <3>2
    <3>3. CASE ~queue.repeat
      BY <2>1, <2>3, <3>3
    <3>. QED
      BY <3>2, <3>3
  <2>. QED
    BY <2>2, <2>3
<1>. HIDE DEF o
<1>4. PICK u \in S : queue' = u.q /\ list' = u.l /\ pc' = u.pc
  <2>. HIDE DEF S
  <2>. QED
    BY <1>1, CommandFacts
<1>5. Whole(u)
  BY <1>2, <1>3, <1>4, PlayOrderFacts
<1>. QED
  BY <1>1, <1>4, <1>5, CommandFacts, Landing

\* playlist::SeekSongPosition()
LEMMA SeekSongKeeps ==
  ASSUME Inv, NEW o \in Positions(queue), NEW zero, SeekSong(o, zero)
  PROVE  Inv'
<1>. DEFINE w == World
            S == SeekSongOrder(w, o, zero)
<1>1. Command(S)
  BY Zenon DEF SeekSong
<1>. HIDE DEF w
<1>2. w \in Worlds /\ w.q = queue /\ w.l = list /\ Fits(w.q, w.l) /\ ~w.bulk /\ o \in 1..Length(w.q)
  BY WorldFacts DEF w, Positions
<1>3. PICK u \in S : queue' = u.q /\ list' = u.l /\ pc' = u.pc
  <2>. HIDE DEF S
  <2>. QED
    BY <1>1, CommandFacts
<1>4. Whole(u)
  BY <1>2, <1>3, SeekSongOrderFacts
<1>. QED
  BY <1>1, <1>3, <1>4, CommandFacts, Landing

\* playlist::Stop()
LEMMA StopKeeps ==
  ASSUME Inv, Stop
  PROVE  Inv'
<1>. DEFINE w == World
            S == StopWith(w)
<1>1. Command(S)
  BY Zenon DEF Stop
<1>. HIDE DEF w
<1>2. w \in Worlds /\ w.q = queue /\ w.l = list /\ Fits(w.q, w.l)
  BY WorldFacts DEF w
<1>3. PICK u \in S : queue' = u.q /\ list' = u.l /\ pc' = u.pc
  <2>. HIDE DEF S
  <2>. QED
    BY <1>1, CommandFacts
<1>4. Whole(u)
  BY <1>2, <1>3, StopWithFacts
<1>. QED
  BY <1>1, <1>3, <1>4, CommandFacts, Landing

\* PlayerControl::LockPause()
LEMMA PauseKeeps ==
  ASSUME Inv, Pause
  PROVE  Inv'
<1>. DEFINE w == World
            S == UNION {PauseLocked(v) : v \in Enter(w)}
<1>1. Command(S)
  BY Zenon DEF Pause
<1>. HIDE DEF w
<1>2. Whole(w)
  BY WorldFacts DEF w
<1>3. PICK u \in S : queue' = u.q /\ list' = u.l /\ pc' = u.pc
  <2>. HIDE DEF S
  <2>. QED
    BY <1>1, CommandFacts
<1>4. Whole(u)
  BY <1>2, <1>3, EnterPauseFacts
<1>. QED
  BY <1>1, <1>3, <1>4, CommandFacts, Landing

\* SetBorderPause() tells the player whether to pause after the song.
LEMMA SetBorderPauseFacts ==
  ASSUME NEW w \in Worlds
  PROVE  Beside(w, SetBorderPause(w)) /\ SetBorderPause(w).l = w.l
         /\ (Quiet(SetBorderPause(w).pc) <=> Quiet(w.pc))
<1>. DEFINE b == w.q.single # "OFF" /\ ~w.q.repeat
            p == [w.pc EXCEPT !.border = b]
<1>1. b \in BOOLEAN /\ w.pc \in Players
  BY Parts
<1>. HIDE DEF b
<1>2. p \in Players /\ (Quiet(p) <=> Quiet(w.pc))
  BY <1>1 DEF Players, Quiet
<1>3. SetBorderPause(w) = [w EXCEPT !.pc = p]
  BY DEF SetBorderPause, Worlds, b
<1>. HIDE DEF p
<1>. QED
  BY <1>2, <1>3, OtherPlayer DEF Beside

\* playlist::SetConsume()
LEMMA SetConsumeKeeps ==
  ASSUME Inv, NEW mode \in Modes, SetConsume(mode)
  PROVE  Inv'
<1>. DEFINE w == World
            r == [w.q EXCEPT !.consume = mode]
            v == [w EXCEPT !.q.consume = mode]
<1>1. Command({v})
  BY Zenon DEF SetConsume
<1>. HIDE DEF w
<1>2. Whole(w) /\ w \in Worlds /\ Good(w.q) /\ w.q \in Queues
  BY WorldFacts DEF w, Good
<1>3. v = [w EXCEPT !.q = r]
  BY <1>2 DEF Worlds
<1>4. r \in Queues /\ r.items = w.q.items /\ r.order = w.q.order /\ r.table = w.q.table
  BY <1>2 DEF Queues
<1>. HIDE DEF r
<1>5. Good(r) /\ Length(r) = Length(w.q)
  BY <1>2, <1>4, ModeFacts
<1>6. Whole(v)
  BY <1>2, <1>3, <1>5, EditedFacts
<1>. HIDE DEF v
<1>. QED
  BY <1>1, <1>6, CommandFacts, Landing

\* SetRepeat() and SetSingle() after the mode was changed
LEMMA ModeChangeFacts ==
  ASSUME NEW w, Whole(w), ~w.bulk, NEW r \in Queues,
         r.items = w.q.items, r.order = w.q.order, r.table = w.q.table,
         NEW prev, NEW u \in UpdateQueuedSong(SetBorderPause([w EXCEPT !.q = r]), prev)
  PROVE  Whole(u)
<1>1. w \in Worlds /\ Good(w.q)
  BY DEF Whole, Half, Fits
<1>2. Good(r) /\ Length(r) = Length(w.q)
  BY <1>1, ModeFacts
<1>. DEFINE v == [w EXCEPT !.q = r]
            s == SetBorderPause(v)
<1>3. Whole(v) /\ v \in Worlds /\ v.bulk = w.bulk
  BY <1>1, <1>2, EditedFacts, OtherQueue
<1>. HIDE DEF v
<1>4. Beside(v, s)
  BY <1>3, SetBorderPauseFacts
<1>5. Whole(s) /\ ~s.bulk /\ Half(s)
  BY <1>3, <1>4, BesideKeeps DEF Beside, Whole
<1>6. u \in UpdateQueuedSong(s, prev)
  BY DEF v
<1>. HIDE DEF s
<1>. QED
  BY <1>5, <1>6, UpdateQueuedSongFacts

\* playlist::SetRepeat()
LEMMA SetRepeatKeeps ==
  ASSUME Inv, SetRepeat
  PROVE  Inv'
<1>. DEFINE w == World
            r == [w.q EXCEPT !.repeat = ~w.q.repeat]
            v == [w EXCEPT !.q.repeat = ~@]
            s == SetBorderPause(v)
            S == UpdateQueuedSong(s, GetQueuedSong(s))
<1>1. Command(S)
  BY Zenon DEF SetRepeat
<1>. HIDE DEF w
<1>2. Whole(w) /\ w \in Worlds /\ w.q \in Queues /\ ~w.bulk
  BY WorldFacts DEF w, Good
<1>3. v = [w EXCEPT !.q = r]
  BY <1>2 DEF Worlds
<1>4. r \in Queues /\ r.items = w.q.items /\ r.order = w.q.order /\ r.table = w.q.table
  <2>1. (~w.q.repeat) \in BOOLEAN
    OBVIOUS
  <2>. QED
    BY <1>2, <2>1 DEF Queues
<1>. HIDE DEF r, v
<1>5. PICK u \in S : queue' = u.q /\ list' = u.l /\ pc' = u.pc
  <2>. HIDE DEF S
  <2>. QED
    BY <1>1, CommandFacts
<1>6. Whole(u)
  BY <1>2, <1>3, <1>4, <1>5, ModeChangeFacts
<1>. QED
  BY <1>1, <1>5, <1>6, CommandFacts, Landing

\* playlist::SetSingle()
LEMMA SetSingleKeeps ==
  ASSUME Inv, NEW mode \in Modes, SetSingle(mode)
  PROVE  Inv'
<1>. DEFINE w == World
            r == [w.q EXCEPT !.single = mode]
            v == [w EXCEPT !.q.single = mode]
            s == SetBorderPause(v)
            S == UpdateQueuedSong(s, GetQueuedSong(s))
<1>1. Command(S)
  BY Zenon DEF SetSingle
<1>. HIDE DEF w
<1>2. Whole(w) /\ w \in Worlds /\ w.q \in Queues /\ ~w.bulk
  BY WorldFacts DEF w, Good
<1>3. v = [w EXCEPT !.q = r]
  BY <1>2 DEF Worlds
<1>4. r \in Queues /\ r.items = w.q.items /\ r.order = w.q.order /\ r.table = w.q.table
  BY <1>2 DEF Queues
<1>. HIDE DEF r, v
<1>5. PICK u \in S : queue' = u.q /\ list' = u.l /\ pc' = u.pc
  <2>. HIDE DEF S
  <2>. QED
    BY <1>1, CommandFacts
<1>6. Whole(u)
  BY <1>2, <1>3, <1>4, <1>5, ModeChangeFacts
<1>. QED
  BY <1>1, <1>5, <1>6, CommandFacts, Landing

\* SetRandom(): "current" follows its song to its place in the new order.
LEMMA SetRandomKeeps ==
  ASSUME Inv, SetRandom
  PROVE  Inv'
<1>. DEFINE x == World
            r == [x.q EXCEPT !.random = ~x.q.random]
            w == [x EXCEPT !.q.random = ~@]
            p == CurrentPosition(w)
            first(t) == MoveOrder(t, PositionToOrder(t, p), 1)
            on == IF w.l.playing
                  THEN {[w EXCEPT !.q = first(t), !.l.current = 1] : t \in ShuffleOrder(w.q)}
                  ELSE {[w EXCEPT !.q = t, !.l.current = 0] : t \in ShuffleOrder(w.q)}
            off == {[w EXCEPT !.q = RestoreOrder(@), !.l.current = p]}
            T == IF w.q.random THEN on ELSE off
            prev == GetQueuedSong(x)
            S == UNION {UpdateQueuedSong(v, prev) : v \in T}
<1>1. Command(S)
  BY Zenon DEF SetRandom
<1>. HIDE DEF x
<1>2. Whole(x) /\ x \in Worlds /\ x.q \in Queues /\ Good(x.q) /\ ~x.bulk
  BY WorldFacts DEF x, Good
<1>3. w = [x EXCEPT !.q = r]
  BY <1>2 DEF Worlds
<1>4. r \in Queues /\ r.items = x.q.items /\ r.order = x.q.order /\ r.table = x.q.table
  <2>1. (~x.q.random) \in BOOLEAN
    OBVIOUS
  <2>. QED
    BY <1>2, <2>1 DEF Queues
<1>. HIDE DEF r, w, prev
<1>5. Good(r) /\ Length(r) = Length(x.q)
  BY <1>2, <1>4, ModeFacts
<1>6. Whole(w) /\ w \in Worlds /\ ~w.bulk /\ Good(w.q)
  BY <1>2, <1>3, <1>5, EditedFacts, OtherQueue DEF Good
<1>7. /\ w.l.current \in 0..Length(w.q) /\ (w.l.playing => w.l.current # 0) /\ Length(w.q) \in Nat
      /\ p \in 0..Length(w.q) /\ (w.l.current # 0 => p \in Positions(w.q))
  BY <1>6, CurrentPositionFacts, QueueFacts DEF Whole, Half, Fits
<1>. HIDE DEF p
<1>8. ASSUME NEW v \in T PROVE Whole(v) /\ ~v.bulk
  <2>1. CASE w.q.random /\ w.l.playing
    <3>1. PICK t \in ShuffleOrder(w.q) : v = [w EXCEPT !.q = first(t), !.l.current = 1]
      <4>. HIDE DEF first
      <4>. QED
        BY <2>1
    <3>. HIDE DEF on, off, T, S
    <3>2. Good(t) /\ Length(t) = Length(w.q) /\ Positions(t) = Positions(w.q)
      BY <1>6, ShuffleOrderFacts
    <3>3. p \in Positions(t)
      BY <1>7, <2>1, <3>2
    <3>4. 1 \in 0..Length(w.q) /\ 1 \in Positions(t)
      <4>1. w.l.current \in 1..Length(w.q)
        BY <1>7, <2>1
      <4>. QED
        BY <1>7, <3>2, <4>1 DEF Positions
    <3>5. Good(first(t)) /\ Length(first(t)) = Length(w.q)
      BY <3>2, <3>3, <3>4, PositionFacts, MoveOrderFacts
    <3>. HIDE DEF first
    <3>6. w.l.playing => 1 # 0
      OBVIOUS
    <3>. DEFINE y == [w EXCEPT !.q = first(t), !.l.current = 1]
    <3>7. Whole(y) /\ y.bulk = w.bulk
      BY <1>6, <3>4, <3>5, <3>6, PlacedFacts
    <3>. QED
      BY <1>6, <3>1, <3>7, Zenon
  <2>2. CASE w.q.random /\ ~w.l.playing
    <3>1. PICK t \in ShuffleOrder(w.q) : v = [w EXCEPT !.q = t, !.l.current = 0]
      BY <2>2
    <3>. HIDE DEF on, off, T, S
    <3>2. Good(t) /\ Length(t) = Length(w.q)
      BY <1>6, ShuffleOrderFacts
    <3>3. 0 \in 0..Length(w.q)
      BY <1>7
    <3>4. w.l.playing => 0 # 0
      BY <2>2
    <3>. DEFINE y == [w EXCEPT !.q = t, !.l.current = 0]
    <3>5. Whole(y) /\ y.bulk = w.bulk
      BY <1>6, <3>2, <3>3, <3>4, PlacedFacts
    <3>. QED
      BY <1>6, <3>1, <3>5, Zenon
  <2>3. CASE ~w.q.random
    <3>. DEFINE z == RestoreOrder(w.q)
    <3>1. v = [w EXCEPT !.q = z, !.l.current = p]
      BY <2>3
    <3>. HIDE DEF on, off, T, S
    <3>2. Good(z) /\ Length(z) = Length(w.q)
      BY <1>6, RestoreOrderFacts
    <3>. HIDE DEF z
    <3>3. w.l.playing => p # 0
      BY <1>7 DEF Positions
    <3>. DEFINE y == [w EXCEPT !.q = z, !.l.current = p]
    <3>4. Whole(y) /\ y.bulk = w.bulk
      BY <1>6, <1>7, <3>2, <3>3, PlacedFacts
    <3>. QED
      BY <1>6, <3>1, <3>4, Zenon
  <2>. QED
    BY <2>1, <2>2, <2>3
<1>. HIDE DEF T
<1>9. PICK u \in S : queue' = u.q /\ list' = u.l /\ pc' = u.pc
  <2>. HIDE DEF S
  <2>. QED
    BY <1>1, CommandFacts
<1>10. PICK v \in T : u \in UpdateQueuedSong(v, prev)
  BY <1>9
<1>11. Whole(u)
  BY <1>8, <1>10, UpdateQueuedSongFacts DEF Whole
<1>. HIDE DEF S
<1>. QED
  BY <1>1, <1>9, <1>11, CommandFacts, Landing

\* A world after a start, before playback is resumed
Fresh(w, boot) ==
  SetBorderPause([w EXCEPT !.l = [NewList EXCEPT !.boot = boot], !.pc = NewPlayer])

\* Nothing is played after a start.
LEMMA StartFacts ==
  ASSUME NEW w \in Worlds, ~w.bulk, NEW r, Good(r), NEW boot \in Nat
  PROVE  LET u == [Fresh(w, boot) EXCEPT !.q = r] IN
         Whole(u) /\ u.q = r /\ ~u.bulk /\ ~u.l.playing /\ u.l.current = 0
<1>. DEFINE l == [NewList EXCEPT !.boot = boot]
            t == [w EXCEPT !.l = l, !.pc = NewPlayer]
            v == Fresh(w, boot)
            u == [v EXCEPT !.q = r]
<1>1. l \in Lists /\ ~l.playing /\ l.current = 0 /\ l.queued = 0
  BY DEF NewList, Lists
<1>2. NewPlayer \in Players
  BY DEF NewPlayer, Players
<1>3. v = SetBorderPause(t)
  BY DEF Fresh
<1>. HIDE DEF l, v
<1>4. t \in Worlds /\ t.l = l /\ t.bulk = w.bulk
  BY <1>1, <1>2 DEF Worlds
<1>. HIDE DEF t
<1>5. v \in Worlds /\ v.l = l /\ v.bulk = w.bulk
  BY <1>3, <1>4, SetBorderPauseFacts DEF Beside
<1>6. u \in Worlds /\ u.q = r /\ u.l = l /\ u.bulk = w.bulk
  BY <1>5, OtherQueue DEF Good
<1>. HIDE DEF u
<1>7. u.l.current \in 0..Length(u.q)
  BY <1>1, <1>6, QueueFacts
<1>8. Whole(u)
  BY <1>1, <1>6, <1>7 DEF Whole, Half, Fits, Listed
<1>. QED
  BY <1>1, <1>6, <1>8 DEF u, v

\* The exception of an operation is dropped.
LEMMA CaughtFacts ==
  ASSUME NEW S, NEW u \in Caught(S), \A w \in S : Whole(w)
  PROVE  Whole(u)
<1>1. PICK w \in S : u = [w EXCEPT !.thrown = FALSE]
  BY DEF Caught
<1>2. Whole(w) /\ w \in Worlds
  BY DEF Whole, Half
<1>3. Beside(w, [w EXCEPT !.thrown = FALSE])
  BY <1>2, ThrowFacts
<1>4. Beside(w, u)
  BY <1>1, <1>3
<1>. QED
  BY <1>2, <1>4, BesideKeeps

\* playlist_state_load(): the songs of the state file, with their modes
LEMMA ReloadedFacts ==
  ASSUME NEW q, Good(q)
  PROVE  LET e == [Empty(1, 1) EXCEPT !.repeat = q.repeat, !.single = q.single,
                                      !.consume = q.consume, !.random = q.random]
         IN  Good(Loaded(e, q.items)) /\ Length(Loaded(e, q.items)) = Length(q)
<1>. DEFINE b == Empty(1, 1)
            e == [b EXCEPT !.repeat = q.repeat, !.single = q.single,
                           !.consume = q.consume, !.random = q.random]
<1>1. 1 \in 1..(MaxVersion - 1) /\ 1 \in Ids
  BY Sizes DEF Ids
<1>2. Good(b) /\ Length(b) = 0 /\ b \in Queues
  BY <1>1, EmptyFacts DEF Good
<1>. HIDE DEF b
<1>3. /\ q.repeat \in BOOLEAN /\ q.random \in BOOLEAN /\ q.single \in Modes /\ q.consume \in Modes
      /\ Length(q) \in 0..MaxLength
  BY QueueFacts DEF Queues
<1>4. e \in Queues /\ e.items = b.items /\ e.order = b.order /\ e.table = b.table
  BY <1>2, <1>3 DEF Queues
<1>. HIDE DEF e
<1>5. Good(e) /\ Length(e) = 0
  BY <1>2, <1>4, ModeFacts
<1>6. Len(q.items) = Length(q)
  BY DEF Length
<1>7. \A n \in 1..Length(q) : /\ q.items[n].song \in Songs /\ q.items[n].priority \in Bytes
                              /\ q.items[n].tag \in BOOLEAN
  BY QueueFacts DEF Positions, Items
<1>8. Good(Loaded(e, q.items)) /\ Length(Loaded(e, q.items)) = Length(q)
  BY <1>3, <1>5, <1>6, <1>7, LoadedFacts
<1>. QED
  BY <1>8 DEF e, b

\* playlist_state_restore(): playback goes on at a position.
LEMMA ResumedFacts ==
  ASSUME NEW v, Whole(v), ~v.bulk, NEW p \in Positions(v.q),
         NEW u \in Caught(PlayPositionOf(v, p)) \cup SeekSongOrder(v, PositionToOrder(v.q, p), FALSE)
  PROVE  Whole(u)
<1>1. v \in Worlds /\ Fits(v.q, v.l) /\ Good(v.q)
  BY DEF Whole, Half, Fits
<1>2. CASE u \in Caught(PlayPositionOf(v, p))
  <2>1. \A w \in PlayPositionOf(v, p) : Whole(w)
    BY <1>1, PlayPositionOfFacts
  <2>. QED
    BY <1>2, <2>1, CaughtFacts
<1>3. CASE u \in SeekSongOrder(v, PositionToOrder(v.q, p), FALSE)
  <2>1. PositionToOrder(v.q, p) \in 1..Length(v.q)
    BY <1>1, PositionFacts DEF Positions
  <2>. QED
    BY <1>1, <1>3, <2>1, SeekSongOrderFacts
<1>. QED
  BY <1>2, <1>3

\* The end of the process, and the next start with the state file.
LEMMA RestartKeeps ==
  ASSUME Inv, Restart
  PROVE  Inv'
<1>. DEFINE x == World
            q == x.q
            new == Loaded([Empty(1, 1) EXCEPT !.repeat = q.repeat, !.single = q.single,
                                              !.consume = q.consume, !.random = q.random], q.items)
            w == Fresh(x, list.boot + 1)
            position == IF SavedPosition(x) = 0 THEN 1 ELSE SavedPosition(x)
            shuffled == IF q.random THEN ShuffleOrder(new) ELSE {new}
            restored == {[w EXCEPT !.q = r] : r \in shuffled}
            Resumed(v) ==
              Caught(PlayPositionOf(v, position)) \cup SeekSongOrder(v, PositionToOrder(v.q, position), FALSE)
            Paused(v) == UNION {PauseLocked(u) : u \in UNION {Enter(t) : t \in Resumed(v)}}
            S == CASE q.items = << >> -> restored
                   [] q.items # << >> /\ ~list.playing -> {[v EXCEPT !.l.current = position] : v \in restored}
                   [] q.items # << >> /\ list.playing /\ pc.state # "PAUSE" -> UNION {Resumed(v) : v \in restored}
                   [] OTHER -> UNION {Paused(v) : v \in restored}
<1>1. Command(S)
  BY Zenon DEF Restart, Fresh
<1>. HIDE DEF x
<1>2. /\ x \in Worlds /\ ~x.bulk /\ x.q = queue /\ x.l = list /\ Good(q) /\ Fits(queue, list)
      /\ Length(queue) \in Nat /\ list.boot + 1 \in Nat
  <2>1. list.boot \in Nat
    BY DEF Inv, Lists
  <2>. QED
    BY <2>1, WorldFacts DEF x
<1>3. Good(new) /\ Length(new) = Length(queue)
  BY <1>2, ReloadedFacts
<1>. HIDE DEF new
<1>4. ASSUME NEW r \in shuffled PROVE Good(r) /\ Length(r) = Length(queue)
  BY <1>3, ShuffleOrderFacts
<1>. HIDE DEF shuffled
<1>5. ASSUME NEW v \in restored
      PROVE  Whole(v) /\ Length(v.q) = Length(queue) /\ ~v.bulk /\ ~v.l.playing
  <2>1. PICK r \in shuffled : v = [w EXCEPT !.q = r]
    <3>. HIDE DEF w
    <3>. QED
      OBVIOUS
  <2>2. Good(r) /\ Length(r) = Length(queue)
    BY <1>4
  <2>3. LET u == [w EXCEPT !.q = r] IN
        Whole(u) /\ u.q = r /\ ~u.bulk /\ ~u.l.playing /\ u.l.current = 0
    BY <1>2, <2>2, StartFacts
  <2>. HIDE DEF w
  <2>. QED
    BY <2>1, <2>2, <2>3
<1>6. q.items # << >> => position \in 1..Length(queue)
  <2>1. SavedPosition(x) \in 0..Length(queue)
    BY <1>2, CurrentPositionFacts DEF SavedPosition, Fits
  <2>2. q.items \in Seq(Items)
    BY <1>2, QueueFacts DEF Queues
  <2>3. q.items # << >> => Length(queue) # 0
    BY <1>2, <2>2, EmptySeq DEF Length
  <2>. QED
    BY <1>2, <2>1, <2>3
<1>. HIDE DEF restored, position, w
<1>7. PICK y \in S : queue' = y.q /\ list' = y.l /\ pc' = y.pc
  <2>. HIDE DEF S
  <2>. QED
    BY <1>1, CommandFacts
<1>8. ASSUME NEW v \in restored, q.items # << >>, NEW t \in Resumed(v) PROVE Whole(t)
  <2>1. Whole(v) /\ ~v.bulk /\ position \in Positions(v.q)
    BY <1>5, <1>6, <1>8 DEF Positions
  <2>. QED
    BY <1>8, <2>1, ResumedFacts
<1>. HIDE DEF Resumed
<1>9. Whole(y)
  <2>1. CASE q.items = << >>
    BY <1>5, <1>7, <2>1
  <2>2. CASE q.items # << >> /\ ~list.playing
    <3>1. PICK v \in restored : y = [v EXCEPT !.l.current = position]
      BY <1>7, <2>2
    <3>2. Whole(v) /\ Length(v.q) = Length(queue) /\ ~v.l.playing /\ v \in Worlds /\ v.l \in Lists
      BY <1>5, Parts DEF Whole, Half
    <3>3. position \in 0..Length(v.q) /\ position \in Nat
      BY <1>2, <1>6, <2>2, <3>2
    <3>. DEFINE m == [v.l EXCEPT !.current = position]
    <3>4. y = [v EXCEPT !.l = m]
      BY <3>1, <3>2 DEF Worlds
    <3>5. m \in Lists /\ m.current = position /\ ~m.playing
      BY <3>2, <3>3 DEF Lists
    <3>. HIDE DEF m
    <3>6. y \in Worlds /\ y.q = v.q /\ y.l = m
      BY <3>2, <3>4, <3>5, OtherList
    <3>. QED
      BY <3>2, <3>3, <3>5, <3>6 DEF Whole, Half, Fits, Listed
  <2>3. CASE q.items # << >> /\ list.playing /\ pc.state # "PAUSE"
    <3>1. PICK v \in restored : y \in Resumed(v)
      BY <1>7, <2>3
    <3>. QED
      BY <1>8, <2>3, <3>1
  <2>4. CASE q.items # << >> /\ list.playing /\ pc.state = "PAUSE"
    <3>1. PICK v \in restored : y \in Paused(v)
      <4>. HIDE DEF Paused
      <4>. QED
        BY <1>7, <2>4
    <3>2. PICK t \in Resumed(v) : \E u \in Enter(t) : y \in PauseLocked(u)
      BY <3>1
    <3>3. Whole(t)
      BY <1>8, <2>4, <3>2
    <3>. QED
      BY <3>2, <3>3, EnterPauseFacts
  <2>. QED
    BY <2>1, <2>2, <2>3, <2>4
<1>. HIDE DEF S
<1>. QED
  BY <1>1, <1>7, <1>9, CommandFacts, Landing

----------------------------------------------------------------------------
(***************************************************************************)
(* The theorems.                                                           *)
(***************************************************************************)

\* A queue of songs that were saved, of a program that has just been started or
\* of one that runs for a long time
LEMMA InitKeeps ==
  ASSUME Init
  PROVE  Inv
<1>1. PICK songs \in Saved, base \in {Empty(1, 1), Empty(MaxVersion - 3, IdSize - 1)} :
         /\ queue = Loaded(base, [n \in DOMAIN songs |->
                                   [song |-> songs[n], priority |-> 0, tag |-> FALSE]])
         /\ list = [NewList EXCEPT !.current = IF songs = << >> THEN 0 ELSE 1]
  BY DEF Init
<1>2. Good(base) /\ Length(base) = 0
  <2>1. 1 \in 1..(MaxVersion - 1) /\ 1 \in Ids /\ MaxVersion - 3 \in 1..(MaxVersion - 1) /\ IdSize - 1 \in Ids
    BY Sizes, PlaylistAssumption DEF Ids
  <2>. QED
    BY <1>1, <2>1, EmptyFacts
<1>. DEFINE N == Len(songs)
            items == [n \in DOMAIN songs |-> [song |-> songs[n], priority |-> 0, tag |-> FALSE]]
<1>3. songs \in Seq(Songs) /\ N \in 0..MaxLength /\ DOMAIN songs = 1..N /\ (songs # << >> => N # 0)
  <2>1. songs \in Seq(Songs) /\ N <= MaxLength
    BY PlaylistAssumption
  <2>. QED
    BY <2>1, Sizes, LenProperties, EmptySeq
<1>4. \A n \in 1..N : songs[n] \in Songs
  BY <1>3, ElementOfSeq
<1>5. /\ Len(items) = N
      /\ \A n \in 1..N : /\ items[n].song \in Songs /\ items[n].priority \in Bytes
                         /\ items[n].tag \in BOOLEAN
  <2>1. 0 \in Bytes
    BY DEF Bytes
  <2>. DEFINE R == [song : Songs, priority : Bytes, tag : BOOLEAN]
  <2>2. items \in [1..N -> R]
    BY <1>3, <1>4, <2>1
  <2>. HIDE DEF items, R
  <2>3. Len(items) = N
    BY <1>3, <2>2, ListOf
  <2>4. \A n \in 1..N : items[n] \in R
    BY <2>2
  <2>5. \A i \in R : i.song \in Songs /\ i.priority \in Bytes /\ i.tag \in BOOLEAN
    BY DEF R
  <2>. QED
    BY <2>3, <2>4, <2>5
<1>6. queue = Loaded(base, items)
  BY <1>1
<1>. HIDE DEF items, N
<1>7. Good(queue) /\ Length(queue) = N
  BY <1>2, <1>3, <1>5, <1>6, LoadedFacts
<1>. DEFINE c == IF songs = << >> THEN 0 ELSE 1
<1>8. c \in 0..N /\ c \in Nat
  BY <1>3
<1>9. list = [NewList EXCEPT !.current = c]
  BY <1>1
<1>. HIDE DEF c
<1>10. list \in Lists /\ list.current = c /\ ~list.playing
  BY <1>8, <1>9 DEF NewList, Lists
<1>11. pc \in Players
  BY DEF Init, NewPlayer, Players
<1>12. left \in 0..MaxCommands
  BY PlaylistAssumption DEF Init
<1>. QED
  BY <1>7, <1>8, <1>10, <1>11, <1>12 DEF Inv, Fits, Listed

\* Every command that edits the queue keeps the invariant,
LEMMA EditingKeeps ==
  ASSUME Inv, Editing
  PROVE  Inv'
<1>1. ASSUME NEW a \in Songs, Add(a) \/ StaleSong(a) \/ \E b \in Songs : AddTwo(a, b)
      PROVE  Inv'
  BY <1>1, AddKeeps, StaleSongKeeps, AddTwoKeeps
<1>2. CASE ClearQueue
  BY <1>2, ClearQueueKeeps
<1>3. ASSUME NEW start \in Positions(queue), NEW end \in start + 1 .. Length(queue) + 1,
             \/ DeleteRange(start, end)
             \/ end > start + 1 /\ Shuffle(start, end)
             \/ \E to \in Positions(queue) : MoveSongs(start, end, to)
             \/ \E priority \in Priorities : SetPriorities(start, end, priority)
      PROVE  Inv'
  <2>1. CASE DeleteRange(start, end)
    BY <2>1, DeleteRangeKeeps
  <2>2. CASE Shuffle(start, end)
    BY <2>2, ShuffleKeeps
  <2>3. ASSUME NEW to \in Positions(queue), MoveSongs(start, end, to) PROVE Inv'
    BY <2>3, MoveSongsKeeps
  <2>4. ASSUME NEW priority \in Priorities, SetPriorities(start, end, priority) PROVE Inv'
    BY <2>4, SetPrioritiesKeeps
  <2>. QED
    BY <1>3, <2>1, <2>2, <2>3, <2>4
<1>4. ASSUME NEW a \in Positions(queue), NEW b \in Positions(queue), Swap(a, b) PROVE Inv'
  BY <1>4, SwapKeeps
<1>5. ASSUME NEW p \in Positions(queue), EditTag(p) \/ SetSongIdRange(p) PROVE Inv'
  BY <1>5, EditTagKeeps, SetSongIdRangeKeeps
<1>6. ASSUME NEW changed \in SUBSET Songs, DatabaseModified(changed) PROVE Inv'
  BY <1>6, DatabaseModifiedKeeps
<1>. QED
  BY <1>1, <1>2, <1>3, <1>4, <1>5, <1>6 DEF Editing

\* and so does every command that controls playback.
LEMMA ControlKeeps ==
  ASSUME Inv, Control
  PROVE  Inv'
<1>1. ASSUME NEW p \in Positions(queue), PlayPosition(p) \/ \E zero \in BOOLEAN : SeekSong(p, zero)
      PROVE  Inv'
  BY <1>1, PlayPositionKeeps, SeekSongKeeps
<1>2. CASE PlayAny \/ PlayNext \/ PlayPrevious
  BY <1>2, PlayAnyKeeps, PlayNextKeeps, PlayPreviousKeeps
<1>3. CASE Stop \/ Pause \/ Restart
  BY <1>3, StopKeeps, PauseKeeps, RestartKeeps
<1>4. CASE SetRepeat \/ SetRandom
  BY <1>4, SetRepeatKeeps, SetRandomKeeps
<1>5. ASSUME NEW mode \in Modes, SetSingle(mode) \/ SetConsume(mode) PROVE Inv'
  BY <1>5, SetSingleKeeps, SetConsumeKeeps
<1>. QED
  BY <1>1, <1>2, <1>3, <1>4, <1>5 DEF Control

\* No command of a client and no event of the player thread, in whatever order and
\* with whatever random numbers, damages the queue, makes "current" or "queued" a
\* song the queue does not have, or lets the player fall silent unnoticed.
THEOREM Invariance == Spec => []Inv
<1>1. Init => Inv
  BY InitKeeps
<1>2. Inv /\ [Next]_vars => Inv'
  <2>1. ASSUME Inv, Next PROVE Inv'
    BY <2>1, PlayerThreadKeeps, SyncWithPlayerKeeps, BorderPauseKeeps, TagModifiedKeeps,
       EditingKeeps, ControlKeeps DEF Next
  <2>2. ASSUME Inv, UNCHANGED vars PROVE Inv'
    BY <2>2 DEF Inv, vars
  <2>. QED
    BY <2>1, <2>2
<1>. QED
  BY <1>1, <1>2, PTL DEF Spec

\* The fields of queue, playlist and PlayerControl have their types, "current" is
\* within the queue's capacity, and the queue never exceeds max_length.
THEOREM TypeCorrect == Spec => []TypeOK
<1>1. Inv => TypeOK
  <2>. SUFFICES ASSUME Inv PROVE TypeOK
    OBVIOUS
  <2>1. /\ queue \in Queues /\ Length(queue) <= MaxLength /\ Length(queue) \in Nat
        /\ list.current \in 0..Length(queue)
    BY QueueFacts DEF Inv, Fits
  <2>2. list.current \in 0..MaxLength
    BY <2>1, Sizes
  <2>3. list.playing \in BOOLEAN
    BY DEF Inv, Lists
  <2>4. pc.state \in {"STOP", "PLAY", "PAUSE"} /\ pc.error \in {"NONE", "DECODER", "OUTPUT"}
    BY DEF Inv, Players
  <2>5. /\ queue.version \in 1 .. MaxVersion - 1 /\ queue.table \in [Ids -> 0 .. MaxLength]
        /\ queue.next \in Ids /\ queue.single \in Modes /\ queue.consume \in Modes
    BY <2>1 DEF Queues
  <2>. QED
    BY <2>1, <2>2, <2>3, <2>4, <2>5 DEF TypeOK, Inv
<1>. QED
  BY <1>1, Invariance, PTL

\* Whatever sequence of Queue's methods a client brings about (append, delete, move,
\* swap, shuffle, priorities, restart), the order stays a permutation of the
\* positions and IdTable leads from every id to its song and back.
THEOREM QueueStaysConsistent == Spec => []QueueConsistent
<1>1. Inv => QueueConsistent
  BY GoodIsConsistent DEF Inv, QueueConsistent
<1>. QED
  BY <1>1, Invariance, PTL

\* The playlist never believes that it plays while the player has stopped and
\* playlist::SyncWithPlayer() is not going to be called.
THEOREM PlaybackResumes == Spec => []WillResume
<1>1. Inv => WillResume
  BY DEF Inv, WillResume, Quiet
<1>. QED
  BY <1>1, Invariance, PTL

----------------------------------------------------------------------------
(***************************************************************************)
(* Where the songs go.                                                     *)
(***************************************************************************)

\* Every song of a queue is one of another, with its id.
Descends(q, r) ==
  \A p \in Positions(r) : \E x \in Positions(q) :
    r.items[p].id = q.items[x].id /\ r.items[p].song = q.items[x].song

\* The modes that matter for the songs' places.
SameModes(q, r) == r.random = q.random /\ r.consume = q.consume

\* The same songs at the same places, with other versions, priorities or tags.
Alike(q, r) ==
  /\ Length(r) = Length(q) /\ r.order = q.order /\ SameModes(q, r)
  /\ \A p \in Positions(q) : r.items[p].id = q.items[p].id /\ r.items[p].song = q.items[p].song

\* Outside random mode the order is that of the positions.
Straight(q) == ~q.random => \A o \in Positions(q) : q.order[o] = o

\* What is alike is alike in all that matters.
LEMMA AlikeFacts ==
  ASSUME NEW q, Good(q), NEW r, Alike(q, r)
  PROVE  /\ Positions(r) = Positions(q) /\ SameModes(q, r)
         /\ Descends(q, r) /\ (Straight(q) => Straight(r))
         /\ \A o \in Positions(q) : AtOrder(r, o).song = AtOrder(q, o).song /\ AtOrder(r, o).id = AtOrder(q, o).id
<1>1. Positions(r) = Positions(q)
  BY DEF Alike, Positions
<1>2. \A o \in Positions(q) : q.order[o] \in Positions(q)
  BY QueueFacts
<1>. QED  BY <1>1, <1>2 DEF Alike, Descends, Straight, AtOrder, SameModes

\* Likeness is transitive.
LEMMA AlikeTransitive ==
  ASSUME NEW q, NEW r, NEW s, Alike(q, r), Alike(r, s)
  PROVE  Alike(q, s)
  BY DEF Alike, SameModes, Positions

\* Descent is transitive.
LEMMA DescendsTransitive ==
  ASSUME NEW q, NEW r, NEW s, Descends(q, r), Descends(r, s)
  PROVE  Descends(q, s)
<1>. SUFFICES ASSUME NEW p \in Positions(s)
              PROVE  \E x \in Positions(q) : s.items[p].id = q.items[x].id /\ s.items[p].song = q.items[x].song
  BY DEF Descends
<1>1. PICK y \in Positions(r) : s.items[p].id = r.items[y].id /\ s.items[p].song = r.items[y].song
  BY DEF Descends
<1>. QED  BY <1>1 DEF Descends

\* IncrementVersion()
LEMMA IncrementVersionAlike ==
  ASSUME NEW q, Good(q)
  PROVE  Alike(q, IncrementVersion(q))
<1>. DEFINE r == IncrementVersion(q)
<1>1. q \in Queues /\ DOMAIN q.items = Positions(q) /\ \A p \in Positions(q) : q.items[p] \in Items
  BY QueueFacts
<1>2. r.consume = q.consume
  BY <1>1 DEF IncrementVersion, Queues
<1>3. Length(r) = Length(q) /\ r.order = q.order /\ r.random = q.random
  BY IncrementVersionFacts
<1>4. ASSUME NEW p \in Positions(q) PROVE r.items[p].id = q.items[p].id /\ r.items[p].song = q.items[p].song
  <2>1. CASE q.version + 1 >= MaxVersion
    <3>1. r.items = [x \in Positions(q) |-> [q.items[x] EXCEPT !.version = 0]]
      BY <1>1, <2>1 DEF IncrementVersion, Queues
    <3>2. r.items[p] = [q.items[p] EXCEPT !.version = 0]
      BY <3>1
    <3>. HIDE DEF r
    <3>. QED  BY <1>1, <3>2 DEF Items
  <2>2. CASE ~(q.version + 1 >= MaxVersion)
    <3>1. r.items = q.items
      BY <1>1, <2>2 DEF IncrementVersion, Queues
    <3>. QED  BY <3>1
  <2>. QED  BY <2>1, <2>2
<1>. QED  BY <1>2, <1>3, <1>4 DEF Alike, SameModes

\* Another item with the same id and the same song.
LEMMA NewItemAlike ==
  ASSUME NEW q, Good(q), NEW p \in Positions(q), NEW item \in Items,
         item.id = q.items[p].id, item.song = q.items[p].song
  PROVE  Alike(q, [q EXCEPT !.items[p] = item])
<1>. DEFINE r == [q EXCEPT !.items[p] = item]
<1>1. /\ Length(r) = Length(q) /\ r.order = q.order /\ r.random = q.random
      /\ r.items = [q.items EXCEPT ![p] = item]
  BY NewItem
<1>2. q \in Queues /\ DOMAIN q.items = Positions(q)
  BY QueueFacts
<1>3. r.consume = q.consume
  BY <1>2 DEF Queues
<1>. HIDE DEF r
<1>4. \A x \in Positions(q) : r.items[x].id = q.items[x].id /\ r.items[x].song = q.items[x].song
  BY <1>1, <1>2
<1>. QED  BY <1>1, <1>3, <1>4 DEF Alike, SameModes, r

\* ModifyAtPosition(), ChangePriority() and NewTag()
LEMMA EditsAlike ==
  ASSUME NEW q, Good(q), NEW p \in Positions(q), NEW priority \in Bytes
  PROVE  /\ Alike(q, ModifyAtPosition(q, p))
         /\ Alike(q, ChangePriority(q, p, priority))
         /\ Alike(q, NewTag(q, p))
<1>. DEFINE a == [q.items[p] EXCEPT !.version = q.version]
            b == [q.items[p] EXCEPT !.version = q.version, !.priority = priority]
            c == [q.items[p] EXCEPT !.tag = ~@]
<1>1. /\ q.items[p] \in Items /\ q.version \in 0..(MaxVersion - 1)
      /\ DOMAIN q.items = Positions(q)
  BY QueueFacts, Sizes DEF Queues
<1>2. a \in Items /\ a.id = q.items[p].id /\ a.song = q.items[p].song
  BY <1>1 DEF Items
<1>3. b \in Items /\ b.id = q.items[p].id /\ b.song = q.items[p].song
  BY <1>1 DEF Items
<1>4. c \in Items /\ c.id = q.items[p].id /\ c.song = q.items[p].song
  BY <1>1 DEF Items
<1>5. ModifyAtPosition(q, p) = [q EXCEPT !.items[p] = a]
  BY <1>1 DEF ModifyAtPosition
<1>6. ChangePriority(q, p, priority) = [q EXCEPT !.items[p] = b]
  BY <1>1 DEF ChangePriority
<1>7. NewTag(q, p) = [q EXCEPT !.items[p] = c]
  BY <1>1 DEF NewTag
<1>. HIDE DEF a, b, c
<1>. QED  BY <1>2, <1>3, <1>4, <1>5, <1>6, <1>7, NewItemAlike

\* The same song under the same id.
SameSong(a, b) == a.id = b.id /\ a.song = b.song

\* The same items in the same modes.
LEMMA SameItemsDescend ==
  ASSUME NEW q, NEW r, r.items = q.items
  PROVE  Descends(q, r) /\ Positions(r) = Positions(q) /\ Length(r) = Length(q)
  BY DEF Descends, Positions, Length

\* SwapOrders()
LEMMA SwapOrdersSongs ==
  ASSUME NEW q, Good(q), NEW a \in Positions(q), NEW b \in Positions(q)
  PROVE  /\ SwapOrders(q, a, b).items = q.items /\ SameModes(q, SwapOrders(q, a, b))
         /\ \A o \in Positions(q) : SwapOrders(q, a, b).order[o] =
              (IF o = a THEN q.order[b] ELSE IF o = b THEN q.order[a] ELSE q.order[o])
<1>. DEFINE f == [q.order EXCEPT ![a] = q.order[b], ![b] = q.order[a]]
            r == SwapOrders(q, a, b)
<1>1. q \in Queues /\ DOMAIN q.order = Positions(q)
  BY QueueFacts
<1>2. r = [q EXCEPT !.order = f]
  BY DEF SwapOrders
<1>3. \A o \in Positions(q) : f[o] = (IF o = a THEN q.order[b] ELSE IF o = b THEN q.order[a] ELSE q.order[o])
  BY <1>1
<1>. HIDE DEF f, r
<1>4. r.items = q.items /\ r.order = f /\ r.random = q.random /\ r.consume = q.consume
  BY <1>1, <1>2 DEF Queues
<1>. QED  BY <1>3, <1>4 DEF SameModes, r

\* MoveOrder()
LEMMA MoveOrderSongs ==
  ASSUME NEW q, Good(q), NEW from \in Positions(q), NEW to \in Positions(q)
  PROVE  /\ MoveOrder(q, from, to).items = q.items /\ SameModes(q, MoveOrder(q, from, to))
         /\ MoveOrder(q, from, to).order[to] = q.order[from]
<1>. DEFINE f == [o \in Positions(q) |->
                    CASE o = to -> q.order[from]
                      [] from <= o /\ o < to -> q.order[o + 1]
                      [] to < o /\ o <= from -> q.order[o - 1]
                      [] OTHER -> q.order[o]]
            r == MoveOrder(q, from, to)
<1>1. q \in Queues /\ DOMAIN q.order = Positions(q) /\ Length(q) \in Nat
  BY QueueFacts
<1>2. r = [q EXCEPT !.order = f]
  BY <1>1 DEF MoveOrder
<1>3. f[to] = q.order[from]
  BY <1>1 DEF Positions
<1>. HIDE DEF f, r
<1>4. r.items = q.items /\ r.order = f /\ r.random = q.random /\ r.consume = q.consume
  BY <1>1, <1>2 DEF Queues
<1>. QED  BY <1>3, <1>4 DEF SameModes, r

\* ShuffleOrder()
LEMMA ShuffleOrderSongs ==
  ASSUME NEW q, Good(q), NEW r \in ShuffleOrder(q)
  PROVE  r.items = q.items /\ SameModes(q, r)
<1>1. PICK f \in Arrangements(Positions(q)) : r = [q EXCEPT !.order = f]
  BY DEF ShuffleOrder
<1>. QED  BY <1>1 DEF Good, Queues, SameModes

\* RestoreOrder()
LEMMA RestoreOrderSongs ==
  ASSUME NEW q, Good(q)
  PROVE  /\ RestoreOrder(q).items = q.items /\ SameModes(q, RestoreOrder(q))
         /\ \A o \in Positions(q) : RestoreOrder(q).order[o] = o
<1>. DEFINE f == [o \in Positions(q) |-> o]
            r == RestoreOrder(q)
<1>1. q \in Queues /\ DOMAIN q.order = Positions(q)
  BY QueueFacts
<1>2. r = [q EXCEPT !.order = f]
  BY <1>1 DEF RestoreOrder
<1>3. \A o \in Positions(q) : f[o] = o
  OBVIOUS
<1>. HIDE DEF f, r
<1>4. r.items = q.items /\ r.order = f /\ r.random = q.random /\ r.consume = q.consume
  BY <1>1, <1>2 DEF Queues
<1>. QED  BY <1>3, <1>4 DEF SameModes, r

\* ShuffleOrderLastWithPriority(): what is before "start" stays.
LEMMA ShuffleLastSongs ==
  ASSUME NEW q, Good(q), NEW start \in 1..Length(q),
         NEW r \in ShuffleOrderLastWithPriority(q, start)
  PROVE  /\ r.items = q.items /\ SameModes(q, r)
         /\ \A o \in Positions(q) : o < start => r.order[o] = q.order[o]
<1>. DEFINE last == Length(q)
            same == {o \in start .. last : Priority(q, o) = Priority(q, last)}
            first == CHOOSE o \in same : \A x \in same : o <= x
<1>1. Length(q) \in Nat
  BY QueueFacts
<1>2. PICK o \in first .. last : r = SwapOrders(q, last, o)
  BY DEF ShuffleOrderLastWithPriority
<1>3. first \in same
  <2>1. last \in same /\ same \in SUBSET Nat
    BY <1>1
  <2>. HIDE DEF same
  <2>2. \E x \in same : \A y \in same : x <= y
    BY <2>1, LeastNatural
  <2>. QED  BY <2>2
<1>4. first \in start..Length(q)
  BY <1>1, <1>3
<1>. HIDE DEF first
<1>5. o \in Positions(q) /\ last \in Positions(q) /\ o >= start /\ last >= start
  BY <1>1, <1>2, <1>4 DEF Positions
<1>6. \A x \in Positions(q) : x < start => x # o /\ x # last
  BY <1>1, <1>4, <1>5 DEF Positions
<1>. HIDE DEF last
<1>. QED  BY <1>2, <1>5, <1>6, SwapOrdersSongs

\* Songs trade places among some positions.
LEMMA RearrangedSongs ==
  ASSUME NEW q, Good(q), NEW D \in SUBSET Positions(q), NEW from \in [D -> D],
         \A a, b \in D : from[a] = from[b] => a = b
  PROVE  /\ SameModes(q, Rearranged(q, from)) /\ Descends(q, Rearranged(q, from))
         /\ \A p \in Positions(q) : SameSong(Rearranged(q, from).items[p], q.items[IF p \in D THEN from[p] ELSE p])
<1>. DEFINE items == [p \in Positions(q) |-> IF p \in D THEN Moved(q.items[from[p]], q.version)
                                             ELSE q.items[p]]
            r == Rearranged(q, from)
<1>1. /\ q \in Queues /\ DOMAIN q.items = Positions(q)
      /\ \A p \in Positions(q) : q.items[p] \in Items
  BY QueueFacts
<1>2. r.items = items /\ r.random = q.random /\ r.consume = q.consume
  <2>1. DOMAIN from = D
    OBVIOUS
  <2>. QED  BY <1>1, <2>1 DEF Rearranged, Queues
<1>3. ASSUME NEW p \in Positions(q) PROVE SameSong(items[p], q.items[IF p \in D THEN from[p] ELSE p])
  <2>1. CASE p \in D
    <3>1. q.items[from[p]] \in Items /\ items[p] = Moved(q.items[from[p]], q.version)
      BY <1>1, <2>1
    <3>. HIDE DEF items
    <3>. QED  BY <2>1, <3>1 DEF Moved, Items, SameSong
  <2>2. CASE p \notin D
    BY <2>2 DEF SameSong
  <2>. QED  BY <2>1, <2>2
<1>4. Positions(r) = Positions(q)
  BY RearrangedFacts DEF Positions
<1>5. \A p \in Positions(q) : (IF p \in D THEN from[p] ELSE p) \in Positions(q)
  OBVIOUS
<1>. HIDE DEF items, r
<1>6. Descends(q, r)
  BY <1>2, <1>3, <1>4, <1>5 DEF Descends, SameSong
<1>. QED  BY <1>2, <1>3, <1>6 DEF SameModes, r

\* SwapPositions()
LEMMA SwapPositionsSongs ==
  ASSUME NEW q, Good(q), NEW a \in Positions(q), NEW b \in Positions(q)
  PROVE  /\ SameModes(q, SwapPositions(q, a, b)) /\ Descends(q, SwapPositions(q, a, b))
         /\ \A p \in Positions(q) :
              SameSong(SwapPositions(q, a, b).items[p], q.items[IF p = a THEN b ELSE IF p = b THEN a ELSE p])
<1>. DEFINE D == {a, b}
            f == [p \in D |-> IF p = a THEN b ELSE a]
<1>1. D \in SUBSET Positions(q) /\ f \in [D -> D]
  OBVIOUS
<1>2. \A x, y \in D : f[x] = f[y] => x = y
  OBVIOUS
<1>3. SwapPositions(q, a, b) = Rearranged(q, f)
  BY DEF SwapPositions
<1>4. \A p \in Positions(q) : (IF p \in D THEN f[p] ELSE p) = (IF p = a THEN b ELSE IF p = b THEN a ELSE p)
  OBVIOUS
<1>. HIDE DEF f, D
<1>. QED  BY <1>1, <1>2, <1>3, <1>4, RearrangedSongs

\* ShuffleRange(): what is outside the range stays.
LEMMA ShuffleRangeSongs ==
  ASSUME NEW q, Good(q), NEW start \in Nat \ {0}, NEW end \in Nat, end <= Length(q) + 1,
         NEW r \in ShuffleRange(q, start, end)
  PROVE  /\ SameModes(q, r) /\ Descends(q, r)
         /\ \A p \in Positions(q) : p < start \/ p >= end => SameSong(r.items[p], q.items[p])
<1>. DEFINE D == start .. end - 1
<1>1. PICK f \in Arrangements(D) : r = Rearranged(q, f)
  BY DEF ShuffleRange
<1>2. f \in [D -> D] /\ \A a, b \in D : f[a] = f[b] => a = b
  BY <1>1 DEF Arrangements
<1>3. Length(q) \in Nat
  BY QueueFacts
<1>4. D \in SUBSET Positions(q)
  BY <1>3 DEF Positions
<1>5. \A p \in Positions(q) : p < start \/ p >= end => p \notin D
  BY <1>3 DEF Positions
<1>. HIDE DEF D
<1>. QED  BY <1>1, <1>2, <1>4, <1>5, RearrangedSongs

\* MoveRange() of one song: the others close up, and each song is where MoveCurrent()
\* says it is.
LEMMA MoveOneSongs ==
  ASSUME NEW q, Good(q), NEW start \in Positions(q), NEW to \in Positions(q)
  PROVE  LET r == MoveRange(q, start, start + 1, to)
             Goes(x) == MoveCurrent(x, start, start + 1, to) IN
         /\ SameModes(q, r) /\ Descends(q, r)
         /\ \A p \in Positions(q) : Goes(p) \in Positions(q) /\ SameSong(r.items[Goes(p)], q.items[p])
         /\ \A o \in Positions(q) : r.order[o] = IF q.random THEN Goes(q.order[o]) ELSE q.order[o]
<1>. DEFINE n == (start + 1) - start
            lo == IF to < start THEN to ELSE start
            hi == IF to < start THEN start + 1 ELSE to + n
            D == lo .. hi - 1
            Old(p) == CASE p >= to /\ p < to + n -> p - to + start
                        [] p < to -> p + n
                        [] OTHER -> p - n
            from == [p \in D |-> Old(p)]
            moved == Rearranged(q, from)
            New(p) == CASE p >= start + 1 /\ p < to + n -> p - n
                        [] p < start /\ p >= to -> p + n
                        [] p >= start /\ p < start + 1 -> p + to - start
                        [] OTHER -> p
            Goes(x) == MoveCurrent(x, start, start + 1, to)
            f == [o \in DOMAIN moved.order |-> New(moved.order[o])]
            r == MoveRange(q, start, start + 1, to)
<1>1. /\ Length(q) \in Nat /\ start \in 1..Length(q) /\ to \in 1..Length(q)
      /\ Positions(q) = 1..Length(q) /\ q \in Queues
      /\ q.order \in [Positions(q) -> Positions(q)]
  BY QueueFacts DEF Positions
<1>2. D \in SUBSET Positions(q)
  BY <1>1
<1>3. from \in [D -> D]
  BY <1>1
<1>4. ASSUME NEW a \in D, NEW b \in D, from[a] = from[b] PROVE a = b
  <2>1. \A p \in D : p \in Nat /\ Old(p) = IF p = to THEN start ELSE IF p < to THEN p + 1 ELSE p - 1
    BY <1>1
  <2>2. Old(a) = Old(b)
    BY <1>4
  <2>3. \A p \in D : lo <= p /\ p < hi
    BY <1>1
  <2>. HIDE DEF D, Old, from
  <2>4. CASE to < start
    BY <1>1, <2>1, <2>2, <2>3, <2>4
  <2>5. CASE ~(to < start)
    BY <1>1, <2>1, <2>2, <2>3, <2>5
  <2>. QED  BY <2>4, <2>5
<1>5. ASSUME NEW p \in Positions(q)
      PROVE  /\ Goes(p) \in Positions(q) /\ New(p) = Goes(p)
             /\ (IF Goes(p) \in D THEN from[Goes(p)] ELSE Goes(p)) = p
  <2>1. Goes(p) = IF p = start THEN to ELSE IF start < p /\ p <= to THEN p - 1
                  ELSE IF to <= p /\ p < start THEN p + 1 ELSE p
    BY <1>1 DEF MoveCurrent
  <2>. HIDE DEF Goes
  <2>2. Goes(p) \in Positions(q) /\ New(p) = Goes(p)
    BY <1>1, <2>1
  <2>3. Goes(p) \in D => Old(Goes(p)) = p
    BY <1>1, <2>1
  <2>4. Goes(p) \notin D => Goes(p) = p
    BY <1>1, <2>1
  <2>5. Goes(p) \in D => from[Goes(p)] = Old(Goes(p))
    OBVIOUS
  <2>. HIDE DEF D, from, Old
  <2>. QED  BY <2>2, <2>3, <2>4, <2>5
<1>6. r = IF q.random THEN [moved EXCEPT !.order = f] ELSE moved
  BY DEF MoveRange
<1>. HIDE DEF D, from, New, Goes, r
<1>7. /\ Good(moved) /\ Length(moved) = Length(q) /\ moved.order = q.order
      /\ SameModes(q, moved) /\ Descends(q, moved)
      /\ \A p \in Positions(q) : SameSong(moved.items[p], q.items[IF p \in D THEN from[p] ELSE p])
  BY <1>2, <1>3, <1>4, RearrangedFacts, RearrangedSongs
<1>. HIDE DEF moved
<1>8. moved \in Queues
  BY <1>7 DEF Good
<1>9. /\ r.items = moved.items /\ SameModes(moved, r)
      /\ r.order = IF q.random THEN f ELSE moved.order
  BY <1>6, <1>8 DEF Queues, SameModes
<1>10. Descends(q, r)
  BY <1>7, <1>9 DEF Descends, Positions, Length
<1>11. ASSUME NEW p \in Positions(q) PROVE Goes(p) \in Positions(q) /\ SameSong(r.items[Goes(p)], q.items[p])
  BY <1>5, <1>7, <1>9
<1>12. ASSUME NEW o \in Positions(q)
       PROVE  r.order[o] = IF q.random THEN Goes(q.order[o]) ELSE q.order[o]
  <2>1. DOMAIN moved.order = Positions(q) /\ q.order[o] \in Positions(q)
    BY <1>1, <1>7
  <2>2. f[o] = New(q.order[o])
    BY <1>7, <2>1
  <2>. QED  BY <1>5, <1>7, <1>9, <2>1, <2>2
<1>13. SameModes(q, r)
  BY <1>7, <1>9 DEF SameModes
<1>. QED  BY <1>10, <1>11, <1>12, <1>13 DEF Goes, r

\* DeletePosition(): the other songs stay, in their order.
LEMMA DeletePositionSongs ==
  ASSUME NEW q, Good(q), NEW p \in Positions(q)
  PROVE  LET r == DeletePosition(q, p)
             o == PositionToOrder(q, p) IN
         /\ SameModes(q, r) /\ Descends(q, r) /\ (Straight(q) => Straight(r))
         /\ \A x \in Positions(q) : x # o => SameSong(AtOrder(r, Still(x, o)), AtOrder(q, x))
<1>. DEFINE o == PositionToOrder(q, p)
            n == Length(q) - 1
            items == [i \in 1 .. n |-> IF i < p THEN q.items[i] ELSE Moved(q.items[i + 1], q.version)]
            order == [i \in 1 .. n |-> Without(q.order[IF i < o THEN i ELSE i + 1], p)]
            r == DeletePosition(q, p)
<1>1. /\ q \in Queues /\ Length(q) \in Nat /\ Positions(q) = 1..Length(q) /\ p \in 1..Length(q)
      /\ q.order \in [Positions(q) -> Positions(q)]
      /\ \A x \in Positions(q) : q.items[x] \in Items
  BY QueueFacts DEF Positions
<1>2. o \in 1..Length(q) /\ q.order[o] = p /\ \A x \in 1..Length(q) : x # o => q.order[x] # p
  BY <1>1, PositionFacts
<1>3. r.items = items /\ r.order = order /\ r.random = q.random /\ r.consume = q.consume
  BY <1>1 DEF DeletePosition, Queues
<1>4. Positions(r) = 1..n /\ Good(r)
  BY DeletePositionFacts DEF Positions
<1>5. ASSUME NEW i \in 1..n
      PROVE  LET x == IF i < p THEN i ELSE i + 1 IN x \in 1..Length(q) /\ x # p /\ SameSong(items[i], q.items[x])
  <2>1. CASE i < p
    <3>1. i \in 1..Length(q) /\ items[i] = q.items[i]
      BY <1>1, <2>1
    <3>. HIDE DEF items
    <3>. QED  BY <1>1, <2>1, <3>1 DEF SameSong
  <2>2. CASE ~(i < p)
    <3>1. i + 1 \in 1..Length(q) /\ items[i] = Moved(q.items[i + 1], q.version) /\ i + 1 # p
      BY <1>1, <2>2
    <3>2. q.items[i + 1] \in Items
      BY <1>1, <3>1
    <3>. HIDE DEF items
    <3>. QED  BY <2>2, <3>1, <3>2 DEF Moved, Items, SameSong
  <2>. QED  BY <2>1, <2>2
<1>6. ASSUME NEW x \in 1..Length(q), x # p
      PROVE  Without(x, p) \in 1..n /\ SameSong(items[Without(x, p)], q.items[x])
  <2>. DEFINE i == Without(x, p)
  <2>1. i \in 1..n /\ (IF i < p THEN i ELSE i + 1) = x
    BY <1>1, <1>6 DEF Without
  <2>. HIDE DEF i, items
  <2>2. SameSong(items[i], q.items[x])
    BY <1>5, <2>1
  <2>. QED  BY <2>1, <2>2 DEF i
<1>. HIDE DEF items, r, o
<1>7. ASSUME NEW x \in Positions(q), x # o
      PROVE  SameSong(AtOrder(r, Still(x, o)), AtOrder(q, x))
  <2>. DEFINE i == Still(x, o)
  <2>1. i \in 1..n /\ (IF i < o THEN i ELSE i + 1) = x
    BY <1>1, <1>2, <1>7 DEF Still
  <2>2. order[i] = Without(q.order[x], p)
    BY <2>1
  <2>3. q.order[x] \in 1..Length(q) /\ q.order[x] # p
    BY <1>1, <1>2, <1>7
  <2>. HIDE DEF i, order
  <2>4. SameSong(items[order[i]], q.items[q.order[x]])
    BY <1>6, <2>2, <2>3
  <2>. QED  BY <1>3, <2>4 DEF AtOrder, i
<1>8. ASSUME Straight(q) PROVE Straight(r)
  <2>. SUFFICES ASSUME ~r.random, NEW i \in 1..n PROVE r.order[i] = i
    BY <1>4 DEF Straight
  <2>1. \A x \in 1..Length(q) : q.order[x] = x
    BY <1>1, <1>3, <1>8 DEF Straight
  <2>2. o = p
    BY <1>2, <2>1
  <2>3. (IF i < o THEN i ELSE i + 1) \in 1..Length(q)
    BY <1>1
  <2>4. order[i] = Without(IF i < o THEN i ELSE i + 1, p)
    BY <2>1, <2>3
  <2>. HIDE DEF order
  <2>5. Without(IF i < o THEN i ELSE i + 1, p) = i
    BY <1>1, <2>2 DEF Without
  <2>. QED  BY <1>3, <2>4, <2>5
<1>9. Descends(q, r)
  <2>. SUFFICES ASSUME NEW i \in 1..n
                PROVE  \E x \in Positions(q) : r.items[i].id = q.items[x].id /\ r.items[i].song = q.items[x].song
    BY <1>4 DEF Descends
  <2>1. PICK x \in 1..Length(q) : SameSong(items[i], q.items[x])
    BY <1>5
  <2>. QED  BY <1>1, <1>3, <2>1 DEF SameSong
<1>10. SameModes(q, r)
  BY <1>3 DEF SameModes
<1>. QED  BY <1>7, <1>8, <1>9, <1>10 DEF r, o

\* AppendItem(): the songs that were there stay, and the new one has an id of its own.
LEMMA AppendItemSongs ==
  ASSUME NEW q, Good(q), Length(q) < MaxLength,
         NEW song \in Songs, NEW priority \in Bytes, NEW tag \in BOOLEAN
  PROVE  LET r == AppendItem(q, song, priority, tag) IN
         /\ SameModes(q, r) /\ (Straight(q) => Straight(r))
         /\ \A x \in Positions(q) : r.items[x] = q.items[x] /\ r.order[x] = q.order[x]
         /\ \A x \in Positions(q) : r.items[Length(q) + 1].id # q.items[x].id
         /\ r.items[Length(q) + 1].id # 0
<1>. DEFINE id == GenerateId(q)
            n == Length(q) + 1
            item == [id |-> id, song |-> song, version |-> q.version,
                     priority |-> priority, tag |-> tag]
            items == Append(q.items, item)
            order == Append(q.order, n)
            r == AppendItem(q, song, priority, tag)
<1>1. /\ q \in Queues /\ Length(q) \in Nat /\ q.items \in Seq(Items) /\ q.order \in Seq(Nat)
      /\ q.version \in 0..(MaxVersion - 1) /\ Positions(q) = 1..Length(q)
      /\ MaxLength \in Nat /\ IdSize \in Nat /\ IdSize > MaxLength /\ MaxLength > 0
  BY QueueFacts, Sizes DEF Queues, Positions
<1>2. id \in Ids /\ q.table[id] = 0
  BY GenerateIdFacts
<1>3. r.items = items /\ r.order = order /\ r.random = q.random /\ r.consume = q.consume
  BY <1>1 DEF AppendItem, Queues
<1>. HIDE DEF id, r
<1>4. item \in Items /\ item.id = id
  BY <1>1, <1>2 DEF Items
<1>5. Len(q.items) = Length(q) /\ Len(q.order) = Length(q)
  BY GoodIsConsistent DEF Consistent, Length
<1>. HIDE DEF item
<1>6. \A x \in 1..Length(q) : items[x] = q.items[x] /\ items[n] = item
  BY <1>1, <1>4, <1>5, AppendFacts
<1>7. items[n] = item
  BY <1>1, <1>4, <1>5, AppendFacts
<1>8. order[n] = n /\ \A x \in 1..Length(q) : order[x] = q.order[x]
  BY <1>1, <1>5, AppendFacts
<1>. HIDE DEF items, order
<1>9. ASSUME NEW x \in Positions(q) PROVE id # q.items[x].id
  <2>1. q.table[q.items[x].id] = x /\ x # 0
    BY <1>1 DEF Good, TableOK
  <2>. QED  BY <1>2, <2>1
<1>10. id # 0
  BY <1>1, <1>2 DEF Ids
<1>11. Positions(r) = 1..n
  <2>1. Length(r) = n
    BY AppendItemFacts, Zenon DEF r, n
  <2>. QED  BY <2>1 DEF Positions
<1>12. Straight(q) => Straight(r)
  <2>. SUFFICES ASSUME Straight(q), ~q.random, NEW x \in 1..n PROVE order[x] = x
    BY <1>3, <1>11 DEF Straight
  <2>1. CASE x = n
    BY <1>8, <2>1
  <2>2. CASE x \in 1..Length(q)
    BY <1>1, <1>8, <2>2 DEF Straight
  <2>. QED  BY <1>1, <2>1, <2>2
<1>13. SameModes(q, r)
  BY <1>3 DEF SameModes
<1>. QED  BY <1>1, <1>3, <1>4, <1>6, <1>7, <1>8, <1>9, <1>10, <1>12, <1>13 DEF r

\* Every song at its place, but maybe in another order, which only random mode has.
Reordered(q, r) ==
  /\ SameModes(q, r) /\ Positions(r) = Positions(q)
  /\ \A x \in Positions(q) : SameSong(r.items[x], q.items[x])
  /\ ~q.random => r.order = q.order

\* Songs that stay in their places are the same songs.
LEMMA ReorderedFacts ==
  ASSUME NEW q, NEW r, Reordered(q, r)
  PROVE  Descends(q, r) /\ (Straight(q) => Straight(r))
  BY DEF Reordered, Descends, Straight, SameSong, SameModes

\* SetPriority()
LEMMA SetPrioritySongs ==
  ASSUME NEW q, Good(q), NEW p \in Positions(q), NEW priority \in Bytes,
         NEW after \in 0..Length(q), NEW s \in SetPriority(q, p, priority, after)
  PROVE  Reordered(q, s)
<1>. DEFINE r == ChangePriority(q, p, priority)
            o == PositionToOrder(q, p)
            lower == {i \in after + 1 .. Length(q) : Priority(r, i) <= priority /\ i # o}
            before == IF lower = {} THEN Length(q) + 1 ELSE CHOOSE i \in lower : \A j \in lower : i <= j
            new == BeforeOrder(o, before)
            moved == MoveOrder(r, o, new)
            others == {i \in new .. Length(q) : Priority(moved, i) # priority}
            end == IF others = {} THEN Length(q) + 1 ELSE CHOOSE i \in others : \A j \in others : i <= j
<1>1. Length(q) \in Nat /\ Positions(q) = 1..Length(q)
  BY QueueFacts DEF Positions
<1>2. Good(r) /\ Length(r) = Length(q) /\ Positions(r) = 1..Length(q) /\ Alike(q, r)
  BY ChangePriorityFacts, EditsAlike DEF Positions
<1>3. o \in 1..Length(q)
  BY <1>1, PositionFacts
<1>4. s = q \/ s = r \/ (q.random /\ \E i \in new .. end - 1 : s = SwapOrders(moved, new, i))
  <2>. HIDE DEF r, new, moved, end
  <2>. QED  BY DEF SetPriority, r, o, lower, before, new, moved, others, end
<1>5. before \in 1..(Length(q) + 1)
  <2>1. lower \in SUBSET (1..Length(q))
    BY <1>1
  <2>. HIDE DEF lower
  <2>. QED  BY <1>1, <2>1, FirstFacts
<1>. HIDE DEF r, o, before
<1>6. new \in 1..Length(q)
  BY <1>1, <1>3, <1>5 DEF BeforeOrder
<1>. HIDE DEF new
<1>7. /\ Good(moved) /\ Length(moved) = Length(q) /\ Positions(moved) = 1..Length(q)
      /\ moved.items = r.items /\ SameModes(r, moved)
  BY <1>2, <1>3, <1>6, MoveOrderFacts, MoveOrderSongs DEF Positions
<1>. HIDE DEF moved
<1>8. end \in 1..(Length(q) + 1)
  <2>1. others \in SUBSET (1..Length(q))
    BY <1>1, <1>6
  <2>. HIDE DEF others
  <2>. QED  BY <1>1, <2>1, FirstFacts
<1>. HIDE DEF end
<1>9. Reordered(q, q)
  BY DEF Reordered, SameModes, SameSong
<1>10. Reordered(q, r)
  BY <1>1, <1>2 DEF Reordered, Alike, SameSong
<1>11. ASSUME q.random, NEW i \in new .. end - 1
       PROVE  Reordered(q, SwapOrders(moved, new, i))
  <2>1. i \in 1..Length(q)
    BY <1>1, <1>6, <1>8
  <2>2. SwapOrders(moved, new, i).items = r.items /\ SameModes(moved, SwapOrders(moved, new, i))
    <3>1. new \in Positions(moved) /\ i \in Positions(moved)
      BY <1>6, <1>7, <2>1
    <3>2. SwapOrders(moved, new, i).items = moved.items /\ SameModes(moved, SwapOrders(moved, new, i))
      <4>1. Good(moved)
        BY <1>7
      <4>. HIDE DEF lower, others
      <4>. QED  BY <3>1, <4>1, SwapOrdersSongs
    <3>. QED  BY <1>7, <3>2
  <2>. QED  BY <1>7, <1>10, <1>11, <2>2 DEF Reordered, SameModes, Positions, Length
<1>. QED  BY <1>4, <1>9, <1>10, <1>11

\* SetPriorityRange()
LEMMA SetPriorityRangeSongs ==
  ASSUME NEW q, Good(q), NEW start \in Positions(q),
         NEW end \in start + 1 .. Length(q) + 1, NEW priority \in Bytes,
         NEW after \in 0..Length(q),
         NEW s \in SetPriorityRange(q, start, end, priority, after)
  PROVE  Reordered(q, s)
<1>. DEFINE T == {r \in Queues : Reordered(q, r)}
<1>1. ASSUME NEW r \in T, NEW p \in Positions(q), NEW x \in 0..Length(q),
             Good(r), Length(r) = Length(q), NEW t \in SetPriority(r, p, priority, x)
      PROVE  t \in T
  <2>1. p \in Positions(r) /\ x \in 0..Length(r)
    BY <1>1 DEF Positions
  <2>2. Reordered(r, t) /\ Good(t)
    BY <1>1, <2>1, SetPriorityFacts, SetPrioritySongs
  <2>3. Reordered(q, r)
    OBVIOUS
  <2>4. Reordered(q, t)
    BY <2>2, <2>3 DEF Reordered, SameModes, SameSong
  <2>. QED  BY <2>2, <2>4 DEF Good
<1>2. q \in T
  BY DEF Good, Reordered, SameModes, SameSong
<1>. HIDE DEF T
<1>3. \A r \in T : \A p \in Positions(q) : \A x \in 0..Length(q) :
         Good(r) /\ Length(r) = Length(q) => \A t \in SetPriority(r, p, priority, x) : t \in T
  BY <1>1
<1>4. s \in T
  BY <1>2, <1>3, PriorityLoop
<1>. QED  BY <1>4 DEF T

\* playlist_state_load(): outside random mode the songs are in the order of the file.
LEMMA LoadedSongs ==
  ASSUME NEW q, Good(q), Length(q) = 0, NEW items, NEW N \in 0..MaxLength, Len(items) = N,
         \A n \in 1..N : /\ items[n].song \in Songs /\ items[n].priority \in Bytes
                         /\ items[n].tag \in BOOLEAN
  PROVE  Straight(Loaded(q, items)) /\ Loaded(q, items).random = q.random
<1>. DEFINE T == {x \in Queues : Straight(x) /\ x.random = q.random}
<1>1. ASSUME NEW x \in T, NEW n \in 1..N, Good(x), Length(x) < MaxLength
      PROVE  AppendItem(x, items[n].song, items[n].priority, items[n].tag) \in T
  <2>. DEFINE r == AppendItem(x, items[n].song, items[n].priority, items[n].tag)
  <2>1. Good(r) /\ SameModes(x, r) /\ (Straight(x) => Straight(r))
    BY <1>1, AppendItemFacts, AppendItemSongs
  <2>. HIDE DEF r
  <2>2. r \in T
    BY <2>1 DEF Good, SameModes
  <2>. QED  BY <2>2 DEF r
<1>2. q \in T
  BY QueueFacts DEF Straight, Positions
<1>. HIDE DEF T
<1>3. PICK x \in T : Good(x) /\ Length(x) = N /\ Loaded(q, items) = IncrementVersion(x)
  BY <1>1, <1>2, LoadedLoop
<1>4. Straight(x) /\ x.random = q.random
  BY DEF T
<1>5. Alike(x, IncrementVersion(x))
  BY <1>3, IncrementVersionAlike
<1>. QED  BY <1>3, <1>4, <1>5, AlikeFacts DEF SameModes

----------------------------------------------------------------------------
(***************************************************************************)
(* What the player plays, against what the playlist has asked for.         *)
(***************************************************************************)

\* A player that has stopped has no song queued.
Silent(p) == p.state = "STOP" => p.next = None

\* The player has been given the song c and then the song s, and may have gone on.
Follows(p, c, s) ==
  p.state # "STOP" => \/ p.song = c /\ p.next = s
                      \/ s # None /\ p.song = s /\ p.next = None

\* If it has, the playlist will be told.
InTune(p, c, s) ==
  /\ Follows(p, c, s)
  /\ p.state # "STOP" /\ s # None /\ p.next = None => p.sync

\* What the player may do on its own
Onward(p, r) ==
  /\ Silent(p) => Silent(r)
  /\ p.next = None => r.next = None
  /\ \A c, s : Follows(p, c, s) => Follows(r, c, s)
  /\ \A c, s : InTune(p, c, s) => InTune(r, c, s)

\* Onward is transitive.
LEMMA OnwardTransitive ==
  ASSUME NEW p, NEW r, NEW s, Onward(p, r), Onward(r, s)
  PROVE  Onward(p, s)
  BY DEF Onward

\* An error is noted beside the rest.
LEMMA ErrorFields ==
  ASSUME NEW p \in Players, NEW e \in {"NONE", "DECODER", "OUTPUT"}
  PROVE  /\ Error(p, e).state = p.state /\ Error(p, e).song = p.song
         /\ Error(p, e).next = p.next /\ Error(p, e).sync = p.sync
  BY DEF Error, Players

\* A player that has ended has stopped and has no song queued.
LEMMA EndedFields ==
  ASSUME NEW p \in Players, NEW e \in {"NONE", "DECODER", "OUTPUT"}
  PROVE  Ended(p, e).state = "STOP" /\ Ended(p, e).next = None
<1>. DEFINE r == [p EXCEPT !.state = "STOP", !.song = None, !.next = None, !.sync = TRUE]
<1>1. r \in Players /\ r.state = "STOP" /\ r.next = None
  BY DEF Players
<1>. HIDE DEF r
<1>. QED  BY <1>1, ErrorFields DEF Ended, r

\* A player that has stopped follows anything.
LEMMA StoppedOnward ==
  ASSUME NEW p, NEW r, r.state = "STOP", r.next = None
  PROVE  Onward(p, r) /\ Silent(r) /\ \A c, s : InTune(r, c, s)
  BY DEF Onward, Silent, Follows, InTune

\* Fields that nothing is said about
LEMMA SameOnward ==
  ASSUME NEW p, NEW r, p.state # "STOP", r.state # "STOP", r.song = p.song, r.next = p.next, r.sync = p.sync
  PROVE  Onward(p, r)
  BY DEF Onward, Silent, Follows, InTune

\* The player thread
LEMMA PlayerStepsOnward ==
  ASSUME NEW p \in Players, NEW r \in PlayerSteps(p)
  PROVE  Onward(p, r)
<1>1. CASE r = [p EXCEPT !.song = p.next, !.next = None, !.sync = TRUE,
                         !.state = IF p.border THEN "PAUSE" ELSE @, !.bordered = @ \/ p.border]
           /\ p.state = "PLAY" /\ p.next # None
  <2>1. r.song = p.next /\ r.next = None /\ r.sync = TRUE /\ r.state # "STOP" /\ p.state # "STOP"
    BY <1>1 DEF Players
  <2>. QED  BY <1>1, <2>1 DEF Onward, Silent, Follows, InTune
<1>2. CASE r = Ended(p, "NONE") \/ r = Ended(p, "DECODER")
  BY <1>2, EndedFields, StoppedOnward
<1>3. CASE r = Error([p EXCEPT !.state = "PAUSE"], "OUTPUT") /\ p.state = "PLAY"
  <2>. DEFINE t == [p EXCEPT !.state = "PAUSE"]
  <2>1. t \in Players /\ t.state = "PAUSE" /\ t.song = p.song /\ t.next = p.next /\ t.sync = p.sync
    BY DEF Players
  <2>. HIDE DEF t
  <2>2. r.state = "PAUSE" /\ r.song = p.song /\ r.next = p.next /\ r.sync = p.sync
    BY <1>3, <2>1, ErrorFields DEF t
  <2>. QED  BY <1>3, <2>2, SameOnward
<1>. QED  BY <1>1, <1>2, <1>3 DEF PlayerSteps

\* Any method of PlayerControl may find the player further on.
LEMMA EnterOnward ==
  ASSUME NEW w \in Worlds, NEW v \in Enter(w)
  PROVE  /\ v \in Worlds /\ v.q = w.q /\ v.l = w.l /\ v.bulk = w.bulk
         /\ v.pc \in Players /\ Onward(w.pc, v.pc)
<1>. DEFINE once == PlayerSteps(w.pc)
            twice == UNION {PlayerSteps(p) : p \in once}
<1>1. PICK p \in {w.pc} \cup once \cup twice : v = [w EXCEPT !.pc = p]
  BY DEF Enter
<1>2. w.pc \in Players
  BY Parts
<1>3. Onward(w.pc, w.pc)
  BY DEF Onward
<1>4. p \in Players /\ Onward(w.pc, p)
  <2>1. CASE p \in once
    BY <1>2, <2>1, PlayerStepsFacts, PlayerStepsOnward
  <2>2. CASE p \in twice
    <3>1. PICK r \in once : p \in PlayerSteps(r)
      BY <2>2
    <3>2. r \in Players /\ Onward(w.pc, r)
      BY <1>2, PlayerStepsFacts, PlayerStepsOnward
    <3>3. p \in Players /\ Onward(r, p)
      BY <3>1, <3>2, PlayerStepsFacts, PlayerStepsOnward
    <3>. QED  BY <3>2, <3>3, OnwardTransitive
  <2>. QED  BY <1>2, <1>3, <2>1, <2>2
<1>. QED  BY <1>1, <1>4, OtherPlayer

\* PlayerControl::PauseLocked()
LEMMA PauseLockedOnward ==
  ASSUME NEW w \in Worlds, NEW u \in PauseLocked(w)
  PROVE  u.q = w.q /\ u.l = w.l /\ Onward(w.pc, u.pc)
<1>1. w.pc \in Players /\ w.pc.state \in {"STOP", "PLAY", "PAUSE"}
  BY Parts, PlayerStates
<1>2. Onward(w.pc, w.pc)
  BY DEF Onward
<1>3. ASSUME NEW s \in {"PLAY", "PAUSE"}, w.pc.state # "STOP", u = [w EXCEPT !.pc.state = s]
      PROVE  u.q = w.q /\ u.l = w.l /\ Onward(w.pc, u.pc)
  <2>. DEFINE p == [w.pc EXCEPT !.state = s]
  <2>1. u = [w EXCEPT !.pc = p]
    BY <1>3 DEF Worlds
  <2>2. p \in Players /\ p.state # "STOP" /\ p.song = w.pc.song /\ p.next = w.pc.next /\ p.sync = w.pc.sync
    BY <1>1 DEF Players
  <2>. HIDE DEF p
  <2>3. Onward(w.pc, p)
    BY <1>3, <2>2, SameOnward
  <2>. QED  BY <2>1, <2>2, <2>3, OtherPlayer
<1>4. ASSUME w.pc.state # "STOP", u = [w EXCEPT !.pc = Error(w.pc, "OUTPUT")]
      PROVE  u.q = w.q /\ u.l = w.l /\ Onward(w.pc, u.pc)
  <2>. DEFINE p == Error(w.pc, "OUTPUT")
  <2>1. p \in Players
    BY <1>1 DEF Error, Players
  <2>2. Onward(w.pc, p)
    BY <1>1, <1>4, ErrorFields, SameOnward
  <2>. HIDE DEF p
  <2>. QED  BY <1>4, <2>1, <2>2, OtherPlayer DEF p
<1>5. \/ u = w
      \/ w.pc.state # "STOP" /\ (\/ u = [w EXCEPT !.pc.state = "PAUSE"] \/ u = [w EXCEPT !.pc.state = "PLAY"]
                                 \/ u = [w EXCEPT !.pc = Error(w.pc, "OUTPUT")])
  BY <1>1 DEF PauseLocked
<1>. QED  BY <1>2, <1>3, <1>4, <1>5

\* PlayerControl::LockCancel(): if the player has gone on already, it ends.
LEMMA LockCancelOnward ==
  ASSUME NEW w \in Worlds, NEW u \in LockCancel(w)
  PROVE  /\ u.q = w.q /\ u.l = w.l /\ u.pc.next = None /\ Silent(u.pc)
         /\ \A c, s : Follows(w.pc, c, s) => InTune(u.pc, c, None)
<1>1. PICK v \in Enter(w) : u = [v EXCEPT !.pc = Cancelled(v.pc)]
  BY DEF LockCancel
<1>2. v \in Worlds /\ v.q = w.q /\ v.l = w.l /\ v.pc \in Players /\ Onward(w.pc, v.pc)
  BY EnterOnward
<1>3. /\ Cancelled(v.pc) \in Players /\ Cancelled(v.pc).next = None
      /\ \A c, s : Follows(v.pc, c, s) => InTune(Cancelled(v.pc), c, None)
  <2>1. CASE v.pc.state # "STOP" /\ v.pc.next = None
    BY <1>2, <2>1, EndedFacts, EndedFields, StoppedOnward DEF Cancelled
  <2>2. CASE ~(v.pc.state # "STOP" /\ v.pc.next = None)
    <3>. DEFINE p == [v.pc EXCEPT !.next = None]
    <3>1. p \in Players /\ p.next = None /\ p.state = v.pc.state /\ p.song = v.pc.song
      BY <1>2 DEF Players
    <3>2. Cancelled(v.pc) = p
      BY <2>2 DEF Cancelled
    <3>. HIDE DEF p
    <3>. QED  BY <2>2, <3>1, <3>2 DEF Follows, InTune
  <2>. QED  BY <2>1, <2>2
<1>. QED  BY <1>1, <1>2, <1>3, OtherPlayer DEF Silent, Onward

\* PlayerControl::LockStop()
LEMMA LockStopOnward ==
  ASSUME NEW w \in Worlds, NEW u \in LockStop(w)
  PROVE  /\ u.q = w.q /\ u.l = w.l /\ u.pc.state = "STOP" /\ (Silent(w.pc) => Silent(u.pc))
         /\ \A c, s : InTune(u.pc, c, s)
<1>. DEFINE p(v) == IF v.pc.state = "STOP" THEN v.pc ELSE Ended(v.pc, "NONE")
<1>1. PICK v \in Enter(w) : u = [v EXCEPT !.pc = p(v)]
  BY DEF LockStop
<1>2. v \in Worlds /\ v.q = w.q /\ v.l = w.l /\ v.pc \in Players /\ Onward(w.pc, v.pc)
  BY EnterOnward
<1>3. p(v) \in Players /\ p(v).state = "STOP" /\ (Silent(v.pc) => Silent(p(v)))
  BY <1>2, EndedFacts, EndedFields DEF Silent
<1>. HIDE DEF p
<1>. QED  BY <1>1, <1>2, <1>3, OtherPlayer DEF Onward, InTune, Follows

\* An assertion that holds changes nothing.
LEMMA AssertingTrue ==
  ASSUME NEW w \in Worlds, NEW condition, condition
  PROVE  /\ Asserting(w, condition) \in Worlds /\ Asserting(w, condition).q = w.q
         /\ Asserting(w, condition).pc = w.pc /\ Asserting(w, condition).bulk = w.bulk
         /\ (w.l.fine => Asserting(w, condition).l.fine)
<1>. DEFINE l == [w.l EXCEPT !.fine = w.l.fine /\ condition]
<1>1. Asserting(w, condition) = [w EXCEPT !.l = l]
  BY DEF Asserting, Worlds
<1>2. w.l \in Lists
  BY Parts
<1>3. (w.l.fine /\ condition) \in BOOLEAN
  OBVIOUS
<1>4. l \in Lists /\ (w.l.fine => l.fine)
  BY <1>2, <1>3 DEF Lists
<1>. HIDE DEF l
<1>. DEFINE v == [w EXCEPT !.l = l]
<1>5. v \in Worlds /\ v.q = w.q /\ v.l = l /\ v.pc = w.pc /\ v.bulk = w.bulk
  BY <1>4, OtherList
<1>6. Asserting(w, condition) = v
  BY <1>1
<1>. HIDE DEF v
<1>. QED  BY <1>4, <1>5, <1>6, Zenon

\* PlayerControl::LockEnqueueSong(): its assertion holds.
LEMMA LockEnqueueSongOnward ==
  ASSUME NEW w \in Worlds, NEW song \in Songs, NEW u \in LockEnqueueSong(w, song), NEW c,
         Silent(w.pc), InTune(w.pc, c, None), w.l.fine
  PROVE  u.l.fine /\ Silent(u.pc) /\ InTune(u.pc, c, song)
<1>. DEFINE p(v) == IF v.pc.state = "STOP" THEN Started(v.pc, song) ELSE [v.pc EXCEPT !.next = song]
            t(v) == Asserting(v, v.pc.next = None)
<1>1. PICK v \in Enter(w) : u = [t(v) EXCEPT !.pc = p(v)]
  BY DEF LockEnqueueSong
<1>2. /\ v \in Worlds /\ v.l = w.l /\ v.pc \in Players
      /\ Silent(v.pc) /\ InTune(v.pc, c, None)
  BY EnterOnward DEF Onward
<1>3. v.pc.next = None
  BY <1>2 DEF Silent, InTune, Follows
<1>4. song # None
  BY PlaylistAssumption
<1>5. p(v) \in Players /\ Silent(p(v)) /\ InTune(p(v), c, song)
  <2>1. CASE v.pc.state = "STOP"
    <3>1. /\ p(v) \in Players /\ p(v).state = "PLAY" /\ p(v).song = song /\ p(v).next = None
          /\ p(v).sync
      BY <1>2, <2>1 DEF Started, Players
    <3>. HIDE DEF p
    <3>. QED  BY <1>4, <3>1 DEF Silent, InTune, Follows
  <2>2. CASE v.pc.state # "STOP"
    <3>1. /\ p(v) \in Players /\ p(v).state = v.pc.state /\ p(v).song = v.pc.song
          /\ p(v).next = song
      BY <1>2, <2>2 DEF Players
    <3>. HIDE DEF p
    <3>. QED  BY <1>2, <1>4, <2>2, <3>1 DEF Silent, InTune, Follows
  <2>. QED  BY <2>1, <2>2
<1>. HIDE DEF p
<1>6. t(v) \in Worlds /\ t(v).l.fine
  BY <1>2, <1>3, AssertingTrue
<1>. HIDE DEF t
<1>. QED  BY <1>1, <1>5, <1>6, OtherPlayer

\* A seek with no song queued: its assertion holds, and the song is the player's.
LEMMA SeekOnward ==
  ASSUME NEW w \in Worlds, NEW song \in Songs, NEW zero, NEW u \in Seek(w, song, zero),
         w.pc.next = None
  PROVE  (w.l.fine => u.l.fine) /\ Silent(u.pc) /\ InTune(u.pc, song, None)
<1>. DEFINE p == [w.pc EXCEPT !.error = "NONE"]
            v == Asserting(w, w.pc.next = None)
            same == p.state # "STOP" /\ p.song = song
            playing == IF p.state = "STOP" THEN Started(p, song)
                       ELSE [p EXCEPT !.song = song, !.next = None, !.sync = TRUE]
<1>1. p \in Players /\ p.next = None
  BY Parts DEF Players
<1>2. playing \in Players /\ playing.song = song /\ playing.next = None
  <2>. HIDE DEF p
  <2>1. CASE p.state = "STOP"
    BY <1>1, <2>1 DEF Started, Players
  <2>2. CASE p.state # "STOP"
    BY <1>1, <2>2 DEF Players
  <2>. QED  BY <2>1, <2>2
<1>3. /\ Error(p, "DECODER") \in Players /\ Error(p, "DECODER").song = p.song
      /\ Error(p, "DECODER").next = None
  <2>. HIDE DEF p
  <2>. QED  BY <1>1, ErrorFields DEF Error, Players
<1>4. v \in Worlds /\ (w.l.fine => v.l.fine)
  BY AssertingTrue
<1>5. \/ u = [v EXCEPT !.pc = playing]
      \/ u = Throw([v EXCEPT !.pc = Ended(playing, "DECODER")])
      \/ same /\ u = [v EXCEPT !.pc = p]
      \/ same /\ u = Throw([v EXCEPT !.pc = Error(p, "DECODER")])
      \/ u = Throw([v EXCEPT !.pc = Stalled(playing)])
      \/ same /\ u = Throw([v EXCEPT !.pc = Stalled(p)])
  <2>. HIDE DEF p, v, playing
  <2>. QED  BY DEF Seek, p, v, playing
<1>. HIDE DEF p, v, playing
<1>6. ASSUME NEW r \in Players, r.next = None, r.state # "STOP" => r.song = song,
             u = [v EXCEPT !.pc = r] \/ u = Throw([v EXCEPT !.pc = r])
      PROVE  (w.l.fine => u.l.fine) /\ Silent(u.pc) /\ InTune(u.pc, song, None)
  <2>. DEFINE y == [v EXCEPT !.pc = r]
  <2>1. y \in Worlds /\ y.l = v.l /\ y.pc = r
    BY <1>4, OtherPlayer
  <2>. HIDE DEF y
  <2>2. Throw(y).l = y.l /\ Throw(y).pc = y.pc
    BY <2>1 DEF Throw, Worlds
  <2>3. u.l = v.l /\ u.pc = r
    BY <1>6, <2>1, <2>2 DEF y
  <2>. QED  BY <1>4, <1>6, <2>3 DEF Silent, InTune, Follows
<1>7. /\ Ended(playing, "DECODER") \in Players /\ Ended(playing, "DECODER").state = "STOP"
      /\ Ended(playing, "DECODER").next = None
  BY <1>2, EndedFacts, EndedFields
<1>8. /\ Stalled(playing) \in Players /\ Stalled(playing).song = song /\ Stalled(playing).next = None
      /\ Stalled(p) \in Players /\ Stalled(p).song = p.song /\ Stalled(p).next = None
  BY <1>1, <1>2, StalledFacts
<1>. QED  BY <1>1, <1>2, <1>3, <1>5, <1>6, <1>7, <1>8

\* PlayerControl::SeekLocked() cancels a song that was queued.
LEMMA SeekLockedOnward ==
  ASSUME NEW w \in Worlds, NEW song \in Songs, NEW zero, NEW u \in SeekLocked(w, song, zero)
  PROVE  (w.l.fine => u.l.fine) /\ Silent(u.pc) /\ InTune(u.pc, song, None)
<1>1. PICK v \in Enter(w) : \E t \in IF v.pc.next = None THEN {v} ELSE LockCancel(v) :
                               u \in Seek(t, song, zero)
  BY DEF SeekLocked
<1>2. PICK t \in IF v.pc.next = None THEN {v} ELSE LockCancel(v) : u \in Seek(t, song, zero)
  BY <1>1
<1>3. v \in Worlds /\ v.l = w.l
  BY EnterOnward
<1>4. t \in Worlds /\ t.l = w.l /\ t.pc.next = None
  BY <1>3, LockCancelFacts, LockCancelOnward DEF Beside
<1>. QED  BY <1>2, <1>4, SeekOnward

\* PlayerControl::Play()
LEMMA PlayOnward ==
  ASSUME NEW w \in Worlds, NEW song \in Songs, NEW u \in Play(w, song)
  PROVE  (w.l.fine => u.l.fine) /\ Silent(u.pc) /\ InTune(u.pc, song, None)
<1>1. PICK v \in SeekLocked(w, song, TRUE) : u = v \/ (v.pc.state = "PAUSE" /\ u \in PauseLocked(v))
  BY DEF Play, Then
<1>2. v \in Worlds /\ (w.l.fine => v.l.fine) /\ Silent(v.pc) /\ InTune(v.pc, song, None)
  BY SeekLockedFacts, SeekLockedOnward DEF Beside
<1>3. CASE u = v
  BY <1>2, <1>3
<1>4. CASE u \in PauseLocked(v)
  BY <1>2, <1>4, PauseLockedOnward DEF Onward
<1>. QED  BY <1>1, <1>3, <1>4

----------------------------------------------------------------------------
(***************************************************************************)
(* The playlist in step with the player.                                   *)
(***************************************************************************)

\* The current song, and the id of the queued one
Now(q, l) == AtOrder(q, l.current).song
QueuedId(q, l) == IF l.playing /\ l.queued # 0 THEN AtOrder(q, l.queued).id ELSE 0

\* Whatever has this id in the queue is this song.
Knows(q, id, s) == \A p \in Positions(q) : q.items[p].id = id => q.items[p].song = s

\* The player has been given the current song, and then the one with the id "prev".
\* That one may have gone from the queue.
Tuned(q, l, p, prev) ==
  l.playing =>
    /\ (l.queued = 0) <=> (prev = 0)
    /\ \E s \in Songs \cup {None} :
         ((prev = 0) <=> (s = None)) /\ Knows(q, prev, s) /\ InTune(p, Now(q, l), s)

Calm(q, l, p) == Straight(q) /\ Silent(p) /\ l.fine

\* In consume mode there is another song after one that is queued after itself.
NotItself(q, l) == l.playing /\ q.consume # "OFF" /\ l.queued = l.current => l.current < Length(q)

Attuned(q, l, p) == Calm(q, l, p) /\ Tuned(q, l, p, QueuedId(q, l)) /\ NotItself(q, l)

Synced(w) == Whole(w) /\ Attuned(w.q, w.l, w.pc)

\* An id leads to one song,
LEMMA IdSong ==
  ASSUME NEW q, Good(q), NEW o \in 1..Length(q)
  PROVE  Knows(q, AtOrder(q, o).id, AtOrder(q, o).song)
<1>1. q.order[o] \in Positions(q)
  BY QueueFacts DEF Positions
<1>2. \A p \in Positions(q) : q.items[p].id = q.items[q.order[o]].id => p = q.order[o]
  BY <1>1 DEF Good, TableOK
<1>. QED  BY <1>1, <1>2 DEF Knows, AtOrder

\* and 0 is the id of no song.
LEMMA NoIdZero ==
  ASSUME NEW q, Good(q), NEW s
  PROVE  Knows(q, 0, s)
<1>1. \A p \in Positions(q) : q.items[p].id \in Ids
  BY QueueFacts
<1>2. 0 \notin Ids
  BY Sizes DEF Ids
<1>. QED  BY <1>1, <1>2 DEF Knows

\* What is known about a queue is known of what descends from it.
LEMMA KnowsDescends ==
  ASSUME NEW q, NEW r, Descends(q, r), NEW id, NEW s, Knows(q, id, s)
  PROVE  Knows(r, id, s)
  BY DEF Descends, Knows

\* The current song stays the same song, and the others stay or go.
LEMMA Carried ==
  ASSUME NEW q, NEW l, NEW p, NEW prev, Tuned(q, l, p, prev),
         NEW r, NEW m, m.playing => l.playing, m.queued = l.queued, Descends(q, r),
         m.playing => Now(r, m) = Now(q, l)
  PROVE  Tuned(r, m, p, prev)
<1>. SUFFICES ASSUME m.playing PROVE Tuned(r, m, p, prev)
  BY DEF Tuned
<1>1. PICK s \in Songs \cup {None} :
         ((prev = 0) <=> (s = None)) /\ Knows(q, prev, s) /\ InTune(p, Now(q, l), s)
  BY DEF Tuned
<1>2. Knows(r, prev, s)
  BY <1>1, KnowsDescends
<1>3. (m.queued = 0) <=> (prev = 0)
  BY DEF Tuned
<1>. QED  BY <1>1, <1>2, <1>3 DEF Tuned

\* The player goes on.
LEMMA OnwardTuned ==
  ASSUME NEW q, NEW l, NEW p, NEW r, Onward(p, r)
  PROVE  /\ \A prev : Tuned(q, l, p, prev) => Tuned(q, l, r, prev)
         /\ Calm(q, l, p) => Calm(q, l, r)
         /\ Attuned(q, l, p) => Attuned(q, l, r)
<1>1. ASSUME NEW prev, Tuned(q, l, p, prev) PROVE Tuned(q, l, r, prev)
  <2>. SUFFICES ASSUME l.playing PROVE Tuned(q, l, r, prev)
    BY DEF Tuned
  <2>1. PICK s \in Songs \cup {None} :
           ((prev = 0) <=> (s = None)) /\ Knows(q, prev, s) /\ InTune(p, Now(q, l), s)
    BY <1>1 DEF Tuned
  <2>2. InTune(r, Now(q, l), s)
    BY <2>1 DEF Onward
  <2>3. (l.queued = 0) <=> (prev = 0)
    BY <1>1 DEF Tuned
  <2>. QED  BY <2>1, <2>2, <2>3 DEF Tuned
<1>2. Calm(q, l, p) => Calm(q, l, r)
  BY DEF Calm, Onward
<1>. QED  BY <1>1, <1>2 DEF Attuned

\* A playlist that does not play is in step.
LEMMA IdleSynced ==
  ASSUME NEW w, Whole(w), ~w.l.playing, Calm(w.q, w.l, w.pc)
  PROVE  Synced(w)
  BY DEF Synced, Attuned, Tuned, NotItself

\* Versions, priorities and tags do not matter.
LEMMA AlikeAttuned ==
  ASSUME NEW q, NEW l, NEW p, Fits(q, l), Listed(q, l), Attuned(q, l, p),
         NEW r, Alike(q, r), NEW m, m.playing = l.playing, m.current = l.current,
         m.queued = l.queued, m.fine = l.fine
  PROVE  Attuned(r, m, p)
<1>0. Good(q) /\ Length(q) \in Nat
  BY QueueFacts DEF Fits
<1>1. /\ Length(r) = Length(q) /\ SameModes(q, r) /\ Descends(q, r) /\ (Straight(q) => Straight(r))
      /\ \A o \in 1..Length(q) : AtOrder(r, o).song = AtOrder(q, o).song /\ AtOrder(r, o).id = AtOrder(q, o).id
  BY <1>0, AlikeFacts DEF Positions, Alike
<1>2. CASE ~l.playing
  BY <1>1, <1>2 DEF Attuned, Calm, Tuned, NotItself
<1>3. CASE l.playing
  <2>1. l.current \in 1..Length(q) /\ l.queued \in 0..Length(q)
    BY <1>0, <1>3 DEF Fits, Listed
  <2>2. Now(r, m) = Now(q, l)
    BY <1>1, <2>1 DEF Now
  <2>3. QueuedId(r, m) = QueuedId(q, l)
    <3>1. l.queued # 0 => l.queued \in 1..Length(q)
      BY <1>0, <2>1
    <3>. QED  BY <1>1, <3>1 DEF QueuedId
  <2>4. Tuned(r, m, p, QueuedId(r, m))
    BY <1>1, <1>3, <2>2, <2>3, Carried DEF Attuned
  <2>. QED  BY <1>1, <2>4 DEF Attuned, Calm, NotItself, SameModes
<1>. QED  BY <1>2, <1>3

\* playlist::OnModified()
LEMMA OnModifiedSynced ==
  ASSUME NEW w, Synced(w)
  PROVE  /\ Synced(OnModified(w)) /\ OnModified(w).l = w.l /\ OnModified(w).bulk = w.bulk
         /\ OnModified(w).q.random = w.q.random /\ Alike(w.q, OnModified(w).q)
<1>1. w \in Worlds /\ Good(w.q) /\ Fits(w.q, w.l) /\ Listed(w.q, w.l) /\ Whole(w)
  BY DEF Synced, Whole, Half, Fits
<1>2. Whole(OnModified(w))
  BY <1>1, OnModifiedFacts, NearKeeps
<1>. DEFINE r == IncrementVersion(w.q)
<1>3. Alike(w.q, r) /\ Good(r) /\ r \in Queues
  BY <1>1, IncrementVersionAlike, IncrementVersionFacts DEF Good
<1>4. r.random = w.q.random
  BY <1>3 DEF Alike, SameModes
<1>. HIDE DEF r
<1>5. OnModified(w) = IF w.bulk THEN w ELSE [w EXCEPT !.q = r]
  BY DEF OnModified, r
<1>6. LET v == [w EXCEPT !.q = r] IN v.q = r /\ v.l = w.l /\ v.pc = w.pc /\ v.bulk = w.bulk
  BY <1>1, <1>3, OtherQueue
<1>7. Attuned(r, w.l, w.pc)
  BY <1>1, <1>3, AlikeAttuned DEF Synced
<1>8. Alike(w.q, w.q)
  BY DEF Alike, SameModes
<1>. QED  BY <1>2, <1>3, <1>4, <1>5, <1>6, <1>7, <1>8 DEF Synced

\* playlist::SongStarted(): its assertion holds.
LEMMA SongStartedSynced ==
  ASSUME NEW w, Synced(w), w.l.current # 0
  PROVE  Synced(SongStarted(w)) /\ SongStarted(w).l = w.l /\ Alike(w.q, SongStarted(w).q)
<1>. DEFINE r == ChangePriority(w.q, CurrentPosition(w), 0)
            v == [w EXCEPT !.q = r]
<1>1. w \in Worlds /\ Good(w.q) /\ Fits(w.q, w.l) /\ Listed(w.q, w.l) /\ Whole(w)
  BY DEF Synced, Whole, Half, Fits
<1>2. CurrentPosition(w) \in Positions(w.q) /\ 0 \in Bytes
  BY <1>1, CurrentPositionFacts DEF Bytes, Fits
<1>3. Good(r) /\ Length(r) = Length(w.q) /\ Alike(w.q, r) /\ r \in Queues
  BY <1>1, <1>2, ChangePriorityFacts, EditsAlike DEF Good
<1>4. SongStarted(w) = w \/ SongStarted(w) = OnModified(v)
  BY DEF SongStarted
<1>. HIDE DEF r
<1>5. v.q = r /\ v.l = w.l /\ v.pc = w.pc /\ Whole(v)
  BY <1>1, <1>3, OtherQueue, EditedFacts
<1>6. Synced(v)
  BY <1>1, <1>3, <1>5, AlikeAttuned DEF Synced
<1>. HIDE DEF v
<1>7. Synced(OnModified(v)) /\ OnModified(v).l = w.l /\ Alike(w.q, OnModified(v).q)
  BY <1>3, <1>5, <1>6, OnModifiedSynced, AlikeTransitive
<1>8. Alike(w.q, w.q)
  BY DEF Alike, SameModes
<1>. QED  BY <1>4, <1>7, <1>8

\* playlist::PlayOrder(), whatever the player did before
LEMMA PlayOrderSynced ==
  ASSUME NEW w \in Worlds, Good(w.q), Straight(w.q), w.l.fine, NEW o \in 1..Length(w.q),
         NEW u \in PlayOrder(w, o)
  PROVE  Synced(u) /\ Alike(w.q, u.q)
<1>. DEFINE m == [w.l EXCEPT !.playing = TRUE, !.queued = 0, !.current = o]
            t == [w EXCEPT !.l = m]
            song == AtOrder(w.q, o).song
<1>0. Length(w.q) \in Nat
  BY QueueFacts
<1>1. m \in Lists /\ m.playing /\ m.queued = 0 /\ m.current = o /\ m.fine
  <2>1. o \in Nat /\ w.l \in Lists
    BY <1>0, Parts
  <2>. QED  BY <2>1 DEF Lists
<1>2. [w EXCEPT !.l.playing = TRUE, !.l.queued = 0, !.l.current = o] = t
  BY DEF Worlds
<1>3. song \in Songs
  BY SongFacts
<1>. HIDE DEF m, song
<1>4. t \in Worlds /\ t.q = w.q /\ t.l = m
  BY <1>1, OtherList
<1>. HIDE DEF t
<1>5. PICK v \in Play(t, song) : u = v \/ u = SongStarted(v)
  BY <1>2 DEF PlayOrder, Then, song
<1>6. /\ Beside(t, v) /\ ~Quiet(v.pc)
      /\ v.l.fine /\ Silent(v.pc) /\ InTune(v.pc, song, None)
  BY <1>1, <1>3, <1>4, PlayFacts, PlayOnward
<1>7. /\ v \in Worlds /\ v.q = w.q /\ v.l.playing /\ v.l.current = o /\ v.l.queued = 0
  BY <1>1, <1>4, <1>6 DEF Beside
<1>8. Whole(v)
  <2>1. o \in 0..Length(w.q) /\ o # 0 /\ 0 \in 0..Length(w.q)
    BY <1>0
  <2>. QED  BY <1>6, <1>7, <2>1 DEF Whole, Half, Fits, Listed
<1>9. Now(v.q, v.l) = song /\ QueuedId(v.q, v.l) = 0
  BY <1>7 DEF Now, QueuedId, song
<1>10. Tuned(v.q, v.l, v.pc, 0)
  BY <1>6, <1>7, <1>9, NoIdZero DEF Tuned
<1>11. v.l.queued # v.l.current
  BY <1>0, <1>7
<1>12. Synced(v)
  BY <1>6, <1>7, <1>8, <1>9, <1>10, <1>11 DEF Synced, Attuned, Calm, NotItself
<1>13. v.l.current # 0
  BY <1>0, <1>7
<1>14. Alike(v.q, v.q)
  BY DEF Alike, SameModes
<1>. QED  BY <1>5, <1>7, <1>12, <1>13, <1>14, SongStartedSynced

\* Another queued song: the rest of the list stays.
LEMMA OtherQueuedFields ==
  ASSUME NEW w \in Worlds, NEW o \in Nat
  PROVE  [w EXCEPT !.l.queued = o].l.queued = o /\ [w EXCEPT !.l.queued = o].l.fine = w.l.fine
<1>. DEFINE m == [w.l EXCEPT !.queued = o]
<1>1. m \in Lists /\ m.queued = o /\ m.fine = w.l.fine
  BY Parts DEF Lists
<1>2. [w EXCEPT !.l.queued = o] = [w EXCEPT !.l = m]
  BY DEF Worlds
<1>. HIDE DEF m
<1>. QED  BY <1>1, <1>2, OtherList

\* playlist::QueueSongOrder(): the player is given the song.
LEMMA QueueSongOrderSynced ==
  ASSUME NEW w, Half(w), w.l.playing, Calm(w.q, w.l, w.pc), InTune(w.pc, Now(w.q, w.l), None),
         NEW o \in 1..Length(w.q), NEW u \in QueueSongOrder(w, o)
  PROVE  /\ Calm(u.q, u.l, u.pc) /\ Tuned(u.q, u.l, u.pc, QueuedId(u.q, u.l))
         /\ u.q = w.q /\ u.l.queued = o /\ u.l.current = w.l.current /\ u.l.playing
<1>. DEFINE t == [w EXCEPT !.l.queued = o]
            song == AtOrder(w.q, o).song
<1>0. Length(w.q) \in Nat /\ Good(w.q) /\ w \in Worlds
  BY QueueFacts DEF Half, Fits
<1>1. o \in 0..Length(w.q) /\ o \in Nat /\ o # 0
  BY <1>0
<1>2. /\ Whole(t) /\ t.q = w.q /\ t.pc = w.pc /\ t.l.playing = w.l.playing
      /\ t.l.current = w.l.current /\ t.l.queued = o /\ t.l.fine = w.l.fine
  BY <1>0, <1>1, OtherQueued, OtherQueuedFields
<1>. HIDE DEF t
<1>3. song \in Songs
  BY <1>0, SongFacts
<1>4. u \in LockEnqueueSong(t, song)
  BY DEF QueueSongOrder, t
<1>5. Knows(w.q, AtOrder(w.q, o).id, song) /\ AtOrder(w.q, o).id # 0
  BY <1>0, IdSong, SongFacts
<1>. HIDE DEF song
<1>6. t \in Worlds /\ Silent(t.pc) /\ t.l.fine
  BY <1>2 DEF Whole, Half, Calm
<1>7. u.l.fine /\ Silent(u.pc) /\ InTune(u.pc, Now(w.q, w.l), song)
  BY <1>2, <1>3, <1>4, <1>6, LockEnqueueSongOnward
<1>8. u.q = w.q /\ u.l.playing /\ u.l.current = w.l.current /\ u.l.queued = o
  BY <1>2, <1>3, <1>4, <1>6, LockEnqueueSongFacts DEF Beside
<1>9. Now(u.q, u.l) = Now(w.q, w.l) /\ QueuedId(u.q, u.l) = AtOrder(w.q, o).id
  BY <1>1, <1>8 DEF Now, QueuedId
<1>10. song # None
  BY <1>3, PlaylistAssumption
<1>11. Tuned(u.q, u.l, u.pc, QueuedId(u.q, u.l))
  BY <1>1, <1>3, <1>5, <1>7, <1>8, <1>9, <1>10 DEF Tuned
<1>. QED  BY <1>7, <1>8, <1>11 DEF Calm

\* The second half of UpdateQueuedSong(): the player's next song is replaced.
LEMMA RequeueSynced ==
  ASSUME NEW w, Half(w), w.l.playing, NEW prev, Calm(w.q, w.l, w.pc), Tuned(w.q, w.l, w.pc, prev),
         NEW next \in 0..Length(w.q), NEW u \in Requeue(w, next, prev)
  PROVE  /\ Calm(u.q, u.l, u.pc) /\ Tuned(u.q, u.l, u.pc, QueuedId(u.q, u.l))
         /\ u.q = w.q /\ u.l.queued = next /\ u.l.current = w.l.current /\ u.l.playing
<1>. DEFINE song == IF next = 0 THEN 0 ELSE AtOrder(w.q, next).id
            Queue(v) == IF next = 0 THEN {v} ELSE QueueSongOrder(v, next)
<1>0. Length(w.q) \in Nat /\ Good(w.q) /\ w \in Worlds /\ next \in Nat
  BY QueueFacts DEF Half, Fits
<1>1. PICK s \in Songs \cup {None} :
         ((prev = 0) <=> (s = None)) /\ Knows(w.q, prev, s) /\ InTune(w.pc, Now(w.q, w.l), s)
  BY DEF Tuned
<1>2. \/ song = prev /\ u = [w EXCEPT !.l.queued = next]
      \/ song # prev /\ prev = 0 /\ u \in Queue(w)
      \/ \E v \in LockCancel(w) : u \in Queue([v EXCEPT !.l.queued = 0])
  <2>. HIDE DEF song, Queue
  <2>. QED  BY DEF Requeue, song, Queue
<1>3. CASE song = prev /\ u = [w EXCEPT !.l.queued = next]
  <2>1. /\ u.q = w.q /\ u.pc = w.pc /\ u.l.playing = w.l.playing
        /\ u.l.current = w.l.current /\ u.l.queued = next /\ u.l.fine = w.l.fine
    BY <1>0, <1>3, OtherQueued, OtherQueuedFields
  <2>2. Now(u.q, u.l) = Now(w.q, w.l) /\ QueuedId(u.q, u.l) = song
    BY <2>1 DEF Now, QueuedId
  <2>3. (next = 0) <=> (song = 0)
    BY <1>0, SongFacts
  <2>. HIDE DEF song
  <2>4. Tuned(u.q, u.l, u.pc, prev)
    BY <1>1, <1>3, <2>1, <2>2, <2>3 DEF Tuned
  <2>. QED  BY <1>3, <2>1, <2>2, <2>4 DEF Calm
<1>4. CASE song # prev /\ prev = 0 /\ u \in Queue(w)
  <2>1. next # 0 /\ next \in 1..Length(w.q)
    BY <1>0, <1>4
  <2>2. u \in QueueSongOrder(w, next)
    BY <1>4, <2>1
  <2>. HIDE DEF Queue, song
  <2>3. InTune(w.pc, Now(w.q, w.l), None)
    BY <1>1, <1>4
  <2>. QED  BY <2>1, <2>2, <2>3, QueueSongOrderSynced
<1>5. ASSUME NEW v \in LockCancel(w), u \in Queue([v EXCEPT !.l.queued = 0])
      PROVE  /\ Calm(u.q, u.l, u.pc) /\ Tuned(u.q, u.l, u.pc, QueuedId(u.q, u.l))
             /\ u.q = w.q /\ u.l.queued = next /\ u.l.current = w.l.current /\ u.l.playing
  <2>. DEFINE t == [v EXCEPT !.l.queued = 0]
  <2>1. /\ Half(v) /\ v.q = w.q /\ v.l = w.l /\ v \in Worlds
        /\ Silent(v.pc) /\ InTune(v.pc, Now(w.q, w.l), None)
    BY <1>0, <1>1, LockCancelFacts, LockCancelOnward, BesideKeeps DEF Half, InTune
  <2>2. 0 \in 0..Length(v.q)
    BY <1>0, <2>1
  <2>3. /\ Half(t) /\ t.q = w.q /\ t.pc = v.pc /\ t.l.playing
        /\ t.l.current = w.l.current /\ t.l.queued = 0 /\ t.l.fine = w.l.fine
    BY <2>1, <2>2, OtherQueued, OtherQueuedFields DEF Whole
  <2>. HIDE DEF t, song, Queue
  <2>4. u \in Queue(t)
    BY <1>5 DEF t
  <2>5. Calm(t.q, t.l, t.pc) /\ Now(t.q, t.l) = Now(w.q, w.l) /\ InTune(t.pc, Now(t.q, t.l), None)
    BY <2>1, <2>3 DEF Calm, Now
  <2>6. CASE next = 0
    <3>1. u = t
      BY <2>4, <2>6 DEF Queue
    <3>2. QueuedId(u.q, u.l) = 0
      BY <2>3, <3>1 DEF QueuedId
    <3>3. Tuned(u.q, u.l, u.pc, 0)
      BY <1>0, <2>3, <2>5, <3>1, NoIdZero DEF Tuned
    <3>. QED  BY <2>3, <2>5, <2>6, <3>1, <3>2, <3>3
  <2>7. CASE next # 0
    <3>1. u \in QueueSongOrder(t, next) /\ next \in 1..Length(t.q)
      BY <1>0, <2>3, <2>4, <2>7 DEF Queue
    <3>. QED  BY <2>3, <2>5, <3>1, QueueSongOrderSynced
  <2>. QED  BY <2>6, <2>7
<1>. HIDE DEF song, Queue
<1>. QED  BY <1>2, <1>3, <1>4, <1>5

\* Reshuffled(): the current song stays the current one.
LEMMA ReshuffledSynced ==
  ASSUME NEW w, Half(w), w.l.current # 0, w.q.random, NEW u \in Reshuffled(w)
  PROVE  /\ u.pc = w.pc /\ u.l.fine = w.l.fine /\ Now(u.q, u.l) = Now(w.q, w.l)
         /\ Descends(w.q, u.q) /\ Straight(u.q) /\ SameModes(w.q, u.q)
<1>1. PICK r \in ShuffleOrder(w.q) :
        u = [w EXCEPT !.q = r, !.l.current = PositionToOrder(r, CurrentPosition(w))]
  BY DEF Reshuffled
<1>. DEFINE c == PositionToOrder(r, CurrentPosition(w))
            m == [w.l EXCEPT !.current = c]
<1>2. w \in Worlds /\ Good(w.q) /\ w.l \in Lists
  BY Parts DEF Half, Fits
<1>3. /\ Good(r) /\ Length(r) = Length(w.q) /\ Positions(r) = Positions(w.q) /\ r \in Queues
      /\ r.items = w.q.items /\ SameModes(w.q, r)
  BY <1>2, ShuffleOrderFacts, ShuffleOrderSongs DEF Good
<1>4. CurrentPosition(w) \in Positions(r) /\ CurrentPosition(w) = w.q.order[w.l.current]
  BY <1>2, <1>3, CurrentPositionFacts DEF Half, Fits, CurrentPosition, OrderToPosition
<1>5. c \in Nat /\ r.order[c] = CurrentPosition(w)
  BY <1>3, <1>4, PositionFacts, QueueFacts
<1>. HIDE DEF c
<1>6. m \in Lists /\ m.current = c /\ m.fine = w.l.fine
  BY <1>2, <1>5 DEF Lists
<1>7. u = [w EXCEPT !.q = r, !.l = m]
  BY <1>1, <1>2 DEF Worlds, c
<1>. HIDE DEF m
<1>8. u.q = r /\ u.l = m /\ u.pc = w.pc
  BY <1>2, <1>3, <1>6, <1>7 DEF Worlds
<1>9. Now(u.q, u.l) = Now(w.q, w.l)
  BY <1>3, <1>4, <1>5, <1>6, <1>8 DEF Now, AtOrder
<1>. QED  BY <1>3, <1>6, <1>8, <1>9, SameItemsDescend DEF Straight, SameModes

\* In consume mode no song is queued after itself.
LEMMA NextNotItself ==
  ASSUME NEW q, Good(q), NEW o \in 1..Length(q), q.consume # "OFF"
  PROVE  /\ GetNextOrder(q, o) # o
         /\ GetNextOrder(q, o) = 1 => 1 < Length(q)
         /\ o < Length(q) => GetNextOrder(q, o) # 0
<1>1. Length(q) \in Nat
  BY QueueFacts
<1>. QED  BY <1>1 DEF GetNextOrder

\* The queued song is not one that comes before the current one.
Ahead(w) == w.l.playing /\ w.q.random => w.l.queued = 0 \/ w.l.queued >= w.l.current

\* playlist::UpdateQueuedSong(): its assertions hold, and the playlist is in step.
LEMMA UpdateQueuedSongSynced ==
  ASSUME NEW w, Half(w), NEW prev, Calm(w.q, w.l, w.pc), Tuned(w.q, w.l, w.pc, prev),
         NEW u \in UpdateQueuedSong(w, prev), Whole(w) \/ ~w.bulk
  PROVE  /\ Synced(u) /\ u.l.playing = w.l.playing /\ u.q.random = w.q.random
         /\ w.l.current # 0 => u.l.current # 0
         /\ Ahead(w) /\ w.l.current < Length(w.q) => Ahead(u)
<1>. DEFINE condition == w.q.items # << >> /\ w.l.current # 0 /\ ((w.l.queued = 0) <=> (prev = 0))
            v == Asserting(w, condition)
            next == GetNextOrder(w.q, w.l.current)
            again == next = 1 /\ w.q.random /\ w.q.single = "OFF"
<1>0. /\ w \in Worlds /\ Good(w.q) /\ Length(w.q) \in Nat /\ w.l.current \in 0..Length(w.q)
      /\ w.l.current \in Nat /\ w.l.queued \in Nat
      /\ (w.l.playing => w.l.current # 0)
  BY QueueFacts, Parts DEF Half, Fits
<1>1. Whole(u) /\ Length(u.q) = Length(w.q)
  BY UpdateQueuedSongFacts
<1>2. CASE ~w.l.playing \/ (w.bulk /\ prev = 0)
  <2>1. u = w
    BY <1>2 DEF UpdateQueuedSong
  <2>2. CASE ~w.l.playing
    BY <1>1, <2>1, <2>2, IdleSynced
  <2>3. CASE w.l.playing /\ prev = 0
    <3>1. w.l.queued = 0 /\ w.l.current # 0
      BY <1>0, <2>3 DEF Tuned
    <3>2. QueuedId(w.q, w.l) = prev
      BY <2>3, <3>1 DEF QueuedId
    <3>. QED  BY <1>1, <2>1, <3>1, <3>2 DEF Synced, Attuned, NotItself, Ahead
  <2>. QED  BY <1>2, <2>1, <2>2, <2>3
<1>3. CASE ~(~w.l.playing \/ (w.bulk /\ prev = 0))
  <2>0. w.l.playing /\ w.l.current \in 1..Length(w.q)
    BY <1>0, <1>3
  <2>1. PICK t \in IF again THEN Reshuffled(v) ELSE {v} : u \in Requeue(t, next, prev)
    BY <1>3 DEF UpdateQueuedSong
  <2>2. condition
    <3>1. w.q.items # << >>
      BY <1>0, <2>0, EmptySeq DEF Length
    <3>. QED  BY <1>0, <2>0, <3>1 DEF Tuned
  <2>. HIDE DEF condition
  <2>3. v \in Worlds /\ v.q = w.q /\ v.pc = w.pc /\ (w.l.fine => v.l.fine)
    BY <1>0, <2>2, AssertingTrue
  <2>4. Beside(w, v)
    <3>1. condition \in BOOLEAN
      BY DEF condition
    <3>. QED  BY <1>0, <3>1, AssertingFacts
  <2>. HIDE DEF v
  <2>5. /\ Half(v) /\ v.l.playing /\ v.l.current = w.l.current /\ v.l.queued = w.l.queued
        /\ Now(v.q, v.l) = Now(w.q, w.l)
    BY <2>0, <2>3, <2>4, BesideKeeps DEF Beside, Now
  <2>6. Calm(v.q, v.l, v.pc) /\ Tuned(v.q, v.l, v.pc, prev)
    BY <2>0, <2>3, <2>5 DEF Calm, Tuned
  <2>7. /\ Half(t) /\ t.l.playing /\ t.l.queued = w.l.queued /\ Length(t.q) = Length(w.q)
        /\ Calm(t.q, t.l, t.pc) /\ Tuned(t.q, t.l, t.pc, prev) /\ SameModes(w.q, t.q)
        /\ (~again => t.l.current = w.l.current)
    <3>1. CASE ~again
      BY <2>1, <2>3, <2>5, <2>6, <3>1 DEF SameModes
    <3>2. CASE again
      <4>1. t \in Reshuffled(v) /\ v.q.random /\ v.l.current # 0
        BY <1>0, <2>0, <2>1, <2>3, <2>5, <3>2
      <4>2. /\ Half(t) /\ Length(t.q) = Length(v.q) /\ t.l.playing = v.l.playing
            /\ t.l.queued = v.l.queued
        BY <2>5, <4>1, ReshuffledFacts
      <4>3. /\ t.pc = v.pc /\ t.l.fine = v.l.fine /\ Now(t.q, t.l) = Now(v.q, v.l)
            /\ Descends(v.q, t.q) /\ Straight(t.q) /\ SameModes(v.q, t.q)
        BY <2>5, <4>1, ReshuffledSynced
      <4>4. Tuned(t.q, t.l, t.pc, prev)
        BY <2>5, <2>6, <4>2, <4>3, Carried
      <4>. QED  BY <2>3, <2>5, <2>6, <3>2, <4>2, <4>3, <4>4 DEF Calm
    <3>. QED  BY <3>1, <3>2
  <2>8. next \in 0..Length(t.q)
    BY <1>0, <2>0, <2>7, NextOrderFacts
  <2>9. /\ w.q.consume # "OFF" => next # w.l.current /\ (next = 1 => 1 < Length(w.q))
        /\ w.l.current < Length(w.q) => next >= w.l.current /\ ~again
    <3>1. w.q.consume # "OFF" => next # w.l.current /\ (next = 1 => 1 < Length(w.q))
      BY <1>0, <2>0, NextNotItself
    <3>2. w.l.current < Length(w.q) =>
            next = w.l.current + 1 \/ (next = w.l.current /\ w.q.single # "OFF")
      BY <1>0, <2>0 DEF GetNextOrder
    <3>. HIDE DEF next
    <3>. QED  BY <1>0, <2>0, <3>1, <3>2
  <2>. HIDE DEF next
  <2>10. /\ Calm(u.q, u.l, u.pc) /\ Tuned(u.q, u.l, u.pc, QueuedId(u.q, u.l))
         /\ u.q = t.q /\ u.l.queued = next /\ u.l.current = t.l.current /\ u.l.playing
    BY <2>1, <2>7, <2>8, RequeueSynced
  <2>11. NotItself(u.q, u.l)
    <3>. SUFFICES ASSUME u.q.consume # "OFF", u.l.queued = u.l.current
                  PROVE  u.l.current < Length(u.q)
      BY DEF NotItself
    <3>1. w.q.consume # "OFF" /\ next = t.l.current
      BY <2>7, <2>10 DEF SameModes
    <3>2. again
      BY <2>7, <2>9, <3>1
    <3>. QED  BY <1>0, <2>7, <2>9, <2>10, <3>1, <3>2
  <2>12. Ahead(w) /\ w.l.current < Length(w.q) => Ahead(u)
    BY <2>7, <2>9, <2>10 DEF Ahead
  <2>13. u.l.current # 0
    BY <2>7, <2>10 DEF Half, Fits
  <2>. QED  BY <1>1, <2>0, <2>7, <2>10, <2>11, <2>12, <2>13 DEF Synced, Attuned, SameModes
<1>. QED  BY <1>2, <1>3

\* The same, with the version.
LEMMA RequeuedSynced ==
  ASSUME NEW w, Half(w), NEW prev, Calm(w.q, w.l, w.pc), Tuned(w.q, w.l, w.pc, prev),
         NEW u \in Requeued(w, prev), Whole(w) \/ ~w.bulk
  PROVE  /\ Synced(u) /\ u.l.playing = w.l.playing /\ (w.l.current # 0 => u.l.current # 0)
         /\ Ahead(w) /\ w.l.current < Length(w.q) => Ahead(u)
<1>1. PICK v \in UpdateQueuedSong(w, prev) : u = OnModified(v)
  BY DEF Requeued
<1>2. /\ Synced(v) /\ v.l.playing = w.l.playing /\ (w.l.current # 0 => v.l.current # 0)
      /\ Ahead(w) /\ w.l.current < Length(w.q) => Ahead(v)
  BY UpdateQueuedSongSynced
<1>. QED  BY <1>1, <1>2, OnModifiedSynced DEF Ahead

\* playlist::Stop()
LEMMA StopWithSynced ==
  ASSUME NEW w \in Worlds, Fits(w.q, w.l), Calm(w.q, w.l, w.pc), NEW u \in StopWith(w)
  PROVE  Synced(u) /\ ~u.l.playing
<1>0. Whole(u) /\ ~u.l.playing
  BY StopWithFacts
<1>1. CASE ~w.l.playing
  BY <1>0, <1>1, IdleSynced DEF StopWith
<1>2. CASE w.l.playing
  <2>1. PICK v \in LockStop(w) :
           LET t == [v EXCEPT !.l.queued = 0, !.l.playing = FALSE] IN
           IF w.q.random THEN u \in Reshuffled(t) ELSE u = t
    BY <1>2 DEF StopWith
  <2>. DEFINE t == [v EXCEPT !.l.queued = 0, !.l.playing = FALSE]
              m == [v.l EXCEPT !.queued = 0, !.playing = FALSE]
  <2>2. /\ v \in Worlds /\ Fits(v.q, v.l) /\ v.q = w.q /\ v.l = w.l /\ v.l.current # 0 /\ Silent(v.pc)
    BY <1>2, LockStopFacts, LockStopOnward DEF Beside, Fits, Calm
  <2>3. Whole(t) /\ t.q = w.q /\ ~t.l.playing /\ t.l.current # 0
    BY <2>2, StoppedFacts
  <2>4. t.l.fine = v.l.fine /\ t.pc = v.pc
    <3>1. m \in Lists /\ m.fine = v.l.fine
      BY <2>2, Parts DEF Lists
    <3>2. t = [v EXCEPT !.l = m]
      BY <2>2 DEF Worlds
    <3>. HIDE DEF m, t
    <3>. QED  BY <2>2, <3>1, <3>2, OtherList
  <2>5. IF w.q.random THEN u \in Reshuffled(t) ELSE u = t
    BY <2>1
  <2>. HIDE DEF t
  <2>6. Calm(t.q, t.l, t.pc)
    BY <2>2, <2>3, <2>4 DEF Calm
  <2>7. Calm(u.q, u.l, u.pc)
    BY <2>3, <2>5, <2>6, ReshuffledSynced DEF Calm, Whole
  <2>. QED  BY <1>0, <2>7, IdleSynced
<1>. QED  BY <1>1, <1>2

\* A song that is not the current one is taken out of the queue.
Dropped(v, p, o) == [v EXCEPT !.q = DeletePosition(v.q, p), !.l.current = Still(v.l.current, o)]

\* The player is not concerned.
LEMMA DroppedSynced ==
  ASSUME NEW v, Half(v), Calm(v.q, v.l, v.pc), NEW p \in Positions(v.q),
         NEW o, o = PositionToOrder(v.q, p), v.l.current # o,
         NEW u, u = Dropped(v, p, o)
  PROVE  /\ Calm(u.q, u.l, u.pc) /\ u.l.playing = v.l.playing
         /\ v.l.current # 0 => u.l.current # 0
         /\ \A prev : Tuned(v.q, v.l, v.pc, prev) => Tuned(u.q, u.l, u.pc, prev)
<1>. DEFINE r == DeletePosition(v.q, p)
            c == Still(v.l.current, o)
            m == [v.l EXCEPT !.current = c]
<1>1. /\ v \in Worlds /\ Good(v.q) /\ Length(v.q) \in Nat /\ v.l.current \in 0..Length(v.q)
      /\ (v.l.playing => v.l.current # 0)
  BY QueueFacts DEF Half, Fits
<1>2. o \in Positions(v.q) /\ o \in Nat /\ o # 0
  BY <1>1, PositionFacts, QueueFacts
<1>3. r \in Queues
  BY <1>1, DeletePositionFacts DEF Good
<1>4. /\ Descends(v.q, r) /\ (Straight(v.q) => Straight(r))
      /\ \A x \in Positions(v.q) : x # o => SameSong(AtOrder(r, Still(x, o)), AtOrder(v.q, x))
  BY <1>1, DeletePositionSongs
<1>5. c \in Nat /\ (v.l.current # 0 => c # 0)
  BY <1>1, <1>2 DEF Still
<1>6. v.l.current # 0 => AtOrder(r, c).song = AtOrder(v.q, v.l.current).song
  <2>1. v.l.current # 0 => v.l.current \in Positions(v.q)
    BY <1>1 DEF Positions
  <2>. QED  BY <1>4, <2>1 DEF SameSong
<1>. HIDE DEF r, c
<1>7. m \in Lists /\ m.current = c /\ m.playing = v.l.playing /\ m.queued = v.l.queued /\ m.fine = v.l.fine
  BY <1>1, <1>5, Parts DEF Lists
<1>8. u = [v EXCEPT !.q = r, !.l = m]
  BY <1>1 DEF Worlds, Dropped, r, c
<1>. HIDE DEF m
<1>9. u.q = r /\ u.l = m /\ u.pc = v.pc
  BY <1>1, <1>3, <1>7, <1>8 DEF Worlds
<1>10. v.l.playing => Now(u.q, u.l) = Now(v.q, v.l)
  BY <1>1, <1>6, <1>7, <1>9 DEF Now
<1>11. ASSUME NEW prev, Tuned(v.q, v.l, v.pc, prev) PROVE Tuned(u.q, u.l, u.pc, prev)
  BY <1>4, <1>7, <1>9, <1>10, <1>11, Carried
<1>. QED  BY <1>4, <1>5, <1>7, <1>9, <1>11 DEF Calm

\* playlist::DeleteInternal(): the player keeps the current song, or is given another
\* one with none queued after it, or has stopped.
LEMMA DeleteInternalSynced ==
  ASSUME NEW w, Half(w), Calm(w.q, w.l, w.pc), NEW p \in Positions(w.q), NEW u \in DeleteInternal(w, p)
  PROVE  /\ Calm(u.q, u.l, u.pc) /\ (u.l.playing => w.l.playing)
         /\ \A prev : Tuned(w.q, w.l, w.pc, prev) =>
               Tuned(u.q, u.l, u.pc, prev) \/ Tuned(u.q, u.l, u.pc, 0)
         /\ LET o == PositionToOrder(w.q, p) IN
            /\ w.l.current # 0 /\ w.l.current # o => u.l.current # 0
            /\ w.l.playing /\ w.l.current = o /\ GetNextOrder(w.q, o) \notin {0, o} => u.l.current # 0
<1>. DEFINE o == PositionToOrder(w.q, p)
            next == GetNextOrder(w.q, o)
            replaced ==
              CASE w.l.playing /\ w.l.current = o ->
                     UNION {IF next # 0 /\ next # o /\ t.pc.state # "PAUSE"
                            THEN Caught(PlayOrder(t, next))
                            ELSE {[v EXCEPT !.l.playing = FALSE] :
                                   v \in LockStop([t EXCEPT !.l.current = IF next = o THEN 0 ELSE next])}
                            : t \in Enter(w)}
                [] ~w.l.playing /\ w.l.current = o -> {[w EXCEPT !.l.current = 0]}
                [] OTHER -> {w}
            n == Length(w.q)
<1>0. PICK v \in replaced : u = Dropped(v, p, o)
  <2>. HIDE DEF o, next
  <2>. QED  BY Zenon DEF DeleteInternal, Dropped, o, next
<1>1. /\ w \in Worlds /\ Good(w.q) /\ n \in Nat /\ Fits(w.q, w.l) /\ w.l.playing \in BOOLEAN
      /\ Straight(w.q) /\ Silent(w.pc) /\ w.l.fine
  BY QueueFacts, Parts DEF Half, Fits, Calm
<1>2. o \in 1..n /\ p \in 1..n /\ w.q.order[o] = p
  BY <1>1, PositionFacts DEF Positions
<1>3. next \in 0..n
  BY <1>1, <1>2, NextOrderFacts
<1>. HIDE DEF o, next
<1>4. /\ Half(v) /\ Calm(v.q, v.l, v.pc) /\ v.l.current # o /\ (v.l.playing => w.l.playing)
      /\ \A prev : Tuned(w.q, w.l, w.pc, prev) => Tuned(v.q, v.l, v.pc, prev) \/ Tuned(v.q, v.l, v.pc, 0)
      /\ p \in Positions(v.q) /\ PositionToOrder(v.q, p) = o
      /\ (w.l.current # 0 /\ w.l.current # o => v.l.current # 0)
      /\ (w.l.playing /\ w.l.current = o /\ next \notin {0, o} => v.l.current # 0)
  <2>1. CASE w.l.playing /\ w.l.current = o
    <3>0. replaced = UNION {IF next # 0 /\ next # o /\ t.pc.state # "PAUSE"
                            THEN Caught(PlayOrder(t, next))
                            ELSE {[s EXCEPT !.l.playing = FALSE] :
                                   s \in LockStop([t EXCEPT !.l.current = IF next = o THEN 0 ELSE next])}
                            : t \in Enter(w)}
      BY <2>1
    <3>1. PICK t \in Enter(w) :
             v \in IF next # 0 /\ next # o /\ t.pc.state # "PAUSE"
                   THEN Caught(PlayOrder(t, next))
                   ELSE {[s EXCEPT !.l.playing = FALSE] :
                          s \in LockStop([t EXCEPT !.l.current = IF next = o THEN 0 ELSE next])}
      <4>. HIDE DEF replaced
      <4>. QED  BY <1>0, <3>0
    <3>. HIDE DEF replaced
    <3>2. t \in Worlds /\ t.q = w.q /\ t.l = w.l /\ Silent(t.pc)
      BY <1>1, EnterOnward DEF Onward
    <3>3. CASE next # 0 /\ next # o /\ t.pc.state # "PAUSE"
      <4>1. PICK s \in PlayOrder(t, next) : v = [s EXCEPT !.thrown = FALSE]
        BY <3>1, <3>3 DEF Caught
      <4>2. next \in 1..Length(t.q) /\ Good(t.q)
        BY <1>1, <1>3, <3>2, <3>3
      <4>3. Whole(s) /\ s.l.current = next /\ s.l.queued = 0
        BY <3>2, <4>2, PlayOrderFacts
      <4>4. Synced(s) /\ Alike(w.q, s.q)
        BY <1>1, <3>2, <4>2, PlayOrderSynced
      <4>5. Half(v) /\ v.q = s.q /\ v.l = s.l /\ v.pc = s.pc
        <5>1. s \in Worlds /\ Half(s)
          BY <4>3 DEF Whole, Half
        <5>2. Beside(s, v) /\ v.pc = s.pc
          BY <4>1, <5>1, ThrowFacts
        <5>3. v.l = s.l
          BY <4>1, <5>1 DEF Worlds
        <5>. QED  BY <5>1, <5>2, <5>3, BesideKeeps DEF Beside
      <4>6. Calm(v.q, v.l, v.pc) /\ Tuned(v.q, v.l, v.pc, 0)
        BY <4>3, <4>4, <4>5 DEF Synced, Attuned, QueuedId
      <4>7. p \in Positions(v.q) /\ PositionToOrder(v.q, p) = o
        <5>1. Positions(v.q) = Positions(w.q) /\ v.q.order = w.q.order /\ Good(v.q)
          BY <1>1, <4>4, <4>5, AlikeFacts DEF Alike, Half, Fits
        <5>2. o \in Positions(v.q) /\ p \in Positions(v.q) /\ v.q.order[o] = p
          BY <1>2, <5>1 DEF Positions
        <5>. QED  BY <5>1, <5>2, PositionFacts
      <4>. QED  BY <2>1, <3>3, <4>3, <4>5, <4>6, <4>7
    <3>4. CASE ~(next # 0 /\ next # o /\ t.pc.state # "PAUSE")
      <4>. DEFINE c == IF next = o THEN 0 ELSE next
                  r == [t EXCEPT !.l = [t.l EXCEPT !.current = c]]
      <4>1. c \in 0..n /\ c # o /\ c \in Nat /\ (next \notin {0, o} => c # 0)
        BY <1>1, <1>2, <1>3
      <4>. HIDE DEF c
      <4>2. PICK s \in LockStop([t EXCEPT !.l.current = c]) : v = [s EXCEPT !.l.playing = FALSE]
        BY <3>1, <3>4 DEF c
      <4>3. [t EXCEPT !.l.current = c] = r
        BY <3>2 DEF Worlds
      <4>4. /\ [t.l EXCEPT !.current = c] \in Lists /\ [t.l EXCEPT !.current = c].current = c
            /\ [t.l EXCEPT !.current = c].fine = t.l.fine
        BY <3>2, <4>1, Parts DEF Lists
      <4>5. r \in Worlds /\ r.q = w.q /\ r.l.current = c /\ r.l.fine = w.l.fine /\ r.pc = t.pc
        BY <3>2, <4>4, OtherList
      <4>. HIDE DEF r
      <4>6. s \in Worlds /\ s.q = w.q /\ s.l.current = c /\ s.l.fine = w.l.fine /\ Silent(s.pc)
        BY <3>2, <4>2, <4>3, <4>5, LockStopFacts, LockStopOnward DEF Beside
      <4>7. v = [s EXCEPT !.l = [s.l EXCEPT !.playing = FALSE]]
        BY <4>2, <4>6 DEF Worlds
      <4>8. /\ [s.l EXCEPT !.playing = FALSE] \in Lists /\ [s.l EXCEPT !.playing = FALSE].current = c
            /\ ~[s.l EXCEPT !.playing = FALSE].playing /\ [s.l EXCEPT !.playing = FALSE].fine = w.l.fine
        BY <4>6, Parts DEF Lists
      <4>9. /\ v \in Worlds /\ v.q = w.q /\ v.l.current = c /\ ~v.l.playing /\ v.l.fine = w.l.fine
            /\ v.pc = s.pc
        BY <4>6, <4>7, <4>8, OtherList
      <4>10. Half(v)
        BY <1>1, <4>1, <4>9 DEF Half, Fits
      <4>11. Calm(v.q, v.l, v.pc) /\ \A prev : Tuned(v.q, v.l, v.pc, prev)
        BY <1>1, <4>6, <4>9 DEF Calm, Tuned
      <4>. QED  BY <2>1, <4>1, <4>9, <4>10, <4>11 DEF o
    <3>. QED  BY <3>3, <3>4
  <2>2. CASE ~w.l.playing /\ w.l.current = o
    <3>1. v = [w EXCEPT !.l.current = 0]
      BY <1>0, <2>2
    <3>. DEFINE m == [w.l EXCEPT !.current = 0]
    <3>2. v = [w EXCEPT !.l = m]
      BY <1>1, <3>1 DEF Worlds
    <3>3. m \in Lists /\ m.current = 0 /\ ~m.playing /\ m.fine = w.l.fine
      BY <1>1, <2>2, Parts DEF Lists
    <3>. HIDE DEF m, replaced
    <3>4. v \in Worlds /\ v.q = w.q /\ v.l = m /\ v.pc = w.pc
      BY <1>1, <3>2, <3>3, OtherList
    <3>5. 0 \in 0..n /\ 0 # o
      BY <1>1, <1>2
    <3>6. Half(v)
      BY <1>1, <3>3, <3>4, <3>5 DEF Half, Fits
    <3>7. Calm(v.q, v.l, v.pc) /\ \A prev : Tuned(v.q, v.l, v.pc, prev)
      BY <1>1, <3>3, <3>4 DEF Calm, Tuned
    <3>. QED  BY <2>2, <3>3, <3>4, <3>5, <3>6, <3>7 DEF o
  <2>3. CASE w.l.current # o
    <3>1. v = w
      BY <1>0, <2>3
    <3>. HIDE DEF replaced
    <3>. QED  BY <2>3, <3>1 DEF o
  <2>. QED  BY <1>1, <2>1, <2>2, <2>3
<1>. HIDE DEF replaced
<1>5. /\ Calm(u.q, u.l, u.pc) /\ u.l.playing = v.l.playing
      /\ v.l.current # 0 => u.l.current # 0
      /\ \A prev : Tuned(v.q, v.l, v.pc, prev) => Tuned(u.q, u.l, u.pc, prev)
  <2>1. v.l.current # o /\ o = PositionToOrder(v.q, p) /\ p \in Positions(v.q)
    BY <1>4
  <2>2. Half(v) /\ Calm(v.q, v.l, v.pc)
    BY <1>4
  <2>. QED  BY <1>0, <2>1, <2>2, DroppedSynced
<1>. QED  BY <1>4, <1>5 DEF o, next

\* After a deletion another song is queued.
LEMMA AfterDelete ==
  ASSUME NEW w, Synced(w), ~w.bulk, NEW v, Half(v), v.bulk = w.bulk, Calm(v.q, v.l, v.pc),
         v.l.playing => w.l.playing,
         \/ Tuned(v.q, v.l, v.pc, QueuedId(w.q, w.l))
         \/ Tuned(v.q, v.l, v.pc, 0),
         NEW u \in Requeued(v, QueuedAfter(v, w))
  PROVE  Synced(u) /\ u.l.playing = v.l.playing /\ (v.l.current # 0 => u.l.current # 0)
<1>1. Tuned(v.q, v.l, v.pc, QueuedAfter(v, w))
  BY DEF Tuned, QueuedAfter, GetQueuedSong, QueuedId
<1>. QED  BY <1>1, RequeuedSynced

\* playlist::DeleteRange()
LEMMA DeleteRangeOfSynced ==
  ASSUME NEW w, Synced(w), ~w.bulk, NEW start \in Positions(w.q),
         NEW end \in start + 1 .. Length(w.q) + 1, NEW u \in DeleteRangeOf(w, start, end)
  PROVE  Synced(u) /\ ~u.bulk
<1>. DEFINE id == QueuedId(w.q, w.l)
            Kept(v) == /\ Calm(v.q, v.l, v.pc) /\ (v.l.playing => w.l.playing)
                       /\ Tuned(v.q, v.l, v.pc, id) \/ Tuned(v.q, v.l, v.pc, 0)
            T == [p \in start .. end |-> {v \in Worlds : Kept(v)}]
<1>0. start \in Int /\ end \in Int /\ start < end /\ Half(w) /\ w \in Worlds
  BY QueueFacts DEF Synced, Whole, Half, Fits, Positions
<1>1. w \in T[end]
  BY <1>0 DEF Synced, Attuned
<1>2. ASSUME NEW p \in start .. end - 1, NEW v \in T[p + 1], Half(v), p \in Positions(v.q),
             NEW t \in DeleteInternal(v, p)
      PROVE  t \in T[p]
  <2>1. p \in start .. end /\ p + 1 \in start .. end
    BY <1>0
  <2>2. Kept(v)
    BY <2>1
  <2>3. t \in Worlds
    BY <1>2, DeleteInternalFacts DEF Half
  <2>. HIDE DEF T, id
  <2>4. Kept(t)
    BY <1>2, <2>2, DeleteInternalSynced
  <2>. HIDE DEF Kept
  <2>. QED  BY <2>1, <2>3, <2>4 DEF T
<1>3. T[start] = {v \in Worlds : Kept(v)}
  BY <1>0
<1>. HIDE DEF T
<1>4. PICK v \in T[start] : /\ Half(v) /\ Length(v.q) = Length(w.q) - (end - start) /\ v.bulk = w.bulk
                            /\ u \in Requeued(v, QueuedAfter(v, w))
  BY <1>0, <1>1, <1>2, DeleteLoop
<1>5. Kept(v)
  BY <1>3, <1>4
<1>6. ~u.bulk
  BY <1>0, DeleteRangeOfFacts
<1>. QED  BY <1>4, <1>5, <1>6, AfterDelete

\* A mode of the queue changes.
LEMMA ModeAttuned ==
  ASSUME NEW q, NEW r, r.items = q.items, r.order = q.order, r.random = q.random, NEW l, NEW p
  PROVE  /\ Calm(q, l, p) => Calm(r, l, p)
         /\ QueuedId(r, l) = QueuedId(q, l)
         /\ \A prev : Tuned(q, l, p, prev) => Tuned(r, l, p, prev)
         /\ r.consume \in {q.consume, "OFF"} /\ Attuned(q, l, p) => Attuned(r, l, p)
<1>1. Positions(r) = Positions(q) /\ Length(r) = Length(q)
  BY DEF Positions, Length
<1>2. QueuedId(r, l) = QueuedId(q, l) /\ Now(r, l) = Now(q, l)
  BY DEF QueuedId, Now, AtOrder
<1>3. Calm(q, l, p) => Calm(r, l, p)
  BY <1>1 DEF Calm, Straight
<1>4. \A prev : Tuned(q, l, p, prev) => Tuned(r, l, p, prev)
  BY <1>1, <1>2 DEF Tuned, Knows
<1>5. r.consume \in {q.consume, "OFF"} /\ NotItself(q, l) => NotItself(r, l)
  BY <1>1 DEF NotItself
<1>. QED  BY <1>2, <1>3, <1>4, <1>5 DEF Attuned

\* The song that was played is deleted in consume mode.  There is a current song
\* afterwards.
LEMMA ConsumeSynced ==
  ASSUME NEW w, Synced(w), ~w.bulk, NEW o \in 1..Length(w.q), NEW u \in Consume(w, o)
  PROVE  /\ Synced(u)
         /\ w.l.playing /\ (w.l.current = o /\ w.q.consume # "OFF" => o < Length(w.q)) => u.l.current # 0
<1>. DEFINE mode(v) == IF v.q.consume = "ONE_SHOT" THEN "OFF" ELSE v.q.consume
            Others == w.l.current = o /\ w.q.consume # "OFF" => o < Length(w.q)
<1>0. Whole(w) /\ Half(w) /\ Good(w.q) /\ Length(w.q) \in Nat /\ (w.l.playing => w.l.current # 0)
  BY QueueFacts DEF Synced, Whole, Half, Fits
<1>1. PICK v \in IF w.q.consume = "OFF" THEN {w} ELSE DeleteOrder(w, o) :
         u = [v EXCEPT !.q.consume = mode(v)]
  BY DEF Consume
<1>2. Synced(v) /\ (w.l.playing /\ Others => v.l.current # 0)
  <2>1. CASE w.q.consume = "OFF"
    BY <1>0, <1>1, <2>1
  <2>2. CASE w.q.consume # "OFF"
    <3>. DEFINE p == OrderToPosition(w.q, o)
                T == [x \in p .. p + 1 |-> IF x = p + 1 THEN {w} ELSE DeleteInternal(w, p)]
    <3>1. p \in Positions(w.q) /\ PositionToOrder(w.q, p) = o
      <4>1. o \in Positions(w.q)
        BY DEF Positions
      <4>2. p \in Positions(w.q) /\ w.q.order[o] = p
        BY <1>0, <4>1, QueueFacts DEF OrderToPosition
      <4>. QED  BY <1>0, <4>1, <4>2, PositionFacts
    <3>2. v \in DeleteRangeOf(w, p, p + 1)
      BY <1>1, <2>2 DEF DeleteOrder
    <3>. HIDE DEF p
    <3>3. p + 1 \in p + 1 .. Length(w.q) + 1 /\ p \in Nat
      BY <1>0, <3>1 DEF Positions
    <3>4. T[p + 1] = {w} /\ T[p] = DeleteInternal(w, p)
      BY <3>3
    <3>. HIDE DEF T
    <3>5. ASSUME NEW x \in p .. (p + 1) - 1, NEW t \in T[x + 1], NEW s \in DeleteInternal(t, x)
          PROVE  s \in T[x]
      <4>1. x = p
        BY <3>3
      <4>. QED  BY <3>4, <3>5, <4>1
    <3>6. PICK t \in T[p] : /\ Half(t) /\ t.bulk = w.bulk
                            /\ v \in Requeued(t, QueuedAfter(t, w))
      <4>1. w \in T[p + 1]
        BY <3>4
      <4>. QED  BY <1>0, <3>1, <3>2, <3>3, <3>5, <4>1, DeleteLoop
    <3>7. /\ Calm(w.q, w.l, w.pc) /\ Tuned(w.q, w.l, w.pc, QueuedId(w.q, w.l)) /\ t \in DeleteInternal(w, p)
      BY <3>4, <3>6 DEF Synced, Attuned
    <3>8. /\ Calm(t.q, t.l, t.pc) /\ (t.l.playing => w.l.playing)
          /\ Tuned(t.q, t.l, t.pc, QueuedId(w.q, w.l)) \/ Tuned(t.q, t.l, t.pc, 0)
          /\ w.l.current # 0 /\ w.l.current # o => t.l.current # 0
          /\ w.l.playing /\ w.l.current = o /\ GetNextOrder(w.q, o) \notin {0, o} => t.l.current # 0
      BY <1>0, <3>1, <3>7, DeleteInternalSynced
    <3>9. Synced(v) /\ (t.l.current # 0 => v.l.current # 0)
      BY <3>6, <3>8, AfterDelete
    <3>10. o < Length(w.q) => GetNextOrder(w.q, o) \notin {0, o}
      BY <1>0, <2>2, NextNotItself
    <3>. QED  BY <1>0, <2>2, <3>8, <3>9, <3>10
  <2>. QED  BY <2>1, <2>2
<1>. HIDE DEF Others
<1>. DEFINE r == [v.q EXCEPT !.consume = mode(v)]
<1>3. v \in Worlds /\ Good(v.q) /\ v.q \in Queues /\ Attuned(v.q, v.l, v.pc)
  BY <1>2 DEF Synced, Whole, Half, Fits, Good
<1>4. /\ r \in Queues /\ r.items = v.q.items /\ r.order = v.q.order /\ r.random = v.q.random
      /\ r.consume \in {v.q.consume, "OFF"}
  <2>1. mode(v) \in Modes /\ mode(v) \in {v.q.consume, "OFF"}
    BY <1>3 DEF Queues, Modes
  <2>. HIDE DEF mode
  <2>. QED  BY <1>3, <2>1 DEF Queues
<1>5. u = [v EXCEPT !.q = r]
  BY <1>1, <1>3 DEF Worlds
<1>. HIDE DEF r
<1>6. u.q = r /\ u.l = v.l /\ u.pc = v.pc
  BY <1>3, <1>4, <1>5, OtherQueue
<1>7. Attuned(u.q, u.l, u.pc)
  BY <1>3, <1>4, <1>6, ModeAttuned
<1>8. Whole(u)
  BY <1>0, ConsumeFacts
<1>. QED  BY <1>2, <1>6, <1>7, <1>8 DEF Synced, Others

\* playlist::PlayNext(): its assertion holds.
LEMMA PlayNextOfSynced ==
  ASSUME NEW w \in Worlds, Fits(w.q, w.l), w.l.playing, ~w.bulk, Calm(w.q, w.l, w.pc),
         NEW u \in PlayNextOf(w)
  PROVE  Synced(u)
<1>. DEFINE next == GetNextOrder(w.q, w.l.current)
            condition == w.l.current \in Positions(w.q)
            a == Asserting(w, condition)
            t == [a EXCEPT !.l.stop_on_error = FALSE]
            started == IF next = 0 THEN {[v EXCEPT !.l.current = 0] : v \in StopWith(t)}
                       ELSE UNION {PlayOrder([t EXCEPT !.q = r], next) :
                                     r \in IF next = 1 /\ t.q.random THEN ShuffleOrder(t.q) ELSE {t.q}}
<1>1. PICK v \in started : u = v \/ u \in Consume(v, w.l.current)
  <2>. HIDE DEF next, t
  <2>. QED  BY DEF PlayNextOf, Then, next, t
<1>. HIDE DEF next, started, t, a, condition
<1>2. w.l.current \in 1..Length(w.q) /\ Length(w.q) \in Nat /\ Good(w.q)
  <2>1. Good(w.q) /\ w.l.current \in 0..Length(w.q) /\ w.l.current # 0
    BY DEF Fits
  <2>. QED  BY <2>1, QueueFacts
<1>3. next \in 0..Length(w.q)
  BY <1>2, NextOrderFacts DEF next
<1>4. /\ t \in Worlds /\ t.q = w.q /\ t.bulk = w.bulk /\ Fits(t.q, t.l) /\ t.pc = w.pc
      /\ Calm(t.q, t.l, t.pc)
  <2>1. condition
    BY <1>2 DEF condition, Positions
  <2>2. condition \in BOOLEAN
    BY DEF condition
  <2>3. /\ a \in Worlds /\ a.q = w.q /\ a.bulk = w.bulk /\ a.pc = w.pc
        /\ a.l.current = w.l.current /\ a.l.playing = w.l.playing /\ (w.l.fine => a.l.fine)
    BY <2>1, <2>2, AssertingTrue, AssertingFacts DEF a, Beside
  <2>. DEFINE m == [a.l EXCEPT !.stop_on_error = FALSE]
  <2>4. m \in Lists /\ m.playing = a.l.playing /\ m.current = a.l.current /\ m.fine = a.l.fine
    BY <2>3, Parts DEF Lists
  <2>5. t = [a EXCEPT !.l = m]
    BY <2>3 DEF Worlds, t
  <2>. HIDE DEF m
  <2>6. t \in Worlds /\ t.q = a.q /\ t.l = m /\ t.pc = a.pc /\ t.bulk = a.bulk
    BY <2>3, <2>4, <2>5, OtherList
  <2>. QED  BY <2>3, <2>4, <2>6 DEF Fits, Calm
<1>5. Synced(v) /\ v.bulk = w.bulk /\ Length(v.q) = Length(w.q)
  <2>1. CASE next = 0
    <3>1. PICK s \in StopWith(t) : v = [s EXCEPT !.l.current = 0]
      BY <1>1, <2>1 DEF started
    <3>2. /\ Synced(s) /\ Length(s.q) = Length(w.q) /\ s.bulk = w.bulk /\ ~s.l.playing /\ s \in Worlds
          /\ Good(s.q)
      BY <1>4, StopWithFacts, StopWithSynced DEF Whole, Half, Fits
    <3>. DEFINE m == [s.l EXCEPT !.current = 0]
    <3>3. m \in Lists /\ ~m.playing /\ m.current = 0 /\ m.fine = s.l.fine
      BY <3>2, Parts DEF Lists
    <3>4. v = [s EXCEPT !.l = m]
      BY <3>1, <3>2 DEF Worlds
    <3>. HIDE DEF m
    <3>5. v \in Worlds /\ v.q = s.q /\ v.l = m /\ v.pc = s.pc /\ v.bulk = s.bulk
      BY <3>2, <3>3, <3>4, OtherList
    <3>6. 0 \in 0..Length(v.q)
      BY <1>2, <3>2, <3>5
    <3>7. Whole(v) /\ ~v.l.playing
      BY <3>2, <3>3, <3>5, <3>6 DEF Whole, Half, Fits, Listed
    <3>8. Calm(v.q, v.l, v.pc)
      BY <3>2, <3>3, <3>5 DEF Synced, Attuned, Calm
    <3>. QED  BY <3>2, <3>5, <3>7, <3>8, IdleSynced
  <2>2. CASE next # 0
    <3>1. PICK r \in IF next = 1 /\ t.q.random THEN ShuffleOrder(t.q) ELSE {t.q} :
             v \in PlayOrder([t EXCEPT !.q = r], next)
      BY <1>1, <2>2 DEF started
    <3>2. Good(r) /\ Length(r) = Length(w.q) /\ r \in Queues
      BY <1>2, <1>4, ShuffleOrderFacts DEF Good
    <3>3. Straight(r)
      <4>1. CASE next = 1 /\ t.q.random
        <5>1. r \in ShuffleOrder(t.q) /\ Good(t.q)
          BY <1>2, <1>4, <3>1, <4>1
        <5>. QED  BY <4>1, <5>1, ShuffleOrderSongs DEF Straight, SameModes
      <4>2. CASE ~(next = 1 /\ t.q.random)
        BY <1>4, <3>1, <4>2 DEF Calm
      <4>. QED  BY <4>1, <4>2
    <3>. DEFINE s == [t EXCEPT !.q = r]
    <3>4. s \in Worlds /\ s.q = r /\ s.bulk = t.bulk /\ s.l = t.l
      BY <1>4, <3>2, OtherQueue
    <3>5. v \in PlayOrder(s, next)
      BY <3>1
    <3>. HIDE DEF s
    <3>6. next \in 1..Length(s.q) /\ Good(s.q)
      BY <1>2, <1>3, <2>2, <3>2, <3>4
    <3>7. s.l.fine /\ Straight(s.q)
      BY <1>4, <3>3, <3>4 DEF Calm
    <3>8. Synced(v)
      BY <3>4, <3>5, <3>6, <3>7, PlayOrderSynced
    <3>. QED  BY <1>4, <3>2, <3>4, <3>5, <3>6, <3>8, PlayOrderFacts
  <2>. QED  BY <2>1, <2>2
<1>6. w.l.current \in 1..Length(v.q)
  BY <1>2, <1>5
<1>. QED  BY <1>1, <1>5, <1>6, ConsumeSynced

\* An exception that is caught
LEMMA CaughtSynced ==
  ASSUME NEW S, NEW u \in Caught(S), \A w \in S : Synced(w)
  PROVE  Synced(u)
<1>1. PICK w \in S : u = [w EXCEPT !.thrown = FALSE]
  BY DEF Caught
<1>2. Synced(w) /\ Whole(w) /\ w \in Worlds
  BY <1>1 DEF Synced, Whole, Half
<1>3. Beside(w, u) /\ u.pc = w.pc
  BY <1>1, <1>2, ThrowFacts
<1>4. u.l = w.l /\ u.q = w.q
  BY <1>1, <1>2 DEF Worlds
<1>. QED  BY <1>2, <1>3, <1>4, BesideKeeps DEF Synced

\* The player has stopped: the playlist stops, or goes on with the next song.
LEMMA ResumePlaybackSynced ==
  ASSUME NEW w \in Worlds, Fits(w.q, w.l), w.l.playing, ~w.bulk, Calm(w.q, w.l, w.pc),
         NEW u \in ResumePlayback(w)
  PROVE  Synced(u)
<1>. DEFINE errors == IF w.pc.error = "NONE" THEN 0 ELSE w.l.errors + 1
            v == [w EXCEPT !.l.errors = errors]
            m == [w.l EXCEPT !.errors = errors]
<1>1. u \in StopWith(v) \/ u \in Caught(PlayNextOf(v))
  <2>. HIDE DEF v
  <2>. QED  BY DEF ResumePlayback, v
<1>2. m \in Lists /\ m.playing = w.l.playing /\ m.current = w.l.current /\ m.fine = w.l.fine
  <2>1. w.l \in Lists /\ errors \in Nat
    BY Parts DEF Lists
  <2>. HIDE DEF errors
  <2>. QED  BY <2>1 DEF Lists
<1>3. v = [w EXCEPT !.l = m]
  BY DEF Worlds
<1>. HIDE DEF v, m
<1>4. v \in Worlds /\ v.q = w.q /\ v.l = m /\ v.pc = w.pc /\ v.bulk = w.bulk
  BY <1>2, <1>3, OtherList
<1>5. Fits(v.q, v.l) /\ v.l.playing /\ ~v.bulk /\ Calm(v.q, v.l, v.pc)
  BY <1>2, <1>4 DEF Fits, Calm
<1>6. \A t \in PlayNextOf(v) : Synced(t)
  BY <1>4, <1>5, PlayNextOfSynced
<1>. QED  BY <1>1, <1>4, <1>5, <1>6, StopWithSynced, CaughtSynced

\* PlayerControl::ClearError()
LEMMA ClearErrorSynced ==
  ASSUME NEW w \in Worlds
  PROVE  /\ ClearError(w) \in Worlds /\ ClearError(w).q = w.q /\ ClearError(w).l = w.l
         /\ (Silent(w.pc) => Silent(ClearError(w).pc))
<1>. DEFINE p == [w.pc EXCEPT !.error = "NONE"]
<1>1. p \in Players /\ p.state = w.pc.state /\ p.next = w.pc.next
  BY Parts DEF Players
<1>2. ClearError(w) = [w EXCEPT !.pc = p]
  BY DEF Worlds, ClearError
<1>. HIDE DEF p
<1>. QED  BY <1>1, <1>2, OtherPlayer DEF Silent

\* Playing starts without an error.
LEMMA NoErrorSynced ==
  ASSUME NEW w \in Worlds
  PROVE  NoError(w) \in Worlds /\ NoError(w).q = w.q /\ NoError(w).l.fine = w.l.fine
<1>. DEFINE v == ClearError(w)
            m == [v.l EXCEPT !.stop_on_error = FALSE, !.errors = 0]
<1>1. v \in Worlds /\ v.q = w.q /\ v.l = w.l
  BY ClearErrorSynced
<1>. HIDE DEF v
<1>2. m \in Lists /\ m.fine = v.l.fine
  BY <1>1, Parts DEF Lists
<1>3. NoError(w) = [v EXCEPT !.l = m]
  BY <1>1 DEF Worlds, NoError, v
<1>. HIDE DEF m
<1>. QED  BY <1>1, <1>2, <1>3, OtherList

\* playlist::MoveOrderToCurrent() changes the order in random mode only.
LEMMA MoveOrderToCurrentStraight ==
  ASSUME NEW w \in Worlds, Fits(w.q, w.l), NEW o \in 1..Length(w.q), Straight(w.q)
  PROVE  /\ Straight(MoveOrderToCurrent(w, o).q)
         /\ MoveOrderToCurrent(w, o).q.items = w.q.items
<1>. DEFINE to == CASE w.l.playing -> AfterOrder(o, w.l.current)
                    [] ~w.l.playing /\ w.l.current # 0 -> BeforeOrder(o, w.l.current)
                    [] OTHER -> 1
<1>1. MoveOrderToCurrent(w, o) = IF w.q.random THEN [q |-> MoveOrder(w.q, o, to), o |-> to]
                                 ELSE [q |-> w.q, o |-> o]
  BY DEF MoveOrderToCurrent
<1>2. w.q.random => to = MoveOrderToCurrent(w, o).o
  <2>. HIDE DEF to
  <2>. QED  BY <1>1
<1>. HIDE DEF to
<1>3. CASE w.q.random
  <2>1. to \in Positions(w.q) /\ o \in Positions(w.q) /\ Good(w.q)
    BY <1>2, <1>3, MoveOrderToCurrentFacts DEF Positions, Fits
  <2>2. MoveOrder(w.q, o, to).items = w.q.items /\ SameModes(w.q, MoveOrder(w.q, o, to))
    BY <2>1, MoveOrderSongs
  <2>3. MoveOrderToCurrent(w, o).q = MoveOrder(w.q, o, to)
    BY <1>1, <1>3
  <2>. QED  BY <1>3, <2>2, <2>3 DEF Straight, SameModes
<1>4. CASE ~w.q.random
  <2>1. MoveOrderToCurrent(w, o).q = w.q
    BY <1>1, <1>4
  <2>. QED  BY <2>1
<1>. QED  BY <1>3, <1>4

\* playlist::PlayPosition()
LEMMA PlayPositionOfSynced ==
  ASSUME NEW w \in Worlds, Fits(w.q, w.l), Straight(w.q), w.l.fine,
         NEW p \in Positions(w.q), NEW u \in PlayPositionOf(w, p)
  PROVE  Synced(u)
<1>. DEFINE o == IF w.q.random THEN PositionToOrder(w.q, p) ELSE p
            m == MoveOrderToCurrent(w, o)
            v == NoError(w)
            t == [v EXCEPT !.q = m.q]
<1>1. o \in 1..Length(w.q)
  BY PositionFacts DEF Fits, Positions
<1>2. u \in PlayOrder(t, m.o)
  <2>. HIDE DEF o, v
  <2>. QED  BY DEF PlayPositionOf, o, v
<1>. HIDE DEF o
<1>3. /\ Good(m.q) /\ Length(m.q) = Length(w.q) /\ m.o \in 1..Length(w.q) /\ m.q \in Queues
      /\ Straight(m.q)
  BY <1>1, MoveOrderToCurrentFacts, MoveOrderToCurrentStraight DEF Good
<1>. HIDE DEF m
<1>4. v \in Worlds /\ v.l.fine
  BY NoErrorSynced
<1>. HIDE DEF v
<1>5. t \in Worlds /\ t.q = m.q /\ t.l = v.l
  BY <1>3, <1>4, OtherQueue
<1>. HIDE DEF t
<1>. QED  BY <1>2, <1>3, <1>4, <1>5, PlayOrderSynced

\* playlist::SeekSongOrder(): the player has the song, and another one is queued.
LEMMA SeekSongOrderSynced ==
  ASSUME NEW w \in Worlds, Fits(w.q, w.l), ~w.bulk, Calm(w.q, w.l, w.pc),
         NEW o \in 1..Length(w.q), NEW zero, NEW u \in SeekSongOrder(w, o, zero)
  PROVE  Synced(u)
<1>. DEFINE m == MoveOrderToCurrent(w, o)
            a == ClearError(w)
            l == [a.l EXCEPT !.stop_on_error = TRUE, !.errors = 0, !.queued = 0]
            v == [a EXCEPT !.l = l]
            k == [l EXCEPT !.playing = TRUE, !.current = m.o]
            t == IF w.l.playing /\ w.l.current = o THEN v
                 ELSE [v EXCEPT !.q = m.q, !.l = k]
            song == AtOrder(t.q, t.l.current).song
<1>1. a \in Worlds /\ a.q = w.q /\ a.bulk = w.bulk /\ a.l = w.l
  BY ClearErrorFacts, ClearErrorSynced DEF Beside
<1>2. /\ m.q \in Queues /\ Good(m.q) /\ Length(m.q) = Length(w.q) /\ m.o \in 1..Length(w.q)
      /\ Length(w.q) \in Nat /\ Straight(m.q)
  BY MoveOrderToCurrentFacts, MoveOrderToCurrentStraight, QueueFacts DEF Good, Fits, Calm
<1>3. PICK s \in SeekLocked(t, song, zero) : u \in UpdateQueuedSong([s EXCEPT !.thrown = FALSE], 0)
  <2>. DEFINE V == [a EXCEPT !.l.stop_on_error = TRUE, !.l.errors = 0, !.l.queued = 0]
              T == IF w.l.playing /\ w.l.current = o THEN V
                   ELSE [V EXCEPT !.q = m.q, !.l.playing = TRUE, !.l.current = m.o]
  <2>1. V = v
    <3>. HIDE DEF a
    <3>. QED  BY <1>1 DEF Worlds
  <2>2. [v EXCEPT !.q = m.q, !.l.playing = TRUE, !.l.current = m.o] = [v EXCEPT !.q = m.q, !.l = k]
    <3>1. v \in Worlds /\ v.l = l
      <4>. HIDE DEF a
      <4>1. l \in Lists
        BY <1>1, Parts DEF Lists
      <4>. HIDE DEF l
      <4>. QED  BY <1>1, <4>1, OtherList
    <3>. HIDE DEF v, l, m
    <3>. QED  BY <3>1 DEF Worlds
  <2>3. T = t
    BY <2>1, <2>2, Zenon
  <2>4. SeekSongOrder(w, o, zero)
          = UNION {UpdateQueuedSong([s EXCEPT !.thrown = FALSE], 0) :
                   s \in SeekLocked(T, AtOrder(T.q, T.l.current).song, zero)}
    BY Zenon DEF SeekSongOrder
  <2>. HIDE DEF T, t
  <2>. QED  BY <2>3, <2>4
<1>. HIDE DEF a, m
<1>4. l \in Lists /\ l.playing = w.l.playing /\ l.current = w.l.current /\ l.queued = 0 /\ l.fine = w.l.fine
  BY <1>1, Parts DEF Lists
<1>. HIDE DEF l
<1>5. v \in Worlds /\ v.q = w.q /\ v.l = l /\ v.bulk = w.bulk
  BY <1>1, <1>4, OtherList
<1>. HIDE DEF v
<1>6. k \in Lists /\ k.playing /\ k.current = m.o /\ k.queued = 0 /\ k.fine = l.fine
  <2>1. m.o \in Nat
    BY <1>2
  <2>. HIDE DEF t, song
  <2>. QED  BY <1>4, <2>1 DEF Lists
<1>. HIDE DEF k
<1>7. /\ t \in Worlds /\ Fits(t.q, t.l) /\ t.l.playing /\ t.l.queued = 0 /\ t.bulk = w.bulk
      /\ t.l.current \in 1..Length(t.q) /\ Straight(t.q) /\ t.l.fine
  <2>1. CASE w.l.playing /\ w.l.current = o
    BY <1>4, <1>5, <2>1 DEF Fits, Calm
  <2>2. CASE ~(w.l.playing /\ w.l.current = o)
    <3>1. t = [v EXCEPT !.q = m.q, !.l = k]
      BY <2>2
    <3>. HIDE DEF t
    <3>2. t \in Worlds /\ t.q = m.q /\ t.l = k /\ t.bulk = v.bulk
      BY <1>2, <1>5, <1>6, <3>1 DEF Worlds
    <3>3. t.l.current # 0 /\ t.l.current \in 0..Length(t.q) /\ t.l.current \in 1..Length(t.q)
      BY <1>2, <1>6, <3>2
    <3>. QED  BY <1>2, <1>4, <1>5, <1>6, <3>2, <3>3 DEF Fits, Calm
  <2>. QED  BY <2>1, <2>2
<1>8. song \in Songs
  BY <1>7, SongFacts DEF Fits
<1>9. song = Now(t.q, t.l)
  BY DEF Now
<1>. HIDE DEF t, song
<1>10. /\ Beside(t, s) /\ ~Quiet(s.pc)
       /\ s.l.fine /\ Silent(s.pc) /\ InTune(s.pc, song, None)
  BY <1>7, <1>8, SeekLockedFacts, SeekLockedOnward
<1>. DEFINE x == [s EXCEPT !.thrown = FALSE]
<1>11. /\ x \in Worlds /\ x.q = t.q /\ x.l.playing /\ x.l.current = t.l.current /\ x.l.queued = 0
       /\ x.l = s.l /\ x.pc = s.pc /\ x.bulk = w.bulk
  <2>1. s \in Worlds
    BY <1>10 DEF Beside
  <2>2. Beside(s, x) /\ x.pc = s.pc
    BY <2>1, ThrowFacts
  <2>3. x.l = s.l
    BY <2>1 DEF Worlds
  <2>. QED  BY <1>7, <1>10, <2>1, <2>2, <2>3 DEF Beside
<1>12. u \in UpdateQueuedSong(x, 0)
  BY <1>3
<1>. HIDE DEF x
<1>13. Half(x) /\ ~x.bulk
  BY <1>7, <1>10, <1>11 DEF Half, Fits
<1>14. Calm(x.q, x.l, x.pc)
  BY <1>7, <1>10, <1>11 DEF Calm
<1>15. Tuned(x.q, x.l, x.pc, 0)
  <2>1. Now(x.q, x.l) = song /\ Good(x.q)
    BY <1>7, <1>9, <1>11 DEF Now, Fits
  <2>. QED  BY <1>10, <1>11, <2>1, NoIdZero DEF Tuned
<1>. QED  BY <1>12, <1>13, <1>14, <1>15, UpdateQueuedSongSynced

\* playlist::QueuedSongStarted(): the song that was queued is the current one now, and
\* there still is one after the song before has been consumed.
LEMMA QueuedSongStartedSynced ==
  ASSUME NEW w, Whole(w), ~w.bulk, w.l.playing, w.l.queued # 0, Calm(w.q, w.l, w.pc),
         NotItself(w.q, w.l), InTune(w.pc, AtOrder(w.q, w.l.queued).song, None),
         NEW u \in QueuedSongStarted(w)
  PROVE  Synced(u)
<1>. DEFINE condition == w.l.current # 0
            a == Asserting(w, condition)
            m == [a.l EXCEPT !.current = w.l.queued, !.queued = 0]
            v == [a EXCEPT !.l = m]
<1>1. /\ w \in Worlds /\ Good(w.q) /\ Length(w.q) \in Nat
      /\ w.l.current \in 1..Length(w.q) /\ w.l.queued \in 1..Length(w.q)
  <2>1. /\ w \in Worlds /\ Good(w.q) /\ w.l.current \in 0..Length(w.q) /\ w.l.current # 0
        /\ w.l.queued \in 0..Length(w.q)
    BY DEF Whole, Half, Fits, Listed
  <2>2. Length(w.q) \in Nat
    BY <2>1, QueueFacts
  <2>. QED  BY <2>1, <2>2
<1>2. condition
  BY <1>1
<1>3. condition \in BOOLEAN
  OBVIOUS
<1>4. PICK t \in Consume([a EXCEPT !.l.current = w.l.queued, !.l.queued = 0], w.l.current) :
        u = SongStarted(t)
  BY DEF QueuedSongStarted
<1>. HIDE DEF condition
<1>5. /\ a \in Worlds /\ a.q = w.q /\ a.bulk = w.bulk /\ a.l.playing = w.l.playing
      /\ a.pc = w.pc /\ (w.l.fine => a.l.fine)
  BY <1>1, <1>2, <1>3, AssertingFacts, AssertingTrue DEF Beside
<1>. HIDE DEF a
<1>6. [a EXCEPT !.l.current = w.l.queued, !.l.queued = 0] = v
  BY <1>5 DEF Worlds
<1>7. /\ m \in Lists /\ m.current = w.l.queued /\ m.queued = 0 /\ m.playing = w.l.playing
      /\ m.fine = a.l.fine
  <2>1. w.l.queued \in Nat /\ a.l \in Lists
    BY <1>1, <1>5, Parts
  <2>. QED  BY <1>5, <2>1 DEF Lists
<1>. HIDE DEF m
<1>8. v \in Worlds /\ v.q = w.q /\ v.l = m /\ v.pc = w.pc /\ v.bulk = w.bulk
  BY <1>5, <1>7, OtherList
<1>9. t \in Consume(v, w.l.current)
  BY <1>4, <1>6
<1>. HIDE DEF v
<1>10. Whole(v) /\ ~v.bulk
  <2>1. v.l.current \in 0..Length(v.q) /\ v.l.current # 0 /\ v.l.queued \in 0..Length(v.q)
    BY <1>1, <1>7, <1>8
  <2>. QED  BY <1>1, <1>7, <1>8, <2>1 DEF Whole, Half, Fits, Listed
<1>11. Attuned(v.q, v.l, v.pc)
  <2>1. Now(v.q, v.l) = AtOrder(w.q, w.l.queued).song /\ QueuedId(v.q, v.l) = 0
    BY <1>7, <1>8 DEF Now, QueuedId
  <2>2. Tuned(v.q, v.l, v.pc, 0)
    BY <1>1, <1>7, <1>8, <2>1, NoIdZero DEF Tuned
  <2>3. NotItself(v.q, v.l)
    BY <1>1, <1>7, <1>8 DEF NotItself
  <2>4. Calm(v.q, v.l, v.pc)
    BY <1>5, <1>7, <1>8 DEF Calm
  <2>. QED  BY <2>1, <2>2, <2>3, <2>4 DEF Attuned
<1>12. Synced(t) /\ t.l.current # 0
  <2>1. w.l.current \in 1..Length(v.q)
    BY <1>1, <1>8
  <2>2. v.l.playing /\ (v.l.current = w.l.current /\ v.q.consume # "OFF" => w.l.current < Length(v.q))
    BY <1>7, <1>8 DEF NotItself
  <2>3. Synced(v)
    BY <1>10, <1>11 DEF Synced
  <2>. QED  BY <1>9, <1>10, <2>1, <2>2, <2>3, ConsumeSynced
<1>. QED  BY <1>4, <1>12, SongStartedSynced

\* playlist::AppendSong(): the new song comes after the current one and after the
\* queued one.
LEMMA AppendToSynced ==
  ASSUME NEW w, Synced(w), Ahead(w), Length(w.q) < MaxLength, NEW song \in Songs, NEW u \in AppendTo(w, song)
  PROVE  Synced(u) /\ Ahead(u)
<1>. DEFINE r == AppendSong(w.q, song)
            start == IF w.l.queued # 0 THEN w.l.queued + 1 ELSE w.l.current + 1
            appended == IF r.random /\ start <= Length(r) THEN ShuffleOrderLastWithPriority(r, start)
                        ELSE {r}
            id == QueuedId(w.q, w.l)
<1>1. PICK s \in appended : u \in Requeued([w EXCEPT !.q = s], GetQueuedSong(w))
  <2>. HIDE DEF r, start
  <2>. QED  BY DEF AppendTo, r, start
<1>2. /\ w \in Worlds /\ Good(w.q) /\ Length(w.q) \in Nat /\ w.l.queued \in Nat /\ w.l.current \in Nat
      /\ w.l.current \in 0..Length(w.q) /\ (w.l.playing => w.l.queued \in 0..Length(w.q) /\ w.l.current # 0)
      /\ Attuned(w.q, w.l, w.pc) /\ Whole(w)
  BY QueueFacts, Parts DEF Synced, Whole, Half, Fits, Listed
<1>3. /\ Good(r) /\ Length(r) = Length(w.q) + 1
      /\ SameModes(w.q, r) /\ (Straight(w.q) => Straight(r))
      /\ \A x \in Positions(w.q) : r.items[x] = w.q.items[x] /\ r.order[x] = w.q.order[x]
      /\ \A x \in Positions(w.q) : r.items[Length(w.q) + 1].id # w.q.items[x].id
      /\ r.items[Length(w.q) + 1].id # 0
  <2>1. 0 \in Bytes
    BY DEF Bytes
  <2>2. r = AppendItem(w.q, song, 0, FALSE)
    BY DEF AppendSong
  <2>. HIDE DEF r
  <2>3. Good(r) /\ Length(r) = Length(w.q) + 1
    BY <1>2, <2>1, <2>2, AppendItemFacts
  <2>4. /\ SameModes(w.q, r) /\ (Straight(w.q) => Straight(r))
        /\ \A x \in Positions(w.q) : r.items[x] = w.q.items[x] /\ r.order[x] = w.q.order[x]
        /\ \A x \in Positions(w.q) : r.items[Length(w.q) + 1].id # w.q.items[x].id
        /\ r.items[Length(w.q) + 1].id # 0
    <3>1. Good(w.q) /\ FALSE \in BOOLEAN
      BY <1>2
    <3>. DEFINE a == AppendItem(w.q, song, 0, FALSE)
    <3>2. /\ SameModes(w.q, a) /\ (Straight(w.q) => Straight(a))
          /\ \A x \in Positions(w.q) : a.items[x] = w.q.items[x] /\ a.order[x] = w.q.order[x]
          /\ \A x \in Positions(w.q) : a.items[Length(w.q) + 1].id # w.q.items[x].id
          /\ a.items[Length(w.q) + 1].id # 0
      BY <2>1, <3>1, AppendItemSongs, Zenon
    <3>. HIDE DEF a
    <3>3. r = a
      BY <2>2 DEF a
    <3>. QED  BY <3>2, <3>3, Zenon
  <2>. QED  BY <2>3, <2>4
<1>4. start \in Nat \ {0} /\ (w.l.playing /\ w.q.random => w.l.current < start)
  BY <1>2 DEF Ahead
<1>. HIDE DEF r, start
<1>5. /\ Good(s) /\ Length(s) = Length(w.q) + 1 /\ s \in Queues
      /\ SameModes(w.q, s) /\ (Straight(w.q) => Straight(s)) /\ s.items = r.items
      /\ w.l.playing => s.order[w.l.current] = w.q.order[w.l.current]
  <2>0. w.l.playing => w.l.current \in Positions(w.q) /\ w.l.current \in Positions(r)
    BY <1>2, <1>3 DEF Positions
  <2>1. CASE r.random /\ start <= Length(r)
    <3>1. start \in 1..Length(r) /\ s \in ShuffleOrderLastWithPriority(r, start)
      BY <1>1, <1>2, <1>3, <1>4, <2>1
    <3>2. Good(s) /\ Length(s) = Length(r)
      BY <1>3, <3>1, ShuffleLastFacts
    <3>3. /\ s.items = r.items /\ SameModes(r, s)
          /\ \A o \in Positions(r) : o < start => s.order[o] = r.order[o]
      BY <1>3, <3>1, ShuffleLastSongs
    <3>4. SameModes(w.q, s) /\ Straight(s)
      BY <1>3, <2>1, <3>3 DEF SameModes, Straight
    <3>5. w.l.playing => s.order[w.l.current] = w.q.order[w.l.current]
      BY <1>3, <1>4, <2>0, <2>1, <3>3 DEF SameModes
    <3>. QED  BY <1>3, <3>2, <3>3, <3>4, <3>5 DEF Good
  <2>2. CASE ~(r.random /\ start <= Length(r))
    <3>1. s = r
      BY <1>1, <2>2
    <3>. QED  BY <1>3, <2>0, <3>1 DEF Good
  <2>. QED  BY <2>1, <2>2
<1>. HIDE DEF appended
<1>. DEFINE v == [w EXCEPT !.q = s]
<1>6. v \in Worlds /\ v.q = s /\ v.l = w.l /\ v.pc = w.pc /\ v.bulk = w.bulk
  BY <1>2, <1>5, OtherQueue
<1>7. u \in Requeued(v, id)
  BY <1>1 DEF GetQueuedSong, QueuedId
<1>. HIDE DEF v
<1>8. v.l.current \in 0..Length(v.q) /\ (w.l.playing => v.l.queued \in 0..Length(v.q))
  <2>1. 0..Length(w.q) \subseteq 0..Length(v.q)
    BY <1>2, <1>5, <1>6
  <2>. QED  BY <1>2, <1>6, <2>1
<1>9. Whole(v)
  BY <1>2, <1>5, <1>6, <1>8 DEF Whole, Half, Fits, Listed
<1>10. Calm(v.q, v.l, v.pc)
  BY <1>2, <1>5, <1>6 DEF Attuned, Calm
<1>11. Tuned(v.q, v.l, v.pc, id)
  <2>. SUFFICES ASSUME v.l.playing PROVE Tuned(v.q, v.l, v.pc, id)
    BY DEF Tuned
  <2>0. w.l.playing /\ w.l.current \in Positions(w.q)
    BY <1>2, <1>6 DEF Positions
  <2>1. PICK x \in Songs \cup {None} :
          ((id = 0) <=> (x = None)) /\ Knows(w.q, id, x) /\ InTune(w.pc, Now(w.q, w.l), x)
    BY <1>2, <2>0 DEF Attuned, Tuned
  <2>2. w.q.order[w.l.current] \in Positions(w.q)
    BY <1>2, <2>0, QueueFacts
  <2>3. Now(v.q, v.l) = Now(w.q, w.l)
    BY <1>3, <1>5, <1>6, <2>0, <2>2 DEF Now, AtOrder
  <2>4. s.items[Length(w.q) + 1].id # id
    <3>1. CASE id = 0
      BY <1>3, <1>5, <3>1
    <3>2. CASE id # 0
      <4>1. w.l.queued \in Positions(w.q) /\ id = AtOrder(w.q, w.l.queued).id
        BY <1>2, <2>0, <3>2 DEF QueuedId, Positions
      <4>2. w.q.order[w.l.queued] \in Positions(w.q)
        BY <1>2, <4>1, QueueFacts
      <4>. QED  BY <1>3, <1>5, <4>1, <4>2 DEF AtOrder
    <3>. QED  BY <3>1, <3>2
  <2>5. \A y \in Positions(s) : y \in Positions(w.q) \/ y = Length(w.q) + 1
    BY <1>2, <1>5 DEF Positions
  <2>6. Knows(v.q, id, x)
    BY <1>3, <1>5, <1>6, <2>1, <2>4, <2>5 DEF Knows
  <2>7. (v.l.queued = 0) <=> (id = 0)
    BY <1>2, <1>6, <2>0 DEF Attuned, Tuned
  <2>. HIDE DEF id
  <2>. QED  BY <1>6, <2>1, <2>3, <2>6, <2>7 DEF Tuned
<1>12. Ahead(v) /\ v.l.current < Length(v.q)
  BY <1>2, <1>5, <1>6 DEF Ahead, SameModes
<1>. HIDE DEF id
<1>13. Half(v)
  BY <1>9 DEF Whole
<1>. QED  BY <1>7, <1>9, <1>10, <1>11, <1>12, <1>13, RequeuedSynced

----------------------------------------------------------------------------
(***************************************************************************)
(* Every action keeps the playlist in step.                                *)
(***************************************************************************)

\* The second invariant: the playlist is in step with the player.
InTouch == Attuned(queue, list, pc)

\* The world a command begins with
LEMMA WorldSynced ==
  ASSUME Inv, InTouch
  PROVE  Synced(World)
  BY WorldFacts DEF InTouch, Synced

\* The world an action ends in
LEMMA Arrival ==
  ASSUME NEW w, Synced(w), queue' = w.q, list' = w.l, pc' = w.pc
  PROVE  InTouch'
<1>1. Attuned(w.q, w.l, w.pc)
  BY DEF Synced
<1>2. Attuned(queue', list', pc')
  BY <1>1
<1>. QED  BY <1>2 DEF InTouch

\* All the worlds a command may end in are in step.
LEMMA CommandArrival ==
  ASSUME Inv, NEW STATE S, Command(S), \A w \in S : Synced(w)
  PROVE  InTouch'
<1>1. PICK w \in S : queue' = w.q /\ list' = w.l /\ pc' = w.pc
  BY CommandFacts
<1>. QED  BY <1>1, Arrival

\* The player goes on while a method is entered.
LEMMA EnterSynced ==
  ASSUME NEW w, Synced(w), NEW v \in Enter(w)
  PROVE  Synced(v) /\ v.l = w.l /\ v.bulk = w.bulk
<1>1. w \in Worlds /\ Whole(w) /\ Attuned(w.q, w.l, w.pc)
  BY DEF Synced, Whole, Half
<1>2. v.q = w.q /\ v.l = w.l /\ v.bulk = w.bulk /\ Onward(w.pc, v.pc)
  BY <1>1, EnterOnward
<1>3. Whole(v)
  BY <1>1, EnterFacts, BesideKeeps
<1>. QED  BY <1>1, <1>2, <1>3, OnwardTuned DEF Synced

\* PlayerControl::PauseLocked()
LEMMA PauseLockedSynced ==
  ASSUME NEW w, Synced(w), NEW v \in PauseLocked(w)
  PROVE  Synced(v)
<1>1. w \in Worlds /\ Whole(w) /\ Attuned(w.q, w.l, w.pc)
  BY DEF Synced, Whole, Half
<1>2. v.q = w.q /\ v.l = w.l /\ Onward(w.pc, v.pc)
  BY <1>1, PauseLockedOnward
<1>3. Whole(v)
  BY <1>1, PauseLockedFacts, BesideKeeps
<1>. QED  BY <1>1, <1>2, <1>3, OnwardTuned DEF Synced

\* From here on, one lemma per action.
LEMMA PlayerThreadInTouch ==
  ASSUME Inv, InTouch, PlayerThread
  PROVE  InTouch'
<1>1. PICK p \in PlayerSteps(pc) : pc' = p
  BY DEF PlayerThread
<1>2. Onward(pc, p)
  BY <1>1, PlayerStepsOnward DEF Inv
<1>3. Attuned(queue, list, p)
  BY <1>2, OnwardTuned DEF InTouch
<1>4. Attuned(queue', list', pc')
  BY <1>1, <1>3 DEF PlayerThread
<1>. QED  BY <1>4 DEF InTouch

\* SyncWithPlayer(): if the player has no next song and one was queued, then it has
\* gone on to that song.
LEMMA SyncWithPlayerInTouch ==
  ASSUME Inv, InTouch, SyncWithPlayer
  PROVE  InTouch'
<1>. DEFINE p == [pc EXCEPT !.sync = FALSE]
            W == [World EXCEPT !.pc = p]
            id == QueuedId(queue, list)
<1>1. /\ p \in Players /\ World \in Worlds /\ p.state = pc.state /\ p.song = pc.song /\ p.next = pc.next
  BY WorldFacts DEF Inv, Players
<1>2. [World EXCEPT !.pc.sync = FALSE] = W
  BY <1>1, WorldFacts DEF Worlds
<1>. HIDE DEF p
<1>3. W \in Worlds /\ W.q = queue /\ W.l = list /\ W.pc = p /\ ~W.bulk
  BY <1>1, WorldFacts, OtherPlayer
<1>4. /\ Calm(queue, list, p) /\ NotItself(queue, list)
      /\ \A c, s : InTune(pc, c, s) => Follows(p, c, s)
  BY <1>1 DEF InTouch, Attuned, Calm, Silent, InTune, Follows
<1>. DEFINE Heard(v) == IF v.pc.next = None /\ v.l.queued # 0 THEN QueuedSongStarted(v) ELSE {v}
            Told(u) == IF u.pc.next = None /\ u.l.queued = 0 THEN UpdateQueuedSong(u, 0) ELSE {u}
            Goes(v) == IF v.pc.state = "STOP" THEN ResumePlayback(v)
                       ELSE UNION {UNION {Told(u) : u \in Enter(t)} : t \in Heard(v)}
<1>5. CASE ~list.playing
  <2>1. queue' = W.q /\ list' = W.l /\ pc' = W.pc
    BY <1>2, <1>5 DEF SyncWithPlayer, Result
  <2>2. Whole(W)
    BY <1>3, <1>5, WorldFacts DEF Whole, Half, Listed
  <2>. HIDE DEF W
  <2>3. Synced(W)
    BY <1>3, <1>4, <1>5, <2>2, IdleSynced
  <2>. QED  BY <2>1, <2>3, Arrival
<1>6. CASE list.playing
  <2>1. Result(UNION {Goes(v) : v \in Enter(W)})
    <3>. HIDE DEF W
    <3>. QED  BY <1>2, <1>6, Zenon DEF SyncWithPlayer
  <2>. HIDE DEF W, Goes
  <2>2. PICK v \in Enter(W) : \E x \in Goes(v) : queue' = x.q /\ list' = x.l /\ pc' = x.pc
    BY <2>1 DEF Result
  <2>3. PICK x \in Goes(v) : queue' = x.q /\ list' = x.l /\ pc' = x.pc
    BY <2>2
  <2>4. v \in Worlds /\ v.q = queue /\ v.l = list /\ ~v.bulk /\ Onward(p, v.pc)
    BY <1>3, EnterOnward
  <2>5. Fits(v.q, v.l) /\ Listed(v.q, v.l) /\ v.l.playing
    BY <1>6, <2>4 DEF Inv
  <2>6. Calm(v.q, v.l, v.pc) /\ NotItself(v.q, v.l)
    BY <1>4, <2>4, OnwardTuned
  <2>7. CASE v.pc.state = "STOP"
    <3>1. Synced(x)
      BY <2>3, <2>4, <2>5, <2>6, <2>7, ResumePlaybackSynced DEF Goes
    <3>. QED  BY <2>3, <3>1, Arrival
  <2>8. CASE v.pc.state # "STOP"
    <3>1. PICK t \in Heard(v) : \E u \in Enter(t) : x \in Told(u)
      <4>. HIDE DEF Heard, Told
      <4>. QED  BY <2>3, <2>8 DEF Goes
    <3>2. PICK u \in Enter(t) : x \in Told(u)
      BY <3>1
    <3>3. Whole(v)
      BY <2>4, <2>5, <2>8 DEF Whole, Half, Quiet
    <3>4. PICK s \in Songs \cup {None} :
            ((id = 0) <=> (s = None)) /\ Knows(queue, id, s) /\ Follows(v.pc, Now(queue, list), s)
      BY <1>4, <1>6, <2>4 DEF InTouch, Attuned, Tuned, Onward
    <3>5. (list.queued = 0) <=> (s = None)
      BY <1>6, <3>4 DEF InTouch, Attuned, Tuned
    <3>6. CASE v.pc.next = None /\ v.l.queued # 0
      <4>1. v.pc.song = s /\ s # None
        BY <2>4, <2>8, <3>4, <3>5, <3>6 DEF Follows
      <4>2. AtOrder(v.q, v.l.queued).song = s
        <5>1. v.l.queued \in Positions(queue) /\ Good(queue)
          BY <2>4, <2>5, <3>6, WorldFacts DEF Listed, Positions
        <5>2. queue.order[v.l.queued] \in Positions(queue)
          BY <5>1, QueueFacts
        <5>3. id = AtOrder(queue, v.l.queued).id
          BY <1>6, <2>4, <3>6 DEF QueuedId
        <5>. QED  BY <2>4, <3>4, <5>2, <5>3 DEF Knows, AtOrder
      <4>3. InTune(v.pc, AtOrder(v.q, v.l.queued).song, None)
        BY <3>6, <4>1, <4>2 DEF InTune, Follows
      <4>4. t \in QueuedSongStarted(v)
        BY <3>1, <3>6
      <4>5. Synced(t) /\ ~t.bulk
        BY <2>4, <2>5, <2>6, <3>3, <3>6, <4>3, <4>4, QueuedSongStartedSynced, QueuedSongStartedFacts
      <4>. QED  BY <4>5, <3>2, <2>3, EnterSynced, UpdateQueuedSongSynced, Arrival DEF Synced, Whole, Attuned, QueuedId
    <3>7. CASE ~(v.pc.next = None /\ v.l.queued # 0)
      <4>1. InTune(v.pc, Now(queue, list), s)
        BY <2>4, <3>4, <3>5, <3>7 DEF InTune
      <4>2. Tuned(v.q, v.l, v.pc, id)
        <5>. HIDE DEF id
        <5>. QED  BY <2>4, <3>4, <3>5, <4>1 DEF Tuned
      <4>3. Synced(v) /\ t = v
        BY <2>4, <2>6, <3>1, <3>3, <3>7, <4>2 DEF Synced, Attuned
      <4>. QED  BY <4>3, <2>4, <3>2, <2>3, EnterSynced, UpdateQueuedSongSynced, Arrival DEF Synced, Whole, Attuned, QueuedId
    <3>. QED  BY <3>6, <3>7
  <2>. QED  BY <2>7, <2>8
<1>. QED  BY <1>5, <1>6

\* Fields of the player that no song depends on
LEMMA SamePlayer ==
  ASSUME NEW p, NEW r, r.state = p.state, r.song = p.song, r.next = p.next, r.sync = p.sync
  PROVE  Onward(p, r)
  BY DEF Onward, Silent, Follows, InTune

\* playlist::BorderPause()
LEMMA BorderPauseInTouch ==
  ASSUME Inv, InTouch, BorderPause
  PROVE  InTouch'
<1>. DEFINE w == [World EXCEPT !.pc.bordered = FALSE]
            p == [pc EXCEPT !.bordered = FALSE]
<1>1. p \in Players /\ p.state = pc.state /\ p.song = pc.song /\ p.next = pc.next /\ p.sync = pc.sync
  BY DEF Inv, Players
<1>2. w = [World EXCEPT !.pc = p]
  BY WorldFacts DEF Worlds
<1>. HIDE DEF p
<1>3. w \in Worlds /\ w.q = queue /\ w.l = list /\ w.pc = p
  <2>1. World \in Worlds /\ World.q = queue /\ World.l = list
    BY WorldFacts
  <2>2. p \in Players
    BY <1>1
  <2>. HIDE DEF w
  <2>. QED  BY <1>2, <2>1, <2>2, OtherPlayer
<1>4. Attuned(w.q, w.l, w.pc)
  BY <1>1, <1>3, SamePlayer, OnwardTuned DEF InTouch
<1>5. \/ queue' = w.q /\ list' = w.l /\ pc' = w.pc
      \/ LET v == [w EXCEPT !.q.single = "OFF", !.pc.border = FALSE] IN
         queue' = v.q /\ list' = v.l /\ pc' = v.pc
  <2>. HIDE DEF w
  <2>. QED  BY DEF BorderPause, Result, w
<1>. HIDE DEF w
<1>. DEFINE v == [w EXCEPT !.q.single = "OFF", !.pc.border = FALSE]
            r == [w.q EXCEPT !.single = "OFF"]
            b == [w.pc EXCEPT !.border = FALSE]
<1>6. /\ r \in Queues /\ r.items = w.q.items /\ r.order = w.q.order /\ r.random = w.q.random
      /\ r.consume = w.q.consume
  BY <1>3, Parts DEF Queues, Modes
<1>7. b \in Players /\ b.state = w.pc.state /\ b.song = w.pc.song /\ b.next = w.pc.next /\ b.sync = w.pc.sync
  BY <1>3, Parts DEF Players
<1>8. v = [w EXCEPT !.q = r, !.pc = b]
  BY <1>3 DEF Worlds
<1>. HIDE DEF r, b
<1>9. v.q = r /\ v.l = w.l /\ v.pc = b
  BY <1>3, <1>6, <1>7, <1>8 DEF Worlds
<1>10. Attuned(v.q, v.l, v.pc)
  <2>. HIDE DEF v
  <2>1. Attuned(w.q, w.l, b)
    BY <1>4, <1>7, SamePlayer, OnwardTuned
  <2>2. r.consume \in {w.q.consume, "OFF"}
    BY <1>6
  <2>. QED  BY <1>6, <1>9, <2>1, <2>2, ModeAttuned
<1>. HIDE DEF v
<1>11. Attuned(queue', list', pc')
  BY <1>4, <1>5, <1>10 DEF v
<1>. QED  BY <1>11 DEF InTouch

\* An edit after which the songs are alike
LEMMA EditedSynced ==
  ASSUME NEW w, Synced(w), NEW r, Good(r), Alike(w.q, r)
  PROVE  /\ Synced([w EXCEPT !.q = r]) /\ Synced(OnModified([w EXCEPT !.q = r]))
         /\ [w EXCEPT !.q = r].q = r
<1>. DEFINE v == [w EXCEPT !.q = r]
<1>1. /\ w \in Worlds /\ Whole(w) /\ Good(w.q) /\ Fits(w.q, w.l) /\ Listed(w.q, w.l)
      /\ Attuned(w.q, w.l, w.pc) /\ r \in Queues /\ Length(r) = Length(w.q)
  BY DEF Synced, Whole, Half, Fits, Good, Alike
<1>2. v.q = r /\ v.l = w.l /\ v.pc = w.pc /\ Whole(v)
  BY <1>1, OtherQueue, EditedFacts
<1>. HIDE DEF v
<1>3. Synced(v)
  BY <1>1, <1>2, AlikeAttuned DEF Synced
<1>. QED  BY <1>2, <1>3, OnModifiedSynced DEF v

\* playlist::TagModified(): its assertion holds.
LEMMA TagModifiedInTouch ==
  ASSUME Inv, InTouch, TagModified
  PROVE  InTouch'
<1>. DEFINE condition == list.current # 0
            w == Asserting(World, condition)
            p == CurrentPosition(w)
            e == IF w.q.items[p].song = pc.song THEN NewTag(w.q, p) ELSE w.q
            r == ModifyAtPosition(e, p)
            v == OnModified([w EXCEPT !.q = r])
<1>0. list.playing
  BY DEF TagModified
<1>1. condition \in BOOLEAN /\ condition
  BY <1>0, WorldFacts DEF Fits
<1>. HIDE DEF condition
<1>2. /\ Beside(World, w) /\ w.pc = World.pc /\ (World.l.fine => w.l.fine)
  BY <1>1, WorldFacts, AssertingFacts, AssertingTrue
<1>3. queue' = v.q /\ list' = v.l /\ pc' = v.pc
  <2>. HIDE DEF w, e, v
  <2>1. Result({v})
    BY Zenon DEF TagModified, w, condition, e, v
  <2>. QED  BY <2>1 DEF Result
<1>. HIDE DEF w
<1>4. Whole(w) /\ w \in Worlds /\ Good(w.q) /\ w.l.current \in 0..Length(w.q) /\ w.l.current # 0
  BY <1>0, <1>2, WorldFacts, BesideKeeps DEF Beside, Fits
<1>5. Synced(w)
  <2>1. /\ w.q = queue /\ w.l.playing = list.playing /\ w.l.current = list.current
        /\ w.l.queued = list.queued /\ w.pc = pc
    BY <1>2, WorldFacts DEF Beside
  <2>2. World.l = list
    BY WorldFacts
  <2>3. w.l.fine /\ list.fine
    BY <1>2, <2>2 DEF InTouch, Attuned, Calm
  <2>4. Now(queue, w.l) = Now(queue, list) /\ QueuedId(queue, w.l) = QueuedId(queue, list)
    BY <2>1 DEF Now, QueuedId
  <2>5. Attuned(queue, w.l, pc)
    BY <2>1, <2>3, <2>4 DEF InTouch, Attuned, Calm, Tuned, NotItself
  <2>. QED  BY <1>4, <2>1, <2>5 DEF Synced
<1>6. p \in Positions(w.q) /\ 0 \in Bytes
  BY <1>4, CurrentPositionFacts DEF Bytes
<1>. HIDE DEF p
<1>7. Good(e) /\ Length(e) = Length(w.q) /\ Alike(w.q, e)
  <2>1. Alike(w.q, w.q)
    BY DEF Alike, SameModes
  <2>. QED  BY <1>4, <1>6, <2>1, EditFacts, EditsAlike
<1>. HIDE DEF e
<1>8. Good(r) /\ Alike(w.q, r)
  <2>1. p \in Positions(e)
    BY <1>6, <1>7 DEF Positions
  <2>2. Good(r) /\ Alike(e, r)
    BY <1>6, <1>7, <2>1, ModifyFacts, EditsAlike
  <2>. QED  BY <1>7, <2>2, AlikeTransitive
<1>. HIDE DEF r
<1>9. Synced(v)
  BY <1>5, <1>8, EditedSynced
<1>. HIDE DEF v
<1>. QED  BY <1>3, <1>9, Arrival

\* playlist::AppendSong(): the client keeps away from the case in which the new song
\* could come before the current one.
LEMMA AddInTouch ==
  ASSUME Cautious, Inv, InTouch, NEW song \in Songs, Add(song)
  PROVE  InTouch'
<1>1. Command(AppendTo(World, song)) /\ Length(queue) < MaxLength /\ SafeToAdd
  BY DEF Add
<1>2. Synced(World) /\ World.q = queue /\ World.l = list
  BY WorldSynced, WorldFacts
<1>3. Ahead(World)
  <2>1. list.current \in Nat /\ list.queued \in Nat
    BY <1>2 DEF Inv, Lists
  <2>. QED  BY <1>1, <1>2, <2>1 DEF SafeToAdd, Ahead
<1>4. \A w \in AppendTo(World, song) : Synced(w)
  BY <1>1, <1>2, <1>3, AppendToSynced
<1>. QED  BY <1>1, <1>4, CommandArrival

\* Whether a bulk edit has begun or ended
LEMMA OtherBulkSynced ==
  ASSUME NEW w, Synced(w), NEW b \in BOOLEAN
  PROVE  /\ Synced([w EXCEPT !.bulk = b]) /\ [w EXCEPT !.bulk = b].bulk = b
         /\ [w EXCEPT !.bulk = b].q = w.q /\ (Ahead(w) => Ahead([w EXCEPT !.bulk = b]))
<1>. DEFINE v == [w EXCEPT !.bulk = b]
<1>1. Whole(v) /\ v.bulk = b /\ v.q = w.q
  BY OtherBulk DEF Synced
<1>2. v.l = w.l /\ v.pc = w.pc
  BY DEF Worlds, Synced, Whole, Half
<1>. HIDE DEF v
<1>3. Synced(v) /\ (Ahead(w) => Ahead(v))
  BY <1>1, <1>2 DEF Synced, Ahead
<1>. QED  BY <1>1, <1>3 DEF v

\* playlist::AppendSong(), twice in one bulk edit
LEMMA AddTwoInTouch ==
  ASSUME Cautious, Inv, InTouch, NEW first \in Songs, NEW second \in Songs, AddTwo(first, second)
  PROVE  InTouch'
<1>. DEFINE W == [World EXCEPT !.bulk = TRUE]
            bulk == UNION {AppendTo(w, second) : w \in AppendTo(W, first)}
            commit == {[w EXCEPT !.bulk = FALSE] : w \in bulk}
            S == {OnModified(w) : w \in
                    UNION {IF w.l.queued = 0 THEN UpdateQueuedSong(w, 0) ELSE {w} : w \in commit}}
<1>1. Command(S) /\ Length(queue) + 1 < MaxLength /\ SafeToAdd
  BY DEF AddTwo
<1>. HIDE DEF W
<1>2. PICK x \in S : queue' = x.q /\ list' = x.l /\ pc' = x.pc
  <2>. HIDE DEF S
  <2>. QED  BY <1>1, CommandFacts
<1>3. PICK c \in commit : \E y \in IF c.l.queued = 0 THEN UpdateQueuedSong(c, 0) ELSE {c} :
                             x = OnModified(y)
  <2>. HIDE DEF commit
  <2>. QED  BY <1>2
<1>4. PICK y \in IF c.l.queued = 0 THEN UpdateQueuedSong(c, 0) ELSE {c} : x = OnModified(y)
  BY <1>3
<1>5. PICK b \in bulk : c = [b EXCEPT !.bulk = FALSE]
  <2>. HIDE DEF bulk
  <2>. QED  BY <1>3
<1>6. PICK a \in AppendTo(W, first) : b \in AppendTo(a, second)
  BY <1>5
<1>. HIDE DEF S, commit, bulk
<1>7. Length(queue) < MaxLength /\ Length(queue) \in Nat
  BY <1>1, WorldFacts, Sizes
<1>8. Ahead(World)
  <2>1. list.current \in Nat /\ list.queued \in Nat
    BY DEF Inv, Lists
  <2>. QED  BY <1>1, <2>1, WorldFacts DEF SafeToAdd, Ahead
<1>9. Synced(W) /\ Whole(W) /\ W.q = queue /\ Ahead(W)
  <2>1. Synced(W) /\ W.q = World.q /\ Ahead(W)
    BY <1>8, WorldSynced, OtherBulkSynced DEF W
  <2>. QED  BY <2>1, WorldFacts DEF Synced
<1>10. Synced(a) /\ Ahead(a) /\ Length(a.q) = Length(queue) + 1
  BY <1>6, <1>7, <1>9, AppendToFacts, AppendToSynced
<1>11. Synced(b)
  <2>1. Length(a.q) < MaxLength
    BY <1>1, <1>10
  <2>. QED  BY <1>6, <1>10, <2>1, AppendToSynced
<1>12. Synced(c) /\ ~c.bulk
  BY <1>5, <1>11, OtherBulkSynced
<1>13. Synced(y)
  <2>1. CASE c.l.queued = 0
    <3>1. y \in UpdateQueuedSong(c, 0) /\ QueuedId(c.q, c.l) = 0
      BY <1>4, <2>1 DEF QueuedId
    <3>2. Half(c) /\ Calm(c.q, c.l, c.pc) /\ Tuned(c.q, c.l, c.pc, 0)
      BY <1>12, <3>1 DEF Synced, Attuned, Whole
    <3>. QED  BY <1>12, <3>1, <3>2, UpdateQueuedSongSynced
  <2>2. CASE c.l.queued # 0
    BY <1>4, <1>12, <2>2
  <2>. QED  BY <2>1, <2>2
<1>14. Synced(x)
  BY <1>4, <1>13, OnModifiedSynced
<1>. QED  BY <1>2, <1>14, Arrival

\* playlist::DeleteRange()
LEMMA DeleteRangeInTouch ==
  ASSUME Inv, InTouch, NEW start \in Positions(queue), NEW end \in start + 1 .. Length(queue) + 1,
         DeleteRange(start, end)
  PROVE  InTouch'
<1>1. Command(DeleteRangeOf(World, start, end))
  BY DEF DeleteRange
<1>2. Synced(World) /\ ~World.bulk /\ start \in Positions(World.q) /\ end \in start + 1 .. Length(World.q) + 1
  BY WorldFacts, WorldSynced
<1>3. \A w \in DeleteRangeOf(World, start, end) : Synced(w)
  BY <1>2, DeleteRangeOfSynced
<1>. QED  BY <1>1, <1>3, CommandArrival

\* playlist::StaleSong()
LEMMA StaleSongInTouch ==
  ASSUME Inv, InTouch, NEW song, StaleSong(song)
  PROVE  InTouch'
<1>. DEFINE T == {v \in Worlds : Synced(v)}
<1>1. Command(StaleSongOf(World, song))
  BY DEF StaleSong
<1>2. PICK u \in StaleSongOf(World, song) : queue' = u.q /\ list' = u.l /\ pc' = u.pc
  BY <1>1, CommandFacts
<1>3. ASSUME NEW v \in T, NEW p \in Positions(v.q), Whole(v), ~v.bulk, NEW t \in DeleteRangeOf(v, p, p + 1)
      PROVE  t \in T
  <2>1. Synced(v) /\ p + 1 \in p + 1 .. Length(v.q) + 1
    BY <1>3, QueueFacts DEF Whole, Half, Fits, Positions
  <2>2. Synced(t)
    BY <1>3, <2>1, DeleteRangeOfSynced
  <2>. QED  BY <2>2 DEF Synced, Whole, Half
<1>4. World \in T
  BY WorldFacts, WorldSynced
<1>. HIDE DEF T
<1>5. u \in T
  BY <1>3, <1>4, WorldFacts, StaleLoop
<1>. QED  BY <1>2, <1>5, Arrival DEF T

\* playlist::Clear()
LEMMA ClearQueueInTouch ==
  ASSUME Inv, InTouch, ClearQueue
  PROVE  InTouch'
<1>. DEFINE S == {OnModified([w EXCEPT !.q = Clear(w.q), !.l.current = 0]) : w \in StopWith(World)}
<1>1. Command(S)
  BY DEF ClearQueue
<1>2. PICK x \in S : queue' = x.q /\ list' = x.l /\ pc' = x.pc
  <2>. HIDE DEF S
  <2>. QED  BY <1>1, CommandFacts
<1>3. PICK w \in StopWith(World) : x = OnModified([w EXCEPT !.q = Clear(w.q), !.l.current = 0])
  BY <1>2
<1>. HIDE DEF S
<1>. DEFINE m == [w.l EXCEPT !.current = 0]
            r == Clear(w.q)
            v == [w EXCEPT !.q = r, !.l = m]
<1>4. Synced(w) /\ ~w.l.playing /\ w \in Worlds /\ Good(w.q)
  <2>1. Calm(World.q, World.l, World.pc)
    BY WorldSynced DEF Synced, Attuned
  <2>. QED  BY <2>1, WorldFacts, StopWithFacts, StopWithSynced DEF Whole, Half, Fits
<1>5. m \in Lists /\ ~m.playing /\ m.current = 0 /\ m.fine = w.l.fine
  BY <1>4, Parts DEF Lists
<1>6. Good(r) /\ Length(r) = 0 /\ r \in Queues
  BY <1>4, ClearFacts DEF Good
<1>7. [w EXCEPT !.q = Clear(w.q), !.l.current = 0] = v
  BY <1>4 DEF Worlds
<1>. HIDE DEF m, r
<1>8. v \in Worlds /\ v.q = r /\ v.l = m /\ v.pc = w.pc
  BY <1>4, <1>5, <1>6 DEF Worlds
<1>9. x = OnModified(v)
  BY <1>3, <1>7
<1>. HIDE DEF v
<1>10. Whole(v)
  <2>1. 0 \in 0..Length(r)
    BY <1>6
  <2>. QED  BY <1>5, <1>6, <1>8, <2>1 DEF Whole, Half, Fits, Listed
<1>11. Straight(r)
  BY <1>6 DEF Straight, Positions
<1>12. Synced(v)
  BY <1>4, <1>5, <1>8, <1>10, <1>11, IdleSynced DEF Synced, Attuned, Calm
<1>. QED  BY <1>2, <1>9, <1>12, OnModifiedSynced, Arrival

\* The songs are rearranged, the current song is found again, and the queued song
\* is looked at anew.
LEMMA RearrangedSynced ==
  ASSUME NEW w, Synced(w), NEW v, Whole(v), ~v.bulk, v.pc = w.pc, v.l.fine = w.l.fine,
         v.l.playing = w.l.playing, v.l.queued = w.l.queued, Descends(w.q, v.q),
         Straight(v.q), w.l.playing => Now(v.q, v.l) = Now(w.q, w.l)
  PROVE  /\ \A u \in UpdateQueuedSong(v, GetQueuedSong(w)) : Synced(u)
         /\ \A u \in Requeued(v, GetQueuedSong(w)) : Synced(u)
<1>. DEFINE id == GetQueuedSong(w)
<1>1. Tuned(w.q, w.l, w.pc, id) /\ Calm(w.q, w.l, w.pc)
  BY DEF Synced, Attuned, GetQueuedSong, QueuedId
<1>. HIDE DEF id
<1>2. Calm(v.q, v.l, v.pc)
  BY <1>1 DEF Calm
<1>3. Tuned(v.q, v.l, v.pc, id)
  BY <1>1, Carried
<1>4. Half(v)
  BY DEF Whole
<1>5. \A u \in UpdateQueuedSong(v, id) : Synced(u)
  BY <1>2, <1>3, <1>4, UpdateQueuedSongSynced
<1>6. \A u \in Requeued(v, id) : Synced(u)
  BY <1>2, <1>3, <1>4, RequeuedSynced
<1>. QED  BY <1>5, <1>6 DEF id

\* A world with other songs and another current song
LEMMA PlacedFields ==
  ASSUME NEW w \in Worlds, NEW r \in Queues, NEW c \in Nat
  PROVE  LET v == [w EXCEPT !.q = r, !.l.current = c] IN
         /\ v.q = r /\ v.l.current = c /\ v.l.playing = w.l.playing /\ v.l.queued = w.l.queued
         /\ v.l.fine = w.l.fine /\ v.pc = w.pc /\ v.bulk = w.bulk
<1>. DEFINE m == [w.l EXCEPT !.current = c]
            v == [w EXCEPT !.q = r, !.l = m]
<1>1. /\ m \in Lists /\ m.current = c /\ m.playing = w.l.playing /\ m.queued = w.l.queued
      /\ m.fine = w.l.fine
  BY Parts DEF Lists
<1>2. [w EXCEPT !.q = r, !.l.current = c] = v
  BY DEF Worlds
<1>. HIDE DEF m
<1>3. v.q = r /\ v.l = m /\ v.pc = w.pc /\ v.bulk = w.bulk
  BY <1>1 DEF Worlds
<1>. QED  BY <1>1, <1>2, <1>3

\* Both together
LEMMA PlacedSynced ==
  ASSUME NEW w, Synced(w), ~w.bulk, NEW r, Good(r), Length(r) = Length(w.q),
         NEW c \in 0..Length(w.q), w.l.playing => c # 0,
         Descends(w.q, r), Straight(r), w.l.playing => AtOrder(r, c).song = Now(w.q, w.l)
  PROVE  LET v == [w EXCEPT !.q = r, !.l.current = c] IN
         \A u \in Requeued(v, GetQueuedSong(w)) : Synced(u)
<1>. DEFINE v == [w EXCEPT !.q = r, !.l.current = c]
<1>1. w \in Worlds /\ Whole(w) /\ r \in Queues /\ c \in Nat
  BY QueueFacts DEF Synced, Whole, Half, Fits, Good
<1>2. Whole(v) /\ v.bulk = w.bulk
  BY <1>1, PlacedFacts
<1>3. /\ v.q = r /\ v.l.current = c /\ v.l.playing = w.l.playing /\ v.l.queued = w.l.queued
      /\ v.l.fine = w.l.fine /\ v.pc = w.pc
  BY <1>1, PlacedFields
<1>. HIDE DEF v
<1>4. w.l.playing => Now(v.q, v.l) = Now(w.q, w.l)
  BY <1>3 DEF Now
<1>5. \A u \in Requeued(v, GetQueuedSong(w)) : Synced(u)
  BY <1>2, <1>3, <1>4, RearrangedSynced
<1>. QED  BY <1>5 DEF v

\* playlist::SwapPositions()
LEMMA SwapInTouch ==
  ASSUME Inv, InTouch, NEW a \in Positions(queue), NEW b \in Positions(queue), Swap(a, b)
  PROVE  InTouch'
<1>. DEFINE w == World
            swapped == SwapPositions(w.q, a, b)
            oa == PositionToOrder(swapped, a)
            ob == PositionToOrder(swapped, b)
            both == SwapOrders(swapped, oa, ob)
            c == IF w.l.current = a THEN b ELSE IF w.l.current = b THEN a ELSE w.l.current
            v == IF w.q.random THEN [w EXCEPT !.q = both]
                 ELSE [w EXCEPT !.q = swapped, !.l.current = c]
<1>1. Command(Requeued(v, GetQueuedSong(w)))
  BY Zenon DEF Swap
<1>. HIDE DEF w
<1>2. /\ Whole(w) /\ ~w.bulk /\ w.q = queue /\ w.l = list /\ Good(w.q) /\ w \in Worlds
      /\ Length(w.q) \in Nat /\ a \in 1..Length(w.q) /\ b \in 1..Length(w.q) /\ Positions(w.q) = 1..Length(w.q)
      /\ w.l.current \in 0..Length(w.q) /\ (w.l.playing => w.l.current # 0)
  BY WorldFacts DEF w, Positions, Fits
<1>3. Synced(w) /\ Straight(w.q)
  BY WorldSynced DEF w, Synced, Attuned, Calm
<1>4. /\ Good(swapped) /\ Length(swapped) = Length(w.q) /\ swapped.order = w.q.order
      /\ Positions(swapped) = Positions(w.q)
      /\ SameModes(w.q, swapped) /\ Descends(w.q, swapped)
      /\ \A p \in Positions(w.q) :
           SameSong(swapped.items[p], w.q.items[IF p = a THEN b ELSE IF p = b THEN a ELSE p])
  BY <1>2, SwapPositionsFacts, SwapPositionsSongs DEF Positions
<1>. HIDE DEF swapped
<1>5. CASE w.q.random
  <2>1. /\ oa \in Positions(swapped) /\ ob \in Positions(swapped)
        /\ swapped.order[oa] = a /\ swapped.order[ob] = b
    BY <1>2, <1>4, PositionFacts
  <2>. HIDE DEF oa, ob
  <2>2. /\ Good(both) /\ Length(both) = Length(w.q)
        /\ both.items = swapped.items /\ SameModes(swapped, both)
        /\ \A o \in Positions(swapped) : both.order[o] =
             (IF o = oa THEN swapped.order[ob] ELSE IF o = ob THEN swapped.order[oa] ELSE swapped.order[o])
    BY <1>4, <2>1, SwapOrdersFacts, SwapOrdersSongs
  <2>. HIDE DEF both
  <2>3. Descends(w.q, both) /\ Straight(both)
    <3>1. Descends(swapped, both)
      BY <2>2, SameItemsDescend
    <3>. QED  BY <1>4, <1>5, <2>2, <3>1, DescendsTransitive DEF Straight, SameModes
  <2>4. ASSUME NEW o \in Positions(w.q) PROVE AtOrder(both, o).song = AtOrder(w.q, o).song
    <3>0. \A x, y \in Positions(w.q) : w.q.order[x] = w.q.order[y] => x = y
      BY <1>2 DEF Good, OrderOK
    <3>1. w.q.order[o] \in Positions(w.q) /\ (w.q.order[o] = a <=> o = oa) /\ (w.q.order[o] = b <=> o = ob)
      BY <1>2, <1>4, <2>1, <3>0, QueueFacts
    <3>2. both.order[o] = IF w.q.order[o] = a THEN b ELSE IF w.q.order[o] = b THEN a ELSE w.q.order[o]
      BY <1>4, <2>1, <2>2, <3>1
    <3>. DEFINE x == both.order[o]
    <3>3. x \in Positions(w.q) /\ (IF x = a THEN b ELSE IF x = b THEN a ELSE x) = w.q.order[o]
      BY <1>2, <3>1, <3>2
    <3>. HIDE DEF x
    <3>4. SameSong(swapped.items[x], w.q.items[IF x = a THEN b ELSE IF x = b THEN a ELSE x])
      BY <1>4, <3>3
    <3>5. swapped.items[x].song = w.q.items[w.q.order[o]].song
      BY <3>3, <3>4 DEF SameSong
    <3>. QED  BY <2>2, <3>5 DEF AtOrder, x
  <2>5. both \in Queues
    BY <2>2 DEF Good
  <2>6. v = [w EXCEPT !.q = both]
    BY <1>5
  <2>. HIDE DEF v
  <2>7. Whole(v) /\ v.q = both /\ v.l = w.l /\ v.pc = w.pc /\ v.bulk = w.bulk
    BY <1>2, <2>2, <2>5, <2>6, EditedFacts, OtherQueue
  <2>8. w.l.playing => Now(v.q, v.l) = Now(w.q, w.l)
    BY <1>2, <2>4, <2>7 DEF Now
  <2>9. \A u \in Requeued(v, GetQueuedSong(w)) : Synced(u)
    BY <1>2, <1>3, <2>3, <2>7, <2>8, RearrangedSynced
  <2>. QED  BY <1>1, <2>9, CommandArrival
<1>6. CASE ~w.q.random
  <2>1. c \in 0..Length(w.q) /\ (w.l.current # 0 => c # 0)
    BY <1>2
  <2>2. w.l.current # 0 => AtOrder(swapped, c).song = AtOrder(w.q, w.l.current).song
    <3>. SUFFICES ASSUME w.l.current # 0 PROVE AtOrder(swapped, c).song = AtOrder(w.q, w.l.current).song
      OBVIOUS
    <3>1. w.l.current \in Positions(w.q) /\ c \in Positions(w.q)
      BY <1>2, <2>1
    <3>2. w.q.order[w.l.current] = w.l.current /\ swapped.order[c] = c
      BY <1>3, <1>4, <1>6, <3>1 DEF Straight
    <3>3. (IF c = a THEN b ELSE IF c = b THEN a ELSE c) = w.l.current
      OBVIOUS
    <3>. HIDE DEF c
    <3>4. SameSong(swapped.items[c], w.q.items[w.l.current])
      BY <1>4, <3>1, <3>3
    <3>. QED  BY <3>2, <3>4 DEF AtOrder, SameSong
  <2>. HIDE DEF c
  <2>3. w.l.playing => c # 0 /\ AtOrder(swapped, c).song = Now(w.q, w.l)
    BY <1>2, <2>1, <2>2 DEF Now
  <2>4. Straight(swapped)
    BY <1>3, <1>4 DEF Straight, SameModes
  <2>. DEFINE x == [w EXCEPT !.q = swapped, !.l.current = c]
  <2>5. \A u \in Requeued(x, GetQueuedSong(w)) : Synced(u)
    BY <1>2, <1>3, <1>4, <2>1, <2>3, <2>4, PlacedSynced
  <2>6. v = x
    BY <1>6
  <2>. HIDE DEF x, v
  <2>7. \A u \in Requeued(v, GetQueuedSong(w)) : Synced(u)
    BY <2>5, <2>6
  <2>. QED  BY <1>1, <2>7, CommandArrival
<1>. QED  BY <1>5, <1>6

\* playlist::MoveRange() of one song, the only case a cautious client asks for
LEMMA MoveSongsInTouch ==
  ASSUME Cautious, Inv, InTouch, NEW start \in Positions(queue), NEW end \in start + 1 .. Length(queue) + 1,
         NEW to \in Positions(queue), MoveSongs(start, end, to)
  PROVE  InTouch'
<1>. DEFINE w == World
            r == MoveRange(w.q, start, end, to)
            Goes(x) == MoveCurrent(x, start, start + 1, to)
            c == IF w.q.random \/ w.l.current = 0 THEN w.l.current
                 ELSE MoveCurrent(w.l.current, start, end, to)
            v == [w EXCEPT !.q = r, !.l.current = c]
<1>1. Command(Requeued(v, GetQueuedSong(w))) /\ to + end - start - 1 <= Length(queue) /\ end = start + 1
  BY Zenon DEF MoveSongs
<1>. HIDE DEF w
<1>2. /\ Whole(w) /\ ~w.bulk /\ w.q = queue /\ w.l = list /\ Good(w.q)
      /\ Length(w.q) \in Nat /\ start \in 1..Length(w.q) /\ to \in 1..Length(w.q)
      /\ Positions(w.q) = 1..Length(w.q)
      /\ w.l.current \in 0..Length(w.q) /\ (w.l.playing => w.l.current # 0)
  BY WorldFacts DEF w, Positions, Fits
<1>3. Synced(w) /\ Straight(w.q)
  BY WorldSynced DEF w, Synced, Attuned, Calm
<1>4. Good(r) /\ Length(r) = Length(w.q) /\ Positions(r) = Positions(w.q)
  BY <1>1, <1>2, MoveRangeFacts DEF Positions
<1>5. /\ SameModes(w.q, r) /\ Descends(w.q, r)
      /\ \A p \in Positions(w.q) : Goes(p) \in Positions(w.q) /\ SameSong(r.items[Goes(p)], w.q.items[p])
      /\ \A o \in Positions(w.q) : r.order[o] = IF w.q.random THEN Goes(w.q.order[o]) ELSE w.q.order[o]
  <2>1. r = MoveRange(w.q, start, start + 1, to)
    BY <1>1
  <2>. HIDE DEF r
  <2>. QED  BY <1>2, <2>1, MoveOneSongs
<1>6. c = IF w.q.random \/ w.l.current = 0 THEN w.l.current ELSE Goes(w.l.current)
  BY <1>1
<1>. HIDE DEF r, Goes, c
<1>7. w.l.current # 0 => c \in Positions(w.q) /\ AtOrder(r, c).song = AtOrder(w.q, w.l.current).song
  <2>. SUFFICES ASSUME w.l.current # 0
                PROVE  c \in Positions(w.q) /\ AtOrder(r, c).song = AtOrder(w.q, w.l.current).song
    OBVIOUS
  <2>1. w.l.current \in Positions(w.q)
    BY <1>2
  <2>2. CASE w.q.random
    <3>1. c = w.l.current /\ r.order[c] = Goes(w.q.order[c]) /\ w.q.order[c] \in Positions(w.q)
      BY <1>2, <1>5, <1>6, <2>1, <2>2, QueueFacts
    <3>2. SameSong(r.items[Goes(w.q.order[c])], w.q.items[w.q.order[c]])
      BY <1>5, <3>1
    <3>. QED  BY <2>1, <3>1, <3>2 DEF AtOrder, SameSong
  <2>3. CASE ~w.q.random
    <3>1. c = Goes(w.l.current) /\ c \in Positions(w.q) /\ SameSong(r.items[c], w.q.items[w.l.current])
      BY <1>5, <1>6, <2>1, <2>3
    <3>2. r.order[c] = c /\ w.q.order[w.l.current] = w.l.current
      BY <1>3, <1>5, <2>1, <2>3, <3>1 DEF Straight
    <3>. QED  BY <3>1, <3>2 DEF AtOrder, SameSong
  <2>. QED  BY <2>2, <2>3
<1>8. c \in 0..Length(w.q) /\ (w.l.playing => c # 0 /\ AtOrder(r, c).song = Now(w.q, w.l))
  <2>1. w.l.current = 0 => c = 0
    BY <1>6
  <2>. QED  BY <1>2, <1>7, <2>1 DEF Now
<1>9. Straight(r)
  BY <1>3, <1>4, <1>5 DEF Straight, SameModes
<1>10. \A u \in Requeued(v, GetQueuedSong(w)) : Synced(u)
  BY <1>2, <1>3, <1>4, <1>5, <1>8, <1>9, PlacedSynced
<1>. HIDE DEF v
<1>. QED  BY <1>1, <1>10, CommandArrival

\* playlist::Shuffle()
LEMMA ShuffleInTouch ==
  ASSUME Inv, InTouch, NEW start \in Positions(queue), NEW end \in start + 1 .. Length(queue) + 1,
         Shuffle(start, end)
  PROVE  InTouch'
<1>. DEFINE w == World
            p == CurrentPosition(w)
            first == w.l.playing /\ p >= start /\ p < end
            r == IF first THEN SwapPositions(w.q, start, p) ELSE w.q
            c == IF first THEN (IF r.random THEN PositionToOrder(r, start) ELSE start)
                 ELSE IF w.l.playing THEN w.l.current ELSE 0
            from == IF first THEN start + 1 ELSE start
            S == UNION {Requeued([w EXCEPT !.q = s, !.l.current = c], GetQueuedSong(w))
                        : s \in ShuffleRange(r, from, end)}
<1>1. Command(S)
  BY Zenon DEF Shuffle
<1>. HIDE DEF w
<1>2. /\ Whole(w) /\ ~w.bulk /\ w.q = queue /\ w.l = list /\ Good(w.q)
      /\ w \in Worlds /\ w.l.current \in 0..Length(w.q) /\ (w.l.playing => w.l.current # 0)
      /\ Length(w.q) \in Nat /\ start \in 1..Length(w.q) /\ end \in Nat /\ end <= Length(w.q) + 1
      /\ Positions(w.q) = 1..Length(w.q)
  BY WorldFacts DEF w, Positions, Fits
<1>3. Synced(w) /\ Straight(w.q)
  BY WorldSynced DEF w, Synced, Attuned, Calm
<1>4. w.l.playing => p \in Positions(w.q) /\ p = w.q.order[w.l.current]
  BY <1>2, CurrentPositionFacts DEF CurrentPosition, OrderToPosition
<1>. HIDE DEF p
<1>5. first => w.l.playing
  OBVIOUS
<1>6. ~first /\ w.l.playing => p < start \/ p >= end
  BY <1>2, <1>4
<1>. HIDE DEF first
<1>7. /\ Good(r) /\ Length(r) = Length(w.q) /\ Positions(r) = Positions(w.q) /\ r.order = w.q.order
      /\ SameModes(w.q, r) /\ Descends(w.q, r)
      /\ first => SameSong(r.items[start], w.q.items[p])
      /\ ~first => r = w.q
  <2>1. CASE first
    <3>. DEFINE s == SwapPositions(w.q, start, p)
    <3>1. start \in Positions(w.q) /\ p \in Positions(w.q)
      BY <1>2, <1>4, <1>5, <2>1
    <3>2. Good(s) /\ Length(s) = Length(w.q) /\ s.order = w.q.order
      BY <1>2, <3>1, SwapPositionsFacts
    <3>3. /\ SameModes(w.q, s) /\ Descends(w.q, s)
          /\ \A x \in Positions(w.q) :
               SameSong(s.items[x], w.q.items[IF x = start THEN p ELSE IF x = p THEN start ELSE x])
      BY <1>2, <3>1, SwapPositionsSongs
    <3>4. r = s
      BY <2>1
    <3>. HIDE DEF s, r
    <3>5. SameSong(s.items[start], w.q.items[p])
      BY <3>1, <3>3
    <3>. QED  BY <2>1, <3>2, <3>3, <3>4, <3>5 DEF Positions
  <2>2. CASE ~first
    <3>1. r = w.q
      BY <2>2
    <3>. HIDE DEF r
    <3>. QED  BY <1>2, <2>2, <3>1, SameItemsDescend DEF SameModes
  <2>. QED  BY <2>1, <2>2
<1>. HIDE DEF r
<1>8. /\ c \in 0..Length(w.q) /\ (w.l.playing => c \in Positions(w.q))
      /\ first => r.order[c] = start
      /\ ~first /\ w.l.playing => c = w.l.current
  <2>1. PositionToOrder(r, start) \in Positions(w.q) /\ r.order[PositionToOrder(r, start)] = start
    BY <1>2, <1>7, PositionFacts
  <2>2. CASE first
    <3>1. ~r.random => r.order[start] = start
      BY <1>2, <1>3, <1>7 DEF Straight, SameModes
    <3>2. c \in Positions(w.q) /\ r.order[c] = start
      BY <1>2, <2>1, <2>2, <3>1
    <3>. HIDE DEF c
    <3>. QED  BY <1>2, <2>2, <3>2
  <2>3. CASE ~first /\ w.l.playing
    <3>1. c = w.l.current
      BY <2>3
    <3>. HIDE DEF c
    <3>. QED  BY <1>2, <2>3, <3>1
  <2>4. CASE ~first /\ ~w.l.playing
    <3>1. c = 0
      BY <2>4
    <3>. HIDE DEF c
    <3>. QED  BY <1>2, <2>4, <3>1
  <2>. QED  BY <2>2, <2>3, <2>4
<1>. HIDE DEF c
<1>9. from \in Nat \ {0} /\ (first => start < from) /\ (~first => from = start)
  BY <1>2
<1>. HIDE DEF from
<1>10. PICK u \in S : queue' = u.q /\ list' = u.l /\ pc' = u.pc
  <2>. HIDE DEF S
  <2>. QED  BY <1>1, CommandFacts
<1>11. PICK s \in ShuffleRange(r, from, end) :
        u \in Requeued([w EXCEPT !.q = s, !.l.current = c], GetQueuedSong(w))
  BY <1>10
<1>. HIDE DEF S
<1>12. /\ Good(s) /\ Length(s) = Length(w.q) /\ s.order = w.q.order
       /\ SameModes(r, s) /\ Descends(r, s)
       /\ \A x \in Positions(r) : x < from \/ x >= end => SameSong(s.items[x], r.items[x])
  <2>1. end <= Length(r) + 1
    BY <1>2, <1>7
  <2>. QED  BY <1>2, <1>7, <1>9, <2>1, ShuffleRangeFacts, ShuffleRangeSongs
<1>13. Descends(w.q, s) /\ Straight(s)
  <2>1. Positions(s) = Positions(w.q) /\ s.random = w.q.random
    BY <1>7, <1>12 DEF Positions, SameModes
  <2>. QED  BY <1>3, <1>7, <1>12, <2>1, DescendsTransitive DEF Straight
<1>14. w.l.playing => c # 0 /\ AtOrder(s, c).song = Now(w.q, w.l)
  <2>. SUFFICES ASSUME w.l.playing PROVE c # 0 /\ AtOrder(s, c).song = Now(w.q, w.l)
    OBVIOUS
  <2>1. c # 0
    BY <1>2, <1>8
  <2>2. Now(w.q, w.l) = w.q.items[p].song
    BY <1>4 DEF Now, AtOrder
  <2>3. CASE first
    <3>1. SameSong(s.items[start], r.items[start])
      BY <1>2, <1>7, <1>9, <1>12, <2>3
    <3>2. s.items[start].song = w.q.items[p].song /\ s.order[c] = start
      BY <1>7, <1>8, <1>12, <2>3, <3>1 DEF SameSong
    <3>. QED  BY <2>1, <2>2, <3>2 DEF AtOrder
  <2>4. CASE ~first
    <3>1. p \in Positions(r) /\ (p < from \/ p >= end)
      BY <1>4, <1>6, <1>7, <1>9, <2>4
    <3>2. SameSong(s.items[p], w.q.items[p]) /\ s.order[c] = p
      BY <1>4, <1>7, <1>8, <1>12, <2>4, <3>1
    <3>. QED  BY <2>1, <2>2, <3>2 DEF AtOrder, SameSong
  <2>. QED  BY <2>3, <2>4
<1>15. Synced(u)
  BY <1>2, <1>3, <1>8, <1>11, <1>12, <1>13, <1>14, PlacedSynced
<1>. QED  BY <1>10, <1>15, Arrival

\* playlist::SetPriorityRange()
LEMMA SetPrioritiesInTouch ==
  ASSUME Inv, InTouch, NEW start \in Positions(queue), NEW end \in start + 1 .. Length(queue) + 1,
         NEW priority \in Priorities, SetPriorities(start, end, priority)
  PROVE  InTouch'
<1>. DEFINE w == World
            p == CurrentPosition(w)
            c(r) == IF p = 0 THEN w.l.current ELSE PositionToOrder(r, p)
            S == UNION {Requeued([w EXCEPT !.q = r, !.l.current = c(r)], GetQueuedSong(w))
                        : r \in SetPriorityRange(w.q, start, end, priority, w.l.current)}
<1>1. Command(S)
  BY Zenon DEF SetPriorities
<1>. HIDE DEF w
<1>2. /\ Whole(w) /\ ~w.bulk /\ w.q = queue /\ w.l = list /\ Good(w.q)
      /\ w \in Worlds /\ w.l.current \in 0..Length(w.q) /\ (w.l.playing => w.l.current # 0)
      /\ Length(w.q) \in Nat /\ start \in Positions(w.q) /\ end \in start + 1 .. Length(w.q) + 1
      /\ Positions(w.q) = 1..Length(w.q)
  BY WorldFacts DEF w, Positions, Fits
<1>3. Synced(w) /\ Straight(w.q)
  BY WorldSynced DEF w, Synced, Attuned, Calm
<1>4. /\ w.l.current = 0 => p = 0
      /\ w.l.current # 0 => p \in Positions(w.q) /\ p = w.q.order[w.l.current]
  BY <1>2, CurrentPositionFacts DEF CurrentPosition, OrderToPosition
<1>. HIDE DEF p
<1>5. PICK u \in S : queue' = u.q /\ list' = u.l /\ pc' = u.pc
  <2>. HIDE DEF S
  <2>. QED  BY <1>1, CommandFacts
<1>6. PICK r \in SetPriorityRange(w.q, start, end, priority, w.l.current) :
        u \in Requeued([w EXCEPT !.q = r, !.l.current = c(r)], GetQueuedSong(w))
  <2>. HIDE DEF c
  <2>. QED  BY <1>5
<1>. HIDE DEF S
<1>7. Good(r) /\ Length(r) = Length(w.q) /\ Reordered(w.q, r)
  <2>1. priority \in Bytes
    BY PlaylistAssumption DEF Bytes
  <2>. QED  BY <1>2, <2>1, SetPriorityRangeFacts, SetPriorityRangeSongs
<1>8. Descends(w.q, r) /\ Straight(r)
  BY <1>3, <1>7, ReorderedFacts
<1>. DEFINE d == c(r)
<1>9. d \in 0..Length(w.q) /\ (w.l.playing => d # 0 /\ AtOrder(r, d).song = Now(w.q, w.l))
  <2>1. CASE w.l.current = 0
    <3>1. d = 0 /\ ~w.l.playing
      BY <1>2, <1>4, <2>1
    <3>. HIDE DEF d
    <3>. QED  BY <1>2, <3>1
  <2>2. CASE w.l.current # 0
    <3>1. p \in Positions(r) /\ p # 0
      BY <1>2, <1>4, <1>7, <2>2 DEF Reordered
    <3>2. PositionToOrder(r, p) \in Positions(r) /\ r.order[PositionToOrder(r, p)] = p
      BY <1>7, <3>1, PositionFacts
    <3>3. d = PositionToOrder(r, p)
      BY <3>1
    <3>. HIDE DEF d
    <3>4. SameSong(r.items[p], w.q.items[p])
      BY <1>4, <1>7, <2>2 DEF Reordered
    <3>5. AtOrder(r, d).song = Now(w.q, w.l)
      BY <1>4, <2>2, <3>2, <3>3, <3>4 DEF AtOrder, Now, SameSong
    <3>. QED  BY <1>2, <1>7, <3>2, <3>3, <3>5 DEF Reordered
  <2>. QED  BY <2>1, <2>2
<1>10. u \in Requeued([w EXCEPT !.q = r, !.l.current = d], GetQueuedSong(w))
  BY <1>6
<1>. HIDE DEF d
<1>11. Synced(u)
  BY <1>2, <1>3, <1>7, <1>8, <1>9, <1>10, PlacedSynced
<1>. QED  BY <1>5, <1>11, Arrival

\* playlist::AddSongIdTag(), ClearSongIdTag()
LEMMA EditTagInTouch ==
  ASSUME Inv, InTouch, NEW p \in Positions(queue), EditTag(p)
  PROVE  InTouch'
<1>. DEFINE w == World
            e == NewTag(w.q, p)
            r == ModifyAtPosition(e, p)
            v == OnModified([w EXCEPT !.q = r])
<1>1. Command({v})
  BY Zenon DEF EditTag
<1>. HIDE DEF w
<1>2. Synced(w) /\ w.q = queue /\ Good(w.q) /\ 0 \in Bytes
  BY WorldFacts, WorldSynced DEF w, Bytes
<1>3. Good(e) /\ Length(e) = Length(w.q) /\ Alike(w.q, e)
  BY <1>2, EditFacts, EditsAlike
<1>. HIDE DEF e
<1>4. Good(r) /\ Alike(e, r)
  <2>1. p \in Positions(e)
    BY <1>2, <1>3 DEF Positions
  <2>. QED  BY <1>2, <1>3, <2>1, ModifyFacts, EditsAlike
<1>. HIDE DEF r
<1>5. Synced(v)
  BY <1>2, <1>3, <1>4, AlikeTransitive, EditedSynced
<1>. HIDE DEF v
<1>. QED  BY <1>1, <1>5, CommandArrival

\* playlist::DatabaseModified()
LEMMA DatabaseModifiedInTouch ==
  ASSUME Inv, InTouch, NEW changed, DatabaseModified(changed)
  PROVE  InTouch'
<1>. DEFINE Updated(item) == IF item.song \in changed
                             THEN [item EXCEPT !.tag = ~@, !.version = queue.version] ELSE item
            w == World
            items == [p \in DOMAIN w.q.items |-> Updated(w.q.items[p])]
            r == [w.q EXCEPT !.items = items]
            v == OnModified([w EXCEPT !.q = r])
<1>1. Command({OnModified([w EXCEPT !.q.items = items])})
  BY Zenon DEF DatabaseModified
<1>. HIDE DEF w
<1>2. Synced(w) /\ w \in Worlds /\ w.q = queue /\ Good(w.q) /\ w.q \in Queues
  BY WorldFacts, WorldSynced DEF w, Good
<1>3. [w EXCEPT !.q.items = items] = [w EXCEPT !.q = r]
  BY <1>2 DEF Worlds
<1>4. /\ items \in [Positions(w.q) -> Items]
      /\ \A p \in Positions(w.q) : items[p].id = w.q.items[p].id /\ items[p].song = w.q.items[p].song
  <2>1. queue.version \in 0..(MaxVersion - 1)
    BY <1>2, Sizes DEF Queues
  <2>2. ASSUME NEW item \in Items
        PROVE  Updated(item) \in Items /\ Updated(item).id = item.id /\ Updated(item).song = item.song
    <3>1. CASE item.song \in changed
      BY <2>1, <3>1 DEF Items
    <3>2. CASE item.song \notin changed
      BY <3>2
    <3>. QED  BY <3>1, <3>2
  <2>. HIDE DEF Updated
  <2>. QED  BY <1>2, <2>2, QueueFacts
<1>. HIDE DEF items
<1>5. /\ r \in Queues /\ r.items = items /\ r.order = w.q.order /\ r.table = w.q.table
      /\ r.random = w.q.random /\ r.consume = w.q.consume
  <2>1. items \in Seq(Items)
    BY <1>2, <1>4, QueueFacts, ListOf DEF Positions
  <2>. QED  BY <1>2, <2>1 DEF Queues
<1>. HIDE DEF r
<1>6. Good(r) /\ Length(r) = Length(w.q)
  BY <1>2, <1>4, <1>5, SameSongs
<1>7. Alike(w.q, r)
  BY <1>4, <1>5, <1>6 DEF Alike, SameModes
<1>8. Synced(v)
  BY <1>2, <1>6, <1>7, EditedSynced
<1>9. Command({v})
  BY <1>1, <1>3
<1>. HIDE DEF v
<1>. QED  BY <1>8, <1>9, CommandArrival

\* playlist::SetSongIdRange(): a song that was cancelled is not queued any more.
LEMMA SetSongIdRangeInTouch ==
  ASSUME Inv, InTouch, NEW p \in Positions(queue), SetSongIdRange(p)
  PROVE  InTouch'
<1>. DEFINE w == World
            requeue == w.l.playing /\ p = w.l.queued
            cancelled == IF requeue THEN {[v EXCEPT !.l.queued = 0] : v \in LockCancel(w)} ELSE {w}
            Tagged(v) == [v EXCEPT !.q = NewTag(v.q, p)]
            edited == UNION {IF requeue THEN UpdateQueuedSong(Tagged(v), 0) ELSE {Tagged(v)}
                             : v \in cancelled}
            S == cancelled \cup {OnModified([v EXCEPT !.q = ModifyAtPosition(v.q, p)]) : v \in edited}
<1>1. Command(S)
  BY Zenon DEF SetSongIdRange
<1>. HIDE DEF w
<1>2. /\ Synced(w) /\ ~w.bulk /\ w.q = queue /\ Good(w.q) /\ w \in Worlds /\ Length(w.q) \in Nat
      /\ 0 \in Bytes /\ Half(w)
  BY WorldFacts, WorldSynced DEF w, Bytes, Whole
<1>3. ASSUME NEW v \in cancelled
      PROVE  Synced(v) /\ ~v.bulk /\ v.q = queue /\ (requeue => v.l.queued = 0)
  <2>1. CASE ~requeue
    BY <1>2, <2>1
  <2>2. CASE requeue
    <3>1. PICK t \in LockCancel(w) : v = [t EXCEPT !.l.queued = 0]
      BY <2>2
    <3>. HIDE DEF cancelled
    <3>2. Beside(w, t) /\ t.l = w.l /\ t.q = w.q /\ Silent(t.pc)
          /\ \A c, s : Follows(w.pc, c, s) => InTune(t.pc, c, None)
      BY <1>2, LockCancelFacts, LockCancelOnward
    <3>3. Half(t) /\ ~t.bulk /\ 0 \in 0..Length(t.q) /\ t \in Worlds /\ 0 \in Nat
      BY <1>2, <3>2, BesideKeeps DEF Beside
    <3>4. /\ Whole(v) /\ v.q = queue /\ v.pc = t.pc /\ v.bulk = t.bulk
          /\ v.l.playing = w.l.playing /\ v.l.current = w.l.current /\ v.l.queued = 0 /\ v.l.fine = w.l.fine
      BY <1>2, <3>1, <3>2, <3>3, OtherQueued, OtherQueuedFields
    <3>5. w.l.playing
      BY <2>2
    <3>. HIDE DEF requeue
    <3>6. InTune(v.pc, Now(w.q, w.l), None)
      BY <1>2, <3>2, <3>4, <3>5 DEF Synced, Attuned, Tuned, InTune
    <3>7. Now(v.q, v.l) = Now(w.q, w.l) /\ QueuedId(v.q, v.l) = 0
      BY <1>2, <3>4 DEF Now, QueuedId
    <3>8. Tuned(v.q, v.l, v.pc, 0)
      BY <1>2, <3>4, <3>6, <3>7, NoIdZero DEF Tuned
    <3>9. v.l.current # 0 /\ Calm(v.q, v.l, v.pc)
      BY <1>2, <3>2, <3>4, <3>5 DEF Half, Fits, Synced, Attuned, Calm
    <3>10. Attuned(v.q, v.l, v.pc)
      BY <3>4, <3>7, <3>8, <3>9 DEF Attuned, NotItself
    <3>. QED  BY <3>3, <3>4, <3>10 DEF Synced
  <2>. QED  BY <2>1, <2>2
<1>. HIDE DEF cancelled, requeue
<1>4. ASSUME NEW v \in cancelled
      PROVE  /\ Synced(Tagged(v)) /\ ~Tagged(v).bulk /\ Length(Tagged(v).q) = Length(queue)
             /\ (requeue => Tagged(v).l.queued = 0)
  <2>1. Synced(v) /\ ~v.bulk /\ v.q = queue /\ Good(v.q) /\ v \in Worlds
    BY <1>3 DEF Synced, Whole, Half, Fits
  <2>. DEFINE r == NewTag(v.q, p)
  <2>2. Good(r) /\ Length(r) = Length(queue) /\ r \in Queues /\ Alike(v.q, r)
    BY <1>2, <2>1, EditFacts, EditsAlike DEF Good
  <2>. HIDE DEF r
  <2>3. /\ Synced([v EXCEPT !.q = r]) /\ [v EXCEPT !.q = r].q = r /\ [v EXCEPT !.q = r].bulk = v.bulk
        /\ [v EXCEPT !.q = r].l = v.l
    BY <2>1, <2>2, EditedSynced, OtherQueue
  <2>. QED  BY <1>3, <2>1, <2>2, <2>3 DEF r
<1>5. ASSUME NEW y \in edited PROVE Synced(y) /\ Good(y.q) /\ p \in Positions(y.q)
  <2>1. PICK v \in cancelled : y \in IF requeue THEN UpdateQueuedSong(Tagged(v), 0) ELSE {Tagged(v)}
    <3>. HIDE DEF Tagged
    <3>. QED  OBVIOUS
  <2>. DEFINE t == Tagged(v)
  <2>2. Synced(t) /\ ~t.bulk /\ Length(t.q) = Length(queue) /\ (requeue => t.l.queued = 0) /\ Half(t)
    BY <1>4 DEF Synced, Whole
  <2>3. y \in IF requeue THEN UpdateQueuedSong(t, 0) ELSE {t}
    BY <2>1
  <2>. HIDE DEF Tagged, t, edited
  <2>4. Synced(y) /\ Length(y.q) = Length(queue)
    <3>1. CASE ~requeue
      BY <2>2, <2>3, <3>1
    <3>2. CASE requeue
      <4>1. QueuedId(t.q, t.l) = 0
        BY <2>2, <3>2 DEF QueuedId
      <4>2. Calm(t.q, t.l, t.pc) /\ Tuned(t.q, t.l, t.pc, 0)
        BY <2>2, <4>1 DEF Synced, Attuned
      <4>. QED  BY <2>2, <2>3, <3>2, <4>2, UpdateQueuedSongFacts, UpdateQueuedSongSynced
    <3>. QED  BY <3>1, <3>2
  <2>. QED  BY <2>4 DEF Synced, Whole, Half, Fits, Positions
<1>. HIDE DEF edited, Tagged
<1>6. ASSUME NEW y \in edited PROVE Synced(OnModified([y EXCEPT !.q = ModifyAtPosition(y.q, p)]))
  <2>1. Synced(y) /\ Good(y.q) /\ p \in Positions(y.q)
    BY <1>5
  <2>2. Good(ModifyAtPosition(y.q, p)) /\ Alike(y.q, ModifyAtPosition(y.q, p))
    BY <1>2, <2>1, ModifyFacts, EditsAlike
  <2>. QED  BY <2>1, <2>2, EditedSynced
<1>7. \A u \in S : Synced(u)
  BY <1>3, <1>6
<1>. HIDE DEF S
<1>. QED  BY <1>1, <1>7, CommandArrival

\* A world with which a command begins, part by part
LEMMA WorldParts ==
  ASSUME Inv, InTouch
  PROVE  /\ Synced(World) /\ Whole(World) /\ World \in Worlds /\ ~World.bulk
         /\ World.q = queue /\ World.l = list /\ World.pc = pc
         /\ Good(World.q) /\ Fits(World.q, World.l) /\ Length(World.q) \in Nat
         /\ Straight(World.q) /\ World.l.fine /\ Calm(World.q, World.l, World.pc)
  BY WorldFacts, WorldSynced DEF Synced, Attuned, Calm

\* playlist::PlayAny()
LEMMA PlayAnyInTouch ==
  ASSUME Inv, InTouch, PlayAny
  PROVE  InTouch'
<1>. DEFINE w == World
            o == IF list.current = 0 THEN 1 ELSE list.current
            resumed == UNION {IF v.pc.state = "PAUSE" THEN PauseLocked(v) ELSE {v} : v \in Enter(w)}
            S == IF list.playing THEN resumed ELSE PlayOrder(NoError(w), o)
<1>1. Command(S)
  BY Zenon DEF PlayAny
<1>. HIDE DEF w
<1>2. /\ Synced(w) /\ w \in Worlds /\ w.q = queue /\ w.l = list /\ Good(queue) /\ Fits(queue, list)
      /\ Straight(queue) /\ list.fine /\ Length(queue) \in Nat
  BY WorldParts DEF w
<1>3. PICK u \in S : queue' = u.q /\ list' = u.l /\ pc' = u.pc
  <2>. HIDE DEF S
  <2>. QED  BY <1>1, CommandFacts
<1>4. CASE list.playing
  <2>1. PICK v \in Enter(w) : u \in IF v.pc.state = "PAUSE" THEN PauseLocked(v) ELSE {v}
    BY <1>3, <1>4
  <2>2. Synced(v)
    BY <1>2, EnterSynced
  <2>3. Synced(u)
    BY <2>1, <2>2, PauseLockedSynced
  <2>. QED  BY <1>3, <2>3, Arrival
<1>5. CASE ~list.playing
  <2>. DEFINE v == NoError(w)
  <2>1. v \in Worlds /\ v.q = queue /\ v.l.fine
    BY <1>2, NoErrorSynced
  <2>2. o \in 1..Length(queue)
    <3>1. queue.items # << >> /\ queue.items \in Seq(Items)
      BY <1>2, QueueFacts DEF PlayAny, Queues
    <3>2. Length(queue) # 0
      BY <3>1, EmptySeq DEF Length
    <3>3. list.current \in 0..Length(queue)
      BY <1>2 DEF Fits
    <3>. QED  BY <1>2, <3>2, <3>3
  <2>3. u \in PlayOrder(v, o)
    BY <1>3, <1>5
  <2>. HIDE DEF v, o
  <2>4. Synced(u)
    BY <1>2, <2>1, <2>2, <2>3, PlayOrderSynced
  <2>. QED  BY <1>3, <2>4, Arrival
<1>. QED  BY <1>4, <1>5

\* playlist::PlayPosition()
LEMMA PlayPositionInTouch ==
  ASSUME Inv, InTouch, NEW p \in Positions(queue), PlayPosition(p)
  PROVE  InTouch'
<1>1. Command(PlayPositionOf(World, p))
  BY Zenon DEF PlayPosition
<1>2. World \in Worlds /\ Fits(World.q, World.l) /\ Straight(World.q) /\ World.l.fine /\ p \in Positions(World.q)
  BY WorldParts
<1>3. \A w \in PlayPositionOf(World, p) : Synced(w)
  BY <1>2, PlayPositionOfSynced
<1>. QED  BY <1>1, <1>3, CommandArrival

\* playlist::PlayNext()
LEMMA PlayNextInTouch ==
  ASSUME Inv, InTouch, PlayNext
  PROVE  InTouch'
<1>1. Command(PlayNextOf(World)) /\ list.playing
  BY Zenon DEF PlayNext
<1>2. /\ World \in Worlds /\ Fits(World.q, World.l) /\ World.l.playing /\ ~World.bulk
      /\ Calm(World.q, World.l, World.pc)
  BY <1>1, WorldParts
<1>3. \A w \in PlayNextOf(World) : Synced(w)
  BY <1>2, PlayNextOfSynced
<1>. QED  BY <1>1, <1>3, CommandArrival

\* playlist::PlayPrevious()
LEMMA PlayPreviousInTouch ==
  ASSUME Inv, InTouch, PlayPrevious
  PROVE  InTouch'
<1>. DEFINE o == CASE list.current > 1 -> list.current - 1
                   [] list.current <= 1 /\ queue.repeat -> Length(queue)
                   [] OTHER -> list.current
<1>1. Command(PlayOrder(World, o)) /\ list.playing
  BY Zenon DEF PlayPrevious
<1>2. /\ World \in Worlds /\ World.q = queue /\ Good(World.q) /\ Straight(World.q) /\ World.l.fine
      /\ Fits(queue, list) /\ Length(queue) \in Nat
  BY WorldParts
<1>3. o \in 1..Length(queue)
  <2>1. list.current \in 1..Length(queue)
    BY <1>1, <1>2 DEF Fits
  <2>2. CASE list.current > 1
    BY <1>2, <2>1, <2>2
  <2>3. CASE ~(list.current > 1)
    <3>1. list.current <= 1
      BY <2>1, <2>3
    <3>2. CASE queue.repeat
      BY <1>2, <2>1, <2>3, <3>1, <3>2
    <3>3. CASE ~queue.repeat
      BY <2>1, <2>3, <3>3
    <3>. QED  BY <3>2, <3>3
  <2>. QED  BY <2>2, <2>3
<1>. HIDE DEF o
<1>4. \A w \in PlayOrder(World, o) : Synced(w)
  BY <1>2, <1>3, PlayOrderSynced
<1>. QED  BY <1>1, <1>4, CommandArrival DEF o

\* playlist::SeekSongPosition()
LEMMA SeekSongInTouch ==
  ASSUME Inv, InTouch, NEW o \in Positions(queue), NEW zero \in BOOLEAN, SeekSong(o, zero)
  PROVE  InTouch'
<1>1. Command(SeekSongOrder(World, o, zero))
  BY Zenon DEF SeekSong
<1>2. /\ World \in Worlds /\ Fits(World.q, World.l) /\ ~World.bulk
      /\ Calm(World.q, World.l, World.pc) /\ o \in 1..Length(World.q)
  BY WorldParts DEF Positions
<1>3. \A w \in SeekSongOrder(World, o, zero) : Synced(w)
  BY <1>2, SeekSongOrderSynced
<1>. QED  BY <1>1, <1>3, CommandArrival

\* playlist::Stop()
LEMMA StopInTouch ==
  ASSUME Inv, InTouch, Stop
  PROVE  InTouch'
<1>1. Command(StopWith(World))
  BY Zenon DEF Stop
<1>2. World \in Worlds /\ Fits(World.q, World.l) /\ Calm(World.q, World.l, World.pc)
  BY WorldParts
<1>3. \A w \in StopWith(World) : Synced(w)
  BY <1>2, StopWithSynced
<1>. QED  BY <1>1, <1>3, CommandArrival

\* PlayerControl::LockPause()
LEMMA PauseInTouch ==
  ASSUME Inv, InTouch, Pause
  PROVE  InTouch'
<1>. DEFINE S == UNION {PauseLocked(v) : v \in Enter(World)}
<1>1. Command(S)
  BY Zenon DEF Pause
<1>2. Synced(World)
  BY WorldSynced
<1>3. \A u \in S : Synced(u)
  BY <1>2, EnterSynced, PauseLockedSynced
<1>. HIDE DEF S
<1>. QED  BY <1>1, <1>3, CommandArrival DEF S

\* playlist::SetConsume(), unless the current song is queued after itself
LEMMA SetConsumeInTouch ==
  ASSUME Cautious, Inv, InTouch, NEW mode \in Modes, SetConsume(mode)
  PROVE  InTouch'
<1>. DEFINE w == World
            r == [w.q EXCEPT !.consume = mode]
            v == [w EXCEPT !.q.consume = mode]
<1>1. Command({v}) /\ ~(list.playing /\ list.queued = list.current)
  BY Zenon DEF SetConsume
<1>. HIDE DEF w
<1>2. Synced(w) /\ w \in Worlds /\ w.q \in Queues /\ w.l = list
  BY WorldParts, QueueFacts DEF w
<1>3. v = [w EXCEPT !.q = r]
  BY <1>2 DEF Worlds
<1>4. r \in Queues /\ r.items = w.q.items /\ r.order = w.q.order /\ r.random = w.q.random
  BY <1>2 DEF Queues
<1>. HIDE DEF r
<1>5. v.q = r /\ v.l = w.l /\ v.pc = w.pc
  <2>1. w \in Worlds /\ r \in Queues
    BY <1>2, <1>4
  <2>. HIDE DEF v
  <2>. QED  BY <1>3, <2>1, OtherQueue
<1>6. PICK u \in {v} : queue' = u.q /\ list' = u.l /\ pc' = u.pc
  <2>. HIDE DEF v
  <2>. QED  BY <1>1, CommandFacts
<1>. HIDE DEF v
<1>7. Calm(r, w.l, w.pc) /\ Tuned(r, w.l, w.pc, QueuedId(r, w.l))
  BY <1>2, <1>4, ModeAttuned DEF Synced, Attuned
<1>8. NotItself(r, w.l)
  BY <1>1, <1>2 DEF NotItself
<1>9. Attuned(queue', list', pc')
  BY <1>5, <1>6, <1>7, <1>8 DEF Attuned
<1>. QED  BY <1>9 DEF InTouch

\* SetRepeat() and SetSingle() after the mode was changed
LEMMA ModeChangeSynced ==
  ASSUME NEW w, Synced(w), ~w.bulk, NEW r \in Queues,
         r.items = w.q.items, r.order = w.q.order, r.table = w.q.table, r.random = w.q.random,
         NEW s, s = SetBorderPause([w EXCEPT !.q = r]),
         NEW u \in UpdateQueuedSong(s, GetQueuedSong(s))
  PROVE  Synced(u)
<1>1. w \in Worlds /\ Good(w.q) /\ Whole(w)
  BY DEF Synced, Whole, Half, Fits
<1>2. Good(r) /\ Length(r) = Length(w.q)
  BY <1>1, ModeFacts
<1>. DEFINE v == [w EXCEPT !.q = r]
<1>3. Whole(v) /\ v \in Worlds /\ v.bulk = w.bulk /\ v.q = r /\ v.l = w.l /\ v.pc = w.pc
  BY <1>1, <1>2, EditedFacts, OtherQueue
<1>4. s = SetBorderPause(v)
  OBVIOUS
<1>. HIDE DEF v
<1>5. Beside(v, s) /\ s.l = v.l
  BY <1>3, <1>4, SetBorderPauseFacts
<1>6. Whole(s) /\ ~s.bulk /\ Half(s) /\ s.q = r /\ s.l = w.l
  BY <1>3, <1>5, BesideKeeps DEF Beside, Whole
<1>7. Onward(w.pc, s.pc)
  <2>. DEFINE b == v.q.single # "OFF" /\ ~v.q.repeat
              p == [v.pc EXCEPT !.border = b]
  <2>1. v.pc \in Players
    BY <1>3, Parts
  <2>2. p.state = v.pc.state /\ p.song = v.pc.song /\ p.next = v.pc.next /\ p.sync = v.pc.sync
    <3>. HIDE DEF b
    <3>. QED  BY <2>1 DEF Players
  <2>3. s = [v EXCEPT !.pc = p]
    BY <1>3, <1>4 DEF SetBorderPause, Worlds
  <2>. HIDE DEF p
  <2>4. s.pc = p
    BY <1>3, <2>3 DEF Worlds
  <2>. QED  BY <1>3, <2>2, <2>4, SamePlayer
<1>8. Calm(r, w.l, w.pc) /\ Tuned(r, w.l, w.pc, QueuedId(r, w.l))
  BY ModeAttuned DEF Synced, Attuned
<1>9. Calm(s.q, s.l, s.pc) /\ Tuned(s.q, s.l, s.pc, QueuedId(s.q, s.l))
  <2>1. Calm(r, w.l, s.pc) /\ Tuned(r, w.l, s.pc, QueuedId(r, w.l))
    BY <1>7, <1>8, OnwardTuned
  <2>. QED  BY <1>6, <2>1, Zenon
<1>10. GetQueuedSong(s) = QueuedId(s.q, s.l)
  BY DEF GetQueuedSong, QueuedId
<1>. QED  BY <1>6, <1>9, <1>10, UpdateQueuedSongSynced

\* playlist::SetRepeat()
LEMMA SetRepeatInTouch ==
  ASSUME Inv, InTouch, SetRepeat
  PROVE  InTouch'
<1>. DEFINE w == World
            r == [w.q EXCEPT !.repeat = ~w.q.repeat]
            v == [w EXCEPT !.q.repeat = ~@]
            s == SetBorderPause(v)
            S == UpdateQueuedSong(s, GetQueuedSong(s))
<1>1. Command(S)
  BY Zenon DEF SetRepeat
<1>. HIDE DEF w
<1>2. Synced(w) /\ w \in Worlds /\ w.q \in Queues /\ ~w.bulk
  BY WorldParts, QueueFacts DEF w
<1>3. v = [w EXCEPT !.q = r]
  BY <1>2 DEF Worlds
<1>4. /\ r \in Queues /\ r.items = w.q.items /\ r.order = w.q.order /\ r.table = w.q.table
      /\ r.random = w.q.random
  <2>1. (~w.q.repeat) \in BOOLEAN
    OBVIOUS
  <2>. QED  BY <1>2, <2>1 DEF Queues
<1>. HIDE DEF r, v
<1>5. PICK u \in S : queue' = u.q /\ list' = u.l /\ pc' = u.pc
  <2>. HIDE DEF S
  <2>. QED  BY <1>1, CommandFacts
<1>6. s = SetBorderPause([w EXCEPT !.q = r])
  BY <1>3
<1>. HIDE DEF s
<1>7. Synced(u)
  BY <1>2, <1>4, <1>5, <1>6, ModeChangeSynced
<1>. QED  BY <1>5, <1>7, Arrival

\* playlist::SetSingle()
LEMMA SetSingleInTouch ==
  ASSUME Inv, InTouch, NEW mode \in Modes, SetSingle(mode)
  PROVE  InTouch'
<1>. DEFINE w == World
            r == [w.q EXCEPT !.single = mode]
            v == [w EXCEPT !.q.single = mode]
            s == SetBorderPause(v)
            S == UpdateQueuedSong(s, GetQueuedSong(s))
<1>1. Command(S)
  BY Zenon DEF SetSingle
<1>. HIDE DEF w
<1>2. Synced(w) /\ w \in Worlds /\ w.q \in Queues /\ ~w.bulk
  BY WorldParts, QueueFacts DEF w
<1>3. v = [w EXCEPT !.q = r]
  BY <1>2 DEF Worlds
<1>4. /\ r \in Queues /\ r.items = w.q.items /\ r.order = w.q.order /\ r.table = w.q.table
      /\ r.random = w.q.random
  BY <1>2 DEF Queues
<1>. HIDE DEF r, v
<1>5. PICK u \in S : queue' = u.q /\ list' = u.l /\ pc' = u.pc
  <2>. HIDE DEF S
  <2>. QED  BY <1>1, CommandFacts
<1>6. s = SetBorderPause([w EXCEPT !.q = r])
  BY <1>3
<1>. HIDE DEF s
<1>7. Synced(u)
  BY <1>2, <1>4, <1>5, <1>6, ModeChangeSynced
<1>. QED  BY <1>5, <1>7, Arrival

\* SetRandom(): "current" follows its song to its place in the new order.
LEMMA SetRandomInTouch ==
  ASSUME Inv, InTouch, SetRandom
  PROVE  InTouch'
<1>. DEFINE x == World
            r == [x.q EXCEPT !.random = ~x.q.random]
            w == [x EXCEPT !.q.random = ~@]
            p == CurrentPosition(w)
            first(t) == MoveOrder(t, PositionToOrder(t, p), 1)
            on == IF w.l.playing
                  THEN {[w EXCEPT !.q = first(t), !.l.current = 1] : t \in ShuffleOrder(w.q)}
                  ELSE {[w EXCEPT !.q = t, !.l.current = 0] : t \in ShuffleOrder(w.q)}
            off == {[w EXCEPT !.q = RestoreOrder(@), !.l.current = p]}
            T == IF w.q.random THEN on ELSE off
            prev == GetQueuedSong(x)
            S == UNION {UpdateQueuedSong(v, prev) : v \in T}
<1>1. Command(S)
  BY Zenon DEF SetRandom
<1>. HIDE DEF x
<1>2. Synced(x) /\ Whole(x) /\ x \in Worlds /\ x.q \in Queues /\ Good(x.q) /\ ~x.bulk
  BY WorldParts, QueueFacts DEF x
<1>3. w = [x EXCEPT !.q = r]
  BY <1>2 DEF Worlds
<1>4. r \in Queues /\ r.items = x.q.items /\ r.order = x.q.order /\ r.table = x.q.table
  <2>1. (~x.q.random) \in BOOLEAN
    OBVIOUS
  <2>. QED  BY <1>2, <2>1 DEF Queues
<1>. HIDE DEF r, w, prev
<1>5. Good(r) /\ Length(r) = Length(x.q)
  BY <1>2, <1>4, ModeFacts
<1>6. Whole(w) /\ w \in Worlds /\ ~w.bulk /\ Good(w.q) /\ w.q = r /\ w.l = x.l /\ w.pc = x.pc
  BY <1>2, <1>3, <1>5, EditedFacts, OtherQueue DEF Good
<1>7. /\ w.l.current \in 0..Length(w.q) /\ (w.l.playing => w.l.current # 0) /\ Length(w.q) \in Nat
      /\ p \in 0..Length(w.q) /\ (w.l.current # 0 => p \in Positions(w.q) /\ p = w.q.order[w.l.current])
  BY <1>6, CurrentPositionFacts, QueueFacts DEF Whole, Half, Fits, CurrentPosition, OrderToPosition
<1>. HIDE DEF p
<1>8. ASSUME NEW v \in T
      PROVE  /\ Whole(v) /\ ~v.bulk /\ v.pc = w.pc /\ v.l.fine = w.l.fine
             /\ v.l.playing = w.l.playing /\ v.l.queued = w.l.queued
             /\ v.q.items = w.q.items /\ Straight(v.q)
             /\ w.l.playing => v.q.order[v.l.current] = p
  <2>1. CASE w.q.random /\ w.l.playing
    <3>1. PICK t \in ShuffleOrder(w.q) : v = [w EXCEPT !.q = first(t), !.l.current = 1]
      <4>. HIDE DEF first
      <4>. QED  BY <2>1
    <3>. HIDE DEF on, off, T, S
    <3>2. Good(t) /\ Length(t) = Length(w.q) /\ Positions(t) = Positions(w.q) /\ t.items = w.q.items /\ t.random
      BY <1>6, <2>1, ShuffleOrderFacts
    <3>3. p \in Positions(t)
      BY <1>7, <2>1, <3>2
    <3>4. 1 \in 0..Length(w.q) /\ 1 \in Positions(t) /\ 1 \in Nat
      <4>1. w.l.current \in 1..Length(w.q)
        BY <1>7, <2>1
      <4>. QED  BY <1>7, <3>2, <4>1 DEF Positions
    <3>5. PositionToOrder(t, p) \in Positions(t) /\ t.order[PositionToOrder(t, p)] = p
      BY <3>2, <3>3, PositionFacts
    <3>6. /\ Good(first(t)) /\ Length(first(t)) = Length(w.q) /\ first(t).items = w.q.items
          /\ first(t).random /\ first(t).order[1] = p
      BY <3>2, <3>4, <3>5, MoveOrderFacts, MoveOrderSongs DEF SameModes
    <3>. HIDE DEF first
    <3>7. (w.l.playing => 1 # 0) /\ first(t) \in Queues
      BY <3>6, QueueFacts
    <3>. DEFINE y == [w EXCEPT !.q = first(t), !.l.current = 1]
    <3>8. Whole(y) /\ y.bulk = w.bulk
      <4>1. Whole(w) /\ Good(first(t)) /\ Length(first(t)) = Length(w.q) /\ 1 \in 0..Length(w.q)
        BY <1>6, <3>4, <3>6
      <4>. QED  BY <3>7, <4>1, PlacedFacts
    <3>9. /\ y.q = first(t) /\ y.l.current = 1 /\ y.l.playing = w.l.playing /\ y.l.queued = w.l.queued
          /\ y.l.fine = w.l.fine /\ y.pc = w.pc
      BY <1>6, <3>4, <3>7, PlacedFields
    <3>10. v = y
      BY <3>1
    <3>. HIDE DEF y
    <3>11. Straight(y.q)
      BY <3>6, <3>9 DEF Straight
    <3>. QED  BY <1>6, <3>6, <3>8, <3>9, <3>10, <3>11
  <2>2. CASE w.q.random /\ ~w.l.playing
    <3>1. PICK t \in ShuffleOrder(w.q) : v = [w EXCEPT !.q = t, !.l.current = 0]
      BY <2>2
    <3>. HIDE DEF on, off, T, S
    <3>2. Good(t) /\ Length(t) = Length(w.q) /\ t.items = w.q.items /\ t.random /\ t \in Queues
      BY <1>6, <2>2, ShuffleOrderFacts, QueueFacts
    <3>3. 0 \in 0..Length(w.q) /\ 0 \in Nat
      BY <1>7
    <3>4. w.l.playing => 0 # 0
      BY <2>2
    <3>. DEFINE y == [w EXCEPT !.q = t, !.l.current = 0]
    <3>5. Whole(y) /\ y.bulk = w.bulk
      BY <1>6, <3>2, <3>3, <3>4, PlacedFacts
    <3>6. /\ y.q = t /\ y.l.playing = w.l.playing /\ y.l.queued = w.l.queued
          /\ y.l.fine = w.l.fine /\ y.pc = w.pc
      BY <1>6, <3>2, <3>3, PlacedFields
    <3>7. v = y
      BY <3>1
    <3>. HIDE DEF y
    <3>8. Straight(y.q)
      BY <3>2, <3>6 DEF Straight
    <3>. QED  BY <1>6, <2>2, <3>2, <3>5, <3>6, <3>7, <3>8
  <2>3. CASE ~w.q.random
    <3>. DEFINE z == RestoreOrder(w.q)
    <3>1. v = [w EXCEPT !.q = z, !.l.current = p]
      BY <2>3
    <3>. HIDE DEF on, off, T, S
    <3>2. /\ Good(z) /\ Length(z) = Length(w.q) /\ z.items = w.q.items /\ z \in Queues
          /\ \A o \in Positions(w.q) : z.order[o] = o
      BY <1>6, RestoreOrderFacts, RestoreOrderSongs, QueueFacts
    <3>. HIDE DEF z
    <3>3. (w.l.playing => p # 0) /\ p \in Nat
      BY <1>7 DEF Positions
    <3>. DEFINE y == [w EXCEPT !.q = z, !.l.current = p]
    <3>4. Whole(y) /\ y.bulk = w.bulk
      <4>1. Whole(w) /\ Good(z) /\ Length(z) = Length(w.q) /\ p \in 0..Length(w.q) /\ (w.l.playing => p # 0)
        BY <1>6, <1>7, <3>2, <3>3
      <4>. QED  BY <4>1, PlacedFacts
    <3>5. /\ y.q = z /\ y.l.current = p /\ y.l.playing = w.l.playing /\ y.l.queued = w.l.queued
          /\ y.l.fine = w.l.fine /\ y.pc = w.pc
      BY <1>6, <3>2, <3>3, PlacedFields
    <3>6. v = y
      BY <3>1
    <3>. HIDE DEF y
    <3>7. Straight(y.q)
      BY <3>2, <3>5 DEF Straight, Positions
    <3>8. w.l.playing => z.order[p] = p
      BY <1>7, <3>2
    <3>. QED  BY <1>6, <3>2, <3>4, <3>5, <3>6, <3>7, <3>8
  <2>. QED  BY <2>1, <2>2, <2>3
<1>. HIDE DEF T
<1>9. PICK u \in S : queue' = u.q /\ list' = u.l /\ pc' = u.pc
  <2>. HIDE DEF S
  <2>. QED  BY <1>1, CommandFacts
<1>10. PICK v \in T : u \in UpdateQueuedSong(v, prev)
  BY <1>9
<1>. HIDE DEF S
<1>11. /\ Whole(v) /\ ~v.bulk /\ v.pc = x.pc /\ v.l.fine = x.l.fine
       /\ v.l.playing = x.l.playing /\ v.l.queued = x.l.queued
       /\ v.q.items = x.q.items /\ Straight(v.q)
       /\ x.l.playing => v.q.order[v.l.current] = x.q.order[x.l.current]
  BY <1>4, <1>6, <1>7, <1>8, <1>10
<1>12. Descends(x.q, v.q)
  BY <1>11, SameItemsDescend
<1>13. x.l.playing => Now(v.q, v.l) = Now(x.q, x.l)
  BY <1>11 DEF Now, AtOrder
<1>14. Synced(u)
  BY <1>2, <1>10, <1>11, <1>12, <1>13, RearrangedSynced DEF prev
<1>. QED  BY <1>9, <1>14, Arrival

\* After a start no assertion has failed, and the player has nothing to play.
LEMMA StartCalm ==
  ASSUME NEW w \in Worlds, ~w.bulk, NEW r, Good(r), Straight(r), NEW boot \in Nat
  PROVE  LET u == [Fresh(w, boot) EXCEPT !.q = r] IN
         u.l.fine /\ Calm(u.q, u.l, u.pc)
<1>. DEFINE l == [NewList EXCEPT !.boot = boot]
            t == [w EXCEPT !.l = l, !.pc = NewPlayer]
            v == Fresh(w, boot)
            b == t.q.single # "OFF" /\ ~t.q.repeat
            p == [t.pc EXCEPT !.border = b]
            u == [v EXCEPT !.q = r]
<1>1. l \in Lists /\ l.fine
  BY DEF NewList, Lists
<1>2. NewPlayer \in Players /\ NewPlayer.next = None
  BY DEF NewPlayer, Players
<1>3. v = SetBorderPause(t)
  BY DEF Fresh
<1>. HIDE DEF l, v
<1>4. t \in Worlds /\ t.l = l /\ t.pc = NewPlayer
  BY <1>1, <1>2 DEF Worlds
<1>5. v = [t EXCEPT !.pc = p]
  <2>. HIDE DEF t
  <2>. QED  BY <1>3, <1>4 DEF SetBorderPause, Worlds
<1>. HIDE DEF t
<1>6. p.next = None
  <2>. HIDE DEF b
  <2>. QED  BY <1>2, <1>4 DEF Players
<1>. HIDE DEF p
<1>7. v \in Worlds /\ v.l = l /\ v.pc = p
  <2>1. v \in Worlds /\ v.l = l
    BY <1>3, <1>4, SetBorderPauseFacts DEF Beside
  <2>2. v.pc = p
    BY <1>4, <1>5 DEF Worlds
  <2>. QED  BY <2>1, <2>2
<1>8. u.q = r /\ u.l = l /\ u.pc = p
  BY <1>7, OtherQueue DEF Good
<1>. HIDE DEF u
<1>9. u.l.fine /\ Calm(u.q, u.l, u.pc)
  BY <1>1, <1>6, <1>8 DEF Calm, Silent
<1>. QED  BY <1>9 DEF u, v

\* playlist_state_load(): the songs are in the order of the file.
LEMMA ReloadedStraight ==
  ASSUME NEW q, Good(q)
  PROVE  LET e == [Empty(1, 1) EXCEPT !.repeat = q.repeat, !.single = q.single,
                                      !.consume = q.consume, !.random = q.random]
         IN  Straight(Loaded(e, q.items)) /\ Loaded(e, q.items).random = q.random
<1>. DEFINE b == Empty(1, 1)
            e == [b EXCEPT !.repeat = q.repeat, !.single = q.single,
                           !.consume = q.consume, !.random = q.random]
<1>1. 1 \in 1..(MaxVersion - 1) /\ 1 \in Ids
  BY Sizes DEF Ids
<1>2. Good(b) /\ Length(b) = 0 /\ b \in Queues
  BY <1>1, EmptyFacts DEF Good
<1>. HIDE DEF b
<1>3. /\ q.repeat \in BOOLEAN /\ q.random \in BOOLEAN /\ q.single \in Modes /\ q.consume \in Modes
      /\ Length(q) \in 0..MaxLength
  BY QueueFacts DEF Queues
<1>4. /\ e \in Queues /\ e.items = b.items /\ e.order = b.order /\ e.table = b.table
      /\ e.random = q.random
  BY <1>2, <1>3 DEF Queues
<1>. HIDE DEF e
<1>5. Good(e) /\ Length(e) = 0
  BY <1>2, <1>4, ModeFacts
<1>6. Len(q.items) = Length(q)
  BY DEF Length
<1>7. \A n \in 1..Length(q) : /\ q.items[n].song \in Songs /\ q.items[n].priority \in Bytes
                              /\ q.items[n].tag \in BOOLEAN
  BY QueueFacts DEF Positions, Items
<1>8. Straight(Loaded(e, q.items)) /\ Loaded(e, q.items).random = q.random
  BY <1>3, <1>4, <1>5, <1>6, <1>7, LoadedSongs
<1>. QED  BY <1>8 DEF e, b

\* playlist_state_restore(): playback goes on at a position.
LEMMA ResumedSynced ==
  ASSUME NEW v, Whole(v), ~v.bulk, Calm(v.q, v.l, v.pc), NEW p \in Positions(v.q),
         NEW u \in Caught(PlayPositionOf(v, p)) \cup SeekSongOrder(v, PositionToOrder(v.q, p), FALSE)
  PROVE  Synced(u)
<1>1. v \in Worlds /\ Fits(v.q, v.l) /\ Good(v.q) /\ Straight(v.q) /\ v.l.fine
  BY DEF Whole, Half, Fits, Calm
<1>2. CASE u \in Caught(PlayPositionOf(v, p))
  <2>1. \A w \in PlayPositionOf(v, p) : Synced(w)
    BY <1>1, PlayPositionOfSynced
  <2>. QED  BY <1>2, <2>1, CaughtSynced
<1>3. CASE u \in SeekSongOrder(v, PositionToOrder(v.q, p), FALSE)
  <2>1. PositionToOrder(v.q, p) \in 1..Length(v.q)
    BY <1>1, PositionFacts DEF Positions
  <2>. QED  BY <1>1, <1>3, <2>1, SeekSongOrderSynced
<1>. QED  BY <1>2, <1>3

\* The end of the process, and the next start with the state file.
LEMMA RestartInTouch ==
  ASSUME Inv, InTouch, Restart
  PROVE  InTouch'
<1>. DEFINE x == World
            q == x.q
            new == Loaded([Empty(1, 1) EXCEPT !.repeat = q.repeat, !.single = q.single,
                                              !.consume = q.consume, !.random = q.random], q.items)
            w == Fresh(x, list.boot + 1)
            position == IF SavedPosition(x) = 0 THEN 1 ELSE SavedPosition(x)
            shuffled == IF q.random THEN ShuffleOrder(new) ELSE {new}
            restored == {[w EXCEPT !.q = r] : r \in shuffled}
            Resumed(v) ==
              Caught(PlayPositionOf(v, position)) \cup SeekSongOrder(v, PositionToOrder(v.q, position), FALSE)
            Paused(v) == UNION {PauseLocked(u) : u \in UNION {Enter(t) : t \in Resumed(v)}}
            S == CASE q.items = << >> -> restored
                   [] q.items # << >> /\ ~list.playing -> {[v EXCEPT !.l.current = position] : v \in restored}
                   [] q.items # << >> /\ list.playing /\ pc.state # "PAUSE" -> UNION {Resumed(v) : v \in restored}
                   [] OTHER -> UNION {Paused(v) : v \in restored}
<1>1. Command(S)
  BY Zenon DEF Restart, Fresh
<1>. HIDE DEF x
<1>2. /\ x \in Worlds /\ ~x.bulk /\ x.q = queue /\ x.l = list /\ Good(q) /\ Fits(queue, list)
      /\ Length(queue) \in Nat /\ list.boot + 1 \in Nat
  <2>1. list.boot \in Nat
    BY DEF Inv, Lists
  <2>. QED  BY <2>1, WorldFacts DEF x
<1>3. Good(new) /\ Length(new) = Length(queue) /\ Straight(new) /\ new.random = q.random
  BY <1>2, ReloadedFacts, ReloadedStraight
<1>. HIDE DEF new
<1>4. ASSUME NEW r \in shuffled PROVE Good(r) /\ Length(r) = Length(queue) /\ Straight(r)
  <2>1. CASE q.random
    <3>1. Good(r) /\ Length(r) = Length(queue) /\ r.random
      BY <1>3, <2>1, ShuffleOrderFacts
    <3>. QED  BY <3>1 DEF Straight
  <2>2. CASE ~q.random
    BY <1>3, <2>2
  <2>. QED  BY <2>1, <2>2
<1>. HIDE DEF shuffled
<1>5. ASSUME NEW v \in restored
      PROVE  /\ Whole(v) /\ Length(v.q) = Length(queue) /\ ~v.bulk /\ ~v.l.playing
             /\ Calm(v.q, v.l, v.pc)
  <2>1. PICK r \in shuffled : v = [w EXCEPT !.q = r]
    <3>. HIDE DEF w
    <3>. QED  OBVIOUS
  <2>2. Good(r) /\ Length(r) = Length(queue) /\ Straight(r)
    BY <1>4
  <2>3. LET u == [w EXCEPT !.q = r] IN
        Whole(u) /\ u.q = r /\ ~u.bulk /\ ~u.l.playing /\ u.l.current = 0
    BY <1>2, <2>2, StartFacts
  <2>4. LET u == [w EXCEPT !.q = r] IN u.l.fine /\ Calm(u.q, u.l, u.pc)
    BY <1>2, <2>2, StartCalm
  <2>. HIDE DEF w
  <2>. QED  BY <2>1, <2>2, <2>3, <2>4
<1>6. q.items # << >> => position \in 1..Length(queue)
  <2>1. SavedPosition(x) \in 0..Length(queue)
    BY <1>2, CurrentPositionFacts DEF SavedPosition, Fits
  <2>2. q.items \in Seq(Items)
    BY <1>2, QueueFacts DEF Queues
  <2>3. q.items # << >> => Length(queue) # 0
    BY <1>2, <2>2, EmptySeq DEF Length
  <2>. QED  BY <1>2, <2>1, <2>3
<1>. HIDE DEF restored, position, w
<1>7. PICK y \in S : queue' = y.q /\ list' = y.l /\ pc' = y.pc
  <2>. HIDE DEF S
  <2>. QED  BY <1>1, CommandFacts
<1>8. ASSUME NEW v \in restored, q.items # << >>, NEW t \in Resumed(v) PROVE Synced(t)
  <2>1. Whole(v) /\ ~v.bulk /\ Calm(v.q, v.l, v.pc) /\ position \in Positions(v.q)
    BY <1>5, <1>6, <1>8 DEF Positions
  <2>. QED  BY <1>8, <2>1, ResumedSynced
<1>. HIDE DEF Resumed
<1>9. Synced(y)
  <2>1. CASE q.items = << >>
    BY <1>5, <1>7, <2>1, IdleSynced
  <2>2. CASE q.items # << >> /\ ~list.playing
    <3>1. PICK v \in restored : y = [v EXCEPT !.l.current = position]
      BY <1>7, <2>2
    <3>2. /\ Whole(v) /\ Length(v.q) = Length(queue) /\ ~v.l.playing /\ v \in Worlds /\ v.l \in Lists
          /\ Calm(v.q, v.l, v.pc)
      BY <1>5, Parts DEF Whole, Half
    <3>3. position \in 0..Length(v.q) /\ position \in Nat
      BY <1>2, <1>6, <2>2, <3>2
    <3>. DEFINE m == [v.l EXCEPT !.current = position]
    <3>4. y = [v EXCEPT !.l = m]
      BY <3>1, <3>2 DEF Worlds
    <3>5. m \in Lists /\ m.current = position /\ ~m.playing /\ m.fine = v.l.fine
      BY <3>2, <3>3 DEF Lists
    <3>. HIDE DEF m
    <3>6. y \in Worlds /\ y.q = v.q /\ y.l = m /\ y.pc = v.pc
      BY <3>2, <3>4, <3>5, OtherList
    <3>7. Whole(y) /\ ~y.l.playing
      BY <3>2, <3>3, <3>5, <3>6 DEF Whole, Half, Fits, Listed
    <3>8. Calm(y.q, y.l, y.pc)
      BY <3>2, <3>5, <3>6 DEF Calm
    <3>. QED  BY <3>7, <3>8, IdleSynced
  <2>3. CASE q.items # << >> /\ list.playing /\ pc.state # "PAUSE"
    <3>1. PICK v \in restored : y \in Resumed(v)
      BY <1>7, <2>3
    <3>. QED  BY <1>8, <2>3, <3>1
  <2>4. CASE q.items # << >> /\ list.playing /\ pc.state = "PAUSE"
    <3>1. PICK v \in restored : y \in Paused(v)
      <4>. HIDE DEF Paused
      <4>. QED  BY <1>7, <2>4
    <3>2. PICK t \in Resumed(v) : \E u \in Enter(t) : y \in PauseLocked(u)
      BY <3>1
    <3>3. Synced(t)
      BY <1>8, <2>4, <3>2
    <3>. QED  BY <3>2, <3>3, EnterSynced, PauseLockedSynced
  <2>. QED  BY <2>1, <2>2, <2>3, <2>4
<1>. HIDE DEF S
<1>. QED  BY <1>7, <1>9, Arrival

\* After the first start nothing is played.
LEMMA InitInTouch ==
  ASSUME Init
  PROVE  InTouch
<1>1. PICK songs \in Saved, base \in {Empty(1, 1), Empty(MaxVersion - 3, IdSize - 1)} :
         /\ queue = Loaded(base, [n \in DOMAIN songs |->
                                   [song |-> songs[n], priority |-> 0, tag |-> FALSE]])
         /\ list = [NewList EXCEPT !.current = IF songs = << >> THEN 0 ELSE 1]
  BY DEF Init
<1>2. Good(base) /\ Length(base) = 0
  <2>1. 1 \in 1..(MaxVersion - 1) /\ 1 \in Ids /\ MaxVersion - 3 \in 1..(MaxVersion - 1) /\ IdSize - 1 \in Ids
    BY Sizes, PlaylistAssumption DEF Ids
  <2>. QED  BY <1>1, <2>1, EmptyFacts
<1>. DEFINE N == Len(songs)
            items == [n \in DOMAIN songs |-> [song |-> songs[n], priority |-> 0, tag |-> FALSE]]
<1>3. songs \in Seq(Songs) /\ N \in 0..MaxLength /\ DOMAIN songs = 1..N
  <2>1. songs \in Seq(Songs) /\ N <= MaxLength
    BY PlaylistAssumption
  <2>. QED  BY <2>1, Sizes, LenProperties, EmptySeq
<1>4. \A n \in 1..N : songs[n] \in Songs
  BY <1>3, ElementOfSeq
<1>5. /\ Len(items) = N
      /\ \A n \in 1..N : /\ items[n].song \in Songs /\ items[n].priority \in Bytes
                         /\ items[n].tag \in BOOLEAN
  <2>1. 0 \in Bytes
    BY DEF Bytes
  <2>. DEFINE R == [song : Songs, priority : Bytes, tag : BOOLEAN]
  <2>2. items \in [1..N -> R]
    BY <1>3, <1>4, <2>1
  <2>. HIDE DEF items, R
  <2>3. Len(items) = N
    BY <1>3, <2>2, ListOf
  <2>4. \A n \in 1..N : items[n] \in R
    BY <2>2
  <2>5. \A i \in R : i.song \in Songs /\ i.priority \in Bytes /\ i.tag \in BOOLEAN
    BY DEF R
  <2>. QED  BY <2>3, <2>4, <2>5
<1>6. queue = Loaded(base, items)
  BY <1>1
<1>. HIDE DEF items, N
<1>7. Straight(queue)
  BY <1>2, <1>3, <1>5, <1>6, LoadedSongs
<1>8. ~list.playing /\ list.fine
  BY <1>1 DEF NewList
<1>9. Silent(pc)
  BY DEF Init, NewPlayer, Silent
<1>. QED  BY <1>7, <1>8, <1>9 DEF InTouch, Attuned, Calm, Tuned, NotItself

\* Every command that edits the queue keeps the playlist in step,
LEMMA EditingInTouch ==
  ASSUME Cautious, Inv, InTouch, Editing
  PROVE  InTouch'
<1>1. ASSUME NEW a \in Songs, Add(a) \/ StaleSong(a) \/ \E b \in Songs : AddTwo(a, b)
      PROVE  InTouch'
  BY <1>1, AddInTouch, StaleSongInTouch, AddTwoInTouch
<1>2. CASE ClearQueue
  BY <1>2, ClearQueueInTouch
<1>3. ASSUME NEW start \in Positions(queue), NEW end \in start + 1 .. Length(queue) + 1,
             \/ DeleteRange(start, end)
             \/ end > start + 1 /\ Shuffle(start, end)
             \/ \E to \in Positions(queue) : MoveSongs(start, end, to)
             \/ \E priority \in Priorities : SetPriorities(start, end, priority)
      PROVE  InTouch'
  <2>1. CASE DeleteRange(start, end)
    BY <2>1, DeleteRangeInTouch
  <2>2. CASE Shuffle(start, end)
    BY <2>2, ShuffleInTouch
  <2>3. ASSUME NEW to \in Positions(queue), MoveSongs(start, end, to) PROVE InTouch'
    BY <2>3, MoveSongsInTouch
  <2>4. ASSUME NEW priority \in Priorities, SetPriorities(start, end, priority) PROVE InTouch'
    BY <2>4, SetPrioritiesInTouch
  <2>. QED  BY <1>3, <2>1, <2>2, <2>3, <2>4
<1>4. ASSUME NEW a \in Positions(queue), NEW b \in Positions(queue), Swap(a, b) PROVE InTouch'
  BY <1>4, SwapInTouch
<1>5. ASSUME NEW p \in Positions(queue), EditTag(p) \/ SetSongIdRange(p) PROVE InTouch'
  BY <1>5, EditTagInTouch, SetSongIdRangeInTouch
<1>6. ASSUME NEW changed \in SUBSET Songs, DatabaseModified(changed) PROVE InTouch'
  BY <1>6, DatabaseModifiedInTouch
<1>. QED  BY <1>1, <1>2, <1>3, <1>4, <1>5, <1>6 DEF Editing

\* and so does every command that controls playback.
LEMMA ControlInTouch ==
  ASSUME Cautious, Inv, InTouch, Control
  PROVE  InTouch'
<1>1. ASSUME NEW p \in Positions(queue), PlayPosition(p) \/ \E zero \in BOOLEAN : SeekSong(p, zero)
      PROVE  InTouch'
  BY <1>1, PlayPositionInTouch, SeekSongInTouch
<1>2. CASE PlayAny \/ PlayNext \/ PlayPrevious
  BY <1>2, PlayAnyInTouch, PlayNextInTouch, PlayPreviousInTouch
<1>3. CASE Stop \/ Pause \/ Restart
  BY <1>3, StopInTouch, PauseInTouch, RestartInTouch
<1>4. CASE SetRepeat \/ SetRandom
  BY <1>4, SetRepeatInTouch, SetRandomInTouch
<1>5. ASSUME NEW mode \in Modes, SetSingle(mode) \/ SetConsume(mode) PROVE InTouch'
  BY <1>5, SetSingleInTouch, SetConsumeInTouch
<1>. QED  BY <1>1, <1>2, <1>3, <1>4, <1>5 DEF Control

\* As long as clients keep away from the three situations of Cautious, no command
\* and no event of the player thread makes the playlist lose track of the player.
THEOREM StaysInTouch == Cautious => (Spec => []InTouch)
<1>. SUFFICES ASSUME Cautious PROVE Spec => []InTouch
  OBVIOUS
<1>1. Init => InTouch
  BY InitInTouch
<1>2. Inv /\ InTouch /\ [Next]_vars => InTouch'
  <2>1. ASSUME Inv, InTouch, Next PROVE InTouch'
    BY <2>1, PlayerThreadInTouch, SyncWithPlayerInTouch, BorderPauseInTouch, TagModifiedInTouch,
       EditingInTouch, ControlInTouch DEF Next
  <2>2. ASSUME Inv, InTouch, UNCHANGED vars PROVE InTouch'
    <3>1. Attuned(queue', list', pc')
      BY <2>2 DEF InTouch, vars
    <3>. QED  BY <3>1 DEF InTouch
  <2>. QED  BY <2>1, <2>2
<1>. QED  BY <1>1, <1>2, Invariance, PTL DEF Spec

\* The song the playlist takes for the current one is the one that is played, and
\* the song it has queued is the player's next one, whatever clients and the player
\* thread do at the same time.
THEOREM StaysInStep == Cautious => (Spec => []InStep)
<1>. SUFFICES ASSUME Cautious PROVE Spec => []InStep
  OBVIOUS
<1>1. Inv /\ InTouch => InStep
  <2>. SUFFICES ASSUME Inv, InTouch, list.playing
                PROVE  /\ list.current \in Positions(queue)
                       /\ pc.state # "STOP" =>
                            \/ /\ pc.song = AtOrder(queue, list.current).song
                               /\ IF list.queued = 0 THEN pc.next = None
                                  ELSE /\ list.queued \in Positions(queue)
                                       /\ pc.next = AtOrder(queue, list.queued).song
                            \/ /\ list.queued \in Positions(queue) /\ pc.sync
                               /\ pc.song = AtOrder(queue, list.queued).song /\ pc.next = None
    BY DEF InStep
  <2>1. /\ list.current \in Positions(queue)
        /\ list.queued # 0 => list.queued \in Positions(queue)
        /\ Good(queue)
    BY WorldFacts DEF Inv, Fits, Listed, Positions
  <2>. DEFINE prev == QueuedId(queue, list)
  <2>2. PICK s \in Songs \cup {None} :
          ((prev = 0) <=> (s = None)) /\ Knows(queue, prev, s) /\ InTune(pc, Now(queue, list), s)
    BY DEF InTouch, Attuned, Tuned
  <2>3. (list.queued = 0) <=> (prev = 0)
    BY DEF InTouch, Attuned, Tuned
  <2>4. list.queued # 0 => s = AtOrder(queue, list.queued).song
    <3>. SUFFICES ASSUME list.queued # 0 PROVE s = AtOrder(queue, list.queued).song
      OBVIOUS
    <3>1. prev = AtOrder(queue, list.queued).id
      BY DEF QueuedId
    <3>2. queue.order[list.queued] \in Positions(queue)
      BY <2>1, QueueFacts
    <3>. HIDE DEF prev
    <3>. QED  BY <2>2, <3>1, <3>2 DEF Knows, AtOrder
  <2>. HIDE DEF prev
  <2>. QED  BY <2>1, <2>2, <2>3, <2>4 DEF InTune, Follows, Now
<1>. QED  BY <1>1, Invariance, StaysInTouch, PTL

\* No assert() of the playlist or of PlayerControl fails: no song is queued while the
\* player still has one, UpdateQueuedSong() finds "queued" set if and only if a song
\* was queued, and a song that starts is one of the queue.
THEOREM AssertionsNeverFail == Cautious => (Spec => []Sound)
<1>. SUFFICES ASSUME Cautious PROVE Spec => []Sound
  OBVIOUS
<1>1. InTouch => AssertionsHold
  BY DEF InTouch, Attuned, Calm, AssertionsHold
<1>2. TypeOK /\ AssertionsHold => Sound
  BY DEF Sound
<1>. QED  BY <1>1, <1>2, TypeCorrect, StaysInTouch, PTL
=============================================================================
