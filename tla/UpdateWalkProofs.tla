--------------------------- MODULE UpdateWalkProofs ---------------------------
(***************************************************************************)
(* TLAPS proofs about UpdateWalk.tla, for every tree of paths, every       *)
(* sequence of changes and every number of updates and processes.  Each    *)
(* operator that changes the database has a lemma that says what it        *)
(* leaves at a node, below it and elsewhere; the actions follow from them. *)
(***************************************************************************)
EXTENDS UpdateWalk, SequenceTheorems, TLAPS

----------------------------------------------------------------------------
(***************************************************************************)
(* The tree of paths.  Ancestors is defined by recursion along Parent; its *)
(* equation is derived from TreeAssumption.                                *)
(***************************************************************************)

\* A set of paths that holds, with each path, the directory it is in.
Up(S) == \A k \in S : Parent[k] \in S \cup {Root}

\* The directories above a node, without recursion: what every such set has in common.
Above == [n \in Nodes |-> {m \in Nodes : \A S \in SUBSET Nodes :
                              Up(S) /\ Parent[n] \in S \cup {Root} => m \in S}]

\* This satisfies the equation that defines Ancestors.
LEMMA AboveUnfolds ==
  ASSUME NEW n \in Nodes
  PROVE  Above[n] = IF Parent[n] = Root THEN {} ELSE {Parent[n]} \cup Above[Parent[n]]
<1>1. CASE Parent[n] = Root
  <2>1. ASSUME NEW m \in Above[n] PROVE FALSE
    <3>1. Up({}) /\ {} \in SUBSET Nodes /\ Parent[n] \in {} \cup {Root}
      BY <1>1 DEF Up
    <3>. QED  BY <3>1, <2>1 DEF Above
  <2>. QED  BY <1>1, <2>1
<1>2. CASE Parent[n] # Root
  <2>. DEFINE p == Parent[n]
  <2>0. p \in Nodes
    BY <1>2, TreeAssumption
  <2>1. ASSUME NEW m \in {p} \cup Above[p] PROVE m \in Above[n]
    <3>1. m \in Nodes
      BY <2>0, <2>1 DEF Above
    <3>2. ASSUME NEW S \in SUBSET Nodes, Up(S), p \in S \cup {Root} PROVE m \in S
      <4>1. p \in S
        BY <3>2, <2>0, TreeAssumption
      <4>2. Parent[p] \in S \cup {Root}
        BY <3>2, <4>1 DEF Up
      <4>. QED  BY <2>0, <2>1, <3>2, <4>1, <4>2 DEF Above
    <3>. QED  BY <3>1, <3>2 DEF Above
  <2>2. ASSUME NEW m \in Above[n] PROVE m \in {p} \cup Above[p]
    <3>. DEFINE T == {p} \cup Above[p]
    <3>1. T \in SUBSET Nodes
      BY <2>0 DEF Above
    <3>2. ASSUME NEW k \in T PROVE Parent[k] \in T \cup {Root}
      <4>1. k \in Nodes
        BY <3>1
      <4>2. CASE k = p
        <5>1. CASE Parent[p] = Root
          BY <4>2, <5>1
        <5>2. CASE Parent[p] # Root
          <6>1. Parent[p] \in Nodes
            BY <2>0, <5>2, TreeAssumption
          <6>2. Parent[p] \in Above[p]
            BY <2>0, <6>1, TreeAssumption DEF Above
          <6>. QED  BY <4>2, <6>2
        <5>. QED  BY <5>1, <5>2
      <4>3. CASE k \in Above[p]
        <5>1. CASE Parent[k] = Root
          BY <5>1
        <5>2. CASE Parent[k] # Root
          <6>1. Parent[k] \in Nodes
            BY <4>1, <5>2, TreeAssumption
          <6>2. ASSUME NEW S \in SUBSET Nodes, Up(S), Parent[p] \in S \cup {Root}
                PROVE  Parent[k] \in S
            BY <6>2, <6>1, <4>3, <2>0, TreeAssumption DEF Above, Up
          <6>3. Parent[k] \in Above[p]
            BY <6>1, <6>2, <2>0 DEF Above
          <6>. QED  BY <6>3
        <5>. QED  BY <5>1, <5>2
      <4>. QED  BY <4>2, <4>3
    <3>3. Up(T) /\ p \in T \cup {Root}
      BY <3>2 DEF Up
    <3>. QED  BY <3>1, <3>3, <2>2 DEF Above
  <2>. QED  BY <1>2, <2>1, <2>2
<1>. QED  BY <1>1, <1>2

\* So there is a function that does, and Ancestors is one.
LEMMA AncestorsEquation ==
  Ancestors = [n \in Nodes |->
    IF Parent[n] = Root THEN {} ELSE {Parent[n]} \cup Ancestors[Parent[n]]]
<1>. DEFINE Eq(f) == f = [n \in Nodes |->
              IF Parent[n] = Root THEN {} ELSE {Parent[n]} \cup f[Parent[n]]]
<1>1. Eq(Above)
  <2>1. Above = [n \in Nodes |-> Above[n]]
    BY DEF Above
  <2>. QED  BY <2>1, AboveUnfolds
<1>2. Ancestors = CHOOSE f : Eq(f)
  BY DEF Ancestors
<1>. HIDE DEF Eq
<1>3. Eq(Ancestors)
  BY <1>1, <1>2
<1>. QED  BY <1>3 DEF Eq

\* The equation, at one node.
LEMMA AncestorsUnfold ==
  ASSUME NEW n \in Nodes
  PROVE  Ancestors[n] = IF Parent[n] = Root THEN {} ELSE {Parent[n]} \cup Ancestors[Parent[n]]
  BY AncestorsEquation

\* The directories above a node are nodes.
LEMMA AncestorsAreNodes ==
  \A n \in Nodes : Ancestors[n] \in SUBSET Nodes
<1>. DEFINE B == {n \in Nodes : ~(Ancestors[n] \in SUBSET Nodes)}
<1>1. ASSUME B # {} PROVE FALSE
  <2>1. PICK n \in B : Parent[n] \notin B
    BY <1>1, TreeAssumption
  <2>2. Ancestors[n] = IF Parent[n] = Root THEN {} ELSE {Parent[n]} \cup Ancestors[Parent[n]]
    BY AncestorsUnfold
  <2>3. Parent[n] \in Nodes \cup {Root}
    BY TreeAssumption
  <2>. QED  BY <2>1, <2>2, <2>3
<1>. QED  BY <1>1

\* What is above a directory is above what the directory holds.
LEMMA AncestorsTransitive ==
  ASSUME NEW n \in Nodes, NEW m \in Ancestors[n], NEW k \in Ancestors[m]
  PROVE  k \in Ancestors[n]
<1>. DEFINE B == {x \in Nodes : ~ \A y \in Ancestors[x] : Ancestors[y] \subseteq Ancestors[x]}
<1>1. ASSUME B # {} PROVE FALSE
  <2>1. PICK x \in B : Parent[x] \notin B
    BY <1>1, TreeAssumption
  <2>2. Ancestors[x] = IF Parent[x] = Root THEN {} ELSE {Parent[x]} \cup Ancestors[Parent[x]]
    BY AncestorsUnfold
  <2>3. Parent[x] \in Nodes \cup {Root}
    BY TreeAssumption
  <2>. QED  BY <2>1, <2>2, <2>3
<1>. QED  BY <1>1

\* Nothing is above itself.
LEMMA AncestorsAcyclic ==
  \A n \in Nodes : n \notin Ancestors[n]
<1>. DEFINE B == {n \in Nodes : n \in Ancestors[n]}
<1>1. ASSUME B # {} PROVE FALSE
  <2>1. PICK n \in B : Parent[n] \notin B
    BY <1>1, TreeAssumption
  <2>. DEFINE p == Parent[n]
  <2>0. Ancestors[n] = IF p = Root THEN {} ELSE {p} \cup Ancestors[p]
    BY AncestorsUnfold
  <2>2. p # Root /\ p \in Nodes /\ p \in Ancestors[n] /\ n \in {p} \cup Ancestors[p]
    BY <2>0, <2>1, TreeAssumption
  <2>3. p \in Ancestors[p]
    BY <2>1, <2>2, AncestorsTransitive
  <2>. QED  BY <2>1, <2>2, <2>3
<1>. QED  BY <1>1

\* d is above n, or the music directory.
Over(d, n) == d = Root \/ d \in Ancestors[n]

\* The parent of a node is above it.
LEMMA ParentIsOver ==
  ASSUME NEW n \in Nodes
  PROVE  Over(Parent[n], n)
  BY AncestorsUnfold, TreeAssumption DEF Over

\* Between a node and a directory above it there is a child of the directory.
LEMMA ChildOnTheWay ==
  ASSUME NEW D \in Nodes \cup {Root}, NEW n \in Nodes, Over(D, n)
  PROVE  \E c \in Children(D) : n = c \/ c \in Ancestors[n]
<1>. DEFINE B == {x \in Nodes : Over(D, x) /\ ~ \E c \in Children(D) : x = c \/ c \in Ancestors[x]}
<1>1. ASSUME B # {} PROVE FALSE
  <2>1. PICK x \in B : Parent[x] \notin B
    BY <1>1, TreeAssumption
  <2>2. Ancestors[x] = IF Parent[x] = Root THEN {} ELSE {Parent[x]} \cup Ancestors[Parent[x]]
    BY AncestorsUnfold
  <2>3. Parent[x] # D
    BY <2>1 DEF Children
  <2>4. Parent[x] \in Nodes
    <3>1. CASE Parent[x] = Root
      BY <2>1, <2>2, <2>3, <3>1 DEF Over
    <3>. QED  BY <3>1, TreeAssumption
  <2>5. Over(D, Parent[x])
    BY <2>1, <2>2, <2>3, <2>4, TreeAssumption DEF Over
  <2>6. PICK c \in Children(D) : Parent[x] = c \/ c \in Ancestors[Parent[x]]
    BY <2>1, <2>4, <2>5
  <2>7. c \in Ancestors[x]
    BY <2>2, <2>4, <2>6, TreeAssumption
  <2>. QED  BY <2>1, <2>6, <2>7
<1>. QED  BY <1>1

\* The parent of a node below S is at or below S.
LEMMA SubtreeFacts ==
  ASSUME NEW D \in Nodes \cup {Root}, NEW S \in SUBSET Children(D)
  PROVE  /\ Subtree(S) \in SUBSET Nodes /\ S \subseteq Subtree(S)
         /\ D \notin Subtree(S)
         /\ D \in Nodes => Ancestors[D] \cap Subtree(S) = {}
         /\ \A n \in Nodes : Parent[n] \in Subtree(S) <=> n \in Subtree(S) \ S
         /\ \A n \in S : Parent[n] = D
<1>0. S \subseteq Nodes /\ \A n \in S : Parent[n] = D
  BY DEF Children
<1>1. \A n \in Nodes : n \in Subtree(S) <=> n \in S \/ \E s \in S : s \in Ancestors[n]
  BY <1>0 DEF Subtree
<1>2. Subtree(S) \in SUBSET Nodes /\ S \subseteq Subtree(S)
  BY <1>0 DEF Subtree
<1>3. ASSUME D \in Nodes, NEW s \in S, D = s \/ s \in Ancestors[D]
      PROVE  FALSE
  <2>1. s \in Nodes /\ Parent[s] = D /\ D # Root
    BY <1>0, <1>3, TreeAssumption
  <2>2. D \in Ancestors[s]
    BY <2>1, AncestorsUnfold
  <2>3. s \in Ancestors[s]
    BY <1>3, <2>1, <2>2, AncestorsTransitive
  <2>. QED  BY <2>1, <2>3, AncestorsAcyclic
<1>4. D \notin Subtree(S)
  BY <1>1, <1>2, <1>3, TreeAssumption
<1>5. ASSUME D \in Nodes, NEW m \in Ancestors[D], m \in Subtree(S) PROVE FALSE
  <2>1. m \in Nodes
    BY <1>5, AncestorsAreNodes
  <2>2. PICK s \in S : m = s \/ s \in Ancestors[m]
    BY <1>1, <1>5, <2>1
  <2>3. s \in Ancestors[D]
    BY <1>5, <2>2, AncestorsTransitive
  <2>. QED  BY <1>3, <1>5, <2>3
<1>6. ASSUME NEW n \in Nodes, Parent[n] \in Subtree(S)
      PROVE  n \in Subtree(S) \ S
  <2>1. Parent[n] \in Nodes /\ Parent[n] # Root
    BY <1>2, <1>6, TreeAssumption
  <2>2. PICK s \in S : Parent[n] = s \/ s \in Ancestors[Parent[n]]
    BY <1>1, <1>6, <2>1
  <2>3. s \in Ancestors[n]
    BY <2>1, <2>2, AncestorsUnfold
  <2>4. n \notin S
    BY <1>0, <1>4, <1>6
  <2>. QED  BY <1>1, <2>3, <2>4
<1>7. ASSUME NEW n \in Nodes, n \in Subtree(S) \ S
      PROVE  Parent[n] \in Subtree(S)
  <2>1. PICK s \in S : s \in Ancestors[n]
    BY <1>1, <1>7
  <2>2. Parent[n] # Root /\ Parent[n] \in Nodes /\ (Parent[n] = s \/ s \in Ancestors[Parent[n]])
    BY <2>1, AncestorsUnfold, TreeAssumption
  <2>. QED  BY <1>1, <2>2
<1>. QED  BY <1>0, <1>2, <1>4, <1>5, <1>6, <1>7

----------------------------------------------------------------------------
(**************************************************************************)
(* The database as three partial functions.                                *)
(**************************************************************************)

\* The functions on some of the nodes: one of the three lists of the database.
Partial(V) == UNION {[S -> V] : S \in SUBSET Nodes}

\* The databases, as a set.
Databases == [songs : Partial(Song), dirs : Partial(Directory), lists : Partial(Playlist)]

\* Whatever is listed has its parent directory.
Tree(d) ==
  \A n \in DOMAIN d.songs \cup DOMAIN d.dirs \cup DOMAIN d.lists :
    Parent[n] # Root => Parent[n] \in DOMAIN d.dirs

\* What it takes to be one of these functions.
LEMMA PartialFacts ==
  ASSUME NEW V, NEW f
  PROVE  f \in Partial(V) <=> /\ f = [n \in DOMAIN f |-> f[n]]
                              /\ DOMAIN f \subseteq Nodes
                              /\ \A n \in DOMAIN f : f[n] \in V
<1>1. ASSUME f \in Partial(V)
      PROVE  /\ f = [n \in DOMAIN f |-> f[n]] /\ DOMAIN f \subseteq Nodes
             /\ \A n \in DOMAIN f : f[n] \in V
  <2>1. PICK S \in SUBSET Nodes : f \in [S -> V]
    BY <1>1 DEF Partial
  <2>. QED  BY <2>1
<1>2. ASSUME f = [n \in DOMAIN f |-> f[n]], DOMAIN f \subseteq Nodes,
             \A n \in DOMAIN f : f[n] \in V
      PROVE  f \in Partial(V)
  <2>1. f \in [DOMAIN f -> V]
    BY <1>2
  <2>. QED  BY <1>2, <2>1 DEF Partial
<1>. QED  BY <1>1, <1>2

\* Taking nodes out of a list.
LEMMA WithoutFacts ==
  ASSUME NEW V, NEW f \in Partial(V), NEW S
  PROVE  /\ Without(f, S) \in Partial(V)
         /\ DOMAIN Without(f, S) = DOMAIN f \ S
         /\ \A n \in DOMAIN f \ S : Without(f, S)[n] = f[n]
<1>. DEFINE g == Without(f, S)
<1>1. g = [n \in DOMAIN f \ S |-> f[n]]
  BY DEF Without, Restrict
<1>2. /\ DOMAIN f \subseteq Nodes /\ \A n \in DOMAIN f : f[n] \in V
  BY PartialFacts
<1>3. /\ DOMAIN g = DOMAIN f \ S /\ \A n \in DOMAIN f \ S : g[n] = f[n]
      /\ g = [n \in DOMAIN g |-> g[n]]
  BY <1>1
<1>. HIDE DEF g
<1>4. g \in Partial(V)
  BY <1>2, <1>3, PartialFacts
<1>. QED  BY <1>3, <1>4 DEF g

\* Putting a node into a list.
LEMMA WithFacts ==
  ASSUME NEW V, NEW f \in Partial(V), NEW n \in Nodes, NEW v \in V
  PROVE  /\ With(f, n, v) \in Partial(V)
         /\ DOMAIN With(f, n, v) = DOMAIN f \cup {n}
         /\ With(f, n, v)[n] = v
         /\ \A m \in DOMAIN f \ {n} : With(f, n, v)[m] = f[m]
<1>. DEFINE g == With(f, n, v)
<1>1. g = [m \in DOMAIN f \cup {n} |-> IF m = n THEN v ELSE f[m]]
  BY DEF With
<1>2. /\ DOMAIN f \subseteq Nodes /\ \A m \in DOMAIN f : f[m] \in V
  BY PartialFacts
<1>3. /\ DOMAIN g = DOMAIN f \cup {n} /\ g[n] = v
      /\ \A m \in DOMAIN f \ {n} : g[m] = f[m]
      /\ g = [m \in DOMAIN g |-> g[m]]
  BY <1>1
<1>. HIDE DEF g
<1>4. g \in Partial(V)
  BY <1>2, <1>3, PartialFacts
<1>. QED  BY <1>3, <1>4 DEF g

\* Setting the mark of an item.
LEMMA MarkFacts ==
  ASSUME NEW V, NEW f \in Partial(V), NEW n \in DOMAIN f,
         \A v \in V : [v EXCEPT !.mark = TRUE] \in V
  PROVE  /\ Mark(f, n) \in Partial(V)
         /\ DOMAIN Mark(f, n) = DOMAIN f
         /\ Mark(f, n)[n] = [f[n] EXCEPT !.mark = TRUE]
         /\ \A m \in DOMAIN f \ {n} : Mark(f, n)[m] = f[m]
<1>. DEFINE g == Mark(f, n)
            v == [f[n] EXCEPT !.mark = TRUE]
<1>0. /\ f = [m \in DOMAIN f |-> f[m]]
      /\ DOMAIN f \subseteq Nodes /\ \A m \in DOMAIN f : f[m] \in V
  BY PartialFacts
<1>1. g = [f EXCEPT ![n] = v]
  BY DEF Mark
<1>2. v \in V
  BY <1>0
<1>. HIDE DEF v
<1>3. /\ DOMAIN g = DOMAIN f /\ g[n] = v
      /\ \A m \in DOMAIN f \ {n} : g[m] = f[m]
      /\ g = [m \in DOMAIN g |-> g[m]]
  BY <1>0, <1>1
<1>. HIDE DEF g
<1>4. g \in Partial(V)
  BY <1>0, <1>2, <1>3, PartialFacts
<1>. QED  BY <1>3, <1>4 DEF g, v

\* The list without items.
LEMMA EmptyIsPartial ==
  ASSUME NEW V
  PROVE  << >> \in Partial(V) /\ DOMAIN << >> = {}
<1>1. << >> = [n \in {} |-> n] /\ DOMAIN << >> = {}
  OBVIOUS
<1>. QED  BY <1>1, PartialFacts

\* The three lists of a database.
LEMMA Fields ==
  ASSUME NEW d \in Databases
  PROVE  /\ d.songs \in Partial(Song) /\ d.dirs \in Partial(Directory)
         /\ d.lists \in Partial(Playlist)
         /\ DOMAIN d.songs \subseteq Nodes /\ DOMAIN d.dirs \subseteq Nodes
         /\ DOMAIN d.lists \subseteq Nodes
         /\ \A n \in DOMAIN d.songs : d.songs[n] \in Song
         /\ \A n \in DOMAIN d.dirs : d.dirs[n] \in Directory
         /\ \A n \in DOMAIN d.lists : d.lists[n] \in Playlist
<1>1. /\ d.songs \in Partial(Song) /\ d.dirs \in Partial(Directory)
      /\ d.lists \in Partial(Playlist)
  BY DEF Databases
<1>. QED  BY <1>1, PartialFacts

\* Three lists make a database.
LEMMA FromFields ==
  ASSUME NEW s \in Partial(Song), NEW c \in Partial(Directory), NEW l \in Partial(Playlist)
  PROVE  [songs |-> s, dirs |-> c, lists |-> l] \in Databases
  BY DEF Databases

\* A database with one of its lists replaced.
LEMMA Updates ==
  ASSUME NEW d \in Databases, NEW s, NEW c, NEW l
  PROVE  /\ [d EXCEPT !.songs = s] = [songs |-> s, dirs |-> d.dirs, lists |-> d.lists]
         /\ [d EXCEPT !.dirs = c] = [songs |-> d.songs, dirs |-> c, lists |-> d.lists]
         /\ [d EXCEPT !.lists = l] = [songs |-> d.songs, dirs |-> d.dirs, lists |-> l]
  BY DEF Databases

\* An item keeps its type when its mark changes.
LEMMA MarkedTypes ==
  /\ \A v \in Song : /\ [v EXCEPT !.mark = TRUE] \in Song /\ [v EXCEPT !.mark = FALSE] \in Song
  /\ \A v \in Directory : /\ [v EXCEPT !.mark = TRUE] \in Directory
                          /\ [v EXCEPT !.mark = FALSE] \in Directory
  /\ \A v \in Playlist : /\ [v EXCEPT !.mark = TRUE] \in Playlist
                         /\ [v EXCEPT !.mark = FALSE] \in Playlist
  BY DEF Song, Directory, Playlist

\* WithoutFacts for the songs.
LEMMA WithoutSongs ==
  ASSUME NEW d, d.songs \in Partial(Song), NEW S
  PROVE  /\ Without(d.songs, S) \in Partial(Song)
         /\ DOMAIN Without(d.songs, S) = DOMAIN d.songs \ S
         /\ \A m \in DOMAIN d.songs \ S : Without(d.songs, S)[m] = d.songs[m]
  BY WithoutFacts, ZenonT(60)

\* WithoutFacts for the directories.
LEMMA WithoutDirs ==
  ASSUME NEW d, d.dirs \in Partial(Directory), NEW S
  PROVE  /\ Without(d.dirs, S) \in Partial(Directory)
         /\ DOMAIN Without(d.dirs, S) = DOMAIN d.dirs \ S
         /\ \A m \in DOMAIN d.dirs \ S : Without(d.dirs, S)[m] = d.dirs[m]
  BY WithoutFacts, ZenonT(60)

\* WithoutFacts for the playlists.
LEMMA WithoutLists ==
  ASSUME NEW d, d.lists \in Partial(Playlist), NEW S
  PROVE  /\ Without(d.lists, S) \in Partial(Playlist)
         /\ DOMAIN Without(d.lists, S) = DOMAIN d.lists \ S
         /\ \A m \in DOMAIN d.lists \ S : Without(d.lists, S)[m] = d.lists[m]
  BY WithoutFacts, ZenonT(60)

\* WithFacts for the songs.
LEMMA WithSongs ==
  ASSUME NEW f \in Partial(Song), NEW n \in Nodes, NEW v \in Song
  PROVE  /\ With(f, n, v) \in Partial(Song)
         /\ DOMAIN With(f, n, v) = DOMAIN f \cup {n}
         /\ With(f, n, v)[n] = v
         /\ \A m \in DOMAIN f \ {n} : With(f, n, v)[m] = f[m]
  BY WithFacts

\* MarkFacts for the songs.
LEMMA MarkSongs ==
  ASSUME NEW f \in Partial(Song), NEW n \in DOMAIN f
  PROVE  /\ Mark(f, n) \in Partial(Song)
         /\ DOMAIN Mark(f, n) = DOMAIN f
         /\ Mark(f, n)[n] = [f[n] EXCEPT !.mark = TRUE]
         /\ \A m \in DOMAIN f \ {n} : Mark(f, n)[m] = f[m]
<1>1. \A v \in Song : [v EXCEPT !.mark = TRUE] \in Song
  BY MarkedTypes
<1>. QED  BY <1>1, MarkFacts

\* WithFacts for the directories.
LEMMA WithDirs ==
  ASSUME NEW f \in Partial(Directory), NEW n \in Nodes, NEW v \in Directory
  PROVE  /\ With(f, n, v) \in Partial(Directory)
         /\ DOMAIN With(f, n, v) = DOMAIN f \cup {n}
         /\ With(f, n, v)[n] = v
         /\ \A m \in DOMAIN f \ {n} : With(f, n, v)[m] = f[m]
  BY WithFacts

\* MarkFacts for the directories.
LEMMA MarkDirs ==
  ASSUME NEW f \in Partial(Directory), NEW n \in DOMAIN f
  PROVE  /\ Mark(f, n) \in Partial(Directory)
         /\ DOMAIN Mark(f, n) = DOMAIN f
         /\ Mark(f, n)[n] = [f[n] EXCEPT !.mark = TRUE]
         /\ \A m \in DOMAIN f \ {n} : Mark(f, n)[m] = f[m]
<1>1. \A v \in Directory : [v EXCEPT !.mark = TRUE] \in Directory
  BY MarkedTypes
<1>. QED  BY <1>1, MarkFacts

\* WithFacts for the playlists.
LEMMA WithLists ==
  ASSUME NEW f \in Partial(Playlist), NEW n \in Nodes, NEW v \in Playlist
  PROVE  /\ With(f, n, v) \in Partial(Playlist)
         /\ DOMAIN With(f, n, v) = DOMAIN f \cup {n}
         /\ With(f, n, v)[n] = v
         /\ \A m \in DOMAIN f \ {n} : With(f, n, v)[m] = f[m]
  BY WithFacts

----------------------------------------------------------------------------
(**************************************************************************)
(* Operations on one node of the tree.                                     *)
(**************************************************************************)

\* A database that is a tree.
Proper(d) == d \in Databases /\ Tree(d)

\* The directory a node would be put into is there.
Attached(d, n) == Parent[n] # Root => Parent[n] \in DOMAIN d.dirs

\* Two databases have the same at a node.
SameAt(d, e, m) ==
  /\ (m \in DOMAIN e.songs <=> m \in DOMAIN d.songs)
  /\ (m \in DOMAIN d.songs => e.songs[m] = d.songs[m])
  /\ (m \in DOMAIN e.dirs <=> m \in DOMAIN d.dirs)
  /\ (m \in DOMAIN d.dirs => e.dirs[m] = d.dirs[m])
  /\ (m \in DOMAIN e.lists <=> m \in DOMAIN d.lists)
  /\ (m \in DOMAIN d.lists => e.lists[m] = d.lists[m])

\* The second has at a node what the first has, or less.
LessAt(d, e, m) ==
  /\ (m \in DOMAIN e.songs => m \in DOMAIN d.songs /\ e.songs[m] = d.songs[m])
  /\ (m \in DOMAIN e.dirs => m \in DOMAIN d.dirs /\ e.dirs[m] = d.dirs[m])
  /\ (m \in DOMAIN e.lists => m \in DOMAIN d.lists /\ e.lists[m] = d.lists[m])

\* An operation on one node: elsewhere nothing changes, below it things may go.
Changed(d, e, n) ==
  /\ \A m \in Nodes \ Subtree({n}) : SameAt(d, e, m)
  /\ \A m \in Subtree({n}) \ {n} : LessAt(d, e, m)

\* A node and all that is below it.
LEMMA SubtreeOfOne ==
  ASSUME NEW n \in Nodes
  PROVE  /\ Subtree({n}) \in SUBSET Nodes /\ n \in Subtree({n})
         /\ Parent[n] \notin Subtree({n})
         /\ \A m \in Nodes : Parent[m] \in Subtree({n}) <=> m \in Subtree({n}) \ {n}
         /\ {n} \in SUBSET Children(Parent[n]) /\ Parent[n] \in Nodes \cup {Root}
<1>1. {n} \in SUBSET Children(Parent[n]) /\ Parent[n] \in Nodes \cup {Root}
  BY TreeAssumption DEF Children
<1>. QED  BY <1>1, SubtreeFacts

\* Two operations on a node are one.
LEMMA ChangedTwice ==
  ASSUME NEW d, NEW e, NEW f, NEW n, Changed(d, e, n), Changed(e, f, n)
  PROVE  Changed(d, f, n)
  BY DEF Changed, SameAt, LessAt

\* Doing nothing is one as well.
LEMMA ChangedNot ==
  ASSUME NEW d, NEW n
  PROVE  Changed(d, d, n)
  BY DEF Changed, SameAt, LessAt

\* An operation that changes the song at a node, and no more.
LEMMA SongsChanged ==
  ASSUME NEW d, Proper(d), NEW n \in Nodes, Attached(d, n), NEW s \in Partial(Song),
         \A m \in Nodes : m # n => /\ (m \in DOMAIN s <=> m \in DOMAIN d.songs)
                                   /\ (m \in DOMAIN s => s[m] = d.songs[m])
  PROVE  LET e == [d EXCEPT !.songs = s]
         IN /\ e.songs = s /\ e.dirs = d.dirs /\ e.lists = d.lists
            /\ Proper(e) /\ Attached(e, n) /\ Changed(d, e, n)
<1>. DEFINE e == [d EXCEPT !.songs = s]
<1>0. d \in Databases /\ Tree(d)
  BY DEF Proper
<1>fs. d.songs \in Partial(Song)
  BY <1>0, Fields
<1>fd. d.dirs \in Partial(Directory)
  BY <1>0, Fields
<1>fl. d.lists \in Partial(Playlist)
  BY <1>0, Fields
<1>1. e = [songs |-> s, dirs |-> d.dirs, lists |-> d.lists]
  BY <1>0, Updates
<1>2. e.songs = s /\ e.dirs = d.dirs /\ e.lists = d.lists
  BY <1>1
<1>3. e \in Databases
  BY <1>fs, <1>fd, <1>fl, <1>1, FromFields
<1>. HIDE DEF e
<1>4. DOMAIN s \subseteq Nodes
  BY PartialFacts
<1>5. Tree(e) /\ Attached(e, n)
  <2>1. DOMAIN s \subseteq DOMAIN d.songs \cup {n}
    BY <1>4
  <2>. QED  BY <1>0, <1>2, <2>1 DEF Tree, Attached
<1>6. Changed(d, e, n)
  BY <1>2, SubtreeOfOne DEF Changed, SameAt, LessAt
<1>. QED  BY <1>2, <1>3, <1>5, <1>6 DEF e, Proper

\* An operation that changes the playlist at a node, and no more.
LEMMA ListsChanged ==
  ASSUME NEW d, Proper(d), NEW n \in Nodes, Attached(d, n), NEW s \in Partial(Playlist),
         \A m \in Nodes : m # n => /\ (m \in DOMAIN s <=> m \in DOMAIN d.lists)
                                   /\ (m \in DOMAIN s => s[m] = d.lists[m])
  PROVE  LET e == [d EXCEPT !.lists = s]
         IN /\ e.songs = d.songs /\ e.dirs = d.dirs /\ e.lists = s
            /\ Proper(e) /\ Attached(e, n) /\ Changed(d, e, n)
<1>. DEFINE e == [d EXCEPT !.lists = s]
<1>0. d \in Databases /\ Tree(d)
  BY DEF Proper
<1>fs. d.songs \in Partial(Song)
  BY <1>0, Fields
<1>fd. d.dirs \in Partial(Directory)
  BY <1>0, Fields
<1>fl. d.lists \in Partial(Playlist)
  BY <1>0, Fields
<1>1. e = [songs |-> d.songs, dirs |-> d.dirs, lists |-> s]
  BY <1>0, Updates
<1>2. e.songs = d.songs /\ e.dirs = d.dirs /\ e.lists = s
  BY <1>1
<1>3. e \in Databases
  BY <1>fs, <1>fd, <1>fl, <1>1, FromFields
<1>. HIDE DEF e
<1>4. DOMAIN s \subseteq Nodes
  BY PartialFacts
<1>5. Tree(e) /\ Attached(e, n)
  <2>1. DOMAIN s \subseteq DOMAIN d.lists \cup {n}
    BY <1>4
  <2>. QED  BY <1>0, <1>2, <2>1 DEF Tree, Attached
<1>6. Changed(d, e, n)
  BY <1>2, SubtreeOfOne DEF Changed, SameAt, LessAt
<1>. QED  BY <1>2, <1>3, <1>5, <1>6 DEF e, Proper

\* A directory that stays or comes.
LEMMA DirsChanged ==
  ASSUME NEW d, Proper(d), NEW n \in Nodes, Attached(d, n), NEW s \in Partial(Directory),
         n \in DOMAIN s,
         \A m \in Nodes : m # n => /\ (m \in DOMAIN s <=> m \in DOMAIN d.dirs)
                                   /\ (m \in DOMAIN s => s[m] = d.dirs[m])
  PROVE  LET e == [d EXCEPT !.dirs = s]
         IN /\ e.songs = d.songs /\ e.dirs = s /\ e.lists = d.lists
            /\ Proper(e) /\ Attached(e, n) /\ Changed(d, e, n)
<1>. DEFINE e == [d EXCEPT !.dirs = s]
<1>0. d \in Databases /\ Tree(d)
  BY DEF Proper
<1>fs. d.songs \in Partial(Song)
  BY <1>0, Fields
<1>fd. d.dirs \in Partial(Directory)
  BY <1>0, Fields
<1>fl. d.lists \in Partial(Playlist)
  BY <1>0, Fields
<1>1. e = [songs |-> d.songs, dirs |-> s, lists |-> d.lists]
  BY <1>0, Updates
<1>2. e.songs = d.songs /\ e.dirs = s /\ e.lists = d.lists
  BY <1>1
<1>3. e \in Databases
  BY <1>fs, <1>fd, <1>fl, <1>1, FromFields
<1>. HIDE DEF e
<1>4. DOMAIN s \subseteq Nodes /\ DOMAIN d.dirs \subseteq Nodes
  BY <1>0, PartialFacts, Fields
<1>5. Tree(e) /\ Attached(e, n)
  <2>1. DOMAIN s = DOMAIN d.dirs \cup {n}
    BY <1>4
  <2>. QED  BY <1>0, <1>2, <2>1 DEF Tree, Attached
<1>6. Changed(d, e, n)
  BY <1>2, SubtreeOfOne DEF Changed, SameAt, LessAt
<1>. QED  BY <1>2, <1>3, <1>5, <1>6 DEF e, Proper

\* DatabaseEditor::DeleteDirectory() on children of a directory.
LEMMA DeleteDirectoriesFacts ==
  ASSUME NEW d, Proper(d), NEW D \in Nodes \cup {Root}, NEW S \in SUBSET Children(D)
  PROVE  LET e == DeleteDirectories(d, S)
             below == Subtree(S) \ S
         IN /\ Proper(e)
            /\ DOMAIN e.songs = DOMAIN d.songs \ below
            /\ DOMAIN e.dirs = DOMAIN d.dirs \ Subtree(S)
            /\ DOMAIN e.lists = DOMAIN d.lists \ below
            /\ \A m \in DOMAIN e.songs : e.songs[m] = d.songs[m]
            /\ \A m \in DOMAIN e.dirs : e.dirs[m] = d.dirs[m]
            /\ \A m \in DOMAIN e.lists : e.lists[m] = d.lists[m]
            /\ \A m \in Nodes \ Subtree(S) : SameAt(d, e, m)
            /\ (D = Root \/ D \in DOMAIN d.dirs) => (D = Root \/ D \in DOMAIN e.dirs)
<1>. DEFINE e == DeleteDirectories(d, S)
            below == Subtree(S) \ S
<1>0. d \in Databases /\ Tree(d)
  BY DEF Proper
<1>fs. d.songs \in Partial(Song)
  BY <1>0, Fields
<1>fd. d.dirs \in Partial(Directory)
  BY <1>0, Fields
<1>fl. d.lists \in Partial(Playlist)
  BY <1>0, Fields
<1>1. e = [songs |-> Without(d.songs, below), dirs |-> Without(d.dirs, Subtree(S)),
           lists |-> Without(d.lists, below)]
  BY DEF DeleteDirectories
<1>2. /\ e.songs = Without(d.songs, below) /\ e.dirs = Without(d.dirs, Subtree(S))
      /\ e.lists = Without(d.lists, below)
  BY <1>1
<1>. HIDE DEF e, below
<1>w. /\ Without(d.songs, below) \in Partial(Song)
      /\ DOMAIN Without(d.songs, below) = DOMAIN d.songs \ below
      /\ \A m \in DOMAIN d.songs \ below : Without(d.songs, below)[m] = d.songs[m]
  BY <1>fs, WithoutSongs
<1>x. /\ Without(d.dirs, Subtree(S)) \in Partial(Directory)
      /\ DOMAIN Without(d.dirs, Subtree(S)) = DOMAIN d.dirs \ Subtree(S)
      /\ \A m \in DOMAIN d.dirs \ Subtree(S) : Without(d.dirs, Subtree(S))[m] = d.dirs[m]
  BY <1>fd, WithoutDirs
<1>y. /\ Without(d.lists, below) \in Partial(Playlist)
      /\ DOMAIN Without(d.lists, below) = DOMAIN d.lists \ below
      /\ \A m \in DOMAIN d.lists \ below : Without(d.lists, below)[m] = d.lists[m]
  BY <1>fl, WithoutLists
<1>3. e \in Databases
  BY <1>w, <1>x, <1>y, <1>1, FromFields
<1>4. /\ DOMAIN e.songs = DOMAIN d.songs \ below
      /\ DOMAIN e.dirs = DOMAIN d.dirs \ Subtree(S)
      /\ DOMAIN e.lists = DOMAIN d.lists \ below
      /\ \A m \in DOMAIN e.songs : e.songs[m] = d.songs[m]
      /\ \A m \in DOMAIN e.dirs : e.dirs[m] = d.dirs[m]
      /\ \A m \in DOMAIN e.lists : e.lists[m] = d.lists[m]
  BY <1>w, <1>x, <1>y, <1>2
<1>5. /\ D \notin Subtree(S)
      /\ \A n \in Nodes : Parent[n] \in Subtree(S) <=> n \in below
      /\ \A n \in below : n \in Subtree(S)
      /\ \A n \in Subtree(S) : n \in Nodes
  BY SubtreeFacts DEF below
<1>6. ASSUME NEW m \in DOMAIN e.songs \cup DOMAIN e.dirs \cup DOMAIN e.lists, Parent[m] # Root
      PROVE  Parent[m] \in DOMAIN e.dirs
  <2>1. m \in Nodes /\ m \notin below
    BY <1>0, <1>4, <1>5, Fields
  <2>2. Parent[m] \in DOMAIN d.dirs
    BY <1>0, <1>4, <1>6 DEF Tree
  <2>. QED  BY <1>4, <1>5, <2>1, <2>2
<1>7. \A m \in Nodes \ Subtree(S) : SameAt(d, e, m)
  BY <1>4, <1>5 DEF SameAt
<1>. QED  BY <1>3, <1>4, <1>5, <1>6, <1>7 DEF Proper, Tree, e, below

\* DeleteDirectory() of one node.
LEMMA DeleteOneDirectory ==
  ASSUME NEW d, Proper(d), NEW n \in Nodes, Attached(d, n)
  PROVE  LET e == DeleteDirectories(d, {n})
         IN /\ Proper(e) /\ Attached(e, n) /\ Changed(d, e, n)
            /\ DOMAIN e.songs = DOMAIN d.songs \ (Subtree({n}) \ {n})
            /\ DOMAIN e.dirs = DOMAIN d.dirs \ Subtree({n})
            /\ DOMAIN e.lists = DOMAIN d.lists \ (Subtree({n}) \ {n})
            /\ \A m \in DOMAIN e.songs : e.songs[m] = d.songs[m]
            /\ \A m \in DOMAIN e.dirs : e.dirs[m] = d.dirs[m]
            /\ \A m \in DOMAIN e.lists : e.lists[m] = d.lists[m]
<1>. DEFINE e == DeleteDirectories(d, {n})
<1>1. {n} \in SUBSET Children(Parent[n]) /\ Parent[n] \in Nodes \cup {Root}
  BY SubtreeOfOne
<1>2. /\ Proper(e)
      /\ DOMAIN e.songs = DOMAIN d.songs \ (Subtree({n}) \ {n})
      /\ DOMAIN e.dirs = DOMAIN d.dirs \ Subtree({n})
      /\ DOMAIN e.lists = DOMAIN d.lists \ (Subtree({n}) \ {n})
      /\ \A m \in DOMAIN e.songs : e.songs[m] = d.songs[m]
      /\ \A m \in DOMAIN e.dirs : e.dirs[m] = d.dirs[m]
      /\ \A m \in DOMAIN e.lists : e.lists[m] = d.lists[m]
      /\ \A m \in Nodes \ Subtree({n}) : SameAt(d, e, m)
      /\ (Parent[n] = Root \/ Parent[n] \in DOMAIN d.dirs)
           => (Parent[n] = Root \/ Parent[n] \in DOMAIN e.dirs)
  BY <1>1, DeleteDirectoriesFacts
<1>. HIDE DEF e
<1>3. Attached(e, n)
  BY <1>2 DEF Attached
<1>4. Changed(d, e, n)
  BY <1>2 DEF Changed, LessAt
<1>. QED  BY <1>2, <1>3, <1>4 DEF e

\* DeleteSong() of some nodes.
LEMMA DeleteSongsFacts ==
  ASSUME NEW d, Proper(d), NEW S
  PROVE  LET e == DeleteSongs(d, S)
         IN /\ Proper(e)
            /\ DOMAIN e.songs = DOMAIN d.songs \ S /\ e.dirs = d.dirs /\ e.lists = d.lists
            /\ \A m \in DOMAIN e.songs : e.songs[m] = d.songs[m]
<1>. DEFINE e == DeleteSongs(d, S)
<1>0. d \in Databases /\ Tree(d)
  BY DEF Proper
<1>fs. d.songs \in Partial(Song)
  BY <1>0, Fields
<1>fd. d.dirs \in Partial(Directory)
  BY <1>0, Fields
<1>fl. d.lists \in Partial(Playlist)
  BY <1>0, Fields
<1>1. e = [d EXCEPT !.songs = Without(d.songs, S)]
  BY DEF DeleteSongs
<1>2. e = [songs |-> Without(d.songs, S), dirs |-> d.dirs, lists |-> d.lists]
  BY <1>0, <1>1, Updates
<1>3. e.songs = Without(d.songs, S) /\ e.dirs = d.dirs /\ e.lists = d.lists
  BY <1>2
<1>w. /\ Without(d.songs, S) \in Partial(Song)
      /\ DOMAIN Without(d.songs, S) = DOMAIN d.songs \ S
      /\ \A m \in DOMAIN d.songs \ S : Without(d.songs, S)[m] = d.songs[m]
  BY <1>fs, WithoutSongs
<1>4. e \in Databases
  BY <1>fs, <1>fd, <1>fl, <1>w, <1>2, FromFields
<1>. HIDE DEF e
<1>5. DOMAIN e.songs = DOMAIN d.songs \ S /\ \A m \in DOMAIN e.songs : e.songs[m] = d.songs[m]
  BY <1>w, <1>3
<1>6. Tree(e)
  BY <1>0, <1>3, <1>5 DEF Tree
<1>. QED  BY <1>3, <1>4, <1>5, <1>6 DEF e, Proper

\* Dropping playlists.
LEMMA DropListsFacts ==
  ASSUME NEW d, Proper(d), NEW S
  PROVE  LET e == [d EXCEPT !.lists = Without(d.lists, S)]
         IN /\ Proper(e)
            /\ DOMAIN e.lists = DOMAIN d.lists \ S /\ e.dirs = d.dirs /\ e.songs = d.songs
            /\ \A m \in DOMAIN e.lists : e.lists[m] = d.lists[m]
<1>. DEFINE e == [d EXCEPT !.lists = Without(d.lists, S)]
<1>0. d \in Databases /\ Tree(d)
  BY DEF Proper
<1>fs. d.songs \in Partial(Song)
  BY <1>0, Fields
<1>fd. d.dirs \in Partial(Directory)
  BY <1>0, Fields
<1>fl. d.lists \in Partial(Playlist)
  BY <1>0, Fields
<1>2. e = [songs |-> d.songs, dirs |-> d.dirs, lists |-> Without(d.lists, S)]
  BY <1>0, Updates
<1>3. e.lists = Without(d.lists, S) /\ e.dirs = d.dirs /\ e.songs = d.songs
  BY <1>2
<1>w. /\ Without(d.lists, S) \in Partial(Playlist)
      /\ DOMAIN Without(d.lists, S) = DOMAIN d.lists \ S
      /\ \A m \in DOMAIN d.lists \ S : Without(d.lists, S)[m] = d.lists[m]
  BY <1>fl, WithoutLists
<1>4. e \in Databases
  BY <1>fs, <1>fd, <1>fl, <1>w, <1>2, FromFields
<1>. HIDE DEF e
<1>5. DOMAIN e.lists = DOMAIN d.lists \ S /\ \A m \in DOMAIN e.lists : e.lists[m] = d.lists[m]
  BY <1>w, <1>3
<1>6. Tree(e)
  BY <1>0, <1>3, <1>5 DEF Tree
<1>. QED  BY <1>3, <1>4, <1>5, <1>6 DEF e, Proper

----------------------------------------------------------------------------
(**************************************************************************)
(* Adding and marking single items.                                        *)
(**************************************************************************)

\* Nothing in the database is below n.
Leaf(d, n) ==
  \A m \in Subtree({n}) \ {n} :
    m \notin DOMAIN d.songs /\ m \notin DOMAIN d.dirs /\ m \notin DOMAIN d.lists

\* The song at a node is marked.
LEMMA MarkSong ==
  ASSUME NEW d, Proper(d), NEW n \in DOMAIN d.songs, Attached(d, n)
  PROVE  LET e == [d EXCEPT !.songs = Mark(d.songs, n)]
         IN /\ Proper(e) /\ Attached(e, n) /\ Changed(d, e, n)
            /\ e.dirs = d.dirs /\ e.lists = d.lists /\ DOMAIN e.songs = DOMAIN d.songs
            /\ e.songs[n] = [d.songs[n] EXCEPT !.mark = TRUE]
<1>. DEFINE s == Mark(d.songs, n)
<1>0. d \in Databases
  BY DEF Proper
<1>1. d.songs \in Partial(Song) /\ DOMAIN d.songs \subseteq Nodes
  BY <1>0, Fields
<1>2. \A v \in Song : [v EXCEPT !.mark = TRUE] \in Song
  BY MarkedTypes
<1>3. /\ s \in Partial(Song) /\ DOMAIN s = DOMAIN d.songs
      /\ s[n] = [d.songs[n] EXCEPT !.mark = TRUE]
      /\ \A m \in DOMAIN d.songs \ {n} : s[m] = d.songs[m]
  BY <1>1, MarkSongs
<1>. HIDE DEF s
<1>. DEFINE e == [d EXCEPT !.songs = s]
<1>4. /\ e.songs = s /\ e.dirs = d.dirs /\ e.lists = d.lists
      /\ Proper(e) /\ Attached(e, n) /\ Changed(d, e, n)
  BY <1>1, <1>3, SongsChanged
<1>. HIDE DEF e
<1>5. DOMAIN e.songs = DOMAIN d.songs /\ e.songs[n] = [d.songs[n] EXCEPT !.mark = TRUE]
  BY <1>3, <1>4
<1>. QED  BY <1>4, <1>5 DEF e, s

\* A song is put at a node.
LEMMA AddSong ==
  ASSUME NEW d, Proper(d), NEW n \in Nodes, Attached(d, n), NEW v \in Song
  PROVE  LET e == [d EXCEPT !.songs = With(d.songs, n, v)]
         IN /\ Proper(e) /\ Attached(e, n) /\ Changed(d, e, n)
            /\ e.dirs = d.dirs /\ e.lists = d.lists
            /\ DOMAIN e.songs = DOMAIN d.songs \cup {n} /\ e.songs[n] = v
<1>. DEFINE s == With(d.songs, n, v)
<1>0. d \in Databases
  BY DEF Proper
<1>1. d.songs \in Partial(Song) /\ DOMAIN d.songs \subseteq Nodes
  BY <1>0, Fields
<1>3. /\ s \in Partial(Song) /\ DOMAIN s = DOMAIN d.songs \cup {n}
      /\ s[n] = v
      /\ \A m \in DOMAIN d.songs \ {n} : s[m] = d.songs[m]
  BY <1>1, WithSongs
<1>. HIDE DEF s
<1>. DEFINE e == [d EXCEPT !.songs = s]
<1>4. /\ e.songs = s /\ e.dirs = d.dirs /\ e.lists = d.lists
      /\ Proper(e) /\ Attached(e, n) /\ Changed(d, e, n)
  BY <1>3, SongsChanged
<1>. HIDE DEF e
<1>5. DOMAIN e.songs = DOMAIN d.songs \cup {n} /\ e.songs[n] = v
  BY <1>3, <1>4
<1>. QED  BY <1>4, <1>5 DEF e, s

\* A playlist is put at a node.
LEMMA AddList ==
  ASSUME NEW d, Proper(d), NEW n \in Nodes, Attached(d, n), NEW v \in Playlist
  PROVE  LET e == [d EXCEPT !.lists = With(d.lists, n, v)]
         IN /\ Proper(e) /\ Attached(e, n) /\ Changed(d, e, n)
            /\ e.dirs = d.dirs /\ e.songs = d.songs
            /\ DOMAIN e.lists = DOMAIN d.lists \cup {n} /\ e.lists[n] = v
<1>. DEFINE s == With(d.lists, n, v)
<1>0. d \in Databases
  BY DEF Proper
<1>1. d.lists \in Partial(Playlist) /\ DOMAIN d.lists \subseteq Nodes
  BY <1>0, Fields
<1>3. /\ s \in Partial(Playlist) /\ DOMAIN s = DOMAIN d.lists \cup {n}
      /\ s[n] = v
      /\ \A m \in DOMAIN d.lists \ {n} : s[m] = d.lists[m]
  BY <1>1, WithLists
<1>. HIDE DEF s
<1>. DEFINE e == [d EXCEPT !.lists = s]
<1>4. /\ e.lists = s /\ e.dirs = d.dirs /\ e.songs = d.songs
      /\ Proper(e) /\ Attached(e, n) /\ Changed(d, e, n)
  BY <1>3, ListsChanged
<1>. HIDE DEF e
<1>5. DOMAIN e.lists = DOMAIN d.lists \cup {n} /\ e.lists[n] = v
  BY <1>3, <1>4
<1>. QED  BY <1>4, <1>5 DEF e, s

\* The directory at a node is marked.
LEMMA MarkDir ==
  ASSUME NEW d, Proper(d), NEW n \in DOMAIN d.dirs, Attached(d, n)
  PROVE  LET e == [d EXCEPT !.dirs = Mark(d.dirs, n)]
         IN /\ Proper(e) /\ Attached(e, n) /\ Changed(d, e, n)
            /\ e.songs = d.songs /\ e.lists = d.lists /\ DOMAIN e.dirs = DOMAIN d.dirs
            /\ e.dirs[n] = [d.dirs[n] EXCEPT !.mark = TRUE]
            /\ \A m \in DOMAIN d.dirs \ {n} : e.dirs[m] = d.dirs[m]
<1>. DEFINE s == Mark(d.dirs, n)
<1>0. d \in Databases
  BY DEF Proper
<1>1. d.dirs \in Partial(Directory) /\ DOMAIN d.dirs \subseteq Nodes
  BY <1>0, Fields
<1>2. \A v \in Directory : [v EXCEPT !.mark = TRUE] \in Directory
  BY MarkedTypes
<1>3. /\ s \in Partial(Directory) /\ DOMAIN s = DOMAIN d.dirs
      /\ s[n] = [d.dirs[n] EXCEPT !.mark = TRUE]
      /\ \A m \in DOMAIN d.dirs \ {n} : s[m] = d.dirs[m]
  BY <1>1, MarkDirs
<1>. HIDE DEF s
<1>. DEFINE e == [d EXCEPT !.dirs = s]
<1>4. /\ e.songs = d.songs /\ e.dirs = s /\ e.lists = d.lists
      /\ Proper(e) /\ Attached(e, n) /\ Changed(d, e, n)
  BY <1>1, <1>3, DirsChanged
<1>. HIDE DEF e
<1>5. /\ DOMAIN e.dirs = DOMAIN d.dirs /\ e.dirs[n] = [d.dirs[n] EXCEPT !.mark = TRUE]
      /\ \A m \in DOMAIN d.dirs \ {n} : e.dirs[m] = d.dirs[m]
  BY <1>3, <1>4
<1>. QED  BY <1>4, <1>5 DEF e, s

\* A directory is put at a node.
LEMMA AddDir ==
  ASSUME NEW d, Proper(d), NEW n \in Nodes, Attached(d, n), NEW v \in Directory
  PROVE  LET e == [d EXCEPT !.dirs = With(d.dirs, n, v)]
         IN /\ Proper(e) /\ Attached(e, n) /\ Changed(d, e, n)
            /\ e.songs = d.songs /\ e.lists = d.lists
            /\ DOMAIN e.dirs = DOMAIN d.dirs \cup {n} /\ e.dirs[n] = v
            /\ \A m \in DOMAIN d.dirs \ {n} : e.dirs[m] = d.dirs[m]
<1>. DEFINE s == With(d.dirs, n, v)
<1>0. d \in Databases
  BY DEF Proper
<1>1. d.dirs \in Partial(Directory) /\ DOMAIN d.dirs \subseteq Nodes
  BY <1>0, Fields
<1>3. /\ s \in Partial(Directory) /\ DOMAIN s = DOMAIN d.dirs \cup {n}
      /\ s[n] = v
      /\ \A m \in DOMAIN d.dirs \ {n} : s[m] = d.dirs[m]
  BY <1>1, WithDirs
<1>. HIDE DEF s
<1>. DEFINE e == [d EXCEPT !.dirs = s]
<1>4. /\ e.songs = d.songs /\ e.dirs = s /\ e.lists = d.lists
      /\ Proper(e) /\ Attached(e, n) /\ Changed(d, e, n)
  BY <1>1, <1>3, DirsChanged
<1>. HIDE DEF e
<1>5. /\ DOMAIN e.dirs = DOMAIN d.dirs \cup {n} /\ e.dirs[n] = v
      /\ \A m \in DOMAIN d.dirs \ {n} : e.dirs[m] = d.dirs[m]
  BY <1>3, <1>4
<1>. QED  BY <1>4, <1>5 DEF e, s

\* MakeVirtualDirectoryIfModified() for a directory that has to be read again.
LEMMA MakeVirtualDirectoryFacts ==
  ASSUME Proper(db), NEW n \in Nodes, Attached(db, n), NEW t \in 0..MaxChanges,
         NEW device \in {"container", "archive", "playlist"},
         NEW tracks \in SUBSET (Channels \cup Nodes)
  PROVE  LET e == MakeVirtualDirectory(n, t, device, tracks)
         IN /\ Proper(e) /\ Attached(e, n) /\ Changed(db, e, n) /\ Leaf(e, n)
            /\ n \in DOMAIN e.dirs
            /\ e.dirs[n] = [mtime |-> t, mark |-> TRUE, device |-> device, tracks |-> tracks]
            /\ (n \in DOMAIN e.songs <=> n \in DOMAIN db.songs)
            /\ (n \in DOMAIN db.songs => e.songs[n] = db.songs[n])
            /\ (n \in DOMAIN e.lists <=> n \in DOMAIN db.lists)
            /\ (n \in DOMAIN db.lists => e.lists[n] = db.lists[n])
<1>. DEFINE f == DeleteDirectories(db, {n})
            v == [mtime |-> t, mark |-> TRUE, device |-> device, tracks |-> tracks]
            e == [f EXCEPT !.dirs = With(f.dirs, n, v)]
<1>0. e = MakeVirtualDirectory(n, t, device, tracks)
  BY DEF MakeVirtualDirectory
<1>1. v \in Directory
  BY DEF Directory
<1>2. /\ Proper(f) /\ Attached(f, n) /\ Changed(db, f, n)
      /\ DOMAIN f.songs = DOMAIN db.songs \ (Subtree({n}) \ {n})
      /\ DOMAIN f.dirs = DOMAIN db.dirs \ Subtree({n})
      /\ DOMAIN f.lists = DOMAIN db.lists \ (Subtree({n}) \ {n})
      /\ \A m \in DOMAIN f.songs : f.songs[m] = db.songs[m]
      /\ \A m \in DOMAIN f.lists : f.lists[m] = db.lists[m]
  BY DeleteOneDirectory
<1>. HIDE DEF f, v
<1>3. /\ Proper(e) /\ Attached(e, n) /\ Changed(f, e, n)
      /\ e.songs = f.songs /\ e.lists = f.lists
      /\ DOMAIN e.dirs = DOMAIN f.dirs \cup {n} /\ e.dirs[n] = v
  <2>1. Proper(f) /\ Attached(f, n)
    BY <1>2
  <2>. QED  BY <1>1, <2>1, AddDir
<1>. HIDE DEF e
<1>4. Changed(db, e, n)
  BY <1>2, <1>3, ChangedTwice
<1>5. Leaf(e, n)
  BY <1>2, <1>3 DEF Leaf
<1>6. /\ (n \in DOMAIN e.songs <=> n \in DOMAIN db.songs)
      /\ (n \in DOMAIN db.songs => e.songs[n] = db.songs[n])
      /\ (n \in DOMAIN e.lists <=> n \in DOMAIN db.lists)
      /\ (n \in DOMAIN db.lists => e.lists[n] = db.lists[n])
  BY <1>2, <1>3
<1>7. e.dirs[n] = [mtime |-> t, mark |-> TRUE, device |-> device, tracks |-> tracks]
  BY <1>3 DEF v
<1>. QED  BY <1>0, <1>3, <1>4, <1>5, <1>6, <1>7

----------------------------------------------------------------------------
(**************************************************************************)
(* One regular file.                                                       *)
(**************************************************************************)

\* What a container plugin may have open.
Readers == [path : Nodes \cup {Root}, tracks : SUBSET Channels, mtime : 0..MaxChanges]

\* What the operations on one file read.
Flags == /\ fs \in [Nodes -> Entry] /\ modified \in BOOLEAN /\ walk_discard \in BOOLEAN
         /\ reader \in Readers

\* What a scan tells is a number of channels, or nothing.
LEMMA PlainType ==
  ASSUME fs \in [Nodes -> Entry], NEW n \in Nodes
  PROVE  Plain(n) \in Channels \cup {"unknown", "bad"}
  BY DEF Plain, Entry

\* What UpdateSongFile2() makes of one song, and that it does no more.
SongOutcome(d, m, n, t, r) ==
  LET known == n \in DOMAIN d.songs
      current == known /\ d.songs[n].mtime = t /\ ~walk_discard
      recognized == Plain(n) # "bad"
      included == recognized /\ ShouldInclude(Plain(n))
  IN /\ Proper(r.db) /\ Attached(r.db, n) /\ Changed(d, r.db, n)
     /\ r.modified \in BOOLEAN /\ r.db.dirs = d.dirs /\ r.db.lists = d.lists
     /\ current => /\ r.modified = m /\ n \in DOMAIN r.db.songs
                   /\ r.db.songs[n] = [d.songs[n] EXCEPT !.mark = TRUE]
     /\ ~current /\ included =>
          /\ r.modified = TRUE /\ n \in DOMAIN r.db.songs
          /\ r.db.songs[n].mtime = t /\ r.db.songs[n].mark = TRUE
          /\ r.db.songs[n].channels = Plain(n)
     /\ ~current /\ ~included /\ recognized =>
          /\ n \notin DOMAIN r.db.songs
          /\ r.modified = (m \/ known)
     /\ ~current /\ ~recognized => r.db = d /\ r.modified = (m \/ known)

\* UpdateSongFile2() does what SongOutcome says.
LEMMA UpdatePlainSongFacts ==
  ASSUME Flags, NEW d, Proper(d), NEW m \in BOOLEAN, NEW n \in Nodes, Attached(d, n),
         NEW t \in 0..MaxChanges
  PROVE  SongOutcome(d, m, n, t, UpdatePlainSong(d, m, n, t))
<1>. DEFINE r == UpdatePlainSong(d, m, n, t)
            known == n \in DOMAIN d.songs
            current == known /\ d.songs[n].mtime = t /\ ~walk_discard
            recognized == Plain(n) # "bad"
            included == recognized /\ ShouldInclude(Plain(n))
            song == [mtime |-> t, mark |-> TRUE, channels |-> Plain(n),
                     in_playlist |-> known /\ d.songs[n].in_playlist]
<1>0. d \in Databases
  BY DEF Proper
<1>1. CASE current
  <2>. DEFINE e == [d EXCEPT !.songs = Mark(d.songs, n)]
  <2>1. r = [db |-> e, modified |-> m]
    BY <1>1 DEF UpdatePlainSong, Result
  <2>2. r.db = e /\ r.modified = m
    BY <2>1
  <2>3. /\ Proper(e) /\ Attached(e, n) /\ Changed(d, e, n)
        /\ e.dirs = d.dirs /\ e.lists = d.lists /\ DOMAIN e.songs = DOMAIN d.songs
        /\ e.songs[n] = [d.songs[n] EXCEPT !.mark = TRUE]
    BY <1>1, MarkSong
  <2>. HIDE DEF e, r
  <2>. QED  BY <1>1, <2>2, <2>3 DEF r, SongOutcome
<1>2. CASE ~current /\ included
  <2>. DEFINE e == [d EXCEPT !.songs = With(d.songs, n, song)]
  <2>1. r = [db |-> e, modified |-> TRUE]
    BY <1>2 DEF UpdatePlainSong, Result
  <2>2. r.db = e /\ r.modified = TRUE
    BY <2>1
  <2>3. Plain(n) \in Channels \cup {"unknown"}
    BY <1>2, PlainType DEF Flags
  <2>4. (known /\ d.songs[n].in_playlist) \in BOOLEAN
    OBVIOUS
  <2>5. song \in Song
    BY <2>3, <2>4 DEF Song
  <2>6. song.mtime = t /\ song.mark = TRUE /\ song.channels = Plain(n)
    OBVIOUS
  <2>. HIDE DEF song
  <2>7. /\ Proper(e) /\ Attached(e, n) /\ Changed(d, e, n)
        /\ e.dirs = d.dirs /\ e.lists = d.lists
        /\ DOMAIN e.songs = DOMAIN d.songs \cup {n} /\ e.songs[n] = song
    BY <2>5, AddSong
  <2>. HIDE DEF e, r
  <2>. QED  BY <1>2, <2>2, <2>6, <2>7 DEF r, SongOutcome
<1>3. CASE ~current /\ ~included /\ recognized
  <2>. DEFINE e == DeleteSongs(d, {n})
  <2>1. r = [db |-> e, modified |-> (m \/ known)]
    BY <1>3 DEF UpdatePlainSong, Result
  <2>2. r.db = e /\ r.modified = (m \/ known)
    BY <2>1
  <2>3. /\ Proper(e)
        /\ DOMAIN e.songs = DOMAIN d.songs \ {n} /\ e.dirs = d.dirs /\ e.lists = d.lists
        /\ \A k \in DOMAIN e.songs : e.songs[k] = d.songs[k]
    BY DeleteSongsFacts
  <2>. HIDE DEF e
  <2>4. Attached(e, n)
    BY <2>3 DEF Attached
  <2>5. Changed(d, e, n)
    BY <2>3, SubtreeOfOne DEF Changed, SameAt, LessAt
  <2>. HIDE DEF r
  <2>. QED  BY <1>3, <2>2, <2>3, <2>4, <2>5 DEF r, SongOutcome
<1>4. CASE ~current /\ ~recognized
  <2>1. r = [db |-> d, modified |-> (m \/ known)]
    BY <1>4 DEF UpdatePlainSong, Result
  <2>2. r.db = d /\ r.modified = (m \/ known)
    BY <2>1
  <2>3. Changed(d, d, n)
    BY ChangedNot
  <2>. HIDE DEF r
  <2>. QED  BY <1>4, <2>2, <2>3 DEF r, SongOutcome
<1>. QED  BY <1>1, <1>2, <1>3, <1>4

\* Two databases have the same song and playlist at a node.
SameSongAndList(d, e, n) ==
  /\ (n \in DOMAIN e.songs <=> n \in DOMAIN d.songs)
  /\ (n \in DOMAIN d.songs => e.songs[n] = d.songs[n])
  /\ (n \in DOMAIN e.lists <=> n \in DOMAIN d.lists)
  /\ (n \in DOMAIN d.lists => e.lists[n] = d.lists[n])

\* The types of what the file system has at a node.
LEMMA EntryFields ==
  ASSUME fs \in [Nodes -> Entry], NEW n \in Nodes
  PROVE  /\ fs[n].tracks \in SUBSET Channels /\ fs[n].targets \in SUBSET Nodes
         /\ fs[n].type \in {"absent", "broken", "symlink", "loop", "dir", "file"}
         /\ fs[n].access \in BOOLEAN /\ fs[n].mtime \in 0..MaxChanges
<1>1. fs[n] \in Entry
  OBVIOUS
<1>2. /\ fs[n].tracks \in SUBSET Channels /\ fs[n].targets \in SUBSET Nodes
      /\ fs[n].type \in {"absent", "broken", "symlink", "loop", "dir", "file"}
      /\ fs[n].access \in BOOLEAN /\ fs[n].mtime \in 0..MaxChanges
  BY <1>1 DEF Entry
<1>. QED  BY <1>2

\* Having nothing open is a state of the plugin.
LEMMA NoReaderType == NoReader \in Readers /\ NoReader.path = Root
<1>1. 0 \in 0..MaxChanges
  BY BoundsAssumption
<1>. QED  BY <1>1 DEF NoReader, Readers

\* What container_update() opens is a reader, and no other file's.
LEMMA OpenedType ==
  ASSUME Flags, NEW n \in Nodes
  PROVE  NoReader \in Readers /\ Opened(n) \in Readers /\ Opened(n).path \in {n, Root}
<1>1. fs[n].tracks \in SUBSET Channels /\ fs[n].mtime \in 0..MaxChanges
  BY EntryFields DEF Flags
<1>. DEFINE r == [path |-> n, tracks |-> fs[n].tracks, mtime |-> fs[n].mtime]
<1>2. r \in Readers /\ r.path = n /\ NoReader \in Readers /\ NoReader.path = Root
  BY <1>1, NoReaderType DEF Readers
<1>. HIDE DEF r
<1>3. Opened(n) \in {r, NoReader} \/ (Opened(n) = reader /\ reader.path = n)
  BY DEF Opened, Kept, r
<1>. QED  BY <1>2, <1>3 DEF Flags

\* What container_scan() finds are tracks.
LEMMA ContainerScanType ==
  ASSUME Flags, NEW n \in Nodes
  PROVE  ContainerScan(n) \in SUBSET Channels
<1>1. Opened(n).tracks \in SUBSET Channels
  BY OpenedType DEF Readers
<1>. QED  BY <1>1 DEF ContainerScan

\* What UpdateContainerFile() does.
LEMMA UpdateContainerFileFacts ==
  ASSUME Flags, Proper(db), NEW n \in Nodes, Attached(db, n), NEW t \in 0..MaxChanges
  PROVE  LET r == UpdateContainerFile(n, t)
             e == r.db
         IN /\ Proper(e) /\ Attached(e, n) /\ Changed(db, e, n) /\ SameSongAndList(db, e, n)
            /\ r.modified \in BOOLEAN
            /\ Kind[n] # "container" => e = db /\ r.modified = modified
            /\ Kind[n] = "container" /\ Unmodified(n, t, "container") =>
                 /\ r.modified = modified /\ n \in DOMAIN e.dirs
                 /\ e.dirs[n] = [db.dirs[n] EXCEPT !.mark = TRUE]
                 /\ DOMAIN e.songs = DOMAIN db.songs /\ DOMAIN e.dirs = DOMAIN db.dirs
                 /\ DOMAIN e.lists = DOMAIN db.lists
            /\ Kind[n] = "container" /\ ~Unmodified(n, t, "container") /\ ContainerScan(n) # {} =>
                 /\ r.modified = TRUE /\ n \in DOMAIN e.dirs /\ Leaf(e, n)
                 /\ e.dirs[n] = [mtime |-> t, mark |-> TRUE, device |-> "container",
                                 tracks |-> ContainerScan(n)]
            /\ Kind[n] = "container" /\ ~Unmodified(n, t, "container") /\ ContainerScan(n) = {} =>
                 /\ r.modified = (modified \/ n \in DOMAIN db.dirs)
                 /\ n \notin DOMAIN e.dirs /\ Leaf(e, n)
<1>. DEFINE r == UpdateContainerFile(n, t)
<1>1. CASE Kind[n] # "container"
  <2>1. r = [db |-> db, modified |-> modified]
    BY <1>1 DEF UpdateContainerFile, Result
  <2>2. r.db = db /\ r.modified = modified
    BY <2>1
  <2>3. Changed(db, db, n)
    BY ChangedNot
  <2>. HIDE DEF r
  <2>. QED  BY <1>1, <2>2, <2>3 DEF r, SameSongAndList, Flags
<1>2. CASE Kind[n] = "container" /\ Unmodified(n, t, "container")
  <2>. DEFINE e == [db EXCEPT !.dirs = Mark(db.dirs, n)]
  <2>1. r = [db |-> e, modified |-> modified]
    BY <1>2 DEF UpdateContainerFile, Result
  <2>2. r.db = e /\ r.modified = modified
    BY <2>1
  <2>3. n \in DOMAIN db.dirs
    BY <1>2 DEF Unmodified
  <2>4. /\ Proper(e) /\ Attached(e, n) /\ Changed(db, e, n)
        /\ e.songs = db.songs /\ e.lists = db.lists /\ DOMAIN e.dirs = DOMAIN db.dirs
        /\ e.dirs[n] = [db.dirs[n] EXCEPT !.mark = TRUE]
    BY <2>3, MarkDir
  <2>. HIDE DEF e, r
  <2>. QED  BY <1>2, <2>2, <2>3, <2>4 DEF r, SameSongAndList, Flags
<1>3. CASE Kind[n] = "container" /\ ~Unmodified(n, t, "container") /\ ContainerScan(n) # {}
  <2>. DEFINE e == MakeVirtualDirectory(n, t, "container", ContainerScan(n))
  <2>1. r = [db |-> e, modified |-> TRUE]
    BY <1>3 DEF UpdateContainerFile, Result
  <2>2. r.db = e /\ r.modified = TRUE
    BY <2>1
  <2>3. ContainerScan(n) \in SUBSET (Channels \cup Nodes)
    BY ContainerScanType DEF Flags
  <2>4. /\ Proper(e) /\ Attached(e, n) /\ Changed(db, e, n) /\ Leaf(e, n)
        /\ n \in DOMAIN e.dirs
        /\ e.dirs[n] = [mtime |-> t, mark |-> TRUE, device |-> "container",
                        tracks |-> ContainerScan(n)]
        /\ (n \in DOMAIN e.songs <=> n \in DOMAIN db.songs)
        /\ (n \in DOMAIN db.songs => e.songs[n] = db.songs[n])
        /\ (n \in DOMAIN e.lists <=> n \in DOMAIN db.lists)
        /\ (n \in DOMAIN db.lists => e.lists[n] = db.lists[n])
    BY <2>3, MakeVirtualDirectoryFacts
  <2>. HIDE DEF e, r
  <2>. QED  BY <1>3, <2>2, <2>4 DEF r, SameSongAndList
<1>4. CASE Kind[n] = "container" /\ ~Unmodified(n, t, "container") /\ ContainerScan(n) = {}
  <2>. DEFINE e == DeleteDirectories(db, {n})
  <2>1. r = [db |-> e, modified |-> (modified \/ n \in DOMAIN db.dirs)]
    BY <1>4 DEF UpdateContainerFile, Result
  <2>2. r.db = e /\ r.modified = (modified \/ n \in DOMAIN db.dirs)
    BY <2>1
  <2>3. /\ Proper(e) /\ Attached(e, n) /\ Changed(db, e, n)
        /\ DOMAIN e.songs = DOMAIN db.songs \ (Subtree({n}) \ {n})
        /\ DOMAIN e.dirs = DOMAIN db.dirs \ Subtree({n})
        /\ DOMAIN e.lists = DOMAIN db.lists \ (Subtree({n}) \ {n})
        /\ \A m \in DOMAIN e.songs : e.songs[m] = db.songs[m]
        /\ \A m \in DOMAIN e.lists : e.lists[m] = db.lists[m]
    BY DeleteOneDirectory
  <2>. HIDE DEF e
  <2>4. Leaf(e, n) /\ n \notin DOMAIN e.dirs
    BY <2>3, SubtreeOfOne DEF Leaf
  <2>5. SameSongAndList(db, e, n)
    BY <2>3 DEF SameSongAndList
  <2>. HIDE DEF r
  <2>. QED  BY <1>4, <2>2, <2>3, <2>4, <2>5 DEF r
<1>. QED  BY <1>1, <1>2, <1>3, <1>4

\* What UpdateSongFile() does: one of four things.
LEMMA UpdateSongFileFacts ==
  ASSUME Flags, Proper(db), NEW n \in Nodes, Attached(db, n), NEW t \in 0..MaxChanges
  PROVE  LET r == UpdateSongFile(n, t)
             c == UpdateContainerFile(n, t)
             current == n \in DOMAIN db.songs /\ db.songs[n].mtime = t /\ ~walk_discard
         IN /\ Proper(r.db) /\ Attached(r.db, n) /\ Changed(db, r.db, n)
            /\ r.modified \in BOOLEAN
            /\ \/ ~fs[n].access /\ r.db = db /\ r.modified = modified
               \/ fs[n].access /\ current /\ r = UpdatePlainSong(db, modified, n, t)
               \/ fs[n].access /\ ~current /\ IsContainer(n, t) /\ r = c
               \/ fs[n].access /\ ~current /\ ~IsContainer(n, t)
                    /\ r = UpdatePlainSong(c.db, c.modified, n, t)
<1>. DEFINE r == UpdateSongFile(n, t)
            c == UpdateContainerFile(n, t)
            current == n \in DOMAIN db.songs /\ db.songs[n].mtime = t /\ ~walk_discard
<1>0. /\ Proper(c.db) /\ Attached(c.db, n) /\ Changed(db, c.db, n) /\ c.modified \in BOOLEAN
  BY UpdateContainerFileFacts
<1>1. CASE ~fs[n].access
  <2>1. r = [db |-> db, modified |-> modified]
    BY <1>1 DEF UpdateSongFile, Result
  <2>2. r.db = db /\ r.modified = modified
    BY <2>1
  <2>3. Changed(db, db, n)
    BY ChangedNot
  <2>. QED  BY <1>1, <2>2, <2>3 DEF Flags
<1>2. CASE fs[n].access /\ current
  <2>1. r = UpdatePlainSong(db, modified, n, t)
    BY <1>2 DEF UpdateSongFile
  <2>2. modified \in BOOLEAN
    BY DEF Flags
  <2>. DEFINE p == UpdatePlainSong(db, modified, n, t)
  <2>3. Proper(p.db) /\ Attached(p.db, n) /\ Changed(db, p.db, n) /\ p.modified \in BOOLEAN
    <3>1. SongOutcome(db, modified, n, t, p)
      BY <2>2, UpdatePlainSongFacts
    <3>. HIDE DEF p
    <3>. QED  BY <3>1 DEF SongOutcome
  <2>. QED  BY <1>2, <2>1, <2>3
<1>3. CASE fs[n].access /\ ~current /\ IsContainer(n, t)
  <2>1. r = c
    BY <1>3 DEF UpdateSongFile
  <2>. QED  BY <1>0, <1>3, <2>1
<1>4. CASE fs[n].access /\ ~current /\ ~IsContainer(n, t)
  <2>. DEFINE p == UpdatePlainSong(c.db, c.modified, n, t)
  <2>1. r = p
    BY <1>4 DEF UpdateSongFile
  <2>. HIDE DEF c
  <2>2. Proper(p.db) /\ Attached(p.db, n) /\ Changed(c.db, p.db, n) /\ p.modified \in BOOLEAN
    <3>1. SongOutcome(c.db, c.modified, n, t, p)
      BY <1>0, UpdatePlainSongFacts
    <3>. HIDE DEF p
    <3>. QED  BY <3>1 DEF SongOutcome
  <2>3. Changed(db, p.db, n)
    BY <1>0, <2>2, ChangedTwice
  <2>. QED  BY <1>4, <2>1, <2>2, <2>3 DEF c
<1>. QED  BY <1>1, <1>2, <1>3, <1>4

\* What UpdateArchiveFile() finds in an archive.
ArchiveTracks(n) == IF Readable(n) THEN fs[n].tracks ELSE {}

\* What UpdateArchiveFile() does.
LEMMA UpdateArchiveFileFacts ==
  ASSUME Flags, Proper(db), NEW n \in Nodes, Attached(db, n), NEW t \in 0..MaxChanges
  PROVE  LET r == UpdateArchiveFile(n, t)
             e == r.db
         IN /\ Proper(e) /\ Attached(e, n) /\ Changed(db, e, n) /\ SameSongAndList(db, e, n)
            /\ r.modified \in BOOLEAN
            /\ n \in DOMAIN e.dirs
            /\ Unmodified(n, t, "archive") =>
                 /\ r.modified = modified
                 /\ e.dirs[n] = [db.dirs[n] EXCEPT !.mark = TRUE]
                 /\ DOMAIN e.songs = DOMAIN db.songs /\ DOMAIN e.dirs = DOMAIN db.dirs
                 /\ DOMAIN e.lists = DOMAIN db.lists
            /\ ~Unmodified(n, t, "archive") =>
                 /\ r.modified = (modified \/ n \in DOMAIN db.dirs \/ ArchiveTracks(n) # {})
                 /\ Leaf(e, n)
                 /\ e.dirs[n] = [mtime |-> t, mark |-> TRUE, device |-> "archive",
                                 tracks |-> ArchiveTracks(n)]
<1>. DEFINE r == UpdateArchiveFile(n, t)
<1>2. CASE Unmodified(n, t, "archive")
  <2>. DEFINE e == [db EXCEPT !.dirs = Mark(db.dirs, n)]
  <2>1. r = [db |-> e, modified |-> modified]
    BY <1>2 DEF UpdateArchiveFile, Result
  <2>2. r.db = e /\ r.modified = modified
    BY <2>1
  <2>3. n \in DOMAIN db.dirs
    BY <1>2 DEF Unmodified
  <2>4. /\ Proper(e) /\ Attached(e, n) /\ Changed(db, e, n)
        /\ e.songs = db.songs /\ e.lists = db.lists /\ DOMAIN e.dirs = DOMAIN db.dirs
        /\ e.dirs[n] = [db.dirs[n] EXCEPT !.mark = TRUE]
    BY <2>3, MarkDir
  <2>. HIDE DEF e, r
  <2>. QED  BY <1>2, <2>2, <2>3, <2>4 DEF r, SameSongAndList, Flags
<1>3. CASE ~Unmodified(n, t, "archive")
  <2>. DEFINE e == MakeVirtualDirectory(n, t, "archive", ArchiveTracks(n))
  <2>1. r = [db |-> e, modified |-> (modified \/ n \in DOMAIN db.dirs \/ ArchiveTracks(n) # {})]
    BY <1>3 DEF UpdateArchiveFile, Result, ArchiveTracks
  <2>2. r.db = e /\ r.modified = (modified \/ n \in DOMAIN db.dirs \/ ArchiveTracks(n) # {})
    BY <2>1
  <2>3. ArchiveTracks(n) \in SUBSET (Channels \cup Nodes)
    BY EntryFields DEF Flags, ArchiveTracks
  <2>4. /\ Proper(e) /\ Attached(e, n) /\ Changed(db, e, n) /\ Leaf(e, n)
        /\ n \in DOMAIN e.dirs
        /\ e.dirs[n] = [mtime |-> t, mark |-> TRUE, device |-> "archive",
                        tracks |-> ArchiveTracks(n)]
        /\ (n \in DOMAIN e.songs <=> n \in DOMAIN db.songs)
        /\ (n \in DOMAIN db.songs => e.songs[n] = db.songs[n])
        /\ (n \in DOMAIN e.lists <=> n \in DOMAIN db.lists)
        /\ (n \in DOMAIN db.lists => e.lists[n] = db.lists[n])
    BY <2>3, MakeVirtualDirectoryFacts
  <2>. HIDE DEF e, r
  <2>. QED  BY <1>3, <2>2, <2>4 DEF r, SameSongAndList
<1>. QED  BY <1>2, <1>3

\* PlaylistVector::UpdateOrInsert().
LEMMA UpdateOrInsertFacts ==
  ASSUME NEW d, Proper(d), NEW m \in BOOLEAN, NEW n \in Nodes, Attached(d, n),
         NEW t \in 0..MaxChanges
  PROVE  LET r == UpdateOrInsert(d, m, n, t)
             e == r.db
         IN /\ Proper(e) /\ Attached(e, n) /\ Changed(d, e, n)
            /\ e.songs = d.songs /\ e.dirs = d.dirs
            /\ r.modified \in BOOLEAN /\ (m => r.modified)
<1>. DEFINE r == UpdateOrInsert(d, m, n, t)
            v == [mtime |-> t, mark |-> TRUE]
            e == [d EXCEPT !.lists = With(d.lists, n, v)]
<1>1. CASE n \in DOMAIN d.lists /\ d.lists[n].mtime = t
  <2>1. r = [db |-> d, modified |-> m]
    BY <1>1 DEF UpdateOrInsert, Result
  <2>2. r.db = d /\ r.modified = m
    BY <2>1
  <2>3. Changed(d, d, n)
    BY ChangedNot
  <2>. QED  BY <2>2, <2>3
<1>2. CASE ~(n \in DOMAIN d.lists /\ d.lists[n].mtime = t)
  <2>1. r = [db |-> e, modified |-> TRUE]
    BY <1>2 DEF UpdateOrInsert, Result
  <2>2. r.db = e /\ r.modified = TRUE
    BY <2>1
  <2>3. v \in Playlist
    BY DEF Playlist
  <2>. HIDE DEF v
  <2>4. /\ Proper(e) /\ Attached(e, n) /\ Changed(d, e, n)
        /\ e.dirs = d.dirs /\ e.songs = d.songs
        /\ DOMAIN e.lists = DOMAIN d.lists \cup {n} /\ e.lists[n] = v
    BY <2>3, AddList
  <2>. HIDE DEF e
  <2>. QED  BY <2>2, <2>4
<1>. QED  BY <1>1, <1>2

\* What UpdatePlaylistFile() does to the directory of a CUE sheet.
LEMMA UpdatePlaylistFileFacts ==
  ASSUME Flags, Proper(db), NEW n \in Nodes, Attached(db, n), NEW t \in 0..MaxChanges,
         NEW media
  PROVE  LET r == UpdatePlaylistFile(n, t, media)
             e == r.db
         IN /\ Proper(e) /\ Attached(e, n) /\ Changed(db, e, n)
            /\ r.modified \in BOOLEAN /\ (modified => r.modified)
            /\ (n \in DOMAIN e.songs <=> n \in DOMAIN db.songs)
            /\ (n \in DOMAIN db.songs => e.songs[n] = db.songs[n])
            /\ \/ r.db = db /\ r.modified = modified
               \/ /\ n \in DOMAIN db.dirs /\ n \in DOMAIN e.dirs
                  /\ db.dirs[n].device = "playlist"
                  /\ e.dirs[n] = [db.dirs[n] EXCEPT !.mark = TRUE]
                  /\ DOMAIN e.songs = DOMAIN db.songs /\ DOMAIN e.dirs = DOMAIN db.dirs
               \/ /\ n \in DOMAIN e.dirs /\ Leaf(e, n)
                  /\ e.dirs[n] = [mtime |-> t, mark |-> TRUE, device |-> "playlist",
                                  tracks |-> fs[n].targets]
               \/ n \notin DOMAIN e.dirs /\ Leaf(e, n)
<1>. DEFINE r == UpdatePlaylistFile(n, t, media)
<1>1. CASE ShouldIgnoreCueFile(n, media)
  <2>1. r = [db |-> db, modified |-> modified]
    BY <1>1 DEF UpdatePlaylistFile, Result
  <2>2. r.db = db /\ r.modified = modified
    BY <2>1
  <2>3. Changed(db, db, n)
    BY ChangedNot
  <2>. QED  BY <2>2, <2>3 DEF Flags
<1>2. CASE ~ShouldIgnoreCueFile(n, media) /\ Unmodified(n, t, "playlist")
  <2>. DEFINE d == [db EXCEPT !.dirs = Mark(db.dirs, n)]
              u == UpdateOrInsert(d, modified, n, t)
  <2>1. r = u
    BY <1>2 DEF UpdatePlaylistFile
  <2>2. n \in DOMAIN db.dirs /\ db.dirs[n].device = "playlist" /\ modified \in BOOLEAN
    BY <1>2 DEF Unmodified, Flags
  <2>3. /\ Proper(d) /\ Attached(d, n) /\ Changed(db, d, n)
        /\ d.songs = db.songs /\ d.lists = db.lists /\ DOMAIN d.dirs = DOMAIN db.dirs
        /\ d.dirs[n] = [db.dirs[n] EXCEPT !.mark = TRUE]
    BY <2>2, MarkDir
  <2>. HIDE DEF d
  <2>4. /\ Proper(u.db) /\ Attached(u.db, n) /\ Changed(d, u.db, n)
        /\ u.db.songs = d.songs /\ u.db.dirs = d.dirs
        /\ u.modified \in BOOLEAN /\ (modified => u.modified)
    BY <2>2, <2>3, UpdateOrInsertFacts
  <2>. HIDE DEF u, r
  <2>5. Changed(db, u.db, n)
    BY <2>3, <2>4, ChangedTwice
  <2>. QED  BY <2>1, <2>2, <2>3, <2>4, <2>5 DEF r
<1>3. CASE ~ShouldIgnoreCueFile(n, media) /\ ~Unmodified(n, t, "playlist")
  <2>. DEFINE d == IF fs[n].targets # {}
                     THEN MakeVirtualDirectory(n, t, "playlist", fs[n].targets)
                     ELSE DeleteDirectories(db, {n})
              m == modified \/ n \in DOMAIN db.dirs
              u == UpdateOrInsert(d, m, n, t)
  <2>1. r = u
    BY <1>3 DEF UpdatePlaylistFile
  <2>2. modified \in BOOLEAN /\ m \in BOOLEAN /\ (modified => m)
    BY DEF Flags
  <2>3. fs[n].targets \in SUBSET (Channels \cup Nodes)
    BY EntryFields DEF Flags
  <2>4. /\ Proper(d) /\ Attached(d, n) /\ Changed(db, d, n) /\ Leaf(d, n)
        /\ (n \in DOMAIN d.songs <=> n \in DOMAIN db.songs)
        /\ (n \in DOMAIN db.songs => d.songs[n] = db.songs[n])
        /\ \/ n \notin DOMAIN d.dirs
           \/ /\ n \in DOMAIN d.dirs
              /\ d.dirs[n] = [mtime |-> t, mark |-> TRUE, device |-> "playlist",
                              tracks |-> fs[n].targets]
    <3>1. CASE fs[n].targets # {}
      <4>. DEFINE e == MakeVirtualDirectory(n, t, "playlist", fs[n].targets)
      <4>1. /\ Proper(e) /\ Attached(e, n) /\ Changed(db, e, n) /\ Leaf(e, n)
            /\ n \in DOMAIN e.dirs
            /\ e.dirs[n] = [mtime |-> t, mark |-> TRUE, device |-> "playlist",
                            tracks |-> fs[n].targets]
            /\ (n \in DOMAIN e.songs <=> n \in DOMAIN db.songs)
            /\ (n \in DOMAIN db.songs => e.songs[n] = db.songs[n])
        BY <2>3, MakeVirtualDirectoryFacts
      <4>2. d = e
        BY <3>1
      <4>. HIDE DEF e, d
      <4>. QED  BY <4>1, <4>2
    <3>2. CASE fs[n].targets = {}
      <4>. DEFINE e == DeleteDirectories(db, {n})
      <4>1. /\ Proper(e) /\ Attached(e, n) /\ Changed(db, e, n)
            /\ DOMAIN e.songs = DOMAIN db.songs \ (Subtree({n}) \ {n})
            /\ DOMAIN e.dirs = DOMAIN db.dirs \ Subtree({n})
            /\ DOMAIN e.lists = DOMAIN db.lists \ (Subtree({n}) \ {n})
            /\ \A k \in DOMAIN e.songs : e.songs[k] = db.songs[k]
        BY DeleteOneDirectory
      <4>2. d = e
        BY <3>2
      <4>. HIDE DEF e, d
      <4>3. Leaf(e, n) /\ n \notin DOMAIN e.dirs
        BY <4>1, SubtreeOfOne DEF Leaf
      <4>4. /\ (n \in DOMAIN e.songs <=> n \in DOMAIN db.songs)
            /\ (n \in DOMAIN db.songs => e.songs[n] = db.songs[n])
        BY <4>1
      <4>. QED  BY <4>1, <4>2, <4>3, <4>4
    <3>. QED  BY <3>1, <3>2
  <2>. HIDE DEF d, m
  <2>5. /\ Proper(u.db) /\ Attached(u.db, n) /\ Changed(d, u.db, n)
        /\ u.db.songs = d.songs /\ u.db.dirs = d.dirs
        /\ u.modified \in BOOLEAN /\ (m => u.modified)
    BY <2>2, <2>4, UpdateOrInsertFacts
  <2>. HIDE DEF u, r
  <2>6. Changed(db, u.db, n)
    BY <2>4, <2>5, ChangedTwice
  <2>7. Leaf(u.db, n)
    BY <2>4, <2>5, SubtreeOfOne DEF Leaf, Changed, LessAt
  <2>. QED  BY <2>1, <2>2, <2>4, <2>5, <2>6, <2>7 DEF r
<1>. QED  BY <1>1, <1>2, <1>3

\* UpdateRegularFile() changes what the database has at the file, and takes away
\* what it has below it; nothing else.
LEMMA UpdateRegularFileFacts ==
  ASSUME Flags, Proper(db), NEW n \in Nodes, Attached(db, n), NEW t \in 0..MaxChanges,
         NEW media
  PROVE  LET r == UpdateRegularFile(n, t, media)
         IN /\ Proper(r.db) /\ Attached(r.db, n) /\ Changed(db, r.db, n)
            /\ r.modified \in BOOLEAN
            /\ \/ Kind[n] \in {"song", "container"} /\ r = UpdateSongFile(n, t)
               \/ Kind[n] = "archive" /\ r = UpdateArchiveFile(n, t)
               \/ Kind[n] = "cue" /\ r = UpdatePlaylistFile(n, t, media)
               \/ /\ Kind[n] \notin {"song", "container", "archive", "cue"}
                  /\ r.db = db /\ r.modified = modified
<1>. DEFINE r == UpdateRegularFile(n, t, media)
<1>1. CASE Kind[n] \in {"song", "container"}
  <2>1. r = UpdateSongFile(n, t)
    BY <1>1 DEF UpdateRegularFile
  <2>. QED  BY <1>1, <2>1, UpdateSongFileFacts
<1>2. CASE Kind[n] = "archive"
  <2>1. r = UpdateArchiveFile(n, t)
    BY <1>2 DEF UpdateRegularFile
  <2>. QED  BY <1>2, <2>1, UpdateArchiveFileFacts
<1>3. CASE Kind[n] = "cue"
  <2>1. r = UpdatePlaylistFile(n, t, media)
    BY <1>3 DEF UpdateRegularFile
  <2>. QED  BY <1>3, <2>1, UpdatePlaylistFileFacts
<1>4. CASE Kind[n] \notin {"song", "container", "archive", "cue"}
  <2>1. r = [db |-> db, modified |-> modified]
    BY <1>4 DEF UpdateRegularFile, Result
  <2>2. r.db = db /\ r.modified = modified
    BY <2>1
  <2>3. Changed(db, db, n)
    BY ChangedNot
  <2>. QED  BY <1>4, <2>2, <2>3 DEF Flags
<1>. QED  BY <1>1, <1>2, <1>3, <1>4

----------------------------------------------------------------------------
(**************************************************************************)
(* Entries that are gone.                                                  *)
(**************************************************************************)

\* DatabaseEditor::DeleteNameIn().
LEMMA DeleteNameInFacts ==
  ASSUME NEW d, Proper(d), NEW n \in Nodes, Attached(d, n)
  PROVE  LET e == DeleteNameIn(d, n)
         IN /\ Proper(e) /\ Attached(e, n) /\ Changed(d, e, n) /\ Leaf(e, n)
            /\ n \notin DOMAIN e.songs /\ n \notin DOMAIN e.dirs /\ n \notin DOMAIN e.lists
<1>. DEFINE f == DeleteDirectories(d, {n})
            g == DeleteSongs(f, {n})
            e == [g EXCEPT !.lists = Without(g.lists, {n})]
<1>0. e = DeleteNameIn(d, n)
  BY DEF DeleteNameIn
<1>1. /\ Proper(f) /\ Attached(f, n) /\ Changed(d, f, n)
      /\ DOMAIN f.songs = DOMAIN d.songs \ (Subtree({n}) \ {n})
      /\ DOMAIN f.dirs = DOMAIN d.dirs \ Subtree({n})
      /\ DOMAIN f.lists = DOMAIN d.lists \ (Subtree({n}) \ {n})
      /\ \A m \in DOMAIN f.songs : f.songs[m] = d.songs[m]
      /\ \A m \in DOMAIN f.dirs : f.dirs[m] = d.dirs[m]
      /\ \A m \in DOMAIN f.lists : f.lists[m] = d.lists[m]
  BY DeleteOneDirectory
<1>. HIDE DEF f
<1>2. /\ Proper(g)
      /\ DOMAIN g.songs = DOMAIN f.songs \ {n} /\ g.dirs = f.dirs /\ g.lists = f.lists
      /\ \A m \in DOMAIN g.songs : g.songs[m] = f.songs[m]
  <2>1. Proper(f)
    BY <1>1
  <2>. QED  BY <2>1, DeleteSongsFacts
<1>. HIDE DEF g
<1>3. /\ Proper(e)
      /\ DOMAIN e.lists = DOMAIN g.lists \ {n} /\ e.dirs = g.dirs /\ e.songs = g.songs
      /\ \A m \in DOMAIN e.lists : e.lists[m] = g.lists[m]
  <2>1. Proper(g)
    BY <1>2
  <2>. QED  BY <2>1, DropListsFacts
<1>. HIDE DEF e
<1>4. /\ n \notin DOMAIN e.songs /\ n \notin DOMAIN e.dirs /\ n \notin DOMAIN e.lists
      /\ Leaf(e, n) /\ Attached(e, n)
  <2>1. n \in Subtree({n})
    BY SubtreeOfOne
  <2>2. /\ n \notin DOMAIN e.songs /\ n \notin DOMAIN e.dirs /\ n \notin DOMAIN e.lists
    BY <1>1, <1>2, <1>3, <2>1
  <2>3. Leaf(e, n)
    BY <1>1, <1>2, <1>3 DEF Leaf
  <2>4. Attached(e, n)
    BY <1>1, <1>2, <1>3 DEF Attached
  <2>. QED  BY <2>2, <2>3, <2>4
<1>5. Changed(f, e, n)
  BY <1>1, <1>2, <1>3, SubtreeOfOne DEF Changed, SameAt, LessAt
<1>6. Changed(d, e, n)
  BY <1>1, <1>5, ChangedTwice
<1>. QED  BY <1>0, <1>3, <1>4, <1>6

\* directory_set_stat() and MakeChild().
LEMMA MakeRealChildFacts ==
  ASSUME NEW d, Proper(d), NEW n \in Nodes, Attached(d, n)
  PROVE  LET e == MakeRealChild(d, n)
         IN /\ Proper(e) /\ Attached(e, n) /\ Changed(d, e, n)
            /\ e.songs = d.songs /\ e.lists = d.lists
            /\ DOMAIN e.dirs = DOMAIN d.dirs \cup {n}
            /\ e.dirs[n].device = "real"
            /\ e.dirs[n].tracks = IF n \in DOMAIN d.dirs THEN d.dirs[n].tracks ELSE {}
            /\ \A m \in DOMAIN d.dirs \ {n} : e.dirs[m] = d.dirs[m]
<1>. DEFINE e == MakeRealChild(d, n)
<1>0. d \in Databases
  BY DEF Proper
<1>1. CASE n \in DOMAIN d.dirs
  <2>. DEFINE v == [d.dirs[n] EXCEPT !.device = "real"]
              s == [d.dirs EXCEPT ![n] = v]
              x == [d EXCEPT !.dirs = s]
  <2>1. e = x
    BY <1>1 DEF MakeRealChild
  <2>2. d.dirs[n] \in Directory /\ d.dirs \in Partial(Directory) /\ DOMAIN d.dirs \subseteq Nodes
    BY <1>0, <1>1, Fields
  <2>3. v \in Directory /\ v.device = "real" /\ v.tracks = d.dirs[n].tracks
    BY <2>2 DEF Directory
  <2>. HIDE DEF v
  <2>4. d.dirs = [m \in DOMAIN d.dirs |-> d.dirs[m]] /\ \A m \in DOMAIN d.dirs : d.dirs[m] \in Directory
    BY <2>2, PartialFacts
  <2>5. /\ s = [m \in DOMAIN s |-> s[m]]
        /\ DOMAIN s = DOMAIN d.dirs /\ s[n] = v
        /\ \A m \in DOMAIN d.dirs \ {n} : s[m] = d.dirs[m]
    BY <1>1, <2>4
  <2>. HIDE DEF s
  <2>6. s \in Partial(Directory)
    BY <2>2, <2>3, <2>4, <2>5, PartialFacts
  <2>7. /\ x.songs = d.songs /\ x.dirs = s /\ x.lists = d.lists
        /\ Proper(x) /\ Attached(x, n) /\ Changed(d, x, n)
    BY <1>1, <2>5, <2>6, DirsChanged
  <2>. HIDE DEF e, x
  <2>. QED  BY <1>1, <2>1, <2>3, <2>5, <2>7 DEF e
<1>2. CASE n \notin DOMAIN d.dirs
  <2>. DEFINE v == [mtime |-> 0, mark |-> FALSE, device |-> "real", tracks |-> {}]
              x == [d EXCEPT !.dirs = With(d.dirs, n, v)]
  <2>1. e = x
    BY <1>2 DEF MakeRealChild
  <2>2. v \in Directory
    BY BoundsAssumption DEF Directory
  <2>4. v.device = "real" /\ v.tracks = {}
    OBVIOUS
  <2>. HIDE DEF v
  <2>. HIDE DEF e
  <2>0. Proper(d) /\ Attached(d, n)
    OBVIOUS
  <2>3. /\ Proper(x) /\ Attached(x, n) /\ Changed(d, x, n)
        /\ x.songs = d.songs /\ x.lists = d.lists
        /\ DOMAIN x.dirs = DOMAIN d.dirs \cup {n} /\ x.dirs[n] = v
        /\ \A m \in DOMAIN d.dirs \ {n} : x.dirs[m] = d.dirs[m]
    BY ONLY <2>0, <2>2, AddDir, n \in Nodes
  <2>. HIDE DEF e, x
  <2>. QED  BY <1>2, <2>1, <2>4, <2>3 DEF e
<1>. QED  BY <1>1, <1>2

\* UnmarkAllIn(): only the marks of the children change.
LEMMA UnmarkFacts ==
  ASSUME NEW V, NEW f \in Partial(V), NEW D,
         \A v \in V : [v EXCEPT !.mark = FALSE] \in V
  PROVE  LET g == [n \in DOMAIN f |->
                    IF Parent[n] = D THEN [f[n] EXCEPT !.mark = FALSE] ELSE f[n]]
         IN g \in Partial(V)
<1>. DEFINE g == [n \in DOMAIN f |->
                    IF Parent[n] = D THEN [f[n] EXCEPT !.mark = FALSE] ELSE f[n]]
<1>1. DOMAIN f \subseteq Nodes /\ \A n \in DOMAIN f : f[n] \in V
  BY PartialFacts
<1>2. ASSUME NEW n \in DOMAIN f PROVE g[n] \in V
  <2>1. f[n] \in V
    BY <1>1
  <2>2. [f[n] EXCEPT !.mark = FALSE] \in V
    BY <2>1
  <2>3. g[n] = [f[n] EXCEPT !.mark = FALSE] \/ g[n] = f[n]
    BY Zenon
  <2>. QED  BY <2>1, <2>2, <2>3
<1>3. DOMAIN g = DOMAIN f /\ g = [n \in DOMAIN g |-> g[n]]
  OBVIOUS
<1>. HIDE DEF g
<1>4. g \in Partial(V)
  BY <1>1, <1>2, <1>3, PartialFacts
<1>. QED  BY <1>4 DEF g

\* d and e hold the same; the marks of the children of D may differ.
Unmarked(d, e, D) ==
  /\ DOMAIN e.songs = DOMAIN d.songs /\ DOMAIN e.dirs = DOMAIN d.dirs
  /\ DOMAIN e.lists = DOMAIN d.lists
  /\ \A m \in DOMAIN d.songs : e.songs[m] =
       IF Parent[m] = D THEN [d.songs[m] EXCEPT !.mark = FALSE] ELSE d.songs[m]
  /\ \A m \in DOMAIN d.dirs : e.dirs[m] =
       IF Parent[m] = D THEN [d.dirs[m] EXCEPT !.mark = FALSE] ELSE d.dirs[m]
  /\ \A m \in DOMAIN d.lists : e.lists[m] =
       IF Parent[m] = D THEN [d.lists[m] EXCEPT !.mark = FALSE] ELSE d.lists[m]

\* All items of a directory are unmarked, and nothing else changes.
LEMMA UnmarkAllInFacts ==
  ASSUME NEW d, Proper(d), NEW D
  PROVE  Proper(UnmarkAllIn(d, D)) /\ Unmarked(d, UnmarkAllIn(d, D), D)
<1>. DEFINE unmark(f) == [n \in DOMAIN f |->
                           IF Parent[n] = D THEN [f[n] EXCEPT !.mark = FALSE] ELSE f[n]]
            e == UnmarkAllIn(d, D)
<1>0. d \in Databases /\ Tree(d)
  BY DEF Proper
<1>1. e = [songs |-> unmark(d.songs), dirs |-> unmark(d.dirs), lists |-> unmark(d.lists)]
  BY DEF UnmarkAllIn
<1>2. e.songs = unmark(d.songs) /\ e.dirs = unmark(d.dirs) /\ e.lists = unmark(d.lists)
  BY <1>1
<1>3. unmark(d.songs) \in Partial(Song)
  <2>1. d.songs \in Partial(Song) /\ \A v \in Song : [v EXCEPT !.mark = FALSE] \in Song
    BY <1>0, Fields, MarkedTypes
  <2>. QED  BY <2>1, UnmarkFacts
<1>4. unmark(d.dirs) \in Partial(Directory)
  <2>1. d.dirs \in Partial(Directory) /\ \A v \in Directory : [v EXCEPT !.mark = FALSE] \in Directory
    BY <1>0, Fields, MarkedTypes
  <2>. QED  BY <2>1, UnmarkFacts
<1>5. unmark(d.lists) \in Partial(Playlist)
  <2>1. d.lists \in Partial(Playlist) /\ \A v \in Playlist : [v EXCEPT !.mark = FALSE] \in Playlist
    BY <1>0, Fields, MarkedTypes
  <2>. QED  BY <2>1, UnmarkFacts
<1>6. e \in Databases
  BY <1>1, <1>3, <1>4, <1>5, FromFields
<1>7. /\ DOMAIN e.songs = DOMAIN d.songs /\ DOMAIN e.dirs = DOMAIN d.dirs
      /\ DOMAIN e.lists = DOMAIN d.lists
  BY <1>2
<1>8. /\ \A m \in DOMAIN d.songs : e.songs[m] =
           IF Parent[m] = D THEN [d.songs[m] EXCEPT !.mark = FALSE] ELSE d.songs[m]
      /\ \A m \in DOMAIN d.dirs : e.dirs[m] =
           IF Parent[m] = D THEN [d.dirs[m] EXCEPT !.mark = FALSE] ELSE d.dirs[m]
      /\ \A m \in DOMAIN d.lists : e.lists[m] =
           IF Parent[m] = D THEN [d.lists[m] EXCEPT !.mark = FALSE] ELSE d.lists[m]
  BY <1>2, Zenon
<1>. HIDE DEF e
<1>9. Tree(e)
  BY <1>0, <1>7 DEF Tree
<1>. QED  BY <1>6, <1>7, <1>8, <1>9, Zenon DEF Proper, Unmarked, e

----------------------------------------------------------------------------
(**************************************************************************)
(* The beginning and the end of UpdateDirectory().                         *)
(**************************************************************************)

\* The database after the beginning of UpdateDirectory().
Entered(d, D) ==
  LET x == Excluded(d, D)
  IN UnmarkAllIn(DeleteSongs(DeleteDirectories(d, x.dirs), x.songs), D)

\* A directory that the database has; it always has the music directory.
InTree(d, D) == D \in Nodes \cup {Root} /\ (D = Root \/ D \in DOMAIN d.dirs)

\* What lies below a directory is not above it.
LEMMA ChildrenFacts ==
  ASSUME NEW D \in Nodes \cup {Root}
  PROVE  /\ Subtree(Children(D)) \in SUBSET Nodes /\ Children(D) \in SUBSET Nodes
         /\ Children(D) \subseteq Subtree(Children(D))
         /\ D \notin Subtree(Children(D))
         /\ D \in Nodes => Ancestors[D] \cap Subtree(Children(D)) = {}
         /\ \A n \in Nodes : n \in Subtree(Children(D)) <=> Over(D, n)
<1>1. Children(D) \in SUBSET Children(D) /\ Children(D) \in SUBSET Nodes
  BY DEF Children
<1>2. /\ Subtree(Children(D)) \in SUBSET Nodes
      /\ Children(D) \subseteq Subtree(Children(D))
      /\ D \notin Subtree(Children(D))
      /\ D \in Nodes => Ancestors[D] \cap Subtree(Children(D)) = {}
  BY <1>1, SubtreeFacts
<1>3. ASSUME NEW n \in Nodes, Over(D, n) PROVE n \in Subtree(Children(D))
  <2>1. PICK c \in Children(D) : n = c \/ c \in Ancestors[n]
    BY <1>3, ChildOnTheWay
  <2>. QED  BY <2>1 DEF Subtree
<1>4. ASSUME NEW n \in Nodes, n \in Subtree(Children(D)) PROVE Over(D, n)
  <2>1. PICK c \in Children(D) : n = c \/ c \in Ancestors[n]
    BY <1>4 DEF Subtree
  <2>2. c \in Nodes /\ Parent[c] = D /\ Over(D, c)
    BY <2>1, ParentIsOver DEF Children
  <2>. QED  BY <2>1, <2>2, AncestorsTransitive DEF Over
<1>. QED  BY <1>1, <1>2, <1>3, <1>4

\* Entering a directory drops the excluded children and unmarks the others; it
\* changes nothing outside the directory.
LEMMA EnteredFacts ==
  ASSUME NEW d, Proper(d), NEW D, InTree(d, D), ignore \subseteq Nodes
  PROVE  LET e == Entered(d, D)
             x == DOMAIN d.dirs \cap Children(D) \cap ignore
         IN /\ Proper(e) /\ InTree(e, D)
            /\ DOMAIN e.songs = (DOMAIN d.songs \ (Subtree(x) \ x)) \ (Children(D) \cap ignore)
            /\ DOMAIN e.dirs = DOMAIN d.dirs \ Subtree(x)
            /\ DOMAIN e.lists = DOMAIN d.lists \ (Subtree(x) \ x)
            /\ \A m \in DOMAIN e.songs : e.songs[m] =
                 IF Parent[m] = D THEN [d.songs[m] EXCEPT !.mark = FALSE] ELSE d.songs[m]
            /\ \A m \in DOMAIN e.dirs : e.dirs[m] =
                 IF Parent[m] = D THEN [d.dirs[m] EXCEPT !.mark = FALSE] ELSE d.dirs[m]
            /\ \A m \in DOMAIN e.lists : e.lists[m] =
                 IF Parent[m] = D THEN [d.lists[m] EXCEPT !.mark = FALSE] ELSE d.lists[m]
            /\ \A m \in Nodes \ Subtree(Children(D)) : SameAt(d, e, m)
<1>. DEFINE x == DOMAIN d.dirs \cap Children(D) \cap ignore
            y == DOMAIN d.songs \cap Children(D) \cap ignore
            f == DeleteDirectories(d, x)
            g == DeleteSongs(f, y)
            e == UnmarkAllIn(g, D)
<1>0. e = Entered(d, D)
  BY DEF Entered, Excluded
<1>1. D \in Nodes \cup {Root} /\ (D = Root \/ D \in DOMAIN d.dirs) /\ x \in SUBSET Children(D)
  BY DEF InTree
<1>. HIDE DEF x, y
<1>2. /\ Proper(f)
      /\ DOMAIN f.songs = DOMAIN d.songs \ (Subtree(x) \ x)
      /\ DOMAIN f.dirs = DOMAIN d.dirs \ Subtree(x)
      /\ DOMAIN f.lists = DOMAIN d.lists \ (Subtree(x) \ x)
      /\ \A m \in DOMAIN f.songs : f.songs[m] = d.songs[m]
      /\ \A m \in DOMAIN f.dirs : f.dirs[m] = d.dirs[m]
      /\ \A m \in DOMAIN f.lists : f.lists[m] = d.lists[m]
      /\ \A m \in Nodes \ Subtree(x) : SameAt(d, f, m)
      /\ (D = Root \/ D \in DOMAIN d.dirs) => (D = Root \/ D \in DOMAIN f.dirs)
  BY <1>1, DeleteDirectoriesFacts
<1>. HIDE DEF f
<1>3. /\ Proper(g)
      /\ DOMAIN g.songs = DOMAIN f.songs \ y /\ g.dirs = f.dirs /\ g.lists = f.lists
      /\ \A m \in DOMAIN g.songs : g.songs[m] = f.songs[m]
  <2>1. Proper(f)
    BY <1>2
  <2>. QED  BY ONLY <2>1, DeleteSongsFacts
<1>. HIDE DEF g
<1>4. /\ Proper(e)
      /\ DOMAIN e.songs = DOMAIN g.songs /\ DOMAIN e.dirs = DOMAIN g.dirs
      /\ DOMAIN e.lists = DOMAIN g.lists
      /\ \A m \in DOMAIN g.songs : e.songs[m] =
           IF Parent[m] = D THEN [g.songs[m] EXCEPT !.mark = FALSE] ELSE g.songs[m]
      /\ \A m \in DOMAIN g.dirs : e.dirs[m] =
           IF Parent[m] = D THEN [g.dirs[m] EXCEPT !.mark = FALSE] ELSE g.dirs[m]
      /\ \A m \in DOMAIN g.lists : e.lists[m] =
           IF Parent[m] = D THEN [g.lists[m] EXCEPT !.mark = FALSE] ELSE g.lists[m]
  <2>1. Proper(g)
    BY <1>3
  <2>2. Proper(e) /\ Unmarked(g, e, D)
    BY <2>1, UnmarkAllInFacts
  <2>. QED  BY ONLY <2>2 DEF Unmarked
<1>. HIDE DEF e
<1>5. /\ DOMAIN e.songs = (DOMAIN d.songs \ (Subtree(x) \ x)) \ (Children(D) \cap ignore)
      /\ DOMAIN e.dirs = DOMAIN d.dirs \ Subtree(x)
      /\ DOMAIN e.lists = DOMAIN d.lists \ (Subtree(x) \ x)
  BY <1>2, <1>3, <1>4 DEF y
<1>6. /\ \A m \in DOMAIN e.songs : e.songs[m] =
           IF Parent[m] = D THEN [d.songs[m] EXCEPT !.mark = FALSE] ELSE d.songs[m]
      /\ \A m \in DOMAIN e.dirs : e.dirs[m] =
           IF Parent[m] = D THEN [d.dirs[m] EXCEPT !.mark = FALSE] ELSE d.dirs[m]
      /\ \A m \in DOMAIN e.lists : e.lists[m] =
           IF Parent[m] = D THEN [d.lists[m] EXCEPT !.mark = FALSE] ELSE d.lists[m]
  <2>1. /\ \A m \in DOMAIN e.songs : m \in DOMAIN g.songs /\ g.songs[m] = d.songs[m]
        /\ \A m \in DOMAIN e.dirs : m \in DOMAIN g.dirs /\ g.dirs[m] = d.dirs[m]
        /\ \A m \in DOMAIN e.lists : m \in DOMAIN g.lists /\ g.lists[m] = d.lists[m]
    BY <1>2, <1>3, <1>4
  <2>. QED  BY <1>4, <2>1, Zenon
<1>7. ASSUME NEW m \in Nodes, m \notin Subtree(Children(D)) PROVE SameAt(d, e, m)
  <2>1. m \notin Subtree(x) /\ Parent[m] # D /\ m \notin y
    BY <1>1, <1>7 DEF Subtree, Children, y
  <2>2. SameAt(d, f, m)
    BY <1>2, <2>1
  <2>3. /\ (m \in DOMAIN e.songs <=> m \in DOMAIN f.songs)
        /\ (m \in DOMAIN e.dirs <=> m \in DOMAIN f.dirs)
        /\ (m \in DOMAIN e.lists <=> m \in DOMAIN f.lists)
    BY <1>3, <1>4, <2>1
  <2>4. /\ (m \in DOMAIN e.songs => e.songs[m] = d.songs[m])
        /\ (m \in DOMAIN e.dirs => e.dirs[m] = d.dirs[m])
        /\ (m \in DOMAIN e.lists => e.lists[m] = d.lists[m])
    BY <1>6, <2>1
  <2>. QED  BY <2>2, <2>3, <2>4 DEF SameAt
<1>8. InTree(e, D)
  BY <1>1, <1>2, <1>3, <1>4 DEF InTree
<1>. QED  BY <1>0, <1>4, <1>5, <1>6, <1>7, <1>8 DEF x

\* The items of a directory that were not seen.
Gone(f, D) == {n \in DOMAIN f : Parent[n] = D /\ ~f[n].mark}

\* PurgeDeletedFromDirectory() without the songs of the directory itself.
Purged(d, D) ==
  LET f == DeleteSongs(DeleteDirectories(d, Gone(d.dirs, D)), Gone(d.songs, D))
  IN [f EXCEPT !.lists = Without(f.lists, Gone(d.lists, D))]

\* What the purge of a directory leaves.
LEMMA PurgedFacts ==
  ASSUME NEW d, Proper(d), NEW D, InTree(d, D)
  PROVE  LET e == Purged(d, D)
             x == Gone(d.dirs, D)
         IN /\ Proper(e) /\ InTree(e, D)
            /\ DOMAIN e.songs = (DOMAIN d.songs \ (Subtree(x) \ x)) \ Gone(d.songs, D)
            /\ DOMAIN e.dirs = DOMAIN d.dirs \ Subtree(x)
            /\ DOMAIN e.lists = (DOMAIN d.lists \ (Subtree(x) \ x)) \ Gone(d.lists, D)
            /\ \A m \in DOMAIN e.songs : e.songs[m] = d.songs[m]
            /\ \A m \in DOMAIN e.dirs : e.dirs[m] = d.dirs[m]
            /\ \A m \in DOMAIN e.lists : e.lists[m] = d.lists[m]
            /\ \A m \in Nodes \ Subtree(Children(D)) : SameAt(d, e, m)
<1>. DEFINE x == Gone(d.dirs, D)
            f == DeleteDirectories(d, x)
            g == DeleteSongs(f, Gone(d.songs, D))
            e == [g EXCEPT !.lists = Without(g.lists, Gone(d.lists, D))]
<1>0. e = Purged(d, D)
  BY DEF Purged
<1>a. d \in Databases
  BY DEF Proper
<1>b. DOMAIN d.songs \subseteq Nodes /\ DOMAIN d.dirs \subseteq Nodes /\ DOMAIN d.lists \subseteq Nodes
  BY <1>a, Fields
<1>1. D \in Nodes \cup {Root} /\ (D = Root \/ D \in DOMAIN d.dirs) /\ x \in SUBSET Children(D)
  BY <1>b DEF InTree, Gone, Children
<1>. HIDE DEF x
<1>2. /\ Proper(f)
      /\ DOMAIN f.songs = DOMAIN d.songs \ (Subtree(x) \ x)
      /\ DOMAIN f.dirs = DOMAIN d.dirs \ Subtree(x)
      /\ DOMAIN f.lists = DOMAIN d.lists \ (Subtree(x) \ x)
      /\ \A m \in DOMAIN f.songs : f.songs[m] = d.songs[m]
      /\ \A m \in DOMAIN f.dirs : f.dirs[m] = d.dirs[m]
      /\ \A m \in DOMAIN f.lists : f.lists[m] = d.lists[m]
      /\ \A m \in Nodes \ Subtree(x) : SameAt(d, f, m)
      /\ (D = Root \/ D \in DOMAIN d.dirs) => (D = Root \/ D \in DOMAIN f.dirs)
  BY <1>1, DeleteDirectoriesFacts
<1>. HIDE DEF f
<1>3. /\ Proper(g)
      /\ DOMAIN g.songs = DOMAIN f.songs \ Gone(d.songs, D) /\ g.dirs = f.dirs /\ g.lists = f.lists
      /\ \A m \in DOMAIN g.songs : g.songs[m] = f.songs[m]
  <2>1. Proper(f)
    BY <1>2
  <2>. QED  BY ONLY <2>1, DeleteSongsFacts
<1>. HIDE DEF g
<1>4. /\ Proper(e)
      /\ DOMAIN e.lists = DOMAIN g.lists \ Gone(d.lists, D) /\ e.dirs = g.dirs /\ e.songs = g.songs
      /\ \A m \in DOMAIN e.lists : e.lists[m] = g.lists[m]
  <2>1. Proper(g)
    BY <1>3
  <2>. QED  BY ONLY <2>1, DropListsFacts
<1>. HIDE DEF e
<1>5. /\ DOMAIN e.songs = (DOMAIN d.songs \ (Subtree(x) \ x)) \ Gone(d.songs, D)
      /\ DOMAIN e.dirs = DOMAIN d.dirs \ Subtree(x)
      /\ DOMAIN e.lists = (DOMAIN d.lists \ (Subtree(x) \ x)) \ Gone(d.lists, D)
  BY <1>2, <1>3, <1>4
<1>6. /\ \A m \in DOMAIN e.songs : e.songs[m] = d.songs[m]
      /\ \A m \in DOMAIN e.dirs : e.dirs[m] = d.dirs[m]
      /\ \A m \in DOMAIN e.lists : e.lists[m] = d.lists[m]
  BY <1>2, <1>3, <1>4
<1>7. ASSUME NEW m \in Nodes, m \notin Subtree(Children(D)) PROVE SameAt(d, e, m)
  <2>1. m \notin Subtree(x) /\ m \notin Gone(d.songs, D) /\ m \notin Gone(d.lists, D)
    BY <1>1, <1>7 DEF Subtree, Children, Gone
  <2>2. /\ (m \in DOMAIN e.songs <=> m \in DOMAIN d.songs)
        /\ (m \in DOMAIN e.dirs <=> m \in DOMAIN d.dirs)
        /\ (m \in DOMAIN e.lists <=> m \in DOMAIN d.lists)
    BY <1>5, <2>1
  <2>. QED  BY <1>6, <2>2 DEF SameAt
<1>8. InTree(e, D)
  BY <1>1, <1>2, <1>3, <1>4 DEF InTree
<1>. QED  BY <1>0, <1>4, <1>5, <1>6, <1>7, <1>8 DEF x

\* The database after UpdateDirectory() has come to its end.
Ended(d, D, t) ==
  LET r == PurgeDeletedFromDirectory(d, D)
  IN IF D = Root THEN r.db
     ELSE [r.db EXCEPT !.dirs[D].mark = TRUE, !.dirs[D].mtime = t]

\* PurgeDeletedFromDirectory(), with the tracks of the file the directory once was.
LEMMA PurgeDeletedFacts ==
  ASSUME NEW d, NEW D
  PROVE  LET r == PurgeDeletedFromDirectory(d, D)
             tracks == D # Root /\ d.dirs[D].tracks # {}
         IN /\ r.db = IF tracks THEN [Purged(d, D) EXCEPT !.dirs[D].tracks = {}]
                                ELSE Purged(d, D)
            /\ r.modified = (Gone(d.dirs, D) \cup Gone(d.songs, D) # {} \/ tracks)
<1>. DEFINE r == PurgeDeletedFromDirectory(d, D)
            tracks == D # Root /\ d.dirs[D].tracks # {}
            a == IF tracks THEN [Purged(d, D) EXCEPT !.dirs[D].tracks = {}] ELSE Purged(d, D)
            b == (Gone(d.dirs, D) \cup Gone(d.songs, D) # {} \/ tracks)
<1>1. r = [db |-> a, modified |-> b]
  BY DEF PurgeDeletedFromDirectory, Purged, Gone, Result
<1>. HIDE DEF a, b
<1>2. r.db = a /\ r.modified = b
  BY <1>1
<1>. QED  BY <1>2 DEF a, b

\* The record of a directory once it was read.
LEMMA Restamped ==
  ASSUME NEW y \in Directory, NEW t \in 0..MaxChanges
  PROVE  [y EXCEPT !.mark = TRUE, !.mtime = t]
           = [mtime |-> t, mark |-> TRUE, device |-> y.device, tracks |-> y.tracks]
<1>. DEFINE z == [y EXCEPT !.mark = TRUE, !.mtime = t]
            v == [mtime |-> t, mark |-> TRUE, device |-> y.device, tracks |-> y.tracks]
<1>1. z \in Directory /\ v \in Directory
  BY DEF Directory
<1>2. z.mtime = t /\ z.mark = TRUE /\ z.device = y.device /\ z.tracks = y.tracks
  BY DEF Directory
<1>3. v.mtime = t /\ v.mark = TRUE /\ v.device = y.device /\ v.tracks = y.tracks
  OBVIOUS
<1>. HIDE DEF z, v
<1>4. z = v
  BY <1>1, <1>2, <1>3 DEF Directory
<1>. QED  BY <1>4 DEF z, v

\* The database after the end of UpdateDirectory().
LEMMA EndedFacts ==
  ASSUME NEW d, Proper(d), NEW D, InTree(d, D), NEW t \in 0..MaxChanges
  PROVE  LET e == Ended(d, D, t)
             p == Purged(d, D)
         IN /\ Proper(e) /\ InTree(e, D)
            /\ e.songs = p.songs /\ e.lists = p.lists /\ DOMAIN e.dirs = DOMAIN p.dirs
            /\ \A m \in DOMAIN p.dirs : m # D => e.dirs[m] = p.dirs[m]
            /\ D # Root => /\ D \in DOMAIN d.dirs /\ D \in DOMAIN e.dirs
                           /\ e.dirs[D] = [mtime |-> t, mark |-> TRUE,
                                           device |-> d.dirs[D].device, tracks |-> {}]
<1>. DEFINE e == Ended(d, D, t)
            p == Purged(d, D)
            r == PurgeDeletedFromDirectory(d, D)
            v == [mtime |-> t, mark |-> TRUE, device |-> d.dirs[D].device, tracks |-> {}]
<1>1. /\ Proper(p) /\ InTree(p, D) /\ \A m \in DOMAIN p.dirs : p.dirs[m] = d.dirs[m]
  BY PurgedFacts
<1>2. /\ r.db = IF D # Root /\ d.dirs[D].tracks # {} THEN [p EXCEPT !.dirs[D].tracks = {}] ELSE p
  BY PurgeDeletedFacts
<1>3. CASE D = Root
  <2>1. e = p
    BY <1>2, <1>3 DEF Ended
  <2>2. \A m \in DOMAIN p.dirs : e.dirs[m] = p.dirs[m]
    BY <2>1
  <2>. HIDE DEF e, p
  <2>. QED  BY <1>1, <1>3, <2>1, <2>2 DEF e, p
<1>4. CASE D # Root
  <2>. HIDE DEF p
  <2>0. p \in Databases
    BY <1>1 DEF Proper
  <2>1. p.dirs \in Partial(Directory) /\ DOMAIN p.dirs \subseteq Nodes
    BY <2>0, Fields
  <2>2. D \in DOMAIN p.dirs /\ p.dirs[D] = d.dirs[D] /\ D \in DOMAIN d.dirs
    BY <1>1, <1>4 DEF InTree
  <2>3. p.dirs[D] \in Directory
    BY <2>1, <2>2, PartialFacts
  <2>4. v \in Directory
    BY <2>2, <2>3 DEF Directory
  <2>. DEFINE s == [p.dirs EXCEPT ![D] = v]
              x == [p EXCEPT !.dirs = s]
  <2>x. x = [songs |-> p.songs, dirs |-> s, lists |-> p.lists]
    <3>. HIDE DEF s
    <3>. QED  BY <2>0, Updates
  <2>5. e = x
    <3>. DEFINE q == r.db
    <3>1. CASE d.dirs[D].tracks # {}
      <4>1. q = [p EXCEPT !.dirs[D].tracks = {}]
        BY <1>2, <1>4, <3>1
      <4>2. q = [p EXCEPT !.dirs = [p.dirs EXCEPT ![D] = [p.dirs[D] EXCEPT !.tracks = {}]]]
        BY <4>1
      <4>. DEFINE w == [p.dirs[D] EXCEPT !.tracks = {}]
                  u == [p.dirs EXCEPT ![D] = w]
      <4>3. w \in Directory /\ w = [mtime |-> p.dirs[D].mtime, mark |-> p.dirs[D].mark,
                                    device |-> p.dirs[D].device, tracks |-> {}]
        BY <2>3 DEF Directory
      <4>4. [w EXCEPT !.mark = TRUE, !.mtime = t] = v
        <5>. HIDE DEF w
        <5>1. w.device = p.dirs[D].device /\ w.tracks = {}
          BY <4>3
        <5>2. [w EXCEPT !.mark = TRUE, !.mtime = t]
                = [mtime |-> t, mark |-> TRUE, device |-> w.device, tracks |-> w.tracks]
          BY <4>3, Restamped
        <5>. QED  BY <2>2, <5>1, <5>2
      <4>. HIDE DEF w
      <4>5. q = [songs |-> p.songs, dirs |-> u, lists |-> p.lists]
        BY <2>0, <4>2, Updates DEF w
      <4>6. e = [q EXCEPT !.dirs[D].mark = TRUE, !.dirs[D].mtime = t]
        BY <1>4 DEF Ended
      <4>. HIDE DEF q
      <4>7. e = [songs |-> p.songs,
                 dirs |-> [u EXCEPT ![D].mark = TRUE, ![D].mtime = t], lists |-> p.lists]
        <5>. HIDE DEF u, e
        <5>. QED  BY <4>5, <4>6
      <4>8. p.dirs = [m \in DOMAIN p.dirs |-> p.dirs[m]]
        BY <2>1, PartialFacts
      <4>9. [u EXCEPT ![D].mark = TRUE, ![D].mtime = t] = s
        <5>1. DOMAIN u = DOMAIN p.dirs /\ u[D] = w
          BY <2>2, <4>8
        <5>2. [u EXCEPT ![D].mark = TRUE, ![D].mtime = t]
                = [u EXCEPT ![D] = [w EXCEPT !.mark = TRUE, !.mtime = t]]
          BY <5>1, <2>2
        <5>3. [u EXCEPT ![D] = v] = s
          BY <2>2, <4>8
        <5>. QED  BY <4>4, <5>2, <5>3
      <4>. HIDE DEF e, s, x, u
      <4>. QED  BY <2>x, <4>7, <4>9
    <3>2. CASE d.dirs[D].tracks = {}
      <4>1. q = p
        BY <1>2, <1>4, <3>2
      <4>. DEFINE w == p.dirs[D]
      <4>3. [w EXCEPT !.mark = TRUE, !.mtime = t] = v
        BY <2>2, <2>3, <3>2, Restamped
      <4>4. e = [q EXCEPT !.dirs[D].mark = TRUE, !.dirs[D].mtime = t]
        BY <1>4 DEF Ended
      <4>5. p = [songs |-> p.songs, dirs |-> p.dirs, lists |-> p.lists]
        BY <2>0 DEF Databases
      <4>6. p.dirs = [m \in DOMAIN p.dirs |-> p.dirs[m]]
        BY <2>1, PartialFacts
      <4>7. e = [songs |-> p.songs,
                 dirs |-> [p.dirs EXCEPT ![D].mark = TRUE, ![D].mtime = t], lists |-> p.lists]
        <5>. HIDE DEF e, q
        <5>. QED  BY <4>1, <4>4, <4>5
      <4>8. [p.dirs EXCEPT ![D].mark = TRUE, ![D].mtime = t]
              = [p.dirs EXCEPT ![D] = [w EXCEPT !.mark = TRUE, !.mtime = t]]
        BY <2>2, <4>6
      <4>9. [p.dirs EXCEPT ![D].mark = TRUE, ![D].mtime = t] = s
        BY <4>3, <4>8
      <4>. HIDE DEF e, s, x
      <4>. QED  BY <2>x, <4>7, <4>9
    <3>. QED  BY <3>1, <3>2
  <2>6. p.dirs = [m \in DOMAIN p.dirs |-> p.dirs[m]] /\ \A m \in DOMAIN p.dirs : p.dirs[m] \in Directory
    BY <2>1, PartialFacts
  <2>. HIDE DEF v
  <2>7. /\ s = [m \in DOMAIN s |-> s[m]]
        /\ DOMAIN s = DOMAIN p.dirs /\ s[D] = v
        /\ \A m \in DOMAIN p.dirs \ {D} : s[m] = p.dirs[m]
    BY <2>2, <2>6
  <2>. HIDE DEF s
  <2>8. s \in Partial(Directory)
    BY <2>1, <2>2, <2>4, <2>6, <2>7, PartialFacts
  <2>9. /\ x.songs = p.songs /\ x.dirs = s /\ x.lists = p.lists
        /\ Proper(x) /\ Attached(x, D) /\ Changed(p, x, D)
    <3>1. Proper(p) /\ D \in Nodes /\ Attached(p, D)
      BY <1>1, <2>1, <2>2 DEF Proper, Tree, Attached
    <3>. QED  BY <2>2, <2>7, <2>8, <3>1, DirsChanged
  <2>. HIDE DEF x, e
  <2>10. InTree(e, D)
    BY <2>1, <2>2, <2>5, <2>7, <2>9 DEF InTree
  <2>11. \A m \in DOMAIN p.dirs : m # D => e.dirs[m] = p.dirs[m]
    BY <2>5, <2>7, <2>9
  <2>12. e.dirs[D] = v /\ DOMAIN e.dirs = DOMAIN p.dirs
    BY <2>5, <2>7, <2>9
  <2>. QED  BY <1>4, <2>2, <2>5, <2>9, <2>10, <2>11, <2>12 DEF e, p, v
<1>. QED  BY <1>3, <1>4

----------------------------------------------------------------------------
(**************************************************************************)
(* The end of a walk, and saving.                                          *)
(**************************************************************************)

\* Directory::PruneEmpty(): the songs and playlists stay, and of the directories
\* those that lead to one, or hold tracks.
LEMMA PruneEmptyFacts ==
  ASSUME NEW d, Proper(d)
  PROVE  LET e == PruneEmpty(d)
         IN /\ Proper(e) /\ e.songs = d.songs /\ e.lists = d.lists
            /\ DOMAIN e.dirs \subseteq DOMAIN d.dirs
            /\ \A n \in DOMAIN e.dirs : e.dirs[n] = d.dirs[n]
            /\ \A n \in DOMAIN d.dirs : d.dirs[n].tracks # {} => n \in DOMAIN e.dirs
            /\ \A n \in DOMAIN e.dirs :
                 \/ d.dirs[n].tracks # {}
                 \/ \E m \in DOMAIN d.songs \cup DOMAIN d.dirs \cup DOMAIN d.lists : Parent[m] = n
<1>. DEFINE holds(n) == \/ d.dirs[n].tracks # {}
                        \/ \E m \in DOMAIN d.songs \cup DOMAIN d.lists : Parent[m] = n
            keep == {n \in DOMAIN d.dirs : \E m \in DOMAIN d.dirs :
                       holds(m) /\ (m = n \/ n \in Ancestors[m])}
            e == PruneEmpty(d)
<1>0. d \in Databases /\ Tree(d)
  BY DEF Proper
<1>1. e = [d EXCEPT !.dirs = Restrict(d.dirs, keep)]
  BY DEF PruneEmpty
<1>2. keep \subseteq DOMAIN d.dirs
  OBVIOUS
<1>3. d.songs \in Partial(Song) /\ d.dirs \in Partial(Directory) /\ d.lists \in Partial(Playlist)
  BY <1>0, Fields
<1>3b. /\ DOMAIN d.songs \subseteq Nodes /\ DOMAIN d.dirs \subseteq Nodes /\ DOMAIN d.lists \subseteq Nodes
       /\ \A n \in DOMAIN d.dirs : d.dirs[n] \in Directory
  BY <1>0, Fields
<1>4. ASSUME NEW n \in keep, Parent[n] # Root PROVE Parent[n] \in keep
  <2>1. n \in Nodes /\ Parent[n] \in DOMAIN d.dirs
    BY <1>0, <1>3b, <1>4 DEF Tree
  <2>2. PICK m \in DOMAIN d.dirs : holds(m) /\ (m = n \/ n \in Ancestors[m])
    OBVIOUS
  <2>3. Parent[n] \in Ancestors[n]
    BY <1>4, <2>1, AncestorsUnfold
  <2>4. Parent[n] \in Ancestors[m]
    BY <1>3b, <2>2, <2>3, AncestorsTransitive
  <2>. QED  BY <2>1, <2>2, <2>4
<1>5. ASSUME NEW n \in DOMAIN d.songs \cup DOMAIN d.lists, Parent[n] # Root PROVE Parent[n] \in keep
  <2>1. Parent[n] \in DOMAIN d.dirs
    BY <1>0, <1>5 DEF Tree
  <2>. QED  BY <2>1
<1>6. \A n \in DOMAIN d.dirs : d.dirs[n].tracks # {} => n \in keep
  OBVIOUS
<1>7. ASSUME NEW n \in keep
      PROVE  \/ d.dirs[n].tracks # {}
             \/ \E m \in DOMAIN d.songs \cup DOMAIN d.dirs \cup DOMAIN d.lists : Parent[m] = n
  <2>1. PICK m \in DOMAIN d.dirs : holds(m) /\ (m = n \/ n \in Ancestors[m])
    OBVIOUS
  <2>2. CASE m = n
    BY <2>1, <2>2
  <2>3. CASE n \in Ancestors[m]
    <3>. DEFINE B == {k \in Nodes : k \in DOMAIN d.dirs /\ n \in Ancestors[k]}
    <3>1. B \in SUBSET Nodes /\ B # {}
      BY <1>3b, <2>1, <2>3
    <3>2. PICK k \in B : Parent[k] \notin B
      BY <3>1, TreeAssumption
    <3>3. Ancestors[k] = IF Parent[k] = Root THEN {} ELSE {Parent[k]} \cup Ancestors[Parent[k]]
      BY AncestorsUnfold
    <3>4. Parent[k] # Root /\ Parent[k] \in DOMAIN d.dirs
      BY <1>0, <3>2, <3>3 DEF Tree
    <3>5. Parent[k] = n
      BY <1>3b, <3>2, <3>3, <3>4
    <3>. QED  BY <3>2, <3>5
  <2>. QED  BY <2>1, <2>2, <2>3
<1>. HIDE DEF keep
<1>. DEFINE s == Restrict(d.dirs, keep)
<1>8. s = [n \in keep |-> d.dirs[n]]
  BY DEF Restrict
<1>9. DOMAIN s = keep /\ (\A n \in keep : s[n] = d.dirs[n]) /\ s = [n \in DOMAIN s |-> s[n]]
  BY <1>8
<1>. HIDE DEF s
<1>10. s \in Partial(Directory)
  BY <1>2, <1>3b, <1>9, PartialFacts
<1>11. e = [songs |-> d.songs, dirs |-> s, lists |-> d.lists]
  BY <1>0, <1>1, Updates DEF s
<1>12. e.songs = d.songs /\ e.dirs = s /\ e.lists = d.lists
  BY <1>11
<1>13. e \in Databases
  BY <1>3, <1>10, <1>11, FromFields
<1>. HIDE DEF e
<1>14. Tree(e)
  BY <1>2, <1>4, <1>5, <1>9, <1>12 DEF Tree
<1>. QED  BY <1>2, <1>6, <1>7, <1>9, <1>12, <1>13, <1>14 DEF e, Proper

\* The database file has everything but the marks.
SameButMarks(d, e) ==
  /\ DOMAIN e.songs = DOMAIN d.songs /\ DOMAIN e.dirs = DOMAIN d.dirs
  /\ DOMAIN e.lists = DOMAIN d.lists
  /\ \A m \in DOMAIN d.songs : e.songs[m] = [d.songs[m] EXCEPT !.mark = FALSE]
  /\ \A m \in DOMAIN d.dirs : e.dirs[m] = [d.dirs[m] EXCEPT !.mark = FALSE]
  /\ \A m \in DOMAIN d.lists : e.lists[m] = [d.lists[m] EXCEPT !.mark = FALSE]

\* Unmarking all items of a list.
LEMMA UnmarkedPartial ==
  ASSUME NEW V, NEW f \in Partial(V), \A v \in V : [v EXCEPT !.mark = FALSE] \in V
  PROVE  [n \in DOMAIN f |-> [f[n] EXCEPT !.mark = FALSE]] \in Partial(V)
<1>. DEFINE g == [n \in DOMAIN f |-> [f[n] EXCEPT !.mark = FALSE]]
<1>1. DOMAIN f \subseteq Nodes /\ \A n \in DOMAIN f : f[n] \in V
  BY PartialFacts
<1>2. \A n \in DOMAIN f : g[n] \in V
  BY <1>1
<1>3. DOMAIN g = DOMAIN f /\ g = [n \in DOMAIN g |-> g[n]]
  OBVIOUS
<1>. HIDE DEF g
<1>4. g \in Partial(V)
  BY <1>1, <1>2, <1>3, PartialFacts
<1>. QED  BY <1>4 DEF g

\* What is written to the file is the database without the marks.
LEMMA SavedFacts ==
  ASSUME NEW d, Proper(d)
  PROVE  Proper(Saved(d)) /\ SameButMarks(d, Saved(d))
<1>. DEFINE unmark(f) == [n \in DOMAIN f |-> [f[n] EXCEPT !.mark = FALSE]]
            e == Saved(d)
<1>0. d \in Databases /\ Tree(d)
  BY DEF Proper
<1>1. e = [songs |-> unmark(d.songs), dirs |-> unmark(d.dirs), lists |-> unmark(d.lists)]
  BY DEF Saved
<1>2. e.songs = unmark(d.songs) /\ e.dirs = unmark(d.dirs) /\ e.lists = unmark(d.lists)
  BY <1>1
<1>3. unmark(d.songs) \in Partial(Song)
  <2>1. d.songs \in Partial(Song) /\ \A v \in Song : [v EXCEPT !.mark = FALSE] \in Song
    BY <1>0, Fields, MarkedTypes
  <2>. QED  BY <2>1, UnmarkedPartial
<1>4. unmark(d.dirs) \in Partial(Directory)
  <2>1. d.dirs \in Partial(Directory) /\ \A v \in Directory : [v EXCEPT !.mark = FALSE] \in Directory
    BY <1>0, Fields, MarkedTypes
  <2>. QED  BY <2>1, UnmarkedPartial
<1>5. unmark(d.lists) \in Partial(Playlist)
  <2>1. d.lists \in Partial(Playlist) /\ \A v \in Playlist : [v EXCEPT !.mark = FALSE] \in Playlist
    BY <1>0, Fields, MarkedTypes
  <2>. QED  BY <2>1, UnmarkedPartial
<1>6. e \in Databases
  BY <1>1, <1>3, <1>4, <1>5, FromFields
<1>7. SameButMarks(d, e)
  BY <1>2 DEF SameButMarks
<1>. HIDE DEF e
<1>9. Tree(e)
  BY <1>0, <1>7 DEF Tree, SameButMarks
<1>. QED  BY <1>6, <1>7, <1>9 DEF Proper, e

\* The database without anything is a tree.
LEMMA EmptyFacts ==
  /\ Proper(Empty)
  /\ DOMAIN Empty.songs = {} /\ DOMAIN Empty.dirs = {} /\ DOMAIN Empty.lists = {}
<1>1. Empty.songs = << >> /\ Empty.dirs = << >> /\ Empty.lists = << >>
  BY DEF Empty
<1>2. Empty \in Databases
  BY EmptyIsPartial, FromFields DEF Empty
<1>3. DOMAIN Empty.songs = {} /\ DOMAIN Empty.dirs = {} /\ DOMAIN Empty.lists = {}
  BY <1>1, EmptyIsPartial
<1>. QED  BY <1>2, <1>3 DEF Proper, Tree

\* PurgeDanglingFromPlaylists(): what is held stays; the tracks of the CUE sheets
\* are those that have a song.
LEMMA PurgeDanglingFacts ==
  ASSUME NEW d, Proper(d)
  PROVE  LET r == PurgeDanglingFromPlaylists(d)
             e == r.db
         IN /\ Proper(e) /\ r.modified \in BOOLEAN
            /\ DOMAIN e.songs = DOMAIN d.songs /\ DOMAIN e.dirs = DOMAIN d.dirs
            /\ e.lists = d.lists
            /\ \A n \in DOMAIN d.songs : /\ e.songs[n].mtime = d.songs[n].mtime
                                         /\ e.songs[n].channels = d.songs[n].channels
                                         /\ e.songs[n].mark = d.songs[n].mark
            /\ \A n \in DOMAIN d.dirs :
                 /\ e.dirs[n].device = d.dirs[n].device /\ e.dirs[n].mtime = d.dirs[n].mtime
                 /\ e.dirs[n].mark = d.dirs[n].mark
                 /\ e.dirs[n].tracks \subseteq d.dirs[n].tracks
                 /\ d.dirs[n].device # "playlist" => e.dirs[n] = d.dirs[n]
                 /\ d.dirs[n].device = "playlist" => e.dirs[n].tracks \subseteq DOMAIN e.songs
                 /\ ~r.modified => e.dirs[n].tracks = d.dirs[n].tracks
<1>. DEFINE r == PurgeDanglingFromPlaylists(d)
            lists == {n \in DOMAIN d.dirs : d.dirs[n].device = "playlist"}
            dangling == {n \in lists : ~(d.dirs[n].tracks \subseteq DOMAIN d.songs)}
            targets == UNION {d.dirs[n].tracks : n \in lists}
            s == [n \in DOMAIN d.songs |-> [d.songs[n] EXCEPT !.in_playlist = n \in targets]]
            c == [n \in DOMAIN d.dirs |-> IF n \in dangling
                    THEN [d.dirs[n] EXCEPT !.tracks = d.dirs[n].tracks \cap DOMAIN d.songs]
                    ELSE d.dirs[n]]
<1>0. d \in Databases /\ Tree(d)
  BY DEF Proper
<1>1. r = [db |-> [songs |-> s, dirs |-> c, lists |-> d.lists], modified |-> (dangling # {})]
  BY DEF PurgeDanglingFromPlaylists, Result
<1>2. /\ DOMAIN d.songs \subseteq Nodes /\ DOMAIN d.dirs \subseteq Nodes
      /\ \A n \in DOMAIN d.songs : d.songs[n] \in Song
      /\ \A n \in DOMAIN d.dirs : d.dirs[n] \in Directory
      /\ d.lists \in Partial(Playlist)
  BY <1>0, Fields
<1>3. ASSUME NEW n \in DOMAIN d.songs
      PROVE  /\ s[n] \in Song /\ s[n].mtime = d.songs[n].mtime
             /\ s[n].channels = d.songs[n].channels /\ s[n].mark = d.songs[n].mark
  <2>. DEFINE b == n \in targets
  <2>1. d.songs[n] \in Song /\ b \in BOOLEAN
    BY <1>2
  <2>2. s[n] = [d.songs[n] EXCEPT !.in_playlist = b]
    OBVIOUS
  <2>. HIDE DEF b, s
  <2>. QED  BY <2>1, <2>2 DEF Song
<1>4. ASSUME NEW n \in DOMAIN d.dirs
      PROVE  /\ c[n] \in Directory /\ c[n].device = d.dirs[n].device
             /\ c[n].mtime = d.dirs[n].mtime /\ c[n].mark = d.dirs[n].mark
             /\ c[n].tracks \subseteq d.dirs[n].tracks
             /\ d.dirs[n].device # "playlist" => c[n] = d.dirs[n]
             /\ d.dirs[n].device = "playlist" => c[n].tracks \subseteq DOMAIN d.songs
             /\ dangling = {} => c[n].tracks = d.dirs[n].tracks
  <2>1. d.dirs[n] \in Directory
    BY <1>2
  <2>2. CASE n \in dangling
    <3>. DEFINE k == d.dirs[n].tracks \cap DOMAIN d.songs
    <3>1. c[n] = [d.dirs[n] EXCEPT !.tracks = k]
      BY <2>2
    <3>2. k \subseteq d.dirs[n].tracks /\ k \subseteq DOMAIN d.songs
      OBVIOUS
    <3>3. d.dirs[n].device = "playlist" /\ dangling # {}
      BY <2>2
    <3>. HIDE DEF k, c, dangling
    <3>4. /\ c[n] \in Directory /\ c[n].device = d.dirs[n].device /\ c[n].tracks = k
          /\ c[n].mtime = d.dirs[n].mtime /\ c[n].mark = d.dirs[n].mark
      BY <2>1, <3>1, <3>2 DEF Directory
    <3>. QED  BY <3>2, <3>3, <3>4
  <2>3. CASE n \notin dangling
    <3>1. c[n] = d.dirs[n]
      BY <2>3
    <3>2. d.dirs[n].device = "playlist" => d.dirs[n].tracks \subseteq DOMAIN d.songs
      BY <2>3
    <3>. HIDE DEF c, dangling
    <3>. QED  BY <2>1, <3>1, <3>2
  <2>. QED  BY <2>2, <2>3
<1>5. DOMAIN s = DOMAIN d.songs /\ s = [n \in DOMAIN s |-> s[n]]
  OBVIOUS
<1>6. DOMAIN c = DOMAIN d.dirs /\ c = [n \in DOMAIN c |-> c[n]]
  OBVIOUS
<1>. HIDE DEF s, c, dangling
<1>7. s \in Partial(Song)
  BY <1>2, <1>3, <1>5, PartialFacts
<1>8. c \in Partial(Directory)
  BY <1>2, <1>4, <1>6, PartialFacts
<1>. DEFINE e == [songs |-> s, dirs |-> c, lists |-> d.lists]
<1>10. r.db = e /\ r.modified = (dangling # {})
  BY <1>1
<1>11. e.songs = s /\ e.dirs = c /\ e.lists = d.lists
  OBVIOUS
<1>12. e \in Databases
  BY <1>2, <1>7, <1>8, FromFields
<1>. HIDE DEF e, r
<1>13. Tree(e)
  BY <1>0, <1>5, <1>6, <1>11 DEF Tree
<1>14. /\ DOMAIN e.songs = DOMAIN d.songs /\ DOMAIN e.dirs = DOMAIN d.dirs
       /\ \A n \in DOMAIN d.songs : /\ e.songs[n].mtime = d.songs[n].mtime
                                    /\ e.songs[n].channels = d.songs[n].channels
                                    /\ e.songs[n].mark = d.songs[n].mark
  BY <1>3, <1>5, <1>6, <1>11
<1>15. \A n \in DOMAIN d.dirs :
         /\ e.dirs[n].device = d.dirs[n].device /\ e.dirs[n].mtime = d.dirs[n].mtime
         /\ e.dirs[n].mark = d.dirs[n].mark
         /\ e.dirs[n].tracks \subseteq d.dirs[n].tracks
         /\ d.dirs[n].device # "playlist" => e.dirs[n] = d.dirs[n]
         /\ d.dirs[n].device = "playlist" => e.dirs[n].tracks \subseteq DOMAIN e.songs
         /\ ~r.modified => e.dirs[n].tracks = d.dirs[n].tracks
  BY <1>4, <1>5, <1>10, <1>11
<1>. QED  BY <1>10, <1>11, <1>12, <1>13, <1>14, <1>15 DEF r, Proper

----------------------------------------------------------------------------
(***************************************************************************)
(* The stack of UpdateDirectory().                                         *)
(***************************************************************************)

\* What stat() told about an entry.
Stat == [node : Nodes \cup {Root}, type : {"none", "file", "dir", "loop"},
         mtime : 0..MaxChanges]

\* A call of UpdateDirectory().
Frame == [dir : Nodes \cup {Root}, single : BOOLEAN, mtime : 0..MaxChanges,
          exclude : SUBSET Nodes, todo : SUBSET Nodes, entry : Stat]

\* What a frame reads is in its directory.
Reads(f) ==
  /\ f.todo \subseteq Children(f.dir)
  /\ f.entry # NoEntry => f.entry.type # "none" /\ f.entry.node \in Children(f.dir)

\* Every frame works on a directory that is in the database, and on one in the
\* directory of the frame below it, which waits between two entries.
Frames(d, s) ==
  /\ s \in Seq(Frame)
  /\ \A i \in 1..Len(s) : Reads(s[i]) /\ InTree(d, s[i].dir)
  /\ \A i, j \in 1..Len(s) : i < j =>
       s[j].dir \in Nodes /\ Over(s[i].dir, s[j].dir) /\ s[i].entry = NoEntry
  /\ \A i \in 1..Len(s) : i > 1 => Parent[s[i].dir] = s[i - 1].dir

\* No entry being worked on.
LEMMA NoEntryIsStat ==
  NoEntry \in Stat /\ NoEntry.type = "none" /\ NoEntry.node = Root
<1>1. 0 \in 0..MaxChanges
  BY BoundsAssumption
<1>. QED  BY <1>1 DEF NoEntry, Stat

\* No call is active.
LEMMA NoFrames ==
  ASSUME NEW d PROVE Frames(d, << >>)
  BY DEF Frames

\* The innermost call.
LEMMA TopFrame ==
  ASSUME NEW d, NEW s, Frames(d, s), s # << >>
  PROVE  /\ Len(s) \in Nat /\ Len(s) \in 1..Len(s) /\ s[Len(s)] \in Frame
         /\ Reads(s[Len(s)]) /\ InTree(d, s[Len(s)].dir)
         /\ \A i \in 1..Len(s) : s[i] \in Frame
  BY DEF Frames

\* No directory of a frame is at or below what the top frame reads.
LEMMA FramesAreOver ==
  ASSUME NEW d, NEW s, Frames(d, s), s # << >>, NEW n \in Children(s[Len(s)].dir)
  PROVE  \A i \in 1..Len(s) : Over(s[i].dir, n)
<1>. DEFINE D == s[Len(s)].dir
<1>1. Len(s) \in Nat /\ Len(s) \in 1..Len(s) /\ n \in Nodes /\ Parent[n] = D
  BY TopFrame DEF Children
<1>2. Over(D, n)
  BY <1>1, ParentIsOver
<1>3. ASSUME NEW i \in 1..Len(s) PROVE Over(s[i].dir, n)
  <2>1. CASE i = Len(s)
    BY <1>2, <2>1
  <2>2. CASE i # Len(s)
    <3>1. D \in Nodes /\ Over(s[i].dir, D)
      BY <1>1, <2>2 DEF Frames
    <3>2. D \in Ancestors[n]
      BY <1>2, <3>1, TreeAssumption DEF Over
    <3>. QED  BY <1>1, <3>1, <3>2, AncestorsTransitive DEF Over
  <2>. QED  BY <2>1, <2>2
<1>. QED  BY <1>3

\* What is above a node is not in its subtree.
LEMMA OverIsOutside ==
  ASSUME NEW n \in Nodes, NEW D \in Nodes, Over(D, n)
  PROVE  D \notin Subtree({n})
<1>1. D \in Ancestors[n]
  BY TreeAssumption DEF Over
<1>2. D # n
  BY <1>1, AncestorsAcyclic
<1>3. ASSUME n \in Ancestors[D] PROVE FALSE
  <2>1. n \in Ancestors[n]
    BY <1>1, <1>3, AncestorsTransitive
  <2>. QED  BY <2>1, AncestorsAcyclic
<1>. QED  BY <1>2, <1>3 DEF Subtree

\* d and e may differ at n and below it only.
Outside(d, e, n) == \A m \in Nodes \ Subtree({n}) : SameAt(d, e, m)

\* A change at and below an entry of the top frame leaves every frame its directory.
LEMMA FramesSurvive ==
  ASSUME NEW d, NEW e, NEW s, Frames(d, s), s # << >>, NEW n \in Children(s[Len(s)].dir),
         Outside(d, e, n)
  PROVE  /\ Frames(e, s)
         /\ \A i \in 1..Len(s) : s[i].dir # Root => SameAt(d, e, s[i].dir)
<1>0. n \in Nodes
  BY DEF Children
<1>1. ASSUME NEW i \in 1..Len(s)
      PROVE  InTree(e, s[i].dir) /\ (s[i].dir # Root => SameAt(d, e, s[i].dir))
  <2>1. Over(s[i].dir, n)
    BY FramesAreOver
  <2>2. InTree(d, s[i].dir)
    BY DEF Frames
  <2>3. CASE s[i].dir = Root
    BY <2>3 DEF InTree
  <2>4. CASE s[i].dir # Root
    <3>1. s[i].dir \in Nodes
      BY <2>2, <2>4 DEF InTree
    <3>2. s[i].dir \notin Subtree({n})
      BY <1>0, <2>1, <3>1, OverIsOutside
    <3>3. SameAt(d, e, s[i].dir)
      BY <3>1, <3>2 DEF Outside
    <3>. QED  BY <2>2, <3>1, <3>3 DEF InTree, SameAt
  <2>. QED  BY <2>3, <2>4
<1>. QED  BY <1>1 DEF Frames

\* The same for a change below the directory of the top frame, which stays itself.
LEMMA FramesSurviveBelow ==
  ASSUME NEW d, NEW e, NEW s, Frames(d, s), s # << >>, InTree(e, s[Len(s)].dir),
         Outside(d, e, s[Len(s)].dir)
  PROVE  Frames(e, s)
<1>. DEFINE D == s[Len(s)].dir
<1>0. Len(s) \in Nat /\ Len(s) \in 1..Len(s)
  BY TopFrame
<1>1. ASSUME NEW i \in 1..Len(s) PROVE InTree(e, s[i].dir)
  <2>1. CASE i = Len(s)
    BY <2>1
  <2>2. CASE i # Len(s)
    <3>1. D \in Nodes /\ Over(s[i].dir, D) /\ InTree(d, s[i].dir)
      BY <1>0, <2>2 DEF Frames
    <3>2. CASE s[i].dir = Root
      BY <3>2 DEF InTree
    <3>3. CASE s[i].dir # Root
      <4>1. s[i].dir \in Nodes
        BY <3>1, <3>3 DEF InTree
      <4>2. s[i].dir \notin Subtree({D})
        BY <3>1, <4>1, OverIsOutside
      <4>3. SameAt(d, e, s[i].dir)
        BY <4>1, <4>2 DEF Outside
      <4>. QED  BY <3>1, <4>1, <4>3 DEF InTree, SameAt
    <3>. QED  BY <3>2, <3>3
  <2>. QED  BY <2>1, <2>2
<1>. QED  BY <1>1 DEF Frames

\* SetEntry() on the top frame.
LEMMA SetEntryFacts ==
  ASSUME NEW d, Frames(d, stack), stack # << >>, NEW todo \in SUBSET Children(Top.dir),
         NEW entry \in Stat,
         entry # NoEntry => entry.type # "none" /\ entry.node \in Children(Top.dir)
  PROVE  LET s == SetEntry(todo, entry)
         IN /\ Frames(d, s) /\ s # << >> /\ Len(s) = Len(stack)
            /\ \A i \in 1..Len(stack) : i # Len(stack) => s[i] = stack[i]
            /\ s[Len(stack)] = [dir |-> Top.dir, single |-> Top.single, mtime |-> Top.mtime,
                                exclude |-> Top.exclude, todo |-> todo, entry |-> entry]
<1>. DEFINE k == Len(stack)
            f == [dir |-> Top.dir, single |-> Top.single, mtime |-> Top.mtime,
                  exclude |-> Top.exclude, todo |-> todo, entry |-> entry]
            s == SetEntry(todo, entry)
<1>1. k \in Nat /\ k \in 1..k /\ Top \in Frame /\ stack \in Seq(Frame)
  BY TopFrame DEF Top, Frames
<1>2. todo \in SUBSET Nodes
  BY DEF Children
<1>3. f \in Frame
  BY <1>1, <1>2 DEF Frame
<1>4. [Top EXCEPT !.todo = todo, !.entry = entry] = f
  <2>. DEFINE g == [Top EXCEPT !.todo = todo, !.entry = entry]
  <2>1. g \in Frame
    BY <1>1, <1>2 DEF Frame
  <2>2. /\ g.dir = Top.dir /\ g.single = Top.single /\ g.mtime = Top.mtime
        /\ g.exclude = Top.exclude /\ g.todo = todo /\ g.entry = entry
    BY <1>1 DEF Frame
  <2>3. /\ f.dir = Top.dir /\ f.single = Top.single /\ f.mtime = Top.mtime
        /\ f.exclude = Top.exclude /\ f.todo = todo /\ f.entry = entry
    OBVIOUS
  <2>. HIDE DEF f, g
  <2>4. f = g
    BY <1>3, <2>1, <2>2, <2>3 DEF Frame
  <2>. QED  BY <2>4 DEF g
<1>5. s = [stack EXCEPT ![k] = f]
  <2>1. s = [stack EXCEPT ![k] = [stack[k] EXCEPT !.todo = todo, !.entry = entry]]
    BY <1>1 DEF SetEntry
  <2>. QED  BY <2>1, <1>4 DEF Top
<1>. HIDE DEF f
<1>6. s \in Seq(Frame) /\ Len(s) = k /\ s[k] = f /\ \A i \in 1..k : i # k => s[i] = stack[i]
  BY <1>1, <1>3, <1>5
<1>. HIDE DEF s
<1>7. f.dir = Top.dir /\ f.todo = todo /\ f.entry = entry
  BY DEF f
<1>8. \A i \in 1..k : s[i].dir = stack[i].dir
  BY <1>6, <1>7 DEF Top
<1>9. \A i \in 1..k : Reads(s[i]) /\ InTree(d, s[i].dir)
  BY <1>6, <1>7, <1>8 DEF Reads, Frames
<1>10. ASSUME NEW i \in 1..k, NEW j \in 1..k, i < j
       PROVE  s[j].dir \in Nodes /\ Over(s[i].dir, s[j].dir) /\ s[i].entry = NoEntry
  <2>1. stack[j].dir \in Nodes /\ Over(stack[i].dir, stack[j].dir) /\ stack[i].entry = NoEntry
    BY <1>10 DEF Frames
  <2>2. s[i] = stack[i]
    BY <1>1, <1>6, <1>10
  <2>. QED  BY <1>8, <2>1, <2>2
<1>11. \A i \in 1..k : i > 1 => Parent[s[i].dir] = s[i - 1].dir
  BY <1>1, <1>8 DEF Frames
<1>12. Frames(d, s)
  BY <1>6, <1>9, <1>10, <1>11 DEF Frames
<1>13. s # << >>
  BY <1>1, <1>6
<1>. QED  BY <1>6, <1>12, <1>13 DEF s, f

\* A call returns.
LEMMA PopFrame ==
  ASSUME NEW d, NEW s, Frames(d, s), s # << >>
  PROVE  LET p == SubSeq(s, 1, Len(s) - 1)
         IN /\ Frames(d, p) /\ Len(p) = Len(s) - 1 /\ \A i \in 1..Len(p) : p[i] = s[i]
<1>. DEFINE p == SubSeq(s, 1, Len(s) - 1)
<1>1. Len(s) \in Nat /\ Len(s) \in 1..Len(s) /\ s \in Seq(Frame)
  BY TopFrame DEF Frames
<1>2. p \in Seq(Frame) /\ Len(p) = Len(s) - 1 /\ \A i \in 1..Len(p) : p[i] = s[i]
  <2>1. 1 \in 1..(Len(s) + 1) /\ Len(s) - 1 \in 0..Len(s)
    BY <1>1
  <2>2. /\ p \in Seq(Frame)
        /\ Len(p) = IF 1 <= Len(s) - 1 THEN (Len(s) - 1) - 1 + 1 ELSE 0
        /\ \A i \in 1..((Len(s) - 1) - 1 + 1) : p[i] = s[1 + i - 1]
    BY <1>1, <2>1, SubSeqProperties
  <2>. HIDE DEF p
  <2>3. Len(p) = Len(s) - 1
    <3>. DEFINE k == Len(s)
    <3>1. k \in Nat /\ k >= 1
      BY <1>1
    <3>2. Len(p) = IF 1 <= k - 1 THEN (k - 1) - 1 + 1 ELSE 0
      BY <2>2
    <3>. HIDE DEF k
    <3>3. Len(p) = k - 1
      BY <3>1, <3>2
    <3>. QED  BY <3>3 DEF k
  <2>. QED  BY <1>1, <2>2, <2>3
<1>. HIDE DEF p
<1>3. \A i \in 1..Len(p) : i \in 1..Len(s) /\ (i > 1 => i - 1 \in 1..Len(p))
  BY <1>1, <1>2
<1>4. Frames(d, p)
  BY <1>2, <1>3 DEF Frames
<1>. QED  BY <1>2, <1>4 DEF p

\* The frame EnterDirectory() pushes.
NewFrame(D, t) ==
  [dir |-> D, single |-> FALSE, mtime |-> t, exclude |-> ignore,
   todo |-> {n \in Children(D) : fs[n].type # "absent"}, entry |-> NoEntry]

\* The frame of a call that begins.
LEMMA NewFrameFacts ==
  ASSUME NEW D \in Nodes \cup {Root}, NEW t \in 0..MaxChanges, ignore \subseteq Nodes
  PROVE  /\ NewFrame(D, t) \in Frame /\ Reads(NewFrame(D, t)) /\ NewFrame(D, t).dir = D
         /\ NewFrame(D, t).entry = NoEntry
<1>. DEFINE f == NewFrame(D, t)
<1>1. f.dir = D /\ f.entry = NoEntry /\ f.todo \subseteq Children(D)
  BY DEF NewFrame
<1>2. f \in Frame
  BY NoEntryIsStat DEF NewFrame, Frame, Children
<1>. HIDE DEF f
<1>. QED  BY <1>1, <1>2 DEF Reads, f

\* The first call.
LEMMA PushFirst ==
  ASSUME NEW d, NEW f \in Frame, Reads(f), InTree(d, f.dir)
  PROVE  Frames(d, <<f>>) /\ Append(<< >>, f) = <<f>>
  BY DEF Frames

\* A call for a directory inside the innermost one.
LEMMA PushFrame ==
  ASSUME NEW d, NEW s, Frames(d, s), s # << >>, s[Len(s)].entry = NoEntry,
         NEW f \in Frame, Reads(f), InTree(d, f.dir), f.dir \in Children(s[Len(s)].dir)
  PROVE  LET p == Append(s, f)
         IN /\ Frames(d, p) /\ Len(p) = Len(s) + 1 /\ p[Len(p)] = f
            /\ \A i \in 1..Len(s) : p[i] = s[i]
<1>. DEFINE p == Append(s, f)
            k == Len(s)
<1>1. k \in Nat /\ k \in 1..k /\ s \in Seq(Frame)
  BY TopFrame DEF Frames
<1>2. p \in Seq(Frame) /\ Len(p) = k + 1 /\ p[k + 1] = f /\ \A i \in 1..k : p[i] = s[i]
  BY <1>1
<1>3. f.dir \in Nodes /\ Parent[f.dir] = s[k].dir /\ \A i \in 1..k : Over(s[i].dir, f.dir)
  BY FramesAreOver DEF Children
<1>. HIDE DEF p
<1>4. \A i \in 1..Len(p) : Reads(p[i]) /\ InTree(d, p[i].dir)
  BY <1>1, <1>2 DEF Frames
<1>5. ASSUME NEW i \in 1..Len(p), NEW j \in 1..Len(p), i < j
      PROVE  p[j].dir \in Nodes /\ Over(p[i].dir, p[j].dir) /\ p[i].entry = NoEntry
  <2>1. i \in 1..k /\ p[i] = s[i]
    BY <1>1, <1>2, <1>5
  <2>2. CASE j = k + 1
    <3>1. s[i].entry = NoEntry
      BY <1>1, <2>1 DEF Frames
    <3>. QED  BY <1>2, <1>3, <2>1, <2>2, <3>1
  <2>3. CASE j # k + 1
    <3>1. j \in 1..k /\ p[j] = s[j]
      BY <1>1, <1>2, <2>3
    <3>. QED  BY <1>5, <2>1, <3>1 DEF Frames
  <2>. QED  BY <2>2, <2>3
<1>6. ASSUME NEW i \in 1..Len(p), i > 1 PROVE Parent[p[i].dir] = p[i - 1].dir
  <2>1. CASE i = k + 1
    BY <1>1, <1>2, <1>3, <2>1
  <2>2. CASE i # k + 1
    <3>1. i \in 1..k /\ i - 1 \in 1..k
      BY <1>1, <1>2, <1>6, <2>2
    <3>. QED  BY <1>2, <1>6, <3>1 DEF Frames
  <2>. QED  BY <2>1, <2>2
<1>7. Frames(d, p)
  BY <1>2, <1>4, <1>5, <1>6 DEF Frames
<1>. QED  BY <1>2, <1>7 DEF p

----------------------------------------------------------------------------
(***************************************************************************)
(* Types.                                                                  *)
(***************************************************************************)

\* DirectoryMakeUriParentChecked(): directories are added in the music directory.
LEMMA MakeParentsFacts ==
  ASSUME fs \in [Nodes -> Entry], Proper(db), NEW n \in Nodes
  PROVE  LET e == MakeParents(n)
         IN /\ Proper(e)
            /\ (\A m \in Ancestors[n] : ParentChecked(m)) => Attached(e, n)
            /\ DOMAIN e.songs \subseteq DOMAIN db.songs
            /\ \A m \in DOMAIN e.songs : e.songs[m] = db.songs[m]
            /\ DOMAIN db.dirs \subseteq DOMAIN e.dirs
            /\ \A m \in DOMAIN db.dirs : e.dirs[m] = db.dirs[m]
            /\ \A m \in DOMAIN e.dirs : m \notin DOMAIN db.dirs => e.dirs[m].tracks = {}
<1>. DEFINE new == {m \in Ancestors[n] \ DOMAIN db.dirs : ParentChecked(m)}
            made(m) == [mtime |-> fs[m].mtime, mark |-> FALSE, device |-> "real", tracks |-> {}]
            f == DeleteSongs(db, new)
            s == [m \in DOMAIN db.dirs \cup new |-> IF m \in new THEN made(m) ELSE db.dirs[m]]
            e == MakeParents(n)
<1>0. Proper(f) /\ DOMAIN f.songs = DOMAIN db.songs \ new /\ f.dirs = db.dirs /\ f.lists = db.lists
      /\ \A m \in DOMAIN f.songs : f.songs[m] = db.songs[m]
  BY DeleteSongsFacts
<1>1. e = [f EXCEPT !.dirs = [m \in DOMAIN f.dirs \cup new |-> IF m \in new THEN made(m) ELSE f.dirs[m]]]
  BY DEF MakeParents
<1>2. e = [f EXCEPT !.dirs = s]
  BY <1>0, <1>1
<1>3. \A m \in new : m \in Nodes /\ Parent[m] = Root
  BY AncestorsAreNodes DEF ParentChecked
<1>4. /\ DOMAIN db.dirs \subseteq Nodes /\ \A m \in DOMAIN db.dirs : db.dirs[m] \in Directory
  BY Fields DEF Proper
<1>5. ASSUME NEW m \in new PROVE made(m) \in Directory
  <2>1. fs[m].mtime \in 0..MaxChanges
    BY <1>3, EntryFields
  <2>. QED  BY <2>1 DEF Directory
<1>6. /\ DOMAIN s = DOMAIN db.dirs \cup new /\ s = [m \in DOMAIN s |-> s[m]]
      /\ \A m \in new : s[m] = made(m)
      /\ \A m \in DOMAIN db.dirs : s[m] = db.dirs[m]
  OBVIOUS
<1>6b. \A m \in new : s[m].tracks = {} /\ s[m] \in Directory
  BY <1>5, <1>6
<1>. HIDE DEF s, made
<1>7. s \in Partial(Directory)
  BY <1>3, <1>4, <1>6, <1>6b, PartialFacts
<1>8. f \in Databases /\ Tree(f) /\ f.songs \in Partial(Song) /\ f.lists \in Partial(Playlist)
  BY <1>0, Fields DEF Proper
<1>. HIDE DEF f, new, e
<1>9. e = [songs |-> f.songs, dirs |-> s, lists |-> f.lists]
  BY <1>2, <1>8, Updates
<1>10. e.songs = f.songs /\ e.dirs = s /\ e.lists = f.lists
  BY <1>9
<1>11. e \in Databases
  BY <1>7, <1>8, <1>9, FromFields
<1>12. Tree(e)
  BY <1>0, <1>3, <1>6, <1>8, <1>10 DEF Tree
<1>13. ASSUME \A m \in Ancestors[n] : ParentChecked(m) PROVE Attached(e, n)
  <2>1. Parent[n] # Root => Parent[n] \in Ancestors[n]
    BY ParentIsOver, TreeAssumption DEF Over
  <2>2. Parent[n] # Root => Parent[n] \in DOMAIN db.dirs \cup new
    BY <1>13, <2>1 DEF new
  <2>. QED  BY <1>6, <1>10, <2>2 DEF Attached
<1>14. /\ DOMAIN e.songs \subseteq DOMAIN db.songs
       /\ \A m \in DOMAIN e.songs : e.songs[m] = db.songs[m]
       /\ DOMAIN db.dirs \subseteq DOMAIN e.dirs
       /\ \A m \in DOMAIN db.dirs : e.dirs[m] = db.dirs[m]
  BY <1>0, <1>6, <1>10
<1>15. \A m \in DOMAIN e.dirs : m \notin DOMAIN db.dirs => e.dirs[m].tracks = {}
  BY <1>6, <1>6b, <1>10
<1>. QED  BY <1>11, <1>12, <1>13, <1>14, <1>15 DEF e, Proper

\* Everything but the database and the stack.
Scalars ==
  /\ fs \in [Nodes -> Entry] /\ ignore \subseteq Nodes
  /\ mode \in Modes /\ pc \in {"idle", "walk", "task", "main", "exited"}
  /\ fresh \in BOOLEAN /\ saved \in BOOLEAN /\ walk_discard \in BOOLEAN
  /\ cancel \in BOOLEAN /\ modified \in BOOLEAN /\ undisturbed \in BOOLEAN
  /\ changes \in 0..MaxChanges /\ walks \in 0..MaxWalks
  /\ scope \in Nodes \cup {Root}
  /\ reader \in Readers /\ stale \in SUBSET (Nodes \X (0..MaxChanges))

\* The type invariant, with what makes it inductive.
Typed ==
  /\ Scalars
  /\ Proper(db) /\ Proper(file)
  /\ Frames(db, stack)
  /\ pc # "walk" => stack = << >>

\* The entry that is read next.
LEMMA ReadingFacts ==
  ASSUME Typed, NEW n, Reading(n)
  PROVE  /\ n \in Nodes /\ n \in Children(Top.dir) /\ Parent[n] = Top.dir /\ Attached(db, n)
         /\ Top.todo \ {n} \in SUBSET Children(Top.dir) /\ stack # << >> /\ pc = "walk"
<1>1. stack # << >> /\ n \in Top.todo /\ Frames(db, stack) /\ pc = "walk"
  BY DEF Reading, InDirectory, Typed
<1>2. Reads(Top) /\ InTree(db, Top.dir)
  BY <1>1, TopFrame DEF Top
<1>3. n \in Children(Top.dir) /\ Top.todo \in SUBSET Children(Top.dir)
  BY <1>1, <1>2 DEF Reads
<1>. QED  BY <1>1, <1>2, <1>3 DEF Children, Attached, InTree

\* The entry that is worked on.
LEMMA ScanningFacts ==
  ASSUME Typed, NEW type \in {"file", "dir", "loop"}, Scanning(type)
  PROVE  LET n == Top.entry.node
         IN /\ n \in Nodes /\ n \in Children(Top.dir) /\ Parent[n] = Top.dir /\ Attached(db, n)
            /\ Top.entry.mtime \in 0..MaxChanges /\ Top.todo \in SUBSET Children(Top.dir)
            /\ stack # << >> /\ pc = "walk" /\ Top.entry # NoEntry
<1>. DEFINE n == Top.entry.node
<1>1. stack # << >> /\ Top.entry.type = type /\ Frames(db, stack) /\ pc = "walk"
  BY DEF Scanning, InDirectory, Typed
<1>2. Reads(Top) /\ InTree(db, Top.dir) /\ Top \in Frame
  BY <1>1, TopFrame DEF Top
<1>3. Top.entry # NoEntry
  BY <1>1, NoEntryIsStat
<1>4. n \in Children(Top.dir) /\ Top.todo \in SUBSET Children(Top.dir)
  BY <1>2, <1>3 DEF Reads
<1>5. Top.entry.mtime \in 0..MaxChanges
  BY <1>2 DEF Frame, Stat
<1>. QED  BY <1>1, <1>2, <1>3, <1>4, <1>5 DEF Children, Attached, InTree

\* EntryDone, after a change at and below the entry.
LEMMA EntryDoneFacts ==
  ASSUME Typed, NEW type \in {"file", "dir", "loop"}, Scanning(type), NEW e,
         Outside(db, e, Top.entry.node)
  PROVE  /\ Frames(e, EntryDone) /\ EntryDone # << >> /\ Len(EntryDone) = Len(stack)
         /\ \A i \in 1..Len(stack) : i # Len(stack) => EntryDone[i] = stack[i]
         /\ EntryDone[Len(stack)] =
              [dir |-> Top.dir, single |-> Top.single, mtime |-> Top.mtime,
               exclude |-> Top.exclude, todo |-> Top.todo, entry |-> NoEntry]
<1>1. /\ Top.entry.node \in Children(Top.dir) /\ Top.todo \in SUBSET Children(Top.dir)
      /\ stack # << >>
  BY ScanningFacts
<1>2. Frames(db, stack)
  BY DEF Typed
<1>3. Frames(e, stack)
  BY <1>1, <1>2, FramesSurvive DEF Top
<1>4. NoEntry \in Stat
  BY NoEntryIsStat
<1>. QED  BY <1>1, <1>3, <1>4, SetEntryFacts DEF EntryDone

\* SkipEntry keeps the types.
LEMMA SkipEntryTyped ==
  ASSUME Typed, NEW n \in Nodes, SkipEntry(n)
  PROVE  Frames(db, stack') /\ Typed'
<1>1. stack # << >> /\ Top.todo \ {n} \in SUBSET Children(Top.dir) /\ pc = "walk"
  BY ReadingFacts DEF SkipEntry
<1>2. NoEntry \in Stat /\ Frames(db, stack)
  BY NoEntryIsStat DEF Typed
<1>3. Frames(db, stack')
  BY <1>1, <1>2, SetEntryFacts DEF SkipEntry
<1>. QED  BY <1>1, <1>3 DEF Typed, Scalars, SkipEntry, environment, process, scanner

\* DeleteEntry changes the database at one node and keeps the types.
LEMMA DeleteEntryTyped ==
  ASSUME Typed, NEW n \in Nodes, DeleteEntry(n)
  PROVE  /\ Proper(db') /\ Changed(db, db', n) /\ Frames(db', stack) /\ Frames(db', stack')
         /\ Typed'
<1>1. /\ stack # << >> /\ Top.todo \ {n} \in SUBSET Children(Top.dir) /\ pc = "walk"
      /\ n \in Children(Top.dir) /\ Attached(db, n)
  BY ReadingFacts DEF DeleteEntry
<1>2. NoEntry \in Stat /\ Frames(db, stack) /\ Proper(db) /\ db' = DeleteNameIn(db, n)
  BY NoEntryIsStat DEF Typed, DeleteEntry
<1>3. Proper(db') /\ Changed(db, db', n)
  BY <1>1, <1>2, DeleteNameInFacts
<1>3b. Outside(db, db', n)
  BY <1>3 DEF Changed, Outside
<1>4. Frames(db', stack)
  BY <1>1, <1>2, <1>3b, FramesSurvive DEF Top
<1>5. Frames(db', stack')
  BY <1>1, <1>2, <1>4, SetEntryFacts DEF DeleteEntry
<1>6. modified' \in BOOLEAN
  BY DEF DeleteEntry
<1>. QED  BY <1>1, <1>3, <1>4, <1>5, <1>6 DEF Typed, Scalars, DeleteEntry, environment, process, scanner

\* StatEntry keeps the types.
LEMMA StatEntryTyped ==
  ASSUME Typed, NEW n \in Nodes, StatEntry(n)
  PROVE  Frames(db, stack') /\ Typed'
<1>. DEFINE e == [node |-> n, type |-> fs[n].type, mtime |-> fs[n].mtime]
<1>1. /\ stack # << >> /\ Top.todo \ {n} \in SUBSET Children(Top.dir) /\ pc = "walk"
      /\ n \in Children(Top.dir)
  BY ReadingFacts DEF StatEntry
<1>2. Frames(db, stack) /\ fs \in [Nodes -> Entry]
  BY DEF Typed, Scalars
<1>3. fs[n].type \in {"file", "dir", "loop"} /\ fs[n].mtime \in 0..MaxChanges
  BY <1>2, EntryFields DEF StatEntry
<1>4. e \in Stat
  BY <1>3 DEF Stat
<1>5. e.type # "none" /\ e.node \in Children(Top.dir)
  BY <1>1, <1>3
<1>6. stack' = SetEntry(Top.todo \ {n}, e)
  BY DEF StatEntry
<1>. HIDE DEF e
<1>7. Frames(db, stack')
  BY <1>1, <1>2, <1>4, <1>5, <1>6, SetEntryFacts
<1>. QED  BY <1>1, <1>7 DEF Typed, Scalars, StatEntry, environment, process, scanner

\* RegularFile changes the database at one node and keeps the types.
LEMMA RegularFileTyped ==
  ASSUME Typed, RegularFile
  PROVE  /\ Proper(db') /\ Changed(db, db', Top.entry.node) /\ Frames(db', stack')
         /\ Typed'
<1>. DEFINE n == Top.entry.node
<1>1. n \in Nodes /\ Attached(db, n) /\ Top.entry.mtime \in 0..MaxChanges /\ pc = "walk"
  BY ScanningFacts DEF RegularFile
<1>2. PICK media : LET r == UpdateRegularFile(n, Top.entry.mtime, media)
                   IN db' = r.db /\ modified' = r.modified
  BY DEF RegularFile
<1>3. Flags /\ Proper(db)
  BY DEF Typed, Scalars, Flags
<1>4. Proper(db') /\ Changed(db, db', n) /\ modified' \in BOOLEAN
  BY <1>1, <1>2, <1>3, UpdateRegularFileFacts
<1>4b. Outside(db, db', n)
  BY <1>4 DEF Changed, Outside
<1>5. Frames(db', stack')
  BY <1>4b, EntryDoneFacts DEF RegularFile
<1>6. reader' \in Readers
  <2>1. NoReader \in Readers /\ Opened(n) \in Readers
    BY <1>1, <1>3, OpenedType
  <2>2. reader' \in ReadersAfter(n, Top.entry.mtime)
    BY DEF RegularFile
  <2>. QED  BY <1>3, <2>1, <2>2 DEF ReadersAfter, Flags
<1>7. stale' \in SUBSET (Nodes \X (0..MaxChanges))
  <2>1. stale' = StaleAfter(n, Top.entry.mtime)
    BY DEF RegularFile
  <2>. QED  BY <1>1, <2>1 DEF StaleAfter, Typed, Scalars
<1>. QED  BY <1>1, <1>4, <1>5, <1>6, <1>7 DEF Typed, Scalars, RegularFile, environment, process

\* What UpdateDirectory() does first, for a directory in the database.
LEMMA EnteredOutside ==
  ASSUME NEW d, Proper(d), NEW n \in Nodes, InTree(d, n), ignore \subseteq Nodes
  PROVE  Outside(d, Entered(d, n), n)
<1>1. \A m \in Nodes \ Subtree(Children(n)) : SameAt(d, Entered(d, n), m)
  BY EnteredFacts
<1>2. ASSUME NEW m \in Nodes, m \notin Subtree({n}) PROVE m \notin Subtree(Children(n))
  <2>1. n \notin Ancestors[m]
    BY <1>2 DEF Subtree
  <2>2. m \in Subtree(Children(n)) <=> Over(n, m)
    BY ChildrenFacts
  <2>. QED  BY <2>1, <2>2, TreeAssumption DEF Over
<1>. QED  BY <1>1, <1>2 DEF Outside

\* Two changes outside a node's surroundings are one.
LEMMA OutsideTwice ==
  ASSUME NEW d, NEW e, NEW f, NEW n, Outside(d, e, n), Outside(e, f, n)
  PROVE  Outside(d, f, n)
  BY DEF Outside, SameAt

\* UpdateDirectory() is called for a child directory.
LEMMA SubdirectoryEnters ==
  ASSUME Typed, Scanning("dir"),
         EnterDirectory(MakeRealChild(db, Top.entry.node), modified, Top.entry.node,
                        Top.entry.mtime, EntryDone)
  PROVE  LET n == Top.entry.node
             r == MakeRealChild(db, n)
         IN /\ Proper(r) /\ InTree(r, n) /\ db' = Entered(r, n) /\ Proper(db') /\ InTree(db', n)
            /\ Outside(db, db', n)
            /\ stack' = Append(EntryDone, NewFrame(n, Top.entry.mtime))
            /\ Frames(db', stack') /\ modified' \in BOOLEAN /\ Len(stack') = Len(stack) + 1
            /\ stack'[Len(stack')] = NewFrame(n, Top.entry.mtime)
            /\ \A i \in 1..Len(stack) : stack'[i] = EntryDone[i]
<1>. DEFINE n == Top.entry.node
            r == MakeRealChild(db, n)
            f == NewFrame(n, Top.entry.mtime)
<1>1. /\ n \in Nodes /\ n \in Children(Top.dir) /\ Attached(db, n)
      /\ Top.entry.mtime \in 0..MaxChanges
  BY ScanningFacts
<1>2. Proper(db) /\ ignore \subseteq Nodes /\ Frames(db, stack) /\ modified \in BOOLEAN
  BY DEF Typed, Scalars
<1>3. Proper(r) /\ Changed(db, r, n) /\ DOMAIN r.dirs = DOMAIN db.dirs \cup {n}
  BY <1>1, <1>2, MakeRealChildFacts
<1>4. InTree(r, n) /\ Outside(db, r, n)
  BY <1>1, <1>3 DEF InTree, Changed, Outside
<1>5. /\ db' = Entered(r, n) /\ modified' \in BOOLEAN
      /\ stack' = Append(EntryDone, f)
  BY <1>2 DEF EnterDirectory, Entered, NewFrame, Excluded
<1>. HIDE DEF r
<1>6. Proper(db') /\ InTree(db', n)
  BY <1>2, <1>3, <1>4, <1>5, EnteredFacts
<1>7. Outside(r, db', n)
  BY <1>1, <1>2, <1>3, <1>4, <1>5, EnteredOutside
<1>8. Outside(db, db', n)
  BY <1>4, <1>7, OutsideTwice
<1>9. /\ Frames(db', EntryDone) /\ EntryDone # << >> /\ Len(EntryDone) = Len(stack)
      /\ EntryDone[Len(stack)].entry = NoEntry /\ EntryDone[Len(stack)].dir = Top.dir
  BY <1>8, EntryDoneFacts
<1>10. f \in Frame /\ Reads(f) /\ f.dir = n
  BY <1>1, <1>2, NewFrameFacts
<1>. HIDE DEF f
<1>11. /\ Frames(db', stack') /\ Len(stack') = Len(stack) + 1 /\ stack'[Len(stack')] = f
       /\ \A i \in 1..Len(stack) : stack'[i] = EntryDone[i]
  <2>1. EntryDone[Len(EntryDone)].entry = NoEntry /\ f.dir \in Children(EntryDone[Len(EntryDone)].dir)
    BY <1>1, <1>9, <1>10
  <2>2. InTree(db', f.dir)
    BY <1>6, <1>10
  <2>. QED  BY <1>5, <1>9, <1>10, <2>1, <2>2, PushFrame
<1>. QED  BY <1>3, <1>4, <1>5, <1>6, <1>8, <1>11 DEF f, r

\* Subdirectory keeps the types.
LEMMA SubdirectoryTyped ==
  ASSUME Typed, Subdirectory
  PROVE  Typed'
<1>. DEFINE n == Top.entry.node
<1>0. Scanning("dir") /\ n \in Nodes /\ Attached(db, n) /\ pc = "walk" /\ Proper(db)
  BY ScanningFacts DEF Subdirectory, Typed
<1>1. CASE EnterDirectory(MakeRealChild(db, n), modified, n, Top.entry.mtime, EntryDone)
  <2>1. Proper(db') /\ Frames(db', stack') /\ modified' \in BOOLEAN
    BY <1>0, <1>1, SubdirectoryEnters
  <2>. QED  BY <1>0, <2>1 DEF Typed, Scalars, Subdirectory, environment, process, scanner
<1>2. CASE db' = DeleteDirectories(db, {n}) /\ stack' = EntryDone /\ UNCHANGED modified
  <2>1. Proper(db') /\ Changed(db, db', n)
    BY <1>0, <1>2, DeleteOneDirectory
  <2>2. Outside(db, db', n)
    BY <2>1 DEF Changed, Outside
  <2>3. Frames(db', stack')
    BY <1>0, <1>2, <2>2, EntryDoneFacts
  <2>. QED  BY <1>0, <1>2, <2>1, <2>3 DEF Typed, Scalars, Subdirectory, environment, process, scanner
<1>. QED  BY <1>1, <1>2 DEF Subdirectory

\* AncestorLoop keeps the types.
LEMMA AncestorLoopTyped ==
  ASSUME Typed, AncestorLoop
  PROVE  Frames(db, stack') /\ Typed'
<1>1. Scanning("loop") /\ pc = "walk" /\ stack' = EntryDone
  BY ScanningFacts DEF AncestorLoop
<1>2. Outside(db, db, Top.entry.node)
  BY DEF Outside, SameAt
<1>3. Frames(db, stack')
  BY <1>1, <1>2, EntryDoneFacts
<1>. QED  BY <1>1, <1>3 DEF Typed, Scalars, AncestorLoop, environment, process, scanner

\* The end of a directory changes nothing outside it.
LEMMA EndedOutside ==
  ASSUME NEW d, Proper(d), NEW D, D \in Nodes, InTree(d, D), NEW t \in 0..MaxChanges
  PROVE  Outside(d, Ended(d, D, t), D)
<1>. DEFINE e == Ended(d, D, t)
            p == Purged(d, D)
<1>1. /\ Proper(e) /\ InTree(e, D)
      /\ e.songs = p.songs /\ e.lists = p.lists /\ DOMAIN e.dirs = DOMAIN p.dirs
      /\ \A m \in DOMAIN p.dirs : m # D => e.dirs[m] = p.dirs[m]
      /\ D # Root => /\ D \in DOMAIN d.dirs /\ D \in DOMAIN e.dirs
                     /\ e.dirs[D] = [mtime |-> t, mark |-> TRUE,
                                     device |-> d.dirs[D].device, tracks |-> {}]
  BY EndedFacts
<1>2. \A m \in Nodes \ Subtree(Children(D)) : SameAt(d, p, m)
  BY PurgedFacts
<1>. HIDE DEF e, p
<1>3. ASSUME NEW m \in Nodes, m \notin Subtree({D}) PROVE SameAt(d, e, m)
  <2>1. D \notin Ancestors[m] /\ m # D
    BY <1>3 DEF Subtree
  <2>2. m \in Subtree(Children(D)) <=> Over(D, m)
    BY ChildrenFacts
  <2>3. SameAt(d, p, m)
    BY <1>2, <2>1, <2>2, TreeAssumption DEF Over
  <2>. QED  BY <1>1, <2>1, <2>3 DEF SameAt
<1>. QED  BY <1>3 DEF Outside, e

\* EndDirectory, as an operation on the database and on the stack.
LEMMA EndDirectoryFacts ==
  ASSUME Typed, EndDirectory
  PROVE  /\ stack # << >> /\ Top \in Frame /\ InTree(db, Top.dir) /\ db' = Ended(db, Top.dir, Top.mtime)
         /\ Proper(db') /\ Frames(db', stack') /\ modified' \in BOOLEAN
         /\ Len(stack') = Len(stack) - 1 /\ \A i \in 1..Len(stack') : stack'[i] = stack[i]
         /\ Frames(db', stack)
<1>. DEFINE D == Top.dir
<1>1. /\ stack # << >> /\ Frames(db, stack) /\ Proper(db) /\ Top \in Frame /\ InTree(db, D)
      /\ modified \in BOOLEAN
  BY TopFrame DEF EndDirectory, InDirectory, Typed, Scalars, Top
<1>2. Top.mtime \in 0..MaxChanges /\ D \in Nodes \cup {Root}
  BY <1>1 DEF Frame
<1>3. db' = Ended(db, D, Top.mtime)
  BY DEF EndDirectory, Ended
<1>4. Proper(db') /\ InTree(db', D)
  BY <1>1, <1>2, <1>3, EndedFacts
<1>5. modified' \in BOOLEAN
  BY DEF EndDirectory
<1>6. Frames(db', stack)
  <2>1. CASE D \in Nodes
    <3>1. Outside(db, db', D)
      BY <1>1, <1>2, <1>3, <2>1, EndedOutside
    <3>. QED  BY <1>1, <1>4, <3>1, FramesSurviveBelow DEF Top
  <2>2. CASE D = Root
    <3>1. Len(stack) = 1
      <4>1. Len(stack) \in 1..Len(stack) /\ Len(stack) \in Nat
        BY <1>1, TopFrame
      <4>2. 1 < Len(stack) => D \in Nodes
        BY <1>1, <4>1 DEF Frames, Top
      <4>. QED  BY <2>2, <4>1, <4>2, TreeAssumption
    <3>2. \A i \in 1..Len(stack) : stack[i].dir = D
      BY <3>1 DEF Top
    <3>. QED  BY <1>1, <1>4, <3>2 DEF Frames
  <2>. QED  BY <1>2, <2>1, <2>2
<1>7. stack' = SubSeq(stack, 1, Len(stack) - 1)
  BY DEF EndDirectory
<1>8. Frames(db', stack') /\ Len(stack') = Len(stack) - 1 /\ \A i \in 1..Len(stack') : stack'[i] = stack[i]
  BY <1>1, <1>6, <1>7, PopFrame
<1>. QED  BY <1>1, <1>3, <1>4, <1>5, <1>6, <1>8

\* EndDirectory keeps the types.
LEMMA EndDirectoryTyped ==
  ASSUME Typed, EndDirectory
  PROVE  Typed'
<1>1. Proper(db') /\ Frames(db', stack') /\ modified' \in BOOLEAN
  BY EndDirectoryFacts
<1>2. pc = "walk"
  BY DEF EndDirectory, InDirectory
<1>. QED  BY <1>1, <1>2 DEF Typed, Scalars, EndDirectory, environment, process, scanner

\* EndUri keeps the types.
LEMMA EndUriTyped ==
  ASSUME Typed, EndUri
  PROVE  Typed'
<1>1. stack # << >> /\ Frames(db, stack) /\ stack' = SubSeq(stack, 1, Len(stack) - 1) /\ pc = "walk"
  BY DEF EndUri, InDirectory, Typed
<1>2. Frames(db, stack')
  BY <1>1, PopFrame
<1>. QED  BY <1>1, <1>2 DEF Typed, Scalars, EndUri, environment, process, scanner

\* Save() keeps the databases trees.
LEMMA SaveFacts ==
  ASSUME Proper(db), Proper(file), fresh \in BOOLEAN, Save
  PROVE  Proper(db') /\ Proper(file') /\ fresh' \in BOOLEAN /\ saved' \in BOOLEAN
<1>1. Proper(PruneEmpty(db))
  BY PruneEmptyFacts
<1>2. Proper(Saved(PruneEmpty(db)))
  BY <1>1, SavedFacts
<1>. QED  BY <1>1, <1>2 DEF Save

\* FinishWalk keeps the types.
LEMMA FinishWalkTyped ==
  ASSUME Typed, FinishWalk
  PROVE  Typed'
<1>1. Proper(db') /\ modified' \in BOOLEAN
  BY PurgeDanglingFacts DEF FinishWalk, Typed, Scalars
<1>2. Frames(db', stack') /\ stack' = << >>
  BY NoFrames DEF FinishWalk
<1>. QED  BY <1>1, <1>2 DEF Typed, Scalars, FinishWalk, environment, process, scanner

\* TaskSave keeps the types.
LEMMA TaskSaveTyped ==
  ASSUME Typed, TaskSave
  PROVE  Typed'
<1>1. Proper(db') /\ Proper(file') /\ fresh' \in BOOLEAN /\ saved' \in BOOLEAN
  <2>1. Proper(db) /\ Proper(file) /\ fresh \in BOOLEAN /\ saved \in BOOLEAN
    BY DEF Typed, Scalars
  <2>. QED  BY <2>1, SaveFacts DEF TaskSave
<1>2. stack = << >> /\ stack' = << >>
  BY DEF TaskSave, Typed
<1>3. Frames(db', stack')
  BY <1>2, NoFrames
<1>4. pc' \in {"main", "idle"}
  BY DEF TaskSave
<1>. QED  BY <1>1, <1>2, <1>3, <1>4 DEF Typed, Scalars, TaskSave, environment, scanner

\* MainSave keeps the types.
LEMMA MainSaveTyped ==
  ASSUME Typed, MainSave
  PROVE  Typed'
<1>1. Proper(db') /\ Proper(file') /\ fresh' \in BOOLEAN /\ saved' \in BOOLEAN
  <2>1. Proper(db) /\ Proper(file) /\ fresh \in BOOLEAN /\ saved \in BOOLEAN
    BY DEF Typed, Scalars
  <2>. QED  BY <2>1, SaveFacts DEF MainSave
<1>2. stack = << >> /\ stack' = << >>
  BY DEF MainSave, Typed
<1>3. Frames(db', stack')
  BY <1>2, NoFrames
<1>. QED  BY <1>1, <1>2, <1>3 DEF Typed, Scalars, MainSave, environment, scanner

\* Open keeps the types.
LEMMA OpenTyped ==
  ASSUME Typed, NEW m \in Modes, Open(m)
  PROVE  Typed'
<1>2. stack = << >> /\ stack' = << >>
  BY DEF Open, Typed
<1>3. Frames(db', stack')
  BY <1>2, NoFrames
<1>4. reader' \in Readers
  BY NoReaderType DEF Open
<1>. QED  BY <1>2, <1>3, <1>4 DEF Typed, Scalars, Open, environment

\* The walk enters the music directory.
LEMMA StartWalkFacts ==
  ASSUME Typed, pc = "idle", EnterDirectory(db, FALSE, Root, 0, << >>)
  PROVE  /\ db' = Entered(db, Root) /\ Proper(db') /\ modified' \in BOOLEAN
         /\ stack' = <<NewFrame(Root, 0)>> /\ Frames(db', stack')
<1>1. Proper(db) /\ ignore \subseteq Nodes
  BY DEF Typed, Scalars
<1>2. InTree(db, Root)
  BY DEF InTree
<1>3. /\ db' = Entered(db, Root) /\ modified' \in BOOLEAN
      /\ stack' = Append(<< >>, NewFrame(Root, 0))
  BY DEF EnterDirectory, Entered, NewFrame, Excluded
<1>4. Proper(db') /\ InTree(db', Root)
  BY <1>1, <1>2, <1>3, EnteredFacts
<1>5. /\ NewFrame(Root, 0) \in Frame /\ Reads(NewFrame(Root, 0)) /\ NewFrame(Root, 0).dir = Root
  <2>1. 0 \in 0..MaxChanges /\ Root \in Nodes \cup {Root}
    BY BoundsAssumption
  <2>. QED  BY <1>1, <2>1, NewFrameFacts
<1>6. Frames(db', stack') /\ stack' = <<NewFrame(Root, 0)>>
  BY <1>3, <1>4, <1>5, PushFirst
<1>. QED  BY <1>3, <1>4, <1>6

\* StartWalk keeps the types.
LEMMA StartWalkTyped ==
  ASSUME Typed, NEW discard \in BOOLEAN, StartWalk(discard)
  PROVE  Typed'
<1>0. /\ walks' \in 0..MaxWalks /\ walk_discard' \in BOOLEAN /\ cancel' \in BOOLEAN
      /\ scope' \in Nodes \cup {Root}
  <2>1. walks' = walks + 1 /\ walks < MaxWalks /\ walks \in 0..MaxWalks /\ MaxWalks \in Nat
    BY BoundsAssumption DEF StartWalk, Typed, Scalars
  <2>2. walks' \in 0..MaxWalks
    BY <2>1
  <2>. QED  BY <2>2 DEF StartWalk
<1>1. CASE pc' = "walk" /\ undisturbed' = TRUE /\ EnterDirectory(db, FALSE, Root, 0, << >>)
  <2>1. pc = "idle"
    BY DEF StartWalk
  <2>2. Proper(db') /\ modified' \in BOOLEAN /\ Frames(db', stack')
    BY <1>1, <2>1, StartWalkFacts
  <2>. QED  BY <1>0, <1>1, <2>2 DEF Typed, Scalars, StartWalk, environment, scanner
<1>2. CASE pc' \in {"walk", "task"} /\ undisturbed' = FALSE /\ modified' = FALSE /\ UNCHANGED <<db, stack>>
  BY <1>0, <1>2 DEF Typed, Scalars, StartWalk, environment, scanner
<1>. QED  BY <1>1, <1>2 DEF StartWalk

\* StartUpdateUri keeps the types.
LEMMA StartUpdateUriTyped ==
  ASSUME Typed, NEW n \in Nodes, NEW discard \in BOOLEAN, StartUpdateUri(n, discard)
  PROVE  Typed'
<1>. DEFINE f == [dir |-> Parent[n], single |-> TRUE, mtime |-> 0, exclude |-> {},
                  todo |-> {n}, entry |-> NoEntry]
<1>0. /\ walks' \in 0..MaxWalks /\ walk_discard' \in BOOLEAN /\ cancel' \in BOOLEAN
      /\ scope' \in Nodes \cup {Root} /\ modified' \in BOOLEAN
  <2>1. walks' = walks + 1 /\ walks < MaxWalks /\ walks \in 0..MaxWalks /\ MaxWalks \in Nat
    BY BoundsAssumption DEF StartUpdateUri, Typed, Scalars
  <2>2. walks' \in 0..MaxWalks
    BY <2>1
  <2>. QED  BY <2>2 DEF StartUpdateUri
<1>1. Proper(db') /\ ((\A m \in Ancestors[n] : ParentChecked(m)) => Attached(db', n))
  <2>1. fs \in [Nodes -> Entry] /\ Proper(db) /\ db' = MakeParents(n)
    BY DEF Typed, Scalars, StartUpdateUri
  <2>. QED  BY <2>1, MakeParentsFacts
<1>2. stack = << >>
  BY DEF StartUpdateUri, Typed
<1>3. Frames(db', stack')
  <2>1. CASE \A m \in Ancestors[n] : ParentChecked(m)
    <3>1. stack' = <<f>>
      BY <2>1 DEF StartUpdateUri
    <3>2. Parent[n] \in Nodes \cup {Root} /\ 0 \in 0..MaxChanges /\ {n} \in SUBSET Nodes
      BY TreeAssumption, BoundsAssumption
    <3>3. f \in Frame
      BY <3>2, NoEntryIsStat DEF Frame
    <3>4. f.dir = Parent[n] /\ f.entry = NoEntry /\ f.todo = {n}
      OBVIOUS
    <3>. HIDE DEF f
    <3>5. Reads(f) /\ InTree(db', f.dir)
      BY <1>1, <2>1, <3>2, <3>4 DEF Reads, Children, InTree, Attached
    <3>. QED  BY <3>1, <3>3, <3>5, PushFirst
  <2>2. CASE ~\A m \in Ancestors[n] : ParentChecked(m)
    BY <1>2, <2>2, NoFrames DEF StartUpdateUri
  <2>. QED  BY <2>1, <2>2
<1>. QED  BY <1>0, <1>1, <1>3 DEF Typed, Scalars, StartUpdateUri, environment, scanner

\* Nothing at a path is an entry, too.
LEMMA AbsentIsEntry == Absent \in Entry
<1>1. 0 \in 0..MaxChanges /\ 0 \in Nat
  BY BoundsAssumption
<1>. QED  BY <1>1 DEF Absent, Entry

\* ChangeFile keeps the types.
LEMMA ChangeFileTyped ==
  ASSUME Typed, NEW n \in Nodes, NEW e \in Contents(n), ChangeFile(n, e)
  PROVE  Typed'
<1>. DEFINE new == IF e.type = "absent" THEN Absent ELSE [e EXCEPT !.mtime = changes + 1]
<1>1. changes \in 0..MaxChanges /\ changes < MaxChanges /\ changes' = changes + 1 /\ MaxChanges \in Nat
  BY BoundsAssumption DEF ChangeFile, Typed, Scalars
<1>2. changes + 1 \in 0..MaxChanges
  BY <1>1
<1>3. e \in Entry
  BY ContentsAssumption
<1>4. new \in Entry
  <2>. DEFINE t == changes + 1
  <2>. HIDE DEF t
  <2>1. [e EXCEPT !.mtime = t] \in Entry
    BY <1>2, <1>3 DEF Entry, t
  <2>. QED  BY <2>1, AbsentIsEntry DEF t
<1>5. fs' = [m \in Nodes |-> IF m = n THEN new ELSE IF n \in Ancestors[m] THEN Absent ELSE fs[m]]
  BY DEF ChangeFile
<1>. HIDE DEF new
<1>6. fs' \in [Nodes -> Entry]
  BY <1>4, <1>5, AbsentIsEntry DEF Typed, Scalars
<1>. QED  BY <1>1, <1>2, <1>6 DEF Typed, Scalars, ChangeFile, changed, scanner

\* ChangeAccess keeps the types.
LEMMA ChangeAccessTyped ==
  ASSUME Typed, NEW n \in Nodes, ChangeAccess(n)
  PROVE  Typed'
<1>1. changes \in 0..MaxChanges /\ changes < MaxChanges /\ changes' = changes + 1 /\ MaxChanges \in Nat
  BY BoundsAssumption DEF ChangeAccess, Typed, Scalars
<1>2. changes + 1 \in 0..MaxChanges
  BY <1>1
<1>3. fs' \in [Nodes -> Entry]
  <2>1. fs \in [Nodes -> Entry]
    BY DEF Typed, Scalars
  <2>2. fs' = [fs EXCEPT ![n] = [fs[n] EXCEPT !.access = ~fs[n].access]]
    BY DEF ChangeAccess
  <2>3. [fs[n] EXCEPT !.access = ~fs[n].access] \in Entry
    <3>. DEFINE b == ~fs[n].access
    <3>1. fs[n] \in Entry /\ b \in BOOLEAN
      BY <2>1
    <3>. HIDE DEF b
    <3>2. [fs[n] EXCEPT !.access = b] \in Entry
      BY <3>1 DEF Entry
    <3>. QED  BY <3>2 DEF b
  <2>. QED  BY <2>1, <2>2, <2>3
<1>. QED  BY <1>1, <1>2, <1>3 DEF Typed, Scalars, ChangeAccess, changed, scanner

\* ChangeIgnore keeps the types.
LEMMA ChangeIgnoreTyped ==
  ASSUME Typed, NEW n \in Ignorable, ChangeIgnore(n)
  PROVE  Typed'
<1>1. changes \in 0..MaxChanges /\ changes < MaxChanges /\ changes' = changes + 1 /\ MaxChanges \in Nat
  BY BoundsAssumption DEF ChangeIgnore, Typed, Scalars
<1>2. changes + 1 \in 0..MaxChanges
  BY <1>1
<1>3. ignore' \subseteq Nodes
  BY ContentsAssumption DEF ChangeIgnore, Typed, Scalars
<1>. QED  BY <1>1, <1>2, <1>3 DEF Typed, Scalars, ChangeIgnore, changed, scanner

\* PlayTrack keeps the types.
LEMMA PlayTrackTyped ==
  ASSUME Typed, NEW n \in Nodes, PlayTrack(n)
  PROVE  Typed'
<1>1. Flags
  BY DEF Typed, Scalars, Flags
<1>2. reader' \in Readers
  BY <1>1, OpenedType DEF PlayTrack
<1>. QED  BY <1>2 DEF Typed, Scalars, PlayTrack, environment, process

\* The types hold initially.
LEMMA InitTyped ==
  ASSUME Init PROVE Typed
<1>1. fs \in [Nodes -> Entry]
  BY AbsentIsEntry DEF Init
<1>2. Proper(db) /\ Proper(file)
  BY EmptyFacts DEF Init
<1>3. Frames(db, stack)
  BY NoFrames DEF Init
<1>4. 0 \in 0..MaxChanges /\ 0 \in 0..MaxWalks
  BY BoundsAssumption
<1>5. reader \in Readers
  BY NoReaderType DEF Init
<1>. QED  BY <1>1, <1>2, <1>3, <1>4, <1>5 DEF Init, Typed, Scalars

\* Every step keeps the types.
LEMMA StepTyped ==
  ASSUME Typed, [Next]_vars PROVE Typed'
<1>0. {FALSE, DiscardAllowed} \subseteq BOOLEAN
  BY ContentsAssumption
<1>1. CASE WalkStep
  BY <1>1, SkipEntryTyped, DeleteEntryTyped, StatEntryTyped, RegularFileTyped, SubdirectoryTyped,
     AncestorLoopTyped, EndDirectoryTyped, EndUriTyped, FinishWalkTyped, TaskSaveTyped,
     MainSaveTyped DEF WalkStep
<1>2. CASE \E m \in Modes : Open(m)
  BY <1>2, OpenTyped
<1>3. CASE \E discard \in {FALSE, DiscardAllowed} :
             StartWalk(discard) \/ \E n \in Nodes : StartUpdateUri(n, discard)
  BY <1>0, <1>3, StartWalkTyped, StartUpdateUriTyped
<1>4. CASE Exit
  BY <1>4 DEF Exit, Typed, Scalars, environment, process, scanner
<1>5. CASE Cancel
  BY <1>5 DEF Cancel, Typed, Scalars, environment, scanner
<1>5b. CASE \E n \in Nodes : PlayTrack(n)
  BY <1>5b, PlayTrackTyped
<1>6. CASE \E n \in Nodes : \E e \in Contents(n) : ChangeFile(n, e)
  BY <1>6, ChangeFileTyped
<1>7. CASE \E n \in Nodes : ChangeAccess(n)
  BY <1>7, ChangeAccessTyped
<1>8. CASE \E n \in Ignorable : ChangeIgnore(n)
  BY <1>8, ChangeIgnoreTyped
<1>9. CASE UNCHANGED vars
  BY <1>9 DEF vars, Typed, Scalars
<1>. QED  BY <1>1, <1>2, <1>3, <1>4, <1>5, <1>5b, <1>6, <1>7, <1>8, <1>9 DEF Next

\* The types always hold.
LEMMA TypedAlways == Spec => []Typed
<1>1. Init => Typed
  BY InitTyped
<1>2. Typed /\ [Next]_vars => Typed'
  BY StepTyped
<1>. QED  BY <1>1, <1>2, PTL DEF Spec

\* Every variable has its type, the database in memory and on disk is a tree at every
\* step of the walk, and no frame of UpdateDirectory() works on a directory that was
\* deleted under it (Directory::parent, Song::parent; Walk.cxx), for every tree of paths.
THEOREM Types == Spec => []TypeOK
<1>1. ASSUME NEW d, Proper(d) PROVE Database(d)
  <2>1. d \in Databases /\ Tree(d)
    BY <1>1 DEF Proper
  <2>2. /\ DOMAIN d.songs \subseteq Nodes /\ DOMAIN d.dirs \subseteq Nodes
        /\ DOMAIN d.lists \subseteq Nodes
        /\ \A n \in DOMAIN d.songs : d.songs[n] \in Song
        /\ \A n \in DOMAIN d.dirs : d.dirs[n] \in Directory
        /\ \A n \in DOMAIN d.lists : d.lists[n] \in Playlist
    BY <2>1, Fields
  <2>. QED  BY <2>1, <2>2 DEF Database, Tree
<1>2. Typed => TypeOK
  <2>. SUFFICES ASSUME Typed PROVE TypeOK
    OBVIOUS
  <2>1. Database(db) /\ Database(file)
    BY <1>1 DEF Typed
  <2>2. \A i \in 1..Len(stack) : stack[i].dir # Root => stack[i].dir \in DOMAIN db.dirs
    BY DEF Typed, Frames, InTree
  <2>. QED  BY <2>1, <2>2 DEF Typed, Scalars, TypeOK, Readers
<1>. QED  BY <1>2, TypedAlways, PTL

----------------------------------------------------------------------------
(***************************************************************************)
(* What is saved.                                                          *)
(***************************************************************************)

\* mpd-dbcreate exits with status 0 only after the result is on disk, even if the
\* update thread's own Save() failed (main() in DbMain.cxx): only MainSave leads there.
THEOREM ExitsSaved == Spec => []ExitMeansSaved
<1>1. Init => ExitMeansSaved
  BY DEF Init, ExitMeansSaved
<1>2. ExitMeansSaved /\ [Next]_vars => ExitMeansSaved'
  <2>. SUFFICES ASSUME ExitMeansSaved, [Next]_vars, OneShot, pc' = "exited", saved'
                PROVE  Saved(db') = file' /\ ~fresh'
    BY DEF ExitMeansSaved
  <2>1. CASE MainSave
    BY <2>1 DEF MainSave, Save
  <2>2. CASE pc = "exited" /\ UNCHANGED <<db, file, fresh, saved, pc>>
    BY <2>2 DEF ExitMeansSaved
  <2>3. CASE \E n \in Nodes : SkipEntry(n) \/ DeleteEntry(n) \/ StatEntry(n)
    BY <2>3 DEF SkipEntry, DeleteEntry, StatEntry, Reading, InDirectory
  <2>4. CASE RegularFile \/ Subdirectory \/ AncestorLoop \/ EndDirectory \/ EndUri
    BY <2>4 DEF RegularFile, Subdirectory, AncestorLoop, EndDirectory, EndUri, Scanning, InDirectory
  <2>5. CASE FinishWalk \/ TaskSave
    BY <2>5 DEF FinishWalk, TaskSave
  <2>6. CASE \E m \in Modes : Open(m)
    BY <2>6 DEF Open
  <2>7. CASE \E discard \in {FALSE, DiscardAllowed} :
               StartWalk(discard) \/ \E n \in Nodes : StartUpdateUri(n, discard)
    BY <2>7 DEF StartWalk, StartUpdateUri
  <2>8. CASE Exit \/ Cancel \/ \E n \in Nodes : PlayTrack(n)
    BY <2>8 DEF Exit, Cancel, PlayTrack
  <2>9. CASE \E n \in Nodes : \E e \in Contents(n) : ChangeFile(n, e)
    BY <2>2, <2>9 DEF ChangeFile, changed
  <2>10. CASE \E n \in Nodes : ChangeAccess(n)
    BY <2>2, <2>10 DEF ChangeAccess, changed
  <2>11. CASE \E n \in Ignorable : ChangeIgnore(n)
    BY <2>2, <2>11 DEF ChangeIgnore, changed
  <2>12. CASE UNCHANGED vars
    BY <2>2, <2>12 DEF vars
  <2>. QED  BY <2>1, <2>3, <2>4, <2>5, <2>6, <2>7, <2>8, <2>9, <2>10, <2>11, <2>12 DEF Next, WalkStep
<1>. QED  BY <1>1, <1>2, PTL DEF Spec

\* What marks do not touch.
LEMMA UnmarkedFields ==
  /\ \A v \in Song, b \in BOOLEAN :
       LET w == [v EXCEPT !.mark = b]
       IN w.mtime = v.mtime /\ w.channels = v.channels /\ w.mark = b
  /\ \A v \in Directory, b \in BOOLEAN :
       LET w == [v EXCEPT !.mark = b]
       IN w.mtime = v.mtime /\ w.device = v.device /\ w.tracks = v.tracks /\ w.mark = b
  BY DEF Song, Directory

\* The songs a database has, and the tracks of its virtual directories, are in another.
Contained(d, e) ==
  /\ \A n \in DOMAIN d.songs : /\ n \in DOMAIN e.songs
                               /\ e.songs[n].mtime = d.songs[n].mtime
                               /\ e.songs[n].channels = d.songs[n].channels
  /\ \A n \in DOMAIN d.dirs : \A t \in d.dirs[n].tracks :
       n \in DOMAIN e.dirs /\ t \in e.dirs[n].tracks

\* A database has its own contents.
LEMMA ContainedTrivially ==
  ASSUME NEW d PROVE Contained(d, d)
  BY DEF Contained

\* Having at least the contents of another one is transitive.
LEMMA ContainedTwice ==
  ASSUME NEW d, NEW e, NEW f, Contained(d, e), Contained(e, f)
  PROVE  Contained(d, f)
  BY DEF Contained

\* What Save() writes has everything that is left in memory, and the same sheets.
LEMMA SaveKeeps ==
  ASSUME NEW d, Proper(d)
  PROVE  LET p == PruneEmpty(d)
             e == Saved(p)
         IN /\ Contained(p, e) /\ Contained(p, d)
            /\ DOMAIN e.dirs = DOMAIN p.dirs /\ DOMAIN e.songs = DOMAIN p.songs
            /\ \A n \in DOMAIN p.songs : /\ e.songs[n].mtime = p.songs[n].mtime
                                         /\ e.songs[n].channels = p.songs[n].channels
            /\ \A n \in DOMAIN p.dirs : /\ e.dirs[n].tracks = p.dirs[n].tracks
                                        /\ e.dirs[n].device = p.dirs[n].device
                                        /\ e.dirs[n].mtime = p.dirs[n].mtime
<1>. DEFINE p == PruneEmpty(d)
            e == Saved(p)
<1>1. /\ Proper(p) /\ p.songs = d.songs /\ DOMAIN p.dirs \subseteq DOMAIN d.dirs
      /\ \A n \in DOMAIN p.dirs : p.dirs[n] = d.dirs[n]
  BY PruneEmptyFacts
<1>. HIDE DEF p
<1>2. SameButMarks(p, e)
  BY <1>1, SavedFacts
<1>. HIDE DEF e
<1>3. /\ \A n \in DOMAIN p.songs : p.songs[n] \in Song
      /\ \A n \in DOMAIN p.dirs : p.dirs[n] \in Directory
  BY <1>1, Fields DEF Proper
<1>4. /\ DOMAIN e.dirs = DOMAIN p.dirs /\ DOMAIN e.songs = DOMAIN p.songs
      /\ \A n \in DOMAIN p.songs : e.songs[n] = [p.songs[n] EXCEPT !.mark = FALSE]
      /\ \A n \in DOMAIN p.dirs : e.dirs[n] = [p.dirs[n] EXCEPT !.mark = FALSE]
  BY <1>2 DEF SameButMarks
<1>5. \A n \in DOMAIN p.songs : /\ e.songs[n].mtime = p.songs[n].mtime
                                /\ e.songs[n].channels = p.songs[n].channels
  BY <1>3, <1>4, UnmarkedFields
<1>6. \A n \in DOMAIN p.dirs : /\ e.dirs[n].tracks = p.dirs[n].tracks
                               /\ e.dirs[n].device = p.dirs[n].device
                               /\ e.dirs[n].mtime = p.dirs[n].mtime
  BY <1>3, <1>4, UnmarkedFields
<1>7. Contained(p, e) /\ Contained(p, d)
  BY <1>1, <1>4, <1>5, <1>6 DEF Contained
<1>. QED  BY <1>4, <1>5, <1>6, <1>7 DEF e, p

\* No track of a CUE sheet's directory is without its song.
Undangling(d) ==
  \A n \in DOMAIN d.dirs : d.dirs[n].device = "playlist" => d.dirs[n].tracks \subseteq DOMAIN d.songs

\* Between walks no track of a sheet dangles, in memory and in the file.
Sheets == (pc # "walk" => Undangling(db)) /\ Undangling(file)

\* Save() makes no track dangle: no song goes with an empty directory.
LEMMA SaveSheets ==
  ASSUME Proper(db), Undangling(db), Undangling(file), Save
  PROVE  Undangling(db') /\ Undangling(file')
<1>. DEFINE p == PruneEmpty(db)
            e == Saved(p)
<1>1. /\ p.songs = db.songs /\ DOMAIN p.dirs \subseteq DOMAIN db.dirs
      /\ \A n \in DOMAIN p.dirs : p.dirs[n] = db.dirs[n]
  BY PruneEmptyFacts
<1>2. Undangling(p)
  BY <1>1 DEF Undangling
<1>3. /\ DOMAIN e.dirs = DOMAIN p.dirs /\ DOMAIN e.songs = DOMAIN p.songs
      /\ \A n \in DOMAIN p.dirs : /\ e.dirs[n].tracks = p.dirs[n].tracks
                                  /\ e.dirs[n].device = p.dirs[n].device
  BY SaveKeeps
<1>4. Undangling(e)
  <2>. HIDE DEF e, p
  <2>. QED  BY <1>2, <1>3 DEF Undangling
<1>. QED  BY <1>2, <1>4 DEF Save

\* Every step keeps it so.
LEMMA StepSheets ==
  ASSUME Typed, Sheets, [Next]_vars PROVE Sheets'
<1>0. Proper(db)
  BY DEF Typed
<1>1. CASE pc' = "walk" /\ UNCHANGED file
  BY <1>1 DEF Sheets
<1>2. CASE UNCHANGED <<db, file>> /\ pc # "walk"
  BY <1>2 DEF Sheets, Undangling
<1>2b. CASE UNCHANGED <<db, file, pc>>
  BY <1>2b DEF Sheets, Undangling
<1>3. CASE \E n \in Nodes : SkipEntry(n) \/ DeleteEntry(n) \/ StatEntry(n)
  BY <1>1, <1>3 DEF SkipEntry, DeleteEntry, StatEntry, Reading, InDirectory, process
<1>4. CASE RegularFile \/ Subdirectory \/ AncestorLoop \/ EndDirectory \/ EndUri
  BY <1>1, <1>4 DEF RegularFile, Subdirectory, AncestorLoop, EndDirectory, EndUri, Scanning,
                    InDirectory, process
<1>5. CASE FinishWalk
  <2>1. Undangling(db')
    BY <1>0, <1>5, PurgeDanglingFacts DEF FinishWalk, Undangling
  <2>. QED  BY <1>5, <2>1 DEF FinishWalk, Sheets, process, Undangling
<1>6. CASE TaskSave
  <2>1. CASE Save
    BY <1>0, <1>6, <2>1, SaveSheets DEF TaskSave, Sheets
  <2>. QED  BY <1>2, <1>6, <2>1 DEF TaskSave
<1>7. CASE MainSave
  BY <1>0, <1>7, SaveSheets DEF MainSave, Sheets
<1>8. CASE \E m \in Modes : Open(m)
  BY <1>8 DEF Open, Sheets
<1>9. CASE \E discard \in {FALSE, DiscardAllowed} :
             StartWalk(discard) \/ \E n \in Nodes : StartUpdateUri(n, discard)
  <2>1. pc = "idle" /\ UNCHANGED file /\ (pc' = "walk" \/ UNCHANGED db)
    BY <1>9 DEF StartWalk, StartUpdateUri
  <2>. QED  BY <1>1, <1>2, <2>1
<1>10. CASE Exit \/ Cancel \/ \E n \in Nodes : PlayTrack(n)
  BY <1>2, <1>2b, <1>10 DEF Exit, Cancel, PlayTrack, process
<1>11. CASE \E n \in Nodes : \E e \in Contents(n) : ChangeFile(n, e)
  BY <1>2b, <1>11 DEF ChangeFile, changed
<1>12. CASE \E n \in Nodes : ChangeAccess(n)
  BY <1>2b, <1>12 DEF ChangeAccess, changed
<1>13. CASE \E n \in Ignorable : ChangeIgnore(n)
  BY <1>2b, <1>13 DEF ChangeIgnore, changed
<1>14. CASE UNCHANGED vars
  BY <1>2b, <1>14 DEF vars
<1>. QED  BY <1>3, <1>4, <1>5, <1>6, <1>7, <1>8, <1>9, <1>10, <1>11, <1>12, <1>13, <1>14 DEF Next, WalkStep

\* Whenever no walk runs, every track of a CUE sheet's directory refers to a song of the
\* database, also after a cancelled or failed walk and after a restart from the database
\* file (PurgeDanglingFromPlaylists(), the last thing Walk() does).
THEOREM SheetsAreWhole == Spec => []NoDanglingTracks
<1>1. Init => Sheets
  BY EmptyFacts DEF Init, Sheets, Undangling
<1>2. Typed /\ Sheets /\ [Next]_vars => Sheets'
  BY StepSheets
<1>3. Typed /\ Sheets => NoDanglingTracks
  BY DEF Sheets, Undangling, NoDanglingTracks, TracksIn
<1>. QED  BY <1>1, <1>2, <1>3, TypedAlways, PTL DEF Spec

----------------------------------------------------------------------------
(**************************************************************************)
(* What is new is announced by "modified".                                 *)
(**************************************************************************)

\* There are no CUE sheets.
NoSheets == \A n \in Nodes : Kind[n] # "cue"

\* What the database file lacks is announced by "modified"; between two updates it
\* lacks nothing.
Announced ==
  /\ pc \in {"idle", "exited"} => Contained(db, file)
  /\ NoSheets /\ ~modified => Contained(db, file)

\* After a change at and below n, nothing is new if nothing is new at n.
LEMMA ContainedAt ==
  ASSUME NEW d, NEW e, Proper(e), NEW n \in Nodes, Changed(d, e, n),
         n \in DOMAIN e.songs => /\ n \in DOMAIN d.songs /\ d.songs[n].mtime = e.songs[n].mtime
                                 /\ d.songs[n].channels = e.songs[n].channels,
         n \in DOMAIN e.dirs => \A t \in e.dirs[n].tracks :
                                  n \in DOMAIN d.dirs /\ t \in d.dirs[n].tracks
  PROVE  Contained(e, d)
<1>1. DOMAIN e.songs \subseteq Nodes /\ DOMAIN e.dirs \subseteq Nodes
  BY Fields DEF Proper
<1>2. ASSUME NEW m \in DOMAIN e.songs
      PROVE  /\ m \in DOMAIN d.songs /\ d.songs[m].mtime = e.songs[m].mtime
             /\ d.songs[m].channels = e.songs[m].channels
  <2>1. m # n => m \in DOMAIN d.songs /\ d.songs[m] = e.songs[m]
    BY <1>1 DEF Changed, SameAt, LessAt
  <2>. QED  BY <2>1
<1>3. ASSUME NEW m \in DOMAIN e.dirs, NEW t \in e.dirs[m].tracks
      PROVE  m \in DOMAIN d.dirs /\ t \in d.dirs[m].tracks
  <2>1. m # n => m \in DOMAIN d.dirs /\ d.dirs[m] = e.dirs[m]
    BY <1>1 DEF Changed, SameAt, LessAt
  <2>. QED  BY <1>3, <2>1
<1>. QED  BY <1>2, <1>3 DEF Contained

\* UpdateSongFile2() adds nothing without setting "modified".
LEMMA PlainSongAnnounced ==
  ASSUME Flags, NEW d, Proper(d), NEW m \in BOOLEAN, NEW n \in Nodes, Attached(d, n),
         NEW t \in 0..MaxChanges
  PROVE  LET r == UpdatePlainSong(d, m, n, t)
         IN ~r.modified => ~m /\ Contained(r.db, d)
<1>. DEFINE r == UpdatePlainSong(d, m, n, t)
            known == n \in DOMAIN d.songs
            current == known /\ d.songs[n].mtime = t /\ ~walk_discard
            recognized == Plain(n) # "bad"
            included == recognized /\ ShouldInclude(Plain(n))
<1>0. SongOutcome(d, m, n, t, r)
  BY UpdatePlainSongFacts
<1>. HIDE DEF r
<1>1. /\ Proper(r.db) /\ Attached(r.db, n) /\ Changed(d, r.db, n)
      /\ r.modified \in BOOLEAN /\ r.db.dirs = d.dirs /\ r.db.lists = d.lists
      /\ current => /\ r.modified = m /\ n \in DOMAIN r.db.songs
                    /\ r.db.songs[n] = [d.songs[n] EXCEPT !.mark = TRUE]
      /\ ~current /\ included =>
           /\ r.modified = TRUE /\ n \in DOMAIN r.db.songs
           /\ r.db.songs[n].mtime = t /\ r.db.songs[n].mark = TRUE
           /\ r.db.songs[n].channels = Plain(n)
      /\ ~current /\ ~included /\ recognized =>
           /\ n \notin DOMAIN r.db.songs
           /\ r.modified = (m \/ known)
      /\ ~current /\ ~recognized => r.db = d /\ r.modified = (m \/ known)
  BY <1>0 DEF SongOutcome
<1>2. \A v \in DOMAIN d.songs : d.songs[v] \in Song
  BY Fields DEF Proper
<1>3. CASE current
  <2>1. r.db.songs[n].mtime = d.songs[n].mtime /\ r.db.songs[n].channels = d.songs[n].channels
    BY <1>1, <1>2, <1>3, UnmarkedFields
  <2>2. Contained(r.db, d)
    BY <1>1, <1>3, <2>1, ContainedAt
  <2>. QED  BY <1>1, <1>3, <2>2 DEF r
<1>4. CASE ~current /\ included
  BY <1>1, <1>4 DEF r
<1>5. CASE ~current /\ ~included /\ recognized
  <2>2. Contained(r.db, d)
    BY <1>1, <1>5, ContainedAt
  <2>3. r.modified = (m \/ known)
    BY <1>1, <1>5
  <2>. QED  BY <2>2, <2>3 DEF r
<1>6. CASE ~current /\ ~recognized
  <2>2. Contained(r.db, d) /\ r.modified = (m \/ known)
    BY <1>1, <1>6, ContainedTrivially
  <2>. QED  BY <2>2 DEF r
<1>. QED  BY <1>3, <1>4, <1>5, <1>6

\* UpdateContainerFile() adds nothing without setting "modified".
LEMMA ContainerAnnounced ==
  ASSUME Flags, Proper(db), NEW n \in Nodes, Attached(db, n), NEW t \in 0..MaxChanges
  PROVE  LET r == UpdateContainerFile(n, t)
         IN ~r.modified => ~modified /\ Contained(r.db, db)
<1>. DEFINE r == UpdateContainerFile(n, t)
            e == r.db
<1>1. /\ Proper(e) /\ Attached(e, n) /\ Changed(db, e, n) /\ SameSongAndList(db, e, n)
      /\ r.modified \in BOOLEAN
      /\ Kind[n] # "container" => e = db /\ r.modified = modified
      /\ Kind[n] = "container" /\ Unmodified(n, t, "container") =>
           /\ r.modified = modified /\ n \in DOMAIN e.dirs
           /\ e.dirs[n] = [db.dirs[n] EXCEPT !.mark = TRUE]
           /\ DOMAIN e.songs = DOMAIN db.songs /\ DOMAIN e.dirs = DOMAIN db.dirs
           /\ DOMAIN e.lists = DOMAIN db.lists
      /\ Kind[n] = "container" /\ ~Unmodified(n, t, "container") /\ ContainerScan(n) # {} =>
           /\ r.modified = TRUE /\ n \in DOMAIN e.dirs /\ Leaf(e, n)
           /\ e.dirs[n] = [mtime |-> t, mark |-> TRUE, device |-> "container",
                           tracks |-> ContainerScan(n)]
      /\ Kind[n] = "container" /\ ~Unmodified(n, t, "container") /\ ContainerScan(n) = {} =>
           /\ r.modified = (modified \/ n \in DOMAIN db.dirs)
           /\ n \notin DOMAIN e.dirs /\ Leaf(e, n)
  BY UpdateContainerFileFacts
<1>. HIDE DEF r
<1>2. \A v \in DOMAIN db.dirs : db.dirs[v] \in Directory
  BY Fields DEF Proper
<1>3. n \in DOMAIN e.songs => n \in DOMAIN db.songs /\ db.songs[n] = e.songs[n]
  BY <1>1 DEF SameSongAndList
<1>4. CASE Kind[n] # "container"
  BY <1>1, <1>4, ContainedTrivially DEF r
<1>5. CASE Kind[n] = "container" /\ Unmodified(n, t, "container")
  <2>1. n \in DOMAIN db.dirs /\ e.dirs[n].tracks = db.dirs[n].tracks
    BY <1>1, <1>2, <1>5, UnmarkedFields
  <2>2. Contained(e, db)
    BY <1>1, <1>3, <2>1, ContainedAt
  <2>. QED  BY <1>1, <1>5, <2>2 DEF r
<1>6. CASE Kind[n] = "container" /\ ~Unmodified(n, t, "container") /\ ContainerScan(n) # {}
  BY <1>1, <1>6 DEF r
<1>7. CASE Kind[n] = "container" /\ ~Unmodified(n, t, "container") /\ ContainerScan(n) = {}
  <2>1. n \notin DOMAIN e.dirs /\ r.modified = (modified \/ n \in DOMAIN db.dirs)
    BY <1>1, <1>7
  <2>2. Contained(e, db)
    BY <1>1, <1>3, <2>1, ContainedAt
  <2>. QED  BY <2>1, <2>2 DEF r
<1>. QED  BY <1>4, <1>5, <1>6, <1>7

\* UpdateSongFile() adds nothing without setting "modified".
LEMMA SongFileAnnounced ==
  ASSUME Flags, Proper(db), NEW n \in Nodes, Attached(db, n), NEW t \in 0..MaxChanges
  PROVE  LET r == UpdateSongFile(n, t)
         IN ~r.modified => ~modified /\ Contained(r.db, db)
<1>. DEFINE r == UpdateSongFile(n, t)
            c == UpdateContainerFile(n, t)
            current == n \in DOMAIN db.songs /\ db.songs[n].mtime = t /\ ~walk_discard
<1>1. \/ ~fs[n].access /\ r.db = db /\ r.modified = modified
      \/ fs[n].access /\ current /\ r = UpdatePlainSong(db, modified, n, t)
      \/ fs[n].access /\ ~current /\ IsContainer(n, t) /\ r = c
      \/ fs[n].access /\ ~current /\ ~IsContainer(n, t)
           /\ r = UpdatePlainSong(c.db, c.modified, n, t)
  BY UpdateSongFileFacts
<1>2. ~c.modified => ~modified /\ Contained(c.db, db)
  BY ContainerAnnounced
<1>3. Proper(c.db) /\ Attached(c.db, n) /\ c.modified \in BOOLEAN
  BY UpdateContainerFileFacts
<1>. HIDE DEF r, c
<1>4. CASE ~fs[n].access /\ r.db = db /\ r.modified = modified
  BY <1>4, ContainedTrivially DEF r
<1>5. CASE r = UpdatePlainSong(db, modified, n, t)
  <2>1. modified \in BOOLEAN
    BY DEF Flags
  <2>2. ~r.modified => ~modified /\ Contained(r.db, db)
    BY <1>5, <2>1, PlainSongAnnounced
  <2>. QED  BY <2>2 DEF r
<1>6. CASE r = c
  BY <1>2, <1>6 DEF r
<1>7. CASE r = UpdatePlainSong(c.db, c.modified, n, t)
  <2>1. ~r.modified => ~c.modified /\ Contained(r.db, c.db)
    BY <1>3, <1>7, PlainSongAnnounced
  <2>2. ~r.modified => ~modified /\ Contained(r.db, db)
    BY <1>2, <2>1, ContainedTwice
  <2>. QED  BY <2>2 DEF r
<1>. QED  BY <1>1, <1>4, <1>5, <1>6, <1>7

\* UpdateArchiveFile() adds nothing without setting "modified".
LEMMA ArchiveAnnounced ==
  ASSUME Flags, Proper(db), NEW n \in Nodes, Attached(db, n), NEW t \in 0..MaxChanges
  PROVE  LET r == UpdateArchiveFile(n, t)
         IN ~r.modified => ~modified /\ Contained(r.db, db)
<1>. DEFINE r == UpdateArchiveFile(n, t)
            e == r.db
<1>1. /\ Proper(e) /\ Attached(e, n) /\ Changed(db, e, n) /\ SameSongAndList(db, e, n)
      /\ r.modified \in BOOLEAN
      /\ n \in DOMAIN e.dirs
      /\ Unmodified(n, t, "archive") =>
           /\ r.modified = modified
           /\ e.dirs[n] = [db.dirs[n] EXCEPT !.mark = TRUE]
           /\ DOMAIN e.songs = DOMAIN db.songs /\ DOMAIN e.dirs = DOMAIN db.dirs
           /\ DOMAIN e.lists = DOMAIN db.lists
      /\ ~Unmodified(n, t, "archive") =>
           /\ r.modified = (modified \/ n \in DOMAIN db.dirs \/ ArchiveTracks(n) # {})
           /\ Leaf(e, n)
           /\ e.dirs[n] = [mtime |-> t, mark |-> TRUE, device |-> "archive",
                           tracks |-> ArchiveTracks(n)]
  BY UpdateArchiveFileFacts
<1>. HIDE DEF r
<1>2. \A v \in DOMAIN db.dirs : db.dirs[v] \in Directory
  BY Fields DEF Proper
<1>3. n \in DOMAIN e.songs => n \in DOMAIN db.songs /\ db.songs[n] = e.songs[n]
  BY <1>1 DEF SameSongAndList
<1>5. CASE Unmodified(n, t, "archive")
  <2>1. n \in DOMAIN db.dirs /\ e.dirs[n].tracks = db.dirs[n].tracks
    BY <1>1, <1>2, <1>5, UnmarkedFields
  <2>2. Contained(e, db)
    BY <1>1, <1>3, <2>1, ContainedAt
  <2>. QED  BY <1>1, <1>5, <2>2 DEF r
<1>6. CASE ~Unmodified(n, t, "archive")
  <2>1. /\ r.modified = (modified \/ n \in DOMAIN db.dirs \/ ArchiveTracks(n) # {})
        /\ e.dirs[n].tracks = ArchiveTracks(n)
    BY <1>1, <1>6
  <2>2. ASSUME ~r.modified PROVE Contained(e, db)
    <3>1. e.dirs[n].tracks = {}
      BY <2>1, <2>2
    <3>. QED  BY <1>1, <1>3, <3>1, ContainedAt
  <2>. QED  BY <2>1, <2>2 DEF r
<1>. QED  BY <1>5, <1>6

\* UpdateRegularFile() adds nothing without setting "modified", if it is no CUE sheet.
LEMMA RegularFileAnnounced ==
  ASSUME Typed, NoSheets, RegularFile, ~modified'
  PROVE  ~modified /\ Contained(db', db)
<1>. DEFINE n == Top.entry.node
<1>1. n \in Nodes /\ Attached(db, n) /\ Top.entry.mtime \in 0..MaxChanges
  BY ScanningFacts DEF RegularFile
<1>2. PICK media : LET r == UpdateRegularFile(n, Top.entry.mtime, media)
                   IN db' = r.db /\ modified' = r.modified
  BY DEF RegularFile
<1>3. Flags /\ Proper(db)
  BY DEF Typed, Scalars, Flags
<1>. DEFINE t == Top.entry.mtime
            r == UpdateRegularFile(n, t, media)
<1>4. \/ Kind[n] \in {"song", "container"} /\ r = UpdateSongFile(n, t)
      \/ Kind[n] = "archive" /\ r = UpdateArchiveFile(n, t)
      \/ Kind[n] = "cue" /\ r = UpdatePlaylistFile(n, t, media)
      \/ /\ Kind[n] \notin {"song", "container", "archive", "cue"}
         /\ r.db = db /\ r.modified = modified
  BY <1>1, <1>3, UpdateRegularFileFacts
<1>5. db' = r.db /\ modified' = r.modified
  BY <1>2
<1>. HIDE DEF r
<1>6. CASE r = UpdateSongFile(n, t)
  BY <1>1, <1>3, <1>5, <1>6, SongFileAnnounced
<1>7. CASE r = UpdateArchiveFile(n, t)
  BY <1>1, <1>3, <1>5, <1>7, ArchiveAnnounced
<1>8. CASE r.db = db /\ r.modified = modified
  BY <1>5, <1>8, ContainedTrivially
<1>. QED  BY <1>1, <1>4, <1>6, <1>7, <1>8 DEF NoSheets

\* EnterDirectory() only takes away.
LEMMA EnteredContained ==
  ASSUME NEW d, Proper(d), NEW D, InTree(d, D), ignore \subseteq Nodes
  PROVE  Contained(Entered(d, D), d)
<1>. DEFINE e == Entered(d, D)
            x == DOMAIN d.dirs \cap Children(D) \cap ignore
<1>1. /\ Proper(e) /\ InTree(e, D)
      /\ DOMAIN e.songs = (DOMAIN d.songs \ (Subtree(x) \ x)) \ (Children(D) \cap ignore)
      /\ DOMAIN e.dirs = DOMAIN d.dirs \ Subtree(x)
      /\ DOMAIN e.lists = DOMAIN d.lists \ (Subtree(x) \ x)
      /\ \A m \in DOMAIN e.songs : e.songs[m] =
           IF Parent[m] = D THEN [d.songs[m] EXCEPT !.mark = FALSE] ELSE d.songs[m]
      /\ \A m \in DOMAIN e.dirs : e.dirs[m] =
           IF Parent[m] = D THEN [d.dirs[m] EXCEPT !.mark = FALSE] ELSE d.dirs[m]
      /\ \A m \in DOMAIN e.lists : e.lists[m] =
           IF Parent[m] = D THEN [d.lists[m] EXCEPT !.mark = FALSE] ELSE d.lists[m]
      /\ \A m \in Nodes \ Subtree(Children(D)) : SameAt(d, e, m)
  BY EnteredFacts
<1>. HIDE DEF e
<1>2. /\ \A m \in DOMAIN d.songs : d.songs[m] \in Song
      /\ \A m \in DOMAIN d.dirs : d.dirs[m] \in Directory
  BY Fields DEF Proper
<1>3. ASSUME NEW m \in DOMAIN e.songs
      PROVE  /\ m \in DOMAIN d.songs /\ d.songs[m].mtime = e.songs[m].mtime
             /\ d.songs[m].channels = e.songs[m].channels
  <2>1. m \in DOMAIN d.songs /\ d.songs[m] \in Song
    BY <1>1, <1>2
  <2>2. e.songs[m] = [d.songs[m] EXCEPT !.mark = FALSE] \/ e.songs[m] = d.songs[m]
    BY <1>1
  <2>. QED  BY <2>1, <2>2, UnmarkedFields
<1>4. ASSUME NEW m \in DOMAIN e.dirs
      PROVE  m \in DOMAIN d.dirs /\ d.dirs[m].tracks = e.dirs[m].tracks
  <2>1. m \in DOMAIN d.dirs /\ d.dirs[m] \in Directory
    BY <1>1, <1>2
  <2>2. e.dirs[m] = [d.dirs[m] EXCEPT !.mark = FALSE] \/ e.dirs[m] = d.dirs[m]
    BY <1>1
  <2>. QED  BY <2>1, <2>2, UnmarkedFields
<1>. QED  BY <1>3, <1>4 DEF Contained, e

\* Entering a directory adds no song and no track.
LEMMA SubdirectoryAnnounced ==
  ASSUME Typed, Subdirectory, ~modified'
  PROVE  ~modified /\ Contained(db', db)
<1>. DEFINE n == Top.entry.node
<1>0. Scanning("dir") /\ n \in Nodes /\ Attached(db, n) /\ Proper(db) /\ ignore \subseteq Nodes
  BY ScanningFacts DEF Subdirectory, Typed, Scalars
<1>1. CASE EnterDirectory(MakeRealChild(db, n), modified, n, Top.entry.mtime, EntryDone)
  <2>. DEFINE r == MakeRealChild(db, n)
  <2>1. Proper(r) /\ InTree(r, n) /\ db' = Entered(r, n)
    BY <1>0, <1>1, SubdirectoryEnters
  <2>2. /\ Proper(r) /\ Attached(r, n) /\ Changed(db, r, n)
        /\ r.songs = db.songs /\ r.lists = db.lists
        /\ DOMAIN r.dirs = DOMAIN db.dirs \cup {n}
        /\ r.dirs[n].device = "real"
        /\ r.dirs[n].tracks = IF n \in DOMAIN db.dirs THEN db.dirs[n].tracks ELSE {}
        /\ \A m \in DOMAIN db.dirs \ {n} : r.dirs[m] = db.dirs[m]
    BY <1>0, MakeRealChildFacts
  <2>. HIDE DEF r
  <2>3. Contained(r, db)
    BY <2>2 DEF Contained
  <2>4. Contained(db', r)
    BY <1>0, <2>1, EnteredContained
  <2>5. ~modified
    BY <1>1 DEF EnterDirectory
  <2>. QED  BY <2>3, <2>4, <2>5, ContainedTwice
<1>2. CASE db' = DeleteDirectories(db, {n}) /\ UNCHANGED modified
  <2>. DEFINE e == DeleteDirectories(db, {n})
  <2>1. /\ Proper(e) /\ Attached(e, n) /\ Changed(db, e, n)
        /\ DOMAIN e.songs = DOMAIN db.songs \ (Subtree({n}) \ {n})
        /\ DOMAIN e.dirs = DOMAIN db.dirs \ Subtree({n})
        /\ DOMAIN e.lists = DOMAIN db.lists \ (Subtree({n}) \ {n})
        /\ \A m \in DOMAIN e.songs : e.songs[m] = db.songs[m]
        /\ \A m \in DOMAIN e.dirs : e.dirs[m] = db.dirs[m]
        /\ \A m \in DOMAIN e.lists : e.lists[m] = db.lists[m]
    BY <1>0, DeleteOneDirectory
  <2>. HIDE DEF e
  <2>1b. Contained(e, db)
    BY <2>1 DEF Contained
  <2>2. Contained(db', db)
    BY <1>2, <2>1b DEF e
  <2>. QED  BY <1>2, <2>2
<1>. QED  BY <1>1, <1>2 DEF Subdirectory

\* Deleting an entry adds nothing.
LEMMA DeleteEntryAnnounced ==
  ASSUME Typed, NEW n \in Nodes, DeleteEntry(n), ~modified'
  PROVE  ~modified /\ Contained(db', db)
<1>1. n \in Nodes /\ Attached(db, n) /\ Proper(db) /\ db' = DeleteNameIn(db, n)
  BY ReadingFacts DEF DeleteEntry, Typed
<1>2. Proper(db') /\ Changed(db, db', n) /\ n \notin DOMAIN db'.songs /\ n \notin DOMAIN db'.dirs
  BY <1>1, DeleteNameInFacts
<1>3. Contained(db', db)
  BY <1>1, <1>2, ContainedAt
<1>. QED  BY <1>3 DEF DeleteEntry

\* The end of a directory adds nothing.
LEMMA EndDirectoryAnnounced ==
  ASSUME Typed, EndDirectory, ~modified'
  PROVE  ~modified /\ Contained(db', db)
<1>. DEFINE D == Top.dir
            p == Purged(db, D)
<1>1. /\ Top \in Frame /\ InTree(db, D) /\ db' = Ended(db, D, Top.mtime) /\ Proper(db)
  BY EndDirectoryFacts DEF Typed
<1>2. Top.mtime \in 0..MaxChanges
  BY <1>1 DEF Frame
<1>3. /\ Proper(db') /\ InTree(db', D)
      /\ db'.songs = p.songs /\ db'.lists = p.lists /\ DOMAIN db'.dirs = DOMAIN p.dirs
      /\ \A m \in DOMAIN p.dirs : m # D => db'.dirs[m] = p.dirs[m]
      /\ D # Root => /\ D \in DOMAIN db.dirs /\ D \in DOMAIN db'.dirs
                     /\ db'.dirs[D] = [mtime |-> Top.mtime, mark |-> TRUE,
                                       device |-> db.dirs[D].device, tracks |-> {}]
  BY <1>1, <1>2, EndedFacts
<1>4. /\ DOMAIN p.songs \subseteq DOMAIN db.songs
      /\ DOMAIN p.dirs \subseteq DOMAIN db.dirs
      /\ \A m \in DOMAIN p.songs : p.songs[m] = db.songs[m]
      /\ \A m \in DOMAIN p.dirs : p.dirs[m] = db.dirs[m]
  BY <1>1, PurgedFacts
<1>. HIDE DEF p
<1>5. ASSUME NEW m \in DOMAIN db'.dirs, NEW t \in db'.dirs[m].tracks
      PROVE  m \in DOMAIN db.dirs /\ t \in db.dirs[m].tracks
  <2>1. CASE m = D
    <3>1. D # Root
      BY <1>3, <1>4, <2>1, TreeAssumption, Fields DEF Proper
    <3>2. db'.dirs[D].tracks = {}
      BY <1>3, <3>1
    <3>. QED  BY <1>5, <2>1, <3>2
  <2>2. CASE m # D
    BY <1>3, <1>4, <1>5, <2>2
  <2>. QED  BY <2>1, <2>2
<1>6. Contained(db', db)
  BY <1>3, <1>4, <1>5 DEF Contained
<1>. QED  BY <1>6 DEF EndDirectory

\* What Save() leaves in memory is in the file.
LEMMA SaveAnnounced ==
  ASSUME Proper(db), ~SaveMayFail, Save
  PROVE  Contained(db', file')
  BY SaveKeeps DEF Save

\* Every step keeps it so that what is new is in the file or will be saved.
LEMMA StepAnnounced ==
  ASSUME ~SaveMayFail, OneShot \/ NoSheets, Typed, Announced, [Next]_vars
  PROVE  Announced'
<1>0. Proper(db) /\ modified \in BOOLEAN /\ ignore \subseteq Nodes /\ fs \in [Nodes -> Entry]
  BY DEF Typed, Scalars
<1>1. CASE UNCHANGED <<db, file, modified>> /\ (pc' = pc \/ pc \in {"idle", "exited"})
  BY <1>1 DEF Announced, Contained, NoSheets
<1>2. CASE /\ UNCHANGED file /\ pc' \notin {"idle", "exited"}
           /\ NoSheets /\ ~modified' => ~modified /\ Contained(db', db)
  BY <1>2, ContainedTwice DEF Announced, NoSheets
<1>3. CASE Contained(db', file')
  BY <1>3 DEF Announced
<1>4. ASSUME NEW n \in Nodes, SkipEntry(n) \/ DeleteEntry(n) \/ StatEntry(n) PROVE Announced'
  <2>1. CASE SkipEntry(n) \/ StatEntry(n)
    BY <1>1, <2>1 DEF SkipEntry, StatEntry, process
  <2>2. CASE DeleteEntry(n)
    BY <1>2, <2>2, DeleteEntryAnnounced DEF DeleteEntry, Reading, InDirectory, process
  <2>. QED  BY <1>4, <2>1, <2>2
<1>5. CASE RegularFile
  BY <1>2, <1>5, RegularFileAnnounced DEF RegularFile, Scanning, InDirectory, process
<1>6. CASE Subdirectory
  BY <1>2, <1>6, SubdirectoryAnnounced DEF Subdirectory, Scanning, InDirectory, process
<1>7. CASE AncestorLoop \/ EndUri
  BY <1>1, <1>7 DEF AncestorLoop, EndUri, process
<1>8. CASE EndDirectory
  BY <1>2, <1>8, EndDirectoryAnnounced DEF EndDirectory, InDirectory, process
<1>9. CASE FinishWalk
  <2>. DEFINE r == PurgeDanglingFromPlaylists(db)
  <2>1. /\ DOMAIN r.db.songs = DOMAIN db.songs /\ DOMAIN r.db.dirs = DOMAIN db.dirs
        /\ \A n \in DOMAIN db.songs : /\ r.db.songs[n].mtime = db.songs[n].mtime
                                      /\ r.db.songs[n].channels = db.songs[n].channels
        /\ \A n \in DOMAIN db.dirs : r.db.dirs[n].tracks \subseteq db.dirs[n].tracks
    BY <1>0, PurgeDanglingFacts
  <2>2. Contained(r.db, db)
    <3>. HIDE DEF r
    <3>. QED  BY <2>1 DEF Contained
  <2>3. db' = r.db /\ (~modified' => ~modified) /\ pc' = "task" /\ UNCHANGED file
    BY <1>9 DEF FinishWalk, process
  <2>. QED  BY <1>2, <2>2, <2>3
<1>10. CASE TaskSave
  <2>1. CASE modified \/ fresh
    <3>1. Contained(db', file')
      BY <1>0, <1>10, <2>1, SaveAnnounced DEF TaskSave
    <3>. QED  BY <1>3, <3>1
  <2>2. CASE ~(modified \/ fresh)
    <3>1. UNCHANGED <<db, file, modified>> /\ pc' = IF OneShot THEN "main" ELSE "idle"
      BY <1>10, <2>2 DEF TaskSave
    <3>2. NoSheets => Contained(db, file)
      BY <2>2 DEF Announced
    <3>. QED  BY <3>1, <3>2 DEF Announced, NoSheets
  <2>. QED  BY <2>1, <2>2
<1>11. CASE MainSave
  BY <1>0, <1>3, <1>11, SaveAnnounced DEF MainSave
<1>12. CASE \E m \in Modes : Open(m)
  BY <1>3, <1>12, ContainedTrivially DEF Open
<1>13. ASSUME NEW discard, StartWalk(discard) PROVE Announced'
  <2>1. pc = "idle" /\ UNCHANGED file /\ Contained(db, file)
    BY <1>13 DEF StartWalk, Announced
  <2>2. CASE EnterDirectory(db, FALSE, Root, 0, << >>)
    <3>1. db' = Entered(db, Root)
      BY <2>1, <2>2, StartWalkFacts
    <3>2. InTree(db, Root)
      BY DEF InTree
    <3>3. Contained(db', db)
      BY <1>0, <3>1, <3>2, EnteredContained
    <3>. QED  BY <1>3, <2>1, <3>3, ContainedTwice
  <2>3. CASE UNCHANGED db
    BY <1>3, <2>1, <2>3
  <2>. QED  BY <1>13, <2>2, <2>3 DEF StartWalk
<1>14. ASSUME NEW discard, NEW n \in Nodes, StartUpdateUri(n, discard) PROVE Announced'
  <2>1. pc = "idle" /\ UNCHANGED file /\ Contained(db, file) /\ db' = MakeParents(n)
    BY <1>14 DEF StartUpdateUri, Announced
  <2>2. /\ DOMAIN db'.songs \subseteq DOMAIN db.songs
        /\ \A m \in DOMAIN db'.songs : db'.songs[m] = db.songs[m]
        /\ \A m \in DOMAIN db.dirs : db'.dirs[m] = db.dirs[m]
        /\ \A m \in DOMAIN db'.dirs : m \notin DOMAIN db.dirs => db'.dirs[m].tracks = {}
    BY <1>0, <2>1, MakeParentsFacts
  <2>3. Contained(db', db)
    BY <2>2 DEF Contained
  <2>. QED  BY <1>3, <2>1, <2>3, ContainedTwice
<1>15. CASE Exit \/ Cancel \/ \E n \in Nodes : PlayTrack(n)
  BY <1>1, <1>15 DEF Exit, Cancel, PlayTrack, process
<1>16. CASE \E n \in Nodes : \E e \in Contents(n) : ChangeFile(n, e)
  BY <1>1, <1>16 DEF ChangeFile, changed
<1>17. CASE \E n \in Nodes : ChangeAccess(n)
  BY <1>1, <1>17 DEF ChangeAccess, changed
<1>18. CASE \E n \in Ignorable : ChangeIgnore(n)
  BY <1>1, <1>18 DEF ChangeIgnore, changed
<1>19. CASE UNCHANGED vars
  BY <1>1, <1>19 DEF vars
<1>. QED  BY <1>4, <1>5, <1>6, <1>7, <1>8, <1>9, <1>10, <1>11, <1>12, <1>13, <1>14, <1>15, <1>16,
             <1>17, <1>18, <1>19 DEF Next, WalkStep

\* Between two updates, what they added or changed is in the database file: Walk() sets
\* "modified" for every addition and Task() saves, if Save() does not fail.  For the
\* daemon this takes a music directory without CUE sheets: UpdatePlaylistFile() brings
\* the tracks of a sheet back without setting "modified".
THEOREM AdditionsReachTheFile ==
  ASSUME ~SaveMayFail, OneShot \/ NoSheets
  PROVE  Spec => []AdditionsAreSaved
<1>1. Init => Announced
  BY ContainedTrivially DEF Init, Announced
<1>2. Typed /\ Announced /\ [Next]_vars => Announced'
  BY StepAnnounced
<1>3. Typed /\ Announced => AdditionsAreSaved
  <2>. SUFFICES ASSUME Typed, Announced, pc \in {"idle", "exited"}
                PROVE  /\ \A n \in DOMAIN db.songs : /\ n \in DOMAIN file.songs
                                                     /\ Content(file).songs[n] = Content(db).songs[n]
                       /\ Content(db).tracks \subseteq Content(file).tracks
    BY DEF AdditionsAreSaved
  <2>1. Contained(db, file)
    BY DEF Announced
  <2>2. ASSUME NEW n \in DOMAIN db.songs
        PROVE  n \in DOMAIN file.songs /\ Content(file).songs[n] = Content(db).songs[n]
    <3>1. /\ n \in DOMAIN file.songs /\ file.songs[n].mtime = db.songs[n].mtime
          /\ file.songs[n].channels = db.songs[n].channels
      BY <2>1 DEF Contained
    <3>2. Content(db).songs[n] = <<db.songs[n].mtime, db.songs[n].channels>>
      BY DEF Content
    <3>3. Content(file).songs[n] = <<file.songs[n].mtime, file.songs[n].channels>>
      BY <3>1 DEF Content
    <3>. QED  BY <3>1, <3>2, <3>3
  <2>3. Content(db).tracks \subseteq Content(file).tracks
    BY <2>1 DEF Content, Contained
  <2>. QED  BY <2>2, <2>3
<1>. QED  BY <1>1, <1>2, <1>3, TypedAlways, PTL DEF Spec

----------------------------------------------------------------------------
(***************************************************************************)
(* What is in the database was found on disk: the history of one process   *)
(* after the other, each with one update and the same channel mode.        *)
(***************************************************************************)

\* Something has this name in the database.
Present(d, n) == n \in DOMAIN d.songs \/ n \in DOMAIN d.dirs \/ n \in DOMAIN d.lists

\* What lies below a node.
Below(n) == Subtree({n}) \ {n}

\* Only a real directory has something in it.
RealParents(d) ==
  \A m \in Nodes : Present(d, m) /\ Parent[m] # Root => d.dirs[Parent[m]].device = "real"

\* All directories above what the database lists are in it.
LEMMA AncestorsPresent ==
  ASSUME NEW d, Proper(d)
  PROVE  \A m \in Nodes : Present(d, m) => \A p \in Ancestors[m] : p \in DOMAIN d.dirs
<1>0. Tree(d) /\ DOMAIN d.dirs \subseteq Nodes
  BY Fields DEF Proper
<1>. DEFINE S == {m \in Nodes : Present(d, m) /\ \E p \in Ancestors[m] : p \notin DOMAIN d.dirs}
<1>1. ASSUME S # {} PROVE FALSE
  <2>1. PICK m \in S : Parent[m] \notin S
    BY <1>1, TreeAssumption
  <2>2. PICK p \in Ancestors[m] : p \notin DOMAIN d.dirs
    BY <2>1
  <2>3. m \in Nodes /\ Present(d, m)
    BY <2>1
  <2>4. Ancestors[m] = IF Parent[m] = Root THEN {} ELSE {Parent[m]} \cup Ancestors[Parent[m]]
    BY <2>3, AncestorsUnfold
  <2>5. Parent[m] # Root /\ Parent[m] \in DOMAIN d.dirs
    BY <1>0, <2>2, <2>3, <2>4 DEF Tree, Present
  <2>6. Parent[m] \in Nodes /\ Present(d, Parent[m])
    BY <1>0, <2>5 DEF Present
  <2>7. p \in Ancestors[Parent[m]]
    BY <2>2, <2>4, <2>5
  <2>. QED  BY <2>1, <2>2, <2>6, <2>7
<1>. QED  BY <1>1

\* A file that is presented as a directory has no directory entries.
LEMMA VirtualLeaf ==
  ASSUME NEW d, Proper(d), RealParents(d), NEW n \in DOMAIN d.dirs, d.dirs[n].device # "real"
  PROVE  Leaf(d, n)
<1>0. n \in Nodes
  BY Fields DEF Proper
<1>1. ASSUME NEW m \in Subtree({n}) \ {n}, Present(d, m) PROVE FALSE
  <2>1. m \in Nodes /\ n \in Ancestors[m]
    BY <1>0, <1>1, SubtreeOfOne DEF Subtree
  <2>2. PICK c \in Children(n) : m = c \/ c \in Ancestors[m]
    BY <1>0, <2>1, ChildOnTheWay DEF Over
  <2>3. c \in Nodes /\ Parent[c] = n
    BY DEF Children
  <2>4. Present(d, c)
    BY <1>1, <2>1, <2>2, AncestorsPresent DEF Present
  <2>. QED  BY <1>0, <2>3, <2>4, TreeAssumption DEF RealParents
<1>. QED  BY <1>1 DEF Leaf, Present

\* The device of n allows for what is in it.
RealAt(d, e, n) ==
  Leaf(e, n) \/ e.dirs[n].device = "real" \/ e.dirs[n].device = d.dirs[n].device

\* An operation on one node of a real directory keeps all parents real.
LEMMA RealParentsKept ==
  ASSUME NEW d, Proper(d), RealParents(d), NEW e, Proper(e), NEW n \in Nodes, Changed(d, e, n),
         Parent[n] # Root => d.dirs[Parent[n]].device = "real", RealAt(d, e, n), Attached(d, n)
  PROVE  RealParents(e)
<1>1. ASSUME NEW m \in Nodes, Present(e, m), Parent[m] # Root
      PROVE  e.dirs[Parent[m]].device = "real"
  <2>. DEFINE p == Parent[m]
  <2>0. /\ p \in Nodes /\ (p \in Subtree({n}) <=> m \in Subtree({n}) \ {n})
        /\ p \in DOMAIN e.dirs
    BY <1>1, SubtreeOfOne, TreeAssumption DEF Proper, Tree, Present
  <2>1. CASE m \notin Subtree({n}) \ {n}
    <3>1. SameAt(d, e, p)
      BY <2>0, <2>1 DEF Changed
    <3>2. m # n => Present(d, m)
      BY <1>1, <2>1 DEF Changed, SameAt, Present
    <3>3. d.dirs[p].device = "real"
      BY <1>1, <3>2 DEF RealParents
    <3>. QED  BY <2>0, <3>1, <3>3 DEF SameAt
  <2>2. CASE m \in Subtree({n}) \ {n}
    <3>1. Present(d, m)
      BY <1>1, <2>2 DEF Changed, LessAt, Present
    <3>2. d.dirs[p].device = "real"
      BY <1>1, <3>1 DEF RealParents
    <3>3. CASE p = n
      <4>1. ~Leaf(e, n)
        BY <1>1, <2>2 DEF Leaf, Present
      <4>. QED  BY <3>2, <3>3, <4>1 DEF RealAt
    <3>4. CASE p # n
      <4>1. LessAt(d, e, p)
        BY <2>0, <2>2, <3>4 DEF Changed
      <4>. QED  BY <2>0, <3>2, <4>1 DEF LessAt
    <3>. QED  BY <3>3, <3>4
  <2>. QED  BY <2>1, <2>2
<1>. QED  BY <1>1 DEF RealParents

\* The tracks of a container that the channel mode lets in.
Included(n) == {t \in fs[n].tracks : ShouldInclude(t)}

\* A song with the mtime of its file is what a scan of the file would find now.
HonestSong(n, s) ==
  /\ Kind[n] \in {"song", "container"} /\ s.mtime \in 1..changes
  /\ s.mtime = fs[n].mtime =>
       /\ fs[n].type = "file" /\ fs[n].plain # "bad" /\ s.channels = fs[n].plain
       /\ ShouldInclude(fs[n].plain) /\ (Kind[n] = "container" => Included(n) = {})

\* A container or archive with the mtime of its file has the tracks a scan would find
\* now; an archive may have none instead, when it could not be opened.
HonestDir(n, v) ==
  /\ v.device = "container" =>
       /\ Kind[n] = "container" /\ v.mtime \in 1..changes /\ v.tracks # {}
       /\ v.mtime = fs[n].mtime => fs[n].type = "file" /\ v.tracks = Included(n)
  /\ v.device = "archive" =>
       /\ Kind[n] = "archive" /\ v.mtime \in 1..changes
       /\ v.mtime = fs[n].mtime => fs[n].type = "file" /\ v.tracks \in {{}, fs[n].tracks}

\* What the database has at a node is what a scan found at that mtime.
HonestAt(d, n) ==
  /\ n \in DOMAIN d.songs => HonestSong(n, d.songs[n])
  /\ n \in DOMAIN d.dirs => HonestDir(n, d.dirs[n])

\* The same of the whole database.
Honest(d) == \A n \in Nodes : HonestAt(d, n)

\* An operation on one node disturbs this at that node only.
LEMMA HonestKept ==
  ASSUME NEW d, Honest(d), NEW e, NEW n \in Nodes, Changed(d, e, n), HonestAt(e, n)
  PROVE  Honest(e)
<1>1. ASSUME NEW m \in Nodes, m # n PROVE HonestAt(e, m)
  <2>1. SameAt(d, e, m) \/ LessAt(d, e, m)
    BY <1>1 DEF Changed
  <2>2. m \in DOMAIN e.songs => m \in DOMAIN d.songs /\ e.songs[m] = d.songs[m]
    BY <2>1 DEF SameAt, LessAt
  <2>3. m \in DOMAIN e.dirs => m \in DOMAIN d.dirs /\ e.dirs[m] = d.dirs[m]
    BY <2>1 DEF SameAt, LessAt
  <2>4. HonestAt(d, m)
    BY DEF Honest
  <2>. QED  BY <2>2, <2>3, <2>4 DEF HonestAt
<1>. QED  BY <1>1 DEF Honest

\* Marks and the in_playlist flag are not part of it, and fewer tracks of a CUE sheet
\* are no harm.
LEMMA HonestByFields ==
  ASSUME NEW d, NEW e, NEW n, HonestAt(d, n),
         n \in DOMAIN e.songs => /\ n \in DOMAIN d.songs /\ e.songs[n].mtime = d.songs[n].mtime
                                 /\ e.songs[n].channels = d.songs[n].channels,
         n \in DOMAIN e.dirs =>
           \/ e.dirs[n].device \notin {"container", "archive"}
           \/ /\ n \in DOMAIN d.dirs /\ e.dirs[n].mtime = d.dirs[n].mtime
              /\ e.dirs[n].device = d.dirs[n].device /\ e.dirs[n].tracks = d.dirs[n].tracks
  PROVE  HonestAt(e, n)
<1>1. n \in DOMAIN e.songs => HonestSong(n, e.songs[n])
  BY DEF HonestAt, HonestSong
<1>2. n \in DOMAIN e.dirs => HonestDir(n, e.dirs[n])
  BY DEF HonestAt, HonestDir
<1>. QED  BY <1>1, <1>2 DEF HonestAt

\* The mtime of an entry that is being scanned as a regular file.
FileStamp(n, t) == t \in 1..changes /\ (t = fs[n].mtime => fs[n].type = "file")

\* What a scan of a readable file tells.
LEMMA ReadableFacts ==
  ASSUME NEW n, Readable(n)
  PROVE  Plain(n) = fs[n].plain /\ ArchiveTracks(n) = fs[n].tracks
  BY DEF Plain, ArchiveTracks

\* What a scan of a container tells that the plugin does not have open.
LEMMA UnopenedFacts ==
  ASSUME NEW n, ~Kept(n)
  PROVE  ContainerScan(n) = IF Readable(n) THEN Included(n) ELSE {}
<1>1. CASE Readable(n) /\ fs[n].tracks # {}
  <2>1. Opened(n).tracks = fs[n].tracks
    BY <1>1 DEF Opened
  <2>. QED  BY <1>1, <2>1 DEF ContainerScan, Included
<1>2. CASE ~(Readable(n) /\ fs[n].tracks # {})
  <2>1. Opened(n).tracks = {}
    BY <1>2 DEF Opened, NoReader
  <2>. QED  BY <1>2, <2>1 DEF ContainerScan, Included
<1>. QED  BY <1>1, <1>2

\* UpdateSongFile2() writes down what it found.
LEMMA PlainSongHonest ==
  ASSUME NEW d, Proper(d), NEW m, NEW n \in Nodes, NEW t, FileStamp(n, t), HonestAt(d, n),
         Kind[n] \in {"song", "container"}, NEW r, SongOutcome(d, m, n, t, r),
         \/ n \in DOMAIN d.songs /\ d.songs[n].mtime = t /\ ~walk_discard
         \/ Kind[n] = "container" /\ Readable(n) => Included(n) = {}
  PROVE  HonestAt(r.db, n) /\ RealAt(d, r.db, n)
<1>. DEFINE known == n \in DOMAIN d.songs
            current == known /\ d.songs[n].mtime = t /\ ~walk_discard
            recognized == Plain(n) # "bad"
            included == recognized /\ ShouldInclude(Plain(n))
            e == r.db
<1>1. /\ e.dirs = d.dirs
      /\ current => n \in DOMAIN e.songs /\ e.songs[n] = [d.songs[n] EXCEPT !.mark = TRUE]
      /\ ~current /\ included => /\ n \in DOMAIN e.songs /\ e.songs[n].mtime = t
                                 /\ e.songs[n].channels = Plain(n)
      /\ ~current /\ ~included /\ recognized => n \notin DOMAIN e.songs
      /\ ~current /\ ~recognized => e = d
  BY DEF SongOutcome
<1>2. RealAt(d, e, n)
  BY <1>1 DEF RealAt
<1>3. \A v \in DOMAIN d.songs : d.songs[v] \in Song
  BY Fields DEF Proper
<1>. HIDE DEF e
<1>4. CASE current
  <2>1. e.songs[n].mtime = d.songs[n].mtime /\ e.songs[n].channels = d.songs[n].channels
    BY <1>1, <1>3, <1>4, UnmarkedFields
  <2>2. HonestAt(e, n)
    BY <1>1, <1>4, <2>1, HonestByFields
  <2>. QED  BY <1>2, <2>2 DEF e
<1>5. CASE ~current /\ included
  <2>1. Readable(n)
    BY <1>5 DEF Plain
  <2>2. Plain(n) = fs[n].plain
    BY <2>1, ReadableFacts
  <2>3. HonestSong(n, e.songs[n])
    BY <1>1, <1>5, <2>1, <2>2 DEF HonestSong, FileStamp
  <2>4. HonestAt(e, n)
    BY <1>1, <2>3 DEF HonestAt
  <2>. QED  BY <1>2, <2>4 DEF e
<1>6. CASE ~current /\ ~included /\ recognized
  <2>1. HonestAt(e, n)
    BY <1>1, <1>6 DEF HonestAt
  <2>. QED  BY <1>2, <2>1 DEF e
<1>7. CASE ~current /\ ~recognized
  BY <1>1, <1>2, <1>7 DEF e
<1>. QED  BY <1>4, <1>5, <1>6, <1>7

\* UpdateContainerFile() writes down what it found.
LEMMA ContainerHonest ==
  ASSUME Flags, Proper(db), NEW n \in Nodes, Attached(db, n), NEW t \in 0..MaxChanges,
         FileStamp(n, t), HonestAt(db, n), ~Kept(n)
  PROVE  LET e == UpdateContainerFile(n, t).db
         IN HonestAt(e, n) /\ RealAt(db, e, n)
<1>. DEFINE r == UpdateContainerFile(n, t)
            e == r.db
<1>1. /\ Proper(e) /\ Attached(e, n) /\ Changed(db, e, n) /\ SameSongAndList(db, e, n)
      /\ r.modified \in BOOLEAN
      /\ Kind[n] # "container" => e = db /\ r.modified = modified
      /\ Kind[n] = "container" /\ Unmodified(n, t, "container") =>
           /\ r.modified = modified /\ n \in DOMAIN e.dirs
           /\ e.dirs[n] = [db.dirs[n] EXCEPT !.mark = TRUE]
           /\ DOMAIN e.songs = DOMAIN db.songs /\ DOMAIN e.dirs = DOMAIN db.dirs
           /\ DOMAIN e.lists = DOMAIN db.lists
      /\ Kind[n] = "container" /\ ~Unmodified(n, t, "container") /\ ContainerScan(n) # {} =>
           /\ r.modified = TRUE /\ n \in DOMAIN e.dirs /\ Leaf(e, n)
           /\ e.dirs[n] = [mtime |-> t, mark |-> TRUE, device |-> "container",
                           tracks |-> ContainerScan(n)]
      /\ Kind[n] = "container" /\ ~Unmodified(n, t, "container") /\ ContainerScan(n) = {} =>
           /\ r.modified = (modified \/ n \in DOMAIN db.dirs)
           /\ n \notin DOMAIN e.dirs /\ Leaf(e, n)
  BY UpdateContainerFileFacts
<1>. HIDE DEF r
<1>2. \A v \in DOMAIN db.dirs : db.dirs[v] \in Directory
  BY Fields DEF Proper
<1>3. n \in DOMAIN e.songs => n \in DOMAIN db.songs /\ e.songs[n] = db.songs[n]
  BY <1>1 DEF SameSongAndList
<1>3b. n \in DOMAIN e.songs => HonestSong(n, e.songs[n])
  BY <1>3 DEF HonestAt
<1>4. CASE Kind[n] # "container"
  BY <1>1, <1>4 DEF r, RealAt
<1>5. CASE Kind[n] = "container" /\ Unmodified(n, t, "container")
  <2>1. /\ n \in DOMAIN db.dirs /\ e.dirs[n].tracks = db.dirs[n].tracks
        /\ e.dirs[n].device = db.dirs[n].device /\ e.dirs[n].mtime = db.dirs[n].mtime
    BY <1>1, <1>2, <1>5, UnmarkedFields
  <2>2. HonestAt(e, n)
    BY <1>3, <2>1, HonestByFields
  <2>. QED  BY <2>1, <2>2 DEF r, RealAt
<1>6. CASE Kind[n] = "container" /\ ~Unmodified(n, t, "container") /\ ContainerScan(n) # {}
  <2>2. ContainerScan(n) = Included(n) /\ Included(n) # {}
    BY <1>6, UnopenedFacts
  <2>3. e.dirs[n].mtime = t /\ e.dirs[n].device = "container" /\ e.dirs[n].tracks = Included(n)
    BY <1>1, <1>6, <2>2
  <2>4. HonestDir(n, e.dirs[n])
    BY <1>6, <2>2, <2>3 DEF HonestDir, FileStamp
  <2>5. HonestAt(e, n) /\ RealAt(db, e, n)
    BY <1>1, <1>3b, <1>6, <2>4 DEF HonestAt, RealAt
  <2>. QED  BY <2>5 DEF r
<1>7. CASE Kind[n] = "container" /\ ~Unmodified(n, t, "container") /\ ContainerScan(n) = {}
  <2>1. n \notin DOMAIN e.dirs /\ Leaf(e, n)
    BY <1>1, <1>7
  <2>2. HonestAt(e, n) /\ RealAt(db, e, n)
    BY <1>3b, <2>1 DEF HonestAt, RealAt
  <2>. QED  BY <2>2 DEF r
<1>. QED  BY <1>4, <1>5, <1>6, <1>7

\* An operation that leaves the directories alone leaves them real.
LEMMA RealAtTwice ==
  ASSUME NEW d, NEW e, NEW f, NEW n, Changed(e, f, n), RealAt(d, e, n), f.dirs = e.dirs
  PROVE  RealAt(d, f, n)
<1>1. Leaf(e, n) => Leaf(f, n)
  BY DEF Changed, LessAt, Leaf
<1>. QED  BY <1>1 DEF RealAt

\* UpdateSongFile() writes down what it found.
LEMMA SongFileHonest ==
  ASSUME Flags, Proper(db), NEW n \in Nodes, Attached(db, n), NEW t \in 0..MaxChanges,
         FileStamp(n, t), HonestAt(db, n), ~Kept(n), Kind[n] \in {"song", "container"}
  PROVE  LET e == UpdateSongFile(n, t).db
         IN HonestAt(e, n) /\ RealAt(db, e, n)
<1>. DEFINE r == UpdateSongFile(n, t)
            c == UpdateContainerFile(n, t)
            current == n \in DOMAIN db.songs /\ db.songs[n].mtime = t /\ ~walk_discard
<1>1. \/ ~fs[n].access /\ r.db = db /\ r.modified = modified
      \/ fs[n].access /\ current /\ r = UpdatePlainSong(db, modified, n, t)
      \/ fs[n].access /\ ~current /\ IsContainer(n, t) /\ r = c
      \/ fs[n].access /\ ~current /\ ~IsContainer(n, t)
           /\ r = UpdatePlainSong(c.db, c.modified, n, t)
  BY UpdateSongFileFacts
<1>2. HonestAt(c.db, n) /\ RealAt(db, c.db, n)
  BY ContainerHonest
<1>3. Proper(c.db) /\ Attached(c.db, n) /\ c.modified \in BOOLEAN
  BY UpdateContainerFileFacts
<1>. HIDE DEF r, c
<1>4. CASE ~fs[n].access /\ r.db = db /\ r.modified = modified
  BY <1>4 DEF r, RealAt
<1>5. CASE current /\ r = UpdatePlainSong(db, modified, n, t)
  <2>1. modified \in BOOLEAN
    BY DEF Flags
  <2>2. SongOutcome(db, modified, n, t, r)
    BY <1>5, <2>1, UpdatePlainSongFacts
  <2>3. HonestAt(r.db, n) /\ RealAt(db, r.db, n)
    BY <1>5, <2>2, PlainSongHonest
  <2>. QED  BY <2>3 DEF r
<1>6. CASE r = c
  BY <1>2, <1>6 DEF r
<1>7. CASE ~IsContainer(n, t) /\ r = UpdatePlainSong(c.db, c.modified, n, t)
  <2>1. SongOutcome(c.db, c.modified, n, t, r)
    BY <1>3, <1>7, UpdatePlainSongFacts
  <2>2. Kind[n] = "container" /\ Readable(n) => Included(n) = {}
    BY <1>7, UnopenedFacts DEF IsContainer
  <2>3. HonestAt(r.db, n)
    BY <1>2, <1>3, <2>1, <2>2, PlainSongHonest
  <2>4. r.db.dirs = c.db.dirs /\ Changed(c.db, r.db, n)
    BY <2>1 DEF SongOutcome
  <2>5. RealAt(db, r.db, n)
    BY <1>2, <2>4, RealAtTwice
  <2>. QED  BY <2>3, <2>5 DEF r
<1>. QED  BY <1>1, <1>4, <1>5, <1>6, <1>7

\* UpdateArchiveFile() writes down what it found.
LEMMA ArchiveHonest ==
  ASSUME Flags, Proper(db), NEW n \in Nodes, Attached(db, n), NEW t \in 0..MaxChanges,
         FileStamp(n, t), HonestAt(db, n), Kind[n] = "archive"
  PROVE  LET e == UpdateArchiveFile(n, t).db
         IN HonestAt(e, n) /\ RealAt(db, e, n)
<1>. DEFINE r == UpdateArchiveFile(n, t)
            e == r.db
<1>1. /\ Proper(e) /\ Attached(e, n) /\ Changed(db, e, n) /\ SameSongAndList(db, e, n)
      /\ r.modified \in BOOLEAN
      /\ n \in DOMAIN e.dirs
      /\ Unmodified(n, t, "archive") =>
           /\ r.modified = modified
           /\ e.dirs[n] = [db.dirs[n] EXCEPT !.mark = TRUE]
           /\ DOMAIN e.songs = DOMAIN db.songs /\ DOMAIN e.dirs = DOMAIN db.dirs
           /\ DOMAIN e.lists = DOMAIN db.lists
      /\ ~Unmodified(n, t, "archive") =>
           /\ r.modified = (modified \/ n \in DOMAIN db.dirs \/ ArchiveTracks(n) # {})
           /\ Leaf(e, n)
           /\ e.dirs[n] = [mtime |-> t, mark |-> TRUE, device |-> "archive",
                           tracks |-> ArchiveTracks(n)]
  BY UpdateArchiveFileFacts
<1>. HIDE DEF r
<1>2. \A v \in DOMAIN db.dirs : db.dirs[v] \in Directory
  BY Fields DEF Proper
<1>3. n \in DOMAIN e.songs => n \in DOMAIN db.songs /\ e.songs[n] = db.songs[n]
  BY <1>1 DEF SameSongAndList
<1>5. CASE Unmodified(n, t, "archive")
  <2>1. /\ n \in DOMAIN db.dirs /\ e.dirs[n].tracks = db.dirs[n].tracks
        /\ e.dirs[n].device = db.dirs[n].device /\ e.dirs[n].mtime = db.dirs[n].mtime
    BY <1>1, <1>2, <1>5, UnmarkedFields
  <2>2. HonestAt(e, n)
    BY <1>3, <2>1, HonestByFields
  <2>. QED  BY <2>1, <2>2 DEF r, RealAt
<1>6. CASE ~Unmodified(n, t, "archive")
  <2>1. /\ e.dirs[n].tracks = ArchiveTracks(n) /\ e.dirs[n].device = "archive"
        /\ e.dirs[n].mtime = t /\ Leaf(e, n)
    BY <1>1, <1>6
  <2>2. ArchiveTracks(n) \in {{}, fs[n].tracks}
    BY DEF ArchiveTracks
  <2>3. HonestDir(n, e.dirs[n])
    BY <2>1, <2>2 DEF HonestDir, FileStamp
  <2>4. HonestAt(e, n) /\ RealAt(db, e, n)
    BY <1>3, <2>1, <2>3 DEF HonestAt, RealAt
  <2>. QED  BY <2>4 DEF r
<1>. QED  BY <1>5, <1>6

\* UpdatePlaylistFile() leaves songs and containers as they are.
LEMMA PlaylistHonest ==
  ASSUME Flags, Proper(db), NEW n \in Nodes, Attached(db, n), NEW t \in 0..MaxChanges,
         HonestAt(db, n), NEW media
  PROVE  LET e == UpdatePlaylistFile(n, t, media).db
         IN HonestAt(e, n) /\ RealAt(db, e, n)
<1>. DEFINE r == UpdatePlaylistFile(n, t, media)
            e == r.db
<1>1. /\ Proper(e) /\ Attached(e, n) /\ Changed(db, e, n)
      /\ r.modified \in BOOLEAN /\ (modified => r.modified)
      /\ (n \in DOMAIN e.songs <=> n \in DOMAIN db.songs)
      /\ (n \in DOMAIN db.songs => e.songs[n] = db.songs[n])
      /\ \/ r.db = db /\ r.modified = modified
         \/ /\ n \in DOMAIN db.dirs /\ n \in DOMAIN e.dirs
            /\ db.dirs[n].device = "playlist"
            /\ e.dirs[n] = [db.dirs[n] EXCEPT !.mark = TRUE]
            /\ DOMAIN e.songs = DOMAIN db.songs /\ DOMAIN e.dirs = DOMAIN db.dirs
         \/ /\ n \in DOMAIN e.dirs /\ Leaf(e, n)
            /\ e.dirs[n] = [mtime |-> t, mark |-> TRUE, device |-> "playlist",
                            tracks |-> fs[n].targets]
         \/ n \notin DOMAIN e.dirs /\ Leaf(e, n)
  BY UpdatePlaylistFileFacts
<1>. HIDE DEF r
<1>2. \A v \in DOMAIN db.dirs : db.dirs[v] \in Directory
  BY Fields DEF Proper
<1>3. CASE e = db
  BY <1>3 DEF r, RealAt
<1>4. CASE /\ n \in DOMAIN db.dirs /\ n \in DOMAIN e.dirs
           /\ db.dirs[n].device = "playlist" /\ e.dirs[n] = [db.dirs[n] EXCEPT !.mark = TRUE]
  <2>1. e.dirs[n].device = "playlist"
    BY <1>2, <1>4, UnmarkedFields
  <2>2. HonestAt(e, n)
    BY <1>1, <2>1, HonestByFields
  <2>. QED  BY <1>4, <2>1, <2>2 DEF r, RealAt
<1>5. CASE /\ n \in DOMAIN e.dirs /\ Leaf(e, n)
           /\ e.dirs[n] = [mtime |-> t, mark |-> TRUE, device |-> "playlist",
                           tracks |-> fs[n].targets]
  <2>1. e.dirs[n].device = "playlist"
    BY <1>5
  <2>2. HonestAt(e, n)
    BY <1>1, <2>1, HonestByFields
  <2>. QED  BY <1>5, <2>2 DEF r, RealAt
<1>6. CASE n \notin DOMAIN e.dirs /\ Leaf(e, n)
  <2>2. HonestAt(e, n)
    BY <1>1, <1>6, HonestByFields
  <2>. QED  BY <1>6, <2>2 DEF r, RealAt
<1>. QED  BY <1>1, <1>3, <1>4, <1>5, <1>6

\* UpdateRegularFile() writes down what it found, and keeps the parents real.
LEMMA RegularFileHonest ==
  ASSUME Flags, Proper(db), NEW n \in Nodes, Attached(db, n), NEW t \in 0..MaxChanges, NEW media,
         FileStamp(n, t), HonestAt(db, n), ~Kept(n)
  PROVE  LET e == UpdateRegularFile(n, t, media).db
         IN HonestAt(e, n) /\ RealAt(db, e, n)
<1>. DEFINE r == UpdateRegularFile(n, t, media)
<1>1. \/ Kind[n] \in {"song", "container"} /\ r = UpdateSongFile(n, t)
      \/ Kind[n] = "archive" /\ r = UpdateArchiveFile(n, t)
      \/ Kind[n] = "cue" /\ r = UpdatePlaylistFile(n, t, media)
      \/ /\ Kind[n] \notin {"song", "container", "archive", "cue"}
         /\ r.db = db /\ r.modified = modified
  BY UpdateRegularFileFacts
<1>. HIDE DEF r
<1>2. CASE Kind[n] \in {"song", "container"} /\ r = UpdateSongFile(n, t)
  <2>1. HonestAt(UpdateSongFile(n, t).db, n) /\ RealAt(db, UpdateSongFile(n, t).db, n)
    BY <1>2, SongFileHonest
  <2>. QED  BY <1>2, <2>1 DEF r
<1>3. CASE Kind[n] = "archive" /\ r = UpdateArchiveFile(n, t)
  <2>1. HonestAt(UpdateArchiveFile(n, t).db, n) /\ RealAt(db, UpdateArchiveFile(n, t).db, n)
    BY <1>3, ArchiveHonest
  <2>. QED  BY <1>3, <2>1 DEF r
<1>4. CASE Kind[n] = "cue" /\ r = UpdatePlaylistFile(n, t, media)
  <2>1. /\ HonestAt(UpdatePlaylistFile(n, t, media).db, n)
        /\ RealAt(db, UpdatePlaylistFile(n, t, media).db, n)
    BY PlaylistHonest
  <2>. QED  BY <1>4, <2>1 DEF r
<1>5. CASE r.db = db
  <2>1. HonestAt(r.db, n) /\ RealAt(db, r.db, n)
    BY <1>5 DEF RealAt
  <2>. QED  BY <2>1 DEF r
<1>. QED  BY <1>1, <1>2, <1>3, <1>4, <1>5

\* A database with no more in it than another one, but for marks, tracks of CUE sheets
\* and the contents of real directories.
Weaker(d, e) ==
  /\ \A n \in DOMAIN e.songs : /\ n \in DOMAIN d.songs /\ e.songs[n].mtime = d.songs[n].mtime
                               /\ e.songs[n].channels = d.songs[n].channels
  /\ \A n \in DOMAIN e.dirs :
       /\ n \in DOMAIN d.dirs /\ e.dirs[n].device = d.dirs[n].device
       /\ d.dirs[n].device \in {"container", "archive"} =>
            e.dirs[n].mtime = d.dirs[n].mtime /\ e.dirs[n].tracks = d.dirs[n].tracks
  /\ DOMAIN e.lists \subseteq DOMAIN d.lists

\* Such a database is as honest and has real parents, too.
LEMMA WeakerKeeps ==
  ASSUME NEW d, NEW e, Proper(d), Proper(e), Weaker(d, e), Honest(d), RealParents(d)
  PROVE  Honest(e) /\ RealParents(e)
<1>1. ASSUME NEW n \in Nodes PROVE HonestAt(e, n)
  <2>1. HonestAt(d, n)
    BY DEF Honest
  <2>2. n \in DOMAIN e.songs => /\ n \in DOMAIN d.songs /\ e.songs[n].mtime = d.songs[n].mtime
                                /\ e.songs[n].channels = d.songs[n].channels
    BY DEF Weaker
  <2>3. n \in DOMAIN e.dirs =>
          \/ e.dirs[n].device \notin {"container", "archive"}
          \/ /\ n \in DOMAIN d.dirs /\ e.dirs[n].mtime = d.dirs[n].mtime
             /\ e.dirs[n].device = d.dirs[n].device /\ e.dirs[n].tracks = d.dirs[n].tracks
    BY DEF Weaker
  <2>. QED  BY <2>1, <2>2, <2>3, HonestByFields
<1>2. ASSUME NEW m \in Nodes, Present(e, m), Parent[m] # Root
      PROVE  e.dirs[Parent[m]].device = "real"
  <2>1. Parent[m] \in DOMAIN e.dirs
    BY <1>2 DEF Proper, Tree, Present
  <2>2. Present(d, m)
    BY <1>2 DEF Present, Weaker
  <2>. QED  BY <1>2, <2>1, <2>2 DEF RealParents, Weaker
<1>. QED  BY <1>1, <1>2 DEF Honest, RealParents

\* Being weaker is transitive.
LEMMA WeakerTwice ==
  ASSUME NEW d, NEW e, NEW f, Weaker(d, e), Weaker(e, f)
  PROVE  Weaker(d, f)
<1>1. \A n \in DOMAIN f.songs : /\ n \in DOMAIN d.songs /\ f.songs[n].mtime = d.songs[n].mtime
                                /\ f.songs[n].channels = d.songs[n].channels
  BY DEF Weaker
<1>2. \A n \in DOMAIN f.dirs :
       /\ n \in DOMAIN d.dirs /\ f.dirs[n].device = d.dirs[n].device
       /\ d.dirs[n].device \in {"container", "archive"} =>
            f.dirs[n].mtime = d.dirs[n].mtime /\ f.dirs[n].tracks = d.dirs[n].tracks
  BY DEF Weaker
<1>3. DOMAIN f.lists \subseteq DOMAIN d.lists
  BY DEF Weaker
<1>. QED  BY <1>1, <1>2, <1>3 DEF Weaker

\* What Save() writes is weaker.
LEMMA SavedWeaker ==
  ASSUME NEW d, Proper(d)
  PROVE  Weaker(d, Saved(d))
<1>. DEFINE e == Saved(d)
<1>1. SameButMarks(d, e)
  BY SavedFacts
<1>2. /\ \A n \in DOMAIN d.songs : d.songs[n] \in Song
      /\ \A n \in DOMAIN d.dirs : d.dirs[n] \in Directory
  BY Fields DEF Proper
<1>. HIDE DEF e
<1>3. ASSUME NEW n \in DOMAIN e.songs
      PROVE  /\ n \in DOMAIN d.songs /\ e.songs[n].mtime = d.songs[n].mtime
             /\ e.songs[n].channels = d.songs[n].channels
  <2>1. n \in DOMAIN d.songs /\ e.songs[n] = [d.songs[n] EXCEPT !.mark = FALSE]
    BY <1>1, <1>3 DEF SameButMarks
  <2>. QED  BY <1>2, <2>1, UnmarkedFields
<1>4. ASSUME NEW n \in DOMAIN e.dirs
      PROVE  /\ n \in DOMAIN d.dirs /\ e.dirs[n].device = d.dirs[n].device
             /\ e.dirs[n].mtime = d.dirs[n].mtime /\ e.dirs[n].tracks = d.dirs[n].tracks
  <2>1. n \in DOMAIN d.dirs /\ e.dirs[n] = [d.dirs[n] EXCEPT !.mark = FALSE]
    BY <1>1, <1>4 DEF SameButMarks
  <2>. QED  BY <1>2, <2>1, UnmarkedFields
<1>5. DOMAIN e.lists \subseteq DOMAIN d.lists
  BY <1>1 DEF SameButMarks
<1>6. Weaker(d, e)
  BY <1>3, <1>4, <1>5 DEF Weaker
<1>. QED  BY <1>6 DEF e

\* What PruneEmpty() leaves is weaker.
LEMMA PrunedWeaker ==
  ASSUME NEW d, Proper(d)
  PROVE  Weaker(d, PruneEmpty(d))
<1>. DEFINE e == PruneEmpty(d)
<1>1. /\ Proper(e) /\ e.songs = d.songs /\ e.lists = d.lists
      /\ DOMAIN e.dirs \subseteq DOMAIN d.dirs
      /\ \A n \in DOMAIN e.dirs : e.dirs[n] = d.dirs[n]
  BY PruneEmptyFacts
<1>. HIDE DEF e
<1>2. Weaker(d, e)
  BY <1>1 DEF Weaker
<1>. QED  BY <1>2 DEF e

\* What PurgeDanglingFromPlaylists() leaves is weaker.
LEMMA UndangledWeaker ==
  ASSUME NEW d, Proper(d)
  PROVE  Weaker(d, PurgeDanglingFromPlaylists(d).db)
<1>. DEFINE e == PurgeDanglingFromPlaylists(d).db
<1>1. /\ DOMAIN e.songs = DOMAIN d.songs /\ DOMAIN e.dirs = DOMAIN d.dirs /\ e.lists = d.lists
      /\ \A n \in DOMAIN d.songs : /\ e.songs[n].mtime = d.songs[n].mtime
                                   /\ e.songs[n].channels = d.songs[n].channels
      /\ \A n \in DOMAIN d.dirs :
           /\ e.dirs[n].device = d.dirs[n].device /\ e.dirs[n].mtime = d.dirs[n].mtime
           /\ d.dirs[n].device # "playlist" => e.dirs[n] = d.dirs[n]
  BY PurgeDanglingFacts
<1>. HIDE DEF e
<1>2. Weaker(d, e)
  BY <1>1 DEF Weaker
<1>. QED  BY <1>2 DEF e

\* The beginning of UpdateDirectory() leaves a weaker database.
LEMMA EnteredWeaker ==
  ASSUME NEW d, Proper(d), NEW D, InTree(d, D), ignore \subseteq Nodes
  PROVE  Weaker(d, Entered(d, D))
<1>. DEFINE e == Entered(d, D)
            x == DOMAIN d.dirs \cap Children(D) \cap ignore
<1>1. /\ Proper(e) /\ InTree(e, D)
      /\ DOMAIN e.songs = (DOMAIN d.songs \ (Subtree(x) \ x)) \ (Children(D) \cap ignore)
      /\ DOMAIN e.dirs = DOMAIN d.dirs \ Subtree(x)
      /\ DOMAIN e.lists = DOMAIN d.lists \ (Subtree(x) \ x)
      /\ \A m \in DOMAIN e.songs : e.songs[m] =
           IF Parent[m] = D THEN [d.songs[m] EXCEPT !.mark = FALSE] ELSE d.songs[m]
      /\ \A m \in DOMAIN e.dirs : e.dirs[m] =
           IF Parent[m] = D THEN [d.dirs[m] EXCEPT !.mark = FALSE] ELSE d.dirs[m]
      /\ \A m \in DOMAIN e.lists : e.lists[m] =
           IF Parent[m] = D THEN [d.lists[m] EXCEPT !.mark = FALSE] ELSE d.lists[m]
      /\ \A m \in Nodes \ Subtree(Children(D)) : SameAt(d, e, m)
  BY EnteredFacts
<1>. HIDE DEF e, x
<1>2. /\ \A n \in DOMAIN d.songs : d.songs[n] \in Song
      /\ \A n \in DOMAIN d.dirs : d.dirs[n] \in Directory
  BY Fields DEF Proper
<1>3. \A n \in DOMAIN e.songs : /\ n \in DOMAIN d.songs /\ e.songs[n].mtime = d.songs[n].mtime
                                /\ e.songs[n].channels = d.songs[n].channels
  BY <1>1, <1>2, UnmarkedFields
<1>4. \A n \in DOMAIN e.dirs :
        /\ n \in DOMAIN d.dirs /\ e.dirs[n].device = d.dirs[n].device
        /\ e.dirs[n].mtime = d.dirs[n].mtime /\ e.dirs[n].tracks = d.dirs[n].tracks
  BY <1>1, <1>2, UnmarkedFields
<1>5. DOMAIN e.lists \subseteq DOMAIN d.lists
  BY <1>1
<1>6. Weaker(d, e)
  BY <1>3, <1>4, <1>5 DEF Weaker
<1>. QED  BY <1>6 DEF e

\* The end of UpdateDirectory() leaves a weaker database, if the directory is real.
LEMMA EndedWeaker ==
  ASSUME NEW d, Proper(d), NEW D, InTree(d, D), NEW t \in 0..MaxChanges,
         D # Root => d.dirs[D].device = "real"
  PROVE  Weaker(d, Ended(d, D, t))
<1>. DEFINE e == Ended(d, D, t)
            p == Purged(d, D)
            x == Gone(d.dirs, D)
<1>1. /\ Proper(e) /\ InTree(e, D)
      /\ e.songs = p.songs /\ e.lists = p.lists /\ DOMAIN e.dirs = DOMAIN p.dirs
      /\ \A m \in DOMAIN p.dirs : m # D => e.dirs[m] = p.dirs[m]
      /\ D # Root => /\ D \in DOMAIN d.dirs /\ D \in DOMAIN e.dirs
                     /\ e.dirs[D] = [mtime |-> t, mark |-> TRUE,
                                     device |-> d.dirs[D].device, tracks |-> {}]
  BY EndedFacts
<1>2. /\ DOMAIN p.songs = (DOMAIN d.songs \ (Subtree(x) \ x)) \ Gone(d.songs, D)
      /\ DOMAIN p.dirs = DOMAIN d.dirs \ Subtree(x)
      /\ DOMAIN p.lists = (DOMAIN d.lists \ (Subtree(x) \ x)) \ Gone(d.lists, D)
      /\ \A m \in DOMAIN p.songs : p.songs[m] = d.songs[m]
      /\ \A m \in DOMAIN p.dirs : p.dirs[m] = d.dirs[m]
  BY PurgedFacts
<1>3. DOMAIN d.dirs \subseteq Nodes
  BY Fields DEF Proper
<1>. HIDE DEF e, p, x
<1>4. \A n \in DOMAIN e.songs : n \in DOMAIN d.songs /\ e.songs[n] = d.songs[n]
  BY <1>1, <1>2
<1>5. ASSUME NEW n \in DOMAIN e.dirs
      PROVE  /\ n \in DOMAIN d.dirs /\ e.dirs[n].device = d.dirs[n].device
             /\ d.dirs[n].device \in {"container", "archive"} => e.dirs[n] = d.dirs[n]
  <2>1. n \in DOMAIN d.dirs /\ n \in Nodes /\ n # Root
    BY <1>1, <1>2, <1>3, <1>5, TreeAssumption
  <2>2. CASE n # D
    BY <1>1, <1>2, <1>5, <2>1, <2>2
  <2>3. CASE n = D
    BY <1>1, <2>1, <2>3
  <2>. QED  BY <2>2, <2>3
<1>6. DOMAIN e.lists \subseteq DOMAIN d.lists
  BY <1>1, <1>2
<1>7. Weaker(d, e)
  BY <1>4, <1>5, <1>6 DEF Weaker
<1>. QED  BY <1>7 DEF e

----------------------------------------------------------------------------
(***************************************************************************)
(* The history of mpd-dbcreate: processes that walk the whole tree once.   *)
(***************************************************************************)

\* Every change of contents gives a new mtime.
Stamped ==
  \A n \in Nodes : IF fs[n].type = "absent" THEN fs[n].mtime = 0 ELSE fs[n].mtime \in 1..changes

\* The walk began at the music directory, and the directories it is in are real.
RealFrames(d, s) ==
  /\ Len(s) > 0 => s[1].dir = Root
  /\ \A i \in 1..Len(s) : ~s[i].single /\ (s[i].dir # Root => d.dirs[s[i].dir].device = "real")

\* What stat() told about an entry is still so if the mtime is.
StampedEntry(e) ==
  e # NoEntry => e.mtime \in 1..changes /\ (e.mtime = fs[e.node].mtime => fs[e.node].type = e.type)

\* The same of the entries of all frames.
StampedEntries(s) == \A i \in 1..Len(s) : StampedEntry(s[i].entry)

\* The databases in memory and on disk, and the stack.
Past(d, f, s) ==
  /\ Honest(d) /\ RealParents(d)
  /\ Honest(f) /\ RealParents(f)
  /\ RealFrames(d, s) /\ StampedEntries(s)

\* No archive is listed without tracks.
Full(d) == \A n \in DOMAIN d.dirs : d.dirs[n].device = "archive" => d.dirs[n].tracks # {}

\* What holds of every process that only walks the whole tree.
History ==
  /\ Stamped /\ scope = Root
  /\ Past(db, file, stack)
  /\ Full(file)
  /\ pc \in {"idle", "exited"} => Full(db)

\* While the music directory and the mode stay the same, so does the meaning of Past.
LEMMA PastSeen ==
  ASSUME fs' = fs, changes' = changes, mode' = mode, Past(db', file', stack')
  PROVE  Past(db, file, stack)'
<1>1. Honest(db') => Honest(db)'
  BY DEF Honest, HonestAt, HonestSong, HonestDir, Included, ShouldInclude
<1>2. Honest(file') => Honest(file)'
  BY DEF Honest, HonestAt, HonestSong, HonestDir, Included, ShouldInclude
<1>3. StampedEntries(stack') => StampedEntries(stack)'
  BY DEF StampedEntries, StampedEntry
<1>4. RealParents(db') => RealParents(db)'
  BY DEF RealParents, Present
<1>5. RealParents(file') => RealParents(file)'
  BY DEF RealParents, Present
<1>6. RealFrames(db', stack') => RealFrames(db, stack)'
  BY DEF RealFrames
<1>. QED  BY <1>1, <1>2, <1>3, <1>4, <1>5, <1>6 DEF Past

\* The mtimes mean the same then, too.
LEMMA StampedSeen ==
  ASSUME Stamped, fs' = fs, changes' = changes
  PROVE  Stamped'
  BY DEF Stamped

\* A step of the walk, given what it does to the database and the stack.
LEMMA HistoryByWalk ==
  ASSUME History, UNCHANGED <<environment, process>>, pc' \notin {"idle", "exited"},
         Honest(db'), RealParents(db'), RealFrames(db', stack'), StampedEntries(stack')
  PROVE  History'
<1>1. /\ fs' = fs /\ changes' = changes /\ mode' = mode /\ file' = file /\ scope' = scope
  BY DEF environment, process
<1>2. Past(db', file', stack')
  BY <1>1 DEF Past, History
<1>3. Past(db, file, stack)'
  BY <1>1, <1>2, PastSeen
<1>4. Stamped'
  BY <1>1, StampedSeen DEF History
<1>5. Full(file)'
  BY <1>1 DEF History, Full
<1>. QED  BY <1>1, <1>3, <1>4, <1>5 DEF History

\* Frames with the same directories.
LEMMA RealFramesAlike ==
  ASSUME NEW d, NEW s, NEW p, RealFrames(d, s), Len(s) \in Nat, Len(p) \in Nat, Len(p) <= Len(s),
         \A i \in 1..Len(p) : p[i].dir = s[i].dir /\ p[i].single = s[i].single
  PROVE  RealFrames(d, p)
<1>1. Len(p) > 0 => 1 \in 1..Len(p) /\ Len(s) > 0
  OBVIOUS
<1>2. \A i \in 1..Len(p) : i \in 1..Len(s)
  OBVIOUS
<1>. QED  BY <1>1, <1>2 DEF RealFrames

\* Reading and finishing an entry leave the directories of the frames alone.
LEMMA SetEntryKeeps ==
  ASSUME NEW d, Frames(d, stack), stack # << >>, NEW todo \in SUBSET Children(Top.dir),
         NEW entry \in Stat, RealFrames(d, stack), StampedEntries(stack), StampedEntry(entry),
         entry # NoEntry => entry.type # "none" /\ entry.node \in Children(Top.dir)
  PROVE  RealFrames(d, SetEntry(todo, entry)) /\ StampedEntries(SetEntry(todo, entry))
<1>. DEFINE s == SetEntry(todo, entry)
<1>1. /\ Frames(d, s) /\ s # << >> /\ Len(s) = Len(stack)
      /\ \A i \in 1..Len(stack) : i # Len(stack) => s[i] = stack[i]
      /\ s[Len(stack)] = [dir |-> Top.dir, single |-> Top.single, mtime |-> Top.mtime,
                          exclude |-> Top.exclude, todo |-> todo, entry |-> entry]
  BY SetEntryFacts
<1>. HIDE DEF s
<1>2. Len(stack) \in Nat
  BY TopFrame
<1>3. \A i \in 1..Len(s) : s[i].dir = stack[i].dir /\ s[i].single = stack[i].single
  BY <1>1, <1>2 DEF Top
<1>4. RealFrames(d, s)
  BY <1>1, <1>2, <1>3, RealFramesAlike
<1>5. \A i \in 1..Len(s) : StampedEntry(s[i].entry)
  BY <1>1, <1>2 DEF StampedEntries
<1>. QED  BY <1>4, <1>5 DEF s, StampedEntries

\* No entry is stamped, trivially.
LEMMA NoEntryStamped ==
  StampedEntry(NoEntry)
  BY DEF StampedEntry

\* The frames stay real when nothing above the node worked on changes.
LEMMA RealFramesSurvive ==
  ASSUME NEW d, NEW e, NEW s, Frames(d, s), s # << >>, NEW n \in Children(s[Len(s)].dir),
         Outside(d, e, n), RealFrames(d, s)
  PROVE  RealFrames(e, s)
<1>1. \A i \in 1..Len(s) : s[i].dir # Root => SameAt(d, e, s[i].dir)
  BY FramesSurvive
<1>2. \A i \in 1..Len(s) : s[i].dir # Root => s[i].dir \in DOMAIN d.dirs
  BY DEF Frames, InTree
<1>. QED  BY <1>1, <1>2 DEF RealFrames, SameAt

\* What Changed says of the rest of the tree.
LEMMA ChangedIsOutside ==
  ASSUME NEW d, NEW e, NEW n, Changed(d, e, n)
  PROVE  Outside(d, e, n)
  BY DEF Changed, Outside

\* The directory an entry is in is real.
LEMMA TopIsReal ==
  ASSUME Typed, History, stack # << >>, NEW n \in Nodes, Parent[n] = Top.dir
  PROVE  Parent[n] # Root => db.dirs[Parent[n]].device = "real"
<1>1. Len(stack) \in 1..Len(stack)
  BY TopFrame DEF Typed
<1>. QED  BY <1>1 DEF History, Past, RealFrames, Top

\* An operation on one entry of the innermost directory.
LEMMA OneEntryKeeps ==
  ASSUME Typed, History, stack # << >>, NEW n \in Children(Top.dir), NEW e, Proper(e),
         Changed(db, e, n), HonestAt(e, n), RealAt(db, e, n)
  PROVE  Honest(e) /\ RealParents(e) /\ RealFrames(e, stack) /\ Outside(db, e, n)
<1>1. n \in Nodes /\ Parent[n] = Top.dir
  BY DEF Children
<1>2. /\ Honest(db) /\ RealParents(db) /\ RealFrames(db, stack) /\ Proper(db) /\ Frames(db, stack)
  BY DEF History, Past, Typed
<1>3. Parent[n] # Root => db.dirs[Parent[n]].device = "real"
  BY <1>1, TopIsReal
<1>4. InTree(db, Top.dir)
  BY <1>2, TopFrame DEF Top
<1>5. Attached(db, n)
  BY <1>1, <1>4 DEF Attached, InTree
<1>6. RealParents(e)
  BY <1>1, <1>2, <1>3, <1>5, RealParentsKept
<1>7. Honest(e)
  BY <1>1, <1>2, HonestKept
<1>8. Outside(db, e, n)
  BY ChangedIsOutside
<1>9. RealFrames(e, stack)
  BY <1>2, <1>8, RealFramesSurvive DEF Top
<1>. QED  BY <1>6, <1>7, <1>8, <1>9

\* SkipEntry keeps the history.
LEMMA SkipEntryHistory ==
  ASSUME Typed, History, NEW n \in Nodes, SkipEntry(n)
  PROVE  History'
<1>1. stack # << >> /\ Top.todo \ {n} \in SUBSET Children(Top.dir) /\ pc = "walk"
  BY ReadingFacts DEF SkipEntry
<1>2. NoEntry \in Stat /\ Frames(db, stack)
  BY NoEntryIsStat DEF Typed
<1>3. RealFrames(db, stack) /\ StampedEntries(stack) /\ Honest(db) /\ RealParents(db)
  BY DEF History, Past
<1>4. stack' = SetEntry(Top.todo \ {n}, NoEntry) /\ db' = db /\ pc' = pc
  BY DEF SkipEntry
<1>5. RealFrames(db, stack') /\ StampedEntries(stack')
  BY <1>1, <1>2, <1>3, <1>4, NoEntryStamped, SetEntryKeeps
<1>6. UNCHANGED <<environment, process>>
  BY DEF SkipEntry
<1>. QED  BY <1>1, <1>3, <1>4, <1>5, <1>6, HistoryByWalk

\* DeleteEntry keeps the history.
LEMMA DeleteEntryHistory ==
  ASSUME Typed, History, NEW n \in Nodes, DeleteEntry(n)
  PROVE  History'
<1>1. /\ stack # << >> /\ Top.todo \ {n} \in SUBSET Children(Top.dir) /\ pc = "walk"
      /\ n \in Children(Top.dir) /\ Attached(db, n)
  BY ReadingFacts DEF DeleteEntry
<1>. DEFINE e == DeleteNameIn(db, n)
<1>2. NoEntry \in Stat /\ Proper(db)
  BY NoEntryIsStat DEF Typed
<1>3. /\ Proper(e) /\ Attached(e, n) /\ Changed(db, e, n) /\ Leaf(e, n)
      /\ n \notin DOMAIN e.songs /\ n \notin DOMAIN e.dirs /\ n \notin DOMAIN e.lists
  BY <1>1, <1>2, DeleteNameInFacts
<1>4. db' = e /\ stack' = SetEntry(Top.todo \ {n}, NoEntry) /\ pc' = pc
  BY DEF DeleteEntry
<1>. HIDE DEF e
<1>5. HonestAt(e, n) /\ RealAt(db, e, n)
  BY <1>3 DEF HonestAt, RealAt
<1>6. Honest(e) /\ RealParents(e) /\ RealFrames(e, stack)
  BY <1>1, <1>3, <1>5, OneEntryKeeps
<1>7. StampedEntries(stack)
  BY DEF History, Past
<1>8. Frames(e, stack)
  BY <1>4, DeleteEntryTyped
<1>9. RealFrames(e, stack') /\ StampedEntries(stack')
  BY <1>1, <1>2, <1>4, <1>6, <1>7, <1>8, NoEntryStamped, SetEntryKeeps
<1>10. UNCHANGED <<environment, process>>
  BY DEF DeleteEntry
<1>. QED  BY <1>1, <1>4, <1>6, <1>9, <1>10, HistoryByWalk

\* StatEntry keeps the history.
LEMMA StatEntryHistory ==
  ASSUME Typed, History, NEW n \in Nodes, StatEntry(n)
  PROVE  History'
<1>. DEFINE e == [node |-> n, type |-> fs[n].type, mtime |-> fs[n].mtime]
<1>1. /\ stack # << >> /\ Top.todo \ {n} \in SUBSET Children(Top.dir) /\ pc = "walk"
      /\ n \in Children(Top.dir)
  BY ReadingFacts DEF StatEntry
<1>2. Frames(db, stack) /\ fs \in [Nodes -> Entry]
  BY DEF Typed, Scalars
<1>3. fs[n].type \in {"file", "dir", "loop"} /\ fs[n].mtime \in 0..MaxChanges
  BY <1>2, EntryFields DEF StatEntry
<1>4. e \in Stat /\ e.type # "none" /\ e.node \in Children(Top.dir)
  BY <1>1, <1>3 DEF Stat
<1>5. StampedEntry(e)
  BY <1>3 DEF StampedEntry, History, Stamped
<1>6. stack' = SetEntry(Top.todo \ {n}, e) /\ db' = db /\ pc' = pc
  BY DEF StatEntry
<1>. HIDE DEF e
<1>7. RealFrames(db, stack) /\ StampedEntries(stack) /\ Honest(db) /\ RealParents(db)
  BY DEF History, Past
<1>8. RealFrames(db, stack') /\ StampedEntries(stack')
  BY <1>1, <1>2, <1>4, <1>5, <1>6, <1>7, SetEntryKeeps
<1>9. UNCHANGED <<environment, process>>
  BY DEF StatEntry
<1>. QED  BY <1>1, <1>6, <1>7, <1>8, <1>9, HistoryByWalk

\* An entry is finished: the frames stay real.
LEMMA EntryDoneKeeps ==
  ASSUME Typed, History, NEW type \in {"file", "dir", "loop"}, Scanning(type), NEW e,
         Frames(e, stack), RealFrames(e, stack)
  PROVE  RealFrames(e, EntryDone) /\ StampedEntries(EntryDone)
<1>1. stack # << >> /\ Top.todo \in SUBSET Children(Top.dir)
  BY ScanningFacts
<1>2. NoEntry \in Stat /\ StampedEntries(stack)
  BY NoEntryIsStat DEF History, Past
<1>. QED  BY <1>1, <1>2, NoEntryStamped, SetEntryKeeps DEF EntryDone

\* The entry that is scanned has a stamp.
LEMMA ScanningStamped ==
  ASSUME Typed, History, NEW type \in {"file", "dir", "loop"}, Scanning(type)
  PROVE  LET n == Top.entry.node
         IN /\ Top.entry.mtime \in 1..changes
            /\ Top.entry.mtime = fs[n].mtime => fs[n].type = type
<1>1. stack # << >> /\ Top.entry # NoEntry
  BY ScanningFacts
<1>2. Len(stack) \in 1..Len(stack)
  BY <1>1, TopFrame DEF Typed
<1>3. StampedEntry(Top.entry)
  BY <1>2 DEF History, Past, StampedEntries, Top
<1>. QED  BY <1>1, <1>3 DEF StampedEntry, Scanning

\* RegularFile keeps the history.
LEMMA RegularFileHistory ==
  ASSUME Typed, History, RegularFile, ~Kept(Top.entry.node)
  PROVE  History'
<1>. DEFINE n == Top.entry.node
            t == Top.entry.mtime
<1>1. /\ n \in Nodes /\ Attached(db, n) /\ t \in 0..MaxChanges /\ pc = "walk" /\ stack # << >>
      /\ n \in Children(Top.dir) /\ Scanning("file")
  BY ScanningFacts DEF RegularFile
<1>2. PICK media : db' = UpdateRegularFile(n, t, media).db
  BY DEF RegularFile
<1>3. Flags /\ Proper(db) /\ Frames(db, stack)
  BY DEF Typed, Scalars, Flags
<1>4. FileStamp(n, t)
  BY <1>1, ScanningStamped DEF FileStamp
<1>5. HonestAt(db, n)
  BY <1>1 DEF History, Past, Honest
<1>. DEFINE e == UpdateRegularFile(n, t, media).db
<1>6. HonestAt(e, n) /\ RealAt(db, e, n)
  BY <1>1, <1>3, <1>4, <1>5, RegularFileHonest
<1>7. Proper(e) /\ Changed(db, e, n)
  BY <1>1, <1>3, UpdateRegularFileFacts
<1>8. db' = e /\ stack' = EntryDone /\ pc' = pc /\ UNCHANGED <<environment, process>>
  BY <1>2 DEF RegularFile
<1>. HIDE DEF e, n, t
<1>9. Honest(e) /\ RealParents(e) /\ RealFrames(e, stack) /\ Outside(db, e, n)
  BY <1>1, <1>6, <1>7, OneEntryKeeps
<1>10. Frames(e, stack)
  BY <1>1, <1>3, <1>9, FramesSurvive DEF Top
<1>11. RealFrames(e, EntryDone) /\ StampedEntries(EntryDone)
  BY <1>1, <1>9, <1>10, EntryDoneKeeps
<1>. QED  BY <1>1, <1>8, <1>9, <1>11, HistoryByWalk

\* AncestorLoop keeps the history.
LEMMA AncestorLoopHistory ==
  ASSUME Typed, History, AncestorLoop
  PROVE  History'
<1>1. Scanning("loop") /\ pc = "walk" /\ pc' = pc /\ stack' = EntryDone /\ db' = db
  BY ScanningFacts DEF AncestorLoop
<1>2. Honest(db) /\ RealParents(db) /\ RealFrames(db, stack) /\ Frames(db, stack)
  BY DEF History, Past, Typed
<1>3. RealFrames(db, EntryDone) /\ StampedEntries(EntryDone)
  BY <1>1, <1>2, EntryDoneKeeps
<1>4. UNCHANGED <<environment, process>>
  BY DEF AncestorLoop
<1>. QED  BY <1>1, <1>2, <1>3, <1>4, HistoryByWalk

\* A directory that is deleted leaves nothing below it.
LEMMA DeletedIsLeaf ==
  ASSUME NEW d, Proper(d), NEW n \in Nodes, Attached(d, n)
  PROVE  LET e == DeleteDirectories(d, {n})
         IN /\ Leaf(e, n) /\ n \notin DOMAIN e.dirs
            /\ (n \in DOMAIN e.songs <=> n \in DOMAIN d.songs)
            /\ (n \in DOMAIN d.songs => e.songs[n] = d.songs[n])
<1>. DEFINE e == DeleteDirectories(d, {n})
<1>1. /\ Proper(e) /\ Attached(e, n) /\ Changed(d, e, n)
      /\ DOMAIN e.songs = DOMAIN d.songs \ (Subtree({n}) \ {n})
      /\ DOMAIN e.dirs = DOMAIN d.dirs \ Subtree({n})
      /\ DOMAIN e.lists = DOMAIN d.lists \ (Subtree({n}) \ {n})
      /\ \A m \in DOMAIN e.songs : e.songs[m] = d.songs[m]
  BY DeleteOneDirectory
<1>2. n \in Subtree({n})
  BY SubtreeOfOne
<1>. HIDE DEF e
<1>3. /\ Leaf(e, n) /\ n \notin DOMAIN e.dirs
      /\ (n \in DOMAIN e.songs <=> n \in DOMAIN d.songs)
      /\ (n \in DOMAIN d.songs => e.songs[n] = d.songs[n])
  BY <1>1, <1>2 DEF Leaf
<1>. QED  BY <1>3 DEF e

\* Subdirectory keeps the history: the directory it enters is real from then on.
LEMMA SubdirectoryHistory ==
  ASSUME Typed, History, Subdirectory
  PROVE  History'
<1>. DEFINE n == Top.entry.node
            t == Top.entry.mtime
            r == MakeRealChild(db, n)
<1>1. /\ n \in Nodes /\ Attached(db, n) /\ pc = "walk" /\ stack # << >> /\ Proper(db)
      /\ n \in Children(Top.dir) /\ Scanning("dir") /\ Frames(db, stack) /\ ignore \subseteq Nodes
      /\ t \in 0..MaxChanges
  BY ScanningFacts DEF Subdirectory, Typed, Scalars
<1>2. pc' = pc /\ UNCHANGED <<environment, process>>
  BY DEF Subdirectory
<1>3. HonestAt(db, n)
  BY <1>1 DEF History, Past, Honest
<1>4. CASE EnterDirectory(r, modified, n, t, EntryDone)
  <2>1. /\ Proper(r) /\ InTree(r, n) /\ db' = Entered(r, n) /\ Proper(db') /\ InTree(db', n)
        /\ Outside(db, db', n)
        /\ stack' = Append(EntryDone, NewFrame(n, t))
        /\ Frames(db', stack') /\ modified' \in BOOLEAN /\ Len(stack') = Len(stack) + 1
        /\ stack'[Len(stack')] = NewFrame(n, t)
        /\ \A i \in 1..Len(stack) : stack'[i] = EntryDone[i]
    BY <1>1, <1>4, SubdirectoryEnters
  <2>2. /\ Changed(db, r, n) /\ r.songs = db.songs /\ r.dirs[n].device = "real"
        /\ DOMAIN r.dirs = DOMAIN db.dirs \cup {n}
    BY <1>1, MakeRealChildFacts
  <2>. HIDE DEF r
  <2>3. HonestAt(r, n) /\ RealAt(db, r, n)
    BY <1>3, <2>2 DEF HonestAt, HonestDir, RealAt
  <2>4. Honest(r) /\ RealParents(r) /\ RealFrames(r, stack) /\ Outside(db, r, n)
    BY <1>1, <2>1, <2>2, <2>3, OneEntryKeeps
  <2>5. Weaker(r, db')
    BY <1>1, <2>1, EnteredWeaker
  <2>6. Honest(db') /\ RealParents(db')
    BY <2>1, <2>4, <2>5, WeakerKeeps
  <2>7. RealFrames(db', stack) /\ Frames(db', stack)
    <3>1. RealFrames(db, stack)
      BY DEF History, Past
    <3>. QED  BY <1>1, <2>1, <3>1, RealFramesSurvive, FramesSurvive DEF Top
  <2>8. RealFrames(db', EntryDone) /\ StampedEntries(EntryDone)
    BY <1>1, <2>7, EntryDoneKeeps
  <2>9. Len(EntryDone) = Len(stack) /\ Len(stack) \in Nat /\ Len(stack) > 0
    <3>1. Len(EntryDone) = Len(stack)
      BY <1>1, <2>1, EntryDoneFacts
    <3>2. Len(stack) \in Nat /\ Len(stack) \in 1..Len(stack)
      BY <1>1, TopFrame
    <3>. QED  BY <3>1, <3>2
  <2>10. /\ NewFrame(n, t).dir = n /\ NewFrame(n, t).entry = NoEntry /\ ~NewFrame(n, t).single
    BY DEF NewFrame
  <2>11. db'.dirs[n].device = "real"
    <3>1. n \in DOMAIN db'.dirs
      BY <1>1, <2>1, TreeAssumption DEF InTree
    <3>. QED  BY <2>2, <2>5, <3>1 DEF Weaker
  <2>12. RealFrames(db', stack')
    <3>1. Len(stack') > 0 => stack'[1].dir = Root
      <4>1. 1 \in 1..Len(stack)
        BY <2>9
      <4>. QED  BY <2>1, <2>8, <2>9, <4>1 DEF RealFrames
    <3>2. ASSUME NEW i \in 1..Len(stack')
          PROVE  ~stack'[i].single /\ (stack'[i].dir # Root => db'.dirs[stack'[i].dir].device = "real")
      <4>1. CASE i = Len(stack')
        BY <2>1, <2>10, <2>11, <4>1
      <4>2. CASE i # Len(stack')
        <5>1. i \in 1..Len(stack)
          BY <2>1, <2>9, <3>2, <4>2
        <5>. QED  BY <2>1, <2>8, <2>9, <5>1 DEF RealFrames
      <4>. QED  BY <4>1, <4>2
    <3>. QED  BY <3>1, <3>2 DEF RealFrames
  <2>13. StampedEntries(stack')
    <3>1. ASSUME NEW i \in 1..Len(stack') PROVE StampedEntry(stack'[i].entry)
      <4>1. CASE i = Len(stack')
        BY <2>1, <2>10, <4>1, NoEntryStamped
      <4>2. CASE i # Len(stack')
        <5>1. i \in 1..Len(stack)
          BY <2>1, <2>9, <3>1, <4>2
        <5>. QED  BY <2>1, <2>8, <2>9, <5>1 DEF StampedEntries
      <4>. QED  BY <4>1, <4>2
    <3>. QED  BY <3>1 DEF StampedEntries
  <2>. QED  BY <1>1, <1>2, <2>6, <2>12, <2>13, HistoryByWalk
<1>5. CASE db' = DeleteDirectories(db, {n}) /\ stack' = EntryDone
  <2>. DEFINE e == DeleteDirectories(db, {n})
  <2>1. Proper(e) /\ Changed(db, e, n)
    BY <1>1, DeleteOneDirectory
  <2>2. /\ Leaf(e, n) /\ n \notin DOMAIN e.dirs
        /\ (n \in DOMAIN e.songs <=> n \in DOMAIN db.songs)
        /\ (n \in DOMAIN db.songs => e.songs[n] = db.songs[n])
    BY <1>1, DeletedIsLeaf
  <2>3. db' = e
    BY <1>5
  <2>. HIDE DEF e
  <2>4. HonestAt(e, n) /\ RealAt(db, e, n)
    BY <1>3, <2>2 DEF HonestAt, RealAt
  <2>5. Honest(e) /\ RealParents(e) /\ RealFrames(e, stack) /\ Outside(db, e, n)
    BY <1>1, <2>1, <2>4, OneEntryKeeps
  <2>6. Frames(e, stack)
    BY <1>1, <2>5, FramesSurvive DEF Top
  <2>7. RealFrames(e, EntryDone) /\ StampedEntries(EntryDone)
    BY <1>1, <2>5, <2>6, EntryDoneKeeps
  <2>. QED  BY <1>1, <1>2, <1>5, <2>3, <2>5, <2>7, HistoryByWalk
<1>. QED  BY <1>4, <1>5 DEF Subdirectory

\* EndDirectory keeps the history.
LEMMA EndDirectoryHistory ==
  ASSUME Typed, History, EndDirectory
  PROVE  History'
<1>. DEFINE D == Top.dir
<1>1. /\ stack # << >> /\ Top \in Frame /\ InTree(db, D) /\ db' = Ended(db, D, Top.mtime)
      /\ Proper(db') /\ Frames(db', stack') /\ modified' \in BOOLEAN
      /\ Len(stack') = Len(stack) - 1 /\ \A i \in 1..Len(stack') : stack'[i] = stack[i]
      /\ Frames(db', stack)
  BY EndDirectoryFacts
<1>2. /\ Proper(db) /\ Frames(db, stack) /\ Honest(db) /\ RealParents(db) /\ RealFrames(db, stack)
      /\ StampedEntries(stack)
  BY DEF Typed, History, Past
<1>3. /\ Len(stack) \in Nat /\ Len(stack) \in 1..Len(stack)
  BY <1>1, <1>2, TopFrame
<1>4. D # Root => db.dirs[D].device = "real"
  BY <1>2, <1>3 DEF RealFrames, Top
<1>5. Top.mtime \in 0..MaxChanges
  BY <1>1 DEF Frame
<1>6. Weaker(db, db')
  BY <1>1, <1>2, <1>4, <1>5, EndedWeaker
<1>7. Honest(db') /\ RealParents(db')
  BY <1>1, <1>2, <1>6, WeakerKeeps
<1>8. RealFrames(db', stack')
  <2>1. Len(stack') > 0 => stack'[1].dir = Root
    <3>1. Len(stack') > 0 => Len(stack) > 0 /\ 1 \in 1..Len(stack')
      BY <1>1, <1>3
    <3>. QED  BY <1>1, <1>2, <3>1 DEF RealFrames
  <2>2. ASSUME NEW i \in 1..Len(stack')
        PROVE  ~stack'[i].single /\ (stack'[i].dir # Root => db'.dirs[stack'[i].dir].device = "real")
    <3>1. i \in 1..Len(stack)
      BY <1>1, <1>3
    <3>2. stack'[i].dir # Root => stack'[i].dir \in DOMAIN db'.dirs
      BY <1>1, <2>2 DEF Frames, InTree
    <3>3. stack'[i] = stack[i]
      BY <1>1
    <3>. QED  BY <1>2, <1>6, <3>1, <3>2, <3>3 DEF RealFrames, Weaker
  <2>. QED  BY <2>1, <2>2 DEF RealFrames
<1>9. StampedEntries(stack')
  <2>1. \A i \in 1..Len(stack') : i \in 1..Len(stack)
    BY <1>1, <1>3
  <2>. QED  BY <1>1, <1>2, <2>1 DEF StampedEntries
<1>10. pc' = "walk" /\ UNCHANGED <<environment, process>>
  BY DEF EndDirectory, InDirectory
<1>. QED  BY <1>7, <1>8, <1>9, <1>10, HistoryByWalk

\* Without frames there is nothing to say of them.
LEMMA NoRealFrames ==
  ASSUME NEW d
  PROVE  RealFrames(d, << >>) /\ StampedEntries(<< >>)
  BY DEF RealFrames, StampedEntries

\* FinishWalk keeps the history.
LEMMA FinishWalkHistory ==
  ASSUME Typed, History, FinishWalk
  PROVE  History'
<1>. DEFINE e == PurgeDanglingFromPlaylists(db).db
<1>1. db' = e /\ pc' = "task" /\ stack' = << >> /\ UNCHANGED <<environment, process>>
  BY DEF FinishWalk
<1>2. Proper(db) /\ Honest(db) /\ RealParents(db)
  BY DEF Typed, History, Past
<1>3. Weaker(db, e) /\ Proper(e)
  BY <1>2, UndangledWeaker, PurgeDanglingFacts
<1>. HIDE DEF e
<1>4. Honest(db') /\ RealParents(db')
  BY <1>1, <1>2, <1>3, WeakerKeeps
<1>5. RealFrames(db', stack') /\ StampedEntries(stack')
  BY <1>1, NoRealFrames
<1>. QED  BY <1>1, <1>4, <1>5, HistoryByWalk

\* PruneEmpty() drops an archive without tracks: nothing is in it.
LEMMA PrunedIsFull ==
  ASSUME NEW d, Proper(d), RealParents(d)
  PROVE  Full(PruneEmpty(d))
<1>. DEFINE e == PruneEmpty(d)
<1>1. /\ DOMAIN e.dirs \subseteq DOMAIN d.dirs
      /\ \A n \in DOMAIN e.dirs : e.dirs[n] = d.dirs[n]
      /\ \A n \in DOMAIN e.dirs :
           \/ d.dirs[n].tracks # {}
           \/ \E m \in DOMAIN d.songs \cup DOMAIN d.dirs \cup DOMAIN d.lists : Parent[m] = n
  BY PruneEmptyFacts
<1>2. /\ DOMAIN d.songs \subseteq Nodes /\ DOMAIN d.dirs \subseteq Nodes
      /\ DOMAIN d.lists \subseteq Nodes
  BY Fields DEF Proper
<1>. HIDE DEF e
<1>3. ASSUME NEW n \in DOMAIN e.dirs, e.dirs[n].device = "archive", e.dirs[n].tracks = {}
      PROVE  FALSE
  <2>1. PICK m \in DOMAIN d.songs \cup DOMAIN d.dirs \cup DOMAIN d.lists : Parent[m] = n
    BY <1>1, <1>3
  <2>2. m \in Nodes /\ Present(d, m) /\ n # Root
    BY <1>1, <1>2, <1>3, <2>1, TreeAssumption DEF Present
  <2>3. d.dirs[n].device = "real"
    BY <2>1, <2>2 DEF RealParents
  <2>. QED  BY <1>1, <1>3, <2>3
<1>. QED  BY <1>3 DEF Full, e

\* Nor does the file list one.
LEMMA SavedIsFull ==
  ASSUME NEW d, Proper(d), Full(d)
  PROVE  Full(Saved(d))
<1>. DEFINE e == Saved(d)
<1>1. Weaker(d, e)
  BY SavedWeaker
<1>. HIDE DEF e
<1>2. Full(e)
  BY <1>1 DEF Weaker, Full
<1>. QED  BY <1>2 DEF e

\* Save() keeps the history, and no archive without tracks is left.
LEMMA SaveHistory ==
  ASSUME Proper(db), Proper(file), Honest(db), RealParents(db), Honest(file), RealParents(file),
         Full(file), Save
  PROVE  /\ Honest(db') /\ RealParents(db') /\ Honest(file') /\ RealParents(file')
         /\ Full(file') /\ Full(db')
<1>. DEFINE p == PruneEmpty(db)
            q == Saved(p)
<1>1. Proper(p) /\ Weaker(db, p) /\ Full(p)
  BY PruneEmptyFacts, PrunedWeaker, PrunedIsFull
<1>. HIDE DEF p
<1>2. Honest(p) /\ RealParents(p)
  BY <1>1, WeakerKeeps
<1>3. Proper(q) /\ Weaker(p, q) /\ Full(q)
  BY <1>1, SavedFacts, SavedWeaker, SavedIsFull
<1>. HIDE DEF q
<1>4. Honest(q) /\ RealParents(q)
  BY <1>1, <1>2, <1>3, WeakerKeeps
<1>5. db' = p /\ (file' = q \/ file' = file)
  BY DEF Save, p, q
<1>. QED  BY <1>1, <1>2, <1>3, <1>4, <1>5

\* Steps of the process around the walk.
LEMMA HistoryAround ==
  ASSUME History, UNCHANGED environment, mode' = mode, scope' = scope, stack' = << >>,
         Honest(db'), RealParents(db'), Honest(file'), RealParents(file'), Full(file'),
         pc' \in {"idle", "exited"} => Full(db')
  PROVE  History'
<1>1. fs' = fs /\ changes' = changes
  BY DEF environment
<1>2. RealFrames(db', stack') /\ StampedEntries(stack')
  BY NoRealFrames
<1>3. Past(db', file', stack')
  BY <1>2 DEF Past
<1>4. Past(db, file, stack)'
  BY <1>1, <1>3, PastSeen
<1>5. Stamped'
  BY <1>1, StampedSeen DEF History
<1>6. Full(file)' /\ (pc' \in {"idle", "exited"} => Full(db)')
  BY DEF Full
<1>. QED  BY <1>4, <1>5, <1>6 DEF History

\* TaskSave keeps the history, in mpd-dbcreate.
LEMMA TaskSaveHistory ==
  ASSUME OneShot, Typed, History, TaskSave
  PROVE  History'
<1>1. /\ Proper(db) /\ Proper(file) /\ Honest(db) /\ RealParents(db) /\ Honest(file)
      /\ RealParents(file) /\ Full(file)
  BY DEF Typed, History, Past
<1>2. /\ Honest(db') /\ RealParents(db') /\ Honest(file') /\ RealParents(file') /\ Full(file')
  <2>1. CASE Save
    BY <1>1, <2>1, SaveHistory
  <2>2. CASE UNCHANGED <<db, file>>
    BY <1>1, <2>2
  <2>. QED  BY <2>1, <2>2 DEF TaskSave
<1>3. /\ UNCHANGED environment /\ mode' = mode /\ scope' = scope /\ stack' = << >> /\ pc' = "main"
  BY DEF TaskSave, Typed
<1>. QED  BY <1>2, <1>3, HistoryAround

\* MainSave keeps the history.
LEMMA MainSaveHistory ==
  ASSUME Typed, History, MainSave
  PROVE  History'
<1>1. /\ Proper(db) /\ Proper(file) /\ Honest(db) /\ RealParents(db) /\ Honest(file)
      /\ RealParents(file) /\ Full(file) /\ Save
  BY DEF Typed, History, Past, MainSave
<1>2. /\ Honest(db') /\ RealParents(db') /\ Honest(file') /\ RealParents(file') /\ Full(file')
      /\ Full(db')
  BY <1>1, SaveHistory
<1>3. /\ UNCHANGED environment /\ mode' = mode /\ scope' = scope /\ stack' = << >>
  BY DEF MainSave, Typed
<1>. QED  BY <1>2, <1>3, HistoryAround

\* A new process starts with what is in the file.
LEMMA OpenHistory ==
  ASSUME Typed, History, NEW m \in Modes, Open(m), \A m1, m2 \in Modes : m1 = m2
  PROVE  History'
<1>1. Honest(file) /\ RealParents(file) /\ Full(file)
  BY DEF History, Past
<1>2. /\ UNCHANGED environment /\ scope' = scope /\ stack' = << >> /\ db' = file /\ file' = file
  BY DEF Open, Typed
<1>3. mode' = mode
  BY DEF Open, Typed, Scalars
<1>. QED  BY <1>1, <1>2, <1>3, HistoryAround

\* StartWalk keeps the history.
LEMMA StartWalkHistory ==
  ASSUME Typed, History, NEW discard, StartWalk(discard)
  PROVE  History'
<1>1. /\ pc = "idle" /\ stack = << >> /\ Proper(db) /\ ignore \subseteq Nodes
      /\ Honest(db) /\ RealParents(db) /\ Honest(file) /\ RealParents(file) /\ Full(file)
      /\ Full(db) /\ scope = Root /\ Stamped
  BY DEF StartWalk, Typed, Scalars, History, Past
<1>2. /\ fs' = fs /\ changes' = changes /\ mode' = mode /\ file' = file /\ scope' = Root
      /\ pc' \in {"walk", "task"}
  BY DEF StartWalk, environment
<1>3. Honest(db') /\ RealParents(db') /\ RealFrames(db', stack') /\ StampedEntries(stack')
  <2>1. CASE EnterDirectory(db, FALSE, Root, 0, << >>)
    <3>1. db' = Entered(db, Root) /\ Proper(db') /\ stack' = <<NewFrame(Root, 0)>>
      BY <1>1, <2>1, StartWalkFacts
    <3>2. InTree(db, Root)
      BY DEF InTree
    <3>3. Weaker(db, db')
      BY <1>1, <3>1, <3>2, EnteredWeaker
    <3>4. Honest(db') /\ RealParents(db')
      BY <1>1, <3>1, <3>3, WeakerKeeps
    <3>5. /\ NewFrame(Root, 0).dir = Root /\ NewFrame(Root, 0).entry = NoEntry
          /\ ~NewFrame(Root, 0).single
      BY DEF NewFrame
    <3>6. Len(stack') = 1 /\ stack'[1] = NewFrame(Root, 0)
      BY <3>1
    <3>7. RealFrames(db', stack')
      BY <3>5, <3>6 DEF RealFrames
    <3>8. StampedEntries(stack')
      BY <3>5, <3>6, NoEntryStamped DEF StampedEntries
    <3>. QED  BY <3>4, <3>7, <3>8
  <2>2. CASE UNCHANGED <<db, stack>>
    BY <1>1, <2>2, NoRealFrames
  <2>. QED  BY <2>1, <2>2 DEF StartWalk
<1>4. Past(db', file', stack')
  BY <1>1, <1>2, <1>3 DEF Past
<1>5. Past(db, file, stack)'
  BY <1>2, <1>4, PastSeen
<1>6. Stamped'
  BY <1>1, <1>2, StampedSeen
<1>7. Full(file)'
  BY <1>1, <1>2 DEF Full
<1>. QED  BY <1>2, <1>5, <1>6, <1>7 DEF History

\* What a scan of a node finds is as before, or its mtime is new.
Renewed(n) ==
  \/ /\ fs'[n].type = fs[n].type /\ fs'[n].mtime = fs[n].mtime
     /\ fs'[n].plain = fs[n].plain /\ fs'[n].tracks = fs[n].tracks
  \/ fs'[n].mtime \notin 1..changes

\* A change in the music directory does not make a record wrong: one that is out of
\* date differs in its mtime.
LEMMA HonestRenewed ==
  ASSUME changes \in Nat, changes' = changes + 1, mode' = mode, UNCHANGED <<db, file>>,
         \A n \in Nodes : Renewed(n), Honest(db), Honest(file)
  PROVE  Honest(db)' /\ Honest(file)'
<1>0. \A t : t \in 1..changes => t \in 1..changes'
  OBVIOUS
<1>1. ASSUME NEW n \in Nodes, NEW s, HonestSong(n, s)
      PROVE  /\ Kind[n] \in {"song", "container"} /\ s.mtime \in 1..changes'
             /\ s.mtime = fs'[n].mtime =>
                  /\ fs'[n].type = "file" /\ fs'[n].plain # "bad" /\ s.channels = fs'[n].plain
                  /\ ShouldInclude(fs[n].plain)'
                  /\ (Kind[n] = "container" => Included(n)' = {})
  <2>1. Kind[n] \in {"song", "container"} /\ s.mtime \in 1..changes /\ s.mtime \in 1..changes'
    BY <1>0, <1>1 DEF HonestSong
  <2>2. CASE s.mtime = fs'[n].mtime
    <3>1. /\ fs'[n].type = fs[n].type /\ fs'[n].mtime = fs[n].mtime
          /\ fs'[n].plain = fs[n].plain /\ fs'[n].tracks = fs[n].tracks
      BY <2>1, <2>2 DEF Renewed
    <3>2. Included(n)' = Included(n) /\ (ShouldInclude(fs[n].plain)' <=> ShouldInclude(fs[n].plain))
      BY <3>1 DEF Included, ShouldInclude
    <3>. QED  BY <1>1, <2>1, <2>2, <3>1, <3>2 DEF HonestSong
  <2>. QED  BY <2>1, <2>2
<1>2. ASSUME NEW n \in Nodes, NEW v, HonestDir(n, v)
      PROVE  /\ v.device = "container" =>
                  /\ Kind[n] = "container" /\ v.mtime \in 1..changes' /\ v.tracks # {}
                  /\ v.mtime = fs'[n].mtime => fs'[n].type = "file" /\ v.tracks = Included(n)'
             /\ v.device = "archive" =>
                  /\ Kind[n] = "archive" /\ v.mtime \in 1..changes'
                  /\ v.mtime = fs'[n].mtime =>
                       fs'[n].type = "file" /\ v.tracks \in {{}, fs'[n].tracks}
  <2>1. CASE v.mtime \in 1..changes /\ v.mtime = fs'[n].mtime
    <3>1. /\ fs'[n].type = fs[n].type /\ fs'[n].mtime = fs[n].mtime
          /\ fs'[n].plain = fs[n].plain /\ fs'[n].tracks = fs[n].tracks
      BY <2>1 DEF Renewed
    <3>2. Included(n)' = Included(n)
      BY <3>1 DEF Included, ShouldInclude
    <3>. QED  BY <1>0, <1>2, <2>1, <3>1, <3>2 DEF HonestDir
  <2>2. CASE ~(v.mtime \in 1..changes /\ v.mtime = fs'[n].mtime)
    BY <1>0, <1>2, <2>2 DEF HonestDir
  <2>. QED  BY <2>1, <2>2
<1>3. Honest(db)'
  BY <1>1, <1>2 DEF Honest, HonestAt, HonestSong, HonestDir, ShouldInclude
<1>4. Honest(file)'
  BY <1>1, <1>2 DEF Honest, HonestAt, HonestSong, HonestDir, ShouldInclude
<1>. QED  BY <1>3, <1>4

\* A change keeps the history.
LEMMA ChangeHistory ==
  ASSUME Typed, History, UNCHANGED changed, changes' = changes + 1, Stamped',
         \A n \in Nodes : Renewed(n)
  PROVE  History'
<1>1. changes \in Nat
  BY BoundsAssumption DEF Typed, Scalars
<1>2. /\ UNCHANGED <<db, file>> /\ stack' = stack /\ mode' = mode /\ pc' = pc /\ scope' = scope
  BY DEF changed
<1>3. Honest(db) /\ Honest(file) /\ StampedEntries(stack) /\ Frames(db, stack)
  BY DEF History, Past, Typed
<1>4. Honest(db)' /\ Honest(file)'
  BY <1>1, <1>2, <1>3, HonestRenewed
<1>5. StampedEntries(stack)'
  <2>1. ASSUME NEW i \in 1..Len(stack), stack[i].entry # NoEntry
        PROVE  LET e == stack[i].entry
               IN /\ e.mtime \in 1..changes'
                  /\ e.mtime = fs'[e.node].mtime => fs'[e.node].type = e.type
    <3>. DEFINE e == stack[i].entry
    <3>1. e.mtime \in 1..changes /\ (e.mtime = fs[e.node].mtime => fs[e.node].type = e.type)
      BY <1>3, <2>1 DEF StampedEntries, StampedEntry
    <3>2. e.node \in Nodes
      BY <1>3, <2>1 DEF Frames, Reads, Children
    <3>. HIDE DEF e
    <3>3. e.mtime \in 1..changes'
      BY <1>1, <3>1
    <3>4. e.mtime = fs'[e.node].mtime => fs'[e.node].type = e.type
      BY <3>1, <3>2 DEF Renewed
    <3>. QED  BY <3>3, <3>4 DEF e
  <2>. QED  BY <1>2, <2>1 DEF StampedEntries, StampedEntry, NoEntry
<1>6. RealParents(db)' /\ RealParents(file)' /\ RealFrames(db, stack)'
  BY <1>2 DEF History, Past, RealParents, Present, RealFrames
<1>7. Past(db, file, stack)'
  BY <1>4, <1>5, <1>6 DEF Past
<1>8. Full(file)' /\ (pc' \in {"idle", "exited"} => Full(db)')
  BY <1>2 DEF Full, History
<1>. QED  BY <1>2, <1>7, <1>8 DEF History

\* ChangeFile keeps the history.
LEMMA ChangeFileHistory ==
  ASSUME Typed, History, NEW n \in Nodes, NEW e \in Contents(n), ChangeFile(n, e)
  PROVE  History'
<1>. DEFINE new == IF e.type = "absent" THEN Absent ELSE [e EXCEPT !.mtime = changes + 1]
<1>1. /\ changes \in Nat /\ changes' = changes + 1 /\ UNCHANGED changed /\ e \in Entry
      /\ fs' = [m \in Nodes |-> IF m = n THEN new ELSE IF n \in Ancestors[m] THEN Absent ELSE fs[m]]
  BY BoundsAssumption, ContentsAssumption DEF Typed, Scalars, ChangeFile
<1>2. Absent.type = "absent" /\ Absent.mtime = 0
  BY DEF Absent
<1>3. \/ new.type = "absent" /\ new.mtime = 0
      \/ new.type # "absent" /\ new.mtime = changes + 1
  <2>1. CASE e.type = "absent"
    BY <1>2, <2>1
  <2>2. CASE e.type # "absent"
    BY <1>1, <2>2 DEF Entry
  <2>. QED  BY <2>1, <2>2
<1>. HIDE DEF new
<1>4. ASSUME NEW m \in Nodes
      PROVE  \/ fs'[m] = fs[m]
             \/ fs'[m].type = "absent" /\ fs'[m].mtime = 0
             \/ fs'[m].type # "absent" /\ fs'[m].mtime = changes + 1
  BY <1>1, <1>2, <1>3
<1>5. Stamped'
  <2>1. ASSUME NEW m \in Nodes
        PROVE  IF fs'[m].type = "absent" THEN fs'[m].mtime = 0 ELSE fs'[m].mtime \in 1..changes'
    <3>1. IF fs[m].type = "absent" THEN fs[m].mtime = 0 ELSE fs[m].mtime \in 1..changes
      BY DEF History, Stamped
    <3>. QED  BY <1>1, <1>4, <3>1
  <2>. QED  BY <2>1 DEF Stamped
<1>6. \A m \in Nodes : Renewed(m)
  BY <1>1, <1>4 DEF Renewed
<1>. QED  BY <1>1, <1>5, <1>6, ChangeHistory

\* ChangeAccess keeps the history: permissions are not what a scan finds.
LEMMA ChangeAccessHistory ==
  ASSUME Typed, History, NEW n \in Nodes, ChangeAccess(n)
  PROVE  History'
<1>1. /\ changes \in Nat /\ changes' = changes + 1 /\ UNCHANGED changed
      /\ fs' = [fs EXCEPT ![n].access = ~@] /\ fs \in [Nodes -> Entry]
  BY BoundsAssumption DEF Typed, Scalars, ChangeAccess
<1>2. ASSUME NEW m \in Nodes
      PROVE  /\ fs'[m].type = fs[m].type /\ fs'[m].mtime = fs[m].mtime
             /\ fs'[m].plain = fs[m].plain /\ fs'[m].tracks = fs[m].tracks
  <2>1. fs[m] \in Entry
    BY <1>1
  <2>. QED  BY <1>1, <2>1 DEF Entry
<1>3. \A m \in Nodes : Renewed(m)
  BY <1>2 DEF Renewed
<1>4. Stamped'
  <2>1. ASSUME NEW m \in Nodes
        PROVE  IF fs'[m].type = "absent" THEN fs'[m].mtime = 0 ELSE fs'[m].mtime \in 1..changes'
    <3>1. IF fs[m].type = "absent" THEN fs[m].mtime = 0 ELSE fs[m].mtime \in 1..changes
      BY DEF History, Stamped
    <3>. QED  BY <1>1, <1>2, <3>1
  <2>. QED  BY <2>1 DEF Stamped
<1>. QED  BY <1>1, <1>3, <1>4, ChangeHistory

\* ChangeIgnore keeps the history.
LEMMA ChangeIgnoreHistory ==
  ASSUME Typed, History, NEW n \in Ignorable, ChangeIgnore(n)
  PROVE  History'
<1>1. /\ changes \in Nat /\ changes' = changes + 1 /\ UNCHANGED changed /\ fs' = fs
  BY BoundsAssumption DEF Typed, Scalars, ChangeIgnore
<1>2. \A m \in Nodes : Renewed(m)
  BY <1>1 DEF Renewed
<1>3. Stamped'
  <2>1. ASSUME NEW m \in Nodes
        PROVE  IF fs'[m].type = "absent" THEN fs'[m].mtime = 0 ELSE fs'[m].mtime \in 1..changes'
    <3>1. IF fs[m].type = "absent" THEN fs[m].mtime = 0 ELSE fs[m].mtime \in 1..changes
      BY DEF History, Stamped
    <3>. QED  BY <1>1, <3>1
  <2>. QED  BY <2>1 DEF Stamped
<1>. QED  BY <1>1, <1>2, <1>3, ChangeHistory

\* There is only one channel mode.
OneMode == \A m1, m2 \in Modes : m1 = m2

\* The history is empty initially.
LEMMA InitHistory ==
  ASSUME Init PROVE History
<1>1. DOMAIN Empty.songs = {} /\ DOMAIN Empty.dirs = {} /\ DOMAIN Empty.lists = {}
  BY EmptyFacts
<1>2. Honest(Empty) /\ RealParents(Empty) /\ Full(Empty)
  BY <1>1 DEF Honest, HonestAt, RealParents, Present, Full
<1>3. Stamped
  <2>1. fs = [n \in Nodes |-> Absent] /\ Absent.type = "absent" /\ Absent.mtime = 0
    BY DEF Init, Absent
  <2>. QED  BY <2>1 DEF Stamped
<1>4. db = Empty /\ file = Empty /\ stack = << >> /\ scope = Root
  BY DEF Init
<1>5. Past(db, file, stack)
  BY <1>2, <1>4, NoRealFrames DEF Past
<1>. QED  BY <1>2, <1>3, <1>4, <1>5 DEF History

\* A walk of the whole tree has no frame of UpdateUri().
LEMMA NoSingleFrame ==
  ASSUME Typed, History, InDirectory
  PROVE  ~Top.single
<1>1. Len(stack) \in 1..Len(stack)
  BY TopFrame DEF Typed, InDirectory
<1>. QED  BY <1>1 DEF History, Past, RealFrames, Top

\* Nothing of the history changes.
LEMMA HistoryRests ==
  ASSUME History, UNCHANGED <<fs, changes, mode, db, file, stack, scope, pc>>
  PROVE  History'
<1>1. Past(db', file', stack')
  BY DEF History
<1>2. Past(db, file, stack)'
  BY <1>1, PastSeen
<1>3. Stamped'
  BY StampedSeen DEF History
<1>. QED  BY <1>2, <1>3 DEF History, Full

\* Every step of mpd-dbcreate keeps the history.
LEMMA StepHistory ==
  ASSUME OneShot, OneMode, Typed, History, [Next]_vars,
         RegularFile => ~Kept(Top.entry.node)
  PROVE  History'
<1>1. CASE \E n \in Nodes : SkipEntry(n) \/ DeleteEntry(n) \/ StatEntry(n)
  BY <1>1, SkipEntryHistory, DeleteEntryHistory, StatEntryHistory
<1>2. CASE RegularFile
  BY <1>2, RegularFileHistory
<1>3. CASE Subdirectory
  BY <1>3, SubdirectoryHistory
<1>4. CASE AncestorLoop
  BY <1>4, AncestorLoopHistory
<1>5. CASE EndDirectory
  BY <1>5, EndDirectoryHistory
<1>6. CASE EndUri
  BY <1>6, NoSingleFrame DEF EndUri
<1>7. CASE FinishWalk
  BY <1>7, FinishWalkHistory
<1>8. CASE TaskSave
  BY <1>8, TaskSaveHistory
<1>9. CASE MainSave
  BY <1>9, MainSaveHistory
<1>10. CASE \E m \in Modes : Open(m)
  BY <1>10, OpenHistory DEF OneMode
<1>11. CASE \E discard \in {FALSE, DiscardAllowed} : StartWalk(discard)
  BY <1>11, StartWalkHistory
<1>12. CASE \E discard \in {FALSE, DiscardAllowed} : \E n \in Nodes : StartUpdateUri(n, discard)
  BY <1>12 DEF StartUpdateUri
<1>13. CASE Exit \/ \E n \in Nodes : PlayTrack(n)
  BY <1>13 DEF Exit, PlayTrack
<1>14. CASE Cancel
  <2>1. UNCHANGED <<fs, changes, mode, db, file, stack, scope, pc>>
    BY <1>14 DEF Cancel, environment
  <2>. QED  BY <2>1, HistoryRests
<1>15. CASE \E n \in Nodes : \E e \in Contents(n) : ChangeFile(n, e)
  BY <1>15, ChangeFileHistory
<1>16. CASE \E n \in Nodes : ChangeAccess(n)
  BY <1>16, ChangeAccessHistory
<1>17. CASE \E n \in Ignorable : ChangeIgnore(n)
  BY <1>17, ChangeIgnoreHistory
<1>18. CASE UNCHANGED vars
  <2>1. UNCHANGED <<fs, changes, mode, db, file, stack, scope, pc>>
    BY <1>18 DEF vars
  <2>. QED  BY <2>1, HistoryRests
<1>. QED  BY <1>1, <1>2, <1>3, <1>4, <1>5, <1>6, <1>7, <1>8, <1>9, <1>10, <1>11, <1>12, <1>13, <1>14,
             <1>15, <1>16, <1>17, <1>18 DEF Next, WalkStep

----------------------------------------------------------------------------
(***************************************************************************)
(* An update that nothing interferes with: what is done is right, what is  *)
(* ahead is unmarked.                                                      *)
(***************************************************************************)

\* The tracks of a container or archive are those of its file.
TracksRight(d, n) ==
  Kind[n] \in {"container", "archive"} =>
    TracksIn(d, n, Kind[n]) = ExpectedTracks(n) \/ (Kind[n] = "archive" /\ ~fs[n].access)

\* The database has at a node what a full scan would find.
Right(d, n) ==
  /\ n \in DOMAIN d.songs <=> n \in ExpectedSongs
  /\ n \in DOMAIN d.songs => d.songs[n].channels = fs[n].plain
  /\ TracksRight(d, n)
  /\ n \in DOMAIN d.dirs => fs[n].type \in {"dir", "file"}

\* A directory that a walk enters.
OpenDir(n) == fs[n].type = "dir" /\ fs[n].access /\ n \notin ignore

\* An entry that the walk has not come to: if it stays so it will be purged.
Fallow(d, c) ==
  /\ c \in DOMAIN d.songs => ~d.songs[c].mark
  /\ c \in DOMAIN d.dirs => ~d.dirs[c].mark

\* A directory that is kept is right, with all that is below it.
DirDone(d, c) ==
  IF c \in DOMAIN d.dirs /\ d.dirs[c].mark
    THEN /\ fs[c].type \in {"dir", "file"} /\ TracksRight(d, c)
         /\ \A m \in Below(c) : Right(d, m)
    ELSE /\ Kind[c] \in {"container", "archive"} =>
              ExpectedTracks(c) = {} \/ (Kind[c] = "archive" /\ ~fs[c].access)
         /\ \A m \in Below(c) : ~Reachable(m)

\* An entry the walk is done with: the purge leaves what is right.
Done(d, c) ==
  /\ c \in ExpectedSongs <=> (c \in DOMAIN d.songs /\ d.songs[c].mark)
  /\ c \in ExpectedSongs => d.songs[c].channels = fs[c].plain
  /\ DirDone(d, c)

\* What lies below a node.
LEMMA BelowFacts ==
  ASSUME NEW n \in Nodes
  PROVE  \A m : m \in Below(n) <=> m \in Nodes /\ n \in Ancestors[m]
<1>1. \A m \in Nodes : m \in Subtree({n}) <=> m = n \/ n \in Ancestors[m]
  BY DEF Subtree
<1>2. n \notin Ancestors[n]
  BY AncestorsAcyclic
<1>3. Subtree({n}) \in SUBSET Nodes
  BY SubtreeOfOne
<1>. QED  BY <1>1, <1>2, <1>3 DEF Below

\* A full scan finds nothing below what cannot be entered.
LEMMA NothingBelow ==
  ASSUME NEW n \in Nodes, ~OpenDir(n)
  PROVE  \A m \in Below(n) : ~Reachable(m)
  BY BelowFacts DEF OpenDir, Reachable

\* Nor is there anything at a node that cannot be reached.
LEMMA UnreachableExpectsNothing ==
  ASSUME NEW n \in Nodes, ~Visible(n)
  PROVE  n \notin ExpectedSongs /\ ExpectedTracks(n) = {}
  BY DEF ExpectedSongs, ExpectedTracks

\* An entry without anything to find, and unmarked.
LEMMA FallowDone ==
  ASSUME NEW d, NEW n \in Nodes, Fallow(d, n), n \notin ExpectedSongs, ~OpenDir(n),
         Kind[n] \in {"container", "archive"} =>
           ExpectedTracks(n) = {} \/ (Kind[n] = "archive" /\ ~fs[n].access)
  PROVE  Done(d, n)
<1>1. \A m \in Below(n) : ~Reachable(m)
  BY NothingBelow
<1>. QED  BY <1>1 DEF Done, DirDone, Fallow

\* What is not in the database and not to be found is right.
LEMMA AbsentIsRight ==
  ASSUME NEW d, NEW m \in Nodes, ~Present(d, m), ~Reachable(m)
  PROVE  Right(d, m)
<1>1. ~Visible(m)
  BY DEF Visible
<1>2. m \notin ExpectedSongs /\ ExpectedTracks(m) = {}
  BY <1>1, UnreachableExpectsNothing
<1>3. \A k : TracksIn(d, m, k) = {}
  BY DEF TracksIn, Present
<1>. QED  BY <1>2, <1>3 DEF Right, TracksRight, Present

\* A file with nothing below it.
LEMMA LeafRight ==
  ASSUME NEW d, NEW n \in Nodes, Leaf(d, n), ~OpenDir(n)
  PROVE  \A m \in Below(n) : Right(d, m)
<1>1. ASSUME NEW m \in Below(n) PROVE Right(d, m)
  <2>1. m \in Nodes /\ ~Reachable(m)
    BY BelowFacts, NothingBelow
  <2>2. ~Present(d, m)
    BY DEF Leaf, Present, Below
  <2>. QED  BY <2>1, <2>2, AbsentIsRight
<1>. QED  BY <1>1

\* Of two directories above a node one is above the other.
LEMMA AncestorsComparable ==
  ASSUME NEW a \in Nodes, NEW b \in Nodes, a # b, a \notin Ancestors[b], b \notin Ancestors[a]
  PROVE  \A m \in Nodes : ~(a \in Ancestors[m] /\ b \in Ancestors[m])
<1>. DEFINE S == {m \in Nodes : a \in Ancestors[m] /\ b \in Ancestors[m]}
<1>1. ASSUME S # {} PROVE FALSE
  <2>1. PICK m \in S : Parent[m] \notin S
    BY <1>1, TreeAssumption
  <2>2. m \in Nodes /\ a \in Ancestors[m] /\ b \in Ancestors[m]
    BY <2>1
  <2>3. Ancestors[m] = IF Parent[m] = Root THEN {} ELSE {Parent[m]} \cup Ancestors[Parent[m]]
    BY <2>2, AncestorsUnfold
  <2>4. Parent[m] # Root /\ Parent[m] \in Nodes
    BY <2>2, <2>3, TreeAssumption
  <2>5. /\ a = Parent[m] \/ a \in Ancestors[Parent[m]]
        /\ b = Parent[m] \/ b \in Ancestors[Parent[m]]
    BY <2>2, <2>3, <2>4
  <2>6. ~(a \in Ancestors[Parent[m]] /\ b \in Ancestors[Parent[m]])
    BY <2>1, <2>4
  <2>. QED  BY <2>5, <2>6
<1>. QED  BY <1>1

\* Two entries of a directory have nothing below them in common.
LEMMA Apart ==
  ASSUME NEW a \in Nodes, NEW b \in Nodes, a # b, Parent[a] = Parent[b]
  PROVE  \A m \in Subtree({a}) : m \notin Subtree({b})
<1>1. Ancestors[a] = Ancestors[b]
  BY AncestorsUnfold
<1>2. a \notin Ancestors[b] /\ b \notin Ancestors[a]
  BY <1>1, AncestorsAcyclic
<1>3. \A m \in Nodes : ~(a \in Ancestors[m] /\ b \in Ancestors[m])
  BY <1>2, AncestorsComparable
<1>4. /\ \A m \in Nodes : m \in Subtree({a}) <=> m = a \/ a \in Ancestors[m]
      /\ \A m \in Nodes : m \in Subtree({b}) <=> m = b \/ b \in Ancestors[m]
      /\ Subtree({a}) \in SUBSET Nodes
  BY SubtreeOfOne DEF Subtree
<1>. QED  BY <1>2, <1>3, <1>4

\* The subtree of a node in a subtree.
LEMMA SubtreeInside ==
  ASSUME NEW a \in Nodes, NEW n \in Nodes, a = n \/ a \in Ancestors[n]
  PROVE  Subtree({n}) \subseteq Subtree({a})
<1>1. /\ \A m \in Nodes : m \in Subtree({a}) <=> m = a \/ a \in Ancestors[m]
      /\ \A m \in Nodes : m \in Subtree({n}) <=> m = n \/ n \in Ancestors[m]
      /\ Subtree({n}) \in SUBSET Nodes
  BY SubtreeOfOne DEF Subtree
<1>2. ASSUME NEW m \in Nodes, m \in Subtree({n}) PROVE m \in Subtree({a})
  BY <1>1, <1>2, AncestorsTransitive
<1>. QED  BY <1>1, <1>2

\* What happens in the innermost directory is apart from the other entries of the
\* directories around it.
LEMMA ApartFromFrames ==
  ASSUME NEW d, NEW s, Frames(d, s), NEW i \in 1..Len(s), i < Len(s),
         NEW c \in Children(s[i].dir), c # s[i + 1].dir,
         NEW n \in Nodes, n = s[Len(s)].dir \/ Over(s[Len(s)].dir, n)
  PROVE  \A m \in Subtree({c}) : m \notin Subtree({n})
<1>. DEFINE a == s[i + 1].dir
<1>1. Len(s) \in Nat /\ s \in Seq(Frame)
  BY DEF Frames
<1>2. i + 1 \in 1..Len(s) /\ i + 1 > 1 /\ (i + 1) - 1 = i /\ Len(s) \in 1..Len(s) /\ i \in Nat
  BY <1>1
<1>3. a \in Nodes /\ Parent[a] = s[i].dir
  <2>1. Parent[s[i + 1].dir] = s[(i + 1) - 1].dir
    BY <1>2 DEF Frames
  <2>. QED  BY <1>2, <2>1 DEF Frames
<1>4. c \in Nodes /\ Parent[c] = s[i].dir
  BY DEF Children
<1>5. \A m \in Subtree({c}) : m \notin Subtree({a})
  BY <1>3, <1>4, Apart
<1>6. a = s[Len(s)].dir \/ a \in Ancestors[s[Len(s)].dir]
  <2>1. CASE i + 1 = Len(s)
    BY <2>1
  <2>2. CASE i + 1 # Len(s)
    <3>1. i + 1 < Len(s)
      BY <1>2, <2>2
    <3>2. Over(s[i + 1].dir, s[Len(s)].dir)
      BY <1>2, <3>1 DEF Frames
    <3>. QED  BY <1>3, <3>2, TreeAssumption DEF Over
  <2>. QED  BY <2>1, <2>2
<1>7. s[Len(s)].dir \in Nodes
  BY <1>2 DEF Frames
<1>8. a = n \/ a \in Ancestors[n]
  <2>1. CASE n = s[Len(s)].dir
    BY <1>6, <2>1
  <2>2. CASE Over(s[Len(s)].dir, n)
    <3>1. s[Len(s)].dir \in Ancestors[n]
      BY <1>7, <2>2, TreeAssumption DEF Over
    <3>. QED  BY <1>6, <3>1, AncestorsTransitive
  <2>. QED  BY <2>1, <2>2
<1>9. Subtree({n}) \subseteq Subtree({a})
  BY <1>3, <1>8, SubtreeInside
<1>. QED  BY <1>5, <1>9

\* An archive with the mtime of its file has the tracks of the file, if it can be opened.
ArchivesTrue(d) ==
  \A n \in DOMAIN d.dirs : d.dirs[n].device = "archive" /\ d.dirs[n].mtime = fs[n].mtime =>
    d.dirs[n].tracks = fs[n].tracks \/ ~fs[n].access

\* What a frame has not finished: entries not read, the one being scanned, and the
\* directory of the next frame.
Ahead(s, i) ==
  s[i].todo \cup {s[i].entry.node} \cup (IF i < Len(s) THEN {s[i + 1].dir} ELSE {})

\* What a frame and its entry were made of is still so.
Steady(s, i) ==
  /\ s[i].exclude = ignore
  /\ s[i].dir # Root => OpenDir(s[i].dir) /\ Reachable(s[i].dir)
  /\ s[i].entry # NoEntry =>
       /\ s[i].entry.type = fs[s[i].entry.node].type /\ s[i].entry.mtime = fs[s[i].entry.node].mtime
       /\ s[i].entry.node \notin ignore /\ s[i].entry.node \notin s[i].todo
  /\ i < Len(s) => s[i + 1].dir \notin s[i].todo

\* The state of an entry is that of a frame that has read so much.
TreatedAt(d, s, i, c) == IF c \in Ahead(s, i) THEN Fallow(d, c) ELSE Done(d, c)

\* This of all entries but one.
TreatedBut(d, s, i, n) == \A c \in Children(s[i].dir) : c # n => TreatedAt(d, s, i, c)

\* This of all entries.
Treated(d, s, i) == \A c \in Children(s[i].dir) : TreatedAt(d, s, i, c)

\* The frames of a walk that nothing interfered with.
Progress(d, s) == \A i \in 1..Len(s) : Steady(s, i) /\ Treated(d, s, i)

\* Such a walk is on its way, or has left everything right.
Settled ==
  undisturbed => IF stack = << >> THEN \A n \in Nodes : Right(db, n)
                 ELSE ~cancel /\ ArchivesTrue(db) /\ Progress(db, stack)

\* What is right depends on what the database has at the node.
LEMMA RightSame ==
  ASSUME NEW d, NEW e, NEW m, SameAt(d, e, m), Right(d, m)
  PROVE  Right(e, m)
<1>1. \A k : TracksIn(e, m, k) = TracksIn(d, m, k)
  BY DEF TracksIn, SameAt
<1>2. TracksRight(e, m)
  BY <1>1 DEF Right, TracksRight
<1>. QED  BY <1>2 DEF Right, SameAt

\* What is unmarked, as well.
LEMMA FallowSame ==
  ASSUME NEW d, NEW e, NEW c, SameAt(d, e, c), Fallow(d, c)
  PROVE  Fallow(e, c)
  BY DEF Fallow, SameAt

\* What is done depends on what the database has at the node and below it.
LEMMA DoneSame ==
  ASSUME NEW d, NEW e, NEW c \in Nodes, \A m \in Subtree({c}) : SameAt(d, e, m), Done(d, c)
  PROVE  Done(e, c)
<1>1. SameAt(d, e, c)
  BY SubtreeOfOne
<1>2. \A m \in Below(c) : SameAt(d, e, m)
  BY DEF Below
<1>3. \A m \in Below(c) : Right(d, m) => Right(e, m)
  BY <1>2, RightSame
<1>4. TracksRight(d, c) => TracksRight(e, c)
  <2>1. \A k : TracksIn(e, c, k) = TracksIn(d, c, k)
    BY <1>1 DEF TracksIn, SameAt
  <2>. QED  BY <2>1 DEF TracksRight
<1>5. c \in DOMAIN e.dirs /\ e.dirs[c].mark <=> c \in DOMAIN d.dirs /\ d.dirs[c].mark
  BY <1>1 DEF SameAt
<1>6. DirDone(e, c)
  BY <1>3, <1>4, <1>5 DEF Done, DirDone
<1>7. /\ c \in ExpectedSongs <=> (c \in DOMAIN e.songs /\ e.songs[c].mark)
      /\ c \in ExpectedSongs => e.songs[c].channels = fs[c].plain
  BY <1>1 DEF Done, SameAt
<1>. QED  BY <1>6, <1>7 DEF Done

\* An operation at one entry of the innermost directory does not concern the others.
LEMMA TreatedOutside ==
  ASSUME NEW d, NEW e, NEW s, Frames(d, s), s # << >>, NEW n \in Children(s[Len(s)].dir),
         Outside(d, e, n), NEW i \in 1..Len(s), TreatedBut(d, s, i, n)
  PROVE  TreatedBut(e, s, i, n)
<1>0. n \in Nodes /\ Parent[n] = s[Len(s)].dir
  BY DEF Children
<1>1. ASSUME NEW c \in Children(s[i].dir), c # n
      PROVE  TreatedAt(e, s, i, c)
  <2>0. c \in Nodes /\ Parent[c] = s[i].dir /\ TreatedAt(d, s, i, c)
    BY <1>1 DEF Children, TreatedBut
  <2>1. CASE i < Len(s) /\ c = s[i + 1].dir
    <3>1. Len(s) \in Nat
      BY TopFrame
    <3>2. i + 1 \in 1..Len(s)
      BY <2>1, <3>1
    <3>3. c # Root
      BY <2>0, TreeAssumption
    <3>4. SameAt(d, e, c)
      BY <2>1, <3>2, <3>3, FramesSurvive
    <3>5. c \in Ahead(s, i)
      BY <2>1 DEF Ahead
    <3>. QED  BY <2>0, <3>4, <3>5, FallowSame DEF TreatedAt
  <2>2. CASE ~(i < Len(s) /\ c = s[i + 1].dir)
    <3>1. \A m \in Subtree({c}) : m \notin Subtree({n})
      <4>1. CASE i < Len(s)
        <5>1. Over(s[Len(s)].dir, n)
          BY <1>0, ParentIsOver
        <5>. QED  BY <1>0, <1>1, <2>2, <4>1, <5>1, ApartFromFrames
      <4>2. CASE i = Len(s)
        BY <1>0, <1>1, <2>0, <4>2, Apart
      <4>3. i < Len(s) \/ i = Len(s)
        <5>1. Len(s) \in Nat
          BY TopFrame
        <5>. QED  BY <5>1
      <4>. QED  BY <4>1, <4>2, <4>3
    <3>2. Subtree({c}) \in SUBSET Nodes /\ c \in Subtree({c})
      BY <2>0, SubtreeOfOne
    <3>3. \A m \in Subtree({c}) : SameAt(d, e, m)
      BY <3>1, <3>2 DEF Outside
    <3>4. Done(d, c) => Done(e, c)
      BY <2>0, <3>3, DoneSame
    <3>5. Fallow(d, c) => Fallow(e, c)
      BY <3>2, <3>3, FallowSame
    <3>. QED  BY <2>0, <3>4, <3>5 DEF TreatedAt
  <2>. QED  BY <2>1, <2>2
<1>. QED  BY <1>1 DEF TreatedBut

\* An entry of the innermost directory is in no other frame's directory.
LEMMA InnermostOnly ==
  ASSUME NEW d, NEW s, Frames(d, s), s # << >>, NEW n \in Children(s[Len(s)].dir),
         NEW i \in 1..Len(s), i # Len(s)
  PROVE  n \notin Children(s[i].dir)
<1>1. Len(s) \in Nat /\ Len(s) \in 1..Len(s)
  BY TopFrame
<1>2. i < Len(s)
  BY <1>1
<1>3. s[Len(s)].dir \in Nodes /\ Over(s[i].dir, s[Len(s)].dir)
  BY <1>1, <1>2 DEF Frames
<1>4. s[i].dir # s[Len(s)].dir
  BY <1>3, AncestorsAcyclic, TreeAssumption DEF Over
<1>. QED  BY <1>4 DEF Children

\* The walk goes on at the innermost frame, which has treated one more entry.
LEMMA OneEntryTreated ==
  ASSUME NEW d, NEW e, NEW s, NEW p, Frames(d, s), s # << >>, Progress(d, s),
         NEW n \in Children(s[Len(s)].dir), Outside(d, e, n),
         Len(p) = Len(s), \A i \in 1..Len(s) : i # Len(s) => p[i] = s[i],
         p[Len(s)].dir = s[Len(s)].dir, Steady(p, Len(s)), TreatedAt(e, p, Len(s), n),
         \A c \in Children(s[Len(s)].dir) : c # n =>
           (c \in Ahead(p, Len(s)) <=> c \in Ahead(s, Len(s)))
  PROVE  Progress(e, p)
<1>1. Len(s) \in Nat /\ Len(s) \in 1..Len(s)
  BY TopFrame
<1>2. ASSUME NEW i \in 1..Len(s) PROVE Steady(s, i) /\ Treated(d, s, i) /\ TreatedBut(e, s, i, n)
  <2>1. Steady(s, i) /\ Treated(d, s, i)
    BY <1>2 DEF Progress
  <2>2. TreatedBut(d, s, i, n)
    BY <2>1 DEF Treated, TreatedBut
  <2>. QED  BY <2>1, <2>2, TreatedOutside
<1>3. ASSUME NEW i \in 1..Len(s), i # Len(s) PROVE Steady(p, i) /\ Treated(e, p, i)
  <2>1. p[i] = s[i] /\ i < Len(s) /\ i + 1 \in 1..Len(s)
    BY <1>1, <1>3
  <2>2. p[i + 1].dir = s[i + 1].dir
    BY <2>1
  <2>3. Ahead(p, i) = Ahead(s, i)
    BY <2>1, <2>2 DEF Ahead
  <2>4. Steady(p, i)
    BY <1>2, <2>1, <2>2 DEF Steady
  <2>5. n \notin Children(s[i].dir)
    BY <1>3, InnermostOnly
  <2>6. TreatedBut(e, s, i, n)
    BY <1>2
  <2>7. Treated(e, p, i)
    BY <2>1, <2>3, <2>5, <2>6 DEF Treated, TreatedBut, TreatedAt
  <2>. QED  BY <2>4, <2>7
<1>4. Treated(e, p, Len(s))
  <2>1. TreatedBut(e, s, Len(s), n)
    BY <1>1, <1>2
  <2>. QED  BY <2>1 DEF Treated, TreatedBut, TreatedAt
<1>. QED  BY <1>1, <1>3, <1>4 DEF Progress

\* What the innermost frame of such a walk says of the entry it reads or scans.
LEMMA SteadyEntry ==
  ASSUME Typed, stack # << >>, Progress(db, stack), NEW n \in Children(Top.dir)
  PROVE  /\ Steady(stack, Len(stack)) /\ Treated(db, stack, Len(stack))
         /\ Top.exclude = ignore /\ Reachable(n)
         /\ Ahead(stack, Len(stack)) = Top.todo \cup {Top.entry.node}
         /\ n \in Top.todo \cup {Top.entry.node} => Fallow(db, n)
         /\ Top.entry # NoEntry =>
              /\ Top.entry.type = fs[Top.entry.node].type
              /\ Top.entry.mtime = fs[Top.entry.node].mtime
              /\ Top.entry.node \notin ignore /\ Top.entry.node \notin Top.todo
<1>1. Len(stack) \in Nat /\ Len(stack) \in 1..Len(stack) /\ Top \in Frame
  BY TopFrame DEF Typed, Top
<1>2. Steady(stack, Len(stack)) /\ Treated(db, stack, Len(stack))
  BY <1>1 DEF Progress
<1>3. ~(Len(stack) < Len(stack))
  BY <1>1
<1>4. Ahead(stack, Len(stack)) = Top.todo \cup {Top.entry.node}
  BY <1>3 DEF Ahead, Top
<1>5. n \in Top.todo \cup {Top.entry.node} => Fallow(db, n)
  BY <1>2, <1>4 DEF Treated, TreatedAt, Top
<1>6. /\ Top.exclude = ignore
      /\ Top.dir # Root => OpenDir(Top.dir) /\ Reachable(Top.dir)
      /\ Top.entry # NoEntry =>
              /\ Top.entry.type = fs[Top.entry.node].type
              /\ Top.entry.mtime = fs[Top.entry.node].mtime
              /\ Top.entry.node \notin ignore /\ Top.entry.node \notin Top.todo
  BY <1>2 DEF Steady, Top
<1>7. Reachable(n)
  <2>1. n \in Nodes /\ Parent[n] = Top.dir
    BY DEF Children
  <2>2. Ancestors[n] = IF Parent[n] = Root THEN {} ELSE {Parent[n]} \cup Ancestors[Parent[n]]
    BY <2>1, AncestorsUnfold
  <2>. QED  BY <1>6, <2>1, <2>2 DEF Reachable, OpenDir
<1>. QED  BY <1>2, <1>4, <1>5, <1>6, <1>7

\* An entry has been read: the frame goes on with it or with the next one.
LEMMA ReadProgress ==
  ASSUME Typed, stack # << >>, Progress(db, stack), NEW n \in Top.todo, Top.entry = NoEntry,
         NEW e, Outside(db, e, n), NEW entry \in Stat,
         \/ entry = NoEntry /\ Done(e, n)
         \/ /\ entry.node = n /\ entry.type # "none" /\ entry.type = fs[n].type
            /\ entry.mtime = fs[n].mtime /\ n \notin ignore /\ Fallow(e, n)
  PROVE  Progress(e, SetEntry(Top.todo \ {n}, entry))
<1>. DEFINE p == SetEntry(Top.todo \ {n}, entry)
            k == Len(stack)
<1>1. Frames(db, stack) /\ Reads(Top) /\ k \in Nat
  BY TopFrame DEF Typed, Top
<1>2. n \in Children(Top.dir) /\ n \in Nodes /\ Top.todo \ {n} \in SUBSET Children(Top.dir)
  BY <1>1 DEF Reads, Children
<1>3. NoEntry.node = Root /\ NoEntry.type = "none" /\ n # Root
  BY <1>2, TreeAssumption DEF NoEntry
<1>4. entry # NoEntry => entry.type # "none" /\ entry.node \in Children(Top.dir)
  BY <1>2
<1>5. /\ Frames(db, p) /\ p # << >> /\ Len(p) = Len(stack)
      /\ \A i \in 1..Len(stack) : i # Len(stack) => p[i] = stack[i]
      /\ p[Len(stack)] = [dir |-> Top.dir, single |-> Top.single, mtime |-> Top.mtime,
                          exclude |-> Top.exclude, todo |-> Top.todo \ {n}, entry |-> entry]
  BY <1>1, <1>2, <1>4, SetEntryFacts
<1>. HIDE DEF p
<1>6. /\ Steady(stack, k) /\ Top.exclude = ignore
      /\ Ahead(stack, k) = Top.todo \cup {Top.entry.node}
  BY <1>2, SteadyEntry
<1>7. /\ p[k].dir = stack[k].dir /\ p[k].exclude = ignore /\ p[k].entry = entry
      /\ p[k].todo = Top.todo \ {n} /\ ~(k < Len(p))
  BY <1>1, <1>5, <1>6 DEF Top
<1>8. Ahead(p, k) = (Top.todo \ {n}) \cup {entry.node}
  BY <1>7 DEF Ahead
<1>9. Steady(p, k)
  <2>1. entry # NoEntry =>
          /\ entry.type = fs[entry.node].type /\ entry.mtime = fs[entry.node].mtime
          /\ entry.node \notin ignore /\ entry.node \notin Top.todo \ {n}
    BY <1>3
  <2>. QED  BY <1>6, <1>7, <2>1 DEF Steady
<1>10. TreatedAt(e, p, k, n)
  BY <1>3, <1>8 DEF TreatedAt
<1>11. \A c \in Children(stack[k].dir) : c # n => (c \in Ahead(p, k) <=> c \in Ahead(stack, k))
  <2>1. ASSUME NEW c \in Children(stack[k].dir), c # n PROVE c # Root /\ c # entry.node
    <3>1. c # Root
      BY TreeAssumption DEF Children
    <3>. QED  BY <1>3, <2>1, <3>1
  <2>. QED  BY <1>3, <1>6, <1>8, <2>1
<1>12. n \in Children(stack[k].dir)
  BY <1>2 DEF Top
<1>13. Progress(e, p)
  BY <1>1, <1>5, <1>7, <1>9, <1>10, <1>11, <1>12, OneEntryTreated
<1>. QED  BY <1>13 DEF p

\* An entry has been scanned.
LEMMA ScanProgress ==
  ASSUME Typed, stack # << >>, Progress(db, stack), NEW type \in {"file", "dir", "loop"},
         Scanning(type), NEW e, Outside(db, e, Top.entry.node), Done(e, Top.entry.node)
  PROVE  Progress(e, EntryDone)
<1>. DEFINE p == EntryDone
            k == Len(stack)
            n == Top.entry.node
<1>1. Frames(db, stack) /\ k \in Nat
  BY TopFrame DEF Typed
<1>2. n \in Children(Top.dir) /\ Top.entry # NoEntry
  BY ScanningFacts
<1>3. NoEntry.node = Root
  BY DEF NoEntry
<1>4. /\ Frames(e, p) /\ p # << >> /\ Len(p) = Len(stack)
      /\ \A i \in 1..Len(stack) : i # Len(stack) => p[i] = stack[i]
      /\ p[Len(stack)] =
              [dir |-> Top.dir, single |-> Top.single, mtime |-> Top.mtime,
               exclude |-> Top.exclude, todo |-> Top.todo, entry |-> NoEntry]
  BY EntryDoneFacts
<1>. HIDE DEF p
<1>5. /\ Steady(stack, k) /\ Top.exclude = ignore
      /\ Ahead(stack, k) = Top.todo \cup {Top.entry.node}
      /\ n \notin Top.todo
  BY <1>2, SteadyEntry
<1>6. /\ p[k].dir = stack[k].dir /\ p[k].exclude = ignore /\ p[k].entry = NoEntry
      /\ p[k].todo = Top.todo /\ ~(k < Len(p))
  BY <1>1, <1>4, <1>5 DEF Top
<1>7. Ahead(p, k) = Top.todo \cup {Root}
  BY <1>3, <1>6 DEF Ahead
<1>8. Steady(p, k)
  BY <1>5, <1>6 DEF Steady
<1>9. \A c \in Children(stack[k].dir) : c # Root
  BY TreeAssumption DEF Children
<1>10. n \in Children(stack[k].dir)
  BY <1>2 DEF Top
<1>11. TreatedAt(e, p, k, n)
  BY <1>5, <1>7, <1>9, <1>10 DEF TreatedAt
<1>12. \A c \in Children(stack[k].dir) : c # n => (c \in Ahead(p, k) <=> c \in Ahead(stack, k))
  BY <1>5, <1>7, <1>9
<1>. HIDE DEF n
<1>13. Progress(e, p)
  <2>1. Outside(db, e, n)
    BY DEF n
  <2>. QED  BY <1>1, <1>4, <1>6, <1>8, <1>10, <1>11, <1>12, <2>1, OneEntryTreated
<1>. QED  BY <1>13 DEF p

\* While the music directory and the mode stay the same, so does what is right.
LEMMA SettledSeen ==
  ASSUME fs' = fs, ignore' = ignore, mode' = mode
  PROVE  /\ (\A n \in Nodes : Right(db', n)) => (\A n \in Nodes : Right(db, n)')
         /\ ArchivesTrue(db') => ArchivesTrue(db)'
         /\ Progress(db', stack') => Progress(db, stack)'
<1>1. /\ \A n : Visible(n)' <=> Visible(n)
      /\ \A n : Reachable(n)' <=> Reachable(n)
      /\ \A n : Readable(n)' <=> Readable(n)
      /\ \A c : ShouldInclude(c)' <=> ShouldInclude(c)
      /\ \A n : OpenDir(n)' <=> OpenDir(n)
  BY DEF Visible, Reachable, Readable, ShouldInclude, OpenDir
<1>2. \A n : Held(n)' = Held(n)
  BY DEF Held, Readable, ShouldInclude
<1>3. ExpectedSongs' = ExpectedSongs /\ \A n : ExpectedTracks(n)' = ExpectedTracks(n)
  BY <1>1, <1>2 DEF ExpectedSongs, ExpectedTracks
<1>4. \A n : TracksRight(db', n) <=> TracksRight(db, n)'
  BY <1>3 DEF TracksRight, TracksIn
<1>5. \A n : Right(db', n) <=> Right(db, n)'
  BY <1>3, <1>4 DEF Right
<1>6. \A n : DirDone(db', n) <=> DirDone(db, n)'
  BY <1>1, <1>3, <1>4, <1>5 DEF DirDone
<1>7. \A n : Done(db', n) <=> Done(db, n)'
  BY <1>3, <1>6 DEF Done
<1>8. \A n : Fallow(db', n) <=> Fallow(db, n)'
  BY DEF Fallow
<1>9. \A i : Steady(stack', i) <=> Steady(stack, i)'
  BY <1>1 DEF Steady
<1>10. \A i : Treated(db', stack', i) <=> Treated(db, stack, i)'
  BY <1>7, <1>8 DEF Treated, TreatedAt, Ahead
<1>11. Progress(db', stack') => Progress(db, stack)'
  BY <1>9, <1>10 DEF Progress
<1>12. ArchivesTrue(db') => ArchivesTrue(db)'
  BY DEF ArchivesTrue
<1>. QED  BY <1>5, <1>11, <1>12

\* A step of a walk that goes on.
LEMMA SettledByWalk ==
  ASSUME Settled, UNCHANGED <<environment, process>>, stack # << >>, stack' # << >>,
         undisturbed => ArchivesTrue(db') /\ Progress(db', stack')
  PROVE  Settled'
<1>1. /\ fs' = fs /\ ignore' = ignore /\ mode' = mode /\ undisturbed' = undisturbed
      /\ cancel' = cancel
  BY DEF environment, process
<1>2. /\ ArchivesTrue(db') => ArchivesTrue(db)'
      /\ Progress(db', stack') => Progress(db, stack)'
  BY <1>1, SettledSeen
<1>. QED  BY <1>1, <1>2 DEF Settled

\* An archive that is not touched stays true.
LEMMA ArchivesKept ==
  ASSUME NEW d, ArchivesTrue(d), NEW e, Proper(e), NEW n \in Nodes, Changed(d, e, n),
         n \in DOMAIN e.dirs /\ e.dirs[n].device = "archive" /\ e.dirs[n].mtime = fs[n].mtime =>
           e.dirs[n].tracks = fs[n].tracks \/ ~fs[n].access
  PROVE  ArchivesTrue(e)
<1>1. ASSUME NEW m \in DOMAIN e.dirs, m # n PROVE m \in DOMAIN d.dirs /\ e.dirs[m] = d.dirs[m]
  <2>1. m \in Nodes
    BY Fields DEF Proper
  <2>2. SameAt(d, e, m) \/ LessAt(d, e, m)
    BY <1>1, <2>1 DEF Changed
  <2>. QED  BY <1>1, <2>2 DEF SameAt, LessAt
<1>. QED  BY <1>1 DEF ArchivesTrue

\* Nor do they become false in a weaker database.
LEMMA ArchivesWeaker ==
  ASSUME NEW d, ArchivesTrue(d), NEW e, Weaker(d, e)
  PROVE  ArchivesTrue(e)
  BY DEF ArchivesTrue, Weaker

\* SkipEntry leaves the walk settled.
LEMMA SkipEntrySettled ==
  ASSUME Typed, History, Settled, NEW n \in Nodes, SkipEntry(n)
  PROVE  Settled'
<1>1. /\ stack # << >> /\ n \in Children(Top.dir) /\ n \in Top.todo /\ Top.entry = NoEntry
      /\ Top.todo \ {n} \in SUBSET Children(Top.dir)
  BY ReadingFacts DEF SkipEntry, Reading
<1>2. /\ stack' = SetEntry(Top.todo \ {n}, NoEntry) /\ db' = db /\ n \in Top.exclude
      /\ UNCHANGED <<environment, process>>
  BY DEF SkipEntry
<1>3. stack' # << >>
  BY <1>1, <1>2, SetEntryFacts, NoEntryIsStat DEF Typed
<1>4. ASSUME undisturbed PROVE ArchivesTrue(db') /\ Progress(db', stack')
  <2>1. ArchivesTrue(db) /\ Progress(db, stack)
    BY <1>1, <1>4 DEF Settled
  <2>2. n \in ignore /\ Fallow(db, n)
    BY <1>1, <1>2, <2>1, SteadyEntry
  <2>3. ~Visible(n) /\ ~OpenDir(n)
    BY <2>2 DEF Visible, OpenDir
  <2>4. Done(db, n)
    BY <2>2, <2>3, UnreachableExpectsNothing, FallowDone
  <2>5. Outside(db, db, n)
    BY DEF Outside, SameAt
  <2>6. Progress(db, SetEntry(Top.todo \ {n}, NoEntry))
    BY <1>1, <2>1, <2>4, <2>5, NoEntryIsStat, ReadProgress
  <2>. QED  BY <1>2, <2>1, <2>6
<1>. QED  BY <1>1, <1>2, <1>3, <1>4, SettledByWalk

\* DeleteEntry leaves the walk settled.
LEMMA DeleteEntrySettled ==
  ASSUME Typed, History, Settled, NEW n \in Nodes, DeleteEntry(n)
  PROVE  Settled'
<1>1. /\ stack # << >> /\ n \in Children(Top.dir) /\ n \in Top.todo /\ Top.entry = NoEntry
      /\ Top.todo \ {n} \in SUBSET Children(Top.dir) /\ Attached(db, n)
  BY ReadingFacts DEF DeleteEntry, Reading
<1>. DEFINE e == DeleteNameIn(db, n)
<1>2. /\ stack' = SetEntry(Top.todo \ {n}, NoEntry) /\ db' = e
      /\ fs[n].type \in {"symlink", "absent", "broken"} /\ UNCHANGED <<environment, process>>
  BY DEF DeleteEntry, SkipSymlink
<1>3. stack' # << >>
  BY <1>1, <1>2, SetEntryFacts, NoEntryIsStat DEF Typed
<1>4. /\ Proper(e) /\ Attached(e, n) /\ Changed(db, e, n) /\ Leaf(e, n)
      /\ n \notin DOMAIN e.songs /\ n \notin DOMAIN e.dirs /\ n \notin DOMAIN e.lists
  BY <1>1, DeleteNameInFacts DEF Typed
<1>. HIDE DEF e
<1>5. ASSUME undisturbed PROVE ArchivesTrue(e) /\ Progress(e, stack')
  <2>1. ArchivesTrue(db) /\ Progress(db, stack)
    BY <1>1, <1>5 DEF Settled
  <2>2. Fallow(e, n)
    BY <1>4 DEF Fallow
  <2>3. ~Visible(n) /\ ~OpenDir(n)
    BY <1>2 DEF Visible, OpenDir, Readable
  <2>4. Done(e, n)
    BY <2>2, <2>3, UnreachableExpectsNothing, FallowDone
  <2>5. Outside(db, e, n)
    BY <1>4, ChangedIsOutside
  <2>6. Progress(e, SetEntry(Top.todo \ {n}, NoEntry))
    BY <1>1, <2>1, <2>4, <2>5, NoEntryIsStat, ReadProgress
  <2>7. ArchivesTrue(e)
    BY <1>4, <2>1, ArchivesKept
  <2>. QED  BY <1>2, <2>6, <2>7
<1>. QED  BY <1>1, <1>2, <1>3, <1>5, SettledByWalk

\* StatEntry leaves the walk settled.
LEMMA StatEntrySettled ==
  ASSUME Typed, History, Settled, NEW n \in Nodes, StatEntry(n)
  PROVE  Settled'
<1>. DEFINE v == [node |-> n, type |-> fs[n].type, mtime |-> fs[n].mtime]
<1>1. /\ stack # << >> /\ n \in Children(Top.dir) /\ n \in Top.todo /\ Top.entry = NoEntry
      /\ Top.todo \ {n} \in SUBSET Children(Top.dir)
  BY ReadingFacts DEF StatEntry, Reading
<1>2. /\ stack' = SetEntry(Top.todo \ {n}, v) /\ db' = db /\ n \notin Top.exclude
      /\ fs[n].type \in {"file", "dir", "loop"} /\ UNCHANGED <<environment, process>>
  BY DEF StatEntry
<1>3. fs \in [Nodes -> Entry] /\ Frames(db, stack)
  BY DEF Typed, Scalars
<1>4. fs[n].mtime \in 0..MaxChanges
  BY <1>3, EntryFields
<1>5. /\ v \in Stat /\ v.type # "none" /\ v.node = n /\ v.type = fs[n].type
      /\ v.mtime = fs[n].mtime
  BY <1>2, <1>4 DEF Stat
<1>. HIDE DEF v
<1>6. stack' # << >>
  BY <1>1, <1>2, <1>3, <1>5, SetEntryFacts
<1>7. ASSUME undisturbed PROVE ArchivesTrue(db') /\ Progress(db', stack')
  <2>1. ArchivesTrue(db) /\ Progress(db, stack)
    BY <1>1, <1>7 DEF Settled
  <2>2. n \notin ignore /\ Fallow(db, n)
    BY <1>1, <1>2, <2>1, SteadyEntry
  <2>3. Outside(db, db, n)
    BY DEF Outside, SameAt
  <2>4. Progress(db, SetEntry(Top.todo \ {n}, v))
    BY <1>1, <1>5, <2>1, <2>2, <2>3, ReadProgress
  <2>. QED  BY <1>2, <2>1, <2>4
<1>. QED  BY <1>1, <1>2, <1>6, <1>7, SettledByWalk

\* A scan of the entry of an undisturbed walk: what is known, and what is left to show.
LEMMA ScanSettled ==
  ASSUME Typed, History, Settled, NEW type \in {"file", "dir", "loop"}, Scanning(type),
         Proper(db'), Outside(db, db', Top.entry.node), stack' = EntryDone,
         UNCHANGED <<environment, process>>,
         undisturbed /\ ArchivesTrue(db) /\ Fallow(db, Top.entry.node) /\ Reachable(Top.entry.node)
           /\ Top.entry.node \notin ignore /\ Top.entry.mtime = fs[Top.entry.node].mtime
           /\ fs[Top.entry.node].type = type =>
             ArchivesTrue(db') /\ Done(db', Top.entry.node)
  PROVE  Settled'
<1>1. stack # << >> /\ Top.entry.node \in Children(Top.dir) /\ Top.entry # NoEntry
      /\ Top.entry.type = type
  BY ScanningFacts DEF Scanning
<1>2. stack' # << >>
  BY EntryDoneFacts
<1>3. ASSUME undisturbed PROVE ArchivesTrue(db') /\ Progress(db', stack')
  <2>1. ArchivesTrue(db) /\ Progress(db, stack)
    BY <1>1, <1>3 DEF Settled
  <2>2. /\ Reachable(Top.entry.node) /\ Fallow(db, Top.entry.node)
        /\ Top.entry.node \notin ignore /\ Top.entry.mtime = fs[Top.entry.node].mtime
        /\ fs[Top.entry.node].type = type
    BY <1>1, <2>1, SteadyEntry
  <2>3. ArchivesTrue(db') /\ Done(db', Top.entry.node)
    BY <1>3, <2>1, <2>2
  <2>4. Progress(db', EntryDone)
    BY <1>1, <2>1, <2>3, ScanProgress
  <2>. QED  BY <2>3, <2>4
<1>. QED  BY <1>1, <1>2, <1>3, SettledByWalk

\* AncestorLoop leaves the walk settled.
LEMMA AncestorLoopSettled ==
  ASSUME Typed, History, Settled, AncestorLoop
  PROVE  Settled'
<1>. DEFINE n == Top.entry.node
<1>1. /\ Scanning("loop") /\ db' = db /\ stack' = EntryDone /\ UNCHANGED <<environment, process>>
  BY DEF AncestorLoop
<1>2. n \in Nodes /\ Proper(db)
  BY <1>1, ScanningFacts DEF Typed
<1>3. Outside(db, db, n)
  BY DEF Outside, SameAt
<1>. HIDE DEF n
<1>4. ASSUME Fallow(db, n), fs[n].type = "loop" PROVE Done(db, n)
  <2>1. ~Visible(n) /\ ~OpenDir(n)
    BY <1>4 DEF Visible, OpenDir, Readable
  <2>. QED  BY <1>2, <1>4, <2>1, UnreachableExpectsNothing, FallowDone
<1>. QED  BY <1>1, <1>2, <1>3, <1>4, ScanSettled DEF n

\* A file in a directory the walk is in, found there by stat().
FileFound(n, t) ==
  /\ fs[n].type = "file" /\ fs[n].mtime = t /\ Reachable(n) /\ n \notin ignore

\* What a full scan would find of it.
LEMMA FoundFacts ==
  ASSUME NEW n \in Nodes, NEW t, FileFound(n, t)
  PROVE  /\ ~OpenDir(n) /\ (Visible(n) <=> fs[n].access) /\ (Readable(n) <=> fs[n].access)
         /\ n \in ExpectedSongs <=>
              /\ fs[n].access /\ Kind[n] \in {"song", "container"}
              /\ Kind[n] = "container" => Included(n) = {}
              /\ fs[n].plain # "bad" /\ ShouldInclude(fs[n].plain)
         /\ Kind[n] = "container" => ExpectedTracks(n) = IF fs[n].access THEN Included(n) ELSE {}
         /\ Kind[n] = "archive" => ExpectedTracks(n) = IF fs[n].access THEN fs[n].tracks ELSE {}
<1>1. ~OpenDir(n) /\ (Visible(n) <=> fs[n].access) /\ (Readable(n) <=> fs[n].access)
  BY DEF FileFound, OpenDir, Visible, Readable
<1>2. fs[n].access => Held(n) = Included(n)
  BY <1>1 DEF Held, Included
<1>3. n \in ExpectedSongs <=>
              /\ fs[n].access /\ Kind[n] \in {"song", "container"}
              /\ Kind[n] = "container" => Included(n) = {}
              /\ fs[n].plain # "bad" /\ ShouldInclude(fs[n].plain)
  BY <1>1, <1>2 DEF ExpectedSongs
<1>4. Kind[n] = "container" => ExpectedTracks(n) = IF fs[n].access THEN Included(n) ELSE {}
  BY <1>1, <1>2 DEF ExpectedTracks
<1>5. Kind[n] = "archive" => ExpectedTracks(n) = IF fs[n].access THEN fs[n].tracks ELSE {}
  BY <1>1 DEF ExpectedTracks
<1>. QED  BY <1>1, <1>3, <1>4, <1>5

\* A file is done with if its song and its directory are.
LEMMA FileDone ==
  ASSUME NEW e, NEW n \in Nodes, NEW t, FileFound(n, t),
         n \in ExpectedSongs <=> (n \in DOMAIN e.songs /\ e.songs[n].mark),
         n \in ExpectedSongs => e.songs[n].channels = fs[n].plain,
         n \in DOMAIN e.dirs /\ e.dirs[n].mark => Leaf(e, n) /\ TracksRight(e, n),
         ~(n \in DOMAIN e.dirs /\ e.dirs[n].mark) /\ Kind[n] \in {"container", "archive"} =>
           ExpectedTracks(n) = {} \/ (Kind[n] = "archive" /\ ~fs[n].access)
  PROVE  Done(e, n)
<1>1. ~OpenDir(n) /\ fs[n].type = "file"
  BY FoundFacts DEF FileFound
<1>2. \A m \in Below(n) : ~Reachable(m)
  BY <1>1, NothingBelow
<1>3. Leaf(e, n) => \A m \in Below(n) : Right(e, m)
  BY <1>1, LeafRight
<1>4. DirDone(e, n)
  BY <1>1, <1>2, <1>3 DEF DirDone
<1>. QED  BY <1>4 DEF Done

\* The song part of a file that was scanned as one song.
LEMMA PlainSongDone ==
  ASSUME NEW d, Proper(d), NEW m, NEW n \in Nodes, NEW t, FileFound(n, t), fs[n].access,
         HonestAt(d, n), Fallow(d, n), Kind[n] \in {"song", "container"},
         NEW r, SongOutcome(d, m, n, t, r),
         \/ n \in DOMAIN d.songs /\ d.songs[n].mtime = t /\ ~walk_discard
         \/ Kind[n] = "container" => Included(n) = {}
  PROVE  /\ n \in ExpectedSongs <=> (n \in DOMAIN r.db.songs /\ r.db.songs[n].mark)
         /\ n \in ExpectedSongs => r.db.songs[n].channels = fs[n].plain
         /\ Kind[n] = "container" => Included(n) = {}
<1>. DEFINE known == n \in DOMAIN d.songs
            current == known /\ d.songs[n].mtime = t /\ ~walk_discard
            recognized == Plain(n) # "bad"
            included == recognized /\ ShouldInclude(Plain(n))
            e == r.db
<1>1. /\ current => n \in DOMAIN e.songs /\ e.songs[n] = [d.songs[n] EXCEPT !.mark = TRUE]
      /\ ~current /\ included =>
           n \in DOMAIN e.songs /\ e.songs[n].mark = TRUE /\ e.songs[n].channels = Plain(n)
      /\ ~current /\ ~included /\ recognized => n \notin DOMAIN e.songs
      /\ ~current /\ ~recognized => e = d
  BY DEF SongOutcome
<1>. HIDE DEF e
<1>2. Plain(n) = fs[n].plain
  BY FoundFacts, ReadableFacts
<1>3. n \in ExpectedSongs <=>
              /\ Kind[n] = "container" => Included(n) = {}
              /\ fs[n].plain # "bad" /\ ShouldInclude(fs[n].plain)
  BY FoundFacts
<1>4. CASE current
  <2>1. d.songs[n] \in Song
    BY <1>4, Fields DEF Proper
  <2>2. e.songs[n].mark = TRUE /\ e.songs[n].channels = d.songs[n].channels
    BY <1>1, <1>4, <2>1, UnmarkedFields
  <2>3. HonestSong(n, d.songs[n]) /\ d.songs[n].mtime = fs[n].mtime
    BY <1>4 DEF HonestAt, FileFound
  <2>4. n \in ExpectedSongs /\ d.songs[n].channels = fs[n].plain
        /\ (Kind[n] = "container" => Included(n) = {})
    BY <1>3, <2>3 DEF HonestSong
  <2>. QED  BY <1>1, <1>4, <2>2, <2>4 DEF e
<1>5. CASE ~current /\ included
  BY <1>1, <1>2, <1>3, <1>5 DEF e
<1>6. CASE ~current /\ ~included /\ recognized
  BY <1>1, <1>2, <1>3, <1>6 DEF e
<1>7. CASE ~current /\ ~recognized
  BY <1>1, <1>2, <1>3, <1>7 DEF e, Fallow
<1>. QED  BY <1>4, <1>5, <1>6, <1>7

\* UpdateContainerFile() of a container that has tracks, or had at this mtime.
LEMMA ContainerDone ==
  ASSUME Flags, Proper(db), RealParents(db), NEW n \in Nodes, Attached(db, n),
         NEW t \in 0..MaxChanges, FileFound(n, t), fs[n].access, HonestAt(db, n), Fallow(db, n),
         IsContainer(n, t), ~Kept(n)
  PROVE  Done(UpdateContainerFile(n, t).db, n)
<1>. DEFINE r == UpdateContainerFile(n, t)
            e == r.db
<1>1. /\ Proper(e) /\ Attached(e, n) /\ Changed(db, e, n) /\ SameSongAndList(db, e, n)
      /\ r.modified \in BOOLEAN
      /\ Kind[n] # "container" => e = db /\ r.modified = modified
      /\ Kind[n] = "container" /\ Unmodified(n, t, "container") =>
           /\ r.modified = modified /\ n \in DOMAIN e.dirs
           /\ e.dirs[n] = [db.dirs[n] EXCEPT !.mark = TRUE]
           /\ DOMAIN e.songs = DOMAIN db.songs /\ DOMAIN e.dirs = DOMAIN db.dirs
           /\ DOMAIN e.lists = DOMAIN db.lists
      /\ Kind[n] = "container" /\ ~Unmodified(n, t, "container") /\ ContainerScan(n) # {} =>
           /\ r.modified = TRUE /\ n \in DOMAIN e.dirs /\ Leaf(e, n)
           /\ e.dirs[n] = [mtime |-> t, mark |-> TRUE, device |-> "container",
                           tracks |-> ContainerScan(n)]
      /\ Kind[n] = "container" /\ ~Unmodified(n, t, "container") /\ ContainerScan(n) = {} =>
           /\ r.modified = (modified \/ n \in DOMAIN db.dirs)
           /\ n \notin DOMAIN e.dirs /\ Leaf(e, n)
  BY UpdateContainerFileFacts
<1>. HIDE DEF r
<1>2. Kind[n] = "container" /\ ContainerScan(n) = Included(n)
  BY FoundFacts, UnopenedFacts DEF IsContainer
<1>3. /\ n \in DOMAIN e.dirs /\ e.dirs[n].mark = TRUE /\ e.dirs[n].device = "container"
      /\ e.dirs[n].tracks = Included(n) /\ Included(n) # {} /\ Leaf(e, n)
  <2>1. CASE Unmodified(n, t, "container")
    <3>1. n \in DOMAIN db.dirs /\ db.dirs[n].mtime = t /\ db.dirs[n].device = "container"
      BY <2>1 DEF Unmodified
    <3>2. db.dirs[n] \in Directory
      BY <3>1, Fields DEF Proper
    <3>3. /\ n \in DOMAIN e.dirs /\ e.dirs[n].mark = TRUE /\ e.dirs[n].device = "container"
          /\ e.dirs[n].tracks = db.dirs[n].tracks
      BY <1>1, <1>2, <2>1, <3>1, <3>2, UnmarkedFields
    <3>4. db.dirs[n].tracks = Included(n) /\ Included(n) # {}
      BY <3>1 DEF HonestAt, HonestDir, FileFound
    <3>5. Leaf(db, n)
      BY <3>1, VirtualLeaf
    <3>6. Leaf(e, n)
      BY <1>1, <3>5 DEF Changed, LessAt, Leaf
    <3>. QED  BY <3>3, <3>4, <3>6
  <2>2. CASE ~Unmodified(n, t, "container") /\ ContainerScan(n) # {}
    BY <1>1, <1>2, <2>2
  <2>. QED  BY <2>1, <2>2 DEF IsContainer
<1>4. n \notin ExpectedSongs /\ ExpectedTracks(n) = Included(n)
  BY <1>2, <1>3, FoundFacts
<1>5. TracksRight(e, n)
  BY <1>2, <1>3, <1>4 DEF TracksRight, TracksIn
<1>6. ~(n \in DOMAIN e.songs /\ e.songs[n].mark)
  BY <1>1 DEF Fallow, SameSongAndList
<1>7. Done(e, n)
  BY <1>3, <1>4, <1>5, <1>6, FileDone
<1>. QED  BY <1>7 DEF r

\* UpdateSongFile() has done with the file.
LEMMA SongFileDone ==
  ASSUME Flags, Proper(db), RealParents(db), NEW n \in Nodes, Attached(db, n),
         NEW t \in 0..MaxChanges, FileFound(n, t), HonestAt(db, n), Fallow(db, n),
         Kind[n] \in {"song", "container"}, ~Kept(n)
  PROVE  Done(UpdateSongFile(n, t).db, n)
<1>. DEFINE r == UpdateSongFile(n, t)
            c == UpdateContainerFile(n, t)
            current == n \in DOMAIN db.songs /\ db.songs[n].mtime = t /\ ~walk_discard
<1>1. \/ ~fs[n].access /\ r.db = db /\ r.modified = modified
      \/ fs[n].access /\ current /\ r = UpdatePlainSong(db, modified, n, t)
      \/ fs[n].access /\ ~current /\ IsContainer(n, t) /\ r = c
      \/ fs[n].access /\ ~current /\ ~IsContainer(n, t)
           /\ r = UpdatePlainSong(c.db, c.modified, n, t)
  BY UpdateSongFileFacts
<1>2. /\ Proper(c.db) /\ Attached(c.db, n) /\ Changed(db, c.db, n) /\ SameSongAndList(db, c.db, n)
      /\ c.modified \in BOOLEAN
      /\ Kind[n] # "container" => c.db = db
      /\ Kind[n] = "container" /\ ~Unmodified(n, t, "container") /\ ContainerScan(n) = {} =>
           n \notin DOMAIN c.db.dirs
  BY UpdateContainerFileFacts
<1>3. fs[n].access /\ IsContainer(n, t) => Done(c.db, n)
  BY ContainerDone
<1>. HIDE DEF r, c
<1>4. CASE ~fs[n].access /\ r.db = db
  <2>1. ~Visible(n) /\ ~OpenDir(n)
    BY <1>4, FoundFacts
  <2>2. Done(db, n)
    BY <2>1, UnreachableExpectsNothing, FallowDone
  <2>. QED  BY <1>4, <2>2 DEF r
<1>5. CASE fs[n].access /\ current /\ r = UpdatePlainSong(db, modified, n, t)
  <2>1. modified \in BOOLEAN
    BY DEF Flags
  <2>2. SongOutcome(db, modified, n, t, r)
    BY <1>5, <2>1, UpdatePlainSongFacts
  <2>3. /\ n \in ExpectedSongs <=> (n \in DOMAIN r.db.songs /\ r.db.songs[n].mark)
        /\ n \in ExpectedSongs => r.db.songs[n].channels = fs[n].plain
        /\ Kind[n] = "container" => Included(n) = {}
    BY <1>5, <2>2, PlainSongDone
  <2>4. r.db.dirs = db.dirs
    BY <2>2 DEF SongOutcome
  <2>5. ~(n \in DOMAIN r.db.dirs /\ r.db.dirs[n].mark)
    BY <2>4 DEF Fallow
  <2>6. Kind[n] \in {"container", "archive"} => ExpectedTracks(n) = {}
    BY <1>5, <2>3, FoundFacts
  <2>7. Done(r.db, n)
    BY <2>3, <2>5, <2>6, FileDone
  <2>. QED  BY <2>7 DEF r
<1>6. CASE fs[n].access /\ IsContainer(n, t) /\ r = c
  BY <1>3, <1>6 DEF r
<1>7. CASE fs[n].access /\ ~IsContainer(n, t) /\ r = UpdatePlainSong(c.db, c.modified, n, t)
  <2>1. SongOutcome(c.db, c.modified, n, t, r)
    BY <1>2, <1>7, UpdatePlainSongFacts
  <2>2. Kind[n] = "container" => Included(n) = {} /\ n \notin DOMAIN c.db.dirs
    BY <1>2, <1>7, FoundFacts, UnopenedFacts DEF IsContainer
  <2>3. Fallow(c.db, n) /\ ~(n \in DOMAIN c.db.dirs /\ c.db.dirs[n].mark)
    BY <1>2, <2>2 DEF Fallow, SameSongAndList
  <2>4. HonestAt(c.db, n)
    BY <1>2, <2>2 DEF HonestAt, SameSongAndList
  <2>5. /\ n \in ExpectedSongs <=> (n \in DOMAIN r.db.songs /\ r.db.songs[n].mark)
        /\ n \in ExpectedSongs => r.db.songs[n].channels = fs[n].plain
        /\ Kind[n] = "container" => Included(n) = {}
    BY <1>2, <1>7, <2>1, <2>2, <2>3, <2>4, PlainSongDone
  <2>6. ~(n \in DOMAIN r.db.dirs /\ r.db.dirs[n].mark)
    BY <2>1, <2>3 DEF SongOutcome
  <2>7. Kind[n] \in {"container", "archive"} => ExpectedTracks(n) = {}
    BY <1>7, <2>5, FoundFacts
  <2>8. Done(r.db, n)
    BY <2>5, <2>6, <2>7, FileDone
  <2>. QED  BY <2>8 DEF r
<1>. QED  BY <1>1, <1>4, <1>5, <1>6, <1>7

\* UpdateArchiveFile() has done with the file.
LEMMA ArchiveDone ==
  ASSUME Flags, Proper(db), RealParents(db), NEW n \in Nodes, Attached(db, n),
         NEW t \in 0..MaxChanges, FileFound(n, t), HonestAt(db, n), Fallow(db, n),
         Kind[n] = "archive", ArchivesTrue(db)
  PROVE  LET e == UpdateArchiveFile(n, t).db
         IN Done(e, n) /\ (n \in DOMAIN e.dirs => e.dirs[n].tracks = fs[n].tracks \/ ~fs[n].access)
<1>. DEFINE r == UpdateArchiveFile(n, t)
            e == r.db
<1>1. /\ Proper(e) /\ Attached(e, n) /\ Changed(db, e, n) /\ SameSongAndList(db, e, n)
      /\ r.modified \in BOOLEAN
      /\ n \in DOMAIN e.dirs
      /\ Unmodified(n, t, "archive") =>
           /\ r.modified = modified
           /\ e.dirs[n] = [db.dirs[n] EXCEPT !.mark = TRUE]
           /\ DOMAIN e.songs = DOMAIN db.songs /\ DOMAIN e.dirs = DOMAIN db.dirs
           /\ DOMAIN e.lists = DOMAIN db.lists
      /\ ~Unmodified(n, t, "archive") =>
           /\ r.modified = (modified \/ n \in DOMAIN db.dirs \/ ArchiveTracks(n) # {})
           /\ Leaf(e, n)
           /\ e.dirs[n] = [mtime |-> t, mark |-> TRUE, device |-> "archive",
                           tracks |-> ArchiveTracks(n)]
  BY UpdateArchiveFileFacts
<1>. HIDE DEF r
<1>2. /\ e.dirs[n].mark = TRUE /\ e.dirs[n].device = "archive" /\ Leaf(e, n)
      /\ e.dirs[n].tracks = fs[n].tracks \/ ~fs[n].access
  <2>1. CASE Unmodified(n, t, "archive")
    <3>1. n \in DOMAIN db.dirs /\ db.dirs[n].mtime = t /\ db.dirs[n].device = "archive"
      BY <2>1 DEF Unmodified
    <3>2. db.dirs[n] \in Directory
      BY <3>1, Fields DEF Proper
    <3>3. /\ e.dirs[n].mark = TRUE /\ e.dirs[n].device = "archive"
          /\ e.dirs[n].tracks = db.dirs[n].tracks
      BY <1>1, <2>1, <3>1, <3>2, UnmarkedFields
    <3>4. db.dirs[n].tracks = fs[n].tracks \/ ~fs[n].access
      BY <3>1 DEF ArchivesTrue, FileFound
    <3>5. Leaf(db, n)
      BY <3>1, VirtualLeaf
    <3>6. Leaf(e, n)
      BY <1>1, <3>5 DEF Changed, LessAt, Leaf
    <3>. QED  BY <3>3, <3>4, <3>6
  <2>2. CASE ~Unmodified(n, t, "archive")
    <3>1. fs[n].access => ArchiveTracks(n) = fs[n].tracks
      BY FoundFacts, ReadableFacts
    <3>. QED  BY <1>1, <2>2, <3>1
  <2>. QED  BY <2>1, <2>2
<1>3. n \notin ExpectedSongs /\ (fs[n].access => ExpectedTracks(n) = fs[n].tracks)
  BY FoundFacts
<1>4. TracksRight(e, n)
  BY <1>1, <1>2, <1>3 DEF TracksRight, TracksIn
<1>5. ~(n \in DOMAIN e.songs /\ e.songs[n].mark)
  BY <1>1 DEF Fallow, SameSongAndList
<1>6. Done(e, n)
  BY <1>1, <1>2, <1>3, <1>4, <1>5, FileDone
<1>. QED  BY <1>2, <1>6 DEF r

\* UpdatePlaylistFile() has done with the file.
LEMMA PlaylistDone ==
  ASSUME Flags, Proper(db), RealParents(db), NEW n \in Nodes, Attached(db, n),
         NEW t \in 0..MaxChanges, FileFound(n, t), Fallow(db, n), Kind[n] = "cue", NEW media
  PROVE  Done(UpdatePlaylistFile(n, t, media).db, n)
<1>. DEFINE r == UpdatePlaylistFile(n, t, media)
            e == r.db
<1>1. /\ Proper(e) /\ Attached(e, n) /\ Changed(db, e, n)
      /\ r.modified \in BOOLEAN /\ (modified => r.modified)
      /\ (n \in DOMAIN e.songs <=> n \in DOMAIN db.songs)
      /\ (n \in DOMAIN db.songs => e.songs[n] = db.songs[n])
      /\ \/ r.db = db /\ r.modified = modified
         \/ /\ n \in DOMAIN db.dirs /\ n \in DOMAIN e.dirs
            /\ db.dirs[n].device = "playlist"
            /\ e.dirs[n] = [db.dirs[n] EXCEPT !.mark = TRUE]
            /\ DOMAIN e.songs = DOMAIN db.songs /\ DOMAIN e.dirs = DOMAIN db.dirs
         \/ /\ n \in DOMAIN e.dirs /\ Leaf(e, n)
            /\ e.dirs[n] = [mtime |-> t, mark |-> TRUE, device |-> "playlist",
                            tracks |-> fs[n].targets]
         \/ n \notin DOMAIN e.dirs /\ Leaf(e, n)
  BY UpdatePlaylistFileFacts
<1>. HIDE DEF r
<1>2. n \notin ExpectedSongs /\ TracksRight(e, n)
  BY FoundFacts DEF TracksRight
<1>3. ~(n \in DOMAIN e.songs /\ e.songs[n].mark)
  BY <1>1 DEF Fallow
<1>4. n \in DOMAIN e.dirs /\ e.dirs[n].mark => Leaf(e, n)
  <2>1. n \in DOMAIN db.dirs /\ db.dirs[n].device = "playlist" => Leaf(db, n)
    BY VirtualLeaf
  <2>2. Leaf(db, n) => Leaf(e, n)
    BY <1>1 DEF Changed, LessAt, Leaf
  <2>. QED  BY <1>1, <2>1, <2>2 DEF Fallow
<1>5. Done(e, n)
  BY <1>2, <1>3, <1>4, FileDone
<1>. QED  BY <1>5 DEF r

\* RegularFile leaves the walk settled.
LEMMA RegularFileSettled ==
  ASSUME Typed, History, Settled, RegularFile, ~Kept(Top.entry.node)
  PROVE  Settled'
<1>. DEFINE n == Top.entry.node
            t == Top.entry.mtime
<1>1. /\ n \in Nodes /\ Attached(db, n) /\ t \in 0..MaxChanges /\ Scanning("file")
  BY ScanningFacts DEF RegularFile
<1>2. PICK media : db' = UpdateRegularFile(n, t, media).db
  BY DEF RegularFile
<1>3. Flags /\ Proper(db) /\ RealParents(db)
  BY DEF Typed, Scalars, Flags, History, Past
<1>4. FileStamp(n, t)
  BY <1>1, ScanningStamped DEF FileStamp
<1>5. HonestAt(db, n)
  BY <1>1 DEF History, Past, Honest
<1>5b. ~Kept(n)
  OBVIOUS
<1>. DEFINE r == UpdateRegularFile(n, t, media)
            e == r.db
<1>6. HonestAt(e, n)
  BY <1>1, <1>3, <1>4, <1>5, RegularFileHonest
<1>7. /\ Proper(r.db) /\ Attached(r.db, n) /\ Changed(db, r.db, n)
      /\ r.modified \in BOOLEAN
      /\ \/ Kind[n] \in {"song", "container"} /\ r = UpdateSongFile(n, t)
         \/ Kind[n] = "archive" /\ r = UpdateArchiveFile(n, t)
         \/ Kind[n] = "cue" /\ r = UpdatePlaylistFile(n, t, media)
         \/ /\ Kind[n] \notin {"song", "container", "archive", "cue"}
            /\ r.db = db /\ r.modified = modified
  BY <1>1, <1>3, UpdateRegularFileFacts
<1>8. db' = e /\ stack' = EntryDone /\ UNCHANGED <<environment, process>>
  BY <1>2 DEF RegularFile
<1>. HIDE DEF r
<1>9. Outside(db, e, n)
  BY <1>7, ChangedIsOutside
<1>10. ASSUME ArchivesTrue(db), Fallow(db, n), FileFound(n, t)
       PROVE  ArchivesTrue(e) /\ Done(e, n)
  <2>. HIDE DEF n, t
  <2>1. CASE Kind[n] \in {"song", "container"} /\ r = UpdateSongFile(n, t)
    <3>1. Done(UpdateSongFile(n, t).db, n)
      BY <1>1, <1>3, <1>5, <1>5b, <1>10, <2>1, SongFileDone
    <3>2. n \in DOMAIN e.dirs => e.dirs[n].device # "archive"
      BY <1>6, <2>1 DEF HonestAt, HonestDir
    <3>3. ArchivesTrue(e)
      BY <1>1, <1>7, <1>10, <3>2, ArchivesKept
    <3>. QED  BY <2>1, <3>1, <3>3
  <2>2. CASE Kind[n] = "archive" /\ r = UpdateArchiveFile(n, t)
    <3>1. /\ Done(UpdateArchiveFile(n, t).db, n)
          /\ n \in DOMAIN UpdateArchiveFile(n, t).db.dirs =>
               UpdateArchiveFile(n, t).db.dirs[n].tracks = fs[n].tracks \/ ~fs[n].access
      BY <1>1, <1>3, <1>5, <1>10, <2>2, ArchiveDone
    <3>2. Done(e, n) /\ (n \in DOMAIN e.dirs => e.dirs[n].tracks = fs[n].tracks \/ ~fs[n].access)
      BY <2>2, <3>1
    <3>3. ArchivesTrue(e)
      BY <1>1, <1>7, <1>10, <3>2, ArchivesKept
    <3>. QED  BY <3>2, <3>3
  <2>3. CASE Kind[n] = "cue" /\ r = UpdatePlaylistFile(n, t, media)
    <3>1. Done(UpdatePlaylistFile(n, t, media).db, n)
      BY <1>1, <1>3, <1>10, <2>3, PlaylistDone
    <3>2. n \in DOMAIN e.dirs => e.dirs[n].device # "archive"
      BY <1>6, <2>3 DEF HonestAt, HonestDir
    <3>3. ArchivesTrue(e)
      BY <1>1, <1>7, <1>10, <3>2, ArchivesKept
    <3>. QED  BY <2>3, <3>1, <3>3
  <2>4. CASE Kind[n] \notin {"song", "container", "archive", "cue"} /\ e = db
    <3>1. n \notin ExpectedSongs /\ ~OpenDir(n)
      BY <1>1, <1>10, <2>4, FoundFacts
    <3>2. Done(db, n)
      BY <1>1, <1>10, <2>4, <3>1, FallowDone
    <3>. QED  BY <1>10, <2>4, <3>2
  <2>. QED  BY <1>7, <2>1, <2>2, <2>3, <2>4
<1>11. Proper(db') /\ Outside(db, db', n)
  BY <1>7, <1>8, <1>9
<1>12. ASSUME undisturbed, ArchivesTrue(db), Fallow(db, n), Reachable(n), n \notin ignore,
              t = fs[n].mtime, fs[n].type = "file"
       PROVE  ArchivesTrue(db') /\ Done(db', n)
  BY <1>8, <1>10, <1>12 DEF FileFound
<1>. QED  BY <1>1, <1>8, <1>11, <1>12, ScanSettled

\* A child directory keeps its mark, and a new one has none.
LEMMA RealChildUnmarked ==
  ASSUME NEW d, Proper(d), NEW n \in Nodes, Fallow(d, n)
  PROVE  n \in DOMAIN MakeRealChild(d, n).dirs => ~MakeRealChild(d, n).dirs[n].mark
<1>. DEFINE e == MakeRealChild(d, n)
<1>1. /\ d.dirs \in Partial(Directory) /\ \A m \in DOMAIN d.dirs : d.dirs[m] \in Directory
  BY Fields DEF Proper
<1>2. CASE n \in DOMAIN d.dirs
  <2>. DEFINE c == [d.dirs EXCEPT ![n].device = "real"]
  <2>1. e = [d EXCEPT !.dirs = c]
    BY <1>2, Zenon DEF MakeRealChild
  <2>2. e.dirs = c
    BY <2>1, Updates DEF Proper
  <2>3. d.dirs = [m \in DOMAIN d.dirs |-> d.dirs[m]]
    BY <1>1, PartialFacts
  <2>4. c[n] = [d.dirs[n] EXCEPT !.device = "real"]
    BY <1>2, <2>3
  <2>5. c[n].mark = d.dirs[n].mark
    BY <1>1, <1>2, <2>4 DEF Directory
  <2>. QED  BY <1>2, <2>2, <2>5 DEF Fallow
<1>3. CASE n \notin DOMAIN d.dirs
  <2>. DEFINE v == [mtime |-> 0, mark |-> FALSE, device |-> "real", tracks |-> {}]
  <2>1. e = [d EXCEPT !.dirs = With(d.dirs, n, v)]
    BY <1>3, Zenon DEF MakeRealChild
  <2>2. e.dirs = With(d.dirs, n, v)
    BY <2>1, Updates DEF Proper
  <2>3. With(d.dirs, n, v)[n] = v
    BY DEF With
  <2>. QED  BY <2>2, <2>3
<1>. QED  BY <1>2, <1>3

\* What the beginning of UpdateDirectory() leaves is as it was, or unmarked.
LEMMA EnteredItems ==
  ASSUME NEW d, Proper(d), NEW D, InTree(d, D), ignore \subseteq Nodes
  PROVE  LET e == Entered(d, D)
         IN /\ \A m \in DOMAIN e.songs :
                 /\ m \in DOMAIN d.songs
                 /\ IF Parent[m] = D THEN ~e.songs[m].mark ELSE e.songs[m] = d.songs[m]
            /\ \A m \in DOMAIN e.dirs :
                 /\ m \in DOMAIN d.dirs
                 /\ IF Parent[m] = D THEN ~e.dirs[m].mark ELSE e.dirs[m] = d.dirs[m]
<1>. DEFINE e == Entered(d, D)
            x == DOMAIN d.dirs \cap Children(D) \cap ignore
<1>1. /\ Proper(e) /\ InTree(e, D)
      /\ DOMAIN e.songs = (DOMAIN d.songs \ (Subtree(x) \ x)) \ (Children(D) \cap ignore)
      /\ DOMAIN e.dirs = DOMAIN d.dirs \ Subtree(x)
      /\ DOMAIN e.lists = DOMAIN d.lists \ (Subtree(x) \ x)
      /\ \A m \in DOMAIN e.songs : e.songs[m] =
           IF Parent[m] = D THEN [d.songs[m] EXCEPT !.mark = FALSE] ELSE d.songs[m]
      /\ \A m \in DOMAIN e.dirs : e.dirs[m] =
           IF Parent[m] = D THEN [d.dirs[m] EXCEPT !.mark = FALSE] ELSE d.dirs[m]
      /\ \A m \in DOMAIN e.lists : e.lists[m] =
           IF Parent[m] = D THEN [d.lists[m] EXCEPT !.mark = FALSE] ELSE d.lists[m]
      /\ \A m \in Nodes \ Subtree(Children(D)) : SameAt(d, e, m)
  BY EnteredFacts
<1>. HIDE DEF e, x
<1>2. /\ \A n \in DOMAIN d.songs : d.songs[n] \in Song
      /\ \A n \in DOMAIN d.dirs : d.dirs[n] \in Directory
  BY Fields DEF Proper
<1>3. ASSUME NEW m \in DOMAIN e.songs
      PROVE  /\ m \in DOMAIN d.songs
             /\ IF Parent[m] = D THEN ~e.songs[m].mark ELSE e.songs[m] = d.songs[m]
  <2>1. m \in DOMAIN d.songs /\ d.songs[m] \in Song
    BY <1>1, <1>2, <1>3
  <2>2. CASE Parent[m] = D
    <3>1. e.songs[m] = [d.songs[m] EXCEPT !.mark = FALSE]
      BY <1>1, <1>3, <2>2
    <3>2. e.songs[m].mark = FALSE
      BY <2>1, <3>1, UnmarkedFields
    <3>. QED  BY <2>1, <2>2, <3>2
  <2>3. CASE Parent[m] # D
    BY <1>1, <1>3, <2>1, <2>3
  <2>. QED  BY <2>2, <2>3
<1>4. ASSUME NEW m \in DOMAIN e.dirs
      PROVE  /\ m \in DOMAIN d.dirs
             /\ IF Parent[m] = D THEN ~e.dirs[m].mark ELSE e.dirs[m] = d.dirs[m]
  <2>1. m \in DOMAIN d.dirs /\ d.dirs[m] \in Directory
    BY <1>1, <1>2, <1>4
  <2>2. CASE Parent[m] = D
    <3>1. e.dirs[m] = [d.dirs[m] EXCEPT !.mark = FALSE]
      BY <1>1, <1>4, <2>2
    <3>2. e.dirs[m].mark = FALSE
      BY <2>1, <3>1, UnmarkedFields
    <3>. QED  BY <2>1, <2>2, <3>2
  <2>3. CASE Parent[m] # D
    BY <1>1, <1>4, <2>1, <2>3
  <2>. QED  BY <2>2, <2>3
<1>. QED  BY <1>3, <1>4 DEF e

\* The entries of a directory that UpdateDirectory() begins with.
LEMMA EnteredFallow ==
  ASSUME NEW d, Proper(d), NEW D, InTree(d, D), ignore \subseteq Nodes, NEW c \in Children(D)
  PROVE  Fallow(Entered(d, D), c)
<1>1. Parent[c] = D
  BY DEF Children
<1>. QED  BY <1>1, EnteredItems DEF Fallow

\* The frame for it.
LEMMA NewFrameTreated ==
  ASSUME NEW d, Proper(d), NEW D, InTree(d, D), ignore \subseteq Nodes, NEW s, NEW t,
         Len(s) \in Nat, s[Len(s)] = NewFrame(D, t), D # Root => OpenDir(D) /\ Reachable(D)
  PROVE  Steady(s, Len(s)) /\ Treated(Entered(d, D), s, Len(s))
<1>. DEFINE e == Entered(d, D)
            f == s[Len(s)]
<1>1. /\ f.dir = D /\ f.exclude = ignore /\ f.entry = NoEntry
      /\ f.todo = {n \in Children(D) : fs[n].type # "absent"} /\ ~(Len(s) < Len(s))
  BY DEF NewFrame
<1>2. Steady(s, Len(s))
  BY <1>1 DEF Steady
<1>3. Ahead(s, Len(s)) = f.todo \cup {Root}
  BY <1>1 DEF Ahead, NoEntry
<1>. HIDE DEF e
<1>4. ASSUME NEW c \in Children(D) PROVE TreatedAt(e, s, Len(s), c)
  <2>1. Fallow(e, c) /\ c \in Nodes /\ c # Root
    BY EnteredFallow, TreeAssumption DEF e, Children
  <2>2. CASE c \in f.todo
    BY <1>3, <2>1, <2>2 DEF TreatedAt
  <2>3. CASE c \notin f.todo
    <3>1. fs[c].type = "absent"
      BY <1>1, <2>3
    <3>2. ~Visible(c) /\ ~OpenDir(c)
      BY <3>1 DEF Visible, Readable, OpenDir
    <3>3. Done(e, c)
      BY <2>1, <3>2, UnreachableExpectsNothing, FallowDone
    <3>. QED  BY <1>3, <2>1, <2>3, <3>3 DEF TreatedAt
  <2>. QED  BY <2>2, <2>3
<1>5. Treated(e, s, Len(s))
  BY <1>1, <1>4 DEF Treated
<1>. QED  BY <1>2, <1>5 DEF e

\* UpdateDirectory() begins with a subdirectory.
LEMMA EnterProgress ==
  ASSUME Typed, stack # << >>, Progress(db, stack), Scanning("dir"),
         NEW e, Outside(db, e, Top.entry.node), Fallow(e, Top.entry.node), NEW p,
         Len(p) = Len(stack) + 1, \A i \in 1..Len(stack) : p[i] = EntryDone[i],
         p[Len(p)].dir = Top.entry.node, Steady(p, Len(p)), Treated(e, p, Len(p))
  PROVE  Progress(e, p)
<1>. DEFINE q == EntryDone
            k == Len(stack)
            n == Top.entry.node
<1>1. Frames(db, stack) /\ k \in Nat /\ k \in 1..k
  BY TopFrame DEF Typed
<1>2. n \in Children(Top.dir) /\ Top.entry # NoEntry
  BY ScanningFacts
<1>3. NoEntry.node = Root /\ n # Root
  BY <1>2, TreeAssumption DEF NoEntry, Children
<1>4. /\ Frames(e, q) /\ q # << >> /\ Len(q) = Len(stack)
      /\ \A i \in 1..Len(stack) : i # Len(stack) => q[i] = stack[i]
      /\ q[Len(stack)] =
              [dir |-> Top.dir, single |-> Top.single, mtime |-> Top.mtime,
               exclude |-> Top.exclude, todo |-> Top.todo, entry |-> NoEntry]
  BY EntryDoneFacts
<1>. HIDE DEF q
<1>5. /\ Steady(stack, k) /\ Top.exclude = ignore
      /\ Ahead(stack, k) = Top.todo \cup {Top.entry.node}
      /\ n \notin Top.todo
  BY <1>2, SteadyEntry
<1>6. \A i \in 1..k : p[i] = q[i]
  BY DEF q
<1>7. /\ p[k].dir = stack[k].dir /\ p[k].exclude = ignore /\ p[k].entry = NoEntry
      /\ p[k].todo = Top.todo /\ k < Len(p) /\ p[k + 1].dir = n
  BY <1>1, <1>4, <1>5, <1>6 DEF Top
<1>8. Ahead(p, k) = Top.todo \cup {Root} \cup {n}
  BY <1>3, <1>7 DEF Ahead
<1>9. Steady(p, k)
  BY <1>5, <1>7 DEF Steady
<1>10. ASSUME NEW i \in 1..k PROVE Steady(stack, i) /\ TreatedBut(e, stack, i, n)
  <2>1. Steady(stack, i) /\ Treated(db, stack, i)
    BY <1>10 DEF Progress
  <2>2. TreatedBut(db, stack, i, n)
    BY <2>1 DEF Treated, TreatedBut
  <2>3. n \in Children(stack[Len(stack)].dir)
    BY <1>2 DEF Top
  <2>. QED  BY <1>1, <2>1, <2>2, <2>3, TreatedOutside
<1>11. Treated(e, p, k)
  <2>1. ASSUME NEW c \in Children(stack[k].dir) PROVE TreatedAt(e, p, k, c)
    <3>1. c # Root
      BY TreeAssumption DEF Children
    <3>2. CASE c = n
      BY <1>8, <3>2 DEF TreatedAt
    <3>3. CASE c # n
      <4>1. TreatedAt(e, stack, k, c)
        BY <1>1, <1>10, <3>3 DEF TreatedBut
      <4>2. c \in Ahead(p, k) <=> c \in Ahead(stack, k)
        BY <1>5, <1>8, <3>1, <3>3
      <4>. QED  BY <4>1, <4>2 DEF TreatedAt
    <3>. QED  BY <3>2, <3>3
  <2>. QED  BY <1>7, <2>1 DEF Treated
<1>12. ASSUME NEW i \in 1..k, i # k PROVE Steady(p, i) /\ Treated(e, p, i)
  <2>1. i < k /\ i < Len(p) /\ i + 1 \in 1..k
    BY <1>1, <1>12
  <2>2. p[i] = stack[i] /\ p[i + 1].dir = stack[i + 1].dir
    <3>1. p[i] = stack[i]
      BY <1>4, <1>6, <1>12
    <3>2. CASE i + 1 = k
      BY <1>7, <3>1, <3>2
    <3>3. CASE i + 1 # k
      BY <1>4, <1>6, <2>1, <3>1, <3>3
    <3>. QED  BY <3>2, <3>3
  <2>3. Ahead(p, i) = Ahead(stack, i)
    BY <2>1, <2>2 DEF Ahead
  <2>4. Steady(p, i)
    BY <1>10, <2>1, <2>2 DEF Steady
  <2>5. n \notin Children(stack[i].dir)
    <3>1. n \in Children(stack[Len(stack)].dir)
      BY <1>2 DEF Top
    <3>. QED  BY <1>1, <1>12, <3>1, InnermostOnly
  <2>6. TreatedBut(e, stack, i, n)
    BY <1>10
  <2>7. Treated(e, p, i)
    BY <2>2, <2>3, <2>5, <2>6 DEF Treated, TreatedBut, TreatedAt
  <2>. QED  BY <2>4, <2>7
<1>13. ASSUME NEW i \in 1..Len(p) PROVE Steady(p, i) /\ Treated(e, p, i)
  <2>1. i = Len(p) \/ i = k \/ (i \in 1..k /\ i # k)
    BY <1>1, <1>13
  <2>. QED  BY <1>9, <1>11, <1>12, <2>1
<1>. QED  BY <1>13 DEF Progress

\* Subdirectory leaves the walk settled.
LEMMA SubdirectorySettled ==
  ASSUME Typed, History, Settled, Subdirectory
  PROVE  Settled'
<1>. DEFINE n == Top.entry.node
            t == Top.entry.mtime
            r == MakeRealChild(db, n)
<1>1. /\ n \in Nodes /\ Attached(db, n) /\ stack # << >> /\ Proper(db)
      /\ n \in Children(Top.dir) /\ Scanning("dir") /\ Frames(db, stack) /\ ignore \subseteq Nodes
      /\ Top.entry # NoEntry
  BY ScanningFacts DEF Subdirectory, Typed, Scalars
<1>2. UNCHANGED <<environment, process>>
  BY DEF Subdirectory
<1>3. CASE fs[n].type = "dir" /\ fs[n].access /\ EnterDirectory(r, modified, n, t, EntryDone)
  <2>1. /\ Proper(r) /\ InTree(r, n) /\ db' = Entered(r, n) /\ Proper(db') /\ InTree(db', n)
        /\ Outside(db, db', n)
        /\ stack' = Append(EntryDone, NewFrame(n, t))
        /\ Frames(db', stack') /\ modified' \in BOOLEAN /\ Len(stack') = Len(stack) + 1
        /\ stack'[Len(stack')] = NewFrame(n, t)
        /\ \A i \in 1..Len(stack) : stack'[i] = EntryDone[i]
    BY <1>1, <1>3, SubdirectoryEnters
  <2>2. /\ Changed(db, r, n) /\ r.songs = db.songs /\ r.dirs[n].device = "real"
    BY <1>1, MakeRealChildFacts
  <2>3. Fallow(db, n) => (n \in DOMAIN r.dirs => ~r.dirs[n].mark)
    BY <1>1, RealChildUnmarked
  <2>. HIDE DEF r, n, t
  <2>4. Len(stack) \in Nat /\ Len(stack') \in Nat /\ stack' # << >>
    <3>1. Len(stack) \in Nat
      BY <1>1, TopFrame
    <3>2. stack' # << >>
      BY <2>1, <3>1
    <3>. QED  BY <2>1, <3>1, <3>2
  <2>5. NewFrame(n, t).dir = n
    BY DEF NewFrame
  <2>6. ASSUME undisturbed PROVE ArchivesTrue(db') /\ Progress(db', stack')
    <3>1. ArchivesTrue(db) /\ Progress(db, stack)
      BY <1>1, <2>6 DEF Settled
    <3>2. Reachable(n) /\ Fallow(db, n) /\ n \notin ignore
      BY <1>1, <3>1, SteadyEntry DEF n
    <3>3. OpenDir(n)
      BY <1>3, <3>2 DEF OpenDir
    <3>4. Weaker(r, db')
      BY <1>1, <2>1, EnteredWeaker
    <3>5. ArchivesTrue(r)
      BY <1>1, <2>1, <2>2, <3>1, ArchivesKept
    <3>6. ArchivesTrue(db')
      BY <3>4, <3>5, ArchivesWeaker
    <3>7. Steady(stack', Len(stack')) /\ Treated(Entered(r, n), stack', Len(stack'))
      BY <1>1, <2>1, <2>4, <3>2, <3>3, NewFrameTreated
    <3>8. Fallow(db', n)
      <4>1. /\ \A m \in DOMAIN db'.songs :
                 /\ m \in DOMAIN r.songs
                 /\ IF Parent[m] = n THEN ~db'.songs[m].mark ELSE db'.songs[m] = r.songs[m]
            /\ \A m \in DOMAIN db'.dirs :
                 /\ m \in DOMAIN r.dirs
                 /\ IF Parent[m] = n THEN ~db'.dirs[m].mark ELSE db'.dirs[m] = r.dirs[m]
        BY <1>1, <2>1, EnteredItems
      <4>2. Parent[n] # n
        BY <1>1, SubtreeOfOne
      <4>. QED  BY <2>2, <2>3, <3>2, <4>1, <4>2 DEF Fallow
    <3>9. Progress(db', stack')
      <4>1. Treated(db', stack', Len(stack'))
        BY <2>1, <3>7
      <4>2. stack'[Len(stack')].dir = n
        BY <2>1, <2>5
      <4>. QED  BY <1>1, <2>1, <3>1, <3>7, <3>8, <4>1, <4>2, EnterProgress DEF n
    <3>. QED  BY <3>6, <3>9
  <2>. QED  BY <1>1, <1>2, <2>4, <2>6, SettledByWalk
<1>4. CASE /\ ~(fs[n].type = "dir" /\ fs[n].access)
           /\ db' = DeleteDirectories(db, {n}) /\ stack' = EntryDone
  <2>. DEFINE e == DeleteDirectories(db, {n})
  <2>1. Proper(e) /\ Changed(db, e, n)
    BY <1>1, DeleteOneDirectory
  <2>2. /\ Leaf(e, n) /\ n \notin DOMAIN e.dirs
        /\ (n \in DOMAIN e.songs <=> n \in DOMAIN db.songs)
        /\ (n \in DOMAIN db.songs => e.songs[n] = db.songs[n])
    BY <1>1, DeletedIsLeaf
  <2>. HIDE DEF e
  <2>3. Outside(db, e, n)
    BY <2>1, ChangedIsOutside
  <2>4. ASSUME ArchivesTrue(db), Fallow(db, n), fs[n].type = "dir"
        PROVE  ArchivesTrue(e) /\ Done(e, n)
    <3>. HIDE DEF n
    <3>1. ArchivesTrue(e)
      BY <1>1, <2>1, <2>2, <2>4, ArchivesKept
    <3>2. ~Visible(n) /\ ~OpenDir(n)
      BY <1>4, <2>4 DEF Visible, Readable, OpenDir
    <3>3. Fallow(e, n)
      BY <2>2, <2>4 DEF Fallow
    <3>4. Done(e, n)
      BY <1>1, <3>2, <3>3, UnreachableExpectsNothing, FallowDone
    <3>. QED  BY <3>1, <3>4
  <2>5. db' = e
    BY <1>4 DEF e
  <2>6. Proper(db') /\ Outside(db, db', n)
    BY <2>1, <2>3, <2>5
  <2>7. ASSUME ArchivesTrue(db), Fallow(db, n), fs[n].type = "dir"
        PROVE  ArchivesTrue(db') /\ Done(db', n)
    BY <2>4, <2>5, <2>7
  <2>. QED  BY <1>1, <1>2, <1>4, <2>6, <2>7, ScanSettled
<1>. QED  BY <1>3, <1>4 DEF Subdirectory

\* What the end of UpdateDirectory() leaves of the entries of the directory.
LEMMA EndedItems ==
  ASSUME NEW d, Proper(d), NEW D, InTree(d, D), NEW t \in 0..MaxChanges
  PROVE  LET e == Ended(d, D, t)
         IN /\ \A c \in Children(D) :
                 /\ c \in DOMAIN e.songs <=> (c \in DOMAIN d.songs /\ d.songs[c].mark)
                 /\ c \in DOMAIN e.songs => e.songs[c] = d.songs[c]
                 /\ c \in DOMAIN e.dirs <=> (c \in DOMAIN d.dirs /\ d.dirs[c].mark)
                 /\ c \in DOMAIN e.dirs => e.dirs[c] = d.dirs[c]
            /\ \A c \in Children(D) : c \in DOMAIN d.dirs /\ d.dirs[c].mark =>
                 \A m \in Below(c) :
                   /\ m \in DOMAIN e.songs <=> m \in DOMAIN d.songs
                   /\ m \in DOMAIN d.songs => e.songs[m] = d.songs[m]
                   /\ m \in DOMAIN e.dirs <=> m \in DOMAIN d.dirs
                   /\ m \in DOMAIN d.dirs => e.dirs[m] = d.dirs[m]
<1>. DEFINE e == Ended(d, D, t)
            p == Purged(d, D)
            x == Gone(d.dirs, D)
<1>1. /\ Proper(e) /\ InTree(e, D)
      /\ e.songs = p.songs /\ e.lists = p.lists /\ DOMAIN e.dirs = DOMAIN p.dirs
      /\ \A m \in DOMAIN p.dirs : m # D => e.dirs[m] = p.dirs[m]
      /\ D # Root => /\ D \in DOMAIN d.dirs /\ D \in DOMAIN e.dirs
                     /\ e.dirs[D] = [mtime |-> t, mark |-> TRUE,
                                     device |-> d.dirs[D].device, tracks |-> {}]
  BY EndedFacts
<1>2. /\ DOMAIN p.songs = (DOMAIN d.songs \ (Subtree(x) \ x)) \ Gone(d.songs, D)
      /\ DOMAIN p.dirs = DOMAIN d.dirs \ Subtree(x)
      /\ DOMAIN p.lists = (DOMAIN d.lists \ (Subtree(x) \ x)) \ Gone(d.lists, D)
      /\ \A m \in DOMAIN p.songs : p.songs[m] = d.songs[m]
      /\ \A m \in DOMAIN p.dirs : p.dirs[m] = d.dirs[m]
  BY PurgedFacts
<1>3. DOMAIN d.dirs \subseteq Nodes /\ D \in Nodes \cup {Root}
  BY Fields DEF Proper, InTree
<1>4. x \in SUBSET Children(D) /\ \A c \in x : ~d.dirs[c].mark
  BY <1>3 DEF Gone, Children
<1>5. /\ x \subseteq Subtree(x) /\ D \notin Subtree(x)
      /\ \A n \in Nodes : Parent[n] \in Subtree(x) <=> n \in Subtree(x) \ x
  BY <1>3, <1>4, SubtreeFacts
<1>6. \A n : n \in Subtree(x) <=> n \in x \/ (n \in Nodes /\ \E y \in x : y \in Ancestors[n])
  BY DEF Subtree
<1>7. \A c \in Children(D) : /\ c \in x <=> (c \in DOMAIN d.dirs /\ ~d.dirs[c].mark)
                             /\ c \in Gone(d.songs, D) <=> (c \in DOMAIN d.songs /\ ~d.songs[c].mark)
  BY DEF Gone, Children
<1>. HIDE DEF e, p, x
<1>8. ASSUME NEW c \in Children(D)
      PROVE  /\ c \in DOMAIN e.songs <=> (c \in DOMAIN d.songs /\ d.songs[c].mark)
             /\ c \in DOMAIN e.songs => e.songs[c] = d.songs[c]
             /\ c \in DOMAIN e.dirs <=> (c \in DOMAIN d.dirs /\ d.dirs[c].mark)
             /\ c \in DOMAIN e.dirs => e.dirs[c] = d.dirs[c]
  <2>0. c \in Nodes /\ Parent[c] = D
    BY DEF Children
  <2>1. c \in Nodes /\ Parent[c] = D /\ c # D
    BY <2>0, SubtreeOfOne
  <2>2. c \in Subtree(x) <=> c \in x
    BY <1>5, <2>1
  <2>. QED  BY <1>1, <1>2, <1>7, <2>1, <2>2
<1>9. ASSUME NEW c \in Children(D), c \in DOMAIN d.dirs, d.dirs[c].mark, NEW m \in Below(c)
      PROVE  /\ m \in DOMAIN e.songs <=> m \in DOMAIN d.songs
             /\ m \in DOMAIN d.songs => e.songs[m] = d.songs[m]
             /\ m \in DOMAIN e.dirs <=> m \in DOMAIN d.dirs
             /\ m \in DOMAIN d.dirs => e.dirs[m] = d.dirs[m]
  <2>1. c \in Nodes /\ Parent[c] = D
    BY DEF Children
  <2>2. m \in Nodes /\ c \in Ancestors[m] /\ m \in Subtree({c})
    BY <2>1, BelowFacts DEF Below
  <2>3. m \notin x /\ m # D /\ m \notin Gone(d.songs, D)
    <3>1. Parent[m] # D
      BY <1>3, <2>1, <2>2, SubtreeOfOne, BelowFacts DEF Below
    <3>2. m # D
      <4>1. D \notin Subtree({c})
        BY <2>1, SubtreeOfOne
      <4>. QED  BY <2>2, <4>1
    <3>. QED  BY <3>1, <3>2 DEF x, Gone
  <2>4. ASSUME NEW y \in x, y \in Ancestors[m] PROVE FALSE
    <3>1. y \in Nodes /\ Parent[y] = D /\ y # c
      BY <1>4, <1>9 DEF Children
    <3>2. m \in Subtree({y})
      BY <2>2, <2>4, <3>1 DEF Subtree
    <3>. QED  BY <2>1, <2>2, <3>1, <3>2, Apart
  <2>5. m \notin Subtree(x)
    BY <1>6, <2>3, <2>4
  <2>. QED  BY <1>1, <1>2, <2>3, <2>5
<1>10. \A c \in Children(D) :
                 /\ c \in DOMAIN e.songs <=> (c \in DOMAIN d.songs /\ d.songs[c].mark)
                 /\ c \in DOMAIN e.songs => e.songs[c] = d.songs[c]
                 /\ c \in DOMAIN e.dirs <=> (c \in DOMAIN d.dirs /\ d.dirs[c].mark)
                 /\ c \in DOMAIN e.dirs => e.dirs[c] = d.dirs[c]
  BY <1>8
<1>11. \A c \in Children(D) : c \in DOMAIN d.dirs /\ d.dirs[c].mark =>
                 \A m \in Below(c) :
                   /\ m \in DOMAIN e.songs <=> m \in DOMAIN d.songs
                   /\ m \in DOMAIN d.songs => e.songs[m] = d.songs[m]
                   /\ m \in DOMAIN e.dirs <=> m \in DOMAIN d.dirs
                   /\ m \in DOMAIN d.dirs => e.dirs[m] = d.dirs[m]
  BY <1>9
<1>. QED  BY <1>10, <1>11 DEF e

\* What is right depends on songs and directories only.
LEMMA RightByItems ==
  ASSUME NEW d, NEW e, NEW m, Right(d, m), m \in DOMAIN e.songs <=> m \in DOMAIN d.songs,
         m \in DOMAIN d.songs => e.songs[m] = d.songs[m],
         m \in DOMAIN e.dirs <=> m \in DOMAIN d.dirs,
         m \in DOMAIN d.dirs => e.dirs[m] = d.dirs[m]
  PROVE  Right(e, m)
<1>1. \A k : TracksIn(e, m, k) = TracksIn(d, m, k)
  BY DEF TracksIn
<1>2. TracksRight(e, m)
  BY <1>1 DEF Right, TracksRight
<1>. QED  BY <1>2 DEF Right

\* When all entries of a directory are done, the purge leaves what is right.
LEMMA EndedIsRight ==
  ASSUME NEW d, Proper(d), NEW D, InTree(d, D), NEW t \in 0..MaxChanges,
         \A c \in Children(D) : Done(d, c), NEW m \in Nodes, Over(D, m)
  PROVE  Right(Ended(d, D, t), m)
<1>. DEFINE e == Ended(d, D, t)
<1>1. /\ \A c \in Children(D) :
                 /\ c \in DOMAIN e.songs <=> (c \in DOMAIN d.songs /\ d.songs[c].mark)
                 /\ c \in DOMAIN e.songs => e.songs[c] = d.songs[c]
                 /\ c \in DOMAIN e.dirs <=> (c \in DOMAIN d.dirs /\ d.dirs[c].mark)
                 /\ c \in DOMAIN e.dirs => e.dirs[c] = d.dirs[c]
      /\ \A c \in Children(D) : c \in DOMAIN d.dirs /\ d.dirs[c].mark =>
                 \A k \in Below(c) :
                   /\ k \in DOMAIN e.songs <=> k \in DOMAIN d.songs
                   /\ k \in DOMAIN d.songs => e.songs[k] = d.songs[k]
                   /\ k \in DOMAIN e.dirs <=> k \in DOMAIN d.dirs
                   /\ k \in DOMAIN d.dirs => e.dirs[k] = d.dirs[k]
  BY EndedItems
<1>2. Proper(e)
  BY EndedFacts
<1>. HIDE DEF e
<1>3. D \in Nodes \cup {Root}
  BY DEF InTree
<1>4. PICK c \in Children(D) : m = c \/ c \in Ancestors[m]
  BY <1>3, ChildOnTheWay
<1>5. c \in Nodes /\ Done(d, c)
  BY DEF Children
<1>6. CASE m = c
  <2>1. c \in DOMAIN e.dirs => fs[c].type \in {"dir", "file"} /\ TracksRight(d, c)
    BY <1>1, <1>5 DEF Done, DirDone
  <2>2. TracksRight(e, c)
    <3>1. CASE c \in DOMAIN e.dirs
      <4>1. \A k : TracksIn(e, c, k) = TracksIn(d, c, k)
        BY <1>1, <3>1 DEF TracksIn
      <4>. QED  BY <2>1, <3>1, <4>1 DEF TracksRight
    <3>2. CASE c \notin DOMAIN e.dirs
      <4>1. \A k : TracksIn(e, c, k) = {}
        BY <3>2 DEF TracksIn
      <4>2. Kind[c] \in {"container", "archive"} =>
              ExpectedTracks(c) = {} \/ (Kind[c] = "archive" /\ ~fs[c].access)
        BY <1>1, <1>5, <3>2 DEF Done, DirDone
      <4>. QED  BY <4>1, <4>2 DEF TracksRight
    <3>. QED  BY <3>1, <3>2
  <2>3. /\ c \in DOMAIN e.songs <=> c \in ExpectedSongs
        /\ c \in DOMAIN e.songs => e.songs[c].channels = fs[c].plain
    BY <1>1, <1>5 DEF Done
  <2>4. Right(e, c)
    BY <2>1, <2>2, <2>3 DEF Right
  <2>. QED  BY <1>6, <2>4 DEF e
<1>7. CASE c \in Ancestors[m]
  <2>1. m \in Below(c)
    BY <1>5, <1>7, BelowFacts
  <2>2. CASE c \in DOMAIN d.dirs /\ d.dirs[c].mark
    <3>1. Right(d, m)
      BY <1>5, <2>1, <2>2 DEF Done, DirDone
    <3>2. /\ m \in DOMAIN e.songs <=> m \in DOMAIN d.songs
          /\ m \in DOMAIN d.songs => e.songs[m] = d.songs[m]
          /\ m \in DOMAIN e.dirs <=> m \in DOMAIN d.dirs
          /\ m \in DOMAIN d.dirs => e.dirs[m] = d.dirs[m]
      BY <1>1, <2>1, <2>2
    <3>3. Right(e, m)
      BY <3>1, <3>2, RightByItems
    <3>. QED  BY <3>3 DEF e
  <2>3. CASE ~(c \in DOMAIN d.dirs /\ d.dirs[c].mark)
    <3>1. ~Reachable(m)
      BY <1>5, <2>1, <2>3 DEF Done, DirDone
    <3>2. c \notin DOMAIN e.dirs
      BY <1>1, <2>3
    <3>3. ~Present(e, m)
      BY <1>2, <1>7, <3>2, AncestorsPresent
    <3>4. Right(e, m)
      BY <3>1, <3>3, AbsentIsRight
    <3>. QED  BY <3>4 DEF e
  <2>. QED  BY <2>2, <2>3
<1>. QED  BY <1>4, <1>6, <1>7

\* The directory itself is done, for the frame it was an entry of.
LEMMA EndedIsDone ==
  ASSUME NEW d, Proper(d), NEW D \in Nodes, InTree(d, D), NEW t \in 0..MaxChanges,
         \A c \in Children(D) : Done(d, c), Fallow(d, D), OpenDir(D)
  PROVE  Done(Ended(d, D, t), D) /\ Outside(d, Ended(d, D, t), D)
<1>. DEFINE e == Ended(d, D, t)
            p == Purged(d, D)
            x == Gone(d.dirs, D)
<1>1. /\ Proper(e) /\ InTree(e, D)
      /\ e.songs = p.songs /\ e.lists = p.lists /\ DOMAIN e.dirs = DOMAIN p.dirs
      /\ \A m \in DOMAIN p.dirs : m # D => e.dirs[m] = p.dirs[m]
      /\ D # Root => /\ D \in DOMAIN d.dirs /\ D \in DOMAIN e.dirs
                     /\ e.dirs[D] = [mtime |-> t, mark |-> TRUE,
                                     device |-> d.dirs[D].device, tracks |-> {}]
  BY EndedFacts
<1>2. /\ Proper(p) /\ InTree(p, D)
      /\ DOMAIN p.songs = (DOMAIN d.songs \ (Subtree(x) \ x)) \ Gone(d.songs, D)
      /\ DOMAIN p.dirs = DOMAIN d.dirs \ Subtree(x)
      /\ DOMAIN p.lists = (DOMAIN d.lists \ (Subtree(x) \ x)) \ Gone(d.lists, D)
      /\ \A m \in DOMAIN p.songs : p.songs[m] = d.songs[m]
      /\ \A m \in DOMAIN p.dirs : p.dirs[m] = d.dirs[m]
      /\ \A m \in DOMAIN p.lists : p.lists[m] = d.lists[m]
      /\ \A m \in Nodes \ Subtree(Children(D)) : SameAt(d, p, m)
  BY PurgedFacts
<1>3. D # Root
  BY TreeAssumption
<1>4. \A m \in Below(D) : Right(e, m)
  <2>1. ASSUME NEW m \in Below(D) PROVE Right(e, m)
    <3>1. m \in Nodes /\ Over(D, m)
      BY BelowFacts DEF Over
    <3>. QED  BY <3>1, EndedIsRight
  <2>. QED  BY <2>1
<1>. HIDE DEF e, p, x
<1>5. \A m \in Subtree(Children(D)) : m \in Below(D)
  <2>1. ASSUME NEW m \in Subtree(Children(D)) PROVE m \in Nodes /\ D \in Ancestors[m]
    <3>1. m \in Nodes /\ (m \in Children(D) \/ \E c \in Children(D) : c \in Ancestors[m])
      BY <2>1 DEF Subtree, Children
    <3>2. \A c \in Children(D) : c \in Nodes /\ D \in Ancestors[c]
      BY <1>3, AncestorsUnfold DEF Children
    <3>. QED  BY <3>1, <3>2, AncestorsTransitive
  <2>. QED  BY <2>1, BelowFacts
<1>6. ASSUME NEW m \in Nodes \ Subtree({D}) PROVE SameAt(d, e, m)
  <2>1. m \notin Subtree(Children(D)) /\ m # D
    BY <1>5, <1>6, SubtreeOfOne DEF Below
  <2>2. SameAt(d, p, m)
    BY <1>2, <1>6, <2>1
  <2>3. m \in DOMAIN e.dirs => e.dirs[m] = p.dirs[m]
    BY <1>1, <2>1
  <2>. QED  BY <1>1, <2>2, <2>3 DEF SameAt
<1>7. SameAt(d, p, D)
  <2>1. D \notin Below(D)
    BY DEF Below
  <2>. QED  BY <1>2, <1>5, <2>1
<1>8. ~(D \in DOMAIN e.songs /\ e.songs[D].mark)
  BY <1>1, <1>7 DEF SameAt, Fallow
<1>9. ~Visible(D) /\ fs[D].type = "dir"
  BY DEF OpenDir, Visible, Readable
<1>10. D \notin ExpectedSongs /\ ExpectedTracks(D) = {}
  BY <1>9, UnreachableExpectsNothing
<1>11. D \in DOMAIN e.dirs /\ e.dirs[D].mark = TRUE /\ e.dirs[D].tracks = {}
  BY <1>1, <1>3
<1>12. TracksRight(e, D)
  <2>1. \A k : TracksIn(e, D, k) = {}
    BY <1>11 DEF TracksIn
  <2>. QED  BY <1>10, <2>1 DEF TracksRight
<1>13. Done(e, D)
  BY <1>4, <1>8, <1>9, <1>10, <1>11, <1>12 DEF Done, DirDone
<1>. QED  BY <1>6, <1>13 DEF e, Outside

\* EndDirectory leaves the walk settled, or everything right.
LEMMA EndDirectorySettled ==
  ASSUME Typed, History, Settled, EndDirectory
  PROVE  Settled'
<1>. DEFINE D == Top.dir
            k == Len(stack)
<1>1. /\ stack # << >> /\ Top \in Frame /\ InTree(db, D) /\ db' = Ended(db, D, Top.mtime)
      /\ Proper(db') /\ Frames(db', stack') /\ modified' \in BOOLEAN
      /\ Len(stack') = Len(stack) - 1 /\ \A i \in 1..Len(stack') : stack'[i] = stack[i]
      /\ Frames(db', stack)
  BY EndDirectoryFacts
<1>2. /\ Proper(db) /\ Frames(db, stack) /\ RealFrames(db, stack)
  BY DEF Typed, History, Past
<1>3. k \in Nat /\ k \in 1..k /\ Top.mtime \in 0..MaxChanges
  BY <1>1, <1>2, TopFrame DEF Frame
<1>4. /\ Top.entry = NoEntry /\ (Top.todo = {} \/ cancel) /\ UNCHANGED <<environment, process>>
  BY DEF EndDirectory
<1>5. /\ fs' = fs /\ ignore' = ignore /\ mode' = mode /\ undisturbed' = undisturbed
      /\ cancel' = cancel
  BY <1>4 DEF environment, process
<1>6. ASSUME undisturbed PROVE Settled'
  <2>1. ~cancel /\ ArchivesTrue(db) /\ Progress(db, stack)
    BY <1>1, <1>6 DEF Settled
  <2>2. \A c \in Children(D) : Done(db, c)
    <3>1. Treated(db, stack, k) /\ ~(k < Len(stack))
      BY <1>3, <2>1 DEF Progress
    <3>2. Ahead(stack, k) = {Root}
      BY <1>4, <2>1, <3>1 DEF Ahead, Top, NoEntry
    <3>3. \A c \in Children(D) : c # Root
      BY TreeAssumption DEF Children
    <3>. QED  BY <3>1, <3>2, <3>3 DEF Treated, TreatedAt, Top
  <2>3. CASE D = Root
    <3>1. \A n \in Nodes : Right(db', n)
      <4>1. ASSUME NEW n \in Nodes PROVE Right(db', n)
        <5>1. Over(D, n)
          BY <2>3 DEF Over
        <5>2. Right(Ended(db, D, Top.mtime), n)
          BY <1>1, <1>2, <1>3, <2>2, <5>1, EndedIsRight
        <5>. QED  BY <1>1, <5>2
      <4>. QED  BY <4>1
    <3>2. stack' = << >>
      <4>1. ~(k > 1)
        <5>1. ASSUME k > 1 PROVE FALSE
          <6>1. 1 \in 1..k /\ 1 < k
            BY <1>3, <5>1
          <6>2. stack[k].dir \in Nodes
            BY <1>2, <1>3, <6>1 DEF Frames
          <6>. QED  BY <2>3, <6>2, TreeAssumption DEF Top
        <5>. QED  BY <5>1
      <4>2. Len(stack') = 0
        BY <1>1, <1>3, <4>1
      <4>3. stack' \in Seq(Frame)
        BY <1>1 DEF Frames
      <4>. QED  BY <4>2, <4>3, EmptySeq
    <3>3. \A n \in Nodes : Right(db, n)'
      BY <1>5, <3>1, SettledSeen
    <3>. QED  BY <3>2, <3>3 DEF Settled
  <2>4. CASE D # Root
    <3>. DEFINE j == Len(stack')
    <3>1. k > 1
      <4>1. stack[1].dir = Root
        BY <1>2, <1>3 DEF RealFrames
      <4>2. k # 1
        BY <2>4, <4>1 DEF Top
      <4>. QED  BY <1>3, <4>2
    <3>2. j \in Nat /\ j \in 1..j /\ j \in 1..k /\ j < k /\ j + 1 = k /\ stack' # << >>
      BY <1>1, <1>3, <3>1
    <3>3. D \in Nodes /\ Parent[D] = stack'[j].dir
      <4>1. Parent[stack[k].dir] = stack[k - 1].dir
        BY <1>2, <1>3, <3>1 DEF Frames
      <4>2. k - 1 = j
        BY <1>1
      <4>3. D \in Nodes
        BY <1>1, <2>4 DEF InTree
      <4>. QED  BY <1>1, <3>2, <4>1, <4>2, <4>3 DEF Top
    <3>4. OpenDir(D)
      <4>1. Steady(stack, k)
        BY <1>3, <2>1 DEF Progress
      <4>. QED  BY <2>4, <4>1 DEF Steady, Top
    <3>5. Steady(stack, j) /\ Treated(db, stack, j)
      BY <2>1, <3>2 DEF Progress
    <3>6. D \in Ahead(stack, j) /\ D \notin stack[j].todo
      BY <3>2, <3>5 DEF Ahead, Steady, Top
    <3>7. D \in Children(stack'[j].dir) /\ stack'[j] = stack[j]
      BY <1>1, <3>2, <3>3 DEF Children
    <3>8. Fallow(db, D)
      BY <3>5, <3>6, <3>7 DEF Treated, TreatedAt
    <3>9. Done(db', D) /\ Outside(db, db', D)
      <4>1. Done(Ended(db, D, Top.mtime), D) /\ Outside(db, Ended(db, D, Top.mtime), D)
        BY <1>1, <1>2, <1>3, <2>2, <3>3, <3>4, <3>8, EndedIsDone
      <4>. QED  BY <1>1, <4>1
    <3>. HIDE DEF D, j
    <3>10. stack[k].dir = D /\ stack[j + 1].dir = D
      BY <3>2 DEF D, Top
    <3>11. stack[j].entry = NoEntry
      BY <1>2, <1>3, <3>2 DEF Frames
    <3>12. Frames(db, stack')
      <4>1. stack' \in Seq(Frame) /\ j = Len(stack')
        BY <1>1 DEF Frames, j
      <4>2. \A i \in 1..j : i \in 1..k /\ stack'[i] = stack[i]
        BY <1>1, <1>3, <3>2 DEF j
      <4>3. \A i \in 1..j : i > 1 => i - 1 \in 1..j
        BY <3>2
      <4>4. \A i \in 1..j : Reads(stack'[i]) /\ InTree(db, stack'[i].dir)
        BY <1>2, <4>2 DEF Frames
      <4>5. \A i, l \in 1..j : i < l =>
              stack'[l].dir \in Nodes /\ Over(stack'[i].dir, stack'[l].dir) /\ stack'[i].entry = NoEntry
        BY <1>2, <4>2 DEF Frames
      <4>6. ASSUME NEW i \in 1..j, i > 1 PROVE Parent[stack'[i].dir] = stack'[i - 1].dir
        <5>1. i \in 1..k /\ i - 1 \in 1..j
          BY <4>2, <4>3, <4>6
        <5>2. Parent[stack[i].dir] = stack[i - 1].dir
          BY <1>2, <4>6, <5>1 DEF Frames
        <5>. QED  BY <4>2, <5>1, <5>2
      <4>. QED  BY <4>1, <4>4, <4>5, <4>6 DEF Frames
    <3>13. ~(j < Len(stack')) /\ Ahead(stack', j) = stack[j].todo \cup {Root}
      <4>1. ~(j < Len(stack'))
        BY <3>2 DEF j
      <4>2. stack'[j].entry.node = Root
        BY <3>7, <3>11 DEF NoEntry
      <4>. QED  BY <3>7, <4>1, <4>2 DEF Ahead
    <3>14. Ahead(stack, j) = stack[j].todo \cup {Root} \cup {D}
      BY <3>2, <3>10, <3>11 DEF Ahead, NoEntry
    <3>15. ASSUME NEW i \in 1..j, i # j
           PROVE  /\ Steady(stack', i) /\ Treated(db, stack', i) /\ TreatedBut(db, stack', i, D)
                  /\ D \notin Children(stack'[i].dir)
      <4>1. i \in 1..k /\ i + 1 \in 1..j /\ i < k /\ i < j
        BY <1>3, <3>2, <3>15
      <4>2. stack'[i] = stack[i] /\ stack'[i + 1] = stack[i + 1]
        BY <1>1, <3>15, <4>1 DEF j
      <4>3. Steady(stack, i) /\ Treated(db, stack, i)
        BY <2>1, <4>1 DEF Progress
      <4>4. Ahead(stack', i) = Ahead(stack, i)
        BY <4>1, <4>2 DEF Ahead, j
      <4>5. Steady(stack', i)
        BY <4>1, <4>2, <4>3 DEF Steady, j
      <4>6. Treated(db, stack', i)
        BY <4>2, <4>3, <4>4 DEF Treated, TreatedAt
      <4>7. TreatedBut(db, stack', i, D)
        BY <4>6 DEF Treated, TreatedBut
      <4>8. D \notin Children(stack'[i].dir)
        BY <3>2, <3>7, <3>12, <3>15, InnermostOnly DEF j
      <4>. QED  BY <4>5, <4>6, <4>7, <4>8
    <3>16. TreatedBut(db, stack', j, D)
      <4>1. ASSUME NEW c \in Children(stack[j].dir), c # D PROVE TreatedAt(db, stack', j, c)
        BY <3>5, <3>13, <3>14, <4>1 DEF Treated, TreatedAt
      <4>. QED  BY <3>7, <4>1 DEF TreatedBut
    <3>17. \A i \in 1..j : TreatedBut(db', stack', i, D)
      <4>1. ASSUME NEW i \in 1..j PROVE TreatedBut(db', stack', i, D)
        <5>1. TreatedBut(db, stack', i, D)
          BY <3>15, <3>16
        <5>. QED  BY <3>2, <3>7, <3>9, <3>12, <5>1, TreatedOutside DEF j
      <4>. QED  BY <4>1
    <3>18. Steady(stack', j)
      BY <3>5, <3>7, <3>11, <3>13 DEF Steady
    <3>19. Treated(db', stack', j)
      <4>1. ASSUME NEW c \in Children(stack'[j].dir) PROVE TreatedAt(db', stack', j, c)
        <5>1. CASE c = D
          <6>1. D \notin Ahead(stack', j)
            BY <3>3, <3>6, <3>13, TreeAssumption
          <6>. QED  BY <3>9, <5>1, <6>1 DEF TreatedAt
        <5>2. CASE c # D
          BY <3>2, <3>17, <5>2 DEF TreatedBut
        <5>. QED  BY <5>1, <5>2
      <4>. QED  BY <4>1 DEF Treated
    <3>20. \A i \in 1..j : Steady(stack', i) /\ Treated(db', stack', i)
      <4>1. ASSUME NEW i \in 1..j, i # j PROVE Steady(stack', i) /\ Treated(db', stack', i)
        <5>1. TreatedBut(db', stack', i, D) /\ D \notin Children(stack'[i].dir) /\ Steady(stack', i)
          BY <3>15, <3>17, <4>1
        <5>. QED  BY <5>1 DEF Treated, TreatedBut
      <4>. QED  BY <3>18, <3>19, <4>1
    <3>21. Progress(db', stack')
      BY <3>20 DEF Progress, j
    <3>22. ArchivesTrue(db')
      <4>1. D # Root => db.dirs[D].device = "real"
        BY <1>2, <1>3, <3>10 DEF RealFrames
      <4>2. Weaker(db, Ended(db, D, Top.mtime))
        BY <1>1, <1>2, <1>3, <4>1, EndedWeaker DEF D
      <4>. QED  BY <1>1, <2>1, <4>2, ArchivesWeaker DEF D
    <3>. QED  BY <1>1, <1>4, <3>2, <3>21, <3>22, SettledByWalk
  <2>. QED  BY <2>3, <2>4
<1>. QED  BY <1>5, <1>6 DEF Settled

\* StartWalk begins a settled walk: no archive in the database is without its tracks.
LEMMA StartWalkSettled ==
  ASSUME Typed, History, NEW discard, StartWalk(discard)
  PROVE  Settled'
<1>1. /\ pc = "idle" /\ stack = << >> /\ Proper(db) /\ ignore \subseteq Nodes
      /\ Honest(db) /\ Full(db)
  BY DEF StartWalk, Typed, Scalars, History, Past
<1>2. /\ fs' = fs /\ ignore' = ignore /\ mode' = mode /\ cancel' = FALSE
  BY DEF StartWalk, environment
<1>3. CASE undisturbed' = FALSE
  BY <1>3 DEF Settled
<1>4. CASE EnterDirectory(db, FALSE, Root, 0, << >>)
  <2>1. db' = Entered(db, Root) /\ Proper(db') /\ stack' = <<NewFrame(Root, 0)>>
    BY <1>1, <1>4, StartWalkFacts
  <2>2. InTree(db, Root)
    BY DEF InTree
  <2>3. ArchivesTrue(db)
    <3>1. ASSUME NEW n \in DOMAIN db.dirs, db.dirs[n].device = "archive",
                 db.dirs[n].mtime = fs[n].mtime
          PROVE  db.dirs[n].tracks = fs[n].tracks
      <4>1. n \in Nodes
        BY <1>1, Fields DEF Proper
      <4>2. HonestDir(n, db.dirs[n]) /\ db.dirs[n].tracks # {}
        BY <1>1, <3>1, <4>1 DEF Honest, HonestAt, Full
      <4>. QED  BY <3>1, <4>2 DEF HonestDir
    <3>. QED  BY <3>1 DEF ArchivesTrue
  <2>4. Weaker(db, db')
    BY <1>1, <2>1, <2>2, EnteredWeaker
  <2>5. ArchivesTrue(db')
    BY <2>3, <2>4, ArchivesWeaker
  <2>6. Len(stack') = 1 /\ stack'[1] = NewFrame(Root, 0) /\ stack' # << >>
    BY <2>1
  <2>7. Steady(stack', Len(stack')) /\ Treated(Entered(db, Root), stack', Len(stack'))
    BY <1>1, <2>2, <2>6, NewFrameTreated
  <2>8. Progress(db', stack')
    BY <2>1, <2>6, <2>7 DEF Progress
  <2>9. ArchivesTrue(db)' /\ Progress(db, stack)'
    BY <1>2, <2>5, <2>8, SettledSeen
  <2>. QED  BY <1>2, <2>6, <2>9 DEF Settled
<1>. QED  BY <1>3, <1>4 DEF StartWalk

\* What is right stays so if no song and no track goes.
LEMMA RightKept ==
  ASSUME NEW d, NEW e, NEW m, Right(d, m), m \in DOMAIN e.songs <=> m \in DOMAIN d.songs,
         m \in DOMAIN d.songs => e.songs[m].channels = d.songs[m].channels,
         m \in DOMAIN e.dirs => m \in DOMAIN d.dirs,
         Kind[m] \in {"container", "archive"} => TracksIn(e, m, Kind[m]) = TracksIn(d, m, Kind[m])
  PROVE  Right(e, m)
<1>1. TracksRight(e, m)
  BY DEF Right, TracksRight
<1>. QED  BY <1>1 DEF Right

\* PurgeDanglingFromPlaylists() has no effect on what is right.
LEMMA UndangledRight ==
  ASSUME NEW d, Proper(d), NEW m \in Nodes, Right(d, m)
  PROVE  Right(PurgeDanglingFromPlaylists(d).db, m)
<1>. DEFINE e == PurgeDanglingFromPlaylists(d).db
<1>1. /\ DOMAIN e.songs = DOMAIN d.songs /\ DOMAIN e.dirs = DOMAIN d.dirs /\ e.lists = d.lists
      /\ \A n \in DOMAIN d.songs : /\ e.songs[n].mtime = d.songs[n].mtime
                                   /\ e.songs[n].channels = d.songs[n].channels
      /\ \A n \in DOMAIN d.dirs :
           /\ e.dirs[n].device = d.dirs[n].device /\ e.dirs[n].mtime = d.dirs[n].mtime
           /\ d.dirs[n].device # "playlist" => e.dirs[n] = d.dirs[n]
  BY PurgeDanglingFacts
<1>. HIDE DEF e
<1>2. Kind[m] \in {"container", "archive"} => TracksIn(e, m, Kind[m]) = TracksIn(d, m, Kind[m])
  BY <1>1 DEF TracksIn
<1>3. Right(e, m)
  BY <1>1, <1>2, RightKept
<1>. QED  BY <1>3 DEF e

\* PruneEmpty() has no effect on what is right.
LEMMA PrunedRight ==
  ASSUME NEW d, Proper(d), NEW m \in Nodes, Right(d, m)
  PROVE  Right(PruneEmpty(d), m)
<1>. DEFINE e == PruneEmpty(d)
<1>1. /\ Proper(e) /\ e.songs = d.songs /\ e.lists = d.lists
      /\ DOMAIN e.dirs \subseteq DOMAIN d.dirs
      /\ \A n \in DOMAIN e.dirs : e.dirs[n] = d.dirs[n]
      /\ \A n \in DOMAIN d.dirs : d.dirs[n].tracks # {} => n \in DOMAIN e.dirs
  BY PruneEmptyFacts
<1>. HIDE DEF e
<1>2. \A k : TracksIn(e, m, k) = TracksIn(d, m, k)
  BY <1>1 DEF TracksIn
<1>3. Right(e, m)
  BY <1>1, <1>2, RightKept
<1>. QED  BY <1>3 DEF e

\* Steps after the last frame has ended.
LEMMA SettledAround ==
  ASSUME Settled, UNCHANGED environment, mode' = mode, undisturbed' = undisturbed,
         stack = << >>, stack' = << >>,
         \A n \in Nodes : Right(db, n) => Right(db', n)
  PROVE  Settled'
<1>1. fs' = fs /\ ignore' = ignore
  BY DEF environment
<1>2. undisturbed => \A n \in Nodes : Right(db', n)
  BY DEF Settled
<1>3. undisturbed => \A n \in Nodes : Right(db, n)'
  BY <1>1, <1>2, SettledSeen
<1>. QED  BY <1>3 DEF Settled

\* FinishWalk leaves everything right.
LEMMA FinishWalkSettled ==
  ASSUME Typed, Settled, FinishWalk
  PROVE  Settled'
<1>1. /\ db' = PurgeDanglingFromPlaylists(db).db /\ stack = << >> /\ stack' = << >>
      /\ UNCHANGED environment /\ mode' = mode /\ undisturbed' = undisturbed
  BY DEF FinishWalk, process
<1>2. \A n \in Nodes : Right(db, n) => Right(db', n)
  BY <1>1, UndangledRight DEF Typed
<1>. QED  BY <1>1, <1>2, SettledAround

\* TaskSave leaves everything right.
LEMMA TaskSaveSettled ==
  ASSUME Typed, Settled, TaskSave
  PROVE  Settled'
<1>1. /\ stack = << >> /\ stack' = << >> /\ Proper(db)
      /\ UNCHANGED environment /\ mode' = mode /\ undisturbed' = undisturbed
  BY DEF TaskSave, Typed
<1>2. db' = db \/ db' = PruneEmpty(db)
  BY DEF TaskSave, Save
<1>3. \A n \in Nodes : Right(db, n) => Right(db', n)
  BY <1>1, <1>2, PrunedRight
<1>. QED  BY <1>1, <1>3, SettledAround

\* MainSave leaves everything right.
LEMMA MainSaveSettled ==
  ASSUME Typed, Settled, MainSave
  PROVE  Settled'
<1>1. /\ stack = << >> /\ stack' = << >> /\ Proper(db) /\ db' = PruneEmpty(db)
      /\ UNCHANGED environment /\ mode' = mode /\ undisturbed' = undisturbed
  BY DEF MainSave, Save, Typed
<1>2. \A n \in Nodes : Right(db, n) => Right(db', n)
  BY <1>1, PrunedRight
<1>. QED  BY <1>1, <1>2, SettledAround

----------------------------------------------------------------------------
(***************************************************************************)
(* mpd-dbcreate reads every path once, so that container_update() never    *)
(* finds the path it opened before.                                        *)
(***************************************************************************)

\* What a frame has read it does not read again.
Once(s) ==
  \A i \in 1..Len(s) : /\ s[i].entry.node \notin s[i].todo
                       /\ i < Len(s) => s[i + 1].dir \notin s[i].todo

\* A frame comes to no entry at or above p any more.
PassedIn(f, p) == \A m \in f.todo \cup {f.entry.node} : m # p /\ m \notin Ancestors[p]

\* The same of all frames.
Passed(s, p) == \A i \in 1..Len(s) : PassedIn(s[i], p)

\* The open container is one the walk is done with.
ReadOnce ==
  /\ Once(stack)
  /\ reader.path # Root => Passed(stack, reader.path)
  /\ pc = "idle" => reader = NoReader
  /\ stale = {}

\* The frame on top reads less than before.
LEMMA OnceSet ==
  ASSUME Typed, Once(stack), stack # << >>, NEW todo \in SUBSET Top.todo, NEW entry \in Stat,
         entry # NoEntry => entry.type # "none" /\ entry.node \in Top.todo \ todo
  PROVE  LET s == SetEntry(todo, entry)
         IN Once(s) /\ \A p \in Nodes : Passed(stack, p) => Passed(s, p)
<1>. DEFINE s == SetEntry(todo, entry)
            k == Len(stack)
<1>1. /\ Frames(db, stack) /\ Top.todo \in SUBSET Children(Top.dir) /\ k \in Nat /\ k \in 1..k
      /\ Top.todo \in SUBSET Nodes
  BY TopFrame DEF Typed, Top, Reads, Children
<1>2. todo \in SUBSET Children(Top.dir)
  BY <1>1
<1>3. entry # NoEntry => entry.type # "none" /\ entry.node \in Children(Top.dir)
  BY <1>1
<1>4. /\ Len(s) = k /\ \A i \in 1..k : i # k => s[i] = stack[i]
      /\ s[k] = [dir |-> Top.dir, single |-> Top.single, mtime |-> Top.mtime,
                 exclude |-> Top.exclude, todo |-> todo, entry |-> entry]
  BY <1>1, <1>2, <1>3, SetEntryFacts
<1>5. s[k].dir = Top.dir /\ s[k].todo = todo /\ s[k].entry = entry
  BY <1>4
<1>. HIDE DEF s
<1>6. NoEntry.node = Root
  BY NoEntryIsStat
<1>7. entry.node \notin todo
  BY <1>1, <1>6, TreeAssumption
<1>8. \A i \in 1..k : s[i].dir = stack[i].dir
  BY <1>4, <1>5 DEF Top
<1>9. ASSUME NEW i \in 1..Len(s)
      PROVE  s[i].entry.node \notin s[i].todo /\ (i < Len(s) => s[i + 1].dir \notin s[i].todo)
  <2>1. CASE i = k
    BY <1>1, <1>4, <1>5, <1>7, <2>1
  <2>2. CASE i # k
    <3>1. i \in 1..k /\ i < k /\ i + 1 \in 1..k /\ s[i] = stack[i]
      BY <1>1, <1>4, <2>2
    <3>2. s[i + 1].dir = stack[i + 1].dir
      BY <1>8, <3>1
    <3>. QED  BY <3>1, <3>2 DEF Once
  <2>. QED  BY <2>1, <2>2
<1>10. ASSUME NEW p \in Nodes, Passed(stack, p) PROVE Passed(s, p)
  <2>1. PassedIn(Top, p)
    BY <1>1, <1>10 DEF Passed, Top
  <2>2. Root # p /\ Root \notin Ancestors[p]
    BY AncestorsAreNodes, TreeAssumption
  <2>3. PassedIn(s[k], p)
    <3>1. \A m \in todo \cup {entry.node} : m # p /\ m \notin Ancestors[p]
      BY <1>6, <2>1, <2>2 DEF PassedIn
    <3>. QED  BY <1>5, <3>1 DEF PassedIn
  <2>4. ASSUME NEW i \in 1..k, i # k PROVE PassedIn(s[i], p)
    BY <1>4, <1>10, <2>4 DEF Passed
  <2>. QED  BY <1>4, <2>3, <2>4 DEF Passed
<1>. QED  BY <1>9, <1>10 DEF Once, s

\* The entry that was scanned is passed.
LEMMA EntryPassed ==
  ASSUME Typed, Once(stack), NEW type \in {"file", "dir", "loop"}, Scanning(type)
  PROVE  Passed(EntryDone, Top.entry.node)
<1>. DEFINE n == Top.entry.node
            k == Len(stack)
            s == EntryDone
<1>1. /\ n \in Nodes /\ n \in Children(Top.dir) /\ Parent[n] = Top.dir
      /\ Top.todo \in SUBSET Children(Top.dir) /\ stack # << >>
  BY ScanningFacts
<1>2. Frames(db, stack) /\ k \in Nat /\ k \in 1..k
  BY <1>1, TopFrame DEF Typed
<1>3. Outside(db, db, n)
  BY DEF Outside, SameAt
<1>4. /\ Len(s) = k /\ \A i \in 1..k : i # k => s[i] = stack[i]
      /\ s[k] = [dir |-> Top.dir, single |-> Top.single, mtime |-> Top.mtime,
                 exclude |-> Top.exclude, todo |-> Top.todo, entry |-> NoEntry]
  BY <1>3, EntryDoneFacts
<1>5. s[k].todo = Top.todo /\ s[k].entry = NoEntry
  BY <1>4
<1>6. NoEntry.node = Root /\ Root # n /\ Root \notin Ancestors[n]
  BY <1>1, NoEntryIsStat, AncestorsAreNodes, TreeAssumption
<1>7. n \notin Top.todo
  BY <1>2 DEF Once, Top
<1>8. \A c \in Nodes : n \notin Subtree({c}) => c # n /\ c \notin Ancestors[n]
  BY <1>1 DEF Subtree
<1>9. n \in Subtree({n})
  BY DEF Subtree
<1>. HIDE DEF s, n
<1>10. PassedIn(s[k], n)
  <2>1. ASSUME NEW m \in Top.todo PROVE m # n /\ m \notin Ancestors[n]
    <3>1. m \in Nodes /\ m # n /\ Parent[m] = Parent[n]
      BY <1>1, <1>7 DEF Children
    <3>2. n \notin Subtree({m})
      BY <1>1, <1>9, <3>1, Apart
    <3>. QED  BY <1>8, <3>1, <3>2
  <2>. QED  BY <1>5, <1>6, <2>1 DEF PassedIn
<1>11. ASSUME NEW i \in 1..k, i # k PROVE PassedIn(s[i], n)
  <2>1. i < k /\ s[i] = stack[i]
    BY <1>2, <1>4, <1>11
  <2>2. stack[i].entry = NoEntry /\ Reads(stack[i]) /\ stack[i + 1].dir \notin stack[i].todo
    BY <1>2, <2>1 DEF Frames, Once
  <2>3. Over(stack[k].dir, n)
    BY <1>1, ParentIsOver DEF Top
  <2>4. ASSUME NEW m \in stack[i].todo PROVE m # n /\ m \notin Ancestors[n]
    <3>1. m \in Children(stack[i].dir) /\ m # stack[i + 1].dir
      BY <2>2 DEF Reads
    <3>2. \A x \in Subtree({m}) : x \notin Subtree({n})
      BY <1>1, <1>2, <2>1, <2>3, <3>1, ApartFromFrames
    <3>. QED  BY <1>8, <1>9, <3>1, <3>2 DEF Children
  <2>. QED  BY <1>6, <2>1, <2>2, <2>4 DEF PassedIn
<1>12. Passed(s, n)
  BY <1>4, <1>10, <1>11 DEF Passed
<1>. QED  BY <1>12 DEF s, n

\* SkipEntry, DeleteEntry, StatEntry and AncestorLoop open nothing.
LEMMA EntryReadOnce ==
  ASSUME Typed, ReadOnce, NEW n \in Nodes,
         SkipEntry(n) \/ DeleteEntry(n) \/ StatEntry(n) \/ AncestorLoop
  PROVE  ReadOnce'
<1>1. reader' = reader /\ stale' = stale /\ pc' = "walk" /\ stack # << >>
  BY DEF SkipEntry, DeleteEntry, StatEntry, AncestorLoop, Reading, Scanning, InDirectory, scanner
<1>2. Once(stack') /\ \A p \in Nodes : Passed(stack, p) => Passed(stack', p)
  <2>0. NoEntry \in Stat /\ Once(stack)
    BY NoEntryIsStat DEF ReadOnce
  <2>1. CASE SkipEntry(n) \/ DeleteEntry(n)
    <3>1. stack' = SetEntry(Top.todo \ {n}, NoEntry)
      BY <2>1 DEF SkipEntry, DeleteEntry
    <3>. QED  BY <1>1, <2>0, <3>1, OnceSet
  <2>2. CASE StatEntry(n)
    <3>. DEFINE e == [node |-> n, type |-> fs[n].type, mtime |-> fs[n].mtime]
    <3>1. stack' = SetEntry(Top.todo \ {n}, e) /\ n \in Top.todo
      BY <2>2 DEF StatEntry, Reading
    <3>2. fs[n].type \in {"file", "dir", "loop"} /\ fs[n].mtime \in 0..MaxChanges
      BY <2>2, EntryFields DEF StatEntry, Typed, Scalars
    <3>3. e \in Stat /\ e.type # "none" /\ e.node = n
      BY <3>2 DEF Stat
    <3>. HIDE DEF e
    <3>. QED  BY <1>1, <2>0, <3>1, <3>3, OnceSet
  <2>3. CASE AncestorLoop
    <3>1. stack' = SetEntry(Top.todo, NoEntry)
      BY <2>3 DEF AncestorLoop, EntryDone
    <3>. QED  BY <1>1, <2>0, <3>1, OnceSet
  <2>. QED  BY <2>1, <2>2, <2>3
<1>3. reader.path # Root => reader.path \in Nodes
  BY DEF Typed, Scalars, Readers
<1>. QED  BY <1>1, <1>2, <1>3 DEF ReadOnce

\* RegularFile scans a container that is not the open one.
LEMMA RegularFileFresh ==
  ASSUME Typed, ReadOnce, RegularFile
  PROVE  ~Kept(Top.entry.node)
<1>1. Top.entry.node \in Nodes /\ stack # << >>
  BY ScanningFacts DEF RegularFile
<1>2. Len(stack) \in 1..Len(stack)
  BY <1>1, TopFrame DEF Typed
<1>3. reader.path # Root => PassedIn(Top, reader.path)
  BY <1>2 DEF ReadOnce, Passed, Top
<1>. QED  BY <1>1, <1>3, TreeAssumption DEF Kept, PassedIn

\* RegularFile leaves open what it has scanned, if anything.
LEMMA RegularFileReadOnce ==
  ASSUME Typed, ReadOnce, RegularFile
  PROVE  ReadOnce'
<1>. DEFINE n == Top.entry.node
            t == Top.entry.mtime
<1>1. n \in Nodes /\ stack # << >> /\ pc = "walk" /\ Scanning("file") /\ Top.todo \subseteq Top.todo
  BY ScanningFacts DEF RegularFile
<1>2. Flags /\ Once(stack) /\ NoEntry \in Stat
  BY NoEntryIsStat DEF Typed, Scalars, Flags, ReadOnce
<1>3. ~Kept(n)
  BY RegularFileFresh
<1>4. stack' = EntryDone /\ pc' = pc /\ reader' \in ReadersAfter(n, t) /\ stale' = StaleAfter(n, t)
  BY DEF RegularFile
<1>5. Once(EntryDone) /\ \A p \in Nodes : Passed(stack, p) => Passed(EntryDone, p)
  BY <1>1, <1>2, OnceSet DEF EntryDone
<1>6. Passed(EntryDone, n)
  BY <1>1, <1>2, EntryPassed
<1>7. stale' = {}
  BY <1>3, <1>4 DEF StaleAfter, ReadOnce
<1>8. reader' = reader \/ reader'.path \in {n, Root}
  <2>1. reader' \in {reader, Opened(n), NoReader}
    BY <1>4 DEF ReadersAfter
  <2>2. Opened(n).path \in {n, Root} /\ NoReader.path = Root
    BY <1>1, <1>2, OpenedType DEF NoReader
  <2>. QED  BY <2>1, <2>2
<1>9. reader.path # Root => reader.path \in Nodes /\ Passed(stack, reader.path)
  BY DEF Typed, Scalars, Readers, ReadOnce
<1>10. reader'.path # Root => Passed(EntryDone, reader'.path)
  BY <1>5, <1>6, <1>8, <1>9
<1>. QED  BY <1>1, <1>4, <1>5, <1>7, <1>10 DEF ReadOnce

\* Subdirectory opens nothing and reads what is in an entry.
LEMMA SubdirectoryReadOnce ==
  ASSUME Typed, ReadOnce, Subdirectory
  PROVE  ReadOnce'
<1>. DEFINE n == Top.entry.node
            k == Len(stack)
            s == EntryDone
<1>1. /\ n \in Nodes /\ stack # << >> /\ pc = "walk" /\ Scanning("dir")
      /\ Top.todo \subseteq Top.todo
  BY ScanningFacts DEF Subdirectory
<1>2. Once(stack) /\ NoEntry \in Stat /\ k \in Nat /\ k \in 1..k /\ Frames(db, stack)
  BY <1>1, NoEntryIsStat, TopFrame DEF ReadOnce, Typed
<1>3. reader' = reader /\ stale' = stale /\ pc' = pc
  BY DEF Subdirectory, scanner
<1>4. Once(s) /\ \A p \in Nodes : Passed(stack, p) => Passed(s, p)
  BY <1>1, <1>2, OnceSet DEF EntryDone
<1>5. reader.path # Root => reader.path \in Nodes /\ Passed(stack, reader.path)
  BY DEF Typed, Scalars, Readers, ReadOnce
<1>6. CASE stack' = s
  BY <1>1, <1>3, <1>4, <1>5, <1>6 DEF ReadOnce
<1>7. CASE EnterDirectory(MakeRealChild(db, n), modified, n, Top.entry.mtime, EntryDone)
  <2>. DEFINE f == NewFrame(n, Top.entry.mtime)
  <2>1. /\ Len(stack') = k + 1 /\ stack'[k + 1] = f /\ \A i \in 1..k : stack'[i] = s[i]
    BY <1>1, <1>7, SubdirectoryEnters
  <2>2. f.dir = n /\ f.entry.node = Root /\ f.todo \subseteq Children(n)
    BY NoEntryIsStat DEF NewFrame
  <2>3. Outside(db, db, n)
    BY DEF Outside, SameAt
  <2>4. Len(s) = k /\ s[k].todo = Top.todo
    BY <1>1, <2>3, EntryDoneFacts
  <2>5. n \notin Top.todo
    BY <1>2 DEF Once, Top
  <2>. HIDE DEF f, s, n
  <2>6. ASSUME NEW i \in 1..Len(stack')
        PROVE  /\ stack'[i].entry.node \notin stack'[i].todo
               /\ i < Len(stack') => stack'[i + 1].dir \notin stack'[i].todo
    <3>1. CASE i = k + 1
      <4>1. Root \notin f.todo
        BY <2>2, TreeAssumption DEF Children
      <4>. QED  BY <1>2, <2>1, <2>2, <3>1, <4>1
    <3>2. CASE i = k
      <4>1. s[k].entry.node \notin s[k].todo
        BY <1>2, <1>4, <2>4 DEF Once
      <4>. QED  BY <1>2, <2>1, <2>2, <2>4, <2>5, <3>2, <4>1
    <3>3. CASE i < k
      <4>1. i \in 1..Len(s) /\ i + 1 \in 1..k /\ i \in 1..k /\ i < Len(s)
        BY <1>2, <2>1, <2>4, <3>3
      <4>2. s[i].entry.node \notin s[i].todo /\ s[i + 1].dir \notin s[i].todo
        BY <1>4, <4>1 DEF Once
      <4>. QED  BY <2>1, <4>1, <4>2
    <3>. QED  BY <1>2, <2>1, <3>1, <3>2, <3>3
  <2>7. ASSUME NEW p \in Nodes, Passed(stack, p) PROVE Passed(stack', p)
    <3>1. n # p /\ n \notin Ancestors[p]
      BY <1>2, <2>7 DEF Passed, PassedIn, Top, n
    <3>2. ASSUME NEW m \in Children(n) PROVE m # p /\ m \notin Ancestors[p]
      <4>1. m \in Nodes /\ n \in Ancestors[m]
        BY <1>1, <3>2, AncestorsUnfold, TreeAssumption DEF Children
      <4>2. m \in Ancestors[p] => n \in Ancestors[p]
        BY <4>1, AncestorsTransitive
      <4>. QED  BY <3>1, <4>1, <4>2
    <3>3. Root # p /\ Root \notin Ancestors[p]
      BY AncestorsAreNodes, TreeAssumption
    <3>4. PassedIn(f, p)
      BY <2>2, <3>2, <3>3 DEF PassedIn
    <3>5. \A i \in 1..k : PassedIn(s[i], p)
      BY <1>4, <2>4, <2>7 DEF Passed
    <3>6. ASSUME NEW i \in 1..Len(stack') PROVE PassedIn(stack'[i], p)
      <4>1. CASE i = k + 1
        BY <2>1, <3>4, <4>1
      <4>2. CASE i \in 1..k
        BY <2>1, <3>5, <4>2
      <4>. QED  BY <1>2, <2>1, <4>1, <4>2
    <3>. QED  BY <3>6 DEF Passed
  <2>. QED  BY <1>1, <1>3, <1>5, <2>6, <2>7 DEF ReadOnce, Once
<1>. QED  BY <1>6, <1>7 DEF Subdirectory

\* A call that returns reads nothing more.
LEMMA EndReadOnce ==
  ASSUME Typed, ReadOnce, EndDirectory \/ EndUri
  PROVE  ReadOnce'
<1>1. /\ stack # << >> /\ Frames(db, stack) /\ stack' = SubSeq(stack, 1, Len(stack) - 1)
      /\ pc' = "walk" /\ reader' = reader /\ stale' = stale
  BY DEF EndDirectory, EndUri, InDirectory, Typed, scanner
<1>2. /\ Len(stack') = Len(stack) - 1 /\ \A i \in 1..Len(stack') : stack'[i] = stack[i]
      /\ Len(stack) \in Nat /\ Len(stack) \in 1..Len(stack)
  BY <1>1, PopFrame, TopFrame
<1>3. ASSUME NEW i \in 1..Len(stack')
      PROVE  /\ stack'[i].entry.node \notin stack'[i].todo
             /\ i < Len(stack') => stack'[i + 1].dir \notin stack'[i].todo
  <2>1. i \in 1..Len(stack) /\ stack'[i] = stack[i]
    BY <1>2
  <2>2. i < Len(stack') => i < Len(stack) /\ stack'[i + 1] = stack[i + 1]
    BY <1>2
  <2>. QED  BY <2>1, <2>2 DEF ReadOnce, Once
<1>4. \A p : Passed(stack, p) => Passed(stack', p)
  BY <1>2 DEF Passed
<1>. QED  BY <1>1, <1>3, <1>4 DEF ReadOnce, Once

\* A process and its walk begin with nothing open.
LEMMA StartReadOnce ==
  ASSUME Typed, ReadOnce, NEW discard, StartWalk(discard)
  PROVE  ReadOnce'
<1>1. pc = "idle" /\ reader' = NoReader /\ stale' = {} /\ pc' # "idle" /\ NoReader.path = Root
  BY DEF StartWalk, ReadOnce, scanner, NoReader
<1>2. CASE EnterDirectory(db, FALSE, Root, 0, << >>)
  <2>. DEFINE f == NewFrame(Root, 0)
  <2>1. stack' = <<f>>
    BY <1>1, <1>2, StartWalkFacts
  <2>2. f.entry.node = Root /\ f.todo \subseteq Children(Root)
    BY NoEntryIsStat DEF NewFrame
  <2>3. Root \notin f.todo
    BY <2>2, TreeAssumption DEF Children
  <2>. HIDE DEF f
  <2>4. Len(stack') = 1 /\ stack'[1] = f
    BY <2>1
  <2>5. Once(stack')
    BY <2>2, <2>3, <2>4 DEF Once
  <2>. QED  BY <1>1, <2>5 DEF ReadOnce
<1>3. CASE UNCHANGED stack
  BY <1>1, <1>3 DEF ReadOnce
<1>. QED  BY <1>2, <1>3 DEF StartWalk

\* Every step of mpd-dbcreate keeps this.
LEMMA StepReadOnce ==
  ASSUME OneShot, Typed, ReadOnce, [Next]_vars PROVE ReadOnce'
<1>1. CASE \E n \in Nodes : SkipEntry(n) \/ DeleteEntry(n) \/ StatEntry(n)
  BY <1>1, EntryReadOnce
<1>2. CASE RegularFile
  BY <1>2, RegularFileReadOnce
<1>3. CASE Subdirectory
  BY <1>3, SubdirectoryReadOnce
<1>4. CASE AncestorLoop
  <2>1. \E n \in Nodes : TRUE
    BY <1>4, ScanningFacts DEF AncestorLoop
  <2>. QED  BY <1>4, <2>1, EntryReadOnce
<1>5. CASE EndDirectory \/ EndUri
  BY <1>5, EndReadOnce
<1>6. CASE FinishWalk \/ TaskSave \/ MainSave
  <2>1. UNCHANGED <<reader, stale, stack>> /\ pc' # "idle"
    BY <1>6 DEF FinishWalk, TaskSave, MainSave, scanner
  <2>. QED  BY <2>1 DEF ReadOnce
<1>7. CASE \E m \in Modes : Open(m)
  <2>1. reader' = NoReader /\ stale' = stale /\ stack' = stack
    BY <1>7 DEF Open
  <2>. QED  BY <2>1 DEF ReadOnce, NoReader
<1>8. CASE \E discard \in {FALSE, DiscardAllowed} : StartWalk(discard)
  BY <1>8, StartReadOnce
<1>9. CASE \E discard \in {FALSE, DiscardAllowed} : \E n \in Nodes : StartUpdateUri(n, discard)
  BY <1>9 DEF StartUpdateUri
<1>10. CASE Exit \/ \E n \in Nodes : PlayTrack(n)
  BY <1>10 DEF Exit, PlayTrack
<1>11. CASE Cancel
  <2>1. UNCHANGED <<reader, stale, stack, pc>>
    BY <1>11 DEF Cancel, scanner
  <2>. QED  BY <2>1 DEF ReadOnce
<1>12. CASE \/ \E n \in Nodes : \E e \in Contents(n) : ChangeFile(n, e)
            \/ \E n \in Nodes : ChangeAccess(n)
            \/ \E n \in Ignorable : ChangeIgnore(n)
  <2>1. UNCHANGED <<reader, stale, stack, pc>>
    BY <1>12 DEF ChangeFile, ChangeAccess, ChangeIgnore, changed, scanner
  <2>. QED  BY <2>1 DEF ReadOnce
<1>13. CASE UNCHANGED vars
  BY <1>13 DEF vars, ReadOnce
<1>. QED  BY <1>1, <1>2, <1>3, <1>4, <1>5, <1>6, <1>7, <1>8, <1>9, <1>10, <1>11, <1>12, <1>13
          DEF Next, WalkStep

\* Every step of mpd-dbcreate keeps a walk settled, or disturbs it.
LEMMA StepSettled ==
  ASSUME OneShot, OneMode, Typed, History, Settled, ReadOnce, [Next]_vars PROVE Settled'
<1>1. CASE \E n \in Nodes : SkipEntry(n) \/ DeleteEntry(n) \/ StatEntry(n)
  BY <1>1, SkipEntrySettled, DeleteEntrySettled, StatEntrySettled
<1>2. CASE RegularFile
  BY <1>2, RegularFileSettled, RegularFileFresh
<1>3. CASE Subdirectory
  BY <1>3, SubdirectorySettled
<1>4. CASE AncestorLoop
  BY <1>4, AncestorLoopSettled
<1>5. CASE EndDirectory
  BY <1>5, EndDirectorySettled
<1>6. CASE EndUri
  BY <1>6, NoSingleFrame DEF EndUri
<1>7. CASE FinishWalk
  BY <1>7, FinishWalkSettled
<1>8. CASE TaskSave
  BY <1>8, TaskSaveSettled
<1>9. CASE MainSave
  BY <1>9, MainSaveSettled
<1>10. CASE undisturbed' = FALSE
  BY <1>10 DEF Settled
<1>11. CASE \E discard \in {FALSE, DiscardAllowed} : StartWalk(discard)
  BY <1>11, StartWalkSettled
<1>12. CASE \E discard \in {FALSE, DiscardAllowed} : \E n \in Nodes : StartUpdateUri(n, discard)
  BY <1>12 DEF StartUpdateUri
<1>13. CASE Exit \/ \E n \in Nodes : PlayTrack(n)
  BY <1>13 DEF Exit, PlayTrack
<1>14. CASE UNCHANGED vars
  <2>1. fs' = fs /\ ignore' = ignore /\ mode' = mode /\ db' = db /\ stack' = stack
    BY <1>14 DEF vars
  <2>2. undisturbed' = undisturbed /\ cancel' = cancel
    BY <1>14 DEF vars
  <2>3. /\ (\A n \in Nodes : Right(db, n)) => (\A n \in Nodes : Right(db, n)')
        /\ ArchivesTrue(db) => ArchivesTrue(db)'
        /\ Progress(db, stack) => Progress(db, stack)'
    BY <2>1, SettledSeen
  <2>. QED  BY <2>1, <2>2, <2>3 DEF Settled
<1>15. (\E m \in Modes : Open(m)) \/ Cancel => undisturbed' = FALSE
  BY DEF Open, Cancel
<1>16. (\E n \in Nodes : \E e \in Contents(n) : ChangeFile(n, e)) \/ (\E n \in Nodes : ChangeAccess(n))
         \/ (\E n \in Ignorable : ChangeIgnore(n)) => undisturbed' = FALSE
  BY DEF ChangeFile, ChangeAccess, ChangeIgnore
<1>. QED  BY <1>1, <1>2, <1>3, <1>4, <1>5, <1>6, <1>7, <1>8, <1>9, <1>10, <1>11, <1>12, <1>13, <1>14,
             <1>15, <1>16 DEF Next, WalkStep

\* mpd-dbcreate, run again and again with one channel mode: an update that nothing
\* interferes with leaves exactly the songs and tracks a full scan would find, whatever
\* came before it (UpdateDirectory() and all it calls); and no container is ever scanned
\* through a reader that was opened before (container_update()).
THEOREM WalksAreComplete ==
  ASSUME OneShot, OneMode
  PROVE  Spec => []WalkComplete
<1>. DEFINE IInv == Typed /\ History /\ Settled /\ ReadOnce
<1>1. Init => IInv
  <2>1. Init => Settled
    BY DEF Init, Settled
  <2>2. Init => ReadOnce
    BY DEF Init, ReadOnce, Once, NoReader
  <2>. QED  BY <2>1, <2>2, InitTyped, InitHistory
<1>2. IInv /\ [Next]_vars => IInv'
  BY StepTyped, StepHistory, StepSettled, StepReadOnce, RegularFileFresh
<1>3. IInv => WalkComplete
  <2>. SUFFICES ASSUME Typed, History, Settled, ReadOnce, AfterWalk PROVE WalkComplete
    BY DEF WalkComplete, ReadOnce
  <2>1. scope = Root /\ stack = << >> /\ undisturbed /\ stale = {}
    BY DEF History, AfterWalk, Typed, ReadOnce
  <2>2. Covered = Nodes /\ Leftover = {}
    BY <2>1 DEF Covered, Leftover, Outdated
  <2>3. \A n \in Nodes : Right(db, n)
    BY <2>1 DEF Settled
  <2>4. DOMAIN db.songs \subseteq Nodes /\ DOMAIN db.dirs \subseteq Nodes
    BY Fields DEF Typed, Proper
  <2>5. ExpectedSongs \subseteq Nodes
    BY DEF ExpectedSongs
  <2>6. /\ ExpectedSongs \cap Covered \subseteq DOMAIN db.songs
        /\ DOMAIN db.songs \cap Covered \subseteq ExpectedSongs \cup Leftover
    BY <2>2, <2>3, <2>4, <2>5 DEF Right
  <2>7. \A n \in ExpectedSongs \cap Covered : db.songs[n].channels = fs[n].plain
    BY <2>3, <2>5 DEF Right
  <2>8. \A n \in Covered : Kind[n] \in {"container", "archive"} =>
          \/ TracksIn(db, n, Kind[n]) = ExpectedTracks(n)
          \/ (Kind[n] = "archive" \/ n \in Leftover) /\ ~fs[n].access
    BY <2>2, <2>3 DEF Right, TracksRight
  <2>9. \A n \in DOMAIN db.dirs \cap Covered : fs[n].type \in {"dir", "file"}
    BY <2>3, <2>4 DEF Right
  <2>. QED  BY <2>1, <2>6, <2>7, <2>8, <2>9 DEF WalkComplete
<1>. HIDE DEF IInv
<1>. QED  BY <1>1, <1>2, <1>3, PTL DEF Spec
=============================================================================
