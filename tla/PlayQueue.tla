------------------------------ MODULE PlayQueue ------------------------------
(***************************************************************************)
(* The play queue (queue/Queue.cxx) and its table of song ids              *)
(* (queue/IdTable.hxx) as a data structure: every method is an operator    *)
(* from a queue to a queue, or, where it draws random numbers, to the set  *)
(* of the queues it may leave behind.                                      *)
(*                                                                         *)
(* Positions, order numbers and ids count from 1; 0 stands for the code's  *)
(* -1.  Ranges are half-open, as in the code.  Title and tags of a song    *)
(* are one value, "tag", that an edit flips.                               *)
(***************************************************************************)
EXTENDS Integers, Sequences, FiniteSets

CONSTANTS
    Songs,       \* URIs
    MaxLength,   \* Queue::max_length
    IdSize,      \* IdTable::size (max_length * HASH_MULT)
    MaxVersion   \* where IncrementVersion() wraps: 2^31 - 1 in the code

ASSUME PlayQueueAssumption ==
    /\ MaxLength \in Nat \ {0}
    /\ IdSize \in Nat /\ IdSize > MaxLength
    /\ MaxVersion \in Nat /\ MaxVersion > 1

Ids == 1 .. IdSize - 1
Modes == {"OFF", "ON", "ONE_SHOT"}

\* A queue without songs: its version and the next id depend on its past.
Empty(version, next) ==
    [items |-> <<>>, order |-> <<>>, table |-> [i \in Ids |-> 0], next |-> next,
     version |-> version, repeat |-> FALSE, random |-> FALSE, single |-> "OFF", consume |-> "OFF"]

Length(q) == Len(q.items)
Positions(q) == 1 .. Length(q)
OrderToPosition(q, o) == q.order[o]
PositionToOrder(q, p) == CHOOSE o \in Positions(q) : q.order[o] = p
AtOrder(q, o) == q.items[q.order[o]]
Priority(q, o) == AtOrder(q, o).priority

\* Queue::GetNextOrder()
GetNextOrder(q, o) ==
    CASE q.single # "OFF" /\ q.repeat /\ q.consume = "OFF" -> o
      [] OTHER -> IF o < Length(q) THEN o + 1
                  ELSE IF q.repeat /\ (o > 1 \/ q.consume = "OFF") THEN 1 ELSE 0

\* Queue::IncrementVersion(): after an overflow every song counts as modified.
IncrementVersion(q) ==
    IF q.version + 1 >= MaxVersion
    THEN [q EXCEPT !.version = 1, !.items = [p \in DOMAIN @ |-> [@[p] EXCEPT !.version = 0]]]
    ELSE [q EXCEPT !.version = @ + 1]

\* Queue::IsNewerAtPosition(): is the song announced to a client that knows version v?
IsNewerAtPosition(q, p, v) ==
    v > q.version \/ q.items[p].version >= v \/ q.items[p].version = 0

\* The tag of a song is replaced (DetachedSong::SetTag() and the like).
NewTag(q, p) == [q EXCEPT !.items[p].tag = ~@]

ModifyAtPosition(q, p) == [q EXCEPT !.items[p].version = q.version]

\* IdTable::GenerateId(): the next unused id, in the order of the counter
GenerateId(q) ==
    LET unused == {i \in Ids : q.table[i] = 0}
        ahead == {i \in unused : i >= q.next}
        from == IF ahead = {} THEN unused ELSE ahead
    IN  CHOOSE i \in from : \A j \in from : i <= j

\* Queue::Append()
AppendItem(q, song, priority, tag) ==
    LET id == GenerateId(q)  p == Length(q) + 1 IN
    [q EXCEPT !.items = Append(@, [id |-> id, song |-> song, version |-> q.version,
                                   priority |-> priority, tag |-> tag]),
              !.order = Append(@, p),
              !.table[id] = p,
              !.next = IF id + 1 = IdSize THEN 1 ELSE id + 1]

AppendSong(q, song) == AppendItem(q, song, 0, FALSE)

\* queue_load_song(): a song with its priority, as queue_save() has written it; the
\* song still exists
LoadSong(q, item) ==
    IF Length(q) = MaxLength THEN q ELSE AppendItem(q, item.song, item.priority, item.tag)

\* playlist_state_load(): the songs of the state file
Loaded(q, items) ==
    LET done[n \in 0 .. Len(items)] == IF n = 0 THEN q ELSE LoadSong(done[n - 1], items[n])
    IN  IncrementVersion(done[Len(items)])

\* Faulty variant: a song that moves is not marked as modified.
MovedSilently(item, version) == item

\* MoveItemTo(): a song that moves is marked as modified.
Moved(item, version) == [item EXCEPT !.version = version]

\* The songs at the positions in the domain of "from" are replaced by those at
\* from[p] (MoveItemTo(), SwapPositions()), and the table of ids follows.
Rearranged(q, from) ==
    [q EXCEPT !.items = [p \in DOMAIN @ |-> IF p \in DOMAIN from
                                            THEN Moved(@[from[p]], q.version)
                                            ELSE @[p]],
              !.table = [i \in Ids |-> IF \E p \in DOMAIN from : q.items[from[p]].id = i
                                       THEN CHOOSE p \in DOMAIN from : q.items[from[p]].id = i
                                       ELSE @[i]]]

SwapPositions(q, a, b) == Rearranged(q, [p \in {a, b} |-> IF p = a THEN b ELSE a])

SwapOrders(q, a, b) == [q EXCEPT !.order = [@ EXCEPT ![a] = q.order[b], ![b] = q.order[a]]]

\* Queue::MoveRange(): the songs from "start" to before "end" go to "to".
MoveRange(q, start, end, to) ==
    LET n == end - start
        lo == IF to < start THEN to ELSE start
        hi == IF to < start THEN end ELSE to + n
        moved == Rearranged(q, [p \in lo .. hi - 1 |->
                     CASE p >= to /\ p < to + n -> p - to + start
                       [] p < to -> p + n
                       [] OTHER -> p - n])
        New(p) == CASE p >= end /\ p < to + n -> p - n
                    [] p < start /\ p >= to -> p + n
                    [] p >= start /\ p < end -> p + to - start
                    [] OTHER -> p
    IN  IF q.random THEN [moved EXCEPT !.order = [o \in DOMAIN @ |-> New(@[o])]] ELSE moved

\* Queue::MoveOrder(), MoveOrderBefore() and MoveOrderAfter()
MoveOrder(q, from, to) ==
    [q EXCEPT !.order = [o \in DOMAIN @ |->
        CASE o = to -> @[from]
          [] from <= o /\ o < to -> @[o + 1]
          [] to < o /\ o <= from -> @[o - 1]
          [] OTHER -> @[o]]]
BeforeOrder(from, to) == IF from < to THEN to - 1 ELSE to
AfterOrder(from, to) == IF from > to THEN to + 1 ELSE to

\* Faulty variant: later positions are not adjusted.
WithoutKept(p, removed) == p

\* A position after the song at another one was removed
Without(p, removed) == IF p > removed THEN p - 1 ELSE p

\* Queue::DeletePosition()
DeletePosition(q, p) ==
    LET o == PositionToOrder(q, p)
        n == Length(q) - 1
        after == p + 1 .. n + 1
    IN
    [q EXCEPT !.items = [i \in 1 .. n |-> IF i < p THEN @[i] ELSE Moved(@[i + 1], q.version)],
              !.table = [i \in Ids |-> IF i = q.items[p].id THEN 0
                                       ELSE IF \E r \in after : q.items[r].id = i
                                       THEN (CHOOSE r \in after : q.items[r].id = i) - 1
                                       ELSE @[i]],
              !.order = [i \in 1 .. n |-> Without(@[IF i < o THEN i ELSE i + 1], p)]]

\* Queue::Clear()
Clear(q) ==
    [q EXCEPT !.items = <<>>, !.order = <<>>,
              !.table = [i \in Ids |-> IF \E p \in Positions(q) : q.items[p].id = i THEN 0 ELSE @[i]]]

RestoreOrder(q) == [q EXCEPT !.order = [o \in DOMAIN @ |-> o]]

----------------------------------------------------------------------------
(* Operations that draw random numbers.                                    *)

Arrangements(S) == {f \in [S -> S] : \A a, b \in S : f[a] = f[b] => a = b}

\* Queue::ShuffleOrder(): sorted by priority, shuffled within each priority
ShuffleOrder(q) ==
    {[q EXCEPT !.order = f] : f \in {f \in Arrangements(Positions(q)) :
        \A a, b \in Positions(q) : a < b => q.items[f[a]].priority >= q.items[f[b]].priority}}

\* Queue::ShuffleOrderLastWithPriority(): the last song within its priority
ShuffleOrderLastWithPriority(q, start) ==
    LET last == Length(q)
        same == {o \in start .. last : Priority(q, o) = Priority(q, last)}
        first == CHOOSE o \in same : \A r \in same : o <= r
    IN  {SwapOrders(q, last, o) : o \in first .. last}

\* Queue::ShuffleRange()
ShuffleRange(q, start, end) == {Rearranged(q, f) : f \in Arrangements(start .. end - 1)}

\* Queue::SetPriority() with "reorder", and without it
ChangePriority(q, p, priority) ==
    [q EXCEPT !.items[p].version = q.version, !.items[p].priority = priority]

SetPriority(q, p, priority, after) ==
    LET r == ChangePriority(q, p, priority)
        o == PositionToOrder(q, p)
        lower == {i \in after + 1 .. Length(q) : Priority(r, i) <= priority /\ i # o}
        before == IF lower = {} THEN Length(q) + 1 ELSE CHOOSE i \in lower : \A j \in lower : i <= j
        new == BeforeOrder(o, before)
        moved == MoveOrder(r, o, new)
        others == {i \in new .. Length(q) : Priority(moved, i) # priority}
        end == IF others = {} THEN Length(q) + 1 ELSE CHOOSE i \in others : \A j \in others : i <= j
    IN  CASE q.items[p].priority = priority -> {q}
          [] q.items[p].priority # priority
               /\ (\/ ~q.random \/ o = after
                   \/ o < after /\ (priority <= q.items[p].priority \/ priority <= Priority(q, after))) -> {r}
          [] OTHER -> {SwapOrders(moved, new, i) : i \in new .. end - 1}

\* Queue::SetPriorityRange(): "after" is looked up again for each song.
SetPriorityRange(q, start, end, priority, after) ==
    LET position == IF after = 0 THEN 0 ELSE OrderToPosition(q, after)
        After(r) == IF position = 0 THEN 0 ELSE PositionToOrder(r, position)
        done[p \in start - 1 .. end - 1] ==
            IF p = start - 1 THEN {q}
            ELSE UNION {SetPriority(r, p, priority, After(r)) : r \in done[p - 1]}
    IN  done[end - 1]

----------------------------------------------------------------------------
\* Every song is in the order exactly once, and its id leads to its position.
Consistent(q) ==
    /\ Len(q.order) = Length(q)
    /\ \A p \in Positions(q) : \E o \in Positions(q) : q.order[o] = p
    /\ \A p \in Positions(q) : q.table[q.items[p].id] = p
    /\ \A i \in Ids : q.table[i] # 0 => q.table[i] \in Positions(q) /\ q.items[q.table[i]].id = i
=============================================================================
