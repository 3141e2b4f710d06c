------------------------------ MODULE Playlist ------------------------------
(***************************************************************************)
(* The playlist of a partition (queue/Playlist.cxx, PlaylistControl.cxx,   *)
(* PlaylistEdit.cxx): the main thread applies the clients' commands to the *)
(* queue and keeps "current" and "queued" in step with the player thread,  *)
(* which starts queued songs, ends and fails on its own.                   *)
(*                                                                         *)
(* A command is one action of the main thread.  It deals with the player   *)
(* only through PlayerControl, whose methods wait for the player thread.   *)
(* The player may have moved on whenever such a method is entered, so that *)
(* a command has several results: an operator maps a world (queue,         *)
(* playlist, player, and whether an exception is on its way) to the set of *)
(* the worlds it may lead to.  The player thread is Player.tla, seen from  *)
(* PlayerControl's methods.                                                *)
(***************************************************************************)
EXTENDS PlayQueue

CONSTANTS
    Priorities,   \* bound: priorities that clients ask for
    Cautious,     \* clients keep away from the three situations in which the code
                  \* loses track of the current song (see MoveSongs, SetConsume, Add)
    Saved,        \* bound: songs in the state file when the program starts
    MaxCommands   \* bound: commands of clients

\* The null pointer
None == "none"

ASSUME PlaylistAssumption ==
    /\ Priorities \subseteq 0 .. 255
    /\ Cautious \in BOOLEAN /\ MaxCommands \in Nat
    /\ MaxVersion > 3
    /\ None \notin Songs
    /\ \A s \in Saved : s \in Seq(Songs) /\ Len(s) <= MaxLength

VARIABLES
    queue,   \* playlist::queue
    list,    \* the other fields of playlist; ghosts: "fine" turns false if an assert()
             \* fails, "boot" counts the starts of the program
    pc,      \* PlayerControl: songs are copies, given by their URI, or None;
             \* "sync" and "bordered" are events on their way to the main thread
    left     \* commands left

vars == <<queue, list, pc, left>>

NewList == [playing |-> FALSE, current |-> 0, queued |-> 0,
            stop_on_error |-> FALSE, errors |-> 0, fine |-> TRUE, boot |-> 0]
NewPlayer == [state |-> "STOP", song |-> None, next |-> None, error |-> "NONE",
              border |-> FALSE, sync |-> FALSE, bordered |-> FALSE]

World == [q |-> queue, l |-> list, pc |-> pc, thrown |-> FALSE, bulk |-> FALSE]

\* One operation after another; an exception skips the rest.
Then(S, Op(_)) == UNION {IF w.thrown THEN {w} ELSE Op(w) : w \in S}
Caught(S) == {[w EXCEPT !.thrown = FALSE] : w \in S}
Throw(w) == [w EXCEPT !.thrown = TRUE]
Asserting(w, condition) == [w EXCEPT !.l.fine = @ /\ condition]

----------------------------------------------------------------------------
(* PlayerControl                                                           *)

Error(p, e) == IF e = "NONE" THEN p ELSE [p EXCEPT !.error = e]

\* Player::Run() ends: a queued song is dropped, and the playlist is told.
Ended(p, e) == Error([p EXCEPT !.state = "STOP", !.song = None, !.next = None, !.sync = TRUE], e)

\* Player::Run() begins with a song.
Started(p, song) == [p EXCEPT !.state = "PLAY", !.song = song, !.next = None, !.sync = TRUE]

\* What the player thread does on its own: it goes on with the queued song and
\* pauses there if asked to, it ends, fails to decode or loses its outputs.
PlayerSteps(p) ==
    (IF p.state = "PLAY" /\ p.next # None
     THEN {[p EXCEPT !.song = p.next, !.next = None, !.sync = TRUE,
                     !.state = IF p.border THEN "PAUSE" ELSE @, !.bordered = @ \/ p.border]}
     ELSE {})
    \cup (IF p.state = "PLAY" /\ p.next = None THEN {Ended(p, "NONE")} ELSE {})
    \cup (IF p.state = "PLAY" THEN {Error([p EXCEPT !.state = "PAUSE"], "OUTPUT")} ELSE {})
    \cup (IF p.state # "STOP" THEN {Ended(p, "DECODER")} ELSE {})

\* A method of PlayerControl is entered: the player may have taken steps before.
Enter(w) ==
    LET once == PlayerSteps(w.pc)
        twice == UNION {PlayerSteps(p) : p \in once}
    IN  {[w EXCEPT !.pc = p] : p \in {w.pc} \cup once \cup twice}

\* CANCEL: too late if the player has started the song already.
Cancelled(p) ==
    IF p.state # "STOP" /\ p.next = None THEN Ended(p, "NONE") ELSE [p EXCEPT !.next = None]

LockCancel(w) == {[v EXCEPT !.pc = Cancelled(v.pc)] : v \in Enter(w)}

LockStop(w) ==
    {[v EXCEPT !.pc = IF v.pc.state = "STOP" THEN v.pc ELSE Ended(v.pc, "NONE")] : v \in Enter(w)}

\* QUEUE: a player that has stopped starts with this song.
LockEnqueueSong(w, song) ==
    {[Asserting(v, v.pc.next = None) EXCEPT
         !.pc = IF v.pc.state = "STOP" THEN Started(v.pc, song) ELSE [v.pc EXCEPT !.next = song]]
     : v \in Enter(w)}

\* PAUSE: the outputs may fail to open again.
PauseLocked(w) ==
    CASE w.pc.state = "STOP" -> {w}
      [] w.pc.state = "PLAY" -> {[w EXCEPT !.pc.state = "PAUSE"]}
      [] OTHER -> {[w EXCEPT !.pc.state = "PLAY"], [w EXCEPT !.pc = Error(@, "OUTPUT")]}

\* Player::OpenOutput() fails: the player pauses.
Stalled(p) == Error([p EXCEPT !.state = "PAUSE"], "OUTPUT")

\* SEEK: the song is started, or the position within it is changed if the player
\* is playing this URI; it cannot be seeked, the decoder fails, or the outputs do
\* before the error is tested.
Seek(w, song, zero) ==
    LET p == [w.pc EXCEPT !.error = "NONE"]
        v == Asserting(w, w.pc.next = None)
        same == p.state # "STOP" /\ p.song = song
        playing == IF p.state = "STOP" THEN Started(p, song)
                   ELSE [p EXCEPT !.song = song, !.next = None, !.sync = TRUE]
        stalled(r) == IF r.state = "PLAY" THEN {Throw([v EXCEPT !.pc = Stalled(r)])} ELSE {}
    IN  {[v EXCEPT !.pc = playing], Throw([v EXCEPT !.pc = Ended(playing, "DECODER")])}
        \cup stalled(playing)
        \cup (IF same THEN {[v EXCEPT !.pc = p]} \cup stalled(p) ELSE {})
        \cup (IF same /\ ~zero THEN {Throw([v EXCEPT !.pc = Error(p, "DECODER")])} ELSE {})

\* Faulty variant: a song that was queued before is not cancelled.
SeekLockedKeepsNext(w, song, zero) == UNION {Seek(v, song, zero) : v \in Enter(w)}

SeekLocked(w, song, zero) ==
    UNION {Seek(v, song, zero) : v \in
        UNION {IF v.pc.next = None THEN {v} ELSE LockCancel(v) : v \in Enter(w)}}

\* PlayerControl::Play()
Play(w, song) ==
    Then(SeekLocked(w, song, TRUE),
         LAMBDA v : IF v.pc.state = "PAUSE" THEN PauseLocked(v) ELSE {v})

ClearError(w) == [w EXCEPT !.pc.error = "NONE"]
SetBorderPause(w) == [w EXCEPT !.pc.border = w.q.single # "OFF" /\ ~w.q.repeat]

----------------------------------------------------------------------------
(* The playlist's own methods.                                             *)

CurrentPosition(w) == IF w.l.current = 0 THEN 0 ELSE OrderToPosition(w.q, w.l.current)

\* GetQueuedSong(): the queue's item, given by its id
GetQueuedSong(w) == IF w.l.playing /\ w.l.queued # 0 THEN AtOrder(w.q, w.l.queued).id ELSE 0

\* OnModified(); postponed during a bulk edit
OnModified(w) == IF w.bulk THEN w ELSE [w EXCEPT !.q = IncrementVersion(@)]

\* SongStarted(): the song's priority has served its purpose.
SongStarted(w) ==
    CASE w.l.current = 0 -> Asserting(w, FALSE)
      [] w.l.current # 0 /\ Priority(w.q, w.l.current) = 0 -> w
      [] OTHER -> OnModified([w EXCEPT !.q = ChangePriority(@, CurrentPosition(w), 0)])

\* PlayOrder()
PlayOrder(w, o) ==
    Then(Play([w EXCEPT !.l.playing = TRUE, !.l.queued = 0, !.l.current = o], AtOrder(w.q, o).song),
         LAMBDA v : {SongStarted(v)})

QueueSongOrder(w, o) == LockEnqueueSong([w EXCEPT !.l.queued = o], AtOrder(w.q, o).song)

\* The queue's order is shuffled; "current" stays with its song.
Reshuffled(w) ==
    {[w EXCEPT !.q = r, !.l.current = PositionToOrder(r, CurrentPosition(w))] : r \in ShuffleOrder(w.q)}

\* The second half of UpdateQueuedSong(): "next" replaces the song "prev".
Requeue(w, next, prev) ==
    LET song == IF next = 0 THEN 0 ELSE AtOrder(w.q, next).id
        Queue(v) == IF next = 0 THEN {v} ELSE QueueSongOrder(v, next)
    IN  CASE song = prev -> {[w EXCEPT !.l.queued = next]}
          [] song # prev /\ prev = 0 -> Queue(w)
          [] OTHER -> UNION {Queue([v EXCEPT !.l.queued = 0]) : v \in LockCancel(w)}

\* UpdateQueuedSong()
UpdateQueuedSong(w, prev) ==
    LET v == Asserting(w, w.q.items # <<>> /\ w.l.current # 0 /\ ((w.l.queued = 0) <=> (prev = 0)))
        next == GetNextOrder(w.q, w.l.current)
        again == next = 1 /\ w.q.random /\ w.q.single = "OFF"
    IN  IF ~w.l.playing \/ (w.bulk /\ prev = 0) THEN {w}
        ELSE UNION {Requeue(u, next, prev) : u \in IF again THEN Reshuffled(v) ELSE {v}}

Requeued(w, prev) == {OnModified(v) : v \in UpdateQueuedSong(w, prev)}

\* Stop()
StopWith(w) ==
    IF ~w.l.playing THEN {w}
    ELSE LET stopped == {[v EXCEPT !.l.queued = 0, !.l.playing = FALSE] : v \in LockStop(w)} IN
         IF w.q.random THEN UNION {Reshuffled(v) : v \in stopped} ELSE stopped

\* MoveOrderToCurrent(): a queue and the new order number
MoveOrderToCurrent(w, o) ==
    LET to == CASE w.l.playing -> AfterOrder(o, w.l.current)
                [] ~w.l.playing /\ w.l.current # 0 -> BeforeOrder(o, w.l.current)
                [] OTHER -> 1
    IN  IF w.q.random THEN [q |-> MoveOrder(w.q, o, to), o |-> to] ELSE [q |-> w.q, o |-> o]

\* Faulty variant: "current" is not moved down when an earlier song goes.
StillKept(current, o) == current

\* "current" after the song at an order number has gone
Still(current, o) == IF current > o THEN current - 1 ELSE current

\* DeleteInternal(): if the current song goes, another one is played, or playback
\* stops.  A song that cannot be played is skipped later.
DeleteInternal(w, p) ==
    LET o == PositionToOrder(w.q, p)
        next == GetNextOrder(w.q, o)
        replaced ==
            CASE w.l.playing /\ w.l.current = o ->
                   UNION {IF next # 0 /\ next # o /\ u.pc.state # "PAUSE"
                          THEN Caught(PlayOrder(u, next))
                          ELSE {[v EXCEPT !.l.playing = FALSE] :
                                 v \in LockStop([u EXCEPT !.l.current = IF next = o THEN 0 ELSE next])}
                          : u \in Enter(w)}
              [] ~w.l.playing /\ w.l.current = o -> {[w EXCEPT !.l.current = 0]}
              [] OTHER -> {w}
    IN  {[v EXCEPT !.q = DeletePosition(@, p),
                   !.l.current = Still(@, o)] : v \in replaced}

\* The song that was queued when a deletion began: forgotten if the current
\* song was deleted.
QueuedAfter(v, w) == IF w.l.playing /\ v.l.playing /\ v.l.queued = 0 THEN 0 ELSE GetQueuedSong(w)

\* DeleteRange(), DeletePosition(), DeleteId() and DeleteOrder()
DeleteRangeOf(w, start, end) ==
    LET done[p \in start .. end] ==
            IF p = end THEN {w} ELSE UNION {DeleteInternal(v, p) : v \in done[p + 1]}
    IN  UNION {Requeued(v, QueuedAfter(v, w)) : v \in done[start]}

DeleteOrder(w, o) == LET p == OrderToPosition(w.q, o) IN DeleteRangeOf(w, p, p + 1)

\* Consume mode removes the song that was current; "oneshot" ends then.
Consume(w, o) ==
    {[v EXCEPT !.q.consume = IF @ = "ONE_SHOT" THEN "OFF" ELSE @] :
        v \in IF w.q.consume = "OFF" THEN {w} ELSE DeleteOrder(w, o)}

\* PlayNext()
PlayNextOf(w) ==
    LET next == GetNextOrder(w.q, w.l.current)
        u == [Asserting(w, w.l.current \in Positions(w.q)) EXCEPT !.l.stop_on_error = FALSE]
        started == IF next = 0 THEN {[v EXCEPT !.l.current = 0] : v \in StopWith(u)}
                   ELSE UNION {PlayOrder([u EXCEPT !.q = r], next) :
                                 r \in IF next = 1 /\ u.q.random THEN ShuffleOrder(u.q) ELSE {u.q}}
    IN  Then(started, LAMBDA v : Consume(v, w.l.current))

\* Faulty variant: a player that has stopped is left alone.
ResumePlaybackNever(w) == {w}

\* ResumePlayback(): the player has stopped, because of an error or because it was
\* not given the next song in time.
ResumePlayback(w) ==
    LET errors == IF w.pc.error = "NONE" THEN 0 ELSE w.l.errors + 1
        v == [w EXCEPT !.l.errors = errors]
        stop == \/ w.l.stop_on_error /\ w.pc.error # "NONE"
                \/ w.pc.error = "OUTPUT"
                \/ errors >= Length(w.q)
    IN  IF stop THEN StopWith(v) ELSE Caught(PlayNextOf(v))

NoError(w) == [ClearError(w) EXCEPT !.l.stop_on_error = FALSE, !.l.errors = 0]

\* PlayPosition() and PlayId()
PlayPositionOf(w, p) ==
    LET m == MoveOrderToCurrent(w, IF w.q.random THEN PositionToOrder(w.q, p) ELSE p) IN
    PlayOrder([NoError(w) EXCEPT !.q = m.q], m.o)

\* SeekSongOrder(), for SeekSongPosition(), SeekSongId() and SeekCurrent()
SeekSongOrder(w, o, zero) ==
    LET m == MoveOrderToCurrent(w, o)
        v == [ClearError(w) EXCEPT !.l.stop_on_error = TRUE, !.l.errors = 0, !.l.queued = 0]
        u == IF w.l.playing /\ w.l.current = o THEN v
             ELSE [v EXCEPT !.q = m.q, !.l.playing = TRUE, !.l.current = m.o]
    IN  UNION {UpdateQueuedSong([t EXCEPT !.thrown = FALSE], 0) :
               t \in SeekLocked(u, AtOrder(u.q, u.l.current).song, zero)}

\* QueuedSongStarted()
QueuedSongStarted(w) ==
    LET v == [Asserting(w, w.l.current # 0) EXCEPT !.l.current = w.l.queued, !.l.queued = 0] IN
    {SongStarted(u) : u \in Consume(v, w.l.current)}

----------------------------------------------------------------------------
(* Actions: events of the player thread, in the main thread.               *)

\* The result of an operation, with the exception handed to the client
Result(S) ==
    \E w \in S : queue' = w.q /\ list' = w.l /\ pc' = w.pc

\* SyncWithPlayer()
SyncWithPlayer ==
    /\ pc.sync /\ UNCHANGED left
    /\ LET w == [World EXCEPT !.pc.sync = FALSE] IN
       IF ~list.playing THEN Result({w})
       ELSE Result(UNION {
            IF v.pc.state = "STOP" THEN ResumePlayback(v)
            ELSE UNION {UNION {IF u.pc.next = None /\ u.l.queued = 0 THEN UpdateQueuedSong(u, 0) ELSE {u}
                               : u \in Enter(t)}
                        : t \in IF v.pc.next = None /\ v.l.queued # 0 THEN QueuedSongStarted(v) ELSE {v}}
            : v \in Enter(w)})

\* BorderPause()
BorderPause ==
    /\ pc.bordered /\ UNCHANGED left
    /\ LET w == [World EXCEPT !.pc.bordered = FALSE] IN
       Result({IF w.q.single = "ONE_SHOT"
               THEN [w EXCEPT !.q.single = "OFF", !.pc.border = FALSE] ELSE w})

\* TagModified(): the player has found a new tag in the song it plays.
TagModified ==
    /\ pc.state # "STOP" /\ list.playing
    /\ left > 0 /\ left' = left - 1
    /\ LET w == Asserting(World, list.current # 0)
           p == CurrentPosition(w)
           tagged == IF w.q.items[p].song = pc.song THEN NewTag(w.q, p) ELSE w.q
       IN  Result({OnModified([w EXCEPT !.q = ModifyAtPosition(tagged, p)])})

PlayerThread ==
    /\ \E p \in PlayerSteps(pc) : pc' = p
    /\ UNCHANGED <<queue, list, left>>

----------------------------------------------------------------------------
(* Actions: commands of clients.                                           *)

Command(S) == left > 0 /\ left' = left - 1 /\ Result(S)

\* AppendSong() within a world
AppendTo(w, song) ==
    LET r == AppendSong(w.q, song)
        start == IF w.l.queued # 0 THEN w.l.queued + 1 ELSE w.l.current + 1
        appended == IF r.random /\ start <= Length(r) THEN ShuffleOrderLastWithPriority(r, start) ELSE {r}
    IN  UNION {Requeued([w EXCEPT !.q = s], GetQueuedSong(w)) : s \in appended}

\* With the first song queued after the last one, the new song may trade places
\* with the current one in the order.
SafeToAdd == Cautious /\ list.playing /\ queue.random => list.queued = 0 \/ list.queued > list.current

Add(song) == SafeToAdd /\ Length(queue) < MaxLength /\ Command(AppendTo(World, song))

\* BeginBulk(), AppendSong() for two songs, CommitBulk()
AddTwo(first, second) ==
    /\ SafeToAdd /\ Length(queue) + 1 < MaxLength
    /\ LET bulk == UNION {AppendTo(w, second) : w \in AppendTo([World EXCEPT !.bulk = TRUE], first)}
           commit == {[w EXCEPT !.bulk = FALSE] : w \in bulk}
       IN  Command({OnModified(w) : w \in
               UNION {IF w.l.queued = 0 THEN UpdateQueuedSong(w, 0) ELSE {w} : w \in commit}})

DeleteRange(start, end) == Command(DeleteRangeOf(World, start, end))

\* StaleSong(): every instance but the one that is played, from the end
StaleSongOf(w, song) ==
    LET kept == IF w.l.playing THEN CurrentPosition(w) ELSE 0
        done[p \in 1 .. Length(w.q) + 1] ==
            IF p = Length(w.q) + 1 THEN {w}
            ELSE UNION {IF v.q.items[p].song = song /\ p # kept THEN DeleteRangeOf(v, p, p + 1) ELSE {v}
                        : v \in done[p + 1]}
    IN  done[1]

StaleSong(song) ==
    /\ \E p \in Positions(queue) : queue.items[p].song = song
    /\ Command(StaleSongOf(World, song))

ClearQueue ==
    Command({OnModified([w EXCEPT !.q = Clear(@), !.l.current = 0]) : w \in StopWith(World)})

\* SwapPositions() and SwapIds()
Swap(a, b) ==
    LET w == World
        swapped == SwapPositions(w.q, a, b)
        v == IF w.q.random
             THEN [w EXCEPT !.q = SwapOrders(swapped, PositionToOrder(swapped, a), PositionToOrder(swapped, b))]
             ELSE [w EXCEPT !.q = swapped,
                            !.l.current = IF @ = a THEN b ELSE IF @ = b THEN a ELSE @]
    IN  Command(Requeued(v, GetQueuedSong(w)))

\* Where MoveRange() believes the current song is afterwards
MoveCurrent(c, start, end, to) ==
    CASE c >= start /\ c < end -> c + to - start
      [] c >= end /\ c <= to -> c - (end - start)
      [] c >= to /\ c < start -> c + (end - start)
      [] OTHER -> c

\* MoveRange(); "current" is found again only if one song is moved.
MoveSongs(start, end, to) ==
    LET w == World
        v == [w EXCEPT !.q = MoveRange(@, start, end, to),
                       !.l.current = IF w.q.random \/ @ = 0 THEN @
                                     ELSE MoveCurrent(@, start, end, to)]
    IN  /\ Cautious => end = start + 1
        /\ start # to /\ to + end - start - 1 <= Length(queue)
        /\ Command(Requeued(v, GetQueuedSong(w)))

\* Shuffle(): the current song goes first if it is played.
Shuffle(start, end) ==
    LET w == World
        p == CurrentPosition(w)
        first == w.l.playing /\ p >= start /\ p < end
        r == IF first THEN SwapPositions(w.q, start, p) ELSE w.q
        current == IF first THEN (IF r.random THEN PositionToOrder(r, start) ELSE start)
                   ELSE IF w.l.playing THEN w.l.current ELSE 0
    IN  Command(UNION {Requeued([w EXCEPT !.q = s, !.l.current = current], GetQueuedSong(w))
                       : s \in ShuffleRange(r, IF first THEN start + 1 ELSE start, end)})

\* SetPriorityRange() and SetPriorityId()
SetPriorities(start, end, priority) ==
    LET w == World  p == CurrentPosition(w) IN
    Command(UNION {Requeued([w EXCEPT !.q = r,
                                      !.l.current = IF p = 0 THEN @ ELSE PositionToOrder(r, p)],
                            GetQueuedSong(w))
                   : r \in SetPriorityRange(w.q, start, end, priority, w.l.current)})

\* AddSongIdTag(), ClearSongIdTag()
EditTag(p) ==
    Command({OnModified([World EXCEPT !.q = ModifyAtPosition(NewTag(@, p), p)])})

\* DatabaseModified() after an update that found new tags of some songs, and
\* TagModified() with the tag of a stream: every copy of such a song in the queue
DatabaseModified(changed) ==
    LET Updated(item) == IF item.song \in changed
                         THEN [item EXCEPT !.tag = ~@, !.version = queue.version] ELSE item
    IN  /\ \A s \in changed : \E p \in Positions(queue) : queue.items[p].song = s
        /\ Command({OnModified([World EXCEPT !.q.items = [p \in DOMAIN @ |-> Updated(@[p])]])})

\* SetSongIdRange(): "current" and "queued" are compared with a position.  The
\* range may turn out to be invalid after the queued song was cancelled.
SetSongIdRange(p) ==
    LET w == World
        requeue == w.l.playing /\ p = w.l.queued
        cancelled == IF requeue THEN {[v EXCEPT !.l.queued = 0] : v \in LockCancel(w)} ELSE {w}
        edited == UNION {IF requeue THEN UpdateQueuedSong([v EXCEPT !.q = NewTag(@, p)], 0)
                         ELSE {[v EXCEPT !.q = NewTag(@, p)]} : v \in cancelled}
    IN  /\ ~(w.l.playing /\ p = w.l.current)
        /\ Command(cancelled \cup {OnModified([v EXCEPT !.q = ModifyAtPosition(@, p)]) : v \in edited})

\* PlayAny(), with LockSetPause(false)
PlayAny ==
    /\ queue.items # <<>>
    /\ Command(IF list.playing
               THEN UNION {IF w.pc.state = "PAUSE" THEN PauseLocked(w) ELSE {w} : w \in Enter(World)}
               ELSE PlayOrder(NoError(World), IF list.current = 0 THEN 1 ELSE list.current))

PlayPosition(p) == Command(PlayPositionOf(World, p))

PlayNext == list.playing /\ Command(PlayNextOf(World))

PlayPrevious ==
    /\ list.playing
    /\ Command(PlayOrder(World, CASE list.current > 1 -> list.current - 1
                                  [] list.current <= 1 /\ queue.repeat -> Length(queue)
                                  [] OTHER -> list.current))

SeekSong(o, zero) == Command(SeekSongOrder(World, o, zero))

Stop == list.playing /\ Command(StopWith(World))

\* PlayerControl::LockPause()
Pause == pc.state # "STOP" /\ Command(UNION {PauseLocked(w) : w \in Enter(World)})

SetRepeat ==
    LET w == SetBorderPause([World EXCEPT !.q.repeat = ~@]) IN
    Command(UpdateQueuedSong(w, GetQueuedSong(w)))

SetSingle(mode) ==
    LET w == SetBorderPause([World EXCEPT !.q.single = mode]) IN
    queue.single # mode /\ Command(UpdateQueuedSong(w, GetQueuedSong(w)))

\* SetConsume() does not look at the queued song, which may be the current one.
SetConsume(mode) ==
    /\ queue.consume # mode
    /\ Cautious => ~(list.playing /\ list.queued = list.current)
    /\ Command({[World EXCEPT !.q.consume = mode]})

\* SetRandom(): the current song goes first, or the order becomes the positions.
SetRandom ==
    LET w == [World EXCEPT !.q.random = ~@]
        p == CurrentPosition(w)
        on == IF w.l.playing
              THEN {[w EXCEPT !.q = MoveOrder(r, PositionToOrder(r, p), 1), !.l.current = 1] : r \in ShuffleOrder(w.q)}
              ELSE {[w EXCEPT !.q = r, !.l.current = 0] : r \in ShuffleOrder(w.q)}
        off == {[w EXCEPT !.q = RestoreOrder(@), !.l.current = p]}
    IN  Command(UNION {UpdateQueuedSong(v, GetQueuedSong(World)) : v \in IF w.q.random THEN on ELSE off})

\* Faulty variant: the order number is saved.
SavedOrder(w) == w.l.current

\* playlist_state_save(): the current song is saved by its position.
SavedPosition(w) == CurrentPosition(w)

\* The program ends and starts again: playlist_state_save(), and then
\* playlist_state_restore() with the time zero or another one.  A song that was not
\* playing becomes "current" by its position.
Restart ==
    LET q == World.q
        new == Loaded([Empty(1, 1) EXCEPT !.repeat = q.repeat, !.single = q.single,
                                          !.consume = q.consume, !.random = q.random], q.items)
        w == SetBorderPause([World EXCEPT !.l = [NewList EXCEPT !.boot = list.boot + 1], !.pc = NewPlayer])
        position == IF SavedPosition(World) = 0 THEN 1 ELSE SavedPosition(World)
        restored == {[w EXCEPT !.q = r] : r \in IF q.random THEN ShuffleOrder(new) ELSE {new}}
        Resumed(v) ==
            Caught(PlayPositionOf(v, position))
            \cup SeekSongOrder(v, PositionToOrder(v.q, position), FALSE)
    IN  Command(CASE q.items = <<>> -> restored
                  [] q.items # <<>> /\ ~list.playing -> {[v EXCEPT !.l.current = position] : v \in restored}
                  [] q.items # <<>> /\ list.playing /\ pc.state # "PAUSE" -> UNION {Resumed(v) : v \in restored}
                  [] OTHER -> UNION {UNION {PauseLocked(u) : u \in UNION {Enter(v) : v \in Resumed(r)}}
                                     : r \in restored})

Editing ==
    \/ \E a \in Songs : Add(a) \/ StaleSong(a) \/ \E b \in Songs : AddTwo(a, b)
    \/ ClearQueue
    \/ \E start \in Positions(queue) : \E end \in start + 1 .. Length(queue) + 1 :
          \/ DeleteRange(start, end)
          \/ end > start + 1 /\ Shuffle(start, end)
          \/ \E to \in Positions(queue) : MoveSongs(start, end, to)
          \/ \E priority \in Priorities : SetPriorities(start, end, priority)
    \/ \E a, b \in Positions(queue) : a < b /\ Swap(a, b)
    \/ \E p \in Positions(queue) : EditTag(p) \/ SetSongIdRange(p)
    \/ \E changed \in SUBSET Songs : changed # {} /\ DatabaseModified(changed)

Control ==
    \/ \E p \in Positions(queue) : PlayPosition(p) \/ \E zero \in BOOLEAN : SeekSong(p, zero)
    \/ PlayAny \/ PlayNext \/ PlayPrevious \/ Stop \/ Pause
    \/ Restart \/ SetRepeat \/ SetRandom \/ \E mode \in Modes : SetSingle(mode) \/ SetConsume(mode)

\* After a start; a queue may also have been in use for a long time.
Init ==
    /\ \E songs \in Saved, base \in {Empty(1, 1), Empty(MaxVersion - 3, IdSize - 1)} :
          /\ queue = Loaded(base, [n \in DOMAIN songs |->
                                    [song |-> songs[n], priority |-> 0, tag |-> FALSE]])
          /\ list = [NewList EXCEPT !.current = IF songs = <<>> THEN 0 ELSE 1]
    /\ pc = NewPlayer /\ left = MaxCommands

Next == PlayerThread \/ SyncWithPlayer \/ BorderPause \/ TagModified \/ Editing \/ Control

Spec == Init /\ [][Next]_vars

----------------------------------------------------------------------------
(* Properties                                                              *)

\* Every variable has its type, and the queue is not longer than allowed.
TypeOK ==
    /\ Length(queue) <= MaxLength /\ queue.version \in 1 .. MaxVersion - 1
    /\ queue.table \in [Ids -> 0 .. MaxLength] /\ queue.next \in Ids
    /\ queue.single \in Modes /\ queue.consume \in Modes
    /\ list.current \in 0 .. MaxLength /\ list.playing \in BOOLEAN
    /\ pc.state \in {"STOP", "PLAY", "PAUSE"} /\ pc.error \in {"NONE", "DECODER", "OUTPUT"}
    /\ left \in 0 .. MaxCommands

\* Whatever the edits were, the order is a permutation of the positions and every
\* id of the table leads to its song.
QueueConsistent == Consistent(queue)

\* No assert() of the playlist or of PlayerControl fails, in particular the one of
\* UpdateQueuedSong() that "queued" is set if and only if a song was queued.
AssertionsHold == list.fine

\* The state is type correct, and no assertion fails.
Sound == TypeOK /\ AssertionsHold

\* The playlist is in step with the player: the song it takes for the current one
\* is the one that is played, and the song it has queued is the player's next one;
\* or the player has just gone on to that song, and the playlist will be told.
InStep ==
    list.playing =>
        /\ list.current \in Positions(queue)
        /\ pc.state # "STOP" =>
              \/ /\ pc.song = AtOrder(queue, list.current).song
                 /\ IF list.queued = 0 THEN pc.next = None
                    ELSE /\ list.queued \in Positions(queue)
                         /\ pc.next = AtOrder(queue, list.queued).song
              \/ /\ list.queued \in Positions(queue) /\ pc.sync
                 /\ pc.song = AtOrder(queue, list.queued).song /\ pc.next = None

\* Playback that is not over goes on: if the player has stopped while the playlist
\* wants to play, the event that makes it resume is on its way.
WillResume == list.playing /\ pc.state = "STOP" => pc.sync

\* A client that follows the queue with "plchanges" misses nothing: a song that
\* appears at a position in some step is announced to everyone who knew the
\* version before, the version changes, and no song's version goes back.  (A
\* restart begins anew.)
ChangesAnnounced ==
    [][list'.boot = list.boot =>
       /\ \A p \in Positions(queue') :
            LET new == queue'.items[p] IN
            IF p \in Positions(queue) /\ [queue.items[p] EXCEPT !.version = 0] = [new EXCEPT !.version = 0]
            THEN new.version = 0 \/ new.version >= queue.items[p].version
            ELSE IsNewerAtPosition(queue', p, queue.version) /\ queue'.version # queue.version
       /\ Length(queue') # Length(queue) => queue'.version # queue.version]_vars

\* A restart in the middle of a song, with the order shuffled anew, goes on with the
\* same song, and keeps songs and priorities but for the priority of that song.
RestartGoesOn ==
    [][list'.boot # list.boot =>
       /\ Length(queue') = Length(queue)
       /\ \A p \in Positions(queue) :
             /\ queue'.items[p].song = queue.items[p].song
             /\ queue'.items[p].priority \in {0, queue.items[p].priority}
       /\ list.playing =>
             /\ list'.playing
             /\ AtOrder(queue', list'.current).song = AtOrder(queue, list.current).song]_vars
=============================================================================
