---------------------------- MODULE InotifyQueue ----------------------------
(***************************************************************************)
(* InotifyQueue: how changes in watched directories become updates         *)
(* (db/update/InotifyQueue.cxx, and OnInotify() in InotifyUpdate.cxx).     *)
(*                                                                         *)
(* A URI is the sequence of its names; the music directory is the empty    *)
(* one, and always watched.  "dirty" tells which directories have changes  *)
(* no update has looked at.  Of UpdateService the bounded queue is kept,   *)
(* and of an update (Walk.cxx) whether it gets as far as its URI.          *)
(***************************************************************************)
EXTENDS Naturals, Sequences, FiniteSets, FiniteSetsExt, SequencesExt

CONSTANTS
  Watched,              \* the watched directories, as sequences of names
  Capacity,             \* how many updates UpdateService accepts at a time
  MaxChanges            \* bound: changes in a behaviour

ASSUME InotifyAssumption ==
  /\ Watched \subseteq Seq(STRING) /\ << >> \in Watched
  /\ \A directory \in Watched : \A n \in 1..Len(directory) :
       SubSeq(directory, 1, n) \in Watched
  /\ Capacity \in Nat /\ MaxChanges \in Nat

VARIABLES
  known,                \* the directories the database has
  dirty,                \* ghost: changed and not updated since
  events,               \* inotify events not read yet
  queue,                \* InotifyQueue::queue
  delay,                \* InotifyQueue::delay_event is scheduled
  jobs,                 \* the updates UpdateService has accepted
  abandoned,            \* ghost: dirty, and given up with an error message
  changes

vars == <<known, dirty, events, queue, delay, jobs, abandoned, changes>>

\* What lies below a URI, itself included.
Covers(uri, directory) == IsPrefix(uri, directory)

\* The directories on the way to a URI, without the music directory.
Parents(uri) == {SubSeq(uri, 1, n) : n \in 1..(Len(uri) - 1)}

\* DirectoryMakeChildChecked() finds a parent the database does not have yet:
\* it looks its bare name up in the music directory, so only the outermost one
\* is found for sure.  A namesake there will do if it is no ancestor
\* (FindAncestorLoop()).
Found(parent) ==
  LET name == parent[Len(parent)]
  IN \/ Len(parent) = 1
     \/ /\ <<name>> \in Watched
        /\ \A n \in 1..(Len(parent) - 1) : parent[n] # name

\* The parents that DirectoryMakeUriParentChecked() stumbles over.
Missing(uri) == {parent \in Parents(uri) : parent \notin known /\ ~Found(parent)}

\* What an update of a URI looks at: UpdateUri() returns without a word if a
\* parent could not be made.
Seen(uri) ==
  {directory \in Watched : Missing(uri) = {} /\ Covers(uri, directory)}

\* The parents that are made on the way, until one cannot be.
Made(uri) ==
  {parent \in Parents(uri) : \A stop \in Missing(uri) : Len(parent) < Len(stop)}

----------------------------------------------------------------------------

\* Faulty variant: the arguments are swapped.
path_in_swapped(path, possible_parent) == IsPrefix(path, possible_parent)

\* path_in(): the empty path is "in" every path, and none but itself is in it.
path_in(path, possible_parent) ==
  \/ path = << >>
  \/ possible_parent # << >> /\ IsPrefix(possible_parent, path)

\* Faulty variant: entries below the new URI stay in the queue.
EnqueueKeepAll(q, uri) ==
  IF \E i \in DOMAIN q : path_in(uri, q[i]) THEN q ELSE Append(q, uri)

\* A set of indices in increasing order, and the entries of a sequence there.
Sorted(I) ==
  CHOOSE f \in [1..Cardinality(I) -> I] : \A i, j \in DOMAIN f : i < j => f[i] < f[j]
Entries(q, I) == [k \in 1..Cardinality(I) |-> q[Sorted(I)[k]]]

\* InotifyQueue::Enqueue(): a scan of the queue that erases entries below the
\* new URI until it meets one that contains it.
Enqueue(q, uri) ==
  LET found == {i \in DOMAIN q : path_in(uri, q[i])}
      scanned == IF found = {} THEN DOMAIN q ELSE 1..(Min(found) - 1)
      below == {i \in scanned : path_in(q[i], uri)}
      rest == Entries(q, DOMAIN q \ below)
  IN IF found = {} THEN Append(rest, uri) ELSE rest

\* A file in a watched directory changes.
Change(directory) ==
  /\ changes < MaxChanges
  /\ dirty' = dirty \cup {directory}
  /\ events' = events \cup {directory}
  /\ abandoned' = abandoned \ {directory}
  /\ changes' = changes + 1
  /\ UNCHANGED <<known, queue, delay, jobs>>

\* OnInotify() for such a change.
OnInotify(directory) ==
  /\ directory \in events
  /\ events' = events \ {directory}
  /\ queue' = Enqueue(queue, directory)
  /\ delay' = TRUE
  /\ abandoned' = abandoned \ {directory}
  /\ UNCHANGED <<known, dirty, jobs, changes>>

\* Faulty variant: no retry when the queue is full.
OnDelayOnce(failing) ==
  /\ delay
  /\ LET room == Capacity - Len(jobs)
         n == IF Len(queue) <= room THEN Len(queue) ELSE room
     IN /\ jobs' = jobs \o SubSeq(queue, 1, n)
        /\ queue' = SubSeq(queue, n + 1, Len(queue))
  /\ delay' = FALSE
  /\ UNCHANGED <<known, dirty, events, abandoned, changes>>

\* OnDelay(): UpdateService::Enqueue() for each entry.  When its queue is full,
\* that entry and the rest are retried later; any other failure (an entry in
\* "failing") is logged, and the entry dropped.
OnDelay(failing) ==
  /\ delay
  /\ LET room == Capacity - Len(jobs)
         full == {i \in DOMAIN queue \ failing :
                    Cardinality((1..i) \ failing) > room}
         stop == IF full = {} THEN Len(queue) + 1 ELSE Min(full)
         done == 1..(stop - 1)
     IN /\ jobs' = jobs \o Entries(queue, done \ failing)
        /\ queue' = SubSeq(queue, stop, Len(queue))
        /\ delay' = (full # {})
        /\ abandoned' = abandoned \cup {directory \in dirty :
             \E i \in done \cap failing : Covers(queue[i], directory)}
  /\ UNCHANGED <<known, dirty, events, changes>>

\* The update service begins with the next update, and sees all changes made
\* up to now in what it looks at.
RunUpdate ==
  /\ jobs # << >>
  /\ known' = known \cup Made(Head(jobs)) \cup Seen(Head(jobs))
  /\ dirty' = dirty \ Seen(Head(jobs))
  /\ abandoned' = abandoned \cap dirty'
  /\ jobs' = Tail(jobs)
  /\ UNCHANGED <<events, queue, delay, changes>>

\* The daemon starts with the database of an earlier time: directories made
\* since then are not in it.
Init ==
  /\ known \in {K \in SUBSET Watched :
       << >> \in K /\ \A directory \in K : Parents(directory) \subseteq K}
  /\ dirty = {} /\ events = {} /\ abandoned = {}
  /\ queue = << >> /\ jobs = << >>
  /\ delay = FALSE
  /\ changes = 0

Next ==
  \/ \E directory \in Watched : Change(directory) \/ OnInotify(directory)
  \/ \E failing \in SUBSET DOMAIN queue : OnDelay(failing)
  \/ RunUpdate

\* The event loop reads events and runs timers, the update thread runs.
Spec ==
  /\ Init /\ [][Next]_vars
  /\ \A directory \in Watched : WF_vars(OnInotify(directory))
  /\ WF_vars(\E failing \in SUBSET DOMAIN queue : OnDelay(failing))
  /\ WF_vars(RunUpdate)

----------------------------------------------------------------------------
(***************************************************************************)
(* Properties.                                                             *)
(***************************************************************************)

\* Every variable has its type; the update service is never overrun.
TypeOK ==
  /\ known \subseteq Watched
  /\ dirty \subseteq Watched /\ events \subseteq Watched /\ abandoned \subseteq dirty
  /\ queue \in Seq(Watched) /\ jobs \in Seq(Watched)
  /\ Len(jobs) <= Capacity
  /\ delay \in BOOLEAN
  /\ changes \in 0..MaxChanges

\* Something will lead to an update below which the directory lies, or the
\* attempt to enqueue it failed with an error message.
Waiting(directory) ==
  \/ directory \in events \cup abandoned
  \/ \E uri \in ToSet(queue) \cup ToSet(jobs) : Covers(uri, directory)

\* A change is only forgotten in the music directory itself (path_in() takes it
\* to be inside every directory) and below a directory the database does not
\* know and UpdateUri() cannot make (Walk.cxx:446).  Any other change waits to
\* be updated, itself or with a directory above it ("already enqueued",
\* InotifyQueue.cxx:77), until an update has looked at it.
NoChangeForgotten ==
  \A directory \in dirty \ {<< >>} :
    Waiting(directory) \/ Missing(directory) # {}

\* Nothing is updated twice: no entry of the queue lies below another
\* (InotifyQueue::Enqueue()).
QueueIsAntichain ==
  \A i, j \in DOMAIN queue : i # j => ~Covers(queue[i], queue[j])

\* Every change, with the same exceptions, is updated in the end, even if the
\* update service's queue was full when the delay was over (OnDelay() schedules
\* itself again).
ChangesAreUpdated ==
  \A directory \in Watched \ {<< >>} :
    directory \in dirty ~>
      \/ directory \notin dirty \ abandoned
      \/ Missing(directory) # {}

\* "automatic update of music database when files are changed in
\* music_directory" (doc/mpd.conf.5.rst:152): also the files which are directly
\* in it.
MusicDirectoryUpdated == << >> \in dirty => Waiting(<< >>)
=============================================================================
