--------------------------- MODULE UpdateService ---------------------------
(***************************************************************************)
(* UpdateService (db/update/Service.cxx), its UpdateQueue (Queue.cxx), the *)
(* update thread it starts for each job, the UpdateRemoveService           *)
(* (Remove.cxx) through which that thread reports removed songs to the     *)
(* main thread, and the "mount" and "unmount" commands, which create and   *)
(* destroy the databases and storages the jobs point to.                   *)
(*                                                                         *)
(* Two threads: the main thread runs the EventLoop (commands, and the      *)
(* injected events of InjectQueue.tla, oldest first), the update thread    *)
(* runs Task().  What Walk() does to the database is UpdateWalk.tla; here  *)
(* it may report removals, and then returns.  A mount point stands for     *)
(* both objects that "mount" creates: the storage and the database.        *)
(***************************************************************************)
EXTENDS Naturals, Sequences, SequencesExt

CONSTANTS
  Mounts,               \* the URIs where something can be mounted
  Root,                 \* the root database and storage
  Songs,                \* the songs an update can find removed
  MAX_UPDATE_QUEUE_SIZE,
  update_task_id_max,
  MaxJobs,              \* bound: how many jobs are accepted in a behaviour
  ThreadMayFail         \* whether pthread_create() may fail

ASSUME ServiceAssumption ==
  /\ Root \notin Mounts
  /\ MAX_UPDATE_QUEUE_SIZE \in Nat
  /\ update_task_id_max \in Nat \ {0}
  /\ MaxJobs \in Nat
  /\ ThreadMayFail \in BOOLEAN

VARIABLES
  mounted,              \* the mount points that exist now
  queue,                \* UpdateQueue
  next,                 \* the item being updated; id 0 when undefined
  update_task_id,       \* the last id handed out
  walk,                 \* "null", "running", or "cancelled" (its cancel flag)
  modified,             \* the result of the last Walk()
  thread,               \* where the update thread is
  uris,                 \* UpdateRemoveService::uris of the current walk
  inject,               \* the pending InjectEvents
  main,                 \* what the main thread does
  victim,               \* the mount point CancelMount() works on
  jobs,                 \* how many jobs were accepted (for MaxJobs)
  removed,              \* ghost: the songs taken out of the database
  announced             \* ghost: those OnDatabaseSongRemoved() was called for

jobVars == <<queue, next, update_task_id, jobs>>
removeVars == <<uris, removed, announced>>
vars == <<mounted, queue, next, update_task_id, walk, modified, thread, uris,
          inject, main, victim, jobs, removed, announced>>

Targets == Mounts \cup {Root}
Ids == 1..update_task_id_max
Item == [target : Targets, id : Ids]
NoItem == [target |-> Root, id |-> 0]

\* UpdateService::defer and UpdateRemoveService::defer.
Events == {"Update", "Remove"}

IQ == INSTANCE InjectQueue WITH quit <- main = "destroyed"

ThreadStates == {"undefined", "walk", "remove", "save", "schedule", "exited"}
MainStates == {"loop", "Update", "Remove", "cancel", "join", "unmount",
               "destroy", "destroyed", "aborted"}

\* Every variable has its type; the queue never exceeds its size, and a job's
\* id is one GenerateId() may hand out.
TypeOK ==
  /\ mounted \subseteq Mounts
  /\ queue \in Seq(Item) /\ Len(queue) <= MAX_UPDATE_QUEUE_SIZE
  /\ next \in Item \cup {NoItem}
  /\ update_task_id \in 0..update_task_id_max
  /\ walk \in {"null", "running", "cancelled"}
  /\ modified \in BOOLEAN
  /\ thread \in ThreadStates
  /\ uris \subseteq Songs
  /\ inject \in Seq(Events)
  /\ main \in MainStates
  /\ victim \in [mount : Mounts, nested : BOOLEAN] \cup {NoItem}
  /\ jobs \in 0..MaxJobs
  /\ removed \subseteq Songs /\ announced \subseteq Songs

Init ==
  /\ mounted = {}
  /\ queue = << >>
  /\ next = NoItem
  /\ update_task_id = 0
  /\ walk = "null"
  /\ modified = FALSE
  /\ thread = "undefined"
  /\ uris = {}
  /\ inject = << >>
  /\ main = "loop"
  /\ victim = NoItem
  /\ jobs = 0
  /\ removed = {} /\ announced = {}

----------------------------------------------------------------------------
(***************************************************************************)
(* Jobs.                                                                   *)
(***************************************************************************)

\* UpdateService::GetId(): non-zero while a job is being worked on.
GetId == next.id

\* UpdateService::GenerateId(): ids wrap around to 1.
GenerateId ==
  IF update_task_id + 1 > update_task_id_max THEN 1 ELSE update_task_id + 1

\* Faulty variant: off by one.
QueueFullLate == Len(queue) > MAX_UPDATE_QUEUE_SIZE

\* UpdateQueue::Push() refuses an item when the queue is full.
QueueFull == Len(queue) >= MAX_UPDATE_QUEUE_SIZE

\* UpdateService::StartThread(): a fresh walk, with an empty remove list; then
\* the thread is created, which may fail (the exception leaves walk and next
\* as they are).
StartThread(item) ==
  /\ modified' = FALSE
  /\ next' = item
  /\ walk' = "running"
  /\ uris' = {}
  /\ \/ thread' = "walk"
     \/ ThreadMayFail /\ thread' = "undefined"

\* The lookup in Enqueue(): below a mount point, the mounted database and
\* storage are updated, else the root's.
EnqueueTarget(uri) == IF uri \in mounted THEN uri ELSE Root

\* Faulty variant: a new job goes to the front of the queue.
EnqueueItemFront(target) ==
  LET item == [target |-> target, id |-> GenerateId]
  IN /\ jobs < MaxJobs
     /\ jobs' = jobs + 1
     /\ update_task_id' = GenerateId
     /\ \/ /\ walk # "null"
           /\ ~QueueFull
           /\ queue' = <<item>> \o queue
           /\ UNCHANGED <<next, walk, modified, thread, uris>>
        \/ /\ walk = "null"
           /\ StartThread(item)
           /\ UNCHANGED queue

\* UpdateService::Enqueue(), once the target is known: queue the job, or start
\* it if no other is running.  A full queue throws and changes nothing.
EnqueueItem(target) ==
  LET item == [target |-> target, id |-> GenerateId]
  IN /\ jobs < MaxJobs
     /\ jobs' = jobs + 1
     /\ update_task_id' = GenerateId
     /\ \/ /\ walk # "null"
           /\ ~QueueFull
           /\ queue' = Append(queue, item)
           /\ UNCHANGED <<next, walk, modified, thread, uris>>
        \/ /\ walk = "null"
           /\ StartThread(item)
           /\ UNCHANGED queue

\* The commands "update" and "rescan", DbMain's start and InotifyQueue.
UpdateCommand(uri) ==
  /\ main = "loop"
  /\ EnqueueItem(EnqueueTarget(uri))
  /\ UNCHANGED <<mounted, inject, main, victim, removed, announced>>

----------------------------------------------------------------------------
(***************************************************************************)
(* The mount and unmount commands.                                         *)
(***************************************************************************)

\* handle_mount(): both objects are created; a database without a cache file
\* needs an update, whose Enqueue() may throw without undoing the mount.
MountCommand(m) ==
  /\ main = "loop"
  /\ m \notin mounted
  /\ mounted' = mounted \cup {m}
  /\ \/ EnqueueItem(m)
     \/ UNCHANGED <<jobVars, walk, modified, thread, uris>>
  /\ UNCHANGED <<inject, main, victim, removed, announced>>

\* handle_unmount() calls CancelMount() first.  A URI below a mount point
\* (nested) also finds that mount, and cancels its jobs, though nothing will
\* be unmounted.
UnmountCommand(m, nested) ==
  /\ main = "loop"
  /\ m \in mounted
  /\ main' = "cancel"
  /\ victim' = [mount |-> m, nested |-> nested]
  /\ UNCHANGED <<mounted, jobVars, walk, modified, thread, removeVars, inject>>

\* UpdateQueue::Erase(), one item after the other.
EraseQueued ==
  /\ main = "cancel"
  /\ \E i \in DOMAIN queue :
       /\ queue[i].target = victim.mount
       /\ \A j \in 1..(i - 1) : queue[j].target # victim.mount
       /\ queue' = RemoveAt(queue, i)
  /\ UNCHANGED <<mounted, next, update_task_id, jobs, walk, modified, thread,
                 removeVars, inject, main, victim>>

\* Faulty variant: cancel, but do not wait for the thread.
CancelCurrentNoJoin ==
  /\ main = "cancel"
  /\ \A i \in DOMAIN queue : queue[i].target # victim.mount
  /\ walk' = IF GetId # 0 /\ next.target = victim.mount /\ walk # "null"
               THEN "cancelled" ELSE walk
  /\ main' = "unmount"
  /\ UNCHANGED <<mounted, jobVars, modified, thread, removeVars, inject, victim>>

\* The second half of CancelMount(): cancel the current walk if it works on
\* this mount, and wait for its thread.
CancelCurrent ==
  /\ main = "cancel"
  /\ \A i \in DOMAIN queue : queue[i].target # victim.mount
  /\ IF GetId # 0 /\ next.target = victim.mount /\ walk # "null"
       THEN /\ walk' = "cancelled"
            /\ main' = IF thread # "undefined" THEN "join" ELSE "unmount"
       ELSE /\ main' = "unmount"
            /\ UNCHANGED walk
  /\ UNCHANGED <<mounted, jobVars, modified, thread, removeVars, inject, victim>>

\* update_thread.Join() in CancelMount(); RunDeferred() is still to come.
CancelMountJoin ==
  /\ main = "join"
  /\ thread = "exited"
  /\ thread' = "undefined"
  /\ main' = "unmount"
  /\ UNCHANGED <<mounted, jobVars, walk, modified, removeVars, inject, victim>>

\* SimpleDatabase::Unmount() and CompositeStorage::Unmount() destroy both
\* objects (neither finds anything to unmount at a nested URI).
Unmount ==
  /\ main = "unmount"
  /\ mounted' = IF victim.nested THEN mounted ELSE mounted \ {victim.mount}
  /\ main' = "loop"
  /\ victim' = NoItem
  /\ UNCHANGED <<jobVars, walk, modified, thread, removeVars, inject>>

----------------------------------------------------------------------------
(***************************************************************************)
(* The update thread: Task().                                              *)
(***************************************************************************)

\* DatabaseEditor::DeleteSong() and UpdateRemoveService::Remove(): the song
\* is out of the database and its URI in the list; if the list was empty, the
\* event must be scheduled, which happens after the mutex is released.
RemoveSong(s) ==
  /\ thread = "walk"
  /\ s \notin removed
  /\ removed' = removed \cup {s}
  /\ uris' = uris \cup {s}
  /\ thread' = IF uris = {} THEN "remove" ELSE "walk"
  /\ UNCHANGED <<mounted, jobVars, walk, modified, inject, main, victim,
                 announced>>

ScheduleRemove ==
  /\ thread = "remove"
  /\ inject' = IQ!AddInject(inject, "Remove")
  /\ thread' = "walk"
  /\ UNCHANGED <<mounted, jobVars, walk, modified, removeVars, main, victim>>

\* Walk() returns.  The database is saved if it was modified, or if it has no
\* file yet.
WalkReturns ==
  /\ thread = "walk"
  /\ modified' \in BOOLEAN
  /\ thread' \in IF modified' THEN {"save"} ELSE {"save", "schedule"}
  /\ UNCHANGED <<mounted, jobVars, walk, removeVars, inject, main, victim>>

\* next.db->Save() returns; an exception is only logged.
TaskSave ==
  /\ thread = "save"
  /\ thread' = "schedule"
  /\ UNCHANGED <<mounted, jobVars, walk, modified, removeVars, inject, main,
                 victim>>

\* defer.Schedule(), the last thing Task() does.
ScheduleDeferred ==
  /\ thread = "schedule"
  /\ inject' = IQ!AddInject(inject, "Update")
  /\ thread' = "exited"
  /\ UNCHANGED <<mounted, jobVars, walk, modified, removeVars, main, victim>>

----------------------------------------------------------------------------
(***************************************************************************)
(* The main thread's event loop and the injected events.                   *)
(***************************************************************************)

\* Faulty variant: the newest event first.
HandleInjectLast ==
  /\ main = "loop"
  /\ inject # << >>
  /\ main' = inject[Len(inject)]
  /\ inject' = SubSeq(inject, 1, Len(inject) - 1)
  /\ UNCHANGED <<mounted, jobVars, walk, modified, thread, removeVars, victim>>

\* EventLoop::HandleInject(): the oldest event leaves the list and is called.
HandleInject ==
  /\ main = "loop"
  /\ inject # << >>
  /\ main' = Head(inject)
  /\ inject' = Tail(inject)
  /\ UNCHANGED <<mounted, jobVars, walk, modified, thread, removeVars, victim>>

\* UpdateRemoveService::RunDeferred(): take the whole list, announce it.
RunRemove ==
  /\ main = "Remove"
  /\ announced' = announced \cup uris
  /\ uris' = {}
  /\ main' = "loop"
  /\ UNCHANGED <<mounted, jobVars, walk, modified, thread, inject, victim,
                 removed>>

\* Faulty variant: the queue is not looked at.
RunDeferredOnce ==
  /\ main = "Update"
  /\ thread \in {"exited", "undefined"}
  /\ inject' = IQ!RemoveInject(inject, "Remove")
  /\ walk' = "null"
  /\ next' = NoItem
  /\ uris' = {}
  /\ thread' = "undefined"
  /\ main' = "loop"
  /\ UNCHANGED <<queue, modified, mounted, update_task_id, victim, jobs, removed,
                 announced>>

\* Faulty variant: next is not cleared.
RunDeferredKeepsNext ==
  /\ main = "Update"
  /\ thread \in {"exited", "undefined"}
  /\ inject' = IQ!RemoveInject(inject, "Remove")
  /\ queue = << >>
  /\ walk' = "null"
  /\ uris' = {}
  /\ thread' = "undefined"
  /\ main' = "loop"
  /\ UNCHANGED <<queue, next, modified, mounted, update_task_id, victim, jobs,
                 removed, announced>>

\* UpdateService::RunDeferred(): join, drop the walk (and with it the remove
\* service, whose event is cancelled), then start the next job.  A thread
\* that cannot be created here ends the process: the method is noexcept.
RunDeferred ==
  /\ main = "Update"
  /\ thread \in {"exited", "undefined"}
  /\ inject' = IQ!RemoveInject(inject, "Remove")
  /\ IF queue = << >>
       THEN /\ walk' = "null"
            /\ next' = NoItem
            /\ uris' = {}
            /\ thread' = "undefined"
            /\ main' = "loop"
            /\ UNCHANGED <<queue, modified>>
       ELSE /\ queue' = Tail(queue)
            /\ StartThread(Head(queue))
            /\ main' = IF thread' = "undefined" THEN "aborted" ELSE "loop"
  /\ UNCHANGED <<mounted, update_task_id, victim, jobs, removed, announced>>

\* CancelAllAsync(): Instance::BeginShutdownUpdate() and the destructor.
CancelAllAsync ==
  /\ main = "loop"
  /\ queue' = << >>
  /\ walk' = IF walk = "null" THEN "null" ELSE "cancelled"
  /\ main' = "destroy"
  /\ UNCHANGED <<mounted, next, update_task_id, jobs, modified, thread,
                 removeVars, inject, victim>>

\* The rest of ~UpdateService(): join; both events are cancelled.
Destroy ==
  /\ main = "destroy"
  /\ thread \in {"exited", "undefined"}
  /\ thread' = "undefined"
  /\ walk' = "null"
  /\ uris' = {}
  /\ inject' = << >>
  /\ main' = "destroyed"
  /\ UNCHANGED <<mounted, jobVars, modified, victim, removed, announced>>

----------------------------------------------------------------------------
MainStep ==
  \/ EraseQueued \/ CancelCurrent \/ CancelMountJoin \/ Unmount
  \/ HandleInject \/ RunRemove \/ RunDeferred
  \/ Destroy

ThreadStep ==
  \/ \E s \in Songs : RemoveSong(s)
  \/ ScheduleRemove \/ WalkReturns \/ TaskSave \/ ScheduleDeferred

Command ==
  \/ \E uri \in Targets : UpdateCommand(uri)
  \/ \E m \in Mounts : MountCommand(m)
  \/ \E m \in Mounts, nested \in BOOLEAN : UnmountCommand(m, nested)
  \/ CancelAllAsync

\* The service is gone: the process goes on (or is dead) without it.
Gone == main \in {"destroyed", "aborted"} /\ UNCHANGED vars

Next == MainStep \/ ThreadStep \/ Command \/ Gone

(***************************************************************************)
(* Fairness: the main thread goes on with a command or an event it has     *)
(* begun, and so does the update thread (every walk ends: the songs are    *)
(* finite, and Walk() returns).  However many commands are given, the      *)
(* event loop comes round to the injected events between them (the WF of   *)
(* InjectQueue, which EventLoop is shown to implement; here a command      *)
(* takes several steps, hence SF).  No command has to be given.            *)
(***************************************************************************)
Spec == /\ Init /\ [][Next]_vars
        /\ WF_vars(MainStep) /\ SF_vars(HandleInject)
        /\ WF_vars(ThreadStep)

----------------------------------------------------------------------------
(***************************************************************************)
(* Properties.                                                             *)
(***************************************************************************)

Alive == main \notin {"destroyed", "aborted"}

(***************************************************************************)
(* "ensure that no database update will attempt to work with the           *)
(* database/storage instances we're about to destroy here"                 *)
(* (StorageCommands.cxx): neither the running update thread nor a waiting  *)
(* job refers to a mount that no longer exists.                            *)
(***************************************************************************)
LiveTargets ==
  /\ thread \in {"walk", "remove", "save"} => next.target \in mounted \cup {Root}
  /\ \A i \in DOMAIN queue : queue[i].target \in mounted \cup {Root}

(***************************************************************************)
(* GetId() = 0 is what DbMain's UpdateChecker takes for "Update complete": *)
(* then no job waits, no thread runs (or has still to be joined) and no    *)
(* completion is under way.                                                *)
(***************************************************************************)
IdleMeansDone ==
  Alive /\ GetId = 0 =>
    /\ walk = "null" /\ thread = "undefined" /\ queue = << >>
    /\ ~IQ!IsPending(inject, "Update") /\ main # "Update"

(***************************************************************************)
(* The converse, Service.hxx: "Returns a non-zero job id when we are       *)
(* currently updating the database": a job that GetId() names is being     *)
(* worked on, or its completion is on its way.                             *)
(***************************************************************************)
BusyMeansUpdating ==
  Alive /\ GetId # 0 =>
    thread # "undefined" \/ IQ!IsPending(inject, "Update") \/ main = "Update"

(***************************************************************************)
(* Every song taken out of the database is announced to the listener, or   *)
(* still in the list of the walk that removed it and an event is on its    *)
(* way to announce it: the list is not dropped with the walk, though       *)
(* Remove() schedules an event only for the first of several songs.        *)
(***************************************************************************)
RemovalsAnnounced ==
  Alive =>
    /\ removed \ announced \subseteq uris
    /\ uris # {} => \/ IQ!IsPending(inject, "Remove")
                    \/ main = "Remove"
                    \/ thread = "remove"

\* UpdateService is the abstract job queue: one at a time, in order, and every
\* accepted job leaves the queue.
Jobs == INSTANCE UpdateJobs WITH
  Job <- Item,
  pending <- IF ~Alive \/ GetId = 0 THEN << >> ELSE <<next>> \o queue

ImplementsUpdateJobs == Jobs!Spec

============================================================================
