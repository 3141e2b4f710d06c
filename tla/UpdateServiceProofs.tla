------------------------ MODULE UpdateServiceProofs ------------------------
(***************************************************************************)
(* TLAPS proofs about UpdateService.tla, for every set of mount points and *)
(* songs and every queue size, id range and number of jobs.                *)
(***************************************************************************)
EXTENDS UpdateService, ListLemmas, TLAPS

----------------------------------------------------------------------------
(***************************************************************************)
(* The inductive invariant.                                                *)
(***************************************************************************)

Active == {"walk", "remove", "save", "schedule"}
UpdatePending == inject = <<"Update">> \/ inject = <<"Remove", "Update">>
RemovePending == inject = <<"Remove">> \/ inject = <<"Remove", "Update">>

\* Of the orders the two events could be pending in, one never happens: the
\* update thread schedules "Update" last, so "Remove" is never behind it.
InjectShape == inject \in {<< >>, <<"Remove">>, <<"Update">>, <<"Remove", "Update">>}

\* How the walk, the thread and the events of the current job fit together.
JobInv ==
  /\ walk = "null" <=> (next.id = 0 \/ main = "destroyed")
  /\ walk = "null" => thread = "undefined" /\ queue = << >> /\ uris = {}
                      /\ ~UpdatePending /\ main # "Update"
  /\ thread \in Active => ~UpdatePending /\ main # "Update"
  /\ thread = "exited" => UpdatePending \/ main = "Update"
  /\ main = "Update" => ~UpdatePending
  /\ main = "destroyed" => inject = << >>
  /\ main = "aborted" => thread = "undefined"
  /\ main = "destroy" => queue = << >>

\* A non-empty list has exactly one announcement on its way.
RemoveInv ==
  /\ Alive => removed \ announced \subseteq uris
  /\ Alive /\ uris # {} => RemovePending \/ main = "Remove" \/ thread = "remove"
  /\ thread = "remove" => uris # {} /\ ~RemovePending /\ main # "Remove"
  /\ RemovePending => uris # {} /\ main # "Remove"
  /\ main = "Remove" => uris # {}
  /\ main = "Update" => inject = << >> /\ uris = {}

\* No job refers to the mount CancelMount() has dealt with.
MountInv ==
  /\ main \in {"cancel", "join", "unmount"} =>
       victim # NoItem /\ victim.mount \in mounted
  /\ main \in {"join", "unmount"} =>
       \A i \in DOMAIN queue : queue[i].target # victim.mount
  /\ main = "join" => next.target = victim.mount
  /\ main = "unmount" /\ thread \in Active => next.target # victim.mount
  /\ thread \in Active => next.target \in mounted \cup {Root}
  /\ \A i \in DOMAIN queue : queue[i].target \in mounted \cup {Root}

Inv == TypeOK /\ InjectShape /\ JobInv /\ RemoveInv /\ MountInv
----------------------------------------------------------------------------
(***************************************************************************)
(* Lemmas about the list operations.                                       *)
(***************************************************************************)

\* The four lists that occur: their types, heads and tails.
LEMMA ListFacts ==
  /\ InjectShape => inject \in Seq(Events)
  /\ Head(<<"Remove">>) = "Remove" /\ Tail(<<"Remove">>) = << >>
  /\ Head(<<"Update">>) = "Update" /\ Tail(<<"Update">>) = << >>
  /\ Head(<<"Remove", "Update">>) = "Remove"
  /\ Tail(<<"Remove", "Update">>) = <<"Update">>
<1>1. InjectShape => inject \in Seq(Events)
  <2>1. << >> \in Seq(Events)
    OBVIOUS
  <2>2. <<"Remove">> \in Seq(Events) /\ <<"Update">> \in Seq(Events)
    BY DEF Events
  <2>3. <<"Remove", "Update">> \in Seq(Events)
    BY DEF Events
  <2>. QED
    BY <2>1, <2>2, <2>3, Zenon DEF InjectShape
<1>2. /\ Head(<<"Remove">>) = "Remove" /\ Tail(<<"Remove">>) = << >>
      /\ Head(<<"Update">>) = "Update" /\ Tail(<<"Update">>) = << >>
  OBVIOUS
<1>3. Head(<<"Remove", "Update">>) = "Remove"
  OBVIOUS
<1>4. Tail(<<"Remove", "Update">>) = <<"Update">>
  OBVIOUS
<1>. QED
  BY <1>1, <1>2, <1>3, <1>4

\* AddInject() and RemoveInject() on the lists that occur.
LEMMA InjectFacts ==
  /\ IQ!AddInject(<< >>, "Update") = <<"Update">>
  /\ IQ!AddInject(<<"Remove">>, "Update") = <<"Remove", "Update">>
  /\ IQ!AddInject(<< >>, "Remove") = <<"Remove">>
  /\ IQ!RemoveInject(<< >>, "Remove") = << >>
  /\ IQ!RemoveInject(<<"Update">>, "Remove") = <<"Update">>
<1>1. ~IQ!IsPending(<< >>, "Update") /\ ~IQ!IsPending(<< >>, "Remove")
  BY DEF IQ!IsPending
<1>2. ~IQ!IsPending(<<"Remove">>, "Update") /\ ~IQ!IsPending(<<"Update">>, "Remove")
  BY DEF IQ!IsPending
<1>3. Append(<< >>, "Update") = <<"Update">> /\ Append(<< >>, "Remove") = <<"Remove">>
  OBVIOUS
<1>4. Append(<<"Remove">>, "Update") = <<"Remove", "Update">>
  <2>. DEFINE one == <<"Remove">>
              two == <<"Remove", "Update">>
  <2>1. /\ one \in Seq(Events) /\ Len(one) = 1 /\ one[1] = "Remove"
        /\ "Update" \in Events
    BY DEF Events
  <2>2. two \in Seq(Events) /\ Len(two) = 2 /\ two[1] = "Remove" /\ two[2] = "Update"
    BY DEF Events
  <2>. HIDE DEF one, two
  <2>3. Append(one, "Update") \in Seq(Events)
    BY <2>1
  <2>4. Len(Append(one, "Update")) = Len(one) + 1
    BY <2>1, AppendProperties
  <2>5. Append(one, "Update")[1] = "Remove"
    BY <2>1
  <2>6. Append(one, "Update")[Len(one) + 1] = "Update"
    BY <2>1, AppendProperties
  <2>7. Append(one, "Update") = two
    BY <2>1, <2>2, <2>3, <2>4, <2>5, <2>6, SeqEqual
  <2>. QED
    BY <2>7 DEF one, two
<1>. QED
  BY <1>1, <1>2, <1>3, <1>4 DEF IQ!AddInject, IQ!RemoveInject

\* Pending events, read off the shape of the list.
LEMMA PendingFacts ==
  ASSUME InjectShape
  PROVE  /\ IQ!IsPending(inject, "Update") <=> UpdatePending
         /\ IQ!IsPending(inject, "Remove") <=> RemovePending
  BY DEF InjectShape, IQ!IsPending, UpdatePending, RemovePending

\* Ids are positive and in range, across the wrap-around.
LEMMA GenerateIdType ==
  ASSUME update_task_id \in 0..update_task_id_max
  PROVE  GenerateId \in Ids
  BY ServiceAssumption DEF GenerateId, Ids
----------------------------------------------------------------------------
(***************************************************************************)
(* Init and every action.                                                  *)
(***************************************************************************)

\* The invariant holds when the process has started.
LEMMA InitInv == Init => Inv
<1>. SUFFICES ASSUME Init PROVE Inv
  OBVIOUS
<1>. USE DEF Init, Active, UpdatePending, RemovePending, Alive
<1>1. TypeOK
  <2>1. queue \in Seq(Item) /\ Len(queue) = 0 /\ inject \in Seq(Events)
    BY EmptySeq
  <2>2. /\ Len(queue) <= MAX_UPDATE_QUEUE_SIZE /\ jobs \in 0..MaxJobs
        /\ update_task_id \in 0..update_task_id_max
    BY <2>1, ServiceAssumption
  <2>3. modified \in BOOLEAN /\ victim = NoItem /\ next = NoItem
    BY Zenon
  <2>. QED
    BY <2>1, <2>2, <2>3 DEF TypeOK, ThreadStates, MainStates
<1>2. InjectShape
  BY DEF InjectShape
<1>3. JobInv
  BY DEF JobInv, NoItem
<1>4. RemoveInv
  BY DEF RemoveInv
<1>5. MountInv
  BY DEF MountInv
<1>. QED
  BY <1>1, <1>2, <1>3, <1>4, <1>5 DEF Inv

\* handle_unmount() begins.
LEMMA UnmountCommandInv ==
  ASSUME Inv, NEW m \in Mounts, NEW nested \in BOOLEAN, UnmountCommand(m, nested)
  PROVE  Inv'
<1>. USE DEF Inv, UnmountCommand, jobVars, removeVars, Active, UpdatePending,
             RemovePending, Alive
<1>1. TypeOK'
  BY DEF TypeOK, ThreadStates, MainStates
<1>2. InjectShape'
  BY DEF InjectShape
<1>3. JobInv'
  BY DEF JobInv
<1>4. RemoveInv'
  BY DEF RemoveInv, JobInv
<1>5. MountInv'
  BY DEF MountInv, NoItem
<1>. QED
  BY <1>1, <1>2, <1>3, <1>4, <1>5

\* CancelMount() cancels the current walk.
LEMMA CancelCurrentInv ==
  ASSUME Inv, CancelCurrent
  PROVE  Inv'
<1>. USE DEF Inv, CancelCurrent, jobVars, removeVars, Active, UpdatePending,
             RemovePending, Alive, GetId
<1>1. TypeOK'
  BY DEF TypeOK, ThreadStates, MainStates
<1>2. InjectShape'
  BY DEF InjectShape
<1>3. JobInv'
  BY DEF JobInv
<1>4. RemoveInv'
  BY DEF RemoveInv, JobInv
<1>5. MountInv'
  BY DEF MountInv, JobInv
<1>. QED
  BY <1>1, <1>2, <1>3, <1>4, <1>5

\* CancelMount() joins the thread.
LEMMA CancelMountJoinInv ==
  ASSUME Inv, CancelMountJoin
  PROVE  Inv'
<1>. USE DEF Inv, CancelMountJoin, jobVars, removeVars, Active, UpdatePending,
             RemovePending, Alive
<1>1. TypeOK'
  BY DEF TypeOK, ThreadStates, MainStates
<1>2. InjectShape'
  BY DEF InjectShape
<1>3. JobInv'
  BY DEF JobInv
<1>4. RemoveInv'
  BY DEF RemoveInv, JobInv
<1>5. MountInv'
  BY DEF MountInv, JobInv
<1>. QED
  BY <1>1, <1>2, <1>3, <1>4, <1>5

\* handle_unmount() destroys the objects.
LEMMA UnmountInv ==
  ASSUME Inv, Unmount
  PROVE  Inv'
<1>. USE DEF Inv, Unmount, jobVars, removeVars, Active, UpdatePending,
             RemovePending, Alive
<1>1. TypeOK'
  BY DEF TypeOK, ThreadStates, MainStates
<1>2. InjectShape'
  BY DEF InjectShape
<1>3. JobInv'
  BY DEF JobInv
<1>4. RemoveInv'
  BY DEF RemoveInv, JobInv
<1>5. MountInv'
  BY DEF MountInv, JobInv
<1>. QED
  BY <1>1, <1>2, <1>3, <1>4, <1>5

\* The update thread removes a song.
LEMMA RemoveSongInv ==
  ASSUME Inv, NEW s \in Songs, RemoveSong(s)
  PROVE  Inv'
<1>. USE DEF Inv, RemoveSong, jobVars, removeVars, Active, UpdatePending,
             RemovePending, Alive
<1>1. TypeOK'
  BY DEF TypeOK, ThreadStates, MainStates
<1>2. InjectShape'
  BY DEF InjectShape
<1>3. JobInv'
  BY DEF JobInv
<1>4. RemoveInv'
  BY DEF RemoveInv, JobInv
<1>5. MountInv'
  BY DEF MountInv, JobInv
<1>. QED
  BY <1>1, <1>2, <1>3, <1>4, <1>5

\* It schedules the announcement.
LEMMA ScheduleRemoveInv ==
  ASSUME Inv, ScheduleRemove
  PROVE  Inv'
<1>0. inject = << >> /\ inject' = <<"Remove">>
  BY InjectFacts DEF Inv, JobInv, RemoveInv, InjectShape, ScheduleRemove, Active, UpdatePending, RemovePending, Alive
<1>2. InjectShape'
  BY <1>0 DEF InjectShape
<1>1. TypeOK'
  <2>1. inject' \in Seq(Events)
    BY <1>0 DEF Events
  <2>. QED
    BY <2>1 DEF Inv, TypeOK, ThreadStates, ScheduleRemove, jobVars, removeVars
<1>3. JobInv'
  BY <1>0 DEF Inv, JobInv, ScheduleRemove, jobVars, removeVars, Active, UpdatePending, RemovePending, Alive
<1>4. RemoveInv'
  BY <1>0 DEF Inv, RemoveInv, ScheduleRemove, jobVars, removeVars, Active, UpdatePending, RemovePending, Alive
<1>5. MountInv'
  BY DEF Inv, MountInv, ScheduleRemove, jobVars, removeVars, Active, UpdatePending, RemovePending, Alive
<1>. QED
  BY <1>1, <1>2, <1>3, <1>4, <1>5 DEF Inv

\* Walk() returns.
LEMMA WalkReturnsInv ==
  ASSUME Inv, WalkReturns
  PROVE  Inv'
<1>. USE DEF Inv, WalkReturns, jobVars, removeVars, Active, UpdatePending,
             RemovePending, Alive
<1>1. TypeOK'
  BY DEF TypeOK, ThreadStates, MainStates
<1>2. InjectShape'
  BY DEF InjectShape
<1>3. JobInv'
  BY DEF JobInv
<1>4. RemoveInv'
  BY DEF RemoveInv, JobInv
<1>5. MountInv'
  BY DEF MountInv, JobInv
<1>. QED
  BY <1>1, <1>2, <1>3, <1>4, <1>5

\* The database is saved.
LEMMA TaskSaveInv ==
  ASSUME Inv, TaskSave
  PROVE  Inv'
<1>. USE DEF Inv, TaskSave, jobVars, removeVars, Active, UpdatePending,
             RemovePending, Alive
<1>1. TypeOK'
  BY DEF TypeOK, ThreadStates, MainStates
<1>2. InjectShape'
  BY DEF InjectShape
<1>3. JobInv'
  BY DEF JobInv
<1>4. RemoveInv'
  BY DEF RemoveInv, JobInv
<1>5. MountInv'
  BY DEF MountInv, JobInv
<1>. QED
  BY <1>1, <1>2, <1>3, <1>4, <1>5

\* Task() ends.
LEMMA ScheduleDeferredInv ==
  ASSUME Inv, ScheduleDeferred
  PROVE  Inv'
<1>0. \/ inject = << >> /\ inject' = <<"Update">>
      \/ inject = <<"Remove">> /\ inject' = <<"Remove", "Update">>
  BY InjectFacts DEF Inv, JobInv, InjectShape, ScheduleDeferred, Active, UpdatePending, RemovePending, Alive
<1>2. InjectShape'
  BY <1>0 DEF InjectShape
<1>1. TypeOK'
  <2>1. inject' \in Seq(Events)
    <3>1. <<"Update">> \in Seq(Events) /\ <<"Remove", "Update">> \in Seq(Events)
      BY DEF Events
    <3>. QED
      BY <1>0, <3>1
  <2>. QED
    BY <2>1 DEF Inv, TypeOK, ThreadStates, ScheduleDeferred, jobVars, removeVars
<1>3. JobInv'
  BY <1>0 DEF Inv, JobInv, ScheduleDeferred, jobVars, removeVars, Active, UpdatePending, RemovePending, Alive
<1>4. RemoveInv'
  BY <1>0 DEF Inv, JobInv, RemoveInv, ScheduleDeferred, jobVars, removeVars, Active, UpdatePending, RemovePending, Alive
<1>5. MountInv'
  BY DEF Inv, MountInv, ScheduleDeferred, jobVars, removeVars, Active, UpdatePending, RemovePending, Alive
<1>. QED
  BY <1>1, <1>2, <1>3, <1>4, <1>5 DEF Inv

\* The event loop takes the oldest event.
LEMMA HandleInjectInv ==
  ASSUME Inv, HandleInject
  PROVE  Inv'
<1>0. \/ inject = <<"Remove">> /\ inject' = << >> /\ main' = "Remove"
      \/ inject = <<"Update">> /\ inject' = << >> /\ main' = "Update"
      \/ inject = <<"Remove", "Update">> /\ inject' = <<"Update">> /\ main' = "Remove"
  BY ListFacts, Zenon DEF Inv, InjectShape, HandleInject
<1>2. InjectShape'
  BY <1>0 DEF InjectShape
<1>1. TypeOK'
  <2>1. inject' \in Seq(Events)
    <3>1. << >> \in Seq(Events) /\ <<"Update">> \in Seq(Events)
      BY DEF Events
    <3>. QED
      BY <1>0, <3>1
  <2>. QED
    BY <1>0, <2>1 DEF Inv, TypeOK, MainStates, HandleInject, jobVars, removeVars
<1>3. JobInv'
  BY <1>0 DEF Inv, JobInv, HandleInject, jobVars, removeVars, Active, UpdatePending, RemovePending, Alive
<1>4. RemoveInv'
  BY <1>0 DEF Inv, RemoveInv, JobInv, HandleInject, jobVars, removeVars, Active, UpdatePending, RemovePending, Alive
<1>5. MountInv'
  BY <1>0 DEF Inv, MountInv, HandleInject, jobVars, removeVars, Active, UpdatePending, RemovePending, Alive
<1>. QED
  BY <1>1, <1>2, <1>3, <1>4, <1>5 DEF Inv

\* The removals are announced.
LEMMA RunRemoveInv ==
  ASSUME Inv, RunRemove
  PROVE  Inv'
<1>. USE DEF Inv, RunRemove, jobVars, removeVars, Active, UpdatePending,
             RemovePending, Alive
<1>1. TypeOK'
  BY DEF TypeOK, ThreadStates, MainStates
<1>2. InjectShape'
  BY DEF InjectShape
<1>3. JobInv'
  BY DEF JobInv
<1>4. RemoveInv'
  BY DEF RemoveInv, JobInv
<1>5. MountInv'
  BY DEF MountInv, JobInv
<1>. QED
  BY <1>1, <1>2, <1>3, <1>4, <1>5

\* Shutdown begins.
LEMMA CancelAllAsyncInv ==
  ASSUME Inv, CancelAllAsync
  PROVE  Inv'
<1>. USE DEF Inv, CancelAllAsync, jobVars, removeVars, Active, UpdatePending,
             RemovePending, Alive
<1>1. TypeOK'
  BY ServiceAssumption DEF TypeOK, ThreadStates, MainStates
<1>2. InjectShape'
  BY DEF InjectShape
<1>3. JobInv'
  BY DEF JobInv
<1>4. RemoveInv'
  BY DEF RemoveInv, JobInv
<1>5. MountInv'
  BY DEF MountInv, JobInv
<1>. QED
  BY <1>1, <1>2, <1>3, <1>4, <1>5

\* The service is destroyed.
LEMMA DestroyInv ==
  ASSUME Inv, Destroy
  PROVE  Inv'
<1>. USE DEF Inv, Destroy, jobVars, removeVars, Active, UpdatePending,
             RemovePending, Alive
<1>1. TypeOK'
  BY DEF TypeOK, ThreadStates, MainStates
<1>2. InjectShape'
  BY DEF InjectShape
<1>3. JobInv'
  BY DEF JobInv
<1>4. RemoveInv'
  BY DEF RemoveInv, JobInv
<1>5. MountInv'
  BY DEF MountInv, JobInv
<1>. QED
  BY <1>1, <1>2, <1>3, <1>4, <1>5

\* An accepted job, queued or started.
LEMMA EnqueueItemInv ==
  ASSUME Inv, main = "loop", main' = "loop", NEW target, EnqueueItem(target),
         mounted \subseteq mounted', mounted' \subseteq Mounts,
         target \in mounted' \cup {Root},
         UNCHANGED <<inject, victim, removed, announced>>
  PROVE  Inv'
<1>. DEFINE item == [target |-> target, id |-> GenerateId]
<1>0. item \in Item /\ item.id # 0 /\ item.target = target
  BY GenerateIdType, ServiceAssumption DEF Inv, TypeOK, Item, Targets, Ids
<1>. HIDE DEF item
<1>q. CASE walk # "null" /\ ~QueueFull /\ queue' = Append(queue, item)
           /\ UNCHANGED <<next, walk, modified, thread, uris>>
  <2>0. /\ queue' \in Seq(Item) /\ Len(queue') = Len(queue) + 1
        /\ Len(queue') <= MAX_UPDATE_QUEUE_SIZE
        /\ \A i \in DOMAIN queue' :
             \/ queue'[i].target = target
             \/ i \in DOMAIN queue /\ queue'[i].target = queue[i].target
    <3>1. /\ queue' \in Seq(Item) /\ Len(queue') = Len(queue) + 1
          /\ \A i \in 1..Len(queue) : queue'[i] = queue[i]
          /\ queue'[Len(queue) + 1] = item
      <4>1. queue \in Seq(Item)
        BY DEF Inv, TypeOK
      <4>2. /\ Append(queue, item) \in Seq(Item)
            /\ Len(Append(queue, item)) = Len(queue) + 1
            /\ \A i \in 1..Len(queue) : Append(queue, item)[i] = queue[i]
            /\ Append(queue, item)[Len(queue) + 1] = item
        BY <1>0, <4>1, AppendFacts, Zenon
      <4>3. queue' = Append(queue, item)
        BY <1>q
      <4>. QED
        BY <4>2, <4>3
    <3>2. Len(queue) < MAX_UPDATE_QUEUE_SIZE /\ Len(queue) \in Nat
      BY <1>q, ServiceAssumption, LenProperties DEF QueueFull, Inv, TypeOK
    <3>3. DOMAIN queue = 1..Len(queue) /\ DOMAIN queue' = 1..(Len(queue) + 1)
      BY <3>1, LenProperties DEF Inv, TypeOK
    <3>4. ASSUME NEW i \in DOMAIN queue'
          PROVE  \/ queue'[i].target = target
                 \/ i \in DOMAIN queue /\ queue'[i].target = queue[i].target
      <4>1. i \in 1..Len(queue) \/ i = Len(queue) + 1
        BY <3>2, <3>3
      <4>. QED
        BY <1>0, <3>1, <3>3, <4>1
    <3>5. Len(queue') <= MAX_UPDATE_QUEUE_SIZE
      BY <3>1, <3>2, ServiceAssumption
    <3>. QED
      BY <3>1, <3>4, <3>5
  <2>1. TypeOK'
    <3>1. update_task_id' \in 0..update_task_id_max /\ jobs' \in 0..MaxJobs
      BY GenerateIdType, ServiceAssumption DEF Inv, TypeOK, EnqueueItem, Ids
    <3>. QED
      BY <1>q, <2>0, <3>1 DEF Inv, TypeOK, MainStates
  <2>2. InjectShape' /\ JobInv' /\ RemoveInv'
    BY <1>q DEF Inv, InjectShape, JobInv, RemoveInv, Active, UpdatePending, RemovePending, Alive
  <2>3. MountInv'
    BY <1>q, <2>0 DEF Inv, MountInv, Active
  <2>. QED
    BY <2>1, <2>2, <2>3 DEF Inv
<1>s. CASE walk = "null" /\ StartThread(item) /\ UNCHANGED queue
  <2>1. TypeOK'
    <3>1. update_task_id' \in 0..update_task_id_max /\ jobs' \in 0..MaxJobs
      BY GenerateIdType, ServiceAssumption DEF Inv, TypeOK, EnqueueItem, Ids
    <3>. QED
      BY <1>s, <1>0, <3>1
      DEF Inv, TypeOK, StartThread, MainStates, ThreadStates
  <2>2. InjectShape' /\ JobInv'
    BY <1>s, <1>0 DEF Inv, InjectShape, JobInv, StartThread, Active, UpdatePending, RemovePending, Alive
  <2>3. RemoveInv'
    BY <1>s DEF Inv, JobInv, RemoveInv, StartThread, Active, UpdatePending, RemovePending, Alive
  <2>4. MountInv'
    BY <1>s, <1>0 DEF Inv, JobInv, MountInv, StartThread, Active
  <2>. QED
    BY <2>1, <2>2, <2>3, <2>4 DEF Inv
<1>. QED
  BY <1>q, <1>s DEF EnqueueItem, item

\* "update", "rescan" and DbMain's job.
LEMMA UpdateCommandInv ==
  ASSUME Inv, NEW uri \in Targets, UpdateCommand(uri)
  PROVE  Inv'
  BY EnqueueItemInv DEF UpdateCommand, EnqueueTarget, Inv, TypeOK

\* "mount", with or without an update.
LEMMA MountCommandInv ==
  ASSUME Inv, NEW m \in Mounts, MountCommand(m)
  PROVE  Inv'
<1>1. CASE EnqueueItem(m)
  BY <1>1, EnqueueItemInv DEF MountCommand, Inv, TypeOK
<1>2. CASE UNCHANGED <<jobVars, walk, modified, thread, uris>>
  <2>1. TypeOK'
    BY <1>2 DEF Inv, TypeOK, MountCommand, jobVars
  <2>2. InjectShape' /\ JobInv' /\ RemoveInv'
    BY <1>2 DEF Inv, InjectShape, JobInv, RemoveInv, MountCommand, jobVars, Active, UpdatePending, RemovePending, Alive
  <2>3. MountInv'
    BY <1>2 DEF Inv, MountInv, MountCommand, jobVars, Active
  <2>. QED
    BY <2>1, <2>2, <2>3 DEF Inv
<1>. QED
  BY <1>1, <1>2 DEF MountCommand

\* CancelMount() erases a waiting job.
LEMMA EraseQueuedInv ==
  ASSUME Inv, EraseQueued
  PROVE  Inv'
<1>0. /\ queue' \in Seq(Item) /\ Len(queue') <= MAX_UPDATE_QUEUE_SIZE
      /\ \A j \in DOMAIN queue' : \E k \in DOMAIN queue : queue'[j] = queue[k]
      /\ queue # << >>
  <2>1. PICK i \in DOMAIN queue : queue' = RemoveAt(queue, i)
    BY DEF EraseQueued
  <2>2. /\ queue' \in Seq(Item) /\ Len(queue') = Len(queue) - 1
        /\ \A j \in DOMAIN queue' : queue'[j] = IF j < i THEN queue[j] ELSE queue[j + 1]
    BY <2>1, EraseFacts DEF Inv, TypeOK
  <2>3. /\ Len(queue) \in Nat /\ DOMAIN queue = 1..Len(queue)
        /\ DOMAIN queue' = 1..(Len(queue) - 1)
    BY <2>2, LenProperties DEF Inv, TypeOK
  <2>4. ASSUME NEW j \in DOMAIN queue'
        PROVE  \E k \in DOMAIN queue : queue'[j] = queue[k]
    BY <2>2, <2>3, j \in DOMAIN queue, j + 1 \in DOMAIN queue
  <2>. QED
    BY <2>1, <2>2, <2>3, <2>4, ServiceAssumption DEF Inv, TypeOK
<1>1. TypeOK'
  BY <1>0 DEF Inv, TypeOK, EraseQueued, removeVars
<1>2. InjectShape' /\ JobInv' /\ RemoveInv'
  BY <1>0 DEF Inv, InjectShape, JobInv, RemoveInv, EraseQueued, removeVars, Active, UpdatePending, RemovePending, Alive
<1>3. MountInv'
  BY <1>0 DEF Inv, MountInv, EraseQueued, Active
<1>. QED
  BY <1>1, <1>2, <1>3 DEF Inv

\* A job is finished; the next one starts.
LEMMA RunDeferredInv ==
  ASSUME Inv, RunDeferred
  PROVE  Inv'
<1>0. inject = << >> /\ inject' = << >> /\ uris = {}
  BY InjectFacts DEF Inv, InjectShape, JobInv, RemoveInv, RunDeferred, Active, UpdatePending, RemovePending, Alive
<1>e. CASE queue = << >>
  <2>1. TypeOK'
    BY <1>0, <1>e, ServiceAssumption
    DEF Inv, TypeOK, RunDeferred, ThreadStates, MainStates
  <2>2. InjectShape' /\ JobInv'
    BY <1>0, <1>e DEF Inv, InjectShape, JobInv, RunDeferred, NoItem, Active, UpdatePending, RemovePending, Alive
  <2>3. RemoveInv'
    BY <1>0, <1>e DEF Inv, RemoveInv, RunDeferred, Active, UpdatePending, RemovePending, Alive
  <2>4. MountInv'
    BY <1>e DEF Inv, MountInv, RunDeferred, Active
  <2>. QED
    BY <2>1, <2>2, <2>3, <2>4 DEF Inv
<1>p. CASE queue # << >>
  <2>0. /\ Head(queue) \in Item /\ Head(queue).id # 0
        /\ Head(queue).target \in mounted \cup {Root}
        /\ queue' \in Seq(Item) /\ Len(queue') <= MAX_UPDATE_QUEUE_SIZE
        /\ \A j \in DOMAIN queue' : queue'[j].target \in mounted \cup {Root}
        /\ StartThread(Head(queue)) /\ main' \in {"loop", "aborted"}
        /\ main' = "aborted" <=> thread' = "undefined"
    <3>1. queue \in Seq(Item) /\ queue' = Tail(queue)
      BY <1>p DEF RunDeferred, Inv, TypeOK
    <3>2. \A x \in Item : x.id # 0
      BY DEF Item, Ids
    <3>3. Len(queue') <= MAX_UPDATE_QUEUE_SIZE
      BY <3>1, <1>p, TailFacts, LenProperties, ServiceAssumption DEF Inv, TypeOK
    <3>4. \A j \in DOMAIN queue' : queue'[j].target \in mounted \cup {Root}
      BY <3>1, <1>p, TailFacts DEF Inv, MountInv
    <3>5. Head(queue) \in Item /\ Head(queue).target \in mounted \cup {Root}
          /\ queue' \in Seq(Item)
      BY <3>1, <1>p, TailFacts DEF Inv, MountInv
    <3>. QED
      BY <1>p, <3>2, <3>3, <3>4, <3>5 DEF RunDeferred
  <2>1. TypeOK'
    BY <1>0, <2>0 DEF Inv, TypeOK, RunDeferred, StartThread, ThreadStates, MainStates
  <2>2. InjectShape' /\ JobInv'
    BY <1>0, <2>0 DEF Inv, InjectShape, JobInv, StartThread, RunDeferred, Active, UpdatePending, RemovePending, Alive
  <2>3. RemoveInv'
    BY <1>0, <2>0 DEF Inv, RemoveInv, StartThread, RunDeferred, Active, UpdatePending, RemovePending, Alive
  <2>4. MountInv'
    BY <2>0 DEF Inv, MountInv, RunDeferred, StartThread, Active
  <2>. QED
    BY <2>1, <2>2, <2>3, <2>4 DEF Inv
<1>. QED
  BY <1>e, <1>p

----------------------------------------------------------------------------
(***************************************************************************)
(* The theorems.                                                           *)
(***************************************************************************)

(***************************************************************************)
(* Every step of the main thread and of the update thread preserves the    *)
(* invariant, whatever the order in which commands, events and the steps   *)
(* of Task() meet.                                                         *)
(***************************************************************************)
THEOREM Invariance == Spec => []Inv
<1>1. Init => Inv
  BY InitInv
<1>2. Inv /\ [Next]_vars => Inv'
  <2>. SUFFICES ASSUME Inv, [Next]_vars PROVE Inv'
    OBVIOUS
  <2>1. CASE MainStep
    BY <2>1, EraseQueuedInv, CancelCurrentInv, CancelMountJoinInv, UnmountInv,
       HandleInjectInv, RunRemoveInv, RunDeferredInv, DestroyInv DEF MainStep
  <2>2. CASE ThreadStep
    BY <2>2, RemoveSongInv, ScheduleRemoveInv, WalkReturnsInv, TaskSaveInv,
       ScheduleDeferredInv DEF ThreadStep
  <2>3. CASE Command
    BY <2>3, UpdateCommandInv, MountCommandInv, UnmountCommandInv,
       CancelAllAsyncInv DEF Command
  <2>4. CASE UNCHANGED vars
    <3>1. TypeOK'
      BY <2>4 DEF Inv, TypeOK, vars
    <3>2. InjectShape' /\ JobInv' /\ RemoveInv'
      BY <2>4 DEF Inv, InjectShape, JobInv, RemoveInv, vars, Active,
                  UpdatePending, RemovePending, Alive
    <3>3. MountInv'
      BY <2>4 DEF Inv, MountInv, vars, Active
    <3>. QED
      BY <3>1, <3>2, <3>3 DEF Inv
  <2>. QED
    BY <2>1, <2>2, <2>3, <2>4 DEF Next, Gone
<1>. QED
  BY <1>1, <1>2, PTL DEF Spec

\* The variables keep their types; the queue never exceeds its limit and every
\* job id is positive, across the wrap-around of update_task_id.
THEOREM TypeCorrect == Spec => []TypeOK
<1>1. Inv => TypeOK
  BY DEF Inv
<1>. QED
  BY <1>1, Invariance, PTL

\* No update works with a database or storage that "unmount" has destroyed.
THEOREM TargetsStayAlive == Spec => []LiveTargets
<1>1. Inv => LiveTargets
  BY DEF Inv, MountInv, LiveTargets, Active
<1>. QED
  BY <1>1, Invariance, PTL

\* GetId() = 0, DbMain's completion test, implies that everything is done.
THEOREM CompletionTestIsSound == Spec => []IdleMeansDone
<1>1. Inv => IdleMeansDone
  BY PendingFacts DEF Inv, JobInv, IdleMeansDone, GetId, Alive
<1>. QED
  BY <1>1, Invariance, PTL

\* No removed song is forgotten, however Remove() interleaves with the main
\* thread taking the list and dropping the walk.
THEOREM NoRemovalIsLost == Spec => []RemovalsAnnounced
<1>1. Inv => RemovalsAnnounced
  BY PendingFacts DEF Inv, RemoveInv, RemovalsAnnounced
<1>. QED
  BY <1>1, Invariance, PTL

----------------------------------------------------------------------------
(***************************************************************************)
(* GetId() # 0 means that something is going on.  This is not true when    *)
(* Thread::Start() fails (StartThread() has set "next" by then), so it is  *)
(* proved for threads that can be created.                                 *)
(***************************************************************************)

Working ==
  Alive /\ next.id # 0 => thread # "undefined" \/ UpdatePending \/ main = "Update"

\* A step that neither joins the thread nor takes an event nor starts a job.
LEMMA WorkingKept ==
  ASSUME Working, UNCHANGED next,
         thread' = "undefined" => thread = "undefined",
         UpdatePending => UpdatePending',
         main = "Update" => main' = "Update",
         Alive' => Alive
  PROVE  Working'
  BY DEF Working

\* Every step keeps it.
LEMMA WorkingStep ==
  ASSUME ~ThreadMayFail, Inv, Working, [Next]_vars
  PROVE  Working'
<1>. USE DEF Inv
<1>1. CASE EraseQueued \/ CancelCurrent \/ Unmount \/ RunRemove
  BY <1>1, WorkingKept DEF EraseQueued, CancelCurrent, Unmount, RunRemove, jobVars, UpdatePending, Alive
<1>2. CASE CancelMountJoin
  BY <1>2 DEF CancelMountJoin, Working, JobInv, jobVars, UpdatePending
<1>3. CASE HandleInject
  <2>1. \/ inject = <<"Remove">> /\ inject' = << >> /\ main' = "Remove"
        \/ inject = <<"Update">> /\ inject' = << >> /\ main' = "Update"
        \/ inject = <<"Remove", "Update">> /\ inject' = <<"Update">> /\ main' = "Remove"
    BY <1>3, ListFacts DEF HandleInject, InjectShape
  <2>2. UNCHANGED <<next, thread>> /\ main = "loop"
    BY <1>3 DEF HandleInject, jobVars
  <2>3. <<"Remove">> # <<"Update">> /\ <<"Remove">> # <<"Remove", "Update">>
    OBVIOUS
  <2>. QED
    BY <2>1, <2>2, <2>3 DEF Working, UpdatePending, Alive
<1>4. CASE RunDeferred
  BY <1>4 DEF RunDeferred, StartThread, Working, NoItem
<1>5. CASE Destroy
  BY <1>5 DEF Destroy, Working, Alive
<1>6. CASE (\E s \in Songs : RemoveSong(s)) \/ WalkReturns \/ TaskSave
  BY <1>6, WorkingKept DEF RemoveSong, WalkReturns, TaskSave, jobVars, UpdatePending, Alive
<1>7. CASE ScheduleRemove \/ ScheduleDeferred
  <2>1. thread' \in {"walk", "exited"}
    BY <1>7 DEF ScheduleRemove, ScheduleDeferred
  <2>. QED
    BY <2>1 DEF Working
<1>8. ASSUME NEW target, EnqueueItem(target), UNCHANGED <<inject, main>>
      PROVE  Working'
  <2>1. CASE walk = "null"
    <3>1. thread' = "walk"
      BY <1>8, <2>1 DEF EnqueueItem, StartThread
    <3>. QED
      BY <3>1 DEF Working
  <2>2. CASE walk # "null"
    BY <1>8, <2>2, WorkingKept DEF EnqueueItem, UpdatePending, Alive
  <2>. QED
    BY <2>1, <2>2
<1>9. CASE \E uri \in Targets : UpdateCommand(uri)
  BY <1>8, <1>9 DEF UpdateCommand
<1>10. CASE \E m \in Mounts : MountCommand(m)
  <2>1. PICK m \in Mounts : MountCommand(m)
    BY <1>10
  <2>2. CASE EnqueueItem(m)
    BY <1>8, <2>1, <2>2 DEF MountCommand
  <2>3. CASE UNCHANGED <<jobVars, walk, modified, thread, uris>>
    BY <2>1, <2>3, WorkingKept DEF MountCommand, jobVars, UpdatePending, Alive
  <2>. QED
    BY <2>1, <2>2, <2>3 DEF MountCommand
<1>11. CASE \/ \E m \in Mounts, nested \in BOOLEAN : UnmountCommand(m, nested)
            \/ CancelAllAsync
  BY <1>11, WorkingKept DEF UnmountCommand, CancelAllAsync, jobVars, UpdatePending, Alive
<1>12. CASE UNCHANGED vars
  BY <1>12, WorkingKept DEF vars, UpdatePending, Alive
<1>. QED
  BY <1>1, <1>2, <1>3, <1>4, <1>5, <1>6, <1>7, <1>9, <1>10, <1>11, <1>12
  DEF Next, MainStep, ThreadStep, Command, Gone

\* As long as threads can be created, a job that GetId() names is being worked on
\* or its completion is on its way: it is never stuck.
THEOREM BusyIsNotStuck ==
  ASSUME ~ThreadMayFail
  PROVE  Spec => []BusyMeansUpdating
<1>1. Init => Working
  BY DEF Init, Working, NoItem
<1>2. Inv /\ Working /\ [Next]_vars => Working'
  BY WorkingStep
<1>3. Inv /\ Working => BusyMeansUpdating
  BY PendingFacts DEF Inv, Working, BusyMeansUpdating, GetId
<1>. QED
  BY <1>1, <1>2, <1>3, Invariance, PTL DEF Spec

----------------------------------------------------------------------------
(***************************************************************************)
(* UpdateService implements UpdateJobs, as far as safety goes: what a step *)
(* does to the jobs is a step of the abstract queue.                       *)
(***************************************************************************)

\* The jobs as UpdateJobs sees them: the one being worked on, then the queue.
Pending == IF ~Alive \/ GetId = 0 THEN << >> ELSE <<next>> \o queue

\* What the abstract steps are, with the jobs as they are here.
LEMMA AbstractSteps ==
  ASSUME \/ UNCHANGED Pending
         \/ \E job \in Item : Pending' = Append(Pending, job)
         \/ Pending # << >> /\ Pending' = Tail(Pending)
         \/ \E i \in 2..Len(Pending) : Pending' = RemoveAt(Pending, i)
         \/ Pending # << >> /\ Pending' = <<Head(Pending)>>
         \/ Pending' = << >>
  PROVE  Jobs!Next \/ UNCHANGED Pending
  BY DEF Jobs!Next, Jobs!Submit, Jobs!Finish, Jobs!Withdraw, Jobs!WithdrawAll, Jobs!Destroy,
         Jobs!RemoveAt, RemoveAt, Pending

\* Steps that concern neither the current job nor the queue.
LEMMA PendingKept ==
  ASSUME UNCHANGED <<next, queue>>, Alive' <=> Alive
  PROVE  UNCHANGED Pending
  BY DEF Pending, GetId

\* A busy service: its jobs are a headed queue.
LEMMA BusyPending ==
  ASSUME Inv, Alive, walk # "null"
  PROVE  Pending = <<next>> \o queue /\ next \in Item /\ queue \in Seq(Item) /\ next.id # 0
<1>1. next.id # 0
  BY DEF Inv, JobInv, Alive
<1>. QED
  BY <1>1 DEF Inv, TypeOK, NoItem, Pending, GetId

\* A job that is started has an id, so that it is seen.
LEMMA StartedPending ==
  ASSUME NEW item \in Item, next' = item, Alive'
  PROVE  Pending' = <<item>> \o queue'
<1>1. item.id # 0
  BY ServiceAssumption DEF Item, Ids
<1>. QED
  BY <1>1 DEF Pending, GetId

\* Enqueue(): the job is submitted.
LEMMA EnqueueSubmits ==
  ASSUME Inv, main = "loop", UNCHANGED main, NEW target \in Targets, EnqueueItem(target)
  PROVE  \E job \in Item : Pending' = Append(Pending, job)
<1>. DEFINE item == [target |-> target, id |-> GenerateId]
<1>1. item \in Item
  BY GenerateIdType DEF Item, Inv, TypeOK
<1>2. Alive /\ Alive'
  BY DEF Alive
<1>3. CASE walk # "null"
  <2>1. next' = next /\ queue' = Append(queue, item)
    BY <1>3 DEF EnqueueItem
  <2>2. Pending = <<next>> \o queue /\ next \in Item /\ queue \in Seq(Item) /\ next.id # 0
    BY <1>2, <1>3, BusyPending
  <2>3. Pending' = <<next>> \o Append(queue, item)
    BY <1>2, <2>1, <2>2 DEF Pending, GetId
  <2>. QED
    BY <1>1, <2>2, <2>3, HeadedAppend
<1>4. CASE walk = "null"
  <2>1. next' = item /\ queue' = queue
    BY <1>4 DEF EnqueueItem, StartThread
  <2>2. next.id = 0 /\ queue = << >>
    BY <1>4 DEF Inv, JobInv
  <2>. HIDE DEF item
  <2>3. Pending = << >>
    BY <2>2 DEF Pending, GetId
  <2>4. Pending' = <<item>> \o queue
    BY <1>1, <1>2, <2>1, StartedPending
  <2>5. <<item>> \in Seq(Item)
    BY <1>1
  <2>6. <<item>> \o << >> = <<item>> /\ Append(<< >>, item) = <<item>>
    BY <1>1, <2>5, ConcatEmptySeq
  <2>. QED
    BY <1>1, <2>2, <2>3, <2>4, <2>6
<1>. QED
  BY <1>3, <1>4

\* RunDeferred(): the job at the head is finished; a thread that cannot be
\* created ends everything.
LEMMA RunDeferredFinishes ==
  ASSUME Inv, RunDeferred
  PROVE  \/ Pending # << >> /\ Pending' = Tail(Pending)
         \/ Pending' = << >>
<1>1. main = "Update" /\ Alive /\ walk # "null"
  BY DEF RunDeferred, Inv, JobInv, Alive
<1>2. Pending = <<next>> \o queue /\ next \in Item /\ queue \in Seq(Item)
  BY <1>1, BusyPending
<1>3. Pending # << >> /\ Tail(Pending) = queue
  BY <1>2, HeadedQueue
<1>4. CASE queue = << >>
  <2>1. next' = NoItem
    BY <1>4 DEF RunDeferred
  <2>. QED
    BY <2>1 DEF Pending, GetId, NoItem
<1>5. CASE queue # << >>
  <2>1. next' = Head(queue) /\ queue' = Tail(queue)
    BY <1>5 DEF RunDeferred, StartThread
  <2>2. Head(queue) \in Item
    BY <1>2, <1>5, TailFacts
  <2>3. <<Head(queue)>> \o Tail(queue) = queue
    <3>1. PICK h, q : h = Head(queue) /\ q = Tail(queue)
      OBVIOUS
    <3>2. h \in Item /\ q \in Seq(Item) /\ Len(q) = Len(queue) - 1 /\ Len(queue) \in Nat \ {0}
          /\ queue[1] = h /\ \A j \in 1..(Len(queue) - 1) : q[j] = queue[j + 1]
      BY <1>2, <1>5, <3>1, TailFacts, LenProperties, EmptySeq
    <3>3. /\ <<h>> \o q \in Seq(Item) /\ Len(<<h>> \o q) = Len(queue)
          /\ \A i \in 1..Len(q) : (<<h>> \o q)[i + 1] = q[i]
          /\ (<<h>> \o q)[1] = h
      BY <3>2, HeadedQueue
    <3>4. ASSUME NEW i \in 1..Len(queue) PROVE (<<h>> \o q)[i] = queue[i]
      <4>1. CASE i = 1
        BY <4>1, <3>2, <3>3
      <4>2. CASE i # 1
        <5>1. i - 1 \in 1..(Len(queue) - 1) /\ (i - 1) + 1 = i
          BY <4>2, <3>2
        <5>. QED
          BY <5>1, <3>2, <3>3
      <4>. QED
        BY <4>1, <4>2
    <3>. QED
      BY <1>2, <3>1, <3>2, <3>3, <3>4, SeqEqual
  <2>4. CASE Alive'
    BY <1>3, <2>1, <2>2, <2>3, <2>4, StartedPending
  <2>5. CASE ~Alive'
    BY <2>5 DEF Pending
  <2>. QED
    BY <2>4, <2>5
<1>. QED
  BY <1>4, <1>5

(***************************************************************************)
(* Every step of the service, its thread and the commands is a step of the *)
(* abstract job queue or leaves it as it is: jobs are finished one at a    *)
(* time and in order, only a waiting one can be withdrawn, and none is     *)
(* lost or invented.                                                       *)
(***************************************************************************)
THEOREM ServiceSimulatesJobs == Spec => Jobs!Init /\ [][Jobs!Next]_Pending
<1>1. Init => Jobs!Init
  BY DEF Init, Jobs!Init, NoItem, GetId
<1>2. Inv /\ [Next]_vars => [Jobs!Next]_Pending
  <2>. SUFFICES ASSUME Inv, [Next]_vars PROVE Jobs!Next \/ UNCHANGED Pending
    OBVIOUS
  <2>1. CASE \/ CancelCurrent \/ CancelMountJoin \/ Unmount \/ HandleInject \/ RunRemove
             \/ \E m \in Mounts, nested \in BOOLEAN : UnmountCommand(m, nested)
    <3>1. UNCHANGED <<next, queue>> /\ Alive /\ Alive'
      <4>1. CASE HandleInject
        BY <4>1, ListFacts DEF HandleInject, jobVars, Inv, InjectShape, Alive
      <4>2. CASE ~HandleInject
        BY <2>1, <4>2 DEF CancelCurrent, CancelMountJoin, Unmount, RunRemove, UnmountCommand,
                          jobVars, Alive
      <4>. QED
        BY <4>1, <4>2
    <3>. QED
      BY <3>1, PendingKept
  <2>2. CASE ThreadStep \/ UNCHANGED vars
    BY <2>2, PendingKept DEF ThreadStep, RemoveSong, ScheduleRemove, WalkReturns, TaskSave,
                             ScheduleDeferred, jobVars, vars, Alive
  <2>3. CASE EraseQueued
    <3>1. PICK i \in DOMAIN queue : queue' = RemoveAt(queue, i)
      BY <2>3 DEF EraseQueued
    <3>2. Alive /\ Alive' /\ next' = next
      BY <2>3 DEF EraseQueued, Alive
    <3>3. queue # << >> /\ walk # "null"
      BY <3>1 DEF Inv, JobInv
    <3>4. Pending = <<next>> \o queue /\ next \in Item /\ queue \in Seq(Item) /\ next.id # 0
      BY <3>2, <3>3, BusyPending
    <3>5. Pending' = <<next>> \o RemoveAt(queue, i)
      BY <3>1, <3>2, <3>4 DEF Pending, GetId
    <3>6. Pending' = RemoveAt(Pending, i + 1)
      BY <3>4, <3>5, HeadedErase
    <3>7. i + 1 \in 2..Len(Pending)
      BY <3>1, <3>4, HeadedQueue, LenProperties
    <3>. QED
      BY <3>6, <3>7, AbstractSteps
  <2>4. CASE RunDeferred
    BY <2>4, RunDeferredFinishes, AbstractSteps
  <2>5. CASE Destroy
    <3>1. Pending' = << >>
      BY <2>5 DEF Destroy, Pending, Alive
    <3>. QED
      BY <3>1, AbstractSteps
  <2>6. CASE CancelAllAsync
    <3>1. Alive /\ Alive' /\ next' = next /\ queue' = << >>
      BY <2>6 DEF CancelAllAsync, Alive
    <3>2. CASE walk = "null"
      <4>1. queue = << >>
        BY <3>2 DEF Inv, JobInv
      <4>. QED
        BY <3>1, <4>1, PendingKept
    <3>3. CASE walk # "null"
      <4>1. Pending = <<next>> \o queue /\ next \in Item /\ queue \in Seq(Item) /\ next.id # 0
        BY <3>1, <3>3, BusyPending
      <4>2. Pending # << >> /\ Head(Pending) = next
        BY <4>1, HeadedQueue
      <4>3. Pending' = <<next>> \o << >>
        BY <3>1, <4>1 DEF Pending, GetId
      <4>4. <<next>> \in Seq(Item)
        BY <4>1
      <4>5. Pending' = <<Head(Pending)>>
        BY <4>2, <4>3, <4>4, ConcatEmptySeq
      <4>. QED
        BY <4>2, <4>5, AbstractSteps
    <3>. QED
      BY <3>2, <3>3
  <2>7. CASE \E uri \in Targets : UpdateCommand(uri)
    <3>1. PICK uri \in Targets : UpdateCommand(uri)
      BY <2>7
    <3>2. EnqueueTarget(uri) \in Targets
      BY DEF EnqueueTarget, Targets, Inv, TypeOK
    <3>. QED
      BY <3>1, <3>2, EnqueueSubmits, AbstractSteps DEF UpdateCommand
  <2>8. CASE \E m \in Mounts : MountCommand(m)
    <3>1. PICK m \in Mounts : MountCommand(m)
      BY <2>8
    <3>2. CASE EnqueueItem(m)
      BY <3>1, <3>2, EnqueueSubmits, AbstractSteps DEF MountCommand, Targets
    <3>3. CASE UNCHANGED <<jobVars, walk, modified, thread, uris>>
      BY <3>1, <3>3, PendingKept DEF MountCommand, jobVars, Alive
    <3>. QED
      BY <3>1, <3>2, <3>3 DEF MountCommand
  <2>. QED
    BY <2>1, <2>2, <2>3, <2>4, <2>5, <2>6, <2>7, <2>8 DEF Next, MainStep, Command, Gone
<1>. QED
  BY <1>1, <1>2, Invariance, PTL DEF Spec
============================================================================
