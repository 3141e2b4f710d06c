------------------------------- MODULE Outputs -------------------------------
(***************************************************************************)
(* The audio outputs of a partition (output/MultipleOutputs.cxx): the      *)
(* player thread hands music chunks over in one pipe, and one thread per   *)
(* output (output/Control.cxx, Thread.cxx, Source.cxx) plays them at its   *)
(* own pace, while commands, failures and the user's enable/disable come   *)
(* in between.                                                             *)
(*                                                                         *)
(* Every output has a mutex of its own.  An operation of MultipleOutputs   *)
(* locks one output after the other, so it is a list of steps here; a step *)
(* of an output thread is what it does between two places where it gives   *)
(* up its mutex.  Chunks are numbered in the order they are pushed.        *)
(***************************************************************************)
EXTENDS Naturals, Sequences, FiniteSets, SequencesExt

CONSTANTS
    Outputs,       \* names of the outputs
    Order,         \* the outputs in the order of their configuration
    Managed,       \* plugins that implement Enable() and Disable()
    AlwaysOn,      \* outputs configured with "always_on"
    MaxChunks,     \* bound: chunks pushed in all
    MaxOperations, \* bound: operations of player and user, but Play() and CheckPipe()
    MaxFaults      \* bound: failures of devices and filters

ASSUME OutputsAssumption ==
    /\ Outputs # {} \* MultipleOutputs::Configure() adds one if none is configured
    /\ Order \in Seq(Outputs) /\ {Order[i] : i \in DOMAIN Order} = Outputs
    /\ \A i, j \in DOMAIN Order : Order[i] = Order[j] => i = j
    /\ Managed \subseteq Outputs /\ AlwaysOn \subseteq Outputs
    /\ MaxChunks \in Nat /\ MaxOperations \in Nat /\ MaxFaults \in Nat

VARIABLES
    ao,       \* AudioOutputControl: one record per output
    asleep,   \* output threads in wake_cond.wait() without a signal
    exists,   \* MultipleOutputs::pipe is not null
    pipe,     \* its chunks
    todo,     \* the rest of the player's operation: steps and their outputs
    ok,       \* what Update() is going to return
    client,   \* Player: output_open and paused
    pushed,   \* chunks pushed so far
    left,     \* operations left
    faults    \* failures left

vars == <<ao, asleep, exists, pipe, todo, ok, client, pushed, left, faults>>

Commands == {"NONE", "ENABLE", "DISABLE", "OPEN", "CLOSE", "PAUSE", "RELEASE",
             "DRAIN", "CANCEL", "KILL"}

\* A new AudioOutputControl.  "chunk" and "consumed" are its SharedPipeConsumer,
\* "current" is source.current_chunk; 0 is a null pointer.  "pipe" and "request"
\* are pointers to a MusicPipe: null, the pipe that exists, or one that was freed.
\* "filter" is source.filter, stale when it was flushed or the format is a new one.
\* "last" is a ghost: the chunk played last since the source was opened or cancelled.
NewOutput ==
    [at |-> "none", then |-> "", command |-> "NONE", open |-> FALSE, source |-> "CLOSED",
     enabled |-> TRUE, really |-> FALSE, allow |-> TRUE, reopen |-> FALSE, pause |-> FALSE,
     interrupt |-> FALSE, caught |-> FALSE, inloop |-> FALSE, woken |-> FALSE,
     failed |-> FALSE, killed |-> FALSE, chunk |-> 0, consumed |-> FALSE, current |-> 0,
     filter |-> "null", pipe |-> "null", request |-> "null", last |-> 0]

Init ==
    /\ ao = [a \in Outputs |-> NewOutput]
    /\ asleep = {} /\ exists = FALSE /\ pipe = <<>>
    /\ todo = <<>> /\ ok = FALSE
    /\ client = [open |-> FALSE, paused |-> FALSE, done |-> FALSE]
    /\ pushed = 0 /\ left = MaxOperations /\ faults = MaxFaults

----------------------------------------------------------------------------
(* The player thread: operations of MultipleOutputs.                       *)

Step(d, a) == [do |-> d, ao |-> a]
Each(d) == [i \in DOMAIN Order |-> Step(d, Order[i])]
Once(d) == <<Step(d, Order[1])>>

\* The player's use of the outputs: what Player and PlayerControl::RunThread() do
\* with the flags "output_open" and "paused".
Run(steps) ==
    /\ todo = <<>> /\ ~client.done
    /\ todo' = steps /\ ok' = FALSE
    /\ UNCHANGED <<ao, asleep, pushed, faults>>

Begin(steps) == left > 0 /\ left' = left - 1 /\ Run(steps)

Update(d) == IF exists THEN Each(d) ELSE <<>>

EnableDisable ==
    Begin(Each("enable") \o Once("waitAll")) /\ UNCHANGED <<exists, pipe, client>>

\* The pipe is created before the outputs are updated.
Open ==
    /\ Begin(Each("enable") \o Once("waitAll") \o Each("force") \o Once("opened"))
    /\ exists' = TRUE /\ UNCHANGED <<pipe, client>>

Play ==
    /\ client.open /\ ~client.paused /\ pushed < MaxChunks
    /\ Run(Update("update") \o Once("push"))
    /\ UNCHANGED <<exists, pipe, client, left>>

CheckPipe ==
    /\ client.open /\ ~client.paused /\ pipe # <<>>
    /\ Run(Once("peek")) /\ UNCHANGED <<exists, pipe, client, left>>

Pause ==
    /\ ~client.paused
    /\ client' = [client EXCEPT !.paused = TRUE]
    /\ Begin(Update("update") \o Each("interruptPause") \o Once("waitAll"))
    /\ UNCHANGED <<exists, pipe>>

\* At the end of a song, after CheckPipe() has returned 0
Drain ==
    /\ client.open /\ ~client.paused /\ pipe = <<>>
    /\ Begin(Each("drain") \o Once("waitAll")) /\ UNCHANGED <<exists, pipe, client>>

Cancel ==
    /\ Begin(Each("interruptCancel") \o Once("waitAll") \o Once("clear") \o Each("allow"))
    /\ UNCHANGED <<exists, pipe, client>>

CloseSteps == Each("close") \o Once("reset")

\* CLOSE_AUDIO: playback has ended.
Release ==
    /\ client' = [client EXCEPT !.open = FALSE, !.paused = FALSE]
    /\ Begin(Each("release") \o Once("reset"))
    /\ UNCHANGED <<exists, pipe>>

\* EXIT: Close(), and ~MultipleOutputs(): BeginDestroy() for all, then StopThread().
Exit ==
    /\ client' = [open |-> FALSE, paused |-> FALSE, done |-> TRUE]
    /\ Begin(CloseSteps \o Each("kill") \o Each("join"))
    /\ UNCHANGED <<exists, pipe>>

\* The user enables or disables an output; UPDATE_AUDIO follows later.
LockToggleEnabled(a) ==
    /\ left > 0 /\ ~client.done
    /\ left' = left - 1 /\ ao' = [ao EXCEPT ![a].enabled = ~@]
    /\ UNCHANGED <<asleep, exists, pipe, todo, ok, client, pushed, faults>>

----------------------------------------------------------------------------
(* The steps of these operations, each under the mutex of one output.      *)

Doing(d) == todo # <<>> /\ Head(todo).do = d
Rest == Tail(todo)
PlayerUnchanged == UNCHANGED <<exists, pipe, client, pushed, left, faults>>

\* CommandAsync(), with StartThread() where there is no thread yet
CommandAsync(a, o, cmd) ==
    /\ ao' = [ao EXCEPT ![a] = [o EXCEPT !.command = cmd, !.at = IF @ = "none" THEN "loop" ELSE @]]
    /\ asleep' = asleep \ {a}

Set(a, o) == ao' = [ao EXCEPT ![a] = o] /\ UNCHANGED asleep

\* EnableDisableAsync()
LockEnableDisableAsync(a) ==
    /\ Doing("enable") /\ Head(todo).ao = a
    /\ LET o == ao[a] IN
       CASE o.enabled = o.really -> UNCHANGED <<ao, asleep>>
         [] o.enabled # o.really /\ o.at = "none" /\ (a \notin Managed \/ ~o.enabled) ->
              Set(a, [o EXCEPT !.really = o.enabled])
         [] OTHER -> CommandAsync(a, o, IF o.enabled THEN "ENABLE" ELSE "DISABLE")
    /\ todo' = Rest /\ UNCHANGED ok /\ PlayerUnchanged

\* Faulty variant: only the last output is waited for.
WaitAllForLast ==
    /\ Doing("waitAll") /\ ao[Order[Len(Order)]].command = "NONE"
    /\ todo' = Rest /\ UNCHANGED <<ao, asleep, ok>> /\ PlayerUnchanged

WaitAll ==
    /\ Doing("waitAll") /\ \A a \in Outputs : ao[a].command = "NONE"
    /\ todo' = Rest /\ UNCHANGED <<ao, asleep, ok>> /\ PlayerUnchanged

\* The wait in CommandWait()
WaitForCommand(a) ==
    /\ Doing("wait") \/ Doing("updated")
    /\ Head(todo).ao = a /\ ao[a].command = "NONE"
    /\ ok' = (ok \/ (Doing("updated") /\ ao[a].open))
    /\ todo' = Rest /\ UNCHANGED <<ao, asleep>> /\ PlayerUnchanged

\* LockUpdate() with Open() or CloseWait().  A device that has failed is tried
\* again after a while, or when "force" is set.  MultipleOutputs::Open() may bring
\* a new format when the pipe is empty (each output may see one here).
LockUpdate(a) ==
    /\ (Doing("update") \/ Doing("force")) /\ Head(todo).ao = a
    /\ LET o == ao[a] IN
       \/ /\ o.enabled /\ o.really
          /\ IF o.open /\ ~o.pause /\ ~o.reopen
             THEN Set(a, [o EXCEPT !.failed = FALSE]) /\ todo' = Rest /\ ok' = TRUE
             ELSE /\ CommandAsync(a, [o EXCEPT !.failed = FALSE, !.request = "live"], "OPEN")
                  /\ todo' = <<Step("updated", a)>> \o Rest /\ UNCHANGED ok
       \/ /\ o.enabled /\ o.really /\ o.open /\ Doing("force") /\ pipe = <<>>
          /\ CommandAsync(a, [o EXCEPT !.failed = FALSE, !.request = "live",
                                       !.filter = IF @ = "open" THEN "stale" ELSE @], "OPEN")
          /\ todo' = <<Step("updated", a)>> \o Rest /\ UNCHANGED ok
       \/ /\ o.enabled /\ o.really /\ Doing("update") /\ o.failed
          /\ todo' = Rest /\ UNCHANGED <<ao, asleep, ok>>
       \/ /\ ~(o.enabled /\ o.really) /\ o.open
          /\ CommandAsync(a, o, "CLOSE") /\ todo' = <<Step("wait", a)>> \o Rest /\ UNCHANGED ok
       \/ /\ ~(o.enabled /\ o.really) /\ ~o.open
          /\ todo' = Rest /\ UNCHANGED <<ao, asleep, ok>>
    /\ PlayerUnchanged

\* Open() after Update(): without any open output everything is closed.
Opened ==
    /\ Doing("opened")
    /\ LET failed == \A a \in Outputs : ~ao[a].open \/ ~(\E b \in Outputs : ao[b].enabled) IN
       /\ client' = [client EXCEPT !.open = ~failed, !.paused = failed]
       /\ todo' = IF failed THEN CloseSteps ELSE Rest
    /\ UNCHANGED <<ao, asleep, exists, pipe, ok, pushed, left, faults>>

\* Play() after Update()
Push ==
    /\ Doing("push")
    /\ IF ok
       THEN /\ pipe' = Append(pipe, pushed + 1) /\ pushed' = pushed + 1
            /\ todo' = Each("play") /\ UNCHANGED client
       ELSE /\ client' = [client EXCEPT !.paused = TRUE]
            /\ todo' = <<>> /\ UNCHANGED <<pipe, pushed>>
    /\ UNCHANGED <<ao, asleep, exists, ok, left, faults>>

\* Faulty variant: a thread that was woken up before is not woken up again.
LockPlayOnce(a) ==
    /\ Doing("play") /\ Head(todo).ao = a
    /\ IF ao[a].open /\ ~ao[a].inloop /\ ao[a].last = 0
       THEN ao' = [ao EXCEPT ![a].woken = TRUE] /\ asleep' = asleep \ {a}
       ELSE UNCHANGED <<ao, asleep>>
    /\ todo' = Rest /\ UNCHANGED ok /\ PlayerUnchanged

LockPlay(a) ==
    /\ Doing("play") /\ Head(todo).ao = a
    /\ IF ao[a].open /\ ~ao[a].inloop /\ ~ao[a].woken
       THEN ao' = [ao EXCEPT ![a].woken = TRUE] /\ asleep' = asleep \ {a}
       ELSE UNCHANGED <<ao, asleep>>
    /\ todo' = Rest /\ UNCHANGED ok /\ PlayerUnchanged

\* LockPauseAsync() and LockCancelAsync(), before they lock: AudioOutput::Interrupt()
Interrupt(a) ==
    /\ (Doing("interruptPause") \/ Doing("interruptCancel")) /\ Head(todo).ao = a
    /\ Set(a, [ao[a] EXCEPT !.interrupt = TRUE])
    /\ todo' = <<Step(IF Doing("interruptPause") THEN "pause" ELSE "cancel", a)>> \o Rest
    /\ UNCHANGED ok /\ PlayerUnchanged

\* LockPauseAsync(), LockDrainAsync(), LockCancelAsync()
LockAsync(a) ==
    /\ todo # <<>> /\ Head(todo).do \in {"pause", "drain", "cancel"} /\ Head(todo).ao = a
    /\ CASE ~ao[a].open -> UNCHANGED <<ao, asleep>>
         [] ao[a].open /\ Doing("pause") -> CommandAsync(a, ao[a], "PAUSE")
         [] ao[a].open /\ Doing("drain") -> CommandAsync(a, ao[a], "DRAIN")
         [] OTHER -> CommandAsync(a, [ao[a] EXCEPT !.allow = FALSE], "CANCEL")
    /\ todo' = Rest /\ UNCHANGED ok /\ PlayerUnchanged

\* LockCloseWait() and LockRelease(), with Interrupt()
LockCloseWait(a) ==
    /\ (Doing("close") \/ Doing("release")) /\ Head(todo).ao = a
    /\ IF ao[a].open
       THEN /\ CommandAsync(a, [ao[a] EXCEPT !.interrupt = TRUE],
                            IF Doing("close") THEN "CLOSE" ELSE "RELEASE")
            /\ todo' = <<Step("wait", a)>> \o Rest
       ELSE Set(a, [ao[a] EXCEPT !.failed = FALSE]) /\ todo' = Rest
    /\ UNCHANGED ok /\ PlayerUnchanged

LockAllowPlay(a) ==
    /\ Doing("allow") /\ Head(todo).ao = a
    /\ ao' = [ao EXCEPT ![a].allow = TRUE]
    /\ asleep' = IF ao[a].open THEN asleep \ {a} ELSE asleep
    /\ todo' = Rest /\ UNCHANGED ok /\ PlayerUnchanged

\* pipe->Clear() in Cancel(), pipe.reset() in Close() and Release()
Stale(o) == [o EXCEPT !.pipe = IF @ = "live" THEN "freed" ELSE @,
                      !.request = IF @ = "live" THEN "freed" ELSE @]
ClearOrReset ==
    /\ Doing("clear") \/ Doing("reset")
    /\ pipe' = <<>> /\ todo' = Rest
    /\ IF Doing("reset") THEN exists' = FALSE /\ ao' = [a \in Outputs |-> Stale(ao[a])]
       ELSE UNCHANGED <<exists, ao>>
    /\ UNCHANGED <<asleep, ok, client, pushed, left, faults>>

\* CheckPipe(): the head of the pipe, as long as there is one
Peek ==
    /\ Doing("peek")
    /\ todo' = IF pipe = <<>> THEN Rest
               ELSE Each("consumed") \o (IF Len(pipe) = 1 THEN Each("tail") ELSE <<>>) \o Once("shift")
    /\ UNCHANGED <<ao, asleep, ok>> /\ PlayerUnchanged

\* SharedPipeConsumer::IsConsumed(): has this output finished the head of the pipe?
IsConsumed(o) ==
    o.chunk # 0 /\ (o.chunk # Head(pipe) \/ (o.consumed /\ Len(pipe) = 1))

LockIsChunkConsumed(a) ==
    /\ Doing("consumed") /\ Head(todo).ao = a
    /\ todo' = IF ~ao[a].open \/ IsConsumed(ao[a]) THEN Rest ELSE <<>>
    /\ UNCHANGED <<ao, asleep, ok>> /\ PlayerUnchanged

\* The last chunk: no output may refer to it, or go on, until it is removed.
LockClearTailChunk(a) ==
    /\ Doing("tail") /\ Head(todo).ao = a
    /\ Set(a, IF ao[a].open THEN [ao[a] EXCEPT !.chunk = 0, !.allow = FALSE] ELSE ao[a])
    /\ todo' = Rest /\ UNCHANGED ok /\ PlayerUnchanged

Shift ==
    /\ Doing("shift")
    /\ pipe' = Tail(pipe)
    /\ todo' = IF Len(pipe) = 1 THEN Each("allow") ELSE Once("peek")
    /\ UNCHANGED <<ao, asleep, ok, exists, client, pushed, left, faults>>

\* BeginDestroy(), and the join in StopThread()
BeginDestroy(a) ==
    /\ Doing("kill") /\ Head(todo).ao = a
    /\ IF ao[a].at # "none" /\ ~ao[a].killed
       THEN CommandAsync(a, [ao[a] EXCEPT !.killed = TRUE, !.interrupt = TRUE], "KILL")
       ELSE UNCHANGED <<ao, asleep>>
    /\ todo' = Rest /\ UNCHANGED ok /\ PlayerUnchanged

Join(a) ==
    /\ Doing("join") /\ Head(todo).ao = a /\ ao[a].at \in {"none", "done"}
    /\ todo' = Rest /\ UNCHANGED <<ao, asleep, ok>> /\ PlayerUnchanged

\* Steps of an operation that has begun, and new operations
PlayerStep ==
    \/ WaitAll \/ Opened \/ Push \/ ClearOrReset \/ Peek \/ Shift
    \/ \E a \in Outputs :
          \/ LockEnableDisableAsync(a) \/ WaitForCommand(a) \/ LockUpdate(a) \/ LockPlay(a)
          \/ Interrupt(a) \/ LockAsync(a) \/ LockCloseWait(a) \/ LockAllowPlay(a)
          \/ LockIsChunkConsumed(a) \/ LockClearTailChunk(a) \/ BeginDestroy(a) \/ Join(a)

Operation ==
    \/ EnableDisable \/ Open \/ Play \/ CheckPipe \/ Pause \/ Drain \/ Cancel \/ Release \/ Exit
    \/ \E a \in Outputs : LockToggleEnabled(a)

----------------------------------------------------------------------------
(* The output threads.                                                     *)

At(a, l) == ao[a].at = l /\ a \notin asleep
ThreadUnchanged == UNCHANGED <<exists, pipe, todo, ok, client, pushed, left>>

Go(a, o) == Set(a, o) /\ UNCHANGED faults
Sleep(a, o) == ao' = [ao EXCEPT ![a] = o] /\ asleep' = asleep \cup {a} /\ UNCHANGED faults
Fault(a, o) == faults > 0 /\ faults' = faults - 1 /\ Set(a, o)

\* CommandFinished(), back to the loop of Task()
Finished(o) == [o EXCEPT !.command = "NONE", !.at = "loop", !.then = ""]

\* InternalClose(): "open" is cleared before the device is closed without the mutex.
Close(o, then) == [o EXCEPT !.open = FALSE, !.at = "closing", !.then = then]

\* InternalCloseError()
CloseError(o, then) == Close([o EXCEPT !.failed = TRUE], then)

\* Faulty variant: the consumer keeps its chunk.
SourceCancelKeepsChunk(o) == [o EXCEPT !.current = 0, !.last = 0]

\* AudioOutputSource::Cancel()
SourceCancel(o) == [o EXCEPT !.chunk = 0, !.current = 0, !.last = 0]

\* SharedPipeConsumer::Get(): the chunk after the one consumed, or the first
Get(o) ==
    LET later == {c \in ToSet(pipe) : c > o.chunk} IN
    IF o.pipe # "live" THEN 0
    ELSE IF o.chunk # 0 /\ ~o.consumed THEN o.chunk
    ELSE IF later = {} THEN 0 ELSE Min(later)

CanPlay(o) == o.open /\ o.source = "OPEN" /\ o.allow /\ ~o.caught

\* AudioOutputSource::Fill() as far as it holds the mutex
Filling(o) == [o EXCEPT !.chunk = Get(o), !.consumed = FALSE, !.current = Get(o), !.at = "filter"]

\* InternalPlay() at the head of its loop: a command ends it.
PlayOrLeave(o) ==
    IF o.command = "NONE" THEN [o EXCEPT !.inloop = TRUE, !.at = "device"]
    ELSE [o EXCEPT !.inloop = FALSE, !.at = "loop"]

\* Task() without a command: InternalPlay() or wait
TaskPlays(a) ==
    LET o == ao[a] IN
    /\ At(a, "loop") /\ o.command = "NONE"
    /\ CASE CanPlay(o) /\ o.current # 0 -> Go(a, PlayOrLeave(o))
         [] CanPlay(o) /\ o.current = 0 /\ Get(o) # 0 -> Go(a, Filling(o))
         [] OTHER -> Sleep(a, [o EXCEPT !.woken = FALSE])
    /\ ThreadUnchanged

\* FilterChunk(), without the mutex.  When the first chunk cannot be filtered, the
\* thread waits after it has closed the device, without looking at "command".
\* Without a filter (see InternalOpen()) the process ends here.
Filter(a) ==
    LET o == ao[a] IN
    /\ At(a, "filter") /\ o.filter # "null"
    /\ \/ Go(a, PlayOrLeave(o))
       \/ Fault(a, CloseError([o EXCEPT !.current = 0], IF o.inloop THEN "notify" ELSE "failed"))
    /\ ThreadUnchanged

\* Faulty variant: the consumer is not told that the chunk was played.
ConsumeSilently(o) == [o EXCEPT !.current = 0, !.last = o.current]

\* FilteredAudioOutput::Play(), without the mutex: the rest of the chunk is played
\* and the next one filtered, or the player is notified that there is none; the
\* device was interrupted, or it has failed.
Consume(o) == [o EXCEPT !.consumed = TRUE, !.current = 0, !.last = o.current]
DevicePlays(a) ==
    LET o == ao[a]  p == Consume(o) IN
    /\ At(a, "device")
    /\ \/ Go(a, IF Get(p) # 0 THEN Filling(p) ELSE [p EXCEPT !.at = "notify"])
       \/ o.interrupt /\ Go(a, [o EXCEPT !.caught = TRUE, !.at = "notify"])
       \/ Fault(a, CloseError(o, "notify"))
    /\ ThreadUnchanged

\* ChunksConsumed(), without the mutex; "in_playback_loop" ends after it.
ChunksConsumed(a) ==
    /\ At(a, "notify")
    /\ Go(a, [ao[a] EXCEPT !.inloop = FALSE, !.at = "loop"])
    /\ ThreadUnchanged

\* The device is closed: source.Close(), and what follows InternalClose()
Closed(a) ==
    LET o == SourceCancel([ao[a] EXCEPT !.source = "CLOSED", !.filter = "null"]) IN
    /\ At(a, "closing")
    /\ CASE o.then = "disable" -> Go(a, [o EXCEPT !.really = FALSE, !.at = "disabling"])
         [] o.then = "finish" -> Go(a, Finished(o))
         [] o.then = "endPause" -> Go(a, [o EXCEPT !.pause = FALSE, !.at = "loop", !.then = ""])
         [] o.then = "notify" -> Go(a, [o EXCEPT !.at = "notify", !.then = ""])
         [] OTHER -> Sleep(a, [o EXCEPT !.at = "failed", !.then = "", !.woken = FALSE])
    /\ ThreadUnchanged

\* After that wait, Task() goes on as usual.
FailedWakes(a) ==
    /\ At(a, "failed")
    /\ Go(a, [ao[a] EXCEPT !.at = "loop"]) /\ ThreadUnchanged

\* Task() with a command: up to where it is finished or the mutex is given up
TaskCommand(a) ==
    LET o == ao[a] IN
    /\ At(a, "loop") /\ o.command # "NONE"
    /\ Go(a, CASE o.command = "ENABLE" ->
                    IF o.really THEN Finished(o) ELSE [o EXCEPT !.at = "enabling"]
               [] o.command \in {"DISABLE", "KILL"} ->
                    CASE ~o.really -> [o EXCEPT !.at = "disabled"]
                      [] o.really /\ o.open -> Close(o, "disable")
                      [] OTHER -> [o EXCEPT !.really = FALSE, !.at = "disabling"]
               [] o.command = "OPEN" ->
                    [o EXCEPT !.reopen = FALSE, !.failed = FALSE, !.caught = FALSE,
                              !.interrupt = FALSE, !.at = "opening"]
               [] o.command = "CLOSE" -> IF o.open THEN Close(o, "finish") ELSE Finished(o)
               [] o.command \in {"PAUSE", "RELEASE"} /\ ~o.open -> Finished(o)
               [] o.command = "RELEASE" /\ o.open /\ a \notin AlwaysOn ->
                    Close([o EXCEPT !.caught = FALSE], "finish")
               [] o.open /\ (o.command = "PAUSE" \/ (o.command = "RELEASE" /\ a \in AlwaysOn)) ->
                    LET p == [o EXCEPT !.caught = FALSE, !.interrupt = FALSE, !.at = "pausing"] IN
                    CASE o.command = "RELEASE" /\ o.source = "OPEN" -> SourceCancel(p)
                      [] o.command = "RELEASE" /\ o.source # "OPEN" -> [p EXCEPT !.last = 0]
                      [] OTHER -> p
               [] o.command = "DRAIN" ->
                    IF o.open
                    THEN [o EXCEPT !.source = "FLUSHED", !.reopen = TRUE, !.at = "draining",
                                   !.filter = IF @ = "open" THEN "stale" ELSE @]
                    ELSE Finished(o)
               [] OTHER ->
                    LET p == [o EXCEPT !.caught = FALSE, !.interrupt = FALSE,
                                       !.at = IF o.open THEN "cancelling" ELSE "loop",
                                       !.command = IF o.open THEN @ ELSE "NONE"] IN
                    IF o.source = "OPEN" THEN SourceCancel(p) ELSE [p EXCEPT !.last = 0])
    /\ ThreadUnchanged

\* InternalEnable() and InternalDisable(), after the plugin's method
Enabled(a) ==
    /\ At(a, "enabling")
    /\ \/ Go(a, Finished([ao[a] EXCEPT !.really = TRUE]))
       \/ Fault(a, Finished([ao[a] EXCEPT !.failed = TRUE]))
    /\ ThreadUnchanged

Disabled(a) ==
    LET o == ao[a] IN
    /\ At(a, "disabling") \/ At(a, "disabled")
    /\ Go(a, IF o.command = "DISABLE" THEN Finished(o)
             ELSE LET p == IF o.source = "OPEN" THEN SourceCancel(o) ELSE o IN
                  [Finished(p) EXCEPT !.at = "done"])
    /\ ThreadUnchanged

\* Faulty variant: a consumer that had a pipe before keeps it.
SourceOpenKeepsPipe(o, same) ==
    LET p == [o EXCEPT !.source = "OPEN", !.filter = "open",
                       !.pipe = IF @ = "null" THEN "live" ELSE @] IN
    IF o.source # "CLOSED" /\ same THEN p ELSE SourceCancel(p)

\* AudioOutputSource::Open(): a source that is open keeps its position if the pipe
\* is the same one; a new pipe may have the address of a freed one.
SourceOpen(o, same) ==
    LET p == [o EXCEPT !.source = "OPEN", !.filter = "open", !.pipe = "live"] IN
    IF o.source # "CLOSED" /\ same THEN p ELSE SourceCancel(p)

\* ... and when the filter cannot be opened: the old one is gone.
SourceFails(o, same) ==
    LET p == [o EXCEPT !.filter = "null", !.pipe = "live"] IN
    IF o.source # "CLOSED" /\ same THEN p ELSE SourceCancel(p)

\* InternalOpen(): the source is opened first, then the device, if it is not open or
\* has to be opened anew.  If the device or its converter fails, both are closed;
\* if the filter fails, a device that is open stays open.
InternalOpen(a) ==
    LET o == ao[a] IN
    /\ At(a, "opening")
    /\ \E same \in BOOLEAN :
          /\ o.pipe = "live" => same
          /\ o.pipe = "null" => ~same
          /\ \/ Go(a, Finished([SourceOpen(o, same) EXCEPT !.open = TRUE]))
             \/ /\ o.filter # "open"
                /\ Fault(a, Finished([SourceFails(o, same) EXCEPT !.failed = TRUE]))
             \/ Fault(a, SourceCancel(Finished(
                   [o EXCEPT !.open = FALSE, !.source = "CLOSED", !.filter = "null",
                             !.pipe = "live", !.failed = TRUE])))
    /\ ThreadUnchanged

\* InternalPause(): the command is finished after BeginPause(); then the thread
\* stays in this loop until the next command, or until the device fails.
BeginPause(a) ==
    /\ At(a, "pausing")
    /\ Go(a, [ao[a] EXCEPT !.pause = TRUE, !.command = "NONE", !.at = "paused"])
    /\ ThreadUnchanged

IteratePause(a) ==
    LET o == ao[a] IN
    /\ At(a, "paused")
    /\ \/ o.command # "NONE" /\ Go(a, [o EXCEPT !.pause = FALSE, !.at = "loop"])
       \/ Fault(a, Close(o, "endPause"))
    /\ ThreadUnchanged

\* InternalDrain() and the CANCEL command, after the plugin's method
Drained(a) ==
    /\ At(a, "draining") /\ ao[a].filter # "null" \* otherwise the process ends here
    /\ \/ Go(a, Finished(ao[a]))
       \/ Fault(a, CloseError(ao[a], "finish"))
    /\ ThreadUnchanged

Cancelled(a) ==
    /\ At(a, "cancelling") /\ Go(a, Finished(ao[a])) /\ ThreadUnchanged

Task(a) ==
    \/ TaskPlays(a) \/ Filter(a) \/ DevicePlays(a) \/ ChunksConsumed(a)
    \/ Closed(a) \/ FailedWakes(a) \/ TaskCommand(a) \/ Enabled(a) \/ Disabled(a)
    \/ InternalOpen(a) \/ BeginPause(a) \/ IteratePause(a) \/ Drained(a) \/ Cancelled(a)

Next == PlayerStep \/ Operation \/ \E a \in Outputs : Task(a)

Spec == Init /\ [][Next]_vars

----------------------------------------------------------------------------
(* Properties                                                              *)

\* Every variable has its type.
TypeOK ==
    /\ \A a \in Outputs :
          /\ ao[a].command \in Commands /\ ao[a].source \in {"CLOSED", "OPEN", "FLUSHED"}
          /\ ao[a].chunk \in 0 .. MaxChunks /\ ao[a].current \in 0 .. MaxChunks
          /\ ao[a].pipe \in {"null", "live", "freed"}
    /\ asleep \subseteq Outputs /\ pushed \in 0 .. MaxChunks
    /\ ~exists => pipe = <<>>

\* The assertions of AudioOutputControl and SharedPipeConsumer: one command at a
\* time, none while playback is stalled, an open output has a source, and the tail
\* that is cleared has been consumed.  A device that is open has not failed,
\* unless it has lost its filter when it was to be opened again.
ControlAssertions ==
    todo # <<>> =>
        LET d == Head(todo).do  o == ao[Head(todo).ao] IN
        /\ d \in {"enable", "update", "force", "pause", "drain", "cancel", "close", "release", "kill"} =>
              o.command = "NONE"
        /\ d \in {"update", "force", "play", "pause", "drain", "close", "release"} => o.allow
        /\ \/ d \in {"close", "release"}
           \/ d \in {"update", "force"} /\ ~(o.enabled /\ o.really)
           => (o.open /\ o.failed => o.filter = "null")
        /\ d = "consumed" /\ o.open =>
              o.source # "CLOSED" /\ (o.chunk # 0 => Contains(pipe, o.chunk))
        /\ d = "tail" /\ o.open => o.chunk = Head(pipe) /\ o.consumed

\* The state is type correct, and no assertion fails.
Sound == TypeOK /\ ControlAssertions

\* A chunk is returned to the buffer only when no output refers to it any more: an
\* output that filters or plays a chunk, or that will look for the next one, finds
\* it in the pipe.  A source that was flushed refers to none.
NoDanglingChunk ==
    \A a \in Outputs :
        LET o == ao[a] IN
        /\ o.at \in {"filter", "device"} => Contains(pipe, o.current)
        /\ CanPlay(o) /\ o.chunk # 0 => Contains(pipe, o.chunk)
        /\ o.open /\ o.source = "FLUSHED" => o.chunk = 0

\* While it is open, an output plays one chunk after the other: none twice, and
\* none is removed from the pipe before it had its turn, whatever the pace of
\* the other outputs.
EveryChunkPlayed ==
    \A a \in Outputs :
        LET o == ao[a] IN
        o.open /\ o.last # 0 =>
            /\ o.current # 0 => o.current = o.last + 1
            /\ o.last < pushed => Contains(pipe, o.last + 1)

\* An output that sleeps while the player is not in one of the operations, and
\* playback is not paused, has nothing to play: neither the two flags that save
\* wake-ups nor an interruption leave it behind.
NoOutputLeftBehind ==
    \A a \in Outputs :
        LET o == ao[a] IN
        /\ todo = <<>> => o.allow
        /\ todo = <<>> /\ a \in asleep /\ o.at = "loop" /\ client.open /\ ~client.paused
              /\ o.open /\ o.source = "OPEN" => o.current = 0 /\ Get(o) = 0

\* An output that plays reads the pipe that exists, not one that was freed by
\* Release() or Close().
ReadsLivePipe ==
    \A a \in Outputs :
        LET o == ao[a] IN
        CanPlay(o) /\ o.command = "NONE" /\ At(a, "loop") => o.pipe = "live"

\* ... which holds unless the output was configured with "always_on".
ReadsLivePipeOrAlwaysOn ==
    \A a \in Outputs \ AlwaysOn :
        LET o == ao[a] IN
        CanPlay(o) /\ o.command = "NONE" /\ At(a, "loop") => o.pipe = "live"

\* No command is overlooked: an output that was sent one is not asleep (waiting for
\* a signal that was already given), except where the command came while the
\* device was closed because its first chunk could not be filtered.
NoCommandOverlooked ==
    \A a \in asleep : ao[a].command = "NONE" \/ ao[a].at = "failed"

\* No signal to an output is lost, neither that of a chunk nor that of a command.
NoSignalLost == NoOutputLeftBehind /\ NoCommandOverlooked

\* Without the exception: the thread of an output handles every command.
EveryCommandHandled == \A a \in asleep : ao[a].command = "NONE"

\* Without the exception: "assert(!open || !fail_timer.IsDefined())" in CloseWait(),
\* LockRelease() and LockCloseWait() (output/Control.cxx:291, 416, 428).
NoFailedDeviceIsOpen ==
    todo # <<>> /\ Head(todo).do \in {"close", "release"} =>
        LET o == ao[Head(todo).ao] IN ~(o.open /\ o.failed)
=============================================================================
