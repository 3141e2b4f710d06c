------------------------------- MODULE Player -------------------------------
(***************************************************************************)
(* The player thread (player/Thread.cxx, player/Control.cxx), the decoder *)
(* thread (decoder/Thread.cxx, Control.cxx, Bridge.cxx) and the main thread *)
(* that sends them commands.                                               *)
(*                                                                         *)
(* All three share one mutex.  Steps of the main and the decoder thread    *)
(* are whole critical sections; the player thread keeps the mutex from     *)
(* one step to the next where "mutex" says so.  Each thread waits on a     *)
(* condition variable of its own: "asleep" has the threads that wait and   *)
(* were not signalled.  Music is counted in chunks; a chunk is the song    *)
(* and the position it was decoded from.                                   *)
(***************************************************************************)
EXTENDS Naturals, Sequences, FiniteSets

CONSTANTS
    Songs,           \* what may be played
    Start,           \* DetachedSong::GetStartTime(): where in its file a song begins
    Length,          \* where in its file it ends, in chunks
    Seekable,        \* songs whose decoder plugin can seek
    Broken,          \* songs that decoder plugins may fail to open or to decode
    BufferChunks,    \* chunks in the MusicBuffer
    BeforePlay,      \* buffer_before_play
    OutputLimit,     \* chunks the outputs' pipe may hold (64)
    FadeChunks,      \* result of CrossFadeSettings::Calculate(), 0: disabled
    OutputMayFail,   \* may the outputs fail to open or play?
    MaxCommands,     \* bound: commands of the main thread
    None

ASSUME PlayerAssumption ==
    /\ None \notin Songs
    /\ Start \in [Songs -> Nat] /\ Length \in [Songs -> Nat]
    /\ \A s \in Songs : Start[s] < Length[s]
    /\ Seekable \subseteq Songs /\ Broken \subseteq Songs
    /\ BufferChunks \in Nat \ {0} /\ OutputLimit \in Nat \ {0}
    /\ BeforePlay \in Nat /\ FadeChunks \in Nat /\ MaxCommands \in Nat
    /\ OutputMayFail \in BOOLEAN

VARIABLES
    mutex,    \* "player": the player thread keeps the mutex; or "free"
    asleep,   \* threads in Cond::wait() without a signal
    main,     \* the main thread inside a PlayerControl method
    pc,       \* PlayerControl: what the threads share
    pl,       \* Player: the player thread's own state
    dc,       \* DecoderControl
    dt,       \* the decoder thread: DecoderBridge
    pipes,    \* contents of the two MusicPipes that may exist
    out,      \* the outputs: their pipe, how much of it the devices played
    heard     \* ghost: the next chunk of the song, and of the one being decoded

vars == <<mutex, asleep, main, pc, pl, dc, dt, pipes, out, heard>>

Pipes == {1, 2}
Times == 0 .. 1
Chunk(s, p) == [song |-> s, pos |-> p]
PlayerCommands == {"NONE", "EXIT", "CLOSE_AUDIO", "UPDATE_AUDIO", "PAUSE",
                   "SEEK", "QUEUE", "CANCEL", "REFRESH"}

\* MusicBuffer: a chunk is in use in a pipe, with the decoder or at the outputs.
\* In the outputs' pipe, TRUE is a chunk with a chunk of the next song mixed in.
Used == Len(pipes[1]) + Len(pipes[2])
        + Len(out.pipe) + Cardinality({i \in DOMAIN out.pipe : out.pipe[i]})
        + (IF dt.chunk = None THEN 0 ELSE 1)
IsFull == Used >= BufferChunks

IsIdle == dc.state \in {"STOP", "ERROR"}
IsStarting == dc.state = "START"
IsCurrentSong(s) == ~IsIdle /\ dc.song = s
IsDecoderAtCurrentSong == dc.pipe = pl.pipe
IsDecoderAtNextSong == dc.pipe # 0 /\ ~IsDecoderAtCurrentSong

\* make_shared<MusicPipe>()
FreshPipe == CHOOSE i \in Pipes : i # pl.pipe

NewPlayer == [at |-> "idle", then |-> "", pipe |-> 0, song |-> None,
              queued |-> TRUE, starting |-> FALSE, buffering |-> TRUE,
              woken |-> FALSE, paused |-> FALSE, open |-> FALSE,
              xfade |-> "UNKNOWN", pending |-> 0, format |-> FALSE]

\* DecoderBridge(): state of one run of a decoder plugin.
NewBridge == [at |-> "idle", initPending |-> FALSE, initRunning |-> FALSE,
              seeking |-> FALSE, chunk |-> None, pos |-> 0, error |-> FALSE]

NewOut == [pipe |-> <<>>, played |-> 0, paused |-> FALSE]

\* dc.seekable is not initialised by the constructor: it may have any value.
Init ==
    /\ mutex = "free" /\ asleep = {}
    /\ main = [at |-> "idle", op |-> "", song |-> None, time |-> 0, left |-> MaxCommands]
    /\ pc = [command |-> "NONE", state |-> "STOP", next |-> None,
             seek_time |-> 0, seeking |-> FALSE, error |-> FALSE,
             border_pause |-> FALSE]
    /\ pl = NewPlayer
    /\ \E b \in BOOLEAN :
          dc = [command |-> "NONE", state |-> "STOP", song |-> None, pipe |-> 0,
                start |-> 0, essential |-> FALSE, seek_time |-> 0,
                seek_error |-> FALSE, seekable |-> b, quit |-> FALSE]
    /\ dt = NewBridge
    /\ pipes = [i \in Pipes |-> <<>>]
    /\ out = NewOut
    /\ heard = [song |-> None, pos |-> 0, next |-> 0, from |-> 0, lost |-> FALSE]

----------------------------------------------------------------------------
(* The main thread: methods of PlayerControl.  Each sends commands and     *)
(* waits on client_cond until the player thread has finished them.         *)

\* Cond::notify_one() for the player's, the decoder's or the client's wait.
Wake(t) == asleep' = asleep \ {t}

MainUnchanged == UNCHANGED <<mutex, pl, dc, dt, pipes, out, heard>>

\* SynchronousCommand(): the command, Signal(), and the wait.
Send(p, cmd, m) ==
    /\ pc' = [p EXCEPT !.command = cmd]
    /\ asleep' = (asleep \ {"player"}) \cup {"main"}
    /\ main' = m

\* SeekLocked() after next_song has been cleared
SendSeek(m) ==
    Send([pc EXCEPT !.error = FALSE, !.next = m.song, !.seek_time = m.time],
         "SEEK", [m EXCEPT !.at = "seek"])

MainIdle == main.at = "idle" /\ mutex = "free" /\ main.left > 0

Called(op) == [main EXCEPT !.at = "command", !.op = op, !.left = @ - 1]

\* SeekLocked(), from Play() and LockSeek()
Seek(op, s, t) ==
    /\ MainIdle
    /\ LET m == [Called(op) EXCEPT !.song = s, !.time = t] IN
       IF pc.next # None THEN Send(pc, "CANCEL", [m EXCEPT !.at = "cancel"])
       ELSE SendSeek(m)
    /\ MainUnchanged

Play(s) == Seek("play", s, 0)
LockSeek(s, t) == Seek("seek", s, t)

\* The playlist queues a song only when none is queued.
LockEnqueueSong(s) ==
    /\ MainIdle /\ pc.next = None
    /\ Send([pc EXCEPT !.next = s, !.seek_time = 0], "QUEUE", Called("queue"))
    /\ MainUnchanged

\* LockCancel(), LockStop(), LockUpdateAudio(), LockGetStatus(), LockPause()
SimpleCommand(op, cmd) ==
    /\ MainIdle
    /\ Send(pc, cmd, Called(op))
    /\ MainUnchanged

\* ScopeOccupied: in StopDecoder() and SeekDecoder() while the decoder is busy
Occupied == pl.at \in {"command", "late"} /\ pl.then \notin {"run", "restarted", "body", "fade"}

LockCancel == SimpleCommand("cancel", "CANCEL")
LockStop == SimpleCommand("stop", "CLOSE_AUDIO")
LockUpdateAudio == SimpleCommand("update", "UPDATE_AUDIO")
LockPause == pc.state # "STOP" /\ SimpleCommand("pause", "PAUSE")
LockGetStatus == ~Occupied /\ SimpleCommand("status", "REFRESH")
Kill == SimpleCommand("kill", "EXIT")

LockSetBorderPause ==
    /\ MainIdle
    /\ pc' = [pc EXCEPT !.border_pause = ~@]
    /\ main' = [main EXCEPT !.left = @ - 1]
    /\ UNCHANGED asleep /\ MainUnchanged

MainReturns ==
    main' = [main EXCEPT !.at = IF main.op = "kill" THEN "done" ELSE "idle",
                         !.op = "", !.song = None, !.time = 0]

\* WaitCommandLocked(), and in SeekLocked() the wait for "seeking"; Play() then
\* ends a pause.
MainWaits ==
    /\ main.at \in {"command", "cancel", "seek"}
    /\ "main" \notin asleep /\ mutex = "free"
    /\ IF pc.command # "NONE" \/ (main.at = "seek" /\ pc.seeking)
       THEN asleep' = asleep \cup {"main"} /\ UNCHANGED <<main, pc>>
       ELSE CASE main.at = "cancel" -> SendSeek(main)
              [] main.at = "seek" /\ main.op = "play" /\ ~pc.error /\ pc.state = "PAUSE" ->
                    Send(pc, "PAUSE", [main EXCEPT !.at = "command"])
              [] OTHER -> MainReturns /\ UNCHANGED <<asleep, pc>>
    /\ MainUnchanged

Main ==
    \/ \E s \in Songs : Play(s) \/ LockEnqueueSong(s)
    \/ \E s \in Songs, t \in Times : LockSeek(s, t)
    \/ LockCancel \/ LockStop \/ LockUpdateAudio \/ LockPause \/ LockGetStatus
    \/ Kill \/ LockSetBorderPause \/ MainWaits

----------------------------------------------------------------------------
(* Steps of the player thread.                                             *)

At(l) == pl.at = l /\ "player" \notin asleep

Holding(p) == mutex' = "player" /\ pl' = p
Unlocked(p) == mutex' = "free" /\ pl' = p

\* Wait() and WaitForDecoder(): both wait on pc.cond.
WaitAt(l, p) == Unlocked([p EXCEPT !.at = l]) /\ asleep' = asleep \cup {"player"}

\* CommandFinished(): the command is cleared and the client signalled.
Finished(p) == [p EXCEPT !.command = "NONE"]

\* CancelPendingSeek(): the client that waits for "seeking" is signalled.
\* (The signal is given with the one of CommandFinished() or on its own.)
NotSeeking(p) == [p EXCEPT !.seeking = FALSE]

\* outputs.CheckPipe(): chunks all devices have played go back to the buffer.
Unplayed == SubSeq(out.pipe, out.played + 1, Len(out.pipe))
CheckPipe == out' = [out EXCEPT !.pipe = Unplayed, !.played = 0]

\* Player::StartDecoder() with DecoderControl::Start(): not to reach the start
\* of the song is an error only if it is not the queued song that is started.
StartedAt(i, essential) ==
    [dc EXCEPT !.song = pc.next, !.start = Start[pc.next] + pc.seek_time,
               !.essential = essential, !.pipe = i, !.command = "START",
               !.state = IF @ = "ERROR" THEN "STOP" ELSE @]

\* ... and its wait.
StartDecoder(p, i, then) ==
    /\ dc' = StartedAt(i, then # "fade")
    /\ Unlocked([p EXCEPT !.at = "command", !.then = then])
    /\ asleep' = (asleep \ {"decoder"}) \cup {"player"}

\* Player::StopDecoder(): DecoderControl::Stop() and its wait.
StopDecoder(p, then) ==
    IF IsIdle
    THEN /\ Holding([p EXCEPT !.at = "stopped", !.then = then])
         /\ UNCHANGED <<dc, asleep>>
    ELSE /\ dc' = [dc EXCEPT !.command = "STOP"]
         /\ Unlocked([p EXCEPT !.at = "command", !.then = then])
         /\ asleep' = (asleep \ {"decoder"}) \cup {"player"}

\* DecoderControl::Seek(): it fails at once, or sends SEEK and waits.
CanSeek == dc.state = "DECODE" /\ dc.seekable
SendDecoderSeek(p, t, then) ==
    /\ dc' = [dc EXCEPT !.seek_time = Start[p.song] + t, !.seek_error = FALSE,
                        !.command = "SEEK"]
    /\ Unlocked([p EXCEPT !.at = "command", !.then = then])
    /\ asleep' = (asleep \ {"decoder"}) \cup {"player"}

\* DecoderControl::WaitCommandLocked(); more of Stop() or Seek() may follow.
Nested == {"cancelled", "restart", "ended", "sought", "startupSought"}
WaitDecoderCommand ==
    /\ At("command")
    /\ IF dc.command # "NONE" THEN WaitAt("command", pl)
       ELSE /\ Holding([pl EXCEPT !.at =
                   CASE pl.then \in {"cancelled", "restart", "ended"} -> "stopped"
                     [] pl.then \in {"sought", "startupSought"} -> "late"
                     [] OTHER -> pl.then, !.then = IF @ \in Nested THEN @ ELSE ""])
            /\ UNCHANGED asleep
    /\ UNCHANGED <<main, pc, dc, dt, pipes, out, heard>>

\* DecoderControl::Seek(): the seek was too late and has restarted the decoder.
WaitLateSeek ==
    /\ At("late")
    /\ IF IsStarting THEN WaitAt("late", pl)
       ELSE Holding([pl EXCEPT !.at = pl.then, !.then = ""]) /\ UNCHANGED asleep
    /\ UNCHANGED <<main, pc, dc, dt, pipes, out, heard>>

\* The rest of StopDecoder(): the decoder's pipe is cleared and dropped.
DecoderStopped ==
    /\ At("stopped")
    /\ IF dc.pipe = 0 THEN UNCHANGED <<pipes, dc>>
       ELSE pipes' = [pipes EXCEPT ![dc.pipe] = <<>>] /\ dc' = [dc EXCEPT !.pipe = 0]
    /\ Holding([pl EXCEPT !.at = pl.then, !.then = "", !.starting = FALSE,
                          !.xfade = IF dc.pipe = 0 THEN @ ELSE "UNKNOWN"])
    /\ UNCHANGED <<asleep, main, pc, dt, out, heard>>

\* Player::ActivateDecoder(): the song the decoder works on becomes current, and
\* what comes next of it is expected; some of it may have been faded in already.
Activated(p) == [p EXCEPT !.queued = FALSE, !.song = pc.next,
                          !.starting = TRUE, !.pending = 0]
Expect == heard' = [heard EXCEPT !.song = pc.next, !.pos = heard.next]

\* Player::OpenOutput()
OpenOutput(p, c) ==
    \/ /\ Holding([p EXCEPT !.open = TRUE, !.paused = FALSE])
       /\ pc' = [c EXCEPT !.state = "PLAY"]
       /\ out' = [out EXCEPT !.paused = FALSE]
    \/ /\ OutputMayFail
       /\ Holding([p EXCEPT !.open = FALSE, !.paused = TRUE])
       /\ pc' = [c EXCEPT !.state = "PAUSE", !.error = TRUE]
       /\ out' = NewOut

\* PlayerControl::RunThread(): nothing is being played.
RunThread ==
    /\ At("idle")
    /\ CASE pc.command = "NONE" ->
              WaitAt("idle", pl) /\ UNCHANGED <<pc, dc, out>>
         [] pc.command \in {"SEEK", "QUEUE"} ->
              /\ StartDecoder([NewPlayer EXCEPT !.pipe = 1], 1, "run")
              /\ UNCHANGED <<pc, out>>
         [] pc.command = "EXIT" ->
              /\ dc' = [dc EXCEPT !.quit = TRUE, !.command = "STOP"]
              /\ asleep' = asleep \ {"decoder"}
              /\ Unlocked([pl EXCEPT !.at = "join"])
              /\ UNCHANGED <<pc, out>>
         [] OTHER ->
              /\ pc' = [Finished(pc) EXCEPT
                          !.next = IF pc.command \in {"PAUSE", "CANCEL"} THEN None ELSE @]
              /\ Wake("main")
              /\ out' = IF pc.command = "CLOSE_AUDIO" THEN NewOut ELSE out
              /\ Unlocked(pl)
              /\ UNCHANGED dc
    /\ UNCHANGED <<main, dt, pipes, heard>>

\* EXIT: DecoderControl::Quit() joins the decoder thread; the outputs are closed.
Join ==
    /\ At("join") /\ dt.at = "done"
    /\ pc' = Finished(pc) /\ Wake("main")
    /\ out' = NewOut
    /\ Unlocked([pl EXCEPT !.at = "done"])
    /\ UNCHANGED <<main, dc, dt, pipes, heard>>

\* Player::Run() before its loop
RunStarts ==
    /\ At("run")
    /\ Holding([Activated(pl) EXCEPT !.at = "loop"])
    /\ pc' = [Finished(pc) EXCEPT !.next = None, !.state = "PLAY"]
    /\ Wake("main") /\ Expect
    /\ UNCHANGED <<main, dc, dt, pipes, out>>

\* A command that ProcessCommand() finishes at once; the loop's body follows.
Process(p, c) ==
    /\ Holding([p EXCEPT !.at = "body"])
    /\ pc' = Finished(c) /\ Wake("main")
    /\ UNCHANGED dc

ProcessQueue ==
    LET p == [pl EXCEPT !.queued = TRUE] IN
    /\ pc.command = "QUEUE"
    /\ pc' = Finished(pc)
    /\ IF ~pl.starting /\ IsIdle
       THEN /\ dc' = StartedAt(FreshPipe, FALSE)
            /\ Unlocked([p EXCEPT !.at = "command", !.then = "body"])
            /\ asleep' = (asleep \ {"decoder", "main"}) \cup {"player"}
       ELSE /\ Holding([p EXCEPT !.at = "body"]) /\ Wake("main")
            /\ UNCHANGED dc
    /\ UNCHANGED out

ProcessPause ==
    /\ pc.command = "PAUSE"
    /\ CASE ~pl.paused ->
              /\ Process([pl EXCEPT !.paused = TRUE], [pc EXCEPT !.state = "PAUSE"])
              /\ out' = [out EXCEPT !.paused = TRUE]
         [] pl.paused /\ ~pl.format ->
              Process([pl EXCEPT !.paused = FALSE], [pc EXCEPT !.state = "PLAY"]) /\ UNCHANGED out
         [] OTHER ->
              OpenOutput([pl EXCEPT !.at = "body"], Finished(pc)) /\ Wake("main") /\ UNCHANGED dc

\* SEEK, first part: fail early, or cancel what the outputs have; that is done
\* with the mutex unlocked.
ProcessSeek ==
    /\ pc.command = "SEEK"
    /\ IF pc.seek_time > 0 /\ ~dc.seekable /\ IsCurrentSong(pc.next)
       THEN Process(pl, [pc EXCEPT !.next = None, !.error = TRUE]) /\ UNCHANGED out
       ELSE /\ pc' = NotSeeking(pc)
            /\ Unlocked([pl EXCEPT !.pending = 0, !.at = "seek"])
            /\ out' = [out EXCEPT !.pipe = <<>>, !.played = 0]
            /\ UNCHANGED <<asleep, dc>>

ProcessCancel ==
    /\ pc.command = "CANCEL"
    /\ CASE pc.next = None ->
              Holding([pl EXCEPT !.at = "end"]) /\ UNCHANGED <<pc, dc, asleep>>
         [] pc.next # None /\ IsDecoderAtNextSong ->
              StopDecoder(pl, "cancelled") /\ UNCHANGED pc
         [] OTHER ->
              Process([pl EXCEPT !.queued = FALSE], [pc EXCEPT !.next = None])
    /\ UNCHANGED out

\* Player::ProcessCommand(), at the head of the loop, unless there is no command
ProcessCommand ==
    /\ At("loop")
    /\ \/ /\ pc.command \in {"EXIT", "CLOSE_AUDIO"}
          /\ Holding([pl EXCEPT !.at = "end"]) /\ UNCHANGED <<asleep, pc, dc, out>>
       \/ pc.command = "UPDATE_AUDIO" /\ Process(pl, pc) /\ UNCHANGED out
       \/ ProcessQueue \/ ProcessPause \/ ProcessSeek \/ ProcessCancel
       \/ /\ pc.command = "REFRESH" /\ Process(pl, pc)
          /\ IF pl.open /\ ~pl.paused THEN CheckPipe ELSE UNCHANGED out
    /\ UNCHANGED <<main, dt, pipes, heard>>

\* CANCEL after the decoder was stopped
Cancelled ==
    /\ At("cancelled")
    /\ Process([pl EXCEPT !.queued = FALSE], [pc EXCEPT !.next = None])
    /\ UNCHANGED <<main, dt, pipes, out, heard>>

\* SEEK, second part: in the song being decoded, or restart the decoder
SeekDecoder ==
    /\ At("seek")
    /\ IF ~(dc.seekable /\ IsCurrentSong(pc.next))
       THEN StopDecoder(pl, "restart") /\ UNCHANGED pc
       ELSE LET p == [pl EXCEPT !.pipe = dc.pipe, !.queued = FALSE,
                                !.xfade = IF IsDecoderAtCurrentSong THEN @ ELSE "UNKNOWN"]
                c == [pc EXCEPT !.next = None]
            IN CASE pl.starting ->
                      Process([p EXCEPT !.pending = pc.seek_time], [c EXCEPT !.seeking = TRUE])
                 [] ~pl.starting /\ CanSeek ->
                      SendDecoderSeek(p, pc.seek_time, "sought") /\ pc' = c
                 [] OTHER ->
                      /\ Holding([p EXCEPT !.at = "end"])
                      /\ pc' = Finished([c EXCEPT !.error = TRUE]) /\ Wake("main")
                      /\ UNCHANGED dc
    /\ UNCHANGED <<main, dt, pipes, out, heard>>

\* The decoder is stopped; the pipe is cleared and the decoder started again.
Restart ==
    /\ At("restart")
    /\ pipes' = [pipes EXCEPT ![pl.pipe] = <<>>]
    /\ StartDecoder(pl, pl.pipe, "restarted")
    /\ UNCHANGED <<main, pc, dt, out, heard>>

Restarted ==
    /\ At("restarted")
    /\ Holding([Activated(pl) EXCEPT !.at = "body"])
    /\ pc' = [Finished(pc) EXCEPT !.next = None, !.seeking = TRUE]
    /\ Wake("main") /\ Expect
    /\ UNCHANGED <<main, dc, dt, pipes, out>>

\* The decoder has executed the SEEK command.
Sought ==
    /\ At("sought")
    /\ Wake("main")
    /\ IF dc.seek_error
       THEN Holding([pl EXCEPT !.at = "end"]) /\ pc' = [Finished(pc) EXCEPT !.error = TRUE]
       ELSE Unlocked([pl EXCEPT !.at = "body", !.buffering = TRUE]) /\ pc' = Finished(pc)
    /\ UNCHANGED <<main, dc, dt, pipes, out, heard>>

\* PlayerControl::WaitOutputConsumed(lock, 1): the outputs have finished.  Whenever
\* CheckDecoderStartup() asks, they have (see PlayerAssertions), so that it neither
\* waits there nor returns without having done anything.
OutputConsumed == out.pipe = <<>>

\* Player::CheckDecoderStartup(), the decoder is ready and the outputs have
\* finished the previous song
StartupDone ==
    LET p == [pl EXCEPT !.starting = FALSE, !.format = TRUE, !.at = "loop"] IN
    IF pl.pending > 0
    THEN /\ IF CanSeek
            THEN SendDecoderSeek(p, pl.pending, "startupSought") /\ UNCHANGED pc
            ELSE /\ Holding([p EXCEPT !.at = "end"])
                 /\ pc' = NotSeeking([pc EXCEPT !.error = TRUE]) /\ Wake("main")
                 /\ UNCHANGED dc
         /\ UNCHANGED out
    ELSE LET q == [p EXCEPT !.buffering = @ \/ pc.seeking] IN
         /\ asleep' = IF pc.seeking THEN asleep \ {"main"} ELSE asleep
         /\ IF pl.paused THEN Holding(q) /\ pc' = NotSeeking(pc) /\ UNCHANGED out
            ELSE OpenOutput(q, NotSeeking(pc))
         /\ UNCHANGED dc

CheckDecoderStartup ==
    CASE dc.state = "ERROR" ->
           /\ Holding([pl EXCEPT !.at = "end"])
           /\ pc' = [pc EXCEPT !.error = TRUE]
           /\ UNCHANGED <<asleep, dc, out>>
      [] IsStarting ->
           WaitAt("loop", pl) /\ UNCHANGED <<pc, dc, out>>
      [] OTHER -> StartupDone

\* ... after the pending seek
StartupSought ==
    /\ At("startupSought")
    /\ Wake("main")
    /\ IF dc.seek_error
       THEN /\ Holding([pl EXCEPT !.at = "end"])
            /\ pc' = NotSeeking([pc EXCEPT !.error = TRUE]) /\ UNCHANGED out
       ELSE LET p == [pl EXCEPT !.at = "loop", !.buffering = TRUE] IN
            IF pl.paused THEN Holding(p) /\ pc' = NotSeeking(pc) /\ UNCHANGED out
            ELSE OpenOutput(p, NotSeeking(pc))
    /\ UNCHANGED <<main, dc, dt, pipes, heard>>

\* The loop's body up to the decision what to do with the next chunk
Body ==
    /\ At("body") \/ (At("loop") /\ pc.command = "NONE")
    /\ CASE pl.starting -> CheckDecoderStartup
         [] ~pl.starting /\ pl.buffering /\ Len(pipes[pl.pipe]) < BeforePlay
               /\ ~IsIdle /\ ~IsFull ->
              WaitAt("loop", pl) /\ UNCHANGED <<pc, dc, out>>
         [] OTHER ->
              LET p == [pl EXCEPT !.buffering = FALSE] IN
              /\ IF IsIdle /\ pl.queued /\ IsDecoderAtCurrentSong
                 THEN StartDecoder(p, FreshPipe, "fade")
                 ELSE Holding([p EXCEPT !.at = "fade"]) /\ UNCHANGED <<asleep, dc>>
              /\ UNCHANGED <<pc, out>>
    /\ UNCHANGED <<main, dt, pipes, heard>>

\* Player::CheckCrossFade()
CheckCrossFade ==
    IF \/ pl.xfade # "UNKNOWN" \/ pc.border_pause
       \/ ~IsDecoderAtNextSong \/ IsStarting \/ pipes[dc.pipe] = <<>>
    THEN pl
    ELSE [pl EXCEPT !.xfade = IF FadeChunks > 0 THEN "ENABLED" ELSE "DISABLED"]

Fade ==
    /\ At("fade")
    /\ LET p == CheckCrossFade IN
       CASE pl.paused /\ pc.command = "NONE" -> WaitAt("loop", p)
         [] pl.paused /\ pc.command # "NONE" ->
              Holding([p EXCEPT !.at = "loop"]) /\ UNCHANGED asleep
         [] OTHER ->
              /\ Unlocked([p EXCEPT !.at = IF pipes[pl.pipe] # <<>> THEN "play" ELSE "check"])
              /\ UNCHANGED asleep
    /\ UNCHANGED <<main, pc, dc, dt, pipes, out, heard>>

\* UnlockCheckOutputs(), without the mutex
UnlockCheckOutputs ==
    /\ At("check")
    /\ CheckPipe
    /\ Unlocked([pl EXCEPT !.at = IF Unplayed # <<>> THEN "busy" ELSE "drained"])
    /\ UNCHANGED <<asleep, main, pc, dc, dt, pipes, heard>>

\* The outputs are still busy: wake the decoder and wait.
WaitForMore(p) ==
    /\ Unlocked([p EXCEPT !.at = "loop"])
    /\ asleep' = (asleep \ {"decoder"}) \cup {"player"}

Busy ==
    /\ At("busy")
    /\ WaitForMore(pl)
    /\ UNCHANGED <<main, pc, dc, dt, pipes, out, heard>>

\* Nothing is left to be played now: next song, end of playback, or wait.
Drained ==
    /\ At("drained")
    /\ CASE IsDecoderAtNextSong ->
              Unlocked([pl EXCEPT !.at = "border"]) /\ UNCHANGED asleep
         [] ~IsDecoderAtNextSong /\ IsIdle ->
              /\ IF pl.queued \/ pipes[pl.pipe] # <<>>
                 THEN Holding([pl EXCEPT !.at = "loop"])
                 ELSE Unlocked([pl EXCEPT !.at = "end"])
              /\ UNCHANGED asleep
         [] ~IsDecoderAtNextSong /\ ~IsIdle /\ pl.open -> WaitForMore(pl)
         [] OTHER -> Holding([pl EXCEPT !.at = "loop"]) /\ UNCHANGED asleep
    /\ UNCHANGED <<main, pc, dc, dt, pipes, out, heard>>

\* Player::SongBorder(): the decoder's pipe becomes the current one (unlocked) ...
SongBorder ==
    /\ At("border")
    /\ Holding([pl EXCEPT !.at = "activate", !.pipe = dc.pipe, !.xfade = "UNKNOWN"])
    /\ UNCHANGED <<asleep, main, pc, dc, dt, pipes, out, heard>>

\* ... its song the current song; OnPlayerSync() is called without the mutex ...
ActivateNext ==
    /\ At("activate")
    /\ Unlocked([Activated(pl) EXCEPT !.at = "borderPause"])
    /\ pc' = [pc EXCEPT !.next = None]
    /\ Expect
    /\ UNCHANGED <<asleep, main, dc, dt, pipes, out>>

\* ... and playback may have to pause here.
BorderPause ==
    /\ At("borderPause")
    /\ IF pc.border_pause
       THEN /\ pc' = [pc EXCEPT !.state = "PAUSE"]
            /\ Unlocked([pl EXCEPT !.at = "loop", !.paused = TRUE])
            /\ out' = [out EXCEPT !.paused = TRUE]
       ELSE Holding([pl EXCEPT !.at = "loop"]) /\ UNCHANGED <<pc, out>>
    /\ UNCHANGED <<asleep, main, dc, dt, pipes, heard>>

\* Player::PlayNextChunk(): LockWaitOutputConsumed() with its wait
PlayNextChunk ==
    /\ At("play") \/ At("playWaited")
    /\ CheckPipe
    /\ CASE Len(Unplayed) < OutputLimit ->
              Unlocked([pl EXCEPT !.at = "shift"]) /\ UNCHANGED asleep
         [] Len(Unplayed) >= OutputLimit /\ pl.at = "play" /\ pc.command = "NONE" ->
              WaitAt("playWaited", pl)
         [] OTHER -> Unlocked([pl EXCEPT !.at = "loop"]) /\ UNCHANGED asleep
    /\ UNCHANGED <<main, pc, dc, dt, pipes, heard>>

\* PlayerControl::PlayChunk(): the outputs take the chunk, or the player pauses.
PlayChunk(p, mixed) ==
    \/ /\ out' = [out EXCEPT !.pipe = Append(@, mixed)]
       /\ Unlocked([p EXCEPT !.at = "wake"])
       /\ UNCHANGED pc
    \/ /\ OutputMayFail
       /\ Unlocked([p EXCEPT !.at = "loop", !.paused = TRUE])
       /\ pc' = [pc EXCEPT !.state = "PAUSE", !.error = TRUE]
       /\ UNCHANGED out

\* ... begin to cross-fade, take a chunk and send it to the outputs
Shift ==
    LET begin == /\ pl.xfade = "ENABLED" /\ IsDecoderAtNextSong
                 /\ Len(pipes[pl.pipe]) <= FadeChunks
        p == IF begin THEN [pl EXCEPT !.xfade = "ACTIVE"] ELSE pl
    IN
    /\ At("shift")
    /\ CASE p.xfade = "ACTIVE" /\ pipes[dc.pipe] # <<>> ->
              /\ pipes' = [i \in Pipes |-> Tail(pipes[i])]
              /\ PlayChunk(p, TRUE)
              /\ heard' = [heard EXCEPT !.pos = @ + 1, !.next = @ + 1]
              /\ UNCHANGED asleep
         [] p.xfade = "ACTIVE" /\ pipes[dc.pipe] = <<>> /\ ~IsIdle ->
              /\ mutex = "free"
              /\ WaitForMore(p)
              /\ UNCHANGED <<pc, pipes, out, heard>>
         [] OTHER ->
              /\ pipes' = [pipes EXCEPT ![pl.pipe] = Tail(@)]
              /\ PlayChunk([p EXCEPT !.xfade = IF @ = "ACTIVE" THEN "DISABLED" ELSE @], FALSE)
              /\ heard' = [heard EXCEPT !.pos = @ + 1]
              /\ UNCHANGED asleep
    /\ UNCHANGED <<main, dc, dt>>

\* ... and wake the decoder when there is room for a larger block.
WakeDecoder ==
    /\ At("wake")
    /\ IF ~IsIdle /\ Len(pipes[dc.pipe]) <= (BufferChunks * 3) \div 4
       THEN /\ Holding([pl EXCEPT !.at = "loop", !.woken = TRUE])
            /\ asleep' = IF pl.woken THEN asleep ELSE asleep \ {"decoder"}
       ELSE Holding([pl EXCEPT !.at = "loop", !.woken = FALSE]) /\ UNCHANGED asleep
    /\ UNCHANGED <<main, pc, dc, dt, pipes, out, heard>>

\* Player::Run() after its loop
EndPlayback ==
    /\ At("end")
    /\ pc' = NotSeeking(pc)
    /\ LET a == IF pc.seeking THEN asleep \ {"main"} ELSE asleep IN
       IF IsIdle
       THEN Holding([pl EXCEPT !.at = "stopped", !.then = "ended", !.pending = 0]) /\ asleep' = a /\ UNCHANGED dc
       ELSE /\ dc' = [dc EXCEPT !.command = "STOP"]
            /\ Unlocked([pl EXCEPT !.at = "command", !.then = "ended", !.pending = 0])
            /\ asleep' = (a \ {"decoder"}) \cup {"player"}
    /\ UNCHANGED <<main, dt, pipes, out, heard>>

Ended ==
    /\ At("ended")
    /\ pipes' = [pipes EXCEPT ![pl.pipe] = <<>>]
    /\ pc' = [pc EXCEPT !.state = "STOP", !.next = IF pl.queued THEN None ELSE @]
    /\ Unlocked(NewPlayer)
    /\ heard' = [heard EXCEPT !.song = None]
    /\ UNCHANGED <<asleep, main, dc, dt, out>>

PlayerThread ==
    \/ RunThread \/ Join \/ RunStarts \/ ProcessCommand \/ Cancelled
    \/ SeekDecoder \/ Restart \/ Restarted \/ Sought
    \/ WaitDecoderCommand \/ WaitLateSeek \/ DecoderStopped
    \/ StartupSought \/ Body \/ Fade
    \/ UnlockCheckOutputs \/ Busy \/ Drained
    \/ SongBorder \/ ActivateNext \/ BorderPause
    \/ PlayNextChunk \/ Shift \/ WakeDecoder \/ EndPlayback \/ Ended

----------------------------------------------------------------------------
(* The decoder thread.                                                     *)

DecoderAt(l) == dt.at = l /\ "decoder" \notin asleep
Locked == mutex = "free"
DecoderUnchanged == UNCHANGED <<mutex, main, pc, pl, out>>

\* Ghost: the decoder goes on at position t, with its pipe empty; "lost" when that
\* is not where it was told to start.
Jump(t, lost) ==
    heard' = [heard EXCEPT !.next = t, !.from = t, !.lost = lost,
                           !.pos = IF IsDecoderAtCurrentSong THEN t ELSE @]

\* Faulty variant: what was decoded before a late seek stays in the pipe.
LateSeekKeeps == pipes
LateSeekClears == [pipes EXCEPT ![dc.pipe] = <<>>]

\* DecoderControl::RunThread(), and decoder_run_song() up to the decoder plugin
DecoderRunThread ==
    /\ DecoderAt("idle") /\ Locked
    /\ CASE dc.command \in {"START", "SEEK"} ->
              LET start == IF dc.command = "SEEK" THEN dc.seek_time ELSE dc.start IN
              /\ dc' = [dc EXCEPT !.start = start, !.state = "START", !.command = "NONE"]
              /\ dt' = [NewBridge EXCEPT !.at = "opening", !.initPending = start > 0]
              /\ pipes' = IF dc.command = "SEEK" THEN LateSeekClears ELSE pipes
              /\ Wake("player")
              /\ Jump(IF dc.song \in Seekable THEN start ELSE 0, dc.song \notin Seekable)
         [] dc.command = "STOP" ->
              /\ dc' = [dc EXCEPT !.command = "NONE"]
              /\ dt' = [dt EXCEPT !.at = IF dc.quit THEN "done" ELSE "idle"]
              /\ Wake("player") /\ UNCHANGED <<pipes, heard>>
         [] OTHER ->
              /\ asleep' = asleep \cup {"decoder"}
              /\ UNCHANGED <<dc, dt, pipes, heard>>
    /\ DecoderUnchanged

\* decoder_run(), decoder_run_song(): the plugin has returned.
Failed(d) == [d EXCEPT !.state = "ERROR", !.command = "NONE"]
\* Faulty variant: nobody is told.
ReturnSilently(d) ==
    /\ dc' = d
    /\ dt' = [NewBridge EXCEPT !.at = "idle"]
    /\ UNCHANGED asleep

Return(d) ==
    /\ dc' = d
    /\ dt' = [NewBridge EXCEPT !.at = "idle"]
    /\ Wake("player")

\* DecoderBridge::Ready(): a plugin has accepted the song; that its format cannot
\* be converted is noticed afterwards.
Ready ==
    /\ dc' = [dc EXCEPT !.state = "DECODE", !.seekable = dc.song \in Seekable]
    /\ \E e \in {FALSE, dc.song \in Broken} : dt' = [dt EXCEPT !.at = "decode", !.error = e]
    /\ Wake("player")

\* No plugin accepts the song: the file is broken; a plugin that is told to stop
\* may also fail, or StopDecoder is thrown.
NoPlugin ==
    \/ (dc.song \in Broken \/ dc.command = "STOP") /\ Return(Failed(dc))
    \/ dc.command = "STOP" /\ Return([dc EXCEPT !.state = "STOP"])

\* DecoderUnlockedRunUri(): the decoder plugins are tried one after the other.
Opened ==
    /\ DecoderAt("opening") /\ Locked
    /\ Ready \/ NoPlugin
    /\ UNCHANGED <<pipes, heard>> /\ DecoderUnchanged

\* DecoderBridge::GetVirtualCommand() with PrepareInitialSeek(), and what the
\* plugin does about the command
GetCommand ==
    /\ DecoderAt("decode") /\ Locked
    /\ LET initial == dt.initPending /\ dc.seekable /\ dc.command = "NONE"
           d == [dt EXCEPT !.initPending = FALSE]
       IN dt' = CASE dt.error -> [dt EXCEPT !.at = "finish"]
                  [] ~dt.error /\ initial -> [d EXCEPT !.initRunning = TRUE, !.at = "seek"]
                  [] OTHER ->
                     CASE dc.command = "STOP" -> [d EXCEPT !.at = "finish"]
                       [] dc.command = "SEEK" -> [d EXCEPT !.seeking = TRUE, !.at = "seek"]
                       [] OTHER -> [d EXCEPT !.at = IF d.pos < Length[dc.song]
                                                    THEN "submit" ELSE "finish"]
    /\ UNCHANGED <<asleep, dc, pipes, heard>> /\ DecoderUnchanged

\* The plugin finds the end of the file; it need not look for a command first.
EndOfFile ==
    /\ DecoderAt("decode")
    /\ dt.pos >= Length[dc.song]
    /\ dt' = [dt EXCEPT !.at = "finish"]
    /\ UNCHANGED <<asleep, dc, pipes, heard>> /\ DecoderUnchanged

\* DecoderBridge::Read() fails: the error ends the plugin when it asks next.
ReadFails ==
    /\ DecoderAt("decode") \/ DecoderAt("seek")
    /\ Locked /\ dc.song \in Broken
    /\ dt' = [dt EXCEPT !.error = TRUE]
    /\ UNCHANGED <<asleep, dc, pipes, heard>> /\ DecoderUnchanged

\* Faulty variant: the chunk being filled survives the seek.
MovedKeepsChunk == [dt EXCEPT !.at = "decode", !.seeking = FALSE, !.pos = dc.seek_time]
Moved == [dt EXCEPT !.at = "decode", !.seeking = FALSE, !.chunk = None, !.pos = dc.seek_time]

\* The plugin has moved: DecoderBridge::CommandFinished(), or not: SeekError().  A
\* song whose start is not reached fails if that is essential, else it is decoded
\* from the beginning of the file.
PluginSeek ==
    /\ DecoderAt("seek") /\ Locked
    /\ LET d == [dt EXCEPT !.at = "decode", !.initRunning = FALSE, !.seeking = FALSE] IN
       IF dt.initRunning
       THEN /\ \/ dt' = [d EXCEPT !.pos = dc.start] /\ UNCHANGED heard
               \/ dc.essential /\ dt' = [d EXCEPT !.error = TRUE] /\ UNCHANGED heard
               \/ ~dc.essential /\ dt' = d /\ Jump(0, TRUE)
            /\ UNCHANGED <<asleep, dc, pipes>>
       ELSE /\ \/ /\ dt' = Moved
                  /\ pipes' = [pipes EXCEPT ![dc.pipe] = <<>>]
                  /\ dc' = [dc EXCEPT !.command = "NONE"]
                  /\ Jump(dc.seek_time, FALSE)
               \/ /\ dt' = d
                  /\ dc' = [dc EXCEPT !.command = "NONE", !.seek_error = TRUE]
                  /\ UNCHANGED <<pipes, heard>>
            /\ Wake("player")
    /\ DecoderUnchanged

\* DecoderBridge::SubmitAudio() and GetChunk(): a chunk may be filled by one
\* call, or by two; the conversion may fail, which stops the plugin.
SubmitAudio ==
    /\ DecoderAt("submit")
    /\ \/ dt.chunk # None /\ dt' = [dt EXCEPT !.at = "flush"]
       \/ /\ dt.chunk = None /\ ~IsFull
          /\ \E l \in {"flush", "decode"} :
                dt' = [dt EXCEPT !.at = l, !.chunk = Chunk(dc.song, dt.pos)]
       \/ dt.chunk = None /\ IsFull /\ dt' = [dt EXCEPT !.at = "full"]
       \/ dc.song \in Broken /\ dt' = [dt EXCEPT !.at = "finish", !.error = TRUE]
    /\ UNCHANGED <<asleep, dc, pipes, heard>> /\ DecoderUnchanged

\* NeedChunks(): wait for the player to free a chunk; with a command pending the
\* data is dropped.
NeedChunks ==
    /\ DecoderAt("full") /\ Locked
    /\ IF dc.command = "NONE"
       THEN dt' = [dt EXCEPT !.at = "waited"] /\ asleep' = asleep \cup {"decoder"}
       ELSE dt' = [dt EXCEPT !.at = "decode", !.pos = @ + 1] /\ UNCHANGED asleep
    /\ UNCHANGED <<dc, pipes, heard>> /\ DecoderUnchanged

NeededChunks ==
    /\ DecoderAt("waited") /\ Locked
    /\ dt' = IF dc.command = "NONE" THEN [dt EXCEPT !.at = "submit"]
             ELSE [dt EXCEPT !.at = "decode", !.pos = @ + 1]
    /\ UNCHANGED <<asleep, dc, pipes, heard>> /\ DecoderUnchanged

\* DecoderBridge::FlushChunk(): first the pipe, without the mutex, then the
\* signal.  CheckFlushChunk() does the same after the plugin has returned.
FlushChunk ==
    /\ DecoderAt("flush") \/ (DecoderAt("finish") /\ dt.chunk # None)
    /\ pipes' = [pipes EXCEPT ![dc.pipe] = Append(@, dt.chunk)]
    /\ dt' = [dt EXCEPT !.chunk = None, !.pos = @ + 1,
                        !.at = IF @ = "flush" THEN "notify" ELSE "notifyLast"]
    /\ UNCHANGED <<asleep, dc, heard>> /\ DecoderUnchanged

Notify ==
    /\ DecoderAt("notify") \/ DecoderAt("notifyLast")
    /\ Locked /\ Wake("player")
    /\ dt' = [dt EXCEPT !.at = IF @ = "notify" THEN "decode" ELSE "finish"]
    /\ UNCHANGED <<dc, pipes, heard>> /\ DecoderUnchanged

\* decoder_run_song() after the plugin has returned.  An error also ends a SEEK that
\* is pending, without seek_error, and what was decoded stays in the pipe.
Finish ==
    /\ DecoderAt("finish") /\ dt.chunk = None /\ Locked
    /\ Return(IF dt.error THEN Failed(dc) ELSE [dc EXCEPT !.state = "STOP"])
    /\ UNCHANGED <<pipes, heard>> /\ DecoderUnchanged

DecoderThread ==
    \/ DecoderRunThread \/ Opened \/ GetCommand \/ EndOfFile \/ ReadFails \/ PluginSeek
    \/ SubmitAudio \/ NeedChunks \/ NeededChunks \/ FlushChunk \/ Notify \/ Finish

----------------------------------------------------------------------------
(* The outputs, as the player sees them.                                   *)

\* Faulty variant: the player is not told.
ChunksConsumedSilently ==
    /\ mutex = "free" /\ ~out.paused /\ out.played < Len(out.pipe)
    /\ out' = [out EXCEPT !.played = @ + 1]
    /\ UNCHANGED <<asleep, mutex, main, pc, pl, dc, dt, pipes, heard>>

\* A device has played a chunk: PlayerControl::ChunksConsumed() wakes the player.
ChunksConsumed ==
    /\ mutex = "free" /\ ~out.paused /\ out.played < Len(out.pipe)
    /\ out' = [out EXCEPT !.played = @ + 1]
    /\ Wake("player")
    /\ UNCHANGED <<mutex, main, pc, pl, dc, dt, pipes, heard>>

Next == Main \/ PlayerThread \/ DecoderThread \/ ChunksConsumed

Fairness ==
    /\ WF_vars(PlayerThread) /\ WF_vars(DecoderThread)
    /\ WF_vars(MainWaits) /\ WF_vars(ChunksConsumed)

Spec == Init /\ [][Next]_vars /\ Fairness

----------------------------------------------------------------------------
(* Properties                                                              *)

\* Every variable has its type.
TypeOK ==
    /\ mutex \in {"free", "player"} /\ asleep \subseteq {"main", "player", "decoder"}
    /\ main.left \in 0 .. MaxCommands
    /\ pc.command \in PlayerCommands /\ pc.next \in Songs \cup {None}
    /\ pc.state \in {"STOP", "PLAY", "PAUSE"}
    /\ pl.pipe \in Pipes \cup {0} /\ pl.song \in Songs \cup {None}
    /\ pl.xfade \in {"UNKNOWN", "DISABLED", "ENABLED", "ACTIVE"}
    /\ dc.command \in {"NONE", "START", "STOP", "SEEK"}
    /\ dc.state \in {"STOP", "START", "DECODE", "ERROR"}
    /\ dc.pipe \in Pipes \cup {0} /\ dc.song \in Songs \cup {None}
    /\ Used \in 0 .. BufferChunks

\* The assertions of the client's methods (Control.cxx): when CANCEL, SEEK or
\* CLOSE_AUDIO has been executed, no next song is left behind.
ClientAssertions ==
    pc.command = "NONE" /\ (main.at \in {"cancel", "seek"} \/ main.op \in {"cancel", "stop"})
       /\ main.at # "idle" => pc.next = None

\* The assertions of the player thread (player/Thread.cxx, Control.hxx): at each
\* of these places the song, the pipes and the flags are what the code relies on.
PlayerAssertions ==
    /\ pl.at = "command" /\ dc.command = "START" =>
          /\ dc.song # None /\ pipes[dc.pipe] = <<>> /\ ~pl.starting
          /\ pl.queued \/ pc.command = "SEEK"
    /\ pl.at \in {"run", "restarted", "activate"} => pc.next # None
    /\ pl.at = "activate" => pl.queued
    /\ pl.at = "loop" /\ mutex = "player" /\ pc.command = "QUEUE" =>
          pc.next # None /\ ~pl.queued /\ ~IsDecoderAtNextSong
    /\ pl.starting /\ pl.pending > 0 => pc.seeking
    /\ pl.starting /\ pl.open => OutputConsumed
    /\ pl.at = "shift" => pipes[pl.pipe] # <<>> /\ pl.song # None
    /\ pl.xfade = "ACTIVE" => IsDecoderAtNextSong
    /\ pl.at \in {"restarted", "sought"} => pl.xfade = "UNKNOWN"
    /\ pl.at = "ended" /\ pl.queued => pc.next # None

\* The assertions of the decoder (decoder/Control.cxx, Bridge.cxx, Thread.cxx):
\* a plugin starts with an empty pipe, it has a pipe as long as it runs, and no
\* chunk exists before the initial seek is done.
DecoderAssertions ==
    /\ dt.at \in {"idle", "done"} => IsIdle /\ dt.chunk = None
    /\ dt.at \notin {"idle", "done"} => dc.pipe # 0
    /\ dt.at = "opening" => pipes[dc.pipe] = <<>>
    /\ dt.at = "seek" /\ dt.initRunning => dt.chunk = None /\ pipes[dc.pipe] = <<>>
    /\ dt.at \in {"flush", "submit"} => ~dt.seeking /\ ~dt.initPending /\ ~dt.initRunning
    /\ pl.at = "late" => dc.command = "NONE"

\* assert(buffer.IsEmptyUnsafe()) in RunThread(): when nothing is played, every
\* chunk that is not at the outputs is back in the buffer.
ChunksReturned ==
    pl.at \in {"idle", "done"} => dt.chunk = None /\ \A i \in Pipes : pipes[i] = <<>>

\* The state is type correct, and none of the assertions fails in any of the three
\* threads.
Sound == TypeOK /\ ClientAssertions /\ PlayerAssertions /\ DecoderAssertions /\ ChunksReturned

\* What reaches the outputs is the current song, chunk by chunk from where its
\* decoder started or from the last seek it executed, and what is mixed in is the
\* beginning of the song the decoder works on: no chunk of an old position or song
\* is left in a pipe by a seek, a late seek, a cancelled song or a song border.  A
\* seek taken for done was executed, unless the decoder has failed meanwhile or
\* could not go to the start of a queued song.
PlayedInOrder ==
    /\ pl.at = "shift" =>
          /\ pl.song = heard.song
          /\ Head(pipes[pl.pipe]) = Chunk(heard.song, heard.pos)
          /\ IsDecoderAtNextSong /\ pipes[dc.pipe] # <<>> =>
                Head(pipes[dc.pipe]) = Chunk(dc.song, heard.next)
    /\ pl.at \in {"sought", "startupSought"} /\ ~dc.seek_error =>
          heard.from = dc.seek_time \/ dc.state = "ERROR" \/ heard.lost

\* Every command the main thread waits for is finished, also a seek that has to
\* wait for the decoder: no signal is lost between the three threads.
CommandsComplete == []<>(main.at \in {"idle", "done"})

\* The player waits for outputs that have played everything, and for a decoder
\* that has stopped or waits for a free chunk: the last signal came before one
\* of them went to sleep (Thread.cxx:1169, Bridge.cxx:120).
MissedSignal ==
    /\ pl.at = "loop" /\ "player" \in asleep /\ ~pl.paused /\ Unplayed = <<>>
    /\ IsIdle \/ (dt.at = "waited" /\ "decoder" \in asleep)

\* That is the only way in which a command may remain unfinished.
CommandsCompleteOrMissed == []<>(main.at \in {"idle", "done"} \/ MissedSignal)

\* When the commands have ended, playback does not hang: what was queued is played
\* to its end, playback is paused, or a signal was missed.
PlaybackEnds == <>[](pc.state # "PLAY" \/ MissedSignal)

\* LockSeek() that returns without an error has moved to the given position.
SeekHonoured ==
    main.at = "seek" /\ pc.command = "NONE" /\ ~pc.seeking /\ ~pc.error
       /\ heard.song = main.song /\ main.song \in Seekable =>
          heard.from = Start[main.song] + main.time
=============================================================================
