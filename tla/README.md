# mpd-dbcreate: TLA+ models of the database update and of playback

`mpd-dbcreate` is a fork of the Music Player Daemon whose added program scans a
music directory and writes an MPD database file, optionally keeping only stereo
or only multichannel recordings. Most of the 1900 files of the repository are
MPD itself: plugins, codecs, protocol, utilities. This project models the two
parts with a protocol of their own:

* what decides whether the database is *right* and *safely on disk*: the event
  loop, the update service and its thread, the walk over the music directory,
  saving and loading the file, the inotify queue;
* what decides whether *the right music is heard* and no thread hangs: the
  playlist with its queue, the player, the decoder and the output threads.

Paths below are relative to the repository's `src/` directory.

## 1. Inventory

### 1.1 Parts, state and operations

| Part | State it keeps | Operations |
| --- | --- | --- |
| Event loop (`event/Loop.cxx`, `InjectEvent.cxx`) | list of injected events, `busy`, `again`, `quit`, `quit_injected`, wake descriptor | `Run`, `AddInject`, `RemoveInject`, `HandleInject`, `InjectBreak`, `OnWake`; timers, defer, idle and socket callbacks |
| Update service (`db/update/Service.cxx`, `Queue.cxx`, `Remove.cxx`) | `queue`, `next`, `walk`, `update_thread`, `update_task_id`, `modified`; list of removed songs | `Enqueue`, `CancelMount`, `CancelAllAsync`, `Task` (update thread), `RunDeferred`, `Remove`, destructor |
| Mount commands (`command/StorageCommands.cxx`) | storages and databases at mount points | `mount`, `unmount` |
| Update walk (`db/update/Walk.cxx` and its neighbours) | the database tree, `modified`, `cancel`, `walk_discard`, one stack frame per open directory | `Walk`, `UpdateDirectory`, `UpdateRegularFile` (song, container, archive, playlist), purge, `UpdateUri` |
| Filters (`CueValidator.cxx`, `FilteredSongUpdate.cxx`) | the process-wide channel mode | `ShouldIgnoreCueFile`, `ShouldIncludeSong` |
| Database tree (`db/plugins/simple/Directory.cxx`, `PlaylistVector.cxx`) | children, songs and playlists per directory, marks | add, delete, `PruneEmpty`, `UpdateOrInsert`, `Sort`, lookup |
| Database file (`SimpleDatabasePlugin.cxx`, `io/FileOutputStream.cxx`, `*Save.cxx`) | the path, a temporary file, `mtime` | `Open`, `Load`, `Check`, `Save`, `Commit`, `Cancel` |
| Inotify (`InotifyQueue.cxx`, `InotifyUpdate.cxx`) | queue of URIs, delay timer, tree of watches | `Enqueue`, `OnDelay`, `OnInotify` |
| Main program (`DbMain.cxx`) | options, a 100 ms timer | start an update, wait for `GetId() == 0`, `Save`, exit |
| Song scanning, exclude list, composite storage | tags; patterns; a tree of mounts | `LoadFile`, `UpdateFile`; `Load`, `Check`; `Mount`, `Unmount` |
| Play queue (`queue/Queue.cxx`, `IdTable.hxx`, `Save.cxx`) | songs by position, the order they are played in, ids, versions, priorities, modes | append, delete, move, swap, shuffle, priorities, `IncrementVersion`, save and load |
| Playlist (`queue/Playlist*.cxx`) | `playing`, `current`, `queued`, error count | the clients' commands, `SyncWithPlayer`, `BorderPause`, `TagModified`, `DatabaseModified`, save and restore |
| Player (`player/Control.cxx`, `Thread.cxx`) | command, next song, seek, state, error; pipe, song, cross-fade, pending seek | `SynchronousCommand` and its callers; `Run`, `ProcessCommand`, `SeekDecoder`, `CheckDecoderStartup`, `PlayNextChunk`, `SongBorder` |
| Decoder (`decoder/Control.cxx`, `Thread.cxx`, `Bridge.cxx`) | command, state, song, pipe; chunk being filled, initial seek | `Start`, `Stop`, `Seek`, `Quit`; `RunThread`, `Ready`, `GetCommand`, `SubmitAudio`, `GetChunk`, `FlushChunk` |
| Outputs (`output/MultipleOutputs.cxx`, `Control.cxx`, `Thread.cxx`, `Source.cxx`) | one pipe; per output a command, flags, the chunk it is at, its device | `Open`, `Play`, `CheckPipe`, `Pause`, `Drain`, `Cancel`, `Release`, `Close`, enable and disable; `Task` |
| Everything else (plugins, codecs, mixers, protocol, network, configuration) | data, devices, text | not modelled, see section 7 |

### 1.2 How they interact

The main thread runs the event loop. A command, the main program or the inotify
queue calls `UpdateService::Enqueue()` there; it starts a thread that runs
`Task()`: `UpdateWalk::Walk()`, then `SimpleDatabase::Save()`. The thread talks
back through two `InjectEvent`s: the remove service announces deleted songs, and
`UpdateService::defer` says that the job is done. `RunDeferred()` joins the
thread and starts the next job. Mounts are created and destroyed by commands in
the main thread while the update thread may be working on them. `DbMain` polls
`GetId()` and breaks the loop when it is 0, then saves once more.

Playback is another set of threads. The main thread keeps the playlist and sends
the player commands, each of which it waits for. The player thread starts the
decoder thread for the current song and, when that is decoded, for the queued one;
player, decoder and main thread share one mutex. Chunks go from the decoder through
a pipe to the player, from there through another pipe to the output threads, and
back to the buffer when every output has played them. Each output thread has a
mutex of its own. The player reports song borders, errors and the end with an
event to the main thread, where `SyncWithPlayer()` catches up. An update that
found new tags reaches the playlist through `DatabaseModified()`, a deleted song
through `StaleSong()`.

### 1.3 What is hard

* interleavings: an event injected while the loop decides to sleep; commands
  against the running update thread; two events whose order matters;
* shared state with a life time: the walk owns the remove list, a mount owns the
  objects jobs point to;
* a music directory that changes between listing, `stat()` and scan, in any
  directory that has an open frame;
* incremental decisions from stale records: `mtime`, marks, channel mode;
* partial failure: `pthread_create`, unreadable files, directories and archives,
  `Save()`, each syscall of `Commit()`;
* crashes during `Commit()` and restart from what is at the path;
* bounded queues and wrapping ids;
* a mutex that is dropped in the middle of a loop, and a wait after it: whatever
  was tested before is stale;
* two songs in the pipes at once, with seeks, cancels and errors at the border;
* pointers into a pipe shared by threads at different places of it;
* three numberings of the same songs (position, order, id) kept in step by
  arithmetic, and a copy of two of them in the player.

`PROJECT.json` lists these hazards at their lines. Hazards of code that is not
modelled: a CUE sheet's TRACK lines with indentation are not counted
(`CueValidator.cxx:95`); dangling CUE tracks do not return with their target when
the sheet is unmodified (`db/update/Playlist.cxx:154`); `DeleteSong()` drops the
database lock inside an iteration (`Editor.cxx:22`); the reader of a disc image is
shared by the update thread and the decoder thread without a mutex
(`SacdIsoDecoderPlugin.cxx:65`); `mtime` is read back with `atoi()`
(`SongSave.cxx:120`).

### 1.4 What makes each part correct

* event loop: events run once, in order, and none is slept through;
* service: jobs run one at a time and in order; nothing refers to a destroyed
  mount; `GetId() == 0` means *done*; no removal is left unannounced;
* walk: after an undisturbed update the database is what a full scan would find,
  whatever happened before; it is a tree at every step; tracks do not dangle;
  it ends; what was added is saved;
* file: `Save()` returned means the complete new version is visible; failure or
  crash leaves the old or the new version;
* inotify: every change is seen by some update that begins after it;
* player and decoder: what is heard is the current song from where it was started
  or sought to, also when the decoder fails; every command is answered; chunks
  return to the buffer;
* outputs: no chunk is freed while an output refers to it, none is skipped, no
  signal is lost;
* queue and playlist: positions, order, ids and versions are consistent; the
  playlist agrees with the player on the current and the queued song; a client
  that follows the versions misses nothing; a restart goes on with the same song.

## 2. Modules

| Module | Models | Uses |
| --- | --- | --- |
| `InjectQueue` | list operations, and the abstract promise of `InjectEvent` | |
| `EventLoop` | `EventLoop::Run()` and the threads that inject | implements `InjectQueue` |
| `UpdateJobs` | abstract promise of the update service: a FIFO of jobs | |
| `UpdateService` | service, queue, update thread, remove service, mounts | `InjectQueue` as the interface of the loop; implements `UpdateJobs` |
| `UpdateWalk` | the walk, the tree, the filters, when it is saved | |
| `MCUpdateWalk` | two small music directories | `UpdateWalk` |
| `DatabaseFile` | `Save()`, `FileOutputStream`, `Load()`, crashes | |
| `InotifyQueue` | the queue between inotify and the service | |
| `MCInotifyQueue` | watched directories | `InotifyQueue` |
| `Player` | main thread, player thread, decoder thread | |
| `MCPlayer` | two songs | `Player` |
| `Outputs` | the player's calls and the output threads | |
| `MCOutputs` | two outputs | `Outputs` |
| `PlayQueue` | the queue as operators from queue to queue(s) | |
| `Playlist` | the playlist, its commands, the player as its methods promise it, restart | `PlayQueue` |
| `MCPlaylist` | songs and state files | `Playlist` |
| `ListLemmas` | lemmas about sequences, permutations, counting and recursive functions | |
| `EventLoopProofs`, `UpdateServiceProofs`, `DatabaseFileProofs`, `InotifyQueueProofs`, `UpdateWalkProofs`, `PlaylistProofs`, `OutputsProofs` | TLAPS proofs about the module each is named after, `PlaylistProofs` about `PlayQueue` too | that module, most of them `ListLemmas` |

Definitions marked *Faulty variant* are plausible mistakes (a dropped guard, a
swapped order). No specification uses them; each stands for the change under
which one property has to fail.

### 2.1 State and actions against the code

**EventLoop.** One step per critical section of `EventLoop::mutex`. `pc` is where
`Run()` is: `top` (the `while` head, `again = false`), `callbacks` (timers,
deferred, idle), `inject` (inside `HandleInject()`, with the mutex), `call` (an
event's callback, mutex dropped), `wait`, `ready`/`woken`/`wokencall` (the
dispatch of the wake descriptor and `OnWake()`), `sockets`, `done`. `tpc[t]`
is `write` between the unlock in `AddInject()` or `InjectBreak()` and
`wake_fd.Write()`. A callback may schedule, cancel or add a timer; timer and
socket callbacks may call `Break()` (no `InjectEvent` of the program does).

**UpdateService.** `walk` is the `unique_ptr` with the walk's cancel flag,
`thread` combines `update_thread` and the position in `Task()`, `main` the
position of the main thread in a command or callback. `CancelMount()` takes
several steps because it joins; `Remove()` takes two because it unlocks before
it schedules. `StartThread()` may fail where `ThreadMayFail` is set; in
`RunDeferred()`, which is `noexcept`, that ends the process (`aborted`). A mount
stands for the pair of storage and database. `removed` and `announced` are
ghosts.

**UpdateWalk.** A node is a path; `Kind` is what its suffix stands for; `fs` says
what is there now. `db` has the three lists of the tree: songs, directories
(real, container, archive, playlist) and playlists. `stack` holds the active
`UpdateDirectory()` calls with the listing still to read, the exclude list
loaded when the directory was entered, and the entry whose `stat()` was taken
but which is not scanned yet. `UpdateUri()` is a frame whose only entry is the
URI (`single`): it asks no pattern, does not notice `Cancel()` and ends without a
purge; the directories above the URI are added in its first step. The whole of `UpdateRegularFile()` is one step: it
only reads that one file. Abstractions: a time stamp is the number of the change
that made it; the listing is the one at the time of opening; the sub-directories
of an archive are one set of tracks; a CUE sheet is its track count and the set
of songs it names. `mode` is fixed per process. `Save()` is atomic here (its
steps are `DatabaseFile`'s); it includes `PruneEmpty()`, which also changes the
tree in memory. `Directory::Sort()` changes the order of lists only, which are
sets here. `reader` is the disc image that the SACD or DVD-Audio plugin (`Plugin`) has
open: the path, what it held when it was opened, and the mtime then. A scan or playing
a track (`PlayTrack`, in the daemon) goes through `container_update()`, which keeps the
reader if the path is the same; `stale` is a ghost of the containers that were scanned
through the reader of an older version. One of the two plugins is enabled at a time, and a
call of `container_update()` is one step: the data race on the reader is left out.

**DatabaseFile.** `path` and `tmp` are a version of the database and whether a
part of it is missing; `stream` is the `FileOutputStream`. One step per system
call that changes what a crash would leave. `Open` includes the error path of
`SimpleDatabase::Open()`: when `Load()` throws, an empty database; a failing
`Check()` ends the process before it changed anything and has no step.

**InotifyQueue.** A URI is a sequence of names. `Enqueue` is one scan of the list
that stops at the first entry that contains the new URI. `OnDelay` is the whole
loop: accepted entries, entries that fail for another reason (`failing`), and the
stop when the update queue is full. The music directory is the empty sequence and is
always watched (`InotifyUpdate.cxx:215`), and so are the parents of a watched directory.
`known` has the directories that are in the database: `RunUpdate` sees what is at and
below its URI (`Seen`) only if the parents of the URI are known or can be made (`Made`).
A parent that is not known is looked up in the music directory by its bare name
(`Walk.cxx:446`); below the first level that finds nothing, or a namesake (`Found`).
Directories appear, but do not vanish from the database.

**Player.** `pc`, `pl`, `dc` and `dt` are `PlayerControl`, `Player`, `DecoderControl`
and `DecoderBridge` with the places of their threads (`at`). A step of the main or
the decoder thread is a critical section; the player thread keeps the mutex from
step to step, and `mutex` is free where it unlocks or waits. `asleep` has the
threads that wait on their condition without a signal, so a signal that comes
before the wait is lost, as in the code. `WaitForDecoder()`, `DecoderControl::Seek()`,
`Stop()` and `Quit()` are nested waits: `then` is where the player goes on. The
outputs are a pipe and how much of it was played; `ChunksConsumed` is their signal.
A decoder plugin may open a song or not, submit a chunk, seek (if the song is
`Seekable`), or end; for a song in `Broken`, opening, reading and converting may fail
at any time. Music is counted in chunks, times are chunk numbers in the file. A song is
the part of its file from `Start` (not 0 for a track of a CUE sheet) to `Length`, so
decoding it begins with an initial seek. If that fails, the song fails if the seek is
`essential`, else (a queued song) it is decoded from the beginning of the file. An error
ends the plugin and with it a pending `SEEK`, which is cleared without `seek_error`.
`heard` is a ghost: what the player has to hear next of the current song and of the one
the decoder works on, where the decoder last started or moved to (`from`, set by
`Jump`), and whether that is not what it was told (`lost`). Left out: replay gain, tags,
MixRamp, the elapsed time, `STOP` (never sent).

**Outputs.** An operation of `MultipleOutputs` is a list of steps (`todo`), one per
output it locks; output threads run between them. `ao[a]` is the
`AudioOutputControl` with its source and its shared pipe consumer; chunks are
numbers, a chunk in the pipe is allocated, any other was freed. The pointers to the
pipe know whether that pipe still exists (`live`, `freed`). `in_playback_loop`,
`woken_for_play`, `allow_play` and the two interruption flags are the code's. Opening,
playing, pausing and filtering may fail (`MaxFaults`). `filter` is the source's filter:
`open`, `stale` (flushed by `Drain()`, or of another format: `Open()` has to open it
again) or `null`. When an open device is opened again and the filter cannot be, the
device stays open with the failure noted, as in `InternalOpen()`; when the device or its
converter cannot be configured anew, it is closed. Formats are not told apart: with an
empty pipe, `MultipleOutputs::Open()` may bring a new one to each output. Device calls run
without the mutex.

**PlayQueue, Playlist.** A queue is a record; a method is an operator on it, and gives a
set of queues where it draws random numbers. Priorities keep their rules (played
order by priority, reset when a song has been played). The playlist runs in the
main thread alone, so a command is one action, but each `PlayerControl` method it
calls may find that the player has moved on: an operator maps a *world* (queue,
playlist, player, exception) to the worlds it may lead to. `list.fine` turns false
where an `assert()` would fail. `Init` also has a queue close to the wrap-around of
versions and ids. `Restart` is the end of the process and the next start: save,
load, shuffle, `playlist_state_restore()`; every saved song still exists (a song that
`queue_load_song()` drops shifts the positions behind it). `DatabaseModified` stands also for the
overload of `TagModified()` that updates every copy of a stream.

## 3. Runs

`pass` runs:

| Run | Bounds | Shows |
| --- | --- | --- |
| `event_loop` | 2 events, 2 threads | `NoLostWakeup`, `InjectedBreakStops`, `ImplementsInjectQueue` |
| `update_service` | 2 mounts, 2 songs, queue 2, ids 1..3, 4 jobs | `LiveTargets`, `IdleMeansDone`, `BusyMeansUpdating`, `RemovalsAnnounced`, `ImplementsUpdateJobs` |
| `walk_album` | a directory with a song, a container; 4 changes, 2 updates of everything or of one URI, cancel, `.mpdignore`, daemon that plays tracks, SACD plugin | `WalkComplete`, `AdditionsAreSaved`, `WalkTerminates`, the tree invariant in `TypeOK` |
| `walk_sheet` | a song, a file that is a song or a container, a CUE sheet, an archive; 4 changes, 2 processes, full or incremental, `Save()` may fail, DVD-Audio plugin | `WalkComplete`, `NoDanglingTracks`, `ExitMeansSaved` |
| `file_save` | `O_TMPFILE`, `path.tmp` or neither, compressed or not; 3 versions, 2 crashes, every call may fail | `SavedMeansVisible`, `RolledBack`, `OldOrNew`, `NeverTorn`, `DamageIsDetected` |
| `inotify` | the music directory and 6 directories in three levels below it, any of them unknown at first; room for 1 update, 3 changes | `NoChangeForgotten`, `QueueIsAntichain`, `ChangesAreUpdated` |
| `player` | a seekable song that starts at chunk 1 of a file of 2, a song of 1 chunk that cannot be sought; both may fail to open or to decode; buffer 3, outputs' pipe 1, cross-fade 1; outputs may fail; 3 commands | `Sound`, `PlayedInOrder`, `CommandsCompleteOrMissed`, `PlaybackEnds` |
| `outputs` | 2 outputs, one `always_on`, one with `Enable()`; 2 chunks, 3 operations, 1 fault | `Sound`, `NoDanglingChunk`, `EveryChunkPlayed`, `NoSignalLost`, `ReadsLivePipeOrAlwaysOn` |
| `playlist` | 3 songs, queue 3, ids 1..5, versions below 9, priorities 0 and 1, 3 commands and restarts | `Sound`, `QueueConsistent`, `InStep`, `WillResume`, `ChangesAnnounced`, `RestartGoesOn` |

`Sound` is the type invariant together with the assertions of the code.
`EventLoop`, `DatabaseFile` and `InotifyQueue` have a `TypeOK` that no run names: it is
a part of their inductive invariants and proved with them (section 5).

`violation` runs show where the code and what the repository says about it part:

| Run | What TLC finds |
| --- | --- |
| `inotify_root` | A change directly in the music directory, while a subdirectory is queued: `path_in()` tests the wrong argument for emptiness (`InotifyQueue.cxx:60`), takes the music directory for a part of that subdirectory, and the change is never updated |
| `player_signal` | A command and the outputs' last signal arrive while `UnlockCheckOutputs()` has dropped the mutex (`player/Thread.cxx:1169`); the player then sleeps for ever, and the main thread with it |
| `playlist_move` | `move 0:2 1` in a queue of three while the third song plays: `current` stays at 2, where another song is now (`PlaylistEdit.cxx:323`) |

More disagreements, each with the configuration that shows it
(`tlc -config <cfg> <module>`):

| Configuration | Property | What TLC finds |
| --- | --- | --- |
| `WalkModes.cfg`, `MCUpdateWalk` | `ChannelModeHonoured` | `--update` in another channel mode filters only the files whose mtime changed (`UpdateSong.cxx:76`) and keeps the rest; the repository's `README.md:46` says: "A multichannel database *will not* contain stereo files." |
| `WalkCancel.cfg`, `MCUpdateWalk` | `OnlyDeletedIsPurged` | a cancelled walk still purges, and so deletes what it has not visited (`Walk.cxx:385`); the comments at `Walk.cxx:101` and `:111` say "the directory was deleted", "the song file was deleted" |
| `WalkLists.cfg`, `MCUpdateWalk` | `OnlyDisappearedListsGo` | `UpdateOrInsert()` does not mark an unchanged playlist (`PlaylistVector.cxx:26`): every second update drops it; `PlaylistInfo.hxx:28` says of the mark: "used by the database update to check whether an item has disappeared" |
| `FileCommit.cfg`, `DatabaseFile` | `ThrowsOnlyOnError` | after the fallback to the plain path, `Commit()` renames a `path.tmp` that does not exist and throws (`FileOutputStream.cxx:204`) |
| `UpdateServiceFail.cfg`, `UpdateService` | `BusyMeansUpdating` | `StartThread()` sets `walk` and `next` before `Thread::Start()` (`Service.cxx:134-138`): when that throws, `GetId()` stays non-zero and every later job waits for ever; `Service.hxx:60` says: "Returns a non-zero job id when we are currently updating the database" |
| `OutputsReopen.cfg`, `MCOutputs` | `NoFailedDeviceIsOpen` | an open output is opened again after `Drain()` and its filter cannot be opened (`output/Thread.cxx:133`): the device is open with `fail_timer` set, which the assertions at `output/Control.cxx:291`, `:416` and `:428` deny; `should_reopen` was reset, so it is not tried again, and the source has no filter |
| `Outputs.cfg` with the invariant `ReadsLivePipe` | | an `always_on` output is paused by `Release()`; a `Cancel()` before the next `Open()` lets it play from the freed pipe (`output/Thread.cxx:508`) |
| `Outputs.cfg` with the invariant `EveryCommandHandled` | | when the filter fails at the first chunk, the thread sleeps (`output/Thread.cxx:459`) without testing the command that came while it closed the device: it hangs, and so does the player |
| `Player.cfg` with the invariant `SeekHonoured` | | a seek to 0 while the decoder starts at a later position is lost: `CheckDecoderStartup()` tests `pending_seek > 0` (`player/Thread.cxx:606`); a seek that is pending when the decoder fails is cleared without `seek_error` (`decoder/Thread.cxx:629`), and the chunks decoded before it are played; a late seek restarts a queued song, whose initial seek may fail in silence (`Bridge.cxx:355`) |

Seen while modelling, and the reason why some properties are stated the way they
are:

* `BusyMeansUpdating` needs a `Thread::Start()` that does not throw, and
  `update_service` is run without such failures (`UpdateServiceFail.cfg`); the theorems
  about the other invariants include them.
* `AdditionsAreSaved` speaks of additions: a subdirectory that cannot be opened is
  deleted without setting `modified` (`Walk.cxx:218`), so a deletion may not be
  saved with its own update.
* `WalkComplete` is weaker for an update of one URI (`Covered`, `Leftover`):
  `UpdateUri()` asks no pattern for the URI itself or a directory above it, so an
  ignored song is added; it does not purge, so a file that cannot be read any more
  keeps its entry, the song of a file that became a container stays, and a directory
  that became a loop too; `DirectoryMakeUriParentChecked()` passes only the last name
  to `GetInfo()` (`Walk.cxx:446`), so an unknown directory below another unknown one
  is looked for in the music directory itself, and the update does nothing.
* `WalkComplete` excepts, in a daemon, a container that was replaced while the plugin
  had it open (`Outdated`): `container_update()` compares paths only
  (`SacdIsoDecoderPlugin.cxx:90`, `DvdaIsoDecoderPlugin.cxx:85`), so the container gets the
  old tracks with the new mtime and keeps them until it changes again. `mpd-dbcreate`
  scans each file once per process; there `WalkComplete` says that it never happens.
* `NoChangeForgotten` and `ChangesAreUpdated` except the music directory itself
  (`inotify_root`) and a directory one of whose parents is unknown and cannot be found
  (`Missing`): `UpdateUri()` then returns without doing anything (`Walk.cxx:484-486`).
* `PlayedInOrder` asks of a seek taken for done that the decoder has executed it, unless
  it has failed since, or `heard.lost`: the two ways of `SeekHonoured` above. What is
  heard is in order in these cases, too.
* The assertion that a failed device is not open, a part of `Sound` of `Outputs`, excepts an
  output whose filter could not be opened again (`OutputsReopen.cfg`).
* `OldOrNew` is about `path.tmp`: `Commit()` of an `O_TMPFILE` unlinks the old file
  before it links the new one (`FileOutputStream.cxx:281`), and a crash in
  between leaves none; `NeverTorn` holds there all the same.
* `WalkComplete` is checked with archives for `mpd-dbcreate` only: in a daemon, the
  directory of an archive that could not be opened stays with the file's mtime
  (`Archive.cxx:127`) and counts as unmodified later. `Save()` prunes it, if one
  follows.
* `CommandsCompleteOrMissed` and `PlaybackEnds` except `MissedSignal`: the lost signal
  of `player_signal`, and a second one in `DecoderBridge::GetChunk()` (`Bridge.cxx:120`),
  which finds the buffer full without the mutex and then waits without testing it
  again.
* `Cautious` in `Playlist` keeps clients away from three situations in which the code
  loses the current song: moving more than one song (`playlist_move`); switching
  consume on while the only song is queued again by repeat, because `SetConsume()`
  does not requeue (`Playlist.cxx:264`): the song that starts is deleted, and
  `SongStarted()` fails its assertion; adding a song in random mode when the queued
  song comes before the current one, because the new one may be swapped with the
  current (`PlaylistEdit.cxx:88`).
* By reading only: consume with random and repeat removes another song than the one
  played (`PlaylistControl.cxx:155`); `SetSongIdRange()` compares a position with order
  numbers, and does not requeue when the range is invalid; after a restart in
  random mode without playing, a position is assigned to `current`
  (`PlaylistState.cxx:193`); in consume mode the playlist gives up on errors early,
  because the error count is compared with a length that shrinks;
  `dc.seekable` is read before it is set (`decoder/Control.hxx:98`); the error of a
  decoder that a late seek has restarted is not reported.

### Why the bounds are enough

* Events, threads: two threads are needed for the two writers of the wake
  descriptor to overlap, two events for an order.
* Service: two mounts make "another mount's job" possible; two waiting jobs fill
  the queue; four jobs wrap the ids (1, 2, 3, 1); two songs are needed for a
  removal that does *not* schedule an event.
* Walk: an entry that survives from one update to the next needs two walks; a
  change before, between and under them needs three, four leave one more to
  interfere. Every kind of entry and file occurs in one of the two directories.
* File: a second crash hits the recovery from the first; three saves put an old,
  a lost and a new version apart.
* Inotify: the music directory, a chain of three nested directories and others beside
  them give every relation between a queued and a new URI; one has an unknown
  parent without, one with a namesake in the music directory; room for one update
  forces the retry.
* Player: three commands are a song, its successor and one that interferes, or play,
  seek and seek again. A song that starts in the middle of its file needs an initial seek,
  tells a failed one (position 0) from its start and a seek from both; a buffer of
  three can be full with both songs in it, an outputs' pipe of one makes the player
  wait for the outputs. Cross-fading by one chunk mixes the last chunk of a song
  with the first of the next.
* Outputs: two outputs can be at different chunks of the pipe; two chunks make a tail
  and a successor; three operations are for example open, release, cancel.
* Playlist: three songs are the least with a song before and behind the current one,
  `<<a, b, a>>` has a song twice; three commands are a mode or start, an edit and one
  more. The player's own steps are not bounded.

`CHECK_DEADLOCK FALSE` is used for the walk, inotify, player, outputs and playlist runs:
when the bounded changes and commands are used up, these systems have nothing to do.
`DatabaseFile` can always save again, the service's end is a state of its own, and the event loop's stopped state is kept
alive by the injecting threads.

## 4. Fairness

* `EventLoop`: weak fairness of the loop's own steps, and of `wake_fd.Write()` for
  a thread that has left the mutex. Strong fairness of leaving the callbacks: an
  "idle" event restarts the loop before injected events are looked at, so they
  must run out; each is invoked once, and none schedules itself for ever. `Wait()` returning without the descriptor
  carries none: liveness must not rest on a timer or another socket. A callback
  that schedules itself for ever is allowed; `InjectedBreakStops` is therefore
  conditional on the loop reaching `Wait()` again and again.
* `UpdateService`: weak fairness of the main thread's and the update thread's
  steps. Strong fairness of `HandleInject`: the loop serves injected events
  between commands, which is the fairness of `InjectQueue` that `EventLoop`
  is shown to provide; it is strong because a command takes several steps during
  which the event is not enabled. Commands carry none.
* `UpdateWalk`: weak fairness of the walk: the update thread is scheduled.
* `InotifyQueue`: weak fairness of reading events, of the timer and of updates.
* `Player`: weak fairness of the player thread, of the decoder thread, of a main thread
  that waits for a command, and of the outputs, which play at the device's pace. A
  mutex or a signal is not assumed beyond that: a thread in `asleep` is disabled until
  it is signalled. Commands carry no fairness.
* `Outputs` and `Playlist` state safety only.

## 5. Proofs

What TLC checks on small instances, TLAPS proves for every value of the constants:
any number of events, threads, mounts, jobs, saves, crashes, directories, songs,
commands, outputs, chunks and device failures, and any tree of paths that changes
under any number of walks. `Init` and `Next` are the same definitions; no proof changes or weakens them.

| Module | Theorem | Statement |
| --- | --- | --- |
| `EventLoopProofs` | `TypeCorrect`, `WakeupsAreNotLost` | `Spec => []TypeOK`, `Spec => []NoLostWakeup` |
| | `LoopSimulatesQueue` | `Spec => IQ!Init /\ [][IQ!Next]_<<inject, quit>>` |
| `UpdateServiceProofs` | `TypeCorrect`, `TargetsStayAlive`, `CompletionTestIsSound`, `NoRemovalIsLost` | `TypeOK`, `LiveTargets`, `IdleMeansDone`, `RemovalsAnnounced` always hold |
| | `BusyIsNotStuck` | `~ThreadMayFail => (Spec => []BusyMeansUpdating)` |
| | `ServiceSimulatesJobs` | every step of the service is a step of `UpdateJobs` or a stutter |
| `DatabaseFileProofs` | `TypeCorrect`, `SaveIsDurable`, `FailureRollsBack`, `CrashLeavesOldOrNew`, `PathIsNeverTorn`, `LoadDetectsDamage` | `TypeOK`, `SavedMeansVisible`, `RolledBack`, `OldOrNew`, `NeverTorn`, `DamageIsDetected` always hold |
| `InotifyQueueProofs` | `TypeCorrect`, `NothingTwice`, `ChangesAreNotForgotten` | `TypeOK`, `QueueIsAntichain`, `NoChangeForgotten` always hold |
| `UpdateWalkProofs` | `Types`, `SheetsAreWhole`, `ExitsSaved` | `TypeOK`, `NoDanglingTracks`, `ExitMeansSaved` always hold |
| | `AdditionsReachTheFile` | `Spec => []AdditionsAreSaved`, given `~SaveMayFail` and `OneShot \/ NoSheets` |
| | `WalksAreComplete` | `Spec => []WalkComplete`, given `OneShot` and `OneMode` |
| `PlaylistProofs` | `TypeCorrect`, `QueueStaysConsistent`, `PlaybackResumes` | `TypeOK`, `QueueConsistent`, `WillResume` always hold |
| | `StaysInStep`, `AssertionsNeverFail` | `Cautious => (Spec => []InStep)`, `Cautious => (Spec => []Sound)` |
| `OutputsProofs` | `Invariance` | `Spec => []IInv`, the inductive invariant |
| | `SoundAlways`, `NoDanglingChunkAlways`, `EveryChunkPlayedAlways`, `NoSignalLostAlways`, `ReadsLivePipeAlways` | `Sound`, `NoDanglingChunk`, `EveryChunkPlayed`, `NoSignalLost`, `ReadsLivePipeOrAlwaysOn` always hold |

The first half of `PlaylistProofs` is about the queue alone: every method of it
(append, delete, move, swap, shuffle, priorities, modes, versions, load) takes a well
formed queue to a well formed queue, whatever the random numbers are. The second half
follows the songs through the same methods.

### 5.1 Assumptions

They are the named `ASSUME`s of the models, which TLC evaluates on every run:
sizes are natural numbers, there is at least one id (`ServiceAssumption`),
there are more ids than songs (`PlayQueueAssumption`; `IdTable` has four times as
many), there is at least one output and no output is listed twice
(`OutputsAssumption`; `MultipleOutputs::Configure()` sees to both), the songs of a
state file fit into the queue, the null pointer is no song, and `MaxVersion > 3`
(`PlaylistAssumption`; `MaxVersion` is `2^31 - 1` in the code, and `Init` has a queue
that is three versions short of it). `UpdateWalk` assumes a tree (`TreeAssumption`: the
root is no node, every node has a parent, and every non-empty set of nodes has one
whose parent is outside it; the tree may be infinite), that what can be at a path is an
entry (`ContentsAssumption`) and natural bounds. `InotifyQueue` assumes that the music
directory is watched, and with a directory its parents. Five theorems have a hypothesis of
their own:

* `BusyIsNotStuck` needs a `Thread::Start()` that does not throw (section 3);
* `AdditionsReachTheFile` needs a `Save()` that does not throw, and either
  mpd-dbcreate's one walk per process or a tree without CUE sheets. The second is no convenience:
  when the daemon updates a CUE sheet by its path (`UpdateUri()`) after its folder was
  pruned, the virtual directory is made anew while `UpdateOrInsert()` of the list
  returns false, so `modified` stays false and the tracks are not saved until something
  else is (`Playlist.cxx:60-70`, `:133`). TLC finds that behaviour in an instance
  with a CUE sheet and `OneShot = FALSE`; `Walk.hxx:57` says "Returns true if the
  database was modified.";
* `WalksAreComplete` is about mpd-dbcreate (`OneShot`) run again and again with one
  channel mode (`OneMode`). With several modes it is false, as `WalkModes.cfg` shows:
  only the mtime decides what is scanned again (`UpdateSong.cxx:76`). Cancelled walks,
  failed saves, restarts, walks with `walk_discard`, unreadable and ignored files, and
  changes between stat() and scan are all in its scope. For the daemon, whose
  `UpdateUri()` walks a part of the tree, the property stays with `walk_album`;
* `StaysInStep` and `AssertionsNeverFail` need `Cautious`: no client moves more than one
  song at once, switches consume on while the current song is queued after itself, or adds
  a song in random mode while the queued song comes before the current one (section
  3). Without it both are false. With it they hold for every other command and every
  interleaving with the player thread, so the proof shows that no fourth situation
  makes the playlist lose its current song.

`QueueStaysConsistent` and `PlaybackResumes` do not need `Cautious`: the three
situations in which the playlist loses its current song leave the queue well formed
and do not stop playback.

### 5.2 Arguments

**EventLoop.** `NoLostWakeup` is not inductive: `BusyInv` (`busy` is false exactly
in `Wait()`, so a thread that skips the descriptor skips it for a loop that will look
again) and `QuitInv` (a loop that looks at its list or waits has not been broken) are
what it needs. The refinement is by cases on the steps that change the list.

**UpdateService.** None of the safety invariants is inductive. `Inv` adds:

* `InjectShape`: the pending events are one of four lists; "Remove" is never
  behind "Update". This is what the whole argument about removals rests on: the
  update thread schedules "Update" last, the list is FIFO, so the announcement
  runs before `RunDeferred()` destroys the list;
* `JobInv`: how `walk`, `next`, `thread` and the "Update" event fit together: a
  finished thread has exactly one completion on its way, a running one none;
* `RemoveInv`: a non-empty list has exactly one announcement on its way, in the
  thread, the list of events or the main thread, and none is left when the
  completion runs;
* `MountInv`: while `CancelMount()` proceeds, first no waiting job and then no
  running thread refers to the mount that is about to go.

**DatabaseFile.** `StreamInv` ties the place in `Save()` to how the stream was opened
and how much was written; `TmpInv` says whose file `path.tmp` is, which after a crash
may be an old one; `PathInv` that the path keeps what was there before until the step
in which the new file is complete; `MemoryInv` that what is being saved is complete.

**InotifyQueue.** `Enqueue()` erases entries of the list while it scans it, so the
lemmas describe the list that remains (`Listing`): what was covered stays covered by
the entry that replaces it. `OnDelay()` hands on a prefix of the list. The inductive
form is `ChangesWait`: an unseen change below the music directory is held by an unread
event, the queue or a job. Only `RunUpdate` can take a holder away without seeing the
change, and then a parent of its URI, hence of the changed directory, is missing. That
parent becomes known only by an update that sees it, which sees all below it as well.

**UpdateWalk.** `Ancestors` is a recursive function of the path; `TreeAssumption` gives
its equation (`Above`) without an induction theorem. The steps of the walk are
compositions of operators on databases, so there is one lemma per operator: where it
changes the database (`Changed`, `Outside`, `Leaf`) and that it takes a `Proper`
database, one whose objects lie in directories it has, to another.

* `Typed` adds to `TypeOK` that the stack is a path of the tree and that the directory
  of every active call is still in the database (`Frames`): what `Purge()` and
  `PruneEmpty()` remove is never a directory that a caller is in.
* `Sheets`: no track dangles between walks, in memory and in the file from which the
  next process starts.
* `Announced`: songs and tracks that the file lacks are announced by `modified`
  (`Contained` compares two databases).
* `History` is about the past of a walk. `Honest`: a record with the mtime its
  file has now is what a scan now would find. Without this, the test of the mtime would keep
  what is wrong; it holds because a file that changes between stat() and scan is recorded with
  the older mtime (`Stamped`). `RealParents`: only a real directory has something in it.
  `Full`: no archive is saved without tracks. An archive that could not be
  opened is left empty with the new mtime; only the pruning in `Save()` makes the next
  walk try again.
* `Settled` is about a walk that nothing interferes with. The entries of every
  active call are in one of two states: `Fallow`, not marked and still ahead, or `Done`,
  marked if and only if a full scan would find it, and right below. `EndDirectory`
  turns one into the other: purging what is not marked makes the `Done` entries `Right`
  (`EndedIsRight`), and thereby the directory a `Done` entry of its parent
  (`EndedIsDone`). With an empty stack every node is `Right`, which is `WalkComplete`.
* `ReadOnce`: mpd-dbcreate never scans through an old reader. No frame reads an entry
  twice (`Once`), and no frame will come again to the container that is open or to a
  directory above it (`Passed`), so the path that `container_update()` is given is never the
  one it has open.

**PlayQueue, Playlist.** `Good(q)` is the type of the queue with `OrderOK` (the order
is a permutation of the positions) and `TableOK` (ids and positions lead to each
other). `Inv` adds that `current`, and while playing `queued`, are in the queue, and
that a player that has stopped while the playlist is playing has an event on its way.
A command is a composition of operators on worlds, so there is one lemma per operator
instead of one per action: from a `Whole` world it leads to `Whole` worlds. In the
middle of `DeleteRange()` and of a consumed song's deletion `queued` may point behind
the end of the queue until `UpdateQueuedSong()` has run; these operators lead through
`Half` worlds, in which only that may be wrong. `Beside` and `Near` say what of the
world an operator leaves alone.

`InStep` compares the player's copies of songs with items of a queue that is being
rearranged, and the player goes on meanwhile. What is inductive is `Attuned`:

* `Tuned(q, l, p, prev)`: the player was given the current song and then the song with
  the id `prev`, in this order, and may have gone on to it (`InTune`, `Follows`). It
  speaks of an id, because in the middle of a command the queued song may have moved
  or be gone: an edit only has to keep ids with their songs (`Descends`) and find the
  current song again. `UpdateQueuedSong(prev)` then turns `Tuned` for the old id into `Tuned`
  for the song that is queued now;
* `Calm`: outside random mode the order is that of the positions (`Straight`), which
  `PlayPosition()`, `SwapPositions()` and `MoveRange()` rely on when they use a position
  as an order number; a player that
  has stopped has no next song (`Silent`), so that the assertion of
  `LockEnqueueSong()` holds after a cancellation that came too late; and no assertion
  has failed yet;
* `NotItself`: in consume mode, a current song that is queued after itself is not the
  last one of the order; `QueuedSongStarted()` deletes that song and then needs another.

`Onward` says what the player thread may do by itself, and that `InTune` survives it;
every method of `PlayerControl` begins with such steps. As before there is one lemma per
operator (`...Synced`), and one per action (`...InTouch`).

**Outputs.** The five properties are consequences of one invariant, `IInv`. An
operation of the player is half done most of the time, so the invariant is about what
is left of it, as a set of steps `S` with the next one `F`:

* `Sorted` and `Program`: the steps belong to one operation and come in its order,
  written as ranks, so that nothing has to be said about positions in the list;
* `Expected`: a command that is pending was sent by this operation, and the step that
  waits for it is still ahead. This is why no second command overwrites the first;
* `Local`: what the place of an output's thread says of its flags, and that an open
  device has failed only if its filter is `null`; `Data`: the chunks
  an output refers to against the pipe, which always is the interval of the last
  chunks pushed (`PipeInv`);
* `Link`: an output that may not play will be allowed to before the operation ends,
  and one that was interrupted has a command on its way;
* `Closing`, `Clearing`, `Pushing`, `Shifting`: how far an operation has come with an
  output before it frees, empties, fills or shifts the pipe. `Shifting` is the core of
  the proof that no chunk dangles: an output that has said it consumed the first
  chunk can only move forward while the others are asked;
* `Sleeper`: a thread that sleeps has neither a command nor a chunk, or the player is
  just about to signal it (`woken_for_play` and `in_playback_loop` included);
* `Killed`: `KILL` is sent after the player has ended, so that between two operations
  no command is pending.

`Fine` collects them for one output as a predicate of its record, the set of
steps and the pipe's length, without variables. A thread changes one record and leaves the steps alone
(`ThreadKeeps`); a step of the player changes one record and drops or replaces the next
step, which the other outputs do not notice (`OthersRest`, `OthersSwap`).

**Loops.** Loading a state file, `SetPriorityRange()`, `DeleteRange()` and `StaleSong()`
loop over positions; they are recursive functions in the model. The library's induction theorems have an operator as
a parameter and cannot be used; `ListLemmas` derives, from the least element of a
non-empty set of numbers (`LeastNatural`), induction on sets of numbers (`UpTo`,
`DownTo`) and what such a function is at each number (`RecursionUp`, `RecursionDown`).

### 5.3 Only model-checked

* Liveness, and with it the fairness of both refinements: out of the proof
  system's reach, like ENABLED.
* `ChangesAnnounced` and `RestartGoesOn` of `Playlist`, two action properties: they compare
  the queue before and after whole commands, with the versions of every song.
* `WalkComplete` for the daemon's walks over a part of the tree, and the action property
  `OnlyDisappearedListsGo` of `UpdateWalk`.
* `Player`: `Sound` and `PlayedInOrder`. The module declares no RECURSIVE operator, so
  that proofs about it are possible.

## 6. Plan

Done: the inventory; `InjectQueue`, `EventLoop`, `UpdateJobs`, `UpdateService`,
`UpdateWalk`, `DatabaseFile`, `InotifyQueue`, `Player`, `Outputs`, `PlayQueue`,
`Playlist`; the proofs of section 5.

Next, in this order:

1. Proofs: the assertions in `Sound` of `Player`, then `ChangesAnnounced`, then
   `WalkComplete` for walks over a part of the tree.
2. Mount points inside the tree in `UpdateWalk`.
3. A module for `DbMain`: the timer, `UpdateService` and both saves composed, with
   `DatabaseFile`'s outcomes as the exit status.
4. `InotifyUpdate`'s tree of watches: directories that appear, move or vanish
   while their events are unread.
5. `CompositeStorage`'s mount tree with `Directory::LookupDirectory()`.
6. The database lock: readers against the walk, and `DeleteSong()` that drops the
   lock inside an iteration.
7. Moving an output between partitions (`AddMoveFrom()`, `Steal()`).
8. Pure algorithms: counting tracks in a CUE sheet, against what the CUE parser
   accepts.

## 7. Not modelled

* Mixers, filters, encoders, PCM, replay gain: computation on samples, without a
  protocol.
* Clients, protocol, commands, partitions, stickers, network, Zeroconf, neighbors:
  parsing, answering and discovery; the commands that change state appear as the
  calls they make. Of the state file, the playlist's part.
* Decoder, archive, playlist, input, output and storage plugins, about two thirds of the
  source: file formats, libraries and devices. The walk sees whether a scan
  succeeded, its channels and tracks; the player whether a plugin opens, seeks,
  submits a chunk or fails; the outputs whether a device opens, plays and pauses. Of the
  two disc image plugins, `UpdateWalk` has the reader that stays open.
* Tags, character sets, paths, configuration, logging: data without a protocol.
* Read-only queries, proxy and UPnP databases.
* The text format of the database: `DatabaseFile` knows versions and torn files,
  `UpdateWalk` that marks are not saved and all else is.
