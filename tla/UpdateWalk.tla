----------------------------- MODULE UpdateWalk -----------------------------
(***************************************************************************)
(* UpdateWalk: how one update brings the database in line with the music   *)
(* directory (db/update/Walk.cxx, UpdateSong.cxx, Container.cxx,           *)
(* Archive.cxx, Playlist.cxx, VirtualDirectory.cxx, Editor.cxx,            *)
(* CueValidator.cxx, FilteredSongUpdate.cxx), and when the result is saved *)
(* (UpdateService::Task(), SimpleDatabase::Save(), DbMain.cxx).            *)
(*                                                                         *)
(* The tree is a fixed set of Nodes, one per path, with the class of file  *)
(* its suffix stands for.  The file system (fs, ignore) changes at any     *)
(* time, also under a running walk; the database (db) is what MPD knows    *)
(* about it, "file" what was saved of it.  UpdateDirectory() is recursive: *)
(* its frames are a stack.  A directory entry takes two steps, stat() and  *)
(* scan, so that a change may come between them as well.                   *)
(***************************************************************************)
EXTENDS Integers, Sequences, FiniteSets, Functions, TLC

CONSTANTS
  Nodes,                \* the paths below the music directory
  Root,                 \* the music directory itself
  Parent,               \* [Nodes -> Nodes \cup {Root}]
  Kind,                 \* [Nodes -> Kinds]: what a file's suffix stands for
  Contents(_),          \* the file system entries a node may have
  Modes,                \* the channel modes a process may be started with
  Plugin,               \* the plugin that scans containers
  MaxChanges,           \* bound: file system changes in a behaviour
  MaxWalks,             \* bound: updates in a behaviour
  OneShot,              \* mpd-dbcreate (one update per process) or daemon
  DiscardAllowed,       \* whether an update may be a full rescan
  CancelAllowed,        \* whether somebody calls Cancel()
  SaveMayFail,          \* whether Save() may throw
  Ignorable             \* the nodes a .mpdignore line may come to match

Kinds == {"directory", "song", "container", "archive", "cue", "ignored"}
Channels == {"stereo", "multi"}
Plugins == {"sacdiso", "dvdaiso"}

\* What can be at a path: nothing; something whose stat() fails ("broken"); a
\* symlink that is not to be followed; a directory with the inode of an
\* ancestor ("loop"); a directory; a regular file.  "access" is FALSE when it
\* cannot be opened.  "plain" is what scanning the file as one song tells,
\* "tracks" what a container or archive holds, "targets" and "count" what a
\* CUE sheet names.  Every change of contents gives a new mtime.
Entry == [type : {"absent", "broken", "symlink", "loop", "dir", "file"},
          access : BOOLEAN, mtime : 0..MaxChanges,
          plain : Channels \cup {"unknown", "bad"}, tracks : SUBSET Channels,
          targets : SUBSET Nodes, count : Nat]

\* Paths: the music directory is above all of them, every other one lies in a
\* directory, and going up from any of them comes to an end.
ASSUME TreeAssumption ==
  /\ Root \notin Nodes
  /\ Parent \in [Nodes -> Nodes \cup {Root}]
  /\ \A S \in SUBSET Nodes : S # {} => \E n \in S : Parent[n] \notin S

ASSUME BoundsAssumption == MaxChanges \in Nat /\ MaxWalks \in Nat

\* What can be at a path is an entry; the switches are switches.
ASSUME ContentsAssumption ==
  /\ Kind \in [Nodes -> Kinds]
  /\ \A n \in Nodes : Contents(n) \subseteq Entry
  /\ Ignorable \subseteq Nodes
  /\ {OneShot, DiscardAllowed, CancelAllowed, SaveMayFail} \subseteq BOOLEAN
  /\ Plugin \in Plugins

VARIABLES
  fs,                   \* [Nodes -> Entry]
  ignore,               \* the nodes a pattern in some .mpdignore matches
  db,                   \* the database in memory: songs, dirs, lists
  file,                 \* the database file (empty while "fresh")
  fresh,                \* there is no database file yet
  saved,                \* whether the last Save() succeeded
  mode,                 \* GetChannelMode()
  pc,                   \* where the process is
  walk_discard,         \* UpdateWalk::walk_discard
  stack,                \* the active calls of UpdateDirectory()
  cancel,               \* UpdateWalk::cancel
  modified,             \* UpdateWalk::modified
  reader,               \* the container the plugin has open (sacd_path, sacd_reader)
  changes, walks,       \* how many there were (for the bounds)
  undisturbed,          \* ghost: nothing interfered since the last walk began
  scope,                \* ghost: what the last walk was about, Root or one node
  stale                 \* ghost: the containers scanned through an old reader

vars == <<fs, ignore, db, file, fresh, saved, mode, pc, walk_discard, stack, cancel,
          modified, reader, changes, walks, undisturbed, scope, stale>>

----------------------------------------------------------------------------
(***************************************************************************)
(* The database tree.  It has three lists per directory, so a name can be  *)
(* in each of them: each list is a function whose domain is what it holds. *)
(***************************************************************************)

Song == [mtime : 0..MaxChanges, mark : BOOLEAN, in_playlist : BOOLEAN,
         channels : Channels \cup {"unknown"}]

\* A directory, or a file presented as one ("virtual"): its device tells
\* which, its tracks are the songs in it.
Directory == [mtime : 0..MaxChanges, mark : BOOLEAN,
              device : {"real", "container", "archive", "playlist"},
              tracks : SUBSET (Channels \cup Nodes)]

Playlist == [mtime : 0..MaxChanges, mark : BOOLEAN]

Children(d) == {n \in Nodes : Parent[n] = d}

\* The directories above a node.
Ancestors[n \in Nodes] ==
  IF Parent[n] = Root THEN {} ELSE {Parent[n]} \cup Ancestors[Parent[n]]

Subtree(S) == S \cup {n \in Nodes : Ancestors[n] \cap S # {}}

Without(f, S) == Restrict(f, DOMAIN f \ S)
With(f, n, v) == [m \in DOMAIN f \cup {n} |-> IF m = n THEN v ELSE f[m]]
Mark(f, n) == [f EXCEPT ![n].mark = TRUE]

TracksIn(d, n, device) ==
  IF n \in DOMAIN d.dirs /\ d.dirs[n].device = device THEN d.dirs[n].tracks ELSE {}

\* DatabaseEditor::DeleteSong() and LockDeleteSong().
DeleteSongs(d, S) == [d EXCEPT !.songs = Without(@, S)]

\* Faulty variant: without ClearDirectory().
DeleteDirectoriesShallow(d, S) == [d EXCEPT !.dirs = Without(@, S)]

\* DatabaseEditor::DeleteDirectory(): with everything below it.
DeleteDirectories(d, S) ==
  LET below == Subtree(S) \ S
  IN [songs |-> Without(d.songs, below),
      dirs  |-> Without(d.dirs, Subtree(S)),
      lists |-> Without(d.lists, below)]

\* DatabaseEditor::DeleteNameIn(): whatever has this name.
DeleteNameIn(d, n) ==
  LET d1 == DeleteSongs(DeleteDirectories(d, {n}), {n})
  IN [d1 EXCEPT !.lists = Without(@, {n})]

\* Directory::PruneEmpty(), bottom-up: a directory stays if it holds a song
\* or a playlist, or a directory that stays.
PruneEmpty(d) ==
  LET holds(n) == \/ d.dirs[n].tracks # {}
                  \/ \E m \in DOMAIN d.songs \cup DOMAIN d.lists : Parent[m] = n
      keep == {n \in DOMAIN d.dirs : \E m \in DOMAIN d.dirs :
                 holds(m) /\ (m = n \/ n \in Ancestors[m])}
  IN [d EXCEPT !.dirs = Restrict(@, keep)]

----------------------------------------------------------------------------
(***************************************************************************)
(* Filters.                                                                *)
(***************************************************************************)

\* ShouldFilterByChannelCount(), and the same choice in the container_scan()
\* of the SACD and DVD-Audio plugins: an unknown format is kept.
ShouldInclude(channels) ==
  \/ mode = "ALL"
  \/ channels = "unknown"
  \/ channels = (IF mode = "STEREO" THEN "stereo" ELSE "multi")

Readable(n) == fs[n].type = "file" /\ fs[n].access

\* What a scan of the file as one song finds out.
Plain(n) == IF Readable(n) THEN fs[n].plain ELSE "bad"

\* A reader stands for what the container held when it was opened.
NoReader == [path |-> Root, tracks |-> {}, mtime |-> 0]

\* The early return of container_update(): the path is the one that is open.
\* The SACD plugin takes the directory's path if the file is gone.
Kept(n) == reader.path = n /\ (Plugin = "sacdiso" => fs[n].type = "file")

\* container_update(): the reader it leaves.  One that cannot be opened, or that
\* is no disc image, leaves none.
Opened(n) ==
  IF Kept(n) THEN reader
  ELSE IF Readable(n) /\ fs[n].tracks # {}
    THEN [path |-> n, tracks |-> fs[n].tracks, mtime |-> fs[n].mtime]
    ELSE NoReader

\* DecoderPlugin::container_scan() of the SACD and DVD-Audio plugins.
ContainerScan(n) == {t \in Opened(n).tracks : ShouldInclude(t)}

\* CountTracksInCueFile(): 0 if the file cannot be read.
CountTracksInCueFile(n) == IF Readable(n) THEN fs[n].count ELSE 0

\* CountMediaFilesInDirectory(): the regular files with an audio suffix, or
\* those listed before the first entry whose stat() fails.
CountMediaFilesInDirectory(d) ==
  LET media == {n \in Children(d) : /\ Kind[n] = "song"
                                    /\ fs[n].type \in {"file", "symlink"}}
      broken == \E n \in Children(d) : fs[n].type = "broken"
  IN (IF broken THEN 0 ELSE Cardinality(media)) .. Cardinality(media)

\* ShouldIgnoreCueFile(): the CUE sheet is used only if its track count is
\* neither the number of media files nor one more (a data track).
ShouldIgnoreCueFile(n, media_files) ==
  CountTracksInCueFile(n) \in {0, media_files, media_files + 1}

----------------------------------------------------------------------------
(***************************************************************************)
(* One regular file, with the mtime from its StorageFileInfo.  Each        *)
(* operator yields the database and the modified flag after the call.      *)
(***************************************************************************)

Result(d, m) == [db |-> d, modified |-> m]

\* Faulty variant: without the comparison of mtimes.
UnmodifiedAlways(n, mtime, device) ==
  /\ n \in DOMAIN db.dirs
  /\ db.dirs[n].device = device
  /\ ~walk_discard

\* The test in MakeVirtualDirectoryIfModified() that keeps what is there.
Unmodified(n, mtime, device) ==
  /\ n \in DOMAIN db.dirs
  /\ db.dirs[n].mtime = mtime
  /\ db.dirs[n].device = device
  /\ ~walk_discard

\* The rest of it: an old directory of this name goes, a new one is made.
MakeVirtualDirectory(n, mtime, device, tracks) ==
  [DeleteDirectories(db, {n}) EXCEPT
     !.dirs = With(@, n, [mtime |-> mtime, mark |-> TRUE,
                          device |-> device, tracks |-> tracks])]

\* Faulty variant: an unmodified song is not marked.
UpdatePlainSongUnmarked(d, m, n, mtime) ==
  LET current == n \in DOMAIN d.songs /\ d.songs[n].mtime = mtime /\ ~walk_discard
      song == [mtime |-> mtime, mark |-> TRUE, channels |-> Plain(n),
               in_playlist |-> FALSE]
  IN IF ~current /\ Plain(n) # "bad" /\ ShouldInclude(Plain(n))
       THEN Result([d EXCEPT !.songs = With(@, n, song)], TRUE)
       ELSE Result(d, m)

\* Faulty variant: an addition does not count as a modification.
UpdatePlainSongSilently(d, m, n, mtime) ==
  LET song == [mtime |-> mtime, mark |-> TRUE, channels |-> Plain(n),
               in_playlist |-> FALSE]
  IN IF Plain(n) # "bad" /\ ShouldInclude(Plain(n))
       THEN Result([d EXCEPT !.songs = With(@, n, song)], m)
       ELSE Result(d, m)

\* UpdateSongFile2() after the container check: add, update, drop or keep.  A
\* song that is not recognized any more keeps its old record, unmarked.
UpdatePlainSong(d, m, n, mtime) ==
  LET known == n \in DOMAIN d.songs
      current == known /\ d.songs[n].mtime = mtime /\ ~walk_discard
      recognized == Plain(n) # "bad"
      included == recognized /\ ShouldInclude(Plain(n))
      song == [mtime |-> mtime, mark |-> TRUE, channels |-> Plain(n),
               in_playlist |-> known /\ d.songs[n].in_playlist]
  IN IF current
       THEN Result([d EXCEPT !.songs = Mark(@, n)], m)
     ELSE IF included
       THEN Result([d EXCEPT !.songs = With(@, n, song)], TRUE)
     ELSE Result(IF recognized THEN DeleteSongs(d, {n}) ELSE d, m \/ known)

\* UpdateContainerFile(): a container with tracks becomes a directory; of one
\* without, an old directory goes.
UpdateContainerFile(n, mtime) ==
  LET tracks == ContainerScan(n)
  IN IF Kind[n] # "container"
       THEN Result(db, modified)
     ELSE IF Unmodified(n, mtime, "container")
       THEN Result([db EXCEPT !.dirs = Mark(@, n)], modified)
     ELSE IF tracks # {}
       THEN Result(MakeVirtualDirectory(n, mtime, "container", tracks), TRUE)
       ELSE Result(DeleteDirectories(db, {n}), modified \/ n \in DOMAIN db.dirs)

\* What UpdateContainerFile() returns: the file needs no more attention.
IsContainer(n, mtime) ==
  /\ Kind[n] = "container"
  /\ Unmodified(n, mtime, "container") \/ ContainerScan(n) # {}

\* UpdateSongFile(): without permission the old record is kept, unmarked; a
\* container that yields no tracks is tried as a plain song.
UpdateSongFile(n, mtime) ==
  LET current == /\ n \in DOMAIN db.songs
                 /\ db.songs[n].mtime = mtime
                 /\ ~walk_discard
      container == UpdateContainerFile(n, mtime)
  IN IF ~fs[n].access THEN Result(db, modified)
     ELSE IF current THEN UpdatePlainSong(db, modified, n, mtime)
     ELSE IF IsContainer(n, mtime) THEN container
     ELSE UpdatePlainSong(container.db, container.modified, n, mtime)

\* UpdateSongFile() gets as far as container_scan().
IsScanned(n, mtime) ==
  /\ Kind[n] = "container"
  /\ fs[n].access
  /\ walk_discard \/ ~(n \in DOMAIN db.songs /\ db.songs[n].mtime = mtime)
  /\ ~Unmodified(n, mtime, "container")

\* The reader UpdateSongFile() leaves.  Trying the file as a plain song comes to
\* scan_file(), which asks for the container its directory would be and so closes
\* the reader, unless another plugin recognized the song before.
ReadersAfter(n, mtime) ==
  IF ~IsScanned(n, mtime) THEN {reader}
  ELSE IF ContainerScan(n) # {} THEN {Opened(n)}
  ELSE {NoReader} \cup (IF Plain(n) = "bad" THEN {} ELSE {Opened(n)})

\* The containers, with their mtime, that got the tracks of an older version.
StaleAfter(n, mtime) ==
  IF ~IsScanned(n, mtime) THEN stale
  ELSE {p \in stale : p[1] # n}
         \cup (IF Kept(n) /\ reader.mtime # mtime THEN {<<n, mtime>>} ELSE {})

\* UpdateArchiveFile(): an archive that cannot be opened stays behind as an
\* empty, marked directory.
UpdateArchiveFile(n, mtime) ==
  LET tracks == IF Readable(n) THEN fs[n].tracks ELSE {}
  IN IF Unmodified(n, mtime, "archive")
       THEN Result([db EXCEPT !.dirs = Mark(@, n)], modified)
       ELSE Result(MakeVirtualDirectory(n, mtime, "archive", tracks),
                   modified \/ n \in DOMAIN db.dirs \/ tracks # {})

\* PlaylistVector::UpdateOrInsert(): an item with the same mtime is left as it
\* is, its mark included.
UpdateOrInsert(d, m, n, mtime) ==
  IF n \in DOMAIN d.lists /\ d.lists[n].mtime = mtime
    THEN Result(d, m)
    ELSE Result([d EXCEPT !.lists = With(@, n, [mtime |-> mtime, mark |-> TRUE])],
                TRUE)

\* UpdatePlaylistFile() for a CUE sheet: first the directory with one song
\* per track (dropped if there is none), then the playlist.
UpdatePlaylistFile(n, mtime, media_files) ==
  LET tracks == fs[n].targets
      folder == IF tracks # {}
                  THEN MakeVirtualDirectory(n, mtime, "playlist", tracks)
                  ELSE DeleteDirectories(db, {n})
  IN IF ShouldIgnoreCueFile(n, media_files)
       THEN Result(db, modified)
     ELSE IF Unmodified(n, mtime, "playlist")
       THEN UpdateOrInsert([db EXCEPT !.dirs = Mark(@, n)], modified, n, mtime)
       ELSE UpdateOrInsert(folder, modified \/ n \in DOMAIN db.dirs, n, mtime)

\* UpdateRegularFile().
UpdateRegularFile(n, mtime, media_files) ==
  CASE Kind[n] \in {"song", "container"} -> UpdateSongFile(n, mtime)
    [] Kind[n] = "archive" -> UpdateArchiveFile(n, mtime)
    [] Kind[n] = "cue" -> UpdatePlaylistFile(n, mtime, media_files)
    [] OTHER -> Result(db, modified)

----------------------------------------------------------------------------
(***************************************************************************)
(* Directories.                                                            *)
(***************************************************************************)

\* directory_set_stat() on the existing child, or on the one MakeChild() adds.
MakeRealChild(d, n) ==
  IF n \in DOMAIN d.dirs
    THEN [d EXCEPT !.dirs[n].device = "real"]
    ELSE [d EXCEPT !.dirs = With(@, n, [mtime |-> 0, mark |-> FALSE,
                                        device |-> "real", tracks |-> {}])]

\* RemoveExcludedFromDirectory(): the child directories and songs to delete.
Excluded(d, dir) ==
  [dirs  |-> DOMAIN d.dirs \cap Children(dir) \cap ignore,
   songs |-> DOMAIN d.songs \cap Children(dir) \cap ignore]

UnmarkAllIn(d, dir) ==
  LET unmark(f) == [n \in DOMAIN f |->
                      IF Parent[n] = dir THEN [f[n] EXCEPT !.mark = FALSE] ELSE f[n]]
  IN [songs |-> unmark(d.songs), dirs |-> unmark(d.dirs), lists |-> unmark(d.lists)]

NoEntry == [node |-> Root, type |-> "none", mtime |-> 0]

\* The beginning of UpdateDirectory() for a directory that could be opened:
\* drop what is ignored now, unmark the rest, list the entries.
EnterDirectory(d, m, dir, mtime, frames) ==
  LET x == Excluded(d, dir)
  IN /\ db' = UnmarkAllIn(DeleteSongs(DeleteDirectories(d, x.dirs), x.songs), dir)
     /\ modified' = (m \/ x.dirs \cup x.songs # {})
     /\ stack' = Append(frames, [dir |-> dir, single |-> FALSE, mtime |-> mtime, exclude |-> ignore,
          todo |-> {n \in Children(dir) : fs[n].type # "absent"}, entry |-> NoEntry])

Top == stack[Len(stack)]
SetEntry(todo, entry) ==
  [stack EXCEPT ![Len(stack)].todo = todo, ![Len(stack)].entry = entry]
\* Faulty variant: the entry is read again.
EntryRepeated == SetEntry(Top.todo \cup {Top.entry.node}, NoEntry)
EntryDone == SetEntry(Top.todo, NoEntry)

\* SkipSymlink(): the configuration says not to follow it.
SkipSymlink(n) == fs[n].type = "symlink"

InDirectory == pc = "walk" /\ stack # << >>
Reading(n) == /\ InDirectory /\ Top.entry = NoEntry /\ n \in Top.todo
              /\ Top.single \/ ~cancel
Scanning(type) == InDirectory /\ Top.entry.type = type

environment == <<fs, ignore, changes>>
process == <<file, fresh, saved, mode, walk_discard, cancel, walks, undisturbed, scope>>
scanner == <<reader, stale>>

\* An entry that a pattern excludes.
SkipEntry(n) ==
  /\ Reading(n)
  /\ n \in Top.exclude
  /\ stack' = SetEntry(Top.todo \ {n}, NoEntry)
  /\ UNCHANGED <<environment, process, scanner, pc, db, modified>>

\* A symlink not to be followed, or no information (it may be gone by now).
DeleteEntry(n) ==
  /\ Reading(n)
  /\ n \notin Top.exclude
  /\ SkipSymlink(n) \/ fs[n].type \in {"absent", "broken"}
  /\ db' = DeleteNameIn(db, n)
  /\ modified' = (modified \/ n \in DOMAIN db.dirs \cup DOMAIN db.songs)
  /\ stack' = SetEntry(Top.todo \ {n}, NoEntry)
  /\ UNCHANGED <<environment, process, scanner, pc>>

\* GetInfo(*reader, info2) succeeds.
StatEntry(n) ==
  /\ Reading(n)
  /\ n \notin Top.exclude
  /\ fs[n].type \in {"file", "dir", "loop"}
  /\ stack' = SetEntry(Top.todo \ {n},
       [node |-> n, type |-> fs[n].type, mtime |-> fs[n].mtime])
  /\ UNCHANGED <<environment, process, scanner, pc, db, modified>>

\* UpdateDirectoryChild() with a regular file.
RegularFile ==
  /\ Scanning("file")
  /\ \E media_files \in CountMediaFilesInDirectory(Top.dir) :
       LET r == UpdateRegularFile(Top.entry.node, Top.entry.mtime, media_files)
       IN db' = r.db /\ modified' = r.modified
  /\ reader' \in ReadersAfter(Top.entry.node, Top.entry.mtime)
  /\ stale' = StaleAfter(Top.entry.node, Top.entry.mtime)
  /\ stack' = EntryDone
  /\ UNCHANGED <<environment, process, pc>>

\* UpdateDirectoryChild() with a directory: enter it, or delete it (without
\* setting "modified") if it cannot be opened.
Subdirectory ==
  /\ Scanning("dir")
  /\ LET n == Top.entry.node
     IN \/ /\ fs[n].type = "dir" /\ fs[n].access
           /\ EnterDirectory(MakeRealChild(db, n), modified, n, Top.entry.mtime, EntryDone)
        \/ /\ ~(fs[n].type = "dir" /\ fs[n].access)
           /\ db' = DeleteDirectories(db, {n})
           /\ stack' = EntryDone
           /\ UNCHANGED modified
  /\ UNCHANGED <<environment, process, scanner, pc>>

\* FindAncestorLoop(): the directory is skipped.
AncestorLoop ==
  /\ Scanning("loop")
  /\ stack' = EntryDone
  /\ UNCHANGED <<environment, process, scanner, pc, db, modified>>

\* PurgeDeletedFromDirectory(): what is still unmarked, and the songs of the
\* file this directory once was.
PurgeDeletedFromDirectory(d, dir) ==
  LET gone(f) == {n \in DOMAIN f : Parent[n] = dir /\ ~f[n].mark}
      d1 == DeleteSongs(DeleteDirectories(d, gone(d.dirs)), gone(d.songs))
      tracks == dir # Root /\ d.dirs[dir].tracks # {}
      d2 == [d1 EXCEPT !.lists = Without(@, gone(d.lists))]
  IN Result(IF tracks THEN [d2 EXCEPT !.dirs[dir].tracks = {}] ELSE d2,
            gone(d.dirs) \cup gone(d.songs) # {} \/ tracks)

\* The end of UpdateDirectory(): all entries read, or cancelled.
EndDirectory ==
  /\ InDirectory
  /\ ~Top.single
  /\ Top.entry = NoEntry
  /\ Top.todo = {} \/ cancel
  /\ LET r == PurgeDeletedFromDirectory(db, Top.dir)
     IN /\ db' = IF Top.dir = Root THEN r.db
                 ELSE [r.db EXCEPT !.dirs[Top.dir].mark = TRUE,
                                   !.dirs[Top.dir].mtime = Top.mtime]
        /\ modified' = (modified \/ r.modified)
  /\ stack' = SubSeq(stack, 1, Len(stack) - 1)
  /\ UNCHANGED <<environment, process, scanner, pc>>

\* The end of UpdateUri().
EndUri ==
  /\ InDirectory
  /\ Top.single
  /\ Top.entry = NoEntry /\ Top.todo = {}
  /\ stack' = SubSeq(stack, 1, Len(stack) - 1)
  /\ UNCHANGED <<environment, process, scanner, pc, db, modified>>

\* Faulty variant: dangling tracks stay.
PurgeNothing(d) == Result(d, FALSE)

\* PurgeDanglingFromPlaylists(), after ClearInPlaylist(): a track whose target
\* is no song is removed, the target of any other is marked.
PurgeDanglingFromPlaylists(d) ==
  LET lists == {n \in DOMAIN d.dirs : d.dirs[n].device = "playlist"}
      dangling == {n \in lists : ~(d.dirs[n].tracks \subseteq DOMAIN d.songs)}
      targets == UNION {d.dirs[n].tracks : n \in lists}
  IN Result([songs |-> [n \in DOMAIN d.songs |->
                          [d.songs[n] EXCEPT !.in_playlist = n \in targets]],
             dirs  |-> [n \in DOMAIN d.dirs |-> IF n \in dangling
                          THEN [d.dirs[n] EXCEPT !.tracks = @ \cap DOMAIN d.songs]
                          ELSE d.dirs[n]],
             lists |-> d.lists],
            dangling # {})

\* The end of Walk().
FinishWalk ==
  /\ pc = "walk"
  /\ stack = << >>
  /\ LET r == PurgeDanglingFromPlaylists(db)
     IN db' = r.db /\ modified' = (modified \/ r.modified)
  /\ pc' = "task"
  /\ UNCHANGED <<environment, process, scanner, stack>>

----------------------------------------------------------------------------
(***************************************************************************)
(* The process around the walk.                                            *)
(***************************************************************************)

Empty == [songs |-> << >>, dirs |-> << >>, lists |-> << >>]

\* What db_save_internal() writes and db_load_internal() restores: all but the
\* marks.
Saved(d) ==
  LET unmark(f) == [n \in DOMAIN f |-> [f[n] EXCEPT !.mark = FALSE]]
  IN [songs |-> unmark(d.songs), dirs |-> unmark(d.dirs), lists |-> unmark(d.lists)]

\* SimpleDatabase::Save().
Save ==
  /\ db' = PruneEmpty(db)
  /\ \/ /\ file' = Saved(PruneEmpty(db))
        /\ fresh' = FALSE
        /\ saved' = TRUE
     \/ /\ SaveMayFail
        /\ saved' = FALSE
        /\ UNCHANGED <<file, fresh>>

\* SimpleDatabase::Open() of a process started with channel mode m.
Open(m) ==
  /\ pc = "exited"
  /\ walks < MaxWalks
  /\ pc' = "idle"
  /\ mode' = m
  /\ db' = file
  /\ reader' = NoReader
  /\ undisturbed' = FALSE
  /\ UNCHANGED <<environment, file, fresh, saved, walk_discard, stack, cancel,
                 modified, walks, scope, stale>>

\* Walk() from the root with a new UpdateWalk.  The music directory may be
\* gone (the walk returns at once) or unreadable (UpdateDirectory() fails).
StartWalk(discard) ==
  /\ pc = "idle"
  /\ walks < MaxWalks
  /\ walks' = walks + 1
  /\ walk_discard' = discard
  /\ cancel' = FALSE
  /\ scope' = Root
  /\ \/ /\ pc' = "walk"
        /\ undisturbed' = TRUE
        /\ EnterDirectory(db, FALSE, Root, 0, << >>)
     \/ /\ pc' \in {"walk", "task"}
        /\ undisturbed' = FALSE
        /\ modified' = FALSE
        /\ UNCHANGED <<db, stack>>
  /\ UNCHANGED <<environment, scanner, file, fresh, saved, mode>>

\* DirectoryMakeChildChecked() would return a directory: it is known, or it can be
\* added.  Only the name is passed to GetInfo(), so that a directory below another
\* one is looked for in the music directory, where the model has no such name.
ParentChecked(n) ==
  \/ n \in DOMAIN db.dirs
  \/ Parent[n] = Root /\ fs[n].type \in {"file", "dir"}

\* DirectoryMakeUriParentChecked(): the directories above a node are added, each
\* in place of a song of that name, up to the first that cannot be.
MakeParents(n) ==
  LET new == {m \in Ancestors[n] \ DOMAIN db.dirs : ParentChecked(m)}
      made(m) == [mtime |-> fs[m].mtime, mark |-> FALSE,
                  device |-> "real", tracks |-> {}]
  IN [DeleteSongs(db, new) EXCEPT
        !.dirs = [m \in DOMAIN @ \cup new |-> IF m \in new THEN made(m) ELSE @[m]]]

\* Walk() with the URI of a node: UpdateUri().  The node is read like the only
\* entry of its directory, but no pattern is asked and Cancel() is not noticed.
StartUpdateUri(n, discard) ==
  /\ pc = "idle" /\ ~OneShot
  /\ walks < MaxWalks
  /\ walks' = walks + 1
  /\ walk_discard' = discard
  /\ cancel' = FALSE
  /\ modified' = FALSE
  /\ pc' = "walk"
  /\ undisturbed' = TRUE /\ scope' = n
  /\ db' = MakeParents(n)
  /\ IF \A m \in Ancestors[n] : ParentChecked(m)
       THEN stack' = <<[dir |-> Parent[n], single |-> TRUE, mtime |-> 0, exclude |-> {},
                        todo |-> {n}, entry |-> NoEntry]>>
       ELSE UNCHANGED stack
  /\ UNCHANGED <<environment, scanner, file, fresh, saved, mode>>

\* The end of UpdateService::Task(): save what was modified.  A failure is
\* only logged.
TaskSave ==
  /\ pc = "task"
  /\ pc' = IF OneShot THEN "main" ELSE "idle"
  /\ IF modified \/ fresh THEN Save ELSE UNCHANGED <<db, file, fresh, saved>>
  /\ UNCHANGED <<environment, scanner, mode, walk_discard, stack, cancel, modified,
                 walks, undisturbed, scope>>

\* Faulty variant: main() relies on the Save() of the update thread.
MainSaveSkipped ==
  /\ pc = "main"
  /\ pc' = "exited"
  /\ saved' = TRUE
  /\ UNCHANGED <<environment, scanner, file, fresh, mode, walk_discard, stack, cancel,
                 walks, modified, undisturbed, scope, db>>

\* The Save() in main() of mpd-dbcreate; if it throws, the exit status is 1.
MainSave ==
  /\ pc = "main"
  /\ Save
  /\ pc' = "exited"
  /\ UNCHANGED <<environment, scanner, mode, walk_discard, stack, cancel, modified,
                 walks, undisturbed, scope>>

\* The daemon terminates between two updates.
Exit ==
  /\ pc = "idle" /\ ~OneShot /\ walks > 0
  /\ pc' = "exited"
  /\ UNCHANGED <<environment, process, scanner, db, stack, modified>>

\* The decoder thread of the daemon plays a track of a container: file_decode()
\* calls container_update(), which has the same reader.
PlayTrack(n) ==
  /\ ~OneShot /\ pc # "exited"
  /\ TracksIn(db, n, "container") # {}
  /\ reader' = Opened(n)
  /\ UNCHANGED <<environment, process, pc, db, stack, modified, stale>>

Cancel ==
  /\ CancelAllowed
  /\ pc = "walk" /\ ~cancel
  /\ cancel' = TRUE
  /\ undisturbed' = FALSE
  /\ UNCHANGED <<environment, scanner, file, fresh, saved, mode, walk_discard, walks, pc,
                 db, stack, modified, scope>>

----------------------------------------------------------------------------
(***************************************************************************)
(* The music directory.                                                    *)
(***************************************************************************)

Absent == [type |-> "absent", access |-> TRUE, mtime |-> 0, plain |-> "bad",
           tracks |-> {}, targets |-> {}, count |-> 0]

changed == <<scanner, file, fresh, saved, mode, walk_discard, cancel, walks, pc, db,
             stack, modified, scope>>

\* Something else is put at a path, or it is removed with all that is in it.
ChangeFile(n, e) ==
  /\ changes < MaxChanges
  /\ Parent[n] # Root => fs[Parent[n]].type = "dir"
  /\ LET new == IF e.type = "absent" THEN Absent ELSE [e EXCEPT !.mtime = changes + 1]
     IN fs' = [m \in Nodes |-> IF m = n THEN new
                               ELSE IF n \in Ancestors[m] THEN Absent
                               ELSE fs[m]]
  /\ fs' # fs
  /\ changes' = changes + 1
  /\ undisturbed' = FALSE
  /\ UNCHANGED <<changed, ignore>>

\* Permissions change; that does not change the mtime.
ChangeAccess(n) ==
  /\ changes < MaxChanges
  /\ fs[n].type \in {"file", "dir"}
  /\ fs' = [fs EXCEPT ![n].access = ~@]
  /\ changes' = changes + 1
  /\ undisturbed' = FALSE
  /\ UNCHANGED <<changed, ignore>>

\* A line is added to a .mpdignore file, or removed.
ChangeIgnore(n) ==
  /\ changes < MaxChanges
  /\ ignore' = IF n \in ignore THEN ignore \ {n} ELSE ignore \cup {n}
  /\ changes' = changes + 1
  /\ undisturbed' = FALSE
  /\ UNCHANGED <<changed, fs>>

----------------------------------------------------------------------------

Init ==
  /\ fs = [n \in Nodes |-> Absent]
  /\ ignore = {}
  /\ db = Empty
  /\ file = Empty
  /\ fresh = TRUE
  /\ saved = TRUE
  /\ mode \in Modes
  /\ pc = "idle"
  /\ walk_discard = FALSE
  /\ stack = << >>
  /\ cancel = FALSE
  /\ modified = FALSE
  /\ reader = NoReader
  /\ changes = 0
  /\ walks = 0
  /\ undisturbed = FALSE
  /\ scope = Root
  /\ stale = {}

WalkStep ==
  \/ \E n \in Nodes : SkipEntry(n) \/ DeleteEntry(n) \/ StatEntry(n)
  \/ RegularFile
  \/ Subdirectory
  \/ AncestorLoop
  \/ EndDirectory
  \/ EndUri
  \/ FinishWalk
  \/ TaskSave
  \/ MainSave

Next ==
  \/ WalkStep
  \/ \E m \in Modes : Open(m)
  \/ \E discard \in {FALSE, DiscardAllowed} :
       StartWalk(discard) \/ \E n \in Nodes : StartUpdateUri(n, discard)
  \/ Exit
  \/ \E n \in Nodes : PlayTrack(n)
  \/ Cancel
  \/ \E n \in Nodes : \E e \in Contents(n) : ChangeFile(n, e)
  \/ \E n \in Nodes : ChangeAccess(n)
  \/ \E n \in Ignorable : ChangeIgnore(n)

\* The update thread is scheduled like any other.
Spec == Init /\ [][Next]_vars /\ WF_vars(WalkStep)
----------------------------------------------------------------------------
(***************************************************************************)
(* Properties.                                                             *)
(***************************************************************************)

Database(d) ==
  /\ \A n \in DOMAIN d.songs : n \in Nodes /\ d.songs[n] \in Song
  /\ \A n \in DOMAIN d.dirs : n \in Nodes /\ d.dirs[n] \in Directory
  /\ \A n \in DOMAIN d.lists : n \in Nodes /\ d.lists[n] \in Playlist
  /\ \A n \in DOMAIN d.songs \cup DOMAIN d.dirs \cup DOMAIN d.lists :
       Parent[n] # Root => Parent[n] \in DOMAIN d.dirs

\* Every variable has its type, and the database in memory and on disk is a
\* tree at every step of the walk (Directory::parent, Song::parent): whatever
\* is listed has its parent directory, and a frame of UpdateDirectory() never
\* works on a directory that was deleted under it.
TypeOK ==
  /\ fs \in [Nodes -> Entry]
  /\ ignore \subseteq Nodes
  /\ Database(db) /\ Database(file)
  /\ mode \in Modes
  /\ pc \in {"idle", "walk", "task", "main", "exited"}
  /\ {fresh, saved, walk_discard, cancel, modified, undisturbed} \subseteq BOOLEAN
  /\ changes \in 0..MaxChanges /\ walks \in 0..MaxWalks
  /\ scope \in Nodes \cup {Root}
  /\ reader \in [path : Nodes \cup {Root}, tracks : SUBSET Channels, mtime : 0..MaxChanges]
  /\ stale \subseteq Nodes \X (0..MaxChanges)
  /\ \A i \in 1..Len(stack) : stack[i].dir # Root => stack[i].dir \in DOMAIN db.dirs

AfterWalk == pc \in {"idle", "exited"} /\ undisturbed

\* What a full scan with this channel mode would find.
Reachable(n) ==
  \A m \in Ancestors[n] : fs[m].type = "dir" /\ fs[m].access /\ m \notin ignore
Visible(n) == Reachable(n) /\ n \notin ignore /\ Readable(n)

\* What a container that can be read holds for this channel mode.
Held(n) == IF Readable(n) THEN {t \in fs[n].tracks : ShouldInclude(t)} ELSE {}

\* The containers the daemon has scanned through the reader of an older version:
\* they keep its tracks, with the mtime of the new version, until they are changed
\* again.
Outdated == {n \in Nodes : <<n, fs[n].mtime>> \in stale}

\* The nodes the last walk has to bring up to date: all, or those at and below its
\* URI.  UpdateUri() looks for .mpdignore below the URI only, opens a file
\* in a directory that cannot be listed, and leaves a "loop" as it is.
Covered ==
  IF scope = Root THEN Nodes \ Outdated
  ELSE IF Reachable(scope) /\ scope \notin ignore /\ fs[scope].type # "loop"
    THEN Subtree({scope}) \ Outdated ELSE {}

\* UpdateUri() does not purge: what the database has of a file that cannot be read
\* any more stays, and so does the song of a file that is a container now.
Leftover ==
  IF scope # Root /\ (~fs[scope].access \/ Kind[scope] = "container") THEN {scope} ELSE {}

ExpectedSongs ==
  {n \in Nodes : /\ Visible(n)
                 /\ Kind[n] \in {"song", "container"}
                 /\ Kind[n] = "container" => Held(n) = {}
                 /\ fs[n].plain # "bad" /\ ShouldInclude(fs[n].plain)}

ExpectedTracks(n) ==
  IF ~Visible(n) THEN {}
  ELSE CASE Kind[n] = "container" -> Held(n)
         [] Kind[n] = "archive" -> fs[n].tracks
         [] OTHER -> {}

\* An update that nothing interfered with leaves exactly the songs a full scan
\* would find, with their current tags, whatever happened before it: files
\* changed between stat() and scan, earlier cancelled walks, unreadable
\* directories, restarts from the saved file (UpdateDirectory() and all it
\* calls; only the mtime decides what is scanned again).  The songs of an
\* archive that cannot be opened are left open.  In a daemon a container that was
\* replaced while the plugin had it open is excepted; mpd-dbcreate scans every
\* container once, and none through an old reader.
WalkComplete ==
  /\ OneShot => stale = {}
  /\ AfterWalk =>
       /\ ExpectedSongs \cap Covered \subseteq DOMAIN db.songs
       /\ DOMAIN db.songs \cap Covered \subseteq ExpectedSongs \cup Leftover
       /\ \A n \in ExpectedSongs \cap Covered : db.songs[n].channels = fs[n].plain
       /\ \A n \in Covered : Kind[n] \in {"container", "archive"} =>
            \/ TracksIn(db, n, Kind[n]) = ExpectedTracks(n)
            \/ (Kind[n] = "archive" \/ n \in Leftover) /\ ~fs[n].access
       /\ \A n \in DOMAIN db.dirs \cap Covered : fs[n].type \in {"dir", "file"}

\* Whenever no walk runs, every track of a CUE sheet's directory refers to a
\* song of the database, also after a cancelled or failed walk
\* (PurgeDanglingFromPlaylists(), the last thing Walk() does).
NoDanglingTracks ==
  pc \notin {"walk"} =>
    \A n \in Nodes : TracksIn(db, n, "playlist") \subseteq DOMAIN db.songs

Content(d) ==
  [songs |-> [n \in DOMAIN d.songs |-> <<d.songs[n].mtime, d.songs[n].channels>>],
   tracks |-> {p \in Nodes \X (Channels \cup Nodes) :
                p[1] \in DOMAIN d.dirs /\ p[2] \in d.dirs[p[1]].tracks}]

\* Once an update is over, what it added or changed is in the database file:
\* Walk() sets "modified" for every addition, and Task() saves.
AdditionsAreSaved ==
  pc \in {"idle", "exited"} =>
    /\ \A n \in DOMAIN db.songs : /\ n \in DOMAIN file.songs
                                  /\ Content(file).songs[n] = Content(db).songs[n]
    /\ Content(db).tracks \subseteq Content(file).tracks

\* mpd-dbcreate exits with status 0 only after the result is on disk, even if
\* the update thread's own Save() failed (main()); "saved" is then the status.
ExitMeansSaved ==
  OneShot /\ pc = "exited" /\ saved => Saved(db) = file /\ ~fresh

\* Every walk comes to an end although the music directory changes under it.
WalkTerminates == pc = "walk" ~> pc # "walk"

\* "A multichannel database *will not* contain stereo files" (README.md:46):
\* after an undisturbed update every song is of the kind asked for.
ChannelModeHonoured ==
  AfterWalk =>
    /\ \A n \in DOMAIN db.songs : ShouldInclude(db.songs[n].channels)
    /\ \A n \in Nodes : \A t \in TracksIn(db, n, "container") : ShouldInclude(t)

\* "the song file was deleted (or the decoder plugin is unavailable)"
\* (Walk.cxx:111): a song goes at the end of a directory only if its file is
\* gone, unreadable or excluded.
OnlyDeletedIsPurged ==
  [][EndDirectory => \A n \in DOMAIN db.songs :
       n \in ExpectedSongs => n \in DOMAIN db'.songs]_vars

\* "used by the database update to check whether an item has disappeared"
\* (PlaylistInfo.hxx:28): a playlist goes at the end of a directory only if
\* its file is gone, unreadable, excluded or not to be used.
OnlyDisappearedListsGo ==
  [][EndDirectory => \A n \in DOMAIN db.lists :
       (Parent[n] = Top.dir /\ Visible(n) /\ ~cancel /\
        \A c \in CountMediaFilesInDirectory(Top.dir) : ~ShouldIgnoreCueFile(n, c))
       => n \in DOMAIN db'.lists]_vars
=============================================================================
