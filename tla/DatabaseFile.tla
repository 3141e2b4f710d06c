---------------------------- MODULE DatabaseFile ----------------------------
(***************************************************************************)
(* DatabaseFile: SimpleDatabase::Save() and Load() against a file system   *)
(* that fails and a process that may die at every step                     *)
(* (db/plugins/simple/SimpleDatabasePlugin.cxx, io/FileOutputStream.cxx).  *)
(*                                                                         *)
(* A file's contents are the version of the database written to it, and    *)
(* whether a part is missing ("torn").  There are three ways to create the *)
(* new file, tried in this order: an anonymous O_TMPFILE that is linked to *)
(* the path in the end, a file "path.tmp" that is renamed, and the path    *)
(* itself, truncated.                                                      *)
(***************************************************************************)
EXTENDS Integers

CONSTANTS
  Supports,             \* the kinds of file systems: "tmpfile" has O_TMPFILE,
                        \* "tmp" can create path.tmp, "none" not always
  IoMayFail,            \* open, write, link, close and rename may fail
  MaxSaves,             \* bound: versions of the database
  MaxCrashes            \* bound: crashes

ASSUME FileAssumption ==
  /\ Supports \subseteq {"tmpfile", "tmp", "none"}
  /\ IoMayFail \in BOOLEAN
  /\ MaxSaves \in Nat /\ MaxCrashes \in Nat

VARIABLES
  support,              \* what the file system is like
  compress,             \* SimpleDatabase::compress (FALSE without zlib)
  path, tmp,            \* what is at the path, and at path.tmp
  stream,               \* FileOutputStream: how it was opened, what it wrote
  memory,               \* the database in memory
  file_exists,          \* SimpleDatabase::FileExists(): its mtime is known
  pc,                   \* where the process is
  result,               \* how the last Save() ended
  before,               \* ghost: what was at the path when it began
  crashes

config == <<support, compress>>
vars == <<config, path, tmp, stream, memory, file_exists, pc, result, before,
          crashes>>

Missing == [version |-> -1, torn |-> TRUE]
Contents == {Missing} \cup [version : 0..MaxSaves, torn : BOOLEAN]
Closed == [kind |-> "closed", torn |-> TRUE]

\* What an O_TMPFILE holds.
Written == [version |-> memory.version, torn |-> stream.torn]

----------------------------------------------------------------------------
(***************************************************************************)
(* Starting up, and the update.                                            *)
(***************************************************************************)

NewRoot == [version |-> 0, torn |-> FALSE]

\* Faulty variant: the end of the file is never unexpected.
LoadsAny == {c \in {path} : path # Missing}

\* Load(): a complete file is read.  A torn gzip file makes inflate() fail; a
\* torn text file may happen to end where directory_load() accepts the end.
Loads == {c \in {path} : path # Missing /\ (path.torn => ~compress)}
Throws == path.torn

\* Open(): if Load() throws, Check() and start with an empty database.
Open ==
  /\ pc = "down"
  /\ \/ memory' \in Loads /\ file_exists' = TRUE
     \/ Throws /\ memory' = NewRoot /\ file_exists' = FALSE
  /\ pc' = "idle"
  /\ result' = "none"
  /\ UNCHANGED <<config, path, tmp, stream, before, crashes>>

\* An update has modified the database; what was missing is found again, which
\* may be all there is to it.
Update ==
  /\ pc = "idle"
  /\ \/ /\ memory.version < MaxSaves
        /\ memory' = [version |-> memory.version + 1, torn |-> FALSE]
     \/ /\ memory.torn
        /\ memory' = [memory EXCEPT !.torn = FALSE]
  /\ pc' = "save"
  /\ before' = path
  /\ UNCHANGED <<config, path, tmp, stream, file_exists, result, crashes>>

\* Save() without a modification: the one in main(), or no file exists.  (An
\* update came before it, and would have found what a torn file lacks.)
SaveAgain ==
  /\ pc = "idle" /\ ~memory.torn
  /\ pc' = "save"
  /\ before' = path
  /\ UNCHANGED <<config, path, tmp, stream, memory, file_exists, result, crashes>>

----------------------------------------------------------------------------
(***************************************************************************)
(* FileOutputStream.                                                       *)
(***************************************************************************)

Ends(r) ==
  /\ pc' = "idle"
  /\ result' = r
  /\ stream' = Closed

Opened(kind) == [kind |-> kind, torn |-> TRUE]

\* Faulty variant: the path itself is opened and truncated.
OpenVisible ==
  /\ pc = "save"
  /\ path' = [version |-> memory.version, torn |-> TRUE]
  /\ stream' = Opened("plain")
  /\ pc' = "write"
  /\ UNCHANGED <<config, tmp, memory, file_exists, result, before, crashes>>

OpenTmpfile ==
  /\ pc = "save" /\ support = "tmpfile"
  /\ stream' = Opened("tmpfile")
  /\ pc' = "write"
  /\ UNCHANGED <<config, path, tmp, memory, file_exists, result, before, crashes>>

\* A stale path.tmp is deleted first.
OpenTmp ==
  /\ pc = "save" /\ support # "tmpfile"
  /\ tmp' = [version |-> memory.version, torn |-> TRUE]
  /\ stream' = Opened("tmp")
  /\ pc' = "write"
  /\ UNCHANGED <<config, path, memory, file_exists, result, before, crashes>>

\* "fall back to plain POSIX"; tmp_path stays set.
OpenPlain ==
  /\ pc = "save" /\ support = "none"
  /\ tmp' = Missing
  /\ path' = [version |-> memory.version, torn |-> TRUE]
  /\ stream' = Opened("plain")
  /\ pc' = "write"
  /\ UNCHANGED <<config, memory, file_exists, result, before, crashes>>

OpenFails ==
  /\ pc = "save" /\ support = "none" /\ IoMayFail
  /\ tmp' = Missing
  /\ Ends("failed")
  /\ UNCHANGED <<config, path, memory, file_exists, before, crashes>>

\* db_save_internal() and Flush(): the data reaches the open file.
Write ==
  /\ pc = "write"
  /\ stream' = [stream EXCEPT !.torn = FALSE]
  /\ tmp' = IF stream.kind = "tmp" THEN [tmp EXCEPT !.torn = FALSE] ELSE tmp
  /\ path' = IF stream.kind = "plain" THEN [path EXCEPT !.torn = FALSE] ELSE path
  /\ pc' = IF stream.kind = "tmpfile" THEN "unlink" ELSE "close"
  /\ UNCHANGED <<config, memory, file_exists, result, before, crashes>>

\* What Cancel() and the handler in Commit() do: path.tmp is
\* deleted if tmp_path is set, an O_TMPFILE vanishes by itself.
DeleteTmp == tmp' = IF stream.kind = "tmpfile" THEN tmp ELSE Missing

\* The exception leaves Save(), and the destructor calls Cancel().
WriteFails ==
  /\ pc = "write" /\ IoMayFail
  /\ DeleteTmp
  /\ Ends("failed")
  /\ UNCHANGED <<config, path, memory, file_exists, before, crashes>>

\* Commit() of an O_TMPFILE: unlink what is at the path ...
Unlink ==
  /\ pc = "unlink"
  /\ path' = Missing
  /\ pc' = "link"
  /\ UNCHANGED <<config, tmp, stream, memory, file_exists, result, before, crashes>>

\* ... and link the new file there.
Link ==
  /\ pc = "link"
  /\ path' = Written
  /\ pc' = "close"
  /\ UNCHANGED <<config, tmp, stream, memory, file_exists, result, before, crashes>>

\* Faulty variant: the return value of linkat() is not checked.
LinkFailsUnnoticed ==
  /\ pc = "link" /\ IoMayFail
  /\ pc' = "close"
  /\ UNCHANGED <<config, path, tmp, stream, memory, file_exists, result, before, crashes>>

LinkFails ==
  /\ pc = "link" /\ IoMayFail
  /\ Ends("failed")
  /\ UNCHANGED <<config, path, tmp, memory, file_exists, before, crashes>>

\* Faulty variant: the old file is deleted before the new one is renamed.
CloseAndUnlink ==
  /\ pc = "close"
  /\ path' = Missing
  /\ pc' = "rename"
  /\ UNCHANGED <<config, tmp, stream, memory, file_exists, result, before, crashes>>

\* Close(); a temporary file with a name is to be renamed yet.
Close ==
  /\ pc = "close"
  /\ IF stream.kind = "tmpfile"
       THEN Ends("ok") /\ file_exists' = TRUE
       ELSE pc' = "rename" /\ UNCHANGED <<stream, result, file_exists>>
  /\ UNCHANGED <<config, path, tmp, memory, before, crashes>>

CloseFails ==
  /\ pc = "close" /\ IoMayFail
  /\ DeleteTmp
  /\ Ends("failed")
  /\ UNCHANGED <<config, path, memory, file_exists, before, crashes>>

Rename ==
  /\ pc = "rename"
  /\ tmp # Missing
  /\ path' = tmp
  /\ tmp' = Missing
  /\ Ends("ok")
  /\ file_exists' = TRUE
  /\ UNCHANGED <<config, memory, before, crashes>>

\* RenameOrThrow() throws, in any case if there is no path.tmp.
RenameFails ==
  /\ pc = "rename"
  /\ tmp = Missing \/ IoMayFail
  /\ DeleteTmp
  /\ Ends("failed")
  /\ UNCHANGED <<config, path, memory, file_exists, before, crashes>>

Crash ==
  /\ pc # "down" /\ crashes < MaxCrashes
  /\ pc' = "down"
  /\ stream' = Closed
  /\ result' = "none"
  /\ crashes' = crashes + 1
  /\ UNCHANGED <<config, path, tmp, memory, file_exists, before>>

----------------------------------------------------------------------------

Init ==
  /\ support \in Supports
  /\ compress \in BOOLEAN
  /\ path = Missing /\ tmp = Missing /\ before = Missing
  /\ stream = Closed
  /\ memory = NewRoot
  /\ file_exists = FALSE
  /\ pc = "down"
  /\ result = "none"
  /\ crashes = 0

SaveStep ==
  \/ OpenTmpfile \/ OpenTmp \/ OpenPlain \/ OpenFails
  \/ Write \/ WriteFails
  \/ Unlink \/ Link \/ LinkFails
  \/ Close \/ CloseFails
  \/ Rename \/ RenameFails

Next == Open \/ Update \/ SaveAgain \/ SaveStep \/ Crash

Spec == Init /\ [][Next]_vars

----------------------------------------------------------------------------
(***************************************************************************)
(* Properties.                                                             *)
(***************************************************************************)

\* Every variable has its type; path.tmp only exists while, or after a crash
\* while, it was being written, and FileExists() is never claimed when no
\* file was ever loaded or saved.
TypeOK ==
  /\ support \in Supports /\ compress \in BOOLEAN
  /\ {path, tmp, memory, before} \subseteq Contents
  /\ stream \in [kind : {"closed", "tmpfile", "tmp", "plain"}, torn : BOOLEAN]
  /\ file_exists \in BOOLEAN
  /\ pc \in {"down", "idle", "save", "write", "unlink", "link", "close", "rename"}
  /\ result \in {"none", "ok", "failed"}
  /\ crashes \in 0..MaxCrashes
  /\ pc = "idle" /\ tmp # Missing => crashes > 0

\* When Save() has returned, the file is the database in memory, complete,
\* whichever way it was created (Save(), Commit()).
SavedMeansVisible ==
  pc = "idle" /\ result = "ok" => path = memory

\* "The destructor will attempt to roll back the changes by calling Cancel()"
\* (FileOutputStream.hxx:37): a Save() through path.tmp that failed, at
\* whichever call, left the old file.
RolledBack ==
  support = "tmp" /\ pc = "idle" /\ result = "failed" => path = before

\* At every moment of a Save() through path.tmp, also when the process died at
\* any point of any earlier one, the path has the old database or the new one
\* (OpenCreate(), Commit(), Cancel()).
OldOrNew == support = "tmp" => path \in {before, memory}

\* No step, failure or crash leaves a partly written file at the path as long
\* as a temporary file can be had (OpenCreate(), Commit()).
NeverTorn == support # "none" => path = Missing \/ ~path.torn

\* A file torn by a crash or a failed write is never taken for a database:
\* Load() of a compressed file notices (Open()).  Only an uncompressed file,
\* where the path itself had to be overwritten, may load silently.
DamageIsDetected == memory.torn => ~compress /\ support = "none"

\* "Throws on error" (FileOutputStream.hxx:146): without any error on the new
\* file, Save() succeeds.
ThrowsOnlyOnError == ~IoMayFail => result # "failed"
=============================================================================
