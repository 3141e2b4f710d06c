------------------------- MODULE DatabaseFileProofs -------------------------
(***************************************************************************)
(* TLAPS proofs about DatabaseFile.tla, for every number of saves and      *)
(* crashes, whatever fails.                                                *)
(***************************************************************************)
EXTENDS DatabaseFile, TLAPS

----------------------------------------------------------------------------
(***************************************************************************)
(* The inductive invariant.                                                *)
(***************************************************************************)

Saving == {"save", "write", "unlink", "link", "close", "rename"}

\* How the stream was opened, and how far it has come, at every place of Save().
StreamInv ==
  /\ stream.kind = "tmpfile" => support = "tmpfile"
  /\ stream.kind = "tmp" => support # "tmpfile"
  /\ stream.kind = "plain" => support = "none"
  /\ pc \in {"down", "idle", "save"} => stream = Closed
  /\ pc = "write" => stream.kind # "closed" /\ stream.torn
  /\ pc \in {"unlink", "link"} => stream.kind = "tmpfile" /\ ~stream.torn
  /\ pc = "close" => stream.kind # "closed" /\ ~stream.torn
  /\ pc = "rename" => stream.kind \in {"tmp", "plain"} /\ ~stream.torn

\* What is saved is complete, and a torn file was only loaded where it could
\* neither be avoided nor noticed.
MemoryInv ==
  /\ memory # Missing
  /\ pc \in Saving => ~memory.torn
  /\ DamageIsDetected

\* What is at path.tmp belongs to this Save(), or to one that crashed.
TmpInv ==
  /\ stream.kind = "plain" => tmp = Missing
  /\ stream.kind = "tmp" => tmp = [version |-> memory.version, torn |-> stream.torn]
  /\ stream.kind # "tmp" /\ tmp # Missing => crashes > 0

\* The path changes in one step only, when the new file is complete.
PathInv ==
  /\ SavedMeansVisible /\ RolledBack /\ OldOrNew /\ NeverTorn
  /\ support = "tmp" /\ pc \in Saving => path = before
  /\ pc = "close" /\ stream.kind = "tmpfile" => path = memory
  /\ stream.kind = "plain" => path = [version |-> memory.version, torn |-> stream.torn]

Inv == TypeOK /\ StreamInv /\ MemoryInv /\ TmpInv /\ PathInv

\* One lemma per step of Open(), Save() and the crash: each keeps the invariant.
LEMMA OpenInv == Inv /\ Open => Inv'
<1>. SUFFICES ASSUME Inv, Open PROVE Inv'
  OBVIOUS
<1>. USE FileAssumption DEF Inv, Open, config
<1>1. TypeOK'
  <2>1. memory' \in Contents
    <3>1. CASE memory' \in Loads
      BY <3>1 DEF Loads, TypeOK
    <3>2. CASE memory' = NewRoot
      BY <3>2 DEF NewRoot, Contents
    <3>. QED
      BY <3>1, <3>2
  <2>2. pc' = "idle" /\ tmp' # Missing => crashes' > 0
    BY DEF TmpInv, StreamInv, Closed
  <2>. QED
    BY <2>1, <2>2 DEF TypeOK
<1>2. StreamInv'
  BY DEF StreamInv, TypeOK, Closed, Loads, Throws, NewRoot, Missing
<1>3. MemoryInv'
  BY DEF MemoryInv, TypeOK, Contents, Missing, Saving, DamageIsDetected, NeverTorn, PathInv, Loads, Throws, NewRoot
<1>4. TmpInv'
  BY DEF TmpInv, TypeOK, StreamInv, Closed, Loads, Throws, NewRoot, Missing
<1>5. PathInv'
  BY DEF PathInv, TypeOK, Contents, StreamInv, MemoryInv, TmpInv, Closed, Missing, Saving, SavedMeansVisible, RolledBack, OldOrNew, NeverTorn, Loads, Throws, NewRoot
<1>. QED
  BY <1>1, <1>2, <1>3, <1>4, <1>5

LEMMA UpdateInv == Inv /\ Update => Inv'
<1>. SUFFICES ASSUME Inv, Update PROVE Inv'
  OBVIOUS
<1>. USE FileAssumption DEF Inv, Update, config
<1>1. TypeOK'
  <2>1. memory \in [version : 0..MaxSaves, torn : BOOLEAN]
    BY DEF TypeOK, MemoryInv, Contents
  <2>2. memory' \in Contents
    <3>1. CASE /\ memory.version < MaxSaves
               /\ memory' = [version |-> memory.version + 1, torn |-> FALSE]
      BY <2>1, <3>1 DEF Contents
    <3>2. CASE memory' = [memory EXCEPT !.torn = FALSE]
      BY <2>1, <3>2 DEF Contents
    <3>. QED
      BY <3>1, <3>2
  <2>. QED
    BY <2>2 DEF TypeOK
<1>2. StreamInv'
  BY DEF StreamInv, TypeOK, Closed
<1>3. MemoryInv'
  BY DEF MemoryInv, TypeOK, Contents, Missing, Saving, DamageIsDetected, NeverTorn, PathInv
<1>4. TmpInv'
  BY DEF TmpInv, TypeOK, StreamInv, Closed
<1>5. PathInv'
  BY DEF PathInv, TypeOK, Contents, StreamInv, MemoryInv, TmpInv, Closed, Missing, Saving, SavedMeansVisible, RolledBack, OldOrNew, NeverTorn
<1>. QED
  BY <1>1, <1>2, <1>3, <1>4, <1>5

LEMMA SaveAgainInv == Inv /\ SaveAgain => Inv'
<1>. SUFFICES ASSUME Inv, SaveAgain PROVE Inv'
  OBVIOUS
<1>. USE FileAssumption DEF Inv, SaveAgain, config
<1>1. TypeOK'
  BY DEF TypeOK, StreamInv, MemoryInv, TmpInv, Contents, Missing, Closed
<1>2. StreamInv'
  BY DEF StreamInv, TypeOK, Closed
<1>3. MemoryInv'
  BY DEF MemoryInv, TypeOK, Contents, Missing, Saving, DamageIsDetected, NeverTorn, PathInv
<1>4. TmpInv'
  BY DEF TmpInv, TypeOK, StreamInv, Closed
<1>5. PathInv'
  BY DEF PathInv, TypeOK, Contents, StreamInv, MemoryInv, TmpInv, Closed, Missing, Saving, SavedMeansVisible, RolledBack, OldOrNew, NeverTorn
<1>. QED
  BY <1>1, <1>2, <1>3, <1>4, <1>5

LEMMA OpenTmpfileInv == Inv /\ OpenTmpfile => Inv'
<1>. SUFFICES ASSUME Inv, OpenTmpfile PROVE Inv'
  OBVIOUS
<1>. USE FileAssumption DEF Inv, OpenTmpfile, config
<1>1. TypeOK'
  BY DEF TypeOK, StreamInv, MemoryInv, TmpInv, Contents, Missing, Closed, Opened
<1>2. StreamInv'
  BY DEF StreamInv, TypeOK, Closed, Opened
<1>3. MemoryInv'
  BY DEF MemoryInv, TypeOK, Contents, Missing, Saving, DamageIsDetected, NeverTorn, PathInv, Opened
<1>4. TmpInv'
  BY DEF TmpInv, TypeOK, StreamInv, Closed, Opened
<1>5. PathInv'
  BY DEF PathInv, TypeOK, Contents, StreamInv, MemoryInv, TmpInv, Closed, Missing, Saving, SavedMeansVisible, RolledBack, OldOrNew, NeverTorn, Opened
<1>. QED
  BY <1>1, <1>2, <1>3, <1>4, <1>5

LEMMA OpenTmpInv == Inv /\ OpenTmp => Inv'
<1>. SUFFICES ASSUME Inv, OpenTmp PROVE Inv'
  OBVIOUS
<1>. USE FileAssumption DEF Inv, OpenTmp, config
<1>1. TypeOK'
  BY DEF TypeOK, StreamInv, MemoryInv, TmpInv, Contents, Missing, Closed, Opened
<1>2. StreamInv'
  BY DEF StreamInv, TypeOK, Closed, Opened
<1>3. MemoryInv'
  BY DEF MemoryInv, TypeOK, Contents, Missing, Saving, DamageIsDetected, NeverTorn, PathInv, Opened
<1>4. TmpInv'
  BY DEF TmpInv, TypeOK, StreamInv, Closed, Opened
<1>5. PathInv'
  BY DEF PathInv, TypeOK, Contents, StreamInv, MemoryInv, TmpInv, Closed, Missing, Saving, SavedMeansVisible, RolledBack, OldOrNew, NeverTorn, Opened
<1>. QED
  BY <1>1, <1>2, <1>3, <1>4, <1>5

LEMMA OpenPlainInv == Inv /\ OpenPlain => Inv'
<1>. SUFFICES ASSUME Inv, OpenPlain PROVE Inv'
  OBVIOUS
<1>. USE FileAssumption DEF Inv, OpenPlain, config
<1>1. TypeOK'
  BY DEF TypeOK, StreamInv, MemoryInv, TmpInv, Contents, Missing, Closed, Opened
<1>2. StreamInv'
  BY DEF StreamInv, TypeOK, Closed, Opened, Missing
<1>3. MemoryInv'
  BY DEF MemoryInv, TypeOK, Contents, Missing, Saving, DamageIsDetected, NeverTorn, PathInv, Opened
<1>4. TmpInv'
  BY DEF TmpInv, TypeOK, StreamInv, Closed, Opened, Missing
<1>5. PathInv'
  BY DEF PathInv, TypeOK, Contents, StreamInv, MemoryInv, TmpInv, Closed, Missing, Saving, SavedMeansVisible, RolledBack, OldOrNew, NeverTorn, Opened
<1>. QED
  BY <1>1, <1>2, <1>3, <1>4, <1>5

LEMMA OpenFailsInv == Inv /\ OpenFails => Inv'
<1>. SUFFICES ASSUME Inv, OpenFails PROVE Inv'
  OBVIOUS
<1>. USE FileAssumption DEF Inv, OpenFails, config
<1>1. TypeOK'
  BY DEF TypeOK, StreamInv, MemoryInv, TmpInv, Contents, Missing, Closed, Ends
<1>2. StreamInv'
  BY DEF StreamInv, TypeOK, Closed, Ends, Missing
<1>3. MemoryInv'
  BY DEF MemoryInv, TypeOK, Contents, Missing, Saving, DamageIsDetected, NeverTorn, PathInv, Ends
<1>4. TmpInv'
  BY DEF TmpInv, TypeOK, StreamInv, Closed, Ends, Missing
<1>5. PathInv'
  BY DEF PathInv, TypeOK, Contents, StreamInv, MemoryInv, TmpInv, Closed, Missing, Saving, SavedMeansVisible, RolledBack, OldOrNew, NeverTorn, Ends
<1>. QED
  BY <1>1, <1>2, <1>3, <1>4, <1>5

LEMMA WriteInv == Inv /\ Write => Inv'
<1>. SUFFICES ASSUME Inv, Write PROVE Inv'
  OBVIOUS
<1>. USE FileAssumption DEF Inv, Write, config
<1>. DEFINE new == [version |-> memory.version, torn |-> FALSE]
<1>1. memory \in [version : 0..MaxSaves, torn : BOOLEAN] /\ ~memory.torn /\ memory = new
  BY DEF TypeOK, MemoryInv, Contents, Saving
<1>2. stream.kind = "tmp" => tmp' = new
  <2>1. stream.kind = "tmp" =>
          tmp' = [[version |-> memory.version, torn |-> stream.torn] EXCEPT !.torn = FALSE]
    BY Zenon DEF TmpInv
  <2>. QED
    BY <2>1
<1>3. stream.kind = "plain" => path' = new
  <2>1. stream.kind = "plain" =>
          path' = [[version |-> memory.version, torn |-> stream.torn] EXCEPT !.torn = FALSE]
    BY Zenon DEF PathInv
  <2>. QED
    BY <2>1
<1>4. stream'.kind = stream.kind /\ stream'.torn = FALSE
  BY DEF TypeOK
<1>5. TypeOK'
  <2>1. new \in Contents
    BY <1>1 DEF Contents
  <2>2. path' \in Contents /\ tmp' \in Contents
    BY <2>1, <1>2, <1>3 DEF TypeOK
  <2>3. stream' \in [kind : {"closed", "tmpfile", "tmp", "plain"}, torn : BOOLEAN]
    BY DEF TypeOK
  <2>. QED
    BY <2>2, <2>3 DEF TypeOK
<1>6. StreamInv'
  BY <1>4 DEF StreamInv
<1>7. MemoryInv'
  BY DEF MemoryInv, Saving, DamageIsDetected
<1>8. TmpInv'
  BY <1>2, <1>4 DEF TmpInv
<1>9. PathInv'
  BY <1>1, <1>3, <1>4 DEF PathInv, StreamInv, Saving, SavedMeansVisible, RolledBack, OldOrNew, NeverTorn
<1>. QED
  BY <1>5, <1>6, <1>7, <1>8, <1>9

LEMMA WriteFailsInv == Inv /\ WriteFails => Inv'
<1>. SUFFICES ASSUME Inv, WriteFails PROVE Inv'
  OBVIOUS
<1>. USE FileAssumption DEF Inv, WriteFails, config
<1>1. TypeOK'
  BY DEF TypeOK, StreamInv, MemoryInv, TmpInv, Contents, Missing, Closed, DeleteTmp, Ends
<1>2. StreamInv'
  BY DEF StreamInv, TypeOK, Closed, DeleteTmp, Ends
<1>3. MemoryInv'
  BY DEF MemoryInv, TypeOK, Contents, Missing, Saving, DamageIsDetected, NeverTorn, PathInv, DeleteTmp, Ends
<1>4. TmpInv'
  BY DEF TmpInv, TypeOK, StreamInv, Closed, DeleteTmp, Ends
<1>5. PathInv'
  BY DEF PathInv, TypeOK, Contents, StreamInv, MemoryInv, TmpInv, Closed, Missing, Saving, SavedMeansVisible, RolledBack, OldOrNew, NeverTorn, DeleteTmp, Ends
<1>. QED
  BY <1>1, <1>2, <1>3, <1>4, <1>5

LEMMA UnlinkInv == Inv /\ Unlink => Inv'
<1>. SUFFICES ASSUME Inv, Unlink PROVE Inv'
  OBVIOUS
<1>. USE FileAssumption DEF Inv, Unlink, config
<1>1. TypeOK'
  BY DEF TypeOK, StreamInv, MemoryInv, TmpInv, Contents, Missing, Closed
<1>2. StreamInv'
  BY DEF StreamInv, TypeOK, Closed
<1>3. MemoryInv'
  BY DEF MemoryInv, TypeOK, Contents, Missing, Saving, DamageIsDetected, NeverTorn, PathInv
<1>4. TmpInv'
  BY DEF TmpInv, TypeOK, StreamInv, Closed
<1>5. PathInv'
  BY DEF PathInv, TypeOK, Contents, StreamInv, MemoryInv, TmpInv, Closed, Missing, Saving, SavedMeansVisible, RolledBack, OldOrNew, NeverTorn
<1>. QED
  BY <1>1, <1>2, <1>3, <1>4, <1>5

LEMMA LinkInv == Inv /\ Link => Inv'
<1>. SUFFICES ASSUME Inv, Link PROVE Inv'
  OBVIOUS
<1>. USE FileAssumption DEF Inv, Link, config
<1>1. TypeOK'
  BY DEF TypeOK, StreamInv, MemoryInv, TmpInv, Contents, Missing, Closed, Written
<1>2. StreamInv'
  BY DEF StreamInv, TypeOK, Closed, Written
<1>3. MemoryInv'
  BY DEF MemoryInv, TypeOK, Contents, Missing, Saving, DamageIsDetected, NeverTorn, PathInv, Written
<1>4. TmpInv'
  BY DEF TmpInv, TypeOK, StreamInv, Closed, Written
<1>5. PathInv'
  BY DEF PathInv, TypeOK, Contents, StreamInv, MemoryInv, TmpInv, Closed, Missing, Saving, SavedMeansVisible, RolledBack, OldOrNew, NeverTorn, Written
<1>. QED
  BY <1>1, <1>2, <1>3, <1>4, <1>5

LEMMA LinkFailsInv == Inv /\ LinkFails => Inv'
<1>. SUFFICES ASSUME Inv, LinkFails PROVE Inv'
  OBVIOUS
<1>. USE FileAssumption DEF Inv, LinkFails, config
<1>1. TypeOK'
  BY DEF TypeOK, StreamInv, MemoryInv, TmpInv, Contents, Missing, Closed, Ends
<1>2. StreamInv'
  BY DEF StreamInv, TypeOK, Closed, Ends
<1>3. MemoryInv'
  BY DEF MemoryInv, TypeOK, Contents, Missing, Saving, DamageIsDetected, NeverTorn, PathInv, Ends
<1>4. TmpInv'
  BY DEF TmpInv, TypeOK, StreamInv, Closed, Ends
<1>5. PathInv'
  BY DEF PathInv, TypeOK, Contents, StreamInv, MemoryInv, TmpInv, Closed, Missing, Saving, SavedMeansVisible, RolledBack, OldOrNew, NeverTorn, Ends
<1>. QED
  BY <1>1, <1>2, <1>3, <1>4, <1>5

LEMMA CloseInv == Inv /\ Close => Inv'
<1>. SUFFICES ASSUME Inv, Close PROVE Inv'
  OBVIOUS
<1>. USE FileAssumption DEF Inv, Close, config
<1>1. TypeOK'
  <2>1. stream' \in [kind : {"closed", "tmpfile", "tmp", "plain"}, torn : BOOLEAN]
    <3>1. Closed \in [kind : {"closed", "tmpfile", "tmp", "plain"}, torn : BOOLEAN]
      BY DEF Closed
    <3>. QED
      BY <3>1 DEF TypeOK, Ends
  <2>2. pc' = "idle" /\ tmp' # Missing => crashes' > 0
    BY DEF TmpInv, Ends
  <2>3. /\ result' \in {"none", "ok", "failed"} /\ file_exists' \in BOOLEAN
        /\ pc' \in {"idle", "rename"}
    BY DEF TypeOK, Ends
  <2>. QED
    BY <2>1, <2>2, <2>3 DEF TypeOK
<1>2. StreamInv'
  BY DEF StreamInv, TypeOK, Closed, Ends
<1>3. MemoryInv'
  BY DEF MemoryInv, TypeOK, Contents, Missing, Saving, DamageIsDetected, NeverTorn, PathInv, Ends
<1>4. TmpInv'
  BY DEF TmpInv, TypeOK, StreamInv, Closed, Ends
<1>5. PathInv'
  BY DEF PathInv, TypeOK, Contents, StreamInv, MemoryInv, TmpInv, Closed, Missing, Saving, SavedMeansVisible, RolledBack, OldOrNew, NeverTorn, Ends
<1>. QED
  BY <1>1, <1>2, <1>3, <1>4, <1>5

LEMMA CloseFailsInv == Inv /\ CloseFails => Inv'
<1>. SUFFICES ASSUME Inv, CloseFails PROVE Inv'
  OBVIOUS
<1>. USE FileAssumption DEF Inv, CloseFails, config
<1>1. TypeOK'
  BY DEF TypeOK, StreamInv, MemoryInv, TmpInv, Contents, Missing, Closed, DeleteTmp, Ends
<1>2. StreamInv'
  BY DEF StreamInv, TypeOK, Closed, DeleteTmp, Ends
<1>3. MemoryInv'
  BY DEF MemoryInv, TypeOK, Contents, Missing, Saving, DamageIsDetected, NeverTorn, PathInv, DeleteTmp, Ends
<1>4. TmpInv'
  BY DEF TmpInv, TypeOK, StreamInv, Closed, DeleteTmp, Ends
<1>5. PathInv'
  BY DEF PathInv, TypeOK, Contents, StreamInv, MemoryInv, TmpInv, Closed, Missing, Saving, SavedMeansVisible, RolledBack, OldOrNew, NeverTorn, DeleteTmp, Ends
<1>. QED
  BY <1>1, <1>2, <1>3, <1>4, <1>5

LEMMA RenameInv == Inv /\ Rename => Inv'
<1>. SUFFICES ASSUME Inv, Rename PROVE Inv'
  OBVIOUS
<1>. USE FileAssumption DEF Inv, Rename, config
<1>1. TypeOK'
  BY DEF TypeOK, StreamInv, MemoryInv, TmpInv, Contents, Missing, Closed, Ends
<1>2. StreamInv'
  BY DEF StreamInv, TypeOK, Closed, Ends
<1>3. MemoryInv'
  BY DEF MemoryInv, TypeOK, Contents, Missing, Saving, DamageIsDetected, NeverTorn, PathInv, Ends
<1>4. TmpInv'
  BY DEF TmpInv, TypeOK, StreamInv, Closed, Ends
<1>5. PathInv'
  BY DEF PathInv, TypeOK, Contents, StreamInv, MemoryInv, TmpInv, Closed, Missing, Saving, SavedMeansVisible, RolledBack, OldOrNew, NeverTorn, Ends
<1>. QED
  BY <1>1, <1>2, <1>3, <1>4, <1>5

LEMMA RenameFailsInv == Inv /\ RenameFails => Inv'
<1>. SUFFICES ASSUME Inv, RenameFails PROVE Inv'
  OBVIOUS
<1>. USE FileAssumption DEF Inv, RenameFails, config
<1>1. TypeOK'
  BY DEF TypeOK, StreamInv, MemoryInv, TmpInv, Contents, Missing, Closed, DeleteTmp, Ends
<1>2. StreamInv'
  BY DEF StreamInv, TypeOK, Closed, DeleteTmp, Ends
<1>3. MemoryInv'
  BY DEF MemoryInv, TypeOK, Contents, Missing, Saving, DamageIsDetected, NeverTorn, PathInv, DeleteTmp, Ends
<1>4. TmpInv'
  BY DEF TmpInv, TypeOK, StreamInv, Closed, DeleteTmp, Ends
<1>5. PathInv'
  BY DEF PathInv, TypeOK, Contents, StreamInv, MemoryInv, TmpInv, Closed, Missing, Saving, SavedMeansVisible, RolledBack, OldOrNew, NeverTorn, DeleteTmp, Ends
<1>. QED
  BY <1>1, <1>2, <1>3, <1>4, <1>5

LEMMA CrashInv == Inv /\ Crash => Inv'
<1>. SUFFICES ASSUME Inv, Crash PROVE Inv'
  OBVIOUS
<1>. USE FileAssumption DEF Inv, Crash, config
<1>1. TypeOK'
  BY DEF TypeOK, StreamInv, MemoryInv, TmpInv, Contents, Missing, Closed
<1>2. StreamInv'
  BY DEF StreamInv, TypeOK, Closed
<1>3. MemoryInv'
  BY DEF MemoryInv, TypeOK, Contents, Missing, Saving, DamageIsDetected, NeverTorn, PathInv
<1>4. TmpInv'
  BY DEF TmpInv, TypeOK, StreamInv, Closed
<1>5. PathInv'
  BY DEF PathInv, TypeOK, Contents, StreamInv, MemoryInv, TmpInv, Closed, Missing, Saving, SavedMeansVisible, RolledBack, OldOrNew, NeverTorn
<1>. QED
  BY <1>1, <1>2, <1>3, <1>4, <1>5

----------------------------------------------------------------------------
(***************************************************************************)
(* Theorems.                                                               *)
(***************************************************************************)

\* At every step, crash and failure included, the stream, both files and the
\* database in memory fit together as Inv says.
THEOREM Invariance == Spec => []Inv
<1>1. Init => Inv
  <2>. SUFFICES ASSUME Init PROVE Inv
    OBVIOUS
  <2>. USE FileAssumption DEF Init
  <2>1. TypeOK
    <3>1. Missing \in Contents /\ NewRoot \in Contents
      BY DEF Contents, NewRoot
    <3>2. Closed \in [kind : {"closed", "tmpfile", "tmp", "plain"}, torn : BOOLEAN]
      BY DEF Closed
    <3>3. {path, tmp, memory, before} \subseteq Contents
      BY <3>1
    <3>4. crashes \in 0..MaxCrashes
      OBVIOUS
    <3>. QED
      BY <3>2, <3>3, <3>4 DEF TypeOK
  <2>2. StreamInv /\ TmpInv
    BY DEF StreamInv, TmpInv, Closed
  <2>3. MemoryInv
    BY DEF MemoryInv, DamageIsDetected, Missing, NewRoot, Saving
  <2>4. PathInv
    BY DEF PathInv, SavedMeansVisible, RolledBack, OldOrNew, NeverTorn, Closed, Saving
  <2>. QED
    BY <2>1, <2>2, <2>3, <2>4 DEF Inv
<1>2. Inv /\ [Next]_vars => Inv'
  <2>. SUFFICES ASSUME Inv, [Next]_vars PROVE Inv'
    OBVIOUS
  <2>1. CASE Open
    BY <2>1, OpenInv
  <2>2. CASE Update
    BY <2>2, UpdateInv
  <2>3. CASE SaveAgain
    BY <2>3, SaveAgainInv
  <2>4. CASE OpenTmpfile
    BY <2>4, OpenTmpfileInv
  <2>5. CASE OpenTmp
    BY <2>5, OpenTmpInv
  <2>6. CASE OpenPlain
    BY <2>6, OpenPlainInv
  <2>7. CASE OpenFails
    BY <2>7, OpenFailsInv
  <2>8. CASE Write
    BY <2>8, WriteInv
  <2>9. CASE WriteFails
    BY <2>9, WriteFailsInv
  <2>10. CASE Unlink
    BY <2>10, UnlinkInv
  <2>11. CASE Link
    BY <2>11, LinkInv
  <2>12. CASE LinkFails
    BY <2>12, LinkFailsInv
  <2>13. CASE Close
    BY <2>13, CloseInv
  <2>14. CASE CloseFails
    BY <2>14, CloseFailsInv
  <2>15. CASE Rename
    BY <2>15, RenameInv
  <2>16. CASE RenameFails
    BY <2>16, RenameFailsInv
  <2>17. CASE Crash
    BY <2>17, CrashInv
  <2>18. CASE UNCHANGED vars
    BY <2>18 DEF vars, config, Inv, TypeOK, StreamInv, MemoryInv, TmpInv, PathInv, SavedMeansVisible,
         RolledBack, OldOrNew, NeverTorn, DamageIsDetected
  <2>. QED
    BY <2>1, <2>2, <2>3, <2>4, <2>5, <2>6, <2>7, <2>8, <2>9, <2>10, <2>11, <2>12, <2>13, <2>14, <2>15, <2>16, <2>17, <2>18 DEF Next, SaveStep
<1>. QED
  BY <1>1, <1>2, PTL DEF Spec

\* Every variable keeps its type, and a path.tmp that is found between two saves
\* was left by a crash.
THEOREM TypeCorrect == Spec => []TypeOK
  BY Invariance, PTL DEF Inv

\* When Save() returns without an exception, what a reader finds at the path is
\* the database in memory, whichever of the three ways it was written.
THEOREM SaveIsDurable == Spec => []SavedMeansVisible
  BY Invariance, PTL DEF Inv, PathInv

\* When a Save() through path.tmp throws, at whichever call, the file is the one
\* from before.
THEOREM FailureRollsBack == Spec => []RolledBack
  BY Invariance, PTL DEF Inv, PathInv

\* A process that dies at any step of a Save() through path.tmp leaves the old
\* database or the new one.
THEOREM CrashLeavesOldOrNew == Spec => []OldOrNew
  BY Invariance, PTL DEF Inv, PathInv

\* Where a temporary file can be had, the path never shows a partly written one.
THEOREM PathIsNeverTorn == Spec => []NeverTorn
  BY Invariance, PTL DEF Inv, PathInv

\* Load() takes a damaged file for a database only if it is uncompressed and had
\* to be overwritten in place.
THEOREM LoadDetectsDamage == Spec => []DamageIsDetected
  BY Invariance, PTL DEF Inv, MemoryInv
=============================================================================
