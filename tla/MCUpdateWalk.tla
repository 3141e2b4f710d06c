---------------------------- MODULE MCUpdateWalk ----------------------------
(***************************************************************************)
(* Small music directories to check UpdateWalk on.                         *)
(***************************************************************************)
EXTENDS UpdateWalk

CONSTANTS a, b, c, d, e

Directories == {n \in Nodes : Kind[n] = "directory"}

File == [type |-> "file", access |-> TRUE, mtime |-> 0, plain |-> "bad",
         tracks |-> {}, targets |-> {}, count |-> 0]
Other(type) == [File EXCEPT !.type = type]

\* a directory d with a song a in it, and a container b beside it
AlbumNodes == {a, b, d}
AlbumParent == a :> d @@ b :> Root @@ d :> Root
AlbumKind == a :> "song" @@ b :> "container" @@ d :> "directory"
AlbumContents(n) ==
  CASE n = a -> {Absent, [File EXCEPT !.plain = "stereo"],
                 [File EXCEPT !.plain = "multi"], Other("symlink")}
    [] n = b -> {[File EXCEPT !.tracks = {"stereo", "multi"}],
                 [File EXCEPT !.tracks = {"multi"}, !.plain = "stereo"]}
    [] n = d -> {Absent, Other("dir"), Other("loop")}

\* a CUE sheet c for the songs a and b, where b may become a container with
\* tracks, and an archive e
SheetNodes == {a, b, c, e}
SheetParent == [n \in SheetNodes |-> Root]
SheetKind == a :> "song" @@ b :> "container" @@ c :> "cue" @@ e :> "archive"
SheetContents(n) ==
  CASE n = a -> {Absent, [File EXCEPT !.plain = "stereo"]}
    [] n = b -> {[File EXCEPT !.plain = "stereo"], [File EXCEPT !.tracks = {"stereo"}],
                 Other("broken")}
    [] n = c -> {Absent, [File EXCEPT !.targets = {a, b}, !.count = 4],
                 [File EXCEPT !.targets = {a}, !.count = 2]}
    [] n = e -> {[File EXCEPT !.tracks = {"stereo"}]}

=============================================================================
