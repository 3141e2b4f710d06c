--------------------------- MODULE MCInotifyQueue ---------------------------
(***************************************************************************)
(* Watched directories for InotifyQueue.                                   *)
(***************************************************************************)
EXTENDS InotifyQueue

\* "a/x/y" can be updated only if "a/x" is known; for "a/b/z", "a/b" has a
\* namesake in the music directory.
Nested == {<< >>, <<"a">>, <<"a", "x">>, <<"a", "x", "y">>,
           <<"a", "b">>, <<"a", "b", "z">>, <<"b">>}
Small == {<< >>, <<"a">>, <<"a", "x">>}
=============================================================================
