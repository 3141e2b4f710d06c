----------------------------- MODULE MCPlaylist -----------------------------
(* Songs and state files for the runs of Playlist.                         *)
EXTENDS Playlist
CONSTANTS a, b, c
MCSaved == {<<>>, <<a, b, c>>, <<a, b, a>>}
=============================================================================
