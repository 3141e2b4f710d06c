------------------------------ MODULE MCPlayer ------------------------------
(* A song that begins after the first chunk of its file, and a short one.  *)
EXTENDS Player
CONSTANTS s1, s2
MCStart == [s \in Songs |-> IF s = s1 THEN 1 ELSE 0]
MCLength == [s \in Songs |-> IF s = s1 THEN 2 ELSE 1]
=============================================================================
