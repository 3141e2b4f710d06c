------------------------------ MODULE MCOutputs ------------------------------
(* Two outputs, in this order.                                              *)
EXTENDS Outputs
CONSTANTS o1, o2
MCOrder == <<o1, o2>>
=============================================================================
