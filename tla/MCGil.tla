-------------------------------- MODULE MCGil ---------------------------------
(* A small instance of Gil.                                                *)
EXTENDS Gil
CONSTANTS t1, t2, t3
=============================================================================
