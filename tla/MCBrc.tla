-------------------------------- MODULE MCBrc ---------------------------------
(* A small instance of Brc.                                                *)
EXTENDS Brc
CONSTANTS t1, t2, t3
=============================================================================
