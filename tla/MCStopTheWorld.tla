---------------------------- MODULE MCStopTheWorld ----------------------------
(* Two threads in one interpreter and one in another.                      *)
EXTENDS StopTheWorld
CONSTANTS t1, t2, u1, i1, i2
MCInterpOf == [t \in Threads |-> IF t = u1 THEN i2 ELSE i1]
=============================================================================
