--------------------------- MODULE MCRawMutexSignals --------------------------
(* A small instance of RawMutexSignals.                                    *)
EXTENDS RawMutexSignals
CONSTANTS t1, t2
=============================================================================
