------------------------------ MODULE MCPyMutex -------------------------------
(* A small instance of PyMutex: both mutexes hash to the one bucket.       *)
EXTENDS PyMutex
CONSTANTS t1, t2, t3, m1, m2, b1
MCBucketOf == [m \in Addrs |-> b1]
MCModes == t1 :> {"signals"} @@ t2 :> {"timed"} @@ t3 :> {"try"}
=============================================================================
