------------------------------ MODULE MCRWMutex -------------------------------
(* A small instance of RWMutex: one lock, three threads.                   *)
EXTENDS RWMutex
CONSTANTS t1, t2, t3, m1, b1
MCBucketOf == [m \in Addrs |-> b1]
=============================================================================
