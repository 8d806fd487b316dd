---------------------------- MODULE MCThreadHandle -----------------------------
(* A small instance of ThreadHandle: the thread and two others, all three  *)
(* addresses in one bucket.                                                *)
EXTENDS ThreadHandle
CONSTANTS t1, t2, t3, b1, ready, exiting, once
MCBucketOf == [m \in Addrs |-> b1]
=============================================================================
