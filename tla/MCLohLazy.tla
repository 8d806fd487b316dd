------------------------------ MODULE MCLohLazy -------------------------------
(* A small instance of LohLazy: two threads, two results.                  *)
EXTENDS LohLazy
CONSTANTS t1, t2, x1, x2
=============================================================================
