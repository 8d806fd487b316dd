------------------------------ MODULE MCRawMutex ------------------------------
(* Small instances of RawMutex.                                            *)
EXTENDS RawMutex, TLC
CONSTANTS t1, t2, t3, t4
Symmetry == Permutations(Threads)
=============================================================================
