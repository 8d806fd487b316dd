-------------------------- MODULE MCCriticalSection ---------------------------
(* Small instances of CriticalSection.                                     *)
EXTENDS CriticalSection
CONSTANTS t1, t2, t3
=============================================================================
