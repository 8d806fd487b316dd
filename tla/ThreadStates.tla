----------------------------- MODULE ThreadStates -----------------------------
(***************************************************************************)
(* What the two builds' ways of attaching have in common: the thread       *)
(* states that Gil (the default build) and StopTheWorld (the free-threaded *)
(* one) are about.                                                         *)
(***************************************************************************)
CONSTANTS
    Threads,    \* the thread states
    None        \* none of them (NULL)

ASSUME NoneType == None \notin Threads
=============================================================================
