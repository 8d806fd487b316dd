--------------------------------- MODULE Lock ---------------------------------
(***************************************************************************)
(* What a mutex promises to its callers: at most one thread holds it, it   *)
(* is taken only when nobody holds it or straight from the holder that     *)
(* releases it, and only by a thread that is inside a call to lock it.     *)
(* PyMutex and _PyRawMutex (Python/lock.c) implement this specification.   *)
(***************************************************************************)
CONSTANTS Threads, Locks

VARIABLES
    holds,   \* the pairs <<t, l>> such that t holds l
    wants    \* the pairs <<t, l>> such that t is inside a call to lock l

lockVars == <<holds, wants>>

LockTypeOK ==
    /\ holds \subseteq Threads \X Locks
    /\ wants \subseteq Threads \X Locks

LockInit == holds = {} /\ wants = {}

Free(l) == \A t \in Threads : <<t, l>> \notin holds

Request(t, l) ==
    /\ <<t, l>> \notin holds \cup wants
    /\ wants' = wants \cup {<<t, l>>}
    /\ UNCHANGED holds

(* A call that times out or is interrupted.                                *)
Abandon(t, l) ==
    /\ <<t, l>> \in wants
    /\ wants' = wants \ {<<t, l>>}
    /\ UNCHANGED holds

Acquire(t, l) ==
    /\ <<t, l>> \in wants
    /\ Free(l)
    /\ holds' = holds \cup {<<t, l>>}
    /\ wants' = wants \ {<<t, l>>}

Release(t, l) ==
    /\ <<t, l>> \in holds
    /\ holds' = holds \ {<<t, l>>}
    /\ UNCHANGED wants

(* The lock passes from t to u without ever being free.                    *)
HandOff(t, u, l) ==
    /\ <<t, l>> \in holds
    /\ <<u, l>> \in wants
    /\ holds' = (holds \ {<<t, l>>}) \cup {<<u, l>>}
    /\ wants' = wants \ {<<u, l>>}

LockNext ==
    \E t \in Threads, l \in Locks :
        \/ Request(t, l) \/ Abandon(t, l) \/ Acquire(t, l) \/ Release(t, l)
        \/ \E u \in Threads : HandOff(t, u, l)

LockSpec == LockInit /\ [][LockNext]_lockVars

(* No two threads hold the same lock.                                      *)
LockMutualExclusion ==
    \A p, q \in holds : p[2] = q[2] => p = q
=============================================================================
