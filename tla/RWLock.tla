-------------------------------- MODULE RWLock ---------------------------------
(***************************************************************************)
(* What a readers-writer lock promises to its callers: a thread comes in   *)
(* only through a call, a reader beside readers only, a writer alone, and  *)
(* nobody else puts a thread in or out.  _PyRWMutex (Python/lock.c)        *)
(* implements this specification, and StopTheWorld rests on it.            *)
(***************************************************************************)
CONSTANTS Threads, Locks

VARIABLES
    place,   \* "out", "asks" (inside a call to lock) or "inside"
    addr,    \* the lock each thread's call is about
    kind     \* what for: "read" or "write"

rwLockVars == <<place, addr, kind>>

RWLockInit ==
    /\ place = [t \in Threads |-> "out"]
    /\ addr \in [Threads -> Locks]
    /\ kind \in [Threads -> {"read", "write"}]

Ask(t) ==
    /\ place[t] = "out"
    /\ place' = [place EXCEPT ![t] = "asks"]
    /\ \E m \in Locks : addr' = [addr EXCEPT ![t] = m]
    /\ \E k \in {"read", "write"} : kind' = [kind EXCEPT ![t] = k]

Enter(t) ==
    /\ place[t] = "asks"
    /\ \A u \in Threads :
          place[u] = "inside" /\ addr[u] = addr[t] => kind[t] = "read" /\ kind[u] = "read"
    /\ place' = [place EXCEPT ![t] = "inside"]
    /\ UNCHANGED <<addr, kind>>

Leave(t) ==
    /\ place[t] = "inside"
    /\ place' = [place EXCEPT ![t] = "out"]
    /\ UNCHANGED <<addr, kind>>

RWLockNext == \E t \in Threads : Ask(t) \/ Enter(t) \/ Leave(t)

RWLockSpec == RWLockInit /\ [][RWLockNext]_rwLockVars
=============================================================================
