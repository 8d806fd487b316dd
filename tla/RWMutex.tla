------------------------------- MODULE RWMutex --------------------------------
(***************************************************************************)
(* _PyRWMutex of Python/lock.c on top of the parking lot: many readers or  *)
(* one writer, and a writer that waits keeps new readers out.              *)
(*                                                                         *)
(* Readers and writers sleep in the same queue and are woken all together; *)
(* each of them then decides from the bits alone whether to go back to     *)
(* sleep.  The grain is the atomic operation on the bits.                  *)
(***************************************************************************)
EXTENDS ParkingLot

ASSUME ThreadsFinite == IsFiniteSet(Threads)

(* bits is 4 * readers + HAS_PARKED + WRITE_LOCKED; the assertion that the *)
(* count of readers stays below _Py_RWMUTEX_MAX_READERS needs 2^62 threads. *)
WRITE_LOCKED == 1
HAS_PARKED == 2
ONE_READER == 4
WriteLocked(x) == x % 2 = 1
HasParked(x) == (x \div 2) % 2 = 1
ReaderCount(x) == x \div ONE_READER
WithParked(x) == IF HasParked(x) THEN x ELSE x + HAS_PARKED

VARIABLES
    bits,   \* _PyRWMutex.bits
    pc,     \* where each thread is
    v,      \* the local bits of RLock and Lock
    kind    \* what each thread's call is for: "read" or "write"

rwVars == <<bits, pc, v, kind>>
vars == <<parkVars, rwVars>>

PCs == {"idle", "loop", "parked", "reload", "held", "unpark", "wakeup"}
Kinds == {"read", "write"}

TypeOK ==
    /\ ParkTypeOK
    /\ bits \in [Addrs -> Nat]
    /\ pc \in [Threads -> PCs]
    /\ v \in [Threads -> Nat]
    /\ kind \in [Threads -> Kinds]

Init ==
    /\ ParkInit
    /\ bits = [m \in Addrs |-> 0]
    /\ pc = [t \in Threads |-> "idle"]
    /\ v = [t \in Threads |-> 0]
    /\ kind = [t \in Threads |-> "read"]

Goto(t, label) == pc' = [pc EXCEPT ![t] = label]
Load(t) == v' = [v EXCEPT ![t] = bits[addr[t]]]

CasSucceeds(t, new) ==
    /\ bits[addr[t]] = v[t]
    /\ bits' = [bits EXCEPT ![addr[t]] = new]

CasMiss(t) == bits[addr[t]] # v[t] /\ UNCHANGED bits /\ Load(t)

(* A call returns, or gets to a point where its locals no longer matter.   *)
Drop(t, label) == Goto(t, label) /\ v' = [v EXCEPT ![t] = 0]

-----------------------------------------------------------------------------
(* _PyRWMutex_RLock and _PyRWMutex_Lock, which share their waiting.        *)

CallLock(t) ==
    /\ pc[t] = "idle"
    /\ \E m \in Addrs, k \in Kinds :
           /\ addr' = [addr EXCEPT ![t] = m]
           /\ kind' = [kind EXCEPT ![t] = k]
           /\ v' = [v EXCEPT ![t] = bits[m]]
    /\ Goto(t, "loop")
    /\ UNCHANGED <<bucketOwner, waiters, parkState, isUnparking, sema, waking, bits>>

(* Faulty variant: a reader that ignores the writers that wait.            *)
ReaderMayEnterEarly(t) == kind[t] = "read" /\ ~WriteLocked(v[t])

(* A reader goes in when there is neither a writer nor anyone parked ...   *)
ReaderMayEnter(t) == kind[t] = "read" /\ ~WriteLocked(v[t]) /\ ~HasParked(v[t])

(* Faulty variant: a writer that goes in beside readers.                   *)
WriterMayEnterAmongReaders(t) == kind[t] = "write" /\ ~WriteLocked(v[t])

(* ... a writer when nobody is inside, whoever is parked.                  *)
WriterMayEnter(t) == kind[t] = "write" /\ v[t] \in {0, HAS_PARKED}

RLock(t) ==
    /\ pc[t] = "loop"
    /\ ReaderMayEnter(t)
    /\ \/ CasSucceeds(t, v[t] + ONE_READER) /\ Drop(t, "held")
       \/ CasMiss(t) /\ UNCHANGED pc
    /\ UNCHANGED <<parkVars, kind>>

Lock(t) ==
    /\ pc[t] = "loop"
    /\ WriterMayEnter(t)
    /\ \/ CasSucceeds(t, v[t] + WRITE_LOCKED) /\ Drop(t, "held")
       \/ CasMiss(t) /\ UNCHANGED pc
    /\ UNCHANGED <<parkVars, kind>>

MustWait(t) ==
    /\ pc[t] = "loop"
    /\ ~ReaderMayEnter(t)
    /\ ~WriterMayEnter(t)

(* rwmutex_set_parked_and_wait: set HAS_PARKED unless it is there ...      *)
SetParked(t) ==
    /\ MustWait(t)
    /\ ~HasParked(v[t])
    /\ \/ CasSucceeds(t, WithParked(v[t])) /\ v' = [v EXCEPT ![t] = WithParked(@)]
       \/ CasMiss(t)
    /\ UNCHANGED <<parkVars, pc, kind>>

(* ... and park while the bits are still those.                            *)
Park(t) ==
    /\ MustWait(t)
    /\ HasParked(v[t])
    /\ \/ ParkCompare(t, bits[addr[t]], v[t]) /\ Goto(t, "parked")
       \/ ParkAgain(t, bits[addr[t]], v[t]) /\ Goto(t, "reload")
    /\ UNCHANGED <<bits, v, kind>>

Enqueue(t) == ParkEnqueue(t) /\ UNCHANGED rwVars

(* There is no deadline, but any wait can be interrupted by a signal.      *)
SemaInterrupted(t) == WaitFails(t, "INTR") /\ UNCHANGED rwVars

Drain(t) == ParkDrain(t) /\ UNCHANGED rwVars

(* The result of _PyParkingLot_Park is ignored.                            *)
Unparked(t) ==
    /\ ParkOk(t) \/ ParkGiveUp(t)
    /\ Goto(t, "reload")
    /\ UNCHANGED <<bits, v, kind>>

Reload(t) ==
    /\ pc[t] = "reload"
    /\ Load(t)
    /\ Goto(t, "loop")
    /\ UNCHANGED <<parkVars, bits, kind>>

-----------------------------------------------------------------------------
(* _PyRWMutex_RUnlock, _PyRWMutex_Unlock and the _PyParkingLot_UnparkAll   *)
(* that follows the change of the bits.                                    *)

(* Faulty variant of RUnlock: the last reader does not wake the queue.     *)
RUnlockForgets(t) ==
    /\ pc[t] = "held"
    /\ kind[t] = "read"
    /\ bits' = [bits EXCEPT ![addr[t]] = @ - ONE_READER]
    /\ Drop(t, "idle")
    /\ UNCHANGED <<parkVars, kind>>

RUnlock(t) ==
    /\ pc[t] = "held"
    /\ kind[t] = "read"
    /\ LET left == bits[addr[t]] - ONE_READER
       IN  /\ bits' = [bits EXCEPT ![addr[t]] = left]
           /\ Drop(t, IF ReaderCount(left) = 0 /\ HasParked(left) THEN "unpark" ELSE "idle")
    /\ UNCHANGED <<parkVars, kind>>

Unlock(t) ==
    /\ pc[t] = "held"
    /\ kind[t] = "write"
    /\ bits' = [bits EXCEPT ![addr[t]] = 0]
    /\ Drop(t, IF HasParked(bits[addr[t]]) THEN "unpark" ELSE "idle")
    /\ UNCHANGED <<parkVars, kind>>

UnparkWaiters(t) ==
    /\ pc[t] = "unpark"
    /\ UnparkAll(t)
    /\ Goto(t, IF waking'[t] = {} THEN "idle" ELSE "wakeup")
    /\ UNCHANGED <<bits, v, kind>>

Post(t) ==
    /\ pc[t] = "wakeup"
    /\ \E w \in Threads : Wakeup(t, w)
    /\ Goto(t, IF waking'[t] = {} THEN "idle" ELSE "wakeup")
    /\ UNCHANGED <<bits, v, kind>>

-----------------------------------------------------------------------------
LockStep(t) ==
    \/ RLock(t) \/ Lock(t) \/ SetParked(t) \/ Park(t) \/ Enqueue(t)
    \/ Drain(t) \/ Unparked(t) \/ Reload(t)

UnlockStep(t) == RUnlock(t) \/ Unlock(t) \/ UnparkWaiters(t) \/ Post(t)

Next ==
    \E t \in Threads :
        CallLock(t) \/ LockStep(t) \/ UnlockStep(t) \/ SemaInterrupted(t)

Spec == Init /\ [][Next]_vars

(* The scheduler runs every runnable thread and whoever is inside gets out. *)
FairSpec == Spec /\ \A t \in Threads : WF_vars(LockStep(t) \/ UnlockStep(t))

-----------------------------------------------------------------------------
Reads(t, m) == pc[t] = "held" /\ kind[t] = "read" /\ addr[t] = m
Writes(t, m) == pc[t] = "held" /\ kind[t] = "write" /\ addr[t] = m

(* A thread in the queue that nobody has begun to wake.                    *)
Queued(t) == parkState[t] \in {"asleep", "TIMEOUT", "INTR"} /\ t \notin isUnparking

(* A writer is alone inside, and the bits count who is inside: an unlock   *)
(* by exchange with 0 loses no reader (pycore_lock.h:178-187).             *)
ReadersXorWriter ==
    /\ TypeOK
    /\ \A m \in Addrs :
          LET readers == {t \in Threads : Reads(t, m)}
              writers == {t \in Threads : Writes(t, m)}
          IN  /\ ReaderCount(bits[m]) = Cardinality(readers)
              /\ Cardinality(writers) = IF WriteLocked(bits[m]) THEN 1 ELSE 0
              /\ writers = {} \/ readers = {}

(* A thread that will look at the bits of m of its own accord.             *)
OnItsWay(t, m) ==
    /\ addr[t] = m
    /\ pc[t] \in {"loop", "reload"} \/ (pc[t] = "parked" /\ ~Queued(t))

(* No thread sleeps for ever.  A sleeper leaves HAS_PARKED on unless its   *)
(* waker is already at the queue.  When nobody is inside, then a thread    *)
(* is about to empty the queue or there is a writer on its way: readers    *)
(* only go back to sleep while HAS_PARKED is on, and only the unlock of a  *)
(* writer turns it off.                                                    *)
NobodyIsForgotten ==
    \A t \in Threads : Queued(t) =>
        LET m == addr[t]
            waker == \E u \in Threads : addr[u] = m /\ pc[u] = "unpark"
        IN  /\ HasParked(bits[m]) \/ waker
            /\ \/ WriteLocked(bits[m])
               \/ ReaderCount(bits[m]) > 0
               \/ waker
               \/ \E u \in Threads : kind[u] = "write" /\ OnItsWay(u, m)

(* Write preference: while anyone sleeps in the queue, the readers who     *)
(* hold the lock are joined by no other, unless the queue is about to be   *)
(* emptied (lock.c:467-474).  A reader that loaded the bits before         *)
(* HAS_PARKED went on is caught by its exchange.                           *)
WritersFirst ==
    [][\A t \in Threads :
          pc[t] = "loop" /\ pc'[t] = "held" /\ kind[t] = "read" =>
              \A w \in Threads :
                  Queued(w) /\ addr[w] = addr[t] =>
                      \E u \in Threads : addr[u] = addr[t] /\ pc[u] = "unpark"]_vars

(* ... and so a writer that waits is not starved: once HAS_PARKED is on     *)
(* and readers are inside, some writer gets in.  Only interruptions that   *)
(* never end could keep the last reader out of the bucket, whose mutex is  *)
(* not fair.                                                               *)
InterruptionsStop ==
    <>[][\A t \in Threads : parkState'[t] = "INTR" => parkState[t] = "INTR"]_vars

WritersGetIn ==
    InterruptionsStop =>
        \A m \in Addrs :
            HasParked(bits[m]) /\ ~WriteLocked(bits[m]) ~> WriteLocked(bits[m])

(* _PyRWMutex implements RWLock.  A call to lock that has been made does   *)
(* not come back without the lock (lock.c:455-483, 499-517).               *)
Place(t) ==
    CASE pc[t] = "held"                         -> "inside"
      [] pc[t] \in {"loop", "parked", "reload"} -> "asks"
      [] OTHER                                  -> "out"

AbstractRWLock == INSTANCE RWLock WITH
    Locks <- Addrs,
    place <- [t \in Threads |-> Place(t)]

ImplementsRWLock == AbstractRWLock!RWLockSpec
=============================================================================
