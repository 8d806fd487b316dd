------------------------------- MODULE PyMutex --------------------------------
(***************************************************************************)
(* PyMutex, the one-byte mutex of Python/lock.c, on top of the parking     *)
(* lot: _PyMutex_LockTimed with its timeout, signal and spinning paths,    *)
(* mutex_unpark with the direct hand-off to a waiter that has waited for   *)
(* longer than TIME_TO_BE_FAIR_NS, and _PyMutex_TryUnlock.                 *)
(*                                                                         *)
(* The grain is the atomic operation: a load, a compare-exchange and a     *)
(* store of _bits are steps, and what a thread loaded is in its local v.   *)
(***************************************************************************)
EXTENDS ParkingLot

CONSTANTS
    MAX_SPIN_COUNT,   \* 40 in free-threaded builds, 0 otherwise
    Modes             \* the kinds of calls each thread makes, out of AllModes

(* "block" is timeout = -1, "signals" is timeout = -1 with                 *)
(* _PY_LOCK_HANDLE_SIGNALS, "timed" is timeout > 0 and "try" is            *)
(* timeout = 0, also what "timed" becomes when its deadline has passed.    *)
AllModes == {"block", "signals", "timed", "try"}

ASSUME SpinType == MAX_SPIN_COUNT \in Nat
ASSUME ModesType == Modes \in [Threads -> SUBSET AllModes]

(* The values of _bits: LOCKED is 0b01, HAS_PARKED is 0b10.                *)
UNLOCKED == 0
LOCKED == 1
HAS_PARKED == 2
Bits == 0..3
IsLocked(x) == x \in {1, 3}
HasParked(x) == x \in {2, 3}
WithLocked(x) == IF IsLocked(x) THEN x ELSE x + LOCKED

VARIABLES
    bits,        \* PyMutex._bits
    pc,          \* where each thread is
    v,           \* the local v (and newv) of LockTimed and TryUnlock
    mode,        \* what is left of the timeout argument
    spin,        \* spin_count
    aged,        \* the threads for which now > entry.time_to_be_fair
    handedOff    \* the threads whose entry.handed_off is on

mutexVars == <<bits, pc, v, mode, spin, aged, handedOff>>
vars == <<parkVars, mutexVars>>

PCs == {"idle", "cas", "loop", "parked", "reload", "held",
        "unlock", "wakeup"}

LocalsTypeOK ==
    /\ pc \in [Threads -> PCs]
    /\ v \in [Threads -> Bits]
    /\ mode \in [Threads -> AllModes]
    /\ spin \in [Threads -> 0..MAX_SPIN_COUNT]
    /\ aged \subseteq Threads
    /\ handedOff \subseteq Threads

TypeOK == ParkTypeOK /\ LocalsTypeOK /\ bits \in [Addrs -> Bits]

Init ==
    /\ ParkInit
    /\ bits = [m \in Addrs |-> UNLOCKED]
    /\ pc = [t \in Threads |-> "idle"]
    /\ v = [t \in Threads |-> 0]
    /\ mode = [t \in Threads |-> "block"]
    /\ spin = [t \in Threads |-> 0]
    /\ aged = {}
    /\ handedOff = {}

Goto(t, label) == pc' = [pc EXCEPT ![t] = label]

(* A function returns: its locals are gone, here back at their first value. *)
Return(t, label) ==
    /\ Goto(t, label)
    /\ v' = [v EXCEPT ![t] = 0]
    /\ mode' = [mode EXCEPT ![t] = "block"]
    /\ spin' = [spin EXCEPT ![t] = 0]
    /\ aged' = aged \ {t}
    /\ handedOff' = handedOff \ {t}

(* A load of _bits, and a compare-exchange of v for new that hits or       *)
(* misses; one that misses goes with a Load.                               *)
Load(t) == v' = [v EXCEPT ![t] = bits[addr[t]]]

CasStores(t, new) ==     \* faulty variant: a store in place of the exchange
    bits' = [bits EXCEPT ![addr[t]] = new]

CasSucceeds(t, new) ==
    /\ bits[addr[t]] = v[t]
    /\ bits' = [bits EXCEPT ![addr[t]] = new]

CasMiss(t) == bits[addr[t]] # v[t] /\ UNCHANGED bits

-----------------------------------------------------------------------------
(* _PyMutex_LockTimed, the fast path.                                      *)

(* The call and its first load.  With timeout 0 it fails at once when the  *)
(* mutex is taken.                                                         *)
CallLock(t) ==
    /\ pc[t] = "idle"
    /\ \E m \in Addrs, k \in Modes[t] :
           /\ addr' = [addr EXCEPT ![t] = m]
           /\ \/ /\ IsLocked(bits[m]) /\ k = "try"
                 /\ UNCHANGED <<pc, v, mode>>
              \/ /\ ~IsLocked(bits[m]) \/ k # "try"
                 /\ Goto(t, IF IsLocked(bits[m]) THEN "loop" ELSE "cas")
                 /\ v' = [v EXCEPT ![t] = bits[m]]
                 /\ mode' = [mode EXCEPT ![t] = k]
    /\ UNCHANGED <<bucketOwner, waiters, parkState, isUnparking, sema, waking,
                   bits, spin, aged, handedOff>>

FirstCas(t) ==
    /\ pc[t] = "cas"
    /\ \/ CasSucceeds(t, WithLocked(v[t])) /\ Return(t, "held")
       \/ CasMiss(t) /\ mode[t] = "try" /\ Return(t, "idle")
       \/ /\ CasMiss(t)
          /\ mode[t] # "try"
          /\ Load(t)
          /\ Goto(t, "loop")
          /\ UNCHANGED <<mode, spin, aged, handedOff>>
    /\ UNCHANGED parkVars

-----------------------------------------------------------------------------
(* The for (;;) of the slow path; its branches look at v, not at _bits.    *)

Grab(t) ==
    /\ pc[t] = "loop"
    /\ ~IsLocked(v[t])
    /\ \/ CasSucceeds(t, WithLocked(v[t])) /\ Return(t, "held")
       \/ CasMiss(t) /\ Load(t) /\ UNCHANGED <<pc, mode, spin, aged, handedOff>>
    /\ UNCHANGED parkVars

MaySpin(t) == ~HasParked(v[t]) /\ spin[t] < MAX_SPIN_COUNT

(* continue goes back to the top with the same v: a spin loads nothing.    *)
Spin(t) ==
    /\ pc[t] = "loop"
    /\ IsLocked(v[t])
    /\ MaySpin(t)
    /\ spin' = [spin EXCEPT ![t] = @ + 1]
    /\ UNCHANGED <<parkVars, bits, pc, v, mode, aged, handedOff>>

GiveUp(t) ==
    /\ pc[t] = "loop"
    /\ IsLocked(v[t])
    /\ ~MaySpin(t)
    /\ mode[t] = "try"
    /\ Return(t, "idle")
    /\ UNCHANGED <<parkVars, bits>>

(* The first waiter sets HAS_PARKED; newv is kept in v.                    *)
MarkParked(t) ==
    /\ pc[t] = "loop"
    /\ v[t] = LOCKED
    /\ ~MaySpin(t)
    /\ mode[t] # "try"
    /\ \/ /\ CasSucceeds(t, LOCKED + HAS_PARKED)
          /\ v' = [v EXCEPT ![t] = LOCKED + HAS_PARKED]
       \/ CasMiss(t) /\ Load(t)
    /\ UNCHANGED <<parkVars, pc, mode, spin, aged, handedOff>>

Park(t) ==
    /\ pc[t] = "loop"
    /\ v[t] = LOCKED + HAS_PARKED
    /\ mode[t] # "try"
    /\ \/ /\ ParkCompare(t, bits[addr[t]], v[t])
          /\ Goto(t, "parked")
       \/ /\ ParkAgain(t, bits[addr[t]], v[t])
          /\ Goto(t, "reload")
    /\ UNCHANGED <<bits, v, mode, spin, aged, handedOff>>

Enqueue(t) == ParkEnqueue(t) /\ UNCHANGED mutexVars

(* The kernel's side of the semaphore wait: signals can arrive for any     *)
(* thread, a deadline exists only in a timed call.                         *)
SemaInterrupted(t) == WaitFails(t, "INTR") /\ UNCHANGED mutexVars

SemaTimedOut(t) ==
    /\ mode[t] = "timed"
    /\ WaitFails(t, "TIMEOUT")
    /\ UNCHANGED mutexVars

Drain(t) == ParkDrain(t) /\ UNCHANGED mutexVars

(* Py_PARK_OK: we own the lock if it was handed off.                       *)
Woken(t) ==
    /\ ParkOk(t)
    /\ \/ t \in handedOff /\ Return(t, "held")
       \/ /\ t \notin handedOff
          /\ Goto(t, "reload")
          /\ UNCHANGED <<v, mode, spin, aged, handedOff>>
    /\ UNCHANGED bits

(* Py_PARK_TIMEOUT fails the call; Py_PARK_INTR does when signals are to   *)
(* be handled and Py_MakePendingCalls reports an exception.                *)
WaitFailed(t) ==
    /\ ParkGiveUp(t)
    /\ \/ parkState[t] = "TIMEOUT" /\ Return(t, "idle")
       \/ parkState[t] = "INTR" /\ mode[t] = "signals" /\ Return(t, "idle")
       \/ /\ parkState[t] = "INTR"
          /\ Goto(t, "reload")
          /\ UNCHANGED <<v, mode, spin, aged, handedOff>>
    /\ UNCHANGED bits

(* The end of the loop body: the deadline of a timed call may be past.     *)
Reload(t) ==
    /\ pc[t] = "reload"
    /\ \/ UNCHANGED mode
       \/ mode[t] = "timed" /\ mode' = [mode EXCEPT ![t] = "try"]
    /\ Load(t)
    /\ Goto(t, "loop")
    /\ UNCHANGED <<parkVars, bits, spin, aged, handedOff>>

(* TIME_TO_BE_FAIR_NS have gone by since the slow path was entered.        *)
Age(t) ==
    /\ pc[t] \in {"loop", "parked", "reload"}
    /\ t \notin aged
    /\ aged' = aged \cup {t}
    /\ UNCHANGED <<parkVars, bits, pc, v, mode, spin, handedOff>>

-----------------------------------------------------------------------------
(* _PyMutex_TryUnlock by the holder.                                       *)

CallUnlock(t) ==
    /\ pc[t] = "held"
    /\ Load(t)
    /\ Goto(t, "unlock")
    /\ UNCHANGED <<parkVars, bits, mode, spin, aged, handedOff>>

UnlockFast(t) ==
    /\ pc[t] = "unlock"
    /\ v[t] = LOCKED
    /\ \/ CasSucceeds(t, UNLOCKED) /\ Return(t, "idle")
       \/ CasMiss(t) /\ Load(t) /\ UNCHANGED <<pc, mode, spin, aged, handedOff>>
    /\ UNCHANGED parkVars

(* Faulty variants of mutex_unpark: it forgets the LOCKED bit of a         *)
(* hand-off, the other waiters, or never hands off.                        *)
MutexUnparkDropsLocked(t, w) ==
    /\ handedOff' = IF w \in aged THEN handedOff \cup {w} ELSE handedOff \ {w}
    /\ bits' = [bits EXCEPT ![addr[t]] = IF HasMoreWaiters(t) THEN HAS_PARKED ELSE 0]

MutexUnparkForgetsWaiters(t, w) ==
    /\ handedOff' = IF w \in aged THEN handedOff \cup {w} ELSE handedOff \ {w}
    /\ bits' = [bits EXCEPT ![addr[t]] = IF w \in aged THEN LOCKED ELSE 0]

MutexUnparkNeverHandsOff(t, w) ==
    /\ UNCHANGED handedOff
    /\ bits' = [bits EXCEPT ![addr[t]] = IF HasMoreWaiters(t) THEN HAS_PARKED ELSE 0]

(* mutex_unpark(m, entry of w, has_more_waiters), inside the bucket mutex. *)
MutexUnpark(t, w) ==
    /\ handedOff' = IF w \in aged THEN handedOff \cup {w} ELSE handedOff \ {w}
    /\ bits' = [bits EXCEPT ![addr[t]] =
                  (IF w \in aged THEN LOCKED ELSE 0)
                  + (IF HasMoreWaiters(t) THEN HAS_PARKED ELSE 0)]

UnlockUnpark(t) ==
    /\ pc[t] = "unlock"
    /\ v[t] = LOCKED + HAS_PARKED
    /\ \/ \E w \in Threads : Unpark(t, w) /\ MutexUnpark(t, w) /\ Goto(t, "wakeup")
       \/ /\ UnparkNone(t)
          /\ bits' = [bits EXCEPT ![addr[t]] = UNLOCKED]
          /\ Goto(t, "idle")
          /\ UNCHANGED handedOff
    /\ v' = [v EXCEPT ![t] = 0]
    /\ UNCHANGED <<mode, spin, aged>>

Post(t) ==
    /\ pc[t] = "wakeup"
    /\ \E w \in Threads : Wakeup(t, w)
    /\ Goto(t, "idle")
    /\ UNCHANGED <<bits, v, mode, spin, aged, handedOff>>

-----------------------------------------------------------------------------
LockStep(t) ==
    \/ FirstCas(t) \/ Grab(t) \/ Spin(t) \/ GiveUp(t)
    \/ MarkParked(t) \/ Park(t) \/ Enqueue(t) \/ Woken(t) \/ WaitFailed(t)
    \/ Drain(t) \/ Reload(t)

UnlockStep(t) == CallUnlock(t) \/ UnlockFast(t) \/ UnlockUnpark(t) \/ Post(t)

Step(t) ==
    \/ CallLock(t) \/ LockStep(t) \/ UnlockStep(t)
    \/ SemaInterrupted(t) \/ SemaTimedOut(t) \/ Age(t)

Next == \E t \in Threads : Step(t)

Spec == Init /\ [][Next]_vars

(* The scheduler runs every runnable thread and a holder unlocks.  No      *)
(* fairness for new calls, signals, deadlines or the passing of time.      *)
Fairness == \A t \in Threads : WF_vars(LockStep(t) \/ UnlockStep(t))

FairSpec == Spec /\ Fairness

-----------------------------------------------------------------------------
(* t has the lock m: it is between the return of a successful lock call    *)
(* and the store that unlocks, or the lock was handed to it in its sleep.  *)
Owns(t, m) ==
    /\ addr[t] = m
    /\ pc[t] \in {"held", "unlock"} \/ t \in handedOff

Wants(t, m) ==
    /\ addr[t] = m
    /\ pc[t] \in {"cas", "loop", "parked", "reload"}
    /\ t \notin handedOff

(* t is in the queue of its mutex and nobody has begun to wake it.         *)
Queued(t) == parkState[t] \in {"asleep", "TIMEOUT", "INTR"} /\ t \notin isUnparking

(* Mutual exclusion, and the bit tells the truth: LOCKED is set exactly    *)
(* when a thread owns the mutex, also while the ownership is in transit to *)
(* a thread that still sleeps (lock.c:141-162).                            *)
MutualExclusion ==
    \A m \in Addrs :
        /\ (IsLocked(bits[m])) <=> (\E t \in Threads : Owns(t, m))
        /\ \A t, u \in Threads : Owns(t, m) /\ Owns(u, m) => t = u

(* u is going to look at m again: it has been chosen for the wakeup, it is *)
(* back from the parking lot, or it is about to try its compare-exchange.  *)
OnItsWay(u, m) ==
    /\ addr[u] = m
    /\ \/ u \in isUnparking
       \/ pc[u] = "reload"
       \/ pc[u] = "loop" /\ ~IsLocked(v[u])

(* No lost wakeup: while a thread waits in the queue of m, HAS_PARKED is   *)
(* on, so that the owner's unlock goes through the parking lot, and if m   *)
(* has no owner then some thread is on its way to look at m again.         *)
NoLostWakeup ==
    \A t \in Threads : Queued(t) =>
        /\ HasParked(bits[addr[t]])
        /\ IsLocked(bits[addr[t]]) \/ \E u \in Threads : OnItsWay(u, addr[t])

(* A mutex that was handed to a thread is taken by that thread: its call   *)
(* returns success, whatever its semaphore reported and however late its   *)
(* deadline was noticed (lock.c:110-117, parking_lot.c:350-360).           *)
HandOffIsTaken ==
    [][\A t \in Threads : t \in handedOff /\ t \notin handedOff' => pc'[t] = "held"]_vars

(* Fairness of the hand-off: a thread that is queued for longer than       *)
(* TIME_TO_BE_FAIR_NS gets the mutex, unless its own wait is cut short.    *)
(* The premise is needed: the bucket mutex is not fair, so waits that fail *)
(* and start again for ever can keep the owner out of the bucket.          *)
WaitFailuresStop ==
    <>[][\A t \in Threads :
            parkState'[t] \in {"TIMEOUT", "INTR"} => parkState'[t] = parkState[t]]_vars

FairHandOff ==
    WaitFailuresStop =>
        \A t \in Threads :
            Queued(t) /\ t \in aged ~>
                \/ Owns(t, addr[t])
                \/ parkState[t] \in {"TIMEOUT", "INTR"}

-----------------------------------------------------------------------------
(* The inductive invariant.  ParkInv ties the wait_entry of a thread to    *)
(* where the thread is, HandInv the hand-off to the unparking.             *)
InPark == {"asleep", "TIMEOUT", "INTR", "drain"}

ParkInv ==
    /\ \A t \in Threads : (parkState[t] # "out") <=> (pc[t] = "parked")
    /\ \A t \in Threads : t \in isUnparking => parkState[t] \in InPark
    /\ \A t \in Threads : parkState[t] = "drain" => t \in isUnparking
    /\ \A t \in Threads : sema[t] \in {0, 1} /\ (sema[t] = 1 => t \in isUnparking)

WaitersInv ==
    \A b \in Buckets :
        /\ \A i \in 1..Len(waiters[b]) :
              /\ BucketOf[addr[waiters[b][i]]] = b
              /\ Queued(waiters[b][i])
        /\ \A i, j \in 1..Len(waiters[b]) :
              waiters[b][i] = waiters[b][j] => i = j

HandInv == \A t \in Threads : t \in handedOff => t \in isUnparking

CasInv == \A t \in Threads : pc[t] = "cas" => ~IsLocked(v[t])

IndInv ==
    /\ TypeOK
    /\ ParkInv
    /\ WaitersInv
    /\ PostedWaiterIsThere
    /\ HandInv
    /\ CasInv
    /\ MutualExclusion

(* What NoLostWakeup needs besides: a thread between its comparison and    *)
(* its enqueueing has the bucket mutex, which keeps _bits still, and a     *)
(* thread that nobody has begun to wake is in its bucket's queue.          *)
EnqueuerInv ==
    \A t \in Threads : parkState[t] = "enqueue" =>
        /\ bucketOwner[MyBucket(t)] = t
        /\ bits[addr[t]] = LOCKED + HAS_PARKED

InQueueInv ==
    \A t \in Threads : Queued(t) => \E i \in 1..Len(Queue(t)) : Queue(t)[i] = t

WakeupInv == IndInv /\ EnqueuerInv /\ InQueueInv /\ NoLostWakeup

(* PyMutex implements Lock.                                                *)
AbstractLock == INSTANCE Lock WITH
    Locks <- Addrs,
    holds <- {p \in Threads \X Addrs : Owns(p[1], p[2])},
    wants <- {p \in Threads \X Addrs : Wants(p[1], p[2])}

ImplementsLock == AbstractLock!LockSpec
=============================================================================
