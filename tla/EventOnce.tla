------------------------------ MODULE EventOnce -------------------------------
(***************************************************************************)
(* PyEvent and _PyOnceFlag of Python/lock.c on top of the parking lot: an  *)
(* event is set once and for all, a once flag runs a function until it has *)
(* succeeded.  Both are one byte and wake all of their waiters.            *)
(*                                                                         *)
(* Like ParkingLot this is a library of steps: the program that makes the  *)
(* calls starts them at the labels "wait", "notify" and "once" and goes on *)
(* at "waited", "notified", "run" (its turn to run the function, then      *)
(* "unlock") and "onceDone".  addr[t] is the event or flag t's call is     *)
(* about, v[t] the local variable, at the end the result.                  *)
(***************************************************************************)
EXTENDS ParkingLot

CONSTANT Events      \* the addresses of events; the others are once flags

ASSUME EventsType == Events \subseteq Addrs

UNLOCKED == 0
LOCKED == 1
HAS_PARKED == 2
ONCE_INITIALIZED == 4
Words == {UNLOCKED, LOCKED, HAS_PARKED, LOCKED + HAS_PARKED, ONCE_INITIALIZED}

VARIABLES
    word,   \* PyEvent.v and _PyOnceFlag.v
    pc,     \* where each thread is
    v       \* the local v

eventVars == <<word, pc, v>>

EventPCs == {"wait", "waitCas", "waitPark", "waitParked", "waitCheck", "waited",
             "notify", "notified", "once", "onceParked", "onceReload", "onceDone",
             "run", "unlock", "unpark", "post"}

Goto(t, label) == pc' = [pc EXCEPT ![t] = label]
Load(t) == v' = [v EXCEPT ![t] = word[addr[t]]]
Store(t, new) == word' = [word EXCEPT ![addr[t]] = new]

-----------------------------------------------------------------------------
(* PyEvent_WaitTimed.                                                      *)
EventLoad(t) ==
    /\ pc[t] = "wait"
    /\ Load(t)
    /\ Goto(t, CASE word[addr[t]] = LOCKED     -> "waited"
                 [] word[addr[t]] = UNLOCKED   -> "waitCas"
                 [] word[addr[t]] = HAS_PARKED -> "waitPark")
    /\ UNCHANGED <<parkVars, word>>

EventCas(t) ==
    /\ pc[t] = "waitCas"
    /\ \/ word[addr[t]] = UNLOCKED /\ Store(t, HAS_PARKED) /\ Goto(t, "waitPark")
       \/ word[addr[t]] # UNLOCKED /\ Goto(t, "wait") /\ UNCHANGED word
    /\ UNCHANGED <<parkVars, v>>

EventPark(t) ==
    /\ pc[t] = "waitPark"
    /\ \/ ParkCompare(t, word[addr[t]], HAS_PARKED) /\ Goto(t, "waitParked")
       \/ ParkAgain(t, word[addr[t]], HAS_PARKED) /\ Goto(t, "waitCheck")
    /\ UNCHANGED <<word, v>>

(* What Park returned is ignored: is the event set?                        *)
EventCheck(t) ==
    /\ pc[t] = "waitCheck"
    /\ Load(t)
    /\ Goto(t, "waited")
    /\ UNCHANGED <<parkVars, word>>

(* _PyEvent_Notify, up to the waiters.                                     *)
EventNotify(t) ==
    /\ pc[t] = "notify"
    /\ Store(t, LOCKED)
    /\ Goto(t, IF word[addr[t]] = HAS_PARKED THEN "unpark" ELSE "notified")
    /\ UNCHANGED <<parkVars, v>>

-----------------------------------------------------------------------------
(* _PyOnceFlag_CallOnceSlow, from its for (;;).                            *)

OnceStart(t) ==
    /\ pc[t] = "once"
    /\ v[t] = UNLOCKED
    /\ \/ word[addr[t]] = v[t] /\ Store(t, LOCKED) /\ Goto(t, "run") /\ UNCHANGED v
       \/ word[addr[t]] # v[t] /\ Load(t) /\ UNCHANGED <<word, pc>>
    /\ UNCHANGED parkVars

OnceAlready(t) ==
    /\ pc[t] = "once"
    /\ v[t] = ONCE_INITIALIZED
    /\ Goto(t, "onceDone")
    /\ UNCHANGED <<parkVars, word, v>>

OnceMarkParked(t) ==
    /\ pc[t] = "once"
    /\ v[t] = LOCKED
    /\ LET new == LOCKED + HAS_PARKED
       IN  \/ word[addr[t]] = v[t] /\ Store(t, new) /\ v' = [v EXCEPT ![t] = new]
           \/ word[addr[t]] # v[t] /\ Load(t) /\ UNCHANGED word
    /\ UNCHANGED <<parkVars, pc>>

OncePark(t) ==
    /\ pc[t] = "once"
    /\ v[t] = LOCKED + HAS_PARKED
    /\ \/ ParkCompare(t, word[addr[t]], v[t]) /\ Goto(t, "onceParked")
       \/ ParkAgain(t, word[addr[t]], v[t]) /\ Goto(t, "onceReload")
    /\ UNCHANGED <<word, v>>

OnceReload(t) ==
    /\ pc[t] = "onceReload"
    /\ Load(t)
    /\ Goto(t, "once")
    /\ UNCHANGED <<parkVars, word>>

(* unlock_once: v[t] is new_value, ONCE_INITIALIZED or UNLOCKED.           *)
UnlockOnceForgets(t) ==     \* faulty variant: wakes nobody after a failure
    /\ pc[t] = "unlock"
    /\ Store(t, v[t])
    /\ Goto(t, IF word[addr[t]] = LOCKED \/ v[t] = UNLOCKED THEN "onceDone" ELSE "unpark")
    /\ UNCHANGED <<parkVars, v>>

UnlockOnce(t) ==
    /\ pc[t] = "unlock"
    /\ Store(t, v[t])
    /\ Goto(t, IF word[addr[t]] = LOCKED THEN "onceDone" ELSE "unpark")
    /\ UNCHANGED <<parkVars, v>>

-----------------------------------------------------------------------------
(* Inside the parking lot.                                                 *)
Enqueue(t) == ParkEnqueue(t) /\ UNCHANGED eventVars

Drain(t) == ParkDrain(t) /\ UNCHANGED eventVars

Unparked(t) ==
    /\ ParkOk(t) \/ ParkGiveUp(t)
    /\ Goto(t, IF pc[t] = "waitParked" THEN "waitCheck" ELSE "onceReload")
    /\ UNCHANGED <<word, v>>

SemaInterrupted(t) == WaitFails(t, "INTR") /\ UNCHANGED eventVars

Woken(t) == IF addr[t] \in Events THEN "notified" ELSE "onceDone"

UnparkWaiters(t) ==
    /\ pc[t] = "unpark"
    /\ UnparkAll(t)
    /\ Goto(t, IF waking'[t] = {} THEN Woken(t) ELSE "post")
    /\ UNCHANGED <<word, v>>

Post(t) ==
    /\ pc[t] = "post"
    /\ \E w \in Threads : Wakeup(t, w)
    /\ Goto(t, IF waking'[t] = {} THEN Woken(t) ELSE "post")
    /\ UNCHANGED <<word, v>>

EventStep(t) ==
    \/ EventLoad(t) \/ EventCas(t) \/ EventPark(t) \/ EventCheck(t) \/ EventNotify(t)

OnceStep(t) ==
    \/ OnceStart(t) \/ OnceAlready(t) \/ OnceMarkParked(t) \/ OncePark(t)
    \/ OnceReload(t) \/ UnlockOnce(t)

InnerStep(t) == Enqueue(t) \/ Drain(t) \/ Unparked(t) \/ UnparkWaiters(t) \/ Post(t)

-----------------------------------------------------------------------------
(* A thread in the queue that nobody has begun to wake.                    *)
Queued(t) == parkState[t] \in {"asleep", "TIMEOUT", "INTR"} /\ t \notin isUnparking

(* No lost wakeup: whoever sleeps on an event or on a once flag sleeps     *)
(* while the byte says so, unless the thread that changed the byte is      *)
(* about to empty the queue, after a run that failed as well.              *)
SleepersAreAnnounced ==
    \A t \in Threads : Queued(t) =>
        \/ word[addr[t]] = IF addr[t] \in Events THEN HAS_PARKED ELSE LOCKED + HAS_PARKED
        \/ \E u \in Threads : addr[u] = addr[t] /\ pc[u] = "unpark"
=============================================================================
