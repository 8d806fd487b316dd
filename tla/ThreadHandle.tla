----------------------------- MODULE ThreadHandle ------------------------------
(***************************************************************************)
(* A thread handle of Modules/_threadmodule.c: one thread is started, and  *)
(* any number of threads, itself included, join it or declare it done.     *)
(* The operating system's thread has to be joined or detached once, the    *)
(* handle lives as long as it is used, and nobody waits for ever.          *)
(*                                                                         *)
(* The handle's mutex protects single reads and writes and is not shown.   *)
(* Forks and the finalization of the interpreter are left out.             *)
(***************************************************************************)
EXTENDS EventOnce

CONSTANTS
    Runner,    \* the thread that the handle is for
    Ready,     \* boot->handle_ready
    Exiting,   \* handle->thread_is_exiting
    Once       \* handle->once

ASSUME HandleAddrs ==
    /\ Runner \in Threads
    /\ Events = {Ready, Exiting}
    /\ Addrs = Events \cup {Once}
    /\ Ready # Exiting /\ Once \notin Events

VARIABLES
    call,       \* the operation on the handle each thread is in
    state,      \* handle->state
    refcount,   \* handle->refcount
    object,     \* the Python object that wraps the handle is alive
    reaped      \* how often the OS thread was joined or detached

handleVars == <<call, state, refcount, object, reaped>>
vars == <<parkVars, eventVars, handleVars>>

NOT_STARTED == 1
STARTING == 2
RUNNING == 3
DONE == 4

(* "boot" and "exit" are the two ends of thread_run, "force" is a start    *)
(* that failed.                                                            *)
Calls == {"none", "start", "force", "join", "joinTimed", "setDone", "boot", "exit"}

PCs == EventPCs \cup {"idle", "unborn", "body", "gone", "create", "started", "finish"}

TypeOK ==
    /\ ParkTypeOK
    /\ word \in [Addrs -> Words]
    /\ pc \in [Threads -> PCs]
    /\ v \in [Threads -> Words]
    /\ call \in [Threads -> Calls]
    /\ state \in {NOT_STARTED, STARTING, RUNNING, DONE}
    /\ refcount \in 0..3
    /\ object \in BOOLEAN
    /\ reaped \in 0..2

Init ==
    /\ ParkInit
    /\ addr = [t \in Threads |-> Ready]
    /\ word = [a \in Addrs |-> UNLOCKED]
    /\ pc = [t \in Threads |-> IF t = Runner THEN "unborn" ELSE "idle"]
    /\ v = [t \in Threads |-> UNLOCKED]
    /\ call = [t \in Threads |-> "none"]
    /\ state = NOT_STARTED
    /\ refcount = 1
    /\ object = TRUE
    /\ reaped = 0

Home(t) == IF t = Runner THEN "body" ELSE "idle"

(* A method of the object is called: its caller holds a reference to it.   *)
MayCall(t) == pc[t] = Home(t) /\ object
InMethod(t) == call[t] \notin {"none", "boot", "exit"}

About(t, a) == addr' = [addr EXCEPT ![t] = a]
parkRest == <<bucketOwner, waiters, parkState, isUnparking, sema, waking>>

(* An operation begins to wait for the event a, to set it, or to call the  *)
(* function of the once flag.                                              *)
Begin(t, a, label) ==
    /\ About(t, a)
    /\ Goto(t, label)
    /\ v' = [v EXCEPT ![t] = UNLOCKED]
    /\ UNCHANGED <<parkRest, word>>

BeginWait(t, a) == Begin(t, a, "wait")
BeginNotify(t, a) == Begin(t, a, "notify")
BeginOnce(t) ==
    /\ About(t, Once)
    /\ v' = [v EXCEPT ![t] = word[Once]]
    /\ Goto(t, "once")
    /\ UNCHANGED <<parkRest, word>>

Return(t) ==
    /\ Goto(t, Home(t))
    /\ v' = [v EXCEPT ![t] = UNLOCKED]
    /\ call' = [call EXCEPT ![t] = "none"]
    /\ UNCHANGED <<parkVars, word, state, refcount, object, reaped>>

-----------------------------------------------------------------------------
(* ThreadHandle_start.                                                     *)
StartCall(t) ==
    /\ MayCall(t)
    /\ state = NOT_STARTED
    /\ state' = STARTING
    /\ call' = [call EXCEPT ![t] = "start"]
    /\ Goto(t, "create")
    /\ UNCHANGED <<parkVars, word, v, refcount, object, reaped>>

(* boot takes a reference, and the OS thread exists from here on.          *)
Create(t) ==
    /\ pc[t] = "create"
    /\ refcount' = refcount + 1
    /\ pc' = [pc EXCEPT ![t] = "started", ![Runner] = "wait"]
    /\ call' = [call EXCEPT ![Runner] = "boot"]
    /\ About(Runner, Ready)
    /\ UNCHANGED <<parkRest, word, v, state, object, reaped>>

(* goto start_failed: no thread, and boot's reference is returned.         *)
CreateFails(t) ==
    /\ pc[t] = "create"
    /\ call' = [call EXCEPT ![t] = "force"]
    /\ BeginOnce(t)
    /\ UNCHANGED <<state, refcount, object, reaped>>

MarkRunning(t) ==
    /\ pc[t] = "started"
    /\ state' = RUNNING
    /\ BeginNotify(t, Ready)
    /\ UNCHANGED <<call, refcount, object, reaped>>

Started(t) ==
    /\ pc[t] = "notified"
    /\ call[t] = "start"
    /\ Return(t)

-----------------------------------------------------------------------------
(* thread_run.                                                             *)

(* Faulty variant: the thread relies on boot's reference to the handle.    *)
BootedWithoutIncref(t) ==
    /\ pc[t] = "waited"
    /\ call[t] = "boot"
    /\ \/ v[t] # LOCKED /\ BeginWait(t, Ready) /\ UNCHANGED call
       \/ /\ v[t] = LOCKED
          /\ Goto(t, "body")
          /\ v' = [v EXCEPT ![t] = UNLOCKED]
          /\ call' = [call EXCEPT ![t] = "none"]
          /\ UNCHANGED <<parkVars, word>>
    /\ UNCHANGED <<state, refcount, object, reaped>>

(* PyEvent_Wait waits again until the event is set.                        *)
Booted(t) ==
    /\ pc[t] = "waited"
    /\ call[t] = "boot"
    /\ \/ /\ v[t] # LOCKED
          /\ BeginWait(t, Ready)
          /\ UNCHANGED <<call, refcount>>
       \/ /\ v[t] = LOCKED
          /\ refcount' = refcount + 1
          /\ Goto(t, "body")
          /\ v' = [v EXCEPT ![t] = UNLOCKED]
          /\ call' = [call EXCEPT ![t] = "none"]
          /\ UNCHANGED <<parkVars, word>>
    /\ UNCHANGED <<state, object, reaped>>

(* The function returns and boot is freed with its reference.              *)
BodyEnds(t) ==
    /\ pc[t] = "body"
    /\ refcount' = refcount - 1
    /\ call' = [call EXCEPT ![t] = "exit"]
    /\ BeginNotify(t, Exiting)
    /\ UNCHANGED <<state, object, reaped>>

(* The last reference detaches an OS thread that nobody has joined.  That  *)
(* the detaching itself fails here, which the code only reports, is left   *)
(* out.                                                                    *)
DecrefDetachesAlways ==     \* faulty variant: without a look at the state
    /\ refcount' = refcount - 1
    /\ reaped' = IF refcount = 1 THEN reaped + 1 ELSE reaped
    /\ state' = IF refcount = 1 /\ state = RUNNING THEN DONE ELSE state

Decref ==
    /\ refcount' = refcount - 1
    /\ reaped' = IF refcount = 1 /\ state = RUNNING THEN reaped + 1 ELSE reaped
    /\ state' = IF refcount = 1 /\ state = RUNNING THEN DONE ELSE state

RunnerExits(t) ==
    /\ pc[t] = "notified"
    /\ call[t] = "exit"
    /\ Decref
    /\ Goto(t, "gone")
    /\ call' = [call EXCEPT ![t] = "none"]
    /\ UNCHANGED <<parkVars, word, v, object>>

(* The object goes when no method of it runs and nobody can call one.      *)
ObjectDies ==
    /\ object
    /\ \A t \in Threads : ~InMethod(t)
    /\ object' = FALSE
    /\ Decref
    /\ UNCHANGED <<parkVars, eventVars, call>>

-----------------------------------------------------------------------------
(* ThreadHandle_join and ThreadHandle_set_done.                            *)

(* check_started; the current thread is refused unless it is exiting or    *)
(* was declared done.                                                      *)
JoinCallUnchecked(t) ==     \* faulty variant: the current thread may join itself
    /\ MayCall(t)
    /\ state \in {RUNNING, DONE}
    /\ \E k \in {"join", "joinTimed"} : call' = [call EXCEPT ![t] = k]
    /\ BeginWait(t, Exiting)
    /\ UNCHANGED <<state, refcount, object, reaped>>

JoinCall(t) ==
    /\ MayCall(t)
    /\ state \in {RUNNING, DONE}
    /\ word[Exiting] = LOCKED \/ t # Runner
    /\ \E k \in {"join", "joinTimed"} : call' = [call EXCEPT ![t] = k]
    /\ BeginWait(t, Exiting)
    /\ UNCHANGED <<state, refcount, object, reaped>>

(* The event is not set: the deadline is over or Py_MakePendingCalls       *)
(* raises (the join returns), or it waits again.                           *)
JoinWaits(t) ==
    /\ pc[t] = "waited"
    /\ call[t] \in {"join", "joinTimed"}
    /\ v[t] # LOCKED
    /\ \/ Return(t)
       \/ BeginWait(t, Exiting) /\ UNCHANGED handleVars

JoinGoesOn(t) ==
    /\ pc[t] = "waited"
    /\ call[t] \in {"join", "joinTimed"}
    /\ v[t] = LOCKED
    /\ BeginOnce(t)
    /\ UNCHANGED handleVars

SetDoneCallEarly(t) ==      \* faulty variant: also while the thread starts
    /\ MayCall(t)
    /\ state # NOT_STARTED
    /\ call' = [call EXCEPT ![t] = "setDone"]
    /\ BeginOnce(t)
    /\ UNCHANGED <<state, refcount, object, reaped>>

SetDoneCall(t) ==
    /\ MayCall(t)
    /\ state \in {RUNNING, DONE}
    /\ call' = [call EXCEPT ![t] = "setDone"]
    /\ BeginOnce(t)
    /\ UNCHANGED <<state, refcount, object, reaped>>

(* The functions of the once flag.  A failure of the OS call is result -1. *)
FunctionFails(t) ==
    /\ pc[t] = "run"
    /\ \/ call[t] = "setDone"
       \/ call[t] \in {"join", "joinTimed"} /\ pc[Runner] = "gone"
    /\ v' = [v EXCEPT ![t] = UNLOCKED]
    /\ Goto(t, "unlock")
    /\ UNCHANGED <<parkVars, word, handleVars>>

(* join_thread: the OS call returns when the thread has ended.             *)
JoinThread(t) ==
    /\ pc[t] = "run"
    /\ call[t] \in {"join", "joinTimed"}
    /\ pc[Runner] = "gone"
    /\ reaped' = reaped + 1
    /\ Goto(t, "finish")
    /\ UNCHANGED <<parkVars, word, v, call, state, refcount, object>>

(* set_done and force_done set the event first.                            *)
SetDone(t) ==
    /\ pc[t] = "run"
    /\ call[t] = "setDone"
    /\ reaped' = reaped + 1
    /\ BeginNotify(t, Exiting)
    /\ UNCHANGED <<call, state, refcount, object>>

ForceDone(t) ==
    /\ pc[t] = "run"
    /\ call[t] = "force"
    /\ BeginNotify(t, Exiting)
    /\ UNCHANGED handleVars

EventIsSet(t) ==
    /\ pc[t] = "notified"
    /\ call[t] \in {"setDone", "force"}
    /\ Goto(t, "finish")
    /\ UNCHANGED <<parkVars, word, v, handleVars>>

Finish(t) ==
    /\ pc[t] = "finish"
    /\ state' = DONE
    /\ About(t, Once)
    /\ v' = [v EXCEPT ![t] = ONCE_INITIALIZED]
    /\ Goto(t, "unlock")
    /\ UNCHANGED <<parkRest, word, call, refcount, object, reaped>>

OnceDone(t) ==
    /\ pc[t] = "onceDone"
    /\ Return(t)

-----------------------------------------------------------------------------
SemaTimedOut(t) ==
    /\ call[t] = "joinTimed"
    /\ pc[t] = "waitParked"
    /\ WaitFails(t, "TIMEOUT")
    /\ UNCHANGED eventVars

LibraryStep(t) == (EventStep(t) \/ OnceStep(t) \/ InnerStep(t)) /\ UNCHANGED handleVars

ThreadStep(t) ==
    \/ LibraryStep(t)
    \/ Create(t) \/ CreateFails(t) \/ MarkRunning(t) \/ Started(t)
    \/ Booted(t) \/ BodyEnds(t) \/ RunnerExits(t)
    \/ JoinWaits(t) \/ JoinGoesOn(t)
    \/ FunctionFails(t) \/ JoinThread(t) \/ SetDone(t) \/ ForceDone(t)
    \/ EventIsSet(t) \/ Finish(t) \/ OnceDone(t)

CallStep(t) == StartCall(t) \/ JoinCall(t) \/ SetDoneCall(t)

WaitFailure(t) == (SemaInterrupted(t) \/ SemaTimedOut(t)) /\ UNCHANGED handleVars

Next ==
    \/ \E t \in Threads : ThreadStep(t) \/ CallStep(t) \/ WaitFailure(t)
    \/ ObjectDies

Spec == Init /\ [][Next]_vars

(* The scheduler runs every runnable thread and the thread's function ends. *)
FairSpec == Spec /\ \A t \in Threads : WF_vars(ThreadStep(t))

-----------------------------------------------------------------------------
(* The OS thread is joined or detached exactly once: never twice, whoever  *)
(* joins, declares it done or drops the last reference, and not never once *)
(* the handle is freed (_threadmodule.c:86-91).                            *)
ReapedOnce ==
    /\ reaped <= 1
    /\ refcount = 0 /\ pc[Runner] # "unborn" => reaped = 1

(* Who uses the handle has a reference that keeps it: when the count is    *)
(* zero no method is left inside it, and its thread has returned or was    *)
(* never created.  A method runs only on an object that is alive.          *)
HandleOutlivesUse ==
    /\ TypeOK
    /\ refcount = 0 =>
          /\ pc[Runner] \in {"unborn", "gone"}
          /\ \A t \in Threads : ~InMethod(t)
    /\ \A t \in Threads : InMethod(t) => object

(* t's call is the one that runs the function of the once flag, from the   *)
(* exchange that took the flag to the one that unlocks it.                 *)
InFunction(t) ==
    \/ pc[t] \in {"run", "finish", "unlock"}
    \/ call[t] \in {"setDone", "force"} /\ addr[t] = Exiting

(* The function of the once flag is run by one thread at a time, which the *)
(* flag shows, and finds the state it asserts, though the callers looked   *)
(* at the state before they waited for their turn (_threadmodule.c:396,    *)
(* 476, 570); who returns success finds the handle done (:562, :591); and  *)
(* the thread does not wait for its own end.                               *)
OneFunctionAtATime ==
    /\ Cardinality({t \in Threads : InFunction(t)}) =
           IF word[Once] \in {LOCKED, LOCKED + HAS_PARKED} THEN 1 ELSE 0
    /\ \A t \in Threads :
          /\ pc[t] = "run" => state = IF call[t] = "force" THEN STARTING ELSE RUNNING
          /\ pc[t] = "run" /\ t = Runner => call[t] = "setDone"
          /\ pc[t] = "onceDone" /\ v[t] = ONCE_INITIALIZED => state = DONE

(* The handle implements HandleLife, whichever of its methods overlap: the *)
(* states follow the diagram of _threadmodule.c:69-74, and nothing that    *)
(* was done to the OS thread is undone or done again (:86-95).  ReapedOnce *)
(* is what this says of the states, this also says it of the steps.        *)
Life == INSTANCE HandleLife WITH
    created <- pc[Runner] # "unborn",
    settled <- word[Once] = ONCE_INITIALIZED,
    freed <- refcount = 0

ImplementsLife == Life!LifeSpec

(* Joins come back, in turn, also when another one failed before them or   *)
(* the thread was declared done.  The premise: waits are not interrupted   *)
(* for ever, and the OS calls do not fail for ever (each failure is one    *)
(* more thread that takes the once flag before those that wait for it).    *)
FailuresStop ==
    <>[][\A t \in Threads :
            /\ parkState'[t] \in {"TIMEOUT", "INTR"} => parkState'[t] = parkState[t]
            /\ ~(pc[t] = "run" /\ pc'[t] = "unlock")]_vars

JoinsReturn ==
    FailuresStop => \A t \in Threads : call[t] = "join" ~> call[t] = "none"
=============================================================================
