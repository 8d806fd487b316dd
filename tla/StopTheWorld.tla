----------------------------- MODULE StopTheWorld -----------------------------
(***************************************************************************)
(* Stopping the world in the free-threaded build (Python/pystate.c): a     *)
(* thread brings all the other threads of its interpreter, or of all       *)
(* interpreters, into the state SUSPENDED and lets them go again, while    *)
(* threads attach, detach, are created and deleted and ask for pauses of   *)
(* their own.                                                              *)
(*                                                                         *)
(* What is done under HEAD_LOCK, which does not detach, is one step.  The  *)
(* mutex of a pause and stoptheworld_mutex are the locks that PyMutex and  *)
(* RWMutex implement: a thread that waits for them is detached.            *)
(***************************************************************************)
EXTENDS ThreadStates, Integers, FiniteSets

CONSTANTS
    Interps,    \* the interpreters
    InterpOf,   \* the interpreter of each thread
    Global      \* the pause of the runtime, over all interpreters

ASSUME ThreadsFinite == IsFiniteSet(Threads)
ASSUME InterpOfType == InterpOf \in [Threads -> Interps]
ASSUME GlobalType == Global \notin Interps
ASSUME NoneIsNoPause == None \notin Interps \cup {Global}

(* The instances of struct _stoptheworld_state, by their scope.            *)
Pauses == Interps \cup {Global}

VARIABLES
    alive,        \* the threads that are linked into their interpreter
    state,        \* tstate->state
    pc,           \* what each thread is doing
    goal,         \* what it goes on with once it is attached
    pause,        \* the pause it has asked for or is suspended by
    pleaseStop,   \* the threads with _PY_EVAL_PLEASE_STOP_BIT
    mutex,        \* who has stw->mutex
    readers,      \* who has stoptheworld_mutex for reading ...
    writer,       \* ... and for writing
    requested,    \* the pauses whose requested is 1
    stopped,      \* the pauses whose world_stopped is 1
    requester,    \* stw->requester
    countdown,    \* stw->thread_countdown
    event         \* the pauses whose stop_event is set

threadVars == <<alive, state, pc, goal, pause, pleaseStop>>
lockVars == <<mutex, readers, writer>>
pauseVars == <<requested, stopped, requester, countdown, event>>
vars == <<threadVars, lockVars, pauseVars>>

States == {"DETACHED", "ATTACHED", "SUSPENDED"}
PCs == {"run", "away", "attach", "suspend", "leave", "decrement",
        "mutex", "mutexWait", "rw", "rwWait", "count", "wait", "stopped",
        "release", "unlock"}

TypeOK ==
    /\ alive \subseteq Threads
    /\ state \in [Threads -> States]
    /\ pc \in [Threads -> PCs]
    /\ goal \in [Threads -> {"run", "mutex", "rw"}]
    /\ pause \in [Threads -> Pauses \cup {None}]
    /\ pleaseStop \subseteq Threads
    /\ mutex \in [Pauses -> Threads \cup {None}]
    /\ readers \subseteq Threads
    /\ writer \in Threads \cup {None}
    /\ requested \subseteq Pauses
    /\ stopped \subseteq Pauses
    /\ requester \in [Pauses -> Threads \cup {None}]
    /\ countdown \in [Pauses -> 0..Cardinality(Threads)]
    /\ event \subseteq Pauses

(* Any thread states can be there to begin with, none of them attached.    *)
Init ==
    /\ alive \in SUBSET Threads
    /\ state = [t \in Threads |-> "DETACHED"]
    /\ pc = [t \in Threads |-> "away"]
    /\ goal = [t \in Threads |-> "run"]
    /\ pause = [t \in Threads |-> None]
    /\ pleaseStop = {}
    /\ mutex = [s \in Pauses |-> None]
    /\ readers = {}
    /\ writer = None
    /\ requested = {}
    /\ stopped = {}
    /\ requester = [s \in Pauses |-> None]
    /\ countdown = [s \in Pauses |-> 0]
    /\ event = {}

(* The threads a pause is about, and the pauses that are about a thread.   *)
Scope(s) == {t \in alive : s \in {InterpOf[t], Global}}
Others(s, t) == Scope(s) \ {t}
RequestedFor(t) == requested \cap {InterpOf[t], Global}

Goto(t, label) == pc' = [pc EXCEPT ![t] = label]
SetState(t, st) == state' = [state EXCEPT ![t] = st]

(* decrement_stoptheworld_countdown for the pauses ss.                     *)
Decrement(ss) ==
    /\ countdown' = [s \in Pauses |-> countdown[s] - (IF s \in ss THEN 1 ELSE 0)]
    /\ event' = event \cup {s \in ss : countdown[s] = 1}

-----------------------------------------------------------------------------
(* Thread states come and go.                                              *)

(* Faulty variant: a new thread does not look at the pauses.               *)
CreateDetached(t) ==
    /\ t \notin alive
    /\ alive' = alive \cup {t}
    /\ SetState(t, "DETACHED")
    /\ Goto(t, "attach")
    /\ goal' = [goal EXCEPT ![t] = "run"]
    /\ UNCHANGED <<pause, pleaseStop, lockVars, pauseVars>>

(* new_threadstate, init_threadstate, add_threadstate.                     *)
Create(t) ==
    /\ t \notin alive
    /\ alive' = alive \cup {t}
    /\ SetState(t, IF RequestedFor(t) # {} THEN "SUSPENDED" ELSE "DETACHED")
    /\ Goto(t, "attach")
    /\ goal' = [goal EXCEPT ![t] = "run"]
    /\ UNCHANGED <<pause, pleaseStop, lockVars, pauseVars>>

(* Faulty variant: a pause goes on waiting for a thread that is deleted.   *)
DeleteUncounted(t) ==
    /\ alive' = alive \ {t}
    /\ pleaseStop' = pleaseStop \ {t}
    /\ SetState(t, "DETACHED")
    /\ Goto(t, "away")
    /\ UNCHANGED <<goal, pause, lockVars, pauseVars>>

(* tstate_delete_common; the last two changes clean up after the model.    *)
Delete(t) ==
    /\ alive' = alive \ {t}
    /\ pleaseStop' = pleaseStop \ {t}
    /\ Decrement(IF state[t] # "SUSPENDED" THEN RequestedFor(t) ELSE {})
    /\ SetState(t, "DETACHED")
    /\ Goto(t, "away")
    /\ UNCHANGED <<goal, pause, lockVars, requested, stopped, requester>>

DeleteCurrent(t) ==
    /\ t \in alive
    /\ pc[t] = "run"
    /\ Delete(t)

(* PyThreadState_Delete: a running thread u of the interpreter deletes a   *)
(* thread state that is not active.                                        *)
DeleteOther(t) ==
    /\ t \in alive
    /\ pc[t] = "away"
    /\ \E u \in alive : pc[u] = "run" /\ InterpOf[u] = InterpOf[t]
    /\ Delete(t)

-----------------------------------------------------------------------------
(* Attaching and detaching.                                                *)

(* _PyThreadState_Attach: possible in the state DETACHED only; in          *)
(* SUSPENDED the thread parks until start_the_world changes its state.     *)
Attach(t) ==
    /\ t \in alive
    /\ pc[t] = "attach"
    /\ state[t] = "DETACHED"
    /\ SetState(t, "ATTACHED")
    /\ Goto(t, goal[t])
    /\ goal' = [goal EXCEPT ![t] = "run"]
    /\ UNCHANGED <<alive, pause, pleaseStop, lockVars, pauseVars>>

(* _PyThreadState_Detach around a blocking call, and the way back.         *)
Detach(t) ==
    /\ t \in alive
    /\ pc[t] = "run"
    /\ SetState(t, "DETACHED")
    /\ Goto(t, "away")
    /\ UNCHANGED <<alive, goal, pause, pleaseStop, lockVars, pauseVars>>

ComeBack(t) ==
    /\ t \in alive
    /\ pc[t] = "away"
    /\ Goto(t, "attach")
    /\ UNCHANGED <<alive, state, goal, pause, pleaseStop, lockVars, pauseVars>>

(* _Py_HandlePending: take the bit off and call _PyThreadState_Suspend,    *)
HandleStop(t) ==
    /\ t \in alive
    /\ pc[t] = "run"
    /\ t \in pleaseStop
    /\ pleaseStop' = pleaseStop \ {t}
    /\ Goto(t, "suspend")
    /\ UNCHANGED <<alive, state, goal, pause, lockVars, pauseVars>>

(* which looks for the pause under HEAD_LOCK,                              *)
SuspendLook(t) ==
    /\ pc[t] = "suspend"
    /\ pause' = [pause EXCEPT ![t] =
                   IF Global \in requested THEN Global
                   ELSE IF InterpOf[t] \in requested THEN InterpOf[t] ELSE None]
    /\ Goto(t, "leave")
    /\ UNCHANGED <<alive, state, goal, pleaseStop, lockVars, pauseVars>>

(* detaches without it,                                                    *)
SuspendDetach(t) ==
    /\ pc[t] = "leave"
    /\ SetState(t, IF pause[t] = None THEN "DETACHED" ELSE "SUSPENDED")
    /\ Goto(t, IF pause[t] = None THEN "attach" ELSE "decrement")
    /\ UNCHANGED <<alive, goal, pause, pleaseStop, lockVars, pauseVars>>

(* Faulty variant: it does not report to the pause.                        *)
SuspendSilently(t) ==
    /\ pc[t] = "decrement"
    /\ pause' = [pause EXCEPT ![t] = None]
    /\ Goto(t, "attach")
    /\ UNCHANGED <<alive, state, goal, pleaseStop, lockVars, pauseVars>>

(* and counts itself, under HEAD_LOCK again.                               *)
SuspendCount(t) ==
    /\ pc[t] = "decrement"
    /\ Decrement({pause[t]})
    /\ pause' = [pause EXCEPT ![t] = None]
    /\ Goto(t, "attach")
    /\ UNCHANGED <<alive, state, goal, pleaseStop, lockVars,
                   requested, stopped, requester>>

-----------------------------------------------------------------------------
(* stop_the_world.                                                         *)

StopTheWorld(t) ==
    /\ t \in alive
    /\ pc[t] = "run"
    /\ \E s \in {InterpOf[t], Global} : pause' = [pause EXCEPT ![t] = s]
    /\ Goto(t, "mutex")
    /\ UNCHANGED <<alive, state, goal, pleaseStop, lockVars, pauseVars>>

(* PyMutex_Lock(&stw->mutex): at once, after a wait, by a hand-off.        *)
TakeMutex(t) ==
    /\ pc[t] = "mutex"
    /\ mutex[pause[t]] = None
    /\ mutex' = [mutex EXCEPT ![pause[t]] = t]
    /\ Goto(t, "rw")
    /\ UNCHANGED <<alive, state, goal, pause, pleaseStop, readers, writer, pauseVars>>

WaitForMutex(t) ==
    /\ pc[t] = "mutex"
    /\ mutex[pause[t]] # None
    /\ SetState(t, "DETACHED")
    /\ Goto(t, "mutexWait")
    /\ UNCHANGED <<alive, goal, pause, pleaseStop, lockVars, pauseVars>>

MutexHandedOff(t) ==
    /\ pc[t] = "mutexWait"
    /\ mutex[pause[t]] = None
    /\ mutex' = [mutex EXCEPT ![pause[t]] = t]
    /\ Goto(t, "attach")
    /\ goal' = [goal EXCEPT ![t] = "rw"]
    /\ UNCHANGED <<alive, state, pause, pleaseStop, readers, writer, pauseVars>>

MutexWoken(t) ==
    /\ pc[t] = "mutexWait"
    /\ mutex[pause[t]] = None
    /\ Goto(t, "attach")
    /\ goal' = [goal EXCEPT ![t] = "mutex"]
    /\ UNCHANGED <<alive, state, pause, pleaseStop, lockVars, pauseVars>>

(* Faulty variant: a pause of an interpreter does not take the lock.       *)
TakeRWIfGlobal(t) ==
    /\ pc[t] = "rw"
    /\ IF pause[t] = Global
       THEN readers = {} /\ writer = None /\ writer' = t /\ UNCHANGED readers
       ELSE readers' = readers \cup {t} /\ UNCHANGED writer
    /\ Goto(t, "count")
    /\ UNCHANGED <<alive, state, goal, pause, pleaseStop, mutex, pauseVars>>

(* stoptheworld_mutex: written by the pause of the runtime, read by the    *)
(* others.                                                                 *)
MayTakeRW(t) == writer = None /\ (pause[t] = Global => readers = {})

TakeRW(t) ==
    /\ pc[t] = "rw"
    /\ MayTakeRW(t)
    /\ IF pause[t] = Global
       THEN writer' = t /\ UNCHANGED readers
       ELSE readers' = readers \cup {t} /\ UNCHANGED writer
    /\ Goto(t, "count")
    /\ UNCHANGED <<alive, state, goal, pause, pleaseStop, mutex, pauseVars>>

WaitForRW(t) ==
    /\ pc[t] = "rw"
    /\ ~MayTakeRW(t)
    /\ SetState(t, "DETACHED")
    /\ Goto(t, "rwWait")
    /\ UNCHANGED <<alive, goal, pause, pleaseStop, lockVars, pauseVars>>

RWWoken(t) ==
    /\ pc[t] = "rwWait"
    /\ MayTakeRW(t)
    /\ Goto(t, "attach")
    /\ goal' = [goal EXCEPT ![t] = "rw"]
    /\ UNCHANGED <<alive, state, pause, pleaseStop, lockVars, pauseVars>>

(* park_detached_threads(s) with a countdown of n.  The threads in late     *)
(* attach during the round: the state was DETACHED when it was loaded and  *)
(* the exchange fails, so that this round leaves them alone.               *)
ParkDetached(t, s, n, late) ==
    LET parked == {u \in Scope(s) : state[u] = "DETACHED"} \ late
        attached == {u \in Others(s, t) : state[u] = "ATTACHED"}
        allStopped == n = Cardinality(parked) /\ (parked # {} \/ Others(s, t) = {})
    IN  /\ state' = [u \in Threads |->
                        CASE u \in parked -> "SUSPENDED"
                          [] u \in late -> "ATTACHED"
                          [] OTHER -> state[u]]
        /\ pleaseStop' = pleaseStop \cup attached
        /\ countdown' = [countdown EXCEPT ![s] = n - Cardinality(parked)]
        /\ stopped' = IF allStopped THEN stopped \cup {s} ELSE stopped
        /\ pc' = [u \in Threads |->
                     CASE u = t -> IF allStopped THEN "stopped" ELSE "wait"
                       [] u \in late -> goal[u]
                       [] OTHER -> pc[u]]
        /\ goal' = [u \in Threads |-> IF u \in late THEN "run" ELSE goal[u]]

Attaching(s) == {u \in Scope(s) : pc[u] = "attach" /\ state[u] = "DETACHED"}

(* The request, the count of the threads to stop and the first round are   *)
(* made without HEAD_LOCK being released.                                  *)
Request(t) ==
    /\ pc[t] = "count"
    /\ LET s == pause[t]
       IN  /\ requested' = requested \cup {s}
           /\ requester' = [requester EXCEPT ![s] = t]
           /\ event' = event \ {s}
           /\ \E late \in SUBSET Attaching(s) :
                  ParkDetached(t, s, Cardinality(Others(s, t)), late)
    /\ UNCHANGED <<alive, pause, lockVars>>

(* The wait for the event timed out: another round.                        *)
Round(t, late) ==
    /\ pc[t] = "wait"
    /\ pause[t] \notin event
    /\ ParkDetached(t, pause[t], countdown[pause[t]], late)
    /\ UNCHANGED <<alive, pause, lockVars, requested, requester, event>>

NextRound(t) == \E late \in SUBSET Attaching(pause[t]) : Round(t, late)

AllStopped(t) ==
    /\ pc[t] = "wait"
    /\ pause[t] \in event
    /\ stopped' = stopped \cup {pause[t]}
    /\ Goto(t, "stopped")
    /\ UNCHANGED <<alive, state, goal, pause, pleaseStop, lockVars,
                   requested, requester, countdown, event>>

-----------------------------------------------------------------------------
(* start_the_world.                                                        *)

(* Faulty variant: the other interpreters are left out.                    *)
StartMyInterp(t) ==
    /\ pc[t] = "stopped"
    /\ LET s == pause[t]
       IN  /\ requested' = requested \ {s}
           /\ stopped' = stopped \ {s}
           /\ requester' = [requester EXCEPT ![s] = None]
           /\ state' = [u \in Threads |->
                           IF u \in Others(InterpOf[t], t) THEN "DETACHED" ELSE state[u]]
    /\ Goto(t, "release")
    /\ UNCHANGED <<alive, goal, pause, pleaseStop, lockVars, countdown, event>>

StartTheWorld(t) ==
    /\ pc[t] = "stopped"
    /\ LET s == pause[t]
       IN  /\ requested' = requested \ {s}
           /\ stopped' = stopped \ {s}
           /\ requester' = [requester EXCEPT ![s] = None]
           /\ state' = [u \in Threads |->
                           IF u \in Others(s, t) THEN "DETACHED" ELSE state[u]]
    /\ Goto(t, "release")
    /\ UNCHANGED <<alive, goal, pause, pleaseStop, lockVars, countdown, event>>

ReleaseRW(t) ==
    /\ pc[t] = "release"
    /\ IF pause[t] = Global
       THEN writer' = None /\ UNCHANGED readers
       ELSE readers' = readers \ {t} /\ UNCHANGED writer
    /\ Goto(t, "unlock")
    /\ UNCHANGED <<alive, state, goal, pause, pleaseStop, mutex, pauseVars>>

UnlockMutex(t) ==
    /\ pc[t] = "unlock"
    /\ mutex' = [mutex EXCEPT ![pause[t]] = None]
    /\ pause' = [pause EXCEPT ![t] = None]
    /\ Goto(t, "run")
    /\ UNCHANGED <<alive, state, goal, pleaseStop, readers, writer, pauseVars>>

-----------------------------------------------------------------------------
(* What a thread does on its own, without waiting for another.             *)
OwnStep(t) ==
    \/ SuspendLook(t) \/ SuspendDetach(t) \/ SuspendCount(t)
    \/ TakeMutex(t) \/ WaitForMutex(t) \/ TakeRW(t) \/ WaitForRW(t)
    \/ Request(t) \/ NextRound(t) \/ AllStopped(t)
    \/ StartTheWorld(t) \/ ReleaseRW(t) \/ UnlockMutex(t)

Next ==
    \E t \in Threads :
        \/ Create(t) \/ DeleteCurrent(t) \/ DeleteOther(t)
        \/ Attach(t) \/ Detach(t) \/ ComeBack(t) \/ HandleStop(t)
        \/ StopTheWorld(t) \/ OwnStep(t)
        \/ MutexHandedOff(t) \/ MutexWoken(t) \/ RWWoken(t)

Spec == Init /\ [][Next]_vars

(* Threads run; one that runs Python code again and again comes to the     *)
(* check of the eval breaker, and of the rounds that one makes every ms    *)
(* one at last finds no thread between its load and its exchange.  No      *)
(* thread need ever detach, come back or ask for a pause.                  *)
Fairness ==
    \A t \in Threads :
        WF_vars(OwnStep(t)) /\ SF_vars(HandleStop(t) \/ Round(t, {}))

FairSpec == Spec /\ Fairness

-----------------------------------------------------------------------------
(* While the world is stopped for s every thread in the scope of s but the *)
(* requester is SUSPENDED, threads that were created meanwhile included:   *)
(* the requester works on the others' data without locks, and              *)
(* start_the_world may set them all to DETACHED (pystate.c:2424).          *)
StoppedMeansSuspended ==
    \A s \in stopped : \A t \in Scope(s) :
        t # requester[s] => state[t] = "SUSPENDED"

(* The countdown of a pause in progress is the number of threads that have *)
(* not reported yet: no thread is counted twice or left out, whichever way *)
(* it leaves (its assertion, pystate.c:2303), and the event is set once    *)
(* nobody is left.                                                         *)
CountdownIsExact ==
    /\ TypeOK
    /\ \A s \in requested :
          /\ countdown[s] = Cardinality(
                {t \in Scope(s) : /\ t # requester[s]
                                  /\ state[t] # "SUSPENDED" \/ pc[t] = "decrement"})
          /\ s \in event => countdown[s] = 0
          /\ pc[requester[s]] = "wait" /\ countdown[s] = 0 => s \in event

(* A pause of the runtime never overlaps one of an interpreter, and every  *)
(* pause is run by a thread that is attached.                              *)
PausesExclude ==
    /\ Global \in requested => requested = {Global}
    /\ \A s \in requested :
          /\ requester[s] \in alive
          /\ state[requester[s]] = "ATTACHED"

(* A thread that is suspended is in the scope of a pause that will let it  *)
(* go: nothing is left SUSPENDED behind.                                   *)
NobodyIsLeftSuspended ==
    \A t \in alive : state[t] = "SUSPENDED" => RequestedFor(t) # {}

(* A pause of the whole runtime stops all its threads, while threads come  *)
(* and go, attach and detach as they like.                                 *)
WorldStops == Global \in requested ~> Global \in stopped
=============================================================================
