--------------------------------- MODULE Gil ----------------------------------
(***************************************************************************)
(* The global interpreter lock of the default build (Python/ceval_gil.c):  *)
(* take_gil with its timed waits and drop requests, drop_gil with forced   *)
(* switching, and the threads that must exit once the runtime finalizes.   *)
(*                                                                         *)
(* What a thread does while it has gil->mutex or switch_mutex is one step, *)
(* except that a bit of eval_breaker can change outside of them.  All      *)
(* waits on gil->cond are timed, so they can end at any time, signalled or *)
(* not; the wait on switch_cond is not in a loop, and a condition variable *)
(* may wake a thread that nobody has signalled.                            *)
(***************************************************************************)
EXTENDS ThreadStates

VARIABLES
    locked,        \* gil->locked
    lastHolder,    \* gil->last_holder
    holdsGil,      \* the threads whose holds_gil is 1
    dropRequest,   \* the threads with _PY_GIL_DROP_REQUEST_BIT
    gilPc,         \* what each thread is doing
    switched,      \* threads for which switch_number # saved_switchnum
    dropRequested, \* the threads whose drop_requested is 1
    holder,        \* the holder_tstate of a thread on its way to the hang
    finalizer,     \* the thread that called Py_FinalizeEx
    shutDown,      \* the threads whose state is SHUTTING_DOWN
    owesTurn       \* history: the threads that have dropped the GIL and found
                   \* a drop request, and since when no other has taken it;
                   \* without those that a spurious wakeup let go

gilState == <<locked, lastHolder, holdsGil>>
loopVars == <<switched, dropRequested, holder>>
exitVars == <<finalizer, shutDown>>
gilVars == <<gilState, loopVars, dropRequest, gilPc, exitVars, owesTurn>>

(* "gone": no such thread state; "out": detached; "enter", "wait" and      *)
(* "quit": in take_gil, at the loop, in its wait, on the way to the hang;  *)
(* "run": attached; "giveBack": has taken the GIL and must exit;           *)
(* "dropped", "switch", "switchWait": in drop_gil, after drop_gil_impl,    *)
(* about to lock switch_mutex, in its wait.                                *)
GilPCs == {"gone", "out", "enter", "wait", "quit", "run", "giveBack",
        "dropped", "switch", "switchWait", "hung"}

GilTypeOK ==
    /\ locked \in BOOLEAN
    /\ lastHolder \in Threads \cup {None}
    /\ holdsGil \subseteq Threads
    /\ dropRequest \subseteq Threads
    /\ gilPc \in [Threads -> GilPCs]
    /\ switched \subseteq Threads
    /\ dropRequested \subseteq Threads
    /\ holder \in [Threads -> Threads \cup {None}]
    /\ finalizer \in Threads \cup {None}
    /\ shutDown \subseteq Threads
    /\ owesTurn \subseteq Threads

GilInit ==     \* create_gil
    /\ locked = FALSE
    /\ lastHolder = None
    /\ holdsGil = {}
    /\ dropRequest = {}
    /\ gilPc \in [Threads -> {"gone", "out"}]
    /\ switched = {}
    /\ dropRequested = {}
    /\ holder = [t \in Threads |-> None]
    /\ finalizer = None
    /\ shutDown = {}
    /\ owesTurn = {}

GilGoto(t, label) == gilPc' = [gilPc EXCEPT ![t] = label]

(* _PyThreadState_MustExit: only the states that Py_FinalizeEx has found.  *)
MustExit(t) == t \in shutDown

-----------------------------------------------------------------------------
(* take_gil                                                                *)

(* The first check: a thread that must exit does not even try.             *)
Enter(t) ==
    /\ gilPc[t] = "out"
    /\ GilGoto(t, IF MustExit(t) THEN "hung" ELSE "enter")
    /\ UNCHANGED <<gilState, loopVars, dropRequest, exitVars, owesTurn>>

(* The loop finds the GIL taken: the switch number is saved and the timed  *)
(* wait begins.                                                            *)
Wait(t) ==
    /\ gilPc[t] = "enter"
    /\ locked
    /\ GilGoto(t, "wait")
    /\ switched' = switched \ {t}
    /\ UNCHANGED <<gilState, dropRequest, dropRequested, holder, exitVars, owesTurn>>

(* Faulty variant: the switch number is saved once, before the loop.       *)
WaitAgainUnsaved(t) ==
    /\ gilPc[t] = "wait"
    /\ locked
    /\ UNCHANGED gilVars

(* The wait ends by a signal or spuriously, or it times out after the GIL  *)
(* has changed hands: the loop goes round.                                 *)
WaitAgain(t) ==
    /\ gilPc[t] = "wait"
    /\ locked
    /\ switched' = switched \ {t}
    /\ UNCHANGED <<gilState, dropRequest, gilPc, dropRequested, holder, exitVars,
                   owesTurn>>

(* It times out, with no switch meanwhile, in a thread that goes on: the   *)
(* holder is asked to drop the GIL.                                        *)
RequestDrop(t) ==
    /\ gilPc[t] = "wait"
    /\ locked
    /\ t \notin switched
    /\ ~MustExit(t)
    /\ dropRequest' = dropRequest \cup {lastHolder}
    /\ dropRequested' = dropRequested \cup {t}
    /\ UNCHANGED <<gilState, gilPc, switched, holder, exitVars, owesTurn>>

(* The same in a thread that must exit: it unlocks gil->mutex ...          *)
Quit(t) ==
    /\ gilPc[t] = "wait"
    /\ locked
    /\ t \notin switched
    /\ MustExit(t)
    /\ GilGoto(t, "quit")
    /\ holder' = [holder EXCEPT ![t] = lastHolder]
    /\ UNCHANGED <<gilState, dropRequest, switched, dropRequested, exitVars, owesTurn>>

(* ... and withdraws its request, if it has made one, before it hangs.     *)
Withdraw(t) ==
    /\ gilPc[t] = "quit"
    /\ dropRequest' = dropRequest \ (IF t \in dropRequested THEN {holder[t]} ELSE {})
    /\ dropRequested' = dropRequested \ {t}
    /\ holder' = [holder EXCEPT ![t] = None]
    /\ GilGoto(t, "hung")
    /\ UNCHANGED <<gilState, switched, exitVars, owesTurn>>

SwitchWaiters == {u \in Threads : gilPc[u] = "switchWait"}

(* COND_SIGNAL(gil->switch_cond) wakes one thread, if one waits.           *)
TakenAndSignalled(t, label) ==
    IF SwitchWaiters = {}
    THEN GilGoto(t, label)
    ELSE \E w \in SwitchWaiters : gilPc' = [gilPc EXCEPT ![t] = label, ![w] = "out"]

(* Faulty variant: only the threads that come in are checked.              *)
TakeUnchecked(t) ==
    /\ gilPc[t] \in {"enter", "wait"}
    /\ ~locked
    /\ locked' = TRUE
    /\ lastHolder' = t
    /\ switched' = (IF lastHolder = t THEN switched
                    ELSE {u \in Threads : gilPc[u] = "wait"}) \ {t}
    /\ dropRequested' = dropRequested \ {t}
    /\ TakenAndSignalled(t, "run")
    /\ owesTurn' = owesTurn \cap {t}
    /\ holdsGil' = holdsGil \cup {t}
    /\ dropRequest' = dropRequest \ {t}
    /\ UNCHANGED <<holder, exitVars>>

(* Faulty variant: locked is not tested again after the wait.              *)
TakeOnWakeup(t) ==
    /\ gilPc[t] = "wait" \/ (gilPc[t] = "enter" /\ ~locked)
    /\ locked' = TRUE
    /\ lastHolder' = t
    /\ switched' = {u \in Threads : gilPc[u] = "wait"} \ {t}
    /\ dropRequested' = dropRequested \ {t}
    /\ TakenAndSignalled(t, "run")
    /\ owesTurn' = owesTurn \cap {t}
    /\ holdsGil' = holdsGil \cup {t}
    /\ dropRequest' = dropRequest \ {t}
    /\ UNCHANGED <<holder, exitVars>>

(* The GIL is free: the thread takes it, and looks once more whether it    *)
(* must exit.                                                              *)
Take(t) ==
    /\ gilPc[t] \in {"enter", "wait"}
    /\ ~locked
    /\ locked' = TRUE
    /\ lastHolder' = t
    /\ switched' = (IF lastHolder = t THEN switched
                    ELSE {u \in Threads : gilPc[u] = "wait"}) \ {t}
    /\ dropRequested' = dropRequested \ {t}
    /\ owesTurn' = owesTurn \cap {t}
    /\ IF MustExit(t)
       THEN TakenAndSignalled(t, "giveBack") /\ UNCHANGED <<holdsGil, dropRequest>>
       ELSE /\ TakenAndSignalled(t, "run")
            /\ holdsGil' = holdsGil \cup {t}
            /\ dropRequest' = dropRequest \ {t}
    /\ UNCHANGED <<holder, exitVars>>

(* drop_gil(interp, NULL, 1), then the hang.                               *)
GiveBack(t) ==
    /\ gilPc[t] = "giveBack"
    /\ locked' = FALSE
    /\ GilGoto(t, "hung")
    /\ UNCHANGED <<lastHolder, holdsGil, loopVars, dropRequest, exitVars, owesTurn>>

-----------------------------------------------------------------------------
(* drop_gil                                                                *)

(* A thread detaches, because the eval loop has seen the request or before *)
(* a call that blocks.                                                     *)
Drop(t) ==
    /\ gilPc[t] = "run"
    /\ locked' = FALSE
    /\ lastHolder' = t
    /\ holdsGil' = holdsGil \ {t}
    /\ GilGoto(t, "dropped")
    /\ UNCHANGED <<loopVars, dropRequest, exitVars, owesTurn>>

LookAtRequest(t) ==
    /\ gilPc[t] = "dropped"
    /\ GilGoto(t, IF t \in dropRequest THEN "switch" ELSE "out")
    /\ owesTurn' = owesTurn \cup ({t} \cap dropRequest \cap {lastHolder})
    /\ UNCHANGED <<gilState, loopVars, dropRequest, exitVars>>

(* Faulty variant: the thread waits although the GIL has been taken.       *)
ForceSwitchAlways(t) ==
    /\ gilPc[t] = "switch"
    /\ dropRequest' = dropRequest \ {t}
    /\ GilGoto(t, "switchWait")
    /\ UNCHANGED <<gilState, loopVars, exitVars, owesTurn>>

(* Faulty variant: the thread does not wait for the switch.                *)
ForceSwitchNever(t) ==
    /\ gilPc[t] = "switch"
    /\ GilGoto(t, "out")
    /\ UNCHANGED <<gilState, loopVars, dropRequest, exitVars, owesTurn>>

(* With switch_mutex: unless another thread has taken the GIL, wait.       *)
ForceSwitch(t) ==
    /\ gilPc[t] = "switch"
    /\ IF lastHolder = t
       THEN dropRequest' = dropRequest \ {t} /\ GilGoto(t, "switchWait")
       ELSE UNCHANGED dropRequest /\ GilGoto(t, "out")
    /\ UNCHANGED <<gilState, loopVars, exitVars, owesTurn>>

(* The wait ends although nobody has signalled, and drop_gil returns.      *)
SpuriousWakeup(t) ==
    /\ gilPc[t] = "switchWait"
    /\ GilGoto(t, "out")
    /\ owesTurn' = owesTurn \ {t}
    /\ UNCHANGED <<gilState, loopVars, dropRequest, exitVars>>

(* The last release of a thread state that is then freed.                  *)
DropFinal(t) ==
    /\ gilPc[t] = "run"
    /\ t # finalizer
    /\ locked' = FALSE
    /\ holdsGil' = holdsGil \ {t}
    /\ dropRequest' = dropRequest \ {t}
    /\ GilGoto(t, "gone")
    /\ UNCHANGED <<lastHolder, loopVars, exitVars, owesTurn>>

-----------------------------------------------------------------------------
(* A thread state is made, perhaps where one was freed.  Nothing keeps a   *)
(* thread from that after Py_FinalizeEx: the new state is an ordinary one. *)
CreateState(t) ==
    /\ gilPc[t] = "gone"
    /\ GilGoto(t, "out")
    /\ shutDown' = shutDown \ {t}
    /\ UNCHANGED <<gilState, loopVars, dropRequest, finalizer, owesTurn>>

(* Py_FinalizeEx: the other states that exist become SHUTTING_DOWN while   *)
(* the caller has the GIL.                                                 *)
Finalize(t) ==
    /\ gilPc[t] = "run"
    /\ finalizer = None
    /\ finalizer' = t
    /\ shutDown' = {u \in Threads \ {t} : gilPc[u] # "gone"}
    /\ UNCHANGED <<gilState, loopVars, dropRequest, gilPc, owesTurn>>

(* The eval loop comes to its check of eval_breaker.                       *)
HandleDropRequest(t) == t \in dropRequest /\ Drop(t)

(* What a thread does without waiting for another; time passes.            *)
GilStep(t) ==
    \/ Wait(t) \/ WaitAgain(t) \/ RequestDrop(t) \/ Quit(t) \/ Withdraw(t)
    \/ Take(t) \/ GiveBack(t)
    \/ HandleDropRequest(t) \/ LookAtRequest(t) \/ ForceSwitch(t)

GilNext ==
    \E t \in Threads :
        \/ CreateState(t) \/ Enter(t) \/ Drop(t) \/ DropFinal(t) \/ Finalize(t)
        \/ SpuriousWakeup(t) \/ GilStep(t)

GilSpec == GilInit /\ [][GilNext]_gilVars

(* Threads run, timed waits end, and the eval loop of a thread that runs   *)
(* comes to its check.  No thread need drop the GIL unasked, nor take it,  *)
(* and a thread that waits on switch_cond depends on being signalled.      *)
GilFairness == \A t \in Threads : WF_gilVars(GilStep(t))

GilFairSpec == GilSpec /\ GilFairness

-----------------------------------------------------------------------------
(* The GIL is held by one thread at most, the one that locked and          *)
(* last_holder name (assertions of current_thread_holds_gil,               *)
(* ceval_gil.c:469-470): a drop request reaches the thread that holds it.  *)
Has(t) == gilPc[t] \in {"run", "giveBack"}

HolderIsKnown ==
    /\ GilTypeOK
    /\ \A t \in Threads : Has(t) => locked /\ lastHolder = t
    /\ locked => \E t \in Threads : Has(t)
    /\ holdsGil = {t \in Threads : gilPc[t] = "run"}

(* A thread that waits for the switch is the last holder and the GIL is    *)
(* still free: the thread that takes it cannot have come between the look  *)
(* at last_holder and the wait (ceval_gil.c:262-270).                      *)
SwitchIsStillToCome ==
    \A t \in SwitchWaiters : ~locked /\ lastHolder = t

(* A daemon thread never runs again once Py_FinalizeEx has shut its state  *)
(* down, wherever in take_gil or drop_gil it was at that moment: on its    *)
(* way in, in a timed wait, in a forced switch (ceval_gil.c:394).  It says *)
(* nothing of states that are made later: those do run.                    *)
DaemonsDoNotRun ==
    \A t \in shutDown : gilPc[t] # "run"

(* Forced switching: a thread that drops the GIL and finds a drop request  *)
(* on its eval breaker does not have it again before another thread has    *)
(* had it (ceval_gil.c:39-44), unless its wait ended spuriously.           *)
TurnsAreTaken ==
    \A t \in owesTurn : ~Has(t)

(* No thread runs on for ever while another waits in take_gil.             *)
NoMonopoly ==
    \A t \in Threads :
        gilPc[t] = "run" /\ (\E u \in Threads : gilPc[u] = "wait")
            ~> gilPc[t] # "run" \/ \A u \in Threads : gilPc[u] # "wait"

(* drop_gil returns: the thread it waits for takes the GIL, and one that   *)
(* exits instead withdraws its request first, "Otherwise, drop_gil() can   *)
(* block forever waiting for the thread which exited" (ceval_gil.c:345).   *)
SwitchWaitEnds ==
    \A t \in Threads : gilPc[t] = "switchWait" ~> gilPc[t] # "switchWait"
=============================================================================
