---------------------------- MODULE RawMutexSignals ---------------------------
(***************************************************************************)
(* RawMutex where a signal can interrupt a semaphore wait: sem_wait fails  *)
(* with EINTR and _PySemaphore_PlatformWait returns Py_PARK_INTR           *)
(* (parking_lot.c:172-177).  _PyRawMutex_LockSlow does not look at the     *)
(* result: it goes on as if it had been popped.                            *)
(***************************************************************************)
EXTENDS RawMutex

Interrupt(t) ==
    /\ pc[t] = "asleep"
    /\ sema[t] = 0
    /\ Goto(t, "loop")
    /\ UNCHANGED <<word, next, sema, v, rest>>

SignalsNext == Next \/ \E t \in Threads : Interrupt(t)

SignalsSpec == Init /\ [][SignalsNext]_vars
=============================================================================
