------------------------------ MODULE HandleLife -------------------------------
(***************************************************************************)
(* What a thread handle promises about the operating system's thread       *)
(* (Modules/_threadmodule.c:69-95): the states follow one another as in    *)
(* the diagram, the thread is created once and joined or detached once, by *)
(* somebody who found it running, the handle is freed with nothing left to *)
(* be done, and once a join has succeeded that is settled for all others.  *)
(* ThreadHandle implements this specification.                             *)
(***************************************************************************)
EXTENDS Naturals

CONSTANTS NOT_STARTED, STARTING, RUNNING, DONE

VARIABLES
    state,      \* handle->state
    created,    \* there is, or was, an OS thread
    reaped,     \* how often it was joined or detached
    settled,    \* joins return at once
    freed       \* the handle's memory is gone

lifeVars == <<state, created, reaped, settled, freed>>

LifeInit ==
    /\ state = NOT_STARTED
    /\ ~created /\ ~settled /\ ~freed
    /\ reaped = 0

Moves(from, to) == state = from /\ state' = to

Start == Moves(NOT_STARTED, STARTING) /\ ~freed /\ UNCHANGED <<created, reaped, settled, freed>>

Create ==
    /\ state = STARTING /\ ~created /\ ~freed
    /\ created'
    /\ UNCHANGED <<state, reaped, settled, freed>>

(* The arrow "error" of the diagram: there is nothing to reap.             *)
Fail ==
    /\ Moves(STARTING, DONE) /\ ~created /\ ~freed
    /\ UNCHANGED <<created, reaped, settled, freed>>

Run ==
    /\ Moves(STARTING, RUNNING) /\ created /\ ~freed
    /\ UNCHANGED <<created, reaped, settled, freed>>

(* A join, or the detaching of a thread that was declared done.            *)
Reap ==
    /\ state = RUNNING /\ reaped = 0 /\ ~freed
    /\ reaped' = 1
    /\ UNCHANGED <<state, created, settled, freed>>

Finish ==
    /\ Moves(RUNNING, DONE) /\ reaped = 1 /\ ~freed
    /\ UNCHANGED <<created, reaped, settled, freed>>

Settle ==
    /\ state = DONE /\ ~settled /\ ~freed
    /\ settled'
    /\ UNCHANGED <<state, created, reaped, freed>>

(* The last reference goes, and takes a thread that nobody joined with it. *)
Free ==
    /\ ~freed /\ freed'
    /\ \/ state \in {NOT_STARTED, DONE} /\ UNCHANGED <<state, reaped>>
       \/ Moves(RUNNING, DONE) /\ reaped = 0 /\ reaped' = 1
    /\ UNCHANGED <<created, settled>>

LifeNext == Start \/ Create \/ Fail \/ Run \/ Reap \/ Finish \/ Settle \/ Free

LifeSpec == LifeInit /\ [][LifeNext]_lifeVars
=============================================================================
