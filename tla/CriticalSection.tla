--------------------------- MODULE CriticalSection ----------------------------
(***************************************************************************)
(* The critical sections of the free-threaded build                        *)
(* (Python/critical_section.c): a thread's stack of sections, each with    *)
(* one or two mutexes, that are all suspended when the thread detaches and *)
(* of which only the top one is resumed when it attaches again.            *)
(*                                                                         *)
(* A PyMutex is its owner here (PyMutex implements Lock).  The locking of  *)
(* a section that begins and of one that is resumed have the same shape:   *)
(* the section on top of the stack has no mutexes in its fields            *)
(* (_cs_mutex is NULL) while PyMutex_Lock is called on one after the       *)
(* other, and a call that blocks detaches the thread.  The grain is the    *)
(* call that can block; releasing several mutexes is one step.             *)
(***************************************************************************)
EXTENDS Integers, SequencesExt

CONSTANTS
    Threads,
    Mutexes,      \* the mutexes, by address
    NoThread,     \* the owner of a mutex that is free
    MaxNesting    \* bound: the depth of a thread's stack of sections

ASSUME MutexesType == Mutexes \subseteq Nat
ASSUME NoThreadType == NoThread \notin Threads
ASSUME NestingType == MaxNesting \in Nat \ {0}

VARIABLES
    owner,     \* who has each mutex
    stack,     \* tstate->critical_section; the top section is the last
    pending,   \* the mutexes to be locked for the top section, in order
    taken,     \* how many of them are locked
    pc         \* what each thread is doing

vars == <<owner, stack, pending, taken, pc>>

(* "run" and "lock" are attached, "blocked" is detached inside PyMutex_Lock, *)
(* "detached" is any other time without the thread state.                  *)
PCs == {"run", "lock", "blocked", "detached"}

MutexSeqs == {<<>>} \cup {<<m>> : m \in Mutexes} \cup {<<m, n>> : m, n \in Mutexes}
Sections == [mutexes : MutexSeqs, active : {TRUE, FALSE}]

TypeOK ==
    /\ owner \in [Mutexes -> Threads \cup {NoThread}]
    /\ \A t \in Threads :
          /\ stack[t] \in Seq(Sections)
          /\ Len(stack[t]) <= MaxNesting
          /\ pending[t] \in MutexSeqs
          /\ taken[t] \in 0..Len(pending[t])
          /\ pc[t] \in PCs

Init ==
    /\ owner = [m \in Mutexes |-> NoThread]
    /\ stack = [t \in Threads |-> <<>>]
    /\ pending = [t \in Threads |-> <<>>]
    /\ taken = [t \in Threads |-> 0]
    /\ pc = [t \in Threads |-> "run"]

Goto(t, label) == pc' = [pc EXCEPT ![t] = label]

Top(t) == Last(stack[t])
Wanted(t) == pending[t][taken[t] + 1]
Owned(t) == {m \in Mutexes : owner[m] = t}

Free(ms) == owner' = [m \in Mutexes |-> IF m \in ms THEN NoThread ELSE owner[m]]

WithTop(s, section) == Append(Front(s), section)

(* The sections of a stack that are active: those from the top down to the *)
(* first that is not.                                                      *)
ActivePart(s) ==
    {i \in 1..Len(s) : \A j \in i..Len(s) : s[j].active}

-----------------------------------------------------------------------------
(* _PyCriticalSection_Begin and _PyCriticalSection2_Begin.  A section is   *)
(* pushed without mutexes, which are then locked one by one; where the     *)
(* code takes them by PyMutex_LockFast first and pushes afterwards nothing *)
(* happens in between that tells the difference.                           *)
Push(t, ms) ==
    /\ stack' = [stack EXCEPT ![t] = Append(@, [mutexes |-> <<>>, active |-> TRUE])]
    /\ pending' = [pending EXCEPT ![t] = ms]
    /\ taken' = [taken EXCEPT ![t] = 0]
    /\ Goto(t, "lock")
    /\ UNCHANGED owner

(* The mutex is the first one of the top section: nothing is pushed, and   *)
(* the matching End does nothing either.                                   *)
IsRecursive(t, m) == stack[t] # <<>> /\ Top(t).mutexes[1] = m

Begin(t) ==
    /\ pc[t] = "run"
    /\ Len(stack[t]) < MaxNesting
    /\ \E m \in Mutexes : ~IsRecursive(t, m) /\ Push(t, <<m>>)

(* Faulty variant: the two mutexes are locked as they come.                *)
Begin2Unsorted(t) ==
    /\ pc[t] = "run"
    /\ Len(stack[t]) < MaxNesting
    /\ \E m, n \in Mutexes : m # n /\ Push(t, <<m, n>>)

(* The lower address first.  Twice the same mutex is a Begin.              *)
Begin2(t) ==
    /\ pc[t] = "run"
    /\ Len(stack[t]) < MaxNesting
    /\ \E m, n \in Mutexes : m < n /\ Push(t, <<m, n>>)

(* PyMutex_Lock returned, or was handed the mutex, for the next mutex: the *)
(* last one completes the section, whose fields are set at the end.        *)
TakeNext(t) ==
    /\ owner[Wanted(t)] = NoThread
    /\ owner' = [owner EXCEPT ![Wanted(t)] = t]
    /\ IF taken[t] + 1 < Len(pending[t])
       THEN /\ taken' = [taken EXCEPT ![t] = @ + 1]
            /\ stack' = [stack EXCEPT ![t] =
                           WithTop(@, [mutexes |-> <<>>, active |-> Top(t).active])]
            /\ Goto(t, "lock")
            /\ UNCHANGED pending
       ELSE /\ stack' = [stack EXCEPT ![t] =
                           WithTop(@, [mutexes |-> pending[t], active |-> TRUE])]
            /\ pending' = [pending EXCEPT ![t] = <<>>]
            /\ taken' = [taken EXCEPT ![t] = 0]
            /\ Goto(t, "run")

LockNext(t) == pc[t] = "lock" /\ TakeNext(t)

-----------------------------------------------------------------------------
(* _PyCriticalSection_SuspendAll, called by every detach: unlock what the  *)
(* fields of the active sections name and mark those sections.             *)
SuspendAll(t) ==
    LET active == ActivePart(stack[t])
    IN  /\ Free(UNION {ToSet(stack[t][i].mutexes) : i \in active})
        /\ stack' = [stack EXCEPT ![t] =
                       [i \in 1..Len(@) |->
                           IF i \in active THEN [@[i] EXCEPT !.active = FALSE] ELSE @[i]]]

(* PyMutex_Lock finds the mutex taken and waits detached.                  *)
Block(t) ==
    /\ pc[t] = "lock"
    /\ owner[Wanted(t)] # NoThread
    /\ SuspendAll(t)
    /\ Goto(t, "blocked")
    /\ UNCHANGED <<pending, taken>>

(* Any other detach: a blocking call, or a stop-the-world pause.           *)
Detach(t) ==
    /\ pc[t] = "run"
    /\ SuspendAll(t)
    /\ Goto(t, "detached")
    /\ UNCHANGED <<pending, taken>>

-----------------------------------------------------------------------------
(* _PyCriticalSection_Resume on the section at the top of stack s.         *)
Resume(t, s) ==
    LET ms == Last(s).mutexes
    IN  /\ stack' = [stack EXCEPT ![t] =
                       WithTop(s, [mutexes |-> <<>>, active |-> ms = <<>>])]
        /\ pending' = [pending EXCEPT ![t] = ms]
        /\ taken' = [taken EXCEPT ![t] = 0]
        /\ Goto(t, IF ms = <<>> THEN "run" ELSE "lock")

Attach(t) ==
    /\ pc[t] = "detached"
    /\ \/ stack[t] = <<>> /\ Goto(t, "run") /\ UNCHANGED <<stack, pending, taken>>
       \/ stack[t] # <<>> /\ Resume(t, stack[t])
    /\ UNCHANGED owner

(* A thread that was blocked in PyMutex_Lock is woken, or interrupted, and *)
(* attaches.  The top section has nothing to lock yet, so that it just     *)
(* becomes active; the mutex was handed over, or PyMutex_Lock has another  *)
(* look at it.                                                             *)
Wake(t) ==
    /\ pc[t] = "blocked"
    /\ stack' = [stack EXCEPT ![t] = WithTop(@, [Top(t) EXCEPT !.active = TRUE])]
    /\ Goto(t, "lock")
    /\ UNCHANGED <<owner, pending, taken>>

WakeHandedOff(t) == pc[t] = "blocked" /\ TakeNext(t)

-----------------------------------------------------------------------------
(* _PyCriticalSection_End, _PyCriticalSection2_End, _PyCriticalSection_Pop. *)

(* Faulty variants of End: the section below is not resumed; only the      *)
(* first mutex is unlocked.                                                *)
EndNoResume(t) ==
    /\ pc[t] = "run"
    /\ stack[t] # <<>>
    /\ Free(ToSet(Top(t).mutexes))
    /\ stack' = [stack EXCEPT ![t] = Front(@)]
    /\ UNCHANGED <<pending, taken, pc>>

EndOfFirst(t) ==
    /\ pc[t] = "run"
    /\ stack[t] # <<>>
    /\ Free({Top(t).mutexes[1]})
    /\ LET below == Front(stack[t])
       IN  IF below # <<>> /\ ~Last(below).active
           THEN Resume(t, below)
           ELSE stack' = [stack EXCEPT ![t] = below] /\ UNCHANGED <<pending, taken, pc>>

End(t) ==
    /\ pc[t] = "run"
    /\ stack[t] # <<>>
    /\ Free(ToSet(Top(t).mutexes))
    /\ LET below == Front(stack[t])
       IN  IF below # <<>> /\ ~Last(below).active
           THEN Resume(t, below)
           ELSE stack' = [stack EXCEPT ![t] = below] /\ UNCHANGED <<pending, taken, pc>>

-----------------------------------------------------------------------------
Next ==
    \E t \in Threads :
        \/ Begin(t) \/ Begin2(t) \/ LockNext(t) \/ Block(t) \/ Detach(t)
        \/ Attach(t) \/ Wake(t) \/ WakeHandedOff(t) \/ End(t)

Spec == Init /\ [][Next]_vars

(* The code inside a section comes to its end, a detached thread comes     *)
(* back, and PyMutex hands itself over to a thread that waits for long     *)
(* (PyMutex!FairHandOff), hence the strong fairness.                       *)
Fairness ==
    \A t \in Threads :
        /\ WF_vars(LockNext(t) \/ Block(t))
        /\ WF_vars(Attach(t))
        /\ SF_vars(LockNext(t) \/ WakeHandedOff(t))
        /\ SF_vars(End(t))

FairSpec == Spec /\ Fairness

-----------------------------------------------------------------------------
(* Where a thread can be interrupted, its active sections are those above  *)
(* some depth, and while it runs the top one is active: what a section     *)
(* protects is locked while its code runs, and Resume is never applied to  *)
(* an active section (its assertion, critical_section.c:95).               *)
RunsOnlyInActiveSection ==
    \A t \in Threads :
        /\ \A i \in 1..Len(stack[t]) : stack[t][i].active => i \in ActivePart(stack[t])
        /\ pc[t] = "run" /\ stack[t] # <<>> => Top(t).active /\ Top(t).mutexes # <<>>
        /\ pc[t] \in {"blocked", "detached"} => ActivePart(stack[t]) = {}

(* The mutexes a thread owns are exactly those in the fields of its active *)
(* sections and those it has taken for the section that it is locking:     *)
(* suspending and resuming in any nesting neither leaks a mutex nor leaves *)
(* a section without its own.                                              *)
OwnsWhatSectionsName ==
    /\ TypeOK
    /\ \A t \in Threads :
          Owned(t) =
              (UNION {ToSet(stack[t][i].mutexes) : i \in ActivePart(stack[t])})
              \cup {pending[t][i] : i \in 1..taken[t]}

(* Nobody holds a mutex while waiting for another one, except for the      *)
(* lower of the two mutexes of one section: no cycle of waiting threads.   *)
HoldAndWaitIsOrdered ==
    \A t \in Threads :
        pc[t] = "blocked" => \A m \in Owned(t) : m < Wanted(t)

(* Whoever begins a section gets into it, and a section that was suspended *)
(* is resumed, whatever the others nest; unless a thread begins sections   *)
(* for ever inside a section, which then never ends.                       *)
NestingStops ==
    <>[][\A t \in Threads :
            Len(stack'[t]) > Len(stack[t]) => stack[t] = <<>>]_vars

EverySectionIsEntered ==
    NestingStops =>
        \A t \in Threads : pc[t] \in {"lock", "blocked"} ~> pc[t] = "run"
=============================================================================
