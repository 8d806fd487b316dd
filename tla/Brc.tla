---------------------------------- MODULE Brc ----------------------------------
(***************************************************************************)
(* Biased reference counting in the free-threaded build: one object, its   *)
(* two reference count fields (Include/refcount.h, Objects/object.c), and  *)
(* the queues by which the other threads ask its owner to merge them       *)
(* (Python/brc.c).                                                         *)
(*                                                                         *)
(* Every access to a field that another thread may write is a step; a loop *)
(* around a compare-exchange is one step, the exchange that succeeds.  A   *)
(* thread state stands for its native thread id: when a new thread gets    *)
(* the id of one that has exited, the same element of Threads comes back.  *)
(***************************************************************************)
EXTENDS Integers, FiniteSets

CONSTANTS
    Threads,    \* thread states, and thread ids
    None,       \* the id 0
    MaxRefs     \* bound of the model: references, and either count

ASSUME NoneType == None \notin Threads
ASSUME ThreadsFinite == IsFiniteSet(Threads)
ASSUME MaxRefsType == MaxRefs \in Nat \ {0}

VARIABLES
    obTid,          \* ob_tid
    local,          \* ob_ref_local
    count,          \* ob_ref_shared, the count ...
    flag,           \* ... and the low two bits
    dead,           \* _Py_Dealloc has been called
    refs,           \* the references that are in no thread's hands
    bound,          \* the threads in the hash table
    toMerge,        \* the threads whose objects_to_merge has the object
    breaker,        \* ... with _PY_EVAL_EXPLICIT_MERGE_BIT
    exiting,        \* the threads in _Py_brc_remove_thread
    pc,             \* what each thread is doing
    loaded,         \* a count it has loaded
    target          \* the owner it has loaded

object == <<obTid, local, count, flag>>
queueVars == <<bound, toMerge, breaker, exiting>>
vars == <<object, dead, refs, queueVars, pc, loaded, target>>

Flags == {"none", "weakref", "queued", "merged"}

(* "incref", "decref": the owner, between load and store; "zero", "slow",  *)
(* "flags": in _Py_MergeZeroLocalRefcount; "queue", "lock", "abandoned",   *)
(* "stop": in _Py_brc_queue_object; "again": its Py_DECREF; "move": before *)
(* the lock in _Py_brc_merge_refcounts; "merge": before, and "exchange",   *)
(* "abandonedExchange": inside _Py_ExplicitMergeRefcount.                  *)
PCs == {"unbound", "run", "try", "incref", "decref", "zero", "slow", "flags",
        "queue", "lock", "abandoned", "abandonedExchange", "stop", "again",
        "move", "exit", "merge", "exchange"}

(* The places where a thread has one reference in hand.                    *)
HasReference == {"incref", "decref", "queue", "lock", "abandoned",
                 "abandonedExchange", "stop", "again", "merge", "exchange"}

TypeOK ==
    /\ obTid \in Threads \cup {None}
    /\ local \in Nat /\ count \in Int /\ flag \in Flags
    /\ dead \in BOOLEAN
    /\ refs \in Nat
    /\ bound \subseteq Threads /\ breaker \subseteq Threads
    /\ toMerge \subseteq Threads /\ exiting \subseteq Threads
    /\ pc \in [Threads -> PCs]
    /\ loaded \in [Threads -> Int]
    /\ target \in [Threads -> Threads \cup {None}]

Init ==     \* a thread has made the object
    /\ obTid \in Threads
    /\ local = 1 /\ count = 0 /\ flag = "none"
    /\ dead = FALSE
    /\ refs = 1
    /\ bound = Threads
    /\ toMerge = {} /\ breaker = {} /\ exiting = {}
    /\ pc = [t \in Threads |-> "run"]
    /\ loaded = [t \in Threads |-> 0]
    /\ target = [t \in Threads |-> None]

Goto(t, label) == pc' = [pc EXCEPT ![t] = label]
Load(t, n) == loaded' = [loaded EXCEPT ![t] = n]
Return(t) == Goto(t, IF t \in exiting THEN "exit" ELSE "run")

(* The thread inside the critical section of the bucket of u; the others   *)
(* leave it in the step they enter it.                                     *)
BucketFree(u) ==
    \A t \in Threads :
        target[t] = u => pc[t] \notin {"abandoned", "abandonedExchange"}

(* The world is stopped for t: the others are detached, at a safe point or *)
(* where they wait for a mutex.                                            *)
Stopped(t) ==
    \A u \in Threads \ {t} :
        pc[u] \in {"unbound", "run", "lock", "move", "exit", "stop"}

(* The exchange that leaves n references, merged.                          *)
MergedWith(n) ==
    /\ count' = n
    /\ flag' = "merged"
    /\ dead' = (n = 0)

-----------------------------------------------------------------------------
(* Py_INCREF and Py_DECREF                                                 *)

(* The caller has a reference; it makes another.                           *)
IncRef(t) ==
    /\ pc[t] = "run"
    /\ refs \in 1..(MaxRefs - 1)
    /\ (IF obTid = t THEN local ELSE count) < MaxRefs
    /\ IF obTid = t
       THEN /\ refs' = refs - 1
            /\ Load(t, local)
            /\ Goto(t, "incref")
            /\ UNCHANGED count
       ELSE count' = count + 1 /\ refs' = refs + 1 /\ UNCHANGED <<pc, loaded>>
    /\ UNCHANGED <<obTid, local, flag, dead, queueVars, target>>

IncRefStore(t) ==
    /\ pc[t] = "incref"
    /\ local' = loaded[t] + 1
    /\ refs' = refs + 2
    /\ Load(t, 0)
    /\ Goto(t, "run")
    /\ UNCHANGED <<obTid, count, flag, dead, queueVars, target>>

(* The owner drops a reference.                                            *)
DecRef(t) ==
    /\ pc[t] = "run"
    /\ obTid = t
    /\ refs > 0
    /\ refs' = refs - 1
    /\ Load(t, local)
    /\ Goto(t, "decref")
    /\ UNCHANGED <<object, dead, queueVars, target>>

DecRefStore(t) ==
    /\ pc[t] = "decref"
    /\ local' = loaded[t] - 1
    /\ Load(t, 0)
    /\ Goto(t, IF loaded[t] = 1 THEN "zero" ELSE "run")
    /\ UNCHANGED <<obTid, count, flag, dead, refs, queueVars, target>>

(* _Py_DecRefSharedIsDead.                                                 *)
DecRefExchange(t) ==
    /\ IF count = 0 /\ flag \in {"none", "weakref"}
       THEN flag' = "queued" /\ Goto(t, "queue") /\ UNCHANGED <<count, dead>>
       ELSE /\ count' = count - 1
            /\ dead' = (flag = "merged" /\ count = 1)
            /\ Goto(t, "run")
            /\ UNCHANGED flag
    /\ UNCHANGED <<obTid, local, queueVars, loaded, target>>

(* Another thread drops a reference.                                       *)
DecRefShared(t) ==
    /\ pc[t] = "run"
    /\ obTid # t
    /\ refs > 0
    /\ refs' = refs - 1
    /\ DecRefExchange(t)

(* ... the one it could not queue.                                         *)
DecRefAgain(t) ==
    /\ pc[t] = "again"
    /\ DecRefExchange(t)
    /\ UNCHANGED refs

(* Faulty variant: the flags are not looked at.                            *)
MergeZeroLocalOfCount(t) ==
    /\ pc[t] = "zero"
    /\ IF count = 0
       THEN dead' = TRUE /\ Goto(t, "run")
       ELSE UNCHANGED dead /\ Goto(t, "slow")
    /\ UNCHANGED <<object, refs, queueVars, loaded, target>>

(* _Py_MergeZeroLocalRefcount: the fast path, without any flag ...         *)
MergeZeroLocal(t) ==
    /\ pc[t] = "zero"
    /\ IF count = 0 /\ flag = "none"
       THEN dead' = TRUE /\ Goto(t, "run")
       ELSE UNCHANGED dead /\ Goto(t, "slow")
    /\ UNCHANGED <<object, refs, queueVars, loaded, target>>

(* Faulty variant: ob_tid is set after the exchange.                       *)
MergeZeroSlowReversed(t) ==
    \/ /\ pc[t] = "slow"
       /\ flag' = "merged"
       /\ Load(t, count)
       /\ Goto(t, "flags")
       /\ UNCHANGED <<obTid, local, count, dead, refs, queueVars, target>>
    \/ /\ pc[t] = "flags"
       /\ obTid' = None
       /\ dead' = (dead \/ loaded[t] = 0)
       /\ Load(t, 0)
       /\ Goto(t, "run")
       /\ UNCHANGED <<local, count, flag, refs, queueVars, target>>

(* ... and the slow one: ob_tid first, then the exchange.                  *)
MergeZeroSlow(t) ==
    \/ /\ pc[t] = "slow"
       /\ obTid' = None
       /\ Goto(t, "flags")
       /\ UNCHANGED <<local, count, flag, dead, refs, queueVars, loaded, target>>
    \/ /\ pc[t] = "flags"
       /\ MergedWith(count)
       /\ Goto(t, "run")
       /\ UNCHANGED <<obTid, local, refs, queueVars, loaded, target>>

-----------------------------------------------------------------------------
(* References from pointers that are read without a lock                   *)

(* _PyObject_SetMaybeWeakref, for a holder of a reference.                 *)
SetMaybeWeakref(t) ==
    /\ pc[t] = "run"
    /\ refs > 0
    /\ flag = "none"
    /\ flag' = "weakref"
    /\ UNCHANGED <<obTid, local, count, dead, refs, queueVars, pc, loaded, target>>

(* A pointer to the object is loaded while it is still there.              *)
LoadPointer(t) ==
    /\ pc[t] = "run"
    /\ refs \in 1..(MaxRefs - 1)
    /\ local < MaxRefs /\ count < MaxRefs
    /\ Goto(t, "try")
    /\ UNCHANGED <<object, dead, refs, queueVars, loaded, target>>

(* _Py_TryIncref: the fast way of the owner, then the shared one.          *)
TryIncref(t) ==
    /\ pc[t] = "try"
    /\ \/ /\ obTid = t
          /\ local' = local + 1
          /\ refs' = refs + 1
          /\ UNCHANGED count
       \/ /\ obTid # t
          /\ ~(count = 0 /\ flag \in {"none", "merged"})
          /\ count' = count + 1
          /\ refs' = refs + 1
          /\ UNCHANGED local
       \/ /\ obTid # t
          /\ count = 0 /\ flag \in {"none", "merged"}
          /\ UNCHANGED <<local, count, refs>>
    /\ Goto(t, "run")
    /\ UNCHANGED <<obTid, flag, dead, queueVars, loaded, target>>

-----------------------------------------------------------------------------
(* _Py_brc_queue_object                                                    *)

(* The load of ob_tid; the owner may have merged meanwhile.                *)
Queue(t) ==
    /\ pc[t] = "queue"
    /\ target' = [target EXCEPT ![t] = obTid]
    /\ Goto(t, IF obTid = None THEN "again" ELSE "lock")
    /\ UNCHANGED <<object, dead, refs, queueVars, loaded>>

(* Faulty variant: the owner is not told.                                  *)
PushSilently(t) ==
    /\ toMerge' = toMerge \cup {target[t]}
    /\ UNCHANGED <<bound, breaker, exiting>>

Push(t) ==
    /\ toMerge' = toMerge \cup {target[t]}
    /\ breaker' = breaker \cup {target[t]}
    /\ UNCHANGED <<bound, exiting>>

(* With the mutex of the bucket: the owner is found, and the object is     *)
(* pushed or there is no memory; or it is not, and the mutex stays locked. *)
LockBucket(t) ==
    /\ pc[t] = "lock"
    /\ BucketFree(target[t])
    /\ \/ /\ target[t] \in bound
          /\ Push(t)
          /\ target' = [target EXCEPT ![t] = None]
          /\ Goto(t, "run")
       \/ /\ target[t] \in bound
          /\ target' = [target EXCEPT ![t] = None]
          /\ Goto(t, "stop")
          /\ UNCHANGED queueVars
       \/ /\ target[t] \notin bound
          /\ Goto(t, "abandoned")
          /\ UNCHANGED <<queueVars, target>>
    /\ UNCHANGED <<object, dead, refs, loaded>>

(* The merge with the world stopped.                                       *)
StopAndMerge(t) ==
    /\ pc[t] = "stop"
    /\ Stopped(t)
    /\ obTid' = None
    /\ local' = 0
    /\ MergedWith(local + count - 1)
    /\ Goto(t, "run")
    /\ UNCHANGED <<refs, queueVars, loaded, target>>

-----------------------------------------------------------------------------
(* _Py_ExplicitMergeRefcount(op, -1), by the owner or under the mutex of   *)
(* the bucket of an owner that has exited                                  *)

MergeLocal(t) ==
    /\ pc[t] \in {"merge", "abandoned"}
    /\ Load(t, local)
    /\ local' = 0
    /\ obTid' = None
    /\ Goto(t, IF pc[t] = "merge" THEN "exchange" ELSE "abandonedExchange")
    /\ UNCHANGED <<count, flag, dead, refs, queueVars, target>>

MergeExchange(t) ==
    /\ pc[t] \in {"exchange", "abandonedExchange"}
    /\ MergedWith(count + loaded[t] - 1)
    /\ Load(t, 0)
    /\ target' = [target EXCEPT ![t] = None]
    /\ Return(t)
    /\ UNCHANGED <<obTid, local, refs, queueVars>>

-----------------------------------------------------------------------------
(* The owner's queue                                                       *)

(* The eval loop sees the bit and clears it before the queue is taken.     *)
HandleMergeBit(t) ==
    /\ pc[t] = "run"
    /\ t \in breaker
    /\ breaker' = breaker \ {t}
    /\ Goto(t, "move")
    /\ UNCHANGED <<object, dead, refs, bound, toMerge, exiting, loaded, target>>

(* _Py_brc_merge_refcounts: with the mutex, the queue becomes the local    *)
(* stack, whose objects are then merged one by one: here the one object.   *)
Move(t) ==
    /\ pc[t] = "move"
    /\ BucketFree(t)
    /\ toMerge' = toMerge \ {t}
    /\ Goto(t, IF t \in toMerge THEN "merge" ELSE "run")
    /\ UNCHANGED <<object, dead, refs, bound, breaker, exiting, loaded, target>>

(* PyThreadState_Clear comes to _Py_brc_remove_thread.                     *)
Exit(t) ==
    /\ pc[t] = "run"
    /\ exiting' = exiting \cup {t}
    /\ Goto(t, "exit")
    /\ UNCHANGED <<object, dead, refs, bound, toMerge, breaker, loaded, target>>

(* Faulty variant: the queue is not looked at again.                       *)
RemoveUnchecked(t) ==
    /\ pc[t] = "exit"
    /\ BucketFree(t)
    /\ bound' = bound \ {t}
    /\ exiting' = exiting \ {t}
    /\ Goto(t, "unbound")
    /\ breaker' = breaker \ {t}
    /\ UNCHANGED <<object, dead, refs, toMerge, loaded, target>>

(* One turn of its loop, with the mutex: the queue is empty and the thread *)
(* leaves the table, or the queue becomes the local stack.                 *)
Remove(t) ==
    /\ pc[t] = "exit"
    /\ BucketFree(t)
    /\ IF t \in toMerge
       THEN /\ toMerge' = toMerge \ {t}
            /\ Goto(t, "merge")
            /\ UNCHANGED <<bound, breaker, exiting>>
       ELSE /\ bound' = bound \ {t}
            /\ breaker' = breaker \ {t}     \* the thread state is freed
            /\ exiting' = exiting \ {t}
            /\ Goto(t, "unbound")
            /\ UNCHANGED toMerge
    /\ UNCHANGED <<object, dead, refs, loaded, target>>

(* _Py_brc_init_thread, perhaps with the id of a thread that has exited.   *)
Bind(t) ==
    /\ pc[t] = "unbound"
    /\ BucketFree(t)
    /\ bound' = bound \cup {t}
    /\ Goto(t, "run")
    /\ UNCHANGED <<object, dead, refs, toMerge, breaker, exiting, loaded, target>>

(* merge_queued_objects of the garbage collector, with the world stopped:  *)
(* an object that has no other reference keeps one until it is started.    *)
CollectQueued(t) ==
    /\ pc[t] = "run"
    /\ Stopped(t)
    /\ toMerge # {}
    /\ toMerge' = {}
    /\ obTid' = None
    /\ local' = 0
    /\ flag' = "merged"
    /\ IF local + count = 1
       THEN count' = 1 /\ Goto(t, "again")
       ELSE count' = local + count - 1 /\ UNCHANGED pc
    /\ UNCHANGED <<dead, refs, bound, breaker, exiting, loaded, target>>

-----------------------------------------------------------------------------
(* What a thread does without a choice of its own.                         *)
OwnStep(t) ==
    \/ IncRefStore(t) \/ DecRefStore(t) \/ MergeZeroLocal(t) \/ MergeZeroSlow(t)
    \/ TryIncref(t) \/ Queue(t) \/ LockBucket(t) \/ DecRefAgain(t)
    \/ MergeLocal(t) \/ MergeExchange(t)
    \/ HandleMergeBit(t) \/ Move(t) \/ Remove(t)

Next ==
    \E t \in Threads :
        \/ IncRef(t) \/ DecRef(t) \/ DecRefShared(t)
        \/ SetMaybeWeakref(t) \/ LoadPointer(t)
        \/ Exit(t) \/ Bind(t) \/ CollectQueued(t) \/ StopAndMerge(t)
        \/ OwnStep(t)

Spec == Init /\ [][Next]_vars

(* Threads run on, and the eval loop of one that runs comes to its check;  *)
(* a world that is to be stopped is stopped (StopTheWorld).                *)
Fairness ==
    \A t \in Threads : WF_vars(OwnStep(t)) /\ SF_vars(StopAndMerge(t))

FairSpec == Spec /\ Fairness

-----------------------------------------------------------------------------
(* "The true refcount is the sum of these two fields" (brc.c:4): the       *)
(* references that exist, in the hands of threads and in queues, are the   *)
(* ones that are counted, the local count that a merge has taken out and   *)
(* not yet put into the shared one included.  The object dies with the     *)
(* last of them, and no dead object is in a queue.                         *)
InHand == {t \in Threads : pc[t] \in HasReference}
Merging == {t \in Threads : pc[t] \in {"exchange", "abandonedExchange"}}

Existing == refs + Cardinality(InHand) + Cardinality(toMerge)

CountsAddUp ==
    /\ TypeOK
    /\ dead => Existing = 0
    /\ ~dead =>
          /\ Cardinality(Merging) <= 1
          /\ local + count + (IF Merging = {} THEN 0
                              ELSE loaded[CHOOSE t \in Merging : TRUE]) = Existing

(* Nothing is written to an object after its deallocation, by a merge that *)
(* has lost a race least of all (object.c:446 and 474, gh-119999 and       *)
(* gh-121794).                                                             *)
DeadIsUntouched == [][dead => UNCHANGED <<object, dead>>]_vars

(* A queued object is in the queue of a thread that is in the table and    *)
(* will look at it: it has been told, or it is on its way to the queue     *)
(* (brc.c:170-173).                                                        *)
QueueWillBeServed ==
    \A t \in toMerge :
        t \in bound /\ (t \in breaker \/ t \in exiting \/ pc[t] = "move")

(* An object without references is deallocated, whoever dropped the last   *)
(* one and whatever became of the owner, unless a pointer to it that is    *)
(* read without a lock brings a reference back.                            *)
GarbageIsReclaimed == refs = 0 /\ ~dead ~> dead \/ refs > 0
=============================================================================
