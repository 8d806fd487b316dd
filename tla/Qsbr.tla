--------------------------------- MODULE Qsbr ---------------------------------
(***************************************************************************)
(* Safe memory reclamation by quiescent states in the free-threaded build: *)
(* the sequence numbers of Python/qsbr.c, the array of thread slots, and   *)
(* the queues of Objects/obmalloc.c whose memory they keep.                *)
(*                                                                         *)
(* A block is published in a pointer that attached threads read without a  *)
(* lock.  A thread that replaces it retires the old block with a goal and  *)
(* frees it when the read sequence has come to the goal.  Every load and   *)
(* store of a sequence number is a step; the memory is sequentially        *)
(* consistent, which is what the seq_cst store in _Py_qsbr_attach and the  *)
(* fence in qsbr_poll_scan are for.                                        *)
(***************************************************************************)
EXTENDS Integers, Sequences, FiniteSets

CONSTANTS
    Threads,        \* the thread states
    Blocks,         \* the memory blocks
    None,           \* no block
    MinArraySize,   \* MIN_ARRAY_SIZE
    MaxSeq          \* bound of the model: wr_seq does not go beyond it

ASSUME NoneType == None \notin Blocks
ASSUME SizeType == MinArraySize \in Nat \ {0} /\ MaxSeq \in Nat

QSBR_OFFLINE == 0
QSBR_INITIAL == 1
QSBR_INCR == 2

VARIABLES
    wrSeq,      \* shared->wr_seq
    rdSeq,      \* shared->rd_seq
    seq,        \* the seq of each slot of shared->array
    freelist,   \* shared->freelist
    slot,       \* the index of tstate->qsbr, 0 for none
    pc,         \* what each thread is doing
    loaded,     \* a sequence number it has loaded
    minSeq,     \* min_seq of its scan
    index,      \* how far its scan has come
    from,       \* the queue it processes
    ptr,        \* the block that is published
    held,       \* the block each thread has a borrowed pointer to
    removed,    \* the block it has unpublished and not yet retired
    queue,      \* tstate->mem_free_queue
    interpQ     \* interp->mem_free_queue

seqVars == <<wrSeq, rdSeq, seq>>
slotVars == <<freelist, slot>>
scanVars == <<loaded, minSeq, index, from>>
memVars == <<ptr, held, removed, queue, interpQ>>
vars == <<seqVars, slotVars, scanVars, memVars, pc>>

Queues == {"own", "interp"}
Item == [block : Blocks, goal : Nat]
PCs == {"none", "detached", "attach", "store", "run", "quiesce", "retire",
        "poll", "scan", "publish", "cas"}
Polling == {"poll", "scan", "publish", "cas"}

TypeOK ==
    /\ wrSeq \in Nat /\ rdSeq \in Nat
    /\ seq \in Seq(Nat)
    /\ freelist \in Seq(1..Len(seq))
    /\ slot \in [Threads -> 0..Len(seq)]
    /\ pc \in [Threads -> PCs]
    /\ loaded \in [Threads -> Nat]
    /\ minSeq \in [Threads -> Nat]
    /\ index \in [Threads -> Nat]
    /\ from \in [Threads -> Queues]
    /\ ptr \in Blocks
    /\ held \in [Threads -> Blocks \cup {None}]
    /\ removed \in [Threads -> Blocks \cup {None}]
    /\ queue \in [Threads -> Seq(Item)]
    /\ interpQ \in Seq(Item)

Init ==     \* no thread state, and no array yet
    /\ wrSeq = QSBR_INITIAL /\ rdSeq = QSBR_INITIAL
    /\ seq = <<>> /\ freelist = <<>>
    /\ slot = [t \in Threads |-> 0]
    /\ pc = [t \in Threads |-> "none"]
    /\ loaded = [t \in Threads |-> 0]
    /\ minSeq = [t \in Threads |-> 0]
    /\ index = [t \in Threads |-> 0]
    /\ from = [t \in Threads |-> "own"]
    /\ ptr \in Blocks
    /\ held = [t \in Threads |-> None]
    /\ removed = [t \in Threads |-> None]
    /\ queue = [t \in Threads |-> <<>>]
    /\ interpQ = <<>>

Goto(t, label) == pc' = [pc EXCEPT ![t] = label]
SetSeq(t, n) == seq' = [seq EXCEPT ![slot[t]] = n]

BlocksOf(q) == {q[i].block : i \in 1..Len(q)}

(* The blocks that malloc does not give out.                               *)
InUse ==
    {ptr} \cup ({removed[t] : t \in Threads} \ {None})
          \cup (UNION {BlocksOf(queue[t]) : t \in Threads}) \cup BlocksOf(interpQ)

(* The world is stopped for t: every other thread is detached.             *)
Stopped(t) == \A u \in Threads \ {t} : pc[u] \in {"none", "detached"}

-----------------------------------------------------------------------------
(* Slots.                                                                  *)

Grow == IF seq = <<>> THEN MinArraySize ELSE 2 * Len(seq)

(* _Py_qsbr_reserve and _Py_qsbr_register, with a free slot ...            *)
Create(t) ==
    /\ pc[t] = "none"
    /\ freelist # <<>>
    /\ slot' = [slot EXCEPT ![t] = Head(freelist)]
    /\ freelist' = Tail(freelist)
    /\ Goto(t, "detached")
    /\ UNCHANGED <<seqVars, scanVars, memVars>>

(* ... and without one: grow_thread_array with the world stopped, by the   *)
(* thread that makes the new one or by one that has no thread state.       *)
CreateAndGrow(t) ==
    /\ pc[t] = "none"
    /\ freelist = <<>>
    /\ \E u \in Threads : pc[u] \in {"none", "run"} /\ Stopped(u)
    /\ seq' = seq \o [i \in 1..(Grow - Len(seq)) |-> QSBR_OFFLINE]
    /\ slot' = [slot EXCEPT ![t] = Grow]
    /\ freelist' = [i \in 1..(Grow - Len(seq) - 1) |-> Grow - i]
    /\ Goto(t, "detached")
    /\ UNCHANGED <<wrSeq, rdSeq, scanVars, memVars>>

(* _Py_qsbr_unregister, after _PyMem_AbandonDelayed.                       *)
Delete(t) ==
    /\ pc[t] = "detached"
    /\ queue[t] = <<>>
    /\ freelist' = <<slot[t]>> \o freelist
    /\ slot' = [slot EXCEPT ![t] = 0]
    /\ Goto(t, "none")
    /\ UNCHANGED <<seqVars, scanVars, memVars>>

-----------------------------------------------------------------------------
(* Readers.                                                                *)

(* tstate_try_attach; the sequence number follows.                         *)
Attach(t) ==
    /\ pc[t] = "detached"
    /\ Goto(t, "attach")
    /\ UNCHANGED <<seqVars, slotVars, scanVars, memVars>>

(* _Py_qsbr_attach: the load ...                                           *)
AttachLoad(t) ==
    /\ pc[t] = "attach"
    /\ loaded' = [loaded EXCEPT ![t] = wrSeq]
    /\ Goto(t, "store")
    /\ UNCHANGED <<seqVars, slotVars, minSeq, index, from, memVars>>

(* ... and the store, the last thing before the thread runs; also the      *)
(* store of _Py_qsbr_quiescent_state.                                      *)
StoreSeq(t) ==
    /\ pc[t] \in {"store", "quiesce"}
    /\ SetSeq(t, loaded[t])
    /\ loaded' = [loaded EXCEPT ![t] = 0]
    /\ Goto(t, "run")
    /\ UNCHANGED <<wrSeq, rdSeq, slotVars, minSeq, index, from, memVars>>

(* _Py_qsbr_detach.  Nothing is borrowed across a detach.                  *)
Detach(t) ==
    /\ pc[t] = "run"
    /\ held' = [held EXCEPT ![t] = None]
    /\ SetSeq(t, QSBR_OFFLINE)
    /\ Goto(t, "detached")
    /\ UNCHANGED <<wrSeq, rdSeq, slotVars, scanVars, ptr, removed, queue, interpQ>>

(* Faulty variant: pointers are still borrowed in the quiescent state.     *)
QuiesceHolding(t) ==
    /\ pc[t] = "run"
    /\ loaded' = [loaded EXCEPT ![t] = wrSeq]
    /\ Goto(t, "quiesce")
    /\ UNCHANGED <<seqVars, slotVars, minSeq, index, from, memVars>>

(* _Py_qsbr_quiescent_state in the eval loop, which borrows nothing there: *)
(* the load.                                                               *)
Quiesce(t) ==
    /\ pc[t] = "run"
    /\ held' = [held EXCEPT ![t] = None]
    /\ loaded' = [loaded EXCEPT ![t] = wrSeq]
    /\ Goto(t, "quiesce")
    /\ UNCHANGED <<seqVars, slotVars, minSeq, index, from, ptr, removed, queue, interpQ>>

(* A read without a lock.                                                  *)
Read(t) ==
    /\ pc[t] = "run"
    /\ held' = [held EXCEPT ![t] = ptr]
    /\ UNCHANGED <<seqVars, slotVars, scanVars, ptr, removed, queue, interpQ, pc>>

-----------------------------------------------------------------------------
(* Writers.                                                                *)

(* A block is replaced by a new one; the writer itself is done with it.    *)
Replace(t) ==
    /\ pc[t] = "run"
    /\ \E b \in Blocks \ InUse : ptr' = b
    /\ removed' = [removed EXCEPT ![t] = ptr]
    /\ held' = [held EXCEPT ![t] = None]
    /\ Goto(t, "retire")
    /\ UNCHANGED <<seqVars, slotVars, scanVars, queue, interpQ>>

Push(t, goal) ==
    /\ queue' = [queue EXCEPT ![t] = Append(@, [block |-> removed[t], goal |-> goal])]
    /\ removed' = [removed EXCEPT ![t] = None]
    /\ Goto(t, "run")
    /\ UNCHANGED <<rdSeq, seq, slotVars, scanVars, ptr, held, interpQ>>

(* free_delayed, when enough is deferred: _Py_qsbr_advance.                *)
RetireAdvance(t) ==
    /\ pc[t] = "retire"
    /\ wrSeq + QSBR_INCR <= MaxSeq
    /\ wrSeq' = wrSeq + QSBR_INCR
    /\ Push(t, wrSeq + QSBR_INCR)

(* Faulty variant: the goal is the current write sequence.                 *)
RetireCurrent(t) ==
    /\ pc[t] = "retire"
    /\ Push(t, wrSeq)
    /\ UNCHANGED wrSeq

(* ... and otherwise: _Py_qsbr_shared_next, which advances nothing.        *)
RetireNext(t) ==
    /\ pc[t] = "retire"
    /\ Push(t, wrSeq + QSBR_INCR)
    /\ UNCHANGED wrSeq

(* ... and without memory for the queue: the block is freed with the world *)
(* stopped.                                                                *)
RetireStopped(t) ==
    /\ pc[t] = "retire"
    /\ Stopped(t)
    /\ removed' = [removed EXCEPT ![t] = None]
    /\ Goto(t, "run")
    /\ UNCHANGED <<seqVars, slotVars, scanVars, ptr, held, queue, interpQ>>

(* process_delayed_frees of the garbage collector: the world is stopped,   *)
(* the write sequence advances and the collector's own slot follows it, so *)
(* that a poll finds every goal reached.                                   *)
Collect(t) ==
    /\ pc[t] = "run"
    /\ Stopped(t)
    /\ wrSeq + QSBR_INCR <= MaxSeq
    /\ wrSeq' = wrSeq + QSBR_INCR
    /\ SetSeq(t, wrSeq + QSBR_INCR)
    /\ rdSeq' = IF (interpQ = <<>>) /\ \A u \in Threads : queue[u] = <<>>
                THEN rdSeq ELSE wrSeq + QSBR_INCR
    /\ queue' = [u \in Threads |-> <<>>]
    /\ interpQ' = <<>>
    /\ held' = [held EXCEPT ![t] = None]
    /\ UNCHANGED <<slotVars, scanVars, ptr, removed, pc>>

-----------------------------------------------------------------------------
(* _PyMem_ProcessDelayed: the thread's own queue, then the interpreter's   *)
(* if nobody else is at it.                                                *)

Polled(t) == IF from[t] = "own" THEN queue[t] ELSE interpQ
Goal(t) == Polled(t)[1].goal

InterpLocked == \E t \in Threads : pc[t] \in Polling /\ from[t] = "interp"

(* The queue is done with, empty or at a goal that is not reached.         *)
Leave(t) ==
    IF from[t] = "own" /\ interpQ # <<>> /\ ~InterpLocked
    THEN Goto(t, "poll") /\ from' = [from EXCEPT ![t] = "interp"]
    ELSE Goto(t, "run") /\ from' = [from EXCEPT ![t] = "own"]

FreeFirst(t) ==
    /\ queue' = IF from[t] = "own" THEN [queue EXCEPT ![t] = Tail(@)] ELSE queue
    /\ interpQ' = IF from[t] = "own" THEN interpQ ELSE Tail(interpQ)
    /\ Goto(t, "poll")
    /\ UNCHANGED from

(* The end of _Py_qsbr_poll, with the read sequence it has found.          *)
PollReturns(t, rd) ==
    IF Goal(t) <= rd
    THEN FreeFirst(t)
    ELSE Leave(t) /\ UNCHANGED <<queue, interpQ>>

(* From the eval loop, or when a buffer of the queue is full.              *)
Process(t) ==
    /\ pc[t] = "run"
    /\ Goto(t, "poll")
    /\ UNCHANGED <<seqVars, slotVars, scanVars, memVars>>

(* _PyMem_AbandonDelayed, in a thread that is about to be deleted.         *)
Abandon(t) ==
    /\ pc[t] = "run"
    /\ queue[t] # <<>>
    /\ ~InterpLocked
    /\ queue' = [queue EXCEPT ![t] = <<>>]
    /\ interpQ' = interpQ \o queue[t]
    /\ from' = [from EXCEPT ![t] = "interp"]
    /\ Goto(t, "poll")
    /\ UNCHANGED <<seqVars, slotVars, loaded, minSeq, index, ptr, held, removed>>

(* _Py_qbsr_goal_reached for the first item, and if it is not the first    *)
(* load of qsbr_poll_scan.                                                 *)
Poll(t) ==
    /\ pc[t] = "poll"
    /\ \/ Polled(t) = <<>> /\ Leave(t) /\ UNCHANGED <<minSeq, index, queue, interpQ>>
       \/ /\ Polled(t) # <<>>
          /\ Goal(t) <= rdSeq
          /\ FreeFirst(t)
          /\ UNCHANGED <<minSeq, index>>
       \/ /\ Polled(t) # <<>>
          /\ Goal(t) > rdSeq
          /\ minSeq' = [minSeq EXCEPT ![t] = wrSeq]
          /\ index' = [index EXCEPT ![t] = 1]
          /\ Goto(t, "scan")
          /\ UNCHANGED <<from, queue, interpQ>>
    /\ UNCHANGED <<seqVars, slotVars, loaded, ptr, held, removed>>

(* One slot of the scan.                                                   *)
Scan(t) ==
    /\ pc[t] = "scan"
    /\ LET n == seq[index[t]]
       IN minSeq' = IF n # QSBR_OFFLINE /\ n < minSeq[t]
                    THEN [minSeq EXCEPT ![t] = n] ELSE minSeq
    /\ index' = [index EXCEPT ![t] = @ + 1]
    /\ Goto(t, IF index[t] = Len(seq) THEN "publish" ELSE "scan")
    /\ UNCHANGED <<seqVars, slotVars, loaded, from, memVars>>

Forget(t) ==    \* the locals of a poll that returns
    /\ minSeq' = [minSeq EXCEPT ![t] = 0]
    /\ index' = [index EXCEPT ![t] = 0]

(* The load of rd_seq after the scan.                                      *)
Publish(t) ==
    /\ pc[t] = "publish"
    /\ \/ /\ rdSeq < minSeq[t]
          /\ loaded' = [loaded EXCEPT ![t] = rdSeq]
          /\ Goto(t, "cas")
          /\ UNCHANGED <<minSeq, index, from, queue, interpQ>>
       \/ /\ rdSeq >= minSeq[t]
          /\ PollReturns(t, rdSeq)
          /\ Forget(t)
          /\ UNCHANGED loaded
    /\ UNCHANGED <<seqVars, slotVars, ptr, held, removed>>

(* Faulty variant: a store in place of the exchange.                       *)
CasStores(t) ==
    /\ pc[t] = "cas"
    /\ rdSeq' = minSeq[t]
    /\ PollReturns(t, minSeq[t])
    /\ loaded' = [loaded EXCEPT ![t] = 0]
    /\ Forget(t)
    /\ UNCHANGED <<wrSeq, seq, slotVars, ptr, held, removed>>

(* The exchange; that it can fail makes no difference to the caller.       *)
Cas(t) ==
    /\ pc[t] = "cas"
    /\ rdSeq' = IF rdSeq = loaded[t] THEN minSeq[t] ELSE rdSeq
    /\ PollReturns(t, minSeq[t])
    /\ loaded' = [loaded EXCEPT ![t] = 0]
    /\ Forget(t)
    /\ UNCHANGED <<wrSeq, seq, slotVars, ptr, held, removed>>

-----------------------------------------------------------------------------
(* What a thread does inside a function of this module.                    *)
OwnStep(t) ==
    \/ AttachLoad(t) \/ StoreSeq(t)
    \/ Poll(t) \/ Scan(t) \/ Publish(t) \/ Cas(t)

Next ==
    \E t \in Threads :
        \/ Create(t) \/ CreateAndGrow(t) \/ Delete(t)
        \/ Attach(t) \/ Detach(t) \/ Quiesce(t) \/ Read(t)
        \/ Replace(t) \/ RetireAdvance(t) \/ RetireNext(t) \/ RetireStopped(t)
        \/ Collect(t) \/ Process(t) \/ Abandon(t)
        \/ OwnStep(t)

Spec == Init /\ [][Next]_vars

-----------------------------------------------------------------------------
(* The grace period: no thread has a borrowed pointer to memory that has   *)
(* been freed and that malloc may give out again ("it safe to reclaim any  *)
(* memory tagged with the goal", pycore_qsbr.h:138).                       *)
NoUseAfterFree ==
    \A t \in Threads : held[t] # None => held[t] \in InUse

Items(q) == {q[i] : i \in 1..Len(q)}

RetiredItems == (UNION {Items(queue[t]) : t \in Threads}) \cup Items(interpQ)

(* The write sequence is ahead of the read sequence, a goal is one step    *)
(* ahead of the write sequence at most, and a thread that still borrows a  *)
(* retired block shows a number below the goal that protects the block.    *)
BorrowersHoldBackGoals ==
    /\ TypeOK
    /\ rdSeq <= wrSeq
    /\ \A x \in RetiredItems :
          /\ x.goal <= wrSeq + QSBR_INCR
          /\ \A t \in Threads : held[t] = x.block =>
                /\ QSBR_OFFLINE < seq[slot[t]]
                /\ seq[slot[t]] < x.goal
                /\ rdSeq < x.goal

(* The read sequence never goes back, however many polls race to publish   *)
(* what they have seen: a goal that was reached stays reached.             *)
GoalsStayReached == [][rdSeq' >= rdSeq]_vars
=============================================================================
