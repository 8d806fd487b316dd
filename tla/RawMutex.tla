------------------------------- MODULE RawMutex -------------------------------
(***************************************************************************)
(* _PyRawMutex of Python/lock.c: the word-sized mutex beneath the parking  *)
(* lot.  The word holds the LOCKED bit and the head of a stack of wait     *)
(* entries, each on the C stack of a thread inside _PyRawMutex_LockSlow.   *)
(* An unlock pops one entry, frees the mutex and posts the semaphore of    *)
(* the entry; the mutex is not handed over and anybody may take it first.  *)
(*                                                                         *)
(* There is one mutex.  A step is one atomic operation on the word, or a   *)
(* read of another thread's entry.  Here a semaphore wait ends with a post *)
(* only; RawMutexSignals adds the waits that a signal interrupts.          *)
(***************************************************************************)
EXTENDS Integers, FiniteSets, Functions

CONSTANTS
    Threads,
    Null      \* the null pointer

ASSUME NullType == Null \notin Threads

VARIABLES
    word,   \* _PyRawMutex.v
    next,   \* raw_mutex_entry.next of each thread's entry
    sema,   \* the count of raw_mutex_entry.sema
    pc,     \* where each thread is
    v,      \* the local v of LockSlow and UnlockSlow
    rest    \* the local next_waiter of UnlockSlow

vars == <<word, next, sema, pc, v, rest>>

Pointers == Threads \cup {Null}
Words == [locked : {0, 1}, head : Pointers]
Word(l, h) == [locked |-> l, head |-> h]
Unlocked == Word(0, Null)
Locked == Word(1, Null)

(* Inside LockSlow a thread's entry exists; the owner is between a lock    *)
(* that succeeded and the exchange that unlocks.                           *)
InLockSlow == {"slow", "loop", "asleep"}
Owner == {"held", "uslow", "uloop", "upop"}

TypeOK ==
    /\ word \in Words
    /\ next \in [Threads -> Pointers]
    /\ sema \in [Threads -> Nat]
    /\ pc \in [Threads -> {"idle", "fast", "post"} \cup InLockSlow \cup Owner]
    /\ v \in [Threads -> Words]
    /\ rest \in [Threads -> Pointers]

Init ==
    /\ word = Unlocked
    /\ next = [t \in Threads |-> Null]
    /\ sema = [t \in Threads |-> 0]
    /\ pc = [t \in Threads |-> "idle"]
    /\ v = [t \in Threads |-> Unlocked]
    /\ rest = [t \in Threads |-> Null]

Goto(t, label) == pc' = [pc EXCEPT ![t] = label]
Load(t) == v' = [v EXCEPT ![t] = word]
CasHit(t, new) == word = v[t] /\ word' = new
CasMiss(t) == word # v[t] /\ UNCHANGED word /\ Load(t)

(* A call returns: its locals and its wait entry are gone.                 *)
Return(t, label) ==
    /\ Goto(t, label)
    /\ v' = [v EXCEPT ![t] = Unlocked]
    /\ rest' = [rest EXCEPT ![t] = Null]

-----------------------------------------------------------------------------
(* _PyRawMutex_Lock and _PyRawMutex_LockSlow.                              *)

CallLock(t) ==
    /\ pc[t] = "idle"
    /\ Goto(t, "fast")
    /\ UNCHANGED <<word, next, sema, v, rest>>

FastLock(t) ==
    /\ pc[t] = "fast"
    /\ \/ word = Unlocked /\ word' = Locked /\ Goto(t, "held")
       \/ word # Unlocked /\ UNCHANGED word /\ Goto(t, "slow")
    /\ UNCHANGED <<next, sema, v, rest>>

SlowLoad(t) ==
    /\ pc[t] = "slow"
    /\ Load(t)
    /\ Goto(t, "loop")
    /\ UNCHANGED <<word, next, sema, rest>>

(* Faulty variant: a store in place of the exchange.                       *)
GrabByStore(t) ==
    /\ pc[t] = "loop"
    /\ v[t].locked = 0
    /\ word' = Word(1, v[t].head)
    /\ next' = [next EXCEPT ![t] = Null]
    /\ Return(t, "held")
    /\ UNCHANGED sema

(* Unlocked: take it, even if it has waiters.                              *)
Grab(t) ==
    /\ pc[t] = "loop"
    /\ v[t].locked = 0
    /\ \/ CasHit(t, Word(1, v[t].head)) /\ Return(t, "held") /\ next' = [next EXCEPT ![t] = Null]
       \/ CasMiss(t) /\ UNCHANGED <<pc, rest, next>>
    /\ UNCHANGED sema

(* Locked: push our entry, whose next is written before the exchange.      *)
Push(t) ==
    /\ pc[t] = "loop"
    /\ v[t].locked = 1
    /\ next' = [next EXCEPT ![t] = v[t].head]
    /\ \/ CasHit(t, Word(1, t)) /\ Goto(t, "asleep") /\ UNCHANGED v
       \/ CasMiss(t) /\ UNCHANGED pc
    /\ UNCHANGED <<sema, rest>>

(* Faulty variant: the thread does not wait for the post.                  *)
AwakeAtOnce(t) ==
    /\ pc[t] = "asleep"
    /\ sema' = [sema EXCEPT ![t] = @ - 1]
    /\ Goto(t, "loop")
    /\ UNCHANGED <<word, next, v, rest>>

(* Woken: back to the top with the v of before the push.                   *)
Awake(t) ==
    /\ pc[t] = "asleep"
    /\ sema[t] > 0
    /\ sema' = [sema EXCEPT ![t] = @ - 1]
    /\ Goto(t, "loop")
    /\ UNCHANGED <<word, next, v, rest>>

-----------------------------------------------------------------------------
(* _PyRawMutex_Unlock and _PyRawMutex_UnlockSlow.                          *)

FastUnlock(t) ==
    /\ pc[t] = "held"
    /\ \/ word = Locked /\ word' = Unlocked /\ Goto(t, "idle")
       \/ word # Locked /\ UNCHANGED word /\ Goto(t, "uslow")
    /\ UNCHANGED <<next, sema, v, rest>>

UnlockLoad(t) ==
    /\ pc[t] = "uslow"
    /\ Load(t)
    /\ Goto(t, "uloop")
    /\ UNCHANGED <<word, next, sema, rest>>

(* The word has a waiter here: the first exchange missed, and only the     *)
(* owner takes waiters off (UnlockerFindsWaiter).  The other branch of the *)
(* loop, an exchange of LOCKED for UNLOCKED, is never taken.               *)
ReadNext(t) ==
    /\ pc[t] = "uloop"
    /\ v[t].locked = 1
    /\ v[t].head # Null
    /\ rest' = [rest EXCEPT ![t] = next[v[t].head]]
    /\ Goto(t, "upop")
    /\ UNCHANGED <<word, next, sema, v>>

(* Faulty variant: a store in place of the exchange loses the entries that *)
(* were pushed since v was loaded.                                         *)
PopByStore(t) ==
    /\ pc[t] = "upop"
    /\ word' = Word(0, rest[t])
    /\ Goto(t, "post")
    /\ rest' = [rest EXCEPT ![t] = Null]
    /\ UNCHANGED <<next, sema, v>>

(* The word becomes next_waiter: the head is popped and LOCKED goes off.   *)
Pop(t) ==
    /\ pc[t] = "upop"
    /\ \/ CasHit(t, Word(0, rest[t])) /\ Goto(t, "post") /\ UNCHANGED v
       \/ CasMiss(t) /\ Goto(t, "uloop")
    /\ rest' = [rest EXCEPT ![t] = Null]
    /\ UNCHANGED <<next, sema>>

(* Faulty variant: the popped waiter is not posted.                        *)
PostNobody(t) ==
    /\ pc[t] = "post"
    /\ Return(t, "idle")
    /\ UNCHANGED <<word, next, sema>>

Post(t) ==
    /\ pc[t] = "post"
    /\ sema' = [sema EXCEPT ![v[t].head] = @ + 1]
    /\ Return(t, "idle")
    /\ UNCHANGED <<word, next>>

-----------------------------------------------------------------------------
LockStep(t) ==
    \/ FastLock(t) \/ SlowLoad(t) \/ Grab(t) \/ Push(t) \/ Awake(t)

UnlockStep(t) ==
    FastUnlock(t) \/ UnlockLoad(t) \/ ReadNext(t) \/ Pop(t) \/ Post(t)

Next == \E t \in Threads : CallLock(t) \/ LockStep(t) \/ UnlockStep(t)

Spec == Init /\ [][Next]_vars

-----------------------------------------------------------------------------
BeingPosted == {v[t].head : t \in {u \in Threads : pc[u] = "post"}}

(* The threads that sleep and that nobody has popped.                      *)
Waiters == {t \in Threads : pc[t] = "asleep" /\ sema[t] = 0} \ BeingPosted

(* The stack as an unlocker finds it, from the head along next to the null *)
(* pointer, is s[1], ..., s[n].                                            *)
IsStack(s, n) ==
    /\ word.head = IF n = 0 THEN Null ELSE s[1]
    /\ \A i \in 1..n : next[s[i]] = IF i = n THEN Null ELSE s[i + 1]

(* The entries on the stack are those of the threads that sleep and that   *)
(* nobody has popped: none is lost by a push or a pop, none is there       *)
(* twice, and the stack ends.                                              *)
StackIsWaiters ==
    /\ TypeOK
    /\ \E s \in Bijection(1..Cardinality(Waiters), Waiters) :
           IsStack(s, Cardinality(Waiters))

(* The unlocker always has a waiter to wake, and reads and posts its entry *)
(* on another thread's C stack: the owner of the entry must still be       *)
(* inside LockSlow, which returns only after it has been popped ("Wait for *)
(* us to be woken up", lock.c:213).                                        *)
UnlockerFindsWaiter ==
    \A t \in Threads :
        pc[t] \in {"uloop", "upop", "post"} =>
            /\ v[t].head # Null
            /\ pc[v[t].head] \in InLockSlow

(* A mutex that is free and has waiters has a thread on its way to it: the *)
(* waiter that was popped, or one that barged in.                          *)
NoLostWakeup ==
    word.locked = 0 /\ word.head # Null =>
        \E t \in Threads :
            \/ pc[t] \in {"slow", "loop", "post"}
            \/ pc[t] = "asleep" /\ sema[t] > 0

(* RawMutex implements Lock.                                               *)
AbstractLock == INSTANCE Lock WITH
    Locks <- {"m"},
    holds <- {t \in Threads : pc[t] \in Owner} \X {"m"},
    wants <- {t \in Threads : pc[t] \in {"fast"} \cup InLockSlow} \X {"m"}

ImplementsLock == AbstractLock!LockSpec
=============================================================================
