------------------------------ MODULE ParkingLot ------------------------------
(***************************************************************************)
(* The parking lot of Python/parking_lot.c: a table of buckets, each with  *)
(* a queue of waiting threads, through which PyMutex, _PyRWMutex, PyEvent  *)
(* and _PyOnceFlag put threads to sleep on an address and wake them.       *)
(*                                                                         *)
(* The module is a library of steps: a lock that is built on the parking   *)
(* lot EXTENDS it, gives the addresses a meaning and conjoins its own      *)
(* assignments to these steps, the way mutex_unpark runs inside            *)
(* _PyParkingLot_Unpark.  A step stands for everything between two points  *)
(* at which another thread can interfere.  What is done under the bucket   *)
(* mutex and only touches the bucket is one step; the comparison with the  *)
(* word at the address is a step of its own, because that word is changed  *)
(* by threads that do not take the bucket mutex.                           *)
(***************************************************************************)
EXTENDS Integers, SequencesExt

CONSTANTS
    Threads,    \* the threads
    Addrs,      \* the addresses threads park on
    Buckets,    \* NUM_BUCKETS buckets
    BucketOf,   \* the hash: addr % NUM_BUCKETS
    NoThread    \* "no thread", the owner of a free bucket mutex

ASSUME BucketOfType == BucketOf \in [Addrs -> Buckets]
ASSUME NoThreadType == NoThread \notin Threads

VARIABLES
    bucketOwner,  \* who holds Bucket.mutex, a _PyRawMutex
    waiters,      \* Bucket.root; a thread stands for its wait_entry
    addr,         \* wait_entry.addr, the address a thread's call is about
    parkState,    \* how far a thread is inside _PyParkingLot_Park
    isUnparking,  \* the threads whose wait_entry.is_unparking is on
    sema,         \* the count of wait_entry.sema
    waking        \* the waiters a thread took off a queue and has not posted

parkVars == <<bucketOwner, waiters, addr, parkState, isUnparking, sema, waking>>

(* "TIMEOUT" and "INTR" are the thread that came back from the semaphore   *)
(* with that result and has not taken the bucket mutex again.              *)
ParkStates == {"out", "enqueue", "asleep", "TIMEOUT", "INTR", "drain"}

ParkTypeOK ==
    /\ bucketOwner \in [Buckets -> Threads \cup {NoThread}]
    /\ waiters \in [Buckets -> Seq(Threads)]
    /\ addr \in [Threads -> Addrs]
    /\ parkState \in [Threads -> ParkStates]
    /\ isUnparking \subseteq Threads
    /\ sema \in [Threads -> Nat]
    /\ waking \in [Threads -> SUBSET Threads]

ParkInit ==
    /\ bucketOwner = [b \in Buckets |-> NoThread]
    /\ waiters = [b \in Buckets |-> <<>>]
    /\ \E a \in Addrs : addr = [t \in Threads |-> a]
    /\ parkState = [t \in Threads |-> "out"]
    /\ isUnparking = {}
    /\ sema = [t \in Threads |-> 0]
    /\ waking = [t \in Threads |-> {}]

(* The bucket, and the queue, of the address that t's call is about.       *)
MyBucket(t) == BucketOf[addr[t]]
Queue(t) == waiters[MyBucket(t)]
BucketFree(t) == bucketOwner[MyBucket(t)] = NoThread

(* Position i of t's bucket is the first waiter on t's address.            *)
IsFirst(t, i) ==
    /\ i \in 1..Len(Queue(t))
    /\ addr[Queue(t)[i]] = addr[t]
    /\ \A j \in 1..(i - 1) : addr[Queue(t)[j]] # addr[t]

NoneWaits(t) == \A i \in 1..Len(Queue(t)) : addr[Queue(t)[i]] # addr[t]

-----------------------------------------------------------------------------
(* _PyParkingLot_Park.                                                     *)

(* The word no longer has the expected value: Py_PARK_AGAIN.               *)
ParkAgain(t, current, expected) ==
    /\ parkState[t] = "out"
    /\ BucketFree(t)
    /\ current # expected
    /\ UNCHANGED parkVars

(* It has: keep the bucket mutex, the wait_entry is not yet queued.        *)
ParkCompare(t, current, expected) ==
    /\ parkState[t] = "out"
    /\ BucketFree(t)
    /\ current = expected
    /\ bucketOwner' = [bucketOwner EXCEPT ![MyBucket(t)] = t]
    /\ parkState' = [parkState EXCEPT ![t] = "enqueue"]
    /\ UNCHANGED <<waiters, addr, isUnparking, sema, waking>>

ParkEnqueue(t) ==
    /\ parkState[t] = "enqueue"
    /\ waiters' = [waiters EXCEPT ![MyBucket(t)] = Append(@, t)]
    /\ isUnparking' = isUnparking \ {t}
    /\ sema' = [sema EXCEPT ![t] = 0]
    /\ bucketOwner' = [bucketOwner EXCEPT ![MyBucket(t)] = NoThread]
    /\ parkState' = [parkState EXCEPT ![t] = "asleep"]
    /\ UNCHANGED <<addr, waking>>

(* _PySemaphore_Wait took a post: Py_PARK_OK.  The wait_entry is gone; its *)
(* fields are put back to their initial values.                            *)
ParkOk(t) ==
    /\ parkState[t] \in {"asleep", "drain"}
    /\ sema[t] > 0
    /\ sema' = [sema EXCEPT ![t] = @ - 1]
    /\ isUnparking' = isUnparking \ {t}
    /\ parkState' = [parkState EXCEPT ![t] = "out"]
    /\ UNCHANGED <<bucketOwner, waiters, addr, waking>>

(* _PySemaphore_Wait was interrupted, or its deadline passed.  A count     *)
(* that is there is always taken first.                                    *)
WaitFails(t, res) ==
    /\ parkState[t] = "asleep"
    /\ sema[t] = 0
    /\ parkState' = [parkState EXCEPT ![t] = res]
    /\ UNCHANGED <<bucketOwner, waiters, addr, isUnparking, sema, waking>>

(* Faulty variant: a failed wait returns without a look at is_unparking.   *)
ParkGiveUpUnchecked(t) ==
    /\ parkState[t] \in {"TIMEOUT", "INTR"}
    /\ BucketFree(t)
    /\ waiters' = [waiters EXCEPT ![MyBucket(t)] = SelectSeq(@, LAMBDA w : w # t)]
    /\ parkState' = [parkState EXCEPT ![t] = "out"]
    /\ UNCHANGED <<bucketOwner, addr, isUnparking, sema, waking>>

(* After a failed wait: leave the queue and return the failure ...         *)
ParkGiveUp(t) ==
    /\ parkState[t] \in {"TIMEOUT", "INTR"}
    /\ BucketFree(t)
    /\ t \notin isUnparking
    /\ \E i \in 1..Len(Queue(t)) :
           /\ Queue(t)[i] = t
           /\ waiters' = [waiters EXCEPT ![MyBucket(t)] = RemoveAt(@, i)]
    /\ parkState' = [parkState EXCEPT ![t] = "out"]
    /\ UNCHANGED <<bucketOwner, addr, isUnparking, sema, waking>>

(* ... unless another thread has begun to unpark us: wait for its post.    *)
ParkDrain(t) ==
    /\ parkState[t] \in {"TIMEOUT", "INTR"}
    /\ BucketFree(t)
    /\ t \in isUnparking
    /\ parkState' = [parkState EXCEPT ![t] = "drain"]
    /\ UNCHANGED <<bucketOwner, waiters, addr, isUnparking, sema, waking>>

-----------------------------------------------------------------------------
(* _PyParkingLot_Unpark, _PyParkingLot_UnparkAll.                          *)

(* dequeue() found the waiter w; the caller's callback is conjoined.       *)
Unpark(t, w) ==
    /\ BucketFree(t)
    /\ \E i \in 1..Len(Queue(t)) :
           /\ IsFirst(t, i)
           /\ Queue(t)[i] = w
           /\ waiters' = [waiters EXCEPT ![MyBucket(t)] = RemoveAt(@, i)]
    /\ isUnparking' = isUnparking \cup {w}
    /\ waking' = [waking EXCEPT ![t] = {w}]
    /\ UNCHANGED <<bucketOwner, addr, parkState, sema>>

(* num_waiters > 0 once the waiter is gone: it counts every waiter of the  *)
(* bucket, whatever its address.                                           *)
HasMoreWaiters(t) == Len(Queue(t)) > 1

UnparkNone(t) ==
    /\ BucketFree(t)
    /\ NoneWaits(t)
    /\ UNCHANGED parkVars

(* A set of positions from the first to the last: this set has one member. *)
Ascending(positions) ==
    {f \in [1..Cardinality(positions) -> positions] :
        \A i, j \in DOMAIN f : i < j => f[i] < f[j]}

(* dequeue_all(): every waiter on the address leaves the queue, in which   *)
(* the others stay in their order.                                         *)
UnparkAll(t) ==
    /\ BucketFree(t)
    /\ LET all == {w \in ToSet(Queue(t)) : addr[w] = addr[t]}
           others == {i \in 1..Len(Queue(t)) : Queue(t)[i] \notin all}
       IN  /\ \E place \in Ascending(others) :
                  waiters' = [waiters EXCEPT ![MyBucket(t)] =
                                [i \in 1..Cardinality(others) |-> @[place[i]]]]
           /\ isUnparking' = isUnparking \cup all
           /\ waking' = [waking EXCEPT ![t] = all]
    /\ UNCHANGED <<bucketOwner, addr, parkState, sema>>

(* _PySemaphore_Wakeup, outside the bucket mutex.                          *)
Wakeup(t, w) ==
    /\ w \in waking[t]
    /\ sema' = [sema EXCEPT ![w] = @ + 1]
    /\ waking' = [waking EXCEPT ![t] = @ \ {w}]
    /\ UNCHANGED <<bucketOwner, waiters, addr, parkState, isUnparking>>

-----------------------------------------------------------------------------
(* A wait_entry lives on the stack of its thread and goes with the return  *)
(* of _PyParkingLot_Park: a thread that still owes a post must find the    *)
(* waiter inside, marked, and not yet posted.  The mark is what makes a    *)
(* waiter whose wait timed out stay (parking_lot.c:350-360).               *)
PostedWaiterIsThere ==
    \A t \in Threads : \A w \in waking[t] :
        /\ parkState[w] \in {"asleep", "TIMEOUT", "INTR", "drain"}
        /\ w \in isUnparking
        /\ sema[w] = 0
        /\ \A u \in Threads \ {t} : w \notin waking[u]
=============================================================================
