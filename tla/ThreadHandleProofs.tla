--------------------------- MODULE ThreadHandleProofs ---------------------------
(***************************************************************************)
(* The safety properties of ThreadHandle, for every set of threads and     *)
(* whatever buckets of the parking lot the two events and the once flag    *)
(* fall into.                                                              *)
(*                                                                         *)
(* The argument goes through the once flag.  Its function is run by one    *)
(* thread at a time, and from the moment one of them has joined, detached  *)
(* or failed to create the OS thread the flag is decided: it stays locked  *)
(* until it says so for ever, and no other thread gets its turn.  The      *)
(* state is DONE when the flag says so, or when the last reference is gone *)
(* while nobody is in a method, so that whoever gets a turn finds the      *)
(* thread running.  The count of references is what is known to hold one.  *)
(*                                                                         *)
(* That sleepers are announced is the argument of RWMutexProofs: a thread  *)
(* that is to be queued has held the bucket's mutex since it compared the  *)
(* byte, which keeps whoever empties the queue out.                        *)
(***************************************************************************)
EXTENDS ThreadHandle, SequenceTheorems, FiniteSetTheorems, TLAPS

Joins == {"join", "joinTimed"}
WaitPCs == {"wait", "waitCas", "waitPark", "waitParked", "waitCheck", "waited"}
NotifyPCs == {"notify", "unpark", "post", "notified"}
OncePCs == {"once", "onceParked", "onceReload", "run", "unlock", "unpark", "post",
            "onceDone"}

(* Where a thread is in its operation, and which address that is about.    *)
CallFits(t) ==
    /\ call[t] = "none" =>
          pc[t] \in IF t = Runner THEN {"unborn", "body", "gone"} ELSE {"idle"}
    /\ call[t] = "start" =>
          /\ t # Runner
          /\ pc[t] \in {"create", "started"} \/ (pc[t] \in NotifyPCs /\ addr[t] = Ready)
    /\ call[t] = "boot" => t = Runner /\ pc[t] \in WaitPCs /\ addr[t] = Ready
    /\ call[t] = "exit" => t = Runner /\ pc[t] \in NotifyPCs /\ addr[t] = Exiting
    /\ call[t] \in Joins =>
          \/ pc[t] \in WaitPCs /\ addr[t] = Exiting
          \/ pc[t] \in OncePCs \cup {"finish"} /\ addr[t] = Once
    /\ call[t] \in {"setDone", "force"} =>
          \/ pc[t] \in OncePCs /\ addr[t] = Once
          \/ pc[t] \in NotifyPCs \cup {"finish"} /\ addr[t] = Exiting
    /\ call[t] = "force" => t # Runner

CallsFit == \A t \in Threads : CallFits(t)

(* What a thread has loaded, and what an unlock is about to store.         *)
LocalFits(t) ==
    /\ pc[t] = "unlock" => v[t] \in {UNLOCKED, ONCE_INITIALIZED}
    /\ pc[t] = "waited" /\ v[t] = LOCKED => word[addr[t]] = LOCKED
    /\ v[t] = ONCE_INITIALIZED => state = DONE

LocalsFit == \A t \in Threads : LocalFits(t)

EventsAreBytes ==
    \A e \in Events : word[e] \in {UNLOCKED, LOCKED, HAS_PARKED}

FlagLocked == word[Once] \in {LOCKED, LOCKED + HAS_PARKED}

(* The flag is locked exactly while a thread runs the function.            *)
FlagShowsFunction ==
    /\ FlagLocked <=> \E t \in Threads : InFunction(t)
    /\ \A t, u \in Threads : InFunction(t) /\ InFunction(u) => t = u

(* The function of t cannot fail any more.                                 *)
Succeeds(t) ==
    \/ pc[t] = "finish"
    \/ pc[t] = "unlock" /\ v[t] = ONCE_INITIALIZED
    \/ call[t] \in {"setDone", "force"} /\ addr[t] = Exiting

Decided == word[Once] = ONCE_INITIALIZED \/ \E t \in Threads : Succeeds(t)

Born == pc[Runner] # "unborn"

(* The threads in a method that starts the thread, or that gives it up.    *)
Starting(t) ==
    \/ pc[t] = "create" /\ ~Born
    \/ pc[t] = "started" /\ call[Runner] = "boot"
    \/ call[t] = "force" /\ ~Born

StateFits ==
    /\ state = NOT_STARTED => ~Born /\ \A t \in Threads : ~InMethod(t)
    /\ state = STARTING =>
          \E t \in Threads :
              Starting(t) /\ \A u \in Threads : InMethod(u) => u = t
    /\ state \in {NOT_STARTED, STARTING} => word[Ready] # LOCKED
    /\ state = RUNNING => Born /\ refcount # 0
    /\ state = DONE /\ refcount # 0 => Decided
    /\ word[Once] = ONCE_INITIALIZED => state = DONE

(* The state a caller finds on its way.                                    *)
FindsState(t) ==
    /\ pc[t] \in {"create", "started"} => state = STARTING
    /\ call[t] = "force" => ~Born /\ state \in {STARTING, DONE}
    /\ call[t] = "force" /\ addr[t] = Once /\
           pc[t] \in {"unlock", "unpark", "post", "onceDone"} => state = DONE
    /\ pc[t] = "run" => state = IF call[t] = "force" THEN STARTING ELSE RUNNING
    /\ Succeeds(t) /\ call[t] # "force" => Born

CallersFindState == \A t \in Threads : FindsState(t)

(* The thread joins itself only when it was declared done.                 *)
ExitingFits ==
    /\ word[Exiting] = LOCKED =>
          Decided \/ call[Runner] = "exit" \/ pc[Runner] = "gone"
    /\ call[Runner] \in Joins => word[Exiting] = LOCKED /\ pc[Runner] # "run"

(* The references of boot and of the thread.                               *)
RunnerRefs ==
    IF pc[Runner] \in {"unborn", "gone"} THEN 0
    ELSE IF call[Runner] \in {"boot", "exit"} THEN 1 ELSE 2

RefsAddUp ==
    /\ refcount = RunnerRefs + (IF object THEN 1 ELSE 0)
    /\ \A t \in Threads : InMethod(t) => object

ReapedWhenDone ==
    reaped = IF \/ state = DONE /\ Born
                \/ \E t \in Threads : Succeeds(t) /\ call[t] # "force"
             THEN 1 ELSE 0

(* A thread that is to be queued, or is queued and nobody has begun to     *)
(* wake it.                                                                *)
Waits(t) ==
    \/ parkState[t] = "enqueue"
    \/ Queued(t)

WaitersAreParked ==
    \A t \in Threads :
        /\ pc[t] \in {"waitParked", "onceParked"} <=> parkState[t] # "out"
        /\ parkState[t] = "enqueue" => bucketOwner[MyBucket(t)] = t
        /\ Queued(t) => t \in ToSet(Queue(t))

ParkedMark(m) == IF m \in Events THEN HAS_PARKED ELSE LOCKED + HAS_PARKED

Waker(m) == \E u \in Threads : addr[u] = m /\ pc[u] = "unpark"

WaitersAreAnnounced ==
    \A t \in Threads :
        Waits(t) => word[addr[t]] = ParkedMark(addr[t]) \/ Waker(addr[t])

ParkInv ==
    /\ ParkTypeOK
    /\ WaitersAreParked
    /\ WaitersAreAnnounced

HandleTypes ==
    /\ word \in [Addrs -> Words]
    /\ pc \in [Threads -> PCs]
    /\ v \in [Threads -> Words]
    /\ call \in [Threads -> Calls]
    /\ state \in {NOT_STARTED, STARTING, RUNNING, DONE}
    /\ object \in BOOLEAN

HandleInv ==
    /\ HandleTypes
    /\ EventsAreBytes
    /\ CallsFit
    /\ LocalsFit
    /\ FlagShowsFunction
    /\ StateFits
    /\ CallersFindState
    /\ ExitingFits
    /\ RefsAddUp
    /\ ReapedWhenDone

Inv == ParkInv /\ HandleInv

-----------------------------------------------------------------------------
(* A thread is queued behind the others.                                   *)
LEMMA AppendFacts ==
    ASSUME NEW q \in Seq(Threads), NEW t \in Threads
    PROVE  /\ Append(q, t) \in Seq(Threads)
           /\ \A w \in Threads : w \in ToSet(q) \/ w = t => w \in ToSet(Append(q, t))
<1> DEFINE r == Append(q, t)
<1>1. /\ r \in Seq(Threads)
      /\ Len(q) \in Nat
      /\ Len(r) = Len(q) + 1
      /\ r[Len(q) + 1] = t
      /\ \A i \in 1..Len(q) : r[i] = q[i]
  OBVIOUS
<1>2. DOMAIN r = 1..Len(r) /\ DOMAIN q = 1..Len(q)
  BY <1>1
<1> HIDE DEF r
<1>3. \A i \in DOMAIN q : i \in DOMAIN r /\ r[i] = q[i]
  BY <1>1, <1>2
<1>4. Len(q) + 1 \in DOMAIN r
  BY <1>1, <1>2
<1>5. \A w \in Threads : w \in ToSet(q) \/ w = t => w \in ToSet(r)
  BY <1>1, <1>3, <1>4 DEF ToSet
<1> QED BY <1>1, <1>5 DEF r

(* What is left of a queue when position k is taken out.                   *)
LEMMA RemoveAtFacts ==
    ASSUME NEW q \in Seq(Threads), NEW k \in 1..Len(q)
    PROVE  /\ RemoveAt(q, k) \in Seq(Threads)
           /\ \A w \in ToSet(q) : w # q[k] => w \in ToSet(RemoveAt(q, k))
<1> DEFINE left == SubSeq(q, 1, k - 1)
           right == SubSeq(q, k + 1, Len(q))
           r == left \o right
<1>1. /\ left \in Seq(Threads) /\ Len(left) = k - 1
      /\ \A i \in 1..(k - 1) : left[i] = q[i]
  BY SMT
<1>2. /\ right \in Seq(Threads) /\ Len(right) = Len(q) - k
      /\ \A i \in 1..(Len(q) - k) : right[i] = q[k + i]
  BY SMT
<1>3. RemoveAt(q, k) = r
  BY DEF RemoveAt
<1> HIDE DEF left, right
<1>4. /\ r \in Seq(Threads)
      /\ Len(r) = Len(q) - 1
      /\ \A i \in 1..(Len(q) - 1) :
             r[i] = IF i <= k - 1 THEN left[i] ELSE right[i - (k - 1)]
  <2>1. /\ r \in Seq(Threads)
        /\ Len(r) = Len(left) + Len(right)
        /\ \A i \in 1..(Len(left) + Len(right)) :
               r[i] = IF i <= Len(left) THEN left[i] ELSE right[i - Len(left)]
    BY <1>1, <1>2, ConcatProperties
  <2>2. Len(left) = k - 1 /\ Len(left) + Len(right) = Len(q) - 1
    BY <1>1, <1>2
  <2> QED BY <2>1, <2>2
<1> HIDE DEF r
<1>5. ASSUME NEW i \in 1..Len(q), i # k
      PROVE  q[i] \in ToSet(r)
  <2>1. CASE i < k
    <3>1. i \in 1..Len(r) /\ r[i] = q[i]
      BY <1>1, <1>4, <2>1
    <3> QED BY <3>1 DEF ToSet
  <2>2. CASE i > k
    <3>1. i - 1 \in 1..Len(r) /\ r[i - 1] = right[i - k]
      BY <1>4, <2>2
    <3>2. right[i - k] = q[i]
      BY <1>2, <2>2
    <3>3. \E j \in DOMAIN r : r[j] = q[i]
      BY <1>4, <3>1, <3>2
    <3> QED BY <3>3 DEF ToSet
  <2> QED BY <1>5, <2>1, <2>2
<1>6. ASSUME NEW w \in ToSet(q), w # q[k] PROVE w \in ToSet(r)
  BY <1>5, <1>6 DEF ToSet
<1> QED BY <1>3, <1>4, <1>6

(* What is left of a queue when only some positions stay, in their order.  *)
LEMMA AscendingFacts ==
    ASSUME NEW q \in Seq(Threads), NEW P \in SUBSET (1..Len(q)),
           NEW f \in Ascending(P)
    PROVE  LET r == [i \in 1..Cardinality(P) |-> q[f[i]]]
           IN  /\ r \in Seq(Threads)
               /\ \A i \in P : q[i] \in ToSet(r)
<1> DEFINE n == Cardinality(P)
           r == [i \in 1..n |-> q[f[i]]]
<1>1. IsFiniteSet(P) /\ n \in Nat
  <2>1. IsFiniteSet(1..Len(q))
    BY FS_Interval
  <2> QED BY <2>1, FS_Subset, FS_CardinalityType
<1>2. f \in [1..n -> P] /\ \A i, j \in 1..n : i < j => f[i] < f[j]
  BY DEF Ascending
<1> HIDE DEF n
<1>3. f \in Injection(1..n, P)
  <2>1. \A i, j \in 1..n : f[i] = f[j] => i = j
    <3> SUFFICES ASSUME NEW i \in 1..n, NEW j \in 1..n, i # j
                 PROVE  f[i] # f[j]
      OBVIOUS
    <3>1. i \in Int /\ j \in Int /\ f[i] \in Int /\ f[j] \in Int
      <4>1. f[i] \in 1..Len(q) /\ f[j] \in 1..Len(q)
        BY <1>2
      <4> QED BY <1>1, <4>1
    <3>2. i < j \/ j < i
      BY <3>1
    <3> QED BY <1>2, <3>1, <3>2
  <2> QED BY <1>2, <2>1 DEF Injection, IsInjective
<1>4. Cardinality(1..n) = n
  BY <1>1, FS_Interval
<1>5. f \in Surjection(1..n, P)
  BY <1>1, <1>3, <1>4, FS_Injection DEF n
<1>6. r \in Seq(Threads)
  <2>1. \A i \in 1..n : f[i] \in 1..Len(q)
    BY <1>2
  <2>2. \A i \in 1..n : q[f[i]] \in Threads
    BY <2>1
  <2> QED BY <1>1, <2>2
<1>7. DOMAIN r = 1..n
  OBVIOUS
<1>8. ASSUME NEW i \in P PROVE q[i] \in ToSet(r)
  <2>1. PICK k \in 1..n : f[k] = i
    BY <1>5 DEF Surjection
  <2>2. r[k] = q[i]
    BY <2>1
  <2> QED BY <1>7, <2>2 DEF ToSet
<1> QED BY <1>6, <1>8 DEF n

-----------------------------------------------------------------------------
(* The parking lot.                                                        *)

(* Steps outside of the parking lot, which the threads of S make: the mark *)
(* of the sleepers stays, or one of them goes to the queue.                *)
LEMMA NotParking ==
    ASSUME ParkInv, NEW S \in SUBSET Threads, UNCHANGED parkRest,
           addr' \in [Threads -> Addrs],
           \A u \in Threads \ S : pc'[u] = pc[u] /\ addr'[u] = addr[u],
           \A u \in S :
               /\ pc[u] \notin {"waitParked", "onceParked", "unpark"}
               /\ pc'[u] \notin {"waitParked", "onceParked"},
           \A m \in Addrs :
               word[m] = ParkedMark(m) =>
                   \/ word'[m] = ParkedMark(m)
                   \/ \E u \in S : addr'[u] = m /\ pc'[u] = "unpark"
    PROVE  ParkInv'
<1> USE DEF ParkInv, parkRest
<1>1. ParkTypeOK'
  BY DEF ParkTypeOK
<1>2. \A u \in S : parkState[u] = "out" /\ parkState'[u] = "out"
  BY DEF WaitersAreParked
<1>3. \A u \in S : ~Waits(u) /\ ~Waits(u)' /\ ~Queued(u)'
  BY <1>2 DEF Waits, Queued
<1>4. \A u \in Threads \ S : (Waits(u)' <=> Waits(u)) /\ (Queued(u)' <=> Queued(u))
  BY DEF Waits, Queued
<1>5. WaitersAreParked'
  <2> SUFFICES ASSUME NEW u \in Threads
               PROVE  /\ pc'[u] \in {"waitParked", "onceParked"} <=> parkState'[u] # "out"
                      /\ parkState'[u] = "enqueue" => bucketOwner'[MyBucket(u)'] = u
                      /\ Queued(u)' => u \in ToSet(Queue(u)')
    BY DEF WaitersAreParked
  <2>1. CASE u \in S
    BY <1>2, <1>3, <2>1
  <2>2. CASE u \notin S
    BY <1>4, <2>2 DEF WaitersAreParked, Queue, MyBucket
  <2> QED BY <2>1, <2>2
<1>6. \A m : Waker(m) => Waker(m)'
  BY DEF Waker
<1>7. WaitersAreAnnounced'
  <2> SUFFICES ASSUME NEW u \in Threads, Waits(u)', NEW m \in Addrs, m = addr'[u]
               PROVE  word'[m] = ParkedMark(m) \/ Waker(m)'
    BY DEF WaitersAreAnnounced, ParkedMark
  <2>1. Waits(u) /\ m = addr[u]
    BY <1>3, <1>4
  <2>2. word[m] = ParkedMark(m) \/ Waker(m)
    BY <2>1 DEF WaitersAreAnnounced
  <2> QED BY <1>6, <2>2 DEF Waker
<1> QED BY <1>1, <1>5, <1>7

(* Nobody waits who did not, and whoever is about to empty a queue is      *)
(* still about to.                                                         *)
LEMMA NobodyNewWaits ==
    ASSUME ParkInv, word' = word, addr' = addr,
           \A u \in Threads : Waits(u)' => Waits(u),
           \A u \in Threads : pc[u] = "unpark" => pc'[u] = "unpark"
    PROVE  WaitersAreAnnounced'
<1>1. \A m : Waker(m) => Waker(m)'
  BY DEF Waker
<1> SUFFICES ASSUME NEW u \in Threads, Waits(u), NEW m, m = addr[u]
             PROVE  word[m] = ParkedMark(m) \/ Waker(m)'
  BY DEF WaitersAreAnnounced, ParkedMark
<1>2. word[m] = ParkedMark(m) \/ Waker(m)
  BY DEF ParkInv, WaitersAreAnnounced
<1> QED BY <1>1, <1>2

(* The comparison succeeds: the byte is marked, and the thread has the     *)
(* bucket's mutex.                                                         *)
LEMMA CompareParks ==
    ASSUME ParkInv, HandleTypes, NEW t \in Threads,
           ParkCompare(t, word[addr[t]], ParkedMark(addr[t])),
           pc[t] # "unpark", NEW l \in {"waitParked", "onceParked"},
           pc' = [pc EXCEPT ![t] = l], word' = word
    PROVE  ParkInv'
<1> USE DEF ParkInv, HandleTypes
<1>1. /\ bucketOwner[MyBucket(t)] = NoThread
      /\ word[addr[t]] = ParkedMark(addr[t])
      /\ bucketOwner' = [bucketOwner EXCEPT ![MyBucket(t)] = t]
      /\ parkState' = [parkState EXCEPT ![t] = "enqueue"]
      /\ UNCHANGED <<waiters, addr, isUnparking, sema, waking>>
      /\ MyBucket(t) \in Buckets
  BY BucketOfType DEF ParkCompare, BucketFree, MyBucket, ParkTypeOK
<1>2. ParkTypeOK'
  BY <1>1 DEF ParkTypeOK, ParkStates
<1>3. WaitersAreParked'
  BY <1>1, NoThreadType, BucketOfType
     DEF ParkTypeOK, WaitersAreParked, Queued, Queue, MyBucket
<1>4. \A u \in Threads \ {t} : Waits(u)' => Waits(u)
  BY <1>1 DEF Waits, Queued, ParkTypeOK
<1>5. \A m : Waker(m) => Waker(m)'
  BY <1>1 DEF Waker
<1>6. WaitersAreAnnounced'
  <2> SUFFICES ASSUME NEW u \in Threads, Waits(u)', NEW m, m = addr[u]
               PROVE  word[m] = ParkedMark(m) \/ Waker(m)'
    BY <1>1 DEF WaitersAreAnnounced, ParkedMark
  <2>1. CASE u = t
    BY <1>1, <2>1
  <2>2. CASE u # t
    BY <1>4, <1>5, <2>2 DEF WaitersAreAnnounced
  <2> QED BY <2>1, <2>2
<1> QED BY <1>2, <1>3, <1>6

(* The thread is queued.                                                   *)
LEMMA EnqueueParks ==
    ASSUME ParkInv, NEW t \in Threads, ParkEnqueue(t), UNCHANGED <<word, pc>>
    PROVE  ParkInv'
<1> USE DEF ParkInv, ParkTypeOK, ParkEnqueue
<1> DEFINE b == MyBucket(t)
           q == waiters[b]
<1>1. /\ parkState[t] = "enqueue" /\ bucketOwner[b] = t /\ b \in Buckets
      /\ q \in Seq(Threads)
      /\ waiters' = [waiters EXCEPT ![b] = Append(q, t)]
  BY BucketOfType DEF WaitersAreParked, MyBucket
<1>2. /\ Append(q, t) \in Seq(Threads)
      /\ \A w \in Threads : w \in ToSet(q) \/ w = t => w \in ToSet(Append(q, t))
  BY <1>1, AppendFacts
<1>3. ParkTypeOK'
  BY <1>1, <1>2 DEF ParkStates
<1>4. WaitersAreParked'
  <2>1. ASSUME NEW u \in Threads
        PROVE  /\ pc'[u] \in {"waitParked", "onceParked"} <=> parkState'[u] # "out"
               /\ parkState'[u] = "enqueue" => bucketOwner'[MyBucket(u)] = u
    BY <1>1 DEF WaitersAreParked, MyBucket
  <2>2. ASSUME NEW u \in Threads, Queued(u)'
        PROVE  u \in ToSet(waiters'[MyBucket(u)])
    <3>1. CASE u = t
      BY <1>1, <1>2, <3>1
    <3>2. CASE u # t
      <4>1. u \in ToSet(waiters[MyBucket(u)])
        BY <2>2, <3>2 DEF WaitersAreParked, Queued, Queue
      <4> QED BY <1>1, <1>2, <4>1
    <3> QED BY <3>1, <3>2
  <2> QED BY <2>1, <2>2 DEF WaitersAreParked, Queue, MyBucket
<1>5. \A u \in Threads : Waits(u)' => Waits(u)
  BY <1>1 DEF Waits, Queued
<1>6. WaitersAreAnnounced'
  BY <1>5, NobodyNewWaits
<1> QED BY <1>3, <1>4, <1>6

(* A wait fails, or the thread finds that it is being woken after one.     *)
LEMMA FailureParks ==
    ASSUME ParkInv, NEW t \in Threads,
           WaitFails(t, "INTR") \/ WaitFails(t, "TIMEOUT") \/ ParkDrain(t),
           UNCHANGED <<word, pc>>
    PROVE  ParkInv'
<1> USE DEF ParkInv, ParkTypeOK
<1>1. PICK st \in {"INTR", "TIMEOUT", "drain"} :
         /\ parkState' = [parkState EXCEPT ![t] = st]
         /\ parkState[t] \in {"asleep", "TIMEOUT", "INTR"}
         /\ st = "drain" => t \in isUnparking
  BY DEF WaitFails, ParkDrain
<1>2. UNCHANGED <<bucketOwner, waiters, addr, isUnparking, sema, waking, word, pc>>
  BY DEF WaitFails, ParkDrain
<1>3. ParkTypeOK'
  BY <1>1, <1>2 DEF ParkStates
<1>4. \A u \in Threads : Queued(u)' => Queued(u)
  BY <1>1, <1>2 DEF Queued
<1>5. WaitersAreParked'
  BY <1>1, <1>2, <1>4 DEF WaitersAreParked, Queue, MyBucket
<1>6. \A u \in Threads : Waits(u)' => Waits(u)
  BY <1>1, <1>4 DEF Waits
<1>7. WaitersAreAnnounced'
  BY <1>2, <1>6, NobodyNewWaits
<1> QED BY <1>3, <1>5, <1>7

(* The thread leaves the parking lot, with a post or after a failed wait.  *)
LEMMA LeaveParks ==
    ASSUME ParkInv, HandleTypes, NEW t \in Threads, ParkOk(t) \/ ParkGiveUp(t),
           NEW l \in {"waitCheck", "onceReload"},
           pc' = [pc EXCEPT ![t] = l], word' = word
    PROVE  ParkInv'
<1> USE DEF ParkInv, ParkTypeOK, HandleTypes
<1>1. /\ parkState[t] \in {"asleep", "drain", "TIMEOUT", "INTR"}
      /\ pc[t] \in {"waitParked", "onceParked"}
      /\ parkState' = [parkState EXCEPT ![t] = "out"]
      /\ UNCHANGED <<addr, bucketOwner, waking>>
  BY DEF ParkOk, ParkGiveUp, WaitersAreParked
<1>2. /\ isUnparking' \subseteq Threads
      /\ \A u \in Threads \ {t} : u \in isUnparking' <=> u \in isUnparking
      /\ sema' \in [Threads -> Nat]
  <2>1. CASE ParkOk(t)
    <3>1. sema' = [sema EXCEPT ![t] = sema[t] - 1] /\ sema[t] - 1 \in Nat
      BY <2>1 DEF ParkOk
    <3> QED BY <2>1, <3>1 DEF ParkOk
  <2>2. CASE ParkGiveUp(t)
    BY <2>2 DEF ParkGiveUp
  <2> QED BY <2>1, <2>2
<1>3. /\ waiters' \in [Buckets -> Seq(Threads)]
      /\ \A b \in Buckets, u \in Threads :
            u \in ToSet(waiters[b]) => u = t \/ u \in ToSet(waiters'[b])
  <2>1. CASE ParkOk(t)
    BY <2>1 DEF ParkOk
  <2>2. CASE ParkGiveUp(t)
    <3> DEFINE c == MyBucket(t)
    <3>1. c \in Buckets
      BY BucketOfType DEF MyBucket
    <3>2. PICK i \in 1..Len(waiters[c]) :
             /\ waiters[c][i] = t
             /\ waiters' = [waiters EXCEPT ![c] = RemoveAt(@, i)]
      BY <2>2 DEF ParkGiveUp, Queue
    <3> HIDE DEF c
    <3>3. /\ waiters[c] \in Seq(Threads)
          /\ waiters'[c] = RemoveAt(waiters[c], i)
          /\ \A b \in Buckets \ {c} : waiters'[b] = waiters[b]
      BY <3>1, <3>2
    <3>4. /\ RemoveAt(waiters[c], i) \in Seq(Threads)
          /\ \A w \in ToSet(waiters[c]) :
                w # t => w \in ToSet(RemoveAt(waiters[c], i))
      BY <3>2, <3>3, RemoveAtFacts
    <3>5. waiters' \in [Buckets -> Seq(Threads)]
      BY <3>2, <3>4
    <3> QED BY <3>3, <3>4, <3>5
  <2> QED BY <2>1, <2>2
<1>4. ParkTypeOK'
  BY <1>1, <1>2, <1>3 DEF ParkStates
<1>5. WaitersAreParked'
  <2>1. ASSUME NEW u \in Threads
        PROVE  /\ pc'[u] \in {"waitParked", "onceParked"} <=> parkState'[u] # "out"
               /\ parkState'[u] = "enqueue" => bucketOwner'[MyBucket(u)'] = u
    BY <1>1 DEF WaitersAreParked, MyBucket
  <2>2. ASSUME NEW u \in Threads, Queued(u)'
        PROVE  u \in ToSet(waiters'[MyBucket(u)'])
    <3>1. u # t /\ Queued(u) /\ MyBucket(u)' = MyBucket(u) /\ MyBucket(u) \in Buckets
      BY <1>1, <1>2, <2>2, BucketOfType DEF Queued, MyBucket
    <3> QED BY <1>3, <3>1 DEF WaitersAreParked, Queue
  <2> QED BY <2>1, <2>2 DEF WaitersAreParked, Queue
<1>6. \A u \in Threads : Waits(u)' => Waits(u)
  BY <1>1, <1>2 DEF Waits, Queued
<1>7. WaitersAreAnnounced'
  BY <1>1, <1>6, NobodyNewWaits
<1> QED BY <1>4, <1>5, <1>7

(* A thread that was taken off the queue is posted.                        *)
LEMMA WakeupParks ==
    ASSUME ParkInv, HandleTypes, NEW t \in Threads, NEW w \in Threads, Wakeup(t, w),
           pc[t] = "post", NEW l \in {"notified", "onceDone", "post"},
           pc' = [pc EXCEPT ![t] = l], word' = word
    PROVE  ParkInv'
<1> USE DEF ParkInv, ParkTypeOK, HandleTypes
<1>1. /\ UNCHANGED <<addr, bucketOwner, waiters, parkState, isUnparking>>
      /\ sema' \in [Threads -> Nat]
      /\ waking' \in [Threads -> SUBSET Threads]
  BY DEF Wakeup
<1>2. WaitersAreParked'
  BY <1>1 DEF WaitersAreParked, Queued, Queue, MyBucket
<1>3. \A u \in Threads : Waits(u)' => Waits(u)
  BY <1>1 DEF Waits, Queued
<1>4. WaitersAreAnnounced'
  BY <1>1, <1>3, NobodyNewWaits
<1> QED BY <1>1, <1>2, <1>4

(* The queue is emptied of those that wait for the address.  Nobody is     *)
(* about to join them, because the bucket is free.                         *)
LEMMA UnparkAllParks ==
    ASSUME ParkInv, HandleTypes, NEW t \in Threads, UnparkAll(t),
           pc[t] = "unpark", NEW l \in {"notified", "onceDone", "post"},
           pc' = [pc EXCEPT ![t] = l], word' = word
    PROVE  ParkInv'
<1> USE DEF ParkInv, ParkTypeOK, HandleTypes
<1> DEFINE b == MyBucket(t)
           q == waiters[b]
           all == {w \in ToSet(q) : addr[w] = addr[t]}
           others == {i \in 1..Len(q) : q[i] \notin all}
<1>1. b \in Buckets /\ q \in Seq(Threads) /\ all \subseteq Threads
  BY BucketOfType DEF MyBucket, ToSet
<1>2. /\ bucketOwner[b] = NoThread
      /\ isUnparking' = isUnparking \cup all
      /\ waking' = [waking EXCEPT ![t] = all]
      /\ UNCHANGED <<bucketOwner, addr, parkState, sema>>
  BY DEF UnparkAll, BucketFree, Queue
<1>3. PICK place \in Ascending(others) :
         waiters' = [waiters EXCEPT ![b] =
                       [i \in 1..Cardinality(others) |-> q[place[i]]]]
  BY <1>1 DEF UnparkAll, Queue
<1> HIDE DEF b
<1>4. /\ waiters'[b] \in Seq(Threads)
      /\ \A i \in others : q[i] \in ToSet(waiters'[b])
      /\ \A c \in Buckets \ {b} : waiters'[c] = waiters[c]
  <2> DEFINE r == [i \in 1..Cardinality(others) |-> q[place[i]]]
  <2>1. others \in SUBSET (1..Len(q))
    OBVIOUS
  <2> HIDE DEF others, q
  <2>2. r \in Seq(Threads) /\ \A i \in others : q[i] \in ToSet(r)
    BY <1>1, <2>1, AscendingFacts
  <2>3. waiters'[b] = r /\ \A c \in Buckets \ {b} : waiters'[c] = waiters[c]
    BY <1>1, <1>3
  <2> HIDE DEF r
  <2> QED BY <2>2, <2>3
<1>5. \A w \in ToSet(q) \ all : w \in ToSet(waiters'[b])
  <2> SUFFICES ASSUME NEW i \in DOMAIN q, q[i] \notin all
               PROVE  q[i] \in ToSet(waiters'[b])
    BY DEF ToSet
  <2> HIDE DEF q, all
  <2>1. i \in 1..Len(q)
    BY <1>1
  <2> QED BY <1>4, <2>1
<1> HIDE DEF q, all, others
<1>6. ParkTypeOK'
  <2>1. waiters' \in [Buckets -> Seq(Threads)]
    BY <1>3, <1>4
  <2> QED BY <1>1, <1>2, <2>1
<1>7. \A u \in Threads : Queued(u)' => Queued(u) /\ u \notin all /\ addr[u] # addr[t]
  <2> SUFFICES ASSUME NEW u \in Threads, Queued(u)'
               PROVE  Queued(u) /\ u \notin all /\ addr[u] # addr[t]
    OBVIOUS
  <2>1. Queued(u) /\ u \notin all
    BY <1>2 DEF Queued
  <2>2. u \in ToSet(waiters[MyBucket(u)])
    BY <2>1 DEF WaitersAreParked, Queue
  <2> QED BY <2>1, <2>2 DEF all, q, b, MyBucket
<1>8. WaitersAreParked'
  <2>1. ASSUME NEW u \in Threads
        PROVE  /\ pc'[u] \in {"waitParked", "onceParked"} <=> parkState'[u] # "out"
               /\ parkState'[u] = "enqueue" => bucketOwner'[MyBucket(u)'] = u
    BY <1>2 DEF WaitersAreParked, MyBucket
  <2>2. ASSUME NEW u \in Threads, Queued(u)'
        PROVE  u \in ToSet(waiters'[MyBucket(u)'])
    <3>1. /\ Queued(u) /\ u \notin all /\ MyBucket(u)' = MyBucket(u)
          /\ MyBucket(u) \in Buckets
      BY <1>2, <1>7, <2>2, BucketOfType DEF Queued, MyBucket
    <3>2. u \in ToSet(waiters[MyBucket(u)])
      BY <3>1 DEF WaitersAreParked, Queue
    <3> QED BY <1>4, <1>5, <3>1, <3>2 DEF q
  <2> QED BY <2>1, <2>2 DEF WaitersAreParked, Queue
<1>9. \A u \in Threads : Waits(u)' => Waits(u) /\ addr[u] # addr[t]
  <2> SUFFICES ASSUME NEW u \in Threads, parkState'[u] = "enqueue"
               PROVE  parkState[u] = "enqueue" /\ addr[u] # addr[t]
    BY <1>7 DEF Waits
  <2>1. parkState[u] = "enqueue" /\ bucketOwner[MyBucket(u)] = u
    BY <1>2 DEF WaitersAreParked
  <2> QED BY <1>2, <2>1, NoThreadType DEF b, MyBucket
<1>10. \A m : m # addr[t] /\ Waker(m) => Waker(m)'
  BY <1>2 DEF Waker
<1>11. WaitersAreAnnounced'
  <2> SUFFICES ASSUME NEW u \in Threads, Waits(u)', NEW m, m = addr[u]
               PROVE  word[m] = ParkedMark(m) \/ Waker(m)'
    BY <1>2 DEF WaitersAreAnnounced, ParkedMark
  <2>1. Waits(u) /\ m # addr[t]
    BY <1>9
  <2> QED BY <1>10, <2>1 DEF WaitersAreAnnounced
<1> QED BY <1>6, <1>8, <1>11

-----------------------------------------------------------------------------
(* The handle.                                                             *)

(* A step of t leaves the other threads where they are.                    *)
OnlyFor(t) ==
    \A u \in Threads \ {t} :
        /\ pc'[u] = pc[u]
        /\ v'[u] = v[u]
        /\ addr'[u] = addr[u]
        /\ call'[u] = call[u]

(* The events are set that were set, and the flag is locked if it was.     *)
WordsAlike ==
    /\ EventsAreBytes'
    /\ \A e \in Events : word'[e] = LOCKED <=> word[e] = LOCKED
    /\ FlagLocked' <=> FlagLocked
    /\ word'[Once] = ONCE_INITIALIZED <=> word[Once] = ONCE_INITIALIZED

(* What the others know of the handle's thread.                            *)
RunnerAlike ==
    /\ Born' <=> Born
    /\ state = STARTING /\ call[Runner] = "boot" => call'[Runner] = "boot"
    /\ call[Runner] = "exit" \/ pc[Runner] = "gone" =>
          call'[Runner] = "exit" \/ pc'[Runner] = "gone"

(* A step of t that leaves the state and the words alone and neither       *)
(* begins nor ends the function of the once flag.                          *)
LEMMA StepOfOne ==
    ASSUME HandleInv, NEW t \in Threads, OnlyFor(t), WordsAlike,
           UNCHANGED <<state, object, reaped>>,
           RunnerAlike,
           HandleTypes', CallFits(t)', LocalFits(t)', FindsState(t)',
           InFunction(t)' <=> InFunction(t),
           Succeeds(t)' <=> Succeeds(t),
           Succeeds(t) => (call'[t] = "force" <=> call[t] = "force"),
           InMethod(t)' => InMethod(t) \/ (object /\ state \in {RUNNING, DONE}),
           state = STARTING /\ Starting(t) => Starting(t)',
           refcount' = RunnerRefs' + (IF object THEN 1 ELSE 0),
           refcount' = 0 <=> refcount = 0,
           call'[Runner] \in Joins => word[Exiting] = LOCKED /\ pc'[Runner] # "run"
    PROVE  HandleInv'
<1> USE DEF HandleInv
<1>0. /\ Runner \in Threads /\ Ready \in Events /\ Exiting \in Events
  BY HandleAddrs
<1>1. \A u \in Threads : (InFunction(u)' <=> InFunction(u)) /\ (Succeeds(u)' <=> Succeeds(u))
  BY DEF OnlyFor, InFunction, Succeeds
<1>2. Decided' <=> Decided
  BY <1>1 DEF Decided, WordsAlike
<1>3. EventsAreBytes'
  BY DEF WordsAlike
<1>4. CallsFit'
  BY DEF CallsFit, CallFits, OnlyFor
<1>5. LocalsFit'
  <2> SUFFICES ASSUME NEW u \in Threads \ {t} PROVE LocalFits(u)'
    BY DEF LocalsFit
  <2>1. pc[u] = "waited" => addr[u] \in Events
    BY <1>0 DEF CallsFit, CallFits, HandleTypes, Calls, Joins, NotifyPCs, OncePCs
  <2> QED BY <2>1 DEF LocalsFit, LocalFits, OnlyFor, WordsAlike
<1>6. FlagShowsFunction'
  BY <1>1 DEF FlagShowsFunction, WordsAlike
<1>7. StateFits'
  <2>1. state = NOT_STARTED => ~Born' /\ \A u \in Threads : ~InMethod(u)'
    BY DEF StateFits, RunnerAlike, OnlyFor, InMethod, NOT_STARTED, RUNNING, DONE
  <2>2. ASSUME state = STARTING
        PROVE  \E s \in Threads :
                  Starting(s)' /\ \A u \in Threads : InMethod(u)' => u = s
    <3>1. PICK s \in Threads : Starting(s) /\ \A u \in Threads : InMethod(u) => u = s
      BY <2>2 DEF StateFits
    <3>2. Starting(s)'
      <4>1. CASE s = t
        BY <2>2, <3>1, <4>1
      <4>2. CASE s # t
        BY <2>2, <3>1, <4>2 DEF Starting, OnlyFor, RunnerAlike
      <4> QED BY <4>1, <4>2
    <3>3. \A u \in Threads : InMethod(u)' => InMethod(u)
      BY <2>2 DEF OnlyFor, InMethod, STARTING, RUNNING, DONE
    <3> QED BY <3>1, <3>2, <3>3
  <2>3. state \in {NOT_STARTED, STARTING} => word'[Ready] # LOCKED
    BY <1>0 DEF StateFits, WordsAlike
  <2>4. state = RUNNING => Born' /\ refcount' # 0
    BY DEF StateFits, RunnerAlike
  <2>5. state = DONE /\ refcount' # 0 => Decided'
    BY <1>2 DEF StateFits
  <2>6. word'[Once] = ONCE_INITIALIZED => state = DONE
    BY DEF StateFits, WordsAlike
  <2> QED BY <2>1, <2>2, <2>3, <2>4, <2>5, <2>6 DEF StateFits
<1>8. CallersFindState'
  BY <1>1 DEF CallersFindState, FindsState, OnlyFor, RunnerAlike
<1>9. ExitingFits'
  BY <1>0, <1>2 DEF ExitingFits, WordsAlike, RunnerAlike
<1>10. RefsAddUp'
  BY DEF RefsAddUp, OnlyFor, InMethod
<1>11. ReapedWhenDone'
  <2>1. \A u \in Threads :
           Succeeds(u)' /\ call'[u] # "force" <=> Succeeds(u) /\ call[u] # "force"
    BY <1>1 DEF OnlyFor
  <2> QED BY <2>1 DEF ReapedWhenDone, RunnerAlike
<1> QED BY <1>3, <1>4, <1>5, <1>6, <1>7, <1>8, <1>9, <1>10, <1>11

-----------------------------------------------------------------------------
(* The library's steps.  They leave the handle alone, and all but three of *)
(* them neither begin nor end anything that the function does.             *)

LibraryPCs == WaitPCs \cup NotifyPCs \cup {"once", "onceParked", "onceReload", "onceDone"}

(* Only the inside of the parking lot changes.                             *)
LEMMA HandleStays ==
    ASSUME HandleInv, UNCHANGED <<word, pc, v, addr, handleVars>>
    PROVE  HandleInv'
<1> USE DEF HandleInv, handleVars
<1>1. HandleTypes' /\ EventsAreBytes'
  BY DEF HandleTypes, EventsAreBytes
<1>2. CallsFit' /\ LocalsFit'
  BY DEF CallsFit, CallFits, LocalsFit, LocalFits
<1>3. \A t \in Threads : /\ InFunction(t)' <=> InFunction(t)
                         /\ Succeeds(t)' <=> Succeeds(t)
                         /\ InMethod(t)' <=> InMethod(t)
                         /\ Starting(t)' <=> Starting(t)
  BY DEF InFunction, Succeeds, InMethod, Starting, Born
<1>4. FlagShowsFunction'
  BY <1>3 DEF FlagShowsFunction, FlagLocked
<1>5. (Decided' <=> Decided) /\ (Born' <=> Born)
  BY <1>3 DEF Decided, Born
<1>6. StateFits'
  BY <1>3, <1>5 DEF StateFits
<1>7. CallersFindState'
  BY <1>3, <1>5 DEF CallersFindState, FindsState
<1>8. ExitingFits'
  BY <1>5 DEF ExitingFits
<1>9. RefsAddUp'
  BY <1>3 DEF RefsAddUp, RunnerRefs
<1>10. ReapedWhenDone'
  BY <1>3, <1>5 DEF ReapedWhenDone
<1> QED BY <1>1, <1>2, <1>4, <1>6, <1>7, <1>8, <1>9, <1>10

(* A thread goes on inside the library.                                    *)
LEMMA LibraryKeeps ==
    ASSUME HandleInv, NEW t \in Threads, UNCHANGED <<addr, handleVars>>,
           NEW l \in LibraryPCs, pc[t] \in LibraryPCs, NEW x \in Words,
           pc' = [pc EXCEPT ![t] = l], v' = [v EXCEPT ![t] = x],
           word' \in [Addrs -> Words], WordsAlike,
           CallFits(t)',
           l = "waited" /\ x = LOCKED => word'[addr[t]] = LOCKED,
           x = ONCE_INITIALIZED => state = DONE,
           call[t] = "force" /\ addr[t] = Once /\ l \in {"unpark", "post", "onceDone"} =>
               state = DONE
    PROVE  HandleInv'
<1> USE DEF HandleInv, handleVars, LibraryPCs, WaitPCs, NotifyPCs
<1>1. HandleTypes'
  BY DEF HandleTypes, PCs, EventPCs
<1>2. /\ pc'[t] = l /\ v'[t] = x
      /\ \A u \in Threads \ {t} : pc'[u] = pc[u] /\ v'[u] = v[u]
  BY DEF HandleTypes
<1>3. OnlyFor(t)
  BY <1>2 DEF OnlyFor
<1>4. /\ pc[Runner] \in {"unborn", "gone"} <=> pc'[Runner] \in {"unborn", "gone"}
      /\ pc[Runner] = "unborn" <=> pc'[Runner] = "unborn"
      /\ pc[Runner] = "gone" <=> pc'[Runner] = "gone"
      /\ pc'[Runner] = "run" => pc[Runner] = "run"
  BY <1>2, HandleAddrs
<1>5. RunnerAlike
  BY <1>4 DEF RunnerAlike, Born
<1>6. InFunction(t)' <=> InFunction(t)
  BY <1>2 DEF InFunction
<1>7. Succeeds(t)' <=> Succeeds(t)
  BY <1>2 DEF Succeeds
<1>8. LocalFits(t)'
  BY <1>2 DEF LocalFits
<1>9. FindsState(t)'
  <2>1. FindsState(t)
    BY DEF CallersFindState
  <2> QED BY <1>2, <1>4, <1>7, <2>1 DEF FindsState, Born
<1>10. Starting(t) => Starting(t)'
  BY <1>2, <1>4 DEF Starting, Born
<1>11. InMethod(t)' => InMethod(t)
  BY DEF InMethod
<1>12. refcount' = RunnerRefs' + (IF object THEN 1 ELSE 0)
  BY <1>4 DEF RefsAddUp, RunnerRefs
<1>13. call'[Runner] \in Joins => word[Exiting] = LOCKED /\ pc'[Runner] # "run"
  BY <1>4 DEF ExitingFits
<1> QED BY <1>1, <1>3, <1>5, <1>6, <1>7, <1>8, <1>9, <1>10, <1>11, <1>12, <1>13,
           StepOfOne

(* What the label says about the call and the address.                     *)
LEMMA WhereItIs ==
    ASSUME HandleInv, NEW t \in Threads
    PROVE  /\ pc[t] \in WaitPCs =>
                 \/ call[t] \in Joins /\ addr[t] = Exiting
                 \/ call[t] = "boot" /\ addr[t] = Ready
           /\ pc[t] \in {"notify", "notified"} =>
                 \/ call[t] = "start" /\ addr[t] = Ready
                 \/ call[t] \in {"exit", "setDone", "force"} /\ addr[t] = Exiting
           /\ pc[t] \in {"once", "onceParked", "onceReload", "onceDone", "run", "unlock"} =>
                 addr[t] = Once /\ call[t] \in Joins \cup {"setDone", "force"}
<1>1. CallFits(t) /\ call[t] \in Calls
  BY DEF HandleInv, HandleTypes, CallsFit
<1>2. pc[t] \in WaitPCs =>
         \/ call[t] \in Joins /\ addr[t] = Exiting
         \/ call[t] = "boot" /\ addr[t] = Ready
  BY <1>1, HandleAddrs
     DEF CallFits, Calls, Joins, WaitPCs, NotifyPCs, OncePCs
<1>3. pc[t] \in {"notify", "notified"} =>
         \/ call[t] = "start" /\ addr[t] = Ready
         \/ call[t] \in {"exit", "setDone", "force"} /\ addr[t] = Exiting
  BY <1>1, HandleAddrs
     DEF CallFits, Calls, Joins, WaitPCs, NotifyPCs, OncePCs
<1>4. pc[t] \in {"once", "onceParked", "onceReload", "onceDone", "run", "unlock"} =>
         addr[t] = Once /\ call[t] \in Joins \cup {"setDone", "force"}
  BY <1>1, HandleAddrs
     DEF CallFits, Calls, Joins, WaitPCs, NotifyPCs, OncePCs
<1> QED BY <1>2, <1>3, <1>4

LEMMA EventLoadKeeps ==
    ASSUME Inv, NEW t \in Threads, EventLoad(t), UNCHANGED handleVars
    PROVE  Inv'
<1> USE DEF Inv, HandleInv, HandleTypes
<1>1. /\ pc[t] = "wait" /\ addr[t] \in Events /\ addr[t] \in Addrs
      /\ addr \in [Threads -> Addrs]
      /\ \/ call[t] \in Joins /\ addr[t] = Exiting
         \/ call[t] = "boot" /\ addr[t] = Ready
  BY WhereItIs, HandleAddrs DEF EventLoad, WaitPCs, ParkInv, ParkTypeOK
<1>2. PICK l \in {"waited", "waitCas", "waitPark"} :
         /\ pc' = [pc EXCEPT ![t] = l]
         /\ l = "waited" => word[addr[t]] = LOCKED
  <2>1. word[addr[t]] \in {UNLOCKED, LOCKED, HAS_PARKED}
    BY <1>1 DEF EventsAreBytes
  <2> DEFINE l == CASE word[addr[t]] = LOCKED     -> "waited"
                    [] word[addr[t]] = UNLOCKED   -> "waitCas"
                    [] word[addr[t]] = HAS_PARKED -> "waitPark"
  <2>2. pc' = [pc EXCEPT ![t] = l]
    BY DEF EventLoad, Goto
  <2>3. CASE word[addr[t]] = UNLOCKED
    <3>1. l = "waitCas"
      BY <2>3 DEF UNLOCKED, LOCKED, HAS_PARKED
    <3> QED BY <2>2, <2>3, <3>1 DEF UNLOCKED, LOCKED
  <2>4. CASE word[addr[t]] = LOCKED
    <3>1. l = "waited"
      BY <2>4 DEF UNLOCKED, LOCKED, HAS_PARKED
    <3> QED BY <2>2, <2>4, <3>1
  <2>5. CASE word[addr[t]] = HAS_PARKED
    <3>1. l = "waitPark"
      BY <2>5 DEF UNLOCKED, LOCKED, HAS_PARKED
    <3> QED BY <2>2, <2>5, <3>1
  <2> QED BY <2>1, <2>3, <2>4, <2>5
<1>3. PICK x \in Words : v' = [v EXCEPT ![t] = x] /\ x = word[addr[t]]
  BY <1>1 DEF EventLoad, Load
<1>4. UNCHANGED <<parkVars, word>>
  BY DEF EventLoad
<1>5. x # ONCE_INITIALIZED
  BY <1>1, <1>3 DEF EventsAreBytes, UNLOCKED, LOCKED, HAS_PARKED, ONCE_INITIALIZED
<1>6. ParkInv'
  <2>1. /\ \A u \in Threads \ {t} : pc'[u] = pc[u]
        /\ pc'[t] = l
    BY <1>2
  <2> QED BY <1>1, <1>2, <1>4, <2>1, NotParking, {t} \in SUBSET Threads
          DEF parkVars, parkRest
<1>7. HandleInv'
  <2>1. CallFits(t)'
    BY <1>1, <1>2, <1>4 DEF CallFits, Joins, WaitPCs, handleVars, parkVars, CallsFit
  <2>2. WordsAlike
    BY <1>4 DEF WordsAlike, EventsAreBytes, FlagLocked
  <2>3. l \in LibraryPCs /\ pc[t] \in LibraryPCs
    BY <1>1 DEF LibraryPCs, WaitPCs
  <2> QED BY <1>1, <1>2, <1>3, <1>4, <1>5, <2>1, <2>2, <2>3, LibraryKeeps DEF parkVars
<1> QED BY <1>6, <1>7

(* A thread steps outside of the parking lot and removes no mark.          *)
LEMMA OneOutside ==
    ASSUME ParkInv, HandleTypes, NEW t \in Threads, UNCHANGED parkRest,
           addr' \in [Threads -> Addrs],
           \A u \in Threads \ {t} : addr'[u] = addr[u],
           pc[t] \notin {"waitParked", "onceParked", "unpark"},
           NEW l, l \notin {"waitParked", "onceParked"},
           pc' = [pc EXCEPT ![t] = l],
           \A m \in Addrs : word[m] = ParkedMark(m) => word'[m] = ParkedMark(m)
    PROVE  ParkInv'
<1> DEFINE S == {t}
<1>1. S \in SUBSET Threads
  OBVIOUS
<1>2. /\ \A u \in Threads \ S : pc'[u] = pc[u] /\ addr'[u] = addr[u]
      /\ \A u \in S : /\ pc[u] \notin {"waitParked", "onceParked", "unpark"}
                      /\ pc'[u] \notin {"waitParked", "onceParked"}
  BY DEF HandleTypes
<1> HIDE DEF S
<1> QED BY <1>1, <1>2, NotParking

(* The library changes no byte, or adds a mark to the one at addr[t].      *)
LEMMA MarkedAlike ==
    ASSUME Inv, NEW a \in Addrs,
           \/ word' = word
           \/ word' = [word EXCEPT ![a] = ParkedMark(a)] /\ a \in Events /\ word[a] = UNLOCKED
           \/ word' = [word EXCEPT ![a] = ParkedMark(a)] /\ a = Once /\ word[a] = LOCKED
    PROVE  /\ word' \in [Addrs -> Words]
           /\ WordsAlike
           /\ \A m \in Addrs : word[m] = ParkedMark(m) => word'[m] = ParkedMark(m)
<1> USE DEF Inv, HandleInv, HandleTypes, EventsAreBytes, WordsAlike, FlagLocked, ParkedMark,
            Words, UNLOCKED, LOCKED, HAS_PARKED, ONCE_INITIALIZED
<1>1. Events \subseteq Addrs /\ Once \in Addrs /\ Once \notin Events
  BY HandleAddrs
<1>2. CASE word' = word
  BY <1>2
<1>3. CASE word' = [word EXCEPT ![a] = ParkedMark(a)] /\ a \in Events /\ word[a] = UNLOCKED
  BY <1>1, <1>3
<1>4. CASE word' = [word EXCEPT ![a] = ParkedMark(a)] /\ a = Once /\ word[a] = LOCKED
  BY <1>1, <1>4
<1> QED BY <1>2, <1>3, <1>4

LEMMA EventCasKeeps ==
    ASSUME Inv, NEW t \in Threads, EventCas(t), UNCHANGED handleVars
    PROVE  Inv'
<1> USE DEF Inv, HandleInv, HandleTypes
<1>1. /\ pc[t] = "waitCas" /\ addr[t] \in Events /\ addr[t] \in Addrs
      /\ addr \in [Threads -> Addrs] /\ v[t] \in Words
      /\ \/ call[t] \in Joins /\ addr[t] = Exiting
         \/ call[t] = "boot" /\ addr[t] = Ready
  BY WhereItIs, HandleAddrs DEF EventCas, WaitPCs, ParkInv, ParkTypeOK
<1>2. PICK l \in {"wait", "waitPark"} : pc' = [pc EXCEPT ![t] = l]
  BY DEF EventCas, Goto
<1>3. UNCHANGED <<parkVars, v>>
  BY DEF EventCas
<1>4. /\ word' \in [Addrs -> Words]
      /\ WordsAlike
      /\ \A m \in Addrs : word[m] = ParkedMark(m) => word'[m] = ParkedMark(m)
  <2>1. \/ word' = word
        \/ /\ word' = [word EXCEPT ![addr[t]] = ParkedMark(addr[t])]
           /\ word[addr[t]] = UNLOCKED
    BY <1>1 DEF EventCas, Store, ParkedMark
  <2> QED BY <1>1, <2>1, MarkedAlike
<1>5. ParkInv'
  BY <1>1, <1>2, <1>3, <1>4, OneOutside DEF parkVars, parkRest
<1>6. HandleInv'
  <2>1. CallFits(t)'
    BY <1>1, <1>2, <1>3 DEF CallFits, Joins, WaitPCs, handleVars, parkVars, CallsFit
  <2>2. l \in LibraryPCs /\ pc[t] \in LibraryPCs
    BY <1>1 DEF LibraryPCs, WaitPCs
  <2>3. v' = [v EXCEPT ![t] = v[t]]
    BY <1>3
  <2>4. v[t] = ONCE_INITIALIZED => state = DONE
    BY DEF LocalsFit, LocalFits
  <2> QED BY <1>1, <1>2, <1>3, <1>4, <2>1, <2>2, <2>3, <2>4, LibraryKeeps DEF parkVars
<1> QED BY <1>5, <1>6

LEMMA EventParkKeeps ==
    ASSUME Inv, NEW t \in Threads, EventPark(t), UNCHANGED handleVars
    PROVE  Inv'
<1> USE DEF Inv, HandleInv, HandleTypes
<1>1. /\ pc[t] = "waitPark" /\ addr[t] \in Events /\ addr[t] \in Addrs
      /\ addr \in [Threads -> Addrs] /\ v[t] \in Words
      /\ \/ call[t] \in Joins /\ addr[t] = Exiting
         \/ call[t] = "boot" /\ addr[t] = Ready
  BY WhereItIs, HandleAddrs DEF EventPark, WaitPCs, ParkInv, ParkTypeOK
<1>2. UNCHANGED <<word, v>>
  BY DEF EventPark
<1>3. WordsAlike
  BY <1>2 DEF WordsAlike, EventsAreBytes, FlagLocked
<1>4. CASE ParkCompare(t, word[addr[t]], HAS_PARKED) /\ Goto(t, "waitParked")
  <2>1. ParkInv'
    BY <1>1, <1>2, <1>4, CompareParks DEF Goto, ParkedMark
  <2>2. addr' = addr /\ pc' = [pc EXCEPT ![t] = "waitParked"]
    BY <1>4 DEF ParkCompare, Goto
  <2>3. HandleInv'
    <3>1. CallFits(t)'
      BY <1>1, <1>2, <2>2 DEF CallFits, Joins, WaitPCs, handleVars, CallsFit
    <3>2. "waitParked" \in LibraryPCs /\ pc[t] \in LibraryPCs
      BY <1>1 DEF LibraryPCs, WaitPCs
    <3>3. v' = [v EXCEPT ![t] = v[t]]
      BY <1>2
    <3>4. v[t] = ONCE_INITIALIZED => state = DONE
      BY DEF LocalsFit, LocalFits
    <3> QED BY <1>1, <1>2, <1>3, <2>2, <3>1, <3>2, <3>3, <3>4, LibraryKeeps
  <2> QED BY <2>1, <2>3
<1>5. CASE ParkAgain(t, word[addr[t]], HAS_PARKED) /\ Goto(t, "waitCheck")
  <2>1. UNCHANGED parkVars /\ pc' = [pc EXCEPT ![t] = "waitCheck"]
    BY <1>5 DEF ParkAgain, Goto
  <2>2. ParkInv'
    BY <1>1, <1>2, <2>1, OneOutside DEF parkVars, parkRest
  <2>3. HandleInv'
    <3>1. CallFits(t)'
      BY <1>1, <1>2, <2>1 DEF CallFits, Joins, WaitPCs, handleVars, parkVars, CallsFit
    <3>2. "waitCheck" \in LibraryPCs /\ pc[t] \in LibraryPCs
      BY <1>1 DEF LibraryPCs, WaitPCs
    <3>3. v' = [v EXCEPT ![t] = v[t]]
      BY <1>2
    <3>4. v[t] = ONCE_INITIALIZED => state = DONE
      BY DEF LocalsFit, LocalFits
    <3> QED BY <1>1, <1>2, <1>3, <2>1, <3>1, <3>2, <3>3, <3>4, LibraryKeeps DEF parkVars
  <2> QED BY <2>2, <2>3
<1> QED BY <1>4, <1>5 DEF EventPark

LEMMA EventCheckKeeps ==
    ASSUME Inv, NEW t \in Threads, EventCheck(t), UNCHANGED handleVars
    PROVE  Inv'
<1> USE DEF Inv, HandleInv, HandleTypes
<1>1. /\ pc[t] = "waitCheck" /\ addr[t] \in Events /\ addr[t] \in Addrs
      /\ addr \in [Threads -> Addrs]
      /\ \/ call[t] \in Joins /\ addr[t] = Exiting
         \/ call[t] = "boot" /\ addr[t] = Ready
  BY WhereItIs, HandleAddrs DEF EventCheck, WaitPCs, ParkInv, ParkTypeOK
<1>2. /\ pc' = [pc EXCEPT ![t] = "waited"]
      /\ v' = [v EXCEPT ![t] = word[addr[t]]]
      /\ word[addr[t]] \in Words
      /\ UNCHANGED <<parkVars, word>>
  BY <1>1 DEF EventCheck, Goto, Load
<1>3. ParkInv'
  BY <1>1, <1>2, OneOutside DEF parkVars, parkRest
<1>4. HandleInv'
  <2>1. CallFits(t)'
    BY <1>1, <1>2 DEF CallFits, Joins, WaitPCs, handleVars, parkVars, CallsFit
  <2>2. "waited" \in LibraryPCs /\ pc[t] \in LibraryPCs
    BY <1>1 DEF LibraryPCs, WaitPCs
  <2>3. WordsAlike
    BY <1>2 DEF WordsAlike, EventsAreBytes, FlagLocked
  <2>4. word[addr[t]] # ONCE_INITIALIZED
    BY <1>1 DEF EventsAreBytes, UNLOCKED, LOCKED, HAS_PARKED, ONCE_INITIALIZED
  <2> QED BY <1>1, <1>2, <2>1, <2>2, <2>3, <2>4, LibraryKeeps DEF parkVars
<1> QED BY <1>3, <1>4

LEMMA OnceAlreadyKeeps ==
    ASSUME Inv, NEW t \in Threads, OnceAlready(t), UNCHANGED handleVars
    PROVE  Inv'
<1> USE DEF Inv, HandleInv, HandleTypes
<1>1. /\ pc[t] = "once" /\ addr[t] = Once /\ v[t] = ONCE_INITIALIZED
      /\ addr \in [Threads -> Addrs] /\ v[t] \in Words
      /\ call[t] \in Joins \cup {"setDone", "force"}
  BY WhereItIs DEF OnceAlready, ParkInv, ParkTypeOK
<1>2. pc' = [pc EXCEPT ![t] = "onceDone"] /\ UNCHANGED <<parkVars, word, v>>
  BY DEF OnceAlready, Goto
<1>3. ParkInv'
  BY <1>1, <1>2, OneOutside DEF parkVars, parkRest
<1>4. HandleInv'
  <2>1. CallFits(t)'
    BY <1>1, <1>2 DEF CallFits, CallsFit, Joins, OncePCs, handleVars, parkVars
  <2>2. "onceDone" \in LibraryPCs /\ pc[t] \in LibraryPCs
    BY <1>1 DEF LibraryPCs
  <2>3. WordsAlike
    BY <1>2 DEF WordsAlike, EventsAreBytes, FlagLocked
  <2>4. state = DONE
    BY <1>1 DEF LocalsFit, LocalFits
  <2>5. v' = [v EXCEPT ![t] = v[t]]
    BY <1>2
  <2> QED BY <1>1, <1>2, <2>1, <2>2, <2>3, <2>4, <2>5, LibraryKeeps DEF parkVars
<1> QED BY <1>3, <1>4

LEMMA OnceMarkParkedKeeps ==
    ASSUME Inv, NEW t \in Threads, OnceMarkParked(t), UNCHANGED handleVars
    PROVE  Inv'
<1> USE DEF Inv, HandleInv, HandleTypes
<1>1. /\ pc[t] = "once" /\ addr[t] = Once /\ v[t] = LOCKED
      /\ addr \in [Threads -> Addrs] /\ Once \in Addrs /\ Once \notin Events
      /\ call[t] \in Joins \cup {"setDone", "force"}
  BY WhereItIs, HandleAddrs DEF OnceMarkParked, ParkInv, ParkTypeOK
<1>2. pc' = [pc EXCEPT ![t] = "once"] /\ UNCHANGED parkVars
  BY <1>1 DEF OnceMarkParked
<1>3. PICK x \in Words :
         /\ v' = [v EXCEPT ![t] = x]
         /\ \/ word' = word /\ x = word[Once]
            \/ /\ word' = [word EXCEPT ![Once] = ParkedMark(Once)]
               /\ word[Once] = LOCKED /\ x = LOCKED + HAS_PARKED
  BY <1>1 DEF OnceMarkParked, Load, Store, ParkedMark, Words
<1>4. /\ word' \in [Addrs -> Words]
      /\ WordsAlike
      /\ \A m \in Addrs : word[m] = ParkedMark(m) => word'[m] = ParkedMark(m)
  BY <1>1, <1>3, MarkedAlike
<1>5. ParkInv'
  BY <1>1, <1>2, <1>4, OneOutside DEF parkVars, parkRest
<1>6. HandleInv'
  <2>1. CallFits(t)'
    BY <1>1, <1>2 DEF CallFits, CallsFit, Joins, OncePCs, handleVars, parkVars
  <2>2. "once" \in LibraryPCs /\ pc[t] \in LibraryPCs
    BY <1>1 DEF LibraryPCs
  <2>3. x = ONCE_INITIALIZED => state = DONE
    BY <1>3 DEF StateFits, LOCKED, HAS_PARKED, ONCE_INITIALIZED
  <2> QED BY <1>1, <1>2, <1>3, <1>4, <2>1, <2>2, <2>3, LibraryKeeps DEF parkVars
<1> QED BY <1>5, <1>6

LEMMA OnceParkKeeps ==
    ASSUME Inv, NEW t \in Threads, OncePark(t), UNCHANGED handleVars
    PROVE  Inv'
<1> USE DEF Inv, HandleInv, HandleTypes
<1>1. /\ pc[t] = "once" /\ addr[t] = Once /\ v[t] = LOCKED + HAS_PARKED
      /\ addr \in [Threads -> Addrs] /\ Once \in Addrs /\ Once \notin Events
      /\ v[t] \in Words
      /\ call[t] \in Joins \cup {"setDone", "force"}
  BY WhereItIs, HandleAddrs DEF OncePark, ParkInv, ParkTypeOK
<1>2. UNCHANGED <<word, v>> /\ v' = [v EXCEPT ![t] = v[t]]
  BY DEF OncePark
<1>3. WordsAlike
  BY <1>2 DEF WordsAlike, EventsAreBytes, FlagLocked
<1>4. v[t] = ONCE_INITIALIZED => state = DONE
  BY DEF LocalsFit, LocalFits
<1>5. PICK l \in {"onceParked", "onceReload"} : pc' = [pc EXCEPT ![t] = l] /\ addr' = addr
  BY DEF OncePark, ParkCompare, ParkAgain, Goto, parkVars
<1>6. HandleInv'
  <2>1. CallFits(t)'
    BY <1>1, <1>2, <1>5 DEF CallFits, CallsFit, Joins, OncePCs, handleVars
  <2>2. l \in LibraryPCs /\ pc[t] \in LibraryPCs
    BY <1>1 DEF LibraryPCs
  <2>3. l \notin {"unpark", "post", "onceDone", "waited"}
    OBVIOUS
  <2> QED BY <1>1, <1>2, <1>3, <1>4, <1>5, <2>1, <2>2, <2>3, LibraryKeeps
<1>7. CASE ParkCompare(t, word[addr[t]], v[t]) /\ Goto(t, "onceParked")
  BY <1>1, <1>2, <1>6, <1>7, CompareParks DEF Goto, ParkedMark
<1>8. CASE ParkAgain(t, word[addr[t]], v[t]) /\ Goto(t, "onceReload")
  <2>1. UNCHANGED parkVars /\ pc' = [pc EXCEPT ![t] = "onceReload"]
    BY <1>8 DEF ParkAgain, Goto
  <2> QED BY <1>1, <1>2, <1>6, <2>1, OneOutside DEF parkVars, parkRest
<1> QED BY <1>7, <1>8 DEF OncePark

LEMMA OnceReloadKeeps ==
    ASSUME Inv, NEW t \in Threads, OnceReload(t), UNCHANGED handleVars
    PROVE  Inv'
<1> USE DEF Inv, HandleInv, HandleTypes
<1>1. /\ pc[t] = "onceReload" /\ addr[t] = Once
      /\ addr \in [Threads -> Addrs] /\ Once \in Addrs
      /\ call[t] \in Joins \cup {"setDone", "force"}
  BY WhereItIs, HandleAddrs DEF OnceReload, ParkInv, ParkTypeOK
<1>2. /\ pc' = [pc EXCEPT ![t] = "once"]
      /\ v' = [v EXCEPT ![t] = word[Once]]
      /\ word[Once] \in Words
      /\ UNCHANGED <<parkVars, word>>
  BY <1>1 DEF OnceReload, Goto, Load
<1>3. ParkInv'
  BY <1>1, <1>2, OneOutside DEF parkVars, parkRest
<1>4. HandleInv'
  <2>1. CallFits(t)'
    BY <1>1, <1>2 DEF CallFits, CallsFit, Joins, OncePCs, handleVars, parkVars
  <2>2. "once" \in LibraryPCs /\ pc[t] \in LibraryPCs
    BY <1>1 DEF LibraryPCs
  <2>3. WordsAlike
    BY <1>2 DEF WordsAlike, EventsAreBytes, FlagLocked
  <2>4. word[Once] = ONCE_INITIALIZED => state = DONE
    BY DEF StateFits
  <2> QED BY <1>1, <1>2, <2>1, <2>2, <2>3, <2>4, LibraryKeeps DEF parkVars
<1> QED BY <1>3, <1>4

(* A thread that is in the parking lot comes out of it, or goes on waking  *)
(* others.                                                                 *)
LEMMA InsideKeeps ==
    ASSUME Inv, NEW t \in Threads, UNCHANGED <<addr, word, v, handleVars>>,
           NEW l, pc' = [pc EXCEPT ![t] = l],
           \/ pc[t] = "waitParked" /\ l = "waitCheck"
           \/ pc[t] = "onceParked" /\ l = "onceReload"
           \/ pc[t] \in {"unpark", "post"} /\ l \in {Woken(t), "post"}
    PROVE  HandleInv'
<1> USE DEF Inv, HandleInv, HandleTypes
<1>1. addr[t] \in Addrs /\ v[t] \in Words /\ v' = [v EXCEPT ![t] = v[t]]
  BY DEF ParkInv, ParkTypeOK
<1>2. pc'[t] = l /\ call' = call /\ addr' = addr
  BY DEF handleVars
<1>3. CallFits(t)'
  <2>1. CallFits(t)
    BY DEF CallsFit
  <2>2. CASE pc[t] = "waitParked" /\ l = "waitCheck"
    BY <1>2, <2>1, <2>2 DEF CallFits, Joins, WaitPCs, NotifyPCs, OncePCs
  <2>3. CASE pc[t] = "onceParked" /\ l = "onceReload"
    BY <1>2, <2>1, <2>3 DEF CallFits, Joins, WaitPCs, NotifyPCs, OncePCs
  <2>4. CASE pc[t] \in {"unpark", "post"} /\ l \in {Woken(t), "post"}
    <3>1. /\ addr[t] \in Events => l \in {"notified", "post"}
          /\ addr[t] = Once => l \in {"onceDone", "post"}
      BY <2>4, HandleAddrs DEF Woken
    <3>2. Ready \in Events /\ Exiting \in Events
      BY HandleAddrs
    <3> QED BY <1>2, <2>1, <2>4, <3>1, <3>2 DEF CallFits, Joins, WaitPCs, NotifyPCs, OncePCs
  <2> QED BY <2>2, <2>3, <2>4
<1>4. l \in LibraryPCs /\ pc[t] \in LibraryPCs
  BY DEF LibraryPCs, Woken, WaitPCs, NotifyPCs
<1>5. WordsAlike
  BY DEF WordsAlike, EventsAreBytes, FlagLocked
<1>6. v[t] = ONCE_INITIALIZED => state = DONE
  BY DEF LocalsFit, LocalFits
<1>7. l # "waited"
  BY DEF Woken
<1>8. call[t] = "force" /\ addr[t] = Once /\ l \in {"unpark", "post", "onceDone"} =>
         state = DONE
  <2>1. l \in {"unpark", "post", "onceDone"} => pc[t] \in {"unpark", "post"}
    OBVIOUS
  <2> QED BY <2>1 DEF CallersFindState, FindsState
<1> QED BY <1>1, <1>3, <1>4, <1>5, <1>6, <1>7, <1>8, LibraryKeeps

LEMMA InnerKeeps ==
    ASSUME Inv, NEW t \in Threads, InnerStep(t), UNCHANGED handleVars
    PROVE  Inv'
<1> USE DEF Inv
<1>1. CASE Enqueue(t)
  <2>1. ParkInv'
    BY <1>1, EnqueueParks DEF Enqueue, eventVars
  <2>2. HandleInv'
    BY <1>1, HandleStays DEF Enqueue, eventVars, ParkEnqueue
  <2> QED BY <2>1, <2>2
<1>2. CASE Drain(t)
  <2>1. ParkInv'
    BY <1>2, FailureParks DEF Drain, eventVars
  <2>2. HandleInv'
    BY <1>2, HandleStays DEF Drain, eventVars, ParkDrain
  <2> QED BY <2>1, <2>2
<1>3. CASE Unparked(t)
  <2>1. PICK l \in {"waitCheck", "onceReload"} :
           /\ pc' = [pc EXCEPT ![t] = l]
           /\ l = IF pc[t] = "waitParked" THEN "waitCheck" ELSE "onceReload"
    BY <1>3 DEF Unparked, Goto
  <2>2. ParkOk(t) \/ ParkGiveUp(t)
    BY <1>3 DEF Unparked
  <2>3. UNCHANGED <<addr, word, v>>
    BY <1>3 DEF Unparked, ParkOk, ParkGiveUp
  <2>4. pc[t] \in {"waitParked", "onceParked"}
    BY <2>2 DEF ParkOk, ParkGiveUp, ParkInv, WaitersAreParked
  <2>5. ParkInv'
    BY <2>1, <2>2, <2>3, LeaveParks DEF HandleInv
  <2>6. HandleInv'
    BY <2>1, <2>3, <2>4, InsideKeeps
  <2> QED BY <2>5, <2>6
<1>4. CASE UnparkWaiters(t)
  <2>1. PICK l \in {Woken(t), "post"} : pc' = [pc EXCEPT ![t] = l]
    BY <1>4 DEF UnparkWaiters, Goto
  <2>2. /\ pc[t] = "unpark" /\ UnparkAll(t)
        /\ l \in {"notified", "onceDone", "post"}
        /\ UNCHANGED <<addr, word, v>>
    BY <1>4 DEF UnparkWaiters, UnparkAll, Woken
  <2>3. ParkInv'
    BY <2>1, <2>2, UnparkAllParks DEF HandleInv
  <2>4. HandleInv'
    BY <2>1, <2>2, InsideKeeps
  <2> QED BY <2>3, <2>4
<1>5. CASE Post(t)
  <2>1. PICK l \in {Woken(t), "post"} : pc' = [pc EXCEPT ![t] = l]
    BY <1>5 DEF Post, Goto
  <2>2. /\ pc[t] = "post"
        /\ l \in {"notified", "onceDone", "post"}
        /\ UNCHANGED <<addr, word, v>>
    BY <1>5 DEF Post, Wakeup, Woken
  <2>3. PICK w \in Threads : Wakeup(t, w)
    BY <1>5 DEF Post
  <2>4. ParkInv'
    BY <2>1, <2>2, <2>3, WakeupParks DEF HandleInv
  <2>5. HandleInv'
    BY <2>1, <2>2, InsideKeeps
  <2> QED BY <2>4, <2>5
<1> QED BY <1>1, <1>2, <1>3, <1>4, <1>5 DEF InnerStep

LEMMA WaitFailureKeeps ==
    ASSUME Inv, NEW t \in Threads, WaitFailure(t)
    PROVE  Inv'
<1>1. WaitFails(t, "INTR") \/ WaitFails(t, "TIMEOUT")
  BY DEF WaitFailure, SemaInterrupted, SemaTimedOut
<1>2. UNCHANGED <<word, pc, v, addr, handleVars>>
  BY DEF WaitFailure, SemaInterrupted, SemaTimedOut, WaitFails, eventVars
<1>3. ParkInv'
  BY <1>1, <1>2, FailureParks DEF Inv
<1>4. HandleInv'
  BY <1>2, HandleStays DEF Inv
<1> QED BY <1>3, <1>4 DEF Inv

(* Who is in the function, or in the start of the thread, is in a method,  *)
(* and what a method knows of the state.                                   *)
LEMMA MethodFacts ==
    ASSUME HandleInv, NEW u \in Threads
    PROVE  /\ InFunction(u) => call[u] \in Joins \cup {"setDone", "force"}
           /\ Succeeds(u) => InFunction(u)
           /\ pc[u] \in {"create", "started"} => call[u] = "start"
           /\ call[u] \in Joins \cup {"start", "setDone", "force"} => InMethod(u)
           /\ InMethod(u) => call[u] \in Joins \cup {"start", "setDone", "force"}
           /\ InMethod(u) => refcount # 0 /\ object /\ state # NOT_STARTED
           /\ InMethod(u) /\ state = STARTING =>
                 Starting(u) /\ \A t \in Threads : InMethod(t) => t = u
           /\ Starting(u) => InMethod(u)
<1> USE DEF HandleInv, HandleTypes
<1>1. CallFits(u) /\ call[u] \in Calls /\ pc[u] \in PCs
  BY DEF CallsFit
<1>2. pc[u] \in {"create", "started"} => call[u] = "start"
  BY <1>1, HandleAddrs DEF CallFits, Calls, Joins, WaitPCs, NotifyPCs, OncePCs
<1>3. pc[u] \in {"run", "finish", "unlock"} => call[u] \in Joins \cup {"setDone", "force"}
  BY <1>1, HandleAddrs DEF CallFits, Calls, Joins, WaitPCs, NotifyPCs, OncePCs
<1>4. InFunction(u) => call[u] \in Joins \cup {"setDone", "force"}
  BY <1>3 DEF InFunction
<1>5. Succeeds(u) => InFunction(u)
  BY DEF Succeeds, InFunction
<1>6. /\ call[u] \in Joins \cup {"start", "setDone", "force"} => InMethod(u)
      /\ InMethod(u) => call[u] \in Joins \cup {"start", "setDone", "force"}
  BY <1>1 DEF InMethod, Joins, Calls
<1>7. InMethod(u) => refcount # 0 /\ object
  BY DEF RefsAddUp, RunnerRefs
<1>8. InMethod(u) => state # NOT_STARTED
  BY DEF StateFits
<1>9. InMethod(u) /\ state = STARTING =>
         Starting(u) /\ \A t \in Threads : InMethod(t) => t = u
  BY DEF StateFits
<1>10. Starting(u) => InMethod(u)
  BY <1>2, <1>6 DEF Starting
<1> QED BY <1>2, <1>4, <1>5, <1>6, <1>7, <1>8, <1>9, <1>10

(* The event is set.  It is not Ready while the thread is not started, and *)
(* Exiting is set by the thread that ends or by a function that succeeds.  *)
LEMMA EventNotifyKeeps ==
    ASSUME Inv, NEW t \in Threads, EventNotify(t), UNCHANGED handleVars
    PROVE  Inv'
<1> USE DEF Inv, HandleInv, HandleTypes
<1>1. /\ pc[t] = "notify" /\ addr[t] \in Events /\ addr[t] \in Addrs
      /\ addr \in [Threads -> Addrs]
      /\ Ready \in Events /\ Exiting \in Events /\ Once \notin Events
      /\ Ready \in Addrs /\ Exiting \in Addrs /\ Once \in Addrs /\ Ready # Exiting
      /\ Runner \in Threads
      /\ \/ call[t] = "start" /\ addr[t] = Ready
         \/ call[t] \in {"exit", "setDone", "force"} /\ addr[t] = Exiting
  BY WhereItIs, HandleAddrs DEF EventNotify, ParkInv, ParkTypeOK
<1>2. /\ word' = [word EXCEPT ![addr[t]] = LOCKED]
      /\ UNCHANGED <<parkVars, v, addr, handleVars>>
  BY DEF EventNotify, Store, parkVars
<1>3. PICK l \in {"unpark", "notified"} :
         /\ pc' = [pc EXCEPT ![t] = l]
         /\ word[addr[t]] = HAS_PARKED => l = "unpark"
  BY DEF EventNotify, Goto
<1>4. /\ pc'[t] = l
      /\ \A u \in Threads \ {t} : pc'[u] = pc[u]
      /\ word'[addr[t]] = LOCKED
      /\ \A a \in Addrs \ {addr[t]} : word'[a] = word[a]
      /\ word'[Once] = word[Once]
  BY <1>1, <1>2, <1>3
<1>5. ParkInv'
  <2> DEFINE S == {t}
  <2>1. S \in SUBSET Threads
    OBVIOUS
  <2>2. /\ \A u \in Threads \ S : pc'[u] = pc[u] /\ addr'[u] = addr[u]
        /\ \A u \in S : /\ pc[u] \notin {"waitParked", "onceParked", "unpark"}
                        /\ pc'[u] \notin {"waitParked", "onceParked"}
    BY <1>1, <1>2, <1>4
  <2>3. \A m \in Addrs : word[m] = ParkedMark(m) =>
           \/ word'[m] = ParkedMark(m)
           \/ \E u \in S : addr'[u] = m /\ pc'[u] = "unpark"
    BY <1>1, <1>2, <1>3, <1>4 DEF ParkedMark
  <2> HIDE DEF S
  <2> QED BY <1>1, <1>2, <2>1, <2>2, <2>3, NotParking DEF parkVars, parkRest
<1> USE DEF handleVars
<1>6. HandleTypes' /\ EventsAreBytes'
  <2>1. word' \in [Addrs -> Words]
    BY <1>2 DEF Words
  <2>2. pc' \in [Threads -> PCs]
    BY <1>3 DEF PCs, EventPCs
  <2>3. EventsAreBytes'
    BY <1>1, <1>4, EventsType DEF EventsAreBytes
  <2> QED BY <1>2, <2>1, <2>2, <2>3
<1>7. CallsFit'
  BY <1>1, <1>2, <1>4 DEF CallsFit, CallFits, NotifyPCs, Joins
<1>8. \A u \in Threads : /\ InFunction(u)' <=> InFunction(u)
                         /\ Succeeds(u)' <=> Succeeds(u)
                         /\ InMethod(u)' <=> InMethod(u)
                         /\ Starting(u)' <=> Starting(u)
  <2>1. Born' <=> Born
    BY <1>1, <1>4 DEF Born
  <2> QED BY <1>1, <1>2, <1>4, <2>1 DEF InFunction, Succeeds, InMethod, Starting
<1>9. (Decided' <=> Decided) /\ (Born' <=> Born) /\ (FlagLocked' <=> FlagLocked)
  BY <1>1, <1>4, <1>8 DEF Decided, Born, FlagLocked
<1>10. LocalsFit'
  <2> SUFFICES ASSUME NEW u \in Threads, NEW a \in Addrs, a = addr[u]
               PROVE  /\ pc'[u] = "unlock" => v[u] \in {UNLOCKED, ONCE_INITIALIZED}
                      /\ pc'[u] = "waited" /\ v[u] = LOCKED => word'[a] = LOCKED
                      /\ v[u] = ONCE_INITIALIZED => state = DONE
    BY <1>1, <1>2 DEF LocalsFit, LocalFits
  <2> QED BY <1>1, <1>4 DEF LocalsFit, LocalFits
<1>11. FlagShowsFunction'
  BY <1>8, <1>9 DEF FlagShowsFunction
<1>12. StateFits'
  <2>1. state \in {NOT_STARTED, STARTING} => word'[Ready] # LOCKED
    <3> SUFFICES ASSUME state \in {NOT_STARTED, STARTING}, addr[t] = Ready PROVE FALSE
      BY <1>1, <1>4 DEF StateFits
    <3>1. call[t] = "start"
      BY <1>1
    <3>2. ~Starting(t)
      BY <1>1, <3>1 DEF Starting
    <3> QED BY <3>1, <3>2, MethodFacts DEF InMethod
  <2> QED BY <1>2, <1>4, <1>8, <1>9, <2>1 DEF StateFits
<1>13. CallersFindState'
  BY <1>1, <1>2, <1>4, <1>8, <1>9 DEF CallersFindState, FindsState
<1>14. ExitingFits'
  <2>1. addr[t] = Exiting => Decided \/ call[Runner] = "exit"
    BY <1>1 DEF Decided, Succeeds, CallsFit, CallFits
  <2> QED BY <1>1, <1>2, <1>4, <1>9, <2>1 DEF ExitingFits
<1>15. RefsAddUp'
  BY <1>1, <1>2, <1>4, <1>8 DEF RefsAddUp, RunnerRefs
<1>16. ReapedWhenDone'
  BY <1>2, <1>8, <1>9 DEF ReapedWhenDone
<1> QED BY <1>5, <1>6, <1>7, <1>10, <1>11, <1>12, <1>13, <1>14, <1>15, <1>16

(* A thread's turn: the flag was free, so nothing is decided, and whoever  *)
(* is in a method has a reference.                                         *)
LEMMA OnceStartKeeps ==
    ASSUME Inv, NEW t \in Threads, OnceStart(t), UNCHANGED handleVars
    PROVE  Inv'
<1> USE DEF Inv, HandleInv, HandleTypes
<1>1. /\ pc[t] = "once" /\ addr[t] = Once /\ v[t] = UNLOCKED
      /\ addr \in [Threads -> Addrs] /\ Once \in Addrs /\ Once \notin Events
      /\ Runner \in Threads /\ Ready \in Events /\ Exiting \in Events
      /\ Exiting # Once /\ Ready # Once
      /\ call[t] \in Joins \cup {"setDone", "force"}
  BY WhereItIs, HandleAddrs DEF OnceStart, ParkInv, ParkTypeOK
<1>2. UNCHANGED <<parkVars, addr, handleVars>>
  BY DEF OnceStart, parkVars
<1>3. CASE word[addr[t]] # v[t] /\ Load(t) /\ UNCHANGED <<word, pc>>
  <2>1. /\ pc' = [pc EXCEPT ![t] = "once"]
        /\ v' = [v EXCEPT ![t] = word[Once]]
        /\ word[Once] \in Words
    BY <1>1, <1>3 DEF Load
  <2>2. ParkInv'
    BY <1>1, <1>2, <1>3, <2>1, OneOutside DEF parkVars, parkRest
  <2>3. CallFits(t)'
    BY <1>1, <1>2, <1>3 DEF CallFits, CallsFit, handleVars
  <2>4. "once" \in LibraryPCs /\ pc[t] \in LibraryPCs
    BY <1>1 DEF LibraryPCs
  <2>5. WordsAlike
    BY <1>3 DEF WordsAlike, EventsAreBytes, FlagLocked
  <2>6. word[Once] = ONCE_INITIALIZED => state = DONE
    BY DEF StateFits
  <2>7. HandleInv'
    BY <1>1, <1>2, <1>3, <2>1, <2>3, <2>4, <2>5, <2>6, LibraryKeeps
  <2> QED BY <2>2, <2>7
<1>4. CASE word[addr[t]] = v[t] /\ Store(t, LOCKED) /\ Goto(t, "run") /\ UNCHANGED v
  <2> USE DEF handleVars
  <2>1. /\ word[Once] = UNLOCKED
        /\ word' = [word EXCEPT ![Once] = LOCKED]
        /\ pc' = [pc EXCEPT ![t] = "run"]
        /\ UNCHANGED v
    BY <1>1, <1>4 DEF Store, Goto
  <2>2. /\ pc'[t] = "run"
        /\ \A u \in Threads \ {t} : pc'[u] = pc[u]
        /\ word'[Once] = LOCKED
        /\ \A a \in Addrs \ {Once} : word'[a] = word[a]
        /\ \A e \in Events : word'[e] = word[e]
    BY <1>1, <2>1, EventsType
  <2>3. ParkInv'
    <3>1. \A m \in Addrs : word[m] = ParkedMark(m) => word'[m] = ParkedMark(m)
      BY <1>1, <2>1, <2>2 DEF ParkedMark, UNLOCKED, LOCKED, HAS_PARKED
    <3> QED BY <1>1, <1>2, <2>1, <3>1, OneOutside DEF parkVars, parkRest
  <2>4. \A u \in Threads : ~InFunction(u) /\ ~Succeeds(u)
    BY <2>1, MethodFacts DEF FlagShowsFunction, FlagLocked, UNLOCKED, LOCKED, HAS_PARKED
  <2>5. /\ InFunction(t)'
        /\ \A u \in Threads : InFunction(u)' => u = t
        /\ \A u \in Threads : ~Succeeds(u)'
    <3>1. \A u \in Threads \ {t} : ~InFunction(u)' /\ ~Succeeds(u)'
      BY <1>2, <2>2, <2>4 DEF InFunction, Succeeds
    <3>2. ~Succeeds(t)'
      BY <1>1, <1>2, <2>2 DEF Succeeds
    <3> QED BY <2>2, <3>1, <3>2 DEF InFunction
  <2>6. ~Decided /\ ~Decided'
    BY <2>1, <2>2, <2>4, <2>5 DEF Decided, UNLOCKED, LOCKED, ONCE_INITIALIZED
  <2>7. Born' <=> Born
    BY <1>1, <2>2 DEF Born
  <2>8. state = IF call[t] = "force" THEN STARTING ELSE RUNNING
    <3>1. InMethod(t) /\ refcount # 0 /\ state # NOT_STARTED
      BY <1>1, MethodFacts
    <3>2. state # DONE
      BY <2>6, <3>1 DEF StateFits
    <3>3. CASE call[t] = "force"
      BY <3>2, <3>3 DEF CallersFindState, FindsState
    <3>4. CASE call[t] # "force"
      <4>1. ~Starting(t)
        BY <1>1, <3>4 DEF Starting
      <4>2. state # STARTING
        BY <3>1, <4>1, MethodFacts
      <4> QED BY <3>1, <3>2, <3>4, <4>2
    <3> QED BY <3>3, <3>4
  <2>9. ~(t = Runner /\ call[t] \in Joins)
    BY <1>1, <2>6 DEF ExitingFits, Joins
  <2>10. HandleTypes' /\ EventsAreBytes'
    <3>1. word' \in [Addrs -> Words]
      BY <2>1 DEF Words
    <3>2. pc' \in [Threads -> PCs]
      BY <2>1 DEF PCs, EventPCs
    <3>3. EventsAreBytes'
      BY <2>2 DEF EventsAreBytes
    <3> QED BY <1>2, <2>1, <3>1, <3>2, <3>3
  <2>11. CallsFit'
    BY <1>1, <1>2, <2>2 DEF CallsFit, CallFits, OncePCs, Joins
  <2>12. LocalsFit'
    <3> SUFFICES ASSUME NEW u \in Threads
                 PROVE  /\ pc'[u] = "unlock" => v[u] \in {UNLOCKED, ONCE_INITIALIZED}
                        /\ pc'[u] = "waited" /\ v[u] = LOCKED => word'[addr[u]] = LOCKED
                        /\ v[u] = ONCE_INITIALIZED => state = DONE
      BY <1>2, <2>1 DEF LocalsFit, LocalFits
    <3> QED BY <1>1, <2>2 DEF LocalsFit, LocalFits
  <2>13. FlagShowsFunction'
    BY <2>2, <2>5 DEF FlagShowsFunction, FlagLocked
  <2>14. \A u \in Threads : (InMethod(u)' <=> InMethod(u)) /\ (Starting(u)' <=> Starting(u))
    BY <1>1, <1>2, <2>2, <2>7 DEF InMethod, Starting
  <2>15. StateFits'
    BY <1>1, <1>2, <2>2, <2>6, <2>7, <2>14 DEF StateFits, LOCKED, ONCE_INITIALIZED
  <2>16. CallersFindState'
    BY <1>1, <1>2, <2>2, <2>5, <2>7, <2>8 DEF CallersFindState, FindsState
  <2>17. ExitingFits'
    BY <1>1, <1>2, <2>2, <2>6, <2>9 DEF ExitingFits
  <2>18. RefsAddUp'
    BY <1>1, <1>2, <2>2, <2>14 DEF RefsAddUp, RunnerRefs
  <2>19. ReapedWhenDone'
    BY <1>2, <2>4, <2>5, <2>7 DEF ReapedWhenDone
  <2> QED BY <2>3, <2>10, <2>11, <2>12, <2>13, <2>15, <2>16, <2>17, <2>18, <2>19
<1> QED BY <1>3, <1>4 DEF OnceStart

(* The flag is given back, or it says for ever that the function is done.  *)
LEMMA UnlockOnceKeeps ==
    ASSUME Inv, NEW t \in Threads, UnlockOnce(t), UNCHANGED handleVars
    PROVE  Inv'
<1> USE DEF Inv, HandleInv, HandleTypes
<1>1. /\ pc[t] = "unlock" /\ addr[t] = Once
      /\ v[t] \in {UNLOCKED, ONCE_INITIALIZED}
      /\ addr \in [Threads -> Addrs] /\ Once \in Addrs /\ Once \notin Events
      /\ Runner \in Threads /\ Ready \in Events /\ Exiting \in Events
      /\ Exiting # Once /\ Ready # Once
      /\ call[t] \in Joins \cup {"setDone", "force"}
  BY WhereItIs, HandleAddrs DEF UnlockOnce, ParkInv, ParkTypeOK, LocalsFit, LocalFits
<1>2. /\ UNCHANGED <<parkVars, v, addr, handleVars>>
      /\ word' = [word EXCEPT ![Once] = v[t]]
  BY <1>1 DEF UnlockOnce, parkVars, Store
<1>3. PICK l \in {"onceDone", "unpark"} :
         /\ pc' = [pc EXCEPT ![t] = l]
         /\ word[Once] # LOCKED => l = "unpark"
  BY <1>1 DEF UnlockOnce, Goto
<1>4. /\ pc'[t] = l
      /\ \A u \in Threads \ {t} : pc'[u] = pc[u]
      /\ word'[Once] = v[t]
      /\ \A a \in Addrs \ {Once} : word'[a] = word[a]
      /\ \A e \in Events : word'[e] = word[e]
  BY <1>1, <1>2, <1>3, EventsType
<1>5. ParkInv'
  <2> DEFINE S == {t}
  <2>1. S \in SUBSET Threads
    OBVIOUS
  <2>2. /\ \A u \in Threads \ S : pc'[u] = pc[u] /\ addr'[u] = addr[u]
        /\ \A u \in S : /\ pc[u] \notin {"waitParked", "onceParked", "unpark"}
                        /\ pc'[u] \notin {"waitParked", "onceParked"}
    BY <1>1, <1>2, <1>4
  <2>3. \A m \in Addrs : word[m] = ParkedMark(m) =>
           \/ word'[m] = ParkedMark(m)
           \/ \E u \in S : addr'[u] = m /\ pc'[u] = "unpark"
    <3>1. word[Once] = ParkedMark(Once) => l = "unpark"
      BY <1>1, <1>3 DEF ParkedMark, LOCKED, HAS_PARKED
    <3> QED BY <1>1, <1>2, <1>4, <3>1
  <2> HIDE DEF S
  <2> QED BY <1>1, <1>2, <2>1, <2>2, <2>3, NotParking DEF parkVars, parkRest
<1> USE DEF handleVars
<1>6. /\ FlagLocked /\ InFunction(t)
      /\ \A u \in Threads : InFunction(u) => u = t
      /\ \A u \in Threads : Succeeds(u) => u = t
      /\ word[Once] # ONCE_INITIALIZED
  <2>1. InFunction(t)
    BY <1>1 DEF InFunction
  <2>2. FlagLocked /\ \A u \in Threads : InFunction(u) => u = t
    BY <2>1 DEF FlagShowsFunction
  <2>3. word[Once] # ONCE_INITIALIZED
    BY <2>2 DEF FlagLocked, LOCKED, HAS_PARKED, ONCE_INITIALIZED
  <2> QED BY <2>1, <2>2, <2>3, MethodFacts
<1>7. /\ Succeeds(t) <=> v[t] = ONCE_INITIALIZED
      /\ Succeeds(t) => state = DONE
      /\ Succeeds(t) /\ call[t] # "force" => Born
  <2>1. Succeeds(t) <=> v[t] = ONCE_INITIALIZED
    BY <1>1 DEF Succeeds
  <2> QED BY <2>1 DEF LocalsFit, LocalFits, CallersFindState, FindsState
<1>8. \A u \in Threads : ~InFunction(u)' /\ ~Succeeds(u)'
  <2>1. ~InFunction(t)'
    BY <1>1, <1>2, <1>4 DEF InFunction
  <2>2. ~Succeeds(t)'
    BY <1>1, <1>2, <1>4 DEF Succeeds
  <2>3. \A u \in Threads \ {t} : ~InFunction(u)' /\ ~Succeeds(u)'
    BY <1>2, <1>4, <1>6 DEF InFunction, Succeeds
  <2> QED BY <2>1, <2>2, <2>3
<1>9. Decided' <=> Decided
  BY <1>4, <1>6, <1>7, <1>8 DEF Decided
<1>10. Born' <=> Born
  BY <1>1, <1>4 DEF Born
<1>11. HandleTypes' /\ EventsAreBytes'
  <2>1. word' \in [Addrs -> Words]
    BY <1>1, <1>2 DEF Words
  <2>2. pc' \in [Threads -> PCs]
    BY <1>3 DEF PCs, EventPCs
  <2>3. EventsAreBytes'
    BY <1>4 DEF EventsAreBytes
  <2> QED BY <1>2, <2>1, <2>2, <2>3
<1>12. CallsFit'
  BY <1>1, <1>2, <1>4 DEF CallsFit, CallFits, OncePCs, Joins
<1>13. LocalsFit'
  <2> SUFFICES ASSUME NEW u \in Threads
               PROVE  /\ pc'[u] = "unlock" => v[u] \in {UNLOCKED, ONCE_INITIALIZED}
                      /\ pc'[u] = "waited" /\ v[u] = LOCKED => word'[addr[u]] = LOCKED
                      /\ v[u] = ONCE_INITIALIZED => state = DONE
    BY <1>2 DEF LocalsFit, LocalFits
  <2>1. pc[u] = "waited" => addr[u] \in Events
    BY <1>1, WhereItIs DEF WaitPCs
  <2> QED BY <1>4, <2>1 DEF LocalsFit, LocalFits
<1>14. FlagShowsFunction'
  BY <1>1, <1>4, <1>8 DEF FlagShowsFunction, FlagLocked, UNLOCKED, ONCE_INITIALIZED, LOCKED, HAS_PARKED
<1>15. \A u \in Threads : (InMethod(u)' <=> InMethod(u)) /\ (Starting(u)' <=> Starting(u))
  BY <1>1, <1>2, <1>4, <1>10 DEF InMethod, Starting
<1>16. StateFits'
  <2>1. word'[Once] = ONCE_INITIALIZED => state = DONE
    BY <1>4, <1>7
  <2> QED BY <1>1, <1>2, <1>4, <1>9, <1>10, <1>15, <2>1 DEF StateFits
<1>17. CallersFindState'
  BY <1>1, <1>2, <1>4, <1>8, <1>10 DEF CallersFindState, FindsState
<1>18. ExitingFits'
  BY <1>1, <1>2, <1>4, <1>9 DEF ExitingFits
<1>19. RefsAddUp'
  BY <1>1, <1>2, <1>4, <1>15 DEF RefsAddUp, RunnerRefs
<1>20. ReapedWhenDone'
  BY <1>2, <1>6, <1>7, <1>8, <1>10 DEF ReapedWhenDone
<1> QED BY <1>5, <1>11, <1>12, <1>13, <1>14, <1>16, <1>17, <1>18, <1>19, <1>20

-----------------------------------------------------------------------------
(* The steps of the handle that only its caller notices.                   *)

(* A step of a method that changes nothing but where its thread is.        *)
LEMMA MethodStep ==
    ASSUME Inv, NEW t \in Threads,
           NEW l \in PCs, NEW x \in Words, NEW a \in Addrs, NEW k \in Calls,
           pc' = [pc EXCEPT ![t] = l], v' = [v EXCEPT ![t] = x],
           addr' = [addr EXCEPT ![t] = a], call' = [call EXCEPT ![t] = k],
           UNCHANGED <<parkRest, word, state, refcount, object, reaped>>,
           pc[t] \notin {"waitParked", "onceParked", "unpark", "unborn", "gone"},
           l \notin {"waitParked", "onceParked", "unborn", "gone", "waited"},
           call[t] \notin {"boot", "exit"}, k \notin {"boot", "exit"},
           CallFits(t)',
           l = "unlock" => x \in {UNLOCKED, ONCE_INITIALIZED},
           x = ONCE_INITIALIZED => state = DONE,
           FindsState(t)',
           InFunction(t)' <=> InFunction(t),
           Succeeds(t)' <=> Succeeds(t),
           Succeeds(t) => (k = "force" <=> call[t] = "force"),
           InMethod(t)' => InMethod(t) \/ (object /\ state \in {RUNNING, DONE}),
           state = STARTING /\ Starting(t) => Starting(t)',
           t = Runner /\ k \in Joins => word[Exiting] = LOCKED /\ l # "run"
    PROVE  Inv'
<1> USE DEF Inv, HandleInv, HandleTypes
<1>1. /\ pc'[t] = l /\ v'[t] = x /\ addr'[t] = a /\ call'[t] = k
      /\ OnlyFor(t)
      /\ addr' \in [Threads -> Addrs]
  BY DEF ParkInv, ParkTypeOK, OnlyFor
<1>2. ParkInv'
  BY <1>1, OneOutside DEF OnlyFor, parkRest
<1>3. HandleTypes'
  OBVIOUS
<1>4. WordsAlike
  BY DEF WordsAlike, EventsAreBytes, FlagLocked
<1>5. /\ pc[Runner] = "unborn" <=> pc'[Runner] = "unborn"
      /\ pc[Runner] = "gone" <=> pc'[Runner] = "gone"
      /\ call[Runner] = "boot" <=> call'[Runner] = "boot"
      /\ call[Runner] = "exit" <=> call'[Runner] = "exit"
  BY <1>1, HandleAddrs DEF OnlyFor
<1>6. RunnerAlike
  BY <1>5 DEF RunnerAlike, Born
<1>7. LocalFits(t)'
  BY <1>1 DEF LocalFits
<1>8. /\ refcount' = RunnerRefs' + (IF object THEN 1 ELSE 0)
      /\ refcount' = 0 <=> refcount = 0
  BY <1>5 DEF RefsAddUp, RunnerRefs
<1>9. call'[Runner] \in Joins => word[Exiting] = LOCKED /\ pc'[Runner] # "run"
  <2>1. CASE t = Runner
    BY <1>1, <2>1
  <2>2. CASE t # Runner
    BY <1>1, <2>2, HandleAddrs DEF ExitingFits, OnlyFor
  <2> QED BY <2>1, <2>2
<1>10. Succeeds(t) => (call'[t] = "force" <=> call[t] = "force")
  BY <1>1
<1>11. UNCHANGED <<state, object, reaped>>
  OBVIOUS
<1>12. HandleInv'
  BY ONLY HandleInv, t \in Threads, CallFits(t)',
          FindsState(t)', InFunction(t)' <=> InFunction(t),
          Succeeds(t)' <=> Succeeds(t), <1>10,
          InMethod(t)' => InMethod(t) \/ (object /\ state \in {RUNNING, DONE}),
          state = STARTING /\ Starting(t) => Starting(t)',
          <1>8, <1>9, <1>1, <1>3, <1>4, <1>6, <1>7, <1>11, StepOfOne
<1> QED BY <1>2, <1>12

(* Where a thread is of which a step of the handle begins.                 *)
LEMMA CallerFacts ==
    ASSUME Inv, NEW t \in Threads
    PROVE  /\ addr[t] \in Addrs /\ v[t] \in Words /\ call[t] \in Calls /\ pc[t] \in PCs
           /\ addr' = addr => addr' = [addr EXCEPT ![t] = addr[t]]
           /\ v' = v => v' = [v EXCEPT ![t] = v[t]]
           /\ call' = call => call' = [call EXCEPT ![t] = call[t]]
           /\ pc' = pc => pc' = [pc EXCEPT ![t] = pc[t]]
           /\ \A l : pc' = [pc EXCEPT ![t] = l] => pc'[t] = l
           /\ \A x : v' = [v EXCEPT ![t] = x] => v'[t] = x
           /\ \A a : addr' = [addr EXCEPT ![t] = a] => addr'[t] = a
           /\ \A k : call' = [call EXCEPT ![t] = k] => call'[t] = k
           /\ Ready \in Addrs /\ Exiting \in Addrs /\ Once \in Addrs
           /\ UNLOCKED \in Words /\ word[Once] \in Words
           /\ Exiting # Once /\ Ready # Once /\ Ready # Exiting
           /\ word[Once] = ONCE_INITIALIZED => state = DONE
           /\ v[t] = ONCE_INITIALIZED => state = DONE
           /\ CallFits(t) /\ FindsState(t)
<1> USE DEF Inv, HandleInv, HandleTypes
<1>1. /\ addr \in [Threads -> Addrs] /\ v \in [Threads -> Words]
      /\ call \in [Threads -> Calls] /\ pc \in [Threads -> PCs]
  BY DEF ParkInv, ParkTypeOK
<1>2. /\ addr' = addr => addr' = [addr EXCEPT ![t] = addr[t]]
      /\ v' = v => v' = [v EXCEPT ![t] = v[t]]
      /\ call' = call => call' = [call EXCEPT ![t] = call[t]]
      /\ pc' = pc => pc' = [pc EXCEPT ![t] = pc[t]]
  BY <1>1
<1>3. /\ \A l : pc' = [pc EXCEPT ![t] = l] => pc'[t] = l
      /\ \A x : v' = [v EXCEPT ![t] = x] => v'[t] = x
      /\ \A a : addr' = [addr EXCEPT ![t] = a] => addr'[t] = a
      /\ \A k : call' = [call EXCEPT ![t] = k] => call'[t] = k
  BY <1>1
<1>4. /\ Ready \in Addrs /\ Exiting \in Addrs /\ Once \in Addrs
      /\ Exiting # Once /\ Ready # Once /\ Ready # Exiting
  BY HandleAddrs
<1>5. UNLOCKED \in Words /\ word[Once] \in Words
  BY <1>4 DEF Words
<1>6. /\ word[Once] = ONCE_INITIALIZED => state = DONE
      /\ v[t] = ONCE_INITIALIZED => state = DONE
      /\ CallFits(t) /\ FindsState(t)
  BY DEF StateFits, LocalsFit, LocalFits, CallsFit, CallersFindState
<1> QED BY <1>1, <1>2, <1>3, <1>4, <1>5, <1>6

LEMMA CreateFailsKeeps ==
    ASSUME Inv, NEW t \in Threads, CreateFails(t)
    PROVE  Inv'
<1>1. /\ pc[t] = "create"
      /\ pc' = [pc EXCEPT ![t] = "once"]
      /\ v' = [v EXCEPT ![t] = word[Once]]
      /\ addr' = [addr EXCEPT ![t] = Once]
      /\ call' = [call EXCEPT ![t] = "force"]
      /\ UNCHANGED <<parkRest, word, state, refcount, object, reaped>>
  BY DEF CreateFails, BeginOnce, About, Goto
<1>2. pc'[t] = "once" /\ v'[t] = word[Once] /\ addr'[t] = Once /\ call'[t] = "force"
  BY <1>1, CallerFacts
<1>3. call[t] = "start" /\ InMethod(t)
  BY <1>1, MethodFacts DEF Inv
<1>4. t # Runner /\ state = STARTING
  BY <1>1, <1>3, CallerFacts DEF CallFits, FindsState
<1>5. Starting(t) /\ ~Born
  BY <1>1, <1>3, <1>4, MethodFacts DEF Inv, Starting
<1>6. ~Born'
  BY <1>1, <1>4, <1>5, HandleAddrs DEF Born, Inv, HandleInv, HandleTypes
<1>7. CallFits(t)'
  BY <1>2, <1>4 DEF CallFits, OncePCs, Joins
<1>8. /\ ~InFunction(t) /\ ~InFunction(t)' /\ ~Succeeds(t) /\ ~Succeeds(t)'
      /\ Starting(t)'
  BY <1>1, <1>2, <1>3, <1>6, CallerFacts DEF InFunction, Succeeds, Starting
<1>9. FindsState(t)'
  BY <1>1, <1>2, <1>4, <1>6, <1>8 DEF FindsState
<1>10. "once" \in PCs /\ "force" \in Calls
  BY DEF PCs, EventPCs, Calls
<1>11. /\ Once \in Addrs /\ word[Once] \in Words
       /\ word[Once] = ONCE_INITIALIZED => state = DONE
       /\ InMethod(t)' => InMethod(t)
       /\ Succeeds(t) => ("force" = "force" <=> call[t] = "force")
       /\ state = STARTING /\ Starting(t) => Starting(t)'
  BY <1>3, <1>8, CallerFacts
<1> QED BY ONLY Inv, t \in Threads, <1>1, <1>3, <1>4, <1>7, <1>8, <1>9, <1>10, <1>11, MethodStep

LEMMA StartedKeeps ==
    ASSUME Inv, NEW t \in Threads, Started(t)
    PROVE  Inv'
<1>1. /\ pc[t] = "notified" /\ call[t] = "start"
      /\ pc' = [pc EXCEPT ![t] = Home(t)]
      /\ v' = [v EXCEPT ![t] = UNLOCKED]
      /\ call' = [call EXCEPT ![t] = "none"]
      /\ UNCHANGED <<parkVars, word, state, refcount, object, reaped>>
  BY DEF Started, Return, Goto
<1>2. t # Runner /\ Home(t) = "idle"
  BY <1>1, CallerFacts DEF CallFits, Home
<1>3. pc'[t] = "idle" /\ v'[t] = UNLOCKED /\ addr' = addr /\ call'[t] = "none"
  BY <1>1, <1>2, CallerFacts DEF parkVars
<1>4. CallFits(t)'
  BY <1>2, <1>3 DEF CallFits, Joins
<1>5. /\ ~InFunction(t) /\ ~InFunction(t)' /\ ~Succeeds(t) /\ ~Succeeds(t)'
      /\ ~Starting(t) /\ ~InMethod(t)'
  BY <1>1, <1>3 DEF InFunction, Succeeds, Starting, InMethod
<1>6. FindsState(t)'
  BY <1>3, <1>5 DEF FindsState
<1>7. Home(t) \in PCs /\ "none" \in Calls
  BY DEF PCs, Home, Calls
<1>8. UNLOCKED # ONCE_INITIALIZED /\ "none" \notin Joins
  BY DEF UNLOCKED, ONCE_INITIALIZED, Joins
<1>9. /\ UNLOCKED \in Words /\ addr[t] \in Addrs
      /\ addr' = [addr EXCEPT ![t] = addr[t]]
      /\ UNCHANGED parkRest
  BY <1>1, <1>3, CallerFacts DEF parkVars, parkRest
<1> QED BY ONLY Inv, t \in Threads, <1>1, <1>2, <1>4, <1>5, <1>6, <1>7, <1>8, <1>9, MethodStep

(* A method returns that is neither in the function nor starts the thread. *)
LEMMA ReturnKeeps ==
    ASSUME Inv, NEW t \in Threads, Return(t), pc[t] \in {"waited", "onceDone"},
           call[t] \in Joins \cup {"setDone", "force"},
           pc[t] = "onceDone" => addr[t] = Once,
           pc[t] = "waited" => call[t] \in Joins
    PROVE  Inv'
<1>1. /\ pc' = [pc EXCEPT ![t] = Home(t)]
      /\ v' = [v EXCEPT ![t] = UNLOCKED]
      /\ call' = [call EXCEPT ![t] = "none"]
      /\ UNCHANGED <<parkVars, word, state, refcount, object, reaped>>
  BY DEF Return, Goto
<1>2. /\ pc'[t] = Home(t) /\ v'[t] = UNLOCKED /\ addr'[t] = addr[t] /\ call'[t] = "none"
      /\ Home(t) = IF t = Runner THEN "body" ELSE "idle"
  <2>1. pc'[t] = Home(t) /\ v'[t] = UNLOCKED /\ call'[t] = "none"
    BY <1>1, CallerFacts
  <2>2. addr'[t] = addr[t]
    BY <1>1 DEF parkVars
  <2> QED BY <2>1, <2>2 DEF Home
<1>3. CallFits(t)'
  BY <1>2 DEF CallFits, Joins
<1>4. /\ ~InFunction(t) /\ ~InFunction(t)' /\ ~Succeeds(t) /\ ~Succeeds(t)'
      /\ ~InMethod(t)'
  <2>1. addr[t] = Exiting => call[t] \notin {"setDone", "force"}
    BY HandleAddrs DEF Joins
  <2> QED BY <1>2, <2>1 DEF InFunction, Succeeds, InMethod
<1>5. state # STARTING \/ ~Starting(t)
  BY CallerFacts DEF Starting, FindsState, Joins, STARTING, DONE
<1>6. FindsState(t)'
  BY <1>2, <1>4 DEF FindsState
<1>7. Home(t) \in PCs /\ "none" \in Calls
  BY DEF PCs, Home, Calls
<1>8. UNLOCKED # ONCE_INITIALIZED /\ "none" \notin Joins
  BY DEF UNLOCKED, ONCE_INITIALIZED, Joins
<1>9. /\ UNLOCKED \in Words /\ addr[t] \in Addrs
      /\ addr' = [addr EXCEPT ![t] = addr[t]]
      /\ UNCHANGED parkRest
      /\ call[t] \notin {"boot", "exit"}
      /\ pc[t] \notin {"waitParked", "onceParked", "unpark", "unborn", "gone"}
      /\ Home(t) \notin {"waitParked", "onceParked", "unborn", "gone", "waited", "unlock"}
  BY <1>1, <1>2, CallerFacts DEF parkVars, parkRest, Joins
<1> QED BY ONLY Inv, t \in Threads, <1>1, <1>3, <1>4, <1>5, <1>6, <1>7, <1>8, <1>9, MethodStep

(* A method begins to wait for the end of the thread, or waits again.      *)
LEMMA BeginWaitKeeps ==
    ASSUME Inv, NEW t \in Threads, NEW k \in Joins, BeginWait(t, Exiting),
           call' = [call EXCEPT ![t] = k],
           UNCHANGED <<state, refcount, object, reaped>>,
           \/ /\ MayCall(t) /\ state \in {RUNNING, DONE}
              /\ word[Exiting] = LOCKED \/ t # Runner
           \/ pc[t] = "waited" /\ call[t] \in Joins
    PROVE  Inv'
<1>1. /\ pc' = [pc EXCEPT ![t] = "wait"]
      /\ v' = [v EXCEPT ![t] = UNLOCKED]
      /\ addr' = [addr EXCEPT ![t] = Exiting]
      /\ UNCHANGED <<parkRest, word>>
  BY DEF BeginWait, Begin, About, Goto
<1>2. pc'[t] = "wait" /\ v'[t] = UNLOCKED /\ addr'[t] = Exiting /\ call'[t] = k
  BY <1>1, CallerFacts
<1>3. /\ pc[t] \in {"idle", "body", "waited"}
      /\ call[t] \in Joins \cup {"none"}
      /\ InMethod(t) \/ (object /\ state \in {RUNNING, DONE})
      /\ t = Runner => word[Exiting] = LOCKED
  <2>1. CASE /\ MayCall(t) /\ state \in {RUNNING, DONE}
             /\ word[Exiting] = LOCKED \/ t # Runner
    <3>1. pc[t] \in {"idle", "body"}
      BY <2>1 DEF MayCall, Home
    <3>2. call[t] = "none"
      BY <3>1, CallerFacts DEF CallFits, Calls, Joins, WaitPCs, NotifyPCs, OncePCs
    <3> QED BY <2>1, <3>1, <3>2 DEF MayCall
  <2>2. CASE pc[t] = "waited" /\ call[t] \in Joins
    <3>1. InMethod(t)
      BY <2>2 DEF InMethod, Joins
    <3>2. t = Runner => word[Exiting] = LOCKED
      BY <2>2 DEF Inv, HandleInv, ExitingFits
    <3> QED BY <2>2, <3>1, <3>2
  <2> QED BY <2>1, <2>2
<1>4. CallFits(t)'
  BY <1>2 DEF CallFits, Joins, WaitPCs
<1>5. /\ ~InFunction(t) /\ ~InFunction(t)' /\ ~Succeeds(t) /\ ~Succeeds(t)'
      /\ ~Starting(t)
  BY <1>2, <1>3 DEF InFunction, Succeeds, Starting, Joins
<1>6. FindsState(t)'
  BY <1>2, <1>5 DEF FindsState, Joins
<1>7. "wait" \in PCs /\ k \in Calls /\ k \notin {"boot", "exit"} /\ call[t] \notin {"boot", "exit"}
  BY <1>3 DEF PCs, EventPCs, Calls, Joins
<1>8. UNLOCKED \in Words /\ Exiting \in Addrs
  BY CallerFacts
<1>9. UNLOCKED # ONCE_INITIALIZED
  BY DEF UNLOCKED, ONCE_INITIALIZED
<1> QED BY ONLY Inv, t \in Threads, call' = [call EXCEPT ![t] = k],
                UNCHANGED <<state, refcount, object, reaped>>,
                <1>1, <1>3, <1>4, <1>5, <1>6, <1>7, <1>8, <1>9, MethodStep

(* A method calls the once flag.                                           *)
LEMMA BeginOnceKeeps ==
    ASSUME Inv, NEW t \in Threads, NEW k \in Joins \cup {"setDone"}, BeginOnce(t),
           call' = [call EXCEPT ![t] = k],
           UNCHANGED <<state, refcount, object, reaped>>,
           \/ MayCall(t) /\ state \in {RUNNING, DONE} /\ k = "setDone"
           \/ pc[t] = "waited" /\ call[t] = k /\ k \in Joins
    PROVE  Inv'
<1>1. /\ pc' = [pc EXCEPT ![t] = "once"]
      /\ v' = [v EXCEPT ![t] = word[Once]]
      /\ addr' = [addr EXCEPT ![t] = Once]
      /\ UNCHANGED <<parkRest, word>>
  BY DEF BeginOnce, About, Goto
<1>2. pc'[t] = "once" /\ v'[t] = word[Once] /\ addr'[t] = Once /\ call'[t] = k
  BY <1>1, CallerFacts
<1>3. /\ pc[t] \in {"idle", "body", "waited"}
      /\ call[t] \in Joins \cup {"none"}
      /\ InMethod(t) \/ (object /\ state \in {RUNNING, DONE})
      /\ t = Runner /\ k \in Joins => word[Exiting] = LOCKED
  <2>1. CASE MayCall(t) /\ state \in {RUNNING, DONE} /\ k = "setDone"
    <3>1. pc[t] \in {"idle", "body"}
      BY <2>1 DEF MayCall, Home
    <3>2. call[t] = "none"
      BY <3>1, CallerFacts DEF CallFits, Calls, Joins, WaitPCs, NotifyPCs, OncePCs
    <3> QED BY <2>1, <3>1, <3>2 DEF MayCall, Joins
  <2>2. CASE pc[t] = "waited" /\ call[t] = k /\ k \in Joins
    <3>1. InMethod(t)
      BY <2>2 DEF InMethod, Joins
    <3>2. t = Runner => word[Exiting] = LOCKED
      BY <2>2 DEF Inv, HandleInv, ExitingFits
    <3> QED BY <2>2, <3>1, <3>2
  <2> QED BY <2>1, <2>2
<1>4. CallFits(t)'
  BY <1>2 DEF CallFits, Joins, OncePCs
<1>5. /\ ~InFunction(t) /\ ~InFunction(t)' /\ ~Succeeds(t) /\ ~Succeeds(t)'
      /\ ~Starting(t)
  BY <1>2, <1>3, CallerFacts DEF InFunction, Succeeds, Starting, Joins
<1>6. FindsState(t)'
  BY <1>2, <1>5 DEF FindsState, Joins
<1>7. "once" \in PCs /\ k \in Calls /\ k \notin {"boot", "exit"} /\ call[t] \notin {"boot", "exit"}
  BY <1>3 DEF PCs, EventPCs, Calls, Joins
<1>8. /\ word[Once] = ONCE_INITIALIZED => state = DONE
      /\ word[Once] \in Words /\ Once \in Addrs
  BY CallerFacts
<1> QED BY ONLY Inv, t \in Threads, call' = [call EXCEPT ![t] = k],
                UNCHANGED <<state, refcount, object, reaped>>,
                <1>1, <1>3, <1>4, <1>5, <1>6, <1>7, <1>8, MethodStep

LEMMA JoinCallKeeps ==
    ASSUME Inv, NEW t \in Threads, JoinCall(t)
    PROVE  Inv'
BY BeginWaitKeeps DEF JoinCall, Joins

LEMMA JoinWaitsKeeps ==
    ASSUME Inv, NEW t \in Threads, JoinWaits(t)
    PROVE  Inv'
<1>1. CASE Return(t)
  BY <1>1, ReturnKeeps DEF JoinWaits, Joins
<1>2. CASE BeginWait(t, Exiting) /\ UNCHANGED handleVars
  <2>1. call' = [call EXCEPT ![t] = call[t]]
    BY <1>2, CallerFacts DEF handleVars
  <2> QED BY <1>2, <2>1, BeginWaitKeeps DEF JoinWaits, Joins, handleVars
<1> QED BY <1>1, <1>2 DEF JoinWaits

LEMMA JoinGoesOnKeeps ==
    ASSUME Inv, NEW t \in Threads, JoinGoesOn(t)
    PROVE  Inv'
<1>1. call' = [call EXCEPT ![t] = call[t]]
  BY CallerFacts DEF JoinGoesOn, handleVars
<1> QED BY <1>1, BeginOnceKeeps DEF JoinGoesOn, Joins, handleVars

LEMMA SetDoneCallKeeps ==
    ASSUME Inv, NEW t \in Threads, SetDoneCall(t)
    PROVE  Inv'
BY BeginOnceKeeps DEF SetDoneCall

LEMMA OnceDoneKeeps ==
    ASSUME Inv, NEW t \in Threads, OnceDone(t)
    PROVE  Inv'
<1>1. pc[t] = "onceDone" /\ Return(t)
  BY DEF OnceDone
<1>2. addr[t] = Once /\ call[t] \in Joins \cup {"setDone", "force"}
  BY <1>1, WhereItIs DEF Inv
<1> QED BY <1>1, <1>2, ReturnKeeps

LEMMA FunctionFailsKeeps ==
    ASSUME Inv, NEW t \in Threads, FunctionFails(t)
    PROVE  Inv'
<1>1. /\ pc[t] = "run" /\ call[t] \in Joins \cup {"setDone"}
      /\ pc' = [pc EXCEPT ![t] = "unlock"]
      /\ v' = [v EXCEPT ![t] = UNLOCKED]
      /\ UNCHANGED <<parkVars, parkRest, addr, word, handleVars>>
  BY DEF FunctionFails, Goto, Joins, parkVars, parkRest
<1>2. /\ pc'[t] = "unlock" /\ v'[t] = UNLOCKED /\ addr'[t] = Once /\ call'[t] = call[t]
      /\ addr[t] = Once
  BY <1>1, CallerFacts, WhereItIs DEF Inv, handleVars
<1>3. CallFits(t)'
  BY <1>1, <1>2 DEF CallFits, Joins, OncePCs
<1>4. /\ InFunction(t) /\ InFunction(t)' /\ ~Succeeds(t) /\ ~Succeeds(t)'
      /\ ~Starting(t)
  <2>1. UNLOCKED # ONCE_INITIALIZED /\ Once # Exiting
    BY HandleAddrs DEF UNLOCKED, ONCE_INITIALIZED
  <2> QED BY <1>1, <1>2, <2>1 DEF InFunction, Succeeds, Starting, Joins
<1>5. FindsState(t)'
  BY <1>1, <1>2, <1>4 DEF FindsState, Joins
<1>6. InMethod(t)
  BY <1>1 DEF InMethod, Joins
<1>7. /\ "unlock" \in PCs /\ call[t] \in Calls /\ call[t] \notin {"boot", "exit"}
      /\ addr[t] \in Addrs /\ UNLOCKED \in Words
      /\ call' = [call EXCEPT ![t] = call[t]] /\ addr' = [addr EXCEPT ![t] = addr[t]]
      /\ UNCHANGED <<state, refcount, object, reaped>>
  BY <1>1, CallerFacts DEF PCs, EventPCs, handleVars, Joins
<1>8. t = Runner /\ call[t] \in Joins => word[Exiting] = LOCKED
  BY DEF Inv, HandleInv, ExitingFits
<1>9. UNLOCKED # ONCE_INITIALIZED
  BY DEF UNLOCKED, ONCE_INITIALIZED
<1> QED BY ONLY Inv, t \in Threads, <1>1, <1>3, <1>4, <1>5, <1>6, <1>7, <1>8, <1>9, MethodStep

LEMMA EventIsSetKeeps ==
    ASSUME Inv, NEW t \in Threads, EventIsSet(t)
    PROVE  Inv'
<1>1. /\ pc[t] = "notified" /\ call[t] \in {"setDone", "force"}
      /\ pc' = [pc EXCEPT ![t] = "finish"]
      /\ UNCHANGED <<parkVars, parkRest, addr, v, word, handleVars>>
  BY DEF EventIsSet, Goto, parkVars, parkRest
<1>2. /\ pc'[t] = "finish" /\ v'[t] = v[t] /\ addr'[t] = Exiting /\ call'[t] = call[t]
      /\ addr[t] = Exiting
  BY <1>1, CallerFacts, WhereItIs DEF Inv, handleVars
<1>3. CallFits(t)'
  BY <1>1, <1>2, CallerFacts DEF CallFits, Joins
<1>4. /\ InFunction(t) /\ InFunction(t)' /\ Succeeds(t) /\ Succeeds(t)'
      /\ Starting(t) => call[t] = "force" /\ ~Born
  BY <1>1, <1>2 DEF InFunction, Succeeds, Starting
<1>5. Born' <=> Born
  BY <1>1, HandleAddrs DEF Born, Inv, HandleInv, HandleTypes
<1>6. Starting(t) => Starting(t)'
  BY <1>2, <1>4, <1>5 DEF Starting
<1>7. FindsState(t)'
  BY <1>1, <1>2, <1>4, <1>5, CallerFacts DEF FindsState, handleVars
<1>8. InMethod(t)
  BY <1>1 DEF InMethod
<1>9. /\ "finish" \in PCs /\ call[t] \in Calls /\ call[t] \notin {"boot", "exit"} \cup Joins
      /\ addr[t] \in Addrs /\ v[t] \in Words
      /\ v[t] = ONCE_INITIALIZED => state = DONE
      /\ call' = [call EXCEPT ![t] = call[t]] /\ addr' = [addr EXCEPT ![t] = addr[t]]
      /\ v' = [v EXCEPT ![t] = v[t]]
      /\ UNCHANGED <<state, refcount, object, reaped>>
  BY <1>1, CallerFacts DEF PCs, handleVars, Joins
<1> QED BY ONLY Inv, t \in Threads, <1>1, <1>3, <1>4, <1>6, <1>7, <1>8, <1>9, MethodStep

-----------------------------------------------------------------------------
(* The thread of the handle.                                               *)

(* A step of the thread that takes or returns references of its own.       *)
LEMMA RunnerStep ==
    ASSUME Inv, NEW l \in {"wait", "body", "notify"}, NEW a \in Events,
           NEW k \in {"none", "boot", "exit"},
           pc[Runner] \notin {"waitParked", "onceParked", "unpark", "unborn", "gone", "finish",
                              "run", "unlock", "create", "started"},
           call[Runner] \in {"none", "boot"},
           pc' = [pc EXCEPT ![Runner] = l], v' = [v EXCEPT ![Runner] = UNLOCKED],
           addr' = [addr EXCEPT ![Runner] = a], call' = [call EXCEPT ![Runner] = k],
           UNCHANGED <<parkRest, word, state, object, reaped>>,
           \/ l = "wait" /\ k = "boot" /\ a = Ready /\ call[Runner] = "boot"
                /\ refcount' = refcount
           \/ l = "body" /\ k = "none" /\ call[Runner] = "boot" /\ word[Ready] = LOCKED
                /\ refcount' = refcount + 1
           \/ l = "notify" /\ k = "exit" /\ a = Exiting /\ call[Runner] = "none"
                /\ refcount' = refcount - 1
    PROVE  Inv'
<1> USE DEF Inv, HandleInv, HandleTypes
<1> DEFINE t == Runner
<1>0. t \in Threads
  BY HandleAddrs
<1>1. /\ pc'[t] = l /\ v'[t] = UNLOCKED /\ addr'[t] = a /\ call'[t] = k
      /\ OnlyFor(t)
      /\ addr' \in [Threads -> Addrs]
  BY <1>0, EventsType DEF ParkInv, ParkTypeOK, OnlyFor
<1>2. ParkInv'
  BY <1>0, <1>1, OneOutside DEF OnlyFor, parkRest
<1>3. HandleTypes'
  <2>1. l \in PCs /\ k \in Calls /\ UNLOCKED \in Words
    BY DEF PCs, EventPCs, Calls, Words
  <2> QED BY <2>1
<1>4. WordsAlike
  BY DEF WordsAlike, EventsAreBytes, FlagLocked
<1>5. RunnerAlike
  <2>1. Born /\ Born'
    BY <1>1 DEF Born
  <2>2. state = STARTING => word[Ready] # LOCKED
    BY DEF StateFits
  <2>3. state = STARTING /\ call[t] = "boot" => call'[t] = "boot"
    BY <1>1, <2>2
  <2>4. call[t] # "exit" /\ pc[t] # "gone"
    OBVIOUS
  <2> QED BY <2>1, <2>3, <2>4 DEF RunnerAlike
<1>6. CallFits(t)'
  BY <1>1 DEF CallFits, Joins, WaitPCs, NotifyPCs
<1>7. LocalFits(t)'
  BY <1>1 DEF LocalFits, UNLOCKED, ONCE_INITIALIZED
<1>8. /\ ~InFunction(t) /\ ~InFunction(t)' /\ ~Succeeds(t) /\ ~Succeeds(t)'
      /\ ~Starting(t) /\ ~InMethod(t)'
  BY <1>1 DEF InFunction, Succeeds, Starting, InMethod
<1>9. FindsState(t)'
  BY <1>1, <1>8 DEF FindsState
<1>10. /\ refcount' = RunnerRefs' + (IF object THEN 1 ELSE 0)
       /\ refcount' = 0 <=> refcount = 0
  <2>1. refcount = (IF call[t] = "boot" THEN 1 ELSE 2) + (IF object THEN 1 ELSE 0)
    BY DEF RefsAddUp, RunnerRefs
  <2> QED BY <1>1, <2>1 DEF RunnerRefs
<1>11. call'[t] \notin Joins
  BY <1>1 DEF Joins
<1>12. UNCHANGED <<state, object, reaped>>
  OBVIOUS
<1>13. HandleInv'
  BY ONLY HandleInv, <1>0, <1>1, <1>3, <1>4, <1>5, <1>6, <1>7, <1>8, <1>9, <1>10, <1>11,
          <1>12, StepOfOne
<1> QED BY <1>2, <1>13

LEMMA BootedKeeps ==
    ASSUME Inv, NEW t \in Threads, Booted(t)
    PROVE  Inv'
<1>1. /\ t = Runner /\ pc[t] = "waited" /\ call[t] = "boot" /\ addr[t] = Ready
      /\ Ready \in Events
      /\ UNCHANGED <<state, object, reaped>>
  BY CallerFacts, HandleAddrs DEF Booted, CallFits
<1>2. CASE v[t] # LOCKED /\ BeginWait(t, Ready) /\ UNCHANGED <<call, refcount>>
  <2>1. call' = [call EXCEPT ![t] = "boot"]
    BY <1>1, <1>2, CallerFacts
  <2> QED BY <1>1, <1>2, <2>1, RunnerStep DEF BeginWait, Begin, About, Goto
<1>3. CASE /\ v[t] = LOCKED
           /\ refcount' = refcount + 1
           /\ Goto(t, "body")
           /\ v' = [v EXCEPT ![t] = UNLOCKED]
           /\ call' = [call EXCEPT ![t] = "none"]
           /\ UNCHANGED <<parkVars, word>>
  <2>1. word[Ready] = LOCKED
    BY <1>1, <1>3 DEF Inv, HandleInv, LocalsFit, LocalFits
  <2>2. addr' = [addr EXCEPT ![t] = Ready] /\ UNCHANGED parkRest
    BY <1>1, <1>3, CallerFacts DEF parkVars, parkRest
  <2>3. pc' = [pc EXCEPT ![t] = "body"]
    BY <1>3 DEF Goto
  <2> QED BY <1>1, <1>3, <2>1, <2>2, <2>3, RunnerStep
<1> QED BY <1>2, <1>3 DEF Booted

LEMMA BodyEndsKeeps ==
    ASSUME Inv, NEW t \in Threads, BodyEnds(t)
    PROVE  Inv'
<1>1. /\ pc[t] = "body"
      /\ pc' = [pc EXCEPT ![t] = "notify"]
      /\ v' = [v EXCEPT ![t] = UNLOCKED]
      /\ addr' = [addr EXCEPT ![t] = Exiting]
      /\ call' = [call EXCEPT ![t] = "exit"]
      /\ refcount' = refcount - 1
      /\ UNCHANGED <<parkRest, word, state, object, reaped>>
  BY DEF BodyEnds, BeginNotify, Begin, About, Goto
<1>2. t = Runner /\ call[t] = "none"
  BY <1>1, CallerFacts DEF CallFits, Calls, Joins, WaitPCs, NotifyPCs, OncePCs
<1>3. Exiting \in Events
  BY HandleAddrs
<1> QED BY <1>1, <1>2, <1>3, RunnerStep

-----------------------------------------------------------------------------
(* The function of the once flag.                                          *)

(* The function reaches the point from which it cannot fail.  The state is *)
(* what it asserts, and nothing was decided before.                        *)
LEMMA SuccessKeeps ==
    ASSUME Inv, NEW t \in Threads, pc[t] = "run",
           NEW l, NEW a, NEW x \in {v[t], UNLOCKED},
           \/ l = "finish" /\ a = Once /\ call[t] \in Joins
           \/ l = "notify" /\ a = Exiting /\ call[t] \in {"setDone", "force"},
           pc' = [pc EXCEPT ![t] = l], v' = [v EXCEPT ![t] = x],
           addr' = [addr EXCEPT ![t] = a],
           UNCHANGED <<parkRest, word, call, state, refcount, object>>,
           reaped' = IF call[t] = "force" THEN reaped ELSE reaped + 1
    PROVE  Inv'
<1> USE DEF Inv, HandleInv, HandleTypes
<1>1. /\ addr[t] = Once /\ call[t] \in Joins \cup {"setDone", "force"}
      /\ Once # Exiting /\ Once \in Addrs /\ Exiting \in Addrs
      /\ Runner \in Threads /\ Ready \in Events /\ Exiting \in Events
      /\ v[t] \in Words /\ UNLOCKED \in Words
  BY WhereItIs, HandleAddrs DEF Words
<1>2. /\ pc'[t] = l /\ v'[t] = x /\ addr'[t] = a
      /\ \A u \in Threads \ {t} : pc'[u] = pc[u] /\ v'[u] = v[u] /\ addr'[u] = addr[u]
      /\ addr' \in [Threads -> Addrs]
  BY <1>1 DEF ParkInv, ParkTypeOK
<1>3. ParkInv'
  BY <1>1, <1>2, OneOutside DEF parkRest
<1>4. HandleTypes' /\ EventsAreBytes'
  <2>1. l \in PCs /\ x \in Words
    BY <1>1 DEF PCs, EventPCs
  <2> QED BY <2>1 DEF EventsAreBytes
<1>5. /\ InFunction(t) /\ FlagLocked
      /\ \A u \in Threads : InFunction(u) => u = t
      /\ \A u \in Threads : ~Succeeds(u)
  <2>1. InFunction(t)
    BY DEF InFunction
  <2>2. FlagLocked /\ \A u \in Threads : InFunction(u) => u = t
    BY <2>1 DEF FlagShowsFunction
  <2>3. ~Succeeds(t)
    BY <1>1 DEF Succeeds
  <2> QED BY <2>1, <2>2, <2>3, MethodFacts
<1>6. /\ state = IF call[t] = "force" THEN STARTING ELSE RUNNING
      /\ call[t] = "force" => ~Born
      /\ call[t] # "force" => Born
  <2>1. state = IF call[t] = "force" THEN STARTING ELSE RUNNING
    BY DEF CallersFindState, FindsState
  <2>2. call[t] = "force" => ~Born
    BY DEF CallersFindState, FindsState
  <2> QED BY <2>1, <2>2 DEF StateFits
<1>7. Born' <=> Born
  BY <1>1, <1>2 DEF Born
<1>8. /\ InFunction(t)' /\ Succeeds(t)'
      /\ \A u \in Threads \ {t} : ~InFunction(u)' /\ ~Succeeds(u)'
  <2>1. Succeeds(t)' /\ InFunction(t)'
    BY <1>2 DEF Succeeds, InFunction
  <2>2. \A u \in Threads \ {t} : ~InFunction(u) /\ ~Succeeds(u)
    BY <1>5
  <2> QED BY <1>2, <2>1, <2>2 DEF InFunction, Succeeds
<1>9. Decided'
  BY <1>8 DEF Decided
<1>10. \A u \in Threads : (InMethod(u)' <=> InMethod(u)) /\ (Starting(u)' <=> Starting(u))
  BY <1>2, <1>7 DEF InMethod, Starting
<1>11. CallsFit'
  BY <1>2 DEF CallsFit, CallFits, Joins, NotifyPCs
<1>12. LocalsFit'
  BY <1>2 DEF LocalsFit, LocalFits, UNLOCKED, ONCE_INITIALIZED
<1>13. FlagShowsFunction'
  <2>1. FlagLocked'
    BY <1>5 DEF FlagLocked
  <2> QED BY <1>8, <2>1 DEF FlagShowsFunction
<1>14. StateFits'
  BY <1>7, <1>9, <1>10 DEF StateFits
<1>15. CallersFindState'
  <2>1. FindsState(t)'
    BY <1>2, <1>6, <1>7 DEF FindsState, STARTING
  <2>2. \A u \in Threads \ {t} : FindsState(u)'
    BY <1>2, <1>7, <1>8 DEF CallersFindState, FindsState
  <2> QED BY <2>1, <2>2 DEF CallersFindState
<1>16. ExitingFits'
  BY <1>1, <1>2, <1>9 DEF ExitingFits
<1>17. RefsAddUp'
  BY <1>1, <1>2, <1>10 DEF RefsAddUp, RunnerRefs
<1>18. ReapedWhenDone'
  BY <1>5, <1>6, <1>7, <1>8 DEF ReapedWhenDone, STARTING, RUNNING, DONE
<1> QED BY <1>3, <1>4, <1>11, <1>12, <1>13, <1>14, <1>15, <1>16, <1>17, <1>18

LEMMA JoinThreadKeeps ==
    ASSUME Inv, NEW t \in Threads, JoinThread(t)
    PROVE  Inv'
<1>1. addr[t] = Once
  BY WhereItIs DEF Inv, JoinThread
<1>2. /\ addr' = [addr EXCEPT ![t] = Once] /\ v' = [v EXCEPT ![t] = v[t]]
      /\ call[t] \in Joins /\ call[t] # "force"
      /\ UNCHANGED parkRest
  BY <1>1, CallerFacts DEF JoinThread, parkVars, parkRest, Joins
<1> QED BY <1>2, SuccessKeeps DEF JoinThread, Goto

LEMMA SetDoneKeeps ==
    ASSUME Inv, NEW t \in Threads, SetDone(t)
    PROVE  Inv'
BY SuccessKeeps DEF SetDone, BeginNotify, Begin, About, Goto

LEMMA ForceDoneKeeps ==
    ASSUME Inv, NEW t \in Threads, ForceDone(t)
    PROVE  Inv'
BY SuccessKeeps DEF ForceDone, BeginNotify, Begin, About, Goto, handleVars

(* The function is over.  The state it leaves is what the others in a      *)
(* method may find: none of them is in the function or starts the thread.  *)
LEMMA FinishKeeps ==
    ASSUME Inv, NEW t \in Threads, Finish(t)
    PROVE  Inv'
<1> USE DEF Inv, HandleInv, HandleTypes
<1>1. /\ pc[t] = "finish" /\ state' = DONE
      /\ pc' = [pc EXCEPT ![t] = "unlock"]
      /\ v' = [v EXCEPT ![t] = ONCE_INITIALIZED]
      /\ addr' = [addr EXCEPT ![t] = Once]
      /\ UNCHANGED <<parkRest, word, call, refcount, object, reaped>>
  BY DEF Finish, About, Goto
<1>2. /\ Once # Exiting /\ Once \in Addrs /\ Exiting \in Addrs
      /\ Runner \in Threads /\ Ready \in Events /\ Exiting \in Events
      /\ ONCE_INITIALIZED \in Words
  BY HandleAddrs DEF Words
<1>3. /\ pc'[t] = "unlock" /\ v'[t] = ONCE_INITIALIZED /\ addr'[t] = Once
      /\ \A u \in Threads \ {t} : pc'[u] = pc[u] /\ v'[u] = v[u] /\ addr'[u] = addr[u]
      /\ addr' \in [Threads -> Addrs]
  BY <1>1, <1>2 DEF ParkInv, ParkTypeOK
<1>4. ParkInv'
  BY <1>1, <1>2, <1>3, OneOutside DEF parkRest
<1>5. HandleTypes' /\ EventsAreBytes'
  <2>1. "unlock" \in PCs
    BY DEF PCs, EventPCs
  <2> QED BY <1>1, <1>2, <2>1 DEF EventsAreBytes
<1>6. /\ InFunction(t) /\ Succeeds(t) /\ FlagLocked
      /\ \A u \in Threads : InFunction(u) => u = t
      /\ \A u \in Threads : Succeeds(u) => u = t
      /\ call[t] \in Joins \cup {"setDone", "force"}
      /\ InMethod(t)
  <2>1. InFunction(t) /\ Succeeds(t)
    BY <1>1 DEF InFunction, Succeeds
  <2>2. FlagLocked /\ \A u \in Threads : InFunction(u) => u = t
    BY <2>1 DEF FlagShowsFunction
  <2> QED BY <2>1, <2>2, MethodFacts
<1>7. Born' <=> Born
  BY <1>1, <1>2, <1>3 DEF Born
<1>8. /\ InFunction(t)' /\ Succeeds(t)'
      /\ \A u \in Threads \ {t} : ~InFunction(u)' /\ ~Succeeds(u)'
  <2>1. Succeeds(t)' /\ InFunction(t)'
    BY <1>3 DEF Succeeds, InFunction
  <2>2. \A u \in Threads \ {t} : ~InFunction(u) /\ ~Succeeds(u)
    BY <1>6
  <2> QED BY <1>1, <1>3, <2>1, <2>2 DEF InFunction, Succeeds
<1>9. Decided'
  BY <1>8 DEF Decided
<1>10. \A u \in Threads : InMethod(u)' <=> InMethod(u)
  BY <1>1 DEF InMethod
<1>11. CallsFit'
  BY <1>1, <1>3, <1>6 DEF CallsFit, CallFits, Joins, OncePCs
<1>12. LocalsFit'
  <2> SUFFICES ASSUME NEW u \in Threads PROVE LocalFits(u)'
    BY DEF LocalsFit
  <2>1. CASE u = t
    BY <1>1, <1>3, <2>1 DEF LocalFits
  <2>2. CASE u # t
    BY <1>1, <1>3, <2>2 DEF LocalsFit, LocalFits
  <2> QED BY <2>1, <2>2
<1>13. FlagShowsFunction'
  <2>1. FlagLocked'
    BY <1>1, <1>6 DEF FlagLocked
  <2> QED BY <1>8, <2>1 DEF FlagShowsFunction
<1>14. StateFits'
  BY <1>1, <1>9 DEF StateFits, NOT_STARTED, STARTING, RUNNING, DONE
<1>15. CallersFindState'
  <2>1. FindsState(t)'
    BY <1>1, <1>3, <1>6, <1>7 DEF CallersFindState, FindsState
  <2>2. ASSUME NEW u \in Threads \ {t} PROVE FindsState(u)'
    <3>1. pc[u] \notin {"create", "started"}
      <4> SUFFICES ASSUME pc[u] \in {"create", "started"} PROVE FALSE
        OBVIOUS
      <4>1. InMethod(u) /\ state = STARTING
        BY MethodFacts DEF CallersFindState, FindsState
      <4> QED BY <1>6, <4>1, MethodFacts
    <3>2. pc[u] # "run"
      BY <1>6 DEF InFunction
    <3> QED BY <1>1, <1>3, <1>7, <1>8, <3>1, <3>2 DEF CallersFindState, FindsState
  <2> QED BY <2>1, <2>2 DEF CallersFindState
<1>16. ExitingFits'
  BY <1>1, <1>2, <1>3, <1>9 DEF ExitingFits
<1>17. RefsAddUp'
  BY <1>1, <1>2, <1>3, <1>10 DEF RefsAddUp, RunnerRefs
<1>18. ReapedWhenDone'
  <2>1. CASE call[t] = "force"
    <3>1. ~Born
      BY <2>1 DEF CallersFindState, FindsState
    <3> QED BY <1>1, <1>6, <1>7, <1>8, <2>1, <3>1 DEF ReapedWhenDone
  <2>2. CASE call[t] # "force"
    BY <1>1, <1>6, <1>8, <2>2 DEF ReapedWhenDone
  <2> QED BY <2>1, <2>2
<1> QED BY <1>4, <1>5, <1>11, <1>12, <1>13, <1>14, <1>15, <1>16, <1>17, <1>18

-----------------------------------------------------------------------------
(* A reference goes.                                                       *)

(* The last one goes while nobody is in a method, and takes care of a      *)
(* thread that runs or has run and that no function has taken care of.     *)
LEMMA DecrefFacts ==
    ASSUME HandleInv, Decref, state # STARTING,
           refcount = 1 => \A u \in Threads : ~InMethod(u)
    PROVE  /\ refcount # 1 => state' = state /\ reaped' = reaped
           /\ state' \in {NOT_STARTED, RUNNING, DONE}
           /\ state' = NOT_STARTED <=> state = NOT_STARTED
           /\ state' = RUNNING => state = RUNNING /\ refcount # 1
           /\ state = DONE => state' = DONE
           /\ \A u \in Threads : InMethod(u) => state' = state
           /\ reaped' = IF \/ state' = DONE /\ Born
                           \/ \E u \in Threads : Succeeds(u) /\ call[u] # "force"
                        THEN 1 ELSE 0
<1> USE DEF HandleInv, HandleTypes
<1>1. CASE refcount = 1 /\ state = RUNNING
  <2>1. state' = DONE /\ reaped' = reaped + 1
    BY <1>1 DEF Decref
  <2>2. \A u \in Threads : ~InMethod(u) /\ ~Succeeds(u)
    BY <1>1, MethodFacts DEF Joins
  <2>3. reaped = 0 /\ Born
    BY <1>1, <2>2 DEF ReapedWhenDone, StateFits, RUNNING, DONE
  <2> QED BY <1>1, <2>1, <2>2, <2>3 DEF NOT_STARTED, STARTING, RUNNING, DONE
<1>2. CASE ~(refcount = 1 /\ state = RUNNING)
  <2>1. state' = state /\ reaped' = reaped
    BY <1>2 DEF Decref
  <2> QED BY <1>2, <2>1 DEF ReapedWhenDone, NOT_STARTED, STARTING, RUNNING, DONE
<1> QED BY <1>1, <1>2

LEMMA RunnerExitsKeeps ==
    ASSUME Inv, NEW t \in Threads, RunnerExits(t)
    PROVE  Inv'
<1> USE DEF Inv, HandleInv, HandleTypes
<1>1. /\ pc[t] = "notified" /\ call[t] = "exit" /\ Decref
      /\ pc' = [pc EXCEPT ![t] = "gone"]
      /\ call' = [call EXCEPT ![t] = "none"]
      /\ UNCHANGED <<parkVars, parkRest, addr, word, v, object>>
  BY DEF RunnerExits, Goto, parkVars, parkRest
<1>2. t = Runner
  BY <1>1, CallerFacts DEF CallFits
<1>3. /\ pc'[t] = "gone" /\ call'[t] = "none"
      /\ \A u \in Threads \ {t} : pc'[u] = pc[u] /\ call'[u] = call[u]
      /\ addr \in [Threads -> Addrs]
  BY <1>1 DEF ParkInv, ParkTypeOK
<1>4. ParkInv'
  BY <1>1, <1>3, OneOutside
<1>5. /\ Born /\ Born' /\ ~InMethod(t) /\ ~InMethod(t)' /\ state \notin {NOT_STARTED, STARTING}
      /\ refcount = 1 + (IF object THEN 1 ELSE 0)
  <2>1. Born /\ Born'
    BY <1>1, <1>2, <1>3 DEF Born
  <2>2. ~InMethod(t) /\ ~InMethod(t)'
    BY <1>1, <1>3 DEF InMethod
  <2>3. \A s \in Threads : ~Starting(s)
    BY <1>1, <1>2, <2>1 DEF Starting, CallersFindState, FindsState
  <2>4. state \notin {NOT_STARTED, STARTING}
    BY <2>1, <2>3 DEF StateFits
  <2>5. refcount = 1 + (IF object THEN 1 ELSE 0)
    BY <1>1, <1>2 DEF RefsAddUp, RunnerRefs
  <2> QED BY <2>1, <2>2, <2>4, <2>5
<1>6. refcount' = (IF object THEN 1 ELSE 0) /\ refcount' = refcount - 1
  BY <1>1, <1>5 DEF Decref
<1>7. refcount = 1 => \A u \in Threads : ~InMethod(u)
  BY <1>5 DEF RefsAddUp
<1>8. /\ refcount # 1 => state' = state /\ reaped' = reaped
      /\ state' \in {RUNNING, DONE}
      /\ state' = RUNNING => state = RUNNING /\ refcount # 1
      /\ state = DONE => state' = DONE
      /\ \A u \in Threads : InMethod(u) => state' = state
      /\ reaped' = IF \/ state' = DONE /\ Born
                      \/ \E u \in Threads : Succeeds(u) /\ call[u] # "force"
                   THEN 1 ELSE 0
  BY <1>1, <1>5, <1>7, DecrefFacts
<1>9. \A u \in Threads : /\ InFunction(u)' <=> InFunction(u)
                         /\ Succeeds(u)' <=> Succeeds(u)
                         /\ InMethod(u)' <=> InMethod(u)
                         /\ Succeeds(u) => (call'[u] = "force" <=> call[u] = "force")
  <2>1. /\ ~InFunction(t) /\ ~InFunction(t)' /\ ~Succeeds(t) /\ ~Succeeds(t)'
    BY <1>1, <1>3 DEF InFunction, Succeeds
  <2> QED BY <1>1, <1>3, <1>5, <2>1 DEF InFunction, Succeeds, InMethod
<1>10. (Decided' <=> Decided) /\ (FlagLocked' <=> FlagLocked)
  BY <1>1, <1>9 DEF Decided, FlagLocked
<1>11. HandleTypes' /\ EventsAreBytes'
  <2>1. "gone" \in PCs /\ "none" \in Calls
    BY DEF PCs, Calls
  <2> QED BY <1>1, <1>8, <2>1 DEF EventsAreBytes
<1>12. CallsFit'
  BY <1>1, <1>2, <1>3 DEF CallsFit, CallFits, Joins
<1>13. LocalsFit'
  BY <1>1, <1>3, <1>8 DEF LocalsFit, LocalFits
<1>14. FlagShowsFunction'
  BY <1>9, <1>10 DEF FlagShowsFunction
<1>15. StateFits'
  <2>1. state' = DONE /\ refcount' # 0 => Decided'
    BY <1>5, <1>6, <1>8, <1>10 DEF StateFits
  <2>2. state' = RUNNING => refcount' # 0
    BY <1>5, <1>6, <1>8
  <2>3. word'[Once] = ONCE_INITIALIZED => state' = DONE
    BY <1>1, <1>8 DEF StateFits
  <2> QED BY <1>5, <1>8, <2>1, <2>2, <2>3
          DEF StateFits, NOT_STARTED, STARTING, RUNNING, DONE
<1>16. CallersFindState'
  <2> SUFFICES ASSUME NEW u \in Threads PROVE FindsState(u)'
    BY DEF CallersFindState
  <2>1. CASE ~InMethod(u)
    <3>1. ~InFunction(u) /\ ~Succeeds(u) /\ call[u] # "force" /\ pc[u] \notin {"create", "started"}
      BY <2>1, MethodFacts DEF InMethod, Joins
    <3>2. pc[u] # "run"
      BY <3>1 DEF InFunction
    <3>3. ~Succeeds(u)' /\ call'[u] # "force" /\ pc'[u] \notin {"create", "started", "run"}
      BY <1>3, <1>9, <3>1, <3>2
    <3> QED BY <3>3 DEF FindsState
  <2>2. CASE InMethod(u)
    <3>1. /\ u # t /\ state' = state
          /\ pc'[u] = pc[u] /\ call'[u] = call[u] /\ addr'[u] = addr[u]
      BY <1>1, <1>3, <1>5, <1>8, <2>2
    <3> QED BY <1>5, <1>9, <3>1 DEF CallersFindState, FindsState
  <2> QED BY <2>1, <2>2
<1>17. ExitingFits'
  BY <1>1, <1>2, <1>3 DEF ExitingFits, Joins
<1>18. RefsAddUp'
  BY <1>1, <1>2, <1>3, <1>6, <1>9 DEF RefsAddUp, RunnerRefs
<1>19. ReapedWhenDone'
  BY <1>5, <1>8, <1>9 DEF ReapedWhenDone
<1> QED BY <1>4, <1>11, <1>12, <1>13, <1>14, <1>15, <1>16, <1>17, <1>18, <1>19

LEMMA ObjectDiesKeeps ==
    ASSUME Inv, ObjectDies
    PROVE  Inv'
<1> USE DEF Inv, HandleInv, HandleTypes
<1>1. /\ object /\ object' = FALSE /\ Decref
      /\ \A u \in Threads : ~InMethod(u)
      /\ UNCHANGED <<parkVars, parkRest, addr, word, pc, v, call>>
  BY DEF ObjectDies, eventVars, parkVars, parkRest
<1>2. ParkInv'
  <2> DEFINE S == {}
  <2>1. /\ S \in SUBSET Threads
        /\ addr' \in [Threads -> Addrs]
        /\ \A u \in Threads \ S : pc'[u] = pc[u] /\ addr'[u] = addr[u]
        /\ \A u \in S : /\ pc[u] \notin {"waitParked", "onceParked", "unpark"}
                        /\ pc'[u] \notin {"waitParked", "onceParked"}
        /\ \A m \in Addrs : word[m] = ParkedMark(m) => word'[m] = ParkedMark(m)
    BY <1>1 DEF ParkInv, ParkTypeOK
  <2> HIDE DEF S
  <2> QED BY <1>1, <2>1, NotParking
<1>3. /\ state # STARTING
      /\ \A u \in Threads : ~Starting(u) /\ ~InFunction(u) /\ ~Succeeds(u)
      /\ \A u \in Threads : call[u] # "force" /\ pc[u] \notin {"create", "started", "run"}
  <2>1. \A u \in Threads : ~Starting(u) /\ ~InFunction(u) /\ ~Succeeds(u)
    BY <1>1, MethodFacts
  <2>2. state # STARTING
    BY <2>1 DEF StateFits
  <2>3. \A u \in Threads : call[u] # "force" /\ pc[u] \notin {"create", "started"}
    BY <1>1, MethodFacts
  <2> QED BY <2>1, <2>2, <2>3 DEF InFunction
<1>4. refcount = RunnerRefs + 1 /\ RunnerRefs \in {0, 1, 2} /\ RunnerRefs' = RunnerRefs
  BY <1>1 DEF RefsAddUp, RunnerRefs
<1>5. refcount' = RunnerRefs'
  BY <1>1, <1>4 DEF Decref
<1>6. /\ refcount # 1 => state' = state /\ reaped' = reaped
      /\ state' \in {NOT_STARTED, RUNNING, DONE}
      /\ state' = NOT_STARTED <=> state = NOT_STARTED
      /\ state' = RUNNING => state = RUNNING /\ refcount # 1
      /\ state = DONE => state' = DONE
      /\ reaped' = IF \/ state' = DONE /\ Born
                      \/ \E u \in Threads : Succeeds(u) /\ call[u] # "force"
                   THEN 1 ELSE 0
  BY <1>1, <1>3, DecrefFacts
<1>7. \A u \in Threads : ~InFunction(u)' /\ ~Succeeds(u)' /\ ~InMethod(u)'
  BY <1>1, <1>3 DEF InFunction, Succeeds, InMethod
<1>8. (Decided' <=> Decided) /\ (FlagLocked' <=> FlagLocked) /\ (Born' <=> Born)
  BY <1>1, <1>3, <1>7 DEF Decided, FlagLocked, Born
<1>9. HandleTypes' /\ EventsAreBytes'
  BY <1>1, <1>6 DEF EventsAreBytes
<1>10. CallsFit'
  BY <1>1 DEF CallsFit, CallFits
<1>11. LocalsFit'
  BY <1>1, <1>6 DEF LocalsFit, LocalFits
<1>12. FlagShowsFunction'
  BY <1>3, <1>7, <1>8 DEF FlagShowsFunction
<1>13. StateFits'
  <2>1. state' = NOT_STARTED => ~Born'
    BY <1>6, <1>8 DEF StateFits
  <2>2. state' # STARTING
    BY <1>6 DEF NOT_STARTED, STARTING, RUNNING, DONE
  <2>3. state' = NOT_STARTED => word'[Ready] # LOCKED
    BY <1>1, <1>6 DEF StateFits
  <2>4. state' = RUNNING => Born' /\ refcount' # 0
    BY <1>4, <1>5, <1>6, <1>8 DEF StateFits
  <2>5. state' = DONE /\ refcount' # 0 => Decided'
    BY <1>4, <1>5, <1>6, <1>8 DEF StateFits
  <2>6. word'[Once] = ONCE_INITIALIZED => state' = DONE
    BY <1>1, <1>6 DEF StateFits
  <2> QED BY <1>7, <2>1, <2>2, <2>3, <2>4, <2>5, <2>6 DEF StateFits
<1>14. CallersFindState'
  BY <1>1, <1>3, <1>7 DEF CallersFindState, FindsState
<1>15. ExitingFits'
  BY <1>1, <1>8 DEF ExitingFits
<1>16. RefsAddUp'
  BY <1>1, <1>4, <1>5, <1>7 DEF RefsAddUp
<1>17. ReapedWhenDone'
  BY <1>3, <1>6, <1>7, <1>8 DEF ReapedWhenDone
<1> QED BY <1>2, <1>9, <1>10, <1>11, <1>12, <1>13, <1>14, <1>15, <1>16, <1>17

-----------------------------------------------------------------------------
(* The thread is started.                                                  *)

LEMMA StartCallKeeps ==
    ASSUME Inv, NEW t \in Threads, StartCall(t)
    PROVE  Inv'
<1> USE DEF Inv, HandleInv, HandleTypes
<1>1. /\ pc[t] = Home(t) /\ object
      /\ state = NOT_STARTED /\ state' = STARTING
      /\ call' = [call EXCEPT ![t] = "start"]
      /\ pc' = [pc EXCEPT ![t] = "create"]
      /\ UNCHANGED <<parkVars, parkRest, addr, word, v, refcount, object, reaped>>
  BY DEF StartCall, MayCall, Goto, parkVars, parkRest
<1>2. ~Born /\ \A u \in Threads : ~InMethod(u)
  BY <1>1 DEF StateFits
<1>3. t # Runner /\ pc[t] = "idle" /\ Runner \in Threads
  BY <1>1, <1>2, HandleAddrs DEF Home, Born
<1>4. /\ pc'[t] = "create" /\ call'[t] = "start"
      /\ \A u \in Threads \ {t} : pc'[u] = pc[u] /\ call'[u] = call[u]
      /\ addr \in [Threads -> Addrs]
  BY <1>1 DEF ParkInv, ParkTypeOK
<1>5. ParkInv'
  BY <1>1, <1>3, <1>4, OneOutside
<1>6. \A u \in Threads : /\ ~Starting(u) /\ ~InFunction(u) /\ ~Succeeds(u)
                         /\ call[u] # "force" /\ pc[u] \notin {"create", "started", "run"}
  <2>1. \A u \in Threads : /\ ~Starting(u) /\ ~InFunction(u) /\ ~Succeeds(u)
                           /\ call[u] # "force" /\ pc[u] \notin {"create", "started"}
    BY <1>2, MethodFacts
  <2> QED BY <2>1 DEF InFunction
<1>7. /\ ~Born' /\ Starting(t)' /\ InMethod(t)'
      /\ \A u \in Threads : ~InFunction(u)' /\ ~Succeeds(u)'
      /\ \A u \in Threads \ {t} : ~InMethod(u)'
  <2>1. ~Born'
    BY <1>2, <1>3, <1>4 DEF Born
  <2>2. Starting(t)' /\ InMethod(t)' /\ ~InFunction(t)' /\ ~Succeeds(t)'
    BY <1>4, <2>1 DEF Starting, InMethod, InFunction, Succeeds
  <2>3. \A u \in Threads \ {t} : ~InMethod(u)' /\ ~InFunction(u)' /\ ~Succeeds(u)'
    BY <1>1, <1>2, <1>4, <1>6 DEF InMethod, InFunction, Succeeds
  <2> QED BY <2>1, <2>2, <2>3
<1>8. HandleTypes' /\ EventsAreBytes'
  <2>1. "create" \in PCs /\ "start" \in Calls
    BY DEF PCs, Calls
  <2> QED BY <1>1, <2>1 DEF EventsAreBytes
<1>9. CallsFit'
  BY <1>1, <1>3, <1>4 DEF CallsFit, CallFits, Joins
<1>10. LocalsFit'
  BY <1>1, <1>4 DEF LocalsFit, LocalFits, NOT_STARTED, DONE
<1>11. FlagShowsFunction'
  BY <1>1, <1>6, <1>7 DEF FlagShowsFunction, FlagLocked
<1>12. word[Once] # ONCE_INITIALIZED /\ ~Decided /\ ~Decided'
  <2>1. word[Once] # ONCE_INITIALIZED
    BY <1>1 DEF StateFits, NOT_STARTED, DONE
  <2> QED BY <1>1, <1>6, <1>7, <2>1 DEF Decided
<1>13. StateFits'
  BY <1>1, <1>7, <1>12 DEF StateFits, NOT_STARTED, STARTING, RUNNING, DONE
<1>14. CallersFindState'
  BY <1>1, <1>4, <1>6, <1>7 DEF CallersFindState, FindsState
<1>15. ExitingFits'
  BY <1>1, <1>3, <1>4, <1>12 DEF ExitingFits
<1>16. RefsAddUp'
  BY <1>1, <1>3, <1>4 DEF RefsAddUp, RunnerRefs
<1>17. ReapedWhenDone'
  BY <1>1, <1>2, <1>6, <1>7 DEF ReapedWhenDone
<1> QED BY <1>5, <1>8, <1>9, <1>10, <1>11, <1>13, <1>14, <1>15, <1>16, <1>17

LEMMA CreateKeeps ==
    ASSUME Inv, NEW t \in Threads, Create(t)
    PROVE  Inv'
<1> USE DEF Inv, HandleInv, HandleTypes
<1>1. /\ pc[t] = "create" /\ refcount' = refcount + 1
      /\ pc' = [pc EXCEPT ![t] = "started", ![Runner] = "wait"]
      /\ call' = [call EXCEPT ![Runner] = "boot"]
      /\ addr' = [addr EXCEPT ![Runner] = Ready]
      /\ UNCHANGED <<parkRest, word, v, state, object, reaped>>
  BY DEF Create, About
<1>2. /\ call[t] = "start" /\ t # Runner /\ InMethod(t) /\ state = STARTING
      /\ \A u \in Threads : InMethod(u) => u = t
      /\ Starting(t) /\ ~Born
  <2>1. call[t] = "start" /\ InMethod(t)
    BY <1>1, MethodFacts
  <2>2. t # Runner /\ state = STARTING
    BY <1>1, <2>1, CallerFacts DEF CallFits, FindsState
  <2>3. Starting(t) /\ \A u \in Threads : InMethod(u) => u = t
    BY <2>1, <2>2, MethodFacts
  <2> QED BY <1>1, <2>1, <2>2, <2>3 DEF Starting
<1>3. Runner \in Threads /\ Ready \in Addrs /\ Ready # Exiting
  BY HandleAddrs
<1>4. /\ pc'[t] = "started" /\ pc'[Runner] = "wait" /\ call'[Runner] = "boot"
      /\ addr'[Runner] = Ready /\ call'[t] = "start"
      /\ \A u \in Threads \ {t, Runner} : pc'[u] = pc[u]
      /\ \A u \in Threads \ {Runner} : call'[u] = call[u] /\ addr'[u] = addr[u]
      /\ addr' \in [Threads -> Addrs]
  BY <1>1, <1>2, <1>3 DEF ParkInv, ParkTypeOK
<1>5. pc[Runner] = "unborn" /\ call[Runner] = "none"
  <2>1. pc[Runner] = "unborn"
    BY <1>2 DEF Born
  <2>2. CallFits(Runner) /\ call[Runner] \in Calls
    BY <1>3 DEF CallsFit
  <2> QED BY <2>1, <2>2 DEF CallFits, Calls, Joins, WaitPCs, NotifyPCs, OncePCs
<1>6. ParkInv'
  <2> DEFINE S == {t, Runner}
  <2>1. S \in SUBSET Threads
    BY <1>3
  <2>2. /\ \A u \in Threads \ S : pc'[u] = pc[u] /\ addr'[u] = addr[u]
        /\ \A u \in S : /\ pc[u] \notin {"waitParked", "onceParked", "unpark"}
                        /\ pc'[u] \notin {"waitParked", "onceParked"}
    BY <1>1, <1>4, <1>5
  <2> HIDE DEF S
  <2> QED BY <1>1, <1>4, <2>1, <2>2, NotParking
<1>7. \A u \in Threads : ~InFunction(u) /\ ~Succeeds(u)
  <2>1. ~InFunction(t)
    BY <1>1, <1>2 DEF InFunction
  <2> QED BY <1>2, <2>1, MethodFacts
<1>8. /\ Born' /\ Starting(t)'
      /\ \A u \in Threads : ~InFunction(u)' /\ ~Succeeds(u)'
      /\ \A u \in Threads : InMethod(u)' => u = t
  <2>1. Born' /\ Starting(t)'
    BY <1>4 DEF Born, Starting
  <2>2. /\ ~InFunction(t)' /\ ~Succeeds(t)'
        /\ ~InFunction(Runner)' /\ ~Succeeds(Runner)' /\ ~InMethod(Runner)'
    BY <1>2, <1>4 DEF InFunction, Succeeds, InMethod
  <2>3. \A u \in Threads \ {t, Runner} : ~InFunction(u)' /\ ~Succeeds(u)' /\ ~InMethod(u)'
    BY <1>1, <1>2, <1>4, <1>7 DEF InFunction, Succeeds, InMethod
  <2> QED BY <2>1, <2>2, <2>3
<1>9. HandleTypes' /\ EventsAreBytes'
  <2>1. {"started", "wait"} \subseteq PCs /\ "boot" \in Calls
    BY DEF PCs, EventPCs, Calls
  <2>2. pc' \in [Threads -> PCs] /\ call' \in [Threads -> Calls]
    BY <1>1, <2>1
  <2> QED BY <1>1, <2>2 DEF EventsAreBytes
<1>10. CallsFit'
  <2>1. CallFits(t)'
    BY <1>2, <1>4 DEF CallFits, Joins
  <2>2. CallFits(Runner)'
    BY <1>3, <1>4 DEF CallFits, WaitPCs, Joins
  <2>3. \A u \in Threads \ {t, Runner} : CallFits(u)'
    BY <1>4 DEF CallsFit, CallFits
  <2> QED BY <2>1, <2>2, <2>3 DEF CallsFit
<1>11. LocalsFit'
  BY <1>1, <1>4 DEF LocalsFit, LocalFits
<1>12. FlagShowsFunction'
  BY <1>1, <1>7, <1>8 DEF FlagShowsFunction, FlagLocked
<1>13. (Decided' <=> Decided) /\ call[t] # "force" /\ \A u \in Threads : call'[u] # "force"
  <2>1. Decided' <=> Decided
    BY <1>1, <1>7, <1>8 DEF Decided
  <2>2. \A u \in Threads \ {t} : call[u] # "force"
    BY <1>2, MethodFacts
  <2> QED BY <1>2, <1>4, <2>1, <2>2
<1>14. StateFits'
  BY <1>1, <1>2, <1>8 DEF StateFits, NOT_STARTED, STARTING, RUNNING, DONE
<1>15. CallersFindState'
  <2>1. \A u \in Threads : pc'[u] # "run"
    BY <1>8 DEF InFunction
  <2> QED BY <1>1, <1>2, <1>8, <1>13, <2>1 DEF CallersFindState, FindsState
<1>16. ExitingFits'
  <2>1. word[Exiting] = LOCKED => Decided
    BY <1>5 DEF ExitingFits
  <2> QED BY <1>1, <1>4, <1>13, <2>1 DEF ExitingFits, Joins
<1>17. RefsAddUp'
  BY <1>1, <1>2, <1>4, <1>5, <1>8 DEF RefsAddUp, RunnerRefs
<1>18. ReapedWhenDone'
  BY <1>1, <1>2, <1>7, <1>8 DEF ReapedWhenDone, STARTING, DONE
<1> QED BY <1>6, <1>9, <1>10, <1>11, <1>12, <1>14, <1>15, <1>16, <1>17, <1>18

LEMMA MarkRunningKeeps ==
    ASSUME Inv, NEW t \in Threads, MarkRunning(t)
    PROVE  Inv'
<1> USE DEF Inv, HandleInv, HandleTypes
<1>1. /\ pc[t] = "started" /\ state' = RUNNING
      /\ pc' = [pc EXCEPT ![t] = "notify"]
      /\ v' = [v EXCEPT ![t] = UNLOCKED]
      /\ addr' = [addr EXCEPT ![t] = Ready]
      /\ UNCHANGED <<parkRest, word, call, refcount, object, reaped>>
  BY DEF MarkRunning, BeginNotify, Begin, About, Goto
<1>2. /\ call[t] = "start" /\ t # Runner /\ InMethod(t) /\ state = STARTING
      /\ \A u \in Threads : InMethod(u) => u = t
      /\ call[Runner] = "boot"
  <2>1. call[t] = "start" /\ InMethod(t)
    BY <1>1, MethodFacts
  <2>2. t # Runner /\ state = STARTING
    BY <1>1, <2>1, CallerFacts DEF CallFits, FindsState
  <2>3. Starting(t) /\ \A u \in Threads : InMethod(u) => u = t
    BY <2>1, <2>2, MethodFacts
  <2> QED BY <1>1, <2>1, <2>2, <2>3 DEF Starting
<1>3. /\ Runner \in Threads /\ Ready \in Addrs /\ Ready # Exiting
      /\ UNLOCKED \in Words
  BY HandleAddrs DEF Words
<1>4. /\ pc'[t] = "notify" /\ addr'[t] = Ready /\ v'[t] = UNLOCKED
      /\ \A u \in Threads \ {t} : pc'[u] = pc[u] /\ addr'[u] = addr[u] /\ v'[u] = v[u]
      /\ addr' \in [Threads -> Addrs]
  BY <1>1, <1>3 DEF ParkInv, ParkTypeOK
<1>5. ParkInv'
  BY <1>1, <1>4, OneOutside
<1>6. /\ pc[Runner] \in WaitPCs /\ Born /\ Born' /\ refcount # 0
  <2>1. pc[Runner] \in WaitPCs
    BY <1>2, <1>3 DEF CallsFit, CallFits
  <2>2. Born /\ Born'
    BY <1>2, <1>3, <1>4, <2>1 DEF Born, WaitPCs
  <2>3. refcount # 0
    BY <1>2, MethodFacts
  <2> QED BY <2>1, <2>2, <2>3
<1>7. \A u \in Threads : ~InFunction(u) /\ ~Succeeds(u)
  <2>1. ~InFunction(t)
    BY <1>1, <1>2 DEF InFunction
  <2> QED BY <1>2, <2>1, MethodFacts
<1>8. \A u \in Threads : ~InFunction(u)' /\ ~Succeeds(u)'
  <2>1. ~InFunction(t)' /\ ~Succeeds(t)'
    BY <1>1, <1>2, <1>4 DEF InFunction, Succeeds
  <2>2. \A u \in Threads \ {t} : ~InFunction(u)' /\ ~Succeeds(u)'
    BY <1>1, <1>4, <1>7 DEF InFunction, Succeeds
  <2> QED BY <2>1, <2>2
<1>9. HandleTypes' /\ EventsAreBytes'
  <2>1. "notify" \in PCs
    BY DEF PCs, EventPCs
  <2> QED BY <1>1, <1>3, <2>1 DEF EventsAreBytes
<1>10. CallsFit'
  BY <1>1, <1>2, <1>4 DEF CallsFit, CallFits, NotifyPCs, Joins
<1>11. \A u \in Threads : v[u] # ONCE_INITIALIZED
  BY <1>2 DEF LocalsFit, LocalFits, STARTING, DONE
<1>12. LocalsFit'
  <2>1. \A u \in Threads : v'[u] # ONCE_INITIALIZED
    BY <1>4, <1>11 DEF UNLOCKED, ONCE_INITIALIZED
  <2> QED BY <1>1, <1>4, <2>1 DEF LocalsFit, LocalFits
<1>13. FlagShowsFunction'
  BY <1>1, <1>7, <1>8 DEF FlagShowsFunction, FlagLocked
<1>14. word[Once] # ONCE_INITIALIZED
  BY <1>2 DEF StateFits, STARTING, DONE
<1>15. StateFits'
  BY <1>1, <1>6, <1>14 DEF StateFits, NOT_STARTED, STARTING, RUNNING, DONE
<1>16. CallersFindState'
  <2>1. \A u \in Threads : /\ call[u] # "force" /\ pc'[u] \notin {"create", "started", "run"}
    <3>1. \A u \in Threads \ {t} : call[u] # "force" /\ pc[u] \notin {"create", "started"}
      BY <1>2, MethodFacts
    <3>2. \A u \in Threads : pc'[u] # "run"
      BY <1>8 DEF InFunction
    <3> QED BY <1>2, <1>4, <3>1, <3>2
  <2> QED BY <1>1, <1>8, <2>1 DEF CallersFindState, FindsState
<1>17. ExitingFits'
  <2>1. word[Exiting] # LOCKED
    BY <1>2, <1>6, <1>7, <1>14 DEF ExitingFits, Decided, WaitPCs
  <2> QED BY <1>1, <1>2, <2>1 DEF ExitingFits, Joins
<1>18. RefsAddUp'
  BY <1>1, <1>2, <1>3, <1>4 DEF RefsAddUp, RunnerRefs, InMethod
<1>19. ReapedWhenDone'
  BY <1>1, <1>2, <1>7, <1>8 DEF ReapedWhenDone, STARTING, RUNNING, DONE
<1> QED BY <1>5, <1>9, <1>10, <1>12, <1>13, <1>15, <1>16, <1>17, <1>18, <1>19

-----------------------------------------------------------------------------
(* The invariant.                                                          *)

LEMMA InvInit == Init => Inv
<1> SUFFICES ASSUME Init PROVE Inv
  OBVIOUS
<1> USE DEF Init, ParkInit
<1>0. /\ Runner \in Threads /\ Ready \in Addrs /\ Once \in Addrs /\ Exiting \in Addrs
      /\ Events \subseteq Addrs
  BY HandleAddrs, EventsType
<1>1. ParkInv
  <2>1. ParkTypeOK
    BY <1>0 DEF ParkTypeOK, ParkStates
  <2>2. \A t \in Threads : /\ parkState[t] = "out" /\ ~Queued(t) /\ ~Waits(t)
                           /\ pc[t] \notin {"waitParked", "onceParked"}
    BY DEF Queued, Waits
  <2>3. WaitersAreParked
    BY <2>2 DEF WaitersAreParked
  <2>4. WaitersAreAnnounced
    BY <2>2 DEF WaitersAreAnnounced
  <2> QED BY <2>1, <2>3, <2>4 DEF ParkInv
<1>2. HandleTypes /\ EventsAreBytes
  <2>1. /\ UNLOCKED \in Words /\ "none" \in Calls /\ "unborn" \in PCs /\ "idle" \in PCs
    BY DEF Words, Calls, PCs
  <2> QED BY <1>0, <2>1 DEF HandleTypes, EventsAreBytes
<1>3. \A t \in Threads : /\ call[t] = "none" /\ pc[t] \in {"unborn", "idle"}
                         /\ v[t] = UNLOCKED
                         /\ ~InFunction(t) /\ ~Succeeds(t) /\ ~InMethod(t)
  BY DEF InFunction, Succeeds, InMethod
<1>4. CallsFit /\ LocalsFit
  BY <1>3 DEF CallsFit, CallFits, LocalsFit, LocalFits, Joins, UNLOCKED, ONCE_INITIALIZED
<1>5. FlagShowsFunction
  BY <1>0, <1>3 DEF FlagShowsFunction, FlagLocked, UNLOCKED, LOCKED, HAS_PARKED
<1>6. ~Born
  BY <1>0 DEF Born
<1>7. StateFits
  BY <1>0, <1>3, <1>6
     DEF StateFits, NOT_STARTED, STARTING, RUNNING, DONE, UNLOCKED, LOCKED, ONCE_INITIALIZED
<1>8. CallersFindState
  BY <1>3, <1>6 DEF CallersFindState, FindsState
<1>9. ExitingFits
  BY <1>0, <1>3 DEF ExitingFits, Joins, UNLOCKED, LOCKED
<1>10. RefsAddUp
  BY <1>0, <1>3 DEF RefsAddUp, RunnerRefs
<1>11. ReapedWhenDone
  BY <1>3, <1>6 DEF ReapedWhenDone
<1> QED BY <1>1, <1>2, <1>4, <1>5, <1>7, <1>8, <1>9, <1>10, <1>11 DEF Inv, HandleInv

LEMMA LibraryStepKeeps ==
    ASSUME Inv, NEW t \in Threads, LibraryStep(t)
    PROVE  Inv'
<1>1. CASE EventStep(t)
  BY <1>1, EventLoadKeeps, EventCasKeeps, EventParkKeeps, EventCheckKeeps, EventNotifyKeeps
     DEF LibraryStep, EventStep
<1>2. CASE OnceStep(t)
  BY <1>2, OnceStartKeeps, OnceAlreadyKeeps, OnceMarkParkedKeeps, OnceParkKeeps,
     OnceReloadKeeps, UnlockOnceKeeps DEF LibraryStep, OnceStep
<1>3. CASE InnerStep(t)
  BY <1>3, InnerKeeps DEF LibraryStep
<1> QED BY <1>1, <1>2, <1>3 DEF LibraryStep

LEMMA InvStep == Inv /\ [Next]_vars => Inv'
<1> SUFFICES ASSUME Inv, [Next]_vars PROVE Inv'
  OBVIOUS
<1>1. ASSUME NEW t \in Threads, ThreadStep(t) PROVE Inv'
  BY <1>1, LibraryStepKeeps, CreateKeeps, CreateFailsKeeps, MarkRunningKeeps, StartedKeeps,
     BootedKeeps, BodyEndsKeeps, RunnerExitsKeeps, JoinWaitsKeeps, JoinGoesOnKeeps,
     FunctionFailsKeeps, JoinThreadKeeps, SetDoneKeeps, ForceDoneKeeps, EventIsSetKeeps,
     FinishKeeps, OnceDoneKeeps DEF ThreadStep
<1>2. ASSUME NEW t \in Threads, CallStep(t) PROVE Inv'
  BY <1>2, StartCallKeeps, JoinCallKeeps, SetDoneCallKeeps DEF CallStep
<1>3. ASSUME NEW t \in Threads, WaitFailure(t) PROVE Inv'
  BY <1>3, WaitFailureKeeps
<1>4. CASE ObjectDies
  BY <1>4, ObjectDiesKeeps
<1>5. CASE UNCHANGED vars
  <2>1. UNCHANGED <<parkVars, parkRest, addr, word, pc, v, handleVars>>
    BY <1>5 DEF vars, eventVars, parkVars, parkRest
  <2>2. HandleInv'
    BY <2>1, HandleStays DEF Inv
  <2>3. ParkInv'
    <3> DEFINE S == {}
    <3>1. /\ S \in SUBSET Threads
          /\ addr' \in [Threads -> Addrs]
          /\ \A u \in Threads \ S : pc'[u] = pc[u] /\ addr'[u] = addr[u]
          /\ \A u \in S : /\ pc[u] \notin {"waitParked", "onceParked", "unpark"}
                          /\ pc'[u] \notin {"waitParked", "onceParked"}
          /\ \A m \in Addrs : word[m] = ParkedMark(m) => word'[m] = ParkedMark(m)
      BY <2>1 DEF Inv, ParkInv, ParkTypeOK
    <3> HIDE DEF S
    <3> QED BY <2>1, <3>1, NotParking DEF Inv
  <2> QED BY <2>2, <2>3 DEF Inv
<1> QED BY <1>1, <1>2, <1>3, <1>4, <1>5 DEF Next

LEMMA Invariance == Spec => []Inv
BY InvInit, InvStep, PTL DEF Spec

-----------------------------------------------------------------------------
(* A thread that sleeps on an event or on the once flag, and that nobody   *)
(* has begun to wake, is announced by the byte, or the thread that changed *)
(* the byte is about to empty the queue (lock.c:253-269, 301-323).         *)
THEOREM NoSleeperIsForgotten == Spec => []SleepersAreAnnounced
<1>1. Inv => SleepersAreAnnounced
  <2> SUFFICES ASSUME Inv, NEW t \in Threads, Queued(t)
               PROVE  \/ word[addr[t]] = ParkedMark(addr[t])
                      \/ Waker(addr[t])
    BY DEF SleepersAreAnnounced, ParkedMark, Waker
  <2> QED BY DEF Inv, ParkInv, WaitersAreAnnounced, Waits
<1> QED BY <1>1, Invariance, PTL

(* The OS thread is joined or detached at most once, and exactly once when *)
(* the handle is freed: the flag is decided before anybody else gets a     *)
(* turn, and the last reference looks at the state (_threadmodule.c:86-91, *)
(* 241-266).                                                               *)
THEOREM ThreadIsReapedOnce == Spec => []ReapedOnce
<1>1. Inv => ReapedOnce
  <2> SUFFICES ASSUME Inv PROVE ReapedOnce
    OBVIOUS
  <2> USE DEF Inv, HandleInv
  <2>1. reaped \in {0, 1}
    BY DEF ReapedWhenDone
  <2>2. ASSUME refcount = 0, pc[Runner] # "unborn" PROVE reaped = 1
    <3>1. Born
      BY <2>2 DEF Born
    <3>2. \A t \in Threads : ~InMethod(t) /\ ~Starting(t)
      BY <2>2, MethodFacts
    <3>3. state = DONE
      BY <2>2, <3>1, <3>2 DEF StateFits, HandleTypes
    <3> QED BY <3>1, <3>3 DEF ReapedWhenDone
  <2> QED BY <2>1, <2>2 DEF ReapedOnce
<1> QED BY <1>1, Invariance, PTL

(* Nobody is inside a handle whose references are gone: not a method, not  *)
(* the thread itself, which has returned or was never created.             *)
THEOREM HandleIsKept == Spec => []HandleOutlivesUse
<1>1. Inv => HandleOutlivesUse
  <2> SUFFICES ASSUME Inv PROVE HandleOutlivesUse
    OBVIOUS
  <2> USE DEF Inv, HandleInv
  <2>1. refcount \in 0..3
    BY DEF RefsAddUp, RunnerRefs
  <2>2. reaped \in 0..2
    BY DEF ReapedWhenDone
  <2>3. TypeOK
    BY <2>1, <2>2 DEF TypeOK, HandleTypes, ParkInv
  <2>4. \A t \in Threads : InMethod(t) => object /\ refcount # 0
    BY MethodFacts
  <2>5. refcount = 0 => pc[Runner] \in {"unborn", "gone"}
    BY DEF RefsAddUp, RunnerRefs
  <2> QED BY <2>3, <2>4, <2>5 DEF HandleOutlivesUse
<1> QED BY <1>1, Invariance, PTL

(* The functions of the once flag take turns, find the state they assert   *)
(* though it was read before the wait, and leave the handle done to whoever*)
(* returns success (_threadmodule.c:396, 476, 562, 570, 591).              *)
THEOREM FunctionsTakeTurns == Spec => []OneFunctionAtATime
<1>1. Inv => OneFunctionAtATime
  <2> SUFFICES ASSUME Inv PROVE OneFunctionAtATime
    OBVIOUS
  <2> USE DEF Inv, HandleInv
  <2> DEFINE C == {t \in Threads : InFunction(t)}
  <2>1. ASSUME FlagLocked PROVE Cardinality(C) = 1
    <3>1. PICK t \in Threads : InFunction(t)
      BY <2>1 DEF FlagShowsFunction
    <3>2. C = {t}
      BY <3>1 DEF FlagShowsFunction
    <3> HIDE DEF C
    <3>3. Cardinality(C) = 1
      BY <3>2, FS_Singleton
    <3> QED BY <3>3
  <2>2. ASSUME ~FlagLocked PROVE Cardinality(C) = 0
    <3>1. C = {}
      BY <2>2 DEF FlagShowsFunction
    <3> HIDE DEF C
    <3>2. Cardinality(C) = 0
      BY <3>1, FS_EmptySet
    <3> QED BY <3>2
  <2>3. Cardinality(C) = IF FlagLocked THEN 1 ELSE 0
    BY <2>1, <2>2
  <2>4. ASSUME NEW t \in Threads
        PROVE  /\ pc[t] = "run" => state = IF call[t] = "force" THEN STARTING ELSE RUNNING
               /\ pc[t] = "run" /\ t = Runner => call[t] = "setDone"
               /\ pc[t] = "onceDone" /\ v[t] = ONCE_INITIALIZED => state = DONE
    <3>1. pc[t] = "run" => state = IF call[t] = "force" THEN STARTING ELSE RUNNING
      BY DEF CallersFindState, FindsState
    <3>2. ASSUME pc[t] = "run", t = Runner PROVE call[t] = "setDone"
      <4>1. call[t] \in Joins \cup {"setDone", "force"}
        BY <3>2, WhereItIs
      <4>2. call[t] \notin Joins
        BY <3>2 DEF ExitingFits
      <4>3. call[t] # "force"
        BY <3>2 DEF CallsFit, CallFits
      <4> QED BY <4>1, <4>2, <4>3
    <3>3. v[t] = ONCE_INITIALIZED => state = DONE
      BY DEF LocalsFit, LocalFits
    <3> QED BY <3>1, <3>2, <3>3
  <2> QED BY <2>3, <2>4 DEF OneFunctionAtATime, FlagLocked, C
<1> QED BY <1>1, Invariance, PTL


-----------------------------------------------------------------------------
(* The refinement of HandleLife.  A step changes none of its variables, or *)
(* is one of its steps.                                                    *)
Silent ==
    /\ UNCHANGED <<state, reaped>>
    /\ Born' <=> Born
    /\ word'[Once] = ONCE_INITIALIZED <=> word[Once] = ONCE_INITIALIZED
    /\ refcount' = 0 <=> refcount = 0

LifeStep == [Life!LifeNext]_Life!lifeVars

LEMMA SilentStutters == Silent => LifeStep
BY DEF Silent, LifeStep, Life!lifeVars, Born

(* The thread is not born, nor unborn, by a step inside a function.        *)
LEMMA BornStays ==
    ASSUME HandleInv, NEW t \in Threads, NEW l, pc[t] # "unborn", l # "unborn",
           pc' = [pc EXCEPT ![t] = l]
    PROVE  Born' <=> Born
BY HandleAddrs DEF Born, HandleInv, HandleTypes

(* The library settles the joins when it unlocks the flag after a success, *)
(* and does nothing else that the life of the handle shows.                *)
LEMMA UnlockSettles ==
    ASSUME Inv, NEW t \in Threads, UnlockOnce(t), UNCHANGED handleVars
    PROVE  LifeStep
<1> USE DEF Inv, HandleInv, HandleTypes
<1>1. /\ pc[t] = "unlock" /\ addr[t] = Once /\ InMethod(t) /\ InFunction(t)
  BY WhereItIs, MethodFacts DEF UnlockOnce, InFunction
<1>2. /\ UNCHANGED <<state, reaped, refcount>>
      /\ word' = [word EXCEPT ![Once] = v[t]]
      /\ \E l \in {"onceDone", "unpark"} : pc' = [pc EXCEPT ![t] = l]
  BY <1>1 DEF UnlockOnce, Store, Goto, handleVars
<1>3. word'[Once] = v[t] /\ v[t] \in {UNLOCKED, ONCE_INITIALIZED}
  BY <1>1, <1>2, HandleAddrs DEF LocalsFit, LocalFits
<1>4. word[Once] # ONCE_INITIALIZED /\ refcount # 0
  BY <1>1, MethodFacts
     DEF FlagShowsFunction, FlagLocked, LOCKED, HAS_PARKED, ONCE_INITIALIZED
<1>5. Born' <=> Born
  BY <1>1, <1>2, BornStays
<1>6. CASE v[t] = ONCE_INITIALIZED
  <2>1. state = DONE /\ word'[Once] = ONCE_INITIALIZED
    BY <1>3, <1>6 DEF LocalsFit, LocalFits
  <2>2. Life!Settle
    BY <1>2, <1>4, <1>5, <2>1 DEF Life!Settle, Born
  <2> QED BY <2>2 DEF LifeStep, Life!LifeNext
<1>7. CASE v[t] = UNLOCKED
  <2>1. Silent
    BY <1>2, <1>3, <1>4, <1>5, <1>7 DEF Silent, UNLOCKED, ONCE_INITIALIZED
  <2> QED BY <2>1, SilentStutters
<1> QED BY <1>3, <1>6, <1>7

LEMMA LibraryIsMapped ==
    ASSUME Inv, NEW t \in Threads, LibraryStep(t)
    PROVE  LifeStep
<1> USE DEF Inv, HandleInv, HandleTypes
<1>1. UNCHANGED <<state, reaped, refcount, handleVars>>
  BY DEF LibraryStep, handleVars
<1>2. CASE UnlockOnce(t)
  BY <1>1, <1>2, UnlockSettles
<1>3. CASE ~UnlockOnce(t)
  <2>1. \/ pc' = pc
        \/ pc[t] # "unborn" /\ \E l : l # "unborn" /\ pc' = [pc EXCEPT ![t] = l]
    <3>1. CASE EventLoad(t)
      <4>1. addr[t] \in Events
        BY <3>1, WhereItIs, HandleAddrs DEF EventLoad, WaitPCs
      <4>2. word[addr[t]] \in {UNLOCKED, LOCKED, HAS_PARKED}
        BY <4>1 DEF EventsAreBytes
      <4>3. \E l \in {"waited", "waitCas", "waitPark"} : pc' = [pc EXCEPT ![t] = l]
        <5>1. CASE word[addr[t]] = LOCKED
          BY <3>1, <5>1 DEF EventLoad, Goto, UNLOCKED, LOCKED, HAS_PARKED
        <5>2. CASE word[addr[t]] = UNLOCKED
          BY <3>1, <5>2 DEF EventLoad, Goto, UNLOCKED, LOCKED, HAS_PARKED
        <5>3. CASE word[addr[t]] = HAS_PARKED
          BY <3>1, <5>3 DEF EventLoad, Goto, UNLOCKED, LOCKED, HAS_PARKED
        <5> QED BY <4>2, <5>1, <5>2, <5>3
      <4> QED BY <3>1, <4>3 DEF EventLoad
    <3>2. CASE EventCas(t) \/ EventPark(t) \/ EventCheck(t) \/ EventNotify(t)
      BY <3>2 DEF EventCas, EventPark, EventCheck, EventNotify, Goto
    <3>3. CASE OnceStart(t) \/ OnceAlready(t) \/ OnceMarkParked(t) \/ OncePark(t) \/ OnceReload(t)
      BY <3>3 DEF OnceStart, OnceAlready, OnceMarkParked, OncePark, OnceReload, Goto
    <3>4. CASE Enqueue(t) \/ Drain(t)
      BY <3>4 DEF Enqueue, Drain, eventVars
    <3>5. CASE Unparked(t)
      <4>1. pc[t] \in {"waitParked", "onceParked"}
        BY <3>5 DEF Unparked, ParkOk, ParkGiveUp, ParkInv, WaitersAreParked
      <4> QED BY <3>5, <4>1 DEF Unparked, Goto
    <3>6. CASE UnparkWaiters(t) \/ Post(t)
      BY <3>6 DEF UnparkWaiters, Post, Goto, Woken
    <3> QED BY <1>3, <3>1, <3>2, <3>3, <3>4, <3>5, <3>6
            DEF LibraryStep, EventStep, OnceStep, InnerStep
  <2>2. Born' <=> Born
    <3>1. CASE pc' = pc
      BY <3>1 DEF Born
    <3> QED BY <2>1, <3>1, BornStays
  <2>3. word'[Once] = ONCE_INITIALIZED <=> word[Once] = ONCE_INITIALIZED
    <3>1. \/ word' = word
          \/ /\ pc[t] \in {"waitCas", "notify"}
             /\ \E x : word' = [word EXCEPT ![addr[t]] = x]
          \/ /\ pc[t] = "once" /\ word[addr[t]] \in {UNLOCKED, LOCKED}
             /\ \E x \in {LOCKED, LOCKED + HAS_PARKED} : word' = [word EXCEPT ![addr[t]] = x]
      <4>1. CASE EventStep(t)
        BY <4>1 DEF EventStep, EventLoad, EventCas, EventPark, EventCheck, EventNotify, Store
      <4>2. CASE OnceStep(t)
        BY <1>3, <4>2 DEF OnceStep, OnceStart, OnceAlready, OnceMarkParked, OncePark,
                          OnceReload, Store
      <4>3. CASE InnerStep(t)
        BY <4>3 DEF InnerStep, Enqueue, Drain, Unparked, UnparkWaiters, Post, eventVars
      <4> QED BY <4>1, <4>2, <4>3 DEF LibraryStep
    <3>2. pc[t] \in {"waitCas", "notify"} => addr[t] # Once
      BY WhereItIs, HandleAddrs DEF WaitPCs
    <3>3. pc[t] = "once" => addr[t] = Once
      BY WhereItIs
    <3>4. addr[t] # Once =>
             \A x : [word EXCEPT ![addr[t]] = x][Once] = word[Once]
      BY HandleAddrs
    <3>5. \A x : [word EXCEPT ![Once] = x][Once] = x
      BY HandleAddrs
    <3>6. CASE pc[t] \in {"waitCas", "notify"}
      BY <3>1, <3>2, <3>4, <3>6
    <3>7. CASE pc[t] \notin {"waitCas", "notify"}
      BY <3>1, <3>3, <3>5, <3>7 DEF UNLOCKED, LOCKED, HAS_PARKED, ONCE_INITIALIZED
    <3> QED BY <3>6, <3>7
  <2>4. Silent
    BY <1>1, <2>2, <2>3 DEF Silent
  <2> QED BY <2>4, SilentStutters
<1> QED BY <1>2, <1>3


(* A method goes on, or the thread does, and the life of the handle does   *)
(* not show it.                                                            *)
LEMMA QuietStep ==
    ASSUME HandleInv, NEW t \in Threads, UNCHANGED <<word, state, reaped>>,
           NEW l, pc[t] # "unborn", l # "unborn", pc' = [pc EXCEPT ![t] = l],
           refcount' = 0 <=> refcount = 0
    PROVE  LifeStep
<1>1. Born' <=> Born
  BY BornStays
<1> QED BY <1>1, SilentStutters DEF Silent

LEMMA CallsAreSilent ==
    ASSUME Inv, NEW t \in Threads, CallStep(t) \/ WaitFailure(t)
    PROVE  LifeStep \/ StartCall(t)
<1> USE DEF Inv
<1>1. Home(t) # "unborn"
  BY DEF Home
<1>2. CASE JoinCall(t)
  BY <1>1, <1>2, QuietStep DEF JoinCall, MayCall, BeginWait, Begin, Goto
<1>3. CASE SetDoneCall(t)
  BY <1>1, <1>3, QuietStep DEF SetDoneCall, MayCall, BeginOnce, Goto
<1>4. CASE WaitFailure(t)
  <2>1. UNCHANGED <<word, pc, handleVars>>
    BY <1>4 DEF WaitFailure, SemaInterrupted, SemaTimedOut, eventVars
  <2>2. Silent
    BY <2>1 DEF Silent, Born, handleVars
  <2> QED BY <2>2, SilentStutters
<1> QED BY <1>2, <1>3, <1>4 DEF CallStep

LEMMA MethodsAreSilent ==
    ASSUME Inv, NEW t \in Threads,
           \/ CreateFails(t) \/ Started(t) \/ JoinWaits(t) \/ JoinGoesOn(t)
           \/ FunctionFails(t) \/ ForceDone(t) \/ EventIsSet(t) \/ OnceDone(t)
    PROVE  LifeStep
<1> USE DEF Inv
<1>1. Home(t) # "unborn"
  BY DEF Home
<1>2. CASE CreateFails(t)
  BY <1>2, QuietStep DEF CreateFails, BeginOnce, Goto
<1>3. CASE Started(t) \/ OnceDone(t)
  BY <1>1, <1>3, QuietStep DEF Started, OnceDone, Return, Goto
<1>4. CASE JoinWaits(t)
  BY <1>1, <1>4, QuietStep DEF JoinWaits, Return, BeginWait, Begin, Goto, handleVars
<1>5. CASE JoinGoesOn(t)
  BY <1>5, QuietStep DEF JoinGoesOn, BeginOnce, Goto, handleVars
<1>6. CASE FunctionFails(t)
  BY <1>6, QuietStep DEF FunctionFails, Goto, handleVars
<1>7. CASE ForceDone(t)
  BY <1>7, QuietStep DEF ForceDone, BeginNotify, Begin, Goto, handleVars
<1>8. CASE EventIsSet(t)
  BY <1>8, QuietStep DEF EventIsSet, Goto, handleVars
<1> QED BY <1>2, <1>3, <1>4, <1>5, <1>6, <1>7, <1>8

LEMMA StartIsMapped ==
    ASSUME Inv, NEW t \in Threads, StartCall(t)
    PROVE  LifeStep
<1> USE DEF Inv, HandleInv
<1>1. /\ state = NOT_STARTED /\ state' = STARTING /\ object
      /\ pc[t] # "unborn" /\ pc' = [pc EXCEPT ![t] = "create"]
      /\ UNCHANGED <<word, refcount, reaped>>
  BY DEF StartCall, MayCall, Home, Goto
<1>2. Born' <=> Born
  BY <1>1, BornStays
<1>3. refcount # 0
  BY <1>1 DEF RefsAddUp, RunnerRefs
<1>4. Life!Start
  BY <1>1, <1>2, <1>3 DEF Life!Start, Life!Moves, Born
<1> QED BY <1>4 DEF LifeStep, Life!LifeNext

(* Its caller is the only one in a method, which keeps the object alive.   *)
LEMMA CreateIsMapped ==
    ASSUME Inv, NEW t \in Threads, Create(t)
    PROVE  LifeStep
<1> USE DEF Inv, HandleInv, HandleTypes
<1>1. /\ pc[t] = "create" /\ refcount' = refcount + 1
      /\ pc' = [pc EXCEPT ![t] = "started", ![Runner] = "wait"]
      /\ UNCHANGED <<word, state, reaped>>
  BY DEF Create, parkRest
<1>2. state = STARTING /\ InMethod(t)
  BY <1>1, MethodFacts DEF CallersFindState, FindsState
<1>3. Starting(t) /\ call[t] = "start" /\ refcount # 0
  BY <1>1, <1>2, MethodFacts
<1>4. ~Born /\ Born'
  BY <1>1, <1>3, HandleAddrs DEF Starting, Born
<1>5. refcount' # 0
  BY <1>1 DEF RefsAddUp, RunnerRefs
<1>6. Life!Create
  BY <1>1, <1>2, <1>3, <1>4, <1>5 DEF Life!Create, Born
<1> QED BY <1>6 DEF LifeStep, Life!LifeNext

LEMMA MarkRunningIsMapped ==
    ASSUME Inv, NEW t \in Threads, MarkRunning(t)
    PROVE  LifeStep
<1> USE DEF Inv, HandleInv, HandleTypes
<1>1. /\ pc[t] = "started" /\ state' = RUNNING
      /\ pc' = [pc EXCEPT ![t] = "notify"]
      /\ UNCHANGED <<word, refcount, reaped>>
  BY DEF MarkRunning, BeginNotify, Begin, Goto
<1>2. state = STARTING /\ call[t] = "start" /\ InMethod(t)
  BY <1>1, MethodFacts DEF CallersFindState, FindsState
<1>3. call[Runner] = "boot" /\ refcount # 0
  BY <1>1, <1>2, MethodFacts DEF Starting
<1>4. Born
  BY <1>3, HandleAddrs DEF CallsFit, CallFits, WaitPCs, Born
<1>5. Born'
  BY <1>1, <1>4, BornStays
<1>6. Life!Run
  BY <1>1, <1>2, <1>3, <1>4, <1>5 DEF Life!Run, Life!Moves, Born
<1> QED BY <1>6 DEF LifeStep, Life!LifeNext

(* The thread's own two steps: the references it has are not the last.     *)
LEMMA RunnerIsSilent ==
    ASSUME Inv, NEW t \in Threads, Booted(t) \/ BodyEnds(t)
    PROVE  LifeStep
<1> USE DEF Inv, HandleInv, HandleTypes
<1>1. CASE Booted(t)
  <2>1. t = Runner /\ refcount \in Nat \ {0}
    BY <1>1, HandleAddrs DEF Booted, CallsFit, CallFits, RefsAddUp, RunnerRefs
  <2>2. refcount' # 0
    BY <1>1, <2>1 DEF Booted
  <2> QED BY <1>1, <2>1, <2>2, QuietStep DEF Booted, BeginWait, Begin, Goto
<1>2. CASE BodyEnds(t)
  <2>1. pc[t] = "body" /\ refcount' = refcount - 1
    BY <1>2 DEF BodyEnds
  <2>2. CallFits(t) /\ call[t] \in Calls
    BY DEF CallsFit
  <2>3. t = Runner /\ call[t] = "none"
    BY <2>1, <2>2, HandleAddrs
       DEF CallFits, Calls, Joins, WaitPCs, NotifyPCs, OncePCs
  <2>4. refcount \in {2, 3}
    BY <2>1, <2>3 DEF RefsAddUp, RunnerRefs
  <2>5. refcount' # 0
    BY <2>1, <2>4
  <2>6. pc' = [pc EXCEPT ![t] = "notify"] /\ UNCHANGED <<word, state, reaped>>
    BY <1>2 DEF BodyEnds, BeginNotify, Begin, Goto
  <2>7. refcount' = 0 <=> refcount = 0
    BY <2>4, <2>5
  <2>8. pc[t] # "unborn"
    BY <2>1
  <2> QED BY <2>6, <2>7, <2>8, QuietStep
<1> QED BY <1>1, <1>2


(* A join or set_done that found the thread running is the first to reap   *)
(* it: nobody else is in the function.                                     *)
LEMMA ReapIsMapped ==
    ASSUME Inv, NEW t \in Threads, JoinThread(t) \/ SetDone(t)
    PROVE  LifeStep
<1> USE DEF Inv, HandleInv, HandleTypes
<1>1. /\ pc[t] = "run" /\ call[t] \in Joins \cup {"setDone"} /\ reaped' = reaped + 1
      /\ \E l \in {"finish", "notify"} : pc' = [pc EXCEPT ![t] = l]
      /\ UNCHANGED <<word, state, refcount>>
  BY DEF JoinThread, SetDone, BeginNotify, Begin, Goto, Joins
<1>2. addr[t] = Once /\ state = RUNNING /\ refcount # 0
  BY <1>1, WhereItIs, MethodFacts DEF CallersFindState, FindsState, Joins
<1>3. InFunction(t) /\ ~Succeeds(t)
  BY <1>1, <1>2, HandleAddrs DEF InFunction, Succeeds
<1>4. \A u \in Threads : ~Succeeds(u)
  BY <1>3, MethodFacts DEF FlagShowsFunction
<1>5. reaped = 0
  BY <1>2, <1>4 DEF ReapedWhenDone, RUNNING, DONE
<1>6. Born' <=> Born
  BY <1>1, BornStays
<1>7. Life!Reap
  BY <1>1, <1>2, <1>5, <1>6 DEF Life!Reap, Born
<1> QED BY <1>7 DEF LifeStep, Life!LifeNext

(* The state becomes DONE after the reaping, or where there was nothing to *)
(* reap.                                                                   *)
LEMMA FinishIsMapped ==
    ASSUME Inv, NEW t \in Threads, Finish(t)
    PROVE  LifeStep
<1> USE DEF Inv, HandleInv, HandleTypes
<1>1. /\ pc[t] = "finish" /\ state' = DONE
      /\ pc' = [pc EXCEPT ![t] = "unlock"]
      /\ UNCHANGED <<word, refcount, reaped>>
  BY DEF Finish, Goto
<1>2. Born' <=> Born
  BY <1>1, BornStays
<1>3. /\ Succeeds(t) /\ InMethod(t) /\ refcount # 0 /\ state # NOT_STARTED
      /\ call[t] \in Joins \cup {"setDone", "force"}
  <2>1. Succeeds(t)
    BY <1>1 DEF Succeeds
  <2> QED BY <2>1, MethodFacts
<1>4. CASE state = DONE
  BY <1>1, <1>2, <1>4, SilentStutters DEF Silent
<1>5. CASE state = STARTING
  <2>1. ~Born
    BY <1>1, <1>3, <1>5, MethodFacts DEF Starting
  <2>2. Life!Fail
    BY <1>1, <1>2, <1>3, <1>5, <2>1 DEF Life!Fail, Life!Moves, Born
  <2> QED BY <2>2 DEF LifeStep, Life!LifeNext
<1>6. CASE state = RUNNING
  <2>1. call[t] # "force"
    BY <1>6 DEF CallersFindState, FindsState, STARTING, RUNNING, DONE
  <2>2. reaped = 1
    BY <1>3, <2>1 DEF ReapedWhenDone
  <2>3. Life!Finish
    BY <1>1, <1>2, <1>3, <1>6, <2>2 DEF Life!Finish, Life!Moves, Born
  <2> QED BY <2>3 DEF LifeStep, Life!LifeNext
<1> QED BY <1>3, <1>4, <1>5, <1>6

(* The last reference frees the handle, and only then reaps.               *)
LEMMA DecrefIsMapped ==
    ASSUME HandleInv, Decref, Born' <=> Born, UNCHANGED word, state # STARTING,
           refcount \in Nat \ {0},
           refcount = 1 => /\ \A u \in Threads : ~InMethod(u)
                           /\ \A u \in Threads : ~Succeeds(u)
    PROVE  LifeStep
<1> USE DEF HandleInv, HandleTypes
<1>1. CASE refcount # 1
  <2>1. Silent
    BY <1>1 DEF Silent, Decref
  <2> QED BY <2>1, SilentStutters
<1>2. CASE refcount = 1
  <2>1. refcount' = 0
    BY <1>2 DEF Decref
  <2>2. CASE state = RUNNING
    <3>1. reaped = 0
      BY <1>2, <2>2 DEF ReapedWhenDone, RUNNING, DONE
    <3>2. state' = DONE /\ reaped' = 1
      BY <1>2, <2>2, <3>1 DEF Decref
    <3>3. Life!Free
      BY <1>2, <2>1, <2>2, <3>1, <3>2 DEF Life!Free, Life!Moves, Born
    <3> QED BY <3>3 DEF LifeStep, Life!LifeNext
  <2>3. CASE state # RUNNING
    <3>1. state \in {NOT_STARTED, DONE} /\ UNCHANGED <<state, reaped>>
      BY <1>2, <2>3 DEF Decref
    <3>2. Life!Free
      BY <1>2, <2>1, <3>1 DEF Life!Free, Born
    <3> QED BY <3>2 DEF LifeStep, Life!LifeNext
  <2> QED BY <2>2, <2>3
<1> QED BY <1>1, <1>2

LEMMA RunnerExitsIsMapped ==
    ASSUME Inv, NEW t \in Threads, RunnerExits(t)
    PROVE  LifeStep
<1> USE DEF Inv, HandleInv, HandleTypes
<1>1. /\ pc[t] = "notified" /\ call[t] = "exit" /\ Decref
      /\ pc' = [pc EXCEPT ![t] = "gone"]
      /\ UNCHANGED word
  BY DEF RunnerExits, Goto
<1>2. t = Runner
  BY <1>1, CallerFacts DEF CallFits
<1>3. Born /\ Born'
  BY <1>1, <1>2, BornStays DEF Born
<1>4. \A u \in Threads : ~Starting(u)
  BY <1>1, <1>2, <1>3 DEF Starting
<1>5. state # STARTING
  BY <1>4 DEF StateFits
<1>6. refcount = 1 + (IF object THEN 1 ELSE 0)
  BY <1>1, <1>2 DEF RefsAddUp, RunnerRefs
<1>7. refcount = 1 => \A u \in Threads : ~InMethod(u)
  BY <1>6 DEF RefsAddUp
<1>8. \A u \in Threads : ~InMethod(u) => ~Succeeds(u)
  BY MethodFacts
<1>9. refcount \in Nat \ {0}
  BY <1>6
<1> QED BY <1>1, <1>3, <1>5, <1>7, <1>8, <1>9, DecrefIsMapped

LEMMA ObjectDiesIsMapped ==
    ASSUME Inv, ObjectDies
    PROVE  LifeStep
<1> USE DEF Inv, HandleInv, HandleTypes
<1>1. /\ object /\ Decref /\ UNCHANGED <<word, pc>>
      /\ \A u \in Threads : ~InMethod(u)
  BY DEF ObjectDies, eventVars
<1>2. \A u \in Threads : ~Succeeds(u) /\ ~Starting(u)
  BY <1>1, MethodFacts
<1>3. state # STARTING
  BY <1>2 DEF StateFits
<1>4. refcount \in Nat \ {0}
  BY <1>1 DEF RefsAddUp, RunnerRefs
<1>5. Born' <=> Born
  BY <1>1 DEF Born
<1> QED BY <1>1, <1>2, <1>3, <1>4, <1>5, DecrefIsMapped

LEMMA StepIsMapped == Inv /\ [Next]_vars => LifeStep
<1> SUFFICES ASSUME Inv, [Next]_vars PROVE LifeStep
  OBVIOUS
<1>1. ASSUME NEW t \in Threads, ThreadStep(t) PROVE LifeStep
  BY <1>1, LibraryIsMapped, MethodsAreSilent, CreateIsMapped, MarkRunningIsMapped,
     RunnerIsSilent, RunnerExitsIsMapped, ReapIsMapped, FinishIsMapped DEF ThreadStep
<1>2. ASSUME NEW t \in Threads, CallStep(t) \/ WaitFailure(t) PROVE LifeStep
  BY <1>2, CallsAreSilent, StartIsMapped
<1>3. CASE ObjectDies
  BY <1>3, ObjectDiesIsMapped
<1>4. CASE UNCHANGED vars
  <2>1. UNCHANGED <<word, pc, state, refcount, reaped>>
    BY <1>4 DEF vars, eventVars, handleVars
  <2>2. Silent
    BY <2>1 DEF Silent, Born
  <2> QED BY <2>2, SilentStutters
<1> QED BY <1>1, <1>2, <1>3, <1>4 DEF Next

(* The handle goes through its states as the diagram says and treats its   *)
(* OS thread as the comment below it promises (_threadmodule.c:69-95),     *)
(* whichever starts, joins and declarations overlap.                       *)
THEOREM LifeIsImplemented == Spec => ImplementsLife
<1>1. Init => Life!LifeInit
  BY HandleAddrs DEF Init, Life!LifeInit, UNLOCKED, ONCE_INITIALIZED
<1>2. Inv /\ [Next]_vars => [Life!LifeNext]_Life!lifeVars
  BY StepIsMapped DEF LifeStep
<1> QED BY <1>1, <1>2, Invariance, PTL DEF Spec, ImplementsLife, Life!LifeSpec

=============================================================================
