----------------------------- MODULE RWMutexProofs -----------------------------
(***************************************************************************)
(* The safety properties of RWMutex, for every finite set of threads and   *)
(* any number of locks that share buckets of the parking lot.              *)
(*                                                                         *)
(* Who is inside is counted by the bits whatever the queue does.  That     *)
(* nobody is forgotten follows from three facts about the bits: a thread   *)
(* that waits keeps HAS_PARKED on, HAS_PARKED without WRITE_LOCKED means   *)
(* that a writer waits, and when the last reader is out either the queue   *)
(* is about to be emptied or such a writer is already on its way.  A       *)
(* thread that is to be queued holds the bucket's mutex since it compared  *)
(* the bits, which keeps whoever empties the queue out.                    *)
(***************************************************************************)
EXTENDS RWMutex, SequenceTheorems, FiniteSetTheorems, TLAPS

(* A thread that is to be queued, or is queued and nobody has begun to     *)
(* wake it.                                                                *)
Waits(t) ==
    \/ parkState[t] = "enqueue"
    \/ Queued(t)

(* The queue is about to be emptied.                                       *)
Waker(m) == \E u \in Threads : addr[u] = m /\ pc[u] = "unpark"

(* Who waits is in the parking lot: with the bucket's mutex before it is   *)
(* in the queue of its bucket.                                             *)
WaitersAreParked ==
    \A t \in Threads :
        /\ pc[t] = "parked" <=> parkState[t] # "out"
        /\ parkState[t] = "enqueue" => bucketOwner[MyBucket(t)] = t
        /\ Queued(t) => t \in ToSet(Queue(t))

(* The bits count who is inside.                                           *)
BitsCount ==
    \A m \in Addrs :
        /\ ReaderCount(bits[m]) = Cardinality({t \in Threads : Reads(t, m)})
        /\ Cardinality({t \in Threads : Writes(t, m)}) =
               IF WriteLocked(bits[m]) THEN 1 ELSE 0
        /\ WriteLocked(bits[m]) => ReaderCount(bits[m]) = 0

(* The bits tell who waits.                                                *)
WaitersAreAnnounced ==
    \A t \in Threads : Waits(t) => HasParked(bits[addr[t]]) \/ Waker(addr[t])

Wants(t, m) ==
    addr[t] = m /\ kind[t] = "write" /\ pc[t] \in {"loop", "reload", "parked"}

ParkedMeansWriter ==
    \A m \in Addrs :
        HasParked(bits[m]) /\ ~WriteLocked(bits[m]) =>
            \E t \in Threads : Wants(t, m)

LastReaderWakes ==
    \A m \in Addrs :
        HasParked(bits[m]) /\ ~WriteLocked(bits[m]) /\ ReaderCount(bits[m]) = 0 =>
            Waker(m) \/ \E t \in Threads : Wants(t, m) /\ ~Waits(t)

Inv ==
    /\ TypeOK
    /\ WaitersAreParked
    /\ BitsCount
    /\ WaitersAreAnnounced
    /\ ParkedMeansWriter
    /\ LastReaderWakes

-----------------------------------------------------------------------------
(* The bits as numbers.                                                    *)
LEMMA BitsFacts ==
    ASSUME NEW x \in Nat
    PROVE  /\ ReaderCount(x) \in Nat
           /\ ReaderCount(x) = 0 /\ ~WriteLocked(x) => x \in {0, HAS_PARKED}
           /\ x \in {0, HAS_PARKED} => ReaderCount(x) = 0 /\ ~WriteLocked(x)
           /\ HasParked(HAS_PARKED) /\ ~HasParked(0)
BY DEF ReaderCount, WriteLocked, HasParked, ONE_READER, HAS_PARKED

(* One reader more, or less, changes nothing else.                         *)
LEMMA ReaderFacts ==
    ASSUME NEW x \in Nat
    PROVE  /\ x + ONE_READER \in Nat
           /\ ReaderCount(x + ONE_READER) = ReaderCount(x) + 1
           /\ WriteLocked(x + ONE_READER) <=> WriteLocked(x)
           /\ HasParked(x + ONE_READER) <=> HasParked(x)
           /\ ReaderCount(x) > 0 =>
                 /\ x - ONE_READER \in Nat
                 /\ ReaderCount(x - ONE_READER) = ReaderCount(x) - 1
                 /\ WriteLocked(x - ONE_READER) <=> WriteLocked(x)
                 /\ HasParked(x - ONE_READER) <=> HasParked(x)
BY DEF ReaderCount, WriteLocked, HasParked, ONE_READER

(* A writer comes in.                                                      *)
LEMMA WriterFacts ==
    ASSUME NEW x \in {0, HAS_PARKED}
    PROVE  /\ x + WRITE_LOCKED \in Nat
           /\ ReaderCount(x + WRITE_LOCKED) = 0
           /\ WriteLocked(x + WRITE_LOCKED)
           /\ HasParked(x + WRITE_LOCKED) <=> HasParked(x)
BY DEF ReaderCount, WriteLocked, HasParked, ONE_READER, HAS_PARKED, WRITE_LOCKED

(* HAS_PARKED goes on.                                                     *)
LEMMA ParkedFacts ==
    ASSUME NEW x \in Nat
    PROVE  /\ WithParked(x) \in Nat
           /\ ReaderCount(WithParked(x)) = ReaderCount(x)
           /\ WriteLocked(WithParked(x)) <=> WriteLocked(x)
           /\ HasParked(WithParked(x))
BY DEF ReaderCount, WriteLocked, HasParked, WithParked, ONE_READER, HAS_PARKED

(* A thread is queued behind the others.                                   *)
LEMMA AppendFacts ==
    ASSUME NEW q \in Seq(Threads), NEW t \in Threads
    PROVE  /\ Append(q, t) \in Seq(Threads)
           /\ \A w \in Threads : w \in ToSet(q) \/ w = t => w \in ToSet(Append(q, t))
<1> DEFINE r == Append(q, t)
<1>1. /\ r \in Seq(Threads)
      /\ Len(q) \in Nat
      /\ Len(r) = Len(q) + 1
      /\ r[Len(q) + 1] = t
      /\ \A i \in 1..Len(q) : r[i] = q[i]
  OBVIOUS
<1>2. DOMAIN r = 1..Len(r) /\ DOMAIN q = 1..Len(q)
  BY <1>1
<1> HIDE DEF r
<1>3. \A i \in DOMAIN q : i \in DOMAIN r /\ r[i] = q[i]
  BY <1>1, <1>2
<1>4. Len(q) + 1 \in DOMAIN r
  BY <1>1, <1>2
<1>5. \A w \in Threads : w \in ToSet(q) \/ w = t => w \in ToSet(r)
  BY <1>1, <1>3, <1>4 DEF ToSet
<1> QED BY <1>1, <1>5 DEF r

(* What is left of a queue when position k is taken out.                   *)
LEMMA RemoveAtFacts ==
    ASSUME NEW q \in Seq(Threads), NEW k \in 1..Len(q)
    PROVE  /\ RemoveAt(q, k) \in Seq(Threads)
           /\ \A w \in ToSet(q) : w # q[k] => w \in ToSet(RemoveAt(q, k))
<1> DEFINE left == SubSeq(q, 1, k - 1)
           right == SubSeq(q, k + 1, Len(q))
           r == left \o right
<1>1. /\ left \in Seq(Threads) /\ Len(left) = k - 1
      /\ \A i \in 1..(k - 1) : left[i] = q[i]
  BY SMT
<1>2. /\ right \in Seq(Threads) /\ Len(right) = Len(q) - k
      /\ \A i \in 1..(Len(q) - k) : right[i] = q[k + i]
  BY SMT
<1>3. RemoveAt(q, k) = r
  BY DEF RemoveAt
<1> HIDE DEF left, right
<1>4. /\ r \in Seq(Threads)
      /\ Len(r) = Len(q) - 1
      /\ \A i \in 1..(Len(q) - 1) :
             r[i] = IF i <= k - 1 THEN left[i] ELSE right[i - (k - 1)]
  <2>1. /\ r \in Seq(Threads)
        /\ Len(r) = Len(left) + Len(right)
        /\ \A i \in 1..(Len(left) + Len(right)) :
               r[i] = IF i <= Len(left) THEN left[i] ELSE right[i - Len(left)]
    BY <1>1, <1>2, ConcatProperties
  <2>2. Len(left) = k - 1 /\ Len(left) + Len(right) = Len(q) - 1
    BY <1>1, <1>2
  <2> QED BY <2>1, <2>2
<1> HIDE DEF r
<1>5. ASSUME NEW i \in 1..Len(q), i # k
      PROVE  q[i] \in ToSet(r)
  <2>1. CASE i < k
    <3>1. i \in 1..Len(r) /\ r[i] = q[i]
      BY <1>1, <1>4, <2>1
    <3> QED BY <3>1 DEF ToSet
  <2>2. CASE i > k
    <3>1. i - 1 \in 1..Len(r) /\ r[i - 1] = right[i - k]
      BY <1>4, <2>2
    <3>2. right[i - k] = q[i]
      BY <1>2, <2>2
    <3>3. \E j \in DOMAIN r : r[j] = q[i]
      BY <1>4, <3>1, <3>2
    <3> QED BY <3>3 DEF ToSet
  <2> QED BY <1>5, <2>1, <2>2
<1>6. ASSUME NEW w \in ToSet(q), w # q[k] PROVE w \in ToSet(r)
  BY <1>5, <1>6 DEF ToSet
<1> QED BY <1>3, <1>4, <1>6

(* What is left of a queue when only some positions stay, in their order.  *)
LEMMA AscendingFacts ==
    ASSUME NEW q \in Seq(Threads), NEW P \in SUBSET (1..Len(q)),
           NEW f \in Ascending(P)
    PROVE  LET r == [i \in 1..Cardinality(P) |-> q[f[i]]]
           IN  /\ r \in Seq(Threads)
               /\ \A i \in P : q[i] \in ToSet(r)
<1> DEFINE n == Cardinality(P)
           r == [i \in 1..n |-> q[f[i]]]
<1>1. IsFiniteSet(P) /\ n \in Nat
  <2>1. IsFiniteSet(1..Len(q))
    BY FS_Interval
  <2> QED BY <2>1, FS_Subset, FS_CardinalityType
<1>2. f \in [1..n -> P] /\ \A i, j \in 1..n : i < j => f[i] < f[j]
  BY DEF Ascending
<1> HIDE DEF n
<1>3. f \in Injection(1..n, P)
  <2>1. \A i, j \in 1..n : f[i] = f[j] => i = j
    <3> SUFFICES ASSUME NEW i \in 1..n, NEW j \in 1..n, i # j
                 PROVE  f[i] # f[j]
      OBVIOUS
    <3>1. i \in Int /\ j \in Int /\ f[i] \in Int /\ f[j] \in Int
      <4>1. f[i] \in 1..Len(q) /\ f[j] \in 1..Len(q)
        BY <1>2
      <4> QED BY <1>1, <4>1
    <3>2. i < j \/ j < i
      BY <3>1
    <3> QED BY <1>2, <3>1, <3>2
  <2> QED BY <1>2, <2>1 DEF Injection, IsInjective
<1>4. Cardinality(1..n) = n
  BY <1>1, FS_Interval
<1>5. f \in Surjection(1..n, P)
  BY <1>1, <1>3, <1>4, FS_Injection DEF n
<1>6. r \in Seq(Threads)
  <2>1. \A i \in 1..n : f[i] \in 1..Len(q)
    BY <1>2
  <2>2. \A i \in 1..n : q[f[i]] \in Threads
    BY <2>1
  <2> QED BY <1>1, <2>2
<1>7. DOMAIN r = 1..n
  OBVIOUS
<1>8. ASSUME NEW i \in P PROVE q[i] \in ToSet(r)
  <2>1. PICK k \in 1..n : f[k] = i
    BY <1>5 DEF Surjection
  <2>2. r[k] = q[i]
    BY <2>1
  <2> QED BY <1>7, <2>2 DEF ToSet
<1> QED BY <1>6, <1>8 DEF n

-----------------------------------------------------------------------------
(* Nobody is inside at first, and nobody waits.                            *)
LEMMA InvInit == Init => Inv
<1> SUFFICES ASSUME Init PROVE Inv
  OBVIOUS
<1>1. TypeOK
  BY DEF Init, ParkInit, TypeOK, ParkTypeOK, ParkStates, PCs, Kinds
<1>2. WaitersAreParked
  BY DEF Init, ParkInit, WaitersAreParked, Queued
<1>3. BitsCount
  <2>1. \A m : {t \in Threads : Reads(t, m)} = {} /\ {t \in Threads : Writes(t, m)} = {}
    BY DEF Init, Reads, Writes
  <2>2. Cardinality({}) = 0
    BY FS_EmptySet
  <2> QED BY <2>1, <2>2, BitsFacts DEF Init, BitsCount
<1>4. WaitersAreAnnounced
  BY DEF Init, ParkInit, WaitersAreAnnounced, Waits, Queued
<1>5. ParkedMeansWriter /\ LastReaderWakes
  BY BitsFacts DEF Init, ParkedMeansWriter, LastReaderWakes
<1> QED BY <1>1, <1>2, <1>3, <1>4, <1>5 DEF Inv

(* Who is inside, and the bits that count them, have not changed.          *)
LEMMA CountKept ==
    ASSUME BitsCount,
           \A m \in Addrs, u \in Threads :
               (Reads(u, m)' <=> Reads(u, m)) /\ (Writes(u, m)' <=> Writes(u, m)),
           \A m \in Addrs :
               /\ ReaderCount(bits'[m]) = ReaderCount(bits[m])
               /\ WriteLocked(bits'[m]) <=> WriteLocked(bits[m])
    PROVE  BitsCount'
<1> SUFFICES ASSUME NEW m \in Addrs
             PROVE  /\ ReaderCount(bits'[m]) =
                          Cardinality({u \in Threads : Reads(u, m)'})
                    /\ Cardinality({u \in Threads : Writes(u, m)'}) =
                          IF WriteLocked(bits'[m]) THEN 1 ELSE 0
                    /\ WriteLocked(bits'[m]) => ReaderCount(bits'[m]) = 0
  BY DEF BitsCount
<1>1. /\ {u \in Threads : Reads(u, m)'} = {u \in Threads : Reads(u, m)}
      /\ {u \in Threads : Writes(u, m)'} = {u \in Threads : Writes(u, m)}
  OBVIOUS
<1> QED BY <1>1 DEF BitsCount

(* A step of t leaves the other threads where they are.                    *)
OnlyFor(t) ==
    \A u \in Threads \ {t} :
        /\ pc'[u] = pc[u]
        /\ addr'[u] = addr[u]
        /\ kind'[u] = kind[u]
        /\ parkState'[u] = parkState[u]
        /\ u \in isUnparking' <=> u \in isUnparking

(* What the other threads want, do and wait for is then the same.          *)
LEMMA OthersStay ==
    ASSUME NEW t \in Threads, OnlyFor(t), NEW u \in Threads \ {t}
    PROVE  /\ Waits(u)' <=> Waits(u)
           /\ \A m \in Addrs : /\ Wants(u, m)' <=> Wants(u, m)
                               /\ Reads(u, m)' <=> Reads(u, m)
                               /\ Writes(u, m)' <=> Writes(u, m)
BY DEF OnlyFor, Waits, Queued, Wants, Reads, Writes

(* A waker stays one, unless it is t.                                      *)
LEMMA WakersStay ==
    ASSUME NEW t \in Threads, OnlyFor(t), pc[t] # "unpark"
    PROVE  \A m : Waker(m) => Waker(m)'
BY DEF OnlyFor, Waker

(* A step that changes neither the bits nor who is inside, after which t   *)
(* does not wait unless it waited before.                                  *)
LEMMA QuietStep ==
    ASSUME Inv, NEW t \in Threads, OnlyFor(t), bits' = bits,
           addr' \in [Threads -> Addrs],
           {pc[t], pc'[t]} \cap {"unpark", "held"} = {},
           \A m \in Addrs : Wants(t, m) => Wants(t, m)',
           Waits(t)' => Waits(t) /\ addr'[t] = addr[t]
    PROVE  /\ BitsCount'
           /\ WaitersAreAnnounced'
           /\ ParkedMeansWriter'
           /\ LastReaderWakes'
<1>1. \A m : Waker(m) => Waker(m)'
  BY WakersStay
<1>2. \A u \in Threads : Waits(u)' => Waits(u) /\ addr'[u] = addr[u]
  BY OthersStay DEF OnlyFor
<1>3. \A u \in Threads, m \in Addrs : Wants(u, m) => Wants(u, m)'
  BY OthersStay
<1>4. BitsCount'
  <2>1. \A m \in Addrs : ~Reads(t, m) /\ ~Reads(t, m)' /\ ~Writes(t, m) /\ ~Writes(t, m)'
    BY DEF Reads, Writes
  <2>2. \A m \in Addrs, u \in Threads :
           (Reads(u, m)' <=> Reads(u, m)) /\ (Writes(u, m)' <=> Writes(u, m))
    BY <2>1, OthersStay
  <2> QED BY <2>2, CountKept DEF Inv
<1>5. WaitersAreAnnounced'
  <2>1. ASSUME NEW u \in Threads, Waits(u)', NEW m \in Addrs, m = addr'[u]
        PROVE  HasParked(bits'[m]) \/ Waker(m)'
    <3>1. Waits(u) /\ m = addr[u]
      BY <1>2, <2>1
    <3>2. HasParked(bits[m]) \/ Waker(m)
      BY <3>1 DEF Inv, WaitersAreAnnounced
    <3> QED BY <1>1, <3>2
  <2> QED BY <2>1 DEF WaitersAreAnnounced
<1>6. ParkedMeansWriter'
  BY <1>3 DEF Inv, ParkedMeansWriter
<1>7. LastReaderWakes'
  <2> SUFFICES ASSUME NEW m \in Addrs,
                      HasParked(bits[m]), ~WriteLocked(bits[m]),
                      ReaderCount(bits[m]) = 0
               PROVE  Waker(m)' \/ \E u \in Threads : Wants(u, m)' /\ ~Waits(u)'
    BY DEF LastReaderWakes
  <2>1. Waker(m) \/ \E u \in Threads : Wants(u, m) /\ ~Waits(u)
    BY DEF Inv, LastReaderWakes
  <2> QED BY <1>1, <1>2, <1>3, <2>1
<1> QED BY <1>4, <1>5, <1>6, <1>7

(* A call begins.                                                          *)
LEMMA CallLockKeeps == ASSUME Inv, NEW t \in Threads, CallLock(t) PROVE Inv'
<1> USE DEF Inv, TypeOK, ParkTypeOK, CallLock, Goto
<1>1. TypeOK'
  BY BucketOfType DEF ParkStates, PCs, Kinds, Queue, MyBucket
<1>2. WaitersAreParked'
  BY NoThreadType, BucketOfType
     DEF WaitersAreParked, Queued, Queue, MyBucket, BucketFree
<1>3. OnlyFor(t) /\ bits' = bits
  BY DEF OnlyFor
<1>4. {pc[t], pc'[t]} \cap {"unpark", "held"} = {}
  BY DEF WaitersAreParked
<1>5. \A m \in Addrs : Wants(t, m) => Wants(t, m)'
  BY DEF Wants
<1>6. Waits(t)' => Waits(t) /\ addr'[t] = addr[t]
  BY DEF WaitersAreParked, Waits, Queued
<1>7. BitsCount' /\ WaitersAreAnnounced' /\ ParkedMeansWriter' /\ LastReaderWakes'
  BY <1>1, <1>3, <1>4, <1>5, <1>6, QuietStep
<1> QED BY <1>1, <1>2, <1>7

(* The bits are loaded again.                                              *)
LEMMA ReloadKeeps == ASSUME Inv, NEW t \in Threads, Reload(t) PROVE Inv'
<1> USE DEF Inv, TypeOK, ParkTypeOK, Reload, Load, Goto, parkVars
<1>1. TypeOK'
  BY BucketOfType DEF ParkStates, PCs, Kinds, Queue, MyBucket
<1>2. WaitersAreParked'
  BY NoThreadType, BucketOfType
     DEF WaitersAreParked, Queued, Queue, MyBucket, BucketFree
<1>3. OnlyFor(t) /\ bits' = bits
  BY DEF OnlyFor
<1>4. {pc[t], pc'[t]} \cap {"unpark", "held"} = {}
  BY DEF WaitersAreParked
<1>5. \A m \in Addrs : Wants(t, m) => Wants(t, m)'
  BY DEF Wants
<1>6. Waits(t)' => Waits(t) /\ addr'[t] = addr[t]
  BY DEF WaitersAreParked, Waits, Queued
<1>7. BitsCount' /\ WaitersAreAnnounced' /\ ParkedMeansWriter' /\ LastReaderWakes'
  BY <1>1, <1>3, <1>4, <1>5, <1>6, QuietStep
<1> QED BY <1>1, <1>2, <1>7

(* A thread that waits is queued.                                          *)
LEMMA EnqueueKeeps == ASSUME Inv, NEW t \in Threads, Enqueue(t) PROVE Inv'
<1> USE DEF Inv, TypeOK, ParkTypeOK, Enqueue, ParkEnqueue, rwVars
<1>1. TypeOK'
  BY BucketOfType DEF ParkStates, PCs, Kinds, Queue, MyBucket
<1>2. WaitersAreParked'
  <2>1. parkState[t] = "enqueue" /\ bucketOwner[MyBucket(t)] = t
        /\ MyBucket(t) \in Buckets
    BY BucketOfType DEF WaitersAreParked, MyBucket
  <2>2. ASSUME NEW u \in Threads
        PROVE  /\ pc'[u] = "parked" <=> parkState'[u] # "out"
               /\ parkState'[u] = "enqueue" => bucketOwner'[MyBucket(u)'] = u
    BY <2>1 DEF WaitersAreParked, MyBucket
  <2>3. ASSUME NEW u \in Threads, Queued(u)'
        PROVE  u \in ToSet(waiters'[MyBucket(u)])
    <3> DEFINE b == MyBucket(t)
               q == waiters[b]
    <3>1. waiters' = [waiters EXCEPT ![b] = Append(q, t)] /\ q \in Seq(Threads)
      BY <2>1
    <3>2. \A w \in Threads : w \in ToSet(q) \/ w = t => w \in ToSet(Append(q, t))
      BY <3>1, AppendFacts
    <3>3. CASE u = t
      BY <2>1, <3>1, <3>2, <3>3
    <3>4. CASE u # t
      <4>1. u \in ToSet(waiters[MyBucket(u)])
        BY <2>3, <3>4 DEF WaitersAreParked, Queued, Queue
      <4> QED BY <2>1, <3>1, <3>2, <4>1
    <3> QED BY <3>3, <3>4
  <2> QED BY <2>2, <2>3 DEF WaitersAreParked, Queue, MyBucket
<1>3. OnlyFor(t) /\ bits' = bits
  BY DEF OnlyFor
<1>4. {pc[t], pc'[t]} \cap {"unpark", "held"} = {}
  BY DEF WaitersAreParked
<1>5. \A m \in Addrs : Wants(t, m) => Wants(t, m)'
  BY DEF Wants
<1>6. Waits(t)' => Waits(t) /\ addr'[t] = addr[t]
  BY DEF WaitersAreParked, Waits, Queued
<1>7. BitsCount' /\ WaitersAreAnnounced' /\ ParkedMeansWriter' /\ LastReaderWakes'
  BY <1>1, <1>3, <1>4, <1>5, <1>6, QuietStep
<1> QED BY <1>1, <1>2, <1>7

(* A wait is interrupted.                                                  *)
LEMMA SemaInterruptedKeeps == ASSUME Inv, NEW t \in Threads, SemaInterrupted(t) PROVE Inv'
<1> USE DEF Inv, TypeOK, ParkTypeOK, SemaInterrupted, WaitFails, rwVars
<1>1. TypeOK'
  BY BucketOfType DEF ParkStates, PCs, Kinds, Queue, MyBucket
<1>2. WaitersAreParked'
  BY NoThreadType, BucketOfType
     DEF WaitersAreParked, Queued, Queue, MyBucket, BucketFree
<1>3. OnlyFor(t) /\ bits' = bits
  BY DEF OnlyFor
<1>4. {pc[t], pc'[t]} \cap {"unpark", "held"} = {}
  BY DEF WaitersAreParked
<1>5. \A m \in Addrs : Wants(t, m) => Wants(t, m)'
  BY DEF Wants
<1>6. Waits(t)' => Waits(t) /\ addr'[t] = addr[t]
  BY DEF WaitersAreParked, Waits, Queued
<1>7. BitsCount' /\ WaitersAreAnnounced' /\ ParkedMeansWriter' /\ LastReaderWakes'
  BY <1>1, <1>3, <1>4, <1>5, <1>6, QuietStep
<1> QED BY <1>1, <1>2, <1>7

(* An interrupted thread stays for the post that is under way.             *)
LEMMA DrainKeeps == ASSUME Inv, NEW t \in Threads, Drain(t) PROVE Inv'
<1> USE DEF Inv, TypeOK, ParkTypeOK, Drain, ParkDrain, rwVars
<1>1. TypeOK'
  BY BucketOfType DEF ParkStates, PCs, Kinds, Queue, MyBucket
<1>2. WaitersAreParked'
  BY NoThreadType, BucketOfType
     DEF WaitersAreParked, Queued, Queue, MyBucket, BucketFree
<1>3. OnlyFor(t) /\ bits' = bits
  BY DEF OnlyFor
<1>4. {pc[t], pc'[t]} \cap {"unpark", "held"} = {}
  BY DEF WaitersAreParked
<1>5. \A m \in Addrs : Wants(t, m) => Wants(t, m)'
  BY DEF Wants
<1>6. Waits(t)' => Waits(t) /\ addr'[t] = addr[t]
  BY DEF WaitersAreParked, Waits, Queued
<1>7. BitsCount' /\ WaitersAreAnnounced' /\ ParkedMeansWriter' /\ LastReaderWakes'
  BY <1>1, <1>3, <1>4, <1>5, <1>6, QuietStep
<1> QED BY <1>1, <1>2, <1>7

(* A thread leaves the parking lot, with a post or after a wait that was   *)
(* interrupted.                                                            *)
LEMMA UnparkedKeeps == ASSUME Inv, NEW t \in Threads, Unparked(t) PROVE Inv'
<1> USE DEF Inv, TypeOK, ParkTypeOK
<1>1. /\ parkState[t] \in {"asleep", "drain", "TIMEOUT", "INTR"}
      /\ pc[t] = "parked"
      /\ pc' = [pc EXCEPT ![t] = "reload"]
      /\ parkState' = [parkState EXCEPT ![t] = "out"]
      /\ UNCHANGED <<bits, v, kind, addr, bucketOwner, waking>>
  BY DEF Unparked, ParkOk, ParkGiveUp, Goto, WaitersAreParked
<1>2. /\ isUnparking' \subseteq Threads
      /\ \A u \in Threads \ {t} : u \in isUnparking' <=> u \in isUnparking
      /\ sema' \in [Threads -> Nat]
  <2>1. CASE ParkOk(t)
    <3>1. sema' = [sema EXCEPT ![t] = sema[t] - 1] /\ sema[t] - 1 \in Nat
      BY <2>1 DEF ParkOk
    <3> QED BY <2>1, <3>1 DEF ParkOk
  <2>2. CASE ParkGiveUp(t)
    BY <2>2 DEF ParkGiveUp
  <2> QED BY <2>1, <2>2 DEF Unparked
<1>3. /\ waiters' \in [Buckets -> Seq(Threads)]
      /\ \A b \in Buckets, u \in Threads :
            u \in ToSet(waiters[b]) => u = t \/ u \in ToSet(waiters'[b])
  <2>1. CASE ParkOk(t)
    BY <2>1 DEF ParkOk
  <2>2. CASE ParkGiveUp(t)
    <3> DEFINE c == MyBucket(t)
    <3>1. c \in Buckets
      BY BucketOfType DEF MyBucket
    <3>2. PICK i \in 1..Len(waiters[c]) :
             /\ waiters[c][i] = t
             /\ waiters' = [waiters EXCEPT ![c] = RemoveAt(@, i)]
      BY <2>2 DEF ParkGiveUp, Queue
    <3> HIDE DEF c
    <3>3. /\ waiters[c] \in Seq(Threads)
          /\ waiters'[c] = RemoveAt(waiters[c], i)
          /\ \A b \in Buckets \ {c} : waiters'[b] = waiters[b]
      BY <3>1, <3>2
    <3>4. /\ RemoveAt(waiters[c], i) \in Seq(Threads)
          /\ \A w \in ToSet(waiters[c]) :
                w # t => w \in ToSet(RemoveAt(waiters[c], i))
      BY <3>2, <3>3, RemoveAtFacts
    <3>5. waiters' \in [Buckets -> Seq(Threads)]
      BY <3>2, <3>4
    <3> QED BY <3>3, <3>4, <3>5
  <2> QED BY <2>1, <2>2 DEF Unparked
<1>4. TypeOK'
  BY <1>1, <1>2, <1>3 DEF ParkStates, PCs
<1>5. WaitersAreParked'
  <2>1. ASSUME NEW u \in Threads
        PROVE  /\ pc'[u] = "parked" <=> parkState'[u] # "out"
               /\ parkState'[u] = "enqueue" => bucketOwner'[MyBucket(u)'] = u
    BY <1>1 DEF WaitersAreParked, MyBucket
  <2>2. ASSUME NEW u \in Threads, Queued(u)'
        PROVE  u \in ToSet(waiters'[MyBucket(u)'])
    <3>1. u # t /\ Queued(u) /\ MyBucket(u)' = MyBucket(u) /\ MyBucket(u) \in Buckets
      BY <1>1, <1>2, <2>2, BucketOfType DEF Queued, MyBucket
    <3> QED BY <1>3, <3>1 DEF WaitersAreParked, Queue
  <2> QED BY <2>1, <2>2 DEF WaitersAreParked, Queue
<1>6. OnlyFor(t) /\ bits' = bits
  BY <1>1, <1>2 DEF OnlyFor
<1>7. {pc[t], pc'[t]} \cap {"unpark", "held"} = {}
  BY <1>1
<1>8. \A m \in Addrs : Wants(t, m) => Wants(t, m)'
  BY <1>1 DEF Wants
<1>9. ~Waits(t)'
  BY <1>1 DEF Waits, Queued
<1>10. BitsCount' /\ WaitersAreAnnounced' /\ ParkedMeansWriter' /\ LastReaderWakes'
  BY <1>4, <1>6, <1>7, <1>8, <1>9, QuietStep
<1> QED BY <1>4, <1>5, <1>10

(* A waiter is posted.                                                     *)
LEMMA PostKeeps == ASSUME Inv, NEW t \in Threads, Post(t) PROVE Inv'
<1> USE DEF Inv, TypeOK, ParkTypeOK
<1>1. PICK w \in Threads : Wakeup(t, w)
  BY DEF Post
<1>2. /\ pc[t] = "wakeup"
      /\ pc' = [pc EXCEPT ![t] = IF waking'[t] = {} THEN "idle" ELSE "wakeup"]
      /\ UNCHANGED <<bits, v, kind, addr, bucketOwner, waiters, parkState, isUnparking>>
      /\ sema' \in [Threads -> Nat]
      /\ waking' \in [Threads -> SUBSET Threads]
  BY <1>1 DEF Post, Wakeup, Goto
<1>3. TypeOK'
  BY <1>2 DEF PCs
<1>4. WaitersAreParked'
  BY <1>2 DEF WaitersAreParked, Queued, Queue, MyBucket
<1>5. OnlyFor(t) /\ bits' = bits
  BY <1>2 DEF OnlyFor
<1>6. {pc[t], pc'[t]} \cap {"unpark", "held"} = {}
  BY <1>2
<1>7. \A m \in Addrs : Wants(t, m) => Wants(t, m)'
  BY <1>2 DEF Wants
<1>8. Waits(t)' => Waits(t) /\ addr'[t] = addr[t]
  BY <1>2 DEF Waits, Queued
<1>9. BitsCount' /\ WaitersAreAnnounced' /\ ParkedMeansWriter' /\ LastReaderWakes'
  BY <1>3, <1>5, <1>6, <1>7, <1>8, QuietStep
<1> QED BY <1>3, <1>4, <1>9

(* An exchange that fails only loads the bits.                             *)
LEMMA CasMissKeeps ==
    ASSUME Inv, NEW t \in Threads, pc[t] = "loop",
           CasMiss(t), UNCHANGED <<parkVars, pc, kind>>
    PROVE  Inv'
<1> USE DEF Inv, TypeOK, ParkTypeOK, CasMiss, Load, parkVars
<1>1. TypeOK'
  OBVIOUS
<1>2. WaitersAreParked'
  BY DEF WaitersAreParked, Queued, Queue, MyBucket
<1>3. OnlyFor(t) /\ bits' = bits
  BY DEF OnlyFor
<1>4. {pc[t], pc'[t]} \cap {"unpark", "held"} = {}
  OBVIOUS
<1>5. \A m \in Addrs : Wants(t, m) => Wants(t, m)'
  BY DEF Wants
<1>6. Waits(t)' => Waits(t) /\ addr'[t] = addr[t]
  BY DEF Waits, Queued
<1>7. BitsCount' /\ WaitersAreAnnounced' /\ ParkedMeansWriter' /\ LastReaderWakes'
  BY <1>1, <1>3, <1>4, <1>5, <1>6, QuietStep
<1> QED BY <1>1, <1>2, <1>7

(* A thread parks if the bits are still those it saw: then somebody is     *)
(* inside, or a writer is, and the thread takes the mutex of the bucket.   *)
LEMMA ParkKeeps == ASSUME Inv, NEW t \in Threads, Park(t) PROVE Inv'
<1> USE DEF Inv, TypeOK, ParkTypeOK
<1>1. pc[t] = "loop" /\ parkState[t] = "out" /\ HasParked(v[t]) /\ MustWait(t)
  BY DEF Park, MustWait, WaitersAreParked
<1>2. CASE ParkAgain(t, bits[addr[t]], v[t]) /\ Goto(t, "reload")
  <2> USE DEF Goto, parkVars
  <2>0. /\ pc' = [pc EXCEPT ![t] = "reload"]
        /\ UNCHANGED parkVars /\ UNCHANGED <<bits, v, kind>>
    BY <1>2 DEF ParkAgain, Park
  <2>1. TypeOK'
    BY <2>0 DEF PCs
  <2>2. WaitersAreParked'
    BY <1>1, <2>0 DEF WaitersAreParked, Queued, Queue, MyBucket
  <2>3. OnlyFor(t) /\ bits' = bits
    BY <2>0 DEF OnlyFor
  <2>4. {pc[t], pc'[t]} \cap {"unpark", "held"} = {}
    BY <1>1, <2>0
  <2>5. \A m \in Addrs : Wants(t, m) => Wants(t, m)'
    BY <2>0 DEF Wants
  <2>6. Waits(t)' => Waits(t) /\ addr'[t] = addr[t]
    BY <2>0 DEF Waits, Queued
  <2>7. BitsCount' /\ WaitersAreAnnounced' /\ ParkedMeansWriter' /\ LastReaderWakes'
    BY <2>1, <2>3, <2>4, <2>5, <2>6, QuietStep
  <2> QED BY <2>1, <2>2, <2>7
<1>3. CASE ParkCompare(t, bits[addr[t]], v[t]) /\ Goto(t, "parked")
  <2> DEFINE a == addr[t]
             x == bits[a]
  <2>1. /\ bucketOwner[MyBucket(t)] = NoThread
        /\ x = v[t] /\ x \in Nat
        /\ bucketOwner' = [bucketOwner EXCEPT ![MyBucket(t)] = t]
        /\ parkState' = [parkState EXCEPT ![t] = "enqueue"]
        /\ pc' = [pc EXCEPT ![t] = "parked"]
        /\ UNCHANGED <<waiters, addr, isUnparking, sema, waking, bits, v, kind>>
    BY <1>3 DEF ParkCompare, BucketFree, Goto, Park
  <2>2. kind[t] = "write" => ~(ReaderCount(x) = 0 /\ ~WriteLocked(x))
    BY <1>1, <2>1, BitsFacts DEF MustWait, WriterMayEnter
  <2>3. TypeOK'
    BY <2>1, BucketOfType DEF PCs, ParkStates, MyBucket
  <2>4. WaitersAreParked'
    BY <2>1, NoThreadType, BucketOfType DEF WaitersAreParked, Queued, Queue, MyBucket
  <2>5. OnlyFor(t)
    BY <2>1 DEF OnlyFor
  <2>6. \A m : Waker(m) => Waker(m)'
    BY <1>1, <2>5, WakersStay
  <2>7. BitsCount'
    <3>1. \A m \in Addrs : ~Reads(t, m) /\ ~Reads(t, m)' /\ ~Writes(t, m) /\ ~Writes(t, m)'
      BY <1>1, <2>1 DEF Reads, Writes
    <3>2. \A m \in Addrs, u \in Threads :
             (Reads(u, m)' <=> Reads(u, m)) /\ (Writes(u, m)' <=> Writes(u, m))
      BY <2>5, <3>1, OthersStay
    <3> QED BY <2>1, <3>2, CountKept
  <2>8. WaitersAreAnnounced'
    <3>1. ASSUME NEW u \in Threads, Waits(u)', NEW m \in Addrs, m = addr'[u]
          PROVE  HasParked(bits'[m]) \/ Waker(m)'
      <4>1. CASE u = t
        BY <1>1, <2>1, <3>1, <4>1
      <4>2. CASE u # t
        <5>1. Waits(u) /\ m = addr[u]
          BY <2>1, <2>5, <3>1, <4>2, OthersStay
        <5> QED BY <2>1, <2>6, <5>1 DEF WaitersAreAnnounced
      <4> QED BY <4>1, <4>2
    <3> QED BY <2>3, <3>1 DEF WaitersAreAnnounced
  <2>9. \A u \in Threads, m \in Addrs : Wants(u, m) => Wants(u, m)'
    BY <2>1 DEF Wants
  <2>10. ParkedMeansWriter'
    BY <2>1, <2>9 DEF ParkedMeansWriter
  <2>11. LastReaderWakes'
    <3> SUFFICES ASSUME NEW m \in Addrs,
                        HasParked(bits[m]), ~WriteLocked(bits[m]),
                        ReaderCount(bits[m]) = 0
                 PROVE  Waker(m)' \/ \E u \in Threads : Wants(u, m)' /\ ~Waits(u)'
      BY <2>1 DEF LastReaderWakes
    <3>1. ~Wants(t, m)
      BY <2>2 DEF Wants
    <3>2. Waker(m) \/ \E u \in Threads : Wants(u, m) /\ ~Waits(u)
      BY DEF LastReaderWakes
    <3>3. \A u \in Threads : Wants(u, m) /\ ~Waits(u) => ~Waits(u)'
      BY <2>5, <3>1, OthersStay
    <3> QED BY <2>6, <2>9, <3>2, <3>3
  <2> QED BY <2>3, <2>4, <2>7, <2>8, <2>10, <2>11
<1> QED BY <1>2, <1>3 DEF Park

-----------------------------------------------------------------------------
(* A step of t changes the bits of its lock only, whose readers and        *)
(* writers the other invariants are shown for.                             *)
LEMMA BitsStep ==
    ASSUME Inv, NEW t \in Threads, OnlyFor(t), UNCHANGED parkVars,
           TypeOK',
           pc[t] \notin {"parked", "unpark"}, pc'[t] # "parked",
           NEW x \in Nat, bits' = [bits EXCEPT ![addr[t]] = x],
           (* who is inside is counted *)
           /\ ReaderCount(x) = Cardinality({u \in Threads : Reads(u, addr[t])'})
           /\ Cardinality({u \in Threads : Writes(u, addr[t])'}) =
                 IF WriteLocked(x) THEN 1 ELSE 0
           /\ WriteLocked(x) => ReaderCount(x) = 0,
           (* who waits is announced *)
           HasParked(bits[addr[t]]) => HasParked(x) \/ pc'[t] = "unpark",
           HasParked(x) /\ ~WriteLocked(x) =>
              \E u \in Threads : Wants(u, addr[t])',
           HasParked(x) /\ ~WriteLocked(x) /\ ReaderCount(x) = 0 =>
              \/ pc'[t] = "unpark"
              \/ Waker(addr[t])
              \/ \E u \in Threads : Wants(u, addr[t])' /\ ~Waits(u)'
    PROVE  Inv'
<1> USE DEF Inv, TypeOK, ParkTypeOK
<1> DEFINE a == addr[t]
<1>1. /\ a \in Addrs /\ bits'[a] = x /\ addr' = addr
      /\ \A m \in Addrs \ {a} : bits'[m] = bits[m]
  BY DEF parkVars
<1>2. WaitersAreParked'
  BY DEF WaitersAreParked, Queued, Queue, MyBucket, OnlyFor, parkVars
<1>3. \A m : Waker(m) => Waker(m)'
  BY WakersStay
<1>4. ~Waits(t) /\ ~Waits(t)'
  BY DEF Waits, Queued, WaitersAreParked, parkVars
<1>5. pc'[t] = "unpark" => Waker(a)'
  BY <1>1 DEF Waker
<1>6. \A m \in Addrs \ {a}, u \in Threads :
         /\ Wants(u, m) <=> Wants(u, m)'
         /\ Reads(u, m)' <=> Reads(u, m)
         /\ Writes(u, m)' <=> Writes(u, m)
  <2> SUFFICES ASSUME NEW m \in Addrs \ {a}, NEW u \in Threads
               PROVE  /\ Wants(u, m) <=> Wants(u, m)'
                      /\ Reads(u, m)' <=> Reads(u, m)
                      /\ Writes(u, m)' <=> Writes(u, m)
    OBVIOUS
  <2>1. CASE u = t
    BY <1>1, <2>1 DEF Wants, Reads, Writes
  <2>2. CASE u # t
    BY <2>2, OthersStay
  <2> QED BY <2>1, <2>2
<1>7. BitsCount'
  <2>1. ASSUME NEW m \in Addrs
        PROVE  /\ ReaderCount(bits'[m]) =
                     Cardinality({u \in Threads : Reads(u, m)'})
               /\ Cardinality({u \in Threads : Writes(u, m)'}) =
                     IF WriteLocked(bits'[m]) THEN 1 ELSE 0
               /\ WriteLocked(bits'[m]) => ReaderCount(bits'[m]) = 0
    <3>1. CASE m = a
      BY <1>1, <3>1
    <3>2. CASE m # a
      <4>1. /\ {u \in Threads : Reads(u, m)'} = {u \in Threads : Reads(u, m)}
            /\ {u \in Threads : Writes(u, m)'} = {u \in Threads : Writes(u, m)}
        BY <1>6, <3>2
      <4> QED BY <1>1, <3>2, <4>1 DEF BitsCount
    <3> QED BY <3>1, <3>2
  <2> QED BY <2>1 DEF BitsCount
<1>8. WaitersAreAnnounced'
  <2>1. ASSUME NEW u \in Threads, Waits(u)', NEW m \in Addrs, m = addr'[u]
        PROVE  HasParked(bits'[m]) \/ Waker(m)'
    <3>1. u # t /\ Waits(u) /\ m = addr[u]
      BY <1>1, <1>4, <2>1, OthersStay
    <3>2. HasParked(bits[m]) \/ Waker(m)
      BY <3>1 DEF WaitersAreAnnounced
    <3> QED BY <1>1, <1>3, <1>5, <3>2
  <2> QED BY <1>1, <2>1 DEF WaitersAreAnnounced
<1>9. ParkedMeansWriter'
  <2>1. ASSUME NEW m \in Addrs, HasParked(bits'[m]), ~WriteLocked(bits'[m])
        PROVE  \E u \in Threads : Wants(u, m)'
    <3>1. CASE m = a
      BY <1>1, <2>1, <3>1
    <3>2. CASE m # a
      BY <1>1, <1>6, <2>1, <3>2 DEF ParkedMeansWriter
    <3> QED BY <3>1, <3>2
  <2> QED BY <2>1 DEF ParkedMeansWriter
<1>10. LastReaderWakes'
  <2>1. ASSUME NEW m \in Addrs, HasParked(bits'[m]), ~WriteLocked(bits'[m]),
               ReaderCount(bits'[m]) = 0
        PROVE  Waker(m)' \/ \E u \in Threads : Wants(u, m)' /\ ~Waits(u)'
    <3>1. CASE m = a
      BY <1>1, <1>3, <1>5, <2>1, <3>1
    <3>2. CASE m # a
      <4>1. Waker(m) \/ \E u \in Threads : Wants(u, m) /\ ~Waits(u)
        BY <1>1, <2>1, <3>2 DEF LastReaderWakes
      <4>2. \A u \in Threads : Waits(u)' <=> Waits(u)
        BY <1>4, OthersStay
      <4> QED BY <1>3, <1>6, <3>2, <4>1, <4>2
    <3> QED BY <3>1, <3>2
  <2> QED BY <2>1 DEF LastReaderWakes
<1> QED BY <1>2, <1>7, <1>8, <1>9, <1>10

(* A thread that has to wait announces it: a reader only while a writer is *)
(* inside, a writer only while somebody is.                                *)
LEMMA SetParkedKeeps == ASSUME Inv, NEW t \in Threads, SetParked(t) PROVE Inv'
<1> USE DEF Inv, TypeOK, ParkTypeOK
<1> DEFINE a == addr[t]
           x == bits[a]
<1>1. pc[t] = "loop" /\ UNCHANGED <<parkVars, pc, kind>> /\ ~HasParked(v[t])
  BY DEF SetParked, MustWait
<1>2. CASE CasMiss(t)
  BY <1>1, <1>2, CasMissKeeps
<1>3. CASE /\ CasSucceeds(t, WithParked(v[t]))
           /\ v' = [v EXCEPT ![t] = WithParked(@)]
  <2>1. x \in Nat /\ x = v[t] /\ bits' = [bits EXCEPT ![a] = WithParked(x)]
    BY <1>3 DEF CasSucceeds
  <2>2. /\ WithParked(x) \in Nat /\ HasParked(WithParked(x))
        /\ ReaderCount(WithParked(x)) = ReaderCount(x)
        /\ WriteLocked(WithParked(x)) <=> WriteLocked(x)
    BY <2>1, ParkedFacts
  <2>3. TypeOK'
    BY <1>1, <1>3, <2>1, <2>2 DEF parkVars
  <2>4. OnlyFor(t) /\ UNCHANGED parkVars
    BY <1>1 DEF OnlyFor, parkVars
  <2>5. kind[t] \in Kinds /\ ~ReaderMayEnter(t) /\ ~WriterMayEnter(t)
    BY DEF SetParked, MustWait
  <2>6. ~WriteLocked(x) => kind[t] = "write"
    BY <1>1, <2>1, <2>5 DEF ReaderMayEnter, Kinds
  <2>7. ~WriteLocked(x) => Wants(t, a)'
    BY <1>1, <2>6 DEF Wants, parkVars
  <2>8. ReaderCount(x) = 0 => WriteLocked(x)
    BY <2>1, <2>5, <2>6, BitsFacts DEF WriterMayEnter
  <2>9. /\ {u \in Threads : Reads(u, a)'} = {u \in Threads : Reads(u, a)}
        /\ {u \in Threads : Writes(u, a)'} = {u \in Threads : Writes(u, a)}
    BY <1>1 DEF Reads, Writes, parkVars
  <2>10. /\ ReaderCount(x) = Cardinality({u \in Threads : Reads(u, a)})
         /\ Cardinality({u \in Threads : Writes(u, a)}) =
                IF WriteLocked(x) THEN 1 ELSE 0
         /\ WriteLocked(x) => ReaderCount(x) = 0
    BY DEF BitsCount
  <2>11. pc[t] \notin {"parked", "unpark"} /\ pc'[t] # "parked"
    BY <1>1
  <2> HIDE DEF x
  <2> QED BY <2>1, <2>2, <2>3, <2>4, <2>7, <2>8, <2>9, <2>10, <2>11, BitsStep,
             ZenonT(60)
<1> QED BY <1>1, <1>2, <1>3 DEF SetParked

(* One more thread, or one less, is in a set of threads.                   *)
LEMMA CountChanges ==
    ASSUME NEW S \in SUBSET Threads, NEW t \in Threads
    PROVE  /\ IsFiniteSet(S)
           /\ Cardinality(S) \in Nat
           /\ t \notin S => Cardinality(S \cup {t}) = Cardinality(S) + 1
           /\ t \in S => /\ Cardinality(S \ {t}) = Cardinality(S) - 1
                         /\ Cardinality(S) > 0
           /\ Cardinality(S) = 0 <=> S = {}
<1>1. IsFiniteSet(S)
  BY ThreadsFinite, FS_Subset
<1>2. Cardinality(S) \in Nat /\ (Cardinality(S) = 0 <=> S = {})
  BY <1>1, FS_CardinalityType, FS_EmptySet
<1>3. t \notin S => Cardinality(S \cup {t}) = Cardinality(S) + 1
  BY <1>1, FS_AddElement
<1>4. t \in S => Cardinality(S \ {t}) = Cardinality(S) - 1
  BY <1>1, FS_RemoveElement
<1>5. t \in S => Cardinality(S) > 0
  BY <1>2
<1> QED BY <1>1, <1>2, <1>3, <1>4, <1>5

(* A reader comes in, while nobody is parked.                              *)
LEMMA RLockKeeps == ASSUME Inv, NEW t \in Threads, RLock(t) PROVE Inv'
<1> USE DEF Inv, TypeOK, ParkTypeOK
<1> DEFINE a == addr[t]
           x == bits[a]
           y == x + ONE_READER
<1>1. pc[t] = "loop" /\ ReaderMayEnter(t) /\ UNCHANGED <<parkVars, kind>>
  BY DEF RLock
<1>2. CASE CasMiss(t) /\ UNCHANGED pc
  BY <1>1, <1>2, CasMissKeeps
<1>3. CASE CasSucceeds(t, v[t] + ONE_READER) /\ Drop(t, "held")
  <2>1. x \in Nat /\ x = v[t] /\ bits' = [bits EXCEPT ![a] = y]
    BY <1>3 DEF CasSucceeds
  <2>2. ~WriteLocked(x) /\ ~HasParked(x) /\ kind[t] = "read"
    BY <1>1, <2>1 DEF ReaderMayEnter
  <2>3. /\ y \in Nat /\ ReaderCount(y) = ReaderCount(x) + 1
        /\ ~WriteLocked(y) /\ ~HasParked(y)
    BY <2>1, <2>2, ReaderFacts
  <2>4. /\ pc' = [pc EXCEPT ![t] = "held"]
        /\ v' = [v EXCEPT ![t] = 0]
    BY <1>3 DEF Drop, Goto
  <2>5. TypeOK'
    BY <1>1, <2>1, <2>3, <2>4 DEF parkVars, PCs
  <2>6. OnlyFor(t) /\ UNCHANGED parkVars
    BY <1>1, <2>4 DEF OnlyFor, parkVars
  <2>7. /\ {u \in Threads : Reads(u, a)'} = {u \in Threads : Reads(u, a)} \cup {t}
        /\ {u \in Threads : Writes(u, a)'} = {u \in Threads : Writes(u, a)}
        /\ t \notin {u \in Threads : Reads(u, a)}
    BY <1>1, <2>2, <2>4 DEF Reads, Writes, parkVars
  <2>8. /\ ReaderCount(x) = Cardinality({u \in Threads : Reads(u, a)})
        /\ Cardinality({u \in Threads : Writes(u, a)}) = 0
    BY <2>2 DEF BitsCount
  <2>9. ReaderCount(y) = Cardinality({u \in Threads : Reads(u, a)'})
    <3> DEFINE S == {u \in Threads : Reads(u, a)}
    <3>1. S \in SUBSET Threads /\ t \notin S
      BY <2>7
    <3>2. {u \in Threads : Reads(u, a)'} = S \cup {t}
      BY <2>7
    <3>3. Cardinality(S) = ReaderCount(x)
      BY <2>8
    <3> HIDE DEF S
    <3>4. Cardinality(S \cup {t}) = Cardinality(S) + 1
      BY <3>1, CountChanges
    <3> QED BY <2>3, <3>2, <3>3, <3>4
  <2>10. pc[t] \notin {"parked", "unpark"} /\ pc'[t] # "parked"
    BY <1>1, <2>4
  <2> HIDE DEF x, y
  <2> QED BY <2>1, <2>2, <2>3, <2>5, <2>6, <2>7, <2>8, <2>9, <2>10, BitsStep DEF x
<1> QED BY <1>2, <1>3 DEF RLock

(* A writer comes in, while nobody is inside.                              *)
LEMMA LockKeeps == ASSUME Inv, NEW t \in Threads, Lock(t) PROVE Inv'
<1> USE DEF Inv, TypeOK, ParkTypeOK
<1> DEFINE a == addr[t]
           x == bits[a]
           y == x + WRITE_LOCKED
<1>1. pc[t] = "loop" /\ WriterMayEnter(t) /\ UNCHANGED <<parkVars, kind>>
  BY DEF Lock
<1>2. CASE CasMiss(t) /\ UNCHANGED pc
  BY <1>1, <1>2, CasMissKeeps
<1>3. CASE CasSucceeds(t, v[t] + WRITE_LOCKED) /\ Drop(t, "held")
  <2>1. x \in Nat /\ x = v[t] /\ bits' = [bits EXCEPT ![a] = y]
    BY <1>3 DEF CasSucceeds
  <2>2. x \in {0, HAS_PARKED} /\ kind[t] = "write"
    BY <1>1, <2>1 DEF WriterMayEnter
  <2>3. /\ y \in Nat /\ ReaderCount(y) = 0 /\ WriteLocked(y)
        /\ HasParked(y) <=> HasParked(x)
        /\ ReaderCount(x) = 0 /\ ~WriteLocked(x)
    BY <2>1, <2>2, WriterFacts, BitsFacts
  <2>4. /\ pc' = [pc EXCEPT ![t] = "held"]
        /\ v' = [v EXCEPT ![t] = 0]
    BY <1>3 DEF Drop, Goto
  <2>5. TypeOK'
    BY <1>1, <2>1, <2>3, <2>4 DEF parkVars, PCs
  <2>6. OnlyFor(t) /\ UNCHANGED parkVars
    BY <1>1, <2>4 DEF OnlyFor, parkVars
  <2>7. /\ {u \in Threads : Writes(u, a)'} = {u \in Threads : Writes(u, a)} \cup {t}
        /\ {u \in Threads : Reads(u, a)'} = {u \in Threads : Reads(u, a)}
        /\ t \notin {u \in Threads : Writes(u, a)}
    BY <1>1, <2>2, <2>4 DEF Reads, Writes, parkVars
  <2>8. /\ Cardinality({u \in Threads : Reads(u, a)}) = 0
        /\ Cardinality({u \in Threads : Writes(u, a)}) = 0
    BY <2>3 DEF BitsCount
  <2>9. Cardinality({u \in Threads : Writes(u, a)'}) = 1
    <3> DEFINE S == {u \in Threads : Writes(u, a)}
    <3>1. S \in SUBSET Threads /\ t \notin S
      BY <2>7
    <3>2. {u \in Threads : Writes(u, a)'} = S \cup {t}
      BY <2>7
    <3>3. Cardinality(S) = 0
      BY <2>8
    <3> HIDE DEF S
    <3>4. Cardinality(S \cup {t}) = Cardinality(S) + 1
      BY <3>1, CountChanges
    <3>5. Cardinality(S \cup {t}) = 1
      BY <3>3, <3>4
    <3> QED BY ONLY <3>2, <3>5, Zenon
  <2>10. pc[t] \notin {"parked", "unpark"} /\ pc'[t] # "parked"
    BY <1>1, <2>4
  <2> HIDE DEF x, y
  <2> QED BY <2>1, <2>3, <2>5, <2>6, <2>7, <2>8, <2>9, <2>10, BitsStep DEF x
<1> QED BY <1>2, <1>3 DEF Lock

(* A reader leaves; the last one empties the queue.                        *)
LEMMA RUnlockKeeps == ASSUME Inv, NEW t \in Threads, RUnlock(t) PROVE Inv'
<1> USE DEF Inv, TypeOK, ParkTypeOK
<1> DEFINE a == addr[t]
           x == bits[a]
           y == x - ONE_READER
<1>1. /\ pc[t] = "held" /\ kind[t] = "read" /\ x \in Nat
      /\ UNCHANGED <<parkVars, kind>>
      /\ bits' = [bits EXCEPT ![a] = y]
      /\ pc' = [pc EXCEPT ![t] =
                  IF ReaderCount(y) = 0 /\ HasParked(y) THEN "unpark" ELSE "idle"]
      /\ v' = [v EXCEPT ![t] = 0]
  BY DEF RUnlock, Drop, Goto
<1>2. /\ {u \in Threads : Reads(u, a)'} = {u \in Threads : Reads(u, a)} \ {t}
      /\ {u \in Threads : Writes(u, a)'} = {u \in Threads : Writes(u, a)}
      /\ t \in {u \in Threads : Reads(u, a)}
  BY <1>1 DEF Reads, Writes, parkVars
<1>3. /\ ReaderCount(x) = Cardinality({u \in Threads : Reads(u, a)})
      /\ Cardinality({u \in Threads : Writes(u, a)}) =
             IF WriteLocked(x) THEN 1 ELSE 0
      /\ WriteLocked(x) => ReaderCount(x) = 0
  BY DEF BitsCount
<1>4. /\ ReaderCount(x) > 0 /\ ~WriteLocked(x)
      /\ Cardinality({u \in Threads : Reads(u, a)'}) = ReaderCount(x) - 1
  <2> DEFINE S == {u \in Threads : Reads(u, a)}
  <2>1. S \in SUBSET Threads /\ t \in S
    BY <1>2
  <2>2. {u \in Threads : Reads(u, a)'} = S \ {t}
    BY <1>2
  <2>3. Cardinality(S) = ReaderCount(x)
    BY <1>3
  <2> HIDE DEF S
  <2>4. Cardinality(S \ {t}) = Cardinality(S) - 1 /\ Cardinality(S) > 0
    BY <2>1, CountChanges
  <2>5. ReaderCount(x) > 0 /\ Cardinality(S \ {t}) = ReaderCount(x) - 1
    BY <2>3, <2>4
  <2>6. ~WriteLocked(x)
    BY <1>3, <2>5
  <2>7. Cardinality({u \in Threads : Reads(u, a)'}) = ReaderCount(x) - 1
    BY ONLY <2>2, <2>5, Zenon
  <2> QED BY <2>5, <2>6, <2>7
<1>5. /\ y \in Nat /\ ReaderCount(y) = ReaderCount(x) - 1
      /\ ~WriteLocked(y) /\ (HasParked(y) <=> HasParked(x))
  BY <1>1, <1>4, ReaderFacts
<1>6. TypeOK'
  BY <1>1, <1>5 DEF parkVars, PCs
<1>7. OnlyFor(t) /\ UNCHANGED parkVars
  BY <1>1 DEF OnlyFor, parkVars
<1>8. HasParked(x) => \E u \in Threads : Wants(u, a)'
  <2> SUFFICES ASSUME HasParked(x) PROVE \E u \in Threads : Wants(u, a)'
    OBVIOUS
  <2>1. PICK u \in Threads : Wants(u, a)
    BY <1>4 DEF ParkedMeansWriter
  <2>2. u # t
    BY <1>1, <2>1 DEF Wants
  <2>3. Wants(u, a)'
    BY <1>7, <2>1, <2>2 DEF OnlyFor, Wants, parkVars
  <2> QED BY <2>3
<1>9. HasParked(y) /\ ReaderCount(y) = 0 => pc'[t] = "unpark"
  BY <1>1
<1>10. pc[t] \notin {"parked", "unpark"} /\ pc'[t] # "parked"
  BY <1>1
<1>11. Cardinality({u \in Threads : Writes(u, a)'}) = 0
  BY <1>2, <1>3, <1>4
<1> HIDE DEF x, y
<1> QED BY <1>1, <1>4, <1>5, <1>6, <1>7, <1>8, <1>9, <1>10, <1>11, BitsStep DEF x

(* The writer leaves, with an exchange that counts on being alone.         *)
LEMMA UnlockKeeps == ASSUME Inv, NEW t \in Threads, Unlock(t) PROVE Inv'
<1> USE DEF Inv, TypeOK, ParkTypeOK
<1> DEFINE a == addr[t]
           x == bits[a]
<1>1. /\ pc[t] = "held" /\ kind[t] = "write" /\ x \in Nat
      /\ UNCHANGED <<parkVars, kind>>
      /\ bits' = [bits EXCEPT ![a] = 0]
      /\ pc' = [pc EXCEPT ![t] = IF HasParked(x) THEN "unpark" ELSE "idle"]
      /\ v' = [v EXCEPT ![t] = 0]
  BY DEF Unlock, Drop, Goto
<1>2. /\ {u \in Threads : Writes(u, a)'} = {u \in Threads : Writes(u, a)} \ {t}
      /\ {u \in Threads : Reads(u, a)'} = {u \in Threads : Reads(u, a)}
      /\ t \in {u \in Threads : Writes(u, a)}
  BY <1>1 DEF Reads, Writes, parkVars
<1>3. /\ ReaderCount(x) = Cardinality({u \in Threads : Reads(u, a)})
      /\ Cardinality({u \in Threads : Writes(u, a)}) =
             IF WriteLocked(x) THEN 1 ELSE 0
      /\ WriteLocked(x) => ReaderCount(x) = 0
  BY DEF BitsCount
<1>4. /\ Cardinality({u \in Threads : Writes(u, a)}) > 0
      /\ Cardinality({u \in Threads : Writes(u, a)'}) =
             Cardinality({u \in Threads : Writes(u, a)}) - 1
  <2> DEFINE S == {u \in Threads : Writes(u, a)}
  <2>1. S \in SUBSET Threads /\ t \in S
    BY <1>2
  <2> HIDE DEF S
  <2>2. Cardinality(S \ {t}) = Cardinality(S) - 1 /\ Cardinality(S) > 0
    BY <2>1, CountChanges
  <2> QED BY <1>2, <2>2 DEF S
<1>5. WriteLocked(x) /\ Cardinality({u \in Threads : Writes(u, a)}) = 1
  BY <1>3, <1>4
<1>6. /\ Cardinality({u \in Threads : Reads(u, a)'}) = 0
      /\ Cardinality({u \in Threads : Writes(u, a)'}) = 0
  <2>1. Cardinality({u \in Threads : Reads(u, a)}) = 0
    BY <1>3, <1>5
  <2>2. Cardinality({u \in Threads : Reads(u, a)'}) =
           Cardinality({u \in Threads : Reads(u, a)})
    BY <1>2
  <2>3. Cardinality({u \in Threads : Writes(u, a)'}) = 1 - 1
    BY <1>4, <1>5
  <2> QED BY <2>1, <2>2, <2>3
<1>7. 0 \in Nat /\ ReaderCount(0) = 0 /\ ~WriteLocked(0) /\ ~HasParked(0)
  BY BitsFacts
<1>8. TypeOK'
  BY <1>1 DEF parkVars, PCs
<1>9. OnlyFor(t) /\ UNCHANGED parkVars
  BY <1>1 DEF OnlyFor, parkVars
<1>10. HasParked(x) => pc'[t] = "unpark"
  BY <1>1
<1>11. pc[t] \notin {"parked", "unpark"} /\ pc'[t] # "parked"
  BY <1>1
<1> HIDE DEF x
<1> QED BY <1>1, <1>6, <1>7, <1>8, <1>9, <1>10, <1>11, BitsStep DEF x

(* The queue is emptied of all who wait for the lock, while nobody is to   *)
(* be queued.                                                              *)
LEMMA UnparkWaitersKeeps ==
    ASSUME Inv, NEW t \in Threads, UnparkWaiters(t)
    PROVE  Inv'
<1> USE DEF Inv, TypeOK, ParkTypeOK
<1> DEFINE b == MyBucket(t)
           q == waiters[b]
           all == {w \in ToSet(q) : addr[w] = addr[t]}
           others == {i \in 1..Len(q) : q[i] \notin all}
<1>1. b \in Buckets /\ q \in Seq(Threads) /\ all \subseteq Threads
  BY BucketOfType DEF MyBucket, ToSet
<1>2. /\ pc[t] = "unpark" /\ bucketOwner[b] = NoThread
      /\ pc' = [pc EXCEPT ![t] = IF waking'[t] = {} THEN "idle" ELSE "wakeup"]
      /\ isUnparking' = isUnparking \cup all
      /\ waking' = [waking EXCEPT ![t] = all]
      /\ UNCHANGED <<bucketOwner, addr, parkState, sema, bits, v, kind>>
  BY DEF UnparkWaiters, UnparkAll, BucketFree, Goto, Queue
<1>3. PICK place \in Ascending(others) :
         waiters' = [waiters EXCEPT ![b] =
                       [i \in 1..Cardinality(others) |-> q[place[i]]]]
  BY <1>1 DEF UnparkWaiters, UnparkAll, Queue
<1> HIDE DEF b
<1>4. /\ waiters'[b] \in Seq(Threads)
      /\ \A i \in others : q[i] \in ToSet(waiters'[b])
      /\ \A c \in Buckets \ {b} : waiters'[c] = waiters[c]
  <2> DEFINE r == [i \in 1..Cardinality(others) |-> q[place[i]]]
  <2>1. others \in SUBSET (1..Len(q))
    OBVIOUS
  <2> HIDE DEF others, q
  <2>2. r \in Seq(Threads) /\ \A i \in others : q[i] \in ToSet(r)
    BY <1>1, <2>1, AscendingFacts
  <2>3. waiters'[b] = r /\ \A c \in Buckets \ {b} : waiters'[c] = waiters[c]
    BY <1>1, <1>3
  <2> HIDE DEF r
  <2> QED BY <2>2, <2>3
<1>5. \A w \in ToSet(q) \ all : w \in ToSet(waiters'[b])
  <2> SUFFICES ASSUME NEW i \in DOMAIN q, q[i] \notin all
               PROVE  q[i] \in ToSet(waiters'[b])
    BY DEF ToSet
  <2> HIDE DEF q, all
  <2>1. i \in 1..Len(q)
    BY <1>1
  <2> QED BY <1>4, <2>1
<1> HIDE DEF q, all, others
<1>6. TypeOK'
  <2>1. waiters' \in [Buckets -> Seq(Threads)]
    BY <1>3, <1>4
  <2> QED BY <1>1, <1>2, <2>1 DEF PCs
<1>7. \A u \in Threads :
         Queued(u)' => Queued(u) /\ ~(addr[u] = addr[t])
  <2> SUFFICES ASSUME NEW u \in Threads, Queued(u)'
               PROVE  Queued(u) /\ ~(addr[u] = addr[t])
    OBVIOUS
  <2>1. Queued(u) /\ u \notin all
    BY <1>2 DEF Queued
  <2>2. u \in ToSet(waiters[MyBucket(u)])
    BY <2>1 DEF WaitersAreParked, Queue
  <2> QED BY <2>1, <2>2 DEF all, q, b, MyBucket
<1>8. WaitersAreParked'
  <2>1. ASSUME NEW u \in Threads
        PROVE  /\ pc'[u] = "parked" <=> parkState'[u] # "out"
               /\ parkState'[u] = "enqueue" => bucketOwner'[MyBucket(u)'] = u
    BY <1>2 DEF WaitersAreParked, MyBucket
  <2>2. ASSUME NEW u \in Threads, Queued(u)'
        PROVE  u \in ToSet(waiters'[MyBucket(u)'])
    <3>1. /\ Queued(u) /\ u \notin all /\ MyBucket(u)' = MyBucket(u)
          /\ MyBucket(u) \in Buckets
      BY <1>2, <1>7, <2>2, BucketOfType DEF Queued, MyBucket
    <3>2. u \in ToSet(waiters[MyBucket(u)])
      BY <3>1 DEF WaitersAreParked, Queue
    <3> QED BY <1>4, <1>5, <3>1, <3>2 DEF q
  <2> QED BY <2>1, <2>2 DEF WaitersAreParked, Queue
<1>9. \A u \in Threads :
         Waits(u)' => Waits(u) /\ ~(addr[u] = addr[t])
  <2> SUFFICES ASSUME NEW u \in Threads, parkState'[u] = "enqueue"
               PROVE  parkState[u] = "enqueue" /\ ~(addr[u] = addr[t])
    BY <1>7 DEF Waits
  <2>1. parkState[u] = "enqueue" /\ bucketOwner[MyBucket(u)] = u
    BY <1>2 DEF WaitersAreParked
  <2> QED BY <1>2, <2>1, NoThreadType DEF b, MyBucket
<1>10. \A m : m # addr[t] /\ Waker(m) => Waker(m)'
  BY <1>2 DEF Waker
<1>11. \A u \in Threads, m \in Addrs : Wants(u, m) => Wants(u, m)'
  BY <1>2 DEF Wants
<1>12. BitsCount'
  <2>1. \A m \in Addrs, u \in Threads :
           (Reads(u, m)' <=> Reads(u, m)) /\ (Writes(u, m)' <=> Writes(u, m))
    BY <1>2 DEF Reads, Writes
  <2> QED BY <1>2, <2>1, CountKept
<1>13. WaitersAreAnnounced'
  <2>1. ASSUME NEW u \in Threads, Waits(u)', NEW m \in Addrs, m = addr'[u]
        PROVE  HasParked(bits'[m]) \/ Waker(m)'
    <3>1. Waits(u) /\ m = addr[u] /\ m # addr[t]
      BY <1>2, <1>9, <2>1
    <3> QED BY <1>2, <1>10, <3>1 DEF WaitersAreAnnounced
  <2> QED BY <1>6, <2>1 DEF WaitersAreAnnounced
<1>14. ParkedMeansWriter'
  BY <1>2, <1>11 DEF ParkedMeansWriter
<1>15. LastReaderWakes'
  <2> SUFFICES ASSUME NEW m \in Addrs,
                      HasParked(bits[m]), ~WriteLocked(bits[m]),
                      ReaderCount(bits[m]) = 0
               PROVE  Waker(m)' \/ \E u \in Threads : Wants(u, m)' /\ ~Waits(u)'
    BY <1>2 DEF LastReaderWakes
  <2>1. CASE m = addr[t]
    <3>1. PICK u \in Threads : Wants(u, m)
      BY DEF ParkedMeansWriter
    <3>2. addr[u] = addr[t]
      BY <2>1, <3>1 DEF Wants
    <3> QED BY <1>9, <1>11, <3>1, <3>2
  <2>2. CASE m # addr[t]
    BY <1>9, <1>10, <1>11, <2>2 DEF LastReaderWakes
  <2> QED BY <2>1, <2>2
<1> QED BY <1>6, <1>8, <1>12, <1>13, <1>14, <1>15

-----------------------------------------------------------------------------
(* Every step keeps the invariant.                                         *)
LEMMA InvNext == Inv /\ [Next]_vars => Inv'
<1> SUFFICES ASSUME Inv, [Next]_vars PROVE Inv'
  OBVIOUS
<1>1. CASE UNCHANGED vars
  <2> USE <1>1 DEF vars, parkVars, rwVars, Inv
  <2>1. TypeOK'
    BY DEF TypeOK, ParkTypeOK
  <2>2. WaitersAreParked'
    BY DEF WaitersAreParked, Queued, Queue, MyBucket
  <2>3. BitsCount'
    BY DEF BitsCount, Reads, Writes
  <2>4. WaitersAreAnnounced'
    BY DEF WaitersAreAnnounced, Waits, Queued, Waker
  <2>5. ParkedMeansWriter' /\ LastReaderWakes'
    BY DEF ParkedMeansWriter, LastReaderWakes, Wants, Waits, Queued, Waker
  <2> QED BY <2>1, <2>2, <2>3, <2>4, <2>5
<1>2. CASE Next
  <2>1. PICK t \in Threads :
           CallLock(t) \/ LockStep(t) \/ UnlockStep(t) \/ SemaInterrupted(t)
    BY <1>2 DEF Next
  <2>2. CASE LockStep(t)
    BY <2>2, RLockKeeps, LockKeeps, SetParkedKeeps, ParkKeeps, EnqueueKeeps,
       DrainKeeps, UnparkedKeeps, ReloadKeeps DEF LockStep
  <2>3. CASE UnlockStep(t)
    BY <2>3, RUnlockKeeps, UnlockKeeps, UnparkWaitersKeeps, PostKeeps DEF UnlockStep
  <2> QED BY <2>1, <2>2, <2>3, CallLockKeeps, SemaInterruptedKeeps
<1> QED BY <1>1, <1>2

(* The invariant holds for ever.                                           *)
LEMMA Invariance == Spec => []Inv
BY InvInit, InvNext, PTL DEF Spec

(* A writer is alone inside, and the bits count who is inside, so that the *)
(* unlock by exchange with 0 loses no reader.                              *)
THEOREM WritersAreAlone == Spec => []ReadersXorWriter
<1>1. Inv => ReadersXorWriter
  <2> SUFFICES ASSUME Inv, NEW m \in Addrs
               PROVE  LET readers == {t \in Threads : Reads(t, m)}
                          writers == {t \in Threads : Writes(t, m)}
                      IN  /\ ReaderCount(bits[m]) = Cardinality(readers)
                          /\ Cardinality(writers) =
                                 IF WriteLocked(bits[m]) THEN 1 ELSE 0
                          /\ writers = {} \/ readers = {}
    BY DEF Inv, ReadersXorWriter
  <2> DEFINE readers == {t \in Threads : Reads(t, m)}
             writers == {t \in Threads : Writes(t, m)}
  <2>1. /\ ReaderCount(bits[m]) = Cardinality(readers)
        /\ Cardinality(writers) = IF WriteLocked(bits[m]) THEN 1 ELSE 0
        /\ WriteLocked(bits[m]) => ReaderCount(bits[m]) = 0
    BY DEF Inv, BitsCount
  <2>2. readers \in SUBSET Threads /\ writers \in SUBSET Threads
    OBVIOUS
  <2> HIDE DEF readers, writers
  <2>3. (Cardinality(writers) = 0 => writers = {})
        /\ (Cardinality(readers) = 0 => readers = {})
    BY <2>2, ThreadsFinite, FS_Subset, FS_EmptySet
  <2>4. writers = {} \/ readers = {}
    BY <2>1, <2>3
  <2> QED BY <2>1, <2>4 DEF readers, writers
<1> QED BY <1>1, Invariance, PTL

(* No thread sleeps for ever: who is in the queue is announced, and there  *)
(* is somebody inside, at the queue or on its way to let it go on.         *)
THEOREM SleepersAreWoken == Spec => []NobodyIsForgotten
<1>1. Inv => NobodyIsForgotten
  <2> SUFFICES ASSUME Inv, NEW t \in Threads, Queued(t), NEW m \in Addrs, m = addr[t]
               PROVE  /\ HasParked(bits[m]) \/ Waker(m)
                      /\ \/ WriteLocked(bits[m])
                         \/ ReaderCount(bits[m]) > 0
                         \/ Waker(m)
                         \/ \E u \in Threads : kind[u] = "write" /\ OnItsWay(u, m)
    BY DEF NobodyIsForgotten, Waker, Inv, TypeOK, ParkTypeOK
  <2>1. HasParked(bits[m]) \/ Waker(m)
    BY DEF Inv, WaitersAreAnnounced, Waits
  <2>2. bits[m] \in Nat
    BY DEF Inv, TypeOK
  <2>3. \A u \in Threads :
           Wants(u, m) /\ ~Waits(u) => kind[u] = "write" /\ OnItsWay(u, m)
    BY DEF Wants, Waits, OnItsWay
  <2>4. ReaderCount(bits[m]) = 0 \/ ReaderCount(bits[m]) > 0
    BY <2>2, BitsFacts
  <2> QED BY <2>1, <2>3, <2>4 DEF Inv, LastReaderWakes
<1> QED BY <1>1, Invariance, PTL

(* While anyone is in the queue, no reader joins those who are inside,     *)
(* unless the queue is about to be emptied.                                *)
THEOREM ReadersQueueUp == Spec => WritersFirst
<1>1. ASSUME Inv, Next,
             NEW t \in Threads, pc[t] = "loop", pc'[t] = "held", kind[t] = "read",
             NEW w \in Threads, Queued(w), addr[w] = addr[t]
      PROVE  \E u \in Threads : addr[u] = addr[t] /\ pc[u] = "unpark"
  <2>1. PICK u \in Threads :
           CallLock(u) \/ LockStep(u) \/ UnlockStep(u) \/ SemaInterrupted(u)
    BY <1>1 DEF Next
  <2>2. pc \in [Threads -> PCs]
    BY <1>1 DEF Inv, TypeOK
  <2>3. ~(Reload(u) \/ Enqueue(u) \/ Drain(u) \/ SemaInterrupted(u) \/ Park(u))
    BY <1>1, <2>2 DEF Reload, Enqueue, Drain, SemaInterrupted, Park, rwVars, Goto
  <2>4. ~(Unparked(u) \/ CallLock(u) \/ SetParked(u) \/ UnparkWaiters(u) \/ Post(u))
    BY <1>1, <2>2 DEF Unparked, CallLock, SetParked, UnparkWaiters, Post, Goto
  <2>5. ~(RUnlock(u) \/ Unlock(u))
    BY <1>1, <2>2 DEF RUnlock, Unlock, Drop, Goto
  <2>6. RLock(u) \/ Lock(u)
    BY <2>1, <2>3, <2>4, <2>5 DEF LockStep, UnlockStep
  <2>7. u = t
    BY <1>1, <2>2, <2>6 DEF RLock, Lock, Drop, Goto
  <2>8. /\ ReaderMayEnter(t)
        /\ CasSucceeds(t, v[t] + ONE_READER)
    BY <1>1, <2>6, <2>7 DEF RLock, Lock, WriterMayEnter
  <2>9. ~HasParked(bits[addr[w]])
    BY <1>1, <2>8 DEF ReaderMayEnter, CasSucceeds
  <2> QED BY <1>1, <2>9 DEF Inv, WaitersAreAnnounced, Waits, Waker
<1>2. Inv /\ [Next]_vars =>
         [\A t \in Threads :
            pc[t] = "loop" /\ pc'[t] = "held" /\ kind[t] = "read" =>
              \A w \in Threads :
                  Queued(w) /\ addr[w] = addr[t] =>
                      \E u \in Threads : addr[u] = addr[t] /\ pc[u] = "unpark"]_vars
  BY <1>1
<1> QED BY <1>2, Invariance, PTL DEF Spec, WritersFirst

-----------------------------------------------------------------------------
(* The refinement of RWLock.                                               *)
Places == [t \in Threads |-> Place(t)]
AbstractStep == [AbstractRWLock!RWLockNext]_AbstractRWLock!rwLockVars

(* A thread that comes in finds nobody it must not meet.                   *)
LEMMA FindsRoom ==
    ASSUME Inv, NEW t \in Threads, RLock(t) \/ Lock(t), pc'[t] = "held",
           NEW u \in Threads, pc[u] = "held", addr[u] = addr[t]
    PROVE  kind[t] = "read" /\ kind[u] = "read"
<1> DEFINE m == addr[t]
           readers == {w \in Threads : Reads(w, m)}
           writers == {w \in Threads : Writes(w, m)}
<1>1. /\ m \in Addrs /\ bits[m] \in Nat /\ kind[t] \in Kinds /\ kind[u] \in Kinds
      /\ pc[t] = "loop" /\ pc \in [Threads -> PCs]
  BY DEF Inv, TypeOK, ParkTypeOK, RLock, Lock
<1>2. IsFiniteSet(readers) /\ IsFiniteSet(writers)
  BY ThreadsFinite, FS_Subset
<1>3. /\ ReaderCount(bits[m]) = Cardinality(readers)
      /\ Cardinality(writers) = IF WriteLocked(bits[m]) THEN 1 ELSE 0
  BY <1>1 DEF Inv, BitsCount
<1>4. u \in readers \/ u \in writers
  BY <1>1 DEF Reads, Writes, Kinds
<1>5. bits[m] = v[t] /\ (ReaderMayEnter(t) \/ WriterMayEnter(t))
  BY <1>1 DEF RLock, Lock, CasSucceeds
<1>6. ~WriteLocked(bits[m])
  BY <1>1, <1>5, BitsFacts DEF ReaderMayEnter, WriterMayEnter
<1>7. writers = {}
  BY <1>2, <1>3, <1>6, FS_EmptySet
<1>8. kind[u] = "read" /\ readers # {}
  BY <1>4, <1>7 DEF Reads
<1>9. CASE ReaderMayEnter(t)
  BY <1>8, <1>9 DEF ReaderMayEnter
<1>10. CASE WriterMayEnter(t)
  <2>1. ReaderCount(bits[m]) = 0
    BY <1>1, <1>5, <1>10, BitsFacts DEF WriterMayEnter
  <2> QED BY <1>2, <1>3, <1>8, <2>1, FS_EmptySet
<1> QED BY <1>5, <1>9, <1>10

(* What a step does to a place, when its thread is the only one to move.   *)
LEMMA PlaceChanges ==
    ASSUME NEW t \in Threads, \A u \in Threads \ {t} : pc'[u] = pc[u]
    PROVE  /\ Places' = [Places EXCEPT ![t] = Place(t)']
           /\ Place(t)' = Place(t) => Places' = Places
BY DEF Places, Place

LEMMA StaysInPlace ==
    ASSUME NEW t \in Threads, \A u \in Threads \ {t} : pc'[u] = pc[u],
           Place(t)' = Place(t), UNCHANGED <<addr, kind>>
    PROVE  AbstractStep
BY PlaceChanges DEF AbstractStep, AbstractRWLock!rwLockVars, Places

LEMMA AskIsMapped ==
    ASSUME Inv, NEW t \in Threads, CallLock(t)
    PROVE  AbstractStep
<1>1. /\ pc[t] = "idle" /\ pc'[t] = "loop" /\ \A u \in Threads \ {t} : pc'[u] = pc[u]
  BY DEF CallLock, Goto, Inv, TypeOK
<1>2. Places' = [Places EXCEPT ![t] = "asks"] /\ Places[t] = "out"
  BY <1>1, PlaceChanges DEF Place, Places
<1>3. /\ \E m \in Addrs : addr' = [addr EXCEPT ![t] = m]
      /\ \E k \in {"read", "write"} : kind' = [kind EXCEPT ![t] = k]
  BY DEF CallLock, Kinds
<1>4. AbstractRWLock!Ask(t)
  BY <1>2, <1>3 DEF AbstractRWLock!Ask, Places
<1> QED BY <1>4 DEF AbstractStep, AbstractRWLock!RWLockNext

LEMMA EnterIsMapped ==
    ASSUME Inv, NEW t \in Threads, RLock(t) \/ Lock(t)
    PROVE  AbstractStep
<1> USE DEF Inv, TypeOK
<1>1. /\ pc[t] = "loop" /\ UNCHANGED <<addr, kind>>
      /\ pc' = pc \/ pc' = [pc EXCEPT ![t] = "held"]
  BY DEF RLock, Lock, Drop, Goto, parkVars
<1>2. CASE pc' = pc
  BY <1>1, <1>2, StaysInPlace DEF Place
<1>3. CASE pc' = [pc EXCEPT ![t] = "held"]
  <2>1. pc'[t] = "held" /\ \A u \in Threads \ {t} : pc'[u] = pc[u]
    BY <1>3
  <2>2. Places' = [Places EXCEPT ![t] = "inside"] /\ Places[t] = "asks"
    BY <1>1, <2>1, PlaceChanges DEF Place, Places
  <2>3. ASSUME NEW u \in Threads, Places[u] = "inside", addr[u] = addr[t]
        PROVE  kind[t] = "read" /\ kind[u] = "read"
    <3>1. pc[u] = "held"
      BY <2>3 DEF Places, Place
    <3> QED BY <2>1, <2>3, <3>1, FindsRoom
  <2>4. AbstractRWLock!Enter(t)
    BY <1>1, <2>2, <2>3 DEF AbstractRWLock!Enter, Places
  <2> QED BY <2>4 DEF AbstractStep, AbstractRWLock!RWLockNext
<1> QED BY <1>1, <1>2, <1>3

LEMMA LeaveIsMapped ==
    ASSUME Inv, NEW t \in Threads, RUnlock(t) \/ Unlock(t)
    PROVE  AbstractStep
<1>1. /\ pc[t] = "held" /\ pc'[t] \in {"idle", "unpark"} /\ UNCHANGED <<addr, kind>>
      /\ \A u \in Threads \ {t} : pc'[u] = pc[u]
  BY DEF RUnlock, Unlock, Drop, Goto, parkVars, Inv, TypeOK
<1>2. Places' = [Places EXCEPT ![t] = "out"] /\ Places[t] = "inside"
  BY <1>1, PlaceChanges DEF Place, Places
<1>3. AbstractRWLock!Leave(t)
  BY <1>1, <1>2 DEF AbstractRWLock!Leave, Places
<1> QED BY <1>3 DEF AbstractStep, AbstractRWLock!RWLockNext

(* The steps of a wait, and those that wake the queue, show nothing.       *)
LEMMA WaitIsSilent ==
    ASSUME Inv, NEW t \in Threads,
           \/ SetParked(t) \/ Park(t) \/ Enqueue(t) \/ SemaInterrupted(t)
           \/ Drain(t) \/ Unparked(t) \/ Reload(t)
           \/ UnparkWaiters(t) \/ Post(t)
    PROVE  AbstractStep
<1> USE DEF Inv, TypeOK
<1>1. CASE SetParked(t) \/ Enqueue(t) \/ SemaInterrupted(t) \/ Drain(t)
  <2>1. UNCHANGED <<pc, addr, kind>>
    BY <1>1 DEF SetParked, Enqueue, ParkEnqueue, SemaInterrupted, WaitFails, Drain,
                ParkDrain, parkVars, rwVars
  <2> QED BY <2>1, StaysInPlace DEF Place
<1>2. CASE Park(t)
  <2>1. /\ pc[t] = "loop" /\ \E l \in {"parked", "reload"} : pc' = [pc EXCEPT ![t] = l]
        /\ UNCHANGED <<addr, kind>>
    BY <1>2 DEF Park, MustWait, ParkCompare, ParkAgain, Goto, parkVars
  <2> QED BY <2>1, StaysInPlace DEF Place
<1>3. CASE Unparked(t)
  <2>1. /\ pc[t] = "parked" /\ pc' = [pc EXCEPT ![t] = "reload"] /\ UNCHANGED <<addr, kind>>
    BY <1>3 DEF Unparked, ParkOk, ParkGiveUp, Goto, WaitersAreParked
  <2> QED BY <2>1, StaysInPlace DEF Place
<1>4. CASE Reload(t)
  <2>1. /\ pc[t] = "reload" /\ pc' = [pc EXCEPT ![t] = "loop"] /\ UNCHANGED <<addr, kind>>
    BY <1>4 DEF Reload, Goto, parkVars
  <2> QED BY <2>1, StaysInPlace DEF Place
<1>5. CASE UnparkWaiters(t) \/ Post(t)
  <2>1. /\ pc[t] \in {"unpark", "wakeup"} /\ UNCHANGED <<addr, kind>>
        /\ \E l \in {"idle", "wakeup"} : pc' = [pc EXCEPT ![t] = l]
    BY <1>5 DEF UnparkWaiters, UnparkAll, Post, Wakeup, Goto
  <2> QED BY <2>1, StaysInPlace DEF Place
<1> QED BY <1>1, <1>2, <1>3, <1>4, <1>5

(* _PyRWMutex implements RWLock: readers come in beside readers only, a    *)
(* writer alone, and whoever asks stays until it is in (lock.c:455-531).   *)
THEOREM RWLockIsImplemented == Spec => ImplementsRWLock
<1>1. Init => AbstractRWLock!RWLockInit
  BY DEF Init, ParkInit, AbstractRWLock!RWLockInit, Place
<1>2. Inv /\ [Next]_vars => AbstractStep
  <2> SUFFICES ASSUME Inv, [Next]_vars PROVE AbstractStep
    OBVIOUS
  <2>1. CASE UNCHANGED vars
    BY <2>1 DEF vars, parkVars, rwVars, AbstractStep, AbstractRWLock!rwLockVars, Place
  <2>2. CASE Next
    BY <2>2, AskIsMapped, EnterIsMapped, LeaveIsMapped, WaitIsSilent
       DEF Next, LockStep, UnlockStep
  <2> QED BY <2>1, <2>2
<1> QED BY <1>1, <1>2, Invariance, PTL
        DEF Spec, ImplementsRWLock, AbstractRWLock!RWLockSpec, AbstractStep
===============================================================================
