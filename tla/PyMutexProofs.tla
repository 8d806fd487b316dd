----------------------------- MODULE PyMutexProofs -----------------------------
(***************************************************************************)
(* Theorems about PyMutex, for every number of threads, mutexes and        *)
(* buckets, every hash function and every MAX_SPIN_COUNT, in three parts.  *)
(* The inductive invariant IndInv gives types, exclusion and hand-offs;    *)
(* with it PyMutex implements Lock; with two facts more, WakeupInv, no     *)
(* waiter is forgotten.                                                    *)
(***************************************************************************)
EXTENDS PyMutex, SequenceTheorems, TLAPS

(* What is left of a sequence when position k is taken out.                *)
LEMMA RemoveAtProperties ==
    ASSUME NEW S, NEW s \in Seq(S), NEW k \in 1..Len(s)
    PROVE  /\ RemoveAt(s, k) \in Seq(S)
           /\ Len(RemoveAt(s, k)) = Len(s) - 1
           /\ \A i \in 1..(Len(s) - 1) :
                  RemoveAt(s, k)[i] = s[IF i < k THEN i ELSE i + 1]
<1> DEFINE left == SubSeq(s, 1, k - 1)
           right == SubSeq(s, k + 1, Len(s))
<1>1. /\ left \in Seq(S) /\ Len(left) = k - 1
      /\ \A i \in 1..(k - 1) : left[i] = s[i]
  BY SMT
<1>2. /\ right \in Seq(S) /\ Len(right) = Len(s) - k
      /\ \A i \in 1..(Len(s) - k) : right[i] = s[k + i]
  BY SMT
<1>3. RemoveAt(s, k) = left \o right
  BY DEF RemoveAt
<1>4. /\ left \o right \in Seq(S)
      /\ Len(left \o right) = Len(s) - 1
      /\ \A i \in 1..(Len(s) - 1) :
             (left \o right)[i] = IF i <= k - 1 THEN left[i] ELSE right[i - (k - 1)]
  <2> HIDE DEF left, right
  <2>1. /\ left \o right \in Seq(S)
        /\ Len(left \o right) = Len(left) + Len(right)
        /\ \A i \in 1..(Len(left) + Len(right)) :
               (left \o right)[i] = IF i <= Len(left) THEN left[i] ELSE right[i - Len(left)]
    BY <1>1, <1>2, ConcatProperties
  <2>2. Len(left) = k - 1 /\ Len(left) + Len(right) = Len(s) - 1
    BY <1>1, <1>2
  <2> QED BY <2>1, <2>2
<1> HIDE DEF left, right
<1>5. ASSUME NEW i \in 1..(Len(s) - 1)
      PROVE  (left \o right)[i] = s[IF i < k THEN i ELSE i + 1]
  BY <1>1, <1>2, <1>4, SMT
<1> QED BY <1>3, <1>4, <1>5

-----------------------------------------------------------------------------
(* The type invariant.                                                     *)
LEMMA LocalsTyping ==
    ASSUME TypeOK, NEW t \in Threads, NEW l \in PCs
    PROVE  /\ Return(t, l) => LocalsTypeOK'
           /\ Load(t) => v' \in [Threads -> Bits]
           /\ Goto(t, l) => pc' \in [Threads -> PCs]
           /\ \A x \in Bits : CasSucceeds(t, x) => bits' \in [Addrs -> Bits]
           /\ WithLocked(v[t]) \in Bits
           /\ UNLOCKED \in Bits /\ LOCKED \in Bits /\ LOCKED + HAS_PARKED \in Bits
<1>1. Return(t, l) => LocalsTypeOK'
  BY SpinType DEF TypeOK, LocalsTypeOK, Return, Goto, Bits, AllModes
<1>2. addr[t] \in Addrs /\ bits[addr[t]] \in Bits /\ v[t] \in Bits
  BY DEF TypeOK, ParkTypeOK, LocalsTypeOK
<1>3. Load(t) => v' \in [Threads -> Bits]
  BY <1>2 DEF TypeOK, LocalsTypeOK, Load
<1>4. Goto(t, l) => pc' \in [Threads -> PCs]
  BY DEF TypeOK, LocalsTypeOK, Goto
<1>5. \A x \in Bits : CasSucceeds(t, x) => bits' \in [Addrs -> Bits]
  BY <1>2 DEF TypeOK, CasSucceeds
<1>6. WithLocked(v[t]) \in Bits
  BY <1>2 DEF WithLocked, Bits, IsLocked, LOCKED
<1>7. UNLOCKED \in Bits /\ LOCKED \in Bits /\ LOCKED + HAS_PARKED \in Bits
  BY DEF Bits, UNLOCKED, LOCKED, HAS_PARKED
<1> QED BY <1>1, <1>3, <1>4, <1>5, <1>6, <1>7

LEMMA FrameTyping ==
    ASSUME TypeOK
    PROVE  /\ UNCHANGED parkVars => ParkTypeOK'
           /\ UNCHANGED mutexVars => LocalsTypeOK' /\ bits' \in [Addrs -> Bits]
  BY DEF TypeOK, ParkTypeOK, LocalsTypeOK, parkVars, mutexVars

LEMMA Typing == TypeOK /\ [Next]_vars => TypeOK'
<1> SUFFICES ASSUME TypeOK, [Next]_vars PROVE TypeOK'
  OBVIOUS
<1> USE LocalsTyping, FrameTyping
<1>1. ASSUME NEW t \in Threads, CallLock(t) PROVE TypeOK'
  <2>1. PICK m \in Addrs, k \in Modes[t] :
           /\ addr' = [addr EXCEPT ![t] = m]
           /\ \/ UNCHANGED <<pc, v, mode>>
              \/ /\ Goto(t, IF IsLocked(bits[m]) THEN "loop" ELSE "cas")
                 /\ v' = [v EXCEPT ![t] = bits[m]]
                 /\ mode' = [mode EXCEPT ![t] = k]
    BY <1>1 DEF CallLock
  <2>2. ParkTypeOK'
    BY <1>1, <2>1 DEF CallLock, TypeOK, ParkTypeOK
  <2>3. LocalsTypeOK'
    BY <1>1, <2>1, ModesType DEF CallLock, TypeOK, LocalsTypeOK, Goto, PCs
  <2> QED BY <1>1, <2>2, <2>3 DEF CallLock, TypeOK
<1>2. ASSUME NEW t \in Threads, FirstCas(t) PROVE TypeOK'
  <2>1. LocalsTypeOK'
    BY <1>2 DEF FirstCas, TypeOK, LocalsTypeOK, PCs
  <2> QED BY <1>2, <2>1 DEF FirstCas, TypeOK, CasMiss, PCs
<1>3. ASSUME NEW t \in Threads, Grab(t) PROVE TypeOK'
  <2>1. LocalsTypeOK'
    BY <1>3 DEF Grab, TypeOK, LocalsTypeOK, PCs
  <2> QED BY <1>3, <2>1 DEF Grab, TypeOK, CasMiss, PCs
<1>4. ASSUME NEW t \in Threads, Spin(t) PROVE TypeOK'
  <2>1. LocalsTypeOK'
    BY <1>4, SpinType DEF Spin, MaySpin, TypeOK, LocalsTypeOK
  <2> QED BY <1>4, <2>1 DEF Spin, TypeOK
<1>5. ASSUME NEW t \in Threads, GiveUp(t) PROVE TypeOK'
  BY <1>5 DEF GiveUp, TypeOK, PCs
<1>6. ASSUME NEW t \in Threads, MarkParked(t) PROVE TypeOK'
  <2>1. v' \in [Threads -> Bits]
    BY <1>6 DEF MarkParked, TypeOK, LocalsTypeOK, PCs
  <2>2. LocalsTypeOK'
    BY <1>6, <2>1 DEF MarkParked, TypeOK, LocalsTypeOK
  <2> QED BY <1>6, <2>2 DEF MarkParked, TypeOK, CasMiss, PCs
<1>7. ASSUME NEW t \in Threads, Park(t) PROVE TypeOK'
  <2>a. ASSUME ParkCompare(t, bits[addr[t]], v[t]) PROVE ParkTypeOK'
    <3>1. bucketOwner' \in [Buckets -> Threads \cup {NoThread}]
      BY <2>a DEF ParkCompare, TypeOK, ParkTypeOK
    <3>2. parkState' \in [Threads -> ParkStates]
      BY <2>a DEF ParkCompare, TypeOK, ParkTypeOK, ParkStates
    <3> QED BY <2>a, <3>1, <3>2 DEF ParkCompare, TypeOK, ParkTypeOK
  <2>1. ParkTypeOK'
    BY <1>7, <2>a DEF Park, ParkAgain
  <2>2. LocalsTypeOK'
    BY <1>7 DEF Park, TypeOK, LocalsTypeOK, PCs
  <2> QED BY <1>7, <2>1, <2>2 DEF Park, TypeOK
<1>8. ASSUME NEW t \in Threads, Enqueue(t) PROVE TypeOK'
  <2>0. MyBucket(t) \in Buckets /\ waiters[MyBucket(t)] \in Seq(Threads)
    BY BucketOfType DEF TypeOK, ParkTypeOK, MyBucket
  <2>a. Append(waiters[MyBucket(t)], t) \in Seq(Threads)
    BY <2>0, AppendProperties
  <2>b. waiters' = [waiters EXCEPT ![MyBucket(t)] = Append(waiters[MyBucket(t)], t)]
    BY <1>8 DEF Enqueue, ParkEnqueue
  <2>1. waiters' \in [Buckets -> Seq(Threads)]
    BY <2>0, <2>a, <2>b DEF TypeOK, ParkTypeOK
  <2>2. ParkTypeOK'
    BY <1>8, <2>1 DEF Enqueue, ParkEnqueue, TypeOK, ParkTypeOK, ParkStates
  <2> QED BY <1>8, <2>2 DEF Enqueue, TypeOK
<1>9. ASSUME NEW t \in Threads, Woken(t) PROVE TypeOK'
  <2>1. sema' \in [Threads -> Nat]
    BY <1>9 DEF Woken, ParkOk, TypeOK, ParkTypeOK
  <2>2. ParkTypeOK'
    BY <1>9, <2>1 DEF Woken, ParkOk, TypeOK, ParkTypeOK, ParkStates
  <2>3. LocalsTypeOK'
    BY <1>9 DEF Woken, TypeOK, LocalsTypeOK, PCs
  <2> QED BY <1>9, <2>2, <2>3 DEF Woken, TypeOK
<1>10. ASSUME NEW t \in Threads, WaitFailed(t) PROVE TypeOK'
  <2>1. ParkGiveUp(t)
    BY <1>10 DEF WaitFailed
  <2>2. PICK i \in 1..Len(Queue(t)) :
            waiters' = [waiters EXCEPT ![MyBucket(t)] = RemoveAt(@, i)]
    BY <2>1 DEF ParkGiveUp
  <2>3. waiters' \in [Buckets -> Seq(Threads)]
    BY <2>2, RemoveAtProperties, BucketOfType DEF TypeOK, ParkTypeOK, Queue, MyBucket
  <2>4. ParkTypeOK'
    BY <2>1, <2>3 DEF ParkGiveUp, TypeOK, ParkTypeOK, ParkStates
  <2>5. LocalsTypeOK'
    BY <1>10 DEF WaitFailed, TypeOK, LocalsTypeOK, PCs
  <2> QED BY <1>10, <2>4, <2>5 DEF WaitFailed, TypeOK
<1>11. ASSUME NEW t \in Threads, Drain(t) PROVE TypeOK'
  <2>1. ParkTypeOK'
    BY <1>11 DEF Drain, ParkDrain, TypeOK, ParkTypeOK, ParkStates
  <2> QED BY <1>11, <2>1 DEF Drain, TypeOK
<1>12. ASSUME NEW t \in Threads, Reload(t) PROVE TypeOK'
  <2>1. mode' \in [Threads -> AllModes]
    BY <1>12 DEF Reload, TypeOK, LocalsTypeOK, AllModes
  <2>2. LocalsTypeOK'
    BY <1>12, <2>1 DEF Reload, TypeOK, LocalsTypeOK, PCs
  <2> QED BY <1>12, <2>2 DEF Reload, TypeOK
<1>13. ASSUME NEW t \in Threads, CallUnlock(t) PROVE TypeOK'
  <2>1. LocalsTypeOK'
    BY <1>13 DEF CallUnlock, TypeOK, LocalsTypeOK, PCs
  <2> QED BY <1>13, <2>1 DEF CallUnlock, TypeOK
<1>14. ASSUME NEW t \in Threads, UnlockFast(t) PROVE TypeOK'
  <2>1. LocalsTypeOK'
    BY <1>14 DEF UnlockFast, TypeOK, LocalsTypeOK, PCs
  <2> QED BY <1>14, <2>1 DEF UnlockFast, TypeOK, CasMiss, PCs
<1>15. ASSUME NEW t \in Threads, UnlockUnpark(t) PROVE TypeOK'
  <2>a. v' = [v EXCEPT ![t] = 0] /\ UNCHANGED <<mode, spin, aged>>
    BY <1>15 DEF UnlockUnpark
  <2>b. v' \in [Threads -> Bits] /\ 0 \in Bits
    BY <2>a DEF TypeOK, LocalsTypeOK, Bits
  <2>1. CASE \E w \in Threads : Unpark(t, w) /\ MutexUnpark(t, w) /\ Goto(t, "wakeup")
    <3>1. PICK w \in Threads : Unpark(t, w) /\ MutexUnpark(t, w) /\ Goto(t, "wakeup")
      BY <2>1
    <3>2. PICK i \in 1..Len(Queue(t)) :
              waiters' = [waiters EXCEPT ![MyBucket(t)] = RemoveAt(@, i)]
      BY <3>1 DEF Unpark
    <3>3. waiters' \in [Buckets -> Seq(Threads)]
      BY <3>2, RemoveAtProperties, BucketOfType DEF TypeOK, ParkTypeOK, Queue, MyBucket
    <3>4. ParkTypeOK'
      BY <3>1, <3>3 DEF Unpark, TypeOK, ParkTypeOK
    <3>5. bits' \in [Addrs -> Bits]
      <4> DEFINE new == (IF w \in aged THEN LOCKED ELSE 0)
                        + (IF HasMoreWaiters(t) THEN HAS_PARKED ELSE 0)
      <4>1. new \in Bits
        BY DEF Bits, LOCKED, HAS_PARKED
      <4>2. bits' = [bits EXCEPT ![addr[t]] = new]
        BY <3>1 DEF MutexUnpark
      <4> QED BY <4>1, <4>2 DEF TypeOK
    <3>6. handedOff' \subseteq Threads
      BY <3>1 DEF MutexUnpark, TypeOK, LocalsTypeOK
    <3>8. pc' \in [Threads -> PCs]
      BY <3>1 DEF PCs
    <3>7. LocalsTypeOK'
      BY <2>a, <2>b, <3>6, <3>8 DEF TypeOK, LocalsTypeOK
    <3> QED BY <3>4, <3>5, <3>7 DEF TypeOK
  <2>2. CASE /\ UnparkNone(t)
             /\ bits' = [bits EXCEPT ![addr[t]] = UNLOCKED]
             /\ Goto(t, "idle")
             /\ UNCHANGED handedOff
    <3>1. LocalsTypeOK'
      BY <2>a, <2>b, <2>2 DEF TypeOK, LocalsTypeOK, PCs
    <3>2. bits' \in [Addrs -> Bits]
      BY <2>b, <2>2 DEF TypeOK, UNLOCKED
    <3> QED BY <2>2, <3>1, <3>2 DEF UnparkNone, TypeOK
  <2> QED BY <1>15, <2>1, <2>2 DEF UnlockUnpark
<1>16. ASSUME NEW t \in Threads, Post(t) PROVE TypeOK'
  <2>1. ParkTypeOK'
    BY <1>16 DEF Post, Wakeup, TypeOK, ParkTypeOK
  <2>2. LocalsTypeOK'
    BY <1>16 DEF Post, TypeOK, LocalsTypeOK, PCs
  <2> QED BY <1>16, <2>1, <2>2 DEF Post, TypeOK
<1>17. ASSUME NEW t \in Threads, SemaInterrupted(t) \/ SemaTimedOut(t) PROVE TypeOK'
  <2>1. ParkTypeOK'
    BY <1>17 DEF SemaInterrupted, SemaTimedOut, WaitFails, TypeOK, ParkTypeOK, ParkStates
  <2> QED BY <1>17, <2>1 DEF SemaInterrupted, SemaTimedOut, TypeOK
<1>18. ASSUME NEW t \in Threads, Age(t) PROVE TypeOK'
  <2>1. LocalsTypeOK'
    BY <1>18 DEF Age, TypeOK, LocalsTypeOK
  <2> QED BY <1>18, <2>1 DEF Age, TypeOK
<1>19. ASSUME UNCHANGED vars PROVE TypeOK'
  BY <1>19 DEF vars, TypeOK
<1>20. CASE Next
  <2>1. PICK t \in Threads : Step(t)
    BY <1>20 DEF Next
  <2> QED
    BY <2>1, <1>1, <1>2, <1>3, <1>4, <1>5, <1>6, <1>7, <1>8, <1>9, <1>10, <1>11,
       <1>12, <1>13, <1>14, <1>15, <1>16, <1>17, <1>18 DEF Step, LockStep, UnlockStep
<1> QED BY <1>19, <1>20

-----------------------------------------------------------------------------
(* What does not change keeps its part of the invariant.                   *)
LEMMA Frames ==
    ASSUME IndInv
    PROVE  /\ UNCHANGED <<parkState, pc, isUnparking, sema>> => ParkInv'
           /\ UNCHANGED <<waiters, addr, parkState, isUnparking>> => WaitersInv'
           /\ UNCHANGED <<waking, parkState, isUnparking, sema>> => PostedWaiterIsThere'
           /\ UNCHANGED <<handedOff, isUnparking>> => HandInv'
           /\ UNCHANGED <<bits, addr, pc, handedOff>> => MutualExclusion'
<1>1. UNCHANGED <<parkState, pc, isUnparking, sema>> => ParkInv'
  BY DEF IndInv, ParkInv
<1>2. UNCHANGED <<waiters, addr, parkState, isUnparking>> => WaitersInv'
  BY DEF IndInv, WaitersInv, Queued
<1>3. UNCHANGED <<waking, parkState, isUnparking, sema>> => PostedWaiterIsThere'
  BY DEF IndInv, PostedWaiterIsThere
<1>4. UNCHANGED <<handedOff, isUnparking>> => HandInv'
  BY DEF IndInv, HandInv
<1>5. UNCHANGED <<bits, addr, pc, handedOff>> => MutualExclusion'
  BY DEF IndInv, MutualExclusion, Owns
<1> QED BY <1>1, <1>2, <1>3, <1>4, <1>5

(* A thread that is not parked has no hand-off pending.                    *)
LEMMA OnlyParkedAreHanded ==
    ASSUME IndInv, NEW t \in Threads, pc[t] # "parked"
    PROVE  t \notin handedOff /\ t \notin isUnparking /\ parkState[t] = "out"
  BY DEF IndInv, ParkInv, HandInv, InPark

(* Steps of t outside the parking lot: only t's locals, pc and one word    *)
(* change, so everything but MutualExclusion is kept.                      *)
LEMMA OutsideParking ==
    ASSUME IndInv, NEW t \in Threads, NEW l \in PCs \ {"parked"},
           pc[t] # "parked", Goto(t, l), UNCHANGED parkVars,
           handedOff' \in {handedOff, handedOff \ {t}}
    PROVE  /\ ParkInv' /\ WaitersInv' /\ PostedWaiterIsThere' /\ HandInv'
           /\ UNCHANGED handedOff /\ addr' = addr
           /\ pc' = [pc EXCEPT ![t] = l]
<1>1. t \notin handedOff
  BY OnlyParkedAreHanded
<1>2. UNCHANGED <<bucketOwner, waiters, addr, parkState, isUnparking, sema, waking>>
  BY DEF parkVars
<1>3. handedOff' = handedOff
  BY <1>1
<1>4. pc' = [pc EXCEPT ![t] = l] /\ pc \in [Threads -> PCs]
  BY DEF Goto, IndInv, TypeOK, LocalsTypeOK
<1>5. ParkInv'
  BY <1>2, <1>4 DEF IndInv, ParkInv
<1> QED BY <1>2, <1>3, <1>4, <1>5, Frames

(* The ways in which ownership moves.                                      *)
LEMMA OwnershipSame ==
    ASSUME IndInv, UNCHANGED bits,
           \A u \in Threads, m \in Addrs : Owns(u, m)' <=> Owns(u, m)
    PROVE  MutualExclusion'
  BY DEF IndInv, MutualExclusion

LEMMA OwnershipAcquired ==
    ASSUME IndInv, NEW t \in Threads, NEW a \in Addrs, NEW x \in Bits, IsLocked(x),
           ~IsLocked(bits[a]),
           bits' = [bits EXCEPT ![a] = x],
           Owns(t, a)',
           \A u \in Threads, m \in Addrs :
               u # t \/ m # a => (Owns(u, m)' <=> Owns(u, m))
    PROVE  MutualExclusion'
<1>1. bits \in [Addrs -> Bits]
  BY DEF IndInv, TypeOK
<1>2. \A m \in Addrs : m # a => bits'[m] = bits[m]
  BY <1>1
<1>3. bits'[a] = x
  BY <1>1
<1>4. \A u \in Threads : ~Owns(u, a)
  BY <1>1 DEF IndInv, MutualExclusion
<1>5. \A u \in Threads : u # t => ~Owns(u, a)'
  BY <1>1, <1>4
<1>6. Owns(t, a)'
  OBVIOUS
<1>7. ASSUME NEW m \in Addrs, m # a
      PROVE  \A u \in Threads : Owns(u, m)' <=> Owns(u, m)
  BY <1>7
<1>8. ASSUME NEW m \in Addrs
      PROVE  /\ IsLocked(bits'[m]) <=> (\E u \in Threads : Owns(u, m)')
             /\ \A u, w \in Threads : Owns(u, m)' /\ Owns(w, m)' => u = w
  <2>1. CASE m = a
    BY <2>1, <1>3, <1>5, <1>6
  <2>2. CASE m # a
    BY <2>2, <1>2, <1>7 DEF IndInv, MutualExclusion
  <2> QED BY <2>1, <2>2
<1> QED BY <1>8 DEF MutualExclusion

LEMMA OwnershipReleased ==
    ASSUME IndInv, NEW t \in Threads, NEW a \in Addrs, NEW x \in Bits, ~IsLocked(x),
           Owns(t, a),
           bits' = [bits EXCEPT ![a] = x],
           ~Owns(t, a)',
           \A u \in Threads, m \in Addrs :
               u # t \/ m # a => (Owns(u, m)' <=> Owns(u, m))
    PROVE  MutualExclusion'
<1>1. bits \in [Addrs -> Bits]
  BY DEF IndInv, TypeOK
<1>2. \A m \in Addrs : m # a => bits'[m] = bits[m]
  BY <1>1
<1>3. bits'[a] = x
  BY <1>1
<1>4. \A u \in Threads : u # t => ~Owns(u, a)
  BY <1>1 DEF IndInv, MutualExclusion
<1>5. \A u \in Threads : u # t => ~(Owns(u, a)')
  BY <1>1, <1>4
<1>8. ASSUME NEW m \in Addrs
      PROVE  /\ IsLocked(bits'[m]) <=> (\E u \in Threads : Owns(u, m)')
             /\ \A u, w \in Threads : Owns(u, m)' /\ Owns(w, m)' => u = w
  <2>1. CASE m = a
    BY <2>1, <1>3, <1>5
  <2>2. CASE m # a
    BY <2>2, <1>2 DEF IndInv, MutualExclusion
  <2> QED BY <2>1, <2>2
<1> QED BY <1>8 DEF MutualExclusion

(* A compare-exchange by a thread outside the parking lot that takes the   *)
(* mutex, and a step of such a thread that leaves _bits alone.             *)
LEMMA Takes ==
    ASSUME IndInv, NEW t \in Threads, pc[t] \in {"cas", "loop"},
           CasSucceeds(t, WithLocked(v[t])), ~IsLocked(v[t]),
           Return(t, "held"), UNCHANGED parkVars
    PROVE  ParkInv' /\ WaitersInv' /\ PostedWaiterIsThere' /\ HandInv' /\ MutualExclusion'
<1>1. /\ ParkInv' /\ WaitersInv' /\ PostedWaiterIsThere' /\ HandInv'
      /\ UNCHANGED handedOff /\ addr' = addr
      /\ pc' = [pc EXCEPT ![t] = "held"]
  <2>1. /\ Goto(t, "held") /\ handedOff' \in {handedOff, handedOff \ {t}}
        /\ "held" \in PCs \ {"parked"} /\ pc[t] # "parked"
    BY DEF Return, PCs
  <2> QED BY <2>1, OutsideParking
<1>2. PICK a \in Addrs : a = addr[t]
  BY DEF IndInv, TypeOK, ParkTypeOK
<1>3. PICK x \in Bits : x = WithLocked(v[t]) /\ IsLocked(x)
  <2>1. v[t] \in Bits
    BY DEF IndInv, TypeOK, LocalsTypeOK
  <2> QED BY <2>1 DEF Bits, WithLocked, IsLocked, LOCKED
<1>4. ~IsLocked(bits[a]) /\ bits' = [bits EXCEPT ![a] = x]
  BY <1>2, <1>3 DEF CasSucceeds
<1>5. pc \in [Threads -> PCs]
  BY DEF IndInv, TypeOK, LocalsTypeOK
<1>6. Owns(t, a)'
  BY <1>1, <1>2, <1>5 DEF Owns
<1>7. \A u \in Threads, m \in Addrs : u # t \/ m # a => (Owns(u, m)' <=> Owns(u, m))
  BY <1>1, <1>2, <1>5 DEF Owns
<1>8. MutualExclusion'
  BY <1>3, <1>4, <1>6, <1>7, OwnershipAcquired
<1> QED BY <1>1, <1>8

LEMMA Looks ==
    ASSUME IndInv, NEW t \in Threads, NEW l \in PCs \ {"parked"},
           pc[t] # "parked", Goto(t, l), UNCHANGED parkVars, UNCHANGED bits,
           handedOff' \in {handedOff, handedOff \ {t}},
           (l \in {"held", "unlock"}) <=> (pc[t] \in {"held", "unlock"})
    PROVE  ParkInv' /\ WaitersInv' /\ PostedWaiterIsThere' /\ HandInv' /\ MutualExclusion'
<1>1. /\ ParkInv' /\ WaitersInv' /\ PostedWaiterIsThere' /\ HandInv'
      /\ UNCHANGED handedOff /\ addr' = addr
      /\ pc' = [pc EXCEPT ![t] = l]
  BY OutsideParking
<1>2. pc \in [Threads -> PCs]
  BY DEF IndInv, TypeOK, LocalsTypeOK
<1>3. \A u \in Threads, m \in Addrs : Owns(u, m)' <=> Owns(u, m)
  BY <1>1, <1>2 DEF Owns
<1> QED BY <1>1, <1>3, OwnershipSame

(* The positions of a queue from which position k was removed.             *)
LEMMA AfterRemoval ==
    ASSUME IndInv, NEW b \in Buckets, NEW k \in 1..Len(waiters[b]),
           waiters' = [waiters EXCEPT ![b] = RemoveAt(@, k)]
    PROVE  /\ \A c \in Buckets \ {b} : waiters'[c] = waiters[c]
           /\ \A i \in 1..Len(waiters'[b]) :
                 /\ (IF i < k THEN i ELSE i + 1) \in 1..Len(waiters[b])
                 /\ waiters'[b][i] = waiters[b][IF i < k THEN i ELSE i + 1]
                 /\ waiters'[b][i] # waiters[b][k]
           /\ \A i, j \in 1..Len(waiters'[b]) :
                 waiters'[b][i] = waiters'[b][j] => i = j
<1> DEFINE q == waiters[b]
           r == RemoveAt(q, k)
           Old(i) == IF i < k THEN i ELSE i + 1
<1>1. q \in Seq(Threads) /\ waiters'[b] = r
  BY DEF IndInv, TypeOK, ParkTypeOK
<1>2. \A c \in Buckets \ {b} : waiters'[c] = waiters[c]
  BY DEF IndInv, TypeOK, ParkTypeOK
<1>3. Len(r) = Len(q) - 1 /\ \A i \in 1..(Len(q) - 1) : r[i] = q[Old(i)]
  BY <1>1, RemoveAtProperties
<1>4. \A i, j \in 1..Len(q) : q[i] = q[j] => i = j
  BY DEF IndInv, WaitersInv
<1>5. Len(q) \in Nat
  BY <1>1, LenProperties
<1> HIDE DEF q, r
<1>6. ASSUME NEW i \in 1..Len(r)
      PROVE  Old(i) \in 1..Len(q) /\ r[i] = q[Old(i)] /\ r[i] # q[k]
  <2>0. k \in 1..Len(q)
    BY DEF q
  <2>1. Old(i) \in 1..Len(q) /\ Old(i) # k /\ i \in 1..(Len(q) - 1)
    BY <1>3, <1>5, <2>0
  <2> QED BY <1>3, <1>4, <2>0, <2>1
<1>7. ASSUME NEW i \in 1..Len(r), NEW j \in 1..Len(r), r[i] = r[j]
      PROVE  i = j
  <2>1. Old(i) = Old(j)
    BY <1>4, <1>6, <1>7
  <2> QED BY <2>1
<1> QED BY <1>1, <1>2, <1>6, <1>7 DEF q

-----------------------------------------------------------------------------
(* The steps inside the parking lot, one lemma per step.                   *)
Rest == ParkInv /\ WaitersInv /\ PostedWaiterIsThere /\ HandInv /\ MutualExclusion

LEMMA ParkStep ==
    ASSUME IndInv, NEW t \in Threads, Park(t)
    PROVE  Rest'
<1>1. pc[t] = "loop" /\ bits' = bits /\ handedOff' = handedOff
  BY DEF Park
<1>2. CASE ParkAgain(t, bits[addr[t]], v[t]) /\ Goto(t, "reload")
  <2>1. "reload" \in PCs \ {"parked"}
    BY DEF PCs
  <2> QED BY <1>1, <1>2, <2>1, Looks DEF ParkAgain, Rest
<1>3. CASE ParkCompare(t, bits[addr[t]], v[t]) /\ Goto(t, "parked")
  <2>1. /\ parkState' = [parkState EXCEPT ![t] = "enqueue"]
        /\ UNCHANGED <<waiters, addr, isUnparking, sema, waking>>
        /\ pc' = [pc EXCEPT ![t] = "parked"]
    BY <1>3 DEF ParkCompare, Goto
  <2>2. /\ t \notin handedOff /\ t \notin isUnparking /\ parkState[t] = "out"
        /\ pc \in [Threads -> PCs] /\ parkState \in [Threads -> ParkStates]
    BY <1>1, OnlyParkedAreHanded DEF IndInv, TypeOK, LocalsTypeOK, ParkTypeOK
  <2>3. ParkInv'
    BY <2>1, <2>2 DEF IndInv, ParkInv
  <2>4. WaitersInv'
    <3>1. \A b \in Buckets : \A i \in 1..Len(waiters[b]) :
              waiters[b][i] # t /\ waiters[b][i] \in Threads
      BY <2>2, ElementOfSeq DEF IndInv, WaitersInv, Queued, TypeOK, ParkTypeOK
    <3> QED BY <2>1, <2>2, <3>1 DEF IndInv, WaitersInv, Queued
  <2>5. PostedWaiterIsThere'
    BY <2>1, <2>2 DEF IndInv, PostedWaiterIsThere, TypeOK, ParkTypeOK
  <2>6. HandInv'
    BY <1>1, <2>1, Frames
  <2>7. \A u \in Threads, m \in Addrs : Owns(u, m)' <=> Owns(u, m)
    BY <1>1, <2>1, <2>2 DEF Owns
  <2>8. MutualExclusion'
    BY <1>1, <2>7, OwnershipSame
  <2> QED BY <2>3, <2>4, <2>5, <2>6, <2>8 DEF Rest
<1> QED BY <1>2, <1>3 DEF Park

LEMMA EnqueueStep ==
    ASSUME IndInv, NEW t \in Threads, Enqueue(t)
    PROVE  Rest'
<1>1. /\ parkState[t] = "enqueue"
      /\ waiters' = [waiters EXCEPT ![MyBucket(t)] = Append(waiters[MyBucket(t)], t)]
      /\ isUnparking' = isUnparking \ {t}
      /\ sema' = [sema EXCEPT ![t] = 0]
      /\ parkState' = [parkState EXCEPT ![t] = "asleep"]
      /\ UNCHANGED <<addr, waking, bits, pc, handedOff>>
  BY DEF Enqueue, ParkEnqueue, mutexVars
<1>2. /\ t \notin isUnparking /\ t \notin handedOff
      /\ parkState \in [Threads -> ParkStates] /\ sema \in [Threads -> Nat]
      /\ isUnparking' = isUnparking
  BY <1>1 DEF IndInv, ParkInv, InPark, HandInv, TypeOK, ParkTypeOK
<1>3. ParkInv'
  BY <1>1, <1>2 DEF IndInv, ParkInv, InPark
<1>4. WaitersInv'
  <2> DEFINE b == MyBucket(t)
             Waits(w, c) == /\ BucketOf[addr'[w]] = c
                            /\ parkState'[w] \in {"asleep", "TIMEOUT", "INTR"}
                            /\ w \notin isUnparking'
  <2>1. b \in Buckets /\ waiters[b] \in Seq(Threads) /\ waiters \in [Buckets -> Seq(Threads)]
    BY BucketOfType DEF IndInv, TypeOK, ParkTypeOK, MyBucket
  <2>2. /\ Len(waiters'[b]) = Len(waiters[b]) + 1 /\ Len(waiters[b]) \in Nat
        /\ \A i \in 1..Len(waiters[b]) : waiters'[b][i] = waiters[b][i]
        /\ waiters'[b][Len(waiters[b]) + 1] = t
    BY <1>1, <2>1, AppendProperties, LenProperties
  <2>3. \A c \in Buckets : \A i \in 1..Len(waiters[c]) :
            waiters[c][i] # t /\ waiters[c][i] \in Threads
    BY <1>1, <2>1, ElementOfSeq DEF IndInv, WaitersInv, Queued
  <2>4. ASSUME NEW c \in Buckets, NEW i \in 1..Len(waiters[c])
        PROVE  Waits(waiters[c][i], c)
    BY <1>1, <1>2, <2>3 DEF IndInv, WaitersInv, Queued
  <2>5. Waits(t, b)
    BY <1>1, <1>2 DEF MyBucket
  <2>6. \A c \in Buckets \ {b} : waiters'[c] = waiters[c]
    BY <1>1, <2>1
  <2> HIDE DEF b, Waits
  <2>7. ASSUME NEW i \in 1..Len(waiters'[b])
        PROVE  Waits(waiters'[b][i], b)
    BY <2>1, <2>2, <2>4, <2>5
  <2>8. ASSUME NEW i \in 1..Len(waiters'[b]), NEW j \in 1..Len(waiters'[b]),
               waiters'[b][i] = waiters'[b][j]
        PROVE  i = j
    <3>1. \A x, y \in 1..Len(waiters[b]) : waiters[b][x] = waiters[b][y] => x = y
      BY <2>1 DEF IndInv, WaitersInv
    <3> QED BY <2>1, <2>2, <2>3, <2>8, <3>1
  <2>9. ASSUME NEW c \in Buckets \ {b}
        PROVE  /\ \A i \in 1..Len(waiters'[c]) : Waits(waiters'[c][i], c)
               /\ \A i, j \in 1..Len(waiters'[c]) :
                     waiters'[c][i] = waiters'[c][j] => i = j
    BY <2>4, <2>6 DEF IndInv, WaitersInv
  <2> QED BY <2>7, <2>8, <2>9 DEF WaitersInv, Queued, Waits
<1>5. PostedWaiterIsThere'
  BY <1>1, <1>2 DEF IndInv, PostedWaiterIsThere, TypeOK, ParkTypeOK
<1> QED BY <1>1, <1>2, <1>3, <1>4, <1>5, Frames DEF Rest

(* The queues stay in order if they do not change, or lose one waiter.     *)
LEMMA WaitersKept ==
    ASSUME IndInv, UNCHANGED waiters,
           \A w \in Threads : Queued(w) => Queued(w)' /\ addr'[w] = addr[w]
    PROVE  WaitersInv'
<1>1. \A b \in Buckets : \A i \in 1..Len(waiters[b]) : waiters[b][i] \in Threads
  BY ElementOfSeq DEF IndInv, TypeOK, ParkTypeOK
<1> QED BY <1>1 DEF IndInv, WaitersInv, Queued

LEMMA WaiterRemoved ==
    ASSUME IndInv, NEW b \in Buckets, NEW k \in 1..Len(waiters[b]),
           waiters' = [waiters EXCEPT ![b] = RemoveAt(@, k)],
           \A w \in Threads \ {waiters[b][k]} :
               Queued(w) => Queued(w)' /\ addr'[w] = addr[w]
    PROVE  WaitersInv'
<1> DEFINE Waits(w, c) == /\ BucketOf[addr'[w]] = c
                          /\ parkState'[w] \in {"asleep", "TIMEOUT", "INTR"}
                          /\ w \notin isUnparking'
<1>1. \A c \in Buckets : \A i \in 1..Len(waiters[c]) : waiters[c][i] \in Threads
  BY ElementOfSeq DEF IndInv, TypeOK, ParkTypeOK
<1>2. \A c \in Buckets : \A i \in 1..Len(waiters[c]) :
          waiters[c][i] # waiters[b][k] => Waits(waiters[c][i], c)
  BY <1>1 DEF IndInv, WaitersInv, Queued
<1>3. \A c \in Buckets \ {b} : \A i \in 1..Len(waiters[c]) :
          waiters[c][i] # waiters[b][k]
  BY DEF IndInv, WaitersInv
<1>4. /\ \A c \in Buckets \ {b} : waiters'[c] = waiters[c]
      /\ \A i \in 1..Len(waiters'[b]) :
            /\ (IF i < k THEN i ELSE i + 1) \in 1..Len(waiters[b])
            /\ waiters'[b][i] = waiters[b][IF i < k THEN i ELSE i + 1]
            /\ waiters'[b][i] # waiters[b][k]
      /\ \A i, j \in 1..Len(waiters'[b]) : waiters'[b][i] = waiters'[b][j] => i = j
  BY AfterRemoval
<1> HIDE DEF Waits
<1>5. ASSUME NEW i \in 1..Len(waiters'[b])
      PROVE  Waits(waiters'[b][i], b)
  <2>1. PICK j \in 1..Len(waiters[b]) :
            waiters'[b][i] = waiters[b][j] /\ waiters[b][j] # waiters[b][k]
    BY <1>4
  <2>2. Waits(waiters[b][j], b)
    BY <1>2, <2>1
  <2> QED BY <2>1, <2>2
<1>6. ASSUME NEW c \in Buckets \ {b}
      PROVE  /\ \A i \in 1..Len(waiters'[c]) : Waits(waiters'[c][i], c)
             /\ \A i, j \in 1..Len(waiters'[c]) :
                    waiters'[c][i] = waiters'[c][j] => i = j
  BY <1>2, <1>3, <1>4, SMTT(30) DEF IndInv, WaitersInv
<1>7. ASSUME NEW c \in Buckets
      PROVE  /\ \A i \in 1..Len(waiters'[c]) : Waits(waiters'[c][i], c)
             /\ \A i, j \in 1..Len(waiters'[c]) :
                    waiters'[c][i] = waiters'[c][j] => i = j
  <2>1. CASE c = b
    <3>1. \A i \in 1..Len(waiters'[b]) : Waits(waiters'[b][i], b)
      BY <1>5
    <3> QED BY <1>4, <2>1, <3>1
  <2>2. CASE c # b
    BY <1>6, <2>2
  <2> QED BY <2>1, <2>2
<1> QED BY <1>7 DEF WaitersInv, Queued, Waits

LEMMA WokenStep ==
    ASSUME IndInv, NEW t \in Threads, Woken(t)
    PROVE  Rest'
<1>1. /\ parkState[t] \in {"asleep", "drain"} /\ sema[t] > 0
      /\ sema' = [sema EXCEPT ![t] = @ - 1]
      /\ isUnparking' = isUnparking \ {t}
      /\ parkState' = [parkState EXCEPT ![t] = "out"]
      /\ UNCHANGED <<bucketOwner, waiters, addr, waking, bits>>
  BY DEF Woken, ParkOk
<1>2. /\ sema[t] = 1 /\ t \in isUnparking /\ pc[t] = "parked"
      /\ parkState \in [Threads -> ParkStates] /\ sema \in [Threads -> Nat]
      /\ pc \in [Threads -> PCs] /\ addr \in [Threads -> Addrs]
  BY <1>1 DEF IndInv, ParkInv, TypeOK, ParkTypeOK, LocalsTypeOK
<1>3. PICK l \in {"held", "reload"} :
          /\ pc' = [pc EXCEPT ![t] = l]
          /\ (l = "held") <=> t \in handedOff
          /\ handedOff' = handedOff \ {t}
  <2>1. CASE t \in handedOff /\ Return(t, "held")
    BY <2>1 DEF Return, Goto
  <2>2. CASE t \notin handedOff /\ Goto(t, "reload") /\ handedOff' = handedOff
    BY <2>2 DEF Goto
  <2> QED BY <2>1, <2>2 DEF Woken
<1>4. ParkInv'
  BY <1>1, <1>2, <1>3 DEF IndInv, ParkInv
<1>5. WaitersInv'
  <2>1. \A w \in Threads : Queued(w) => Queued(w)' /\ addr'[w] = addr[w]
    BY <1>1, <1>2 DEF Queued
  <2> QED BY <1>1, <2>1, WaitersKept
<1>6. PostedWaiterIsThere'
  <2>1. \A u \in Threads : t \notin waking[u]
    BY <1>2 DEF IndInv, PostedWaiterIsThere
  <2> QED BY <1>1, <1>2, <2>1 DEF IndInv, PostedWaiterIsThere, TypeOK, ParkTypeOK
<1>7. HandInv'
  BY <1>1, <1>3 DEF IndInv, HandInv
<1>8. MutualExclusion'
  <2>1. \A u \in Threads, m \in Addrs : Owns(u, m)' <=> Owns(u, m)
    BY <1>1, <1>2, <1>3 DEF Owns
  <2> QED BY <1>1, <2>1, OwnershipSame
<1> QED BY <1>4, <1>5, <1>6, <1>7, <1>8 DEF Rest

LEMMA WaitFailedStep ==
    ASSUME IndInv, NEW t \in Threads, WaitFailed(t)
    PROVE  Rest'
<1>1. /\ parkState[t] \in {"TIMEOUT", "INTR"} /\ t \notin isUnparking
      /\ parkState' = [parkState EXCEPT ![t] = "out"]
      /\ UNCHANGED <<addr, isUnparking, sema, waking, bits>>
  BY DEF WaitFailed, ParkGiveUp
<1>b. PICK b \in Buckets : b = MyBucket(t)
  BY BucketOfType DEF IndInv, TypeOK, ParkTypeOK, MyBucket
<1>2. PICK i \in 1..Len(waiters[b]) :
          waiters[b][i] = t /\ waiters' = [waiters EXCEPT ![b] = RemoveAt(@, i)]
  BY <1>b DEF WaitFailed, ParkGiveUp, Queue
<1>3. /\ t \notin handedOff /\ pc[t] = "parked" /\ sema[t] = 0
      /\ parkState \in [Threads -> ParkStates]
      /\ pc \in [Threads -> PCs] /\ addr \in [Threads -> Addrs]
  BY <1>1 DEF IndInv, ParkInv, HandInv, TypeOK, ParkTypeOK, LocalsTypeOK
<1>4. PICK l \in {"idle", "reload"} :
          pc' = [pc EXCEPT ![t] = l] /\ handedOff' = handedOff
  <2>1. CASE Return(t, "idle")
    BY <1>3, <2>1 DEF Return, Goto
  <2>2. CASE Goto(t, "reload") /\ handedOff' = handedOff
    BY <2>2 DEF Goto
  <2> QED BY <2>1, <2>2 DEF WaitFailed
<1>5. ParkInv'
  BY <1>1, <1>3, <1>4 DEF IndInv, ParkInv
<1>6. WaitersInv'
  <2>1. \A w \in Threads \ {waiters[b][i]} :
            Queued(w) => Queued(w)' /\ addr'[w] = addr[w]
    BY <1>1, <1>2 DEF Queued
  <2> QED BY <1>2, <2>1, WaiterRemoved
<1>7. PostedWaiterIsThere'
  <2>1. \A u \in Threads : t \notin waking[u]
    BY <1>1 DEF IndInv, PostedWaiterIsThere
  <2> QED BY <1>1, <1>3, <2>1 DEF IndInv, PostedWaiterIsThere, TypeOK, ParkTypeOK
<1>8. MutualExclusion'
  <2>1. \A u \in Threads, m \in Addrs : Owns(u, m)' <=> Owns(u, m)
    BY <1>1, <1>3, <1>4 DEF Owns
  <2> QED BY <1>1, <2>1, OwnershipSame
<1> QED BY <1>1, <1>4, <1>5, <1>6, <1>7, <1>8, Frames DEF Rest

(* The semaphore wait fails, or the failed wait finds itself unparked.     *)
LEMMA WaitFailsStep ==
    ASSUME IndInv, NEW t \in Threads,
           Drain(t) \/ SemaInterrupted(t) \/ SemaTimedOut(t)
    PROVE  Rest'
<1>1. PICK x \in {"TIMEOUT", "INTR", "drain"} :
          /\ parkState' = [parkState EXCEPT ![t] = x]
          /\ x = "drain" => t \in isUnparking
  BY DEF Drain, ParkDrain, SemaInterrupted, SemaTimedOut, WaitFails
<1>2. /\ parkState[t] \in {"asleep", "TIMEOUT", "INTR"}
      /\ UNCHANGED <<waiters, addr, isUnparking, sema, waking, bits, pc, handedOff>>
  BY DEF Drain, ParkDrain, SemaInterrupted, SemaTimedOut, WaitFails, mutexVars
<1>3. parkState \in [Threads -> ParkStates]
  BY DEF IndInv, TypeOK, ParkTypeOK
<1>4. ParkInv'
  BY <1>1, <1>2, <1>3 DEF IndInv, ParkInv, InPark
<1>5. WaitersInv'
  <2>1. \A w \in Threads : Queued(w) => Queued(w)' /\ addr'[w] = addr[w]
    BY <1>1, <1>2, <1>3 DEF Queued
  <2> QED BY <1>2, <2>1, WaitersKept
<1>6. PostedWaiterIsThere'
  BY <1>1, <1>2, <1>3 DEF IndInv, PostedWaiterIsThere, TypeOK, ParkTypeOK
<1> QED BY <1>2, <1>4, <1>5, <1>6, Frames DEF Rest

LEMMA PostStep ==
    ASSUME IndInv, NEW t \in Threads, Post(t)
    PROVE  Rest'
<1>1. PICK w \in Threads : Wakeup(t, w)
  BY DEF Post
<1>2. /\ w \in waking[t]
      /\ sema' = [sema EXCEPT ![w] = @ + 1]
      /\ waking' = [waking EXCEPT ![t] = @ \ {w}]
      /\ UNCHANGED <<waiters, addr, parkState, isUnparking, bits, handedOff>>
      /\ pc[t] = "wakeup" /\ pc' = [pc EXCEPT ![t] = "idle"]
  BY <1>1 DEF Wakeup, Post, Goto
<1>3. /\ sema \in [Threads -> Nat] /\ waking \in [Threads -> SUBSET Threads]
      /\ pc \in [Threads -> PCs] /\ addr \in [Threads -> Addrs]
  BY DEF IndInv, TypeOK, ParkTypeOK, LocalsTypeOK
<1>4. w \in isUnparking /\ sema[w] = 0 /\ \A u \in Threads \ {t} : w \notin waking[u]
  BY <1>2 DEF IndInv, PostedWaiterIsThere
<1>5. ParkInv'
  BY <1>2, <1>3, <1>4 DEF IndInv, ParkInv
<1>6. PostedWaiterIsThere'
  <2>1. \A u \in Threads : waking'[u] = IF u = t THEN waking[t] \ {w} ELSE waking[u]
    BY <1>2, <1>3
  <2>2. \A u \in Threads : waking'[u] \subseteq waking[u] /\ w \notin waking'[u]
    BY <1>4, <2>1
  <2>3. \A x \in Threads : x # w => sema'[x] = sema[x]
    BY <1>2, <1>3
  <2>4. \A u \in Threads : \A x \in waking[u] : x \in Threads
    BY <1>3
  <2> QED BY <1>2, <2>2, <2>3, <2>4 DEF IndInv, PostedWaiterIsThere
<1>7. MutualExclusion'
  <2>1. \A u \in Threads, m \in Addrs : Owns(u, m)' <=> Owns(u, m)
    BY <1>2, <1>3 DEF Owns
  <2> QED BY <1>2, <2>1, OwnershipSame
<1> QED BY <1>2, <1>5, <1>6, <1>7, Frames DEF Rest

LEMMA CallLockStep ==
    ASSUME IndInv, NEW t \in Threads, CallLock(t)
    PROVE  Rest'
<1>1. PICK m \in Addrs : addr' = [addr EXCEPT ![t] = m]
  BY DEF CallLock
<1>2. PICK l \in {"idle", "loop", "cas"} : pc' = [pc EXCEPT ![t] = l]
  <2>1. pc[t] = "idle" /\ pc \in [Threads -> PCs]
    BY DEF CallLock, IndInv, TypeOK, LocalsTypeOK
  <2> QED BY <2>1 DEF CallLock, Goto
<1>3. /\ pc[t] = "idle"
      /\ UNCHANGED <<waiters, parkState, isUnparking, sema, waking, bits, handedOff>>
  BY DEF CallLock
<1>4. /\ t \notin handedOff /\ parkState[t] = "out"
      /\ pc \in [Threads -> PCs] /\ addr \in [Threads -> Addrs]
  BY <1>3, OnlyParkedAreHanded DEF IndInv, TypeOK, ParkTypeOK, LocalsTypeOK
<1>5. ParkInv'
  BY <1>2, <1>3, <1>4 DEF IndInv, ParkInv
<1>6. WaitersInv'
  <2>1. \A w \in Threads : Queued(w) => Queued(w)' /\ addr'[w] = addr[w]
    BY <1>1, <1>3, <1>4 DEF Queued
  <2> QED BY <1>3, <2>1, WaitersKept
<1>7. MutualExclusion'
  <2>1. \A u \in Threads, a \in Addrs : Owns(u, a)' <=> Owns(u, a)
    BY <1>1, <1>2, <1>3, <1>4 DEF Owns
  <2> QED BY <1>3, <2>1, OwnershipSame
<1> QED BY <1>3, <1>5, <1>6, <1>7, Frames DEF Rest

LEMMA UnlockFastStep ==
    ASSUME IndInv, NEW t \in Threads, UnlockFast(t)
    PROVE  Rest'
<1>1. pc[t] = "unlock" /\ UNCHANGED parkVars /\ "idle" \in PCs /\ "unlock" \in PCs
  BY DEF UnlockFast, PCs
<1>2. CASE CasMiss(t) /\ UNCHANGED <<pc, mode, spin, aged, handedOff>>
  BY <1>1, <1>2, Frames DEF CasMiss, parkVars, Rest
<1>3. CASE CasSucceeds(t, UNLOCKED) /\ Return(t, "idle")
  <2>1. /\ Goto(t, "idle") /\ handedOff' \in {handedOff, handedOff \ {t}}
    BY <1>3 DEF Return
  <2>2. /\ ParkInv' /\ WaitersInv' /\ PostedWaiterIsThere' /\ HandInv'
        /\ UNCHANGED handedOff /\ addr' = addr
        /\ pc' = [pc EXCEPT ![t] = "idle"]
    BY <1>1, <2>1, OutsideParking
  <2>3. PICK a \in Addrs : a = addr[t]
    BY DEF IndInv, TypeOK, ParkTypeOK
  <2>4. pc \in [Threads -> PCs] /\ t \notin handedOff
    BY <1>1, OnlyParkedAreHanded DEF IndInv, TypeOK, LocalsTypeOK
  <2>5. UNLOCKED \in Bits /\ ~IsLocked(UNLOCKED)
    BY DEF Bits, IsLocked, UNLOCKED
  <2>6. bits' = [bits EXCEPT ![a] = UNLOCKED]
    BY <1>3, <2>3 DEF CasSucceeds
  <2>7. Owns(t, a) /\ ~Owns(t, a)'
    BY <1>1, <2>2, <2>3, <2>4 DEF Owns
  <2>8. \A u \in Threads, m \in Addrs : u # t \/ m # a => (Owns(u, m)' <=> Owns(u, m))
    BY <2>2, <2>3, <2>4 DEF Owns
  <2>9. MutualExclusion'
    BY <2>5, <2>6, <2>7, <2>8, OwnershipReleased
  <2> QED BY <2>2, <2>9 DEF Rest
<1> QED BY <1>2, <1>3 DEF UnlockFast

LEMMA OwnershipHanded ==
    ASSUME IndInv, NEW t \in Threads, NEW w \in Threads, t # w,
           NEW a \in Addrs, NEW x \in Bits, IsLocked(x),
           Owns(t, a), bits' = [bits EXCEPT ![a] = x],
           ~Owns(t, a)', Owns(w, a)',
           \A u \in Threads, m \in Addrs :
               u \notin {t, w} \/ m # a => (Owns(u, m)' <=> Owns(u, m))
    PROVE  MutualExclusion'
<1>1. \A m \in Addrs : m # a => bits'[m] = bits[m]
  BY DEF IndInv, TypeOK
<1>2. bits'[a] = x
  BY DEF IndInv, TypeOK
<1>3. \A u \in Threads : u # w => ~(Owns(u, a)')
  BY DEF IndInv, MutualExclusion
<1>4. ASSUME NEW m \in Addrs
      PROVE  /\ IsLocked(bits'[m]) <=> (\E u \in Threads : Owns(u, m)')
             /\ \A u, z \in Threads : Owns(u, m)' /\ Owns(z, m)' => u = z
  <2>1. CASE m = a
    BY <2>1, <1>2, <1>3
  <2>2. CASE m # a
    BY <2>2, <1>1 DEF IndInv, MutualExclusion
  <2> QED BY <2>1, <2>2
<1> QED BY <1>4 DEF MutualExclusion

LEMMA UnlockUnparkStep ==
    ASSUME IndInv, NEW t \in Threads, UnlockUnpark(t)
    PROVE  Rest'
<1>1. pc[t] = "unlock"
  BY DEF UnlockUnpark
<1>2. PICK a \in Addrs : a = addr[t]
  BY DEF IndInv, TypeOK, ParkTypeOK
<1>3. /\ pc \in [Threads -> PCs] /\ addr \in [Threads -> Addrs]
      /\ waking \in [Threads -> SUBSET Threads]
      /\ t \notin handedOff /\ t \notin isUnparking /\ parkState[t] = "out"
  BY <1>1, OnlyParkedAreHanded DEF IndInv, TypeOK, ParkTypeOK, LocalsTypeOK
<1>4. Owns(t, a)
  BY <1>1, <1>2 DEF Owns
<1>5. CASE /\ UnparkNone(t)
           /\ bits' = [bits EXCEPT ![addr[t]] = UNLOCKED]
           /\ Goto(t, "idle")
           /\ UNCHANGED handedOff
  <2>1. /\ ParkInv' /\ WaitersInv' /\ PostedWaiterIsThere' /\ HandInv'
        /\ UNCHANGED handedOff /\ addr' = addr
        /\ pc' = [pc EXCEPT ![t] = "idle"]
    <3>1. "idle" \in PCs \ {"parked"} /\ pc[t] # "parked" /\ UNCHANGED parkVars
          /\ handedOff' \in {handedOff, handedOff \ {t}} /\ Goto(t, "idle")
      BY <1>1, <1>5 DEF UnparkNone, PCs
    <3> QED BY <3>1, OutsideParking
  <2>2. UNLOCKED \in Bits /\ ~IsLocked(UNLOCKED)
    BY DEF Bits, IsLocked, UNLOCKED
  <2>3. ~Owns(t, a)'
    BY <1>3, <2>1 DEF Owns
  <2>4. \A u \in Threads, m \in Addrs : u # t \/ m # a => (Owns(u, m)' <=> Owns(u, m))
    BY <1>2, <1>3, <2>1 DEF Owns
  <2>5. MutualExclusion'
    BY <1>2, <1>4, <1>5, <2>2, <2>3, <2>4, OwnershipReleased
  <2> QED BY <2>1, <2>5 DEF Rest
<1>6. CASE \E w \in Threads : Unpark(t, w) /\ MutexUnpark(t, w) /\ Goto(t, "wakeup")
  <2>1. PICK w \in Threads : Unpark(t, w) /\ MutexUnpark(t, w) /\ Goto(t, "wakeup")
    BY <1>6
  <2>2. /\ isUnparking' = isUnparking \cup {w}
        /\ waking' = [waking EXCEPT ![t] = {w}]
        /\ UNCHANGED <<addr, parkState, sema>>
        /\ pc' = [pc EXCEPT ![t] = "wakeup"]
        /\ handedOff' = IF w \in aged THEN handedOff \cup {w} ELSE handedOff \ {w}
    BY <2>1 DEF Unpark, MutexUnpark, Goto
  <2>b. PICK b \in Buckets : b = MyBucket(t)
    BY BucketOfType DEF IndInv, TypeOK, ParkTypeOK, MyBucket
  <2>3. PICK i \in 1..Len(waiters[b]) :
            /\ waiters[b][i] = w /\ addr[w] = a
            /\ waiters' = [waiters EXCEPT ![b] = RemoveAt(@, i)]
    BY <1>2, <2>1, <2>b DEF Unpark, Queue, IsFirst
  <2>4. /\ Queued(w) /\ w \notin isUnparking /\ w \notin handedOff /\ pc[w] = "parked"
        /\ w # t /\ sema[w] = 0
    <3>1. Queued(w)
      BY <2>3 DEF IndInv, WaitersInv
    <3> QED BY <1>1, <3>1 DEF Queued, IndInv, ParkInv, HandInv
  <2>5. ParkInv'
    BY <1>1, <1>3, <2>2, <2>4 DEF IndInv, ParkInv, Queued, InPark
  <2>6. WaitersInv'
    <3>1. \A x \in Threads \ {waiters[b][i]} : Queued(x) => Queued(x)' /\ addr'[x] = addr[x]
      BY <2>2, <2>3 DEF Queued
    <3> QED BY <2>3, <3>1, WaiterRemoved
  <2>7. PostedWaiterIsThere'
    <3>1. \A u \in Threads : waking'[u] = IF u = t THEN {w} ELSE waking[u]
      BY <1>3, <2>2
    <3>2. \A u \in Threads : w \notin waking[u]
      BY <2>4 DEF IndInv, PostedWaiterIsThere
    <3> QED BY <2>2, <2>4, <3>1, <3>2 DEF IndInv, PostedWaiterIsThere, Queued
  <2>8. HandInv'
    BY <2>2 DEF IndInv, HandInv
  <2>9. MutualExclusion'
    <3> DEFINE x == (IF w \in aged THEN LOCKED ELSE 0)
                    + (IF HasMoreWaiters(t) THEN HAS_PARKED ELSE 0)
    <3>1. x \in Bits /\ (IsLocked(x) <=> w \in aged)
      BY DEF Bits, IsLocked, LOCKED, HAS_PARKED
    <3>2. bits' = [bits EXCEPT ![a] = x]
      BY <1>2, <2>1 DEF MutexUnpark
    <3> HIDE DEF x
    <3>3. ~Owns(t, a)'
      BY <1>3, <2>2, <2>4 DEF Owns
    <3>4. CASE w \in aged
      <4>1. Owns(w, a)'
        BY <2>2, <2>3, <3>4 DEF Owns
      <4>2. \A u \in Threads, m \in Addrs :
                u \notin {t, w} \/ m # a => (Owns(u, m)' <=> Owns(u, m))
        BY <1>1, <1>2, <1>3, <2>2, <2>3, <2>4, <3>4 DEF Owns
      <4> QED BY <1>4, <2>4, <3>1, <3>2, <3>3, <3>4, <4>1, <4>2, OwnershipHanded
    <3>5. CASE w \notin aged
      <4>1. handedOff' = handedOff
        BY <2>2, <2>4, <3>5
      <4>2. \A u \in Threads, m \in Addrs :
                u # t \/ m # a => (Owns(u, m)' <=> Owns(u, m))
        BY <1>1, <1>2, <1>3, <2>2, <4>1 DEF Owns
      <4> QED BY <1>4, <3>1, <3>2, <3>3, <3>5, <4>2, OwnershipReleased
    <3> QED BY <3>4, <3>5
  <2> QED BY <2>5, <2>6, <2>7, <2>8, <2>9 DEF Rest
<1> QED BY <1>5, <1>6 DEF UnlockUnpark

-----------------------------------------------------------------------------
LEMMA IndInvInit == Init => IndInv
<1> SUFFICES ASSUME Init PROVE IndInv
  OBVIOUS
<1> USE DEF Init, ParkInit
<1>1. TypeOK
  <2>1. ParkTypeOK
    BY EmptySeq DEF ParkTypeOK, ParkStates
  <2>2. LocalsTypeOK
    BY SpinType DEF LocalsTypeOK, PCs, Bits, AllModes
  <2> QED BY <2>1, <2>2 DEF TypeOK, Bits, UNLOCKED
<1>2. ParkInv /\ HandInv /\ PostedWaiterIsThere
  BY DEF ParkInv, HandInv, PostedWaiterIsThere
<1>3. WaitersInv
  BY DEF WaitersInv
<1>4. MutualExclusion /\ CasInv
  BY DEF MutualExclusion, CasInv, Owns, IsLocked, UNLOCKED
<1> QED BY <1>1, <1>2, <1>3, <1>4 DEF IndInv

(* The first compare-exchange is only tried on a mutex that looked free.   *)
LEMMA CasInvStep ==
    ASSUME IndInv, [Next]_vars
    PROVE  CasInv'
<1>1. /\ pc \in [Threads -> PCs] /\ v \in [Threads -> Bits]
      /\ \A t \in Threads : pc[t] = "cas" => ~IsLocked(v[t])
  BY DEF IndInv, CasInv, TypeOK, LocalsTypeOK
<1>2. ASSUME NEW t \in Threads, CallLock(t) PROVE CasInv'
  <2>1. PICK m \in Addrs :
            \/ UNCHANGED <<pc, v>>
            \/ /\ Goto(t, IF IsLocked(bits[m]) THEN "loop" ELSE "cas")
               /\ v' = [v EXCEPT ![t] = bits[m]]
    BY <1>2 DEF CallLock
  <2> QED BY <1>1, <2>1 DEF CasInv, Goto
<1>3. ASSUME NEW t \in Threads, NEW l \in PCs \ {"cas"}, Goto(t, l),
             \A u \in Threads \ {t} : v'[u] = v[u]
      PROVE  CasInv'
  BY <1>1, <1>3 DEF CasInv, Goto
<1>4. ASSUME NEW t \in Threads, NEW l \in PCs \ {"cas"}, Return(t, l) PROVE CasInv'
  <2>1. \A u \in Threads \ {t} : v'[u] = v[u]
    BY <1>1, <1>4 DEF Return
  <2> QED BY <1>3, <1>4, <2>1 DEF Return
<1>5. ASSUME NEW t \in Threads, pc[t] # "cas", UNCHANGED pc,
             \A u \in Threads \ {t} : v'[u] = v[u]
      PROVE  CasInv'
  BY <1>1, <1>5 DEF CasInv
<1>6. ASSUME NEW t \in Threads, Load(t) \/ UNCHANGED v \/ v' = [v EXCEPT ![t] = 0]
                                  \/ v' = [v EXCEPT ![t] = LOCKED + HAS_PARKED]
      PROVE  \A u \in Threads \ {t} : v'[u] = v[u]
  BY <1>1, <1>6 DEF Load
<1>7. {"idle", "loop", "held", "reload", "parked", "unlock", "wakeup"} \subseteq PCs \ {"cas"}
  BY DEF PCs
<1>8. ASSUME NEW t \in Threads, FirstCas(t) \/ Grab(t) \/ GiveUp(t) PROVE CasInv'
  BY <1>3, <1>4, <1>5, <1>6, <1>7, <1>8 DEF FirstCas, Grab, GiveUp
<1>9. ASSUME NEW t \in Threads, Spin(t) \/ MarkParked(t) PROVE CasInv'
  BY <1>5, <1>6, <1>9 DEF Spin, MarkParked
<1>10. ASSUME NEW t \in Threads, Park(t) \/ Woken(t) \/ WaitFailed(t) PROVE CasInv'
  BY <1>3, <1>4, <1>6, <1>7, <1>10 DEF Park, Woken, WaitFailed
<1>11. ASSUME NEW t \in Threads,
              \/ Enqueue(t) \/ Drain(t) \/ SemaInterrupted(t) \/ SemaTimedOut(t)
              \/ Age(t)
       PROVE  CasInv'
  <2>1. UNCHANGED <<pc, v>>
    BY <1>11 DEF Enqueue, Drain, SemaInterrupted, SemaTimedOut, Age, mutexVars
  <2> QED BY <1>1, <2>1 DEF CasInv
<1>12. ASSUME NEW t \in Threads, Reload(t) \/ CallUnlock(t) \/ Post(t) PROVE CasInv'
  BY <1>3, <1>6, <1>7, <1>12 DEF Reload, CallUnlock, Post
<1>13. ASSUME NEW t \in Threads, UnlockFast(t) PROVE CasInv'
  BY <1>4, <1>5, <1>6, <1>7, <1>13 DEF UnlockFast
<1>14. ASSUME NEW t \in Threads, UnlockUnpark(t) PROVE CasInv'
  BY <1>3, <1>6, <1>7, <1>14 DEF UnlockUnpark
<1>15. ASSUME UNCHANGED vars PROVE CasInv'
  BY <1>1, <1>15 DEF vars, mutexVars, CasInv
<1>16. CASE Next
  <2>1. PICK t \in Threads : Step(t)
    BY <1>16 DEF Next
  <2> QED
    BY <2>1, <1>2, <1>8, <1>9, <1>10, <1>11, <1>12, <1>13, <1>14
       DEF Step, LockStep, UnlockStep
<1> QED BY <1>15, <1>16

LEMMA IndInvStep == IndInv /\ [Next]_vars => IndInv'
<1> SUFFICES ASSUME IndInv, [Next]_vars PROVE Rest'
  BY Typing, CasInvStep DEF IndInv, Rest
<1>1. ASSUME NEW t \in Threads, FirstCas(t) PROVE Rest'
  <2>1. pc[t] = "cas" /\ UNCHANGED parkVars /\ {"idle", "loop"} \subseteq PCs \ {"parked"}
    BY <1>1 DEF FirstCas, PCs
  <2>2. ~IsLocked(v[t])
    BY <2>1 DEF IndInv, CasInv
  <2>3. CASE CasSucceeds(t, WithLocked(v[t])) /\ Return(t, "held")
    BY <2>1, <2>2, <2>3, Takes DEF Rest
  <2>4. CASE CasMiss(t) /\ Return(t, "idle")
    BY <2>1, <2>4, Looks DEF Rest, CasMiss, Return
  <2>5. CASE CasMiss(t) /\ Goto(t, "loop") /\ UNCHANGED handedOff
    BY <2>1, <2>5, Looks DEF Rest, CasMiss
  <2> QED BY <1>1, <2>3, <2>4, <2>5 DEF FirstCas
<1>2. ASSUME NEW t \in Threads, Grab(t) PROVE Rest'
  <2>1. pc[t] = "loop" /\ UNCHANGED parkVars /\ ~IsLocked(v[t])
    BY <1>2 DEF Grab
  <2>2. CASE CasSucceeds(t, WithLocked(v[t])) /\ Return(t, "held")
    BY <2>1, <2>2, Takes DEF Rest
  <2>3. CASE CasMiss(t) /\ UNCHANGED <<pc, mode, spin, aged, handedOff>>
    BY <2>1, <2>3, Frames DEF Rest, CasMiss, parkVars
  <2> QED BY <1>2, <2>2, <2>3 DEF Grab
<1>3. ASSUME NEW t \in Threads, Spin(t) \/ Age(t) PROVE Rest'
  BY <1>3, Frames DEF Spin, Age, parkVars, Rest
<1>4. ASSUME NEW t \in Threads, GiveUp(t) PROVE Rest'
  <2>1. "idle" \in PCs \ {"parked"}
    BY DEF PCs
  <2> QED BY <1>4, <2>1, Looks DEF GiveUp, Return, Rest
<1>5. ASSUME NEW t \in Threads, MarkParked(t) PROVE Rest'
  <2>1. pc[t] = "loop" /\ v[t] = LOCKED /\ UNCHANGED <<parkVars, pc, handedOff>>
    BY <1>5 DEF MarkParked
  <2>2. CASE CasMiss(t)
    BY <2>1, <2>2, Frames DEF Rest, CasMiss, parkVars
  <2>3. CASE CasSucceeds(t, LOCKED + HAS_PARKED)
    <3>1. \A m \in Addrs : IsLocked(bits'[m]) <=> IsLocked(bits[m])
      BY <2>1, <2>3 DEF CasSucceeds, IsLocked, LOCKED, HAS_PARKED, IndInv, TypeOK
    <3>2. UNCHANGED <<addr, pc, handedOff>>
      BY <2>1 DEF parkVars
    <3>3. MutualExclusion'
      BY <3>1, <3>2 DEF IndInv, MutualExclusion, Owns
    <3> QED BY <2>1, <3>3, Frames DEF Rest, parkVars
  <2> QED BY <1>5, <2>2, <2>3 DEF MarkParked
<1>6. ASSUME NEW t \in Threads, Reload(t) PROVE Rest'
  <2>1. "loop" \in PCs \ {"parked"}
    BY DEF PCs
  <2> QED BY <1>6, <2>1, Looks DEF Reload, Rest
<1>7. ASSUME NEW t \in Threads, CallUnlock(t) PROVE Rest'
  <2>1. "unlock" \in PCs \ {"parked"}
    BY DEF PCs
  <2> QED BY <1>7, <2>1, Looks DEF CallUnlock, Rest
<1>8. ASSUME UNCHANGED vars PROVE Rest'
  BY <1>8, Frames DEF vars, parkVars, mutexVars, Rest
<1>9. CASE Next
  <2>1. PICK t \in Threads : Step(t)
    BY <1>9 DEF Next
  <2> QED
    BY <2>1, <1>1, <1>2, <1>3, <1>4, <1>5, <1>6, <1>7, CallLockStep, ParkStep,
       EnqueueStep, WokenStep, WaitFailedStep, WaitFailsStep, UnlockFastStep,
       UnlockUnparkStep, PostStep DEF Step, LockStep, UnlockStep
<1> QED BY <1>8, <1>9

-----------------------------------------------------------------------------
LEMMA Invariance == Spec => []IndInv
<1>1. Init => IndInv
  BY IndInvInit
<1>2. IndInv /\ [Next]_vars => IndInv'
  BY IndInvStep
<1> QED BY <1>1, <1>2, PTL DEF Spec

(* Every variable keeps its type: _bits stays a two-bit value, spin_count  *)
(* stays within MAX_SPIN_COUNT, the queues hold threads.                   *)
THEOREM TypeCorrect == Spec => []TypeOK
<1>1. IndInv => TypeOK
  BY DEF IndInv
<1> QED BY <1>1, Invariance, PTL

(* At most one thread owns a PyMutex, and the LOCKED bit is set exactly    *)
(* while one does, hand-offs to sleeping threads included.                 *)
THEOREM OneOwner == Spec => []MutualExclusion
<1>1. IndInv => MutualExclusion
  BY DEF IndInv
<1> QED BY <1>1, Invariance, PTL

(* No post goes to the semaphore of a wait_entry that has left the stack.  *)
THEOREM PostsAreSafe == Spec => []PostedWaiterIsThere
<1>1. IndInv => PostedWaiterIsThere
  BY DEF IndInv
<1> QED BY <1>1, Invariance, PTL

(* A hand-off is never dropped by a timeout, a signal or anything else.    *)
THEOREM HandOffsAreTaken == Spec => HandOffIsTaken
<1> DEFINE Taken == \A t \in Threads :
                        t \in handedOff /\ t \notin handedOff' => pc'[t] = "held"
<1>1. ASSUME IndInv, [Next]_vars PROVE [Taken]_vars
  <2> SUFFICES ASSUME NEW u \in Threads, u \in handedOff, u \notin handedOff'
               PROVE  pc'[u] = "held"
    OBVIOUS
  <2>1. pc[u] = "parked" /\ u \in isUnparking /\ pc \in [Threads -> PCs]
    BY <1>1, OnlyParkedAreHanded DEF IndInv, HandInv, TypeOK, LocalsTypeOK
  <2>2. ASSUME NEW t \in Threads, NEW l, Return(t, l) PROVE t = u
    BY <2>2 DEF Return
  <2>3. ASSUME NEW t \in Threads, FirstCas(t) \/ Grab(t) \/ GiveUp(t) \/ UnlockFast(t)
        PROVE  FALSE
    BY <2>1, <2>2, <2>3 DEF FirstCas, Grab, GiveUp, UnlockFast
  <2>4. ASSUME NEW t \in Threads, Woken(t) PROVE pc'[u] = "held"
    <3>1. CASE t \in handedOff /\ Return(t, "held")
      BY <2>1, <2>2, <3>1 DEF Return, Goto
    <3> QED BY <2>4, <3>1 DEF Woken
  <2>5. ASSUME NEW t \in Threads, WaitFailed(t) PROVE FALSE
    <3>1. t \notin isUnparking
      BY <2>5 DEF WaitFailed, ParkGiveUp
    <3> QED BY <2>1, <2>2, <2>5, <3>1 DEF WaitFailed
  <2>6. ASSUME NEW t \in Threads, UnlockUnpark(t) PROVE FALSE
    <3>1. PICK w \in Threads : Unpark(t, w) /\ MutexUnpark(t, w)
      BY <2>6 DEF UnlockUnpark
    <3>2. w = u
      BY <3>1 DEF MutexUnpark
    <3>3. PICK b \in Buckets : b = MyBucket(t)
      BY <1>1, BucketOfType DEF IndInv, TypeOK, ParkTypeOK, MyBucket
    <3>4. Queued(w)
      BY <1>1, <3>1, <3>3 DEF Unpark, Queue, IndInv, WaitersInv
    <3> QED BY <2>1, <3>2, <3>4 DEF Queued
  <2>7. ASSUME handedOff' = handedOff PROVE FALSE
    BY <2>7
  <2>8. ASSUME UNCHANGED mutexVars PROVE FALSE
    BY <2>7, <2>8 DEF mutexVars
  <2>9. ASSUME Next PROVE pc'[u] = "held"
    <3>1. PICK t \in Threads : Step(t)
      BY <2>9 DEF Next
    <3>2. CASE CallLock(t) \/ Spin(t) \/ MarkParked(t) \/ Park(t) \/ Reload(t)
               \/ CallUnlock(t) \/ Post(t) \/ Age(t)
      BY <2>7, <3>2 DEF CallLock, Spin, MarkParked, Park, Reload, CallUnlock, Post, Age
    <3>3. CASE Enqueue(t) \/ Drain(t) \/ SemaInterrupted(t) \/ SemaTimedOut(t)
      BY <2>8, <3>3 DEF Enqueue, Drain, SemaInterrupted, SemaTimedOut
    <3> QED
      BY <2>3, <2>4, <2>5, <2>6, <3>1, <3>2, <3>3 DEF Step, LockStep, UnlockStep
  <2> QED BY <1>1, <2>8, <2>9 DEF vars
<1> QED BY <1>1, Invariance, PTL DEF Spec, HandOffIsTaken

-----------------------------------------------------------------------------
(***************************************************************************)
(* PyMutex implements Lock.  Owns and Wants are the two sets of Lock.  The *)
(* first lemmas say, in these terms, which changes are which step of Lock; *)
(* the step proof then finds for each step of PyMutex the step of Lock, or *)
(* that there is none.                                                     *)
(***************************************************************************)
SameFor(u, m) == (Owns(u, m)' <=> Owns(u, m)) /\ (Wants(u, m)' <=> Wants(u, m))

AbstractStep == [AbstractLock!LockNext]_AbstractLock!lockVars

LEMMA NoChange ==
    ASSUME \A u \in Threads, m \in Addrs : SameFor(u, m)
    PROVE  AbstractStep
<1>1. {p \in Threads \X Addrs : Owns(p[1], p[2])}'
      = {p \in Threads \X Addrs : Owns(p[1], p[2])}
  BY DEF SameFor
<1>2. {p \in Threads \X Addrs : Wants(p[1], p[2])}'
      = {p \in Threads \X Addrs : Wants(p[1], p[2])}
  BY DEF SameFor
<1> QED BY <1>1, <1>2 DEF AbstractStep, AbstractLock!lockVars

LEMMA IsRequest ==
    ASSUME NEW t \in Threads, NEW a \in Addrs,
           ~Owns(t, a), ~Wants(t, a), ~Owns(t, a)', Wants(t, a)',
           \A u \in Threads, m \in Addrs : u # t \/ m # a => SameFor(u, m)
    PROVE  AbstractStep
<1>1. AbstractLock!Request(t, a)
  BY DEF AbstractLock!Request, SameFor
<1> QED BY <1>1 DEF AbstractStep, AbstractLock!LockNext

LEMMA IsAbandon ==
    ASSUME NEW t \in Threads, NEW a \in Addrs,
           Wants(t, a), ~Owns(t, a), ~Owns(t, a)', ~Wants(t, a)',
           \A u \in Threads, m \in Addrs : u # t \/ m # a => SameFor(u, m)
    PROVE  AbstractStep
<1>1. AbstractLock!Abandon(t, a)
  BY DEF AbstractLock!Abandon, SameFor
<1> QED BY <1>1 DEF AbstractStep, AbstractLock!LockNext

LEMMA IsAcquire ==
    ASSUME NEW t \in Threads, NEW a \in Addrs,
           Wants(t, a), \A u \in Threads : ~Owns(u, a), Owns(t, a)', ~Wants(t, a)',
           \A u \in Threads, m \in Addrs : u # t \/ m # a => SameFor(u, m)
    PROVE  AbstractStep
<1>1. AbstractLock!Acquire(t, a)
  BY DEF AbstractLock!Acquire, AbstractLock!Free, SameFor
<1> QED BY <1>1 DEF AbstractStep, AbstractLock!LockNext

LEMMA IsRelease ==
    ASSUME NEW t \in Threads, NEW a \in Addrs,
           Owns(t, a), ~Wants(t, a), ~Owns(t, a)', ~Wants(t, a)',
           \A u \in Threads, m \in Addrs : u # t \/ m # a => SameFor(u, m)
    PROVE  AbstractStep
<1>1. AbstractLock!Release(t, a)
  BY DEF AbstractLock!Release, SameFor
<1> QED BY <1>1 DEF AbstractStep, AbstractLock!LockNext

LEMMA IsHandOff ==
    ASSUME NEW t \in Threads, NEW w \in Threads, NEW a \in Addrs, t # w,
           Owns(t, a), ~Wants(t, a), ~Owns(t, a)', ~Wants(t, a)',
           Wants(w, a), ~Owns(w, a), Owns(w, a)', ~Wants(w, a)',
           \A u \in Threads, m \in Addrs : u \notin {t, w} \/ m # a => SameFor(u, m)
    PROVE  AbstractStep
<1>1. AbstractLock!HandOff(t, w, a)
  BY DEF AbstractLock!HandOff, SameFor
<1> QED BY <1>1 DEF AbstractStep, AbstractLock!LockNext

-----------------------------------------------------------------------------
(* A step of t that hands nothing over changes nothing for the others.     *)
LEMMA OthersSame ==
    ASSUME NEW t \in Threads,
           \A u \in Threads \ {t} :
               /\ addr'[u] = addr[u] /\ pc'[u] = pc[u]
               /\ (u \in handedOff') <=> (u \in handedOff)
    PROVE  \A u \in Threads \ {t}, m \in Addrs : SameFor(u, m)
  BY DEF SameFor, Owns, Wants

(* The same for a step that keeps t's address: only that one matters.      *)
LEMMA ElsewhereSame ==
    ASSUME IndInv, NEW t \in Threads, UNCHANGED addr,
           \A u \in Threads \ {t} :
               pc'[u] = pc[u] /\ ((u \in handedOff') <=> (u \in handedOff))
    PROVE  \A u \in Threads, m \in Addrs : u # t \/ m # addr[t] => SameFor(u, m)
<1>1. \A u \in Threads \ {t}, m \in Addrs : SameFor(u, m)
  BY OthersSame
<1>2. \A m \in Addrs : m # addr[t] => SameFor(t, m)
  BY DEF SameFor, Owns, Wants
<1> QED BY <1>1, <1>2

RefTypes ==
    /\ pc \in [Threads -> PCs] /\ addr \in [Threads -> Addrs]
    /\ bits \in [Addrs -> Bits] /\ v \in [Threads -> Bits]

LEMMA RefTyping == IndInv => RefTypes
  BY DEF IndInv, TypeOK, ParkTypeOK, LocalsTypeOK, RefTypes

(* Moves of t that stay within one of: outside, wanting, owning.           *)
Place(l) ==
    IF l \in {"held", "unlock"} THEN "owning"
    ELSE IF l \in {"idle", "wakeup"} THEN "outside" ELSE "wanting"

LEMMA Stays ==
    ASSUME IndInv, NEW t \in Threads, NEW l \in PCs, Goto(t, l),
           Place(l) = Place(pc[t]), t \notin handedOff,
           UNCHANGED <<addr, handedOff>>
    PROVE  AbstractStep
<1>1. pc' = [pc EXCEPT ![t] = l] /\ RefTypes
  BY RefTyping DEF Goto
<1>2. /\ (l \in {"held", "unlock"}) <=> (pc[t] \in {"held", "unlock"})
      /\ (l \in {"cas", "loop", "parked", "reload"})
         <=> (pc[t] \in {"cas", "loop", "parked", "reload"})
  BY <1>1 DEF Place, PCs, RefTypes
<1>3. \A u \in Threads, m \in Addrs : SameFor(u, m)
  BY <1>1, <1>2 DEF SameFor, Owns, Wants, RefTypes
<1> QED BY <1>3, NoChange

LEMMA GivesUp ==
    ASSUME IndInv, NEW t \in Threads, Return(t, "idle"), UNCHANGED addr,
           pc[t] \in {"cas", "loop", "parked", "reload"}, t \notin handedOff
    PROVE  AbstractStep
<1>1. RefTypes /\ pc' = [pc EXCEPT ![t] = "idle"] /\ handedOff' = handedOff
  BY RefTyping DEF Return, Goto
<1>2. PICK a \in Addrs : a = addr[t]
  BY <1>1 DEF RefTypes
<1>3. Wants(t, a) /\ ~Owns(t, a) /\ ~Owns(t, a)' /\ ~Wants(t, a)'
  BY <1>1, <1>2 DEF Wants, Owns, RefTypes
<1>4. \A u \in Threads, m \in Addrs : u # t \/ m # a => SameFor(u, m)
  BY <1>1, <1>2, ElsewhereSame DEF RefTypes
<1> QED BY <1>3, <1>4, IsAbandon

LEMMA TakesIt ==
    ASSUME IndInv, NEW t \in Threads, pc[t] \in {"cas", "loop"},
           CasSucceeds(t, WithLocked(v[t])), ~IsLocked(v[t]),
           Return(t, "held"), UNCHANGED parkVars
    PROVE  AbstractStep
<1>1. /\ RefTypes /\ pc' = [pc EXCEPT ![t] = "held"]
      /\ t \notin handedOff /\ handedOff' = handedOff /\ UNCHANGED addr
  BY RefTyping, OnlyParkedAreHanded DEF Return, Goto, parkVars
<1>2. PICK a \in Addrs : a = addr[t]
  BY <1>1 DEF RefTypes
<1>3. \A u \in Threads : ~Owns(u, a)
  BY <1>2 DEF CasSucceeds, IndInv, MutualExclusion
<1>4. Wants(t, a) /\ Owns(t, a)' /\ ~Wants(t, a)'
  BY <1>1, <1>2 DEF Wants, Owns, RefTypes
<1>5. \A u \in Threads, m \in Addrs : u # t \/ m # a => SameFor(u, m)
  BY <1>1, <1>2, ElsewhereSame DEF RefTypes
<1> QED BY <1>3, <1>4, <1>5, IsAcquire

LEMMA LetsGo ==
    ASSUME IndInv, NEW t \in Threads, NEW l \in {"idle", "wakeup"}, Goto(t, l),
           pc[t] = "unlock", UNCHANGED addr,
           \A u \in Threads : (u \in handedOff') <=> (u \in handedOff)
    PROVE  AbstractStep
<1>1. RefTypes /\ pc' = [pc EXCEPT ![t] = l] /\ t \notin handedOff
  BY RefTyping, OnlyParkedAreHanded DEF Goto
<1>2. PICK a \in Addrs : a = addr[t]
  BY <1>1 DEF RefTypes
<1>3. Owns(t, a) /\ ~Wants(t, a) /\ ~Owns(t, a)' /\ ~Wants(t, a)'
  BY <1>1, <1>2 DEF Wants, Owns, RefTypes
<1>4. \A u \in Threads, m \in Addrs : u # t \/ m # a => SameFor(u, m)
  BY <1>1, <1>2, ElsewhereSame DEF RefTypes
<1> QED BY <1>3, <1>4, IsRelease

-----------------------------------------------------------------------------
LEMMA LocksAreSteps ==
    ASSUME IndInv, NEW t \in Threads,
           \/ CallLock(t) \/ FirstCas(t) \/ Grab(t) \/ Spin(t) \/ GiveUp(t)
           \/ MarkParked(t) \/ Reload(t) \/ Age(t)
    PROVE  AbstractStep
<1>1. RefTypes
  BY RefTyping
<1>2. ASSUME UNCHANGED <<parkVars, pc, handedOff>> PROVE AbstractStep
  <2>1. \A u \in Threads, m \in Addrs : SameFor(u, m)
    BY <1>2 DEF parkVars, SameFor, Owns, Wants
  <2> QED BY <2>1, NoChange
<1>3. ASSUME NEW l \in {"idle", "loop"}, Goto(t, l), UNCHANGED parkVars,
             UNCHANGED handedOff, pc[t] # "parked", Place(l) = Place(pc[t])
      PROVE  AbstractStep
  BY <1>3, Stays, OnlyParkedAreHanded DEF parkVars, PCs
<1>4. CASE CallLock(t)
  <2>1. /\ pc[t] = "idle" /\ t \notin handedOff /\ UNCHANGED handedOff
    BY <1>4, OnlyParkedAreHanded DEF CallLock
  <2>2. PICK a \in Addrs :
            /\ addr' = [addr EXCEPT ![t] = a]
            /\ \/ UNCHANGED pc
               \/ Goto(t, IF IsLocked(bits[a]) THEN "loop" ELSE "cas")
    BY <1>4 DEF CallLock
  <2>3. \A u \in Threads \ {t}, m \in Addrs : SameFor(u, m)
    <3>1. \A u \in Threads \ {t} : addr'[u] = addr[u] /\ pc'[u] = pc[u]
      BY <1>1, <2>2 DEF Goto, RefTypes
    <3> QED BY <2>1, <3>1, OthersSame
  <2>4. \A m \in Addrs : ~Owns(t, m) /\ ~Wants(t, m)
    BY <2>1 DEF Owns, Wants
  <2>5. CASE UNCHANGED pc
    <3>1. \A m \in Addrs : SameFor(t, m)
      BY <2>1, <2>5 DEF SameFor, Owns, Wants
    <3> QED BY <2>3, <3>1, NoChange
  <2>6. CASE Goto(t, IF IsLocked(bits[a]) THEN "loop" ELSE "cas")
    <3>1. pc'[t] \in {"loop", "cas"} /\ addr'[t] = a
      BY <1>1, <2>2, <2>6 DEF Goto, RefTypes
    <3>2. Wants(t, a)' /\ ~Owns(t, a)'
      BY <2>1, <3>1 DEF Owns, Wants
    <3>3. \A m \in Addrs : m # a => SameFor(t, m)
      BY <2>4, <3>1 DEF SameFor, Owns, Wants
    <3> QED BY <2>3, <2>4, <3>2, <3>3, IsRequest
  <2> QED BY <2>2, <2>5, <2>6
<1>5. CASE FirstCas(t)
  <2>1. pc[t] = "cas" /\ UNCHANGED parkVars
    BY <1>5 DEF FirstCas
  <2>2. ~IsLocked(v[t]) /\ t \notin handedOff
    BY <2>1, OnlyParkedAreHanded DEF IndInv, CasInv
  <2>3. Place("loop") = Place("cas")
    BY DEF Place
  <2>4. CASE CasSucceeds(t, WithLocked(v[t])) /\ Return(t, "held")
    BY <2>1, <2>2, <2>4, TakesIt
  <2>5. CASE Return(t, "idle")
    BY <2>1, <2>2, <2>5, GivesUp DEF parkVars
  <2>6. CASE Goto(t, "loop") /\ UNCHANGED handedOff
    BY <1>3, <2>1, <2>3, <2>6
  <2> QED BY <1>5, <2>4, <2>5, <2>6 DEF FirstCas
<1>6. CASE Grab(t)
  <2>1. pc[t] = "loop" /\ UNCHANGED parkVars /\ ~IsLocked(v[t])
    BY <1>6 DEF Grab
  <2>2. CASE CasSucceeds(t, WithLocked(v[t])) /\ Return(t, "held")
    BY <2>1, <2>2, TakesIt
  <2>3. CASE UNCHANGED <<pc, handedOff>>
    BY <1>2, <2>1, <2>3
  <2> QED BY <1>6, <2>2, <2>3 DEF Grab
<1>7. CASE Spin(t) \/ MarkParked(t) \/ Age(t)
  BY <1>2, <1>7 DEF Spin, MarkParked, Age
<1>8. CASE GiveUp(t)
  <2>1. pc[t] = "loop" /\ Return(t, "idle") /\ UNCHANGED addr
    BY <1>8 DEF GiveUp, parkVars
  <2> QED BY <2>1, GivesUp, OnlyParkedAreHanded
<1>9. CASE Reload(t)
  <2>1. /\ pc[t] = "reload" /\ Goto(t, "loop") /\ UNCHANGED <<parkVars, handedOff>>
        /\ Place("loop") = Place("reload")
    BY <1>9 DEF Reload, Place
  <2> QED BY <1>3, <2>1
<1> QED BY <1>4, <1>5, <1>6, <1>7, <1>8, <1>9

LEMMA ParksAreSteps ==
    ASSUME IndInv, NEW t \in Threads,
           \/ Park(t) \/ Enqueue(t) \/ Woken(t) \/ WaitFailed(t) \/ Drain(t)
           \/ SemaInterrupted(t) \/ SemaTimedOut(t)
    PROVE  AbstractStep
<1>1. RefTypes /\ UNCHANGED addr
  BY RefTyping DEF Park, ParkAgain, ParkCompare, Enqueue, ParkEnqueue, Woken, ParkOk,
         WaitFailed, ParkGiveUp, Drain, ParkDrain, SemaInterrupted, SemaTimedOut,
         WaitFails, parkVars, mutexVars
<1>2. /\ Place("loop") = "wanting" /\ Place("parked") = "wanting"
      /\ Place("reload") = "wanting" /\ {"parked", "reload"} \subseteq PCs
  BY DEF Place, PCs
<1>3. CASE Park(t)
  <2>1. pc[t] = "loop" /\ t \notin handedOff /\ UNCHANGED handedOff
    BY <1>3, OnlyParkedAreHanded DEF Park
  <2>2. PICK l \in {"parked", "reload"} : Goto(t, l)
    BY <1>3 DEF Park
  <2> QED BY <1>1, <1>2, <2>1, <2>2, Stays
<1>4. CASE Enqueue(t) \/ Drain(t) \/ SemaInterrupted(t) \/ SemaTimedOut(t)
  <2>1. UNCHANGED <<pc, handedOff>>
    BY <1>4 DEF Enqueue, Drain, SemaInterrupted, SemaTimedOut, mutexVars
  <2>2. \A u \in Threads, m \in Addrs : SameFor(u, m)
    BY <1>1, <2>1 DEF SameFor, Owns, Wants
  <2> QED BY <2>2, NoChange
(* The hand-off was a step of the thread that unlocked.                    *)
<1>5. CASE Woken(t)
  <2>1. parkState[t] \in {"asleep", "drain"}
    BY <1>5 DEF Woken, ParkOk
  <2>2. pc[t] = "parked"
    BY <2>1 DEF IndInv, ParkInv
  <2>3. CASE t \in handedOff /\ Return(t, "held")
    <3>1. pc' = [pc EXCEPT ![t] = "held"] /\ handedOff' = handedOff \ {t}
      BY <2>3 DEF Return, Goto
    <3>2. \A m \in Addrs : SameFor(t, m)
      BY <1>1, <2>2, <2>3, <3>1 DEF SameFor, Owns, Wants, RefTypes
    <3>3. \A u \in Threads \ {t}, m \in Addrs : SameFor(u, m)
      BY <1>1, <3>1, OthersSame DEF RefTypes
    <3> QED BY <3>2, <3>3, NoChange
  <2>4. CASE t \notin handedOff /\ Goto(t, "reload") /\ UNCHANGED handedOff
    BY <1>1, <1>2, <2>2, <2>4, Stays
  <2> QED BY <1>5, <2>3, <2>4 DEF Woken
<1>6. CASE WaitFailed(t)
  <2>1. parkState[t] \in {"TIMEOUT", "INTR"} /\ t \notin isUnparking
    BY <1>6 DEF WaitFailed, ParkGiveUp
  <2>2. pc[t] = "parked" /\ t \notin handedOff
    BY <2>1 DEF IndInv, ParkInv, HandInv
  <2>3. CASE Return(t, "idle")
    BY <1>1, <2>2, <2>3, GivesUp
  <2>4. CASE Goto(t, "reload") /\ UNCHANGED handedOff
    BY <1>1, <1>2, <2>2, <2>4, Stays
  <2> QED BY <1>6, <2>3, <2>4 DEF WaitFailed
<1> QED BY <1>3, <1>4, <1>5, <1>6

LEMMA UnlocksAreSteps ==
    ASSUME IndInv, NEW t \in Threads,
           CallUnlock(t) \/ UnlockFast(t) \/ UnlockUnpark(t) \/ Post(t)
    PROVE  AbstractStep
<1>1. RefTypes /\ UNCHANGED addr /\ t \notin handedOff
      /\ pc[t] \in {"held", "unlock", "wakeup"}
  BY RefTyping, OnlyParkedAreHanded DEF CallUnlock, UnlockFast, UnlockUnpark, Unpark,
         UnparkNone, Post, Wakeup, parkVars
<1>2. CASE CallUnlock(t)
  <2>1. /\ pc[t] = "held" /\ Goto(t, "unlock") /\ UNCHANGED handedOff
        /\ Place("held") = Place("unlock") /\ "unlock" \in PCs
    BY <1>2 DEF CallUnlock, Place, PCs
  <2> QED BY <1>1, <2>1, Stays
<1>3. CASE Post(t)
  <2>1. /\ pc[t] = "wakeup" /\ Goto(t, "idle") /\ UNCHANGED handedOff
        /\ Place("wakeup") = Place("idle") /\ "idle" \in PCs
    BY <1>3 DEF Post, Place, PCs
  <2> QED BY <1>1, <2>1, Stays
<1>4. CASE UnlockFast(t)
  <2>1. CASE CasMiss(t) /\ UNCHANGED <<pc, handedOff>>
    <3>1. \A u \in Threads, m \in Addrs : SameFor(u, m)
      BY <1>1, <2>1 DEF SameFor, Owns, Wants
    <3> QED BY <3>1, NoChange
  <2>2. CASE Return(t, "idle")
    <3>1. pc[t] = "unlock" /\ Goto(t, "idle") /\ handedOff' = handedOff
      BY <1>1, <1>4, <2>2 DEF UnlockFast, Return
    <3> QED BY <1>1, <3>1, LetsGo
  <2> QED BY <1>4, <2>1, <2>2 DEF UnlockFast
<1>5. CASE UnlockUnpark(t)
  <2>1. pc[t] = "unlock"
    BY <1>5 DEF UnlockUnpark
  <2>2. CASE Goto(t, "idle") /\ UNCHANGED handedOff
    BY <1>1, <2>1, <2>2, LetsGo
  <2>3. ASSUME NEW w \in Threads, Unpark(t, w), MutexUnpark(t, w), Goto(t, "wakeup")
        PROVE  AbstractStep
    <3>b. PICK b \in Buckets : b = MyBucket(t)
      BY BucketOfType DEF IndInv, TypeOK, ParkTypeOK, MyBucket
    <3>1. PICK i \in 1..Len(waiters[b]) : waiters[b][i] = w /\ addr[w] = addr[t]
      BY <2>3, <3>b DEF Unpark, Queue, IsFirst
    <3>2. Queued(w)
      BY <3>1 DEF IndInv, WaitersInv
    <3>3. pc[w] = "parked" /\ w \notin handedOff /\ w # t
      BY <2>1, <3>2 DEF Queued, IndInv, ParkInv, HandInv
    <3>4. pc' = [pc EXCEPT ![t] = "wakeup"]
      BY <2>3 DEF Goto
    <3>5. CASE w \notin aged
      <4>1. handedOff' = handedOff
        BY <2>3, <3>3, <3>5 DEF MutexUnpark
      <4> QED BY <1>1, <2>1, <2>3, <4>1, LetsGo
    <3>6. CASE w \in aged
      <4>1. handedOff' = handedOff \cup {w}
        BY <2>3, <3>6 DEF MutexUnpark
      <4>2. PICK a \in Addrs : a = addr[t] /\ a = addr[w]
        BY <1>1, <3>1 DEF RefTypes
      <4>3. /\ Owns(t, a) /\ ~Wants(t, a) /\ ~Owns(t, a)' /\ ~Wants(t, a)'
            /\ Wants(w, a) /\ ~Owns(w, a) /\ Owns(w, a)' /\ ~Wants(w, a)'
        BY <1>1, <2>1, <3>3, <3>4, <4>1, <4>2 DEF Owns, Wants, RefTypes
      <4>4. \A u \in Threads, m \in Addrs : u \notin {t, w} \/ m # a => SameFor(u, m)
        BY <1>1, <3>4, <4>1, <4>2 DEF SameFor, Owns, Wants, RefTypes
      <4> QED BY <3>3, <4>3, <4>4, IsHandOff
    <3> QED BY <3>5, <3>6
  <2> QED BY <1>5, <2>2, <2>3 DEF UnlockUnpark
<1> QED BY <1>2, <1>3, <1>4, <1>5

-----------------------------------------------------------------------------
LEMMA InitIsInit == Init => AbstractLock!LockInit
  BY DEF Init, ParkInit, AbstractLock!LockInit, Owns, Wants

LEMMA StepIsStep == IndInv /\ [Next]_vars => AbstractStep
<1> SUFFICES ASSUME IndInv, [Next]_vars PROVE AbstractStep
  OBVIOUS
<1>1. CASE Next
  <2>1. PICK t \in Threads : Step(t)
    BY <1>1 DEF Next
  <2> QED BY <2>1, LocksAreSteps, ParksAreSteps, UnlocksAreSteps
             DEF Step, LockStep, UnlockStep
<1>2. CASE UNCHANGED vars
  <2>1. \A u \in Threads, m \in Addrs : SameFor(u, m)
    BY <1>2 DEF vars, parkVars, mutexVars, SameFor, Owns, Wants
  <2> QED BY <2>1, NoChange
<1> QED BY <1>1, <1>2

(* PyMutex implements Lock: it is taken only when free or straight from    *)
(* the owner, only by a thread in a call to lock it, and released only by  *)
(* its owner.                                                              *)
THEOREM LockIsImplemented == Spec => ImplementsLock
<1>1. Init => AbstractLock!LockInit
  BY InitIsInit
<1>2. IndInv /\ [Next]_vars => [AbstractLock!LockNext]_AbstractLock!lockVars
  BY StepIsStep DEF AbstractStep
<1> QED BY <1>1, <1>2, Invariance, PTL DEF Spec, ImplementsLock, AbstractLock!LockSpec

-----------------------------------------------------------------------------
(***************************************************************************)
(* No waiter is forgotten.  The invariant is WakeupInv: IndInv with        *)
(* EnqueuerInv, InQueueInv and NoLostWakeup.  Each of the three has a      *)
(* lemma that says which changes keep it and a lemma that goes through the *)
(* steps.                                                                  *)
(***************************************************************************)
LEMMA WakeupTypes ==
    ASSUME IndInv
    PROVE  /\ bits \in [Addrs -> Bits] /\ pc \in [Threads -> PCs]
           /\ v \in [Threads -> Bits] /\ addr \in [Threads -> Addrs]
           /\ parkState \in [Threads -> ParkStates]
           /\ bucketOwner \in [Buckets -> Threads \cup {NoThread}]
           /\ waiters \in [Buckets -> Seq(Threads)]
           /\ \A t \in Threads : MyBucket(t) \in Buckets
  BY BucketOfType DEF IndInv, TypeOK, ParkTypeOK, LocalsTypeOK, MyBucket

(* A successful compare-exchange, with the bits it finds and leaves.       *)
LEMMA CasOf ==
    ASSUME IndInv, NEW t \in Threads, NEW x \in Bits, CasSucceeds(t, x)
    PROVE  /\ bits[addr[t]] = v[t]
           /\ bits'[addr[t]] = x
           /\ \A m \in Addrs : m # addr[t] => bits'[m] = bits[m]
  BY WakeupTypes DEF CasSucceeds

LEMMA LockedBits ==
    ASSUME NEW x \in Bits
    PROVE  /\ WithLocked(x) \in Bits /\ IsLocked(WithLocked(x))
           /\ HasParked(WithLocked(x)) <=> HasParked(x)
           /\ x = LOCKED + HAS_PARKED => IsLocked(x) /\ HasParked(x)
           /\ x = LOCKED => IsLocked(x) /\ ~HasParked(x)
           /\ x = UNLOCKED => ~IsLocked(x) /\ ~HasParked(x)
           /\ {UNLOCKED, LOCKED, LOCKED + HAS_PARKED} \subseteq Bits
  BY DEF Bits, WithLocked, IsLocked, HasParked, LOCKED, HAS_PARKED, UNLOCKED

-----------------------------------------------------------------------------
(* Only Enqueue puts a thread among those that wait to be woken.           *)
LEMMA NobodyElseQueues ==
    ASSUME IndInv, NEW t \in Threads, Step(t), ~Enqueue(t)
    PROVE  \A u \in Threads : Queued(u)' => Queued(u) /\ addr'[u] = addr[u]
<1> USE WakeupTypes
<1>1. CASE CallLock(t)
  <2>1. t \notin isUnparking /\ parkState[t] = "out"
    BY <1>1, OnlyParkedAreHanded DEF CallLock
  <2>2. PICK m \in Addrs : addr' = [addr EXCEPT ![t] = m]
    BY <1>1 DEF CallLock
  <2> QED BY <1>1, <2>1, <2>2 DEF CallLock, Queued
<1>2. CASE \/ FirstCas(t) \/ Grab(t) \/ Spin(t) \/ GiveUp(t) \/ MarkParked(t)
           \/ Reload(t) \/ Age(t) \/ CallUnlock(t) \/ UnlockFast(t)
  BY <1>2 DEF FirstCas, Grab, Spin, GiveUp, MarkParked, Reload, Age, CallUnlock,
              UnlockFast, parkVars, Queued
<1>3. CASE Park(t)
  BY <1>3 DEF Park, ParkCompare, ParkAgain, parkVars, Queued
<1>4. CASE Woken(t)
  BY <1>4 DEF Woken, ParkOk, Queued
<1>5. CASE WaitFailed(t)
  BY <1>5 DEF WaitFailed, ParkGiveUp, Queued
<1>6. CASE Drain(t)
  BY <1>6 DEF Drain, ParkDrain, Queued
<1>7. CASE SemaInterrupted(t) \/ SemaTimedOut(t)
  BY <1>7 DEF SemaInterrupted, SemaTimedOut, WaitFails, Queued
<1>8. CASE UnlockUnpark(t)
  BY <1>8 DEF UnlockUnpark, Unpark, UnparkNone, parkVars, Queued
<1>9. CASE Post(t)
  BY <1>9 DEF Post, Wakeup, Queued
<1> QED
  BY <1>1, <1>2, <1>3, <1>4, <1>5, <1>6, <1>7, <1>8, <1>9
     DEF Step, LockStep, UnlockStep

-----------------------------------------------------------------------------
(* EnqueuerInv.                                                            *)
LEMMA EnqueuerKept ==
    ASSUME IndInv, EnqueuerInv,
           \A u \in Threads : parkState'[u] = "enqueue" =>
               /\ parkState[u] = "enqueue"
               /\ addr'[u] = addr[u]
               /\ bucketOwner'[MyBucket(u)] = bucketOwner[MyBucket(u)]
               /\ bits'[addr[u]] = bits[addr[u]]
    PROVE  EnqueuerInv'
<1> SUFFICES ASSUME NEW u \in Threads, parkState'[u] = "enqueue"
             PROVE  /\ bucketOwner'[BucketOf[addr'[u]]] = u
                    /\ bits'[addr'[u]] = LOCKED + HAS_PARKED
  BY DEF EnqueuerInv, MyBucket
<1>1. bucketOwner[MyBucket(u)] = u /\ bits[addr[u]] = LOCKED + HAS_PARKED
  BY DEF EnqueuerInv
<1> QED BY <1>1 DEF MyBucket

LEMMA EnqueuerStep ==
    ASSUME IndInv, EnqueuerInv, NEW t \in Threads, Step(t)
    PROVE  EnqueuerInv'
<1> USE WakeupTypes
<1>1. CASE CallLock(t)
  <2>1. PICK m \in Addrs : addr' = [addr EXCEPT ![t] = m]
    BY <1>1 DEF CallLock
  <2>2. parkState[t] = "out" /\ UNCHANGED <<parkState, bucketOwner, bits>>
    BY <1>1, OnlyParkedAreHanded DEF CallLock
  <2> QED BY <2>1, <2>2, EnqueuerKept
(* A compare-exchange never hits while a thread is about to enqueue.       *)
<1>2. ASSUME NEW x \in Bits, CasSucceeds(t, x), v[t] # LOCKED + HAS_PARKED,
             UNCHANGED parkVars
      PROVE  EnqueuerInv'
  <2>1. \A u \in Threads : parkState[u] = "enqueue" => addr[u] # addr[t]
    BY <1>2, CasOf DEF EnqueuerInv
  <2> QED BY <1>2, <2>1, CasOf, EnqueuerKept DEF parkVars
<1>3. ASSUME UNCHANGED <<parkVars, bits>> PROVE EnqueuerInv'
  BY <1>3, EnqueuerKept DEF parkVars
<1>4. CASE FirstCas(t) \/ Grab(t)
  <2>1. ~IsLocked(v[t]) /\ v[t] \in Bits /\ UNCHANGED parkVars
    BY <1>4 DEF FirstCas, Grab, IndInv, CasInv
  <2>2. v[t] # LOCKED + HAS_PARKED /\ WithLocked(v[t]) \in Bits
    BY <2>1, LockedBits
  <2> QED BY <1>2, <1>3, <1>4, <2>1, <2>2 DEF FirstCas, Grab, CasMiss
<1>5. CASE MarkParked(t) \/ UnlockFast(t)
  <2>1. v[t] = LOCKED /\ UNCHANGED parkVars
    BY <1>5 DEF MarkParked, UnlockFast
  <2>2. /\ UNLOCKED \in Bits /\ LOCKED + HAS_PARKED \in Bits
        /\ v[t] # LOCKED + HAS_PARKED
    BY <2>1 DEF Bits, UNLOCKED, LOCKED, HAS_PARKED
  <2> QED BY <1>2, <1>3, <1>5, <2>1, <2>2 DEF MarkParked, UnlockFast, CasMiss
<1>6. CASE \/ Spin(t) \/ GiveUp(t) \/ Reload(t) \/ Age(t) \/ CallUnlock(t)
  BY <1>3, <1>6 DEF Spin, GiveUp, Reload, Age, CallUnlock
<1>7. CASE Park(t)
  <2>1. CASE ParkAgain(t, bits[addr[t]], v[t])
    BY <1>3, <1>7, <2>1 DEF Park, ParkAgain
  <2>2. CASE ParkCompare(t, bits[addr[t]], v[t])
    <3>1. /\ bucketOwner[MyBucket(t)] = NoThread
          /\ bits[addr[t]] = LOCKED + HAS_PARKED
          /\ bucketOwner' = [bucketOwner EXCEPT ![MyBucket(t)] = t]
          /\ parkState' = [parkState EXCEPT ![t] = "enqueue"]
          /\ UNCHANGED <<addr, bits>>
      BY <1>7, <2>2 DEF Park, ParkCompare, BucketFree
    <3>2. \A u \in Threads : parkState[u] = "enqueue" => MyBucket(u) # MyBucket(t)
      BY <3>1, NoThreadType DEF EnqueuerInv
    <3>3. \A u \in Threads : MyBucket(u)' = MyBucket(u)
      BY <3>1 DEF MyBucket
    <3> QED BY <3>1, <3>2, <3>3 DEF EnqueuerInv
  <2> QED BY <1>7, <2>1, <2>2 DEF Park
<1>8. CASE Enqueue(t)
  <2>1. /\ parkState[t] = "enqueue"
        /\ bucketOwner' = [bucketOwner EXCEPT ![MyBucket(t)] = NoThread]
        /\ parkState' = [parkState EXCEPT ![t] = "asleep"]
        /\ UNCHANGED <<addr, bits>>
    BY <1>8 DEF Enqueue, ParkEnqueue, mutexVars
  <2>2. \A u \in Threads : u # t /\ parkState[u] = "enqueue" => MyBucket(u) # MyBucket(t)
    BY <2>1 DEF EnqueuerInv
  <2> QED BY <2>1, <2>2, EnqueuerKept
<1>9. CASE Woken(t) \/ WaitFailed(t) \/ Drain(t) \/ SemaInterrupted(t) \/ SemaTimedOut(t)
  <2>1. PICK s \in {"out", "drain", "INTR", "TIMEOUT"} :
            parkState' = [parkState EXCEPT ![t] = s]
    BY <1>9 DEF Woken, ParkOk, WaitFailed, ParkGiveUp, Drain, ParkDrain,
                SemaInterrupted, SemaTimedOut, WaitFails
  <2>2. UNCHANGED <<addr, bits, bucketOwner>>
    BY <1>9 DEF Woken, ParkOk, WaitFailed, ParkGiveUp, Drain, ParkDrain,
                SemaInterrupted, SemaTimedOut, WaitFails, mutexVars
  <2> QED BY <2>1, <2>2, EnqueuerKept
(* mutex_unpark runs under the bucket mutex, which the enqueuer has.       *)
<1>10. CASE UnlockUnpark(t)
  <2>1. /\ bucketOwner[MyBucket(t)] = NoThread
        /\ UNCHANGED <<parkState, addr, bucketOwner>>
    BY <1>10 DEF UnlockUnpark, Unpark, UnparkNone, BucketFree, parkVars
  <2>2. \A m \in Addrs : m # addr[t] => bits'[m] = bits[m]
    BY <1>10 DEF UnlockUnpark, MutexUnpark
  <2>3. \A u \in Threads : parkState[u] = "enqueue" => MyBucket(u) # MyBucket(t)
    BY <2>1, NoThreadType DEF EnqueuerInv
  <2>4. \A u \in Threads : parkState[u] = "enqueue" => addr[u] # addr[t]
    BY <2>3 DEF MyBucket
  <2> QED BY <2>1, <2>2, <2>4, EnqueuerKept
<1>11. CASE Post(t)
  BY <1>11, EnqueuerKept DEF Post, Wakeup
<1> QED
  BY <1>1, <1>4, <1>5, <1>6, <1>7, <1>8, <1>9, <1>10, <1>11
     DEF Step, LockStep, UnlockStep

-----------------------------------------------------------------------------
(* InQueueInv.                                                             *)

(* Taking position k out of a queue loses the thread at k only.            *)
LEMMA OthersStay ==
    ASSUME IndInv, NEW b \in Buckets, NEW k \in 1..Len(waiters[b]),
           waiters' = [waiters EXCEPT ![b] = RemoveAt(@, k)]
    PROVE  \A c \in Buckets : \A i \in 1..Len(waiters[c]) :
               waiters[c][i] # waiters[b][k] =>
                   \E j \in 1..Len(waiters'[c]) : waiters'[c][j] = waiters[c][i]
<1> USE WakeupTypes
<1> SUFFICES ASSUME NEW c \in Buckets, NEW i \in 1..Len(waiters[c]),
                    waiters[c][i] # waiters[b][k]
             PROVE  \E j \in 1..Len(waiters'[c]) : waiters'[c][j] = waiters[c][i]
  OBVIOUS
<1>1. CASE c # b
  BY <1>1
<1>2. CASE c = b
  <2> DEFINE q == waiters[b]
             r == RemoveAt(q, k)
  <2>1. q \in Seq(Threads) /\ waiters'[b] = r
    OBVIOUS
  <2>2. /\ Len(r) = Len(q) - 1
        /\ \A j \in 1..(Len(q) - 1) : r[j] = q[IF j < k THEN j ELSE j + 1]
    BY <2>1, RemoveAtProperties
  <2>3. Len(q) \in Nat /\ i \in 1..Len(q) /\ k \in 1..Len(q) /\ i # k
    BY <1>2, <2>1, LenProperties
  <2> HIDE DEF q, r
  <2>4. \E j \in 1..Len(r) : r[j] = q[i]
    <3>1. CASE i < k
      <4>1. i \in 1..Len(r)
        BY <2>2, <2>3, <3>1
      <4> QED BY <2>2, <3>1, <4>1
    <3>2. CASE i > k
      <4>1. i - 1 \in 1..Len(r) /\ ~(i - 1 < k) /\ (i - 1) + 1 = i
        BY <2>2, <2>3, <3>2
      <4> QED BY <2>2, <4>1
    <3> QED BY <2>3, <3>1, <3>2
  <2> QED BY <1>2, <2>1, <2>4 DEF q
<1> QED BY <1>1, <1>2

LEMMA InQueueKept ==
    ASSUME IndInv, InQueueInv, UNCHANGED waiters,
           \A u \in Threads : Queued(u)' => Queued(u) /\ addr'[u] = addr[u]
    PROVE  InQueueInv'
  BY DEF InQueueInv, Queue, MyBucket

LEMMA InQueueRemoved ==
    ASSUME IndInv, InQueueInv, NEW b \in Buckets, NEW k \in 1..Len(waiters[b]),
           waiters' = [waiters EXCEPT ![b] = RemoveAt(@, k)],
           \A u \in Threads : Queued(u)' => /\ Queued(u) /\ addr'[u] = addr[u]
                                           /\ u # waiters[b][k]
    PROVE  InQueueInv'
<1> SUFFICES ASSUME NEW u \in Threads, Queued(u)'
             PROVE  \E i \in 1..Len(waiters'[BucketOf[addr'[u]]]) :
                        waiters'[BucketOf[addr'[u]]][i] = u
  BY DEF InQueueInv, Queue, MyBucket
<1>1. PICK c \in Buckets : c = BucketOf[addr[u]] /\ c = BucketOf[addr'[u]]
  BY WakeupTypes DEF MyBucket
<1>2. PICK i \in 1..Len(waiters[c]) : waiters[c][i] = u
  BY <1>1 DEF InQueueInv, Queue, MyBucket
<1>3. \E j \in 1..Len(waiters'[c]) : waiters'[c][j] = waiters[c][i]
  <2>1. waiters[c][i] # waiters[b][k]
    BY <1>2
  <2> QED BY <2>1, OthersStay, ZenonT(60)
<1> QED BY <1>1, <1>2, <1>3

LEMMA InQueueStep ==
    ASSUME IndInv, InQueueInv, NEW t \in Threads, Step(t)
    PROVE  InQueueInv'
<1> USE WakeupTypes
<1>b. PICK b \in Buckets : b = MyBucket(t)
  OBVIOUS
<1>1. CASE Enqueue(t)
  <2>1. /\ waiters' = [waiters EXCEPT ![b] = Append(waiters[b], t)]
        /\ \A u \in Threads : u # t /\ Queued(u)' => Queued(u)
        /\ UNCHANGED addr
    BY <1>b, <1>1 DEF Enqueue, ParkEnqueue, mutexVars, Queued
  <2>2. /\ Len(waiters'[b]) = Len(waiters[b]) + 1 /\ Len(waiters[b]) \in Nat
        /\ \A i \in 1..Len(waiters[b]) : waiters'[b][i] = waiters[b][i]
        /\ waiters'[b][Len(waiters[b]) + 1] = t
    BY <2>1, AppendProperties, LenProperties
  <2>3. \A c \in Buckets \ {b} : waiters'[c] = waiters[c]
    BY <2>1
  <2> SUFFICES ASSUME NEW u \in Threads, Queued(u)'
               PROVE  \E i \in 1..Len(waiters'[BucketOf[addr[u]]]) :
                          waiters'[BucketOf[addr[u]]][i] = u
    BY <2>1 DEF InQueueInv, Queue, MyBucket
  <2>4. CASE u = t
    BY <1>b, <2>2, <2>4 DEF MyBucket
  <2>5. CASE u # t
    <3>1. PICK c \in Buckets : c = BucketOf[addr[u]]
      BY DEF MyBucket
    <3>2. PICK i \in 1..Len(waiters[c]) : waiters[c][i] = u
      BY <2>1, <2>5, <3>1 DEF InQueueInv, Queue, MyBucket
    <3>3. CASE c = b
      <4>1. i \in 1..Len(waiters'[b]) /\ waiters'[b][i] = u
        BY <2>2, <3>2, <3>3
      <4> QED BY <3>1, <3>3, <4>1
    <3>4. CASE c # b
      BY <2>3, <3>1, <3>2, <3>4
    <3> QED BY <3>3, <3>4
  <2> QED BY <2>4, <2>5
<1>2. CASE WaitFailed(t)
  <2>1. PICK k \in 1..Len(waiters[b]) :
            waiters[b][k] = t /\ waiters' = [waiters EXCEPT ![b] = RemoveAt(@, k)]
    BY <1>b, <1>2 DEF WaitFailed, ParkGiveUp, Queue
  <2>2. ~Queued(t)'
    BY <1>2 DEF WaitFailed, ParkGiveUp, Queued
  <2>3. ~Enqueue(t)
    BY <1>2 DEF WaitFailed, ParkGiveUp, Enqueue, ParkEnqueue
  <2>4. \A u \in Threads : Queued(u)' => u # t
    BY <2>2
  <2> QED BY <2>1, <2>3, <2>4, NobodyElseQueues, InQueueRemoved
<1>3. CASE UnlockUnpark(t)
  <2>1. ~Enqueue(t)
    BY <1>3, OnlyParkedAreHanded DEF UnlockUnpark, Enqueue, ParkEnqueue
  <2>2. CASE UnparkNone(t)
    BY <2>1, <2>2, NobodyElseQueues, InQueueKept DEF UnparkNone, parkVars
  <2>3. ASSUME NEW w \in Threads, Unpark(t, w) PROVE InQueueInv'
    <3>1. PICK k \in 1..Len(waiters[b]) :
              waiters[b][k] = w /\ waiters' = [waiters EXCEPT ![b] = RemoveAt(@, k)]
      BY <1>b, <2>3 DEF Unpark, Queue
    <3>2. ~Queued(w)'
      BY <2>3 DEF Unpark, Queued
    <3>3. \A u \in Threads : Queued(u)' => u # w
      BY <3>2
    <3> QED BY <2>1, <3>1, <3>3, NobodyElseQueues, InQueueRemoved
  <2> QED BY <1>3, <2>2, <2>3 DEF UnlockUnpark
<1>4. ASSUME ~Enqueue(t), ~WaitFailed(t), ~UnlockUnpark(t) PROVE UNCHANGED waiters
  BY <1>4 DEF Step, LockStep, UnlockStep, CallLock, FirstCas, Grab, Spin, GiveUp,
              MarkParked, Park, ParkCompare, ParkAgain, Woken, ParkOk, Drain, ParkDrain,
              Reload, CallUnlock, UnlockFast, Post, Wakeup, SemaInterrupted,
              SemaTimedOut, WaitFails, Age, parkVars
<1> QED BY <1>1, <1>2, <1>3, <1>4, NobodyElseQueues, InQueueKept

-----------------------------------------------------------------------------
(* NoLostWakeup.                                                           *)
WakeupFor(t) ==
    /\ HasParked(bits[addr[t]])
    /\ IsLocked(bits[addr[t]]) \/ \E u \in Threads : OnItsWay(u, addr[t])

(* A step of t that leaves the bits alone, after which t is still on its   *)
(* way if it was, or somebody has the mutex.                               *)
LEMMA WakeupKept ==
    ASSUME IndInv, NoLostWakeup, NEW t \in Threads,
           \A u \in Threads : Queued(u)' => Queued(u) /\ addr'[u] = addr[u],
           UNCHANGED bits,
           \A u \in Threads \ {t} :
               /\ addr'[u] = addr[u] /\ pc'[u] = pc[u] /\ v'[u] = v[u]
               /\ u \in isUnparking => u \in isUnparking',
           \A m \in Addrs : OnItsWay(t, m) => OnItsWay(t, m)' \/ IsLocked(bits[m])
    PROVE  NoLostWakeup'
<1> SUFFICES ASSUME NEW w \in Threads, Queued(w)' PROVE WakeupFor(w)'
  BY DEF NoLostWakeup, WakeupFor
<1>1. PICK m \in Addrs : m = addr[w] /\ m = addr'[w]
  BY WakeupTypes
<1>2. /\ HasParked(bits[m])
      /\ IsLocked(bits[m]) \/ \E u \in Threads : OnItsWay(u, m)
  BY <1>1 DEF NoLostWakeup
<1>3. \A u \in Threads \ {t} : OnItsWay(u, m) => OnItsWay(u, m)'
  BY DEF OnItsWay
<1>4. /\ HasParked(bits'[m])
      /\ IsLocked(bits'[m]) \/ \E u \in Threads : OnItsWay(u, m)'
  BY <1>2, <1>3
<1> QED BY <1>1, <1>4 DEF WakeupFor

(* A compare-exchange by t, outside the parking lot, that leaves the mutex *)
(* locked and keeps HAS_PARKED.                                            *)
LEMMA WakeupAfterCas ==
    ASSUME IndInv, NoLostWakeup, NEW t \in Threads, NEW x \in Bits,
           CasSucceeds(t, x), IsLocked(x), HasParked(v[t]) => HasParked(x),
           UNCHANGED parkVars,
           \A u \in Threads \ {t} : pc'[u] = pc[u] /\ v'[u] = v[u]
    PROVE  NoLostWakeup'
<1> USE WakeupTypes
<1> SUFFICES ASSUME NEW w \in Threads, Queued(w)' PROVE WakeupFor(w)'
  BY DEF NoLostWakeup, WakeupFor
<1>1. Queued(w) /\ UNCHANGED <<addr, isUnparking>>
  BY DEF Queued, parkVars
<1>2. PICK m \in Addrs : m = addr[w] /\ m = addr'[w]
  BY <1>1
<1>3. /\ HasParked(bits[m])
      /\ IsLocked(bits[m]) \/ \E u \in Threads : OnItsWay(u, m)
  BY <1>1, <1>2 DEF NoLostWakeup
<1>4. /\ HasParked(bits'[m])
      /\ IsLocked(bits'[m]) \/ \E u \in Threads : OnItsWay(u, m)'
  <2>1. CASE m = addr[t]
    BY <1>3, <2>1, CasOf
  <2>2. CASE m # addr[t]
    <3>1. bits'[m] = bits[m]
      BY <2>2, CasOf
    <3>2. \A u \in Threads : OnItsWay(u, m) => OnItsWay(u, m)'
      BY <1>1, <2>2 DEF OnItsWay
    <3> QED BY <1>3, <3>1, <3>2
  <2> QED BY <2>1, <2>2
<1> QED BY <1>2, <1>4 DEF WakeupFor

(* The steps of the lock call outside the parking lot.                     *)
LEMMA WakeupLockStep ==
    ASSUME IndInv, NoLostWakeup, NEW t \in Threads, Step(t),
           \/ CallLock(t) \/ FirstCas(t) \/ Grab(t) \/ Spin(t) \/ GiveUp(t)
           \/ MarkParked(t) \/ Reload(t) \/ Age(t)
    PROVE  NoLostWakeup'
<1> USE WakeupTypes
<1>1. ~Enqueue(t)
  BY OnlyParkedAreHanded DEF CallLock, FirstCas, Grab, Spin, GiveUp, MarkParked, Reload,
      Age, Enqueue, ParkEnqueue, mutexVars
<1>2. \A u \in Threads : Queued(u)' => Queued(u) /\ addr'[u] = addr[u]
  BY <1>1, NobodyElseQueues
(* t takes the mutex or marks it, or misses and looks again.               *)
<1>3. ASSUME NEW x \in Bits, CasSucceeds(t, x), IsLocked(x),
             HasParked(v[t]) => HasParked(x), UNCHANGED parkVars,
             NEW l, Return(t, l)
      PROVE  NoLostWakeup'
  <2>1. \A u \in Threads \ {t} : pc'[u] = pc[u] /\ v'[u] = v[u]
    BY <1>3 DEF Return, Goto
  <2> QED BY <1>3, <2>1, WakeupAfterCas
<1>4. ASSUME UNCHANGED <<parkVars, bits>>, ~\E m \in Addrs : OnItsWay(t, m),
             \A u \in Threads \ {t} : pc'[u] = pc[u] /\ v'[u] = v[u]
      PROVE  NoLostWakeup'
  BY <1>2, <1>4, WakeupKept DEF parkVars
<1>5. ASSUME UNCHANGED <<parkVars, bits>>, Load(t), pc'[t] = "loop",
             \A u \in Threads \ {t} : pc'[u] = pc[u]
      PROVE  NoLostWakeup'
  <2>1. v'[t] = bits[addr[t]] /\ \A u \in Threads \ {t} : v'[u] = v[u]
    BY <1>5 DEF Load
  <2>2. \A m \in Addrs : OnItsWay(t, m) => OnItsWay(t, m)' \/ IsLocked(bits[m])
    BY <1>5, <2>1 DEF OnItsWay, parkVars
  <2> QED BY <1>2, <1>5, <2>1, <2>2, WakeupKept DEF parkVars
<1>6. CASE CallLock(t)
  <2>1. pc[t] = "idle" /\ t \notin isUnparking /\ UNCHANGED <<isUnparking, bits>>
    BY <1>6, OnlyParkedAreHanded DEF CallLock
  <2>2. \A u \in Threads \ {t} : addr'[u] = addr[u] /\ pc'[u] = pc[u] /\ v'[u] = v[u]
    BY <1>6 DEF CallLock, Goto
  <2>3. ~\E m \in Addrs : OnItsWay(t, m)
    BY <2>1 DEF OnItsWay
  <2> QED BY <1>2, <2>1, <2>2, <2>3, WakeupKept
<1>7. CASE FirstCas(t)
  <2>1. pc[t] = "cas" /\ UNCHANGED parkVars /\ WithLocked(v[t]) \in Bits
        /\ IsLocked(WithLocked(v[t])) /\ (HasParked(v[t]) => HasParked(WithLocked(v[t])))
    BY <1>7, LockedBits DEF FirstCas
  <2>2. CASE CasSucceeds(t, WithLocked(v[t])) /\ Return(t, "held")
    BY <1>3, <2>1, <2>2
  <2>3. CASE CasMiss(t) /\ Return(t, "idle")
    <3>1. ~\E m \in Addrs : OnItsWay(t, m)
      BY <2>1, OnlyParkedAreHanded DEF OnItsWay
    <3>2. \A u \in Threads \ {t} : pc'[u] = pc[u] /\ v'[u] = v[u]
      BY <2>3 DEF Return, Goto
    <3> QED BY <1>4, <2>1, <2>3, <3>1, <3>2 DEF CasMiss
  <2>4. CASE CasMiss(t) /\ Load(t) /\ Goto(t, "loop")
    BY <1>5, <2>1, <2>4 DEF CasMiss, Goto
  <2> QED BY <1>7, <2>2, <2>3, <2>4 DEF FirstCas
<1>8. CASE Grab(t)
  <2>1. pc[t] = "loop" /\ UNCHANGED parkVars /\ WithLocked(v[t]) \in Bits
        /\ IsLocked(WithLocked(v[t])) /\ (HasParked(v[t]) => HasParked(WithLocked(v[t])))
    BY <1>8, LockedBits DEF Grab
  <2>2. CASE CasSucceeds(t, WithLocked(v[t])) /\ Return(t, "held")
    BY <1>3, <2>1, <2>2
  <2>3. CASE CasMiss(t) /\ Load(t) /\ UNCHANGED pc
    BY <1>5, <2>1, <2>3 DEF CasMiss
  <2> QED BY <1>8, <2>2, <2>3 DEF Grab
<1>9. CASE Spin(t) \/ Age(t)
  <2>1. UNCHANGED <<parkVars, bits, pc, v>>
    BY <1>9 DEF Spin, Age
  <2>2. \A m \in Addrs : OnItsWay(t, m) => OnItsWay(t, m)'
    BY <2>1 DEF OnItsWay, parkVars
  <2> QED BY <1>2, <2>1, <2>2, WakeupKept DEF parkVars
<1>10. CASE GiveUp(t)
  <2>1. ~\E m \in Addrs : OnItsWay(t, m)
    BY <1>10, OnlyParkedAreHanded DEF GiveUp, OnItsWay
  <2>2. \A u \in Threads \ {t} : pc'[u] = pc[u] /\ v'[u] = v[u]
    BY <1>10 DEF GiveUp, Return, Goto
  <2> QED BY <1>4, <1>10, <2>1, <2>2 DEF GiveUp
<1>11. CASE MarkParked(t)
  <2>1. pc[t] = "loop" /\ v[t] = LOCKED /\ UNCHANGED <<parkVars, pc>>
    BY <1>11 DEF MarkParked
  <2>2. CASE CasSucceeds(t, LOCKED + HAS_PARKED) /\ v' = [v EXCEPT ![t] = LOCKED + HAS_PARKED]
    <3>1. /\ LOCKED + HAS_PARKED \in Bits
          /\ IsLocked(LOCKED + HAS_PARKED) /\ HasParked(LOCKED + HAS_PARKED)
      BY DEF Bits, IsLocked, HasParked, LOCKED, HAS_PARKED
    <3>2. \A u \in Threads \ {t} : pc'[u] = pc[u] /\ v'[u] = v[u]
      BY <2>1, <2>2
    <3> QED BY <2>1, <2>2, <3>1, <3>2, WakeupAfterCas
  <2>3. CASE CasMiss(t) /\ Load(t)
    BY <1>5, <2>1, <2>3 DEF CasMiss
  <2> QED BY <1>11, <2>2, <2>3 DEF MarkParked
<1>12. CASE Reload(t)
  BY <1>5, <1>12 DEF Reload, Goto
<1> QED BY <1>6, <1>7, <1>8, <1>9, <1>10, <1>11, <1>12

(* The steps inside _PyParkingLot_Park.                                    *)
LEMMA WakeupParkStep ==
    ASSUME IndInv, EnqueuerInv, NoLostWakeup, NEW t \in Threads, Step(t),
           \/ Park(t) \/ Enqueue(t) \/ Woken(t) \/ WaitFailed(t) \/ Drain(t)
           \/ SemaInterrupted(t) \/ SemaTimedOut(t)
    PROVE  NoLostWakeup'
<1> USE WakeupTypes
<1>1. UNCHANGED <<addr, bits>>
  BY DEF Park, ParkAgain, ParkCompare, Enqueue, ParkEnqueue, Woken, ParkOk, WaitFailed,
         ParkGiveUp, Drain, ParkDrain, SemaInterrupted, SemaTimedOut, WaitFails,
         parkVars, mutexVars
<1>2. CASE Park(t)
  <2>1. /\ pc[t] = "loop" /\ v[t] = LOCKED + HAS_PARKED /\ v' = v
        /\ UNCHANGED isUnparking
        /\ \A u \in Threads \ {t} : pc'[u] = pc[u]
    BY <1>2 DEF Park, ParkAgain, ParkCompare, parkVars, Goto
  <2>2. IsLocked(v[t]) /\ t \notin isUnparking
    BY <2>1, LockedBits, OnlyParkedAreHanded
  <2>3. \A m \in Addrs : ~OnItsWay(t, m)
    BY <2>1, <2>2 DEF OnItsWay
  <2>4. ~Enqueue(t)
    BY <2>1, OnlyParkedAreHanded DEF Enqueue, ParkEnqueue
  <2> QED BY <1>1, <2>1, <2>3, <2>4, NobodyElseQueues, WakeupKept
(* The enqueuer has seen the mutex locked and marked, and still is right.  *)
<1>3. CASE Enqueue(t)
  <2>1. /\ parkState[t] = "enqueue" /\ isUnparking' = isUnparking \ {t}
        /\ parkState' = [parkState EXCEPT ![t] = "asleep"]
        /\ UNCHANGED <<pc, v>>
    BY <1>3 DEF Enqueue, ParkEnqueue, mutexVars
  <2>2. isUnparking' = isUnparking
    BY <2>1 DEF IndInv, ParkInv, InPark
  <2>3. \A u, m : OnItsWay(u, m)' <=> OnItsWay(u, m)
    BY <1>1, <2>1, <2>2 DEF OnItsWay
  <2> SUFFICES ASSUME NEW w \in Threads, Queued(w)' PROVE WakeupFor(w)'
    BY DEF NoLostWakeup, WakeupFor
  <2>4. CASE w = t
    <3>1. bits[addr[t]] = LOCKED + HAS_PARKED
      BY <2>1 DEF EnqueuerInv
    <3>2. IsLocked(bits[addr[t]]) /\ HasParked(bits[addr[t]])
      BY <3>1, LockedBits
    <3> QED BY <1>1, <2>4, <3>2 DEF WakeupFor
  <2>5. CASE w # t
    <3>1. WakeupFor(w)
      BY <2>1, <2>2, <2>5 DEF Queued, NoLostWakeup, WakeupFor
    <3> QED BY <1>1, <2>1, <2>2, <3>1 DEF WakeupFor, OnItsWay
  <2> QED BY <2>4, <2>5
(* A post was taken: t has the mutex, or is back to look at it.            *)
<1>4. CASE Woken(t)
  <2>1. /\ t \notin isUnparking' /\ isUnparking' = isUnparking \ {t}
        /\ parkState[t] \in {"asleep", "drain"}
    BY <1>4 DEF Woken, ParkOk
  <2>2. ~Enqueue(t)
    BY <2>1 DEF Enqueue, ParkEnqueue
  <2>3. \A u \in Threads \ {t} : pc'[u] = pc[u] /\ v'[u] = v[u]
    BY <1>4 DEF Woken, Return, Goto
  <2>4. CASE t \in handedOff
    <3>1. Owns(t, addr[t])
      BY <2>4 DEF Owns
    <3>2. IsLocked(bits[addr[t]])
      BY <3>1 DEF IndInv, MutualExclusion
    <3>3. \A m \in Addrs : OnItsWay(t, m) => IsLocked(bits[m])
      BY <3>2 DEF OnItsWay
    <3> QED BY <1>1, <2>1, <2>2, <2>3, <3>3, NobodyElseQueues, WakeupKept
  <2>5. CASE Goto(t, "reload")
    <3>1. \A m \in Addrs : OnItsWay(t, m) => OnItsWay(t, m)'
      BY <1>1, <2>5 DEF OnItsWay, Goto
    <3> QED BY <1>1, <2>1, <2>2, <2>3, <3>1, NobodyElseQueues, WakeupKept
  <2> QED BY <1>4, <2>4, <2>5 DEF Woken
<1>5. CASE WaitFailed(t)
  <2>1. /\ t \notin isUnparking /\ UNCHANGED isUnparking
        /\ parkState[t] \in {"TIMEOUT", "INTR"}
    BY <1>5 DEF WaitFailed, ParkGiveUp
  <2>2. pc[t] = "parked" /\ ~Enqueue(t)
    BY <2>1 DEF Enqueue, ParkEnqueue, IndInv, ParkInv
  <2>3. \A m \in Addrs : ~OnItsWay(t, m)
    BY <2>1, <2>2 DEF OnItsWay
  <2>4. \A u \in Threads \ {t} : pc'[u] = pc[u] /\ v'[u] = v[u]
    BY <1>5 DEF WaitFailed, Return, Goto
  <2> QED BY <1>1, <2>1, <2>2, <2>3, <2>4, NobodyElseQueues, WakeupKept
<1>6. CASE Drain(t) \/ SemaInterrupted(t) \/ SemaTimedOut(t)
  <2>1. UNCHANGED <<pc, v, isUnparking>> /\ ~Enqueue(t)
    BY <1>6 DEF Drain, ParkDrain, SemaInterrupted, SemaTimedOut, WaitFails, mutexVars,
                Enqueue, ParkEnqueue
  <2>2. \A m \in Addrs : OnItsWay(t, m) => OnItsWay(t, m)'
    BY <1>1, <2>1 DEF OnItsWay
  <2> QED BY <1>1, <2>1, <2>2, NobodyElseQueues, WakeupKept
<1> QED BY <1>2, <1>3, <1>4, <1>5, <1>6

(* The steps of the unlock.                                                *)
LEMMA WakeupUnlockStep ==
    ASSUME IndInv, InQueueInv, NoLostWakeup, NEW t \in Threads, Step(t),
           CallUnlock(t) \/ UnlockFast(t) \/ UnlockUnpark(t) \/ Post(t)
    PROVE  NoLostWakeup'
<1> USE WakeupTypes
<1>1. /\ pc[t] \in {"held", "unlock", "wakeup"} /\ ~Enqueue(t)
      /\ t \notin isUnparking /\ UNCHANGED addr
  BY OnlyParkedAreHanded DEF CallUnlock, UnlockFast, UnlockUnpark, Unpark, UnparkNone, Post,
                             Wakeup, Enqueue, ParkEnqueue, parkVars
<1>2. \A u \in Threads : Queued(u)' => Queued(u) /\ addr'[u] = addr[u]
  BY <1>1, NobodyElseQueues
<1>3. \A m \in Addrs : ~OnItsWay(t, m)
  BY <1>1 DEF OnItsWay
<1>4. \A u \in Threads \ {t} : pc'[u] = pc[u] /\ v'[u] = v[u]
  BY DEF CallUnlock, UnlockFast, UnlockUnpark, Post, Load, Return, Goto
<1>5. CASE UNCHANGED <<bits, isUnparking>>
  BY <1>1, <1>2, <1>3, <1>4, <1>5, WakeupKept
<1>6. CASE CallUnlock(t) \/ Post(t)
  BY <1>5, <1>6 DEF CallUnlock, Post, Wakeup, parkVars
(* t lets go of a mutex: who waits for another one does not notice, and    *)
(* who waits for this one needs its mark and somebody on the way.          *)
<1>7. ASSUME \A m \in Addrs : m # addr[t] => bits'[m] = bits[m],
             isUnparking \subseteq isUnparking',
             \A w \in Threads : Queued(w)' /\ addr[w] = addr[t] => WakeupFor(w)'
      PROVE  NoLostWakeup'
  <2> SUFFICES ASSUME NEW w \in Threads, Queued(w)' PROVE WakeupFor(w)'
    BY DEF NoLostWakeup, WakeupFor
  <2>1. CASE addr[w] = addr[t]
    BY <1>7, <2>1
  <2>2. CASE addr[w] # addr[t]
    <3>1. PICK m \in Addrs : m = addr[w] /\ m = addr'[w]
      BY <1>2
    <3>2. /\ HasParked(bits[m])
          /\ IsLocked(bits[m]) \/ \E u \in Threads : OnItsWay(u, m)
      BY <1>2, <3>1 DEF NoLostWakeup
    <3>3. \A u \in Threads : OnItsWay(u, m) => OnItsWay(u, m)'
      BY <1>1, <1>3, <1>4, <1>7 DEF OnItsWay
    <3>4. /\ HasParked(bits'[m])
          /\ IsLocked(bits'[m]) \/ \E u \in Threads : OnItsWay(u, m)'
      BY <1>7, <2>2, <3>1, <3>2, <3>3
    <3> QED BY <3>1, <3>4 DEF WakeupFor
  <2> QED BY <2>1, <2>2
(* The fast unlock finds HAS_PARKED off: nobody waits.                     *)
<1>8. CASE UnlockFast(t)
  <2>1. CASE CasMiss(t)
    BY <1>5, <1>8, <2>1 DEF UnlockFast, CasMiss, parkVars
  <2>2. CASE CasSucceeds(t, UNLOCKED)
    <3>1. v[t] = LOCKED /\ UNCHANGED isUnparking /\ UNLOCKED \in Bits
      BY <1>8 DEF UnlockFast, parkVars, Bits, UNLOCKED
    <3>2. ~HasParked(bits[addr[t]])
      BY <2>2, <3>1, CasOf, LockedBits
    <3>3. \A w \in Threads : Queued(w)' => addr[w] # addr[t]
      BY <1>2, <3>2 DEF NoLostWakeup
    <3> QED BY <1>7, <2>2, <3>1, <3>3, CasOf
  <2> QED BY <1>8, <2>1, <2>2 DEF UnlockFast
<1>9. CASE UnlockUnpark(t)
  <2>1. \A m \in Addrs : m # addr[t] => bits'[m] = bits[m]
    BY <1>9 DEF UnlockUnpark, MutexUnpark
  <2>b. PICK b \in Buckets : b = MyBucket(t)
    OBVIOUS
  (* Whoever waits for this mutex is in the queue that t looks through.    *)
  <2>2. \A w \in Threads : Queued(w) /\ addr[w] = addr[t] =>
            \E i \in 1..Len(waiters[b]) : waiters[b][i] = w
    BY <2>b DEF InQueueInv, Queue, MyBucket
  <2>3. CASE UnparkNone(t)
    <3>1. \A i \in 1..Len(waiters[b]) : addr[waiters[b][i]] # addr[t]
      BY <2>b, <2>3 DEF UnparkNone, NoneWaits, Queue
    <3>2. \A w \in Threads : Queued(w)' => addr[w] # addr[t]
      BY <1>2, <2>2, <3>1
    <3> QED BY <1>7, <2>1, <2>3, <3>2 DEF UnparkNone, parkVars
  <2>4. ASSUME NEW x \in Threads, Unpark(t, x), MutexUnpark(t, x) PROVE NoLostWakeup'
    <3>1. PICK k \in 1..Len(waiters[b]) : waiters[b][k] = x /\ addr[x] = addr[t]
      BY <2>b, <2>4 DEF Unpark, Queue, IsFirst
    <3>2. isUnparking' = isUnparking \cup {x}
      BY <2>4 DEF Unpark
    <3>3. \E u \in Threads : OnItsWay(u, addr[t])'
      BY <1>1, <3>1, <3>2 DEF OnItsWay
    (* A second waiter means that num_waiters was not zero.                *)
    <3>4. ASSUME NEW w \in Threads, Queued(w)', addr[w] = addr[t]
          PROVE  HasParked(bits'[addr[t]])
      <4>1. w # x
        BY <3>2, <3>4 DEF Queued
      <4>2. PICK i \in 1..Len(waiters[b]) : waiters[b][i] = w
        BY <1>2, <2>2, <3>4
      <4>3. HasMoreWaiters(t)
        <5>1. i # k /\ Len(waiters[b]) \in Nat
          BY <3>1, <4>1, <4>2, LenProperties
        <5> QED BY <2>b, <5>1 DEF HasMoreWaiters, Queue
      <4>4. bits'[addr[t]] = (IF x \in aged THEN LOCKED ELSE 0) + HAS_PARKED
        BY <2>4, <4>3 DEF MutexUnpark
      <4> QED BY <4>4 DEF HasParked, LOCKED, HAS_PARKED
    <3>5. \A w \in Threads : Queued(w)' /\ addr[w] = addr[t] => WakeupFor(w)'
      BY <1>1, <3>3, <3>4 DEF WakeupFor
    <3> QED BY <1>7, <2>1, <3>2, <3>5
  <2> QED BY <1>9, <2>3, <2>4 DEF UnlockUnpark
<1> QED BY <1>6, <1>8, <1>9

-----------------------------------------------------------------------------
LEMMA WakeupInvInit == Init => WakeupInv
<1> SUFFICES ASSUME Init PROVE EnqueuerInv /\ InQueueInv /\ NoLostWakeup
  BY IndInvInit DEF WakeupInv
<1>1. \A t \in Threads : parkState[t] = "out"
  BY DEF Init, ParkInit
<1> QED BY <1>1 DEF EnqueuerInv, InQueueInv, NoLostWakeup, Queued

LEMMA WakeupInvStep == WakeupInv /\ [Next]_vars => WakeupInv'
<1> SUFFICES ASSUME WakeupInv, [Next]_vars
             PROVE  EnqueuerInv' /\ InQueueInv' /\ NoLostWakeup'
  BY IndInvStep DEF WakeupInv
<1>1. IndInv /\ EnqueuerInv /\ InQueueInv /\ NoLostWakeup
  BY DEF WakeupInv
<1>2. CASE Next
  <2>1. PICK t \in Threads : Step(t)
    BY <1>2 DEF Next
  <2>2. NoLostWakeup'
    BY <1>1, <2>1, WakeupLockStep, WakeupParkStep, WakeupUnlockStep
       DEF Step, LockStep, UnlockStep
  <2> QED BY <1>1, <2>1, <2>2, EnqueuerStep, InQueueStep
<1>3. CASE UNCHANGED vars
  <2>1. EnqueuerInv'
    BY <1>1, <1>3 DEF vars, parkVars, mutexVars, EnqueuerInv, MyBucket
  <2>2. InQueueInv'
    BY <1>1, <1>3 DEF vars, parkVars, mutexVars, InQueueInv, Queue, MyBucket, Queued
  <2>3. NoLostWakeup'
    BY <1>1, <1>3 DEF vars, parkVars, mutexVars, NoLostWakeup, Queued, OnItsWay
  <2> QED BY <2>1, <2>2, <2>3
<1> QED BY <1>2, <1>3

(* No lost wakeup: a thread in the queue of a mutex is announced by        *)
(* HAS_PARKED, and the mutex has an owner or somebody is on the way to it. *)
THEOREM NobodyIsForgotten == Spec => []NoLostWakeup
<1>1. WakeupInv => NoLostWakeup
  BY DEF WakeupInv
<1> QED BY <1>1, WakeupInvInit, WakeupInvStep, PTL DEF Spec
=============================================================================
