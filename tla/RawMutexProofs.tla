---------------------------- MODULE RawMutexProofs ----------------------------
(***************************************************************************)
(* Theorems about _PyRawMutex, for every set of threads.                   *)
(*                                                                         *)
(* Inv is inductive: the owner is alone, the stack lists the waiters, an   *)
(* unlocker's local copies are still true of the word and of the entries   *)
(* it is about to read, and a post that is owed finds its sleeper.  That   *)
(* the stack is kept is shown once for each of the three things that can   *)
(* happen to it; the proof of a step only has to say which one it is.      *)
(***************************************************************************)
EXTENDS RawMutex, FiniteSetTheorems, FunctionTheorems, TLAPS

(* The LOCKED bit is on while one thread is between a lock and an unlock.  *)
OwnerIsAlone ==
    /\ \A t, u \in Threads : pc[t] \in Owner /\ pc[u] \in Owner => t = u
    /\ word.locked = 1 <=> \E t \in Threads : pc[t] \in Owner

(* A post stays until its sleeper takes it.                                *)
PostsAreForSleepers ==
    \A t \in Threads : sema[t] = 0 \/ (sema[t] = 1 /\ pc[t] = "asleep")

(* What an unlocker has read is still so, and its head is still there.     *)
IsRight(t) ==
    /\ pc[t] \in {"uslow", "uloop", "upop"} => word.head # Null
    /\ pc[t] \in {"uloop", "upop"} => v[t].locked = 1 /\ v[t].head \in Waiters
    /\ pc[t] = "upop" => rest[t] = next[v[t].head]

UnlockerIsRight == \A t \in Threads : IsRight(t)

(* A popped entry belongs to a thread that sleeps and has one poster.      *)
PosterIsAlone ==
    \A t \in Threads : pc[t] = "post" =>
        /\ v[t].head \in Threads
        /\ pc[v[t].head] = "asleep" /\ sema[v[t].head] = 0
        /\ \A u \in Threads : pc[u] = "post" /\ v[u].head = v[t].head => u = t

(* From the head along next to the null pointer, every waiter, once.       *)
StackIsKept ==
    \E n \in Nat : \E s \in Bijection(1..n, Waiters) : IsStack(s, n)

Inv ==
    /\ TypeOK
    /\ OwnerIsAlone
    /\ PostsAreForSleepers
    /\ UnlockerIsRight
    /\ PosterIsAlone
    /\ StackIsKept
    /\ NoLostWakeup

-----------------------------------------------------------------------------
(* Being a waiter, now and after the step, without sets.                   *)
LEMMA WaiterIs ==
    /\ \A w : w \in Waiters <=>
           /\ w \in Threads /\ pc[w] = "asleep" /\ sema[w] = 0
           /\ \A u \in Threads : pc[u] = "post" => v[u].head # w
    /\ \A w : w \in Waiters' <=>
           /\ w \in Threads /\ pc'[w] = "asleep" /\ sema'[w] = 0
           /\ \A u \in Threads : pc'[u] = "post" => v'[u].head # w
  BY DEF Waiters, BeingPosted

LEMMA WordFields ==
    /\ \A l \in {0, 1}, h \in Pointers :
           /\ Word(l, h) \in Words
           /\ Word(l, h).locked = l /\ Word(l, h).head = h
    /\ Locked \in Words /\ Locked.locked = 1 /\ Locked.head = Null
    /\ Unlocked \in Words /\ Unlocked.locked = 0 /\ Unlocked.head = Null
    /\ \A x \in Words : /\ x.locked \in {0, 1} /\ x.head \in Pointers
                        /\ x = Word(x.locked, x.head)
  BY DEF Word, Words, Locked, Unlocked, Pointers

-----------------------------------------------------------------------------
(* The three things that can happen to the stack, and its first entry.     *)
LEMMA BijectionIs ==
    ASSUME NEW S, NEW T, NEW f
    PROVE  f \in Bijection(S, T) <=>
               /\ f \in [S -> T]
               /\ \A i, j \in S : f[i] = f[j] => i = j
               /\ \A w \in T : \E i \in S : f[i] = w
  BY DEF Bijection, Injection, Surjection, IsInjective

LEMMA HeadIsWaiter ==
    ASSUME StackIsKept, word.head # Null
    PROVE  word.head \in Waiters
<1>1. PICK n \in Nat : \E s \in Bijection(1..n, Waiters) : IsStack(s, n)
  BY DEF StackIsKept
<1>2. PICK s \in Bijection(1..n, Waiters) : IsStack(s, n)
  BY <1>1
<1>3. n # 0 /\ word.head = s[1]
  BY <1>2 DEF IsStack
<1>4. s \in [1..n -> Waiters]
  BY <1>2, BijectionIs
<1> QED BY <1>3, <1>4

LEMMA StackUntouched ==
    ASSUME StackIsKept, word'.head = word.head, Waiters' = Waiters,
           \A w \in Waiters : next'[w] = next[w]
    PROVE  StackIsKept'
<1>1. PICK n \in Nat : \E s \in Bijection(1..n, Waiters) : IsStack(s, n)
  BY DEF StackIsKept
<1>2. PICK s \in Bijection(1..n, Waiters) : IsStack(s, n)
  BY <1>1
<1>3. s \in [1..n -> Waiters]
  BY <1>2, BijectionIs
<1>4. IsStack(s, n)'
  BY <1>2, <1>3 DEF IsStack
<1> QED BY <1>2, <1>4 DEF StackIsKept

LEMMA StackPushed ==
    ASSUME StackIsKept, NEW t, t \notin Waiters, Waiters' = Waiters \cup {t},
           word'.head = t, next'[t] = word.head,
           \A w \in Waiters : next'[w] = next[w]
    PROVE  StackIsKept'
<1>1. PICK n \in Nat : \E s \in Bijection(1..n, Waiters) : IsStack(s, n)
  BY DEF StackIsKept
<1>2. PICK s \in Bijection(1..n, Waiters) : IsStack(s, n)
  BY <1>1
<1>3. /\ s \in [1..n -> Waiters]
      /\ \A i, j \in 1..n : s[i] = s[j] => i = j
      /\ \A w \in Waiters : \E i \in 1..n : s[i] = w
  BY <1>2, BijectionIs
<1> DEFINE m == n + 1
           r == [i \in 1..m |-> IF i = 1 THEN t ELSE s[i - 1]]
<1>4. r \in Bijection(1..m, Waiters')
  <2>1. \A i \in 1..m : i # 1 => i - 1 \in 1..n
    OBVIOUS
  <2>2. r \in [1..m -> Waiters']
    BY <1>3, <2>1
  <2>3. \A i, j \in 1..m : r[i] = r[j] => i = j
    BY <1>3, <2>1
  <2>4. \A w \in Waiters' : \E i \in 1..m : r[i] = w
    <3>1. r[1] = t /\ 1 \in 1..m
      OBVIOUS
    <3>2. ASSUME NEW w \in Waiters PROVE \E i \in 1..m : r[i] = w
      <4>1. PICK i \in 1..n : s[i] = w
        BY <1>3
      <4>2. i + 1 \in 1..m /\ r[i + 1] = s[i]
        OBVIOUS
      <4> QED BY <4>1, <4>2
    <3> QED BY <3>1, <3>2
  <2> HIDE DEF r, m
  <2> QED BY <2>2, <2>3, <2>4, BijectionIs
<1>5. IsStack(r, m)'
  <2>1. word'.head = r[1] /\ m # 0
    OBVIOUS
  <2>2. ASSUME NEW i \in 1..m
        PROVE  next'[r[i]] = IF i = m THEN Null ELSE r[i + 1]
    <3>1. CASE i = 1
      BY <1>2, <3>1 DEF IsStack
    <3>2. CASE i # 1
      <4>1. i - 1 \in 1..n /\ r[i] = s[i - 1] /\ s[i - 1] \in Waiters
        BY <1>3, <3>2
      <4>2. next'[r[i]] = IF i - 1 = n THEN Null ELSE s[(i - 1) + 1]
        BY <1>2, <4>1 DEF IsStack
      <4>3. i # m => r[i + 1] = s[(i - 1) + 1]
        BY <3>2
      <4> QED BY <4>2, <4>3
    <3> QED BY <3>1, <3>2
  <2> HIDE DEF r, m
  <2> QED BY <2>1, <2>2 DEF IsStack
<1>6. m \in Nat
  OBVIOUS
<1> HIDE DEF r, m
<1> QED BY <1>4, <1>5, <1>6 DEF StackIsKept

LEMMA StackPopped ==
    ASSUME StackIsKept, word.head # Null,
           Waiters' = Waiters \ {word.head},
           word'.head = next[word.head],
           \A w \in Waiters : next'[w] = next[w]
    PROVE  StackIsKept'
<1>1. PICK n \in Nat : \E s \in Bijection(1..n, Waiters) : IsStack(s, n)
  BY DEF StackIsKept
<1>2. PICK s \in Bijection(1..n, Waiters) : IsStack(s, n)
  BY <1>1
<1>3. /\ s \in [1..n -> Waiters]
      /\ \A i, j \in 1..n : s[i] = s[j] => i = j
      /\ \A w \in Waiters : \E i \in 1..n : s[i] = w
  BY <1>2, BijectionIs
<1>4. n # 0 /\ word.head = s[1] /\ 1 \in 1..n
  BY <1>2 DEF IsStack
<1> DEFINE m == n - 1
           r == [i \in 1..m |-> s[i + 1]]
<1>5. m \in Nat
  BY <1>4
<1>6. \A i \in 1..m : i + 1 \in 1..n /\ r[i] = s[i + 1]
  OBVIOUS
<1>7. r \in Bijection(1..m, Waiters')
  <2>1. \A i \in 1..m : r[i] \in Waiters'
    BY <1>3, <1>4, <1>6
  <2>2. r \in [1..m -> Waiters']
    BY <2>1
  <2>3. \A i, j \in 1..m : r[i] = r[j] => i = j
    BY <1>3, <1>6
  <2>4. \A w \in Waiters' : \E i \in 1..m : r[i] = w
    <3> TAKE w \in Waiters'
    <3>1. PICK i \in 1..n : s[i] = w
      BY <1>3
    <3>2. i # 1
      BY <1>4, <3>1
    <3>3. i - 1 \in 1..m /\ r[i - 1] = s[(i - 1) + 1] /\ (i - 1) + 1 = i
      BY <3>2
    <3> QED BY <3>1, <3>3
  <2> HIDE DEF r, m
  <2> QED BY ONLY <2>2, <2>3, <2>4, BijectionIs
<1>8. IsStack(r, m)'
  <2>1. word'.head = IF m = 0 THEN Null ELSE r[1]
    <3>1. next[s[1]] = IF 1 = n THEN Null ELSE s[1 + 1]
      BY <1>2, <1>4 DEF IsStack
    <3>2. m # 0 => r[1] = s[1 + 1]
      BY <1>5
    <3>3. m = 0 <=> 1 = n
      OBVIOUS
    <3> QED BY <1>4, <3>1, <3>2, <3>3
  <2>2. ASSUME NEW i \in 1..m
        PROVE  next'[r[i]] = IF i = m THEN Null ELSE r[i + 1]
    <3>1. i + 1 \in 1..n /\ r[i] = s[i + 1] /\ s[i + 1] \in Waiters
      BY <1>3, <1>6
    <3>2. next'[r[i]] = IF i + 1 = n THEN Null ELSE s[(i + 1) + 1]
      BY <1>2, <3>1 DEF IsStack
    <3>3. i # m => r[i + 1] = s[(i + 1) + 1]
      OBVIOUS
    <3>4. i + 1 = n <=> i = m
      OBVIOUS
    <3> QED BY <3>2, <3>3, <3>4
  <2> HIDE DEF r, m
  <2> QED BY <2>1, <2>2 DEF IsStack
<1> HIDE DEF r, m
<1> QED BY <1>5, <1>7, <1>8 DEF StackIsKept

-----------------------------------------------------------------------------
(* The type invariant.                                                     *)
LEMMA InitHolds == Init => Inv
<1> SUFFICES ASSUME Init PROVE Inv
  OBVIOUS
<1> USE DEF Init
<1>1. TypeOK
  BY WordFields DEF TypeOK, Pointers
<1>2. OwnerIsAlone
  BY WordFields DEF OwnerIsAlone, Owner
<1>3. PostsAreForSleepers /\ UnlockerIsRight /\ PosterIsAlone
  BY DEF PostsAreForSleepers, UnlockerIsRight, IsRight, PosterIsAlone
<1>4. Waiters = {}
  BY WaiterIs
<1>5. StackIsKept
  <2> DEFINE s == [i \in 1..0 |-> Null]
  <2>1. 1..0 = {}
    OBVIOUS
  <2>2. s \in Bijection(1..0, Waiters)
    <3>1. s \in [1..0 -> Waiters]
      BY <1>4, <2>1
    <3> HIDE DEF s
    <3> QED BY <1>4, <2>1, <3>1, BijectionIs
  <2>3. IsStack(s, 0)
    BY <2>1, WordFields DEF IsStack
  <2> HIDE DEF s
  <2> QED BY <2>2, <2>3 DEF StackIsKept
<1>6. NoLostWakeup
  BY WordFields DEF NoLostWakeup
<1> QED BY <1>1, <1>2, <1>3, <1>5, <1>6 DEF Inv

LEMMA Typing == TypeOK /\ [Next]_vars => TypeOK'
<1> SUFFICES ASSUME TypeOK, [Next]_vars PROVE TypeOK'
  OBVIOUS
<1> USE WordFields DEF TypeOK, Goto, Return, Load, CasHit, CasMiss,
                      InLockSlow, Owner, Pointers
<1>1. ASSUME NEW t \in Threads, CallLock(t) PROVE TypeOK'
  BY <1>1 DEF CallLock
<1>2. ASSUME NEW t \in Threads, FastLock(t) PROVE TypeOK'
  BY <1>2 DEF FastLock
<1>3. ASSUME NEW t \in Threads, SlowLoad(t) PROVE TypeOK'
  BY <1>3 DEF SlowLoad
<1>4. ASSUME NEW t \in Threads, Grab(t) PROVE TypeOK'
  <2>1. /\ v[t] \in Words /\ v[t].head \in Pointers
        /\ Word(1, v[t].head) \in Words
    BY WordFields
  <2>2. /\ word' \in Words
        /\ next' \in [Threads -> Pointers]
        /\ rest' \in [Threads -> Pointers]
    BY <1>4, <2>1 DEF Grab
  <2>3. \/ v' = [v EXCEPT ![t] = Unlocked]
        \/ v' = [v EXCEPT ![t] = word]
    BY <1>4 DEF Grab
  <2>4. pc' = pc \/ pc' = [pc EXCEPT ![t] = "held"]
    BY <1>4 DEF Grab
  <2>5. sema' = sema
    BY <1>4 DEF Grab
  <2>6. v' \in [Threads -> Words]
    BY <2>3, WordFields
  <2>7. pc' \in [Threads -> {"idle", "fast", "post"} \cup InLockSlow \cup Owner]
    BY <2>4
  <2> QED BY <2>2, <2>5, <2>6, <2>7
<1>5. ASSUME NEW t \in Threads, Push(t) PROVE TypeOK'
  <2>1. /\ v[t] \in Words /\ v[t].head \in Pointers
        /\ Word(1, t) \in Words
    BY WordFields
  <2>2. word' \in Words /\ next' \in [Threads -> Pointers]
    BY <1>5, <2>1 DEF Push
  <2>3. /\ v' \in [Threads -> Words]
        /\ pc' = pc \/ pc' = [pc EXCEPT ![t] = "asleep"]
        /\ sema' = sema /\ rest' = rest
    BY <1>5 DEF Push
  <2> QED BY <2>2, <2>3
<1>6. ASSUME NEW t \in Threads, Awake(t) PROVE TypeOK'
  BY <1>6 DEF Awake
<1>7. ASSUME NEW t \in Threads, FastUnlock(t) PROVE TypeOK'
  BY <1>7 DEF FastUnlock
<1>8. ASSUME NEW t \in Threads, UnlockLoad(t) PROVE TypeOK'
  BY <1>8 DEF UnlockLoad
<1>9. ASSUME NEW t \in Threads, ReadNext(t) PROVE TypeOK'
  BY <1>9 DEF ReadNext
<1>10. ASSUME NEW t \in Threads, Pop(t) PROVE TypeOK'
  BY <1>10, SMTT(30) DEF Pop
<1>11. ASSUME NEW t \in Threads, Post(t) PROVE TypeOK'
  <2>1. sema' \in [Threads -> Nat]
    <3> DEFINE h == v[t].head
    <3>1. sema' = [sema EXCEPT ![h] = sema[h] + 1]
      BY <1>11 DEF Post
    <3>2. h \in Threads => sema[h] + 1 \in Nat
      OBVIOUS
    <3> HIDE DEF h
    <3> QED BY <3>1, <3>2
  <2>2. /\ pc' = [pc EXCEPT ![t] = "idle"]
        /\ v' \in [Threads -> Words]
        /\ rest' \in [Threads -> Pointers]
        /\ word' = word /\ next' = next
    BY <1>11 DEF Post
  <2> QED BY <2>1, <2>2
<1>12. CASE UNCHANGED vars
  BY <1>12 DEF vars
<1> QED
  BY <1>1, <1>2, <1>3, <1>4, <1>5, <1>6, <1>7, <1>8, <1>9, <1>10, <1>11, <1>12
     DEF Next, LockStep, UnlockStep

-----------------------------------------------------------------------------
(* A step of t in which nobody goes to sleep, wakes or is woken, and the   *)
(* head stays: what is left to show is about t and the LOCKED bit.         *)
OnlyFor(t) ==
    \A u \in Threads \ {t} :
        pc'[u] = pc[u] /\ v'[u] = v[u] /\ rest'[u] = rest[u] /\ next'[u] = next[u]

LEMMA QuietStep ==
    ASSUME Inv, NEW t \in Threads, OnlyFor(t), sema' = sema,
           pc[t] \notin {"asleep", "post"}, pc'[t] \notin {"asleep", "post"},
           word'.head = word.head, OwnerIsAlone', IsRight(t)', NoLostWakeup',
           TypeOK'
    PROVE  Inv'
<1>1. Waiters' = Waiters
  <2>1. \A w : w \in Waiters' <=> w \in Waiters
    BY WaiterIs DEF OnlyFor
  <2> QED BY <2>1
<1>2. t \notin Waiters
  BY WaiterIs
<1>3. PostsAreForSleepers'
  BY DEF Inv, PostsAreForSleepers, OnlyFor
<1>4. UnlockerIsRight'
  <2>1. ASSUME NEW u \in Threads \ {t} PROVE IsRight(u)'
    BY <1>1, <1>2, WaiterIs DEF Inv, UnlockerIsRight, IsRight, OnlyFor
  <2> QED BY <2>1 DEF UnlockerIsRight
<1>5. PosterIsAlone'
  BY DEF Inv, PosterIsAlone, OnlyFor
<1>6. StackIsKept'
  <2>1. \A w \in Waiters : next'[w] = next[w]
    BY <1>2, WaiterIs DEF OnlyFor
  <2> QED BY <1>1, <2>1, StackUntouched DEF Inv
<1> QED BY <1>3, <1>4, <1>5, <1>6 DEF Inv

(* The same when the word stays and t remains, or not, the owner.          *)
LEMMA QuietStepOnSameWord ==
    ASSUME Inv, NEW t \in Threads, OnlyFor(t), sema' = sema, word' = word,
           pc[t] \notin {"asleep", "post"}, pc'[t] \notin {"asleep", "post"},
           pc'[t] \in Owner <=> pc[t] \in Owner,
           pc[t] \in {"slow", "loop"} => pc'[t] \in {"slow", "loop"},
           IsRight(t)', TypeOK'
    PROVE  Inv'
<1>1. OwnerIsAlone'
  BY DEF Inv, OwnerIsAlone, OnlyFor
<1>2. NoLostWakeup'
  <2> SUFFICES ASSUME word.locked = 0, word.head # Null PROVE NoLostWakeup'
    BY DEF NoLostWakeup
  <2>1. PICK u \in Threads : \/ pc[u] \in {"slow", "loop", "post"}
                             \/ pc[u] = "asleep" /\ sema[u] > 0
    BY DEF Inv, NoLostWakeup
  <2>2. \/ pc'[u] \in {"slow", "loop", "post"}
        \/ pc'[u] = "asleep" /\ sema'[u] > 0
    BY <2>1 DEF OnlyFor
  <2> QED BY <2>2 DEF NoLostWakeup
<1> QED BY <1>1, <1>2, QuietStep

(* Where a thread goes.                                                    *)
LEMMA GotoIs ==
    ASSUME TypeOK, NEW t \in Threads, NEW l, Goto(t, l)
    PROVE  pc'[t] = l /\ \A u \in Threads \ {t} : pc'[u] = pc[u]
  BY DEF TypeOK, Goto

(* Calls, loads and exchanges that miss.                                   *)
LEMMA CallLockKeeps == ASSUME Inv, NEW t \in Threads, CallLock(t), TypeOK' PROVE Inv'
<1>1. /\ OnlyFor(t) /\ sema' = sema /\ word' = word
      /\ pc[t] = "idle" /\ pc'[t] = "fast"
  BY DEF CallLock, Goto, OnlyFor, Inv, TypeOK
<1>2. IsRight(t)'
  BY <1>1 DEF IsRight
<1> QED BY <1>1, <1>2, QuietStepOnSameWord DEF Owner

LEMMA SlowLoadKeeps == ASSUME Inv, NEW t \in Threads, SlowLoad(t), TypeOK' PROVE Inv'
<1>1. /\ OnlyFor(t) /\ sema' = sema /\ word' = word
      /\ pc[t] = "slow" /\ pc'[t] = "loop"
  BY DEF SlowLoad, Goto, Load, OnlyFor, Inv, TypeOK
<1>2. IsRight(t)'
  BY <1>1 DEF IsRight
<1> QED BY <1>1, <1>2, QuietStepOnSameWord DEF Owner

LEMMA UnlockLoadKeeps == ASSUME Inv, NEW t \in Threads, UnlockLoad(t), TypeOK' PROVE Inv'
<1>1. /\ OnlyFor(t) /\ sema' = sema /\ word' = word
      /\ pc[t] = "uslow" /\ pc'[t] = "uloop" /\ v'[t] = word
  BY DEF UnlockLoad, Goto, Load, OnlyFor, Inv, TypeOK
<1>2. word.head # Null /\ word.locked = 1
  BY <1>1 DEF Inv, UnlockerIsRight, IsRight, OwnerIsAlone, Owner
<1>3. word.head \in Waiters
  BY <1>2, HeadIsWaiter DEF Inv
<1>4. Waiters' = Waiters
  <2>1. \A w : w \in Waiters' <=> w \in Waiters
    BY <1>1, WaiterIs DEF OnlyFor
  <2> QED BY <2>1
<1>5. IsRight(t)'
  BY <1>1, <1>2, <1>3, <1>4 DEF IsRight
<1> QED BY <1>1, <1>5, QuietStepOnSameWord DEF Owner

LEMMA ReadNextKeeps == ASSUME Inv, NEW t \in Threads, ReadNext(t), TypeOK' PROVE Inv'
<1>1. /\ OnlyFor(t) /\ sema' = sema /\ word' = word /\ v' = v /\ next' = next
      /\ pc[t] = "uloop" /\ pc'[t] = "upop" /\ rest'[t] = next[v[t].head]
  BY DEF ReadNext, Goto, OnlyFor, Inv, TypeOK
<1>2. IsRight(t)
  BY DEF Inv, UnlockerIsRight
<1>3. Waiters' = Waiters
  <2>1. \A w : w \in Waiters' <=> w \in Waiters
    BY <1>1, WaiterIs DEF OnlyFor
  <2> QED BY <2>1
<1>4. IsRight(t)'
  BY <1>1, <1>2, <1>3 DEF IsRight
<1> QED BY <1>1, <1>4, QuietStepOnSameWord DEF Owner

(* The fast path, or on to LockSlow.                                       *)
LEMMA FastLockKeeps == ASSUME Inv, NEW t \in Threads, FastLock(t), TypeOK' PROVE Inv'
<1>1. OnlyFor(t) /\ sema' = sema /\ pc[t] = "fast" /\ TypeOK
  BY GotoIs DEF FastLock, OnlyFor, Inv
<1>2. CASE word = Unlocked /\ word' = Locked /\ Goto(t, "held")
  <2>1. pc'[t] = "held"
    BY <1>1, <1>2, GotoIs
  <2>2. /\ word.locked = 0 /\ word.head = Null
        /\ word'.locked = 1 /\ word'.head = Null
    BY <1>2, WordFields
  <2>3. OwnerIsAlone'
    BY <1>1, <2>1, <2>2 DEF Inv, OwnerIsAlone, OnlyFor, Owner
  <2>4. IsRight(t)' /\ NoLostWakeup'
    BY <2>1, <2>2 DEF IsRight, NoLostWakeup
  <2> QED BY <1>1, <2>1, <2>2, <2>3, <2>4, QuietStep
<1>3. CASE word # Unlocked /\ UNCHANGED word /\ Goto(t, "slow")
  <2>1. pc'[t] = "slow"
    BY <1>1, <1>3, GotoIs
  <2>2. IsRight(t)'
    BY <2>1 DEF IsRight
  <2> QED BY <1>1, <1>3, <2>1, <2>2, QuietStepOnSameWord DEF Owner
<1> QED BY <1>2, <1>3 DEF FastLock

LEMMA GrabKeeps == ASSUME Inv, NEW t \in Threads, Grab(t), TypeOK' PROVE Inv'
<1>1. /\ pc[t] = "loop" /\ v[t].locked = 0 /\ sema' = sema
      /\ v[t].head \in Pointers /\ TypeOK
  BY WordFields DEF Grab, Inv, TypeOK
<1>2. CASE CasHit(t, Word(1, v[t].head)) /\ Return(t, "held")
           /\ next' = [next EXCEPT ![t] = Null]
  <2>1. pc'[t] = "held" /\ OnlyFor(t)
    BY <1>1, <1>2 DEF Return, Goto, OnlyFor, Inv, TypeOK
  <2>2. /\ word.locked = 0 /\ word'.head = word.head
        /\ word'.locked = 1
    BY <1>1, <1>2, WordFields DEF CasHit
  <2>3. OwnerIsAlone'
    BY <1>1, <2>1, <2>2 DEF Inv, OwnerIsAlone, OnlyFor, Owner
  <2>4. IsRight(t)' /\ NoLostWakeup'
    BY <2>1, <2>2 DEF IsRight, NoLostWakeup
  <2> QED BY <1>1, <2>1, <2>2, <2>3, <2>4, QuietStep
<1>3. CASE CasMiss(t) /\ UNCHANGED <<pc, rest, next>>
  <2>1. pc' = pc /\ OnlyFor(t) /\ word' = word
    BY <1>3 DEF CasMiss, Load, OnlyFor, Inv, TypeOK
  <2>2. IsRight(t)'
    BY <1>1, <2>1 DEF IsRight
  <2> QED BY <1>1, <2>1, <2>2, QuietStepOnSameWord
<1> QED BY <1>2, <1>3 DEF Grab

LEMMA FastUnlockKeeps == ASSUME Inv, NEW t \in Threads, FastUnlock(t), TypeOK' PROVE Inv'
<1>1. OnlyFor(t) /\ sema' = sema /\ pc[t] = "held" /\ TypeOK
  BY GotoIs DEF FastUnlock, OnlyFor, Inv
<1>2. word.locked = 1
  BY <1>1 DEF Inv, OwnerIsAlone, Owner
<1>3. CASE word = Locked /\ word' = Unlocked /\ Goto(t, "idle")
  <2>1. pc'[t] = "idle"
    BY <1>1, <1>3, GotoIs
  <2>2. word.head = Null /\ word'.locked = 0 /\ word'.head = Null
    BY <1>3, WordFields
  <2>3. OwnerIsAlone'
    BY <1>1, <1>2, <2>1, <2>2 DEF Inv, OwnerIsAlone, OnlyFor, Owner
  <2>4. IsRight(t)' /\ NoLostWakeup'
    BY <2>1, <2>2 DEF IsRight, NoLostWakeup
  <2> QED BY <1>1, <2>1, <2>2, <2>3, <2>4, QuietStep
<1>4. CASE word # Locked /\ UNCHANGED word /\ Goto(t, "uslow")
  <2>1. pc'[t] = "uslow"
    BY <1>1, <1>4, GotoIs
  <2>2. word.head # Null
    BY <1>1, <1>2, <1>4, WordFields DEF Inv, TypeOK, Locked
  <2>3. IsRight(t)'
    BY <1>4, <2>1, <2>2 DEF IsRight
  <2> QED BY <1>1, <1>4, <2>1, <2>3, QuietStepOnSameWord DEF Owner
<1> QED BY <1>3, <1>4 DEF FastUnlock

-----------------------------------------------------------------------------
(* A push: t is one more waiter, at the top of the stack.                  *)
LEMMA PushKeeps == ASSUME Inv, NEW t \in Threads, Push(t), TypeOK' PROVE Inv'
<1>1. /\ pc[t] = "loop" /\ v[t].locked = 1 /\ sema' = sema /\ rest' = rest
      /\ \A u \in Threads \ {t} : next'[u] = next[u]
      /\ next'[t] = v[t].head
      /\ TypeOK
  BY DEF Push, Inv, TypeOK
<1>2. CASE CasMiss(t) /\ UNCHANGED pc
  <2>1. OnlyFor(t) /\ word' = word /\ pc' = pc
    BY <1>1, <1>2 DEF CasMiss, Load, OnlyFor, TypeOK
  <2>2. IsRight(t)'
    BY <1>1, <2>1 DEF IsRight
  <2> QED BY <1>1, <2>1, <2>2, QuietStepOnSameWord
<1>3. CASE CasHit(t, Word(1, t)) /\ Goto(t, "asleep") /\ UNCHANGED v
  <2>1. /\ pc'[t] = "asleep" /\ v' = v
        /\ \A u \in Threads \ {t} : pc'[u] = pc[u]
    BY <1>1, <1>3, GotoIs
  <2>2. /\ word.locked = 1 /\ word'.locked = 1 /\ word'.head = t
        /\ next'[t] = word.head /\ t # Null
    BY <1>1, <1>3, WordFields, NullType DEF CasHit, Pointers
  <2>3. sema[t] = 0
    BY <1>1 DEF Inv, PostsAreForSleepers
  <2>4. ASSUME NEW u \in Threads, pc[u] = "post" PROVE v[u].head # t
    BY <1>1, <2>4 DEF Inv, PosterIsAlone
  <2>5. Waiters' = Waiters \cup {t} /\ t \notin Waiters
    <3>1. \A w : w \in Waiters' <=> w \in Waiters \/ w = t
      BY <1>1, <2>1, <2>3, <2>4, WaiterIs
    <3>2. t \notin Waiters
      BY <1>1, WaiterIs
    <3> QED BY <3>1, <3>2
  <2>6. OwnerIsAlone'
    BY <1>1, <2>1, <2>2 DEF Inv, OwnerIsAlone, Owner
  <2>7. PostsAreForSleepers'
    BY <1>1, <2>1, <2>3 DEF Inv, PostsAreForSleepers
  <2>8. ASSUME NEW u \in Threads PROVE IsRight(u)'
    <3>1. IsRight(u) /\ (u # t => pc'[u] = pc[u])
      BY <2>1 DEF Inv, UnlockerIsRight
    <3>2. CASE pc'[u] \in {"uslow", "uloop", "upop"}
      <4>1. u # t /\ pc'[u] = pc[u]
        BY <2>1, <3>2
      <4>2. pc[u] \in {"uloop", "upop"} => v[u].head \in Waiters
        BY <3>1 DEF IsRight
      <4>3. pc[u] = "upop" => v[u].head \in Threads \ {t}
        BY <2>5, <4>2, WaiterIs
      <4> QED BY <1>1, <2>1, <2>2, <2>5, <3>1, <4>1, <4>2, <4>3 DEF IsRight
    <3> QED BY <3>2 DEF IsRight
  <2>9. PosterIsAlone'
    BY <1>1, <2>1, <2>4 DEF Inv, PosterIsAlone
  <2>10. StackIsKept'
    <3>1. \A w \in Waiters : next'[w] = next[w]
      BY <1>1, <2>5, WaiterIs
    <3> QED BY <2>2, <2>5, <3>1, StackPushed DEF Inv
  <2>11. NoLostWakeup'
    BY <2>2 DEF NoLostWakeup
  <2> QED BY <2>6, <2>7, <2>8, <2>9, <2>10, <2>11 DEF Inv, UnlockerIsRight
<1> QED BY <1>2, <1>3 DEF Push

(* A sleeper takes its post.                                               *)
LEMMA AwakeKeeps == ASSUME Inv, NEW t \in Threads, Awake(t), TypeOK' PROVE Inv'
<1>1. /\ pc[t] = "asleep" /\ sema[t] > 0
      /\ word' = word /\ next' = next /\ v' = v /\ rest' = rest
      /\ Goto(t, "loop") /\ TypeOK
      /\ sema'[t] = sema[t] - 1
      /\ \A u \in Threads \ {t} : sema'[u] = sema[u]
  BY DEF Awake, Inv, TypeOK
<1>2. pc'[t] = "loop" /\ \A u \in Threads \ {t} : pc'[u] = pc[u]
  BY <1>1, GotoIs
<1>3. sema[t] = 1 /\ sema'[t] = 0
  BY <1>1 DEF Inv, PostsAreForSleepers
<1>4. Waiters' = Waiters
  <2>1. \A w : w \in Waiters' <=> w \in Waiters
    BY <1>1, <1>2, <1>3, WaiterIs
  <2> QED BY <2>1
<1>5. OwnerIsAlone'
  BY <1>1, <1>2 DEF Inv, OwnerIsAlone, Owner
<1>6. PostsAreForSleepers'
  BY <1>1, <1>2, <1>3 DEF Inv, PostsAreForSleepers
<1>7. UnlockerIsRight'
  BY <1>1, <1>2, <1>4 DEF Inv, UnlockerIsRight, IsRight
<1>8. PosterIsAlone'
  BY <1>1, <1>2, <1>3 DEF Inv, PosterIsAlone
<1>9. StackIsKept'
  BY <1>1, <1>4, StackUntouched DEF Inv
<1>10. NoLostWakeup'
  BY <1>2 DEF NoLostWakeup
<1> QED BY <1>5, <1>6, <1>7, <1>8, <1>9, <1>10 DEF Inv

(* A pop: the head is no waiter any more, and t owes it a post.            *)
LEMMA PopKeeps == ASSUME Inv, NEW t \in Threads, Pop(t), TypeOK' PROVE Inv'
<1>1. /\ pc[t] = "upop" /\ sema' = sema /\ next' = next /\ TypeOK
      /\ \A u \in Threads \ {t} : rest'[u] = rest[u]
      /\ IsRight(t) /\ OwnerIsAlone
  BY DEF Pop, Inv, TypeOK, UnlockerIsRight
<1>2. CASE CasMiss(t) /\ Goto(t, "uloop")
  <2>1. pc'[t] = "uloop" /\ OnlyFor(t) /\ word' = word /\ v'[t] = word
    BY <1>1, <1>2, GotoIs DEF CasMiss, Load, OnlyFor, TypeOK
  <2>2. word.head # Null /\ word.locked = 1
    BY <1>1 DEF IsRight, OwnerIsAlone, Owner
  <2>3. word.head \in Waiters
    BY <2>2, HeadIsWaiter DEF Inv
  <2>4. Waiters' = Waiters
    <3>1. \A w : w \in Waiters' <=> w \in Waiters
      BY <1>1, <2>1, WaiterIs DEF OnlyFor
    <3> QED BY <3>1
  <2>5. IsRight(t)'
    BY <2>1, <2>2, <2>3, <2>4 DEF IsRight
  <2> QED BY <1>1, <2>1, <2>5, QuietStepOnSameWord DEF Owner
<1>3. CASE CasHit(t, Word(0, rest[t])) /\ Goto(t, "post") /\ UNCHANGED v
  <2> DEFINE h == word.head
  <2>1. /\ pc'[t] = "post" /\ v' = v /\ v[t].head = h
        /\ \A u \in Threads \ {t} : pc'[u] = pc[u]
    BY <1>1, <1>3, GotoIs DEF CasHit
  <2>2. /\ h \in Waiters /\ h # Null
        /\ word'.locked = 0 /\ word'.head = next[h]
    BY <1>1, <1>3, <2>1, WordFields DEF CasHit, IsRight, TypeOK
  <2>3. /\ h \in Threads /\ h # t /\ pc[h] = "asleep" /\ sema[h] = 0
        /\ \A u \in Threads : pc[u] = "post" => v[u].head # h
    BY <1>1, <2>2, WaiterIs
  <2> HIDE DEF h
  <2>4. Waiters' = Waiters \ {h}
    <3>1. \A w : w \in Waiters' <=> w \in Waiters /\ w # h
      BY <1>1, <2>1, <2>3, WaiterIs
    <3> QED BY <3>1
  <2>5. ASSUME NEW u \in Threads, u # t PROVE pc'[u] = pc[u] /\ pc[u] \notin Owner
    BY <1>1, <2>1, <2>5 DEF OwnerIsAlone, Owner
  <2>6. OwnerIsAlone'
    BY <2>1, <2>2, <2>5 DEF OwnerIsAlone, Owner
  <2>7. PostsAreForSleepers'
    BY <1>1, <2>1 DEF Inv, PostsAreForSleepers
  <2>8. UnlockerIsRight'
    BY <2>1, <2>5 DEF UnlockerIsRight, IsRight, Owner
  <2>9. PosterIsAlone'
    <3>1. ASSUME NEW u \in Threads, pc'[u] = "post"
          PROVE  /\ v'[u].head \in Threads
                 /\ pc'[v'[u].head] = "asleep" /\ sema'[v'[u].head] = 0
                 /\ \A w \in Threads :
                        pc'[w] = "post" /\ v'[w].head = v'[u].head => w = u
      <4>1. CASE u = t
        BY <1>1, <2>1, <2>3, <4>1
      <4>2. CASE u # t
        <5>1. pc[u] = "post" /\ v[u].head # h
          BY <2>1, <2>3, <3>1, <4>2
        <5>2. /\ v[u].head \in Threads
              /\ pc[v[u].head] = "asleep" /\ sema[v[u].head] = 0
              /\ \A w \in Threads : pc[w] = "post" /\ v[w].head = v[u].head => w = u
          BY <5>1 DEF Inv, PosterIsAlone
        <5>3. v[u].head # t
          BY <1>1, <5>2
        <5> QED BY <1>1, <2>1, <5>1, <5>2, <5>3
      <4> QED BY <4>1, <4>2
    <3> QED BY <3>1 DEF PosterIsAlone
  <2>10. StackIsKept'
    BY <1>1, <2>2, <2>4, StackPopped DEF Inv, h
  <2>11. NoLostWakeup'
    BY <2>1 DEF NoLostWakeup
  <2> QED BY <2>6, <2>7, <2>8, <2>9, <2>10, <2>11 DEF Inv
<1> QED BY <1>2, <1>3 DEF Pop

(* A post: its sleeper may return now.                                     *)
LEMMA PostKeeps == ASSUME Inv, NEW t \in Threads, Post(t), TypeOK' PROVE Inv'
<1> DEFINE h == v[t].head
<1>1. /\ pc[t] = "post" /\ word' = word /\ next' = next /\ TypeOK
      /\ pc'[t] = "idle"
      /\ \A u \in Threads \ {t} :
             pc'[u] = pc[u] /\ v'[u] = v[u] /\ rest'[u] = rest[u]
  BY DEF Post, Return, Goto, Inv, TypeOK
<1>2. /\ h \in Threads /\ pc[h] = "asleep" /\ sema[h] = 0
      /\ \A u \in Threads : pc[u] = "post" /\ v[u].head = h => u = t
  BY <1>1 DEF Inv, PosterIsAlone
<1>3. /\ sema'[h] = 1 /\ h # t /\ pc'[h] = "asleep"
      /\ \A u \in Threads \ {h} : sema'[u] = sema[u]
  BY <1>1, <1>2 DEF Post, TypeOK
<1> HIDE DEF h
<1>4. Waiters' = Waiters
  <2>1. h \notin Waiters /\ h \notin Waiters'
    BY <1>1, <1>3, WaiterIs DEF h
  <2>2. ASSUME NEW w, w # h PROVE w \in Waiters' <=> w \in Waiters
    <3>1. \A u \in Threads : pc[u] = "post" /\ u # t => v'[u] = v[u] /\ pc'[u] = "post"
      BY <1>1
    <3>2. \A u \in Threads : pc'[u] = "post" => u # t /\ v'[u] = v[u] /\ pc[u] = "post"
      BY <1>1
    <3>3. v[t].head # w
      BY <2>2 DEF h
    <3>4. w \in Threads => sema'[w] = sema[w] /\ (pc'[w] = "asleep" <=> pc[w] = "asleep")
      BY <1>1, <1>3, <2>2
    <3> QED BY <3>1, <3>2, <3>3, <3>4, WaiterIs
  <2> QED BY <2>1, <2>2
<1>5. OwnerIsAlone'
  BY <1>1 DEF Inv, OwnerIsAlone, Owner
<1>6. PostsAreForSleepers'
  BY <1>1, <1>3 DEF Inv, PostsAreForSleepers
<1>7. UnlockerIsRight'
  BY <1>1, <1>4 DEF Inv, UnlockerIsRight, IsRight
<1>8. PosterIsAlone'
  <2>1. ASSUME NEW u \in Threads, pc'[u] = "post"
        PROVE  /\ v'[u].head \in Threads
               /\ pc'[v'[u].head] = "asleep" /\ sema'[v'[u].head] = 0
               /\ \A w \in Threads :
                      pc'[w] = "post" /\ v'[w].head = v'[u].head => w = u
    <3>1. u # t /\ pc[u] = "post" /\ v'[u] = v[u]
      BY <1>1, <2>1
    <3>2. v[u].head # h
      BY <1>2, <3>1
    <3>3. /\ v[u].head \in Threads
          /\ pc[v[u].head] = "asleep" /\ sema[v[u].head] = 0
          /\ \A w \in Threads : pc[w] = "post" /\ v[w].head = v[u].head => w = u
      BY <3>1 DEF Inv, PosterIsAlone
    <3>4. v[u].head # t
      BY <1>1, <3>3
    <3>5. ASSUME NEW w \in Threads, pc'[w] = "post", v'[w].head = v[u].head PROVE w = u
      <4>1. w # t /\ pc[w] = "post" /\ v'[w] = v[w]
        BY <1>1, <3>5
      <4> QED BY <3>3, <3>5, <4>1
    <3> QED BY <1>1, <1>3, <3>1, <3>2, <3>3, <3>4, <3>5
  <2> QED BY <2>1 DEF PosterIsAlone
<1>9. StackIsKept'
  BY <1>1, <1>4, StackUntouched DEF Inv
<1>10. NoLostWakeup'
  BY <1>2, <1>3 DEF NoLostWakeup
<1> QED BY <1>5, <1>6, <1>7, <1>8, <1>9, <1>10 DEF Inv

-----------------------------------------------------------------------------
(* The theorems.                                                           *)
LEMMA InvStep == Inv /\ [Next]_vars => Inv'
<1> SUFFICES ASSUME Inv, [Next]_vars PROVE Inv'
  OBVIOUS
<1>1. TypeOK'
  BY Typing DEF Inv
<1>2. CASE Next
  <2>1. PICK t \in Threads : CallLock(t) \/ LockStep(t) \/ UnlockStep(t)
    BY <1>2 DEF Next
  <2> QED
    BY <1>1, <2>1, CallLockKeeps, FastLockKeeps, SlowLoadKeeps, GrabKeeps, PushKeeps,
       AwakeKeeps, FastUnlockKeeps, UnlockLoadKeeps, ReadNextKeeps, PopKeeps, PostKeeps
       DEF LockStep, UnlockStep
<1>3. CASE UNCHANGED vars
  <2> USE <1>3 DEF vars, Inv
  <2>1. Waiters' = Waiters
    <3>1. \A w : w \in Waiters' <=> w \in Waiters
      BY WaiterIs
    <3> QED BY <3>1
  <2>2. OwnerIsAlone' /\ PostsAreForSleepers' /\ PosterIsAlone'
    BY DEF OwnerIsAlone, PostsAreForSleepers, PosterIsAlone
  <2>3. UnlockerIsRight' /\ NoLostWakeup'
    BY <2>1 DEF UnlockerIsRight, IsRight, NoLostWakeup
  <2>4. StackIsKept'
    BY <2>1, StackUntouched
  <2> QED BY <1>1, <2>2, <2>3, <2>4
<1> QED BY <1>2, <1>3

LEMMA Invariance == Spec => []Inv
  BY InitHolds, InvStep, PTL DEF Spec

(* The stack that an unlocker finds in the word lists the sleepers that    *)
(* nobody has popped, each once, and ends: no push or pop loses one.       *)
THEOREM TheStackIsTrue == Spec => []StackIsWaiters
<1>1. ASSUME Inv PROVE StackIsWaiters
  <2>1. PICK n \in Nat : \E s \in Bijection(1..n, Waiters) : IsStack(s, n)
    BY <1>1 DEF Inv, StackIsKept
  <2>2. Cardinality(Waiters) = n
    BY <2>1, FS_CountingElements DEF ExistsBijection
  <2> QED BY <1>1, <2>1, <2>2 DEF StackIsWaiters, Inv
<1> QED BY <1>1, Invariance, PTL

(* An unlocker past its fast path has a waiter to wake, and the thread     *)
(* whose entry it reads and posts is still inside LockSlow.                *)
THEOREM EntriesAreAlive == Spec => []UnlockerFindsWaiter
<1>1. ASSUME Inv PROVE UnlockerFindsWaiter
  <2>1. ASSUME NEW t \in Threads, pc[t] \in {"uloop", "upop", "post"}
        PROVE  v[t].head # Null /\ pc[v[t].head] \in InLockSlow
    <3>1. CASE pc[t] = "post"
      BY <1>1, <3>1, NullType DEF Inv, PosterIsAlone, InLockSlow
    <3>2. CASE pc[t] \in {"uloop", "upop"}
      BY <1>1, <3>2, WaiterIs, NullType DEF Inv, UnlockerIsRight, IsRight, InLockSlow
    <3> QED BY <2>1, <3>1, <3>2
  <2> QED BY <2>1 DEF UnlockerFindsWaiter
<1> QED BY <1>1, Invariance, PTL

(* No lost wakeup: a free mutex with waiters has a thread on its way.      *)
THEOREM NobodyIsForgotten == Spec => []NoLostWakeup
<1>1. Inv => NoLostWakeup
  BY DEF Inv
<1> QED BY <1>1, Invariance, PTL

-----------------------------------------------------------------------------
(* The refinement of Lock.  Holders and Wanters are its two sets: what a   *)
(* step of t is to Lock depends on where t was and where it goes.          *)
InCall == {"fast"} \cup InLockSlow

Holders == {t \in Threads : pc[t] \in Owner} \X {"m"}
Wanters == {t \in Threads : pc[t] \in InCall} \X {"m"}

AbstractStep == [AbstractLock!LockNext]_AbstractLock!lockVars

LEMMA HoldersAre ==
    /\ \A t \in Threads : <<t, "m">> \in Holders <=> pc[t] \in Owner
    /\ \A t \in Threads : <<t, "m">> \in Wanters <=> pc[t] \in InCall
  BY DEF Holders, Wanters

LEMMA SetsFollow ==
    ASSUME NEW t \in Threads, \A u \in Threads \ {t} : pc'[u] = pc[u]
    PROVE  /\ Holders' = IF pc'[t] \in Owner THEN Holders \cup {<<t, "m">>}
                         ELSE Holders \ {<<t, "m">>}
           /\ Wanters' = IF pc'[t] \in InCall THEN Wanters \cup {<<t, "m">>}
                         ELSE Wanters \ {<<t, "m">>}
  BY DEF Holders, Wanters

LEMMA MappedStep ==
    ASSUME NEW t \in Threads, \A u \in Threads \ {t} : pc'[u] = pc[u],
           \/ /\ pc[t] \notin Owner \cup InCall
              /\ pc'[t] \in InCall
           \/ /\ pc[t] \in InCall /\ pc'[t] \in Owner
              /\ \A u \in Threads : pc[u] \notin Owner
           \/ /\ pc[t] \in Owner
              /\ pc'[t] \notin Owner \cup InCall
           \/ /\ pc'[t] \in Owner <=> pc[t] \in Owner
              /\ pc'[t] \in InCall <=> pc[t] \in InCall
    PROVE  AbstractStep
<1> USE HoldersAre, SetsFollow DEF AbstractLock!lockVars
<1>1. Owner \cap InCall = {}
  BY DEF Owner, InCall, InLockSlow
<1>2. CASE pc[t] \notin Owner \cup InCall /\ pc'[t] \in InCall
  <2>1. /\ <<t, "m">> \notin Holders \cup Wanters
        /\ Wanters' = Wanters \cup {<<t, "m">>} /\ Holders' = Holders
    BY <1>1, <1>2
  <2>2. AbstractLock!Request(t, "m")
    BY <2>1 DEF AbstractLock!Request, Holders, Wanters, InCall
  <2> QED BY <2>2 DEF AbstractStep, AbstractLock!LockNext
<1>3. CASE /\ pc[t] \in InCall /\ pc'[t] \in Owner
           /\ \A u \in Threads : pc[u] \notin Owner
  <2>1. /\ <<t, "m">> \in Wanters
        /\ \A u \in Threads : <<u, "m">> \notin Holders
        /\ Holders' = Holders \cup {<<t, "m">>}
        /\ Wanters' = Wanters \ {<<t, "m">>}
    BY <1>1, <1>3
  <2>2. AbstractLock!Acquire(t, "m")
    BY <2>1 DEF AbstractLock!Acquire, AbstractLock!Free, Holders, Wanters, InCall
  <2> QED BY <2>2 DEF AbstractStep, AbstractLock!LockNext
<1>4. CASE pc[t] \in Owner /\ pc'[t] \notin Owner \cup InCall
  <2>1. /\ <<t, "m">> \in Holders
        /\ Holders' = Holders \ {<<t, "m">>} /\ Wanters' = Wanters
    BY <1>1, <1>4
  <2>2. AbstractLock!Release(t, "m")
    BY <2>1 DEF AbstractLock!Release, Holders, Wanters, InCall
  <2> QED BY <2>2 DEF AbstractStep, AbstractLock!LockNext
<1>5. CASE /\ pc'[t] \in Owner <=> pc[t] \in Owner
           /\ pc'[t] \in InCall <=> pc[t] \in InCall
  <2>1. Holders' = Holders /\ Wanters' = Wanters
    BY <1>5
  <2> QED BY <2>1 DEF AbstractStep, Holders, Wanters, InCall
<1> QED BY <1>2, <1>3, <1>4, <1>5

(* The two steps that take the mutex find it without an owner.             *)
LEMMA StepIsMapped == Inv /\ [Next]_vars => AbstractStep
<1> SUFFICES ASSUME Inv, [Next]_vars PROVE AbstractStep
  OBVIOUS
<1>1. TypeOK /\ OwnerIsAlone
  BY DEF Inv
<1> USE DEF Owner, InCall, InLockSlow
<1>2. ASSUME UNCHANGED pc PROVE AbstractStep
  <2>1. Holders' = Holders /\ Wanters' = Wanters
    BY <1>2 DEF Holders, Wanters
  <2> QED BY <2>1 DEF AbstractStep, Holders, Wanters, AbstractLock!lockVars
<1>3. CASE UNCHANGED vars
  BY <1>2, <1>3 DEF vars
<1>4. ASSUME word.locked = 0 PROVE \A u \in Threads : pc[u] \notin Owner
  BY <1>1, <1>4 DEF OwnerIsAlone
<1>5. CASE Next
  <2>1. PICK t \in Threads : CallLock(t) \/ LockStep(t) \/ UnlockStep(t)
    BY <1>5 DEF Next
  <2>2. \A l : Goto(t, l) =>
            /\ pc'[t] = l
            /\ \A u \in Threads \ {t} : pc'[u] = pc[u]
    BY <1>1, GotoIs
  <2>3. CASE CallLock(t)
    BY <2>2, <2>3, MappedStep DEF CallLock
  <2>4. CASE FastLock(t)
    <3>1. pc[t] = "fast"
      BY <2>4 DEF FastLock
    <3>2. CASE word = Unlocked /\ Goto(t, "held")
      <4>1. \A u \in Threads : pc[u] \notin Owner
        BY <1>4, <3>2, WordFields
      <4> QED BY <2>2, <3>1, <3>2, <4>1, MappedStep
    <3>3. CASE Goto(t, "slow")
      BY <2>2, <3>1, <3>3, MappedStep
    <3> QED BY <2>4, <3>2, <3>3 DEF FastLock
  <2>5. CASE SlowLoad(t)
    BY <2>2, <2>5, MappedStep DEF SlowLoad
  <2>6. CASE Grab(t)
    <3>1. pc[t] = "loop" /\ v[t].locked = 0
      BY <2>6 DEF Grab
    <3>2. CASE CasHit(t, Word(1, v[t].head)) /\ Return(t, "held")
      <4>1. \A u \in Threads : pc[u] \notin Owner
        BY <1>4, <3>1, <3>2 DEF CasHit
      <4> QED BY <2>2, <3>1, <3>2, <4>1, MappedStep DEF Return
    <3> QED BY <1>2, <2>6, <3>2 DEF Grab
  <2>7. CASE Push(t)
    BY <1>2, <2>2, <2>7, MappedStep DEF Push
  <2>8. CASE Awake(t)
    BY <2>2, <2>8, MappedStep DEF Awake
  <2>9. CASE FastUnlock(t)
    BY <2>2, <2>9, MappedStep DEF FastUnlock
  <2>10. CASE UnlockLoad(t)
    BY <2>2, <2>10, MappedStep DEF UnlockLoad
  <2>11. CASE ReadNext(t)
    BY <2>2, <2>11, MappedStep DEF ReadNext
  <2>12. CASE Pop(t)
    BY <2>2, <2>12, MappedStep DEF Pop
  <2>13. CASE Post(t)
    BY <2>2, <2>13, MappedStep DEF Post, Return
  <2> QED BY <2>1, <2>3, <2>4, <2>5, <2>6, <2>7, <2>8, <2>9, <2>10, <2>11, <2>12, <2>13
             DEF LockStep, UnlockStep
<1> QED BY <1>3, <1>5

(* _PyRawMutex implements Lock: it is taken only when nobody has it and by *)
(* a thread in a call for it, and it is never handed over.                 *)
THEOREM LockIsImplemented == Spec => ImplementsLock
<1>1. Init => AbstractLock!LockInit
  BY DEF Init, AbstractLock!LockInit, Owner, InLockSlow
<1>2. Inv /\ [Next]_vars => [AbstractLock!LockNext]_AbstractLock!lockVars
  BY StepIsMapped DEF AbstractStep
<1> QED BY <1>1, <1>2, Invariance, PTL DEF Spec, ImplementsLock, AbstractLock!LockSpec
=============================================================================
