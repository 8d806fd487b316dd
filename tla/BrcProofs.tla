------------------------------- MODULE BrcProofs -------------------------------
(***************************************************************************)
(* The safety properties of Brc, for every finite set of threads.          *)
(*                                                                         *)
(* One reference at a time is queued: flags go from "none" to "merged" and *)
(* pass "queued" once, and the reference whose drop has set it goes from   *)
(* the thread that queues it over the queue to the thread that merges it.  *)
(* The object has one owner in its life.  So whoever merges knows that     *)
(* nobody else counts in the local field, and the sum of the two fields is *)
(* kept by every step.                                                     *)
(***************************************************************************)
EXTENDS Brc, FiniteSetTheorems, TLAPS

(* Where a thread has the queued reference.                                *)
QueuedPCs == {"queue", "lock", "abandoned", "stop", "merge",
              "exchange", "abandonedExchange"}

(* The threads of the table are those that live; the one inside a critical *)
(* section of a bucket serves an owner that has left.                      *)
TableIsKept ==
    \A t \in Threads :
        /\ t \in bound <=> pc[t] # "unbound"
        /\ pc[t] \in {"lock", "abandoned", "abandonedExchange"} =>
              target[t] \in Threads
        /\ pc[t] \in {"abandoned", "abandonedExchange"} => target[t] \notin bound

(* The queued reference is in one place, and only after the flag is set.   *)
OneIsQueued ==
    /\ \A t, u \in Threads :
          pc[t] \in QueuedPCs /\ pc[u] \in QueuedPCs => t = u
    /\ \A t, u \in toMerge : t = u
    /\ \A t \in Threads : pc[t] \in QueuedPCs => toMerge = {}
    /\ flag \in {"none", "weakref"} =>
          toMerge = {} /\ \A t \in Threads : pc[t] \notin QueuedPCs

(* The local field belongs to the owner, and is empty without one.         *)
OwnerCounts ==
    /\ obTid = None => local = 0
    /\ obTid # None => flag # "merged"
    /\ \A t \in Threads :
          /\ pc[t] \in {"incref", "decref"} => obTid = t /\ loaded[t] = local
          /\ pc[t] \in {"zero", "slow"} => obTid = t /\ local = 0
          /\ obTid = t /\ pc[t] \notin {"zero", "slow"} /\ ~dead => local > 0
          /\ pc[t] \in {"flags", "exchange", "abandonedExchange"} => obTid = None
          /\ pc[t] \in {"exchange", "abandonedExchange"} /\ flag = "merged" =>
                loaded[t] = 0

(* The queue and the thread that pushes have the object's only owner.      *)
OwnerIsAsked ==
    \A t \in Threads :
        /\ pc[t] \in {"lock", "abandoned"} => obTid \in {target[t], None}
        /\ t \in toMerge \/ pc[t] = "merge" => obTid \in {t, None}

(* While the owner merges its own field, nobody else does.                 *)
OwnerMergesAlone ==
    \A t \in Threads :
        pc[t] = "flags" =>
            /\ flag # "merged"
            /\ toMerge \subseteq {t}
            /\ \A u \in Threads :
                  /\ pc[u] = "flags" => u = t
                  /\ pc[u] \in {"lock", "abandoned", "abandonedExchange"} =>
                        target[u] = t
                  /\ pc[u] \notin {"merge", "exchange"}

(* Nothing is left to be done to a dead object.                            *)
DeadIsLeft ==
    dead =>
        /\ local = 0 /\ count = 0 /\ flag \in {"none", "merged"}
        /\ refs = 0 /\ toMerge = {}
        /\ \A t \in Threads :
              /\ pc[t] \notin HasReference \cup {"zero", "slow", "flags"}
              /\ pc[t] = "try" => obTid # t

(* The sum of a living object, with the local count that is on its way.    *)
MergePCs == {"exchange", "abandonedExchange"}

SumIsKept ==
    ~dead =>
        /\ \A t \in Threads :
              pc[t] \in MergePCs => local + count + loaded[t] = Existing
        /\ (\A t \in Threads : pc[t] \notin MergePCs) => local + count = Existing

Inv ==
    /\ TypeOK
    /\ QueueWillBeServed
    /\ TableIsKept
    /\ OneIsQueued
    /\ OwnerCounts
    /\ OwnerIsAsked
    /\ OwnerMergesAlone
    /\ DeadIsLeft
    /\ SumIsKept

-----------------------------------------------------------------------------
(* What exists                                                             *)

(* The references that exist are finitely many, and none is left when they *)
(* are none.                                                               *)
LEMMA ReferencesAreCounted ==
    ASSUME TypeOK
    PROVE  /\ IsFiniteSet(InHand)
           /\ Cardinality(InHand) \in Nat /\ Cardinality(toMerge) \in Nat
           /\ Existing \in Nat
           /\ Existing = 0 =>
                 /\ refs = 0 /\ toMerge = {}
                 /\ \A t \in Threads : pc[t] \notin HasReference
           /\ \A t \in Threads : pc[t] \in HasReference => Existing > refs
<1>1. InHand \in SUBSET Threads /\ toMerge \in SUBSET Threads
  BY DEF InHand, TypeOK
<1>2. IsFiniteSet(InHand) /\ IsFiniteSet(toMerge)
  BY <1>1, ThreadsFinite, FS_Subset
<1>3. /\ Cardinality(InHand) \in Nat /\ Cardinality(toMerge) \in Nat
      /\ Cardinality(InHand) = 0 <=> InHand = {}
      /\ Cardinality(toMerge) = 0 <=> toMerge = {}
  BY <1>2, FS_CardinalityType, FS_EmptySet
<1>4. \A t \in Threads : pc[t] \in HasReference <=> t \in InHand
  BY DEF InHand
<1> QED BY <1>2, <1>3, <1>4 DEF Existing, TypeOK

(* A thread that goes to a place takes a reference in hand or lets it go.  *)
Held(label) == IF label \in HasReference THEN 1 ELSE 0

LEMMA HandsOfAStep ==
    ASSUME TypeOK, NEW t \in Threads, NEW label, Goto(t, label)
    PROVE  Cardinality(InHand)' = Cardinality(InHand) + Held(label) - Held(pc[t])
<1>1. InHand' = IF label \in HasReference THEN InHand \cup {t} ELSE InHand \ {t}
  BY DEF TypeOK, Goto, InHand
<1>2. t \in InHand <=> pc[t] \in HasReference
  BY DEF InHand
<1>3. IsFiniteSet(InHand) /\ Cardinality(InHand) \in Nat
  BY ReferencesAreCounted
<1>4. CASE label \in HasReference
  <2>1. Cardinality(InHand)' =
           IF t \in InHand THEN Cardinality(InHand) ELSE Cardinality(InHand) + 1
    BY <1>1, <1>3, <1>4, FS_AddElement
  <2> QED BY <2>1, <1>2, <1>3, <1>4 DEF Held
<1>5. CASE label \notin HasReference
  <2>1. Cardinality(InHand)' =
           IF t \in InHand THEN Cardinality(InHand) - 1 ELSE Cardinality(InHand)
    BY <1>1, <1>3, <1>5, FS_RemoveElement
  <2> QED BY <2>1, <1>2, <1>3, <1>5 DEF Held
<1> QED BY <1>4, <1>5

(* So a step changes the references that exist by what it does to refs, to *)
(* the hand of its thread and to the queue.                                *)
LEMMA ExistingOfAStep ==
    ASSUME TypeOK, NEW t \in Threads, NEW label, Goto(t, label),
           NEW n \in Int, refs' = refs + n, toMerge' = toMerge
    PROVE  Existing' = Existing + n + Held(label) - Held(pc[t])
BY HandsOfAStep, ReferencesAreCounted DEF Existing, TypeOK, Held

(* At the moment of a push or of a pop, the queue holds one reference.     *)
LEMMA ExistingInQueue ==
    ASSUME TypeOK, NEW t \in Threads, NEW label, Goto(t, label), refs' = refs
    PROVE  /\ toMerge = {} /\ (\E u \in Threads : toMerge' = {u}) =>
                 Existing' = Existing + 1 + Held(label) - Held(pc[t])
           /\ toMerge' = {} /\ (\E u \in Threads : toMerge = {u}) =>
                 Existing' = Existing - 1 + Held(label) - Held(pc[t])
<1>1. \A S : (\E u : S = {u}) => Cardinality(S) = 1
  BY FS_Singleton
<1>2. \A S : S = {} => Cardinality(S) = 0
  BY FS_EmptySet
<1>3. Existing = refs + Cardinality(InHand) + Cardinality(toMerge)
  BY DEF Existing
<1>4. Existing' = refs + Cardinality(InHand)' + Cardinality(toMerge')
  BY DEF Existing
<1>5. Cardinality(InHand)' = Cardinality(InHand) + Held(label) - Held(pc[t])
  BY HandsOfAStep
<1>6. Cardinality(InHand) \in Nat /\ refs \in Nat
  BY ReferencesAreCounted DEF TypeOK
<1>7. Held(label) \in Int /\ Held(pc[t]) \in Int
  BY DEF Held
<1>8. ASSUME toMerge = {}, NEW u \in Threads, toMerge' = {u}
      PROVE  Cardinality(toMerge) = 0 /\ Cardinality(toMerge') = 1
  BY <1>1, <1>2, <1>8, Zenon
<1>9. ASSUME toMerge' = {}, NEW u \in Threads, toMerge = {u}
      PROVE  Cardinality(toMerge) = 1 /\ Cardinality(toMerge') = 0
  BY <1>1, <1>2, <1>9, Zenon
<1> QED BY <1>3, <1>4, <1>5, <1>6, <1>7, <1>8, <1>9

(* Without a merge under way, the two fields are the sum.                  *)
LEMMA FieldsAreTheSum ==
    ASSUME Inv, ~dead,
           \/ flag = "merged"
           \/ obTid # None
           \/ \A u \in Threads : pc[u] \notin MergePCs
    PROVE  local + count = Existing
<1>1. CASE \A u \in Threads : pc[u] \notin MergePCs
  BY <1>1 DEF Inv, SumIsKept
<1>2. ASSUME NEW u \in Threads, pc[u] \in MergePCs
      PROVE  local + count = Existing
  <2>1. flag = "merged" /\ loaded[u] = 0
    BY <1>2 DEF Inv, OwnerCounts, MergePCs
  <2>2. local + count + 0 = Existing
    BY <1>2, <2>1 DEF Inv, SumIsKept
  <2> QED BY <2>2 DEF Inv, TypeOK
<1> QED BY <1>1, <1>2

(* A step after which nothing exists leaves no reference anywhere.         *)
LEMMA NothingIsLeft ==
    ASSUME TypeOK', Existing' = 0
    PROVE  /\ refs' = 0 /\ toMerge' = {}
           /\ \A u \in Threads : pc'[u] \notin HasReference
<1>1. InHand' \in SUBSET Threads /\ toMerge' \in SUBSET Threads
  BY DEF InHand, TypeOK
<1>2. IsFiniteSet(InHand') /\ IsFiniteSet(toMerge')
  BY <1>1, ThreadsFinite, FS_Subset
<1>3. /\ Cardinality(InHand') \in Nat /\ Cardinality(toMerge') \in Nat
      /\ Cardinality(InHand') = 0 => InHand' = {}
      /\ Cardinality(toMerge') = 0 => toMerge' = {}
  BY <1>2, FS_CardinalityType, FS_EmptySet
<1>4. refs' + Cardinality(InHand') + Cardinality(toMerge') = 0
  BY DEF Existing
<1>5. refs' \in Nat
  BY DEF TypeOK
<1>6. refs' = 0 /\ Cardinality(InHand') = 0 /\ Cardinality(toMerge') = 0
  BY <1>3, <1>4, <1>5
<1> QED BY <1>3, <1>6 DEF InHand


-----------------------------------------------------------------------------
(* Every step keeps the invariant                                          *)

(* Py_INCREF: the owner takes the reference to the store, another thread   *)
(* counts at once.                                                         *)
LEMMA IncRefKeeps ==
    ASSUME Inv, NEW t \in Threads, IncRef(t)
    PROVE  Inv'
<1>1. Existing' = IF obTid = t THEN Existing ELSE Existing + 1
  <2>1. CASE obTid = t
    <3>1. Goto(t, "incref") /\ refs' = refs + (-1) /\ toMerge' = toMerge
      BY <2>1 DEF Inv, TypeOK, IncRef, queueVars
    <3> QED BY <2>1, <3>1, ExistingOfAStep, ReferencesAreCounted
        DEF Inv, IncRef, Held, HasReference
  <2>2. CASE obTid # t
    <3>1. Goto(t, pc[t]) /\ refs' = refs + 1 /\ toMerge' = toMerge
      BY <2>2 DEF Inv, TypeOK, IncRef, queueVars, Goto
    <3> QED BY <2>2, <3>1, ExistingOfAStep, ReferencesAreCounted
        DEF Inv, IncRef, Held, HasReference
  <2> QED BY <2>1, <2>2
<1> USE NoneType DEF Inv, TypeOK, IncRef, Goto, Load, object, queueVars
<1>2. TypeOK'
  BY DEF PCs, Flags
<1>3. QueueWillBeServed' /\ TableIsKept'
  BY DEF QueueWillBeServed, TableIsKept
<1>4. OneIsQueued' /\ OwnerIsAsked'
  BY DEF OneIsQueued, OwnerIsAsked, QueuedPCs
<1>5. OwnerCounts'
  BY DEF OwnerCounts, DeadIsLeft, HasReference
<1>6. OwnerMergesAlone'
  BY DEF OwnerMergesAlone
<1>7. DeadIsLeft'
  BY DEF DeadIsLeft, HasReference
<1>8. SumIsKept'
  BY <1>1, ReferencesAreCounted
     DEF SumIsKept, MergePCs, DeadIsLeft, HasReference, OwnerCounts
<1> QED BY <1>2, <1>3, <1>4, <1>5, <1>6, <1>7, <1>8

(* The owner's store makes the reference that it has counted.              *)
LEMMA IncRefStoreKeeps ==
    ASSUME Inv, NEW t \in Threads, IncRefStore(t)
    PROVE  Inv'
<1>1. Existing' = Existing + 1
  <2>1. Goto(t, "run") /\ refs' = refs + 2 /\ toMerge' = toMerge
    BY DEF Inv, TypeOK, IncRefStore, queueVars
  <2> QED BY <2>1, ExistingOfAStep, ReferencesAreCounted
      DEF Inv, IncRefStore, Held, HasReference
<1> USE NoneType DEF Inv, TypeOK, IncRefStore, Goto, Load, object, queueVars
<1>2. TypeOK'
  BY DEF PCs, Flags, OwnerCounts
<1>3. QueueWillBeServed' /\ TableIsKept'
  BY DEF QueueWillBeServed, TableIsKept
<1>4. OneIsQueued' /\ OwnerIsAsked'
  BY DEF OneIsQueued, OwnerIsAsked, QueuedPCs
<1>5. OwnerCounts'
  BY DEF OwnerCounts, DeadIsLeft, HasReference
<1>6. OwnerMergesAlone'
  BY DEF OwnerMergesAlone
<1>7. DeadIsLeft'
  BY DEF DeadIsLeft, HasReference
<1>8. SumIsKept'
  BY <1>1, ReferencesAreCounted
     DEF SumIsKept, MergePCs, DeadIsLeft, HasReference, OwnerCounts
<1> QED BY <1>2, <1>3, <1>4, <1>5, <1>6, <1>7, <1>8

(* Py_DECREF of the owner: it takes the reference to the store.            *)
LEMMA DecRefKeeps ==
    ASSUME Inv, NEW t \in Threads, DecRef(t)
    PROVE  Inv'
<1>1. Existing' = Existing
  <2>1. Goto(t, "decref") /\ refs' = refs + (-1) /\ toMerge' = toMerge
    BY DEF Inv, TypeOK, DecRef, queueVars
  <2> QED BY <2>1, ExistingOfAStep, ReferencesAreCounted
      DEF Inv, DecRef, Held, HasReference
<1> USE NoneType DEF Inv, TypeOK, DecRef, Goto, Load, object, queueVars
<1>2. TypeOK'
  BY DEF PCs, Flags
<1>3. QueueWillBeServed' /\ TableIsKept'
  BY DEF QueueWillBeServed, TableIsKept
<1>4. OneIsQueued' /\ OwnerIsAsked'
  BY DEF OneIsQueued, OwnerIsAsked, QueuedPCs
<1>5. OwnerCounts'
  BY DEF OwnerCounts, DeadIsLeft, HasReference
<1>6. OwnerMergesAlone'
  BY DEF OwnerMergesAlone
<1>7. DeadIsLeft'
  BY DEF DeadIsLeft, HasReference
<1>8. SumIsKept'
  BY <1>1, ReferencesAreCounted DEF SumIsKept, MergePCs, DeadIsLeft, HasReference
<1> QED BY <1>2, <1>3, <1>4, <1>5, <1>6, <1>7, <1>8

(* The owner's store; without a local reference left, it goes on to merge. *)
LEMMA DecRefStoreKeeps ==
    ASSUME Inv, NEW t \in Threads, DecRefStore(t)
    PROVE  Inv'
<1>1. Existing' = Existing - 1
  <2>1. PICK label \in {"zero", "run"} : Goto(t, label)
    BY DEF DecRefStore
  <2>2. refs' = refs + 0 /\ toMerge' = toMerge
    BY DEF Inv, TypeOK, DecRefStore, queueVars
  <2> QED BY <2>1, <2>2, ExistingOfAStep, ReferencesAreCounted
      DEF Inv, DecRefStore, Held, HasReference
<1> USE NoneType DEF Inv, TypeOK, DecRefStore, Goto, Load, object, queueVars
<1>2. TypeOK'
  BY DEF PCs, Flags, OwnerCounts, DeadIsLeft, HasReference
<1>3. QueueWillBeServed' /\ TableIsKept'
  BY DEF QueueWillBeServed, TableIsKept
<1>4. OneIsQueued' /\ OwnerIsAsked'
  BY DEF OneIsQueued, OwnerIsAsked, QueuedPCs
<1>5. OwnerCounts'
  BY DEF OwnerCounts, DeadIsLeft, HasReference
<1>6. OwnerMergesAlone'
  BY DEF OwnerMergesAlone
<1>7. DeadIsLeft'
  BY DEF DeadIsLeft, HasReference
<1>8. SumIsKept'
  BY <1>1, ReferencesAreCounted
     DEF SumIsKept, MergePCs, DeadIsLeft, HasReference, OwnerCounts
<1> QED BY <1>2, <1>3, <1>4, <1>5, <1>6, <1>7, <1>8

(* Py_DECREF of another thread, and of a thread that has not found an owner *)
(* to ask.                                                                 *)
LEMMA DecRefSharedKeeps ==
    ASSUME Inv, NEW t \in Threads, DecRefShared(t) \/ DecRefAgain(t)
    PROVE  Inv'
<1>1. Existing' = IF count = 0 /\ flag \in {"none", "weakref"}
                   THEN Existing ELSE Existing - 1
  <2>1. PICK label : /\ Goto(t, label)
                     /\ label = IF count = 0 /\ flag \in {"none", "weakref"}
                                THEN "queue" ELSE "run"
    BY DEF DecRefShared, DecRefAgain, DecRefExchange
  <2>2. toMerge' = toMerge
    BY DEF DecRefShared, DecRefAgain, DecRefExchange, queueVars
  <2>3. Held(label) = IF label = "queue" THEN 1 ELSE 0
    BY <2>1 DEF Held, HasReference
  <2>4. CASE DecRefShared(t)
    <3>1. refs' = refs + (-1) /\ Held(pc[t]) = 0
      BY <2>4 DEF Inv, TypeOK, DecRefShared, Held, HasReference
    <3> QED BY <2>1, <2>2, <2>3, <3>1, ExistingOfAStep, ReferencesAreCounted DEF Inv
  <2>5. CASE DecRefAgain(t)
    <3>1. refs' = refs + 0 /\ Held(pc[t]) = 1
      BY <2>5 DEF Inv, TypeOK, DecRefAgain, Held, HasReference
    <3> QED BY <2>1, <2>2, <2>3, <3>1, ExistingOfAStep, ReferencesAreCounted DEF Inv
  <2> QED BY <2>4, <2>5
<1>2. ASSUME dead', ~dead
      PROVE  flag = "merged" /\ obTid = None /\ local = 0 /\ count' = 0 /\ Existing' = 0
  <2>1. flag = "merged" /\ count = 1
    BY <1>2 DEF DecRefShared, DecRefAgain, DecRefExchange
  <2>2. count' = 0
    BY <2>1 DEF DecRefShared, DecRefAgain, DecRefExchange
  <2>3. Existing' = Existing - 1
    BY <1>1, <2>1
  <2>4. obTid = None /\ local = 0
    BY <2>1 DEF Inv, OwnerCounts
  <2>5. local + count = Existing
    BY <1>2, <2>1, FieldsAreTheSum
  <2> QED BY <2>1, <2>2, <2>3, <2>4, <2>5
<1> USE NoneType DEF Inv, TypeOK, DecRefShared, DecRefAgain, DecRefExchange,
                     Goto, Load, object, queueVars
<1>3. TypeOK'
  <2>1. dead' \in BOOLEAN
    OBVIOUS
  <2> QED BY <2>1 DEF PCs, Flags
<1>4. QueueWillBeServed' /\ TableIsKept'
  BY DEF QueueWillBeServed, TableIsKept
<1>5. OneIsQueued' /\ OwnerIsAsked'
  BY DEF OneIsQueued, OwnerIsAsked, QueuedPCs
<1>6. OwnerCounts'
  BY DEF OwnerCounts, DeadIsLeft, HasReference
<1>7. OwnerMergesAlone'
  BY DEF OwnerMergesAlone
<1>8. DeadIsLeft'
  <2>1. ASSUME dead', ~dead
        PROVE  /\ refs' = 0 /\ toMerge' = {}
               /\ \A u \in Threads : pc'[u] \notin HasReference
    BY <1>2, <1>3, <2>1, NothingIsLeft
  <2>2. ASSUME dead', ~dead
        PROVE  \A u \in Threads : pc'[u] \notin {"zero", "slow", "flags"}
    BY <1>2, <2>2 DEF OwnerCounts, OwnerMergesAlone
  <2>3. ~dead
    BY DEF DeadIsLeft, HasReference
  <2> QED BY <1>2, <2>1, <2>2, <2>3 DEF DeadIsLeft, HasReference
<1>9. SumIsKept'
  BY <1>1, ReferencesAreCounted DEF SumIsKept, MergePCs, DeadIsLeft, HasReference
<1> QED BY <1>3, <1>4, <1>5, <1>6, <1>7, <1>8, <1>9

(* The fast path of the owner's merge finds no reference at all and no flag. *)
LEMMA MergeZeroLocalKeeps ==
    ASSUME Inv, NEW t \in Threads, MergeZeroLocal(t)
    PROVE  Inv'
<1>1. Existing' = Existing
  <2>1. PICK label \in {"run", "slow"} : Goto(t, label)
    BY DEF MergeZeroLocal
  <2>2. refs' = refs + 0 /\ toMerge' = toMerge
    BY DEF Inv, TypeOK, MergeZeroLocal, queueVars
  <2> QED BY <2>1, <2>2, ExistingOfAStep, ReferencesAreCounted
      DEF Inv, MergeZeroLocal, Held, HasReference
<1>2. ASSUME dead', ~dead
      PROVE  flag = "none" /\ obTid = t /\ local = 0 /\ count = 0 /\ Existing' = 0
  <2>1. pc[t] = "zero" /\ flag = "none" /\ count = 0
    BY <1>2 DEF MergeZeroLocal
  <2>2. obTid = t /\ local = 0
    BY <2>1 DEF Inv, OwnerCounts
  <2>3. local + count = Existing
    BY <1>2, <2>2, NoneType, FieldsAreTheSum
  <2> QED BY <1>1, <2>1, <2>2, <2>3
<1> USE NoneType DEF Inv, TypeOK, MergeZeroLocal, Goto, Load, object, queueVars
<1>3. TypeOK'
  BY DEF PCs, Flags
<1>4. QueueWillBeServed' /\ TableIsKept'
  BY DEF QueueWillBeServed, TableIsKept
<1>5. OneIsQueued' /\ OwnerIsAsked'
  BY DEF OneIsQueued, OwnerIsAsked, QueuedPCs
<1>6. OwnerCounts'
  BY DEF OwnerCounts, DeadIsLeft, HasReference
<1>7. OwnerMergesAlone'
  BY DEF OwnerMergesAlone
<1>8. DeadIsLeft'
  <2>1. ASSUME dead', ~dead
        PROVE  /\ refs' = 0 /\ toMerge' = {}
               /\ \A u \in Threads : pc'[u] \notin HasReference
    BY <1>2, <1>3, <2>1, NothingIsLeft
  <2>2. ASSUME dead', ~dead
        PROVE  \A u \in Threads : pc'[u] \notin {"zero", "slow", "flags"}
    BY <1>2, <2>2 DEF OwnerCounts
  <2>3. ~dead
    BY DEF DeadIsLeft, HasReference
  <2> QED BY <1>2, <2>1, <2>2, <2>3 DEF DeadIsLeft, HasReference
<1>9. SumIsKept'
  BY <1>1, ReferencesAreCounted DEF SumIsKept, MergePCs, DeadIsLeft, HasReference
<1> QED BY <1>3, <1>4, <1>5, <1>6, <1>7, <1>8, <1>9

(* The slow path of the owner's merge gives up the object, then exchanges. *)
LEMMA MergeZeroSlowKeeps ==
    ASSUME Inv, NEW t \in Threads, MergeZeroSlow(t)
    PROVE  Inv'
<1>1. Existing' = Existing
  <2>1. PICK label \in {"run", "flags"} : Goto(t, label)
    BY DEF MergeZeroSlow
  <2>2. refs' = refs + 0 /\ toMerge' = toMerge
    BY DEF Inv, TypeOK, MergeZeroSlow, queueVars
  <2> QED BY <2>1, <2>2, ExistingOfAStep, ReferencesAreCounted
      DEF Inv, MergeZeroSlow, Held, HasReference
<1>2. ASSUME dead', ~dead
      PROVE  obTid = None /\ local = 0 /\ count' = 0 /\ pc[t] = "flags" /\ Existing' = 0
  <2>1. pc[t] = "flags" /\ count = 0 /\ count' = 0
    BY <1>2 DEF MergeZeroSlow, MergedWith
  <2>2. obTid = None /\ local = 0
    BY <2>1 DEF Inv, OwnerCounts
  <2>3. \A u \in Threads : pc[u] \notin MergePCs
    BY <2>1 DEF Inv, OwnerMergesAlone, TableIsKept, MergePCs
  <2>4. local + count = Existing
    BY <1>2, <2>3, FieldsAreTheSum
  <2> QED BY <1>1, <2>1, <2>2, <2>4
<1> USE NoneType DEF Inv, TypeOK, MergeZeroSlow, MergedWith, Goto, Load,
                     object, queueVars
<1>3. TypeOK'
  BY DEF PCs, Flags
<1>4. QueueWillBeServed' /\ TableIsKept'
  BY DEF QueueWillBeServed, TableIsKept
<1>5. OneIsQueued' /\ OwnerIsAsked'
  BY DEF OneIsQueued, OwnerIsAsked, QueuedPCs
<1>6. OwnerCounts'
  BY DEF OwnerCounts, DeadIsLeft, HasReference, OwnerMergesAlone, TableIsKept
<1>7. OwnerMergesAlone'
  BY DEF OwnerMergesAlone, OwnerCounts, OwnerIsAsked
<1>8. DeadIsLeft'
  <2>1. ASSUME dead', ~dead
        PROVE  /\ refs' = 0 /\ toMerge' = {}
               /\ \A u \in Threads : pc'[u] \notin HasReference
    BY <1>2, <1>3, <2>1, NothingIsLeft
  <2>2. ASSUME dead', ~dead
        PROVE  \A u \in Threads : pc'[u] \notin {"zero", "slow", "flags"}
    BY <1>2, <2>2 DEF OwnerCounts, OwnerMergesAlone
  <2>3. ~dead
    BY DEF DeadIsLeft, HasReference
  <2> QED BY <1>2, <2>1, <2>2, <2>3 DEF DeadIsLeft, HasReference
<1>9. SumIsKept'
  BY <1>1, ReferencesAreCounted DEF SumIsKept, MergePCs, DeadIsLeft, HasReference
<1> QED BY <1>3, <1>4, <1>5, <1>6, <1>7, <1>8, <1>9

(* The flag is set by a holder of a reference.                             *)
LEMMA SetMaybeWeakrefKeeps ==
    ASSUME Inv, NEW t \in Threads, SetMaybeWeakref(t)
    PROVE  Inv'
<1>1. Existing' = Existing
  BY DEF SetMaybeWeakref, Existing, InHand, queueVars
<1> USE NoneType DEF Inv, TypeOK, SetMaybeWeakref, Goto, Load, object, queueVars
<1>2. TypeOK'
  BY DEF PCs, Flags
<1>3. QueueWillBeServed' /\ TableIsKept'
  BY DEF QueueWillBeServed, TableIsKept
<1>4. OneIsQueued' /\ OwnerIsAsked'
  BY DEF OneIsQueued, OwnerIsAsked, QueuedPCs
<1>5. OwnerCounts'
  BY DEF OwnerCounts, DeadIsLeft, HasReference
<1>6. OwnerMergesAlone'
  BY DEF OwnerMergesAlone
<1>7. DeadIsLeft'
  BY DEF DeadIsLeft, HasReference
<1>8. SumIsKept'
  BY <1>1, ReferencesAreCounted DEF SumIsKept, MergePCs, DeadIsLeft, HasReference
<1> QED BY <1>2, <1>3, <1>4, <1>5, <1>6, <1>7, <1>8

(* A pointer is loaded without a reference.                                *)
LEMMA LoadPointerKeeps ==
    ASSUME Inv, NEW t \in Threads, LoadPointer(t)
    PROVE  Inv'
<1>1. Existing' = Existing
  <2>1. Goto(t, "try") /\ refs' = refs + 0 /\ toMerge' = toMerge
    BY DEF Inv, TypeOK, LoadPointer, queueVars
  <2> QED BY <2>1, ExistingOfAStep, ReferencesAreCounted
      DEF Inv, LoadPointer, Held, HasReference
<1> USE NoneType DEF Inv, TypeOK, LoadPointer, Goto, Load, object, queueVars
<1>2. TypeOK'
  BY DEF PCs, Flags
<1>3. QueueWillBeServed' /\ TableIsKept'
  BY DEF QueueWillBeServed, TableIsKept
<1>4. OneIsQueued' /\ OwnerIsAsked'
  BY DEF OneIsQueued, OwnerIsAsked, QueuedPCs
<1>5. OwnerCounts'
  BY DEF OwnerCounts, DeadIsLeft, HasReference
<1>6. OwnerMergesAlone'
  BY DEF OwnerMergesAlone
<1>7. DeadIsLeft'
  BY DEF DeadIsLeft, HasReference
<1>8. SumIsKept'
  BY <1>1, ReferencesAreCounted DEF SumIsKept, MergePCs, DeadIsLeft, HasReference
<1> QED BY <1>2, <1>3, <1>4, <1>5, <1>6, <1>7, <1>8

(* _Py_TryIncref makes a reference or fails; the owner makes a local one.  *)
LEMMA TryIncrefKeeps ==
    ASSUME Inv, NEW t \in Threads, TryIncref(t)
    PROVE  Inv'
<1>1. \/ refs' = refs /\ Existing' = Existing
      \/ refs' = refs + 1 /\ Existing' = Existing + 1
  <2>1. Goto(t, "run") /\ toMerge' = toMerge
    BY DEF TryIncref, queueVars
  <2>2. Held("run") = 0 /\ Held(pc[t]) = 0
    BY DEF TryIncref, Held, HasReference
  <2>3. CASE refs' = refs
    <3>1. refs' = refs + 0
      BY <2>3 DEF Inv, TypeOK
    <3> QED BY <2>1, <2>2, <2>3, <3>1, ExistingOfAStep, ReferencesAreCounted DEF Inv
  <2>4. CASE refs' = refs + 1
    BY <2>1, <2>2, <2>4, ExistingOfAStep, ReferencesAreCounted DEF Inv
  <2> QED BY <2>3, <2>4 DEF TryIncref
<1> USE NoneType DEF Inv, TypeOK, TryIncref, Goto, Load, object, queueVars
<1>2. TypeOK'
  BY DEF PCs, Flags
<1>3. QueueWillBeServed' /\ TableIsKept'
  BY DEF QueueWillBeServed, TableIsKept
<1>4. OneIsQueued' /\ OwnerIsAsked'
  BY DEF OneIsQueued, OwnerIsAsked, QueuedPCs
<1>5. OwnerCounts'
  BY DEF OwnerCounts, DeadIsLeft, HasReference
<1>6. OwnerMergesAlone'
  BY DEF OwnerMergesAlone
<1>7. DeadIsLeft'
  BY DEF DeadIsLeft, HasReference
<1>8. SumIsKept'
  BY <1>1, ReferencesAreCounted
     DEF SumIsKept, MergePCs, DeadIsLeft, HasReference, OwnerCounts
<1> QED BY <1>2, <1>3, <1>4, <1>5, <1>6, <1>7, <1>8

(* The thread that has set the flag looks for the owner.                   *)
LEMMA QueueKeeps ==
    ASSUME Inv, NEW t \in Threads, Queue(t)
    PROVE  Inv'
<1>1. Existing' = Existing
  <2>1. PICK label \in {"again", "lock"} : Goto(t, label)
    BY DEF Queue
  <2>2. refs' = refs + 0 /\ toMerge' = toMerge
    BY DEF Inv, TypeOK, Queue, queueVars
  <2> QED BY <2>1, <2>2, ExistingOfAStep, ReferencesAreCounted
      DEF Inv, Queue, Held, HasReference
<1> USE NoneType DEF Inv, TypeOK, Queue, Goto, Load, object, queueVars
<1>2. TypeOK'
  BY DEF PCs, Flags
<1>3. QueueWillBeServed' /\ TableIsKept'
  BY DEF QueueWillBeServed, TableIsKept
<1>4. OneIsQueued' /\ OwnerIsAsked'
  BY DEF OneIsQueued, OwnerIsAsked, QueuedPCs
<1>5. OwnerCounts'
  BY DEF OwnerCounts, DeadIsLeft, HasReference
<1>6. OwnerMergesAlone'
  BY DEF OwnerMergesAlone, OwnerCounts
<1>7. DeadIsLeft'
  BY DEF DeadIsLeft, HasReference
<1>8. SumIsKept'
  BY <1>1, ReferencesAreCounted DEF SumIsKept, MergePCs, DeadIsLeft, HasReference
<1> QED BY <1>2, <1>3, <1>4, <1>5, <1>6, <1>7, <1>8

(* Under the mutex of the bucket, the reference comes to the owner's queue, *)
(* or stays with the thread.                                               *)
LEMMA LockBucketKeeps ==
    ASSUME Inv, NEW t \in Threads, LockBucket(t)
    PROVE  Inv'
<1>1. Existing' = Existing
  <2>1. toMerge = {}
    BY DEF Inv, LockBucket, OneIsQueued, QueuedPCs
  <2>2. refs' = refs + 0 /\ refs' = refs
    BY DEF Inv, TypeOK, LockBucket
  <2>3. CASE Goto(t, "run") /\ Push(t)
    <3>1. toMerge' = {target[t]} /\ target[t] \in Threads
      BY <2>1, <2>3 DEF Push, Inv, TableIsKept, LockBucket
    <3> QED BY <2>1, <2>2, <2>3, <3>1, ExistingInQueue, ReferencesAreCounted
        DEF Inv, LockBucket, Held, HasReference
  <2>4. CASE toMerge' = toMerge /\ \E label \in {"stop", "abandoned"} : Goto(t, label)
    BY <2>2, <2>4, ExistingOfAStep, ReferencesAreCounted
       DEF Inv, LockBucket, Held, HasReference
  <2> QED BY <2>3, <2>4 DEF LockBucket, queueVars
<1> USE NoneType DEF Inv, TypeOK, LockBucket, Push, Goto, Load, object,
                     queueVars
<1>2. TypeOK'
  BY DEF PCs, Flags
<1>3. QueueWillBeServed' /\ TableIsKept'
  BY DEF QueueWillBeServed, TableIsKept
<1>4. OneIsQueued' /\ OwnerIsAsked'
  BY DEF OneIsQueued, OwnerIsAsked, QueuedPCs, TableIsKept
<1>5. OwnerCounts'
  BY DEF OwnerCounts, DeadIsLeft, HasReference
<1>6. OwnerMergesAlone'
  BY DEF OwnerMergesAlone, TableIsKept
<1>7. DeadIsLeft'
  BY DEF DeadIsLeft, HasReference
<1>8. SumIsKept'
  BY <1>1, ReferencesAreCounted DEF SumIsKept, MergePCs, DeadIsLeft, HasReference
<1> QED BY <1>2, <1>3, <1>4, <1>5, <1>6, <1>7, <1>8

(* Without memory for the queue the world is stopped: nobody is in a store, *)
(* a merge or an exchange.                                                 *)
LEMMA StopAndMergeKeeps ==
    ASSUME Inv, NEW t \in Threads, StopAndMerge(t)
    PROVE  Inv'
<1>1. Existing' = Existing - 1
  <2>1. Goto(t, "run") /\ refs' = refs + 0 /\ toMerge' = toMerge
    BY DEF Inv, TypeOK, StopAndMerge, queueVars
  <2> QED BY <2>1, ExistingOfAStep, ReferencesAreCounted
      DEF Inv, StopAndMerge, Held, HasReference
<1>2. ASSUME dead', ~dead
      PROVE  Existing' = 0
  <2>1. local + count - 1 = 0
    BY <1>2 DEF StopAndMerge, MergedWith
  <2>2. \A u \in Threads : pc[u] \notin MergePCs
    BY DEF StopAndMerge, Stopped, MergePCs
  <2>3. local + count = Existing
    BY <1>2, <2>2, FieldsAreTheSum
  <2> QED BY <1>1, <2>1, <2>3 DEF Inv, TypeOK
<1> USE NoneType DEF Inv, TypeOK, StopAndMerge, MergedWith, Stopped, Goto,
                     Load, object, queueVars
<1>3. TypeOK'
  BY DEF PCs, Flags
<1>4. QueueWillBeServed' /\ TableIsKept'
  BY DEF QueueWillBeServed, TableIsKept
<1>5. OneIsQueued' /\ OwnerIsAsked'
  BY DEF OneIsQueued, OwnerIsAsked, QueuedPCs
<1>6. OwnerCounts'
  BY DEF OwnerCounts, DeadIsLeft, HasReference
<1>7. OwnerMergesAlone'
  BY DEF OwnerMergesAlone
<1>8. DeadIsLeft'
  <2>1. ASSUME dead', ~dead
        PROVE  /\ refs' = 0 /\ toMerge' = {}
               /\ \A u \in Threads : pc'[u] \notin HasReference
    BY <1>2, <1>3, <2>1, NothingIsLeft
  <2>2. ASSUME dead', ~dead
        PROVE  \A u \in Threads : pc'[u] \notin {"zero", "slow", "flags"}
    BY <1>2, <2>2 DEF OwnerCounts
  <2>3. ~dead
    BY DEF DeadIsLeft, HasReference
  <2> QED BY <1>2, <2>1, <2>2, <2>3 DEF DeadIsLeft, HasReference
<1>9. SumIsKept'
  BY <1>1, ReferencesAreCounted DEF SumIsKept, MergePCs, DeadIsLeft, HasReference
<1> QED BY <1>3, <1>4, <1>5, <1>6, <1>7, <1>8, <1>9

(* The local count is taken out, by the owner or for an owner that is gone. *)
LEMMA MergeLocalKeeps ==
    ASSUME Inv, NEW t \in Threads, MergeLocal(t)
    PROVE  Inv'
<1>1. Existing' = Existing
  <2>1. PICK label \in {"exchange", "abandonedExchange"} : Goto(t, label)
    BY DEF MergeLocal
  <2>2. refs' = refs + 0 /\ toMerge' = toMerge
    BY DEF Inv, TypeOK, MergeLocal, queueVars
  <2> QED BY <2>1, <2>2, ExistingOfAStep, ReferencesAreCounted
      DEF Inv, MergeLocal, Held, HasReference
<1> USE NoneType DEF Inv, TypeOK, MergeLocal, Goto, Load, object, queueVars
<1>2. TypeOK'
  BY DEF PCs, Flags
<1>3. QueueWillBeServed' /\ TableIsKept'
  BY DEF QueueWillBeServed, TableIsKept
<1>4. OneIsQueued' /\ OwnerIsAsked'
  BY DEF OneIsQueued, OwnerIsAsked, QueuedPCs
<1>5. OwnerCounts'
  BY DEF OwnerCounts, OneIsQueued, QueuedPCs, OwnerIsAsked, TableIsKept, DeadIsLeft, HasReference
<1>6. OwnerMergesAlone'
  BY DEF OwnerMergesAlone
<1>7. DeadIsLeft'
  BY DEF DeadIsLeft, HasReference
<1>8. SumIsKept'
  <2>1. \A u \in Threads \ {t} : pc[u] \notin MergePCs
    BY DEF OneIsQueued, QueuedPCs, MergePCs
  <2>2. ~dead /\ local + count = Existing
    BY <2>1, FieldsAreTheSum DEF DeadIsLeft, HasReference, MergePCs
  <2> QED BY <1>1, <2>1, <2>2 DEF SumIsKept, MergePCs
<1> QED BY <1>2, <1>3, <1>4, <1>5, <1>6, <1>7, <1>8

(* ... and put into the shared one, without the reference that was queued. *)
LEMMA MergeExchangeKeeps ==
    ASSUME Inv, NEW t \in Threads, MergeExchange(t)
    PROVE  Inv'
<1>1. Existing' = Existing - 1
  <2>1. PICK label \in {"exit", "run"} : Goto(t, label)
    BY DEF MergeExchange, Return
  <2>2. refs' = refs + 0 /\ toMerge' = toMerge
    BY DEF Inv, TypeOK, MergeExchange, queueVars
  <2> QED BY <2>1, <2>2, ExistingOfAStep, ReferencesAreCounted
      DEF Inv, MergeExchange, Held, HasReference
<1>2. ASSUME dead', ~dead
      PROVE  obTid = None /\ local = 0 /\ Existing' = 0
  <2>1. count + loaded[t] - 1 = 0 /\ pc[t] \in MergePCs
    BY <1>2 DEF MergeExchange, MergedWith, MergePCs
  <2>2. obTid = None /\ local = 0
    BY <2>1 DEF Inv, OwnerCounts, MergePCs
  <2>3. local + count + loaded[t] = Existing
    BY <1>2, <2>1 DEF Inv, SumIsKept
  <2> QED BY <1>1, <2>1, <2>2, <2>3 DEF Inv, TypeOK
<1> USE NoneType DEF Inv, TypeOK, MergeExchange, MergedWith, Return, Goto,
                     Load, object, queueVars
<1>3. TypeOK'
  BY DEF PCs, Flags
<1>4. QueueWillBeServed' /\ TableIsKept'
  BY DEF QueueWillBeServed, TableIsKept
<1>5. OneIsQueued' /\ OwnerIsAsked'
  BY DEF OneIsQueued, OwnerIsAsked, QueuedPCs
<1>6. OwnerCounts'
  BY DEF OwnerCounts, OneIsQueued, QueuedPCs, DeadIsLeft, HasReference
<1>7. OwnerMergesAlone'
  BY DEF OwnerMergesAlone, TableIsKept
<1>8. DeadIsLeft'
  <2>1. ASSUME dead', ~dead
        PROVE  /\ refs' = 0 /\ toMerge' = {}
               /\ \A u \in Threads : pc'[u] \notin HasReference
    BY <1>2, <1>3, <2>1, NothingIsLeft
  <2>2. ASSUME dead', ~dead
        PROVE  \A u \in Threads : pc'[u] \notin {"zero", "slow", "flags"}
    BY <1>2, <2>2 DEF OwnerCounts, OwnerMergesAlone, TableIsKept
  <2>3. ~dead
    BY DEF DeadIsLeft, HasReference
  <2> QED BY <1>2, <2>1, <2>2, <2>3 DEF DeadIsLeft, HasReference
<1>9. SumIsKept'
  <2>1. \A u \in Threads \ {t} : pc[u] \notin MergePCs
    BY DEF OneIsQueued, QueuedPCs, MergePCs
  <2>2. ~dead /\ local + count + loaded[t] = Existing /\ local = 0
    BY DEF DeadIsLeft, HasReference, SumIsKept, MergePCs, OwnerCounts
  <2> QED BY <1>1, <2>1, <2>2 DEF SumIsKept, MergePCs
<1> QED BY <1>3, <1>4, <1>5, <1>6, <1>7, <1>8, <1>9

(* The eval loop goes to the queue.                                        *)
LEMMA HandleMergeBitKeeps ==
    ASSUME Inv, NEW t \in Threads, HandleMergeBit(t)
    PROVE  Inv'
<1>1. Existing' = Existing
  <2>1. Goto(t, "move") /\ refs' = refs + 0 /\ toMerge' = toMerge
    BY DEF Inv, TypeOK, HandleMergeBit, queueVars
  <2> QED BY <2>1, ExistingOfAStep, ReferencesAreCounted
      DEF Inv, HandleMergeBit, Held, HasReference
<1> USE NoneType DEF Inv, TypeOK, HandleMergeBit, Goto, Load, object, queueVars
<1>2. TypeOK'
  BY DEF PCs, Flags
<1>3. QueueWillBeServed' /\ TableIsKept'
  BY DEF QueueWillBeServed, TableIsKept
<1>4. OneIsQueued' /\ OwnerIsAsked'
  BY DEF OneIsQueued, OwnerIsAsked, QueuedPCs
<1>5. OwnerCounts'
  BY DEF OwnerCounts, DeadIsLeft, HasReference
<1>6. OwnerMergesAlone'
  BY DEF OwnerMergesAlone
<1>7. DeadIsLeft'
  BY DEF DeadIsLeft, HasReference
<1>8. SumIsKept'
  BY <1>1, ReferencesAreCounted DEF SumIsKept, MergePCs, DeadIsLeft, HasReference
<1> QED BY <1>2, <1>3, <1>4, <1>5, <1>6, <1>7, <1>8

(* The owner takes the queued reference.                                   *)
LEMMA MoveKeeps ==
    ASSUME Inv, NEW t \in Threads, Move(t)
    PROVE  Inv'
<1>1. Existing' = Existing
  <2>1. refs' = refs + 0 /\ refs' = refs
    BY DEF Inv, TypeOK, Move
  <2>2. CASE t \in toMerge
    <3>1. toMerge = {t} /\ toMerge' = {} /\ Goto(t, "merge")
      BY <2>2 DEF Inv, TypeOK, OneIsQueued, Move
    <3> QED BY <2>1, <3>1, ExistingInQueue, ReferencesAreCounted
        DEF Inv, Move, Held, HasReference
  <2>3. CASE t \notin toMerge
    <3>1. toMerge' = toMerge /\ Goto(t, "run")
      BY <2>3 DEF Move
    <3> QED BY <2>1, <3>1, ExistingOfAStep, ReferencesAreCounted
        DEF Inv, Move, Held, HasReference
  <2> QED BY <2>2, <2>3
<1> USE NoneType DEF Inv, TypeOK, Move, Goto, Load, object, queueVars
<1>2. TypeOK'
  BY DEF PCs, Flags
<1>3. QueueWillBeServed' /\ TableIsKept'
  BY DEF QueueWillBeServed, TableIsKept
<1>4. OneIsQueued' /\ OwnerIsAsked'
  BY DEF OneIsQueued, OwnerIsAsked, QueuedPCs
<1>5. OwnerCounts'
  BY DEF OwnerCounts, DeadIsLeft, HasReference
<1>6. OwnerMergesAlone'
  BY DEF OwnerMergesAlone
<1>7. DeadIsLeft'
  BY DEF DeadIsLeft, HasReference
<1>8. SumIsKept'
  BY <1>1, ReferencesAreCounted DEF SumIsKept, MergePCs, DeadIsLeft, HasReference
<1> QED BY <1>2, <1>3, <1>4, <1>5, <1>6, <1>7, <1>8

(* A thread that exits takes it, or leaves the table with an empty queue.  *)
LEMMA RemoveKeeps ==
    ASSUME Inv, NEW t \in Threads, Remove(t)
    PROVE  Inv'
<1>1. Existing' = Existing
  <2>1. refs' = refs + 0 /\ refs' = refs
    BY DEF Inv, TypeOK, Remove
  <2>2. CASE t \in toMerge
    <3>1. toMerge = {t} /\ toMerge' = {} /\ Goto(t, "merge")
      BY <2>2 DEF Inv, TypeOK, OneIsQueued, Remove
    <3> QED BY <2>1, <3>1, ExistingInQueue, ReferencesAreCounted
        DEF Inv, Remove, Held, HasReference
  <2>3. CASE t \notin toMerge
    <3>1. toMerge' = toMerge /\ Goto(t, "unbound")
      BY <2>3 DEF Remove
    <3> QED BY <2>1, <3>1, ExistingOfAStep, ReferencesAreCounted
        DEF Inv, Remove, Held, HasReference
  <2> QED BY <2>2, <2>3
<1> USE NoneType DEF Inv, TypeOK, Remove, Goto, Load, object, queueVars
<1>2. TypeOK'
  BY DEF PCs, Flags
<1>3. QueueWillBeServed' /\ TableIsKept'
  BY DEF QueueWillBeServed, TableIsKept
<1>4. OneIsQueued' /\ OwnerIsAsked'
  BY DEF OneIsQueued, OwnerIsAsked, QueuedPCs
<1>5. OwnerCounts'
  BY DEF OwnerCounts, DeadIsLeft, HasReference
<1>6. OwnerMergesAlone'
  BY DEF OwnerMergesAlone
<1>7. DeadIsLeft'
  BY DEF DeadIsLeft, HasReference
<1>8. SumIsKept'
  BY <1>1, ReferencesAreCounted DEF SumIsKept, MergePCs, DeadIsLeft, HasReference
<1> QED BY <1>2, <1>3, <1>4, <1>5, <1>6, <1>7, <1>8

(* A thread begins to exit.                                                *)
LEMMA ExitKeeps ==
    ASSUME Inv, NEW t \in Threads, Exit(t)
    PROVE  Inv'
<1>1. Existing' = Existing
  <2>1. Goto(t, "exit") /\ refs' = refs + 0 /\ toMerge' = toMerge
    BY DEF Inv, TypeOK, Exit, queueVars
  <2> QED BY <2>1, ExistingOfAStep, ReferencesAreCounted
      DEF Inv, Exit, Held, HasReference
<1> USE NoneType DEF Inv, TypeOK, Exit, Goto, Load, object, queueVars
<1>2. TypeOK'
  BY DEF PCs, Flags
<1>3. QueueWillBeServed' /\ TableIsKept'
  BY DEF QueueWillBeServed, TableIsKept
<1>4. OneIsQueued' /\ OwnerIsAsked'
  BY DEF OneIsQueued, OwnerIsAsked, QueuedPCs
<1>5. OwnerCounts'
  BY DEF OwnerCounts, DeadIsLeft, HasReference
<1>6. OwnerMergesAlone'
  BY DEF OwnerMergesAlone
<1>7. DeadIsLeft'
  BY DEF DeadIsLeft, HasReference
<1>8. SumIsKept'
  BY <1>1, ReferencesAreCounted DEF SumIsKept, MergePCs, DeadIsLeft, HasReference
<1> QED BY <1>2, <1>3, <1>4, <1>5, <1>6, <1>7, <1>8

(* A thread comes into the table, while nobody serves its id as abandoned. *)
LEMMA BindKeeps ==
    ASSUME Inv, NEW t \in Threads, Bind(t)
    PROVE  Inv'
<1>1. Existing' = Existing
  <2>1. Goto(t, "run") /\ refs' = refs + 0 /\ toMerge' = toMerge
    BY DEF Inv, TypeOK, Bind, queueVars
  <2> QED BY <2>1, ExistingOfAStep, ReferencesAreCounted
      DEF Inv, Bind, Held, HasReference
<1> USE NoneType DEF Inv, TypeOK, Bind, BucketFree, Goto, Load, object,
                     queueVars
<1>2. TypeOK'
  BY DEF PCs, Flags
<1>3. QueueWillBeServed' /\ TableIsKept'
  BY DEF QueueWillBeServed, TableIsKept
<1>4. OneIsQueued' /\ OwnerIsAsked'
  BY DEF OneIsQueued, OwnerIsAsked, QueuedPCs
<1>5. OwnerCounts'
  BY DEF OwnerCounts, DeadIsLeft, HasReference
<1>6. OwnerMergesAlone'
  BY DEF OwnerMergesAlone
<1>7. DeadIsLeft'
  BY DEF DeadIsLeft, HasReference
<1>8. SumIsKept'
  BY <1>1, ReferencesAreCounted DEF SumIsKept, MergePCs, DeadIsLeft, HasReference
<1> QED BY <1>2, <1>3, <1>4, <1>5, <1>6, <1>7, <1>8

(* The collector merges the queued reference with the world stopped, and   *)
(* keeps the last one.                                                     *)
LEMMA CollectQueuedKeeps ==
    ASSUME Inv, NEW t \in Threads, CollectQueued(t)
    PROVE  Inv'
<1>1. Existing' = IF local + count = 1 THEN Existing ELSE Existing - 1
  <2>1. \E u \in Threads : toMerge = {u}
    BY DEF Inv, TypeOK, CollectQueued, OneIsQueued
  <2>2. toMerge' = {} /\ refs' = refs
    BY DEF CollectQueued
  <2>3. CASE local + count = 1
    <3>1. Goto(t, "again")
      BY <2>3 DEF CollectQueued
    <3> QED BY <2>1, <2>2, <2>3, <3>1, ExistingInQueue, ReferencesAreCounted
        DEF Inv, CollectQueued, Held, HasReference
  <2>4. CASE local + count # 1
    <3>1. Goto(t, pc[t])
      BY <2>4 DEF Inv, TypeOK, CollectQueued, Goto
    <3> QED BY <2>1, <2>2, <2>4, <3>1, ExistingInQueue, ReferencesAreCounted
        DEF Inv, CollectQueued, Held, HasReference
  <2> QED BY <2>3, <2>4
<1> USE NoneType DEF Inv, TypeOK, CollectQueued, Stopped, Goto, Load, object,
                     queueVars
<1>2. TypeOK'
  BY DEF PCs, Flags
<1>3. QueueWillBeServed' /\ TableIsKept'
  BY DEF QueueWillBeServed, TableIsKept
<1>4. OneIsQueued' /\ OwnerIsAsked'
  BY DEF OneIsQueued, OwnerIsAsked, QueuedPCs
<1>5. OwnerCounts'
  BY DEF OwnerCounts, DeadIsLeft, HasReference
<1>6. OwnerMergesAlone'
  BY DEF OwnerMergesAlone
<1>7. DeadIsLeft'
  BY DEF DeadIsLeft, HasReference
<1>8. SumIsKept'
  BY <1>1, ReferencesAreCounted DEF SumIsKept, MergePCs, DeadIsLeft, HasReference
<1> QED BY <1>2, <1>3, <1>4, <1>5, <1>6, <1>7, <1>8

-----------------------------------------------------------------------------
(* The theorems                                                            *)

(* The object has one reference, its creator's.                            *)
LEMMA InvInit == Init => Inv
<1> SUFFICES ASSUME Init PROVE Inv
  OBVIOUS
<1>1. TypeOK
  <2>1. pc \in [Threads -> PCs] /\ target \in [Threads -> Threads \cup {None}]
    BY DEF Init, PCs
  <2>2. loaded \in [Threads -> Int]
    BY DEF Init
  <2> QED BY <2>1, <2>2 DEF Init, TypeOK, Flags
<1>2. Existing = 1
  <2>1. InHand = {} /\ toMerge = {}
    BY DEF Init, InHand, HasReference
  <2>2. Cardinality(InHand) = 0 /\ Cardinality(toMerge) = 0
    BY <2>1, FS_EmptySet
  <2> QED BY <2>2 DEF Init, Existing
<1>3. QueueWillBeServed /\ TableIsKept
  BY DEF Init, QueueWillBeServed, TableIsKept
<1>4. OneIsQueued /\ OwnerIsAsked
  BY DEF Init, OneIsQueued, QueuedPCs, OwnerIsAsked
<1>5. OwnerCounts /\ OwnerMergesAlone
  BY NoneType DEF Init, OwnerCounts, OwnerMergesAlone
<1>6. DeadIsLeft
  BY DEF Init, DeadIsLeft
<1>7. SumIsKept
  BY <1>2 DEF Init, SumIsKept, MergePCs
<1> QED BY <1>1, <1>3, <1>4, <1>5, <1>6, <1>7 DEF Inv

(* Every step keeps the invariant.                                         *)
LEMMA InvNext == Inv /\ [Next]_vars => Inv'
<1> SUFFICES ASSUME Inv, [Next]_vars PROVE Inv'
  OBVIOUS
<1>1. CASE UNCHANGED vars
  <2>1. Existing' = Existing
    BY <1>1 DEF vars, queueVars, Existing, InHand
  <2>2. SumIsKept'
    BY <1>1, <2>1 DEF Inv, vars, object, SumIsKept
  <2>3. (TypeOK /\ QueueWillBeServed /\ TableIsKept /\ OneIsQueued)'
    BY <1>1 DEF Inv, vars, object, queueVars, TypeOK, QueueWillBeServed,
                TableIsKept, OneIsQueued
  <2>4. (OwnerCounts /\ OwnerIsAsked /\ OwnerMergesAlone /\ DeadIsLeft)'
    BY <1>1 DEF Inv, vars, object, queueVars, OwnerCounts, OwnerIsAsked,
                OwnerMergesAlone, DeadIsLeft
  <2> QED BY <2>2, <2>3, <2>4 DEF Inv
<1>2. ASSUME NEW t \in Threads,
             \/ IncRef(t) \/ DecRef(t) \/ DecRefShared(t)
             \/ SetMaybeWeakref(t) \/ LoadPointer(t)
             \/ Exit(t) \/ Bind(t) \/ CollectQueued(t) \/ StopAndMerge(t)
      PROVE  Inv'
  BY <1>2, IncRefKeeps, DecRefKeeps, DecRefSharedKeeps, SetMaybeWeakrefKeeps,
     LoadPointerKeeps, ExitKeeps, BindKeeps, CollectQueuedKeeps,
     StopAndMergeKeeps
<1>3. ASSUME NEW t \in Threads, OwnStep(t)
      PROVE  Inv'
  BY <1>3, IncRefStoreKeeps, DecRefStoreKeeps, MergeZeroLocalKeeps,
     MergeZeroSlowKeeps, TryIncrefKeeps, QueueKeeps, LockBucketKeeps,
     DecRefSharedKeeps, MergeLocalKeeps, MergeExchangeKeeps,
     HandleMergeBitKeeps, MoveKeeps, RemoveKeeps
     DEF OwnStep
<1> QED BY <1>1, <1>2, <1>3 DEF Next

LEMMA Invariance == Spec => []Inv
BY InvInit, InvNext, PTL DEF Spec

(* What the run's invariant says of the sum follows: there is at most one  *)
(* merge under way, and the count it has taken out is the one that lacks.  *)
LEMMA SumOfTheFields == Inv => CountsAddUp
<1> SUFFICES ASSUME Inv PROVE CountsAddUp
  OBVIOUS
<1>1. TypeOK
  BY DEF Inv
<1>2. ASSUME dead PROVE Existing = 0
  <2>1. InHand = {} /\ toMerge = {} /\ refs = 0
    BY <1>2 DEF Inv, DeadIsLeft, InHand
  <2>2. Cardinality(InHand) = 0 /\ Cardinality(toMerge) = 0
    BY <2>1, FS_EmptySet
  <2> QED BY <2>1, <2>2 DEF Existing
<1>3. ASSUME ~dead, Merging = {}
      PROVE  Cardinality(Merging) = 0 /\ local + count + 0 = Existing
  <2>1. Cardinality(Merging) = 0
    BY <1>3, FS_EmptySet
  <2>2. \A t \in Threads : pc[t] \notin MergePCs
    BY <1>3 DEF Merging, MergePCs
  <2>3. local + count = Existing
    BY <1>3, <2>2 DEF Inv, SumIsKept
  <2> QED BY <2>1, <2>3, <1>1 DEF TypeOK
<1>4. ASSUME ~dead, Merging # {}
      PROVE  /\ Cardinality(Merging) = 1
             /\ local + count + loaded[CHOOSE t \in Merging : TRUE] = Existing
  <2>1. PICK t \in Threads : pc[t] \in MergePCs
    BY <1>4 DEF Merging, MergePCs
  <2>2. Merging = {t}
    BY <2>1 DEF Inv, OneIsQueued, QueuedPCs, Merging, MergePCs
  <2>3. Cardinality(Merging) = 1
    BY <2>2, FS_Singleton
  <2>4. (CHOOSE u \in Merging : TRUE) = t
    BY <2>2
  <2>5. local + count + loaded[t] = Existing
    BY <1>4, <2>1 DEF Inv, SumIsKept
  <2> QED BY <2>3, <2>4, <2>5
<1>5. ASSUME ~dead
      PROVE  /\ Cardinality(Merging) <= 1
             /\ local + count + (IF Merging = {} THEN 0
                                 ELSE loaded[CHOOSE t \in Merging : TRUE]) = Existing
  <2>1. CASE Merging = {}
    BY <1>3, <1>5, <2>1
  <2>2. CASE Merging # {}
    BY <1>4, <1>5, <2>2
  <2> QED BY <2>1, <2>2
<1> QED BY <1>1, <1>2, <1>5 DEF CountsAddUp

(* The two reference count fields add up to the references that exist, a   *)
(* merge under way included, and the object dies with the last of them.    *)
THEOREM TheSumIsTrue == Spec => []CountsAddUp
BY Invariance, SumOfTheFields, PTL

(* A queued object is in the queue of a thread that will look at it.       *)
THEOREM QueuesAreServed == Spec => []QueueWillBeServed
<1>1. Inv => QueueWillBeServed
  BY DEF Inv
<1> QED BY <1>1, Invariance, PTL

(* No thread has anything to do with a dead object any more but to look at *)
(* its fields for a reference that it does not get.                        *)
LEMMA DeadStep == Inv /\ [Next]_vars => [dead => UNCHANGED <<object, dead>>]_vars
<1> SUFFICES ASSUME Inv, dead, Next
             PROVE  UNCHANGED <<object, dead>>
  OBVIOUS
<1>1. PICK t \in Threads :
         \/ IncRef(t) \/ DecRef(t) \/ DecRefShared(t)
         \/ SetMaybeWeakref(t) \/ LoadPointer(t)
         \/ Exit(t) \/ Bind(t) \/ CollectQueued(t) \/ StopAndMerge(t)
         \/ OwnStep(t)
  BY DEF Next
<1>2. /\ refs = 0 /\ toMerge = {} /\ count = 0 /\ flag \in {"none", "merged"}
      /\ pc[t] \notin HasReference \cup {"zero", "slow", "flags"}
      /\ pc[t] = "try" => obTid # t
  BY DEF Inv, DeadIsLeft
<1>3. CASE \/ LoadPointer(t) \/ Exit(t) \/ Bind(t) \/ HandleMergeBit(t)
           \/ Move(t) \/ Remove(t)
  BY <1>3 DEF LoadPointer, Exit, Bind, HandleMergeBit, Move, Remove
<1>4. CASE TryIncref(t)
  BY <1>2, <1>4 DEF TryIncref, object
<1>5. ~ ( \/ IncRef(t) \/ DecRef(t) \/ DecRefShared(t) \/ SetMaybeWeakref(t)
          \/ CollectQueued(t) )
  BY <1>2 DEF IncRef, DecRef, DecRefShared, SetMaybeWeakref, CollectQueued
<1>6. ~ ( \/ StopAndMerge(t) \/ IncRefStore(t) \/ DecRefStore(t)
          \/ MergeZeroLocal(t) \/ MergeZeroSlow(t) \/ Queue(t) )
  BY <1>2 DEF HasReference, StopAndMerge, IncRefStore, DecRefStore,
              MergeZeroLocal, MergeZeroSlow, Queue
<1>7. ~ (LockBucket(t) \/ DecRefAgain(t) \/ MergeLocal(t) \/ MergeExchange(t))
  BY <1>2 DEF HasReference, LockBucket, DecRefAgain, MergeLocal, MergeExchange
<1> QED BY <1>1, <1>3, <1>4, <1>5, <1>6, <1>7 DEF OwnStep

(* Nothing is written to an object after its deallocation.                 *)
THEOREM DeadStaysUntouched == Spec => DeadIsUntouched
BY DeadStep, Invariance, PTL DEF Spec, DeadIsUntouched
===============================================================================
