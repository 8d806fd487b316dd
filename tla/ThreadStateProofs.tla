--------------------------- MODULE ThreadStateProofs ---------------------------
(***************************************************************************)
(* The safety properties of the two modules that are about thread states,  *)
(* StopTheWorld (for all finite sets of threads and all sets of            *)
(* interpreters) and, in the last part, Gil (for all sets of threads).     *)
(*                                                                         *)
(* StopTheWorld.  The locks see to it that a thread is in the scope of one *)
(* requested pause at most: the requester of a pause has its mutex, and    *)
(* the runtime's pause excludes the others by stoptheworld_mutex.  So a    *)
(* thread that is SUSPENDED is so for one pause, a thread that reports to  *)
(* a pause reports to the one that counts it, and the countdown stays the  *)
(* number of the threads that have not reported.                           *)
(*                                                                         *)
(* Gil.  The properties are inductive together with one more fact: the     *)
(* thread that owes the others a turn is still in drop_gil, before the     *)
(* wait for the switch or in it, and is the last holder.  It can leave     *)
(* only when it owes nothing any more: another has taken the GIL, or its   *)
(* wait has ended spuriously.                                              *)
(***************************************************************************)
EXTENDS StopTheWorld, Gil, FiniteSetTheorems, TLAPS

(* The places of a thread that is attached, ...                            *)
AttachedPCs == {"run", "suspend", "leave", "mutex", "rw", "count", "wait",
                "stopped", "release", "unlock"}

(* ... that has asked for a pause, ...                                     *)
Asks(t) ==
    \/ pc[t] \in {"mutex", "mutexWait", "rw", "rwWait", "count", "wait",
                  "stopped", "release", "unlock"}
    \/ pc[t] = "attach" /\ goal[t] # "run"

(* ... that has the mutex of its pause, ...                                *)
HasMutex(t) ==
    \/ pc[t] \in {"rw", "rwWait", "count", "wait", "stopped", "release", "unlock"}
    \/ pc[t] = "attach" /\ goal[t] = "rw"

(* ... and stoptheworld_mutex.                                             *)
HasRW(t) == pc[t] \in {"count", "wait", "stopped", "release"}

(* The threads that a pause waits for.                                     *)
Unreported(t) == state[t] # "SUSPENDED" \/ pc[t] = "decrement"
Uncounted(s) == {t \in Scope(s) : t # requester[s] /\ Unreported(t)}

StatesFollowPlaces ==
    \A t \in Threads :
        /\ t \notin alive => pc[t] = "away" /\ state[t] = "DETACHED"
        /\ pc[t] \in AttachedPCs <=> state[t] = "ATTACHED"
        /\ pc[t] = "decrement" => state[t] = "SUSPENDED"
        /\ pc[t] # "attach" => goal[t] = "run"

(* A thread asks for a pause, or is suspended by a requested one, whose    *)
(* scope it is in.                                                         *)
PauseIsItsOwn ==
    \A t \in Threads :
        /\ Asks(t) => pause[t] \in {InterpOf[t], Global}
        /\ pc[t] = "leave" => pause[t] \in RequestedFor(t) \cup {None}
        /\ pc[t] = "decrement" => pause[t] \in RequestedFor(t)

LocksAreHeld ==
    /\ writer # None => readers = {}
    /\ \A t \in Threads :
          /\ HasMutex(t) => mutex[pause[t]] = t
          /\ HasRW(t) => IF pause[t] = Global THEN writer = t ELSE t \in readers

(* Every pause in progress is run by its requester.                        *)
RequestersRun ==
    /\ \A s \in requested :
          /\ requester[s] \in Threads
          /\ pause[requester[s]] = s
          /\ pc[requester[s]] \in {"wait", "stopped"}
    /\ \A t \in Threads :
          /\ pc[t] \in {"wait", "stopped"} =>
                pause[t] \in requested /\ requester[pause[t]] = t
          /\ pc[t] = "stopped" => pause[t] \in stopped
    /\ \A s \in stopped : s \in requested /\ pc[requester[s]] = "stopped"

SuspendedByPause ==
    \A t \in Threads : state[t] = "SUSPENDED" => RequestedFor(t) # {}

CountdownCounts ==
    /\ \A s \in requested :
          /\ countdown[s] = Cardinality(Uncounted(s))
          /\ s \in event => countdown[s] = 0
          /\ pc[requester[s]] = "wait" /\ countdown[s] = 0 => s \in event
    /\ \A s \in stopped : countdown[s] = 0

Inv ==
    /\ TypeOK
    /\ StatesFollowPlaces
    /\ PauseIsItsOwn
    /\ LocksAreHeld
    /\ RequestersRun
    /\ SuspendedByPause
    /\ CountdownCounts

-----------------------------------------------------------------------------
(* A thread can ask for the pauses of its interpreter and of the runtime.  *)
LEMMA PausesOfAThread ==
    \A t \in Threads : InterpOf[t] \in Pauses /\ Global \in Pauses
BY InterpOfType DEF Pauses

(* What the invariant says of pauses that overlap                          *)

(* The pause of the runtime is alone, and a thread is in the scope of one  *)
(* requested pause at most.                                                *)
LEMMA PausesAreApart ==
    ASSUME LocksAreHeld, RequestersRun
    PROVE  /\ Global \in requested => requested = {Global}
           /\ \A r, s \in requested, t \in Threads :
                 r \in {InterpOf[t], Global} /\ s \in {InterpOf[t], Global} => r = s
<1>1. \A s \in requested :
         /\ requester[s] \in Threads
         /\ s = Global => writer = requester[s]
         /\ s # Global => requester[s] \in readers
  BY DEF LocksAreHeld, RequestersRun, HasRW
<1>2. ASSUME Global \in requested, NEW s \in requested, s # Global
      PROVE  FALSE
  BY <1>1, <1>2, NoneType, NoneIsNoPause DEF LocksAreHeld
<1> QED BY <1>2

(* The threads that a pause waits for are finitely many, and no more than  *)
(* there are.                                                              *)
LEMMA UncountedIsFinite ==
    ASSUME TypeOK, NEW s
    PROVE  /\ IsFiniteSet(Uncounted(s))
           /\ Cardinality(Uncounted(s)) \in 0..Cardinality(Threads)
           /\ Cardinality(Uncounted(s)) = 0 => Uncounted(s) = {}
<1>1. Uncounted(s) \in SUBSET Threads
  BY DEF Uncounted, Scope, TypeOK
<1>2. IsFiniteSet(Uncounted(s)) /\ Cardinality(Uncounted(s)) <= Cardinality(Threads)
  BY <1>1, ThreadsFinite, FS_Subset
<1>3. Cardinality(Uncounted(s)) \in Nat /\ Cardinality(Threads) \in Nat
  BY <1>2, ThreadsFinite, FS_CardinalityType
<1>4. Cardinality(Uncounted(s)) = 0 => Uncounted(s) = {}
  BY <1>2, FS_EmptySet
<1> QED BY <1>2, <1>3, <1>4

(* A pause whose world is stopped waits for nobody.                        *)
LEMMA StoppedWaitsForNobody ==
    ASSUME Inv, NEW s \in stopped
    PROVE  Uncounted(s) = {}
BY UncountedIsFinite DEF Inv, CountdownCounts, RequestersRun

(* A step of a thread that is no requester, after which the same threads   *)
(* have reported, leaves the countdowns as they are.                       *)
LEMMA CountsAreLeft ==
    ASSUME Inv, NEW t \in Threads, NEW label,
           pc[t] \notin {"wait", "stopped"},
           Goto(t, label), alive' = alive, UNCHANGED pauseVars,
           \A u \in Threads : Unreported(u)' <=> Unreported(u)
    PROVE  CountdownCounts'
<1>1. \A s \in requested : Uncounted(s)' = Uncounted(s)
  BY DEF Uncounted, Scope, pauseVars, Inv, TypeOK
<1>2. \A s \in requested : pc'[requester[s]] = pc[requester[s]]
  BY DEF Goto, Inv, TypeOK, RequestersRun
<1> QED BY <1>1, <1>2 DEF Inv, CountdownCounts, pauseVars

(* A thread attaches.                                                      *)
LEMMA AttachKeeps ==
    ASSUME Inv, NEW t \in Threads, Attach(t)
    PROVE  Inv'
<1>1. CountdownCounts'
  <2>1. PICK label : Goto(t, label)
    BY DEF Attach
  <2>2. \A u \in Threads : Unreported(u)' <=> Unreported(u)
    BY DEF Inv, TypeOK, StatesFollowPlaces, AttachedPCs, Attach, Goto,
           SetState, Unreported
  <2> QED BY <2>1, <2>2, CountsAreLeft DEF Attach
<1> USE InterpOfType, GlobalType, NoneType, NoneIsNoPause
        DEF Inv, TypeOK, Attach, Goto, SetState, lockVars, pauseVars
<1>2. TypeOK'
  BY DEF PCs, States, Pauses
<1>3. StatesFollowPlaces'
  BY DEF StatesFollowPlaces, AttachedPCs
<1>4. PauseIsItsOwn'
  BY DEF PauseIsItsOwn, Asks, RequestedFor
<1>5. LocksAreHeld'
  BY DEF LocksAreHeld, HasMutex, HasRW
<1>6. RequestersRun'
  BY DEF RequestersRun
<1>7. SuspendedByPause'
  BY DEF SuspendedByPause, RequestedFor
<1> QED BY <1>1, <1>2, <1>3, <1>4, <1>5, <1>6, <1>7

(* ... and detaches, around a blocking call,                               *)
LEMMA DetachKeeps ==
    ASSUME Inv, NEW t \in Threads, Detach(t)
    PROVE  Inv'
<1>1. CountdownCounts'
  <2>1. PICK label : Goto(t, label)
    BY DEF Detach
  <2>2. \A u \in Threads : Unreported(u)' <=> Unreported(u)
    BY DEF Inv, TypeOK, StatesFollowPlaces, AttachedPCs, Detach, Goto,
           SetState, Unreported
  <2> QED BY <2>1, <2>2, CountsAreLeft DEF Detach
<1> USE InterpOfType, GlobalType, NoneType, NoneIsNoPause
        DEF Inv, TypeOK, Detach, Goto, SetState, lockVars, pauseVars
<1>2. TypeOK'
  BY DEF PCs, States, Pauses
<1>3. StatesFollowPlaces'
  BY DEF StatesFollowPlaces, AttachedPCs
<1>4. PauseIsItsOwn'
  BY DEF PauseIsItsOwn, Asks, RequestedFor
<1>5. LocksAreHeld'
  BY DEF LocksAreHeld, HasMutex, HasRW
<1>6. RequestersRun'
  BY DEF RequestersRun
<1>7. SuspendedByPause'
  BY DEF SuspendedByPause, RequestedFor
<1> QED BY <1>1, <1>2, <1>3, <1>4, <1>5, <1>6, <1>7

(* ... from which it comes back.                                           *)
LEMMA ComeBackKeeps ==
    ASSUME Inv, NEW t \in Threads, ComeBack(t)
    PROVE  Inv'
<1>1. CountdownCounts'
  <2>1. PICK label : Goto(t, label)
    BY DEF ComeBack
  <2>2. \A u \in Threads : Unreported(u)' <=> Unreported(u)
    BY DEF Inv, TypeOK, StatesFollowPlaces, AttachedPCs, ComeBack, Goto,
           SetState, Unreported
  <2> QED BY <2>1, <2>2, CountsAreLeft DEF ComeBack
<1> USE InterpOfType, GlobalType, NoneType, NoneIsNoPause
        DEF Inv, TypeOK, ComeBack, Goto, SetState, lockVars, pauseVars
<1>2. TypeOK'
  BY DEF PCs, States, Pauses
<1>3. StatesFollowPlaces'
  BY DEF StatesFollowPlaces, AttachedPCs
<1>4. PauseIsItsOwn'
  BY DEF PauseIsItsOwn, Asks, RequestedFor, StatesFollowPlaces
<1>5. LocksAreHeld'
  BY DEF LocksAreHeld, HasMutex, HasRW, StatesFollowPlaces
<1>6. RequestersRun'
  BY DEF RequestersRun
<1>7. SuspendedByPause'
  BY DEF SuspendedByPause, RequestedFor
<1> QED BY <1>1, <1>2, <1>3, <1>4, <1>5, <1>6, <1>7

(* The eval breaker tells a thread to suspend itself.                      *)
LEMMA HandleStopKeeps ==
    ASSUME Inv, NEW t \in Threads, HandleStop(t)
    PROVE  Inv'
<1>1. CountdownCounts'
  <2>1. PICK label : Goto(t, label)
    BY DEF HandleStop
  <2>2. \A u \in Threads : Unreported(u)' <=> Unreported(u)
    BY DEF Inv, TypeOK, StatesFollowPlaces, AttachedPCs, HandleStop, Goto,
           SetState, Unreported
  <2> QED BY <2>1, <2>2, CountsAreLeft DEF HandleStop
<1> USE InterpOfType, GlobalType, NoneType, NoneIsNoPause
        DEF Inv, TypeOK, HandleStop, Goto, SetState, lockVars, pauseVars
<1>2. TypeOK'
  BY DEF PCs, States, Pauses
<1>3. StatesFollowPlaces'
  BY DEF StatesFollowPlaces, AttachedPCs
<1>4. PauseIsItsOwn'
  BY DEF PauseIsItsOwn, Asks, RequestedFor
<1>5. LocksAreHeld'
  BY DEF LocksAreHeld, HasMutex, HasRW
<1>6. RequestersRun'
  BY DEF RequestersRun
<1>7. SuspendedByPause'
  BY DEF SuspendedByPause, RequestedFor
<1> QED BY <1>1, <1>2, <1>3, <1>4, <1>5, <1>6, <1>7

(* It looks for the pause, the one whose scope it is in,                   *)
LEMMA SuspendLookKeeps ==
    ASSUME Inv, NEW t \in Threads, SuspendLook(t)
    PROVE  Inv'
<1>1. CountdownCounts'
  <2>1. PICK label : Goto(t, label)
    BY DEF SuspendLook
  <2>2. \A u \in Threads : Unreported(u)' <=> Unreported(u)
    BY DEF Inv, TypeOK, StatesFollowPlaces, AttachedPCs, SuspendLook, Goto,
           SetState, Unreported
  <2> QED BY <2>1, <2>2, CountsAreLeft DEF SuspendLook
<1> USE InterpOfType, GlobalType, NoneType, NoneIsNoPause
        DEF Inv, TypeOK, SuspendLook, Goto, SetState, lockVars, pauseVars
<1>2. TypeOK'
  BY DEF PCs, States, Pauses
<1>3. StatesFollowPlaces'
  BY DEF StatesFollowPlaces, AttachedPCs
<1>4. PauseIsItsOwn'
  BY DEF PauseIsItsOwn, Asks, RequestedFor
<1>5. LocksAreHeld'
  BY DEF LocksAreHeld, HasMutex, HasRW
<1>6. RequestersRun'
  BY DEF RequestersRun
<1>7. SuspendedByPause'
  BY DEF SuspendedByPause, RequestedFor
<1> QED BY <1>1, <1>2, <1>3, <1>4, <1>5, <1>6, <1>7

(* ... and is suspended for it, but has not reported yet; or it detaches.  *)
LEMMA SuspendDetachKeeps ==
    ASSUME Inv, NEW t \in Threads, SuspendDetach(t)
    PROVE  Inv'
<1>1. CountdownCounts'
  <2>1. PICK label : Goto(t, label)
    BY DEF SuspendDetach
  <2>2. \A u \in Threads : Unreported(u)' <=> Unreported(u)
    BY DEF Inv, TypeOK, StatesFollowPlaces, AttachedPCs, SuspendDetach, Goto,
           SetState, Unreported
  <2> QED BY <2>1, <2>2, CountsAreLeft DEF SuspendDetach
<1> USE InterpOfType, GlobalType, NoneType, NoneIsNoPause
        DEF Inv, TypeOK, SuspendDetach, Goto, SetState, lockVars, pauseVars
<1>2. TypeOK'
  BY DEF PCs, States, Pauses
<1>3. StatesFollowPlaces'
  BY DEF StatesFollowPlaces, AttachedPCs
<1>4. PauseIsItsOwn'
  BY DEF PauseIsItsOwn, Asks, RequestedFor, StatesFollowPlaces
<1>5. LocksAreHeld'
  BY DEF LocksAreHeld, HasMutex, HasRW, StatesFollowPlaces
<1>6. RequestersRun'
  BY DEF RequestersRun
<1>7. SuspendedByPause'
  BY DEF SuspendedByPause, RequestedFor, PauseIsItsOwn
<1> QED BY <1>1, <1>2, <1>3, <1>4, <1>5, <1>6, <1>7

(* A thread asks for a pause of its interpreter or of the runtime.         *)
LEMMA StopTheWorldKeeps ==
    ASSUME Inv, NEW t \in Threads, StopTheWorld(t)
    PROVE  Inv'
<1>1. CountdownCounts'
  <2>1. PICK label : Goto(t, label)
    BY DEF StopTheWorld
  <2>2. \A u \in Threads : Unreported(u)' <=> Unreported(u)
    BY DEF Inv, TypeOK, StatesFollowPlaces, AttachedPCs, StopTheWorld, Goto,
           SetState, Unreported
  <2> QED BY <2>1, <2>2, CountsAreLeft DEF StopTheWorld
<1> USE InterpOfType, GlobalType, NoneType, NoneIsNoPause
        DEF Inv, TypeOK, StopTheWorld, Goto, SetState, lockVars, pauseVars
<1>2. TypeOK'
  <2>1. pause' \in [Threads -> Pauses \cup {None}]
    BY PausesOfAThread
  <2> QED BY <2>1 DEF PCs, States
<1>3. StatesFollowPlaces'
  BY DEF StatesFollowPlaces, AttachedPCs
<1>4. PauseIsItsOwn'
  BY DEF PauseIsItsOwn, Asks, RequestedFor
<1>5. LocksAreHeld'
  BY DEF LocksAreHeld, HasMutex, HasRW
<1>6. RequestersRun'
  BY DEF RequestersRun
<1>7. SuspendedByPause'
  BY DEF SuspendedByPause, RequestedFor
<1> QED BY <1>1, <1>2, <1>3, <1>4, <1>5, <1>6, <1>7

(* The mutex of the pause is free, and the thread takes it,                *)
LEMMA TakeMutexKeeps ==
    ASSUME Inv, NEW t \in Threads, TakeMutex(t)
    PROVE  Inv'
<1>1. CountdownCounts'
  <2>1. PICK label : Goto(t, label)
    BY DEF TakeMutex
  <2>2. \A u \in Threads : Unreported(u)' <=> Unreported(u)
    BY DEF Inv, TypeOK, StatesFollowPlaces, AttachedPCs, TakeMutex, Goto,
           SetState, Unreported
  <2> QED BY <2>1, <2>2, CountsAreLeft DEF TakeMutex
<1> USE InterpOfType, GlobalType, NoneType, NoneIsNoPause
        DEF Inv, TypeOK, TakeMutex, Goto, SetState, lockVars, pauseVars
<1>2. TypeOK'
  BY DEF PCs, States, Pauses
<1>3. StatesFollowPlaces'
  BY DEF StatesFollowPlaces, AttachedPCs
<1>4. PauseIsItsOwn'
  BY DEF PauseIsItsOwn, Asks, RequestedFor
<1>5. LocksAreHeld'
  <2>1. pause[t] \in Pauses
    BY PausesOfAThread DEF PauseIsItsOwn, Asks
  <2>2. mutex'[pause[t]] = t
    BY <2>1
  <2>3. \A u \in Threads : HasMutex(u)' => u = t \/ HasMutex(u)
    BY DEF HasMutex
  <2>4. \A u \in Threads : HasMutex(u) => mutex[pause[u]] = u /\ pause[u] # pause[t]
    BY DEF LocksAreHeld
  <2>5. \A u \in Threads : HasMutex(u)' => mutex'[pause[u]] = u
    BY <2>2, <2>3, <2>4
  <2>6. \A u \in Threads : HasRW(u)' <=> HasRW(u)
    BY DEF HasRW
  <2> QED BY <2>5, <2>6 DEF LocksAreHeld
<1>6. RequestersRun'
  BY DEF RequestersRun
<1>7. SuspendedByPause'
  BY DEF SuspendedByPause, RequestedFor
<1> QED BY <1>1, <1>2, <1>3, <1>4, <1>5, <1>6, <1>7

(* ... or it detaches and waits,                                           *)
LEMMA WaitForMutexKeeps ==
    ASSUME Inv, NEW t \in Threads, WaitForMutex(t)
    PROVE  Inv'
<1>1. CountdownCounts'
  <2>1. PICK label : Goto(t, label)
    BY DEF WaitForMutex
  <2>2. \A u \in Threads : Unreported(u)' <=> Unreported(u)
    BY DEF Inv, TypeOK, StatesFollowPlaces, AttachedPCs, WaitForMutex, Goto,
           SetState, Unreported
  <2> QED BY <2>1, <2>2, CountsAreLeft DEF WaitForMutex
<1> USE InterpOfType, GlobalType, NoneType, NoneIsNoPause
        DEF Inv, TypeOK, WaitForMutex, Goto, SetState, lockVars, pauseVars
<1>2. TypeOK'
  BY DEF PCs, States, Pauses
<1>3. StatesFollowPlaces'
  BY DEF StatesFollowPlaces, AttachedPCs
<1>4. PauseIsItsOwn'
  BY DEF PauseIsItsOwn, Asks, RequestedFor
<1>5. LocksAreHeld'
  BY DEF LocksAreHeld, HasMutex, HasRW
<1>6. RequestersRun'
  BY DEF RequestersRun
<1>7. SuspendedByPause'
  BY DEF SuspendedByPause, RequestedFor
<1> QED BY <1>1, <1>2, <1>3, <1>4, <1>5, <1>6, <1>7

(* ... until the mutex is handed to it                                     *)
LEMMA MutexHandedOffKeeps ==
    ASSUME Inv, NEW t \in Threads, MutexHandedOff(t)
    PROVE  Inv'
<1>1. CountdownCounts'
  <2>1. PICK label : Goto(t, label)
    BY DEF MutexHandedOff
  <2>2. \A u \in Threads : Unreported(u)' <=> Unreported(u)
    BY DEF Inv, TypeOK, StatesFollowPlaces, AttachedPCs, MutexHandedOff, Goto,
           SetState, Unreported
  <2> QED BY <2>1, <2>2, CountsAreLeft DEF MutexHandedOff
<1> USE InterpOfType, GlobalType, NoneType, NoneIsNoPause
        DEF Inv, TypeOK, MutexHandedOff, Goto, SetState, lockVars, pauseVars
<1>2. TypeOK'
  BY DEF PCs, States, Pauses
<1>3. StatesFollowPlaces'
  BY DEF StatesFollowPlaces, AttachedPCs
<1>4. PauseIsItsOwn'
  BY DEF PauseIsItsOwn, Asks, RequestedFor
<1>5. LocksAreHeld'
  <2>1. pause[t] \in Pauses
    BY DEF Pauses, PauseIsItsOwn, Asks
  <2>2. \A u \in Threads \ {t} : HasMutex(u)' => HasMutex(u)
    BY DEF HasMutex
  <2>3. \A u \in Threads : HasMutex(u) => pause[u] \in Pauses
    BY DEF HasMutex, Pauses, PauseIsItsOwn, Asks
  <2>4. \A u \in Threads \ {t} : HasMutex(u) => pause[u] # pause[t]
    BY DEF LocksAreHeld
  <2>5. \A u \in Threads : HasMutex(u)' => mutex'[pause[u]] = u
    BY <2>1, <2>2, <2>3, <2>4 DEF LocksAreHeld
  <2>6. \A u \in Threads : HasRW(u)' => HasRW(u)
    BY DEF HasRW
  <2> QED BY <2>5, <2>6 DEF LocksAreHeld
<1>6. RequestersRun'
  BY DEF RequestersRun
<1>7. SuspendedByPause'
  BY DEF SuspendedByPause, RequestedFor
<1> QED BY <1>1, <1>2, <1>3, <1>4, <1>5, <1>6, <1>7

(* ... or it is woken to try again.                                        *)
LEMMA MutexWokenKeeps ==
    ASSUME Inv, NEW t \in Threads, MutexWoken(t)
    PROVE  Inv'
<1>1. CountdownCounts'
  <2>1. PICK label : Goto(t, label)
    BY DEF MutexWoken
  <2>2. \A u \in Threads : Unreported(u)' <=> Unreported(u)
    BY DEF Inv, TypeOK, StatesFollowPlaces, AttachedPCs, MutexWoken, Goto,
           SetState, Unreported
  <2> QED BY <2>1, <2>2, CountsAreLeft DEF MutexWoken
<1> USE InterpOfType, GlobalType, NoneType, NoneIsNoPause
        DEF Inv, TypeOK, MutexWoken, Goto, SetState, lockVars, pauseVars
<1>2. TypeOK'
  BY DEF PCs, States, Pauses
<1>3. StatesFollowPlaces'
  BY DEF StatesFollowPlaces, AttachedPCs
<1>4. PauseIsItsOwn'
  BY DEF PauseIsItsOwn, Asks, RequestedFor
<1>5. LocksAreHeld'
  BY DEF LocksAreHeld, HasMutex, HasRW
<1>6. RequestersRun'
  BY DEF RequestersRun
<1>7. SuspendedByPause'
  BY DEF SuspendedByPause, RequestedFor
<1> QED BY <1>1, <1>2, <1>3, <1>4, <1>5, <1>6, <1>7

(* stoptheworld_mutex: a writer is alone, and so is a pause of the runtime. *)
LEMMA TakeRWKeeps ==
    ASSUME Inv, NEW t \in Threads, TakeRW(t)
    PROVE  Inv'
<1>1. CountdownCounts'
  <2>1. PICK label : Goto(t, label)
    BY DEF TakeRW
  <2>2. \A u \in Threads : Unreported(u)' <=> Unreported(u)
    BY DEF Inv, TypeOK, StatesFollowPlaces, AttachedPCs, TakeRW, Goto,
           SetState, Unreported
  <2> QED BY <2>1, <2>2, CountsAreLeft DEF TakeRW
<1> USE InterpOfType, GlobalType, NoneType, NoneIsNoPause
        DEF Inv, TypeOK, TakeRW, MayTakeRW, Goto, SetState, lockVars, pauseVars
<1>2. TypeOK'
  BY DEF PCs, States, Pauses
<1>3. StatesFollowPlaces'
  BY DEF StatesFollowPlaces, AttachedPCs
<1>4. PauseIsItsOwn'
  BY DEF PauseIsItsOwn, Asks, RequestedFor
<1>5. LocksAreHeld'
  BY DEF LocksAreHeld, HasMutex, HasRW
<1>6. RequestersRun'
  BY DEF RequestersRun
<1>7. SuspendedByPause'
  BY DEF SuspendedByPause, RequestedFor
<1> QED BY <1>1, <1>2, <1>3, <1>4, <1>5, <1>6, <1>7

(* A thread that cannot have it detaches and waits                         *)
LEMMA WaitForRWKeeps ==
    ASSUME Inv, NEW t \in Threads, WaitForRW(t)
    PROVE  Inv'
<1>1. CountdownCounts'
  <2>1. PICK label : Goto(t, label)
    BY DEF WaitForRW
  <2>2. \A u \in Threads : Unreported(u)' <=> Unreported(u)
    BY DEF Inv, TypeOK, StatesFollowPlaces, AttachedPCs, WaitForRW, Goto,
           SetState, Unreported
  <2> QED BY <2>1, <2>2, CountsAreLeft DEF WaitForRW
<1> USE InterpOfType, GlobalType, NoneType, NoneIsNoPause
        DEF Inv, TypeOK, WaitForRW, Goto, SetState, lockVars, pauseVars
<1>2. TypeOK'
  BY DEF PCs, States, Pauses
<1>3. StatesFollowPlaces'
  BY DEF StatesFollowPlaces, AttachedPCs
<1>4. PauseIsItsOwn'
  BY DEF PauseIsItsOwn, Asks, RequestedFor
<1>5. LocksAreHeld'
  BY DEF LocksAreHeld, HasMutex, HasRW
<1>6. RequestersRun'
  BY DEF RequestersRun
<1>7. SuspendedByPause'
  BY DEF SuspendedByPause, RequestedFor
<1> QED BY <1>1, <1>2, <1>3, <1>4, <1>5, <1>6, <1>7

(* ... and is woken to try again.                                          *)
LEMMA RWWokenKeeps ==
    ASSUME Inv, NEW t \in Threads, RWWoken(t)
    PROVE  Inv'
<1>1. CountdownCounts'
  <2>1. PICK label : Goto(t, label)
    BY DEF RWWoken
  <2>2. \A u \in Threads : Unreported(u)' <=> Unreported(u)
    BY DEF Inv, TypeOK, StatesFollowPlaces, AttachedPCs, RWWoken, Goto,
           SetState, Unreported
  <2> QED BY <2>1, <2>2, CountsAreLeft DEF RWWoken
<1> USE InterpOfType, GlobalType, NoneType, NoneIsNoPause
        DEF Inv, TypeOK, RWWoken, MayTakeRW, Goto, SetState, lockVars, pauseVars
<1>2. TypeOK'
  BY DEF PCs, States, Pauses
<1>3. StatesFollowPlaces'
  BY DEF StatesFollowPlaces, AttachedPCs
<1>4. PauseIsItsOwn'
  BY DEF PauseIsItsOwn, Asks, RequestedFor
<1>5. LocksAreHeld'
  BY DEF LocksAreHeld, HasMutex, HasRW
<1>6. RequestersRun'
  BY DEF RequestersRun
<1>7. SuspendedByPause'
  BY DEF SuspendedByPause, RequestedFor
<1> QED BY <1>1, <1>2, <1>3, <1>4, <1>5, <1>6, <1>7

(* The pause is over: stoptheworld_mutex is released,                      *)
LEMMA ReleaseRWKeeps ==
    ASSUME Inv, NEW t \in Threads, ReleaseRW(t)
    PROVE  Inv'
<1>1. CountdownCounts'
  <2>1. PICK label : Goto(t, label)
    BY DEF ReleaseRW
  <2>2. \A u \in Threads : Unreported(u)' <=> Unreported(u)
    BY DEF Inv, TypeOK, StatesFollowPlaces, AttachedPCs, ReleaseRW, Goto,
           SetState, Unreported
  <2> QED BY <2>1, <2>2, CountsAreLeft DEF ReleaseRW
<1> USE InterpOfType, GlobalType, NoneType, NoneIsNoPause
        DEF Inv, TypeOK, ReleaseRW, Goto, SetState, lockVars, pauseVars
<1>2. TypeOK'
  BY DEF PCs, States, Pauses
<1>3. StatesFollowPlaces'
  BY DEF StatesFollowPlaces, AttachedPCs
<1>4. PauseIsItsOwn'
  BY DEF PauseIsItsOwn, Asks, RequestedFor
<1>5. LocksAreHeld'
  BY DEF LocksAreHeld, HasMutex, HasRW
<1>6. RequestersRun'
  BY DEF RequestersRun
<1>7. SuspendedByPause'
  BY DEF SuspendedByPause, RequestedFor
<1> QED BY <1>1, <1>2, <1>3, <1>4, <1>5, <1>6, <1>7

(* ... and then the mutex of the pause.                                    *)
LEMMA UnlockMutexKeeps ==
    ASSUME Inv, NEW t \in Threads, UnlockMutex(t)
    PROVE  Inv'
<1>1. CountdownCounts'
  <2>1. PICK label : Goto(t, label)
    BY DEF UnlockMutex
  <2>2. \A u \in Threads : Unreported(u)' <=> Unreported(u)
    BY DEF Inv, TypeOK, StatesFollowPlaces, AttachedPCs, UnlockMutex, Goto,
           SetState, Unreported
  <2> QED BY <2>1, <2>2, CountsAreLeft DEF UnlockMutex
<1> USE InterpOfType, GlobalType, NoneType, NoneIsNoPause
        DEF Inv, TypeOK, UnlockMutex, Goto, SetState, lockVars, pauseVars
<1>2. TypeOK'
  BY DEF PCs, States, Pauses
<1>3. StatesFollowPlaces'
  BY DEF StatesFollowPlaces, AttachedPCs
<1>4. PauseIsItsOwn'
  BY DEF PauseIsItsOwn, Asks, RequestedFor
<1>5. LocksAreHeld'
  BY DEF LocksAreHeld, HasMutex, HasRW
<1>6. RequestersRun'
  BY DEF RequestersRun
<1>7. SuspendedByPause'
  BY DEF SuspendedByPause, RequestedFor
<1> QED BY <1>1, <1>2, <1>3, <1>4, <1>5, <1>6, <1>7

-----------------------------------------------------------------------------
(* Threads that come, report and go                                        *)

(* A thread that is taken off the pauses that wait for it, and only them,  *)
(* leaves exact countdowns.                                                *)
LEMMA CountsAfterAReport ==
    ASSUME Inv, NEW t \in Threads, NEW ss \in SUBSET requested, Decrement(ss),
           UNCHANGED <<requested, stopped, requester>>,
           \A s \in requested : pc'[requester[s]] = pc[requester[s]],
           \A s \in ss : t \in Uncounted(s) /\ Uncounted(s)' = Uncounted(s) \ {t},
           \A s \in requested \ ss : Uncounted(s)' = Uncounted(s)
    PROVE  /\ CountdownCounts'
           /\ countdown' \in [Pauses -> 0..Cardinality(Threads)]
           /\ event' \subseteq Pauses
<1>1. \A s \in ss : /\ countdown[s] \in Nat \ {0}
                    /\ Cardinality(Uncounted(s))' = countdown[s] - 1
  <2> TAKE s \in ss
  <2>1. countdown[s] = Cardinality(Uncounted(s))
    BY DEF Inv, CountdownCounts
  <2>2. IsFiniteSet(Uncounted(s)) /\ Uncounted(s) # {}
    BY UncountedIsFinite DEF Inv
  <2>3. Cardinality(Uncounted(s)) \in Nat /\ Cardinality(Uncounted(s)) # 0
    BY <2>2, FS_CardinalityType, FS_EmptySet
  <2>4. Cardinality(Uncounted(s) \ {t}) = Cardinality(Uncounted(s)) - 1
    BY <2>2, FS_RemoveElement
  <2> QED BY <2>1, <2>3, <2>4
<1>2. \A s \in ss : countdown'[s] = countdown[s] - 1
  BY DEF Decrement, Inv, TypeOK
<1>3. \A s \in Pauses \ ss : countdown'[s] = countdown[s]
  BY DEF Decrement, Inv, TypeOK
<1>4. countdown' \in [Pauses -> 0..Cardinality(Threads)]
  <2>1. Cardinality(Threads) \in Nat
    BY ThreadsFinite, FS_CardinalityType
  <2>2. countdown' = [s \in Pauses |-> countdown'[s]]
    BY DEF Decrement
  <2>3. \A s \in Pauses : countdown[s] \in 0..Cardinality(Threads)
    BY DEF Inv, TypeOK
  <2>4. \A s \in Pauses : countdown'[s] \in 0..Cardinality(Threads)
    BY <1>1, <1>2, <1>3, <2>1, <2>3
  <2> QED BY <2>2, <2>4
<1>5. event' = event \cup {s \in ss : countdown[s] = 1}
  BY DEF Decrement
<1>6. \A s \in ss : /\ countdown'[s] = Cardinality(Uncounted(s))'
                    /\ countdown'[s] = 0 <=> s \in event'
                    /\ s \notin stopped
  BY <1>1, <1>2, <1>5 DEF Inv, CountdownCounts
<1>7. \A s \in requested \ ss : /\ countdown'[s] = countdown[s]
                                /\ s \in event' <=> s \in event
                                /\ Cardinality(Uncounted(s))' = Cardinality(Uncounted(s))
  BY <1>3, <1>5 DEF Inv, TypeOK
<1>8. CountdownCounts'
  BY <1>6, <1>7 DEF Inv, CountdownCounts, RequestersRun
<1> QED BY <1>4, <1>5, <1>8 DEF Inv, TypeOK

(* A new thread is suspended if a pause is requested for it.               *)
LEMMA CreateKeeps ==
    ASSUME Inv, NEW t \in Threads, Create(t)
    PROVE  Inv'
<1>1. CountdownCounts'
  <2>1. \A s \in requested : t \in Scope(s)' => ~Unreported(t)'
    BY DEF Inv, TypeOK, Create, SetState, Goto, Scope, RequestedFor, Unreported
  <2>2. \A u \in Threads \ {t} : Unreported(u)' <=> Unreported(u)
    BY DEF Inv, TypeOK, Create, SetState, Goto, Unreported
  <2>3. \A s \in requested : Uncounted(s)' = Uncounted(s)
    BY <2>1, <2>2 DEF Inv, TypeOK, Create, Scope, Uncounted, pauseVars
  <2>4. \A s \in requested : pc'[requester[s]] = pc[requester[s]]
    BY DEF Inv, TypeOK, Create, Goto, StatesFollowPlaces, RequestersRun
  <2> QED BY <2>3, <2>4 DEF Inv, CountdownCounts, Create, pauseVars
<1> USE InterpOfType, GlobalType, NoneType, NoneIsNoPause
        DEF Inv, TypeOK, Create, Goto, SetState, lockVars, pauseVars
<1>2. TypeOK'
  BY DEF PCs, States
<1>3. StatesFollowPlaces'
  BY DEF StatesFollowPlaces, AttachedPCs
<1>4. PauseIsItsOwn'
  BY DEF PauseIsItsOwn, Asks, RequestedFor
<1>5. LocksAreHeld'
  BY DEF LocksAreHeld, HasMutex, HasRW
<1>6. RequestersRun'
  BY DEF RequestersRun, StatesFollowPlaces
<1>7. SuspendedByPause'
  BY DEF SuspendedByPause, RequestedFor
<1> QED BY <1>1, <1>2, <1>3, <1>4, <1>5, <1>6, <1>7

(* A thread that is deleted is counted, unless it has been already.        *)
LEMMA DeleteKeeps ==
    ASSUME Inv, NEW t \in Threads, t \in alive, pc[t] \in {"run", "away"}, Delete(t)
    PROVE  Inv'
<1>1. /\ CountdownCounts'
      /\ countdown' \in [Pauses -> 0..Cardinality(Threads)]
      /\ event' \subseteq Pauses
  <2> DEFINE ss == IF state[t] # "SUSPENDED" THEN RequestedFor(t) ELSE {}
  <2>1. ss \in SUBSET requested
    BY DEF RequestedFor
  <2>2. Decrement(ss) /\ UNCHANGED <<requested, stopped, requester>>
    BY DEF Delete
  <2>3. \A s \in requested : requester[s] # t /\ pc'[requester[s]] = pc[requester[s]]
    BY DEF Inv, TypeOK, Delete, Goto, RequestersRun
  <2>4. \A u \in Threads \ {t} : Unreported(u)' <=> Unreported(u)
    BY DEF Inv, TypeOK, Delete, SetState, Goto, Unreported
  <2>5. \A s \in requested : Uncounted(s)' = Uncounted(s) \ {t}
    BY <2>4 DEF Inv, TypeOK, Delete, Scope, Uncounted
  <2>6. \A s \in ss : t \in Uncounted(s)
    BY <2>3 DEF Uncounted, Scope, RequestedFor, Unreported
  <2>7. \A s \in requested \ ss : t \notin Uncounted(s)
    BY DEF Uncounted, Scope, RequestedFor, Unreported
  <2> HIDE DEF ss
  <2>8. \A s \in requested \ ss : Uncounted(s)' = Uncounted(s)
    BY <2>5, <2>7
  <2>9. \A s \in ss : t \in Uncounted(s) /\ Uncounted(s)' = Uncounted(s) \ {t}
    BY <2>1, <2>5, <2>6
  <2> QED BY <2>1, <2>2, <2>3, <2>8, <2>9, CountsAfterAReport
<1> USE InterpOfType, GlobalType, NoneType, NoneIsNoPause
        DEF Inv, TypeOK, Delete, Goto, SetState, lockVars, pauseVars
<1>2. TypeOK'
  BY <1>1 DEF PCs, States
<1>3. StatesFollowPlaces'
  BY DEF StatesFollowPlaces, AttachedPCs
<1>4. PauseIsItsOwn'
  BY DEF PauseIsItsOwn, Asks, RequestedFor
<1>5. LocksAreHeld'
  BY DEF LocksAreHeld, HasMutex, HasRW
<1>6. RequestersRun'
  BY DEF RequestersRun
<1>7. SuspendedByPause'
  BY DEF SuspendedByPause, RequestedFor
<1> QED BY <1>1, <1>2, <1>3, <1>4, <1>5, <1>6, <1>7

(* A suspended thread reports to its pause, the only one that waits for it. *)
LEMMA SuspendCountKeeps ==
    ASSUME Inv, NEW t \in Threads, SuspendCount(t)
    PROVE  Inv'
<1>1. /\ CountdownCounts'
      /\ countdown' \in [Pauses -> 0..Cardinality(Threads)]
      /\ event' \subseteq Pauses
  <2>1. pause[t] \in requested /\ pause[t] \in {InterpOf[t], Global} /\ t \in alive
    BY DEF Inv, SuspendCount, PauseIsItsOwn, RequestedFor, StatesFollowPlaces
  <2>2. Decrement({pause[t]}) /\ UNCHANGED <<requested, stopped, requester>>
    BY DEF SuspendCount
  <2>3. \A s \in requested : requester[s] # t /\ pc'[requester[s]] = pc[requester[s]]
    BY DEF Inv, TypeOK, SuspendCount, Goto, RequestersRun
  <2>4. /\ \A u \in Threads \ {t} : Unreported(u)' <=> Unreported(u)
        /\ Unreported(t) /\ ~Unreported(t)'
    BY DEF Inv, TypeOK, SuspendCount, StatesFollowPlaces, Goto, Unreported
  <2>5. \A s \in requested : Uncounted(s)' = Uncounted(s) \ {t}
    BY <2>4 DEF Inv, TypeOK, SuspendCount, Scope, Uncounted
  <2>6. t \in Uncounted(pause[t])
    BY <2>1, <2>3, <2>4 DEF Uncounted, Scope
  <2>7. \A s \in requested \ {pause[t]} : t \notin Uncounted(s)
    BY <2>1, PausesAreApart DEF Inv, Uncounted, Scope
  <2>8. {pause[t]} \in SUBSET requested
    BY <2>1
  <2>9. \A s \in requested \ {pause[t]} : Uncounted(s)' = Uncounted(s)
    BY <2>5, <2>7
  <2>10. \A s \in {pause[t]} :
            t \in Uncounted(s) /\ Uncounted(s)' = Uncounted(s) \ {t}
    BY <2>1, <2>5, <2>6
  <2> QED BY <2>2, <2>3, <2>8, <2>9, <2>10, CountsAfterAReport
<1> USE InterpOfType, GlobalType, NoneType, NoneIsNoPause
        DEF Inv, TypeOK, SuspendCount, Goto, SetState, lockVars, pauseVars
<1>2. TypeOK'
  BY <1>1 DEF PCs, States
<1>3. StatesFollowPlaces'
  BY DEF StatesFollowPlaces, AttachedPCs
<1>4. PauseIsItsOwn'
  BY DEF PauseIsItsOwn, Asks, RequestedFor, StatesFollowPlaces
<1>5. LocksAreHeld'
  BY DEF LocksAreHeld, HasMutex, HasRW, StatesFollowPlaces
<1>6. RequestersRun'
  BY DEF RequestersRun
<1>7. SuspendedByPause'
  BY DEF SuspendedByPause, RequestedFor
<1> QED BY <1>1, <1>2, <1>3, <1>4, <1>5, <1>6, <1>7

-----------------------------------------------------------------------------
(* The rounds of a requester                                               *)

(* A thread with stoptheworld_mutex for a pause finds every other pause    *)
(* that is requested to be about other threads and run by other threads.   *)
LEMMA OtherPausesAreApart ==
    ASSUME Inv, NEW t \in Threads, HasRW(t), NEW r \in requested \ {pause[t]}
    PROVE  /\ requester[r] # t
           /\ \A u \in Threads : ~ {r, pause[t]} \subseteq {InterpOf[u], Global}
<1>1. /\ requester[r] \in Threads /\ HasRW(requester[r])
      /\ pause[requester[r]] = r
  BY DEF Inv, RequestersRun, HasRW
<1>2. requester[r] # t
  BY <1>1
<1>3. r # Global /\ pause[t] # Global
  <2>1. CASE r = Global
    <3>1. writer = requester[r] /\ readers = {}
      BY <1>1, <2>1, NoneType, NoneIsNoPause DEF Inv, LocksAreHeld
    <3> QED BY <1>1, <2>1, <3>1 DEF Inv, LocksAreHeld
  <2>2. CASE pause[t] = Global
    <3>1. writer = t /\ readers = {}
      BY <2>2, NoneType, NoneIsNoPause DEF Inv, LocksAreHeld
    <3> QED BY <1>1, <2>2, <3>1 DEF Inv, LocksAreHeld
  <2> QED BY <2>1, <2>2
<1> QED BY <1>2, <1>3

(* One round of park_detached_threads, for a thread that waits for the     *)
(* others in the scope of its pause that have not reported.                *)
LEMMA ParkKeeps ==
    ASSUME Inv, NEW t \in Threads, pc[t] \in {"count", "wait"},
           NEW s, s = pause[t], NEW n, NEW late \in SUBSET Attaching(s),
           n = Cardinality({u \in Others(s, t) : Unreported(u)}),
           n = 0 => Others(s, t) = {},
           ParkDetached(t, s, n, late), UNCHANGED <<alive, pause, lockVars>>,
           requested' = requested \cup {s},
           requester' = [requester EXCEPT ![s] = t],
           event' = event \ {s}
    PROVE  Inv'
<1> DEFINE parked == {u \in Scope(s) : state[u] = "DETACHED"} \ late
           waiting == {u \in Others(s, t) : Unreported(u)}
           allStopped == n = Cardinality(parked) /\ (parked # {} \/ Others(s, t) = {})
<1>1. /\ s \in Pauses /\ s \in {InterpOf[t], Global} /\ t \in alive
      /\ state[t] = "ATTACHED" /\ t \notin late /\ t \notin parked
      /\ HasRW(t) /\ HasMutex(t)
  <2>1. HasRW(t) /\ HasMutex(t) /\ Asks(t)
    BY DEF HasRW, HasMutex, Asks
  <2>2. s \in {InterpOf[t], Global} /\ t \in alive /\ state[t] = "ATTACHED"
    BY <2>1 DEF Inv, PauseIsItsOwn, StatesFollowPlaces, AttachedPCs
  <2> QED BY <2>1, <2>2, PausesOfAThread DEF Attaching
<1>2. s \notin stopped
  <2>1. SUFFICES ASSUME s \in stopped PROVE FALSE
    OBVIOUS
  <2>2. PICK u \in Threads : pause[u] = s /\ pc[u] = "stopped"
    BY <2>1 DEF Inv, RequestersRun
  <2>3. u = t
    BY <1>1, <2>2 DEF Inv, LocksAreHeld, HasMutex
  <2> QED BY <2>2, <2>3
<1>3. \A r \in requested \ {s} :
         /\ requester[r] # t
         /\ \A u \in Threads : ~ {r, s} \subseteq {InterpOf[u], Global}
  BY <1>1, OtherPausesAreApart
<1>4. /\ parked \cup late \subseteq alive /\ alive \subseteq Threads
      /\ \A u \in parked \cup late : s \in {InterpOf[u], Global} /\ state[u] = "DETACHED"
      /\ \A u \in late : u \notin parked /\ pc[u] = "attach"
  BY DEF Attaching, Scope, Inv, TypeOK
<1>5. /\ state' = [u \in Threads |-> CASE u \in parked -> "SUSPENDED"
                                       [] u \in late -> "ATTACHED"
                                       [] OTHER -> state[u]]
      /\ pleaseStop' \subseteq Threads
      /\ countdown' = [countdown EXCEPT ![s] = n - Cardinality(parked)]
      /\ stopped' = IF allStopped THEN stopped \cup {s} ELSE stopped
      /\ pc' = [u \in Threads |-> CASE u = t -> IF allStopped THEN "stopped" ELSE "wait"
                                    [] u \in late -> goal[u]
                                    [] OTHER -> pc[u]]
      /\ goal' = [u \in Threads |-> IF u \in late THEN "run" ELSE goal[u]]
  BY DEF ParkDetached, Others, Scope, Inv, TypeOK
<1> HIDE DEF parked
<1>6. /\ \A u \in parked : state'[u] = "SUSPENDED" /\ pc'[u] = pc[u] /\ goal'[u] = goal[u]
      /\ \A u \in late : state'[u] = "ATTACHED" /\ pc'[u] = goal[u] /\ goal'[u] = "run"
      /\ state'[t] = state[t] /\ goal'[t] = goal[t]
      /\ pc'[t] = IF allStopped THEN "stopped" ELSE "wait"
      /\ \A u \in Threads \ (parked \cup late \cup {t}) :
            state'[u] = state[u] /\ pc'[u] = pc[u] /\ goal'[u] = goal[u]
  BY <1>1, <1>4, <1>5
<1>7. /\ parked \subseteq waiting
      /\ IsFiniteSet(waiting) /\ n \in Nat /\ n <= Cardinality(Threads)
      /\ Cardinality(parked) \in 0..n
      /\ Cardinality(waiting \ parked) = n - Cardinality(parked)
  <2>1. parked \subseteq waiting
    BY <1>1, <1>4 DEF Others, Scope, Unreported, parked
  <2>2. waiting \in SUBSET Threads
    BY DEF Others, Scope, Inv, TypeOK
  <2>3. IsFiniteSet(waiting) /\ Cardinality(waiting) <= Cardinality(Threads)
    BY <2>2, ThreadsFinite, FS_Subset
  <2>4. IsFiniteSet(parked) /\ Cardinality(parked) <= Cardinality(waiting)
    BY <2>1, <2>3, FS_Subset
  <2>5. Cardinality(waiting \ parked) = Cardinality(waiting) - Cardinality(parked)
    <3>1. waiting \cap parked = parked
      BY <2>1
    <3>2. Cardinality(waiting \ parked) =
             Cardinality(waiting) - Cardinality(waiting \cap parked)
      BY <2>3, FS_Difference
    <3> QED BY <3>1, <3>2
  <2>6. Cardinality(waiting) \in Nat /\ Cardinality(parked) \in Nat
    BY <2>3, <2>4, FS_CardinalityType
  <2> HIDE DEF waiting
  <2>7. n = Cardinality(waiting)
    BY DEF waiting
  <2> QED BY <2>1, <2>3, <2>4, <2>5, <2>6, <2>7
<1>8. Uncounted(s)' = waiting \ parked
  <2>1. requester'[s] = t
    BY <1>1 DEF Inv, TypeOK
  <2>2. \A u \in alive \ {t} : Unreported(u)' <=> Unreported(u) /\ u \notin parked
    BY <1>4, <1>6 DEF Unreported, Inv, StatesFollowPlaces
  <2> QED BY <2>1, <2>2, <1>4 DEF Uncounted, Scope, Others
<1>9. \A r \in requested \ {s} :
         /\ Uncounted(r)' = Uncounted(r) /\ countdown'[r] = countdown[r]
         /\ requester'[r] = requester[r] /\ pc'[requester[r]] = pc[requester[r]]
  <2> TAKE r \in requested \ {s}
  <2>1. countdown'[r] = countdown[r] /\ requester'[r] = requester[r]
    BY <1>5 DEF Inv, TypeOK
  <2>2. pc'[requester[r]] = pc[requester[r]]
    BY <1>3, <1>4, <1>6 DEF Inv, RequestersRun
  <2>3. \A u \in Scope(r) : u \in Threads \ (parked \cup late \cup {t})
    BY <1>1, <1>3, <1>4 DEF Scope
  <2>4. \A u \in Scope(r) : Unreported(u)' <=> Unreported(u)
    BY <1>6, <2>3 DEF Unreported
  <2> QED BY <2>1, <2>2, <2>4 DEF Uncounted, Scope
<1>10. /\ countdown'[s] = n - Cardinality(parked)
       /\ countdown' \in [Pauses -> 0..Cardinality(Threads)]
  <2>1. Cardinality(Threads) \in Nat
    BY ThreadsFinite, FS_CardinalityType
  <2>2. n - Cardinality(parked) \in 0..Cardinality(Threads)
    BY <1>7, <2>1
  <2> QED BY <1>1, <1>5, <2>2 DEF Inv, TypeOK
<1>11. /\ allStopped => countdown'[s] = 0
       /\ ~allStopped => countdown'[s] # 0
  <2>1. parked = {} => Cardinality(parked) = 0
    BY FS_EmptySet
  <2> QED BY <1>7, <1>10, <2>1
<1> HIDE DEF waiting, allStopped
<1>12. TypeOK'
  <2>1. state' \in [Threads -> States]
    BY <1>5 DEF Inv, TypeOK, States
  <2>2. pc' \in [Threads -> PCs]
    BY <1>5 DEF Inv, TypeOK, PCs
  <2>3. goal' \in [Threads -> {"run", "mutex", "rw"}]
    BY <1>5 DEF Inv, TypeOK
  <2>4. /\ requested' \subseteq Pauses /\ stopped' \subseteq Pauses
        /\ event' \subseteq Pauses /\ requester' \in [Pauses -> Threads \cup {None}]
    BY <1>1, <1>5 DEF Inv, TypeOK
  <2> QED BY <1>5, <1>10, <2>1, <2>2, <2>3, <2>4 DEF Inv, TypeOK, lockVars
<1>13. StatesFollowPlaces'
  BY <1>1, <1>4, <1>6 DEF Inv, TypeOK, StatesFollowPlaces, AttachedPCs
<1>14. PauseIsItsOwn'
  BY <1>1, <1>4, <1>6 DEF Inv, TypeOK, PauseIsItsOwn, Asks, RequestedFor
<1>15. LocksAreHeld'
  BY <1>1, <1>4, <1>6 DEF Inv, TypeOK, LocksAreHeld, HasMutex, HasRW, lockVars
<1>16. RequestersRun'
  <2>1. requester'[s] = t /\ pause'[t] = s /\ pc'[t] \in {"wait", "stopped"}
    BY <1>1, <1>6 DEF Inv, TypeOK
  <2>2. \A r \in requested \ {s} : /\ requester'[r] \in Threads
                                   /\ pause'[requester'[r]] = r
                                   /\ pc'[requester'[r]] \in {"wait", "stopped"}
    BY <1>9 DEF Inv, RequestersRun
  <2>3. \A u \in Threads \ {t} :
           pc'[u] \in {"wait", "stopped"} =>
              pc'[u] = pc[u] /\ pause[u] \in requested /\ requester'[pause[u]] = u
    <3> SUFFICES ASSUME NEW u \in Threads \ {t}, pc'[u] \in {"wait", "stopped"}
                 PROVE  pc'[u] = pc[u] /\ pause[u] \in requested /\ requester'[pause[u]] = u
      OBVIOUS
    <3>1. pc'[u] = pc[u]
      BY <1>4, <1>6 DEF Inv, TypeOK
    <3>2. pause[u] \in requested /\ requester[pause[u]] = u
      BY <3>1 DEF Inv, RequestersRun
    <3>3. pause[u] # s
      BY <1>1, <3>1 DEF Inv, LocksAreHeld, HasMutex
    <3> QED BY <1>9, <3>1, <3>2, <3>3
  <2>4. pc'[t] = "stopped" <=> s \in stopped'
    BY <1>2, <1>5, <1>6
  <2>5. \A r \in stopped' \ {s} : r \in stopped
    BY <1>5
  <2>6. stopped \subseteq stopped'
    BY <1>5
  <2> QED BY <1>2, <1>9, <2>1, <2>2, <2>3, <2>4, <2>5, <2>6 DEF Inv, RequestersRun
<1>17. SuspendedByPause'
  BY <1>1, <1>4, <1>6 DEF Inv, SuspendedByPause, RequestedFor
<1>18. CountdownCounts'
  <2>1. /\ countdown'[s] = Cardinality(Uncounted(s))'
        /\ s \notin event'
        /\ pc'[requester'[s]] = "wait" => countdown'[s] # 0
        /\ s \in stopped' => countdown'[s] = 0
    BY <1>1, <1>2, <1>5, <1>6, <1>7, <1>8, <1>10, <1>11 DEF Inv, TypeOK
  <2>2. \A r \in requested \ {s} :
           /\ countdown'[r] = Cardinality(Uncounted(r))'
           /\ r \in event' <=> r \in event
           /\ requester'[r] = requester[r] /\ pc'[requester[r]] = pc[requester[r]]
           /\ countdown'[r] = countdown[r]
           /\ r \in stopped' <=> r \in stopped
    BY <1>5, <1>9 DEF Inv, CountdownCounts
  <2> QED BY <2>1, <2>2, <1>16 DEF Inv, CountdownCounts, RequestersRun
<1> QED BY <1>12, <1>13, <1>14, <1>15, <1>16, <1>17, <1>18 DEF Inv

(* The first round: nobody in the scope of the pause is suspended yet.     *)
LEMMA RequestKeeps ==
    ASSUME Inv, NEW t \in Threads, Request(t)
    PROVE  Inv'
<1> DEFINE s == pause[t]
<1>1. pc[t] = "count" /\ HasRW(t) /\ HasMutex(t)
  BY DEF Request, HasRW, HasMutex
<1>2. s \notin requested
  <2>1. SUFFICES ASSUME s \in requested PROVE FALSE
    OBVIOUS
  <2>2. PICK u \in Threads : pause[u] = s /\ pc[u] \in {"wait", "stopped"}
    BY <2>1 DEF Inv, RequestersRun
  <2>3. u = t
    BY <1>1, <2>2 DEF Inv, LocksAreHeld, HasMutex
  <2> QED BY <1>1, <2>2, <2>3
<1>3. \A u \in Scope(s) : Unreported(u)
  <2> SUFFICES ASSUME NEW u \in Scope(s), state[u] = "SUSPENDED" PROVE FALSE
    BY DEF Unreported
  <2>1. u \in Threads /\ s \in {InterpOf[u], Global}
    BY DEF Scope, Inv, TypeOK
  <2>2. PICK r \in requested : r \in {InterpOf[u], Global}
    BY <2>1 DEF Inv, SuspendedByPause, RequestedFor
  <2>3. r \in requested \ {s}
    BY <1>2
  <2> QED BY <1>1, <2>1, <2>2, <2>3, OtherPausesAreApart
<1>4. {u \in Others(s, t) : Unreported(u)} = Others(s, t)
  BY <1>3 DEF Others
<1>5. /\ Cardinality(Others(s, t)) = Cardinality({u \in Others(s, t) : Unreported(u)})
      /\ Cardinality(Others(s, t)) = 0 => Others(s, t) = {}
  <2>1. Others(s, t) \in SUBSET Threads
    BY DEF Others, Scope, Inv, TypeOK
  <2>2. IsFiniteSet(Others(s, t))
    BY <2>1, ThreadsFinite, FS_Subset
  <2> QED BY <1>4, <2>2, FS_EmptySet
<1>6. PICK late \in SUBSET Attaching(s) :
         ParkDetached(t, s, Cardinality(Others(s, t)), late)
  BY DEF Request
<1>7. /\ UNCHANGED <<alive, pause, lockVars>>
      /\ requested' = requested \cup {s}
      /\ requester' = [requester EXCEPT ![s] = t]
      /\ event' = event \ {s}
  BY DEF Request
<1> HIDE DEF s
<1>8. s = pause[t]
  BY DEF s
<1> QED BY <1>1, <1>5, <1>6, <1>7, <1>8, ParkKeeps

(* Another round, while somebody is still to report.                       *)
LEMMA NextRoundKeeps ==
    ASSUME Inv, NEW t \in Threads, NextRound(t)
    PROVE  Inv'
<1> DEFINE s == pause[t]
<1>1. PICK late \in SUBSET Attaching(s) : Round(t, late)
  BY DEF NextRound
<1>2. /\ pc[t] = "wait" /\ s \notin event
      /\ ParkDetached(t, s, countdown[s], late)
      /\ UNCHANGED <<alive, pause, lockVars, requested, requester, event>>
  BY <1>1 DEF Round
<1>3. s \in requested /\ requester[s] = t
  BY <1>2 DEF Inv, RequestersRun
<1>4. Uncounted(s) = {u \in Others(s, t) : Unreported(u)}
  BY <1>3 DEF Uncounted, Others
<1>5. countdown[s] = Cardinality(Uncounted(s)) /\ countdown[s] # 0
  BY <1>2, <1>3 DEF Inv, CountdownCounts
<1>6. /\ requested' = requested \cup {s}
      /\ requester' = [requester EXCEPT ![s] = t]
      /\ event' = event \ {s}
  BY <1>2, <1>3 DEF Inv, TypeOK
<1> HIDE DEF s
<1>7. s = pause[t]
  BY DEF s
<1> QED BY <1>2, <1>4, <1>5, <1>6, <1>7, ParkKeeps

(* The event is set: the world is stopped.                                 *)
LEMMA AllStoppedKeeps ==
    ASSUME Inv, NEW t \in Threads, AllStopped(t)
    PROVE  Inv'
<1>1. pc[t] = "wait" /\ pause[t] \in requested /\ requester[pause[t]] = t
  BY DEF Inv, AllStopped, RequestersRun
<1>2. \A u \in Threads : Unreported(u)' <=> Unreported(u)
  BY <1>1 DEF Inv, TypeOK, AllStopped, Goto, Unreported
<1>3. \A s \in requested : Uncounted(s)' = Uncounted(s)
  BY <1>2 DEF Inv, TypeOK, AllStopped, Uncounted, Scope
<1>4. CountdownCounts'
  BY <1>1, <1>3 DEF Inv, TypeOK, AllStopped, Goto, CountdownCounts, RequestersRun
<1> USE InterpOfType, GlobalType, NoneType, NoneIsNoPause
        DEF Inv, TypeOK, AllStopped, Goto, SetState, lockVars, pauseVars
<1>5. TypeOK'
  BY <1>1 DEF PCs, States
<1>6. StatesFollowPlaces'
  BY DEF StatesFollowPlaces, AttachedPCs
<1>7. PauseIsItsOwn'
  BY DEF PauseIsItsOwn, Asks, RequestedFor
<1>8. LocksAreHeld'
  BY DEF LocksAreHeld, HasMutex, HasRW
<1>9. RequestersRun'
  BY <1>1 DEF RequestersRun
<1>10. SuspendedByPause'
  BY DEF SuspendedByPause, RequestedFor
<1> QED BY <1>4, <1>5, <1>6, <1>7, <1>8, <1>9, <1>10

(* start_the_world: everybody in the scope of the pause has been suspended *)
(* for it, and has reported.                                               *)
LEMMA StartTheWorldKeeps ==
    ASSUME Inv, NEW t \in Threads, StartTheWorld(t)
    PROVE  Inv'
<1> DEFINE s == pause[t]
<1>1. /\ pc[t] = "stopped" /\ HasRW(t) /\ HasMutex(t) /\ Asks(t)
      /\ s \in requested /\ requester[s] = t /\ s \in stopped
  BY DEF StartTheWorld, HasRW, HasMutex, Asks, Inv, RequestersRun
<1>2. s \in {InterpOf[t], Global} /\ t \in alive /\ state[t] = "ATTACHED"
  BY <1>1 DEF Inv, PauseIsItsOwn, StatesFollowPlaces, AttachedPCs
<1>3. \A u \in Others(s, t) : state[u] = "SUSPENDED" /\ pc[u] # "decrement"
  BY <1>1, StoppedWaitsForNobody DEF Uncounted, Others, Scope, Unreported
<1>4. \A r \in requested \ {s} :
         /\ requester[r] # t
         /\ \A u \in Threads : ~ {r, s} \subseteq {InterpOf[u], Global}
  BY <1>1, OtherPausesAreApart
<1>5. /\ requested' = requested \ {s} /\ stopped' = stopped \ {s}
      /\ requester' = [requester EXCEPT ![s] = None]
      /\ state' = [u \in Threads |->
                      IF u \in Others(s, t) THEN "DETACHED" ELSE state[u]]
      /\ pc' = [pc EXCEPT ![t] = "release"]
      /\ UNCHANGED <<alive, goal, pause, pleaseStop, lockVars, countdown, event>>
  BY DEF StartTheWorld, Goto
<1>6. \A r \in requested \ {s} :
         /\ Uncounted(r)' = Uncounted(r)
         /\ requester'[r] = requester[r] /\ pc'[requester[r]] = pc[requester[r]]
  <2> TAKE r \in requested \ {s}
  <2>1. requester'[r] = requester[r] /\ pc'[requester[r]] = pc[requester[r]]
    BY <1>4, <1>5 DEF Inv, TypeOK, RequestersRun
  <2>2. \A u \in Scope(r) : u \in Threads /\ u \notin Others(s, t) /\ u # t
    BY <1>2, <1>4 DEF Scope, Others, Inv, TypeOK
  <2>3. \A u \in Scope(r) : Unreported(u)' <=> Unreported(u)
    BY <1>5, <2>2 DEF Unreported, Inv, TypeOK
  <2> QED BY <1>5, <2>1, <2>3 DEF Uncounted, Scope
<1>7. CountdownCounts'
  BY <1>5, <1>6 DEF Inv, CountdownCounts
<1>8. TypeOK'
  <2>1. state' \in [Threads -> States]
    BY <1>5 DEF Inv, TypeOK, States
  <2>2. pc' \in [Threads -> PCs]
    BY <1>5 DEF Inv, TypeOK, PCs
  <2> QED BY <1>5, <2>1, <2>2 DEF Inv, TypeOK, lockVars
<1>9. StatesFollowPlaces'
  <2>1. \A u \in Others(s, t) : u \in alive /\ pc[u] \notin AttachedPCs /\ u # t
    BY <1>3 DEF Inv, TypeOK, StatesFollowPlaces, Others, Scope
  <2> QED BY <1>1, <1>2, <1>3, <1>5, <2>1
      DEF Inv, TypeOK, StatesFollowPlaces, AttachedPCs
<1>10. PauseIsItsOwn'
  <2>1. ASSUME NEW u \in Threads, pc[u] \in {"leave", "decrement"}, pause[u] = s
        PROVE  FALSE
    <3>1. s # None /\ s \in {InterpOf[u], Global} /\ u \in alive /\ u # t
      BY <1>1, <2>1, NoneType, NoneIsNoPause DEF Inv, TypeOK, PauseIsItsOwn, RequestedFor,
                                  StatesFollowPlaces, Pauses
    <3>2. u \in Others(s, t)
      BY <3>1 DEF Others, Scope
    <3> QED BY <1>3, <2>1, <3>2 DEF Inv, StatesFollowPlaces, AttachedPCs
  <2>2. \A u \in Threads : pc'[u] = pc[u] \/ (u = t /\ pc'[u] = "release")
    BY <1>5 DEF Inv, TypeOK
  <2>3. \A u \in Threads : Asks(u)' => Asks(u)
    BY <1>1, <1>5, <2>2 DEF Asks
  <2>4. \A u \in Threads : pc[u] \in {"leave", "decrement"} => pause[u] # s
    BY <2>1
  <2> QED BY <1>5, <2>2, <2>3, <2>4 DEF Inv, PauseIsItsOwn, RequestedFor
<1>11. LocksAreHeld'
  BY <1>1, <1>5 DEF Inv, TypeOK, LocksAreHeld, HasMutex, HasRW, lockVars
<1>12. RequestersRun'
  <2>1. \A u \in Threads \ {t} : pc[u] \in {"wait", "stopped"} => pause[u] # s
    BY <1>1 DEF Inv, RequestersRun
  <2> QED BY <1>5, <1>6, <2>1 DEF Inv, TypeOK, RequestersRun
<1>13. SuspendedByPause'
  <2> SUFFICES ASSUME NEW u \in Threads, state'[u] = "SUSPENDED"
               PROVE  RequestedFor(u)' # {}
    BY DEF SuspendedByPause
  <2>1. state[u] = "SUSPENDED" /\ u \notin Others(s, t) /\ u # t
    BY <1>2, <1>5 DEF Inv, TypeOK
  <2>2. PICK r \in requested : r \in {InterpOf[u], Global}
    BY <2>1 DEF Inv, SuspendedByPause, RequestedFor
  <2>3. r # s
    BY <2>1, <2>2 DEF Inv, StatesFollowPlaces, Others, Scope
  <2> QED BY <1>5, <2>2, <2>3 DEF RequestedFor
<1> QED BY <1>7, <1>8, <1>9, <1>10, <1>11, <1>12, <1>13 DEF Inv

-----------------------------------------------------------------------------
(* The theorems                                                            *)

(* Nobody runs and no pause is requested.                                  *)
LEMMA InvInit == Init => Inv
<1> SUFFICES ASSUME Init PROVE Inv
  OBVIOUS
<1>1. TypeOK
  <2>1. Cardinality(Threads) \in Nat
    BY ThreadsFinite, FS_CardinalityType
  <2>2. /\ countdown \in [Pauses -> 0..Cardinality(Threads)]
        /\ requester \in [Pauses -> Threads \cup {None}]
        /\ mutex \in [Pauses -> Threads \cup {None}]
    BY <2>1 DEF Init
  <2>3. /\ state \in [Threads -> States] /\ pc \in [Threads -> PCs]
        /\ goal \in [Threads -> {"run", "mutex", "rw"}]
        /\ pause \in [Threads -> Pauses \cup {None}]
    BY DEF Init, States, PCs
  <2> QED BY <2>2, <2>3 DEF Init, TypeOK
<1>2. StatesFollowPlaces
  BY DEF Init, StatesFollowPlaces, AttachedPCs
<1>3. PauseIsItsOwn /\ LocksAreHeld
  BY DEF Init, PauseIsItsOwn, Asks, LocksAreHeld, HasMutex, HasRW
<1>4. RequestersRun /\ SuspendedByPause /\ CountdownCounts
  BY DEF Init, RequestersRun, SuspendedByPause, CountdownCounts
<1> QED BY <1>1, <1>2, <1>3, <1>4 DEF Inv

(* Every step keeps the invariant.                                         *)
LEMMA InvNext == Inv /\ [Next]_vars => Inv'
<1> SUFFICES ASSUME Inv, [Next]_vars PROVE Inv'
  OBVIOUS
<1>1. CASE UNCHANGED vars
  <2> USE <1>1 DEF Inv, vars, threadVars, lockVars, pauseVars
  <2>1. (TypeOK /\ StatesFollowPlaces /\ RequestersRun)'
    BY DEF TypeOK, StatesFollowPlaces, RequestersRun
  <2>2. (PauseIsItsOwn /\ LocksAreHeld /\ SuspendedByPause)'
    BY DEF PauseIsItsOwn, Asks, LocksAreHeld, HasMutex, HasRW, RequestedFor,
           SuspendedByPause
  <2>3. \A s \in requested : Uncounted(s)' = Uncounted(s)
    BY DEF Uncounted, Scope, Unreported
  <2>4. CountdownCounts'
    BY <2>3 DEF CountdownCounts
  <2> QED BY <2>1, <2>2, <2>4
<1>2. ASSUME NEW t \in Threads, DeleteCurrent(t) \/ DeleteOther(t)
      PROVE  Inv'
  <2>1. t \in alive /\ pc[t] \in {"run", "away"} /\ Delete(t)
    BY <1>2 DEF DeleteCurrent, DeleteOther
  <2> QED BY <2>1, DeleteKeeps
<1>3. ASSUME NEW t \in Threads,
             \/ Create(t) \/ Attach(t) \/ Detach(t) \/ ComeBack(t)
             \/ HandleStop(t) \/ StopTheWorld(t)
             \/ MutexHandedOff(t) \/ MutexWoken(t) \/ RWWoken(t)
      PROVE  Inv'
  BY <1>3, CreateKeeps, AttachKeeps, DetachKeeps, ComeBackKeeps,
     HandleStopKeeps, StopTheWorldKeeps, MutexHandedOffKeeps,
     MutexWokenKeeps, RWWokenKeeps
<1>4. ASSUME NEW t \in Threads, OwnStep(t)
      PROVE  Inv'
  BY <1>4, SuspendLookKeeps, SuspendDetachKeeps, SuspendCountKeeps,
     TakeMutexKeeps, WaitForMutexKeeps, TakeRWKeeps, WaitForRWKeeps,
     RequestKeeps, NextRoundKeeps, AllStoppedKeeps, StartTheWorldKeeps,
     ReleaseRWKeeps, UnlockMutexKeeps
     DEF OwnStep
<1> QED BY <1>1, <1>2, <1>3, <1>4 DEF Next

LEMMA Invariance == Spec => []Inv
BY InvInit, InvNext, PTL DEF Spec

(* While the world is stopped for a pause, all the threads in its scope    *)
(* but the requester are SUSPENDED.                                        *)
THEOREM TheWorldIsStopped == Spec => []StoppedMeansSuspended
<1>1. Inv => StoppedMeansSuspended
  BY StoppedWaitsForNobody DEF StoppedMeansSuspended, Uncounted, Unreported
<1> QED BY <1>1, Invariance, PTL

(* The countdown of a pause is the number of the threads that are still to *)
(* report, and the event is set when there is none.                        *)
THEOREM TheCountdownIsExact == Spec => []CountdownIsExact
<1>1. ASSUME NEW s
      PROVE  Uncounted(s) =
                {t \in Scope(s) : /\ t # requester[s]
                                  /\ state[t] # "SUSPENDED" \/ pc[t] = "decrement"}
  BY DEF Uncounted, Unreported
<1>2. Inv => CountdownIsExact
  BY <1>1 DEF Inv, CountdownCounts, CountdownIsExact
<1> QED BY <1>2, Invariance, PTL

(* A pause of the runtime overlaps no other, and every pause is run by a   *)
(* thread that is attached.                                                *)
THEOREM ThePausesExclude == Spec => []PausesExclude
<1>1. Inv => PausesExclude
  <2> SUFFICES ASSUME Inv PROVE PausesExclude
    OBVIOUS
  <2>1. Global \in requested => requested = {Global}
    BY PausesAreApart DEF Inv
  <2>2. \A s \in requested : requester[s] \in alive /\ state[requester[s]] = "ATTACHED"
    BY DEF Inv, RequestersRun, StatesFollowPlaces, AttachedPCs
  <2> QED BY <2>1, <2>2 DEF PausesExclude
<1> QED BY <1>1, Invariance, PTL

(* A suspended thread is in the scope of a pause that will let it go.      *)
THEOREM EverySuspensionEnds == Spec => []NobodyIsLeftSuspended
<1>1. Inv => NobodyIsLeftSuspended
  BY DEF Inv, TypeOK, SuspendedByPause, NobodyIsLeftSuspended
<1> QED BY <1>1, Invariance, PTL

-----------------------------------------------------------------------------
(* The GIL.                                                                *)

(* The thread that owes a turn has not left drop_gil: it is on its way to  *)
(* the wait for the switch, or in it, and no other thread has taken over.  *)
DebtorIsInDropGil ==
    owesTurn = {t \in Threads : gilPc[t] \in {"switch", "switchWait"} /\ lastHolder = t}

GilInv ==
    /\ HolderIsKnown
    /\ SwitchIsStillToCome
    /\ DaemonsDoNotRun
    /\ DebtorIsInDropGil

-----------------------------------------------------------------------------
(* The initial states satisfy the invariant.                               *)
LEMMA GilInvInit == GilInit => GilInv
<1> SUFFICES ASSUME GilInit PROVE GilInv
  OBVIOUS
<1> USE DEF GilInit
<1>1. GilTypeOK
  BY DEF GilTypeOK, GilPCs
<1>2. HolderIsKnown
  BY <1>1 DEF HolderIsKnown, Has
<1>3. SwitchIsStillToCome
  BY DEF SwitchIsStillToCome, SwitchWaiters
<1>4. DaemonsDoNotRun
  BY DEF DaemonsDoNotRun
<1>5. DebtorIsInDropGil
  BY DEF DebtorIsInDropGil
<1> QED BY <1>2, <1>3, <1>4, <1>5 DEF GilInv

(* A thread that takes the GIL finds it free, so that nobody runs; the one *)
(* thread that may be waiting for the switch is the one it signals.        *)
LEMMA TakeKeeps ==
    ASSUME GilInv, NEW t \in Threads, Take(t)
    PROVE  GilInv'
<1> USE DEF GilInv, HolderIsKnown, GilTypeOK, Take, TakenAndSignalled, GilGoto, exitVars
<1>1. /\ \A u \in Threads : ~Has(u)
      /\ locked' /\ lastHolder' = t
  BY DEF Has
<1>2. PICK label \in {"run", "giveBack"} : TakenAndSignalled(t, label)
  BY DEF MustExit
<1>3. /\ gilPc' \in [Threads -> GilPCs]
      /\ gilPc'[t] \in {"run", "giveBack"}
      /\ \A u \in Threads \ {t} : gilPc'[u] = gilPc[u] \/ gilPc'[u] = "out"
  BY <1>2, NoneType DEF GilPCs, SwitchWaiters
<1>4. SwitchWaiters' = {}
  BY <1>2, <1>3 DEF SwitchIsStillToCome, SwitchWaiters
<1>5. GilTypeOK'
  BY <1>3
<1>6. HolderIsKnown'
  BY <1>1, <1>3, <1>5, NoneType DEF Has, MustExit, SwitchWaiters
<1>7. SwitchIsStillToCome'
  BY <1>4 DEF SwitchIsStillToCome
<1>8. DaemonsDoNotRun'
  BY <1>1, <1>3 DEF DaemonsDoNotRun, MustExit, Has, SwitchWaiters
<1>9. DebtorIsInDropGil'
  <2>1. owesTurn' = {}
    BY DEF DebtorIsInDropGil
  <2>2. \A u \in Threads : lastHolder' = u => gilPc'[u] \notin {"switch", "switchWait"}
    BY <1>1, <1>3
  <2> QED BY <2>1, <2>2 DEF DebtorIsInDropGil
<1> QED BY <1>6, <1>7, <1>8, <1>9 DEF GilInv

(* Every step keeps it.                                                    *)
LEMMA GilInvStep == GilInv /\ [GilNext]_gilVars => GilInv'
<1> SUFFICES ASSUME GilInv, [GilNext]_gilVars PROVE GilInv'
  OBVIOUS
<1> USE NoneType DEF GilInv, HolderIsKnown, SwitchIsStillToCome, DaemonsDoNotRun,
                     DebtorIsInDropGil, GilTypeOK, GilPCs, Has, SwitchWaiters,
                     MustExit, GilGoto, gilState, loopVars, exitVars
<1>1. ASSUME NEW t \in Threads, Enter(t) PROVE GilInv'
  BY <1>1 DEF Enter
<1>2. ASSUME NEW t \in Threads, Wait(t) PROVE GilInv'
  BY <1>2 DEF Wait
<1>3. ASSUME NEW t \in Threads, WaitAgain(t) PROVE GilInv'
  BY <1>3 DEF WaitAgain
<1>4. ASSUME NEW t \in Threads, RequestDrop(t) PROVE GilInv'
  BY <1>4 DEF RequestDrop
<1>5. ASSUME NEW t \in Threads, Quit(t) PROVE GilInv'
  BY <1>5 DEF Quit
<1>6. ASSUME NEW t \in Threads, Withdraw(t) PROVE GilInv'
  BY <1>6 DEF Withdraw
<1>7. ASSUME NEW t \in Threads, Take(t) PROVE GilInv'
  BY <1>7, TakeKeeps
<1>8. ASSUME NEW t \in Threads, GiveBack(t) PROVE GilInv'
  BY <1>8 DEF GiveBack
<1>9. ASSUME NEW t \in Threads, Drop(t) PROVE GilInv'
  BY <1>9 DEF Drop
<1>10. ASSUME NEW t \in Threads, LookAtRequest(t) PROVE GilInv'
  BY <1>10 DEF LookAtRequest
<1>11. ASSUME NEW t \in Threads, ForceSwitch(t) PROVE GilInv'
  BY <1>11 DEF ForceSwitch
<1>12. ASSUME NEW t \in Threads, DropFinal(t) PROVE GilInv'
  BY <1>12 DEF DropFinal
<1>13. ASSUME NEW t \in Threads, CreateState(t) PROVE GilInv'
  BY <1>13 DEF CreateState
<1>14. ASSUME NEW t \in Threads, Finalize(t) PROVE GilInv'
  BY <1>14 DEF Finalize
<1>15. ASSUME NEW t \in Threads, SpuriousWakeup(t) PROVE GilInv'
  BY <1>15 DEF SpuriousWakeup
<1>16. CASE UNCHANGED gilVars
  BY <1>16 DEF gilVars
<1> QED
  BY <1>1, <1>2, <1>3, <1>4, <1>5, <1>6, <1>7, <1>8, <1>9, <1>10, <1>11,
     <1>12, <1>13, <1>14, <1>15, <1>16
  DEF GilNext, GilStep, HandleDropRequest

(* The invariant holds in every reachable state.                           *)
THEOREM GilInvariance == GilSpec => []GilInv
<1>1. GilInit => GilInv
  BY GilInvInit
<1>2. GilInv /\ [GilNext]_gilVars => GilInv'
  BY GilInvStep
<1> QED BY <1>1, <1>2, PTL DEF GilSpec

-----------------------------------------------------------------------------
(* One thread at most has the GIL, and last_holder names it: a request to  *)
(* drop the GIL is never made to a thread that does not have it.           *)
THEOREM TheHolderIsKnown == GilSpec => []HolderIsKnown
<1>1. GilInv => HolderIsKnown
  BY DEF GilInv
<1> QED BY <1>1, GilInvariance, PTL

(* A thread waits for the switch only while the switch is still to come.   *)
THEOREM NoSwitchIsMissed == GilSpec => []SwitchIsStillToCome
<1>1. GilInv => SwitchIsStillToCome
  BY DEF GilInv
<1> QED BY <1>1, GilInvariance, PTL

(* A thread whose state Py_FinalizeEx has shut down does not run again,    *)
(* whatever other threads, with older or with new states, do meanwhile.    *)
THEOREM NoDaemonRuns == GilSpec => []DaemonsDoNotRun
<1>1. GilInv => DaemonsDoNotRun
  BY DEF GilInv
<1> QED BY <1>1, GilInvariance, PTL

(* A thread that drops the GIL and sees a request does not have it again   *)
(* before another thread has had it, unless its wait ended spuriously.     *)
THEOREM SwitchIsForced == GilSpec => []TurnsAreTaken
<1>1. GilInv => TurnsAreTaken
  BY DEF GilInv, DebtorIsInDropGil, TurnsAreTaken, Has
<1> QED BY <1>1, GilInvariance, PTL
=============================================================================
