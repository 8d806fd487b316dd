------------------------- MODULE CriticalSectionProofs -------------------------
(***************************************************************************)
(* The safety properties of CriticalSection, for every set of threads and  *)
(* of mutexes and every depth of nesting.                                  *)
(*                                                                         *)
(* A thread's sections are suspended together and resumed one at a time,   *)
(* from the top: the active ones are those above some depth.  Only the top *)
(* section can be without mutexes in its fields, and it is exactly while   *)
(* they are being locked.  What a thread owns is named by its sections     *)
(* once, so that the end of one section takes nothing from another.        *)
(*                                                                         *)
(* All of this is said of one thread's stack s, its mutexes to be locked p *)
(* of which k are locked, and its place c; a step changes those of one     *)
(* thread, and the owner of mutexes that are free or this thread's.        *)
(***************************************************************************)
EXTENDS CriticalSection, SequenceTheorems, TLAPS

(* The mutexes are locked in the order of their addresses.                 *)
Ordered(p) == Len(p) = 2 => p[1] < p[2]

(* A mutex is in the fields of an active section; of one below the top.    *)
Named(s, m) == \E i \in 1..Len(s) : s[i].active /\ m \in ToSet(s[i].mutexes)
NamedBelow(s, m) ==
    \E i \in 1..Len(s) :
        i # Len(s) /\ s[i].active /\ m \in ToSet(s[i].mutexes)

AllSuspended(s) == \A i \in 1..Len(s) : ~s[i].active

(* Above an active section every section is active, all but the top one    *)
(* have their mutexes in their fields, and no mutex is in two of them.     *)
Pile(s) ==
    /\ s \in Seq(Sections)
    /\ Len(s) <= MaxNesting
    /\ \A i \in 1..Len(s) : Ordered(s[i].mutexes)
    /\ \A i, j \in 1..Len(s) : i <= j /\ s[i].active => s[j].active
    /\ \A i \in 1..Len(s) : i # Len(s) => s[i].mutexes # <<>>
    /\ \A i, j \in 1..Len(s) :
          s[i].active /\ s[j].active /\ i # j =>
              ToSet(s[i].mutexes) \cap ToSet(s[j].mutexes) = {}

(* While a thread runs its top section is active, while it is detached     *)
(* none is; the top section's fields are empty while it is being locked.   *)
Place(s, p, k, c) ==
    /\ p \in MutexSeqs
    /\ Ordered(p)
    /\ k \in 0..Len(p)
    /\ c \in PCs
    /\ \A a \in 1..k : ~Named(s, p[a])
    /\ c = "run" /\ s # <<>> => s[Len(s)].active
    /\ c \in {"blocked", "detached"} => AllSuspended(s)
    /\ c \in {"run", "detached"} =>
          p = <<>> /\ (s # <<>> => s[Len(s)].mutexes # <<>>)
    /\ c \in {"lock", "blocked"} =>
          k < Len(p) /\ s # <<>> /\ s[Len(s)].mutexes = <<>>

Local(s, p, k, c) == Pile(s) /\ Place(s, p, k, c)

(* A thread owns what its sections name, and what it has locked for the    *)
(* section that it is locking.                                             *)
Taken(p, k, m) == \E a \in 1..k : p[a] = m

OwnersAreNamed ==
    \A t \in Threads, m \in Mutexes :
        owner[m] = t <=> Named(stack[t], m) \/ Taken(pending[t], taken[t], m)

VariablesTyped ==
    /\ owner \in [Mutexes -> Threads \cup {NoThread}]
    /\ stack \in [Threads -> Seq(Sections)]
    /\ pending \in [Threads -> MutexSeqs]
    /\ taken \in [Threads -> Nat]
    /\ pc \in [Threads -> PCs]

Inv ==
    /\ VariablesTyped
    /\ \A t \in Threads : Local(stack[t], pending[t], taken[t], pc[t])
    /\ OwnersAreNamed

-----------------------------------------------------------------------------
(* A section's mutexes are at most two, and they are a sequence.           *)
LEMMA MutexSeqFacts ==
    ASSUME NEW p \in MutexSeqs
    PROVE  /\ p \in Seq(Mutexes)
           /\ Len(p) \in 0..2
           /\ p = <<>> <=> Len(p) = 0
           /\ ToSet(p) \subseteq Mutexes
           /\ \A m : m \in ToSet(p) <=> \E a \in 1..Len(p) : p[a] = m
<1>1. CASE p = <<>>
  BY <1>1 DEF ToSet
<1>2. CASE \E m \in Mutexes : p = <<m>>
  BY <1>2 DEF ToSet
<1>3. CASE \E m, n \in Mutexes : p = <<m, n>>
  BY <1>3 DEF ToSet
<1> QED BY <1>1, <1>2, <1>3 DEF MutexSeqs

(* The mutexes of a section in a stack.                                    *)
LEMMA SectionFacts ==
    ASSUME NEW s \in Seq(Sections), NEW i \in 1..Len(s)
    PROVE  /\ s[i] \in Sections
           /\ s[i].mutexes \in MutexSeqs
<1>1. s[i] \in Sections
  OBVIOUS
<1> QED BY <1>1 DEF Sections

(* Popping the top section leaves those below.                             *)
LEMMA FrontFacts ==
    ASSUME NEW s \in Seq(Sections), s # <<>>
    PROVE  /\ Front(s) \in Seq(Sections)
           /\ Len(s) \in Nat \ {0}
           /\ Len(Front(s)) = Len(s) - 1
           /\ \A i \in 1..Len(s) : i # Len(s) => Front(s)[i] = s[i]
           /\ Front(s) = <<>> <=> Len(s) = 1
<1>1. Len(s) \in Nat \ {0}
  OBVIOUS
<1> DEFINE n == Len(s) - 1
           f == SubSeq(s, 1, n)
<1>2. n \in Nat /\ \A i \in 1..n : s[i] \in Sections
  BY <1>1
<1> HIDE DEF n, f
<1>3. /\ f \in Seq(Sections)
      /\ Len(f) = IF 1 <= n THEN n - 1 + 1 ELSE 0
      /\ \A i \in 1..n - 1 + 1 : f[i] = s[1 + i - 1]
  BY <1>2, SubSeqProperties DEF f
<1>4. Len(f) = n /\ \A i \in 1..n : f[i] = s[i]
  BY <1>2, <1>3
<1>5. f = <<>> <=> Len(f) = 0
  BY <1>3
<1> QED BY <1>1, <1>3, <1>4, <1>5 DEF Front, f, n

(* Replacing the top section leaves those below.                           *)
LEMMA WithTopFacts ==
    ASSUME NEW s \in Seq(Sections), s # <<>>, NEW e \in Sections
    PROVE  /\ WithTop(s, e) \in Seq(Sections)
           /\ Len(WithTop(s, e)) = Len(s)
           /\ Len(s) \in Nat \ {0}
           /\ WithTop(s, e)[Len(s)] = e
           /\ WithTop(s, e)[Len(WithTop(s, e))] = e
           /\ WithTop(s, e) # <<>>
           /\ \A i \in 1..Len(s) : i # Len(s) => WithTop(s, e)[i] = s[i]
<1>1. Len(s) \in Nat \ {0}
  OBVIOUS
<1> DEFINE f == Front(s)
<1>2. /\ f \in Seq(Sections)
      /\ Len(f) = Len(s) - 1
      /\ \A i \in 1..Len(s) - 1 : f[i] = s[i]
  BY <1>1, FrontFacts
<1> HIDE DEF f
<1>3. WithTop(s, e) = Append(f, e)
  BY DEF WithTop, f
<1> QED BY <1>1, <1>2, <1>3

(* Active sections are those above some depth.                             *)
LEMMA ActiveOnTop ==
    ASSUME NEW s, Pile(s)
    PROVE  /\ ActivePart(s) = {i \in 1..Len(s) : s[i].active}
           /\ \A m : m \in UNION {ToSet(s[i].mutexes) : i \in ActivePart(s)}
                     <=> Named(s, m)
<1>1. ActivePart(s) = {i \in 1..Len(s) : s[i].active}
  BY DEF ActivePart, Pile
<1> QED BY <1>1 DEF Named

(* What the top section names, the sections below do not.                  *)
LEMMA TopAndBelow ==
    ASSUME NEW s, Pile(s), s # <<>>
    PROVE  /\ \A m : Named(s, m) <=>
                 \/ NamedBelow(s, m)
                 \/ s[Len(s)].active /\ m \in ToSet(s[Len(s)].mutexes)
           /\ s[Len(s)].active =>
                 \A m \in ToSet(s[Len(s)].mutexes) : ~NamedBelow(s, m)
<1>1. Len(s) \in 1..Len(s)
  BY DEF Pile
<1> QED BY <1>1 DEF Pile, Named, NamedBelow

(* The top section is replaced.                                            *)
LEMMA PileWithTop ==
    ASSUME NEW s, Pile(s), s # <<>>, NEW e \in Sections,
           Ordered(e.mutexes),
           e.active \/ \A i \in 1..Len(s) : i # Len(s) => ~s[i].active,
           e.active => \A m \in ToSet(e.mutexes) : ~NamedBelow(s, m)
    PROVE  /\ Pile(WithTop(s, e))
           /\ \A m : Named(WithTop(s, e), m) <=>
                 NamedBelow(s, m) \/ (e.active /\ m \in ToSet(e.mutexes))
<1> DEFINE r == WithTop(s, e)
<1>1. /\ r \in Seq(Sections)
      /\ Len(r) = Len(s)
      /\ Len(s) \in Nat \ {0}
      /\ r[Len(s)] = e
      /\ \A i \in 1..Len(s) : i # Len(s) => r[i] = s[i]
  BY WithTopFacts DEF Pile
<1> HIDE DEF r
<1>2. Pile(r)
  <2>1. \A i, j \in 1..Len(r) : i <= j /\ r[i].active => r[j].active
    BY <1>1 DEF Pile
  <2>2. ASSUME NEW i \in 1..Len(r), NEW j \in 1..Len(r),
               r[i].active, r[j].active, i # j
        PROVE  ToSet(r[i].mutexes) \cap ToSet(r[j].mutexes) = {}
    <3>1. CASE i = Len(s)
      BY <1>1, <2>2, <3>1 DEF NamedBelow
    <3>2. CASE j = Len(s)
      BY <1>1, <2>2, <3>2 DEF NamedBelow
    <3>3. CASE i # Len(s) /\ j # Len(s)
      BY <1>1, <2>2, <3>3 DEF Pile
    <3> QED BY <3>1, <3>2, <3>3
  <2>3. \A i \in 1..Len(r) :
           Ordered(r[i].mutexes) /\ (i # Len(r) => r[i].mutexes # <<>>)
    BY <1>1 DEF Pile
  <2> QED BY <1>1, <2>1, <2>2, <2>3 DEF Pile
<1>3. \A m : Named(r, m) <=>
          NamedBelow(s, m) \/ (e.active /\ m \in ToSet(e.mutexes))
  BY <1>1 DEF Named, NamedBelow
<1> QED BY <1>2, <1>3 DEF r

(* The top section is popped.                                              *)
LEMMA PileFront ==
    ASSUME NEW s, Pile(s), s # <<>>
    PROVE  /\ Pile(Front(s))
           /\ \A m : Named(Front(s), m) <=> NamedBelow(s, m)
           /\ Front(s) # <<>> => Front(s)[Len(Front(s))].mutexes # <<>>
<1> DEFINE r == Front(s)
<1>1. /\ r \in Seq(Sections)
      /\ Len(s) \in Nat \ {0}
      /\ Len(r) = Len(s) - 1
      /\ \A i \in 1..Len(r) : r[i] = s[i] /\ i \in 1..Len(s) /\ i # Len(s)
      /\ r = <<>> <=> Len(s) = 1
      /\ \A i \in 1..Len(s) : i # Len(s) => i \in 1..Len(r)
  <2>1. /\ r \in Seq(Sections)
        /\ Len(s) \in Nat \ {0}
        /\ Len(r) = Len(s) - 1
        /\ \A i \in 1..Len(s) : i # Len(s) => r[i] = s[i]
        /\ r = <<>> <=> Len(s) = 1
    BY FrontFacts DEF Pile
  <2> HIDE DEF r
  <2> QED BY <2>1
<1> HIDE DEF r
<1>2. Pile(r)
  <2>1. /\ \A i \in 1..Len(r) : Ordered(r[i].mutexes)
        /\ \A i \in 1..Len(r) : r[i].mutexes # <<>>
    BY <1>1 DEF Pile
  <2>4. Len(r) <= MaxNesting
    BY <1>1, NestingType DEF Pile
  <2>2. \A i, j \in 1..Len(r) : i <= j /\ r[i].active => r[j].active
    BY <1>1 DEF Pile
  <2>3. ASSUME NEW i \in 1..Len(r), NEW j \in 1..Len(r),
               r[i].active, r[j].active, i # j
        PROVE  ToSet(r[i].mutexes) \cap ToSet(r[j].mutexes) = {}
    <3>1. /\ r[i] = s[i] /\ i \in 1..Len(s)
          /\ r[j] = s[j] /\ j \in 1..Len(s)
      BY <1>1
    <3> QED BY <2>3, <3>1 DEF Pile
  <2> QED BY <1>1, <2>1, <2>2, <2>3, <2>4 DEF Pile
<1>3. \A m : Named(r, m) <=> NamedBelow(s, m)
  BY <1>1 DEF Named, NamedBelow
<1>4. r # <<>> => r[Len(r)].mutexes # <<>>
  BY <1>1 DEF Pile
<1> QED BY <1>2, <1>3, <1>4 DEF r

(* A section without mutexes is pushed.                                    *)
LEMMA PilePush ==
    ASSUME NEW s, Pile(s), Len(s) < MaxNesting,
           s # <<>> => s[Len(s)].mutexes # <<>>
    PROVE  LET r == Append(s, [mutexes |-> <<>>, active |-> TRUE])
           IN  /\ Pile(r)
               /\ \A m : Named(r, m) <=> Named(s, m)
               /\ r # <<>> /\ r[Len(r)].mutexes = <<>>
<1> DEFINE e == [mutexes |-> <<>>, active |-> TRUE]
           r == Append(s, e)
<1>1. e \in Sections
  BY DEF Sections, MutexSeqs
<1>2. /\ r \in Seq(Sections)
      /\ Len(s) \in Nat
      /\ Len(r) = Len(s) + 1
      /\ r[Len(r)] = e
      /\ \A i \in 1..Len(r) : i # Len(r) => r[i] = s[i] /\ i \in 1..Len(s)
      /\ \A i \in 1..Len(s) : i \in 1..Len(r) /\ i # Len(r)
      /\ r # <<>>
      /\ s = <<>> <=> Len(s) = 0
  <2>1. s \in Seq(Sections)
    BY DEF Pile
  <2> HIDE DEF e
  <2>2. /\ r \in Seq(Sections)
        /\ Len(s) \in Nat
        /\ Len(r) = Len(s) + 1
        /\ r[Len(s) + 1] = e
        /\ \A i \in 1..Len(s) : r[i] = s[i]
        /\ s = <<>> <=> Len(s) = 0
    BY <1>1, <2>1
  <2> HIDE DEF r
  <2> QED BY <2>2
<1>3. /\ e.mutexes = <<>> /\ e.active /\ ToSet(<<>>) = {}
      /\ Ordered(<<>>)
  BY DEF ToSet, Ordered
<1> HIDE DEF r, e
<1>4. Pile(r)
  <2>1. \A i, j \in 1..Len(r) : i <= j /\ r[i].active => r[j].active
    BY <1>2, <1>3 DEF Pile
  <2>2. ASSUME NEW i \in 1..Len(r), NEW j \in 1..Len(r),
               r[i].active, r[j].active, i # j
        PROVE  ToSet(r[i].mutexes) \cap ToSet(r[j].mutexes) = {}
    <3>1. CASE i = Len(r) \/ j = Len(r)
      BY <1>2, <1>3, <3>1
    <3>2. CASE i # Len(r) /\ j # Len(r)
      BY <1>2, <2>2, <3>2 DEF Pile
    <3> QED BY <3>1, <3>2
  <2>3. \A i \in 1..Len(r) : Ordered(r[i].mutexes)
    BY <1>2, <1>3 DEF Pile
  <2>4. \A i \in 1..Len(r) : i # Len(r) => r[i].mutexes # <<>>
    <3> SUFFICES ASSUME NEW i \in 1..Len(r), i # Len(r)
                 PROVE  s[i].mutexes # <<>>
      BY <1>2
    <3> QED BY <1>2 DEF Pile
  <2>5. Len(r) <= MaxNesting
    BY <1>2, NestingType
  <2> QED BY <1>2, <2>1, <2>2, <2>3, <2>4, <2>5 DEF Pile
<1>5. \A m : Named(r, m) <=> Named(s, m)
  BY <1>2, <1>3 DEF Named
<1> QED BY <1>2, <1>3, <1>4, <1>5 DEF r, e

(* All active sections are suspended.                                      *)
LEMMA PileSuspended ==
    ASSUME NEW s, Pile(s)
    PROVE  LET r == [i \in 1..Len(s) |->
                       IF i \in ActivePart(s)
                       THEN [s[i] EXCEPT !.active = FALSE] ELSE s[i]]
           IN  /\ Pile(r)
               /\ AllSuspended(r)
               /\ \A m : ~Named(r, m)
               /\ Len(r) = Len(s)
               /\ r = <<>> <=> s = <<>>
               /\ s # <<>> => r[Len(r)].mutexes = s[Len(s)].mutexes
<1> DEFINE r == [i \in 1..Len(s) |->
                   IF i \in ActivePart(s)
                   THEN [s[i] EXCEPT !.active = FALSE] ELSE s[i]]
<1>1. /\ s \in Seq(Sections)
      /\ Len(s) \in Nat
      /\ s = <<>> <=> Len(s) = 0
  BY DEF Pile
<1>2. \A i \in 1..Len(s) :
         r[i] = IF s[i].active THEN [s[i] EXCEPT !.active = FALSE] ELSE s[i]
  BY ActiveOnTop
<1>3. \A i \in 1..Len(s) :
         r[i] \in Sections /\ ~r[i].active /\ r[i].mutexes = s[i].mutexes
  <2> TAKE i \in 1..Len(s)
  <2>1. s[i] \in Sections
    BY <1>1
  <2> HIDE DEF r
  <2>2. CASE s[i].active
    BY <1>2, <2>1, <2>2 DEF Sections
  <2>3. CASE ~s[i].active
    BY <1>2, <2>1, <2>3 DEF Sections
  <2> QED BY <2>2, <2>3
<1>4. r \in Seq(Sections) /\ Len(r) = Len(s) /\ (r = <<>> <=> Len(r) = 0)
  <2>1. r \in [1..Len(s) -> Sections]
    BY <1>3
  <2> HIDE DEF r
  <2> QED BY <1>1, <2>1
<1> HIDE DEF r
<1>5. Pile(r)
  BY <1>3, <1>4 DEF Pile
<1>6. AllSuspended(r) /\ \A m : ~Named(r, m)
  BY <1>3, <1>4 DEF AllSuspended, Named
<1>7. s # <<>> => r[Len(r)].mutexes = s[Len(s)].mutexes
  BY <1>1, <1>3, <1>4
<1> QED BY <1>1, <1>4, <1>5, <1>6, <1>7 DEF r

-----------------------------------------------------------------------------
(* A step of one thread keeps the invariant if it leaves the thread a      *)
(* proper stack, and has it own what that stack names.                     *)
LEMMA StepKeeps ==
    ASSUME Inv, NEW t \in Threads,
           NEW s, NEW p, NEW k, NEW c, Local(s, p, k, c),
           stack' = [stack EXCEPT ![t] = s],
           pending' = [pending EXCEPT ![t] = p],
           taken' = [taken EXCEPT ![t] = k],
           pc' = [pc EXCEPT ![t] = c],
           owner' \in [Mutexes -> Threads \cup {NoThread}],
           \A m \in Mutexes :
               /\ owner'[m] = t <=> Named(s, m) \/ Taken(p, k, m)
               /\ owner'[m] # owner[m] =>
                     {owner[m], owner'[m]} \subseteq {t, NoThread}
    PROVE  Inv'
<1>1. VariablesTyped'
  BY MutexSeqFacts DEF Inv, VariablesTyped, Local, Pile, Place
<1>2. \A u \in Threads : Local(stack'[u], pending'[u], taken'[u], pc'[u])
  <2> TAKE u \in Threads
  <2>1. CASE u = t
    BY <2>1 DEF Inv, VariablesTyped
  <2>2. CASE u # t
    BY <2>2 DEF Inv, VariablesTyped
  <2> QED BY <2>1, <2>2
<1>3. OwnersAreNamed'
  <2> SUFFICES ASSUME NEW u \in Threads, NEW m \in Mutexes
               PROVE  owner'[m] = u <=>
                        \/ Named(stack'[u], m)
                        \/ Taken(pending'[u], taken'[u], m)
    BY DEF OwnersAreNamed
  <2>1. CASE u = t
    BY <2>1 DEF Inv, VariablesTyped
  <2>2. CASE u # t
    <3>1. owner'[m] = u <=> owner[m] = u
      BY <2>2, NoThreadType
    <3> QED BY <2>2, <3>1 DEF Inv, VariablesTyped, OwnersAreNamed
  <2> QED BY <2>1, <2>2
<1> QED BY <1>1, <1>2, <1>3 DEF Inv

(* Nobody owns a mutex at first.                                           *)
LEMMA InvInit == Init => Inv
<1> SUFFICES ASSUME Init PROVE Inv
  OBVIOUS
<1>1. VariablesTyped
  BY DEF Init, VariablesTyped, MutexSeqs, PCs
<1>2. \A t \in Threads : Local(stack[t], pending[t], taken[t], pc[t])
  BY NestingType DEF Init, Local, Pile, Place, Named, Ordered, AllSuspended,
     MutexSeqs, PCs
<1>3. OwnersAreNamed
  BY NoThreadType DEF Init, OwnersAreNamed, Named, Taken
<1> QED BY <1>1, <1>2, <1>3 DEF Inv

(* The beginning of a section.                                             *)
LEMMA PushKeeps ==
    ASSUME Inv, NEW t \in Threads, NEW ms \in MutexSeqs,
           ms # <<>>, Ordered(ms),
           pc[t] = "run", Len(stack[t]) < MaxNesting, Push(t, ms)
    PROVE  Inv'
<1> DEFINE s == stack[t]
           r == Append(s, [mutexes |-> <<>>, active |-> TRUE])
<1>1. Pile(s) /\ Place(s, pending[t], taken[t], "run")
  BY DEF Inv, Local
<1>2. /\ Pile(r)
      /\ \A m : Named(r, m) <=> Named(s, m)
      /\ r # <<>> /\ r[Len(r)].mutexes = <<>>
  BY <1>1, PilePush DEF Place
<1>3. /\ stack' = [stack EXCEPT ![t] = r]
      /\ pending' = [pending EXCEPT ![t] = ms]
      /\ taken' = [taken EXCEPT ![t] = 0]
      /\ pc' = [pc EXCEPT ![t] = "lock"]
      /\ owner' = owner
  BY DEF Push, Goto
<1> HIDE DEF r
<1>4. Place(r, ms, 0, "lock")
  BY <1>2, MutexSeqFacts DEF Place, PCs
<1>5. pending[t] = <<>> /\ taken[t] = 0
  BY <1>1 DEF Place
<1>6. \A m \in Mutexes : owner[m] = t <=> Named(r, m) \/ Taken(ms, 0, m)
  BY <1>2, <1>5 DEF Inv, OwnersAreNamed, Taken
<1>7. owner' \in [Mutexes -> Threads \cup {NoThread}]
  BY <1>3 DEF Inv, VariablesTyped
<1>8. Local(r, ms, 0, "lock")
  BY <1>2, <1>4 DEF Local
<1> QED BY <1>3, <1>6, <1>7, <1>8, StepKeeps, ZenonT(60)

(* PyMutex_Lock gets the next mutex of the section on top.                 *)
LEMMA TakeNextKeeps ==
    ASSUME Inv, NEW t \in Threads, pc[t] \in {"lock", "blocked"}, TakeNext(t)
    PROVE  Inv'
<1> DEFINE s == stack[t]
           p == pending[t]
           k == taken[t]
           w == p[k + 1]
<1>1. Pile(s) /\ Place(s, p, k, pc[t])
  BY DEF Inv, Local
<1>2. /\ s # <<>> /\ s[Len(s)].mutexes = <<>> /\ Len(s) \in Nat \ {0}
      /\ s[Len(s)].active \in {TRUE, FALSE}
      /\ \A i \in 1..Len(s) : s[i].active => s[Len(s)].active
      /\ p \in MutexSeqs /\ p \in Seq(Mutexes) /\ k \in Nat /\ k < Len(p)
      /\ w \in Mutexes
  <2>1. s # <<>> /\ s[Len(s)].mutexes = <<>> /\ k \in Nat /\ k < Len(p)
    BY <1>1 DEF Place
  <2>2. p \in MutexSeqs /\ p \in Seq(Mutexes)
    BY <1>1, MutexSeqFacts DEF Place
  <2>3. Len(s) \in Nat \ {0} /\ s \in Seq(Sections)
    BY <1>1, <2>1 DEF Pile
  <2>4. w \in Mutexes
    BY <2>1, <2>2
  <2>5. \A i \in 1..Len(s) : s[i].active => s[Len(s)].active
    BY <1>1, <2>3 DEF Pile
  <2>6. s[Len(s)].active \in {TRUE, FALSE}
    <3>1. Len(s) \in 1..Len(s)
      BY <2>3
    <3>2. s[Len(s)] \in Sections
      BY <2>3, <3>1
    <3> QED BY <3>2 DEF Sections
  <2> QED BY <2>1, <2>2, <2>3, <2>4, <2>5, <2>6
<1>3. owner[w] = NoThread /\ owner' = [owner EXCEPT ![w] = t]
  BY DEF TakeNext, Wanted
<1>4. \A m \in Mutexes : owner[m] = t <=> Named(s, m) \/ Taken(p, k, m)
  BY DEF Inv, OwnersAreNamed
<1>5. ~Named(s, w) /\ \A a \in 1..k : ~Named(s, p[a])
  BY <1>1, <1>2, <1>3, <1>4, NoThreadType DEF Place
<1>6. \A m : Named(s, m) <=> NamedBelow(s, m)
  BY <1>1, <1>2, TopAndBelow DEF ToSet
<1>7. \A a \in 1..k + 1 : ~Named(s, p[a])
  BY <1>2, <1>5
<1>8. \A m : Taken(p, k + 1, m) <=> Taken(p, k, m) \/ m = w
  BY <1>2 DEF Taken
<1>9. /\ owner' \in [Mutexes -> Threads \cup {NoThread}]
      /\ \A m \in Mutexes :
            /\ owner'[m] = t <=> Named(s, m) \/ Taken(p, k + 1, m)
            /\ owner'[m] # owner[m] =>
                  {owner[m], owner'[m]} \subseteq {t, NoThread}
  <2> HIDE DEF s, p, k, w
  <2> QED BY <1>2, <1>3, <1>4, <1>8 DEF Inv, VariablesTyped
<1>10. Ordered(<<>>) /\ ToSet(<<>>) = {} /\ <<>> \in MutexSeqs /\ Len(<<>>) = 0
  BY DEF Ordered, ToSet, MutexSeqs
<1>11. CASE k + 1 < Len(p)
  <2> DEFINE e == [mutexes |-> <<>>, active |-> s[Len(s)].active]
             r == WithTop(s, e)
  <2>1. /\ stack' = [stack EXCEPT ![t] = r]
        /\ pending' = [pending EXCEPT ![t] = p]
        /\ taken' = [taken EXCEPT ![t] = k + 1]
        /\ pc' = [pc EXCEPT ![t] = "lock"]
    BY <1>11 DEF TakeNext, Goto, Top, Last, Inv, VariablesTyped
  <2>2. e \in Sections /\ e.mutexes = <<>> /\ e.active = s[Len(s)].active
    BY <1>2, <1>10 DEF Sections
  <2> HIDE DEF e
  <2>3. r # <<>> /\ r[Len(r)] = e
    BY <1>1, <1>2, <2>2, WithTopFacts DEF Pile
  <2>4. Pile(r) /\ \A m : Named(r, m) <=> Named(s, m)
    <3>1. e.active \/ \A i \in 1..Len(s) : i # Len(s) => ~s[i].active
      BY <1>2, <2>2
    <3>2. \A m \in ToSet(e.mutexes) : ~NamedBelow(s, m)
      BY <1>10, <2>2
    <3>3. Ordered(e.mutexes)
      BY <1>10, <2>2
    <3> HIDE DEF s
    <3> QED BY <1>1, <1>2, <1>6, <1>10, <2>2, <3>1, <3>2, <3>3, PileWithTop
  <2> HIDE DEF r, s
  <2>5. Local(r, p, k + 1, "lock")
    BY <1>1, <1>2, <1>7, <1>11, <2>2, <2>3, <2>4 DEF Local, Place, PCs
  <2>6. \A m \in Mutexes :
           /\ owner'[m] = t <=> Named(r, m) \/ Taken(p, k + 1, m)
           /\ owner'[m] # owner[m] =>
                 {owner[m], owner'[m]} \subseteq {t, NoThread}
    BY <1>9, <2>4
  <2> HIDE DEF p, k
  <2> QED BY <1>9, <2>1, <2>5, <2>6, StepKeeps
<1>12. CASE ~(k + 1 < Len(p))
  <2> DEFINE e == [mutexes |-> p, active |-> TRUE]
             r == WithTop(s, e)
  <2>1. /\ stack' = [stack EXCEPT ![t] = r]
        /\ pending' = [pending EXCEPT ![t] = <<>>]
        /\ taken' = [taken EXCEPT ![t] = 0]
        /\ pc' = [pc EXCEPT ![t] = "run"]
    BY <1>12 DEF TakeNext, Goto, Top, Last, Inv, VariablesTyped
  <2>2. e \in Sections /\ e.mutexes = p /\ e.active
    BY <1>2 DEF Sections
  <2> HIDE DEF e
  <2>3. r # <<>> /\ r[Len(r)] = e
    BY <1>1, <1>2, <2>2, WithTopFacts DEF Pile
  <2>4. k + 1 = Len(p) /\ p # <<>>
    BY <1>2, <1>12
  <2>5. \A m : m \in ToSet(p) <=> Taken(p, k + 1, m)
    <3> HIDE DEF p, k
    <3> QED BY <1>2, <2>4, MutexSeqFacts DEF Taken
  <2>6. Pile(r) /\ \A m : Named(r, m) <=> Named(s, m) \/ Taken(p, k + 1, m)
    <3>1. \A m \in ToSet(p) : ~NamedBelow(s, m)
      BY <1>6, <1>7, <2>5 DEF Taken
    <3>2. Ordered(p)
      BY <1>1 DEF Place
    <3> HIDE DEF s, p, k
    <3> QED BY <1>1, <1>2, <1>6, <2>2, <2>5, <3>1, <3>2, PileWithTop
  <2> HIDE DEF r, s
  <2>7. Local(r, <<>>, 0, "run")
    BY <1>10, <2>2, <2>3, <2>4, <2>6 DEF Local, Place, PCs
  <2>8. \A m \in Mutexes :
           /\ owner'[m] = t <=> Named(r, m) \/ Taken(<<>>, 0, m)
           /\ owner'[m] # owner[m] =>
                 {owner[m], owner'[m]} \subseteq {t, NoThread}
    BY <1>9, <2>6 DEF Taken
  <2> QED BY <1>9, <2>1, <2>7, <2>8, StepKeeps
<1> QED BY <1>11, <1>12

(* A detach suspends all sections; what has been locked for the section on *)
(* top stays locked.                                                       *)
LEMMA SuspendKeeps ==
    ASSUME Inv, NEW t \in Threads, NEW c,
           \/ pc[t] = "lock" /\ c = "blocked"
           \/ pc[t] = "run" /\ c = "detached",
           SuspendAll(t), Goto(t, c), UNCHANGED <<pending, taken>>
    PROVE  Inv'
<1> DEFINE s == stack[t]
           p == pending[t]
           k == taken[t]
           r == [i \in 1..Len(s) |->
                   IF i \in ActivePart(s)
                   THEN [s[i] EXCEPT !.active = FALSE] ELSE s[i]]
           ms == UNION {ToSet(s[i].mutexes) : i \in ActivePart(s)}
<1>1. Pile(s) /\ Place(s, p, k, pc[t])
  BY DEF Inv, Local
<1>2. /\ stack' = [stack EXCEPT ![t] = r]
      /\ owner' = [m \in Mutexes |-> IF m \in ms THEN NoThread ELSE owner[m]]
  BY DEF SuspendAll, Free
<1>3. /\ pending' = [pending EXCEPT ![t] = p]
      /\ taken' = [taken EXCEPT ![t] = k]
      /\ pc' = [pc EXCEPT ![t] = c]
  BY DEF Goto, Inv, VariablesTyped
<1>4. \A m : m \in ms <=> Named(s, m)
  BY <1>1, ActiveOnTop
<1>5. /\ Pile(r) /\ AllSuspended(r) /\ \A m : ~Named(r, m)
      /\ r = <<>> <=> s = <<>>
      /\ s # <<>> => r[Len(r)].mutexes = s[Len(s)].mutexes
  BY <1>1, PileSuspended
<1>6. \A m \in Mutexes : owner[m] = t <=> Named(s, m) \/ Taken(p, k, m)
  BY DEF Inv, OwnersAreNamed
<1> HIDE DEF r, ms, s
<1>7. Local(r, p, k, c)
  BY <1>1, <1>5 DEF Local, Place, PCs
<1>8. \A m : Taken(p, k, m) => ~Named(s, m)
  BY <1>1 DEF Place, Taken
<1>9. /\ owner' \in [Mutexes -> Threads \cup {NoThread}]
      /\ \A m \in Mutexes :
            /\ owner'[m] = t <=> Named(r, m) \/ Taken(p, k, m)
            /\ owner'[m] # owner[m] =>
                  {owner[m], owner'[m]} \subseteq {t, NoThread}
  <2>1. owner \in [Mutexes -> Threads \cup {NoThread}]
    BY DEF Inv, VariablesTyped
  <2> HIDE DEF p, k
  <2> QED BY <1>2, <1>4, <1>5, <1>6, <1>8, <2>1, NoThreadType
<1> HIDE DEF p, k
<1> QED BY <1>2, <1>3, <1>7, <1>9, StepKeeps

(* A suspended section at the top of what is left of the stack is resumed: *)
(* its mutexes are to be locked again.                                     *)
LEMMA ResumeKeeps ==
    ASSUME Inv, NEW t \in Threads, NEW s, Pile(s), s # <<>>,
           ~s[Len(s)].active, s[Len(s)].mutexes # <<>>,
           Resume(t, s),
           owner' \in [Mutexes -> Threads \cup {NoThread}],
           \A m \in Mutexes :
               /\ owner'[m] # t
               /\ owner'[m] # owner[m] =>
                     {owner[m], owner'[m]} \subseteq {t, NoThread}
    PROVE  Inv'
<1> DEFINE ms == s[Len(s)].mutexes
           e == [mutexes |-> <<>>, active |-> FALSE]
           r == WithTop(s, e)
<1>1. s \in Seq(Sections) /\ Len(s) \in 1..Len(s)
  BY DEF Pile
<1>2. ms \in MutexSeqs /\ Ordered(ms) /\ Len(ms) > 0
  <2>1. ms \in MutexSeqs
    BY <1>1, SectionFacts
  <2>2. Ordered(ms)
    BY <1>1 DEF Pile
  <2> HIDE DEF ms
  <2>3. Len(ms) \in Nat /\ Len(ms) # 0
    BY <2>1, MutexSeqFacts DEF ms
  <2> QED BY <2>1, <2>2, <2>3
<1>3. /\ stack' = [stack EXCEPT ![t] = r]
      /\ pending' = [pending EXCEPT ![t] = ms]
      /\ taken' = [taken EXCEPT ![t] = 0]
      /\ pc' = [pc EXCEPT ![t] = "lock"]
  BY DEF Resume, Goto, Last
<1>4. e \in Sections /\ e.mutexes = <<>> /\ ~e.active /\ Ordered(<<>>)
  BY DEF Sections, MutexSeqs, Ordered
<1>5. \A i \in 1..Len(s) : ~s[i].active
  BY <1>1 DEF Pile
<1> HIDE DEF e
<1>6. r # <<>> /\ r[Len(r)] = e
  BY <1>1, <1>4, WithTopFacts
<1>7. Pile(r) /\ \A m : ~Named(r, m)
  BY <1>4, <1>5, PileWithTop DEF NamedBelow
<1> HIDE DEF r, ms
<1>8. Local(r, ms, 0, "lock")
  BY <1>2, <1>4, <1>6, <1>7 DEF Local, Place, PCs
<1>9. \A m \in Mutexes : owner'[m] = t <=> Named(r, m) \/ Taken(ms, 0, m)
  BY <1>7 DEF Taken
<1> QED BY <1>3, <1>8, <1>9, StepKeeps

(* The thread attaches, with nothing to resume or with its top section.    *)
LEMMA AttachKeeps ==
    ASSUME Inv, NEW t \in Threads, Attach(t)
    PROVE  Inv'
<1> DEFINE s == stack[t]
           p == pending[t]
           k == taken[t]
<1>1. Pile(s) /\ Place(s, p, k, "detached")
  BY DEF Attach, Inv, Local
<1>2. /\ owner' \in [Mutexes -> Threads \cup {NoThread}]
      /\ owner' = owner
  BY DEF Attach, Inv, VariablesTyped
<1>3. p = <<>> /\ k = 0 /\ Len(<<>>) = 0 /\ AllSuspended(s)
  BY <1>1 DEF Place
<1>4. \A m \in Mutexes : owner[m] # t
  BY <1>3 DEF Inv, OwnersAreNamed, AllSuspended, Named, Taken
<1>5. CASE s = <<>> /\ Goto(t, "run") /\ UNCHANGED <<stack, pending, taken>>
  <2>1. /\ stack' = [stack EXCEPT ![t] = s]
        /\ pending' = [pending EXCEPT ![t] = p]
        /\ taken' = [taken EXCEPT ![t] = k]
        /\ pc' = [pc EXCEPT ![t] = "run"]
    BY <1>5 DEF Goto, Inv, VariablesTyped
  <2>2. Local(s, p, k, "run")
    BY <1>1, <1>3, <1>5 DEF Local, Place, PCs
  <2>3. \A m \in Mutexes : owner'[m] = t <=> Named(s, m) \/ Taken(p, k, m)
    BY <1>2 DEF Inv, OwnersAreNamed
  <2> HIDE DEF s, p, k
  <2> QED BY <1>2, <2>1, <2>2, <2>3, StepKeeps
<1>6. CASE s # <<>> /\ Resume(t, s)
  <2>1. ~s[Len(s)].active /\ s[Len(s)].mutexes # <<>>
    BY <1>1, <1>6 DEF Place, AllSuspended, Pile
  <2> HIDE DEF s
  <2> QED BY <1>1, <1>2, <1>4, <1>6, <2>1, ResumeKeeps
<1> QED BY <1>5, <1>6 DEF Attach

(* A thread that was blocked attaches: its top section has no mutexes yet. *)
LEMMA WakeKeeps ==
    ASSUME Inv, NEW t \in Threads, Wake(t)
    PROVE  Inv'
<1> DEFINE s == stack[t]
           p == pending[t]
           k == taken[t]
           e == [s[Len(s)] EXCEPT !.active = TRUE]
           r == WithTop(s, e)
<1>1. Pile(s) /\ Place(s, p, k, "blocked")
  BY DEF Wake, Inv, Local
<1>2. /\ s # <<>> /\ s[Len(s)].mutexes = <<>> /\ AllSuspended(s)
      /\ s \in Seq(Sections) /\ Len(s) \in 1..Len(s)
  <2>1. s # <<>> /\ s[Len(s)].mutexes = <<>> /\ AllSuspended(s)
    BY <1>1 DEF Place
  <2>2. s \in Seq(Sections)
    BY <1>1 DEF Pile
  <2> HIDE DEF s
  <2> QED BY <2>1, <2>2
<1>3. /\ stack' = [stack EXCEPT ![t] = r]
      /\ pending' = [pending EXCEPT ![t] = p]
      /\ taken' = [taken EXCEPT ![t] = k]
      /\ pc' = [pc EXCEPT ![t] = "lock"]
      /\ owner' = owner
  BY DEF Wake, Goto, Top, Last, Inv, VariablesTyped
<1>4. e \in Sections /\ e.mutexes = <<>> /\ e.active
  <2>1. s[Len(s)] \in Sections
    BY <1>2
  <2> HIDE DEF s
  <2> QED BY <1>2, <2>1 DEF Sections
<1> HIDE DEF e, s
<1>5. ToSet(<<>>) = {} /\ Ordered(<<>>)
  BY DEF ToSet, Ordered
<1>6. /\ Pile(r)
      /\ \A m : Named(r, m) <=> NamedBelow(s, m)
      /\ r # <<>> /\ r[Len(r)] = e
  BY <1>1, <1>2, <1>4, <1>5, PileWithTop, WithTopFacts
<1>7. \A m : ~Named(r, m) /\ ~Named(s, m)
  BY <1>2, <1>6 DEF NamedBelow, Named, AllSuspended
<1> HIDE DEF r
<1>8. Local(r, p, k, "lock")
  BY <1>1, <1>4, <1>6, <1>7 DEF Local, Place, PCs
<1>9. \A m \in Mutexes : owner[m] = t <=> Named(r, m) \/ Taken(p, k, m)
  BY <1>7 DEF Inv, OwnersAreNamed, s
<1>10. owner' \in [Mutexes -> Threads \cup {NoThread}]
  BY <1>3 DEF Inv, VariablesTyped
<1> HIDE DEF p, k
<1> QED BY <1>3, <1>8, <1>9, <1>10, StepKeeps, ZenonT(60)

(* The end of a section gives back its mutexes and no others.              *)
LEMMA EndKeeps ==
    ASSUME Inv, NEW t \in Threads, End(t)
    PROVE  Inv'
<1> DEFINE s == stack[t]
           p == pending[t]
           k == taken[t]
           r == Front(s)
           ms == ToSet(s[Len(s)].mutexes)
<1>1. /\ Pile(s) /\ Place(s, p, k, "run")
      /\ s # <<>>
  BY DEF End, Inv, Local
<1>2. /\ Pile(r)
      /\ \A m : Named(r, m) <=> NamedBelow(s, m)
      /\ r # <<>> => r[Len(r)].mutexes # <<>>
  BY <1>1, PileFront
<1>3. p = <<>> /\ k = 0 /\ Len(<<>>) = 0 /\ s[Len(s)].active
  BY <1>1 DEF Place
<1>4. \A m \in Mutexes : owner[m] = t <=> Named(s, m)
  BY <1>3 DEF Inv, OwnersAreNamed, Taken
<1>5. owner' = [m \in Mutexes |-> IF m \in ms THEN NoThread ELSE owner[m]]
  BY DEF End, Free, Top, Last
<1>6. /\ \A m : Named(s, m) <=> NamedBelow(s, m) \/ m \in ms
      /\ \A m \in ms : ~NamedBelow(s, m)
  BY <1>1, <1>3, TopAndBelow
<1>7. /\ owner' \in [Mutexes -> Threads \cup {NoThread}]
      /\ \A m \in Mutexes :
            /\ owner'[m] = t <=> Named(r, m)
            /\ owner'[m] # owner[m] =>
                  {owner[m], owner'[m]} \subseteq {t, NoThread}
  <2>1. owner \in [Mutexes -> Threads \cup {NoThread}]
    BY DEF Inv, VariablesTyped
  <2> HIDE DEF s, r, ms
  <2> QED BY <1>2, <1>4, <1>5, <1>6, <2>1, NoThreadType
<1>8. CASE r # <<>> /\ ~r[Len(r)].active
  <2>1. Resume(t, r)
    BY <1>8 DEF End, Last
  <2>2. \A i \in 1..Len(r) : ~r[i].active
    <3>1. r \in Seq(Sections)
      BY <1>2 DEF Pile
    <3> HIDE DEF r
    <3>2. Len(r) \in 1..Len(r)
      BY <1>8, <3>1
    <3> QED BY <1>2, <1>8, <3>2 DEF Pile
  <2>3. \A m \in Mutexes : owner'[m] # t
    BY <1>7, <2>2 DEF Named
  <2> HIDE DEF r
  <2> QED BY <1>2, <1>7, <1>8, <2>1, <2>3, ResumeKeeps
<1>9. CASE ~(r # <<>> /\ ~r[Len(r)].active)
  <2>1. /\ stack' = [stack EXCEPT ![t] = r]
        /\ UNCHANGED <<pending, taken, pc>>
        /\ pc[t] = "run"
    BY <1>9 DEF End, Last
  <2> HIDE DEF r
  <2>2. /\ pending' = [pending EXCEPT ![t] = <<>>]
        /\ taken' = [taken EXCEPT ![t] = 0]
        /\ pc' = [pc EXCEPT ![t] = "run"]
    BY <1>3, <2>1 DEF Inv, VariablesTyped
  <2>3. Local(r, <<>>, 0, "run")
    BY <1>1, <1>2, <1>3, <1>9 DEF Local, Place, PCs
  <2>4. \A m \in Mutexes : owner'[m] = t <=> Named(r, m) \/ Taken(<<>>, 0, m)
    BY <1>7 DEF Taken
  <2>5. /\ owner' \in [Mutexes -> Threads \cup {NoThread}]
        /\ \A m \in Mutexes :
              /\ owner'[m] = t <=> Named(r, m) \/ Taken(<<>>, 0, m)
              /\ owner'[m] # owner[m] =>
                    {owner[m], owner'[m]} \subseteq {t, NoThread}
    BY <1>7, <2>4
  <2> HIDE DEF ms, p, k
  <2> QED BY <2>1, <2>2, <2>3, <2>5, StepKeeps, ZenonT(60)
<1> QED BY <1>8, <1>9

-----------------------------------------------------------------------------
(* Every step keeps the invariant.                                         *)
LEMMA InvNext == Inv /\ [Next]_vars => Inv'
<1> SUFFICES ASSUME Inv, [Next]_vars PROVE Inv'
  OBVIOUS
<1>1. CASE UNCHANGED vars
  BY <1>1 DEF vars, Inv, VariablesTyped, OwnersAreNamed
<1>2. ASSUME NEW t \in Threads, Begin(t) PROVE Inv'
  <2>1. PICK m \in Mutexes : Push(t, <<m>>)
    BY <1>2 DEF Begin
  <2>2. <<m>> \in MutexSeqs /\ <<m>> # <<>> /\ Ordered(<<m>>)
    BY DEF MutexSeqs, Ordered
  <2> QED BY <1>2, <2>1, <2>2, PushKeeps DEF Begin
<1>3. ASSUME NEW t \in Threads, Begin2(t) PROVE Inv'
  <2>1. PICK m, n \in Mutexes : m < n /\ Push(t, <<m, n>>)
    BY <1>3 DEF Begin2
  <2>2. <<m, n>> \in MutexSeqs /\ <<m, n>> # <<>> /\ Ordered(<<m, n>>)
    BY <2>1 DEF MutexSeqs, Ordered
  <2> QED BY <1>3, <2>1, <2>2, PushKeeps DEF Begin2
<1>4. ASSUME NEW t \in Threads,
             Block(t) \/ Detach(t)
      PROVE  Inv'
  BY <1>4, SuspendKeeps DEF Block, Detach
<1>5. ASSUME NEW t \in Threads, LockNext(t) \/ WakeHandedOff(t)
      PROVE  Inv'
  BY <1>5, TakeNextKeeps DEF LockNext, WakeHandedOff
<1> QED BY <1>1, <1>2, <1>3, <1>4, <1>5, AttachKeeps, WakeKeeps, EndKeeps DEF Next

(* The invariant holds for ever.                                           *)
LEMMA Invariance == Spec => []Inv
BY InvInit, InvNext, PTL DEF Spec

(* An active section is one of those above some depth, and the code of a   *)
(* thread runs in an active section, whose mutexes are in its fields.      *)
THEOREM CodeRunsLocked == Spec => []RunsOnlyInActiveSection
<1>1. Inv => RunsOnlyInActiveSection
  <2> SUFFICES ASSUME Inv, NEW t \in Threads
               PROVE  /\ \A i \in 1..Len(stack[t]) :
                            stack[t][i].active => i \in ActivePart(stack[t])
                      /\ pc[t] = "run" /\ stack[t] # <<>> =>
                            Top(t).active /\ Top(t).mutexes # <<>>
                      /\ pc[t] \in {"blocked", "detached"} =>
                            ActivePart(stack[t]) = {}
    BY DEF RunsOnlyInActiveSection
  <2>1. Pile(stack[t]) /\ Place(stack[t], pending[t], taken[t], pc[t])
    BY DEF Inv, Local
  <2>2. ActivePart(stack[t]) = {i \in 1..Len(stack[t]) : stack[t][i].active}
    BY <2>1, ActiveOnTop
  <2> QED BY <2>1, <2>2 DEF Place, AllSuspended, Top, Last
<1> QED BY <1>1, Invariance, PTL

(* A thread owns exactly the mutexes that its active sections name and     *)
(* those locked so far for the next one: none is leaked or taken away.     *)
THEOREM NoMutexIsLeaked == Spec => []OwnsWhatSectionsName
<1>1. Inv => OwnsWhatSectionsName
  <2> SUFFICES ASSUME Inv PROVE OwnsWhatSectionsName
    OBVIOUS
  <2>1. TypeOK
    BY DEF Inv, VariablesTyped, Local, Pile, Place, TypeOK
  <2>2. ASSUME NEW t \in Threads
        PROVE  Owned(t) =
                 (UNION {ToSet(stack[t][i].mutexes) : i \in ActivePart(stack[t])})
                 \cup {pending[t][i] : i \in 1..taken[t]}
    <3> DEFINE ms == UNION {ToSet(stack[t][i].mutexes) : i \in ActivePart(stack[t])}
               ps == {pending[t][i] : i \in 1..taken[t]}
    <3>1. Pile(stack[t]) /\ Place(stack[t], pending[t], taken[t], pc[t])
      BY DEF Inv, Local
    <3>2. \A m : m \in ms <=> Named(stack[t], m)
      BY <3>1, ActiveOnTop
    <3>3. \A m : m \in ps <=> Taken(pending[t], taken[t], m)
      BY DEF Taken
    <3>4. \A m : Named(stack[t], m) => m \in Mutexes
      <4> SUFFICES ASSUME NEW m, NEW i \in 1..Len(stack[t]),
                          m \in ToSet(stack[t][i].mutexes)
                   PROVE  m \in Mutexes
        BY DEF Named
      <4>1. stack[t][i].mutexes \in MutexSeqs
        BY <3>1, SectionFacts DEF Pile
      <4> QED BY <4>1, MutexSeqFacts
    <3>5. \A m : Taken(pending[t], taken[t], m) => m \in Mutexes
      BY <3>1, MutexSeqFacts DEF Place, Taken
    <3> HIDE DEF ms, ps
    <3>6. \A m : m \in Owned(t) <=> m \in ms \/ m \in ps
      BY <3>2, <3>3, <3>4, <3>5 DEF Inv, OwnersAreNamed, Owned
    <3>7. Owned(t) = ms \cup ps
      BY <3>6
    <3> QED BY <3>7 DEF ms, ps
  <2> QED BY <2>1, <2>2 DEF OwnsWhatSectionsName
<1> QED BY <1>1, Invariance, PTL

(* Nobody waits for a mutex that comes before one that it holds.           *)
THEOREM WaitingIsOrdered == Spec => []HoldAndWaitIsOrdered
<1>1. Inv => HoldAndWaitIsOrdered
  <2> SUFFICES ASSUME Inv, NEW t \in Threads, pc[t] = "blocked",
                      NEW m \in Owned(t)
               PROVE  m < Wanted(t)
    BY DEF HoldAndWaitIsOrdered
  <2>1. Place(stack[t], pending[t], taken[t], "blocked")
    BY DEF Inv, Local
  <2>2. Taken(pending[t], taken[t], m)
    BY <2>1 DEF Inv, OwnersAreNamed, Owned, Place, AllSuspended, Named
  <2>3. Len(pending[t]) \in 0..2 /\ taken[t] \in Nat /\ taken[t] < Len(pending[t])
    BY <2>1, MutexSeqFacts DEF Place
  <2>4. taken[t] = 1 /\ Len(pending[t]) = 2 /\ pending[t][1] = m
    <3>1. PICK a \in 1..taken[t] : pending[t][a] = m
      BY <2>2 DEF Taken
    <3>2. taken[t] = 1 /\ Len(pending[t]) = 2
      <4> DEFINE k == taken[t]
                 n == Len(pending[t])
      <4>1. k \in Nat /\ n \in 0..2 /\ k < n /\ a \in 1..k
        BY <2>3, <3>1
      <4> HIDE DEF k, n
      <4>2. k = 1 /\ n = 2
        BY <4>1
      <4> QED BY <4>2 DEF k, n
    <3>3. a = 1
      BY <3>1, <3>2
    <3> QED BY <3>1, <3>2, <3>3
  <2> QED BY <2>1, <2>4 DEF Place, Ordered, Wanted
<1> QED BY <1>1, Invariance, PTL
===============================================================================
