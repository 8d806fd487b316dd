------------------------------ MODULE QsbrProofs -------------------------------
(***************************************************************************)
(* The grace period of Qsbr, for every number of threads and blocks, every *)
(* size of the array and every bound of the sequence numbers.              *)
(*                                                                         *)
(* The heart of the invariant is ScanInv: while a poll scans the slots,    *)
(* each borrower of a retired block has already lowered the minimum below  *)
(* the goal of the block, or is in a slot that is still to be read, where  *)
(* BorrowersHoldBackGoals says that it shows such a number.                *)
(***************************************************************************)
EXTENDS Qsbr, SequenceTheorems, TLAPS

Offline == {"none", "detached", "attach", "store"}

(* A slot belongs to one thread state or is free, and then offline.        *)
SlotsInv ==
    /\ \A t \in Threads : slot[t] = 0 <=> pc[t] = "none"
    /\ \A t, u \in Threads : slot[t] = slot[u] /\ t # u => slot[t] = 0
    /\ \A i, j \in 1..Len(freelist) : freelist[i] = freelist[j] => i = j
    /\ \A i \in 1..Len(freelist) :
          /\ seq[freelist[i]] = QSBR_OFFLINE
          /\ \A t \in Threads : slot[t] # freelist[i]

(* A thread shows a number exactly while it may borrow, and no number that *)
(* is shown or remembered is ahead of the write sequence.                  *)
SeqInv ==
    /\ QSBR_INITIAL <= wrSeq /\ rdSeq <= wrSeq
    /\ \A i \in 1..Len(seq) : seq[i] <= wrSeq
    /\ \A t \in Threads :
          /\ pc[t] \in Offline /\ slot[t] # 0 => seq[slot[t]] = QSBR_OFFLINE
          /\ pc[t] \notin Offline => seq[slot[t]] # QSBR_OFFLINE
          /\ loaded[t] <= wrSeq /\ minSeq[t] <= wrSeq
          /\ pc[t] \in {"store", "quiesce"} => loaded[t] >= QSBR_INITIAL
          /\ pc[t] = "cas" => loaded[t] < minSeq[t]

(* Where a thread may borrow, and what is retired is not published.        *)
HeldInv ==
    /\ \A t \in Threads :
          /\ held[t] # None => pc[t] \in {"run"} \cup Polling
          /\ removed[t] # None <=> pc[t] = "retire"
          /\ removed[t] # ptr
    /\ \A x \in RetiredItems : x.block # ptr

(* One thread at a time is at the interpreter's queue, and who scans does  *)
(* so for an item.                                                         *)
PollInv ==
    /\ \A t \in Threads :
          /\ from[t] = "interp" => pc[t] \in Polling
          /\ pc[t] \in {"scan", "publish", "cas"} => Polled(t) # <<>>
          /\ pc[t] = "scan" => index[t] \in 1..Len(seq)
    /\ \A t, u \in Threads : from[t] = "interp" /\ from[u] = "interp" => t = u

(* A scan has seen the borrower of a retired block or is still to see it.  *)
ScanInv ==
    \A x \in RetiredItems : \A t, u \in Threads :
        held[t] = x.block =>
            /\ pc[u] = "scan" => minSeq[u] < x.goal \/ index[u] <= slot[t]
            /\ pc[u] \in {"publish", "cas"} => minSeq[u] < x.goal

Inv ==
    /\ SlotsInv /\ SeqInv /\ HeldInv /\ PollInv /\ ScanInv
    /\ NoUseAfterFree /\ BorrowersHoldBackGoals

-----------------------------------------------------------------------------
(* The items of a queue after an append, a concatenation and the removal   *)
(* of the first one.                                                       *)
LEMMA ItemsOfAppend ==
    ASSUME NEW q \in Seq(Item), NEW x \in Item
    PROVE  /\ Append(q, x) \in Seq(Item)
           /\ Items(Append(q, x)) = Items(q) \cup {x}
  BY DEF Items

(* A queue that is merged into another keeps its items.                    *)
LEMMA ItemsOfConcat ==
    ASSUME NEW q \in Seq(Item), NEW r \in Seq(Item)
    PROVE  /\ q \o r \in Seq(Item)
           /\ Items(q \o r) = Items(q) \cup Items(r)
<1>1. /\ q \o r \in Seq(Item)
      /\ Len(q) \in Nat /\ Len(r) \in Nat
      /\ Len(q \o r) = Len(q) + Len(r)
      /\ \A i \in 1..(Len(q) + Len(r)) :
            (q \o r)[i] = IF i <= Len(q) THEN q[i] ELSE r[i - Len(q)]
  BY ConcatProperties
<1>2. Items(q \o r) \subseteq Items(q) \cup Items(r)
  BY <1>1 DEF Items
<1>3. Items(q) \subseteq Items(q \o r)
  BY <1>1 DEF Items
<1>4. ASSUME NEW i \in 1..Len(r) PROVE r[i] \in Items(q \o r)
  <2>1. i + Len(q) \in 1..Len(q \o r) /\ (q \o r)[i + Len(q)] = r[i]
    BY <1>1
  <2> QED BY <2>1 DEF Items
<1> QED BY <1>1, <1>2, <1>3, <1>4 DEF Items

(* Freeing the first item takes away no other.                             *)
LEMMA ItemsOfTail ==
    ASSUME NEW q \in Seq(Item), q # <<>>
    PROVE  /\ Tail(q) \in Seq(Item)
           /\ q[1] \in Item
           /\ q[1] \in Items(q)
           /\ Items(Tail(q)) \subseteq Items(q)
           /\ Items(q) \subseteq Items(Tail(q)) \cup {q[1]}
<1>1. /\ Tail(q) \in Seq(Item)
      /\ Len(q) \in Nat \ {0}
      /\ Len(Tail(q)) = Len(q) - 1
      /\ \A i \in 1..Len(Tail(q)) : Tail(q)[i] = q[i + 1]
  BY HeadTailProperties, EmptySeq
<1>2. q[1] \in Item /\ q[1] \in Items(q)
  BY <1>1, ElementOfSeq DEF Items
<1>3. Items(Tail(q)) \subseteq Items(q)
  BY <1>1 DEF Items
<1>4. ASSUME NEW i \in 1..Len(q) PROVE q[i] \in Items(Tail(q)) \cup {q[1]}
  <2>1. CASE i = 1
    BY <2>1
  <2>2. CASE i # 1
    <3>1. i - 1 \in 1..Len(Tail(q)) /\ Tail(q)[i - 1] = q[i]
      BY <1>1, <2>2
    <3> QED BY <3>1 DEF Items
  <2> QED BY <2>1, <2>2
<1> QED BY <1>1, <1>2, <1>3, <1>4 DEF Items

(* The elements of a queue are items.                                      *)
LEMMA ItemsAreItems ==
    ASSUME NEW q \in Seq(Item)
    PROVE  Items(q) \subseteq Item
  BY ElementOfSeq DEF Items

(* What malloc does not give out, by way of the retired items.             *)
LEMMA InUseIs ==
    InUse = {ptr} \cup ({removed[t] : t \in Threads} \ {None})
                  \cup {x.block : x \in RetiredItems}
  BY DEF InUse, RetiredItems, Items, BlocksOf

-----------------------------------------------------------------------------
(* What a store to a slot changes.                                         *)
LEMMA SetSeqIs ==
    ASSUME TypeOK, NEW t \in Threads, slot[t] # 0, NEW n \in Nat, SetSeq(t, n)
    PROVE  /\ seq' \in Seq(Nat)
           /\ Len(seq') = Len(seq)
           /\ \A i \in 1..Len(seq) : seq'[i] = IF i = slot[t] THEN n ELSE seq[i]
<1>1. slot[t] \in 1..Len(seq) /\ seq \in Seq(Nat)
  BY DEF TypeOK
<1> QED BY <1>1, ExceptSeq, SMT DEF SetSeq

(* What each kind of step does to the retired items.                       *)
LEMMA RetiredSame ==
    ASSUME UNCHANGED <<queue, interpQ>>
    PROVE  RetiredItems' = RetiredItems
  BY DEF RetiredItems, Items

(* A retired block adds one item.                                          *)
LEMMA RetiredPush ==
    ASSUME TypeOK, NEW t \in Threads, NEW goal \in Nat, removed[t] \in Blocks,
           Push(t, goal)
    PROVE  /\ queue' \in [Threads -> Seq(Item)]
           /\ RetiredItems' = RetiredItems \cup {[block |-> removed[t], goal |-> goal]}
<1> DEFINE x == [block |-> removed[t], goal |-> goal]
<1>1. x \in Item /\ queue[t] \in Seq(Item) /\ queue \in [Threads -> Seq(Item)]
  BY DEF TypeOK, Item
<1>2. queue' = [queue EXCEPT ![t] = Append(queue[t], x)] /\ interpQ' = interpQ
  BY DEF Push
<1> HIDE DEF x
<1>3. /\ Append(queue[t], x) \in Seq(Item)
      /\ Items(Append(queue[t], x)) = Items(queue[t]) \cup {x}
  BY <1>1, ItemsOfAppend
<1>4. queue' \in [Threads -> Seq(Item)]
  BY <1>1, <1>2, <1>3
<1>5. \A u \in Threads :
        Items(queue'[u]) = IF u = t THEN Items(queue[t]) \cup {x} ELSE Items(queue[u])
  BY <1>1, <1>2, <1>3
<1>6. RetiredItems' =
        (UNION {Items(queue'[u]) : u \in Threads}) \cup Items(interpQ)
  BY <1>2 DEF RetiredItems, Items
<1>7. RetiredItems' = RetiredItems \cup {x}
  BY <1>5, <1>6 DEF RetiredItems
<1> QED BY <1>4, <1>7 DEF x

(* A freed block takes one item away, the first of the queue polled.       *)
LEMMA RetiredFree ==
    ASSUME TypeOK, NEW t \in Threads, Polled(t) # <<>>, FreeFirst(t)
    PROVE  /\ queue' \in [Threads -> Seq(Item)] /\ interpQ' \in Seq(Item)
           /\ Polled(t)[1] \in RetiredItems
           /\ RetiredItems' \subseteq RetiredItems
           /\ RetiredItems \subseteq RetiredItems' \cup {Polled(t)[1]}
<1> DEFINE q == Polled(t)
<1>1. /\ queue \in [Threads -> Seq(Item)] /\ interpQ \in Seq(Item)
      /\ from[t] \in {"own", "interp"}
  BY DEF TypeOK, Queues
<1>2. q \in Seq(Item) /\ q # <<>>
  BY <1>1 DEF Polled
<1>3. /\ Tail(q) \in Seq(Item)
      /\ q[1] \in Items(q)
      /\ Items(Tail(q)) \subseteq Items(q)
      /\ Items(q) \subseteq Items(Tail(q)) \cup {q[1]}
  <2> HIDE DEF q
  <2> QED BY <1>2, ItemsOfTail
<1>4. RetiredItems' =
        (UNION {Items(queue'[u]) : u \in Threads}) \cup Items(interpQ')
  BY DEF RetiredItems, Items
<1>5. CASE from[t] = "own"
  <2>1. q = queue[t] /\ queue' = [queue EXCEPT ![t] = Tail(q)] /\ interpQ' = interpQ
    BY <1>5 DEF Polled, FreeFirst
  <2> HIDE DEF q
  <2>2. queue' \in [Threads -> Seq(Item)]
    BY <1>1, <1>3, <2>1
  <2>3. \A u \in Threads :
          Items(queue'[u]) = IF u = t THEN Items(Tail(q)) ELSE Items(queue[u])
    BY <1>1, <2>1
  <2>4. q[1] \in RetiredItems
    BY <1>3, <2>1 DEF RetiredItems
  <2>5. RetiredItems' \subseteq RetiredItems
    BY <1>3, <1>4, <2>1, <2>3 DEF RetiredItems
  <2>6. RetiredItems \subseteq RetiredItems' \cup {q[1]}
    BY <1>3, <1>4, <2>1, <2>3 DEF RetiredItems
  <2>7. interpQ' \in Seq(Item)
    BY <1>1, <2>1
  <2> QED BY <2>2, <2>4, <2>5, <2>6, <2>7 DEF q
<1>6. CASE from[t] = "interp"
  <2>1. q = interpQ /\ queue' = queue /\ interpQ' = Tail(q)
    BY <1>6 DEF Polled, FreeFirst
  <2> HIDE DEF q
  <2>2. queue' \in [Threads -> Seq(Item)] /\ interpQ' \in Seq(Item)
    BY <1>1, <1>3, <2>1
  <2>4. q[1] \in RetiredItems
    BY <1>3, <2>1 DEF RetiredItems
  <2>5. RetiredItems' \subseteq RetiredItems
    BY <1>3, <1>4, <2>1 DEF RetiredItems
  <2>6. RetiredItems \subseteq RetiredItems' \cup {q[1]}
    BY <1>3, <1>4, <2>1 DEF RetiredItems
  <2> QED BY <2>2, <2>4, <2>5, <2>6 DEF q
<1> QED BY <1>1, <1>5, <1>6

(* A thread that abandons its queue hands over all of its items.           *)
LEMMA RetiredAbandon ==
    ASSUME TypeOK, NEW t \in Threads, Abandon(t)
    PROVE  /\ queue' \in [Threads -> Seq(Item)] /\ interpQ' \in Seq(Item)
           /\ RetiredItems' = RetiredItems
<1>1. /\ queue \in [Threads -> Seq(Item)] /\ interpQ \in Seq(Item)
      /\ queue' = [queue EXCEPT ![t] = <<>>]
      /\ interpQ' = interpQ \o queue[t]
  BY DEF TypeOK, Abandon
<1>2. /\ interpQ' \in Seq(Item)
      /\ Items(interpQ') = Items(interpQ) \cup Items(queue[t])
  BY <1>1, ItemsOfConcat
<1>3. <<>> \in Seq(Item) /\ Items(<<>>) = {}
  BY DEF Items
<1>4. queue' \in [Threads -> Seq(Item)]
  BY <1>1, <1>3
<1>5. \A u \in Threads :
        Items(queue'[u]) = IF u = t THEN {} ELSE Items(queue[u])
  BY <1>1, <1>3
<1>6. RetiredItems' =
        (UNION {Items(queue'[u]) : u \in Threads}) \cup Items(interpQ')
  BY DEF RetiredItems, Items
<1> QED BY <1>2, <1>4, <1>5, <1>6 DEF RetiredItems

(* A collection frees whatever is retired.                                 *)
LEMMA RetiredCollect ==
    ASSUME NEW t \in Threads, Collect(t)
    PROVE  RetiredItems' = {}
<1>1. Items(<<>>) = {}
  BY DEF Items
<1>2. (\A u \in Threads : queue'[u] = <<>>) /\ interpQ' = <<>>
  BY DEF Collect
<1>3. RetiredItems' =
        (UNION {Items(queue'[u]) : u \in Threads}) \cup Items(interpQ')
  BY DEF RetiredItems, Items
<1> QED BY <1>1, <1>2, <1>3

(* What is retired is typed.                                               *)
LEMMA RetiredAreItems ==
    ASSUME TypeOK
    PROVE  RetiredItems \subseteq Item
<1>1. /\ \A u \in Threads : queue[u] \in Seq(Item)
      /\ interpQ \in Seq(Item)
  BY DEF TypeOK
<1>2. /\ \A u \in Threads : Items(queue[u]) \subseteq Item
      /\ Items(interpQ) \subseteq Item
  BY <1>1, ItemsAreItems
<1> QED BY <1>2 DEF RetiredItems

-----------------------------------------------------------------------------
(* What the three ends of a poll have in common.                           *)
LEMMA LeaveIs ==
    ASSUME TypeOK, NEW t \in Threads, Leave(t)
    PROVE  \/ /\ pc' = [pc EXCEPT ![t] = "poll"]
              /\ from' = [from EXCEPT ![t] = "interp"]
              /\ ~InterpLocked
           \/ /\ pc' = [pc EXCEPT ![t] = "run"]
              /\ from' = [from EXCEPT ![t] = "own"]
  BY DEF Leave, Goto

(* Leaving a queue and freeing from it are typed.                          *)
LEMMA LeaveIsTyped ==
    ASSUME TypeOK, NEW t \in Threads, Leave(t) \/ FreeFirst(t)
    PROVE  pc' \in [Threads -> PCs] /\ from' \in [Threads -> Queues]
<1>1. CASE Leave(t)
  BY <1>1, LeaveIs DEF TypeOK, PCs, Queues
<1>2. CASE FreeFirst(t)
  BY <1>2 DEF TypeOK, PCs, FreeFirst, Goto
<1> QED BY <1>1, <1>2

(* A poll that returns frees the first item or leaves the queue.           *)
LEMMA PollReturnsIs ==
    ASSUME TypeOK, NEW t \in Threads, Polled(t) # <<>>, NEW rd \in Nat,
           PollReturns(t, rd)
    PROVE  /\ pc' \in [Threads -> PCs] /\ from' \in [Threads -> Queues]
           /\ queue' \in [Threads -> Seq(Item)] /\ interpQ' \in Seq(Item)
           /\ RetiredItems' \subseteq RetiredItems
           /\ \/ FreeFirst(t) /\ Goal(t) <= rd
              \/ Leave(t) /\ UNCHANGED <<queue, interpQ>>
<1>1. CASE FreeFirst(t) /\ Goal(t) <= rd
  BY <1>1, RetiredFree, LeaveIsTyped
<1>2. CASE Leave(t) /\ UNCHANGED <<queue, interpQ>>
  <2>1. queue' \in [Threads -> Seq(Item)] /\ interpQ' \in Seq(Item)
    BY <1>2 DEF TypeOK
  <2> QED BY <1>2, <2>1, RetiredSame, LeaveIsTyped
<1> QED BY <1>1, <1>2 DEF PollReturns

(* The size of the array after it has grown.                               *)
LEMMA GrowIs ==
    ASSUME TypeOK
    PROVE  Grow \in Nat /\ Grow > Len(seq)
<1>1. Len(seq) \in Nat /\ (seq # <<>> => Len(seq) > 0) /\ Len(<<>>) = 0
  BY EmptySeq DEF TypeOK
<1> QED BY <1>1, SizeType DEF Grow

(* The array and the free slots after it has grown.                        *)
LEMMA CreateAndGrowIs ==
    ASSUME TypeOK, NEW t \in Threads, CreateAndGrow(t)
    PROVE  /\ seq' \in Seq(Nat) /\ Len(seq') = Grow
           /\ \A i \in 1..Grow :
                 seq'[i] = IF i <= Len(seq) THEN seq[i] ELSE QSBR_OFFLINE
           /\ freelist' \in Seq(1..Grow) /\ Len(freelist') = Grow - Len(seq) - 1
           /\ \A i \in 1..Len(freelist') : freelist'[i] = Grow - i
<1> DEFINE k == Grow - Len(seq)
<1> DEFINE new == [i \in 1..k |-> QSBR_OFFLINE]
<1>1. seq \in Seq(Nat) /\ Len(seq) \in Nat /\ k \in Nat \ {0} /\ Grow \in Nat
  <2>1. seq \in Seq(Nat) /\ Len(seq) \in Nat
    BY DEF TypeOK
  <2>2. Grow \in Nat /\ Grow > Len(seq)
    BY GrowIs
  <2> QED BY <2>1, <2>2
<1>2. new \in Seq(Nat) /\ Len(new) = k /\ \A i \in 1..k : new[i] = QSBR_OFFLINE
  <2> HIDE DEF k
  <2> QED BY <1>1 DEF QSBR_OFFLINE
<1>3. seq' = seq \o new
  BY DEF CreateAndGrow
<1>4. /\ seq' \in Seq(Nat) /\ Len(seq') = Len(seq) + k
      /\ \A i \in 1..(Len(seq) + k) :
            seq'[i] = IF i <= Len(seq) THEN seq[i] ELSE new[i - Len(seq)]
  <2> HIDE DEF new, k
  <2> QED BY <1>1, <1>2, <1>3, ConcatProperties, ZenonT(60)
<1>5. \A i \in 1..Grow :
          seq'[i] = IF i <= Len(seq) THEN seq[i] ELSE QSBR_OFFLINE
  BY <1>1, <1>2, <1>4
<1>6. freelist' = [i \in 1..(Grow - Len(seq) - 1) |-> Grow - i]
  BY DEF CreateAndGrow
<1>7. /\ freelist' \in Seq(1..Grow) /\ Len(freelist') = Grow - Len(seq) - 1
      /\ \A i \in 1..Len(freelist') : freelist'[i] = Grow - i
  <2>1. \A i \in 1..(k - 1) : Grow - i \in 1..Grow
    BY <1>1
  <2> QED BY <1>1, <1>6, <2>1
<1> QED BY <1>1, <1>4, <1>5, <1>7

(* The free slots after one is taken and after one is given back.          *)
LEMMA FreelistIs ==
    ASSUME TypeOK, NEW t \in Threads
    PROVE  /\ Create(t) =>
                /\ freelist' \in Seq(1..Len(seq)) /\ Len(freelist') = Len(freelist) - 1
                /\ \A i \in 1..Len(freelist') : freelist'[i] = freelist[i + 1]
                /\ slot'[t] = freelist[1] /\ Len(freelist) > 0
                /\ slot' = [slot EXCEPT ![t] = freelist[1]]
           /\ Delete(t) /\ slot[t] # 0 =>
                /\ freelist' \in Seq(1..Len(seq)) /\ Len(freelist') = Len(freelist) + 1
                /\ \A i \in 1..Len(freelist') :
                      freelist'[i] = IF i = 1 THEN slot[t] ELSE freelist[i - 1]
<1>1. freelist \in Seq(1..Len(seq)) /\ slot \in [Threads -> 0..Len(seq)]
      /\ Len(seq) \in Nat /\ Len(freelist) \in Nat
      /\ (freelist # <<>> => Len(freelist) > 0)
  BY LenProperties, EmptySeq DEF TypeOK
<1>2. ASSUME Create(t)
      PROVE /\ freelist' \in Seq(1..Len(seq)) /\ Len(freelist') = Len(freelist) - 1
            /\ \A i \in 1..Len(freelist') : freelist'[i] = freelist[i + 1]
            /\ slot'[t] = freelist[1] /\ Len(freelist) > 0
            /\ slot' = [slot EXCEPT ![t] = freelist[1]]
  <2>1. freelist # <<>> /\ freelist' = Tail(freelist)
        /\ slot' = [slot EXCEPT ![t] = Head(freelist)]
    BY <1>2 DEF Create
  <2> QED BY <1>1, <2>1, HeadTailProperties
<1>3. ASSUME Delete(t), slot[t] # 0
      PROVE /\ freelist' \in Seq(1..Len(seq)) /\ Len(freelist') = Len(freelist) + 1
            /\ \A i \in 1..Len(freelist') :
                  freelist'[i] = IF i = 1 THEN slot[t] ELSE freelist[i - 1]
  <2>1. freelist' = <<slot[t]>> \o freelist
    BY <1>3 DEF Delete
  <2>2. <<slot[t]>> \in Seq(1..Len(seq)) /\ Len(<<slot[t]>>) = 1 /\ <<slot[t]>>[1] = slot[t]
    BY <1>1, <1>3
  <2> QED BY <1>1, <2>1, <2>2, ConcatProperties
<1> QED BY <1>2, <1>3

-----------------------------------------------------------------------------
(* The type invariant is kept by every step of a state in which the other  *)
(* parts of the invariant hold.                                            *)
LEMMA Typing ==
    ASSUME TypeOK, SlotsInv, SeqInv, HeldInv, PollInv, [Next]_vars
    PROVE  TypeOK'
<1> USE DEF QSBR_OFFLINE, QSBR_INITIAL, QSBR_INCR
<1>1. CASE UNCHANGED vars
  BY <1>1, Zenon DEF TypeOK, vars, seqVars, slotVars, scanVars, memVars
<1>2. ASSUME NEW t \in Threads PROVE pc[t] # "none" => slot[t] # 0
  BY <1>2 DEF SlotsInv
<1>3. ASSUME NEW t \in Threads, Create(t) PROVE TypeOK'
  <2>1. /\ freelist' \in Seq(1..Len(seq)) /\ Len(freelist) > 0
        /\ slot' = [slot EXCEPT ![t] = freelist[1]]
    BY <1>3, FreelistIs
  <2>2. freelist \in Seq(1..Len(seq)) /\ slot \in [Threads -> 0..Len(seq)]
    BY DEF TypeOK
  <2>3. freelist[1] \in 1..Len(seq)
    BY <2>1, <2>2
  <2>4. slot' \in [Threads -> 0..Len(seq)]
    BY <2>1, <2>2, <2>3
  <2>5. seq' = seq
    BY <1>3 DEF Create, seqVars
  <2> QED BY <1>3, <2>1, <2>4, <2>5 DEF TypeOK, Create, PCs, Goto, seqVars, scanVars, memVars
<1>4. ASSUME NEW t \in Threads, CreateAndGrow(t) PROVE TypeOK'
  <2>1. seq' \in Seq(Nat) /\ freelist' \in Seq(1..Len(seq')) /\ Len(seq') = Grow
    BY <1>4, CreateAndGrowIs
  <2>2. slot' \in [Threads -> 0..Len(seq')]
    <3>1. Grow \in Nat /\ Grow > Len(seq) /\ Len(seq) \in Nat
      BY GrowIs DEF TypeOK
    <3>2. slot \in [Threads -> 0..Len(seq)] /\ slot' = [slot EXCEPT ![t] = Grow]
      BY <1>4 DEF TypeOK, CreateAndGrow
    <3> QED BY <2>1, <3>1, <3>2
  <2>3. /\ wrSeq' = wrSeq /\ rdSeq' = rdSeq /\ UNCHANGED <<scanVars, memVars>>
        /\ pc' = [pc EXCEPT ![t] = "detached"]
    BY <1>4 DEF CreateAndGrow, Goto
  <2> QED BY <2>1, <2>2, <2>3 DEF TypeOK, PCs, scanVars, memVars
<1>5. ASSUME NEW t \in Threads, Delete(t) PROVE TypeOK'
  <2>1. freelist' \in Seq(1..Len(seq))
    BY <1>2, <1>5, FreelistIs DEF Delete
  <2>2. slot' \in [Threads -> 0..Len(seq)]
    BY <1>5 DEF TypeOK, Delete
  <2>3. /\ UNCHANGED <<seqVars, scanVars, memVars>>
        /\ pc' = [pc EXCEPT ![t] = "none"]
    BY <1>5 DEF Delete, Goto
  <2> QED BY <2>1, <2>2, <2>3 DEF TypeOK, PCs, seqVars, scanVars, memVars
<1>6. ASSUME NEW t \in Threads, Attach(t) \/ AttachLoad(t) \/ Quiesce(t) \/ Read(t)
                                \/ RetireStopped(t) \/ Process(t)
      PROVE TypeOK'
  <2>1. UNCHANGED <<seqVars, slotVars, minSeq, index, from, ptr, queue, interpQ>>
    BY <1>6 DEF Attach, AttachLoad, Quiesce, Read, RetireStopped, Process, scanVars, memVars
  <2>2. pc' \in [Threads -> PCs]
    BY <1>6 DEF TypeOK, Attach, AttachLoad, Quiesce, Read, RetireStopped, Process, PCs, Goto
  <2>3. loaded' \in [Threads -> Nat]
    BY <1>6 DEF TypeOK, Attach, AttachLoad, Quiesce, Read, RetireStopped, Process, scanVars
  <2>4. /\ held' \in [Threads -> Blocks \cup {None}]
        /\ removed' \in [Threads -> Blocks \cup {None}]
    BY <1>6 DEF TypeOK, Attach, AttachLoad, Quiesce, Read, RetireStopped, Process, memVars
  <2> QED BY <2>1, <2>2, <2>3, <2>4 DEF TypeOK, seqVars, slotVars
<1>7. ASSUME NEW t \in Threads, StoreSeq(t) PROVE TypeOK'
  <2>1. seq' \in Seq(Nat) /\ Len(seq') = Len(seq)
    <3>1. slot[t] # 0 /\ loaded[t] \in Nat /\ SetSeq(t, loaded[t])
      BY <1>2, <1>7 DEF TypeOK, StoreSeq
    <3> QED BY <3>1, SetSeqIs
  <2> QED BY <1>7, <2>1 DEF TypeOK, StoreSeq, PCs, Goto, slotVars, memVars
<1>8. ASSUME NEW t \in Threads, Detach(t) PROVE TypeOK'
  <2>1. seq' \in Seq(Nat) /\ Len(seq') = Len(seq)
    <3>1. slot[t] # 0 /\ 0 \in Nat /\ SetSeq(t, 0)
      BY <1>2, <1>8 DEF Detach
    <3> QED BY <3>1, SetSeqIs
  <2> QED BY <1>8, <2>1 DEF TypeOK, Detach, PCs, Goto, slotVars, scanVars
<1>9. ASSUME NEW t \in Threads, Replace(t) PROVE TypeOK'
  BY <1>9 DEF TypeOK, Replace, PCs, Goto, seqVars, slotVars, scanVars
<1>10. ASSUME NEW t \in Threads, RetireAdvance(t) \/ RetireNext(t) PROVE TypeOK'
  <2>1. /\ wrSeq' \in Nat /\ wrSeq + 2 \in Nat /\ Push(t, wrSeq + 2)
        /\ removed[t] \in Blocks
    BY <1>10 DEF TypeOK, RetireAdvance, RetireNext, HeldInv
  <2>2. queue' \in [Threads -> Seq(Item)]
    BY <2>1, RetiredPush
  <2> QED BY <2>1, <2>2 DEF TypeOK, Push, PCs, Goto, slotVars, scanVars
<1>11. ASSUME NEW t \in Threads, Collect(t) PROVE TypeOK'
  <2>1. slot[t] # 0 /\ wrSeq + 2 \in Nat /\ SetSeq(t, wrSeq + 2)
    BY <1>2, <1>11 DEF TypeOK, Collect
  <2>2. seq' \in Seq(Nat) /\ Len(seq') = Len(seq)
    BY <2>1, SetSeqIs
  <2>3. <<>> \in Seq(Item)
    OBVIOUS
  <2> QED BY <1>11, <2>1, <2>2, <2>3 DEF TypeOK, Collect, slotVars, scanVars
<1>12. ASSUME NEW t \in Threads, Abandon(t) PROVE TypeOK'
  <2>1. queue' \in [Threads -> Seq(Item)] /\ interpQ' \in Seq(Item)
    BY <1>12, RetiredAbandon
  <2> QED BY <1>12, <2>1 DEF TypeOK, Abandon, PCs, Queues, Goto, seqVars, slotVars
<1>13. ASSUME NEW t \in Threads, Poll(t) PROVE TypeOK'
  <2>1. /\ UNCHANGED <<seqVars, slotVars, loaded, ptr, held, removed>>
    BY <1>13 DEF Poll
  <2>2. CASE Leave(t) /\ UNCHANGED <<minSeq, index, queue, interpQ>>
    BY <2>1, <2>2, LeaveIsTyped DEF TypeOK, seqVars, slotVars
  <2>3. CASE Polled(t) # <<>> /\ FreeFirst(t) /\ UNCHANGED <<minSeq, index>>
    BY <2>1, <2>3, LeaveIsTyped, RetiredFree DEF TypeOK, seqVars, slotVars
  <2>4. CASE /\ minSeq' = [minSeq EXCEPT ![t] = wrSeq]
             /\ index' = [index EXCEPT ![t] = 1]
             /\ Goto(t, "scan")
             /\ UNCHANGED <<from, queue, interpQ>>
    BY <2>1, <2>4 DEF TypeOK, PCs, Goto, seqVars, slotVars
  <2> QED BY <1>13, <2>2, <2>3, <2>4 DEF Poll
<1>14. ASSUME NEW t \in Threads, Scan(t) PROVE TypeOK'
  <2>1. index[t] \in 1..Len(seq) /\ seq[index[t]] \in Nat
    BY <1>14, ElementOfSeq DEF TypeOK, PollInv, Scan
  <2>2. minSeq' \in [Threads -> Nat]
    BY <1>14, <2>1 DEF TypeOK, Scan
  <2>3. index' \in [Threads -> Nat] /\ pc' \in [Threads -> PCs]
    BY <1>14 DEF TypeOK, Scan, PCs, Goto
  <2> QED BY <1>14, <2>2, <2>3 DEF TypeOK, Scan, seqVars, slotVars, memVars
<1>15. ASSUME NEW t \in Threads, Publish(t) PROVE TypeOK'
  <2>1. Polled(t) # <<>> /\ rdSeq \in Nat
    BY <1>15 DEF TypeOK, PollInv, Publish
  <2>2. CASE loaded' = [loaded EXCEPT ![t] = rdSeq] /\ Goto(t, "cas")
             /\ UNCHANGED <<minSeq, index, from, queue, interpQ>>
    BY <1>15, <2>2 DEF TypeOK, PCs, Publish, Goto, seqVars, slotVars
  <2>3. CASE PollReturns(t, rdSeq) /\ Forget(t) /\ UNCHANGED loaded
    BY <1>15, <2>1, <2>3, PollReturnsIs DEF TypeOK, Publish, Forget, seqVars, slotVars
  <2> QED BY <1>15, <2>2, <2>3 DEF Publish
<1>16. ASSUME NEW t \in Threads, Cas(t) PROVE TypeOK'
  <2>1. Polled(t) # <<>> /\ minSeq[t] \in Nat /\ PollReturns(t, minSeq[t])
    BY <1>16 DEF TypeOK, PollInv, Cas
  <2> QED BY <1>16, <2>1, PollReturnsIs DEF TypeOK, Cas, Forget, slotVars
<1> QED
  BY <1>1, <1>3, <1>4, <1>5, <1>6, <1>7, <1>8, <1>9, <1>10, <1>11, <1>12, <1>13, <1>14,
     <1>15, <1>16 DEF Next, OwnStep

-----------------------------------------------------------------------------
(* A thread and the slots.                                                 *)
LEMMA SlotIs ==
    ASSUME TypeOK, SlotsInv, NEW t \in Threads
    PROVE  /\ slot[t] \in 0..Len(seq) /\ Len(seq) \in Nat
           /\ pc[t] # "none" => slot[t] \in 1..Len(seq)
           /\ slot[t] \in 1..Len(seq) => seq[slot[t]] \in Nat
  BY DEF TypeOK, SlotsInv

(* Of the slots, the array and the list of the free ones a step inside the *)
(* functions of a thread changes nothing.                                  *)
LEMMA SlotsStay ==
    ASSUME TypeOK, NEW t \in Threads,
           \/ Attach(t) \/ AttachLoad(t) \/ Quiesce(t) \/ Read(t) \/ Replace(t)
           \/ RetireAdvance(t) \/ RetireNext(t) \/ RetireStopped(t) \/ Process(t)
           \/ Abandon(t) \/ Poll(t) \/ Scan(t) \/ Publish(t) \/ Cas(t)
    PROVE  /\ UNCHANGED <<seq, slot, freelist>>
           /\ pc[t] # "none" /\ pc'[t] # "none"
           /\ \A u \in Threads \ {t} : pc'[u] = pc[u]
<1>1. UNCHANGED <<seq, slot, freelist>>
  BY DEF Attach, AttachLoad, Quiesce, Read, Replace, RetireAdvance, RetireNext,
      RetireStopped, Process, Abandon, Poll, Scan, Publish, Cas, Push, seqVars, slotVars
<1>2. pc[t] # "none"
  BY DEF Attach, AttachLoad, Quiesce, Read, Replace, RetireAdvance, RetireNext,
      RetireStopped, Process, Abandon, Poll, Scan, Publish, Cas
<1>3. \/ pc' = pc
      \/ \E l \in PCs \ {"none"} : pc' = [pc EXCEPT ![t] = l]
  <2>1. CASE Read(t)
    BY <2>1 DEF Read
  <2>2. CASE Attach(t) \/ AttachLoad(t) \/ Quiesce(t)
    BY <2>2 DEF Attach, AttachLoad, Quiesce, Goto, PCs
  <2>3. CASE Replace(t) \/ RetireAdvance(t) \/ RetireNext(t) \/ RetireStopped(t)
    BY <2>3 DEF Replace, RetireAdvance, RetireNext, RetireStopped, Push, Goto, PCs
  <2>4. CASE Process(t) \/ Abandon(t) \/ Scan(t)
    BY <2>4 DEF Process, Abandon, Scan, Goto, PCs
  <2>5. CASE Poll(t) \/ Publish(t) \/ Cas(t)
    BY <2>5 DEF Poll, Publish, Cas, PollReturns, FreeFirst, Leave, Goto, PCs
  <2> QED BY <2>1, <2>2, <2>3, <2>4, <2>5
<1> QED BY <1>1, <1>2, <1>3 DEF TypeOK

(* The three steps that store a sequence number.                           *)
LEMMA SeqStored ==
    ASSUME TypeOK, SlotsInv, NEW t \in Threads,
           StoreSeq(t) \/ Detach(t) \/ Collect(t)
    PROVE  /\ UNCHANGED <<slot, freelist>>
           /\ pc[t] # "none" /\ slot[t] \in 1..Len(seq)
           /\ pc' = [pc EXCEPT ![t] = IF Detach(t) THEN "detached" ELSE "run"]
           /\ Len(seq') = Len(seq)
           /\ \A i \in 1..Len(seq) :
                 seq'[i] = IF i # slot[t] THEN seq[i]
                           ELSE IF Detach(t) THEN QSBR_OFFLINE
                           ELSE IF StoreSeq(t) THEN loaded[t] ELSE wrSeq + QSBR_INCR
<1>1. UNCHANGED <<slot, freelist>> /\ pc[t] # "none"
  BY DEF StoreSeq, Detach, Collect, slotVars
<1>2. slot[t] \in 1..Len(seq) /\ slot[t] # 0
  BY <1>1, SlotIs
<1>3. pc' = [pc EXCEPT ![t] = IF Detach(t) THEN "detached" ELSE "run"]
  BY DEF StoreSeq, Detach, Collect, Goto, TypeOK
<1>4. StoreSeq(t) => ~Detach(t)
  BY DEF StoreSeq, Detach
<1> DEFINE n == IF Detach(t) THEN QSBR_OFFLINE
                ELSE IF StoreSeq(t) THEN loaded[t] ELSE wrSeq + QSBR_INCR
<1>5. n \in Nat /\ SetSeq(t, n)
  BY <1>4 DEF TypeOK, StoreSeq, Detach, Collect, QSBR_OFFLINE, QSBR_INCR
<1>6. /\ Len(seq') = Len(seq)
      /\ \A i \in 1..Len(seq) : seq'[i] = IF i = slot[t] THEN n ELSE seq[i]
  <2> HIDE DEF n
  <2> QED BY <1>2, <1>5, SetSeqIs
<1> QED BY <1>1, <1>2, <1>3, <1>6

(* Every step keeps the slots apart.                                       *)
LEMMA SlotsStep ==
    ASSUME TypeOK, SlotsInv, SeqInv, [Next]_vars
    PROVE  SlotsInv'
<1> USE DEF QSBR_OFFLINE
<1>1. CASE UNCHANGED vars
  BY <1>1 DEF SlotsInv, vars, seqVars, slotVars
<1>2. ASSUME NEW t \in Threads,
             \/ Attach(t) \/ AttachLoad(t) \/ Quiesce(t) \/ Read(t) \/ Replace(t)
             \/ RetireAdvance(t) \/ RetireNext(t) \/ RetireStopped(t) \/ Process(t)
             \/ Abandon(t) \/ Poll(t) \/ Scan(t) \/ Publish(t) \/ Cas(t)
      PROVE SlotsInv'
  <2>1. /\ UNCHANGED <<seq, slot, freelist>>
        /\ pc[t] # "none" /\ pc'[t] # "none"
        /\ \A u \in Threads \ {t} : pc'[u] = pc[u]
    BY <1>2, SlotsStay
  <2> QED BY <2>1 DEF SlotsInv
<1>3. ASSUME NEW t \in Threads, StoreSeq(t) \/ Detach(t) \/ Collect(t) PROVE SlotsInv'
  <2>1. /\ UNCHANGED <<slot, freelist>>
        /\ pc[t] # "none" /\ slot[t] \in 1..Len(seq)
        /\ pc' = [pc EXCEPT ![t] = IF Detach(t) THEN "detached" ELSE "run"]
        /\ \A i \in 1..Len(seq) : i # slot[t] => seq'[i] = seq[i]
    BY <1>3, SeqStored
  <2>2. \A u \in Threads : pc'[u] = "none" <=> pc[u] = "none"
    BY <2>1 DEF TypeOK
  <2>3. \A i \in 1..Len(freelist) : freelist[i] \in 1..Len(seq)
    BY SMTT(30) DEF TypeOK
  <2>4. \A i \in 1..Len(freelist) : seq'[freelist[i]] = QSBR_OFFLINE
    BY <2>1, <2>3 DEF SlotsInv
  <2> QED BY <2>1, <2>2, <2>4 DEF SlotsInv
<1>4. ASSUME NEW t \in Threads, Create(t) PROVE SlotsInv'
  <2>1. /\ Len(freelist') = Len(freelist) - 1 /\ Len(freelist) \in Nat \ {0}
        /\ \A i \in 1..Len(freelist') : freelist'[i] = freelist[i + 1]
        /\ slot' = [slot EXCEPT ![t] = freelist[1]]
    <3>1. freelist \in Seq(1..Len(seq)) /\ Len(freelist) \in Nat
      BY DEF TypeOK
    <3> QED BY <1>4, <3>1, FreelistIs
  <2>2. freelist[1] \in 1..Len(seq) /\ slot \in [Threads -> 0..Len(seq)]
    BY <2>1, SMTT(30) DEF TypeOK
  <2>3. pc' = [pc EXCEPT ![t] = "detached"] /\ seq' = seq
    BY <1>4 DEF Create, Goto, seqVars
  <2>4. \A u \in Threads : slot'[u] = 0 <=> pc'[u] = "none"
    BY <2>1, <2>2, <2>3 DEF SlotsInv, TypeOK
  <2>5. \A u, v \in Threads : slot'[u] = slot'[v] /\ u # v => slot'[u] = 0
    BY <2>1, <2>2 DEF SlotsInv
  <2>6. \A i, j \in 1..Len(freelist') : freelist'[i] = freelist'[j] => i = j
    BY <2>1 DEF SlotsInv
  <2>7. \A i \in 1..Len(freelist') :
            /\ seq'[freelist'[i]] = QSBR_OFFLINE
            /\ \A u \in Threads : slot'[u] # freelist'[i]
    <3> SUFFICES ASSUME NEW i \in 1..Len(freelist')
                 PROVE  /\ seq[freelist[i + 1]] = QSBR_OFFLINE
                        /\ \A u \in Threads : slot'[u] # freelist[i + 1]
      BY <2>1, <2>3
    <3>1. i + 1 \in 1..Len(freelist) /\ i + 1 # 1 /\ 1 \in 1..Len(freelist)
      BY <2>1
    <3>2. freelist[i + 1] # freelist[1]
      BY <3>1 DEF SlotsInv
    <3> QED BY <2>1, <2>2, <3>1, <3>2 DEF SlotsInv
  <2> QED BY <2>4, <2>5, <2>6, <2>7 DEF SlotsInv
<1>5. ASSUME NEW t \in Threads, CreateAndGrow(t) PROVE SlotsInv'
  <2>1. /\ Grow \in Nat /\ Len(seq) \in Nat /\ Grow > Len(seq)
        /\ \A i \in 1..Grow :
              seq'[i] = IF i <= Len(seq) THEN seq[i] ELSE QSBR_OFFLINE
        /\ Len(freelist') = Grow - Len(seq) - 1
        /\ \A i \in 1..Len(freelist') : freelist'[i] = Grow - i
    <3>1. Len(seq) \in Nat
      BY DEF TypeOK
    <3> QED BY <1>5, <3>1, CreateAndGrowIs, GrowIs
  <2>2. /\ slot \in [Threads -> 0..Len(seq)] /\ slot' = [slot EXCEPT ![t] = Grow]
        /\ pc' = [pc EXCEPT ![t] = "detached"]
    BY <1>5 DEF TypeOK, CreateAndGrow, Goto
  <2>3. \A u \in Threads : slot'[u] = IF u = t THEN Grow ELSE slot[u]
    BY <2>2
  <2>4. \A u \in Threads : slot'[u] = 0 <=> pc'[u] = "none"
    BY <2>1, <2>2, <2>3 DEF SlotsInv, TypeOK
  <2>5. \A u, v \in Threads : slot'[u] = slot'[v] /\ u # v => slot'[u] = 0
    BY <2>1, <2>2, <2>3 DEF SlotsInv
  <2>6. \A i, j \in 1..Len(freelist') : freelist'[i] = freelist'[j] => i = j
    BY <2>1
  <2>7. \A i \in 1..Len(freelist') :
            /\ seq'[freelist'[i]] = QSBR_OFFLINE
            /\ \A u \in Threads : slot'[u] # freelist'[i]
    BY <2>1, <2>2, <2>3
  <2> QED BY <2>4, <2>5, <2>6, <2>7 DEF SlotsInv
<1>6. ASSUME NEW t \in Threads, Delete(t) PROVE SlotsInv'
  <2>1. slot[t] \in 1..Len(seq) /\ slot[t] # 0
    BY <1>6, SlotIs DEF Delete
  <2>2. /\ Len(freelist') = Len(freelist) + 1 /\ Len(freelist) \in Nat
        /\ \A i \in 1..Len(freelist') :
              freelist'[i] = IF i = 1 THEN slot[t] ELSE freelist[i - 1]
    BY <1>6, <2>1, FreelistIs, LenProperties DEF TypeOK
  <2>3. /\ slot' = [slot EXCEPT ![t] = 0] /\ pc' = [pc EXCEPT ![t] = "none"]
        /\ seq' = seq /\ pc[t] = "detached"
        /\ slot \in [Threads -> 0..Len(seq)]
    BY <1>6 DEF Delete, Goto, seqVars, TypeOK
  <2>4. \A u \in Threads : slot'[u] = 0 <=> pc'[u] = "none"
    BY <2>3 DEF SlotsInv, TypeOK
  <2>5. \A u, v \in Threads : slot'[u] = slot'[v] /\ u # v => slot'[u] = 0
    BY <2>3 DEF SlotsInv
  <2>6. \A i, j \in 1..Len(freelist') : freelist'[i] = freelist'[j] => i = j
    BY <2>2 DEF SlotsInv
  <2>7. seq[slot[t]] = QSBR_OFFLINE
    BY <2>1, <2>3 DEF SeqInv, Offline
  <2>8. \A u \in Threads : slot'[u] # slot[t]
    BY <2>1, <2>3 DEF SlotsInv
  <2>9. \A i \in 1..Len(freelist) : \A u \in Threads : slot'[u] # freelist[i]
    <3>1. \A i \in 1..Len(freelist) : freelist[i] # 0
      BY SMTT(30) DEF TypeOK
    <3> QED BY <2>3, <3>1 DEF SlotsInv
  <2>10. \A i \in 1..Len(freelist') :
            /\ seq'[freelist'[i]] = QSBR_OFFLINE
            /\ \A u \in Threads : slot'[u] # freelist'[i]
    <3> SUFFICES ASSUME NEW i \in 1..Len(freelist')
                 PROVE  /\ seq[freelist'[i]] = QSBR_OFFLINE
                        /\ \A u \in Threads : slot'[u] # freelist'[i]
      BY <2>3
    <3>1. CASE i = 1
      BY <2>2, <2>7, <2>8, <3>1
    <3>2. CASE i # 1
      <4>1. i - 1 \in 1..Len(freelist) /\ freelist'[i] = freelist[i - 1]
        BY <2>2, <3>2
      <4> QED BY <2>9, <4>1 DEF SlotsInv
    <3> QED BY <3>1, <3>2
  <2> QED BY <2>4, <2>5, <2>6, <2>10 DEF SlotsInv
<1> QED
  BY <1>1, <1>2, <1>3, <1>4, <1>5, <1>6 DEF Next, OwnStep

-----------------------------------------------------------------------------
(* The steps of one thread, and what they leave alone of the others.       *)
Inside(t) ==
    \/ Attach(t) \/ AttachLoad(t) \/ Quiesce(t) \/ Read(t) \/ Replace(t)
    \/ RetireAdvance(t) \/ RetireNext(t) \/ RetireStopped(t) \/ Process(t)
    \/ Abandon(t) \/ Poll(t) \/ Scan(t) \/ Publish(t) \/ Cas(t)

Stores(t) == StoreSeq(t) \/ Detach(t) \/ Collect(t)

Places(t) == Create(t) \/ CreateAndGrow(t) \/ Delete(t)

(* Every step is a step of a thread.                                       *)
LEMMA NextIs ==
    ASSUME Next
    PROVE  \E t \in Threads : Inside(t) \/ Stores(t) \/ Places(t)
  BY DEF Next, OwnStep, Inside, Stores, Places

(* A step changes nothing that belongs to another thread.                  *)
LEMMA Others ==
    ASSUME TypeOK, NEW t \in Threads, Inside(t) \/ Stores(t) \/ Places(t),
           NEW u \in Threads, u # t
    PROVE  /\ pc'[u] = pc[u] /\ slot'[u] = slot[u]
           /\ loaded'[u] = loaded[u] /\ minSeq'[u] = minSeq[u]
           /\ index'[u] = index[u] /\ from'[u] = from[u]
           /\ held'[u] = held[u] /\ removed'[u] = removed[u]
<1> USE DEF Goto
<1>1. CASE Attach(t) \/ AttachLoad(t) \/ Quiesce(t) \/ Read(t) \/ Process(t)
  BY <1>1 DEF TypeOK, Attach, AttachLoad, Quiesce, Read, Process,
      slotVars, scanVars, memVars
<1>2. CASE Replace(t) \/ RetireAdvance(t) \/ RetireNext(t) \/ RetireStopped(t)
  BY <1>2 DEF TypeOK, Replace, RetireAdvance, RetireNext, RetireStopped, Push,
      slotVars, scanVars
<1>3. CASE Abandon(t) \/ Scan(t)
  BY <1>3 DEF TypeOK, Abandon, Scan, slotVars, memVars
<1>4. CASE Poll(t)
  BY <1>4 DEF TypeOK, Poll, Leave, FreeFirst, slotVars
<1>5. CASE Publish(t) \/ Cas(t)
  BY <1>5, SMTT(30) DEF TypeOK, Publish, Cas, PollReturns, Forget, Leave, FreeFirst, slotVars
<1>6. CASE Stores(t)
  BY <1>6 DEF TypeOK, Stores, StoreSeq, Detach, Collect, slotVars, scanVars, memVars
<1>7. CASE Places(t)
  BY <1>7 DEF TypeOK, Places, Create, CreateAndGrow, Delete, slotVars, scanVars, memVars
<1> QED BY <1>1, <1>2, <1>3, <1>4, <1>5, <1>6, <1>7 DEF Inside

(* A step inside a function leaves the array and its slots alone.          *)
LEMMA InsideStays ==
    ASSUME TypeOK, NEW t \in Threads, Inside(t)
    PROVE  /\ UNCHANGED <<seq, slot, freelist>>
           /\ pc[t] # "none" /\ pc'[t] # "none"
  BY SlotsStay DEF Inside

(* What SeqInv says of one thread.                                         *)
Shows(t) ==
    /\ pc[t] \in Offline /\ slot[t] # 0 => seq[slot[t]] = QSBR_OFFLINE
    /\ pc[t] \notin Offline => seq[slot[t]] # QSBR_OFFLINE
    /\ loaded[t] <= wrSeq /\ minSeq[t] <= wrSeq
    /\ pc[t] \in {"store", "quiesce"} => loaded[t] >= QSBR_INITIAL
    /\ pc[t] = "cas" => loaded[t] < minSeq[t]

(* What a step inside a function does to the sequence numbers.             *)
LEMMA SeqInside ==
    ASSUME TypeOK, TypeOK', SlotsInv, SeqInv, NEW t \in Threads, Inside(t)
    PROVE  wrSeq' >= wrSeq /\ rdSeq' <= wrSeq' /\ Shows(t)'
<1> USE DEF QSBR_OFFLINE, QSBR_INITIAL, QSBR_INCR
<1>1. /\ wrSeq \in Nat /\ rdSeq \in Nat /\ 1 <= wrSeq /\ rdSeq <= wrSeq
      /\ loaded \in [Threads -> Nat] /\ minSeq \in [Threads -> Nat]
      /\ pc \in [Threads -> PCs] /\ loaded[t] \in Nat /\ minSeq[t] \in Nat
  BY DEF TypeOK, SeqInv
<1>2. Shows(t)
  BY DEF SeqInv, Shows
<1>3. UNCHANGED <<seq, slot>>
  BY InsideStays
<1> USE <1>1, <1>2, <1>3
<1>4. CASE Attach(t) \/ AttachLoad(t) \/ Quiesce(t)
  BY <1>4 DEF Attach, AttachLoad, Quiesce, Shows, Offline, Goto, seqVars, scanVars
<1>5. CASE Read(t) \/ Process(t) \/ Replace(t) \/ RetireStopped(t)
  BY <1>5 DEF Read, Process, Replace, RetireStopped, Shows, Offline, Goto, seqVars, scanVars
<1>6. CASE RetireAdvance(t) \/ RetireNext(t)
  BY <1>6 DEF RetireAdvance, RetireNext, Push, Shows, Offline, Goto, scanVars
<1>7. CASE Abandon(t)
  BY <1>7 DEF Abandon, Shows, Offline, Goto, seqVars
<1>8. CASE Scan(t)
  <2>1. index[t] \in Nat /\ (seq[index[t]] \in Nat \/ TRUE)
    BY DEF TypeOK
  <2>2. minSeq'[t] \in Nat /\ minSeq'[t] <= minSeq[t]
    <3>1. minSeq' \in [Threads -> Nat]
      BY DEF TypeOK
    <3>2. CASE minSeq' = minSeq
      BY <3>2
    <3>3. CASE minSeq' # minSeq
      BY <1>8, <3>1, <3>3 DEF Scan
    <3> QED BY <3>2, <3>3
  <2> QED BY <1>8, <2>2 DEF Scan, Shows, Offline, Goto, seqVars
<1>9. CASE Poll(t)
  BY <1>9 DEF Poll, Leave, FreeFirst, Shows, Offline, Goto, seqVars
<1>10. CASE Publish(t)
  BY <1>10 DEF Publish, PollReturns, Leave, FreeFirst, Forget, Shows, Offline, Goto, seqVars
<1>11. CASE Cas(t)
  BY <1>11 DEF Cas, PollReturns, Leave, FreeFirst, Forget, Shows, Offline, Goto
<1> QED BY <1>4, <1>5, <1>6, <1>7, <1>8, <1>9, <1>10, <1>11 DEF Inside

(* Every step keeps SeqInv.                                                *)
LEMMA SeqStep ==
    ASSUME TypeOK, TypeOK', SlotsInv, SeqInv, HeldInv, [Next]_vars
    PROVE  SeqInv'
<1> USE DEF QSBR_OFFLINE, QSBR_INITIAL, QSBR_INCR
<1>1. CASE UNCHANGED vars
  BY <1>1 DEF SeqInv, vars, seqVars, slotVars, scanVars
<1>2. /\ wrSeq \in Nat /\ rdSeq \in Nat /\ 1 <= wrSeq /\ rdSeq <= wrSeq /\ wrSeq' \in Nat
      /\ \A i \in 1..Len(seq) : seq[i] \in Nat /\ seq[i] <= wrSeq
      /\ \A t \in Threads : Shows(t) /\ loaded[t] \in Nat /\ minSeq[t] \in Nat
      /\ Len(seq) \in Nat
  BY DEF TypeOK, SeqInv, Shows
<1>3. SUFFICES ASSUME NEW t \in Threads, Inside(t) \/ Stores(t) \/ Places(t)
               PROVE  SeqInv'
  BY <1>1, NextIs
<1>4. \A u \in Threads \ {t} :
          /\ pc'[u] = pc[u] /\ slot'[u] = slot[u]
          /\ loaded'[u] = loaded[u] /\ minSeq'[u] = minSeq[u]
  BY <1>3, Others
<1>5. SUFFICES /\ wrSeq' >= wrSeq /\ rdSeq' <= wrSeq'
               /\ \A i \in 1..Len(seq') : seq'[i] <= wrSeq'
               /\ \A u \in Threads \ {t} : slot[u] # 0 => seq'[slot[u]] = seq[slot[u]]
               /\ Shows(t)'
  <2>1. ASSUME NEW u \in Threads, u # t, wrSeq' >= wrSeq,
               slot[u] # 0 => seq'[slot[u]] = seq[slot[u]]
        PROVE  Shows(u)'
    <3>1. pc[u] \notin Offline => slot[u] # 0
      BY DEF SlotsInv, Offline
    <3> QED BY <1>2, <1>4, <2>1, <3>1 DEF Shows
  <2> QED BY <1>2, <2>1 DEF SeqInv, Shows
<1>6. CASE Inside(t)
  <2>1. wrSeq' >= wrSeq /\ rdSeq' <= wrSeq' /\ Shows(t)'
    BY <1>6, SeqInside
  <2>2. seq' = seq
    BY <1>6, InsideStays
  <2> QED BY <1>2, <2>1, <2>2
<1>7. CASE Stores(t)
  <2> DEFINE n == IF Detach(t) THEN 0 ELSE IF StoreSeq(t) THEN loaded[t] ELSE wrSeq + 2
  <2>1. /\ UNCHANGED <<slot, freelist>>
        /\ pc[t] # "none" /\ slot[t] \in 1..Len(seq)
        /\ pc' = [pc EXCEPT ![t] = IF Detach(t) THEN "detached" ELSE "run"]
        /\ Len(seq') = Len(seq)
        /\ \A i \in 1..Len(seq) : seq'[i] = IF i # slot[t] THEN seq[i] ELSE n
    BY <1>7, SeqStored DEF Stores
  <2>2. \A u \in Threads \ {t} : slot[u] # 0 => seq'[slot[u]] = seq[slot[u]]
    <3>1. \A u \in Threads : slot[u] # 0 => slot[u] \in 1..Len(seq)
      BY SlotIs
    <3> HIDE DEF n
    <3> QED BY <2>1, <3>1 DEF SlotsInv
  <2>3. seq'[slot'[t]] = n /\ pc'[t] = IF Detach(t) THEN "detached" ELSE "run"
    <3> HIDE DEF n
    <3> QED BY <2>1 DEF TypeOK
  <2>4. /\ n \in Nat /\ n <= wrSeq'
        /\ wrSeq' >= wrSeq /\ rdSeq' <= wrSeq'
        /\ Shows(t)'
    <3>1. CASE Detach(t)
      <4>1. wrSeq' = wrSeq /\ rdSeq' = rdSeq /\ UNCHANGED <<loaded, minSeq>>
        BY <3>1 DEF Detach, scanVars
      <4>2. pc'[t] = "detached" /\ seq'[slot'[t]] = 0 /\ n = 0
        BY <2>3, <3>1
      <4> HIDE DEF n
      <4> QED BY <1>2, <4>1, <4>2 DEF Shows, Offline
    <3>2. CASE StoreSeq(t)
      <4>1. /\ wrSeq' = wrSeq /\ rdSeq' = rdSeq /\ UNCHANGED minSeq
            /\ loaded'[t] = 0 /\ loaded[t] >= 1 /\ loaded[t] <= wrSeq
            /\ ~Detach(t)
        BY <1>2, <3>2 DEF StoreSeq, Detach, Shows, TypeOK
      <4>2. pc'[t] = "run" /\ seq'[slot'[t]] = loaded[t] /\ n = loaded[t]
        BY <2>3, <3>2, <4>1
      <4> HIDE DEF n
      <4> QED BY <1>2, <4>1, <4>2 DEF Shows, Offline
    <3>3. CASE Collect(t) /\ ~Detach(t) /\ ~StoreSeq(t)
      <4>1. /\ wrSeq' = wrSeq + 2 /\ rdSeq' \in {rdSeq, wrSeq + 2}
            /\ UNCHANGED <<loaded, minSeq>>
        BY <3>3 DEF Collect, scanVars
      <4>2. pc'[t] = "run" /\ seq'[slot'[t]] = wrSeq + 2 /\ n = wrSeq + 2
        BY <2>3, <3>3
      <4> HIDE DEF n
      <4> QED BY <1>2, <4>1, <4>2 DEF Shows, Offline
    <3> QED BY <1>7, <3>1, <3>2, <3>3 DEF Stores
  <2>5. \A i \in 1..Len(seq') : seq'[i] <= wrSeq'
    <3> HIDE DEF n
    <3>1. SUFFICES ASSUME NEW i \in 1..Len(seq) PROVE seq'[i] <= wrSeq'
      BY <2>1
    <3>2. seq[i] \in Nat /\ seq[i] <= wrSeq
      BY <1>2
    <3>3. seq'[i] = IF i # slot[t] THEN seq[i] ELSE n
      BY <2>1
    <3>4. CASE i = slot[t]
      BY <2>4, <3>3, <3>4
    <3>5. CASE i # slot[t]
      BY <1>2, <2>4, <3>2, <3>3, <3>5
    <3> QED BY <3>4, <3>5
  <2> QED BY <2>2, <2>4, <2>5
<1>8. CASE Places(t)
  <2>1. /\ UNCHANGED <<wrSeq, rdSeq, loaded, minSeq>> /\ pc'[t] \in {"none", "detached"}
    BY <1>8 DEF Places, Create, CreateAndGrow, Delete, Goto, TypeOK, seqVars, scanVars
  <2>2. CASE CreateAndGrow(t)
    <3>1. /\ Len(seq') = Grow /\ Grow \in Nat /\ Grow > Len(seq)
          /\ \A i \in 1..Grow : seq'[i] = IF i <= Len(seq) THEN seq[i] ELSE 0
      BY <2>2, CreateAndGrowIs, GrowIs
    <3>2. slot'[t] = Grow /\ \A u \in Threads : slot[u] # 0 => slot[u] \in 1..Len(seq)
      <4>1. \A u \in Threads : slot[u] # 0 => slot[u] \in 1..Len(seq)
        BY SlotIs
      <4> QED BY <2>2, <4>1 DEF CreateAndGrow, TypeOK
    <3>3. \A i \in 1..Len(seq') : seq'[i] <= wrSeq'
      BY <1>2, <2>1, <3>1
    <3>4. \A u \in Threads \ {t} : slot[u] # 0 => seq'[slot[u]] = seq[slot[u]]
      BY <1>2, <3>1, <3>2
    <3>5. Shows(t)'
      BY <1>2, <2>1, <3>1, <3>2 DEF Shows, Offline
    <3> QED BY <1>2, <2>1, <3>3, <3>4, <3>5
  <2>3. CASE Create(t)
    <3>1. seq' = seq /\ slot'[t] = freelist[1] /\ Len(freelist) > 0
      BY <2>3, FreelistIs DEF Create, seqVars
    <3>2. seq[freelist[1]] = 0
      <4>1. 1 \in 1..Len(freelist)
        BY <3>1 DEF TypeOK
      <4> QED BY <4>1 DEF SlotsInv
    <3> QED BY <1>2, <2>1, <3>1, <3>2 DEF Shows, Offline
  <2>4. CASE Delete(t)
    <3>1. seq' = seq /\ slot'[t] = 0
      BY <2>4 DEF Delete, seqVars, TypeOK
    <3> QED BY <1>2, <2>1, <3>1 DEF Shows, Offline
  <2> QED BY <1>8, <2>2, <2>3, <2>4 DEF Places
<1> QED BY <1>3, <1>6, <1>7, <1>8

-----------------------------------------------------------------------------
(* What PollInv says of one thread.                                        *)
Polls(t) ==
    /\ from[t] = "interp" => pc[t] \in Polling
    /\ pc[t] \in {"scan", "publish", "cas"} => Polled(t) # <<>>
    /\ pc[t] = "scan" => index[t] \in 1..Len(seq)

(* The end of a poll takes the interpreter's queue only if it is free.     *)
LEMMA PollEnds ==
    ASSUME TypeOK, NEW t \in Threads, Leave(t) \/ FreeFirst(t), pc[t] \in Polling
    PROVE  /\ pc'[t] \in {"poll", "run"}
           /\ from'[t] = "interp" => pc'[t] = "poll"
           /\ from'[t] = "interp" =>
                from[t] = "interp" \/ \A u \in Threads : from[u] = "interp" => pc[u] \notin Polling
<1>1. CASE Leave(t)
  BY <1>1, LeaveIs DEF TypeOK, InterpLocked
<1>2. CASE FreeFirst(t)
  BY <1>2 DEF TypeOK, FreeFirst, Goto
<1> QED BY <1>1, <1>2

(* What a step inside a function does to the queues polled.                *)
LEMMA PollInside ==
    ASSUME TypeOK, TypeOK', SlotsInv, PollInv, NEW t \in Threads, Inside(t)
    PROVE  /\ Polls(t)'
           /\ from'[t] = "interp" => \A u \in Threads \ {t} : from[u] # "interp"
           /\ \A u \in Threads \ {t} : queue'[u] = queue[u]
           /\ \A u \in Threads \ {t} : from[u] = "interp" => interpQ' = interpQ
<1>1. /\ Polls(t) /\ seq' = seq /\ slot[t] \in 1..Len(seq) /\ Len(seq) \in Nat
      /\ pc \in [Threads -> PCs] /\ from \in [Threads -> Queues]
      /\ index \in [Threads -> Nat]
      /\ queue \in [Threads -> Seq(Item)]
      /\ \A u \in Threads : from[u] = "interp" => pc[u] \in Polling
      /\ \A u \in Threads \ {t} : from[t] = "interp" => from[u] # "interp"
  <2>1. seq' = seq /\ pc[t] # "none"
    BY InsideStays
  <2>2. slot[t] \in 1..Len(seq) /\ Len(seq) \in Nat
    BY <2>1, SlotIs
  <2> QED BY <2>1, <2>2 DEF TypeOK, PollInv, Polls
<1> USE <1>1
<1>2. CASE Attach(t) \/ AttachLoad(t) \/ Quiesce(t) \/ Read(t) \/ Process(t)
  <2>1. UNCHANGED <<queue, interpQ, from>> /\ pc[t] \notin Polling
    BY <1>2 DEF Attach, AttachLoad, Quiesce, Read, Process, scanVars, memVars, Polling
  <2>2. pc'[t] \notin Polling \ {"poll"}
    BY <1>2 DEF Attach, AttachLoad, Quiesce, Read, Process, Goto, Polling
  <2> QED BY <2>1, <2>2 DEF Polls, Polling
<1>3. CASE Replace(t) \/ RetireAdvance(t) \/ RetireNext(t) \/ RetireStopped(t)
  <2>1. UNCHANGED <<interpQ, from>> /\ pc[t] \notin Polling
    BY <1>3 DEF Replace, RetireAdvance, RetireNext, RetireStopped, Push, scanVars, Polling
  <2>2. pc'[t] \notin Polling
    BY <1>3 DEF Replace, RetireAdvance, RetireNext, RetireStopped, Push, Goto, Polling
  <2>3. \A u \in Threads \ {t} : queue'[u] = queue[u]
    BY <1>3 DEF Replace, RetireAdvance, RetireNext, RetireStopped, Push
  <2> QED BY <2>1, <2>2, <2>3 DEF Polls, Polling
<1>4. CASE Abandon(t)
  BY <1>4 DEF Abandon, Polls, Polling, InterpLocked, Goto
<1>5. CASE Scan(t)
  <2>1. UNCHANGED <<queue, interpQ, from>> /\ Polled(t) # <<>>
        /\ index[t] \in 1..Len(seq) /\ index'[t] = index[t] + 1
        /\ pc'[t] = IF index[t] = Len(seq) THEN "publish" ELSE "scan"
    BY <1>5 DEF Scan, memVars, Goto, Polls
  <2> QED BY <1>5, <2>1 DEF Polls, Polling, Polled, Scan
<1>6. ASSUME Leave(t) \/ FreeFirst(t), pc[t] \in Polling,
             FreeFirst(t) \/ UNCHANGED <<queue, interpQ>>
      PROVE  /\ Polls(t)'
             /\ from'[t] = "interp" => \A u \in Threads \ {t} : from[u] # "interp"
             /\ \A u \in Threads \ {t} : queue'[u] = queue[u]
             /\ \A u \in Threads \ {t} : from[u] = "interp" => interpQ' = interpQ
  <2>1. /\ pc'[t] \in {"poll", "run"}
        /\ from'[t] = "interp" => pc'[t] = "poll"
        /\ from'[t] = "interp" =>
             from[t] = "interp" \/ \A u \in Threads : from[u] = "interp" => pc[u] \notin Polling
    BY <1>6, PollEnds
  <2>2. \A u \in Threads \ {t} : queue'[u] = queue[u]
    BY <1>6 DEF FreeFirst
  <2>3. \A u \in Threads \ {t} : from[u] = "interp" => interpQ' = interpQ
    BY <1>6 DEF FreeFirst, Queues
  <2> QED BY <2>1, <2>2, <2>3 DEF Polls, Polling
<1>7. CASE Poll(t)
  <2>1. CASE Leave(t) /\ UNCHANGED <<queue, interpQ>>
    BY <1>6, <1>7, <2>1 DEF Poll, Polling
  <2>2. CASE FreeFirst(t)
    BY <1>6, <1>7, <2>2 DEF Poll, Polling
  <2>3. CASE /\ Polled(t) # <<>>
             /\ index' = [index EXCEPT ![t] = 1]
             /\ Goto(t, "scan")
             /\ UNCHANGED <<from, queue, interpQ>>
    <3>1. index'[t] = 1 /\ pc'[t] = "scan"
      BY <2>3 DEF Goto
    <3> QED BY <2>3, <3>1 DEF Polls, Polling, Polled
  <2> QED BY <1>7, <2>1, <2>2, <2>3 DEF Poll
<1>8. CASE Publish(t) \/ Cas(t)
  <2>1. CASE /\ Goto(t, "cas") /\ UNCHANGED <<from, queue, interpQ>> /\ pc[t] = "publish"
    <3>1. pc'[t] = "cas"
      BY <2>1 DEF Goto
    <3> QED BY <2>1, <3>1 DEF Polls, Polling, Polled
  <2>2. CASE Leave(t) /\ UNCHANGED <<queue, interpQ>>
    BY <1>6, <1>8, <2>2 DEF Publish, Cas, Polling
  <2>3. CASE FreeFirst(t)
    BY <1>6, <1>8, <2>3 DEF Publish, Cas, Polling
  <2> QED BY <1>8, <2>1, <2>2, <2>3 DEF Publish, Cas, PollReturns, Polls
<1> QED BY <1>2, <1>3, <1>4, <1>5, <1>7, <1>8 DEF Inside

(* Every step keeps PollInv.                                               *)
LEMMA PollStep ==
    ASSUME TypeOK, TypeOK', SlotsInv, PollInv, [Next]_vars
    PROVE  PollInv'
<1>1. CASE UNCHANGED vars
  BY <1>1 DEF PollInv, Polled, vars, seqVars, scanVars, memVars
<1>2. SUFFICES ASSUME NEW t \in Threads, Inside(t) \/ Stores(t) \/ Places(t)
               PROVE  PollInv'
  BY <1>1, NextIs
<1>3. \A u \in Threads \ {t} :
          /\ pc'[u] = pc[u] /\ from'[u] = from[u] /\ index'[u] = index[u]
  BY <1>2, Others
<1>4. \A u \in Threads : Polls(u)
  BY DEF PollInv, Polls
<1>5. CASE Inside(t)
  <2>1. /\ Polls(t)'
        /\ from'[t] = "interp" => \A u \in Threads \ {t} : from[u] # "interp"
        /\ \A u \in Threads \ {t} : queue'[u] = queue[u]
        /\ \A u \in Threads \ {t} : from[u] = "interp" => interpQ' = interpQ
    BY <1>5, PollInside
  <2>2. seq' = seq
    BY <1>5, InsideStays
  <2>3. \A u \in Threads \ {t} : Polled(u)' = Polled(u)
    BY <1>3, <2>1 DEF Polled, TypeOK, Queues
  <2>4. \A u \in Threads \ {t} : Polls(u)'
    BY <1>3, <1>4, <2>2, <2>3 DEF Polls
  <2>5. \A u, v \in Threads : from'[u] = "interp" /\ from'[v] = "interp" => u = v
    BY <1>3, <2>1 DEF PollInv
  <2> QED BY <2>1, <2>4, <2>5 DEF PollInv, Polls
<1>6. CASE Stores(t) \/ Places(t)
  <2>1. /\ from'[t] = from[t] /\ pc[t] \notin Polling /\ pc'[t] \notin Polling
    BY <1>6 DEF Stores, Places, StoreSeq, Detach, Collect, Create, CreateAndGrow, Delete,
        Goto, Polling, TypeOK, scanVars
  <2>2. Len(seq') \in Nat /\ Len(seq) \in Nat /\ Len(seq') >= Len(seq)
    <3>1. Len(seq') \in Nat /\ Len(seq) \in Nat
      BY SMTT(30) DEF TypeOK
    <3>2. CASE Stores(t)
      BY <3>1, <3>2, SeqStored DEF Stores
    <3>3. CASE CreateAndGrow(t)
      BY <3>1, <3>3, CreateAndGrowIs, GrowIs
    <3>4. CASE Create(t) \/ Delete(t)
      BY <3>1, <3>4 DEF Create, Delete, seqVars
    <3> QED BY <1>6, <3>2, <3>3, <3>4 DEF Places
  <2>3. CASE UNCHANGED <<queue, interpQ>>
    <3>1. \A u \in Threads \ {t} : Polls(u)'
      BY <1>3, <1>4, <2>2, <2>3 DEF Polls, Polled
    <3>2. Polls(t)'
      BY <1>4, <2>1 DEF Polls, Polling
    <3> QED BY <1>3, <2>1, <3>1, <3>2 DEF PollInv, Polls
  <2>4. CASE Collect(t)
    <3>1. \A u \in Threads \ {t} : pc'[u] \in {"none", "detached"}
      BY <1>3, <2>4 DEF Collect, Stopped
    <3>2. \A u \in Threads : Polls(u)'
      BY <1>3, <1>4, <2>1, <3>1 DEF Polls, Polling
    <3> QED BY <1>3, <2>1, <3>2 DEF PollInv, Polls
  <2>5. Collect(t) \/ UNCHANGED <<queue, interpQ>>
    BY <1>6 DEF Stores, Places, StoreSeq, Detach, Create, CreateAndGrow, Delete, memVars
  <2> QED BY <2>3, <2>4, <2>5
<1> QED BY <1>2, <1>5, <1>6

-----------------------------------------------------------------------------
(* The items a step adds: one, of the block that the thread had replaced,  *)
(* with a goal that no number has come to.                                 *)
LEMMA ItemsGrow ==
    ASSUME TypeOK, HeldInv, PollInv, NEW t \in Threads,
           Inside(t) \/ Stores(t) \/ Places(t),
           NEW x \in RetiredItems', x \notin RetiredItems
    PROVE  /\ RetireAdvance(t) \/ RetireNext(t)
           /\ removed[t] \in Blocks
           /\ x = [block |-> removed[t], goal |-> wrSeq + QSBR_INCR]
<1>1. CASE UNCHANGED <<queue, interpQ>>
  BY <1>1, RetiredSame
<1>2. CASE Collect(t)
  BY <1>2, RetiredCollect
<1>3. CASE Abandon(t)
  BY <1>3, RetiredAbandon
<1>4. CASE FreeFirst(t) /\ pc[t] \in Polling /\ Polled(t) # <<>>
  BY <1>4, RetiredFree
<1>5. CASE RetireAdvance(t) \/ RetireNext(t)
  <2>1. /\ Push(t, wrSeq + QSBR_INCR) /\ wrSeq + QSBR_INCR \in Nat
        /\ removed[t] \in Blocks
    BY <1>5 DEF TypeOK, RetireAdvance, RetireNext, HeldInv, QSBR_INCR
  <2> QED BY <1>5, <2>1, RetiredPush
<1>6. CASE Inside(t)
  <2>1. CASE Attach(t) \/ AttachLoad(t) \/ Quiesce(t) \/ Read(t) \/ Process(t)
             \/ Replace(t) \/ RetireStopped(t) \/ Scan(t)
    BY <1>1, <2>1 DEF Attach, AttachLoad, Quiesce, Read, Process, Replace,
        RetireStopped, Scan, memVars
  <2>2. CASE Poll(t)
    BY <1>1, <1>4, <2>2 DEF Poll, Polling
  <2>3. CASE Publish(t) \/ Cas(t)
    BY <1>1, <1>4, <2>3 DEF Publish, Cas, PollReturns, Polling, PollInv
  <2> QED BY <1>3, <1>5, <1>6, <2>1, <2>2, <2>3 DEF Inside
<1>7. CASE Stores(t) \/ Places(t)
  BY <1>1, <1>2, <1>7 DEF Stores, Places, StoreSeq, Detach, Create, CreateAndGrow, Delete,
      memVars
<1> QED BY <1>6, <1>7

(* What HeldInv says of one thread.                                        *)
Holds(t) ==
    /\ held[t] # None => pc[t] \in {"run"} \cup Polling
    /\ removed[t] # None <=> pc[t] = "retire"
    /\ removed[t] # ptr

(* Every step keeps HeldInv.                                               *)
LEMMA HeldStep ==
    ASSUME TypeOK, SlotsInv, HeldInv, PollInv, [Next]_vars
    PROVE  HeldInv'
<1>1. CASE UNCHANGED vars
  <2>1. RetiredItems' = RetiredItems
    BY <1>1, RetiredSame DEF vars, memVars
  <2> QED BY <1>1, <2>1 DEF HeldInv, vars, memVars
<1>2. SUFFICES ASSUME NEW t \in Threads, Inside(t) \/ Stores(t) \/ Places(t)
               PROVE  HeldInv'
  BY <1>1, NextIs
<1>3. \A u \in Threads \ {t} :
          /\ pc'[u] = pc[u] /\ held'[u] = held[u] /\ removed'[u] = removed[u]
  BY <1>2, Others
<1>4. /\ \A u \in Threads : Holds(u)
      /\ \A x \in RetiredItems : x.block # ptr
      /\ held \in [Threads -> Blocks \cup {None}]
      /\ removed \in [Threads -> Blocks \cup {None}]
      /\ pc \in [Threads -> PCs] /\ ptr \in Blocks
  BY DEF HeldInv, Holds, TypeOK
<1>5. CASE Replace(t)
  <2>1. /\ ptr' \in Blocks /\ ptr' \notin InUse
        /\ removed' = [removed EXCEPT ![t] = ptr]
        /\ held' = [held EXCEPT ![t] = None]
        /\ pc' = [pc EXCEPT ![t] = "retire"]
        /\ UNCHANGED <<queue, interpQ>>
    BY <1>5 DEF Replace, Goto
  <2>2. ptr' # ptr /\ \A u \in Threads : ptr' # removed[u]
    BY <2>1, NoneType DEF InUse
  <2>3. \A x \in RetiredItems : x.block # ptr'
    BY <2>1, InUseIs
  <2>4. RetiredItems' = RetiredItems
    BY <2>1, RetiredSame
  <2>5. \A u \in Threads : Holds(u)'
    BY <1>4, <2>1, <2>2, NoneType DEF Holds, PCs, Polling
  <2> QED BY <2>3, <2>4, <2>5 DEF HeldInv, Holds
<1>6. ASSUME ptr' = ptr, Holds(t)' PROVE HeldInv'
  <2>1. \A u \in Threads : Holds(u)'
    BY <1>3, <1>4, <1>6 DEF Holds
  <2>2. ASSUME NEW x \in RetiredItems' PROVE x.block # ptr
    <3>1. CASE x \in RetiredItems
      BY <1>4, <3>1
    <3>2. CASE x \notin RetiredItems
      BY <1>2, <1>4, <3>2, ItemsGrow DEF Holds
    <3> QED BY <3>1, <3>2
  <2> QED BY <1>6, <2>1, <2>2 DEF HeldInv, Holds
<1>7. CASE Attach(t) \/ AttachLoad(t) \/ Quiesce(t) \/ Read(t) \/ Process(t)
  BY <1>4, <1>6, <1>7 DEF Attach, AttachLoad, Quiesce, Read, Process, memVars, Goto, Holds,
      Polling
<1>8. CASE RetireAdvance(t) \/ RetireNext(t) \/ RetireStopped(t)
  BY <1>4, <1>6, <1>8, NoneType DEF RetireAdvance, RetireNext, RetireStopped, Push, Goto,
      Holds, Polling
<1>9. CASE Abandon(t) \/ Scan(t)
  BY <1>4, <1>6, <1>9 DEF Abandon, Scan, memVars, Goto, Holds, Polling
<1>10. CASE Poll(t) \/ Publish(t) \/ Cas(t)
  <2>1. /\ UNCHANGED <<ptr, held, removed>>
        /\ pc[t] \in Polling
        /\ pc'[t] \in {"run"} \cup Polling
    BY <1>4, <1>10 DEF Poll, Publish, Cas, PollReturns, Leave, FreeFirst, Goto, Polling
  <2> QED BY <1>4, <1>6, <2>1 DEF Holds, Polling
<1>11. CASE Stores(t)
  BY <1>4, <1>6, <1>11, NoneType DEF Stores, StoreSeq, Detach, Collect, memVars, Goto, Holds,
      Polling
<1>12. CASE Places(t)
  BY <1>4, <1>6, <1>12 DEF Places, Create, CreateAndGrow, Delete, memVars, Goto, Holds,
      Polling
<1> QED
  BY <1>2, <1>5, <1>7, <1>8, <1>9, <1>10, <1>11, <1>12 DEF Inside

(* A block that is borrowed and retired after a step, and that was retired *)
(* before, was borrowed before, and the borrower shows the same number.    *)
LEMMA BorrowedBefore ==
    ASSUME TypeOK, SlotsInv, HeldInv, NEW t \in Threads,
           Inside(t) \/ Stores(t) \/ Places(t),
           NEW x \in RetiredItems, x \in RetiredItems',
           NEW u \in Threads, held'[u] = x.block
    PROVE  /\ held[u] = x.block /\ slot'[u] = slot[u]
           /\ slot[u] \in 1..Len(seq) /\ seq'[slot[u]] = seq[slot[u]]
<1>1. x.block \in Blocks /\ x.block # None /\ x.block # ptr
  BY RetiredAreItems, NoneType DEF Item, HeldInv
<1>2. held \in [Threads -> Blocks \cup {None}] /\ slot \in [Threads -> 0..Len(seq)]
  BY DEF TypeOK
<1>3. held[u] = x.block
  <2>1. held' = held \/ held' = [held EXCEPT ![t] = None] \/ held' = [held EXCEPT ![t] = ptr]
    <3>1. CASE Inside(t)
      BY <3>1 DEF Inside, Attach, AttachLoad, Quiesce, Read, Replace, RetireAdvance,
          RetireNext, RetireStopped, Push, Process, Abandon, Poll, Scan, Publish, Cas,
          memVars
    <3>2. CASE Stores(t) \/ Places(t)
      BY <3>2 DEF Stores, StoreSeq, Detach, Collect, Places, Create, CreateAndGrow, Delete,
          memVars
    <3> QED BY <3>1, <3>2
  <2> QED BY <1>1, <1>2, <2>1
<1>4. pc[u] \in {"run"} \cup Polling
  BY <1>1, <1>3 DEF HeldInv
<1>5. slot[u] \in 1..Len(seq)
  BY <1>4, SlotIs DEF Polling
<1>6. CASE Inside(t)
  BY <1>3, <1>5, <1>6, InsideStays
<1>7. CASE Stores(t)
  <2>1. u # t
    <3>1. CASE StoreSeq(t)
      BY <1>4, <3>1 DEF StoreSeq, Polling
    <3>2. CASE Detach(t) \/ Collect(t)
      BY <1>1, <1>2, <3>2 DEF Detach, Collect
    <3> QED BY <1>7, <3>1, <3>2 DEF Stores
  <2>2. slot' = slot /\ \A i \in 1..Len(seq) : i # slot[t] => seq'[i] = seq[i]
    BY <1>7, SeqStored DEF Stores
  <2>3. slot[u] # slot[t]
    BY <1>5, <2>1 DEF SlotsInv
  <2> QED BY <1>3, <1>5, <2>2, <2>3
<1>8. CASE Places(t)
  <2>1. u # t
    BY <1>4, <1>8 DEF Places, Create, CreateAndGrow, Delete, Polling
  <2>2. slot'[u] = slot[u]
    BY <1>8, <2>1, Others
  <2>3. CASE CreateAndGrow(t)
    <3>1. /\ Len(seq) \in Nat /\ Grow \in Nat /\ Grow > Len(seq)
          /\ \A i \in 1..Grow : seq'[i] = IF i <= Len(seq) THEN seq[i] ELSE QSBR_OFFLINE
      BY <1>5, <2>3, SlotIs, GrowIs, CreateAndGrowIs
    <3> QED BY <1>3, <1>5, <2>2, <3>1
  <2>4. CASE Create(t) \/ Delete(t)
    BY <1>3, <1>5, <2>2, <2>4 DEF Create, Delete, seqVars
  <2> QED BY <1>8, <2>3, <2>4 DEF Places
<1> QED BY <1>2, <1>6, <1>7, <1>8

(* The read sequence goes to what a scan has found, or past everything.    *)
LEMMA ReadSeqIs ==
    ASSUME NEW t \in Threads, Inside(t) \/ Stores(t) \/ Places(t)
    PROVE  \/ rdSeq' = rdSeq
           \/ Cas(t) /\ pc[t] = "cas" /\ rdSeq = loaded[t] /\ rdSeq' = minSeq[t]
           \/ Collect(t) /\ rdSeq' = wrSeq + QSBR_INCR
<1>1. CASE Inside(t)
  BY <1>1 DEF Inside, Attach, AttachLoad, Quiesce, Read, Replace, RetireAdvance, RetireNext,
      RetireStopped, Push, Process, Abandon, Poll, Scan, Publish, Cas, seqVars
<1>2. CASE Stores(t) \/ Places(t)
  BY <1>2 DEF Stores, StoreSeq, Detach, Collect, Places, Create, CreateAndGrow, Delete,
      seqVars
<1> QED BY <1>1, <1>2

(* The write sequence stays or advances once.                              *)
LEMMA WriteSeqIs ==
    ASSUME TypeOK, NEW t \in Threads, Inside(t) \/ Stores(t) \/ Places(t)
    PROVE  wrSeq' = wrSeq \/ wrSeq' = wrSeq + QSBR_INCR
<1>1. CASE Inside(t)
  BY <1>1 DEF Inside, Attach, AttachLoad, Quiesce, Read, Replace, RetireAdvance, RetireNext,
      RetireStopped, Push, Process, Abandon, Poll, Scan, Publish, Cas, seqVars
<1>2. CASE Stores(t) \/ Places(t)
  BY <1>2 DEF Stores, StoreSeq, Detach, Collect, Places, Create, CreateAndGrow, Delete,
      seqVars
<1> QED BY <1>1, <1>2

(* What is at most two ahead stays so when the sequence advances.          *)
LEMMA Further ==
    ASSUME NEW a \in Nat, NEW b \in Nat, a <= b
    PROVE  a + 2 <= b + 2 /\ \A n \in Nat : n <= a + 2 => n <= b + 2
  OBVIOUS

(* Every step keeps BorrowersHoldBackGoals.                                *)
LEMMA BorrowStep ==
    ASSUME TypeOK, TypeOK', Inv, SlotsInv', SeqInv', HeldInv', [Next]_vars
    PROVE  BorrowersHoldBackGoals'
<1> USE DEF QSBR_OFFLINE, QSBR_INITIAL, QSBR_INCR
<1>1. CASE UNCHANGED vars
  <2>1. RetiredItems' = RetiredItems
    BY <1>1, RetiredSame DEF vars, memVars
  <2> QED BY <1>1, <2>1 DEF Inv, BorrowersHoldBackGoals, vars, seqVars, slotVars, memVars
<1>2. SUFFICES ASSUME NEW t \in Threads, Inside(t) \/ Stores(t) \/ Places(t)
               PROVE  BorrowersHoldBackGoals'
  BY <1>1, NextIs
<1>3. wrSeq \in Nat /\ rdSeq \in Nat /\ rdSeq <= wrSeq /\ rdSeq' <= wrSeq' /\ wrSeq' \in Nat
  BY DEF TypeOK, Inv, SeqInv
<1>4. SUFFICES ASSUME NEW x \in RetiredItems'
               PROVE  /\ x.goal <= wrSeq' + 2
                      /\ \A u \in Threads : held'[u] = x.block =>
                            /\ 0 < seq'[slot'[u]]
                            /\ seq'[slot'[u]] < x.goal
                            /\ rdSeq' < x.goal
  BY <1>3 DEF BorrowersHoldBackGoals
<1>5. wrSeq <= wrSeq'
  BY <1>2, <1>3, WriteSeqIs
<1>6. CASE x \notin RetiredItems
  <2>1. /\ RetireAdvance(t) \/ RetireNext(t)
        /\ x = [block |-> removed[t], goal |-> wrSeq + 2]
    BY <1>2, <1>6, ItemsGrow DEF Inv
  <2>2. x.goal = wrSeq + 2
    BY <2>1
  <2>3. rdSeq' = rdSeq /\ UNCHANGED <<seq, slot>>
    BY <2>1 DEF RetireAdvance, RetireNext, Push, slotVars
  <2>4. ASSUME NEW u \in Threads, held'[u] = x.block
        PROVE  /\ 0 < seq'[slot'[u]]
               /\ seq'[slot'[u]] < x.goal
    <3>1. held'[u] # None
      <4>1. removed[t] \in Blocks
        BY <1>2, <1>6, ItemsGrow DEF Inv
      <4> QED BY <2>1, <2>4, <4>1, NoneType
    <3>2. pc'[u] \notin Offline
      BY <3>1 DEF HeldInv, Offline, Polling
    <3>3. pc'[u] # "none" /\ seq'[slot'[u]] # 0
      BY <3>2 DEF SeqInv, Offline
    <3>4. slot[u] \in 1..Len(seq)
      <4>1. slot[u] # 0
        BY <2>3, <3>3 DEF SlotsInv
      <4>2. slot[u] \in 0..Len(seq) /\ Len(seq) \in Nat
        BY DEF TypeOK
      <4> QED BY <4>1, <4>2
    <3>5. seq[slot[u]] \in Nat /\ seq[slot[u]] <= wrSeq
      <4>1. seq \in Seq(Nat)
        BY DEF TypeOK
      <4>2. \A i \in 1..Len(seq) : seq[i] <= wrSeq
        BY DEF Inv, SeqInv
      <4> QED BY <3>4, <4>1, <4>2
    <3> QED BY <1>3, <2>2, <2>3, <3>3, <3>5
  <2>5. x.goal <= wrSeq' + 2 /\ rdSeq' < x.goal
    <3>1. wrSeq + 2 <= wrSeq' + 2
      BY <1>3, <1>5, Further
    <3>2. rdSeq' = rdSeq
      BY <2>3
    <3>3. rdSeq' < wrSeq + 2
      BY <1>3, <3>2
    <3> QED BY <2>2, <3>1, <3>3
  <2> QED BY <2>4, <2>5
<1>7. CASE x \in RetiredItems
  <2>1. x.goal \in Nat /\ x.goal <= wrSeq + 2
    BY <1>7, RetiredAreItems DEF Item, Inv, BorrowersHoldBackGoals
  <2>2. ASSUME NEW u \in Threads, held'[u] = x.block
        PROVE  /\ 0 < seq'[slot'[u]]
               /\ seq'[slot'[u]] < x.goal
               /\ rdSeq' < x.goal
    <3>1. /\ held[u] = x.block /\ slot'[u] = slot[u]
          /\ seq'[slot[u]] = seq[slot[u]]
      BY <1>2, <1>7, <2>2, BorrowedBefore DEF Inv
    <3>2. 0 < seq[slot[u]] /\ seq[slot[u]] < x.goal /\ rdSeq < x.goal
      BY <1>7, <3>1 DEF Inv, BorrowersHoldBackGoals
    <3>3. CASE rdSeq' = rdSeq
      BY <3>1, <3>2, <3>3
    <3>4. CASE pc[t] = "cas" /\ rdSeq' = minSeq[t]
      BY <1>7, <3>1, <3>2, <3>4 DEF Inv, ScanInv
    <3>5. CASE Collect(t)
      BY <3>5, RetiredCollect
    <3> QED BY <1>2, <3>3, <3>4, <3>5, ReadSeqIs
  <2>3. x.goal <= wrSeq' + 2
    BY <1>3, <1>5, <2>1, Further
  <2> QED BY <2>2, <2>3
<1> QED BY <1>6, <1>7

-----------------------------------------------------------------------------
(* A scan goes on only in its own steps.                                   *)
LEMMA ScanGoesOn ==
    ASSUME TypeOK, NEW t \in Threads, Inside(t) \/ Stores(t) \/ Places(t),
           pc'[t] \in {"scan", "publish", "cas"}
    PROVE  \/ Poll(t) /\ pc'[t] = "scan" /\ minSeq'[t] = wrSeq /\ index'[t] = 1
           \/ Scan(t)
           \/ Publish(t) /\ pc'[t] = "cas" /\ UNCHANGED minSeq
<1>1. pc \in [Threads -> PCs] /\ minSeq \in [Threads -> Nat] /\ index \in [Threads -> Nat]
  BY DEF TypeOK
<1>2. CASE Attach(t) \/ AttachLoad(t) \/ Quiesce(t) \/ Read(t) \/ Process(t) \/ Abandon(t)
  BY <1>1, <1>2 DEF Attach, AttachLoad, Quiesce, Read, Process, Abandon, Goto
<1>3. CASE Replace(t) \/ RetireAdvance(t) \/ RetireNext(t) \/ RetireStopped(t)
  BY <1>1, <1>3 DEF Replace, RetireAdvance, RetireNext, RetireStopped, Push, Goto
<1>4. CASE Poll(t) \/ Publish(t) \/ Cas(t)
  BY <1>1, <1>4 DEF Poll, Publish, Cas, PollReturns, Leave, FreeFirst, Goto
<1>5. CASE Stores(t) \/ Places(t)
  BY <1>1, <1>5 DEF Stores, StoreSeq, Detach, Collect, Places, Create, CreateAndGrow,
      Delete, Goto
<1> QED BY <1>2, <1>3, <1>4, <1>5 DEF Inside

(* What ScanInv says of a borrower with one scan.                          *)
Seen(x, u, s) ==
    /\ pc[s] = "scan" => minSeq[s] < x.goal \/ index[s] <= slot[u]
    /\ pc[s] \in {"publish", "cas"} => minSeq[s] < x.goal

(* Every step keeps ScanInv.                                               *)
LEMMA ScanStep ==
    ASSUME TypeOK, TypeOK', Inv, SeqInv', [Next]_vars
    PROVE  ScanInv'
<1> USE DEF QSBR_OFFLINE, QSBR_INITIAL, QSBR_INCR
<1>1. CASE UNCHANGED vars
  <2>1. RetiredItems' = RetiredItems
    BY <1>1, RetiredSame DEF vars, memVars
  <2> QED BY <1>1, <2>1 DEF Inv, ScanInv, vars, slotVars, scanVars, memVars
<1>2. SUFFICES ASSUME NEW t \in Threads, Inside(t) \/ Stores(t) \/ Places(t)
               PROVE  ScanInv'
  BY <1>1, NextIs
<1>3. SUFFICES ASSUME NEW x \in RetiredItems', NEW u \in Threads, NEW s \in Threads,
                      held'[u] = x.block
               PROVE  Seen(x, u, s)'
  BY DEF ScanInv, Seen
<1>4. /\ wrSeq \in Nat /\ minSeq[s] \in Nat /\ minSeq[s] <= wrSeq /\ minSeq'[s] \in Nat
  BY DEF TypeOK, Inv, SeqInv
<1>5. CASE x \notin RetiredItems
  <2>1. /\ RetireAdvance(t) \/ RetireNext(t)
        /\ x = [block |-> removed[t], goal |-> wrSeq + 2]
    BY <1>2, <1>5, ItemsGrow DEF Inv
  <2>2. x.goal = wrSeq + 2 /\ minSeq' = minSeq
    BY <2>1 DEF RetireAdvance, RetireNext, Push, scanVars
  <2> QED BY <1>4, <2>2 DEF Seen
<1>6. CASE x \in RetiredItems
  <2>1. /\ held[u] = x.block /\ slot'[u] = slot[u]
        /\ slot[u] \in 1..Len(seq) /\ x.goal \in Nat /\ Len(seq) \in Nat
    BY <1>2, <1>3, <1>6, BorrowedBefore, SlotIs, RetiredAreItems DEF Inv, Item
  <2>2. /\ 0 < seq[slot[u]] /\ seq[slot[u]] < x.goal /\ seq[slot[u]] \in Nat
        /\ Seen(x, u, s)
    BY <1>6, <2>1, SlotIs DEF Inv, BorrowersHoldBackGoals, ScanInv, Seen
  <2>3. CASE s # t
    <3>1. pc'[s] = pc[s] /\ minSeq'[s] = minSeq[s] /\ index'[s] = index[s]
      BY <1>2, <2>3, Others
    <3> QED BY <2>1, <2>2, <3>1 DEF Seen
  <2>4. CASE s = t /\ pc'[t] \notin {"scan", "publish", "cas"}
    BY <2>4 DEF Seen
  <2>5. CASE s = t /\ pc'[t] = "scan" /\ index'[t] = 1
    BY <2>1, <2>5 DEF Seen
  <2>6. CASE s = t /\ Publish(t) /\ pc'[t] = "cas" /\ UNCHANGED minSeq
    BY <2>2, <2>6 DEF Seen, Publish
  <2>7. CASE s = t /\ Scan(t)
    <3>1. /\ pc[t] = "scan" /\ index[t] \in 1..Len(seq)
          /\ index'[t] = index[t] + 1
          /\ pc'[t] = IF index[t] = Len(seq) THEN "publish" ELSE "scan"
          /\ minSeq \in [Threads -> Nat]
      BY <2>7 DEF Scan, Goto, TypeOK, Inv, PollInv
    <3>2. minSeq'[t] \in Nat /\ minSeq'[t] <= minSeq[t]
          /\ (seq[index[t]] # 0 => minSeq'[t] <= seq[index[t]])
      <4>1. seq[index[t]] \in Nat
        <5>1. seq \in Seq(Nat)
          BY DEF TypeOK
        <5> QED BY <3>1, <5>1
      <4> QED BY <1>4, <2>7, <3>1, <4>1 DEF Scan
    <3>3. minSeq[t] < x.goal \/ index[t] <= slot[u]
      BY <2>2, <2>7, <3>1 DEF Seen
    <3>4. CASE minSeq[t] < x.goal
      <4>1. minSeq'[t] < x.goal
        BY <1>4, <2>1, <2>7, <3>2, <3>4
      <4> QED BY <2>7, <4>1 DEF Seen
    <3>5. CASE index[t] = slot[u]
      <4>1. minSeq'[t] < x.goal
        BY <2>1, <2>2, <3>2, <3>5
      <4> QED BY <2>7, <4>1 DEF Seen
    <3>6. CASE index[t] < slot[u]
      <4>1. pc'[t] = "scan" /\ index'[t] <= slot'[u]
        BY <2>1, <3>1, <3>6
      <4> QED BY <2>7, <4>1 DEF Seen
    <3>7. slot[u] \in Nat /\ index[t] \in Nat
      BY <2>1, <3>1
    <3> QED BY <3>3, <3>4, <3>5, <3>6, <3>7
  <2> QED BY <1>2, <2>3, <2>4, <2>5, <2>6, <2>7, ScanGoesOn
<1> QED BY <1>5, <1>6

-----------------------------------------------------------------------------
(* A block that is given back to malloc is borrowed by nobody.             *)
LEMMA FreedIsNotBorrowed ==
    ASSUME TypeOK, Inv, NEW t \in Threads, pc[t] \in Polling, Polled(t) # <<>>,
           FreeFirst(t),
           Goal(t) <= rdSeq \/ (pc[t] = "cas" /\ Goal(t) <= minSeq[t]),
           NEW u \in Threads, held[u] # None, held[u] = Polled(t)[1].block
    PROVE  FALSE
<1> DEFINE x == Polled(t)[1]
<1>1. x \in RetiredItems /\ x.goal \in Nat
  BY RetiredFree, RetiredAreItems DEF Item
<1>2. rdSeq < x.goal
  BY <1>1 DEF Inv, BorrowersHoldBackGoals
<1>3. pc[t] = "cas" => minSeq[t] < x.goal
  BY <1>1 DEF Inv, ScanInv
<1>4. rdSeq \in Nat /\ minSeq[t] \in Nat
  BY DEF TypeOK
<1> QED BY <1>1, <1>2, <1>3, <1>4 DEF Goal

(* Every step keeps NoUseAfterFree.                                        *)
LEMMA NoUseStep ==
    ASSUME TypeOK, TypeOK', Inv, HeldInv', [Next]_vars
    PROVE  NoUseAfterFree'
<1>1. CASE UNCHANGED vars
  BY <1>1 DEF Inv, NoUseAfterFree, InUse, BlocksOf, vars, memVars
<1>2. SUFFICES ASSUME NEW t \in Threads, Inside(t) \/ Stores(t) \/ Places(t),
                      NEW u \in Threads, held'[u] # None
               PROVE  held'[u] \in InUse'
  BY <1>1, NextIs DEF NoUseAfterFree
<1>3. InUse' = {ptr'} \cup ({removed'[v] : v \in Threads} \ {None})
                      \cup {x.block : x \in RetiredItems'}
  BY DEF InUse, RetiredItems, Items, BlocksOf
<1>4. /\ held \in [Threads -> Blocks \cup {None}]
      /\ removed \in [Threads -> Blocks \cup {None}]
      /\ ptr \in Blocks /\ Inv
      /\ held[u] # None => held[u] \in InUse
  BY DEF TypeOK, Inv, NoUseAfterFree
<1>5. ASSUME held' = held \/ held' = [held EXCEPT ![t] = None],
             UNCHANGED <<ptr, removed>>,
             RetiredItems \subseteq RetiredItems'
      PROVE  held'[u] \in InUse'
  <2>1. held'[u] = held[u]
    BY <1>2, <1>4, <1>5
  <2> QED BY <1>2, <1>3, <1>4, <1>5, <2>1, InUseIs
<1>6. CASE Attach(t) \/ AttachLoad(t) \/ Quiesce(t) \/ Process(t) \/ Scan(t)
  BY <1>5, <1>6, RetiredSame DEF Attach, AttachLoad, Quiesce, Process, Scan, memVars
<1>7. CASE Read(t)
  <2>1. held' = [held EXCEPT ![t] = ptr] /\ UNCHANGED <<ptr, removed, queue, interpQ>>
    BY <1>7 DEF Read
  <2>2. RetiredItems' = RetiredItems
    BY <2>1, RetiredSame
  <2> QED BY <1>2, <1>3, <1>4, <2>1, <2>2, InUseIs
<1>8. CASE Replace(t)
  <2>1. /\ held' = [held EXCEPT ![t] = None] /\ removed' = [removed EXCEPT ![t] = ptr]
        /\ UNCHANGED <<queue, interpQ>> /\ pc[t] = "run"
    BY <1>8 DEF Replace
  <2>2. RetiredItems' = RetiredItems
    BY <2>1, RetiredSame
  <2>3. held'[u] = held[u] /\ removed[t] = None
    BY <1>2, <1>4, <2>1 DEF Inv, HeldInv
  <2>4. held[u] \in {ptr} \cup ({removed[v] : v \in Threads \ {t}} \ {None})
                         \cup {x.block : x \in RetiredItems}
    BY <1>2, <1>4, <2>3, InUseIs
  <2>5. removed'[t] = ptr /\ \A v \in Threads \ {t} : removed'[v] = removed[v]
    BY <1>4, <2>1
  <2>6. ptr # None
    BY <1>4, NoneType
  <2> QED BY <1>3, <2>2, <2>3, <2>4, <2>5, <2>6
<1>9. CASE RetireAdvance(t) \/ RetireNext(t)
  <2>1. /\ Push(t, wrSeq + QSBR_INCR) /\ wrSeq + QSBR_INCR \in Nat
        /\ removed[t] \in Blocks
    BY <1>9 DEF TypeOK, Inv, HeldInv, RetireAdvance, RetireNext, QSBR_INCR
  <2> DEFINE x == [block |-> removed[t], goal |-> wrSeq + QSBR_INCR]
  <2>2. RetiredItems' = RetiredItems \cup {x} /\ x.block = removed[t]
    BY <2>1, RetiredPush
  <2> HIDE DEF x
  <2>3. /\ held' = held /\ ptr' = ptr
        /\ \A v \in Threads \ {t} : removed'[v] = removed[v]
    BY <1>4, <2>1 DEF Push
  <2>4. held[u] \in {ptr, removed[t]} \cup ({removed[v] : v \in Threads \ {t}} \ {None})
                         \cup {y.block : y \in RetiredItems}
    BY <1>2, <1>4, <2>3, InUseIs
  <2> QED BY <1>3, <2>2, <2>3, <2>4
<1>10. CASE RetireStopped(t)
  <2>1. held' = held /\ pc[t] = "retire" /\ Stopped(t)
    BY <1>10 DEF RetireStopped
  <2>2. pc[u] \in {"retire", "none", "detached"}
    BY <2>1 DEF Stopped
  <2> QED BY <1>2, <2>1, <2>2 DEF Inv, HeldInv, Polling
<1>11. CASE Abandon(t)
  BY <1>5, <1>11, RetiredAbandon DEF Abandon
<1>12. CASE Poll(t) \/ Publish(t) \/ Cas(t)
  <2>1. UNCHANGED <<ptr, held, removed>> /\ pc[t] \in Polling
    BY <1>12 DEF Poll, Publish, Cas, Polling
  <2>2. CASE UNCHANGED <<queue, interpQ>>
    BY <1>5, <2>1, <2>2, RetiredSame
  <2>3. CASE /\ FreeFirst(t) /\ Polled(t) # <<>>
             /\ Goal(t) <= rdSeq \/ (pc[t] = "cas" /\ Goal(t) <= minSeq[t])
    <3>1. RetiredItems \subseteq RetiredItems' \cup {Polled(t)[1]}
      BY <2>3, RetiredFree
    <3>2. held[u] # Polled(t)[1].block
      BY <1>2, <1>4, <2>1, <2>3, FreedIsNotBorrowed
    <3> QED BY <1>2, <1>3, <1>4, <2>1, <3>1, <3>2, InUseIs
  <2>4. \/ UNCHANGED <<queue, interpQ>>
        \/ /\ FreeFirst(t) /\ Polled(t) # <<>>
           /\ Goal(t) <= rdSeq \/ (pc[t] = "cas" /\ Goal(t) <= minSeq[t])
    BY <1>12 DEF Poll, Publish, Cas, PollReturns, Inv, PollInv
  <2> QED BY <2>2, <2>3, <2>4
<1>13. CASE StoreSeq(t) \/ Detach(t) \/ Places(t)
  BY <1>5, <1>13, RetiredSame DEF StoreSeq, Detach, Places, Create, CreateAndGrow, Delete,
      memVars
<1>14. CASE Collect(t)
  <2>1. held' = [held EXCEPT ![t] = None] /\ Stopped(t)
    BY <1>14 DEF Collect
  <2>2. u # t /\ held[u] # None
    BY <1>2, <1>4, <2>1
  <2>3. pc[u] \in {"none", "detached"}
    BY <2>1, <2>2 DEF Stopped
  <2> QED BY <2>2, <2>3 DEF Inv, HeldInv, Polling
<1> QED
  BY <1>2, <1>6, <1>7, <1>8, <1>9, <1>10, <1>11, <1>12, <1>13, <1>14 DEF Inside, Stores

-----------------------------------------------------------------------------
(* The invariant holds at first.                                           *)
LEMMA Initially ==
    ASSUME Init
    PROVE  TypeOK /\ Inv
<1> USE DEF Init, QSBR_INITIAL, QSBR_OFFLINE, QSBR_INCR
<1>1. TypeOK
  BY DEF TypeOK, PCs, Queues
<1>2. RetiredItems = {}
  BY DEF RetiredItems, Items
<1>3. SlotsInv /\ PollInv /\ HeldInv
  BY <1>2, NoneType DEF SlotsInv, PollInv, HeldInv
<1>4. SeqInv
  BY DEF SeqInv, Offline
<1>5. ScanInv /\ NoUseAfterFree /\ BorrowersHoldBackGoals
  BY <1>1, <1>2 DEF ScanInv, NoUseAfterFree, BorrowersHoldBackGoals
<1> QED BY <1>1, <1>3, <1>4, <1>5 DEF Inv

(* Every step keeps the whole invariant.                                   *)
LEMMA Step ==
    ASSUME TypeOK, Inv, [Next]_vars
    PROVE  TypeOK' /\ Inv'
<1>1. TypeOK'
  BY Typing DEF Inv
<1>2. SlotsInv' /\ PollInv' /\ HeldInv'
  BY <1>1, SlotsStep, PollStep, HeldStep DEF Inv
<1>3. SeqInv'
  BY <1>1, SeqStep DEF Inv
<1> QED BY <1>1, <1>2, <1>3, ScanStep, NoUseStep, BorrowStep DEF Inv

(* The invariant holds in every reachable state.                           *)
THEOREM Invariance == Spec => [](TypeOK /\ Inv)
<1>1. Init => TypeOK /\ Inv
  BY Initially
<1>2. TypeOK /\ Inv /\ [Next]_vars => (TypeOK /\ Inv)'
  BY Step
<1> QED BY <1>1, <1>2, PTL DEF Spec

(* Memory that was freed is not used: for any number of threads, blocks    *)
(* and slots, nobody has a pointer to memory that malloc may give out.     *)
THEOREM NothingIsUsedAfterFree == Spec => []NoUseAfterFree
<1>1. TypeOK /\ Inv => NoUseAfterFree
  BY DEF Inv
<1> QED BY <1>1, Invariance, PTL

(* Whoever borrows a retired block shows a number below its goal, and the  *)
(* read sequence has not come to the goal.                                 *)
THEOREM GoalsWaitForBorrowers == Spec => []BorrowersHoldBackGoals
<1>1. TypeOK /\ Inv => BorrowersHoldBackGoals
  BY DEF Inv
<1> QED BY <1>1, Invariance, PTL

(* The read sequence never goes back.                                      *)
THEOREM ReadSeqNeverFalls == Spec => GoalsStayReached
<1>1. TypeOK /\ Inv /\ [Next]_vars => [rdSeq' >= rdSeq]_vars
  <2> SUFFICES ASSUME TypeOK, Inv, Next
               PROVE  rdSeq' >= rdSeq \/ UNCHANGED vars
    OBVIOUS
  <2>1. PICK t \in Threads : Inside(t) \/ Stores(t) \/ Places(t)
    BY NextIs
  <2>2. /\ rdSeq \in Nat /\ wrSeq \in Nat /\ rdSeq <= wrSeq
        /\ minSeq[t] \in Nat /\ loaded[t] \in Nat
        /\ pc[t] = "cas" => loaded[t] < minSeq[t]
    BY DEF TypeOK, Inv, SeqInv
  <2> QED BY <2>1, <2>2, ReadSeqIs DEF QSBR_INCR
<1> QED BY <1>1, Invariance, PTL DEF Spec, GoalsStayReached
=============================================================================
