---------------------------- MODULE TSDequeProofs ----------------------------
(***************************************************************************)
(* Proofs about TSDeque: a single taker may use the answers and references *)
(* it was given without a lock, and then no item is lost or handed out     *)
(* twice.                                                                  *)
(***************************************************************************)
EXTENDS TSDeque, SequenceTheorems, TLAPS

IInv == TypeOK /\ EachItemOnce

LEMMA InitInv == Init => IInv
<1> SUFFICES ASSUME Init PROVE IInv
  OBVIOUS
<1>1. DOMAIN deqQueue = {} /\ Queued = {}
  BY DEF Init, Queued
<1>2. 0..(pushed - 1) = {}
  BY DEF Init
<1> QED
  BY <1>1, <1>2, EmptySeq DEF Init, IInv, TypeOK, EachItemOnce

\* What the ways to change a sequence do to its items.
LEMMA AppendItems ==
    ASSUME NEW s \in Seq(Nat), NEW x \in Nat
    PROVE  /\ Append(s, x) \in Seq(Nat)
           /\ Len(Append(s, x)) = Len(s) + 1
           /\ \A i \in 1..Len(s) : Append(s, x)[i] = s[i]
           /\ Append(s, x)[Len(s) + 1] = x
  BY AppendProperties

LEMMA PrependItems ==
    ASSUME NEW s \in Seq(Nat), NEW x \in Nat
    PROVE  /\ <<x>> \o s \in Seq(Nat)
           /\ Len(<<x>> \o s) = Len(s) + 1
           /\ (<<x>> \o s)[1] = x
           /\ \A i \in 1..Len(s) : (<<x>> \o s)[i + 1] = s[i]
<1>1. <<x>> \in Seq(Nat) /\ Len(<<x>>) = 1 /\ <<x>>[1] = x
  OBVIOUS
<1>2. Len(s) \in Nat
  BY LenProperties
<1> QED
  BY <1>1, <1>2, ConcatProperties

LEMMA TailItems ==
    ASSUME NEW s \in Seq(Nat), s # <<>>
    PROVE  /\ Tail(s) \in Seq(Nat)
           /\ Len(Tail(s)) = Len(s) - 1
           /\ \A i \in 1..(Len(s) - 1) : Tail(s)[i] = s[i + 1]
           /\ Len(s) \in Nat \ {0}
  BY EmptySeq, HeadTailProperties, LenProperties

LEMMA FrontItems ==
    ASSUME NEW s \in Seq(Nat), s # <<>>
    PROVE  /\ SubSeq(s, 1, Len(s) - 1) \in Seq(Nat)
           /\ Len(SubSeq(s, 1, Len(s) - 1)) = Len(s) - 1
           /\ \A i \in 1..(Len(s) - 1) : SubSeq(s, 1, Len(s) - 1)[i] = s[i]
           /\ Len(s) \in Nat \ {0}
<1> DEFINE n == Len(s) - 1
<1>1. Len(s) \in Nat \ {0} /\ n \in Nat /\ n <= Len(s) /\ (n - 1) + 1 = n
  BY EmptySeq, LenProperties
<1>2. SubSeq(s, 1, n) \in Seq(Nat)
  BY <1>1, SubSeqProperties
<1>3. Len(SubSeq(s, 1, n)) = n /\ \A i \in 1..n : SubSeq(s, 1, n)[i] = s[i]
  BY <1>1
<1> QED
  BY <1>1, <1>2, <1>3

\* Where the items of a sequence of length n are, after one was added at k or the
\* one at g was removed.
LEMMA NextIndex ==
    \A n \in Nat : \A i \in 1..n : i + 1 \in 1..(n + 1) /\ i + 1 # 1 /\ (i + 1) - 1 = i
  OBVIOUS

LEMMA OtherIndex ==
    \A n \in Nat : \A k \in {1, n + 1} : \A i \in 1..(n + 1) :
        i # k => (IF k = 1 THEN i - 1 ELSE i) \in 1..n
  OBVIOUS

LEMMA RemovedIndex ==
    ASSUME NEW n \in Nat, NEW d \in {0, 1}, NEW g \in 1..n, g = IF d = 1 THEN 1 ELSE n
    PROVE  /\ \A i \in 1..(n - 1) : i + d \in 1..n /\ i + d # g
           /\ \A i \in 1..n : i # g => i - d \in 1..(n - 1) /\ (i - d) + d = i
  OBVIOUS

\* A push puts one new item somewhere between those that are there.
LEMMA PushKeeps ==
    ASSUME IInv, push_back \/ push_front
    PROVE  /\ IInv'
           /\ Len(deqQueue') = Len(deqQueue) + 1
           /\ Queued' = Queued \cup {pushed}
<1> USE DEF IInv, TypeOK
<1>0. Len(deqQueue) \in Nat /\ DOMAIN deqQueue = 1..Len(deqQueue)
  BY LenProperties
<1>1. /\ deqQueue' \in Seq(Nat)
      /\ Len(deqQueue') = Len(deqQueue) + 1
      /\ DOMAIN deqQueue' = 1..(Len(deqQueue) + 1)
      /\ \E k \in {1, Len(deqQueue) + 1} :
            /\ deqQueue'[k] = pushed
            /\ \A i \in 1..(Len(deqQueue) + 1) :
                i # k => deqQueue'[i] = deqQueue[IF k = 1 THEN i - 1 ELSE i]
  <2>1. CASE push_back
    BY <2>1, <1>0, AppendItems DEF push_back
  <2>2. CASE push_front
    <3>1. /\ deqQueue' \in Seq(Nat)
          /\ Len(deqQueue') = Len(deqQueue) + 1
          /\ deqQueue'[1] = pushed
          /\ \A i \in 1..Len(deqQueue) : deqQueue'[i + 1] = deqQueue[i]
      BY <2>2, PrependItems DEF push_front
    <3>2. \A i \in 1..(Len(deqQueue) + 1) : i # 1 => deqQueue'[i] = deqQueue[i - 1]
      <4> TAKE i \in 1..(Len(deqQueue) + 1)
      <4>1. i # 1 => i - 1 \in 1..Len(deqQueue) /\ (i - 1) + 1 = i
        BY <1>0
      <4> QED
        BY <3>1, <4>1
    <3>3. DOMAIN deqQueue' = 1..(Len(deqQueue) + 1)
      BY <3>1, LenProperties
    <3> QED
      BY <3>1, <3>2, <3>3
  <2> QED
    BY <2>1, <2>2
<1>2. pushed' = pushed + 1 /\ UNCHANGED <<seen, ref, undefined, taken, cleared>>
  BY DEF push_back, push_front
<1>3. PICK k \in {1, Len(deqQueue) + 1} :
        /\ deqQueue'[k] = pushed
        /\ \A i \in 1..(Len(deqQueue) + 1) :
              i # k => deqQueue'[i] = deqQueue[IF k = 1 THEN i - 1 ELSE i]
  BY <1>1
<1>4. Queued' = Queued \cup {pushed}
  <2>1. \A i \in DOMAIN deqQueue' : deqQueue'[i] \in Queued \cup {pushed}
    <3> TAKE i \in DOMAIN deqQueue'
    <3>1. CASE i = k
      BY <3>1, <1>3
    <3>2. CASE i # k
      <4>1. (IF k = 1 THEN i - 1 ELSE i) \in DOMAIN deqQueue
        <5>1. i \in 1..(Len(deqQueue) + 1)
          BY <1>1
        <5> QED
          BY <3>2, <1>0, <1>3, <5>1, OtherIndex
      <4>2. deqQueue'[i] = deqQueue[IF k = 1 THEN i - 1 ELSE i]
        BY <3>2, <1>1, <1>3
      <4> QED
        BY <4>1, <4>2 DEF Queued
    <3> QED
      BY <3>1, <3>2
  <2>2. pushed \in Queued'
    BY <1>0, <1>1, <1>3 DEF Queued
  <2>3. \A i \in DOMAIN deqQueue : deqQueue[i] \in Queued'
    <3> TAKE i \in DOMAIN deqQueue
    <3>1. CASE k = 1
      <4>1. i + 1 \in DOMAIN deqQueue' /\ i + 1 # k /\ (i + 1) - 1 = i
        BY <1>0, <1>1, <3>1, NextIndex
      <4>2. deqQueue'[i + 1] = deqQueue[i]
        BY <1>1, <1>3, <3>1, <4>1
      <4> QED
        BY <4>1, <4>2 DEF Queued
    <3>2. CASE k # 1
      <4>1. i \in DOMAIN deqQueue' /\ i # k
        BY <1>0, <1>1, <1>3, <3>2
      <4>2. deqQueue'[i] = deqQueue[i]
        BY <1>1, <1>3, <3>2, <4>1
      <4> QED
        BY <4>1, <4>2 DEF Queued
    <3> QED
      BY <3>1, <3>2
  <2> QED
    BY <2>1, <2>2, <2>3 DEF Queued
<1>5. pushed \notin Queued \cup taken \cup cleared /\ 0..((pushed + 1) - 1) = 0..(pushed - 1) \cup {pushed}
  BY DEF EachItemOnce
<1>6. \A i, j \in DOMAIN deqQueue' : deqQueue'[i] = deqQueue'[j] => i = j
  <2> TAKE i, j \in DOMAIN deqQueue'
  <2> HIDE DEF IInv
  <2>1. \A n \in DOMAIN deqQueue' \ {k} :
            /\ (IF k = 1 THEN n - 1 ELSE n) \in DOMAIN deqQueue
            /\ deqQueue'[n] = deqQueue[IF k = 1 THEN n - 1 ELSE n]
            /\ deqQueue'[n] # pushed
    <3> TAKE n \in DOMAIN deqQueue' \ {k}
    <3>1. (IF k = 1 THEN n - 1 ELSE n) \in DOMAIN deqQueue
      BY <1>0, <1>1, <1>3, OtherIndex
    <3>2. deqQueue'[n] = deqQueue[IF k = 1 THEN n - 1 ELSE n]
      BY <1>1, <1>3
    <3> QED
      BY <3>1, <3>2, <1>5 DEF Queued
  <2>2. CASE i = k \/ j = k
    BY <2>1, <2>2, <1>3
  <2>3. CASE i # k /\ j # k
    <3> DEFINE f(n) == IF k = 1 THEN n - 1 ELSE n
    <3>1. deqQueue'[i] = deqQueue'[j] => f(i) = f(j)
      BY <2>1, <2>3 DEF IInv, EachItemOnce
    <3> QED
      BY <3>1, <1>1, <1>0
  <2> QED
    BY <2>2, <2>3
<1> QED
  BY <1>1, <1>2, <1>4, <1>5, <1>6 DEF EachItemOnce

\* What a removal leaves, given where the items of the new sequence were.
LEMMA RemoveKeeps ==
    ASSUME IInv, deqQueue # <<>>, NEW d \in {0, 1},
           NEW rest \in Seq(Nat), Len(rest) = Len(deqQueue) - 1,
           \A n \in 1..(Len(deqQueue) - 1) : rest[n] = deqQueue[n + d],
           NEW gone \in 1..Len(deqQueue),
           gone = IF d = 1 THEN 1 ELSE Len(deqQueue),
           deqQueue' = rest, taken' = taken \cup {deqQueue[gone]},
           UNCHANGED <<pushed, cleared>>
    PROVE  /\ EachItemOnce'
           /\ taken' \subseteq Nat
<1> USE DEF IInv, TypeOK
<1>0. /\ Len(deqQueue) \in Nat /\ DOMAIN deqQueue = 1..Len(deqQueue)
      /\ DOMAIN rest = 1..(Len(deqQueue) - 1)
  BY LenProperties
<1>1. \A n \in DOMAIN rest : n + d \in DOMAIN deqQueue \ {gone} /\ rest[n] = deqQueue[n + d]
  <2> HIDE DEF IInv
  <2> TAKE n \in DOMAIN rest
  <2>1. n + d \in DOMAIN deqQueue \ {gone}
    BY <1>0, RemovedIndex
  <2> QED
    BY <1>0, <2>1
<1>2. \A n \in DOMAIN deqQueue \ {gone} : n - d \in DOMAIN rest /\ rest[n - d] = deqQueue[n]
  <2> HIDE DEF IInv
  <2> TAKE n \in DOMAIN deqQueue \ {gone}
  <2>1. n - d \in DOMAIN rest /\ (n - d) + d = n
    BY <1>0, RemovedIndex
  <2> QED
    BY <1>1, <2>1
<1>3. Queued' \cup {deqQueue[gone]} = Queued /\ deqQueue[gone] \notin Queued'
  <2>1. \A n \in DOMAIN rest : rest[n] \in Queued /\ rest[n] # deqQueue[gone]
    BY <1>0, <1>1 DEF Queued, EachItemOnce
  <2>2. \A n \in DOMAIN deqQueue : deqQueue[n] \in Queued' \cup {deqQueue[gone]}
    BY <1>2 DEF Queued
  <2>3. deqQueue[gone] \in Queued
    BY <1>0 DEF Queued
  <2> QED
    BY <2>1, <2>2, <2>3 DEF Queued
<1>4. \A i, j \in DOMAIN rest : rest[i] = rest[j] => i = j
  <2> TAKE i, j \in DOMAIN rest
  <2>1. rest[i] = rest[j] => i + d = j + d
    BY <1>1 DEF EachItemOnce
  <2> QED
    BY <2>1, <1>0
<1>5. deqQueue[gone] \in Nat
  BY ElementOfSeq
<1> QED
  BY <1>3, <1>4, <1>5 DEF EachItemOnce

LEMMA PopKeeps ==
    ASSUME IInv, deqQueue # <<>>, NEW u \in Users, pop_front(u) \/ pop_back(u)
    PROVE  IInv'
<1> USE DEF IInv, TypeOK
<1>1. PICK t, left : Remove(u, t, left)
  BY Zenon DEF pop_front, pop_back
<1>2. /\ seen' \in [Users -> Nat] /\ ref' \in [Users -> SUBSET Nat]
      /\ pushed' = pushed /\ cleared' = cleared
  <2>1. seen[u] \in Nat /\ seen[u] > 0
    BY <1>1 DEF Remove, Asks
  <2>2. seen[u] - 1 \in Nat
    BY <2>1
  <2>3. seen' = [seen EXCEPT ![u] = seen[u] - 1] /\ ref' = [ref EXCEPT ![u] = {}]
    BY <1>1 DEF Remove
  <2> QED
    BY <1>1, <2>2, <2>3 DEF Remove
<1>3. CASE pop_front(u)
  <2>1. /\ deqQueue' = Tail(deqQueue) /\ taken' = taken \cup {deqQueue[1]}
        /\ undefined' = undefined
    BY <1>3 DEF pop_front, Remove
  <2>2. /\ Tail(deqQueue) \in Seq(Nat)
        /\ Len(Tail(deqQueue)) = Len(deqQueue) - 1
        /\ \A j \in 1..(Len(deqQueue) - 1) : Tail(deqQueue)[j] = deqQueue[j + 1]
        /\ 1 \in 1..Len(deqQueue)
    BY TailItems
  <2>3. EachItemOnce' /\ taken' \subseteq Nat
    BY <1>2, <2>1, <2>2, RemoveKeeps
  <2> QED
    BY <1>2, <2>1, <2>2, <2>3
<1>4. CASE pop_back(u)
  <2> DEFINE rest == SubSeq(deqQueue, 1, Len(deqQueue) - 1)
  <2>1. /\ deqQueue' = rest /\ taken' = taken \cup {deqQueue[Len(deqQueue)]}
        /\ undefined' = undefined
    BY <1>4 DEF pop_back, Remove
  <2>2. /\ rest \in Seq(Nat)
        /\ Len(rest) = Len(deqQueue) - 1
        /\ \A j \in 1..(Len(deqQueue) - 1) : rest[j] = deqQueue[j]
        /\ Len(deqQueue) \in 1..Len(deqQueue)
    BY FrontItems
  <2> HIDE DEF rest
  <2>3. \A j \in 1..(Len(deqQueue) - 1) : j + 0 = j
    OBVIOUS
  <2>4. EachItemOnce' /\ taken' \subseteq Nat
    <3>1. \A n \in 1..(Len(deqQueue) - 1) : rest[n] = deqQueue[n + 0]
      BY <2>2, <2>3
    <3>2. 0 \in {0, 1} /\ Len(deqQueue) = IF 0 = 1 THEN 1 ELSE Len(deqQueue)
      OBVIOUS
    <3> QED
      BY <1>2, <2>1, <2>2, <3>1, <3>2, RemoveKeeps
  <2> QED
    BY <1>2, <2>1, <2>2, <2>4
<1> QED
  BY <1>3, <1>4

LEMMA OthersKeep ==
    ASSUME IInv, NEW u \in Users,
           count(u) \/ front(u) \/ back(u) \/ Use(u) \/ clear(u)
    PROVE  IInv'
<1> USE DEF IInv, TypeOK
<1>1. CASE count(u)
  BY <1>1 DEF count, EachItemOnce, Queued
<1>2. CASE front(u) \/ back(u)
  <2>1. deqQueue # <<>> => deqQueue[1] \in Nat /\ deqQueue[Len(deqQueue)] \in Nat
    BY EmptySeq, LenProperties, ElementOfSeq
  <2>2. UNCHANGED <<deqQueue, seen, pushed, taken, cleared>>
    BY <1>2 DEF front, back, Look
  <2>3. undefined' \in BOOLEAN /\ ref' \in [Users -> SUBSET Nat]
    <3>1. CASE deqQueue = <<>>
      BY <1>2, <3>1 DEF front, back, Look
    <3>2. CASE deqQueue # <<>>
      <4>1. PICK x \in Nat : ref' = [ref EXCEPT ![u] = ref[u] \cup {x}]
        BY <1>2, <2>1, <3>2 DEF front, back, Look
      <4>2. ref[u] \cup {x} \in SUBSET Nat
        OBVIOUS
      <4>3. UNCHANGED undefined
        BY <1>2, <3>2 DEF front, back, Look
      <4> QED
        BY <4>1, <4>2, <4>3
    <3> QED
      BY <3>1, <3>2
  <2> QED
    BY <2>2, <2>3 DEF EachItemOnce, Queued
<1>3. CASE Use(u)
  BY <1>3 DEF Use, EachItemOnce, Queued
<1>4. CASE clear(u)
  <2>1. Queued \subseteq Nat
    BY ElementOfSeq, LenProperties DEF Queued
  <2>2. Queued' = {} /\ DOMAIN deqQueue' = {} /\ deqQueue' \in Seq(Nat)
    BY <1>4, EmptySeq DEF clear, Queued
  <2> QED
    BY <1>4, <2>1, <2>2 DEF clear, EachItemOnce
<1> QED
  BY <1>1, <1>2, <1>3, <1>4

-----------------------------------------------------------------------------
(* One taker.                                                              *)

OthersHoldNothing == \A u \in Users : u \in Takers \/ ref[u] = {}

Sound == IInv /\ SeenHolds /\ OthersHoldNothing /\ NeverUndefined

LEMMA AtMost ==
    \A m \in Nat \ {0}, n \in Nat : m <= n => n # 0 /\ 1 \in 1..n /\ n \in 1..n
  OBVIOUS

LEMMA PopSound ==
    ASSUME OneTaker, Sound, NEW u \in Users, pop_front(u) \/ pop_back(u)
    PROVE  Sound'
<1> USE DEF Sound, IInv, TypeOK
<1>1. PICK t, left : Remove(u, t, left)
  BY Zenon DEF pop_front, pop_back
<1>2. /\ u \in Takers /\ seen[u] \in Nat \ {0} /\ seen[u] <= Len(deqQueue)
      /\ Len(deqQueue) \in Nat
  BY <1>1, LenProperties DEF Remove, Asks, SeenHolds
<1>3. deqQueue # <<>>
  BY <1>2
<1>4. IInv'
  BY <1>3, PopKeeps
<1>5. Len(deqQueue') = Len(deqQueue) - 1
  <2>1. CASE pop_front(u)
    BY <2>1, <1>3, TailItems DEF pop_front, Remove
  <2>2. CASE pop_back(u)
    BY <2>2, <1>3, FrontItems DEF pop_back, Remove
  <2> QED
    BY <2>1, <2>2
<1>6. seen'[u] <= Len(deqQueue') /\ ref'[u] = {}
  BY <1>1, <1>2, <1>5 DEF Remove
<1>7. \A v \in Users : v # u => v \notin Takers /\ ref'[v] = ref[v]
  BY <1>1, <1>2 DEF Remove, OneTaker
<1>8. ~undefined'
  BY <1>1, <1>3 DEF Remove, NeverUndefined
<1> QED
  BY <1>4, <1>6, <1>7, <1>8 DEF SeenHolds, OthersHoldNothing, NeverUndefined

LEMMA OthersSound ==
    ASSUME OneTaker, Sound, NEW u \in Users,
           count(u) \/ front(u) \/ back(u) \/ Use(u) \/ clear(u)
    PROVE  Sound'
<1> USE DEF Sound, IInv, TypeOK
<1>1. IInv'
  BY OthersKeep
<1>2. Len(deqQueue) \in Nat /\ DOMAIN deqQueue = 1..Len(deqQueue)
  BY LenProperties
<1>3. CASE count(u)
  <2>1. /\ UNCHANGED <<deqQueue, ref, undefined>>
        /\ \A v \in Users : seen'[v] = seen[v] \/ seen'[v] <= Len(deqQueue)
    BY <1>3 DEF count
  <2>2. Queued' = Queued
    BY <2>1 DEF Queued
  <2> QED
    BY <1>1, <2>1, <2>2 DEF SeenHolds, OthersHoldNothing, NeverUndefined
<1>4. CASE front(u) \/ back(u)
  <2>1. PICK i \in {1, Len(deqQueue)} : Look(u, i)
    BY <1>4 DEF front, back
  <2>2. u \in Takers /\ seen[u] <= Len(deqQueue) /\ seen[u] \in Nat \ {0}
    BY <2>1 DEF Look, Asks, SeenHolds
  <2>3. deqQueue # <<>> /\ i \in DOMAIN deqQueue
    <3>1. Len(deqQueue) # 0 /\ 1 \in 1..Len(deqQueue) /\ Len(deqQueue) \in 1..Len(deqQueue)
      BY <1>2, <2>2, AtMost, Zenon
    <3>2. deqQueue # <<>>
      BY <3>1
    <3> QED
      BY <1>2, <2>1, <3>1, <3>2, Zenon
  <2>4. /\ UNCHANGED <<deqQueue, seen, undefined>>
        /\ ref' = [ref EXCEPT ![u] = ref[u] \cup {deqQueue[i]}]
    BY <2>1, <2>3 DEF Look
  <2>5. Queued' = Queued /\ deqQueue[i] \in Queued
    BY <2>3, <2>4 DEF Queued
  <2>6. \A v \in Users : v # u => ref'[v] = ref[v]
    BY <2>4
  <2>7. ref'[u] \subseteq Queued
    BY <2>2, <2>4, <2>5 DEF SeenHolds
  <2> QED
    BY <1>1, <2>2, <2>4, <2>5, <2>6, <2>7 DEF SeenHolds, OthersHoldNothing, NeverUndefined
<1>5. CASE Use(u)
  <2>1. UNCHANGED <<deqQueue, seen, ref>> /\ ref[u] # {}
    BY <1>5 DEF Use
  <2>2. ref[u] \subseteq Queued /\ Queued' = Queued
    BY <2>1 DEF SeenHolds, OthersHoldNothing, Queued
  <2>3. ~undefined'
    BY <1>5, <2>2 DEF Use, NeverUndefined
  <2> QED
    BY <1>1, <2>1, <2>2, <2>3 DEF SeenHolds, OthersHoldNothing, NeverUndefined
<1>6. CASE clear(u)
  <2>1. /\ u \in Takers /\ seen'[u] = 0 /\ ref'[u] = {} /\ UNCHANGED undefined
        /\ deqQueue' = <<>>
    BY <1>6 DEF clear
  <2>2. \A v \in Users : v # u => v \notin Takers /\ ref'[v] = ref[v]
    BY <1>6, <2>1 DEF clear, OneTaker
  <2>3. Len(deqQueue') = 0
    BY <2>1
  <2>4. SeenHolds'
    <3> SUFFICES ASSUME NEW v \in Takers \cap Users
                 PROVE  seen'[v] <= Len(deqQueue') /\ ref'[v] \subseteq Queued'
      BY DEF SeenHolds
    <3>1. v = u
      BY <2>1 DEF OneTaker
    <3> QED
      BY <2>1, <2>3, <3>1
  <2> QED
    BY <1>1, <2>1, <2>2, <2>4 DEF OthersHoldNothing, NeverUndefined
<1> QED
  BY <1>3, <1>4, <1>5, <1>6

LEMMA StepSound == OneTaker /\ Sound /\ [Next]_vars => Sound'
<1> SUFFICES ASSUME OneTaker, Sound, [Next]_vars PROVE Sound'
  OBVIOUS
<1>1. CASE UNCHANGED vars
  BY <1>1 DEF vars, Sound, IInv, TypeOK, EachItemOnce, SeenHolds, OthersHoldNothing,
              NeverUndefined, Queued
<1>2. CASE push_back \/ push_front
  <2>1. IInv' /\ Len(deqQueue') = Len(deqQueue) + 1 /\ Queued' = Queued \cup {pushed}
    BY <1>2, PushKeeps DEF Sound
  <2>2. UNCHANGED <<seen, ref, undefined>>
    BY <1>2 DEF push_back, push_front
  <2>3. Len(deqQueue) \in Nat /\ seen \in [Users -> Nat]
    BY LenProperties DEF Sound, IInv, TypeOK
  <2> QED
    BY <2>1, <2>2, <2>3 DEF Sound, SeenHolds, OthersHoldNothing, NeverUndefined
<1>3. CASE \E u \in Users :
            count(u) \/ front(u) \/ back(u) \/ Use(u) \/ clear(u)
  BY <1>3, OthersSound
<1>4. CASE \E u \in Users : pop_front(u) \/ pop_back(u)
  BY <1>4, PopSound
<1> QED
  BY <1>1, <1>2, <1>3, <1>4 DEF Next

\* With one thread that looks at items and takes them, the answers of empty and count
\* and the references that front and back return stay good after the lock has been
\* released: connection and Update rely on it.  No operation meets an empty deque, and no
\* item is lost, doubled or handed out twice.
THEOREM OneTakerIsSafe ==
    ASSUME OneTaker
    PROVE  Spec => [](EachItemOnce /\ SeenHolds /\ NeverUndefined)
<1>1. Init => Sound
  BY InitInv DEF Init, Sound, SeenHolds, OthersHoldNothing, NeverUndefined
<1>2. Sound => EachItemOnce /\ SeenHolds /\ NeverUndefined
  BY DEF Sound, IInv
<1>3. Sound /\ [Next]_vars => Sound'
  BY StepSound
<1> QED
  BY <1>1, <1>2, <1>3, PTL DEF Spec
=============================================================================
