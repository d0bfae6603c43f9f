--------------------------- MODULE TSQueueProofs ---------------------------
(***************************************************************************)
(* Proofs about TSQueue, for any set of producers, any messages and any    *)
(* limits: the queue hands out what was pushed, in order, and Update never *)
(* pops an empty queue nor handles too many messages.                      *)
(***************************************************************************)
EXTENDS TSQueue, SequenceTheorems, TLAPS

\* Every thread is at a step of its own program.
AtOwnStep ==
    /\ \A p \in Producers : pc[p] \in ProducerPC
    /\ \A c \in Consumers : pc[c] \in ConsumerPC

\* Once the loop condition has been found true it stays true until the pop:
\* producers only add messages and there is no other consumer.
LoopCondition ==
    \A c \in Consumers :
        /\ pc[c] = "pop" => deqQueue # <<>>
        /\ pc[c] \in {"pop", "handle"} => nMessageCount[c] < NMaxMessages
        /\ nMessageCount[c] <= NMaxMessages

\* Update holds a message exactly from pop_front to OnMessage.
HoldsOne ==
    \A c \in Consumers :
        IF pc[c] = "handle" THEN \E x \in Items : msg[c] = <<x>> ELSE msg[c] = <<>>

\* The inductive invariant.
IInv == TypeOK /\ AtOwnStep /\ LoopCondition /\ HoldsOne

-----------------------------------------------------------------------------
LEMMA InitInv == Init => IInv
  BY ThreadsAssumption, BoundsAssumption, EmptySeq
     DEF Init, IInv, TypeOK, AtOwnStep, LoopCondition, HoldsOne, Threads,
         ProducerPC, ConsumerPC

LEMMA ProducerStep ==
    ASSUME IInv, NEW p \in Producers, Produce(p)
    PROVE  IInv'
<1> USE ThreadsAssumption, BoundsAssumption
        DEF IInv, TypeOK, AtOwnStep, LoopCondition, HoldsOne, Threads,
            ProducerPC, ConsumerPC, Goto
<1>1. CASE \E x \in Items : PushItem(p, x)
  <2>1. PICK x \in Items : PushItem(p, x)
    BY <1>1
  <2>2. /\ deqQueue' \in Seq(Items)
        /\ deqQueue' # <<>>
        /\ pushed' \in Seq(Items)
    BY <2>1, AppendProperties DEF PushItem
  <2> QED
    BY <2>1, <2>2 DEF PushItem
<1>2. CASE NotifyOne(p)
  BY <1>2 DEF NotifyOne
<1>3. CASE PushReturn(p)
  BY <1>3 DEF PushReturn
<1> QED
  BY <1>1, <1>2, <1>3 DEF Produce

LEMMA ConsumerStep ==
    ASSUME IInv, NEW c \in Consumers, Consume(c)
    PROVE  IInv'
<1> USE ThreadsAssumption, BoundsAssumption, SingleConsumer
        DEF IInv, TypeOK, AtOwnStep, LoopCondition, HoldsOne, Threads,
            ProducerPC, ConsumerPC, Goto
<1>1. CASE UpdateCall(c)
  BY <1>1 DEF UpdateCall
<1>2. CASE WaitEmpty(c)
  BY <1>2 DEF WaitEmpty
<1>3. CASE Block(c)
  BY <1>3 DEF Block
<1>4. CASE CvWait(c)
  BY <1>4 DEF CvWait
<1>5. CASE Wake(c)
  BY <1>5 DEF Wake
<1>6. CASE CountReached(c)
  BY <1>6 DEF CountReached
<1>7. CASE TestEmpty(c)
  BY <1>7 DEF TestEmpty
<1>8. CASE PopFront(c)
  <2>1. pc[c] = "pop" /\ deqQueue # <<>>
    BY <1>8 DEF PopFront
  <2>2. Head(deqQueue) \in Items /\ Tail(deqQueue) \in Seq(Items)
    BY <2>1, HeadTailProperties
  <2>3. msg' = [msg EXCEPT ![c] = <<Head(deqQueue)>>] /\ deqQueue' = Tail(deqQueue)
    BY <1>8, <2>1 DEF PopFront, Front
  <2> QED
    BY <1>8, <2>1, <2>2, <2>3 DEF PopFront
<1>9. CASE OnMessage(c)
  <2>1. handled' \in Seq(Items) /\ msg'[c] = <<>> /\ msg' \in [Consumers -> Seq(Items)]
    BY <1>9, ConcatProperties, EmptySeq DEF OnMessage
  <2>2. nMessageCount'[c] \in Nat /\ nMessageCount'[c] <= NMaxMessages
    BY <1>9 DEF OnMessage
  <2> QED
    BY <1>9, <2>1, <2>2 DEF OnMessage
<1> QED
  BY <1>1, <1>2, <1>3, <1>4, <1>5, <1>6, <1>7, <1>8, <1>9 DEF Consume

LEMMA StepInv == IInv /\ [Next]_vars => IInv'
<1> SUFFICES ASSUME IInv, [Next]_vars PROVE IInv'
  OBVIOUS
<1>1. ASSUME NEW c \in Consumers, SpuriousWake(c) PROVE IInv'
  BY <1>1 DEF SpuriousWake, IInv, TypeOK, AtOwnStep, LoopCondition, HoldsOne
<1>2. CASE UNCHANGED vars
  BY <1>2 DEF vars, IInv, TypeOK, AtOwnStep, LoopCondition, HoldsOne
<1> QED
  BY <1>1, <1>2, ProducerStep, ConsumerStep DEF Next

LEMMA Invariance == Spec => []IInv
  BY InitInv, StepInv, PTL DEF Spec

\* Every variable of the queue and of Update keeps its type.
THEOREM TypeCorrect == Spec => []TypeOK
  BY Invariance, PTL DEF IInv

\* Update never calls pop_front on an empty deque, however many threads push.
THEOREM NeverPopsEmpty == Spec => []PopNeverOnEmpty
<1>1. IInv => PopNeverOnEmpty
  BY DEF IInv, LoopCondition, PopNeverOnEmpty
<1> QED
  BY Invariance, <1>1, PTL

\* One call of Update handles at most nMaxMessages messages.
THEOREM StaysWithinLimit == Spec => []UpdateWithinLimit
<1>1. IInv => UpdateWithinLimit
  BY DEF IInv, LoopCondition, UpdateWithinLimit
<1> QED
  BY Invariance, <1>1, PTL

-----------------------------------------------------------------------------
\* There is at most one consumer, so InHand is its message.
LEMMA InHandOf ==
    ASSUME NEW c \in Consumers
    PROVE  InHand = msg[c] /\ InHand' = msg'[c]
  BY SingleConsumer DEF InHand

LEMMA InHandSeq == TypeOK => InHand \in Seq(Items)
<1>1. CASE Consumers = {}
  BY <1>1, EmptySeq DEF InHand
<1>2. ASSUME NEW c \in Consumers PROVE TypeOK => InHand \in Seq(Items)
  BY InHandOf DEF TypeOK
<1> QED
  BY <1>1, <1>2

LEMMA InHandUnchanged == UNCHANGED msg => UNCHANGED InHand
  BY DEF InHand

LEMMA PushRefines ==
    ASSUME IInv, NEW p \in Producers, NEW x \in Items, PushItem(p, x)
    PROVE  Fifo!Put(x)
<1>1. InHand \in Seq(Items) /\ InHand' = InHand
  BY InHandSeq, InHandUnchanged DEF IInv, PushItem
<1>2. deqQueue \in Seq(Items) /\ deqQueue' = Append(deqQueue, x)
  BY DEF IInv, TypeOK, PushItem
<1>3. InHand \o Append(deqQueue, x) = Append(InHand \o deqQueue, x)
  BY <1>1, <1>2
<1> QED
  BY <1>1, <1>2, <1>3 DEF Fifo!Put, PushItem

\* Taking the oldest message from the deque into the hand changes nothing.
LEMMA PopRefines ==
    ASSUME IInv, NEW c \in Consumers, PopFront(c)
    PROVE  UNCHANGED <<InHand \o deqQueue, handled>>
<1>1. /\ deqQueue \in Seq(Items)
      /\ deqQueue # <<>>
      /\ InHand = <<>>
      /\ InHand' = <<Head(deqQueue)>>
      /\ deqQueue' = Tail(deqQueue)
      /\ handled' = handled
  BY InHandOf DEF IInv, TypeOK, LoopCondition, HoldsOne, PopFront, Front, Goto
<1>2. <<Head(deqQueue)>> \o Tail(deqQueue) = deqQueue
  BY <1>1
<1>3. <<>> \o deqQueue = deqQueue
  BY <1>1, ConcatEmptySeq
<1> QED
  BY <1>1, <1>2, <1>3

LEMMA HandleRefines ==
    ASSUME IInv, NEW c \in Consumers, OnMessage(c)
    PROVE  Fifo!Get
<1>1. PICK x \in Items : msg[c] = <<x>>
  BY DEF IInv, HoldsOne, OnMessage, Goto
<1>2. /\ InHand = <<x>>
      /\ InHand' = <<>>
      /\ deqQueue \in Seq(Items)
      /\ handled \in Seq(Items)
      /\ deqQueue' = deqQueue
      /\ handled' = handled \o <<x>>
  BY <1>1, InHandOf DEF IInv, TypeOK, OnMessage
<1>3. /\ <<x>> \o deqQueue # <<>>
      /\ Head(<<x>> \o deqQueue) = x
      /\ Tail(<<x>> \o deqQueue) = deqQueue
      /\ <<>> \o deqQueue = deqQueue
      /\ handled \o <<x>> = Append(handled, x)
  BY <1>2, ConcatEmptySeq
<1> QED
  BY <1>2, <1>3 DEF Fifo!Get

LEMMA StepRefines == IInv /\ [Next]_vars => [Fifo!Next]_(Fifo!vars)
<1> SUFFICES ASSUME IInv, [Next]_vars PROVE [Fifo!Next]_(Fifo!vars)
  OBVIOUS
<1> USE DEF Fifo!vars
<1>1. ASSUME NEW p \in Producers, Produce(p) PROVE [Fifo!Next]_(Fifo!vars)
  <2>1. ASSUME NEW x \in Items, PushItem(p, x) PROVE [Fifo!Next]_(Fifo!vars)
    BY <2>1, PushRefines DEF Fifo!Next
  <2>2. CASE NotifyOne(p)
    BY <2>2, InHandUnchanged DEF NotifyOne
  <2>3. CASE PushReturn(p)
    BY <2>3, InHandUnchanged DEF PushReturn
  <2> QED
    BY <1>1, <2>1, <2>2, <2>3 DEF Produce
<1>2. ASSUME NEW c \in Consumers, Consume(c) PROVE [Fifo!Next]_(Fifo!vars)
  <2>1. CASE PopFront(c)
    BY <2>1, PopRefines
  <2>2. CASE OnMessage(c)
    BY <2>2, HandleRefines DEF Fifo!Next
  <2>3. CASE ~PopFront(c) /\ ~OnMessage(c)
    BY <1>2, <2>3, InHandUnchanged
       DEF Consume, UpdateCall, WaitEmpty, Block, CvWait, Wake, CountReached,
           TestEmpty
  <2> QED
    BY <2>1, <2>2, <2>3
<1>3. ASSUME NEW c \in Consumers, SpuriousWake(c) PROVE [Fifo!Next]_(Fifo!vars)
  BY <1>3, InHandUnchanged DEF SpuriousWake
<1>4. CASE UNCHANGED vars
  BY <1>4, InHandUnchanged DEF vars
<1> QED
  BY <1>1, <1>2, <1>3, <1>4 DEF Next

LEMMA InitRefines == Init => Fifo!Init
<1>1. Init => InHand = <<>>
  BY DEF Init, InHand
<1> QED
  BY <1>1, EmptySeq, ConcatEmptySeq DEF Init, Fifo!Init

\* The queue and its loop implement the ordered channel: messages are handled
\* in the order of the push_backs, once each.
THEOREM HandlesInOrder == Spec => HandledInOrder
  BY InitRefines, StepRefines, Invariance, PTL DEF Spec, HandledInOrder, Fifo!Spec
=============================================================================
