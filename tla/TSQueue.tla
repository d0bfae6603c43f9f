------------------------------- MODULE TSQueue -------------------------------
(***************************************************************************)
(* olc::net::tsqueue (NetCommon/net_tsqueue.h) together with the loop that *)
(* drains it, server_interface::Update (NetCommon/net_server.h).           *)
(*                                                                         *)
(* A producer is a thread that calls push_back: the asio thread, on whose  *)
(* stack a connection delivers what it has read.  A consumer is the thread *)
(* that calls Update in a loop (SimpleServer.cpp): it waits if bWait, then *)
(* pops and handles messages.  Each action is a step between two points at *)
(* which another thread can be scheduled with effect, that is, around the  *)
(* acquisition of a mutex or of the condition variable.                    *)
(***************************************************************************)
EXTENDS Naturals, Sequences

CONSTANTS
    Producers,      \* threads that push
    Consumers,      \* threads that call Update
    NoThread,       \* the owner of a free mutex
    Items,          \* the messages
    MaxPushes,      \* bound of the model: push_back is called at most this often
    BWait,          \* Update's bWait
    NMaxMessages    \* Update's nMaxMessages

ASSUME ThreadsAssumption ==
    /\ Producers \cap Consumers = {}
    /\ NoThread \notin Producers \cup Consumers

ASSUME BoundsAssumption ==
    /\ MaxPushes \in Nat
    /\ BWait \in BOOLEAN
    /\ NMaxMessages \in Nat

\* SimpleServer.cpp and SimpleClient.cpp drain a queue from main() only.
ASSUME SingleConsumer == \A c, d \in Consumers : c = d

Threads == Producers \cup Consumers

VARIABLES
    deqQueue,       \* tsqueue::deqQueue
    muxQueue,       \* owner of tsqueue::muxQueue
    muxBlocking,    \* owner of tsqueue::muxBlocking
    waiters,        \* threads blocked in cvBlocking.wait and not notified
    pc,             \* where each thread is
    msg,            \* Update's local msg, per consumer
    nMessageCount,  \* Update's local nMessageCount, per consumer
    pushed,         \* history: everything pushed, in order
    handled         \* history: everything given to OnMessage, in order

vars == <<deqQueue, muxQueue, muxBlocking, waiters, pc, msg, nMessageCount,
          pushed, handled>>

ProducerPC == {"idle", "notify", "unlock"}
ConsumerPC == {"update", "check", "block", "cvwait", "asleep", "test", "pop",
               "handle"}

Init ==
    /\ deqQueue = <<>>
    /\ muxQueue = NoThread
    /\ muxBlocking = NoThread
    /\ waiters = {}
    /\ pc = [t \in Threads |-> IF t \in Producers THEN "idle" ELSE "update"]
    /\ msg = [c \in Consumers |-> <<>>]
    /\ nMessageCount = [c \in Consumers |-> 0]
    /\ pushed = <<>>
    /\ handled = <<>>

Goto(t, from, to) ==
    /\ pc[t] = from
    /\ pc' = [pc EXCEPT ![t] = to]

-----------------------------------------------------------------------------
(* tsqueue::push_back, by a producer.                                      *)

\* Lock muxQueue and append.  The append is merged with the acquisition: no
\* other thread looks at deqQueue before muxQueue is free again.
PushItem(p, x) ==
    /\ Len(pushed) < MaxPushes
    /\ muxQueue = NoThread
    /\ Goto(p, "idle", "notify")
    /\ muxQueue' = p
    /\ deqQueue' = Append(deqQueue, x)
    /\ pushed' = Append(pushed, x)
    /\ UNCHANGED <<muxBlocking, waiters, msg, nMessageCount, handled>>

\* Defect: the lock is taken, the notification forgotten.
NoNotify(p) ==
    /\ muxBlocking = NoThread
    /\ Goto(p, "notify", "unlock")
    /\ muxBlocking' = p
    /\ UNCHANGED <<deqQueue, muxQueue, waiters, msg, nMessageCount, pushed,
                   handled>>

\* Still holding muxQueue, lock muxBlocking and call notify_one: it wakes some
\* waiter if there is one, and is forgotten if there is none.
NotifyOne(p) ==
    /\ muxBlocking = NoThread
    /\ Goto(p, "notify", "unlock")
    /\ muxBlocking' = p
    /\ IF waiters = {} THEN UNCHANGED waiters
       ELSE \E w \in waiters : waiters' = waiters \ {w}
    /\ UNCHANGED <<deqQueue, muxQueue, msg, nMessageCount, pushed, handled>>

\* The two guards leave scope.
PushReturn(p) ==
    /\ Goto(p, "unlock", "idle")
    /\ muxBlocking' = NoThread
    /\ muxQueue' = NoThread
    /\ UNCHANGED <<deqQueue, waiters, msg, nMessageCount, pushed, handled>>

-----------------------------------------------------------------------------
(* server_interface::Update, by a consumer.                                *)

UpdateCall(c) ==
    /\ Goto(c, "update", IF BWait THEN "check" ELSE "test")
    /\ nMessageCount' = [nMessageCount EXCEPT ![c] = 0]
    /\ UNCHANGED <<deqQueue, muxQueue, muxBlocking, waiters, msg, pushed,
                   handled>>

\* Defect: empty() returns without releasing muxQueue.
EmptyKeepsLock(c) ==
    /\ muxQueue = NoThread
    /\ Goto(c, "check", IF deqQueue = <<>> THEN "block" ELSE "test")
    /\ muxQueue' = c
    /\ UNCHANGED <<deqQueue, muxBlocking, waiters, msg, nMessageCount, pushed,
                   handled>>

\* tsqueue::wait, the loop condition: empty() takes and releases muxQueue, so
\* its answer may be out of date by the time Block runs.
WaitEmpty(c) ==
    /\ muxQueue = NoThread
    /\ Goto(c, "check", IF deqQueue = <<>> THEN "block" ELSE "test")
    /\ UNCHANGED <<deqQueue, muxQueue, muxBlocking, waiters, msg,
                   nMessageCount, pushed, handled>>

\* tsqueue::wait, unique_lock ul(muxBlocking).
Block(c) ==
    /\ muxBlocking = NoThread
    /\ Goto(c, "block", "cvwait")
    /\ muxBlocking' = c
    /\ UNCHANGED <<deqQueue, muxQueue, waiters, msg, nMessageCount, pushed,
                   handled>>

\* Defect: sleep with muxBlocking held.
SleepWithLock(c) ==
    /\ Goto(c, "cvwait", "asleep")
    /\ waiters' = waiters \cup {c}
    /\ UNCHANGED <<deqQueue, muxQueue, muxBlocking, msg, nMessageCount, pushed,
                   handled>>

\* cvBlocking.wait(ul): release muxBlocking and fall asleep in one step.
CvWait(c) ==
    /\ Goto(c, "cvwait", "asleep")
    /\ muxBlocking' = NoThread
    /\ waiters' = waiters \cup {c}
    /\ UNCHANGED <<deqQueue, muxQueue, msg, nMessageCount, pushed, handled>>

\* A condition variable may wake a thread that nobody notified.
SpuriousWake(c) ==
    /\ c \in waiters
    /\ waiters' = waiters \ {c}
    /\ UNCHANGED <<deqQueue, muxQueue, muxBlocking, pc, msg, nMessageCount,
                   pushed, handled>>

\* Woken: relock muxBlocking, leave the loop body (which unlocks it) and
\* evaluate the loop condition again.
Wake(c) ==
    /\ c \notin waiters
    /\ muxBlocking = NoThread
    /\ Goto(c, "asleep", "check")
    /\ UNCHANGED <<deqQueue, muxQueue, muxBlocking, waiters, msg,
                   nMessageCount, pushed, handled>>

\* while (nMessageCount < nMaxMessages && !m_qMessagesIn.empty())
CountReached(c) ==
    /\ nMessageCount[c] >= NMaxMessages
    /\ Goto(c, "test", "update")
    /\ UNCHANGED <<deqQueue, muxQueue, muxBlocking, waiters, msg,
                   nMessageCount, pushed, handled>>

\* Defect: pop whether or not there is something.
TestNothing(c) ==
    /\ nMessageCount[c] < NMaxMessages
    /\ muxQueue = NoThread
    /\ Goto(c, "test", "pop")
    /\ UNCHANGED <<deqQueue, muxQueue, muxBlocking, waiters, msg,
                   nMessageCount, pushed, handled>>

\* Defect: <= for <.
TestOneMore(c) ==
    /\ nMessageCount[c] <= NMaxMessages
    /\ muxQueue = NoThread
    /\ Goto(c, "test", IF deqQueue = <<>> THEN "update" ELSE "pop")
    /\ UNCHANGED <<deqQueue, muxQueue, muxBlocking, waiters, msg,
                   nMessageCount, pushed, handled>>

TestEmpty(c) ==
    /\ nMessageCount[c] < NMaxMessages
    /\ muxQueue = NoThread
    /\ Goto(c, "test", IF deqQueue = <<>> THEN "update" ELSE "pop")
    /\ UNCHANGED <<deqQueue, muxQueue, muxBlocking, waiters, msg,
                   nMessageCount, pushed, handled>>

\* tsqueue::pop_front.  On an empty deque it is undefined: any item may be
\* returned.
Front == IF deqQueue = <<>> THEN Items ELSE {Head(deqQueue)}

\* Defect: pop_back for pop_front.
PopBack(c) ==
    /\ muxQueue = NoThread
    /\ Goto(c, "pop", "handle")
    /\ deqQueue # <<>>
    /\ msg' = [msg EXCEPT ![c] = <<deqQueue[Len(deqQueue)]>>]
    /\ deqQueue' = SubSeq(deqQueue, 1, Len(deqQueue) - 1)
    /\ UNCHANGED <<muxQueue, muxBlocking, waiters, nMessageCount, pushed,
                   handled>>

PopFront(c) ==
    /\ muxQueue = NoThread
    /\ Goto(c, "pop", "handle")
    /\ \E x \in Front : msg' = [msg EXCEPT ![c] = <<x>>]
    /\ deqQueue' = IF deqQueue = <<>> THEN <<>> ELSE Tail(deqQueue)
    /\ UNCHANGED <<muxQueue, muxBlocking, waiters, nMessageCount, pushed,
                   handled>>

OnMessage(c) ==
    /\ Goto(c, "handle", "test")
    /\ handled' = handled \o msg[c]
    /\ msg' = [msg EXCEPT ![c] = <<>>]
    /\ nMessageCount' = [nMessageCount EXCEPT ![c] = @ + 1]
    /\ UNCHANGED <<deqQueue, muxQueue, muxBlocking, waiters, pushed>>

-----------------------------------------------------------------------------
Produce(p) ==
    \/ \E x \in Items : PushItem(p, x)
    \/ NotifyOne(p)
    \/ PushReturn(p)

Consume(c) ==
    \/ UpdateCall(c)
    \/ WaitEmpty(c)
    \/ Block(c)
    \/ CvWait(c)
    \/ Wake(c)
    \/ CountReached(c)
    \/ TestEmpty(c)
    \/ PopFront(c)
    \/ OnMessage(c)

Next ==
    \/ \E p \in Producers : Produce(p)
    \/ \E c \in Consumers : Consume(c) \/ SpuriousWake(c)

Spec == Init /\ [][Next]_vars

\* The scheduler runs every thread that can run.  Whether anything more is
\* pushed is up to the network, and nothing promises a spurious wake-up.
Fairness ==
    /\ \A p \in Producers : WF_vars(NotifyOne(p) \/ PushReturn(p))
    /\ \A c \in Consumers : WF_vars(Consume(c))

FairSpec == Spec /\ Fairness

-----------------------------------------------------------------------------
(* Properties.                                                             *)

TypeOK ==
    /\ deqQueue \in Seq(Items)
    /\ muxQueue \in Producers \cup {NoThread}
    /\ muxBlocking \in Threads \cup {NoThread}
    /\ waiters \in SUBSET Consumers
    /\ pc \in [Threads -> ProducerPC \cup ConsumerPC]
    /\ msg \in [Consumers -> Seq(Items)]
    /\ nMessageCount \in [Consumers -> Nat]
    /\ pushed \in Seq(Items)
    /\ handled \in Seq(Items)

\* pop_front is never called on an empty deque, although the empty() that
\* guards it released the lock in between.
PopNeverOnEmpty == \A c \in Consumers : pc[c] = "pop" => deqQueue # <<>>

\* One call of Update handles at most nMaxMessages messages, "as many
\* messages as you can up to the value specified" (net_server.h:158).
UpdateWithinLimit == \A c \in Consumers : nMessageCount[c] <= NMaxMessages

\* Messages are handled in the order in which they were pushed, none twice
\* and none that was not pushed; the message in Update's hand is the oldest
\* one that is not handled yet.
InHand == IF Consumers = {} THEN <<>> ELSE msg[CHOOSE c \in Consumers : TRUE]

Fifo == INSTANCE FifoDelivery WITH pending <- InHand \o deqQueue,
                                   received <- handled

HandledInOrder == Fifo!Spec

\* push_back returns: whoever holds a mutex it needs lets go of it.
PushReturns == \A p \in Producers : pc[p] = "notify" ~> pc[p] = "idle"

\* A notify_one that finds a consumer asleep gets the queue drained.
NotifiedConsumerDrains ==
    (waiters # {} /\ \E p \in Producers : pc[p] = "notify") ~> deqQueue = <<>>

\* OnMessage is "called when a message arrives" (net_server.h:186): every
\* message pushed is eventually handled.
EveryMessageHandled ==
    \A n \in 1..MaxPushes : Len(pushed) >= n ~> Len(handled) >= n
=============================================================================
