------------------------------- MODULE TSDeque -------------------------------
(***************************************************************************)
(* All operations of olc::net::tsqueue (NetCommon/net_tsqueue.h) but wait. *)
(* Each holds muxQueue from its first line to its last, and is one step    *)
(* here; TSQueue takes push_back and wait apart.                           *)
(*                                                                         *)
(* front and back return a reference, and empty and count an answer, that  *)
(* their caller uses when the lock is free again.  Takers are the threads  *)
(* that look at items or take them: the library has one per queue, the     *)
(* asio thread for m_qMessagesOut and main for m_qMessagesIn.              *)
(***************************************************************************)
EXTENDS Naturals, Sequences

CONSTANTS
    Users,          \* threads that use the queue
    Takers          \* those that take from it

VARIABLES
    deqQueue,       \* the items, which are numbered in the order of their arrival
    seen,           \* of each user: at least how many items it takes the queue to hold
    ref,            \* of each user: the items it holds a reference to
    undefined,      \* has an empty deque been read, or a reference to nothing?
    pushed,         \* history: the number of items pushed
    taken,          \* history: the items that pop_front and pop_back have returned
    cleared         \* history: the items that clear has destroyed

vars == <<deqQueue, seen, ref, undefined, pushed, taken, cleared>>

Queued == {deqQueue[i] : i \in DOMAIN deqQueue}

Init ==
    /\ deqQueue = <<>>
    /\ seen = [u \in Users |-> 0]
    /\ ref = [u \in Users |-> {}]
    /\ undefined = FALSE
    /\ pushed = 0
    /\ taken = {}
    /\ cleared = {}

\* emplace_back leaves references to the deque's items valid, and so does
\* emplace_front.
push_back ==
    /\ deqQueue' = Append(deqQueue, pushed)
    /\ pushed' = pushed + 1
    /\ UNCHANGED <<seen, ref, undefined, taken, cleared>>

push_front ==
    /\ deqQueue' = <<pushed>> \o deqQueue
    /\ pushed' = pushed + 1
    /\ UNCHANGED <<seen, ref, undefined, taken, cleared>>

\* The caller of count, or of empty (which tells it less).
count(u) ==
    /\ \E n \in Nat : n <= Len(deqQueue) /\ seen' = [seen EXCEPT ![u] = n]
    /\ UNCHANGED <<deqQueue, ref, undefined, pushed, taken, cleared>>

\* Whoever asks for an item takes the queue to hold one.
Asks(u) == u \in Takers /\ seen[u] > 0

Look(u, i) ==
    /\ Asks(u)
    /\ IF deqQueue = <<>> THEN undefined' = TRUE /\ UNCHANGED ref
       ELSE ref' = [ref EXCEPT ![u] = @ \cup {deqQueue[i]}] /\ UNCHANGED undefined
    /\ UNCHANGED <<deqQueue, seen, pushed, taken, cleared>>

front(u) == Look(u, 1)

back(u) == Look(u, Len(deqQueue))

\* The caller reads what it has a reference to.
Use(u) ==
    /\ ref[u] # {}
    /\ undefined' = (undefined \/ ~(ref[u] \subseteq Queued))
    /\ UNCHANGED <<deqQueue, seen, ref, pushed, taken, cleared>>

\* An item is moved to the caller and one removed.  On an empty deque, what the caller
\* gets and what the deque holds from then on is anything.  Who takes an item has done
\* with its references.
Remove(u, t, rest) ==
    /\ Asks(u)
    /\ ref' = [ref EXCEPT ![u] = {}]
    /\ seen' = [seen EXCEPT ![u] = @ - 1]
    /\ IF deqQueue = <<>>
       THEN undefined' = TRUE /\ deqQueue' \in Seq(Nat) /\ taken' \in SUBSET Nat
       ELSE /\ deqQueue' = rest
            /\ taken' = taken \cup {t}
            /\ UNCHANGED undefined
    /\ UNCHANGED <<pushed, cleared>>

pop_front(u) == Remove(u, deqQueue[1], Tail(deqQueue))

pop_back(u) ==
    Remove(u, deqQueue[Len(deqQueue)], SubSeq(deqQueue, 1, Len(deqQueue) - 1))

\* Also the destructor.
clear(u) ==
    /\ u \in Takers
    /\ deqQueue' = <<>>
    /\ cleared' = cleared \cup Queued
    /\ seen' = [seen EXCEPT ![u] = 0]
    /\ ref' = [ref EXCEPT ![u] = {}]
    /\ UNCHANGED <<undefined, pushed, taken>>

Next ==
    \/ push_back
    \/ push_front
    \/ \E u \in Users :
        \/ count(u) \/ front(u) \/ back(u) \/ Use(u)
        \/ pop_front(u) \/ pop_back(u) \/ clear(u)

Spec == Init /\ [][Next]_vars

-----------------------------------------------------------------------------
(* Properties.                                                             *)

TypeOK ==
    /\ deqQueue \in Seq(Nat)
    /\ seen \in [Users -> Nat]
    /\ ref \in [Users -> SUBSET Nat]
    /\ undefined \in BOOLEAN
    /\ pushed \in Nat
    /\ taken \subseteq Nat
    /\ cleared \subseteq Nat

\* Every item that was pushed is in the queue, or a caller of pop_front or pop_back got
\* it, or clear destroyed it; and no two of these are true of the same item, which so
\* nobody gets twice.
EachItemOnce ==
    /\ Queued \cup taken \cup cleared = 0..(pushed - 1)
    /\ Queued \cap taken = {}
    /\ Queued \cap cleared = {}
    /\ taken \cap cleared = {}
    /\ \A i, j \in DOMAIN deqQueue : deqQueue[i] = deqQueue[j] => i = j

OneTaker == \A u, v \in Takers : u = v

\* What a taker has seen stays true until it uses it.
SeenHolds ==
    \A u \in Takers \cap Users : seen[u] <= Len(deqQueue) /\ ref[u] \subseteq Queued

\* No operation on an empty deque, and no use of a reference to an item that is
\* gone.
NeverUndefined == ~undefined
=============================================================================
