---------------------------- MODULE ServerProofs ----------------------------
(***************************************************************************)
(* Theorems about Server: what holds of its list of connections however    *)
(* the asio thread and main interleave, for any number of clients.         *)
(***************************************************************************)
EXTENDS Server, SequenceTheorems, FiniteSetTheorems, TLAPS

\* Where main may be in the list, that the asio thread appends to.
Positions ==
    /\ pc = "loop" => pos >= 1 /\ pos <= last + 1
    /\ pc \in {"loop", "remove", "move", "erase"} => last <= Len(deqConnections)
    /\ pc = "move" =>
        /\ pos < scan
        /\ scan <= limit + 1
        /\ limit <= Len(deqConnections)
    /\ pc = "erase" => pos <= Len(deqConnections)

\* No connection is twice in a list.
OneEach(list) ==
    \A i, j \in DOMAIN list : list[i] = list[j] /\ list[i] # Null => i = j

\* The connections in the list, and those reported as disconnected.
Known ==
    /\ OneEach(deqConnections)
    /\ \A i \in DOMAIN deqConnections :
        deqConnections[i] # Null => deqConnections[i] \in Accepted
    /\ targets \subseteq Accepted
    /\ \A c \in Clients :
        /\ reported[c] = failed[c] \/ (reported[c] = failed[c] + 1 /\ ~Listed(c))
        /\ reported[c] > 0 => client[c] = "closed"

\* Whoever has sent what main handles, or is going to, was accepted.
Senders ==
    /\ \A i \in DOMAIN qMessagesIn : qMessagesIn[i].remote \in Accepted
    /\ msg.remote \in Accepted \cup {Null}

\* The n-th id that is given out, and the number of those that were.
Nth(n) == IF FirstId + n < IdModulus THEN FirstId + n ELSE FirstId + n - IdModulus

Given == Cardinality(Accepted) - (IF asio = "connect" THEN 1 ELSE 0)

Ids ==
    /\ Given \in Nat
    /\ nIDCounter = Nth(Given)
    /\ \A c \in Clients : stage[c] # "none" => \E k \in 0..(Given - 1) : id[c] = Nth(k)
    /\ IdsDiffer

IInv == TypeOK /\ Positions /\ Known /\ Senders /\ BroadcastReaches

-----------------------------------------------------------------------------
(* What is done to a list of connections.                                  *)

Slots == Clients \cup {Null}

\* Every connection of the list was in the other one.
From(list, other) ==
    \A i \in DOMAIN list :
        list[i] # Null => \E j \in DOMAIN other : other[j] = list[i]

Thinned(list, other) ==
    /\ list \in Seq(Slots)
    /\ OneEach(list)
    /\ From(list, other)

LEMMA LenIsNat == \A s \in Seq(Slots) : Len(s) \in Nat /\ DOMAIN s = 1..Len(s)
  BY LenProperties

LEMMA ResetOne ==
    ASSUME NEW s \in Seq(Slots), OneEach(s), NEW p \in DOMAIN s
    PROVE  /\ Thinned([s EXCEPT ![p] = Null], s)
           /\ Len([s EXCEPT ![p] = Null]) = Len(s)
<1> DEFINE t == [s EXCEPT ![p] = Null]
<1>1. t \in Seq(Slots) /\ Len(t) = Len(s) /\ DOMAIN t = DOMAIN s
  BY ExceptSeq, LenIsNat DEF Slots
<1>2. \A i \in DOMAIN s : t[i] = IF i = p THEN Null ELSE s[i]
  BY ExceptSeq, LenIsNat
<1> HIDE DEF t
<1>3. OneEach(t) /\ From(t, s)
  BY <1>1, <1>2 DEF OneEach, From
<1> QED
  BY <1>1, <1>3 DEF Thinned, t

\* std::remove moves a connection to the front.
LEMMA MoveOne ==
    ASSUME NEW s \in Seq(Slots), OneEach(s), NEW p \in DOMAIN s, NEW q \in DOMAIN s,
           s[p] # Null
    PROVE  /\ Thinned([s EXCEPT ![p] = Null, ![q] = s[p]], s)
           /\ Len([s EXCEPT ![p] = Null, ![q] = s[p]]) = Len(s)
<1> DEFINE r == [s EXCEPT ![p] = Null]
           t == [r EXCEPT ![q] = s[p]]
<1>1. r \in Seq(Slots) /\ Len(r) = Len(s) /\ DOMAIN r = DOMAIN s
  BY ResetOne, LenIsNat DEF Thinned
<1>2. \A i \in DOMAIN s : r[i] = IF i = p THEN Null ELSE s[i]
  BY ExceptSeq, LenIsNat
<1>3. s[p] \in Slots
  BY ElementOfSeq, LenIsNat
<1> HIDE DEF r
<1>4. t \in Seq(Slots) /\ Len(t) = Len(s) /\ DOMAIN t = DOMAIN s
  BY <1>1, <1>3, ExceptSeq, LenIsNat
<1>5. \A i \in DOMAIN s : t[i] = IF i = q THEN s[p] ELSE IF i = p THEN Null ELSE s[i]
  BY <1>1, <1>2, <1>3, <1>4, ExceptSeq, LenIsNat
<1>6. t = [s EXCEPT ![p] = Null, ![q] = s[p]]
  BY DEF r
<1> HIDE DEF t
<1>7. OneEach(t) /\ From(t, s)
  BY <1>4, <1>5 DEF OneEach, From
<1> QED
  BY <1>4, <1>6, <1>7 DEF Thinned

\* erase takes a part out.
LEMMA CutFront ==
    ASSUME NEW s \in Seq(Slots), OneEach(s), NEW a \in Nat, a <= Len(s)
    PROVE  Thinned(SubSeq(s, 1, a), s)
<1> DEFINE t == SubSeq(s, 1, a)
<1>1. t \in Seq(Slots)
  BY SubSeqProperties, LenIsNat
<1>2. Len(t) = a /\ DOMAIN t = 1..a /\ \A i \in 1..a : t[i] = s[i]
  BY <1>1, LenIsNat
<1>3. DOMAIN t \subseteq DOMAIN s
  BY <1>2, LenIsNat
<1> HIDE DEF t
<1>4. OneEach(t) /\ From(t, s)
  BY <1>2, <1>3 DEF OneEach, From
<1> QED
  BY <1>1, <1>4 DEF Thinned, t

LEMMA Shift ==
    ASSUME NEW b \in Nat, NEW n \in Nat, b <= n
    PROVE  /\ b + 1 \in Int /\ n \in Int /\ n - b \in Nat
           /\ \A i \in (b + 1)..n : i \in 1..n
           /\ (IF b + 1 <= n THEN n - (b + 1) + 1 ELSE 0) = n - b
           /\ n - (b + 1) + 1 = n - b
           /\ \A i \in 1..(n - b) : (b + 1) + i - 1 = b + i
  OBVIOUS

LEMMA CutMiddle ==
    ASSUME NEW s \in Seq(Slots), OneEach(s), NEW a \in Nat, NEW b \in Nat,
           a <= b, b <= Len(s)
    PROVE  Thinned(SubSeq(s, 1, a) \o SubSeq(s, b + 1, Len(s)), s)
<1> DEFINE f == SubSeq(s, 1, a)
           g == SubSeq(s, b + 1, Len(s))
           n == Len(s) - b
           t == f \o g
           at(i) == IF i <= a THEN i ELSE i - a + b
<1>1. Len(s) \in Nat /\ DOMAIN s = 1..Len(s) /\ n \in Nat
  BY LenIsNat
<1>2. f \in Seq(Slots) /\ Len(f) = a /\ \A i \in 1..a : f[i] = s[i]
  BY <1>1, SubSeqProperties
<1>3. g \in Seq(Slots) /\ Len(g) = n /\ \A i \in 1..n : g[i] = s[b + i]
  <2>1. b + 1 \in Int /\ Len(s) \in Int /\ \A i \in (b + 1)..Len(s) : s[i] \in Slots
    BY <1>1, Shift, ElementOfSeq
  <2>2. /\ g \in Seq(Slots)
        /\ Len(g) = IF b + 1 <= Len(s) THEN Len(s) - (b + 1) + 1 ELSE 0
        /\ \A i \in 1..(Len(s) - (b + 1) + 1) : g[i] = s[(b + 1) + i - 1]
    BY <2>1, SubSeqProperties
  <2>3. \A i \in 1..n : i \in 1..(Len(s) - (b + 1) + 1) /\ (b + 1) + i - 1 = b + i
    BY <1>1, Shift
  <2>4. Len(g) = n
    BY <1>1, <2>2, Shift
  <2> QED
    BY <2>2, <2>3, <2>4
<1> HIDE DEF f, g
<1>4. t \in Seq(Slots) /\ Len(t) = a + n /\ DOMAIN t = 1..(a + n)
  <2>1. t \in Seq(Slots) /\ Len(t) = Len(f) + Len(g)
    BY <1>2, <1>3, ConcatProperties
  <2> QED
    BY <2>1, <1>2, <1>3, LenIsNat
<1>5. \A i \in 1..(a + n) : t[i] = IF i <= a THEN f[i] ELSE g[i - a]
  <2>1. \A i \in 1..(Len(f) + Len(g)) :
            t[i] = IF i <= Len(f) THEN f[i] ELSE g[i - Len(f)]
    BY <1>2, <1>3, ConcatProperties
  <2> QED
    BY <2>1, <1>2, <1>3
<1> HIDE DEF t
<1>6. \A i \in 1..(a + n) : at(i) \in DOMAIN s /\ t[i] = s[at(i)]
  <2> TAKE i \in 1..(a + n)
  <2>1. CASE i <= a
    BY <2>1, <1>1, <1>2, <1>5
  <2>2. CASE i > a
    <3>1. i - a \in 1..n /\ b + (i - a) = at(i) /\ at(i) \in DOMAIN s
      BY <2>2, <1>1
    <3>2. t[i] = g[i - a] /\ g[i - a] = s[b + (i - a)]
      BY <2>2, <3>1, <1>1, <1>3, <1>5
    <3> QED
      BY <3>1, <3>2
  <2> QED
    BY <2>1, <2>2, <1>1
<1>7. \A i, j \in 1..(a + n) : at(i) = at(j) => i = j
  BY <1>1
<1> HIDE DEF at
<1>8. OneEach(t) /\ From(t, s)
  <2>1. OneEach(t)
    BY <1>4, <1>6, <1>7 DEF OneEach
  <2>2. From(t, s)
    BY <1>4, <1>6 DEF From
  <2> QED
    BY <2>1, <2>2
<1> QED
  BY <1>4, <1>8 DEF Thinned, t, f, g
-----------------------------------------------------------------------------
(* Types.                                                                  *)

LEMMA InitType == Init => TypeOK
<1> SUFFICES ASSUME Init PROVE TypeOK
  OBVIOUS
<1>1. deqConnections \in Seq(Clients \cup {Null}) /\ qMessagesIn \in Seq(OwnedMessages)
  BY EmptySeq DEF Init
<1>2. nIDCounter \in 0..(IdModulus - 1)
  BY IdsAssumption DEF Init
<1>3. joinable \in BOOLEAN /\ bInvalidClientExists \in BOOLEAN
  BY DEF Init
<1> QED
  BY <1>1, <1>2, <1>3 DEF Init, TypeOK

LEMMA BackType == ASSUME TypeOK PROVE Back \in Slots
<1>1. CASE deqConnections = <<>>
  BY <1>1 DEF Back, Slots
<1>2. CASE deqConnections # <<>>
  <2>1. deqConnections[Len(deqConnections)] \in Clients \cup {Null}
    BY <1>2, EmptySeq, LenProperties, ElementOfSeq DEF TypeOK
  <2> QED
    BY <1>2, <2>1 DEF Back, Slots
<1> QED
  BY <1>1, <1>2

\* The clients and the asio thread.
LEMMA AsioType ==
    ASSUME TypeOK, NEW c \in Clients,
           Arrive(c) \/ AcceptGone(c) \/ DenyClient(c) \/ AllowClient(c)
            \/ Validate(c) \/ CloseSocket(c)
            \/ \E m \in Incoming : Receive(c, m)
    PROVE  TypeOK'
<1>1. CASE Arrive(c) \/ AcceptGone(c) \/ DenyClient(c) \/ Validate(c) \/ CloseSocket(c)
  <2>1. client' \in [Clients -> {"away", "waiting", "denied", "open", "closed"}]
    BY <1>1 DEF TypeOK, Arrive, AcceptGone, DenyClient, Validate, CloseSocket, peers
  <2>2. stage' \in [Clients -> {"none", "handshake", "valid", "mixed"}]
    BY <1>1 DEF TypeOK, Arrive, AcceptGone, DenyClient, Validate, CloseSocket, peers
  <2>3. /\ crash' \in {crash, "exception"}
        /\ UNCHANGED <<id, nIDCounter, lists, context, joinable, starts, asio, main, total>>
    BY <1>1 DEF Arrive, AcceptGone, DenyClient, Validate, CloseSocket, peers, runtime
  <2> QED
    BY <2>1, <2>2, <2>3 DEF TypeOK, lists, main, loop, history, remove
<1>2. CASE AllowClient(c)
  <2>1. Append(deqConnections, c) \in Seq(Clients \cup {Null})
    BY AppendProperties DEF TypeOK
  <2> QED
    BY <1>2, <2>1 DEF TypeOK, AllowClient, runtime, main, loop, history, remove
<1>3. CASE \E m \in Incoming : Receive(c, m)
  <2>1. PICK m \in Incoming : Receive(c, m)
    BY <1>3
  <2>2. Owned(c, m) \in OwnedMessages
    BY DEF Owned, OwnedMessages
  <2>3. Append(qMessagesIn, Owned(c, m)) \in Seq(OwnedMessages)
    BY <2>2, AppendProperties DEF TypeOK
  <2> QED
    BY <2>1, <2>3 DEF TypeOK, Receive, peers, runtime, main, loop, history, remove
<1> QED
  BY <1>1, <1>2, <1>3

\* The rest of the accept handler.
LEMMA AcceptType == ASSUME TypeOK, ConnectBack \/ Approve PROVE TypeOK'
<1>1. CASE ConnectBack
  <2>1. (nIDCounter + 1) % IdModulus \in 0..(IdModulus - 1)
    BY IdsAssumption DEF TypeOK
  <2>2. crash' \in {"no", "exception", "terminate", "null", "memory", "dangling"}
    BY <1>1 DEF TypeOK, ConnectBack
  <2>3. nIDCounter \in Nat
    BY IdsAssumption DEF TypeOK
  <2>4. id' \in [Clients -> Nat]
    BY <1>1, <2>3 DEF TypeOK, ConnectBack
  <2>5. stage' \in [Clients -> {"none", "handshake", "valid", "mixed"}]
    BY <1>1 DEF TypeOK, ConnectBack, Begun
  <2> QED
    BY <1>1, <2>1, <2>2, <2>4, <2>5 DEF TypeOK, ConnectBack, lists, main, loop, history, remove
<1>2. CASE Approve
  BY <1>2 DEF TypeOK, Approve, peers, lists, main, loop, history, remove
<1> QED
  BY <1>1, <1>2

\* main: Start, Stop and ~server_interface.
LEMMA LifeType ==
    ASSUME TypeOK, Start \/ Stop \/ Join \/ Destroy
    PROVE  TypeOK'
<1>1. CASE Start
  BY <1>1 DEF TypeOK, Start, peers, lists, main, loop, history, remove
<1>2. CASE Stop
  BY <1>2 DEF TypeOK, Stop, peers, lists, loop, history, remove
<1>3. CASE Join
  BY <1>3 DEF TypeOK, Join, peers, lists, loop, history, remove
<1>4. CASE Destroy
  BY <1>4 DEF TypeOK, Destroy, peers, lists, loop, history, remove
<1> QED
  BY <1>1, <1>2, <1>3, <1>4

\* What main does to the list.
LEMMA SameList == ASSUME NEW s \in Seq(Slots), OneEach(s) PROVE Thinned(s, s)
  BY DEF Thinned, From

LEMMA SurvivorsThinned ==
    ASSUME TypeOK, OneEach(deqConnections), pos <= last, last <= Len(deqConnections),
           NEW list \in Survivors
    PROVE  Thinned(list, deqConnections)
<1> DEFINE n == Len(deqConnections)
           fewer == n - (last - pos)
<1>1. deqConnections \in Seq(Slots) /\ n \in Nat /\ pos \in Nat /\ last \in Nat
  BY LenIsNat DEF TypeOK, Slots
<1>2. fewer \in Nat /\ fewer <= n /\ 0 \in Nat /\ 0 <= n
  BY <1>1
<1>3. \/ list = SubSeq(deqConnections, 1, pos) \o SubSeq(deqConnections, last + 1, n)
      \/ list = <<>>
      \/ list = SubSeq(deqConnections, 1, fewer)
  BY DEF Survivors
<1>4. Thinned(<<>>, deqConnections)
  BY EmptySeq DEF Thinned, OneEach, From
<1> QED
  BY <1>1, <1>2, <1>3, <1>4, CutFront, CutMiddle

LEMMA MainList ==
    ASSUME TypeOK, Positions, OneEach(deqConnections), Main
    PROVE  /\ Thinned(deqConnections', deqConnections)
           /\ Len(deqConnections') = Len(deqConnections) \/ pc' = "idle"
<1>1. /\ deqConnections \in Seq(Slots)
      /\ Len(deqConnections) \in Nat /\ DOMAIN deqConnections = 1..Len(deqConnections)
  BY LenIsNat DEF TypeOK, Slots
<1>2. CASE UNCHANGED deqConnections
  BY <1>1, <1>2, SameList
<1>3. CASE MessageNext
  <2>1. pos \in DOMAIN deqConnections
    BY <1>1, <1>3 DEF MessageNext, At, Positions, TypeOK
  <2>2. deqConnections' \in {deqConnections, [deqConnections EXCEPT ![pos] = Null]}
    BY <1>3 DEF MessageNext
  <2> QED
    BY <1>1, <2>1, <2>2, SameList, ResetOne
<1>4. CASE RemoveNext
  <2>1. scan \in DOMAIN deqConnections /\ pos + 1 \in DOMAIN deqConnections
    <3>1. pc = "move" /\ scan <= limit
      BY <1>4 DEF RemoveNext, At
    <3>2. pos < scan /\ limit <= Len(deqConnections)
      BY <3>1 DEF Positions
    <3>3. pos \in Nat /\ scan \in Nat /\ limit \in Nat
      BY DEF TypeOK
    <3> QED
      BY <1>1, <3>1, <3>2, <3>3
  <2>2. CASE deqConnections[scan] = Null
    BY <1>2, <1>4, <2>2 DEF RemoveNext
  <2>3. CASE deqConnections[scan] # Null
    <3>1. deqConnections' = [deqConnections EXCEPT
                ![scan] = Null, ![pos + 1] = deqConnections[scan]]
      BY <1>4, <2>3 DEF RemoveNext
    <3> QED
      BY <1>1, <2>1, <2>3, <3>1, MoveOne
  <2> QED
    BY <2>2, <2>3
<1>5. CASE EraseEnd
  <2>1. pos <= last /\ last <= Len(deqConnections) /\ pc' = "idle"
    BY <1>5 DEF EraseEnd, At, Positions, Return
  <2>2. deqConnections' \in Survivors
    BY <1>5 DEF EraseEnd
  <2> QED
    BY <2>1, <2>2, SurvivorsThinned
<1> QED
  BY <1>2, <1>3, <1>4, <1>5
  DEF Main, Tidy, Join, PopMessage, OnMessage, Bounce, MessageClient, MessageAllClients,
      LoopEnd, RemoveBegin, RemoveEnd, EraseReversed, lists

\* The part of TypeOK that a return from OnMessage is about.
LoopType ==
    /\ pc \in {"idle", "join", "handle", "loop", "remove", "move", "erase", "gone"}
    /\ msg \in OwnedMessages \cup {NoMessage}
    /\ pos \in Nat /\ last \in Nat /\ scan \in Nat /\ limit \in Nat
    /\ bInvalidClientExists \in BOOLEAN
    /\ targets \subseteq Clients
    /\ reached \subseteq Clients

LEMMA LeaveType == ASSUME TypeOK, Return \/ EraseCall PROVE LoopType'
<1>1. CASE Return
  <2>1. bInvalidClientExists' \in BOOLEAN /\ targets' \subseteq Clients /\ reached' \subseteq Clients
    BY <1>1 DEF Return
  <2> QED
    BY <1>1, <2>1 DEF Return, LoopType
<1>2. CASE EraseCall
  <2>1. Len(deqConnections) \in Nat
    BY LenIsNat DEF TypeOK, Slots
  <2>2. UNCHANGED <<msg, pos, scan, limit, bInvalidClientExists, targets, reached>>
    BY <1>2 DEF EraseCall, remove
  <2> QED
    BY <1>2, <2>1, <2>2 DEF EraseCall, LoopType, TypeOK
<1> QED
  BY <1>1, <1>2

\* main: the rest of Update.
LEMMA MainType ==
    ASSUME TypeOK, Positions, OneEach(deqConnections), Main
    PROVE  TypeOK'
<1>1. deqConnections' \in Seq(Clients \cup {Null}) /\ Len(deqConnections) \in Nat
  BY MainList, LenIsNat DEF Thinned, Slots, TypeOK
<1>2. CASE Join
  BY <1>2, LifeType
<1>3. CASE PopMessage
  <2>1. Head(qMessagesIn) \in OwnedMessages /\ Tail(qMessagesIn) \in Seq(OwnedMessages)
    BY <1>3, HeadTailProperties DEF PopMessage, TypeOK
  <2> QED
    BY <1>3, <2>1 DEF TypeOK, PopMessage, peers, runtime, loop, history, remove
<1>4. CASE \E c \in Clients : Bounce(c)
  <2>1. LoopType' /\ UNCHANGED <<peers, lists, runtime, asio, reported, failed, total>>
    BY <1>4, LeaveType DEF Bounce
  <2> QED
    BY <2>1 DEF TypeOK, LoopType, peers, lists, runtime
<1>5. CASE \E c \in Clients : MessageClient(c)
  <2>1. /\ LoopType'
        /\ UNCHANGED <<peers, lists, context, joinable, starts, asio, total>>
    BY <1>5, LeaveType DEF MessageClient
  <2>2. failed' \in [Clients -> Nat] /\ reported' \in [Clients -> Nat] /\ crash' = crash
    BY <1>5, ClientsAssumption DEF TypeOK, MessageClient, OnClientDisconnect
  <2> QED
    BY <2>1, <2>2 DEF TypeOK, LoopType, peers, lists
<1>6. CASE MessageAllClients
  BY <1>1, <1>6 DEF TypeOK, MessageAllClients, peers, lists, runtime, remove
<1>7. CASE MessageNext
  <2>1. pos \in DOMAIN deqConnections
    BY <1>1, <1>7, LenIsNat DEF MessageNext, At, Positions, TypeOK, Slots
  <2>2. deqConnections[pos] \in Clients \cup {Null}
    BY <2>1, ElementOfSeq, LenIsNat DEF TypeOK, Slots
  <2>3. /\ pos' \in Nat
        /\ UNCHANGED <<peers, qMessagesIn, context, joinable, starts, asio, pc, msg, last,
                       remove, targets, failed, total>>
    BY <1>7 DEF TypeOK, MessageNext
  <2>4. CASE deqConnections[pos] # Null /\ IsConnected(deqConnections[pos])
    <3>1. reached' \subseteq Clients /\ UNCHANGED <<reported, bInvalidClientExists, crash>>
      BY <1>7, <2>2, <2>4 DEF TypeOK, MessageNext
    <3> QED
      BY <1>1, <2>3, <3>1 DEF TypeOK, peers, remove
  <2>5. CASE ~(deqConnections[pos] # Null /\ IsConnected(deqConnections[pos]))
    <3>1. /\ bInvalidClientExists' = TRUE /\ reached' = reached
          /\ OnClientDisconnect(deqConnections[pos])
      BY <1>7, <2>5 DEF MessageNext
    <3>2. reported' \in [Clients -> Nat] /\ crash' \in {crash, "null"}
      <4> DEFINE d == deqConnections[pos]
      <4>1. d # Null => d \in Clients /\ reported[d] + 1 \in Nat
        BY <2>2 DEF TypeOK
      <4> HIDE DEF d
      <4>2. OnClientDisconnect(d)
        BY <3>1 DEF d
      <4> QED
        BY <4>1, <4>2 DEF TypeOK, OnClientDisconnect
    <3>3. bInvalidClientExists' \in BOOLEAN
      BY <3>1
    <3> QED
      BY <1>1, <2>3, <3>1, <3>2, <3>3 DEF TypeOK, peers, remove
  <2> QED
    BY <2>4, <2>5
<1>8. CASE LoopEnd
  <2>1. LoopType' /\ UNCHANGED <<peers, lists, runtime, asio, reported, failed, total>>
    BY <1>8, LeaveType DEF LoopEnd
  <2> QED
    BY <2>1 DEF TypeOK, LoopType, peers, lists, runtime
<1>9. CASE RemoveBegin \/ RemoveEnd
  <2>1. /\ UNCHANGED <<peers, lists, runtime, asio, msg, last, bInvalidClientExists, history, total>>
        /\ pc' \in {"move", "erase"}
    BY <1>9 DEF RemoveBegin, RemoveEnd, loop
  <2>2. pos' \in Nat /\ scan' \in Nat /\ limit' \in Nat
    BY <1>1, <1>9 DEF TypeOK, RemoveBegin, RemoveEnd, loop, remove
  <2> QED
    BY <2>1, <2>2 DEF TypeOK, peers, lists, runtime, history
<1>10. CASE RemoveNext
  <2>1. UNCHANGED <<peers, qMessagesIn, runtime, asio, pc, msg, last, limit,
                    bInvalidClientExists, history, total>>
    BY <1>10 DEF RemoveNext
  <2>2. pos' \in Nat /\ scan' \in Nat
    BY <1>10 DEF TypeOK, RemoveNext
  <2> QED
    BY <1>1, <2>1, <2>2 DEF TypeOK, peers, runtime, history
<1>11. CASE EraseEnd
  <2>1. client' \in [Clients -> {"away", "waiting", "denied", "open", "closed"}]
    BY <1>11 DEF TypeOK, EraseEnd
  <2>2. LoopType' /\ UNCHANGED <<stage, id, nIDCounter, qMessagesIn, runtime, asio,
                                  reported, failed, total>>
    BY <1>11, LeaveType DEF EraseEnd
  <2> QED
    BY <1>1, <2>1, <2>2 DEF TypeOK, LoopType, runtime
<1>12. CASE EraseReversed
  BY <1>12 DEF TypeOK, EraseReversed, peers, lists, main, loop, history, remove
<1> QED
  BY <1>2, <1>3, <1>4, <1>5, <1>6, <1>7, <1>8, <1>9, <1>10, <1>11, <1>12
  DEF Main, Tidy, OnMessage
-----------------------------------------------------------------------------
(* The clients in the list.                                                *)

\* Connections are only ever accepted, and closed for good.
Settled ==
    /\ Accepted \subseteq Accepted'
    /\ \A c \in Clients : client[c] = "closed" => client'[c] = "closed"

LEMMA KnownKept ==
    ASSUME TypeOK, Known, Settled, Thinned(deqConnections', deqConnections),
           targets' \subseteq Accepted', UNCHANGED <<reported, failed>>
    PROVE  Known'
<1>1. /\ OneEach(deqConnections')
      /\ \A i \in DOMAIN deqConnections' : deqConnections'[i] # Null =>
            \E j \in DOMAIN deqConnections : deqConnections[j] = deqConnections'[i]
  BY DEF Thinned, From
<1>2. \A i \in DOMAIN deqConnections' :
        deqConnections'[i] # Null => deqConnections'[i] \in Accepted'
  BY <1>1 DEF Known, Settled
<1>3. \A c \in Clients : ~Listed(c) => ~Listed(c)'
  BY <1>1, ClientsAssumption DEF Listed
<1>4. \A c \in Clients : reported'[c] > 0 => client'[c] = "closed"
  BY DEF Known, Settled
<1> QED
  BY <1>1, <1>2, <1>3, <1>4 DEF Known

LEMMA NothingNew ==
    ASSUME TypeOK, Known, Settled, UNCHANGED <<deqConnections, targets, reported, failed>>
    PROVE  Known'
<1>1. Thinned(deqConnections', deqConnections)
  BY SameList DEF Known, TypeOK, Slots
<1>2. targets' \subseteq Accepted'
  BY DEF Known, Settled
<1> QED
  BY <1>1, <1>2, KnownKept

\* A client that is accepted is new to the list.
LEMMA AllowKnown ==
    ASSUME TypeOK, Known, NEW c \in Clients, AllowClient(c)
    PROVE  Known'
<1>1. /\ deqConnections \in Seq(Slots) /\ c \in Slots
      /\ Len(deqConnections) \in Nat /\ DOMAIN deqConnections = 1..Len(deqConnections)
  BY LenIsNat DEF TypeOK, Slots
<1>2. /\ client[c] = "waiting" /\ client' = [client EXCEPT ![c] = "open"]
      /\ deqConnections' = Append(deqConnections, c)
      /\ UNCHANGED <<targets, reported, failed>>
  BY DEF AllowClient, main, history
<1>3. Accepted' = Accepted \cup {c} /\ c \notin Accepted
  BY <1>2 DEF Accepted, TypeOK
<1>4. /\ Len(deqConnections') = Len(deqConnections) + 1
      /\ \A i \in 1..Len(deqConnections) : deqConnections'[i] = deqConnections[i]
      /\ deqConnections'[Len(deqConnections) + 1] = c
  BY <1>1, <1>2, AppendProperties
<1>5. DOMAIN deqConnections' = 1..(Len(deqConnections) + 1)
  <2>1. deqConnections' \in Seq(Slots)
    BY <1>1, <1>2, AppendProperties
  <2> QED
    BY <2>1, <1>4, LenIsNat
<1>6. \A i \in DOMAIN deqConnections' :
        \/ i \in DOMAIN deqConnections /\ deqConnections'[i] = deqConnections[i]
        \/ i = Len(deqConnections) + 1 /\ deqConnections'[i] = c
  BY <1>1, <1>4, <1>5
<1>7. c # Null /\ ~Listed(c)
  BY <1>3, ClientsAssumption DEF Listed, Known
<1>8. OneEach(deqConnections')
  BY <1>6, <1>7 DEF OneEach, Known, Listed
<1>9. \A i \in DOMAIN deqConnections' :
        deqConnections'[i] # Null => deqConnections'[i] \in Accepted'
  BY <1>3, <1>6 DEF Known
<1>10. reported[c] = 0 /\ failed[c] = 0
  <2>1. reported[c] \in Nat /\ failed[c] \in Nat
    BY DEF TypeOK
  <2>2. ~(reported[c] > 0)
    BY <1>2 DEF Known
  <2>3. reported[c] = failed[c] \/ reported[c] = failed[c] + 1
    BY DEF Known
  <2> QED
    BY <2>1, <2>2, <2>3
<1>11. \A d \in Clients : d # c /\ ~Listed(d) => ~Listed(d)'
  BY <1>6 DEF Listed
<1>12. \A d \in Clients :
        /\ reported'[d] = failed'[d] \/ (reported'[d] = failed'[d] + 1 /\ ~Listed(d)')
        /\ reported'[d] > 0 => client'[d] = "closed"
  BY <1>2, <1>10, <1>11 DEF Known, TypeOK
<1> QED
  BY <1>2, <1>3, <1>8, <1>9, <1>12 DEF Known

\* The loop of MessageAllClients reports what it takes out.
LEMMA LoopKnown ==
    ASSUME TypeOK, Positions, Known, MessageNext
    PROVE  Known'
<1>0. PICK d : d = deqConnections[pos]
  OBVIOUS
<1>1. /\ deqConnections \in Seq(Slots) /\ pos \in DOMAIN deqConnections
      /\ pos >= 1 /\ pos <= last
  BY LenIsNat DEF TypeOK, Slots, MessageNext, At, Positions
<1>2. UNCHANGED <<client, targets, failed>> /\ Settled
  BY DEF MessageNext, peers, Settled, Accepted
<1>3. CASE d # Null /\ IsConnected(d)
  <2>1. UNCHANGED <<deqConnections, reported>>
    BY <1>0, <1>3 DEF MessageNext
  <2> QED
    BY <1>2, <2>1, NothingNew
<1>4. CASE ~(d # Null /\ IsConnected(d))
  <2>1. deqConnections' = [deqConnections EXCEPT ![pos] = Null] /\ OnClientDisconnect(d)
    BY <1>0, <1>4 DEF MessageNext
  <2>2. Thinned(deqConnections', deqConnections)
    BY <1>1, <2>1, ResetOne DEF Known
  <2>3. CASE d = Null
    <3>1. UNCHANGED reported
      BY <2>1, <2>3 DEF OnClientDisconnect
    <3>2. targets' \subseteq Accepted'
      BY <1>2 DEF Known, Settled
    <3> QED
      BY <1>2, <2>2, <3>1, <3>2, KnownKept
  <2>4. CASE d # Null
    <3>1. /\ d \in Clients /\ client[d] = "closed" /\ Listed(d)
          /\ reported[d] = failed[d] /\ failed[d] \in Nat
          /\ reported' = [reported EXCEPT ![d] = failed[d] + 1]
      <4>1. d \in Accepted /\ Listed(d)
        BY <1>0, <1>1, <2>4 DEF Known, Listed
      <4>2. d \in Clients /\ client[d] = "closed"
        BY <4>1, <1>4, <2>4 DEF Accepted, IsConnected
      <4>3. reported[d] = failed[d] /\ failed[d] \in Nat
        BY <4>1, <4>2 DEF Known, TypeOK
      <4> QED
        BY <4>1, <4>2, <4>3, <2>1, <2>4 DEF OnClientDisconnect
    <3>2. /\ OneEach(deqConnections')
          /\ \A i \in DOMAIN deqConnections' : deqConnections'[i] # Null =>
                \E j \in DOMAIN deqConnections : deqConnections[j] = deqConnections'[i]
      BY <2>2 DEF Thinned, From
    <3>3. DOMAIN deqConnections' = DOMAIN deqConnections
          /\ \A i \in DOMAIN deqConnections :
                deqConnections'[i] = IF i = pos THEN Null ELSE deqConnections[i]
      BY <2>1
    <3>4. ~Listed(d)'
      <4>1. \A i \in DOMAIN deqConnections : deqConnections[i] = d => i = pos
        BY <1>0, <1>1, <2>4 DEF Known, OneEach
      <4> QED
        BY <2>4, <3>3, <4>1 DEF Listed
    <3>5. \A c \in Clients : ~Listed(c) => ~Listed(c)'
      BY <3>2, ClientsAssumption DEF Listed
    <3>6. \A c \in Clients :
            /\ reported'[c] = failed'[c] \/ (reported'[c] = failed'[c] + 1 /\ ~Listed(c)')
            /\ reported'[c] > 0 => client'[c] = "closed"
      <4> TAKE c \in Clients
      <4>1. CASE c = d
        <5>1. reported'[c] = failed'[c] + 1
          BY <4>1, <1>2, <3>1 DEF TypeOK
        <5>2. ~Listed(c)'
          BY <4>1, <3>4 DEF Listed
        <5>3. client'[c] = "closed"
          BY <4>1, <1>2, <3>1 DEF TypeOK
        <5> QED
          BY <5>1, <5>2, <5>3
      <4>2. CASE c # d
        <5>1. reported'[c] = reported[c] /\ client'[c] = client[c]
          BY <4>2, <1>2, <3>1 DEF TypeOK
        <5> QED
          BY <5>1, <1>2, <3>5 DEF Known
      <4> QED
        BY <4>1, <4>2
    <3>7. \A i \in DOMAIN deqConnections' :
            deqConnections'[i] # Null => deqConnections'[i] \in Accepted'
      BY <1>2, <3>2 DEF Known, Settled
    <3>8. targets' \subseteq Accepted'
      BY <1>2 DEF Known, Settled
    <3> QED
      BY <3>2, <3>6, <3>7, <3>8 DEF Known
  <2> QED
    BY <2>3, <2>4
<1> QED
  BY <1>3, <1>4

LEMMA MainSettled ==
    ASSUME TypeOK, Known, Main
    PROVE  Settled /\ Accepted' = Accepted
<1>1. CASE UNCHANGED client
  BY <1>1 DEF Settled, Accepted
<1>2. CASE EraseEnd
  <2>1. PICK owned : client' = [c \in Clients |->
                        IF Listed(c) /\ c \notin owned THEN "closed" ELSE client[c]]
    BY <1>2 DEF EraseEnd
  <2>2. \A c \in Clients : Listed(c) => c \in Accepted
    BY ClientsAssumption DEF Listed, Known
  <2>3. \A c \in Clients : client'[c] \in {"open", "closed"} <=> client[c] \in {"open", "closed"}
    BY <2>1, <2>2 DEF Accepted
  <2> QED
    BY <2>1, <2>3 DEF Settled, Accepted
<1> QED
  BY <1>1, <1>2
  DEF Main, Tidy, Join, PopMessage, OnMessage, Bounce, MessageClient, MessageAllClients,
      MessageNext, LoopEnd, RemoveBegin, RemoveNext, RemoveEnd, EraseReversed, peers

LEMMA MainTargets ==
    ASSUME TypeOK, Main
    PROVE  \/ UNCHANGED targets
           \/ targets' = {}
           \/ targets' = {c \in Clients : Listed(c) /\ IsConnected(c)}
  BY DEF Main, Tidy, Join, PopMessage, OnMessage, Bounce, MessageClient, MessageAllClients,
         MessageNext, LoopEnd, RemoveBegin, RemoveNext, RemoveEnd, EraseEnd, EraseReversed,
         Return, EraseCall, history, main

\* MessageClient reports the sender of the message, which has been accepted.
LEMMA FailKnown ==
    ASSUME TypeOK, Known, Senders, NEW c \in Clients, MessageClient(c)
    PROVE  Known'
<1>1. UNCHANGED <<client, deqConnections>> /\ Settled
  BY DEF MessageClient, peers, lists, Settled, Accepted
<1>2. targets' = {} \/ UNCHANGED targets
  BY DEF MessageClient, Return, EraseCall
<1>3. targets' \subseteq Accepted'
  BY <1>1, <1>2 DEF Known, Settled
<1>4. Thinned(deqConnections', deqConnections)
  BY <1>1, SameList DEF Known, TypeOK, Slots
<1>5. CASE IsConnected(c)
  <2>1. UNCHANGED <<reported, failed>>
    BY <1>5 DEF MessageClient
  <2> QED
    BY <1>1, <1>3, <1>4, <2>1, KnownKept
<1>6. CASE ~IsConnected(c)
  <2>1. client[c] = "closed"
    BY <1>6, ClientsAssumption DEF MessageClient, Senders, Accepted, IsConnected
  <2>2. /\ reported' = [reported EXCEPT ![c] = reported[c] + 1]
        /\ failed' = [failed EXCEPT ![c] = failed[c] + 1]
    BY <1>6, ClientsAssumption DEF MessageClient, OnClientDisconnect
  <2>3. \A d \in Clients :
            /\ reported'[d] = failed'[d] \/ (reported'[d] = failed'[d] + 1 /\ ~Listed(d))
            /\ reported'[d] > 0 => client[d] = "closed"
    BY <2>1, <2>2 DEF Known, TypeOK
  <2> QED
    BY <1>1, <1>3, <2>3 DEF Known, Listed, Settled
<1> QED
  BY <1>5, <1>6

LEMMA MainKnown ==
    ASSUME TypeOK, Positions, Known, Senders, Main
    PROVE  Known'
<1>1. CASE MessageNext
  BY <1>1, LoopKnown
<1>2. CASE \E c \in Clients : MessageClient(c)
  BY <1>2, FailKnown
<1>3. CASE ~MessageNext /\ ~(\E c \in Clients : MessageClient(c))
  <2>1. UNCHANGED <<reported, failed>>
    BY <1>3 DEF Main, Tidy, Join, PopMessage, OnMessage, Bounce, MessageAllClients,
                LoopEnd, RemoveBegin, RemoveNext, RemoveEnd, EraseEnd, EraseReversed,
                history, main
  <2>2. Thinned(deqConnections', deqConnections)
    BY MainList DEF Known
  <2>3. {c \in Clients : Listed(c) /\ IsConnected(c)} \subseteq Accepted
    BY DEF IsConnected, Accepted
  <2>4. targets' \subseteq Accepted'
    BY <2>3, MainTargets, MainSettled DEF Known
  <2> QED
    BY <2>1, <2>2, <2>4, MainSettled, KnownKept
<1> QED
  BY <1>1, <1>2, <1>3

\* The senders of messages.
LEMMA SendersKept ==
    ASSUME Senders, Settled, UNCHANGED qMessagesIn, msg' \in {msg, NoMessage}
    PROVE  Senders'
  BY DEF Senders, Settled, NoMessage

LEMMA MainSenders ==
    ASSUME TypeOK, Known, Senders, Main
    PROVE  Senders'
<1>1. Settled
  BY MainSettled
<1>2. CASE PopMessage
  <2>1. /\ qMessagesIn # <<>> /\ msg' = Head(qMessagesIn)
        /\ qMessagesIn' = Tail(qMessagesIn) /\ qMessagesIn \in Seq(OwnedMessages)
    BY <1>2 DEF PopMessage, TypeOK
  <2>2. /\ Head(qMessagesIn) = qMessagesIn[1] /\ 1 \in DOMAIN qMessagesIn
        /\ \A i \in DOMAIN Tail(qMessagesIn) :
              i + 1 \in DOMAIN qMessagesIn /\ Tail(qMessagesIn)[i] = qMessagesIn[i + 1]
    BY <2>1, EmptySeq, HeadTailProperties, LenProperties
  <2> QED
    BY <1>1, <2>1, <2>2 DEF Senders, Settled
<1>3. CASE ~PopMessage
  <2>1. UNCHANGED qMessagesIn /\ msg' \in {msg, NoMessage}
    BY <1>3 DEF Main, Tidy, Join, OnMessage, Bounce, MessageClient, MessageAllClients,
                MessageNext, LoopEnd, RemoveBegin, RemoveNext, RemoveEnd, EraseEnd,
                EraseReversed, Return, EraseCall, main, lists
  <2> QED
    BY <1>1, <2>1, SendersKept
<1> QED
  BY <1>2, <1>3

\* A connection that has read a message was accepted.
LEMMA ReceiveSenders ==
    ASSUME TypeOK, Senders, Settled, NEW c \in Clients, NEW m \in Incoming, Receive(c, m)
    PROVE  Senders'
<1>1. /\ qMessagesIn' = Append(qMessagesIn, Owned(c, m)) /\ UNCHANGED msg
      /\ qMessagesIn \in Seq(OwnedMessages) /\ Owned(c, m) \in OwnedMessages
  BY DEF Receive, main, TypeOK, Owned, OwnedMessages
<1>2. Owned(c, m).remote = c /\ c \in Accepted
  BY DEF Owned, Receive, IsConnected, Accepted
<1>3. \A i \in DOMAIN qMessagesIn' :
        \/ i \in DOMAIN qMessagesIn /\ qMessagesIn'[i] = qMessagesIn[i]
        \/ qMessagesIn'[i] = Owned(c, m)
  BY <1>1, AppendProperties, LenProperties
<1> QED
  BY <1>1, <1>2, <1>3 DEF Senders, Settled

-----------------------------------------------------------------------------
(* Where main is in the list.                                              *)

Ends == Len(deqConnections) \in Nat /\ Len(deqConnections) <= Len(deqConnections')
            /\ Len(deqConnections') \in Nat

LEMMA LenKept ==
    ASSUME TypeOK, UNCHANGED deqConnections \/ \E c \in Clients : AllowClient(c)
    PROVE  Ends
<1>1. deqConnections \in Seq(Slots) /\ Len(deqConnections) \in Nat
  BY LenIsNat DEF TypeOK, Slots
<1>2. CASE UNCHANGED deqConnections
  BY <1>1, <1>2 DEF Ends
<1>3. CASE \E c \in Clients : AllowClient(c)
  <2>1. PICK c \in Clients : deqConnections' = Append(deqConnections, c)
    BY <1>3 DEF AllowClient
  <2>2. Len(deqConnections') = Len(deqConnections) + 1
    BY <1>1, <2>1, AppendProperties DEF Slots
  <2> QED
    BY <1>1, <2>2 DEF Ends
<1> QED
  BY <1>2, <1>3

LEMMA PositionsKept ==
    ASSUME TypeOK, Positions, Ends, UNCHANGED <<pc, pos, last, scan, limit>>
    PROVE  Positions'
  BY DEF Positions, Ends, TypeOK

LEMMA MainPositions ==
    ASSUME TypeOK, Positions, Known, Main
    PROVE  Positions'
<1>1. pc' = "idle" => Positions'
  BY DEF Positions
<1>2. pc' # "idle" => Len(deqConnections') = Len(deqConnections)
  BY MainList DEF Known
<1>3. Len(deqConnections) \in Nat
  BY LenIsNat DEF TypeOK, Slots
<1>4. CASE Return
  BY <1>1, <1>4 DEF Return
<1>5. CASE Join \/ PopMessage
  BY <1>5 DEF Join, PopMessage, Positions
<1>6. CASE MessageAllClients
  BY <1>3, <1>6 DEF MessageAllClients, Positions, lists
<1>7. CASE EraseCall /\ UNCHANGED lists
  BY <1>3, <1>7 DEF EraseCall, Positions, lists
<1>8. CASE MessageNext
  BY <1>2, <1>3, <1>8 DEF MessageNext, At, Positions, TypeOK
<1>9. CASE RemoveBegin
  BY <1>3, <1>9 DEF RemoveBegin, At, Positions, lists
<1>10. CASE RemoveNext
  <2>1. pos' <= pos + 1 /\ pos' \in Nat /\ UNCHANGED <<pc, last, limit>> /\ scan' = scan + 1
    BY <1>10 DEF RemoveNext, TypeOK
  <2> QED
    BY <1>2, <1>3, <1>10, <2>1 DEF RemoveNext, At, Positions, TypeOK
<1>11. CASE RemoveEnd
  BY <1>3, <1>11 DEF RemoveEnd, At, Positions, TypeOK, lists, loop
<1>12. CASE EraseReversed
  BY <1>12 DEF EraseReversed, Positions, lists, main, loop, remove
<1> QED
  BY <1>4, <1>5, <1>6, <1>7, <1>8, <1>9, <1>10, <1>11, <1>12
  DEF Main, Tidy, OnMessage, Bounce, MessageClient, LoopEnd, EraseEnd
-----------------------------------------------------------------------------
(* MessageAllClients reaches whom it should.                               *)

LEMMA AllowKeepsEntries ==
    ASSUME TypeOK, NEW c \in Clients, AllowClient(c)
    PROVE  \A i \in 1..Len(deqConnections) : deqConnections'[i] = deqConnections[i]
<1>1. deqConnections \in Seq(Slots) /\ c \in Slots
  BY DEF TypeOK, Slots
<1>2. deqConnections' = Append(deqConnections, c)
  BY DEF AllowClient
<1> QED
  BY <1>1, <1>2, AppendProperties

LEMMA BroadcastKept ==
    ASSUME TypeOK, Positions, Known, BroadcastReaches, Settled, UNCHANGED main,
           UNCHANGED deqConnections \/ \E c \in Clients : AllowClient(c)
    PROVE  BroadcastReaches'
<1>1. UNCHANGED <<pc, msg, pos, last, targets, reached>>
  BY DEF main, loop, history
<1>2. Len(deqConnections) \in Nat
  BY LenIsNat DEF TypeOK, Slots
<1>3. \A i \in 1..Len(deqConnections) : deqConnections'[i] = deqConnections[i]
  BY AllowKeepsEntries
<1> SUFFICES ASSUME pc = "loop", NEW c \in targets \ {msg.remote}, c \notin reached,
                    IsConnected(c)'
             PROVE  \E i \in pos..last : deqConnections'[i] = c
  BY <1>1 DEF BroadcastReaches
<1>4. c \in Clients /\ IsConnected(c)
  BY DEF Known, Accepted, Settled, IsConnected
<1>5. PICK i \in pos..last : deqConnections[i] = c
  BY <1>4 DEF BroadcastReaches
<1>6. i \in 1..Len(deqConnections)
  BY <1>2 DEF Positions, TypeOK
<1> QED
  BY <1>3, <1>5, <1>6

LEMMA MainBroadcasts ==
    ASSUME TypeOK, Positions, Known, BroadcastReaches, Main
    PROVE  BroadcastReaches'
<1>1. CASE MessageNext
  <2>1. /\ pc = "loop" /\ pos <= last /\ pos' = pos + 1 /\ UNCHANGED <<client, msg, last, targets>>
        /\ pos \in Nat /\ last \in Nat
    BY <1>1 DEF MessageNext, At, peers, TypeOK
  <2>2. msg.remote \notin reached'
    BY <1>1, <2>1 DEF MessageNext, BroadcastReaches
  <2> SUFFICES ASSUME NEW c \in targets \ {msg.remote}, c \notin reached', IsConnected(c)
               PROVE  \E i \in (pos + 1)..last : deqConnections'[i] = c
    BY <2>1, <2>2 DEF BroadcastReaches, IsConnected
  <2>3. c \in Clients /\ c # Null
    BY ClientsAssumption DEF TypeOK
  <2>4. c \notin reached /\ deqConnections[pos] # c
    BY <1>1, <2>3 DEF MessageNext
  <2>5. PICK i \in pos..last : deqConnections[i] = c
    BY <2>1, <2>4 DEF BroadcastReaches
  <2>6. i # pos /\ i \in (pos + 1)..last
    BY <2>1, <2>4, <2>5
  <2>7. i \in DOMAIN deqConnections
    BY <2>1, <2>5, LenIsNat DEF Positions, TypeOK, Slots
  <2>8. deqConnections'[i] = c
    BY <1>1, <2>5, <2>6, <2>7 DEF MessageNext
  <2> QED
    BY <2>6, <2>8
<1>2. CASE MessageAllClients
  <2>1. /\ targets' = {c \in Clients : Listed(c) /\ IsConnected(c)} /\ reached' = {}
        /\ pos' = 1 /\ last' = Len(deqConnections) /\ UNCHANGED deqConnections
    BY <1>2 DEF MessageAllClients, lists
  <2>2. DOMAIN deqConnections = 1..Len(deqConnections)
    BY LenIsNat DEF TypeOK, Slots
  <2> QED
    BY <2>1, <2>2 DEF BroadcastReaches, Listed
<1>3. CASE ~MessageNext /\ ~MessageAllClients
  <2>1. pc' # "loop"
    BY <1>3 DEF Main, Tidy, Join, PopMessage, OnMessage, Bounce, MessageClient, LoopEnd, Return,
                EraseCall, RemoveBegin, RemoveNext, RemoveEnd, EraseEnd, EraseReversed,
                At, main
  <2> QED
    BY <2>1 DEF BroadcastReaches
<1> QED
  BY <1>1, <1>2, <1>3

-----------------------------------------------------------------------------
LEMMA InitInv == Init => IInv
<1> SUFFICES ASSUME Init PROVE IInv
  OBVIOUS
<1>1. DOMAIN deqConnections = {} /\ Len(deqConnections) = 0
  BY DEF Init
<1>2. Positions /\ BroadcastReaches
  BY DEF Init, Positions, BroadcastReaches
<1>3. Known
  BY <1>1 DEF Init, Known, OneEach
<1>4. Senders
  <2>1. DOMAIN qMessagesIn = {} /\ msg = NoMessage
    BY DEF Init
  <2> QED
    BY <2>1 DEF Senders, NoMessage
<1> QED
  BY <1>2, <1>3, <1>4, InitType DEF IInv

\* The clients and the asio thread.
LEMMA AsioInv ==
    ASSUME IInv, NEW c \in Clients,
           Arrive(c) \/ AcceptGone(c) \/ DenyClient(c) \/ AllowClient(c)
            \/ Validate(c) \/ CloseSocket(c)
            \/ \E m \in Incoming : Receive(c, m)
    PROVE  IInv'
<1> USE DEF IInv
<1>1. UNCHANGED main
  BY DEF Arrive, AcceptGone, DenyClient, AllowClient, Validate, CloseSocket,
         Receive
<1>2. UNCHANGED deqConnections \/ AllowClient(c)
  BY DEF Arrive, AcceptGone, DenyClient, Validate, CloseSocket, Receive, lists
<1>3. UNCHANGED <<pc, pos, last, scan, limit, targets, reported, failed, msg>>
  BY <1>1 DEF main, loop, remove, history
<1>4. Settled
  <2>1. /\ \A d \in Clients : d # c => client'[d] = client[d]
        /\ client[c] \in {"open", "closed"} => client'[c] \in {"closed", client[c]}
    BY DEF Arrive, AcceptGone, DenyClient, AllowClient, Validate, CloseSocket,
           Receive, TypeOK, peers, IsConnected
  <2> QED
    BY <2>1 DEF Settled, Accepted
<1>5. Positions'
  BY <1>2, <1>3, LenKept, PositionsKept
<1>6. Known'
  BY <1>2, <1>3, <1>4, AllowKnown, NothingNew
<1>7. BroadcastReaches'
  BY <1>1, <1>2, <1>4, BroadcastKept
<1>8. Senders'
  <2>1. CASE \E m \in Incoming : Receive(c, m)
    BY <2>1, <1>4, ReceiveSenders
  <2>2. CASE ~(\E m \in Incoming : Receive(c, m))
    <3>1. UNCHANGED qMessagesIn
      BY <2>2 DEF Arrive, AcceptGone, DenyClient, AllowClient, Validate, CloseSocket, lists
    <3> QED
      BY <3>1, <1>3, <1>4, SendersKept
  <2> QED
    BY <2>1, <2>2
<1> QED
  BY <1>5, <1>6, <1>7, <1>8, AsioType

LEMMA AcceptInv == ASSUME IInv, ConnectBack \/ Approve PROVE IInv'
<1> USE DEF IInv
<1>1. UNCHANGED <<client, deqConnections, qMessagesIn, main>>
  BY DEF ConnectBack, Approve, peers, lists
<1>2. UNCHANGED <<pc, pos, last, scan, limit, targets, reported, failed, msg>>
  BY <1>1 DEF main, loop, remove, history
<1>3. Settled
  BY <1>1 DEF Settled, Accepted
<1>4. Positions' /\ Known' /\ Senders' /\ BroadcastReaches'
  BY <1>1, <1>2, <1>3, LenKept, PositionsKept, NothingNew, SendersKept, BroadcastKept
<1> QED
  BY <1>4, AcceptType

LEMMA LifeInv == ASSUME IInv, Start \/ Stop \/ Destroy PROVE IInv'
<1> USE DEF IInv
<1>1. UNCHANGED <<client, lists, msg, loop, targets, reached, reported, failed>>
  BY DEF Start, Stop, Destroy, peers, lists, main, history
<1>2. Settled
  BY <1>1 DEF Settled, Accepted
<1>3. Known' /\ Senders'
  BY <1>1, <1>2, NothingNew, SendersKept DEF lists
<1>4. pc' \in {pc, "idle", "join", "gone"} /\ (pc' = pc \/ pc = "idle")
  BY DEF Start, Stop, Destroy, At, main
<1>5. Positions' /\ BroadcastReaches'
  BY <1>1, <1>4 DEF Positions, BroadcastReaches, lists, loop, remove, IsConnected
<1> QED
  BY <1>3, <1>5, LifeType

LEMMA StepInv == IInv /\ [Next]_vars => IInv'
<1> SUFFICES ASSUME IInv, [Next]_vars PROVE IInv'
  OBVIOUS
<1>1. CASE UNCHANGED vars
  <2>1. UNCHANGED <<peers, lists, runtime, asio, main, total>>
    BY <1>1 DEF vars
  <2> USE <2>1 DEF peers, lists, runtime, main, loop, remove, history
  <2>2. TypeOK' /\ Positions'
    BY DEF IInv, TypeOK, Positions
  <2>3. Settled
    BY DEF Settled, Accepted
  <2>4. Known' /\ Senders'
    BY <2>3, NothingNew, SendersKept DEF IInv
  <2>5. BroadcastReaches'
    BY DEF IInv, BroadcastReaches, IsConnected
  <2> QED
    BY <2>2, <2>4, <2>5 DEF IInv
<1>2. CASE Main
  BY <1>2, MainType, MainPositions, MainKnown, MainSenders, MainBroadcasts
  DEF IInv, Known
<1>3. CASE Start \/ Stop \/ Destroy
  BY <1>3, LifeInv
<1>4. CASE \E c \in Clients :
        \/ Arrive(c) \/ AcceptGone(c) \/ DenyClient(c) \/ AllowClient(c)
        \/ Validate(c) \/ CloseSocket(c)
        \/ \E m \in Incoming : Receive(c, m)
  BY <1>4, AsioInv
<1>5. CASE ConnectBack \/ Approve
  BY <1>5, AcceptInv
<1> QED
  BY <1>1, <1>2, <1>3, <1>4, <1>5 DEF Next, AcceptHandler

LEMMA Invariance == Spec => []IInv
  BY InitInv, StepInv, PTL DEF Spec

\* Every variable keeps its type; main never looks at a place that the list has not.
THEOREM TypeCorrect == Spec => []TypeOK
  BY Invariance, PTL DEF IInv

\* MessageAllClients misses no client that is connected from before its loop to its
\* end, while the asio thread appends to the list and closes sockets.
THEOREM BroadcastsReach == Spec => []BroadcastReaches
  BY Invariance, PTL DEF IInv

\* However often a client turns up dead, MessageAllClients tells OnClientDisconnect once,
\* and nobody tells it of a client that is connected.
THEOREM ReportsAreSingle == Spec => []ReportedOnce
<1>1. IInv => ReportedOnce
  <2> SUFFICES ASSUME IInv, NEW c \in Clients
               PROVE  reported[c] <= failed[c] + 1 /\ (reported[c] > 0 => ~IsConnected(c))
    BY DEF ReportedOnce
  <2>1. failed[c] \in Nat /\ (reported[c] = failed[c] \/ reported[c] = failed[c] + 1)
    BY DEF IInv, TypeOK, Known
  <2>2. reported[c] > 0 => client[c] = "closed"
    BY DEF IInv, Known
  <2> QED
    BY <2>1, <2>2 DEF IsConnected
<1> QED
  BY <1>1, Invariance, PTL

\* A client that MessageAllClients has reported is never in the list again.
THEOREM ReportsAreFinal == Spec => []ReportedIsRemoved
<1>1. IInv => ReportedIsRemoved
  BY DEF IInv, TypeOK, Known, ReportedIsRemoved
<1> QED
  BY <1>1, Invariance, PTL

-----------------------------------------------------------------------------
(* Identifiers.                                                            *)

IdInv == IInv /\ Ids

LEMMA AcceptedCount ==
    /\ IsFiniteSet(Accepted)
    /\ Cardinality(Accepted) \in Nat
    /\ Cardinality(Accepted) <= Cardinality(Clients)
    /\ Cardinality(Clients) \in Nat
<1>1. Accepted \subseteq Clients /\ IsFiniteSet(Clients)
  BY ClientsAssumption DEF Accepted
<1> QED
  BY <1>1, FS_Subset, FS_CardinalityType

\* What no step but those of the accept handler changes.
LEMMA IdsKept ==
    ASSUME Ids, Accepted' = Accepted, asio' = "connect" <=> asio = "connect",
           UNCHANGED <<id, nIDCounter>>,
           \A c \in Clients : stage'[c] # "none" => stage[c] # "none"
    PROVE  Ids'
<1>1. Given' = Given
  BY DEF Given
<1> QED
  BY <1>1 DEF Ids, IdsDiffer

LEMMA AllowIds ==
    ASSUME TypeOK, Ids, NEW c \in Clients, AllowClient(c)
    PROVE  Ids'
<1>1. Accepted' = Accepted \cup {c} /\ c \notin Accepted
  BY DEF AllowClient, Accepted, TypeOK
<1>2. Cardinality(Accepted') = Cardinality(Accepted) + 1
  BY <1>1, AcceptedCount, FS_AddElement
<1>3. asio = "idle" /\ asio' = "connect" /\ UNCHANGED <<stage, id, nIDCounter>>
  BY DEF AllowClient, Free, Handling
<1>4. Given' = Given
  BY <1>2, <1>3, AcceptedCount DEF Given
<1> QED
  BY <1>3, <1>4 DEF Ids, IdsDiffer

\* Fewer ids are given out than there are, so the counter has not come round yet.
LEMMA NthDiffers ==
    ASSUME NEW n \in Nat, n < IdModulus, NEW k \in 0..(n - 1)
    PROVE  Nth(k) # Nth(n)
  BY IdsAssumption DEF Nth

LEMMA NthNext ==
    ASSUME NEW n \in Nat, n < IdModulus
    PROVE  (Nth(n) + 1) % IdModulus = Nth(n + 1)
<1> DEFINE x == Nth(n)
<1>1. x \in Nat /\ x < IdModulus /\ Nth(n + 1) = IF x + 1 = IdModulus THEN 0 ELSE x + 1
  BY IdsAssumption DEF Nth
<1> HIDE DEF x
<1>2. x + 1 < IdModulus => (x + 1) % IdModulus = x + 1
  BY <1>1, IdsAssumption
<1>3. x + 1 = IdModulus => (x + 1) % IdModulus = 0
  BY <1>1, IdsAssumption
<1>4. x + 1 < IdModulus \/ x + 1 = IdModulus
  BY <1>1, IdsAssumption
<1>5. (x + 1) % IdModulus = Nth(n + 1)
  BY <1>1, <1>2, <1>3, <1>4
<1> QED
  BY <1>5 DEF x

LEMMA ConnectIds ==
    ASSUME Cardinality(Accepted) <= IdModulus, TypeOK, Ids, ConnectBack
    PROVE  Ids'
<1>1. asio = "connect" /\ asio' = "approve" /\ Accepted' = Accepted
  BY DEF ConnectBack, Handling, Accepted
<1>2. Given' = Given + 1 /\ Given \in Nat /\ Given < IdModulus
  BY <1>1, AcceptedCount, IdsAssumption DEF Given, Ids
<1>3. nIDCounter = Nth(Given) /\ nIDCounter' = Nth(Given')
  BY <1>2, NthNext DEF Ids, ConnectBack
<1>4. PICK n \in Nat : n = Given /\ n < IdModulus /\ n + 1 = Given' /\ nIDCounter = Nth(n)
  BY <1>2, <1>3
<1>5. PICK b : b = Back
  OBVIOUS
<1>6. \A c \in Clients : c # b => id'[c] = id[c] /\ stage'[c] = stage[c]
  BY <1>5 DEF ConnectBack, TypeOK
<1>7. \/ UNCHANGED <<id, stage>>
      \/ b \in Clients /\ id'[b] = nIDCounter
  BY <1>5, BackType DEF ConnectBack, TypeOK, Slots
<1>8. \A c \in Clients : stage[c] # "none" => \E k \in 0..(n - 1) : id[c] = Nth(k)
  BY <1>4 DEF Ids
<1>9. \A k \in 0..(n - 1) : k \in 0..n /\ Nth(k) # Nth(n)
  BY <1>4, NthDiffers
<1>10. \A c \in Clients : stage'[c] # "none" => \E k \in 0..n : id'[c] = Nth(k)
  <2> TAKE c \in Clients
  <2>1. CASE UNCHANGED <<id, stage>> \/ c # b
    BY <2>1, <1>6, <1>8, <1>9
  <2>2. CASE c = b /\ id'[b] = nIDCounter
    BY <2>2, <1>4
  <2> QED
    BY <2>1, <2>2, <1>7
<1>11. IdsDiffer'
  <2>1. CASE UNCHANGED <<id, stage>>
    BY <2>1 DEF Ids, IdsDiffer
  <2>2. CASE b \in Clients /\ id'[b] = nIDCounter
    <3>1. \A c \in Clients : c # b /\ stage'[c] # "none" => id'[c] # id'[b]
      BY <2>2, <1>4, <1>6, <1>8, <1>9
    <3> QED
      BY <3>1, <1>6 DEF Ids, IdsDiffer
  <2> QED
    BY <2>1, <2>2, <1>7
<1>12. Given' - 1 = n /\ Given' \in Nat
  BY <1>4
<1> QED
  BY <1>3, <1>10, <1>11, <1>12 DEF Ids

LEMMA IdsStep == Cardinality(Accepted) <= IdModulus /\ IdInv /\ [Next]_vars => IdInv'
<1> SUFFICES ASSUME Cardinality(Accepted) <= IdModulus, IdInv, [Next]_vars PROVE Ids'
  BY StepInv DEF IdInv
<1> USE DEF IdInv, IInv
<1>1. CASE UNCHANGED vars
  <2>1. Accepted' = Accepted /\ UNCHANGED <<asio, id, nIDCounter, stage>>
    BY <1>1 DEF vars, peers, Accepted
  <2> QED
    BY <2>1, IdsKept
<1>2. CASE Main
  <2>1. UNCHANGED <<asio, id, nIDCounter, stage>>
    BY <1>2 DEF Main, Tidy, Join, PopMessage, OnMessage, Bounce, MessageClient, MessageAllClients,
                MessageNext, LoopEnd, RemoveBegin, RemoveNext, RemoveEnd, EraseEnd,
                EraseReversed, peers
  <2> QED
    BY <1>2, <2>1, MainSettled, IdsKept
<1>3. CASE Start \/ Stop \/ Destroy
  <2>1. Accepted' = Accepted /\ UNCHANGED <<asio, id, nIDCounter, stage>>
    BY <1>3 DEF Start, Stop, Destroy, peers, Accepted
  <2> QED
    BY <2>1, IdsKept
<1>4. ASSUME NEW c \in Clients,
             Arrive(c) \/ AcceptGone(c) \/ DenyClient(c) \/ Validate(c) \/ CloseSocket(c)
                \/ \E m \in Incoming : Receive(c, m)
      PROVE  Ids'
  <2>1. UNCHANGED <<asio, id, nIDCounter>>
    BY <1>4 DEF Arrive, AcceptGone, DenyClient, Validate, CloseSocket, Receive, peers
  <2>2. \A d \in Clients : stage'[d] # "none" => stage[d] # "none"
    BY <1>4 DEF Arrive, AcceptGone, DenyClient, Validate, CloseSocket, Receive, peers, TypeOK
  <2>3. \A d \in Clients : client'[d] \in {"open", "closed"} <=> client[d] \in {"open", "closed"}
    BY <1>4 DEF Arrive, AcceptGone, DenyClient, Validate, CloseSocket, Receive, peers,
                TypeOK, IsConnected
  <2>4. Accepted' = Accepted
    BY <2>3 DEF Accepted
  <2> QED
    BY <2>1, <2>2, <2>4, IdsKept
<1>5. CASE \E c \in Clients : AllowClient(c)
  BY <1>5, AllowIds
<1>6. CASE ConnectBack
  BY <1>6, ConnectIds
<1>7. CASE Approve
  <2>1. asio = "approve" /\ asio' = "idle" /\ Accepted' = Accepted
        /\ UNCHANGED <<id, nIDCounter, stage>>
    BY <1>7 DEF Approve, Handling, peers, Accepted
  <2> QED
    BY <2>1, IdsKept
<1> QED
  BY <1>1, <1>2, <1>3, <1>4, <1>5, <1>6, <1>7 DEF Next, AcceptHandler

LEMMA InitIds == Init => IdInv
<1> SUFFICES ASSUME Init PROVE Ids
  BY InitInv DEF IdInv
<1>1. Accepted = {}
  BY DEF Init, Accepted
<1>2. Given = 0
  BY <1>1, FS_EmptySet DEF Given, Init
<1>3. nIDCounter = Nth(0)
  BY IdsAssumption DEF Init, Nth
<1> QED
  BY <1>2, <1>3 DEF Init, Ids, IdsDiffer

LEMMA AcceptedGrows ==
    ASSUME IInv, [Next]_vars
    PROVE  Accepted \subseteq Accepted'
<1> USE DEF IInv
<1>1. CASE Main
  BY <1>1, MainSettled
<1>2. CASE UNCHANGED client
  BY <1>2 DEF Accepted
<1>3. ASSUME NEW c \in Clients, client[c] \notin {"open", "closed"} \/ client'[c] = "closed",
             \A d \in Clients : d # c => client'[d] = client[d]
      PROVE  Accepted \subseteq Accepted'
  BY <1>3 DEF Accepted
<1>4. ASSUME NEW c \in Clients,
             Arrive(c) \/ AcceptGone(c) \/ DenyClient(c) \/ AllowClient(c) \/ CloseSocket(c)
      PROVE  Accepted \subseteq Accepted'
  <2>1. /\ client[c] \notin {"open", "closed"} \/ client'[c] = "closed"
        /\ \A d \in Clients : d # c => client'[d] = client[d]
    BY <1>4 DEF Arrive, AcceptGone, DenyClient, AllowClient, CloseSocket, TypeOK
  <2> QED
    BY <2>1, <1>3
<1>5. CASE UNCHANGED vars \/ ConnectBack \/ Approve \/ Start \/ Stop \/ Destroy
           \/ \E c \in Clients : Validate(c) \/ \E m \in Incoming : Receive(c, m)
  BY <1>2, <1>5 DEF vars, peers, ConnectBack, Approve, Start, Stop, Destroy, Validate, Receive
<1> QED
  BY <1>1, <1>4, <1>5 DEF Next, AcceptHandler

\* As long as no more clients have been accepted than there are ids, no two have the
\* same: not when the last connection of the list is not the one just accepted, either.
THEOREM IdsAreUnique == Spec => []UniqueIds
<1> DEFINE EnoughSoFar == Cardinality(Accepted) <= IdModulus
           Inv == IInv /\ (EnoughSoFar => Ids)
<1>1. Init => Inv
  BY InitIds DEF IdInv
<1>2. Inv /\ [Next]_vars => Inv'
  <2> SUFFICES ASSUME Inv, [Next]_vars, EnoughSoFar' PROVE Ids'
    BY StepInv
  <2>1. IsFiniteSet(Accepted')
    <3>1. Accepted' \subseteq Clients
      BY DEF Accepted
    <3> QED
      BY <3>1, ClientsAssumption, FS_Subset
  <2>2. EnoughSoFar
    <3>1. Cardinality(Accepted) <= Cardinality(Accepted')
      BY <2>1, AcceptedGrows, FS_Subset
    <3>2. Cardinality(Accepted) \in Nat /\ Cardinality(Accepted') \in Nat
      BY <2>1, AcceptedCount, FS_CardinalityType
    <3> QED
      BY <3>1, <3>2, IdsAssumption
  <2> QED
    BY <2>2, IdsStep DEF IdInv
<1>3. Inv => UniqueIds
  BY DEF UniqueIds, Ids
<1> QED
  BY <1>1, <1>2, <1>3, PTL DEF Spec
=============================================================================
