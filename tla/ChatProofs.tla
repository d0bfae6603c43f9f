----------------------------- MODULE ChatProofs -----------------------------
(***************************************************************************)
(* Theorems about Chat: what the clients of a CustomServer can rely on,    *)
(* for any number of them.                                                 *)
(***************************************************************************)
EXTENDS Chat, ServerProofs

Welcome == NewMessage("ServerAccept")

Hello(n) == [id |-> "ServerMessage", size |-> 1, body |-> <<n>>]

Hellos == {Hello(n) : n \in Nat}

\* What CustomServer sends: pings come back as they were sent.
Letters == Incoming \cup Hellos \cup {Welcome}

ChatTypes ==
    /\ toServer \in [Clients -> Seq(Incoming)]
    /\ toClient \in [Clients -> Seq(Letters)]
    /\ asked \in [Clients -> Seq(Incoming)]
    /\ got \in [Clients -> Seq(Letters)]

\* What main has in its hands.
InHand ==
    /\ pc \in {"handle", "loop"} => msg \in OwnedMessages
    /\ pc = "loop" => hello \in Hellos

\* ServerAccept is sent to a client by the step that opens its connection.
Welcomed ==
    \A c \in Clients :
        /\ c \in Accepted <=> Sent(c) # <<>>
        /\ \A i \in DOMAIN Sent(c) : Sent(c)[i].id = "ServerAccept" <=> i = 1

\* No id is given out twice.
EnoughIds == Cardinality(Clients) <= IdModulus

ChatInv == IInv /\ ChatTypes /\ InHand /\ Welcomed

-----------------------------------------------------------------------------
(* Messages.                                                               *)

LEMMA PushShort ==
    ASSUME NEW i, NEW data \in Seq(Nat), Len(data) <= 2
    PROVE  Push(NewMessage(i), data) = [id |-> i, size |-> Len(data), body |-> data]
<1> DEFINE n == Len(data)
<1>1. <<>> \o data = data /\ n \in Nat
  BY ConcatEmptySeq, LenProperties
<1> HIDE DEF n
<1>2. n % SizeModulus = n
  BY <1>1, SizeAssumption, WidthAssumption DEF n
<1> DEFINE m == [id |-> i, size |-> 0, body |-> <<>>]
<1>3. Push(m, data) = WithBody(m, data)
  BY <1>1 DEF Push
<1>4. WithBody(m, data) = [m EXCEPT !.body = data, !.size = n]
  BY <1>2 DEF WithBody, n
<1>5. [m EXCEPT !.body = data, !.size = n] = [id |-> i, size |-> n, body |-> data]
  <2> DEFINE r == [m EXCEPT !.body = data]
  <2>1. r = [id |-> i, size |-> 0, body |-> data]
    OBVIOUS
  <2>2. [m EXCEPT !.body = data, !.size = n] = [r EXCEPT !.size = n]
    OBVIOUS
  <2> HIDE DEF r
  <2> QED
    BY <2>1, <2>2
<1> QED
  BY <1>3, <1>4, <1>5 DEF NewMessage, n

LEMMA HelloForm == \A n \in Nat : Push(NewMessage("ServerMessage"), <<n>>) = Hello(n)
<1> TAKE n \in Nat
<1>1. <<n>> \in Seq(Nat) /\ Len(<<n>>) = 1 /\ Len(<<n>>) <= 2
  OBVIOUS
<1>2. PICK data : data = <<n>>
  OBVIOUS
<1>3. Push(NewMessage("ServerMessage"), data)
        = [id |-> "ServerMessage", size |-> Len(data), body |-> data]
  BY <1>1, <1>2, PushShort
<1> QED
  BY <1>1, <1>2, <1>3 DEF Hello

LEMMA MessageForms ==
    /\ MessageAll = [id |-> "MessageAll", size |-> 0, body |-> <<>>]
    /\ Welcome = [id |-> "ServerAccept", size |-> 0, body |-> <<>>]
    /\ \A n \in Nat : ServerPing(n) = [id |-> "ServerPing", size |-> 2, body |-> <<n, n>>]
    /\ \A c : id[c] \in Nat =>
            ServerMessage(c) = Hello(id[c])
<1>1. \A n \in Nat : /\ <<n, n>> \in Seq(Nat) /\ Len(<<n, n>>) = 2
                     /\ <<n>> \in Seq(Nat) /\ Len(<<n>>) = 1
  OBVIOUS
<1>2. \A n \in Nat : ServerPing(n) = [id |-> "ServerPing", size |-> 2, body |-> <<n, n>>]
  <2> TAKE n \in Nat
  <2>1. Len(<<n, n>>) <= 2
    BY <1>1
  <2> QED
    BY <1>1, <2>1, PushShort DEF ServerPing, Time
<1>3. ASSUME NEW c, id[c] \in Nat
      PROVE  ServerMessage(c) = Hello(id[c])
  BY <1>3, HelloForm DEF ServerMessage, GetID
<1> QED
  BY <1>2, <1>3 DEF MessageAll, Welcome, NewMessage

\* Who sends what can be told from the kind of a message.
LEMMA Kinds ==
    /\ \A m \in Incoming : m.id \in {"MessageAll", "ServerPing"}
    /\ \A m \in Hellos : m.id = "ServerMessage"
    /\ Welcome.id = "ServerAccept"
    /\ \A m \in Letters : m.size = Len(m.body)
    /\ \A m \in Letters : m.id = "ServerPing" => Len(m.body) = 2
    /\ \A m \in Letters : m.id = "ServerMessage" => Len(m.body) = 1
<1>1. \A m \in Incoming :
        \/ m = [id |-> "MessageAll", size |-> 0, body |-> <<>>]
        \/ \E n \in Nat : m = [id |-> "ServerPing", size |-> 2, body |-> <<n, n>>]
  BY AskedAssumption, MessageForms
<1>2. \A m \in Incoming : /\ m.id \in {"MessageAll", "ServerPing"} /\ m.size = Len(m.body)
                          /\ m.id = "ServerPing" => Len(m.body) = 2
  <2> TAKE m \in Incoming
  <2>1. CASE m = [id |-> "MessageAll", size |-> 0, body |-> <<>>]
    BY <2>1
  <2>2. ASSUME NEW n \in Nat, m = [id |-> "ServerPing", size |-> 2, body |-> <<n, n>>]
        PROVE  m.id = "ServerPing" /\ m.size = 2 /\ Len(m.body) = 2
    BY <2>2
  <2> QED
    BY <1>1, <2>1, <2>2
<1>3. \A m \in Hellos : m.id = "ServerMessage" /\ m.size = 1 /\ Len(m.body) = 1
  BY DEF Hellos, Hello
<1>4. Welcome.id = "ServerAccept" /\ Welcome.size = 0 /\ Len(Welcome.body) = 0
  BY MessageForms
<1> QED
  BY <1>2, <1>3, <1>4 DEF Letters
-----------------------------------------------------------------------------
(* Chat uses Server.                                                       *)

\* What a step of Chat is to Server; the messages that are received are those
\* that clients send.
LEMMA ChatStepServes ==
    ASSUME ChatTypes, ChatNext
    PROVE  [Next]_vars
<1>1. ASSUME NEW c \in Clients, ChatReceive(c) PROVE Next
  <2>1. Head(toServer[c]) \in Incoming
    BY <1>1, HeadTailProperties DEF ChatReceive, ChatTypes
  <2> QED
    BY <1>1, <2>1 DEF ChatReceive, Next
<1>2. ASSUME NEW c \in Clients,
             \/ Ask(c, ServerPing(Len(asked[c]) + 1)) \/ Ask(c, MessageAll) \/ Handle(c)
      PROVE  UNCHANGED vars
  BY <1>2 DEF Ask, Handle
<1>3. ASSUME NEW c \in Clients,
             ChatValidate(c) \/ Unnoticed(Arrive(c)) \/ Unnoticed(CloseSocket(c))
      PROVE  Next
  BY <1>3 DEF ChatValidate, Unnoticed, Next
<1>4. CASE ChatAccepts
  BY <1>4 DEF ChatAccepts, ChatConnect, ChatAllow, Unnoticed, Next, AcceptHandler
<1>5. CASE ChatMain
  BY <1>5 DEF ChatMain, ChatBounce, ChatMessageAll, ChatMessageNext, ChatEnd, Unnoticed,
              Next, Main, OnMessage
<1>6. CASE Unnoticed(Start) \/ Unnoticed(Stop)
  BY <1>6 DEF Unnoticed, Next
<1> QED
  BY <1>1, <1>2, <1>3, <1>4, <1>5, <1>6 DEF ChatNext

-----------------------------------------------------------------------------
(* What a step does to what is sent to the clients.                        *)

LEMMA ConcatAppend ==
    ASSUME NEW S, NEW g \in Seq(S), NEW t \in Seq(S), NEW m \in S
    PROVE  g \o Append(t, m) = Append(g \o t, m)
<1>1. g \o t \in Seq(S) /\ Append(t, m) \in Seq(S)
  BY ConcatProperties, AppendProperties
<1>2. Append(t, m) = t \o <<m>> /\ Append(g \o t, m) = (g \o t) \o <<m>>
  BY <1>1, AppendIsConcat
<1>3. <<m>> \in Seq(S)
  OBVIOUS
<1> QED
  BY <1>2, <1>3, ConcatAssociative

LEMMA ConcatShift ==
    ASSUME NEW S, NEW g \in Seq(S), NEW t \in Seq(S), t # <<>>
    PROVE  Append(g, Head(t)) \o Tail(t) = g \o t
<1>1. Head(t) \in S /\ Tail(t) \in Seq(S)
  BY HeadTailProperties
<1>2. Append(g, Head(t)) = g \o <<Head(t)>> /\ <<Head(t)>> \in Seq(S)
  BY <1>1, AppendIsConcat
<1>3. <<Head(t)>> \o Tail(t) = t
  <2> DEFINE u == <<Head(t)>> \o Tail(t)
             n == Len(t)
  <2>1. n \in Nat /\ n >= 1 /\ Len(<<Head(t)>>) = 1 /\ Len(Tail(t)) = n - 1 /\ Head(t) = t[1]
    BY EmptySeq, LenProperties, HeadTailProperties
  <2>2. /\ u \in Seq(S) /\ Len(u) = n
        /\ \A i \in 1..n : u[i] = IF i <= 1 THEN <<Head(t)>>[i] ELSE Tail(t)[i - 1]
    BY <1>1, <1>2, <2>1, ConcatProperties
  <2>3. \A i \in 1..n : i # 1 => Tail(t)[i - 1] = t[i]
    BY <2>1, HeadTailProperties
  <2> HIDE DEF u
  <2>4. \A i \in 1..n : u[i] = t[i]
    BY <2>1, <2>2, <2>3
  <2> QED
    BY <2>2, <2>4, SeqEqual DEF u
<1> QED
  BY <1>1, <1>2, <1>3, ConcatAssociative

LEMMA SendTypes ==
    ASSUME ChatTypes, NEW set, NEW m \in Letters, SendTo(set, m)
    PROVE  /\ toClient' \in [Clients -> Seq(Letters)]
           /\ \A c \in Clients :
                toClient'[c] \in {toClient[c], Append(toClient[c], m)}
           /\ \A c \in Clients :
                toClient'[c] # toClient[c] => c \in set /\ IsConnected(c)
<1>1. \A c \in Clients : Append(toClient[c], m) \in Seq(Letters) /\ toClient[c] \in Seq(Letters)
  BY AppendProperties DEF ChatTypes
<1>2. \A c \in Clients : toClient'[c] = IF c \in set /\ IsConnected(c)
                                        THEN Append(toClient[c], m) ELSE toClient[c]
  BY DEF SendTo
<1> QED
  BY <1>1, <1>2 DEF SendTo

\* Nothing is sent, or something is that is no welcome, to clients that are connected.
LEMMA SentLater ==
    ASSUME ChatTypes, Welcomed, Accepted' = Accepted, UNCHANGED got,
           NEW m \in Letters, m.id # "ServerAccept",
           \A c \in Clients :
                \/ toClient'[c] = toClient[c]
                \/ toClient'[c] = Append(toClient[c], m) /\ IsConnected(c)
    PROVE  Welcomed'
<1> SUFFICES ASSUME NEW c \in Clients
             PROVE  /\ c \in Accepted <=> Sent(c)' # <<>>
                    /\ \A i \in DOMAIN Sent(c)' : Sent(c)'[i].id = "ServerAccept" <=> i = 1
  BY DEF Welcomed
<1>1. CASE toClient'[c] = toClient[c]
  <2>1. Sent(c)' = Sent(c)
    BY <1>1 DEF Sent
  <2> QED
    BY <2>1 DEF Welcomed
<1>2. CASE toClient'[c] = Append(toClient[c], m) /\ IsConnected(c)
  <2>1. got[c] \in Seq(Letters) /\ toClient[c] \in Seq(Letters)
    BY DEF ChatTypes
  <2>2. Sent(c)' = Append(Sent(c), m)
    <3>1. got[c] \o Append(toClient[c], m) = Append(got[c] \o toClient[c], m)
      <4> DEFINE g == got[c]
                 q == toClient[c]
      <4>1. g \in Seq(Letters) /\ q \in Seq(Letters) /\ m \in Letters
        BY <2>1
      <4> HIDE DEF g, q
      <4>2. g \o Append(q, m) = Append(g \o q, m)
        BY <4>1, ConcatAppend
      <4> QED
        BY <4>2 DEF g, q
    <3> QED
      BY <1>2, <3>1 DEF Sent
  <2>3. c \in Accepted /\ Sent(c) # <<>>
    BY <1>2 DEF Accepted, IsConnected, Welcomed
  <2> DEFINE s == Sent(c)
             n == Len(s)
  <2>4. s \in Seq(Letters) /\ n \in Nat /\ n # 0 /\ DOMAIN s = 1..n
    BY <2>1, <2>3, ConcatProperties, LenProperties, EmptySeq DEF Sent
  <2>5. \A i \in 1..n : s[i].id = "ServerAccept" <=> i = 1
    BY <2>4 DEF Welcomed
  <2>6. /\ Sent(c)' # <<>> /\ DOMAIN Sent(c)' = 1..(n + 1) /\ Sent(c)'[n + 1] = m
        /\ \A i \in 1..n : Sent(c)'[i] = s[i]
    BY <2>2, <2>4, AppendProperties, LenProperties
  <2> HIDE DEF s, n
  <2>7. \A i \in 1..(n + 1) : Sent(c)'[i].id = "ServerAccept" <=> i = 1
    <3> TAKE i \in 1..(n + 1)
    <3>1. CASE i = n + 1
      BY <2>4, <2>6, <3>1
    <3>2. CASE i \in 1..n
      BY <2>5, <2>6, <3>2
    <3> QED
      BY <2>4, <3>1, <3>2
  <2> QED
    BY <2>3, <2>6, <2>7
<1> QED
  BY <1>1, <1>2

LEMMA HandledWelcomed ==
    ASSUME ChatTypes, Welcomed, NEW c \in Clients, Handle(c)
    PROVE  Welcomed' /\ ChatTypes'
<1>1. got[c] \in Seq(Letters) /\ toClient[c] \in Seq(Letters) /\ toClient[c] # <<>>
  BY DEF ChatTypes, Handle
<1>2. /\ got' = [got EXCEPT ![c] = Append(got[c], Head(toClient[c]))]
      /\ toClient' = [toClient EXCEPT ![c] = Tail(toClient[c])]
      /\ UNCHANGED <<vars, toServer, asked>>
  BY DEF Handle
<1>3. Accepted' = Accepted
  BY <1>2 DEF vars, peers, Accepted
<1>4. Append(got[c], Head(toClient[c])) \o Tail(toClient[c]) = got[c] \o toClient[c]
  BY <1>1, ConcatShift
<1>5. \A d \in Clients : Sent(d)' = Sent(d)
  <2> TAKE d \in Clients
  <2>1. CASE d = c
    BY <1>2, <1>4, <2>1 DEF Sent, ChatTypes
  <2>2. CASE d # c
    BY <1>2, <2>2 DEF Sent, ChatTypes
  <2> QED
    BY <2>1, <2>2
<1>6. Head(toClient[c]) \in Letters /\ Tail(toClient[c]) \in Seq(Letters)
  BY <1>1, HeadTailProperties
<1>7. Append(got[c], Head(toClient[c])) \in Seq(Letters)
  BY <1>1, <1>6, AppendProperties
<1> QED
  BY <1>2, <1>3, <1>5, <1>6, <1>7 DEF Welcomed, ChatTypes

\* A client is welcomed when it is accepted, and nothing was sent to it before.
LEMMA AllowWelcomed ==
    ASSUME TypeOK, ChatTypes, Welcomed, NEW c \in Clients, ChatAllow(c)
    PROVE  Welcomed' /\ ChatTypes'
<1>1. /\ client[c] = "waiting" /\ client' = [client EXCEPT ![c] = "open"]
      /\ toClient' = [toClient EXCEPT ![c] = <<Welcome>>]
      /\ UNCHANGED <<toServer, asked, got>>
  BY DEF ChatAllow, AllowClient, Accepts, clients, told, Welcome
<1>2. Sent(c) = <<>> /\ got[c] \in Seq(Letters) /\ toClient[c] \in Seq(Letters)
  BY <1>1 DEF Welcomed, Accepted, ChatTypes
<1>3. got[c] = <<>>
  BY <1>2, ConcatProperties, LenProperties, EmptySeq DEF Sent
<1>4. Welcome \in Letters /\ <<Welcome>> \in Seq(Letters) /\ Welcome.id = "ServerAccept"
  BY Kinds DEF Letters
<1>5. Sent(c)' = <<Welcome>>
  BY <1>1, <1>3, <1>4, ConcatEmptySeq DEF Sent, ChatTypes
<1>6. c \in Accepted' /\ \A d \in Clients : d # c => (d \in Accepted' <=> d \in Accepted)
  BY <1>1 DEF Accepted, TypeOK
<1>7. \A d \in Clients : d # c => Sent(d)' = Sent(d)
  BY <1>1 DEF Sent, ChatTypes
<1>8. ChatTypes'
  BY <1>1, <1>4 DEF ChatTypes
<1>9. Welcomed'
  <2> SUFFICES ASSUME NEW d \in Clients
               PROVE  /\ d \in Accepted' <=> Sent(d)' # <<>>
                      /\ \A i \in DOMAIN Sent(d)' : Sent(d)'[i].id = "ServerAccept" <=> i = 1
    BY DEF Welcomed
  <2>1. CASE d = c
    BY <1>4, <1>5, <1>6, <2>1
  <2>2. CASE d # c
    BY <1>6, <1>7, <2>2 DEF Welcomed
  <2> QED
    BY <2>1, <2>2
<1> QED
  BY <1>8, <1>9

\* No other step accepts a client.
LEMMA AcceptedKept ==
    ASSUME IInv, ChatNext, \A c \in Clients : ~ChatAllow(c)
    PROVE  Accepted' = Accepted
<1>1. CASE UNCHANGED client
  BY <1>1 DEF Accepted
<1>2. CASE Main
  BY <1>2, MainSettled DEF IInv
<1>3. CASE \E c \in Clients : Arrive(c) \/ CloseSocket(c)
  <2>1. \A d \in Clients : client'[d] \in {"open", "closed"} <=> client[d] \in {"open", "closed"}
    BY <1>3 DEF Arrive, CloseSocket, IsConnected, IInv, TypeOK
  <2> QED
    BY <2>1 DEF Accepted
<1> QED
  BY <1>1, <1>2, <1>3
  DEF ChatNext, ChatAccepts, ChatConnect, ChatMain, ChatValidate, ChatReceive, ChatBounce,
      ChatMessageAll, ChatMessageNext, ChatEnd, Unnoticed, Main, OnMessage, Ask, Handle,
      Validate, Receive, ConnectBack, Approve, Start, Stop, vars, peers

\* What main has in its hands when it comes to a message or into the loop.
LEMMA InHandStep ==
    ASSUME IInv, ChatTypes, InHand, ChatNext
    PROVE  InHand'
<1>1. CASE Unnoticed(PopMessage)
  <2>1. Head(qMessagesIn) \in OwnedMessages
    BY <1>1, HeadTailProperties DEF Unnoticed, PopMessage, IInv, TypeOK
  <2> QED
    BY <1>1, <2>1 DEF Unnoticed, PopMessage, InHand
<1>2. CASE ChatMessageAll
  <2>1. msg \in OwnedMessages /\ msg' = msg /\ hello' = ServerMessage(msg.remote)
    BY <1>2 DEF ChatMessageAll, MessageAllClients, At, InHand
  <2>2. id[msg.remote] \in Nat
    BY <2>1 DEF OwnedMessages, IInv, TypeOK
  <2>3. hello' \in Hellos
    BY <2>1, <2>2, MessageForms DEF Hellos
  <2> QED
    BY <2>1, <2>3 DEF InHand
<1>3. CASE pc' \notin {"handle", "loop"}
  BY <1>3 DEF InHand
<1>4. CASE UNCHANGED <<pc, msg, hello>>
  BY <1>4 DEF InHand
<1> QED
  BY <1>1, <1>2, <1>3, <1>4
  DEF ChatNext, ChatAccepts, ChatConnect, ChatMain, ChatAllow, ChatValidate, ChatReceive,
      ChatBounce, ChatMessageNext, ChatEnd, Unnoticed, Ask, Handle, Arrive, CloseSocket,
      Validate, Receive, AllowClient, ConnectBack, Approve, Start, Stop, Join, Bounce,
      MessageNext, LoopEnd, EraseEnd, Return, EraseCall, Tidy, RemoveBegin, RemoveNext,
      RemoveEnd, EraseReversed, vars, main, chat

LEMMA AskTypes ==
    ASSUME ChatTypes, NEW c \in Clients,
           Ask(c, ServerPing(Len(asked[c]) + 1)) \/ Ask(c, MessageAll)
    PROVE  /\ \E m \in Incoming : Ask(c, m)
           /\ ChatTypes'
<1>1. Len(asked[c]) \in Nat /\ MaxAsks[c] \in Nat /\ Len(asked[c]) < MaxAsks[c]
  BY AskedAssumption, LenProperties DEF ChatTypes, Ask
<1>2. Len(asked[c]) + 1 \in 1..MaxAsks[c]
  BY <1>1
<1>3. ServerPing(Len(asked[c]) + 1) \in Incoming /\ MessageAll \in Incoming
  BY <1>2, AskedAssumption
<1>4. PICK m \in Incoming : Ask(c, m)
  BY <1>3
<1>5. Append(asked[c], m) \in Seq(Incoming) /\ Append(toServer[c], m) \in Seq(Incoming)
  BY AppendProperties DEF ChatTypes
<1> QED
  BY <1>4, <1>5 DEF Ask, ChatTypes

\* A server's step that sends something, and what it sends.
LEMMA ServerSends ==
    ASSUME ChatTypes, InHand, NEW set, NEW m,
           \/ SendTo(set, m) /\ ChatMessageNext /\ m = hello
           \/ SendTo(set, m) /\ m = msg.msg /\ \E c \in Clients : ChatBounce(c)
    PROVE  m \in Letters /\ m.id # "ServerAccept"
<1>1. CASE ChatMessageNext /\ m = hello
  BY <1>1, Kinds DEF ChatMessageNext, MessageNext, At, InHand, Letters
<1>2. CASE m = msg.msg /\ \E c \in Clients : ChatBounce(c)
  <2>1. msg \in OwnedMessages
    BY <1>2 DEF ChatBounce, Bounce, At, InHand
  <2> QED
    BY <1>2, <2>1, Kinds DEF OwnedMessages, Letters
<1> QED
  BY <1>1, <1>2

LEMMA SendStep ==
    ASSUME IInv, ChatTypes, InHand, Welcomed,
           ChatMessageNext \/ \E c \in Clients : ChatBounce(c)
    PROVE  Welcomed' /\ ChatTypes'
<1>1. Accepted' = Accepted /\ UNCHANGED <<toServer, asked, got>>
  <2>1. Main /\ UNCHANGED clients
    BY DEF ChatMessageNext, ChatBounce, Main, OnMessage
  <2> QED
    BY <2>1, MainSettled DEF IInv, clients, told
<1>2. PICK set, m : SendTo(set, m) /\ m \in Letters /\ m.id # "ServerAccept"
  <2>1. CASE ChatMessageNext
    BY <2>1, ServerSends DEF ChatMessageNext
  <2>2. CASE \E c \in Clients : ChatBounce(c)
    BY <2>2, ServerSends DEF ChatBounce
  <2> QED
    BY <2>1, <2>2
<1>3. /\ toClient' \in [Clients -> Seq(Letters)]
      /\ \A c \in Clients :
            \/ toClient'[c] = toClient[c]
            \/ toClient'[c] = Append(toClient[c], m) /\ IsConnected(c)
  BY <1>2, SendTypes
<1>4. Welcomed'
  BY <1>1, <1>2, <1>3, SentLater
<1> QED
  BY <1>1, <1>3, <1>4 DEF ChatTypes

\* The steps that send nothing.
LEMMA SilentStep ==
    ASSUME IInv, ChatTypes, Welcomed, Accepted' = Accepted,
           UNCHANGED <<toClient, asked, got>>, toServer' \in [Clients -> Seq(Incoming)]
    PROVE  Welcomed' /\ ChatTypes'
  BY DEF Welcomed, ChatTypes, Sent

LEMMA ReceiveStep ==
    ASSUME IInv, ChatTypes, Welcomed, NEW c \in Clients, ChatReceive(c)
    PROVE  Welcomed' /\ ChatTypes'
<1>1. toServer' = [toServer EXCEPT ![c] = Tail(toServer[c])] /\ toServer[c] # <<>>
  BY DEF ChatReceive
<1>2. Tail(toServer[c]) \in Seq(Incoming)
  BY <1>1, HeadTailProperties DEF ChatTypes
<1>3. Accepted' = Accepted /\ UNCHANGED <<toClient, asked, got>>
  BY DEF ChatReceive, Receive, peers, Accepted, told
<1> QED
  BY <1>1, <1>2, <1>3, SilentStep DEF ChatTypes

\* The client learns nothing when it is validated.
LEMMA ValidateStep ==
    ASSUME IInv, ChatTypes, Welcomed, NEW c \in Clients, ChatValidate(c)
    PROVE  Welcomed' /\ ChatTypes'
<1>1. SendTo({}, Welcome) /\ Accepted' = Accepted /\ UNCHANGED <<toServer, asked, got>>
  BY DEF ChatValidate, Accepts, Welcome, Validate, clients, told, Accepted
<1>2. toClient' = toClient
  BY <1>1 DEF SendTo, ChatTypes
<1> QED
  BY <1>1, <1>2, SilentStep DEF ChatTypes

LEMMA ChatStep == ChatInv /\ [ChatNext]_chatVars => ChatInv'
<1> SUFFICES ASSUME ChatInv, [ChatNext]_chatVars PROVE ChatInv'
  OBVIOUS
<1> USE DEF ChatInv
<1>1. CASE UNCHANGED chatVars
  <2>1. UNCHANGED <<vars, toServer, toClient, hello, asked, got>>
    BY <1>1 DEF chatVars, chat, clients, told
  <2>2. IInv'
    BY <2>1, StepInv
  <2>3. UNCHANGED <<client, pc, msg>>
    BY <2>1 DEF vars, peers, main
  <2> QED
    BY <2>1, <2>2, <2>3 DEF ChatTypes, InHand, Welcomed, Sent, Accepted
<1>2. CASE ChatNext
  <2>1. IInv'
    BY <1>2, ChatStepServes, StepInv
  <2>2. InHand'
    BY <1>2, InHandStep
  <2>3. Welcomed' /\ ChatTypes'
    <3>1. CASE \E c \in Clients : ChatAllow(c)
      BY <3>1, AllowWelcomed DEF IInv
    <3>2. CASE ChatMessageNext \/ \E c \in Clients : ChatBounce(c)
      BY <3>2, SendStep
    <3>3. CASE \E c \in Clients : Handle(c)
      BY <3>3, HandledWelcomed
    <3>4. CASE \E c \in Clients : ChatReceive(c)
      BY <3>4, ReceiveStep
    <3>5. CASE \E c \in Clients : ChatValidate(c)
      BY <3>5, ValidateStep
    <3>6. ASSUME NEW c \in Clients,
                 Ask(c, ServerPing(Len(asked[c]) + 1)) \/ Ask(c, MessageAll)
          PROVE  Welcomed' /\ ChatTypes'
      <4>1. ChatTypes' /\ UNCHANGED <<vars, toClient, got>>
        BY <3>6, AskTypes DEF Ask
      <4> QED
        BY <4>1 DEF Welcomed, Sent, Accepted, vars, peers
    <3>7. CASE /\ UNCHANGED <<toServer, toClient, asked, got>>
               /\ \A c \in Clients : ~ChatAllow(c)
      BY <1>2, <3>7, AcceptedKept, SilentStep DEF ChatTypes
    <3> QED
      BY <1>2, <3>1, <3>2, <3>3, <3>4, <3>5, <3>6, <3>7
      DEF ChatNext, ChatAccepts, ChatConnect, ChatMain, Unnoticed, ChatMessageAll, ChatEnd,
          chat, clients, told
  <2> QED
    BY <2>1, <2>2, <2>3
<1> QED
  BY <1>1, <1>2

LEMMA InitChat == ChatInit => ChatInv
<1> SUFFICES ASSUME ChatInit PROVE ChatInv
  OBVIOUS
<1>1. IInv
  BY InitInv DEF ChatInit
<1>2. ChatTypes
  BY EmptySeq DEF ChatInit, ChatTypes
<1>3. InHand
  BY DEF ChatInit, Init, InHand
<1>4. Welcomed
  <2>1. \A c \in Clients : c \notin Accepted /\ Sent(c) = <<>>
    BY DEF ChatInit, Init, Accepted, Sent
  <2> QED
    BY <2>1 DEF Welcomed
<1> QED
  BY <1>1, <1>2, <1>3, <1>4 DEF ChatInv

LEMMA AlwaysChatInv == ChatSpec => []ChatInv
  BY InitChat, ChatStep, PTL DEF ChatSpec

-----------------------------------------------------------------------------
(* Counting messages.                                                      *)

Occurs(s, m) == {i \in DOMAIN s : s[i] = m}

LEMMA OccursFinite ==
    ASSUME NEW S, NEW s \in Seq(S), NEW m
    PROVE  IsFiniteSet(Occurs(s, m)) /\ Count(s, m) \in Nat
<1>1. Len(s) \in Nat /\ Occurs(s, m) \subseteq 1..Len(s)
  BY LenProperties DEF Occurs
<1>2. IsFiniteSet(Occurs(s, m))
  <2>1. IsFiniteSet(1..Len(s))
    BY <1>1, FS_Interval
  <2> QED
    BY <1>1, <2>1, FS_Subset
<1> QED
  BY <1>2, FS_CardinalityType DEF Count, Occurs

LEMMA CountEmpty == \A m : Count(<<>>, m) = 0
<1> TAKE m
<1>1. {i \in DOMAIN <<>> : <<>>[i] = m} = {}
  OBVIOUS
<1> QED
  BY <1>1, FS_EmptySet DEF Count

LEMMA CountAppend ==
    ASSUME NEW S, NEW s \in Seq(S), NEW x \in S, NEW m
    PROVE  Count(Append(s, x), m) = Count(s, m) + (IF x = m THEN 1 ELSE 0)
<1> DEFINE t == Append(s, x)
           n == Len(s)
<1>1. /\ n \in Nat /\ DOMAIN s = 1..n /\ DOMAIN t = 1..(n + 1) /\ t[n + 1] = x
      /\ \A i \in 1..n : t[i] = s[i]
  BY AppendProperties, LenProperties
<1> HIDE DEF t, n
<1>2. n + 1 \notin Occurs(s, m) /\ IsFiniteSet(Occurs(s, m)) /\ Count(s, m) \in Nat
  <2>1. n + 1 \notin Occurs(s, m)
    BY <1>1 DEF Occurs
  <2> QED
    BY <2>1, OccursFinite
<1>3. Occurs(t, m) = IF x = m THEN Occurs(s, m) \cup {n + 1} ELSE Occurs(s, m)
  BY <1>1 DEF Occurs
<1>4. Cardinality(Occurs(s, m) \cup {n + 1}) = Cardinality(Occurs(s, m)) + 1
  BY <1>2, FS_AddElement
<1>5. Count(t, m) = Cardinality(Occurs(t, m)) /\ Count(s, m) = Cardinality(Occurs(s, m))
  BY DEF Count, Occurs
<1>6. CASE x = m
  BY <1>3, <1>4, <1>5, <1>6 DEF t
<1>7. CASE x # m
  BY <1>2, <1>3, <1>5, <1>7 DEF t
<1> QED
  BY <1>6, <1>7

LEMMA CountTail ==
    ASSUME NEW S, NEW s \in Seq(S), s # <<>>, NEW m
    PROVE  Count(s, m) = Count(Tail(s), m) + (IF Head(s) = m THEN 1 ELSE 0)
<1> DEFINE t == Tail(s)
           n == Len(s)
           A == Occurs(t, m)
           B == Occurs(s, m) \ {1}
<1>1. /\ n \in Nat /\ n # 0 /\ DOMAIN s = 1..n /\ DOMAIN t = 1..(n - 1) /\ s[1] = Head(s)
      /\ t \in Seq(S) /\ \A i \in 1..(n - 1) : t[i] = s[i + 1]
  BY HeadTailProperties, LenProperties, EmptySeq
<1>2. IsFiniteSet(Occurs(s, m)) /\ IsFiniteSet(A) /\ Count(t, m) \in Nat
  BY <1>1, OccursFinite
<1>3. Count(t, m) = Cardinality(A) /\ Count(s, m) = Cardinality(Occurs(s, m))
  BY DEF Count, Occurs
<1> HIDE DEF t, n
<1>4. Cardinality(A) = Cardinality(B)
  <2> DEFINE f == [i \in A |-> i + 1]
  <2>1. \A i \in A : i \in Int /\ i + 1 \in B
    BY <1>1 DEF Occurs
  <2>2. \A j \in B : j - 1 \in A /\ (j - 1) + 1 = j
    BY <1>1 DEF Occurs
  <2>3. f \in Bijection(A, B)
    <3>1. f \in [A -> B] /\ \A i \in A : f[i] = i + 1
      BY <2>1
    <3> HIDE DEF f
    <3>2. \A i, j \in A : f[i] = f[j] => i = j
      BY <2>1, <3>1
    <3>3. \A j \in B : \E i \in A : f[i] = j
      BY <2>2, <3>1
    <3> HIDE DEF A, B
    <3> QED
      BY <3>1, <3>2, <3>3 DEF Bijection, Injection, Surjection, IsInjective
  <2> QED
    BY <1>2, <2>3, FS_Bijection DEF ExistsBijection
<1>5. CASE Head(s) = m
  <2>1. Occurs(s, m) = B \cup {1} /\ 1 \notin B /\ IsFiniteSet(B)
    BY <1>1, <1>2, <1>5, FS_Subset DEF Occurs
  <2>2. Cardinality(Occurs(s, m)) = Cardinality(B) + 1
    BY <2>1, FS_AddElement
  <2> QED
    BY <1>3, <1>4, <1>5, <2>2 DEF t
<1>6. CASE Head(s) # m
  <2>1. Occurs(s, m) = B
    BY <1>1, <1>6 DEF Occurs
  <2> QED
    <3>1. Count(s, m) = Count(t, m)
      BY <1>3, <1>4, <2>1
    <3>2. Count(t, m) + 0 = Count(t, m)
      BY <1>2
    <3> QED
      BY <1>6, <3>1, <3>2 DEF t
<1> QED
  BY <1>5, <1>6

-----------------------------------------------------------------------------
(* Who says hello to whom.                                                 *)

\* A hello with an id that was given out by now.
Used(m) == \E k \in 0..(Given - 1) : m = Hello(Nth(k))

\* No hello has an id that will be given out.  While main tells the others, the hello
\* has the sender's id, and nobody else's.
Named ==
    /\ \A i \in DOMAIN qMessagesIn : stage[qMessagesIn[i].remote] # "none"
    /\ pc \in {"handle", "loop"} => stage[msg.remote] # "none"
    /\ pc = "loop" =>
        /\ msg.msg = MessageAll
        /\ Used(hello)
        /\ \A d \in Clients :
                stage[d] # "none" /\ hello = ServerMessage(d) => d = msg.remote
    /\ \A c \in Clients : \A i \in DOMAIN Sent(c) :
            Sent(c)[i].id = "ServerMessage" => Used(Sent(c)[i])

\* The hellos of d that were sent to c.
Told(c, d) == IF stage[d] = "none" THEN 0 ELSE Count(Sent(c), ServerMessage(d))

\* Does main have a MessageAll of d in its hands of which c will still be told?
Now(c, d) ==
    IF /\ msg = Owned(d, MessageAll)
       /\ pc = "handle" \/ (pc = "loop" /\ c \notin reached)
    THEN 1 ELSE 0

\* What d has asked for and c has not been told yet.
Due(c, d) ==
    Count(toServer[d], MessageAll) + Count(qMessagesIn, Owned(d, MessageAll)) + Now(c, d)

Balanced ==
    \A c, d \in Clients :
        IF c = d THEN Told(c, d) = 0
        ELSE Told(c, d) + Due(c, d) <= Count(asked[d], MessageAll)

HelloInv == ChatInv /\ Ids /\ Named /\ Balanced

LEMMA SentType ==
    ASSUME ChatTypes, NEW c \in Clients
    PROVE  Sent(c) \in Seq(Letters)
  BY ConcatProperties DEF ChatTypes, Sent

LEMMA Numbers ==
    ASSUME ChatTypes, IInv, NEW c \in Clients, NEW d \in Clients
    PROVE  /\ Told(c, d) \in Nat /\ Now(c, d) \in 0..1
           /\ Count(toServer[d], MessageAll) \in Nat
           /\ Count(qMessagesIn, Owned(d, MessageAll)) \in Nat
           /\ Count(asked[d], MessageAll) \in Nat
<1>1. /\ toServer[d] \in Seq(Incoming) /\ asked[d] \in Seq(Incoming)
      /\ qMessagesIn \in Seq(OwnedMessages) /\ Sent(c) \in Seq(Letters)
  BY SentType DEF ChatTypes, IInv, TypeOK
<1>2. Count(Sent(c), ServerMessage(d)) \in Nat
  BY <1>1, OccursFinite
<1>3. Told(c, d) \in Nat
  BY <1>2 DEF Told
<1>4. Now(c, d) \in 0..1
  BY DEF Now
<1> QED
  BY <1>1, <1>3, <1>4, OccursFinite

\* Ids are only ever given out, by ConnectBack.
LEMMA GivenStep ==
    ASSUME IdInv, [Next]_vars
    PROVE  Given' = IF ConnectBack THEN Given + 1 ELSE Given
<1> USE DEF IdInv, IInv
<1>1. CASE ConnectBack
  <2>1. asio = "connect" /\ asio' = "approve" /\ Accepted' = Accepted
    BY <1>1 DEF ConnectBack, Handling, Accepted
  <2> QED
    BY <1>1, <2>1, AcceptedCount DEF Given
<1>2. ASSUME NEW c \in Clients, AllowClient(c) PROVE Given' = Given /\ ~ConnectBack
  <2>1. Accepted' = Accepted \cup {c} /\ c \notin Accepted
    BY <1>2 DEF AllowClient, Accepted, TypeOK
  <2>2. Cardinality(Accepted') = Cardinality(Accepted) + 1
    BY <2>1, AcceptedCount, FS_AddElement
  <2>3. asio = "idle" /\ asio' = "connect"
    BY <1>2 DEF AllowClient, Free, Handling
  <2> QED
    BY <2>2, <2>3, AcceptedCount DEF Given, ConnectBack, Handling
<1>3. ASSUME Accepted' = Accepted, asio' = "connect" <=> asio = "connect", ~ConnectBack
      PROVE  Given' = Given
  BY <1>3 DEF Given
<1>4. CASE Main /\ ~ConnectBack
  <2>1. UNCHANGED asio
    BY <1>4 DEF Main, Tidy, Join, PopMessage, OnMessage, Bounce, MessageClient,
                MessageAllClients, MessageNext, LoopEnd, RemoveBegin, RemoveNext, RemoveEnd,
                EraseEnd, EraseReversed
  <2> QED
    BY <1>3, <1>4, <2>1, MainSettled
<1>5. CASE ~ConnectBack /\ (UNCHANGED vars \/ Start \/ Stop \/ Destroy \/ Approve)
  <2>1. UNCHANGED client /\ (asio' = "connect" <=> asio = "connect")
    BY <1>5 DEF vars, peers, Start, Stop, Destroy, Approve, Handling
  <2> QED
    BY <1>3, <1>5, <2>1 DEF Accepted
<1>6. ASSUME NEW c \in Clients,
             Arrive(c) \/ AcceptGone(c) \/ DenyClient(c) \/ Validate(c) \/ CloseSocket(c)
                \/ \E m \in Incoming : Receive(c, m)
      PROVE  ~ConnectBack => Given' = Given
  <2>1. UNCHANGED asio
    BY <1>6 DEF Arrive, AcceptGone, DenyClient, Validate, CloseSocket, Receive
  <2>2. \A d \in Clients : client'[d] \in {"open", "closed"} <=> client[d] \in {"open", "closed"}
    BY <1>6 DEF Arrive, AcceptGone, DenyClient, Validate, CloseSocket, Receive, peers,
                TypeOK, IsConnected
  <2> QED
    BY <1>3, <2>1, <2>2 DEF Accepted
<1> QED
  BY <1>1, <1>2, <1>4, <1>5, <1>6 DEF Next, AcceptHandler

LEMMA HelloInjective == \A x, y : Hello(x) = Hello(y) => x = y
<1> TAKE x, y
<1>1. <<x>>[1] = x /\ <<y>>[1] = y
  OBVIOUS
<1>2. Hello(x).body = <<x>> /\ Hello(y).body = <<y>>
  BY DEF Hello
<1> QED
  BY <1>1, <1>2

\* An id that ConnectBack gives is in no hello.
LEMMA ConnectFresh ==
    ASSUME EnoughIds, IdInv, ConnectBack
    PROVE  /\ \A m : Used(m) => m # Hello(Nth(Given))
           /\ \A d \in Clients :
                \/ id'[d] = id[d] /\ stage'[d] = stage[d]
                \/ id'[d] = Nth(Given) /\ stage'[d] # "none"
<1> USE DEF IdInv, IInv
<1>1. Given \in Nat /\ Given < IdModulus /\ nIDCounter = Nth(Given)
  BY AcceptedCount, IdsAssumption DEF EnoughIds, Given, Ids, ConnectBack, Handling
<1>2. \A k \in 0..(Given - 1) : Nth(k) # Nth(Given)
  <2>1. PICK n \in Nat : n = Given /\ n < IdModulus
    BY <1>1
  <2> QED
    BY <2>1, NthDiffers
<1>3. \A x, y : Hello(x) = Hello(y) => x = y
  BY HelloInjective
<1>4. \A d \in Clients :
        \/ id'[d] = id[d] /\ stage'[d] = stage[d]
        \/ id'[d] = nIDCounter /\ stage'[d] # "none"
  BY DEF ConnectBack, TypeOK, Begun
<1> QED
  BY <1>1, <1>2, <1>3, <1>4 DEF Used

\* Names and stages, in all steps but ConnectBack.
LEMMA NamesKept ==
    ASSUME IInv, [Next]_vars, ~ConnectBack
    PROVE  /\ UNCHANGED id
           /\ \A d \in Clients : stage'[d] = "none" <=> stage[d] = "none"
<1> USE DEF IInv
<1>1. CASE UNCHANGED <<id, stage>>
  BY <1>1
<1>2. ASSUME NEW c \in Clients, Validate(c)
      PROVE  /\ UNCHANGED id
             /\ \A d \in Clients : stage'[d] = "none" <=> stage[d] = "none"
  BY <1>2 DEF Validate, TypeOK
<1>3. CASE Main
  BY <1>1, <1>3 DEF Main, Tidy, Join, PopMessage, OnMessage, Bounce, MessageClient,
       MessageAllClients, MessageNext, LoopEnd, RemoveBegin, RemoveNext, RemoveEnd, EraseEnd,
       EraseReversed, peers
<1>4. CASE UNCHANGED vars \/ Start \/ Stop \/ Destroy \/ Approve
  BY <1>1, <1>4 DEF vars, Start, Stop, Destroy, Approve, peers
<1>5. ASSUME NEW c \in Clients,
             Arrive(c) \/ AcceptGone(c) \/ DenyClient(c) \/ AllowClient(c) \/ CloseSocket(c)
                \/ \E m \in Incoming : Receive(c, m)
      PROVE  UNCHANGED <<id, stage>>
  BY <1>5 DEF Arrive, AcceptGone, DenyClient, AllowClient, CloseSocket, Receive, peers
<1> QED
  BY <1>1, <1>2, <1>3, <1>4, <1>5 DEF Next, AcceptHandler

LEMMA SameName == \A d : id'[d] = id[d] => ServerMessage(d)' = ServerMessage(d)
  BY DEF ServerMessage, GetID

\* Nobody is told who is sent nothing, or something else.
LEMMA ToldKept ==
    ASSUME ChatTypes, NEW c \in Clients, NEW d \in Clients,
           id'[d] = id[d], stage'[d] = "none" <=> stage[d] = "none",
           \/ Sent(c)' = Sent(c)
           \/ \E m \in Letters : m # ServerMessage(d) /\ Sent(c)' = Append(Sent(c), m)
    PROVE  Told(c, d)' = Told(c, d)
<1> DEFINE h == ServerMessage(d)
<1>1. ServerMessage(d)' = h
  BY SameName
<1>2. Count(Sent(c)', h) = Count(Sent(c), h)
  <2>1. CASE Sent(c)' = Sent(c)
    BY <2>1
  <2>2. ASSUME NEW m \in Letters, m # h, Sent(c)' = Append(Sent(c), m)
        PROVE  Count(Sent(c)', h) = Count(Sent(c), h)
    <3>1. Sent(c) \in Seq(Letters)
      BY SentType
    <3> HIDE DEF h
    <3>2. Count(Append(Sent(c), m), h) = Count(Sent(c), h) + 0 /\ Count(Sent(c), h) \in Nat
      BY <2>2, <3>1, CountAppend, OccursFinite
    <3> QED
      BY <2>2, <3>2
  <2> QED
    BY <2>1, <2>2
<1> HIDE DEF h
<1>3. Count(Sent(c), ServerMessage(d))' = Count(Sent(c)', h)
  BY <1>1
<1> QED
  BY <1>2, <1>3 DEF Told, h

\* The sum stays, or what has been asked grows as well.
LEMMA BalanceKept ==
    ASSUME ChatInv, ChatInv', Balanced,
           \A c, d \in Clients :
                IF c = d THEN Told(c, d)' = Told(c, d) \/ Told(c, d)' = 0
                ELSE Told(c, d)' + Due(c, d)' + Count(asked[d], MessageAll)
                        <= Told(c, d) + Due(c, d) + Count(asked'[d], MessageAll)
    PROVE  Balanced'
<1> SUFFICES ASSUME NEW c \in Clients, NEW d \in Clients
             PROVE  IF c = d THEN Told(c, d)' = 0
                    ELSE Told(c, d)' + Due(c, d)' <= Count(asked'[d], MessageAll)
  BY DEF Balanced
<1>1. CASE c = d
  BY <1>1 DEF Balanced
<1>2. CASE c # d
  <2>1. /\ Told(c, d) \in Nat /\ Due(c, d) \in Nat
        /\ Told(c, d)' \in Nat /\ Due(c, d)' \in Nat
        /\ Count(asked[d], MessageAll) \in Nat /\ Count(asked'[d], MessageAll) \in Nat
    <3>1. Told(c, d) \in Nat /\ Due(c, d) \in Nat /\ Count(asked[d], MessageAll) \in Nat
      BY Numbers DEF ChatInv, Due
    <3>2. /\ toServer'[d] \in Seq(Incoming) /\ asked'[d] \in Seq(Incoming)
          /\ qMessagesIn' \in Seq(OwnedMessages) /\ Sent(c)' \in Seq(Letters)
      BY ConcatProperties DEF ChatInv, ChatTypes, IInv, TypeOK, Sent
    <3>3. /\ \A m : Count(toServer'[d], m) \in Nat /\ Count(asked'[d], m) \in Nat
          /\ \A m : Count(qMessagesIn', m) \in Nat /\ Count(Sent(c)', m) \in Nat
      BY <3>2, OccursFinite
    <3>4. Told(c, d)' \in Nat /\ Now(c, d)' \in 0..1
      BY <3>3 DEF Told, Now
    <3>5. Due(c, d)' \in Nat
      BY <3>3, <3>4 DEF Due
    <3>6. Count(asked'[d], MessageAll) \in Nat
      BY <3>3
    <3> HIDE DEF Told, Due, Count
    <3> QED
      BY ONLY <3>1, <3>4, <3>5, <3>6
  <2>2. Told(c, d) + Due(c, d) <= Count(asked[d], MessageAll)
    BY <1>2 DEF Balanced
  <2> QED
    BY <1>2, <2>1, <2>2
<1> QED
  BY <1>1, <1>2

\* What is sent in a step of Chat: nothing, or one message to some clients, which
\* may be a hello only if it is the one that main has in its hands.
LEMMA SentStep ==
    ASSUME ChatInv, ChatNext, NEW c \in Clients
    PROVE  \/ Sent(c)' = Sent(c)
           \/ \E m \in Letters :
                /\ Sent(c)' = Append(Sent(c), m)
                /\ \/ m.id # "ServerMessage"
                   \/ ChatMessageNext /\ m = hello /\ c \in reached' \ reached
<1> USE DEF ChatInv
<1>1. CASE UNCHANGED <<toClient, got>>
  BY <1>1 DEF Sent
<1>2. ASSUME NEW d \in Clients, ChatAllow(d)
      PROVE  Sent(c)' = Sent(c) \/ Sent(c)' = Append(Sent(c), Welcome)
  <2>1. /\ toClient' = [toClient EXCEPT ![d] = <<Welcome>>] /\ UNCHANGED got
        /\ client[d] = "waiting"
    BY <1>2 DEF ChatAllow, AllowClient, Accepts, clients, told, Welcome
  <2>2. CASE c # d
    BY <2>1, <2>2 DEF Sent, ChatTypes
  <2>3. CASE c = d
    <3>1. Sent(c) = <<>> /\ got[c] \in Seq(Letters) /\ toClient[c] \in Seq(Letters)
      BY <2>1, <2>3 DEF Welcomed, Accepted, ChatTypes
    <3>2. got[c] = <<>>
      BY <3>1, ConcatProperties, LenProperties, EmptySeq DEF Sent
    <3>3. Sent(c)' = <<>> \o <<Welcome>>
      BY <2>1, <2>3, <3>2 DEF Sent, ChatTypes
    <3>4. Append(Sent(c), Welcome) = <<Welcome>> /\ <<>> \o <<Welcome>> = <<Welcome>>
      BY <3>1
    <3> QED
      BY <3>3, <3>4
  <2> QED
    BY <2>2, <2>3
<1>3. Welcome \in Letters /\ Welcome.id # "ServerMessage"
  BY Kinds DEF Letters
<1>4. ASSUME NEW d \in Clients, Handle(d) PROVE Sent(c)' = Sent(c)
  <2>1. toClient[d] # <<>> /\ toClient[d] \in Seq(Letters) /\ got[d] \in Seq(Letters)
    BY <1>4 DEF Handle, ChatTypes
  <2>2. Append(got[d], Head(toClient[d])) \o Tail(toClient[d]) = got[d] \o toClient[d]
    BY <2>1, ConcatShift
  <2> QED
    BY <1>4, <2>2 DEF Handle, Sent, ChatTypes
<1>5. ASSUME NEW set, NEW m \in Letters, SendTo(set, m), UNCHANGED got
      PROVE  \/ Sent(c)' = Sent(c)
             \/ Sent(c)' = Append(Sent(c), m) /\ c \in set
  <2>1. \/ toClient'[c] = toClient[c]
        \/ toClient'[c] = Append(toClient[c], m) /\ c \in set
    BY <1>5, SendTypes
  <2>2. got[c] \o Append(toClient[c], m) = Append(got[c] \o toClient[c], m)
    <3> DEFINE g == got[c]
               q == toClient[c]
    <3>1. g \in Seq(Letters) /\ q \in Seq(Letters) /\ m \in Letters
      BY DEF ChatTypes
    <3> HIDE DEF g, q
    <3>2. g \o Append(q, m) = Append(g \o q, m)
      BY <3>1, ConcatAppend
    <3> QED
      BY <3>2 DEF g, q
  <2> QED
    BY <1>5, <2>1, <2>2 DEF Sent
<1>6. CASE \E d \in Clients : ChatBounce(d)
  <2>1. PICK d \in Clients : ChatBounce(d)
    BY <1>6
  <2>2. SendTo({d}, msg.msg) /\ UNCHANGED got
    BY <2>1 DEF ChatBounce, clients, told
  <2>3. msg.msg \in Letters /\ msg.msg.id = "ServerPing"
    BY <2>1, <2>2, ServerSends DEF ChatBounce, Bounce
  <2> QED
    BY <1>5, <2>2, <2>3
<1>7. CASE ChatMessageNext
  <2>1. SendTo(reached' \ reached, hello) /\ UNCHANGED got
    BY <1>7 DEF ChatMessageNext, clients, told
  <2>2. hello \in Letters
    BY <1>7, <2>1, ServerSends
  <2> QED
    BY <1>5, <1>7, <2>1, <2>2
<1>8. ASSUME NEW d \in Clients, ChatValidate(d) PROVE UNCHANGED <<toClient, got>>
  BY <1>8 DEF ChatValidate, Accepts, SendTo, clients, told, ChatTypes
<1> QED
  BY <1>1, <1>2, <1>3, <1>4, <1>6, <1>7, <1>8
  DEF ChatNext, ChatAccepts, ChatConnect, ChatMain, Ask, ChatReceive, ChatMessageAll,
      ChatEnd, Unnoticed, clients, told, chat

\* Whoever had an id still has one.
LEMMA StagesGrow ==
    ASSUME EnoughIds, IdInv, [Next]_vars
    PROVE  /\ \A d \in Clients : stage[d] # "none" => stage'[d] # "none"
           /\ \A m : Used(m) => Used(m)'
<1>1. \A d \in Clients : stage[d] # "none" => stage'[d] # "none"
  BY NamesKept, ConnectFresh DEF IdInv
<1>2. Given \in Nat /\ (Given' = Given \/ Given' = Given + 1)
  BY GivenStep DEF IdInv, Ids
<1>3. \A k \in 0..(Given - 1) : k \in 0..(Given' - 1)
  BY <1>2
<1> QED
  BY <1>1, <1>3 DEF Used

\* The parts of Named.
LEMMA QueueNamed ==
    ASSUME EnoughIds, HelloInv, ChatNext
    PROVE  \A i \in DOMAIN qMessagesIn' : stage'[qMessagesIn'[i].remote] # "none"
<1> USE DEF HelloInv, ChatInv
<1>1. /\ \A d \in Clients : stage[d] # "none" => stage'[d] # "none"
      /\ qMessagesIn \in Seq(OwnedMessages)
  BY ChatStepServes, StagesGrow DEF IdInv, IInv, TypeOK
<1>2. \A i \in DOMAIN qMessagesIn :
        qMessagesIn[i].remote \in Clients /\ stage[qMessagesIn[i].remote] # "none"
  <2> TAKE i \in DOMAIN qMessagesIn
  <2>1. qMessagesIn[i] \in OwnedMessages
    BY <1>1, ElementOfSeq, LenProperties
  <2> QED
    BY <2>1 DEF Named, OwnedMessages
<1>3. ASSUME NEW c \in Clients, ChatReceive(c)
      PROVE  \A i \in DOMAIN qMessagesIn' : stage'[qMessagesIn'[i].remote] # "none"
  <2> DEFINE x == Owned(c, Head(toServer[c]))
  <2>1. /\ qMessagesIn' = Append(qMessagesIn, x) /\ stage[c] # "none"
        /\ toServer[c] # <<>> /\ stage' = stage
    BY <1>3 DEF ChatReceive, Receive, peers
  <2>2. x \in OwnedMessages /\ x.remote = c
    BY <2>1, HeadTailProperties DEF Owned, OwnedMessages, ChatTypes
  <2> HIDE DEF x
  <2>3. \A i \in DOMAIN qMessagesIn' : i \in DOMAIN qMessagesIn \/ qMessagesIn'[i] = x
    BY <1>1, <2>1, <2>2, AppendProperties, LenProperties
  <2>4. \A i \in DOMAIN qMessagesIn : qMessagesIn'[i] = qMessagesIn[i]
    BY <1>1, <2>1, <2>2, AppendProperties, LenProperties
  <2> QED
    BY <1>2, <2>1, <2>2, <2>3, <2>4
<1>4. CASE Unnoticed(PopMessage)
  <2>1. qMessagesIn # <<>> /\ qMessagesIn' = Tail(qMessagesIn) /\ stage' = stage
    BY <1>4 DEF Unnoticed, PopMessage, peers
  <2>2. \A i \in DOMAIN qMessagesIn' :
            i + 1 \in DOMAIN qMessagesIn /\ qMessagesIn'[i] = qMessagesIn[i + 1]
    BY <1>1, <2>1, HeadTailProperties, LenProperties
  <2> QED
    BY <1>2, <2>1, <2>2
<1>5. CASE UNCHANGED qMessagesIn
  BY <1>1, <1>2, <1>5
<1> QED
  BY <1>3, <1>4, <1>5
  DEF ChatNext, ChatAccepts, ChatConnect, ChatMain, ChatAllow, ChatValidate, ChatBounce,
      ChatMessageAll, ChatMessageNext, ChatEnd, Unnoticed, Ask, Handle, Arrive, CloseSocket,
      Validate, AllowClient, ConnectBack, Approve, Start, Stop, Join, Bounce,
      MessageAllClients, MessageNext, LoopEnd, EraseEnd, Tidy, RemoveBegin, RemoveNext,
      RemoveEnd, EraseReversed, vars, lists

LEMMA HandNamed ==
    ASSUME EnoughIds, HelloInv, ChatNext, pc' \in {"handle", "loop"}
    PROVE  stage'[msg'.remote] # "none"
<1> USE DEF HelloInv, ChatInv
<1>1. \A d \in Clients : stage[d] # "none" => stage'[d] # "none"
  BY ChatStepServes, StagesGrow DEF IdInv
<1>2. CASE Unnoticed(PopMessage)
  <2>1. qMessagesIn # <<>> /\ msg' = Head(qMessagesIn) /\ stage' = stage
    BY <1>2 DEF Unnoticed, PopMessage, peers
  <2>2. 1 \in DOMAIN qMessagesIn /\ Head(qMessagesIn) = qMessagesIn[1]
    BY <2>1, HeadTailProperties, LenProperties, EmptySeq DEF IInv, TypeOK
  <2> QED
    BY <2>1, <2>2 DEF Named
<1>3. CASE pc \in {"handle", "loop"} /\ UNCHANGED msg
  <2>1. msg.remote \in Clients /\ stage[msg.remote] # "none"
    BY <1>3 DEF InHand, OwnedMessages, Named
  <2> QED
    BY <1>1, <1>3, <2>1
<1> QED
  BY <1>2, <1>3
  DEF ChatNext, ChatAccepts, ChatConnect, ChatMain, ChatAllow, ChatValidate, ChatReceive,
      ChatBounce, ChatMessageAll, ChatMessageNext, ChatEnd, Unnoticed, Ask, Handle, Arrive,
      CloseSocket, Validate, Receive, AllowClient, ConnectBack, Approve, Start, Stop, Join,
      Bounce, MessageAllClients, MessageNext, LoopEnd, EraseEnd, Return, EraseCall, Tidy,
      RemoveBegin, RemoveNext, RemoveEnd, EraseReversed, vars, main, At

LEMMA LoopNamed ==
    ASSUME EnoughIds, HelloInv, ChatNext, pc' = "loop"
    PROVE  /\ msg'.msg = MessageAll
           /\ Used(hello)'
           /\ \A d \in Clients :
                stage'[d] # "none" /\ hello' = ServerMessage(d)' => d = msg'.remote
<1> USE DEF HelloInv, ChatInv
<1>1. /\ \A m : Used(m) => Used(m)'
      /\ IdInv /\ [Next]_vars
  BY ChatStepServes, StagesGrow DEF IdInv
<1>2. \A d \in Clients : id[d] \in Nat /\ ServerMessage(d) = Hello(id[d])
  BY MessageForms DEF IInv, TypeOK
<1>3. CASE ChatMessageAll
  <2> DEFINE s == msg.remote
  <2>1. /\ hello' = ServerMessage(s) /\ msg' = msg /\ UNCHANGED <<id, stage>>
        /\ msg \in OwnedMessages /\ msg.msg.id = "MessageAll" /\ stage[s] # "none"
    BY <1>3 DEF ChatMessageAll, MessageAllClients, At, InHand, Named, peers
  <2>2. s \in Clients /\ msg.msg = MessageAll
    <3>1. msg.msg \in Incoming /\ \A n \in Nat : ServerPing(n).id = "ServerPing"
      BY <2>1, MessageForms DEF OwnedMessages
    <3> QED
      BY <2>1, <3>1, AskedAssumption DEF OwnedMessages
  <2>3. \E k \in 0..(Given - 1) : id[s] = Nth(k)
    BY <2>1, <2>2 DEF Ids
  <2>4. Used(ServerMessage(s))
    BY <1>2, <2>2, <2>3 DEF Used
  <2>5. \A d \in Clients : stage[d] # "none" /\ ServerMessage(s) = ServerMessage(d) => d = s
    BY <1>2, <2>1, <2>2, HelloInjective DEF Ids, IdsDiffer
  <2>6. \A d \in Clients : ServerMessage(d)' = ServerMessage(d)
    BY <2>1, SameName
  <2>7. \A m : m = ServerMessage(s) => Used(m)'
    BY <1>1, <2>4
  <2>8. Used(hello)'
    <3>1. PICK m : m = hello'
      OBVIOUS
    <3>2. Used(m)'
      BY <2>1, <2>7, <3>1
    <3> QED
      BY <3>1, <3>2 DEF Used
  <2> QED
    BY <2>1, <2>2, <2>5, <2>6, <2>8
<1>4. CASE pc = "loop" /\ UNCHANGED <<msg, hello>>
  <2>1. msg'.msg = MessageAll /\ Used(hello)
    BY <1>4 DEF Named
  <2>2. Used(hello)'
    <3>1. PICK m : m = hello
      OBVIOUS
    <3>2. Used(m)'
      BY <1>1, <2>1, <3>1
    <3> QED
      BY <1>4, <3>1, <3>2 DEF Used
  <2>3. ASSUME NEW d \in Clients, stage'[d] # "none", hello' = ServerMessage(d)'
        PROVE  d = msg'.remote
    <3>1. CASE id'[d] = id[d] /\ (stage'[d] = "none" <=> stage[d] = "none")
      BY <1>4, <2>3, <3>1, SameName DEF Named
    <3>2. CASE ConnectBack /\ id'[d] = Nth(Given)
      <4>1. id'[d] \in Nat
        BY StepInv, <1>1 DEF IInv, TypeOK
      <4>2. ServerMessage(d)' = Hello(Nth(Given))
        <5>1. ServerMessage(d)' = Push(NewMessage("ServerMessage"), <<id'[d]>>)
          BY DEF ServerMessage, GetID
        <5>2. Push(NewMessage("ServerMessage"), <<id'[d]>>) = Hello(id'[d])
          BY <4>1, HelloForm
        <5> QED
          BY <3>2, <5>1, <5>2
      <4>3. hello # Hello(Nth(Given))
        BY <1>1, <2>1, <3>2, ConnectFresh
      <4> QED
        BY <1>4, <2>3, <4>2, <4>3
    <3> QED
      BY <1>1, <3>1, <3>2, NamesKept, ConnectFresh DEF IdInv
  <2> QED
    BY <1>4, <2>1, <2>2, <2>3
<1> QED
  BY <1>3, <1>4
  DEF ChatNext, ChatAccepts, ChatConnect, ChatMain, ChatAllow, ChatValidate, ChatReceive,
      ChatBounce, ChatMessageNext, ChatEnd, Unnoticed, Ask, Handle, Arrive, CloseSocket,
      Validate, Receive, AllowClient, ConnectBack, Approve, Start, Stop, Join, PopMessage,
      Bounce, MessageNext, LoopEnd, EraseEnd, Return, EraseCall, Tidy, RemoveBegin,
      RemoveNext, RemoveEnd, EraseReversed, vars, main, chat, At

LEMMA SentNamed ==
    ASSUME EnoughIds, HelloInv, ChatNext, NEW c \in Clients, NEW t, t = Sent(c)',
           NEW i \in DOMAIN t, t[i].id = "ServerMessage"
    PROVE  Used(t[i])'
<1> USE DEF HelloInv, ChatInv
<1>1. \A m : Used(m) => Used(m)'
  BY ChatStepServes, StagesGrow DEF IdInv
<1>2. PICK s : s = Sent(c)
  OBVIOUS
<1>3. s \in Seq(Letters) /\ Len(s) \in Nat /\ DOMAIN s = 1..Len(s)
  BY <1>2, SentType, LenProperties
<1>4. \A j \in DOMAIN s : s[j].id = "ServerMessage" => Used(s[j])
  BY <1>2 DEF Named
<1>5. CASE t = s
  BY <1>1, <1>4, <1>5
<1>6. ASSUME NEW m \in Letters, t = Append(s, m),
             m.id # "ServerMessage" \/ (ChatMessageNext /\ m = hello)
      PROVE  Used(t[i])'
  <2>1. (i \in DOMAIN s /\ t[i] = s[i]) \/ t[i] = m
    BY <1>3, <1>6, AppendProperties, LenProperties
  <2>2. CASE i \in DOMAIN s /\ t[i] = s[i]
    BY <1>1, <1>4, <2>2
  <2>3. CASE t[i] = m
    <3>1. ChatMessageNext /\ m = hello
      BY <1>6, <2>3
    <3>2. Used(m)
      BY <3>1 DEF Named, ChatMessageNext, MessageNext, At
    <3> QED
      BY <1>1, <2>3, <3>2
  <2> QED
    BY <2>1, <2>2, <2>3
<1> QED
  BY <1>2, <1>5, <1>6, SentStep

LEMMA NamedStep == ASSUME EnoughIds, HelloInv, ChatNext PROVE Named'
<1>1. /\ \A i \in DOMAIN qMessagesIn' : stage'[qMessagesIn'[i].remote] # "none"
      /\ pc' \in {"handle", "loop"} => stage'[msg'.remote] # "none"
      /\ pc' = "loop" =>
            /\ msg'.msg = MessageAll
            /\ Used(hello)'
            /\ \A d \in Clients :
                    stage'[d] # "none" /\ hello' = ServerMessage(d)' => d = msg'.remote
  BY QueueNamed, HandNamed, LoopNamed
<1>2. ASSUME NEW c \in Clients
      PROVE  \A i \in DOMAIN Sent(c)' :
                Sent(c)'[i].id = "ServerMessage" => Used(Sent(c)[i])'
  <2>1. PICK t : t = Sent(c)'
    OBVIOUS
  <2>2. \A i \in DOMAIN t : t[i].id = "ServerMessage" => Used(t[i])'
    BY <2>1, SentNamed
  <2> QED
    BY <2>1, <2>2 DEF Used
<1> QED
  BY <1>1, <1>2 DEF Named

-----------------------------------------------------------------------------
(* A hello is told for every one that was asked for.                       *)

LEMMA CountNone ==
    ASSUME NEW s, NEW m, \A i \in DOMAIN s : s[i] # m
    PROVE  Count(s, m) = 0
<1>1. {i \in DOMAIN s : s[i] = m} = {}
  OBVIOUS
<1> QED
  BY <1>1, FS_EmptySet DEF Count

\* A step tells a client at most the hello that main has in its hands; who gets an
\* id in this step has told nobody.
LEMMA TellStep ==
    ASSUME EnoughIds, HelloInv, ChatNext, NEW c \in Clients, NEW d \in Clients
    PROVE  \/ Told(c, d)' \in {Told(c, d), 0}
           \/ /\ ChatMessageNext
              /\ stage[d] # "none"
              /\ hello = ServerMessage(d)
              /\ c \in reached' \ reached
              /\ Told(c, d)' = Told(c, d) + 1
<1> USE DEF HelloInv, ChatInv
<1>1. IdInv /\ [Next]_vars /\ ChatTypes
  BY ChatStepServes DEF IdInv
<1>2. PICK s, t : s = Sent(c) /\ t = Sent(c)'
  OBVIOUS
<1>3. s \in Seq(Letters) /\ Len(s) \in Nat /\ DOMAIN s = 1..Len(s)
  BY <1>2, SentType, LenProperties
<1>4. \/ t = s
      \/ \E m \in Letters :
            /\ t = Append(s, m)
            /\ m.id # "ServerMessage" \/ (ChatMessageNext /\ m = hello /\ c \in reached' \ reached)
  BY <1>2, SentStep
<1>5. \A i \in DOMAIN s : s[i].id = "ServerMessage" => Used(s[i])
  BY <1>2 DEF Named
<1>6. ChatMessageNext => Used(hello)
  BY DEF Named, ChatMessageNext, MessageNext, At
<1>7. ASSUME ConnectBack, id'[d] = Nth(Given), stage'[d] # "none"
      PROVE  Told(c, d)' = 0
  <2>1. ServerMessage(d)' = Hello(Nth(Given))
    <3>1. ServerMessage(d)' = Push(NewMessage("ServerMessage"), <<id'[d]>>)
      BY DEF ServerMessage, GetID
    <3>2. id'[d] \in Nat
      BY <1>1, StepInv DEF IInv, TypeOK
    <3>3. Push(NewMessage("ServerMessage"), <<id'[d]>>) = Hello(id'[d])
      BY <3>2, HelloForm
    <3> QED
      BY <1>7, <3>1, <3>3
  <2>2. PICK h : h = Hello(Nth(Given))
    OBVIOUS
  <2>3. h.id = "ServerMessage" /\ ~Used(h)
    BY <1>1, <1>7, <2>2, ConnectFresh DEF Hello
  <2>4. \A i \in DOMAIN s : s[i] # h
    BY <1>5, <2>3
  <2>5. \A i \in DOMAIN t : t[i] # h
    <3>1. CASE t = s
      BY <2>4, <3>1
    <3>2. ASSUME NEW m \in Letters, t = Append(s, m), m # h
          PROVE  \A i \in DOMAIN t : t[i] # h
      BY <1>3, <2>4, <3>2, AppendProperties, LenProperties
    <3> QED
      BY <1>4, <1>6, <2>3, <3>1, <3>2
  <2>6. Count(t, h) = 0
    BY <2>5, CountNone
  <2> QED
    BY <1>2, <1>7, <2>1, <2>2, <2>6 DEF Told
<1>8. ASSUME id'[d] = id[d], stage'[d] = "none" <=> stage[d] = "none"
      PROVE  \/ Told(c, d)' = Told(c, d)
             \/ /\ ChatMessageNext
                /\ stage[d] # "none"
                /\ hello = ServerMessage(d)
                /\ c \in reached' \ reached
                /\ Told(c, d)' = Told(c, d) + 1
  <2>1. PICK h : h = ServerMessage(d) /\ h = ServerMessage(d)'
    BY <1>8, SameName
  <2>2. h.id = "ServerMessage"
    <3>1. h = Hello(id[d])
      BY <1>1, <2>1, MessageForms DEF IInv, TypeOK
    <3> QED
      BY <3>1 DEF Hello
  <2>3. /\ Told(c, d) = IF stage[d] = "none" THEN 0 ELSE Count(s, h)
        /\ Told(c, d)' = IF stage[d] = "none" THEN 0 ELSE Count(t, h)
    BY <1>2, <1>8, <2>1 DEF Told
  <2>4. ASSUME NEW m \in Letters, t = Append(s, m)
        PROVE  Count(t, h) = Count(s, h) + (IF m = h THEN 1 ELSE 0) /\ Count(s, h) \in Nat
    BY <1>3, <2>4, CountAppend, OccursFinite
  <2>5. ASSUME NEW m \in Letters, t = Append(s, m), m = h, stage[d] # "none"
        PROVE  /\ ChatMessageNext /\ hello = ServerMessage(d) /\ c \in reached' \ reached
               /\ Told(c, d)' = Told(c, d) + 1
    <3>1. Len(t) = Len(s) + 1 /\ t[Len(s) + 1] = m
      BY <1>3, <2>5, AppendProperties
    <3>2. t # s
      BY <1>3, <3>1
    <3>3. PICK n \in Letters :
            /\ t = Append(s, n)
            /\ n.id # "ServerMessage" \/ (ChatMessageNext /\ n = hello /\ c \in reached' \ reached)
      BY <1>4, <3>2
    <3>4. n = m
      BY <1>3, <3>1, <3>3, AppendProperties
    <3> QED
      BY <2>1, <2>2, <2>3, <2>4, <2>5, <3>3, <3>4
  <2>6. ASSUME NEW m \in Letters, t = Append(s, m), m # h
        PROVE  Told(c, d)' = Told(c, d)
    BY <2>3, <2>4, <2>6
  <2> QED
    BY <1>4, <2>3, <2>5, <2>6
<1> QED
  BY <1>1, <1>7, <1>8, NamesKept, ConnectFresh

\* What main has in its hands, in all steps but PopMessage.
LEMMA HandStep ==
    ASSUME ChatInv, ChatNext, ~Unnoticed(PopMessage), NEW c \in Clients, NEW d \in Clients
    PROVE  Now(c, d)' <= Now(c, d)
<1>1. CASE pc' \in {"handle", "loop"}
  <2>1. /\ msg' = msg
        /\ pc = "handle" \/ (pc = "loop" /\ pc' = "loop" /\ reached \subseteq reached')
    BY <1>1
    DEF ChatNext, ChatAccepts, ChatConnect, ChatMain, ChatAllow, ChatValidate, ChatReceive,
        ChatBounce, ChatMessageAll, ChatMessageNext, ChatEnd, Unnoticed, Ask, Handle,
        Arrive, CloseSocket, Validate, Receive, AllowClient, ConnectBack, Approve, Start,
        Stop, Join, Bounce, MessageAllClients, MessageNext, LoopEnd, EraseEnd, Return,
        EraseCall, Tidy, RemoveBegin, RemoveNext, RemoveEnd, EraseReversed, vars, main,
        history, At
  <2>2. Now(c, d)' = 1 => Now(c, d) = 1
    BY <1>1, <2>1 DEF Now
  <2> QED
    BY <2>2 DEF Now
<1>2. CASE pc' \notin {"handle", "loop"}
  BY <1>2 DEF Now
<1> QED
  BY <1>1, <1>2

\* What is due to a client grows only with what has been asked.
LEMMA DueStep ==
    ASSUME ChatInv, ChatNext, NEW c \in Clients, NEW d \in Clients
    PROVE  Due(c, d)' + Count(asked[d], MessageAll) <= Due(c, d) + Count(asked'[d], MessageAll)
<1> USE DEF ChatInv
<1> DEFINE A == Count(asked[d], MessageAll)
           T == Count(toServer[d], MessageAll)
           Q == Count(qMessagesIn, Owned(d, MessageAll))
           N == Now(c, d)
<1>1. /\ A \in Nat /\ T \in Nat /\ Q \in Nat /\ N \in 0..1
      /\ A' \in Nat /\ T' \in Nat /\ Q' \in Nat /\ N' \in 0..1
  <2>1. A \in Nat /\ T \in Nat /\ Q \in Nat /\ N \in 0..1
    BY Numbers
  <2>2. ChatInv'
    BY ChatStep
  <2>3. /\ toServer'[d] \in Seq(Incoming) /\ asked'[d] \in Seq(Incoming)
        /\ qMessagesIn' \in Seq(OwnedMessages)
    BY <2>2 DEF ChatTypes, IInv, TypeOK
  <2>4. N' \in 0..1
    BY DEF Now
  <2> QED
    BY <2>1, <2>3, <2>4, OccursFinite
<1>2. /\ toServer \in [Clients -> Seq(Incoming)] /\ asked \in [Clients -> Seq(Incoming)]
      /\ qMessagesIn \in Seq(OwnedMessages)
  BY DEF ChatTypes, IInv, TypeOK
<1>3. \A e, m : Owned(e, m) = Owned(d, MessageAll) <=> e = d /\ m = MessageAll
  BY DEF Owned
<1>4. PICK a, t, q, n, a1, t1, q1, n1 :
        /\ a = A /\ t = T /\ q = Q /\ n = N
        /\ a1 = A' /\ t1 = T' /\ q1 = Q' /\ n1 = N'
  OBVIOUS
<1> SUFFICES (t1 + q1 + n1) + a <= (t + q + n) + a1
  BY <1>4 DEF Due
<1> HIDE DEF A, T, Q, N
<1>11. /\ a \in Nat /\ t \in Nat /\ q \in Nat /\ n \in 0..1
       /\ a1 \in Nat /\ t1 \in Nat /\ q1 \in Nat /\ n1 \in 0..1
  BY <1>1, <1>4
<1>5. ~Unnoticed(PopMessage) => n1 <= n
  BY <1>4, HandStep DEF N
<1>6. ASSUME NEW e \in Clients, NEW m \in Incoming, Ask(e, m)
      PROVE  (t1 + q1 + n1) + a <= (t + q + n) + a1
  <2>1. /\ asked' = [asked EXCEPT ![e] = Append(@, m)]
        /\ toServer' = [toServer EXCEPT ![e] = Append(@, m)]
        /\ UNCHANGED <<qMessagesIn, pc, msg, reached>>
    BY <1>6 DEF Ask, vars, lists, main, history
  <2>2. q1 = q /\ n1 = n
    BY <1>4, <2>1 DEF Now, Q, N
  <2>3. CASE e = d
    <3>1. asked'[d] = Append(asked[d], m) /\ toServer'[d] = Append(toServer[d], m)
      BY <1>2, <2>1, <2>3
    <3>2. PICK k : k = IF m = MessageAll THEN 1 ELSE 0
      OBVIOUS
    <3>3. A' = A + k /\ T' = T + k
      BY <1>2, <3>1, <3>2, CountAppend DEF A, T
    <3> QED
      BY <1>4, <1>11, <2>2, <3>2, <3>3
  <2>4. CASE e # d
    <3>1. A' = A /\ T' = T
      BY <1>2, <2>1, <2>4 DEF A, T
    <3> QED
      BY <1>4, <1>11, <2>2, <3>1
  <2> QED
    BY <2>3, <2>4
<1>7. ASSUME NEW e \in Clients, ChatReceive(e)
      PROVE  (t1 + q1 + n1) + a <= (t + q + n) + a1
  <2>1. /\ toServer[e] # <<>>
        /\ toServer' = [toServer EXCEPT ![e] = Tail(@)]
        /\ qMessagesIn' = Append(qMessagesIn, Owned(e, Head(toServer[e])))
        /\ UNCHANGED <<pc, msg, reached, asked>>
    BY <1>7 DEF ChatReceive, Receive, main, history, told
  <2>2. a1 = a /\ n1 = n
    BY <1>4, <2>1 DEF Now, A, N
  <2>3. PICK x, k : /\ x = Owned(e, Head(toServer[e]))
                    /\ k = IF x = Owned(d, MessageAll) THEN 1 ELSE 0
    OBVIOUS
  <2>4. x \in OwnedMessages
    BY <1>2, <2>1, <2>3, HeadTailProperties DEF Owned, OwnedMessages
  <2>5. Q' = Q + k
    BY <1>2, <2>1, <2>3, <2>4, CountAppend DEF Q
  <2>6. T = T' + k
    <3>1. CASE e = d
      <4>1. toServer'[d] = Tail(toServer[d]) /\ toServer[d] # <<>>
        BY <1>2, <2>1, <3>1
      <4>2. k = IF Head(toServer[d]) = MessageAll THEN 1 ELSE 0
        BY <1>3, <2>3, <3>1
      <4> QED
        BY <1>2, <4>1, <4>2, CountTail DEF T
    <3>2. CASE e # d
      <4>1. T' = T /\ k = 0
        BY <1>2, <1>3, <2>1, <2>3, <3>2 DEF T
      <4> QED
        BY <1>1, <4>1
    <3> QED
      BY <3>1, <3>2
  <2>7. k \in 0..1
    BY <2>3
  <2>8. q1 = q + k
    BY <1>4, <2>5
  <2>9. t = t1 + k
    BY <1>4, <2>6
  <2> QED
    BY <1>11, <2>2, <2>7, <2>8, <2>9
<1>8. CASE Unnoticed(PopMessage)
  <2>1. /\ qMessagesIn # <<>> /\ qMessagesIn' = Tail(qMessagesIn)
        /\ msg' = Head(qMessagesIn) /\ pc = "idle" /\ pc' = "handle"
        /\ UNCHANGED <<toServer, asked>>
    BY <1>8 DEF Unnoticed, PopMessage, At, chat, clients, told
  <2>2. a1 = a /\ t1 = t
    BY <1>4, <2>1 DEF A, T
  <2>3. N = 0 /\ N' = IF Head(qMessagesIn) = Owned(d, MessageAll) THEN 1 ELSE 0
    <3>1. Owned(d, MessageAll)' = Owned(d, MessageAll)
      BY DEF Owned, MessageAll, NewMessage
    <3> QED
      BY <2>1, <3>1 DEF Now, N
  <2>4. Q = Q' + N'
    BY <1>2, <2>1, <2>3, CountTail DEF Q
  <2>5. q = q1 + n1 /\ n = 0
    BY <1>4, <2>3, <2>4
  <2> QED
    BY <1>11, <2>2, <2>5
<1>9. CASE ~Unnoticed(PopMessage) /\ UNCHANGED <<toServer, asked, qMessagesIn>>
  <2>1. a1 = a /\ t1 = t /\ q1 = q
    BY <1>4, <1>9 DEF A, T, Q
  <2> QED
    BY <1>5, <1>9, <1>11, <2>1
<1>10. ASSUME NEW e \in Clients,
              Ask(e, ServerPing(Len(asked[e]) + 1)) \/ Ask(e, MessageAll)
       PROVE  (t1 + q1 + n1) + a <= (t + q + n) + a1
  BY <1>6, <1>10, AskTypes
<1> QED
  BY <1>7, <1>8, <1>9, <1>10
  DEF ChatNext, ChatAccepts, ChatConnect, ChatMain, ChatAllow, ChatValidate, ChatBounce,
      ChatMessageAll, ChatMessageNext, ChatEnd, Unnoticed, Handle, Arrive, CloseSocket,
      Validate, AllowClient, ConnectBack, Approve, Start, Stop, Join, Bounce,
      MessageAllClients, MessageNext, LoopEnd, EraseEnd, Tidy, RemoveBegin, RemoveNext,
      RemoveEnd, EraseReversed, vars, lists, chat, clients, told

LEMMA BalancedStep == ASSUME EnoughIds, HelloInv, ChatNext PROVE Balanced'
<1> USE DEF HelloInv
<1>1. ASSUME ChatMessageNext, NEW c \in Clients, NEW d \in Clients,
             stage[d] # "none", hello = ServerMessage(d), c \in reached' \ reached
      PROVE  /\ c # d /\ Now(c, d) = 1 /\ Now(c, d)' = 0
             /\ UNCHANGED <<toServer, asked, qMessagesIn>>
  <2>1. /\ pc = "loop" /\ pc' = "loop" /\ msg' = msg /\ msg \in OwnedMessages
        /\ \A x \in reached' \ reached : x # msg.remote
        /\ UNCHANGED <<toServer, asked, qMessagesIn>>
    BY <1>1 DEF ChatMessageNext, MessageNext, At, ChatInv, InHand, clients, told
  <2>2. d = msg.remote /\ msg.msg = MessageAll
    BY <1>1, <2>1 DEF Named
  <2>3. msg = Owned(d, MessageAll) /\ c # d
    BY <1>1, <2>1, <2>2 DEF OwnedMessages, Owned
  <2> QED
    BY <1>1, <2>1, <2>3 DEF Now
<1>2. ChatInv'
  BY ChatStep
<1>3. ASSUME NEW c \in Clients, NEW d \in Clients
      PROVE  IF c = d THEN Told(c, d)' = Told(c, d) \/ Told(c, d)' = 0
             ELSE Told(c, d)' + Due(c, d)' + Count(asked[d], MessageAll)
                    <= Told(c, d) + Due(c, d) + Count(asked'[d], MessageAll)
  <2> DEFINE A == Count(asked[d], MessageAll)
             T == Count(toServer[d], MessageAll)
             Q == Count(qMessagesIn, Owned(d, MessageAll))
  <2>1. /\ A \in Nat /\ T \in Nat /\ Q \in Nat /\ Now(c, d) \in 0..1 /\ Told(c, d) \in Nat
        /\ Due(c, d) = T + Q + Now(c, d) /\ Due(c, d)' = T' + Q' + Now(c, d)'
    BY Numbers DEF ChatInv, Due
  <2>2. /\ A' \in Nat /\ T' \in Nat /\ Q' \in Nat /\ Now(c, d)' \in 0..1
        /\ Told(c, d)' \in Nat
    <3>1. /\ toServer'[d] \in Seq(Incoming) /\ asked'[d] \in Seq(Incoming)
          /\ qMessagesIn' \in Seq(OwnedMessages) /\ Sent(c)' \in Seq(Letters)
      BY <1>2, ConcatProperties DEF ChatInv, ChatTypes, IInv, TypeOK, Sent
    <3>2. \A m : Count(Sent(c)', m) \in Nat
      BY <3>1, OccursFinite
    <3>3. Told(c, d)' \in Nat /\ Now(c, d)' \in 0..1
      BY <3>2 DEF Told, Now
    <3> QED
      BY <3>1, <3>3, OccursFinite
  <2>3. Due(c, d)' + A <= Due(c, d) + A'
    BY DueStep
  <2>4. CASE Told(c, d)' \in {Told(c, d), 0}
    <3> HIDE DEF A, T, Q
    <3>1. Told(c, d)' + Due(c, d)' + A <= Told(c, d) + Due(c, d) + A'
      BY <2>1, <2>2, <2>3, <2>4
    <3> QED
      BY <2>4, <3>1 DEF A
  <2>5. CASE /\ ChatMessageNext /\ stage[d] # "none" /\ hello = ServerMessage(d)
             /\ c \in reached' \ reached /\ Told(c, d)' = Told(c, d) + 1
    <3>1. c # d /\ Now(c, d) = 1 /\ Now(c, d)' = 0 /\ A' = A /\ T' = T /\ Q' = Q
      BY <1>1, <2>5
    <3> HIDE DEF A, T, Q
    <3>2. Told(c, d)' + Due(c, d)' + A <= Told(c, d) + Due(c, d) + A'
      BY <2>1, <2>5, <3>1
    <3> QED
      BY <3>1, <3>2 DEF A
  <2> QED
    BY <2>4, <2>5, TellStep
<1> QED
  BY <1>2, <1>3, BalanceKept

LEMMA HelloStep == EnoughIds /\ HelloInv /\ [ChatNext]_chatVars => HelloInv'
<1> SUFFICES ASSUME EnoughIds, HelloInv, [ChatNext]_chatVars PROVE HelloInv'
  OBVIOUS
<1>1. [Next]_vars /\ IdInv
  BY ChatStepServes DEF HelloInv, ChatInv, IdInv, chatVars
<1>2. ChatInv' /\ Ids'
  <2>1. Cardinality(Accepted) <= IdModulus
    BY AcceptedCount, IdsAssumption DEF EnoughIds
  <2> QED
    BY <1>1, <2>1, ChatStep, IdsStep DEF HelloInv, IdInv
<1>3. CASE ChatNext
  BY <1>2, <1>3, NamedStep, BalancedStep DEF HelloInv
<1>4. CASE UNCHANGED chatVars
  <2>1. UNCHANGED <<vars, toServer, toClient, hello, asked, got>>
    BY <1>4 DEF chatVars, chat, clients, told
  <2>2. UNCHANGED <<id, stage, pc, msg, reached, qMessagesIn, client, asio>>
    BY <2>1 DEF vars, peers, lists, main, history
  <2>3. /\ \A d : ServerMessage(d)' = ServerMessage(d) /\ Sent(d)' = Sent(d)
        /\ Given' = Given
    BY <2>1, <2>2 DEF ServerMessage, GetID, Sent, Given, Accepted
  <2>4. Named'
    BY <2>1, <2>2, <2>3 DEF HelloInv, Named, Used
  <2>5. Balanced'
    BY <2>1, <2>2, <2>3 DEF HelloInv, Balanced, Told, Due, Now
  <2> QED
    BY <1>2, <2>4, <2>5 DEF HelloInv
<1> QED
  BY <1>3, <1>4

LEMMA InitHello == ChatInit => HelloInv
<1> SUFFICES ASSUME ChatInit PROVE HelloInv
  OBVIOUS
<1>1. ChatInv /\ Ids
  BY InitChat, InitIds DEF ChatInit, IdInv
<1>2. /\ \A c \in Clients : Sent(c) = <<>> /\ stage[c] = "none"
      /\ qMessagesIn = <<>> /\ pc = "idle"
      /\ \A d \in Clients : toServer[d] = <<>> /\ asked[d] = <<>>
  BY DEF ChatInit, Init, Sent
<1>3. Named
  BY <1>2 DEF Named
<1>4. Balanced
  BY <1>2, CountEmpty DEF Balanced, Told, Due, Now
<1> QED
  BY <1>1, <1>3, <1>4 DEF HelloInv

-----------------------------------------------------------------------------
(* Pings and their order.                                                  *)

\* The items of F from the one behind x up to y are in s in this order, and s has no
\* others of the set K.
Carries(s, x, y, F, K) ==
    \E at \in [(x + 1)..y -> DOMAIN s] :
        /\ \A i \in (x + 1)..y : s[at[i]] = F[i]
        /\ \A i, j \in (x + 1)..y : i < j => at[i] < at[j]
        /\ \A k \in DOMAIN s : s[k] \in K => \E i \in (x + 1)..y : at[i] = k

LEMMA CarriesNothing ==
    ASSUME NEW x \in Nat, NEW F, NEW K
    PROVE  /\ Carries(<<>>, x, x, F, K)
           /\ \A y \in Nat : x <= y /\ Carries(<<>>, x, y, F, K) => y = x
<1>1. (x + 1)..x = {} /\ DOMAIN <<>> = {}
  OBVIOUS
<1>2. Carries(<<>>, x, x, F, K)
  <2> DEFINE at == [i \in (x + 1)..x |-> i]
  <2>1. at \in [(x + 1)..x -> DOMAIN <<>>]
    BY <1>1
  <2> QED
    BY <1>1, <2>1 DEF Carries
<1>3. ASSUME NEW y \in Nat, x <= y, Carries(<<>>, x, y, F, K)
      PROVE  y = x
  <2>1. PICK at : at \in [(x + 1)..y -> DOMAIN <<>>]
    BY <1>3 DEF Carries
  <2>2. y # x => x + 1 \in (x + 1)..y
    BY <1>3
  <2> QED
    BY <1>1, <2>1, <2>2
<1> QED
  BY <1>2, <1>3

LEMMA CarriesSame ==
    ASSUME NEW s, NEW x \in Nat, NEW y \in Nat, NEW F, NEW G, NEW K,
           Carries(s, x, y, F, K), \A i \in (x + 1)..y : F[i] = G[i]
    PROVE  Carries(s, x, y, G, K)
  BY DEF Carries

\* Something else is put at the end.
LEMMA CarriesMore ==
    ASSUME NEW S, NEW s \in Seq(S), NEW m \in S, NEW x \in Nat, NEW y \in Nat, NEW F, NEW K,
           Carries(s, x, y, F, K), m \notin K
    PROVE  Carries(Append(s, m), x, y, F, K)
<1>1. PICK t, n : t = Append(s, m) /\ n = Len(s)
  OBVIOUS
<1>2. /\ n \in Nat /\ DOMAIN s = 1..n /\ DOMAIN t = 1..(n + 1) /\ t[n + 1] = m
      /\ \A i \in 1..n : t[i] = s[i]
  BY <1>1, AppendProperties, LenProperties
<1>3. PICK at \in [(x + 1)..y -> DOMAIN s] :
        /\ \A i \in (x + 1)..y : s[at[i]] = F[i]
        /\ \A i, j \in (x + 1)..y : i < j => at[i] < at[j]
        /\ \A k \in DOMAIN s : s[k] \in K => \E i \in (x + 1)..y : at[i] = k
  BY DEF Carries
<1>4. at \in [(x + 1)..y -> DOMAIN t] /\ \A i \in (x + 1)..y : t[at[i]] = F[i]
  BY <1>2, <1>3
<1>5. \A k \in DOMAIN t : t[k] \in K => \E i \in (x + 1)..y : at[i] = k
  BY <1>2, <1>3
<1> QED
  BY <1>1, <1>3, <1>4, <1>5 DEF Carries

\* The next item is put at the end.
LEMMA CarriesNext ==
    ASSUME NEW S, NEW s \in Seq(S), NEW x \in Nat, NEW y \in Nat, x <= y,
           NEW F, F[y + 1] \in S, NEW K, Carries(s, x, y, F, K)
    PROVE  Carries(Append(s, F[y + 1]), x, y + 1, F, K)
<1>1. PICK t, n, z : t = Append(s, F[y + 1]) /\ n = Len(s) /\ z = y + 1
  OBVIOUS
<1>2. /\ n \in Nat /\ DOMAIN s = 1..n /\ DOMAIN t = 1..(n + 1) /\ t[n + 1] = F[z]
      /\ \A i \in 1..n : t[i] = s[i]
  BY <1>1, AppendProperties, LenProperties
<1>3. PICK at \in [(x + 1)..y -> DOMAIN s] :
        /\ \A i \in (x + 1)..y : s[at[i]] = F[i]
        /\ \A i, j \in (x + 1)..y : i < j => at[i] < at[j]
        /\ \A k \in DOMAIN s : s[k] \in K => \E i \in (x + 1)..y : at[i] = k
  BY DEF Carries
<1> DEFINE to == [i \in (x + 1)..z |-> IF i = z THEN n + 1 ELSE at[i]]
<1>4. /\ z \in (x + 1)..z
      /\ \A i \in (x + 1)..z : i = z \/ (i \in (x + 1)..y /\ i < z)
      /\ \A i \in (x + 1)..y : i \in (x + 1)..z /\ i # z
  BY <1>1
<1>5. /\ \A i \in (x + 1)..y : to[i] = at[i] /\ at[i] \in 1..n
      /\ to[z] = n + 1
  BY <1>2, <1>3, <1>4
<1>6. to \in [(x + 1)..z -> DOMAIN t]
  BY <1>2, <1>4, <1>5
<1> HIDE DEF to
<1>7. \A i \in (x + 1)..z : t[to[i]] = F[i]
  BY <1>2, <1>3, <1>4, <1>5
<1>8. \A i, j \in (x + 1)..z : i < j => to[i] < to[j]
  <2> SUFFICES ASSUME NEW i \in (x + 1)..z, NEW j \in (x + 1)..z, i < j PROVE to[i] < to[j]
    OBVIOUS
  <2>1. i \in (x + 1)..y /\ to[i] \in 1..n
    BY <1>1, <1>4, <1>5
  <2>2. CASE j = z
    BY <1>2, <1>5, <2>1, <2>2
  <2>3. CASE j \in (x + 1)..y
    BY <1>3, <1>5, <2>1, <2>3
  <2> QED
    BY <1>4, <2>2, <2>3
<1>9. \A k \in DOMAIN t : t[k] \in K => \E i \in (x + 1)..z : to[i] = k
  <2> SUFFICES ASSUME NEW k \in 1..(n + 1), t[k] \in K
               PROVE  \E i \in (x + 1)..z : to[i] = k
    BY <1>2
  <2>1. CASE k = n + 1
    BY <1>4, <1>5, <2>1
  <2>2. CASE k \in 1..n
    BY <1>2, <1>3, <1>4, <1>5, <2>2
  <2> QED
    BY <1>2, <2>1, <2>2
<1>10. Carries(t, x, z, F, K)
  BY <1>6, <1>7, <1>8, <1>9 DEF Carries
<1> QED
  BY <1>1, <1>10

\* Something else, or the first item, is taken from the front.
LEMMA CarriesTail ==
    ASSUME NEW S, NEW s \in Seq(S), s # <<>>, NEW x \in Nat, NEW y \in Nat, x <= y,
           NEW F, NEW K, \A i \in (x + 1)..y : F[i] \in K, Carries(s, x, y, F, K)
    PROVE  IF Head(s) \in K
           THEN x < y /\ Head(s) = F[x + 1] /\ Carries(Tail(s), x + 1, y, F, K)
           ELSE Carries(Tail(s), x, y, F, K)
<1>1. PICK t, n : t = Tail(s) /\ n = Len(s)
  OBVIOUS
<1>2. /\ n \in Nat /\ n >= 1 /\ DOMAIN s = 1..n /\ DOMAIN t = 1..(n - 1) /\ s[1] = Head(s)
      /\ \A i \in 1..(n - 1) : t[i] = s[i + 1]
  BY <1>1, HeadTailProperties, LenProperties, EmptySeq
<1>3. PICK at \in [(x + 1)..y -> DOMAIN s] :
        /\ \A i \in (x + 1)..y : s[at[i]] = F[i]
        /\ \A i, j \in (x + 1)..y : i < j => at[i] < at[j]
        /\ \A k \in DOMAIN s : s[k] \in K => \E i \in (x + 1)..y : at[i] = k
  BY DEF Carries
<1>4. \A i \in (x + 1)..y : at[i] \in 1..n
  BY <1>2, <1>3
\* What remains when those up to z are gone.
<1>5. ASSUME NEW z \in {x, x + 1}, z <= y, \A i \in (z + 1)..y : at[i] # 1,
             \A i \in (x + 1)..y : i \notin (z + 1)..y => at[i] = 1
      PROVE  Carries(t, z, y, F, K)
  <2> DEFINE to == [i \in (z + 1)..y |-> at[i] - 1]
  <2>1. \A i \in (z + 1)..y : i \in (x + 1)..y
    BY <1>5
  <2>2. \A i \in (z + 1)..y : /\ to[i] = at[i] - 1 /\ at[i] - 1 \in 1..(n - 1)
                              /\ at[i] \in 1..n /\ (at[i] - 1) + 1 = at[i]
    BY <1>2, <1>4, <1>5, <2>1
  <2>3. to \in [(z + 1)..y -> DOMAIN t]
    BY <1>2, <2>2
  <2> HIDE DEF to
  <2>4. \A i \in (z + 1)..y : t[to[i]] = F[i]
    BY <1>2, <1>3, <2>1, <2>2
  <2>5. \A i, j \in (z + 1)..y : i < j => to[i] < to[j]
    BY <1>3, <2>1, <2>2
  <2>6. \A k \in DOMAIN t : t[k] \in K => \E i \in (z + 1)..y : to[i] = k
    <3> SUFFICES ASSUME NEW k \in 1..(n - 1), t[k] \in K
                 PROVE  \E i \in (z + 1)..y : to[i] = k
      BY <1>2
    <3>1. k + 1 \in 1..n /\ s[k + 1] \in K /\ (k + 1) - 1 = k /\ k + 1 # 1
      BY <1>2
    <3>2. PICK i \in (x + 1)..y : at[i] = k + 1
      BY <1>2, <1>3, <3>1
    <3>3. i \in (z + 1)..y
      BY <1>5, <3>1, <3>2
    <3> QED
      BY <2>2, <3>1, <3>2, <3>3
  <2> QED
    BY <2>3, <2>4, <2>5, <2>6 DEF Carries
<1>6. CASE Head(s) \in K
  <2>1. PICK i \in (x + 1)..y : at[i] = 1
    BY <1>2, <1>3, <1>6
  <2>2. x + 1 \in (x + 1)..y /\ x < y /\ x + 1 <= i
    BY <2>1
  <2>3. i = x + 1
    BY <1>3, <1>4, <2>1, <2>2
  <2>4. \A j \in ((x + 1) + 1)..y : j \in (x + 1)..y /\ j > x + 1
    OBVIOUS
  <2>5. \A j \in ((x + 1) + 1)..y : at[j] # 1
    BY <1>3, <1>4, <2>1, <2>2, <2>3, <2>4
  <2>6. \A j \in (x + 1)..y : j \notin ((x + 1) + 1)..y => j = x + 1
    OBVIOUS
  <2>7. Carries(t, x + 1, y, F, K)
    BY <1>5, <2>1, <2>2, <2>3, <2>5, <2>6
  <2>8. Head(s) = F[x + 1]
    BY <1>2, <1>3, <2>1, <2>3
  <2> QED
    BY <1>1, <1>6, <2>2, <2>7, <2>8
<1>7. CASE Head(s) \notin K
  <2>1. \A i \in (x + 1)..y : at[i] # 1
    BY <1>2, <1>3, <1>7
  <2>2. Carries(t, x, y, F, K)
    BY <1>5, <2>1
  <2> QED
    BY <1>1, <1>7, <2>2
<1> QED
  BY <1>6, <1>7

\* The pings, as they are sent, and as they come from c.
Pings == {m \in Incoming : m.id = "ServerPing"}
OwnPings(c) == {Owned(c, m) : m \in Pings}

Stamps == {m.body : m \in Pings}
PingOf(t) == [id |-> "ServerPing", size |-> 2, body |-> t]

LEMMA PingForms ==
    /\ \A m \in Pings : TimeOf(m) = m.body /\ m = PingOf(TimeOf(m)) /\ TimeOf(m) \in Stamps
    /\ \A t \in Stamps : PingOf(t) \in Pings /\ TimeOf(PingOf(t)) = t
    /\ MessageAll \notin Pings /\ Welcome \notin Pings /\ \A m \in Hellos : m \notin Pings
    /\ \A m \in Letters : m.id = "ServerPing" <=> m \in Pings
    /\ \A n \in Nat : TimeOf(ServerPing(n)) = Time(n)
<1>1. \A n \in Nat : /\ ServerPing(n) = PingOf(<<n, n>>) /\ ServerPing(n).id = "ServerPing"
                     /\ ServerPing(n).body = <<n, n>>
                     /\ TimeOf(ServerPing(n)) = <<n, n>>
  <2> TAKE n \in Nat
  <2>1. ServerPing(n) = PingOf(<<n, n>>)
    BY MessageForms DEF PingOf
  <2>2. SubSeq(<<n, n>>, 1, 2) = <<n, n>>
    <3>1. PICK s : s = <<n, n>>
      OBVIOUS
    <3>2. s \in Seq(Nat) /\ Len(s) = 2 /\ \A i \in 1..2 : s[i] \in Nat
      BY <3>1
    <3>3. /\ SubSeq(s, 1, 2) \in Seq(Nat) /\ Len(SubSeq(s, 1, 2)) = 2
          /\ \A i \in 1..2 : SubSeq(s, 1, 2)[i] = s[i]
      BY <3>2
    <3> QED
      BY <3>1, <3>2, <3>3, SeqEqual
  <2> QED
    BY <2>1, <2>2 DEF PingOf, TimeOf, Pulled
<1>2. /\ \A m \in Pings : \E n \in Nat : m = ServerPing(n)
      /\ MessageAll.id = "MessageAll"
  BY AskedAssumption, MessageForms DEF Pings
<1>3. \A m \in Pings : TimeOf(m) = m.body /\ m = PingOf(TimeOf(m)) /\ TimeOf(m) \in Stamps
  BY <1>1, <1>2 DEF Stamps
<1>4. \A t \in Stamps : PingOf(t) \in Pings /\ TimeOf(PingOf(t)) = t
  BY <1>3 DEF Stamps
<1>5. MessageAll \notin Pings /\ Welcome \notin Pings /\ \A m \in Hellos : m \notin Pings
  BY <1>2, Kinds DEF Pings
<1>6. \A m \in Letters : m.id = "ServerPing" <=> m \in Pings
  BY Kinds DEF Letters, Pings
<1> QED
  BY <1>1, <1>3, <1>4, <1>5, <1>6 DEF Time

LEMMA OwnForms ==
    \A c, d, m : Owned(d, m) \in OwnPings(c) <=> d = c /\ m \in Pings
<1> TAKE c, d, m
<1>1. \A n : Owned(d, m) = Owned(c, n) <=> d = c /\ m = n
  BY DEF Owned
<1> QED
  BY <1>1 DEF OwnPings

\* The pings that c has sent, in order, and as the queue holds them.
Sends(c) == [i \in 1..Len(pinged[c]) |-> PingOf(pinged[c][i])]
Owns(c) == [i \in 1..Len(pinged[c]) |-> Owned(c, Sends(c)[i])]

HasPing(c) == pc = "handle" /\ msg.remote = c /\ msg.msg \in Pings

\* What c has got back is the beginning of what it has sent.
Answered(c) ==
    /\ Len(ponged[c]) <= Len(pinged[c])
    /\ \A i \in 1..Len(ponged[c]) : ponged[c][i] = pinged[c][i]

\* Those after the b-th are first with main, then in the queue, then on their way to
\* the server.
Upstream(c, b) ==
    \E x, y \in 0..Len(pinged[c]) :
        /\ IF HasPing(c) THEN x = b + 1 /\ msg.msg = Sends(c)[x] ELSE x = b
        /\ x <= y
        /\ Carries(qMessagesIn, x, y, Owns(c), OwnPings(c))
        /\ Carries(toServer[c], y, Len(pinged[c]), Sends(c), Pings)

\* Those up to the b-th that c has not got back are on their way to it.
InOrder(c) ==
    \E b \in Len(ponged[c])..Len(pinged[c]) :
        /\ Carries(toClient[c], Len(ponged[c]), b, Sends(c), Pings)
        /\ client[c] # "closed" => Upstream(c, b)

PingTypes ==
    /\ pinged \in [Clients -> Seq(Stamps)]
    /\ ponged \in [Clients -> Seq(Stamps)]

PingInv ==
    /\ ChatInv
    /\ PingTypes
    /\ \A c \in Clients :
        Answered(c) /\ InOrder(c) /\ (c \notin Accepted => pinged[c] = <<>>)

LEMMA SendForms ==
    ASSUME PingTypes, NEW c \in Clients
    PROVE  /\ Len(pinged[c]) \in Nat /\ Len(ponged[c]) \in Nat
           /\ DOMAIN pinged[c] = 1..Len(pinged[c])
           /\ \A i \in 1..Len(pinged[c]) :
                /\ Sends(c)[i] = PingOf(pinged[c][i]) /\ Sends(c)[i] \in Pings
                /\ pinged[c][i] \in Stamps /\ TimeOf(Sends(c)[i]) = pinged[c][i]
                /\ Owns(c)[i] = Owned(c, Sends(c)[i]) /\ Owns(c)[i] \in OwnPings(c)
<1>1. /\ pinged[c] \in Seq(Stamps) /\ Len(pinged[c]) \in Nat /\ Len(ponged[c]) \in Nat
      /\ DOMAIN pinged[c] = 1..Len(pinged[c])
  BY LenProperties DEF PingTypes
<1> QED
  BY <1>1, ElementOfSeq, PingForms, OwnForms DEF Sends, Owns

\* A step that moves no ping of c.
Quiet(c) ==
    /\ UNCHANGED <<pinged[c], ponged[c], toServer[c]>>
    /\ \/ toClient'[c] = toClient[c]
       \/ \E m \in Letters : m \notin Pings /\ toClient'[c] = Append(toClient[c], m)
    /\ \/ qMessagesIn' = qMessagesIn
       \/ \E m \in OwnedMessages :
            m.remote # c /\ qMessagesIn' = Append(qMessagesIn, m)
    /\ client[c] = "closed" => client'[c] = "closed"
    /\ HasPing(c)' <=> HasPing(c)
    /\ HasPing(c) => msg' = msg

LEMMA HandKept ==
    ASSUME ChatNext, ~Unnoticed(PopMessage), NEW c \in Clients,
           \A d \in Clients : ~ChatBounce(d)
    PROVE  (HasPing(c)' <=> HasPing(c)) /\ (HasPing(c) => msg' = msg)
<1>1. ASSUME pc' = "handle" PROVE msg' = msg /\ pc = "handle"
  BY <1>1
  DEF ChatNext, ChatAccepts, ChatConnect, ChatMain, ChatAllow, ChatValidate, ChatReceive,
      ChatMessageAll, ChatMessageNext, ChatEnd, Unnoticed, Ask, Handle, Arrive, CloseSocket,
      Validate, Receive, AllowClient, ConnectBack, Approve, Start, Stop, Join,
      MessageAllClients, MessageNext, LoopEnd, EraseEnd, Return, EraseCall, Tidy,
      RemoveBegin, RemoveNext, RemoveEnd, EraseReversed, vars, main, history, At
<1>2. ASSUME HasPing(c) PROVE msg' = msg /\ pc' = "handle"
  <2>1. pc = "handle" /\ msg.msg.id # "MessageAll"
    BY <1>2 DEF HasPing, Pings
  <2> QED
    BY <2>1
    DEF ChatNext, ChatAccepts, ChatConnect, ChatMain, ChatAllow, ChatValidate, ChatReceive,
        ChatMessageAll, ChatMessageNext, ChatEnd, Unnoticed, Ask, Handle, Arrive, CloseSocket,
        Validate, Receive, AllowClient, ConnectBack, Approve, Start, Stop, Join,
        MessageAllClients, MessageNext, LoopEnd, EraseEnd, Tidy,
        RemoveBegin, RemoveNext, RemoveEnd, EraseReversed, vars, main, history, At
<1> QED
  BY <1>1, <1>2 DEF HasPing

LEMMA ClosedStays ==
    ASSUME TypeOK, ChatNext, NEW c \in Clients, client[c] = "closed"
    PROVE  client'[c] = "closed"
<1>1. CASE UNCHANGED client
  BY <1>1
<1>2. ASSUME NEW d \in Clients, Arrive(d) \/ CloseSocket(d) \/ AllowClient(d)
      PROVE  client'[c] = "closed"
  BY <1>2 DEF Arrive, CloseSocket, AllowClient, IsConnected, TypeOK
<1>3. CASE EraseEnd
  BY <1>3 DEF EraseEnd
<1> QED
  BY <1>1, <1>2, <1>3
  DEF ChatNext, ChatAccepts, ChatConnect, ChatMain, ChatAllow, ChatValidate, ChatReceive,
      ChatBounce, ChatMessageAll, ChatMessageNext, ChatEnd, Unnoticed, Ask, Handle,
      Validate, Receive, ConnectBack, Approve, Start, Stop, Join, PopMessage, Bounce,
      MessageAllClients, MessageNext, LoopEnd, Tidy, RemoveBegin, RemoveNext, RemoveEnd,
      EraseReversed, vars, peers

\* Which steps move pings of c.
LEMMA PingMoves ==
    ASSUME ChatInv, PingTypes, ChatNext, NEW c \in Clients
    PROVE  \/ Ask(c, ServerPing(Len(asked[c]) + 1)) \/ Ask(c, MessageAll)
           \/ Handle(c) \/ ChatReceive(c) \/ Unnoticed(PopMessage)
           \/ ChatBounce(c) \/ ChatAllow(c)
           \/ Quiet(c)
<1> USE DEF ChatInv
<1>1. client[c] = "closed" => client'[c] = "closed"
  BY ClosedStays DEF IInv
<1>2. ASSUME NEW d \in Clients, d # c, ChatBounce(d) PROVE Quiet(c)
  <2>1. ~HasPing(c) /\ ~HasPing(c)'
    BY <1>2 DEF ChatBounce, Bounce, Return, HasPing
  <2>2. toClient'[c] = toClient[c] /\ UNCHANGED <<pinged, ponged, toServer, qMessagesIn>>
    BY <1>2 DEF ChatBounce, Bounce, SendTo, clients, told, lists
  <2> QED
    BY <1>1, <2>1, <2>2 DEF Quiet
<1> SUFFICES ASSUME \A d \in Clients : ~ChatBounce(d), ~Unnoticed(PopMessage),
                    ~Ask(c, ServerPing(Len(asked[c]) + 1)), ~Ask(c, MessageAll),
                    ~Handle(c), ~ChatReceive(c), ~ChatAllow(c)
             PROVE  Quiet(c)
  BY <1>2
<1>3. (HasPing(c)' <=> HasPing(c)) /\ (HasPing(c) => msg' = msg)
  BY HandKept
<1>4. ASSUME NEW d \in Clients, d # c,
             \/ Ask(d, ServerPing(Len(asked[d]) + 1)) \/ Ask(d, MessageAll)
             \/ Handle(d) \/ ChatReceive(d) \/ ChatAllow(d)
      PROVE  /\ UNCHANGED <<pinged[c], ponged[c], toServer[c], toClient[c]>>
             /\ \/ qMessagesIn' = qMessagesIn
                \/ \E m \in OwnedMessages :
                      m.remote # c /\ qMessagesIn' = Append(qMessagesIn, m)
  <2>1. CASE Ask(d, ServerPing(Len(asked[d]) + 1)) \/ Ask(d, MessageAll) \/ Handle(d)
    BY <1>4, <2>1 DEF Ask, Handle, ChatTypes, PingTypes, vars, lists
  <2>2. CASE ChatReceive(d)
    <3>1. Head(toServer[d]) \in Incoming
      BY <2>2, HeadTailProperties DEF ChatReceive, ChatTypes
    <3>2. Owned(d, Head(toServer[d])) \in OwnedMessages /\ Owned(d, Head(toServer[d])).remote # c
      BY <1>4, <3>1 DEF Owned, OwnedMessages
    <3> QED
      BY <1>4, <2>2, <3>2 DEF ChatReceive, Receive, ChatTypes, told
  <2>3. CASE ChatAllow(d)
    BY <1>4, <2>3 DEF ChatAllow, AllowClient, Accepts, ChatTypes, clients, told
  <2> QED
    BY <1>4, <2>1, <2>2, <2>3
<1>5. CASE UNCHANGED <<pinged, ponged, toServer, toClient, qMessagesIn>>
  BY <1>1, <1>3, <1>5 DEF Quiet
<1>6. CASE ChatMessageNext
  <2>1. PICK m : /\ m \in Letters /\ m \notin Pings
                 /\ \A d \in Clients : toClient'[d] \in {toClient[d], Append(toClient[d], m)}
    <3>1. hello \in Letters /\ hello \notin Pings /\ SendTo(reached' \ reached, hello)
      BY <1>6, PingForms DEF ChatMessageNext, MessageNext, At, InHand, Letters
    <3> QED
      BY <3>1, SendTypes
  <2>2. UNCHANGED <<pinged, ponged, toServer, qMessagesIn>>
    BY <1>6 DEF ChatMessageNext, MessageNext, clients, told
  <2> QED
    BY <1>1, <1>3, <2>1, <2>2 DEF Quiet
<1>7. ASSUME NEW d \in Clients, ChatValidate(d)
      PROVE  UNCHANGED <<pinged, ponged, toServer, toClient, qMessagesIn>>
  <2>1. \A m : SendTo({}, m) => toClient' = toClient
    BY DEF SendTo, ChatTypes
  <2> QED
    BY <1>7, <2>1 DEF ChatValidate, Validate, Accepts, clients, told, lists
<1>8. ASSUME \/ Unnoticed(Start) \/ Unnoticed(Stop) \/ Unnoticed(Join)
             \/ Unnoticed(Tidy) \/ Unnoticed(ChatConnect) \/ Unnoticed(Approve)
             \/ ChatEnd \/ ChatMessageAll
             \/ \E d \in Clients : Unnoticed(Arrive(d)) \/ Unnoticed(CloseSocket(d))
      PROVE  UNCHANGED <<pinged, ponged, toServer, toClient, qMessagesIn>>
  BY <1>8
  DEF ChatMessageAll, ChatEnd, Unnoticed, Arrive, CloseSocket, ChatConnect, ConnectBack,
      Approve, Start, Stop, Join, MessageAllClients, LoopEnd, EraseEnd, Tidy, RemoveBegin,
      RemoveNext, RemoveEnd, EraseReversed, lists, chat, clients, told
<1>9. \A d \in Clients :
        d # c /\ (\/ Ask(d, ServerPing(Len(asked[d]) + 1)) \/ Ask(d, MessageAll)
                  \/ Handle(d) \/ ChatReceive(d) \/ ChatAllow(d))
          => Quiet(c)
  BY <1>1, <1>3, <1>4 DEF Quiet
<1> QED
  BY <1>5, <1>6, <1>7, <1>8, <1>9 DEF ChatNext, ChatAccepts, ChatMain

LEMMA QuietStep ==
    ASSUME PingInv, NEW c \in Clients, Quiet(c)
    PROVE  Answered(c)' /\ InOrder(c)'
<1> USE DEF PingInv, ChatInv
<1>1. /\ Len(pinged[c]) \in Nat /\ Len(ponged[c]) \in Nat
      /\ toClient[c] \in Seq(Letters) /\ qMessagesIn \in Seq(OwnedMessages)
  BY SendForms DEF IInv, TypeOK, ChatTypes
<1>2. UNCHANGED <<pinged[c], ponged[c], toServer[c], Sends(c), Owns(c)>>
  BY DEF Quiet, Sends, Owns
<1>3. Answered(c)'
  BY <1>2 DEF Answered
<1>4. \A m \in OwnedMessages : m.remote # c => m \notin OwnPings(c)
  BY DEF OwnPings, Owned
<1>5. ASSUME NEW x \in Nat, NEW y \in Nat
      PROVE  /\ Carries(qMessagesIn, x, y, Owns(c), OwnPings(c))
                    => Carries(qMessagesIn', x, y, Owns(c), OwnPings(c))
             /\ Carries(toClient[c], x, y, Sends(c), Pings)
                    => Carries(toClient'[c], x, y, Sends(c), Pings)
  BY <1>1, <1>4, <1>5, CarriesMore DEF Quiet
<1>6. PICK b \in Len(ponged[c])..Len(pinged[c]) :
        /\ Carries(toClient[c], Len(ponged[c]), b, Sends(c), Pings)
        /\ client[c] # "closed" => Upstream(c, b)
  BY DEF InOrder
<1>7. ASSUME client'[c] # "closed" PROVE Upstream(c, b)'
  <2>1. Upstream(c, b)
    BY <1>6, <1>7 DEF Quiet
  <2>2. PICK x \in 0..Len(pinged[c]), y \in 0..Len(pinged[c]) :
            /\ IF HasPing(c) THEN x = b + 1 /\ msg.msg = Sends(c)[x] ELSE x = b
            /\ x <= y
            /\ Carries(qMessagesIn, x, y, Owns(c), OwnPings(c))
            /\ Carries(toServer[c], y, Len(pinged[c]), Sends(c), Pings)
    BY <2>1 DEF Upstream
  <2>3. Carries(qMessagesIn', x, y, Owns(c), OwnPings(c))
    BY <1>5, <2>2
  <2>4. IF HasPing(c)' THEN x = b + 1 /\ msg'.msg = Sends(c)[x] ELSE x = b
    BY <2>2 DEF Quiet
  <2> QED
    BY <1>2, <2>2, <2>3, <2>4 DEF Upstream, OwnPings
<1>8. Carries(toClient'[c], Len(ponged[c]), b, Sends(c), Pings)
  BY <1>1, <1>5, <1>6
<1> QED
  BY <1>2, <1>3, <1>6, <1>7, <1>8 DEF InOrder

\* A further ping, or something else, is put on its way to the server.
LEMMA AskStep ==
    ASSUME PingInv, NEW c \in Clients, NEW m \in Incoming, Ask(c, m)
    PROVE  Answered(c)' /\ InOrder(c)'
<1> USE DEF PingInv, ChatInv
<1> DEFINE p == pinged[c]
           n == Len(pinged[c])
           a == Len(ponged[c])
<1>1. /\ p \in Seq(Stamps) /\ n \in Nat /\ a \in Nat /\ a <= n
      /\ toServer[c] \in Seq(Incoming)
      /\ \A i \in 1..a : ponged[c][i] = p[i]
      /\ \A i \in 1..n : Sends(c)[i] = PingOf(p[i])
  BY SendForms DEF PingTypes, ChatTypes, Answered
<1>2. /\ UNCHANGED <<vars, toClient, ponged>>
      /\ toServer'[c] = Append(toServer[c], m)
      /\ pinged'[c] = WithTime(p, m)
  BY DEF Ask, PingTypes, ChatTypes
<1>3. /\ UNCHANGED <<pc, msg, client, qMessagesIn>>
      /\ UNCHANGED <<HasPing(c), OwnPings(c)>>
  BY <1>2 DEF vars, main, peers, lists, HasPing, OwnPings
<1>4. PICK b \in a..n :
        /\ Carries(toClient[c], a, b, Sends(c), Pings)
        /\ client[c] # "closed" => Upstream(c, b)
  BY DEF InOrder
<1>5. CASE m \notin Pings
  <2>1. pinged'[c] = p
    BY <1>2, <1>5 DEF WithTime, Pings
  <2>2. UNCHANGED <<Sends(c), Owns(c)>>
    BY <2>1 DEF Sends, Owns
  <2>3. \A x, y \in Nat : Carries(toServer[c], x, y, Sends(c), Pings)
                            => Carries(toServer'[c], x, y, Sends(c), Pings)
    BY <1>1, <1>2, <1>5, CarriesMore
  <2>4. Answered(c)'
    BY <1>2, <2>1 DEF Answered
  <2>5. ASSUME Upstream(c, b) PROVE Upstream(c, b)'
    <3>1. PICK x \in 0..n, y \in 0..n :
            /\ IF HasPing(c) THEN x = b + 1 /\ msg.msg = Sends(c)[x] ELSE x = b
            /\ x <= y
            /\ Carries(qMessagesIn, x, y, Owns(c), OwnPings(c))
            /\ Carries(toServer[c], y, n, Sends(c), Pings)
      BY <2>5 DEF Upstream
    <3>2. Carries(toServer'[c], y, n, Sends(c), Pings)
      BY <1>1, <2>3, <3>1
    <3> QED
      BY <1>3, <2>1, <2>2, <3>1, <3>2 DEF Upstream
  <2> QED
    BY <1>2, <1>3, <1>4, <2>1, <2>2, <2>4, <2>5 DEF InOrder
<1>6. CASE m \in Pings
  <2>1. PICK t, q, S, O : /\ t = TimeOf(m) /\ q = pinged'[c] /\ S = Sends(c)' /\ O = Owns(c)'
    OBVIOUS
  <2>2. q = Append(p, t) /\ t \in Stamps /\ m = PingOf(t)
    BY <1>2, <1>6, <2>1, PingForms DEF WithTime, Pings
  <2>3. /\ Len(q) = n + 1 /\ q[n + 1] = t /\ \A i \in 1..n : q[i] = p[i]
        /\ \A i \in 1..Len(q) : S[i] = PingOf(q[i]) /\ O[i] = Owned(c, S[i])
    <3>1. Len(q) = n + 1 /\ q[n + 1] = t /\ \A i \in 1..n : q[i] = p[i]
      BY <1>1, <2>2, AppendProperties
    <3>2. \A i \in 1..Len(q) : S[i] = PingOf(q[i]) /\ O[i] = Owned(c, S[i])
      BY <2>1 DEF Sends, Owns
    <3> QED
      BY <3>1, <3>2
  <2>4. /\ \A i \in 1..n : S[i] = Sends(c)[i] /\ O[i] = Owns(c)[i]
        /\ S[n + 1] = m
    <3>1. n + 1 \in 1..Len(q) /\ \A i \in 1..n : i \in 1..Len(q)
      BY <1>1, <2>3
    <3>2. S[n + 1] = m
      BY <2>2, <2>3, <3>1
    <3>3. ASSUME NEW i \in 1..n PROVE S[i] = Sends(c)[i] /\ O[i] = Owns(c)[i]
      <4>1. S[i] = Sends(c)[i] /\ O[i] = Owned(c, S[i])
        BY <1>1, <2>3, <3>1
      <4>2. Owns(c)[i] = Owned(c, Sends(c)[i])
        BY DEF Owns
      <4> QED
        BY <4>1, <4>2
    <3> QED
      BY <3>2, <3>3
  <2>5. \A s, x, y : x \in Nat /\ y \in 0..n =>
            \A K : /\ Carries(s, x, y, Sends(c), K) => Carries(s, x, y, S, K)
                   /\ Carries(s, x, y, Owns(c), K) => Carries(s, x, y, O, K)
    <3> SUFFICES ASSUME NEW s, NEW x \in Nat, NEW y \in 0..n, NEW K
                 PROVE  /\ Carries(s, x, y, Sends(c), K) => Carries(s, x, y, S, K)
                        /\ Carries(s, x, y, Owns(c), K) => Carries(s, x, y, O, K)
      OBVIOUS
    <3>1. \A i \in (x + 1)..y : i \in 1..n
      BY <1>1
    <3> QED
      BY <2>4, <3>1 DEF Carries
  <2>6. Answered(c)'
    BY <1>1, <1>2, <2>1, <2>3 DEF Answered
  <2>7. Carries(toClient'[c], a, b, S, Pings)
    BY <1>1, <1>2, <1>4, <2>5
  <2>8. ASSUME Upstream(c, b) PROVE Upstream(c, b)'
    <3>1. PICK x \in 0..n, y \in 0..n :
            /\ IF HasPing(c) THEN x = b + 1 /\ msg.msg = Sends(c)[x] ELSE x = b
            /\ x <= y
            /\ Carries(qMessagesIn, x, y, Owns(c), OwnPings(c))
            /\ Carries(toServer[c], y, n, Sends(c), Pings)
      BY <2>8 DEF Upstream
    <3>2. Carries(toServer[c], y, n, S, Pings) /\ y \in Nat /\ y <= n
      BY <1>1, <2>5, <3>1
    <3>3. Carries(toServer'[c], y, n + 1, S, Pings)
      <4>1. PICK s : s = toServer[c] /\ s \in Seq(Incoming) /\ toServer'[c] = Append(s, S[n + 1])
        BY <1>1, <1>2, <2>4
      <4>2. Carries(s, y, n, S, Pings) /\ S[n + 1] \in Incoming
        BY <2>4, <3>2, <4>1
      <4>3. Carries(Append(s, S[n + 1]), y, n + 1, S, Pings)
        BY <1>1, <3>2, <4>1, <4>2, CarriesNext
      <4> QED
        BY <4>1, <4>3
    <3>4. Carries(qMessagesIn', x, y, O, OwnPings(c))
      BY <1>3, <2>5, <3>1
    <3>5. IF HasPing(c)' THEN x = b + 1 /\ msg'.msg = S[x] ELSE x = b
      BY <1>1, <1>3, <1>4, <2>4, <3>1
    <3>6. x \in 0..(n + 1) /\ y \in 0..(n + 1)
      BY <1>1, <3>1
    <3> QED
      BY <1>3, <2>1, <2>3, <3>1, <3>3, <3>4, <3>5, <3>6 DEF Upstream
  <2>9. b \in a..(n + 1)
    BY <1>1, <1>4
  <2> QED
    BY <1>2, <1>3, <1>4, <2>1, <2>3, <2>6, <2>7, <2>8, <2>9 DEF InOrder
<1> QED
  BY <1>5, <1>6

\* A ping that c handles is the one after those it has got back.
LEMMA HandleStep ==
    ASSUME PingInv, NEW c \in Clients, Handle(c)
    PROVE  /\ Answered(c)' /\ InOrder(c)' /\ pinged' = pinged
           /\ \/ ponged'[c] = ponged[c]
              \/ /\ Len(ponged[c]) < Len(pinged[c])
                 /\ ponged'[c] = Append(ponged[c], pinged[c][Len(ponged[c]) + 1])
<1> USE DEF PingInv, ChatInv
<1>1. PICK p, n, a, r, t, S :
        /\ p = pinged[c] /\ n = Len(pinged[c]) /\ a = Len(ponged[c]) /\ r = ponged[c]
        /\ t = toClient[c] /\ S = Sends(c)
  OBVIOUS
<1>2. /\ p \in Seq(Stamps) /\ r \in Seq(Stamps) /\ n \in Nat /\ a \in Nat /\ a <= n
      /\ t \in Seq(Letters) /\ t # <<>> /\ Head(t) \in Letters
      /\ \A i \in 1..a : r[i] = p[i]
      /\ \A i \in 1..n : p[i] \in Stamps /\ S[i] \in Pings /\ TimeOf(S[i]) = p[i]
  BY <1>1, SendForms, HeadTailProperties DEF PingTypes, ChatTypes, Answered, Handle
<1>3. /\ UNCHANGED <<vars, pinged, toServer>>
      /\ toClient'[c] = Tail(t)
      /\ ponged'[c] = WithTime(r, Head(t))
  BY <1>1 DEF Handle, PingTypes, ChatTypes
<1>4. PICK b \in a..n :
        /\ Carries(t, a, b, S, Pings)
        /\ client[c] # "closed" => Upstream(c, b)
  BY <1>1 DEF InOrder
<1>5. /\ UNCHANGED <<client, Sends(c), Upstream(c, b)>> /\ pinged'[c] = p
  BY <1>1, <1>3 DEF vars, main, peers, lists, HasPing, OwnPings, Upstream, Sends, Owns
<1>6. b \in Nat /\ a <= b /\ \A i \in (a + 1)..b : S[i] \in Pings
  BY <1>2, <1>4
<1>7. IF Head(t) \in Pings
      THEN a < b /\ Head(t) = S[a + 1] /\ Carries(Tail(t), a + 1, b, S, Pings)
      ELSE Carries(Tail(t), a, b, S, Pings)
  BY <1>2, <1>4, <1>6, CarriesTail
<1>8. CASE Head(t) \in Pings
  <2>1. a + 1 \in 1..n /\ a < n /\ b \in (a + 1)..n
    BY <1>2, <1>4, <1>7, <1>8
  <2>2. ponged'[c] = Append(r, p[a + 1])
    BY <1>2, <1>3, <1>7, <1>8, <2>1 DEF WithTime, Pings
  <2>3. /\ Len(ponged'[c]) = a + 1 /\ ponged'[c][a + 1] = p[a + 1]
        /\ \A i \in 1..a : ponged'[c][i] = r[i]
    BY <1>1, <1>2, <2>1, <2>2, AppendProperties
  <2>4. \A i \in 1..(a + 1) : ponged'[c][i] = p[i]
    <3>1. \A i \in 1..a : ponged'[c][i] = p[i]
      BY <1>2, <2>3
    <3>2. \A i \in 1..(a + 1) : i \in 1..a \/ i = a + 1
      BY <1>2
    <3> QED
      BY <2>3, <3>1, <3>2
  <2>5. Answered(c)'
    BY <1>1, <1>5, <2>1, <2>3, <2>4 DEF Answered
  <2>6. InOrder(c)'
    BY <1>1, <1>3, <1>4, <1>5, <1>7, <1>8, <2>1, <2>3 DEF InOrder
  <2> QED
    BY <1>1, <1>3, <2>1, <2>2, <2>5, <2>6
<1>9. CASE Head(t) \notin Pings
  <2>1. ponged'[c] = r
    BY <1>2, <1>3, <1>9, PingForms DEF WithTime
  <2>2. Answered(c)'
    BY <1>1, <1>5, <2>1 DEF Answered
  <2>3. InOrder(c)'
    BY <1>1, <1>3, <1>4, <1>5, <1>7, <1>9, <2>1 DEF InOrder
  <2> QED
    BY <1>1, <1>3, <2>1, <2>2, <2>3
<1> QED
  BY <1>8, <1>9

\* The next ping is moved from the channel to the end of the queue.
LEMMA QueuedStep ==
    ASSUME PingInv, NEW c \in Clients, ChatReceive(c)
    PROVE  Answered(c)' /\ InOrder(c)'
<1> USE DEF PingInv, ChatInv
<1>1. PICK n, a, s, q, m, S, O :
        /\ n = Len(pinged[c]) /\ a = Len(ponged[c]) /\ s = toServer[c] /\ q = qMessagesIn
        /\ m = Head(s) /\ S = Sends(c) /\ O = Owns(c)
  OBVIOUS
<1>2. /\ n \in Nat /\ a \in Nat /\ s \in Seq(Incoming) /\ s # <<>> /\ m \in Incoming
      /\ q \in Seq(OwnedMessages) /\ Owned(c, m) \in OwnedMessages
      /\ \A i \in 1..n : S[i] \in Pings /\ O[i] = Owned(c, S[i]) /\ O[i] \in OwnPings(c)
  BY <1>1, SendForms, HeadTailProperties
  DEF ChatTypes, IInv, TypeOK, ChatReceive, Owned, OwnedMessages
<1>3. /\ UNCHANGED <<pc, msg, client, toClient, pinged, ponged>>
      /\ toServer'[c] = Tail(s)
      /\ qMessagesIn' = Append(q, Owned(c, m))
  BY <1>1 DEF ChatReceive, Receive, ChatTypes, peers, main, told
<1>4. UNCHANGED <<HasPing(c), OwnPings(c), Sends(c), Owns(c), Answered(c)>>
  BY <1>3 DEF HasPing, OwnPings, Sends, Owns, Answered
<1>5. ASSUME NEW b, Upstream(c, b) PROVE Upstream(c, b)'
  <2>1. PICK x \in 0..n, y \in 0..n :
            /\ IF HasPing(c) THEN x = b + 1 /\ msg.msg = S[x] ELSE x = b
            /\ x <= y
            /\ Carries(q, x, y, O, OwnPings(c))
            /\ Carries(s, y, n, S, Pings)
    BY <1>1, <1>5 DEF Upstream
  <2>2. /\ x \in Nat /\ y \in Nat /\ y <= n /\ \A i \in (y + 1)..n : S[i] \in Pings
    BY <1>2, <2>1
  <2>3. IF m \in Pings THEN y < n /\ m = S[y + 1] /\ Carries(Tail(s), y + 1, n, S, Pings)
        ELSE Carries(Tail(s), y, n, S, Pings)
    BY <1>1, <1>2, <2>1, <2>2, CarriesTail
  <2>4. CASE m \in Pings
    <3>1. y + 1 \in 0..n /\ x <= y + 1 /\ y + 1 \in 1..n
      <4>1. y < n
        BY <2>3, <2>4
      <4> QED
        BY <1>2, <2>1, <2>2, <4>1
    <3>2. O[y + 1] = Owned(c, m)
      BY <1>2, <2>3, <2>4, <3>1
    <3>3. Carries(Append(q, O[y + 1]), x, y + 1, O, OwnPings(c))
      <4>1. O[y + 1] \in OwnedMessages
        BY <1>2, <3>2
      <4> QED
        BY <1>2, <2>1, <2>2, <4>1, CarriesNext
    <3> QED
      BY <1>1, <1>3, <1>4, <2>1, <2>3, <2>4, <3>1, <3>2, <3>3 DEF Upstream
  <2>5. CASE m \notin Pings
    <3>1. Owned(c, m) \notin OwnPings(c)
      BY <2>5, OwnForms
    <3>2. Carries(Append(q, Owned(c, m)), x, y, O, OwnPings(c))
      BY <1>2, <2>1, <2>2, <3>1, CarriesMore
    <3> QED
      BY <1>1, <1>3, <1>4, <2>1, <2>3, <2>5, <3>2 DEF Upstream
  <2> QED
    BY <2>4, <2>5
<1> QED
  BY <1>3, <1>4, <1>5 DEF InOrder

\* The first ping of c in the queue is taken into main's hands, or another message.
LEMMA TakenStep ==
    ASSUME PingInv, NEW c \in Clients, Unnoticed(PopMessage)
    PROVE  Answered(c)' /\ InOrder(c)'
<1> USE DEF PingInv, ChatInv
<1>1. PICK n, a, q, m, O :
        /\ n = Len(pinged[c]) /\ a = Len(ponged[c]) /\ q = qMessagesIn
        /\ m = Head(q) /\ O = Owns(c)
  OBVIOUS
<1>2. /\ n \in Nat /\ a \in Nat /\ q \in Seq(OwnedMessages) /\ q # <<>>
      /\ m \in OwnedMessages /\ m = Owned(m.remote, m.msg)
      /\ \A i \in 1..n : O[i] \in OwnPings(c) /\ O[i] = Owned(c, Sends(c)[i])
  <2>1. q \in Seq(OwnedMessages) /\ q # <<>>
    BY <1>1 DEF IInv, TypeOK, Unnoticed, PopMessage
  <2>2. m \in OwnedMessages
    BY <1>1, <2>1, HeadTailProperties
  <2>3. m = Owned(m.remote, m.msg)
    BY <2>2 DEF Owned, OwnedMessages
  <2> QED
    BY <1>1, <2>1, <2>2, <2>3, SendForms
<1>3. /\ UNCHANGED <<client, toClient, pinged, ponged, toServer>>
      /\ pc = "idle" /\ pc' = "handle" /\ msg' = m
      /\ qMessagesIn' = Tail(q)
  BY <1>1 DEF Unnoticed, PopMessage, At, peers, chat, clients, told
<1>4. UNCHANGED <<OwnPings(c), Sends(c), Owns(c), Answered(c)>>
  BY <1>3 DEF OwnPings, Sends, Owns, Answered
<1>5. ~HasPing(c) /\ (HasPing(c)' <=> m \in OwnPings(c))
  BY <1>2, <1>3, OwnForms DEF HasPing, Owned
<1>6. ASSUME NEW b, Upstream(c, b) PROVE Upstream(c, b)'
  <2>1. PICK x \in 0..n, y \in 0..n :
            /\ x = b /\ x <= y
            /\ Carries(q, x, y, O, OwnPings(c))
            /\ Carries(toServer[c], y, n, Sends(c), Pings)
    BY <1>1, <1>5, <1>6 DEF Upstream
  <2>2. /\ x \in Nat /\ y \in Nat /\ \A i \in (x + 1)..y : O[i] \in OwnPings(c)
    BY <1>2, <2>1
  <2>3. IF m \in OwnPings(c)
        THEN x < y /\ m = O[x + 1] /\ Carries(Tail(q), x + 1, y, O, OwnPings(c))
        ELSE Carries(Tail(q), x, y, O, OwnPings(c))
    BY <1>1, <1>2, <2>1, <2>2, CarriesTail
  <2>4. CASE m \in OwnPings(c)
    <3>1. x + 1 \in 0..n /\ x + 1 <= y /\ x + 1 \in 1..n
      <4>1. x < y
        BY <2>3, <2>4
      <4> QED
        BY <1>2, <2>1, <2>2, <4>1
    <3>2. m.msg = Sends(c)[x + 1]
      <4>1. m = Owned(c, Sends(c)[x + 1])
        BY <1>2, <2>3, <2>4, <3>1
      <4> QED
        BY <4>1 DEF Owned
    <3> QED
      BY <1>1, <1>3, <1>4, <1>5, <2>1, <2>3, <2>4, <3>1, <3>2 DEF Upstream
  <2>5. CASE m \notin OwnPings(c)
    BY <1>1, <1>3, <1>4, <1>5, <2>1, <2>3, <2>5 DEF Upstream
  <2> QED
    BY <2>4, <2>5
<1> QED
  BY <1>3, <1>4, <1>6 DEF InOrder

\* The ping in main's hands is put on its way back, if c is connected.
LEMMA BouncedStep ==
    ASSUME PingInv, NEW c \in Clients, ChatBounce(c)
    PROVE  Answered(c)' /\ InOrder(c)'
<1> USE DEF PingInv, ChatInv
<1>1. PICK n, a, t, m, S :
        /\ n = Len(pinged[c]) /\ a = Len(ponged[c]) /\ t = toClient[c]
        /\ m = msg.msg /\ S = Sends(c)
  OBVIOUS
<1>2. /\ n \in Nat /\ a \in Nat /\ t \in Seq(Letters) /\ m \in Incoming /\ m \in Letters
      /\ m \in Pings
  BY <1>1, SendForms DEF ChatTypes, InHand, ChatBounce, Bounce, At, OwnedMessages, Letters, Pings
<1>3. /\ UNCHANGED <<client, qMessagesIn, toServer, pinged, ponged>>
      /\ HasPing(c) /\ ~HasPing(c)'
      /\ toClient'[c] = IF IsConnected(c) THEN Append(t, m) ELSE t
  BY <1>1, <1>2
  DEF ChatBounce, Bounce, Return, At, SendTo, HasPing, ChatTypes, peers, lists, clients, told
<1>4. UNCHANGED <<OwnPings(c), Sends(c), Owns(c), Answered(c)>>
  BY <1>3 DEF OwnPings, Sends, Owns, Answered
<1>5. PICK b \in a..n :
        /\ Carries(t, a, b, S, Pings)
        /\ client[c] # "closed" => Upstream(c, b)
  BY <1>1 DEF InOrder
<1>6. CASE client[c] = "closed"
  <2>1. toClient'[c] = t /\ client'[c] = "closed"
    BY <1>3, <1>6 DEF IsConnected
  <2> QED
    BY <1>1, <1>3, <1>4, <1>5, <2>1 DEF InOrder
<1>7. CASE client[c] # "closed"
  <2>1. PICK x \in 0..n, y \in 0..n :
            /\ x = b + 1 /\ m = S[x] /\ x <= y
            /\ Carries(qMessagesIn, x, y, Owns(c), OwnPings(c))
            /\ Carries(toServer[c], y, n, S, Pings)
    BY <1>1, <1>3, <1>5, <1>7 DEF Upstream
  <2>2. b \in Nat /\ a <= b /\ b + 1 \in a..n /\ n # 0
    BY <1>2, <1>5, <2>1
  <2>3. IsConnected(c)
    <3>1. pinged[c] # <<>>
      BY <1>1, <2>2
    <3> QED
      BY <1>7, <3>1 DEF Accepted, IsConnected
  <2>4. Carries(Append(t, S[b + 1]), a, b + 1, S, Pings)
    BY <1>2, <1>5, <2>1, <2>2, CarriesNext
  <2>5. Upstream(c, b + 1)'
    BY <1>1, <1>3, <1>4, <2>1 DEF Upstream
  <2> QED
    BY <1>1, <1>3, <1>4, <2>1, <2>2, <2>3, <2>4, <2>5 DEF InOrder
<1> QED
  BY <1>6, <1>7

\* Nothing was sent to c before it is welcomed.
LEMMA OpenedStep ==
    ASSUME PingInv, NEW c \in Clients, ChatAllow(c)
    PROVE  Answered(c)' /\ InOrder(c)'
<1> USE DEF PingInv, ChatInv
<1>1. /\ UNCHANGED <<pinged, ponged, toServer, qMessagesIn, pc, msg>>
      /\ toClient'[c] = <<Welcome>>
      /\ client[c] = "waiting"
  BY DEF ChatAllow, AllowClient, Accepts, Welcome, ChatTypes, clients, told, main
<1>2. UNCHANGED <<HasPing(c), OwnPings(c), Sends(c), Owns(c), Answered(c)>>
  BY <1>1 DEF HasPing, OwnPings, Sends, Owns, Answered
<1>3. pinged[c] = <<>> /\ Len(pinged[c]) = 0 /\ Len(ponged[c]) = 0
  <2>1. pinged[c] = <<>>
    BY <1>1 DEF Accepted
  <2> QED
    BY <2>1, SendForms DEF Answered
<1>4. Carries(toClient'[c], 0, 0, Sends(c), Pings)
  <2>1. Carries(<<>>, 0, 0, Sends(c), Pings) /\ <<>> \in Seq({Welcome}) /\ 0 \in Nat
    <3>1. 0 \in Nat /\ <<>> \in Seq({Welcome})
      OBVIOUS
    <3>2. Carries(<<>>, 0, 0, Sends(c), Pings)
      BY <3>1, CarriesNothing
    <3> QED
      BY <3>1, <3>2
  <2>2. Carries(Append(<<>>, Welcome), 0, 0, Sends(c), Pings)
    BY <2>1, PingForms, CarriesMore
  <2>3. Append(<<>>, Welcome) = <<Welcome>>
    OBVIOUS
  <2> QED
    BY <1>1, <2>2, <2>3
<1>5. Upstream(c, 0)
  BY <1>1, <1>3 DEF InOrder
<1>6. Upstream(c, 0)'
  BY <1>1, <1>2, <1>5 DEF Upstream
<1>7. 0 \in 0..0
  OBVIOUS
<1> QED
  BY <1>1, <1>2, <1>3, <1>4, <1>6, <1>7 DEF InOrder

LEMMA PingTypesStep ==
    ASSUME ChatInv, PingTypes, ChatNext
    PROVE  PingTypes'
<1> USE DEF ChatInv
<1>1. ASSUME NEW times \in Seq(Stamps), NEW m \in Letters
      PROVE  WithTime(times, m) \in Seq(Stamps)
  BY <1>1, PingForms, AppendProperties DEF WithTime
<1>2. ASSUME NEW c \in Clients, NEW m \in Incoming, Ask(c, m) PROVE PingTypes'
  <2>1. pinged' = [pinged EXCEPT ![c] = WithTime(pinged[c], m)] /\ ponged' = ponged
    BY <1>2 DEF Ask
  <2>2. WithTime(pinged[c], m) \in Seq(Stamps)
    BY <1>1 DEF PingTypes, Letters
  <2> QED
    BY <2>1, <2>2 DEF PingTypes
<1>3. ASSUME NEW c \in Clients, Handle(c) PROVE PingTypes'
  <2>1. ponged' = [ponged EXCEPT ![c] = WithTime(ponged[c], Head(toClient[c]))]
            /\ pinged' = pinged
    BY <1>3 DEF Handle
  <2>2. Head(toClient[c]) \in Letters
    BY <1>3, HeadTailProperties DEF Handle, ChatTypes
  <2>3. WithTime(ponged[c], Head(toClient[c])) \in Seq(Stamps)
    BY <1>1, <2>2 DEF PingTypes
  <2> QED
    BY <2>1, <2>3 DEF PingTypes
<1>4. CASE UNCHANGED <<pinged, ponged>>
  BY <1>4 DEF PingTypes
<1>5. ASSUME NEW c \in Clients,
             Ask(c, ServerPing(Len(asked[c]) + 1)) \/ Ask(c, MessageAll)
      PROVE  PingTypes'
  BY <1>2, <1>5, AskTypes
<1> QED
  BY <1>3, <1>4, <1>5
  DEF ChatNext, ChatAccepts, ChatConnect, ChatMain, ChatAllow, ChatValidate, ChatReceive,
      ChatBounce, ChatMessageAll, ChatMessageNext, ChatEnd, Unnoticed, chat, clients, told

\* Who has not been accepted has sent no ping.
LEMMA EarlyStep ==
    ASSUME PingInv, ChatNext, NEW c \in Clients, c \notin Accepted'
    PROVE  pinged'[c] = <<>>
<1> USE DEF PingInv, ChatInv
<1>1. c \notin Accepted
  <2>1. CASE \E d \in Clients : ChatAllow(d)
    BY <2>1 DEF ChatAllow, AllowClient, Accepted, IInv, TypeOK
  <2>2. CASE \A d \in Clients : ~ChatAllow(d)
    BY <2>2, AcceptedKept
  <2> QED
    BY <2>1, <2>2
<1>2. ~IsConnected(c) /\ pinged[c] = <<>>
  BY <1>1 DEF Accepted, IsConnected
<1>3. \A m : ~Ask(c, m)
  BY <1>2 DEF Ask
<1>4. CASE UNCHANGED pinged
  BY <1>2, <1>4
<1>5. ASSUME NEW d \in Clients, NEW m, Ask(d, m), d # c PROVE pinged'[c] = pinged[c]
  BY <1>5 DEF Ask, PingTypes
<1> QED
  BY <1>2, <1>3, <1>4, <1>5
  DEF ChatNext, ChatAccepts, ChatConnect, ChatMain, ChatAllow, ChatValidate, ChatReceive,
      ChatBounce, Handle, ChatMessageAll, ChatMessageNext, ChatEnd, Unnoticed, chat,
      clients, told

LEMMA PingStep == PingInv /\ [ChatNext]_chatVars => PingInv'
<1> SUFFICES ASSUME PingInv, [ChatNext]_chatVars PROVE PingInv'
  OBVIOUS
<1>1. ChatInv'
  BY ChatStep DEF PingInv
<1>2. CASE ChatNext
  <2>1. PingTypes'
    BY <1>2, PingTypesStep DEF PingInv
  <2>2. ASSUME NEW c \in Clients PROVE Answered(c)' /\ InOrder(c)'
    <3>1. CASE Ask(c, ServerPing(Len(asked[c]) + 1)) \/ Ask(c, MessageAll)
      <4>1. PICK m \in Incoming : Ask(c, m)
        BY <3>1, AskTypes DEF PingInv, ChatInv
      <4> QED
        BY <4>1, AskStep
    <3> QED
      BY <1>2, <3>1, PingMoves, HandleStep, QueuedStep, TakenStep, BouncedStep, OpenedStep,
         QuietStep
      DEF PingInv
  <2> QED
    BY <1>1, <1>2, <2>1, <2>2, EarlyStep DEF PingInv
<1>3. CASE UNCHANGED chatVars
  <2>1. UNCHANGED <<toServer, toClient, pinged, ponged, client, pc, msg, qMessagesIn>>
    BY <1>3 DEF chatVars, chat, clients, told, vars, peers, main, lists
  <2>2. \A c \in Clients : /\ UNCHANGED <<Answered(c), HasPing(c), Sends(c), Owns(c), OwnPings(c)>>
                           /\ \A b : UNCHANGED Upstream(c, b)
    BY <2>1 DEF Answered, HasPing, Sends, Owns, OwnPings, Upstream
  <2>3. \A c \in Clients : UNCHANGED InOrder(c)
    BY <2>1, <2>2 DEF InOrder
  <2> QED
    BY <1>1, <2>1, <2>2, <2>3 DEF PingInv, PingTypes, Accepted
<1> QED
  BY <1>2, <1>3

LEMMA InitPing == ChatInit => PingInv
<1> SUFFICES ASSUME ChatInit PROVE PingInv
  OBVIOUS
<1>1. ChatInv
  BY InitChat
<1>2. PingTypes
  BY EmptySeq DEF ChatInit, PingTypes
<1>3. ASSUME NEW c \in Clients
      PROVE  Answered(c) /\ InOrder(c) /\ (c \notin Accepted => pinged[c] = <<>>)
  <2>1. /\ pinged[c] = <<>> /\ ponged[c] = <<>> /\ toServer[c] = <<>> /\ toClient[c] = <<>>
        /\ qMessagesIn = <<>> /\ pc = "idle"
        /\ Len(pinged[c]) = 0 /\ Len(ponged[c]) = 0
    BY DEF ChatInit, Init
  <2>2. \A F, K : Carries(<<>>, 0, 0, F, K)
    <3>1. 0 \in Nat
      OBVIOUS
    <3> QED
      BY <3>1, CarriesNothing
  <2>3. 0 \in 0..0 /\ 0 <= 0
    OBVIOUS
  <2>4. Upstream(c, 0)
    BY <2>1, <2>2, <2>3 DEF Upstream, HasPing
  <2>5. Answered(c)
    BY <2>1 DEF Answered
  <2> QED
    BY <2>1, <2>2, <2>3, <2>4, <2>5 DEF InOrder
<1> QED
  BY <1>1, <1>2, <1>3 DEF PingInv

\* What is still outstanding, when one more is sent, and when the first is back.
LEMMA RestMore ==
    ASSUME NEW S, NEW s \in Seq(S), NEW x \in S, NEW a \in Nat, a <= Len(s)
    PROVE  SubSeq(Append(s, x), a + 1, Len(s) + 1) = Append(SubSeq(s, a + 1, Len(s)), x)
<1>1. PICK n, t : n = Len(s) /\ t = Append(s, x)
  OBVIOUS
<1>2. /\ n \in Nat /\ n - a \in Nat /\ Len(t) = n + 1 /\ t \in Seq(S) /\ t[n + 1] = x
      /\ \A i \in 1..n : t[i] = s[i]
  BY <1>1, AppendProperties, LenProperties
<1>3. PICK u, w : u = SubSeq(s, a + 1, n) /\ w = SubSeq(t, a + 1, n + 1)
  OBVIOUS
<1>4. u \in Seq(S) /\ Len(u) = n - a /\ \A i \in 1..(n - a) : u[i] = s[a + i]
  BY <1>1, <1>2, <1>3
<1>5. w \in Seq(S) /\ Len(w) = n - a + 1 /\ \A i \in 1..(n - a + 1) : w[i] = t[a + i]
  <2>1. \A i \in (a + 1)..(n + 1) : t[i] \in S
    BY <1>2, ElementOfSeq
  <2>2. /\ w \in Seq(S) /\ Len(w) = (n + 1) - (a + 1) + 1
        /\ \A i \in 1..((n + 1) - (a + 1) + 1) : w[i] = t[(a + 1) + i - 1]
    BY <1>2, <1>3, <2>1, SubSeqProperties
  <2>3. /\ (n + 1) - (a + 1) + 1 = n - a + 1
        /\ \A i \in 1..(n - a + 1) : (a + 1) + i - 1 = a + i
    BY <1>2
  <2> QED
    BY <2>2, <2>3
<1>6. /\ Append(u, x) \in Seq(S) /\ Len(Append(u, x)) = n - a + 1
      /\ Append(u, x)[n - a + 1] = x /\ \A i \in 1..(n - a) : Append(u, x)[i] = u[i]
  BY <1>4, AppendProperties
<1>7. \A i \in 1..(n - a + 1) : w[i] = Append(u, x)[i]
  <2> TAKE i \in 1..(n - a + 1)
  <2>1. CASE i = n - a + 1
    BY <1>2, <1>5, <1>6, <2>1
  <2>2. CASE i # n - a + 1
    <3>1. i \in 1..(n - a) /\ a + i \in 1..n
      BY <1>2, <2>2
    <3> QED
      BY <1>2, <1>4, <1>5, <1>6, <3>1
  <2> QED
    BY <2>1, <2>2
<1>8. w = Append(u, x)
  BY <1>5, <1>6, <1>7, SeqEqual
<1> QED
  BY <1>1, <1>3, <1>8

LEMMA RestTail ==
    ASSUME NEW S, NEW s \in Seq(S), NEW a \in Nat, a < Len(s)
    PROVE  /\ SubSeq(s, a + 1, Len(s)) # <<>>
           /\ Head(SubSeq(s, a + 1, Len(s))) = s[a + 1]
           /\ SubSeq(s, a + 2, Len(s)) = Tail(SubSeq(s, a + 1, Len(s)))
<1>1. PICK n : n = Len(s) /\ n \in Nat /\ n - a \in Nat /\ n - a >= 1
  BY LenProperties
<1>2. PICK u, w : u = SubSeq(s, a + 1, n) /\ w = SubSeq(s, a + 2, n)
  OBVIOUS
<1>3. u \in Seq(S) /\ Len(u) = n - a /\ \A i \in 1..(n - a) : u[i] = s[a + i]
  BY <1>1, <1>2
<1>4. w \in Seq(S) /\ Len(w) = n - a - 1 /\ \A i \in 1..(n - a - 1) : w[i] = s[a + 1 + i]
  BY <1>1, <1>2
<1>5. u # <<>> /\ Head(u) = u[1]
  BY <1>1, <1>3, HeadTailProperties, EmptySeq
<1>6. /\ Tail(u) \in Seq(S) /\ Len(Tail(u)) = n - a - 1
      /\ \A i \in 1..(n - a - 1) : Tail(u)[i] = u[i + 1]
  <2>1. /\ Tail(u) \in Seq(S) /\ Len(Tail(u)) = Len(u) - 1
        /\ \A i \in 1..Len(Tail(u)) : Tail(u)[i] = u[i + 1]
    BY <1>3, <1>5, HeadTailProperties
  <2> QED
    BY <1>1, <1>3, <2>1
<1>7. \A i \in 1..(n - a - 1) : w[i] = Tail(u)[i]
  <2> TAKE i \in 1..(n - a - 1)
  <2>1. i + 1 \in 1..(n - a) /\ a + (i + 1) = a + 1 + i
    BY <1>1
  <2> QED
    BY <1>3, <1>4, <1>6, <2>1
<1>8. w = Tail(u)
  BY <1>4, <1>6, <1>7, SeqEqual
<1> QED
  BY <1>1, <1>2, <1>3, <1>5, <1>8

\* For each client, a step puts a time in, gets the first one out, or does neither.
LEMMA EchoStep ==
    ASSUME PingInv, ChatNext, NEW c \in Clients
    PROVE  Echo(c)!Next \/ UNCHANGED Echo(c)!vars
<1> USE DEF PingInv, ChatInv
<1>1. PICK p, r, n, a : p = pinged[c] /\ r = ponged[c] /\ n = Len(p) /\ a = Len(r)
  OBVIOUS
<1>2. /\ p \in Seq(Stamps) /\ r \in Seq(Stamps) /\ n \in Nat /\ a \in Nat /\ a <= n
      /\ Outstanding(c) = SubSeq(p, a + 1, n)
  BY <1>1, SendForms DEF PingTypes, Answered, Outstanding
<1>3. CASE pinged'[c] = p /\ ponged'[c] = r
  <2>1. Outstanding(c)' = Outstanding(c)
    BY <1>1, <1>3 DEF Outstanding
  <2> QED
    BY <1>1, <1>3, <2>1 DEF Echo!vars
<1>4. CASE Ask(c, ServerPing(Len(asked[c]) + 1))
  <2>1. PICK k : k = Len(asked[c]) + 1 /\ k \in 1..MaxAsks[c]
    <3>1. Len(asked[c]) \in Nat /\ Len(asked[c]) < MaxAsks[c] /\ MaxAsks[c] \in Nat
      BY <1>4, LenProperties, AskedAssumption DEF Ask, ChatTypes
    <3> QED
      BY <3>1
  <2>2. /\ ServerPing(k) \in Incoming /\ ServerPing(k).id = "ServerPing"
        /\ TimeOf(ServerPing(k)) = Time(k) /\ Time(k) \in Stamps
    <3>1. ServerPing(k) \in Incoming /\ k \in Nat
      BY <2>1, AskedAssumption
    <3>2. ServerPing(k).id = "ServerPing"
      BY <3>1, MessageForms
    <3> QED
      BY <3>1, <3>2, PingForms DEF Pings
  <2>3. pinged'[c] = Append(p, Time(k)) /\ ponged'[c] = r
    BY <1>1, <1>4, <2>1, <2>2 DEF Ask, PingTypes, WithTime
  <2>4. Len(pinged'[c]) = n + 1
    BY <1>1, <1>2, <2>2, <2>3, AppendProperties
  <2>5. Outstanding(c)' = SubSeq(Append(p, Time(k)), a + 1, n + 1)
    BY <1>1, <2>3, <2>4 DEF Outstanding
  <2>6. Outstanding(c)' = Append(Outstanding(c), Time(k))
    <3>1. SubSeq(Append(p, Time(k)), a + 1, n + 1) = Append(SubSeq(p, a + 1, n), Time(k))
      <4>1. PICK x : x = Time(k) /\ x \in Stamps
        BY <2>2
      <4>2. p \in Seq(Stamps) /\ a \in Nat /\ a <= Len(p) /\ n = Len(p)
        BY <1>1, <1>2
      <4>3. SubSeq(Append(p, x), a + 1, Len(p) + 1) = Append(SubSeq(p, a + 1, Len(p)), x)
        BY <4>1, <4>2, RestMore
      <4> QED
        BY <4>1, <4>2, <4>3
    <3> QED
      BY <1>2, <2>5, <3>1
  <2>7. Echo(c)!Put(Time(k))
    BY <1>1, <2>3, <2>6 DEF Echo!Put
  <2> QED
    BY <2>1, <2>7 DEF Echo!Next
<1>5. CASE Handle(c)
  <2>1. CASE ponged'[c] = r
    BY <1>1, <1>3, <1>5, <2>1 DEF Handle
  <2>2. CASE a < n /\ ponged'[c] = Append(r, p[a + 1])
    <3>1. pinged'[c] = p /\ p[a + 1] \in Stamps
      <4>1. a + 1 \in 1..n
        BY <1>2, <2>2
      <4> QED
        BY <1>1, <1>2, <1>5, <4>1, ElementOfSeq DEF Handle
    <3>2. Len(ponged'[c]) = a + 1
      BY <1>1, <1>2, <2>2, <3>1, AppendProperties
    <3>3. Outstanding(c)' = SubSeq(p, a + 2, n)
      <4>1. (a + 1) + 1 = a + 2
        BY <1>2
      <4> QED
        BY <1>1, <3>1, <3>2, <4>1 DEF Outstanding
    <3>4. /\ Outstanding(c) # <<>> /\ Head(Outstanding(c)) = p[a + 1]
          /\ Outstanding(c)' = Tail(Outstanding(c))
      <4>1. /\ SubSeq(p, a + 1, n) # <<>> /\ Head(SubSeq(p, a + 1, n)) = p[a + 1]
            /\ SubSeq(p, a + 2, n) = Tail(SubSeq(p, a + 1, n))
        <5>1. p \in Seq(Stamps) /\ a \in Nat /\ a < Len(p) /\ n = Len(p)
          BY <1>1, <1>2, <2>2
        <5> QED
          BY <5>1, RestTail
      <4> QED
        BY <1>2, <3>3, <4>1
    <3>5. Echo(c)!Get
      BY <1>1, <2>2, <3>4 DEF Echo!Get
    <3> QED
      BY <3>5 DEF Echo!Next
  <2> QED
    BY <1>1, <1>5, <2>1, <2>2, HandleStep
<1>6. CASE Ask(c, MessageAll)
  <2>1. MessageAll.id # "ServerPing"
    BY MessageForms
  <2> QED
    BY <1>1, <1>3, <1>6, <2>1 DEF Ask, PingTypes, WithTime
<1>7. CASE ChatReceive(c) \/ Unnoticed(PopMessage) \/ ChatBounce(c) \/ ChatAllow(c) \/ Quiet(c)
  BY <1>1, <1>3, <1>7
  DEF ChatReceive, ChatBounce, ChatAllow, Unnoticed, Quiet, chat, clients, told
<1> QED
  BY <1>4, <1>5, <1>6, <1>7, PingMoves

-----------------------------------------------------------------------------
(* The theorems.                                                           *)

\* Chat implements Server: whatever CustomServer's callbacks send and clients answer,
\* what is proved of the list of connections holds.
THEOREM ChatServes == ChatSpec => Spec
<1>1. ChatInit => Init
  BY DEF ChatInit
<1>2. ChatInv /\ [ChatNext]_chatVars => [Next]_vars
  BY ChatStepServes DEF ChatInv, chatVars
<1> QED
  BY <1>1, <1>2, AlwaysChatInv, PTL DEF ChatSpec, Spec

\* The first message of a client is ServerAccept, and no later one is, although
\* broadcasts find the client in the list before its handshake is over.
THEOREM WelcomeComesFirst == ChatSpec => []AcceptFirst
<1>1. ChatInv => AcceptFirst
  BY DEF ChatInv, Welcomed, AcceptFirst
<1> QED
  BY <1>1, AlwaysChatInv, PTL

\* A client is told hello by another client, by none more often than that one has
\* asked for it, and never in its own name, as long as there are ids enough to tell
\* the clients apart.
THEOREM HellosAreAskedFor ==
    ASSUME EnoughIds
    PROVE  ChatSpec => []HelloFromAsker
<1>1. ASSUME HelloInv, NEW c \in Clients, NEW d \in Clients, stage[d] # "none"
      PROVE  Count(Sent(c), ServerMessage(d))
                <= IF c = d THEN 0 ELSE Count(asked[d], MessageAll)
  <2>1. Told(c, d) = Count(Sent(c), ServerMessage(d))
    BY <1>1 DEF Told
  <2>2. /\ Told(c, d) \in Nat /\ Due(c, d) \in Nat /\ Count(asked[d], MessageAll) \in Nat
        /\ IF c = d THEN Told(c, d) = 0
           ELSE Told(c, d) + Due(c, d) <= Count(asked[d], MessageAll)
    BY <1>1, Numbers DEF HelloInv, ChatInv, Balanced, Due
  <2> QED
    BY <2>1, <2>2
<1>2. HelloInv => HelloFromAsker
  BY <1>1 DEF HelloFromAsker
<1>3. HelloInv /\ [ChatNext]_chatVars => HelloInv'
  BY HelloStep
<1> QED
  BY <1>2, <1>3, InitHello, PTL DEF ChatSpec

\* SimpleClient's >> never takes more out of a message than was put in.
THEOREM PullsAreSafe == ChatSpec => []PullsWhatWasPushed
<1>1. ASSUME ChatInv, NEW c \in Clients, NEW i \in DOMAIN got[c]
      PROVE  /\ got[c][i].size = Len(got[c][i].body)
             /\ got[c][i].id = "ServerPing" => CanPull(got[c][i], 2)
             /\ got[c][i].id = "ServerMessage" => CanPull(got[c][i], 1)
  <2>1. got[c][i] \in Letters
    BY <1>1, ElementOfSeq DEF ChatInv, ChatTypes
  <2> QED
    BY <2>1, Kinds DEF CanPull
<1>2. ChatInv => PullsWhatWasPushed
  BY <1>1 DEF PullsWhatWasPushed
<1> QED
  BY <1>2, AlwaysChatInv, PTL

\* Whatever happens to sockets and to the list, the times that a client gets back are
\* those it sent, in order and no time twice: for each client, the path through two
\* connections, the queue and OnMessage implements FifoDelivery.
THEOREM PongsComeInOrder == ChatSpec => PongsInOrder
<1>1. ASSUME ChatInit, NEW c \in Clients PROVE Echo(c)!Init
  <2>1. pinged[c] = <<>> /\ ponged[c] = <<>> /\ Len(pinged[c]) = 0 /\ Len(ponged[c]) = 0
    BY <1>1 DEF ChatInit
  <2>2. SubSeq(<<>>, 1, 0) = <<>>
    OBVIOUS
  <2> QED
    BY <2>1, <2>2 DEF Echo!Init, Outstanding
<1>2. ASSUME PingInv, [ChatNext]_chatVars
      PROVE  [\A c \in Clients : Echo(c)!Next \/ UNCHANGED Echo(c)!vars]_chatVars
  BY <1>2, EchoStep
<1>3. ChatInit => \A c \in Clients : Echo(c)!Init
  BY <1>1
<1> QED
  BY <1>2, <1>3, InitPing, PingStep, PTL DEF ChatSpec, PongsInOrder
=============================================================================
