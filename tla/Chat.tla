-------------------------------- MODULE Chat --------------------------------
(***************************************************************************)
(* The whole system: CustomServer, its connections, and CustomClients that *)
(* ping it and have it tell the others hello.  It composes Server with one *)
(* channel in each direction per client.  That a channel delivers what was *)
(* given to Send in order is what Connection shows (DeliveredInOrder), for *)
(* clients that, as here, wait for ServerAccept before they send, and for  *)
(* connections with one handshake: what the server does when the race at   *)
(* its list makes it begin a second one on a connection is left out.       *)
(***************************************************************************)
EXTENDS Server, Message

CONSTANT MaxAsks    \* bound of the model: messages a client sends, per client

VARIABLES
    toServer,       \* toServer[c]: sent by c and not yet read by the server
    toClient,       \* toClient[c]: sent to c and not yet handled by it
    hello,          \* what OnMessage tells the others, or Null
    asked,          \* history: asked[c] is what c has sent
    got,            \* history: got[c] is what c's main loop has handled
    pinged,         \* history: pinged[c], the times in the pings it has sent
    ponged          \* history: ponged[c], the times in the pings it has handled

told == <<asked, got, pinged, ponged>>
clients == <<toServer, told>>
chat == <<clients, toClient, hello>>
chatVars == <<vars, chat>>

\* In units of four bytes: a time point has two, an id one.  A client's n-th
\* message, if it is a ping, carries the time n.
Time(n) == <<n, n>>

GetID(c) == id[c]

ServerPing(n) == Push(NewMessage("ServerPing"), Time(n))
MessageAll == NewMessage("MessageAll")
ServerMessage(c) == Push(NewMessage("ServerMessage"), <<GetID(c)>>)

\* What clients send is what PingServer and MessageAll make; no server answers it
\* with MessageClient.
ASSUME AskedAssumption ==
    /\ MaxAsks \in [Clients -> Nat]
    /\ Incoming = {MessageAll}
                    \cup UNION {{ServerPing(n) : n \in 1..MaxAsks[c]} : c \in Clients}

\* No body is too long for the header: the longest is a time point.
ASSUME WidthAssumption == SizeModulus > 2

ChatInit ==
    /\ Init
    /\ toServer = [c \in Clients |-> <<>>]
    /\ toClient = [c \in Clients |-> <<>>]
    /\ hello = Null
    /\ asked = [c \in Clients |-> <<>>]
    /\ got = [c \in Clients |-> <<>>]
    /\ pinged = [c \in Clients |-> <<>>]
    /\ ponged = [c \in Clients |-> <<>>]

-----------------------------------------------------------------------------
(* Clients: PingServer and MessageAll, and the main loop.                  *)

\* The time in a ping.
TimeOf(m) == Pulled(m, 2)

\* The times in pings, with that of a further message if it is one.
WithTime(times, m) == IF m.id = "ServerPing" THEN Append(times, TimeOf(m)) ELSE times

\* A client learns of the accepted connection from a message, then it may ask.
Ask(c, m) ==
    /\ crash = "no"
    /\ IsConnected(c)
    /\ got[c] # <<>>
    /\ Len(asked[c]) < MaxAsks[c]
    /\ asked' = [asked EXCEPT ![c] = Append(@, m)]
    /\ pinged' = [pinged EXCEPT ![c] = WithTime(@, m)]
    /\ toServer' = [toServer EXCEPT ![c] = Append(@, m)]
    /\ UNCHANGED <<vars, toClient, hello, got, ponged>>

\* A client reads messages once the handshake has begun.  After a close, it may
\* still get what was on its way, or not.
Handle(c) ==
    /\ stage[c] # "none"
    /\ toClient[c] # <<>>
    /\ got' = [got EXCEPT ![c] = Append(@, Head(toClient[c]))]
    /\ ponged' = [ponged EXCEPT ![c] = WithTime(@, Head(toClient[c]))]
    /\ toClient' = [toClient EXCEPT ![c] = Tail(@)]
    /\ UNCHANGED <<vars, toServer, hello, asked, pinged>>

-----------------------------------------------------------------------------
(* The server.                                                             *)

\* Send to the clients of a set; a closed socket takes nothing.
SendTo(set, m) ==
    toClient' = [c \in Clients |->
                    IF c \in set /\ IsConnected(c) THEN Append(toClient[c], m)
                    ELSE toClient[c]]

\* Defect: the client is told when it has been validated.
ToldWhenValidated(hook) == hook = "OnClientValidated"

\* In which of its callbacks CustomServer sends ServerAccept.
Accepts(hook) == hook = "OnClientConnect"

\* The accept handler calls OnClientConnect before the client is in the list.
ChatAllow(c) ==
    /\ AllowClient(c)
    /\ toClient' = IF Accepts("OnClientConnect")
                   THEN [toClient EXCEPT ![c] = <<NewMessage("ServerAccept")>>]
                   ELSE toClient
    /\ UNCHANGED <<clients, hello>>

ChatValidate(c) ==
    /\ Validate(c)
    /\ SendTo(IF Accepts("OnClientValidated") THEN {c} ELSE {},
              NewMessage("ServerAccept"))
    /\ UNCHANGED <<clients, hello>>

ChatReceive(c) ==
    /\ toServer[c] # <<>>
    /\ Receive(c, Head(toServer[c]))
    /\ toServer' = [toServer EXCEPT ![c] = Tail(@)]
    /\ UNCHANGED <<toClient, hello, told>>

\* Defect: the body is sent back under a new header, whose size is not set.
BounceBody(c) ==
    /\ Bounce(c)
    /\ SendTo({c}, [NewMessage(msg.msg.id) EXCEPT !.body = msg.msg.body])
    /\ UNCHANGED <<clients, hello>>


\* OnMessage, for a ping.
ChatBounce(c) ==
    /\ Bounce(c)
    /\ SendTo({c}, msg.msg)
    /\ UNCHANGED <<clients, hello>>

\* OnMessage, for a MessageAll: the name is that of the sender, at this time.
ChatMessageAll ==
    /\ MessageAllClients
    /\ hello' = ServerMessage(msg.remote)
    /\ UNCHANGED <<clients, toClient>>

\* Defect: the sender is told as well.
TellSenderToo ==
    /\ MessageNext
    /\ SendTo((reached' \ reached) \cup {msg.remote}, hello)
    /\ UNCHANGED <<clients, hello>>

\* One turn of the loop in MessageAllClients.
ChatMessageNext ==
    /\ MessageNext
    /\ SendTo(reached' \ reached, hello)
    /\ UNCHANGED <<clients, hello>>

ChatEnd ==
    /\ LoopEnd \/ EraseEnd
    /\ hello' = IF pc' = "idle" THEN Null ELSE hello
    /\ UNCHANGED <<clients, toClient>>

\* ConnectToClient, of a connection without a handshake.
ChatConnect == ConnectBack /\ \A c \in Clients : stage'[c] # "mixed"

\* What no client notices.
Unnoticed(A) == A /\ UNCHANGED chat

-----------------------------------------------------------------------------
ChatAccepts ==
    \/ \E c \in Clients : ChatAllow(c)
    \/ Unnoticed(ChatConnect)
    \/ Unnoticed(Approve)

ChatMain ==
    \/ Unnoticed(Join)
    \/ Unnoticed(PopMessage)
    \/ \E c \in Clients : ChatBounce(c)
    \/ ChatMessageAll
    \/ ChatMessageNext
    \/ ChatEnd
    \/ Unnoticed(Tidy)

ChatNext ==
    \/ \E c \in Clients :
        \/ Ask(c, ServerPing(Len(asked[c]) + 1))
        \/ Ask(c, MessageAll)
        \/ Handle(c)
        \/ ChatValidate(c)
        \/ ChatReceive(c)
        \/ Unnoticed(Arrive(c))
        \/ Unnoticed(CloseSocket(c))
    \/ ChatAccepts
    \/ ChatMain
    \/ Unnoticed(Start)
    \/ Unnoticed(Stop)

ChatSpec == ChatInit /\ [][ChatNext]_chatVars

\* Both threads of the server run, what is sent on an open socket is read, and clients
\* that are connected handle what they get.
ChatFairness ==
    /\ WF_chatVars(ChatAccepts)
    /\ WF_chatVars(ChatMain)
    /\ \A c \in Clients :
        /\ WF_chatVars(ChatValidate(c))
        /\ WF_chatVars(IsConnected(c) /\ ChatReceive(c))
        /\ WF_chatVars(IsConnected(c) /\ Handle(c))

ChatFairSpec == ChatSpec /\ ChatFairness

-----------------------------------------------------------------------------
(* Properties.                                                             *)

\* Everything sent to a client, handled or not.
Sent(c) == got[c] \o toClient[c]

\* The first message a client gets says that it was accepted, and no other does
\* (README.md:17), although the connection is in the list, where broadcasts
\* find it, long before its handshake is over.
AcceptFirst ==
    \A c \in Clients : \A i \in DOMAIN Sent(c) :
        Sent(c)[i].id = "ServerAccept" <=> i = 1

\* A client is told hello in the name of another one, not in its own, and by no
\* client more often than that one has asked for it.
Count(messages, m) == Cardinality({i \in DOMAIN messages : messages[i] = m})

HelloFromAsker ==
    \A c, d \in Clients :
        stage[d] # "none" =>
            Count(Sent(c), ServerMessage(d))
                <= IF c = d THEN 0 ELSE Count(asked[d], MessageAll)

\* SimpleClient pulls a time out of a ServerPing and an id out of a ServerMessage
\* without a look at the size: what it gets has a body of at least that length, and
\* the header's size is the body's.
PullsWhatWasPushed ==
    \A c \in Clients : \A i \in DOMAIN got[c] :
        LET m == got[c][i]
        IN  /\ m.size = Len(m.body)
            /\ m.id = "ServerPing" => CanPull(m, 2)
            /\ m.id = "ServerMessage" => CanPull(m, 1)

\* The times a client has sent and not yet got back.
Outstanding(c) == SubSeq(pinged[c], Len(ponged[c]) + 1, Len(pinged[c]))

Echo(c) == INSTANCE FifoDelivery WITH
    Items <- {Time(n) : n \in 1..MaxAsks[c]},
    pending <- Outstanding(c), received <- ponged[c]

\* Through two connections, the queue of messages and OnMessage, a client gets
\* back the times it sent, in order and no time twice.
PongsInOrder ==
    /\ \A c \in Clients : Echo(c)!Init
    /\ [][\A c \in Clients : Echo(c)!Next \/ UNCHANGED Echo(c)!vars]_chatVars

=============================================================================
