------------------------------- MODULE Server -------------------------------
(***************************************************************************)
(* olc::net::server_interface (NetCommon/net_server.h): its list of        *)
(* connections, shared without a lock by two threads.  The asio thread     *)
(* accepts clients and runs the handlers of their connections; main starts *)
(* and stops the server and calls Update, whose OnMessage answers one      *)
(* client (MessageClient) or tells all the others (MessageAllClients).     *)
(*                                                                         *)
(* A connection is reduced to what the list depends on: is its socket      *)
(* open, and how far is its handshake.  Connection models the rest.        *)
(***************************************************************************)
EXTENDS Naturals, Sequences, FiniteSets

CONSTANTS
    Clients,        \* clients that may come, each for one connection
    Null,           \* nullptr
    FirstId,        \* the initial value of nIDCounter
    IdModulus,      \* 2^32 in the code
    Incoming,       \* the messages a client may send, as OnMessage sees them
    MaxMessages,    \* bound of the model: messages received
    MaxStarts       \* bound of the model: calls of Start

ASSUME ClientsAssumption == IsFiniteSet(Clients) /\ Null \notin Clients

ASSUME IdsAssumption ==
    /\ FirstId \in Nat
    /\ IdModulus \in Nat
    /\ FirstId < IdModulus

\* CustomServer tells all other clients of a MessageAll and sends a ServerPing back.
\* "Reply" stands for whatever another server answers with MessageClient.
ASSUME IncomingAssumption ==
    \A m \in Incoming : m.id \in {"MessageAll", "ServerPing", "Reply"}

ASSUME BoundsAssumption == MaxMessages \in Nat /\ MaxStarts \in Nat

VARIABLES
    client,         \* of each client: "away", "waiting" to be accepted, "denied" (or
                    \* lost at the door), or its socket is "open" or "closed"
    stage,          \* its connection's: "none", "handshake", "valid", or "mixed" when
                    \* a second handshake has begun on it
    id,             \* connection::id
    nIDCounter,
    deqConnections, \* m_deqConnections
    qMessagesIn,    \* m_qMessagesIn
    context,        \* m_asioContext: "new", "running" or "stopped"
    joinable,       \* is m_threadContext joinable?
    asio,           \* where the asio thread is in the accept handler
    pc,             \* where main is
    msg,            \* main: the message OnMessage was called with
    pos,            \* main: the position in a loop, or what remove has kept so far
    last,           \* main: the end of that loop, or of what erase takes out
    scan,           \* main: where remove looks next
    limit,          \* main: where it ends
    bInvalidClientExists,
    crash,          \* what has ended the program, or "no"
    total,          \* history: the number of messages received
    starts,         \* history: the number of calls of Start
    targets,        \* history: clients connected when the loop began
    reached,        \* history: clients that the loop has sent to
    reported,       \* history: of each client, the calls of OnClientDisconnect
    failed          \* history: those of them that MessageClient has made

lists == <<deqConnections, qMessagesIn>>
peers == <<client, stage, id, nIDCounter>>
runtime == <<context, joinable, starts, crash>>
remove == <<scan, limit>>
loop == <<pos, last, remove, bInvalidClientExists>>
history == <<targets, reached, reported, failed>>
main == <<pc, msg, loop, history>>
vars == <<peers, lists, runtime, asio, main, total>>

IsConnected(c) == client[c] = "open"

\* Main and the asio thread are at a point of their programs.
At(point) == crash = "no" /\ pc = point
Handling(point) == crash = "no" /\ asio = point

Listed(c) == \E i \in DOMAIN deqConnections : deqConnections[i] = c

\* Between messages, main holds none.
NoMessage == [remote |-> Null, msg |-> Null]

\* owned_message<T>
Owned(c, m) == [remote |-> c, msg |-> m]

Init ==
    /\ client = [c \in Clients |-> "away"]
    /\ stage = [c \in Clients |-> "none"]
    /\ id = [c \in Clients |-> 0]
    /\ nIDCounter = FirstId
    /\ deqConnections = <<>>
    /\ qMessagesIn = <<>>
    /\ context = "new"
    /\ joinable = FALSE
    /\ asio = "idle"
    /\ pc = "idle"
    /\ msg = NoMessage
    /\ pos = 1
    /\ last = 0
    /\ scan = 1
    /\ limit = 0
    /\ bInvalidClientExists = FALSE
    /\ crash = "no"
    /\ total = 0
    /\ starts = 0
    /\ targets = {}
    /\ reached = {}
    /\ reported = [c \in Clients |-> 0]
    /\ failed = [c \in Clients |-> 0]

-----------------------------------------------------------------------------
(* Clients.                                                                *)

\* The kernel completes the TCP connection, for the acceptor to pick up.
Arrive(c) ==
    /\ crash = "no" /\ pc # "gone"
    /\ client[c] = "away"
    /\ client' = [client EXCEPT ![c] = "waiting"]
    /\ UNCHANGED <<stage, id, nIDCounter, lists, runtime, asio, main, total>>

-----------------------------------------------------------------------------
(* The asio thread.                                                        *)

\* It takes the next handler.
Free == context = "running" /\ Handling("idle")

\* The client has reset the connection by now: the accept handler throws in
\* remote_endpoint(), and nobody catches it.
AcceptGone(c) ==
    /\ Free
    /\ client[c] = "waiting"
    /\ client' = [client EXCEPT ![c] = "denied"]
    /\ crash' = "exception"
    /\ UNCHANGED <<stage, id, nIDCounter, lists, context, joinable, starts, asio, main,
                   total>>

\* Defect: only the branch that allows a client waits for another one.
DenyOnly(c) ==
    /\ Free
    /\ client[c] = "waiting"
    /\ client' = [client EXCEPT ![c] = "denied"]
    /\ asio' = "done"
    /\ UNCHANGED <<stage, id, nIDCounter, lists, runtime, main, total>>

\* OnClientConnect says no, and the handler waits for another client.
DenyClient(c) ==
    /\ Free
    /\ client[c] = "waiting"
    /\ client' = [client EXCEPT ![c] = "denied"]
    /\ UNCHANGED <<stage, id, nIDCounter, lists, runtime, asio, main, total>>

\* The accept handler, until it has put the connection into the list.
AllowClient(c) ==
    /\ Free
    /\ client[c] = "waiting"
    /\ client' = [client EXCEPT ![c] = "open"]
    /\ deqConnections' = Append(deqConnections, c)
    /\ asio' = "connect"
    /\ UNCHANGED <<stage, id, nIDCounter, qMessagesIn, runtime, main, total>>

\* m_deqConnections.back(): if there is none, no connection that can be used.
Back ==
    IF deqConnections = <<>> THEN Null
    ELSE deqConnections[Len(deqConnections)]

\* The handshake begins.  On a connection that is back() a second time, another
\* challenge is written and another read begun beside the one it has.
Begun(s) == IF s = "none" THEN "handshake" ELSE "mixed"

\* Defect: nIDCounter for nIDCounter++.
ConnectSameId ==
    /\ Handling("connect")
    /\ asio' = "approve"
    /\ IF Back = Null THEN crash' = "null" /\ UNCHANGED <<stage, id>>
       ELSE /\ UNCHANGED crash
            /\ IF IsConnected(Back)
               THEN /\ id' = [id EXCEPT ![Back] = nIDCounter]
                    /\ stage' = [stage EXCEPT ![Back] = Begun(@)]
               ELSE UNCHANGED <<id, stage>>
    /\ UNCHANGED <<client, nIDCounter, lists, context, joinable, starts, main, total>>

\* ConnectToClient, of whatever is last in the list by now.
ConnectBack ==
    /\ Handling("connect")
    /\ asio' = "approve"
    /\ nIDCounter' = (nIDCounter + 1) % IdModulus
    /\ IF Back = Null THEN crash' = "null" /\ UNCHANGED <<stage, id>>
       ELSE /\ UNCHANGED crash
            /\ IF IsConnected(Back)
               THEN /\ id' = [id EXCEPT ![Back] = nIDCounter]
                    /\ stage' = [stage EXCEPT ![Back] = Begun(@)]
               ELSE UNCHANGED <<id, stage>>
    /\ UNCHANGED <<client, lists, context, joinable, starts, main, total>>

\* Defect: the next async_accept is forgotten.
NoMoreAccepts ==
    /\ Handling("approve")
    /\ asio' = "done"
    /\ crash' = IF Back = Null THEN "null" ELSE crash
    /\ UNCHANGED <<peers, lists, context, joinable, starts, main, total>>

\* The rest of the accept handler prints the last connection's id and waits for
\* another client.
Approve ==
    /\ Handling("approve")
    /\ asio' = "idle"
    /\ crash' = IF Back = Null THEN "null" ELSE crash
    /\ UNCHANGED <<peers, lists, context, joinable, starts, main, total>>

\* The handshake's answer was right.  (Among mixed reads, nothing changes by that.)
Validate(c) ==
    /\ Free
    /\ IsConnected(c)
    /\ stage[c] = "handshake"
    /\ stage' = [stage EXCEPT ![c] = "valid"]
    /\ UNCHANGED <<client, id, nIDCounter, lists, runtime, asio, main, total>>

\* A handler of the connection closes its socket: the answer was wrong, or
\* an operation has failed.
CloseSocket(c) ==
    /\ Free
    /\ IsConnected(c)
    /\ client' = [client EXCEPT ![c] = "closed"]
    /\ UNCHANGED <<stage, id, nIDCounter, lists, runtime, asio, main, total>>

\* The clients whose connection has an owner, beside main's message.
Owners(list) == {list[i] : i \in DOMAIN list}
                    \cup {qMessagesIn[i].remote : i \in DOMAIN qMessagesIn}

\* A validated connection has read a message.  A read that was done when another
\* handler closed the socket is handled all the same, if the connection still exists; how
\* many such reads there are is not counted.  What two mixed reads make of the stream
\* may be any message.
Receive(c, m) ==
    /\ Free
    /\ stage[c] \in {"valid", "mixed"}
    /\ \/ IsConnected(c)
       \/ client[c] = "closed" /\ c \in Owners(deqConnections) \cup {msg.remote}
    /\ total < MaxMessages
    /\ total' = total + 1
    /\ qMessagesIn' = Append(qMessagesIn, Owned(c, m))
    /\ UNCHANGED <<peers, deqConnections, runtime, asio, main>>

-----------------------------------------------------------------------------
(* main: Start and Stop.                                                   *)

\* A stopped io_context stays stopped: run() returns at once.  To assign to a
\* joinable std::thread ends the program.
Start ==
    /\ At("idle")
    /\ starts < MaxStarts
    /\ starts' = starts + 1
    /\ joinable' = TRUE
    /\ IF joinable THEN crash' = "terminate" /\ UNCHANGED context
       ELSE /\ context' = IF context = "new" THEN "running" ELSE context
            /\ UNCHANGED crash
    /\ UNCHANGED <<peers, lists, asio, main, total>>

Stop ==
    /\ At("idle")
    /\ context' = "stopped"
    /\ pc' = IF joinable THEN "join" ELSE "idle"
    /\ UNCHANGED <<peers, lists, joinable, starts, crash, asio, msg, loop,
                   history, total>>

\* The asio thread ends when the handler it is in has returned.
Join ==
    /\ At("join")
    /\ Handling("idle")
    /\ joinable' = FALSE
    /\ pc' = "idle"
    /\ UNCHANGED <<peers, lists, context, starts, crash, asio, msg, loop,
                   history, total>>

\* The destructor, of a server that is stopped (it calls Stop itself).  Members go
\* in reverse order of declaration: the context before the list and the queue of
\* messages, whose connections then close sockets that belong to no context.
Destroy ==
    /\ At("idle")
    /\ ~joinable
    /\ context' = "stopped"
    /\ pc' = "gone"
    /\ crash' = IF Owners(deqConnections) \ {Null} = {} THEN "no" ELSE "dangling"
    /\ UNCHANGED <<peers, lists, joinable, starts, asio, msg, loop, history, total>>

-----------------------------------------------------------------------------
(* main: Update and what the user's OnMessage calls.                       *)

\* OnMessage returns to Update's loop.
Return ==
    /\ pc' = "idle"
    /\ msg' = NoMessage
    /\ pos' = 1
    /\ last' = 0
    /\ scan' = 1
    /\ limit' = 0
    /\ bInvalidClientExists' = FALSE
    /\ targets' = {}
    /\ reached' = {}

\* Defect: pop_back for pop_front.
PopLast ==
    /\ At("idle")
    /\ qMessagesIn # <<>>
    /\ msg' = qMessagesIn[Len(qMessagesIn)]
    /\ qMessagesIn' = SubSeq(qMessagesIn, 1, Len(qMessagesIn) - 1)
    /\ pc' = "handle"
    /\ UNCHANGED <<peers, deqConnections, runtime, asio, loop, history, total>>

\* A turn of Update's loop, for one more message.
PopMessage ==
    /\ At("idle")
    /\ qMessagesIn # <<>>
    /\ msg' = Head(qMessagesIn)
    /\ qMessagesIn' = Tail(qMessagesIn)
    /\ pc' = "handle"
    /\ UNCHANGED <<peers, deqConnections, runtime, asio, loop, history, total>>

\* The last argument of erase is evaluated first, then remove's: g++ goes from
\* right to left.
EraseCall ==
    /\ pc' = "remove"
    /\ last' = Len(deqConnections)
    /\ UNCHANGED <<msg, pos, remove, bInvalidClientExists, targets, reached>>

\* A ping is sent back as it came, to a connection that need not be open.
Bounce(c) ==
    /\ At("handle")
    /\ msg.msg.id = "ServerPing"
    /\ msg.remote = c
    /\ Return
    /\ UNCHANGED <<peers, lists, runtime, asio, reported, failed, total>>

\* CustomServer uses its argument unchecked.
OnClientDisconnect(c) ==
    IF c = Null THEN crash' = "null" /\ UNCHANGED reported
    ELSE reported' = [reported EXCEPT ![c] = @ + 1] /\ UNCHANGED crash

\* MessageClient resets its own copy of the pointer before it erases the null
\* pointers of the list.
MessageClient(c) ==
    /\ At("handle")
    /\ msg.msg.id = "Reply"
    /\ msg.remote = c
    /\ IF IsConnected(c) THEN Return /\ UNCHANGED <<reported, failed, crash>>
       ELSE /\ EraseCall
            /\ OnClientDisconnect(c)
            /\ failed' = [failed EXCEPT ![c] = @ + 1]
    /\ UNCHANGED <<peers, lists, context, joinable, starts, asio, total>>

\* MessageAllClients, ignoring the sender: the loop's bounds are evaluated.
MessageAllClients ==
    /\ At("handle")
    /\ msg.msg.id = "MessageAll"
    /\ pc' = "loop"
    /\ pos' = 1
    /\ last' = Len(deqConnections)
    /\ bInvalidClientExists' = FALSE
    /\ targets' = {c \in Clients : Listed(c) /\ IsConnected(c)}
    /\ reached' = {}
    /\ UNCHANGED <<peers, lists, runtime, asio, msg, remove, reported, failed, total>>

\* Defect: the client is erased inside the loop, which then skips the next one.
EraseInLoop ==
    /\ At("loop")
    /\ pos <= last
    /\ pos' = pos + 1
    /\ LET c == deqConnections[pos] IN
        IF c # Null /\ IsConnected(c)
        THEN /\ reached' = IF c = msg.remote THEN reached ELSE reached \cup {c}
             /\ UNCHANGED <<deqConnections, reported, last>>
        ELSE /\ deqConnections' = SubSeq(deqConnections, 1, pos - 1)
                                    \o SubSeq(deqConnections, pos + 1, Len(deqConnections))
             /\ last' = last - 1
             /\ UNCHANGED <<reached, reported>>
    /\ UNCHANGED <<peers, qMessagesIn, runtime, asio, pc, msg, remove,
                   bInvalidClientExists, targets, failed, total>>

\* Defect: client.reset() is forgotten.
ReportOnly ==
    /\ At("loop")
    /\ pos <= last
    /\ pos' = pos + 1
    /\ LET c == deqConnections[pos] IN
        IF c # Null /\ IsConnected(c)
        THEN /\ reached' = IF c = msg.remote THEN reached ELSE reached \cup {c}
             /\ UNCHANGED <<reported, bInvalidClientExists, crash>>
        ELSE /\ bInvalidClientExists' = TRUE
             /\ OnClientDisconnect(c)
             /\ UNCHANGED reached
    /\ UNCHANGED <<peers, lists, context, joinable, starts, asio, pc, msg, last,
                   remove, targets, failed, total>>

\* One turn of the loop.
MessageNext ==
    /\ At("loop")
    /\ pos <= last
    /\ pos' = pos + 1
    /\ LET c == deqConnections[pos] IN
        IF c # Null /\ IsConnected(c)
        THEN /\ reached' = IF c = msg.remote THEN reached ELSE reached \cup {c}
             /\ UNCHANGED <<deqConnections, reported, bInvalidClientExists, crash>>
        ELSE /\ deqConnections' = [deqConnections EXCEPT ![pos] = Null]
             /\ bInvalidClientExists' = TRUE
             /\ OnClientDisconnect(c)
             /\ UNCHANGED reached
    /\ UNCHANGED <<peers, qMessagesIn, context, joinable, starts, asio, pc, msg, last,
                   remove, targets, failed, total>>

LoopEnd ==
    /\ At("loop")
    /\ pos > last
    /\ IF bInvalidClientExists THEN EraseCall ELSE Return
    /\ UNCHANGED <<peers, lists, runtime, asio, reported, failed, total>>

\* std::remove: the clients move to the front, one by one, and leave null pointers
\* behind.  What the asio thread appends after its end was taken is out of its reach.
RemoveBegin ==
    /\ At("remove")
    /\ pc' = "move"
    /\ pos' = 0
    /\ scan' = 1
    /\ limit' = Len(deqConnections)
    /\ UNCHANGED <<peers, lists, runtime, asio, msg, last, bInvalidClientExists,
                   history, total>>

RemoveNext ==
    /\ At("move")
    /\ scan <= limit
    /\ scan' = scan + 1
    /\ IF deqConnections[scan] = Null THEN UNCHANGED <<deqConnections, pos>>
       ELSE /\ deqConnections' = [deqConnections EXCEPT
                    ![scan] = Null, ![pos + 1] = deqConnections[scan]]
            /\ pos' = pos + 1
    /\ UNCHANGED <<peers, qMessagesIn, runtime, asio, pc, msg, last, limit,
                   bInvalidClientExists, history, total>>

RemoveEnd ==
    /\ At("move")
    /\ scan > limit
    /\ pc' = "erase"
    /\ UNCHANGED <<peers, lists, runtime, asio, msg, loop, history, total>>

\* What deque::erase leaves: everything but the elements pos + 1 .. last.  A connection
\* that is appended after erase has found last to be the end, and before it
\* takes elements out, is lost: either everything goes if the first one goes, or
\* as many elements as there were null pointers go from the new end.
Survivors ==
    LET kept == SubSeq(deqConnections, 1, pos)
                    \o SubSeq(deqConnections, last + 1, Len(deqConnections))
        appendedSince == last < Len(deqConnections) /\ deqConnections[last + 1] # Null
        fewer == Len(deqConnections) - (last - pos)
    IN  {kept} \cup
        (IF ~appendedSince THEN {}
         ELSE {IF pos = 0 THEN <<>> ELSE SubSeq(deqConnections, 1, fewer)})

\* A connection that loses its last owner is destroyed, and its socket closed.
EraseEnd ==
    /\ At("erase")
    /\ pos <= last
    /\ Return
    /\ \E list \in Survivors :
        LET owned == Owners(list) \cup {msg.remote}
        IN  /\ deqConnections' = list
            /\ client' = [c \in Clients |->
                            IF Listed(c) /\ c \notin owned THEN "closed" ELSE client[c]]
    /\ UNCHANGED <<stage, id, nIDCounter, qMessagesIn, runtime, asio, reported,
                   failed, total>>

\* More connections were appended between the two calls of end() than there are null
\* pointers: erase is given an end before the beginning.
EraseReversed ==
    /\ At("erase")
    /\ pos > last
    /\ crash' = "memory"
    /\ UNCHANGED <<peers, lists, context, joinable, starts, asio, main, total>>

-----------------------------------------------------------------------------
AcceptHandler ==
    \/ \E c \in Clients : AcceptGone(c) \/ DenyClient(c) \/ AllowClient(c)
    \/ ConnectBack
    \/ Approve

\* std::remove, and an erase that it leads to and that does not return.
Tidy ==
    \/ RemoveBegin
    \/ RemoveNext
    \/ RemoveEnd
    \/ EraseReversed

OnMessage ==
    \/ \E c \in Clients : Bounce(c) \/ MessageClient(c)
    \/ MessageAllClients

Main ==
    \/ Join
    \/ PopMessage
    \/ OnMessage
    \/ MessageNext
    \/ LoopEnd
    \/ Tidy
    \/ EraseEnd

Next ==
    \/ \E c \in Clients :
        \/ Arrive(c) \/ Validate(c) \/ CloseSocket(c)
        \/ \E m \in Incoming : Receive(c, m)
    \/ AcceptHandler
    \/ Start
    \/ Stop
    \/ Destroy
    \/ Main

Spec == Init /\ [][Next]_vars

\* Both threads run.  Clients may do as they like, and so may whoever calls
\* Start and Stop.
Fairness == WF_vars(AcceptHandler) /\ WF_vars(Main)

FairSpec == Spec /\ Fairness

-----------------------------------------------------------------------------
(* Properties.                                                             *)

OwnedMessages == [remote : Clients, msg : Incoming]

TypeOK ==
    /\ client \in [Clients -> {"away", "waiting", "denied", "open", "closed"}]
    /\ stage \in [Clients -> {"none", "handshake", "valid", "mixed"}]
    /\ id \in [Clients -> Nat]
    /\ nIDCounter \in 0..(IdModulus - 1)
    /\ deqConnections \in Seq(Clients \cup {Null})
    /\ qMessagesIn \in Seq(OwnedMessages)
    /\ context \in {"new", "running", "stopped"}
    /\ joinable \in BOOLEAN
    /\ asio \in {"idle", "connect", "approve"}
    /\ pc \in {"idle", "join", "handle", "loop", "remove", "move", "erase",
              "gone"}
    /\ msg \in OwnedMessages \cup {NoMessage}
    /\ pos \in Nat
    /\ last \in Nat
    /\ scan \in Nat
    /\ limit \in Nat
    /\ bInvalidClientExists \in BOOLEAN
    /\ crash \in {"no", "exception", "terminate", "null", "memory", "dangling"}
    /\ total \in Nat
    /\ starts \in Nat
    /\ targets \subseteq Clients
    /\ reached \subseteq Clients
    /\ reported \in [Clients -> Nat]
    /\ failed \in [Clients -> Nat]

Accepted == {c \in Clients : client[c] \in {"open", "closed"}}

IdsDiffer ==
    \A c, d \in Clients :
        c # d /\ stage[c] # "none" /\ stage[d] # "none" => id[c] # id[d]

\* "Every client must have assigned an unique ID" (net_test.cpp:126): no two
\* connections of a server ever have the same one, until more were accepted than there
\* are ids.  Then nIDCounter, of 32 bits, has come round, and its ids may be in use.
UniqueIds == Cardinality(Accepted) <= IdModulus => IdsDiffer

\* MessageAllClients reaches every client that was connected when it was called
\* and still is, except the one to ignore, whatever the asio thread does to the
\* list and to the sockets meanwhile.
BroadcastReaches ==
    pc = "loop" =>
        /\ msg.remote \notin reached
        /\ \A c \in targets \ {msg.remote} :
            \/ c \in reached
            \/ ~IsConnected(c)
            \/ \E i \in pos..last : deqConnections[i] = c

\* Nobody is reported as disconnected who is not, and MessageAllClients reports a
\* client once, whatever MessageClient does: that reports it at every attempt.
ReportedOnce ==
    \A c \in Clients :
        reported[c] <= failed[c] + 1 /\ (reported[c] > 0 => ~IsConnected(c))

\* A client that MessageAllClients has reported is out of the list when it returns.
ReportedIsRemoved ==
    pc = "idle" => \A c \in Clients : reported[c] > failed[c] => ~Listed(c)

\* A client whose socket is closed when a broadcast begins leaves the list.
DeadRemoved ==
    \A c \in Clients :
        (pc = "handle" /\ msg.msg.id = "MessageAll" /\ client[c] = "closed")
            ~> (~Listed(c) \/ crash # "no")

\* As long as the context runs, every client that waits is accepted or denied: whichever
\* way the accept handler ends, it "will again simply wait for another connection"
\* (net_server.h:107-108), unless the program crashes.
AcceptingGoesOn ==
    []<>(context # "running" \/ crash # "no" \/ \A c \in Clients : client[c] # "waiting")

\* "When a future attempt to write to this client fails due to the closed socket,
\* it will be tidied up" (net_connection.h:239): after MessageClient.
FailedIsRemoved == pc = "idle" => \A c \in Clients : failed[c] > 0 => ~Listed(c)

\* Clients leave the list because "the client couldnt be contacted, so assume it
\* has disconnected" (net_server.h:145), and for no other reason.
OnlyClosedRemoved ==
    [][\A c \in Clients : Listed(c) /\ ~Listed(c)' => client[c] = "closed"]_vars
=============================================================================
