------------------------------- MODULE Client -------------------------------
(***************************************************************************)
(* olc::net::client_interface (NetCommon/net_client.h): one connection,    *)
(* the io_context that serves it, the thread that runs the context and the *)
(* queue of incoming messages.  Its user is any program with one thread    *)
(* that calls the public operations; SimpleClient is one.                  *)
(*                                                                         *)
(* Of the connection there is what keeps the context busy: the operation   *)
(* that waits for the network, and posted lambdas.  io_context::run        *)
(* returns when there is neither, and the context is then stopped; nobody  *)
(* ever restarts it.                                                       *)
(***************************************************************************)
EXTENDS Naturals, Sequences

CONSTANTS
    Messages,       \* messages the server may send
    MaxMessages,    \* bound of the model: messages read
    MaxPosts        \* bound of the model: sends posted and not run yet

VARIABLES
    conn,           \* does m_connection hold a connection?
    sock,           \* its socket, or that of the last one: "none", "open", "closed"
    op,             \* what is outstanding on it: "none", "connect" (or, that having
                    \* failed, "refused"), "handshake" or "read" (of a message)
    writing,        \* has a write been started before there was a connection?
    posted,         \* lambdas posted and not run yet: "send" or "close"
    context,        \* m_context: "new", "running" or "stopped"
    thread,         \* thrContext: "none", in "run", or "returned" and not joined
    qMessagesIn,    \* m_qMessagesIn
    call,           \* how far the user is in Disconnect: "none", "stop", "join"
    alive,          \* has the destructor not been called?
    crash,          \* has std::terminate been called?
    total           \* history: the number of messages read

net == <<sock, op, writing, posted>>
runtime == <<context, thread>>
user == <<call, alive, crash>>
clientVars == <<conn, net, runtime, qMessagesIn, user, total>>

ClientInit ==
    /\ conn = FALSE
    /\ sock = "none"
    /\ op = "none"
    /\ writing = FALSE
    /\ posted = <<>>
    /\ context = "new"
    /\ thread = "none"
    /\ qMessagesIn = <<>>
    /\ call = "none"
    /\ alive = TRUE
    /\ crash = FALSE
    /\ total = 0

IsConnected == conn /\ sock = "open"

-----------------------------------------------------------------------------
(* The user's calls.                                                       *)

MayCall == alive /\ call = "none" /\ ~crash

\* To assign to a joinable std::thread ends the program, and what the old connection's
\* handlers do in the meantime does not matter.  In a context that has been stopped,
\* run returns at once: nothing that is started here will finish.
Connect ==
    /\ MayCall
    /\ conn' = TRUE
    /\ sock' = "open"
    /\ op' = "connect"
    /\ writing' = FALSE
    /\ context' = IF context = "new" THEN "running" ELSE context
    /\ thread' = IF context = "stopped" THEN "returned" ELSE "run"
    /\ crash' = (thread # "none")
    /\ UNCHANGED <<posted, qMessagesIn, call, alive, total>>

\* The host is not resolved, and Connect returns false.
ConnectThrows ==
    /\ MayCall
    /\ UNCHANGED clientVars

\* A send that finds no connection does nothing.
Send ==
    /\ MayCall
    /\ Len(posted) < MaxPosts
    /\ posted' = IF IsConnected THEN Append(posted, "send") ELSE posted
    /\ UNCHANGED <<conn, sock, op, writing, runtime, qMessagesIn, user, total>>

\* Incoming().pop_front(), by a user who has seen that there is a message.
Take ==
    /\ MayCall
    /\ qMessagesIn # <<>>
    /\ qMessagesIn' = Tail(qMessagesIn)
    /\ UNCHANGED <<conn, net, runtime, user, total>>

\* Defect: to close the socket is left to the connection's destructor.
DisconnectUnclosed(last) ==
    /\ MayCall
    /\ call' = "stop"
    /\ alive' = ~last
    /\ UNCHANGED <<conn, net, runtime, qMessagesIn, crash, total>>

\* Disconnect, called by the user or by the destructor, posts the close if there
\* is something to close, ...
Disconnect(last) ==
    /\ MayCall
    /\ posted' = IF IsConnected THEN Append(posted, "close") ELSE posted
    /\ call' = "stop"
    /\ alive' = ~last
    /\ UNCHANGED <<conn, sock, op, writing, runtime, qMessagesIn, crash, total>>

\* Defect: the context is not stopped.
NoStop ==
    /\ call = "stop"
    /\ call' = "join"
    /\ UNCHANGED <<conn, net, runtime, qMessagesIn, alive, crash, total>>

\* ... stops the context, so that the close may never run, ...
Stop ==
    /\ call = "stop"
    /\ context' = "stopped"
    /\ call' = "join"
    /\ UNCHANGED <<conn, net, thread, qMessagesIn, alive, crash, total>>

\* Defect: the connection is let go without waiting for the thread.
ReleaseAtOnce ==
    /\ call = "join"
    /\ conn' = FALSE
    /\ call' = "none"
    /\ UNCHANGED <<net, runtime, qMessagesIn, alive, crash, total>>

\* ... waits for the thread and forgets the connection: unique_ptr::release does
\* not destroy it.
Join ==
    /\ call = "join"
    /\ thread # "run"
    /\ thread' = "none"
    /\ conn' = FALSE
    /\ call' = "none"
    /\ UNCHANGED <<net, context, qMessagesIn, alive, crash, total>>

-----------------------------------------------------------------------------
(* The thread in io_context::run, and the network.                         *)

Running == thread = "run" /\ context = "running" /\ ~crash

Rest == <<conn, runtime, qMessagesIn, user, total>>

Connected ==
    /\ Running
    /\ op = "connect"
    /\ sock = "open"
    /\ op' = "handshake"
    /\ writing' = FALSE
    /\ UNCHANGED <<sock, posted, Rest>>

\* async_connect fails and its handler does nothing.  A write that has been
\* waiting for the connection fails too, and its handler closes the socket.
Refused ==
    /\ Running
    /\ op = "connect"
    /\ op' = "refused"
    /\ sock' = IF writing THEN "closed" ELSE sock
    /\ writing' = FALSE
    /\ UNCHANGED <<posted, Rest>>

\* The challenge has been answered.
Answered ==
    /\ Running
    /\ op = "handshake"
    /\ sock = "open"
    /\ op' = "read"
    /\ UNCHANGED <<sock, writing, posted, Rest>>

ReadMessage(m) ==
    /\ Running
    /\ op = "read"
    /\ sock = "open"
    /\ total < MaxMessages
    /\ total' = total + 1
    /\ qMessagesIn' = Append(qMessagesIn, m)
    /\ UNCHANGED <<conn, net, runtime, user>>

\* An operation on a connection fails: the server is gone, or the socket has been
\* closed here.  The handlers close the socket.
OpFails ==
    /\ Running
    /\ op \in {"handshake", "read"}
    /\ op' = "none"
    /\ sock' = "closed"
    /\ UNCHANGED <<writing, posted, Rest>>

\* The lambda posted by Send starts a write, which waits for the connection, or
\* fails if the connection was refused or the socket is closed.
RunSend ==
    /\ Running
    /\ posted # <<>>
    /\ Head(posted) = "send"
    /\ posted' = Tail(posted)
    /\ writing' = (writing \/ op = "connect")
    /\ sock' = IF op = "refused" THEN "closed" ELSE sock
    /\ UNCHANGED <<op, Rest>>

RunClose ==
    /\ Running
    /\ posted # <<>>
    /\ Head(posted) = "close"
    /\ posted' = Tail(posted)
    /\ sock' = "closed"
    /\ UNCHANGED <<op, writing, Rest>>

\* run() returns if the context is stopped or has nothing to do.
Idle == op \in {"none", "refused"} /\ posted = <<>>

RunReturns ==
    /\ thread = "run"
    /\ context = "stopped" \/ Idle
    /\ thread' = "returned"
    /\ context' = "stopped"
    /\ UNCHANGED <<conn, net, qMessagesIn, user, total>>

-----------------------------------------------------------------------------
Network ==
    \/ Connected
    \/ Refused
    \/ Answered
    \/ \E m \in Messages : ReadMessage(m)
    \/ OpFails

Context == RunSend \/ RunClose \/ RunReturns

ClientNext ==
    \/ Connect
    \/ ConnectThrows
    \/ Send
    \/ Take
    \/ \E last \in BOOLEAN : Disconnect(last)
    \/ Stop
    \/ Join
    \/ Network
    \/ Context

ClientSpec == ClientInit /\ [][ClientNext]_clientVars

-----------------------------------------------------------------------------
ClientTypeOK ==
    /\ conn \in BOOLEAN
    /\ sock \in {"none", "open", "closed"}
    /\ op \in {"none", "connect", "refused", "handshake", "read"}
    /\ writing \in BOOLEAN
    /\ posted \in Seq({"send", "close"})
    /\ context \in {"new", "running", "stopped"}
    /\ thread \in {"none", "run", "returned"}
    /\ qMessagesIn \in Seq(Messages)
    /\ call \in {"none", "stop", "join"}
    /\ alive \in BOOLEAN
    /\ crash \in BOOLEAN
    /\ total \in Nat

\* Handlers capture the connection and the client by their address: while one may
\* run, the client holds the connection.  In particular none runs when the client
\* is destroyed.
QuietWhenReleased == ~conn => thread # "run"
=============================================================================
