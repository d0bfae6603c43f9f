----------------------------- MODULE Connection -----------------------------
(***************************************************************************)
(* Two olc::net::connection<T> objects (NetCommon/net_connection.h) joined *)
(* by one TCP connection: the one a client_interface owns and the one the  *)
(* server_interface made for it.                                           *)
(*                                                                         *)
(* All handlers of an end run on the one thread that runs its io_context,  *)
(* so a handler is one action.  What happens between handlers is modelled: *)
(* user threads post lambdas to the context, outstanding asynchronous      *)
(* operations are moved forward by the operating system, and a completed   *)
(* operation waits for its handler to run.                                 *)
(*                                                                         *)
(* On the wire, the bytes of one asynchronous write are one chunk: a       *)
(* handshake word (8 bytes), a header (8 bytes: id and size) or a body.    *)
(***************************************************************************)
EXTENDS Naturals, Sequences

CONSTANTS
    ClientMessages, \* messages the user of the client sends
    ServerMessages, \* messages the user of the server sends, beside bounces
    AcceptMessage,  \* what CustomServer::OnClientConnect sends
    BounceIds,      \* ids of messages that the server's OnMessage sends back
    Ids,            \* all message ids
    Bytes,          \* what a body is made of
    MaxSends,       \* bound of the model: calls of Send, per end
    GarbageSizes,   \* bound of the model: sizes a misread header may have
    WaitForAccept,  \* does the client's user wait for a message to arrive
                    \* before sending?  The library does not make it.
    MayDisconnect,  \* may users call Disconnect?
    LinkFaults      \* may the TCP connection be refused or lost?

Ends == {"client", "server"}
Peer(e) == IF e = "client" THEN "server" ELSE "client"

\* message<T>: header.id, header.size and body, here with the bodies any
\* sequence of bytes and the size any number, as the type allows.
Message == [id : Ids, size : Nat, body : Seq(Bytes)]

\* The size that operator<< keeps up to date (net_message.h:62).
SizeMatches(m) == m.size = Len(m.body)

ASSUME MessagesAssumption ==
    /\ ClientMessages \subseteq Message
    /\ ServerMessages \subseteq Message
    /\ AcceptMessage \in Message
    /\ \A m \in ClientMessages \cup ServerMessages \cup {AcceptMessage} :
            SizeMatches(m)

\* A ServerPing, which OnMessage sends back, carries a time point.
ASSUME BounceAssumption ==
    \A m \in ClientMessages : m.id \in BounceIds => m.body # <<>>

ASSUME BoundsAssumption ==
    /\ MaxSends \in [Ends -> Nat]
    /\ GarbageSizes \subseteq Nat
    /\ WaitForAccept \in BOOLEAN
    /\ MayDisconnect \in BOOLEAN
    /\ LinkFaults \in BOOLEAN
    /\ BounceIds \subseteq Ids

VARIABLES
    sock,           \* m_socket: "none" before the object exists, "open", "closed"
    connecting,     \* the client's async_connect: "idle", "wait", "done",
                    \* "failed" or, its handler having run, "handled"
    link,           \* the TCP connection: "none", "up" or "lost"
    wire,           \* wire[e]: chunks on their way to e
    posted,         \* lambdas posted to the io_context and not run yet
    writes,         \* outstanding async_writes on the socket, in order
    reads,          \* outstanding async_reads on the socket, in order
    outq,           \* m_qMessagesOut
    tmp,            \* m_msgTemporaryIn
    hsIn,           \* m_nHandshakeIn
    hsOut,          \* m_nHandshakeOut
    hungUp,         \* history: the ends whose user has called Disconnect
    sent,           \* history: the messages given to Send, in order
    delivered       \* history: the messages pushed to m_qMessagesIn, in order

vars == <<sock, connecting, link, hungUp, wire, posted, writes, reads, outq,
          tmp, hsIn, hsOut, sent, delivered>>

net == <<connecting, link, hungUp>>
handshake == <<hsIn, hsOut>>

-----------------------------------------------------------------------------
(* Data.                                                                   *)

\* 64-bit handshake words, as far as they can be told apart.
Words == {"zero", "challenge", "answer", "other"}

\* connection::scramble is a function, so the client's answer to the server's
\* challenge is the value the server calculated; that no other word a client
\* may send scrambles or reads as that value is assumed.
Scramble(w) == IF w = "challenge" THEN "answer" ELSE "other"

m_nHandshakeCheck == Scramble("challenge")

WordChunk(w) == [kind |-> "word", word |-> w]

\* Defect: sizeof(message) for sizeof(message_header).
WholeMessage(m) == [kind |-> "header", id |-> m.id, size |-> m.size, rest |-> m.body]

HeaderChunk(m) == [kind |-> "header", id |-> m.id, size |-> m.size]

BodyChunk(m) == [kind |-> "body", data |-> m.body]

Chunks == [kind : {"word"}, word : Words]
            \cup [kind : {"header"}, id : Ids, size : Nat]
            \cup [kind : {"body"}, data : Seq(Bytes)]

\* An asynchronous write of a chunk; done once the chunk has been sent.
Write(chunk) == [chunk |-> chunk, done |-> FALSE]

\* An asynchronous read; done once its buffer has been filled.
Read(kind) == [kind |-> kind, done |-> FALSE]

\* WriteHeader, if the queue has a front message to write.
WriteHeader(q) == IF q = <<>> THEN <<>> ELSE <<Write(HeaderChunk(Head(q)))>>

WriteBody(q) == <<Write(BodyChunk(Head(q)))>>

-----------------------------------------------------------------------------
Init ==
    /\ sock = [e \in Ends |-> "none"]
    /\ connecting = "idle"
    /\ link = "none"
    /\ hungUp = {}
    /\ wire = [e \in Ends |-> <<>>]
    /\ posted = [e \in Ends |-> <<>>]
    /\ writes = [e \in Ends |-> <<>>]
    /\ reads = [e \in Ends |-> <<>>]
    /\ outq = [e \in Ends |-> <<>>]
    /\ tmp = [e \in Ends |-> [id |-> AcceptMessage.id, size |-> 0, body |-> <<>>]]
    /\ hsIn = [e \in Ends |-> "zero"]
    /\ hsOut = [e \in Ends |-> IF e = "server" THEN "challenge" ELSE "zero"]
    /\ sent = [e \in Ends |-> <<>>]
    /\ delivered = [e \in Ends |-> <<>>]

IsConnected(e) == sock[e] = "open"

\* m_socket.close(): what has arrived and was not read is lost, and the
\* outstanding operations that are not done will fail.
Close(e) ==
    /\ sock' = [sock EXCEPT ![e] = "closed"]
    /\ wire' = [wire EXCEPT ![e] = <<>>]

\* An operation of e on the socket fails for good.
Broken(e) ==
    \/ ~IsConnected(e)
    \/ sock[Peer(e)] = "closed"
    \/ link = "lost"
    \/ e = "client" /\ connecting = "failed"

-----------------------------------------------------------------------------
(* Establishing the connection.                                            *)

\* connection::ConnectToServer: initiating async_connect opens the socket.
ConnectToServer ==
    /\ sock["client"] = "none"
    /\ sock' = [sock EXCEPT !["client"] = "open"]
    /\ connecting' = "wait"
    /\ UNCHANGED <<link, hungUp, wire, posted, writes, reads, outq, tmp, handshake,
                   sent, delivered>>

TcpEstablish ==
    /\ connecting = "wait"
    /\ IsConnected("client")
    /\ connecting' = "done"
    /\ link' = "up"
    /\ UNCHANGED <<sock, hungUp, wire, posted, writes, reads, outq, tmp, handshake,
                   sent, delivered>>

\* The connection is refused, or close() aborts the attempt.  The handler does
\* nothing on an error: it leaves the socket as it is.
ConnectFailed ==
    /\ connecting = "wait"
    /\ LinkFaults \/ ~IsConnected("client")
    /\ connecting' = "failed"
    /\ UNCHANGED <<sock, link, hungUp, wire, posted, writes, reads, outq, tmp,
                   handshake, sent, delivered>>

\* The handler of async_connect: ReadValidation.  If the socket was closed in the
\* meantime, asio reports that the operation was aborted.
OnConnected ==
    /\ connecting = "done"
    /\ connecting' = "handled"
    /\ reads' = IF IsConnected("client")
                THEN [reads EXCEPT !["client"] = Append(@, Read("word"))]
                ELSE reads
    /\ UNCHANGED <<sock, link, hungUp, wire, posted, writes, outq, tmp, handshake,
                   sent, delivered>>

\* Defect: read a message at once, as ConnectToClient did before there was a
\* handshake ("was: ReadHeader()", net_connection.h:68).
AcceptUnvalidated ==
    /\ link # "none"
    /\ sock["server"] = "none"
    /\ sock' = [sock EXCEPT !["server"] = "open"]
    /\ posted' = [posted EXCEPT !["server"] =
                    Append(@, [op |-> "send", msg |-> AcceptMessage])]
    /\ sent' = [sent EXCEPT !["server"] = Append(@, AcceptMessage)]
    /\ reads' = [reads EXCEPT !["server"] = Append(@, Read("header"))]
    /\ UNCHANGED <<net, wire, writes, outq, tmp, handshake, delivered>>

\* The server's accept handler: the constructor, CustomServer::OnClientConnect,
\* which calls Send, and ConnectToClient, which writes the challenge and waits
\* for the answer.  Send only posts, so the challenge is written first.  That
\* remote_endpoint may throw and end the server is in Server (AcceptGone).
AcceptClient ==
    /\ link # "none"
    /\ sock["server"] = "none"
    /\ sock' = [sock EXCEPT !["server"] = "open"]
    /\ posted' = [posted EXCEPT !["server"] =
                    Append(@, [op |-> "send", msg |-> AcceptMessage])]
    /\ sent' = [sent EXCEPT !["server"] = Append(@, AcceptMessage)]
    /\ writes' = [writes EXCEPT !["server"] =
                    Append(@, Write(WordChunk(hsOut["server"])))]
    /\ reads' = [reads EXCEPT !["server"] = Append(@, Read("word"))]
    /\ UNCHANGED <<net, wire, outq, tmp, handshake, delivered>>

\* The network drops the connection.
LoseLink ==
    /\ LinkFaults
    /\ link = "up"
    /\ link' = "lost"
    /\ UNCHANGED <<sock, connecting, hungUp, wire, posted, writes, reads, outq, tmp,
                   handshake, sent, delivered>>

-----------------------------------------------------------------------------
(* The users of the connection: any thread may post.                       *)

\* What the user of e may want to send.  A server's OnMessage also sends
\* messages of some ids back as it received them (CustomServer: ServerPing).
Sendable(e) ==
    IF e = "client" THEN ClientMessages
    ELSE ServerMessages \cup {delivered[e][i] : i \in
            {j \in DOMAIN delivered[e] : delivered[e][j].id \in BounceIds}}

\* client_interface::Send does nothing unless IsConnected, which an open socket
\* satisfies even before the connection exists.  CustomServer sends unchecked.
Send(e, m) ==
    /\ Len(sent[e]) < MaxSends[e]
    /\ IF e = "client" THEN IsConnected(e) ELSE sock[e] # "none"
    /\ e = "client" /\ WaitForAccept => delivered[e] # <<>>
    /\ posted' = [posted EXCEPT ![e] = Append(@, [op |-> "send", msg |-> m])]
    /\ sent' = [sent EXCEPT ![e] = Append(@, m)]
    /\ UNCHANGED <<sock, net, wire, writes, reads, outq, tmp, handshake,
                   delivered>>

\* Calling it again before the close has run would post a second close.
Disconnect(e) ==
    /\ MayDisconnect
    /\ IsConnected(e)
    /\ \A i \in DOMAIN posted[e] : posted[e][i].op # "close"
    /\ posted' = [posted EXCEPT ![e] = Append(@, [op |-> "close"])]
    /\ hungUp' = hungUp \cup {e}
    /\ UNCHANGED <<sock, connecting, link, wire, writes, reads, outq, tmp,
                   handshake, sent, delivered>>

-----------------------------------------------------------------------------
(* The operating system: moving operations forward.                        *)

\* The first outstanding operation that is not done, if there is one.
Waiting(ops) == {i \in DOMAIN ops : ~ops[i].done /\ \A j \in 1..(i-1) : ops[j].done}

\* The oldest unfinished write puts its bytes on the wire; they are thrown away
\* if the peer is gone.
Transmit(e) ==
    /\ IsConnected(e)
    /\ link = "up"
    /\ \E i \in Waiting(writes[e]) :
        /\ writes' = [writes EXCEPT ![e][i].done = TRUE]
        /\ wire' = IF sock[Peer(e)] = "closed" THEN wire
                   ELSE [wire EXCEPT ![Peer(e)] = Append(@, writes[e][i].chunk)]
    /\ UNCHANGED <<sock, net, posted, reads, outq, tmp, handshake, sent,
                   delivered>>

\* What lands in the buffer of a header or body read.  If the bytes are not of
\* the kind the read waits for, the stream is out of step and the buffer may
\* hold anything.
HeadersFrom(chunk) ==
    IF chunk.kind = "header" THEN {[id |-> chunk.id, size |-> chunk.size]}
    ELSE [id : Ids, size : GarbageSizes]

BodiesFrom(chunk, size) ==
    IF chunk.kind = "body" /\ Len(chunk.data) = size THEN {chunk.data}
    ELSE [1..size -> Bytes]

\* The bytes that arrived fill the buffer of the oldest unfinished read.  A
\* header has the size of a handshake word, so one can be taken for the other.
Fill(e) ==
    /\ IsConnected(e)
    /\ wire[e] # <<>>
    /\ \E i \in Waiting(reads[e]) :
        LET chunk == Head(wire[e])
            kind == reads[e][i].kind
        IN  /\ reads' = [reads EXCEPT ![e][i].done = TRUE]
            /\ \/ /\ kind = "word"
                  /\ hsIn' = [hsIn EXCEPT ![e] =
                        IF chunk.kind = "word" THEN chunk.word ELSE "other"]
                  /\ UNCHANGED tmp
               \/ /\ kind = "header"
                  /\ \E h \in HeadersFrom(chunk) :
                        tmp' = [tmp EXCEPT ![e].id = h.id, ![e].size = h.size]
                  /\ UNCHANGED hsIn
               \/ /\ kind = "body"
                  /\ \E body \in BodiesFrom(chunk, tmp[e].size) :
                        tmp' = [tmp EXCEPT ![e].body = body]
                  /\ UNCHANGED hsIn
    /\ wire' = [wire EXCEPT ![e] = Tail(@)]
    /\ UNCHANGED <<sock, net, posted, writes, outq, hsOut, sent, delivered>>

-----------------------------------------------------------------------------
(* The io_context of an end: running posted lambdas and handlers.          *)

\* Defect: every Send starts a write.
RunSendAtOnce(e) ==
    /\ posted[e] # <<>>
    /\ Head(posted[e]).op = "send"
    /\ outq' = [outq EXCEPT ![e] = Append(@, Head(posted[e]).msg)]
    /\ writes' = [writes EXCEPT ![e] = @ \o WriteHeader(outq'[e])]
    /\ posted' = [posted EXCEPT ![e] = Tail(@)]
    /\ UNCHANGED <<sock, net, wire, reads, tmp, handshake, sent, delivered>>

\* Defect: push_front for push_back.
RunSendFirst(e) ==
    /\ posted[e] # <<>>
    /\ Head(posted[e]).op = "send"
    /\ outq' = [outq EXCEPT ![e] = <<Head(posted[e]).msg>> \o @]
    /\ writes' = [writes EXCEPT ![e] =
                    IF outq[e] = <<>> THEN @ \o WriteHeader(outq'[e]) ELSE @]
    /\ posted' = [posted EXCEPT ![e] = Tail(@)]
    /\ UNCHANGED <<sock, net, wire, reads, tmp, handshake, sent, delivered>>

\* The lambda posted by Send.  A non-empty queue means that a message is being
\* written, whose handler will write this one in its turn.
RunSend(e) ==
    /\ posted[e] # <<>>
    /\ Head(posted[e]).op = "send"
    /\ outq' = [outq EXCEPT ![e] = Append(@, Head(posted[e]).msg)]
    /\ writes' = [writes EXCEPT ![e] =
                    IF outq[e] = <<>> THEN @ \o WriteHeader(outq'[e]) ELSE @]
    /\ posted' = [posted EXCEPT ![e] = Tail(@)]
    /\ UNCHANGED <<sock, net, wire, reads, tmp, handshake, sent, delivered>>

\* The lambda posted by Disconnect.
RunClose(e) ==
    /\ posted[e] # <<>>
    /\ Head(posted[e]).op = "close"
    /\ Close(e)
    /\ posted' = [posted EXCEPT ![e] = Tail(@)]
    /\ UNCHANGED <<net, writes, reads, outq, tmp, handshake, sent, delivered>>

\* The oldest write has been sent and its handler runs.
Written(e, kind) ==
    /\ writes[e] # <<>>
    /\ Head(writes[e]).done
    /\ Head(writes[e]).chunk.kind = kind

\* Defect: both owners go on to read a message.
ValidationWrittenByAny(e) ==
    /\ Written(e, "word")
    /\ writes' = [writes EXCEPT ![e] = Tail(@)]
    /\ reads' = [reads EXCEPT ![e] = Append(@, Read("header"))]
    /\ UNCHANGED <<sock, net, wire, posted, outq, tmp, handshake, sent, delivered>>

\* Defect: neither does.
ValidationWrittenOnly(e) ==
    /\ Written(e, "word")
    /\ writes' = [writes EXCEPT ![e] = Tail(@)]
    /\ UNCHANGED <<sock, net, wire, posted, reads, outq, tmp, handshake, sent,
                   delivered>>

\* The success branch of WriteValidation's handler: a client now reads messages.
OnValidationWritten(e) ==
    /\ Written(e, "word")
    /\ writes' = [writes EXCEPT ![e] = Tail(@)]
    /\ reads' = IF e = "client" THEN [reads EXCEPT ![e] = Append(@, Read("header"))]
                ELSE reads
    /\ UNCHANGED <<sock, net, wire, posted, outq, tmp, handshake, sent, delivered>>

\* Defect: the message is dropped from the queue before its body is written.
PopBeforeBody(e) ==
    /\ Written(e, "header")
    /\ outq' = [outq EXCEPT ![e] = Tail(@)]
    /\ writes' = [writes EXCEPT ![e] = Tail(@) \o
                    IF Head(outq[e]).body # <<>> THEN WriteBody(outq[e])
                    ELSE WriteHeader(outq'[e])]
    /\ UNCHANGED <<sock, net, wire, posted, reads, tmp, handshake, sent, delivered>>

\* The success branch of WriteHeader's handler.
OnHeaderWritten(e) ==
    /\ Written(e, "header")
    /\ IF Head(outq[e]).body # <<>>
       THEN /\ writes' = [writes EXCEPT ![e] = Tail(@) \o WriteBody(outq[e])]
            /\ UNCHANGED outq
       ELSE /\ outq' = [outq EXCEPT ![e] = Tail(@)]
            /\ writes' = [writes EXCEPT ![e] = Tail(@) \o WriteHeader(outq'[e])]
    /\ UNCHANGED <<sock, net, wire, posted, reads, tmp, handshake, sent, delivered>>

\* Defect: the next message is not started.
BodyWrittenOnly(e) ==
    /\ Written(e, "body")
    /\ outq' = [outq EXCEPT ![e] = Tail(@)]
    /\ writes' = [writes EXCEPT ![e] = Tail(@)]
    /\ UNCHANGED <<sock, net, wire, posted, reads, tmp, handshake, sent, delivered>>

\* The success branch of WriteBody's handler.
OnBodyWritten(e) ==
    /\ Written(e, "body")
    /\ outq' = [outq EXCEPT ![e] = Tail(@)]
    /\ writes' = [writes EXCEPT ![e] = Tail(@) \o WriteHeader(outq'[e])]
    /\ UNCHANGED <<sock, net, wire, posted, reads, tmp, handshake, sent, delivered>>

\* The oldest write failed: all three handlers close the socket.
OnWriteFailed(e) ==
    /\ writes[e] # <<>>
    /\ ~Head(writes[e]).done
    /\ Broken(e)
    /\ Close(e)
    /\ writes' = [writes EXCEPT ![e] = Tail(@)]
    /\ UNCHANGED <<net, posted, reads, outq, tmp, handshake, sent, delivered>>

\* The oldest read has been filled and its handler runs.
ReadDone(e, kind) ==
    /\ reads[e] # <<>>
    /\ Head(reads[e]).done
    /\ Head(reads[e]).kind = kind

\* Defect: the challenge is sent back as it came.
EchoChallenge(e) ==
    /\ e = "client"
    /\ ReadDone(e, "word")
    /\ hsOut' = [hsOut EXCEPT ![e] = hsIn[e]]
    /\ writes' = [writes EXCEPT ![e] = Append(@, Write(WordChunk(hsOut'[e])))]
    /\ reads' = [reads EXCEPT ![e] = Tail(@)]
    /\ UNCHANGED <<sock, net, wire, posted, outq, tmp, hsIn, sent, delivered>>

\* The success branch of ReadValidation's handler, at a client.
OnChallengeRead(e) ==
    /\ e = "client"
    /\ ReadDone(e, "word")
    /\ hsOut' = [hsOut EXCEPT ![e] = Scramble(hsIn[e])]
    /\ writes' = [writes EXCEPT ![e] = Append(@, Write(WordChunk(hsOut'[e])))]
    /\ reads' = [reads EXCEPT ![e] = Tail(@)]
    /\ UNCHANGED <<sock, net, wire, posted, outq, tmp, hsIn, sent, delivered>>

\* Defect: any answer is good enough.
AcceptAnyAnswer(e) ==
    /\ e = "server"
    /\ ReadDone(e, "word")
    /\ reads' = [reads EXCEPT ![e] = Append(Tail(@), Read("header"))]
    /\ UNCHANGED <<sock, net, wire, posted, writes, outq, tmp, handshake, sent,
                   delivered>>

\* The success branch of ReadValidation's handler, at a server: go on to read
\* messages, or hang up.
OnAnswerRead(e) ==
    /\ e = "server"
    /\ ReadDone(e, "word")
    /\ \/ /\ hsIn[e] = m_nHandshakeCheck
          /\ reads' = [reads EXCEPT ![e] = Append(Tail(@), Read("header"))]
          /\ UNCHANGED <<sock, wire>>
       \/ /\ hsIn[e] # m_nHandshakeCheck
          /\ Close(e)
          /\ reads' = [reads EXCEPT ![e] = Tail(@)]
    /\ UNCHANGED <<net, posted, writes, outq, tmp, handshake, sent, delivered>>

\* Defect: the next read is not issued.
DeliverOnly(e) ==
    /\ delivered' = [delivered EXCEPT ![e] = Append(@, tmp[e])]
    /\ reads' = [reads EXCEPT ![e] = Tail(@)]

\* Defect: push_front for push_back.
DeliverFirst(e) ==
    /\ delivered' = [delivered EXCEPT ![e] = <<tmp[e]>> \o @]
    /\ reads' = [reads EXCEPT ![e] = Append(Tail(@), Read("header"))]

\* AddToIncomingMessageQueue: deliver a copy of the temporary message, which
\* keeps what it holds, and read the next header.
AddToIncomingMessageQueue(e) ==
    /\ delivered' = [delivered EXCEPT ![e] = Append(@, tmp[e])]
    /\ reads' = [reads EXCEPT ![e] = Append(Tail(@), Read("header"))]

\* Defect: > 1 for > 0.
HeaderReadOffByOne(e) ==
    /\ ReadDone(e, "header")
    /\ IF tmp[e].size > 1
       THEN /\ reads' = [reads EXCEPT ![e] = Append(Tail(@), Read("body"))]
            /\ UNCHANGED delivered
       ELSE AddToIncomingMessageQueue(e)
    /\ UNCHANGED <<sock, net, wire, posted, writes, outq, tmp, handshake, sent>>

\* The success branch of ReadHeader's handler.  ReadBody reads as many bytes as
\* the body has been resized to, so the old body is overwritten.
OnHeaderRead(e) ==
    /\ ReadDone(e, "header")
    /\ IF tmp[e].size > 0
       THEN /\ reads' = [reads EXCEPT ![e] = Append(Tail(@), Read("body"))]
            /\ UNCHANGED delivered
       ELSE AddToIncomingMessageQueue(e)
    /\ UNCHANGED <<sock, net, wire, posted, writes, outq, tmp, handshake, sent>>

\* The success branch of ReadBody's handler.
OnBodyRead(e) ==
    /\ ReadDone(e, "body")
    /\ AddToIncomingMessageQueue(e)
    /\ UNCHANGED <<sock, net, wire, posted, writes, outq, tmp, handshake, sent>>

\* Defect: the error is not acted upon.
ReadFailedSilently(e) ==
    /\ reads[e] # <<>>
    /\ ~Head(reads[e]).done
    /\ Broken(e)
    /\ reads' = [reads EXCEPT ![e] = Tail(@)]
    /\ UNCHANGED <<sock, net, wire, posted, writes, outq, tmp, handshake, sent,
                   delivered>>

\* The oldest read failed: all three handlers close the socket.
OnReadFailed(e) ==
    /\ reads[e] # <<>>
    /\ ~Head(reads[e]).done
    /\ Broken(e)
    /\ Close(e)
    /\ reads' = [reads EXCEPT ![e] = Tail(@)]
    /\ UNCHANGED <<net, posted, writes, outq, tmp, handshake, sent, delivered>>

-----------------------------------------------------------------------------
User(e) ==
    \/ \E m \in Sendable(e) : Send(e, m)
    \/ Disconnect(e)

\* What the thread in io_context::run does for the connection.
Context(e) ==
    \/ RunSend(e)
    \/ RunClose(e)
    \/ OnValidationWritten(e)
    \/ OnHeaderWritten(e)
    \/ OnBodyWritten(e)
    \/ OnWriteFailed(e)
    \/ OnChallengeRead(e)
    \/ OnAnswerRead(e)
    \/ OnHeaderRead(e)
    \/ OnBodyRead(e)
    \/ OnReadFailed(e)

Next ==
    \/ ConnectToServer
    \/ TcpEstablish
    \/ ConnectFailed
    \/ OnConnected
    \/ AcceptClient
    \/ LoseLink
    \/ \E e \in Ends : User(e) \/ Transmit(e) \/ Fill(e) \/ Context(e)

Spec == Init /\ [][Next]_vars

\* Both io_contexts run and the network carries bytes.  Users need not do
\* anything, and nothing has to go wrong.
Fairness ==
    /\ WF_vars(TcpEstablish)
    /\ WF_vars(OnConnected)
    /\ WF_vars(AcceptClient)
    /\ \A e \in Ends : WF_vars(Transmit(e)) /\ WF_vars(Fill(e)) /\ WF_vars(Context(e))

FairSpec == Spec /\ Fairness

-----------------------------------------------------------------------------
(* Properties.                                                             *)

Posts == [op : {"send"}, msg : Message] \cup [op : {"close"}]

TypeOK ==
    /\ sock \in [Ends -> {"none", "open", "closed"}]
    /\ connecting \in {"idle", "wait", "done", "failed", "handled"}
    /\ link \in {"none", "up", "lost"}
    /\ hungUp \subseteq Ends
    /\ wire \in [Ends -> Seq(Chunks)]
    /\ posted \in [Ends -> Seq(Posts)]
    /\ writes \in [Ends -> Seq([chunk : Chunks, done : BOOLEAN])]
    /\ reads \in [Ends -> Seq([kind : {"word", "header", "body"}, done : BOOLEAN])]
    /\ outq \in [Ends -> Seq(Message)]
    /\ tmp \in [Ends -> Message]
    /\ hsIn \in [Ends -> Words]
    /\ hsOut \in [Ends -> Words]
    /\ sent \in [Ends -> Seq(Message)]
    /\ delivered \in [Ends -> Seq(Message)]

\* The outstanding writes that belong to a message.
MessageWrites(e) == {i \in DOMAIN writes[e] : writes[e][i].chunk.kind # "word"}

\* No two parts of messages are being written at the same time, so that the
\* bytes of messages cannot mix on the wire.
OneMessageWrite == \A e \in Ends : \A i, j \in MessageWrites(e) : i = j

\* The bytes being written belong to the front of the queue, which stays there
\* until they are written: WriteHeader and WriteBody pass asio a reference.
WritesFront ==
    \A e \in Ends : \A i \in MessageWrites(e) :
        /\ outq[e] # <<>>
        /\ writes[e][i].chunk \in {HeaderChunk(Head(outq[e])), BodyChunk(Head(outq[e]))}

\* "If the queue has a message in it, then we must assume that it is in the
\* process of asynchronously being written" (net_connection.h:120): while the
\* socket is open, so it is.
QueueIsBeingWritten ==
    \A e \in Ends : IsConnected(e) /\ outq[e] # <<>> => MessageWrites(e) # {}

\* At most one read is outstanding, so that m_msgTemporaryIn has one user.
OneRead == \A e \in Ends : Len(reads[e]) <= 1

\* Before the client has answered the challenge correctly, the server reads no
\* message from it and delivers none.
OnlyValidatedHeard ==
    \/ hsIn["server"] = m_nHandshakeCheck
    \/ /\ delivered["server"] = <<>>
       /\ \A i \in DOMAIN reads["server"] : reads["server"][i].kind = "word"

\* Whatever a read of a header or of a body takes from the wire is one, and of
\* the right size; what the client takes for the challenge is the challenge.
InStep ==
    \A e \in Ends :
        wire[e] # <<>> /\ reads[e] # <<>> =>
            LET chunk == Head(wire[e])
                read == Head(reads[e])
            IN  \/ read.done
                \/ read.kind = "word" /\ e = "server"
                \/ read.kind = "body" /\ chunk = BodyChunk([body |-> chunk.data])
                    /\ Len(chunk.data) = tmp[e].size
                \/ read.kind = chunk.kind /\ read.kind # "body"

\* A client whose user waits for a message before it sends is never turned
\* away: whatever the server reads as the answer is the answer.
WaitingClientAccepted == hsIn["server"] \in {"zero", m_nHandshakeCheck}

\* What is delivered at one end was sent at the other, in the same order, with
\* nothing left out, doubled or altered.  Of a body, the first header.size
\* bytes count: see BodylessIsBodyless for the rest.
Payload(m) == [id |-> m.id, data |-> SubSeq(m.body, 1, m.size)]

Received(e) == [i \in DOMAIN delivered[e] |-> Payload(delivered[e][i])]

Pending(e) ==
    [i \in 1..(Len(sent[Peer(e)]) - Len(delivered[e])) |->
        Payload(sent[Peer(e)][Len(delivered[e]) + i])]

ToServer == INSTANCE FifoDelivery WITH
    Items <- {Payload(m) : m \in ClientMessages},
    pending <- Pending("server"), received <- Received("server")

ToClient == INSTANCE FifoDelivery WITH
    Items <- {Payload(m) : m \in ClientMessages \cup ServerMessages \cup {AcceptMessage}},
    pending <- Pending("client"), received <- Received("client")

DeliveredInOrder == ToServer!Spec /\ ToClient!Spec

\* A message without a body is delivered as such: "it doesn't, so add this
\* bodyless message to the connections incoming message queue"
\* (net_connection.h:159).
BodylessIsBodyless ==
    \A e \in Ends : \A i \in DOMAIN delivered[e] :
        delivered[e][i].size = 0 => delivered[e][i].body = <<>>

\* A client that connects is "notified through a message, where says that the
\* server accepted the connection" (README.md:17), unless one of the users has
\* hung up.
Notified ==
    \E i \in DOMAIN delivered["client"] : delivered["client"][i].id = AcceptMessage.id

ClientNotified == connecting = "wait" ~> (Notified \/ hungUp # {})

\* The server has taken something else for the answer, and has hung up.
TurnedAway == hsIn["server"] \notin {"zero", m_nHandshakeCheck}

\* What the code does: a client is notified unless it is turned away, which
\* happens to none that waits (WaitingClientAccepted).
NotifiedOrTurnedAway ==
    connecting = "wait" ~> (Notified \/ hungUp # {} \/ TurnedAway)

\* As long as nobody hangs up, every message sent is delivered.
EverythingDelivered ==
    \A e \in Ends : \A n \in 1..MaxSends[e] :
        Len(sent[e]) >= n
            ~> (Len(delivered[Peer(e)]) >= n \/ hungUp # {} \/ TurnedAway)

\* A socket does not stay open for ever after that of its peer was closed.
CloseSpreads ==
    \A e \in Ends :
        (sock[e] = "open" /\ sock[Peer(e)] = "closed") ~> sock[e] = "closed"
=============================================================================
