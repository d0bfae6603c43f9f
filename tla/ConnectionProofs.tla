-------------------------- MODULE ConnectionProofs --------------------------
(***************************************************************************)
(* Proofs about Connection, for any messages, any sizes and any numbers of *)
(* sends, with or without faults: the variables keep their types, at most  *)
(* one part of a message is being written at a time and it is the front of *)
(* the queue, at most one read is outstanding, the server hears nobody who *)
(* has not been validated, and a client that waits for a message before it *)
(* sends one is not turned away.                                           *)
(***************************************************************************)
EXTENDS Connection, SequenceTheorems, TLAPS

-----------------------------------------------------------------------------
(* Data.                                                                   *)

WriteOps == [chunk : Chunks, done : BOOLEAN]
ReadOps == [kind : {"word", "header", "body"}, done : BOOLEAN]

LEMMA ChunkTypes ==
    /\ \A w \in Words : WordChunk(w) \in Chunks /\ WordChunk(w).kind = "word"
    /\ \A m \in Message : HeaderChunk(m) \in Chunks /\ HeaderChunk(m).kind = "header"
    /\ \A m \in Message : BodyChunk(m) \in Chunks /\ BodyChunk(m).kind = "body"
  BY DEF Words, WordChunk, Message, HeaderChunk, BodyChunk, Chunks

LEMMA OpTypes ==
    /\ \A c \in Chunks : Write(c) \in WriteOps /\ Write(c).chunk = c
    /\ \A k \in {"word", "header", "body"} : Read(k) \in ReadOps /\ Read(k).kind = k
  BY DEF Write, Read, WriteOps, ReadOps

\* One element sequences.
LEMMA Singleton ==
    ASSUME NEW S, NEW x \in S
    PROVE  <<x>> \in Seq(S) /\ Len(<<x>>) = 1 /\ <<x>>[1] = x
  OBVIOUS

LEMMA ExceptType ==
    ASSUME NEW S, NEW T, NEW f \in [S -> T], NEW x \in S, NEW y \in T
    PROVE  [f EXCEPT ![x] = y] \in [S -> T]
  OBVIOUS

LEMMA WaitingProperties ==
    ASSUME NEW S, NEW ops \in Seq(S), NEW i \in Waiting(ops)
    PROVE  i \in 1..Len(ops) /\ i \in DOMAIN ops /\ ops[i] \in S /\ ~ops[i].done
<1>1. i \in DOMAIN ops /\ ~ops[i].done
  BY DEF Waiting
<1>2. DOMAIN ops = 1..Len(ops)
  BY LenProperties
<1> QED
  BY <1>1, <1>2, ElementOfSeq

LEMMA DoneTypes ==
    /\ \A op \in WriteOps : [op EXCEPT !.done = TRUE] \in WriteOps /\ op.chunk \in Chunks
    /\ \A op \in ReadOps : [op EXCEPT !.done = TRUE] \in ReadOps
  BY DEF WriteOps, ReadOps

LEMMA WriteHeaderType ==
    ASSUME NEW q \in Seq(Message)
    PROVE  WriteHeader(q) \in Seq(WriteOps)
<1>1. CASE q = <<>>
  BY <1>1, EmptySeq DEF WriteHeader
<1>2. CASE q # <<>>
  <2>1. Head(q) \in Message
    BY <1>2, HeadTailProperties
  <2>2. Write(HeaderChunk(Head(q))) \in WriteOps
    BY <2>1, ChunkTypes, OpTypes
  <2> QED
    BY <1>2, <2>2, Singleton DEF WriteHeader
<1> QED
  BY <1>1, <1>2

LEMMA WriteBodyType ==
    ASSUME NEW q \in Seq(Message), q # <<>>
    PROVE  WriteBody(q) \in Seq(WriteOps)
<1>1. Head(q) \in Message
  BY HeadTailProperties
<1>2. Write(BodyChunk(Head(q))) \in WriteOps
  BY <1>1, ChunkTypes, OpTypes
<1> QED
  BY <1>2, Singleton DEF WriteBody

LEMMA ScrambleType == \A w \in Words : Scramble(w) \in Words
  BY DEF Scramble, Words

LEMMA HeadersFromType ==
    ASSUME NEW chunk \in Chunks, NEW h \in HeadersFrom(chunk)
    PROVE  h.id \in Ids /\ h.size \in Nat
<1>1. CASE chunk.kind = "header"
  <2>1. chunk \in [kind : {"header"}, id : Ids, size : Nat]
    BY <1>1 DEF Chunks
  <2>2. chunk.id \in Ids /\ chunk.size \in Nat
    BY <2>1
  <2> QED
    BY <1>1, <2>2 DEF HeadersFrom
<1>2. CASE chunk.kind # "header"
  <2>1. h \in [id : Ids, size : GarbageSizes]
    BY <1>2 DEF HeadersFrom
  <2> QED
    BY <2>1, BoundsAssumption
<1> QED
  BY <1>1, <1>2

LEMMA BodiesFromType ==
    ASSUME NEW chunk \in Chunks, NEW size \in Nat, NEW body \in BodiesFrom(chunk, size)
    PROVE  body \in Seq(Bytes)
<1>1. CASE chunk.kind = "body" /\ Len(chunk.data) = size
  BY <1>1 DEF BodiesFrom, Chunks
<1>2. CASE ~(chunk.kind = "body" /\ Len(chunk.data) = size)
  BY <1>2, SeqDef DEF BodiesFrom
<1> QED
  BY <1>1, <1>2

-----------------------------------------------------------------------------
(* Types.                                                                  *)

LEMMA InitType == Init => TypeOK
<1> SUFFICES ASSUME Init PROVE TypeOK
  OBVIOUS
<1>1. [id |-> AcceptMessage.id, size |-> 0, body |-> <<>>] \in Message
  BY MessagesAssumption, EmptySeq DEF Message
<1> QED
  BY <1>1, EmptySeq DEF Init, TypeOK, Words, Ends

LEMMA ConnectType ==
    ASSUME TypeOK,
           ConnectToServer \/ TcpEstablish \/ ConnectFailed \/ OnConnected \/ LoseLink
    PROVE  TypeOK'
<1>1. reads' \in [Ends -> Seq(ReadOps)]
  <2>1. reads \in [Ends -> Seq(ReadOps)] /\ Read("word") \in ReadOps /\ "client" \in Ends
    BY OpTypes DEF TypeOK, ReadOps, Ends
  <2>2. Append(reads["client"], Read("word")) \in Seq(ReadOps)
    BY <2>1, AppendProperties
  <2> QED
    BY <2>1, <2>2
     DEF ConnectToServer, TcpEstablish, ConnectFailed, OnConnected,
         LoseLink
<1> QED
  BY <1>1 DEF TypeOK, ReadOps, Ends, ConnectToServer, TcpEstablish, ConnectFailed,
              OnConnected, LoseLink, net, handshake

LEMMA AcceptType ==
    ASSUME TypeOK, AcceptClient
    PROVE  TypeOK'
<1>1. "server" \in Ends
  BY DEF Ends
<1>2. [op |-> "send", msg |-> AcceptMessage] \in Posts
  BY MessagesAssumption DEF Posts
<1>3. Write(WordChunk(hsOut["server"])) \in WriteOps /\ Read("word") \in ReadOps
  BY <1>1, ChunkTypes, OpTypes DEF TypeOK
<1> QED
  BY <1>1, <1>2, <1>3, MessagesAssumption, AppendProperties
     DEF TypeOK, AcceptClient, WriteOps, ReadOps, net, handshake

LEMMA UserType ==
    ASSUME TypeOK, NEW e \in Ends, User(e)
    PROVE  TypeOK'
<1>1. ASSUME NEW m \in Sendable(e), Send(e, m) PROVE TypeOK'
  <2>1. m \in Message
    BY MessagesAssumption, ElementOfSeq DEF Sendable, TypeOK, Ends
  <2>2. [op |-> "send", msg |-> m] \in Posts
    BY <2>1 DEF Posts
  <2> QED
    BY <1>1, <2>1, <2>2, AppendProperties DEF TypeOK, Send, net, handshake
<1>2. CASE Disconnect(e)
  <2>1. [op |-> "close"] \in Posts
    BY DEF Posts
  <2> QED
    BY <1>2, <2>1, AppendProperties DEF TypeOK, Disconnect, net, handshake
<1> QED
  BY <1>1, <1>2 DEF User

LEMMA TransmitType ==
    ASSUME TypeOK, NEW e \in Ends, Transmit(e)
    PROVE  TypeOK'
<1>1. PICK i \in Waiting(writes[e]) :
        /\ writes' = [writes EXCEPT ![e][i].done = TRUE]
        /\ wire' = IF sock[Peer(e)] = "closed" THEN wire
                   ELSE [wire EXCEPT ![Peer(e)] = Append(@, writes[e][i].chunk)]
  BY DEF Transmit
<1>2. writes[e] \in Seq(WriteOps) /\ Peer(e) \in Ends
  BY DEF TypeOK, WriteOps, Ends, Peer
<1>3. /\ i \in 1..Len(writes[e])
      /\ [writes[e][i] EXCEPT !.done = TRUE] \in WriteOps
      /\ writes[e][i].chunk \in Chunks
  BY <1>1, <1>2, WaitingProperties, DoneTypes
<1>4. [writes[e] EXCEPT ![i] = [writes[e][i] EXCEPT !.done = TRUE]] \in Seq(WriteOps)
  BY <1>2, <1>3, ExceptSeq
<1>5. writes' \in [Ends -> Seq(WriteOps)]
  BY <1>1, <1>4 DEF TypeOK, WriteOps
<1>6. wire' \in [Ends -> Seq(Chunks)]
  BY <1>1, <1>2, <1>3, AppendProperties DEF TypeOK
<1> QED
  BY <1>5, <1>6 DEF TypeOK, Transmit, WriteOps, net, handshake

LEMMA FillType ==
    ASSUME TypeOK, NEW e \in Ends, Fill(e)
    PROVE  TypeOK'
<1> DEFINE chunk == Head(wire[e])
<1>1. PICK i \in Waiting(reads[e]) :
        /\ reads' = [reads EXCEPT ![e][i].done = TRUE]
        /\ \/ /\ hsIn' = [hsIn EXCEPT ![e] =
                        IF chunk.kind = "word" THEN chunk.word ELSE "other"]
              /\ UNCHANGED tmp
           \/ /\ \E h \in HeadersFrom(chunk) :
                    tmp' = [tmp EXCEPT ![e].id = h.id, ![e].size = h.size]
              /\ UNCHANGED hsIn
           \/ /\ \E body \in BodiesFrom(chunk, tmp[e].size) :
                    tmp' = [tmp EXCEPT ![e].body = body]
              /\ UNCHANGED hsIn
  BY DEF Fill
<1>2. reads[e] \in Seq(ReadOps)
  BY DEF TypeOK, ReadOps
<1>3. [reads[e] EXCEPT ![i] = [reads[e][i] EXCEPT !.done = TRUE]] \in Seq(ReadOps)
  BY <1>1, <1>2, WaitingProperties, DoneTypes, ExceptSeq
<1>4. reads' \in [Ends -> Seq(ReadOps)]
  BY <1>1, <1>3 DEF TypeOK, ReadOps
<1>5. chunk \in Chunks /\ wire' \in [Ends -> Seq(Chunks)]
  BY HeadTailProperties DEF TypeOK, Fill
<1>6. tmp[e] \in Message
  BY DEF TypeOK
<1>7. hsIn' \in [Ends -> Words] /\ tmp' \in [Ends -> Message]
  <2>1. CASE /\ hsIn' = [hsIn EXCEPT ![e] =
                    IF chunk.kind = "word" THEN chunk.word ELSE "other"]
             /\ UNCHANGED tmp
    <3>1. CASE chunk.kind = "word"
      <4>1. chunk \in [kind : {"word"}, word : Words]
        BY <1>5, <3>1 DEF Chunks
      <4>2. chunk.word \in Words
        BY <4>1
      <4> QED
        BY <2>1, <3>1, <4>2 DEF TypeOK
    <3>2. CASE chunk.kind # "word"
      BY <2>1, <3>2 DEF TypeOK, Words
    <3> QED
      BY <3>1, <3>2
  <2>2. ASSUME NEW h \in HeadersFrom(chunk),
               tmp' = [tmp EXCEPT ![e].id = h.id, ![e].size = h.size],
               UNCHANGED hsIn
        PROVE  hsIn' \in [Ends -> Words] /\ tmp' \in [Ends -> Message]
    <3>1. h.id \in Ids /\ h.size \in Nat
      BY <1>5, HeadersFromType
    <3>2. [tmp[e] EXCEPT !.id = h.id, !.size = h.size] \in Message
      BY <1>6, <3>1 DEF Message
    <3>3. tmp' = [tmp EXCEPT ![e] = [tmp[e] EXCEPT !.id = h.id, !.size = h.size]]
      BY <2>2 DEF TypeOK
    <3> QED
      BY <2>2, <3>2, <3>3 DEF TypeOK
  <2>3. ASSUME NEW body \in BodiesFrom(chunk, tmp[e].size),
               tmp' = [tmp EXCEPT ![e].body = body],
               UNCHANGED hsIn
        PROVE  hsIn' \in [Ends -> Words] /\ tmp' \in [Ends -> Message]
    <3>1. body \in Seq(Bytes)
      BY <1>5, <1>6, BodiesFromType DEF Message
    <3> QED
      BY <1>6, <2>3, <3>1 DEF TypeOK, Message
  <2> QED
    BY <1>1, <2>1, <2>2, <2>3
<1> QED
  BY <1>4, <1>5, <1>7 DEF TypeOK, Fill, ReadOps, net, handshake

\* What the handlers do to their sequences.
LEMMA TailType ==
    ASSUME NEW S, NEW s \in Seq(S), s # <<>>
    PROVE  Tail(s) \in Seq(S) /\ Head(s) \in S
  BY HeadTailProperties

LEMMA CloseType ==
    ASSUME TypeOK, NEW e \in Ends, Close(e)
    PROVE  sock' \in [Ends -> {"none", "open", "closed"}] /\ wire' \in [Ends -> Seq(Chunks)]
  BY EmptySeq DEF Close, TypeOK

LEMMA RunSendType ==
    ASSUME TypeOK, NEW e \in Ends, RunSend(e)
    PROVE  TypeOK'
<1>1. /\ posted[e] \in Seq(Posts)
      /\ posted[e] # <<>>
      /\ Head(posted[e]).op = "send"
      /\ outq[e] \in Seq(Message)
      /\ writes[e] \in Seq(WriteOps)
  BY DEF TypeOK, RunSend, WriteOps
<1>2. Tail(posted[e]) \in Seq(Posts) /\ Head(posted[e]) \in Posts
  BY <1>1, TailType
<1>3. Head(posted[e]).msg \in Message
  BY <1>1, <1>2 DEF Posts
<1>4. Append(outq[e], Head(posted[e]).msg) \in Seq(Message)
  BY <1>1, <1>3, AppendProperties
<1>5. outq'[e] \in Seq(Message)
  BY <1>4 DEF RunSend, TypeOK
<1>6. writes[e] \o WriteHeader(outq'[e]) \in Seq(WriteOps)
  BY <1>1, <1>5, WriteHeaderType, ConcatProperties
<1> QED
  BY <1>2, <1>4, <1>6 DEF RunSend, TypeOK, WriteOps, net, handshake

LEMMA RunCloseType ==
    ASSUME TypeOK, NEW e \in Ends, RunClose(e)
    PROVE  TypeOK'
<1>1. Tail(posted[e]) \in Seq(Posts)
  BY TailType DEF TypeOK, RunClose
<1> QED
  BY <1>1, CloseType DEF RunClose, TypeOK, net, handshake

LEMMA ValidationWrittenType ==
    ASSUME TypeOK, NEW e \in Ends, OnValidationWritten(e)
    PROVE  TypeOK'
<1>1. Tail(writes[e]) \in Seq(WriteOps)
  BY TailType DEF TypeOK, OnValidationWritten, Written, WriteOps
<1>2. reads[e] \in Seq(ReadOps) /\ Read("header") \in ReadOps
  BY OpTypes DEF TypeOK, ReadOps
<1>3. Append(reads[e], Read("header")) \in Seq(ReadOps)
  BY <1>2, AppendProperties
<1> QED
  BY <1>1, <1>3 DEF OnValidationWritten, TypeOK, WriteOps, ReadOps, net, handshake

\* The handlers of message writes: the queue keeps or loses its front, and the
\* writes lose theirs and gain well-typed ones.
LEMMA MessageWrittenType ==
    ASSUME TypeOK, NEW e \in Ends, outq[e] # <<>>,
           OnHeaderWritten(e) \/ OnBodyWritten(e)
    PROVE  TypeOK'
<1>1. /\ writes[e] \in Seq(WriteOps)
      /\ writes[e] # <<>>
      /\ outq[e] \in Seq(Message)
  BY DEF TypeOK, WriteOps, OnHeaderWritten, OnBodyWritten, Written
<1>2. Tail(writes[e]) \in Seq(WriteOps) /\ Tail(outq[e]) \in Seq(Message)
  BY <1>1, TailType
<1>3. /\ Tail(writes[e]) \o WriteHeader(Tail(outq[e])) \in Seq(WriteOps)
      /\ Tail(writes[e]) \o WriteBody(outq[e]) \in Seq(WriteOps)
  BY <1>1, <1>2, WriteHeaderType, WriteBodyType, ConcatProperties
<1>4. \/ /\ outq' = outq
         /\ writes' = [writes EXCEPT ![e] = Tail(@) \o WriteBody(outq[e])]
      \/ /\ outq' = [outq EXCEPT ![e] = Tail(@)]
         /\ writes' = [writes EXCEPT ![e] = Tail(@) \o WriteHeader(Tail(outq[e]))]
  BY DEF TypeOK, OnHeaderWritten, OnBodyWritten
<1>5. UNCHANGED <<sock, connecting, link, hungUp, wire, posted, reads, tmp, hsIn,
                  hsOut, sent, delivered>>
  BY DEF OnHeaderWritten, OnBodyWritten, net, handshake
<1>6. outq' \in [Ends -> Seq(Message)] /\ writes' \in [Ends -> Seq(WriteOps)]
  <2>1. outq \in [Ends -> Seq(Message)] /\ writes \in [Ends -> Seq(WriteOps)]
    BY DEF TypeOK, WriteOps
  <2> QED
    <3>1. PICK ws \in Seq(WriteOps) : writes' = [writes EXCEPT ![e] = ws]
      BY <1>3, <1>4
    <3>2. writes' \in [Ends -> Seq(WriteOps)]
      BY <2>1, <3>1, ExceptType
    <3>3. outq' \in [Ends -> Seq(Message)]
      BY <1>2, <1>4, <2>1, ExceptType
    <3> QED
      BY <3>2, <3>3
<1> QED
  BY <1>5, <1>6 DEF TypeOK, WriteOps

LEMMA FailedType ==
    ASSUME TypeOK, NEW e \in Ends, OnWriteFailed(e) \/ OnReadFailed(e)
    PROVE  TypeOK'
<1>1. CASE OnWriteFailed(e)
  <2>1. Tail(writes[e]) \in Seq(WriteOps)
    BY <1>1, TailType DEF TypeOK, OnWriteFailed, WriteOps
  <2>2. writes' \in [Ends -> Seq(WriteOps)]
    BY <1>1, <2>1 DEF OnWriteFailed, TypeOK, WriteOps
  <2> QED
    BY <1>1, <2>2, CloseType DEF OnWriteFailed, TypeOK, WriteOps, net, handshake
<1>2. CASE OnReadFailed(e)
  <2>1. Tail(reads[e]) \in Seq(ReadOps)
    BY <1>2, TailType DEF TypeOK, OnReadFailed, ReadOps
  <2>2. reads' \in [Ends -> Seq(ReadOps)]
    BY <1>2, <2>1 DEF OnReadFailed, TypeOK, ReadOps
  <2> QED
    BY <1>2, <2>2, CloseType DEF OnReadFailed, TypeOK, ReadOps, net, handshake
<1> QED
  BY <1>1, <1>2

LEMMA ValidationReadType ==
    ASSUME TypeOK, NEW e \in Ends, OnChallengeRead(e) \/ OnAnswerRead(e)
    PROVE  TypeOK'
<1>1. reads[e] \in Seq(ReadOps) /\ reads[e] # <<>> /\ writes[e] \in Seq(WriteOps)
  BY DEF TypeOK, ReadOps, WriteOps, OnChallengeRead, OnAnswerRead, ReadDone
<1>2. Tail(reads[e]) \in Seq(ReadOps)
  BY <1>1, TailType
<1>3. CASE OnChallengeRead(e)
  <2>1. hsOut' = [hsOut EXCEPT ![e] = Scramble(hsIn[e])] /\ Scramble(hsIn[e]) \in Words
    BY <1>3, ScrambleType DEF OnChallengeRead, TypeOK
  <2>2. hsOut' \in [Ends -> Words] /\ hsOut'[e] \in Words
    BY <2>1 DEF TypeOK
  <2>3. Write(WordChunk(hsOut'[e])) \in WriteOps
    BY <2>2, ChunkTypes, OpTypes
  <2>4. Append(writes[e], Write(WordChunk(hsOut'[e]))) \in Seq(WriteOps)
    BY <1>1, <2>3, AppendProperties
  <2> QED
    BY <1>2, <1>3, <2>2, <2>4 DEF OnChallengeRead, TypeOK, WriteOps, ReadOps, net
<1>4. CASE OnAnswerRead(e)
  <2>1. Append(Tail(reads[e]), Read("header")) \in Seq(ReadOps)
    BY <1>2, OpTypes, AppendProperties
  <2>2. reads' \in [Ends -> Seq(ReadOps)]
    BY <1>2, <1>4, <2>1 DEF OnAnswerRead, TypeOK, ReadOps
  <2>3. sock' \in [Ends -> {"none", "open", "closed"}] /\ wire' \in [Ends -> Seq(Chunks)]
    BY <1>4, CloseType DEF OnAnswerRead, TypeOK
  <2> QED
    BY <1>4, <2>2, <2>3 DEF OnAnswerRead, TypeOK, ReadOps, net, handshake
<1> QED
  BY <1>3, <1>4

LEMMA MessageReadType ==
    ASSUME TypeOK, NEW e \in Ends, OnHeaderRead(e) \/ OnBodyRead(e)
    PROVE  TypeOK'
<1>1. reads[e] \in Seq(ReadOps) /\ reads[e] # <<>>
  BY DEF TypeOK, ReadOps, OnHeaderRead, OnBodyRead, ReadDone
<1>2. /\ Append(Tail(reads[e]), Read("header")) \in Seq(ReadOps)
      /\ Append(Tail(reads[e]), Read("body")) \in Seq(ReadOps)
  BY <1>1, TailType, OpTypes, AppendProperties
<1>3. Append(delivered[e], tmp[e]) \in Seq(Message)
  BY AppendProperties DEF TypeOK
<1>4. reads' \in [Ends -> Seq(ReadOps)] /\ delivered' \in [Ends -> Seq(Message)]
  <2>1. \E k \in {"header", "body"} : reads' = [reads EXCEPT ![e] = Append(Tail(reads[e]), Read(k))]
    BY DEF OnHeaderRead, OnBodyRead, AddToIncomingMessageQueue
  <2>2. delivered' \in {delivered, [delivered EXCEPT ![e] = Append(delivered[e], tmp[e])]}
    BY DEF OnHeaderRead, OnBodyRead, AddToIncomingMessageQueue
  <2> QED
    <3>1. reads \in [Ends -> Seq(ReadOps)] /\ delivered \in [Ends -> Seq(Message)]
      BY DEF TypeOK, ReadOps
    <3>2. \A k \in {"header", "body"} : Append(Tail(reads[e]), Read(k)) \in Seq(ReadOps)
      BY <1>2
    <3>3. delivered' \in [Ends -> Seq(Message)]
      BY <1>3, <2>2, <3>1, ExceptType
    <3>4. PICK rs \in Seq(ReadOps) : reads' = [reads EXCEPT ![e] = rs]
      BY <2>1, <3>2
    <3>5. reads' \in [Ends -> Seq(ReadOps)]
      BY <3>1, <3>4, ExceptType
    <3> QED
      BY <3>3, <3>5
<1>5. UNCHANGED <<sock, net, wire, posted, writes, outq, tmp, handshake, sent>>
  BY DEF OnHeaderRead, OnBodyRead
<1> QED
  BY <1>4, <1>5 DEF TypeOK, ReadOps, net, handshake

LEMMA ContextType ==
    ASSUME TypeOK, NEW e \in Ends, Context(e),
           OnHeaderWritten(e) \/ OnBodyWritten(e) => outq[e] # <<>>
    PROVE  TypeOK'
  BY RunSendType, RunCloseType, ValidationWrittenType, MessageWrittenType,
     FailedType, ValidationReadType, MessageReadType
     DEF Context

\* A handler of a message write never finds an empty queue.
HandlersFindFront ==
    \A e \in Ends : OnHeaderWritten(e) \/ OnBodyWritten(e) => outq[e] # <<>>

LEMMA StepType ==
    ASSUME TypeOK, HandlersFindFront, [Next]_vars
    PROVE  TypeOK'
<1>1. CASE ConnectToServer \/ TcpEstablish \/ ConnectFailed \/ OnConnected \/ LoseLink
  BY <1>1, ConnectType
<1>2. CASE AcceptClient
  BY <1>2, AcceptType
<1>3. ASSUME NEW e \in Ends, User(e) \/ Transmit(e) \/ Fill(e) \/ Context(e)
      PROVE  TypeOK'
  BY <1>3, UserType, TransmitType, FillType, ContextType DEF HandlersFindFront
<1>4. CASE UNCHANGED vars
  BY <1>4 DEF vars, TypeOK
<1> QED
  BY <1>1, <1>2, <1>3, <1>4 DEF Next
-----------------------------------------------------------------------------
(* Writing: the queue of messages and the outstanding writes.              *)

\* The writes of ws whose chunks are of one of the kinds.
WritesOf(ws, kinds) == {i \in DOMAIN ws : ws[i].chunk.kind \in kinds}

MessageKinds == {"header", "body"}

MessageWritesOf(ws) == WritesOf(ws, MessageKinds)

\* At most one of the writes ws belongs to a message, the front of the queue q.
FrontOnly(ws, q) ==
    /\ \A i, j \in MessageWritesOf(ws) : i = j
    /\ \A i \in MessageWritesOf(ws) :
        /\ q # <<>>
        /\ ws[i].chunk \in {HeaderChunk(Head(q)), BodyChunk(Head(q))}

Writing ==
    \A e \in Ends :
        /\ FrontOnly(writes[e], outq[e])
        /\ outq[e] # <<>> => sock[e] = "closed" \/ MessageWritesOf(writes[e]) # {}

\* vs is ws with op appended, without mention of Append.
Extends(vs, ws, op) ==
    /\ vs \in Seq(WriteOps)
    /\ Len(vs) = Len(ws) + 1
    /\ \A i \in 1..Len(ws) : vs[i] = ws[i]
    /\ vs[Len(ws) + 1] = op

LEMMA AppendExtends ==
    ASSUME NEW ws \in Seq(WriteOps), NEW op \in WriteOps
    PROVE  Extends(Append(ws, op), ws, op)
  BY AppendProperties DEF Extends

LEMMA WritesExtends ==
    ASSUME NEW ws \in Seq(WriteOps), NEW op \in WriteOps, NEW kinds,
           NEW vs, Extends(vs, ws, op)
    PROVE  /\ op.chunk.kind \in kinds =>
                WritesOf(vs, kinds) = WritesOf(ws, kinds) \cup {Len(ws) + 1}
           /\ op.chunk.kind \notin kinds => WritesOf(vs, kinds) = WritesOf(ws, kinds)
<1>1. DOMAIN ws = 1..Len(ws) /\ DOMAIN vs = 1..(Len(ws) + 1) /\ Len(ws) \in Nat
  BY LenProperties DEF Extends
<1> QED
  BY <1>1 DEF WritesOf, Extends

LEMMA WritesTail ==
    ASSUME NEW ws \in Seq(WriteOps), ws # <<>>, NEW kinds
    PROVE  /\ \A i \in WritesOf(Tail(ws), kinds) :
                i + 1 \in WritesOf(ws, kinds) /\ i + 1 # 1 /\ Tail(ws)[i] = ws[i + 1]
           /\ \A i \in WritesOf(ws, kinds) : i # 1 => i - 1 \in WritesOf(Tail(ws), kinds)
           /\ 1 \in WritesOf(ws, kinds) <=> Head(ws).chunk.kind \in kinds
           /\ WritesOf(ws, kinds) \subseteq Int /\ WritesOf(Tail(ws), kinds) \subseteq Int
<1> DEFINE vs == Tail(ws)
<1>1. /\ vs \in Seq(WriteOps)
      /\ Len(vs) = Len(ws) - 1
      /\ \A i \in 1..Len(vs) : vs[i] = ws[i + 1]
  BY HeadTailProperties
<1>2. /\ DOMAIN ws = 1..Len(ws)
      /\ DOMAIN vs = 1..(Len(ws) - 1)
      /\ Len(ws) \in Nat \ {0}
      /\ Head(ws) = ws[1]
  BY <1>1, LenProperties, EmptySeq
<1> HIDE DEF vs
<1>3. /\ \A i \in WritesOf(vs, kinds) :
                i + 1 \in WritesOf(ws, kinds) /\ i + 1 # 1 /\ vs[i] = ws[i + 1]
      /\ \A i \in WritesOf(ws, kinds) : i # 1 => i - 1 \in WritesOf(vs, kinds)
      /\ 1 \in WritesOf(ws, kinds) <=> Head(ws).chunk.kind \in kinds
      /\ WritesOf(ws, kinds) \subseteq Int /\ WritesOf(vs, kinds) \subseteq Int
  BY <1>1, <1>2 DEF WritesOf
<1> QED
  BY <1>3 DEF vs

\* A write that completes keeps its chunk.
LEMMA WritesDone ==
    ASSUME NEW ws \in Seq(WriteOps), NEW i \in Waiting(ws), NEW kinds
    PROVE  LET vs == [ws EXCEPT ![i] = [ws[i] EXCEPT !.done = TRUE]]
           IN  /\ WritesOf(vs, kinds) = WritesOf(ws, kinds)
               /\ \A j \in WritesOf(ws, kinds) : vs[j].chunk = ws[j].chunk
<1> DEFINE vs == [ws EXCEPT ![i] = [ws[i] EXCEPT !.done = TRUE]]
<1>1. i \in DOMAIN ws /\ ws[i] \in WriteOps
  BY WaitingProperties
<1>2. [ws[i] EXCEPT !.done = TRUE].chunk = ws[i].chunk
  BY <1>1 DEF WriteOps
<1>3. DOMAIN vs = DOMAIN ws /\ \A j \in DOMAIN ws : vs[j].chunk = ws[j].chunk
  BY <1>1, <1>2
<1> HIDE DEF vs
<1>4. WritesOf(vs, kinds) = WritesOf(ws, kinds)
  BY <1>3 DEF WritesOf
<1>5. \A j \in WritesOf(ws, kinds) : vs[j].chunk = ws[j].chunk
  BY <1>3 DEF WritesOf
<1> QED
  BY <1>4, <1>5 DEF vs

LEMMA AppendWord ==
    ASSUME NEW ws \in Seq(WriteOps), NEW q, FrontOnly(ws, q),
           NEW op \in WriteOps, op.chunk.kind = "word"
    PROVE  /\ FrontOnly(Append(ws, op), q)
           /\ MessageWritesOf(Append(ws, op)) = MessageWritesOf(ws)
<1> DEFINE vs == Append(ws, op)
<1>1. Extends(vs, ws, op) /\ op.chunk.kind \notin MessageKinds
  BY AppendExtends DEF MessageKinds
<1> HIDE DEF vs
<1>2. WritesOf(vs, MessageKinds) = WritesOf(ws, MessageKinds)
  BY <1>1, WritesExtends
<1>3. \A i \in WritesOf(ws, MessageKinds) : vs[i] = ws[i]
  BY <1>1, LenProperties DEF WritesOf, Extends
<1>4. FrontOnly(vs, q) /\ MessageWritesOf(vs) = MessageWritesOf(ws)
  BY <1>2, <1>3 DEF FrontOnly, MessageWritesOf
<1> QED
  BY <1>4 DEF vs

LEMMA CompleteWrite ==
    ASSUME NEW ws \in Seq(WriteOps), NEW q, FrontOnly(ws, q), NEW i \in Waiting(ws)
    PROVE  LET vs == [ws EXCEPT ![i] = [ws[i] EXCEPT !.done = TRUE]]
           IN  FrontOnly(vs, q) /\ MessageWritesOf(vs) = MessageWritesOf(ws)
<1> DEFINE vs == [ws EXCEPT ![i] = [ws[i] EXCEPT !.done = TRUE]]
<1>1. /\ WritesOf(vs, MessageKinds) = WritesOf(ws, MessageKinds)
      /\ \A j \in WritesOf(ws, MessageKinds) : vs[j].chunk = ws[j].chunk
  BY WritesDone
<1> HIDE DEF vs
<1>2. FrontOnly(vs, q) /\ MessageWritesOf(vs) = MessageWritesOf(ws)
  BY <1>1 DEF MessageWritesOf, FrontOnly
<1> QED
  BY <1>2 DEF vs

LEMMA HeadKind ==
    ASSUME NEW ws \in Seq(WriteOps), ws # <<>>
    PROVE  Head(ws).chunk.kind = "word" <=> Head(ws).chunk.kind \notin MessageKinds
<1>1. Head(ws) \in WriteOps
  BY HeadTailProperties
<1>2. Head(ws).chunk \in Chunks
  BY <1>1 DEF WriteOps
<1>3. Head(ws).chunk.kind \in {"word", "header", "body"}
  BY <1>2 DEF Chunks
<1> QED
  BY <1>3 DEF MessageKinds

LEMMA DropFirst ==
    ASSUME NEW ws \in Seq(WriteOps), ws # <<>>, NEW q, FrontOnly(ws, q)
    PROVE  /\ FrontOnly(Tail(ws), q)
           /\ Head(ws).chunk.kind = "word" /\ MessageWritesOf(ws) # {} =>
                    MessageWritesOf(Tail(ws)) # {}
           /\ Head(ws).chunk.kind # "word" =>
                    MessageWritesOf(Tail(ws)) = {} /\ q # <<>>
<1>1. \A i, j \in MessageWritesOf(Tail(ws)) : i = j
  BY WritesTail DEF MessageWritesOf, FrontOnly
<1>2. FrontOnly(Tail(ws), q)
  <2>1. ASSUME NEW i \in MessageWritesOf(Tail(ws))
        PROVE  /\ q # <<>>
               /\ Tail(ws)[i].chunk \in {HeaderChunk(Head(q)), BodyChunk(Head(q))}
    <3>1. i + 1 \in MessageWritesOf(ws) /\ Tail(ws)[i] = ws[i + 1]
      BY WritesTail DEF MessageWritesOf
    <3> QED
      BY <3>1 DEF FrontOnly
  <2> QED
    BY <1>1, <2>1 DEF FrontOnly
<1>3. ASSUME Head(ws).chunk.kind = "word", MessageWritesOf(ws) # {}
      PROVE  MessageWritesOf(Tail(ws)) # {}
  <2>1. PICK i \in MessageWritesOf(ws) : TRUE
    BY <1>3
  <2>2. i # 1
    BY <1>3, HeadKind, WritesTail DEF MessageWritesOf
  <2>3. i - 1 \in MessageWritesOf(Tail(ws))
    BY <2>2, WritesTail DEF MessageWritesOf
  <2> QED
    BY <2>3
<1>4. Head(ws).chunk.kind # "word" => MessageWritesOf(Tail(ws)) = {} /\ q # <<>>
  BY HeadKind, WritesTail DEF MessageWritesOf, FrontOnly
<1> QED
  BY <1>2, <1>3, <1>4

LEMMA AppendFront ==
    ASSUME NEW ws \in Seq(WriteOps), MessageWritesOf(ws) = {},
           NEW q \in Seq(Message), q # <<>>,
           NEW chunk \in {HeaderChunk(Head(q)), BodyChunk(Head(q))}
    PROVE  /\ FrontOnly(ws \o <<Write(chunk)>>, q)
           /\ MessageWritesOf(ws \o <<Write(chunk)>>) # {}
<1>1. chunk \in Chunks /\ chunk.kind \in MessageKinds
  BY HeadTailProperties, ChunkTypes DEF MessageKinds
<1>2. Write(chunk) \in WriteOps /\ Write(chunk).chunk = chunk
  BY <1>1, OpTypes
<1> DEFINE vs == ws \o <<Write(chunk)>>
<1>3. Extends(vs, ws, Write(chunk))
  BY <1>2, AppendIsConcat, AppendExtends
<1> HIDE DEF vs
<1>4. MessageWritesOf(vs) = {Len(ws) + 1} /\ vs[Len(ws) + 1] = Write(chunk)
  BY <1>1, <1>2, <1>3, WritesExtends DEF MessageWritesOf, Extends
<1>5. FrontOnly(vs, q)
  BY <1>2, <1>4 DEF FrontOnly
<1> QED
  BY <1>4, <1>5 DEF vs

\* Starting on the next message, if there is one.
LEMMA StartNext ==
    ASSUME NEW ws \in Seq(WriteOps), MessageWritesOf(ws) = {}, NEW q \in Seq(Message)
    PROVE  /\ FrontOnly(ws \o WriteHeader(q), q)
           /\ q # <<>> => MessageWritesOf(ws \o WriteHeader(q)) # {}
<1>1. CASE q = <<>>
  <2>1. ws \o WriteHeader(q) = ws
    BY <1>1, ConcatEmptySeq DEF WriteHeader
  <2> QED
    BY <1>1, <2>1 DEF FrontOnly
<1>2. CASE q # <<>>
  BY <1>2, AppendFront DEF WriteHeader
<1> QED
  BY <1>1, <1>2

\* A step at e leaves the other end alone.
LEMMA WritingAtEnd ==
    ASSUME TypeOK, Writing, NEW e \in Ends, NEW ws, NEW q, NEW s,
           writes' = [writes EXCEPT ![e] = ws],
           outq' = [outq EXCEPT ![e] = q],
           sock' = [sock EXCEPT ![e] = s],
           FrontOnly(ws, q),
           q # <<>> => s = "closed" \/ MessageWritesOf(ws) # {}
    PROVE  Writing'
<1>1. /\ writes'[e] = ws
      /\ outq'[e] = q
      /\ sock'[e] = s
  BY DEF TypeOK
<1>2. \A f \in Ends \ {e} : writes'[f] = writes[f] /\ outq'[f] = outq[f] /\ sock'[f] = sock[f]
  BY DEF TypeOK
<1> QED
  BY <1>1, <1>2 DEF Writing

\* Reading UNCHANGED as an update that changes nothing.
LEMMA SameAtEnd ==
    ASSUME TypeOK, NEW e \in Ends
    PROVE  /\ writes = [writes EXCEPT ![e] = writes[e]]
           /\ outq = [outq EXCEPT ![e] = outq[e]]
           /\ sock = [sock EXCEPT ![e] = sock[e]]
           /\ reads = [reads EXCEPT ![e] = reads[e]]
           /\ writes[e] \in Seq(WriteOps)
           /\ outq[e] \in Seq(Message)
  BY DEF TypeOK, WriteOps

LEMMA AcceptWriting ==
    ASSUME TypeOK, Writing, AcceptClient
    PROVE  Writing'
<1> DEFINE ws == writes["server"]
           op == Write(WordChunk(hsOut["server"]))
<1>1. "server" \in Ends
  BY DEF Ends
<1>2. op \in WriteOps /\ op.chunk.kind = "word"
  BY <1>1, ChunkTypes, OpTypes DEF TypeOK
<1>3. /\ ws \in Seq(WriteOps)
      /\ FrontOnly(ws, outq["server"])
      /\ outq["server"] # <<>> => MessageWritesOf(ws) # {}
  BY <1>1, SameAtEnd DEF Writing, AcceptClient
<1>4. /\ FrontOnly(Append(ws, op), outq["server"])
      /\ MessageWritesOf(Append(ws, op)) = MessageWritesOf(ws)
  BY <1>2, <1>3, AppendWord
<1>5. /\ writes' = [writes EXCEPT !["server"] = Append(ws, op)]
      /\ outq' = [outq EXCEPT !["server"] = outq["server"]]
      /\ sock' = [sock EXCEPT !["server"] = "open"]
  BY <1>1, SameAtEnd DEF AcceptClient
<1> HIDE DEF ws, op
<1> QED
  BY <1>1, <1>3, <1>4, <1>5, WritingAtEnd

LEMMA TransmitWriting ==
    ASSUME TypeOK, Writing, NEW e \in Ends, Transmit(e)
    PROVE  Writing'
<1>1. PICK i \in Waiting(writes[e]) : writes' = [writes EXCEPT ![e][i].done = TRUE]
  BY DEF Transmit
<1> DEFINE ws == [writes[e] EXCEPT ![i] = [writes[e][i] EXCEPT !.done = TRUE]]
<1>2. FrontOnly(ws, outq[e]) /\ MessageWritesOf(ws) = MessageWritesOf(writes[e])
  BY SameAtEnd, CompleteWrite DEF Writing
<1>3. /\ writes' = [writes EXCEPT ![e] = ws]
      /\ outq' = [outq EXCEPT ![e] = outq[e]]
      /\ sock' = [sock EXCEPT ![e] = sock[e]]
  BY <1>1, SameAtEnd DEF Transmit
<1> HIDE DEF ws
<1>4. outq[e] # <<>> => sock[e] = "closed" \/ MessageWritesOf(ws) # {}
  BY <1>2 DEF Writing
<1> QED
  BY <1>2, <1>3, <1>4, WritingAtEnd

LEMMA RunSendWriting ==
    ASSUME TypeOK, Writing, NEW e \in Ends, RunSend(e)
    PROVE  Writing'
<1> DEFINE m == Head(posted[e]).msg
           q == Append(outq[e], m)
           ws == IF outq[e] = <<>> THEN writes[e] \o WriteHeader(q) ELSE writes[e]
<1>1. m \in Message
  <2>1. Head(posted[e]) \in Posts /\ Head(posted[e]).op = "send"
    BY TailType DEF TypeOK, RunSend
  <2> QED
    BY <2>1 DEF Posts
<1>2. q \in Seq(Message) /\ q # <<>> /\ (outq[e] # <<>> => Head(q) = Head(outq[e]))
  BY <1>1, SameAtEnd, AppendProperties, HeadTailAppend
<1>3. /\ outq' = [outq EXCEPT ![e] = q]
      /\ writes' = [writes EXCEPT ![e] = ws]
      /\ sock' = [sock EXCEPT ![e] = sock[e]]
  BY SameAtEnd DEF RunSend, TypeOK
<1> HIDE DEF m, q
<1>4. FrontOnly(ws, q) /\ (sock[e] = "closed" \/ MessageWritesOf(ws) # {})
  <2>1. CASE outq[e] = <<>>
    <3>1. MessageWritesOf(writes[e]) = {}
      BY <2>1 DEF Writing, FrontOnly
    <3> QED
      BY <1>2, <2>1, <3>1, SameAtEnd, StartNext
  <2>2. CASE outq[e] # <<>>
    <3>1. FrontOnly(writes[e], outq[e])
      BY DEF Writing
    <3>2. FrontOnly(writes[e], q)
      BY <1>2, <2>2, <3>1 DEF FrontOnly
    <3> QED
      BY <2>2, <3>2 DEF Writing
  <2> QED
    BY <2>1, <2>2
<1> HIDE DEF ws
<1> QED
  BY <1>3, <1>4, WritingAtEnd

LEMMA WrittenWriting ==
    ASSUME TypeOK, Writing, NEW e \in Ends,
           OnValidationWritten(e) \/ OnHeaderWritten(e) \/ OnBodyWritten(e)
    PROVE  Writing'
<1> DEFINE ws == writes[e]
           q == outq[e]
<1>1. /\ ws \in Seq(WriteOps)
      /\ ws # <<>>
      /\ q \in Seq(Message)
      /\ FrontOnly(ws, q)
      /\ sock' = [sock EXCEPT ![e] = sock[e]]
      /\ q # <<>> => sock[e] = "closed" \/ MessageWritesOf(ws) # {}
  BY SameAtEnd DEF Writing, OnValidationWritten, OnHeaderWritten, OnBodyWritten, Written
<1>2. Tail(ws) \in Seq(WriteOps)
  BY <1>1, TailType
<1>3. CASE OnValidationWritten(e)
  <2>1. Head(ws).chunk.kind = "word"
    BY <1>3 DEF OnValidationWritten, Written
  <2>2. writes' = [writes EXCEPT ![e] = Tail(ws)] /\ outq' = [outq EXCEPT ![e] = q]
    BY <1>3, SameAtEnd DEF OnValidationWritten
  <2> HIDE DEF ws, q
  <2>3. FrontOnly(Tail(ws), q) /\ (MessageWritesOf(ws) # {} => MessageWritesOf(Tail(ws)) # {})
    BY <1>1, <2>1, DropFirst
  <2> QED
    BY <1>1, <2>2, <2>3, WritingAtEnd
<1>4. CASE OnHeaderWritten(e) \/ OnBodyWritten(e)
  <2>1. Head(ws).chunk.kind # "word"
    BY <1>4 DEF OnHeaderWritten, OnBodyWritten, Written
  <2>2. MessageWritesOf(Tail(ws)) = {} /\ q # <<>>
    BY <1>1, <2>1, DropFirst
  <2>3. Tail(q) \in Seq(Message)
    BY <1>1, <2>2, TailType
  <2>4. \/ /\ outq' = [outq EXCEPT ![e] = q]
           /\ writes' = [writes EXCEPT ![e] = Tail(ws) \o WriteBody(q)]
        \/ /\ outq' = [outq EXCEPT ![e] = Tail(q)]
           /\ writes' = [writes EXCEPT ![e] = Tail(ws) \o WriteHeader(Tail(q))]
    BY <1>4, SameAtEnd DEF TypeOK, OnHeaderWritten, OnBodyWritten
  <2>5. /\ FrontOnly(Tail(ws) \o WriteBody(q), q)
        /\ MessageWritesOf(Tail(ws) \o WriteBody(q)) # {}
    BY <1>1, <1>2, <2>2, AppendFront DEF WriteBody
  <2>6. /\ FrontOnly(Tail(ws) \o WriteHeader(Tail(q)), Tail(q))
        /\ Tail(q) # <<>> => MessageWritesOf(Tail(ws) \o WriteHeader(Tail(q))) # {}
    BY <1>2, <2>2, <2>3, StartNext
  <2> HIDE DEF ws, q
  <2>7. CASE /\ outq' = [outq EXCEPT ![e] = q]
             /\ writes' = [writes EXCEPT ![e] = Tail(ws) \o WriteBody(q)]
    BY <1>1, <2>5, <2>7, WritingAtEnd
  <2>8. CASE /\ outq' = [outq EXCEPT ![e] = Tail(q)]
             /\ writes' = [writes EXCEPT ![e] = Tail(ws) \o WriteHeader(Tail(q))]
    BY <1>1, <2>6, <2>8, WritingAtEnd
  <2> QED
    BY <2>4, <2>7, <2>8
<1> HIDE DEF ws, q
<1> QED
  BY <1>3, <1>4

LEMMA CloseWriting ==
    ASSUME TypeOK, Writing, NEW e \in Ends, Close(e), UNCHANGED outq,
           \/ UNCHANGED writes
           \/ writes[e] # <<>> /\ writes' = [writes EXCEPT ![e] = Tail(@)]
    PROVE  Writing'
<1>1. PICK ws \in {writes[e], Tail(writes[e])} :
        /\ writes' = [writes EXCEPT ![e] = ws]
        /\ ws # writes[e] => writes[e] # <<>>
  BY SameAtEnd
<1>2. FrontOnly(writes[e], outq[e])
  BY DEF Writing
<1>3. FrontOnly(ws, outq[e])
  <2>1. writes[e] # <<>> => FrontOnly(Tail(writes[e]), outq[e])
    BY <1>2, SameAtEnd, DropFirst
  <2> QED
    BY <1>1, <1>2, <2>1
<1>4. outq' = [outq EXCEPT ![e] = outq[e]] /\ sock' = [sock EXCEPT ![e] = "closed"]
  BY SameAtEnd DEF Close
<1> QED
  BY <1>1, <1>3, <1>4, WritingAtEnd

LEMMA ChallengeReadWriting ==
    ASSUME TypeOK, Writing, NEW e \in Ends, OnChallengeRead(e)
    PROVE  Writing'
<1> DEFINE ws == writes[e]
           op == Write(WordChunk(hsOut'[e]))
<1>1. hsOut'[e] \in Words
  BY ScrambleType DEF OnChallengeRead, TypeOK
<1>2. op \in WriteOps /\ op.chunk.kind = "word"
  BY <1>1, ChunkTypes, OpTypes
<1>3. /\ ws \in Seq(WriteOps)
      /\ FrontOnly(ws, outq[e])
      /\ outq[e] # <<>> => sock[e] = "closed" \/ MessageWritesOf(ws) # {}
  BY SameAtEnd DEF Writing
<1>4. /\ FrontOnly(Append(ws, op), outq[e])
      /\ MessageWritesOf(Append(ws, op)) = MessageWritesOf(ws)
  BY <1>2, <1>3, AppendWord
<1>5. /\ writes' = [writes EXCEPT ![e] = Append(ws, op)]
      /\ outq' = [outq EXCEPT ![e] = outq[e]]
      /\ sock' = [sock EXCEPT ![e] = sock[e]]
  BY SameAtEnd DEF OnChallengeRead
<1> HIDE DEF ws, op
<1> QED
  BY <1>3, <1>4, <1>5, WritingAtEnd

-----------------------------------------------------------------------------
(* Reading: who has a read outstanding, and for what.                      *)

WordKinds == {"word"}

\* The client's outstanding writes of a handshake word.
AnswerWrites == WritesOf(writes["client"], WordKinds)

\* The reads of an end follow each other.  A client's next read is issued when
\* the write of its answer has completed, so there is not one at the same time.
Reading ==
    /\ \A e \in Ends : Len(reads[e]) <= 1
    /\ sock["client"] = "none" => connecting = "idle"
    /\ connecting # "handled" => reads["client"] = <<>> /\ AnswerWrites = {}
    /\ sock["server"] = "none" => reads["server"] = <<>> /\ delivered["server"] = <<>>
    /\ \A i, j \in AnswerWrites : i = j
    /\ AnswerWrites # {} => reads["client"] = <<>>

\* While the server waits for the answer it has delivered nothing, and it waits
\* for nothing else before the answer was right.
Validated ==
    /\ OnlyValidatedHeard
    /\ \A i \in DOMAIN reads["server"] :
            reads["server"][i].kind = "word" => delivered["server"] = <<>>

LEMMA ReadsOfOne ==
    ASSUME NEW rs \in Seq(ReadOps), Len(rs) <= 1, rs # <<>>
    PROVE  Tail(rs) = <<>> /\ Head(rs) = rs[1] /\ DOMAIN rs = {1}
<1>1. Len(rs) \in Nat \ {0}
  BY EmptySeq
<1>2. Len(rs) = 1
  <2>1. \A n \in Nat \ {0} : n <= 1 => n = 1
    OBVIOUS
  <2> QED
    BY <1>1, <2>1
<1>3. Tail(rs) \in Seq(ReadOps) /\ Len(Tail(rs)) = 0
  BY <1>2, HeadTailProperties
<1>4. Tail(rs) = <<>>
  BY <1>3, EmptySeq
<1>5. DOMAIN rs = {1}
  BY <1>2, LenProperties
<1> QED
  BY <1>4, <1>5

LEMMA AppendToNone ==
    ASSUME NEW k \in {"word", "header", "body"}
    PROVE  LET rs == Append(<<>>, Read(k))
           IN  Len(rs) = 1 /\ DOMAIN rs = {1} /\ rs[1].kind = k
<1>1. Append(<<>>, Read(k)) = <<Read(k)>>
  OBVIOUS
<1> QED
  BY <1>1, OpTypes

LEMMA AnswersAfterTail ==
    ASSUME NEW ws \in Seq(WriteOps), ws # <<>>,
           \A i, j \in WritesOf(ws, WordKinds) : i = j
    PROVE  /\ \A i, j \in WritesOf(Tail(ws), WordKinds) : i = j
           /\ WritesOf(ws, WordKinds) = {} => WritesOf(Tail(ws), WordKinds) = {}
           /\ Head(ws).chunk.kind = "word" => WritesOf(Tail(ws), WordKinds) = {}
<1>1. \A i \in WritesOf(Tail(ws), WordKinds) :
        i \in Int /\ i + 1 \in WritesOf(ws, WordKinds) /\ i + 1 # 1
  BY WritesTail
<1>2. Head(ws).chunk.kind = "word" => 1 \in WritesOf(ws, WordKinds)
  BY WritesTail DEF WordKinds
<1> QED
  BY <1>1, <1>2

LEMMA AnswersAfterMessage ==
    ASSUME NEW ws \in Seq(WriteOps), NEW q \in Seq(Message)
    PROVE  /\ WritesOf(ws \o WriteHeader(q), WordKinds) = WritesOf(ws, WordKinds)
           /\ q # <<>> => WritesOf(ws \o WriteBody(q), WordKinds) = WritesOf(ws, WordKinds)
<1>1. ASSUME NEW chunk \in Chunks, chunk.kind # "word"
      PROVE  WritesOf(ws \o <<Write(chunk)>>, WordKinds) = WritesOf(ws, WordKinds)
  <2> DEFINE vs == ws \o <<Write(chunk)>>
  <2>1. Write(chunk) \in WriteOps /\ Write(chunk).chunk.kind \notin WordKinds
    BY <1>1, OpTypes DEF WordKinds
  <2>2. Extends(vs, ws, Write(chunk))
    BY <2>1, AppendIsConcat, AppendExtends
  <2> HIDE DEF vs
  <2>3. WritesOf(vs, WordKinds) = WritesOf(ws, WordKinds)
    BY <2>1, <2>2, WritesExtends
  <2> QED
    BY <2>3 DEF vs
<1>2. q # <<>> => /\ HeaderChunk(Head(q)) \in Chunks /\ HeaderChunk(Head(q)).kind # "word"
                  /\ BodyChunk(Head(q)) \in Chunks /\ BodyChunk(Head(q)).kind # "word"
  BY TailType, ChunkTypes
<1>3. q # <<>> => /\ WritesOf(ws \o WriteHeader(q), WordKinds) = WritesOf(ws, WordKinds)
                  /\ WritesOf(ws \o WriteBody(q), WordKinds) = WritesOf(ws, WordKinds)
  BY <1>1, <1>2 DEF WriteHeader, WriteBody
<1>4. q = <<>> => ws \o WriteHeader(q) = ws
  BY ConcatEmptySeq DEF WriteHeader
<1> QED
  BY <1>3, <1>4

ReadingInv == TypeOK /\ Writing /\ Reading /\ Validated

LEMMA ConnectReading ==
    ASSUME ReadingInv,
           \/ ConnectToServer \/ TcpEstablish \/ ConnectFailed \/ LoseLink
           \/ \E e \in Ends : User(e)
    PROVE  Reading' /\ Validated'
<1>1. UNCHANGED <<reads, writes, delivered, hsIn>> /\ UNCHANGED AnswerWrites
  BY DEF ConnectToServer, TcpEstablish, ConnectFailed, LoseLink, User, Send,
         Disconnect, handshake, AnswerWrites
<1>2. /\ sock'["client"] = "none" => connecting' = "idle"
      /\ connecting' # "handled" => connecting # "handled"
      /\ sock'["server"] = sock["server"]
  BY DEF ReadingInv, TypeOK, Reading, Ends, ConnectToServer, TcpEstablish,
         ConnectFailed, LoseLink, User, Send, Disconnect, net
<1> QED
  BY <1>1, <1>2 DEF ReadingInv, Reading, Validated, OnlyValidatedHeard

LEMMA ConnectedReading ==
    ASSUME ReadingInv, OnConnected
    PROVE  Reading' /\ Validated'
<1>1. "client" \in Ends /\ "server" \in Ends /\ "client" # "server"
  BY DEF Ends
<1>2. reads["client"] = <<>> /\ AnswerWrites' = {}
  BY DEF ReadingInv, Reading, OnConnected, AnswerWrites
<1>3. Len(reads'["client"]) <= 1 /\ reads'["server"] = reads["server"]
  BY <1>1, <1>2, AppendToNone DEF ReadingInv, TypeOK, Reading, OnConnected
<1>4. \A e \in Ends : Len(reads'[e]) <= 1
  BY <1>1, <1>3 DEF ReadingInv, Reading, Ends
<1>5. /\ connecting = "done" /\ connecting' = "handled"
      /\ sock' = sock
      /\ delivered' = delivered
  BY DEF OnConnected
<1>6. Reading'
  BY <1>2, <1>3, <1>4, <1>5 DEF ReadingInv, Reading
<1> QED
  BY <1>3, <1>6 DEF ReadingInv, Validated, OnlyValidatedHeard, OnConnected, handshake

LEMMA AcceptReading ==
    ASSUME ReadingInv, AcceptClient
    PROVE  Reading' /\ Validated'
<1>1. "client" \in Ends /\ "server" \in Ends /\ "client" # "server"
  BY DEF Ends
<1>2. reads["server"] = <<>> /\ delivered'["server"] = <<>>
  BY DEF ReadingInv, Reading, AcceptClient
<1>3. /\ reads'["server"] = Append(<<>>, Read("word"))
      /\ reads'["client"] = reads["client"]
      /\ writes'["client"] = writes["client"]
      /\ sock'["server"] = "open"
      /\ sock'["client"] = sock["client"]
      /\ connecting' = connecting
  BY <1>1, <1>2 DEF ReadingInv, TypeOK, AcceptClient, net
<1>4. /\ Len(reads'["server"]) = 1
      /\ \A i \in DOMAIN reads'["server"] : reads'["server"][i].kind = "word"
  BY <1>3, AppendToNone
<1>5. AnswerWrites' = AnswerWrites
  BY <1>3 DEF AnswerWrites
<1>6. \A e \in Ends : Len(reads'[e]) <= 1
  <2>1. Len(reads'["client"]) <= 1
    BY <1>1, <1>3 DEF ReadingInv, Reading
  <2>2. Len(reads'["server"]) <= 1
    BY <1>4
  <2> QED
    BY <2>1, <2>2 DEF Ends
<1>7. Reading'
  BY <1>3, <1>5, <1>6 DEF ReadingInv, Reading
<1> QED
  BY <1>2, <1>4, <1>7 DEF Validated, OnlyValidatedHeard

\* Steps that read nothing: they may complete, lose or add writes, but none of
\* a word.
LEMMA QuietReading ==
    ASSUME ReadingInv, UNCHANGED <<connecting, reads, hsIn, delivered>>,
           \A e \in Ends : sock'[e] = "none" => sock[e] = "none",
           \A i, j \in AnswerWrites' : i = j,
           AnswerWrites = {} => AnswerWrites' = {}
    PROVE  Reading' /\ Validated'
<1>1. "client" \in Ends /\ "server" \in Ends
  BY DEF Ends
<1>2. Reading'
  BY <1>1 DEF ReadingInv, Reading
<1> QED
  BY <1>2 DEF ReadingInv, Validated, OnlyValidatedHeard

LEMMA TransmitReading ==
    ASSUME ReadingInv, NEW e \in Ends, Transmit(e)
    PROVE  Reading' /\ Validated'
<1>1. PICK i \in Waiting(writes[e]) : writes' = [writes EXCEPT ![e][i].done = TRUE]
  BY DEF Transmit
<1> DEFINE ws == [writes[e] EXCEPT ![i] = [writes[e][i] EXCEPT !.done = TRUE]]
<1>2. WritesOf(ws, WordKinds) = WritesOf(writes[e], WordKinds)
  BY SameAtEnd, WritesDone DEF ReadingInv
<1>3. writes' = [writes EXCEPT ![e] = ws]
  BY <1>1, SameAtEnd DEF ReadingInv
<1> HIDE DEF ws
<1>4. AnswerWrites' = AnswerWrites
  BY <1>2, <1>3 DEF AnswerWrites, ReadingInv, TypeOK, Ends
<1>5. \A i1, i2 \in AnswerWrites' : i1 = i2
  BY <1>4 DEF ReadingInv, Reading
<1>6. UNCHANGED <<connecting, reads, hsIn, delivered, sock>>
  BY DEF Transmit, net, handshake
<1> QED
  BY <1>4, <1>5, <1>6, QuietReading

LEMMA WriteReading ==
    ASSUME ReadingInv, NEW e \in Ends,
           \/ RunSend(e) \/ OnHeaderWritten(e) \/ OnBodyWritten(e)
           \/ OnWriteFailed(e) \/ RunClose(e),
           HandlersFindFront
    PROVE  Reading' /\ Validated'
<1> DEFINE ws == writes[e]
<1>1. /\ ws \in Seq(WriteOps)
      /\ outq[e] \in Seq(Message)
      /\ TypeOK
  BY SameAtEnd DEF ReadingInv
<1>2. UNCHANGED <<connecting, reads, hsIn, delivered>>
  BY DEF RunSend, OnHeaderWritten, OnBodyWritten, OnWriteFailed, RunClose, net, handshake
<1>3. \A f \in Ends : sock'[f] = "none" => sock[f] = "none"
  BY <1>1 DEF TypeOK, RunSend, OnHeaderWritten, OnBodyWritten, OnWriteFailed, RunClose, Close
<1>4. \/ writes' = writes
      \/ \E q \in Seq(Message) : writes' = [writes EXCEPT ![e] = ws \o WriteHeader(q)]
      \/ ws # <<>> /\ \E q \in Seq(Message) :
                writes' = [writes EXCEPT ![e] = Tail(ws) \o WriteHeader(q)]
      \/ ws # <<>> /\ outq[e] # <<>> /\
                writes' = [writes EXCEPT ![e] = Tail(ws) \o WriteBody(outq[e])]
      \/ ws # <<>> /\ writes' = [writes EXCEPT ![e] = Tail(ws)]
  <2>1. CASE RunSend(e)
    <3>1. outq'[e] \in Seq(Message)
      BY <1>1, <2>1, RunSendType DEF TypeOK
    <3>2. writes' = [writes EXCEPT ![e] =
                        IF outq[e] = <<>> THEN ws \o WriteHeader(outq'[e]) ELSE ws]
      BY <2>1 DEF RunSend
    <3>3. writes' = writes \/ writes' = [writes EXCEPT ![e] = ws \o WriteHeader(outq'[e])]
      BY <1>1, <3>2, SameAtEnd
    <3> QED
      BY <3>1, <3>3
  <2>2. CASE OnHeaderWritten(e) \/ OnBodyWritten(e)
    <3>1. outq[e] # <<>> /\ ws # <<>>
      BY <2>2 DEF HandlersFindFront, OnHeaderWritten, OnBodyWritten, Written
    <3>2. Tail(outq[e]) \in Seq(Message)
      BY <1>1, <3>1, TailType
    <3>3. \/ writes' = [writes EXCEPT ![e] = Tail(ws) \o WriteBody(outq[e])]
          \/ writes' = [writes EXCEPT ![e] = Tail(ws) \o WriteHeader(Tail(outq[e]))]
      BY <1>1, <2>2 DEF TypeOK, OnHeaderWritten, OnBodyWritten
    <3> QED
      BY <3>1, <3>2, <3>3
  <2>3. CASE OnWriteFailed(e)
    BY <2>3 DEF OnWriteFailed
  <2>4. CASE RunClose(e)
    BY <2>4 DEF RunClose
  <2> QED
    BY <2>1, <2>2, <2>3, <2>4
<1>5. e = "client" =>
        /\ AnswerWrites = WritesOf(ws, WordKinds)
        /\ \A i, j \in WritesOf(ws, WordKinds) : i = j
  BY DEF ReadingInv, Reading, AnswerWrites
<1>6. \A s : writes' = [writes EXCEPT ![e] = s] =>
            AnswerWrites' = IF e = "client" THEN WritesOf(s, WordKinds) ELSE AnswerWrites
  BY <1>1 DEF TypeOK, AnswerWrites, Ends
<1>7. ws # <<>> => Tail(ws) \in Seq(WriteOps)
  BY <1>1, TailType
<1> HIDE DEF ws
<1>8. (\A i, j \in AnswerWrites' : i = j) /\ (AnswerWrites = {} => AnswerWrites' = {})
  <2>1. CASE e = "client"
    <3>1. CASE writes' = writes
      BY <3>1 DEF ReadingInv, Reading, AnswerWrites
    <3>2. ASSUME NEW q \in Seq(Message), writes' = [writes EXCEPT ![e] = ws \o WriteHeader(q)]
          PROVE  AnswerWrites' = AnswerWrites
      BY <1>1, <1>5, <1>6, <2>1, <3>2, AnswersAfterMessage
    <3>3. ws # <<>> => /\ \A i, j \in WritesOf(Tail(ws), WordKinds) : i = j
                       /\ AnswerWrites = {} => WritesOf(Tail(ws), WordKinds) = {}
      BY <1>1, <1>5, <2>1, AnswersAfterTail
    <3>4. ASSUME NEW q \in Seq(Message), ws # <<>>,
                 writes' = [writes EXCEPT ![e] = Tail(ws) \o WriteHeader(q)]
          PROVE  AnswerWrites' = WritesOf(Tail(ws), WordKinds)
      BY <1>6, <1>7, <2>1, <3>4, AnswersAfterMessage
    <3>5. ASSUME ws # <<>>, outq[e] # <<>>,
                 writes' = [writes EXCEPT ![e] = Tail(ws) \o WriteBody(outq[e])]
          PROVE  AnswerWrites' = WritesOf(Tail(ws), WordKinds)
      BY <1>1, <1>6, <1>7, <2>1, <3>5, AnswersAfterMessage
    <3>6. ASSUME ws # <<>>, writes' = [writes EXCEPT ![e] = Tail(ws)]
          PROVE  AnswerWrites' = WritesOf(Tail(ws), WordKinds)
      BY <1>6, <2>1, <3>6
    <3>7. \A i, j \in AnswerWrites : i = j
      BY DEF ReadingInv, Reading
    <3> QED
      BY <1>4, <3>1, <3>2, <3>3, <3>4, <3>5, <3>6, <3>7
  <2>2. CASE e # "client"
    <3>1. AnswerWrites' = AnswerWrites
      BY <1>4, <1>6, <2>2 DEF AnswerWrites
    <3> QED
      BY <3>1 DEF ReadingInv, Reading
  <2> QED
    BY <2>1, <2>2
<1> QED
  BY <1>2, <1>3, <1>8, QuietReading

LEMMA FillReading ==
    ASSUME ReadingInv, NEW e \in Ends, Fill(e)
    PROVE  Reading' /\ Validated'
<1>1. PICK i \in Waiting(reads[e]) :
        /\ reads' = [reads EXCEPT ![e][i].done = TRUE]
        /\ reads[e][i].kind # "word" => UNCHANGED hsIn
        /\ e # "server" => hsIn'["server"] = hsIn["server"]
  BY DEF Fill, ReadingInv, TypeOK, Ends
<1> DEFINE rs == [reads[e] EXCEPT ![i] = [reads[e][i] EXCEPT !.done = TRUE]]
<1>2. /\ reads[e] \in Seq(ReadOps)
      /\ reads' = [reads EXCEPT ![e] = rs]
      /\ \A f \in Ends \ {e} : reads'[f] = reads[f]
      /\ reads'[e] = rs
  BY <1>1 DEF ReadingInv, TypeOK, ReadOps
<1>3. i \in 1..Len(reads[e]) /\ i \in DOMAIN reads[e] /\ reads[e][i] \in ReadOps
  BY <1>2, WaitingProperties
<1>4. reads[e] # <<>> /\ Len(reads[e]) <= 1
  BY <1>3, EmptySeq DEF ReadingInv, Reading
<1>5. DOMAIN reads[e] = {1} /\ i = 1
  BY <1>2, <1>3, <1>4, ReadsOfOne
<1>6. Len(rs) <= 1
  BY <1>2, <1>3, <1>4, DoneTypes, ExceptSeq
<1>7. DOMAIN rs = {1} /\ rs[1].kind = reads[e][1].kind
  BY <1>3, <1>5 DEF ReadOps
<1>8. UNCHANGED <<connecting, sock, delivered>> /\ AnswerWrites' = AnswerWrites
  BY DEF Fill, net, AnswerWrites
<1> HIDE DEF rs
<1>9. Reading'
  <2>1. \A f \in Ends : Len(reads'[f]) <= 1
    BY <1>2, <1>6 DEF ReadingInv, Reading
  <2>2. e = "client" => connecting = "handled" /\ AnswerWrites = {}
    BY <1>4 DEF ReadingInv, Reading
  <2>3. e = "server" => sock["server"] # "none"
    BY <1>4 DEF ReadingInv, Reading
  <2>4. "client" \in Ends /\ "server" \in Ends
    BY DEF Ends
  <2> QED
    BY <1>2, <1>8, <2>1, <2>2, <2>3, <2>4 DEF ReadingInv, Reading
<1>10. Validated'
  <2>1. CASE e = "server"
    <3>1. CASE reads[e][1].kind = "word"
      <4>1. delivered["server"] = <<>>
        BY <1>5, <2>1, <3>1 DEF ReadingInv, Validated
      <4> QED
        BY <1>2, <1>7, <1>8, <2>1, <3>1, <4>1 DEF Validated, OnlyValidatedHeard
    <3>2. CASE reads[e][1].kind # "word"
      <4>1. hsIn' = hsIn /\ hsIn["server"] = m_nHandshakeCheck
        BY <1>1, <1>5, <2>1, <3>2 DEF ReadingInv, Validated, OnlyValidatedHeard
      <4> QED
        BY <1>2, <1>7, <2>1, <3>2, <4>1 DEF Validated, OnlyValidatedHeard
    <3> QED
      BY <3>1, <3>2
  <2>2. CASE e # "server"
    <3>1. reads'["server"] = reads["server"] /\ hsIn'["server"] = hsIn["server"]
      BY <1>1, <1>2, <2>2 DEF Ends
    <3> QED
      BY <1>8, <3>1 DEF ReadingInv, Validated, OnlyValidatedHeard
  <2> QED
    BY <2>1, <2>2
<1> QED
  BY <1>9, <1>10

\* A step that replaces the reads of the client alone.
LEMMA ClientReading ==
    ASSUME ReadingInv, NEW rs, reads' = [reads EXCEPT !["client"] = rs],
           Len(rs) <= 1,
           connecting = "handled", UNCHANGED <<connecting, hsIn>>,
           \A e \in Ends : sock'[e] = "none" => sock[e] = "none",
           UNCHANGED (delivered["server"]),
           \A i, j \in AnswerWrites' : i = j,
           AnswerWrites' # {} => rs = <<>>
    PROVE  Reading' /\ Validated'
<1>1. "client" \in Ends /\ "server" \in Ends /\ "client" # "server"
  BY DEF Ends
<1>2. reads'["client"] = rs /\ reads'["server"] = reads["server"]
  BY <1>1 DEF ReadingInv, TypeOK
<1>3. \A e \in Ends : Len(reads'[e]) <= 1
  BY <1>2 DEF ReadingInv, Reading, Ends
<1>4. Reading'
  BY <1>1, <1>2, <1>3 DEF ReadingInv, Reading
<1> QED
  BY <1>2, <1>4 DEF ReadingInv, Validated, OnlyValidatedHeard

\* A step that replaces the reads of the server, by at most one.
LEMMA ServerReading ==
    ASSUME ReadingInv, NEW rs, reads' = [reads EXCEPT !["server"] = rs],
           Len(rs) <= 1, sock["server"] # "none",
           \A e \in Ends : sock'[e] = "none" => sock[e] = "none",
           UNCHANGED <<connecting, hsIn, writes>>,
           \/ hsIn["server"] = m_nHandshakeCheck /\ \A i \in DOMAIN rs : rs[i].kind # "word"
           \/ UNCHANGED delivered /\ rs = <<>>
    PROVE  Reading' /\ Validated'
<1>1. "client" \in Ends /\ "server" \in Ends /\ "client" # "server"
  BY DEF Ends
<1>2. /\ reads'["server"] = rs
      /\ reads'["client"] = reads["client"]
      /\ AnswerWrites' = AnswerWrites
      /\ sock'["server"] # "none"
  BY <1>1 DEF ReadingInv, TypeOK, AnswerWrites
<1>3. \A e \in Ends : Len(reads'[e]) <= 1
  BY <1>2 DEF ReadingInv, Reading, Ends
<1>4. Reading'
  BY <1>1, <1>2, <1>3 DEF ReadingInv, Reading
<1>5. Validated'
  BY <1>2 DEF ReadingInv, Validated, OnlyValidatedHeard
<1> QED
  BY <1>4, <1>5

LEMMA ValidationWrittenReading ==
    ASSUME ReadingInv, NEW e \in Ends, OnValidationWritten(e)
    PROVE  Reading' /\ Validated'
<1> DEFINE ws == writes[e]
<1>1. /\ ws \in Seq(WriteOps)
      /\ ws # <<>>
      /\ Head(ws).chunk.kind = "word"
      /\ writes' = [writes EXCEPT ![e] = Tail(ws)]
  BY SameAtEnd DEF ReadingInv, OnValidationWritten, Written
<1>2. UNCHANGED <<connecting, hsIn, delivered, sock>>
  BY DEF OnValidationWritten, net, handshake
<1>3. CASE e = "client"
  <2>1. \A i, j \in WritesOf(ws, WordKinds) : i = j
    BY <1>3 DEF ReadingInv, Reading, AnswerWrites
  <2>2. 1 \in WritesOf(ws, WordKinds)
    BY <1>1, WritesTail DEF WordKinds
  <2>3. connecting = "handled" /\ reads["client"] = <<>>
    BY <1>3, <2>2 DEF ReadingInv, Reading, AnswerWrites
  <2>4. WritesOf(Tail(ws), WordKinds) = {}
    BY <1>1, <2>1, AnswersAfterTail
  <2>5. AnswerWrites' = {}
    BY <1>1, <1>3, <2>4 DEF ReadingInv, TypeOK, AnswerWrites
  <2> DEFINE rs == Append(<<>>, Read("header"))
  <2>6. reads' = [reads EXCEPT !["client"] = rs]
    BY <1>3, <2>3 DEF OnValidationWritten
  <2>7. Len(rs) <= 1
    BY AppendToNone
  <2> HIDE DEF rs
  <2> QED
    BY <1>2, <2>3, <2>5, <2>6, <2>7, ClientReading
<1>4. CASE e = "server"
  <2>1. UNCHANGED reads /\ writes'["client"] = writes["client"]
    BY <1>1, <1>4 DEF OnValidationWritten, ReadingInv, TypeOK, Ends
  <2>2. AnswerWrites' = AnswerWrites
    BY <2>1 DEF AnswerWrites
  <2>3. \A i, j \in AnswerWrites' : i = j
    BY <2>2 DEF ReadingInv, Reading
  <2> QED
    BY <1>2, <2>1, <2>2, <2>3, QuietReading
<1> QED
  BY <1>3, <1>4 DEF Ends

\* The one read of an end, when its handler runs.
LEMMA OnlyRead ==
    ASSUME ReadingInv, NEW e \in Ends, reads[e] # <<>>
    PROVE  /\ Tail(reads[e]) = <<>>
           /\ Head(reads[e]) = reads[e][1]
           /\ DOMAIN reads[e] = {1}
           /\ e = "client" => connecting = "handled" /\ AnswerWrites = {}
           /\ e = "server" => sock["server"] # "none"
<1>1. reads[e] \in Seq(ReadOps) /\ Len(reads[e]) <= 1
  BY DEF ReadingInv, TypeOK, ReadOps, Reading
<1> QED
  BY <1>1, ReadsOfOne DEF ReadingInv, Reading

LEMMA ChallengeReadReading ==
    ASSUME ReadingInv, NEW e \in Ends, OnChallengeRead(e)
    PROVE  Reading' /\ Validated'
<1> DEFINE ws == writes["client"]
           op == Write(WordChunk(hsOut'["client"]))
<1>1. e = "client" /\ "client" \in Ends
  BY DEF OnChallengeRead, Ends
<1>2. /\ reads' = [reads EXCEPT !["client"] = <<>>]
      /\ connecting = "handled"
      /\ AnswerWrites = {}
  BY <1>1, OnlyRead DEF OnChallengeRead, ReadDone
<1>3. hsOut'["client"] \in Words
  BY <1>1, ScrambleType DEF OnChallengeRead, ReadingInv, TypeOK
<1>4. op \in WriteOps /\ op.chunk.kind \in WordKinds
  BY <1>3, ChunkTypes, OpTypes DEF WordKinds
<1>5. ws \in Seq(WriteOps) /\ writes'["client"] = Append(ws, op)
  BY <1>1, SameAtEnd DEF ReadingInv, TypeOK, OnChallengeRead
<1>6. Extends(writes'["client"], ws, op)
  BY <1>4, <1>5, AppendExtends
<1> HIDE DEF op
<1>7. AnswerWrites' = AnswerWrites \cup {Len(ws) + 1}
  BY <1>4, <1>5, <1>6, WritesExtends DEF AnswerWrites
<1>8. \A i, j \in AnswerWrites' : i = j
  BY <1>2, <1>7
<1>9. Len(<<>>) <= 1
  OBVIOUS
<1>10. UNCHANGED <<connecting, hsIn, delivered, sock>>
  BY DEF OnChallengeRead, net
<1> QED
  BY <1>2, <1>8, <1>9, <1>10, ClientReading

LEMMA AnswerReadReading ==
    ASSUME ReadingInv, NEW e \in Ends, OnAnswerRead(e)
    PROVE  Reading' /\ Validated'
<1> DEFINE next == Append(<<>>, Read("header"))
<1>1. e = "server" /\ "server" \in Ends
  BY DEF OnAnswerRead, Ends
<1>2. sock["server"] # "none" /\ Tail(reads["server"]) = <<>>
  BY <1>1, OnlyRead DEF OnAnswerRead, ReadDone
<1>3. UNCHANGED <<connecting, hsIn, delivered, writes>>
  BY DEF OnAnswerRead, net, handshake
<1>4. \A f \in Ends : sock'[f] = "none" => sock[f] = "none"
  BY DEF ReadingInv, TypeOK, OnAnswerRead, Close
<1>5. Len(next) <= 1 /\ \A i \in DOMAIN next : next[i].kind # "word"
  BY AppendToNone
<1>6. \/ hsIn["server"] = m_nHandshakeCheck /\ reads' = [reads EXCEPT !["server"] = next]
      \/ reads' = [reads EXCEPT !["server"] = <<>>]
  BY <1>1, <1>2 DEF OnAnswerRead
<1> HIDE DEF next
<1>7. Len(<<>>) <= 1
  OBVIOUS
<1> QED
  BY <1>2, <1>3, <1>4, <1>5, <1>6, <1>7, ServerReading

LEMMA MessageReadReading ==
    ASSUME ReadingInv, NEW e \in Ends, OnHeaderRead(e) \/ OnBodyRead(e)
    PROVE  Reading' /\ Validated'
<1>1. /\ Tail(reads[e]) = <<>>
      /\ reads[e][1].kind # "word"
      /\ DOMAIN reads[e] = {1}
  BY OnlyRead DEF OnHeaderRead, OnBodyRead, ReadDone
<1>2. UNCHANGED <<connecting, hsIn, writes, sock>>
  BY DEF OnHeaderRead, OnBodyRead, net, handshake
<1>3. PICK k \in {"header", "body"} :
        reads' = [reads EXCEPT ![e] = Append(<<>>, Read(k))]
  BY <1>1 DEF OnHeaderRead, OnBodyRead, AddToIncomingMessageQueue
<1> DEFINE rs == Append(<<>>, Read(k))
<1>4. Len(rs) <= 1 /\ \A i \in DOMAIN rs : rs[i].kind # "word"
  BY AppendToNone
<1>5. reads' = [reads EXCEPT ![e] = rs]
  BY <1>3
<1> HIDE DEF rs
<1>6. CASE e = "client"
  <2>1. connecting = "handled" /\ AnswerWrites' = {}
    BY <1>2, <1>6, OnlyRead DEF AnswerWrites, OnHeaderRead, OnBodyRead, ReadDone
  <2>2. delivered'["server"] = delivered["server"]
    BY <1>6 DEF ReadingInv, TypeOK, Ends, OnHeaderRead, OnBodyRead,
                AddToIncomingMessageQueue
  <2> QED
    BY <1>2, <1>4, <1>5, <1>6, <2>1, <2>2, ClientReading
<1>7. CASE e = "server"
  <2>1. sock["server"] # "none"
    BY <1>7, OnlyRead DEF OnHeaderRead, OnBodyRead, ReadDone
  <2>2. hsIn["server"] = m_nHandshakeCheck
    BY <1>1, <1>7 DEF ReadingInv, Validated, OnlyValidatedHeard
  <2> QED
    BY <1>2, <1>4, <1>5, <1>7, <2>1, <2>2, ServerReading
<1> QED
  BY <1>6, <1>7 DEF Ends

LEMMA ReadFailedReading ==
    ASSUME ReadingInv, NEW e \in Ends, OnReadFailed(e)
    PROVE  Reading' /\ Validated'
<1> DEFINE none == Tail(reads[e])
<1>1. reads' = [reads EXCEPT ![e] = none] /\ none = <<>> /\ Len(none) <= 1
  BY OnlyRead DEF OnReadFailed
<1> HIDE DEF none
<1>2. UNCHANGED <<connecting, hsIn, writes, delivered>>
  BY DEF OnReadFailed, net, handshake
<1>3. \A f \in Ends : sock'[f] = "none" => sock[f] = "none"
  BY DEF ReadingInv, TypeOK, OnReadFailed, Close
<1>4. CASE e = "client"
  <2>1. connecting = "handled" /\ AnswerWrites' = {}
    BY <1>2, <1>4, OnlyRead DEF AnswerWrites, OnReadFailed
  <2> QED
    BY <1>1, <1>2, <1>3, <1>4, <2>1, ClientReading
<1>5. CASE e = "server"
  <2>1. sock["server"] # "none"
    BY <1>5, OnlyRead DEF OnReadFailed
  <2> QED
    BY <1>1, <1>2, <1>3, <1>5, <2>1, ServerReading
<1> QED
  BY <1>4, <1>5 DEF Ends

-----------------------------------------------------------------------------
(* The invariant of writing and reading.                                   *)

\* Whoever handles the completion of a message write finds the message.
LEMMA WritingFindsFront ==
    ASSUME TypeOK, Writing
    PROVE  HandlersFindFront
<1> SUFFICES ASSUME NEW e \in Ends, OnHeaderWritten(e) \/ OnBodyWritten(e)
             PROVE  outq[e] # <<>>
  BY DEF HandlersFindFront
<1>1. writes[e] # <<>> /\ Head(writes[e]).chunk.kind # "word"
  BY DEF OnHeaderWritten, OnBodyWritten, Written
<1> QED
  BY <1>1, SameAtEnd, DropFirst DEF Writing

\* Steps that write nothing and leave the queue alone.
LEMMA QuietWriting ==
    ASSUME Writing, UNCHANGED <<writes, outq>>,
           \A e \in Ends : sock[e] = "closed" => sock'[e] = "closed"
    PROVE  Writing'
  BY DEF Writing

LEMMA ConnectWriting ==
    ASSUME TypeOK, Writing,
           \/ ConnectToServer \/ TcpEstablish \/ ConnectFailed \/ OnConnected
           \/ LoseLink
           \/ \E e \in Ends : User(e) \/ Fill(e) \/ OnHeaderRead(e) \/ OnBodyRead(e)
    PROVE  Writing'
<1>1. UNCHANGED <<writes, outq>>
  BY DEF ConnectToServer, TcpEstablish, ConnectFailed, OnConnected, LoseLink, User,
         Send, Disconnect, Fill, OnHeaderRead, OnBodyRead
<1>2. \A e \in Ends : sock[e] = "closed" => sock'[e] = "closed"
  BY DEF TypeOK, ConnectToServer, TcpEstablish, ConnectFailed, OnConnected, LoseLink,
         User, Send, Disconnect, Fill, OnHeaderRead, OnBodyRead
<1> QED
  BY <1>1, <1>2, QuietWriting

LEMMA ContextWriting ==
    ASSUME TypeOK, Writing, NEW e \in Ends, Context(e)
    PROVE  Writing'
<1>1. CASE RunSend(e)
  BY <1>1, RunSendWriting
<1>2. CASE RunClose(e) \/ OnReadFailed(e) \/ OnWriteFailed(e)
  BY <1>2, CloseWriting DEF RunClose, OnReadFailed, OnWriteFailed
<1>3. CASE OnValidationWritten(e) \/ OnHeaderWritten(e) \/ OnBodyWritten(e)
  BY <1>3, WrittenWriting
<1>4. CASE OnChallengeRead(e)
  BY <1>4, ChallengeReadWriting
<1>5. CASE OnAnswerRead(e)
  BY <1>5, CloseWriting, QuietWriting DEF OnAnswerRead
<1>6. CASE OnHeaderRead(e) \/ OnBodyRead(e)
  BY <1>6, ConnectWriting
<1> QED
  BY <1>1, <1>2, <1>3, <1>4, <1>5, <1>6 DEF Context

LEMMA ContextReading ==
    ASSUME ReadingInv, NEW e \in Ends, Context(e)
    PROVE  Reading' /\ Validated'
<1>1. CASE \/ RunSend(e) \/ OnHeaderWritten(e) \/ OnBodyWritten(e)
           \/ OnWriteFailed(e) \/ RunClose(e)
  BY <1>1, WriteReading, WritingFindsFront DEF ReadingInv
<1>2. CASE ~( \/ RunSend(e) \/ OnHeaderWritten(e) \/ OnBodyWritten(e)
              \/ OnWriteFailed(e) \/ RunClose(e))
  BY <1>2, ValidationWrittenReading, ChallengeReadReading, AnswerReadReading,
     MessageReadReading, ReadFailedReading
     DEF Context
<1> QED
  BY <1>1, <1>2

LEMMA InitReadingInv == Init => ReadingInv
<1> SUFFICES ASSUME Init PROVE ReadingInv
  OBVIOUS
<1>1. TypeOK
  BY InitType
<1>2. \A e \in Ends : writes[e] = <<>> /\ reads[e] = <<>> /\ outq[e] = <<>>
                      /\ delivered[e] = <<>>
  BY DEF Init
<1>3. \A kinds : WritesOf(<<>>, kinds) = {}
  BY DEF WritesOf
<1>4. Writing
  BY <1>2, <1>3 DEF Writing, FrontOnly, MessageWritesOf
<1>5. Len(<<>>) <= 1 /\ DOMAIN <<>> = {}
  OBVIOUS
<1>6. "client" \in Ends /\ "server" \in Ends
  BY DEF Ends
<1>7. Reading
  BY <1>2, <1>3, <1>5, <1>6 DEF Init, Reading, AnswerWrites
<1>8. Validated
  BY <1>2, <1>5, <1>6 DEF Validated, OnlyValidatedHeard
<1> QED
  BY <1>1, <1>4, <1>7, <1>8 DEF ReadingInv

LEMMA StepReadingInv == ReadingInv /\ [Next]_vars => ReadingInv'
<1> SUFFICES ASSUME ReadingInv, [Next]_vars PROVE ReadingInv'
  OBVIOUS
<1>1. TypeOK /\ Writing
  BY DEF ReadingInv
<1>2. TypeOK'
  BY <1>1, WritingFindsFront, StepType
<1>3. CASE ConnectToServer \/ TcpEstablish \/ ConnectFailed \/ LoseLink
  BY <1>1, <1>2, <1>3, ConnectWriting, ConnectReading DEF ReadingInv
<1>4. CASE OnConnected
  BY <1>1, <1>2, <1>4, ConnectWriting, ConnectedReading DEF ReadingInv
<1>5. CASE AcceptClient
  BY <1>1, <1>2, <1>5, AcceptWriting, AcceptReading DEF ReadingInv
<1>6. ASSUME NEW e \in Ends, User(e) \/ Transmit(e) \/ Fill(e) \/ Context(e)
      PROVE  ReadingInv'
  <2>1. CASE User(e)
    BY <1>1, <1>2, <2>1, ConnectWriting, ConnectReading DEF ReadingInv
  <2>2. CASE Transmit(e)
    BY <1>1, <1>2, <2>2, TransmitWriting, TransmitReading DEF ReadingInv
  <2>3. CASE Fill(e)
    BY <1>1, <1>2, <2>3, ConnectWriting, FillReading DEF ReadingInv
  <2>4. CASE Context(e)
    BY <1>1, <1>2, <2>4, ContextWriting, ContextReading DEF ReadingInv
  <2> QED
    BY <1>6, <2>1, <2>2, <2>3, <2>4
<1>7. CASE UNCHANGED vars
  <2>1. UNCHANGED <<sock, connecting, writes, reads, outq, hsIn, delivered>>
    BY <1>7 DEF vars
  <2>2. Writing'
    BY <1>1, <2>1, QuietWriting
  <2>3. UNCHANGED AnswerWrites
    BY <2>1 DEF AnswerWrites
  <2>4. Reading' /\ Validated'
    BY <2>1, <2>3, QuietReading DEF ReadingInv, Reading
  <2> QED
    BY <1>2, <2>2, <2>4 DEF ReadingInv
<1> QED
  BY <1>3, <1>4, <1>5, <1>6, <1>7 DEF Next

LEMMA AlwaysReadingInv == Spec => []ReadingInv
  BY InitReadingInv, StepReadingInv, PTL DEF Spec

\* The properties speak of the writes that are not words.
LEMMA MessageWritesAre ==
    ASSUME TypeOK, NEW e \in Ends
    PROVE  MessageWrites(e) = MessageWritesOf(writes[e])
<1>1. writes[e] \in Seq(WriteOps)
  BY SameAtEnd
<1>2. \A i \in DOMAIN writes[e] : writes[e][i] \in WriteOps
  BY <1>1, LenProperties, ElementOfSeq
<1>3. \A op \in WriteOps : op.chunk.kind # "word" <=> op.chunk.kind \in MessageKinds
  BY DEF WriteOps, Chunks, MessageKinds
<1> QED
  BY <1>2, <1>3 DEF MessageWrites, MessageWritesOf, WritesOf

-----------------------------------------------------------------------------
(* The handshake.                                                          *)

Ops(ops) == {ops[i] : i \in DOMAIN ops}

\* Some byte that the server has taken, or will take, for the answer was sent.
AnswerSent ==
    hsIn["server"] = "answer" \/ wire["server"] # <<>> \/ sock["server"] = "closed"

\* Until it has taken the challenge, the client waits for it and writes nothing.
Challenged ==
    /\ hsOut["server"] = "challenge"
    /\ hsIn["client"] \in {"zero", "challenge"}
    /\ connecting # "handled" => hsIn["client"] = "zero"
    /\ \A op \in Ops(reads["client"]) :
        hsIn["client"] = IF op.kind = "word" /\ ~op.done THEN "zero" ELSE "challenge"
    /\ \A op \in Ops(writes["client"]) :
        op.chunk.kind = "word" =>
            hsIn["client"] = "challenge" /\ op.chunk = WordChunk("answer")

\* What the server sends first is the challenge.
ChallengeFirst ==
    /\ sock["server"] = "none" => posted["server"] = <<>> /\ writes["server"] = <<>>
    /\ hsIn["client"] = "zero" /\ wire["client"] # <<>> =>
        Head(wire["client"]) = WordChunk("challenge")
    /\ hsIn["client"] = "zero" /\ wire["client"] = <<>>
            /\ sock["server"] = "open" /\ sock["client"] # "closed" =>
        /\ writes["server"] # <<>>
        /\ Head(writes["server"]) = Write(WordChunk("challenge"))

\* A client that has not sent its answer has nothing else to send.
NothingToSend ==
    /\ \A op \in Ops(reads["client"]) : op.kind = "word"
    /\ \A op \in Ops(writes["client"]) : op.chunk.kind = "word" /\ ~op.done
    /\ \A p \in Ops(posted["client"]) : p.op = "close"
    /\ outq["client"] = <<>>
    /\ delivered["client"] = <<>>

\* What the client sends first is the answer.
AnswerFirst ==
    /\ hsIn["server"] \in {"zero", "answer"}
    /\ sock["server"] = "none" => hsIn["server"] = "zero"
    /\ \A op \in Ops(reads["server"]) :
        op.kind = "word" /\ ~op.done => hsIn["server"] = "zero"
    /\ hsIn["server"] = "zero" /\ wire["server"] # <<>> =>
        Head(wire["server"]) = WordChunk("answer")
    /\ AnswerSent \/ NothingToSend

\* Whatever the client's user does.
ChallengeInv == ReadingInv /\ Challenged /\ ChallengeFirst

\* If it waits.
HandshakeInv == ChallengeInv /\ AnswerFirst

LEMMA OpsTail ==
    ASSUME NEW S, NEW s \in Seq(S), s # <<>>
    PROVE  Ops(Tail(s)) \subseteq Ops(s) /\ Head(s) \in Ops(s)
<1>1. /\ Len(s) \in Nat \ {0}
      /\ DOMAIN s = 1..Len(s)
      /\ Head(s) = s[1]
      /\ DOMAIN Tail(s) = 1..(Len(s) - 1)
      /\ \A i \in 1..(Len(s) - 1) : Tail(s)[i] = s[i + 1]
  BY HeadTailProperties, LenProperties, EmptySeq
<1> QED
  BY <1>1 DEF Ops

LEMMA OpsAppend ==
    ASSUME NEW S, NEW s \in Seq(S), NEW x \in S
    PROVE  /\ Ops(Append(s, x)) = Ops(s) \cup {x}
           /\ Append(s, x) # <<>>
           /\ Head(Append(s, x)) = IF s = <<>> THEN x ELSE Head(s)
<1>1. /\ DOMAIN s = 1..Len(s)
      /\ Len(s) \in Nat
      /\ Append(s, x) # <<>>
      /\ DOMAIN Append(s, x) = 1..(Len(s) + 1)
      /\ \A i \in 1..Len(s) : Append(s, x)[i] = s[i]
      /\ Append(s, x)[Len(s) + 1] = x
  BY AppendProperties, LenProperties
<1>2. Head(Append(s, x)) = IF s = <<>> THEN x ELSE Head(s)
  BY HeadTailAppend
<1>3. Ops(Append(s, x)) = Ops(s) \cup {x}
  BY <1>1 DEF Ops
<1> QED
  BY <1>1, <1>2, <1>3

LEMMA OpsNone == Ops(<<>>) = {}
  BY DEF Ops

LEMMA OpsOne == \A x : Ops(Append(<<>>, x)) = {x}
<1> TAKE x
<1>1. Append(<<>>, x) = <<x>>
  OBVIOUS
<1>2. DOMAIN <<x>> = {1} /\ <<x>>[1] = x
  OBVIOUS
<1> QED
  BY <1>1, <1>2 DEF Ops

\* Starting on the next message.
LEMMA OpsMessage ==
    ASSUME NEW ws \in Seq(WriteOps), NEW q \in Seq(Message),
           NEW vs, vs = ws \o WriteHeader(q) \/ (q # <<>> /\ vs = ws \o WriteBody(q))
    PROVE  /\ \A op \in Ops(vs) : op \in Ops(ws) \/ op.chunk.kind # "word"
           /\ ws # <<>> => vs # <<>> /\ Head(vs) = Head(ws)
<1>1. CASE vs = ws
  BY <1>1
<1>2. CASE q # <<>> /\ \E c \in {HeaderChunk(Head(q)), BodyChunk(Head(q))} :
                            vs = ws \o <<Write(c)>>
  <2>1. PICK c \in {HeaderChunk(Head(q)), BodyChunk(Head(q))} : vs = ws \o <<Write(c)>>
    BY <1>2
  <2>2. c \in Chunks /\ c.kind # "word"
    BY <1>2, TailType, ChunkTypes
  <2>3. Write(c) \in WriteOps /\ Write(c).chunk = c
    BY <2>2, OpTypes
  <2>4. vs = Append(ws, Write(c))
    BY <2>1, <2>3, AppendIsConcat
  <2> QED
    BY <2>2, <2>3, <2>4, OpsAppend
<1>3. q = <<>> => ws \o WriteHeader(q) = ws
  BY ConcatEmptySeq DEF WriteHeader
<1> QED
  BY <1>1, <1>2, <1>3 DEF WriteHeader, WriteBody

LEMMA OpsDone ==
    ASSUME NEW ws \in Seq(WriteOps), NEW i \in Waiting(ws)
    PROVE  LET vs == [ws EXCEPT ![i] = [ws[i] EXCEPT !.done = TRUE]]
           IN  /\ \A op \in Ops(vs) : \E p \in Ops(ws) : p.chunk = op.chunk
               /\ ws[i] \in Ops(ws)
<1> DEFINE vs == [ws EXCEPT ![i] = [ws[i] EXCEPT !.done = TRUE]]
<1>1. i \in DOMAIN ws /\ ws[i] \in WriteOps
  BY WaitingProperties
<1>2. DOMAIN vs = DOMAIN ws /\ \A j \in DOMAIN ws : vs[j].chunk = ws[j].chunk
  BY <1>1 DEF WriteOps
<1> HIDE DEF vs
<1>3. \A op \in Ops(vs) : \E p \in Ops(ws) : p.chunk = op.chunk
  BY <1>2 DEF Ops
<1>4. ws[i] \in Ops(ws)
  BY <1>1 DEF Ops
<1> QED
  BY <1>3, <1>4 DEF vs

\* What an end does leaves the other one alone but for the bytes it sends.
LEMMA OtherEnd ==
    ASSUME TypeOK, NEW e \in Ends, NEW f \in Ends, f # e,
           User(e) \/ Transmit(e) \/ Fill(e) \/ Context(e)
    PROVE  /\ posted'[f] = posted[f]
           /\ writes'[f] = writes[f]
           /\ reads'[f] = reads[f]
           /\ outq'[f] = outq[f]
           /\ delivered'[f] = delivered[f]
           /\ hsIn'[f] = hsIn[f]
           /\ hsOut'[f] = hsOut[f]
           /\ sock'[f] = sock[f]
           /\ Transmit(e) \/ wire'[f] = wire[f]
           /\ connecting' = connecting
<1>1. CASE User(e)
  BY <1>1 DEF User, Send, Disconnect, TypeOK, net, handshake
<1>2. CASE Transmit(e)
  BY <1>2 DEF Transmit, TypeOK, net, handshake
<1>3. CASE Fill(e)
  BY <1>3 DEF Fill, TypeOK, net
<1>4. CASE RunSend(e) \/ RunClose(e)
  BY <1>4 DEF RunSend, RunClose, Close, TypeOK, net, handshake
<1>5. CASE OnValidationWritten(e) \/ OnHeaderWritten(e) \/ OnBodyWritten(e) \/ OnWriteFailed(e)
  BY <1>5 DEF OnValidationWritten, OnHeaderWritten, OnBodyWritten, OnWriteFailed, Close,
              TypeOK, net, handshake
<1>6. CASE OnChallengeRead(e) \/ OnAnswerRead(e) \/ OnReadFailed(e)
  BY <1>6 DEF OnChallengeRead, OnAnswerRead, OnReadFailed, Close, TypeOK, net, handshake
<1>7. CASE OnHeaderRead(e) \/ OnBodyRead(e)
  BY <1>7 DEF OnHeaderRead, OnBodyRead, AddToIncomingMessageQueue, TypeOK, net, handshake
<1> QED
  BY <1>1, <1>2, <1>3, <1>4, <1>5, <1>6, <1>7 DEF Context

\* How the writes of an end change when messages are written.
LEMMA MessageWriting ==
    ASSUME ReadingInv, NEW e \in Ends,
           \/ RunSend(e) \/ OnValidationWritten(e) \/ OnHeaderWritten(e)
           \/ OnBodyWritten(e) \/ OnWriteFailed(e)
    PROVE  /\ \A op \in Ops(writes'[e]) : op \in Ops(writes[e]) \/ op.chunk.kind # "word"
           /\ writes[e] # <<>> /\ ~Head(writes[e]).done /\ ~OnWriteFailed(e) =>
                writes'[e] # <<>> /\ Head(writes'[e]) = Head(writes[e])
<1> DEFINE ws == writes[e]
<1>1. /\ ws \in Seq(WriteOps) /\ outq[e] \in Seq(Message) /\ writes[e] = ws
      /\ DOMAIN writes = Ends /\ DOMAIN outq = Ends
  BY SameAtEnd DEF ReadingInv, TypeOK
<1>2. ws # <<>> => Tail(ws) \in Seq(WriteOps) /\ Ops(Tail(ws)) \subseteq Ops(ws)
  BY <1>1, TailType, OpsTail
<1>3. CASE RunSend(e)
  <2>1. /\ outq'[e] \in Seq(Message)
        /\ writes'[e] = IF outq[e] = <<>> THEN ws \o WriteHeader(outq'[e]) ELSE ws
    <3>1. TypeOK'
      BY <1>3, RunSendType DEF ReadingInv
    <3> QED
      BY <1>1, <1>3, <3>1 DEF RunSend, TypeOK
  <2> HIDE DEF ws
  <2>2. CASE outq[e] = <<>>
    BY <1>1, <2>1, <2>2, OpsMessage
  <2>3. CASE outq[e] # <<>>
    BY <1>1, <2>1, <2>3
  <2> QED
    BY <2>2, <2>3
<1>4. CASE OnValidationWritten(e) \/ OnWriteFailed(e)
  <2>1. ws # <<>> /\ writes'[e] = Tail(ws) /\ (Head(ws).done \/ OnWriteFailed(e))
    BY <1>1, <1>4 DEF OnValidationWritten, OnWriteFailed, Written
  <2> QED
    BY <1>1, <1>2, <2>1
<1>5. CASE OnHeaderWritten(e) \/ OnBodyWritten(e)
  <2>1. ws # <<>> /\ Head(ws).done
    BY <1>5 DEF OnHeaderWritten, OnBodyWritten, Written
  <2>2. outq[e] # <<>>
    BY <1>5, WritingFindsFront DEF ReadingInv, HandlersFindFront
  <2>3. Tail(outq[e]) \in Seq(Message)
    BY <1>1, <2>2, TailType
  <2>4. \/ writes'[e] = Tail(ws) \o WriteBody(outq[e])
        \/ writes'[e] = Tail(ws) \o WriteHeader(Tail(outq[e]))
    BY <1>1, <1>5 DEF OnHeaderWritten, OnBodyWritten
  <2>5. \A op \in Ops(writes'[e]) : op \in Ops(Tail(ws)) \/ op.chunk.kind # "word"
    <3>1. CASE writes'[e] = Tail(ws) \o WriteBody(outq[e])
      BY <1>1, <1>2, <2>1, <2>2, <3>1, OpsMessage
    <3>2. CASE writes'[e] = Tail(ws) \o WriteHeader(Tail(outq[e]))
      BY <1>2, <2>1, <2>3, <3>2, OpsMessage
    <3> QED
      BY <2>4, <3>1, <3>2
  <2> QED
    BY <1>2, <2>1, <2>5
<1> QED
  BY <1>3, <1>4, <1>5

\* The read of an end, and the wire, after an operating system's fill.
LEMMA Filled ==
    ASSUME ReadingInv, NEW e \in Ends, Fill(e)
    PROVE  /\ reads[e][1] \in Ops(reads[e])
           /\ ~reads[e][1].done
           /\ wire[e] # <<>>
           /\ \A op \in Ops(reads'[e]) : op.done /\ op.kind = reads[e][1].kind
           /\ reads[e][1].kind # "word" => hsIn'[e] = hsIn[e]
           /\ reads[e][1].kind = "word" =>
                hsIn'[e] = IF Head(wire[e]).kind = "word" THEN Head(wire[e]).word ELSE "other"
<1> DEFINE rs == reads[e]
<1>1. /\ rs \in Seq(ReadOps) /\ wire[e] # <<>> /\ DOMAIN hsIn = Ends /\ DOMAIN reads = Ends
      /\ Len(rs) <= 1
  BY DEF ReadingInv, TypeOK, Reading, ReadOps, Fill
<1>2. PICK i \in Waiting(rs) :
        /\ reads' = [reads EXCEPT ![e][i].done = TRUE]
        /\ rs[i].kind # "word" => hsIn'[e] = hsIn[e]
        /\ rs[i].kind = "word" =>
             hsIn'[e] = IF Head(wire[e]).kind = "word" THEN Head(wire[e]).word ELSE "other"
  BY <1>1 DEF Fill
<1>3. i \in DOMAIN rs /\ rs[i] \in ReadOps /\ ~rs[i].done
  BY <1>1, WaitingProperties DEF Waiting
<1>4. rs # <<>>
  BY <1>3
<1>5. DOMAIN rs = {1} /\ i = 1
  BY <1>1, <1>3, <1>4, ReadsOfOne
<1>6. /\ DOMAIN reads'[e] = {1}
      /\ reads'[e][1] = [rs[1] EXCEPT !.done = TRUE]
  BY <1>1, <1>2, <1>5
<1>7. reads'[e][1].done /\ reads'[e][1].kind = rs[1].kind
  BY <1>3, <1>5, <1>6 DEF ReadOps
<1> QED
  BY <1>1, <1>2, <1>3, <1>5, <1>6, <1>7 DEF Ops

LEMMA ChallengedKept ==
    ASSUME Challenged, hsOut'["server"] = hsOut["server"], hsIn'["client"] = hsIn["client"],
           connecting' # "handled" => connecting # "handled",
           Ops(reads'["client"]) \subseteq Ops(reads["client"]),
           \A op \in Ops(writes'["client"]) :
                op.chunk.kind = "word" => \E p \in Ops(writes["client"]) : p.chunk = op.chunk
    PROVE  Challenged'
  BY DEF Challenged

\* The writes and reads of the client, if it does not act.
LEMMA ServerChallenged ==
    ASSUME TypeOK, Challenged, User("server") \/ Transmit("server") \/ Fill("server")
                                 \/ Context("server")
    PROVE  Challenged'
<1>1. /\ writes'["client"] = writes["client"] /\ reads'["client"] = reads["client"]
      /\ hsIn'["client"] = hsIn["client"] /\ connecting' = connecting
  BY OtherEnd DEF Ends
<1>2. UNCHANGED hsOut
  BY DEF User, Send, Disconnect, Transmit, Fill, Context, RunSend, RunClose,
         OnValidationWritten, OnHeaderWritten, OnBodyWritten, OnWriteFailed,
         OnChallengeRead, OnAnswerRead, OnHeaderRead, OnBodyRead, OnReadFailed, handshake
<1> QED
  BY <1>1, <1>2, ChallengedKept

\* How the client's reads and writes go on.
LEMMA ClientChallenged ==
    ASSUME ChallengeInv, User("client") \/ Transmit("client") \/ Context("client")
    PROVE  Challenged'
<1>1. "client" \in Ends /\ "server" \in Ends
  BY DEF Ends
<1>2. /\ hsOut'["server"] = hsOut["server"] /\ connecting' = connecting
      /\ TypeOK /\ ReadingInv /\ Challenged
  BY <1>1, OtherEnd DEF ChallengeInv, ReadingInv
<1>3. UNCHANGED hsIn
  BY DEF User, Send, Disconnect, Transmit, Context, RunSend, RunClose,
         OnValidationWritten, OnHeaderWritten, OnBodyWritten, OnWriteFailed,
         OnChallengeRead, OnAnswerRead, OnHeaderRead, OnBodyRead, OnReadFailed, handshake
<1> DEFINE rs == reads["client"]
           ws == writes["client"]
<1>4. /\ rs \in Seq(ReadOps) /\ ws \in Seq(WriteOps)
      /\ DOMAIN reads = Ends /\ DOMAIN writes = Ends
  BY <1>1, <1>2, SameAtEnd DEF TypeOK, ReadOps
<1>5. CASE User("client") \/ RunClose("client")
  BY <1>2, <1>3, <1>5, ChallengedKept DEF User, Send, Disconnect, RunClose
<1>6. CASE Transmit("client")
  <2>1. UNCHANGED reads
    BY <1>6 DEF Transmit
  <2>2. PICK i \in Waiting(ws) : writes' = [writes EXCEPT !["client"][i].done = TRUE]
    BY <1>6 DEF Transmit
  <2>3. writes'["client"] = [ws EXCEPT ![i] = [ws[i] EXCEPT !.done = TRUE]]
    BY <1>1, <1>4, <2>2
  <2>4. \A op \in Ops(writes'["client"]) : \E p \in Ops(ws) : p.chunk = op.chunk
    BY <1>4, <2>3, OpsDone
  <2> QED
    BY <1>2, <1>3, <2>1, <2>4, ChallengedKept
<1>7. CASE RunSend("client") \/ OnHeaderWritten("client") \/ OnBodyWritten("client")
            \/ OnWriteFailed("client")
  <2>1. UNCHANGED reads
    BY <1>7 DEF RunSend, OnHeaderWritten, OnBodyWritten, OnWriteFailed
  <2>2. \A op \in Ops(writes'["client"]) : op \in Ops(ws) \/ op.chunk.kind # "word"
    BY <1>1, <1>2, <1>7, MessageWriting
  <2> QED
    BY <1>2, <1>3, <2>1, <2>2, ChallengedKept
<1>8. CASE OnValidationWritten("client")
  <2>1. \A op \in Ops(writes'["client"]) : op \in Ops(ws) \/ op.chunk.kind # "word"
    BY <1>1, <1>2, <1>8, MessageWriting
  <2>2. ws # <<>> /\ Head(ws).chunk.kind = "word"
    BY <1>8 DEF OnValidationWritten, Written
  <2>3. Head(ws) \in Ops(ws)
    BY <1>4, <2>2, OpsTail
  <2>4. hsIn["client"] = "challenge"
    BY <1>2, <2>2, <2>3 DEF Challenged
  <2>5. Read("header") \in ReadOps /\ Read("header").kind = "header"
    BY OpTypes
  <2>6. reads'["client"] = Append(rs, Read("header"))
    BY <1>1, <1>4, <1>8 DEF OnValidationWritten
  <2>7. Ops(reads'["client"]) = Ops(rs) \cup {Read("header")}
    BY <1>4, <2>5, <2>6, OpsAppend
  <2> QED
    BY <1>2, <1>3, <2>1, <2>4, <2>5, <2>7 DEF Challenged
<1>9. CASE OnChallengeRead("client")
  <2>1. rs # <<>> /\ Head(rs).done
    BY <1>9 DEF OnChallengeRead, ReadDone
  <2>2. Ops(Tail(rs)) \subseteq Ops(rs) /\ Head(rs) \in Ops(rs)
    BY <1>4, <2>1, OpsTail
  <2>3. hsIn["client"] = "challenge"
    BY <1>2, <2>1, <2>2 DEF Challenged
  <2>4. hsOut'["client"] = "answer"
    BY <1>1, <1>2, <1>9, <2>3 DEF OnChallengeRead, Scramble, TypeOK
  <2>5. WordChunk("answer") \in Chunks
    BY ChunkTypes DEF Words
  <2>6. /\ Write(WordChunk("answer")) \in WriteOps
        /\ Write(WordChunk("answer")).chunk = WordChunk("answer")
    BY <2>5, OpTypes
  <2>7. /\ writes'["client"] = Append(ws, Write(WordChunk("answer")))
        /\ reads'["client"] = Tail(rs)
    BY <1>1, <1>4, <1>9, <2>4 DEF OnChallengeRead
  <2>8. Ops(writes'["client"]) = Ops(ws) \cup {Write(WordChunk("answer"))}
    BY <1>4, <2>6, <2>7, OpsAppend
  <2> QED
    BY <1>2, <1>3, <2>2, <2>3, <2>6, <2>7, <2>8 DEF Challenged
<1>10. CASE OnHeaderRead("client") \/ OnBodyRead("client")
  <2>1. rs # <<>> /\ Head(rs).done /\ UNCHANGED writes
    BY <1>10 DEF OnHeaderRead, OnBodyRead, ReadDone
  <2>2. Ops(Tail(rs)) \subseteq Ops(rs) /\ Head(rs) \in Ops(rs) /\ Tail(rs) \in Seq(ReadOps)
    BY <1>4, <2>1, OpsTail, TailType
  <2>3. hsIn["client"] = "challenge"
    BY <1>2, <2>1, <2>2 DEF Challenged
  <2>4. PICK k \in {"header", "body"} : reads'["client"] = Append(Tail(rs), Read(k))
    BY <1>1, <1>4, <1>10 DEF OnHeaderRead, OnBodyRead, AddToIncomingMessageQueue
  <2>5. Read(k) \in ReadOps /\ Read(k).kind # "word"
    BY OpTypes
  <2>6. Ops(reads'["client"]) = Ops(Tail(rs)) \cup {Read(k)}
    <3> DEFINE rest == Tail(rs)
               x == Read(k)
    <3>1. rest \in Seq(ReadOps) /\ x \in ReadOps /\ reads'["client"] = Append(rest, x)
      BY <2>2, <2>4, <2>5
    <3> HIDE DEF rest, x
    <3>2. Ops(Append(rest, x)) = Ops(rest) \cup {x}
      BY <3>1, OpsAppend
    <3> QED
      BY <3>1, <3>2 DEF rest, x
  <2> QED
    BY <1>2, <1>3, <2>1, <2>2, <2>3, <2>5, <2>6 DEF Challenged
<1>11. CASE OnReadFailed("client")
  <2>1. rs # <<>> /\ UNCHANGED writes /\ reads'["client"] = Tail(rs)
    BY <1>1, <1>4, <1>11 DEF OnReadFailed
  <2>2. Ops(reads'["client"]) \subseteq Ops(rs)
    BY <1>4, <2>1, OpsTail
  <2> QED
    BY <1>2, <1>3, <2>1, <2>2, ChallengedKept
<1> QED
  BY <1>5, <1>6, <1>7, <1>8, <1>9, <1>10, <1>11 DEF Context, OnAnswerRead

\* Who connects, or loses the link, has not sent or received anything by that.
LEMMA ConnectHandshake ==
    ASSUME ChallengeInv,
           ConnectToServer \/ TcpEstablish \/ ConnectFailed \/ LoseLink \/ UNCHANGED vars
    PROVE  Challenged' /\ ChallengeFirst' /\ (AnswerFirst => AnswerFirst')
<1>1. /\ UNCHANGED <<wire, posted, writes, reads, outq, hsIn, hsOut, delivered>>
      /\ sock'["server"] = sock["server"]
      /\ sock'["client"] = "closed" <=> sock["client"] = "closed"
      /\ connecting' # "handled" => connecting # "handled"
  BY DEF ChallengeInv, ReadingInv, TypeOK, Reading, Ends, ConnectToServer, TcpEstablish,
         ConnectFailed, LoseLink, handshake, vars
<1>2. Challenged'
  BY <1>1 DEF ChallengeInv, Challenged
<1>3. ChallengeFirst'
  BY <1>1 DEF ChallengeInv, ChallengeFirst
<1>4. AnswerFirst => AnswerFirst'
  BY <1>1 DEF ChallengeInv, AnswerFirst, AnswerSent, NothingToSend
<1> QED
  BY <1>2, <1>3, <1>4

LEMMA ConnectedHandshake ==
    ASSUME ChallengeInv, OnConnected
    PROVE  Challenged' /\ ChallengeFirst' /\ (AnswerFirst => AnswerFirst')
<1>1. UNCHANGED <<sock, wire, posted, writes, outq, hsIn, hsOut, delivered>>
  BY DEF OnConnected, handshake
<1>2. /\ hsIn["client"] = "zero" /\ reads["client"] = <<>>
      /\ connecting' = "handled"
      /\ \A op \in Ops(writes["client"]) : op.chunk.kind # "word"
  BY DEF ChallengeInv, ReadingInv, Reading, Challenged, OnConnected
<1>3. /\ \A op \in Ops(reads'["client"]) : op = Read("word")
      /\ reads'["server"] = reads["server"]
  <2>1. reads["client"] \in Seq(ReadOps) /\ reads["client"] = <<>> /\ Read("word") \in ReadOps
    BY <1>2, OpTypes, EmptySeq
  <2>2. /\ reads'["client"] \in {<<>>, Append(<<>>, Read("word"))}
        /\ reads'["server"] = reads["server"]
    BY <1>2 DEF ChallengeInv, ReadingInv, TypeOK, OnConnected, Ends
  <2>3. Ops(Append(<<>>, Read("word"))) = {Read("word")}
    BY <2>1, Singleton, OpsOne
  <2> QED
    BY <2>2, <2>3, OpsNone
<1>4. Read("word").kind = "word" /\ ~Read("word").done
  BY DEF Read
<1>5. Challenged'
  BY <1>1, <1>2, <1>3, <1>4 DEF ChallengeInv, Challenged
<1>6. ChallengeFirst'
  BY <1>1 DEF ChallengeInv, ChallengeFirst
<1>7. AnswerFirst => AnswerFirst'
  BY <1>1, <1>3, <1>4 DEF ChallengeInv, AnswerFirst, AnswerSent, NothingToSend
<1> QED
  BY <1>5, <1>6, <1>7

LEMMA AcceptHandshake ==
    ASSUME ChallengeInv, AcceptClient
    PROVE  Challenged' /\ ChallengeFirst' /\ (AnswerFirst => AnswerFirst')
<1>1. /\ UNCHANGED <<wire, outq, connecting, hsIn, hsOut, delivered>>
      /\ sock["server"] = "none" /\ sock'["server"] = "open"
      /\ posted'["client"] = posted["client"]
      /\ reads'["client"] = reads["client"]
      /\ writes'["client"] = writes["client"]
  BY DEF ChallengeInv, ReadingInv, TypeOK, Ends, AcceptClient, net, handshake
<1>2. /\ writes["server"] = <<>> /\ reads["server"] = <<>>
      /\ AnswerFirst => hsIn["server"] = "zero"
      /\ hsOut["server"] = "challenge"
  BY <1>1 DEF ChallengeInv, ReadingInv, Reading, Challenged, ChallengeFirst, AnswerFirst
<1> DEFINE c == Write(WordChunk("challenge"))
<1>3. c \in WriteOps /\ Read("word") \in ReadOps
  BY ChunkTypes, OpTypes DEF Words
<1>4. /\ writes'["server"] = Append(<<>>, c)
      /\ reads'["server"] = Append(<<>>, Read("word"))
  BY <1>2 DEF ChallengeInv, ReadingInv, TypeOK, Ends, AcceptClient
<1> HIDE DEF c
<1>5. writes'["server"] # <<>> /\ Head(writes'["server"]) = c
  BY <1>3, <1>4, OpsAppend, EmptySeq
<1>6. Challenged'
  BY <1>1 DEF ChallengeInv, Challenged
<1>7. ChallengeFirst'
  BY <1>1, <1>5 DEF ChallengeInv, ChallengeFirst, c
<1>8. AnswerFirst => AnswerFirst'
  BY <1>1, <1>2 DEF ChallengeInv, AnswerFirst, AnswerSent, NothingToSend
<1> QED
  BY <1>6, <1>7, <1>8

LEMMA UserHandshake ==
    ASSUME ChallengeInv, NEW e \in Ends, User(e)
    PROVE  ChallengeFirst' /\ (WaitForAccept /\ AnswerFirst => AnswerFirst')
<1>1. UNCHANGED <<sock, wire, writes, reads, outq, hsIn, hsOut, delivered>>
  BY DEF User, Send, Disconnect, handshake
<1>2. TypeOK /\ "client" \in Ends /\ "server" \in Ends
  BY DEF ChallengeInv, ReadingInv, Ends
<1>3. sock["server"] = "none" => posted'["server"] = posted["server"]
  <2>1. CASE e = "server"
    BY <2>1 DEF User, Send, Disconnect, IsConnected
  <2>2. CASE e = "client"
    BY <1>2, <2>2, OtherEnd
  <2> QED
    BY <2>1, <2>2 DEF Ends
<1>4. WaitForAccept /\ NothingToSend => NothingToSend'
  <2> SUFFICES ASSUME WaitForAccept, NothingToSend
               PROVE  \A p \in Ops(posted'["client"]) : p.op = "close"
    BY <1>1 DEF NothingToSend
  <2>1. CASE e = "server"
    <3>1. posted'["client"] = posted["client"]
      BY <1>2, <2>1, OtherEnd
    <3> QED
      BY <3>1 DEF NothingToSend
  <2>2. CASE e = "client"
    <3> DEFINE close == [op |-> "close"]
    <3>1. posted'["client"] = Append(posted["client"], close)
      BY <1>2, <2>2 DEF User, Send, Disconnect, NothingToSend, TypeOK
    <3>2. posted["client"] \in Seq(Posts) /\ close \in Posts
      BY <1>2 DEF TypeOK, Posts
    <3> HIDE DEF close
    <3>3. Ops(posted'["client"]) = Ops(posted["client"]) \cup {close}
      BY <3>1, <3>2, OpsAppend
    <3> QED
      BY <3>3 DEF NothingToSend, close
  <2> QED
    BY <2>1, <2>2 DEF Ends
<1>5. ChallengeFirst'
  BY <1>1, <1>3 DEF ChallengeInv, ChallengeFirst
<1>6. WaitForAccept /\ AnswerFirst => AnswerFirst'
  BY <1>1, <1>4 DEF ChallengeInv, AnswerFirst, AnswerSent
<1> QED
  BY <1>5, <1>6

\* The oldest write that is not done is the first one, if that is not done.
LEMMA WaitingFirst ==
    ASSUME NEW S, NEW s \in Seq(S), NEW i \in Waiting(s), ~Head(s).done
    PROVE  s[i] = Head(s)
<1>1. i \in 1..Len(s) /\ Len(s) \in Nat /\ \A j \in 1..(i - 1) : s[j].done
  BY WaitingProperties, LenProperties DEF Waiting
<1>2. s # <<>>
  BY <1>1
<1>3. Head(s) = s[1]
  BY <1>2, HeadTailProperties
<1>4. i # 1 => 1 \in 1..(i - 1)
  BY <1>1
<1> QED
  BY <1>1, <1>3, <1>4

LEMMA TransmitHandshake ==
    ASSUME ChallengeInv, NEW e \in Ends, Transmit(e)
    PROVE  ChallengeFirst' /\ (AnswerFirst => AnswerFirst')
<1>1. /\ UNCHANGED <<sock, posted, reads, outq, hsIn, hsOut, delivered>>
      /\ sock[e] = "open"
  BY DEF Transmit, handshake, IsConnected
<1>2. TypeOK /\ "client" \in Ends /\ "server" \in Ends
      /\ Peer("client") = "server" /\ Peer("server") = "client"
  BY DEF ChallengeInv, ReadingInv, Ends, Peer
<1> DEFINE ws == writes[e]
           ch == wire[Peer(e)]
<1>3. ws \in Seq(WriteOps) /\ ch \in Seq(Chunks)
  BY <1>2, SameAtEnd DEF TypeOK, Ends, Peer
<1>4. PICK i \in Waiting(ws) :
        /\ writes' = [writes EXCEPT ![e][i].done = TRUE]
        /\ wire' = IF sock[Peer(e)] = "closed" THEN wire
                   ELSE [wire EXCEPT ![Peer(e)] = Append(ch, ws[i].chunk)]
  BY DEF Transmit
<1>5. ws[i] \in WriteOps /\ ws[i].chunk \in Chunks
  <2>1. ws[i] \in WriteOps
    BY <1>3, WaitingProperties
  <2> QED
    BY <2>1 DEF WriteOps
<1>6. sock[Peer(e)] # "closed" =>
        /\ wire'[Peer(e)] # <<>>
        /\ Head(wire'[Peer(e)]) = IF ch = <<>> THEN ws[i].chunk ELSE Head(ch)
  <2> DEFINE x == ws[i].chunk
  <2>1. sock[Peer(e)] # "closed" => wire'[Peer(e)] = Append(ch, x)
    BY <1>2, <1>4 DEF TypeOK, Ends
  <2>2. x \in Chunks
    BY <1>5
  <2> HIDE DEF x, ch
  <2>3. Append(ch, x) # <<>> /\ Head(Append(ch, x)) = IF ch = <<>> THEN x ELSE Head(ch)
    BY <1>3, <2>2, OpsAppend
  <2> QED
    BY <2>1, <2>3 DEF x
<1>7. /\ sock[Peer(e)] = "closed" => wire' = wire
      /\ wire'[e] = wire[e]
      /\ writes'[Peer(e)] = writes[Peer(e)]
  BY <1>2, <1>4 DEF TypeOK, Ends
<1>8. CASE e = "server"
  <2>1. ASSUME hsIn["client"] = "zero", wire["client"] = <<>>, sock["client"] # "closed"
        PROVE  ws[i].chunk = WordChunk("challenge")
    <3>1. Head(ws) = Write(WordChunk("challenge"))
      BY <1>1, <1>8, <2>1 DEF ChallengeInv, ChallengeFirst
    <3>2. ~Head(ws).done /\ Head(ws).chunk = WordChunk("challenge")
      BY <3>1 DEF Write
    <3>3. ws[i] = Head(ws)
      BY <1>3, <3>2, WaitingFirst
    <3> QED
      BY <3>2, <3>3
  <2>2. ChallengeFirst'
    BY <1>1, <1>2, <1>6, <1>7, <1>8, <2>1 DEF ChallengeInv, ChallengeFirst
  <2>3. AnswerFirst => AnswerFirst'
    BY <1>1, <1>2, <1>7, <1>8 DEF ChallengeInv, AnswerFirst, AnswerSent, NothingToSend
  <2> QED
    BY <2>2, <2>3
<1>9. CASE e = "client"
  <2>1. ChallengeFirst'
    BY <1>1, <1>2, <1>7, <1>9 DEF ChallengeInv, ChallengeFirst
  <2>2. ASSUME AnswerFirst, hsIn["server"] = "zero", wire["server"] = <<>>,
               sock["server"] # "closed"
        PROVE  ws[i].chunk = WordChunk("answer")
    <3>1. NothingToSend
      BY <2>2 DEF ChallengeInv, AnswerFirst, AnswerSent
    <3>2. ws[i] \in Ops(writes["client"])
      BY <1>3, <1>9, OpsDone
    <3> QED
      BY <3>1, <3>2 DEF NothingToSend, ChallengeInv, Challenged
  <2>3. AnswerSent'
    BY <1>1, <1>2, <1>6, <1>9 DEF AnswerSent
  <2>4. AnswerFirst => AnswerFirst'
    BY <1>1, <1>2, <1>6, <1>7, <1>9, <2>2, <2>3 DEF ChallengeInv, AnswerFirst
  <2> QED
    BY <2>1, <2>4
<1> QED
  BY <1>8, <1>9 DEF Ends

LEMMA FillHandshake ==
    ASSUME ChallengeInv, NEW e \in Ends, Fill(e)
    PROVE  Challenged' /\ ChallengeFirst' /\ (AnswerFirst => AnswerFirst')
<1>1. /\ UNCHANGED <<sock, posted, writes, outq, hsOut, delivered, connecting>>
      /\ sock[e] = "open"
      /\ reads[e] # <<>>
  BY DEF Fill, net, IsConnected, Waiting
<1>2. TypeOK /\ ReadingInv /\ "client" \in Ends /\ "server" \in Ends
  BY DEF ChallengeInv, ReadingInv, Ends
<1>3. \A w \in Words : WordChunk(w).kind = "word" /\ WordChunk(w).word = w
  BY DEF WordChunk
<1>4. wire' = [wire EXCEPT ![e] = Tail(@)]
  BY DEF Fill
<1>5. CASE e = "client"
  <2>1. /\ reads'["server"] = reads["server"]
        /\ hsIn'["server"] = hsIn["server"]
        /\ wire'["server"] = wire["server"]
    BY <1>2, <1>4, <1>5, OtherEnd DEF TypeOK, Fill
  <2>2. connecting = "handled"
    BY <1>1, <1>2, <1>5, OnlyRead
  <2>3. hsIn'["client"] = "challenge"
    <3>1. CASE reads["client"][1].kind = "word"
      <4>1. hsIn["client"] = "zero" /\ wire["client"] # <<>>
        BY <1>2, <1>5, <3>1, Filled DEF ChallengeInv, Challenged
      <4>2. Head(wire["client"]) = WordChunk("challenge")
        BY <4>1 DEF ChallengeInv, ChallengeFirst
      <4> QED
        BY <1>2, <1>3, <1>5, <3>1, <4>2, Filled DEF Words
    <3>2. CASE reads["client"][1].kind # "word"
      BY <1>2, <1>5, <3>2, Filled DEF ChallengeInv, Challenged
    <3> QED
      BY <3>1, <3>2
  <2>4. \A op \in Ops(reads'["client"]) : op.done /\ op.kind = reads["client"][1].kind
    BY <1>2, <1>5, Filled
  <2>5. Challenged'
    BY <1>1, <2>2, <2>3, <2>4 DEF ChallengeInv, Challenged
  <2>6. ChallengeFirst'
    BY <1>1, <2>3 DEF ChallengeInv, ChallengeFirst
  <2>7. AnswerFirst => AnswerFirst'
    <3>1. NothingToSend => NothingToSend'
      BY <1>1, <1>2, <1>5, <2>4, Filled DEF NothingToSend
    <3> QED
      BY <1>1, <2>1, <3>1 DEF ChallengeInv, AnswerFirst, AnswerSent
  <2> QED
    BY <2>5, <2>6, <2>7
<1>6. CASE e = "server"
  <2>1. /\ reads'["client"] = reads["client"]
        /\ hsIn'["client"] = hsIn["client"]
        /\ wire'["client"] = wire["client"]
    BY <1>2, <1>4, <1>6, OtherEnd DEF TypeOK, Fill
  <2>2. ASSUME AnswerFirst PROVE hsIn'["server"] = "answer"
    <3>1. CASE reads["server"][1].kind = "word"
      <4>1. hsIn["server"] = "zero" /\ wire["server"] # <<>>
        BY <1>2, <1>6, <2>2, <3>1, Filled DEF AnswerFirst
      <4>2. Head(wire["server"]) = WordChunk("answer")
        BY <2>2, <4>1 DEF AnswerFirst
      <4> QED
        BY <1>2, <1>3, <1>6, <3>1, <4>2, Filled DEF Words
    <3>2. CASE reads["server"][1].kind # "word"
      <4>1. 1 \in DOMAIN reads["server"]
        BY <1>1, <1>2, <1>6, OnlyRead
      <4>2. hsIn["server"] = m_nHandshakeCheck
        BY <1>2, <3>2, <4>1 DEF ReadingInv, Validated, OnlyValidatedHeard
      <4> QED
        BY <1>2, <1>6, <3>2, <4>2, Filled DEF m_nHandshakeCheck, Scramble
    <3> QED
      BY <3>1, <3>2
  <2>3. \A op \in Ops(reads'["server"]) : op.done
    BY <1>2, <1>6, Filled
  <2>4. Challenged'
    BY <1>1, <2>1 DEF ChallengeInv, Challenged
  <2>5. ChallengeFirst'
    BY <1>1, <2>1 DEF ChallengeInv, ChallengeFirst
  <2>6. AnswerFirst => AnswerFirst'
    BY <1>1, <1>6, <2>2, <2>3 DEF AnswerFirst, AnswerSent
  <2> QED
    BY <2>4, <2>5, <2>6
<1> QED
  BY <1>5, <1>6 DEF Ends

\* What the thread of the server's io_context does needs an accepted connection.
LEMMA ServerHandshake ==
    ASSUME ChallengeInv, Context("server")
    PROVE  ChallengeFirst' /\ (AnswerFirst => AnswerFirst')
<1>1. /\ TypeOK /\ ReadingInv /\ "client" \in Ends /\ "server" \in Ends
      /\ "server" # "client"
  BY DEF ChallengeInv, ReadingInv, Ends
<1>2. /\ posted'["client"] = posted["client"]
      /\ writes'["client"] = writes["client"]
      /\ reads'["client"] = reads["client"]
      /\ outq'["client"] = outq["client"]
      /\ delivered'["client"] = delivered["client"]
      /\ hsIn'["client"] = hsIn["client"]
      /\ sock'["client"] = sock["client"]
  BY <1>1, OtherEnd
<1>3. posted["server"] # <<>> \/ writes["server"] # <<>> \/ reads["server"] # <<>>
  BY DEF Context, RunSend, RunClose, OnValidationWritten, OnHeaderWritten, OnBodyWritten,
     OnWriteFailed, OnChallengeRead, OnAnswerRead, OnHeaderRead, OnBodyRead, OnReadFailed,
     Written, ReadDone
<1>4. sock["server"] # "none"
  BY <1>1, <1>3 DEF ChallengeInv, ReadingInv, Reading, ChallengeFirst
<1>5. \/ UNCHANGED <<sock, wire>>
      \/ /\ sock'["server"] = "closed" /\ wire'["server"] = <<>>
         /\ wire'["client"] = wire["client"]
  BY <1>1 DEF TypeOK, Context, RunSend, RunClose, Close, OnValidationWritten,
     OnHeaderWritten, OnBodyWritten, OnWriteFailed, OnChallengeRead, OnAnswerRead,
     OnHeaderRead, OnBodyRead, OnReadFailed
<1>6. UNCHANGED hsIn
  BY DEF Context, RunSend, RunClose, OnValidationWritten,
     OnHeaderWritten, OnBodyWritten, OnWriteFailed, OnChallengeRead, OnAnswerRead,
     OnHeaderRead, OnBodyRead, OnReadFailed, handshake
<1>7. ASSUME sock'["server"] = "open", writes["server"] # <<>>, ~Head(writes["server"]).done
      PROVE  writes'["server"] # <<>> /\ Head(writes'["server"]) = Head(writes["server"])
  <2>1. ~OnWriteFailed("server")
    BY <1>1, <1>7 DEF OnWriteFailed, Close, TypeOK
  <2>2. CASE RunSend("server") \/ OnValidationWritten("server")
              \/ OnHeaderWritten("server") \/ OnBodyWritten("server")
    BY <1>1, <1>7, <2>1, <2>2, MessageWriting
  <2>3. CASE UNCHANGED writes
    BY <1>7, <2>3
  <2> QED
    BY <1>1, <2>1, <2>2, <2>3 DEF Context, RunClose, OnChallengeRead, OnAnswerRead,
       OnHeaderRead, OnBodyRead, OnReadFailed
<1>8. ChallengeFirst'
  <2>1. sock'["server"] # "none"
    BY <1>4, <1>5
  <2>2. sock'["server"] = "open" => sock["server"] = "open"
    BY <1>5
  <2>3. Write(WordChunk("challenge")).done = FALSE
    BY DEF Write
  <2> QED
    BY <1>2, <1>5, <1>7, <2>1, <2>2, <2>3 DEF ChallengeInv, ChallengeFirst
<1>9. \A op \in Ops(reads'["server"]) : op.kind = "word" => op \in Ops(reads["server"])
  <2> DEFINE rs == reads["server"]
  <2>1. rs \in Seq(ReadOps)
    BY <1>1 DEF TypeOK, ReadOps
  <2>2. CASE UNCHANGED reads
    BY <2>2
  <2>3. CASE ~UNCHANGED reads
    <3>1. /\ rs # <<>>
          /\ \/ reads'["server"] = Tail(rs)
             \/ \E k \in {"header", "body"} : reads'["server"] = Append(Tail(rs), Read(k))
      BY <1>1, <2>3 DEF TypeOK, Context, RunSend, RunClose, OnValidationWritten,
         OnHeaderWritten, OnBodyWritten, OnWriteFailed, OnChallengeRead, OnAnswerRead,
         OnHeaderRead, OnBodyRead, OnReadFailed, ReadDone, AddToIncomingMessageQueue
    <3>2. Tail(rs) = <<>>
      BY <1>1, <3>1, OnlyRead
    <3>3. \A k \in {"header", "body"} : Ops(Append(<<>>, Read(k))) = {Read(k)}
      BY OpsOne
    <3>4. \A k \in {"header", "body"} : Read(k).kind # "word"
      BY OpTypes
    <3> QED
      BY <3>1, <3>2, <3>3, <3>4, OpsNone
  <2> QED
    BY <2>2, <2>3
<1>10. AnswerFirst => AnswerFirst'
  <2>1. AnswerSent => AnswerSent'
    BY <1>5, <1>6 DEF AnswerSent
  <2>2. NothingToSend => NothingToSend'
    BY <1>2 DEF NothingToSend
  <2>3. sock'["server"] # "none"
    BY <1>4, <1>5
  <2>4. wire'["server"] = wire["server"] \/ wire'["server"] = <<>>
    BY <1>5
  <2> QED
    BY <1>6, <1>9, <2>1, <2>2, <2>3, <2>4 DEF ChallengeInv, AnswerFirst
<1> QED
  BY <1>8, <1>10

\* The client's thread has nothing to send but the answer, until it is sent.
LEMMA SilentClient ==
    ASSUME ChallengeInv, NothingToSend, Context("client")
    PROVE  NothingToSend'
<1> DEFINE rs == reads["client"]
           ws == writes["client"]
           ps == posted["client"]
<1>1. /\ TypeOK /\ "client" \in Ends
      /\ rs \in Seq(ReadOps) /\ ws \in Seq(WriteOps) /\ ps \in Seq(Posts)
  BY SameAtEnd DEF ChallengeInv, ReadingInv, TypeOK, Ends, ReadOps
<1>2. /\ rs # <<>> => Head(rs) \in Ops(rs) /\ Ops(Tail(rs)) \subseteq Ops(rs)
      /\ ws # <<>> => Head(ws) \in Ops(ws) /\ Ops(Tail(ws)) \subseteq Ops(ws)
      /\ ps # <<>> => Head(ps) \in Ops(ps) /\ Ops(Tail(ps)) \subseteq Ops(ps)
  BY <1>1, OpsTail
<1>3. /\ rs # <<>> => Head(rs).kind = "word"
      /\ ws # <<>> => ~Head(ws).done
      /\ ps # <<>> => Head(ps).op # "send"
  BY <1>2 DEF NothingToSend
<1>4. RunClose("client") \/ OnWriteFailed("client") \/ OnChallengeRead("client")
        \/ OnReadFailed("client")
  BY <1>3 DEF Context, RunSend, OnValidationWritten, OnHeaderWritten, OnBodyWritten,
     OnAnswerRead, OnHeaderRead, OnBodyRead, Written, ReadDone
<1>5. UNCHANGED <<outq, delivered>>
  BY <1>4 DEF RunClose, OnWriteFailed, OnChallengeRead, OnReadFailed
<1>6. CASE RunClose("client")
  <2>1. UNCHANGED <<reads, writes>> /\ ps # <<>> /\ posted'["client"] = Tail(ps)
    BY <1>1, <1>6 DEF RunClose, TypeOK
  <2> QED
    BY <1>2, <1>5, <2>1 DEF NothingToSend
<1>7. CASE OnWriteFailed("client")
  <2>1. UNCHANGED <<reads, posted>> /\ ws # <<>> /\ writes'["client"] = Tail(ws)
    BY <1>1, <1>7 DEF OnWriteFailed, TypeOK
  <2> QED
    BY <1>2, <1>5, <2>1 DEF NothingToSend
<1>8. CASE OnReadFailed("client")
  <2>1. UNCHANGED <<writes, posted>> /\ rs # <<>> /\ reads'["client"] = Tail(rs)
    BY <1>1, <1>8 DEF OnReadFailed, TypeOK
  <2> QED
    BY <1>2, <1>5, <2>1 DEF NothingToSend
<1>9. CASE OnChallengeRead("client")
  <2> DEFINE op == Write(WordChunk(hsOut'["client"]))
  <2>1. UNCHANGED posted /\ rs # <<>> /\ reads'["client"] = Tail(rs)
    BY <1>1, <1>9 DEF OnChallengeRead, ReadDone, TypeOK
  <2>2. hsOut'["client"] \in Words
    BY <1>1, <1>9, ScrambleType DEF OnChallengeRead, TypeOK
  <2>3. op \in WriteOps /\ op.chunk.kind = "word" /\ ~op.done
    BY <2>2, ChunkTypes, OpTypes DEF Write
  <2>4. writes'["client"] = Append(ws, op)
    BY <1>1, <1>9 DEF OnChallengeRead, TypeOK
  <2> HIDE DEF op
  <2>5. Ops(writes'["client"]) = Ops(ws) \cup {op}
    BY <1>1, <2>3, <2>4, OpsAppend
  <2> QED
    BY <1>2, <1>5, <2>1, <2>3, <2>5 DEF NothingToSend
<1> QED
  BY <1>4, <1>6, <1>7, <1>8, <1>9

LEMMA ClientHandshake ==
    ASSUME ChallengeInv, Context("client")
    PROVE  ChallengeFirst' /\ (AnswerFirst => AnswerFirst')
<1>1. TypeOK /\ "client" \in Ends /\ "server" \in Ends
  BY DEF ChallengeInv, ReadingInv, Ends
<1>2. /\ posted'["server"] = posted["server"]
      /\ writes'["server"] = writes["server"]
      /\ reads'["server"] = reads["server"]
      /\ sock'["server"] = sock["server"]
      /\ wire'["server"] = wire["server"]
  BY <1>1, OtherEnd DEF Context, RunSend, RunClose, Close, OnValidationWritten,
     OnHeaderWritten, OnBodyWritten, OnWriteFailed, OnChallengeRead, OnAnswerRead,
     OnHeaderRead, OnBodyRead, OnReadFailed, TypeOK
<1>3. \/ UNCHANGED <<sock, wire>>
      \/ sock'["client"] = "closed" /\ wire'["client"] = <<>>
  BY <1>1 DEF TypeOK, Context, RunSend, RunClose, Close, OnValidationWritten,
     OnHeaderWritten, OnBodyWritten, OnWriteFailed, OnChallengeRead, OnAnswerRead,
     OnHeaderRead, OnBodyRead, OnReadFailed
<1>4. UNCHANGED hsIn
  BY DEF Context, RunSend, RunClose, OnValidationWritten,
     OnHeaderWritten, OnBodyWritten, OnWriteFailed, OnChallengeRead, OnAnswerRead,
     OnHeaderRead, OnBodyRead, OnReadFailed, handshake
<1>5. ChallengeFirst'
  BY <1>2, <1>3, <1>4 DEF ChallengeInv, ChallengeFirst
<1>6. AnswerFirst => AnswerFirst'
  BY <1>2, <1>4, SilentClient DEF ChallengeInv, AnswerFirst, AnswerSent
<1> QED
  BY <1>5, <1>6

LEMMA InitHandshakeInv == Init => HandshakeInv
<1> SUFFICES ASSUME Init PROVE HandshakeInv
  OBVIOUS
<1>1. \A e \in Ends : /\ writes[e] = <<>> /\ reads[e] = <<>> /\ outq[e] = <<>>
                      /\ delivered[e] = <<>> /\ posted[e] = <<>> /\ wire[e] = <<>>
                      /\ hsIn[e] = "zero" /\ sock[e] = "none"
  BY DEF Init
<1>2. "client" \in Ends /\ "server" \in Ends
  BY DEF Ends
<1>3. Challenged
  BY <1>1, <1>2, OpsNone DEF Init, Challenged
<1>4. ChallengeFirst
  BY <1>1, <1>2 DEF ChallengeFirst
<1>5. AnswerFirst
  BY <1>1, <1>2, OpsNone DEF AnswerFirst, NothingToSend
<1> QED
  BY <1>3, <1>4, <1>5, InitReadingInv DEF HandshakeInv, ChallengeInv

LEMMA StepChallengeInv ==
    ASSUME ChallengeInv, [Next]_vars
    PROVE  ChallengeInv' /\ (WaitForAccept /\ AnswerFirst => AnswerFirst')
<1>1. ReadingInv' /\ TypeOK
  BY StepReadingInv DEF ChallengeInv, ReadingInv
<1>2. CASE ConnectToServer \/ TcpEstablish \/ ConnectFailed \/ LoseLink \/ UNCHANGED vars
  BY <1>1, <1>2, ConnectHandshake DEF ChallengeInv
<1>3. CASE OnConnected
  BY <1>1, <1>3, ConnectedHandshake DEF ChallengeInv
<1>4. CASE AcceptClient
  BY <1>1, <1>4, AcceptHandshake DEF ChallengeInv
<1>5. ASSUME NEW e \in Ends, User(e) \/ Transmit(e) \/ Fill(e) \/ Context(e)
      PROVE  ChallengeInv' /\ (WaitForAccept /\ AnswerFirst => AnswerFirst')
  <2>1. CASE User(e) \/ Transmit(e) \/ Context(e)
    <3>1. Challenged'
      BY <1>1, <2>1, ServerChallenged, ClientChallenged DEF ChallengeInv, Ends
    <3>2. ChallengeFirst' /\ (WaitForAccept /\ AnswerFirst => AnswerFirst')
      BY <2>1, UserHandshake, TransmitHandshake, ServerHandshake, ClientHandshake DEF Ends
    <3> QED
      BY <1>1, <3>1, <3>2 DEF ChallengeInv
  <2>2. CASE Fill(e)
    BY <1>1, <2>2, FillHandshake DEF ChallengeInv
  <2> QED
    BY <1>5, <2>1, <2>2
<1> QED
  BY <1>2, <1>3, <1>4, <1>5 DEF Next

LEMMA AlwaysHandshakeInv == ASSUME WaitForAccept PROVE Spec => []HandshakeInv
<1>1. HandshakeInv /\ [Next]_vars => HandshakeInv'
  BY StepChallengeInv DEF HandshakeInv
<1> QED
  BY <1>1, InitHandshakeInv, PTL DEF Spec

-----------------------------------------------------------------------------
(* The theorems.                                                           *)

\* The variables keep their types: in particular, no handler of a completed
\* write takes the front of an empty m_qMessagesOut.
THEOREM TypeCorrect == Spec => []TypeOK
<1>1. ReadingInv => TypeOK
  BY DEF ReadingInv
<1> QED
  BY <1>1, AlwaysReadingInv, PTL

\* Header and body of messages are written one after the other, never two at
\* the same time, so that async_writes do not mix their bytes.
THEOREM OneWriteAtATime == Spec => []OneMessageWrite
<1>1. ReadingInv => OneMessageWrite
  BY MessageWritesAre DEF ReadingInv, Writing, FrontOnly, OneMessageWrite
<1> QED
  BY <1>1, AlwaysReadingInv, PTL

\* What asio is writing is the front of m_qMessagesOut, which stays there as
\* long: the buffers handed to async_write by reference are valid.
THEOREM WrittenBufferValid == Spec => []WritesFront
<1>1. ReadingInv => WritesFront
  BY MessageWritesAre DEF ReadingInv, Writing, FrontOnly, WritesFront
<1> QED
  BY <1>1, AlwaysReadingInv, PTL

\* While the socket is open, a message in the queue is being written: the
\* assumption that Send rests on when it leaves the writing to others.
THEOREM NonEmptyQueueIsWritten == Spec => []QueueIsBeingWritten
<1>1. ReadingInv => QueueIsBeingWritten
  BY MessageWritesAre DEF ReadingInv, Writing, QueueIsBeingWritten, IsConnected
<1> QED
  BY <1>1, AlwaysReadingInv, PTL

\* A connection has at most one read outstanding, through the handshake and
\* after it, so m_msgTemporaryIn and m_nHandshakeIn are filled by one at a time.
THEOREM OneReadAtATime == Spec => []OneRead
<1>1. ReadingInv => OneRead
  BY DEF ReadingInv, Reading, OneRead
<1> QED
  BY <1>1, AlwaysReadingInv, PTL

\* The server neither reads nor delivers a message of a client that has not
\* answered the challenge correctly.
THEOREM UnvalidatedUnheard == Spec => []OnlyValidatedHeard
<1>1. ReadingInv => OnlyValidatedHeard
  BY DEF ReadingInv, Validated
<1> QED
  BY <1>1, AlwaysReadingInv, PTL

\* If the client's user waits for a message before it sends one, what the server
\* reads as the answer to its challenge is the answer: such a client is never
\* turned away by ReadValidation's handler.
THEOREM WaitingIsAccepted ==
    ASSUME WaitForAccept
    PROVE  Spec => []WaitingClientAccepted
<1>1. HandshakeInv => WaitingClientAccepted
  BY DEF HandshakeInv, AnswerFirst, WaitingClientAccepted, m_nHandshakeCheck, Scramble
<1> QED
  BY <1>1, AlwaysHandshakeInv, PTL
=============================================================================
