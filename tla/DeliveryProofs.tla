--------------------------- MODULE DeliveryProofs ---------------------------
(***************************************************************************)
(* Proofs about what a Connection delivers: the ends stay in step, and     *)
(* what one end delivers is what the other one sent, in that order.        *)
(*                                                                         *)
(* All that the peer p of an end e has sent is somewhere: delivered, in    *)
(* tmp[e], on the wire, in a write of p, in its queue, or in a lambda that *)
(* is posted.  The invariant follows the messages through these places: a  *)
(* position says which part of which message comes next, and a path says   *)
(* that the items of a sequence are what lies between two positions.       *)
(***************************************************************************)
EXTENDS ConnectionProofs

-----------------------------------------------------------------------------
(* Paths: how a sequence takes one from a position to another one.         *)

\* Read one after the other, the items of xs lead from a to b, where R has the
\* steps: <<from, item, to>>.
Path(R, xs, a, b) ==
    \E at :
        /\ at[1] = a
        /\ at[Len(xs) + 1] = b
        /\ \A i \in 1..Len(xs) : <<at[i], xs[i], at[i + 1]>> \in R

LEMMA PathEmpty == \A R, a, b : Path(R, <<>>, a, b) <=> a = b
<1> TAKE R, a, b
<1>1. Len(<<>>) = 0 /\ 0 + 1 = 1
  OBVIOUS
<1>2. ASSUME a = b PROVE Path(R, <<>>, a, b)
  <2> DEFINE at == [i \in {1} |-> a]
  <2>1. at[1] = a /\ at[Len(<<>>) + 1] = b
    BY <1>1, <1>2
  <2> HIDE DEF at
  <2> QED
    BY <1>1, <2>1 DEF Path
<1>3. Path(R, <<>>, a, b) => a = b
  BY <1>1 DEF Path
<1> QED
  BY <1>2, <1>3

LEMMA PathAppend ==
    ASSUME NEW S, NEW xs \in Seq(S), NEW x \in S, NEW R, NEW a, NEW b, NEW c,
           Path(R, xs, a, b), <<b, x, c>> \in R
    PROVE  Path(R, Append(xs, x), a, c)
<1> DEFINE ys == Append(xs, x)
           n == Len(xs)
<1>1. PICK at : /\ at[1] = a /\ at[n + 1] = b
                /\ \A i \in 1..n : <<at[i], xs[i], at[i + 1]>> \in R
  BY DEF Path
<1>2. n \in Nat /\ Len(ys) = n + 1 /\ ys[n + 1] = x /\ \A i \in 1..n : ys[i] = xs[i]
  BY AppendProperties, LenProperties
<1> HIDE DEF ys, n
<1> DEFINE to == [i \in 1..(n + 2) |-> IF i = n + 2 THEN c ELSE at[i]]
<1>3. /\ to[1] = a /\ to[n + 2] = c
      /\ \A i \in 1..(n + 1) : to[i] = at[i]
      /\ \A i \in 1..n : to[i + 1] = at[i + 1]
  BY <1>1, <1>2
<1> HIDE DEF to
<1>4. ASSUME NEW i \in 1..(n + 1) PROVE <<to[i], ys[i], to[i + 1]>> \in R
  <2>1. CASE i = n + 1
    <3>1. to[i] = b /\ ys[i] = x /\ to[i + 1] = c
      BY <1>1, <1>2, <1>3, <2>1
    <3> QED
      BY <3>1
  <2>2. CASE i # n + 1
    <3>1. i \in 1..n
      BY <1>2, <2>2
    <3>2. to[i] = at[i] /\ ys[i] = xs[i] /\ to[i + 1] = at[i + 1]
      BY <1>2, <1>3, <3>1
    <3>3. <<at[i], xs[i], at[i + 1]>> \in R
      BY <1>1, <3>1
    <3> QED
      BY <3>2, <3>3
  <2> QED
    BY <2>1, <2>2
<1>5. Len(ys) + 1 = n + 2
  BY <1>2
<1>6. Path(R, ys, a, c)
  BY <1>2, <1>3, <1>4, <1>5 DEF Path
<1> QED
  BY <1>6 DEF ys

LEMMA PathTail ==
    ASSUME NEW S, NEW xs \in Seq(S), xs # <<>>, NEW R, NEW a, NEW b, Path(R, xs, a, b)
    PROVE  \E c : <<a, Head(xs), c>> \in R /\ Path(R, Tail(xs), c, b)
<1> DEFINE ys == Tail(xs)
           n == Len(ys)
<1>1. /\ n \in Nat /\ Len(xs) = n + 1 /\ Head(xs) = xs[1]
      /\ \A i \in 1..n : ys[i] = xs[i + 1]
  <2>1. /\ ys \in Seq(S) /\ Len(ys) = Len(xs) - 1 /\ Head(xs) = xs[1]
        /\ \A i \in 1..Len(ys) : ys[i] = xs[i + 1]
    BY HeadTailProperties
  <2>2. Len(xs) \in Nat \ {0} /\ Len(ys) \in Nat
    BY <2>1, EmptySeq, LenProperties
  <2> QED
    BY <2>1, <2>2
<1> HIDE DEF ys, n
<1>2. PICK at : /\ at[1] = a /\ at[n + 1 + 1] = b
                /\ \A i \in 1..(n + 1) : <<at[i], xs[i], at[i + 1]>> \in R
  BY <1>1 DEF Path
<1> DEFINE to == [i \in 1..(n + 1) |-> at[i + 1]]
  <1>3. /\ to[1] = at[2] /\ to[n + 1] = b
        /\ \A i \in 1..n : to[i] = at[i + 1] /\ to[i + 1] = at[i + 1 + 1]
  BY <1>1, <1>2
<1> HIDE DEF to
<1>4. <<a, Head(xs), at[2]>> \in R
  <2>1. 1 \in 1..(n + 1) /\ 1 + 1 = 2
    BY <1>1
  <2> QED
    BY <1>1, <1>2, <2>1
<1>5. ASSUME NEW i \in 1..n PROVE <<to[i], ys[i], to[i + 1]>> \in R
  <2>1. i + 1 \in 1..(n + 1)
    BY <1>1
  <2>2. <<at[i + 1], xs[i + 1], at[i + 1 + 1]>> \in R
    BY <1>2, <2>1
  <2> QED
    BY <1>1, <1>3, <2>2
<1>6. Path(R, ys, at[2], b)
  BY <1>3, <1>5 DEF Path, n
<1> QED
  BY <1>4, <1>6 DEF ys

LEMMA PathMore ==
    ASSUME NEW R, NEW Q, R \subseteq Q, NEW xs, NEW a, NEW b, Path(R, xs, a, b)
    PROVE  Path(Q, xs, a, b)
  BY DEF Path

-----------------------------------------------------------------------------
(* Positions in what an end has sent.                                      *)

\* The next part of the n-th message sent.
At(n, part) == [n |-> n, part |-> part]

\* S is what has been sent.
ChunkAt(S, c) == IF c.part = "header" THEN HeaderChunk(S[c.n]) ELSE BodyChunk(S[c.n])

After(S, c) ==
    IF c.part = "header" /\ S[c.n].body # <<>> THEN At(c.n, "body")
    ELSE At(c.n + 1, "header")

Positions(S) == {At(n, part) : n \in 1..Len(S), part \in {"header", "body"}}

\* The steps that chunks on the wire, messages in m_qMessagesOut and lambdas that
\* have been posted stand for.
WireSteps(S) == {<<c, ChunkAt(S, c), After(S, c)>> : c \in Positions(S)}

QueueSteps(S) == {<<k, S[k], k + 1>> : k \in 1..Len(S)}

PostSteps(S) ==
    {<<k, [op |-> "send", msg |-> S[k]], k + 1>> : k \in 1..Len(S)}
    \cup {<<k, [op |-> "close"], k>> : k \in Nat}

LEMMA AtParts == \A n, part : At(n, part).n = n /\ At(n, part).part = part
  BY DEF At

LEMMA WireStepsAre ==
    ASSUME NEW S, NEW a, NEW x, NEW b
    PROVE  <<a, x, b>> \in WireSteps(S) <=>
                a \in Positions(S) /\ x = ChunkAt(S, a) /\ b = After(S, a)
  BY DEF WireSteps

LEMMA QueueStepsAre ==
    ASSUME NEW S, NEW a, NEW x, NEW b
    PROVE  <<a, x, b>> \in QueueSteps(S) <=> a \in 1..Len(S) /\ x = S[a] /\ b = a + 1
  BY DEF QueueSteps

LEMMA SendStepIs ==
    ASSUME NEW S, NEW a, NEW x, NEW b, <<a, x, b>> \in PostSteps(S), x.op = "send"
    PROVE  a \in 1..Len(S) /\ x.msg = S[a] /\ b = a + 1
<1>1. [op |-> "close"].op # "send"
  OBVIOUS
<1>2. PICK k \in 1..Len(S) : a = k /\ x = [op |-> "send", msg |-> S[k]] /\ b = k + 1
  BY <1>1 DEF PostSteps
<1> QED
  BY <1>2

LEMMA CloseStepIs ==
    ASSUME NEW S, NEW a, NEW x, NEW b, <<a, x, b>> \in PostSteps(S), x.op # "send"
    PROVE  b = a
<1>1. \A k : [op |-> "send", msg |-> S[k]].op = "send"
  OBVIOUS
<1>2. PICK k \in Nat : a = k /\ x = [op |-> "close"] /\ b = k
  BY <1>1 DEF PostSteps
<1> QED
  BY <1>2

LEMMA PostStepsHave ==
    /\ \A S : \A k \in Nat : <<k, [op |-> "close"], k>> \in PostSteps(S)
    /\ \A S : \A k \in 1..Len(S) :
            <<k, [op |-> "send", msg |-> S[k]], k + 1>> \in PostSteps(S)
  BY DEF PostSteps

\* Sending one more message takes no step away.
LEMMA StepsGrow ==
    ASSUME NEW T, NEW S \in Seq(T), NEW m \in T
    PROVE  /\ \A c \in Positions(S) : c \in Positions(Append(S, m))
           /\ \A c \in Positions(S) :
                ChunkAt(Append(S, m), c) = ChunkAt(S, c) /\ After(Append(S, m), c) = After(S, c)
           /\ WireSteps(S) \subseteq WireSteps(Append(S, m))
           /\ QueueSteps(S) \subseteq QueueSteps(Append(S, m))
           /\ PostSteps(S) \subseteq PostSteps(Append(S, m))
<1> DEFINE Z == Append(S, m)
<1>1. /\ Len(S) \in Nat /\ Len(Z) = Len(S) + 1 /\ \A k \in 1..Len(S) : Z[k] = S[k]
  BY AppendProperties, LenProperties
<1> HIDE DEF Z
<1>2. 1..Len(S) \subseteq 1..Len(Z)
  BY <1>1
<1>3. \A c \in Positions(S) : c.n \in 1..Len(S) /\ c \in Positions(Z)
  BY <1>2 DEF Positions, At
<1>4. \A c \in Positions(S) : ChunkAt(Z, c) = ChunkAt(S, c) /\ After(Z, c) = After(S, c)
  BY <1>1, <1>3 DEF ChunkAt, After
<1>5. WireSteps(S) \subseteq WireSteps(Z)
  BY <1>3, <1>4 DEF WireSteps
<1>6. QueueSteps(S) \subseteq QueueSteps(Z) /\ PostSteps(S) \subseteq PostSteps(Z)
  <2>1. ASSUME NEW k \in 1..Len(S)
        PROVE  k \in 1..Len(Z) /\ Z[k] = S[k]
    BY <1>1, <1>2
  <2> QED
    BY <2>1 DEF QueueSteps, PostSteps
<1> QED
  BY <1>3, <1>4, <1>5, <1>6 DEF Z

-----------------------------------------------------------------------------
(* Sending: what is left to do of what the user of p has sent.             *)

MessageOps(ws) == {op \in Ops(ws) : op.chunk.kind # "word"}

\* Where an operation on a part of the n-th message has got to.
Reached(S, n, part, done) == IF done THEN After(S, At(n, part)) ELSE At(n, part)

\* The n-th message sent is the first one that is not written: c is what the
\* outstanding writes have come to.
WriterAt(ws, S, n, c) ==
    /\ MessageOps(ws) = {} => c = At(n, "header")
    /\ \A op \in MessageOps(ws) : c = Reached(S, n, op.chunk.kind, op.done)

\* The queue goes on from there, and the lambdas that are posted from the queue.
Queued(p, n) ==
    \E k : /\ Path(QueueSteps(sent[p]), outq[p], n, k)
           /\ Path(PostSteps(sent[p]), posted[p], k, Len(sent[p]) + 1)

Sending(p, c) ==
    \E n \in Nat :
        /\ Queued(p, n)
        /\ sock[p] # "closed" => WriterAt(writes[p], sent[p], n, c)

\* What Writing says of the operations.
LEMMA WritingOps ==
    ASSUME TypeOK, Writing, NEW p \in Ends
    PROVE  /\ \A x, y \in MessageOps(writes[p]) : x = y
           /\ \A op \in MessageOps(writes[p]) :
                /\ outq[p] # <<>>
                /\ op.chunk \in {HeaderChunk(Head(outq[p])), BodyChunk(Head(outq[p]))}
                /\ op.chunk.kind \in {"header", "body"}
           /\ sock[p] # "closed" /\ outq[p] # <<>> => MessageOps(writes[p]) # {}
<1> DEFINE ws == writes[p]
<1>1. FrontOnly(ws, outq[p]) /\ (outq[p] # <<>> => sock[p] = "closed" \/ MessageWritesOf(ws) # {})
  BY DEF Writing
<1>2. MessageWrites(p) = MessageWritesOf(ws)
  BY MessageWritesAre
<1>3. MessageOps(ws) = {ws[i] : i \in MessageWritesOf(ws)}
  BY <1>2 DEF MessageOps, Ops, MessageWrites
<1>4. \A i \in MessageWritesOf(ws) : ws[i].chunk.kind \in {"header", "body"}
  BY DEF MessageWritesOf, WritesOf, MessageKinds
<1> HIDE DEF ws
<1>5. /\ \A x, y \in MessageOps(ws) : x = y
      /\ \A op \in MessageOps(ws) :
            /\ outq[p] # <<>>
            /\ op.chunk \in {HeaderChunk(Head(outq[p])), BodyChunk(Head(outq[p]))}
            /\ op.chunk.kind \in {"header", "body"}
      /\ sock[p] # "closed" /\ outq[p] # <<>> => MessageOps(ws) # {}
  BY <1>1, <1>3, <1>4 DEF FrontOnly
<1> QED
  BY <1>5 DEF ws

\* The front of the queue is the first message that is not written.
LEMMA QueueFront ==
    ASSUME TypeOK, NEW p \in Ends, NEW n, Queued(p, n), outq[p] # <<>>
    PROVE  /\ n \in 1..Len(sent[p])
           /\ Head(outq[p]) = sent[p][n]
           /\ \E k : /\ Path(QueueSteps(sent[p]), Tail(outq[p]), n + 1, k)
                     /\ Path(PostSteps(sent[p]), posted[p], k, Len(sent[p]) + 1)
<1>1. PICK k : /\ Path(QueueSteps(sent[p]), outq[p], n, k)
               /\ Path(PostSteps(sent[p]), posted[p], k, Len(sent[p]) + 1)
  BY DEF Queued
<1>2. outq[p] \in Seq(Message)
  BY DEF TypeOK
<1>3. PICK c : /\ <<n, Head(outq[p]), c>> \in QueueSteps(sent[p])
               /\ Path(QueueSteps(sent[p]), Tail(outq[p]), c, k)
  BY <1>1, <1>2, PathTail
<1>4. n \in 1..Len(sent[p]) /\ Head(outq[p]) = sent[p][n] /\ c = n + 1
  BY <1>3, QueueStepsAre
<1> QED
  BY <1>1, <1>3, <1>4

\* A position that the writes of p have reached stays the same if more is sent.
LEMMA WriterStays ==
    ASSUME TypeOK, Writing, NEW p \in Ends, NEW n, Queued(p, n), NEW m \in Message, NEW c,
           NEW ws, MessageOps(ws) = MessageOps(writes[p]),
           WriterAt(writes[p], sent[p], n, c)
    PROVE  WriterAt(ws, Append(sent[p], m), n, c)
<1>1. ASSUME NEW op \in MessageOps(writes[p])
      PROVE  c = Reached(Append(sent[p], m), n, op.chunk.kind, op.done)
  <2>1. c = Reached(sent[p], n, op.chunk.kind, op.done)
    BY DEF WriterAt
  <2>2. op.chunk.kind \in {"header", "body"} /\ n \in 1..Len(sent[p])
    BY WritingOps, QueueFront
  <2>3. At(n, op.chunk.kind) \in Positions(sent[p]) /\ sent[p] \in Seq(Message)
    BY <2>2 DEF Positions, TypeOK
  <2>4. After(Append(sent[p], m), At(n, op.chunk.kind)) = After(sent[p], At(n, op.chunk.kind))
    BY <2>3, StepsGrow
  <2> QED
    BY <2>1, <2>4 DEF Reached
<1> QED
  BY <1>1 DEF WriterAt

\* More is sent: Send and the accept handler.
LEMMA SendSending ==
    ASSUME TypeOK, Writing, NEW p \in Ends, NEW m \in Message,
           sent'[p] = Append(sent[p], m),
           posted'[p] = Append(posted[p], [op |-> "send", msg |-> m]),
           outq'[p] = outq[p],
           MessageOps(writes'[p]) = MessageOps(writes[p]),
           sock'[p] # "closed" => sock[p] # "closed",
           NEW c, Sending(p, c)
    PROVE  Sending(p, c)'
<1> DEFINE S == sent[p]
           Z == Append(S, m)
           x == [op |-> "send", msg |-> m]
<1>1. PICK n \in Nat : Queued(p, n) /\ (sock[p] # "closed" => WriterAt(writes[p], S, n, c))
  BY DEF Sending
<1>2. PICK k : /\ Path(QueueSteps(S), outq[p], n, k)
               /\ Path(PostSteps(S), posted[p], k, Len(S) + 1)
  BY <1>1 DEF Queued
<1>3. S \in Seq(Message) /\ posted[p] \in Seq(Posts) /\ x \in Posts
  BY DEF TypeOK, Posts
<1>4. Len(S) \in Nat /\ Len(Z) = Len(S) + 1 /\ Z[Len(S) + 1] = m
  BY <1>3, AppendProperties, LenProperties
<1>5. QueueSteps(S) \subseteq QueueSteps(Z) /\ PostSteps(S) \subseteq PostSteps(Z)
  BY <1>3, StepsGrow
<1>6. <<Len(S) + 1, x, Len(Z) + 1>> \in PostSteps(Z)
  <2>1. Len(S) + 1 \in 1..Len(Z) /\ x = [op |-> "send", msg |-> Z[Len(S) + 1]]
    BY <1>4
  <2>2. <<Len(S) + 1, x, Len(S) + 1 + 1>> \in PostSteps(Z)
    BY <2>1, PostStepsHave
  <2> QED
    BY <1>4, <2>2
<1> HIDE DEF Z, x
<1>7. Path(QueueSteps(Z), outq[p], n, k) /\ Path(PostSteps(Z), posted[p], k, Len(S) + 1)
  BY <1>2, <1>5, PathMore
<1>8. Path(PostSteps(Z), Append(posted[p], x), k, Len(Z) + 1)
  BY <1>3, <1>6, <1>7, PathAppend
<1>9. sent'[p] = Z /\ posted'[p] = Append(posted[p], x)
  BY DEF Z, x
<1>10. Queued(p, n)'
  BY <1>7, <1>8, <1>9 DEF Queued
<1>11. sock[p] # "closed" => WriterAt(writes'[p], Z, n, c)
  BY <1>1, WriterStays DEF Z
<1> QED
  BY <1>1, <1>9, <1>10, <1>11 DEF Sending

\* Nothing is sent, and what is posted or written of messages stays.
LEMMA QuietSending ==
    ASSUME NEW p \in Ends,
           sent'[p] = sent[p], posted'[p] = posted[p], outq'[p] = outq[p],
           sock'[p] # "closed" =>
                sock[p] # "closed" /\ MessageOps(writes'[p]) = MessageOps(writes[p]),
           NEW c, Sending(p, c)
    PROVE  Sending(p, c)'
<1>1. PICK n \in Nat : Queued(p, n) /\ (sock[p] # "closed" => WriterAt(writes[p], sent[p], n, c))
  BY DEF Sending
<1>2. Queued(p, n)'
  BY <1>1 DEF Queued
<1>3. sock'[p] # "closed" => WriterAt(writes'[p], sent'[p], n, c)
  BY <1>1 DEF WriterAt
<1> QED
  BY <1>2, <1>3 DEF Sending

\* Disconnect.
LEMMA DisconnectSending ==
    ASSUME TypeOK, NEW p \in Ends,
           UNCHANGED <<sent, outq, sock, writes>>,
           posted'[p] = Append(posted[p], [op |-> "close"]),
           NEW c, Sending(p, c)
    PROVE  Sending(p, c)'
<1> DEFINE x == [op |-> "close"]
           S == sent[p]
<1>1. PICK n \in Nat : Queued(p, n) /\ (sock[p] # "closed" => WriterAt(writes[p], S, n, c))
  BY DEF Sending
<1>2. PICK k : /\ Path(QueueSteps(S), outq[p], n, k)
               /\ Path(PostSteps(S), posted[p], k, Len(S) + 1)
  BY <1>1 DEF Queued
<1>3. posted[p] \in Seq(Posts) /\ x \in Posts /\ Len(S) + 1 \in Nat
  BY LenProperties DEF TypeOK, Posts
<1>4. <<Len(S) + 1, x, Len(S) + 1>> \in PostSteps(S)
  BY <1>3, PostStepsHave
<1>5. posted'[p] = Append(posted[p], x)
  OBVIOUS
<1> HIDE DEF x
<1>6. Path(PostSteps(S), posted'[p], k, Len(S) + 1)
  BY <1>2, <1>3, <1>4, <1>5, PathAppend
<1>7. Queued(p, n)'
  BY <1>2, <1>6 DEF Queued
<1> QED
  BY <1>1, <1>7 DEF Sending

\* The lambda of Disconnect.
LEMMA RunCloseSending ==
    ASSUME TypeOK, NEW p \in Ends, RunClose(p), NEW c, Sending(p, c)
    PROVE  Sending(p, c)'
<1> DEFINE S == sent[p]
<1>1. PICK n \in Nat : Queued(p, n)
  BY DEF Sending
<1>2. PICK k : /\ Path(QueueSteps(S), outq[p], n, k)
               /\ Path(PostSteps(S), posted[p], k, Len(S) + 1)
  BY <1>1 DEF Queued
<1>3. /\ posted[p] \in Seq(Posts) /\ posted[p] # <<>> /\ Head(posted[p]).op # "send"
      /\ sent' = sent /\ outq' = outq /\ posted'[p] = Tail(posted[p])
      /\ sock'[p] = "closed"
  BY DEF TypeOK, RunClose, Close
<1>4. PICK d : <<k, Head(posted[p]), d>> \in PostSteps(S)
               /\ Path(PostSteps(S), Tail(posted[p]), d, Len(S) + 1)
  BY <1>2, <1>3, PathTail
<1>5. d = k
  BY <1>3, <1>4, CloseStepIs
<1>6. Queued(p, n)'
  BY <1>2, <1>3, <1>4, <1>5 DEF Queued
<1> QED
  BY <1>1, <1>3, <1>6 DEF Sending

LEMMA OpsSplit ==
    ASSUME NEW S, NEW s \in Seq(S), s # <<>>
    PROVE  Ops(s) = {Head(s)} \cup Ops(Tail(s))
<1>1. /\ Len(s) \in Nat \ {0}
      /\ DOMAIN s = 1..Len(s)
      /\ Head(s) = s[1]
      /\ DOMAIN Tail(s) = 1..(Len(s) - 1)
      /\ \A i \in 1..(Len(s) - 1) : Tail(s)[i] = s[i + 1]
  BY HeadTailProperties, LenProperties, EmptySeq
<1>2. Ops(s) \subseteq {Head(s)} \cup Ops(Tail(s))
  <2> SUFFICES ASSUME NEW i \in 1..Len(s), i # 1
               PROVE  s[i] \in Ops(Tail(s))
    BY <1>1 DEF Ops
  <2>1. i - 1 \in 1..(Len(s) - 1) /\ i - 1 + 1 = i
    BY <1>1
  <2>2. Tail(s)[i - 1] = s[i]
    BY <1>1, <2>1
  <2> QED
    BY <1>1, <2>1, <2>2 DEF Ops
<1> QED
  BY <1>2, OpsTail

LEMMA MessageOpsAre ==
    ASSUME NEW ws \in Seq(WriteOps)
    PROVE  MessageOps(ws) = {ws[i] : i \in MessageWritesOf(ws)}
<1>1. \A i \in DOMAIN ws : ws[i] \in WriteOps
  BY LenProperties, ElementOfSeq
<1>2. \A op \in WriteOps : op.chunk.kind # "word" <=> op.chunk.kind \in MessageKinds
  BY DEF WriteOps, Chunks, MessageKinds
<1> QED
  BY <1>1, <1>2 DEF MessageOps, Ops, MessageWritesOf, WritesOf

LEMMA MessageOpsAppend ==
    ASSUME NEW ws \in Seq(WriteOps), NEW op \in WriteOps
    PROVE  /\ op.chunk.kind = "word" => MessageOps(Append(ws, op)) = MessageOps(ws)
           /\ op.chunk.kind # "word" => MessageOps(Append(ws, op)) = MessageOps(ws) \cup {op}
<1>1. Ops(Append(ws, op)) = Ops(ws) \cup {op}
  BY OpsAppend
<1> QED
  BY <1>1 DEF MessageOps

LEMMA MessageOpsTail ==
    ASSUME NEW ws \in Seq(WriteOps), ws # <<>>, NEW q, FrontOnly(ws, q)
    PROVE  /\ Head(ws).chunk.kind = "word" => MessageOps(Tail(ws)) = MessageOps(ws)
           /\ Head(ws).chunk.kind # "word" =>
                MessageOps(Tail(ws)) = {} /\ Head(ws) \in MessageOps(ws)
<1>1. Ops(ws) = {Head(ws)} \cup Ops(Tail(ws))
  BY OpsSplit
<1>2. Head(ws).chunk.kind # "word" => MessageWritesOf(Tail(ws)) = {}
  BY DropFirst
<1>3. Tail(ws) \in Seq(WriteOps)
  BY TailType
<1>4. MessageOps(Tail(ws)) = {Tail(ws)[i] : i \in MessageWritesOf(Tail(ws))}
  BY <1>3, MessageOpsAre
<1> QED
  BY <1>1, <1>2, <1>4 DEF MessageOps

\* Writing the next part of a message, when none is being written.
LEMMA MessageOpsStart ==
    ASSUME NEW ws \in Seq(WriteOps), MessageOps(ws) = {}, NEW q \in Seq(Message)
    PROVE  /\ q = <<>> => MessageOps(ws \o WriteHeader(q)) = {}
           /\ \A op \in MessageOps(ws \o WriteHeader(q)) :
                op.chunk.kind = "header" /\ ~op.done
           /\ q # <<>> => \A op \in MessageOps(ws \o WriteBody(q)) :
                op.chunk.kind = "body" /\ ~op.done
           /\ q # <<>> => MessageOps(ws \o WriteBody(q)) # {}
<1>1. q = <<>> => ws \o WriteHeader(q) = ws
  BY ConcatEmptySeq DEF WriteHeader
<1>2. ASSUME NEW chunk \in Chunks, chunk.kind # "word"
      PROVE  MessageOps(ws \o <<Write(chunk)>>) = {Write(chunk)}
  <2>1. Write(chunk) \in WriteOps /\ Write(chunk).chunk = chunk
    BY OpTypes
  <2> DEFINE op == Write(chunk)
  <2>2. op \in WriteOps /\ op.chunk.kind # "word"
    BY <1>2, <2>1
  <2> HIDE DEF op
  <2>3. ws \o <<op>> = Append(ws, op)
    BY <2>2, AppendIsConcat
  <2>4. MessageOps(Append(ws, op)) = {op}
    BY <2>2, MessageOpsAppend
  <2> QED
    BY <2>3, <2>4 DEF op
<1>3. ASSUME q # <<>>
      PROVE  /\ MessageOps(ws \o WriteHeader(q)) = {Write(HeaderChunk(Head(q)))}
             /\ MessageOps(ws \o WriteBody(q)) = {Write(BodyChunk(Head(q)))}
             /\ HeaderChunk(Head(q)).kind = "header"
             /\ BodyChunk(Head(q)).kind = "body"
  <2>1. Head(q) \in Message
    BY <1>3, TailType
  <2>2. /\ HeaderChunk(Head(q)) \in Chunks /\ HeaderChunk(Head(q)).kind = "header"
        /\ BodyChunk(Head(q)) \in Chunks /\ BodyChunk(Head(q)).kind = "body"
    BY <2>1, ChunkTypes
  <2> QED
    BY <1>2, <1>3, <2>2 DEF WriteHeader, WriteBody
<1>4. \A x : Write(x).chunk = x /\ ~Write(x).done
  BY DEF Write
<1>5. CASE q = <<>>
  BY <1>1, <1>5
<1>6. CASE q # <<>>
  BY <1>3, <1>4, <1>6
<1> QED
  BY <1>5, <1>6

\* The lambda of Send.
LEMMA RunSendSending ==
    ASSUME TypeOK, Writing, NEW p \in Ends, RunSend(p), NEW c, Sending(p, c)
    PROVE  Sending(p, c)'
<1> DEFINE S == sent[p]
           x == Head(posted[p])
           q == Append(outq[p], x.msg)
<1>1. PICK n \in Nat : Queued(p, n) /\ (sock[p] # "closed" => WriterAt(writes[p], S, n, c))
  BY DEF Sending
<1>2. PICK k : /\ Path(QueueSteps(S), outq[p], n, k)
               /\ Path(PostSteps(S), posted[p], k, Len(S) + 1)
  BY <1>1 DEF Queued
<1>3. /\ posted[p] \in Seq(Posts) /\ posted[p] # <<>> /\ x.op = "send"
      /\ outq[p] \in Seq(Message) /\ writes[p] \in Seq(WriteOps)
      /\ sent' = sent /\ sock' = sock
      /\ outq'[p] = q
      /\ posted'[p] = Tail(posted[p])
      /\ writes'[p] = IF outq[p] = <<>> THEN writes[p] \o WriteHeader(q) ELSE writes[p]
  BY DEF TypeOK, RunSend, WriteOps
<1>4. PICK d : <<k, x, d>> \in PostSteps(S) /\ Path(PostSteps(S), Tail(posted[p]), d, Len(S) + 1)
  BY <1>2, <1>3, PathTail
<1>5. k \in 1..Len(S) /\ x.msg = S[k] /\ d = k + 1
  BY <1>3, <1>4, SendStepIs
<1>6. x.msg \in Message
  <2>1. x \in Posts
    BY <1>3, TailType
  <2> QED
    BY <1>3, <2>1 DEF Posts
<1>7. <<k, x.msg, d>> \in QueueSteps(S)
  BY <1>5, QueueStepsAre
<1>8. q \in Seq(Message)
  BY <1>3, <1>6, AppendProperties
<1>9. Path(QueueSteps(S), q, n, d)
  <2> DEFINE m == x.msg
  <2>1. m \in Message /\ <<k, m, d>> \in QueueSteps(S)
    BY <1>6, <1>7
  <2> HIDE DEF m
  <2>2. Path(QueueSteps(S), Append(outq[p], m), n, d)
    BY <1>2, <1>3, <2>1, PathAppend
  <2> QED
    BY <2>2 DEF m
<1> HIDE DEF q, x
<1>10. Queued(p, n)'
  BY <1>3, <1>4, <1>9 DEF Queued
<1>11. ASSUME sock[p] # "closed" PROVE WriterAt(writes'[p], S, n, c)
  <2>1. CASE outq[p] = <<>>
    <3>1. MessageOps(writes[p]) = {}
      BY <2>1, WritingOps
    <3>2. c = At(n, "header")
      BY <1>1, <1>11, <3>1 DEF WriterAt
    <3>3. \A op \in MessageOps(writes'[p]) : op.chunk.kind = "header" /\ ~op.done
      BY <1>3, <1>8, <2>1, <3>1, MessageOpsStart
    <3> QED
      BY <3>2, <3>3 DEF WriterAt, Reached
  <2>2. CASE outq[p] # <<>>
    BY <1>1, <1>3, <1>11, <2>2
  <2> QED
    BY <2>1, <2>2
<1> QED
  BY <1>3, <1>10, <1>11 DEF Sending

\* The handlers of message writes.
LEMMA WrittenSending ==
    ASSUME TypeOK, Writing, NEW p \in Ends, OnHeaderWritten(p) \/ OnBodyWritten(p),
           NEW c, Sending(p, c)
    PROVE  Sending(p, c)'
<1> DEFINE S == sent[p]
           ws == writes[p]
           q == outq[p]
<1>1. PICK n \in Nat : Queued(p, n) /\ (sock[p] # "closed" => WriterAt(ws, S, n, c))
  BY DEF Sending
<1>2. /\ ws \in Seq(WriteOps) /\ ws # <<>> /\ Head(ws).done /\ q \in Seq(Message)
      /\ Head(ws).chunk.kind = IF OnHeaderWritten(p) THEN "header" ELSE "body"
      /\ sent' = sent /\ sock' = sock /\ posted' = posted
  BY DEF TypeOK, OnHeaderWritten, OnBodyWritten, Written, WriteOps
<1>3. q # <<>>
  BY WritingFindsFront DEF HandlersFindFront
<1>4. PICK k : /\ n \in 1..Len(S) /\ Head(q) = S[n]
               /\ Path(QueueSteps(S), Tail(q), n + 1, k)
               /\ Path(PostSteps(S), posted[p], k, Len(S) + 1)
  BY <1>1, <1>3, QueueFront
<1>5. FrontOnly(ws, q)
  BY DEF Writing
<1>6. /\ Tail(ws) \in Seq(WriteOps) /\ Tail(q) \in Seq(Message)
      /\ MessageOps(Tail(ws)) = {} /\ Head(ws) \in MessageOps(ws)
  BY <1>2, <1>3, <1>5, TailType, MessageOpsTail
<1>7. sock[p] # "closed" => c = After(S, At(n, Head(ws).chunk.kind))
  BY <1>1, <1>2, <1>6 DEF WriterAt, Reached
<1>8. CASE OnHeaderWritten(p) /\ Head(q).body # <<>>
  <2>1. outq' = outq /\ writes'[p] = Tail(ws) \o WriteBody(q)
    BY <1>8 DEF OnHeaderWritten, TypeOK
  <2>2. sock[p] # "closed" => c = At(n, "body")
    <3>1. Head(ws).chunk.kind = "header" /\ S[n].body # <<>>
      BY <1>2, <1>4, <1>8
    <3>2. After(S, At(n, "header")) = At(n, "body")
      BY <3>1, AtParts DEF After
    <3> QED
      BY <1>7, <3>1, <3>2
  <2>3. /\ \A op \in MessageOps(writes'[p]) : op.chunk.kind = "body" /\ ~op.done
        /\ MessageOps(writes'[p]) # {}
    BY <1>2, <1>3, <1>6, <2>1, MessageOpsStart
  <2>4. sock[p] # "closed" => WriterAt(writes'[p], S, n, c)
    BY <2>2, <2>3 DEF WriterAt, Reached
  <2>5. Queued(p, n)'
    BY <1>1, <1>2, <2>1 DEF Queued
  <2> QED
    BY <1>2, <2>4, <2>5 DEF Sending
<1>9. CASE ~(OnHeaderWritten(p) /\ Head(q).body # <<>>)
  <2>1. outq'[p] = Tail(q) /\ writes'[p] = Tail(ws) \o WriteHeader(Tail(q))
    BY <1>9 DEF OnHeaderWritten, OnBodyWritten, TypeOK
  <2>2. sock[p] # "closed" => c = At(n + 1, "header")
    <3> DEFINE kind == Head(ws).chunk.kind
    <3>1. kind = "body" \/ S[n].body = <<>>
      BY <1>2, <1>4, <1>9
    <3> HIDE DEF kind
    <3>2. After(S, At(n, kind)) = At(n + 1, "header")
      BY <3>1, AtParts DEF After
    <3> QED
      BY <1>7, <3>2 DEF kind
  <2>3. \A op \in MessageOps(writes'[p]) : op.chunk.kind = "header" /\ ~op.done
    BY <1>6, <2>1, MessageOpsStart
  <2>4. sock[p] # "closed" => WriterAt(writes'[p], S, n + 1, c)
    BY <2>2, <2>3 DEF WriterAt, Reached
  <2>5. Queued(p, n + 1)'
    BY <1>2, <1>4, <2>1 DEF Queued
  <2>6. n + 1 \in Nat
    OBVIOUS
  <2> QED
    BY <1>2, <2>4, <2>5, <2>6 DEF Sending
<1> QED
  BY <1>8, <1>9

\* What else the thread of the io_context does.
LEMMA ContextSending ==
    ASSUME TypeOK, Writing, NEW p \in Ends, Context(p), NEW c, Sending(p, c)
    PROVE  Sending(p, c)'
<1> DEFINE ws == writes[p]
<1>1. ws \in Seq(WriteOps) /\ FrontOnly(ws, outq[p])
  BY SameAtEnd DEF Writing
<1>2. CASE OnValidationWritten(p)
  <2>1. /\ sent' = sent /\ posted' = posted /\ outq' = outq /\ sock' = sock
        /\ ws # <<>> /\ Head(ws).chunk.kind = "word" /\ writes'[p] = Tail(ws)
    BY <1>2 DEF OnValidationWritten, Written, TypeOK
  <2>2. MessageOps(writes'[p]) = MessageOps(ws)
    BY <1>1, <2>1, MessageOpsTail
  <2> QED
    BY <2>1, <2>2, QuietSending
<1>3. CASE OnWriteFailed(p) \/ OnReadFailed(p)
  <2>1. /\ sent' = sent /\ posted' = posted /\ outq' = outq /\ sock'[p] = "closed"
    BY <1>3 DEF OnWriteFailed, OnReadFailed, Close, TypeOK
  <2> QED
    BY <2>1, QuietSending
<1>4. CASE OnChallengeRead(p)
  <2> DEFINE op == Write(WordChunk(hsOut'[p]))
  <2>1. /\ sent' = sent /\ posted' = posted /\ outq' = outq /\ sock' = sock
        /\ writes'[p] = Append(ws, op)
        /\ hsOut'[p] \in Words
    BY <1>4, ScrambleType DEF OnChallengeRead, TypeOK
  <2>2. op \in WriteOps /\ op.chunk.kind = "word"
    BY <2>1, ChunkTypes, OpTypes
  <2> HIDE DEF op, ws
  <2>3. MessageOps(writes'[p]) = MessageOps(ws)
    BY <1>1, <2>1, <2>2, MessageOpsAppend
  <2> QED
    BY <2>1, <2>3, QuietSending DEF ws
<1>5. CASE OnAnswerRead(p)
  <2>1. /\ sent' = sent /\ posted' = posted /\ outq' = outq /\ writes' = writes
        /\ sock' = sock \/ sock'[p] = "closed"
    BY <1>5 DEF OnAnswerRead, Close, TypeOK
  <2> QED
    BY <2>1, QuietSending
<1>6. CASE OnHeaderRead(p) \/ OnBodyRead(p)
  <2>1. /\ sent' = sent /\ posted' = posted /\ outq' = outq /\ writes' = writes
        /\ sock' = sock
    BY <1>6 DEF OnHeaderRead, OnBodyRead
  <2> QED
    BY <2>1, QuietSending
<1> QED
  BY <1>2, <1>3, <1>4, <1>5, <1>6, RunSendSending, RunCloseSending, WrittenSending DEF Context

\* The operating system sends a part: of a message, it is the part that c is at.
LEMMA TransmitSending ==
    ASSUME TypeOK, Writing, NEW p \in Ends, sock[p] # "closed",
           UNCHANGED <<sent, posted, outq, sock>>,
           NEW i \in Waiting(writes[p]),
           writes'[p] = [writes[p] EXCEPT ![i] = [writes[p][i] EXCEPT !.done = TRUE]],
           NEW c, Sending(p, c)
    PROVE  /\ writes[p][i].chunk.kind = "word" => Sending(p, c)'
           /\ writes[p][i].chunk.kind # "word" =>
                /\ c \in Positions(sent[p])
                /\ writes[p][i].chunk = ChunkAt(sent[p], c)
                /\ Sending(p, After(sent[p], c))'
<1> DEFINE S == sent[p]
           ws == writes[p]
           op == ws[i]
           vs == [ws EXCEPT ![i] = [op EXCEPT !.done = TRUE]]
<1>1. PICK n \in Nat : Queued(p, n) /\ WriterAt(ws, S, n, c)
  BY DEF Sending
<1>2. Queued(p, n)'
  BY <1>1 DEF Queued
<1>3. ws \in Seq(WriteOps) /\ FrontOnly(ws, outq[p])
  BY SameAtEnd DEF Writing
<1>4. i \in 1..Len(ws) /\ i \in DOMAIN ws /\ op \in WriteOps /\ ~op.done
  BY <1>3, WaitingProperties
<1>5. /\ vs \in Seq(WriteOps)
      /\ vs[i].done /\ vs[i].chunk = op.chunk
      /\ \A j \in DOMAIN ws : j # i => vs[j] = ws[j]
  <2>1. [op EXCEPT !.done = TRUE] \in WriteOps
    BY <1>4, DoneTypes
  <2>2. vs \in Seq(WriteOps)
    BY <1>3, <1>4, <2>1, ExceptSeq
  <2>3. vs[i] = [op EXCEPT !.done = TRUE]
    BY <1>4
  <2>4. [op EXCEPT !.done = TRUE].done /\ [op EXCEPT !.done = TRUE].chunk = op.chunk
    BY <1>4 DEF WriteOps
  <2> QED
    BY <2>2, <2>3, <2>4
<1>6. MessageWritesOf(vs) = MessageWritesOf(ws)
  BY <1>3, WritesDone DEF MessageWritesOf
<1>7. writes'[p] = vs /\ sent' = sent /\ sock'[p] # "closed"
  OBVIOUS
<1> HIDE DEF vs
<1>8. /\ MessageOps(ws) = {ws[j] : j \in MessageWritesOf(ws)}
      /\ MessageOps(vs) = {vs[j] : j \in MessageWritesOf(ws)}
      /\ MessageWritesOf(ws) \subseteq DOMAIN ws
      /\ i \in MessageWritesOf(ws) <=> op.chunk.kind # "word"
  <2>1. op.chunk.kind # "word" <=> op.chunk.kind \in MessageKinds
    BY <1>4 DEF WriteOps, Chunks, MessageKinds
  <2>2. /\ MessageOps(ws) = {ws[j] : j \in MessageWritesOf(ws)}
        /\ MessageOps(vs) = {vs[j] : j \in MessageWritesOf(vs)}
    BY <1>3, <1>5, MessageOpsAre
  <2>3. MessageWritesOf(ws) = {j \in DOMAIN ws : ws[j].chunk.kind \in MessageKinds}
    BY DEF MessageWritesOf, WritesOf
  <2> QED
    BY <1>4, <1>6, <2>1, <2>2, <2>3
<1>9. CASE op.chunk.kind = "word"
  <2>1. MessageOps(vs) = MessageOps(ws)
    BY <1>5, <1>8, <1>9
  <2>2. WriterAt(vs, S, n, c)
    BY <1>1, <2>1 DEF WriterAt
  <2> QED
    BY <1>2, <1>7, <1>9, <2>2 DEF Sending
<1>10. CASE op.chunk.kind # "word"
  <2>1. \A j \in MessageWritesOf(ws) : j = i
    BY <1>3, <1>8, <1>10 DEF FrontOnly
  <2>2. op \in MessageOps(ws) /\ MessageOps(vs) = {vs[i]}
    BY <1>8, <1>10, <2>1
  <2>3. c = At(n, op.chunk.kind)
    BY <1>1, <1>4, <2>2 DEF WriterAt, Reached
  <2>4. /\ outq[p] # <<>>
        /\ op.chunk \in {HeaderChunk(Head(outq[p])), BodyChunk(Head(outq[p]))}
        /\ op.chunk.kind \in {"header", "body"}
    BY <2>2, WritingOps
  <2>5. n \in 1..Len(S) /\ Head(outq[p]) = S[n]
    BY <1>1, <2>4, QueueFront
  <2>6. c \in Positions(S)
    BY <2>3, <2>4, <2>5 DEF Positions
  <2>7. op.chunk = ChunkAt(S, c)
    <3>1. HeaderChunk(S[n]).kind = "header" /\ BodyChunk(S[n]).kind = "body"
      BY DEF HeaderChunk, BodyChunk
    <3>2. c.n = n /\ c.part = op.chunk.kind
      BY <2>3, AtParts
    <3> QED
      BY <2>4, <2>5, <3>1, <3>2 DEF ChunkAt
  <2>8. WriterAt(vs, S, n, After(S, c))
    <3>1. \A x \in MessageOps(vs) : x.done /\ x.chunk = op.chunk
      BY <1>5, <2>2
    <3>2. MessageOps(vs) # {}
      BY <2>2
    <3> QED
      BY <2>3, <3>1, <3>2 DEF WriterAt, Reached
  <2>9. Sending(p, After(S, c))'
    BY <1>2, <1>7, <2>8 DEF Sending
  <2> QED
    BY <1>10, <2>6, <2>7, <2>9
<1> QED
  BY <1>9, <1>10

-----------------------------------------------------------------------------
(* Receiving: how far e has got with what its peer has sent.               *)

MessageReads(rs) == {op \in Ops(rs) : op.kind # "word"}

\* The number of the message that e receives next.
NextMessage(e) == Len(delivered[e]) + 1

ReaderAt(e, c) ==
    /\ MessageReads(reads[e]) = {} => c = At(NextMessage(e), "header")
    /\ \A op \in MessageReads(reads[e]) :
            c = Reached(sent[Peer(e)], NextMessage(e), op.kind, op.done)

\* What counts of a message that is received.
Same(d, m) == d.id = m.id /\ d.size = m.size /\ (d.size > 0 => d.body = m.body)

\* What has been delivered was sent.
Arrived(e) ==
    /\ Len(delivered[e]) <= Len(sent[Peer(e)])
    /\ \A i \in 1..Len(delivered[e]) : Same(delivered[e][i], sent[Peer(e)][i])

\* m_msgTemporaryIn holds what has been read of the message received next.
Taken(e) ==
    LET S == sent[Peer(e)]
        k == NextMessage(e)
    IN  \A op \in MessageReads(reads[e]) :
            op.kind = "body" \/ op.done =>
                /\ k \in 1..Len(S)
                /\ tmp[e].id = S[k].id
                /\ tmp[e].size = S[k].size
                /\ op.kind = "body" => tmp[e].size > 0
                /\ op.kind = "body" /\ op.done => tmp[e].body = S[k].body

Receiving(e) == Arrived(e) /\ Taken(e)

\* The word that e expects.
HelloWord(e) == IF e = "client" THEN "challenge" ELSE "answer"

\* The peer's first word was, is, or may still be the one that e expects.
Greets(e) ==
    \/ hsIn[e] = HelloWord(e)
    \/ hsIn[e] = "zero" /\ (wire[e] = <<>> \/ Head(wire[e]) = WordChunk(HelloWord(e)))

\* What is on the wire after the handshake.
Stream(e) == IF hsIn[e] = "zero" /\ wire[e] # <<>> THEN Tail(wire[e]) ELSE wire[e]

\* The parts of messages on the wire lead from where e reads to where its peer
\* writes.
Flow(e) ==
    \E b :
        /\ Sending(Peer(e), b)
        /\ sock[e] # "closed" /\ Greets(e) =>
                \E a : /\ ReaderAt(e, a)
                       /\ Path(WireSteps(sent[Peer(e)]), Stream(e), a, b)

AllMessages == ClientMessages \cup ServerMessages \cup {AcceptMessage}

\* All that is sent comes from the users, or is a copy of what does.
Origin ==
    /\ \A i \in 1..Len(sent["client"]) : sent["client"][i] \in ClientMessages
    /\ \A i \in 1..Len(sent["server"]) : sent["server"][i] \in AllMessages

LEMMA SentSizes ==
    ASSUME Origin, TypeOK, NEW p \in Ends, NEW i \in 1..Len(sent[p])
    PROVE  /\ sent[p][i] \in Message
           /\ sent[p][i].size = Len(sent[p][i].body)
           /\ sent[p][i].body # <<>> <=> sent[p][i].size > 0
<1>1. sent[p][i] \in AllMessages
  BY DEF Origin, AllMessages, Ends
<1>2. sent[p][i] \in Message /\ sent[p][i].size = Len(sent[p][i].body)
  BY <1>1, MessagesAssumption DEF AllMessages, SizeMatches
<1>3. sent[p][i].body \in Seq(Bytes)
  BY <1>2 DEF Message
<1>4. Len(sent[p][i].body) \in Nat /\ (sent[p][i].body = <<>> <=> Len(sent[p][i].body) = 0)
  BY <1>3, EmptySeq, LenProperties
<1> QED
  BY <1>2, <1>4

LEMMA ReadOne ==
    ASSUME ReadingInv, NEW e \in Ends, reads[e] # <<>>
    PROVE  /\ Ops(reads[e]) = {Head(reads[e])}
           /\ Head(reads[e]) \in ReadOps
           /\ Head(reads[e]) = reads[e][1]
           /\ Tail(reads[e]) = <<>>
<1>1. reads[e] \in Seq(ReadOps)
  BY DEF ReadingInv, TypeOK, ReadOps
<1> QED
  BY <1>1, OnlyRead, TailType DEF Ops

\* The reads after a handler that issues the next one.
LEMMA NextRead ==
    ASSUME NEW k \in {"word", "header", "body"}
    PROVE  Ops(Append(<<>>, Read(k))) = {Read(k)} /\ Read(k).kind = k /\ ~Read(k).done
  BY OpsOne DEF Read

\* A step at e that leaves alone what e has received.
LEMMA QuietReceiving ==
    ASSUME NEW e \in Ends, Receiving(e),
           sent'[Peer(e)] = sent[Peer(e)], delivered'[e] = delivered[e], tmp'[e] = tmp[e],
           MessageReads(reads'[e]) \subseteq MessageReads(reads[e])
    PROVE  /\ Receiving(e)'
           /\ MessageReads(reads'[e]) = MessageReads(reads[e]) =>
                \A c : ReaderAt(e, c) => ReaderAt(e, c)'
<1>1. Arrived(e)' /\ NextMessage(e)' = NextMessage(e)
  BY DEF Receiving, Arrived, NextMessage
<1>2. Taken(e)'
  BY <1>1 DEF Receiving, Taken
<1>3. MessageReads(reads'[e]) = MessageReads(reads[e]) =>
        \A c : ReaderAt(e, c) => ReaderAt(e, c)'
  BY <1>1 DEF ReaderAt
<1> QED
  BY <1>1, <1>2, <1>3 DEF Receiving

\* The first read of a header after the handshake.
LEMMA FirstHeader ==
    ASSUME NEW e \in Ends, Receiving(e),
           sent'[Peer(e)] = sent[Peer(e)], delivered'[e] = delivered[e], tmp'[e] = tmp[e],
           MessageReads(reads[e]) = {}, Ops(reads'[e]) = {Read("header")}
    PROVE  Receiving(e)' /\ \A c : ReaderAt(e, c) => ReaderAt(e, c)'
<1>1. Arrived(e)' /\ NextMessage(e)' = NextMessage(e)
  BY DEF Receiving, Arrived, NextMessage
<1>2. \A op \in MessageReads(reads'[e]) : op.kind = "header" /\ ~op.done
  BY NextRead DEF MessageReads
<1>3. Taken(e)'
  BY <1>2 DEF Taken
<1>4. \A c : ReaderAt(e, c) => ReaderAt(e, c)'
  BY <1>1, <1>2 DEF ReaderAt, Reached
<1> QED
  BY <1>1, <1>3, <1>4 DEF Receiving

\* The handlers of message reads.
LEMMA HeaderReceiving ==
    ASSUME ReadingInv, Origin, NEW e \in Ends, Receiving(e), OnHeaderRead(e), tmp[e].size > 0
    PROVE  Receiving(e)' /\ \A c : ReaderAt(e, c) => ReaderAt(e, c)'
<1> DEFINE S == sent[Peer(e)]
           k == NextMessage(e)
           r == Head(reads[e])
<1>1. TypeOK /\ Peer(e) \in Ends
  BY DEF ReadingInv, Ends, Peer
<1>2. reads[e] # <<>> /\ r.done /\ r.kind = "header"
  BY DEF OnHeaderRead, ReadDone
<1>3. UNCHANGED <<sent, delivered, tmp>> /\ reads'[e] = Append(Tail(reads[e]), Read("body"))
  BY <1>1 DEF OnHeaderRead, TypeOK
<1>4. Ops(reads[e]) = {r} /\ Tail(reads[e]) = <<>>
  BY <1>2, ReadOne
<1>5. Ops(reads'[e]) = {Read("body")}
  BY <1>3, <1>4, NextRead
<1>6. r \in MessageReads(reads[e])
  BY <1>2, <1>4 DEF MessageReads
<1>7. k \in 1..Len(S) /\ tmp[e].id = S[k].id /\ tmp[e].size = S[k].size
  BY <1>2, <1>6 DEF Receiving, Taken
<1>8. Arrived(e)' /\ NextMessage(e)' = k
  BY <1>3 DEF Receiving, Arrived, NextMessage
<1>9. \A op \in MessageReads(reads'[e]) : op.kind = "body" /\ ~op.done
  BY <1>5, NextRead DEF MessageReads
<1>10. Taken(e)'
  BY <1>3, <1>7, <1>8, <1>9 DEF Taken
<1>11. S[k].body # <<>>
  BY <1>1, <1>7, SentSizes
<1>12. MessageReads(reads'[e]) # {}
  BY <1>5, NextRead DEF MessageReads
<1>13. ASSUME NEW c, ReaderAt(e, c) PROVE ReaderAt(e, c)'
  <2>1. c = After(S, At(k, "header"))
    BY <1>2, <1>6, <1>13 DEF ReaderAt, Reached
  <2>2. c = At(k, "body")
    BY <1>11, <2>1, AtParts DEF After
  <2> QED
    BY <1>8, <1>9, <1>12, <2>2 DEF ReaderAt, Reached
<1> QED
  BY <1>8, <1>10, <1>13 DEF Receiving

LEMMA DeliverReceiving ==
    ASSUME ReadingInv, Origin, NEW e \in Ends, Receiving(e),
           OnBodyRead(e) \/ (OnHeaderRead(e) /\ ~(tmp[e].size > 0))
    PROVE  /\ Receiving(e)'
           /\ \A c : ReaderAt(e, c) => ReaderAt(e, c)'
           /\ delivered'[e] = Append(delivered[e], tmp[e])
           /\ NextMessage(e) \in 1..Len(sent[Peer(e)])
           /\ Same(tmp[e], sent[Peer(e)][NextMessage(e)])
<1> DEFINE S == sent[Peer(e)]
           k == NextMessage(e)
           r == Head(reads[e])
           D == delivered[e]
<1>1. TypeOK /\ Peer(e) \in Ends /\ D \in Seq(Message) /\ tmp[e] \in Message
  BY DEF ReadingInv, Ends, Peer, TypeOK
<1>2. /\ reads[e] # <<>> /\ r.done
      /\ r.kind = IF OnBodyRead(e) THEN "body" ELSE "header"
      /\ r.kind = "header" => ~(tmp[e].size > 0)
  BY DEF OnHeaderRead, OnBodyRead, ReadDone
<1>3. /\ UNCHANGED <<sent, tmp>>
      /\ reads'[e] = Append(Tail(reads[e]), Read("header"))
      /\ delivered'[e] = Append(D, tmp[e])
  BY <1>1 DEF OnHeaderRead, OnBodyRead, AddToIncomingMessageQueue, TypeOK
<1>4. Ops(reads[e]) = {r} /\ Tail(reads[e]) = <<>>
  BY <1>2, ReadOne
<1>5. Ops(reads'[e]) = {Read("header")}
  BY <1>3, <1>4, NextRead
<1>6. r \in MessageReads(reads[e])
  BY <1>2, <1>4 DEF MessageReads
<1>7. /\ k \in 1..Len(S) /\ tmp[e].id = S[k].id /\ tmp[e].size = S[k].size
      /\ r.kind = "body" => tmp[e].body = S[k].body /\ tmp[e].size > 0
  BY <1>2, <1>6 DEF Receiving, Taken
<1>8. Same(tmp[e], S[k])
  BY <1>2, <1>7 DEF Same
<1>9. /\ Len(D) \in Nat /\ k = Len(D) + 1
      /\ Len(delivered'[e]) = k /\ delivered'[e][k] = tmp[e]
      /\ \A i \in 1..Len(D) : delivered'[e][i] = D[i]
  BY <1>1, <1>3, AppendProperties, LenProperties DEF NextMessage
<1>10. Arrived(e)'
  <2>1. Len(S) \in Nat /\ sent' = sent
    BY <1>1, <1>3, LenProperties DEF TypeOK
  <2>2. \A i \in 1..Len(D) : Same(D[i], S[i])
    BY DEF Receiving, Arrived
  <2>3. \A i \in 1..k : i = k \/ i \in 1..Len(D)
    BY <1>9
  <2>4. \A i \in 1..k : Same(delivered'[e][i], S[i])
    BY <1>8, <1>9, <2>2, <2>3
  <2>5. Len(delivered'[e]) <= Len(S)
    BY <1>7, <1>9, <2>1
  <2> QED
    BY <1>9, <2>1, <2>4, <2>5 DEF Arrived
<1>11. NextMessage(e)' = k + 1
  BY <1>9 DEF NextMessage
<1>12. \A op \in MessageReads(reads'[e]) : op.kind = "header" /\ ~op.done
  BY <1>5, NextRead DEF MessageReads
<1>13. Taken(e)'
  BY <1>12 DEF Taken
<1>14. ASSUME NEW c, ReaderAt(e, c) PROVE ReaderAt(e, c)'
  <2>1. c = After(S, At(k, r.kind))
    BY <1>2, <1>6, <1>14 DEF ReaderAt, Reached
  <2>2. r.kind = "header" => S[k].body = <<>>
    BY <1>1, <1>2, <1>7, SentSizes
  <2>3. c = At(k + 1, "header")
    BY <1>2, <2>1, <2>2, AtParts DEF After
  <2> QED
    BY <1>11, <1>12, <2>3 DEF ReaderAt, Reached
<1> QED
  BY <1>3, <1>7, <1>8, <1>10, <1>13, <1>14 DEF Receiving

\* What the thread of the io_context of e does for what e receives.
LEMMA ContextReceiving ==
    ASSUME ReadingInv, Origin, NEW e \in Ends, Receiving(e), Context(e)
    PROVE  /\ Receiving(e)'
           /\ sock'[e] # "closed" =>
                /\ sock[e] # "closed"
                /\ \A c : ReaderAt(e, c) => ReaderAt(e, c)'
<1>1. TypeOK
  BY DEF ReadingInv
<1>2. CASE \/ RunSend(e) \/ RunClose(e) \/ OnHeaderWritten(e) \/ OnBodyWritten(e)
           \/ OnWriteFailed(e)
  <2>1. UNCHANGED <<sent, delivered, tmp, reads>>
    BY <1>2 DEF RunSend, RunClose, OnHeaderWritten, OnBodyWritten, OnWriteFailed
  <2>2. sock'[e] # "closed" => sock[e] # "closed"
    BY <1>1, <1>2 DEF RunSend, RunClose, OnHeaderWritten, OnBodyWritten, OnWriteFailed,
       Close, TypeOK
  <2> QED
    BY <2>1, <2>2, QuietReceiving
<1>3. CASE OnValidationWritten(e)
  <2> DEFINE ws == writes[e]
  <2>1. /\ UNCHANGED <<sent, delivered, tmp, sock>>
        /\ ws \in Seq(WriteOps) /\ ws # <<>> /\ Head(ws).chunk.kind = "word"
        /\ e = "server" => reads' = reads
        /\ e = "client" => reads'[e] = Append(reads[e], Read("header"))
    BY <1>1, <1>3 DEF OnValidationWritten, Written, TypeOK, WriteOps
  <2>2. CASE e = "server"
    BY <2>1, <2>2, QuietReceiving
  <2>3. CASE e = "client"
    <3>1. AnswerWrites # {}
      BY <2>1, <2>3, WritesTail DEF AnswerWrites, WordKinds
    <3>2. reads[e] = <<>>
      BY <2>3, <3>1 DEF ReadingInv, Reading
    <3>3. MessageReads(reads[e]) = {} /\ Ops(reads'[e]) = {Read("header")}
      BY <2>1, <2>3, <3>2, OpsNone, NextRead DEF MessageReads
    <3> QED
      BY <2>1, <3>3, FirstHeader
  <2> QED
    BY <2>2, <2>3 DEF Ends
<1>4. CASE OnChallengeRead(e) \/ OnAnswerRead(e)
  <2>1. /\ UNCHANGED <<sent, delivered, tmp>>
        /\ reads[e] # <<>> /\ Head(reads[e]).kind = "word"
        /\ reads'[e] \in {Tail(reads[e]), Append(Tail(reads[e]), Read("header"))}
        /\ sock'[e] # "closed" => sock[e] # "closed"
    BY <1>1, <1>4 DEF OnChallengeRead, OnAnswerRead, ReadDone, Close, TypeOK
  <2>2. MessageReads(reads[e]) = {} /\ Tail(reads[e]) = <<>>
    BY <2>1, ReadOne DEF MessageReads
  <2>3. CASE reads'[e] = <<>>
    <3>1. MessageReads(reads'[e]) = {}
      BY <2>3, OpsNone DEF MessageReads
    <3> QED
      BY <2>1, <2>2, <3>1, QuietReceiving
  <2>4. CASE reads'[e] = Append(<<>>, Read("header"))
    <3>1. Ops(reads'[e]) = {Read("header")}
      BY <2>4, NextRead
    <3> QED
      BY <2>1, <2>2, <3>1, FirstHeader
  <2> QED
    BY <2>1, <2>2, <2>3, <2>4
<1>5. CASE OnReadFailed(e)
  <2>1. /\ UNCHANGED <<sent, delivered, tmp>>
        /\ reads[e] # <<>> /\ reads'[e] = Tail(reads[e]) /\ sock'[e] = "closed"
    BY <1>1, <1>5 DEF OnReadFailed, Close, TypeOK
  <2>2. MessageReads(reads'[e]) = {}
    BY <2>1, ReadOne, OpsNone DEF MessageReads
  <2> QED
    BY <2>1, <2>2, QuietReceiving
<1>6. CASE OnHeaderRead(e) \/ OnBodyRead(e)
  <2>1. sock' = sock
    BY <1>6 DEF OnHeaderRead, OnBodyRead
  <2> QED
    BY <1>6, <2>1, HeaderReceiving, DeliverReceiving
<1> QED
  BY <1>2, <1>3, <1>4, <1>5, <1>6 DEF Context

-----------------------------------------------------------------------------
(* The words of the handshake, whatever the client's user does.            *)

\* A word of the peer's is what e has taken for its greeting, or will take.
WordSent(e) ==
    \/ hsIn[e] = HelloWord(e)
    \/ hsIn[e] = "zero" /\ wire[e] # <<>> /\ Head(wire[e]).kind = "word"

WordDone(e) == \A op \in Ops(writes[e]) : op.chunk.kind = "word" => op.done

\* An end writes one word, and once it is on its way there is no other one.
Greeting ==
    /\ \A e \in Ends : WordSent(e) => WordDone(Peer(e))
    /\ \A i, j \in WritesOf(writes["server"], WordKinds) : i = j
    /\ WordSent("server") =>
            connecting = "handled" /\ \A op \in Ops(reads["client"]) : op.kind # "word"
    /\ sock["server"] = "none" =>
            hsIn["server"] = "zero" /\ hsIn["client"] = "zero" /\ wire["client"] = <<>>
    /\ \A op \in Ops(reads["server"]) :
            op.kind = "word" /\ ~op.done => hsIn["server"] = "zero"
    /\ hsIn["server"] = "zero" /\ WordSent("server") =>
            Head(wire["server"]) = WordChunk("answer")
    /\ \A e \in Ends : sock[e] = "closed" => wire[e] = <<>>

LEMMA PeerIs ==
    /\ Peer("client") = "server" /\ Peer("server") = "client"
    /\ \A e \in Ends : Peer(e) \in Ends /\ Peer(Peer(e)) = e /\ Peer(e) # e
    /\ "client" \in Ends /\ "server" \in Ends
  BY DEF Ends, Peer

\* A step that leaves the words alone.
LEMMA QuietGreeting ==
    ASSUME Greeting, UNCHANGED <<wire, writes, reads, hsIn>>,
           connecting = "handled" => connecting' = "handled",
           sock'["server"] = "none" => sock["server"] = "none",
           \A e \in Ends : sock'[e] = "closed" => sock[e] = "closed"
    PROVE  Greeting'
  BY DEF Greeting, WordSent, WordDone

LEMMA ConnectedGreeting ==
    ASSUME ReadingInv, Greeting, OnConnected
    PROVE  Greeting'
<1>1. UNCHANGED <<wire, writes, hsIn, sock>> /\ reads'["server"] = reads["server"]
  BY DEF OnConnected, ReadingInv, TypeOK, handshake
<1>2. ~WordSent("server")
  BY DEF OnConnected, Greeting
<1> QED
  BY <1>1, <1>2 DEF Greeting, WordSent, WordDone

LEMMA AcceptGreeting ==
    ASSUME ChallengeInv, Greeting, AcceptClient
    PROVE  Greeting'
<1>1. /\ UNCHANGED <<wire, connecting, hsIn>>
      /\ sock["server"] = "none" /\ sock'["server"] = "open"
      /\ sock'["client"] = sock["client"]
      /\ reads'["client"] = reads["client"]
      /\ writes'["client"] = writes["client"]
  BY DEF ChallengeInv, ReadingInv, TypeOK, Ends, AcceptClient, net, handshake
<1>2. /\ writes["server"] = <<>> /\ reads["server"] = <<>>
      /\ hsIn["server"] = "zero" /\ hsIn["client"] = "zero" /\ wire["client"] = <<>>
      /\ hsOut["server"] = "challenge"
  BY <1>1 DEF ChallengeInv, ReadingInv, Reading, Challenged, ChallengeFirst, Greeting
<1>3. /\ writes'["server"] = Append(<<>>, Write(WordChunk("challenge")))
      /\ reads'["server"] = Append(<<>>, Read("word"))
  BY <1>2 DEF ChallengeInv, ReadingInv, TypeOK, Ends, AcceptClient
<1>4. \A i, j \in WritesOf(writes'["server"], WordKinds) : i = j
  <2>1. DOMAIN writes'["server"] = {1}
    BY <1>3
  <2> QED
    BY <2>1 DEF WritesOf
<1>5. ~WordSent("client")'
  BY <1>1, <1>2 DEF WordSent, HelloWord
<1>6. WordSent("server")' <=> WordSent("server")
  BY <1>1 DEF WordSent
<1>7. \A e \in Ends : WordSent(e)' => WordDone(Peer(e))'
  BY <1>1, <1>5, <1>6, PeerIs DEF Greeting, WordDone, Ends
<1> QED
  BY <1>1, <1>2, <1>4, <1>6, <1>7 DEF Greeting, Ends

\* How the writes of a word go on at an end.
LEMMA OneWord ==
    ASSUME ReadingInv, NEW e \in Ends,
           \A i, j \in WritesOf(writes[e], WordKinds) : i = j,
           Transmit(e) \/ (Context(e) /\ ~OnChallengeRead(e))
    PROVE  \A i, j \in WritesOf(writes'[e], WordKinds) : i = j
<1> DEFINE ws == writes[e]
<1>1. ws \in Seq(WriteOps) /\ outq[e] \in Seq(Message) /\ TypeOK
  BY SameAtEnd DEF ReadingInv
<1>2. CASE Transmit(e)
  <2>1. PICK i \in Waiting(ws) : writes' = [writes EXCEPT ![e][i].done = TRUE]
    BY <1>2 DEF Transmit
  <2>2. writes'[e] = [ws EXCEPT ![i] = [ws[i] EXCEPT !.done = TRUE]]
    BY <1>1, <2>1 DEF TypeOK
  <2> QED
    BY <1>1, <2>2, WritesDone
<1>3. CASE RunSend(e)
  <2>1. /\ outq'[e] \in Seq(Message)
        /\ writes'[e] = IF outq[e] = <<>> THEN ws \o WriteHeader(outq'[e]) ELSE ws
    <3>1. TypeOK'
      BY <1>3, RunSendType DEF ReadingInv
    <3> QED
      BY <1>1, <1>3, <3>1 DEF RunSend, TypeOK
  <2> QED
    BY <1>1, <2>1, AnswersAfterMessage
<1>4. CASE OnValidationWritten(e) \/ OnWriteFailed(e)
  <2>1. ws # <<>> /\ writes'[e] = Tail(ws)
    BY <1>1, <1>4 DEF OnValidationWritten, OnWriteFailed, Written, TypeOK
  <2> QED
    BY <1>1, <2>1, AnswersAfterTail
<1>5. CASE OnHeaderWritten(e) \/ OnBodyWritten(e)
  <2>1. ws # <<>> /\ outq[e] # <<>>
    BY <1>5, WritingFindsFront DEF ReadingInv, HandlersFindFront, OnHeaderWritten, OnBodyWritten,
       Written
  <2>2. Tail(outq[e]) \in Seq(Message) /\ Tail(ws) \in Seq(WriteOps)
    BY <1>1, <2>1, TailType
  <2>3. \/ writes'[e] = Tail(ws) \o WriteBody(outq[e])
        \/ writes'[e] = Tail(ws) \o WriteHeader(Tail(outq[e]))
    BY <1>1, <1>5 DEF OnHeaderWritten, OnBodyWritten, TypeOK
  <2>4. WritesOf(writes'[e], WordKinds) = WritesOf(Tail(ws), WordKinds)
    <3>1. CASE writes'[e] = Tail(ws) \o WriteBody(outq[e])
      <4>1. outq[e] \in Seq(Message) /\ outq[e] # <<>>
        BY <1>1, <2>1
      <4>2. WritesOf(Tail(ws) \o WriteBody(outq[e]), WordKinds) = WritesOf(Tail(ws), WordKinds)
        BY <2>2, <4>1, AnswersAfterMessage
      <4> QED
        BY <3>1, <4>2
    <3>2. CASE writes'[e] = Tail(ws) \o WriteHeader(Tail(outq[e]))
      BY <2>2, <3>2, AnswersAfterMessage
    <3> QED
      BY <2>3, <3>1, <3>2
  <2> QED
    BY <1>1, <2>1, <2>4, AnswersAfterTail
<1>6. CASE UNCHANGED writes
  BY <1>6
<1> QED
  BY <1>2, <1>3, <1>4, <1>5, <1>6
     DEF Context, RunClose, OnAnswerRead, OnHeaderRead, OnBodyRead, OnReadFailed

\* The thread of an io_context takes no word from the wire.
LEMMA ContextWords ==
    ASSUME ReadingInv, NEW e \in Ends, Context(e)
    PROVE  /\ \A f \in Ends : WordSent(f)' => WordSent(f)
           /\ \A f \in Ends : sock'[f] = "closed" => sock[f] = "closed" \/ wire'[f] = <<>>
           /\ \A f \in Ends : wire'[f] = wire[f] \/ wire'[f] = <<>>
           /\ UNCHANGED <<hsIn, connecting>>
           /\ sock'["server"] = "none" => sock["server"] = "none"
<1>1. TypeOK
  BY DEF ReadingInv
<1>2. UNCHANGED <<hsIn, connecting>>
  BY DEF Context, RunSend, RunClose, OnValidationWritten,
     OnHeaderWritten, OnBodyWritten, OnWriteFailed, OnChallengeRead, OnAnswerRead,
     OnHeaderRead, OnBodyRead, OnReadFailed, handshake, net
<1>3. UNCHANGED <<sock, wire>> \/ Close(e)
  BY DEF Context, RunSend, RunClose, OnValidationWritten,
     OnHeaderWritten, OnBodyWritten, OnWriteFailed, OnChallengeRead, OnAnswerRead,
     OnHeaderRead, OnBodyRead, OnReadFailed
<1>4. CASE UNCHANGED <<sock, wire>>
  BY <1>2, <1>4 DEF WordSent
<1>5. CASE Close(e)
  <2>1. /\ \A f \in Ends : wire'[f] = wire[f] \/ wire'[f] = <<>>
        /\ \A f \in Ends : sock'[f] = "closed" => sock[f] = "closed" \/ wire'[f] = <<>>
        /\ sock'["server"] = "none" => sock["server"] = "none"
    BY <1>1, <1>5 DEF Close, TypeOK
  <2> QED
    BY <1>2, <2>1 DEF WordSent
<1> QED
  BY <1>3, <1>4, <1>5

\* Parts of messages that are being written do not undo that the word is.
LEMMA WordStaysDone ==
    ASSUME ReadingInv, NEW e \in Ends, Context(e), ~OnChallengeRead(e), WordDone(e)
    PROVE  WordDone(e)'
<1>1. \A op \in Ops(writes'[e]) : op \in Ops(writes[e]) \/ op.chunk.kind # "word"
  <2>1. CASE \/ RunSend(e) \/ OnValidationWritten(e) \/ OnHeaderWritten(e)
             \/ OnBodyWritten(e) \/ OnWriteFailed(e)
    BY <2>1, MessageWriting
  <2>2. CASE UNCHANGED writes
    BY <2>2
  <2> QED
    BY <2>1, <2>2 DEF Context, RunClose, OnAnswerRead, OnHeaderRead, OnBodyRead, OnReadFailed
<1> QED
  BY <1>1 DEF WordDone

\* The reads of a word that there are after a step of an io_context's thread.
LEMMA ContextReads ==
    ASSUME ReadingInv, NEW e \in Ends, Context(e)
    PROVE  \A op \in Ops(reads'[e]) : op.kind = "word" => op \in Ops(reads[e])
<1> DEFINE rs == reads[e]
<1>1. rs \in Seq(ReadOps) /\ TypeOK
  BY DEF ReadingInv, TypeOK, ReadOps
<1>2. \/ reads'[e] = rs
      \/ rs # <<>> /\ reads'[e] = Tail(rs)
      \/ rs # <<>> /\ \E k \in {"header", "body"} : reads'[e] = Append(Tail(rs), Read(k))
      \/ reads'[e] = Append(rs, Read("header"))
  BY <1>1 DEF TypeOK, Context, RunSend, RunClose, OnValidationWritten,
     OnHeaderWritten, OnBodyWritten, OnWriteFailed, OnChallengeRead, OnAnswerRead,
     OnHeaderRead, OnBodyRead, OnReadFailed, ReadDone, AddToIncomingMessageQueue
<1>3. \A k \in {"header", "body"} : Read(k) \in ReadOps /\ Read(k).kind # "word"
  BY OpTypes
<1>4. ASSUME rs # <<>>, NEW k \in {"header", "body"}
      PROVE  \A op \in Ops(Append(Tail(rs), Read(k))) : op.kind # "word"
  BY <1>3, <1>4, ReadOne, NextRead
<1>5. \A op \in Ops(Append(rs, Read("header"))) : op.kind = "word" => op \in Ops(rs)
  <2> DEFINE x == Read("header")
  <2>1. x \in ReadOps /\ x.kind # "word"
    BY <1>3
  <2> HIDE DEF x
  <2>2. Ops(Append(rs, x)) = Ops(rs) \cup {x}
    BY <1>1, <2>1, OpsAppend
  <2> QED
    BY <2>1, <2>2 DEF x
<1>6. rs # <<>> => Ops(Tail(rs)) \subseteq Ops(rs)
  BY <1>1, OpsTail
<1> QED
  BY <1>2, <1>4, <1>5, <1>6

LEMMA ContextGreeting ==
    ASSUME ChallengeInv, Greeting, NEW e \in Ends, Context(e)
    PROVE  Greeting'
<1>1. ReadingInv /\ TypeOK
  BY DEF ChallengeInv, ReadingInv
<1>2. /\ \A f \in Ends : WordSent(f)' => WordSent(f)
      /\ \A f \in Ends : sock'[f] = "closed" => sock[f] = "closed" \/ wire'[f] = <<>>
      /\ \A f \in Ends : wire'[f] = wire[f] \/ wire'[f] = <<>>
      /\ UNCHANGED <<hsIn, connecting>>
      /\ sock'["server"] = "none" => sock["server"] = "none"
  BY <1>1, ContextWords
<1>3. writes'[Peer(e)] = writes[Peer(e)] /\ reads'[Peer(e)] = reads[Peer(e)]
  BY <1>1, OtherEnd, PeerIs
<1>4. \A op \in Ops(reads'[e]) : op.kind = "word" => op \in Ops(reads[e])
  BY <1>1, ContextReads
<1>5. \A f \in Ends : WordSent(f)' => WordDone(Peer(f))'
  <2> SUFFICES ASSUME NEW f \in Ends, WordSent(f)'
               PROVE  WordDone(Peer(f))'
    OBVIOUS
  <2>1. WordSent(f) /\ WordDone(Peer(f))
    BY <1>2 DEF Greeting
  <2>2. CASE f = e
    BY <1>3, <2>1, <2>2 DEF WordDone
  <2>3. CASE Peer(f) = e
    <3>1. ~OnChallengeRead(e)
      <4> SUFFICES ASSUME OnChallengeRead(e) PROVE FALSE
        OBVIOUS
      <4>1. e = "client" /\ reads[e] # <<>> /\ Head(reads[e]).kind = "word"
        BY DEF OnChallengeRead, ReadDone
      <4>2. Head(reads[e]) \in Ops(reads[e])
        BY <1>1, <4>1, ReadOne
      <4>3. f = "server"
        BY <2>3, <4>1, PeerIs DEF Ends
      <4> QED
        BY <2>1, <4>1, <4>2, <4>3 DEF Greeting
    <3> QED
      BY <1>1, <2>1, <2>3, <3>1, WordStaysDone
  <2> QED
    BY <2>2, <2>3, PeerIs DEF Ends
<1>6. \A i, j \in WritesOf(writes'["server"], WordKinds) : i = j
  <2>1. CASE e = "server"
    BY <1>1, <2>1, OneWord DEF Greeting, OnChallengeRead
  <2>2. CASE e = "client"
    BY <1>3, <2>2, PeerIs DEF Greeting
  <2> QED
    BY <2>1, <2>2 DEF Ends
<1>7. /\ \A op \in Ops(reads'["client"]) : op.kind = "word" => op \in Ops(reads["client"])
      /\ \A op \in Ops(reads'["server"]) : op.kind = "word" => op \in Ops(reads["server"])
  BY <1>3, <1>4, PeerIs DEF Ends
<1>8. WordSent("server")' =>
        connecting' = "handled" /\ \A op \in Ops(reads'["client"]) : op.kind # "word"
  BY <1>2, <1>7, PeerIs DEF Greeting
<1>9. sock'["server"] = "none" =>
        hsIn'["server"] = "zero" /\ hsIn'["client"] = "zero" /\ wire'["client"] = <<>>
  BY <1>2, PeerIs DEF Greeting
<1>10. \A op \in Ops(reads'["server"]) :
        op.kind = "word" /\ ~op.done => hsIn'["server"] = "zero"
  BY <1>2, <1>7 DEF Greeting
<1>11. hsIn'["server"] = "zero" /\ WordSent("server")' =>
        Head(wire'["server"]) = WordChunk("answer")
  <2> SUFFICES ASSUME hsIn'["server"] = "zero", WordSent("server")'
               PROVE  Head(wire'["server"]) = WordChunk("answer")
    OBVIOUS
  <2>1. wire'["server"] # <<>>
    BY DEF WordSent, HelloWord
  <2> QED
    BY <1>2, <2>1, PeerIs DEF Greeting
<1>12. \A f \in Ends : sock'[f] = "closed" => wire'[f] = <<>>
  BY <1>2 DEF Greeting
<1> QED
  BY <1>5, <1>6, <1>8, <1>9, <1>10, <1>11, <1>12 DEF Greeting

-----------------------------------------------------------------------------
(* The operating system fills a read.                                      *)

\* Whoever reads messages has had the word it expects.
LEMMA MessageReadGreets ==
    ASSUME ChallengeInv, NEW e \in Ends, NEW op \in MessageReads(reads[e])
    PROVE  hsIn[e] = HelloWord(e)
<1>1. op \in Ops(reads[e]) /\ op.kind # "word"
  BY DEF MessageReads
<1>2. CASE e = "client"
  BY <1>1, <1>2 DEF ChallengeInv, Challenged, HelloWord
<1>3. CASE e = "server"
  <2>1. \E i \in DOMAIN reads["server"] : reads["server"][i].kind # "word"
    BY <1>1, <1>3 DEF Ops
  <2> QED
    BY <1>3, <2>1 DEF ChallengeInv, ReadingInv, Validated, OnlyValidatedHeard,
       m_nHandshakeCheck, Scramble, HelloWord
<1> QED
  BY <1>2, <1>3 DEF Ends

\* An end that reads a word has had none.
LEMMA WordReadIsFirst ==
    ASSUME ChallengeInv, Greeting, NEW e \in Ends, NEW op \in Ops(reads[e]),
           op.kind = "word", ~op.done
    PROVE  hsIn[e] = "zero"
  BY DEF ChallengeInv, Challenged, Greeting, Ends

LEMMA GreetingWord ==
    ASSUME ChallengeInv, Greeting, NEW e \in Ends, hsIn[e] = "zero", WordSent(e)
    PROVE  Head(wire[e]) = WordChunk(HelloWord(e))
<1>1. wire[e] # <<>>
  BY DEF WordSent, HelloWord
<1> QED
  BY <1>1 DEF ChallengeInv, ChallengeFirst, Greeting, Ends, HelloWord

LEMMA WordChunkIs ==
    /\ \A w : WordChunk(w).kind = "word" /\ WordChunk(w).word = w
    /\ \A x \in Chunks : x.kind = "word" => x = WordChunk(x.word)
  BY DEF WordChunk, Chunks

\* What a read that is filled does to the end.
LEMMA FillEffect ==
    ASSUME ReadingInv, NEW e \in Ends, Fill(e)
    PROVE  LET r == Head(reads[e])
               x == Head(wire[e])
           IN  /\ reads[e] # <<>> /\ ~r.done /\ r \in ReadOps /\ Ops(reads[e]) = {r}
               /\ \A op \in Ops(reads'[e]) : op.done /\ op.kind = r.kind
               /\ Ops(reads'[e]) # {}
               /\ wire[e] # <<>> /\ x \in Chunks /\ wire'[e] = Tail(wire[e])
               /\ r.kind = "word" =>
                    tmp'[e] = tmp[e] /\ hsIn'[e] = IF x.kind = "word" THEN x.word ELSE "other"
               /\ r.kind # "word" => hsIn'[e] = hsIn[e]
               /\ r.kind = "header" =>
                    \E h \in HeadersFrom(x) : tmp'[e].id = h.id /\ tmp'[e].size = h.size
               /\ r.kind = "body" =>
                    \E body \in BodiesFrom(x, tmp[e].size) :
                        /\ tmp'[e].id = tmp[e].id /\ tmp'[e].size = tmp[e].size
                        /\ tmp'[e].body = body
<1> DEFINE rs == reads[e]
           x == Head(wire[e])
<1>1. /\ rs \in Seq(ReadOps) /\ wire[e] \in Seq(Chunks) /\ wire[e] # <<>>
      /\ Len(rs) <= 1 /\ TypeOK /\ DOMAIN reads = Ends
  BY DEF ReadingInv, TypeOK, Reading, ReadOps, Fill
<1>2. PICK i \in Waiting(rs) :
        /\ reads' = [reads EXCEPT ![e][i].done = TRUE]
        /\ \/ /\ rs[i].kind = "word"
              /\ hsIn' = [hsIn EXCEPT ![e] = IF x.kind = "word" THEN x.word ELSE "other"]
              /\ UNCHANGED tmp
           \/ /\ rs[i].kind = "header"
              /\ \E h \in HeadersFrom(x) :
                    tmp' = [tmp EXCEPT ![e].id = h.id, ![e].size = h.size]
              /\ UNCHANGED hsIn
           \/ /\ rs[i].kind = "body"
              /\ \E body \in BodiesFrom(x, tmp[e].size) : tmp' = [tmp EXCEPT ![e].body = body]
              /\ UNCHANGED hsIn
  BY DEF Fill
<1>3. i \in DOMAIN rs /\ rs[i] \in ReadOps /\ ~rs[i].done
  BY <1>1, WaitingProperties DEF Waiting
<1>4. rs # <<>>
  BY <1>3
<1>5. i = 1 /\ DOMAIN rs = {1} /\ rs[1] = Head(rs) /\ Ops(rs) = {Head(rs)}
  BY <1>3, <1>4, OnlyRead, ReadOne
<1>6. x \in Chunks /\ wire'[e] = Tail(wire[e])
  BY <1>1, TailType DEF Fill, TypeOK
<1>7. DOMAIN reads'[e] = {1} /\ reads'[e][1] = [rs[1] EXCEPT !.done = TRUE]
  BY <1>1, <1>2, <1>5
<1>8. reads'[e][1].done /\ reads'[e][1].kind = rs[1].kind
  BY <1>3, <1>5, <1>7 DEF ReadOps
<1>9. Ops(reads'[e]) = {reads'[e][1]}
  BY <1>7 DEF Ops
<1>10. tmp \in [Ends -> Message] /\ hsIn \in [Ends -> Words]
  BY <1>1 DEF TypeOK
<1>11. CASE rs[1].kind = "word"
  BY <1>1, <1>2, <1>3, <1>4, <1>5, <1>6, <1>8, <1>9, <1>10, <1>11
<1>12. CASE rs[1].kind = "header"
  <2>1. PICK h \in HeadersFrom(x) : tmp' = [tmp EXCEPT ![e].id = h.id, ![e].size = h.size]
    BY <1>2, <1>5, <1>12
  <2>2. tmp'[e].id = h.id /\ tmp'[e].size = h.size
    BY <1>10, <2>1 DEF Message
  <2>3. UNCHANGED hsIn
    BY <1>2, <1>5, <1>12
  <2> QED
    BY <1>1, <1>3, <1>4, <1>5, <1>6, <1>8, <1>9, <1>12, <2>2, <2>3
<1>13. CASE rs[1].kind = "body"
  <2>1. PICK body \in BodiesFrom(x, tmp[e].size) : tmp' = [tmp EXCEPT ![e].body = body]
    BY <1>2, <1>5, <1>13
  <2>2. tmp'[e].id = tmp[e].id /\ tmp'[e].size = tmp[e].size /\ tmp'[e].body = body
    BY <1>10, <2>1 DEF Message
  <2>3. UNCHANGED hsIn
    BY <1>2, <1>5, <1>13
  <2> QED
    BY <1>1, <1>3, <1>4, <1>5, <1>6, <1>8, <1>9, <1>13, <2>2, <2>3
<1> QED
  BY <1>2, <1>5, <1>11, <1>12, <1>13

\* Taking a word from the wire.
LEMMA FillWord ==
    ASSUME ChallengeInv, Greeting, NEW e \in Ends, Fill(e)
    PROVE  /\ hsIn'[e] # "zero"
           /\ hsIn'[e] = HelloWord(e) =>
                \/ hsIn[e] = HelloWord(e) /\ Head(reads[e]).kind # "word"
                \/ /\ hsIn[e] = "zero" /\ Head(reads[e]).kind = "word"
                   /\ Head(wire[e]) = WordChunk(HelloWord(e))
<1> DEFINE r == Head(reads[e])
           x == Head(wire[e])
<1>1. ReadingInv
  BY DEF ChallengeInv
<1>2. CASE r.kind = "word"
  <2>1. /\ Ops(reads[e]) = {r} /\ ~r.done /\ wire[e] # <<>> /\ x \in Chunks
        /\ hsIn'[e] = IF x.kind = "word" THEN x.word ELSE "other"
    BY <1>1, <1>2, FillEffect
  <2>2. hsIn[e] = "zero"
    BY <1>2, <2>1, WordReadIsFirst
  <2>3. x.kind = "word" => x = WordChunk(HelloWord(e))
    <3>1. x.kind = "word" => WordSent(e)
      BY <2>1, <2>2 DEF WordSent
    <3> QED
      BY <2>2, <3>1, GreetingWord
  <2>4. HelloWord(e) \notin {"zero", "other"}
    BY DEF HelloWord
  <2> QED
    BY <1>2, <2>1, <2>2, <2>3, <2>4, WordChunkIs
<1>3. CASE r.kind # "word"
  <2>1. r \in MessageReads(reads[e]) /\ hsIn'[e] = hsIn[e]
    BY <1>1, <1>3, FillEffect DEF MessageReads
  <2>2. hsIn[e] = HelloWord(e)
    BY <2>1, MessageReadGreets
  <2> QED
    BY <1>3, <2>1, <2>2 DEF HelloWord
<1> QED
  BY <1>2, <1>3

LEMMA FillGreeting ==
    ASSUME ChallengeInv, Greeting, NEW e \in Ends, Fill(e)
    PROVE  Greeting'
<1>1. ReadingInv /\ TypeOK
  BY DEF ChallengeInv, ReadingInv
<1>2. /\ UNCHANGED <<sock, writes, connecting>> /\ sock[e] = "open" /\ wire[e] # <<>>
      /\ wire' = [wire EXCEPT ![e] = Tail(@)]
  BY DEF Fill, net, IsConnected
<1>3. /\ reads'[Peer(e)] = reads[Peer(e)] /\ hsIn'[Peer(e)] = hsIn[Peer(e)]
      /\ wire'[Peer(e)] = wire[Peer(e)]
  BY <1>1, <1>2, OtherEnd, PeerIs DEF Fill, TypeOK
<1>4. WordSent(e)' => WordSent(e)
  BY <1>2, FillWord, WordChunkIs DEF WordSent
<1>5. \A f \in Ends : WordSent(f)' => WordSent(f)
  <2>1. WordSent(Peer(e))' => WordSent(Peer(e))
    BY <1>3 DEF WordSent
  <2> QED
    BY <1>4, <2>1, PeerIs DEF Ends
<1>6. \A f \in Ends : WordSent(f)' => WordDone(Peer(f))'
  BY <1>2, <1>5 DEF Greeting, WordDone
<1>7. WordSent("server")' =>
        connecting' = "handled" /\ \A op \in Ops(reads'["client"]) : op.kind # "word"
  <2> SUFFICES ASSUME WordSent("server")'
               PROVE  connecting = "handled" /\ \A op \in Ops(reads'["client"]) : op.kind # "word"
    BY <1>2
  <2>1. connecting = "handled" /\ \A op \in Ops(reads["client"]) : op.kind # "word"
    BY <1>5, PeerIs DEF Greeting
  <2>2. CASE e = "client"
    <3>1. Ops(reads["client"]) = {Head(reads["client"])}
      BY <1>1, <2>2, FillEffect
    <3>2. \A op \in Ops(reads'["client"]) : op.kind = Head(reads["client"]).kind
      BY <1>1, <2>2, FillEffect
    <3> QED
      BY <2>1, <3>1, <3>2
  <2>3. CASE e = "server"
    BY <1>3, <2>1, <2>3, PeerIs
  <2> QED
    BY <2>2, <2>3 DEF Ends
<1>8. sock["server"] # "none"
  BY <1>2 DEF Greeting, Ends
<1>9. \A op \in Ops(reads'["server"]) :
        op.kind = "word" /\ ~op.done => hsIn'["server"] = "zero"
  <2>1. CASE e = "server"
    BY <1>1, <2>1, FillEffect
  <2>2. CASE e = "client"
    BY <1>3, <2>2, PeerIs DEF Greeting
  <2> QED
    BY <2>1, <2>2 DEF Ends
<1>10. hsIn'["server"] = "zero" /\ WordSent("server")' =>
        Head(wire'["server"]) = WordChunk("answer")
  <2>1. CASE e = "server"
    BY <2>1, FillWord
  <2>2. CASE e = "client"
    BY <1>3, <1>5, <2>2, PeerIs DEF Greeting
  <2> QED
    BY <2>1, <2>2 DEF Ends
<1>11. \A f \in Ends : sock'[f] = "closed" => wire'[f] = <<>>
  BY <1>2, <1>3, PeerIs DEF Greeting, Ends
<1> QED
  BY <1>2, <1>6, <1>7, <1>8, <1>9, <1>10, <1>11 DEF Greeting

\* What e has received, when a read of it is filled.
LEMMA FillReceiving ==
    ASSUME ChallengeInv, Greeting, Origin, NEW e \in Ends, Receiving(e), Flow(e), Fill(e)
    PROVE  Receiving(e)' /\ Flow(e)'
<1> DEFINE r == Head(reads[e])
           x == Head(wire[e])
           S == sent[Peer(e)]
           k == NextMessage(e)
<1>1. ReadingInv /\ TypeOK /\ Peer(e) \in Ends
  BY PeerIs DEF ChallengeInv, ReadingInv
<1>2. UNCHANGED <<sock, writes, sent, posted, outq, delivered>> /\ sock[e] # "closed"
  BY DEF Fill, IsConnected
<1>3. /\ reads[e] # <<>> /\ ~r.done /\ r \in ReadOps /\ Ops(reads[e]) = {r}
      /\ \A op \in Ops(reads'[e]) : op.done /\ op.kind = r.kind
      /\ Ops(reads'[e]) # {}
      /\ wire[e] # <<>> /\ x \in Chunks /\ wire'[e] = Tail(wire[e])
  BY <1>1, FillEffect
<1>4. PICK b : /\ Sending(Peer(e), b)
               /\ Greets(e) => \E a : ReaderAt(e, a) /\ Path(WireSteps(S), Stream(e), a, b)
  BY <1>2 DEF Flow
<1>5. Sending(Peer(e), b)'
  BY <1>1, <1>2, <1>4, QuietSending
<1>6. hsIn'[e] # "zero"
  BY FillWord
<1>7. Stream(e)' = Tail(wire[e])
  BY <1>3, <1>6 DEF Stream
<1>9. CASE r.kind = "word"
  <2>1. MessageReads(reads[e]) = {} /\ MessageReads(reads'[e]) = {} /\ tmp'[e] = tmp[e]
    BY <1>1, <1>3, <1>9, FillEffect DEF MessageReads
  <2>2. Receiving(e)' /\ \A a : ReaderAt(e, a) => ReaderAt(e, a)'
    BY <1>2, <2>1, QuietReceiving
  <2>3. ASSUME Greets(e)'
        PROVE  \E a : ReaderAt(e, a)' /\ Path(WireSteps(S), Tail(wire[e]), a, b)
    <3>1. hsIn'[e] = HelloWord(e)
      BY <1>6, <2>3 DEF Greets
    <3>2. hsIn[e] = "zero" /\ x = WordChunk(HelloWord(e))
      BY <1>9, <3>1, FillWord
    <3>3. Greets(e) /\ Stream(e) = Tail(wire[e])
      BY <1>3, <3>2 DEF Greets, Stream
    <3> QED
      BY <1>4, <2>2, <3>3
  <2> QED
    BY <1>2, <1>5, <1>7, <2>2, <2>3 DEF Flow
<1>10. CASE r.kind # "word"
  <2>1. r \in MessageReads(reads[e]) /\ hsIn[e] = HelloWord(e)
    BY <1>3, <1>10, MessageReadGreets DEF MessageReads
  <2>2. Greets(e) /\ Stream(e) = wire[e]
    BY <2>1 DEF Greets, Stream, HelloWord
  <2>3. PICK a : ReaderAt(e, a) /\ Path(WireSteps(S), wire[e], a, b)
    BY <1>4, <2>2
  <2>4. PICK c : <<a, x, c>> \in WireSteps(S) /\ Path(WireSteps(S), Tail(wire[e]), c, b)
    BY <1>1, <1>3, <2>3, PathTail DEF TypeOK
  <2>5. a \in Positions(S) /\ x = ChunkAt(S, a) /\ c = After(S, a)
    BY <2>4, WireStepsAre
  <2>6. a = At(k, r.kind) /\ r.kind \in {"header", "body"}
    BY <1>3, <1>10, <2>1, <2>3 DEF ReaderAt, Reached, ReadOps
  <2>7. a.n = k /\ a.part = r.kind /\ k \in 1..Len(S)
    BY <2>5, <2>6, AtParts DEF Positions
  <2>8. S[k] \in Message /\ S[k].size = Len(S[k].body)
    BY <1>1, <2>7, SentSizes
  <2>9. /\ tmp'[e].id = S[k].id /\ tmp'[e].size = S[k].size
        /\ r.kind = "body" => tmp'[e].size > 0 /\ tmp'[e].body = S[k].body
    <3>1. CASE r.kind = "header"
      <4>1. x = HeaderChunk(S[k])
        BY <2>5, <2>7, <3>1 DEF ChunkAt
      <4>2. PICK h \in HeadersFrom(x) : tmp'[e].id = h.id /\ tmp'[e].size = h.size
        BY <1>1, <3>1, FillEffect
      <4>3. h = [id |-> S[k].id, size |-> S[k].size]
        BY <4>1, <4>2 DEF HeadersFrom, HeaderChunk
      <4> QED
        BY <3>1, <4>2, <4>3
    <3>2. CASE r.kind = "body"
      <4>1. x.kind = "body" /\ x.data = S[k].body
        BY <2>5, <2>7, <3>2 DEF ChunkAt, BodyChunk
      <4>2. tmp[e].id = S[k].id /\ tmp[e].size = S[k].size /\ tmp[e].size > 0
        BY <2>1, <3>2 DEF Receiving, Taken
      <4>3. PICK body \in BodiesFrom(x, tmp[e].size) :
                /\ tmp'[e].id = tmp[e].id /\ tmp'[e].size = tmp[e].size
                /\ tmp'[e].body = body
        BY <1>1, <3>2, FillEffect
      <4>4. body = S[k].body
        BY <2>8, <4>1, <4>2, <4>3 DEF BodiesFrom
      <4> QED
        BY <4>2, <4>3, <4>4
    <3> QED
      BY <2>6, <3>1, <3>2
  <2>10. NextMessage(e)' = k /\ sent' = sent
    BY <1>2 DEF NextMessage
  <2>11. \A op \in MessageReads(reads'[e]) : op.done /\ op.kind = r.kind
    BY <1>3 DEF MessageReads
  <2>12. MessageReads(reads'[e]) # {}
    BY <1>3, <1>10 DEF MessageReads
  <2>13. Taken(e)'
    BY <2>7, <2>9, <2>10, <2>11 DEF Taken
  <2>14. Arrived(e)'
    BY <1>2 DEF Receiving, Arrived
  <2>15. ReaderAt(e, c)'
    BY <2>5, <2>6, <2>10, <2>11, <2>12 DEF ReaderAt, Reached
  <2> QED
    BY <1>2, <1>5, <1>7, <2>4, <2>13, <2>14, <2>15 DEF Flow, Receiving
<1> QED
  BY <1>9, <1>10

-----------------------------------------------------------------------------
(* The operating system sends what is written.                             *)

\* What sending a part does to its sender and to the wire.
LEMMA TransmitEffect ==
    ASSUME TypeOK, NEW e \in Ends, Transmit(e)
    PROVE  \E i \in Waiting(writes[e]) :
        /\ i \in DOMAIN writes[e] /\ ~writes[e][i].done
        /\ writes[e][i] \in Ops(writes[e]) /\ writes[e][i].chunk \in Chunks
        /\ writes'[e] = [writes[e] EXCEPT ![i] = [writes[e][i] EXCEPT !.done = TRUE]]
        /\ \A p \in Ops(writes'[e]) :
              \E j \in DOMAIN writes[e] :
                  /\ p.chunk = writes[e][j].chunk
                  /\ j = i => p.done
                  /\ j # i => p = writes[e][j]
        /\ sock[Peer(e)] = "closed" => wire'[Peer(e)] = wire[Peer(e)]
        /\ sock[Peer(e)] # "closed" =>
              /\ wire'[Peer(e)] = Append(wire[Peer(e)], writes[e][i].chunk)
              /\ wire'[Peer(e)] # <<>>
              /\ Head(wire'[Peer(e)]) = IF wire[Peer(e)] = <<>> THEN writes[e][i].chunk
                                       ELSE Head(wire[Peer(e)])
<1> DEFINE ws == writes[e]
           f == Peer(e)
<1>1. ws \in Seq(WriteOps) /\ wire[f] \in Seq(Chunks) /\ f \in Ends
  BY SameAtEnd, PeerIs DEF TypeOK
<1>2. PICK i \in Waiting(ws) :
        /\ writes' = [writes EXCEPT ![e][i].done = TRUE]
        /\ wire' = IF sock[f] = "closed" THEN wire
                   ELSE [wire EXCEPT ![f] = Append(wire[f], ws[i].chunk)]
  BY <1>1 DEF Transmit, TypeOK
<1> DEFINE op == ws[i]
           x == op.chunk
           vs == [ws EXCEPT ![i] = [op EXCEPT !.done = TRUE]]
<1>3. i \in DOMAIN ws /\ op \in WriteOps /\ ~op.done /\ x \in Chunks
  BY <1>1, WaitingProperties, DoneTypes
<1>4. op \in Ops(ws)
  BY <1>3 DEF Ops
<1>5. writes'[e] = vs
  BY <1>1, <1>2 DEF TypeOK
  <1>6. /\ DOMAIN vs = DOMAIN ws /\ vs[i].done /\ vs[i].chunk = x
        /\ \A j \in DOMAIN ws : j # i => vs[j] = ws[j]
  <2>1. [op EXCEPT !.done = TRUE].done /\ [op EXCEPT !.done = TRUE].chunk = x
    BY <1>3 DEF WriteOps
  <2> QED
    BY <1>3, <2>1
<1>7. sock[f] = "closed" => wire'[f] = wire[f]
  BY <1>2
<1>8. sock[f] # "closed" =>
        /\ wire'[f] = Append(wire[f], x)
        /\ wire'[f] # <<>>
        /\ Head(wire'[f]) = IF wire[f] = <<>> THEN x ELSE Head(wire[f])
  <2> SUFFICES ASSUME sock[f] # "closed"
               PROVE  /\ wire'[f] = Append(wire[f], x)
                      /\ wire'[f] # <<>>
                      /\ Head(wire'[f]) = IF wire[f] = <<>> THEN x ELSE Head(wire[f])
    OBVIOUS
  <2>1. wire'[f] = Append(wire[f], x)
    BY <1>1, <1>2 DEF TypeOK
  <2> HIDE DEF x
  <2>2. /\ Append(wire[f], x) # <<>>
        /\ Head(Append(wire[f], x)) = IF wire[f] = <<>> THEN x ELSE Head(wire[f])
    BY <1>1, <1>3, OpsAppend
  <2> QED
    BY <2>1, <2>2
<1> HIDE DEF vs
<1>9. \A p \in Ops(vs) : \E j \in DOMAIN ws :
        p.chunk = ws[j].chunk /\ (j = i => p.done) /\ (j # i => p = ws[j])
  <2> SUFFICES ASSUME NEW p \in Ops(vs)
               PROVE  \E j \in DOMAIN ws :
                        p.chunk = ws[j].chunk /\ (j = i => p.done) /\ (j # i => p = ws[j])
    OBVIOUS
  <2>1. PICK j \in DOMAIN ws : p = vs[j]
    BY <1>6 DEF Ops
  <2>2. p.chunk = ws[j].chunk /\ (j = i => p.done) /\ (j # i => p = ws[j])
    BY <1>6, <2>1
  <2> QED
    BY <2>2
<1> QED
  BY <1>3, <1>4, <1>5, <1>7, <1>8, <1>9 DEF vs

LEMMA TransmitGreeting ==
    ASSUME ChallengeInv, Greeting, NEW e \in Ends, Transmit(e)
    PROVE  Greeting'
<1> DEFINE f == Peer(e)
           ws == writes[e]
<1>1. ReadingInv /\ TypeOK /\ f \in Ends /\ f # e /\ Peer(f) = e
  BY PeerIs DEF ChallengeInv, ReadingInv
<1>2. UNCHANGED <<sock, hsIn, reads, connecting>> /\ sock[e] = "open"
  BY DEF Transmit, handshake, net, IsConnected
<1>3. wire'[e] = wire[e] /\ writes'[f] = writes[f]
  <2>1. wire'[e] = wire[e]
    BY <1>1 DEF Transmit, TypeOK
  <2> QED
    BY <1>1, <2>1, OtherEnd
<1>4. PICK i \in Waiting(ws) :
        /\ i \in DOMAIN ws /\ ~ws[i].done /\ ws[i] \in Ops(ws)
        /\ \A p \in Ops(writes'[e]) :
              \E j \in DOMAIN ws :
                  /\ p.chunk = ws[j].chunk
                  /\ j = i => p.done
                  /\ j # i => p = ws[j]
        /\ sock[f] = "closed" => wire'[f] = wire[f]
        /\ sock[f] # "closed" =>
              /\ wire'[f] # <<>>
              /\ Head(wire'[f]) = IF wire[f] = <<>> THEN ws[i].chunk ELSE Head(wire[f])
  BY <1>1, TransmitEffect
<1>5. \A j, k \in WritesOf(ws, WordKinds) : j = k
  BY <1>1 DEF Greeting, ReadingInv, Reading, AnswerWrites, Ends
<1>6. WordSent(e)' <=> WordSent(e)
  BY <1>2, <1>3 DEF WordSent
<1>7. WordSent(f)' => WordSent(f) \/ ws[i].chunk.kind = "word"
  BY <1>2, <1>4 DEF WordSent
<1>8. WordSent(f)' => WordDone(e)'
  <2> SUFFICES ASSUME WordSent(f)', NEW p \in Ops(writes'[e]), p.chunk.kind = "word"
               PROVE  p.done
    BY DEF WordDone
  <2>1. PICK j \in DOMAIN ws : p.chunk = ws[j].chunk /\ (j = i => p.done) /\ (j # i => p = ws[j])
    BY <1>4
  <2>2. CASE ws[i].chunk.kind = "word"
    <3>1. i \in WritesOf(ws, WordKinds) /\ j \in WritesOf(ws, WordKinds)
      BY <1>4, <2>1, <2>2 DEF WritesOf, WordKinds
    <3> QED
      BY <1>5, <2>1, <3>1
  <2>3. CASE ws[i].chunk.kind # "word"
    <3>1. WordDone(e)
      BY <1>1, <1>7, <2>3 DEF Greeting
    <3>2. ws[j] \in Ops(ws)
      BY DEF Ops
    <3> QED
      BY <2>1, <3>1, <3>2 DEF WordDone
  <2> QED
    BY <2>2, <2>3
<1>9. \A g \in Ends : WordSent(g)' => WordDone(Peer(g))'
  <2>1. WordSent(e)' => WordDone(f)'
    BY <1>3, <1>6 DEF Greeting, WordDone
  <2> QED
    BY <1>1, <1>8, <2>1, PeerIs DEF Ends
<1>10. \A j, k \in WritesOf(writes'["server"], WordKinds) : j = k
  <2>1. CASE e = "server"
    BY <1>1, <2>1, OneWord DEF Greeting
  <2>2. CASE e = "client"
    BY <1>3, <2>2, PeerIs DEF Greeting
  <2> QED
    BY <2>1, <2>2 DEF Ends
<1>11. ASSUME e = "client", ws[i].chunk.kind = "word"
       PROVE  connecting = "handled" /\ reads["client"] = <<>>
  <2>1. AnswerWrites # {}
    BY <1>4, <1>11 DEF AnswerWrites, WritesOf, WordKinds
  <2> QED
    BY <1>1, <2>1 DEF ReadingInv, Reading
<1>12. WordSent("server")' =>
        connecting' = "handled" /\ \A op \in Ops(reads'["client"]) : op.kind # "word"
  <2> SUFFICES ASSUME WordSent("server")'
               PROVE  connecting = "handled" /\ \A op \in Ops(reads["client"]) : op.kind # "word"
    BY <1>2
  <2>1. CASE WordSent("server")
    BY <2>1 DEF Greeting
  <2>2. CASE ~WordSent("server")
    <3>1. e = "client" /\ ws[i].chunk.kind = "word"
      BY <1>6, <1>7, <2>2, PeerIs DEF Ends
    <3> QED
      BY <1>11, <3>1, OpsNone
  <2> QED
    BY <2>1, <2>2
<1>13. sock'["server"] = "none" =>
        hsIn'["server"] = "zero" /\ hsIn'["client"] = "zero" /\ wire'["client"] = <<>>
  <2>1. sock["server"] = "none" => e = "client"
    BY <1>2 DEF Ends
  <2> QED
    BY <1>2, <1>3, <2>1 DEF Greeting
<1>14. hsIn'["server"] = "zero" /\ WordSent("server")' =>
        Head(wire'["server"]) = WordChunk("answer")
  <2> SUFFICES ASSUME hsIn["server"] = "zero", WordSent("server")'
               PROVE  Head(wire'["server"]) = WordChunk("answer")
    BY <1>2
  <2>1. CASE e = "server"
    BY <1>3, <1>6, <2>1 DEF Greeting
  <2>2. CASE e = "client"
    <3>1. f = "server" /\ wire'["server"] # <<>> /\ Head(wire'["server"]).kind = "word"
      BY <1>2, <2>2, PeerIs DEF WordSent, HelloWord
    <3>2. CASE wire["server"] # <<>>
      <4>1. Head(wire'["server"]) = Head(wire["server"])
        BY <1>4, <3>1, <3>2
      <4>2. WordSent("server")
        BY <3>1, <3>2, <4>1 DEF WordSent
      <4> QED
        BY <4>1, <4>2 DEF Greeting
    <3>3. CASE wire["server"] = <<>>
      <4>1. Head(wire'["server"]) = ws[i].chunk
        BY <1>4, <3>1, <3>3
      <4>2. ws[i] \in Ops(writes["client"])
        BY <1>4, <2>2
      <4> QED
        BY <3>1, <4>1, <4>2 DEF ChallengeInv, Challenged
    <3> QED
      BY <3>2, <3>3
  <2> QED
    BY <2>1, <2>2 DEF Ends
<1>15. \A g \in Ends : sock'[g] = "closed" => wire'[g] = <<>>
  <2>1. \A g \in Ends : g = e \/ g = f
    BY PeerIs DEF Ends
  <2> QED
    BY <1>2, <1>3, <1>4, <2>1 DEF Greeting
<1>16. \A op \in Ops(reads'["server"]) :
        op.kind = "word" /\ ~op.done => hsIn'["server"] = "zero"
  BY <1>2 DEF Greeting
<1> QED
  BY <1>9, <1>10, <1>12, <1>13, <1>14, <1>15, <1>16 DEF Greeting

\* The part that is sent goes to the end of the peer's stream, unless it is a word,
\* which goes before it.
LEMMA TransmitStream ==
    ASSUME ChallengeInv, Greeting, NEW e \in Ends, NEW x \in Chunks, NEW i \in DOMAIN writes[e],
           ~writes[e][i].done, x = writes[e][i].chunk,
           hsIn'[Peer(e)] = hsIn[Peer(e)],
           wire'[Peer(e)] = Append(wire[Peer(e)], x),
           Greets(Peer(e))'
    PROVE  /\ Greets(Peer(e))
           /\ Stream(Peer(e)) \in Seq(Chunks)
           /\ Stream(Peer(e))' = IF x.kind = "word" THEN Stream(Peer(e))
                                 ELSE Append(Stream(Peer(e)), x)
<1> DEFINE f == Peer(e)
           w == wire[f]
           v == Append(w, x)
<1>1. f \in Ends /\ Peer(f) = e
  BY PeerIs
<1>2. w \in Seq(Chunks)
  BY <1>1 DEF ChallengeInv, ReadingInv, TypeOK
<1>3. v # <<>> /\ Head(v) = IF w = <<>> THEN x ELSE Head(w)
  BY <1>2, OpsAppend
<1>4. w # <<>> => Tail(w) \in Seq(Chunks) /\ Tail(v) = Append(Tail(w), x)
  BY <1>2, TailType, HeadTailAppend
<1>5. w = <<>> => Tail(v) = <<>>
  BY <1>2, HeadTailAppend
<1>6. WordChunk(HelloWord(f)).kind = "word"
  BY WordChunkIs
<1>7. hsIn[f] = HelloWord(f) \/ (hsIn[f] = "zero" /\ Head(v) = WordChunk(HelloWord(f)))
  BY <1>3 DEF Greets
<1>8. HelloWord(f) # "zero"
  BY DEF HelloWord
<1>9. wire'[f] = v /\ hsIn'[f] = hsIn[f]
  OBVIOUS
<1>10. CASE x.kind = "word"
  <2>1. ~WordDone(e)
    <3>1. writes[e][i] \in Ops(writes[e])
      BY DEF Ops
    <3> QED
      BY <1>10, <3>1 DEF WordDone
  <2>2. ~WordSent(f)
    BY <1>1, <2>1 DEF Greeting
  <2>3. hsIn[f] = "zero" /\ w = <<>>
    BY <1>3, <1>6, <1>7, <2>2 DEF WordSent
  <2>4. Greets(f) /\ Stream(f) = <<>>
    BY <2>3 DEF Greets, Stream
  <2>5. Stream(f)' = <<>>
    BY <1>3, <1>5, <1>9, <2>3 DEF Stream
  <2> QED
    BY <1>10, <2>4, <2>5, EmptySeq
<1>11. CASE x.kind # "word"
  <2>1. CASE hsIn[f] = HelloWord(f)
    <3>1. Greets(f) /\ Stream(f) = w /\ Stream(f)' = v
      BY <1>8, <1>9, <2>1 DEF Greets, Stream
    <3> QED
      BY <1>2, <1>11, <3>1
  <2>2. CASE hsIn[f] = "zero" /\ Head(v) = WordChunk(HelloWord(f))
    <3>1. w # <<>> /\ Head(w) = WordChunk(HelloWord(f))
      BY <1>3, <1>6, <1>11, <2>2
    <3>2. Greets(f) /\ Stream(f) = Tail(w) /\ Stream(f)' = Tail(v)
      BY <1>3, <1>9, <2>2, <3>1 DEF Greets, Stream
    <3> QED
      BY <1>4, <1>11, <3>1, <3>2
  <2> QED
    BY <1>7, <2>1, <2>2
<1> QED
  BY <1>10, <1>11

\* What both ends have received, when one end sends a part.
LEMMA TransmitReceiving ==
    ASSUME ChallengeInv, Greeting, NEW e \in Ends, Transmit(e),
           NEW g \in Ends, Receiving(g), Flow(g)
    PROVE  Receiving(g)' /\ Flow(g)'
<1>1. ReadingInv /\ TypeOK /\ Writing /\ Peer(g) \in Ends /\ (g = e \/ g = Peer(e))
  BY PeerIs DEF ChallengeInv, ReadingInv, Ends
<1>2. /\ UNCHANGED <<sock, hsIn, reads, tmp, delivered, sent, posted, outq>>
      /\ sock[e] = "open"
  BY DEF Transmit, handshake, IsConnected
<1>3. Receiving(g)' /\ \A c : ReaderAt(g, c) => ReaderAt(g, c)'
  BY <1>2, QuietReceiving
<1>4. PICK b : /\ Sending(Peer(g), b)
               /\ sock[g] # "closed" /\ Greets(g) =>
                    \E a : ReaderAt(g, a) /\ Path(WireSteps(sent[Peer(g)]), Stream(g), a, b)
  BY DEF Flow
<1>5. CASE g = e
  <2>1. /\ wire'[g] = wire[g] /\ writes'[Peer(g)] = writes[Peer(g)]
    BY <1>1, <1>5, OtherEnd, PeerIs DEF Transmit, TypeOK
  <2>2. Sending(Peer(g), b)'
    BY <1>1, <1>2, <1>4, <2>1, QuietSending
  <2>3. Greets(g)' => Greets(g) /\ Stream(g)' = Stream(g)
    BY <1>2, <2>1 DEF Greets, Stream
  <2> QED
    BY <1>2, <1>3, <1>4, <2>2, <2>3 DEF Flow
<1>6. CASE g # e
  <2>1. g = Peer(e) /\ Peer(g) = e
    BY <1>1, <1>6, PeerIs
  <2>2. PICK i \in Waiting(writes[e]) :
          /\ i \in DOMAIN writes[e] /\ ~writes[e][i].done /\ writes[e][i].chunk \in Chunks
          /\ writes'[e] = [writes[e] EXCEPT ![i] = [writes[e][i] EXCEPT !.done = TRUE]]
          /\ sock[g] # "closed" => wire'[g] = Append(wire[g], writes[e][i].chunk)
    <3>1. Transmit(e) /\ TypeOK
      BY <1>1
    <3> QED
      BY <2>1, <3>1, TransmitEffect
  <2> DEFINE x == writes[e][i].chunk
             S == sent[e]
  <2>3. PICK d : /\ d = IF x.kind = "word" THEN b ELSE After(S, b)
                 /\ Sending(e, d)'
                 /\ x.kind # "word" => b \in Positions(S) /\ x = ChunkAt(S, b)
    <3>1. /\ x.kind = "word" => Sending(e, b)'
          /\ x.kind # "word" =>
                b \in Positions(S) /\ x = ChunkAt(S, b) /\ Sending(e, After(S, b))'
      BY <1>1, <1>2, <1>4, <2>1, <2>2, TransmitSending
    <3>2. sent' = sent
      BY <1>2
    <3> QED
      BY <3>1, <3>2
  <2>4. ASSUME sock[g] # "closed", Greets(g)'
        PROVE  \E a : ReaderAt(g, a)' /\ Path(WireSteps(S), Stream(g)', a, d)
    <3>1. /\ Greets(g) /\ Stream(g) \in Seq(Chunks)
          /\ Stream(g)' = IF x.kind = "word" THEN Stream(g) ELSE Append(Stream(g), x)
      BY <1>2, <2>1, <2>2, <2>4, TransmitStream
    <3>2. PICK a : ReaderAt(g, a) /\ Path(WireSteps(S), Stream(g), a, b)
      BY <1>4, <2>1, <2>4, <3>1
    <3>3. Path(WireSteps(S), Stream(g)', a, d)
      <4>1. CASE x.kind = "word"
        BY <2>3, <3>1, <3>2, <4>1
      <4>2. CASE x.kind # "word"
        <5>1. <<b, x, After(S, b)>> \in WireSteps(S) /\ x \in Chunks
          BY <2>2, <2>3, <4>2, WireStepsAre
        <5> DEFINE s == Stream(g)
        <5> HIDE DEF x, S, s
        <5>2. Path(WireSteps(S), Append(s, x), a, After(S, b))
          BY <3>1, <3>2, <5>1, PathAppend DEF s
        <5> QED
          BY <2>3, <3>1, <4>2, <5>2 DEF s
      <4> QED
        BY <4>1, <4>2
    <3> QED
      BY <1>3, <3>2, <3>3
  <2>5. sent' = sent /\ (sock'[g] # "closed" => sock[g] # "closed")
    BY <1>2
  <2>6. Flow(g)'
    BY <2>1, <2>3, <2>4, <2>5 DEF Flow
  <2> QED
    BY <1>3, <2>6
<1> QED
  BY <1>5, <1>6

-----------------------------------------------------------------------------
(* A step and the stream to one end.                                       *)

\* A step that leaves the stream to g alone, whatever else the ends do.
LEMMA KeptFlow ==
    ASSUME NEW g \in Ends, Flow(g),
           \A c : Sending(Peer(g), c) => Sending(Peer(g), c)',
           sock'[g] # "closed" =>
                /\ sock[g] # "closed"
                /\ UNCHANGED <<hsIn[g], wire[g]>>
                /\ \A c : ReaderAt(g, c) => ReaderAt(g, c)',
           WireSteps(sent[Peer(g)]) \subseteq WireSteps(sent'[Peer(g)])
    PROVE  Flow(g)'
<1>1. PICK b : /\ Sending(Peer(g), b)
               /\ sock[g] # "closed" /\ Greets(g) =>
                    \E a : ReaderAt(g, a) /\ Path(WireSteps(sent[Peer(g)]), Stream(g), a, b)
  BY DEF Flow
<1>2. ASSUME sock'[g] # "closed", Greets(g)'
      PROVE  \E a : ReaderAt(g, a)' /\ Path(WireSteps(sent'[Peer(g)]), Stream(g)', a, b)
  <2>1. Greets(g) /\ Stream(g)' = Stream(g)
    BY <1>2 DEF Greets, Stream
  <2>2. PICK a : ReaderAt(g, a) /\ Path(WireSteps(sent[Peer(g)]), Stream(g), a, b)
    BY <1>1, <1>2, <2>1
  <2>3. Path(WireSteps(sent'[Peer(g)]), Stream(g), a, b)
    BY <2>2, PathMore
  <2> QED
    BY <1>2, <2>1, <2>2, <2>3
<1>3. Sending(Peer(g), b)'
  BY <1>1
<1> QED
  BY <1>2, <1>3 DEF Flow

\* The peer of g sends one more message.
LEMMA MoreReceiving ==
    ASSUME TypeOK, NEW g \in Ends, Receiving(g), NEW m \in Message,
           sent'[Peer(g)] = Append(sent[Peer(g)], m),
           delivered'[g] = delivered[g], tmp'[g] = tmp[g], reads'[g] = reads[g]
    PROVE  /\ Receiving(g)'
           /\ \A c : ReaderAt(g, c) => ReaderAt(g, c)'
           /\ WireSteps(sent[Peer(g)]) \subseteq WireSteps(sent'[Peer(g)])
<1> DEFINE S == sent[Peer(g)]
           Z == Append(S, m)
           D == delivered[g]
           k == NextMessage(g)
<1>1. S \in Seq(Message) /\ D \in Seq(Message) /\ reads[g] \in Seq(ReadOps)
  BY PeerIs DEF TypeOK, ReadOps
<1>2. /\ Len(S) \in Nat /\ Len(D) \in Nat /\ Len(Z) = Len(S) + 1
      /\ \A i \in 1..Len(S) : Z[i] = S[i] /\ i \in 1..Len(Z)
  BY <1>1, AppendProperties, LenProperties
<1>3. sent'[Peer(g)] = Z
  OBVIOUS
<1>4. \A c \in Positions(S) : After(Z, c) = After(S, c)
  BY <1>1, StepsGrow
<1>5. WireSteps(S) \subseteq WireSteps(Z)
  BY <1>1, StepsGrow
<1> HIDE DEF Z
<1>6. NextMessage(g)' = k
  BY DEF NextMessage
<1>7. Arrived(g)'
  <2>1. Len(D) <= Len(S) /\ \A i \in 1..Len(D) : Same(D[i], S[i])
    BY DEF Receiving, Arrived
  <2>2. Len(D) <= Len(Z) /\ \A i \in 1..Len(D) : Z[i] = S[i]
    BY <1>2, <2>1
  <2> QED
    BY <1>3, <2>1, <2>2 DEF Arrived
<1>8. Taken(g)'
  BY <1>2, <1>3, <1>6 DEF Receiving, Taken
<1>9. ASSUME NEW op \in MessageReads(reads[g]), op.done
      PROVE  After(Z, At(k, op.kind)) = After(S, At(k, op.kind))
  <2>1. k \in 1..Len(S)
    BY <1>9 DEF Receiving, Taken
  <2>2. op \in ReadOps
    BY <1>1, LenProperties, ElementOfSeq DEF MessageReads, Ops
  <2>3. op.kind \in {"header", "body"}
    BY <2>2 DEF MessageReads, ReadOps
  <2> QED
    BY <1>4, <2>1, <2>3 DEF Positions
<1>10. ASSUME NEW c, ReaderAt(g, c) PROVE ReaderAt(g, c)'
  BY <1>3, <1>6, <1>9, <1>10 DEF ReaderAt, Reached
<1> QED
  BY <1>3, <1>5, <1>7, <1>8, <1>10 DEF Receiving

\* A read that is filled takes nothing from the other end.
LEMMA FillElsewhere ==
    ASSUME ChallengeInv, NEW e \in Ends, Fill(e), NEW g \in Ends, g # e, Receiving(g), Flow(g)
    PROVE  Receiving(g)' /\ Flow(g)'
<1>1. TypeOK
  BY DEF ChallengeInv, ReadingInv
<1>2. /\ UNCHANGED <<sock, writes, sent, posted, outq>>
      /\ tmp'[g] = tmp[g]
  BY <1>1 DEF Fill, TypeOK
<1>3. /\ reads'[g] = reads[g] /\ delivered'[g] = delivered[g] /\ hsIn'[g] = hsIn[g]
      /\ wire'[g] = wire[g]
  BY <1>1, OtherEnd DEF Fill, TypeOK
<1>4. Receiving(g)' /\ \A c : ReaderAt(g, c) => ReaderAt(g, c)'
  BY <1>2, <1>3, QuietReceiving
<1>5. \A c : Sending(Peer(g), c) => Sending(Peer(g), c)'
  BY <1>2, QuietSending, PeerIs
<1> QED
  BY <1>2, <1>3, <1>4, <1>5, KeptFlow

-----------------------------------------------------------------------------
(* The steps that carry no bytes.                                          *)

\* Connecting, and losing the connection.
LEMMA ConnectDelivery ==
    ASSUME ChallengeInv, Greeting,
           ConnectToServer \/ TcpEstablish \/ ConnectFailed \/ LoseLink \/ UNCHANGED vars
    PROVE  /\ Greeting'
           /\ \A g \in Ends : Receiving(g) /\ Flow(g) => Receiving(g)' /\ Flow(g)'
<1>1. /\ UNCHANGED <<wire, posted, writes, reads, outq, tmp, hsIn, sent, delivered>>
      /\ \A g \in Ends : sock'[g] = "closed" => sock[g] = "closed"
      /\ \A g \in Ends : sock[g] = "closed" => sock'[g] = "closed"
      /\ sock'["server"] = sock["server"]
      /\ connecting = "handled" => connecting' = "handled"
  BY DEF ChallengeInv, ReadingInv, TypeOK, Reading, Ends, ConnectToServer, TcpEstablish,
         ConnectFailed, LoseLink, handshake, vars
<1>2. Greeting'
  BY <1>1, QuietGreeting
<1>3. ASSUME NEW g \in Ends, Receiving(g), Flow(g) PROVE Receiving(g)' /\ Flow(g)'
  <2>1. Receiving(g)' /\ \A c : ReaderAt(g, c) => ReaderAt(g, c)'
    BY <1>1, <1>3, QuietReceiving
  <2>2. \A c : Sending(Peer(g), c) => Sending(Peer(g), c)'
    BY <1>1, QuietSending, PeerIs
  <2> QED
    BY <1>1, <1>3, <2>1, <2>2, KeptFlow
<1> QED
  BY <1>2, <1>3

LEMMA ConnectedDelivery ==
    ASSUME ChallengeInv, Greeting, OnConnected, NEW g \in Ends, Receiving(g), Flow(g)
    PROVE  Receiving(g)' /\ Flow(g)'
<1>1. /\ UNCHANGED <<wire, sock, posted, writes, outq, tmp, hsIn, sent, delivered>>
      /\ connecting = "done"
  BY DEF OnConnected, handshake
<1>2. MessageReads(reads'[g]) = MessageReads(reads[g])
  <2>1. reads["client"] = <<>> /\ DOMAIN reads = Ends
    BY <1>1 DEF ChallengeInv, ReadingInv, Reading, TypeOK
  <2>2. CASE g = "client"
    <3>1. reads'[g] \in {<<>>, Append(<<>>, Read("word"))} /\ reads[g] = <<>>
      BY <2>1, <2>2 DEF OnConnected
    <3> QED
      BY <3>1, OpsNone, NextRead DEF MessageReads
  <2>3. CASE g = "server"
    BY <2>1, <2>3 DEF OnConnected
  <2> QED
    BY <2>2, <2>3 DEF Ends
<1>3. Receiving(g)' /\ \A c : ReaderAt(g, c) => ReaderAt(g, c)'
  BY <1>1, <1>2, QuietReceiving
<1>4. \A c : Sending(Peer(g), c) => Sending(Peer(g), c)'
  BY <1>1, QuietSending, PeerIs
<1> QED
  BY <1>1, <1>3, <1>4, KeptFlow

\* The accept handler writes a word, and sends AcceptMessage.
LEMMA AcceptDelivery ==
    ASSUME ChallengeInv, Greeting, AcceptClient, NEW g \in Ends, Receiving(g), Flow(g)
    PROVE  Receiving(g)' /\ Flow(g)'
<1>1. /\ TypeOK /\ Writing
      /\ UNCHANGED <<wire, outq, tmp, hsIn, delivered>>
      /\ sock["server"] = "none" /\ sock'["server"] = "open"
      /\ sock'["client"] = sock["client"]
      /\ posted'["client"] = posted["client"]
      /\ reads'["client"] = reads["client"]
      /\ writes'["client"] = writes["client"]
      /\ sent'["client"] = sent["client"]
      /\ sent'["server"] = Append(sent["server"], AcceptMessage)
      /\ posted'["server"] = Append(posted["server"], [op |-> "send", msg |-> AcceptMessage])
  BY DEF ChallengeInv, ReadingInv, TypeOK, Ends, AcceptClient, handshake
<1>2. /\ writes["server"] = <<>> /\ reads["server"] = <<>>
      /\ hsOut["server"] = "challenge"
  BY <1>1 DEF ChallengeInv, ReadingInv, Reading, Challenged, ChallengeFirst
<1>3. /\ writes'["server"] = Append(<<>>, Write(WordChunk("challenge")))
      /\ reads'["server"] = Append(<<>>, Read("word"))
  BY <1>1, <1>2 DEF AcceptClient, TypeOK, Ends
<1>4. AcceptMessage \in Message
  BY MessagesAssumption
<1>5. CASE g = "client"
  <2>1. Peer(g) = "server" /\ "server" \in Ends
    BY <1>5, PeerIs
  <2>2. /\ Receiving(g)' /\ \A c : ReaderAt(g, c) => ReaderAt(g, c)'
        /\ WireSteps(sent[Peer(g)]) \subseteq WireSteps(sent'[Peer(g)])
    BY <1>1, <1>4, <1>5, <2>1, MoreReceiving
  <2>3. MessageOps(writes'["server"]) = MessageOps(writes["server"])
    <3>1. Ops(writes'["server"]) = {Write(WordChunk("challenge"))}
      BY <1>3, OpsOne
    <3>2. Write(WordChunk("challenge")).chunk.kind = "word"
      BY DEF Write, WordChunk
    <3> QED
      BY <1>2, <3>1, <3>2, OpsNone DEF MessageOps
  <2>4. ASSUME NEW c, Sending("server", c) PROVE Sending("server", c)'
    BY <1>1, <1>4, <2>1, <2>3, <2>4, SendSending
  <2> QED
    BY <1>1, <1>5, <2>1, <2>2, <2>4, KeptFlow
<1>6. CASE g = "server"
  <2>1. MessageReads(reads'[g]) = MessageReads(reads[g])
    BY <1>2, <1>3, <1>6, OpsNone, NextRead DEF MessageReads
  <2>2. Receiving(g)' /\ \A c : ReaderAt(g, c) => ReaderAt(g, c)'
    BY <1>1, <1>6, <2>1, QuietReceiving, PeerIs
  <2>3. \A c : Sending(Peer(g), c) => Sending(Peer(g), c)'
    BY <1>1, <1>6, QuietSending, PeerIs
  <2> QED
    BY <1>1, <1>6, <2>2, <2>3, KeptFlow, PeerIs
<1> QED
  BY <1>5, <1>6 DEF Ends

\* What the user of an end may send is a message; what it bounces is a copy of
\* one of the peer's.
LEMMA SendableIs ==
    ASSUME TypeOK, Origin, Arrived("server"), NEW e \in Ends, NEW m \in Sendable(e)
    PROVE  m \in (IF e = "client" THEN ClientMessages ELSE AllMessages) /\ m \in Message
<1>1. \A x \in AllMessages : x \in Message /\ x.size = Len(x.body)
  BY MessagesAssumption DEF AllMessages, SizeMatches
<1>2. CASE e = "server" /\ m \notin ServerMessages
  <2> DEFINE D == delivered["server"]
             S == sent["client"]
  <2>1. D \in Seq(Message) /\ "server" \in Ends /\ "client" \in Ends
    BY PeerIs DEF TypeOK
  <2>2. PICK i \in DOMAIN D : m = D[i] /\ D[i].id \in BounceIds
    BY <1>2 DEF Sendable
  <2>3. i \in 1..Len(D) /\ m \in Message
    BY <2>1, <2>2, LenProperties, ElementOfSeq
  <2>4. Same(m, S[i]) /\ i \in 1..Len(S)
    <3>1. Len(D) \in Nat /\ Len(S) \in Nat
      BY <2>1, LenProperties DEF TypeOK
    <3> QED
      BY <2>2, <2>3, <3>1, PeerIs DEF Arrived
  <2>5. S[i] \in ClientMessages /\ S[i].body # <<>> /\ S[i].size > 0
    <3>1. S[i] \in ClientMessages /\ S[i].id \in BounceIds
      BY <2>2, <2>4 DEF Origin, Same
    <3> QED
      BY <2>1, <2>4, <3>1, SentSizes, BounceAssumption
  <2>6. m = S[i]
    <3>1. S[i] \in Message
      BY <1>1, <2>5 DEF AllMessages
    <3>2. m.id = S[i].id /\ m.size = S[i].size /\ m.body = S[i].body
      BY <2>4, <2>5 DEF Same
    <3> QED
      BY <2>3, <3>1, <3>2 DEF Message
  <2> QED
    BY <1>1, <1>2, <2>5, <2>6 DEF AllMessages
<1>3. CASE e = "server" /\ m \in ServerMessages
  BY <1>1, <1>3 DEF AllMessages
<1>4. CASE e = "client"
  BY <1>1, <1>4 DEF AllMessages, Sendable
<1> QED
  BY <1>2, <1>3, <1>4 DEF Ends

\* Sending and hanging up only post.
LEMMA UserDelivery ==
    ASSUME ChallengeInv, Greeting, Origin, Arrived("server"), NEW e \in Ends, User(e)
    PROVE  /\ Greeting' /\ Origin'
           /\ \A g \in Ends : Receiving(g) /\ Flow(g) => Receiving(g)' /\ Flow(g)'
<1>1. /\ TypeOK /\ Writing
      /\ UNCHANGED <<sock, connecting, wire, writes, reads, outq, tmp, hsIn, delivered>>
  BY DEF ChallengeInv, ReadingInv, User, Send, Disconnect, handshake, net
<1>2. Greeting'
  BY <1>1, QuietGreeting
<1>3. CASE Disconnect(e)
  <2>1. /\ sent' = sent /\ posted'[e] = Append(posted[e], [op |-> "close"])
        /\ posted'[Peer(e)] = posted[Peer(e)]
    BY <1>1, <1>3, PeerIs DEF Disconnect, TypeOK
  <2>2. Origin'
    BY <2>1 DEF Origin
  <2>3. ASSUME NEW g \in Ends, Receiving(g), Flow(g) PROVE Receiving(g)' /\ Flow(g)'
    <3>1. Receiving(g)' /\ \A c : ReaderAt(g, c) => ReaderAt(g, c)'
      BY <1>1, <2>1, <2>3, QuietReceiving
    <3>2. \A c : Sending(e, c) => Sending(e, c)'
      BY <1>1, <2>1, DisconnectSending
    <3>3. \A c : Sending(Peer(e), c) => Sending(Peer(e), c)'
      BY <1>1, <2>1, QuietSending, PeerIs
    <3>4. \A c : Sending(Peer(g), c) => Sending(Peer(g), c)'
      BY <3>2, <3>3, PeerIs DEF Ends
    <3> QED
      BY <1>1, <2>1, <2>3, <3>1, <3>4, KeptFlow
  <2> QED
    BY <1>2, <2>2, <2>3
<1>4. CASE \E m \in Sendable(e) : Send(e, m)
  <2>1. PICK m \in Sendable(e) : Send(e, m)
    BY <1>4
  <2>2. m \in (IF e = "client" THEN ClientMessages ELSE AllMessages) /\ m \in Message
    BY <1>1, SendableIs
  <2>3. /\ sent'[e] = Append(sent[e], m)
        /\ posted'[e] = Append(posted[e], [op |-> "send", msg |-> m])
        /\ sent'[Peer(e)] = sent[Peer(e)] /\ posted'[Peer(e)] = posted[Peer(e)]
    BY <1>1, <2>1, PeerIs DEF Send, TypeOK
  <2>4. Origin'
    <3>1. sent[e] \in Seq(Message)
      BY <1>1 DEF TypeOK
    <3>2. /\ Len(sent'[e]) = Len(sent[e]) + 1 /\ Len(sent[e]) \in Nat
          /\ sent'[e][Len(sent[e]) + 1] = m
          /\ \A i \in 1..Len(sent[e]) : sent'[e][i] = sent[e][i]
      BY <2>2, <2>3, <3>1, AppendProperties, LenProperties
    <3>3. \A i \in 1..Len(sent'[e]) : sent'[e][i] = m \/
            (i \in 1..Len(sent[e]) /\ sent'[e][i] = sent[e][i])
      BY <3>2
    <3>4. CASE e = "client"
      BY <2>2, <2>3, <3>3, <3>4, PeerIs DEF Origin
    <3>5. CASE e = "server"
      BY <2>2, <2>3, <3>3, <3>5, PeerIs DEF Origin
    <3> QED
      BY <3>4, <3>5 DEF Ends
  <2>5. ASSUME NEW g \in Ends, Receiving(g), Flow(g) PROVE Receiving(g)' /\ Flow(g)'
    <3>1. CASE g = e
      <4>1. Receiving(g)' /\ \A c : ReaderAt(g, c) => ReaderAt(g, c)'
        BY <1>1, <2>3, <2>5, <3>1, QuietReceiving
      <4>2. \A c : Sending(Peer(g), c) => Sending(Peer(g), c)'
        BY <1>1, <2>3, <3>1, QuietSending, PeerIs
      <4> QED
        BY <1>1, <2>3, <2>5, <3>1, <4>1, <4>2, KeptFlow
    <3>2. CASE g # e
      <4>1. Peer(g) = e
        BY <3>2, PeerIs DEF Ends
      <4>2. /\ Receiving(g)' /\ \A c : ReaderAt(g, c) => ReaderAt(g, c)'
            /\ WireSteps(sent[Peer(g)]) \subseteq WireSteps(sent'[Peer(g)])
        BY <1>1, <2>2, <2>3, <2>5, <4>1, MoreReceiving
      <4>3. ASSUME NEW c, Sending(e, c) PROVE Sending(e, c)'
        BY <1>1, <2>2, <2>3, <4>3, SendSending
      <4> QED
        BY <1>1, <2>5, <4>1, <4>2, <4>3, KeptFlow
    <3> QED
      BY <3>1, <3>2
  <2> QED
    BY <1>2, <2>4, <2>5
<1> QED
  BY <1>3, <1>4 DEF User

\* What the thread of an io_context does.
LEMMA ContextDelivery ==
    ASSUME ChallengeInv, Origin, NEW e \in Ends, Context(e), NEW g \in Ends, Receiving(g), Flow(g)
    PROVE  Receiving(g)' /\ Flow(g)'
<1>1. TypeOK /\ Writing /\ ReadingInv
  BY DEF ChallengeInv, ReadingInv
<1>2. UNCHANGED <<sent, tmp, hsIn>>
  BY DEF Context, RunSend, RunClose, OnValidationWritten,
     OnHeaderWritten, OnBodyWritten, OnWriteFailed, OnChallengeRead, OnAnswerRead,
     OnHeaderRead, OnBodyRead, OnReadFailed, handshake
<1>3. UNCHANGED <<sock, wire>> \/ Close(e)
  BY DEF Context, RunSend, RunClose, OnValidationWritten,
     OnHeaderWritten, OnBodyWritten, OnWriteFailed, OnChallengeRead, OnAnswerRead,
     OnHeaderRead, OnBodyRead, OnReadFailed
<1>4. \A f \in Ends : sock'[f] # "closed" => wire'[f] = wire[f]
  BY <1>1, <1>3 DEF Close, TypeOK
<1>5. CASE g = e
  <2>1. /\ Receiving(g)'
        /\ sock'[g] # "closed" => sock[g] # "closed" /\ \A c : ReaderAt(g, c) => ReaderAt(g, c)'
    BY <1>1, <1>5, ContextReceiving
  <2>2. \A c : Sending(Peer(g), c) => Sending(Peer(g), c)'
    <3>1. /\ posted'[Peer(g)] = posted[Peer(g)] /\ writes'[Peer(g)] = writes[Peer(g)]
          /\ outq'[Peer(g)] = outq[Peer(g)] /\ sock'[Peer(g)] = sock[Peer(g)]
      BY <1>1, <1>5, OtherEnd, PeerIs
    <3> QED
      BY <1>2, <3>1, QuietSending, PeerIs
  <2> QED
    BY <1>2, <1>4, <2>1, <2>2, KeptFlow
<1>6. CASE g # e
  <2>1. Peer(g) = e
    BY <1>6, PeerIs DEF Ends
  <2>2. reads'[g] = reads[g] /\ delivered'[g] = delivered[g] /\ sock'[g] = sock[g]
    BY <1>1, <1>6, OtherEnd
  <2>3. Receiving(g)' /\ \A c : ReaderAt(g, c) => ReaderAt(g, c)'
    BY <1>2, <2>2, QuietReceiving
  <2>4. \A c : Sending(Peer(g), c) => Sending(Peer(g), c)'
    BY <1>1, <2>1, ContextSending
  <2> QED
    BY <1>2, <1>4, <2>2, <2>3, <2>4, KeptFlow
<1> QED
  BY <1>5, <1>6

-----------------------------------------------------------------------------
(* The invariant.                                                          *)

DeliveryInv ==
    /\ ChallengeInv
    /\ Greeting
    /\ Origin
    /\ \A e \in Ends : Receiving(e) /\ Flow(e)

LEMMA InitDeliveryInv == Init => DeliveryInv
<1> SUFFICES ASSUME Init PROVE DeliveryInv
  OBVIOUS
<1>1. \A e \in Ends : /\ writes[e] = <<>> /\ reads[e] = <<>> /\ outq[e] = <<>>
                      /\ delivered[e] = <<>> /\ posted[e] = <<>> /\ wire[e] = <<>>
                      /\ hsIn[e] = "zero" /\ sock[e] = "none" /\ sent[e] = <<>>
  BY DEF Init
<1>2. Len(<<>>) = 0 /\ 0 + 1 = 1 /\ 1..0 = {}
  OBVIOUS
<1>3. ChallengeInv
  BY InitHandshakeInv DEF HandshakeInv
<1>4. Greeting
  <2>1. \A e \in Ends : ~WordSent(e)
    BY <1>1 DEF WordSent, HelloWord
  <2>2. WritesOf(writes["server"], WordKinds) = {}
    BY <1>1, PeerIs DEF WritesOf
  <2>3. Ops(reads["server"]) = {}
    BY <1>1, OpsNone, PeerIs
  <2> QED
    BY <1>1, <2>1, <2>2, <2>3, PeerIs DEF Greeting
<1>5. Origin
  BY <1>1, <1>2, PeerIs DEF Origin
<1>6. ASSUME NEW e \in Ends PROVE Receiving(e) /\ Flow(e)
  <2>1. Peer(e) \in Ends
    BY PeerIs
  <2>2. MessageReads(reads[e]) = {} /\ MessageOps(writes[Peer(e)]) = {}
    BY <1>1, <2>1, OpsNone DEF MessageReads, MessageOps
  <2>3. Len(delivered[e]) = 0 /\ Len(sent[Peer(e)]) = 0
    BY <1>1, <1>2, <2>1
  <2>4. Receiving(e)
    BY <2>2, <2>3 DEF Receiving, Arrived, Taken
  <2>5. Sending(Peer(e), At(1, "header"))
    <3>1. Queued(Peer(e), 1)
      <4>1. /\ Path(QueueSteps(sent[Peer(e)]), <<>>, 1, 1)
            /\ Path(PostSteps(sent[Peer(e)]), <<>>, 1, 1)
        BY PathEmpty
      <4>2. outq[Peer(e)] = <<>> /\ posted[Peer(e)] = <<>> /\ Len(sent[Peer(e)]) + 1 = 1
        BY <1>1, <1>2, <2>1, <2>3
      <4> QED
        BY <4>1, <4>2 DEF Queued
    <3>2. WriterAt(writes[Peer(e)], sent[Peer(e)], 1, At(1, "header"))
      BY <2>2 DEF WriterAt
    <3> QED
      BY <3>1, <3>2 DEF Sending
  <2>6. ReaderAt(e, At(1, "header"))
    BY <1>2, <2>2, <2>3 DEF ReaderAt, NextMessage
  <2>7. Stream(e) = <<>>
    BY <1>1 DEF Stream
  <2> QED
    BY <2>4, <2>5, <2>6, <2>7, PathEmpty DEF Flow
<1> QED
  BY <1>3, <1>4, <1>5, <1>6 DEF DeliveryInv

LEMMA StepDeliveryInv == DeliveryInv /\ [Next]_vars => DeliveryInv'
<1> SUFFICES ASSUME DeliveryInv, [Next]_vars PROVE DeliveryInv'
  OBVIOUS
<1>1. /\ ChallengeInv /\ ReadingInv /\ Greeting /\ Origin
      /\ \A g \in Ends : Receiving(g) /\ Flow(g)
  BY DEF DeliveryInv, ChallengeInv
<1>2. ChallengeInv'
  BY <1>1, StepChallengeInv
<1>3. SUFFICES Greeting' /\ Origin' /\ \A g \in Ends : Receiving(g)' /\ Flow(g)'
  BY <1>2 DEF DeliveryInv
<1>4. CASE ConnectToServer \/ TcpEstablish \/ ConnectFailed \/ LoseLink \/ UNCHANGED vars
  <2>1. sent' = sent
    BY <1>4 DEF ConnectToServer, TcpEstablish, ConnectFailed, LoseLink, vars
  <2>2. Origin'
    BY <1>1, <2>1 DEF Origin
  <2> QED
    BY <1>1, <1>4, <2>2, ConnectDelivery
<1>5. CASE OnConnected
  <2>1. sent' = sent
    BY <1>5 DEF OnConnected
  <2>2. Origin'
    BY <1>1, <2>1 DEF Origin
  <2>3. Greeting'
    BY <1>1, <1>5, ConnectedGreeting
  <2> QED
    BY <1>1, <1>5, <2>2, <2>3, ConnectedDelivery
<1>6. CASE AcceptClient
  <2>1. Origin'
    <3>1. /\ sent'["client"] = sent["client"]
          /\ sent'["server"] = Append(sent["server"], AcceptMessage)
          /\ sent["server"] \in Seq(Message) /\ AcceptMessage \in Message
      BY <1>1, <1>6, MessagesAssumption DEF AcceptClient, ReadingInv, TypeOK, Ends
    <3>2. /\ Len(sent["server"]) \in Nat /\ Len(sent'["server"]) = Len(sent["server"]) + 1
          /\ sent'["server"][Len(sent["server"]) + 1] = AcceptMessage
          /\ \A i \in 1..Len(sent["server"]) : sent'["server"][i] = sent["server"][i]
      BY <3>1, AppendProperties, LenProperties
    <3>3. \A i \in 1..Len(sent'["server"]) :
              i = Len(sent["server"]) + 1 \/ i \in 1..Len(sent["server"])
      BY <3>2
    <3> QED
      BY <1>1, <3>1, <3>2, <3>3 DEF Origin, AllMessages
  <2>2. Greeting'
    BY <1>1, <1>6, AcceptGreeting
  <2> QED
    BY <1>1, <1>6, <2>1, <2>2, AcceptDelivery
<1>7. ASSUME NEW e \in Ends, User(e) \/ Transmit(e) \/ Fill(e) \/ Context(e)
      PROVE  Greeting' /\ Origin' /\ \A g \in Ends : Receiving(g)' /\ Flow(g)'
  <2>1. CASE User(e)
    <3>1. Arrived("server")
      BY <1>1, PeerIs DEF Receiving
    <3> QED
      BY <1>1, <2>1, <3>1, UserDelivery
  <2>2. CASE Transmit(e)
    <3>1. Origin'
      BY <1>1, <2>2 DEF Transmit, Origin
    <3> QED
      BY <1>1, <2>2, <3>1, TransmitGreeting, TransmitReceiving
  <2>3. CASE Fill(e)
    <3>1. Origin'
      BY <1>1, <2>3 DEF Fill, Origin
    <3>2. Receiving(e)' /\ Flow(e)'
      BY <1>1, <2>3, FillReceiving
    <3>3. ASSUME NEW g \in Ends, g # e PROVE Receiving(g)' /\ Flow(g)'
      BY <1>1, <2>3, <3>3, FillElsewhere
    <3> QED
      BY <1>1, <2>3, <3>1, <3>2, <3>3, FillGreeting
  <2>4. CASE Context(e)
    <3>1. sent' = sent
      BY <2>4 DEF Context, RunSend, RunClose, OnValidationWritten,
         OnHeaderWritten, OnBodyWritten, OnWriteFailed, OnChallengeRead, OnAnswerRead,
         OnHeaderRead, OnBodyRead, OnReadFailed
    <3>2. Origin'
      BY <1>1, <3>1 DEF Origin
    <3> QED
      BY <1>1, <2>4, <3>2, ContextGreeting, ContextDelivery
  <2> QED
    BY <1>7, <2>1, <2>2, <2>3, <2>4
<1> QED
  BY <1>4, <1>5, <1>6, <1>7 DEF Next

LEMMA AlwaysDeliveryInv == Spec => []DeliveryInv
  BY InitDeliveryInv, StepDeliveryInv, PTL DEF Spec

\* What a read is about to take.
LEMMA ReadsInStep == DeliveryInv => InStep
<1> SUFFICES ASSUME DeliveryInv, NEW e \in Ends, wire[e] # <<>>, reads[e] # <<>>,
                    ~Head(reads[e]).done
             PROVE  LET chunk == Head(wire[e])
                        read == Head(reads[e])
                    IN  \/ read.kind = "word" /\ e = "server"
                        \/ read.kind = "body" /\ chunk = BodyChunk([body |-> chunk.data])
                            /\ Len(chunk.data) = tmp[e].size
                        \/ read.kind = chunk.kind /\ read.kind # "body"
  BY DEF InStep
<1> DEFINE x == Head(wire[e])
           r == Head(reads[e])
           S == sent[Peer(e)]
           k == NextMessage(e)
<1>1. ReadingInv /\ TypeOK /\ ChallengeInv /\ Greeting /\ Origin /\ Receiving(e) /\ Flow(e)
  BY DEF DeliveryInv, ChallengeInv, ReadingInv
<1>2. r \in ReadOps /\ Ops(reads[e]) = {r} /\ Peer(e) \in Ends
  BY <1>1, ReadOne, PeerIs
<1>3. CASE r.kind = "word"
  <2>1. e = "client" => hsIn["client"] = "zero"
    BY <1>1, <1>2, <1>3 DEF ChallengeInv, Challenged
  <2>2. e = "client" => x.kind = "word"
    BY <1>1, <2>1, WordChunkIs DEF ChallengeInv, ChallengeFirst
  <2> QED
    BY <1>3, <2>2 DEF Ends
<1>4. CASE r.kind # "word"
  <2>1. r \in MessageReads(reads[e])
    BY <1>2, <1>4 DEF MessageReads
  <2>2. hsIn[e] = HelloWord(e) /\ HelloWord(e) # "zero"
    BY <1>1, <2>1, MessageReadGreets DEF HelloWord
  <2>3. Greets(e) /\ Stream(e) = wire[e] /\ sock[e] # "closed"
    BY <1>1, <2>2 DEF Greets, Stream, Greeting
  <2>4. PICK a, b : ReaderAt(e, a) /\ Path(WireSteps(S), wire[e], a, b)
    BY <1>1, <2>3 DEF Flow
  <2>5. PICK c : <<a, x, c>> \in WireSteps(S)
    BY <1>1, <2>4, PathTail DEF TypeOK
  <2>6. a \in Positions(S) /\ x = ChunkAt(S, a)
    BY <2>5, WireStepsAre
  <2>7. a = At(k, r.kind) /\ r.kind \in {"header", "body"}
    BY <1>2, <1>4, <2>1, <2>4 DEF ReaderAt, Reached, ReadOps
  <2>8. a.n = k /\ a.part = r.kind /\ k \in 1..Len(S)
    BY <2>6, <2>7, AtParts DEF Positions
  <2>9. CASE r.kind = "header"
    BY <2>6, <2>8, <2>9 DEF ChunkAt, HeaderChunk
  <2>10. CASE r.kind = "body"
    <3>1. x = BodyChunk(S[k]) /\ x.data = S[k].body
      BY <2>6, <2>8, <2>10 DEF ChunkAt, BodyChunk
    <3>2. x = BodyChunk([body |-> x.data])
      BY <3>1 DEF BodyChunk
    <3>3. tmp[e].size = S[k].size /\ S[k].size = Len(S[k].body)
      BY <1>1, <1>2, <2>1, <2>8, <2>10, SentSizes DEF Receiving, Taken
    <3> QED
      BY <2>10, <3>1, <3>2, <3>3
  <2> QED
    BY <2>7, <2>9, <2>10
<1> QED
  BY <1>3, <1>4

-----------------------------------------------------------------------------
(* The channel: what is sent and not delivered yet.                        *)

\* Of the messages in S, those after the first d.
Rest(S, d) == [i \in 1..(Len(S) - d) |-> Payload(S[d + i])]

Payloads == {Payload(m) : m \in Message}

LEMMA RestType ==
    ASSUME NEW S \in Seq(Message), NEW d \in Nat, d <= Len(S)
    PROVE  /\ Rest(S, d) \in Seq(Payloads)
           /\ Len(Rest(S, d)) = Len(S) - d
           /\ \A i \in 1..(Len(S) - d) : Rest(S, d)[i] = Payload(S[d + i])
<1>1. Len(S) \in Nat /\ Len(S) - d \in Nat
  BY LenProperties
<1>2. \A i \in 1..(Len(S) - d) : Payload(S[d + i]) \in Payloads
  <2> TAKE i \in 1..(Len(S) - d)
  <2>1. d + i \in 1..Len(S)
    BY <1>1
  <2>2. S[d + i] \in Message
    BY <2>1, ElementOfSeq
  <2> QED
    BY <2>2 DEF Payloads
<1>3. Rest(S, d) \in [1..(Len(S) - d) -> Payloads]
  BY <1>2 DEF Rest
<1>4. Rest(S, d) \in Seq(Payloads)
  BY <1>1, <1>3
<1>5. Len(Rest(S, d)) = Len(S) - d
  BY <1>1, <1>3, <1>4, LenProperties
<1> QED
  BY <1>4, <1>5 DEF Rest

LEMMA RestAppend ==
    ASSUME NEW S \in Seq(Message), NEW d \in Nat, d <= Len(S), NEW m \in Message
    PROVE  Rest(Append(S, m), d) = Append(Rest(S, d), Payload(m))
<1> DEFINE Z == Append(S, m)
           R == Rest(S, d)
           Q == Rest(Z, d)
           x == Payload(m)
           n == Len(S) - d
<1>1. /\ Z \in Seq(Message) /\ Len(S) \in Nat /\ Len(Z) = Len(S) + 1
      /\ Z[Len(S) + 1] = m /\ \A i \in 1..Len(S) : Z[i] = S[i]
  BY AppendProperties, LenProperties
<1>2. n \in Nat /\ d + (n + 1) = Len(S) + 1 /\ \A i \in 1..n : d + i \in 1..Len(S)
  BY <1>1
<1>3. /\ R \in Seq(Payloads) /\ Len(R) = n
      /\ \A i \in 1..n : R[i] = Payload(S[d + i])
  BY RestType
<1>4. d <= Len(Z) /\ Len(Z) - d = n + 1
  BY <1>1
<1>5. /\ Q \in Seq(Payloads) /\ Len(Q) = n + 1
      /\ \A i \in 1..(n + 1) : Q[i] = Payload(Z[d + i])
  BY <1>1, <1>4, RestType
<1>6. x \in Payloads
  BY DEF Payloads
<1>7. \A i \in 1..n : Q[i] = R[i]
  <2> TAKE i \in 1..n
  <2>1. i \in 1..(n + 1) /\ Z[d + i] = S[d + i]
    BY <1>1, <1>2
  <2> QED
    BY <1>3, <1>5, <2>1
<1>8. Q[n + 1] = x
  <2>1. n + 1 \in 1..(n + 1) /\ Z[d + (n + 1)] = m
    BY <1>1, <1>2
  <2> QED
    BY <1>5, <2>1
<1> HIDE DEF R, Q, x, n, Z
<1>9. /\ Append(R, x) \in Seq(Payloads) /\ Len(Append(R, x)) = n + 1
      /\ Append(R, x)[n + 1] = x /\ \A i \in 1..n : Append(R, x)[i] = R[i]
  BY <1>3, <1>6, AppendProperties
<1>10. \A i \in 1..(n + 1) : Q[i] = Append(R, x)[i]
  <2> TAKE i \in 1..(n + 1)
  <2>1. i = n + 1 \/ i \in 1..n
    BY <1>2
  <2> QED
    BY <1>7, <1>8, <1>9, <2>1
<1>11. Q = Append(R, x)
  BY <1>5, <1>9, <1>10, SeqEqual
<1> QED
  BY <1>11 DEF Q, R, x, Z

LEMMA RestTail ==
    ASSUME NEW S \in Seq(Message), NEW d \in Nat, d + 1 <= Len(S)
    PROVE  /\ Rest(S, d) # <<>>
           /\ Head(Rest(S, d)) = Payload(S[d + 1])
           /\ Tail(Rest(S, d)) = Rest(S, d + 1)
<1> DEFINE R == Rest(S, d)
           Q == Rest(S, d + 1)
           n == Len(S) - (d + 1)
<1>1. Len(S) \in Nat /\ n \in Nat /\ Len(S) - d = n + 1 /\ d <= Len(S) /\ d + 1 \in Nat
  BY LenProperties
<1>2. /\ R \in Seq(Payloads) /\ Len(R) = n + 1
      /\ \A i \in 1..(n + 1) : R[i] = Payload(S[d + i])
  BY <1>1, RestType
<1>3. /\ Q \in Seq(Payloads) /\ Len(Q) = n
      /\ \A i \in 1..n : Q[i] = Payload(S[d + 1 + i])
  BY <1>1, RestType
<1> HIDE DEF R, Q, n
<1>4. R # <<>>
  BY <1>1, <1>2, EmptySeq
<1>5. /\ Tail(R) \in Seq(Payloads) /\ Len(Tail(R)) = n
      /\ \A i \in 1..n : Tail(R)[i] = R[i + 1]
      /\ Head(R) = R[1]
  BY <1>1, <1>2, <1>4, HeadTailProperties
<1>6. ASSUME NEW i \in 1..n PROVE Tail(R)[i] = Q[i]
  <2>1. i + 1 \in 1..(n + 1) /\ d + (i + 1) = d + 1 + i
    BY <1>1
  <2> QED
    BY <1>2, <1>3, <1>5, <2>1
<1>7. Tail(R) = Q
  BY <1>3, <1>5, <1>6, SeqEqual
<1>8. Head(R) = Payload(S[d + 1])
  BY <1>1, <1>2, <1>5
<1> QED
  BY <1>4, <1>7, <1>8 DEF R, Q

LEMMA AllOf ==
    ASSUME NEW D \in Seq(Message)
    PROVE  [i \in DOMAIN D |-> Payload(D[i])] = Rest(D, 0)
<1>1. DOMAIN D = 1..(Len(D) - 0) /\ \A i \in 1..Len(D) : 0 + i = i
  BY LenProperties
<1> QED
  BY <1>1 DEF Rest

LEMMA ChannelIs ==
    ASSUME TypeOK, NEW e \in Ends
    PROVE  /\ Pending(e) = Rest(sent[Peer(e)], Len(delivered[e]))
           /\ Received(e) = Rest(delivered[e], 0)
<1>1. delivered[e] \in Seq(Message)
  BY DEF TypeOK
<1> QED
  BY <1>1, AllOf DEF Pending, Received, Rest

LEMMA ChannelWillBe ==
    ASSUME TypeOK', NEW e \in Ends
    PROVE  /\ Pending(e)' = Rest(sent'[Peer(e)], Len(delivered'[e]))
           /\ Received(e)' = Rest(delivered'[e], 0)
<1>1. delivered'[e] \in Seq(Message)
  BY DEF TypeOK
<1> QED
  BY <1>1, AllOf DEF Pending, Received, Rest

\* Of a message that has arrived, what counts is what was sent.
LEMMA SamePayload ==
    ASSUME NEW d \in Message, NEW m \in Message, Same(d, m)
    PROVE  Payload(d) = Payload(m)
<1>1. CASE d.size > 0
  BY <1>1 DEF Same, Payload
<1>2. CASE ~(d.size > 0)
  <2>1. d.size = 0 /\ m.size = 0 /\ d.id = m.id
    BY <1>2 DEF Same, Message
  <2>2. SubSeq(d.body, 1, 0) = <<>> /\ SubSeq(m.body, 1, 0) = <<>>
    BY SubSeqEmpty
  <2> QED
    BY <2>1, <2>2 DEF Payload
<1> QED
  BY <1>1, <1>2

\* Another message is sent to e.
LEMMA PutRefines ==
    ASSUME TypeOK, TypeOK', NEW e \in Ends, Arrived(e), NEW m \in Message,
           sent'[Peer(e)] = Append(sent[Peer(e)], m), delivered'[e] = delivered[e]
    PROVE  Pending(e)' = Append(Pending(e), Payload(m)) /\ Received(e)' = Received(e)
<1>1. /\ sent[Peer(e)] \in Seq(Message) /\ Len(delivered[e]) \in Nat
      /\ Len(delivered[e]) <= Len(sent[Peer(e)])
  BY PeerIs, LenProperties DEF TypeOK, Arrived
<1>2. /\ Pending(e) = Rest(sent[Peer(e)], Len(delivered[e]))
      /\ Received(e) = Rest(delivered[e], 0)
  BY ChannelIs
<1>3. /\ Pending(e)' = Rest(sent'[Peer(e)], Len(delivered'[e]))
      /\ Received(e)' = Rest(delivered'[e], 0)
  BY ChannelWillBe
<1> QED
  BY <1>1, <1>2, <1>3, RestAppend

\* Another message is delivered to e.
LEMMA GetRefines ==
    ASSUME TypeOK, TypeOK', NEW e \in Ends,
           sent'[Peer(e)] = sent[Peer(e)], delivered'[e] = Append(delivered[e], tmp[e]),
           NextMessage(e) \in 1..Len(sent[Peer(e)]),
           Same(tmp[e], sent[Peer(e)][NextMessage(e)])
    PROVE  /\ Pending(e) # <<>>
           /\ Received(e)' = Append(Received(e), Head(Pending(e)))
           /\ Pending(e)' = Tail(Pending(e))
<1> DEFINE S == sent[Peer(e)]
           D == delivered[e]
<1>1. /\ S \in Seq(Message) /\ D \in Seq(Message) /\ tmp[e] \in Message
      /\ Len(S) \in Nat /\ Len(D) \in Nat /\ 0 <= Len(D) /\ 0 \in Nat
      /\ NextMessage(e) = Len(D) + 1 /\ Len(D) + 1 <= Len(S)
  BY PeerIs, LenProperties DEF TypeOK, NextMessage
<1>2. /\ Pending(e) = Rest(S, Len(D))
      /\ Received(e) = Rest(D, 0)
  BY ChannelIs
<1>3. /\ Pending(e)' = Rest(sent'[Peer(e)], Len(delivered'[e]))
      /\ Received(e)' = Rest(delivered'[e], 0)
  BY ChannelWillBe
<1>4. Len(delivered'[e]) = Len(D) + 1
  BY <1>1, AppendProperties
<1>5. Payload(tmp[e]) = Payload(S[Len(D) + 1])
  <2>1. S[Len(D) + 1] \in Message
    BY <1>1, ElementOfSeq
  <2> QED
    BY <1>1, <2>1, SamePayload
<1>6. Received(e)' = Append(Rest(D, 0), Payload(tmp[e]))
  BY <1>1, <1>3, RestAppend
<1>7. /\ Rest(S, Len(D)) # <<>>
      /\ Head(Rest(S, Len(D))) = Payload(S[Len(D) + 1])
      /\ Tail(Rest(S, Len(D))) = Rest(S, Len(D) + 1)
  BY <1>1, RestTail
<1> QED
  BY <1>2, <1>3, <1>4, <1>5, <1>6, <1>7

\* What a step does for the channel to e.
LEMMA StepSends ==
    ASSUME DeliveryInv, [Next]_vars, NEW e \in Ends
    PROVE  \/ /\ sent'[Peer(e)] = sent[Peer(e)]
              /\ delivered'[e] = delivered[e]
           \/ /\ \E m \in IF e = "server" THEN ClientMessages ELSE AllMessages :
                    m \in Message /\ sent'[Peer(e)] = Append(sent[Peer(e)], m)
              /\ delivered'[e] = delivered[e]
           \/ /\ sent'[Peer(e)] = sent[Peer(e)]
              /\ delivered'[e] = Append(delivered[e], tmp[e])
              /\ NextMessage(e) \in 1..Len(sent[Peer(e)])
              /\ Same(tmp[e], sent[Peer(e)][NextMessage(e)])
<1>1. ReadingInv /\ TypeOK /\ Origin /\ \A g \in Ends : Receiving(g) /\ Arrived(g)
  BY DEF DeliveryInv, ChallengeInv, ReadingInv, Receiving
<1>2. CASE \/ ConnectToServer \/ TcpEstablish \/ ConnectFailed \/ LoseLink \/ OnConnected
           \/ UNCHANGED vars
  BY <1>2 DEF ConnectToServer, TcpEstablish, ConnectFailed, LoseLink, OnConnected, vars
<1>3. CASE AcceptClient
  <2>1. /\ delivered' = delivered /\ sent'["client"] = sent["client"]
        /\ sent'["server"] = Append(sent["server"], AcceptMessage)
    BY <1>1, <1>3 DEF AcceptClient, TypeOK, Ends
  <2>2. AcceptMessage \in AllMessages /\ AcceptMessage \in Message
    BY MessagesAssumption DEF AllMessages
  <2> QED
    BY <2>1, <2>2, PeerIs DEF Ends
<1>4. ASSUME NEW f \in Ends, NEW m \in Sendable(f), Send(f, m)
      PROVE  \/ /\ sent'[Peer(e)] = sent[Peer(e)]
                /\ delivered'[e] = delivered[e]
             \/ /\ \E x \in IF e = "server" THEN ClientMessages ELSE AllMessages :
                      x \in Message /\ sent'[Peer(e)] = Append(sent[Peer(e)], x)
                /\ delivered'[e] = delivered[e]
  <2>1. m \in (IF f = "client" THEN ClientMessages ELSE AllMessages) /\ m \in Message
    BY <1>1, SendableIs, PeerIs
  <2>2. delivered' = delivered /\ sent' = [sent EXCEPT ![f] = Append(sent[f], m)]
    BY <1>4 DEF Send
  <2>3. CASE f = e
    BY <1>1, <2>2, <2>3, PeerIs
  <2>4. CASE f # e
    <3>1. f = Peer(e) /\ (f = "client" <=> e = "server")
      BY <2>4, PeerIs DEF Ends
    <3>2. sent'[Peer(e)] = Append(sent[Peer(e)], m)
      BY <1>1, <2>2, <3>1 DEF TypeOK
    <3> QED
      BY <2>1, <2>2, <3>1, <3>2
  <2> QED
    BY <2>3, <2>4
<1>5. ASSUME NEW f \in Ends, Disconnect(f) \/ Transmit(f) \/ Fill(f)
      PROVE  sent' = sent /\ delivered' = delivered
  BY <1>5 DEF Disconnect, Transmit, Fill
<1>6. ASSUME NEW f \in Ends, Context(f)
      PROVE  \/ /\ sent' = sent
                /\ delivered'[e] = delivered[e]
             \/ /\ sent' = sent
                /\ delivered'[e] = Append(delivered[e], tmp[e])
                /\ NextMessage(e) \in 1..Len(sent[Peer(e)])
                /\ Same(tmp[e], sent[Peer(e)][NextMessage(e)])
  <2>1. sent' = sent
    BY <1>6 DEF Context, RunSend, RunClose, OnValidationWritten,
       OnHeaderWritten, OnBodyWritten, OnWriteFailed, OnChallengeRead, OnAnswerRead,
       OnHeaderRead, OnBodyRead, OnReadFailed
  <2>2. CASE f # e
    BY <1>1, <1>6, <2>1, <2>2, OtherEnd
  <2>3. CASE f = e /\ (OnBodyRead(e) \/ (OnHeaderRead(e) /\ ~(tmp[e].size > 0)))
    BY <1>1, <2>1, <2>3, DeliverReceiving
  <2>4. CASE f = e /\ ~(OnBodyRead(e) \/ (OnHeaderRead(e) /\ ~(tmp[e].size > 0)))
    <3>1. delivered' = delivered
      BY <1>6, <2>4 DEF Context, RunSend, RunClose, OnValidationWritten,
         OnHeaderWritten, OnBodyWritten, OnWriteFailed, OnChallengeRead, OnAnswerRead,
         OnHeaderRead, OnReadFailed
    <3> QED
      BY <2>1, <3>1
  <2> QED
    BY <2>2, <2>3, <2>4
<1> QED
  BY <1>2, <1>3, <1>4, <1>5, <1>6 DEF Next, User

LEMMA StepToServer == DeliveryInv /\ DeliveryInv' /\ [Next]_vars => [ToServer!Next]_(ToServer!vars)
<1> SUFFICES ASSUME DeliveryInv, DeliveryInv', [Next]_vars
             PROVE  [ToServer!Next]_(ToServer!vars)
  OBVIOUS
<1> DEFINE e == "server"
           p == Peer(e)
<1>1. TypeOK /\ TypeOK' /\ Arrived(e) /\ e \in Ends
  BY PeerIs DEF DeliveryInv, ChallengeInv, ReadingInv, Receiving
<1>2. CASE sent'[p] = sent[p] /\ delivered'[e] = delivered[e]
  <2>1. Pending(e)' = Pending(e) /\ Received(e)' = Received(e)
    BY <1>2 DEF Pending, Received
  <2> QED
    BY <2>1 DEF ToServer!vars
<1>3. ASSUME NEW m \in ClientMessages, m \in Message, sent'[p] = Append(sent[p], m),
             delivered'[e] = delivered[e]
      PROVE  ToServer!Next
  <2>1. Pending(e)' = Append(Pending(e), Payload(m)) /\ Received(e)' = Received(e)
    BY <1>1, <1>3, PutRefines
  <2>2. ToServer!Put(Payload(m))
    BY <2>1 DEF ToServer!Put
  <2> QED
    BY <2>2 DEF ToServer!Next
<1>4. CASE /\ sent'[p] = sent[p]
           /\ delivered'[e] = Append(delivered[e], tmp[e])
           /\ NextMessage(e) \in 1..Len(sent[p])
           /\ Same(tmp[e], sent[p][NextMessage(e)])
  <2>1. /\ Pending(e) # <<>>
        /\ Received(e)' = Append(Received(e), Head(Pending(e)))
        /\ Pending(e)' = Tail(Pending(e))
    BY <1>1, <1>4, GetRefines
  <2> QED
    BY <2>1 DEF ToServer!Get, ToServer!Next
<1> QED
  BY <1>1, <1>2, <1>3, <1>4, StepSends

LEMMA StepToClient == DeliveryInv /\ DeliveryInv' /\ [Next]_vars => [ToClient!Next]_(ToClient!vars)
<1> SUFFICES ASSUME DeliveryInv, DeliveryInv', [Next]_vars
             PROVE  [ToClient!Next]_(ToClient!vars)
  OBVIOUS
<1> DEFINE e == "client"
           p == Peer(e)
<1>1. TypeOK /\ TypeOK' /\ Arrived(e) /\ e \in Ends
  BY PeerIs DEF DeliveryInv, ChallengeInv, ReadingInv, Receiving
<1>2. CASE sent'[p] = sent[p] /\ delivered'[e] = delivered[e]
  <2>1. Pending(e)' = Pending(e) /\ Received(e)' = Received(e)
    BY <1>2 DEF Pending, Received
  <2> QED
    BY <2>1 DEF ToClient!vars
<1>3. ASSUME NEW m \in AllMessages, m \in Message, sent'[p] = Append(sent[p], m),
             delivered'[e] = delivered[e]
      PROVE  ToClient!Next
  <2>1. Pending(e)' = Append(Pending(e), Payload(m)) /\ Received(e)' = Received(e)
    BY <1>1, <1>3, PutRefines
  <2>2. ToClient!Put(Payload(m))
    BY <2>1 DEF ToClient!Put
  <2> QED
    BY <2>2 DEF ToClient!Next, AllMessages
<1>4. CASE /\ sent'[p] = sent[p]
           /\ delivered'[e] = Append(delivered[e], tmp[e])
           /\ NextMessage(e) \in 1..Len(sent[p])
           /\ Same(tmp[e], sent[p][NextMessage(e)])
  <2>1. /\ Pending(e) # <<>>
        /\ Received(e)' = Append(Received(e), Head(Pending(e)))
        /\ Pending(e)' = Tail(Pending(e))
    BY <1>1, <1>4, GetRefines
  <2> QED
    BY <2>1 DEF ToClient!Get, ToClient!Next
<1> QED
  BY <1>1, <1>2, <1>3, <1>4, StepSends

LEMMA InitChannels == Init => ToServer!Init /\ ToClient!Init
<1> SUFFICES ASSUME Init PROVE ToServer!Init /\ ToClient!Init
  OBVIOUS
<1>1. ASSUME NEW e \in Ends PROVE Pending(e) = <<>> /\ Received(e) = <<>>
  <2>1. sent[Peer(e)] = <<>> /\ delivered[e] = <<>>
    BY PeerIs DEF Init
  <2>2. Len(<<>>) = 0 /\ <<>> \in Seq(Message) /\ 0 \in Nat /\ 0 <= 0 /\ 0 - 0 = 0
    BY EmptySeq
  <2>3. Rest(<<>>, 0) \in Seq(Payloads) /\ Len(Rest(<<>>, 0)) = 0
    BY <2>2, RestType
  <2>4. Rest(<<>>, 0) = <<>>
    BY <2>3, EmptySeq
  <2>5. TypeOK
    BY InitType
  <2> QED
    BY <2>1, <2>2, <2>4, <2>5, ChannelIs
<1> QED
  BY <1>1, PeerIs DEF ToServer!Init, ToClient!Init

-----------------------------------------------------------------------------
(* The theorems.                                                           *)

\* Whatever a read of a header or of a body takes from the wire is one, and of the
\* size that the header said; the client takes nothing but the challenge for the
\* challenge.  The buffer that ReadBody fills has the size of the body that comes.
THEOREM StaysInStep == Spec => []InStep
  BY ReadsInStep, AlwaysDeliveryInv, PTL

\* Each direction of a connection is an ordered channel: what AddToIncomingMessageQueue
\* delivers at one end is what Send was given at the other one, in that order, nothing
\* left out, doubled or altered, until a socket closes.
THEOREM DeliversInOrder == Spec => DeliveredInOrder
<1>1. Init => ToServer!Init /\ ToClient!Init
  BY InitChannels
<1>2. Spec => ToServer!Spec
  BY <1>1, StepToServer, AlwaysDeliveryInv, PTL DEF Spec, ToServer!Spec
<1>3. Spec => ToClient!Spec
  BY <1>1, StepToClient, AlwaysDeliveryInv, PTL DEF Spec, ToClient!Spec
<1> QED
  BY <1>2, <1>3, PTL DEF DeliveredInOrder
=============================================================================
