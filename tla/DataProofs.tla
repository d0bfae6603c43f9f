----------------------------- MODULE DataProofs -----------------------------
(***************************************************************************)
(* Theorems about the library's data: the body of a message is a stack,    *)
(* its size is told truly up to the width of the header, and the handshake *)
(* has one answer for all challenges that differ in their highest byte.    *)
(***************************************************************************)
EXTENDS Message, Scramble, SequenceTheorems, TLAPS

CONSTANTS Ids, Units

Messages == [id : Ids, size : Nat, body : Seq(Units)]

LEMMA ConcatParts ==
    ASSUME NEW s \in Seq(Units), NEW t \in Seq(Units)
    PROVE  /\ s \o t \in Seq(Units)
           /\ Len(s \o t) = Len(s) + Len(t)
           /\ SubSeq(s \o t, 1, Len(s)) = s
           /\ SubSeq(s \o t, Len(s) + 1, Len(s \o t)) = t
<1>1. /\ s \o t \in Seq(Units)
      /\ Len(s \o t) = Len(s) + Len(t)
      /\ \A i \in 1..(Len(s) + Len(t)) :
            (s \o t)[i] = IF i <= Len(s) THEN s[i] ELSE t[i - Len(s)]
  BY ConcatProperties
<1>2. Len(s) \in Nat /\ Len(t) \in Nat
  BY LenProperties
<1>3. SubSeq(s \o t, 1, Len(s)) = s
  <2>1. /\ SubSeq(s \o t, 1, Len(s)) \in Seq(Units)
        /\ Len(SubSeq(s \o t, 1, Len(s))) = Len(s)
        /\ \A i \in 1..Len(s) : SubSeq(s \o t, 1, Len(s))[i] = (s \o t)[i]
    BY <1>1, <1>2
  <2> QED
    BY <2>1, <1>1, <1>2, SeqEqual
<1>4. SubSeq(s \o t, Len(s) + 1, Len(s \o t)) = t
  <2>1. /\ SubSeq(s \o t, Len(s) + 1, Len(s \o t)) \in Seq(Units)
        /\ Len(SubSeq(s \o t, Len(s) + 1, Len(s \o t))) = Len(t)
        /\ \A i \in 1..Len(t) :
              SubSeq(s \o t, Len(s) + 1, Len(s \o t))[i] = (s \o t)[Len(s) + i]
    BY <1>1, <1>2
  <2>2. \A i \in 1..Len(t) : (s \o t)[Len(s) + i] = t[i]
    BY <1>1, <1>2
  <2> QED
    BY <2>1, <2>2, <1>2, SeqEqual
<1> QED
  BY <1>1, <1>3, <1>4

LEMMA PushBody ==
    ASSUME NEW m \in Messages, NEW data \in Seq(Units)
    PROVE  /\ Push(m, data).body = m.body \o data
           /\ Push(m, data).id = m.id
           /\ Push(m, data).size = Len(m.body \o data) % SizeModulus
           /\ Push(m, data) \in Messages
<1>1. m.body \o data \in Seq(Units) /\ Len(m.body \o data) \in Nat
  BY ConcatParts, LenProperties DEF Messages
<1>2. \A n \in Nat : n % SizeModulus \in Nat
  BY SizeAssumption
<1>3. Len(m.body \o data) % SizeModulus \in Nat
  BY <1>1, <1>2, Zenon
<1> QED
  BY <1>1, <1>3 DEF Push, WithBody, Messages

\* operator>> gives back what operator<< was given last, and the message as it was
\* before (net_message.h:38, "as if it were a stack").
THEOREM PullUndoesPush ==
    ASSUME NEW m \in Messages, m.size = Len(m.body) % SizeModulus,
           NEW data \in Seq(Units)
    PROVE  /\ CanPull(Push(m, data), Len(data))
           /\ Pulled(Push(m, data), Len(data)) = data
           /\ Pull(Push(m, data), Len(data)) = m
<1> DEFINE p == Push(m, data)
<1>1. /\ m.body \in Seq(Units)
      /\ p.body = m.body \o data /\ p.id = m.id /\ p \in Messages
  BY PushBody DEF Messages
<1> HIDE DEF p
<1>2. /\ Len(p.body) = Len(m.body) + Len(data)
      /\ SubSeq(p.body, 1, Len(m.body)) = m.body
      /\ SubSeq(p.body, Len(m.body) + 1, Len(p.body)) = data
  <2>1. /\ Len(m.body \o data) = Len(m.body) + Len(data)
        /\ SubSeq(m.body \o data, 1, Len(m.body)) = m.body
        /\ SubSeq(m.body \o data, Len(m.body) + 1, Len(m.body \o data)) = data
    BY <1>1, ConcatParts, Zenon
  <2> QED
    BY <1>1, <2>1, Zenon
<1>3. Len(m.body) \in Nat /\ Len(data) \in Nat
  BY <1>1, LenProperties
<1>4. Len(p.body) \in Nat /\ Len(p.body) - Len(data) = Len(m.body)
  BY <1>2, <1>3
<1>5. CanPull(p, Len(data)) /\ Pulled(p, Len(data)) = data
  <2>1. Len(data) <= Len(p.body)
    BY <1>2, <1>3
  <2> QED
    BY <1>2, <1>4, <2>1 DEF CanPull, Pulled
<1>6. Pull(p, Len(data)) = m
  <2>1. Pull(p, Len(data)) = [p EXCEPT !.body = m.body, !.size = m.size]
    BY <1>2, <1>4 DEF Pull, WithBody
  <2> QED
    BY <2>1, <1>1 DEF Messages
<1> QED
  BY <1>5, <1>6 DEF p

\* Two values come out in the opposite order, the second one first.
THEOREM LastInFirstOut ==
    ASSUME NEW m \in Messages, m.size = Len(m.body) % SizeModulus,
           NEW a \in Seq(Units), NEW b \in Seq(Units)
    PROVE  LET p == Push(Push(m, a), b)
           IN  /\ Pulled(p, Len(b)) = b
               /\ Pulled(Pull(p, Len(b)), Len(a)) = a
<1>1. Push(m, a) \in Messages /\ Push(m, a).size = Len(Push(m, a).body) % SizeModulus
  BY PushBody
<1>2. Pulled(Push(Push(m, a), b), Len(b)) = b /\ Pull(Push(Push(m, a), b), Len(b)) = Push(m, a)
  BY <1>1, PullUndoesPush
<1>3. Pulled(Push(m, a), Len(a)) = a
  BY PullUndoesPush
<1> QED
  BY <1>2, <1>3

\* header.size is the size of the body, which the receiver relies on, exactly as long as
\* the body is shorter than 2^32 bytes: it is 32 bits wide, message::size is not.
THEOREM SizeIsTrueUpToItsWidth ==
    ASSUME NEW m \in Messages, NEW data \in Seq(Units)
    PROVE  Push(m, data).size = Len(Push(m, data).body)
            <=> Len(m.body) + Len(data) < SizeModulus
<1>1. /\ Push(m, data).body = m.body \o data
      /\ Push(m, data).size = Len(m.body \o data) % SizeModulus
      /\ Len(m.body \o data) = Len(m.body) + Len(data)
      /\ Len(m.body) \in Nat /\ Len(data) \in Nat
  BY PushBody, ConcatParts, LenProperties DEF Messages
<1>2. \A n \in Nat : n % SizeModulus = n <=> n < SizeModulus
  BY SizeAssumption
<1> QED
  BY <1>1, <1>2

-----------------------------------------------------------------------------
LEMMA HexType == \A d \in Nat : Hex(d) \in Nibble
  BY DEF Hex, Nibble

LEMMA XorNibbleCancels ==
    ASSUME NEW a \in Nibble, NEW b \in Nibble, NEW k \in Nibble,
           XorNibble(a, k) = XorNibble(b, k)
    PROVE  a = b
<1>1. \A j \in 0..3 : (a[j] # k[j]) = (b[j] # k[j])
  BY DEF XorNibble
<1>2. \A j \in 0..3 : a[j] \in BOOLEAN /\ b[j] \in BOOLEAN /\ k[j] \in BOOLEAN
  BY DEF Nibble
<1>3. \A j \in 0..3 : a[j] = b[j]
  BY <1>1, <1>2
<1> QED
  BY <1>3 DEF Nibble

LEMMA XorCancels ==
    ASSUME NEW v \in Word, NEW w \in Word, NEW k \in Word, NEW i \in 0..7,
           Xor(v, k)[i] = Xor(w, k)[i]
    PROVE  v[i] = w[i]
<1>1. /\ v[i] \in Byte /\ w[i] \in Byte /\ k[i] \in Byte
  BY DEF Word
<1>2. /\ XorNibble(v[i].hi, k[i].hi) = XorNibble(w[i].hi, k[i].hi)
      /\ XorNibble(v[i].lo, k[i].lo) = XorNibble(w[i].lo, k[i].lo)
  BY DEF Xor
<1>3. v[i].hi = w[i].hi /\ v[i].lo = w[i].lo
  BY <1>1, <1>2, XorNibbleCancels DEF Byte
<1> QED
  BY <1>1, <1>3 DEF Byte

LEMMA XorType == \A v, w \in Word : Xor(v, w) \in Word
  BY DEF Xor, Word, Byte, XorNibble, Nibble

LEMMA SwapType == \A w \in Word : SwapNibbles(w) \in Word
<1>1. Hex(0) \in Nibble
  BY HexType
<1> QED
  BY <1>1 DEF SwapNibbles, Word, Byte

LEMMA KeyType == KeyIn \in Word /\ KeyOut \in Word
  BY HexType DEF KeyIn, KeyOut, HexWord, Word, Byte

\* The server takes the answer to a challenge for the right one exactly if it is the
\* answer to a challenge that agrees with its own in the lower seven bytes: nothing
\* but the highest byte is lost (net_connection.h:297).
THEOREM OnlyHighestByteLost ==
    ASSUME NEW v \in Word, NEW w \in Word
    PROVE  scramble(v) = scramble(w) <=> SameLowBytes(v, w)
<1> DEFINE x == Xor(v, KeyIn)
           y == Xor(w, KeyIn)
<1>1. /\ x \in Word /\ y \in Word
      /\ SwapNibbles(x) \in Word /\ SwapNibbles(y) \in Word
  BY XorType, SwapType, KeyType
<1>2. ASSUME SameLowBytes(v, w)
      PROVE  scramble(v) = scramble(w)
  <2>1. \A i \in 0..6 : x[i] = y[i]
    BY <1>2 DEF SameLowBytes, Xor
  <2>2. SwapNibbles(x) = SwapNibbles(y)
    BY <2>1 DEF SwapNibbles
  <2> QED
    BY <2>2 DEF scramble
<1>3. ASSUME scramble(v) = scramble(w), NEW i \in 0..6
      PROVE  v[i] = w[i]
  <2>1. i \in 0..7 /\ i # 7
    OBVIOUS
  <2>2. SwapNibbles(x)[i] = SwapNibbles(y)[i]
    BY <1>1, <1>3, <2>1, XorCancels, KeyType DEF scramble
  <2>3. x[i].hi = y[i].hi /\ x[i].lo = y[i].lo
    BY <2>1, <2>2 DEF SwapNibbles
  <2>4. x[i] = y[i]
    <3> HIDE DEF x, y
    <3>1. x[i] \in Byte /\ y[i] \in Byte
      BY <1>1, <2>1 DEF Word
    <3> QED
      BY <2>3, <3>1 DEF Byte
  <2> QED
    BY <2>1, <2>4, XorCancels, KeyType
<1> QED
  BY <1>2, <1>3 DEF SameLowBytes
=============================================================================
