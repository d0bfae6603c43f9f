------------------------------- MODULE Message -------------------------------
(***************************************************************************)
(* olc::net::message<T> (NetCommon/net_message.h): a header with an id and *)
(* a size, and a body, to and from whose end << and >> copy raw data.      *)
(* Data are sequences of units, bytes in the code.                         *)
(***************************************************************************)
EXTENDS Naturals, Sequences

\* header.size is a uint32_t: sizes are kept modulo 2^32.
CONSTANT SizeModulus

ASSUME SizeAssumption == SizeModulus \in Nat \ {0}

NewMessage(id) == [id |-> id, size |-> 0, body |-> <<>>]

\* message::size is a size_t, header.size is not.
WithBody(m, body) == [m EXCEPT !.body = body, !.size = Len(body) % SizeModulus]

\* operator<<
Push(m, data) == WithBody(m, m.body \o data)

\* operator>> of n units of data does not ask whether the body has as many.  If
\* it has not, the position it copies from is before the buffer, and the body is
\* then resized to almost 2^64 bytes, which throws.
CanPull(m, n) == n <= Len(m.body)

Pulled(m, n) == SubSeq(m.body, Len(m.body) - n + 1, Len(m.body))

Pull(m, n) == WithBody(m, SubSeq(m.body, 1, Len(m.body) - n))
=============================================================================
