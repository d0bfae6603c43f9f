---------------------------- MODULE FifoDelivery ----------------------------
(***************************************************************************)
(* What a channel of the library promises: the items come out in the order *)
(* in which they were put in, each at most once and none invented.  It     *)
(* promises nothing about how many come out, because a socket may close.   *)
(* TSQueue, Connection and the pings of Chat are shown to implement this.  *)
(***************************************************************************)
EXTENDS Sequences

CONSTANT Items      \* everything that can be put into the channel

VARIABLES
    pending,        \* put and not yet received, oldest first
    received        \* everything received so far, in order

vars == <<pending, received>>

Init ==
    /\ pending = <<>>
    /\ received = <<>>

Put(x) ==
    /\ pending' = Append(pending, x)
    /\ UNCHANGED received

Get ==
    /\ pending # <<>>
    /\ received' = Append(received, Head(pending))
    /\ pending' = Tail(pending)

Next == (\E x \in Items : Put(x)) \/ Get

Spec == Init /\ [][Next]_vars
=============================================================================
