------------------------------- MODULE MCChat -------------------------------
(***************************************************************************)
(* Values of Chat's constants for TLC.                                     *)
(***************************************************************************)
EXTENDS Chat

\* One client sends two messages and the others one.
MCMaxAsks == [c \in Clients |-> IF c = CHOOSE d \in Clients : TRUE THEN 2 ELSE 1]

MCIncoming ==
    {[id |-> "MessageAll", size |-> 0, body |-> <<>>]}
        \cup {[id |-> "ServerPing", size |-> 2, body |-> <<n, n>>] : n \in 1..2}
=============================================================================
