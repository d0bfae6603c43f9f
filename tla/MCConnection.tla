---------------------------- MODULE MCConnection ----------------------------
(***************************************************************************)
(* Values of Connection's constants for TLC: the messages of CustomClient  *)
(* and CustomServer.  A ping carries a time point and is bounced; the      *)
(* other messages the client sends and ServerAccept have no body.          *)
(***************************************************************************)
EXTENDS Connection

Ping == [id |-> "ServerPing", size |-> 1, body |-> <<"t">>]
All == [id |-> "MessageAll", size |-> 0, body |-> <<>>]
Accept == [id |-> "ServerAccept", size |-> 0, body |-> <<>>]
Hello == [id |-> "ServerMessage", size |-> 2, body |-> <<"u", "t">>]

MCClientMessages == {Ping, All}
MCServerMessages == {Hello}
MCIds == {"ServerAccept", "ServerPing", "MessageAll", "ServerMessage"}
MCMaxSends == [e \in Ends |-> 2]

\* For liveness, whose check takes longer: the server sends ServerAccept only.
MCFewSends == [e \in Ends |-> IF e = "client" THEN 2 ELSE 1]
=============================================================================
