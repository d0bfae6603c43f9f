------------------------------ MODULE MCServer ------------------------------
(***************************************************************************)
(* Values of Server's constants for TLC.                                   *)
(***************************************************************************)
EXTENDS Server

\* Bodies play no role for the list of connections.
MCIncoming == [id : {"MessageAll", "ServerPing", "Reply"}, size : {0}, body : {<<>>}]
=============================================================================
