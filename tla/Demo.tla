-------------------------------- MODULE Demo --------------------------------
(***************************************************************************)
(* The program demo/SimpleExample.cpp: main asks a web server for a page,  *)
(* and a thread that runs an io_context reads what comes into vBuffer, one *)
(* read after the other (GrabSomeData), until main stops it.               *)
(***************************************************************************)
EXTENDS Naturals

VARIABLES
    at,             \* where main is
    socket,         \* "none", constructed and "closed", "open", or "connected"
    thrContext,     \* "none", in "run", "returned" or "joined"
    stopped,        \* has context.stop been called?
    reads,          \* the number of async_read_some that are outstanding
    handler,        \* what the handler that runs was given: "none", "data", "error"
    alive,          \* are main's socket and context still there?
    terminated      \* has std::terminate been called?

vars == <<at, socket, thrContext, stopped, reads, handler, alive, terminated>>

Init ==
    /\ at = "start"
    /\ socket = "none"
    /\ thrContext = "none"
    /\ stopped = FALSE
    /\ reads = 0
    /\ handler = "none"
    /\ alive = TRUE
    /\ terminated = FALSE

Goto(from, to) == ~terminated /\ at = from /\ at' = to

\* A read is started; nothing happens until data arrive.
GrabSomeData == reads' = reads + 1

-----------------------------------------------------------------------------
(* main                                                                    *)

\* idleWork keeps run from returning although there is nothing to do.
StartThread ==
    /\ Goto("start", "connect")
    /\ thrContext' = "run"
    /\ UNCHANGED <<socket, stopped, reads, handler, alive, terminated>>

\* connect opens the socket, if it can, before it connects it, if it can.  The error
\* code is only printed.
Connect ==
    /\ Goto("connect", "check")
    /\ socket' \in {"closed", "open", "connected"}
    /\ UNCHANGED <<thrContext, stopped, reads, handler, alive, terminated>>

\* is_open is true of a socket that is not connected.
CheckOpen ==
    /\ at = "check"
    /\ IF socket = "closed" THEN Goto("check", "return") /\ UNCHANGED reads
       ELSE Goto("check", "request") /\ GrabSomeData
    /\ UNCHANGED <<socket, thrContext, stopped, handler, alive, terminated>>

\* The request is written, with or without success, and main sleeps.
Request ==
    /\ Goto("request", "stop")
    /\ UNCHANGED <<socket, thrContext, stopped, reads, handler, alive, terminated>>

Stop ==
    /\ Goto("stop", "join")
    /\ stopped' = TRUE
    /\ UNCHANGED <<socket, thrContext, reads, handler, alive, terminated>>

Join ==
    /\ Goto("join", "return")
    /\ thrContext = "returned"
    /\ thrContext' = "joined"
    /\ UNCHANGED <<socket, stopped, reads, handler, alive, terminated>>

\* The socket is destroyed first, then the thread, which must not be joinable, and
\* the context.
Return ==
    /\ Goto("return", "ended")
    /\ alive' = FALSE
    /\ terminated' = (thrContext # "joined")
    /\ UNCHANGED <<socket, thrContext, stopped, reads, handler>>

-----------------------------------------------------------------------------
(* The thread in context.run                                               *)

\* A read is done.  On a socket that is not connected, it fails.
ReadDone ==
    /\ thrContext = "run"
    /\ ~stopped
    /\ ~terminated
    /\ handler = "none"
    /\ reads > 0
    /\ reads' = reads - 1
    /\ handler' \in IF socket = "connected" THEN {"data", "error"} ELSE {"error"}
    /\ UNCHANGED <<at, socket, thrContext, stopped, alive, terminated>>

\* The lambda prints vBuffer and starts the next read; an error ends the reading.
HandlerReturns ==
    /\ ~terminated
    /\ handler # "none"
    /\ handler' = "none"
    /\ IF handler = "data" THEN GrabSomeData ELSE UNCHANGED reads
    /\ UNCHANGED <<at, socket, thrContext, stopped, alive, terminated>>

RunReturns ==
    /\ ~terminated
    /\ thrContext = "run"
    /\ stopped
    /\ handler = "none"
    /\ thrContext' = "returned"
    /\ UNCHANGED <<at, socket, stopped, reads, handler, alive, terminated>>

-----------------------------------------------------------------------------
Next ==
    \/ StartThread \/ Connect \/ CheckOpen \/ Request \/ Stop \/ Join \/ Return
    \/ ReadDone \/ HandlerReturns \/ RunReturns

Spec == Init /\ [][Next]_vars

-----------------------------------------------------------------------------
(* Properties.                                                             *)

TypeOK ==
    /\ at \in {"start", "connect", "check", "request", "stop", "join", "return", "ended"}
    /\ socket \in {"none", "closed", "open", "connected"}
    /\ thrContext \in {"none", "run", "returned", "joined"}
    /\ stopped \in BOOLEAN
    /\ reads \in Nat
    /\ handler \in {"none", "data", "error"}
    /\ alive \in BOOLEAN
    /\ terminated \in BOOLEAN

\* vBuffer is global and GrabSomeData is called from two threads; yet a read never
\* writes to it while another does or while the handler prints it.
BufferHasOneUser ==
    /\ reads <= 1
    /\ handler # "none" => reads = 0

\* The lambda uses the socket by reference, and GrabSomeData the context: no handler
\* runs any more when they have been destroyed, unless std::terminate was called.
NoHandlerAfterEnd == ~alive => terminated \/ (handler = "none" /\ thrContext = "joined")

\* The program returns from main, with the thread joined, whenever the socket could
\* be opened, connected or not.
TerminatesOnlyUnopened == terminated => socket = "closed"
=============================================================================
