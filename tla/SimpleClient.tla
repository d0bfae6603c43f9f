---------------------------- MODULE SimpleClient ----------------------------
(***************************************************************************)
(* The program NetCommon/SimpleClient.cpp: a CustomClient, which is a      *)
(* client_interface (Client), and the keyboard (Keyboard).  Main polls the *)
(* keys, acts on them and handles one message, over and over, until ESC is *)
(* read or the socket has closed; then the client is destroyed.            *)
(***************************************************************************)
EXTENDS Client, Keyboard, FiniteSets

VARIABLES
    at,             \* where main is
    bQuit,
    acted,          \* history: the keys main has acted on, in order
    handled         \* history: the number of messages main has handled

program == <<at, bQuit, acted, handled>>
vars == <<clientVars, keyVars, program>>

SimpleInit ==
    /\ ClientInit
    /\ KeyInit
    /\ at = "connect"
    /\ bQuit = FALSE
    /\ acted = <<>>
    /\ handled = 0

-----------------------------------------------------------------------------
\* Whether Connect returns true is not looked at.
MainConnect ==
    /\ at = "connect"
    /\ Connect \/ ConnectThrows
    /\ at' = "setup"
    /\ UNCHANGED <<keyVars, bQuit, acted, handled>>

MainSetup ==
    /\ at = "setup"
    /\ term_setup
    /\ at' = "keys"
    /\ UNCHANGED <<clientVars, pressed, bQuit, acted, handled>>

\* The loop.
MainKbhit ==
    /\ at = "keys"
    /\ kbhit
    /\ at' = IF get' # <<>> THEN "act" ELSE "check"
    /\ UNCHANGED <<clientVars, bQuit, acted, handled>>

\* CustomClient's PingServer and MessageAll.
PingOrMessageAll == Send

\* PingServer on UP, MessageAll on DOWN, quit on ESC, nothing on anything else.
MainAct ==
    /\ at = "act"
    /\ at' = "check"
    /\ \/ \E key \in {"UP", "DOWN"} :
            /\ keydown(key)
            /\ PingOrMessageAll
            /\ acted' = Append(acted, key)
            /\ UNCHANGED bQuit
       \/ /\ keydown("ESC")
          /\ bQuit' = TRUE
          /\ acted' = Append(acted, "ESC")
          /\ UNCHANGED clientVars
       \/ /\ \A key \in {"UP", "DOWN", "ESC"} : ~keydown(key)
          /\ UNCHANGED <<clientVars, bQuit, acted>>
    /\ UNCHANGED <<keyVars, handled>>

Turn == IF bQuit THEN "restore" ELSE "keys"

\* Defect: a closed socket does not end the loop.
CheckOnly ==
    /\ at = "check"
    /\ at' = IF IsConnected THEN "empty" ELSE Turn
    /\ UNCHANGED <<clientVars, keyVars, bQuit, acted, handled>>

\* The server is down unless IsConnected.
MainCheck ==
    /\ at = "check"
    /\ IF IsConnected THEN at' = "empty" /\ UNCHANGED bQuit
       ELSE at' = "restore" /\ bQuit' = TRUE
    /\ UNCHANGED <<clientVars, keyVars, acted, handled>>

\* Defect: the last message is left for later.
TakeAllButLast ==
    /\ at = "empty"
    /\ IF Len(qMessagesIn) <= 1 THEN UNCHANGED <<clientVars, handled>>
       ELSE Take /\ handled' = handled + 1
    /\ at' = Turn
    /\ UNCHANGED <<keyVars, bQuit, acted>>

\* A message, if there is one, is taken and handled.  Main is the only one who
\* takes messages, so that it may test and take in two steps.
MainTake ==
    /\ at = "empty"
    /\ IF qMessagesIn = <<>> THEN UNCHANGED <<clientVars, handled>>
       ELSE Take /\ handled' = handled + 1
    /\ at' = Turn
    /\ UNCHANGED <<keyVars, bQuit, acted>>

MainRestore ==
    /\ at = "restore"
    /\ term_restore
    /\ at' = "return"
    /\ UNCHANGED <<clientVars, pressed, bQuit, acted, handled>>

\* main returns: the client's destructor.
MainReturn ==
    /\ at = "return"
    /\ \/ Disconnect(TRUE) /\ UNCHANGED at
       \/ Stop /\ UNCHANGED at
       \/ Join /\ at' = "ended"
    /\ UNCHANGED <<keyVars, bQuit, acted, handled>>

-----------------------------------------------------------------------------
Main ==
    \/ MainConnect
    \/ MainSetup
    \/ MainKbhit
    \/ MainAct
    \/ MainCheck
    \/ MainTake
    \/ MainRestore
    \/ MainReturn

SimpleNext ==
    \/ Main
    \/ (Network \/ Context) /\ UNCHANGED <<keyVars, program>>
    \/ /\ at # "ended"
       /\ ByteArrives \/ \E key \in Typed : Press(key)
       /\ UNCHANGED <<clientVars, program>>

SimpleSpec == SimpleInit /\ [][SimpleNext]_vars

\* Main and the thread in run() are scheduled.  Nothing need ever come from the
\* keyboard or the network.
SimpleFairness ==
    /\ WF_vars(Main)
    /\ WF_vars(Context /\ UNCHANGED <<keyVars, program>>)

SimpleFairSpec == SimpleSpec /\ SimpleFairness

-----------------------------------------------------------------------------
(* Properties.                                                             *)

TtyBytes == {"e", "[", "A", "B", "C", "D", "a"}

TypeOK ==
    /\ ClientTypeOK
    /\ together \in BOOLEAN
    /\ tty \in {"canonical", "raw"}
    /\ oldtio \in {"none", "canonical", "raw"}
    /\ line \in Seq(TtyBytes) /\ stdin \in Seq(TtyBytes)
    /\ get \in Seq(TtyBytes) /\ Len(get) <= 3
    /\ pressed \in Seq(Keys)
    /\ at \in {"connect", "setup", "keys", "act", "check", "empty", "restore", "return", "ended"}
    /\ bQuit \in BOOLEAN
    /\ acted \in Seq(Keys)
    /\ handled \in Nat

\* Main does nothing that was not asked for: no key is acted upon more often than
\* it was pressed, although kbhit may cut the bytes of a key in two.  Of ESC this is true
\* if the bytes of a key arrive together: the first one of an arrow alone is ESC.
Count(keys, key) == Cardinality({i \in DOMAIN keys : keys[i] = key})

ActsOnKeys ==
    \A key \in Keys :
        together \/ key # "ESC" => Count(acted, key) <= Count(pressed, key)

\* However the program ends, the terminal is as it was (linux-kbhit.cpp:21, "Make
\* sure we exit cleanly").
TerminalRestored == at \in {"return", "ended"} => tty = "canonical"

\* The destructor will "disconnect from server gracefully" (net_client.h:73): a socket that
\* is open when the program has ended is one whose close was posted, in a context that
\* has stopped before it was run.
ClosePosted ==
    at = "ended" /\ sock = "open" => \E i \in DOMAIN posted : posted[i] = "close"

\* What is read as ESC quits, although the thread in run() waits for the network, unless
\* further bytes arrive before it is read.
EscapeQuits == (stdin = Bytes("ESC") /\ at = "keys") ~> (at = "ended" \/ Len(stdin) > 1)

\* When the socket has closed, the program ends.
DownIsNoticed == (sock = "closed") ~> (at = "ended")

\* A message that has arrived is handled, unless the program quits or the socket
\* closes: then the loop is left with messages in the queue.
MessageHandled ==
    \A n \in 1..MaxMessages :
        total >= n ~> (handled >= n \/ bQuit \/ sock = "closed")

\* IsConnected says "if client is actually connected to a server"
\* (net_client.h:87): when it could not connect, it says no.
RefusedIsNoticed == (op = "refused") ~> ~IsConnected
=============================================================================
