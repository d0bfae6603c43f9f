------------------------------- MODULE KeyLoop -------------------------------
(***************************************************************************)
(* The program NetCommon/async_keys/main.cpp: it prints the keys that are  *)
(* pressed until a signal ends it.                                         *)
(***************************************************************************)
EXTENDS Keyboard

VARIABLES
    at,             \* where main is
    end,
    printed         \* history: the keys main has recognised, in order

program == <<at, end, printed>>
vars == <<keyVars, program>>

Init ==
    /\ KeyInit
    /\ at = "setup"
    /\ end = FALSE
    /\ printed = <<>>

\* The handler, which is installed before the terminal's attributes are changed.  A
\* signal that comes earlier ends the program at once.
Signal ==
    /\ at \notin {"ended", "killed"}
    /\ IF at = "setup" THEN at' = "killed" /\ UNCHANGED end
       ELSE end' = TRUE /\ UNCHANGED at
    /\ UNCHANGED <<keyVars, printed>>

Setup ==
    /\ at = "setup"
    /\ term_setup
    /\ at' = "loop"
    /\ UNCHANGED <<end, printed>>

Kbhit ==
    /\ at = "loop"
    /\ ~end
    /\ kbhit
    /\ at' = IF get' # <<>> THEN "print" ELSE "loop"
    /\ UNCHANGED <<end, printed>>

PrintKey ==
    /\ at = "print"
    /\ at' = "loop"
    /\ \/ \E key \in Keys : keydown(key) /\ printed' = Append(printed, key)
       \/ (\A key \in Keys : ~keydown(key)) /\ UNCHANGED printed
    /\ UNCHANGED <<keyVars, end>>

Restore ==
    /\ at = "loop"
    /\ end
    /\ term_restore
    /\ at' = "ended"
    /\ UNCHANGED <<end, printed>>

Next ==
    \/ Signal \/ Setup \/ Kbhit \/ PrintKey \/ Restore
    \/ (ByteArrives \/ \E key \in Typed : Press(key)) /\ UNCHANGED program

Spec == Init /\ [][Next]_vars

\* Whenever the signal comes, the terminal that the program leaves behind is the one it
\* found (linux-kbhit.cpp:21, "Make sure we exit cleanly"); in the loop it is not.
TerminalRestored == tty = IF at \in {"loop", "print"} THEN "raw" ELSE "canonical"
=============================================================================
