------------------------------ MODULE Keyboard ------------------------------
(***************************************************************************)
(* The terminal of SimpleClient (NetCommon/async_keys/linux-kbhit.cpp):    *)
(* term_setup makes it deliver each key at once, kbhit reads what has been *)
(* typed, keydown says which key it was.  Arrow keys are sent as three     *)
(* bytes, whose first is all of ESC; kbhit reads up to three of the bytes  *)
(* that have arrived, whatever keys they belong to.                        *)
(***************************************************************************)
EXTENDS Naturals, Sequences

CONSTANTS
    Typed,          \* the keys that may be pressed
    MaxKeys         \* bound of the model: keys pressed

Keys == {"ESC", "UP", "DOWN", "LEFT", "RIGHT", "A"}

ASSUME TypedAssumption == Typed \subseteq Keys /\ MaxKeys \in Nat

\* linux-kbhit.h, byte by byte: \033 is written as "e".
Bytes(key) ==
    CASE key = "ESC"   -> <<"e">>
      [] key = "UP"    -> <<"e", "[", "A">>
      [] key = "DOWN"  -> <<"e", "[", "B">>
      [] key = "LEFT"  -> <<"e", "[", "D">>
      [] key = "RIGHT" -> <<"e", "[", "C">>
      [] key = "A"     -> <<"a">>

VARIABLES
    together,       \* do the bytes of a key arrive at once, as from a local terminal?
    tty,            \* the terminal's attributes: "canonical" or "raw"
    oldtio,         \* those that term_setup has saved
    line,           \* bytes typed that have not arrived yet
    stdin,          \* bytes that have arrived and were not read yet
    get,            \* what kbhit has read, up to the first null byte
    pressed         \* history: the keys pressed, in order

keyVars == <<together, tty, oldtio, line, stdin, get, pressed>>

KeyInit ==
    /\ together \in BOOLEAN
    /\ tty = "canonical"
    /\ oldtio = "none"
    /\ line = <<>>
    /\ stdin = <<>>
    /\ get = <<>>
    /\ pressed = <<>>

Press(key) ==
    /\ Len(pressed) < MaxKeys
    /\ pressed' = Append(pressed, key)
    /\ IF together THEN stdin' = stdin \o Bytes(key) /\ UNCHANGED line
       ELSE line' = line \o Bytes(key) /\ UNCHANGED stdin
    /\ UNCHANGED <<together, tty, oldtio, get>>

\* One of the bytes on their way, over ssh perhaps.
ByteArrives ==
    /\ line # <<>>
    /\ stdin' = Append(stdin, Head(line))
    /\ line' = Tail(line)
    /\ UNCHANGED <<together, tty, oldtio, get, pressed>>

\* Defect: the attributes are saved once more after they have been changed.
SaveChanged ==
    /\ tty' = "raw"
    /\ oldtio' = "raw"
    /\ UNCHANGED <<together, line, stdin, get, pressed>>

term_setup ==
    /\ oldtio' = tty
    /\ tty' = "raw"
    /\ UNCHANGED <<together, line, stdin, get, pressed>>

term_restore ==
    /\ tty' = oldtio
    /\ UNCHANGED <<together, oldtio, line, stdin, get, pressed>>

\* Defect: the null byte behind what has been read is overwritten.
AtMostFour(bytes) == SubSeq(bytes, 1, IF Len(bytes) < 4 THEN Len(bytes) ELSE 4)

AtMostThree(bytes) == SubSeq(bytes, 1, IF Len(bytes) < 3 THEN Len(bytes) ELSE 3)

\* Defect: get is not cleared first.
KbhitUncleared ==
    /\ get' = LET read == AtMostThree(stdin)
              IN  read \o SubSeq(get, Len(read) + 1, Len(get))
    /\ stdin' = SubSeq(stdin, Len(AtMostThree(stdin)) + 1, Len(stdin))
    /\ UNCHANGED <<together, tty, oldtio, line, pressed>>

\* It returns true if it has read anything, that is, if get' is not empty.
kbhit ==
    /\ get' = AtMostThree(stdin)
    /\ stdin' = SubSeq(stdin, Len(get') + 1, Len(stdin))
    /\ UNCHANGED <<together, tty, oldtio, line, pressed>>

keydown(key) == get = Bytes(key)
=============================================================================
