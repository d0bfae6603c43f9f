--------------------------- MODULE ProgramProofs ---------------------------
(***************************************************************************)
(* Theorems about Client, for every program that uses it, about            *)
(* SimpleClient, which is such a program, and about the two example        *)
(* programs, Demo and KeyLoop.                                             *)
(***************************************************************************)
EXTENDS SimpleClient, SequenceTheorems, FiniteSetTheorems, TLAPS

\* QuietWhenReleased is not inductive: a released connection must also leave no
\* thread behind that a stopped context has yet to be told of.
QuietInv == ClientTypeOK /\ (~conn => thread = "none")

LEMMA ClientInitQuiet == ClientInit => QuietInv
<1> SUFFICES ASSUME ClientInit PROVE QuietInv
  OBVIOUS
<1>1. posted \in Seq({"send", "close"}) /\ qMessagesIn \in Seq(Messages)
  BY EmptySeq DEF ClientInit
<1>2. total \in Nat
  BY DEF ClientInit
<1>3. /\ conn \in BOOLEAN /\ writing \in BOOLEAN
      /\ alive \in BOOLEAN /\ crash \in BOOLEAN
  BY DEF ClientInit
<1>4. ~conn => thread = "none"
  BY DEF ClientInit
<1> QED
  BY <1>1, <1>2, <1>3, <1>4 DEF ClientInit, QuietInv, ClientTypeOK

\* What the user's calls do.
LEMMA UserQuiet ==
    ASSUME QuietInv,
           Connect \/ ConnectThrows \/ Send \/ Take \/ Stop \/ Join
            \/ \E last \in BOOLEAN : Disconnect(last)
    PROVE  QuietInv'
<1>1. posted' \in Seq({"send", "close"})
  <2>1. /\ Append(posted, "send") \in Seq({"send", "close"})
        /\ Append(posted, "close") \in Seq({"send", "close"})
    BY AppendProperties DEF QuietInv, ClientTypeOK
  <2> QED
    BY <2>1 DEF QuietInv, ClientTypeOK, Connect, ConnectThrows, Send, Take, Stop,
                Join, Disconnect, clientVars, net, runtime, user
<1>2. qMessagesIn' \in Seq(Messages)
  <2>1. qMessagesIn # <<>> => Tail(qMessagesIn) \in Seq(Messages)
    BY HeadTailProperties DEF QuietInv, ClientTypeOK
  <2> QED
    BY <2>1 DEF QuietInv, ClientTypeOK, Connect, ConnectThrows, Send, Take, Stop,
                Join, Disconnect, clientVars, net, runtime, user
<1> QED
  BY <1>1, <1>2
  DEF QuietInv, ClientTypeOK, Connect, ConnectThrows, Send, Take, Stop, Join,
      Disconnect, clientVars, net, runtime, user

\* What happens on the thread in run().
LEMMA ContextQuiet ==
    ASSUME QuietInv, Network \/ Context
    PROVE  QuietInv'
<1>1. posted' \in Seq({"send", "close"})
  <2>1. posted # <<>> => Tail(posted) \in Seq({"send", "close"})
    BY HeadTailProperties DEF QuietInv, ClientTypeOK
  <2> QED
    BY <2>1 DEF QuietInv, ClientTypeOK, Network, Context, Connected, Refused, Answered,
                ReadMessage, OpFails, RunSend, RunClose, RunReturns, net
<1>2. qMessagesIn' \in Seq(Messages)
  <2>1. \A m \in Messages : Append(qMessagesIn, m) \in Seq(Messages)
    BY AppendProperties DEF QuietInv, ClientTypeOK
  <2> QED
    BY <2>1 DEF QuietInv, ClientTypeOK, Network, Context, Connected, Refused, Answered,
                ReadMessage, OpFails, RunSend, RunClose, RunReturns, Rest
<1>3. UNCHANGED <<conn, alive, call, crash>>
  BY DEF Network, Context, Connected, Refused, Answered, ReadMessage, OpFails,
         RunSend, RunClose, RunReturns, Rest, user
<1>4. sock' \in {"none", "open", "closed"} /\ writing' \in BOOLEAN
  BY DEF QuietInv, ClientTypeOK, Network, Context, Connected, Refused, Answered,
         ReadMessage, OpFails, RunSend, RunClose, RunReturns, net
<1>5. op' \in {"none", "connect", "refused", "handshake", "read"} /\ total' \in Nat
  BY DEF QuietInv, ClientTypeOK, Network, Context, Connected, Refused, Answered,
         ReadMessage, OpFails, RunSend, RunClose, RunReturns, net, Rest
<1>6. /\ context' \in {"new", "running", "stopped"}
      /\ thread' \in {"none", "run", "returned"}
      /\ ~conn => thread' = "none"
  BY DEF QuietInv, ClientTypeOK, Network, Context, Connected, Refused, Answered,
         ReadMessage, OpFails, RunSend, RunClose, RunReturns, runtime, Rest
<1> QED
  BY <1>1, <1>2, <1>3, <1>4, <1>5, <1>6 DEF QuietInv, ClientTypeOK

LEMMA ClientStepQuiet == QuietInv /\ [ClientNext]_clientVars => QuietInv'
<1> SUFFICES ASSUME QuietInv, [ClientNext]_clientVars PROVE QuietInv'
  OBVIOUS
<1>1. CASE Network \/ Context
  BY <1>1, ContextQuiet
<1>2. CASE Connect \/ ConnectThrows \/ Send \/ Take \/ Stop \/ Join
            \/ \E last \in BOOLEAN : Disconnect(last)
  BY <1>2, UserQuiet
<1>3. CASE UNCHANGED clientVars
  BY <1>3 DEF QuietInv, ClientTypeOK, clientVars, net, runtime, user
<1> QED
  BY <1>1, <1>2, <1>3 DEF ClientNext

\* Whatever the calls its user makes, and whatever the network does, no handler of
\* a client runs after its connection was released (client_interface::Disconnect
\* waits for the thread before it lets the connection go).
THEOREM ClientStaysQuiet == ClientSpec => [](ClientTypeOK /\ QuietWhenReleased)
<1>1. QuietInv => ClientTypeOK /\ QuietWhenReleased
  BY DEF QuietInv, QuietWhenReleased
<1> QED
  BY <1>1, ClientInitQuiet, ClientStepQuiet, PTL DEF ClientSpec

-----------------------------------------------------------------------------
\* Every step of the program is a call or a step of the client, or does not concern
\* it.
LEMMA SimpleStepUsesClient == [SimpleNext]_vars => [ClientNext]_clientVars
<1> SUFFICES ASSUME [SimpleNext]_vars PROVE [ClientNext]_clientVars
  OBVIOUS
<1>1. CASE Main
  <2>1. CASE MainConnect
    BY <2>1 DEF MainConnect, ClientNext
  <2>2. CASE MainAct
    BY <2>2 DEF MainAct, PingOrMessageAll, ClientNext
  <2>3. CASE MainTake
    BY <2>3 DEF MainTake, ClientNext
  <2>4. CASE MainReturn
    BY <2>4 DEF MainReturn, ClientNext
  <2>5. CASE MainSetup \/ MainKbhit \/ MainCheck \/ MainRestore
    BY <2>5 DEF MainSetup, MainKbhit, MainCheck, MainRestore
  <2> QED
    BY <1>1, <2>1, <2>2, <2>3, <2>4, <2>5 DEF Main
<1>2. CASE (Network \/ Context) /\ UNCHANGED <<keyVars, program>>
  BY <1>2 DEF ClientNext
<1>3. CASE /\ at # "ended"
           /\ ByteArrives \/ \E key \in Typed : Press(key)
           /\ UNCHANGED <<clientVars, program>>
  BY <1>3
<1>4. CASE UNCHANGED vars
  BY <1>4 DEF vars
<1> QED
  BY <1>1, <1>2, <1>3, <1>4 DEF SimpleNext

LEMMA SimpleUsesClient == SimpleSpec => ClientSpec
<1>1. SimpleInit => ClientInit
  BY DEF SimpleInit
<1> QED
  BY <1>1, SimpleStepUsesClient, PTL DEF SimpleSpec, ClientSpec

\* No handler of SimpleClient's runs when its connection was let go.
THEOREM SimpleStaysQuiet == SimpleSpec => []QuietWhenReleased
  BY SimpleUsesClient, ClientStaysQuiet, PTL

-----------------------------------------------------------------------------
\* What term_setup saves is the terminal as main found it, and it is kept for
\* term_restore.
TerminalInv ==
    /\ at \in {"connect", "setup"} => tty = "canonical"
    /\ at \in {"keys", "act", "check", "empty", "restore"} => oldtio = "canonical"
    /\ TerminalRestored

LEMMA TerminalStep == TerminalInv /\ [SimpleNext]_vars => TerminalInv'
<1> SUFFICES ASSUME TerminalInv, [SimpleNext]_vars PROVE TerminalInv'
  OBVIOUS
<1>1. CASE MainConnect
  BY <1>1 DEF MainConnect, TerminalInv, TerminalRestored, keyVars
<1>2. CASE MainSetup
  BY <1>2 DEF MainSetup, term_setup, TerminalInv, TerminalRestored
<1>3. CASE MainKbhit
  BY <1>3 DEF MainKbhit, kbhit, TerminalInv, TerminalRestored
<1>4. CASE MainAct \/ MainCheck \/ MainTake
  BY <1>4 DEF MainAct, MainCheck, MainTake, Turn, TerminalInv, TerminalRestored, keyVars
<1>5. CASE MainRestore
  BY <1>5 DEF MainRestore, term_restore, TerminalInv, TerminalRestored
<1>6. CASE MainReturn
  BY <1>6 DEF MainReturn, TerminalInv, TerminalRestored, keyVars
<1>7. CASE \/ (Network \/ Context) /\ UNCHANGED <<keyVars, program>>
           \/ /\ at # "ended"
              /\ ByteArrives \/ \E key \in Typed : Press(key)
              /\ UNCHANGED <<clientVars, program>>
           \/ UNCHANGED vars
  BY <1>7 DEF Press, ByteArrives, TerminalInv, TerminalRestored, keyVars, program, vars
<1> QED
  BY <1>1, <1>2, <1>3, <1>4, <1>5, <1>6, <1>7 DEF SimpleNext, Main

\* Whichever way the loop is left, by ESC or because the server is down, the
\* terminal's attributes are then those that main found.
THEOREM SimpleRestoresTerminal == SimpleSpec => []TerminalRestored
<1>1. SimpleInit => TerminalInv
  BY DEF SimpleInit, KeyInit, TerminalInv, TerminalRestored
<1>2. TerminalInv => TerminalRestored
  BY DEF TerminalInv
<1> QED
  BY <1>1, <1>2, TerminalStep, PTL DEF SimpleSpec

-----------------------------------------------------------------------------
(* The types of SimpleClient.                                              *)

LEMMA BytesType == \A key \in Keys : Bytes(key) \in Seq(TtyBytes)
<1>1. /\ <<"e">> \in Seq(TtyBytes) /\ <<"a">> \in Seq(TtyBytes)
      /\ \A b \in {"A", "B", "C", "D"} : <<"e", "[", b>> \in Seq(TtyBytes)
  BY DEF TtyBytes
<1> QED
  BY <1>1 DEF Bytes, Keys

LEMMA KbhitTypes ==
    ASSUME stdin \in Seq(TtyBytes), kbhit
    PROVE  /\ get' \in Seq(TtyBytes) /\ Len(get') <= 3
           /\ stdin' \in Seq(TtyBytes)
<1> DEFINE n == IF Len(stdin) < 3 THEN Len(stdin) ELSE 3
<1>1. Len(stdin) \in Nat /\ n \in Nat /\ n <= 3 /\ n <= Len(stdin)
  BY LenProperties
<1>2. get' = SubSeq(stdin, 1, n)
  BY DEF kbhit, AtMostThree
<1> HIDE DEF n
<1>3. get' \in Seq(TtyBytes) /\ Len(get') = n
  BY <1>1, <1>2, SubSeqProperties
<1>4. SubSeq(stdin, n + 1, Len(stdin)) \in Seq(TtyBytes)
  BY <1>1, SubSeqProperties
<1> QED
  BY <1>1, <1>3, <1>4 DEF kbhit

LEMMA SimpleInitType == SimpleInit => TypeOK
<1> SUFFICES ASSUME SimpleInit PROVE TypeOK
  OBVIOUS
<1>1. /\ line \in Seq(TtyBytes) /\ stdin \in Seq(TtyBytes)
      /\ get \in Seq(TtyBytes) /\ Len(get) <= 3
      /\ pressed \in Seq(Keys) /\ acted \in Seq(Keys)
  BY EmptySeq, LenProperties DEF SimpleInit, KeyInit
<1>2. ClientTypeOK
  BY ClientInitQuiet DEF SimpleInit, QuietInv
<1> QED
  BY <1>1, <1>2 DEF SimpleInit, KeyInit, TypeOK

\* TypeOK is not inductive: term_restore must not run before term_setup.
SimpleTypes == TypeOK /\ QuietInv /\ TerminalInv

LEMMA SimpleStepType == SimpleTypes /\ [SimpleNext]_vars => SimpleTypes'
<1> SUFFICES ASSUME SimpleTypes, [SimpleNext]_vars PROVE SimpleTypes'
  OBVIOUS
<1>1. QuietInv' /\ TerminalInv'
  BY SimpleStepUsesClient, ClientStepQuiet, TerminalStep DEF SimpleTypes
<1> SUFFICES TypeOK'
  BY <1>1 DEF SimpleTypes
<1>2. ClientTypeOK'
  BY <1>1 DEF QuietInv
<1> USE DEF SimpleTypes, TypeOK
<1>3. CASE MainConnect
  BY <1>2, <1>3 DEF MainConnect, keyVars
<1>4. CASE MainSetup
  BY <1>2, <1>4 DEF MainSetup, term_setup
<1>5. CASE MainKbhit
  BY <1>2, <1>5, KbhitTypes DEF MainKbhit, kbhit
<1>6. CASE MainAct
  <2>1. \A key \in Keys : Append(acted, key) \in Seq(Keys)
    BY AppendProperties
  <2>2. acted' \in Seq(Keys) /\ bQuit' \in BOOLEAN
    BY <1>6, <2>1 DEF MainAct, Keys
  <2> QED
    BY <1>2, <1>6, <2>2 DEF MainAct, keyVars
<1>7. CASE MainCheck
  BY <1>2, <1>7 DEF MainCheck, keyVars
<1>8. CASE MainTake
  <2>1. handled' \in Nat /\ at' \in {"restore", "keys"} /\ UNCHANGED <<keyVars, bQuit, acted>>
    BY <1>8 DEF MainTake, Turn
  <2> QED
    BY <1>2, <2>1 DEF keyVars
<1>9. CASE MainRestore
  BY <1>2, <1>9 DEF MainRestore, term_restore, TerminalInv
<1>10. CASE MainReturn
  <2>1. at' \in {"return", "ended"} /\ UNCHANGED <<keyVars, bQuit, acted, handled>>
    BY <1>10 DEF MainReturn
  <2> QED
    BY <1>2, <2>1 DEF keyVars
<1>11. ASSUME NEW key \in Typed, Press(key), UNCHANGED program
      PROVE  TypeOK'
  <2>1. key \in Keys /\ Bytes(key) \in Seq(TtyBytes)
    BY TypedAssumption, BytesType
  <2>2. pressed' \in Seq(Keys) /\ line' \in Seq(TtyBytes) /\ stdin' \in Seq(TtyBytes)
    <3>1. pressed' = Append(pressed, key) /\ Append(pressed, key) \in Seq(Keys)
      BY <1>11, <2>1, AppendProperties DEF Press
    <3>2. /\ line \o Bytes(key) \in Seq(TtyBytes) /\ stdin \o Bytes(key) \in Seq(TtyBytes)
          /\ line' \in {line, line \o Bytes(key)} /\ stdin' \in {stdin, stdin \o Bytes(key)}
      BY <1>11, <2>1, ConcatProperties DEF Press
    <3> QED
      BY <3>1, <3>2
  <2> QED
    BY <1>2, <1>11, <2>2 DEF Press, program
<1>12. CASE ByteArrives /\ UNCHANGED program
  <2>1. Head(line) \in TtyBytes /\ Tail(line) \in Seq(TtyBytes)
    BY <1>12, HeadTailProperties DEF ByteArrives
  <2>2. line' \in Seq(TtyBytes) /\ stdin' \in Seq(TtyBytes)
    BY <1>12, <2>1, AppendProperties DEF ByteArrives
  <2> QED
    BY <1>2, <1>12, <2>2 DEF ByteArrives, program
<1>13. CASE UNCHANGED <<keyVars, program>>
  BY <1>2, <1>13 DEF keyVars, program
<1> QED
  BY <1>3, <1>4, <1>5, <1>6, <1>7, <1>8, <1>9, <1>10, <1>11, <1>12, <1>13
  DEF SimpleNext, Main, vars

\* The client's, the keyboard's and main's own variables keep their types: what kbhit
\* has read fits into its buffer.
THEOREM SimpleTypesOK == SimpleSpec => []TypeOK
<1>1. SimpleInit => SimpleTypes
  <2>1. SimpleInit => TerminalInv
    BY DEF SimpleInit, KeyInit, TerminalInv, TerminalRestored
  <2> QED
    BY <2>1, SimpleInitType, ClientInitQuiet DEF SimpleInit, SimpleTypes
<1>2. SimpleTypes => TypeOK
  BY DEF SimpleTypes
<1> QED
  BY <1>1, <1>2, SimpleStepType, PTL DEF SimpleSpec

-----------------------------------------------------------------------------
(* The keys that main acts on.                                             *)

Heeded == {"UP", "DOWN", "ESC"}

\* Where there is a sign that a key was pressed: the last byte of an arrow, and an "e"
\* that begins none.
Signs(bytes, key) ==
    {i \in DOMAIN bytes :
        \/ key = "UP" /\ bytes[i] = "A"
        \/ key = "DOWN" /\ bytes[i] = "B"
        \/ /\ key = "ESC" /\ bytes[i] = "e"
           /\ i + 1 \in DOMAIN bytes => bytes[i + 1] # "["}

\* What has been read and is yet to be acted on.
ToDo(key) == IF at = "act" /\ get = Bytes(key) THEN 1 ELSE 0

\* The keys whose signs cannot be mistaken: what arrives of an arrow may look like ESC.
Certain == {key \in Heeded : together \/ key # "ESC"}

\* A press of a key is acted on, or about to be, or has left a sign in stdin or on its way
\* there, or none of these: kbhit drops the keys it cuts in two.
KeyInv ==
    /\ TypeOK
    /\ together => line = <<>>
    /\ \A i \in DOMAIN acted : acted[i] \in Heeded
    /\ \A key \in Certain :
        Count(acted, key) + ToDo(key) + Cardinality(Signs(stdin, key))
            + Cardinality(Signs(line, key)) <= Count(pressed, key)

LEMMA CountFinite ==
    ASSUME NEW s \in Seq(Keys), NEW key
    PROVE  /\ IsFiniteSet({i \in DOMAIN s : s[i] = key}) /\ Count(s, key) \in Nat
<1>1. Len(s) \in Nat /\ {i \in DOMAIN s : s[i] = key} \subseteq 1..Len(s)
  BY LenProperties
<1>2. IsFiniteSet(1..Len(s))
  BY <1>1, FS_Interval
<1>3. IsFiniteSet({i \in DOMAIN s : s[i] = key})
  BY <1>1, <1>2, FS_Subset
<1> QED
  BY <1>3, FS_CardinalityType DEF Count

LEMMA CountMore ==
    ASSUME NEW s \in Seq(Keys), NEW x \in Keys, NEW key
    PROVE  Count(Append(s, x), key) = Count(s, key) + (IF x = key THEN 1 ELSE 0)
<1> DEFINE t == Append(s, x)
           n == Len(s)
           A == {i \in DOMAIN s : s[i] = key}
           B == {i \in DOMAIN t : t[i] = key}
<1>1. /\ n \in Nat /\ DOMAIN s = 1..n /\ DOMAIN t = 1..(n + 1) /\ t[n + 1] = x
      /\ \A i \in 1..n : t[i] = s[i]
  BY AppendProperties, LenProperties
<1>2. /\ Count(s, key) = Cardinality(A) /\ Count(Append(s, x), key) = Cardinality(B)
      /\ IsFiniteSet(A) /\ Cardinality(A) \in Nat
  BY CountFinite DEF Count
<1> HIDE DEF t, n
<1>3. CASE x = key
  <2>1. B = A \cup {n + 1}
    BY <1>1, <1>3
  <2>2. n + 1 \notin A
    BY <1>1
  <2> HIDE DEF A, B
  <2>3. Cardinality(B) = Cardinality(A) + 1
    BY <1>2, <2>1, <2>2, FS_AddElement
  <2> QED
    BY <1>2, <1>3, <2>3
<1>4. CASE x # key
  <2>1. B = A
    BY <1>1, <1>4
  <2> HIDE DEF A, B
  <2> QED
    BY <1>2, <1>4, <2>1
<1> QED
  BY <1>3, <1>4

LEMMA SignsFinite ==
    ASSUME NEW s \in Seq(TtyBytes), NEW key
    PROVE  IsFiniteSet(Signs(s, key)) /\ Cardinality(Signs(s, key)) \in Nat
<1>1. Len(s) \in Nat /\ Signs(s, key) \subseteq 1..Len(s)
  BY LenProperties DEF Signs
<1>2. IsFiniteSet(1..Len(s))
  BY <1>1, FS_Interval
<1> QED
  BY <1>1, <1>2, FS_Subset, FS_CardinalityType

LEMMA BytesForm ==
    ASSUME NEW p \in Keys
    PROVE  /\ DOMAIN Bytes(p) = 1..Len(Bytes(p)) /\ Len(Bytes(p)) \in {1, 3}
           /\ \A j \in DOMAIN Bytes(p) :
                /\ Bytes(p)[j] = "A" => p = "UP" /\ j = 3
                /\ Bytes(p)[j] = "B" => p = "DOWN" /\ j = 3
                /\ Bytes(p)[j] = "e" =>
                    j = 1 /\ (p = "ESC" \/ (2 \in DOMAIN Bytes(p) /\ Bytes(p)[2] = "["))
<1> DEFINE Form == /\ DOMAIN Bytes(p) = 1..Len(Bytes(p)) /\ Len(Bytes(p)) \in {1, 3}
                   /\ \A j \in DOMAIN Bytes(p) :
                        /\ Bytes(p)[j] = "A" => p = "UP" /\ j = 3
                        /\ Bytes(p)[j] = "B" => p = "DOWN" /\ j = 3
                        /\ Bytes(p)[j] = "e" =>
                            j = 1 /\ (p = "ESC" \/ (2 \in DOMAIN Bytes(p) /\ Bytes(p)[2] = "["))
<1>1. p = "ESC" => Form
  BY DEF Bytes
<1>2. p = "A" => Form
  BY DEF Bytes
<1>3. p = "UP" => Form
  BY DEF Bytes
<1>4. p = "DOWN" => Form
  BY DEF Bytes
<1>5. p = "LEFT" => Form
  BY DEF Bytes
<1>6. p = "RIGHT" => Form
  BY DEF Bytes
<1>7. Form
  <2> HIDE DEF Form
  <2> QED
    BY <1>1, <1>2, <1>3, <1>4, <1>5, <1>6 DEF Keys
<1> QED
  BY <1>7

\* A press leaves one sign of that key, and none of others.
LEMMA PressSigns ==
    ASSUME NEW s \in Seq(TtyBytes), NEW p \in Keys, NEW key \in Heeded
    PROVE  Cardinality(Signs(s \o Bytes(p), key))
                <= Cardinality(Signs(s, key)) + (IF p = key THEN 1 ELSE 0)
<1>1. PICK t, w, n : t = s \o w /\ w = Bytes(p) /\ n = Len(s)
  OBVIOUS
<1>2. /\ n \in Nat /\ Len(w) \in {1, 3} /\ DOMAIN s = 1..n /\ DOMAIN w = 1..Len(w)
      /\ DOMAIN t = 1..(n + Len(w))
      /\ \A i \in 1..(n + Len(w)) : t[i] = IF i <= n THEN s[i] ELSE w[i - n]
  BY <1>1, BytesType, BytesForm, ConcatProperties, LenProperties
<1>3. PICK z : z = IF key = "ESC" THEN n + 1 ELSE n + 3
  OBVIOUS
<1>4. ASSUME NEW i \in Signs(t, key)
      PROVE  i \in Signs(s, key) \/ (p = key /\ i = z)
  <2>1. /\ i \in 1..(n + Len(w))
        /\ \/ key = "UP" /\ t[i] = "A"
           \/ key = "DOWN" /\ t[i] = "B"
           \/ /\ key = "ESC" /\ t[i] = "e"
              /\ i + 1 \in 1..(n + Len(w)) => t[i + 1] # "["
    BY <1>2, <1>4 DEF Signs
  <2>2. CASE i <= n
    <3>1. i \in 1..n /\ t[i] = s[i]
      BY <1>2, <2>1, <2>2
    <3>2. i + 1 \in 1..n => i + 1 \in 1..(n + Len(w)) /\ t[i + 1] = s[i + 1]
      BY <1>2, <3>1
    <3> QED
      BY <1>2, <2>1, <3>1, <3>2 DEF Signs
  <2>3. CASE i > n
    <3>1. PICK j : j = i - n /\ j \in 1..Len(w) /\ t[i] = w[j] /\ i = n + j
      BY <1>2, <2>1, <2>3
    <3>2. 2 \in 1..Len(w) => t[n + 2] = w[2] /\ n + 2 \in 1..(n + Len(w))
      <4>1. 2 \in 1..Len(w) => n + 2 \in 1..(n + Len(w)) /\ ~(n + 2 <= n) /\ (n + 2) - n = 2
        BY <1>2
      <4> QED
        BY <1>2, <4>1
    <3>3. key = "UP" => p = "UP" /\ i = z
      BY <1>1, <1>2, <1>3, <2>1, <3>1, BytesForm
    <3>4. key = "DOWN" => p = "DOWN" /\ i = z
      BY <1>1, <1>2, <1>3, <2>1, <3>1, BytesForm
    <3>5. key = "ESC" => p = "ESC" /\ i = z
      <4>1. ASSUME key = "ESC" PROVE j = 1 /\ (p = "ESC" \/ (2 \in 1..Len(w) /\ w[2] = "["))
        <5>1. j \in DOMAIN w /\ w[j] = "e"
          BY <1>2, <2>1, <3>1, <4>1
        <5>2. 2 \in DOMAIN w => 2 \in 1..Len(w)
          BY <1>2
        <5> QED
          BY <1>1, <5>1, <5>2, BytesForm
      <4>2. n + 1 + 1 = n + 2
        BY <1>2
      <4> QED
        BY <1>3, <2>1, <3>1, <3>2, <4>1, <4>2
    <3> QED
      BY <3>3, <3>4, <3>5 DEF Heeded
  <2> QED
    BY <1>2, <2>1, <2>2, <2>3
<1>5. IsFiniteSet(Signs(s, key)) /\ Cardinality(Signs(s, key)) \in Nat
  BY SignsFinite
<1>6. CASE p = key
  <2>1. Signs(t, key) \subseteq Signs(s, key) \cup {z}
    BY <1>4
  <2>2. /\ IsFiniteSet(Signs(s, key) \cup {z})
        /\ Cardinality(Signs(s, key) \cup {z}) \in Nat
        /\ Cardinality(Signs(s, key) \cup {z}) <= Cardinality(Signs(s, key)) + 1
    <3>1. /\ IsFiniteSet(Signs(s, key) \cup {z})
          /\ Cardinality(Signs(s, key) \cup {z})
                \in {Cardinality(Signs(s, key)), Cardinality(Signs(s, key)) + 1}
      BY <1>5, FS_AddElement
    <3> QED
      BY <1>5, <3>1
  <2>3. /\ Cardinality(Signs(t, key)) \in Nat
        /\ Cardinality(Signs(t, key)) <= Cardinality(Signs(s, key) \cup {z})
    BY <2>1, <2>2, FS_Subset, FS_CardinalityType
  <2> QED
    BY <1>1, <1>5, <1>6, <2>2, <2>3
<1>7. CASE p # key
  <2>1. Signs(t, key) \subseteq Signs(s, key)
    BY <1>4, <1>7
  <2>2. Cardinality(Signs(t, key)) <= Cardinality(Signs(s, key))
    BY <1>5, <2>1, FS_Subset
  <2> QED
    BY <1>1, <1>5, <1>7, <2>2
<1> QED
  BY <1>6, <1>7

\* To read a key takes its sign away.
LEMMA ReadSigns ==
    ASSUME stdin \in Seq(TtyBytes), kbhit, NEW key \in Heeded
    PROVE  Cardinality(Signs(stdin', key)) + (IF get' = Bytes(key) THEN 1 ELSE 0)
                <= Cardinality(Signs(stdin, key))
<1>1. PICK s, m, n : /\ s = stdin /\ m = Len(s)
                     /\ n = IF Len(s) < 3 THEN Len(s) ELSE 3
  OBVIOUS
<1>2. m \in Nat /\ n \in Nat /\ n <= 3 /\ n <= m /\ m - n \in Nat /\ DOMAIN s = 1..m
  BY <1>1, LenProperties
<1>3. PICK g, t : g = SubSeq(s, 1, n) /\ t = SubSeq(s, n + 1, m)
  OBVIOUS
<1>4. /\ g \in Seq(TtyBytes) /\ Len(g) = n /\ \A i \in 1..n : g[i] = s[i]
  BY <1>1, <1>2, <1>3
<1>5. /\ t \in Seq(TtyBytes) /\ Len(t) = m - n /\ \A i \in 1..(m - n) : t[i] = s[n + i]
  <2>1. s \in Seq(TtyBytes) /\ \A i \in (n + 1)..m : s[i] \in TtyBytes
    BY <1>1, <1>2, ElementOfSeq
  <2>2. /\ t \in Seq(TtyBytes) /\ Len(t) = IF n + 1 <= m THEN m - (n + 1) + 1 ELSE 0
        /\ \A i \in 1..(m - (n + 1) + 1) : t[i] = s[n + 1 + i - 1]
    BY <1>2, <1>3, <2>1, SubSeqProperties
  <2>3. /\ m - (n + 1) + 1 = m - n /\ (n + 1 > m => m - n = 0)
        /\ \A i \in 1..(m - n) : n + 1 + i - 1 = n + i
    BY <1>2
  <2>4. Len(t) = m - n
    BY <1>2, <2>2, <2>3
  <2>5. \A i \in 1..(m - n) : t[i] = s[n + i]
    <3> TAKE i \in 1..(m - n)
    <3>1. i \in 1..(m - (n + 1) + 1) /\ n + 1 + i - 1 = n + i
      BY <2>3
    <3> QED
      BY <2>2, <3>1
  <2> QED
    BY <2>2, <2>4, <2>5
<1>6. get' = g /\ stdin' = t
  BY <1>1, <1>3, <1>4 DEF kbhit, AtMostThree
<1> DEFINE S == Signs(s, key)
           T == Signs(t, key)
           f == [i \in T |-> n + i]
<1>7. IsFiniteSet(S) /\ Cardinality(S) \in Nat /\ IsFiniteSet(T) /\ Cardinality(T) \in Nat
  BY <1>1, <1>5, SignsFinite
\* The signs that are left were there before, n places behind.
<1>8. ASSUME NEW i \in T PROVE n + i \in S /\ i \in 1..(m - n)
  <2>1. i \in 1..(m - n) /\ DOMAIN t = 1..(m - n) /\ n + i \in 1..m /\ t[i] = s[n + i]
    BY <1>2, <1>5, <1>8, LenProperties DEF Signs
  <2>2. (n + i) + 1 \in 1..m => i + 1 \in 1..(m - n) /\ t[i + 1] = s[(n + i) + 1]
    <3>1. (n + i) + 1 = n + (i + 1) /\ ((n + i) + 1 \in 1..m => i + 1 \in 1..(m - n))
      BY <1>2, <2>1
    <3> QED
      BY <1>5, <3>1
  <2> QED
    BY <1>2, <1>8, <2>1, <2>2 DEF Signs
<1>9. ASSUME NEW R, IsFiniteSet(R), \A i \in T : n + i \in R
      PROVE  Cardinality(T) <= Cardinality(R)
  <2>1. f \in [T -> R]
    BY <1>9
  <2>2. \A i, j \in T : f[i] = f[j] => i = j
    BY <1>2, <1>8
  <2>3. f \in Injection(T, R)
    BY <2>1, <2>2 DEF Injection, IsInjective
  <2> QED
    BY <1>9, <2>3, FS_Injection
<1>10. CASE g # Bytes(key)
  <2>1. Cardinality(T) <= Cardinality(S)
    BY <1>7, <1>8, <1>9
  <2> QED
    BY <1>1, <1>6, <1>7, <1>10, <2>1
<1>11. CASE g = Bytes(key)
  <2>1. PICK z \in 1..n : z \in S
    <3>1. CASE key = "UP"
      <4>1. n = 3 /\ g[3] = "A"
        BY <1>4, <1>11, <3>1 DEF Bytes
      <4> QED
        BY <1>2, <1>4, <3>1, <4>1 DEF Signs
    <3>2. CASE key = "DOWN"
      <4>1. n = 3 /\ g[3] = "B"
        BY <1>4, <1>11, <3>2 DEF Bytes
      <4> QED
        BY <1>2, <1>4, <3>2, <4>1 DEF Signs
    <3>3. CASE key = "ESC"
      <4>1. n = 1 /\ g[1] = "e"
        BY <1>4, <1>11, <3>3 DEF Bytes
      <4>2. m = 1
        BY <1>1, <1>2, <4>1
      <4> QED
        BY <1>2, <1>4, <3>3, <4>1, <4>2 DEF Signs
    <3> QED
      BY <3>1, <3>2, <3>3 DEF Heeded
  <2>2. IsFiniteSet(S \ {z}) /\ Cardinality(S \ {z}) = Cardinality(S) - 1
    BY <1>7, <2>1, FS_RemoveElement
  <2>3. \A i \in T : n + i \in S \ {z}
    BY <1>2, <1>8, <2>1
  <2>4. Cardinality(T) <= Cardinality(S \ {z})
    BY <1>9, <2>2, <2>3
  <2> QED
    BY <1>1, <1>6, <1>7, <1>11, <2>2, <2>4
<1> QED
  BY <1>10, <1>11

\* The sign of an arrow arrives once.
LEMMA ArriveSigns ==
    ASSUME stdin \in Seq(TtyBytes), line \in Seq(TtyBytes), ByteArrives,
           NEW key \in {"UP", "DOWN"}
    PROVE  Cardinality(Signs(stdin', key)) + Cardinality(Signs(line', key))
                <= Cardinality(Signs(stdin, key)) + Cardinality(Signs(line, key))
<1>1. PICK b, r, t, n, m, x :
        /\ b = Head(line) /\ r = Tail(line) /\ t = Append(stdin, b)
        /\ n = Len(stdin) /\ m = Len(line) /\ x = IF key = "UP" THEN "A" ELSE "B"
  OBVIOUS
<1>2. stdin' = t /\ line' = r /\ line # <<>>
  BY <1>1 DEF ByteArrives
<1>3. /\ n \in Nat /\ m \in Nat /\ m >= 1 /\ b \in TtyBytes /\ b = line[1]
      /\ DOMAIN stdin = 1..n /\ DOMAIN line = 1..m
  BY <1>1, <1>2, LenProperties, EmptySeq, HeadTailProperties
<1>4. t \in Seq(TtyBytes) /\ DOMAIN t = 1..(n + 1) /\ t[n + 1] = b
      /\ \A i \in 1..n : t[i] = stdin[i]
  BY <1>1, <1>3, AppendProperties, LenProperties
<1>5. r \in Seq(TtyBytes) /\ DOMAIN r = 1..(m - 1) /\ \A i \in 1..(m - 1) : r[i] = line[i + 1]
  BY <1>1, <1>2, HeadTailProperties, LenProperties
<1>6. \A w : Signs(w, key) = {i \in DOMAIN w : w[i] = x}
  BY <1>1 DEF Signs
<1> DEFINE S == Signs(stdin, key)
           L == Signs(line, key)
           T == Signs(t, key)
           R == Signs(r, key)
           f == [i \in R |-> i + 1]
<1>7. /\ IsFiniteSet(S) /\ IsFiniteSet(L) /\ IsFiniteSet(T) /\ IsFiniteSet(R)
      /\ Cardinality(S) \in Nat /\ Cardinality(L) \in Nat
      /\ Cardinality(T) \in Nat /\ Cardinality(R) \in Nat
  BY <1>4, <1>5, SignsFinite
<1>8. Cardinality(R) <= Cardinality(L \ {1}) /\ IsFiniteSet(L \ {1})
  <2>1. ASSUME NEW i \in R PROVE i \in 1..(m - 1) /\ i + 1 \in L \ {1}
    <3>1. i \in 1..(m - 1) /\ line[i + 1] = x
      BY <1>5, <1>6, <2>1
    <3>2. i + 1 \in 1..m /\ i + 1 # 1
      BY <1>3, <3>1
    <3> QED
      BY <1>3, <1>6, <3>1, <3>2
  <2>2. f \in [R -> L \ {1}]
    BY <2>1
  <2>3. \A i, j \in R : f[i] = f[j] => i = j
    BY <1>3, <2>1
  <2>4. f \in Injection(R, L \ {1})
    BY <2>2, <2>3 DEF Injection, IsInjective
  <2>5. IsFiniteSet(L \ {1})
    BY <1>7, FS_Subset
  <2> QED
    BY <2>4, <2>5, FS_Injection
<1>9. CASE b = x
  <2>1. 1 \in L
    <3>1. 1 \in DOMAIN line /\ line[1] = x
      BY <1>3, <1>9
    <3> QED
      BY <1>6, <3>1
  <2>2. Cardinality(L \ {1}) = Cardinality(L) - 1
    BY <1>7, <2>1, FS_RemoveElement
  <2>3. T \subseteq S \cup {n + 1}
    BY <1>3, <1>4, <1>6
  <2>4. IsFiniteSet(S \cup {n + 1}) /\ Cardinality(S \cup {n + 1}) <= Cardinality(S) + 1
    <3>1. /\ IsFiniteSet(S \cup {n + 1})
          /\ Cardinality(S \cup {n + 1}) \in {Cardinality(S), Cardinality(S) + 1}
      BY <1>7, FS_AddElement
    <3> QED
      BY <1>7, <3>1
  <2>5. Cardinality(T) <= Cardinality(S \cup {n + 1}) /\ Cardinality(S \cup {n + 1}) \in Nat
    BY <2>3, <2>4, FS_Subset, FS_CardinalityType
  <2> QED
    BY <1>2, <1>7, <1>8, <2>2, <2>4, <2>5
<1>10. CASE b # x
  <2>1. T \subseteq S
    BY <1>3, <1>4, <1>6, <1>10
  <2>2. Cardinality(T) <= Cardinality(S)
    BY <1>7, <2>1, FS_Subset
  <2>3. Cardinality(L \ {1}) <= Cardinality(L) /\ Cardinality(L \ {1}) \in Nat
    BY <1>7, <1>8, FS_Subset, FS_CardinalityType
  <2> QED
    BY <1>2, <1>7, <1>8, <2>2, <2>3
<1> QED
  BY <1>9, <1>10

LEMMA KeyStep ==
    ASSUME KeyInv, TypeOK', [SimpleNext]_vars
    PROVE  KeyInv'
<1> USE DEF KeyInv
<1>1. /\ acted \in Seq(Keys) /\ pressed \in Seq(Keys) /\ stdin \in Seq(TtyBytes)
      /\ line \in Seq(TtyBytes) /\ line' \in Seq(TtyBytes)
      /\ acted' \in Seq(Keys) /\ pressed' \in Seq(Keys) /\ stdin' \in Seq(TtyBytes)
  BY DEF TypeOK
<1>2. ASSUME NEW key \in Certain
      PROVE  /\ key \in Heeded
             /\ Count(acted, key) \in Nat /\ Count(pressed, key) \in Nat
             /\ Cardinality(Signs(stdin, key)) \in Nat /\ ToDo(key) \in 0..1
             /\ Cardinality(Signs(stdin', key)) \in Nat /\ ToDo(key)' \in 0..1
             /\ Cardinality(Signs(line, key)) \in Nat /\ Cardinality(Signs(line', key)) \in Nat
             /\ Count(acted, key) + ToDo(key) + Cardinality(Signs(stdin, key))
                    + Cardinality(Signs(line, key)) <= Count(pressed, key)
  <2>1. Count(acted, key) \in Nat /\ Count(pressed, key) \in Nat
    BY <1>1, CountFinite
  <2>2. /\ Cardinality(Signs(stdin, key)) \in Nat /\ Cardinality(Signs(stdin', key)) \in Nat
        /\ Cardinality(Signs(line, key)) \in Nat /\ Cardinality(Signs(line', key)) \in Nat
    BY <1>1, SignsFinite
  <2>3. ToDo(key) \in 0..1 /\ ToDo(key)' \in 0..1
    BY DEF ToDo
  <2> QED
    BY <2>1, <2>2, <2>3 DEF Certain
<1>0. UNCHANGED together
  BY DEF SimpleNext, Main, MainConnect, MainSetup, MainKbhit, MainAct, MainCheck, MainTake,
         MainRestore, MainReturn, term_setup, term_restore, kbhit, Press, ByteArrives,
         keyVars, vars
<1> DEFINE Bound(key) ==
        Count(acted, key) + ToDo(key) + Cardinality(Signs(stdin, key))
            + Cardinality(Signs(line, key)) <= Count(pressed, key)
<1>a. ASSUME together => line' = <<>>, \A i \in DOMAIN acted' : acted'[i] \in Heeded,
             \A key \in Certain : Bound(key)'
      PROVE  KeyInv'
  BY <1>0, <1>a DEF Certain
<1>3. CASE MainKbhit
  <2>1. /\ kbhit /\ UNCHANGED <<line, acted, pressed>> /\ at = "keys"
        /\ at' = "act" \/ at' # "act"
    BY <1>3 DEF MainKbhit, kbhit
  <2>2. ASSUME NEW key \in Certain
        PROVE  Bound(key)'
    <3>1. Cardinality(Signs(stdin', key)) + (IF get' = Bytes(key) THEN 1 ELSE 0)
                <= Cardinality(Signs(stdin, key))
      BY <1>1, <1>2, <2>1, ReadSigns
    <3>2. ToDo(key) = 0 /\ ToDo(key)' <= (IF get' = Bytes(key) THEN 1 ELSE 0)
      BY <2>1 DEF ToDo
    <3> QED
      BY <1>2, <2>1, <3>1, <3>2
  <2> QED
    BY <1>a, <2>1, <2>2
<1>4. CASE MainAct
  <2>1. /\ at = "act" /\ at' = "check" /\ UNCHANGED <<line, stdin, get, pressed>>
        /\ \/ acted' = acted
           \/ \E k \in Heeded : keydown(k) /\ acted' = Append(acted, k)
    BY <1>4 DEF MainAct, Heeded, keyVars
  <2>2. CASE acted' = acted
    <3>1. ASSUME NEW key \in Certain
          PROVE  Bound(key)'
      <4>1. ToDo(key)' = 0
        BY <2>1 DEF ToDo
      <4> QED
        BY <1>2, <2>1, <2>2, <4>1
    <3> QED
      BY <1>a, <2>1, <2>2, <3>1
  <2>3. ASSUME NEW k \in Heeded, get = Bytes(k), acted' = Append(acted, k)
        PROVE  KeyInv'
    <3>1. k \in Keys /\ \A key : Count(acted', key) = Count(acted, key) + (IF k = key THEN 1 ELSE 0)
      BY <1>1, <2>3, CountMore DEF Heeded, Keys
    <3>2. ASSUME NEW key \in Certain
          PROVE  Bound(key)'
      <4>1. ToDo(key)' = 0 /\ (k = key => ToDo(key) = 1)
        BY <2>1, <2>3 DEF ToDo
      <4>2. Count(acted', key) + ToDo(key)' <= Count(acted, key) + ToDo(key)
        BY <1>2, <3>1, <4>1
      <4>3. Count(acted', key) \in Nat
        BY <1>1, CountFinite
      <4> QED
        BY <1>2, <2>1, <4>2, <4>3
    <3>3. \A i \in DOMAIN acted' : acted'[i] \in Heeded
      BY <1>1, <2>3, <3>1, AppendProperties, LenProperties
    <3> QED
      BY <1>a, <2>1, <3>2, <3>3
  <2> QED
    BY <2>1, <2>2, <2>3 DEF keydown
<1>5. ASSUME NEW p \in Keys, Press(p), UNCHANGED program PROVE KeyInv'
  <2>1. /\ pressed' = Append(pressed, p) /\ UNCHANGED <<get, at, acted>>
        /\ \/ together /\ stdin' = stdin \o Bytes(p) /\ UNCHANGED line
           \/ ~together /\ line' = line \o Bytes(p) /\ UNCHANGED stdin
    BY <1>5 DEF Press, program
  <2>2. ASSUME NEW key \in Certain
        PROVE  Bound(key)'
    <3>1. PICK d \in 0..1 : d = IF p = key THEN 1 ELSE 0
      OBVIOUS
    <3>2. Count(pressed', key) = Count(pressed, key) + d /\ Count(acted', key) = Count(acted, key)
      BY <1>1, <2>1, <3>1, CountMore
    <3>3. /\ Cardinality(Signs(stdin \o Bytes(p), key)) <= Cardinality(Signs(stdin, key)) + d
          /\ Cardinality(Signs(line \o Bytes(p), key)) <= Cardinality(Signs(line, key)) + d
      BY <1>1, <1>2, <3>1, PressSigns
    <3>4. Cardinality(Signs(stdin', key)) + Cardinality(Signs(line', key))
                <= Cardinality(Signs(stdin, key)) + Cardinality(Signs(line, key)) + d
      <4> DEFINE s == Cardinality(Signs(stdin, key))
                 l == Cardinality(Signs(line, key))
                 s2 == Cardinality(Signs(stdin', key))
                 l2 == Cardinality(Signs(line', key))
      <4>0. s \in Nat /\ l \in Nat /\ s2 \in Nat /\ l2 \in Nat
        BY <1>2
      <4>1. (s2 <= s + d /\ l2 = l) \/ (l2 <= l + d /\ s2 = s)
        BY <2>1, <3>3
      <4>2. s2 + l2 <= s + l + d
        <5> HIDE DEF s, l, s2, l2
        <5> QED
          BY <3>1, <4>0, <4>1
      <4> QED
        BY <4>2
    <3>5. ToDo(key)' = ToDo(key)
      BY <2>1 DEF ToDo
    <3> DEFINE a == Count(acted, key)
               todo == ToDo(key)
               c == Count(pressed, key)
               s == Cardinality(Signs(stdin, key))
               l == Cardinality(Signs(line, key))
               s2 == Cardinality(Signs(stdin', key))
               l2 == Cardinality(Signs(line', key))
    <3>6. /\ a \in Nat /\ todo \in Nat /\ c \in Nat /\ s \in Nat /\ l \in Nat
          /\ s2 \in Nat /\ l2 \in Nat /\ a + todo + s + l <= c
      BY <1>2
    <3>7. s2 + l2 <= s + l + d
      BY <3>4
    <3>8. a + todo + s2 + l2 <= c + d
      <4> HIDE DEF a, todo, c, s, l, s2, l2
      <4> QED
        BY <3>1, <3>6, <3>7
    <3> QED
      BY <3>2, <3>5, <3>8
  <2> QED
    BY <1>a, <2>1, <2>2
<1>6. CASE UNCHANGED <<line, stdin, get, pressed, acted>> /\ at' # "act"
  <2>1. \A key : ToDo(key)' <= ToDo(key)
    BY <1>6 DEF ToDo
  <2>2. ASSUME NEW key \in Certain
        PROVE  Bound(key)'
    BY <1>2, <1>6, <2>1
  <2> QED
    BY <1>a, <1>6, <2>2
<1>7. CASE UNCHANGED <<line, stdin, get, pressed, acted, at>>
  <2>1. \A key : ToDo(key)' = ToDo(key)
    BY <1>7 DEF ToDo
  <2> QED
    BY <1>a, <1>7, <2>1
<1>8. CASE \/ MainConnect \/ MainSetup \/ MainCheck \/ MainTake \/ MainRestore \/ MainReturn
  <2>1. UNCHANGED <<line, stdin, get, pressed, acted>> /\ at' # "act"
    BY <1>8
    DEF MainConnect, MainSetup, MainCheck, MainTake, MainRestore, MainReturn, Turn,
        term_setup, term_restore, keyVars
  <2> QED
    BY <1>6, <2>1
<1>9. CASE UNCHANGED <<keyVars, program>>
  BY <1>7, <1>9 DEF keyVars, program
<1>10. CASE ByteArrives /\ UNCHANGED program
  <2>1. ~together /\ UNCHANGED <<get, pressed, at, acted>>
    BY <1>10 DEF ByteArrives, program
  <2>2. ASSUME NEW key \in Certain
        PROVE  Bound(key)'
    <3>1. key \in {"UP", "DOWN"}
      BY <2>1 DEF Certain, Heeded
    <3>2. Cardinality(Signs(stdin', key)) + Cardinality(Signs(line', key))
                <= Cardinality(Signs(stdin, key)) + Cardinality(Signs(line, key))
      BY <1>1, <1>10, <3>1, ArriveSigns
    <3>3. ToDo(key)' = ToDo(key)
      BY <2>1 DEF ToDo
    <3> DEFINE a == Count(acted, key)
               todo == ToDo(key)
               c == Count(pressed, key)
               s == Cardinality(Signs(stdin, key))
               l == Cardinality(Signs(line, key))
               s2 == Cardinality(Signs(stdin', key))
               l2 == Cardinality(Signs(line', key))
    <3>4. /\ a \in Nat /\ todo \in Nat /\ c \in Nat /\ s \in Nat /\ l \in Nat
          /\ s2 \in Nat /\ l2 \in Nat /\ a + todo + s + l <= c
      BY <1>2
    <3>5. s2 + l2 <= s + l
      BY <3>2
    <3>6. a + todo + s2 + l2 <= c
      <4> HIDE DEF a, todo, c, s, l, s2, l2
      <4> QED
        BY <3>4, <3>5
    <3> QED
      BY <2>1, <3>3, <3>6
  <2> QED
    BY <1>a, <2>1, <2>2
<1> QED
  BY <1>3, <1>4, <1>5, <1>8, <1>9, <1>10, TypedAssumption DEF SimpleNext, Main, vars

\* No key is acted upon more often than it was pressed, whatever else is typed, whenever
\* its bytes arrive and however kbhit cuts them: it never puts a key together out of two
\* others, and it makes no ESC out of an arrow unless a part of that is late.
THEOREM SimpleActsOnKeys == SimpleSpec => []ActsOnKeys
<1>1. SimpleInit => KeyInv
  <2> SUFFICES ASSUME SimpleInit PROVE KeyInv
    OBVIOUS
  <2>1. /\ acted = <<>> /\ pressed = <<>> /\ stdin = <<>> /\ line = <<>> /\ at = "connect"
    BY DEF SimpleInit, KeyInit
  <2>2. \A key : {i \in DOMAIN <<>> : <<>>[i] = key} = {} /\ Signs(<<>>, key) = {}
    BY DEF Signs
  <2>3. \A key : Count(<<>>, key) = 0 /\ Cardinality(Signs(<<>>, key)) = 0
    BY <2>2, FS_EmptySet DEF Count
  <2>4. \A key : ToDo(key) = 0
    BY <2>1 DEF ToDo
  <2> QED
    BY <2>1, <2>3, <2>4, SimpleInitType DEF KeyInv
<1>2. TypeOK /\ TypeOK' /\ KeyInv /\ [SimpleNext]_vars => KeyInv'
  BY KeyStep
<1>3. KeyInv => ActsOnKeys
  <2> SUFFICES ASSUME KeyInv, NEW key \in Keys, together \/ key # "ESC"
               PROVE  Count(acted, key) <= Count(pressed, key)
    BY DEF ActsOnKeys
  <2>1. /\ acted \in Seq(Keys) /\ pressed \in Seq(Keys) /\ stdin \in Seq(TtyBytes)
        /\ line \in Seq(TtyBytes)
        /\ Count(acted, key) \in Nat /\ Count(pressed, key) \in Nat
    BY CountFinite DEF KeyInv, TypeOK
  <2>2. CASE key \in Heeded
    <3>1. /\ Cardinality(Signs(stdin, key)) \in Nat /\ ToDo(key) \in 0..1
          /\ Cardinality(Signs(line, key)) \in Nat
      BY <2>1, SignsFinite DEF ToDo
    <3>2. key \in Certain
      BY <2>2 DEF Certain
    <3> QED
      BY <2>1, <3>1, <3>2 DEF KeyInv
  <2>3. CASE key \notin Heeded
    <3>1. {i \in DOMAIN acted : acted[i] = key} = {}
      BY <2>3 DEF KeyInv
    <3>2. Count(acted, key) = 0
      BY <3>1, FS_EmptySet DEF Count
    <3> QED
      BY <2>1, <3>2
  <2> QED
    BY <2>2, <2>3
<1> QED
  BY <1>1, <1>2, <1>3, SimpleTypesOK, PTL DEF SimpleSpec

-----------------------------------------------------------------------------
(* Demo, whose at and alive are others than SimpleClient's.                *)

VARIABLES demoAt, socket, thrContext, stopped, reads, handler, mainAlive, terminated

Example == INSTANCE Demo WITH at <- demoAt, alive <- mainAlive

\* Reading has begun once main has gone on to the request, and not before; main goes
\* on from the join when the thread has returned, to which it has to be stopped.
DemoPhases ==
    /\ demoAt \in {"start", "connect", "check"} => reads = 0 /\ handler = "none"
    /\ demoAt \in {"request", "stop", "join"} => socket # "closed"
    /\ demoAt \in {"return", "ended"} => socket = "closed" \/ thrContext = "joined"
    /\ socket = "closed" => reads = 0 /\ handler = "none"
    /\ demoAt # "ended" => mainAlive /\ ~terminated
    /\ thrContext \in {"none", "returned", "joined"} => handler = "none"
    /\ demoAt = "ended" => terminated \/ thrContext = "joined"

DemoInv ==
    /\ Example!TypeOK
    /\ Example!BufferHasOneUser
    /\ DemoPhases
    /\ Example!TerminatesOnlyUnopened

LEMMA DemoInit == Example!Init => DemoInv
<1> SUFFICES ASSUME Example!Init PROVE DemoInv
  OBVIOUS
<1>1. Example!TypeOK
  BY DEF Example!Init, Example!TypeOK
<1>2. Example!BufferHasOneUser
  BY DEF Example!Init, Example!BufferHasOneUser
<1>3. DemoPhases /\ Example!TerminatesOnlyUnopened
  BY Zenon DEF Example!Init, DemoPhases, Example!TerminatesOnlyUnopened
<1> QED
  BY <1>1, <1>2, <1>3 DEF DemoInv

LEMMA DemoStep == DemoInv /\ [Example!Next]_(Example!vars) => DemoInv'
<1> SUFFICES ASSUME DemoInv, [Example!Next]_(Example!vars) PROVE DemoInv'
  OBVIOUS
<1> USE DEF DemoInv, Example!TypeOK, Example!BufferHasOneUser, DemoPhases,
            Example!TerminatesOnlyUnopened, Example!Goto
<1>1. CASE Example!StartThread
  BY <1>1 DEF Example!StartThread
<1>2. CASE Example!Connect
  BY <1>2 DEF Example!Connect
<1>3. CASE Example!CheckOpen
  BY <1>3 DEF Example!CheckOpen, Example!GrabSomeData
<1>4. CASE Example!Request
  BY <1>4 DEF Example!Request
<1>5. CASE Example!Stop
  BY <1>5 DEF Example!Stop
<1>6. CASE Example!Join
  BY <1>6 DEF Example!Join
<1>7. CASE Example!Return
  BY <1>7 DEF Example!Return
<1>8. CASE Example!ReadDone
  BY <1>8 DEF Example!ReadDone
<1>9. CASE Example!HandlerReturns
  BY <1>9 DEF Example!HandlerReturns, Example!GrabSomeData
<1>10. CASE Example!RunReturns
  BY <1>10 DEF Example!RunReturns
<1>11. CASE UNCHANGED Example!vars
  BY <1>11 DEF Example!vars
<1> QED
  BY <1>1, <1>2, <1>3, <1>4, <1>5, <1>6, <1>7, <1>8, <1>9, <1>10, <1>11 DEF Example!Next

LEMMA DemoInvariance == Example!Spec => []DemoInv
  BY DemoInit, DemoStep, PTL DEF Example!Spec

\* Of the two threads that call GrabSomeData, one at a time uses vBuffer.
THEOREM OneUserOfTheBuffer == Example!Spec => [](Example!TypeOK /\ Example!BufferHasOneUser)
<1>1. DemoInv => Example!TypeOK /\ Example!BufferHasOneUser
  BY DEF DemoInv
<1> QED
  BY <1>1, DemoInvariance, PTL

\* Main ends without std::terminate if the socket was opened, and no handler outlives
\* what it refers to.
THEOREM EndsCleanly ==
    Example!Spec => [](Example!NoHandlerAfterEnd /\ Example!TerminatesOnlyUnopened)
<1>1. DemoInv => Example!NoHandlerAfterEnd /\ Example!TerminatesOnlyUnopened
  BY DEF DemoInv, Example!TypeOK, DemoPhases, Example!TerminatesOnlyUnopened,
         Example!NoHandlerAfterEnd
<1> QED
  BY <1>1, DemoInvariance, PTL

-----------------------------------------------------------------------------
(* KeyLoop, whose at is another one than SimpleClient's.                   *)

VARIABLES keysAt, end, printed

Loop == INSTANCE KeyLoop WITH at <- keysAt

LoopInv ==
    /\ keysAt \in {"setup", "loop", "print", "ended", "killed"}
    /\ keysAt \in {"loop", "print"} => oldtio = "canonical"
    /\ Loop!TerminalRestored

LEMMA LoopInitInv == Loop!Init => LoopInv
  BY DEF Loop!Init, Loop!KeyInit, LoopInv, Loop!TerminalRestored

LEMMA LoopStepInv == LoopInv /\ [Loop!Next]_(Loop!vars) => LoopInv'
<1> SUFFICES ASSUME LoopInv, [Loop!Next]_(Loop!vars) PROVE LoopInv'
  OBVIOUS
<1> USE DEF LoopInv, Loop!TerminalRestored
<1>1. CASE Loop!Signal
  BY <1>1 DEF Loop!Signal, Loop!keyVars
<1>2. CASE Loop!Setup
  BY <1>2 DEF Loop!Setup, Loop!term_setup
<1>3. CASE Loop!Kbhit
  BY <1>3 DEF Loop!Kbhit, Loop!kbhit
<1>4. CASE Loop!PrintKey
  BY <1>4 DEF Loop!PrintKey, Loop!keyVars
<1>5. CASE Loop!Restore
  BY <1>5 DEF Loop!Restore, Loop!term_restore
<1>6. CASE (Loop!ByteArrives \/ \E key \in Typed : Loop!Press(key)) /\ UNCHANGED Loop!program
  BY <1>6 DEF Loop!Press, Loop!ByteArrives, Loop!program
<1>7. CASE UNCHANGED Loop!vars
  BY <1>7 DEF Loop!vars, Loop!keyVars, Loop!program
<1> QED
  BY <1>1, <1>2, <1>3, <1>4, <1>5, <1>6, <1>7 DEF Loop!Next

\* The keyboard loop leaves the terminal as it found it, whenever it is interrupted.
THEOREM LoopRestoresTerminal == Loop!Spec => []Loop!TerminalRestored
<1>1. LoopInv => Loop!TerminalRestored
  BY DEF LoopInv
<1> QED
  BY <1>1, LoopInitInv, LoopStepInv, PTL DEF Loop!Spec
=============================================================================
