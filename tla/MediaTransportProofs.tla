------------------------ MODULE MediaTransportProofs ------------------------
(***************************************************************************)
(* Theorems about the WebSocket transport of a call: its types, that a     *)
(* socket is closed once, and that nothing is played after the message     *)
(* that cuts it short, for any number of frames and interruptions.         *)
(***************************************************************************)
EXTENDS MediaTransport, TLAPS

USE MediaTransportAssumption

-----------------------------------------------------------------------------
(* Types *)

Message == [type : {"play", "checkpoint", "kill"}, cut : 0..MaxCuts]

Pieces == [type : {"play", "checkpoint"}, cut : 0..MaxCuts]

(* The counter of a client that two frames reach: it went up once, when the *)
(* input started, and goes down with each frame.                            *)
LeaveOK ==
    /\ pipeline = "new" => leave = 0
    /\ pipeline \in {"running", "ending"} => leave = 1
    /\ pipeline = "stopped" => leave \in {0, 1}

TypeInv == TypeOK /\ LeaveOK

(* What a serializer makes of a frame are messages after the frame's cut.   *)
LEMMA AudioMessagesType ==
    ASSUME NEW cut \in 0..MaxCuts
    PROVE  /\ AudioMessages(cut) \in Seq(Pieces)
           /\ \A i \in DOMAIN AudioMessages(cut) : AudioMessages(cut)[i].cut = cut
<1> DEFINE play == [type |-> "play", cut |-> cut]
           checkpoint == [type |-> "checkpoint", cut |-> cut]
<1>1. play \in Pieces /\ checkpoint \in Pieces BY DEF Pieces
<1>2. CASE protocol = "mcube"
  <2>1. AudioMessages(cut) = <<play, checkpoint>> BY <1>2 DEF AudioMessages, McubeAudio
  <2> QED BY <1>1, <2>1
<1>3. CASE protocol # "mcube"
  <2>1. AudioMessages(cut) = <<play>> BY <1>3 DEF AudioMessages, JambonzAudio
  <2> QED BY <1>1, <2>1
<1> QED BY <1>2, <1>3

(* A send changes the wire by the message or not at all, and only the flags *)
(* of the connection besides.                                               *)
LEMMA SendOutcome ==
    ASSUME TypeOK, NEW m \in Message, Send(m)
    PROVE  /\ wire' = wire \/ wire' = Append(wire, m)
           /\ wire' \in Seq(Message)
           /\ appState' \in {"connected", "disconnected"}
           /\ closing' \in BOOLEAN /\ failed' \in BOOLEAN
<1>1. wire \in Seq(Message) BY DEF TypeOK, Message
<1>2. Append(wire, m) \in Seq(Message) BY <1>1
<1>3. wire' = wire \/ wire' = Append(wire, m) BY DEF Send
<1>4. appState' = appState \/ appState' = "disconnected" BY DEF Send
<1>5. /\ closing' = closing \/ closing' = TRUE
      /\ failed' = failed \/ failed' = TRUE BY DEF Send
<1>6. wire' \in Seq(Message) BY <1>1, <1>2, <1>3
<1> HIDE DEF Message
<1> QED BY <1>3, <1>4, <1>5, <1>6 DEF TypeOK

(* A disconnect counts down by one and may close the socket.                *)
LEMMA DisconnectOutcome ==
    ASSUME TypeOK, Disconnect
    PROVE  /\ leave' = leave - 1 /\ far' = far /\ clientState' = clientState
           /\ appState' \in {"connected", "disconnected"}
           /\ closing' \in BOOLEAN /\ closes' \in Nat /\ failed' = failed
<1>1. leave' = leave - 1 /\ far' = far /\ clientState' = clientState /\ failed' = failed
  BY DEF Disconnect
<1>2. CASE leave - 1 <= 0 /\ CanSend
  <2>1. closing' = TRUE /\ closes' = closes + 1 /\ appState' = "disconnected"
    BY <1>2 DEF Disconnect
  <2>2. closes \in Nat BY DEF TypeOK
  <2> QED BY <1>1, <2>1, <2>2
<1>3. CASE ~(leave - 1 <= 0 /\ CanSend)
  <2>1. closing' = closing /\ closes' = closes /\ appState' = appState
    BY <1>3 DEF Disconnect
  <2> QED BY <1>1, <2>1 DEF TypeOK
<1> QED BY <1>2, <1>3

LEMMA TypeStep == ASSUME TypeInv, [Next]_vars PROVE TypeInv'
<1> USE DEF TypeInv, TypeOK, LeaveOK
<1>1. CASE UNCHANGED vars BY <1>1 DEF vars, socketVars, audioVars
<1>2. CASE Start BY <1>2 DEF Start, audioVars
<1>3. CASE FarLeaves BY <1>3 DEF FarLeaves, audioVars
<1>4. CASE ReceiverEnds BY <1>4 DEF ReceiverEnds, QueueEnd, audioVars
<1>5. CASE ReceivesDisconnect BY <1>5 DEF ReceivesDisconnect, socketVars, audioVars
<1>6. CASE Stop
  <2>1. Disconnect /\ leave = 1 BY <1>6 DEF Stop
  <2>2. leave' = 0 BY <2>1, DisconnectOutcome
  <2> QED BY <1>6, <2>1, <2>2, DisconnectOutcome DEF Stop, audioVars
<1>7. CASE Cancel
  <2>1. Disconnect /\ leave \in {0, 1} BY <1>7 DEF Cancel
  <2>2. leave' \in -1..1 BY <2>1, DisconnectOutcome
  <2> QED BY <1>7, <2>1, <2>2, DisconnectOutcome DEF Cancel
<1>8. CASE HangUp BY <1>8 DEF HangUp, QueueEnd, socketVars, audioVars
<1>9. CASE HandlerEnds BY <1>9 DEF HandlerEnds
<1>10. CASE Speak BY <1>10 DEF Speak, socketVars
<1>11. CASE WriteAudio
  <2>1. audio \in Seq(0..MaxCuts) /\ audio # <<>> BY <1>11 DEF WriteAudio
  <2>2. Head(audio) \in 0..MaxCuts /\ Tail(audio) \in Seq(0..MaxCuts) BY <2>1
  <2>3. writer' \in Seq(Pieces) BY <1>11, <2>2, AudioMessagesType DEF WriteAudio
  <2> QED BY <1>11, <2>2, <2>3 DEF WriteAudio, socketVars, Pieces
<1>12. CASE SendAudio
  <2>1. writer \in Seq(Pieces) /\ writer # <<>> BY <1>12 DEF SendAudio, Pieces
  <2>2. Head(writer) \in Pieces /\ Tail(writer) \in Seq(Pieces) BY <2>1
  <2>3. Head(writer) \in Message BY <2>2 DEF Pieces, Message
  <2>4. writer' \in Seq(Pieces) BY <1>12, <2>2 DEF SendAudio
  <2>5. Send(Head(writer)) BY <1>12 DEF SendAudio
  <2>6. wire' \in Seq(Message) /\ appState' \in {"connected", "disconnected"}
        /\ closing' \in BOOLEAN /\ failed' \in BOOLEAN BY <2>3, <2>5, SendOutcome
  <2> QED BY <1>12, <2>4, <2>6 DEF SendAudio, Pieces, Message
<1>13. CASE Interrupt BY <1>13 DEF Interrupt, socketVars
<1>14. CASE SendKill
  <2>1. KillMessage(cuts) \in Message BY DEF KillMessage, Message
  <2>2. Send(KillMessage(cuts)) BY <1>14 DEF SendKill
  <2>3. wire' \in Seq(Message) /\ appState' \in {"connected", "disconnected"}
        /\ closing' \in BOOLEAN /\ failed' \in BOOLEAN BY <2>1, <2>2, SendOutcome
  <2> QED BY <1>14, <2>3 DEF SendKill, Message
<1> QED BY <1>1, <1>2, <1>3, <1>4, <1>5, <1>6, <1>7, <1>8, <1>9, <1>10, <1>11, <1>12,
           <1>13, <1>14 DEF Next

LEMMA TypeInit == Init => TypeInv
<1> SUFFICES ASSUME Init PROVE TypeInv OBVIOUS
<1>1. audio = <<>> /\ writer = <<>> /\ wire = <<>> BY DEF Init
<1>2. cuts \in 0..MaxCuts /\ frames \in 0..MaxAudio /\ leave \in -1..1 BY DEF Init
<1>3. /\ audio \in Seq(0..MaxCuts)
      /\ writer \in Seq([type : {"play", "checkpoint"}, cut : 0..MaxCuts])
      /\ wire \in Seq([type : {"play", "checkpoint", "kill"}, cut : 0..MaxCuts])
  BY <1>1
<1>4. closes \in Nat BY DEF Init
<1> QED BY <1>2, <1>3, <1>4 DEF Init, TypeInv, TypeOK, LeaveOK

(* The transport keeps its types, the client's _leave_counter between -1    *)
(* and 1 whichever of EndFrame, CancelFrame and disconnect message come.    *)
THEOREM TransportTypeCorrect == Spec => []TypeOK
<1>1. TypeInv => TypeOK BY DEF TypeInv
<1> QED BY <1>1, TypeInit, TypeStep, PTL DEF Spec

-----------------------------------------------------------------------------
(* One close.  A client that has closed its socket, or lost it, is closing. *)

CloseInv ==
    /\ closes = 0 \/ closes = 1
    /\ closes = 1 => closing /\ ~failed
    /\ failed => closing

(* Sends close nothing; one that fails found the client not closing yet.    *)
LEMMA SendKeepsCloseInv ==
    ASSUME CloseInv, TypeOK, NEW m, Send(m), closes' = closes
    PROVE  CloseInv'
BY DEF CloseInv, TypeOK, Send, CanSend

LEMMA CloseStep == ASSUME CloseInv, TypeOK, [Next]_vars PROVE CloseInv'
<1>1. CASE Disconnect BY <1>1 DEF Disconnect, CanSend, CloseInv, TypeOK
<1>2. CASE UNCHANGED <<closes, closing, failed>> BY <1>2 DEF CloseInv
<1>3. CASE SendAudio BY <1>3, SendKeepsCloseInv DEF SendAudio
<1>4. CASE SendKill BY <1>4, SendKeepsCloseInv DEF SendKill
<1>5. Stop \/ Cancel => Disconnect BY DEF Stop, Cancel
<1>6. ASSUME [Next]_vars, ~Stop, ~Cancel, ~SendAudio, ~SendKill
      PROVE  UNCHANGED <<closes, closing, failed>>
  BY <1>6 DEF Next, vars, socketVars, audioVars, Start, FarLeaves, ReceiverEnds,
              ReceivesDisconnect, HangUp, HandlerEnds, Speak, WriteAudio, Interrupt
<1> QED BY <1>1, <1>2, <1>3, <1>4, <1>5, <1>6

(* The socket is closed at most once, and never after a send has found it   *)
(* broken, by whichever frames reach the input and in whichever order.      *)
THEOREM SocketClosesOnce == Spec => []ClosedOnce
<1>1. Init => CloseInv BY DEF Init, CloseInv
<1>2. CloseInv => ClosedOnce BY DEF CloseInv, ClosedOnce
<1>3. TypeInv => TypeOK BY DEF TypeInv
<1> QED BY <1>1, <1>2, <1>3, TypeInit, TypeStep, CloseStep, PTL DEF Spec

-----------------------------------------------------------------------------
(* Interruptions.  What waits to be written is after the last of them, and  *)
(* the messages on the wire are in the order of the interruptions.          *)

CutInv ==
    /\ \A i \in DOMAIN audio : audio[i] = cuts
    /\ \A i \in DOMAIN writer : writer[i].cut = cuts
    /\ \A i \in DOMAIN wire : wire[i].cut <= cuts
    /\ \A i, j \in DOMAIN wire : i < j => wire[i].cut <= wire[j].cut

(* A message after the last interruption keeps the wire in order.           *)
LEMMA SendKeepsOrder ==
    ASSUME TypeOK, CutInv, NEW m \in Message, m.cut = cuts, Send(m), cuts' = cuts
    PROVE  /\ \A i \in DOMAIN wire' : wire'[i].cut <= cuts'
           /\ \A i, j \in DOMAIN wire' : i < j => wire'[i].cut <= wire'[j].cut
<1>1. wire \in Seq(Message) /\ cuts \in 0..MaxCuts BY DEF TypeOK, Message
<1>2. CASE wire' = wire BY <1>2 DEF CutInv
<1>3. CASE wire' = Append(wire, m)
  <2>1. DOMAIN wire' = 1..(Len(wire) + 1) /\ DOMAIN wire = 1..Len(wire) BY <1>1, <1>3
  <2>2. \A i \in DOMAIN wire : wire'[i] = wire[i] BY <1>1, <1>3
  <2>3. wire'[Len(wire) + 1] = m BY <1>1, <1>3
  <2>4. \A i \in DOMAIN wire' : i \in DOMAIN wire \/ i = Len(wire) + 1 BY <1>1, <2>1
  <2>5. \A i, j \in DOMAIN wire' : i < j => i \in DOMAIN wire BY <1>1, <2>1
  <2>6. \A i \in DOMAIN wire' : wire'[i].cut <= cuts BY <1>1, <2>2, <2>3, <2>4 DEF CutInv
  <2>7. ASSUME NEW i \in DOMAIN wire', NEW j \in DOMAIN wire', i < j
        PROVE  wire'[i].cut <= wire'[j].cut
    <3>1. i \in DOMAIN wire BY <2>5, <2>7
    <3>2. CASE j \in DOMAIN wire BY <2>2, <2>7, <3>1, <3>2 DEF CutInv
    <3>3. CASE j = Len(wire) + 1 BY <2>2, <2>3, <3>1, <3>3 DEF CutInv
    <3> QED BY <2>4, <3>2, <3>3
  <2> QED BY <2>6, <2>7
<1> QED BY <1>2, <1>3, SendOutcome

LEMMA CutStep == ASSUME CutInv, TypeOK, [Next]_vars PROVE CutInv'
<1>1. CASE Speak
  <2>1. audio \in Seq(0..MaxCuts) BY DEF TypeOK
  <2> QED BY <1>1, <2>1 DEF Speak, socketVars, CutInv
<1>2. CASE WriteAudio
  <2>1. audio \in Seq(0..MaxCuts) /\ audio # <<>> BY <1>2 DEF TypeOK, WriteAudio
  <2>2. Head(audio) = cuts /\ cuts \in 0..MaxCuts BY <2>1 DEF CutInv, TypeOK
  <2>3. \A i \in DOMAIN Tail(audio) : Tail(audio)[i] = cuts BY <2>1 DEF CutInv
  <2>4. \A i \in DOMAIN writer' : writer'[i].cut = cuts
    BY <1>2, <2>2, AudioMessagesType DEF WriteAudio
  <2> QED BY <1>2, <2>3, <2>4 DEF WriteAudio, CutInv
<1>3. CASE SendAudio
  <2>1. writer \in Seq(Pieces) /\ writer # <<>> BY <1>3 DEF TypeOK, SendAudio, Pieces
  <2>2. Head(writer) \in Pieces /\ Head(writer).cut = cuts BY <2>1 DEF CutInv
  <2>3. Head(writer) \in Message BY <2>2 DEF Pieces, Message
  <2>4. \A i \in DOMAIN Tail(writer) : Tail(writer)[i].cut = cuts BY <2>1 DEF CutInv
  <2>5. cuts' = cuts /\ audio' = audio /\ Send(Head(writer))
        /\ (writer' = <<>> \/ writer' = Tail(writer)) BY <1>3 DEF SendAudio
  <2>6. \A i \in DOMAIN writer' : writer'[i].cut = cuts
    <3>1. CASE writer' = <<>> BY <3>1
    <3>2. CASE writer' = Tail(writer) BY <2>4, <3>2
    <3> QED BY <2>5, <3>1, <3>2
  <2>7. /\ \A i \in DOMAIN wire' : wire'[i].cut <= cuts'
        /\ \A i, j \in DOMAIN wire' : i < j => wire'[i].cut <= wire'[j].cut
    BY <2>2, <2>3, <2>5, SendKeepsOrder
  <2> QED BY <2>5, <2>6, <2>7 DEF CutInv
<1>4. CASE Interrupt
  <2>1. audio' = <<>> /\ writer' = <<>> /\ cuts' = cuts + 1 /\ wire' = wire
    BY <1>4 DEF Interrupt, socketVars
  <2>2. \A i \in DOMAIN wire : wire[i].cut \in 0..MaxCuts
    <3>1. wire \in Seq(Message) BY DEF TypeOK, Message
    <3>2. \A i \in DOMAIN wire : wire[i] \in Message BY <3>1
    <3> QED BY <3>2 DEF Message
  <2>3. \A i \in DOMAIN wire' : wire'[i].cut <= cuts' BY <2>1, <2>2 DEF CutInv, TypeOK
  <2> QED BY <2>1, <2>3 DEF CutInv
<1>5. CASE SendKill
  <2>1. KillMessage(cuts) \in Message /\ KillMessage(cuts).cut = cuts
    BY DEF KillMessage, Message, TypeOK
  <2> QED BY <1>5, <2>1, SendKeepsOrder DEF SendKill, CutInv
<1>6. CASE Cancel \/ HandlerEnds BY <1>6 DEF Cancel, HandlerEnds, CutInv
<1>7. CASE UNCHANGED <<audio, writer, wire, cuts>> BY <1>7 DEF CutInv
<1>8. ASSUME [Next]_vars, ~Speak, ~WriteAudio, ~SendAudio, ~Interrupt, ~SendKill,
             ~(Cancel \/ HandlerEnds)
      PROVE  UNCHANGED <<audio, writer, wire, cuts>>
  BY <1>8 DEF Next, vars, audioVars, Start, FarLeaves, ReceiverEnds, ReceivesDisconnect,
              Stop, HangUp
<1> QED BY <1>1, <1>2, <1>3, <1>4, <1>5, <1>6, <1>7, <1>8

(* After the message that stops the other side's playback, nothing that was *)
(* to be played before it is sent.                                          *)
THEOREM InterruptionsAreFinal == Spec => []KillIsFinal
<1>1. Init => CutInv BY DEF Init, CutInv
<1>2. CutInv /\ TypeOK => KillIsFinal
  <2> SUFFICES ASSUME CutInv, TypeOK, NEW i \in DOMAIN wire, NEW j \in DOMAIN wire, i < j
               PROVE  wire[j].cut >= wire[i].cut
    BY DEF KillIsFinal
  <2> QED BY DEF CutInv, TypeOK
<1>3. TypeInv => TypeOK BY DEF TypeInv
<1> QED BY <1>1, <1>2, <1>3, TypeInit, TypeStep, CutStep, PTL DEF Spec
=============================================================================
