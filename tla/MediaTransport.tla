--------------------------- MODULE MediaTransport ---------------------------
(***************************************************************************)
(* The WebSocket transport of a call (app/worker/jambonz, app/worker/      *)
(* mcube): the client that shares the socket, the input with its receive   *)
(* task, the output with its audio task, and the messages their            *)
(* serializers make.  The order in which the frames of an interruption and *)
(* of the end reach input and output is pipecat's.                         *)
(***************************************************************************)
EXTENDS Integers, Sequences

CONSTANTS
    Protocol,        \* "jambonz", "streaming" (binary audio) or "mcube"
    MaxCuts,         \* bound: interruptions
    MaxAudio         \* bound: audio frames of the bot

ASSUME MediaTransportAssumption ==
    /\ Protocol \subseteq {"jambonz", "streaming", "mcube"}
    /\ MaxCuts \in Nat /\ MaxAudio \in Nat

VARIABLES
    protocol,
    far,          \* the other side: "here" or "left"
    clientState,  \* websocket.client_state: "connected" until receive() says otherwise
    appState,     \* websocket.application_state
    closing,      \* _closing
    leave,        \* _leave_counter
    receiver,     \* _receive_messages: "off", "on" or "done"
    pipeline,     \* "new", "running", "ending" (an EndFrame is queued),
                  \* "stopped" (it has passed the input), "cancelled" or "done"
    audio,        \* the output's audio queue, as the interruption each is after
    writer,       \* messages the audio task still has to send for its frame
    killing,      \* an interruption frame to be written
    cuts,         \* interruptions so far
    frames,       \* audio frames so far
    wire,         \* messages that were sent
    closes,       \* websocket.close() calls of the client
    failed        \* whether a send found the connection broken

socketVars == <<far, clientState, appState, closing, leave, closes, failed>>
audioVars == <<audio, writer, killing, cuts, frames, wire>>
vars == <<protocol, socketVars, receiver, pipeline, audioVars>>

Init ==
    /\ protocol \in Protocol
    /\ far = "here" /\ clientState = "connected" /\ appState = "connected"
    /\ closing = FALSE /\ leave = 0 /\ receiver = "off" /\ pipeline = "new"
    /\ audio = <<>> /\ writer = <<>> /\ killing = FALSE /\ cuts = 0 /\ frames = 0
    /\ wire = <<>> /\ closes = 0 /\ failed = FALSE

CanSend == clientState = "connected" /\ ~closing

-----------------------------------------------------------------------------
(* What the serializers make of an audio frame: a binary or a playAudio     *)
(* message, since the output hands them chunks of just the size that        *)
(* jambonz' _play_buffer waits for; for mcube a message and a checkpoint    *)
(* that go out one after the other.                                         *)
JambonzAudio(cut) == <<[type |-> "play", cut |-> cut]>>

McubeAudio(cut) == <<[type |-> "play", cut |-> cut], [type |-> "checkpoint", cut |-> cut]>>

AudioMessages(cut) == IF protocol = "mcube" THEN McubeAudio(cut) ELSE JambonzAudio(cut)

KillMessage(cut) == [type |-> "kill", cut |-> cut]

(* client.send(): a connection that the other side has left may take the    *)
(* message, or break.                                                       *)
Send(m) ==
    \/ /\ ~CanSend /\ UNCHANGED <<wire, appState, closing, failed>>
    \/ /\ CanSend /\ appState = "connected"
       /\ wire' = IF far = "here" THEN Append(wire, m) ELSE wire
       /\ UNCHANGED <<appState, closing, failed>>
    \/ /\ CanSend /\ far = "left"
       /\ appState' = "disconnected" /\ closing' = TRUE /\ failed' = TRUE
       /\ UNCHANGED wire

-----------------------------------------------------------------------------
(* The input. *)

(* start() *)
Start ==
    /\ pipeline = "new" /\ pipeline' = "running"
    /\ leave' = leave + 1 /\ receiver' = "on"
    /\ UNCHANGED <<protocol, far, clientState, appState, closing, closes, failed, audioVars>>

FarLeaves ==
    /\ far = "here" /\ far' = "left"
    /\ UNCHANGED <<protocol, clientState, appState, closing, leave, closes, failed,
                   receiver, pipeline, audioVars>>

QueueEnd == pipeline' = IF pipeline = "running" THEN "ending" ELSE pipeline

(* A mutant of ReceiverEnds: the end of the loop is not reported. *)
ReceiverEndsSilently ==
    /\ receiver = "on" /\ far = "left"
    /\ clientState' = "disconnected" /\ receiver' = "done"
    /\ UNCHANGED <<protocol, far, appState, closing, leave, closes, failed, pipeline, audioVars>>

(* _receive_messages sees the disconnect; on_client_disconnected queues an  *)
(* EndFrame unless the client is closing.                                   *)
ReceiverEnds ==
    /\ receiver = "on" /\ far = "left"
    /\ clientState' = "disconnected" /\ receiver' = "done"
    /\ IF closing THEN UNCHANGED pipeline ELSE QueueEnd
    /\ UNCHANGED <<protocol, far, appState, closing, leave, closes, failed, audioVars>>

(* A jambonz "disconnect" message: its EndFrame goes downstream from the    *)
(* input, which does not stop.                                              *)
ReceivesDisconnect ==
    /\ protocol # "mcube" /\ receiver = "on" /\ far = "here" /\ pipeline = "running"
    /\ pipeline' = "stopped"
    /\ UNCHANGED <<protocol, socketVars, receiver, audioVars>>

(* A mutant of Disconnect: a closing socket is closed again. *)
DisconnectAgain ==
    /\ leave' = leave - 1
    /\ IF leave - 1 <= 0 /\ clientState = "connected"
       THEN closing' = TRUE /\ closes' = closes + 1 /\ appState' = "disconnected"
       ELSE UNCHANGED <<closing, closes, appState>>
    /\ UNCHANGED <<far, clientState, failed>>

(* client.disconnect() *)
Disconnect ==
    /\ leave' = leave - 1
    /\ IF leave - 1 <= 0 /\ CanSend
       THEN closing' = TRUE /\ closes' = closes + 1 /\ appState' = "disconnected"
       ELSE UNCHANGED <<closing, closes, appState>>
    /\ UNCHANGED <<far, clientState, failed>>

(* The EndFrame reaches the input: its tasks are stopped, the client        *)
(* disconnects.                                                             *)
Stop ==
    /\ pipeline = "ending" /\ pipeline' = "stopped"
    /\ receiver' = "done" /\ Disconnect
    /\ UNCHANGED <<protocol, audioVars>>

(* A mutant of Cancel: a task that is cancelled is cancelled again. *)
CancelAgain ==
    /\ pipeline \in {"running", "ending", "stopped", "cancelled"} /\ pipeline' = "cancelled"
    /\ receiver' = "done" /\ Disconnect
    /\ audio' = <<>> /\ writer' = <<>>
    /\ UNCHANGED <<protocol, killing, cuts, frames, wire>>

(* A CancelFrame: a runner cancels the call, or pipecat when nobody has     *)
(* spoken for minutes, or the handler when it was cut short.                *)
Cancel ==
    /\ pipeline \in {"running", "ending", "stopped"} /\ pipeline' = "cancelled"
    /\ receiver' = "done" /\ Disconnect
    /\ audio' = <<>> /\ writer' = <<>>
    /\ UNCHANGED <<protocol, killing, cuts, frames, wire>>

(* The pipeline is over; _handle_call closes what is not closed yet. *)
HandlerEnds ==
    /\ pipeline \in {"stopped", "cancelled"} /\ pipeline' = "done"
    /\ receiver' = "done" /\ appState' = "disconnected" /\ audio' = <<>> /\ writer' = <<>>
    /\ UNCHANGED <<protocol, far, clientState, closing, leave, closes, failed,
                   killing, cuts, frames, wire>>

(* Somebody else hangs up: the conversation, for a goodbye. *)
HangUp ==
    /\ pipeline = "running" /\ QueueEnd
    /\ UNCHANGED <<protocol, socketVars, receiver, audioVars>>

-----------------------------------------------------------------------------
(* The output. *)

Playing == pipeline \in {"running", "ending", "stopped"}

Speak ==
    /\ Playing /\ frames < MaxAudio
    /\ frames' = frames + 1 /\ audio' = Append(audio, cuts)
    /\ UNCHANGED <<protocol, socketVars, receiver, pipeline, writer, killing, cuts, wire>>

(* write_audio_frame and _write_frame *)
WriteAudio ==
    /\ Playing /\ audio # <<>> /\ writer = <<>>
    /\ audio' = Tail(audio)
    /\ writer' = IF CanSend THEN AudioMessages(Head(audio)) ELSE <<>>
    /\ UNCHANGED <<protocol, socketVars, receiver, pipeline, killing, cuts, frames, wire>>

SendAudio ==
    /\ Playing /\ writer # <<>> /\ Send(Head(writer))
    /\ writer' = IF closing' THEN <<>> ELSE Tail(writer)
    /\ UNCHANGED <<protocol, far, clientState, leave, closes, receiver, pipeline,
                   audio, killing, cuts, frames>>

(* A mutant of Interrupt: the audio task goes on until it is written. *)
InterruptLater ==
    /\ Playing /\ ~killing /\ cuts < MaxCuts
    /\ killing' = TRUE /\ cuts' = cuts + 1
    /\ UNCHANGED <<protocol, socketVars, receiver, pipeline, audio, writer, frames, wire>>

(* An interruption: the audio task is cancelled, between the two messages   *)
(* of a frame if it comes to that, and then the other side is told.         *)
Interrupt ==
    /\ Playing /\ ~killing /\ cuts < MaxCuts
    /\ audio' = <<>> /\ writer' = <<>>
    /\ killing' = TRUE /\ cuts' = cuts + 1
    /\ UNCHANGED <<protocol, socketVars, receiver, pipeline, frames, wire>>

SendKill ==
    /\ Playing /\ killing /\ killing' = FALSE
    /\ Send(KillMessage(cuts))
    /\ UNCHANGED <<protocol, far, clientState, leave, closes, receiver, pipeline,
                   audio, writer, cuts, frames>>

-----------------------------------------------------------------------------
Next ==
    \/ Start \/ FarLeaves \/ ReceiverEnds \/ ReceivesDisconnect \/ Stop \/ Cancel \/ HangUp
    \/ HandlerEnds
    \/ Speak \/ WriteAudio \/ SendAudio \/ Interrupt \/ SendKill

Spec == Init /\ [][Next]_vars

(* The tasks run; whether a call is cancelled is up to others.              *)
FairSpec ==
    /\ Spec
    /\ WF_vars(ReceiverEnds) /\ WF_vars(Stop)
    /\ WF_vars(HandlerEnds)

-----------------------------------------------------------------------------
TypeOK ==
    /\ protocol \in Protocol
    /\ far \in {"here", "left"}
    /\ clientState \in {"connected", "disconnected"}
    /\ appState \in {"connected", "disconnected"}
    /\ closing \in BOOLEAN /\ failed \in BOOLEAN /\ killing \in BOOLEAN
    /\ leave \in -1..1 /\ closes \in Nat
    /\ receiver \in {"off", "on", "done"}
    /\ pipeline \in {"new", "running", "ending", "stopped", "cancelled", "done"}
    /\ cuts \in 0..MaxCuts /\ frames \in 0..MaxAudio
    /\ audio \in Seq(0..MaxCuts)
    /\ writer \in Seq([type : {"play", "checkpoint"}, cut : 0..MaxCuts])
    /\ wire \in Seq([type : {"play", "checkpoint", "kill"}, cut : 0..MaxCuts])

(* Once the other side has been told to stop playing, it gets nothing that  *)
(* was to be played before: the audio task, its queue and the two messages  *)
(* of an mcube frame race the interruption.                                 *)
KillIsFinal ==
    \A i, j \in DOMAIN wire : i < j /\ wire[i].type = "kill" => wire[j].cut >= wire[i].cut

(* The socket is closed once, by whichever of EndFrame and CancelFrame gets *)
(* to the input first, and not at all when it is known to be gone.          *)
ClosedOnce == closes <= 1 /\ (closes = 1 => ~failed)

(* When the caller hangs up, the pipeline ends, unless a message was being  *)
(* sent just then: the client takes the broken connection for its own       *)
(* closing, and the receive task does not report it.                        *)
LeavingEndsPipeline ==
    far = "left" /\ pipeline = "running" ~> pipeline = "done" \/ failed

(* "Sent by worker to terminate the MCube call session" (McubeTerminate-    *)
(* Message): a call that the worker ends is terminated.                     *)
TerminateIsSent ==
    protocol = "mcube" /\ closes = 1 =>
        \E i \in DOMAIN wire : wire[i].type = "terminate"

(* What the bot had to say before the end is said ("allowing the bot to     *)
(* finish saying goodbye before the call ends", EndCallProcessor).          *)
GoodbyeIsPlayed == [][closes' > closes => audio = <<>> /\ writer = <<>>]_vars
=============================================================================
