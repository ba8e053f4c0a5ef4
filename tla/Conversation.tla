---------------------------- MODULE Conversation ----------------------------
(***************************************************************************)
(* The conversation of one call: what create_pipeline (app/worker/         *)
(* pipeline.py) puts together.  The silence observer, the interruption     *)
(* judge, the end-call processor and the metrics are this repository's;    *)
(* the turn controller, the LLM, the TTS and the output, which produce the *)
(* frames, are pipecat's and are modelled by the frames they send.         *)
(*                                                                         *)
(* A frame that the output sends upstream takes its time to the judge,     *)
(* which sits at the other end of the pipeline; the observer sees both     *)
(* copies.  Downstream frames keep their order and meet only listeners.    *)
(*                                                                         *)
(* What is said in a reply, what the judge is asked and what each service  *)
(* measures do not depend on each other: a behaviour follows one of them.  *)
(***************************************************************************)
EXTENDS SilenceNudge, InterruptionJudge, EndCall, CallMetrics, FiniteSets

CONSTANTS
    Greeting,    \* kinds of greeting: "none", "text", "audio"
    MaxTurns,    \* bound: user turns
    MaxUp,       \* bound: frames on their way up
    MaxHangups   \* bound: hang-ups that wait

ASSUME ConversationAssumption ==
    /\ Message \in BOOLEAN
    /\ MaxAsked \in Nat /\ MaxTurns \in Nat /\ MaxUp \in Nat /\ MaxHangups \in Nat
    /\ Part # {} /\ Greeting \subseteq {"none", "text", "audio"}

VARIABLES
    greeting,  \* on_client_connected: "none" before, "fetching", "done"
    llm,       \* "idle", "asked" or "streaming"
    reply,     \* the parts of the phrase in the reply being streamed
    speech,    \* whether there is something to say
    bot,       \* whether the output is speaking
    up,        \* frames of the output on their way up
    cutoff,    \* an interruption is on its way down
    ended,     \* the EndFrame: "no", "queued" or "done"
    nudges,    \* prompts since anybody last spoke
    goodbye,   \* whether a reply with the phrase has been completed
    focus      \* the data that is followed

flowVars == <<greeting, llm, reply, speech, bot, up, cutoff, ended, nudges, goodbye, focus>>
vars == <<nudgeVars, judgeVars, endCallVars, metricsVars, flowVars>>

Init ==
    /\ NudgeInit /\ JudgeInit /\ EndCallInit /\ MetricsInit
    /\ greeting = "none" /\ llm = "idle" /\ reply = {} /\ speech = FALSE /\ bot = FALSE
    /\ up = <<>> /\ cutoff = FALSE /\ ended = "no" /\ nudges = 0 /\ goodbye = FALSE
    /\ focus \in Service \cup {"smart", "judge", "text"}

-----------------------------------------------------------------------------
(* The greeting. *)

(* on_client_connected: no greeting, or the bot does not speak first; text; *)
(* or an audio file, which is fetched first.                                *)
ClientConnected ==
    /\ greeting = "none"
    /\ \/ "none" \in Greeting /\ greeting' = "done" /\ UNCHANGED speech
       \/ "text" \in Greeting /\ greeting' = "done" /\ speech' = TRUE
       \/ "audio" \in Greeting /\ greeting' = "fetching" /\ UNCHANGED speech
    /\ UNCHANGED <<nudgeVars, judgeVars, endCallVars, metricsVars,
                   llm, reply, bot, up, cutoff, ended, nudges, goodbye, focus>>

(* fetch_audio_from_url: the audio, or the default sentence if anything     *)
(* fails.                                                                   *)
GreetingFetched ==
    /\ greeting = "fetching"
    /\ greeting' = "done" /\ speech' = TRUE
    /\ UNCHANGED <<nudgeVars, judgeVars, endCallVars, metricsVars,
                   llm, reply, bot, up, cutoff, ended, nudges, goodbye, focus>>

-----------------------------------------------------------------------------
(* The user. *)

TurnBegan ==
    /\ Observe("UserStarted")
    /\ cutoff' = TRUE /\ nudges' = 0
    /\ UNCHANGED <<endCallVars, metricsVars, greeting, llm, reply, speech, bot, up, ended, goodbye, focus>>

(* A transcript that begins a turn, or is too short to while the bot        *)
(* speaks.                                                                  *)
TranscriptBeginsTurn ==
    /\ ~turn /\ turns < MaxTurns
    /\ \E long \in BOOLEAN : Triggers(long)
    /\ BeginTurn /\ TurnBegan

ShortTranscript ==
    /\ focus = "judge" /\ ~Triggers(FALSE) /\ Ask
    /\ UNCHANGED <<nudgeVars, endCallVars, metricsVars, flowVars>>

JudgeAnswers(j) ==
    Answer(j) /\ UNCHANGED <<nudgeVars, endCallVars, metricsVars, flowVars>>

JudgeDismisses(j) ==
    Dismiss(j) /\ UNCHANGED <<nudgeVars, endCallVars, metricsVars, flowVars>>

JudgeInterrupts(j) == turns < MaxTurns /\ Interrupts(j) /\ TurnBegan

(* The interruption that comes with a turn cancels the LLM and the speech.  *)
(* The end of the cancelled response may get as far as the end-call         *)
(* processor.                                                               *)
Interruption ==
    /\ cutoff /\ cutoff' = FALSE
    /\ llm' = "idle" /\ reply' = {} /\ speech' = FALSE
    /\ \/ UNCHANGED endCallVars
       \/ llm = "streaming" /\ hangups < MaxHangups /\ OnResponseEnd
    /\ IF bot
       THEN /\ Len(up) < MaxUp /\ up' = Append(up, "BotStopped") /\ bot' = FALSE /\ nudges' = 0
            /\ Observe("BotStopped")
       ELSE UNCHANGED <<up, bot, nudges, nudgeVars>>
    /\ UNCHANGED <<judgeVars, metricsVars, greeting, ended, goodbye, focus>>

SmartTurnReports ==
    /\ focus = "smart" /\ turn /\ OnSmartTurn(turns)
    /\ UNCHANGED <<nudgeVars, judgeVars, endCallVars, flowVars>>

(* The turn is over, and the LLM is asked if anything was said. *)
UserStops ==
    /\ ~cutoff /\ EndTurn /\ OnUserStopped(turns)
    /\ llm' \in {llm, IF llm = "idle" THEN "asked" ELSE llm}
    /\ UNCHANGED <<nudgeVars, endCallVars, greeting, reply, speech, bot, up, cutoff,
                   ended, nudges, goodbye, focus>>

-----------------------------------------------------------------------------
(* The bot. *)

SttReports ==
    /\ focus = "stt" /\ OnTtfb("stt", turns)
    /\ UNCHANGED <<nudgeVars, judgeVars, endCallVars, flowVars>>

LlmStarts ==
    /\ llm = "asked" /\ reply' = {}
    /\ \/ llm' = "streaming" /\ focus = "llm" /\ OnTtfb("llm", turns)
       \/ llm' \in {"streaming", "idle"} /\ UNCHANGED metricsVars
    /\ UNCHANGED <<nudgeVars, judgeVars, endCallVars, greeting, speech, bot, up, cutoff,
                   ended, nudges, goodbye, focus>>

LlmSays ==
    /\ llm = "streaming" /\ speech' = TRUE
    /\ \E text \in {{}} \cup {{p} : p \in Part} :
          /\ focus = "text" \/ text = {}
          /\ OnText(text)
          /\ reply' = reply \cup text
    /\ UNCHANGED <<nudgeVars, judgeVars, metricsVars, greeting, llm, bot, up, cutoff,
                   ended, nudges, goodbye, focus>>

LlmEnds ==
    /\ llm = "streaming" /\ hangups < MaxHangups
    /\ llm' = "idle" /\ reply' = {}
    /\ goodbye' = (goodbye \/ Part \subseteq reply)
    /\ OnResponseEnd
    /\ UNCHANGED <<nudgeVars, judgeVars, metricsVars, greeting, speech, bot, up, cutoff,
                   ended, nudges, focus>>

(* TTSStartedFrame, and the value of the TTS itself if it gets through. *)
TtsReports ==
    /\ focus = "tts" /\ speech
    /\ OnTtsStarted(turns) \/ OnTtfb("tts", turns)
    /\ UNCHANGED <<nudgeVars, judgeVars, endCallVars, flowVars>>

BotStarts ==
    /\ speech /\ ~bot /\ ~cutoff /\ Len(up) < MaxUp
    /\ bot' = TRUE /\ up' = Append(up, "BotStarted")
    /\ Observe("BotStarted") /\ OnBotStarted
    /\ UNCHANGED <<judgeVars, endCallVars, greeting, llm, reply, speech, cutoff, ended,
                   nudges, goodbye, focus>>

(* A pause, or all has been said. *)
BotStops ==
    /\ bot /\ Len(up) < MaxUp
    /\ bot' = FALSE /\ up' = Append(up, "BotStopped") /\ speech' \in BOOLEAN /\ nudges' = 0
    /\ Observe("BotStopped")
    /\ UNCHANGED <<judgeVars, endCallVars, metricsVars, greeting, llm, reply, cutoff, ended, goodbye, focus>>

FrameArrivesUp ==
    /\ up # <<>> /\ up' = Tail(up)
    /\ Observe(Head(up))
    /\ \/ Head(up) = "BotStarted" /\ JudgeBotStarted
       \/ Head(up) = "BotStopped" /\ JudgeBotStopped
    /\ UNCHANGED <<endCallVars, metricsVars, greeting, llm, reply, speech, bot, cutoff,
                   ended, nudges, goodbye, focus>>

(* Frames take milliseconds and the timer whole seconds. *)
NudgeTimer(t) ==
    /\ up = <<>> /\ WakeTimer(t)
    /\ IF Nudges THEN nudges' = nudges + 1 /\ llm' = IF llm = "idle" THEN "asked" ELSE llm
       ELSE UNCHANGED <<nudges, llm>>
    /\ UNCHANGED <<judgeVars, endCallVars, metricsVars, greeting, reply, speech, bot, up,
                   cutoff, ended, goodbye, focus>>

-----------------------------------------------------------------------------
(* The end. *)

QueueEnd ==
    /\ ended' = "queued"
    /\ UNCHANGED <<nudgeVars, judgeVars, metricsVars, greeting, llm, reply, speech, bot, up,
                   cutoff, nudges, goodbye, focus>>

GoodbyeIsOver == HangUp /\ QueueEnd

ClientDisconnected == ended = "no" /\ QueueEnd /\ UNCHANGED endCallVars

EndArrives ==
    /\ ended = "queued" /\ ended' = "done"
    /\ Observe("End") /\ JudgeCleanup
    /\ UNCHANGED <<endCallVars, metricsVars, greeting, llm, reply, speech, bot, up, cutoff,
                   nudges, goodbye, focus>>

-----------------------------------------------------------------------------
JudgeStep == \E j \in judges : JudgeAnswers(j) \/ JudgeDismisses(j) \/ JudgeInterrupts(j)
LlmStep == LlmStarts \/ LlmSays \/ LlmEnds
BotStep == BotStarts \/ BotStops

Next ==
    /\ ended # "done"
    /\ \/ ClientConnected \/ GreetingFetched
       \/ TranscriptBeginsTurn \/ ShortTranscript \/ JudgeStep
       \/ Interruption \/ SmartTurnReports \/ UserStops
       \/ SttReports \/ LlmStep \/ TtsReports \/ BotStep \/ FrameArrivesUp
       \/ \E t \in TimerTask : NudgeTimer(t)
       \/ GoodbyeIsOver \/ ClientDisconnected \/ EndArrives

Spec == Init /\ [][Next]_vars

(* The pipeline's tasks go on, and its timers and sleeps end; nothing is    *)
(* asked of the user, the client or the providers.                          *)
FairSpec ==
    /\ Spec
    /\ WF_vars(Interruption) /\ WF_vars(FrameArrivesUp) /\ WF_vars(EndArrives)
    /\ WF_vars(GoodbyeIsOver)
    /\ \A t \in TimerTask : WF_vars(NudgeTimer(t))

-----------------------------------------------------------------------------
TypeOK ==
    /\ NudgeTypeOK /\ JudgeTypeOK /\ EndCallTypeOK
    /\ greeting \in {"none", "fetching", "done"}
    /\ llm \in {"idle", "asked", "streaming"} /\ reply \subseteq Part
    /\ speech \in BOOLEAN /\ bot \in BOOLEAN /\ cutoff \in BOOLEAN /\ goodbye \in BOOLEAN
    /\ up \in Seq({"BotStarted", "BotStopped"})
    /\ ended \in {"no", "queued", "done"} /\ nudges \in Nat

(* A silence is broken by one prompt, and never while the bot speaks: an    *)
(* observer that sees every frame several times starts its timer as often.  *)
OneNudgePerSilence == [][nudges' > nudges => ~bot /\ nudges = 0]_vars

(* When nobody speaks for long enough, the LLM is prompted or the bot       *)
(* speaks, whatever came before: turns without an answer, interruptions,    *)
(* pauses of the TTS.                                                       *)
SilenceIsBroken ==
    Message => (~bot /\ nudges = 0 ~> bot \/ nudges > 0 \/ ended # "no")

(* The judge's decision to interrupt is about the last utterance it was     *)
(* asked about, and no turn has begun since then.                           *)
VerdictIsCurrent ==
    [][\A j \in judges : JudgeInterrupts(j) => j.utterance = asked /\ j.turns = turns]_vars

(* Once the frames have got through, the judge knows whether the bot is     *)
(* speaking, although a turn resets what it knows while they are underway.  *)
JudgeKnowsBot == up = <<>> /\ ~cutoff => judgeBot = bot

(* A reply that says goodbye ends the call, in however many pieces the LLM  *)
(* sends it and whatever the user says to it.                               *)
GoodbyeEndsCall == goodbye ~> ended = "done"

(* A nudge is for a user who says nothing ("Fires a silence nudge when the  *)
(* user is quiet past silence_timeout_seconds", SilenceNudgeObserver).      *)
NudgeWhenQuiet == [][nudges' > nudges => ~turn]_vars

(* "When the bot is NOT speaking, any user speech triggers a turn start     *)
(* immediately" (LLMInterruptionJudgeStrategy).                             *)
QuietBotListens == greeting = "done" /\ ~speech /\ ~bot /\ up = <<>> => Triggers(FALSE)

(* The call is ended by a completed response with the phrase ("When a       *)
(* phrase is matched in the completed LLM response", EndCallProcessor).     *)
EndsOnlyOnGoodbye == hangups > 0 => goodbye
=============================================================================
