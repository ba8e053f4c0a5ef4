------------------------------- MODULE EndCall -------------------------------
(***************************************************************************)
(* EndCallProcessor (app/worker/processors/end_call.py): an end-call       *)
(* phrase in a completed response ends the call once the TTS has had the   *)
(* time to say it.  Text is the set of the phrase's parts that occur in it.*)
(***************************************************************************)
EXTENDS Naturals

CONSTANT Part       \* the parts in which the one configured phrase arrives
VARIABLES
    buffer,         \* _buffer
    hangups         \* _end_after_tts tasks that sleep

endCallVars == <<buffer, hangups>>

EndCallInit == buffer = {} /\ hangups = 0

(* A mutant of OnText: each piece replaces the one before. *)
OnTextOnly(text) == buffer' = text /\ UNCHANGED hangups

OnText(text) == buffer' = buffer \cup text /\ UNCHANGED hangups

(* LLMFullResponseEndFrame *)
OnResponseEnd ==
    /\ buffer' = {}
    /\ hangups' = IF Part \subseteq buffer THEN hangups + 1 ELSE hangups

(* The rest of _end_after_tts: the caller queues an EndFrame. *)
HangUp == hangups > 0 /\ hangups' = hangups - 1 /\ UNCHANGED buffer

EndCallTypeOK == buffer \subseteq Part /\ hangups \in Nat
=============================================================================
