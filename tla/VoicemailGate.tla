----------------------------- MODULE VoicemailGate -----------------------------
(***************************************************************************)
(* On an outbound call the agent's speech waits behind a gate until a       *)
(* classifier has decided whether a person or a voicemail answered.  The    *)
(* gate is a flag that three tasks of one event loop set and clear without  *)
(* knowing of each other: the detector's own task, the handler that speaks  *)
(* the first message, and every idle prompt, which closes the gate again    *)
(* some seconds after it was spoken.                                        *)
(***************************************************************************)
EXTENDS Integers

CONSTANT MaxPrompts   \* idle prompts that may be waiting to close the gate at once

ASSUME MaxPromptsAssumption == MaxPrompts \in Nat

VARIABLES
  gate,      \* TTSGate._gating_active: speech is held back
  decision,  \* what the classifier has decided
  opened,    \* whether the detector's task has acted on the decision
  event,     \* voicemail_detected_event
  first,     \* the first message
  prompts    \* how many _reenable_gate_after_prompt tasks are waiting

gateVars == <<gate, decision, opened, event, first, prompts>>

GateTypeOK ==
  /\ gate \in BOOLEAN /\ opened \in BOOLEAN /\ event \in BOOLEAN
  /\ decision \in {"none", "conversation", "voicemail"}
  /\ first \in {"waiting", "speaking", "over"}
  /\ prompts \in 0 .. MaxPrompts
  /\ opened => decision # "none"
  /\ event => decision = "voicemail"

GateInit ==
  /\ gate = TRUE /\ decision = "none" /\ opened = FALSE /\ event = FALSE
  /\ first = "waiting" /\ prompts = 0

-----------------------------------------------------------------------------
(* The detector.  A decision is final; the gate opens in a task that wakes   *)
(* later, and on_voicemail_detected runs after the response delay.          *)

Decide(d) ==
  /\ decision = "none" /\ decision' = d
  /\ UNCHANGED <<gate, opened, event, first, prompts>>

OpenGate ==
  /\ decision # "none" /\ ~opened
  /\ opened' = TRUE /\ gate' = FALSE
  /\ UNCHANGED <<decision, event, first, prompts>>

VoicemailDetected ==
  /\ decision = "voicemail" /\ ~event
  /\ event' = TRUE
  /\ UNCHANGED <<gate, decision, opened, first, prompts>>

-----------------------------------------------------------------------------
(* on_client_connected, when the agent speaks first.  (Its                   *)
(* voicemail_gate_active asks whether the pipeline has a gate, not whether   *)
(* the gate is closed.)  An agent that waits for the user, and one whose     *)
(* first message was played before a reconnection, does not take this step.  *)

SpeakFirst ==
  /\ first = "waiting" /\ first' = "speaking"
  /\ gate' = FALSE
  /\ UNCHANGED <<decision, opened, event, prompts>>

\* Mutant: the gate stays as it is.
FirstOverOpen ==
  /\ first = "speaking" /\ first' = "over"
  /\ UNCHANGED <<gate, decision, opened, event, prompts>>

\* Spoken, or thirty seconds have passed.
FirstOver ==
  /\ first = "speaking" /\ first' = "over"
  /\ gate' = IF decision = "none" THEN TRUE ELSE gate
  /\ UNCHANGED <<decision, opened, event, prompts>>

-----------------------------------------------------------------------------
(* _speak_idle_text.  The handler of a detected voicemail stops the idle     *)
(* processor, but not the tasks that wait to close the gate.                *)

SpeakPrompt ==
  /\ ~event /\ prompts < MaxPrompts
  /\ gate' = FALSE /\ prompts' = prompts + 1
  /\ UNCHANGED <<decision, opened, event, first>>

\* Mutant: the event is not looked at.
SpeakOverAlways ==
  /\ prompts > 0 /\ prompts' = prompts - 1
  /\ gate' = TRUE
  /\ UNCHANGED <<decision, opened, event, first>>

SpeakOver ==
  /\ prompts > 0 /\ prompts' = prompts - 1
  /\ gate' = IF event THEN gate ELSE TRUE
  /\ UNCHANGED <<decision, opened, event, first>>

GateNext ==
  \/ \E d \in {"conversation", "voicemail"} : Decide(d)
  \/ OpenGate \/ VoicemailDetected \/ SpeakFirst \/ FirstOver \/ SpeakPrompt \/ SpeakOver

GateSpec == GateInit /\ [][GateNext]_gateVars

-----------------------------------------------------------------------------
(* Properties.                                                              *)

\* Until the classifier has decided, the agent is heard only in its first message
\* and in idle prompts, whichever of them overlap and end in whatever order.
UndecidedIsGated ==
  decision = "none" /\ ~gate => first = "speaking" \/ prompts > 0

\* Once on_voicemail_detected has started, neither a prompt nor a first message that
\* was being spoken then closes the gate on the voicemail message.
VoicemailKeepsGate == [][event /\ gate' => gate]_gateVars

-----------------------------------------------------------------------------
(* What the repository says of the program and the program does not do.     *)

\* base_transport_service.py: "If CONVERSATION was detected, the gate should stay
\* OPEN (don't re-enable)".  An idle prompt closes it for the rest of the call.
ConversationIsHeard == opened /\ decision = "conversation" => ~gate
=============================================================================
