----------------------------- MODULE Conversation -----------------------------
(***************************************************************************)
(* An outbound call: how it ends (CallEnding) and what is heard of it       *)
(* (VoicemailGate).  The two share the idle handler, which speaks through    *)
(* the gate, and on_voicemail_detected, which sets the event the gate's      *)
(* tasks look at and stops the idle processor.                              *)
(***************************************************************************)
EXTENDS CallEnding, VoicemailGate

allVars == <<vars, gateVars>>

ConversationInit == Init /\ GateInit

\* handle_user_idle speaks a prompt, unless it raises.
IdlePrompt ==
  /\ Prompt \/ FinalPrompt
  /\ IF idle' = "dead" THEN UNCHANGED gateVars ELSE SpeakPrompt

\* Its other outcomes.
IdleQuiet == (IdleFires \/ Pause \/ IdleEnds) /\ UNCHANGED gateVars

OnVoicemailDetected == DetectVoicemail /\ VoicemailDetected

CallOnly ==
  /\ Observe \/ HangUp \/ RefuseHangUp \/ ClientGoes \/ UserSpeaks \/ Handlers \/ Finish \/ EndSession
  /\ UNCHANGED gateVars

GateOnly ==
  /\ \/ \E d \in {"conversation", "voicemail"} : Decide(d)
     \/ OpenGate \/ SpeakFirst \/ FirstOver \/ SpeakOver
  /\ UNCHANGED vars

ConversationNext == IdlePrompt \/ IdleQuiet \/ OnVoicemailDetected \/ CallOnly \/ GateOnly

\* The event loop runs what can run and sleeps end; the user, the client, the
\* classifier and the LLM owe nothing.
ConversationFairness ==
  /\ WF_allVars(IdlePrompt \/ IdleQuiet)
  /\ WF_allVars(SpeakOver /\ UNCHANGED vars)
  /\ WF_allVars(Handlers /\ UNCHANGED gateVars)
  /\ WF_allVars(Observe /\ UNCHANGED gateVars)
  /\ WF_allVars((Finish \/ EndSession) /\ UNCHANGED gateVars)

ConversationSpec == ConversationInit /\ [][ConversationNext]_allVars
FairConversation == ConversationSpec /\ ConversationFairness
=============================================================================
