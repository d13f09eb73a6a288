------------------------------ MODULE CallEnding ------------------------------
(***************************************************************************)
(* How a conversation ends: the assistant hangs up, the client goes, the    *)
(* user stays silent, or a voicemail was reached.  Each of the four records *)
(* its reason and the time with the HangupObserver of the pipeline and then *)
(* ends the task; run_pipeline chooses the session's final state by the     *)
(* reason, and the artifact manager stores the reason that was saved.       *)
(*                                                                         *)
(* The observer sees frames through a queue of its own, so the hangup tool's *)
(* result reaches it some time after the tool ran.  During a warm transfer   *)
(* the tool refuses and the call goes on, but that result too has the action *)
(* "hangup", and the observer takes it for the end of the call.             *)
(***************************************************************************)
EXTENDS Integers, Sequences

CONSTANTS Retries,      \* idle_timeout.retries
          Templates,    \* how many idle prompts are configured
          MaxRefusals   \* how often the hangup tool may refuse (TLC's bound)

ASSUME RetriesAssumption == Retries \in Nat
ASSUME TemplatesAssumption == Templates \in Nat
ASSUME MaxRefusalsAssumption == MaxRefusals \in Nat

VARIABLES
  reason,      \* HangupObserver.reason
  saved,       \* the reason in its artifact
  time,        \* whose time its hangup_time is
  queue,       \* the frames it has not seen yet
  tool,        \* the hangup tool
  refusals,    \* how often it has refused
  voicemail,   \* on_voicemail_detected
  disconnect,  \* on_client_disconnected
  idle, retry, count,  \* the idle processor, its retry counter, and the count
                       \* its handler was called with, 0 when it decides nothing
  ending, task,        \* whether an EndFrame is on its way, and the task
  final        \* the state run_pipeline ends the session with

observer == <<reason, saved, time, queue>>
silence == <<idle, retry, count>>
vars == <<observer, tool, refusals, voicemail, disconnect, silence, ending, task, final>>

Reasons == {"pipeline_completed", "assistant_hangup", "client_disconnected",
            "idle_timeout", "voicemail"}

TypeOK ==
  /\ reason \in Reasons /\ saved \in Reasons \cup {"none"}
  /\ time \in {"none", "tool", "disconnect", "idle", "voicemail"}
  /\ queue \in Seq({"result", "end"})
  /\ tool \in {"idle", "result", "speaking", "done"}
  /\ refusals \in 0 .. MaxRefusals
  /\ voicemail \in {"none", "speaking", "done"}
  /\ disconnect \in {"connected", "gone", "ended", "done"}
  /\ idle \in {"watching", "called", "final", "stopped", "dead"}
  /\ retry \in 0 .. Retries + 1 /\ count \in 0 .. Retries + 1
  /\ ending \in BOOLEAN /\ task \in {"running", "over"}
  /\ final \in {"none", "completed", "voicemail"}

Init ==
  /\ reason = "pipeline_completed" /\ saved = "none" /\ time = "none" /\ queue = <<>>
  /\ tool = "idle" /\ refusals = 0 /\ voicemail = "none" /\ disconnect = "connected"
  /\ idle = "watching" /\ retry = 0 /\ count = 0
  /\ ending = FALSE /\ task = "running" /\ final = "none"

-----------------------------------------------------------------------------
(* HangupObserver.                                                          *)

First(old, new) == IF old = "none" THEN new ELSE old

\* Mutant: the latest reason wins.
RecordAnyway(r, who) ==
  /\ time' = First(time, who)
  /\ reason' = r /\ saved' = r

\* set_reason_client_disconnected, _idle_timeout and _voicemail.
Record(r, who) ==
  /\ time' = First(time, who)
  /\ reason' = IF saved = "none" THEN r ELSE reason
  /\ saved' = First(saved, r)

\* on_push_frame: a hangup result replaces the reason even when one is saved; the
\* first EndFrame or CancelFrame saves the reason there is.
Observe ==
  /\ queue # <<>> /\ final = "none"
  /\ queue' = Tail(queue)
  /\ \/ /\ Head(queue) = "result"
        /\ time' = First(time, "tool")
        /\ reason' = "assistant_hangup"
        /\ saved' = First(saved, "assistant_hangup")
     \/ /\ Head(queue) = "end"
        /\ saved' = First(saved, reason)
        /\ UNCHANGED <<reason, time>>
  /\ UNCHANGED <<tool, refusals, voicemail, disconnect, silence, ending, task, final>>

\* Of two EndFrames in the queue the second tells the observer nothing.
EndTask ==
  /\ ending' = TRUE
  /\ queue' = IF \E i \in 1 .. Len(queue) : queue[i] = "end" THEN queue ELSE Append(queue, "end")

-----------------------------------------------------------------------------
(* The hangup tool: the result, the parting words and an EndFrame, and after *)
(* the words an EndTaskFrame.                                               *)

\* Mutant: the EndFrame goes first.
HangUpEndFirst ==
  /\ task = "running" /\ tool = "idle"
  /\ tool' = "speaking" /\ ending' = TRUE
  /\ queue' = queue \o <<"end", "result">>
  /\ UNCHANGED <<reason, saved, time, refusals, voicemail, disconnect, silence, task, final>>

HangUp ==
  /\ task = "running" /\ tool = "idle"
  /\ tool' = "result"
  /\ queue' = Append(queue, "result")
  /\ UNCHANGED <<reason, saved, time, refusals, voicemail, disconnect, silence, ending, task, final>>

\* A warm transfer is in progress: the result says "blocked", its action "hangup".
RefuseHangUp ==
  /\ task = "running" /\ tool = "idle" /\ refusals < MaxRefusals
  /\ refusals' = refusals + 1
  /\ queue' = Append(queue, "result")
  /\ UNCHANGED <<reason, saved, time, tool, voicemail, disconnect, silence, ending, task, final>>

PushEnd ==
  /\ tool = "result" /\ tool' = "speaking"
  /\ EndTask
  /\ UNCHANGED <<reason, saved, time, refusals, voicemail, disconnect, silence, task, final>>

PartingWordsOver ==
  /\ tool = "speaking" /\ tool' = "done"
  /\ EndTask
  /\ UNCHANGED <<reason, saved, time, refusals, voicemail, disconnect, silence, task, final>>

-----------------------------------------------------------------------------
(* Voicemail: fifteen seconds for the message, then the reason and the end.  *)

DetectVoicemail ==
  /\ task = "running" /\ voicemail = "none"
  /\ voicemail' = "speaking"
  /\ idle' = IF idle = "dead" THEN "dead" ELSE "stopped"
  /\ count' = 0
  /\ UNCHANGED <<observer, tool, refusals, disconnect, retry, ending, task, final>>

VoicemailOver ==
  /\ voicemail = "speaking" /\ voicemail' = "done"
  /\ Record("voicemail", "voicemail") /\ EndTask
  /\ UNCHANGED <<tool, refusals, disconnect, silence, task, final>>

-----------------------------------------------------------------------------
(* The client goes: the reason, an EndFrame, then the task is cancelled.     *)

ClientGoes ==
  /\ task = "running" /\ disconnect = "connected" /\ disconnect' = "gone"
  /\ UNCHANGED <<observer, tool, refusals, voicemail, silence, ending, task, final>>

RecordDisconnect ==
  /\ disconnect = "gone" /\ disconnect' = "ended"
  /\ Record("client_disconnected", "disconnect") /\ EndTask
  /\ UNCHANGED <<tool, refusals, voicemail, silence, task, final>>

CancelTask ==
  /\ disconnect = "ended" /\ disconnect' = "done"
  /\ task' = "over"
  /\ UNCHANGED <<observer, tool, refusals, voicemail, silence, ending, final>>

-----------------------------------------------------------------------------
(* The idle processor calls handle_user_idle after every silent interval.    *)

UserSpeaks ==
  /\ task = "running" /\ disconnect = "connected" /\ retry > 0
  /\ retry' = 0
  /\ UNCHANGED <<observer, tool, refusals, voicemail, disconnect, idle, count, ending, task, final>>

IdleFires ==
  /\ task = "running" /\ idle = "watching"
  /\ idle' = "called"
  /\ retry' = retry + 1 /\ count' = retry + 1
  /\ UNCHANGED <<observer, tool, refusals, voicemail, disconnect, ending, task, final>>

\* A warm transfer is in progress: this interval does not count.
Pause ==
  /\ idle = "called" /\ idle' = "watching" /\ count' = 0
  /\ retry' = IF retry > 0 THEN retry - 1 ELSE 0
  /\ UNCHANGED <<observer, tool, refusals, voicemail, disconnect, ending, task, final>>

\* prompt_templates[retry_count - 1]: beyond the list the handler raises and the
\* processor's task is gone.
Prompt ==
  /\ idle = "called" /\ count < Retries /\ count' = 0
  /\ idle' = IF count - 1 < Templates THEN "watching" ELSE "dead"
  /\ UNCHANGED <<observer, tool, refusals, voicemail, disconnect, retry, ending, task, final>>

FinalPrompt ==
  /\ idle = "called" /\ count >= Retries /\ count' = 0
  /\ idle' = IF Templates > 0 THEN "final" ELSE "dead"
  /\ UNCHANGED <<observer, tool, refusals, voicemail, disconnect, retry, ending, task, final>>

\* Mutant: the reason is recorded and the frame does not reach the task.
IdleEndsUnheard ==
  /\ idle = "final" /\ idle' = "stopped"
  /\ Record("idle_timeout", "idle")
  /\ UNCHANGED <<queue, tool, refusals, voicemail, disconnect, retry, count, ending, task, final>>

\* The final prompt has been spoken: the call ends, whatever was said meanwhile.
IdleEnds ==
  /\ idle = "final" /\ idle' = "stopped"
  /\ Record("idle_timeout", "idle") /\ EndTask
  /\ UNCHANGED <<tool, refusals, voicemail, disconnect, retry, count, task, final>>

-----------------------------------------------------------------------------
(* run_pipeline.                                                            *)

Finish ==
  /\ ending /\ task = "running"
  /\ task' = "over"
  /\ UNCHANGED <<observer, tool, refusals, voicemail, disconnect, silence, ending, final>>

\* VOICEMAIL or COMPLETED, by the reason the observer holds now.
EndSession ==
  /\ task = "over" /\ final = "none"
  /\ final' = IF reason = "voicemail" THEN "voicemail" ELSE "completed"
  /\ UNCHANGED <<observer, tool, refusals, voicemail, disconnect, silence, ending, task>>

Idle == IdleFires \/ Pause \/ Prompt \/ FinalPrompt \/ IdleEnds
Handlers == PushEnd \/ PartingWordsOver \/ VoicemailOver \/ RecordDisconnect \/ CancelTask

Next ==
  \/ Observe \/ HangUp \/ RefuseHangUp \/ DetectVoicemail \/ ClientGoes \/ UserSpeaks
  \/ Idle \/ Handlers \/ Finish \/ EndSession

\* The event loop runs what can run; the user, the client and the LLM owe nothing.
Spec == Init /\ [][Next]_vars
FairSpec ==
  Spec /\ WF_vars(Idle) /\ WF_vars(Handlers) /\ WF_vars(Observe) /\ WF_vars(Finish \/ EndSession)

-----------------------------------------------------------------------------
(* Properties.                                                              *)

\* What each of the four reports as the reason.
ReasonOf == [tool |-> "assistant_hangup", disconnect |-> "client_disconnected",
             idle |-> "idle_timeout", voicemail |-> "voicemail"]

\* Who has reported: the tool also when it only refused.
HasReported(who) ==
  \/ who = "tool" /\ (tool # "idle" \/ refusals > 0)
  \/ who = "disconnect" /\ disconnect \in {"ended", "done"}
  \/ who = "idle" /\ idle = "stopped"
  \/ who = "voicemail" /\ voicemail = "done"

\* The reason stored with the call and the time its duration is computed from are
\* of one and the same report, of a handler that has run, and no later report
\* replaces either.  The first report may be a refused hangup's, and then it is
\* that one which stands (see HangupIsReal).
FirstReportStands ==
  [][/\ saved # "none" => saved' = saved
     /\ time # "none" => time' = time
     /\ saved' # "none" => HasReported(time)' /\ saved' = ReasonOf[time']]_vars

\* Whoever ends the call has told the observer why before the observer sees an
\* EndFrame: the default reason is never what is stored for such a call.
ReasonPrecedesEnd == saved # "pipeline_completed"

\* A user who is silent from some time on, with no transfer in progress, is
\* disconnected in the end.
SilenceEndsCall == []<><<UserSpeaks \/ Pause>>_vars \/ <>(task = "over")

-----------------------------------------------------------------------------
(* What the repository says of the program and the program does not do.     *)

\* base_transport_service.py: "Use VOICEMAIL state if the call was detected as
\* voicemail".
VoicemailIsRecorded == final # "none" /\ voicemail # "none" => final = "voicemail"

\* hangup_observer.py: "This preserves the earliest/most accurate hangup time", and
\* "we know this is the final reason".  A refused hangup is stored as the end of a
\* call that goes on, and keeps out the reason and the time of the real end.
HangupIsReal == saved = "assistant_hangup" => tool # "idle"

\* hangup_observer.py, of a hangup result: "We can save immediately here because
\* we know this is the final reason".
HangupReasonIsSaved == reason = "assistant_hangup" => saved = "assistant_hangup"

\* agent.py, the last default prompt: "If you're still there, please say
\* something or I'll have to disconnect".  A user who has spoken since the last
\* interval of silence (retry is reset) is not disconnected.
LateAnswerIsHeard == [][idle = "final" /\ idle' = "stopped" /\ ending' /\ ~ending => retry > 0]_vars

\* agent.py: retries is the "Number of times to prompt the user before ending the
\* call", whatever the number of prompts.
IdleHandlerSurvives == idle # "dead"
=============================================================================
