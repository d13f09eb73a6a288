------------------------------- MODULE TextChat -------------------------------
(***************************************************************************)
(* A session by text.  The websocket's handler finds or creates the session,  *)
(* consumes its configuration and receives what the client writes; a          *)
(* pipeline of its own answers.  The client and the pipeline share one         *)
(* transcript, which is summarised and saved after the conversation: when the  *)
(* client has gone, was silent too long, or something failed.                  *)
(***************************************************************************)
EXTENDS Naturals, Sequences, SequencesExt

CONSTANTS
  Sayings,     \* what the client and the assistant may say
  Recent,      \* how far back add_message looks for a repetition
  MaxSayings,  \* bound: messages of the client
  MaxAnswered  \* bound: messages in a transcript up to which an answer is followed up

ASSUME ChatAssumption == {Recent, MaxSayings, MaxAnswered} \subseteq Nat

VARIABLES
  handler,     \* open, config, setup, receives; then drains, ends, sums, saves, closes, over
  worker,      \* the pipeline: none, idle, asks the LLM, sends a reply, over
  pending,     \* frames queued for it: messages of the client and the end
  answer,      \* the reply it sends, or "none"
  transcript,  \* transcript_accumulator.messages
  exchanged,   \* what the client has written and got
  cutOff,      \* was the pipeline cancelled with a reply under way?
  ending,      \* hangup_observer's reason once it is saved
  outcome,     \* final_state
  state,       \* the session's
  written      \* how many messages the client has written

VARIABLES
  summarised,      \* {} or the transcript as it was summed up
  savedTranscript  \* {} or the transcript as it was saved

pipelineVars == <<worker, pending, answer>>
recordVars == <<transcript, exchanged, cutOff>>
chatVars == <<handler, pipelineVars, recordVars, ending, outcome, state, written, summarised, savedTranscript>>

ChatInit ==
  /\ handler = "open" /\ worker = "none" /\ pending = <<>> /\ answer = "none"
  /\ transcript = <<>> /\ exchanged = {} /\ cutOff = FALSE
  /\ ending = "none" /\ outcome = "completed" /\ state \in {"none", "preflight"} /\ written = 0
  /\ summarised = {} /\ savedTranscript = {}

Proceed(from, to) == handler = from /\ handler' = to

\* HangupObserver._save: the first reason stands.
Report(reason) == ending' = IF ending = "none" THEN reason ELSE ending

-----------------------------------------------------------------------------
(* TranscriptAccumulator.                                                    *)

Says(role, text) == [role |-> role, text |-> text]

\* A message that repeats one of the last of the same role is not added.
Repeated(m, messages) ==
  \E i \in DOMAIN messages : i > Len(messages) - Recent /\ messages[i] = m

AddMessage(m) ==
  transcript' = IF Repeated(m, transcript) THEN transcript ELSE Append(transcript, m)

-----------------------------------------------------------------------------
(* The handler until the conversation ends.                                  *)

\* ensure_session_exists_for_chat
FindChatSession ==
  /\ \/ Proceed("open", "config") /\ state' = "preflight"
     \/ Proceed("open", "over") /\ state' = state
  /\ UNCHANGED <<pipelineVars, recordVars, ending, outcome, written, summarised, savedTranscript>>

\* get_and_consume_config
ConsumeChatConfig ==
  /\ \/ Proceed("config", "setup") /\ state' = "in_flight"
     \/ Proceed("config", "over") /\ state' = state
  /\ UNCHANGED <<pipelineVars, recordVars, ending, outcome, written, summarised, savedTranscript>>

\* The services, the context, the pipeline and its observers, and the tasks; a failure
\* goes straight to the end.
SetUpChat ==
  /\ \/ Proceed("setup", "receives") /\ worker' = "idle" /\ outcome' = outcome
     \/ Proceed("setup", "ends") /\ worker' = worker /\ outcome' = "error"
  /\ UNCHANGED <<pending, answer, recordVars, ending, state, written, summarised, savedTranscript>>

\* The message is recorded and queued, also when the pipeline has ended.
Receive(text) ==
  /\ handler = "receives" /\ written < MaxSayings /\ written' = written + 1
  /\ AddMessage(Says("user", text)) /\ exchanged' = exchanged \union {Says("user", text)}
  /\ pending' = Append(pending, "message")
  /\ UNCHANGED <<handler, worker, answer, cutOff, ending, outcome, state, summarised, savedTranscript>>

\* Silence, the client's leaving, an error, or the cancelled handler end the loop; the
\* finally block queues the end.
StopReceiving ==
  /\ Proceed("receives", "drains")
  /\ \/ Report("idle_timeout") /\ outcome' = outcome
     \/ Report("client_disconnected") /\ outcome' = outcome
     \/ UNCHANGED ending /\ outcome' \in {"error", "completed"}
  /\ pending' = Append(pending, "end")
  /\ UNCHANGED <<worker, answer, recordVars, state, written, summarised, savedTranscript>>

-----------------------------------------------------------------------------
(* The pipeline.                                                             *)

Work(from, to) == worker = from /\ worker' = to

TakeFrame ==
  /\ pending # <<>> /\ pending' = Tail(pending)
  /\ IF Head(pending) = "end"
     THEN Work("idle", "over") /\ Report("pipeline_completed")
     ELSE Work("idle", "asks") /\ UNCHANGED ending
  /\ UNCHANGED <<handler, answer, recordVars, outcome, state, written, summarised, savedTranscript>>

\* WebSocketTextOutbound: the whole response is sent, and stored after the send even if
\* the client has left.
SendReply(text) ==
  /\ Work("asks", "sends") /\ answer' = text
  /\ exchanged' =
       IF handler = "receives" \/ ending = "idle_timeout"
       THEN exchanged \union {Says("assistant", text)} ELSE exchanged
  /\ UNCHANGED <<handler, pending, transcript, cutOff, ending, outcome, state, written, summarised, savedTranscript>>

\* The result of a function the LLM has called along with it asks for another answer.
StoreReply ==
  /\ Work("sends", "idle") \/ (Len(transcript) < MaxAnswered /\ Work("sends", "asks"))
  /\ answer' = "none"
  /\ AddMessage(Says("assistant", answer))
  /\ UNCHANGED <<handler, pending, exchanged, cutOff, ending, outcome, state, written, summarised, savedTranscript>>

\* The LLM fails or has nothing to say.
NoReply ==
  /\ Work("asks", "idle")
  /\ UNCHANGED <<handler, pending, answer, recordVars, ending, outcome, state, written, summarised, savedTranscript>>

\* The LLM hangs up: the end comes after what is queued; the handler goes on receiving.
HangUpChat ==
  /\ Work("asks", "idle") /\ Report("assistant_hangup")
  /\ pending' = Append(pending, "end")
  /\ UNCHANGED <<handler, answer, recordVars, outcome, state, written, summarised, savedTranscript>>

-----------------------------------------------------------------------------
(* The finally block.                                                        *)

\* Mutant: the runner is not waited for.
DrainAtOnce ==
  /\ Proceed("drains", "ends")
  /\ UNCHANGED <<pipelineVars, recordVars, ending, outcome, state, written, summarised, savedTranscript>>

\* The runner ends in time, or it is cancelled, with whatever it does.  The cancelled
\* runner may return or raise, which the block does not catch: then it ends here.
Drain ==
  \/ /\ worker = "over" /\ Proceed("drains", "ends")
     /\ UNCHANGED <<pipelineVars, recordVars, ending, outcome, state, written, summarised, savedTranscript>>
  \/ /\ worker # "over" /\ worker' = "over"
     /\ Proceed("drains", "ends") \/ Proceed("drains", "over")
     /\ cutOff' = (worker = "sends") /\ Report("pipeline_completed")
     /\ UNCHANGED <<pending, answer, transcript, exchanged, outcome, state, written, summarised, savedTranscript>>

\* end_session; when it fails the session is read, and when that fails too nothing
\* is saved.
EndChat ==
  /\ \/ Proceed("ends", "sums") /\ state' \in {outcome, state}
     \/ Proceed("ends", "over") /\ state' = state
  /\ UNCHANGED <<pipelineVars, recordVars, ending, outcome, written, summarised, savedTranscript>>

\* The LLM writes the summary while whatever still runs goes on.
SumUpChat ==
  /\ Proceed("sums", "saves")
  /\ \/ summarised' = {}
     \/ transcript # <<>> /\ summarised' = {transcript}
  /\ UNCHANGED <<pipelineVars, recordVars, ending, outcome, state, written, savedTranscript>>

SaveChat ==
  /\ Proceed("saves", "closes")
  /\ savedTranscript' \in {{}, {transcript}}
  /\ UNCHANGED <<pipelineVars, recordVars, ending, outcome, state, written, summarised>>

CloseChat ==
  /\ Proceed("closes", "over")
  /\ UNCHANGED <<pipelineVars, recordVars, ending, outcome, state, written, summarised, savedTranscript>>

ChatNext ==
  \/ FindChatSession \/ ConsumeChatConfig \/ SetUpChat \/ StopReceiving
  \/ \E text \in Sayings : Receive(text) \/ SendReply(text)
  \/ TakeFrame \/ StoreReply \/ NoReply \/ HangUpChat
  \/ Drain \/ EndChat \/ SumUpChat \/ SaveChat \/ CloseChat

TextChatSpec == ChatInit /\ [][ChatNext]_chatVars

-----------------------------------------------------------------------------
(* Properties.                                                              *)

\* The types of the handler's, the pipeline's and the transcript's state.
Messages == [role : {"user", "assistant"}, text : Sayings]
ChatTypeOK ==
  /\ handler \in {"open", "config", "setup", "receives", "drains", "ends", "sums", "saves", "closes", "over"}
  /\ worker \in {"none", "idle", "asks", "sends", "over"}
  /\ answer \in Sayings \union {"none"} /\ pending \in Seq({"message", "end"})
  /\ transcript \in Seq(Messages) /\ exchanged \subseteq Messages
  /\ ending \in {"none", "idle_timeout", "client_disconnected", "assistant_hangup", "pipeline_completed"}
  /\ outcome \in {"completed", "error"} /\ state \in {"none", "preflight", "in_flight", "completed", "error"}
  /\ written \in 0..MaxSayings /\ cutOff \in BOOLEAN
  /\ worker = "sends" => answer \in Sayings

\* What is saved is final and whole: no reply comes after it, it is what the summary was
\* made of, and it has all that the client wrote and got, but for a reply under way
\* when the pipeline had to be cancelled.
SavedTranscriptIsWhole ==
  savedTranscript # {} =>
    /\ savedTranscript = {transcript} /\ summarised \subseteq savedTranscript
    /\ cutOff \/ exchanged \subseteq Range(transcript)

-----------------------------------------------------------------------------
(* What the repository says of the program and the program does not do.     *)

\* transcript_utils.py: "avoid adding the same message content within a small time
\* window".  There is no window: an answer given twice is kept once.
EveryMessageIsRecorded ==
  Len(SelectSeq(transcript, LAMBDA m : m.role = "user")) = written

\* hangup_tool.py: "Use this function to end the phone call".  A chat goes on receiving
\* what nobody answers.
HangupEndsChat ==
  [][ending = "assistant_hangup" /\ worker = "over" => written' = written]_chatVars

\* The log line of its end: a chat that is "fully shut down" has ended its session.
ClosedChatIsEnded == handler = "over" => state # "in_flight"
=============================================================================
