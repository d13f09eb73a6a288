------------------------- MODULE Conversation_proofs -------------------------
(***************************************************************************)
(* What is proved of how a call ends, of the gate, and that a call keeps the *)
(* promises of both: every step of Conversation is a step of CallEnding or   *)
(* leaves its variables alone, and a step of VoicemailGate or leaves its     *)
(* alone.                                                                    *)
(***************************************************************************)
EXTENDS Conversation, TLAPS

-----------------------------------------------------------------------------
(* CallEnding, for any number of retries and of prompts.  That no end is     *)
(* stored with the default reason rests on the order of the frames in the    *)
(* observer's queue: as long as nothing is saved, a result of the hangup     *)
(* tool is in the queue before every EndFrame, and it is there from the      *)
(* moment the tool has run.                                                  *)

\* The idle counter stays within one of the retries: the handler was called with the
\* count it had, and only a count below the retries lets it go on watching.
Counter ==
  /\ idle = "watching" => retry <= Retries
  /\ idle = "called" => retry <= count /\ count <= Retries + 1

ResultBeforeEnd ==
  saved = "none" =>
    \A i \in 1 .. Len(queue) :
      queue[i] = "end" => \E j \in 1 .. (i - 1) : queue[j] = "result"

ResultIsQueued ==
  saved = "none" /\ tool # "idle" => \E j \in 1 .. Len(queue) : queue[j] = "result"

\* A result in the queue is the tool's, who then counts as having reported.
ResultIsOfTool ==
  (\E i \in 1 .. Len(queue) : queue[i] = "result") => HasReported("tool")

\* Reason and time are stored together, and of a handler that has run.
StoredTogether ==
  IF saved = "none" THEN time = "none" ELSE HasReported(time) /\ saved = ReasonOf[time]

CountInv == TypeOK /\ Counter
OrderInv == ResultBeforeEnd /\ ResultIsQueued /\ ReasonPrecedesEnd
ReportInv == ResultIsOfTool /\ StoredTogether

-----------------------------------------------------------------------------

LEMMA CountInit == Init => CountInv
<1> SUFFICES ASSUME Init PROVE CountInv
  OBVIOUS
<1>1. queue \in Seq({"result", "end"})
  BY DEF Init
<1>2. /\ retry \in 0 .. Retries + 1 /\ count \in 0 .. Retries + 1 /\ retry <= Retries
      /\ refusals \in 0 .. MaxRefusals
  BY RetriesAssumption, MaxRefusalsAssumption DEF Init
<1>. QED
  BY <1>1, <1>2 DEF Init, CountInv, TypeOK, Counter, Reasons

\* The actions that move the idle processor.
LEMMA CountIdle ==
  ASSUME CountInv, Idle \/ UserSpeaks
  PROVE  /\ retry' \in 0 .. Retries + 1 /\ count' \in 0 .. Retries + 1
         /\ idle' \in {"watching", "called", "final", "stopped", "dead"}
         /\ Counter'
<1> USE RetriesAssumption DEF CountInv, TypeOK, Counter
<1>1. CASE IdleFires
  BY <1>1 DEF IdleFires
<1>2. CASE Pause
  BY <1>2 DEF Pause
<1>3. CASE Prompt
  BY <1>3 DEF Prompt
<1>4. CASE FinalPrompt
  BY <1>4 DEF FinalPrompt
<1>5. CASE IdleEnds
  BY <1>5 DEF IdleEnds
<1>6. CASE UserSpeaks
  BY <1>6 DEF UserSpeaks
<1>. QED
  BY <1>1, <1>2, <1>3, <1>4, <1>5, <1>6 DEF Idle

\* Whatever is appended to the observer's queue is a frame it looks at.
LEMMA QueueStep ==
  ASSUME TypeOK, Next
  PROVE  queue' \in Seq({"result", "end"})
<1> USE DEF TypeOK
<1>1. CASE Observe
  BY <1>1 DEF Observe
<1>2. CASE HangUp \/ RefuseHangUp
  BY <1>2 DEF HangUp, RefuseHangUp
<1>3. CASE Handlers \/ Idle
  <2>1. queue' = queue \/ queue' = Append(queue, "end")
    BY <1>3 DEF Handlers, PushEnd, PartingWordsOver, VoicemailOver, RecordDisconnect, CancelTask,
                Idle, IdleFires, Pause, Prompt, FinalPrompt, IdleEnds, EndTask, observer
  <2>. QED
    BY <2>1
<1>4. CASE DetectVoicemail \/ ClientGoes \/ UserSpeaks \/ Finish \/ EndSession
  BY <1>4 DEF DetectVoicemail, ClientGoes, UserSpeaks, Finish, EndSession, observer
<1>. QED
  BY <1>1, <1>2, <1>3, <1>4 DEF Next

LEMMA CountStep == CountInv /\ [Next]_vars => CountInv'
<1> SUFFICES ASSUME CountInv, [Next]_vars PROVE CountInv'
  OBVIOUS
<1>1. CASE UNCHANGED vars
  BY <1>1 DEF vars, observer, silence, CountInv, TypeOK, Counter
<1>2. CASE Next
  <2>1. /\ retry' \in 0 .. Retries + 1 /\ count' \in 0 .. Retries + 1
        /\ idle' \in {"watching", "called", "final", "stopped", "dead"}
        /\ Counter'
    <3>1. CASE Idle \/ UserSpeaks
      BY <3>1, CountIdle
    <3>2. CASE DetectVoicemail
      BY <3>2, RetriesAssumption DEF DetectVoicemail, CountInv, TypeOK, Counter
    <3>3. CASE Observe \/ HangUp \/ RefuseHangUp \/ ClientGoes \/ Handlers \/ Finish \/ EndSession
      <4>1. UNCHANGED <<idle, retry, count>>
        BY <3>3 DEF Observe, HangUp, RefuseHangUp, ClientGoes, Handlers, PushEnd, PartingWordsOver,
                    VoicemailOver, RecordDisconnect, CancelTask, Finish, EndSession, silence
      <4>. QED
        BY <4>1 DEF CountInv, TypeOK, Counter
    <3>. QED
      BY <1>2, <3>1, <3>2, <3>3 DEF Next
  <2>2. queue' \in Seq({"result", "end"})
    BY <1>2, QueueStep DEF CountInv
  <2>3. /\ reason' \in Reasons /\ saved' \in Reasons \cup {"none"}
        /\ time' \in {"none", "tool", "disconnect", "idle", "voicemail"}
        /\ tool' \in {"idle", "result", "speaking", "done"} /\ refusals' \in 0 .. MaxRefusals
        /\ voicemail' \in {"none", "speaking", "done"}
        /\ disconnect' \in {"connected", "gone", "ended", "done"}
        /\ ending' \in BOOLEAN /\ task' \in {"running", "over"}
        /\ final' \in {"none", "completed", "voicemail"}
    <3> USE DEF CountInv, TypeOK, Reasons
    <3>1. CASE Observe
      BY <3>1 DEF Observe, First
    <3>2. CASE HangUp \/ DetectVoicemail \/ ClientGoes \/ UserSpeaks
      BY <3>2 DEF HangUp, DetectVoicemail, ClientGoes, UserSpeaks, observer
    <3>3. CASE Idle
      BY <3>3 DEF Idle, IdleFires, Pause, Prompt, FinalPrompt, IdleEnds, Record, First, EndTask,
                  observer
    <3>4. CASE Handlers
      BY <3>4 DEF Handlers, PushEnd, PartingWordsOver, VoicemailOver, RecordDisconnect,
                  CancelTask, Record, First, EndTask, observer
    <3>5. CASE Finish \/ EndSession
      BY <3>5 DEF Finish, EndSession, observer
    <3>6. CASE RefuseHangUp
      BY <3>6, MaxRefusalsAssumption DEF RefuseHangUp
    <3>. QED
      BY <1>2, <3>1, <3>2, <3>3, <3>4, <3>5, <3>6 DEF Next
  <2>. QED
    BY <2>1, <2>2, <2>3 DEF CountInv, TypeOK
<1>. QED
  BY <1>1, <1>2

\* The variables keep their types; the idle counter runs at most one beyond the
\* configured retries although the user and a transfer move it too.
THEOREM TypeCorrect == Spec => []TypeOK
<1>1. CountInv => TypeOK
  BY DEF CountInv
<1>. QED
  BY <1>1, CountInit, CountStep, PTL DEF Spec

-----------------------------------------------------------------------------

LEMMA OrderInit == Init => OrderInv
BY DEF Init, OrderInv, ResultBeforeEnd, ResultIsQueued, ReasonPrecedesEnd

\* A reason that was recorded is not the default one.
LEMMA OrderRecord ==
  ASSUME OrderInv, NEW r \in Reasons \ {"pipeline_completed"}, NEW who, Record(r, who)
  PROVE  OrderInv'
<1>1. saved' # "none" /\ saved' # "pipeline_completed"
  BY DEF Record, First, OrderInv, ReasonPrecedesEnd, Reasons
<1>. QED
  BY <1>1 DEF OrderInv, ResultBeforeEnd, ResultIsQueued, ReasonPrecedesEnd

\* An EndFrame of the tool goes behind the tool's result.
LEMMA OrderEnd ==
  ASSUME TypeOK, OrderInv, tool # "idle", tool' # "idle", EndTask, saved' = saved
  PROVE  OrderInv'
<1>0. CASE queue' = queue
  BY <1>0 DEF OrderInv, ResultBeforeEnd, ResultIsQueued, ReasonPrecedesEnd
<1> SUFFICES ASSUME queue' = Append(queue, "end") PROVE OrderInv'
  BY <1>0 DEF EndTask
<1> SUFFICES ASSUME saved = "none" PROVE OrderInv'
  BY DEF OrderInv, ResultBeforeEnd, ResultIsQueued, ReasonPrecedesEnd
<1>1. PICK k \in 1 .. Len(queue) : queue[k] = "result"
  BY DEF OrderInv, ResultIsQueued
<1>2. /\ Len(queue') = Len(queue) + 1 /\ Len(queue) \in Nat
      /\ \A i \in 1 .. Len(queue) : queue'[i] = queue[i]
  BY DEF TypeOK
<1>3. ResultIsQueued'
  BY <1>1, <1>2 DEF ResultIsQueued
<1>4. ASSUME NEW i \in 1 .. Len(queue'), queue'[i] = "end"
      PROVE  \E j \in 1 .. (i - 1) : queue'[j] = "result"
  <2>1. CASE i = Len(queue) + 1
    BY <1>1, <1>2, <2>1
  <2>2. CASE i \in 1 .. Len(queue)
    <3>1. PICK j \in 1 .. (i - 1) : queue[j] = "result"
      BY <1>2, <1>4, <2>2 DEF OrderInv, ResultBeforeEnd
    <3>2. j \in 1 .. Len(queue)
      BY <1>2, <2>2
    <3>. QED
      BY <1>2, <3>1, <3>2
  <2>. QED
    BY <1>2, <2>1, <2>2
<1>. QED
  BY <1>3, <1>4 DEF OrderInv, ResultBeforeEnd, ReasonPrecedesEnd

\* The tool's result, whether it hangs up or refuses.
LEMMA OrderHangUp ==
  ASSUME TypeOK, OrderInv, HangUp \/ RefuseHangUp
  PROVE  OrderInv'
<1>1. /\ queue' = Append(queue, "result") /\ saved' = saved
      /\ Len(queue') = Len(queue) + 1 /\ Len(queue) \in Nat
      /\ queue'[Len(queue) + 1] = "result"
      /\ \A i \in 1 .. Len(queue) : queue'[i] = queue[i]
  BY DEF HangUp, RefuseHangUp, TypeOK
<1>2. ResultIsQueued'
  BY <1>1 DEF ResultIsQueued
<1>3. ASSUME saved' = "none", NEW i \in 1 .. Len(queue'), queue'[i] = "end"
      PROVE  \E j \in 1 .. (i - 1) : queue'[j] = "result"
  <2>1. i \in 1 .. Len(queue)
    BY <1>1, <1>3
  <2>2. PICK j \in 1 .. (i - 1) : queue[j] = "result"
    BY <1>1, <1>3, <2>1 DEF OrderInv, ResultBeforeEnd
  <2>3. j \in 1 .. Len(queue)
    BY <1>1, <2>1
  <2>. QED
    BY <1>1, <2>2, <2>3
<1>. QED
  BY <1>1, <1>2, <1>3 DEF OrderInv, ResultBeforeEnd, ReasonPrecedesEnd

\* An EndFrame is seen first only when something is saved.
LEMMA OrderObserve ==
  ASSUME TypeOK, OrderInv, Observe
  PROVE  OrderInv'
<1>1. CASE Head(queue) = "result"
  <2>1. saved' # "none" /\ saved' # "pipeline_completed"
    BY <1>1 DEF Observe, First, OrderInv, ReasonPrecedesEnd
  <2>. QED
    BY <2>1 DEF OrderInv, ResultBeforeEnd, ResultIsQueued, ReasonPrecedesEnd
<1>2. CASE Head(queue) = "end"
  <2>1. 1 \in 1 .. Len(queue) /\ queue[1] = "end"
    BY <1>2 DEF Observe, TypeOK
  <2>2. saved # "none"
    BY <2>1 DEF OrderInv, ResultBeforeEnd
  <2>3. saved' = saved
    BY <1>2, <2>2 DEF Observe, First
  <2>. QED
    BY <2>2, <2>3 DEF OrderInv, ResultBeforeEnd, ResultIsQueued, ReasonPrecedesEnd
<1>. QED
  BY <1>1, <1>2 DEF Observe

LEMMA OrderStep == TypeOK /\ OrderInv /\ [Next]_vars => OrderInv'
<1> SUFFICES ASSUME TypeOK, OrderInv, [Next]_vars PROVE OrderInv'
  OBVIOUS
<1>1. CASE UNCHANGED <<queue, saved, tool>>
  BY <1>1 DEF OrderInv, ResultBeforeEnd, ResultIsQueued, ReasonPrecedesEnd
<1>2. CASE Observe
  BY <1>2, OrderObserve
<1>3. CASE HangUp \/ RefuseHangUp
  BY <1>3, OrderHangUp
<1>4. CASE PushEnd \/ PartingWordsOver
  BY <1>4, OrderEnd DEF PushEnd, PartingWordsOver
<1>5. CASE VoicemailOver \/ RecordDisconnect \/ IdleEnds
  BY <1>5, OrderRecord DEF VoicemailOver, RecordDisconnect, IdleEnds, Reasons
<1>. QED
  BY <1>1, <1>2, <1>3, <1>4, <1>5
     DEF Next, Idle, Handlers, DetectVoicemail, ClientGoes, UserSpeaks, IdleFires, Pause, Prompt,
         FinalPrompt, CancelTask, Finish, EndSession, vars, observer

\* hangup_observer.py and hangup_tool.py: the default reason is never what is stored
\* for a call that one of the four handlers has ended.
THEOREM ReasonIsKnown == Spec => []ReasonPrecedesEnd
<1>1. OrderInv => ReasonPrecedesEnd
  BY DEF OrderInv
<1>. QED
  BY <1>1, TypeCorrect, OrderInit, OrderStep, PTL DEF Spec

LEMMA ReportInit == Init => ReportInv
BY DEF Init, ReportInv, ResultIsOfTool, StoredTogether

\* Who has reported stays so.
LEMMA ReportedStays ==
  ASSUME TypeOK, Next, NEW who, HasReported(who)
  PROVE  HasReported(who)'
<1> USE DEF HasReported, TypeOK
<1>1. CASE RefuseHangUp
  BY <1>1, MaxRefusalsAssumption DEF RefuseHangUp, silence
<1>2. CASE Observe \/ HangUp \/ DetectVoicemail \/ ClientGoes \/ UserSpeaks \/ Finish \/ EndSession
  BY <1>2 DEF Observe, HangUp, DetectVoicemail, ClientGoes, UserSpeaks, Finish, EndSession, silence
<1>3. CASE Idle
  BY <1>3 DEF Idle, IdleFires, Pause, Prompt, FinalPrompt, IdleEnds
<1>4. CASE Handlers
  BY <1>4 DEF Handlers, PushEnd, PartingWordsOver, VoicemailOver, RecordDisconnect, CancelTask,
              silence
<1>. QED
  BY <1>1, <1>2, <1>3, <1>4 DEF Next

\* Whatever comes into the queue as a result, the tool has put there.
LEMMA ResultStep ==
  ASSUME TypeOK, ResultIsOfTool, Next
  PROVE  ResultIsOfTool'
<1>1. CASE HangUp \/ RefuseHangUp
  BY <1>1 DEF HangUp, RefuseHangUp, HasReported, ResultIsOfTool, TypeOK
<1>2. CASE Observe
  <2>1. /\ Len(queue') = Len(queue) - 1 /\ Len(queue) \in Nat
        /\ \A i \in 1 .. Len(queue') : queue'[i] = queue[i + 1]
    BY <1>2 DEF Observe, TypeOK
  <2>2. (\E i \in 1 .. Len(queue') : queue'[i] = "result")
          => \E i \in 1 .. Len(queue) : queue[i] = "result"
    BY <2>1
  <2>. QED
    BY <1>2, <2>2, ReportedStays DEF ResultIsOfTool
<1>3. ASSUME queue' = queue \/ queue' = Append(queue, "end") PROVE ResultIsOfTool'
  <2>1. /\ Len(queue) \in Nat
        /\ Len(queue') = Len(queue) \/ (Len(queue') = Len(queue) + 1 /\ queue'[Len(queue')] = "end")
        /\ \A i \in 1 .. Len(queue) : queue'[i] = queue[i]
    BY <1>3 DEF TypeOK
  <2>2. (\E i \in 1 .. Len(queue') : queue'[i] = "result")
          => \E i \in 1 .. Len(queue) : queue[i] = "result"
    BY <2>1
  <2>. QED
    BY <2>2, ReportedStays DEF ResultIsOfTool
<1>4. CASE DetectVoicemail \/ ClientGoes \/ UserSpeaks \/ Idle \/ Handlers \/ Finish \/ EndSession
  <2>1. queue' = queue \/ queue' = Append(queue, "end")
    BY <1>4 DEF DetectVoicemail, ClientGoes, UserSpeaks, Idle, IdleFires, Pause, Prompt, FinalPrompt,
                IdleEnds, Handlers, PushEnd, PartingWordsOver, VoicemailOver, RecordDisconnect,
                CancelTask, Finish, EndSession, EndTask, observer
  <2>. QED
    BY <1>3, <2>1
<1>. QED
  BY <1>1, <1>2, <1>4 DEF Next

\* A handler's record is stored whole or not at all.
LEMMA StoredByRecord ==
  ASSUME TypeOK, StoredTogether, Next, NEW r \in Reasons, NEW who \in DOMAIN ReasonOf,
         Record(r, who), HasReported(who)', ReasonOf[who] = r
  PROVE  StoredTogether'
<1>1. CASE saved = "none"
  <2>1. time' = who /\ saved' = r /\ r # "none"
    BY <1>1 DEF StoredTogether, Record, First, Reasons
  <2>. QED
    BY <2>1 DEF StoredTogether
<1>2. CASE saved # "none"
  <2>1. /\ HasReported(time)' /\ saved' = saved
        /\ saved = ReasonOf[time] /\ time # "none"
    BY <1>2, ReportedStays DEF StoredTogether, Record, First, HasReported
  <2>2. time' = time
    BY <2>1 DEF Record, First
  <2>. QED
    BY <1>2, <2>1, <2>2 DEF StoredTogether
<1>. QED
  BY <1>1, <1>2

LEMMA StoredStep ==
  ASSUME TypeOK, OrderInv, ReportInv, Next
  PROVE  StoredTogether'
<1>1. CASE VoicemailOver
  BY <1>1, StoredByRecord DEF VoicemailOver, HasReported, ReasonOf, Reasons, ReportInv
<1>2. CASE RecordDisconnect
  BY <1>2, StoredByRecord DEF RecordDisconnect, HasReported, ReasonOf, Reasons, ReportInv
<1>3. CASE IdleEnds
  BY <1>3, StoredByRecord DEF IdleEnds, HasReported, ReasonOf, Reasons, ReportInv
<1>4. CASE Observe
  <2>1. CASE saved # "none"
    <3>1. /\ saved' = saved /\ time # "none"
          /\ HasReported(time)' /\ saved = ReasonOf[time]
      BY <1>4, <2>1, ReportedStays DEF ReportInv, StoredTogether, Observe, First, HasReported
    <3>2. time' = time
      BY <1>4, <3>1 DEF Observe, First
    <3>. QED
      BY <2>1, <3>1, <3>2 DEF StoredTogether
  <2>2. CASE saved = "none"
    <3>1. 1 \in 1 .. Len(queue) /\ queue[1] = Head(queue)
      BY <1>4 DEF Observe, TypeOK
    <3>2. Head(queue) = "result"
      BY <1>4, <2>2, <3>1 DEF Observe, OrderInv, ResultBeforeEnd
    <3>3. HasReported("tool")'
      BY <3>1, <3>2, ReportedStays DEF ReportInv, ResultIsOfTool
    <3>4. time' = "tool" /\ saved' = "assistant_hangup"
      BY <1>4, <2>2, <3>2 DEF Observe, ReportInv, StoredTogether, First
    <3>. QED
      BY <3>3, <3>4 DEF StoredTogether, ReasonOf
  <2>. QED
    BY <2>1, <2>2
<1>5. CASE UNCHANGED <<saved, time>>
  BY <1>5, ReportedStays DEF ReportInv, StoredTogether
<1>. QED
  BY <1>1, <1>2, <1>3, <1>4, <1>5
     DEF Next, HangUp, RefuseHangUp, DetectVoicemail, ClientGoes, UserSpeaks, Idle, IdleFires, Pause,
         Prompt, FinalPrompt, Handlers, PushEnd, PartingWordsOver, CancelTask, Finish, EndSession,
         observer

LEMMA ReportStep == TypeOK /\ OrderInv /\ ReportInv /\ [Next]_vars => ReportInv'
<1>1. CASE UNCHANGED vars
  BY <1>1 DEF vars, observer, silence, ReportInv, ResultIsOfTool, StoredTogether, HasReported
<1>2. CASE Next
  BY <1>2, ResultStep, StoredStep DEF ReportInv
<1>. QED
  BY <1>1, <1>2

\* hangup_observer.py: the reason and the time stored first stay, and both are of one
\* report, which may be that of a hangup the tool refused.
THEOREM ReportStands == Spec => FirstReportStands
<1>1. ReportInv /\ ReportInv' /\ [Next]_vars
        => [/\ saved # "none" => saved' = saved
            /\ time # "none" => time' = time
            /\ saved' # "none" => HasReported(time)' /\ saved' = ReasonOf[time']]_vars
  <2> SUFFICES ASSUME ReportInv, ReportInv', Next
               PROVE  /\ saved # "none" => saved' = saved
                      /\ time # "none" => time' = time
                      /\ saved' # "none" => HasReported(time)' /\ saved' = ReasonOf[time']
    OBVIOUS
  <2>1. (saved # "none" => saved' = saved) /\ (time # "none" => time' = time)
    BY DEF Next, Observe, HangUp, RefuseHangUp, DetectVoicemail, ClientGoes, UserSpeaks, Idle,
           IdleFires, Pause, Prompt, FinalPrompt, IdleEnds, Handlers, PushEnd, PartingWordsOver,
           VoicemailOver, RecordDisconnect, CancelTask, Finish, EndSession, Record, First, observer
  <2>2. saved' # "none" => HasReported(time)' /\ saved' = ReasonOf[time']
    BY DEF ReportInv, StoredTogether, ReasonOf
  <2>. QED
    BY <2>1, <2>2
<1>. QED
  BY <1>1, TypeCorrect, OrderInit, OrderStep, ReportInit, ReportStep, PTL DEF Spec, FirstReportStands

-----------------------------------------------------------------------------
(* VoicemailGate.  UndecidedIsGated is inductive given the types: every      *)
(* action that opens the gate while nothing is decided also enters the state *)
(* that excuses it, and every action that leaves such a state closes the     *)
(* gate.                                                                     *)

\* The variables keep their types; the detector's task and its handler act only on
\* a decision.  For any number of prompts waiting at once.
THEOREM GateTypeCorrect == GateSpec => []GateTypeOK
<1>1. GateInit => GateTypeOK
  <2>1. GateInit => prompts \in 0 .. MaxPrompts
    BY MaxPromptsAssumption DEF GateInit
  <2>. QED
    BY <2>1 DEF GateInit, GateTypeOK
<1>2. GateTypeOK /\ [GateNext]_gateVars => GateTypeOK'
  <2> SUFFICES ASSUME GateTypeOK, [GateNext]_gateVars PROVE GateTypeOK'
    OBVIOUS
  <2> USE MaxPromptsAssumption DEF GateTypeOK
  <2>1. ASSUME NEW d \in {"conversation", "voicemail"}, Decide(d) PROVE GateTypeOK'
    BY <2>1 DEF Decide
  <2>2. CASE OpenGate
    BY <2>2 DEF OpenGate
  <2>3. CASE VoicemailDetected
    BY <2>3 DEF VoicemailDetected
  <2>4. CASE SpeakFirst
    BY <2>4 DEF SpeakFirst
  <2>5. CASE FirstOver
    BY <2>5 DEF FirstOver
  <2>6. CASE SpeakPrompt
    <3>1. prompts' \in 0 .. MaxPrompts
      BY <2>6 DEF SpeakPrompt
    <3>. QED
      BY <2>6, <3>1 DEF SpeakPrompt
  <2>7. CASE SpeakOver
    <3>1. prompts' \in 0 .. MaxPrompts
      BY <2>7 DEF SpeakOver
    <3>. QED
      BY <2>7, <3>1 DEF SpeakOver
  <2>8. CASE UNCHANGED gateVars
    BY <2>8 DEF gateVars
  <2>. QED
    BY <2>1, <2>2, <2>3, <2>4, <2>5, <2>6, <2>7, <2>8 DEF GateNext
<1>. QED
  BY <1>1, <1>2, PTL DEF GateSpec

\* base_transport_service.py and idle_handler.py: until the classifier has decided,
\* only the first message and idle prompts are heard, however many prompts overlap.
THEOREM UndecidedSpeechIsGated == GateSpec => []UndecidedIsGated
<1>1. GateInit => UndecidedIsGated
  BY DEF GateInit, UndecidedIsGated
<1>2. GateTypeOK /\ UndecidedIsGated /\ [GateNext]_gateVars => UndecidedIsGated'
  <2> SUFFICES ASSUME GateTypeOK, UndecidedIsGated, [GateNext]_gateVars PROVE UndecidedIsGated'
    OBVIOUS
  <2> USE MaxPromptsAssumption DEF GateTypeOK, UndecidedIsGated
  <2>1. ASSUME NEW d \in {"conversation", "voicemail"}, Decide(d) PROVE UndecidedIsGated'
    BY <2>1 DEF Decide
  <2>2. CASE OpenGate
    BY <2>2 DEF OpenGate
  <2>3. CASE VoicemailDetected
    BY <2>3 DEF VoicemailDetected
  <2>4. CASE SpeakFirst
    BY <2>4 DEF SpeakFirst
  <2>5. CASE FirstOver
    BY <2>5 DEF FirstOver
  <2>6. CASE SpeakPrompt
    BY <2>6 DEF SpeakPrompt
  <2>7. CASE SpeakOver
    \* The event is set only for a voicemail, which is a decision.
    <3>1. decision = "none" => ~event
      OBVIOUS
    <3>. QED
      BY <2>7, <3>1 DEF SpeakOver
  <2>8. CASE UNCHANGED gateVars
    BY <2>8 DEF gateVars
  <2>. QED
    BY <2>1, <2>2, <2>3, <2>4, <2>5, <2>6, <2>7, <2>8 DEF GateNext
<1>. QED
  BY <1>1, <1>2, GateTypeCorrect, PTL DEF GateSpec

\* idle_handler.py: a prompt's late task, and a first message that ends late, leave
\* the gate to the voicemail message.
THEOREM VoicemailMessageKeepsGate == GateSpec => VoicemailKeepsGate
<1>1. GateTypeOK /\ [GateNext]_gateVars => [event /\ gate' => gate]_gateVars
  <2> SUFFICES ASSUME GateTypeOK, GateNext, event, gate' PROVE gate
    OBVIOUS
  <2>1. event' /\ decision = "voicemail"
    BY DEF GateTypeOK, GateNext, Decide, OpenGate, VoicemailDetected, SpeakFirst, FirstOver, SpeakPrompt,
           SpeakOver
  <2>. QED
    BY <2>1 DEF GateTypeOK, GateNext, Decide, OpenGate, VoicemailDetected, SpeakFirst, FirstOver,
                SpeakPrompt, SpeakOver
<1>. QED
  BY <1>1, GateTypeCorrect, PTL DEF GateSpec, VoicemailKeepsGate

-----------------------------------------------------------------------------
(* Conversation: a call ending and a gate.                                    *)

LEMMA ConversationStep == [ConversationNext]_allVars => [Next]_vars /\ [GateNext]_gateVars
<1> SUFFICES ASSUME [ConversationNext]_allVars PROVE [Next]_vars /\ [GateNext]_gateVars
  OBVIOUS
<1>1. CASE IdlePrompt
  BY <1>1 DEF IdlePrompt, Next, Idle, GateNext
<1>2. CASE IdleQuiet
  BY <1>2 DEF IdleQuiet, Next, Idle
<1>3. CASE OnVoicemailDetected
  BY <1>3 DEF OnVoicemailDetected, Next, GateNext
<1>4. CASE CallOnly
  BY <1>4 DEF CallOnly, Next
<1>5. CASE GateOnly
  BY <1>5 DEF GateOnly, GateNext
<1>6. CASE UNCHANGED allVars
  BY <1>6 DEF allVars
<1>. QED
  BY <1>1, <1>2, <1>3, <1>4, <1>5, <1>6 DEF ConversationNext

\* The idle handler and on_voicemail_detected belong to both parts and keep the rules
\* of both.
THEOREM ConversationImplements == ConversationSpec => Spec /\ GateSpec
<1>1. ConversationInit => Init /\ GateInit
  BY DEF ConversationInit
<1>. QED
  BY <1>1, ConversationStep, PTL DEF ConversationSpec, Spec, GateSpec

\* So a whole call, for any number of retries, prompts and waiting tasks, is never stored
\* with the default reason, and is heard before the decision only in its first message
\* and its idle prompts.
THEOREM ConversationIsSafe == ConversationSpec => []ReasonPrecedesEnd /\ []UndecidedIsGated
BY ConversationImplements, ReasonIsKnown, UndecidedSpeechIsGated, PTL
=============================================================================
