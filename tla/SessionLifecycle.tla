--------------------------- MODULE SessionLifecycle ---------------------------
(***************************************************************************)
(* The life of one call session in the voice-agent backend: its document   *)
(* in the `sessions` collection, its document in the `logs` collection,    *)
(* and the coroutines that write them.  Every `await` on the database is a *)
(* step of its own, so a handler that reads a document, thinks, and writes *)
(* it back does so in two steps, with whatever other handlers do between.  *)
(*                                                                         *)
(* Pipelines are the WebSocket connections that serve the session (consume *)
(* the configuration, run the pipeline, end the session, save the          *)
(* artifacts).  Callbacks are the provider's requests that report how a    *)
(* leg of the call ended (Plivo /hangup, Twilio /status-callback).         *)
(***************************************************************************)
EXTENDS Naturals

CONSTANTS Pipelines,   \* connections that may be opened on the session
          Callbacks,   \* provider callbacks that may be delivered for it
          Provider     \* which provider carries the call: "plivo" or "twilio"

ASSUME HandlersAssumption == Pipelines \cap Callbacks = {}
ASSUME ProviderAssumption == Provider \in {"plivo", "twilio"}

Handlers == Pipelines \cup Callbacks

-----------------------------------------------------------------------------
(* The documents.                                                           *)

Outcomes == {"completed", "error", "missed_call", "busy", "failed", "voicemail"}
States   == {"preflight", "in_flight"} \cup Outcomes

\* The keys of session.metadata that the handlers write: what run_pipeline
\* merges in, the provider's call report, whether that report has a duration,
\* and the flag of a warm transfer in progress.
MetaKeys == {"pipeline", "call", "duration", "warm"}

\* The artifacts of the log: what create_session stores, and what the artifact
\* manager of a finished pipeline adds (transcript, metrics, audio, ...).
Artifacts == {"agent_configuration", "call_artifacts"}
Durations == {"none", "computed", "provider"}

Session == [state : States, ended : BOOLEAN, meta : SUBSET MetaKeys]
Log     == [state : States, content : SUBSET Artifacts, duration : Durations]

NoSession == [state |-> "absent", ended |-> FALSE, meta |-> {}]
NoLog     == [state |-> "absent", content |-> {}, duration |-> "none"]

-----------------------------------------------------------------------------
(* What a provider reports, and the state each handler makes of it.         *)

Reports == [cause : IF Provider = "plivo"
                      THEN {"no_answer", "busy", "invalid", "normal_clearing", "other"}
                      ELSE {"no_answer", "busy", "failed", "completed", "other"},
            talked : BOOLEAN]     \* a positive (Plivo) or present (Twilio) duration

CauseState == [no_answer |-> "missed_call", busy |-> "busy", invalid |-> "failed",
               failed |-> "failed", completed |-> "completed"]

\* The new state of a session whose snapshot is in state current; a report that
\* says nothing leaves it.
HangupState(r, current) ==
  IF r.cause \in DOMAIN CauseState THEN CauseState[r.cause]
  ELSE IF r.talked /\ r.cause = "normal_clearing" THEN "completed"
  ELSE IF ~r.talked THEN "missed_call" ELSE current

StatusState(r, current) ==
  IF r.cause \in DOMAIN CauseState THEN CauseState[r.cause] ELSE current

ReportedState(r, current) ==
  IF Provider = "plivo" THEN HangupState(r, current) ELSE StatusState(r, current)

\* The duration handed to update_session_state, when there is one.
ReportsDuration(r) ==
  r.talked /\ (Provider = "plivo" \/ r.cause = "completed")

\* Plivo always stores an integer duration, Twilio only that of a completed call.
CallKeys(hasDuration) ==
  IF Provider = "plivo" \/ hasDuration THEN {"call", "duration"} ELSE {"call"}

-----------------------------------------------------------------------------
VARIABLES
  session,   \* the document in `sessions`, NoSession before it is inserted
  log,       \* the document in `logs`
  creator,   \* where create_session is
  pc,        \* where each handler is
  mem,       \* the locals of each handler: the session document and the log
             \* content it last read, and the state it is about to write
  how,       \* how each pipeline's run ended
  timed      \* whether each callback was told a duration

vars == <<session, log, creator, pc, mem, how, timed>>

Locals == [snap : Session \cup {NoSession}, content : SUBSET Artifacts,
           goal : States \cup {"none"}]
Fresh  == [snap |-> NoSession, content |-> {}, goal |-> "none"]

\* Points at which a handler is not running.
Rest == {"idle", "refused", "aborted", "crashed", "done"}

\* Points of a pipeline between taking the configuration and closing the session.
Consuming == {"read_config", "consume", "consume_log", "consume_merge"}
Starting  == {"setup", "setup_write", "starting"}
Closing   == {"check_transfer", "end_session"}
Ending    == {"end_log", "reread", "final_read", "artifacts", "artifacts_merge"}
PipelinePoints == Rest \cup Consuming \cup Starting \cup {"running"} \cup Closing \cup Ending
CallbackPoints == Rest \cup {"report_session", "report_log"}

\* From the write of IN_FLIGHT to the write of the final state.
Serving == {"consume_log", "consume_merge", "running"} \cup Starting \cup Closing

TypeOK ==
  /\ session \in Session \cup {NoSession}
  /\ log \in Log \cup {NoLog}
  /\ creator \in {"start", "logging", "done", "refused", "failed"}
  /\ pc \in [Handlers -> PipelinePoints \cup CallbackPoints]
  /\ \A p \in Pipelines : pc[p] \in PipelinePoints
  /\ \A c \in Callbacks : pc[c] \in CallbackPoints
  /\ mem \in [Handlers -> Locals]
  /\ how \in [Pipelines -> {"none", "normal", "cancelled", "error", "transferred", "unended"}]
  /\ timed \in [Callbacks -> BOOLEAN]

Init ==
  /\ session = NoSession
  /\ log = NoLog
  /\ creator = "start"
  /\ pc = [h \in Handlers |-> "idle"]
  /\ mem = [h \in Handlers |-> Fresh]
  /\ how = [p \in Pipelines |-> "none"]
  /\ timed = [c \in Callbacks |-> FALSE]

Go(h, from, to) == pc[h] = from /\ pc' = [pc EXCEPT ![h] = to]
Read(h)   == mem' = [mem EXCEPT ![h].snap = session]
Forget(h) == mem' = [mem EXCEPT ![h] = Fresh]     \* its locals are out of scope

-----------------------------------------------------------------------------
(* create_session: insert the session, then save its first log.             *)

\* The overrides are invalid or Do Not Disturb blocks the call: nothing is stored.
RefuseSession ==
  /\ creator = "start"
  /\ creator' = "refused"
  /\ UNCHANGED <<session, log, pc, mem, how, timed>>

InsertSession ==
  /\ creator = "start"
  /\ session' = [state |-> "preflight", ended |-> FALSE, meta |-> {}]
  /\ creator' = "logging"
  /\ UNCHANGED <<log, pc, mem, how, timed>>

\* Nobody else knows the session id yet, so the read and the write of this save
\* are one step.
SaveFirstLog ==
  /\ creator = "logging"
  /\ log' = [state |-> "preflight", content |-> {"agent_configuration"}, duration |-> "none"]
  /\ creator' = "done"
  /\ UNCHANGED <<session, pc, mem, how, timed>>

\* The save raises: the caller gets an error and the id is never handed out.
FailFirstLog ==
  /\ creator = "logging"
  /\ creator' = "failed"
  /\ UNCHANGED <<session, log, pc, mem, how, timed>>

Create == RefuseSession \/ InsertSession \/ SaveFirstLog \/ FailFirstLog

-----------------------------------------------------------------------------
(* get_and_consume_config: every branch depends on the snapshot read first. *)

\* Mutant: the session is not required to exist.
ConnectUnchecked(p) ==
  /\ Go(p, "idle", "read_config")
  /\ Read(p)
  /\ UNCHANGED <<session, log, creator, how, timed>>

Connect(p) ==
  /\ creator = "done"
  /\ Go(p, "idle", "read_config")
  /\ Read(p)
  /\ UNCHANGED <<session, log, creator, how, timed>>

\* The configuration comes from the log; when that read fails, from the
\* Assistant API.  A session the snapshot shows in PREFLIGHT is consumed, any
\* other is served as it is.  (Filling in a missing transport or provider id
\* touches no field of this model.)
TakeConfig(p) ==
  /\ \/ mem[p].snap.state = "preflight" /\ Go(p, "read_config", "consume")
     \/ mem[p].snap.state # "preflight" /\ Go(p, "read_config", "setup")
  /\ Forget(p)
  /\ UNCHANGED <<session, log, creator, how, timed>>

\* The overrides do not merge, or the fallback request fails: no configuration.
RefuseConfig(p) ==
  /\ Go(p, "read_config", "refused")
  /\ Forget(p)
  /\ UNCHANGED <<session, log, creator, how, timed>>

ConsumeSession(p) ==
  /\ Go(p, "consume", "consume_log")
  /\ session' = [session EXCEPT !.state = "in_flight"]
  /\ UNCHANGED <<log, creator, mem, how, timed>>

\* save_session_artifacts_log: find_one, merge, update_one.
ReadLog(p, from, to) ==
  /\ Go(p, from, to)
  /\ mem' = [mem EXCEPT ![p].content = log.content]
  /\ UNCHANGED <<session, log, creator, how, timed>>

ConsumeReadLog(p) == ReadLog(p, "consume_log", "consume_merge")

\* Mutant: the log gets the state of the snapshot (PREFLIGHT) instead of IN_FLIGHT.
ConsumeWriteLogStale(p) ==
  /\ Go(p, "consume_merge", "setup")
  /\ log' = [log EXCEPT !.state = "preflight",
                        !.content = mem[p].content \cup {"agent_configuration"}]
  /\ Forget(p)
  /\ UNCHANGED <<session, creator, how, timed>>

ConsumeWriteLog(p) ==
  /\ Go(p, "consume_merge", "setup")
  /\ log' = [log EXCEPT !.state = "in_flight",
                        !.content = mem[p].content \cup {"agent_configuration"}]
  /\ Forget(p)
  /\ UNCHANGED <<session, creator, how, timed>>

-----------------------------------------------------------------------------
(* run_pipeline up to PipelineRunner.run.                                   *)

SetupRead(p) ==
  /\ Go(p, "setup", "setup_write")
  /\ Read(p)
  /\ UNCHANGED <<session, log, creator, how, timed>>

\* The metadata of the snapshot is merged with the pipeline's own and written
\* back whole.
SetupWrite(p) ==
  /\ Go(p, "setup_write", "starting")
  /\ session' = [session EXCEPT !.meta = mem[p].snap.meta \cup {"pipeline"}]
  /\ Forget(p)
  /\ UNCHANGED <<log, creator, how, timed>>

Start(p) ==
  /\ Go(p, "starting", "running")
  /\ UNCHANGED <<session, log, creator, mem, how, timed>>

\* No start message or stream id, or a service cannot be built: the exception
\* leaves run_pipeline and the WebSocket is closed.
AbortSetup(p) ==
  /\ pc[p] \in Starting
  /\ pc' = [pc EXCEPT ![p] = "aborted"]
  /\ Forget(p)
  /\ UNCHANGED <<session, log, creator, how, timed>>

-----------------------------------------------------------------------------
(* The end of the run: warm-transfer check, end_session, artifacts.         *)

Decide(p, h, s) ==
  /\ how' = [how EXCEPT ![p] = h]
  /\ mem' = [mem EXCEPT ![p].goal = s]

\* A normal end and a cancellation choose VOICEMAIL or COMPLETED by the reason
\* the hangup observer holds, and first look for a transfer in progress.
FinishRun(p) ==
  /\ Go(p, "running", "check_transfer")
  /\ \E h \in {"normal", "cancelled"}, s \in {"completed", "voicemail"} : Decide(p, h, s)
  /\ UNCHANGED <<session, log, creator, timed>>

\* Mutant: the error path goes to the artifacts without ending the session.
FailRunUnclosed(p) ==
  /\ Go(p, "running", "final_read")
  /\ Decide(p, "error", "error")
  /\ UNCHANGED <<session, log, creator, timed>>

\* An exception out of the runner ends the session in ERROR, transfer or not.
FailRun(p) ==
  /\ Go(p, "running", "end_session")
  /\ Decide(p, "error", "error")
  /\ UNCHANGED <<session, log, creator, timed>>

\* With warm_transfer_active set the coroutine returns without ending the
\* session; its inner finally still saves the artifacts.
CheckTransfer(p) ==
  /\ \/ /\ "warm" \in session.meta
        /\ Go(p, "check_transfer", "final_read")
        /\ how' = [how EXCEPT ![p] = "transferred"]
     \/ /\ "warm" \notin session.meta
        /\ Go(p, "check_transfer", "end_session")
        /\ UNCHANGED how
  /\ UNCHANGED <<session, log, creator, mem, timed>>

\* Mutant: a session that a callback already closed is not ended again.
EndSessionIfOpen(p) ==
  /\ Go(p, "end_session", IF session.state = "in_flight" THEN "end_log" ELSE "reread")
  /\ session' = IF session.state = "in_flight"
                THEN [session EXCEPT !.state = mem[p].goal, !.ended = TRUE] ELSE session
  /\ UNCHANGED <<log, creator, mem, how, timed>>

EndSession(p) ==
  /\ Go(p, "end_session", "end_log")
  /\ session' = [session EXCEPT !.state = mem[p].goal, !.ended = TRUE]
  /\ UNCHANGED <<log, creator, mem, how, timed>>

\* Mutant: end_session leaves the log to the artifact manager.
EndLogUnwritten(p) ==
  /\ Go(p, "end_log", "reread")
  /\ UNCHANGED <<session, log, creator, mem, how, timed>>

EndLog(p) ==
  /\ Go(p, "end_log", "reread")
  /\ log' = [log EXCEPT !.state = mem[p].goal]
  /\ UNCHANGED <<session, creator, mem, how, timed>>

\* A database error in the look for a transfer or in end_session.  On the normal path
\* both sit inside the try, so `except Exception` ends the session (again), in ERROR;
\* on the other paths it leaves the handler through the inner finally.
FailEnd(p) ==
  /\ pc[p] \in {"check_transfer", "end_session", "end_log", "reread"}
  /\ \/ /\ how[p] = "normal"
        /\ pc' = [pc EXCEPT ![p] = "end_session"]
        /\ Decide(p, "error", "error")
     \/ /\ how[p] # "normal"
        /\ pc' = [pc EXCEPT ![p] = "final_read"]
        /\ Decide(p, "unended", "none")
  /\ UNCHANGED <<session, log, creator, timed>>

\* The session read back by end_session or, when it did not end, by the finally.
FinalRead(p) ==
  /\ pc[p] \in {"reread", "final_read"}
  /\ pc' = [pc EXCEPT ![p] = "artifacts"]
  /\ mem' = [mem EXCEPT ![p] = [Fresh EXCEPT !.snap = session]]
  /\ UNCHANGED <<session, log, creator, how, timed>>

ArtifactsReadLog(p) == ReadLog(p, "artifacts", "artifacts_merge")

\* The provider's duration when the final session holds one, else the computed
\* one; none (excluded from the update) when the session has no end time.
FinalDuration(s, old) ==
  IF "duration" \in s.meta THEN "provider"
  ELSE IF s.ended THEN "computed" ELSE old

ArtifactsWriteLog(p) ==
  /\ Go(p, "artifacts_merge", "done")
  /\ log' = [state    |-> mem[p].snap.state,
             content  |-> mem[p].content \cup Artifacts,
             duration |-> FinalDuration(mem[p].snap, log.duration)]
  /\ Forget(p)
  /\ UNCHANGED <<session, creator, how, timed>>

\* A generator (an S3 upload of the session log, say) or the save raises; the
\* finally logs it and goes on.
FailArtifacts(p) ==
  /\ pc[p] \in {"final_read", "artifacts", "artifacts_merge"}
  /\ pc' = [pc EXCEPT ![p] = "done"]
  /\ Forget(p)
  /\ UNCHANGED <<session, log, creator, how, timed>>

-----------------------------------------------------------------------------
(* The provider's callbacks.                                                *)

\* The handler reads the session and decides; a report that leaves the state of
\* the snapshot as it is stores nothing at all.
Deliver(c) ==
  /\ creator = "done"
  /\ pc[c] = "idle"
  /\ \E r \in Reports :
       LET new == ReportedState(r, session.state) IN
       /\ timed' = [timed EXCEPT ![c] = ReportsDuration(r)]
       /\ IF new # session.state
            THEN /\ pc' = [pc EXCEPT ![c] = "report_session"]
                 /\ mem' = [mem EXCEPT ![c] = [Fresh EXCEPT !.snap = session, !.goal = new]]
            ELSE /\ pc' = [pc EXCEPT ![c] = "done"]
                 /\ UNCHANGED mem
  /\ UNCHANGED <<session, log, creator, how>>

\* Mutant: every provider writes the metadata of its snapshot back.
StoreReportWhole(c) ==
  /\ Go(c, "report_session", "report_log")
  /\ session' = [session EXCEPT !.state = mem[c].goal,
                                !.meta = (mem[c].snap.meta \ {"call", "duration"})
                                            \cup CallKeys(timed[c])]
  /\ UNCHANGED <<log, creator, mem, how, timed>>

\* Plivo sets metadata.call_metadata alone; Twilio writes back the whole
\* metadata of its snapshot with the report in it.
StoreReport(c) ==
  LET base == IF Provider = "plivo" THEN session.meta ELSE mem[c].snap.meta IN
  /\ Go(c, "report_session", "report_log")
  /\ session' = [session EXCEPT !.state = mem[c].goal,
                                !.meta = (base \ {"call", "duration"}) \cup CallKeys(timed[c])]
  /\ UNCHANGED <<log, creator, mem, how, timed>>

StoreReportInLog(c) ==
  /\ Go(c, "report_log", "done")
  /\ log' = [log EXCEPT !.state = mem[c].goal,
                        !.duration = IF timed[c] THEN "provider" ELSE @]
  /\ Forget(c)
  /\ UNCHANGED <<session, creator, how, timed>>

-----------------------------------------------------------------------------
(* The environment: the transfer tool and its handlers, and crashes.        *)

\* warm_transfer is called by a running pipeline's LLM and sets the flag.
BeginTransfer ==
  /\ \E p \in Pipelines : pc[p] = "running"
  /\ "warm" \notin session.meta
  /\ session' = [session EXCEPT !.meta = @ \cup {"warm"}]
  /\ UNCHANGED <<log, creator, pc, mem, how, timed>>

\* cleanup_after_transfer, the timeout and the disconnect handlers clear it.
ClearTransfer ==
  /\ "warm" \in session.meta
  /\ session' = [session EXCEPT !.meta = @ \ {"warm"}]
  /\ UNCHANGED <<log, creator, pc, mem, how, timed>>

\* The pod dies, or a database call of the handler raises where nothing above
\* catches it.
Crash(h) ==
  /\ pc[h] \notin Rest
  /\ pc' = [pc EXCEPT ![h] = "crashed"]
  /\ Forget(h)
  /\ UNCHANGED <<session, log, creator, how, timed>>

-----------------------------------------------------------------------------
Serve(p) ==
  \/ TakeConfig(p) \/ RefuseConfig(p) \/ ConsumeSession(p)
  \/ ConsumeReadLog(p) \/ ConsumeWriteLog(p)
  \/ SetupRead(p) \/ SetupWrite(p) \/ Start(p) \/ AbortSetup(p)

Close(p) ==
  \/ CheckTransfer(p) \/ EndSession(p) \/ EndLog(p) \/ FailEnd(p) \/ FinalRead(p)
  \/ ArtifactsReadLog(p) \/ ArtifactsWriteLog(p) \/ FailArtifacts(p)

Callback(c) == Deliver(c) \/ StoreReport(c) \/ StoreReportInLog(c)

Next ==
  \/ Create
  \/ \E p \in Pipelines : Connect(p) \/ Serve(p) \/ FinishRun(p) \/ FailRun(p) \/ Close(p)
  \/ \E c \in Callbacks : Callback(c)
  \/ BeginTransfer \/ ClearTransfer
  \/ \E h \in Handlers : Crash(h)

\* Fairness: the event loop resumes a coroutine that can go on.  Connections,
\* callbacks, the end of a conversation, transfers and crashes are not promised.
Fairness ==
  /\ \A p \in Pipelines : WF_vars(Serve(p)) /\ WF_vars(Close(p))
  /\ \A c \in Callbacks : WF_vars(StoreReport(c) \/ StoreReportInLog(c))

Spec == Init /\ [][Next]_vars
FairSpec == Spec /\ Fairness

-----------------------------------------------------------------------------
(* Properties.                                                              *)

Resting == \A h \in Handlers : pc[h] \in Rest

\* A pipeline that is known to leave the session open: it failed before or
\* outside end_session, or it left the session to a warm transfer.
Excused(p) ==
  pc[p] \in {"aborted", "crashed"} \/ how[p] \in {"transferred", "unended"}

\* A session in IN_FLIGHT is being served, or some connection left it open in
\* one of those ways: end_session is reached on every other path, and a late
\* callback or a second connection cannot reopen it without serving it.
OpenSessionIsServed ==
  session.state = "in_flight" =>
    \E p \in Pipelines : pc[p] \in Serving \/ Excused(p)

\* While one connection alone has written the session (no callback stored
\* anything, nothing crashed), the log shows the session's state once it rests:
\* get_and_consume_config, end_session and save_artifacts keep the two together.
LoneLogAgrees ==
  (/\ Resting
   /\ creator = "done"
   /\ \A p, q \in Pipelines : pc[p] # "idle" /\ pc[q] # "idle" => p = q
   /\ \A p \in Pipelines : pc[p] # "crashed" /\ how[p] # "unended"
   /\ \A c \in Callbacks : pc[c] = "idle")
  => log.state = session.state

\* Once a session, or its log, has left PREFLIGHT no handler puts it back,
\* whatever stale snapshot it writes from.
NeverBackToPreflight ==
  [][/\ session.state \in States \ {"preflight"} => session'.state # "preflight"
     /\ log.state \in States \ {"preflight"} => log'.state # "preflight"]_vars

\* A provider's report never sets or clears the warm-transfer flag, although the
\* handler read the metadata before it wrote the report (dotted-path updates).
ReportsKeepTransfer ==
  [][\A c \in Callbacks :
       (pc[c] = "report_session" /\ pc'[c] = "report_log")
         => ("warm" \in session.meta <=> "warm" \in session'.meta)]_vars

\* A pipeline whose conversation is over ends the session, unless it finds a
\* transfer, the database refuses, or the pod dies.
FinishedCallIsClosed ==
  \A p \in Pipelines :
    pc[p] \in Closing ~> (session.ended \/ Excused(p))

\* The promise made to the rest of the system: SessionRecord.
serving == {p \in Pipelines : pc[p] \in Serving}
excused == {p \in Pipelines : Excused(p)}
Record == INSTANCE SessionRecord WITH state <- session.state
ImplementsRecord == Record!Spec

-----------------------------------------------------------------------------
(* What the repository says of the program and the program does not do.     *)

\* docs/SESSION_MANAGEMENT.md: COMPLETED, ERROR, MISSED_CALL, BUSY and FAILED
\* are terminal states.
TerminalStateIsFinal ==
  [][session.state \in Outcomes => session'.state \in {session.state, "in_flight"}]_vars

\* session_manager.py: "If session is already in a final state (COMPLETED,
\* ERROR, etc.), don't change it".
ConsumeKeepsFinalState ==
  [][session.state \in Outcomes => session'.state # "in_flight"]_vars

\* docs/TELEPHONY_FLOWS.md: IN_FLIGHT --> ERROR on an exception.  Here, one
\* connection that failed before its pipeline ran, and nothing else.
FailedSetupIsRecorded ==
  (Resting /\ \E p \in Pipelines : pc[p] = "aborted") => session.state # "in_flight"

\* artifact_manager.py: the provider's duration has priority and the computed
\* one is a fallback until the callback arrives.  Once everything rests, a
\* report with a duration must show in the log.
ProviderDurationPreferred ==
  (Resting /\ \E c \in Callbacks : pc[c] = "done" /\ timed[c])
    => log.duration # "computed"

\* docs/DATABASE_COLLECTIONS_STRUCTURE.md: the log's session_state is the final
\* state of the session.
LogShowsFinalState ==
  (Resting /\ session.state \in Outcomes /\ \A h \in Handlers : pc[h] # "crashed")
    => log.state = session.state
=============================================================================
