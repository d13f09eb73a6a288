----------------------------- MODULE WarmTransfer -----------------------------
(***************************************************************************)
(* A warm transfer of a Plivo call: the agent's tool puts the customer on  *)
(* hold and dials a supervisor; when the supervisor answers both legs go to *)
(* a conference; when a leg hangs up, or nobody answers within a minute,    *)
(* the other leg is hung up.  The parts that do this run on several pods    *)
(* and share three fields of session.metadata and nothing else:             *)
(*                                                                         *)
(*   warm_transfer       the tool, in the pipeline on pod Home;             *)
(*   timeout_handler     the timer, in memory of pod Home;                  *)
(*   /conference-join    the handler of the supervisor's answer, any pod;   *)
(*   /hangup             the handler of each leg's end, any pod.            *)
(*                                                                         *)
(* One transfer is modelled, and one callback for each leg's end.           *)
(***************************************************************************)
EXTENDS Naturals, FiniteSets

CONSTANTS Pods, Home,
          Failures    \* which failures the environment may inflict

Kinds == {"dial",          \* the provider refuses the supervisor's call
          "redirect",      \* the provider refuses to move the customer
          "hangup",        \* the provider refuses to hang up a leg or the conference
          "database",      \* a write, or the read of /conference-join, raises
          "blank",         \* a hangup callback comes without its CallUUID
          "slow",          \* the tool's two writes take longer than the answer
          "cancel_tool",   \* the tool is cancelled with its pipeline
          "crash"}         \* pod Home dies

ASSUME PodsAssumption == Home \in Pods
ASSUME FailuresAssumption == Failures \subseteq Kinds

Handlers == {"join", "supervisor", "customer"}
Hangups  == {"supervisor", "customer"}

VARIABLES
  meta,        \* the shared fields: warm_transfer_active, whether
               \* supervisor_call_uuid is stored, whether a deadline is
  state,       \* the state of the session
  tool,        \* where the tool is
  timer,       \* where the timer is
  early,       \* the handlers in progress when the timer was started
  customer,    \* where the customer's leg is
  supervisor,  \* where the supervisor's leg is
  agent,       \* the pipeline the customer talked to
  pc, pod,     \* where each handler is, and on which pod
  mem          \* what each hangup handler made of the session it read

env == <<customer, supervisor, agent>>
handlers == <<pc, pod, mem>>
vars == <<meta, state, tool, timer, early, env, handlers>>

SupervisorOn == {"ringing", "answered", "conference"}
ToolRuns  == {"flag", "hold", "dial", "store", "deadline", "start"}
TimerRuns == {"waiting", "cut_supervisor", "cut_customer", "clear"}
Cleaning  == {"cancel", "mark", "notify", "clear"}
Rest      == {"idle", "done", "lost"}

Meta == [active : BOOLEAN, sup : BOOLEAN, deadline : BOOLEAN]
Mem  == [leg : {"none", "supervisor", "customer"},
         state : {"none", "in_flight", "completed", "missed_call"}]

TypeOK ==
  /\ meta \in Meta
  /\ state \in {"in_flight", "completed", "missed_call"}
  /\ tool \in ToolRuns \cup {"idle", "done", "lost"}
  /\ timer \in TimerRuns \cup {"none", "over"}
  /\ early \subseteq Handlers
  /\ customer \in {"agent", "hold", "conference", "gone"}
  /\ supervisor \in SupervisorOn \cup {"none", "unanswered", "left"}
  /\ agent \in {"running", "left", "closed", "lost"}
  /\ pc \in [Handlers -> Rest \cup Cleaning \cup {"redirect", "respond", "respond_clean", "report"}]
  /\ pod \in [Handlers -> Pods]
  /\ mem \in [Handlers -> Mem]

Init ==
  /\ meta = [active |-> FALSE, sup |-> FALSE, deadline |-> FALSE]
  /\ state = "in_flight"
  /\ tool = "idle" /\ timer = "none" /\ early = {}
  /\ customer = "agent" /\ supervisor = "none" /\ agent = "running"
  /\ pc = [h \in Handlers |-> "idle"]
  /\ pod = [h \in Handlers |-> Home]
  /\ mem = [h \in Handlers |-> [leg |-> "none", state |-> "none"]]

\* A write of metadata; an exception is logged and the handler goes on.
Write(m) == meta' = m \/ ("database" \in Failures /\ UNCHANGED meta)

GoTool(from, to) == tool = from /\ tool' = to
Go(h, from, to)  == pc[h] = from /\ pc' = [pc EXCEPT ![h] = to]

\* The supervisor's leg when it has ended; a leg that is gone stays so.
SupervisorLeft ==
  IF supervisor = "ringing" THEN "unanswered"
  ELSE IF supervisor \in SupervisorOn THEN "left" ELSE supervisor

\* The provider is asked to hang it up; a refusal is logged and not repeated.
CutSupervisorLeg ==
  supervisor' = SupervisorLeft \/ ("hangup" \in Failures /\ UNCHANGED supervisor)

\* Everyone in the conference is hung up; when there is no conference, or the
\* provider refuses, the customer's own call is hung up instead, if that is not
\* refused too.
HangUpTransfer ==
  \/ /\ "conference" \in {customer, supervisor}
     /\ customer' = IF customer = "conference" THEN "gone" ELSE customer
     /\ supervisor' = IF supervisor = "conference" THEN "left" ELSE supervisor
  \/ /\ "conference" \in {customer, supervisor} => "hangup" \in Failures
     /\ customer' = "gone" \/ ("hangup" \in Failures /\ UNCHANGED customer)
     /\ UNCHANGED supervisor

-----------------------------------------------------------------------------
(* The tool.                                                                *)

Begin ==
  /\ GoTool("idle", "flag")
  /\ agent = "running" /\ customer = "agent"
  /\ UNCHANGED <<meta, state, timer, early, env, handlers>>

SetFlag ==
  /\ GoTool("flag", "hold")
  /\ Write([meta EXCEPT !.active = TRUE])
  /\ UNCHANGED <<state, timer, early, env, handlers>>

\* A refusal by the provider is noted in the result and the tool goes on.
Hold ==
  /\ GoTool("hold", "dial")
  /\ customer' = IF customer = "agent" THEN "hold" ELSE customer
  /\ UNCHANGED <<meta, state, timer, early, supervisor, agent, handlers>>

Dial ==
  /\ GoTool("dial", "store")
  /\ supervisor' = "ringing"
  /\ UNCHANGED <<meta, state, timer, early, customer, agent, handlers>>

\* CallControlError: the tool reports an error and is done; the flag stays.
FailDial ==
  /\ "dial" \in Failures
  /\ GoTool("dial", "done")
  /\ UNCHANGED <<meta, state, timer, early, env, handlers>>

\* An exception skips the timer too.
StoreSupervisor ==
  /\ \/ /\ GoTool("store", "deadline")
        /\ meta' = [meta EXCEPT !.active = TRUE, !.sup = TRUE]
     \/ /\ "database" \in Failures
        /\ GoTool("store", "done")
        /\ UNCHANGED meta
  /\ UNCHANGED <<state, timer, early, env, handlers>>

\* Mutant: the deadline is kept in the timer only.
StoreDeadlineNot ==
  /\ GoTool("deadline", "start")
  /\ UNCHANGED <<meta, state, timer, early, env, handlers>>

StoreDeadline ==
  /\ GoTool("deadline", "start")
  /\ Write([meta EXCEPT !.deadline = TRUE])
  /\ UNCHANGED <<state, timer, early, env, handlers>>

StartTimer ==
  /\ GoTool("start", "done")
  /\ timer' = "waiting"
  /\ early' = {h \in Handlers : pc[h] \notin Rest}
  /\ UNCHANGED <<meta, state, env, handlers>>

\* The customer's stream ended, and the LLM service cancels its function calls.
CancelTool ==
  /\ "cancel_tool" \in Failures
  /\ tool \in ToolRuns /\ agent # "running"
  /\ tool' = "lost"
  /\ UNCHANGED <<meta, state, timer, early, env, handlers>>

Tool ==
  Begin \/ SetFlag \/ Hold \/ Dial \/ FailDial \/ StoreSupervisor \/ StoreDeadline
  \/ StartTimer \/ CancelTool

-----------------------------------------------------------------------------
(* The timer.                                                               *)

\* Sixty seconds have passed.  A handler finishes within some ten seconds, so
\* those that were in progress when the timer was started are done by then; it
\* is the only use of time in the model.
Fire ==
  /\ timer = "waiting"
  /\ \A h \in early : pc[h] \in Rest
  /\ timer' = IF meta.active /\ meta.deadline THEN "cut_supervisor" ELSE "over"
  /\ UNCHANGED <<meta, state, tool, early, env, handlers>>

\* The supervisor's uuid is in the timer's closure when the database has none.
CutSupervisor ==
  /\ timer = "cut_supervisor" /\ timer' = "cut_customer"
  /\ CutSupervisorLeg
  /\ UNCHANGED <<meta, state, tool, early, customer, agent, handlers>>

CutCustomer ==
  /\ timer = "cut_customer" /\ timer' = "clear"
  /\ HangUpTransfer
  /\ UNCHANGED <<meta, state, tool, early, agent, handlers>>

\* Mutant: metadata is written whole, and loses a field.
ClearTimerWhole ==
  /\ timer = "clear" /\ timer' = "over"
  /\ Write([active |-> FALSE, deadline |-> FALSE])
  /\ UNCHANGED <<state, tool, early, env, handlers>>

ClearTimer ==
  /\ timer = "clear" /\ timer' = "over"
  /\ Write([active |-> FALSE, sup |-> FALSE, deadline |-> FALSE])
  /\ UNCHANGED <<state, tool, early, env, handlers>>

Timer == Fire \/ CutSupervisor \/ CutCustomer \/ ClearTimer

-----------------------------------------------------------------------------
(* The handlers' common part.                                               *)

\* Mutant: only the database is told.
CancelNot(h) ==
  /\ Go(h, "cancel", "mark")
  /\ UNCHANGED <<meta, state, tool, timer, early, env, pod, mem>>

\* cancel_warm_transfer_timeout: the registry of timers is local to a pod.
Cancel(h) ==
  /\ Go(h, "cancel", "mark")
  /\ timer' = IF pod[h] = Home /\ timer \in TimerRuns THEN "over" ELSE timer
  /\ UNCHANGED <<meta, state, tool, early, env, pod, mem>>

\* mark_warm_transfer_timeout_cancelled.
Mark(h) ==
  /\ Go(h, "mark", IF h = "join" THEN "clear" ELSE "notify")
  /\ Write([meta EXCEPT !.deadline = FALSE])
  /\ UNCHANGED <<state, tool, timer, early, env, pod, mem>>

-----------------------------------------------------------------------------
(* /conference-join.                                                        *)

Answer(d) ==
  /\ supervisor = "ringing" /\ supervisor' = "answered"
  /\ tool \notin {"store", "deadline", "start"} \/ "slow" \in Failures
  /\ Go("join", "idle", "redirect")
  /\ pod' = [pod EXCEPT !["join"] = d]
  /\ UNCHANGED <<meta, state, tool, timer, early, customer, agent, mem>>

\* The session cannot be read: the supervisor is told to hang up.
RefuseJoin ==
  /\ "database" \in Failures
  /\ Go("join", "redirect", "done")
  /\ supervisor' = SupervisorLeft
  /\ UNCHANGED <<meta, state, tool, timer, early, customer, agent, pod, mem>>

\* The clean-up is scheduled only when the provider moves the customer.
Redirect ==
  /\ customer # "gone"
  /\ Go("join", "redirect", "respond_clean")
  /\ customer' = "conference"
  /\ UNCHANGED <<meta, state, tool, timer, early, supervisor, agent, pod, mem>>

FailRedirect ==
  /\ customer = "gone" \/ "redirect" \in Failures
  /\ Go("join", "redirect", "respond")
  /\ UNCHANGED <<meta, state, tool, timer, early, env, pod, mem>>

\* The supervisor gets the conference in either case.
Respond ==
  /\ \/ Go("join", "respond_clean", "cancel")
     \/ Go("join", "respond", "done")
  /\ supervisor' = IF supervisor = "answered" THEN "conference" ELSE supervisor
  /\ UNCHANGED <<meta, state, tool, timer, early, customer, agent, pod, mem>>

\* Mutant: the supervisor's call is forgotten with the flag.
ForgetSupervisor ==
  /\ Go("join", "clear", "done")
  /\ Write([active |-> FALSE, sup |-> FALSE, deadline |-> FALSE])
  /\ UNCHANGED <<state, tool, timer, early, env, pod, mem>>

\* cleanup_after_transfer keeps supervisor_call_uuid, for the end of the call.
ClearJoin ==
  /\ Go("join", "clear", "done")
  /\ Write([meta EXCEPT !.active = FALSE, !.deadline = FALSE])
  /\ UNCHANGED <<state, tool, timer, early, env, pod, mem>>

-----------------------------------------------------------------------------
(* /hangup.                                                                 *)

\* The leg that hung up, as the handler makes it out.  A uuid other than the
\* customer's is the supervisor's; a customer's counts only while a supervisor
\* is known; a blank one is taken for the supervisor's during a transfer.
Leg(h, blank) ==
  IF blank THEN IF meta.active /\ meta.sup THEN "supervisor" ELSE "none"
  ELSE IF h = "supervisor" THEN "supervisor"
  ELSE IF meta.sup THEN "customer" ELSE "none"

Deliver(h, d) ==
  /\ IF h = "customer" THEN customer = "gone" ELSE supervisor \in {"unanswered", "left"}
  /\ \E blank \in {FALSE} \cup {b \in BOOLEAN : "blank" \in Failures} :
       /\ Go(h, "idle", IF Leg(h, blank) = "none" THEN "report" ELSE "cancel")
       /\ mem' = [mem EXCEPT ![h] = [leg |-> Leg(h, blank), state |-> state]]
  /\ pod' = [pod EXCEPT ![h] = d]
  /\ UNCHANGED <<meta, state, tool, timer, early, env>>

Notify(h) ==
  /\ Go(h, "notify", "clear")
  /\ \/ mem[h].leg = "supervisor" /\ HangUpTransfer
     \/ mem[h].leg = "customer" /\ CutSupervisorLeg /\ UNCHANGED customer
  /\ UNCHANGED <<meta, state, tool, timer, early, agent, pod, mem>>

\* Mutant: the flag is left to the timer.
ClearHangupNot(h) ==
  /\ Go(h, "clear", "report")
  /\ Write([meta EXCEPT !.sup = FALSE])
  /\ UNCHANGED <<state, tool, timer, early, env, pod, mem>>

ClearHangup(h) ==
  /\ Go(h, "clear", "report")
  /\ Write([meta EXCEPT !.active = FALSE, !.sup = FALSE])
  /\ UNCHANGED <<state, tool, timer, early, env, pod, mem>>

\* The state follows from how the leg ended, whichever leg it was.
Report(h) ==
  LET new == IF h = "supervisor" /\ supervisor = "unanswered"
               THEN "missed_call" ELSE "completed"
  IN /\ Go(h, "report", "done")
     /\ state' = IF new # mem[h].state THEN new ELSE state
     /\ UNCHANGED <<meta, tool, timer, early, env, pod, mem>>

Join == RefuseJoin \/ Redirect \/ FailRedirect \/ Respond
        \/ Cancel("join") \/ Mark("join") \/ ClearJoin
Hangup(h) == Cancel(h) \/ Mark(h) \/ Notify(h) \/ ClearHangup(h) \/ Report(h)

-----------------------------------------------------------------------------
(* The environment.                                                         *)

CustomerHangsUp ==
  /\ customer # "gone" /\ customer' = "gone"
  /\ UNCHANGED <<meta, state, tool, timer, early, supervisor, agent, handlers>>

\* Or the supervisor never picks up and the provider gives up.
SupervisorHangsUp ==
  /\ supervisor \in SupervisorOn /\ supervisor' = SupervisorLeft
  /\ UNCHANGED <<meta, state, tool, timer, early, customer, agent, handlers>>

\* The customer's stream has ended.  run_pipeline leaves the session to the
\* transfer when the flag is set and ends it otherwise (in steps of its own, see
\* SessionLifecycle; here nothing depends on what comes between them).
PipelineEnds ==
  /\ agent = "running" /\ customer \in {"conference", "gone"}
  /\ IF meta.active THEN agent' = "left" /\ UNCHANGED state
                    ELSE agent' = "closed" /\ state' = "completed"
  /\ UNCHANGED <<meta, tool, timer, early, customer, supervisor, handlers>>

\* Pod Home dies with the pipeline, the tool, the timer and the handlers it runs.
Crash ==
  /\ "crash" \in Failures /\ agent = "running"
  /\ agent' = "lost"
  /\ tool' = "lost"
  /\ timer' = IF timer = "none" THEN "none" ELSE "over"
  /\ pc' = [h \in Handlers |-> IF pod[h] = Home /\ pc[h] \notin Rest THEN "lost" ELSE pc[h]]
  /\ UNCHANGED <<meta, state, early, customer, supervisor, pod, mem>>

Next ==
  \/ Tool \/ Timer \/ Join
  \/ \E d \in Pods : Answer(d)
  \/ \E h \in Hangups : Hangup(h) \/ \E d \in Pods : Deliver(h, d)
  \/ CustomerHangsUp \/ SupervisorHangsUp \/ PipelineEnds \/ Crash

\* Fairness: the event loop resumes what can go on, sixty seconds pass, and the
\* provider delivers the callback of a leg that ended.  Nobody has to answer or
\* to hang up.
Fairness ==
  /\ WF_vars(Tool /\ tool # "idle") /\ WF_vars(Timer) /\ WF_vars(Join)
  /\ WF_vars(PipelineEnds)
  /\ \A h \in Hangups : WF_vars(Hangup(h)) /\ WF_vars(\E d \in Pods : Deliver(h, d))

Spec == Init /\ [][Next]_vars
FairSpec == Spec /\ Fairness

-----------------------------------------------------------------------------
(* Properties.                                                              *)

\* While the flag is set something in progress is going to clear it: the tool
\* on its way to a timer, a timer the deadline lets act, or a handler.  The flag
\* mutes the agent and keeps the session open, so a stray one is not harmless.
FlagHasOwner ==
  meta.active =>
    \/ tool \in ToolRuns
    \/ timer = "waiting" /\ meta.deadline
    \/ timer \in {"cut_supervisor", "cut_customer", "clear"}
    \/ \E h \in Handlers : pc[h] \in Cleaning

TimerCuts ==
  \/ timer = "cut_supervisor" /\ timer' = "cut_customer"
  \/ timer = "cut_customer" /\ timer' = "clear"

\* The timer hangs up only a transfer that is still marked as in progress: what
\* finished the transfer cancelled the timer first.
TimeoutActsOnLiveTransfer == [][TimerCuts => meta.active]_vars

\* A transfer in progress is eventually over.
TransferIsResolved == meta.active ~> ~meta.active

\* When one party is gone the other is not left in the conference, on hold or
\* ringing for ever.
NobodyWaitsAlone ==
  /\ (customer = "gone" /\ supervisor \in SupervisorOn) ~> supervisor \notin SupervisorOn
  /\ supervisor \in {"unanswered", "left"} ~> customer = "gone"

-----------------------------------------------------------------------------
(* What the repository says of the program and the program does not do.     *)

\* warm_transfer_service.py: the timeout is for a supervisor who "didn't answer
\* in time".
AnsweredSupervisorIsKept ==
  [][timer = "cut_supervisor" /\ timer' = "cut_customer"
       => supervisor \notin {"answered", "conference"}]_vars

\* base_transport_service.py: "Session will be closed when supervisor answers at
\* /conference-join".
AnswerClosesSession ==
  (pc["join"] = "done" /\ customer = "conference" /\ supervisor = "conference")
    => state # "in_flight"

\* session_schema.py: MISSED_CALL is "User didn't answer outbound call"; here the
\* user has answered, and talked to the agent.
AnsweredCallIsNotMissed == state # "missed_call"
=============================================================================
