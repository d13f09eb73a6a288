--------------------------- MODULE PostCallActions ---------------------------
(***************************************************************************)
(* What the CRM hears of a call.  While the call runs, a task looks the      *)
(* customer up and leaves the answer on the agent (crm_context_enricher);    *)
(* when it is over, run_pipeline hands the agent's answer to the configured  *)
(* actions (post_call_action_executor), each with retries, parameters that   *)
(* an LLM repairs (post_call_parameter_fixer) and a fallback, and releases   *)
(* what the run has held.                                                    *)
(***************************************************************************)
EXTENDS Naturals, Sequences, FiniteSets

CONSTANTS
  Lifecycles,  \* the configurations: records [enrich, actions, require, parallel]
  Tries        \* the attempts to put the customer's data into the context

ASSUME TriesAssumption == Tries \in Nat \ {0}

Conditions == {"always", "exists", "new", "success"}
Types == {"create_lead", "update_contact", "other"}
RetryConfigs == [enabled : BOOLEAN, max : Nat, validation : BOOLEAN, api : BOOLEAN, llm : BOOLEAN]
\* needsId: customer_id is a required parameter of the action's tool.
Actions == [type : Types, condition : Conditions, priority : Nat, enabled : BOOLEAN,
            retry : RetryConfigs, needsId : BOOLEAN]

ASSUME LifecyclesAssumption ==
  \A c \in Lifecycles :
    /\ c.enrich \in BOOLEAN /\ c.require \in BOOLEAN /\ c.parallel \in BOOLEAN
    /\ c.actions \in Seq(Actions)

VARIABLES
  config,     \* CallLifecycleConfig
  enriching,  \* enrich_context_from_crm: off, asking, injecting, found, missed, gone
  tried,      \* its failed attempts to inject the answer
  agent,      \* _enrichment_data and _customer_exists
  run,        \* run_pipeline: call, acting (execute_post_call_actions), cleanup
  released,   \* how many of Holdings have been released
  seen,       \* the arguments enrichment_data and customer_exists
  at,         \* what _execute_single_action of an action does next
  retries,    \* its retry_count
  id,         \* the customer_id among its parameters: whose it is
  acks,       \* history: the requests the CRM has confirmed, by tool
  result      \* what it returned

postCallVars == <<config, enriching, tried, agent, run, released, seen, at, retries, id, acks, result>>
callVars == <<config, run, released, seen, at, retries, id, acks, result>>

Ids == DOMAIN config.actions
Action(i) == config.actions[i]
Retry(i) == Action(i).retry

Ignorant == [data |-> "none", exists |-> FALSE]
NoAcks == [own |-> 0, lead |-> 0]

\* What the run holds, in the order in which its finally block lets go of it.
Holdings == <<"websockets", "services", "transport", "registries", "http">>

PostCallInit ==
  /\ config \in Lifecycles
  /\ enriching = IF config.enrich THEN "asking" ELSE "off"
  /\ tried = 0
  /\ agent = Ignorant /\ seen = Ignorant
  /\ run = "call" /\ released = 0
  /\ at = [i \in Ids |-> "idle"] /\ retries = [i \in Ids |-> 0]
  /\ id = [i \in Ids |-> "none"] /\ acks = [i \in Ids |-> NoAcks]
  /\ result = [i \in Ids |-> "none"]

-----------------------------------------------------------------------------
(* The enrichment.  No task waits for it and nothing cancels it.             *)

\* The tool is unknown, there is neither phone nor email, or an exception.
LookupQuits ==
  /\ enriching = "asking" /\ enriching' = "gone"
  /\ UNCHANGED <<tried, agent, callVars>>

\* The tool failed, or has found nothing.
LookupMisses ==
  /\ enriching = "asking" /\ enriching' = "missed" /\ agent' = Ignorant
  /\ UNCHANGED <<tried, callVars>>

LookupFinds ==
  /\ enriching = "asking" /\ enriching' = "injecting"
  /\ UNCHANGED <<tried, agent, callVars>>

\* _inject_into_context: the last failed attempt is only logged, the answer is kept.
FailToInject ==
  /\ enriching = "injecting" /\ tried < Tries - 1 /\ tried' = tried + 1
  /\ UNCHANGED <<enriching, agent, callVars>>

\* With or without the contact's id.
Remember ==
  /\ enriching = "injecting" /\ enriching' = "found"
  /\ agent' \in [data : {"anonymous", "known"}, exists : {TRUE}]
  /\ UNCHANGED <<tried, callVars>>

Enrichment == LookupQuits \/ LookupMisses \/ LookupFinds \/ FailToInject \/ Remember

-----------------------------------------------------------------------------
(* Which actions are executed, and when.                                     *)

\* _should_execute_action; no session ends in the state "abandoned".
Met(condition, found) ==
  CASE condition = "exists" -> found.exists
    [] condition = "new" -> ~found.exists
    [] OTHER -> TRUE

\* Mutant: the conditions are looked at again before each action.
DueNow(i, found) == Action(i).enabled /\ Met(Action(i).condition, agent)

Due(i, found) == Action(i).enabled /\ Met(Action(i).condition, found)

\* A stable sort by priority.
Precedes(i, j) ==
  \/ Action(i).priority < Action(j).priority
  \/ Action(i).priority = Action(j).priority /\ i < j

\* Mutant: an action also waits for those that are skipped.
TurnOfAll(i) ==
  /\ Due(i, seen)
  /\ config.parallel \/ \A j \in Ids : Precedes(j, i) => at[j] = "done"

\* asyncio.gather, or one after the other.
Turn(i) ==
  /\ Due(i, seen)
  /\ config.parallel \/ \A j \in Ids : Due(j, seen) /\ Precedes(j, i) => at[j] = "done"

Skipped(found) == config.require /\ found.data = "none"

\* Mutant: the actions are not awaited.
BeginDetached ==
  /\ run = "call" /\ run' = "cleanup" /\ seen' = agent
  /\ at' = [i \in Ids |-> IF Due(i, agent) THEN "load" ELSE "idle"]
  /\ UNCHANGED <<config, enriching, tried, agent, released, retries, id, acks, result>>

\* execute_post_call_actions.
Begin ==
  /\ run = "call" /\ seen' = agent
  /\ run' = IF Skipped(agent) \/ ~\E i \in Ids : Due(i, agent)
            THEN "cleanup" ELSE "acting"
  /\ UNCHANGED <<config, enriching, tried, agent, released, at, retries, id, acks, result>>

Finish ==
  /\ run = "acting" /\ \A i \in Ids : Due(i, seen) => at[i] = "done"
  /\ run' = "cleanup"
  /\ UNCHANGED <<config, enriching, tried, agent, released, seen, at, retries, id, acks, result>>

\* The pod stops: CancelledError is no Exception.
CancelRun ==
  /\ run \in {"call", "acting"} /\ run' = "cleanup"
  /\ at' = [i \in Ids |-> IF at[i] = "done" THEN "done" ELSE "dropped"]
  /\ UNCHANGED <<config, enriching, tried, agent, released, seen, retries, id, acks, result>>

Release ==
  /\ run = "cleanup" /\ released < Len(Holdings) /\ released' = released + 1
  /\ UNCHANGED <<config, enriching, tried, agent, run, seen, at, retries, id, acks, result>>

-----------------------------------------------------------------------------
(* One action: _execute_single_action.                                       *)

Step(i, to) == at' = [at EXCEPT ![i] = to]

Return(i, r) == Step(i, "done") /\ result' = [result EXCEPT ![i] = r]

Acknowledge(i, tool) == acks' = [acks EXCEPT ![i][tool] = @ + 1]

Start(i) ==
  /\ run = "acting" /\ at[i] = "idle" /\ Turn(i) /\ Step(i, "load")
  /\ UNCHANGED <<config, enriching, tried, agent, run, released, seen, retries, id, acks, result>>

\* The business tool is missing, or the database fails.
NoTool(i) ==
  /\ at[i] = "load" /\ Return(i, "failed")
  /\ UNCHANGED <<config, enriching, tried, agent, run, released, seen, retries, id, acks>>

\* _build_action_parameters.
GivenId == IF seen.data = "known" THEN "crm" ELSE "none"

LoadTool(i) ==
  /\ at[i] = "load" /\ Step(i, "ask") /\ id' = [id EXCEPT ![i] = GivenId]
  /\ UNCHANGED <<config, enriching, tried, agent, run, released, seen, retries, acks, result>>

\* Mutant: the loop goes on after a success.
SucceedAndContinue(i) ==
  /\ at[i] = "ask" /\ (Action(i).needsId => id[i] # "none")
  /\ Acknowledge(i, "own")
  /\ IF retries[i] < Retry(i).max
     THEN retries' = [retries EXCEPT ![i] = @ + 1] /\ UNCHANGED <<at, result>>
     ELSE Return(i, "ok") /\ UNCHANGED retries
  /\ UNCHANGED <<config, enriching, tried, agent, run, released, seen, id>>

Succeed(i) ==
  /\ at[i] = "ask" /\ (Action(i).needsId => id[i] # "none")
  /\ Acknowledge(i, "own") /\ Return(i, "ok")
  /\ UNCHANGED <<config, enriching, tried, agent, run, released, seen, retries, id>>

\* A result that reports an error, or an exception ("raised"), and what its words
\* say of it: _is_validation_error, _is_retryable_api_error, and whether
\* customer_id is named.  They may say anything, for what comes before the
\* parameters are validated may fail too.
Errors == [raised : BOOLEAN, validation : BOOLEAN, retryable : BOOLEAN, id : BOOLEAN]

\* After an exception the configured kinds of errors are not asked for.
NextTry(i, e) ==
  IF ~Retry(i).enabled \/ retries[i] >= Retry(i).max THEN "stop"
  ELSE IF e.raised THEN IF e.retryable THEN "sleep" ELSE "stop"
  ELSE IF e.validation /\ Retry(i).validation THEN IF Retry(i).llm THEN "fix" ELSE "ask"
  ELSE IF e.retryable /\ Retry(i).api THEN "sleep"
  ELSE "stop"

\* The tool of the first enabled create_lead, whatever its condition.
HasFallback == \E j \in Ids : Action(j).type = "create_lead" /\ Action(j).enabled

Fallback(i, e) == Action(i).type = "update_contact" /\ HasFallback /\ e.id

\* The request, if one was sent, may have been executed all the same.
Fail(i) ==
  /\ at[i] = "ask"
  /\ \E e \in Errors :
       LET next == NextTry(i, e) IN
       \/ next = "ask" /\ retries' = [retries EXCEPT ![i] = @ + 1] /\ UNCHANGED <<at, result>>
       \/ next \in {"fix", "sleep"} /\ Step(i, next) /\ UNCHANGED <<retries, result>>
       \/ next = "stop" /\ Fallback(i, e) /\ Step(i, "fallback") /\ UNCHANGED <<retries, result>>
       \/ next = "stop" /\ ~Fallback(i, e) /\ Return(i, "failed") /\ UNCHANGED retries
  /\ UNCHANGED <<config, enriching, tried, agent, run, released, seen, id, acks>>

Again(i) == Step(i, "ask") /\ retries' = [retries EXCEPT ![i] = @ + 1]

\* Exponential backoff.
Wake(i) ==
  /\ at[i] = "sleep" /\ Again(i)
  /\ UNCHANGED <<config, enriching, tried, agent, run, released, seen, id, acks, result>>

\* fix_parameters_with_llm keeps the id, or replaces it; one that looks made up is removed.
FixedIds(old) == {old, "llm", "none"}

\* If the LLM fails, the parameters stay.
Fix(i) ==
  /\ at[i] = "fix" /\ Again(i)
  /\ \E new \in FixedIds(id[i]) : id' = [id EXCEPT ![i] = new]
  /\ UNCHANGED <<config, enriching, tried, agent, run, released, seen, acks, result>>

FallbackTool(i) ==
  /\ at[i] = "fallback"
  /\ \/ Step(i, "lead") /\ UNCHANGED result
     \/ Return(i, "failed")
  /\ UNCHANGED <<config, enriching, tried, agent, run, released, seen, retries, id, acks>>

\* Once, without retries and without customer_id.
CreateLead(i) ==
  /\ at[i] = "lead"
  /\ \/ Acknowledge(i, "lead") /\ Return(i, "lead")
     \/ Return(i, "failed") /\ UNCHANGED acks
  /\ UNCHANGED <<config, enriching, tried, agent, run, released, seen, retries, id>>

ActionStep(i) ==
  \/ NoTool(i) \/ LoadTool(i) \/ Succeed(i) \/ Fail(i) \/ Wake(i) \/ Fix(i)
  \/ FallbackTool(i) \/ CreateLead(i)

PostCallNext ==
  \/ Enrichment \/ Begin \/ Finish \/ CancelRun \/ Release
  \/ \E i \in Ids : Start(i) \/ ActionStep(i)

PostCallSpec == PostCallInit /\ [][PostCallNext]_postCallVars

\* Requests, LLM and database answer or time out; nothing else is awaited.
PostCallFairness ==
  /\ WF_postCallVars(Finish) /\ WF_postCallVars(Release)
  /\ WF_postCallVars(\E i \in Ids : Start(i) \/ ActionStep(i))

FairPostCall == PostCallSpec /\ PostCallFairness

-----------------------------------------------------------------------------
(* Properties.                                                               *)

Places == {"idle", "load", "ask", "fix", "sleep", "fallback", "lead", "done", "dropped"}

\* Types; retries stay within the configured maximum, an action that waits for a
\* retry has one left, and only an action of its own turn has left "idle".
PostCallTypeOK ==
  /\ config \in Lifecycles
  /\ enriching \in {"off", "asking", "injecting", "found", "missed", "gone"} /\ tried \in 0..Tries
  /\ agent \in [data : {"none", "anonymous", "known"}, exists : BOOLEAN]
  /\ run \in {"call", "acting", "cleanup"} /\ released \in 0..Len(Holdings)
  /\ seen \in [data : {"none", "anonymous", "known"}, exists : BOOLEAN]
  /\ at \in [Ids -> Places]
  /\ retries \in [Ids -> Nat] /\ \A i \in Ids : retries[i] <= Retry(i).max
  /\ id \in [Ids -> {"none", "crm", "llm"}]
  /\ acks \in [Ids -> [own : Nat, lead : Nat]]
  /\ result \in [Ids -> {"none", "ok", "lead", "failed"}]
  /\ \A i \in Ids : at[i] \in {"fix", "sleep"} => retries[i] < Retry(i).max

\* What is reported of an action is what the CRM has confirmed of it: one change by
\* its own tool, one by the fallback's, or none, through all retries, the fallback
\* and the exceptions in between.
ReportsAreTrue ==
  \A i \in Ids :
    CASE result[i] = "ok" -> acks[i] = [own |-> 1, lead |-> 0]
      [] result[i] = "lead" -> acks[i] = [own |-> 0, lead |-> 1]
      [] OTHER -> acks[i] = NoAcks

Executed(i) == at[i] \notin {"idle", "dropped"}

\* Although the lookup may end in their midst, the actions of one call see one
\* customer: never is one executed because the customer exists and one because not,
\* and none gets an id from a lookup that its conditions did not know of.
OneViewOfTheCustomer ==
  \A i, j \in Ids :
    /\ Executed(i) /\ Action(i).condition = "exists" /\ Executed(j) => Action(j).condition # "new"
    /\ id[i] = "crm" /\ Executed(j) => Action(j).condition # "new"

\* Requests of the actions use the run's aiohttp session: none is under way once the
\* run begins to let go of what it holds, also when it is cancelled.
NothingOutlivesRun == run = "cleanup" => \A i \in Ids : at[i] \in {"idle", "done", "dropped"}

\* Whatever the CRM and the LLM answer, the actions end and everything is released.
EverythingIsReleased == run # "call" ~> released = Len(Holdings)

\* "Only if pre-call enrichment found NO customer" (call_lifecycle_schema.py): not
\* kept, a lookup that is under way or was given up counts as none found.
NewLeadOnlyIfNoneFound ==
  [][\A i \in Ids : config.enrich /\ Action(i).condition = "new" /\ at[i] = "idle" /\ at'[i] = "load"
                    => enriching = "missed"]_postCallVars
=============================================================================
