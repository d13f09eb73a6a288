# Verification of the voice-agent backend

The repository holds a multi-tenant voice-agent backend in Python
(`pipecat/src/app`), a small event-management service that starts calls through
it (`event-management/src/app`), and scripts. A call is served by an asyncio
pipeline on one of several pods; everything that outlives the pipeline is kept in
a MongoDB database per tenant. The repository has no tests. These modules model
the parts of the backend whose correctness depends on the order in which
coroutines, provider callbacks, timers and pods act, check them with TLC on
small instances and prove the most important properties with TLAPS for every
value of the constants.

## How the program runs, and what that means for a model

- One pod runs one event loop. A coroutine is interrupted only at an `await`, so
  a model step is the code between two awaits that matter: a database read, a
  database write, a sleep, a call to the provider, a frame handed to another task.
- Several pods serve one tenant. Module-level dictionaries (timers, transcription
  filters, Plivo sockets) are per pod; `session.metadata` is shared.
- Documents are read whole, changed in memory and written back, field by field
  (`$set` on dotted paths) or as a whole sub-document. A snapshot is therefore part
  of the model's state.
- The provider (Plivo, Twilio) sends callbacks at times of its own, and may repeat,
  omit or refuse things. The pipecat library moves frames between processors in
  queues.

## Inventory

| Component | State | Operations | Hard behaviour | What makes it correct |
|---|---|---|---|---|
| Session lifecycle (`managers/session_manager.py`, `managers/log_manager.py`, `managers/artifact_manager.py`, `core/transports/base_transport_service.py`, `api/plivo_api.py`, `api/twilio_api.py`) | `sessions` and `logs` documents | create, get-and-consume, run, end, save artifacts, provider callbacks | stale snapshots, callbacks during a run, reconnects, crashes | an open session is served; a finished call is closed; no write goes backwards |
| Warm transfer (`tools/warm_transfer_tool.py`, `services/warm_transfer_service.py`, `api/plivo_api.py`) | flag, deadline, supervisor's uuid; timers per pod | tool, timer, conference-join, hangup callbacks | timeout against answer, two pods, refused calls | a transfer ends; nobody waits alone; the timer acts on live transfers only |
| Call ending (`tools/hangup_tool.py`, `processors/idle_handler.py`, `core/observers/hangup_observer.py`) | reason, time, artifact; idle counter | hangup, client gone, silence, voicemail | four causes race; results come late | first report stands; silence ends a call |
| Voicemail gate (`agents/base_agent.py`, `base_transport_service.py`, `idle_handler.py`) | one flag | first message, prompts, classifier | late tasks close the gate | gated until decided, never on the voicemail message |
| Transcription filter (`processors/transcription_filter.py`) | cache, counter, registry | frames, manual mute, database reads | stale cache, failed reads, two pipelines | verdicts are current |
| Customer profiles (`managers/customer_profile_manager.py`, `services/customer_profile_service.py`, `api/customer_profile_api.py`) | one document per customer: identities, history, opt-out | end of a call, opt-out check, API requests | read, LLM call, write; two writers of one copy | histories are consistent; opt-outs stand unless cleared on purpose |
| Business tools and credentials (`services/tool/business_tool_executor.py`, `services/token_manager.py`, `managers/api_credential_manager.py`, `api/token_api.py`) | token and configuration in the database, a lock per executor, a cache per session | tool call with pre-requests, refresh, changes by requests | calls meet one expired token; cancelled while refreshing; changed while waiting | one refresh per executor; no expired token is sent; the main request has its data; a call ends |
| Post-call actions (`services/post_call_action_executor.py`, `services/post_call_parameter_fixer.py`, `services/crm_context_enricher.py`) | the looked-up customer on the agent; retries of each action | look-up, sequential or parallel actions, retry, repair by an LLM, fallback | a late look-up, lost answers, a cancelled run | the actions see one customer; what is reported was confirmed, once; the run is released |
| Call context (`services/session_context_service.py`, `agents/base_agent.py`, `tools/*.py`) | one variable per process, a copy per agent | build and set a context, the tools that read it | two calls in one process | tools act for their own call; our number is not the user's |
| Advisor tools (`event-management`: `api/circuitry_advisor_tool.py`, `client_api/circuitry/*`; `managers/business_tool_manager.py`) | the agent's list at the backend, tools and a credential at Pipecat | enable, disable, list | a request is many calls; others edit the same list | an advisor is enabled at most once |
| Configuration fetch (`services/assistant_api_client.py`, `services/token_provider.py`, `managers/session_manager.py`) | one cached token per tenant | fetch at creation and at connection, renew a refused token | sessions share and pop the entry; answers come late | no expired token is lent; a refusal is of a new token |
| Reports (`managers/log_manager.py`, `managers/artifact_manager.py`, `utils/event_emitter.py`; `event-management`: `api/ingest.py`) | the log's artifacts, events under way, usage records | saves that merge, three events | saves overlap, events are lost or reordered | nothing that means something is lost; a PATCH names the creator |
| Plivo connection registry (`core/transports/plivo_websocket_manager.py`) | sockets and tasks by session and by call | register, close, cancel | a second connection of one session | not modelled |
| Speech processors (`processors/filler_words_processor.py`, `processors/multi_tts_router.py`, `services/language_detection_service.py`) | words of the turn and a task per call; a voice and a text per response; one language per process | frames, a fallback, a task that asks an LLM and sleeps | words come while the task waits; responses are interrupted; calls share the language | a filler is of all that was said; a response is spoken whole by one voice |
| Chat (`core/transports/websocket_chat.py`, `utils/transcript_utils.py`, `services/chat_completions/chat_frame.py`) | the transcript that handler and pipeline share | receive, reply, hang up, clean up | the client goes while a reply is under way; the runner does not end | what is saved is final and whole |
| Agent construction, administration, WebRTC, provider adapters, other observers | | | | not modelled or in part, see below and `PROJECT.json` |


## SessionLifecycle: the documents of one call

`SessionLifecycle` keeps the session document, its log, the position of every
handler and its locals (the snapshot it last read, the content of the log it
read, the state it is about to write). Pipelines are WebSocket connections:
`Connect`, `TakeConfig`, `RefuseConfig`, `ConsumeSession`, `ConsumeReadLog`,
`ConsumeWriteLog` are the awaits of `get_and_consume_config`; `SetupRead`,
`SetupWrite`, `Start`, `AbortSetup` those of `run_pipeline` before the task runs;
`FinishRun`, `FailRun`, `CheckTransfer`, `EndSession`, `EndLog`, `FailEnd`,
`FinalRead`, `ArtifactsReadLog`, `ArtifactsWriteLog`, `FailArtifacts` its end
(a cancelled task whose transfer check fails goes on to the artifacts without ending the session).
Callbacks are provider requests: `Deliver` reads, `StoreReport` and
`StoreReportInLog` write. The provider is a constant because Plivo's handler
writes dotted paths and Twilio's writes the whole metadata it read.

`SessionRecord` is the abstract promise: a session is created once, a connection
that serves it records an outcome or is known to have left, and reports record
outcomes at any time. `ImplementsRecord` maps `serving` and `excused` to the
positions of the pipelines.

| Run | Instance | Shows |
|---|---|---|
| SessionPlivo | 1 connection, 2 callbacks, Plivo | `TypeOK`, `OpenSessionIsServed`, `NeverBackToPreflight`, `ReportsKeepTransfer` |
| SessionTwilio | 1 connection, 1 callback, Twilio, fair | `LoneLogAgrees`, `FinishedCallIsClosed` |
| SessionReconnect | 2 connections | the refinement of `SessionRecord` with two consumers of one configuration |
| FindReopened | 1 connection, 1 callback | violates `ConsumeKeepsFinalState`: a callback between the read and the write of `get_and_consume_config` is overwritten with IN_FLIGHT |

Two callbacks are enough for a second report to meet the effects of a first, two
connections for one to consume what the other has, and one of each for every
pair of a reader and a writer. No counter is bounded: the state is finite.

Fairness: the event loop resumes a coroutine that can go on (`Serve`, `Close`, the
writes of a delivered callback). Connecting, the end of a conversation, callbacks
and crashes are not promised. `FinishedCallIsClosed` excuses a pipeline that found a
transfer, whose database refused, or whose pod died: in these the code does leave
the session open.

### What is proved (SessionLifecycle_proofs)

For every set of connections and callbacks and both providers: `TypeCorrect`,
`ServedWhileOpen` ([]OpenSessionIsServed), `PreflightOnce` (NeverBackToPreflight),
`PlivoReportsKeepTransfer`, `LoneLogFollows` ([]LoneLogAgrees) and `Implements` (the
refinement). Assumptions: handlers
are pipelines or callbacks and not both (`HandlersAssumption`), and one of two
providers carries the call (`ProviderAssumption`).

`OpenSessionIsServed` is not inductive: a handler writes states from locals read
earlier. The invariant `IInv` adds that handlers run only once both documents exist
(`CreatedFirst`), that the state a handler is going to write is an outcome
(`GoalsAreOutcomes`), that a snapshot still to be used came from an existing session
(`Snapshots`), and that a connection past its decision to consume has seen the session
leave PREFLIGHT (`LeftPreflight`). `NeverBackToPreflight` and the refinement follow
from the same invariant step by step.

`LoneLogAgrees` speaks of a call at rest only; `LoneInv` says how the log stands beside the
session at every await while one connection alone writes both (`LogFollows`): they agree
except between the two writes, where the state about to be written to the log is the
session's, and the snapshot that `save_artifacts` writes from has the session's state.
`LoneStep` is the frame: a step of one connection matters to a connection that is alone only
if it is its own.

Only model-checked: `FinishedCallIsClosed` (liveness).

## WarmTransfer: tool, timer and callbacks on several pods

One transfer of a Plivo call. The tool's awaits are `Begin`, `SetFlag`, `Hold`,
`Dial`/`FailDial`, `StoreSupervisor`, `StoreDeadline`, `StartTimer`; the timer's are
`Fire`, `CutSupervisor`, `CutCustomer`, `ClearTimer`; the supervisor's answer is
`Answer`, `Redirect`/`FailRedirect`/`RefuseJoin`, `Respond` and the background
clean-up; each leg's end is delivered to some pod by `Deliver` and handled by
`Cancel`, `Mark`, `Notify`, `ClearHangup` and `Report`. The pod of a handler is
state, because `cancel_warm_transfer_timeout` finds the timer only on pod `Home`.

The environment's failures are a constant, so that a run says which ones its
property withstands: a refused call (`dial`), a refused move (`redirect`), a failing
write (`database`), a refused hang-up (`hangup`), a callback without uuid (`blank`), tool writes slower than the
supervisor's answer (`slow`), a cancelled tool and a crash.

Assumptions on time: without `slow`, the tool stores the supervisor's uuid and the
deadline before the supervisor can act; `early` records the handlers in progress
when the timer is started, since the sixty seconds of the timer are longer than any
handler that is running then. A timer and a handler that started later may overlap
in every way.

| Run | Instance | Shows |
|---|---|---|
| TransferFailures | 1 pod, every failure | `TypeOK`, `TimeoutActsOnLiveTransfer` |
| TransferResolves | 2 pods, redirect, fair | `FlagHasOwner`, `TransferIsResolved`, `NobodyWaitsAlone` |

Two pods are enough: a handler either shares the timer's pod or does not. One transfer
is modelled at a time; a session can start another one only after the first is over.
Fairness: coroutines go on, the sixty seconds pass, and the provider delivers the
callback of a leg that ended. Nobody has to answer or to hang up.

The positive runs leave out exactly the failures under which the code does not keep the
promise; the table of claims below names each of these cases, but for two: `NobodyWaitsAlone` fails with
`hangup`, for a refused hang-up is logged and nobody is told again, and with `slow`; nothing in the repository
promises more. `FlagHasOwner` and `TransferIsResolved` do not depend on the provider and hold with both.

### What is proved (WarmTransfer_proofs)

For any set of pods that contains `Home` (`PodsAssumption`):

- `TransferTypeCorrect` ([]TypeOK), whatever fails.
- `FlagIsOwned` ([]FlagHasOwner), if none of `dial`, `database`, `cancel_tool`, `crash` is among
  the failures. With any one of the four TLC finds the flag without an owner: a call that
  cannot be placed, a write that fails, a tool that is cancelled between its writes, a pod that takes
  its timer along. `redirect`, `hangup`, `blank` and `slow` are withstood. The property is not inductive; the
  invariant adds `DeadlineOrCleaner`: when the timer is about to be started, the deadline is stored or
  a handler that took it away is on its way to clear the flag, and a timer exists only once
  the tool is over.
- `TimeoutSparesFinished` (TimeoutActsOnLiveTransfer), with every failure, if `Home` is the only pod. With
  two, TLC finds a handler that cannot reach the timer and finishes the transfer under it. `TimerInv`
  says that while the timer is at work the flag is set, and that no handler is past
  `cancel_warm_transfer_timeout` unless it was running when the timer was started (`early`).

`TransferIsResolved` and `NobodyWaitsAlone` are liveness and only model-checked.

Not modelled: Twilio transfers (no handler in the code completes them), the hold
music, and the announcement texts.

## CallEnding: who ended the call

`HangUp`, `PushEnd`, `PartingWordsOver` are the hangup tool and `RefuseHangUp` its refusal
during a warm transfer, whose result has the action "hangup" too; `ClientGoes`,
`RecordDisconnect`, `CancelTask` the disconnect handler; `DetectVoicemail`,
`VoicemailOver` the voicemail handler with its fifteen seconds; `IdleFires`, `Pause`,
`Prompt`, `FinalPrompt`, `IdleEnds` the idle handler, where `count` is the argument it
was called with and `retry` the processor's counter that the user resets meanwhile.
`Observe` is the observer, which sees frames through `queue`. `Finish` and `EndSession`
are the end of `run_pipeline`.

`Retries` and `Templates` (idle_timeout.retries, the number of prompts) are constants, and
`MaxRefusals` bounds the refusals for TLC. Whether a transfer is in progress is read from the
database and left open here, as it is for `Pause`: an agent may refuse now and hang up later.
`CallEnding` is checked inside `Conversation`, below.

`FirstReportStands` says that the stored reason and the stored time are of one report, made by
a handler that has run, and that no later one replaces either. A refused hangup is a report:
the observer stores `assistant_hangup` and a time for a call that goes on, and the real end is
then neither stored nor timed. That a stored hangup took place is `HangupIsReal`, which the
code does not keep.

Proved for every number of retries, prompts and refusals (Conversation_proofs): `TypeCorrect`,
`ReasonIsKnown` ([]ReasonPrecedesEnd), `ReportStands` (FirstReportStands). The types need
that the counter is at most the retries whenever the processor watches and at most the
handler's count while it is called (`Counter`). `ReasonPrecedesEnd` needs the order of
the queue: as long as nothing is saved a hangup result stands before every EndFrame
(`ResultBeforeEnd`) and is still queued once the tool has run (`ResultIsQueued`).
`FirstReportStands` needs that a queued result is the tool's (`ResultIsOfTool`) and that reason
and time are stored together (`StoredTogether`), which rests on that order: an EndFrame seen
first would store a reason without a time.
`SilenceEndsCall` is liveness and only model-checked.


## VoicemailGate: three writers of one flag

`Decide`, `OpenGate`, `VoicemailDetected` are the detector (the classifier's decision, the
gate's task that wakes later, the handler that runs after the response delay);
`SpeakFirst`, `FirstOver` the first message of `on_client_connected`, when the agent speaks
first; `SpeakPrompt`, `SpeakOver` the idle prompts and the tasks that close the gate behind
them.
`MaxPrompts` bounds the prompts that wait at once. The detector belongs to pipecat and is
external: that a decision, of either kind, opens the gate is taken from how the code uses
it (after CONVERSATION the gate is open; the voicemail message is spoken through it).

`UndecidedIsGated` and `VoicemailKeepsGate` are proved for every `MaxPrompts`
(Conversation_proofs); they are inductive with `GateTypeOK`, which says that the detector's
task and handler act only on a decision.

## Conversation: the two together

An outbound call is both at once, and two pieces of code belong to both: the idle handler
speaks its prompts through the gate (`IdlePrompt`), and `on_voicemail_detected` sets the event
the gate's tasks look at and stops the idle processor (`OnVoicemailDetected`). Everything else
leaves the other part alone (`CallOnly`, `GateOnly`, `IdleQuiet`).

| Run | Instance | Shows |
|---|---|---|
| Conversation | 2 retries, 1 prompt, 1 refusal, 2 waiting tasks, fair | `ReasonPrecedesEnd`, `UndecidedIsGated`, `FirstReportStands`, `VoicemailKeepsGate`, `SilenceEndsCall` |
| FindGate | 2, 2, 1, 2 | violates `ConversationIsHeard`: an idle prompt after a person was recognised closes the gate for the rest of the call |

With two retries and one prompt the last prompt is a repeated one; two waiting tasks let one
end while the other's prompt is spoken. Fairness: the idle timer fires again after each
silent interval, the tasks that sleep wake, the observer's queue is emptied. The user, the
client, the classifier and the LLM owe nothing. An idle prompt waits while `MaxPrompts`
tasks do; since those tasks end, no prompt is lost by the bound.

The types of the two parts are not in the run's list: they are theorems (`TypeCorrect`,
`GateTypeCorrect`).

Proved: `ConversationImplements` (a step of the composition is a step or a stutter of each
part), and by it `ConversationIsSafe`, for every value of the constants.

## TranscriptionMute: the filter during a transfer

Every pipeline of the session has a filter (`cache`, `counter`, `check`) and the pod one
registry entry. `Transcription`, `Read`, `FailRead` are the check of one frame, `Mute`,
`SetFlag`, `FailFlag` the tool, `Unmute`, `ClearFlag` the clean-ups. `span` is a history
variable: the values of the flag during the check. `Interval` is 10 as in the code.

The run Parts checks `VerdictsAreCurrent` with two pipelines and failing reads and writes: a
frame is blocked only if the flag was set during its check (`BlockedIsCurrent`), and passes only
if it was clear then, unless its read failed (`PassedIsCurrent`).

Proved for any pipelines, interval and failures (Speech_proofs): `MuteTypeCorrect` and
`FramesAreJudgedCurrently` ([]VerdictsAreCurrent). The
invariant says that the counter is always 0 (`EveryFrameIsFirst`): the code resets it
at every check, so the cache never answers, and that is why verdicts are current.
## CustomerProfiles: calls and requests on shared profiles

| Code | Model |
|---|---|
| the collection, in natural order; `delete_one` | `profiles`, a sequence whose deleted entries are `gone` |
| a coroutine between two database commands | `pc`, `on` (the profile), `snap` (its copy), `whom` (the identifier) |
| `get_by_identifier`: `$or` over four fields, then the score | `Matching`, `Score`, `Canonical` |
| `_ensure_dnd_v2` and the write that follows it | `Read`, then `Backfill` with `after` |
| `create_session`'s opt-out check | `Dial` |
| `record_call_completion` with `create_profile` | `Lookup`, `Check`, `InsertOwn`, `Write`, `Reread` |
| `clear_telephony_outbound_dnd`, called twice for an inbound call | `ClearAfterCall`, `ClearAfterExtraction` |
| `extract_and_update_ai_data` | `Extract`, `Extracted` |
| an exception of the driver, and which handler takes it | `Refuse`, of a request `RefuseRequest` |
| the API: get, create, update, delete, link, unlink | `View`, `Look`, `CreateCheck` and `Create`, `UpdateProfile`, `Delete`, `LinkCheck` to `Link`, `Unlink` |

A call's summary is represented by the call itself: `recent` is `recent_call_summaries`, `older`
the calls folded into the aggregate, `total` is `total_call_count`. The opt-out `dnd` is
`"unset"` (the document has no dnd object), `"clear"`, or the call whose extraction set
`telephony.outbound`. The other extracted data are written whole from a copy just like the
opt-out, names and preferences are one assignment; both are left out. The inbound flag of the
object is never set by the code. `enforce_dnd` has its default. Lists and searches of profiles
write only what `Read` and `Backfill` write for each of their profiles. `docs/dnd_v2.md:139-140`
lists `dnd` among the fields of create and update; the manager writes no such field, so neither
does the model.

The run Parts checks `HistoryIsWhole`, `InboundEndsClear` and `OptOutStands` with an outbound and
an inbound call of one customer, who may have called before, one request, and a window of one.

Two calls and a request are enough for every pair of writers: call and call, call and
request, each with a profile that has been deleted, linked or inserted twice meanwhile. A
window of one makes the second call fold the first one's summary. The calls and requests end
(each performs one operation), so deadlock is not checked. None of the four
properties is a claim that no update is lost: two calls that overlap do lose one
(`CallsAreCounted`, below). What holds is that a lost update loses a call as a whole.

Proved for any calls, requests, identifiers and any window (CustomerProfiles_proofs):

- `TypeCorrect`, from `Typed`: with the types go `Placed` (a process that is past its read
  works on a profile that exists) and `Asked` (a request that has named nobody is at no step
  that needs an identifier).
- `HistoriesAreWhole`. `HistoryIsWhole` is not inductive, since a call writes what it read,
  not what is there: `History` says the same of every copy, and `Untold` that a call which has
  still to write is told by no profile and no copy.
- `InboundCallsEndClear`, from `OwnOptOut`: an opt-out of call `c` stands only between the
  extraction of `c` and its last clearing, in the profile `c` works on, and the copy
  the clearing reads has it; or the database has refused `c` a command.
- `OptOutsStand`, an action property, from the types by the actions one at a time.

## BusinessTools: tool calls and the token they share

| Code | Model |
|---|---|
| the credential's document: configuration, cached token, expiry, `is_active` | `cred`; `version` counts configurations, `lapsed` is the database's expiry |
| a token; a JWT within five minutes of its `exp` | a number, with its configuration in `made`; `dead` |
| a `TokenManager` and its `_refresh_locks` | an executor and `lock`; a request of the API makes its own |
| `_is_token_valid` | `Valid` |
| `get_valid_tokens`, `_refresh_tokens`, `_generate_tokens`, `cache_tokens` | `Get`, `Lock`, `Recheck`, `Generate`, `Store` |
| the second read of the credential, for the names of the headers | `Headers` |
| `execute_tool`: validation, the token for the templates, each pre-request, the main request | `Start`, `PreRequest`, `SendPreRequest`, `SendMain`, with `stage` |
| the agent's `_pre_request_cache` | `cache`, which names the call whose result it holds |
| an exception or a refusal anywhere, and the result callback | `Finish` |
| pipecat cancels a function call | `Cancel`, of calls of a pipeline only |
| update, delete, manual refresh of a credential | `UpdateCredential`, `DeleteCredential`, `RefreshToken` and `ClearTokens` |
| time | `Expire`, `Lapse` |

A call asks for a token before each of its requests, so between two of them the credential may be
changed, cleared or refreshed by anyone. `deadAt` (the tokens that were dead when a call asked)
and `cred.by` (who has stored a token since there was last no valid one) are history and guard
nothing. `asyncio.Lock` serves its waiters in turn; the model lets any of them have it next, so
what holds here holds for every order. One credential and one lock name are
modelled: credentials share nothing. The tool's other kinds of authentication read constants of
the configuration; the OAuth2 client's own cache is not modelled. A header whose token has
another name by now is left out by the code with a warning; the model's token is one value.
Every outgoing request has a timeout (30 s for a token, the configured one for the API), and the database driver
answers or raises: so a call that has begun is fair to go on. Requests of the API
need not begin, and tokens need not expire.

| Run | Instance | Shows |
|---|---|---|
| Tools | two calls of one pipeline, one cached pre-request, one request of the API, JWTs; at most two tokens | `ExpiredIsNotSent`, `MainHasData`, `RefreshIsShared`, `CallsEnd` |

Two calls are enough for one to wait while the other refreshes, is refused or is cancelled, and
for one to use what the other has cached; the request clears the token or changes the
configuration under them and has an executor of its own. Two tokens let a token that was given
expire before its request is sent, and be replaced; at the bound the endpoint can only refuse.
The calls end, so deadlock is not checked.

Proved for any calls, requests, executors and pre-requests (BusinessTools_proofs):

- `TypeCorrect`.
- `RefreshShared`. `Sharing` says that who is between the lock and its release holds it, that
  `by` is empty unless the token is valid, and that who is past its second look is not in `by`:
  the look found no valid token, and nobody else of the executor can be there.
- `ExpiredNotSent`, from `Fresh`: dead tokens stay dead, a cached token is looked at after
  the call has asked, a new one has not been given before.
- `MainRequestHasData`, from `Obtained` (a call has the results of the pre-requests it
  is past, and the cache those of its own pipeline) and `Templated` (a request is sent only
  after the templates).


## PostCallActions: what the CRM hears of a call

| Code | Model |
|---|---|
| `CallLifecycleConfig` | `config`: whether to look the customer up, the actions, `require_enrichment_for_post_actions`, in parallel or in order |
| `enrich_crm_context` and `_inject_into_context` | `enriching`, `tried`; `LookupQuits` to `Remember` |
| `agent._enrichment_data`, `_customer_exists` | `agent`; `seen` is the pair `run_pipeline` passes on |
| `execute_post_call_actions`, `_should_execute_action`, the sort, `gather` | `Begin`, `Due`, `Turn`, `Finish` |
| `_execute_single_action` | `at`, with `Start`, `NoTool`, `LoadTool`, `Succeed`, `Fail`, `Wake`, `Fix`, `FallbackTool`, `CreateLead` |
| which errors are retried, repaired or given up | `Errors`, `NextTry`, `Fallback` |
| `fix_parameters_with_llm` | `Fix`; of the parameters only `customer_id` matters, `id` says whose it is |
| the `finally` block of `run_pipeline` | `Holdings`, `Release`; `CancelRun` is the pod's stop |

`acks` is history: what the CRM has confirmed to an action. Two actions are enough for one to wait for,
overlap with or contradict the other; the lists of MCPostCallActions hold both orders, equal
priorities, a disabled action, and retries with every switch on, with some off and with all
off. Two attempts to inject let one fail.

| Run | Instance | Shows |
|---|---|---|
| PostCall | 24 configurations of two actions, fair | `ReportsAreTrue`, `OneViewOfTheCustomer`, `NothingOutlivesRun`, `EverythingIsReleased` |

Fairness: requests to the CRM and to the LLM have timeouts, sleeps end, and the run goes on. The lookup
owes nothing, since nothing waits for it. A run that has ended stops, so deadlock is not checked.

Proved for every list of actions (PostCallActions_proofs): `PostCallTypeCorrect`,
`ActionsReportTruly`, `CustomerIsSeenOnce`, `NoActionOutlivesRun`. The invariant `PostCallInv` adds to
the types that data are of a customer who exists (`Existing`), and for each action (`Honest`)
that it was due when the run looked at the customer, that nothing is confirmed to it before it returns, and that an
id of the CRM comes from a lookup the run knew of. `EverythingIsReleased` is liveness and only
model-checked.

What the model leaves to read in the code:

- `background_tasks` is never filled (base_transport_service.py:137, 1293-1304), so the lookup is not
  cancelled at the end as the comment there says; the model lets it end after the run.
- `ON_CALL_SUCCESS` is true of every call (post_call_action_executor.py:200-216).
- A request whose answer is lost is sent again, or followed by the fallback: an action confirmed once may
  have been executed more than once. `ReportsAreTrue` speaks of confirmations for this reason.
- A `create_lead` action and the fallback of an `update_contact` one can each create a lead of one call.

## CallContext: what the tools know of their call

`SetContext` builds the context of a call (`Context`, `TransportNumbers`, `UserNumber`, `Mask`: the
algorithm of `SessionContextService` over who called, whether the settings know our number, whether
the user's was given, whether the provider's start message names the two, and five switches of `context_config`), keeps it on the agent (`own`) and
writes the module's variable (`current`). `ReadContext` and the actions after it are the tools; `acted` and
`booked` record whom they have acted for. A number is `user`, `ours`, `masked` or `none`.

The variable is one per process. As long as calls do not overlap it holds the right call
(`SerialCallsActForThemselves`); FindContext shows two that do, where a tool acts on the other call.

What else the code does: nothing clears the variable at the end of a call; `schedule_callback` may answer twice
(call_scheduler_tool.py:156-178), does not refuse a time that has passed, and reports an error when
the scheduler's answer was lost, though it may have booked; with `privacy` the
number is masked before the lookups and the transfer use it, while `session_metadata` is
not.

## AdvisorTools: one list, edited by two services

The agent begins without advisors or with one enabled. `Ask` is a request to the event-management service, `Decide` to `WriteAgent` its calls to the backend
and to Pipecat's API in their order, each of which may be denied. The service's handlers block, so
its own requests do not overlap; `EditAgent`, `CreateTool`, `UpdateTool`, `DeleteTool`,
`SwitchCredential` are what others do between two calls. Only a request to disable reads the tools of entries that are off
(`LooksAt`, `PassOver`). `calm` is history: nobody else has enabled
an advisor and every tool of the agent could be read; without it `EnabledOnce` could not hold.

What else the code does: the tools' list is read page by page, but `skip` is a parameter the API
does not have, so that every page is the newest one (`ReadPage`, `PageOfTools`); the agent's list is written back
whole, so an edit made meanwhile is lost; a tool whose agent could not be patched stays, and the retry is refused with
409 for its name; an inactive credential blocks the creation of another.

## AgentFetch: a configuration and a shared token

Sessions of one tenant: `TakeToken`, `MintToken`, `NoToken` are `TokenProvider` and its cache (`kept`,
`expires`), `Fetched`, `Renew`, `Refused`, `Retry`, `Failed` are `get_config`'s answers, `EndFetch` what
`create_session` or `get_and_consume_config` makes of the result, `FromLog` and
`FetchAgain` the connection. Sessions in `Old` were created before. Time is a clock;
`Latency` bounds for TLC how long Auth0's answer may be under way; the code gives that request no
timeout, and nothing is assumed of it. `expires_at` counts from the arrival, so each token carries how long its answer was
under way (`late`, read by the properties only). `LentTokenLives`: a lent token has not expired unless its own
answer took longer than the buffer. In the run it may (latency 2, buffer 1), and then an expired
token is lent: `EdgeExpiryAvoided`, what the buffer's comment promises, does not hold.

What else the code does: after a failed fetch the defaults are logged like a configuration
(session_manager.py:129), so the call that connects finds them and the second fetch the
comments speak of (session_manager.py:169, 288-289) does not happen; the fallback's `except`
does not name RuntimeError. `OAuth2AuthConfig` has no `cache_token` and no `token_expires_buffer`, so that
utils/oauth2_client.py:49 raises AttributeError for every tool that uses it, while
README.md:124 and docs/BUSINESS_TOOLS_GUIDE.md:132-145 describe its cache: the component is not modelled.

## SessionReports: what a session leaves

`artifacts` is the log's content, a function from types to functions from keys to "means something"; `MergeLists`,
`Merge`, `HasContent` are LogManager's merge over it. Files add up and are left out.
`FirstSave`, `Consume`/`SaveConfig`, `ReadLog`/`WriteLog` are its writers, the last two pairs with other writers between
the read and the write, each with the content it knows. `EmitStart`, `EmitEnd`, `EmitReady` put an event into `posts`, from where `Ingest` takes
them in any order: `IngestStart` opens a usage record, `IngestReady` closes it.

What else the code does: of two saves that overlap the second writes over what the first wrote
(log_manager.py:93-104), against the docstring of `_merge_artifact_lists`; `_has_saved` is
set before the save, which is not repeated if it fails; a file is listed also if its upload failed
(artifact_manager.py:280-288); an event is sent once; the usage id the service keeps
(ingest.py:19) is never used, and stays when the report never comes.

## FillerWords: a phrase while the answer is awaited

`Hear`, `UserStarts`, `UserStops`, `Interrupt` are the frames `FillerWordsProcessor.process_frame` acts on, `GiveUpStop` the
fallback of two seconds, `AskPhrase`, `SleepOn`, `SpeakFiller`, `Unwind` the task: asked for a phrase, asleep
for the rest of the delay, spoken if `_is_task_still_active`, and cancelled but not yet done. `heard` is the accumulated
text (a set: a text heard twice is kept once), `askedFor` the text the task was made for. `speaking`,
`answered` and `fillers` are history and the user's voice activity; `MaxFillers` bounds the fillers of a turn.

`FillerIsOfAllWords` is what the cancellations are for: no phrase is spoken that was made for less than the user has said.
Each transcript cancels the task of the words before it, and the task that a transcript after an early stop makes is
cancelled by the same transcript (lines 151 and 173-174), so that such a turn has no filler.

What else the code does: the processor stands before the LLM and never sees the frames of its answer that it cancels on, so a
filler may follow the begin of the answer; a running task is not cancelled when the user begins to speak
again before any transcript; the fallback and the stop may each speak one.

## SpeechRouting: one voice for a response

`ResponseStarts`, `Token`, `StrayToken`, `ResponseEnds` (with `Finish`) and `SpeakSentence` are the branches of
`MultiTTSRouter.process_frame`; `FindVoice` and `Findings` its `detect_language` and that of the one
`LanguageDetectionService` of the process, whose `_current_language` is `told`. A text is its
length and whether it has more than punctuation. `played` is what the services got since the response began, `response` what
the LLM sent; a text frame carries the first and the last of the tokens it was made of (`from`, `upto`), so that a lost, repeated or
misplaced token shows in the frames. A service may raise on any frame (`fails`): the router has chosen it by then and goes on with
the next frame. Nothing more is told of that response (`broken`). An end outside a response is the end of one without tokens. An interruption leaves the router as it is, so the next `ResponseStarts` may come at any point.

`ResponseIsSpokenWhole`: a response that is over was given to one service, all its tokens, between a start and an end,
unless a service failed with a part of this very response. What else
the code does: the language service is shared by all calls, so a text shorter than ten characters is
given to the voice of the language another call was found to speak (`ShortTextIsConsistent`), and its default is that of the
first call.

## TextChat: a session by text

`handler` is where `websocket_text_endpoint` and `run_websocket_text_bot` are, `worker` the pipeline: `Receive` is the loop,
`TakeFrame`, `SendReply`, `StoreReply`, `NoReply`, `HangUpChat` the pipeline with `WebSocketTextOutbound`, `StopReceiving` the ends
of the loop, `Drain` to `CloseChat` the finally block. A function the LLM has called along with its answer asks for another
answer (`StoreReply`), while the transcript is shorter than `MaxAnswered`. `transcript` is the accumulator both write;
`exchanged` is history: what the client has written and got.

`SavedTranscriptIsWhole` relates the two: nothing is added after the save, the summary was made of what is saved, and what
was exchanged is in it. The exception, `cutOff`, is a runner that had to be cancelled between the sending of a reply and
its storage. The session's state and log are those of SessionLifecycle and only read here.

What else the code does: a message that repeats one of the last five of its role is dropped, however late
(transcript_utils.py:32-41); the assistant's hangup ends the pipeline and not the loop, which receives
until the client leaves or is silent; the runner's `CancelledError` is no `Exception` (line 239), so a
clean-up that had to cancel it may end there, with the session IN_FLIGHT.

## Parts: nine small modules in one run

CallContext, AdvisorTools, AgentFetch, SessionReports, TranscriptionMute, CustomerProfiles, FillerWords,
SpeechRouting and TextChat share no variable and no step. MCParts chooses one of them in its initial states and lets only that one move, so
the run is nine runs one after the other, not their product. The variables of
the other eight keep one initial value.

| Run | Part | Instance | Shows |
|---|---|---|---|
| Parts | context | two calls, one of them a plain inbound one, the other one of eight setups; two tool calls, where whose context it is can be told | `SerialCallsActForThemselves`, `UserIsNotOurselves` |
| | advisors | two advisors, two names, pages of one tool, an agent without advisors or with one enabled, two requests, one edit | `EnabledOnce` |
| | fetch | two sessions, one created before; two tokens of life 2, buffer 1, answers under way for up to 2, one retry | `LentTokenLives`, `RefusalIsOfNewToken` |
| | reports | one session, two connections, with and without user and participants | `PatchNamesCreator`, `NoArtifactIsLost` |
| | mute | two pipelines, failing reads and writes | `VerdictsAreCurrent` |
| | profiles | an outbound and an inbound call of one customer, who may have called before, one request; window 1 | `HistoryIsWhole`, `InboundEndsClear`, `OptOutStands` |
| | fillers | two texts, two fillers in a turn | `FillerIsOfAllWords` |
| | voices | two calls, one with voices of both languages, one of one; words of 9 and 12 characters and 11 of punctuation, three in a response | `ResponseIsSpokenWhole` |
| | chat | two texts, two messages, answers followed up in a transcript of up to two messages, a repetition looked for in the last entry | `SavedTranscriptIsWhole` |
| | all | | `PartsTypeOK` (the types of the part that moves) |
| FindContext | context | the same | violates `ToolsActForTheirCall` |

Two calls let one call's context replace the other's, two tool calls let one be under way while that
happens, and the setups turn each switch once. An agent may begin with one advisor enabled (a1 under the name n1, which stand for any); two requests disable and enable it again, retry one whose answer was lost, or
enable an advisor twice; the edit comes between any two calls of them. Two tokens let one be refused and replaced while
another session sends the first. Two connections give two saves of each kind. Of the tokens one is too short to tell a language, one
is not, one is punctuation, and two or three cross the length that chooses a voice; a second
filler shows one of the fallback and one of the stop; looking back one entry, a second message finds the repetition only if no
reply came between. The requests, calls and
sessions end, so deadlock is not checked. Of the two calls x1 is the plain one; no liveness is checked in this run.

### What is proved (Services_proofs, Speech_proofs)

For every set of calls, sessions, logs and connections:

- `LentTokensLive` and `RefusalsAreOfNewTokens`, from `FetchInv`: `expires` is late by the time the kept
  token's answer was under way (`KeptIsDated`), a token that is sent is newer than the one refused (`SentIsNewer`), and the
  attempts left at each step (`AttemptsLeft`), which is what the type invariant's bound needs.
- `SerialCallsAct`, from `Alone`: without an overlap at most one call is neither away nor over, and the
  variable and what its tools have read name it. `UsersAreNotOurselves`, from `OwnSpeaksOfUser`: the
  algorithm's result by cases of the direction, for every line and switch.
- `PatchesNameCreator`, from `Names` and `Tells`: the log, every copy a save has read and every event know of
  a user exactly if one created the session. `NoArtifactsLost`, an action property, from lemmas about
  `MergeLists` for any two contents.
- `FillersAreOfAllWords`, from `FillerInv`: a task that may still speak was made for all that is heard as long as the time
  stamp stands, and without words there is no stamp.
- `SavedTranscriptsAreWhole`, from `ChatInv`: once the session is ended the pipeline is over, and until then what the client
  has got is recorded or under way; `AddedIsRecorded` says that a message that is not added is there already.
- `AdvisorsAreEnabledOnce`, from `AdvisorInv`, for any set of advisors, any page size and any number of requests and edits:
  while `calm` holds, an advisor that has an enabled entry and is being enabled is known already or its entry is still
  ahead in the view (`KnownOrAhead`); after `Decide` there is no such entry (`NotYetEnabled`), the tool to be enabled leads
  to the advisor asked for (`ItsOwnTool`), and the list about to be written back has each advisor at most once
  (`ViewMayBeWritten`), although it may be older than the agent's. `NoAdvisor` is not an advisor (`AdvisorsAssumption`). The smallest element of a finite set
  (`SmallestIsThere`, for the entry that `Switch` changes) is found by the well-foundedness of strict inclusion, since an
  induction over a predicate cannot be instantiated.
- `ResponsesAreSpokenWhole`, from `RoutingInv`, for any routers, voices, tokens and response lengths: while a response
  goes on, what its router has played is the response up to its last token by the voice found, or nothing, and then the text
  gathered has a sound exactly if the response has (`RouterOK`). Lemmas say what a text, an end and a first text
  do to frames that continue one another.
- `FramesAreJudgedCurrently` (see TranscriptionMute).
- the types of each of the nine parts, and `PartsTypeCorrect` ([]PartsTypeOK) from them and from CustomerProfiles_proofs: a step
  of MCParts is a step of one part and leaves the variables of the others alone (`PartsImplement`), which also carries every
  other theorem of a part over to the run's specification (`PartsKeepPromises`).
## Claims of the repository the code does not keep

Each is a definition at the end of its module, under the heading "What the repository says of
the program and the program does not do", with the sentence it states. Three have a run of
their own (`FindReopened`, `FindGate`, `FindContext`). The others are kept as definitions: adding
one to the configuration named here makes TLC print the behaviour that violates it.

| Module: definition | Violated in | What happens |
|---|---|---|
| SessionLifecycle: `TerminalStateIsFinal` | SessionPlivo | a second report rewrites the state a first one stored |
| SessionLifecycle: `FailedSetupIsRecorded` | SessionPlivo | an exception between the consumption of the configuration and the run leaves the session IN_FLIGHT |
| SessionLifecycle: `ProviderDurationPreferred` | SessionPlivo | a report that confirms the state stores no duration, so the computed one stays |
| SessionLifecycle: `LogShowsFinalState` | SessionPlivo | session and log are written one after the other by each of two handlers |
| SessionLifecycle: `ReportsKeepTransfer` | SessionTwilio | the status callback writes the whole metadata it read |
| WarmTransfer: `AnsweredSupervisorIsKept` | TransferFailures | the timer is cancelled seconds after the supervisor has answered |
| WarmTransfer: `TransferIsResolved` | TransferResolves with `Failures = {"dial"}` or `{"crash"}` | no timer is started after a refused call; a timer dies with its pod |
| WarmTransfer: `AnswerClosesSession` | TransferFailures | nothing ends the session when the supervisor answers |
| WarmTransfer: `AnsweredCallIsNotMissed` | TransferFailures | the state follows the cause of any leg |
| WarmTransfer: `TimeoutActsOnLiveTransfer` | TransferFailures with `Pods <- TwoPods`, `Failures = {}` | `cancel_warm_transfer_timeout` on another pod finds no timer, which then cuts an answered transfer |
| CallEnding: `VoicemailIsRecorded` | Conversation | a client that goes during the voicemail message ends the call as COMPLETED |
| CallEnding: `HangupIsReal` | Conversation | the result of a hangup refused during a transfer has the action "hangup"; reason and time are stored while the call goes on |
| CallEnding: `HangupReasonIsSaved` | Conversation | the observer's reason is replaced, the artifact's is not |
| CallEnding: `LateAnswerIsHeard` | Conversation | a user who speaks during the last prompt is disconnected |
| CallEnding: `IdleHandlerSurvives` | Conversation with `Retries = 4` | the index runs beyond the prompts and the handler raises |
| TranscriptionMute: `MuteIsImmediate` | Parts | the first frame after the manual mute is looked up in the database |
| TranscriptionMute: `TransferBlocks` | Parts | a failed read lets the customer's words pass |
| TranscriptionMute: `LiveFilterIsFound` | Parts | the end of one pipeline forgets the filter of the other |
| CustomerProfiles: `CallsAreCounted` | Parts | two calls that overlap write from the same copy; one is lost |
| CustomerProfiles: `IdentityIsExclusive` | Parts | check and insertion are two commands; fields named in a creation are not looked for |
| CustomerProfiles: `InboundKeepsClear` | Parts | a refused command leaves the opt-out of an inbound call |
| CustomerProfiles: `OptOutIsNeverUnset` | Parts | the clearing of an inbound call, and a late default object, unset it |
| CustomerProfiles: `OptOutIsHonoured` | Parts with `Calls = {"out","in","web"}`, `Past = {}`, `Requests = {}` | of two profiles of one number only the canonical one is asked |
| CustomerProfiles: `UnlinkedIsFree` | Parts with `Calls = {"in"}`, `Past = {}`, `Outbound = {}`, `Requests = {"a","b"}` | the email or phone field that linking filled still finds the profile |
| BusinessTools: `TokensAreOfConfiguration` | Tools | a refresh stores a token of the configuration it read before the change |
| BusinessTools: `OneRefreshAtATime` | Tools | locks belong to an executor; the request's own refreshes beside the pipeline's |
| BusinessTools: `RefreshFetches` | Tools | a manual refresh takes the token another call has stored since it cleared |
| BusinessTools: `PreRequestedOnce` | Tools | two calls both miss the cache before either has stored its result |
| PostCallActions: `NewLeadOnlyIfNoneFound` | PostCall | a lookup that is under way or was given up counts as "found no customer" |
| CallContext: `NeverOurselves` | Parts | without the direction, an outbound call over a tenant's own number takes ours for the user's |
| AdvisorTools: `DisabledMeansOff` | Parts | an advisor that was enabled twice is disabled once |
| AdvisorTools: `NamesAreUnique` | Parts | look-up and insertion are two commands, and an update does not look |
| AgentFetch: `EdgeExpiryAvoided` | Parts | an answer of Auth0 that takes longer than the buffer stores a token that expires before its entry |
| AgentFetch: `DefaultsAreNotUsed` | Parts | the defaults logged after a failed fetch are found by the call that connects |
| SessionReports: `NoArtifactIsOverwritten` | Parts | two saves write from the same copy |
| SessionReports: `UsageIdsAreAwaited` | Parts | a report that never comes leaves its usage id behind |
| FillerWords: `FillerPrecedesAnswer` | Parts | the LLM's frames do not pass the processor that should cancel on them |
| FillerWords: `FillerIsInSilence` | Parts | a task made by a stop speaks after the user has begun again without a transcript |
| FillerWords: `OneFillerPerTurn` | Parts | the fallback speaks, and then the stop |
| SpeechRouting: `ShortTextIsConsistent` | Parts | the language of a short text is that of another call |
| TextChat: `EveryMessageIsRecorded` | Parts | a client who says the same twice is recorded once |
| TextChat: `HangupEndsChat` | Parts | after the pipeline's end the loop goes on receiving |
| TextChat: `ClosedChatIsEnded` | Parts | the clean-up ends with the cancelled runner, or `end_session` fails |

## Not modelled

The components with status `not_modelled` in `PROJECT.json`. Contents of prompts, audio,
transcripts and profiles are data that no property tells apart. Provider APIs and the
database appear only as outcomes (success, refusal, exception). Secrets and
authorisation of API users are outside this project. The OAuth2 client's first step
reads fields its configuration does not have, so nothing of it runs. Liveness, ENABLED and recursive
functions stay with TLC, since TLAPS does not reach them.

Proofs or model checking alone: every invariant and every action property that a passing run
checks is also stated by a theorem, for the constants its assumptions name. The six liveness
properties, `FinishedCallIsClosed`, `TransferIsResolved`, `NobodyWaitsAlone`, `SilenceEndsCall`, `CallsEnd` and
`EverythingIsReleased`, are model-checked only: they rest on fairness, and what WF and SF say of
an action's being enabled is not expanded by the installed provers.

## Plan

1. Done: session lifecycle with its abstract record, warm transfer, call ending,
   voicemail gate, transcription filter, customer profiles, business tools with their
   credentials, post-call actions, call context, advisor tools, configuration fetch,
   reports, filler words, speech routing, chat; theorems for the safety of all of them.
2. Next: the registry of Plivo connections, the merge of configurations, tool calls in the
   transcript.
3. Composition: SessionLifecycle with WarmTransfer (the flag that keeps a session open)
   and CallEnding (the reason that selects the final state).
