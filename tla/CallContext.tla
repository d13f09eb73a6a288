----------------------------- MODULE CallContext -----------------------------
(***************************************************************************)
(* What a call knows of itself.  BaseAgent.set_session_context builds the   *)
(* context of a call (SessionContextService), keeps a copy on the call's    *)
(* agent for the prompt and the enrichment, and writes it to the variable   *)
(* of the module session_context_tool from which the tools of EVERY call in *)
(* the process read: hangup_call, warm_transfer, schedule_callback and      *)
(* rag_tool act on the call that variable names.                            *)
(***************************************************************************)
EXTENDS Naturals, Sequences, FiniteSets

CONSTANTS
  LiveCalls,  \* the calls one process serves
  Setups,     \* pairs of a line [kind, dir, known, shown, started] and a context_config
              \* [enabled, details, phones, direction, privacy]
  MaxTools    \* bound: tool calls

Transports == {"phone", "web"}
Directions == {"inbound", "outbound"}
\* dir: who called; known: our number is one of the settings' (a tenant's own is not);
\* shown: a participant has the user's number; started: the start message has it.
LineType == [kind : Transports, dir : Directions, known : BOOLEAN, shown : BOOLEAN, started : BOOLEAN]
ConfigType == [enabled : BOOLEAN, details : BOOLEAN, phones : BOOLEAN, direction : BOOLEAN, privacy : BOOLEAN]

ASSUME SetupsAssumption == Setups \subseteq [line : LineType, config : ConfigType]
ASSUME MaxToolsAssumption == MaxTools \in Nat

Tools == {"hangup_call", "warm_transfer", "schedule_callback", "rag_tool"}

VARIABLES
  setup,          \* of each call: its line and its configuration
  current,        \* _current_session_context
  own,            \* the agents' _session_context
  stage,          \* of each call: away, asked (for its context), set, talking, over
  sets,           \* how often the context is still to be set before the pipeline runs
  prompt,         \* the context the prompt and the enrichment were given
  transferring,   \* metadata.warm_transfer_active of each call's session
  use,            \* tool calls: off, read, posted (schedule_callback), answered
  seen,           \* the context a tool has read
  answers,        \* what schedule_callback has answered
  booked,         \* history: the callbacks booked, by tool call's call
  acted,          \* history: [tool, by, for]: a tool of a call acted for a call
  overlap         \* history: a call has begun while another one was not over

toolVars == <<use, seen, answers, booked, acted>>
contextVars == <<setup, current, own, stage, sets, prompt, transferring, use, seen, answers, booked, acted, overlap>>

-----------------------------------------------------------------------------
(* The numbers of a context: the user's, ours, masked, or none.              *)

\* run_pipeline's call_data: the direction is the one stored, or that of the first
\* participant; the numbers are the participants', or else the start message's from
\* and to.
CallData(l) ==
  LET user == IF l.shown \/ l.started THEN "user" ELSE "none"
  IN  [dir |-> l.dir,
       from |-> IF l.dir = "inbound" THEN user ELSE "ours",
       to |-> IF l.dir = "inbound" THEN "ours" ELSE user]

\* Mutant: both directions are read as inbound.
NumbersOfInbound(l, c) ==
  [user |-> CallData(l).from, agent |-> CallData(l).to]

\* By the direction; without one, by our numbers; the rest is taken as it comes.
Numbers(l, c) ==
  LET data == CallData(l)
      ours(n) == l.known /\ n = "ours"
      outbound == IF c.direction THEN data.dir = "outbound" ELSE ours(data.from)
  IN  IF outbound THEN [user |-> data.to, agent |-> data.from]
                  ELSE [user |-> data.from, agent |-> data.to]

Masked(n) == IF n = "none" THEN "none" ELSE "masked"
Mask(c, n) == IF c.privacy THEN Masked(n) ELSE n

\* _build_transport_context: what is missing is taken from the participants.
TransportNumbers(l, c) ==
  IF l.kind = "web" \/ ~c.details \/ ~c.phones THEN [user |-> "none", agent |-> "none"]
  ELSE LET n == Numbers(l, c)
           u == IF n.user = "none" /\ l.shown THEN "user" ELSE n.user
       IN  [user |-> Mask(c, u), agent |-> Mask(c, n.agent)]

\* _build_user_context: a participant's number is preferred to the call's.
UserNumber(l, c) ==
  LET data == CallData(l)
      n == IF data.dir = "outbound" THEN data.to ELSE data.from
  IN  IF l.kind = "web" \/ ~c.phones THEN "none"
      ELSE Mask(c, IF l.shown THEN "user" ELSE n)

NoContext == [for |-> "nobody", mode |-> "none", user |-> "none", agent |-> "none", contact |-> "none"]

\* build_session_context; after an error only the session and the tenant are known.
Context(x) ==
  LET n == TransportNumbers(setup[x].line, setup[x].config)
  IN  [for |-> x, mode |-> setup[x].line.kind, user |-> n.user, agent |-> n.agent,
       contact |-> UserNumber(setup[x].line, setup[x].config)]
Minimal(x) == [NoContext EXCEPT !.for = x, !.mode = "web"]

-----------------------------------------------------------------------------
(* A call begins.                                                            *)

ContextInit ==
  /\ setup \in [LiveCalls -> Setups]
  /\ current = NoContext /\ own = [x \in LiveCalls |-> NoContext]
  /\ stage = [x \in LiveCalls |-> "away"]
  /\ sets = [x \in LiveCalls |-> IF setup[x].line.kind = "web" THEN 2 ELSE 1]
  /\ prompt = [x \in LiveCalls |-> NoContext]
  /\ transferring = [x \in LiveCalls |-> FALSE]
  /\ use = [x \in LiveCalls |-> [t \in Tools |-> "off"]]
  /\ seen = [x \in LiveCalls |-> [t \in Tools |-> NoContext]]
  /\ answers = [x \in LiveCalls |-> <<>>]
  /\ booked = [x \in LiveCalls |-> 0] /\ acted = {} /\ overlap = FALSE

\* The transport service or run_pipeline asks for the context; the session is read.
AskContext(x) ==
  /\ stage[x] \in {"away", "set"} /\ sets[x] > 0
  /\ stage' = [stage EXCEPT ![x] = "asked"]
  /\ overlap' = (overlap \/ \E y \in LiveCalls \ {x} : stage[y] \notin {"away", "over"})
  /\ UNCHANGED <<setup, current, own, sets, prompt, transferring, toolVars>>

\* context_config is disabled: what the tools read stays as it is.
SkipContext(x) ==
  /\ stage[x] = "asked" /\ ~setup[x].config.enabled
  /\ own' = [own EXCEPT ![x] = NoContext]
  /\ stage' = [stage EXCEPT ![x] = "set"] /\ sets' = [sets EXCEPT ![x] = @ - 1]
  /\ UNCHANGED <<setup, current, prompt, transferring, toolVars, overlap>>

\* Mutant: a context that is there is kept.
SetFirstContext(x) ==
  /\ stage[x] = "asked" /\ setup[x].config.enabled
  /\ own' = [own EXCEPT ![x] = Context(x)]
  /\ current' = IF current = NoContext THEN Context(x) ELSE current
  /\ stage' = [stage EXCEPT ![x] = "set"] /\ sets' = [sets EXCEPT ![x] = @ - 1]
  /\ UNCHANGED <<setup, prompt, transferring, toolVars, overlap>>

\* When a later step fails (the session's summary), the agent forgets the context, the
\* tools do not.
SetContext(x) ==
  /\ stage[x] = "asked" /\ setup[x].config.enabled
  /\ current' \in {Context(x), Minimal(x)}
  /\ own' \in {[own EXCEPT ![x] = current'], [own EXCEPT ![x] = NoContext]}
  /\ stage' = [stage EXCEPT ![x] = "set"] /\ sets' = [sets EXCEPT ![x] = @ - 1]
  /\ UNCHANGED <<setup, prompt, transferring, toolVars, overlap>>

\* get_services, and the pipeline runs.
Talk(x) ==
  /\ stage[x] = "set" /\ sets[x] = 0
  /\ stage' = [stage EXCEPT ![x] = "talking"] /\ prompt' = [prompt EXCEPT ![x] = own[x]]
  /\ UNCHANGED <<setup, current, own, sets, transferring, toolVars, overlap>>

\* The variable keeps the context of a call that is over.
EndCall(x) ==
  /\ stage[x] = "talking" /\ stage' = [stage EXCEPT ![x] = "over"]
  /\ UNCHANGED <<setup, current, own, sets, prompt, transferring, toolVars, overlap>>

CallStep(x) == AskContext(x) \/ SkipContext(x) \/ SetContext(x) \/ Talk(x) \/ EndCall(x)

-----------------------------------------------------------------------------
(* Its tools.                                                                *)

callVars == <<setup, current, own, sets, prompt, overlap>>
Used == Cardinality({p \in LiveCalls \X Tools : use[p[1]][p[2]] # "off"})

Acts(t, x) == acted' = acted \cup {[tool |-> t, by |-> x, for |-> seen[x][t].for]}
Go(x, t, s) == use' = [use EXCEPT ![x][t] = s]
Say(x, a) == answers' = [answers EXCEPT ![x] = Append(@, a)]
Quiet == UNCHANGED answers

\* Each reads the variable first, and acts on what it has read.
ReadContext(x, t) ==
  /\ stage[x] = "talking" /\ use[x][t] = "off" /\ Used < MaxTools
  /\ seen' = [seen EXCEPT ![x][t] = current] /\ Go(x, t, "read")
  /\ UNCHANGED <<callVars, stage, transferring, answers, booked, acted>>

\* Without a context, on a line that has no call control, without a tenant or an HTTP
\* session, for a query or a time that cannot be read, or after an exception.
RefuseTool(x, t) ==
  /\ use[x][t] = "read" /\ t # "hangup_call"
  /\ Go(x, t, "answered") /\ (IF t = "schedule_callback" THEN Say(x, "error") ELSE Quiet)
  /\ UNCHANGED <<callVars, stage, transferring, seen, booked, acted>>

\* hangup_call, when the session it found is being transferred.
BlockHangup(x) ==
  /\ use[x]["hangup_call"] = "read"
  /\ seen[x]["hangup_call"] # NoContext /\ transferring[seen[x]["hangup_call"].for]
  /\ Go(x, "hangup_call", "answered") /\ Quiet
  /\ Acts("hangup_call", x)
  /\ UNCHANGED <<callVars, stage, transferring, seen, booked>>

\* Otherwise: not being transferred is that of the session it found; and when none could
\* be read.
HangUp(x) ==
  /\ use[x]["hangup_call"] = "read"
  /\ Go(x, "hangup_call", "answered") /\ Quiet
  /\ acted' \in {acted} \cup
       {acted \cup {[tool |-> "hangup_call", by |-> x, for |-> y]} :
          y \in {z \in LiveCalls : z = seen[x]["hangup_call"].for /\ ~transferring[z]}}
  /\ stage' = [stage EXCEPT ![x] = "over"]
  /\ UNCHANGED <<callVars, transferring, seen, booked>>

\* warm_transfer: hold, call the supervisor, mark the session, merge.
Transfer(x) ==
  /\ use[x]["warm_transfer"] = "read" /\ seen[x]["warm_transfer"].mode = "phone"
  /\ Go(x, "warm_transfer", "answered") /\ Quiet
  /\ transferring' = [transferring EXCEPT ![seen[x]["warm_transfer"].for] = TRUE]
  /\ Acts("warm_transfer", x)
  /\ UNCHANGED <<callVars, stage, seen, booked>>

\* rag_tool, with the tokens of the context's tenant.
Query(x) ==
  /\ use[x]["rag_tool"] = "read" /\ seen[x]["rag_tool"] # NoContext
  /\ Go(x, "rag_tool", "answered") /\ Quiet /\ Acts("rag_tool", x)
  /\ UNCHANGED <<callVars, stage, transferring, seen, booked>>

\* schedule_callback posts the context's tenant, session and user.  The scheduler may
\* have booked the callback although its answer is late or lost.
PostCallback(x) ==
  /\ use[x]["schedule_callback"] = "read" /\ seen[x]["schedule_callback"] # NoContext
  /\ booked' = [booked EXCEPT ![x] = @ + 1] /\ Acts("schedule_callback", x)
  /\ \/ Go(x, "schedule_callback", "posted") /\ Quiet
     \/ Go(x, "schedule_callback", "answered") /\ Say(x, "error")
  /\ UNCHANGED <<callVars, stage, transferring, seen>>

\* The words for the user follow the answer; when they fail, there is a second answer.
ConfirmCallback(x) ==
  /\ use[x]["schedule_callback"] = "posted" /\ Go(x, "schedule_callback", "answered")
  /\ answers' \in {[answers EXCEPT ![x] = s] : s \in {<<"success">>, <<"success", "error">>}}
  /\ UNCHANGED <<callVars, stage, transferring, seen, booked, acted>>

ToolStep(x) ==
  \/ \E t \in Tools : ReadContext(x, t) \/ RefuseTool(x, t)
  \/ BlockHangup(x) \/ HangUp(x) \/ Transfer(x) \/ Query(x) \/ PostCallback(x) \/ ConfirmCallback(x)

ContextNext == \E x \in LiveCalls : CallStep(x) \/ ToolStep(x)

CallContextSpec == ContextInit /\ [][ContextNext]_contextVars

-----------------------------------------------------------------------------
(* Properties.                                                               *)

Numbered == {"user", "ours", "masked", "none"}
ContextType ==
  {NoContext} \cup [for : LiveCalls, mode : Transports, user : Numbered, agent : Numbered, contact : Numbered]

\* Types; the context is set as often as the transport asks for it.
ContextTypeOK ==
  /\ setup \in [LiveCalls -> Setups] /\ current \in ContextType
  /\ own \in [LiveCalls -> ContextType] /\ prompt \in [LiveCalls -> ContextType]
  /\ stage \in [LiveCalls -> {"away", "asked", "set", "talking", "over"}] /\ sets \in [LiveCalls -> 0 .. 2]
  /\ transferring \in [LiveCalls -> BOOLEAN] /\ overlap \in BOOLEAN
  /\ use \in [LiveCalls -> [Tools -> {"off", "read", "posted", "answered"}]]
  /\ seen \in [LiveCalls -> [Tools -> ContextType]]
  /\ answers \in [LiveCalls -> Seq({"success", "error"})] /\ booked \in [LiveCalls -> Nat]
  /\ acted \subseteq [tool : Tools, by : LiveCalls, for : LiveCalls]
  /\ \A x \in LiveCalls : stage[x] = "asked" => sets[x] > 0

\* As long as the calls of a process do not overlap, a tool acts for the call it belongs
\* to, unless that call has switched its context off: the context is set before the
\* pipeline runs, by every transport, and again by run_pipeline.
SerialCallsActForThemselves ==
  ~overlap => \A a \in acted : a.by = a.for \/ ~setup[a.by].config.enabled

\* A number that the configuration lets a context say is the user's: neither the prompt, nor the
\* lookup of the profile or of the customer, nor get_session_info takes our number for it,
\* and its two parts do not contradict each other.  Where the direction is not to be
\* included, that takes a number of ours which the settings know.
UserIsNotOurselves ==
  \A x \in LiveCalls : LET c == own[x] IN
    c # NoContext /\ (setup[x].config.direction \/ setup[x].line.known) =>
      /\ c.user # "ours" /\ c.contact # "ours" /\ c.agent # "user"
      /\ "none" \in {c.user, c.contact} \/ c.user = c.contact
      /\ setup[x].config.privacy => "user" \notin {c.user, c.contact} /\ c.agent # "ours"

\* The docstrings' promise ("Caller A (the original inbound caller) is placed on hold"):
\* a tool acts for the call whose user has asked for it.  The code does not keep it when
\* a process serves two calls.
ToolsActForTheirCall == \A a \in acted : a.by = a.for

\* Without the direction and with a number of the tenant's own, an outbound call's user is
\* taken to be our number.  The code does not keep it.
NeverOurselves == \A x \in LiveCalls : own[x].user # "ours"
=============================================================================
