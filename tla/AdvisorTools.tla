----------------------------- MODULE AdvisorTools -----------------------------
(***************************************************************************)
(* The event-management service's administration of an agent's advisor      *)
(* tools.  It keeps no state of its own: a request reads the agent from the *)
(* backend, the tools and the credential from Pipecat's API, one HTTP call  *)
(* after the other, creates what is missing and writes the agent's list of  *)
(* tools back.  Its handlers block, so its own requests are served one      *)
(* after the other; whoever edits the agent, the tools or the credential    *)
(* through the other services comes in between.                             *)
(***************************************************************************)
EXTENDS Naturals, Sequences, FiniteSets, SequencesExt, FiniteSetsExt

CONSTANTS
  Advisors,     \* Circuitry's advisors
  Names,        \* names a tool may be given
  Limit,        \* page_limit
  MaxRequests,  \* bound: requests to the service
  MaxEdits      \* bound: what others do

ASSUME LimitAssumption == Limit \in Nat \ {0}
ASSUME MaxRequestsAssumption == MaxRequests \in Nat
ASSUME MaxEditsAssumption == MaxEdits \in Nat

VARIABLES
  docs,        \* Pipecat's business tools [name, advisor, there] in the order of creation
  credential,  \* Circuitry's credential at Pipecat: absent, active, inactive
  entries,     \* the agent's business_tools [doc, on], as the backend has them
  job,         \* the request [ask, advisor, name]
  step,        \* the request's next call
  view,        \* the entries as the request has read them
  known,       \* the advisors of the entries read so far
  doc,         \* the tool to enable or disable
  page,        \* the pages read
  found,       \* the tools found on them
  reply,       \* [text, advisor] of the last request
  calm,        \* history: every tool was read, and no other switched an advisor on
  served, edits

agentVars == <<docs, credential, entries>>
requestVars == <<job, step, view, known, doc, page, found, reply>>
advisorVars == <<docs, credential, entries, job, step, view, known, doc, page, found, reply, calm, served, edits>>

There == {d \in DOMAIN docs : docs[d].there}
NameTaken(n) == \E d \in There : docs[d].name = n
NoAdvisor == "none"

ASSUME AdvisorsAssumption == NoAdvisor \notin Advisors

\* patch_agent_add_tool and patch_agent_set_tool_enabled: the first entry of the
\* tool is set, or one is appended.
Switch(s, d, on_) ==
  LET at == {i \in DOMAIN s : s[i].doc = d}
  IN  IF at = {} THEN Append(s, [doc |-> d, on |-> on_]) ELSE [s EXCEPT ![Min(at)].on = on_]

\* An agent without advisors, or with one that an earlier request has enabled.
AdvisorInit ==
  /\ \/ docs = <<>> /\ credential = "absent" /\ entries = <<>>
     \/ /\ \E n \in Names, a \in Advisors : docs = <<[name |-> n, advisor |-> a, there |-> TRUE]>>
        /\ credential = "active" /\ entries = <<[doc |-> 1, on |-> TRUE]>>
  /\ job = [ask |-> "none", advisor |-> NoAdvisor, name |-> "none"]
  /\ step = "idle" /\ view = <<>> /\ known = {} /\ doc = 0 /\ page = 0 /\ found = {}
  /\ reply = [text |-> "none", advisor |-> NoAdvisor]
  /\ calm = TRUE /\ served = 0 /\ edits = 0

Reply(text) == step' = "idle" /\ reply' = [text |-> text, advisor |-> job.advisor]
Continue(at) == step' = at /\ reply' = reply

\* A call fails, was not configured, or its answer is an error: HTTP 502.
Deny == Reply("502")

\* A request; the name only matters where a tool is created.
Ask ==
  /\ step = "idle" /\ served < MaxRequests
  /\ \E a \in Advisors :
       \/ \E n \in Names : job' = [ask |-> "enable", advisor |-> a, name |-> n]
       \/ \E q \in {"disable", "list", "agents"} : job' = [ask |-> q, advisor |-> a, name |-> "none"]
  /\ Continue(IF job'.ask = "agents" THEN "page" ELSE "agent")
  /\ view' = <<>> /\ known' = {} /\ doc' = 0 /\ page' = 0 /\ found' = {} /\ served' = served + 1
  /\ UNCHANGED <<agentVars, calm, edits>>

\* get_agent.
ReadAgent ==
  /\ step = "agent"
  /\ \/ Deny /\ view' = view
     \/ Continue("entries") /\ view' = entries
  /\ UNCHANGED <<agentVars, job, known, doc, page, found, calm, served, edits>>

\* To disable, every entry is looked at, otherwise the enabled ones.
LooksAt(e) == job.ask = "disable" \/ e.on

PassOver ==
  /\ step = "entries" /\ view # <<>> /\ ~LooksAt(Head(view))
  /\ view' = Tail(view)
  /\ UNCHANGED <<agentVars, job, step, known, doc, page, found, reply, calm, served, edits>>

\* get_pipecat_business_tool of the next entry; a tool that cannot be read is passed over.
ReadTool ==
  /\ step = "entries" /\ view # <<>> /\ LooksAt(Head(view))
  /\ \E ok \in BOOLEAN :
       LET e == Head(view)
           advisor == IF ok /\ e.doc \in There THEN docs[e.doc].advisor ELSE NoAdvisor
       IN  /\ calm' = (calm /\ ok)
           /\ IF job.ask = "disable" /\ advisor = job.advisor
              THEN /\ IF e.on THEN Continue("patch") ELSE Reply("already disabled")
                   /\ doc' = e.doc /\ UNCHANGED <<view, known>>
              ELSE /\ Continue("entries")
                   /\ view' = Tail(view) /\ known' = known \cup ({advisor} \ {NoAdvisor}) /\ doc' = doc
  /\ UNCHANGED <<agentVars, job, page, found, served, edits>>

\* Mutant: an advisor that is enabled already is enabled once more.
DecideWithoutCheck ==
  /\ step = "entries" /\ view = <<>>
  /\ CASE job.ask = "disable" -> Reply("not attached")
       [] job.ask = "list" -> Reply("advisors")
       [] OTHER -> Continue("tools")
  /\ UNCHANGED <<agentVars, job, view, known, doc, page, found, calm, served, edits>>

Decide ==
  /\ step = "entries" /\ view = <<>>
  /\ CASE job.ask = "disable" -> Reply("not attached")
       [] job.ask = "list" -> Reply("advisors")
       [] job.advisor \in known -> Reply("enabled already")
       [] OTHER -> Continue("tools")
  /\ UNCHANGED <<agentVars, job, view, known, doc, page, found, calm, served, edits>>

\* get_pipecat_business_tools answers with summaries, in which find_tool_by_advisor_id
\* finds no advisor: a tool is created every time.
ListTools ==
  /\ step = "tools"
  /\ Deny \/ Continue("credential")
  /\ UNCHANGED <<agentVars, job, view, known, doc, page, found, calm, served, edits>>

\* get_or_create_circuitry_credential_id: one that is inactive is found as well.
Credential ==
  /\ step = "credential"
  /\ \/ Deny /\ credential' = credential
     \/ credential # "absent" /\ Continue("name") /\ credential' = credential
     \/ credential = "absent" /\ (Continue("name") \/ Deny) /\ credential' = "active"
  /\ UNCHANGED <<docs, entries, job, view, known, doc, page, found, calm, served, edits>>

\* Pipecat's create_tool looks for the name and at the credential ...
CheckName ==
  /\ step = "name"
  /\ \/ Deny
     \/ NameTaken(job.name) /\ Reply("name taken")
     \/ ~NameTaken(job.name) /\ credential = "active" /\ Continue("insert")
  /\ UNCHANGED <<agentVars, job, view, known, doc, page, found, calm, served, edits>>

\* ... and inserts the document; the answer may get lost.
InsertTool ==
  /\ step = "insert"
  /\ \/ Deny /\ UNCHANGED <<docs, doc>>
     \/ /\ docs' = Append(docs, [name |-> job.name, advisor |-> job.advisor, there |-> TRUE])
        /\ \/ Continue("patch") /\ doc' = Len(docs')
           \/ Deny /\ doc' = doc
  /\ UNCHANGED <<credential, entries, job, view, known, page, found, calm, served, edits>>

\* The patch reads the agent once more ...
ReadAgain ==
  /\ step = "patch"
  /\ \/ Deny /\ view' = view
     \/ /\ job.ask = "enable" /\ [doc |-> doc, on |-> TRUE] \in Range(entries)
        /\ Reply("enabled") /\ view' = view
     \/ /\ job.ask = "disable" \/ [doc |-> doc, on |-> TRUE] \notin Range(entries)
        /\ Continue("write") /\ view' = entries
  /\ UNCHANGED <<agentVars, job, known, doc, page, found, calm, served, edits>>

\* ... and writes its tools as a whole, from what it has read.
WriteAgent ==
  /\ step = "write"
  /\ \/ Deny /\ entries' = entries
     \/ /\ entries' = Switch(view, doc, job.ask = "enable")
        /\ Reply(IF job.ask = "enable" THEN "enabled" ELSE "disabled") \/ Deny
  /\ UNCHANGED <<docs, credential, job, view, known, doc, page, found, calm, served, edits>>

\* The list's parameter is page, the client sends skip: each page is the newest tools.
PageOfTools == {d \in There : Cardinality({e \in There : e > d}) < Limit}

\* One round of resolve_all_business_tool_ids_for_advisor: the page, and each of its
\* tools in parallel; those that cannot be read are missing.
ReadPage ==
  /\ step = "page"
  /\ \/ Deny /\ UNCHANGED <<page, found>>
     \/ \E unread \in SUBSET PageOfTools :
          LET n == Cardinality(PageOfTools)
              last == n < Limit \/ page * Limit + n >= Cardinality(There)
          IN  /\ found' = found \cup {d \in PageOfTools \ unread : docs[d].advisor = job.advisor}
              /\ page' = page + 1
              /\ IF ~last THEN Continue("page")
                 ELSE IF found' = {} THEN Reply("no agents") ELSE Continue("agents")
  /\ UNCHANGED <<agentVars, job, view, known, doc, calm, served, edits>>

\* list_agents, and those with an enabled entry among the tools found.
ListAgents ==
  /\ step = "agents"
  /\ \/ Deny
     \/ Reply(IF \E i \in DOMAIN entries : entries[i].on /\ entries[i].doc \in found THEN "agents" ELSE "no agents")
  /\ UNCHANGED <<agentVars, job, view, known, doc, page, found, calm, served, edits>>

RequestStep ==
  \/ Ask \/ ReadAgent \/ PassOver \/ ReadTool \/ Decide \/ ListTools \/ Credential \/ CheckName \/ InsertTool
  \/ ReadAgain \/ WriteAgent \/ ReadPage \/ ListAgents

-----------------------------------------------------------------------------
(* What others do through the backend and through Pipecat's own API.         *)

Other == edits < MaxEdits /\ edits' = edits + 1 /\ UNCHANGED <<requestVars, served>>

\* The backend: an entry is switched, added or taken out.
EditAgent ==
  /\ Other
  /\ \/ \E d \in There, on_ \in BOOLEAN : entries' = Switch(entries, d, on_) /\ calm' = (calm /\ ~on_)
     \/ \E i \in DOMAIN entries : entries' = RemoveAt(entries, i) /\ calm' = calm
  /\ UNCHANGED <<docs, credential>>

\* create_tool for somebody else.
CreateTool ==
  /\ Other
  /\ \E n \in Names, a \in Advisors :
       ~NameTaken(n) /\ docs' = Append(docs, [name |-> n, advisor |-> a, there |-> TRUE])
  /\ UNCHANGED <<credential, entries, calm>>

\* update_tool: a new name is not looked for; the configuration names another advisor.
UpdateTool ==
  /\ Other
  /\ \E d \in There :
       \/ \E n \in Names : docs' = [docs EXCEPT ![d].name = n] /\ calm' = calm
       \/ \E a \in Advisors \ {docs[d].advisor} : docs' = [docs EXCEPT ![d].advisor = a] /\ calm' = FALSE
  /\ UNCHANGED <<credential, entries>>

\* delete_tool leaves the agents' entries.
DeleteTool ==
  /\ Other
  /\ \E d \in There : docs' = [docs EXCEPT ![d].there = FALSE]
  /\ UNCHANGED <<credential, entries, calm>>

\* The credential's soft delete, and an update that sets is_active.
SwitchCredential ==
  /\ Other
  /\ credential # "absent"
  /\ credential' = IF credential = "active" THEN "inactive" ELSE "active"
  /\ UNCHANGED <<docs, entries, calm>>

OtherStep == EditAgent \/ CreateTool \/ UpdateTool \/ DeleteTool \/ SwitchCredential

AdvisorNext == RequestStep \/ OtherStep

AdvisorToolsSpec == AdvisorInit /\ [][AdvisorNext]_advisorVars

-----------------------------------------------------------------------------
(* Properties.                                                               *)

\* Types; every entry leads to a tool that there is or was.
AdvisorTypeOK ==
  /\ docs \in Seq([name : Names, advisor : Advisors, there : BOOLEAN])
  /\ credential \in {"absent", "active", "inactive"}
  /\ entries \in Seq([doc : DOMAIN docs, on : BOOLEAN]) /\ view \in Seq([doc : DOMAIN docs, on : BOOLEAN])
  /\ step \in {"idle", "agent", "entries", "tools", "credential", "name", "insert", "patch", "write", "page", "agents"}
  /\ known \subseteq Advisors /\ found \subseteq DOMAIN docs /\ page \in Nat
  /\ doc \in {0} \cup DOMAIN docs /\ (step \in {"patch", "write"} => doc # 0)
  /\ job \in [ask : {"none", "enable", "disable", "list", "agents"}, advisor : Advisors \cup {NoAdvisor},
               name : Names \cup {"none"}]
  /\ calm \in BOOLEAN /\ served \in 0 .. MaxRequests /\ edits \in 0 .. MaxEdits

Enabled(a) == {i \in DOMAIN entries : entries[i].on /\ entries[i].doc \in There /\ docs[entries[i].doc].advisor = a}

\* An advisor is enabled at most once on an agent, whatever fails or is retried, and
\* whatever others switch off, rename or delete meanwhile, as long as no other
\* enables an advisor and the tools of the agent could be read.
EnabledOnce == calm => \A a \in Advisors : Cardinality(Enabled(a)) <= 1

\* When the service has answered that an advisor is disabled, or was not attached,
\* no enabled tool of the agent leads to it.  The code does not keep it.
DisabledMeansOff ==
  /\ calm
  /\ step = "idle"
  /\ reply.text \in {"disabled", "already disabled", "not attached"}
  => Enabled(reply.advisor) = {}

\* What the service takes a name for.  Neither an update nor two creations keep it.
NamesAreUnique == \A d, e \in There : docs[d].name = docs[e].name => d = e
=============================================================================
