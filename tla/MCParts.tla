------------------------------ MODULE MCParts --------------------------------
(* Nine parts that share no state, one per behaviour: the context the tools   *)
(* of two calls read, the advisor tools of an agent, the fetch of two         *)
(* sessions' configurations, the reports of a session with two connections,   *)
(* the transcription filters of a session with two pipelines, the profiles of *)
(* a customer with two calls, a request and a window of one summary, the      *)
(* fillers of a call, the voices of two calls, and a chat.                    *)
EXTENDS CallContext, AdvisorTools, AgentFetch, SessionReports, TranscriptionMute, CustomerProfiles,
        FillerWords, SpeechRouting, TextChat

CONSTANTS x1, x2, a1, a2, n1, n2

VARIABLE part  \* the one that takes steps

(* A plain inbound call, and with it a second one: from the web, outbound     *)
(* over a number that the settings know or one they do not, or with a switch  *)
(* of context_config turned.  The tools read whose context it is and on which *)
(* transport; where only the numbers differ they are not used.                *)
Phone(dir, isKnown, shown) == [kind |-> "phone", dir |-> dir, known |-> isKnown, shown |-> shown, started |-> FALSE]
Web == [kind |-> "web", dir |-> "inbound", known |-> FALSE, shown |-> FALSE, started |-> FALSE]
AllOn == [enabled |-> TRUE, details |-> TRUE, phones |-> TRUE, direction |-> TRUE, privacy |-> FALSE]

Plain == [line |-> Phone("inbound", TRUE, FALSE), config |-> AllOn]
ToolSetups ==
  {Plain,
   [line |-> Phone("outbound", FALSE, TRUE), config |-> AllOn],
   [line |-> Phone("inbound", TRUE, TRUE), config |-> [AllOn EXCEPT !.enabled = FALSE]],
   [line |-> Web, config |-> AllOn]}
NumberSetups ==
  {[Plain EXCEPT !.line.started = TRUE],
   [line |-> Phone("outbound", FALSE, TRUE), config |-> [AllOn EXCEPT !.privacy = TRUE]],
   [line |-> Phone("outbound", TRUE, TRUE), config |-> [AllOn EXCEPT !.direction = FALSE]],
   [line |-> Phone("outbound", FALSE, TRUE), config |-> [AllOn EXCEPT !.direction = FALSE]],
   [line |-> Phone("inbound", TRUE, TRUE), config |-> [AllOn EXCEPT !.phones = FALSE]]}
SomeSetups == ToolSetups \cup NumberSetups
OnlyNumbersDiffer == \E x \in LiveCalls : setup[x] \in NumberSetups

AnyGiven == [user : BOOLEAN, people : BOOLEAN]
OneCustomer == [c \in Calls |-> CHOOSE p \in Phones : TRUE]

\* Of two calls one has voices of both languages.  A word of nine characters is too short
\* to tell a language, one of twelve is not, and two or three tokens choose a voice.
TwoVoices == [r \in Routers |-> IF r = "first" THEN Languages ELSE {"hi"}]
OwnDefault == [r \in Routers |-> IF r = "first" THEN "en" ELSE "hi"]
SomeTokens == {<<9, TRUE>>, <<12, TRUE>>, <<11, FALSE>>}

PartsInit ==
  /\ part \in {"context", "advisors", "fetch", "reports", "mute", "profiles", "fillers", "voices", "chat"}
  /\ ContextInit /\ AdvisorInit /\ FetchInit /\ ReportsInit /\ MuteInit /\ Init
  /\ FillerInit /\ RoutingInit /\ ChatInit
  /\ part # "voices" => told = "en"
  /\ part # "chat" => state = "none"
  /\ IF part = "context" THEN setup[x1] = Plain /\ setup[x2] # Plain ELSE \A x \in LiveCalls : setup[x] = Plain
  /\ docs # <<>> => part = "advisors" /\ docs[1].name = n1 /\ docs[1].advisor = a1
  /\ part # "reports" => given = [l \in Logs |-> CHOOSE g \in Given : TRUE]
  /\ part # "profiles" => profiles = <<>>

lateVars == <<fillerVars, routingVars, chatVars>>
earlyVars == <<contextVars, advisorVars, fetchVars, reportVars, muteVars, vars>>

PartsNext ==
  /\ part' = part
  /\ \/ part = "context" /\ ContextNext /\ (OnlyNumbersDiffer => Used' = 0)
        /\ UNCHANGED <<advisorVars, fetchVars, reportVars, muteVars, vars, lateVars>>
     \/ part = "advisors" /\ AdvisorNext /\ UNCHANGED <<contextVars, fetchVars, reportVars, muteVars, vars, lateVars>>
     \/ part = "fetch" /\ FetchNext /\ UNCHANGED <<contextVars, advisorVars, reportVars, muteVars, vars, lateVars>>
     \/ part = "reports" /\ ReportsNext /\ UNCHANGED <<contextVars, advisorVars, fetchVars, muteVars, vars, lateVars>>
     \/ part = "mute" /\ MuteNext /\ UNCHANGED <<contextVars, advisorVars, fetchVars, reportVars, vars, lateVars>>
     \/ part = "profiles" /\ Next /\ UNCHANGED <<contextVars, advisorVars, fetchVars, reportVars, muteVars, lateVars>>
     \/ part = "fillers" /\ FillerNext /\ UNCHANGED <<routingVars, chatVars, earlyVars>>
     \/ part = "voices" /\ RoutingNext /\ UNCHANGED <<fillerVars, chatVars, earlyVars>>
     \/ part = "chat" /\ ChatNext /\ UNCHANGED <<fillerVars, routingVars, earlyVars>>

PartsSpec == PartsInit /\ [][PartsNext]_<<part, earlyVars, lateVars>>

\* The types of the nine parts, each where it takes steps; elsewhere it stays as it began.
PartsTypeOK ==
  /\ part = "context" => ContextTypeOK
  /\ part = "advisors" => AdvisorTypeOK
  /\ part = "fetch" => FetchTypeOK
  /\ part = "reports" => ReportsTypeOK
  /\ part = "mute" => MuteTypeOK
  /\ part = "profiles" => TypeOK
  /\ part = "fillers" => FillerTypeOK
  /\ part = "voices" => RoutingTypeOK
  /\ part = "chat" => ChatTypeOK
=============================================================================
