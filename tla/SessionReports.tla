---------------------------- MODULE SessionReports ----------------------------
(***************************************************************************)
(* What a session leaves behind.  Every save of its log reads the artifacts *)
(* that are there, merges the new ones in and writes them all (LogManager). *)
(* A session that two connections reach has two pipelines, each with its    *)
(* own ArtifactManager and its own final save.  SessionManager and          *)
(* ArtifactManager tell the event-management service, no event twice and    *)
(* with ten seconds to be answered, and that service opens a usage record   *)
(* at Circuitry for the start and closes it for the artifacts.              *)
(***************************************************************************)
EXTENDS Naturals, FiniteSets

CONSTANTS
  Logs,   \* the sessions, each with one log
  Pipes,  \* the connections a session may be reached by
  Given   \* pairs [user, people]: was the session created by a user, with participants?

ASSUME GivenAssumption == Given \subseteq [user : BOOLEAN, people : BOOLEAN]

VARIABLES
  given,     \* of each session: what it was created with
  at,        \* of each session: new, logged, open
  pipe,      \* of each connection: off, consuming, talking, ended, saving, written, over
  snapshot,  \* the artifacts its save has read
  artifacts, \* the log's content: an artifact for each type it has
  posts,     \* events on their way: [event, log, named, by]
  usageIds,  \* _circuitry_usage_id_by_log_id
  records,   \* Circuitry's usage records, by log id: none, in_progress, succeeded
  patches    \* history: the user a PATCH has named, for each log: unsent, none, user

reportVars == <<given, at, pipe, snapshot, artifacts, posts, usageIds, records, patches>>

-----------------------------------------------------------------------------
(* The artifacts.  One is a function from the keys of its content to whether *)
(* the value means anything; those that are files add up and are left out.   *)

\* A function on the keys of both; the first one's values are preferred.
Join(f, g) == [k \in DOMAIN f \cup DOMAIN g |-> IF k \in DOMAIN f THEN f[k] ELSE g[k]]

HasContent(a) == \E k \in DOMAIN a : a[k]

\* Mutant: the later artifact of a type stands alone.
MergeReplacing(old, new) == IF ~HasContent(new) /\ HasContent(old) THEN old ELSE new

\* _merge_non_file_artifact, and _deep_merge_dict on one level.
Merge(old, new) == IF ~HasContent(new) /\ HasContent(old) THEN old ELSE Join(new, old)

\* Mutant: what is new replaces what is there, also when it is empty.
MergeListsBlindly(x, y) ==
  [t \in DOMAIN x \cup DOMAIN y |-> IF t \in DOMAIN y THEN y[t] ELSE x[t]]

\* _merge_artifact_lists
MergeLists(x, y) ==
  [t \in DOMAIN x \cup DOMAIN y |->
     IF t \notin DOMAIN y THEN x[t] ELSE IF t \notin DOMAIN x THEN y[t] ELSE Merge(x[t], y[t])]

Nothing == [k \in {} |-> TRUE]
Of(t, content) == [k \in {t} |-> content]
If(condition, list) == IF condition THEN list ELSE Nothing

-----------------------------------------------------------------------------

ReportsInit ==
  /\ given \in [Logs -> Given]
  /\ at = [l \in Logs |-> "new"]
  /\ artifacts = [l \in Logs |-> Nothing]
  /\ pipe = [l \in Logs |-> [p \in Pipes |-> "off"]]
  /\ snapshot = [l \in Logs |-> [p \in Pipes |-> Nothing]]
  /\ posts = {} /\ usageIds = {}
  /\ records = [l \in Logs |-> "none"] /\ patches = [l \in Logs |-> "unsent"]

Walk(l, from, to) == at[l] = from /\ at' = [at EXCEPT ![l] = to]
Save(l, new) == artifacts' = [artifacts EXCEPT ![l] = MergeLists(@, new)]

\* EventEmitter.emit_event: it is switched off, or has no token the service accepts, or
\* nothing listens; or the request is under way, whether its answer is awaited or not.
Emit(e) == posts' = posts \/ posts' = posts \cup {e}

User(l) == IF given[l].user THEN "user" ELSE "none"

Participants(l) ==
  If(given[l].user \/ given[l].people,
     Of("participant_data", Join(If(given[l].user, Of("created_by", TRUE)), If(given[l].people, Of("participants", TRUE)))))
Metadata(any) == If(any, Of("session_metadata", Of("initial_metadata", TRUE)))
Configuration(any) == If(any, Of("agent_configuration", Of("config", TRUE)))

\* create_session's first save.
FirstSave(l) ==
  /\ Walk(l, "new", "logged")
  /\ \E metadata \in BOOLEAN :
       Save(l, Join(Join(Participants(l), Metadata(metadata)), Configuration(TRUE)))
  /\ UNCHANGED <<given, pipe, snapshot, posts, usageIds, records, patches>>

\* create_session reads the log's id, which may fail, and tells of the session.
EmitStart(l) ==
  /\ Walk(l, "logged", "open")
  /\ \E named \in BOOLEAN : Emit([event |-> "session_start", log |-> l, named |-> named, by |-> User(l)])
  /\ UNCHANGED <<given, pipe, snapshot, artifacts, usageIds, records, patches>>

Pass(l, p, from, to) == pipe[l][p] = from /\ pipe' = [pipe EXCEPT ![l][p] = to]

\* get_and_consume_config: who finds the session PREFLIGHT saves the configuration once
\* more, for which the log is read ...
Consume(l, p) ==
  /\ at[l] = "open"
  /\ \/ Pass(l, p, "off", "consuming") /\ snapshot' = [snapshot EXCEPT ![l][p] = artifacts[l]]
     \/ (\E q \in Pipes : pipe[l][q] # "off") /\ Pass(l, p, "off", "talking") /\ snapshot' = snapshot
  /\ UNCHANGED <<given, at, artifacts, posts, usageIds, records, patches>>

\* ... and written.
SaveConfig(l, p) ==
  /\ Pass(l, p, "consuming", "talking")
  /\ artifacts' = [artifacts EXCEPT ![l] = MergeLists(snapshot[l][p], Configuration(TRUE))]
  /\ UNCHANGED <<given, at, snapshot, posts, usageIds, records, patches>>

\* end_session tells of the end, if it could write it.
EmitEnd(l, p) ==
  /\ Pass(l, p, "talking", "ended")
  /\ Emit([event |-> "session_end", log |-> l, named |-> FALSE, by |-> User(l)])
  /\ UNCHANGED <<given, at, snapshot, artifacts, usageIds, records, patches>>

\* save_artifacts has generated the parts; the save reads the log ...
ReadLog(l, p) ==
  /\ Pass(l, p, "ended", "saving") /\ snapshot' = [snapshot EXCEPT ![l][p] = artifacts[l]]
  /\ UNCHANGED <<given, at, artifacts, posts, usageIds, records, patches>>

\* A part, the read or the write has failed: _has_saved stays, the save is not repeated.
\* When it was the configuration's, the connection is refused.
LoseArtifacts(l, p) ==
  /\ \E from \in {"consuming", "ended", "saving"} : Pass(l, p, from, "over")
  /\ UNCHANGED <<given, at, snapshot, artifacts, posts, usageIds, records, patches>>

\* ... and writes it: the pipeline's configuration if there was an agent, its metadata if it
\* had any, the transcript of what it has heard, be it nothing, and the participants, if any.
WriteLog(l, p) ==
  /\ Pass(l, p, "saving", "written")
  /\ \E metadata, agent, spoken \in BOOLEAN :
       LET new == Join(Join(Metadata(metadata), Configuration(agent)),
                       Join(If(given[l].people, Of("participant_data", Of("participants", TRUE))),
                            Of("transcript", Of("messages", spoken))))
       IN  artifacts' = [artifacts EXCEPT ![l] = MergeLists(snapshot[l][p], new)]
  /\ UNCHANGED <<given, at, snapshot, posts, usageIds, records, patches>>

\* The user the service finds in the log it is sent.
CreatorIn(content) ==
  IF "participant_data" \in DOMAIN content /\ "created_by" \in DOMAIN content["participant_data"] THEN "user" ELSE "none"

\* The log is read back and sent.
EmitReady(l, p) ==
  /\ Pass(l, p, "written", "over")
  /\ Emit([event |-> "session_artifacts_ready", log |-> l, named |-> TRUE, by |-> CreatorIn(artifacts[l])])
  /\ UNCHANGED <<given, at, snapshot, artifacts, usageIds, records, patches>>

SessionStep(l) ==
  \/ FirstSave(l) \/ EmitStart(l)
  \/ \E p \in Pipes :
       \/ Consume(l, p) \/ SaveConfig(l, p) \/ EmitEnd(l, p)
       \/ ReadLog(l, p) \/ LoseArtifacts(l, p) \/ WriteLog(l, p) \/ EmitReady(l, p)

-----------------------------------------------------------------------------
(* ingest_event, one request at a time, in any order: an event whose sender  *)
(* has given up waiting may still be served.                                 *)

\* Not authorized; the end of a session; or the POST could not be sent.
IngestNothing(e) == UNCHANGED <<usageIds, records, patches>>

\* The POST opens a record for the log id it names; without the answer no id is kept.
IngestStart(e) ==
  /\ e.event = "session_start"
  /\ records' = IF e.named THEN [records EXCEPT ![e.log] = "in_progress"] ELSE records
  /\ usageIds' = usageIds \/ (e.named /\ usageIds' = usageIds \cup {e.log})
  /\ patches' = patches

\* The PATCH closes the record of the log id, if there is one; the usage id is forgotten
\* also when it cannot be sent.
IngestReady(e) ==
  /\ e.event = "session_artifacts_ready"
  /\ usageIds' = usageIds \ {e.log}
  /\ \/ UNCHANGED <<records, patches>>
     \/ /\ patches' = [patches EXCEPT ![e.log] = e.by]
        /\ records' = [records EXCEPT ![e.log] = IF @ = "none" THEN @ ELSE "succeeded"]

Ingest(e) ==
  /\ posts' = posts \ {e}
  /\ IngestNothing(e) \/ IngestStart(e) \/ IngestReady(e)
  /\ UNCHANGED <<given, at, pipe, snapshot, artifacts>>

ReportsNext == (\E l \in Logs : SessionStep(l)) \/ \E e \in posts : Ingest(e)

SessionReportsSpec == ReportsInit /\ [][ReportsNext]_reportVars

-----------------------------------------------------------------------------
(* Properties.                                                               *)

Types == {"participant_data", "session_metadata", "agent_configuration", "transcript"}
Keys == {"created_by", "participants", "initial_metadata", "config", "messages"}
\* What a log can hold: of each type there is at most one, with something in it.
IsContent(c) ==
  DOMAIN c \subseteq Types /\ \A t \in DOMAIN c : DOMAIN c[t] \subseteq Keys /\ \A k \in DOMAIN c[t] : c[t][k] \in BOOLEAN

\* Types; no connection has a pipeline before the session is handed out.
ReportsTypeOK ==
  /\ given \in [Logs -> Given] /\ at \in [Logs -> {"new", "logged", "open"}]
  /\ pipe \in [Logs -> [Pipes -> {"off", "consuming", "talking", "ended", "saving", "written", "over"}]]
  /\ DOMAIN artifacts = Logs /\ \A l \in Logs : IsContent(artifacts[l])
  /\ DOMAIN snapshot = Logs /\ \A l \in Logs : DOMAIN snapshot[l] = Pipes /\ \A p \in Pipes : IsContent(snapshot[l][p])
  /\ posts \subseteq [event : {"session_start", "session_end", "session_artifacts_ready"}, log : Logs,
                      named : BOOLEAN, by : {"user", "none"}]
  /\ usageIds \subseteq Logs
  /\ records \in [Logs -> {"none", "in_progress", "succeeded"}] /\ patches \in [Logs -> {"unsent", "none", "user"}]
  /\ \A l \in Logs : at[l] # "open" => \A p \in Pipes : pipe[l][p] = "off"

\* A save loses no artifact that means something, however empty what it brings is, unless
\* the log was written after it had read it.
Writes(p, q) == <<p, q>> \in {<<"consuming", "talking">>, <<"saving", "written">>}
NoArtifactIsLost ==
  [][\A l \in Logs : (\A p \in Pipes : Writes(pipe[l][p], pipe'[l][p]) => snapshot[l][p] = artifacts[l])
       => \A t \in DOMAIN artifacts[l] :
            HasContent(artifacts[l][t]) => t \in DOMAIN artifacts'[l] /\ HasContent(artifacts'[l][t])]_artifacts

\* A PATCH of a session's record names the user who created the session: he is in the
\* first save only, and must come through every save, two that overlap as well, to the
\* event and to its last reader.
PatchNamesCreator == \A l \in Logs : patches[l] # "unsent" => patches[l] = User(l)

\* The same when two saves overlap ("the original data is retained", _merge_artifact_lists).
\* The code does not keep it: the second writes over what the first one wrote.
NoArtifactIsOverwritten ==
  [][\A l \in Logs : \A t \in DOMAIN artifacts[l] :
       HasContent(artifacts[l][t]) => t \in DOMAIN artifacts'[l] /\ HasContent(artifacts'[l][t])]_artifacts

\* A usage id is kept for a session that is still to be reported only.  The service does
\* not see to that: a report that never comes leaves the id where it is.
UsageIdsAreAwaited ==
  \A l \in usageIds : (\E e \in posts : e.log = l) \/ \A p \in Pipes : pipe[l][p] # "over"
=============================================================================
