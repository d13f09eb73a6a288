---------------------------- MODULE SessionRecord ----------------------------
(***************************************************************************)
(* What the session document promises to its readers, with no handler, no  *)
(* snapshot and no log: a session is created once, every connection that   *)
(* serves it either records an outcome or is known to have left it open,   *)
(* and reports of the provider record outcomes at any time.                *)
(***************************************************************************)
CONSTANT Pipelines

VARIABLES
  state,     \* the state of the session document
  serving,   \* the connections that serve it
  excused    \* the connections that may leave it without an outcome

vars == <<state, serving, excused>>

Outcomes == {"completed", "error", "missed_call", "busy", "failed", "voicemail"}

Init == state = "absent" /\ serving = {} /\ excused = {}

Create == state = "absent" /\ state' = "preflight" /\ UNCHANGED <<serving, excused>>

\* A connection takes the session and opens it.
Open(p) ==
  /\ state # "absent"
  /\ state' = "in_flight"
  /\ serving' = serving \cup {p}
  /\ UNCHANGED excused

\* A connection serves a session another one opened, or tries again to close it.
Join(p) ==
  /\ state # "absent"
  /\ serving' = serving \cup {p}
  /\ UNCHANGED <<state, excused>>

\* A connection records how the call ended.
Close(p) ==
  /\ p \in serving
  /\ state' \in Outcomes
  /\ serving' = serving \ {p}
  /\ UNCHANGED excused

\* A connection goes without recording anything, and that is known.
Leave(p) ==
  /\ serving' = serving \ {p}
  /\ excused' = excused \cup {p}
  /\ UNCHANGED state

\* The provider reports how the call ended.
Report ==
  /\ state # "absent"
  /\ state' \in Outcomes
  /\ UNCHANGED <<serving, excused>>

Next ==
  \/ Create \/ Report
  \/ \E p \in Pipelines : Open(p) \/ Join(p) \/ Close(p) \/ Leave(p)

Spec == Init /\ [][Next]_vars

\* A session that shows as open is served, or was knowingly left open.
OpenHasServer == state = "in_flight" => serving \cup excused # {}
=============================================================================
