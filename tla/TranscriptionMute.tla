--------------------------- MODULE TranscriptionMute ---------------------------
(***************************************************************************)
(* While a customer is on hold for a warm transfer the agent must not        *)
(* answer.  Every pipeline has a TranscriptionFilter that drops what the     *)
(* customer says while the session's warm_transfer_active flag is set.  It   *)
(* learns of the flag from the database, and from the transfer's tool and    *)
(* clean-up, which find it in a registry of the pod by the session's id.    *)
(*                                                                         *)
(* A session reached by two connections has two pipelines and one registry  *)
(* entry.                                                                   *)
(***************************************************************************)
EXTENDS Integers

CONSTANTS Pipelines,  \* the pipelines of the session on this pod
          Interval,   \* _cache_check_interval
          Failures    \* "read": the supplier cannot read; "write": the tool cannot write

ASSUME IntervalAssumption == Interval \in Nat
ASSUME FailuresAssumption == Failures \subseteq {"read", "write"}

VARIABLES
  flag,      \* metadata.warm_transfer_active in the database
  transfer,  \* the step of the transfer
  live,      \* the pipelines that run
  registry,  \* _transcription_filters[session_id]
  cache,     \* _warm_transfer_active_cache of each filter
  counter,   \* _cache_check_counter of each filter
  check,     \* what became of the frame each filter has handled last
  span       \* the values the flag has had while that frame was checked

filter == <<cache, counter, check, span>>
muteVars == <<flag, transfer, live, registry, filter>>

None == "none"

MuteTypeOK ==
  /\ flag \in BOOLEAN /\ transfer \in {"none", "muted", "on", "unmuted"}
  /\ live \subseteq Pipelines /\ registry \in live \cup {None}
  /\ cache \in [Pipelines -> BOOLEAN] /\ counter \in [Pipelines -> 0 .. Interval]
  /\ check \in [Pipelines -> {"idle", "reading", "passed", "missed", "blocked"}]
  /\ span \in [Pipelines -> SUBSET BOOLEAN]

MuteInit ==
  /\ flag = FALSE /\ transfer = "none" /\ live = {} /\ registry = None
  /\ cache = [p \in Pipelines |-> FALSE] /\ counter = [p \in Pipelines |-> 0]
  /\ check = [p \in Pipelines |-> "idle"] /\ span = [p \in Pipelines |-> {}]

-----------------------------------------------------------------------------
(* run_pipeline registers the filter and forgets it.                        *)

StartPipeline(p) ==
  /\ p \notin live /\ check[p] = "idle"
  /\ live' = live \cup {p} /\ registry' = p
  /\ UNCHANGED <<flag, transfer, filter>>

\* The entry is deleted whosever it is.
EndPipeline(p) ==
  /\ p \in live /\ live' = live \ {p} /\ registry' = None
  /\ check' = [check EXCEPT ![p] = "idle"] /\ span' = [span EXCEPT ![p] = {}]
  /\ cache' = [cache EXCEPT ![p] = FALSE] /\ counter' = [counter EXCEPT ![p] = 0]
  /\ UNCHANGED <<flag, transfer>>

-----------------------------------------------------------------------------
(* _is_warm_transfer_active counts the frames up from 0, answers from the     *)
(* cache when the count is between 2 and Interval - 1, and otherwise sets it   *)
(* back to 0 and looks the flag up.  So each frame is a first one and is       *)
(* looked up, though the comments in the code speak of every tenth; the branch *)
(* that answers from the cache is kept here and never taken.                   *)

Verdict(active) == IF active THEN "blocked" ELSE "passed"

\* Mutant: the counter keeps running after a read.
TranscriptionCached(p) ==
  LET n == IF counter[p] >= Interval THEN 1 ELSE counter[p] + 1
      cached == 1 < n /\ n < Interval IN
  /\ p \in live /\ check[p] # "reading"
  /\ counter' = [counter EXCEPT ![p] = n]
  /\ check' = [check EXCEPT ![p] = IF cached THEN Verdict(cache[p]) ELSE "reading"]
  /\ span' = [span EXCEPT ![p] = {flag}]
  /\ UNCHANGED <<flag, transfer, live, registry, cache>>

Transcription(p) ==
  LET n == counter[p] + 1
      cached == 1 < n /\ n < Interval IN
  /\ p \in live /\ check[p] # "reading"
  /\ counter' = [counter EXCEPT ![p] = IF cached THEN n ELSE 0]
  /\ check' = [check EXCEPT ![p] = IF cached THEN Verdict(cache[p]) ELSE "reading"]
  /\ span' = [span EXCEPT ![p] = {flag}]
  /\ UNCHANGED <<flag, transfer, live, registry, cache>>

Settle(p, active, verdict) ==
  /\ p \in live /\ check[p] = "reading"
  /\ cache' = [cache EXCEPT ![p] = active]
  /\ check' = [check EXCEPT ![p] = verdict]
  /\ UNCHANGED <<flag, transfer, live, registry, counter, span>>

ReadFlag(p) == Settle(p, flag, Verdict(flag))

\* The supplier of run_pipeline answers {} when it cannot read the session, and the
\* frame passes ("missed").
FailRead(p) == "read" \in Failures /\ Settle(p, FALSE, "missed")

-----------------------------------------------------------------------------
(* The transfer.                                                            *)

\* set_warm_transfer_active of the filter in the registry.
SetActive(active) ==
  /\ cache' = IF registry = None THEN cache ELSE [cache EXCEPT ![registry] = active]
  /\ counter' = IF registry = None THEN counter ELSE [counter EXCEPT ![registry] = 0]

\* The frames being checked have now seen this value too.
WriteFlag(active) ==
  /\ flag' = active
  /\ span' = [p \in Pipelines |->
                IF check[p] = "reading" THEN span[p] \cup {active} ELSE span[p]]

\* warm_transfer mutes the filter, speaks for some seconds and sets the flag.
Mute ==
  /\ transfer = "none" /\ live # {} /\ transfer' = "muted"
  /\ SetActive(TRUE)
  /\ UNCHANGED <<flag, live, registry, check, span>>

SetFlag ==
  /\ transfer = "muted" /\ transfer' = "on"
  /\ WriteFlag(TRUE)
  /\ UNCHANGED <<live, registry, cache, counter, check>>

FailFlag ==
  /\ "write" \in Failures
  /\ transfer = "muted" /\ transfer' = "on"
  /\ UNCHANGED <<flag, live, registry, filter>>

\* cleanup_after_transfer, on the pipeline's pod or on another, whose registry has
\* no entry.
Unmute ==
  /\ transfer = "on" /\ transfer' = "unmuted"
  /\ \/ SetActive(FALSE)
     \/ UNCHANGED <<cache, counter>>
  /\ UNCHANGED <<flag, live, registry, check, span>>

\* The clean-up after it has unmuted; the timer and the hangup handlers at once.
ClearFlag ==
  /\ transfer \in {"on", "unmuted"} /\ transfer' = "none"
  /\ WriteFlag(FALSE)
  /\ UNCHANGED <<live, registry, cache, counter, check>>

MuteNext ==
  \/ \E p \in Pipelines :
       StartPipeline(p) \/ EndPipeline(p) \/ Transcription(p) \/ ReadFlag(p) \/ FailRead(p)
  \/ Mute \/ SetFlag \/ FailFlag \/ Unmute \/ ClearFlag

MuteSpec == MuteInit /\ [][MuteNext]_muteVars

-----------------------------------------------------------------------------
(* Properties.                                                              *)

\* Unless its read fails, a frame passes only if the flag was clear at some moment of
\* its check: the filter never works with the value of an earlier frame or of an
\* earlier step of the transfer.
PassedIsCurrent == \A p \in live : check[p] = "passed" => FALSE \in span[p]

\* A frame is blocked only if the flag was set at some moment of its check: no
\* failed read or write, and no clean-up that misses the filter, leaves a customer
\* unheard when no transfer is in progress.
BlockedIsCurrent == \A p \in live : check[p] = "blocked" => TRUE \in span[p]

\* transcription_filter.py, the lookup and its cache: both verdicts on a frame follow
\* the transfer as it is during the frame's check.
VerdictsAreCurrent == PassedIsCurrent /\ BlockedIsCurrent

-----------------------------------------------------------------------------
(* What the repository says of the program and the program does not do.     *)

\* warm_transfer_tool.py, where it mutes the filter: "This takes effect instantly,
\* without waiting for DB lookup in TranscriptionFilter".  A frame that arrives then
\* is not looked up.
MuteIsImmediate ==
  [][transfer = "muted" => \A p \in live : check'[p] = "reading" => check[p] = "reading"]_muteVars

\* transcription_filter.py: "Block all transcriptions during warm transfer".
TransferBlocks == \A p \in live : check[p] \in {"passed", "missed"} => FALSE \in span[p]

\* base_transport_service.py, of get_transcription_filter: "The TranscriptionFilter
\* instance if found" for an active session.
LiveFilterIsFound == live # {} => registry # None
=============================================================================
