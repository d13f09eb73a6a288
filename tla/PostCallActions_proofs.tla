------------------------ MODULE PostCallActions_proofs ------------------------
(***************************************************************************)
(* What PostCallActions keeps for every configuration: any number of        *)
(* actions of any type, condition and priority, in parallel or in order,    *)
(* with any retries.                                                        *)
(***************************************************************************)
EXTENDS PostCallActions, SequenceTheorems, TLAPS

\* Whose data the agent and the actions have exists.
Existing(c) == c.data # "none" => c.exists

\* An action that has begun was due when the run looked at the customer; one that has
\* not returned has reported nothing, and the CRM has confirmed nothing to it.
Honest(i) ==
  /\ at[i] \notin {"idle", "dropped"} => run # "call" /\ Due(i, seen)
  /\ at[i] # "done" => result[i] = "none" /\ acks[i] = NoAcks
  /\ at[i] = "done" => result[i] \in {"ok", "lead", "failed"}
  /\ id[i] = "crm" => seen.data = "known" /\ run # "call"
  /\ run = "call" => at[i] = "idle"
  /\ CASE result[i] = "ok" -> acks[i] = [own |-> 1, lead |-> 0]
       [] result[i] = "lead" -> acks[i] = [own |-> 0, lead |-> 1]
       [] OTHER -> acks[i] = NoAcks

PostCallInv ==
  /\ PostCallTypeOK /\ NothingOutlivesRun
  /\ Existing(agent) /\ Existing(seen)
  /\ \A i \in Ids : Honest(i)

LEMMA ActionsAreTyped == ASSUME PostCallTypeOK, NEW i \in Ids PROVE Action(i) \in Actions
<1>1. config.actions \in Seq(Actions)
  BY LifecyclesAssumption DEF PostCallTypeOK
<1>2. i \in 1 .. Len(config.actions)
  BY <1>1 DEF Ids
<1> QED BY <1>1, <1>2, ElementOfSeq DEF Action

LEMMA TriesAreNumbers == ASSUME PostCallTypeOK, NEW i \in Ids PROVE retries[i] \in Nat /\ Retry(i).max \in Nat
<1>1. Retry(i) \in RetryConfigs
  BY ActionsAreTyped DEF Actions, Retry
<1> QED BY <1>1 DEF RetryConfigs, PostCallTypeOK

LEMMA TriesLeft ==
  ASSUME PostCallTypeOK, NEW i \in Ids, NEW e, NextTry(i, e) # "stop"
  PROVE  retries[i] < Retry(i).max
  BY TriesAreNumbers DEF NextTry

\* Counting one more try keeps the maximum when one was left.
LEMMA OneMoreTry ==
  ASSUME PostCallTypeOK, NEW i \in Ids, retries[i] < Retry(i).max, retries' = [retries EXCEPT ![i] = @ + 1]
  PROVE  retries' \in [Ids -> Nat] /\ \A j \in Ids : retries'[j] <= Retry(j).max
<1>1. retries \in [Ids -> Nat] /\ \A j \in Ids : retries[j] <= Retry(j).max
  BY DEF PostCallTypeOK
<1>2. retries[i] + 1 <= Retry(i).max
  BY TriesAreNumbers
<1> QED BY <1>1, <1>2

LEMMA FirstAcknowledgement ==
  ASSUME PostCallTypeOK, NEW i \in Ids, acks[i] = NoAcks, NEW tool \in {"own", "lead"}, Acknowledge(i, tool)
  PROVE  /\ acks' \in [Ids -> [own : Nat, lead : Nat]]
         /\ acks'[i] = [own |-> IF tool = "own" THEN 1 ELSE 0, lead |-> IF tool = "lead" THEN 1 ELSE 0]
         /\ \A j \in Ids : j # i => acks'[j] = acks[j]
<1>1. acks \in [Ids -> [own : Nat, lead : Nat]]
  BY DEF PostCallTypeOK
<1>2. acks' = [acks EXCEPT ![i] = [NoAcks EXCEPT ![tool] = NoAcks[tool] + 1]]
  BY <1>1 DEF Acknowledge
<1>3. [NoAcks EXCEPT ![tool] = NoAcks[tool] + 1]
        = [own |-> IF tool = "own" THEN 1 ELSE 0, lead |-> IF tool = "lead" THEN 1 ELSE 0]
  <2>1. CASE tool = "own"
    <3>1. NoAcks["own"] = 0
      BY DEF NoAcks
    <3>2. [NoAcks EXCEPT !["own"] = 1] = [own |-> 1, lead |-> 0]
      BY DEF NoAcks
    <3> QED BY <2>1, <3>1, <3>2
  <2>2. CASE tool = "lead"
    <3>1. NoAcks["lead"] = 0
      BY DEF NoAcks
    <3>2. [NoAcks EXCEPT !["lead"] = 1] = [own |-> 0, lead |-> 1]
      BY DEF NoAcks
    <3> QED BY <2>2, <3>1, <3>2
  <2> QED BY <2>1, <2>2
<1>4. acks' = [acks EXCEPT ![i] = [own |-> IF tool = "own" THEN 1 ELSE 0,
                                   lead |-> IF tool = "lead" THEN 1 ELSE 0]]
  BY <1>2, <1>3
<1> QED BY <1>1, <1>4

LEMMA PostCallStarts == PostCallInit => PostCallInv
<1> SUFFICES ASSUME PostCallInit PROVE PostCallInv
  OBVIOUS
<1>1. config.actions \in Seq(Actions)
  BY LifecyclesAssumption DEF PostCallInit
<1>2. ASSUME NEW i \in Ids PROVE 0 <= Retry(i).max
  <2>1. Action(i) \in Actions
    BY <1>1, <1>2, ElementOfSeq DEF Ids, Action
  <2> QED BY <2>1 DEF Actions, RetryConfigs, Retry
<1>3. PostCallTypeOK
  BY <1>2, TriesAssumption, LifecyclesAssumption DEF PostCallInit, PostCallTypeOK, Ignorant, NoAcks, Places, Holdings
<1> QED BY <1>3 DEF PostCallInit, PostCallInv, NothingOutlivesRun, Existing, Honest, Ignorant, NoAcks

\* A step of an action: what it must see to of its own.
LEMMA ActionKeepsTypes ==
  ASSUME PostCallTypeOK, UNCHANGED <<config, enriching, tried, agent, run, released, seen>>,
         at' \in [Ids -> Places],
         retries' \in [Ids -> Nat], \A i \in Ids : retries'[i] <= Retry(i).max,
         id' \in [Ids -> {"none", "crm", "llm"}],
         acks' \in [Ids -> [own : Nat, lead : Nat]],
         result' \in [Ids -> {"none", "ok", "lead", "failed"}],
         \A i \in Ids : at'[i] \in {"fix", "sleep"} => retries'[i] < Retry(i).max
  PROVE  PostCallTypeOK'
<1>1. Ids' = Ids
  BY DEF Ids
<1>2. \A i \in Ids : Retry(i)' = Retry(i)
  BY DEF Retry, Action
<1> QED BY <1>1, <1>2 DEF PostCallTypeOK

LEMMA PostCallSteps == PostCallInv /\ [PostCallNext]_postCallVars => PostCallInv'
<1> SUFFICES ASSUME PostCallInv, [PostCallNext]_postCallVars PROVE PostCallInv'
  OBVIOUS
<1> USE TriesAssumption
<1>1. CASE UNCHANGED postCallVars
  BY <1>1 DEF PostCallInv, PostCallTypeOK, NothingOutlivesRun, Existing, Honest, Due, Met, Action, Retry, Ids, postCallVars
<1>2. CASE Enrichment
  <2>1. /\ UNCHANGED callVars /\ agent' \in [data : {"none", "anonymous", "known"}, exists : BOOLEAN] /\ Existing(agent)'
         /\ enriching' \in {"off", "asking", "injecting", "found", "missed", "gone"} /\ tried' \in 0 .. Tries
    <3>1. tried \in 0 .. Tries /\ agent \in [data : {"none", "anonymous", "known"}, exists : BOOLEAN] /\ Existing(agent)
      BY DEF PostCallInv, PostCallTypeOK
    <3>2. CASE LookupQuits
      BY <3>1, <3>2 DEF LookupQuits, Existing
    <3>3. CASE LookupMisses
      BY <3>1, <3>3 DEF LookupMisses, Existing, Ignorant
    <3>4. CASE LookupFinds
      BY <3>1, <3>4 DEF LookupFinds, Existing
    <3>5. CASE FailToInject
      BY <3>1, <3>5 DEF FailToInject, Existing
    <3>6. CASE Remember
      <4>1. PICK data \in {"anonymous", "known"} : agent' = [data |-> data, exists |-> TRUE]
        BY <3>6 DEF Remember
      <4> QED BY <3>1, <3>6, <4>1 DEF Remember, Existing
    <3> QED BY <1>2, <3>2, <3>3, <3>4, <3>5, <3>6 DEF Enrichment
  <2>2. PostCallTypeOK'
    BY <2>1 DEF callVars, PostCallInv, PostCallTypeOK, Ids, Action, Retry
  <2>3. NothingOutlivesRun'
    BY <2>1 DEF callVars, PostCallInv, NothingOutlivesRun, Ids
  <2>4. Existing(agent)' /\ Existing(seen)'
    BY <2>1 DEF callVars, PostCallInv, Existing
  <2>5. ASSUME NEW i \in Ids' PROVE Honest(i)'
    BY <2>1, <2>5 DEF callVars, PostCallInv, Honest, Due, Met, Action, Ids
  <2> QED BY <2>2, <2>3, <2>4, <2>5 DEF PostCallInv
<1>3. CASE Begin
  <2>1. PostCallTypeOK'
    BY <1>3 DEF Begin, Due, Met, PostCallInv, PostCallTypeOK, Ids, Action, Retry, Places
  <2>2. NothingOutlivesRun'
    BY <1>3 DEF Begin, Due, Met, PostCallInv, PostCallTypeOK, Honest, NothingOutlivesRun, Ids, Places
  <2>3. Existing(agent)' /\ Existing(seen)'
    BY <1>3 DEF Begin, Due, Met, PostCallInv, PostCallTypeOK, Existing
  <2>4. ASSUME NEW i \in Ids' PROVE Honest(i)'
    BY <1>3, <2>4 DEF Begin, Due, Met, PostCallInv, PostCallTypeOK, Honest, Due, Met, Action, Ids, NoAcks, Places
  <2> QED BY <2>1, <2>2, <2>3, <2>4 DEF PostCallInv
<1>4. CASE Finish
  <2>1. PostCallTypeOK'
    BY <1>4 DEF Finish, PostCallInv, PostCallTypeOK, Ids, Action, Retry, Places
  <2>2. NothingOutlivesRun'
    BY <1>4 DEF Finish, PostCallInv, PostCallTypeOK, Honest, NothingOutlivesRun, Ids, Places
  <2>3. Existing(agent)' /\ Existing(seen)'
    BY <1>4 DEF Finish, PostCallInv, PostCallTypeOK, Existing
  <2>4. ASSUME NEW i \in Ids' PROVE Honest(i)'
    BY <1>4, <2>4 DEF Finish, PostCallInv, PostCallTypeOK, Honest, Due, Met, Action, Ids, NoAcks, Places
  <2> QED BY <2>1, <2>2, <2>3, <2>4 DEF PostCallInv
<1>5. CASE CancelRun
  <2>1. PostCallTypeOK'
    BY <1>5 DEF CancelRun, PostCallInv, PostCallTypeOK, Ids, Action, Retry, Places
  <2>2. NothingOutlivesRun'
    BY <1>5 DEF CancelRun, PostCallInv, PostCallTypeOK, Honest, NothingOutlivesRun, Ids, Places
  <2>3. Existing(agent)' /\ Existing(seen)'
    BY <1>5 DEF CancelRun, PostCallInv, PostCallTypeOK, Existing
  <2>4. ASSUME NEW i \in Ids' PROVE Honest(i)'
    BY <1>5, <2>4 DEF CancelRun, PostCallInv, PostCallTypeOK, Honest, Due, Met, Action, Ids, NoAcks, Places
  <2> QED BY <2>1, <2>2, <2>3, <2>4 DEF PostCallInv
<1>6. CASE Release
  <2>1. PostCallTypeOK'
    BY <1>6 DEF Release, Holdings, PostCallInv, PostCallTypeOK, Ids, Action, Retry, Places
  <2>2. NothingOutlivesRun'
    BY <1>6 DEF Release, Holdings, PostCallInv, PostCallTypeOK, Honest, NothingOutlivesRun, Ids, Places
  <2>3. Existing(agent)' /\ Existing(seen)'
    BY <1>6 DEF Release, Holdings, PostCallInv, PostCallTypeOK, Existing
  <2>4. ASSUME NEW i \in Ids' PROVE Honest(i)'
    BY <1>6, <2>4 DEF Release, Holdings, PostCallInv, PostCallTypeOK, Honest, Due, Met, Action, Ids, NoAcks, Places
  <2> QED BY <2>1, <2>2, <2>3, <2>4 DEF PostCallInv
<1>7. ASSUME NEW i \in Ids, Start(i) \/ ActionStep(i) PROVE PostCallInv'
  <2>1. CASE Start(i)
    <3>1. PostCallTypeOK'
      BY <1>7, <2>1 DEF Start, Turn, Step, PostCallInv, PostCallTypeOK, Ids, Action, Retry, Places
    <3>2. NothingOutlivesRun'
      BY <1>7, <2>1 DEF Start, Turn, Step, PostCallInv, PostCallTypeOK, Honest, NothingOutlivesRun, Ids, Places
    <3>3. Existing(agent)' /\ Existing(seen)'
      BY <1>7, <2>1 DEF Start, Turn, Step, PostCallInv, PostCallTypeOK, Existing
    <3>4. ASSUME NEW j \in Ids' PROVE Honest(j)'
      BY <1>7, <2>1, <3>4 DEF Start, Turn, Step, PostCallInv, PostCallTypeOK, Honest, Due, Met, Action, Ids, NoAcks, Places
    <3> QED BY <3>1, <3>2, <3>3, <3>4 DEF PostCallInv
  <2>2. CASE NoTool(i)
    <3>1. PostCallTypeOK'
      BY <1>7, <2>2 DEF NoTool, Return, Step, PostCallInv, PostCallTypeOK, Ids, Action, Retry, Places
    <3>2. NothingOutlivesRun'
      BY <1>7, <2>2 DEF NoTool, Return, Step, PostCallInv, PostCallTypeOK, Honest, NothingOutlivesRun, Ids, Places
    <3>3. Existing(agent)' /\ Existing(seen)'
      BY <1>7, <2>2 DEF NoTool, Return, Step, PostCallInv, PostCallTypeOK, Existing
    <3>4. ASSUME NEW j \in Ids' PROVE Honest(j)'
      BY <1>7, <2>2, <3>4 DEF NoTool, Return, Step, PostCallInv, PostCallTypeOK, Honest, Due, Met, Action, Ids, NoAcks, Places
    <3> QED BY <3>1, <3>2, <3>3, <3>4 DEF PostCallInv
  <2>3. CASE LoadTool(i)
    <3>1. PostCallTypeOK'
      BY <1>7, <2>3 DEF LoadTool, Step, GivenId, PostCallInv, PostCallTypeOK, Ids, Action, Retry, Places
    <3>2. NothingOutlivesRun'
      BY <1>7, <2>3 DEF LoadTool, Step, GivenId, PostCallInv, PostCallTypeOK, Honest, NothingOutlivesRun, Ids, Places
    <3>3. Existing(agent)' /\ Existing(seen)'
      BY <1>7, <2>3 DEF LoadTool, Step, GivenId, PostCallInv, PostCallTypeOK, Existing
    <3>4. ASSUME NEW j \in Ids' PROVE Honest(j)'
      BY <1>7, <2>3, <3>4 DEF LoadTool, Step, GivenId, PostCallInv, PostCallTypeOK, Honest, Due, Met, Action, Ids, NoAcks, Places
    <3> QED BY <3>1, <3>2, <3>3, <3>4 DEF PostCallInv
  <2>4. CASE Succeed(i)
    <3>1. /\ at' = [at EXCEPT ![i] = "done"] /\ acks' \in [Ids -> [own : Nat, lead : Nat]]
          /\ result' = [result EXCEPT ![i] = "ok"] /\ acks'[i] = [own |-> 1, lead |-> 0]
          /\ at[i] = "ask" /\ \A j \in Ids : j # i => acks'[j] = acks[j]
      <4>1. at[i] = "ask" /\ acks[i] = NoAcks /\ Acknowledge(i, "own")
        BY <1>7, <2>4 DEF Succeed, PostCallInv, Honest
      <4> QED BY <1>7, <2>4, <4>1, FirstAcknowledgement DEF Succeed, Return, Step, PostCallInv
    <3>2. PostCallTypeOK'
      BY <1>7, <2>4, <3>1 DEF Succeed, PostCallInv, PostCallTypeOK, Ids, Action, Retry, Places
    <3>3. NothingOutlivesRun'
      BY <1>7, <2>4 DEF Succeed, Acknowledge, Return, Step, PostCallInv, PostCallTypeOK, Honest, NothingOutlivesRun, Ids, Places
    <3>4. Existing(agent)' /\ Existing(seen)'
      BY <1>7, <2>4 DEF Succeed, Acknowledge, Return, Step, PostCallInv, PostCallTypeOK, Existing
    <3>5. ASSUME NEW j \in Ids' PROVE Honest(j)'
      BY <1>7, <2>4, <3>1, <3>5 DEF Succeed, PostCallInv, PostCallTypeOK, Honest, Due, Met, Action, Ids, NoAcks, Places
    <3> QED BY <3>2, <3>3, <3>4, <3>5 DEF PostCallInv
  <2>5. CASE Fail(i)
    <3>1. PICK e \in Errors :
            LET next == NextTry(i, e) IN
            \/ next = "ask" /\ retries' = [retries EXCEPT ![i] = @ + 1] /\ UNCHANGED <<at, result>>
            \/ next \in {"fix", "sleep"} /\ Step(i, next) /\ UNCHANGED <<retries, result>>
            \/ next = "stop" /\ Fallback(i, e) /\ Step(i, "fallback") /\ UNCHANGED <<retries, result>>
            \/ next = "stop" /\ ~Fallback(i, e) /\ Return(i, "failed") /\ UNCHANGED retries
      BY <1>7, <2>5 DEF Fail
    <3>2. NextTry(i, e) # "stop" => retries[i] < Retry(i).max
      BY <1>7, <2>5, TriesLeft DEF PostCallInv
    <3>3. retries' \in [Ids -> Nat] /\ \A j \in Ids : retries'[j] <= Retry(j).max
      BY <1>7, <2>5, <3>1, <3>2, OneMoreTry DEF PostCallInv, PostCallTypeOK
    <3>4. /\ at' \in [Ids -> Places] /\ result' \in [Ids -> {"none", "ok", "lead", "failed"}]
          /\ at'[i] \in {"fix", "sleep"} => retries'[i] < Retry(i).max
          /\ \A j \in Ids : j # i => at'[j] = at[j] /\ retries'[j] = retries[j]
      <4>1. /\ at \in [Ids -> Places] /\ result \in [Ids -> {"none", "ok", "lead", "failed"}]
            /\ at[i] = "ask" /\ retries \in [Ids -> Nat]
        BY <1>7, <2>5 DEF Fail, PostCallInv, PostCallTypeOK
      <4>2. CASE NextTry(i, e) = "ask" /\ retries' = [retries EXCEPT ![i] = @ + 1] /\ UNCHANGED <<at, result>>
        BY <1>7, <2>5, <4>1, <4>2
      <4>3. CASE NextTry(i, e) \in {"fix", "sleep"} /\ Step(i, NextTry(i, e)) /\ UNCHANGED <<retries, result>>
        BY <1>7, <2>5, <3>2, <4>1, <4>3 DEF Step, Places
      <4>4. CASE Step(i, "fallback") /\ UNCHANGED <<retries, result>>
        BY <1>7, <2>5, <4>1, <4>4 DEF Step, Places
      <4>5. CASE Return(i, "failed") /\ UNCHANGED retries
        BY <1>7, <2>5, <4>1, <4>5 DEF Return, Step, Places
      <4> QED BY <3>1, <4>2, <4>3, <4>4, <4>5
    <3>5. PostCallTypeOK'
      <4>1. UNCHANGED <<config, enriching, tried, agent, run, released, seen, id, acks>>
        BY <2>5 DEF Fail
      <4>2. \A j \in Ids : at'[j] \in {"fix", "sleep"} => retries'[j] < Retry(j).max
        BY <3>4 DEF PostCallInv, PostCallTypeOK
      <4> QED BY <3>3, <3>4, <4>1, <4>2, ActionKeepsTypes DEF PostCallInv, PostCallTypeOK
    <3>6. NothingOutlivesRun'
      BY <1>7, <2>5 DEF Fail, Return, Step, PostCallInv, PostCallTypeOK, Honest, NothingOutlivesRun, Ids, Places
    <3>7. Existing(agent)' /\ Existing(seen)'
      BY <1>7, <2>5 DEF Fail, PostCallInv, Existing
    <3>8. ASSUME NEW j \in Ids' PROVE Honest(j)'
      BY <1>7, <2>5, <3>8 DEF Fail, Return, Step, PostCallInv, PostCallTypeOK, Honest, Due, Met, Action, Ids, NoAcks, Places
    <3> QED BY <3>5, <3>6, <3>7, <3>8 DEF PostCallInv
  <2>6. CASE Wake(i)
    <3>1. retries' \in [Ids -> Nat] /\ \A j \in Ids : retries'[j] <= Retry(j).max
      BY <1>7, <2>6, OneMoreTry DEF Wake, Again, Step, PostCallInv, PostCallTypeOK
    <3>2. PostCallTypeOK'
      BY <1>7, <2>6, <3>1 DEF Wake, Again, Step, PostCallInv, PostCallTypeOK, Ids, Action, Retry, Places
    <3>3. NothingOutlivesRun'
      BY <1>7, <2>6 DEF Wake, Again, Step, PostCallInv, PostCallTypeOK, Honest, NothingOutlivesRun, Ids, Places
    <3>4. Existing(agent)' /\ Existing(seen)'
      BY <1>7, <2>6 DEF Wake, Again, Step, PostCallInv, PostCallTypeOK, Existing
    <3>5. ASSUME NEW j \in Ids' PROVE Honest(j)'
      BY <1>7, <2>6, <3>1, <3>5 DEF Wake, Again, Step, PostCallInv, PostCallTypeOK, Honest, Due, Met, Action, Ids, NoAcks, Places
    <3> QED BY <3>2, <3>3, <3>4, <3>5 DEF PostCallInv
  <2>7. CASE Fix(i)
    <3>1. retries' \in [Ids -> Nat] /\ \A j \in Ids : retries'[j] <= Retry(j).max
      BY <1>7, <2>7, OneMoreTry DEF Fix, Again, Step, FixedIds, PostCallInv, PostCallTypeOK
    <3>2. id' \in [Ids -> {"none", "crm", "llm"}] /\ at' \in [Ids -> Places] /\ at'[i] = "ask" /\ \A j \in Ids : j # i => at'[j] = at[j]
      BY <1>7, <2>7, ZenonT(60) DEF Fix, Again, Step, FixedIds, PostCallInv, PostCallTypeOK, Places
    <3>3. PostCallTypeOK'
      BY <1>7, <2>7, <3>1, <3>2 DEF Fix, Again, Step, FixedIds, PostCallInv, PostCallTypeOK, Ids, Action, Retry, Places
    <3>4. NothingOutlivesRun'
      BY <1>7, <2>7 DEF Fix, Again, Step, FixedIds, PostCallInv, PostCallTypeOK, Honest, NothingOutlivesRun, Ids, Places
    <3>5. Existing(agent)' /\ Existing(seen)'
      BY <1>7, <2>7 DEF Fix, Again, Step, FixedIds, PostCallInv, PostCallTypeOK, Existing
    <3>6. ASSUME NEW j \in Ids' PROVE Honest(j)'
      BY <1>7, <2>7, <3>1, <3>2, <3>6 DEF Fix, Again, Step, FixedIds, PostCallInv, PostCallTypeOK, Honest, Due, Met, Action, Ids, NoAcks, Places
    <3> QED BY <3>3, <3>4, <3>5, <3>6 DEF PostCallInv
  <2>8. CASE FallbackTool(i)
    <3>1. PostCallTypeOK'
      <4>1. /\ UNCHANGED <<config, enriching, tried, agent, run, released, seen, retries, id, acks>>
            /\ PostCallTypeOK
        BY <2>8 DEF FallbackTool, PostCallInv
      <4>2. /\ at' \in [Ids -> Places] /\ at'[i] \notin {"fix", "sleep"} /\ \A j \in Ids : j # i => at'[j] = at[j]
            /\ result' \in [Ids -> {"none", "ok", "lead", "failed"}]
        BY <1>7, <2>8, <4>1 DEF FallbackTool, Return, Step, PostCallTypeOK, Places
      <4>3. \A j \in Ids : at'[j] \in {"fix", "sleep"} => retries'[j] < Retry(j).max
        BY <4>1, <4>2 DEF PostCallTypeOK
      <4> QED BY <4>1, <4>2, <4>3, ActionKeepsTypes DEF PostCallTypeOK
    <3>2. NothingOutlivesRun'
      BY <1>7, <2>8 DEF FallbackTool, Return, Step, PostCallInv, PostCallTypeOK, Honest, NothingOutlivesRun, Ids, Places
    <3>3. Existing(agent)' /\ Existing(seen)'
      BY <1>7, <2>8 DEF FallbackTool, Return, Step, PostCallInv, PostCallTypeOK, Existing
    <3>4. ASSUME NEW j \in Ids' PROVE Honest(j)'
      BY <1>7, <2>8, <3>4 DEF FallbackTool, Return, Step, PostCallInv, PostCallTypeOK, Honest, Due, Met, Action, Ids, NoAcks, Places
    <3> QED BY <3>1, <3>2, <3>3, <3>4 DEF PostCallInv
  <2>9. CASE CreateLead(i)
    <3>1. /\ at' = [at EXCEPT ![i] = "done"] /\ acks' \in [Ids -> [own : Nat, lead : Nat]] /\ at[i] = "lead"
          /\ \/ result' = [result EXCEPT ![i] = "lead"] /\ acks'[i] = [own |-> 0, lead |-> 1]
             \/ result' = [result EXCEPT ![i] = "failed"] /\ acks'[i] = NoAcks
          /\ \A j \in Ids : j # i => acks'[j] = acks[j]
      <4>1. at[i] = "lead" /\ acks[i] = NoAcks /\ acks \in [Ids -> [own : Nat, lead : Nat]]
        BY <1>7, <2>9 DEF CreateLead, PostCallInv, PostCallTypeOK, Honest
      <4>2. CASE Acknowledge(i, "lead") /\ Return(i, "lead")
        BY <1>7, <2>9, <4>1, <4>2, FirstAcknowledgement DEF Return, Step, PostCallInv
      <4>3. CASE Return(i, "failed") /\ UNCHANGED acks
        BY <1>7, <2>9, <4>1, <4>3 DEF Return, Step
      <4> QED BY <1>7, <2>9, <4>2, <4>3 DEF CreateLead
    <3>2. PostCallTypeOK'
      BY <1>7, <2>9, <3>1, ZenonT(60) DEF CreateLead, PostCallInv, PostCallTypeOK, Ids, Action, Retry, Places
    <3>3. NothingOutlivesRun'
      BY <1>7, <2>9 DEF CreateLead, Acknowledge, Return, Step, PostCallInv, PostCallTypeOK, Honest, NothingOutlivesRun, Ids, Places
    <3>4. Existing(agent)' /\ Existing(seen)'
      BY <1>7, <2>9 DEF CreateLead, Acknowledge, Return, Step, PostCallInv, PostCallTypeOK, Existing
    <3>5. ASSUME NEW j \in Ids' PROVE Honest(j)'
      BY <1>7, <2>9, <3>1, <3>5, SMTT(30) DEF CreateLead, PostCallInv, PostCallTypeOK, Honest, Due, Met, Action, Ids, NoAcks, Places
    <3> QED BY <3>2, <3>3, <3>4, <3>5 DEF PostCallInv
  <2> QED BY <1>7, <2>1, <2>2, <2>3, <2>4, <2>5, <2>6, <2>7, <2>8, <2>9 DEF ActionStep
<1> QED BY <1>1, <1>2, <1>3, <1>4, <1>5, <1>6, <1>7 DEF PostCallNext

LEMMA PostCallInvariant == PostCallSpec => []PostCallInv
<1> QED BY PostCallStarts, PostCallSteps, PTL DEF PostCallSpec

\* For every configuration: types, and no action is tried more often than its retries.
THEOREM PostCallTypeCorrect == PostCallSpec => []PostCallTypeOK
<1>1. PostCallInv => PostCallTypeOK
  BY DEF PostCallInv
<1> QED BY <1>1, PostCallInvariant, PTL

\* For every configuration: what is reported of an action is what the CRM has confirmed.
THEOREM ActionsReportTruly == PostCallSpec => []ReportsAreTrue
<1>1. PostCallInv => ReportsAreTrue
  BY DEF PostCallInv, Honest, ReportsAreTrue
<1> QED BY <1>1, PostCallInvariant, PTL

\* For every configuration: no action of a call contradicts another one's view of the customer.
THEOREM CustomerIsSeenOnce == PostCallSpec => []OneViewOfTheCustomer
<1>1. PostCallInv => OneViewOfTheCustomer
  BY DEF PostCallInv, Honest, Existing, OneViewOfTheCustomer, Executed, Due, Met
<1> QED BY <1>1, PostCallInvariant, PTL

\* For every configuration: no action is under way when the run lets go of what it holds.
THEOREM NoActionOutlivesRun == PostCallSpec => []NothingOutlivesRun
<1>1. PostCallInv => NothingOutlivesRun
  BY DEF PostCallInv
<1> QED BY <1>1, PostCallInvariant, PTL
=============================================================================
