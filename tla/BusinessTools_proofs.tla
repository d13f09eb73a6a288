-------------------------- MODULE BusinessTools_proofs --------------------------
(***************************************************************************)
(* Who generates a token holds its executor's lock, and looked at the         *)
(* credential after it had taken it: an executor that has stored a token has  *)
(* nobody on the way to store another while that one is valid.               *)
(***************************************************************************)
EXTENDS BusinessTools, TLAPS

LEMMA OwnerType == \A p \in Procs : Owner(p) \in Executors \union Requests
  BY ExecutorsAssumption DEF Owner, Procs

LEMMA PreType == Pre \in Nat /\ Cached \subseteq 1..Pre /\ 0 \in 0..Pre + 1 /\ 1 \in 0..Pre + 1
<1>1. Pre \in Nat /\ Cached \subseteq 1..Pre
  BY PreAssumption
<1>. QED
  BY <1>1

LEMMA NoDataType == NoData \in [1..Pre -> Tools \union {"none"}]
  BY DEF NoData

\* What a step out of a request does to the variables of its process.
LEMMA GotoType ==
  ASSUME TypeOK, NEW p \in Procs, NEW next \in Steps, Goto(p, next)
  PROVE  /\ pc' \in [Procs -> Steps] /\ snap' \in [Procs -> Nat]
         /\ token' \in [Procs -> 0..Len(made)]
         /\ deadAt' \in [Tools -> SUBSET (1..Len(made))]
         /\ lock' \in [Executors \union Requests -> Procs \union {"free"}]
<1>1. Len(made) \in Nat
  BY DEF TypeOK
<1>2. pc' \in [Procs -> Steps] /\ snap' \in [Procs -> Nat]
  BY DEF TypeOK, Goto
<1>3. token' \in [Procs -> 0..Len(made)]
  BY <1>1 DEF TypeOK, Goto
<1>4. deadAt' \in [Tools -> SUBSET (1..Len(made))]
  BY DEF TypeOK, Goto
<1>5. lock' \in [Executors \union Requests -> Procs \union {"free"}]
  BY DEF TypeOK, Goto, Release
<1>. QED
  BY <1>2, <1>3, <1>4, <1>5

LEMMA OverData ==
  ASSUME TypeOK, NEW p \in Procs, Over(p)
  PROVE  /\ stage' \in [Tools -> 0..Pre + 1]
         /\ extracted' \in [Tools -> [1..Pre -> Tools \union {"none"}]]
<1>1. stage' \in [Tools -> 0..Pre + 1]
  <2>1. stage \in [Tools -> 0..Pre + 1] /\ stage' = [stage EXCEPT ![p] = 0]
    BY DEF TypeOK, Over
  <2>. QED
    BY <2>1, PreType
<1>2. extracted' \in [Tools -> [1..Pre -> Tools \union {"none"}]]
  <2>1. /\ extracted \in [Tools -> [1..Pre -> Tools \union {"none"}]]
        /\ extracted' = [extracted EXCEPT ![p] = NoData]
    BY DEF TypeOK, Over
  <2>. QED
    BY <2>1, NoDataType
<1>. QED
  BY <1>1, <1>2

LEMMA FinishType ==
  ASSUME TypeOK, NEW p \in Procs, Over(p), cred' = cred
  PROVE  TypeOK'
<1>1. Goto(p, "done") /\ "done" \in Steps
  BY DEF Over, Steps
<1>2. stage' \in [Tools -> 0..Pre + 1] /\ extracted' \in [Tools -> [1..Pre -> Tools \union {"none"}]]
  BY OverData
<1>4. made' = made /\ dead' = dead /\ cache' = cache
  BY DEF Over
<1>. QED
  BY <1>1, <1>2, <1>4, GotoType DEF TypeOK

LEMMA ReceiveType ==
  ASSUME TypeOK, NEW p \in Procs, NEW t \in 0..Len(made), Receive(p, t)
  PROVE  /\ pc' \in [Procs -> Steps]
         /\ token' \in [Procs -> 0..Len(made)]
         /\ lock' \in [Executors \union Requests -> Procs \union {"free"}]
  BY DEF TypeOK, Receive, Release, Steps

-----------------------------------------------------------------------------
(* Types.                                                                   *)

LEMMA InitType == Init => TypeOK
<1> SUFFICES ASSUME Init PROVE TypeOK
  OBVIOUS
<1>1. made \in Seq(Nat) /\ Len(made) \in {0, 1}
  <2>1. CASE made = <<>>
    BY <2>1
  <2>2. CASE made = <<1>>
    BY <2>2
  <2>. QED
    BY <2>1, <2>2 DEF Init
<1>2. cred \in [version : Nat, active : BOOLEAN, token : 0..Len(made), lapsed : BOOLEAN,
                by : SUBSET (Executors \union Requests)]
  <2>1. PICK lapsed \in {FALSE, made # <<>>} :
          cred = [version |-> 1, active |-> TRUE, token |-> Len(made), lapsed |-> lapsed, by |-> {}]
    BY DEF Init
  <2>2. lapsed \in BOOLEAN
    BY <2>1
  <2>3. Len(made) \in 0..Len(made)
    BY <1>1
  <2>. QED
    BY <2>1, <2>2, <2>3
<1>3. pc \in [Procs -> Steps] /\ stage \in [Tools -> 0..Pre + 1] /\ snap \in [Procs -> Nat]
  BY PreAssumption DEF Init, Steps
<1>4. token \in [Procs -> 0..Len(made)] /\ deadAt \in [Tools -> SUBSET (1..Len(made))]
  BY <1>1 DEF Init
<1>5. /\ lock \in [Executors \union Requests -> Procs \union {"free"}]
      /\ cache \in [Agents -> [1..Pre -> Tools \union {"none"}]]
      /\ extracted \in [Tools -> [1..Pre -> Tools \union {"none"}]]
  BY NoDataType DEF Init
<1>. QED
  BY <1>1, <1>2, <1>3, <1>4, <1>5 DEF Init, TypeOK

LEMMA TokenStepType == ASSUME TypeOK, NEW p \in Procs, TokenStep(p) PROVE TypeOK'
<1>1. Len(made) \in Nat /\ cred.token \in 0..Len(made) /\ cred.version \in Nat
  BY DEF TypeOK
<1>2. ASSUME Finish(p) PROVE TypeOK'
  BY <1>2, FinishType DEF Finish
<1>3. CASE Get(p)
  <2>1. CASE Finish(p)
    BY <1>2, <2>1
  <2>2. CASE ~Finish(p)
    <3>1. deadAt' \in [Tools -> SUBSET (1..Len(made))]
      BY <1>3, <2>2 DEF Get, TypeOK
    <3>2. CASE Receive(p, cred.token) /\ UNCHANGED snap
      BY <1>1, <1>3, <2>2, <3>1, <3>2, ReceiveType DEF Get, TypeOK
    <3>3. CASE pc' = [pc EXCEPT ![p] = "lock"] /\ snap' = [snap EXCEPT ![p] = cred.version]
               /\ UNCHANGED <<lock, token>>
      BY <1>1, <1>3, <2>2, <3>1, <3>3 DEF Get, TypeOK, Steps
    <3>. QED
      BY <1>3, <2>2, <3>2, <3>3 DEF Get
  <2>. QED
    BY <2>1, <2>2
<1>4. CASE Lock(p)
  BY <1>4, OwnerType DEF Lock, TypeOK, Steps
<1>5. CASE Recheck(p)
  <2>1. CASE Finish(p)
    BY <1>2, <2>1
  <2>2. CASE Receive(p, cred.token) /\ UNCHANGED <<cred, made, dead, cache, stage, snap, deadAt, extracted>>
    BY <1>1, <2>2, ReceiveType DEF TypeOK
  <2>3. CASE pc' = [pc EXCEPT ![p] = "generate"]
             /\ UNCHANGED <<lock, token, cred, made, dead, cache, stage, snap, deadAt, extracted>>
    BY <2>3 DEF TypeOK, Steps
  <2>. QED
    BY <1>5, <2>1, <2>2, <2>3 DEF Recheck
<1>6. CASE Generate(p)
  <2>1. CASE Finish(p)
    BY <1>2, <2>1
  <2>2. CASE ~Finish(p)
    <3>1. made' \in Seq(Nat) /\ Len(made') = Len(made) + 1
      <4>1. made' = Append(made, snap[p]) /\ made \in Seq(Nat) /\ snap[p] \in Nat
        BY <1>6, <2>2 DEF Generate, TypeOK
      <4>. QED
        BY <4>1
    <3>2. 0..Len(made) \subseteq 0..Len(made') /\ 1..Len(made) \subseteq 1..Len(made')
          /\ Len(made) + 1 \in 1..Len(made')
      BY <1>1, <3>1
    <3>3. token' \in [Procs -> 0..Len(made')] /\ deadAt' \in [Tools -> SUBSET (1..Len(made'))]
          /\ dead' \in SUBSET (1..Len(made'))
      <4>1. token' = [token EXCEPT ![p] = Len(made) + 1] /\ deadAt' = deadAt
            /\ dead' \in {dead, dead \union {Len(made) + 1}}
        BY <1>6, <2>2 DEF Generate
      <4>2. token \in [Procs -> 0..Len(made)] /\ deadAt \in [Tools -> SUBSET (1..Len(made))]
            /\ dead \in SUBSET (1..Len(made))
        BY DEF TypeOK
      <4>3. Len(made) + 1 \in 0..Len(made')
        BY <1>1, <3>1
      <4>. QED
        BY <3>2, <4>1, <4>2, <4>3
    <3>4. cred' \in [version : Nat, active : BOOLEAN, token : 0..Len(made'), lapsed : BOOLEAN,
                     by : SUBSET (Executors \union Requests)]
      BY <1>6, <2>2, <3>2 DEF Generate, TypeOK
    <3>. QED
      BY <1>6, <2>2, <3>1, <3>3, <3>4 DEF Generate, TypeOK, Steps
  <2>. QED
    BY <2>1, <2>2
<1>7. CASE Store(p)
  <2>1. CASE Finish(p)
    BY <1>2, <2>1
  <2>2. CASE ~Finish(p)
    <3>1. cred' \in [version : Nat, active : BOOLEAN, token : 0..Len(made), lapsed : BOOLEAN,
                     by : SUBSET (Executors \union Requests)]
      <4>1. PICK lapsed \in BOOLEAN :
              cred' = [[cred EXCEPT !.token = token[p], !.lapsed = lapsed] EXCEPT
                         !.by = IF Valid([cred EXCEPT !.token = token[p], !.lapsed = lapsed], dead)
                                THEN @ \union {Owner(p)} ELSE {}]
        BY <1>7, <2>2 DEF Store
      <4>2. cred.by \union {Owner(p)} \in SUBSET (Executors \union Requests) /\ token[p] \in 0..Len(made)
        BY OwnerType DEF TypeOK
      <4>. QED
        BY <4>1, <4>2 DEF TypeOK
    <3>2. CASE Over(p)
      <4>1. Goto(p, "done") /\ "done" \in Steps /\ made' = made /\ dead' = dead /\ cache' = cache
        BY <3>2 DEF Over, Steps
      <4>2. stage' \in [Tools -> 0..Pre + 1] /\ extracted' \in [Tools -> [1..Pre -> Tools \union {"none"}]]
        BY <3>2, OverData
      <4>. QED
        BY <3>1, <4>1, <4>2, GotoType DEF TypeOK
    <3>3. CASE Receive(p, token[p]) /\ UNCHANGED <<made, dead, cache, stage, snap, deadAt, extracted>>
      <4>1. token[p] \in 0..Len(made)
        BY DEF TypeOK
      <4>. QED
        BY <3>1, <3>3, <4>1, ReceiveType DEF TypeOK
    <3>. QED
      BY <1>7, <2>2, <3>2, <3>3 DEF Store
  <2>. QED
    BY <2>1, <2>2
<1>8. CASE Headers(p)
  <2>1. CASE Finish(p)
    BY <1>2, <2>1
  <2>2. CASE Goto(p, "done") /\ UNCHANGED <<cred, made, dead, cache, stage, extracted>>
    BY <2>2, GotoType DEF TypeOK, Steps
  <2>3. CASE /\ Goto(p, "pre") /\ stage' = [stage EXCEPT ![p] = 1]
             /\ UNCHANGED <<cred, made, dead, cache, extracted>>
    <3>1. stage' \in [Tools -> 0..Pre + 1]
      <4>1. stage \in [Tools -> 0..Pre + 1]
        BY DEF TypeOK
      <4>. QED
        BY <2>3, <4>1, PreType
    <3>. QED
      BY <2>3, <3>1, GotoType DEF TypeOK, Steps
  <2>4. CASE /\ pc' = [pc EXCEPT ![p] = "send"]
             /\ UNCHANGED <<cred, made, dead, lock, cache, stage, snap, token, deadAt, extracted>>
    BY <2>4 DEF TypeOK, Steps
  <2>. QED
    BY <1>8, <2>1, <2>2, <2>3, <2>4 DEF Headers
<1>. QED
  BY <1>3, <1>4, <1>5, <1>6, <1>7, <1>8 DEF TokenStep

LEMMA ToolStepType ==
  ASSUME TypeOK, NEW p \in Tools, ToolStep(p) \/ Cancel(p)
  PROVE  TypeOK'
<1>1. p \in Procs
  BY DEF Procs
<1>2. ASSUME Finish(p) PROVE TypeOK'
  BY <1>1, <1>2, FinishType DEF Finish
<1>3. CASE Start(p)
  BY <1>1, <1>2, <1>3 DEF Start, TypeOK, Steps
<1>4. CASE PreRequest(p)
  <2>1. CASE InCache(p)
    <3>1. stage[p] \in 1..Pre /\ Uses[p] \in Agents
      BY <2>1, PreType DEF InCache
    <3>2. stage[p] + 1 \in 0..Pre + 1
      BY <3>1, PreType
    <3>3. cache[Uses[p]][stage[p]] \in Tools \union {"none"}
      <4>1. cache \in [Agents -> [1..Pre -> Tools \union {"none"}]]
        BY DEF TypeOK
      <4>2. cache[Uses[p]] \in [1..Pre -> Tools \union {"none"}]
        BY <3>1, <4>1
      <4>. QED
        BY <3>1, <4>2
    <3>4. stage' \in [Tools -> 0..Pre + 1]
      BY <1>4, <2>1, <3>2 DEF PreRequest, TypeOK
    <3>5. extracted' \in [Tools -> [1..Pre -> Tools \union {"none"}]]
      <4>1. /\ extracted \in [Tools -> [1..Pre -> Tools \union {"none"}]]
            /\ extracted' = [extracted EXCEPT ![p][stage[p]] = cache[Uses[p]][stage[p]]]
        BY <1>4, <2>1 DEF PreRequest, TypeOK
      <4>. QED
        BY <3>1, <3>3, <4>1
    <3>. QED
      BY <1>4, <2>1, <3>4, <3>5 DEF PreRequest, TypeOK
  <2>2. CASE ~InCache(p)
    BY <1>1, <1>4, <2>2 DEF PreRequest, TypeOK, Steps
  <2>. QED
    BY <2>1, <2>2
<1>5. CASE SendPreRequest(p)
  <2>1. CASE Finish(p)
    BY <1>2, <2>1
  <2>2. CASE ~Finish(p)
    <3>1. stage[p] + 1 \in 0..Pre + 1
      <4>1. stage[p] \in 0..Pre + 1 /\ stage[p] <= Pre
        BY <1>5 DEF SendPreRequest, TypeOK
      <4>. QED
        BY <4>1, PreType
    <3>2. stage' \in [Tools -> 0..Pre + 1] /\ extracted' \in [Tools -> [1..Pre -> Tools \union {"none"}]]
      <4>1. /\ stage' = [stage EXCEPT ![p] = stage[p] + 1]
            /\ extracted' = [extracted EXCEPT ![p][stage[p]] = p]
        BY <1>5, <2>2 DEF SendPreRequest
      <4>2. stage \in [Tools -> 0..Pre + 1] /\ extracted \in [Tools -> [1..Pre -> Tools \union {"none"}]]
        BY DEF TypeOK
      <4>. QED
        BY <3>1, <4>1, <4>2
    <3>3. cache' \in [Agents -> [1..Pre -> Tools \union {"none"}]]
      <4>1. cache' = [cache EXCEPT ![Uses[p]][stage[p]] = p] \/ cache' = cache
        BY <1>5, <2>2 DEF SendPreRequest
      <4>2. cache \in [Agents -> [1..Pre -> Tools \union {"none"}]]
        BY DEF TypeOK
      <4>3. ASSUME NEW a \in Agents, NEW k \in 1..Pre
            PROVE  [cache EXCEPT ![Uses[p]][stage[p]] = p][a][k] \in Tools \union {"none"}
        <5>1. cache[a] \in [1..Pre -> Tools \union {"none"}]
          BY <4>2
        <5>2. CASE a = Uses[p]
          BY <4>2, <5>1, <5>2
        <5>3. CASE a # Uses[p]
          BY <4>2, <5>1, <5>3
        <5>. QED
          BY <5>2, <5>3
      <4>4. [cache EXCEPT ![Uses[p]][stage[p]] = p] \in [Agents -> [1..Pre -> Tools \union {"none"}]]
        BY <4>2, <4>3
      <4>. QED
        BY <4>1, <4>2, <4>4
    <3>. QED
      BY <1>1, <1>5, <2>2, <3>2, <3>3, GotoType DEF SendPreRequest, TypeOK, Steps
  <2>. QED
    BY <2>1, <2>2
<1>. QED
  BY <1>2, <1>3, <1>4, <1>5 DEF ToolStep, SendMain, Cancel

LEMMA ClearedType ==
  ASSUME TypeOK
  PROVE  /\ Cleared(cred) \in [version : Nat, active : BOOLEAN, token : 0..Len(made),
                               lapsed : BOOLEAN, by : SUBSET (Executors \union Requests)]
         /\ Cleared(cred).version = cred.version /\ Cleared(cred).by = cred.by
<1>1. 0 \in 0..Len(made)
  BY DEF TypeOK
<1>. QED
  BY <1>1 DEF Cleared, TypeOK

LEMMA RequestStepType == ASSUME TypeOK, NEW r \in Requests, RequestStep(r) PROVE TypeOK'
<1>1. r \in Procs /\ Len(made) \in Nat
  BY DEF Procs, TypeOK
<1>2. ASSUME NEW new \in [version : Nat, active : BOOLEAN, token : 0..Len(made), lapsed : BOOLEAN,
                           by : SUBSET (Executors \union Requests)],
             Write(r, new)
      PROVE  TypeOK'
  BY <1>1, <1>2 DEF Write, TypeOK, Steps
<1>3. CASE UpdateCredential(r)
  <2>1. PICK active \in BOOLEAN :
          \/ Write(r, [cred EXCEPT !.active = active])
          \/ Write(r, [Cleared(cred) EXCEPT !.active = active, !.version = @ + 1])
    BY <1>3 DEF UpdateCredential
  <2>2. [cred EXCEPT !.active = active]
          \in [version : Nat, active : BOOLEAN, token : 0..Len(made), lapsed : BOOLEAN,
              by : SUBSET (Executors \union Requests)]
    BY DEF TypeOK
  <2>3. [Cleared(cred) EXCEPT !.active = active, !.version = @ + 1]
          \in [version : Nat, active : BOOLEAN, token : 0..Len(made), lapsed : BOOLEAN,
              by : SUBSET (Executors \union Requests)]
    <3>1. Cleared(cred).version + 1 \in Nat
      BY ClearedType
    <3>. QED
      BY <3>1, ClearedType
  <2>. QED
    BY <1>2, <2>1, <2>2, <2>3
<1>4. CASE DeleteCredential(r)
  <2>1. [Cleared(cred) EXCEPT !.active = FALSE]
          \in [version : Nat, active : BOOLEAN, token : 0..Len(made), lapsed : BOOLEAN,
              by : SUBSET (Executors \union Requests)]
    BY ClearedType
  <2>. QED
    BY <1>2, <1>4, <2>1 DEF DeleteCredential
<1>5. CASE RefreshToken(r)
  BY <1>1, <1>5 DEF RefreshToken, TypeOK, Steps
<1>6. CASE ClearTokens(r)
  <2>1. CASE Finish(r)
    BY <1>1, <2>1, FinishType DEF Finish
  <2>2. CASE ~Finish(r)
    <3>1. cred' \in [version : Nat, active : BOOLEAN, token : 0..Len(made), lapsed : BOOLEAN,
                     by : SUBSET (Executors \union Requests)]
      BY <1>6, <2>2, ClearedType DEF ClearTokens
    <3>. QED
      BY <1>1, <1>6, <2>2, <3>1 DEF ClearTokens, TypeOK, Steps
  <2>. QED
    BY <2>1, <2>2
<1>. QED
  BY <1>3, <1>4, <1>5, <1>6 DEF RequestStep

LEMMA NextType == TypeOK /\ [Next]_vars => TypeOK'
<1> SUFFICES ASSUME TypeOK, [Next]_vars PROVE TypeOK'
  OBVIOUS
<1>1. CASE Expire
  BY <1>1 DEF Expire, TypeOK
<1>2. CASE Lapse
  BY <1>2 DEF Lapse, TypeOK
<1>3. CASE UNCHANGED vars
  BY <1>3 DEF vars, TypeOK
<1>. QED
  BY <1>1, <1>2, <1>3, TokenStepType, ToolStepType, RequestStepType DEF Next

\* Types, for any calls, requests, executors and pre-requests.
THEOREM TypeCorrect == Spec => []TypeOK
  BY InitType, NextType, PTL DEF Spec

-----------------------------------------------------------------------------
(* A refresh is shared.                                                     *)

Refreshing == {"recheck", "generate", "store"}

\* Who refreshes holds the lock, and an executor one of whose calls is past its
\* second look has stored nothing that is valid.
Sharing ==
  /\ \A p \in Procs : pc[p] \in Refreshing => lock[Owner(p)] = p
  /\ \A p \in Procs : pc[p] \in {"generate", "store"} => Owner(p) \notin cred.by
  /\ cred.by # {} => Valid(cred, dead)

\* A step of p that leaves it outside of a refresh.
LEMMA OutsideSharing ==
  ASSUME TypeOK, Sharing, NEW p \in Procs, NEW next \in Steps \ Refreshing,
         pc' = [pc EXCEPT ![p] = next], lock' = Release(p) \/ lock' = lock,
         cred'.by \subseteq cred.by, cred'.by # {} => Valid(cred', dead')
  PROVE  Sharing'
<1>1. ASSUME NEW q \in Procs, pc'[q] \in Refreshing
      PROVE  q # p /\ pc'[q] = pc[q] /\ lock'[Owner(q)] = q
  <2>1. q # p /\ pc'[q] = pc[q]
    BY <1>1 DEF TypeOK
  <2>2. lock[Owner(q)] = q /\ Owner(q) \in Executors \union Requests
    BY <1>1, <2>1, OwnerType DEF Sharing
  <2>. QED
    BY <2>1, <2>2 DEF TypeOK, Release
<1>2. ASSUME NEW q \in Procs, pc'[q] \in {"generate", "store"}
      PROVE  Owner(q) \notin cred'.by
  BY <1>1, <1>2 DEF Sharing, Refreshing
<1>. QED
  BY <1>1, <1>2 DEF Sharing, Owner

\* A step in which nobody goes on.
LEMMA StillSharing ==
  ASSUME Sharing, pc' = pc, lock' = lock,
         cred'.by \subseteq cred.by, cred'.by # {} => Valid(cred', dead')
  PROVE  Sharing'
  BY DEF Sharing, Owner

LEMMA FinishSharing ==
  ASSUME TypeOK, Sharing, NEW p \in Procs, Finish(p)
  PROVE  Sharing'
<1>1. pc' = [pc EXCEPT ![p] = "done"] /\ lock' = Release(p) /\ cred' = cred /\ dead' = dead
  BY DEF Finish, Over, Goto
<1>2. "done" \in Steps \ Refreshing
  BY DEF Steps, Refreshing
<1>. QED
  BY <1>1, <1>2, OutsideSharing DEF Sharing, Valid

LEMMA ReceiveSharing ==
  ASSUME TypeOK, Sharing, NEW p \in Procs, NEW t, Receive(p, t), cred' = cred, dead' = dead
  PROVE  Sharing'
<1>1. pc' = [pc EXCEPT ![p] = "headers"] /\ lock' = Release(p)
  BY DEF Receive
<1>2. "headers" \in Steps \ Refreshing
  BY DEF Steps, Refreshing
<1>. QED
  BY <1>1, <1>2, OutsideSharing DEF Sharing, Valid

\* A new token does not change what is valid: it is not the cached one.
LEMMA GenerateValid ==
  ASSUME TypeOK, NEW p \in Procs, Generate(p), Valid(cred, dead)
  PROVE  Valid(cred, dead')
<1>1. Len(made) \in Nat /\ cred.token \in 0..Len(made)
  BY DEF TypeOK
<1>2. dead' \subseteq dead \union {Len(made) + 1}
  BY DEF Generate, Finish, Over
<1>3. cred.token # Len(made) + 1
  BY <1>1
<1>. QED
  BY <1>2, <1>3 DEF Valid

LEMMA StoreSharing ==
  ASSUME TypeOK, Sharing, NEW p \in Procs, Store(p), ~Finish(p)
  PROVE  Sharing'
<1>1. PICK lapsed \in BOOLEAN :
        cred' = [[cred EXCEPT !.token = token[p], !.lapsed = lapsed] EXCEPT
                   !.by = IF Valid([cred EXCEPT !.token = token[p], !.lapsed = lapsed], dead)
                          THEN @ \union {Owner(p)} ELSE {}]
  BY DEF Store
<1>2. pc[p] = "store" /\ dead' = dead /\ lock' = Release(p)
      /\ \E next \in {"headers", "done"} : pc' = [pc EXCEPT ![p] = next]
  BY DEF Store, Over, Goto, Receive
<1>3. cred'.by # {} => Valid(cred', dead')
  BY <1>1, <1>2 DEF Valid, TypeOK
<1>4. cred'.by \subseteq cred.by \union {Owner(p)}
  BY <1>1 DEF TypeOK
<1>5. ASSUME NEW q \in Procs, pc'[q] \in Refreshing
      PROVE  pc'[q] = pc[q] /\ lock'[Owner(q)] = q /\ Owner(q) # Owner(p)
  <2>1. q # p /\ pc'[q] = pc[q]
    BY <1>2, <1>5 DEF TypeOK, Refreshing
  <2>2. lock[Owner(q)] = q /\ lock[Owner(p)] = p
    BY <1>2, <1>5, <2>1 DEF Sharing, Refreshing
  <2>3. Owner(q) # Owner(p)
    BY <2>1, <2>2
  <2>. QED
    BY <1>2, <2>1, <2>2, <2>3, OwnerType DEF TypeOK, Release
<1>6. ASSUME NEW q \in Procs, pc'[q] \in {"generate", "store"}
      PROVE  Owner(q) \notin cred'.by
  BY <1>4, <1>5, <1>6 DEF Sharing, Refreshing
<1>. QED
  BY <1>3, <1>5, <1>6 DEF Sharing, Owner

LEMMA TokenStepSharing ==
  ASSUME TypeOK, Sharing, NEW p \in Procs, TokenStep(p)
  PROVE  Sharing'
<1>1. CASE Finish(p)
  BY <1>1, FinishSharing
<1>2. CASE Get(p) /\ ~Finish(p)
  <2>1. CASE Receive(p, cred.token)
    BY <1>2, <2>1, ReceiveSharing DEF Get
  <2>2. CASE ~Receive(p, cred.token)
    <3>1. pc' = [pc EXCEPT ![p] = "lock"] /\ lock' = lock /\ cred' = cred /\ dead' = dead
      BY <1>2, <2>2 DEF Get
    <3>2. "lock" \in Steps \ Refreshing
      BY DEF Steps, Refreshing
    <3>. QED
      BY <3>1, <3>2, OutsideSharing DEF Sharing, Valid
  <2>. QED
    BY <2>1, <2>2
<1>3. CASE Lock(p)
  <2>1. /\ pc[p] = "lock" /\ pc' = [pc EXCEPT ![p] = "recheck"] /\ lock[Owner(p)] = "free"
        /\ lock' = [lock EXCEPT ![Owner(p)] = p] /\ cred' = cred /\ dead' = dead
    BY <1>3 DEF Lock
  <2>2. ASSUME NEW q \in Procs, pc'[q] \in Refreshing
        PROVE  lock'[Owner(q)] = q
    <3>1. CASE q = p
      BY <2>1, <3>1, OwnerType DEF TypeOK
    <3>2. CASE q # p
      <4>1. lock[Owner(q)] = q
        BY <2>1, <2>2, <3>2 DEF Sharing, TypeOK
      <4>2. Owner(q) # Owner(p)
        BY <2>1, <4>1, NamesAssumption
      <4>. QED
        BY <2>1, <4>1, <4>2, OwnerType DEF TypeOK
    <3>. QED
      BY <3>1, <3>2
  <2>3. ASSUME NEW q \in Procs, pc'[q] \in {"generate", "store"}
        PROVE  Owner(q) \notin cred'.by
    BY <2>1, <2>3 DEF Sharing, TypeOK
  <2>. QED
    BY <2>1, <2>2, <2>3 DEF Sharing, Valid, Owner
<1>4. CASE Recheck(p) /\ ~Finish(p)
  <2>1. CASE Receive(p, cred.token)
    BY <1>4, <2>1, ReceiveSharing DEF Recheck
  <2>2. CASE ~Receive(p, cred.token)
    <3>1. /\ pc[p] = "recheck" /\ ~Valid(cred, dead) /\ pc' = [pc EXCEPT ![p] = "generate"]
          /\ lock' = lock /\ cred' = cred /\ dead' = dead
      BY <1>4, <2>2 DEF Recheck
    <3>2. cred.by = {}
      BY <3>1 DEF Sharing
    <3>3. \A q \in Procs : pc'[q] \in Refreshing => pc[q] \in Refreshing
      BY <3>1 DEF TypeOK, Refreshing
    <3>. QED
      BY <3>1, <3>2, <3>3 DEF Sharing, Owner
  <2>. QED
    BY <2>1, <2>2
<1>5. CASE Generate(p) /\ ~Finish(p)
  <2>1. /\ pc[p] = "generate" /\ pc' = [pc EXCEPT ![p] = "store"]
        /\ lock' = lock /\ cred' = cred
    BY <1>5 DEF Generate
  <2>2. /\ \A q \in Procs : pc'[q] \in Refreshing => pc[q] \in Refreshing
        /\ \A q \in Procs : pc'[q] \in {"generate", "store"} => pc[q] \in {"generate", "store"}
    BY <2>1 DEF TypeOK, Refreshing
  <2>3. cred'.by # {} => Valid(cred', dead')
    BY <1>5, <2>1, GenerateValid DEF Sharing
  <2>. QED
    BY <2>1, <2>2, <2>3 DEF Sharing, Owner
<1>6. CASE Store(p) /\ ~Finish(p)
  BY <1>6, StoreSharing
<1>7. CASE Headers(p) /\ ~Finish(p)
  <2>1. /\ \E next \in {"done", "pre", "send"} : pc' = [pc EXCEPT ![p] = next]
        /\ lock' = Release(p) \/ lock' = lock
        /\ cred' = cred /\ dead' = dead
    BY <1>7 DEF Headers, Goto
  <2>2. {"done", "pre", "send"} \subseteq Steps \ Refreshing
    BY DEF Steps, Refreshing
  <2>. QED
    BY <2>1, <2>2, OutsideSharing DEF Sharing, Valid
<1>. QED
  BY <1>1, <1>2, <1>3, <1>4, <1>5, <1>6, <1>7 DEF TokenStep

LEMMA NextSharing == TypeOK /\ Sharing /\ [Next]_vars => Sharing'
<1> SUFFICES ASSUME TypeOK, Sharing, [Next]_vars PROVE Sharing'
  OBVIOUS
<1>1. ASSUME NEW p \in Procs, TokenStep(p) PROVE Sharing'
  BY <1>1, TokenStepSharing
<1>2. ASSUME NEW p \in Tools, ToolStep(p) \/ Cancel(p) PROVE Sharing'
  <2>1. p \in Procs
    BY DEF Procs
  <2>2. CASE Finish(p)
    BY <2>1, <2>2, FinishSharing
  <2>3. CASE ~Finish(p)
    <3>1. /\ cred' = cred /\ dead' = dead
          /\ lock' = Release(p) \/ lock' = lock
          /\ \/ pc' = pc /\ lock' = lock
             \/ \E next \in {"get", "pre"} : pc' = [pc EXCEPT ![p] = next]
      BY <1>2, <2>3 DEF ToolStep, Start, PreRequest, SendPreRequest, SendMain, Cancel, Goto
    <3>2. {"get", "pre"} \subseteq Steps \ Refreshing
      BY DEF Steps, Refreshing
    <3>3. cred'.by \subseteq cred.by /\ (cred'.by # {} => Valid(cred', dead'))
      BY <3>1 DEF Sharing, Valid
    <3>. QED
      BY <2>1, <3>1, <3>2, <3>3, OutsideSharing, StillSharing
  <2>. QED
    BY <2>2, <2>3
<1>3. ASSUME NEW r \in Requests, RequestStep(r) PROVE Sharing'
  <2>1. r \in Procs
    BY DEF Procs
  <2>2. CASE Finish(r)
    BY <2>1, <2>2, FinishSharing
  <2>3. CASE ~Finish(r)
    <3>1. /\ lock' = lock /\ dead' = dead
          /\ \E next \in {"done", "clear", "get"} : pc' = [pc EXCEPT ![r] = next]
      BY <1>3, <2>3 DEF RequestStep, UpdateCredential, DeleteCredential, RefreshToken, ClearTokens, Write
    <3>2. {"done", "clear", "get"} \subseteq Steps \ Refreshing
      BY DEF Steps, Refreshing
    <3>3. cred'.by \subseteq cred.by /\ (cred'.by # {} => Valid(cred', dead'))
      <4>1. ASSUME NEW new \in [version : Nat, active : BOOLEAN, token : 0..Len(made), lapsed : BOOLEAN,
                                by : SUBSET (Executors \union Requests)],
                   new.by = cred.by, Write(r, new)
            PROVE  cred'.by \subseteq cred.by /\ (cred'.by # {} => Valid(cred', dead'))
        BY <4>1 DEF Write, Valid
      <4>2. CASE UpdateCredential(r)
        <5>1. PICK active \in BOOLEAN :
                \/ Write(r, [cred EXCEPT !.active = active])
                \/ Write(r, [Cleared(cred) EXCEPT !.active = active, !.version = @ + 1])
          BY <4>2 DEF UpdateCredential
        <5>2. Cleared(cred).version + 1 \in Nat
          BY ClearedType
        <5>. QED
          BY <4>1, <5>1, <5>2, ClearedType DEF TypeOK
      <4>3. CASE DeleteCredential(r)
        BY <4>1, <4>3, ClearedType DEF DeleteCredential
      <4>4. CASE RefreshToken(r)
        BY <4>4 DEF RefreshToken, Sharing
      <4>5. CASE ClearTokens(r)
        BY <2>3, <4>5, ClearedType DEF ClearTokens
      <4>. QED
        BY <1>3, <4>2, <4>3, <4>4, <4>5 DEF RequestStep
    <3>. QED
      BY <2>1, <3>1, <3>2, <3>3, OutsideSharing
  <2>. QED
    BY <2>2, <2>3
<1>4. CASE Expire
  BY <1>4, StillSharing DEF Expire, Valid, TypeOK
<1>5. CASE Lapse
  BY <1>5, StillSharing DEF Lapse, TypeOK
<1>6. CASE UNCHANGED vars
  BY <1>6, StillSharing DEF vars, Sharing
<1>. QED
  BY <1>1, <1>2, <1>3, <1>4, <1>5, <1>6 DEF Next

LEMMA InitSharing == Init => Sharing
<1> SUFFICES ASSUME Init PROVE Sharing
  OBVIOUS
<1>1. cred.by = {}
  BY DEF Init
<1>2. \A p \in Procs : pc[p] \in {"idle", "start"}
  BY DEF Init
<1>. QED
  BY <1>1, <1>2 DEF Sharing, Refreshing

LEMMA StepIsShared ==
  Sharing => [\A p \in Procs : Stores(p) => Owner(p) \notin cred.by]_vars
  BY DEF Sharing, Stores

\* Of the calls of one executor that met an expired token, one stores a new one.
THEOREM RefreshShared == Spec => RefreshIsShared
<1>1. Init => TypeOK /\ Sharing
  BY InitType, InitSharing
<1>2. TypeOK /\ Sharing /\ [Next]_vars => (TypeOK /\ Sharing)'
  BY NextType, NextSharing
<1>3. TypeOK /\ Sharing => [\A p \in Procs : Stores(p) => Owner(p) \notin cred.by]_vars
  BY StepIsShared
<1>. QED
  BY <1>1, <1>2, <1>3, PTL DEF Spec, RefreshIsShared

-----------------------------------------------------------------------------
(* A request is not sent with a token that was about to expire.             *)

\* A dead token stays dead, and each way to a token leads past those that were
\* dead when the call asked: the cached one is looked at, a new one is new.
FreshAt(p) ==
  /\ deadAt[p] \subseteq dead
  /\ pc[p] \in {"store", "headers", "send"} => token[p] # 0 /\ (Jwt => token[p] \notin deadAt[p])

Fresh == \A p \in Tools : FreshAt(p)

LEMMA OtherFresh ==
  ASSUME Fresh, NEW q \in Tools, dead \subseteq dead',
         pc'[q] = pc[q], token'[q] = token[q], deadAt'[q] = deadAt[q]
  PROVE  FreshAt(q)'
  BY DEF Fresh, FreshAt

\* p is where a token is not needed.
LEMMA GotoFresh ==
  ASSUME TypeOK, Fresh, NEW p \in Procs, NEW next \in {"pre", "done"}, Goto(p, next), dead' = dead
  PROVE  Fresh'
<1>1. ASSUME NEW q \in Tools PROVE FreshAt(q)'
  <2>1. q \in Procs
    BY DEF Procs
  <2>2. CASE q = p
    BY <2>1, <2>2 DEF Goto, FreshAt, TypeOK
  <2>3. CASE q # p
    BY <2>1, <2>3, OtherFresh DEF Goto, TypeOK
  <2>. QED
    BY <2>2, <2>3
<1>. QED
  BY <1>1 DEF Fresh

\* The step of p leaves what the others have.
LEMMA StepFresh ==
  ASSUME TypeOK, Fresh, NEW p \in Procs, dead \subseteq dead',
         \A q \in Tools \ {p} : pc'[q] = pc[q] /\ token'[q] = token[q] /\ deadAt'[q] = deadAt[q],
         p \in Tools => FreshAt(p)'
  PROVE  Fresh'
  BY OtherFresh DEF Fresh

LEMMA TokenStepFresh ==
  ASSUME TypeOK, Fresh, NEW p \in Procs, TokenStep(p)
  PROVE  Fresh'
<1>. DEFINE Others == \A q \in Tools \ {p} :
              pc'[q] = pc[q] /\ token'[q] = token[q] /\ deadAt'[q] = deadAt[q]
<1>0. Tools \subseteq Procs
  BY DEF Procs
<1>1. ASSUME Finish(p) PROVE Fresh'
  BY <1>1, GotoFresh DEF Finish, Over
<1>2. CASE Get(p) /\ ~Finish(p)
  <2>1. Others /\ dead' = dead /\ deadAt' = [deadAt EXCEPT ![p] = dead]
    BY <1>0, <1>2 DEF Get, Receive, TypeOK
  <2>2. ASSUME p \in Tools PROVE FreshAt(p)'
    <3>1. deadAt'[p] = dead
      BY <2>1, <2>2 DEF TypeOK
    <3>2. CASE Valid(cred, dead) /\ Receive(p, cred.token)
      BY <2>1, <3>1, <3>2 DEF Receive, Valid, FreshAt, TypeOK
    <3>3. CASE pc' = [pc EXCEPT ![p] = "lock"]
      BY <2>1, <3>1, <3>3 DEF FreshAt, TypeOK
    <3>. QED
      BY <1>2, <3>2, <3>3 DEF Get
  <2>. QED
    BY <2>1, <2>2, StepFresh
<1>3. CASE Lock(p)
  <2>1. Others /\ dead' = dead
    BY <1>0, <1>3 DEF Lock, TypeOK
  <2>2. ASSUME p \in Tools PROVE FreshAt(p)'
    BY <1>3, <2>2 DEF Lock, Fresh, FreshAt, TypeOK
  <2>. QED
    BY <2>1, <2>2, StepFresh
<1>4. CASE Recheck(p) /\ ~Finish(p)
  <2>1. Others /\ dead' = dead /\ deadAt' = deadAt
    BY <1>0, <1>4 DEF Recheck, Receive, TypeOK
  <2>2. ASSUME p \in Tools PROVE FreshAt(p)'
    <3>1. deadAt[p] \subseteq dead
      BY <2>2 DEF Fresh, FreshAt
    <3>2. CASE Valid(cred, dead) /\ Receive(p, cred.token)
      BY <2>1, <3>1, <3>2 DEF Receive, Valid, FreshAt, TypeOK
    <3>3. CASE pc' = [pc EXCEPT ![p] = "generate"]
      BY <2>1, <3>1, <3>3 DEF FreshAt, TypeOK
    <3>. QED
      BY <1>4, <3>2, <3>3 DEF Recheck
  <2>. QED
    BY <2>1, <2>2, StepFresh
<1>5. CASE Generate(p) /\ ~Finish(p)
  <2>1. Others /\ dead \subseteq dead' /\ deadAt' = deadAt /\ token' = [token EXCEPT ![p] = Len(made) + 1]
    BY <1>0, <1>5 DEF Generate, TypeOK
  <2>2. ASSUME p \in Tools PROVE FreshAt(p)'
    <3>1. deadAt[p] \subseteq dead /\ deadAt[p] \subseteq 1..Len(made)
      BY <2>2 DEF Fresh, FreshAt, TypeOK
    <3>2. Len(made) \in Nat /\ token'[p] = Len(made) + 1
      BY <2>1 DEF TypeOK
    <3>3. Len(made) + 1 # 0 /\ Len(made) + 1 \notin deadAt[p]
      BY <3>1, <3>2
    <3>. QED
      BY <2>1, <3>1, <3>2, <3>3 DEF FreshAt
  <2>. QED
    BY <2>1, <2>2, StepFresh
<1>6. CASE Store(p) /\ ~Finish(p)
  <2>1. CASE Over(p)
    BY <2>1, GotoFresh DEF Over
  <2>2. CASE Receive(p, token[p]) /\ UNCHANGED <<dead, deadAt>>
    <3>1. Others /\ dead' = dead /\ deadAt' = deadAt
      BY <1>0, <2>2 DEF Receive, TypeOK
    <3>2. ASSUME p \in Tools PROVE FreshAt(p)'
      BY <1>6, <2>2, <3>2 DEF Store, Receive, Fresh, FreshAt, TypeOK
    <3>. QED
      BY <3>1, <3>2, StepFresh
  <2>. QED
    BY <1>6, <2>1, <2>2 DEF Store
<1>7. CASE Headers(p) /\ ~Finish(p)
  <2>1. CASE \E next \in {"pre", "done"} : Goto(p, next) /\ dead' = dead
    BY <2>1, GotoFresh
  <2>2. CASE /\ pc[p] = "headers" /\ pc' = [pc EXCEPT ![p] = "send"]
             /\ UNCHANGED <<dead, token, deadAt>>
    <3>1. Others /\ dead' = dead
      BY <1>0, <2>2 DEF TypeOK
    <3>2. ASSUME p \in Tools PROVE FreshAt(p)'
      BY <2>2, <3>2 DEF Fresh, FreshAt, TypeOK
    <3>. QED
      BY <3>1, <3>2, StepFresh
  <2>. QED
    BY <1>7, <2>1, <2>2 DEF Headers
<1>. QED
  BY <1>1, <1>2, <1>3, <1>4, <1>5, <1>6, <1>7 DEF TokenStep

LEMMA NextFresh == TypeOK /\ Fresh /\ [Next]_vars => Fresh'
<1> SUFFICES ASSUME TypeOK, Fresh, [Next]_vars PROVE Fresh'
  OBVIOUS
<1>1. Tools \subseteq Procs /\ Requests \subseteq Procs /\ Requests \intersect Tools = {}
  BY ExecutorsAssumption DEF Procs
<1>2. ASSUME NEW p \in Procs, Finish(p) PROVE Fresh'
  BY <1>2, GotoFresh DEF Finish, Over
<1>3. ASSUME NEW p \in Procs, TokenStep(p) PROVE Fresh'
  BY <1>3, TokenStepFresh
<1>4. ASSUME NEW p \in Tools, ToolStep(p) \/ Cancel(p) PROVE Fresh'
  <2>1. CASE Finish(p) \/ SendMain(p) \/ Cancel(p)
    BY <1>1, <1>2, <2>1 DEF SendMain, Cancel
  <2>2. CASE SendPreRequest(p) /\ ~Finish(p)
    BY <1>1, <2>2, GotoFresh DEF SendPreRequest
  <2>3. CASE (Start(p) \/ PreRequest(p)) /\ ~Finish(p)
    <3>1. /\ token' = token /\ deadAt' = deadAt /\ dead' = dead
          /\ pc' = pc \/ pc' = [pc EXCEPT ![p] = "get"]
      BY <2>3 DEF Start, PreRequest
    <3>. QED
      BY <1>1, <3>1 DEF Fresh, FreshAt, TypeOK
  <2>. QED
    BY <1>4, <2>1, <2>2, <2>3 DEF ToolStep
<1>5. ASSUME NEW r \in Requests, RequestStep(r) PROVE Fresh'
  <2>1. CASE Finish(r)
    BY <1>1, <1>2, <2>1
  <2>2. CASE ~Finish(r)
    <3>1. /\ token' = token /\ deadAt' = deadAt /\ dead' = dead
          /\ \E next \in Steps : pc' = [pc EXCEPT ![r] = next]
      BY <1>5, <2>2 DEF RequestStep, UpdateCredential, DeleteCredential, RefreshToken, ClearTokens,
                        Write, Steps
    <3>2. \A q \in Tools : q # r /\ pc'[q] = pc[q]
      BY <1>1, <3>1 DEF TypeOK
    <3>. QED
      BY <3>1, <3>2 DEF Fresh, FreshAt
  <2>. QED
    BY <2>1, <2>2
<1>6. CASE Expire
  BY <1>6, OtherFresh DEF Expire, Fresh
<1>7. CASE Lapse \/ UNCHANGED vars
  BY <1>7 DEF Lapse, vars, Fresh, FreshAt
<1>. QED
  BY <1>3, <1>4, <1>5, <1>6, <1>7 DEF Next

LEMMA InitFresh == Init => Fresh
  BY ExecutorsAssumption DEF Init, Fresh, FreshAt, Procs

\* A JWT that was about to expire when a request asked is not what it is sent
\* with.
THEOREM ExpiredNotSent == Spec => []ExpiredIsNotSent
<1>1. Init => TypeOK /\ Fresh
  BY InitType, InitFresh
<1>2. TypeOK /\ Fresh /\ [Next]_vars => (TypeOK /\ Fresh)'
  BY NextType, NextFresh
<1>3. Fresh => ExpiredIsNotSent
  BY DEF Fresh, FreshAt, ExpiredIsNotSent
<1>. QED
  BY <1>1, <1>2, <1>3, PTL DEF Spec

-----------------------------------------------------------------------------
(* What the main request is sent with.                                      *)

\* p may use the result of q's k-th pre-request.
Usable(p, k, q) ==
  \/ q = p
  \/ q \in Tools /\ Uses[q] = Uses[p] /\ Uses[p] \in Agents /\ k \in Cached

\* The cache of a pipeline has the results of its own calls; a call has the
\* results of the pre-requests it is past.
Obtained ==
  /\ \A a \in Agents : \A k \in 1..Pre :
       cache[a][k] # "none" => cache[a][k] \in Tools /\ Uses[cache[a][k]] = a /\ k \in Cached
  /\ \A p \in Tools : \A k \in 1..Pre : k < stage[p] => Usable(p, k, extracted[p][k])

LEMMA InitObtained == Init => Obtained
<1> SUFFICES ASSUME Init PROVE Obtained
  OBVIOUS
<1>1. ASSUME NEW a \in Agents, NEW k \in 1..Pre PROVE cache[a][k] = "none"
  BY DEF Init, NoData
<1>2. ASSUME NEW p \in Tools, NEW k \in 1..Pre PROVE ~(k < stage[p])
  BY PreType DEF Init
<1>. QED
  BY <1>1, <1>2 DEF Obtained

\* The cache is as it was, and so is a call, or it is at its beginning.
LEMMA SameObtained ==
  ASSUME Obtained, cache' = cache,
         \A p \in Tools : \/ stage'[p] = stage[p] /\ extracted'[p] = extracted[p]
                          \/ stage'[p] \in {0, 1}
  PROVE  Obtained'
<1>1. ASSUME NEW p \in Tools, NEW k \in 1..Pre, k < stage'[p]
      PROVE  Usable(p, k, extracted'[p][k])
  <2>1. stage'[p] = stage[p] /\ extracted'[p] = extracted[p]
    BY <1>1, PreType
  <2>. QED
    BY <1>1, <2>1 DEF Obtained
<1>. QED
  BY <1>1 DEF Obtained, Usable

LEMMA OverObtained ==
  ASSUME TypeOK, Obtained, NEW p \in Procs, Over(p)
  PROVE  Obtained'
<1>1. /\ cache' = cache /\ stage' = [stage EXCEPT ![p] = 0]
      /\ extracted' = [extracted EXCEPT ![p] = NoData]
  BY DEF Over
<1>2. stage \in [Tools -> 0..Pre + 1] /\ extracted \in [Tools -> [1..Pre -> Tools \union {"none"}]]
  BY DEF TypeOK
<1>. QED
  BY <1>1, <1>2, SameObtained

\* A call that gets the result of its next pre-request.
LEMMA NextObtained ==
  ASSUME TypeOK, Obtained, NEW p \in Tools, stage[p] \in 1..Pre, NEW q,
         Usable(p, stage[p], q),
         stage' = [stage EXCEPT ![p] = stage[p] + 1],
         extracted' = [extracted EXCEPT ![p][stage[p]] = q]
  PROVE  \A r \in Tools : \A k \in 1..Pre : k < stage'[r] => Usable(r, k, extracted'[r][k])
<1>. SUFFICES ASSUME NEW r \in Tools, NEW k \in 1..Pre, k < stage'[r]
              PROVE  Usable(r, k, extracted'[r][k])
  OBVIOUS
<1>1. stage \in [Tools -> 0..Pre + 1] /\ extracted \in [Tools -> [1..Pre -> Tools \union {"none"}]]
  BY DEF TypeOK
<1>2. CASE r # p
  <2>1. stage'[r] = stage[r] /\ extracted'[r] = extracted[r]
    BY <1>1, <1>2
  <2>. QED
    BY <2>1 DEF Obtained
<1>3. CASE r = p /\ k = stage[p]
  <2>1. extracted'[p][k] = q
    BY <1>1, <1>3
  <2>. QED
    BY <1>3, <2>1
<1>4. CASE r = p /\ k # stage[p]
  <2>1. extracted'[p][k] = extracted[p][k] /\ stage'[p] = stage[p] + 1
    BY <1>1, <1>4
  <2>2. k < stage[p]
    BY <1>4, <2>1, PreType
  <2>. QED
    BY <1>4, <2>1, <2>2 DEF Obtained
<1>. QED
  BY <1>2, <1>3, <1>4

LEMMA PreRequestObtained ==
  ASSUME TypeOK, Obtained, NEW p \in Tools, PreRequest(p)
  PROVE  Obtained'
<1>1. CASE InCache(p)
  <2>1. /\ stage[p] \in Cached /\ stage[p] \in 1..Pre /\ Uses[p] \in Agents
        /\ cache[Uses[p]][stage[p]] # "none"
    BY <1>1, PreType DEF InCache
  <2>2. Usable(p, stage[p], cache[Uses[p]][stage[p]])
    BY <2>1 DEF Obtained, Usable
  <2>3. /\ stage' = [stage EXCEPT ![p] = stage[p] + 1] /\ cache' = cache
        /\ extracted' = [extracted EXCEPT ![p][stage[p]] = cache[Uses[p]][stage[p]]]
    BY <1>1 DEF PreRequest
  <2>4. \A r \in Tools : \A k \in 1..Pre : k < stage'[r] => Usable(r, k, extracted'[r][k])
    BY <2>1, <2>2, <2>3, NextObtained
  <2>. QED
    BY <2>3, <2>4 DEF Obtained, Usable
<1>2. CASE ~InCache(p)
  BY <1>2, SameObtained DEF PreRequest
<1>. QED
  BY <1>1, <1>2

\* A call that sends a request is past its templates.
LEMMA SendPreRequestObtained ==
  ASSUME TypeOK, Obtained, NEW p \in Tools, stage[p] # 0, SendPreRequest(p)
  PROVE  Obtained'
<1>1. CASE Finish(p)
  BY <1>1, OverObtained DEF Finish, Procs
<1>2. CASE ~Finish(p)
  <2>1. /\ stage' = [stage EXCEPT ![p] = stage[p] + 1]
        /\ extracted' = [extracted EXCEPT ![p][stage[p]] = p]
        /\ cache' = IF stage[p] \in Cached /\ Uses[p] \in Agents
                    THEN [cache EXCEPT ![Uses[p]][stage[p]] = p] ELSE cache
        /\ stage[p] <= Pre
    BY <1>2 DEF SendPreRequest
  <2>2. stage[p] \in 1..Pre /\ Usable(p, stage[p], p)
    BY <2>1, PreType DEF TypeOK, Usable
  <2>3. \A r \in Tools : \A k \in 1..Pre : k < stage'[r] => Usable(r, k, extracted'[r][k])
    BY <2>1, <2>2, NextObtained
  <2>4. ASSUME NEW a \in Agents, NEW k \in 1..Pre, cache'[a][k] # "none"
        PROVE  cache'[a][k] \in Tools /\ Uses[cache'[a][k]] = a /\ k \in Cached
    <3>1. cache \in [Agents -> [1..Pre -> Tools \union {"none"}]]
      BY DEF TypeOK
    <3>2. CASE cache'[a][k] = cache[a][k]
      BY <2>4, <3>2 DEF Obtained
    <3>3. CASE cache'[a][k] # cache[a][k]
      <4>1. stage[p] \in Cached /\ Uses[p] \in Agents /\ cache' = [cache EXCEPT ![Uses[p]][stage[p]] = p]
        BY <2>1, <3>3
      <4>2. a = Uses[p] /\ k = stage[p] /\ cache'[a][k] = p
        BY <3>1, <3>3, <4>1
      <4>. QED
        BY <4>1, <4>2
    <3>. QED
      BY <3>2, <3>3
  <2>. QED
    BY <2>3, <2>4 DEF Obtained, Usable
<1>. QED
  BY <1>1, <1>2

\* Where a call has its templates behind it.
Templated == \A p \in Tools : pc[p] \in {"pre", "send"} => stage[p] # 0

LEMMA NextTemplated == TypeOK /\ Templated /\ [Next]_vars => Templated'
<1> SUFFICES ASSUME TypeOK, Templated, [Next]_vars, NEW q \in Tools, pc'[q] \in {"pre", "send"}
             PROVE  stage'[q] # 0
  BY DEF Templated
<1>1. q \in Procs /\ Tools \subseteq Procs /\ Requests \subseteq Procs /\ Requests \intersect Tools = {}
  BY ExecutorsAssumption DEF Procs
<1>2. CASE UNCHANGED <<pc, stage>>
  BY <1>2 DEF Templated
<1>3. ASSUME NEW p \in Procs, Over(p) PROVE stage'[q] # 0
  <2>1. q # p
    BY <1>1, <1>3 DEF Over, Goto, TypeOK
  <2>. QED
    BY <1>1, <1>3, <2>1 DEF Over, Goto, Templated, TypeOK
<1>4. ASSUME NEW p \in Procs, TokenStep(p), ~Over(p) PROVE stage'[q] # 0
  <2>1. CASE ~Headers(p)
    <3>1. /\ stage' = stage
          /\ \E next \in {"headers", "lock", "recheck", "generate", "store"} : pc' = [pc EXCEPT ![p] = next]
      BY <1>4, <2>1 DEF TokenStep, Get, Lock, Recheck, Generate, Store, Receive, Finish
    <3>. QED
      BY <1>1, <3>1 DEF Templated, TypeOK
  <2>2. CASE Headers(p)
    <3>1. \/ /\ stage' = stage /\ pc' = [pc EXCEPT ![p] = "done"]
          \/ /\ p \in Tools
             /\ stage' = [stage EXCEPT ![p] = 1] /\ pc' = [pc EXCEPT ![p] = "pre"]
          \/ /\ p \in Tools /\ stage[p] # 0
             /\ stage' = stage /\ pc' = [pc EXCEPT ![p] = "send"]
      BY <1>4, <2>2 DEF Headers, Goto, Finish
    <3>. QED
      BY <1>1, <3>1 DEF Templated, TypeOK
  <2>. QED
    BY <2>1, <2>2
<1>5. ASSUME NEW p \in Tools, ToolStep(p) \/ Cancel(p), ~Over(p) PROVE stage'[q] # 0
  <2>1. CASE Start(p)
    BY <1>1, <1>5, <2>1 DEF Start, Finish, Templated, TypeOK
  <2>2. CASE PreRequest(p) \/ SendPreRequest(p)
    <3>1. stage' = stage \/ stage' = [stage EXCEPT ![p] = stage[p] + 1]
      BY <1>5, <2>2 DEF PreRequest, SendPreRequest, Finish
    <3>2. stage[p] \in Nat /\ pc[p] \in {"pre", "send"} /\ stage[p] + 1 # 0
      BY <2>2, PreType DEF PreRequest, SendPreRequest, TypeOK
    <3>3. q # p => pc'[q] = pc[q]
      BY <1>1, <2>2 DEF PreRequest, SendPreRequest, Finish, Over, Goto, TypeOK
    <3>. QED
      BY <3>1, <3>2, <3>3 DEF Templated, TypeOK
  <2>. QED
    BY <1>5, <2>1, <2>2 DEF ToolStep, SendMain, Cancel, Finish
<1>6. ASSUME NEW r \in Requests, RequestStep(r), ~Over(r) PROVE stage'[q] # 0
  <2>1. stage' = stage /\ \E next \in Steps : pc' = [pc EXCEPT ![r] = next]
    BY <1>6 DEF RequestStep, UpdateCredential, DeleteCredential, RefreshToken, ClearTokens,
                Write, Finish, Steps
  <2>2. pc'[q] = pc[q]
    BY <1>1, <2>1 DEF TypeOK
  <2>. QED
    BY <2>1, <2>2 DEF Templated
<1>. QED
  BY <1>1, <1>2, <1>3, <1>4, <1>5, <1>6 DEF Next, Expire, Lapse, vars

LEMMA NextStepObtained == TypeOK /\ Templated /\ Obtained /\ [Next]_vars => Obtained'
<1> SUFFICES ASSUME TypeOK, Templated, Obtained, [Next]_vars PROVE Obtained'
  OBVIOUS
<1>1. Tools \subseteq Procs /\ Requests \subseteq Procs
  BY DEF Procs
<1>2. ASSUME NEW p \in Procs, Over(p) PROVE Obtained'
  BY <1>2, OverObtained
<1>3. ASSUME NEW p \in Procs, TokenStep(p), ~Over(p) PROVE Obtained'
  <2>1. /\ cache' = cache /\ extracted' = extracted
        /\ stage' = stage \/ stage' = [stage EXCEPT ![p] = 1]
    BY <1>3 DEF TokenStep, Get, Lock, Recheck, Generate, Store, Headers, Finish
  <2>. QED
    BY <2>1, SameObtained DEF TypeOK
<1>4. ASSUME NEW p \in Tools, ToolStep(p) \/ Cancel(p), ~Over(p) PROVE Obtained'
  <2>1. CASE Start(p)
    BY <1>4, <2>1, SameObtained DEF Start, Finish
  <2>2. CASE PreRequest(p)
    BY <2>2, PreRequestObtained
  <2>3. CASE SendPreRequest(p)
    BY <2>3, SendPreRequestObtained DEF Templated, SendPreRequest
  <2>. QED
    BY <1>4, <2>1, <2>2, <2>3 DEF ToolStep, SendMain, Cancel, Finish
<1>5. ASSUME NEW r \in Requests, RequestStep(r), ~Over(r) PROVE Obtained'
  BY <1>5, SameObtained DEF RequestStep, UpdateCredential, DeleteCredential, RefreshToken,
                            ClearTokens, Write, Finish
<1>6. CASE Expire \/ Lapse \/ UNCHANGED vars
  BY <1>6, SameObtained DEF Expire, Lapse, vars
<1>. QED
  BY <1>1, <1>2, <1>3, <1>4, <1>5, <1>6 DEF Next

\* The main request has the results of all pre-requests, from this call or from
\* the cache of its session.
THEOREM MainRequestHasData == Spec => []MainHasData
<1>1. Init => TypeOK /\ Templated /\ Obtained
  BY InitType, InitObtained, ExecutorsAssumption DEF Init, Templated, Procs
<1>2. TypeOK /\ Templated /\ Obtained /\ [Next]_vars => (TypeOK /\ Templated /\ Obtained)'
  BY NextType, NextTemplated, NextStepObtained
<1>3. TypeOK /\ Obtained => MainHasData
  <2> SUFFICES ASSUME TypeOK, Obtained, NEW p \in Tools, stage[p] = Pre + 1, NEW k \in 1..Pre
               PROVE  Usable(p, k, extracted[p][k])
    BY DEF MainHasData, Usable
  <2>1. k < stage[p]
    BY PreType
  <2>. QED
    BY <2>1 DEF Obtained
<1>. QED
  BY <1>1, <1>2, <1>3, PTL DEF Spec
=============================================================================
