----------------------------- MODULE BusinessTools -----------------------------
(***************************************************************************)
(* Calls of a business tool whose API needs a token that is kept in the      *)
(* database (services/tool/business_tool_executor.py, services/token_manager *)
(* and managers/api_credential_manager.py).  A call asks for the token       *)
(* before every request it sends: once for its templates, once for each      *)
(* pre-request, once for the main request.  An executor refreshes an         *)
(* expired token under a lock of its own; every pipeline, CRM enrichment,    *)
(* post-call action and request of the API makes its own executor.           *)
(***************************************************************************)
EXTENDS Naturals, Sequences

CONSTANTS
  Tools,      \* calls of one tool
  Requests,   \* requests of the credentials API, each performs one operation
  Executors, Uses,  \* the executor of a call
  Agents,     \* the executors that belong to a pipeline and so have its cache
  Pre,        \* the number of pre-requests
  Cached,     \* those whose cache_config is enabled
  Jwt,        \* tokens are JWTs, which tell when they expire
  MaxTokens   \* bound: the tokens the endpoint has given in all

Procs == Tools \union Requests

ASSUME ExecutorsAssumption ==
  /\ Uses \in [Tools -> Executors] /\ Agents \subseteq Executors
  /\ Requests \intersect (Tools \union Executors) = {}
ASSUME NamesAssumption == "free" \notin Procs /\ "none" \notin Tools
ASSUME PreAssumption ==
  Pre \in Nat /\ Cached \subseteq 1..Pre /\ Jwt \in BOOLEAN /\ MaxTokens \in Nat

VARIABLES
  cred,       \* the credential: configuration, cached token (0: none)
  made,       \* the tokens: the configuration each was generated from
  dead,       \* the tokens that expire in less than five minutes
  lock,       \* who holds an executor's refresh lock
  cache,      \* the pre-request cache of a pipeline: whose result it holds
  pc, stage,  \* what a process does next; 0: templates, 1..Pre, then the main request
  snap,       \* the configuration it read
  token,      \* the token it was given
  deadAt,     \* history: the dead tokens when a call asked
  extracted   \* whose pre-request's result a call works with

vars == <<cred, made, dead, lock, cache, pc, stage, snap, token, deadAt, extracted>>

\* A request of the API creates a TokenManager of its own.
Owner(p) == IF p \in Requests THEN p ELSE Uses[p]

\* Mutant: only the database's expiry is checked.
ValidInDatabase(c, expired) == c.token # 0 /\ ~c.lapsed

\* _is_token_valid.
Valid(c, expired) == c.token # 0 /\ ~c.lapsed /\ (Jwt => c.token \notin expired)

\* Mutant: the lock is kept.
KeepLock(p) == lock

Release(p) == [lock EXCEPT ![Owner(p)] = IF @ = p THEN "free" ELSE @]

NoData == [k \in 1..Pre |-> "none"]

\* The request is over, and what p was given for it is forgotten.
Goto(p, next) ==
  /\ pc' = [pc EXCEPT ![p] = next]
  /\ snap' = [snap EXCEPT ![p] = 0]
  /\ token' = [token EXCEPT ![p] = 0]
  /\ deadAt' = [deadAt EXCEPT ![p] = {}]
  /\ lock' = Release(p)

\* The call is over, as it is after an exception or a refusal: the result
\* callback is called, the API answers.
Over(p) ==
  /\ Goto(p, "done")
  /\ stage' = [stage EXCEPT ![p] = 0]
  /\ extracted' = [extracted EXCEPT ![p] = NoData]
  /\ UNCHANGED <<made, dead, cache>>

Finish(p) == Over(p) /\ UNCHANGED cred

\* p is given a token and gives the lock back.
Receive(p, t) ==
  /\ token' = [token EXCEPT ![p] = t]
  /\ pc' = [pc EXCEPT ![p] = "headers"]
  /\ lock' = Release(p)

-----------------------------------------------------------------------------
(* The token: get_valid_tokens and _get_custom_token_db_headers.            *)

Get(p) ==
  /\ pc[p] = "get"
  /\ \/ Finish(p)
     \/ /\ cred.active
        /\ deadAt' = [deadAt EXCEPT ![p] = dead]
        /\ \/ Valid(cred, dead) /\ Receive(p, cred.token) /\ UNCHANGED snap
           \/ /\ ~Valid(cred, dead)
              /\ pc' = [pc EXCEPT ![p] = "lock"]
              /\ snap' = [snap EXCEPT ![p] = cred.version]
              /\ UNCHANGED <<lock, token>>
        /\ UNCHANGED <<cred, made, dead, cache, stage, extracted>>

Lock(p) ==
  /\ pc[p] = "lock"
  /\ lock[Owner(p)] = "free"
  /\ lock' = [lock EXCEPT ![Owner(p)] = p]
  /\ pc' = [pc EXCEPT ![p] = "recheck"]
  /\ UNCHANGED <<cred, made, dead, cache, stage, snap, token, deadAt, extracted>>

\* Mutant: the second look at the credential is missing.
GenerateAtOnce(p) ==
  /\ pc[p] = "recheck"
  /\ pc' = [pc EXCEPT ![p] = "generate"]
  /\ UNCHANGED <<cred, made, dead, lock, cache, stage, snap, token, deadAt, extracted>>

\* Another call may have refreshed the token while p waited for the lock.
Recheck(p) ==
  /\ pc[p] = "recheck"
  /\ \/ Finish(p)
     \/ /\ \/ Valid(cred, dead) /\ Receive(p, cred.token)
           \/ /\ ~Valid(cred, dead)
              /\ pc' = [pc EXCEPT ![p] = "generate"]
              /\ UNCHANGED <<lock, token>>
        /\ UNCHANGED <<cred, made, dead, cache, stage, snap, deadAt, extracted>>

\* The token endpoint answers the request of the configuration p read first.
Generate(p) ==
  LET t == Len(made) + 1
  IN /\ pc[p] = "generate"
     /\ \/ Finish(p)
        \/ /\ t <= MaxTokens
           /\ made' = Append(made, snap[p])
           /\ dead' \in {dead, dead \union {t}}
           /\ token' = [token EXCEPT ![p] = t]
           /\ pc' = [pc EXCEPT ![p] = "store"]
           /\ UNCHANGED <<cred, lock, cache, stage, snap, deadAt, extracted>>

\* cache_tokens, whatever has become of the credential; a command that is given
\* up may have been executed.  by: the executors that have stored a token since
\* there was last no valid one.
Store(p) ==
  /\ pc[p] = "store"
  /\ \/ Finish(p)
     \/ /\ \E lapsed \in BOOLEAN :
             LET new == [cred EXCEPT !.token = token[p], !.lapsed = lapsed]
             IN cred' = [new EXCEPT !.by = IF Valid(new, dead) THEN @ \union {Owner(p)} ELSE {}]
        /\ \/ Over(p)
           \/ /\ Receive(p, token[p])
              /\ UNCHANGED <<made, dead, cache, stage, snap, deadAt, extracted>>

\* The credential is read once more, for the names of the headers; the first
\* token of a call goes into its templates, those after it into a request.
Headers(p) ==
  /\ pc[p] = "headers"
  /\ \/ Finish(p)
     \/ /\ p \in Requests
        /\ Goto(p, "done")
        /\ UNCHANGED <<cred, made, dead, cache, stage, extracted>>
     \/ /\ p \in Tools /\ stage[p] = 0
        /\ Goto(p, "pre")
        /\ stage' = [stage EXCEPT ![p] = 1]
        /\ UNCHANGED <<cred, made, dead, cache, extracted>>
     \/ /\ p \in Tools /\ stage[p] # 0
        /\ pc' = [pc EXCEPT ![p] = "send"]
        /\ UNCHANGED <<cred, made, dead, lock, cache, stage, snap, token, deadAt, extracted>>

-----------------------------------------------------------------------------
(* The call of a tool.                                                      *)

\* The tool is loaded and its parameters are validated.
Start(p) ==
  /\ pc[p] = "start"
  /\ \/ Finish(p)
     \/ /\ pc' = [pc EXCEPT ![p] = "get"]
        /\ UNCHANGED <<cred, made, dead, lock, cache, stage, snap, token, deadAt, extracted>>

InCache(p) ==
  /\ stage[p] \in Cached /\ Uses[p] \in Agents
  /\ cache[Uses[p]][stage[p]] # "none"

\* The next pre-request, unless its result is in the session's cache, or the
\* main request.
PreRequest(p) ==
  /\ pc[p] = "pre"
  /\ IF InCache(p)
     THEN /\ extracted' = [extracted EXCEPT ![p][stage[p]] = cache[Uses[p]][stage[p]]]
          /\ stage' = [stage EXCEPT ![p] = @ + 1]
          /\ UNCHANGED pc
     ELSE /\ pc' = [pc EXCEPT ![p] = "get"]
          /\ UNCHANGED <<stage, extracted>>
  /\ UNCHANGED <<cred, made, dead, lock, cache, snap, token, deadAt>>

\* Mutant: a pre-request that failed is passed over.
SkipFailed(p) ==
  /\ pc[p] = "send" /\ stage[p] <= Pre
  /\ stage' = [stage EXCEPT ![p] = @ + 1]
  /\ \/ extracted' = [extracted EXCEPT ![p][stage[p]] = p]
     \/ UNCHANGED extracted
  /\ Goto(p, "pre")
  /\ UNCHANGED <<cred, made, dead, cache>>

\* A pre-request that fails, or whose answer lacks a field, ends the call.
SendPreRequest(p) ==
  LET k == stage[p]
  IN /\ pc[p] = "send" /\ k <= Pre
     /\ \/ Finish(p)
        \/ /\ extracted' = [extracted EXCEPT ![p][k] = p]
           /\ cache' = IF k \in Cached /\ Uses[p] \in Agents
                       THEN [cache EXCEPT ![Uses[p]][k] = p] ELSE cache
           /\ stage' = [stage EXCEPT ![p] = k + 1]
           /\ Goto(p, "pre")
           /\ UNCHANGED <<cred, made, dead>>

SendMain(p) ==
  /\ pc[p] = "send" /\ stage[p] = Pre + 1
  /\ Finish(p)

\* The user interrupts the agent, or the pipeline ends: pipecat cancels the call.
Cancel(p) ==
  /\ Uses[p] \in Agents /\ pc[p] # "done"
  /\ Finish(p)

ToolStep(p) ==
  Start(p) \/ PreRequest(p) \/ SendPreRequest(p) \/ SendMain(p)

TokenStep(p) == Get(p) \/ Lock(p) \/ Recheck(p) \/ Generate(p) \/ Store(p) \/ Headers(p)

-----------------------------------------------------------------------------
(* The credentials API, and time.                                           *)

Write(r, new) ==
  /\ pc[r] = "idle"
  /\ cred' = [new EXCEPT !.by = IF Valid(new, dead) THEN @ ELSE {}]
  /\ pc' = [pc EXCEPT ![r] = "done"]
  /\ UNCHANGED <<made, dead, lock, cache, stage, snap, token, deadAt, extracted>>

Cleared(c) == [c EXCEPT !.token = 0, !.lapsed = FALSE]

\* update_credential, with or without a new configuration of the token.
UpdateCredential(r) ==
  \E active \in BOOLEAN :
    \/ Write(r, [cred EXCEPT !.active = active])
    \/ Write(r, [Cleared(cred) EXCEPT !.active = active, !.version = @ + 1])

DeleteCredential(r) == Write(r, [Cleared(cred) EXCEPT !.active = FALSE])

\* The manual refresh looks whether the credential is active, clears the tokens
\* and asks for valid ones.
RefreshToken(r) ==
  /\ pc[r] = "idle"
  /\ pc' = [pc EXCEPT ![r] = IF cred.active THEN "clear" ELSE "done"]
  /\ UNCHANGED <<cred, made, dead, lock, cache, stage, snap, token, deadAt, extracted>>

ClearTokens(r) ==
  /\ pc[r] = "clear"
  /\ \/ Finish(r)
     \/ /\ cred' = [Cleared(cred) EXCEPT !.by = {}]
        /\ pc' = [pc EXCEPT ![r] = "get"]
        /\ UNCHANGED <<made, dead, lock, cache, stage, snap, token, deadAt, extracted>>

RequestStep(r) ==
  UpdateCredential(r) \/ DeleteCredential(r) \/ RefreshToken(r) \/ ClearTokens(r)

\* The end of the life of a token that is in use, and of the one the database
\* believes in.
Expire ==
  /\ \E t \in 1..Len(made) :
       /\ t = cred.token \/ \E p \in Procs : t = token[p]
       /\ dead' = dead \union {t}
  /\ cred' = [cred EXCEPT !.by = IF Valid(cred, dead') THEN @ ELSE {}]
  /\ UNCHANGED <<made, lock, cache, pc, stage, snap, token, deadAt, extracted>>

Lapse ==
  /\ cred.token # 0
  /\ cred' = [cred EXCEPT !.lapsed = TRUE, !.by = {}]
  /\ UNCHANGED <<made, dead, lock, cache, pc, stage, snap, token, deadAt, extracted>>

-----------------------------------------------------------------------------
Init ==
  /\ made \in {<<>>, <<1>>}
  /\ dead \in SUBSET (1..Len(made))
  /\ \E lapsed \in {FALSE, made # <<>>} :
       cred = [version |-> 1, active |-> TRUE, token |-> Len(made), lapsed |-> lapsed, by |-> {}]
  /\ lock = [e \in Executors \union Requests |-> "free"]
  /\ cache = [a \in Agents |-> NoData]
  /\ pc = [p \in Procs |-> IF p \in Requests THEN "idle" ELSE "start"]
  /\ stage = [p \in Tools |-> 0]
  /\ snap = [p \in Procs |-> 0]
  /\ token = [p \in Procs |-> 0]
  /\ deadAt = [p \in Tools |-> {}]
  /\ extracted = [p \in Tools |-> NoData]

Next ==
  \/ \E p \in Procs : TokenStep(p)
  \/ \E p \in Tools : ToolStep(p) \/ Cancel(p)
  \/ \E r \in Requests : RequestStep(r)
  \/ Expire
  \/ Lapse

\* Every request has a timeout: a call or a refresh that has begun goes on.
Fairness ==
  /\ \A p \in Tools : WF_vars(ToolStep(p) \/ TokenStep(p))
  /\ \A r \in Requests : WF_vars(ClearTokens(r) \/ TokenStep(r))

Spec == Init /\ [][Next]_vars /\ Fairness

-----------------------------------------------------------------------------
Steps ==
  {"start", "get", "lock", "recheck", "generate", "store", "headers", "pre", "send",
   "idle", "clear", "done"}

\* Every value has its type, and a call is never beyond its main request.
TypeOK ==
  /\ made \in Seq(Nat)
  /\ cred \in [version : Nat, active : BOOLEAN, token : 0..Len(made), lapsed : BOOLEAN,
               by : SUBSET (Executors \union Requests)]
  /\ dead \in SUBSET (1..Len(made))
  /\ lock \in [Executors \union Requests -> Procs \union {"free"}]
  /\ cache \in [Agents -> [1..Pre -> Tools \union {"none"}]]
  /\ pc \in [Procs -> Steps]
  /\ stage \in [Tools -> 0..Pre + 1]
  /\ snap \in [Procs -> Nat]
  /\ token \in [Procs -> 0..Len(made)]
  /\ deadAt \in [Tools -> SUBSET (1..Len(made))]
  /\ extracted \in [Tools -> [1..Pre -> Tools \union {"none"}]]

\* An executor stores one token only until it expires or is cleared, however
\* many of its calls met the expired one (token_manager.py:181, "Refresh tokens
\* with concurrent request protection").
Stores(p) == pc[p] = "store" /\ pc'[p] # "store" /\ cred' # cred

RefreshIsShared == [][\A p \in Procs : Stores(p) => Owner(p) \notin cred.by]_vars

\* A JWT that was about to expire when a request asked for a token is not what
\* the request is sent with, even if the database believes in it and whoever
\* refreshed it (token_manager.py:96).
ExpiredIsNotSent ==
  Jwt => \A p \in Tools : pc[p] = "send" => token[p] \notin deadAt[p] \union {0}

\* The main request is sent with the result of every pre-request, and each was
\* obtained by this call or by one of the same session that the cache serves.
MainHasData ==
  \A p \in Tools : pc[p] = "send" /\ stage[p] = Pre + 1 =>
    \A k \in 1..Pre :
      LET q == extracted[p][k]
      IN \/ q = p
         \/ q \in Tools /\ Uses[q] = Uses[p] /\ Uses[p] \in Agents /\ k \in Cached

\* Every call of a tool ends, whatever fails on its way and whoever of those it
\* waits for is refused or cancelled (business_tool_service.py:106, "Always call
\* result callback, even for errors").
CallsEnd == <>(\A p \in Tools : pc[p] = "done")

-----------------------------------------------------------------------------
(* What the repository says of the program and the program does not do.     *)

\* api_credential_manager.py:172, "If token configuration changed, clear cached
\* tokens": a refresh that began before stores a token of the old one.
TokensAreOfConfiguration == cred.token # 0 => made[cred.token] = cred.version

\* token_manager.py:5, "concurrent refresh protection": every executor has its
\* own locks.
OneRefreshAtATime ==
  \A p, q \in Procs : pc[p] = "generate" /\ pc[q] = "generate" => p = q

\* token_api.py:126, "Fetches fresh token(s) from the token endpoint": what
\* another call has stored since the tokens were cleared is taken instead.
RefreshFetches == [][\A r \in Requests : pc'[r] = "headers" => pc[r] \in {"store", "headers"}]_vars

\* business_tool_schema.py:120, "eliminating redundant API calls for the same
\* data within a conversation": two calls look before either has stored.
PreRequestedOnce ==
  [][\A p \in Tools :
       /\ pc[p] = "send" /\ pc'[p] = "pre"
       /\ stage[p] \in Cached /\ Uses[p] \in Agents
       => cache[Uses[p]][stage[p]] = "none"]_vars
=============================================================================
