------------------------------ MODULE AgentFetch ------------------------------
(***************************************************************************)
(* Where a call's configuration comes from.  A session is created with the  *)
(* configuration that the Assistant API answers with, or with the defaults  *)
(* when the fetch fails; what was used is kept in the log and read from     *)
(* there when the call connects.  The API's tokens come from TokenProvider, *)
(* whose one entry per tenant all sessions of the process share: a session  *)
(* whose token is refused pops it while the others still use it.            *)
(***************************************************************************)
EXTENDS Naturals, Sequences

CONSTANTS
  Sessions,   \* the sessions of one tenant
  Old,        \* those of them that were there before, whose log has no configuration
  Life,       \* expires_in of a token
  Buffer,     \* TokenCacheEntry's buffer
  Latency,    \* bound: how long Auth0's answer is under way; the code has no timeout
  Retries,    \* ASSISTANT_API_RETRY_ATTEMPTS
  MaxTokens,  \* bound: tokens issued
  MaxTime     \* bound: the clock

ASSUME OldAssumption == Old \subseteq Sessions
ASSUME ClockAssumption == Life \in Nat /\ Buffer \in Nat /\ Latency \in Nat /\ MaxTime \in Nat
ASSUME FetchAssumption == Retries \in Nat /\ MaxTokens \in Nat

VARIABLES
  clock,
  tokens,    \* [at, late, claims]: when each was issued, how long it was under way, and
             \* whether it names the tenant
  kept,      \* _cache of the tenant: the token, or 0
  expires,   \* its expires_at
  phase,     \* of each session: created and over are waits; lookup, token, get run
  purpose,     \* what the session fetches for: creation, connection
  holds,     \* the token a fetch sends
  spurned,   \* the token that was refused first, or 0
  renewal,   \* did_refresh: not, done, failed
  attempt,   \* how often the API was asked
  logged,    \* the configuration in the log: none, defaults, own
  config     \* the configuration the call got: none, defaults, own, refused

tokenVars == <<tokens, kept, expires>>
fetchVars == <<clock, tokens, kept, expires, phase, purpose, holds, spurned, renewal, attempt, logged, config>>

FetchInit ==
  /\ clock = 0 /\ tokens = <<>> /\ kept = 0 /\ expires = 0
  /\ phase = [s \in Sessions |-> IF s \in Old THEN "created" ELSE "lookup"]
  /\ purpose = [s \in Sessions |-> IF s \in Old THEN "connection" ELSE "creation"]
  /\ holds = [s \in Sessions |-> 0] /\ spurned = [s \in Sessions |-> 0]
  /\ renewal = [s \in Sessions |-> "not"] /\ attempt = [s \in Sessions |-> 0]
  /\ logged = [s \in Sessions |-> "none"] /\ config = [s \in Sessions |-> "none"]

Move(s, from, to) == phase[s] = from /\ phase' = [phase EXCEPT ![s] = to]

\* Mutant: an entry is used up to its end.
LendableToTheEnd == kept # 0 /\ clock < expires

\* TokenCacheEntry.is_valid
Lendable == kept # 0 /\ clock + Buffer < expires

-----------------------------------------------------------------------------
(* The end of a fetch.                                                       *)

\* create_session logs its effective configuration, the API's or the defaults, before
\* the call can begin; a call that connects goes on with the API's or with none.  The
\* log may not be written: the session is not handed out.
EndFetch(s, got) ==
  IF purpose[s] = "creation"
  THEN /\ purpose' = [purpose EXCEPT ![s] = "connection"]
       /\ logged' = [logged EXCEPT ![s] = got]
       /\ \/ phase' = [phase EXCEPT ![s] = "created"] /\ config' = config
          \/ phase' = [phase EXCEPT ![s] = "over"] /\ config' = [config EXCEPT ![s] = "refused"]
  ELSE /\ phase' = [phase EXCEPT ![s] = "over"]
       /\ config' = [config EXCEPT ![s] = IF got = "own" THEN "own" ELSE "refused"]
       /\ UNCHANGED <<purpose, logged>>

FailFetch(s) == EndFetch(s, "defaults")

-----------------------------------------------------------------------------
(* TokenProvider.get_tokens_for_tenant.                                      *)

\* The entry is lent while it is valid; otherwise the organization is looked up.
TakeToken(s) ==
  /\ phase[s] = "lookup"
  /\ IF Lendable
     THEN Move(s, "lookup", "get") /\ holds' = [holds EXCEPT ![s] = kept]
     ELSE Move(s, "lookup", "token") /\ holds' = holds
  /\ UNCHANGED <<clock, tokenVars, purpose, spurned, renewal, attempt, logged, config>>

\* Auth0 is asked and the answer stored in one step, for the request blocks the process:
\* the token is as old as the answer was under way, and expires_at counts from now.
MintToken(s) ==
  /\ Move(s, "token", "get")
  /\ Len(tokens) < MaxTokens
  /\ \E age \in 0 .. Latency, claims \in BOOLEAN :
       /\ age <= clock
       /\ tokens' = Append(tokens, [at |-> clock - age, late |-> age, claims |-> claims])
       /\ kept' = IF claims THEN Len(tokens') ELSE 0
       /\ expires' = IF claims THEN clock + Life ELSE expires
  /\ holds' = [holds EXCEPT ![s] = Len(tokens')]
  /\ renewal' = [renewal EXCEPT ![s] = IF spurned[s] # 0 THEN "done" ELSE "not"]
  /\ UNCHANGED <<clock, purpose, spurned, attempt, logged, config>>

\* No organization, no credentials, or Auth0 refuses: a first fetch fails with it, a
\* refused one with its refusal.
NoToken(s) ==
  /\ phase[s] = "token"
  /\ renewal' = [renewal EXCEPT ![s] = IF spurned[s] # 0 THEN "failed" ELSE "not"]
  /\ FailFetch(s)
  /\ UNCHANGED <<clock, tokenVars, holds, spurned, attempt>>

-----------------------------------------------------------------------------
(* AssistantAPIClient.get_config.                                            *)

Answered(s) == phase[s] = "get" /\ attempt' = [attempt EXCEPT ![s] = @ + 1]

\* 200, and a configuration that can be parsed.
Fetched(s) ==
  /\ Answered(s) /\ EndFetch(s, "own")
  /\ UNCHANGED <<clock, tokenVars, holds, spurned, renewal>>

\* Mutant: the renewal takes what the cache has.
RenewFromCache(s) ==
  /\ Answered(s) /\ spurned[s] = 0
  /\ spurned' = [spurned EXCEPT ![s] = holds[s]]
  /\ IF Lendable
     THEN /\ Move(s, "get", "get") /\ holds' = [holds EXCEPT ![s] = kept]
          /\ renewal' = [renewal EXCEPT ![s] = "done"]
     ELSE Move(s, "get", "token") /\ UNCHANGED <<holds, renewal>>
  /\ UNCHANGED <<clock, tokenVars, purpose, logged, config>>

\* 401 or 403 for the first time: the tenant's entry is popped and a token is asked for.
Renew(s) ==
  /\ Answered(s) /\ spurned[s] = 0 /\ Move(s, "get", "token")
  /\ spurned' = [spurned EXCEPT ![s] = holds[s]]
  /\ kept' = 0
  /\ UNCHANGED <<clock, tokens, expires, purpose, holds, renewal, logged, config>>

\* 401 or 403 once more.
Refused(s) ==
  /\ Answered(s) /\ spurned[s] # 0 /\ FailFetch(s)
  /\ UNCHANGED <<clock, tokenVars, holds, spurned, renewal>>

\* Mutant: after a refused token the count is not looked at.
RetryFreely(s) ==
  /\ Answered(s) /\ (spurned[s] = 0 => attempt[s] + 1 <= Retries)
  /\ UNCHANGED <<clock, tokenVars, phase, purpose, holds, spurned, renewal, logged, config>>

\* 5xx or the timeout: again, after a pause, as long as there are attempts left; the
\* one with the refused token counts.
Retry(s) ==
  /\ Answered(s) /\ attempt[s] + 1 <= Retries
  /\ UNCHANGED <<clock, tokenVars, phase, purpose, holds, spurned, renewal, logged, config>>

\* The last one, a connection that fails, 404, any other status or a broken body.
Failed(s) ==
  /\ Answered(s) /\ FailFetch(s)
  /\ UNCHANGED <<clock, tokenVars, holds, spurned, renewal>>

GetConfig(s) == Fetched(s) \/ Renew(s) \/ Refused(s) \/ Retry(s) \/ Failed(s)

-----------------------------------------------------------------------------
(* get_and_consume_config.                                                   *)

\* The call connects: the log has a configuration, whichever it is.
FromLog(s) ==
  /\ Move(s, "created", "over") /\ logged[s] # "none"
  /\ config' = [config EXCEPT ![s] = logged[s]]
  /\ UNCHANGED <<clock, tokenVars, purpose, holds, spurned, renewal, attempt, logged>>

\* The log has none, or cannot be read: a new fetch.
FetchAgain(s) ==
  /\ Move(s, "created", "lookup")
  /\ holds' = [holds EXCEPT ![s] = 0] /\ spurned' = [spurned EXCEPT ![s] = 0]
  /\ renewal' = [renewal EXCEPT ![s] = "not"] /\ attempt' = [attempt EXCEPT ![s] = 0]
  /\ UNCHANGED <<clock, tokenVars, purpose, logged, config>>

PassTime ==
  /\ clock < MaxTime /\ clock' = clock + 1
  /\ UNCHANGED <<tokenVars, phase, purpose, holds, spurned, renewal, attempt, logged, config>>

FetchStep(s) == TakeToken(s) \/ MintToken(s) \/ NoToken(s) \/ GetConfig(s) \/ FromLog(s) \/ FetchAgain(s)

FetchNext == PassTime \/ \E s \in Sessions : FetchStep(s)

AgentFetchSpec == FetchInit /\ [][FetchNext]_fetchVars

-----------------------------------------------------------------------------
(* Properties.                                                               *)

\* Types; the API is asked at most once per attempt and once more for a refused token.
FetchTypeOK ==
  /\ clock \in Nat /\ expires \in Nat
  /\ tokens \in Seq([at : Nat, late : Nat, claims : BOOLEAN]) /\ kept \in 0 .. Len(tokens)
  /\ phase \in [Sessions -> {"lookup", "token", "get", "created", "over"}]
  /\ purpose \in [Sessions -> {"creation", "connection"}]
  /\ holds \in [Sessions -> 0 .. Len(tokens)] /\ spurned \in [Sessions -> 0 .. Len(tokens)]
  /\ renewal \in [Sessions -> {"not", "done", "failed"}]
  /\ attempt \in [Sessions -> Nat] /\ \A s \in Sessions : attempt[s] <= Retries + 2
  /\ logged \in [Sessions -> {"none", "defaults", "own"}]
  /\ config \in [Sessions -> {"none", "defaults", "own", "refused"}]

\* The token that a fetch would be lent now has not expired, although expires_at
\* counts from the answer's arrival and not from the issue, unless its own answer was
\* under way longer than the buffer makes up for; later tokens do not help nor hurt.
LentTokenLives ==
  Lendable => clock < tokens[kept].at + Life \/ tokens[kept].late > Buffer

\* A session is refused for good only with a token that was issued after the one that
\* was refused first, or when no other could be had, whatever the other sessions did
\* with the entry they share.
RefusalIsOfNewToken ==
  \A s \in Sessions :
    spurned[s] # 0 /\ phase[s] \in {"created", "over"} => renewal[s] = "failed" \/ holds[s] > spurned[s]

\* token_provider.py: "Small buffer to avoid edge expiry".  The code does not keep
\* this: Auth0's answer may take longer than the buffer, and no timeout ends the wait.
EdgeExpiryAvoided == Lendable => clock < tokens[kept].at + Life

\* A call whose fetch failed at its creation fetches again when it connects.  The code
\* does not do so: the defaults were logged.
DefaultsAreNotUsed == \A s \in Sessions : config[s] # "defaults"
=============================================================================
