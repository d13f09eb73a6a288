---------------------------- MODULE Services_proofs ----------------------------
(***************************************************************************)
(* What CallContext, AgentFetch, SessionReports and AdvisorTools keep for   *)
(* every set of calls, sessions, logs, connections and advisors, every      *)
(* lifetime of a token, and every bound.  The four share nothing; each has a *)
(* section.  The last section puts the nine parts of MCParts side by side.   *)
(***************************************************************************)
EXTENDS MCParts, CustomerProfiles_proofs, Speech_proofs, SequenceTheorems, FiniteSetTheorems,
        WellFoundedInduction, TLAPS

-----------------------------------------------------------------------------
(* AgentFetch.                                                               *)

\* expires_at is late by the time that token's answer was under way.
KeptIsDated == kept # 0 => expires = tokens[kept].at + tokens[kept].late + Life

\* A session that looks for a token has not been refused, one that sends a token sends
\* a newer one than was refused, and so does one that is done.
SentIsNewer(s) ==
  /\ phase[s] = "lookup" => spurned[s] = 0
  /\ phase[s] = "get" => holds[s] > spurned[s]
  /\ spurned[s] # 0 /\ phase[s] \in {"created", "over"} => renewal[s] = "failed" \/ holds[s] > spurned[s]

\* A refused token costs one attempt, the last one another.
AttemptsLeft(s) ==
  /\ attempt[s] <= Retries + 2
  /\ phase[s] \notin {"created", "over"} => attempt[s] <= Retries + 1
  /\ phase[s] \notin {"created", "over"} /\ spurned[s] = 0 => attempt[s] <= Retries

FetchInv == FetchTypeOK /\ KeptIsDated /\ \A s \in Sessions : SentIsNewer(s) /\ AttemptsLeft(s)

LEMMA FetchStarts == FetchInit => FetchInv
  BY OldAssumption, ClockAssumption, FetchAssumption
  DEF FetchInit, FetchInv, FetchTypeOK, KeptIsDated, SentIsNewer, AttemptsLeft

\* What each answer of the API and each end of a fetch leave behind.
Counts(s) ==
  /\ phase[s] = "get" /\ attempt[s] \in Nat /\ attempt[s] <= Retries + 1
  /\ spurned[s] = 0 => attempt[s] <= Retries
  /\ attempt' \in [Sessions -> Nat] /\ attempt'[s] = attempt[s] + 1
  /\ \A q \in Sessions : q # s => attempt'[q] = attempt[q]

Ends(s) ==
  /\ phase' \in [Sessions -> {"lookup", "token", "get", "created", "over"}]
  /\ phase'[s] \in {"created", "over"} /\ \A q \in Sessions : q # s => phase'[q] = phase[q]
  /\ purpose' \in [Sessions -> {"creation", "connection"}]
  /\ logged' \in [Sessions -> {"none", "defaults", "own"}]
  /\ config' \in [Sessions -> {"none", "defaults", "own", "refused"}]

LEMMA Counted == ASSUME FetchInv, NEW s \in Sessions, Answered(s) PROVE Counts(s)
<1>1. phase[s] = "get" /\ attempt' = [attempt EXCEPT ![s] = @ + 1]
  BY DEF Answered
<1>2. attempt \in [Sessions -> Nat] /\ AttemptsLeft(s)
  BY DEF FetchInv, FetchTypeOK
<1>3. attempt[s] \in Nat /\ attempt[s] <= Retries + 1 /\ (spurned[s] = 0 => attempt[s] <= Retries)
  BY <1>1, <1>2 DEF AttemptsLeft
<1>4. attempt' \in [Sessions -> Nat] /\ attempt'[s] = attempt[s] + 1
  BY <1>1, <1>2
<1>5. \A q \in Sessions : q # s => attempt'[q] = attempt[q]
  BY <1>1, <1>2
<1> QED BY <1>1, <1>3, <1>4, <1>5 DEF Counts

LEMMA Ended ==
  ASSUME FetchInv, NEW s \in Sessions, NEW got \in {"own", "defaults"}, EndFetch(s, got)
  PROVE  Ends(s)
<1>1. /\ phase \in [Sessions -> {"lookup", "token", "get", "created", "over"}]
      /\ purpose \in [Sessions -> {"creation", "connection"}]
      /\ logged \in [Sessions -> {"none", "defaults", "own"}]
      /\ config \in [Sessions -> {"none", "defaults", "own", "refused"}]
  BY DEF FetchInv, FetchTypeOK
<1>2. CASE purpose[s] = "creation"
  <2>1. purpose' = [purpose EXCEPT ![s] = "connection"] /\ logged' = [logged EXCEPT ![s] = got]
    BY <1>2 DEF EndFetch
  <2>2. CASE phase' = [phase EXCEPT ![s] = "created"] /\ config' = config
    BY <1>1, <2>1, <2>2 DEF Ends
  <2>3. CASE phase' = [phase EXCEPT ![s] = "over"] /\ config' = [config EXCEPT ![s] = "refused"]
    BY <1>1, <2>1, <2>3 DEF Ends
  <2> QED BY <1>2, <2>2, <2>3 DEF EndFetch
<1>3. CASE purpose[s] # "creation"
  BY <1>1, <1>3 DEF EndFetch, Ends
<1> QED BY <1>2, <1>3

LEMMA FetchSteps == FetchInv /\ [FetchNext]_fetchVars => FetchInv'
<1> SUFFICES ASSUME FetchInv, [FetchNext]_fetchVars PROVE FetchInv'
  OBVIOUS
<1> USE ClockAssumption, FetchAssumption
<1>1. CASE UNCHANGED fetchVars
  BY <1>1 DEF FetchInv, FetchTypeOK, KeptIsDated, SentIsNewer, AttemptsLeft, fetchVars
<1>2. CASE PassTime
  BY <1>2 DEF PassTime, tokenVars, FetchInv, FetchTypeOK, KeptIsDated, SentIsNewer, AttemptsLeft
<1>3. ASSUME NEW s \in Sessions, FetchStep(s) PROVE FetchInv'
  <2>1. CASE TakeToken(s)
    <3>1. spurned[s] = 0 /\ (Lendable => kept > 0)
      BY <1>3, <2>1 DEF TakeToken, Lendable, Move, FetchInv, FetchTypeOK, SentIsNewer
    <3>2. ASSUME NEW q \in Sessions PROVE AttemptsLeft(q)'
      BY <1>3, <2>1, <3>1, <3>2 DEF TakeToken, Move, Lendable, tokenVars, FetchInv, FetchTypeOK, SentIsNewer, AttemptsLeft
    <3>3. FetchTypeOK'
      BY <1>3, <2>1, <3>1, ZenonT(60) DEF TakeToken, Move, Lendable, tokenVars, FetchInv, FetchTypeOK, SentIsNewer, AttemptsLeft
    <3>4. KeptIsDated'
      BY <1>3, <2>1 DEF TakeToken, Move, Lendable, tokenVars, FetchInv, FetchTypeOK, KeptIsDated
    <3>5. ASSUME NEW q \in Sessions PROVE SentIsNewer(q)'
      BY <1>3, <2>1, <3>1, <3>5, ZenonT(60) DEF TakeToken, Move, Lendable, tokenVars, FetchInv, FetchTypeOK, SentIsNewer
    <3> QED BY <3>2, <3>3, <3>4, <3>5 DEF FetchInv
  <2>2. CASE MintToken(s)
    <3>1. ASSUME NEW q \in Sessions PROVE AttemptsLeft(q)'
      BY <1>3, <2>2, <3>1 DEF MintToken, Move, FetchInv, FetchTypeOK, SentIsNewer, AttemptsLeft
    <3>2. FetchTypeOK'
      BY SMTT(30), <1>3, <2>2 DEF MintToken, Move, FetchInv, FetchTypeOK, SentIsNewer, AttemptsLeft
    <3>3. KeptIsDated'
      BY <1>3, <2>2, SMTT(30) DEF MintToken, Move, FetchInv, FetchTypeOK, KeptIsDated
    <3>4. ASSUME NEW q \in Sessions PROVE SentIsNewer(q)'
      BY <1>3, <2>2, <3>4 DEF MintToken, Move, FetchInv, FetchTypeOK, SentIsNewer
    <3> QED BY <3>1, <3>2, <3>3, <3>4 DEF FetchInv
  <2>3. CASE NoToken(s)
    <3>1. Ends(s)
      BY <1>3, <2>3, Ended DEF NoToken, FailFetch
    <3>2. ASSUME NEW q \in Sessions PROVE AttemptsLeft(q)'
      BY <1>3, <2>3, <3>1, <3>2 DEF NoToken, tokenVars, Ends, FetchInv, FetchTypeOK, SentIsNewer, AttemptsLeft
    <3>3. FetchTypeOK'
      BY <1>3, <2>3, <3>1 DEF NoToken, tokenVars, Ends, FetchInv, FetchTypeOK, SentIsNewer, AttemptsLeft
    <3>4. KeptIsDated'
      BY <1>3, <2>3 DEF NoToken, tokenVars, Ends, FetchInv, FetchTypeOK, KeptIsDated
    <3>5. ASSUME NEW q \in Sessions PROVE SentIsNewer(q)'
      BY <1>3, <2>3, <3>1, <3>5 DEF NoToken, tokenVars, Ends, FetchInv, FetchTypeOK, SentIsNewer
    <3> QED BY <3>2, <3>3, <3>4, <3>5 DEF FetchInv
  <2>4. CASE Fetched(s)
    <3>1. Counts(s)
      BY <1>3, <2>4, Counted DEF Fetched
    <3>2. Ends(s)
      BY <1>3, <2>4, Ended DEF Fetched, FailFetch
    <3>3. ASSUME NEW q \in Sessions PROVE AttemptsLeft(q)'
      <4>1. AttemptsLeft(q)
        BY <3>3 DEF FetchInv
      <4>2. CASE q = s
        BY <2>4, <3>1, <3>2, <4>1, <4>2 DEF Fetched, Move, Counts, Ends, AttemptsLeft, FetchInv, FetchTypeOK
      <4>3. CASE q # s
        BY <2>4, <3>1, <3>2, <3>3, <4>1, <4>3 DEF Fetched, Move, Counts, Ends, AttemptsLeft, FetchInv, FetchTypeOK
      <4> QED BY <4>2, <4>3
    <3>4. FetchTypeOK'
      BY <1>3, <2>4, <3>1, <3>2, <3>3 DEF Fetched, Counts, tokenVars, Ends, FetchInv, FetchTypeOK, AttemptsLeft
    <3>5. KeptIsDated'
      BY <1>3, <2>4 DEF Fetched, Counts, tokenVars, Ends, FetchInv, FetchTypeOK, KeptIsDated
    <3>6. ASSUME NEW q \in Sessions PROVE SentIsNewer(q)'
      BY <1>3, <2>4, <3>1, <3>2, <3>6 DEF Fetched, Counts, tokenVars, Ends, FetchInv, FetchTypeOK, SentIsNewer
    <3> QED BY <3>3, <3>4, <3>5, <3>6 DEF FetchInv
  <2>5. CASE Renew(s)
    <3>1. Counts(s)
      BY <1>3, <2>5, Counted DEF Renew
    <3>2. holds[s] > 0 /\ holds[s] \in Nat
      BY <1>3, <2>5, <3>1 DEF Renew, Counts, FetchInv, FetchTypeOK, SentIsNewer
    <3>3. ASSUME NEW q \in Sessions PROVE AttemptsLeft(q)'
      <4>1. AttemptsLeft(q)
        BY <3>3 DEF FetchInv
      <4>2. CASE q = s
        BY SMTT(30), <2>5, <3>1, <3>2, <4>1, <4>2 DEF Renew, Move, Counts, AttemptsLeft, FetchInv, FetchTypeOK
      <4>3. CASE q # s
        BY <2>5, <3>1, <3>3, <4>1, <4>3 DEF Renew, Move, Counts, AttemptsLeft, FetchInv, FetchTypeOK
      <4> QED BY <4>2, <4>3
    <3>4. FetchTypeOK'
      BY <1>3, <2>5, <3>1, <3>3 DEF Renew, Move, Counts, FetchInv, FetchTypeOK, AttemptsLeft
    <3>5. KeptIsDated'
      BY <1>3, <2>5 DEF Renew, Move, Counts, FetchInv, FetchTypeOK, KeptIsDated
    <3>6. ASSUME NEW q \in Sessions PROVE SentIsNewer(q)'
      BY <1>3, <2>5, <3>1, <3>6 DEF Renew, Move, Counts, FetchInv, FetchTypeOK, SentIsNewer
    <3> QED BY <3>3, <3>4, <3>5, <3>6 DEF FetchInv
  <2>6. CASE Refused(s)
    <3>1. Counts(s)
      BY <1>3, <2>6, Counted DEF Refused
    <3>2. Ends(s)
      BY <1>3, <2>6, Ended DEF Refused, FailFetch
    <3>3. ASSUME NEW q \in Sessions PROVE AttemptsLeft(q)'
      <4>1. AttemptsLeft(q)
        BY <3>3 DEF FetchInv
      <4>2. CASE q = s
        BY <2>6, <3>1, <3>2, <4>1, <4>2 DEF Refused, Move, Counts, Ends, AttemptsLeft, FetchInv, FetchTypeOK
      <4>3. CASE q # s
        BY <2>6, <3>1, <3>2, <3>3, <4>1, <4>3 DEF Refused, Move, Counts, Ends, AttemptsLeft, FetchInv, FetchTypeOK
      <4> QED BY <4>2, <4>3
    <3>4. FetchTypeOK'
      BY <1>3, <2>6, <3>1, <3>2, <3>3 DEF Refused, Counts, tokenVars, Ends, FetchInv, FetchTypeOK, AttemptsLeft
    <3>5. KeptIsDated'
      BY <1>3, <2>6 DEF Refused, Counts, tokenVars, Ends, FetchInv, FetchTypeOK, KeptIsDated
    <3>6. ASSUME NEW q \in Sessions PROVE SentIsNewer(q)'
      BY <1>3, <2>6, <3>1, <3>2, <3>6 DEF Refused, Counts, tokenVars, Ends, FetchInv, FetchTypeOK, SentIsNewer
    <3> QED BY <3>3, <3>4, <3>5, <3>6 DEF FetchInv
  <2>7. CASE Retry(s)
    <3>1. ASSUME NEW q \in Sessions PROVE AttemptsLeft(q)'
      BY <1>3, <2>7, <3>1, SMTT(30) DEF Retry, Answered, tokenVars, FetchInv, FetchTypeOK, SentIsNewer, AttemptsLeft
    <3>2. FetchTypeOK'
      BY <1>3, <2>7, SMTT(30) DEF Retry, Answered, tokenVars, FetchInv, FetchTypeOK, SentIsNewer, AttemptsLeft
    <3>3. KeptIsDated'
      BY <1>3, <2>7 DEF Retry, Answered, tokenVars, FetchInv, FetchTypeOK, KeptIsDated
    <3>4. ASSUME NEW q \in Sessions PROVE SentIsNewer(q)'
      BY <1>3, <2>7, <3>4 DEF Retry, Answered, tokenVars, FetchInv, FetchTypeOK, SentIsNewer
    <3> QED BY <3>1, <3>2, <3>3, <3>4 DEF FetchInv
  <2>8. CASE Failed(s)
    <3>1. Counts(s)
      BY <1>3, <2>8, Counted DEF Failed
    <3>2. Ends(s)
      BY <1>3, <2>8, Ended DEF Failed, FailFetch
    <3>3. ASSUME NEW q \in Sessions PROVE AttemptsLeft(q)'
      <4>1. AttemptsLeft(q)
        BY <3>3 DEF FetchInv
      <4>2. CASE q = s
        BY <2>8, <3>1, <3>2, <4>1, <4>2 DEF Failed, Move, Counts, Ends, AttemptsLeft, FetchInv, FetchTypeOK
      <4>3. CASE q # s
        BY <2>8, <3>1, <3>2, <3>3, <4>1, <4>3 DEF Failed, Move, Counts, Ends, AttemptsLeft, FetchInv, FetchTypeOK
      <4> QED BY <4>2, <4>3
    <3>4. FetchTypeOK'
      BY <1>3, <2>8, <3>1, <3>2, <3>3 DEF Failed, Counts, tokenVars, Ends, FetchInv, FetchTypeOK, AttemptsLeft
    <3>5. KeptIsDated'
      BY <1>3, <2>8 DEF Failed, Counts, tokenVars, Ends, FetchInv, FetchTypeOK, KeptIsDated
    <3>6. ASSUME NEW q \in Sessions PROVE SentIsNewer(q)'
      BY <1>3, <2>8, <3>1, <3>2, <3>6 DEF Failed, Counts, tokenVars, Ends, FetchInv, FetchTypeOK, SentIsNewer
    <3> QED BY <3>3, <3>4, <3>5, <3>6 DEF FetchInv
  <2>9. CASE FromLog(s)
    <3>1. ASSUME NEW q \in Sessions PROVE AttemptsLeft(q)'
      BY <1>3, <2>9, <3>1 DEF FromLog, Move, tokenVars, FetchInv, FetchTypeOK, SentIsNewer, AttemptsLeft
    <3>2. FetchTypeOK'
      BY <1>3, <2>9 DEF FromLog, Move, tokenVars, FetchInv, FetchTypeOK, SentIsNewer, AttemptsLeft
    <3>3. KeptIsDated'
      BY <1>3, <2>9 DEF FromLog, Move, tokenVars, FetchInv, FetchTypeOK, KeptIsDated
    <3>4. ASSUME NEW q \in Sessions PROVE SentIsNewer(q)'
      BY <1>3, <2>9, <3>4 DEF FromLog, Move, tokenVars, FetchInv, FetchTypeOK, SentIsNewer
    <3> QED BY <3>1, <3>2, <3>3, <3>4 DEF FetchInv
  <2>10. CASE FetchAgain(s)
    <3>1. ASSUME NEW q \in Sessions PROVE AttemptsLeft(q)'
      BY <1>3, <2>10, <3>1 DEF FetchAgain, Move, tokenVars, FetchInv, FetchTypeOK, SentIsNewer, AttemptsLeft
    <3>2. FetchTypeOK'
      BY <1>3, <2>10 DEF FetchAgain, Move, tokenVars, FetchInv, FetchTypeOK, SentIsNewer, AttemptsLeft
    <3>3. KeptIsDated'
      BY <1>3, <2>10 DEF FetchAgain, Move, tokenVars, FetchInv, FetchTypeOK, KeptIsDated
    <3>4. ASSUME NEW q \in Sessions PROVE SentIsNewer(q)'
      BY <1>3, <2>10, <3>4 DEF FetchAgain, Move, tokenVars, FetchInv, FetchTypeOK, SentIsNewer
    <3> QED BY <3>1, <3>2, <3>3, <3>4 DEF FetchInv
  <2> QED BY <1>3, <2>1, <2>2, <2>3, <2>4, <2>5, <2>6, <2>7, <2>8, <2>9, <2>10 DEF FetchStep, GetConfig
<1> QED BY <1>1, <1>2, <1>3 DEF FetchNext

LEMMA FetchInvariant == AgentFetchSpec => []FetchInv
<1> QED BY FetchStarts, FetchSteps, PTL DEF AgentFetchSpec

\* The fetch of a configuration keeps its types, and asks the API no more often than its
\* attempts and the one for a refused token allow.
THEOREM FetchTypeCorrect == AgentFetchSpec => []FetchTypeOK
<1>1. FetchInv => FetchTypeOK
  BY DEF FetchInv
<1> QED BY <1>1, FetchInvariant, PTL

\* token_provider.py: no session of a tenant is lent a token that has expired, unless
\* that token's answer was under way longer than the buffer.  Nothing is assumed of how
\* long answers take.
THEOREM LentTokensLive == AgentFetchSpec => []LentTokenLives
<1>1. ASSUME FetchInv, Lendable, tokens[kept].late <= Buffer PROVE clock < tokens[kept].at + Life
  <2>1. kept # 0 /\ clock + Buffer < expires /\ clock \in Nat /\ expires \in Nat /\ kept \in DOMAIN tokens
    BY <1>1 DEF FetchInv, FetchTypeOK, Lendable
  <2>2. tokens[kept].at \in Nat /\ tokens[kept].late \in Nat
    <3>1. tokens \in Seq([at : Nat, late : Nat, claims : BOOLEAN]) /\ kept \in 1 .. Len(tokens)
      BY <1>1, <2>1 DEF FetchInv, FetchTypeOK
    <3>2. tokens[kept] \in [at : Nat, late : Nat, claims : BOOLEAN]
      BY <3>1, ElementOfSeq
    <3> QED BY <3>2
  <2>3. expires = tokens[kept].at + tokens[kept].late + Life
    BY <1>1, <2>1 DEF FetchInv, KeptIsDated
  <2> QED BY <1>1, <2>1, <2>2, <2>3, ClockAssumption
<1>2. FetchInv => LentTokenLives
  <2> SUFFICES ASSUME FetchInv, Lendable, ~(tokens[kept].late > Buffer)
               PROVE  clock < tokens[kept].at + Life
    BY DEF LentTokenLives
  <2>1. kept \in 1 .. Len(tokens) /\ tokens \in Seq([at : Nat, late : Nat, claims : BOOLEAN])
    BY DEF FetchInv, FetchTypeOK, Lendable
  <2>2. tokens[kept] \in [at : Nat, late : Nat, claims : BOOLEAN]
    BY <2>1, ElementOfSeq
  <2>3. tokens[kept].late <= Buffer
    BY <2>2, ClockAssumption
  <2> QED BY <1>1, <2>3
<1> QED BY <1>2, FetchInvariant, PTL

\* A session that is refused for good was refused with a token newer than the first one,
\* or there was none to be had, however many sessions share and pop the entry.
THEOREM RefusalsAreOfNewTokens == AgentFetchSpec => []RefusalIsOfNewToken
<1>1. FetchInv => RefusalIsOfNewToken
  BY DEF FetchInv, SentIsNewer, RefusalIsOfNewToken
<1> QED BY <1>1, FetchInvariant, PTL

-----------------------------------------------------------------------------
(* CallContext.                                                              *)

LEMMA NumbersAreTyped ==
  ASSUME ContextTypeOK, NEW x \in LiveCalls
  PROVE  Context(x) \in ContextType /\ Minimal(x) \in ContextType
<1> DEFINE l == setup[x].line
           c == setup[x].config
<1>1. l \in LineType /\ c \in ConfigType
  BY SetupsAssumption DEF ContextTypeOK
<1>2. CallData(l).from \in Numbered /\ CallData(l).to \in Numbered
  BY DEF CallData, Numbered
<1>3. Numbers(l, c).user \in Numbered /\ Numbers(l, c).agent \in Numbered
  BY <1>2 DEF Numbers
<1>4. \A n \in Numbered : Mask(c, n) \in Numbered
  BY DEF Mask, Masked, Numbered
<1>5. TransportNumbers(l, c).user \in Numbered /\ TransportNumbers(l, c).agent \in Numbered
  BY <1>3, <1>4 DEF TransportNumbers, Numbered
<1>6. UserNumber(l, c) \in Numbered
  BY <1>2, <1>4 DEF UserNumber, Numbered
<1>7. l.kind \in Transports
  BY <1>1 DEF LineType
<1>8. Context(x) \in ContextType
  BY <1>5, <1>6, <1>7 DEF Context, ContextType
<1>9. Minimal(x) \in ContextType
  BY DEF Minimal, NoContext, ContextType, Numbered, Transports
<1> QED BY <1>8, <1>9

\* What UserIsNotOurselves says, of one context.
SpeaksOfUser(x, c) ==
  c # NoContext /\ (setup[x].config.direction \/ setup[x].line.known) =>
    /\ c.user # "ours" /\ c.contact # "ours" /\ c.agent # "user"
    /\ "none" \in {c.user, c.contact} \/ c.user = c.contact
    /\ setup[x].config.privacy => "user" \notin {c.user, c.contact} /\ c.agent # "ours"

LEMMA ContextSpeaksOfUser ==
  ASSUME ContextTypeOK, NEW x \in LiveCalls
  PROVE  SpeaksOfUser(x, Context(x)) /\ SpeaksOfUser(x, Minimal(x))
<1> DEFINE l == setup[x].line
           c == setup[x].config
<1>1. l \in LineType /\ c \in ConfigType
  BY SetupsAssumption DEF ContextTypeOK
<1>2. l.dir \in {"inbound", "outbound"} /\ l.known \in BOOLEAN /\ l.shown \in BOOLEAN /\ l.started \in BOOLEAN
  BY <1>1 DEF LineType, Directions
<1>3. c.phones \in BOOLEAN /\ c.direction \in BOOLEAN /\ c.privacy \in BOOLEAN /\ c.details \in BOOLEAN
  BY <1>1 DEF ConfigType
<1>4. SpeaksOfUser(x, Minimal(x))
  BY DEF SpeaksOfUser, Minimal, NoContext
<1>5. CallData(l).dir = l.dir
  BY DEF CallData
<1>6. CASE l.dir = "inbound"
  <2>1. /\ CallData(l).from = IF l.shown \/ l.started THEN "user" ELSE "none"
        /\ CallData(l).to = "ours"
    BY <1>6 DEF CallData
  <2>2. c.direction \/ l.known
        => /\ Numbers(l, c).user = IF l.shown \/ l.started THEN "user" ELSE "none"
           /\ Numbers(l, c).agent = "ours"
    BY <1>2, <1>3, <1>5, <1>6, <2>1 DEF Numbers
  <2>3. \/ TransportNumbers(l, c) = [user |-> "none", agent |-> "none"]
        \/ c.direction \/ l.known
           => /\ TransportNumbers(l, c).user = Mask(c, IF l.shown \/ l.started THEN "user" ELSE "none")
              /\ TransportNumbers(l, c).agent = Mask(c, "ours")
    BY <1>2, <1>3, <2>2 DEF TransportNumbers
  <2>4. UserNumber(l, c) \in {"none", Mask(c, IF l.shown \/ l.started THEN "user" ELSE "none")}
    BY <1>2, <1>3, <1>5, <1>6, <2>1 DEF UserNumber, Mask, Masked
  <2>5. /\ Context(x).user = TransportNumbers(l, c).user
        /\ Context(x).agent = TransportNumbers(l, c).agent
        /\ Context(x).contact = UserNumber(l, c)
    BY DEF Context
  <2>6. CASE c.privacy
    <3>1. SpeaksOfUser(x, Context(x))
      BY <1>2, <1>3, <2>3, <2>4, <2>5, <2>6 DEF SpeaksOfUser, Mask, Masked
    <3>. QED
      BY <1>4, <3>1
  <2>7. CASE ~c.privacy
    <3>1. SpeaksOfUser(x, Context(x))
      BY <1>2, <1>3, <2>3, <2>4, <2>5, <2>7 DEF SpeaksOfUser, Mask, Masked
    <3>. QED
      BY <1>4, <3>1
  <2>. QED
    BY <1>3, <2>6, <2>7
<1>7. CASE l.dir = "outbound"
  <2>1. /\ CallData(l).to = IF l.shown \/ l.started THEN "user" ELSE "none"
        /\ CallData(l).from = "ours"
    BY <1>7 DEF CallData
  <2>2. c.direction \/ l.known
        => /\ Numbers(l, c).user = IF l.shown \/ l.started THEN "user" ELSE "none"
           /\ Numbers(l, c).agent = "ours"
    BY <1>2, <1>3, <1>5, <1>7, <2>1 DEF Numbers
  <2>3. \/ TransportNumbers(l, c) = [user |-> "none", agent |-> "none"]
        \/ c.direction \/ l.known
           => /\ TransportNumbers(l, c).user = Mask(c, IF l.shown \/ l.started THEN "user" ELSE "none")
              /\ TransportNumbers(l, c).agent = Mask(c, "ours")
    BY <1>2, <1>3, <2>2 DEF TransportNumbers
  <2>4. UserNumber(l, c) \in {"none", Mask(c, IF l.shown \/ l.started THEN "user" ELSE "none")}
    BY <1>2, <1>3, <1>5, <1>7, <2>1 DEF UserNumber, Mask, Masked
  <2>5. /\ Context(x).user = TransportNumbers(l, c).user
        /\ Context(x).agent = TransportNumbers(l, c).agent
        /\ Context(x).contact = UserNumber(l, c)
    BY DEF Context
  <2>6. CASE c.privacy
    <3>1. SpeaksOfUser(x, Context(x))
      BY <1>2, <1>3, <2>3, <2>4, <2>5, <2>6 DEF SpeaksOfUser, Mask, Masked
    <3>. QED
      BY <1>4, <3>1
  <2>7. CASE ~c.privacy
    <3>1. SpeaksOfUser(x, Context(x))
      BY <1>2, <1>3, <2>3, <2>4, <2>5, <2>7 DEF SpeaksOfUser, Mask, Masked
    <3>. QED
      BY <1>4, <3>1
  <2>. QED
    BY <1>3, <2>6, <2>7
<1> QED BY <1>2, <1>4, <1>6, <1>7

\* An agent's context is the one built for its call.
OwnSpeaksOfUser == \A x \in LiveCalls : SpeaksOfUser(x, own[x])

\* As long as no two calls overlap, one call at most is not away or over; the variable
\* names it from the time its context was set, and so does what its tools have read.
Away(x) == stage[x] \in {"away", "over"}
Alone ==
  ~overlap =>
    /\ \A x, y \in LiveCalls : x = y \/ Away(x) \/ Away(y)
    /\ \A x \in LiveCalls : setup[x].config.enabled =>
         /\ stage[x] \in {"set", "talking"} => current.for = x
         /\ \A t \in Tools : use[x][t] = "read" => seen[x][t].for = x
    /\ \A a \in acted : a.by = a.for \/ ~setup[a.by].config.enabled

ContextInv == ContextTypeOK /\ OwnSpeaksOfUser /\ Alone

LEMMA NamedOrNone ==
  ASSUME NEW c \in ContextType
  PROVE  /\ c # NoContext => c.for \in LiveCalls
         /\ c.mode = "phone" => c # NoContext
  BY DEF ContextType, NoContext

LEMMA SaidIsAnswer ==
  ASSUME ContextTypeOK, NEW x \in LiveCalls, NEW a \in {"success", "error"}, Say(x, a) \/ Quiet
  PROVE  answers' \in [LiveCalls -> Seq({"success", "error"})]
<1>1. answers \in [LiveCalls -> Seq({"success", "error"})]
  BY DEF ContextTypeOK
<1>2. CASE Say(x, a)
  <2>1. Append(answers[x], a) \in Seq({"success", "error"})
    BY <1>1
  <2> QED BY <1>1, <1>2, <2>1 DEF Say
<1> QED BY <1>1, <1>2 DEF Quiet

LEMMA ContextStarts == ContextInit => ContextInv
<1> SUFFICES ASSUME ContextInit PROVE ContextInv
  OBVIOUS
<1>1. NoContext \in ContextType
  BY DEF ContextType
<1>2. sets \in [LiveCalls -> 0 .. 2]
  BY DEF ContextInit
<1>3. answers \in [LiveCalls -> Seq({"success", "error"})]
  BY DEF ContextInit
<1>4. ContextTypeOK
  BY <1>1, <1>2, <1>3 DEF ContextInit, ContextTypeOK
<1>5. OwnSpeaksOfUser
  BY DEF ContextInit, OwnSpeaksOfUser, SpeaksOfUser
<1>6. Alone
  BY DEF ContextInit, Alone, Away
<1> QED BY <1>4, <1>5, <1>6 DEF ContextInv

LEMMA ContextSteps == ContextInv /\ [ContextNext]_contextVars => ContextInv'
<1> SUFFICES ASSUME ContextInv, [ContextNext]_contextVars PROVE ContextInv'
  OBVIOUS
<1>1. CASE UNCHANGED contextVars
  BY <1>1 DEF ContextInv, ContextTypeOK, OwnSpeaksOfUser, SpeaksOfUser, Alone, Away, contextVars
<1>2. ASSUME NEW x \in LiveCalls, CallStep(x) \/ ToolStep(x) PROVE ContextInv'
  <2>1. CASE AskContext(x)
    <3>1. ContextTypeOK'
      BY <1>2, <2>1 DEF AskContext, toolVars, ContextInv, ContextTypeOK, Tools
    <3>2. OwnSpeaksOfUser'
      BY <1>2, <2>1 DEF AskContext, toolVars, ContextInv, ContextTypeOK, OwnSpeaksOfUser, SpeaksOfUser
    <3>3. Alone'
      BY <1>2, <2>1 DEF AskContext, toolVars, ContextInv, ContextTypeOK, Alone, Away, Tools
    <3> QED BY <3>1, <3>2, <3>3 DEF ContextInv
  <2>2. CASE SkipContext(x)
    <3>1. NoContext \in ContextType
      BY DEF ContextType
    <3>2. ContextTypeOK'
      BY <1>2, <2>2, <3>1 DEF SkipContext, toolVars, ContextInv, ContextTypeOK, Tools
    <3>3. OwnSpeaksOfUser'
      BY <1>2, <2>2 DEF SkipContext, toolVars, ContextInv, ContextTypeOK, OwnSpeaksOfUser, SpeaksOfUser
    <3>4. Alone'
      BY <1>2, <2>2 DEF SkipContext, toolVars, ContextInv, ContextTypeOK, Alone, Away, Tools
    <3> QED BY <3>2, <3>3, <3>4 DEF ContextInv
  <2>3. CASE SetContext(x)
    <3>1. /\ Context(x) \in ContextType /\ Minimal(x) \in ContextType /\ NoContext \in ContextType
          /\ SpeaksOfUser(x, Context(x)) /\ SpeaksOfUser(x, Minimal(x)) /\ SpeaksOfUser(x, NoContext)
          /\ Context(x).for = x /\ Minimal(x).for = x
      BY <1>2, NumbersAreTyped, ContextSpeaksOfUser DEF ContextInv, ContextType, SpeaksOfUser, Context, Minimal, NoContext
    <3>2. current' \in ContextType /\ own' \in [LiveCalls -> ContextType]
      <4>1. current' \in ContextType
        BY <2>3, <3>1 DEF SetContext
      <4>2. own' = [own EXCEPT ![x] = current'] \/ own' = [own EXCEPT ![x] = NoContext]
        BY <2>3 DEF SetContext
      <4> QED BY <1>2, <3>1, <4>1, <4>2 DEF ContextInv, ContextTypeOK
    <3>3. sets' \in [LiveCalls -> 0 .. 2]
      BY <1>2, <2>3 DEF SetContext, ContextInv, ContextTypeOK
    <3>4. ContextTypeOK'
      BY <1>2, <2>3, <3>2, <3>3 DEF SetContext, toolVars, ContextInv, ContextTypeOK
    <3>5. OwnSpeaksOfUser'
      BY <1>2, <2>3, <3>1 DEF SetContext, toolVars, ContextInv, ContextTypeOK, OwnSpeaksOfUser, SpeaksOfUser
    <3>6. Alone'
      BY <1>2, <2>3, <3>1, ZenonT(60) DEF SetContext, toolVars, ContextInv, ContextTypeOK, Alone, Away, Tools
    <3> QED BY <3>4, <3>5, <3>6 DEF ContextInv
  <2>4. CASE Talk(x)
    <3>1. ContextTypeOK'
      BY <1>2, <2>4 DEF Talk, toolVars, ContextInv, ContextTypeOK, Tools
    <3>2. OwnSpeaksOfUser'
      BY <1>2, <2>4 DEF Talk, toolVars, ContextInv, ContextTypeOK, OwnSpeaksOfUser, SpeaksOfUser
    <3>3. Alone'
      BY <1>2, <2>4 DEF Talk, toolVars, ContextInv, ContextTypeOK, Alone, Away, Tools
    <3> QED BY <3>1, <3>2, <3>3 DEF ContextInv
  <2>5. CASE EndCall(x)
    <3>1. ContextTypeOK'
      BY <1>2, <2>5 DEF EndCall, toolVars, ContextInv, ContextTypeOK, Tools
    <3>2. OwnSpeaksOfUser'
      BY <1>2, <2>5 DEF EndCall, toolVars, ContextInv, ContextTypeOK, OwnSpeaksOfUser, SpeaksOfUser
    <3>3. Alone'
      BY <1>2, <2>5 DEF EndCall, toolVars, ContextInv, ContextTypeOK, Alone, Away, Tools
    <3> QED BY <3>1, <3>2, <3>3 DEF ContextInv
  <2>6. CASE \E t \in Tools : ReadContext(x, t)
    <3>1. ContextTypeOK'
      BY <1>2, <2>6 DEF ReadContext, Go, callVars, ContextInv, ContextTypeOK, Tools
    <3>2. OwnSpeaksOfUser'
      BY <1>2, <2>6 DEF ReadContext, Go, callVars, ContextInv, ContextTypeOK, OwnSpeaksOfUser, SpeaksOfUser
    <3>3. Alone'
      BY <1>2, <2>6 DEF ReadContext, Go, callVars, ContextInv, ContextTypeOK, Alone, Away, Tools
    <3> QED BY <3>1, <3>2, <3>3 DEF ContextInv
  <2>7. CASE \E t \in Tools : RefuseTool(x, t)
    <3>1. use' \in [LiveCalls -> [Tools -> {"off", "read", "posted", "answered"}]]
      BY <1>2, <2>7 DEF RefuseTool, Go, Say, Quiet, ContextInv, ContextTypeOK, Tools
    <3>2. answers' \in [LiveCalls -> Seq({"success", "error"})]
      BY <1>2, <2>7, SaidIsAnswer DEF RefuseTool, ContextInv
    <3>3. ContextTypeOK'
      BY <1>2, <2>7, <3>1, <3>2 DEF RefuseTool, Go, Say, Quiet, callVars, ContextInv, ContextTypeOK, Tools
    <3>4. OwnSpeaksOfUser'
      BY <1>2, <2>7 DEF RefuseTool, Go, Say, Quiet, callVars, ContextInv, ContextTypeOK, OwnSpeaksOfUser, SpeaksOfUser
    <3>5. Alone'
      BY <1>2, <2>7 DEF RefuseTool, Go, Say, Quiet, callVars, ContextInv, ContextTypeOK, Alone, Away, Tools
    <3> QED BY <3>3, <3>4, <3>5 DEF ContextInv
  <2>8. CASE BlockHangup(x)
    <3>1. /\ seen[x]["hangup_call"] \in ContextType
          /\ seen[x]["hangup_call"] # NoContext => seen[x]["hangup_call"].for \in LiveCalls
          /\ seen[x]["hangup_call"].mode = "phone" => seen[x]["hangup_call"] # NoContext
      BY <1>2, NamedOrNone DEF ContextInv, ContextTypeOK, Tools
    <3>2. ContextTypeOK'
      BY <1>2, <2>8, <3>1 DEF BlockHangup, Go, Quiet, Acts, callVars, ContextInv, ContextTypeOK, Tools
    <3>3. OwnSpeaksOfUser'
      BY <1>2, <2>8, <3>1 DEF BlockHangup, Go, Quiet, Acts, callVars, ContextInv, ContextTypeOK, OwnSpeaksOfUser, SpeaksOfUser
    <3>4. Alone'
      BY <1>2, <2>8, <3>1 DEF BlockHangup, Go, Quiet, Acts, callVars, ContextInv, ContextTypeOK, Alone, Away, Tools
    <3> QED BY <3>2, <3>3, <3>4 DEF ContextInv
  <2>9. CASE HangUp(x)
    <3>1. /\ seen[x]["hangup_call"] \in ContextType
          /\ seen[x]["hangup_call"] # NoContext => seen[x]["hangup_call"].for \in LiveCalls
          /\ seen[x]["hangup_call"].mode = "phone" => seen[x]["hangup_call"] # NoContext
      BY <1>2, NamedOrNone DEF ContextInv, ContextTypeOK, Tools
    <3>2. ContextTypeOK'
      BY <1>2, <2>9, <3>1 DEF HangUp, Go, Quiet, callVars, ContextInv, ContextTypeOK, Tools
    <3>3. OwnSpeaksOfUser'
      BY <1>2, <2>9, <3>1 DEF HangUp, Go, Quiet, callVars, ContextInv, ContextTypeOK, OwnSpeaksOfUser, SpeaksOfUser
    <3>4. Alone'
      BY <1>2, <2>9, <3>1 DEF HangUp, Go, Quiet, callVars, ContextInv, ContextTypeOK, Alone, Away, Tools
    <3> QED BY <3>2, <3>3, <3>4 DEF ContextInv
  <2>10. CASE Transfer(x)
    <3>1. /\ seen[x]["warm_transfer"] \in ContextType
          /\ seen[x]["warm_transfer"] # NoContext => seen[x]["warm_transfer"].for \in LiveCalls
          /\ seen[x]["warm_transfer"].mode = "phone" => seen[x]["warm_transfer"] # NoContext
      BY <1>2, NamedOrNone DEF ContextInv, ContextTypeOK, Tools
    <3>2. transferring' \in [LiveCalls -> BOOLEAN] /\ acted' \subseteq [tool : Tools, by : LiveCalls, for : LiveCalls]
      BY <1>2, <2>10, <3>1 DEF Transfer, Acts, ContextInv, ContextTypeOK, Tools
    <3>3. ContextTypeOK'
      BY <1>2, <2>10, <3>2 DEF Transfer, Go, Quiet, callVars, ContextInv, ContextTypeOK, Tools
    <3>4. OwnSpeaksOfUser'
      BY <1>2, <2>10, <3>1 DEF Transfer, Go, Quiet, Acts, callVars, ContextInv, ContextTypeOK, OwnSpeaksOfUser, SpeaksOfUser
    <3>5. Alone'
      BY <1>2, <2>10, <3>1 DEF Transfer, Go, Quiet, Acts, callVars, ContextInv, ContextTypeOK, Alone, Away, Tools
    <3> QED BY <3>3, <3>4, <3>5 DEF ContextInv
  <2>11. CASE Query(x)
    <3>1. /\ seen[x]["rag_tool"] \in ContextType
          /\ seen[x]["rag_tool"] # NoContext => seen[x]["rag_tool"].for \in LiveCalls
          /\ seen[x]["rag_tool"].mode = "phone" => seen[x]["rag_tool"] # NoContext
      BY <1>2, NamedOrNone DEF ContextInv, ContextTypeOK, Tools
    <3>2. ContextTypeOK'
      BY <1>2, <2>11, <3>1 DEF Query, Go, Quiet, Acts, callVars, ContextInv, ContextTypeOK, Tools
    <3>3. OwnSpeaksOfUser'
      BY <1>2, <2>11, <3>1 DEF Query, Go, Quiet, Acts, callVars, ContextInv, ContextTypeOK, OwnSpeaksOfUser, SpeaksOfUser
    <3>4. Alone'
      BY <1>2, <2>11, <3>1 DEF Query, Go, Quiet, Acts, callVars, ContextInv, ContextTypeOK, Alone, Away, Tools
    <3> QED BY <3>2, <3>3, <3>4 DEF ContextInv
  <2>12. CASE PostCallback(x)
    <3>1. /\ seen[x]["schedule_callback"] \in ContextType
          /\ seen[x]["schedule_callback"] # NoContext => seen[x]["schedule_callback"].for \in LiveCalls
          /\ seen[x]["schedule_callback"].mode = "phone" => seen[x]["schedule_callback"] # NoContext
      BY <1>2, NamedOrNone DEF ContextInv, ContextTypeOK, Tools
    <3>2. use' \in [LiveCalls -> [Tools -> {"off", "read", "posted", "answered"}]]
      <4>1. CASE Go(x, "schedule_callback", "posted")
        BY <1>2, <4>1 DEF Go, ContextInv, ContextTypeOK, Tools
      <4>2. CASE Go(x, "schedule_callback", "answered")
        BY <1>2, <4>2 DEF Go, ContextInv, ContextTypeOK, Tools
      <4> QED BY <2>12, <4>1, <4>2 DEF PostCallback
    <3>3. answers' \in [LiveCalls -> Seq({"success", "error"})]
      BY <1>2, <2>12, SaidIsAnswer DEF PostCallback, ContextInv
    <3>4. ContextTypeOK'
      BY <1>2, <2>12, <3>1, <3>2, <3>3, SMTT(30) DEF PostCallback, Go, Quiet, Say, Acts, callVars, ContextInv, ContextTypeOK, Tools
    <3>5. OwnSpeaksOfUser'
      BY <1>2, <2>12, <3>1 DEF PostCallback, Go, Quiet, Say, Acts, callVars, ContextInv, ContextTypeOK, OwnSpeaksOfUser, SpeaksOfUser
    <3>6. \A y \in LiveCalls, t \in Tools : use'[y][t] = "read" => use[y][t] = "read"
      <4>1. CASE Go(x, "schedule_callback", "posted")
        BY <1>2, <4>1 DEF Go, ContextInv, ContextTypeOK, Tools
      <4>2. CASE Go(x, "schedule_callback", "answered")
        BY <1>2, <4>2 DEF Go, ContextInv, ContextTypeOK, Tools
      <4> QED BY <2>12, <4>1, <4>2 DEF PostCallback
    <3>7. /\ UNCHANGED <<setup, stage, current, seen, overlap>>
          /\ acted' = acted \cup {[tool |-> "schedule_callback", by |-> x, for |-> seen[x]["schedule_callback"].for]}
          /\ use[x]["schedule_callback"] = "read"
      BY <2>12 DEF PostCallback, Acts, callVars
    <3>8. Alone'
      BY <1>2, <3>6, <3>7 DEF ContextInv, Alone, Away, Tools
    <3> QED BY <3>4, <3>5, <3>8 DEF ContextInv
  <2>13. CASE ConfirmCallback(x)
    <3>1. use' \in [LiveCalls -> [Tools -> {"off", "read", "posted", "answered"}]]
      BY <1>2, <2>13 DEF ConfirmCallback, Go, ContextInv, ContextTypeOK, Tools
    <3>2. answers' \in [LiveCalls -> Seq({"success", "error"})]
      <4>1. <<"success">> \in Seq({"success", "error"}) /\ <<"success", "error">> \in Seq({"success", "error"})
        OBVIOUS
      <4> QED BY <1>2, <2>13, <4>1 DEF ConfirmCallback, ContextInv, ContextTypeOK
    <3>3. ContextTypeOK'
      BY <1>2, <2>13, <3>1, <3>2 DEF ConfirmCallback, Go, callVars, ContextInv, ContextTypeOK, Tools
    <3>4. OwnSpeaksOfUser'
      BY <1>2, <2>13 DEF ConfirmCallback, Go, callVars, ContextInv, ContextTypeOK, OwnSpeaksOfUser, SpeaksOfUser
    <3>5. Alone'
      BY <1>2, <2>13 DEF ConfirmCallback, Go, callVars, ContextInv, ContextTypeOK, Alone, Away, Tools
    <3> QED BY <3>3, <3>4, <3>5 DEF ContextInv
  <2> QED BY <1>2, <2>1, <2>2, <2>3, <2>4, <2>5, <2>6, <2>7, <2>8, <2>9, <2>10, <2>11, <2>12, <2>13 DEF CallStep, ToolStep
<1> QED BY <1>1, <1>2 DEF ContextNext

LEMMA ContextInvariant == CallContextSpec => []ContextInv
<1> QED BY ContextStarts, ContextSteps, PTL DEF CallContextSpec

\* Whatever the calls of a process do, a context is none or one that names a call of it.
THEOREM ContextTypeCorrect == CallContextSpec => []ContextTypeOK
<1>1. ContextInv => ContextTypeOK
  BY DEF ContextInv
<1> QED BY <1>1, ContextInvariant, PTL

\* For every set of calls: until two of them overlap, tools act for their own call.
THEOREM SerialCallsAct == CallContextSpec => []SerialCallsActForThemselves
<1>1. ContextInv => SerialCallsActForThemselves
  BY DEF ContextInv, Alone, SerialCallsActForThemselves
<1> QED BY <1>1, ContextInvariant, PTL

\* For every line and every context_config: our number is never taken for the user's,
\* unless the direction is switched off and the settings do not know the number.
THEOREM UsersAreNotOurselves == CallContextSpec => []UserIsNotOurselves
<1>1. ContextInv => UserIsNotOurselves
  BY DEF ContextInv, OwnSpeaksOfUser, SpeaksOfUser, UserIsNotOurselves
<1> QED BY <1>1, ContextInvariant, PTL

-----------------------------------------------------------------------------
(* SessionReports.                                                           *)

\* What saves bring is content of a log.
LEMMA JoinsAreContent == ASSUME NEW f, NEW g, IsContent(f), IsContent(g) PROVE IsContent(Join(f, g))
  BY DEF IsContent, Join

LEMMA PartsAreContent ==
  ASSUME NEW l \in Logs, NEW b \in BOOLEAN
  PROVE  /\ IsContent(Participants(l)) /\ IsContent(Metadata(b)) /\ IsContent(Configuration(b))
         /\ IsContent(If(given[l].people, Of("participant_data", Of("participants", TRUE))))
         /\ IsContent(Of("transcript", Of("messages", b))) /\ IsContent(Nothing)
  BY DEF IsContent, Participants, Metadata, Configuration, If, Of, Join, Nothing, Types, Keys

LEMMA MergesAreContent ==
  ASSUME NEW x, NEW y, IsContent(x), IsContent(y)
  PROVE  IsContent(MergeLists(x, y))
<1> DEFINE m == MergeLists(x, y)
<1>1. DOMAIN m \subseteq Types
  BY DEF MergeLists, IsContent
<1>2. ASSUME NEW t \in DOMAIN m PROVE DOMAIN m[t] \subseteq Keys /\ \A k \in DOMAIN m[t] : m[t][k] \in BOOLEAN
  <2>1. CASE t \notin DOMAIN y
    BY <1>2, <2>1 DEF MergeLists, IsContent
  <2>2. CASE t \notin DOMAIN x
    BY <1>2, <2>2 DEF MergeLists, IsContent
  <2>3. CASE t \in DOMAIN x /\ t \in DOMAIN y
    <3>1. m[t] = x[t] \/ m[t] = Join(y[t], x[t])
      BY <2>3 DEF MergeLists, Merge
    <3>2. /\ DOMAIN x[t] \subseteq Keys /\ \A k \in DOMAIN x[t] : x[t][k] \in BOOLEAN
          /\ DOMAIN y[t] \subseteq Keys /\ \A k \in DOMAIN y[t] : y[t][k] \in BOOLEAN
      BY <2>3 DEF IsContent
    <3>3. CASE m[t] = x[t]
      BY <3>2, <3>3
    <3>4. CASE m[t] = Join(y[t], x[t])
      BY <3>2, <3>4 DEF Join
    <3> QED BY <3>1, <3>3, <3>4
  <2> QED BY <2>1, <2>2, <2>3
<1> QED BY <1>1, <1>2 DEF IsContent

LEMMA MergeKeepsContent ==
  ASSUME NEW x, NEW y, NEW t \in DOMAIN x, HasContent(x[t])
  PROVE  t \in DOMAIN MergeLists(x, y) /\ HasContent(MergeLists(x, y)[t])
<1>1. CASE t \notin DOMAIN y
  BY <1>1 DEF MergeLists
<1>2. CASE t \in DOMAIN y /\ ~HasContent(y[t])
  BY <1>2 DEF MergeLists, Merge
<1>3. CASE t \in DOMAIN y /\ HasContent(y[t])
  <2>1. t \in DOMAIN MergeLists(x, y) /\ MergeLists(x, y)[t] = Join(y[t], x[t])
    BY <1>3 DEF MergeLists, Merge
  <2>2. PICK k \in DOMAIN y[t] : y[t][k]
    BY <1>3 DEF HasContent
  <2>3. k \in DOMAIN Join(y[t], x[t]) /\ Join(y[t], x[t])[k]
    BY <2>2 DEF Join
  <2> QED BY <2>1, <2>3 DEF HasContent
<1> QED BY <1>1, <1>2, <1>3

\* The user who created the session is in the first save only, and no other save loses him.
HasCreator(c) == "participant_data" \in DOMAIN c /\ "created_by" \in DOMAIN c["participant_data"]

LEMMA MergeKeepsCreator ==
  ASSUME NEW x, NEW y, ~HasCreator(y)
  PROVE  HasCreator(MergeLists(x, y)) <=> HasCreator(x)
<1> DEFINE t == "participant_data"
           m == MergeLists(x, y)
<1>1. t \in DOMAIN m <=> t \in DOMAIN x \/ t \in DOMAIN y
  BY DEF MergeLists
<1>2. CASE t \notin DOMAIN y
  BY <1>1, <1>2 DEF MergeLists, HasCreator
<1>3. CASE t \notin DOMAIN x /\ t \in DOMAIN y
  BY <1>1, <1>3 DEF MergeLists, HasCreator
<1>4. CASE t \in DOMAIN x /\ t \in DOMAIN y
  <2>1. m[t] = Merge(x[t], y[t]) /\ t \in DOMAIN m
    BY <1>4 DEF MergeLists
  <2>2. "created_by" \in DOMAIN Merge(x[t], y[t]) <=> "created_by" \in DOMAIN x[t]
    <3>1. "created_by" \notin DOMAIN y[t]
      BY <1>4 DEF HasCreator
    <3> QED BY <3>1 DEF Merge, Join
  <2> QED BY <1>4, <2>1, <2>2 DEF HasCreator
<1> QED BY <1>2, <1>3, <1>4

LEMMA FirstNamesCreator ==
  ASSUME NEW l \in Logs, NEW metadata \in BOOLEAN
  PROVE  HasCreator(MergeLists(Nothing, Join(Join(Participants(l), Metadata(metadata)), Configuration(TRUE)))) <=> given[l].user
<1> DEFINE new == Join(Join(Participants(l), Metadata(metadata)), Configuration(TRUE))
<1>1. HasCreator(MergeLists(Nothing, new)) <=> HasCreator(new)
  BY DEF MergeLists, Nothing, HasCreator
<1>2. "participant_data" \notin DOMAIN Metadata(metadata) /\ "participant_data" \notin DOMAIN Configuration(TRUE)
  BY DEF Metadata, Configuration, If, Of, Nothing
<1>3. HasCreator(new) <=> HasCreator(Participants(l))
  BY <1>2 DEF HasCreator, Join
<1>4. HasCreator(Participants(l)) <=> given[l].user
  BY DEF HasCreator, Participants, If, Of, Join, Nothing
<1> QED BY <1>1, <1>3, <1>4

LEMMA LaterNamesNobody ==
  ASSUME NEW l \in Logs, NEW metadata \in BOOLEAN, NEW agent \in BOOLEAN, NEW spoken \in BOOLEAN
  PROVE  /\ ~HasCreator(Configuration(TRUE))
         /\ ~HasCreator(Join(Join(Metadata(metadata), Configuration(agent)),
                             Join(If(given[l].people, Of("participant_data", Of("participants", TRUE))),
                                  Of("transcript", Of("messages", spoken)))))
<1>1. "participant_data" \notin DOMAIN Metadata(metadata) /\ \A b \in BOOLEAN : "participant_data" \notin DOMAIN Configuration(b)
  BY DEF Metadata, Configuration, If, Of, Nothing
<1>2. ~HasCreator(If(given[l].people, Of("participant_data", Of("participants", TRUE))))
  BY DEF HasCreator, If, Of, Nothing
<1>3. "participant_data" \notin DOMAIN Of("transcript", Of("messages", spoken))
  BY DEF Of
<1> QED BY <1>1, <1>2, <1>3 DEF HasCreator, Join

\* What the log and the saves in progress know of the user is what the session was
\* created with, and so is what an event tells.
NamesCreator(l) ==
  /\ at[l] = "new" => artifacts[l] = Nothing
  /\ at[l] # "new" => (HasCreator(artifacts[l]) <=> given[l].user)
  /\ \A p \in Pipes : pipe[l][p] \in {"consuming", "saving"} => (HasCreator(snapshot[l][p]) <=> given[l].user)

Tells(e) == e.event = "session_artifacts_ready" => e.by = User(e.log)

ReportsInv ==
  /\ ReportsTypeOK /\ PatchNamesCreator
  /\ \A l \in Logs : NamesCreator(l)
  /\ \A e \in posts : Tells(e)

LEMMA ReportsStart == ReportsInit => ReportsInv
<1> SUFFICES ASSUME ReportsInit PROVE ReportsInv
  OBVIOUS
<1>1. IsContent(Nothing)
  BY DEF IsContent, Nothing
<1> QED BY <1>1 DEF ReportsInit, ReportsInv, ReportsTypeOK, PatchNamesCreator, NamesCreator, Tells

LEMMA ReportsSteps == ReportsInv /\ [ReportsNext]_reportVars => ReportsInv'
<1> SUFFICES ASSUME ReportsInv, [ReportsNext]_reportVars PROVE ReportsInv'
  OBVIOUS
<1>1. CASE UNCHANGED reportVars
  BY <1>1 DEF ReportsInv, ReportsTypeOK, PatchNamesCreator, NamesCreator, Tells, User, reportVars
<1>2. ASSUME NEW l \in Logs, SessionStep(l) PROVE ReportsInv'
  <2>1. CASE FirstSave(l)
    <3>1. /\ IsContent(artifacts'[l]) /\ (HasCreator(artifacts'[l]) <=> given[l].user)
          /\ DOMAIN artifacts' = Logs /\ \A q \in Logs : q # l => artifacts'[q] = artifacts[q]
      <4>1. PICK metadata \in BOOLEAN : Save(l, Join(Join(Participants(l), Metadata(metadata)), Configuration(TRUE)))
        BY <2>1 DEF FirstSave
      <4>2. IsContent(Join(Join(Participants(l), Metadata(metadata)), Configuration(TRUE)))
        BY <1>2, PartsAreContent, JoinsAreContent
      <4>3. artifacts[l] = Nothing /\ DOMAIN artifacts = Logs
        BY <1>2, <2>1 DEF FirstSave, Walk, ReportsInv, ReportsTypeOK, NamesCreator
      <4>4. artifacts'[l] = MergeLists(Nothing, Join(Join(Participants(l), Metadata(metadata)), Configuration(TRUE)))
        BY <1>2, <4>1, <4>3 DEF Save
      <4>5. IsContent(artifacts'[l])
        BY <1>2, <4>2, <4>4, PartsAreContent, MergesAreContent
      <4>6. HasCreator(artifacts'[l]) <=> given[l].user
        BY <1>2, <4>4, FirstNamesCreator
      <4> QED BY <1>2, <4>1, <4>3, <4>5, <4>6 DEF Save
    <3>2. ReportsTypeOK'
      BY <1>2, <2>1, <3>1 DEF FirstSave, Walk, ReportsInv, ReportsTypeOK, User, CreatorIn
    <3>3. PatchNamesCreator'
      BY <1>2, <2>1, <3>1 DEF FirstSave, Walk, ReportsInv, PatchNamesCreator, User
    <3>4. ASSUME NEW q \in Logs PROVE NamesCreator(q)'
      BY <1>2, <2>1, <3>4, <3>1 DEF FirstSave, Walk, ReportsInv, ReportsTypeOK, NamesCreator
    <3>5. ASSUME NEW e \in posts' PROVE Tells(e)'
      BY <1>2, <2>1, <3>5, <3>1 DEF FirstSave, Walk, ReportsInv, ReportsTypeOK, NamesCreator, Tells, User, CreatorIn, HasCreator
    <3> QED BY <3>2, <3>3, <3>4, <3>5 DEF ReportsInv
  <2>2. CASE EmitStart(l)
    <3>1. ReportsTypeOK'
      BY <1>2, <2>2 DEF EmitStart, Walk, Emit, ReportsInv, ReportsTypeOK, User, CreatorIn
    <3>2. PatchNamesCreator'
      BY <1>2, <2>2 DEF EmitStart, Walk, Emit, ReportsInv, PatchNamesCreator, User
    <3>3. ASSUME NEW q \in Logs PROVE NamesCreator(q)'
      BY <1>2, <2>2, <3>3 DEF EmitStart, Walk, Emit, ReportsInv, ReportsTypeOK, NamesCreator
    <3>4. ASSUME NEW e \in posts' PROVE Tells(e)'
      BY <1>2, <2>2, <3>4 DEF EmitStart, Walk, Emit, ReportsInv, ReportsTypeOK, NamesCreator, Tells, User, CreatorIn, HasCreator
    <3> QED BY <3>1, <3>2, <3>3, <3>4 DEF ReportsInv
  <2>3. ASSUME NEW p \in Pipes, Consume(l, p) PROVE ReportsInv'
    <3>1. /\ \A q \in Logs, r \in Pipes : q # l \/ r # p => snapshot'[q][r] = snapshot[q][r] /\ pipe'[q][r] = pipe[q][r]
          /\ pipe'[l][p] \in {"consuming", "talking"} /\ (pipe'[l][p] = "consuming" => snapshot'[l][p] = artifacts[l])
          /\ at[l] = "open" /\ at' = at /\ artifacts' = artifacts /\ given' = given
      BY <1>2, <2>3 DEF Consume, Pass, ReportsInv, ReportsTypeOK
    <3>2. ReportsTypeOK'
      <4> DEFINE Stages == {"off", "consuming", "talking", "ended", "saving", "written", "over"}
      <4>1. /\ pipe' \in [Logs -> [Pipes -> Stages]]
            /\ \A q \in Logs : at[q] # "open" => \A r \in Pipes : pipe'[q][r] = "off"
        <5>1. PICK to \in {"consuming", "talking"} : pipe' = [pipe EXCEPT ![l][p] = to]
          BY <2>3 DEF Consume, Pass
        <5>2. pipe \in [Logs -> [Pipes -> Stages]] /\ to \in Stages
          BY DEF ReportsInv, ReportsTypeOK
        <5>3. pipe' \in [Logs -> [Pipes -> Stages]]
          BY <1>2, <5>1, <5>2
        <5>4. \A q \in Logs : q # l => pipe'[q] = pipe[q]
          BY <5>1, <5>2
        <5>5. at[l] = "open" /\ \A q \in Logs : at[q] # "open" => \A r \in Pipes : pipe[q][r] = "off"
          BY <2>3 DEF Consume, ReportsInv, ReportsTypeOK
        <5> HIDE DEF Stages
        <5>. QED
          BY <5>3, <5>4, <5>5
      <4>2. /\ DOMAIN snapshot' = Logs
            /\ \A q \in Logs : DOMAIN snapshot'[q] = Pipes /\ \A r \in Pipes : IsContent(snapshot'[q][r])
        <5>1. snapshot' = snapshot \/ snapshot' = [snapshot EXCEPT ![l][p] = artifacts[l]]
          BY <2>3 DEF Consume
        <5>2. /\ DOMAIN snapshot = Logs /\ IsContent(artifacts[l])
              /\ \A q \in Logs : DOMAIN snapshot[q] = Pipes /\ \A r \in Pipes : IsContent(snapshot[q][r])
          BY <1>2 DEF ReportsInv, ReportsTypeOK
        <5>. QED
          BY <1>2, <5>1, <5>2
      <4> QED BY <2>3, <4>1, <4>2, SMTT(30) DEF Consume, ReportsInv, ReportsTypeOK
    <3>3. PatchNamesCreator'
      BY <1>2, <2>3 DEF Consume, Pass, ReportsInv, PatchNamesCreator, User
    <3>4. ASSUME NEW q \in Logs PROVE NamesCreator(q)'
      BY <1>2, <3>1, <3>4 DEF ReportsInv, NamesCreator
    <3>5. ASSUME NEW e \in posts' PROVE Tells(e)'
      BY <1>2, <2>3, <3>5 DEF Consume, Pass, ReportsInv, ReportsTypeOK, NamesCreator, Tells, User, CreatorIn, HasCreator
    <3> QED BY <3>2, <3>3, <3>4, <3>5 DEF ReportsInv
  <2>9. ASSUME NEW p \in Pipes, SaveConfig(l, p) PROVE ReportsInv'
    <3>1. /\ IsContent(artifacts'[l]) /\ (HasCreator(artifacts'[l]) <=> given[l].user)
          /\ DOMAIN artifacts' = Logs /\ \A q \in Logs : q # l => artifacts'[q] = artifacts[q]
      <4>1. IsContent(snapshot[l][p]) /\ (HasCreator(snapshot[l][p]) <=> given[l].user) /\ DOMAIN artifacts = Logs
        BY <1>2, <2>9 DEF SaveConfig, Pass, ReportsInv, ReportsTypeOK, NamesCreator
      <4>2. artifacts'[l] = MergeLists(snapshot[l][p], Configuration(TRUE))
        BY <1>2, <2>9, <4>1 DEF SaveConfig
      <4>3. IsContent(artifacts'[l])
        BY <1>2, <4>1, <4>2, PartsAreContent, MergesAreContent
      <4>4. HasCreator(artifacts'[l]) <=> given[l].user
        BY <1>2, <4>1, <4>2, LaterNamesNobody, MergeKeepsCreator
      <4> QED BY <1>2, <2>9, <4>1, <4>3, <4>4 DEF SaveConfig
    <3>2. UNCHANGED <<given, at, snapshot, posts, usageIds, records, patches>> /\ Pass(l, p, "consuming", "talking")
      BY <2>9 DEF SaveConfig
    <3>3. ReportsTypeOK'
      BY <1>2, <3>1, <3>2 DEF Pass, ReportsInv, ReportsTypeOK, User, CreatorIn
    <3>4. PatchNamesCreator'
      BY <1>2, <3>1, <3>2 DEF Pass, ReportsInv, PatchNamesCreator, User
    <3>5. ASSUME NEW q \in Logs PROVE NamesCreator(q)'
      BY <1>2, <3>1, <3>2, <3>5 DEF Pass, ReportsInv, ReportsTypeOK, NamesCreator
    <3>6. ASSUME NEW e \in posts' PROVE Tells(e)'
      BY <1>2, <3>1, <3>2, <3>6 DEF Pass, ReportsInv, ReportsTypeOK, NamesCreator, Tells, User, CreatorIn, HasCreator
    <3> QED BY <3>3, <3>4, <3>5, <3>6 DEF ReportsInv
  <2>4. ASSUME NEW p \in Pipes, EmitEnd(l, p) PROVE ReportsInv'
    <3>1. /\ pipe' \in [Logs -> [Pipes -> {"off", "consuming", "talking", "ended", "saving", "written", "over"}]]
          /\ at[l] = "open" /\ \A q \in Logs : q # l => pipe'[q] = pipe[q]
      BY <1>2, <2>4 DEF EmitEnd, Pass, ReportsInv, ReportsTypeOK
    <3>2. posts' \subseteq [event : {"session_start", "session_end", "session_artifacts_ready"}, log : Logs,
                           named : BOOLEAN, by : {"user", "none"}]
      <4>1. User(l) \in {"user", "none"}
        BY DEF User, CreatorIn
      <4>2. posts \subseteq [event : {"session_start", "session_end", "session_artifacts_ready"}, log : Logs,
                            named : BOOLEAN, by : {"user", "none"}]
        BY DEF ReportsInv, ReportsTypeOK
      <4>3. [event |-> "session_end", log |-> l, named |-> FALSE, by |-> User(l)]
              \in [event : {"session_start", "session_end", "session_artifacts_ready"}, log : Logs,
                   named : BOOLEAN, by : {"user", "none"}]
        BY <1>2, <4>1
      <4> QED BY <2>4, <4>2, <4>3 DEF EmitEnd, Emit
    <3>3. ReportsTypeOK'
      BY <1>2, <2>4, <3>1, <3>2, SMTT(30) DEF EmitEnd, ReportsInv, ReportsTypeOK
    <3>4. PatchNamesCreator'
      BY <1>2, <2>4, <3>1 DEF EmitEnd, Pass, Emit, ReportsInv, PatchNamesCreator, User
    <3>5. ASSUME NEW q \in Logs PROVE NamesCreator(q)'
      BY <1>2, <2>4, <3>1, <3>5 DEF EmitEnd, Pass, Emit, ReportsInv, ReportsTypeOK, NamesCreator
    <3>6. ASSUME NEW e \in posts' PROVE Tells(e)'
      BY <1>2, <2>4, <3>1, <3>6 DEF EmitEnd, Pass, Emit, ReportsInv, ReportsTypeOK, NamesCreator, Tells, User, CreatorIn, HasCreator
    <3> QED BY <3>3, <3>4, <3>5, <3>6 DEF ReportsInv
  <2>5. ASSUME NEW p \in Pipes, ReadLog(l, p) PROVE ReportsInv'
    <3>1. /\ snapshot'[l][p] = artifacts[l] /\ at[l] = "open" /\ at' = at /\ artifacts' = artifacts /\ given' = given
          /\ \A q \in Logs, r \in Pipes : q # l \/ r # p => snapshot'[q][r] = snapshot[q][r] /\ pipe'[q][r] = pipe[q][r]
      BY <1>2, <2>5 DEF ReadLog, Pass, ReportsInv, ReportsTypeOK
    <3>2. ReportsTypeOK'
      BY <1>2, <2>5 DEF ReadLog, Pass, ReportsInv, ReportsTypeOK, User, CreatorIn
    <3>3. PatchNamesCreator'
      BY <1>2, <2>5 DEF ReadLog, Pass, ReportsInv, PatchNamesCreator, User
    <3>4. ASSUME NEW q \in Logs PROVE NamesCreator(q)'
      BY <1>2, <3>1, <3>4 DEF ReportsInv, NamesCreator
    <3>5. ASSUME NEW e \in posts' PROVE Tells(e)'
      BY <1>2, <2>5, <3>5 DEF ReadLog, Pass, ReportsInv, ReportsTypeOK, NamesCreator, Tells, User, CreatorIn, HasCreator
    <3> QED BY <3>2, <3>3, <3>4, <3>5 DEF ReportsInv
  <2>6. ASSUME NEW p \in Pipes, LoseArtifacts(l, p) PROVE ReportsInv'
    <3> PICK from \in {"consuming", "ended", "saving"} : Pass(l, p, from, "over")
      BY <2>6 DEF LoseArtifacts
    <3>1. /\ pipe' \in [Logs -> [Pipes -> {"off", "consuming", "talking", "ended", "saving", "written", "over"}]]
          /\ at[l] = "open" /\ \A q \in Logs : q # l => pipe'[q] = pipe[q]
      BY <1>2 DEF Pass, ReportsInv, ReportsTypeOK
    <3>2. \A r \in Pipes : pipe'[l][r] \in {"consuming", "saving"} => pipe'[l][r] = pipe[l][r]
      BY <1>2 DEF Pass, ReportsInv, ReportsTypeOK
    <3>3. ReportsTypeOK'
      BY <1>2, <2>6, <3>1 DEF LoseArtifacts, Pass, ReportsInv, ReportsTypeOK, User, CreatorIn
    <3>4. PatchNamesCreator'
      BY <1>2, <2>6, <3>1 DEF LoseArtifacts, Pass, ReportsInv, PatchNamesCreator, User
    <3>5. ASSUME NEW q \in Logs PROVE NamesCreator(q)'
      BY <1>2, <2>6, <3>1, <3>2, <3>5 DEF LoseArtifacts, ReportsInv, ReportsTypeOK, NamesCreator
    <3>6. ASSUME NEW e \in posts' PROVE Tells(e)'
      BY <1>2, <2>6, <3>1, <3>6 DEF LoseArtifacts, Pass, ReportsInv, ReportsTypeOK, NamesCreator, Tells, User, CreatorIn, HasCreator
    <3> QED BY <3>3, <3>4, <3>5, <3>6 DEF ReportsInv
  <2>7. ASSUME NEW p \in Pipes, WriteLog(l, p) PROVE ReportsInv'
    <3>1. /\ IsContent(artifacts'[l]) /\ (HasCreator(artifacts'[l]) <=> given[l].user)
          /\ DOMAIN artifacts' = Logs /\ \A q \in Logs : q # l => artifacts'[q] = artifacts[q]
      <4> DEFINE New(metadata, agent, spoken) ==
                   Join(Join(Metadata(metadata), Configuration(agent)),
                                  Join(If(given[l].people, Of("participant_data", Of("participants", TRUE))),
                                       Of("transcript", Of("messages", spoken))))
      <4>1. PICK metadata \in BOOLEAN, agent \in BOOLEAN, spoken \in BOOLEAN :
              artifacts' = [artifacts EXCEPT ![l] = MergeLists(snapshot[l][p], New(metadata, agent, spoken))]
        BY <2>7 DEF WriteLog
      <4>2. IsContent(New(metadata, agent, spoken))
        BY <1>2, PartsAreContent, JoinsAreContent
      <4>3. ~HasCreator(New(metadata, agent, spoken))
        BY <1>2, LaterNamesNobody
      <4> HIDE DEF New
      <4>4. IsContent(snapshot[l][p]) /\ (HasCreator(snapshot[l][p]) <=> given[l].user) /\ DOMAIN artifacts = Logs
        BY <1>2, <2>7 DEF WriteLog, Pass, ReportsInv, ReportsTypeOK, NamesCreator
      <4>5. artifacts'[l] = MergeLists(snapshot[l][p], New(metadata, agent, spoken))
        BY <1>2, <4>1, <4>4
      <4>6. IsContent(artifacts'[l])
        BY <4>2, <4>4, <4>5, MergesAreContent
      <4>7. HasCreator(artifacts'[l]) <=> given[l].user
        BY <4>3, <4>4, <4>5, MergeKeepsCreator
      <4> QED BY <1>2, <4>1, <4>4, <4>6, <4>7
    <3>2. UNCHANGED <<given, at, snapshot, posts, usageIds, records, patches>> /\ Pass(l, p, "saving", "written")
      BY <2>7 DEF WriteLog
    <3>3. ReportsTypeOK'
      BY <1>2, <2>7, <3>1, <3>2 DEF Pass, ReportsInv, ReportsTypeOK, User, CreatorIn
    <3>4. PatchNamesCreator'
      BY <1>2, <2>7, <3>1, <3>2 DEF Pass, ReportsInv, PatchNamesCreator, User
    <3>5. ASSUME NEW q \in Logs PROVE NamesCreator(q)'
      BY <1>2, <2>7, <3>1, <3>2, <3>5 DEF Pass, ReportsInv, ReportsTypeOK, NamesCreator
    <3>6. ASSUME NEW e \in posts' PROVE Tells(e)'
      BY <1>2, <2>7, <3>1, <3>2, <3>6 DEF Pass, ReportsInv, ReportsTypeOK, NamesCreator, Tells, User, CreatorIn, HasCreator
    <3> QED BY <3>3, <3>4, <3>5, <3>6 DEF ReportsInv
  <2>8. ASSUME NEW p \in Pipes, EmitReady(l, p) PROVE ReportsInv'
    <3>1. /\ pipe' \in [Logs -> [Pipes -> {"off", "consuming", "talking", "ended", "saving", "written", "over"}]]
          /\ at[l] = "open" /\ \A q \in Logs : q # l => pipe'[q] = pipe[q]
      BY <1>2, <2>8 DEF EmitReady, Pass, ReportsInv, ReportsTypeOK
    <3>2. posts' \subseteq [event : {"session_start", "session_end", "session_artifacts_ready"}, log : Logs,
                           named : BOOLEAN, by : {"user", "none"}]
      <4>1. CreatorIn(artifacts[l]) \in {"user", "none"}
        BY DEF User, CreatorIn
      <4>2. posts \subseteq [event : {"session_start", "session_end", "session_artifacts_ready"}, log : Logs,
                            named : BOOLEAN, by : {"user", "none"}]
        BY DEF ReportsInv, ReportsTypeOK
      <4>3. [event |-> "session_artifacts_ready", log |-> l, named |-> TRUE, by |-> CreatorIn(artifacts[l])]
              \in [event : {"session_start", "session_end", "session_artifacts_ready"}, log : Logs,
                   named : BOOLEAN, by : {"user", "none"}]
        BY <1>2, <4>1
      <4> QED BY <2>8, <4>2, <4>3 DEF EmitReady, Emit
    <3>3. ReportsTypeOK'
      BY <1>2, <2>8, <3>1, <3>2, SMTT(30) DEF EmitReady, ReportsInv, ReportsTypeOK
    <3>4. PatchNamesCreator'
      BY <1>2, <2>8, <3>1 DEF EmitReady, Pass, Emit, ReportsInv, PatchNamesCreator, User
    <3>5. ASSUME NEW q \in Logs PROVE NamesCreator(q)'
      BY <1>2, <2>8, <3>1, <3>5 DEF EmitReady, Pass, Emit, ReportsInv, ReportsTypeOK, NamesCreator
    <3>6. ASSUME NEW e \in posts' PROVE Tells(e)'
      BY <1>2, <2>8, <3>1, <3>6 DEF EmitReady, Pass, Emit, ReportsInv, ReportsTypeOK, NamesCreator, Tells, User, CreatorIn, HasCreator
    <3> QED BY <3>3, <3>4, <3>5, <3>6 DEF ReportsInv
  <2> QED BY <1>2, <2>1, <2>2, <2>3, <2>4, <2>5, <2>6, <2>7, <2>8, <2>9 DEF SessionStep
<1>3. ASSUME NEW e \in posts, Ingest(e) PROVE ReportsInv'
  <2>1. /\ e.log \in Logs /\ (e.event = "session_artifacts_ready" => e.by = User(e.log)) /\ e.by \in {"user", "none"}
        /\ UNCHANGED <<given, at, pipe, snapshot, artifacts>> /\ posts' = posts \ {e}
    BY <1>3 DEF Ingest, ReportsInv, ReportsTypeOK, Tells
  <2>2. ReportsTypeOK'
    <3>1. /\ records \in [Logs -> {"none", "in_progress", "succeeded"}] /\ usageIds \subseteq Logs
          /\ patches \in [Logs -> {"unsent", "none", "user"}]
      BY DEF ReportsInv, ReportsTypeOK
    <3>2. /\ records' \in [Logs -> {"none", "in_progress", "succeeded"}] /\ usageIds' \subseteq Logs
          /\ patches' \in [Logs -> {"unsent", "none", "user"}]
      <4>1. CASE IngestNothing(e)
        BY <3>1, <4>1 DEF IngestNothing
      <4>2. CASE IngestStart(e)
        BY <2>1, <3>1, <4>2 DEF IngestStart
      <4>3. CASE IngestReady(e)
        <5>1. patches' = patches \/ patches' = [patches EXCEPT ![e.log] = e.by]
          BY <4>3 DEF IngestReady
        <5>2. records' = records \/ records' = [records EXCEPT ![e.log] = IF @ = "none" THEN @ ELSE "succeeded"]
          BY <4>3 DEF IngestReady
        <5> QED BY <2>1, <3>1, <4>3, <5>1, <5>2 DEF IngestReady
      <4> QED BY <1>3, <4>1, <4>2, <4>3 DEF Ingest
    <3> QED BY <2>1, <3>2 DEF ReportsInv, ReportsTypeOK
  <2>3. PatchNamesCreator'
    BY <1>3, <2>1 DEF Ingest, IngestNothing, IngestStart, IngestReady, ReportsInv, ReportsTypeOK, PatchNamesCreator, User
  <2>4. \A l \in Logs : NamesCreator(l)'
    BY <2>1 DEF ReportsInv, NamesCreator
  <2>5. \A d \in posts' : Tells(d)'
    BY <2>1 DEF ReportsInv, Tells, User
  <2> QED BY <2>2, <2>3, <2>4, <2>5 DEF ReportsInv
<1> QED BY <1>1, <1>2, <1>3 DEF ReportsNext

LEMMA ReportsInvariant == SessionReportsSpec => []ReportsInv
<1> QED BY ReportsStart, ReportsSteps, PTL DEF SessionReportsSpec

\* Every save leaves in a log what a log can hold, and every event is well formed.
THEOREM ReportsTypeCorrect == SessionReportsSpec => []ReportsTypeOK
<1>1. ReportsInv => ReportsTypeOK
  BY DEF ReportsInv
<1> QED BY <1>1, ReportsInvariant, PTL

\* However many connections a session has and however their saves overlap, a PATCH names
\* the user who created it.
THEOREM PatchesNameCreator == SessionReportsSpec => []PatchNamesCreator
<1>1. ReportsInv => PatchNamesCreator
  BY DEF ReportsInv
<1> QED BY <1>1, ReportsInvariant, PTL

\* No save that has read what is there loses an artifact that means something.
THEOREM NoArtifactsLost == SessionReportsSpec => NoArtifactIsLost
<1> DEFINE Current(l) == \A p \in Pipes : Writes(pipe[l][p], pipe'[l][p]) => snapshot[l][p] = artifacts[l]
           Stays(l) == \A t \in DOMAIN artifacts[l] :
                         HasContent(artifacts[l][t]) => t \in DOMAIN artifacts'[l] /\ HasContent(artifacts'[l][t])
<1>1. ASSUME ReportsInv, ReportsNext, NEW l \in Logs, Current(l) PROVE Stays(l)
  <2>1. CASE artifacts'[l] = artifacts[l]
    BY <2>1
  <2>2. ASSUME NEW new, artifacts'[l] = MergeLists(artifacts[l], new) PROVE Stays(l)
    BY <2>2, MergeKeepsContent
  <2>3. DOMAIN artifacts = Logs
    BY <1>1 DEF ReportsInv, ReportsTypeOK
  <2>4. ASSUME NEW k \in Logs, SessionStep(k) PROVE Stays(l)
    <3>1. CASE FirstSave(k)
      BY <2>1, <2>2, <2>3, <3>1 DEF FirstSave, Save
    <3>2. CASE EmitStart(k)
      BY <2>1, <3>2 DEF EmitStart
    <3>3. ASSUME NEW p \in Pipes, SaveConfig(k, p) PROVE Stays(l)
      <4>1. CASE k # l
        BY <2>1, <2>3, <3>3, <4>1 DEF SaveConfig
      <4>2. CASE k = l
        <5>1. Writes(pipe[l][p], pipe'[l][p])
          BY <1>1, <3>3, <4>2 DEF SaveConfig, Pass, ReportsInv, ReportsTypeOK, Writes
        <5>2. snapshot[l][p] = artifacts[l]
          BY <1>1, <5>1
        <5>3. artifacts'[l] = MergeLists(artifacts[l], Configuration(TRUE))
          BY <2>3, <3>3, <4>2, <5>2 DEF SaveConfig
        <5> QED BY <2>2, <5>3
      <4> QED BY <4>1, <4>2
    <3>4. ASSUME NEW p \in Pipes, Consume(k, p) \/ EmitEnd(k, p) \/ ReadLog(k, p) \/ LoseArtifacts(k, p) \/ EmitReady(k, p) PROVE Stays(l)
      BY <2>1, <3>4 DEF Consume, EmitEnd, ReadLog, LoseArtifacts, EmitReady
    <3>5. ASSUME NEW p \in Pipes, WriteLog(k, p) PROVE Stays(l)
      <4>1. CASE k # l
        BY <2>1, <2>3, <3>5, <4>1 DEF WriteLog
      <4>2. CASE k = l
        <5>1. Writes(pipe[l][p], pipe'[l][p])
          BY <1>1, <3>5, <4>2 DEF WriteLog, Pass, ReportsInv, ReportsTypeOK, Writes
        <5>2. snapshot[l][p] = artifacts[l]
          BY <1>1, <5>1
        <5>3. PICK new : artifacts' = [artifacts EXCEPT ![k] = MergeLists(snapshot[k][p], new)]
          BY <3>5 DEF WriteLog
        <5>4. artifacts'[l] = MergeLists(artifacts[l], new)
          BY <2>3, <4>2, <5>2, <5>3
        <5> QED BY <2>2, <5>4
      <4> QED BY <4>1, <4>2
    <3> QED BY <2>4, <3>1, <3>2, <3>3, <3>4, <3>5 DEF SessionStep
  <2>5. ASSUME NEW e \in posts, Ingest(e) PROVE Stays(l)
    BY <2>1, <2>5 DEF Ingest
  <2> QED BY <1>1, <2>4, <2>5 DEF ReportsNext
<1>2. ReportsInv /\ [ReportsNext]_reportVars => [\A l \in Logs : Current(l) => Stays(l)]_artifacts
  BY <1>1 DEF reportVars
<1> QED BY <1>2, ReportsInvariant, PTL DEF SessionReportsSpec, NoArtifactIsLost

-----------------------------------------------------------------------------
(* AdvisorTools.  A request that enables an advisor appends one entry for it, *)
(* several calls after it has read that there is none.  In between nothing    *)
(* but another's enabling can add one, and the list that is written back was  *)
(* itself read when no entry led to the advisor.  The inductive invariant     *)
(* follows that knowledge from call to call.                                  *)

\* Enabled, of the entries s over the tools dd.
Leads(dd, s, a) ==
  {i \in DOMAIN s : s[i].on /\ s[i].doc \in DOMAIN dd /\ dd[s[i].doc].there /\ dd[s[i].doc].advisor = a}

AtMostOne(S) == \A i, j \in S : i = j
Once(dd, s) == \A a \in Advisors : AtMostOne(Leads(dd, s, a))

Enables == job.ask = "enable"

\* What has been read or is about to be created.
KnownOrAhead ==
  Enables /\ step = "entries" =>
    \A i \in Leads(docs, entries, job.advisor) :
      job.advisor \in known \/ \E k \in DOMAIN view : view[k].on /\ view[k].doc = entries[i].doc

NotYetEnabled ==
  Enables /\ step \in {"tools", "credential", "name", "insert", "patch"} => Leads(docs, entries, job.advisor) = {}

ItsOwnTool ==
  Enables /\ step \in {"patch", "write"} => docs[doc].advisor = job.advisor

ViewMayBeWritten ==
  step = "write" => Once(docs, view) /\ (Enables => Leads(docs, view, job.advisor) = {})

CalmInv ==
  Once(docs, entries) /\ KnownOrAhead /\ NotYetEnabled /\ ItsOwnTool /\ ViewMayBeWritten

\* Which request makes which call.
AskTyped ==
  /\ step # "idle" => job.advisor \in Advisors
  /\ Enables => job.name \in Names
  /\ step \in {"agent", "entries"} => job.ask \in {"enable", "disable", "list"}
  /\ step \in {"tools", "credential", "name", "insert"} => Enables

AdvisorInv == AdvisorTypeOK /\ AskTyped /\ (calm => CalmInv)

Tool == [name : Names, advisor : Advisors, there : BOOLEAN]
Entry(dd) == [doc : DOMAIN dd, on : BOOLEAN]

AdvisorTyped == AdvisorTypeOK /\ AskTyped

\* The order of the sets {k \in T : k <= i} is founded, so the smallest of them has one
\* element; induction on numbers takes a predicate, which the provers cannot be given.
LEMMA SmallestIsThere ==
  ASSUME NEW n \in Nat, NEW T, T \subseteq 1 .. n, T # {}
  PROVE  Min(T) \in T
<1> DEFINE UpTo(i) == {k \in T : k <= i}
           all == {UpTo(i) : i \in T}
<1>1. \A i \in T : UpTo(i) \in SUBSET (1 .. n)
  OBVIOUS
<1>2. \A i \in T : IsFiniteSet(UpTo(i))
  BY <1>1, FS_Interval, FS_Subset
<1>3. all \subseteq FiniteSubsetsOf(Nat) /\ all # {}
  <2>1. \A i \in T : UpTo(i) \in SUBSET Nat
    BY <1>1
  <2> HIDE DEF UpTo
  <2>. QED
    BY <1>2, <2>1 DEF FiniteSubsetsOf
<1>4. PICK m \in T : \A i \in T : ~(<<UpTo(i), UpTo(m)>> \in StrictSubsetOrdering(Nat))
  <2> HIDE DEF all
  <2>1. PICK x \in all : \A y \in all : ~(<<y, x>> \in StrictSubsetOrdering(Nat))
    BY <1>3, FS_StrictSubsetOrderingWellFounded, WFMin
  <2>. QED
    BY <2>1 DEF all
<1>5. \A i \in T : m <= i
  <2>. SUFFICES ASSUME NEW i \in T, ~(m <= i) PROVE FALSE
    OBVIOUS
  <2>1. UpTo(i) \subseteq UpTo(m) /\ m \in UpTo(m) /\ m \notin UpTo(i)
    <3>1. i \in Int /\ m \in Int /\ i < m
      OBVIOUS
    <3>2. \A k \in T : k \in Int /\ (k <= i => k <= m)
      BY <3>1
    <3>3. ~(m <= i) /\ m <= m
      BY <3>1
    <3>. QED
      BY <3>2, <3>3, Zenon
  <2>2. <<UpTo(i), UpTo(m)>> \in (SUBSET Nat) \X (SUBSET Nat)
    BY <1>1
  <2>. QED
    BY <1>4, <2>1, <2>2 DEF StrictSubsetOrdering
<1>. QED
  BY <1>5 DEF Min

\* Switch sets one entry and leaves the others.
SetsOne(s, t, d, on_) ==
  \E m \in DOMAIN t :
    /\ t[m] = [doc |-> d, on |-> on_]
    /\ \A i \in DOMAIN t \ {m} : i \in DOMAIN s /\ t[i] = s[i]

LEMMA SwitchSetsOne ==
  ASSUME NEW D, NEW s \in Seq([doc : D, on : BOOLEAN]), NEW d \in D, NEW on_ \in BOOLEAN
  PROVE  /\ Switch(s, d, on_) \in Seq([doc : D, on : BOOLEAN])
         /\ SetsOne(s, Switch(s, d, on_), d, on_)
<1> DEFINE t == Switch(s, d, on_)
           those == {i \in DOMAIN s : s[i].doc = d}
           new == [doc |-> d, on |-> on_]
<1>1. /\ DOMAIN s = 1 .. Len(s) /\ Len(s) \in Nat
      /\ \A i \in DOMAIN s : s[i] \in [doc : D, on : BOOLEAN]
      /\ new \in [doc : D, on : BOOLEAN]
  BY LenProperties, ElementOfSeq
<1>2. CASE those = {}
  <2>1. t = Append(s, new)
    BY <1>2 DEF Switch
  <2>2. /\ t \in Seq([doc : D, on : BOOLEAN]) /\ Len(t) = Len(s) + 1
        /\ \A i \in 1 .. Len(s) : t[i] = s[i]
        /\ t[Len(s) + 1] = new
    BY <1>1, <2>1, AppendProperties
  <2> HIDE DEF t, new
  <2>3. DOMAIN t = 1 .. Len(s) + 1
    BY <2>2, LenProperties
  <2>4. Len(s) + 1 \in DOMAIN t /\ \A i \in DOMAIN t \ {Len(s) + 1} : i \in DOMAIN s /\ t[i] = s[i]
    BY <1>1, <2>2, <2>3
  <2>. QED
    BY <2>2, <2>4 DEF SetsOne, t, new
<1>3. CASE those # {}
  <2>1. Min(those) \in those
    <3>1. those \subseteq 1 .. Len(s)
      BY <1>1
    <3> HIDE DEF those
    <3>. QED
      BY <1>1, <1>3, <3>1, SmallestIsThere
  <2>2. t = [s EXCEPT ![Min(those)].on = on_]
    BY <1>3 DEF Switch
  <2>3. s[Min(those)] \in [doc : D, on : BOOLEAN] /\ s[Min(those)].doc = d /\ Min(those) \in DOMAIN s
    BY <1>1, <2>1
  <2> HIDE DEF those
  <2>4. t = [s EXCEPT ![Min(those)] = new]
    BY <2>2, <2>3
  <2>5. /\ t \in Seq([doc : D, on : BOOLEAN]) /\ Len(t) = Len(s)
        /\ \A i \in 1 .. Len(s) : t[i] = IF i = Min(those) THEN new ELSE s[i]
    BY <1>1, <2>3, <2>4, ExceptSeq
  <2> HIDE DEF t, new
  <2>6. DOMAIN t = DOMAIN s
    BY <1>1, <2>5, LenProperties
  <2>. QED
    BY <1>1, <2>3, <2>5, <2>6 DEF SetsOne, t, new
<1>. QED
  BY <1>2, <1>3

\* t has no entry that is on but those of s, each as often.
Thins(s, t) ==
  \E h \in [DOMAIN t -> Nat] :
    /\ \A i \in DOMAIN t : t[i].on => h[i] \in DOMAIN s /\ s[h[i]] = t[i]
    /\ \A i, j \in DOMAIN t : h[i] = h[j] => i = j

LEMMA SwitchOffThins ==
  ASSUME NEW D, NEW s \in Seq([doc : D, on : BOOLEAN]), NEW d \in D,
         NEW on_ \in BOOLEAN, ~on_
  PROVE  Thins(s, Switch(s, d, on_))
<1> DEFINE t == Switch(s, d, on_)
<1>1. t \in Seq([doc : D, on : BOOLEAN])
  BY SwitchSetsOne
<1> HIDE DEF t
<1>2. PICK m \in DOMAIN t :
        t[m] = [doc |-> d, on |-> on_] /\ \A i \in DOMAIN t \ {m} : i \in DOMAIN s /\ t[i] = s[i]
  <2>1. SetsOne(s, t, d, on_)
    BY SwitchSetsOne DEF t
  <2>. QED
    BY <2>1 DEF SetsOne
<1>3. DOMAIN t \subseteq Nat
  BY <1>1, LenProperties
<1> DEFINE h == [i \in DOMAIN t |-> i]
<1>4. h \in [DOMAIN t -> Nat] /\ \A i \in DOMAIN t : h[i] = i
  BY <1>3
<1>5. \A i \in DOMAIN t : t[i].on => i \in DOMAIN s /\ s[i] = t[i]
  BY <1>2
<1> HIDE DEF h
<1>6. Thins(s, t)
  BY <1>4, <1>5 DEF Thins
<1>. QED
  BY <1>6 DEF t

LEMMA RemoveThins ==
  ASSUME NEW S, NEW s \in Seq(S), NEW k \in DOMAIN s
  PROVE  RemoveAt(s, k) \in Seq(S) /\ Thins(s, RemoveAt(s, k))
<1> DEFINE b == SubSeq(s, 1, k - 1)
           e == SubSeq(s, k + 1, Len(s))
           t == RemoveAt(s, k)
<1>1. Len(s) \in Nat /\ k \in 1 .. Len(s) /\ DOMAIN s = 1 .. Len(s)
  BY LenProperties
<1>2. \A i \in 1 .. Len(s) : s[i] \in S
  BY ElementOfSeq
<1>3. b \in Seq(S) /\ Len(b) = k - 1 /\ \A i \in 1 .. k - 1 : b[i] = s[i]
  <2>1. 1 \in Int /\ k - 1 \in Int /\ (k - 1) - 1 + 1 = k - 1 /\ \A i \in 1 .. k - 1 : s[i] \in S
    BY <1>1, <1>2
  <2>2. /\ b \in Seq(S) /\ Len(b) = IF 1 <= k - 1 THEN (k - 1) - 1 + 1 ELSE 0
        /\ \A i \in 1 .. (k - 1) - 1 + 1 : b[i] = s[1 + i - 1]
    BY <2>1, SubSeqProperties
  <2>. QED
    BY <1>1, <2>1, <2>2
<1>4. e \in Seq(S) /\ Len(e) = Len(s) - k /\ \A i \in 1 .. Len(s) - k : e[i] = s[k + i]
  <2>1. k + 1 \in Int /\ Len(s) \in Int /\ Len(s) - (k + 1) + 1 = Len(s) - k /\ \A i \in k + 1 .. Len(s) : s[i] \in S
    BY <1>1, <1>2
  <2>2. /\ e \in Seq(S) /\ Len(e) = IF k + 1 <= Len(s) THEN Len(s) - (k + 1) + 1 ELSE 0
        /\ \A i \in 1 .. Len(s) - (k + 1) + 1 : e[i] = s[k + 1 + i - 1]
    BY <2>1, SubSeqProperties
  <2>. QED
    BY <1>1, <2>1, <2>2
<1>5. t = b \o e
  BY DEF RemoveAt
<1> HIDE DEF b, e, t
<1>6. /\ t \in Seq(S) /\ Len(t) = Len(s) - 1
      /\ \A i \in 1 .. Len(s) - 1 : t[i] = IF i <= k - 1 THEN b[i] ELSE e[i - (k - 1)]
  <2>1. Len(b) + Len(e) = Len(s) - 1
    BY <1>1, <1>3, <1>4
  <2>2. /\ b \o e \in Seq(S) /\ Len(b \o e) = Len(b) + Len(e)
        /\ \A i \in 1 .. Len(b) + Len(e) : (b \o e)[i] = IF i <= Len(b) THEN b[i] ELSE e[i - Len(b)]
    BY <1>3, <1>4, ConcatProperties
  <2>. QED
    BY <1>3, <1>5, <2>1, <2>2
<1>7. DOMAIN t = 1 .. Len(s) - 1
  BY <1>6, LenProperties
<1> DEFINE h == [i \in DOMAIN t |-> IF i <= k - 1 THEN i ELSE i + 1]
<1>8. /\ h \in [DOMAIN t -> Nat] /\ \A i, j \in DOMAIN t : h[i] = h[j] => i = j
  BY <1>1, <1>7
<1>9. ASSUME NEW i \in DOMAIN t PROVE h[i] \in DOMAIN s /\ s[h[i]] = t[i]
  <2>1. CASE i <= k - 1
    BY <1>1, <1>3, <1>6, <1>7, <2>1
  <2>2. CASE ~(i <= k - 1)
    <3>1. i - (k - 1) \in 1 .. Len(s) - k /\ k + (i - (k - 1)) = i + 1
      BY <1>1, <1>7, <2>2
    <3>2. t[i] = s[i + 1]
      BY <1>4, <1>6, <1>7, <2>2, <3>1
    <3>. QED
      BY <1>1, <1>7, <2>2, <3>2
  <2>. QED
    BY <2>1, <2>2
<1> HIDE DEF h
<1>10. Thins(s, t)
  BY <1>8, <1>9 DEF Thins
<1>. QED
  BY <1>6, <1>10 DEF t

\* What is thinned leads to no advisor twice, and nowhere it did not lead before.
LEMMA ThinnedLeads ==
  ASSUME NEW dd, NEW s, NEW t, Thins(s, t), NEW a
  PROVE  /\ AtMostOne(Leads(dd, s, a)) => AtMostOne(Leads(dd, t, a))
         /\ \A i \in Leads(dd, t, a) : \E j \in Leads(dd, s, a) : s[j] = t[i]
<1>1. PICK h \in [DOMAIN t -> Nat] :
        /\ \A i \in DOMAIN t : t[i].on => h[i] \in DOMAIN s /\ s[h[i]] = t[i]
        /\ \A i, j \in DOMAIN t : h[i] = h[j] => i = j
  BY DEF Thins
<1>2. \A i \in Leads(dd, t, a) : i \in DOMAIN t /\ h[i] \in Leads(dd, s, a) /\ s[h[i]] = t[i]
  BY <1>1 DEF Leads
<1>. QED
  BY <1>1, <1>2 DEF AtMostOne

\* The tools that are deleted or created lead nowhere new.
Follows(dd, ee) ==
  /\ DOMAIN dd \subseteq DOMAIN ee
  /\ \A d \in DOMAIN dd : ee[d].advisor = dd[d].advisor /\ (ee[d].there => dd[d].there)

LEMMA FollowingLeads ==
  ASSUME NEW dd, NEW ee, Follows(dd, ee), NEW s \in Seq(Entry(dd)), NEW a
  PROVE  Leads(ee, s, a) \subseteq Leads(dd, s, a)
<1>1. \A i \in DOMAIN s : s[i] \in Entry(dd)
  BY LenProperties, ElementOfSeq
<1>2. \A i \in DOMAIN s : s[i].doc \in DOMAIN dd
  BY <1>1 DEF Entry
<1>. QED
  BY <1>2 DEF Leads, Follows

LEMMA EntriesOfMore ==
  ASSUME NEW dd, NEW ee, DOMAIN dd \subseteq DOMAIN ee, NEW s \in Seq(Entry(dd))
  PROVE  s \in Seq(Entry(ee))
<1>1. Entry(dd) \subseteq Entry(ee)
  BY DEF Entry
<1>. QED
  BY <1>1, SeqMonotonic

LEMMA AdvisorTypesStart == AdvisorInit => AdvisorTyped
<1>. SUFFICES ASSUME AdvisorInit PROVE AdvisorTyped
  OBVIOUS
<1>. USE MaxRequestsAssumption, MaxEditsAssumption DEF AdvisorInit, AdvisorTyped, AdvisorTypeOK, AskTyped, Enables, NoAdvisor
<1>1. 0 \in 0 .. MaxRequests /\ 0 \in 0 .. MaxEdits
  OBVIOUS
<1>4. /\ docs \in Seq([name : Names, advisor : Advisors, there : BOOLEAN])
      /\ entries \in Seq([doc : DOMAIN docs, on : BOOLEAN])
  <2>1. CASE docs = <<>> /\ entries = <<>>
    BY <2>1
  <2>2. ASSUME NEW n \in Names, NEW a \in Advisors,
               docs = <<[name |-> n, advisor |-> a, there |-> TRUE]>>, entries = <<[doc |-> 1, on |-> TRUE]>>
        PROVE  /\ docs \in Seq([name : Names, advisor : Advisors, there : BOOLEAN])
               /\ entries \in Seq([doc : DOMAIN docs, on : BOOLEAN])
    BY <2>2
  <2>3. \/ docs = <<>> /\ entries = <<>>
        \/ /\ \E n \in Names, a \in Advisors : docs = <<[name |-> n, advisor |-> a, there |-> TRUE]>>
           /\ entries = <<[doc |-> 1, on |-> TRUE]>>
    BY DEF AdvisorInit
  <2>. QED
    BY <2>1, <2>2, <2>3
<1>2. AdvisorTypeOK
  BY <1>1, <1>4
<1>3. AskTyped
  OBVIOUS
<1>. QED
  BY <1>2, <1>3


LEMMA ToolsAreTools ==
  ASSUME docs \in Seq([name : Names, advisor : Advisors, there : BOOLEAN]), NEW d \in DOMAIN docs
  PROVE  docs[d] \in Tool /\ docs[d].advisor \in Advisors
<1>1. docs \in Seq(Tool)
  BY DEF Tool
<1>2. docs[d] \in Tool
  BY <1>1, LenProperties, ElementOfSeq
<1>. QED
  BY <1>2 DEF Tool

LEMMA InsertsOrNot ==
  ASSUME InsertTool
  PROVE  \/ Deny /\ UNCHANGED <<docs, doc>>
         \/ /\ docs' = Append(docs, [name |-> job.name, advisor |-> job.advisor, there |-> TRUE])
            /\ \/ step' = "patch" /\ doc' = Len(docs')
               \/ step' = "idle" /\ doc' = doc
BY DEF InsertTool, Deny, Reply, Continue

LEMMA AdvisorTypesStep == AdvisorTyped /\ [AdvisorNext]_advisorVars => AdvisorTyped'
<1>. SUFFICES ASSUME AdvisorTyped, [AdvisorNext]_advisorVars PROVE AdvisorTyped'
  OBVIOUS
<1>. USE DEF AdvisorTyped, AdvisorTypeOK, AskTyped, Enables, agentVars, Reply, Continue, Deny
<1>1. CASE Ask
  <2>1. served' \in 0 .. MaxRequests
    BY <1>1, MaxRequestsAssumption DEF Ask
  <2>2. PICK a \in Advisors :
          \/ \E n \in Names : job' = [ask |-> "enable", advisor |-> a, name |-> n]
          \/ \E q \in {"disable", "list", "agents"} : job' = [ask |-> q, advisor |-> a, name |-> "none"]
    BY <1>1 DEF Ask
  <2>3. /\ job' \in [ask : {"none", "enable", "disable", "list", "agents"}, advisor : Advisors \cup {NoAdvisor},
                     name : Names \cup {"none"}]
        /\ job'.advisor \in Advisors /\ (job'.ask = "enable" => job'.name \in Names)
        /\ job'.ask # "none"
    BY <2>2
  <2>4. /\ step' = (IF job'.ask = "agents" THEN "page" ELSE "agent") /\ view' = <<>> /\ known' = {} /\ doc' = 0
        /\ page' = 0 /\ found' = {} /\ UNCHANGED <<docs, credential, entries, calm, edits>>
    BY <1>1 DEF Ask
  <2>5. <<>> \in Seq([doc : DOMAIN docs, on : BOOLEAN])
    OBVIOUS
  <2>. QED
    BY <2>1, <2>3, <2>4, <2>5
<1>2. CASE ReadAgent
  BY <1>2 DEF ReadAgent
<1>3. CASE PassOver
  <2>1. Tail(view) \in Seq([doc : DOMAIN docs, on : BOOLEAN])
    BY <1>3, HeadTailProperties DEF PassOver
  <2>. QED
    BY <1>3, <2>1 DEF PassOver
<1>4. CASE ReadTool
  <2>1. /\ Tail(view) \in Seq([doc : DOMAIN docs, on : BOOLEAN])
        /\ Head(view) \in [doc : DOMAIN docs, on : BOOLEAN]
    BY <1>4, HeadTailProperties DEF ReadTool
  <2>2. \A d \in There : docs[d].advisor \in Advisors
    BY ToolsAreTools DEF There
  <2>3. PICK advisor \in Advisors \cup {NoAdvisor}, ok \in BOOLEAN :
          /\ calm' = (calm /\ ok)
          /\ \/ /\ step' \in {"patch", "idle"} /\ doc' = Head(view).doc /\ UNCHANGED <<view, known>>
                /\ job.ask = "disable"
             \/ /\ step' = "entries" /\ view' = Tail(view)
                /\ known' = known \cup ({advisor} \ {NoAdvisor}) /\ doc' = doc
    <3>1. PICK ok \in BOOLEAN :
            LET e == Head(view)
                advisor == IF ok /\ e.doc \in There THEN docs[e.doc].advisor ELSE NoAdvisor
            IN  /\ calm' = (calm /\ ok)
                /\ IF job.ask = "disable" /\ advisor = job.advisor
                   THEN /\ IF e.on THEN Continue("patch") ELSE Reply("already disabled")
                        /\ doc' = e.doc /\ UNCHANGED <<view, known>>
                   ELSE /\ Continue("entries")
                        /\ view' = Tail(view) /\ known' = known \cup ({advisor} \ {NoAdvisor}) /\ doc' = doc
      BY <1>4 DEF ReadTool
    <3> DEFINE advisor == IF ok /\ Head(view).doc \in There THEN docs[Head(view).doc].advisor ELSE NoAdvisor
    <3>2. advisor \in Advisors \cup {NoAdvisor}
      BY <2>2
    <3>. QED
      BY <3>1, <3>2
  <2>4. UNCHANGED <<docs, credential, entries, job, page, found, served, edits>> /\ step = "entries"
    BY <1>4 DEF ReadTool
  <2>5. calm' \in BOOLEAN
    BY <2>3
  <2>6. DOMAIN docs \subseteq Nat \ {0}
    BY LenProperties
  <2>. QED
    BY <2>1, <2>3, <2>4, <2>5, <2>6
<1>5. CASE Decide
  BY <1>5 DEF Decide
<1>6. CASE ListTools
  BY <1>6 DEF ListTools
<1>7. CASE Credential
  BY <1>7 DEF Credential
<1>8. CASE CheckName
  BY <1>8 DEF CheckName
<1>9. ASSUME DOMAIN docs \subseteq DOMAIN docs', docs' \in Seq(Tool), credential' = credential,
             entries' = entries, view' = view, step' = step, job' = job, known' = known, found' = found,
             page' = page, doc' = doc, served' = served, edits' \in 0 .. MaxEdits, calm' \in BOOLEAN
      PROVE  AdvisorTyped'
  <2>1. entries \in Seq(Entry(docs)) /\ view \in Seq(Entry(docs))
    BY DEF Entry
  <2>2. entries \in Seq(Entry(docs')) /\ view \in Seq(Entry(docs'))
    BY <1>9, <2>1, EntriesOfMore
  <2>. QED
    BY <1>9, <2>2 DEF Entry, Tool
<1>10. CASE InsertTool
  <2> DEFINE new == [name |-> job.name, advisor |-> job.advisor, there |-> TRUE]
  <2>1. step = "insert" /\ new \in Tool /\ docs \in Seq(Tool)
    BY <1>10 DEF InsertTool, Tool
  <2>2. CASE docs' = docs /\ doc' = doc /\ Deny
    BY <1>10, <2>2 DEF InsertTool
  <2>3. CASE docs' = Append(docs, new) /\ ((step' = "patch" /\ doc' = Len(docs')) \/ (step' = "idle" /\ doc' = doc))
    <3>1. docs' \in Seq(Tool) /\ DOMAIN docs = 1 .. Len(docs) /\ DOMAIN docs' = 1 .. Len(docs) + 1
          /\ Len(docs) \in Nat /\ Len(docs') = Len(docs) + 1
      BY <2>1, <2>3, AppendProperties, LenProperties
    <3>2. DOMAIN docs \subseteq DOMAIN docs' /\ Len(docs') \in DOMAIN docs' /\ Len(docs') # 0
      BY <3>1
    <3>3. entries \in Seq(Entry(docs)) /\ view \in Seq(Entry(docs))
      BY DEF Entry
    <3>4. entries \in Seq(Entry(docs')) /\ view \in Seq(Entry(docs'))
      BY <3>2, <3>3, EntriesOfMore
    <3>5. UNCHANGED <<credential, entries, job, view, known, page, found, calm, served, edits>>
      BY <1>10 DEF InsertTool
    <3> HIDE DEF new
    <3>. QED
      BY <2>1, <2>3, <3>1, <3>2, <3>4, <3>5 DEF Entry, Tool
  <2>4. \/ Deny /\ UNCHANGED <<docs, doc>>
        \/ docs' = Append(docs, new) /\ ((step' = "patch" /\ doc' = Len(docs')) \/ (step' = "idle" /\ doc' = doc))
    <3>. HIDE DEF Reply, Deny
    <3>. QED
      BY <1>10, InsertsOrNot
  <2> HIDE DEF new
  <2>. QED
    BY <2>2, <2>3, <2>4, Zenon
<1>11. CASE ReadAgain
  BY <1>11 DEF ReadAgain
<1>12. CASE WriteAgent
  <2>1. view \in Seq([doc : DOMAIN docs, on : BOOLEAN]) /\ doc \in DOMAIN docs
    BY <1>12 DEF WriteAgent
  <2>2. PICK on_ \in BOOLEAN : on_ = (job.ask = "enable")
    OBVIOUS
  <2>3. Switch(view, doc, on_) \in Seq([doc : DOMAIN docs, on : BOOLEAN])
    BY <2>1, SwitchSetsOne
  <2>4. entries' = entries \/ entries' = Switch(view, doc, on_)
    BY <1>12, <2>2 DEF WriteAgent
  <2>5. UNCHANGED <<docs, credential, job, view, known, doc, page, found, calm, served, edits>> /\ step' = "idle"
    BY <1>12 DEF WriteAgent
  <2>. QED
    BY <2>3, <2>4, <2>5
<1>13. CASE ReadPage
  <2>1. PageOfTools \subseteq DOMAIN docs
    BY DEF PageOfTools, There
  <2>2. found' \subseteq DOMAIN docs /\ page' \in Nat /\ step' \in {"idle", "page", "agents"}
    <3>1. CASE Deny /\ UNCHANGED <<page, found>>
      BY <3>1
    <3>2. ASSUME NEW unread \in SUBSET PageOfTools, NEW last \in BOOLEAN,
                 found' = found \cup {d \in PageOfTools \ unread : docs[d].advisor = job.advisor},
                 page' = page + 1,
                 IF ~last THEN Continue("page")
                 ELSE IF found' = {} THEN Reply("no agents") ELSE Continue("agents")
          PROVE  found' \subseteq DOMAIN docs /\ page' \in Nat /\ step' \in {"idle", "page", "agents"}
      <4>1. found' \subseteq DOMAIN docs
        BY <2>1, <3>2
      <4>2. page' \in Nat
        <5>1. page \in Nat
          OBVIOUS
        <5>2. page' = page + 1
          BY <3>2
        <5>. QED
          BY ONLY <5>1, <5>2
      <4>3. step' = "page" \/ step' = "idle" \/ step' = "agents"
        BY <3>2, Zenon
      <4>. QED
        BY <4>1, <4>2, <4>3
    <3>. QED
      BY <1>13, <3>1, <3>2 DEF ReadPage
  <2>3. UNCHANGED <<docs, credential, entries, job, view, known, doc, calm, served, edits>> /\ step = "page"
    BY <1>13 DEF ReadPage
  <2>. QED
    BY <2>2, <2>3
<1>14. CASE ListAgents
  BY <1>14 DEF ListAgents
<1>15. ASSUME Other PROVE /\ edits' \in 0 .. MaxEdits
                          /\ UNCHANGED <<job, step, view, known, doc, page, found, reply, served>>
  BY <1>15, MaxEditsAssumption DEF Other, requestVars
<1>16. CASE EditAgent
  <2>1. edits' \in 0 .. MaxEdits /\ UNCHANGED <<job, step, view, known, doc, page, found, reply, served>>
    BY <1>15, <1>16 DEF EditAgent
  <2>2. docs' = docs /\ credential' = credential
    BY <1>16 DEF EditAgent
  <2>3. There \subseteq DOMAIN docs
    BY DEF There
  <2>4. entries' \in Seq([doc : DOMAIN docs, on : BOOLEAN]) /\ calm' \in BOOLEAN
    <3>1. ASSUME NEW d \in There, NEW on_ \in BOOLEAN
          PROVE  Switch(entries, d, on_) \in Seq([doc : DOMAIN docs, on : BOOLEAN])
      BY <2>3, SwitchSetsOne
    <3>2. ASSUME NEW i \in DOMAIN entries
          PROVE  RemoveAt(entries, i) \in Seq([doc : DOMAIN docs, on : BOOLEAN])
      BY RemoveThins
    <3>. QED
      BY <1>16, <3>1, <3>2 DEF EditAgent
  <2>. QED
    BY <2>1, <2>2, <2>4
<1>17. CASE CreateTool
  <2>1. edits' \in 0 .. MaxEdits /\ UNCHANGED <<job, step, view, known, doc, page, found, reply, served>>
    BY <1>15, <1>17 DEF CreateTool
  <2>2. PICK n \in Names, a \in Advisors : docs' = Append(docs, [name |-> n, advisor |-> a, there |-> TRUE])
    BY <1>17 DEF CreateTool
  <2>3. docs \in Seq(Tool) /\ [name |-> n, advisor |-> a, there |-> TRUE] \in Tool
    BY DEF Tool
  <2>4. docs' \in Seq(Tool) /\ Len(docs') = Len(docs) + 1 /\ Len(docs) \in Nat
    BY <2>2, <2>3, AppendProperties, LenProperties
  <2>5. DOMAIN docs \subseteq DOMAIN docs'
    BY <2>3, <2>4, LenProperties
  <2>6. UNCHANGED <<credential, entries, calm>>
    BY <1>17 DEF CreateTool
  <2>. QED
    BY <1>9, <2>1, <2>4, <2>5, <2>6
<1>18. ASSUME NEW d \in There, NEW t \in Tool, docs' = [docs EXCEPT ![d] = t]
       PROVE  docs' \in Seq(Tool) /\ DOMAIN docs' = DOMAIN docs
  <2>1. docs \in Seq(Tool) /\ d \in DOMAIN docs
    BY DEF Tool, There
  <2>2. d \in 1 .. Len(docs)
    BY <2>1, LenProperties
  <2>. QED
    BY <1>18, <2>1, <2>2, ExceptSeq, LenProperties
<1>19. \A d \in There : docs[d] \in Tool
  BY ToolsAreTools DEF There
<1>20. CASE UpdateTool
  <2>1. edits' \in 0 .. MaxEdits /\ UNCHANGED <<job, step, view, known, doc, page, found, reply, served>>
    BY <1>15, <1>20 DEF UpdateTool
  <2>2. calm' \in BOOLEAN /\ UNCHANGED <<credential, entries>>
    BY <1>20 DEF UpdateTool
  <2>3. PICK d \in There : \/ \E n \in Names : docs' = [docs EXCEPT ![d].name = n]
                           \/ \E a \in Advisors : docs' = [docs EXCEPT ![d].advisor = a]
    BY <1>20 DEF UpdateTool
  <2>4. docs' \in Seq(Tool) /\ DOMAIN docs' = DOMAIN docs
    <3>1. docs[d] \in Tool
      BY <1>19
    <3>2. \A n \in Names : [docs[d] EXCEPT !.name = n] \in Tool
      BY <3>1 DEF Tool
    <3>3. \A a \in Advisors : [docs[d] EXCEPT !.advisor = a] \in Tool
      BY <3>1 DEF Tool
    <3>4. \/ \E n \in Names : docs' = [docs EXCEPT ![d] = [docs[d] EXCEPT !.name = n]]
          \/ \E a \in Advisors : docs' = [docs EXCEPT ![d] = [docs[d] EXCEPT !.advisor = a]]
      BY <2>3
    <3>. QED
      BY <1>18, <3>2, <3>3, <3>4
  <2>. QED
    BY <1>9, <2>1, <2>2, <2>4
<1>21. CASE DeleteTool
  <2>1. edits' \in 0 .. MaxEdits /\ UNCHANGED <<job, step, view, known, doc, page, found, reply, served>>
    BY <1>15, <1>21 DEF DeleteTool
  <2>2. PICK d \in There : docs' = [docs EXCEPT ![d].there = FALSE]
    BY <1>21 DEF DeleteTool
  <2>3. docs' \in Seq(Tool) /\ DOMAIN docs' = DOMAIN docs
    <3>1. [docs[d] EXCEPT !.there = FALSE] \in Tool
      BY <1>19 DEF Tool
    <3>2. docs' = [docs EXCEPT ![d] = [docs[d] EXCEPT !.there = FALSE]]
      BY <2>2
    <3>. QED
      BY <1>18, <3>1, <3>2
  <2>. QED
    BY <1>9, <1>21, <2>1, <2>3 DEF DeleteTool
<1>22. CASE SwitchCredential
  <2>1. edits' \in 0 .. MaxEdits /\ UNCHANGED <<job, step, view, known, doc, page, found, reply, served>>
    BY <1>15, <1>22 DEF SwitchCredential
  <2>. QED
    BY <1>22, <2>1 DEF SwitchCredential
<1>23. CASE UNCHANGED advisorVars
  BY <1>23 DEF advisorVars
<1>. QED
  BY <1>1, <1>2, <1>3, <1>4, <1>5, <1>6, <1>7, <1>8, <1>10, <1>11, <1>12, <1>13, <1>14, <1>16, <1>17, <1>20, <1>21,
     <1>22, <1>23 DEF AdvisorNext, RequestStep, OtherStep

\* Tools that are created, renamed or deleted.
LEMMA FollowingKeepsCalm ==
  ASSUME AdvisorTyped, CalmInv, Follows(docs, docs'), UNCHANGED <<entries, job, step, view, known, doc>>
  PROVE  CalmInv'
<1>1. entries \in Seq(Entry(docs)) /\ view \in Seq(Entry(docs))
  BY DEF AdvisorTyped, AdvisorTypeOK, Entry
<1>2. \A a : Leads(docs', entries, a) \subseteq Leads(docs, entries, a)
  BY <1>1, FollowingLeads
<1>3. \A a : Leads(docs', view, a) \subseteq Leads(docs, view, a)
  BY <1>1, FollowingLeads
<1>4. Once(docs, entries)'
  BY <1>2 DEF CalmInv, Once, AtMostOne
<1>5. KnownOrAhead'
  BY <1>2 DEF CalmInv, KnownOrAhead, Enables
<1>6. NotYetEnabled'
  BY <1>2 DEF CalmInv, NotYetEnabled, Enables
<1>7. ItsOwnTool'
  <2>. SUFFICES ASSUME Enables, step \in {"patch", "write"} PROVE docs'[doc].advisor = job.advisor
    BY DEF ItsOwnTool, Enables
  <2>1. doc \in DOMAIN docs
    BY DEF AdvisorTyped, AdvisorTypeOK
  <2>. QED
    BY <2>1 DEF CalmInv, ItsOwnTool, Follows
<1>8. ViewMayBeWritten'
  BY <1>3 DEF CalmInv, ViewMayBeWritten, Once, AtMostOne, Enables
<1>. QED
  BY <1>4, <1>5, <1>6, <1>7, <1>8 DEF CalmInv

\* Entries that are switched off or taken out.
LEMMA ThinningKeepsCalm ==
  ASSUME CalmInv, Thins(entries, entries'), UNCHANGED <<docs, job, step, view, known, doc>>
  PROVE  CalmInv'
<1>1. \A a : AtMostOne(Leads(docs, entries, a)) => AtMostOne(Leads(docs, entries', a))
  BY ThinnedLeads
<1>2. \A a : \A i \in Leads(docs, entries', a) : \E j \in Leads(docs, entries, a) : entries[j] = entries'[i]
  BY ThinnedLeads
<1>3. Once(docs, entries)'
  BY <1>1 DEF CalmInv, Once
<1>4. KnownOrAhead'
  BY <1>2 DEF CalmInv, KnownOrAhead, Enables
<1>5. NotYetEnabled'
  BY <1>2 DEF CalmInv, NotYetEnabled, Enables
<1>6. ItsOwnTool' /\ ViewMayBeWritten'
  BY DEF CalmInv, ItsOwnTool, ViewMayBeWritten, Enables, Once, AtMostOne
<1>. QED
  BY <1>3, <1>4, <1>5, <1>6 DEF CalmInv

\* An advisor that no entry led to is switched on.
LEMMA EnablingKeepsOnce ==
  ASSUME NEW dd, NEW s, NEW t, NEW d, NEW on_ \in BOOLEAN, NEW b, SetsOne(s, t, d, on_), on_,
         Once(dd, s), dd[d].advisor = b, Leads(dd, s, b) = {}
  PROVE  Once(dd, t)
<1>1. PICK m \in DOMAIN t :
        t[m] = [doc |-> d, on |-> on_] /\ \A i \in DOMAIN t \ {m} : i \in DOMAIN s /\ t[i] = s[i]
  BY DEF SetsOne
<1>2. t[m].doc = d
  BY <1>1
<1>3. ASSUME NEW a \in Advisors PROVE AtMostOne(Leads(dd, t, a))
  <2>1. \A i \in Leads(dd, t, a) : i = m \/ i \in Leads(dd, s, a)
    BY <1>1 DEF Leads
  <2>2. CASE a = b
    BY <2>1, <2>2 DEF AtMostOne
  <2>3. CASE a # b
    <3>1. m \notin Leads(dd, t, a)
      BY <1>2, <2>3 DEF Leads
    <3>2. AtMostOne(Leads(dd, s, a))
      BY DEF Once
    <3>. QED
      BY <2>1, <3>1, <3>2 DEF AtMostOne
  <2>. QED
    BY <2>2, <2>3
<1>. QED
  BY <1>3 DEF Once

\* A step that goes nowhere where the request would rely on what it has read.
LEMMA ElsewhereKeepsCalm ==
  ASSUME CalmInv, UNCHANGED <<docs, entries>>, step' \in {"idle", "agent", "page", "agents"}
  PROVE  CalmInv'
BY DEF CalmInv, KnownOrAhead, NotYetEnabled, ItsOwnTool, ViewMayBeWritten, Once, AtMostOne

\* The next entry is left behind; if it leads to the advisor, that is known now.
LEMMA ReadingOnKeepsCalm ==
  ASSUME AdvisorTyped, CalmInv, step = "entries", step' = "entries", view # <<>>, view' = Tail(view),
         known \subseteq known', UNCHANGED <<docs, entries, job>>,
         Enables /\ Head(view).on /\ (\E i \in Leads(docs, entries, job.advisor) : entries[i].doc = Head(view).doc)
           => job.advisor \in known'
  PROVE  CalmInv'
<1>1. view \in Seq(Entry(docs))
  BY DEF AdvisorTyped, AdvisorTypeOK, Entry
<1>2. /\ Len(view) \in Nat /\ DOMAIN view = 1 .. Len(view)
      /\ DOMAIN Tail(view) = 1 .. Len(view) - 1 /\ \A i \in 1 .. Len(view) - 1 : Tail(view)[i] = view[i + 1]
      /\ Head(view) = view[1]
  BY <1>1, HeadTailProperties, LenProperties
<1>3. KnownOrAhead'
  <2>. SUFFICES ASSUME Enables, NEW i \in Leads(docs, entries, job.advisor), job.advisor \notin known'
                PROVE  \E k \in DOMAIN Tail(view) : Tail(view)[k].on /\ Tail(view)[k].doc = entries[i].doc
    BY DEF KnownOrAhead, Enables
  <2>1. PICK k \in DOMAIN view : view[k].on /\ view[k].doc = entries[i].doc
    BY DEF CalmInv, KnownOrAhead
  <2>2. k # 1
    BY <1>2, <2>1
  <2>3. k - 1 \in DOMAIN Tail(view) /\ Tail(view)[k - 1] = view[k]
    BY <1>2, <2>1, <2>2
  <2>. QED
    BY <2>1, <2>3
<1>. QED
  BY <1>3 DEF CalmInv, NotYetEnabled, ItsOwnTool, ViewMayBeWritten, Once, AtMostOne

LEMMA CalmSteps ==
  ASSUME AdvisorTyped, calm => CalmInv, [AdvisorNext]_advisorVars, calm'
  PROVE  CalmInv'
<1> USE DEF agentVars
<1>1. CASE Ask
  BY <1>1, ElsewhereKeepsCalm DEF Ask, Continue
<1>2. CASE ReadAgent
  <2>1. CASE step' = "idle"
    BY <1>2, <2>1, ElsewhereKeepsCalm DEF ReadAgent
  <2>2. CASE step' = "entries" /\ view' = entries
    BY <1>2, <2>2 DEF ReadAgent, CalmInv, KnownOrAhead, NotYetEnabled, ItsOwnTool, ViewMayBeWritten, Once, AtMostOne, Leads
  <2>. QED
    BY <1>2, <2>1, <2>2 DEF ReadAgent, Deny, Reply, Continue
<1>3. CASE PassOver
  <2>1. Enables => ~Head(view).on
    BY <1>3 DEF PassOver, LooksAt, Enables
  <2>2. step = "entries" /\ step' = "entries" /\ view # <<>> /\ view' = Tail(view) /\ known' = known
        /\ UNCHANGED <<docs, entries, job>> /\ calm
    BY <1>3 DEF PassOver
  <2>. QED
    BY <2>1, <2>2, ReadingOnKeepsCalm
<1>4. CASE ReadTool
  <2> DEFINE e == Head(view)
             Advisor(ok) == IF ok /\ e.doc \in There THEN docs[e.doc].advisor ELSE NoAdvisor
  <2>1. PICK ok \in BOOLEAN :
          /\ calm' = (calm /\ ok)
          /\ IF job.ask = "disable" /\ Advisor(ok) = job.advisor
             THEN /\ IF e.on THEN Continue("patch") ELSE Reply("already disabled")
                  /\ doc' = e.doc /\ UNCHANGED <<view, known>>
             ELSE /\ Continue("entries")
                  /\ view' = Tail(view) /\ known' = known \cup ({Advisor(ok)} \ {NoAdvisor}) /\ doc' = doc
    BY <1>4 DEF ReadTool
  <2>2. ok /\ calm /\ UNCHANGED <<docs, entries, job>> /\ step = "entries" /\ view # <<>>
    BY <1>4, <2>1 DEF ReadTool
  <2>3. CASE job.ask = "disable" /\ step' \in {"patch", "idle"}
    BY <2>2, <2>3 DEF CalmInv, KnownOrAhead, NotYetEnabled, ItsOwnTool, ViewMayBeWritten, Once, AtMostOne, Enables
  <2>4. CASE step' = "entries" /\ view' = Tail(view) /\ known' = known \cup ({Advisor(ok)} \ {NoAdvisor})
    <3>1. ASSUME NEW i \in Leads(docs, entries, job.advisor), entries[i].doc = e.doc
          PROVE  Advisor(ok) = job.advisor
      BY <2>2, <3>1 DEF Leads, There
    <3>2. job.advisor # NoAdvisor
      BY <2>2, AdvisorsAssumption DEF AdvisorTyped, AskTyped
    <3> HIDE DEF Advisor
    <3>. QED
      BY <2>2, <2>4, <3>1, <3>2, ReadingOnKeepsCalm
  <2>. QED
    BY <2>1, <2>3, <2>4 DEF Continue, Reply
<1>5. CASE Decide
  <2>1. step = "entries" /\ view = <<>> /\ calm /\ UNCHANGED <<docs, entries, job, view, known>>
    BY <1>5 DEF Decide
  <2>2. CASE step' = "idle"
    BY <2>1, <2>2, ElsewhereKeepsCalm
  <2>3. CASE step' = "tools" /\ job.advisor \notin known
    <3>1. Enables => Leads(docs, entries, job.advisor) = {}
      BY <2>1, <2>3 DEF CalmInv, KnownOrAhead
    <3>. QED
      BY <2>1, <2>3, <3>1 DEF CalmInv, KnownOrAhead, NotYetEnabled, ItsOwnTool, ViewMayBeWritten, Once, AtMostOne, Enables
  <2>. QED
    BY <1>5, <2>2, <2>3 DEF Decide, Reply, Continue
<1>6. ASSUME calm, step \in {"tools", "credential", "name"}, step' \in {"idle", "credential", "name", "insert"},
             UNCHANGED <<docs, entries, job>>
      PROVE  CalmInv'
  BY <1>6 DEF CalmInv, KnownOrAhead, NotYetEnabled, ItsOwnTool, ViewMayBeWritten, Once, AtMostOne, Enables
<1>7. CASE ListTools
  BY <1>6, <1>7 DEF ListTools, Deny, Reply, Continue
<1>8. CASE Credential
  BY <1>6, <1>8 DEF Credential, Deny, Reply, Continue
<1>9. CASE CheckName
  BY <1>6, <1>9 DEF CheckName, Deny, Reply, Continue
<1>10. CASE InsertTool
  <2> DEFINE new == [name |-> job.name, advisor |-> job.advisor, there |-> TRUE]
  <2>1. step = "insert" /\ calm /\ UNCHANGED <<entries, job, view, known>>
    BY <1>10 DEF InsertTool
  <2>2. CASE step' = "idle" /\ docs' = docs
    BY <2>1, <2>2, ElsewhereKeepsCalm
  <2>3. CASE docs' = Append(docs, new)
    <3>1. docs \in Seq(Tool) /\ new \in Tool /\ new.advisor = job.advisor
      BY <2>1 DEF AdvisorTyped, AdvisorTypeOK, AskTyped, Enables, Tool
    <3> HIDE DEF new
    <3>2. /\ Len(docs') = Len(docs) + 1 /\ \A i \in 1 .. Len(docs) : docs'[i] = docs[i]
          /\ docs'[Len(docs) + 1] = new
      BY <2>3, <3>1, AppendProperties
    <3>3. docs' \in Seq(Tool) /\ Len(docs) \in Nat /\ DOMAIN docs = 1 .. Len(docs)
      BY <2>3, <3>1, AppendProperties, LenProperties
    <3>4. DOMAIN docs' = 1 .. Len(docs) + 1
      BY <3>2, <3>3, LenProperties
    <3>5. Follows(docs, docs')
      BY <3>2, <3>3, <3>4 DEF Follows
    <3>6. entries \in Seq(Entry(docs))
      BY DEF AdvisorTyped, AdvisorTypeOK, Entry
    <3>7. \A a : Leads(docs', entries, a) \subseteq Leads(docs, entries, a)
      BY <3>5, <3>6, FollowingLeads
    <3>8. Once(docs', entries)
      BY <2>1, <3>7 DEF CalmInv, Once, AtMostOne
    <3>9. Enables => Leads(docs', entries, job.advisor) = {}
      BY <2>1, <3>7 DEF CalmInv, NotYetEnabled
    <3>10. CASE step' = "idle"
      BY <2>1, <3>8, <3>10 DEF CalmInv, KnownOrAhead, NotYetEnabled, ItsOwnTool, ViewMayBeWritten, Once, AtMostOne
    <3>11. CASE step' = "patch" /\ doc' = Len(docs')
      <4>1. docs'[doc'].advisor = job.advisor
        BY <3>1, <3>2, <3>11
      <4>. QED
        BY <2>1, <3>8, <3>9, <3>11, <4>1
        DEF CalmInv, KnownOrAhead, NotYetEnabled, ItsOwnTool, ViewMayBeWritten, Once, AtMostOne, Enables
    <3>. QED
      BY <1>10, <3>10, <3>11, InsertsOrNot DEF Deny, Reply
  <2>. QED
    BY <1>10, <2>2, <2>3, InsertsOrNot DEF Deny, Reply
<1>11. CASE ReadAgain
  <2>1. step = "patch" /\ calm /\ UNCHANGED <<docs, entries, job, doc>>
    BY <1>11 DEF ReadAgain
  <2>2. CASE step' = "idle"
    BY <2>1, <2>2, ElsewhereKeepsCalm
  <2>3. CASE step' = "write" /\ view' = entries
    BY <2>1, <2>3 DEF CalmInv, KnownOrAhead, NotYetEnabled, ItsOwnTool, ViewMayBeWritten, Once, AtMostOne, Enables
  <2>. QED
    BY <1>11, <2>2, <2>3 DEF ReadAgain, Deny, Reply, Continue
<1>12. CASE WriteAgent
  <2>1. step = "write" /\ calm /\ step' = "idle" /\ UNCHANGED <<docs, job, view, doc>>
    BY <1>12 DEF WriteAgent, Deny, Reply
  <2>2. PICK on_ \in BOOLEAN : on_ = (job.ask = "enable")
    OBVIOUS
  <2>3. CASE entries' = entries
    BY <2>1, <2>3, ElsewhereKeepsCalm
  <2>4. CASE entries' = Switch(view, doc, on_)
    <3>1. view \in Seq(Entry(docs)) /\ doc \in DOMAIN docs
      BY <2>1 DEF AdvisorTyped, AdvisorTypeOK, Entry
    <3>2. Once(docs, view)
      BY <2>1 DEF CalmInv, ViewMayBeWritten
    <3>3. CASE on_
      <4>1. SetsOne(view, entries', doc, on_)
        BY <2>4, <3>1, SwitchSetsOne DEF Entry
      <4>2. docs[doc].advisor = job.advisor /\ Leads(docs, view, job.advisor) = {}
        BY <2>1, <2>2, <3>3 DEF CalmInv, ItsOwnTool, ViewMayBeWritten, Enables
      <4>3. Once(docs, entries')
        BY <3>2, <3>3, <4>1, <4>2, EnablingKeepsOnce
      <4>. QED
        BY <2>1, <4>3 DEF CalmInv, KnownOrAhead, NotYetEnabled, ItsOwnTool, ViewMayBeWritten, Once, AtMostOne
    <3>4. CASE ~on_
      <4>1. Thins(view, entries')
        BY <2>4, <3>1, <3>4, SwitchOffThins DEF Entry
      <4>2. Once(docs, entries')
        BY <3>2, <4>1, ThinnedLeads DEF Once
      <4>. QED
        BY <2>1, <4>2 DEF CalmInv, KnownOrAhead, NotYetEnabled, ItsOwnTool, ViewMayBeWritten, Once, AtMostOne
    <3>. QED
      BY <3>3, <3>4
  <2>. QED
    BY <1>12, <2>2, <2>3, <2>4 DEF WriteAgent
<1>13. CASE ReadPage
  <2>1. step' \in {"idle", "page", "agents"} /\ calm /\ UNCHANGED <<docs, entries>>
    BY <1>13 DEF ReadPage, Deny, Reply, Continue
  <2>. QED
    BY <2>1, ElsewhereKeepsCalm
<1>14. CASE ListAgents
  BY <1>14, ElsewhereKeepsCalm DEF ListAgents, Deny, Reply
<1>15. ASSUME Other PROVE UNCHANGED <<job, step, view, known, doc>>
  BY <1>15 DEF Other, requestVars
<1>16. CASE EditAgent
  <2>1. UNCHANGED <<job, step, view, known, doc, docs>>
    BY <1>15, <1>16 DEF EditAgent
  <2>2. entries \in Seq(Entry(docs))
    BY DEF AdvisorTyped, AdvisorTypeOK, Entry
  <2>3. ASSUME NEW d \in There, NEW on_ \in BOOLEAN, entries' = Switch(entries, d, on_), calm' = (calm /\ ~on_)
        PROVE  CalmInv'
    <3>1. d \in DOMAIN docs
      BY DEF There
    <3>2. Thins(entries, entries')
      BY <2>2, <2>3, <3>1, SwitchOffThins DEF Entry
    <3>. QED
      BY <2>1, <2>3, <3>2, ThinningKeepsCalm
  <2>4. ASSUME NEW i \in DOMAIN entries, entries' = RemoveAt(entries, i), calm' = calm
        PROVE  CalmInv'
    <3>1. Thins(entries, entries')
      BY <2>2, <2>4, RemoveThins
    <3>. QED
      BY <2>1, <2>4, <3>1, ThinningKeepsCalm
  <2>. QED
    BY <1>16, <2>3, <2>4 DEF EditAgent
<1>17. CASE CreateTool
  <2>1. UNCHANGED <<job, step, view, known, doc, entries, calm>>
    BY <1>15, <1>17 DEF CreateTool
  <2>2. PICK n \in Names, a \in Advisors : docs' = Append(docs, [name |-> n, advisor |-> a, there |-> TRUE])
    BY <1>17 DEF CreateTool
  <2>3. docs \in Seq(Tool) /\ [name |-> n, advisor |-> a, there |-> TRUE] \in Tool
    BY DEF AdvisorTyped, AdvisorTypeOK, Tool
  <2>4. /\ docs' \in Seq(Tool) /\ Len(docs') = Len(docs) + 1 /\ Len(docs) \in Nat
        /\ \A i \in 1 .. Len(docs) : docs'[i] = docs[i]
    BY <2>2, <2>3, AppendProperties, LenProperties
  <2>5. Follows(docs, docs')
    BY <2>3, <2>4, LenProperties DEF Follows
  <2>. QED
    BY <2>1, <2>5, FollowingKeepsCalm
<1>18. CASE UpdateTool
  <2>1. UNCHANGED <<job, step, view, known, doc, entries>>
    BY <1>15, <1>18 DEF UpdateTool
  <2>2. PICK d \in There : \E n \in Names : docs' = [docs EXCEPT ![d].name = n] /\ calm' = calm
    BY <1>18 DEF UpdateTool
  <2>3. \A c \in DOMAIN docs : docs[c] \in Tool
    BY ToolsAreTools DEF AdvisorTyped, AdvisorTypeOK
  <2>4. Follows(docs, docs')
    BY <2>2, <2>3 DEF Follows, Tool
  <2>. QED
    BY <2>1, <2>2, <2>4, FollowingKeepsCalm
<1>19. CASE DeleteTool
  <2>1. UNCHANGED <<job, step, view, known, doc, entries, calm>>
    BY <1>15, <1>19 DEF DeleteTool
  <2>2. PICK d \in There : docs' = [docs EXCEPT ![d].there = FALSE]
    BY <1>19 DEF DeleteTool
  <2>3. \A c \in DOMAIN docs : docs[c] \in Tool
    BY ToolsAreTools DEF AdvisorTyped, AdvisorTypeOK
  <2>4. Follows(docs, docs')
    BY <2>2, <2>3 DEF Follows, Tool, There
  <2>. QED
    BY <2>1, <2>4, FollowingKeepsCalm
<1>20. ASSUME UNCHANGED <<docs, entries, job, step, view, known, doc, calm>> PROVE CalmInv'
  BY <1>20 DEF CalmInv, KnownOrAhead, NotYetEnabled, ItsOwnTool, ViewMayBeWritten, Once, AtMostOne, Enables
<1>21. CASE SwitchCredential
  BY <1>15, <1>20, <1>21 DEF SwitchCredential
<1>22. CASE UNCHANGED advisorVars
  BY <1>20, <1>22 DEF advisorVars
<1>. QED
  BY <1>1, <1>2, <1>3, <1>4, <1>5, <1>7, <1>8, <1>9, <1>10, <1>11, <1>12, <1>13, <1>14, <1>16, <1>17, <1>18, <1>19,
     <1>21, <1>22 DEF AdvisorNext, RequestStep, OtherStep

LEMMA AdvisorStarts == AdvisorInit => AdvisorInv
<1>. SUFFICES ASSUME AdvisorInit PROVE AdvisorInv
  OBVIOUS
<1>1. CalmInv
  BY DEF AdvisorInit, CalmInv, KnownOrAhead, NotYetEnabled, ItsOwnTool, ViewMayBeWritten, Once, AtMostOne, Leads
<1>. QED
  BY <1>1, AdvisorTypesStart DEF AdvisorInv, AdvisorTyped

LEMMA AdvisorSteps == AdvisorInv /\ [AdvisorNext]_advisorVars => AdvisorInv'
<1>1. AdvisorInv /\ [AdvisorNext]_advisorVars => AdvisorTyped'
  BY AdvisorTypesStep DEF AdvisorInv, AdvisorTyped
<1>2. AdvisorInv /\ [AdvisorNext]_advisorVars /\ calm' => CalmInv'
  BY CalmSteps DEF AdvisorInv, AdvisorTyped
<1>. QED
  BY <1>1, <1>2 DEF AdvisorInv, AdvisorTyped

LEMMA AdvisorInvariant == AdvisorToolsSpec => []AdvisorInv
BY AdvisorStarts, AdvisorSteps, PTL DEF AdvisorToolsSpec

\* The types, for any advisors, names and bounds.
THEOREM AdvisorTypeCorrect == AdvisorToolsSpec => []AdvisorTypeOK
<1>1. AdvisorInv => AdvisorTypeOK
  BY DEF AdvisorInv
<1>. QED
  BY <1>1, AdvisorInvariant, PTL

\* circuitry_advisor_tool.py: for any requests, failures and retries, and whatever others
\* switch off, rename, create or delete between the calls, an advisor is enabled on the
\* agent at most once while no other enables one and the tools can be read.
THEOREM AdvisorsAreEnabledOnce == AdvisorToolsSpec => []EnabledOnce
<1>1. AdvisorInv => EnabledOnce
  <2>. SUFFICES ASSUME AdvisorInv, calm, NEW a \in Advisors PROVE Cardinality(Enabled(a)) <= 1
    BY DEF EnabledOnce
  <2>1. Enabled(a) = Leads(docs, entries, a)
    BY DEF Enabled, Leads, There
  <2>2. AtMostOne(Enabled(a))
    BY <2>1 DEF AdvisorInv, CalmInv, Once
  <2>3. CASE Enabled(a) = {}
    BY <2>3, FS_EmptySet
  <2>4. CASE Enabled(a) # {}
    <3>1. PICK i : Enabled(a) = {i}
      BY <2>2, <2>4 DEF AtMostOne
    <3>2. Cardinality({i}) = 1
      BY FS_Singleton
    <3>. QED
      BY <3>1, <3>2
  <2>. QED
    BY <2>3, <2>4
<1>. QED
  BY <1>1, AdvisorInvariant, PTL

-----------------------------------------------------------------------------
(* MCParts.  The parts stand side by side and share nothing, so every step is *)
(* a step of one of them and leaves the variables of the others alone: what   *)
(* is proved of a part holds beside the others.                               *)

LEMMA PartsStep ==
  [PartsNext]_<<part, earlyVars, lateVars>> =>
    /\ [ContextNext]_contextVars /\ [AdvisorNext]_advisorVars /\ [FetchNext]_fetchVars
    /\ [ReportsNext]_reportVars /\ [MuteNext]_muteVars /\ [Next]_vars
    /\ [FillerNext]_fillerVars /\ [RoutingNext]_routingVars /\ [ChatNext]_chatVars
BY DEF PartsNext, earlyVars, lateVars

\* Nothing that another part does disturbs what is promised of a part: a behaviour of
\* all nine is a behaviour of each.
THEOREM PartsImplement ==
  PartsSpec =>
    /\ CallContextSpec /\ AdvisorToolsSpec /\ AgentFetchSpec /\ SessionReportsSpec /\ MuteSpec /\ Spec
    /\ FillerWordsSpec /\ SpeechRoutingSpec /\ TextChatSpec
<1>1. PartsInit =>
        /\ ContextInit /\ AdvisorInit /\ FetchInit /\ ReportsInit /\ MuteInit /\ Init
        /\ FillerInit /\ RoutingInit /\ ChatInit
  BY DEF PartsInit
<1>. QED
  BY <1>1, PartsStep, PTL
  DEF PartsSpec, CallContextSpec, AdvisorToolsSpec, AgentFetchSpec, SessionReportsSpec, MuteSpec, Spec,
      FillerWordsSpec, SpeechRoutingSpec, TextChatSpec

\* The types of all nine parts, side by side, the parts at rest included.
THEOREM PartsTypeCorrect ==
  PartsSpec =>
    /\ []PartsTypeOK
    /\ []ContextTypeOK /\ []AdvisorTypeOK /\ []FetchTypeOK /\ []ReportsTypeOK /\ []MuteTypeOK /\ []TypeOK
    /\ []FillerTypeOK /\ []RoutingTypeOK /\ []ChatTypeOK
<1>1. /\ ContextTypeOK /\ AdvisorTypeOK /\ FetchTypeOK /\ ReportsTypeOK /\ MuteTypeOK /\ TypeOK
      /\ FillerTypeOK /\ RoutingTypeOK /\ ChatTypeOK
      => PartsTypeOK
  BY DEF PartsTypeOK
<1>. QED
  BY <1>1, PartsImplement, ContextTypeCorrect, AdvisorTypeCorrect, FetchTypeCorrect, ReportsTypeCorrect, MuteTypeCorrect,
     TypeCorrect, FillerTypeCorrect, RoutingTypeCorrect, ChatTypeCorrect, PTL

\* Every promise of a part holds beside the other eight.
THEOREM PartsKeepPromises ==
  PartsSpec =>
    /\ []SerialCallsActForThemselves /\ []UserIsNotOurselves /\ []EnabledOnce
    /\ []LentTokenLives /\ []RefusalIsOfNewToken /\ []PatchNamesCreator /\ NoArtifactIsLost
    /\ []VerdictsAreCurrent /\ []HistoryIsWhole /\ []InboundEndsClear /\ OptOutStands
    /\ FillerIsOfAllWords /\ []ResponseIsSpokenWhole /\ []SavedTranscriptIsWhole
BY PartsImplement, SerialCallsAct, UsersAreNotOurselves, AdvisorsAreEnabledOnce, LentTokensLive,
   RefusalsAreOfNewTokens, PatchesNameCreator, NoArtifactsLost, FramesAreJudgedCurrently, HistoriesAreWhole,
   InboundCallsEndClear, OptOutsStand, FillersAreOfAllWords, ResponsesAreSpokenWhole, SavedTranscriptsAreWhole, PTL
=============================================================================
