---------------------------- MODULE Speech_proofs ----------------------------
(***************************************************************************)
(* What the parts that pass speech on keep for every set of pipelines and    *)
(* calls, whatever is said, and every bound: TranscriptionMute, FillerWords, *)
(* SpeechRouting and TextChat.  The four share nothing; each has a section.  *)
(***************************************************************************)
EXTENDS TranscriptionMute, FillerWords, SpeechRouting, TextChat, SequenceTheorems, TLAPS

-----------------------------------------------------------------------------
(* TranscriptionMute.  What a filter passes is current because its counter   *)
(* never lets the cache answer: every check sets it back to 0 and so does    *)
(* every manual mute, so each frame is the first after a reset and is looked *)
(* up.  That, and that the flag is in the span of every check that is        *)
(* reading, is the inductive invariant.                                      *)

\* What a filter that may work with the cache would have to promise instead.
EveryFrameIsFirst == counter = [p \in Pipelines |-> 0]
ReadingSeesFlag == \A p \in Pipelines : check[p] = "reading" => flag \in span[p]

BlockedSawTrue == \A p \in Pipelines : check[p] = "blocked" => TRUE \in span[p]

PassedSawFalse == \A p \in Pipelines : check[p] = "passed" => FALSE \in span[p]

MuteInv == MuteTypeOK /\ EveryFrameIsFirst /\ ReadingSeesFlag /\ BlockedSawTrue /\ PassedSawFalse

LEMMA MuteStarts == MuteInit => MuteInv
<1> SUFFICES ASSUME MuteInit PROVE MuteInv
  OBVIOUS
<1>1. counter \in [Pipelines -> 0 .. Interval]
  BY IntervalAssumption DEF MuteInit
<1>2. MuteTypeOK
  BY <1>1 DEF MuteInit, MuteTypeOK, None
<1>. QED
  BY <1>2 DEF MuteInit, MuteInv, EveryFrameIsFirst, ReadingSeesFlag, BlockedSawTrue, PassedSawFalse

\* A check always reads the database first.
LEMMA NothingCached ==
  ASSUME MuteInv, NEW p \in Pipelines, Transcription(p)
  PROVE  /\ counter' = counter
         /\ check' = [check EXCEPT ![p] = "reading"]
         /\ span' = [span EXCEPT ![p] = {flag}]
<1>1. counter[p] + 1 = 1 /\ ~(1 < 1)
  BY DEF MuteInv, EveryFrameIsFirst
<1>2. ~(1 < counter[p] + 1 /\ counter[p] + 1 < Interval)
  BY <1>1
<1>3. counter' = [counter EXCEPT ![p] = 0]
  BY <1>2, Zenon DEF Transcription
<1>4. counter' = counter
  BY <1>3 DEF MuteInv, EveryFrameIsFirst
<1>. QED
  BY <1>2, <1>4, Zenon DEF Transcription

LEMMA MuteSteps == MuteInv /\ [MuteNext]_muteVars => MuteInv'
<1> SUFFICES ASSUME MuteInv, [MuteNext]_muteVars PROVE MuteInv'
  OBVIOUS
<1> USE IntervalAssumption DEF MuteInv, MuteTypeOK, EveryFrameIsFirst, ReadingSeesFlag, BlockedSawTrue, PassedSawFalse
<1>1. ASSUME NEW p \in Pipelines, StartPipeline(p) PROVE MuteInv'
  BY <1>1 DEF StartPipeline, filter
<1>2. ASSUME NEW p \in Pipelines, EndPipeline(p) PROVE MuteInv'
  BY <1>2 DEF EndPipeline
<1>3. ASSUME NEW p \in Pipelines, Transcription(p) PROVE MuteInv'
  <2>1. /\ counter' = counter
        /\ check' = [check EXCEPT ![p] = "reading"]
        /\ span' = [span EXCEPT ![p] = {flag}]
    BY <1>3, NothingCached
  <2>2. UNCHANGED <<flag, transfer, live, registry, cache>>
    BY <1>3 DEF Transcription
  <2>3. MuteTypeOK' /\ EveryFrameIsFirst'
    BY <2>1, <2>2
  <2>4. ReadingSeesFlag' /\ BlockedSawTrue' /\ PassedSawFalse'
    BY <2>1, <2>2
  <2>. QED
    BY <2>3, <2>4
\* Settle, written out: its argument may be a variable.
<1>4. ASSUME NEW p \in Pipelines, NEW active \in BOOLEAN,
             NEW verdict \in {"blocked", "passed", "missed"},
             verdict = "blocked" => flag, verdict = "passed" => ~flag,
             check[p] = "reading",
             cache' = [cache EXCEPT ![p] = active],
             check' = [check EXCEPT ![p] = verdict],
             UNCHANGED <<flag, transfer, live, registry, counter, span>>
      PROVE MuteInv'
  <2>3. MuteTypeOK' /\ EveryFrameIsFirst' /\ ReadingSeesFlag'
    BY <1>4
  <2>4. verdict = "blocked" => TRUE \in span[p]
    BY <1>4
  <2>5. verdict = "passed" => FALSE \in span[p]
    BY <1>4
  <2>6. BlockedSawTrue'
    BY <1>4, <2>4
  <2>7. PassedSawFalse'
    BY <1>4, <2>5
  <2>. QED
    BY <2>3, <2>6, <2>7
<1>5. ASSUME Mute PROVE MuteInv'
  BY <1>5 DEF Mute, SetActive
<1>6. ASSUME SetFlag PROVE MuteInv'
  BY <1>6 DEF SetFlag, WriteFlag
<1>7. ASSUME FailFlag PROVE MuteInv'
  BY <1>7 DEF FailFlag, filter
<1>8. ASSUME Unmute PROVE MuteInv'
  BY <1>8 DEF Unmute, SetActive
<1>9. ASSUME ClearFlag PROVE MuteInv'
  BY <1>9 DEF ClearFlag, WriteFlag
<1>10. CASE UNCHANGED muteVars
  BY <1>10 DEF muteVars, filter
<1>11. ASSUME NEW p \in Pipelines, ReadFlag(p) \/ FailRead(p) PROVE MuteInv'
  <2>1. CASE ReadFlag(p)
    <3>1. PICK active \in BOOLEAN : active = flag
      OBVIOUS
    <3>2. PICK verdict \in {"blocked", "passed", "missed"} : verdict = Verdict(active)
      BY DEF Verdict
    <3>3. /\ check[p] = "reading"
          /\ cache' = [cache EXCEPT ![p] = active]
          /\ check' = [check EXCEPT ![p] = verdict]
          /\ UNCHANGED <<flag, transfer, live, registry, counter, span>>
      BY <2>1, <3>1, <3>2 DEF ReadFlag, Settle
    <3>4. (verdict = "blocked" => flag) /\ (verdict = "passed" => ~flag)
      BY <3>1, <3>2 DEF Verdict
    <3>. QED
      BY <1>4, <3>3, <3>4
  <2>2. CASE FailRead(p)
    BY <1>4, <2>2 DEF FailRead, Settle
  <2>. QED
    BY <1>11, <2>1, <2>2
<1>. QED
  BY <1>1, <1>2, <1>3, <1>11, <1>5, <1>6, <1>7, <1>8, <1>9, <1>10 DEF MuteNext

\* For any number of pipelines and whatever fails.
LEMMA MuteInvariant == MuteSpec => []MuteInv
BY MuteStarts, MuteSteps, PTL DEF MuteSpec

\* The types; the registry never holds the filter of a pipeline that has ended.
THEOREM MuteTypeCorrect == MuteSpec => []MuteTypeOK
<1>1. MuteInv => MuteTypeOK
  BY DEF MuteInv
<1>. QED
  BY <1>1, MuteInvariant, PTL

\* transcription_filter.py: unless its read fails, a frame passes only if the flag was
\* clear at some moment of its check; even with failed reads and writes, a frame is
\* blocked only if the flag was set at some moment of its check.
THEOREM FramesAreJudgedCurrently == MuteSpec => []VerdictsAreCurrent
<1>1. MuteInv => PassedIsCurrent
  BY DEF MuteInv, MuteTypeOK, PassedSawFalse, PassedIsCurrent
<1>2. MuteInv => BlockedIsCurrent
  BY DEF MuteInv, MuteTypeOK, BlockedSawTrue, BlockedIsCurrent
<1>3. MuteInv => VerdictsAreCurrent
  BY <1>1, <1>2 DEF VerdictsAreCurrent
<1>. QED
  BY <1>3, MuteInvariant, PTL

-----------------------------------------------------------------------------
(* FillerWords.                                                              *)

\* The words and the time stamp come and go together, and a task that may speak was
\* made for the words there are.
FillerInv ==
  /\ FillerTypeOK /\ (stamped <=> heard # {})
  /\ timer \in {"made", "asks", "sleeps"} /\ stamped => askedFor = heard

LEMMA FillersStart == FillerInit => FillerInv
<1>. SUFFICES ASSUME FillerInit PROVE FillerInv
  OBVIOUS
<1>1. 0 \in 0..MaxFillers
  BY FillerAssumption
<1>2. FillerTypeOK
  BY <1>1 DEF FillerInit, FillerTypeOK
<1>. QED
  BY <1>2 DEF FillerInit, FillerInv

LEMMA FillerSteps == FillerInv /\ [FillerNext]_fillerVars => FillerInv'
<1>. SUFFICES ASSUME FillerInv, [FillerNext]_fillerVars PROVE FillerInv'
  OBVIOUS
<1>. USE FillerAssumption DEF FillerInv, FillerTypeOK
<1>1. ASSUME NEW w \in Words, Hear(w) PROVE FillerInv'
  BY <1>1 DEF Hear, Heed, CancelTimer
<1>2. CASE UserStarts
  <2>1. fillers' \in 0..MaxFillers
    BY <1>2 DEF UserStarts
  <2>2. CASE heard # {}
    BY <1>2, <2>1, <2>2 DEF UserStarts, ForgetTurn, KeepTimer
  <2>3. CASE heard = {}
    BY <1>2, <2>1, <2>3 DEF UserStarts, KeepTimer, turnVars
  <2>. QED
    BY <2>2, <2>3
<1>3. CASE UserStops
  BY <1>3 DEF UserStops, MakeTimer, KeepTimer
<1>4. CASE Interrupt
  BY <1>4 DEF Interrupt, EndTimer, ForgetTurn, KeepTimer, turnVars
<1>5. CASE LlmAnswers
  BY <1>5 DEF LlmAnswers, turnVars
<1>6. CASE GiveUpStop
  BY <1>6 DEF GiveUpStop, MakeTimer, KeepTimer
<1>7. CASE AskPhrase
  BY <1>7 DEF AskPhrase, EndTimer, turnVars
<1>8. CASE SleepOn
  BY <1>8 DEF SleepOn, turnVars
<1>9. CASE Unwind
  BY <1>9 DEF Unwind, EndTimer, turnVars
<1>10. CASE SpeakFiller
  BY <1>10 DEF SpeakFiller, EndTimer, turnVars
<1>11. CASE UNCHANGED fillerVars
  BY <1>11 DEF fillerVars, turnVars
<1>. QED
  BY <1>1, <1>2, <1>3, <1>4, <1>5, <1>6, <1>7, <1>8, <1>9, <1>10, <1>11 DEF FillerNext

LEMMA FillerInvariant == FillerWordsSpec => []FillerInv
BY FillersStart, FillerSteps, PTL DEF FillerWordsSpec

\* The types, for any words and any number of fillers.
THEOREM FillerTypeCorrect == FillerWordsSpec => []FillerTypeOK
<1>1. FillerInv => FillerTypeOK
  BY DEF FillerInv
<1>. QED
  BY <1>1, FillerInvariant, PTL

\* filler_words_processor.py: a filler that is spoken was made for all the user has
\* said in the turn, whichever of the stop, the fallback and the transcripts come first.
THEOREM FillersAreOfAllWords == FillerWordsSpec => FillerIsOfAllWords
<1>1. FillerInv /\ [FillerNext]_fillerVars => [fillers' > fillers => askedFor = heard]_fillerVars
  <2>. SUFFICES ASSUME FillerInv, FillerNext, fillers' > fillers PROVE askedFor = heard
    OBVIOUS
  <2>1. fillers \in Nat /\ ~(fillers > fillers) /\ ~(0 > fillers)
    BY FillerAssumption DEF FillerInv, FillerTypeOK
  <2>2. SpeakFiller
    BY <2>1 DEF FillerNext, Hear, UserStarts, UserStops, Interrupt, LlmAnswers, GiveUpStop, AskPhrase, SleepOn, Unwind
  <2>. QED
    BY <2>1, <2>2 DEF SpeakFiller, FillerInv
<1>. QED
  BY <1>1, FillerInvariant, PTL DEF FillerWordsSpec, FillerIsOfAllWords

-----------------------------------------------------------------------------
(* SpeechRouting.  While a response goes on, what has been played is the      *)
(* response up to its last token, all of it by the voice found for it, or     *)
(* nothing when none has been found; then the gathered text can be spoken     *)
(* exactly when the response can, so that its end does not drop it.  Of a      *)
(* response a service has failed in nothing is kept.                           *)

Responses == [tokens : 0 .. MaxSpoken, sound : BOOLEAN, over : BOOLEAN, broken : BOOLEAN]
Frames(r) == [kind : {"start", "text", "end"}, to : Voices[r], from : Nat, upto : Nat]

\* v has begun to speak and has spoken the first n tokens.
SpokenUpTo(frames, v, n) ==
  Len(frames) >= 2 /\ Continued(frames, v) /\ frames[Len(frames)].upto = n

\* v has spoken n tokens and has ended.
SpokenWhole(frames, v, n) ==
  LET l == Len(frames)
  IN  l >= 3 /\ SpokenUpTo(SubSeq(frames, 1, l - 1), v, n) /\ frames[l] = End(v)

RouterOK(r) ==
  /\ progress[r] => ~response[r].over
  /\ progress[r] /\ ~response[r].broken /\ voice[r] # "none" => SpokenUpTo(played[r], voice[r], response[r].tokens)
  /\ progress[r] /\ ~response[r].broken /\ voice[r] = "none" => played[r] = <<>> /\ gathered[r].sound = response[r].sound
  /\ response[r].over /\ response[r].sound /\ ~response[r].broken => \E v \in Voices[r] : SpokenWhole(played[r], v, response[r].tokens)

RoutingInv == RoutingTypeOK /\ \A r \in Routers : RouterOK(r)

LEMMA FramesAreTyped ==
  ASSUME NEW r \in Routers, NEW v \in Voices[r], NEW i \in Nat, NEW j \in Nat
  PROVE  Start(v) \in Frames(r) /\ Text(v, i, j) \in Frames(r) /\ End(v) \in Frames(r)
BY DEF Frames, Start, Text, End

\* The start and the text with which a voice takes over what was gathered.
LEMMA SpeechBegins ==
  ASSUME NEW r \in Routers, NEW v \in Voices[r], NEW n \in Nat
  PROVE  /\ <<Start(v), Text(v, 1, n)>> \in Seq(Frames(r))
         /\ SpokenUpTo(<<Start(v), Text(v, 1, n)>>, v, n)
<1> DEFINE s == <<Start(v), Text(v, 1, n)>>
<1>1. s \in Seq(Frames(r))
  BY FramesAreTyped
<1>2. Len(s) = 2 /\ s[1] = Start(v) /\ s[2] = Text(v, 1, n)
  OBVIOUS
<1>3. s[1].upto + 1 = 1 /\ s[2].upto = n
  BY <1>2 DEF Start, Text
<1> HIDE DEF s
<1>4. \A i \in 2 .. Len(s) : i = 2
  BY <1>2
<1>. QED
  BY <1>1, <1>2, <1>3, <1>4 DEF SpokenUpTo, Continued, s

\* One token more.
LEMMA SpeechGoesOn ==
  ASSUME NEW r \in Routers, NEW v \in Voices[r], NEW n \in Nat,
         NEW s \in Seq(Frames(r)), SpokenUpTo(s, v, n)
  PROVE  /\ s \o <<Text(v, n + 1, n + 1)>> \in Seq(Frames(r))
         /\ SpokenUpTo(s \o <<Text(v, n + 1, n + 1)>>, v, n + 1)
<1> DEFINE x == <<Text(v, n + 1, n + 1)>>
           t == s \o x
<1>1. x \in Seq(Frames(r)) /\ Len(x) = 1 /\ x[1] = Text(v, n + 1, n + 1)
  BY FramesAreTyped
<1> HIDE DEF x
<1>2. /\ t \in Seq(Frames(r)) /\ Len(t) = Len(s) + 1 /\ Len(s) \in Nat
      /\ \A i \in 1 .. Len(s) : t[i] = s[i]
      /\ t[Len(s) + 1] = Text(v, n + 1, n + 1)
  BY <1>1, ConcatProperties, LenProperties, SMTT(30)
<1> HIDE DEF t
<1>3. Len(s) >= 2 /\ s[1] = Start(v) /\ s[Len(s)].upto = n
  BY DEF SpokenUpTo, Continued
<1>4. \A i \in 2 .. Len(s) : s[i] = Text(v, s[i - 1].upto + 1, s[i].upto)
  BY DEF SpokenUpTo, Continued
<1>5. t[1] = Start(v)
  BY <1>2, <1>3
<1>6. Text(v, n + 1, n + 1).upto = n + 1
  BY DEF Text
<1>7. ASSUME NEW i \in 2 .. Len(t)
      PROVE  t[i] = Text(v, t[i - 1].upto + 1, t[i].upto)
  <2>1. CASE i \in 2 .. Len(s)
    <3>1. t[i] = s[i] /\ t[i - 1] = s[i - 1]
      BY <1>2, <2>1
    <3>. QED
      BY <1>4, <2>1, <3>1
  <2>2. CASE i = Len(s) + 1
    <3>1. t[i - 1] = s[Len(s)]
      BY <1>2, <1>3, <2>2
    <3>. QED
      BY <1>2, <1>3, <1>6, <2>2, <3>1
  <2>. QED
    BY <1>2, <2>1, <2>2
<1>8. SpokenUpTo(t, v, n + 1)
  BY <1>2, <1>3, <1>5, <1>6, <1>7 DEF SpokenUpTo, Continued
<1>. QED
  BY <1>2, <1>8 DEF t, x

\* The end.
LEMMA SpeechEnds ==
  ASSUME NEW r \in Routers, NEW v \in Voices[r], NEW n \in Nat,
         NEW s \in Seq(Frames(r)), SpokenUpTo(s, v, n)
  PROVE  /\ s \o <<End(v)>> \in Seq(Frames(r))
         /\ SpokenWhole(s \o <<End(v)>>, v, n)
<1> DEFINE x == <<End(v)>>
           t == s \o x
<1>1. x \in Seq(Frames(r)) /\ Len(x) = 1 /\ x[1] = End(v)
  BY 0 \in Nat, FramesAreTyped
<1> HIDE DEF x
<1>2. t \in Seq(Frames(r)) /\ Len(t) = Len(s) + 1 /\ Len(s) \in Nat
  BY <1>1, ConcatProperties, LenProperties, SMTT(30)
<1>3. Len(s) >= 2
  BY DEF SpokenUpTo
<1>4. SubSeq(t, 1, Len(s)) = SubSeq(s, 1, Len(s))
  BY <1>1, <1>2, <1>3, SubSeqOfConcat1
<1>5. SubSeq(t, 1, Len(t) - 1) = s
  BY <1>2, <1>4, SubSeqFull
<1>6. t[Len(t)] = End(v)
  <2>1. t[Len(s) + 1] = x[Len(s) + 1 - Len(s)]
    BY <1>1, <1>2, ConcatProperties
  <2>. QED
    BY <1>1, <1>2, <2>1
<1> HIDE DEF t
<1>7. SpokenWhole(t, v, n)
  <2>1. Len(t) >= 3
    BY <1>2, <1>3
  <2>2. SpokenUpTo(SubSeq(t, 1, Len(t) - 1), v, n)
    BY <1>5, Zenon
  <2>. QED
    BY <1>6, <2>1, <2>2, Zenon DEF SpokenWhole
<1>. QED
  BY <1>2, <1>7 DEF t, x

\* What With does to a function over the routers.
Becomes(f, g, r, x) ==
  DOMAIN g = Routers /\ g[r] = x /\ \A q \in Routers \ {r} : g[q] = f[q]

LEMMA OneChanges ==
  ASSUME NEW f, DOMAIN f = Routers, NEW r \in Routers, NEW g
  PROVE  /\ \A x : g = [f EXCEPT ![r] = x] => Becomes(f, g, r, x)
         /\ g = f => Becomes(f, g, r, f[r])
BY DEF Becomes

LEMMA FoundVoices ==
  ASSUME RoutingTypeOK, NEW r \in Routers, NEW v, NEW text \in [length : Nat, sound : BOOLEAN],
         FindVoice(r, text, v)
  PROVE  v \in Voices[r] /\ v # "none" /\ told' \in Languages /\ ownFound' \in [Routers -> Languages]
<1> USE RoutersAssumption DEF RoutingTypeOK
<1>1. CASE ~text.sound
  BY <1>1 DEF FindVoice
<1>2. CASE text.sound
  <2>1. PICK l \in Findings(text) :
          /\ v = IF l \in Voices[r] THEN l ELSE DefaultOf[r]
          /\ told' = l
          /\ ownFound' = [ownFound EXCEPT ![r] = IF text.length >= Tellable THEN l ELSE ownFound[r]]
    BY <1>2 DEF FindVoice, With
  <2>2. l \in Languages
    BY <2>1 DEF Findings
  <2>. QED
    BY <2>1, <2>2
<1>. QED
  BY <1>1, <1>2

\* A step of one router: it is enough to look at what it changes of that router.
LEMMA OneRouter ==
  ASSUME RoutingInv, NEW r \in Routers,
         NEW p, NEW v, NEW g, NEW a, NEW s,
         progress' = [progress EXCEPT ![r] = p],
         gathered' = [gathered EXCEPT ![r] = g], response' = [response EXCEPT ![r] = a],
         Becomes(voice, voice', r, v), Becomes(played, played', r, s),
         told' \in Languages, ownFound' \in [Routers -> Languages],
         p \in BOOLEAN, v \in Voices[r] \union {"none"}, g \in [length : Nat, sound : BOOLEAN],
         a \in Responses, s \in Seq(Frames(r)),
         p => ~a.over,
         p /\ ~a.broken /\ v # "none" => SpokenUpTo(s, v, a.tokens),
         p /\ ~a.broken /\ v = "none" => s = <<>> /\ g.sound = a.sound,
         a.over /\ a.sound /\ ~a.broken => \E w \in Voices[r] : SpokenWhole(s, w, a.tokens)
  PROVE  RoutingInv'
<1>1. /\ DOMAIN progress = Routers /\ DOMAIN voice = Routers /\ DOMAIN gathered = Routers
      /\ DOMAIN response = Routers /\ DOMAIN played = Routers
  BY DEF RoutingInv, RoutingTypeOK
<1>2. /\ progress'[r] = p /\ \A q \in Routers \ {r} : progress'[q] = progress[q]
      /\ voice'[r] = v /\ \A q \in Routers \ {r} : voice'[q] = voice[q]
      /\ gathered'[r] = g /\ \A q \in Routers \ {r} : gathered'[q] = gathered[q]
      /\ response'[r] = a /\ \A q \in Routers \ {r} : response'[q] = response[q]
      /\ played'[r] = s /\ \A q \in Routers \ {r} : played'[q] = played[q]
      /\ DOMAIN voice' = Routers /\ DOMAIN played' = Routers
  BY <1>1 DEF Becomes
<1>3. \A q \in Routers :
        voice'[q] \in Voices[q] \union {"none"} /\ played'[q] \in Seq(Frames(q))
  <2>1. \A q \in Routers : voice[q] \in Voices[q] \union {"none"} /\ played[q] \in Seq(Frames(q))
    BY DEF RoutingInv, RoutingTypeOK, Frames
  <2>. QED
    BY <1>2, <2>1
<1>4. /\ progress' \in [Routers -> BOOLEAN] /\ gathered' \in [Routers -> [length : Nat, sound : BOOLEAN]]
      /\ response' \in [Routers -> Responses]
  BY DEF RoutingInv, RoutingTypeOK, Responses
<1>5. RoutingTypeOK'
  BY <1>2, <1>3, <1>4 DEF RoutingTypeOK, Frames, Responses
<1>6. RouterOK(r)'
  BY <1>2, Zenon DEF RouterOK
<1>7. \A q \in Routers \ {r} : RouterOK(q)'
  <2>. SUFFICES ASSUME NEW q \in Routers \ {r} PROVE RouterOK(q)'
    OBVIOUS
  <2>1. RouterOK(q)
    BY DEF RoutingInv
  <2>2. /\ progress'[q] = progress[q] /\ voice'[q] = voice[q] /\ gathered'[q] = gathered[q]
        /\ response'[q] = response[q] /\ played'[q] = played[q]
    BY <1>2
  <2>. QED
    BY <2>1, <2>2, Zenon DEF RouterOK
<1>. QED
  BY <1>5, <1>6, <1>7 DEF RoutingInv

LEMMA RoutingStarts == RoutingInit => RoutingInv
<1>. SUFFICES ASSUME RoutingInit PROVE RoutingInv
  OBVIOUS
<1>. USE RoutersAssumption, LengthsAssumption DEF RoutingInit, NoText, NoResponse
<1>1. RoutingTypeOK
  BY DEF RoutingTypeOK
<1>2. \A r \in Routers : RouterOK(r)
  BY DEF RouterOK
<1>. QED
  BY <1>1, <1>2 DEF RoutingInv

\* What a step does to a response when a service fails with it or has before: nothing is
\* kept of it, and the router goes on.
LEMMA BrokenKeeps ==
  ASSUME RoutingInv, NEW r \in Routers,
         NEW p \in BOOLEAN, NEW v \in Voices[r] \union {"none"}, NEW g \in [length : Nat, sound : BOOLEAN],
         progress' = [progress EXCEPT ![r] = p], gathered' = [gathered EXCEPT ![r] = g],
         Becomes(voice, voice', r, v), With(response, r, Broken), With(played, r, <<>>),
         told' \in Languages, ownFound' \in [Routers -> Languages]
  PROVE  RoutingInv'
<1>1. Broken \in Responses /\ Broken.broken = TRUE /\ Broken.over = FALSE
  BY LengthsAssumption DEF Broken, Responses
<1>2. DOMAIN played = Routers
  BY DEF RoutingInv, RoutingTypeOK
<1>3. response' = [response EXCEPT ![r] = Broken] /\ Becomes(played, played', r, <<>>)
  BY <1>2, OneChanges DEF With
<1>4. <<>> \in Seq(Frames(r))
  OBVIOUS
<1>. QED
  BY <1>1, <1>3, <1>4, OneRouter

\* What a step that fails nowhere finds.
LEMMA WholeGoesOn ==
  ASSUME RoutingInv, NEW r \in Routers, NEW fails \in BOOLEAN, ~Breaks(r, fails)
  PROVE  /\ ~fails /\ ~Latest(r).broken /\ Latest(r) \in Responses /\ Latest(r).over = FALSE
         /\ Had(r) \in Seq(Frames(r))
         /\ ~progress[r] => Had(r) = <<>> /\ Latest(r).sound = FALSE /\ Latest(r).tokens = 0
         /\ progress[r] => Had(r) = played[r] /\ Latest(r) = response[r]
<1>1. RoutingTypeOK /\ RouterOK(r)
  BY DEF RoutingInv
<1>2. /\ DOMAIN played = Routers /\ played[r] \in Seq(Frames(r)) /\ <<>> \in Seq(Frames(r))
      /\ progress[r] \in BOOLEAN /\ response[r] \in Responses
  BY <1>1 DEF RoutingTypeOK, Frames, Responses
<1>3. NoResponse \in Responses /\ NoResponse.sound = FALSE /\ NoResponse.over = FALSE /\ NoResponse.tokens = 0
  BY LengthsAssumption DEF NoResponse, Responses
<1>4. /\ ~progress[r] => Had(r) = <<>> /\ Latest(r) = NoResponse
      /\ progress[r] => Had(r) = played[r] /\ Latest(r) = response[r]
  BY DEF Had, Latest
<1>5. ~fails /\ ~Latest(r).broken
  BY DEF Breaks
<1>6. progress[r] => response[r].over = FALSE
  BY <1>1, <1>2 DEF RouterOK, Responses
<1>. QED
  BY <1>2, <1>3, <1>4, <1>5, <1>6

LEMMA ResponseStartsKeeps ==
  ASSUME RoutingInv, NEW r \in Routers, ResponseStarts(r)
  PROVE  RoutingInv'
<1>1. NoText \in [length : Nat, sound : BOOLEAN] /\ NoText.sound = FALSE
  BY DEF NoText
<1>2. /\ NoResponse \in Responses
      /\ NoResponse.sound = FALSE /\ NoResponse.over = FALSE
  BY LengthsAssumption DEF NoResponse, Responses
<1>3. told' \in Languages /\ ownFound' \in [Routers -> Languages]
  BY DEF RoutingInv, RoutingTypeOK, ResponseStarts
<1>4. <<>> \in Seq(Frames(r))
  OBVIOUS
<1>5. Becomes(voice, voice', r, "none") /\ Becomes(played, played', r, <<>>)
  BY OneChanges DEF ResponseStarts, With, RoutingInv, RoutingTypeOK
<1>. QED
  BY <1>1, <1>2, <1>3, <1>4, <1>5, OneRouter DEF ResponseStarts, With

\* A token of a response in which no service has failed.
LEMMA CountedToken ==
  ASSUME RoutingInv, NEW r \in Routers, NEW t \in Tokens, NEW fails \in BOOLEAN,
         Count(r, t, fails), ~Breaks(r, fails), Latest(r).tokens < MaxSpoken
  PROVE  \E a \in Responses :
           /\ response' = [response EXCEPT ![r] = a]
           /\ a.tokens = Latest(r).tokens + 1 /\ a.sound = (Latest(r).sound \/ t[2])
           /\ a.over = FALSE /\ a.broken = FALSE
<1> DEFINE a == [Latest(r) EXCEPT !.tokens = @ + 1, !.sound = @ \/ t[2]]
<1>1. t[2] \in BOOLEAN /\ MaxSpoken \in Nat
  BY TokensAssumption, LengthsAssumption
<1>2. Latest(r) \in Responses /\ ~Latest(r).broken /\ Latest(r).over = FALSE
  BY WholeGoesOn
<1>3. response' = [response EXCEPT ![r] = a]
  BY DEF Count, Respond, With
<1>4. Latest(r).tokens + 1 \in 0 .. MaxSpoken
  BY <1>1, <1>2 DEF Responses
<1>5. (Latest(r).sound \/ t[2]) \in BOOLEAN
  OBVIOUS
<1>6. a.tokens = Latest(r).tokens + 1 /\ a.over = FALSE /\ a.broken = Latest(r).broken
  BY <1>2 DEF Responses
<1>7. a.sound = (Latest(r).sound \/ t[2])
  BY <1>2, Zenon DEF Responses
<1>8. a \in Responses /\ a.broken = FALSE
  BY <1>2, <1>4, <1>5, <1>6 DEF Responses
<1>. QED
  BY <1>3, <1>6, <1>7, <1>8

LEMMA TokenKeeps ==
  ASSUME RoutingInv, NEW r \in Routers, NEW t \in Tokens, NEW fails \in BOOLEAN, Token(r, t, fails)
  PROVE  RoutingInv'
<1> DEFINE text == Longer(gathered[r], t)
           n == response[r].tokens + 1
           counted == [Latest(r) EXCEPT !.tokens = @ + 1, !.sound = @ \/ t[2]]
<1>1. RoutingTypeOK /\ RouterOK(r)
  BY DEF RoutingInv
<1>2. t[1] \in Nat /\ t[2] \in BOOLEAN
  BY TokensAssumption
<1>3. gathered[r] \in [length : Nat, sound : BOOLEAN]
  BY <1>1 DEF RoutingTypeOK
<1>4. /\ text \in [length : Nat, sound : BOOLEAN] /\ text.sound = (gathered[r].sound \/ t[2])
      /\ NoText \in [length : Nat, sound : BOOLEAN]
  BY <1>2, <1>3 DEF Longer, NoText
<1>5. response[r] \in Responses /\ n \in Nat
  <2>1. response[r] \in Responses
    BY <1>1 DEF RoutingTypeOK, Responses
  <2>. QED
    BY <2>1, LengthsAssumption DEF Responses
<1>6. progress[r] /\ response[r].tokens < MaxSpoken /\ Latest(r) = response[r] /\ Count(r, t, fails)
  BY DEF Token, Latest
<1>7. progress[r] = TRUE /\ progress' = [progress EXCEPT ![r] = TRUE]
  BY <1>1, <1>6 DEF Token, RoutingTypeOK
<1>8. /\ voice[r] \in Voices[r] \union {"none"} /\ DOMAIN voice = Routers
      /\ gathered = [gathered EXCEPT ![r] = gathered[r]]
      /\ told \in Languages /\ ownFound \in [Routers -> Languages]
  BY <1>1 DEF RoutingTypeOK
<1>9. Respond(r, counted, fails)
  BY <1>6 DEF Count
<1>12. Breaks(r, fails) => With(response, r, Broken)
  BY <1>9 DEF Respond
<1>10. ~Breaks(r, fails) => \E a \in Responses :
           /\ response' = [response EXCEPT ![r] = a]
           /\ a.tokens = n /\ a.sound = (response[r].sound \/ t[2]) /\ a.over = FALSE /\ a.broken = FALSE
  <2>. SUFFICES ASSUME ~Breaks(r, fails)
                PROVE  \E a \in Responses :
                         /\ response' = [response EXCEPT ![r] = a]
                         /\ a.tokens = n /\ a.sound = (response[r].sound \/ t[2]) /\ a.over = FALSE /\ a.broken = FALSE
    OBVIOUS
  <2>1. PICK a \in Responses :
          /\ response' = [response EXCEPT ![r] = a]
          /\ a.tokens = Latest(r).tokens + 1 /\ a.sound = (Latest(r).sound \/ t[2])
          /\ a.over = FALSE /\ a.broken = FALSE
    BY <1>6, CountedToken, Zenon
  <2>. QED
    BY <1>6, <2>1, Zenon
<1>11. ~Breaks(r, fails) => ~response[r].broken /\ Had(r) = played[r] /\ played[r] \in Seq(Frames(r))
  BY <1>6, WholeGoesOn
<1> HIDE DEF text, n, counted
<1>13. ASSUME NEW v \in Voices[r], voice[r] = "none", FindVoice(r, text, v), With(gathered, r, NoText),
              With(voice, r, v), Play(r, <<Start(v), Text(v, 1, n)>>, fails)
       PROVE  RoutingInv'
  <2>1. /\ v # "none" /\ told' \in Languages /\ ownFound' \in [Routers -> Languages]
        /\ Becomes(voice, voice', r, v) /\ gathered' = [gathered EXCEPT ![r] = NoText]
    BY <1>1, <1>4, <1>8, <1>13, FoundVoices, OneChanges DEF With
  <2>2. CASE Breaks(r, fails)
    <3>1. With(response, r, Broken) /\ With(played, r, <<>>)
      BY <1>12, <1>13, <2>2 DEF Play
    <3>. QED
      BY <1>4, <1>7, <1>13, <2>1, <3>1, BrokenKeeps
  <2>3. CASE ~Breaks(r, fails)
    <3> DEFINE s == <<Start(v), Text(v, 1, n)>>
    <3>1. s \in Seq(Frames(r)) /\ SpokenUpTo(s, v, n)
      BY <1>5, SpeechBegins
    <3> HIDE DEF s
    <3>2. Had(r) \o s = s
      BY <1>1, <1>6, <1>11, <1>13, <2>3, <3>1, ConcatEmptySeq DEF RouterOK
    <3>3. Becomes(played, played', r, s)
      <4>1. played' = [played EXCEPT ![r] = s]
        BY <1>13, <2>3, <3>2 DEF Play, With, s
      <4>. QED
        BY <1>1, <4>1, OneChanges DEF RoutingTypeOK
    <3>. QED
      BY <1>4, <1>7, <1>10, <2>1, <2>3, <3>1, <3>3, OneRouter
  <2>. QED
    BY <2>2, <2>3
<1>14. ASSUME voice[r] = "none", With(gathered, r, text), ~fails, UNCHANGED <<told, ownFound, voice, played>>
       PROVE  RoutingInv'
  <2>1. /\ Becomes(voice, voice', r, "none") /\ told' \in Languages /\ ownFound' \in [Routers -> Languages]
        /\ gathered' = [gathered EXCEPT ![r] = text]
    BY <1>8, <1>14, OneChanges DEF With
  <2>2. DOMAIN played = Routers /\ played[r] \in Seq(Frames(r)) /\ <<>> \in Seq(Frames(r))
    BY <1>1 DEF RoutingTypeOK, Frames
  <2>3. CASE Breaks(r, fails)
    <3>1. Broken \in Responses /\ Broken.broken = TRUE /\ Broken.over = FALSE
      BY LengthsAssumption DEF Broken, Responses
    <3>2. response' = [response EXCEPT ![r] = Broken] /\ Becomes(played, played', r, played[r])
      BY <1>9, <1>14, <2>2, <2>3, OneChanges DEF Respond, With
    <3>. QED
      BY <1>4, <1>7, <2>1, <2>2, <3>1, <3>2, OneRouter
  <2>4. CASE ~Breaks(r, fails)
    <3>1. played[r] = <<>> /\ gathered[r].sound = response[r].sound
      BY <1>1, <1>6, <1>11, <1>14, <2>4 DEF RouterOK
    <3>2. Becomes(played, played', r, <<>>)
      BY <1>14, <2>2, <3>1, OneChanges
    <3>3. text.sound = (response[r].sound \/ t[2])
      BY <1>4, <3>1
    <3>. QED
      BY <1>4, <1>7, <1>10, <2>1, <2>2, <2>4, <3>2, <3>3, OneRouter
  <2>. QED
    BY <2>3, <2>4
<1>15. ASSUME voice[r] # "none", Play(r, <<Text(voice[r], n, n)>>, fails), UNCHANGED <<told, ownFound, voice, gathered>>
       PROVE  RoutingInv'
  <2>1. /\ Becomes(voice, voice', r, voice[r]) /\ told' \in Languages /\ ownFound' \in [Routers -> Languages]
        /\ gathered' = [gathered EXCEPT ![r] = gathered[r]]
    BY <1>8, <1>15, OneChanges
  <2>2. CASE Breaks(r, fails)
    <3>1. With(response, r, Broken) /\ With(played, r, <<>>)
      BY <1>12, <1>15, <2>2 DEF Play
    <3>. QED
      BY <1>3, <1>7, <1>8, <2>1, <3>1, BrokenKeeps
  <2>3. CASE ~Breaks(r, fails)
    <3> DEFINE s == played[r] \o <<Text(voice[r], n, n)>>
    <3>1. SpokenUpTo(played[r], voice[r], response[r].tokens) /\ response[r].tokens \in Nat
      BY <1>1, <1>5, <1>6, <1>11, <1>15, <2>3, LengthsAssumption DEF RouterOK, Responses
    <3>2. s \in Seq(Frames(r)) /\ SpokenUpTo(s, voice[r], n)
      BY <1>8, <1>11, <1>15, <2>3, <3>1, SpeechGoesOn DEF n
    <3>3. Becomes(played, played', r, s)
      <4>1. played' = [played EXCEPT ![r] = s]
        BY <1>11, <1>15, <2>3 DEF Play, With
      <4> HIDE DEF s
      <4>. QED
        BY <1>1, <4>1, OneChanges DEF RoutingTypeOK
    <3> HIDE DEF s
    <3>4. PICK a \in Responses :
            response' = [response EXCEPT ![r] = a] /\ a.tokens = n /\ a.over = FALSE /\ a.broken = FALSE
      BY <1>10, <2>3
    <3>. QED
      BY <1>3, <1>7, <1>8, <1>15, <2>1, <3>2, <3>3, <3>4, OneRouter
  <2>. QED
    BY <2>2, <2>3
<1>16. \/ \E v \in Voices[r] :
            /\ voice[r] = "none" /\ FindVoice(r, text, v) /\ With(gathered, r, NoText) /\ With(voice, r, v)
            /\ Play(r, <<Start(v), Text(v, 1, n)>>, fails)
       \/ voice[r] = "none" /\ With(gathered, r, text) /\ ~fails /\ UNCHANGED <<told, ownFound, voice, played>>
       \/ voice[r] # "none" /\ Play(r, <<Text(voice[r], n, n)>>, fails) /\ UNCHANGED <<told, ownFound, voice, gathered>>
  BY DEF Token, text, n
<1>. QED
  BY <1>13, <1>14, <1>15, <1>16

LEMMA StrayTokenKeeps ==
  ASSUME RoutingInv, NEW r \in Routers, NEW t \in Tokens, NEW fails \in BOOLEAN, StrayToken(r, t, fails)
  PROVE  RoutingInv'
<1>1. RoutingTypeOK /\ DOMAIN voice = Routers
  BY DEF RoutingInv, RoutingTypeOK
<1>2. Longer(NoText, t) \in [length : Nat, sound : BOOLEAN] /\ NoText \in [length : Nat, sound : BOOLEAN]
  BY TokensAssumption DEF Longer, NoText
<1>3. PICK v \in Voices[r] :
        /\ FindVoice(r, Longer(NoText, t), v) /\ With(voice, r, v) /\ With(gathered, r, NoText)
        /\ Play(r, <<Start(v), Text(v, 1, 1)>>, fails)
  BY DEF StrayToken
<1>4. v # "none" /\ told' \in Languages /\ ownFound' \in [Routers -> Languages]
  BY <1>1, <1>2, <1>3, FoundVoices
<1>5. /\ progress' = [progress EXCEPT ![r] = TRUE] /\ gathered' = [gathered EXCEPT ![r] = NoText]
      /\ Becomes(voice, voice', r, v) /\ ~progress[r] /\ Count(r, t, fails)
  BY <1>1, <1>3, OneChanges DEF StrayToken, With
<1>6. CASE Breaks(r, fails)
  <2>1. With(response, r, Broken) /\ With(played, r, <<>>)
    BY <1>3, <1>5, <1>6 DEF Count, Respond, Play
  <2>. QED
    BY <1>2, <1>4, <1>5, <2>1, BrokenKeeps
<1>7. CASE ~Breaks(r, fails)
  <2> DEFINE s == <<Start(v), Text(v, 1, 1)>>
  <2>1. s \in Seq(Frames(r)) /\ SpokenUpTo(s, v, 1)
    BY SpeechBegins
  <2> HIDE DEF s
  <2>2. Had(r) = <<>> /\ Latest(r).tokens = 0
    BY <1>5, <1>7, WholeGoesOn
  <2>3. Becomes(played, played', r, s)
    <3>1. Had(r) \o s = s
      BY <2>1, <2>2, ConcatEmptySeq
    <3>2. played' = [played EXCEPT ![r] = s]
      BY <1>3, <1>7, <3>1 DEF Play, With, s
    <3>. QED
      BY <1>1, <3>2, OneChanges DEF RoutingTypeOK
  <2>4. Latest(r).tokens < MaxSpoken /\ Latest(r).tokens + 1 = 1
    BY <2>2, LengthsAssumption
  <2>5. PICK a \in Responses :
          response' = [response EXCEPT ![r] = a] /\ a.tokens = 1 /\ a.over = FALSE /\ a.broken = FALSE
    <3>1. PICK a \in Responses :
            /\ response' = [response EXCEPT ![r] = a] /\ a.tokens = Latest(r).tokens + 1
            /\ a.over = FALSE /\ a.broken = FALSE
      BY <1>5, <1>7, <2>4, CountedToken, Zenon
    <3>. QED
      BY <2>4, <3>1
  <2>. QED
    BY <1>2, <1>4, <1>5, <2>1, <2>3, <2>5, OneRouter
<1>. QED
  BY <1>6, <1>7

LEMMA ResponseEndsKeeps ==
  ASSUME RoutingInv, NEW r \in Routers, NEW fails \in BOOLEAN, ResponseEnds(r, fails)
  PROVE  RoutingInv'
<1> DEFINE n == Latest(r).tokens
           a == [Latest(r) EXCEPT !.over = TRUE]
<1>1. RoutingTypeOK /\ RouterOK(r)
  BY DEF RoutingInv
<1>2. /\ NoText \in [length : Nat, sound : BOOLEAN] /\ gathered[r] \in [length : Nat, sound : BOOLEAN]
      /\ told \in Languages /\ ownFound \in [Routers -> Languages]
      /\ DOMAIN voice = Routers /\ DOMAIN played = Routers /\ voice[r] \in Voices[r] \union {"none"}
  BY <1>1 DEF RoutingTypeOK, NoText
<1>3. PICK v \in Voices[r] \union {"none"} : Finish(r, v, fails) /\ With(voice, r, IF fails THEN v ELSE "none")
  BY DEF ResponseEnds
<1>4. /\ progress' = [progress EXCEPT ![r] = FALSE] /\ gathered' = [gathered EXCEPT ![r] = NoText]
      /\ Respond(r, a, fails)
  BY DEF ResponseEnds, With
<1>5. PICK u \in Voices[r] \union {"none"} : Becomes(voice, voice', r, u)
  BY <1>2, <1>3, OneChanges DEF With
<1>6. told' \in Languages /\ ownFound' \in [Routers -> Languages]
  <2>1. CASE UNCHANGED <<told, ownFound>>
    BY <1>2, <2>1
  <2>2. CASE FindVoice(r, gathered[r], v)
    BY <1>1, <1>2, <2>2, FoundVoices
  <2>. QED
    BY <1>3, <2>1, <2>2 DEF Finish
<1>7. DefaultOf[r] \in Voices[r]
  BY RoutersAssumption
<1>10. \/ voice[r] # "none" /\ Play(r, <<End(voice[r])>>, fails)
       \/ voice[r] = "none" /\ gathered[r].sound /\ v \in Voices[r] /\ Play(r, <<Start(v), Text(v, 1, n), End(v)>>, fails)
       \/ voice[r] = "none" /\ ~gathered[r].sound /\ With(played, r, Had(r))
       \/ voice[r] = "none" /\ ~gathered[r].sound /\ Play(r, <<End(DefaultOf[r])>>, fails)
  <2>1. CASE voice[r] # "none" /\ v = voice[r] /\ Play(r, <<End(v)>>, fails)
    BY <2>1 DEF Play
  <2>. QED
    BY <1>3, <2>1 DEF Finish
<1>8. CASE Breaks(r, fails)
  <2>1. CASE With(played, r, <<>>)
    <3>1. With(response, r, Broken)
      BY <1>4, <1>8 DEF Respond
    <3>. QED
      BY <1>2, <1>4, <1>5, <1>6, <2>1, <3>1, BrokenKeeps
  <2>2. CASE With(played, r, Had(r))
    <3>1. Broken \in Responses /\ Broken.broken = TRUE /\ Broken.over = FALSE
      BY LengthsAssumption DEF Broken, Responses
    <3>2. Had(r) \in Seq(Frames(r))
      BY <1>1 DEF Had, RoutingTypeOK, Frames
    <3>3. response' = [response EXCEPT ![r] = Broken] /\ Becomes(played, played', r, Had(r))
      BY <1>2, <1>4, <1>8, <2>2, OneChanges DEF Respond, With
    <3>. QED
      BY <1>2, <1>4, <1>5, <1>6, <3>1, <3>2, <3>3, OneRouter
  <2>. QED
    BY <1>8, <1>10, <2>1, <2>2 DEF Play
<1>9. CASE ~Breaks(r, fails)
  <2>1. /\ Latest(r) \in Responses /\ ~Latest(r).broken /\ Had(r) \in Seq(Frames(r))
        /\ ~progress[r] => Had(r) = <<>> /\ Latest(r).sound = FALSE
        /\ progress[r] => Had(r) = played[r] /\ Latest(r) = response[r]
    BY <1>9, WholeGoesOn
  <2>8. response' = [response EXCEPT ![r] = a]
    BY <1>4, <1>9 DEF Respond, With
  <2>2. n \in Nat
    BY <2>1, LengthsAssumption DEF Responses
  <2>3. a \in Responses /\ a.tokens = n /\ a.sound = Latest(r).sound
    BY <2>1 DEF Responses
  <2> HIDE DEF a, n
  <2>4. ASSUME NEW s \in Seq(Frames(r)), Becomes(played, played', r, s),
               Latest(r).sound => \E w \in Voices[r] : SpokenWhole(s, w, n)
        PROVE  RoutingInv'
    BY <1>2, <1>4, <1>5, <1>6, <2>1, <2>3, <2>4, <2>8, OneRouter
  <2>5. CASE voice[r] # "none" /\ Play(r, <<End(voice[r])>>, fails)
    <3> DEFINE s == Had(r) \o <<End(voice[r])>>
    <3>1. Becomes(played, played', r, s) /\ voice[r] \in Voices[r]
      <4>1. played' = [played EXCEPT ![r] = s]
        BY <1>9, <2>5 DEF Play, With
      <4> HIDE DEF s
      <4>. QED
        BY <1>2, <2>5, <4>1, OneChanges
    <3>2. <<End(voice[r])>> \in Seq(Frames(r))
      BY <3>1, 0 \in Nat, FramesAreTyped
    <3>3. s \in Seq(Frames(r))
      BY <2>1, <3>2, ConcatProperties
    <3>4. CASE progress[r]
      <4>1. SpokenUpTo(Had(r), voice[r], n)
        BY <1>1, <2>1, <2>5, <3>4 DEF RouterOK, n
      <4>2. SpokenWhole(s, voice[r], n)
        BY <2>1, <2>2, <3>1, <4>1, SpeechEnds
      <4> HIDE DEF s
      <4>. QED
        BY <2>4, <3>1, <3>3, <4>2
    <3>5. CASE ~progress[r]
      <4> HIDE DEF s
      <4>. QED
        BY <2>1, <2>4, <3>1, <3>3, <3>5
    <3>. QED
      BY <3>4, <3>5
  <2>6. CASE /\ voice[r] = "none" /\ v \in Voices[r]
             /\ Play(r, <<Start(v), Text(v, 1, n), End(v)>>, fails)
    <3> DEFINE b == <<Start(v), Text(v, 1, n)>>
               s == b \o <<End(v)>>
    <3>1. b \in Seq(Frames(r)) /\ SpokenUpTo(b, v, n)
      BY <2>2, <2>6, SpeechBegins
    <3>2. <<Start(v), Text(v, 1, n), End(v)>> = s
      OBVIOUS
    <3> HIDE DEF b
    <3>3. s \in Seq(Frames(r)) /\ SpokenWhole(s, v, n)
      BY <2>2, <2>6, <3>1, SpeechEnds
    <3> HIDE DEF s
    <3>4. Had(r) = <<>>
      BY <1>1, <2>1, <2>6 DEF RouterOK
    <3>5. Becomes(played, played', r, s)
      <4>1. Had(r) \o s = s
        BY <3>3, <3>4, ConcatEmptySeq
      <4>2. played' = [played EXCEPT ![r] = s]
        BY <1>9, <2>6, <3>2, <4>1 DEF Play, With
      <4>. QED
        BY <1>2, <4>2, OneChanges
    <3>. QED
      BY <2>4, <2>6, <3>3, <3>5
  <2>7. CASE voice[r] = "none" /\ ~gathered[r].sound
    <3>1. Had(r) = <<>> /\ ~Latest(r).sound
      BY <1>1, <2>1, <2>7 DEF RouterOK
    <3>2. CASE With(played, r, Had(r))
      <4>1. Becomes(played, played', r, Had(r))
        BY <1>2, <3>2, OneChanges DEF With
      <4>. QED
        BY <2>1, <2>4, <3>1, <4>1
    <3>3. CASE Play(r, <<End(DefaultOf[r])>>, fails)
      <4>1. <<End(DefaultOf[r])>> \in Seq(Frames(r))
        BY <1>7, 0 \in Nat, FramesAreTyped
      <4>2. Becomes(played, played', r, <<End(DefaultOf[r])>>)
        <5>1. Had(r) \o <<End(DefaultOf[r])>> = <<End(DefaultOf[r])>>
          BY <3>1, <4>1, ConcatEmptySeq
        <5>2. played' = [played EXCEPT ![r] = <<End(DefaultOf[r])>>]
          BY <1>9, <3>3, <5>1 DEF Play, With
        <5>. QED
          BY <1>2, <5>2, OneChanges
      <4>. QED
        BY <2>4, <3>1, <4>1, <4>2
    <3>. QED
      BY <1>10, <2>7, <3>2, <3>3
  <2>. QED
    <3>1. \/ voice[r] # "none" /\ Play(r, <<End(voice[r])>>, fails)
          \/ voice[r] = "none" /\ v \in Voices[r] /\ Play(r, <<Start(v), Text(v, 1, n), End(v)>>, fails)
          \/ voice[r] = "none" /\ ~gathered[r].sound
      BY <1>10 DEF n
    <3>. QED
      BY <2>5, <2>6, <2>7, <3>1
<1>. QED
  BY <1>8, <1>9

LEMMA RoutingSteps == RoutingInv /\ [RoutingNext]_routingVars => RoutingInv'
<1>. SUFFICES ASSUME RoutingInv, [RoutingNext]_routingVars PROVE RoutingInv'
  OBVIOUS
<1>1. ASSUME UNCHANGED <<progress, voice, gathered, response, played>>,
             told' \in Languages, ownFound' \in [Routers -> Languages]
      PROVE  RoutingInv'
  BY <1>1 DEF RoutingInv, RoutingTypeOK, RouterOK
<1>2. ASSUME NEW r \in Routers, NEW t \in Tokens, SpeakSentence(r, t) PROVE RoutingInv'
  <2>1. PICK v \in Voices[r] : FindVoice(r, Longer(NoText, t), v)
    BY <1>2 DEF SpeakSentence
  <2>2. Longer(NoText, t) \in [length : Nat, sound : BOOLEAN]
    BY TokensAssumption DEF Longer, NoText
  <2>3. told' \in Languages /\ ownFound' \in [Routers -> Languages]
    BY <2>1, <2>2, FoundVoices DEF RoutingInv
  <2>. QED
    BY <1>1, <1>2, <2>3 DEF SpeakSentence
<1>3. CASE UNCHANGED routingVars
  BY <1>1, <1>3 DEF routingVars, RoutingInv, RoutingTypeOK
<1>. QED
  BY <1>2, <1>3, ResponseStartsKeeps, ResponseEndsKeeps, TokenKeeps, StrayTokenKeeps DEF RoutingNext

LEMMA RoutingInvariant == SpeechRoutingSpec => []RoutingInv
BY RoutingStarts, RoutingSteps, PTL DEF SpeechRoutingSpec

\* The types; a router has a voice of its own call, or none.
THEOREM RoutingTypeCorrect == SpeechRoutingSpec => []RoutingTypeOK
<1>1. RoutingInv => RoutingTypeOK
  BY DEF RoutingInv
<1>. QED
  BY <1>1, RoutingInvariant, PTL

\* multi_tts_router.py: for any calls, voices, languages and tokens, a response that is
\* over was spoken whole and in order by one service, although the language of a short
\* text is found for the whole process.
THEOREM ResponsesAreSpokenWhole == SpeechRoutingSpec => []ResponseIsSpokenWhole
<1>1. RoutingInv => ResponseIsSpokenWhole
  <2>. SUFFICES ASSUME RoutingInv, NEW r \in Routers, response[r].over, response[r].sound, ~response[r].broken
               PROVE  \E v \in Voices[r] : SpokenBy(r, v)
    BY DEF ResponseIsSpokenWhole
  <2>1. PICK v \in Voices[r] : SpokenWhole(played[r], v, response[r].tokens)
    BY DEF RoutingInv, RouterOK
  <2> DEFINE m == Len(played[r])
             b == SubSeq(played[r], 1, m - 1)
  <2>2. played[r] \in Seq(Frames(r))
    BY DEF RoutingInv, RoutingTypeOK, Frames
  <2>3. m \in Nat /\ m >= 3 /\ SpokenUpTo(b, v, response[r].tokens) /\ played[r][m] = End(v)
    BY <2>1, <2>2, LenProperties DEF SpokenWhole
  <2>4. \A i \in 1 .. m - 1 : played[r][i] \in Frames(r)
    BY <2>2, <2>3, ElementOfSeq
  <2>5. Len(b) = m - 1 /\ \A i \in 1 .. m - 1 : b[i] = played[r][i]
    <3>1. m - 1 \in Int /\ 1 \in Int /\ 1 <= m - 1 /\ (m - 1) - 1 + 1 = m - 1
      BY <2>3
    <3>2. /\ Len(b) = IF 1 <= m - 1 THEN (m - 1) - 1 + 1 ELSE 0
          /\ \A i \in 1 .. (m - 1) - 1 + 1 : b[i] = played[r][1 + i - 1]
      BY <2>4, <3>1, SubSeqProperties
    <3>. QED
      BY <3>1, <3>2
  <2> HIDE DEF b
  <2>6. Continued(b, v) /\ b[m - 1].upto = response[r].tokens
    BY <2>3, <2>5 DEF SpokenUpTo
  <2>7. played[r][m - 1].upto = response[r].tokens
    BY <2>3, <2>5, <2>6
  <2>. QED
    BY <2>3, <2>6, <2>7 DEF SpokenBy, b
<1>. QED
  BY <1>1, RoutingInvariant, PTL

-----------------------------------------------------------------------------
(* TextChat.                                                                 *)

LEMMA AddedIsRecorded ==
  ASSUME transcript \in Seq(Messages), NEW m \in Messages, AddMessage(m)
  PROVE  transcript' \in Seq(Messages) /\ Range(transcript') = Range(transcript) \union {m}
<1>1. CASE Repeated(m, transcript)
  BY <1>1 DEF AddMessage, Repeated, Range
<1>2. CASE ~Repeated(m, transcript)
  <2>1. transcript' = Append(transcript, m)
    BY <1>2 DEF AddMessage
  <2>2. /\ DOMAIN transcript' = DOMAIN transcript \union {Len(transcript) + 1}
        /\ \A i \in DOMAIN transcript : transcript'[i] = transcript[i]
        /\ transcript'[Len(transcript) + 1] = m
    BY <2>1
  <2>. QED
    BY <2>1, <2>2 DEF Range
<1>. QED
  BY <1>1, <1>2

UnderWay == IF worker = "sends" THEN {Says("assistant", answer)} ELSE {}

\* The pipeline runs no longer when the session is ended; until then nothing is summed
\* up, and what the client has got is recorded or under way.
ChatInv ==
  /\ ChatTypeOK
  /\ handler \in {"open", "config", "setup"} => worker = "none"
  /\ handler \in {"ends", "sums", "saves", "closes", "over"} => worker \in {"none", "over"}
  /\ cutOff => handler \in {"ends", "sums", "saves", "closes", "over"}
  /\ cutOff \/ exchanged \subseteq Range(transcript) \union UnderWay
  /\ summarised = {} \/ (handler \in {"saves", "closes", "over"} /\ summarised = {transcript})
  /\ savedTranscript = {} \/ (handler \in {"closes", "over"} /\ savedTranscript = {transcript})

LEMMA ChatStarts == ChatInit => ChatInv
<1>. SUFFICES ASSUME ChatInit PROVE ChatInv
  OBVIOUS
<1>1. ChatTypeOK
  <2>1. 0 \in 0..MaxSayings
    BY ChatAssumption
  <2>2. <<>> \in Seq({"message", "end"}) /\ <<>> \in Seq(Messages)
    OBVIOUS
  <2>. QED
    BY <2>1, <2>2 DEF ChatInit, ChatTypeOK
<1>2. /\ handler = "open" /\ worker = "none" /\ exchanged = {} /\ cutOff = FALSE
      /\ summarised = {} /\ savedTranscript = {}
  BY DEF ChatInit
<1>3. exchanged \subseteq Range(transcript) \union UnderWay
  BY <1>2
<1>. QED
  BY <1>1, <1>2, <1>3 DEF ChatInv

LEMMA ChatSteps == ChatInv /\ [ChatNext]_chatVars => ChatInv'
<1>. SUFFICES ASSUME ChatInv, [ChatNext]_chatVars PROVE ChatInv'
  OBVIOUS
<1>. USE ChatAssumption DEF ChatInv, ChatTypeOK, UnderWay, Proceed, Work, recordVars, pipelineVars
<1>1. CASE FindChatSession
  BY <1>1 DEF FindChatSession
<1>2. CASE ConsumeChatConfig
  BY <1>2 DEF ConsumeChatConfig
<1>3. CASE SetUpChat
  BY <1>3 DEF SetUpChat
<1>4. ASSUME NEW text \in Sayings, Receive(text) PROVE ChatInv'
  <2>1. Says("user", text) \in Messages
    BY DEF Says, Messages
  <2>2. /\ transcript' \in Seq(Messages)
        /\ Range(transcript') = Range(transcript) \union {Says("user", text)}
    BY <1>4, <2>1, AddedIsRecorded DEF Receive
  <2>3. pending' \in Seq({"message", "end"}) /\ written' \in 0..MaxSayings
    BY <1>4 DEF Receive
  <2>. QED
    BY <1>4, <2>1, <2>2, <2>3 DEF Receive
<1>5. CASE StopReceiving
  <2>1. pending' \in Seq({"message", "end"})
    BY <1>5 DEF StopReceiving
  <2>. QED
    BY <1>5, <2>1 DEF StopReceiving, Report
<1>6. CASE TakeFrame
  <2>1. pending' \in Seq({"message", "end"})
    BY <1>6 DEF TakeFrame
  <2>. QED
    BY <1>6, <2>1 DEF TakeFrame, Report
<1>7. ASSUME NEW text \in Sayings, SendReply(text) PROVE ChatInv'
  <2>1. Says("assistant", text) \in Messages
    BY DEF Says, Messages
  <2>. QED
    BY <1>7, <2>1 DEF SendReply
<1>8. CASE StoreReply
  <2>1. Says("assistant", answer) \in Messages
    BY <1>8 DEF StoreReply, Says, Messages
  <2>2. /\ transcript' \in Seq(Messages)
        /\ Range(transcript') = Range(transcript) \union {Says("assistant", answer)}
    BY <1>8, <2>1, AddedIsRecorded DEF StoreReply
  <2>. QED
    BY <1>8, <2>2 DEF StoreReply
<1>9. CASE NoReply
  BY <1>9 DEF NoReply
<1>10. CASE HangUpChat
  <2>1. pending' \in Seq({"message", "end"})
    BY <1>10 DEF HangUpChat
  <2>. QED
    BY <1>10, <2>1 DEF HangUpChat, Report
<1>11. CASE Drain
  <2>1. handler = "drains" /\ cutOff = FALSE /\ summarised = {} /\ savedTranscript = {}
    BY <1>11 DEF Drain
  <2>2. CASE worker = "over"
    BY <1>11, <2>1, <2>2 DEF Drain
  <2>3. CASE worker # "over"
    BY <1>11, <2>1, <2>3 DEF Drain, Report
  <2>. QED
    BY <2>2, <2>3
<1>12. CASE EndChat
  BY <1>12 DEF EndChat
<1>13. CASE SumUpChat
  BY <1>13 DEF SumUpChat
<1>14. CASE SaveChat
  BY <1>14 DEF SaveChat
<1>15. CASE CloseChat
  BY <1>15 DEF CloseChat
<1>16. CASE UNCHANGED chatVars
  BY <1>16 DEF chatVars
<1>. QED
  BY <1>1, <1>2, <1>3, <1>4, <1>5, <1>6, <1>7, <1>8, <1>9, <1>10, <1>11, <1>12, <1>13, <1>14, <1>15,
     <1>16 DEF ChatNext

LEMMA ChatInvariant == TextChatSpec => []ChatInv
BY ChatStarts, ChatSteps, PTL DEF TextChatSpec

\* The types, for any sayings and any number of them.
THEOREM ChatTypeCorrect == TextChatSpec => []ChatTypeOK
<1>1. ChatInv => ChatTypeOK
  BY DEF ChatInv
<1>. QED
  BY <1>1, ChatInvariant, PTL

\* websocket_chat.py: the transcript that is saved is final, is the one that was summed
\* up, and has all that the client wrote and got, unless a reply was cut off.
THEOREM SavedTranscriptsAreWhole == TextChatSpec => []SavedTranscriptIsWhole
<1>1. ChatInv => SavedTranscriptIsWhole
  BY DEF ChatInv, ChatTypeOK, UnderWay, SavedTranscriptIsWhole
<1>. QED
  BY <1>1, ChatInvariant, PTL
=============================================================================
