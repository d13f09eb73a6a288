----------------------------- MODULE SpeechRouting -----------------------------
(***************************************************************************)
(* Which voice speaks a response.  A call with voices of several languages    *)
(* has a MultiTTSRouter: it gathers the tokens of the LLM until their         *)
(* language can be told, and gives the rest of the response to the one         *)
(* service.  The language is told by LanguageDetectionService, of which the    *)
(* process has one: the language found last, by whichever call, is that of     *)
(* every text too short to tell.  A service that raises ends the handling of    *)
(* the frame where it is; the router goes on with the next.                     *)
(***************************************************************************)
EXTENDS Naturals, Sequences

CONSTANTS
  Routers,    \* the calls of the process with voices of several languages
  Languages,  \* what langdetect may answer, the defaults among them
  Voices,     \* tts_services of each call
  DefaultOf,  \* its default_language, one of them
  Tokens,     \* pairs of a length and whether it has more than punctuation
  Tellable,   \* LANGUAGE_MIN_TEXT_LENGTH
  Enough,     \* the length from which a service is chosen
  MaxSpoken   \* bound: tokens of a response

ASSUME RoutersAssumption ==
  /\ DefaultOf \in [Routers -> Languages]
  /\ \A r \in Routers : DefaultOf[r] \in Voices[r] /\ "none" \notin Voices[r]
ASSUME TokensAssumption == Tokens \subseteq Nat \X BOOLEAN
ASSUME LengthsAssumption == {Tellable, Enough, MaxSpoken} \subseteq Nat /\ MaxSpoken # 0

VARIABLES
  told,       \* _current_language of the one LanguageDetectionService
  ownFound,   \* what was found last in a text of the call itself
  progress,   \* response_in_progress
  voice,      \* current_service, or "none"
  gathered,   \* accumulated_text while no service is chosen (later it is not read): its
              \* length and whether it can be spoken
  response,   \* the response since its start, as the LLM sent it: [tokens, sound, over], or
              \* [broken] once a service has failed with a part of it
  played      \* what the services took of it: [kind, to, from, upto], a text with
              \* the tokens from .. upto of the response

routingVars == <<told, ownFound, progress, voice, gathered, response, played>>

NoText == [length |-> 0, sound |-> FALSE]
NoResponse == [tokens |-> 0, sound |-> FALSE, over |-> FALSE, broken |-> FALSE]
Broken == [tokens |-> 0, sound |-> FALSE, over |-> FALSE, broken |-> TRUE]

\* The service is made with the default of the call that comes first.
RoutingInit ==
  /\ told \in {DefaultOf[r] : r \in Routers}
  /\ ownFound = DefaultOf
  /\ progress = [r \in Routers |-> FALSE] /\ voice = [r \in Routers |-> "none"]
  /\ gathered = [r \in Routers |-> NoText]
  /\ response = [r \in Routers |-> NoResponse] /\ played = [r \in Routers |-> <<>>]

With(f, r, x) == f' = [f EXCEPT ![r] = x]

\* detect_language of the service: a short text has the language found last; one that
\* langdetect cannot tell has the default.
Findings(text) == IF text.length >= Tellable THEN Languages ELSE {told}

\* detect_language of the router: the language is found for the whole process.
FindVoice(r, text, v) ==
  IF ~text.sound THEN v = DefaultOf[r] /\ UNCHANGED <<told, ownFound>>
  ELSE \E l \in Findings(text) :
         /\ v = IF l \in Voices[r] THEN l ELSE DefaultOf[r]
         /\ told' = l
         /\ With(ownFound, r, IF text.length >= Tellable THEN l ELSE ownFound[r])

Longer(text, t) == [length |-> text.length + t[1], sound |-> text.sound \/ t[2]]
Start(v) == [kind |-> "start", to |-> v, from |-> 1, upto |-> 0]
Text(v, i, j) == [kind |-> "text", to |-> v, from |-> i, upto |-> j]
End(v) == [kind |-> "end", to |-> v, from |-> 1, upto |-> 0]

\* What comes outside a response is of a new one.
Latest(r) == IF progress[r] THEN response[r] ELSE NoResponse
Had(r) == IF progress[r] THEN played[r] ELSE <<>>

\* A service takes the frames it is given or raises.
Breaks(r, fails) == fails \/ Latest(r).broken
Play(r, frames, fails) == With(played, r, IF Breaks(r, fails) THEN <<>> ELSE Had(r) \o frames)
Respond(r, a, fails) == With(response, r, IF Breaks(r, fails) THEN Broken ELSE a)

-----------------------------------------------------------------------------
(* process_frame.                                                            *)

\* Mutant: the service of the response before stays.
ResponseStartsOn(r) ==
  /\ With(progress, r, TRUE) /\ voice' = voice /\ With(gathered, r, NoText)
  /\ With(response, r, NoResponse) /\ With(played, r, <<>>)
  /\ UNCHANGED <<told, ownFound>>

\* The start of a response, also of one that follows an interrupted one.
ResponseStarts(r) ==
  /\ With(progress, r, TRUE) /\ With(voice, r, "none") /\ With(gathered, r, NoText)
  /\ With(response, r, NoResponse) /\ With(played, r, <<>>)
  /\ UNCHANGED <<told, ownFound>>

Count(r, t, fails) ==
  Respond(r, [Latest(r) EXCEPT !.tokens = @ + 1, !.sound = @ \/ t[2]], fails)

\* The service is chosen before it is given anything, and stays when it fails.
Token(r, t, fails) ==
  /\ progress[r] /\ response[r].tokens < MaxSpoken
  /\ LET text == Longer(gathered[r], t)
         n == response[r].tokens + 1
     IN /\ Count(r, t, fails)
        /\ \/ /\ voice[r] = "none" /\ text.length >= Enough /\ With(gathered, r, NoText)
              /\ \E v \in Voices[r] :
                   FindVoice(r, text, v) /\ With(voice, r, v) /\ Play(r, <<Start(v), Text(v, 1, n)>>, fails)
           \/ /\ voice[r] = "none" /\ text.length < Enough /\ With(gathered, r, text) /\ ~fails
              /\ UNCHANGED <<told, ownFound, voice, played>>
           \/ /\ voice[r] # "none" /\ Play(r, <<Text(voice[r], n, n)>>, fails)
              /\ UNCHANGED <<told, ownFound, voice, gathered>>
  /\ UNCHANGED progress

\* A token outside a response begins one, which is spoken from its first token.
StrayToken(r, t, fails) ==
  /\ ~progress[r] /\ Count(r, t, fails)
  /\ \E v \in Voices[r] :
       /\ FindVoice(r, Longer(NoText, t), v) /\ With(voice, r, v) /\ With(gathered, r, NoText)
       /\ Play(r, <<Start(v), Text(v, 1, 1)>>, fails)
  /\ With(progress, r, TRUE)

\* A response too short to have found its service is given to one now, unless it is
\* punctuation only; one without a text leaves an end to the default service.  The
\* current service is then v.
Finish(r, v, fails) ==
  \/ /\ voice[r] # "none" /\ v = voice[r] /\ Play(r, <<End(v)>>, fails) /\ UNCHANGED <<told, ownFound>>
  \/ /\ voice[r] = "none" /\ gathered[r].sound /\ v \in Voices[r]
     /\ FindVoice(r, gathered[r], v)
     /\ Play(r, <<Start(v), Text(v, 1, Latest(r).tokens), End(v)>>, fails)
  \/ /\ voice[r] = "none" /\ ~gathered[r].sound /\ v = "none" /\ UNCHANGED <<told, ownFound>>
     /\ \/ gathered[r].length > 0 /\ ~fails /\ With(played, r, Had(r))
        \/ gathered[r].length = 0 /\ Play(r, <<End(DefaultOf[r])>>, fails)

\* The end, also of a response without a token or without a start.  When the service
\* fails, it outlives the response.
ResponseEnds(r, fails) ==
  /\ \E v \in Voices[r] \union {"none"} : Finish(r, v, fails) /\ With(voice, r, IF fails THEN v ELSE "none")
  /\ With(progress, r, FALSE) /\ With(gathered, r, NoText)
  /\ Respond(r, [Latest(r) EXCEPT !.over = TRUE], fails)

\* A sentence of a tool or of the idle handler, in the midst of a response or not.
SpeakSentence(r, t) ==
  /\ t[2] /\ \E v \in Voices[r] : FindVoice(r, Longer(NoText, t), v)
  /\ UNCHANGED <<progress, voice, gathered, response, played>>

RoutingNext ==
  \E r \in Routers :
    \/ ResponseStarts(r)
    \/ \E fails \in BOOLEAN :
         ResponseEnds(r, fails) \/ \E t \in Tokens : Token(r, t, fails) \/ StrayToken(r, t, fails)
    \/ \E t \in Tokens : SpeakSentence(r, t)

SpeechRoutingSpec == RoutingInit /\ [][RoutingNext]_routingVars

-----------------------------------------------------------------------------
(* Properties.                                                              *)

\* The types of the routers' state.
RoutingTypeOK ==
  /\ told \in Languages /\ ownFound \in [Routers -> Languages] /\ progress \in [Routers -> BOOLEAN]
  /\ gathered \in [Routers -> [length : Nat, sound : BOOLEAN]]
  /\ response \in [Routers -> [tokens : 0 .. MaxSpoken, sound : BOOLEAN, over : BOOLEAN, broken : BOOLEAN]]
  /\ DOMAIN voice = Routers /\ DOMAIN played = Routers
  /\ \A r \in Routers :
       /\ voice[r] \in Voices[r] \union {"none"}
       /\ played[r] \in Seq([kind : {"start", "text", "end"}, to : Voices[r], from : Nat, upto : Nat])

\* The texts of a response go to one service, each with the tokens that follow those of
\* the one before.
Continued(frames, v) ==
  /\ frames[1] = Start(v)
  /\ \A i \in 2 .. Len(frames) :
       frames[i] = Text(v, frames[i - 1].upto + 1, frames[i].upto)

SpokenBy(r, v) ==
  LET n == Len(played[r]) IN
  /\ n >= 3
  /\ Continued(SubSeq(played[r], 1, n - 1), v) /\ played[r][n - 1].upto = response[r].tokens
  /\ played[r][n] = End(v)

\* A response that is over was spoken whole and in its order by one service, between its
\* start and its end, whatever was interrupted before it, came astray, failed before it,
\* or was said in its midst, unless a service failed with a part of this one.
ResponseIsSpokenWhole ==
  \A r \in Routers : response[r].over /\ response[r].sound /\ ~response[r].broken => \E v \in Voices[r] : SpokenBy(r, v)

-----------------------------------------------------------------------------
(* What the repository says of the program and the program does not do.     *)

\* language_detection_service.py, of a short text: "return current language for
\* consistency".  The current language is that of another call.
ShortTextIsConsistent ==
  [][\A r \in Routers :
       /\ ~response[r].over /\ response'[r].over /\ ~response'[r].broken
       /\ voice[r] = "none" /\ gathered[r].sound /\ gathered[r].length < Tellable
       => played'[r][1].to = IF ownFound[r] \in Voices[r] THEN ownFound[r] ELSE DefaultOf[r]]_routingVars
=============================================================================
