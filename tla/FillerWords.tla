------------------------------ MODULE FillerWords ------------------------------
(***************************************************************************)
(* The phrases that bridge the wait for an answer.  FillerWordsProcessor     *)
(* stands between the user's context and the LLM.  It gathers what the user   *)
(* says; when the user stops, or two seconds after the first words when no    *)
(* stop is seen, a task asks a small LLM for a phrase that fits the words     *)
(* and speaks it once the delay is over.  Frames and tasks take turns, and a  *)
(* frame may drop the task's words at any of its waits.                       *)
(***************************************************************************)
EXTENDS Naturals

CONSTANTS
  Words,      \* what the user may say
  MaxFillers  \* bound: fillers in a turn

ASSUME FillerAssumption == MaxFillers \in Nat

VARIABLES
  speaking,   \* the user's, by the voice activity detection
  heard,      \* _accumulated_user_text
  stamped,    \* is _transcript_timestamp set?
  unheardStop,  \* _user_stopped_speaking: a stop came before any words
  awaitsStop,   \* _waiting_for_user_stop
  deadline,   \* does _vad_fallback_task sleep?
  timer,      \* the filler's task: off (none or done), made, asks, sleeps, cancelled (not yet done)
  askedFor,   \* the words it was made for
  answered,   \* has the LLM begun its answer?
  fillers     \* fillers spoken since the user began to speak

turnVars == <<heard, stamped, unheardStop, awaitsStop, deadline>>
fillerVars == <<speaking, turnVars, timer, askedFor, answered, fillers>>

FillerInit ==
  /\ speaking = FALSE /\ heard = {} /\ stamped = FALSE /\ unheardStop = FALSE /\ awaitsStop = FALSE
  /\ deadline = FALSE /\ timer = "off" /\ askedFor = {} /\ answered = FALSE /\ fillers = 0

MakeTimer(words) == timer' = "made" /\ askedFor' = words
KeepTimer == UNCHANGED <<timer, askedFor>>
CancelTimer == timer' = (IF timer = "off" THEN "off" ELSE "cancelled") /\ askedFor' = {}
EndTimer == timer' = "off" /\ askedFor' = {}

ForgetTurn ==
  /\ heard' = {} /\ stamped' = FALSE /\ unheardStop' = FALSE /\ awaitsStop' = FALSE /\ deadline' = FALSE

-----------------------------------------------------------------------------
(* The frames.                                                              *)

\* A transcript.  The first words of a turn start the fallback, or follow a stop that
\* came before them.
Heed(w) ==
  /\ heard' = heard \union {w} /\ stamped' = TRUE
  /\ IF stamped THEN UNCHANGED <<unheardStop, awaitsStop, deadline>>
     ELSE unheardStop' = FALSE /\ awaitsStop' = ~unheardStop /\ deadline' = ~unheardStop

\* Mutant: the filler of the earlier words goes on.
HearOn(w) ==
  /\ Heed(w)
  /\ IF ~stamped /\ unheardStop THEN MakeTimer(heard \union {w}) ELSE KeepTimer
  /\ UNCHANGED <<speaking, answered, fillers>>

\* The task that is made after such a stop is cancelled before it ran, as each
\* transcript cancels the filler of the words before it.
Hear(w) ==
  /\ Heed(w)
  /\ IF ~stamped /\ unheardStop THEN timer' = "cancelled" /\ askedFor' = {} ELSE CancelTimer
  /\ UNCHANGED <<speaking, answered, fillers>>

\* A running filler is not cancelled: without the time stamp it will not speak.
UserStarts ==
  /\ ~speaking /\ speaking' = TRUE
  /\ IF heard # {} THEN ForgetTurn ELSE UNCHANGED turnVars
  /\ answered' = FALSE /\ fillers' = 0 /\ KeepTimer

UserStops ==
  /\ speaking /\ speaking' = FALSE
  /\ IF heard # {}
     THEN MakeTimer(heard) /\ awaitsStop' = FALSE /\ unheardStop' = FALSE /\ deadline' = FALSE
     ELSE unheardStop' = TRUE /\ KeepTimer /\ UNCHANGED <<awaitsStop, deadline>>
  /\ UNCHANGED <<heard, stamped, answered, fillers>>

\* The user's context goes to the LLM, or something is to be said.
Interrupt ==
  /\ IF timer # "off" THEN EndTimer /\ ForgetTurn ELSE KeepTimer /\ UNCHANGED turnVars
  /\ UNCHANGED <<speaking, answered, fillers>>

\* The LLM comes after the processor: the frames of its answer do not pass here.
LlmAnswers == ~answered /\ answered' = TRUE /\ UNCHANGED <<speaking, turnVars, timer, askedFor, fillers>>

-----------------------------------------------------------------------------
(* The tasks.                                                               *)

\* vad_fallback, after two seconds.
GiveUpStop ==
  /\ deadline /\ deadline' = FALSE
  /\ IF awaitsStop /\ heard # {} /\ ~unheardStop
     THEN MakeTimer(heard) /\ awaitsStop' = FALSE
     ELSE KeepTimer /\ awaitsStop' = awaitsStop
  /\ UNCHANGED <<speaking, heard, stamped, unheardStop, answered, fillers>>

AskPhrase ==
  /\ timer = "made"
  /\ IF stamped THEN timer' = "asks" /\ askedFor' = askedFor ELSE EndTimer
  /\ UNCHANGED <<speaking, turnVars, answered, fillers>>

SleepOn ==
  /\ timer = "asks" /\ timer' = "sleeps"
  /\ UNCHANGED <<speaking, turnVars, askedFor, answered, fillers>>

\* A cancelled task is done when it has had its turn; until then it counts as running.
Unwind == timer = "cancelled" /\ EndTimer /\ UNCHANGED <<speaking, turnVars, answered, fillers>>

\* The phrase is there and the delay over: it is spoken if _is_task_still_active.
SpeakFiller ==
  /\ timer \in {"asks", "sleeps"} /\ fillers < MaxFillers
  /\ EndTimer
  /\ fillers' = IF stamped THEN fillers + 1 ELSE fillers
  /\ UNCHANGED <<speaking, turnVars, answered>>

FillerNext ==
  \/ \E w \in Words : Hear(w)
  \/ UserStarts \/ UserStops \/ Interrupt \/ LlmAnswers \/ GiveUpStop \/ AskPhrase \/ SleepOn \/ Unwind
  \/ SpeakFiller

FillerWordsSpec == FillerInit /\ [][FillerNext]_fillerVars

-----------------------------------------------------------------------------
(* Properties.                                                              *)

\* The types of the processor's state.
FillerTypeOK ==
  /\ speaking \in BOOLEAN /\ stamped \in BOOLEAN /\ unheardStop \in BOOLEAN
  /\ awaitsStop \in BOOLEAN /\ deadline \in BOOLEAN /\ answered \in BOOLEAN
  /\ heard \subseteq Words /\ askedFor \subseteq Words
  /\ timer \in {"off", "made", "asks", "sleeps", "cancelled"} /\ fillers \in 0..MaxFillers

\* A filler that is spoken was made for all the user has said in the turn: words that
\* come while the phrase is asked for or waits, and a new turn, make it void, whichever
\* of the stop, the fallback and the transcripts come first.
FillerIsOfAllWords == [][fillers' > fillers => askedFor = heard]_fillerVars

-----------------------------------------------------------------------------
(* What the repository says of the program and the program does not do.     *)

\* CUSTOM_PROCESSORS_GUIDE.md: "Detect when LLM starts responding (cancel timer)".
FillerPrecedesAnswer == [][fillers' > fillers => ~answered]_fillerVars

\* The same guide's time line: a filler after the user has ended, one for a wait.
FillerIsInSilence == [][fillers' > fillers => ~speaking]_fillerVars
OneFillerPerTurn == fillers <= 1
=============================================================================
