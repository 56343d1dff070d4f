------------------------------ MODULE VoiceCall ------------------------------
(***************************************************************************)
(* A voice call (MessageInput/CallOverlay.svelte), with what it needs of   *)
(* the chat page around it: a microphone that is recorded until the user   *)
(* pauses, transcription, the prompt, and the answers, which are           *)
(* synthesized sentence by sentence and played by one monitor loop for     *)
(* each answer, all on one audio element.                                  *)
(*                                                                         *)
(* Speech comes from the server (audio.tts.engine is set).  Which of the   *)
(* answers a stop reaches is a choice here; ChatHistory has the reasons.   *)
(* Answers are identified by the utterance that asked and the model, and   *)
(* sentences numbered.  One call is modelled, in a chat at rest.           *)
(***************************************************************************)
EXTENDS Naturals, SequencesExt

CONSTANTS
  MaxUtterances, MaxModels, MaxSentences,  \* bounds
  Undefined

ASSUME VoiceAssumption ==
  /\ MaxUtterances \in Nat /\ MaxModels \in Nat \ {0} /\ MaxSentences \in Nat
  /\ Undefined \notin Seq(Nat)

Utterance == 1..MaxUtterances
Answer == Utterance \X (1..MaxModels)
Sentence == 1..MaxSentences
NoAnswer == <<0, 0>>

VARIABLES
  open,          \* $showCallOverlay
  interruption,  \* $settings.voiceInterruption
  recorder,      \* "waiting" for a sound, "recording", "stopping", or "off"
  heard,         \* utterances begun; the last is being recorded
  confirmed,     \* the user has paused
  transcribing,  \* utterances the transcription engine has
  sending,       \* utterances whose submitPrompt has not returned
  prompts,       \* utterances that became prompts of the chat, in their order
  phase,         \* of an answer: "none", "created", "written", "ended", "cut" or "failed"
  done,          \* answers the page has marked as done
  stopping,      \* answers a stopResponse under way reaches
  current,       \* currentMessageId
  streaming,     \* chatStreaming
  speaking,      \* assistantSpeaking, which mutes the microphone
  said,          \* of an answer: the last sentence the page has dispatched
  queue,         \* messages[id]
  synth,         \* of a sentence: "no", "asked", "ready" (in audioCache) or "failed"
  monitor,       \* of an answer: "none", "looping", "playing", "stuck" or "over"
  overlapped,    \* history: an utterance ended before the one before was sent
  dropped,       \* history: utterances recorded to their end and not transcribed
  silenced,      \* history: answers interrupted in the middle of a sentence
  played         \* history: of an answer, the last sentence played

mic == <<recorder, heard, confirmed, overlapped, dropped>>
page == <<transcribing, sending, prompts>>
server == <<phase, done, stopping>>
call == <<open, interruption, current, streaming>>
text == <<said, queue, synth>>
sound == <<speaking, monitor, silenced, played>>
vars == <<mic, page, server, call, text, sound>>

Init ==
  /\ open = TRUE /\ interruption \in BOOLEAN
  /\ recorder = "waiting" /\ heard = 0 /\ confirmed = FALSE
  /\ transcribing = {} /\ sending = {} /\ prompts = <<>>
  /\ phase = [m \in Answer |-> "none"] /\ done = {} /\ stopping = {}
  /\ current = NoAnswer /\ streaming = FALSE /\ speaking = FALSE
  /\ said = [m \in Answer |-> 0] /\ queue = [m \in Answer |-> Undefined]
  /\ synth = [m \in Answer |-> [n \in Sentence |-> "no"]]
  /\ monitor = [m \in Answer |-> "none"]
  /\ overlapped = FALSE /\ dropped = {} /\ silenced = {}
  /\ played = [m \in Answer |-> 0]

-----------------------------------------------------------------------------
(* Interruptions                                                           *)

Playing == {m \in Answer : monitor[m] = "playing"}
Written == {m \in Answer : phase[m] = "written"}

(* The audio element is paused, so that its ended event never comes and    *)
(* the loop that waits for it is stuck.  The answers that are streamed are *)
(* to be stopped.                                                          *)
StopAllAudio ==
  /\ speaking' = FALSE
  /\ monitor' = [m \in Answer |-> IF m \in Playing THEN "stuck" ELSE monitor[m]]
  /\ silenced' = silenced \cup Playing
  /\ \E reached \in IF streaming THEN SUBSET Written ELSE {{}} :
       stopping' = stopping \cup reached
  /\ UNCHANGED <<played, phase, done>>

(* "Tap to interrupt".                                                     *)
Tap ==
  /\ open /\ speaking
  /\ StopAllAudio
  /\ UNCHANGED <<mic, page, call, text>>

(* The button below the messages, beside the call.                         *)
StopButton ==
  /\ \E reached \in SUBSET Written \ {{}} : stopping' = stopping \cup reached
  /\ UNCHANGED <<phase, done, mic, page, call, text, sound>>

-----------------------------------------------------------------------------
(* The microphone                                                          *)

(* The first sound of an utterance: it is not heard while the assistant    *)
(* speaks, unless the user has asked for voice interruption.               *)
Hear ==
  /\ recorder = "waiting" /\ (speaking => interruption) /\ heard < MaxUtterances
  /\ recorder' = "recording" /\ heard' = heard + 1
  /\ StopAllAudio
  /\ UNCHANGED <<confirmed, overlapped, dropped, page, call, text>>

(* Two seconds without a sound.                                            *)
Silence ==
  /\ recorder = "recording"
  /\ recorder' = "stopping" /\ confirmed' = TRUE
  /\ overlapped' = (overlapped \/ transcribing # {} \/ sending # {})
  /\ UNCHANGED <<heard, dropped, page, server, call, text, sound>>

(* Mutant: the flag is reset with the recorder it belongs to. *)
RecorderStopsAfresh ==
  /\ recorder = "stopping"
  /\ recorder' = "waiting" /\ confirmed' = FALSE
  /\ dropped' = dropped \cup {heard}
  /\ UNCHANGED <<heard, overlapped, page, server, call, text, sound>>

(* The stop event: the next recording starts at once, and what was         *)
(* recorded is transcribed if the flag is still set.                       *)
RecorderStops ==
  /\ recorder = "stopping"
  /\ recorder' = "waiting"
  /\ IF confirmed
     THEN transcribing' = transcribing \cup {heard} /\ UNCHANGED dropped
     ELSE dropped' = dropped \cup {heard} /\ UNCHANGED transcribing
  /\ UNCHANGED <<heard, confirmed, overlapped, sending, prompts, server, call, text, sound>>

-----------------------------------------------------------------------------
(* Prompts                                                                 *)

AnswersTo(u) == {m \in Answer : m[1] = u /\ phase[m] # "none"}

(* The last model's answer to the last prompt is the message shown.        *)
Shown == CHOOSE m \in AnswersTo(Last(prompts)) : \A l \in AnswersTo(Last(prompts)) : l[2] <= m[2]
Busy == prompts # <<>> /\ Shown \notin done

(* There was no speech in it, or the engine failed; or the page refuses    *)
(* the prompt because the last answer is not done.                         *)
NoPrompt(u) ==
  /\ u \in transcribing
  /\ transcribing' = transcribing \ {u} /\ confirmed' = FALSE
  /\ UNCHANGED <<recorder, heard, overlapped, dropped, sending, prompts, server, call, text, sound>>

(* The prompt gets one answer for each of the models chosen.               *)
SubmitPrompt(u) ==
  /\ u \in transcribing /\ ~Busy
  /\ transcribing' = transcribing \ {u} /\ sending' = sending \cup {u}
  /\ prompts' = Append(prompts, u)
  /\ \E models \in 1..MaxModels :
       phase' = [m \in Answer |-> IF m[1] = u /\ m[2] <= models THEN "created" ELSE phase[m]]
  /\ UNCHANGED <<done, stopping, mic, call, text, sound>>

(* Every request has been answered, and the list of chats been read again. *)
SubmitReturns(u) ==
  /\ u \in sending /\ \A m \in AnswersTo(u) : phase[m] # "created"
  /\ sending' = sending \ {u} /\ confirmed' = FALSE
  /\ UNCHANGED <<recorder, heard, overlapped, dropped, transcribing, prompts, server, call, text, sound>>

-----------------------------------------------------------------------------
(* Answers                                                                 *)

(* chat:start.  The loop of the answer before has its signal aborted.      *)
Start(m) ==
  /\ phase[m] = "created"
  /\ phase' = [phase EXCEPT ![m] = "written"]
  /\ IF open
     THEN /\ current' = m /\ streaming' = TRUE /\ speaking' = TRUE
          /\ monitor' = [monitor EXCEPT ![m] = "looping"]
     ELSE UNCHANGED <<current, streaming, speaking, monitor>>
  /\ UNCHANGED <<done, stopping, silenced, played, open, interruption, mic, page, text>>

(* chat: a sentence of the answer, which is synthesized.                   *)
Receive(m, n) ==
  /\ said' = [said EXCEPT ![m] = n]
  /\ IF open /\ current = m
     THEN /\ queue' = [queue EXCEPT ![m] = Append(IF @ = Undefined THEN <<>> ELSE @, n)]
          /\ synth' = [synth EXCEPT ![m][n] = "asked"]
     ELSE UNCHANGED <<queue, synth>>

(* The page dispatches the last whole sentence there is, once: those that  *)
(* came with it in one piece are left out.                                 *)
Continue(m, n) ==
  /\ phase[m] = "written" /\ n > said[m] /\ n < MaxSentences
  /\ Receive(m, n)
  /\ UNCHANGED <<mic, page, server, call, sound>>

(* The last event of an answer brings its last sentence, if it has text,   *)
(* and chat:finish.                                                        *)
Finish(m) ==
  /\ phase[m] = "written"
  /\ phase' = [phase EXCEPT ![m] = "ended"]
  /\ done' = done \cup {m}
  /\ streaming' = (streaming /\ ~open)
  /\ \/ said[m] = 0 /\ UNCHANGED text
     \/ \E n \in said[m] + 1..MaxSentences : Receive(m, n)
  /\ UNCHANGED <<stopping, mic, page, open, interruption, current, sound>>

(* The request or the answer fails, of which the call is not told.         *)
Fail(m) ==
  /\ phase[m] = "written"
  /\ phase' = [phase EXCEPT ![m] = "failed"]
  /\ done' = done \cup {m}
  /\ UNCHANGED <<stopping, mic, page, call, text, sound>>

(* The server ends an answer and sends chat:tasks:cancel: what stands      *)
(* beside the message shown is done, and nothing finishes.                 *)
Cancel(m) ==
  /\ m \in stopping /\ phase[m] = "written"
  /\ phase' = [phase EXCEPT ![m] = "cut"]
  /\ done' = done \cup AnswersTo(Last(prompts))
  /\ UNCHANGED <<stopping, mic, page, call, text, sound>>

StopReturns ==
  /\ stopping # {}
  /\ stopping' = {}
  /\ done' = done \cup AnswersTo(Last(prompts))
  /\ UNCHANGED <<phase, mic, page, call, text, sound>>

-----------------------------------------------------------------------------
(* Speech                                                                  *)

(* fetchAudio ends.                                                        *)
Synthesize(m, n) ==
  /\ synth[m][n] = "asked"
  /\ \E s \in {"ready", "failed"} : synth' = [synth EXCEPT ![m][n] = s]
  /\ UNCHANGED <<said, queue, mic, page, server, call, sound>>

Aborted(m) == ~open \/ current # m
Queued(m) == queue[m] # Undefined /\ queue[m] # <<>>

Abort(m) ==
  /\ monitor[m] = "looping" /\ Aborted(m)
  /\ monitor' = [monitor EXCEPT ![m] = "over"]
  /\ UNCHANGED <<speaking, silenced, played, mic, page, server, call, text>>

(* The element plays the sentence, whatever it has played: whoever waited  *)
(* for that waits for ever.                                                *)
PlayHead(m) ==
  LET n == Head(queue[m]) IN
    /\ synth[m][n] = "ready"
    /\ queue' = [queue EXCEPT ![m] = Tail(@)]
    /\ monitor' = [l \in Answer |->
         IF l = m THEN "playing" ELSE IF l \in Playing THEN "stuck" ELSE monitor[l]]
    /\ played' = [played EXCEPT ![m] = n]
    /\ UNCHANGED <<speaking, silenced, said, synth, mic, page, server, call>>

(* Mutant: the loop does not look at its signal. *)
PlayUnchecked(m) ==
  /\ monitor[m] = "looping" /\ Queued(m)
  /\ PlayHead(m)

(* The first sentence of the queue is played when its audio is there; it   *)
(* stays in the queue until then.                                          *)
Play(m) ==
  /\ monitor[m] = "looping" /\ ~Aborted(m) /\ Queued(m)
  /\ PlayHead(m)

PlayEnds(m) ==
  /\ monitor[m] = "playing"
  /\ monitor' = [monitor EXCEPT ![m] = "looping"]
  /\ UNCHANGED <<speaking, silenced, played, mic, page, server, call, text>>

(* Mutant: the loop ends and leaves the microphone muted. *)
EndMuted(m) ==
  /\ monitor[m] = "looping" /\ ~Aborted(m)
  /\ phase[m] = "ended" /\ queue[m] = <<>>
  /\ monitor' = [monitor EXCEPT ![m] = "over"]
  /\ UNCHANGED <<speaking, silenced, played, mic, page, server, call, text>>

(* The answer has finished and its sentences were played; an answer of     *)
(* which the call was sent no sentence has no queue.                       *)
EndLoop(m) ==
  /\ monitor[m] = "looping" /\ ~Aborted(m)
  /\ phase[m] = "ended" /\ queue[m] = <<>>
  /\ speaking' = FALSE
  /\ monitor' = [monitor EXCEPT ![m] = "over"]
  /\ UNCHANGED <<silenced, played, mic, page, server, call, text>>

-----------------------------------------------------------------------------
(* The user ends the call: what is being recorded is not used, what is     *)
(* being transcribed is still sent.                                        *)
Close ==
  /\ open /\ open' = FALSE
  /\ recorder' = "off"
  /\ StopAllAudio
  /\ UNCHANGED <<heard, confirmed, overlapped, dropped, page, interruption, current, streaming, text>>

Next ==
  \/ Tap \/ StopButton \/ Hear \/ Silence \/ RecorderStops \/ StopReturns \/ Close
  \/ \E u \in Utterance : NoPrompt(u) \/ SubmitPrompt(u) \/ SubmitReturns(u)
  \/ \E m \in Answer :
       \/ Start(m) \/ Finish(m) \/ Fail(m) \/ Cancel(m)
       \/ Abort(m) \/ Play(m) \/ PlayEnds(m) \/ EndLoop(m)
       \/ \E n \in Sentence : Continue(m, n) \/ Synthesize(m, n)

(* Those who do not wait for the user go on: the server ends its answers,  *)
(* the engine synthesizes or fails, and the loops run and play sentences   *)
(* to their end.  None of them can go on for ever without the others.      *)
Fairness ==
  /\ WF_vars(\E m \in Answer : Finish(m))
  /\ WF_vars(\E m \in Answer, n \in Sentence : Synthesize(m, n))
  /\ WF_vars(\E m \in Answer : Play(m) \/ PlayEnds(m) \/ EndLoop(m))

Spec == Init /\ [][Next]_vars
FairSpec == Spec /\ Fairness

-----------------------------------------------------------------------------
(* Properties.                                                             *)

TypeOK ==
  /\ open \in BOOLEAN /\ interruption \in BOOLEAN
  /\ recorder \in {"waiting", "recording", "stopping", "off"}
  /\ heard \in 0..MaxUtterances /\ (recorder \in {"recording", "stopping"} => heard > 0)
  /\ confirmed \in BOOLEAN
  /\ transcribing \subseteq Utterance /\ sending \subseteq Utterance
  /\ prompts \in Seq(Utterance)
  /\ phase \in [Answer -> {"none", "created", "written", "ended", "cut", "failed"}]
  /\ done \subseteq Answer /\ stopping \subseteq Answer
  /\ current \in Answer \cup {NoAnswer} /\ streaming \in BOOLEAN /\ speaking \in BOOLEAN
  /\ said \in [Answer -> 0..MaxSentences]
  /\ queue \in [Answer -> Seq(Sentence) \cup {Undefined}]
  /\ synth \in [Answer -> [Sentence -> {"no", "asked", "ready", "failed"}]]
  /\ monitor \in [Answer -> {"none", "looping", "playing", "stuck", "over"}]
  /\ overlapped \in BOOLEAN /\ dropped \subseteq Utterance
  /\ silenced \subseteq Answer /\ played \in [Answer -> 0..MaxSentences]

(* Answers whose loop never ends by itself: chat:finish does not come, no  *)
(* sentence came, or one has no audio.                                     *)
Mute(m) ==
  \/ phase[m] \in {"failed", "cut"}
  \/ phase[m] = "ended" /\ queue[m] = Undefined
  \/ \E n \in Sentence : synth[m][n] = "failed"

(* Who has listened to an answer is listened to: the microphone does not   *)
(* stay muted, unless the answer is one of those the loop waits for in     *)
(* vain (then until the next answer or a tap).                             *)
ListensAgain == speaking ~> ~speaking \/ Mute(current)

(* "you can now stop the assistant from speaking by simply tapping": only  *)
(* the last answer is spoken, its sentences in their order, none after the *)
(* call has ended, and none after one was cut off in its middle.           *)
SpeaksInTurn ==
  [][\A m \in Answer : played'[m] # played[m] =>
       open /\ m = current /\ m \notin silenced /\ played'[m] > played[m]]_vars

(* As long as the user waits until what was said before is sent, what is   *)
(* said is transcribed, and prompts are in the order in which they were    *)
(* spoken.                                                                 *)
NothingDropped ==
  ~overlapped =>
    /\ dropped = {}
    /\ \A i, j \in DOMAIN prompts : i < j => prompts[i] < prompts[j]
=============================================================================
