-------------------------- MODULE VoiceCallProofs --------------------------
(* What VoiceCall promises, for any number of utterances, models and       *)
(* sentences: SpeechOrder is about what the user says, OneVoice about what *)
(* the assistant says.  VoiceInv is inductive, and both follow from it.    *)
EXTENDS VoiceCall, TLAPS

-----------------------------------------------------------------------------
(* Why: before its successor is heard, an utterance is sent or dropped, so *)
(* that the engine has one at a time, later than all prompts.              *)
Recorded(u) == u <= heard /\ (recorder \in {"recording", "stopping"} => u < heard)

SpeechInv ==
  ~overlapped =>
    /\ NothingDropped
    /\ recorder = "stopping" => confirmed /\ transcribing = {} /\ sending = {}
    /\ \A u, v \in transcribing : u = v
    /\ \A u \in transcribing : \A i \in DOMAIN prompts : prompts[i] < u
    /\ \A i \in DOMAIN prompts : Recorded(prompts[i])

(* An utterance is transcribed once, so that its answers start once, and a *)
(* loop that is stuck stays so.                                            *)
LoopInv ==
  /\ \A u \in transcribing : Recorded(u)
  /\ \A m \in Answer : phase[m] # "none" => m[1] \notin transcribing /\ Recorded(m[1])
  /\ \A m \in Answer : monitor[m] # "none" => phase[m] \notin {"none", "created"}
  /\ \A m \in silenced : monitor[m] = "stuck"

(* The sentences in a queue are later than those played, and in order.     *)
QueueInv ==
  \A m \in Answer :
    /\ played[m] <= said[m]
    /\ queue[m] # Undefined => \A i \in 1..Len(queue[m]) :
         /\ played[m] < queue[m][i] /\ queue[m][i] <= said[m]
         /\ \A j \in 1..Len(queue[m]) : i < j => queue[m][i] < queue[m][j]

VoiceInv == TypeOK /\ SpeechInv /\ LoopInv /\ QueueInv

-----------------------------------------------------------------------------
(* What the parts of an action leave alone or do, once and for all.        *)

LEMMA StopFacts ==
  ASSUME TypeOK, StopAllAudio
  PROVE  /\ speaking' = FALSE
         /\ monitor' \in [Answer -> {"none", "looping", "playing", "stuck", "over"}]
         /\ \A m \in Answer : monitor'[m] = IF monitor[m] = "playing" THEN "stuck" ELSE monitor[m]
         /\ silenced' \subseteq Answer
         /\ \A m \in Answer : m \in silenced' <=> m \in silenced \/ monitor[m] = "playing"
         /\ stopping' \subseteq Answer
         /\ UNCHANGED <<played, phase, done>>
<1>1. \A m \in Answer : monitor[m] \in {"none", "looping", "playing", "stuck", "over"}
  BY DEF TypeOK
<1>2. monitor' \in [Answer -> {"none", "looping", "playing", "stuck", "over"}]
  BY <1>1 DEF StopAllAudio, Playing
<1>3. stopping' \subseteq Answer
  BY DEF StopAllAudio, Written, TypeOK
<1> QED
  BY <1>2, <1>3 DEF StopAllAudio, Playing, TypeOK

LEMMA ReceiveFacts ==
  ASSUME TypeOK, NEW m \in Answer, NEW n \in Sentence, Receive(m, n)
  PROVE  /\ said' = [said EXCEPT ![m] = n]
         /\ queue' \in [Answer -> Seq(Sentence) \cup {Undefined}]
         /\ \A l \in Answer : l # m => queue'[l] = queue[l]
         /\ \/ queue'[m] = queue[m]
            \/ queue[m] = Undefined /\ queue'[m] = Append(<<>>, n)
            \/ queue[m] # Undefined /\ queue'[m] = Append(queue[m], n)
         /\ synth' \in [Answer -> [Sentence -> {"no", "asked", "ready", "failed"}]]
<1>1. CASE ~(open /\ current = m)
  BY <1>1 DEF Receive, TypeOK
<1>2. CASE open /\ current = m
  <2>1. queue' = [queue EXCEPT ![m] = Append(IF @ = Undefined THEN <<>> ELSE @, n)]
    BY <1>2 DEF Receive
  <2>2. Append(IF queue[m] = Undefined THEN <<>> ELSE queue[m], n) \in Seq(Sentence)
    BY DEF TypeOK
  <2>3. queue' \in [Answer -> Seq(Sentence) \cup {Undefined}]
    BY <2>1, <2>2 DEF TypeOK
  <2>4. queue'[m] = Append(IF queue[m] = Undefined THEN <<>> ELSE queue[m], n)
    BY <2>1 DEF TypeOK
  <2>5. synth' \in [Answer -> [Sentence -> {"no", "asked", "ready", "failed"}]]
    <3>1. synth' = [synth EXCEPT ![m] = [synth[m] EXCEPT ![n] = "asked"]]
      BY <1>2 DEF Receive
    <3>2. synth[m] \in [Sentence -> {"no", "asked", "ready", "failed"}]
      BY DEF TypeOK
    <3>3. [synth[m] EXCEPT ![n] = "asked"] \in [Sentence -> {"no", "asked", "ready", "failed"}]
      BY <3>2
    <3> QED
      BY <3>1, <3>3 DEF TypeOK
  <2>6. \A l \in Answer : l # m => queue'[l] = queue[l]
    BY <2>1 DEF TypeOK
  <2> QED
    BY <2>3, <2>4, <2>5, <2>6 DEF Receive
<1> QED
  BY <1>1, <1>2

LEMMA HeadFacts ==
  ASSUME TypeOK, NEW m \in Answer, Queued(m), PlayHead(m)
  PROVE  /\ Head(queue[m]) \in Sentence
         /\ queue' = [queue EXCEPT ![m] = Tail(queue[m])]
         /\ queue' \in [Answer -> Seq(Sentence) \cup {Undefined}]
         /\ played' = [played EXCEPT ![m] = Head(queue[m])]
         /\ monitor' \in [Answer -> {"none", "looping", "playing", "stuck", "over"}]
         /\ \A l \in Answer : monitor'[l] =
              IF l = m THEN "playing" ELSE IF monitor[l] = "playing" THEN "stuck" ELSE monitor[l]
         /\ UNCHANGED <<speaking, silenced, said, synth, mic, page, server, call>>
<1>1. queue[m] \in Seq(Sentence) /\ queue[m] # <<>>
  BY DEF TypeOK, Queued
<1>2. Head(queue[m]) \in Sentence /\ Tail(queue[m]) \in Seq(Sentence)
  BY <1>1
<1>3. queue' = [queue EXCEPT ![m] = Tail(queue[m])]
  BY DEF PlayHead
<1>4. queue' \in [Answer -> Seq(Sentence) \cup {Undefined}]
  BY <1>2, <1>3 DEF TypeOK
<1>5. \A l \in Answer : monitor[l] \in {"none", "looping", "playing", "stuck", "over"}
  BY DEF TypeOK
<1>6. monitor' \in [Answer -> {"none", "looping", "playing", "stuck", "over"}]
  BY <1>5 DEF PlayHead, Playing
<1>7. \A l \in Answer : monitor'[l] =
        IF l = m THEN "playing" ELSE IF monitor[l] = "playing" THEN "stuck" ELSE monitor[l]
  BY DEF PlayHead, Playing
<1> QED
  BY <1>2, <1>3, <1>4, <1>6, <1>7 DEF PlayHead

-----------------------------------------------------------------------------
(* Types                                                                   *)

LEMMA TypeInit == Init => TypeOK
<1> SUFFICES ASSUME Init PROVE TypeOK
  OBVIOUS
<1>1. synth \in [Answer -> [Sentence -> {"no", "asked", "ready", "failed"}]]
  BY DEF Init
<1>2. said \in [Answer -> 0..MaxSentences] /\ played \in [Answer -> 0..MaxSentences]
  BY VoiceAssumption DEF Init
<1>3. queue \in [Answer -> Seq(Sentence) \cup {Undefined}]
  BY DEF Init
<1>4. /\ phase \in [Answer -> {"none", "created", "written", "ended", "cut", "failed"}]
      /\ monitor \in [Answer -> {"none", "looping", "playing", "stuck", "over"}]
  BY DEF Init
<1>5. prompts \in Seq(Utterance) /\ heard \in 0..MaxUtterances
  BY VoiceAssumption DEF Init
<1> QED
  BY <1>1, <1>2, <1>3, <1>4, <1>5 DEF Init, TypeOK

LEMMA TypeNext ==
  ASSUME TypeOK, [Next]_vars
  PROVE  TypeOK'
<1> USE VoiceAssumption
<1>1. CASE Tap
  BY <1>1, StopFacts DEF Tap, mic, page, call, text, TypeOK
<1>2. CASE StopButton
  BY <1>2 DEF StopButton, Written, mic, page, call, text, sound, TypeOK
<1>3. CASE Hear
  <2>1. heard' \in 0..MaxUtterances /\ heard' > 0
    BY <1>3 DEF Hear, TypeOK
  <2>2. recorder' = "recording" /\ UNCHANGED <<confirmed, overlapped, dropped, page, call, text>>
    BY <1>3 DEF Hear
  <2>3. StopAllAudio
    BY <1>3 DEF Hear
  <2> QED
    BY <2>1, <2>2, <2>3, StopFacts DEF page, call, text, TypeOK
<1>4. CASE Silence
  BY <1>4 DEF Silence, page, server, call, text, sound, TypeOK
<1>5. CASE RecorderStops
  <2>1. heard \in Utterance
    BY <1>5 DEF RecorderStops, TypeOK, Utterance
  <2> QED
    BY <1>5, <2>1 DEF RecorderStops, server, call, text, sound, TypeOK
<1>6. CASE StopReturns
  BY <1>6 DEF StopReturns, AnswersTo, mic, page, call, text, sound, TypeOK
<1>7. CASE Close
  BY <1>7, StopFacts DEF Close, page, text, TypeOK
<1>8. ASSUME NEW u \in Utterance, NoPrompt(u) \/ SubmitReturns(u)
      PROVE  TypeOK'
  BY <1>8 DEF NoPrompt, SubmitReturns, server, call, text, sound, TypeOK
<1>9. ASSUME NEW u \in Utterance, SubmitPrompt(u)
      PROVE  TypeOK'
  BY <1>9 DEF SubmitPrompt, mic, call, text, sound, TypeOK
<1>10. ASSUME NEW m \in Answer, Start(m)
       PROVE  TypeOK'
  BY <1>10 DEF Start, mic, page, text, TypeOK
<1>11. ASSUME NEW m \in Answer, Finish(m)
       PROVE  TypeOK'
  <2>1. CASE UNCHANGED text
    BY <1>11, <2>1 DEF Finish, mic, page, text, sound, TypeOK
  <2>2. ASSUME NEW n \in said[m] + 1..MaxSentences, Receive(m, n)
        PROVE  TypeOK'
    <3>1. n \in Sentence
      BY <2>2 DEF TypeOK, Sentence
    <3>2. said' \in [Answer -> 0..MaxSentences]
      <4>1. n \in 0..MaxSentences
        BY <3>1 DEF Sentence
      <4> QED
        BY <2>2, <3>1, <4>1 DEF Receive, TypeOK
    <3>3. queue' \in [Answer -> Seq(Sentence) \cup {Undefined}] /\ synth' \in [Answer -> [Sentence -> {"no", "asked", "ready", "failed"}]]
      BY <2>2, <3>1, ReceiveFacts
    <3> QED
      BY <1>11, <3>2, <3>3 DEF Finish, mic, page, sound, TypeOK
  <2> QED
    BY <1>11, <2>1, <2>2 DEF Finish
<1>12. ASSUME NEW m \in Answer, Fail(m) \/ Cancel(m)
       PROVE  TypeOK'
  BY <1>12 DEF Fail, Cancel, AnswersTo, mic, page, call, text, sound, TypeOK
<1>13. ASSUME NEW m \in Answer, Abort(m) \/ PlayEnds(m) \/ EndLoop(m)
       PROVE  TypeOK'
  BY <1>13 DEF Abort, PlayEnds, EndLoop, mic, page, server, call, text, TypeOK
<1>14. ASSUME NEW m \in Answer, Play(m)
       PROVE  TypeOK'
  <2>1. Head(queue[m]) \in 0..MaxSentences
    BY <1>14, HeadFacts DEF Play, Sentence
  <2>2. played' \in [Answer -> 0..MaxSentences]
    <3>1. played' = [played EXCEPT ![m] = Head(queue[m])]
      BY <1>14, HeadFacts DEF Play
    <3> QED
      BY <2>1, <3>1 DEF TypeOK
  <2> QED
    BY <1>14, <2>2, HeadFacts DEF Play, mic, page, server, call, TypeOK
<1>15. ASSUME NEW m \in Answer, NEW n \in Sentence, Continue(m, n)
       PROVE  TypeOK'
  <2>1. said' \in [Answer -> 0..MaxSentences]
    BY <1>15, ReceiveFacts DEF Continue, TypeOK, Sentence
  <2> QED
    BY <1>15, <2>1, ReceiveFacts DEF Continue, mic, page, server, call, sound, TypeOK
<1>16. ASSUME NEW m \in Answer, NEW n \in Sentence, Synthesize(m, n)
       PROVE  TypeOK'
  <2>1. PICK r \in {"ready", "failed"} : synth' = [synth EXCEPT ![m] = [synth[m] EXCEPT ![n] = r]]
    BY <1>16 DEF Synthesize
  <2>2. synth[m] \in [Sentence -> {"no", "asked", "ready", "failed"}]
    BY DEF TypeOK
  <2>3. [synth[m] EXCEPT ![n] = r] \in [Sentence -> {"no", "asked", "ready", "failed"}]
    BY <2>2
  <2>4. synth' \in [Answer -> [Sentence -> {"no", "asked", "ready", "failed"}]]
    BY <2>1, <2>3 DEF TypeOK
  <2> QED
    BY <1>16, <2>4 DEF Synthesize, mic, page, server, call, sound, TypeOK
<1>17. CASE UNCHANGED vars
  BY <1>17 DEF vars, mic, page, server, call, text, sound, TypeOK
<1> QED
  BY <1>1, <1>2, <1>3, <1>4, <1>5, <1>6, <1>7, <1>8, <1>9, <1>10, <1>11, <1>12, <1>13, <1>14,
     <1>15, <1>16, <1>17 DEF Next

-----------------------------------------------------------------------------
(* What the user says                                                      *)

LEMMA SpeechInit == Init => SpeechInv
BY DEF Init, SpeechInv, NothingDropped

(* Most actions are none of the microphone's.                              *)
LEMMA MicUnmoved ==
  ASSUME TypeOK, [Next]_vars
  PROVE  \/ Hear \/ Silence \/ RecorderStops \/ Close
         \/ \E u \in Utterance : NoPrompt(u) \/ SubmitPrompt(u) \/ SubmitReturns(u)
         \/ UNCHANGED <<mic, page>>
<1>1. Tap \/ StopButton \/ StopReturns => UNCHANGED <<mic, page>>
  BY DEF Tap, StopButton, StopReturns
<1>2. ASSUME NEW m \in Answer, Start(m) \/ Finish(m) \/ Fail(m) \/ Cancel(m)
      PROVE  UNCHANGED <<mic, page>>
  BY <1>2 DEF Start, Finish, Fail, Cancel
<1>3. ASSUME NEW m \in Answer, Abort(m) \/ Play(m) \/ PlayEnds(m) \/ EndLoop(m)
      PROVE  UNCHANGED <<mic, page>>
  BY <1>3 DEF Abort, Play, PlayHead, PlayEnds, EndLoop
<1>4. ASSUME NEW m \in Answer, NEW n \in Sentence, Continue(m, n) \/ Synthesize(m, n)
      PROVE  UNCHANGED <<mic, page>>
  BY <1>4 DEF Continue, Synthesize
<1>5. UNCHANGED vars => UNCHANGED <<mic, page>>
  BY DEF vars
<1> QED
  BY <1>1, <1>2, <1>3, <1>4, <1>5 DEF Next

LEMMA SpeechNext ==
  ASSUME TypeOK, SpeechInv, LoopInv, [Next]_vars
  PROVE  SpeechInv'
<1> USE DEF SpeechInv, NothingDropped, Recorded
<1> SUFFICES ASSUME ~overlapped' PROVE SpeechInv'
  OBVIOUS
<1>0. /\ heard \in Nat /\ transcribing \subseteq Nat /\ prompts \in Seq(Utterance)
      /\ \A i \in DOMAIN prompts : prompts[i] \in Nat
  <2>1. Utterance \subseteq Nat
    BY DEF Utterance
  <2>2. prompts \in Seq(Utterance)
    BY DEF TypeOK
  <2>3. \A i \in DOMAIN prompts : prompts[i] \in Utterance
    BY <2>2
  <2>4. heard \in Nat /\ transcribing \subseteq Utterance
    BY VoiceAssumption DEF TypeOK
  <2> QED
    BY <2>1, <2>2, <2>3, <2>4
<1>1. CASE Hear
  BY <1>0, <1>1 DEF Hear, page
<1>2. CASE Silence
  BY <1>0, <1>2 DEF Silence, page
<1>3. CASE RecorderStops
  BY <1>0, <1>3 DEF RecorderStops
<1>4. CASE Close
  BY <1>0, <1>4 DEF Close, page
<1>5. ASSUME NEW u \in Utterance, NoPrompt(u) \/ SubmitReturns(u)
      PROVE  SpeechInv'
  BY <1>0, <1>5 DEF NoPrompt, SubmitReturns
<1>6. ASSUME NEW u \in Utterance, SubmitPrompt(u)
      PROVE  SpeechInv'
  <2>1. /\ ~overlapped /\ u \in transcribing /\ transcribing' = transcribing \ {u}
        /\ prompts' = Append(prompts, u) /\ UNCHANGED <<recorder, heard, dropped>>
    BY <1>6 DEF SubmitPrompt, mic
  <2>2. recorder # "stopping" /\ dropped' = {}
    BY <2>1
  <2>3. transcribing' = {}
    BY <2>1
  <2>4. Recorded(u) /\ u \in Nat
    BY <1>0, <2>1 DEF LoopInv
  <2>5. Len(prompts) \in Nat /\ DOMAIN prompts = 1..Len(prompts)
    BY <1>0
  <2>6. /\ DOMAIN prompts' = 1..Len(prompts) + 1
        /\ \A i \in 1..Len(prompts) : prompts'[i] = prompts[i]
        /\ prompts'[Len(prompts) + 1] = u
    BY <1>0, <2>1, <2>4
  <2>7. \A i, j \in DOMAIN prompts' : i < j => prompts'[i] < prompts'[j]
    BY <1>0, <2>1, <2>5, <2>6
  <2>8. \A i \in DOMAIN prompts' : Recorded(prompts'[i])
    BY <2>1, <2>4, <2>5, <2>6
  <2> QED
    BY <2>1, <2>2, <2>3, <2>7, <2>8
<1>7. CASE UNCHANGED <<mic, page>>
  BY <1>7 DEF mic, page
<1> QED
  BY <1>1, <1>2, <1>3, <1>4, <1>5, <1>6, <1>7, MicUnmoved

-----------------------------------------------------------------------------
(* What the assistant says                                                 *)

LEMMA LoopInit == Init => LoopInv /\ QueueInv
BY VoiceAssumption DEF Init, LoopInv, QueueInv

(* An answer with a loop has been started; one that is started has none.   *)
LEMMA LoopNext ==
  ASSUME TypeOK, LoopInv, [Next]_vars
  PROVE  LoopInv'
<1>0. /\ heard \in Nat /\ transcribing \subseteq Nat
      /\ \A m \in Answer : m[1] \in Nat
  <2>1. Utterance \subseteq Nat /\ \A m \in Answer : m[1] \in Utterance
    BY DEF Utterance, Answer
  <2>2. heard \in Nat /\ transcribing \subseteq Utterance
    BY VoiceAssumption DEF TypeOK
  <2> QED
    BY <2>1, <2>2
<1> USE DEF LoopInv, Recorded
<1>1. CASE Tap
  <2>1. UNCHANGED <<transcribing, recorder, heard, phase>>
    BY <1>1, StopFacts DEF Tap, mic, page
  <2> QED
    BY <1>1, <2>1, StopFacts DEF Tap, TypeOK
<1>2. CASE StopButton \/ StopReturns
  BY <1>2 DEF StopButton, StopReturns, mic, page, sound
<1>3. CASE Hear
  <2>1. UNCHANGED <<transcribing, phase>> /\ recorder' = "recording" /\ heard' = heard + 1
    BY <1>3, StopFacts DEF Hear, page
  <2>2. \A u \in transcribing' : Recorded(u)'
    BY <1>0, <1>3, <2>1 DEF Hear
  <2>3. \A m \in Answer : phase'[m] # "none" => m[1] \notin transcribing' /\ Recorded(m[1])'
    BY <1>0, <1>3, <2>1 DEF Hear
  <2>4. /\ \A m \in Answer : monitor'[m] # "none" => phase'[m] \notin {"none", "created"}
        /\ \A m \in silenced' : monitor'[m] = "stuck"
    BY <1>3, <2>1, StopFacts DEF Hear, TypeOK
  <2> QED
    BY <2>2, <2>3, <2>4
<1>4. CASE Silence
  BY <1>4 DEF Silence, page, server, sound
<1>5. CASE RecorderStops
  <2>1. /\ recorder = "stopping" /\ recorder' = "waiting"
        /\ UNCHANGED <<heard, phase, monitor, silenced>>
    BY <1>5 DEF RecorderStops, server, sound
  <2>2. transcribing' \subseteq transcribing \cup {heard}
    BY <1>5 DEF RecorderStops
  <2>3. \A u \in transcribing' : Recorded(u)'
    BY <1>0, <2>1, <2>2
  <2>4. \A m \in Answer : phase'[m] # "none" => m[1] \notin transcribing' /\ Recorded(m[1])'
    BY <1>0, <2>1, <2>2
  <2> QED
    BY <2>1, <2>3, <2>4
<1>6. CASE Close
  <2>1. UNCHANGED <<transcribing, heard, phase>> /\ recorder' = "off"
    BY <1>6, StopFacts DEF Close, page
  <2>2. /\ \A m \in Answer : monitor'[m] # "none" => phase'[m] \notin {"none", "created"}
        /\ \A m \in silenced' : monitor'[m] = "stuck"
    BY <1>6, <2>1, StopFacts DEF Close, TypeOK
  <2> QED
    BY <1>0, <2>1, <2>2
<1>7. ASSUME NEW u \in Utterance, NoPrompt(u) \/ SubmitReturns(u)
      PROVE  LoopInv'
  BY <1>7 DEF NoPrompt, SubmitReturns, server, sound
<1>8. ASSUME NEW u \in Utterance, SubmitPrompt(u)
      PROVE  LoopInv'
  <2>1. PICK models \in 1..MaxModels :
          phase' = [m \in Answer |-> IF m[1] = u /\ m[2] <= models THEN "created" ELSE phase[m]]
    BY <1>8 DEF SubmitPrompt
  <2>2. /\ u \in transcribing /\ transcribing' = transcribing \ {u}
        /\ UNCHANGED <<recorder, heard, monitor, silenced>>
    BY <1>8 DEF SubmitPrompt, mic, sound
  <2>3. \A m \in Answer : phase'[m] = IF m[1] = u /\ m[2] <= models THEN "created" ELSE phase[m]
    BY <2>1
  <2>4. \A m \in Answer : m[1] = u => monitor[m] = "none"
    BY <2>2
  <2> QED
    BY <2>2, <2>3, <2>4
<1>9. ASSUME NEW m \in Answer, Start(m)
      PROVE  LoopInv'
  <2>1. /\ phase[m] = "created" /\ UNCHANGED <<recorder, heard, transcribing, silenced>>
        /\ phase' = [phase EXCEPT ![m] = "written"]
    BY <1>9 DEF Start, mic, page
  <2>2. monitor[m] = "none" /\ m \notin silenced
    BY <2>1
  <2>3. monitor' = monitor \/ monitor' = [monitor EXCEPT ![m] = "looping"]
    BY <1>9 DEF Start
  <2>4. \A l \in Answer : l # m => phase'[l] = phase[l] /\ monitor'[l] = monitor[l]
    BY <2>1, <2>3 DEF TypeOK
  <2>5. phase'[m] = "written"
    BY <2>1 DEF TypeOK
  <2>6. silenced \subseteq Answer
    BY DEF TypeOK
  <2> QED
    BY <2>1, <2>2, <2>4, <2>5, <2>6
<1>10. ASSUME NEW m \in Answer, Finish(m) \/ Fail(m) \/ Cancel(m)
       PROVE  LoopInv'
  <2>1. /\ phase[m] = "written" /\ UNCHANGED <<recorder, heard, transcribing, silenced, monitor>>
    BY <1>10 DEF Finish, Fail, Cancel, mic, page, sound
  <2>2. PICK p \in {"ended", "failed", "cut"} : phase' = [phase EXCEPT ![m] = p]
    BY <1>10 DEF Finish, Fail, Cancel
  <2>3. \A l \in Answer : phase'[l] = IF l = m THEN p ELSE phase[l]
    BY <2>2 DEF TypeOK
  <2> QED
    BY <2>1, <2>3
<1>11. ASSUME NEW m \in Answer, Abort(m) \/ PlayEnds(m) \/ EndLoop(m)
       PROVE  LoopInv'
  <2>1. /\ monitor[m] \in {"looping", "playing"}
        /\ UNCHANGED <<recorder, heard, transcribing, silenced, phase>>
        /\ monitor' = [monitor EXCEPT ![m] = "over"] \/ monitor' = [monitor EXCEPT ![m] = "looping"]
    BY <1>11 DEF Abort, PlayEnds, EndLoop, mic, page, server
  <2>2. m \notin silenced /\ phase[m] \notin {"none", "created"}
    BY <2>1
  <2>3. \A l \in Answer : l # m => monitor'[l] = monitor[l]
    BY <2>1 DEF TypeOK
  <2>4. silenced \subseteq Answer
    BY DEF TypeOK
  <2> QED
    BY <2>1, <2>2, <2>3, <2>4
<1>12. ASSUME NEW m \in Answer, Play(m)
       PROVE  LoopInv'
  <2>1. monitor[m] = "looping" /\ UNCHANGED <<recorder, heard, transcribing, silenced, phase>>
    BY <1>12 DEF Play, PlayHead, mic, page, server
  <2>2. \A l \in Answer : monitor'[l] =
          IF l = m THEN "playing" ELSE IF monitor[l] = "playing" THEN "stuck" ELSE monitor[l]
    BY <1>12, HeadFacts DEF Play
  <2>3. m \notin silenced /\ phase[m] \notin {"none", "created"} /\ silenced \subseteq Answer
    BY <2>1 DEF TypeOK
  <2> QED
    BY <2>1, <2>2, <2>3
<1>13. ASSUME NEW m \in Answer, NEW n \in Sentence, Continue(m, n) \/ Synthesize(m, n)
       PROVE  LoopInv'
  BY <1>13 DEF Continue, Synthesize, mic, page, server, sound
<1>14. CASE UNCHANGED vars
  BY <1>14 DEF vars, mic, page, server, sound
<1> QED
  BY <1>1, <1>2, <1>3, <1>4, <1>5, <1>6, <1>7, <1>8, <1>9, <1>10, <1>11, <1>12, <1>13, <1>14 DEF Next

(* A sentence joins a queue when it is the last that was said, and leaves  *)
(* it when it is played.                                                   *)
LEMMA QueueNext ==
  ASSUME TypeOK, QueueInv, [Next]_vars
  PROVE  QueueInv'
<1>0. \A m \in Answer :
        /\ played[m] \in Nat /\ said[m] \in Nat
        /\ queue[m] # Undefined =>
             queue[m] \in Seq(Sentence) /\ \A i \in 1..Len(queue[m]) : queue[m][i] \in Nat
  <2>1. Sentence \subseteq Nat
    BY DEF Sentence
  <2>2. \A s \in Seq(Sentence) : \A i \in 1..Len(s) : s[i] \in Sentence
    OBVIOUS
  <2>3. \A m \in Answer : queue[m] # Undefined => queue[m] \in Seq(Sentence)
    BY DEF TypeOK
  <2>4. \A m \in Answer : played[m] \in Nat /\ said[m] \in Nat
    BY VoiceAssumption DEF TypeOK
  <2> QED
    BY <2>1, <2>2, <2>3, <2>4
<1>1. ASSUME UNCHANGED <<said, queue, played>>
      PROVE  QueueInv'
  BY <1>1 DEF QueueInv
<1>2. ASSUME NEW m \in Answer, NEW n \in Sentence, n > said[m], Receive(m, n), UNCHANGED played
      PROVE  QueueInv'
  <2>1. said'[m] = n /\ \A l \in Answer : l # m => said'[l] = said[l]
    BY <1>2, ReceiveFacts DEF TypeOK
  <2>2. \A l \in Answer : l # m => queue'[l] = queue[l]
    BY <1>2, ReceiveFacts
  <2>3. n \in Nat /\ n > said[m] /\ played[m] <= said[m] /\ played'[m] = played[m]
    BY <1>2 DEF Sentence, QueueInv
  <2>4. CASE queue'[m] = queue[m]
    BY <1>0, <1>2, <2>1, <2>2, <2>3, <2>4 DEF QueueInv
  <2>5. CASE queue'[m] = Append(<<>>, n)
    <3>1. Len(queue'[m]) = 1 /\ queue'[m][1] = n
      BY <2>5
    <3> QED
      BY <1>0, <1>2, <2>1, <2>2, <2>3, <3>1 DEF QueueInv
  <2>6. CASE queue[m] # Undefined /\ queue'[m] = Append(queue[m], n)
    <3>1. queue[m] \in Seq(Sentence) /\ \A i \in 1..Len(queue[m]) : queue[m][i] \in Nat
      BY <1>0, <2>6
    <3>2. /\ Len(queue[m]) \in Nat /\ Len(queue'[m]) = Len(queue[m]) + 1
          /\ \A i \in 1..Len(queue[m]) : queue'[m][i] = queue[m][i]
          /\ queue'[m][Len(queue[m]) + 1] = n
      BY <2>6, <3>1
    <3>3. \A i \in 1..Len(queue'[m]) : played'[m] < queue'[m][i] /\ queue'[m][i] <= said'[m]
      BY <1>0, <2>1, <2>3, <2>6, <3>1, <3>2 DEF QueueInv
    <3>4. \A i, j \in 1..Len(queue'[m]) : i < j => queue'[m][i] < queue'[m][j]
      BY <1>0, <2>1, <2>3, <2>6, <3>1, <3>2 DEF QueueInv
    <3> QED
      BY <1>0, <1>2, <2>1, <2>2, <2>3, <3>3, <3>4 DEF QueueInv
  <2> QED
    BY <1>2, <2>4, <2>5, <2>6, ReceiveFacts
<1>3. CASE Tap \/ Hear \/ Close
  <2>1. UNCHANGED <<text, played>>
    BY <1>3, StopFacts DEF Tap, Hear, Close
  <2> QED
    BY <1>1, <2>1 DEF text
<1>4. CASE StopButton \/ Silence \/ RecorderStops \/ StopReturns \/ UNCHANGED vars
  <2>1. UNCHANGED <<text, sound>>
    BY <1>4 DEF StopButton, Silence, RecorderStops, StopReturns, vars
  <2> QED
    BY <1>1, <2>1 DEF text, sound
<1>5. ASSUME NEW u \in Utterance, NoPrompt(u) \/ SubmitPrompt(u) \/ SubmitReturns(u)
      PROVE  QueueInv'
  <2>1. UNCHANGED <<text, sound>>
    BY <1>5 DEF NoPrompt, SubmitPrompt, SubmitReturns
  <2> QED
    BY <1>1, <2>1 DEF text, sound
<1>6. ASSUME NEW m \in Answer, Start(m) \/ Fail(m) \/ Cancel(m)
      PROVE  QueueInv'
  <2>1. UNCHANGED <<text, played>>
    BY <1>6 DEF Start, Fail, Cancel, sound
  <2> QED
    BY <1>1, <2>1 DEF text
<1>7. ASSUME NEW m \in Answer, Abort(m) \/ PlayEnds(m) \/ EndLoop(m)
      PROVE  QueueInv'
  <2>1. UNCHANGED <<text, played>>
    BY <1>7 DEF Abort, PlayEnds, EndLoop
  <2> QED
    BY <1>1, <2>1 DEF text
<1>8. ASSUME NEW m \in Answer, Finish(m)
      PROVE  QueueInv'
  <2>1. UNCHANGED played
    BY <1>8 DEF Finish, sound
  <2>2. CASE UNCHANGED text
    BY <1>1, <2>1, <2>2 DEF text
  <2>3. ASSUME NEW n \in said[m] + 1..MaxSentences, Receive(m, n)
        PROVE  QueueInv'
    <3>1. n \in Sentence /\ n > said[m]
      BY <1>0, <2>3, VoiceAssumption DEF Sentence
    <3> QED
      BY <1>2, <2>1, <2>3, <3>1
  <2> QED
    BY <1>8, <2>2, <2>3 DEF Finish
<1>9. ASSUME NEW m \in Answer, NEW n \in Sentence, Continue(m, n)
      PROVE  QueueInv'
  BY <1>2, <1>9 DEF Continue, sound
<1>10. ASSUME NEW m \in Answer, NEW n \in Sentence, Synthesize(m, n)
       PROVE  QueueInv'
  BY <1>1, <1>10 DEF Synthesize, sound
<1>11. ASSUME NEW m \in Answer, Play(m)
       PROVE  QueueInv'
  <2>1. queue[m] # Undefined /\ queue[m] \in Seq(Sentence) /\ queue[m] # <<>>
    BY <1>0, <1>11 DEF Play, Queued
  <2>2. /\ queue'[m] = Tail(queue[m]) /\ played'[m] = Head(queue[m]) /\ said' = said
        /\ \A l \in Answer : l # m => queue'[l] = queue[l] /\ played'[l] = played[l]
    BY <1>11, HeadFacts DEF Play, TypeOK
  <2>3. /\ Len(queue[m]) \in Nat \ {0} /\ Head(queue[m]) = queue[m][1]
        /\ Len(queue'[m]) = Len(queue[m]) - 1
        /\ \A i \in 1..Len(queue[m]) - 1 : queue'[m][i] = queue[m][i + 1]
    BY <2>1, <2>2
  <2>4. \A i \in 1..Len(queue[m]) : queue[m][i] \in Nat
    BY <1>0, <2>1
  <2>5. played'[m] <= said'[m]
    BY <2>1, <2>2, <2>3 DEF QueueInv
  <2>6. \A i \in 1..Len(queue'[m]) : played'[m] < queue'[m][i] /\ queue'[m][i] <= said'[m]
    BY <2>1, <2>2, <2>3, <2>4 DEF QueueInv
  <2>7. \A i, j \in 1..Len(queue'[m]) : i < j => queue'[m][i] < queue'[m][j]
    BY <2>1, <2>2, <2>3, <2>4 DEF QueueInv
  <2> QED
    BY <2>2, <2>5, <2>6, <2>7 DEF QueueInv
<1> QED
  BY <1>3, <1>4, <1>5, <1>6, <1>7, <1>8, <1>9, <1>10, <1>11 DEF Next

-----------------------------------------------------------------------------
(* As long as the user waits until what was said before is sent, nothing   *)
(* the recorder ends is lost, and prompts are in the order of speech,      *)
(* whatever answers, stops and taps come between.                          *)
THEOREM SpeechOrder == Spec => []NothingDropped
<1>1. Init => TypeOK /\ SpeechInv /\ LoopInv
  BY TypeInit, SpeechInit, LoopInit
<1>2. TypeOK /\ SpeechInv /\ LoopInv /\ [Next]_vars => (TypeOK /\ SpeechInv /\ LoopInv)'
  BY TypeNext, SpeechNext, LoopNext
<1>3. SpeechInv => NothingDropped
  BY DEF SpeechInv, NothingDropped
<1> QED
  BY <1>1, <1>2, <1>3, PTL DEF Spec

(* Whatever the order in which answers start, are stopped and end, the one *)
(* audio element plays sentences of the current answer only, each once and *)
(* in order, and none of an answer that was interrupted.                   *)
THEOREM OneVoice == Spec => SpeaksInTurn
<1>1. Init => TypeOK /\ LoopInv /\ QueueInv
  BY TypeInit, LoopInit
<1>2. TypeOK /\ LoopInv /\ QueueInv /\ [Next]_vars => (TypeOK /\ LoopInv /\ QueueInv)'
  BY TypeNext, LoopNext, QueueNext
<1>3. ASSUME TypeOK, LoopInv, QueueInv, [Next]_vars, NEW m \in Answer, played'[m] # played[m]
      PROVE  open /\ m = current /\ m \notin silenced /\ played'[m] > played[m]
  <2>1. Play(m)
    <3>1. PICK l \in Answer : Play(l)
      <4>1. Tap \/ Hear \/ Close => played' = played
        BY <1>3, StopFacts DEF Tap, Hear, Close
      <4>2. StopButton \/ Silence \/ RecorderStops \/ StopReturns \/ UNCHANGED vars => played' = played
        BY DEF StopButton, Silence, RecorderStops, StopReturns, vars, sound
      <4>3. \A u \in Utterance : NoPrompt(u) \/ SubmitPrompt(u) \/ SubmitReturns(u) => played' = played
        BY DEF NoPrompt, SubmitPrompt, SubmitReturns, sound
      <4>4. \A l \in Answer : Start(l) \/ Finish(l) \/ Fail(l) \/ Cancel(l) => played' = played
        BY DEF Start, Finish, Fail, Cancel, sound
      <4>5. \A l \in Answer : Abort(l) \/ PlayEnds(l) \/ EndLoop(l) => played' = played
        BY DEF Abort, PlayEnds, EndLoop
      <4>6. \A l \in Answer, n \in Sentence : Continue(l, n) \/ Synthesize(l, n) => played' = played
        BY DEF Continue, Synthesize, sound
      <4> QED
        BY <1>3, <4>1, <4>2, <4>3, <4>4, <4>5, <4>6 DEF Next
    <3>2. l # m => played'[m] = played[m]
      BY <1>3, <3>1, HeadFacts DEF Play, TypeOK
    <3> QED
      BY <1>3, <3>1, <3>2
  <2>2. /\ queue[m] # Undefined /\ queue[m] \in Seq(Sentence) /\ queue[m] # <<>>
        /\ played'[m] = Head(queue[m])
    BY <1>3, <2>1, HeadFacts DEF Play, Queued, TypeOK
  <2>3. played[m] < Head(queue[m])
    BY <1>3, <2>2 DEF QueueInv
  <2>4. played[m] \in Nat /\ Head(queue[m]) \in Nat
    BY <1>3, <2>2, VoiceAssumption DEF TypeOK, Sentence
  <2>5. m \notin silenced /\ open /\ m = current
    BY <1>3, <2>1 DEF Play, Aborted, LoopInv
  <2> QED
    BY <2>2, <2>3, <2>4, <2>5
<1>4. TypeOK /\ LoopInv /\ QueueInv /\ [Next]_vars =>
        [\A m \in Answer : played'[m] # played[m] =>
           open /\ m = current /\ m \notin silenced /\ played'[m] > played[m]]_vars
  BY <1>3
<1> QED
  BY <1>1, <1>2, <1>4, PTL DEF Spec, SpeaksInTurn
=============================================================================
