---------------------------- MODULE MCVoiceCall ----------------------------
(* Small instances of VoiceCall.  A behaviour is about the microphone,     *)
(* about what is said of two answers that follow each other, or about two  *)
(* models that answer at once: cast bounds it.  Only what users and models *)
(* do is bounded, nothing that the fairness is about.                      *)
EXTENDS VoiceCall

VARIABLE cast

CONSTANT Casts
Microphone == [utterances |-> 2, models |-> 1, sentences |-> 0, overlap |-> TRUE, voice |-> BOOLEAN]
Talk == [utterances |-> 2, models |-> 1, sentences |-> 2, overlap |-> FALSE, voice |-> {TRUE}]
Models == [utterances |-> 1, models |-> 2, sentences |-> 2, overlap |-> FALSE, voice |-> {FALSE}]
AllCasts == {Microphone, Talk, Models}

CastInit == Init /\ cast \in Casts /\ interruption \in cast.voice
CastNext ==
  /\ Next /\ UNCHANGED cast
  /\ heard' <= cast.utterances
  /\ heard' # heard => cast.overlap \/ transcribing \cup sending = {}
  /\ \A m \in Answer :
       /\ phase'[m] # "none" => m[2] <= cast.models
       /\ said'[m] <= cast.sentences
       /\ phase'[m] = "written" => said'[m] = 0 \/ said'[m] < cast.sentences
CastSpec == CastInit /\ [][CastNext]_<<vars, cast>> /\ Fairness
=============================================================================
