---------------------------- MODULE MCLocalTasks ----------------------------
(* Small instances of LocalTasks: in each behaviour some of two chat       *)
(* completions of one chat and two saves of one document, and one or two *)
(* requests that stop something.  Nothing is assumed fair that arrives, so *)
(* that those left out are as if they came later.                          *)
EXTENDS LocalTasks

CONSTANTS c1, c2, d1, d2, chat, doc, s1, s2

MixedItemOf == [t \in Task |-> IF t \in {c1, c2} THEN chat ELSE doc]

VARIABLE cast  \* the tasks and the requests of this behaviour

CONSTANT Casts
MixedCasts ==
  {[tasks |-> {c1, c2}, stops |-> {s1, s2}], [tasks |-> {c1, d1}, stops |-> {s1, s2}],
   [tasks |-> {c1, d1, d2}, stops |-> {s1}]}

CastInit == Init /\ cast \in Casts
CastNext ==
  /\ Next
  /\ \A t \in Task \ cast.tasks : <<"create", t>> \notin ToSet(ready')
  /\ \A s \in Stopper \ cast.stops : pc'[s] = "idle"
  /\ UNCHANGED cast
CastSpec == CastInit /\ [][CastNext]_<<vars, cast>> /\ Fairness
=============================================================================
