---------------------------- MODULE MessageTree ----------------------------
(***************************************************************************)
(* What a chat promises its reader, whatever requests, answers and events  *)
(* cross each other: the messages form trees of questions and answers,     *)
(* a message that is removed takes the messages directly below it along    *)
(* and leaves what is further below to the message above, and a message    *)
(* that exists is shown as long as there is one.                           *)
(*                                                                         *)
(* Chat.svelte keeps the tree twice, in parentId and in childrenIds, and   *)
(* writes old copies of messages back.  Where that happens the tree may be *)
(* torn: from then on nothing is promised, and the view is blank.          *)
(***************************************************************************)
EXTENDS Naturals

CONSTANTS
  Question, Answer,  \* the ids of messages, by the role of their author
  Null               \* above the first messages; shown in an empty chat

TreeAssumption == Question \cap Answer = {} /\ Null \notin Question \cup Answer

Id == Question \cup Answer

VARIABLES
  parent,  \* of each message there is: the message it answers
  open,    \* the answers still being written
  shown,   \* the last message of the branch shown
  torn
tree == <<parent, open, shown, torn>>

Msgs == DOMAIN parent
Below(x) == {y \in Msgs : parent[y] = x}
Blank == parent' = [x \in {} |-> Null] /\ open' = {} /\ shown' = Null

TreeTypeOK ==
  /\ Msgs \subseteq Id /\ parent \in [Msgs -> Id \cup {Null}]
  /\ open \subseteq Id /\ shown \in Id \cup {Null} /\ torn \in BOOLEAN

Init == parent = [x \in {} |-> Null] /\ open = {} /\ shown = Null /\ torn = FALSE

\* New questions appear below existing messages or start a tree, with new answers or new answers below
\* existing questions; one of them is shown.
Grow ==
  LET new == DOMAIN parent' \ Msgs IN
    /\ new # {} /\ new \subseteq Id
    /\ parent' = [x \in new \cup Msgs |-> IF x \in Msgs THEN parent[x] ELSE parent'[x]]
    /\ \A x \in new \cap Question : parent'[x] \in (Msgs \cap Answer) \cup {Null}
    /\ \A x \in new \cap Answer : parent'[x] \in (new \cup Msgs) \cap Question
    /\ open \subseteq open' /\ open' \subseteq open \cup (new \cap Answer)
    /\ shown' \in new
    /\ UNCHANGED torn

Settle ==  \* some answers are complete, and one of them may come into view
  /\ open' \subseteq open
  /\ shown' = shown \/ shown' \in open \ open'
  /\ UNCHANGED <<parent, torn>>

Reopen == open' = open \cup {shown} /\ shown \in Answer /\ UNCHANGED <<parent, shown, torn>>

Show == shown' \in Msgs /\ UNCHANGED <<parent, open, torn>>

Remove ==
  \E x \in Msgs :
    LET gone == {x} \cup Below(x) IN
      /\ parent' = [y \in Msgs \ gone |-> IF parent[y] \in Below(x) THEN parent[x] ELSE parent[y]]
      /\ open' = open \ gone
      /\ IF Msgs = gone THEN shown' = Null ELSE shown' \in Msgs \ gone
      /\ UNCHANGED torn

Tear == torn' = TRUE /\ Blank

Next ==
  \/ ~torn /\ (Grow \/ Settle \/ Reopen \/ Show \/ Remove \/ Tear)
  \/ torn /\ UNCHANGED tree

Spec == Init /\ [][Next]_tree

-----------------------------------------------------------------------------
\* Questions and answers alternate along parentId, and every message hangs below an existing one.
Rooted ==
  \A x \in Msgs : parent[x] # Null => parent[x] \in Msgs /\ (x \in Question <=> parent[x] \in Answer)

\* Following parentId upwards comes to an end: no set of messages is closed upwards without a first one.
Grounded == \A S \in SUBSET Msgs : S # {} => \E x \in S : parent[x] \notin S

\* A message is shown whenever there is one.
Shown == IF Msgs = {} THEN shown = Null ELSE shown \in Msgs

OpenAnswers == open \subseteq Msgs \cap Answer
=============================================================================
