---------------------------- MODULE MCNoteSaves ----------------------------
(* A small instance of NoteSaves: four updates of one note, the second one *)
(* from another session than the others, the third one without content.    *)
EXTENDS NoteSaves, TLC

CONSTANTS d1, d2, d3, doc, s1, s2

NoteItemOf == [t \in Saves |-> doc]

ThreeSaves == (1 :> d1) @@ (2 :> d2) @@ (3 :> NoTask) @@ (4 :> d3)
Authors == [k \in Update |-> IF k = 2 THEN s2 ELSE s1]

ASSUME NoteAssumption
=============================================================================
