---------------------------- MODULE MCCollabDoc ----------------------------
(* Small instances of CollabDoc: two pages of one note.                    *)
EXTENDS CollabDoc, TLC

CONSTANTS c1, c2

Symmetry == Permutations({c1, c2})
=============================================================================
