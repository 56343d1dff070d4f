--------------------------- MODULE MCSessionPool ---------------------------
(* Small instances of SessionPool: three sessions of two users on one      *)
(* instance, or spread over two (for what the README says of two).         *)
EXTENDS SessionPool, TLC

CONSTANTS i1, i2, s1, s2, s3, u1, u2

HomeOne == [s \in Sid |-> i1]
HomeTwo == (s1 :> i1) @@ (s2 :> i1) @@ (s3 :> i2)
=============================================================================
