---------------------------- MODULE MCRedisTasks ----------------------------
(* Small instances of RedisTasks: two processes and two tasks of one chat. *)
EXTENDS RedisTasks, TLC

CONSTANTS i1, i2, t1, t2, x1

Hosts == (t1 :> i1) @@ (t2 :> i2)
OneChat == [t \in Task |-> x1]
=============================================================================
