---------------------------- MODULE MCUsagePool ----------------------------
(* Small instances of UsagePool: either one process with its pool in       *)
(* memory, two sessions and two models, or two processes with the pool in  *)
(* Redis, a session each and one model; a process may crash.  What is left *)
(* out in a behaviour never starts.                                        *)
EXTENDS UsagePool

CONSTANTS i1, i2, m1, m2, s1, s2, s3

Homes == [s \in Sid |-> IF s = s3 THEN i2 ELSE i1]

Here(i) == InRedis \/ i = i1
Reports(s, m) == IF InRedis THEN s # s2 /\ m = m1 ELSE s # s3

CastInit == UsageInit /\ step = [i \in Instance |-> IF Here(i) THEN "try" ELSE "down"]
CastNext ==
  /\ UsageNext
  /\ pings' <= IF InRedis THEN 1 ELSE MaxPing
  /\ \A i \in Instance :
       /\ ~Here(i) => step'[i] = "down"
       /\ \A p \in ping'[i] : Reports(p[1], p[2])
CastSpec ==
  /\ CastInit /\ [][CastNext]_usageVars /\ Fairness
  /\ \A i \in Instance : WF_running(Here(i) /\ Restart(i))
=============================================================================
