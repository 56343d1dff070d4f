-------------------------- MODULE LocalTasksProofs --------------------------
(***************************************************************************)
(* Proofs about LocalTasks, for any number of tasks, items and stoppers.   *)
(* IInv is inductive: the queue invariant says what each queued callback   *)
(* will find, and from it follow what the registries hold.                 *)
(*                                                                         *)
(* In its last part, proofs about NoteSaves, for any number of updates.    *)
(* NotesInv is inductive: besides IInv it says that a save which nobody    *)
(* stops comes after all others created before it, wherever both are.      *)
(***************************************************************************)
EXTENDS NoteSaves, SequenceTheorems, FiniteSetTheorems, TLAPS

-----------------------------------------------------------------------------
(* Why: first, of the registry, no callback is queued twice, and one that  *)
(* is queued finds the task or the stopper it was queued for in the state  *)
(* it had then.                                                            *)
TaskQueueOK ==
  \A t \in Task :
    /\ Queued(<<"create", t>>) => st[t] = "none"
    /\ Queued(<<"step", t>>) => st[t] = "ready"
    /\ Queued(<<"reap", t>>) => st[t] = "done" /\ ~Queued(<<"cleanup", t>>)
    /\ Queued(<<"cleanup", t>>) => st[t] = "done"

StopQueueOK ==
  \A s \in Stopper :
    /\ Queued(<<"stop", s>>) => pc[s] = "queued"
    /\ Queued(<<"wake", s>>) => pc[s] = "await" /\ st[cur[s]] = "done"

QueueOK == IsInjective(ready) /\ TaskQueueOK /\ StopQueueOK

(* A registered task was created, one that ended has an outcome, and one   *)
(* that is awaited was created and has been popped from tasks.             *)
StateOK ==
  /\ \A t \in Task :
       /\ t \in tasks \/ Listed(t) => Started(t)
       /\ st[t] = "done" => outcome[t] # "none"
  /\ \A s \in Stopper :
       /\ pc[s] # "idle" => job[s] # NoTask
       /\ pc[s] = "await" => /\ cur[s] \in Task
                            /\ cur[s] \notin tasks
                            /\ Started(cur[s])

IInv == TypeOK /\ QueueOK /\ StateOK /\ RunningListed /\ EndedIsReaped /\ StopOnce

(* A task that runs but is no longer in tasks is being stopped.            *)
PoppedIsStopping ==
  \A t \in Task : Running(t) /\ t \notin tasks => cancel[t] \/ phase[t] = "handling"

(* Of notes: a save passes from its first step to its sleep to its last,   *)
(* and that of an update is created once the update has stopped others.    *)
SavesOK ==
  \A t \in Saves :
    /\ ~Queued(<<"create", t>>) /\ phase[t] # "handling"
    /\ st[t] = "none" => ~cancel[t] /\ phase[t] = "new"
    /\ st[t] = "waiting" => phase[t] = "body"
    /\ st[t] = "ready" => Queued(<<"step", t>>)
    /\ st[t] # "done" => outcome[t] = "none"
UpdatesOK == \A k \in WithData : pc[k] # "returned" => ~Created(k)

(* A save that nobody stops comes after all others created before it, in   *)
(* the list and the queue, and when it has written, they are stopped.      *)
Before(a, b, q) == \E i, j \in DOMAIN q : i < j /\ q[i] = a /\ q[j] = b
Sooner(t, u) == Before(<<"step", t>>, <<"step", u>>, ready)
GoesOn(t) == Running(t) /\ ~cancel[t]
Follows(t) ==
  /\ Listed(t) => Last(itemTasks[Doc]) = t
  /\ \A u \in Saves \ {t} : GoesOn(u) =>
       /\ outcome[t] # "ok"
       /\ GoesOn(t) =>
            \/ phase[t] = "new" /\ (phase[u] = "new" => Sooner(u, t))
            \/ phase[t] = "body" /\ phase[u] = "body" /\ st[t] = "waiting"
            \/ phase[t] = "body" /\ phase[u] = "body" /\ Sooner(u, t)

(* It ends as it should, unless an update stops it that has yet to create  *)
(* its own, or came without content.                                       *)
Busy(k) == pc[k] \notin {"idle", "returned"}
Ends(k) ==
  LET t == SaveOf[k] IN
    /\ outcome[t] = "ok" => note = k
    /\ outcome[t] = "error" => SidOf[k] \in left
    /\ cancel[t] \/ outcome[t] = "cancelled" =>
         bare \/ \E j \in WithData : pc[j] # "idle" /\ ~Created(j)
    /\ \A j \in Update \ WithData : Busy(j) => bare

LastOK ==
  /\ last \in WithData \cup {0}
  /\ \A k \in WithData : last = k => Created(k) /\ Follows(SaveOf[k]) /\ Ends(k)

(* If every update waits for the one before, the last to be created is of  *)
(* the last to arrive.                                                     *)
InTurn ==
  /\ \A k \in Received, j \in Update : j < k => j \in Received
  /\ ~crossed =>
       /\ \A j, k \in Received : j < k => Handled(j)
       /\ \A k \in WithData : Created(k) => k <= last
       /\ last # 0 /\ bare => \E k \in Received \ WithData : last < k

NotesInv == IInv /\ NotesTypeOK /\ SavesOK /\ UpdatesOK /\ LastOK /\ InTurn

-----------------------------------------------------------------------------
(* What the queues and lists need of sequences without repetitions: which  *)
(* elements an operation leaves, and that it adds no repetition.           *)

(* An element that is appended, and was not there, keeps the queue free of *)
(* repetitions.                                                            *)
LEMMA AppendSet ==
  ASSUME NEW S, NEW q \in Seq(S), NEW e \in S
  PROVE  /\ Append(q, e) \in Seq(S)
         /\ ToSet(Append(q, e)) = ToSet(q) \cup {e}
         /\ IsInjective(q) /\ e \notin ToSet(q) => IsInjective(Append(q, e))
<1>1. /\ Append(q, e) \in Seq(S)
      /\ Len(Append(q, e)) = Len(q) + 1
      /\ DOMAIN Append(q, e) = 1 .. Len(q) + 1
      /\ DOMAIN q = 1 .. Len(q)
      /\ Len(q) \in Nat
  BY AppendProperties, LenProperties
<1>2. /\ \A i \in 1 .. Len(q) : Append(q, e)[i] = q[i]
      /\ Append(q, e)[Len(q) + 1] = e
  BY AppendProperties
<1>3. ToSet(Append(q, e)) = ToSet(q) \cup {e}
  <2>1. ToSet(Append(q, e)) \subseteq ToSet(q) \cup {e}
    BY <1>1, <1>2 DEF ToSet
  <2>2. ToSet(q) \subseteq ToSet(Append(q, e))
    BY <1>1, <1>2 DEF ToSet
  <2>3. e \in ToSet(Append(q, e))
    BY <1>1, <1>2 DEF ToSet
  <2>4. QED  BY <2>1, <2>2, <2>3
<1>4. ASSUME IsInjective(q), e \notin ToSet(q)
      PROVE  IsInjective(Append(q, e))
  <2>1. \A i \in 1 .. Len(q) : q[i] # e
    BY <1>1, <1>4 DEF ToSet
  <2>2. QED  BY <1>1, <1>2, <1>4, <2>1 DEF IsInjective
<1>5. QED  BY <1>1, <1>3, <1>4

(* Taking the head removes it and nothing else.                            *)
LEMMA TailSet ==
  ASSUME NEW S, NEW q \in Seq(S), q # <<>>, IsInjective(q)
  PROVE  /\ Tail(q) \in Seq(S)
         /\ Head(q) \in ToSet(q)
         /\ ToSet(Tail(q)) = ToSet(q) \ {Head(q)}
         /\ IsInjective(Tail(q))
<1>1. /\ Len(q) \in Nat \ {0}
      /\ DOMAIN q = 1 .. Len(q)
      /\ Tail(q) \in Seq(S)
      /\ DOMAIN Tail(q) = 1 .. Len(q) - 1
      /\ \A i \in 1 .. Len(q) - 1 : Tail(q)[i] = q[i + 1]
      /\ Head(q) = q[1]
  <2>1. /\ Len(q) \in Nat \ {0}  /\ DOMAIN q = 1 .. Len(q)
    BY LenProperties, EmptySeq
  <2>2. /\ Tail(q) \in Seq(S)
        /\ Len(Tail(q)) = Len(q) - 1
        /\ \A i \in 1 .. Len(Tail(q)) : Tail(q)[i] = q[i + 1]
    BY HeadTailProperties
  <2>3. DOMAIN Tail(q) = 1 .. Len(Tail(q))
    BY <2>2, LenProperties
  <2>4. Head(q) = q[1]
    BY <2>1
  <2>5. QED  BY <2>1, <2>2, <2>3, <2>4
<1>2. Head(q) \in ToSet(q)
  BY <1>1 DEF ToSet
<1>3. IsInjective(Tail(q))
  <2> SUFFICES ASSUME NEW m \in 1 .. Len(q) - 1, NEW n \in 1 .. Len(q) - 1,
                      Tail(q)[m] = Tail(q)[n]
               PROVE  m = n
    BY <1>1 DEF IsInjective
  <2>1. q[m + 1] = q[n + 1] /\ m + 1 \in DOMAIN q /\ n + 1 \in DOMAIN q
    BY <1>1
  <2>2. m + 1 = n + 1
    BY <2>1 DEF IsInjective
  <2>3. QED  BY <2>2
<1>4. ToSet(Tail(q)) = ToSet(q) \ {Head(q)}
  <2>1. ASSUME NEW x \in ToSet(Tail(q)) PROVE x \in ToSet(q) \ {Head(q)}
    <3>1. PICK i \in 1 .. Len(q) - 1 : x = q[i + 1]
      BY <1>1 DEF ToSet
    <3>2. i + 1 \in DOMAIN q /\ i + 1 # 1 /\ 1 \in DOMAIN q
      BY <1>1
    <3>3. QED  BY <1>1, <3>1, <3>2 DEF ToSet, IsInjective
  <2>2. ASSUME NEW x \in ToSet(q) \ {Head(q)} PROVE x \in ToSet(Tail(q))
    <3>1. PICK i \in 2 .. Len(q) : x = q[i]
      BY <1>1 DEF ToSet
    <3>2. i - 1 \in 1 .. Len(q) - 1 /\ Tail(q)[i - 1] = q[i]
      BY <1>1
    <3>3. QED  BY <1>1, <3>1, <3>2 DEF ToSet
  <2>3. QED  BY <2>1, <2>2
<1>5. QED  BY <1>1, <1>2, <1>3, <1>4

(* A queue after another; no repetition if they have none in common.      *)
LEMMA ToSetConcat ==
  ASSUME NEW S, NEW p \in Seq(S), NEW q \in Seq(S)
  PROVE  p \o q \in Seq(S) /\ ToSet(p \o q) = ToSet(p) \cup ToSet(q)
<1> DEFINE r == p \o q
<1>1. /\ Len(p) \in Nat /\ DOMAIN p = 1 .. Len(p)
      /\ Len(q) \in Nat /\ DOMAIN q = 1 .. Len(q)
      /\ r \in Seq(S)
      /\ DOMAIN r = 1 .. Len(p) + Len(q)
  BY LenProperties, ConcatProperties
<1>2. \A i \in 1 .. Len(p) + Len(q) :
         r[i] = IF i <= Len(p) THEN p[i] ELSE q[i - Len(p)]
  BY ConcatProperties
<1> HIDE DEF r
<1>3. ASSUME NEW i \in 1 .. Len(p) PROVE r[i] = p[i] /\ i \in DOMAIN r
  BY <1>1, <1>2
<1>4. ASSUME NEW i \in 1 .. Len(q) PROVE r[Len(p) + i] = q[i] /\ Len(p) + i \in DOMAIN r
  BY <1>1, <1>2
<1>5. ASSUME NEW i \in DOMAIN r
      PROVE  \/ i \in 1 .. Len(p) /\ r[i] = p[i]
             \/ i - Len(p) \in 1 .. Len(q) /\ r[i] = q[i - Len(p)]
  BY <1>1, <1>2
<1>6. ToSet(p) \subseteq ToSet(r)  BY <1>1, <1>3 DEF ToSet
<1>7. ToSet(q) \subseteq ToSet(r)  BY <1>1, <1>4 DEF ToSet
<1>8. ToSet(r) \subseteq ToSet(p) \cup ToSet(q)  BY <1>1, <1>5 DEF ToSet
<1>9. QED  BY <1>1, <1>6, <1>7, <1>8 DEF r

LEMMA ConcatSet ==
  ASSUME NEW S, NEW p \in Seq(S), NEW q \in Seq(S),
         IsInjective(p), IsInjective(q), ToSet(p) \cap ToSet(q) = {}
  PROVE  /\ p \o q \in Seq(S)
         /\ ToSet(p \o q) = ToSet(p) \cup ToSet(q)
         /\ IsInjective(p \o q)
<1> DEFINE r == p \o q
<1>1. /\ Len(p) \in Nat /\ DOMAIN p = 1 .. Len(p)
      /\ Len(q) \in Nat /\ DOMAIN q = 1 .. Len(q)
      /\ DOMAIN r = 1 .. Len(p) + Len(q)
  BY LenProperties, ConcatProperties
<1>2. \A i \in 1 .. Len(p) + Len(q) :
         r[i] = IF i <= Len(p) THEN p[i] ELSE q[i - Len(p)]
  BY ConcatProperties
<1> HIDE DEF r
<1>3. ASSUME NEW i \in DOMAIN r
      PROVE  \/ i \in 1 .. Len(p) /\ r[i] = p[i]
             \/ i - Len(p) \in 1 .. Len(q) /\ r[i] = q[i - Len(p)]
  BY <1>1, <1>2
<1>4. IsInjective(r)
  <2> SUFFICES ASSUME NEW m \in DOMAIN r, NEW n \in DOMAIN r, r[m] = r[n]
               PROVE  m = n
    BY DEF IsInjective
  <2>1. CASE m \in 1 .. Len(p) /\ n \in 1 .. Len(p)
    BY <1>1, <1>3, <2>1 DEF IsInjective
  <2>2. CASE m - Len(p) \in 1 .. Len(q) /\ n - Len(p) \in 1 .. Len(q)
    <3>1. q[m - Len(p)] = q[n - Len(p)]
      BY <1>1, <1>2, <2>2
    <3>2. m - Len(p) = n - Len(p)
      BY <1>1, <2>2, <3>1 DEF IsInjective
    <3>3. QED  BY <1>1, <3>2
  <2>3. CASE \/ m \in 1 .. Len(p) /\ n - Len(p) \in 1 .. Len(q)
             \/ n \in 1 .. Len(p) /\ m - Len(p) \in 1 .. Len(q)
    <3>1. \A i \in 1 .. Len(p), j \in 1 .. Len(q) : p[i] # q[j]
      BY <1>1 DEF ToSet
    <3>2. QED  BY <1>1, <1>2, <2>3, <3>1
  <2>4. QED  BY <1>3, <2>1, <2>2, <2>3
<1>5. QED  BY <1>4, ToSetConcat DEF r

(* The first occurrence of an element that occurs once is all of it.       *)
LEMMA RemoveFirstSet ==
  ASSUME NEW S, NEW q \in Seq(S), IsInjective(q), NEW e
  PROVE  /\ RemoveFirst(q, e) \in Seq(S)
         /\ ToSet(RemoveFirst(q, e)) = ToSet(q) \ {e}
         /\ IsInjective(RemoveFirst(q, e))
<1>0. Len(q) \in Nat /\ DOMAIN q = 1 .. Len(q) /\ \A i \in 1 .. Len(q) : q[i] \in S
  BY LenProperties, ElementOfSeq
<1>1. CASE ~ \E i \in 1 .. Len(q) : q[i] = e
  BY <1>0, <1>1 DEF RemoveFirst, ToSet
<1>2. CASE \E i \in 1 .. Len(q) : q[i] = e
  <2>1. PICK k \in 1 .. Len(q) : q[k] = e
    BY <1>2
  <2>2. {i \in 1 .. Len(q) : q[i] = e} = {k}
    BY <1>0, <2>1 DEF IsInjective
  <2>3. RemoveFirst(q, e) = RemoveAt(q, k)
    <3>1. SelectInSeq(q, LAMBDA v : v = e) = Min({k})
      BY <2>2 DEF SelectInSeq
    <3>2. Min({k}) = k
      BY DEF Min
    <3>3. QED  BY <1>2, <3>1, <3>2 DEF RemoveFirst
  <2> DEFINE a == SubSeq(q, 1, k - 1)
             b == SubSeq(q, k + 1, Len(q))
             r == a \o b
  <2>4. /\ a \in Seq(S) /\ Len(a) = k - 1
        /\ \A i \in 1 .. k - 1 : a[i] = q[i]
    <3>1. \A i \in 1 .. k - 1 : q[i] \in S
      BY <1>0
    <3>2. QED  BY <1>0, <3>1, SubSeqProperties
  <2>5. /\ b \in Seq(S) /\ Len(b) = Len(q) - k
        /\ \A i \in 1 .. Len(q) - k : b[i] = q[k + i]
    <3>1. k + 1 \in Int /\ Len(q) \in Int /\ \A i \in k + 1 .. Len(q) : q[i] \in S
      BY <1>0
    <3>2. /\ b \in Seq(S)
          /\ Len(b) = IF k + 1 <= Len(q) THEN Len(q) - (k + 1) + 1 ELSE 0
          /\ \A i \in 1 .. Len(q) - (k + 1) + 1 : b[i] = q[(k + 1) + i - 1]
      BY <3>1, SubSeqProperties
    <3>3. \A i \in 1 .. Len(q) - k : (k + 1) + i - 1 = k + i
      BY <1>0
    <3>4. Len(q) - (k + 1) + 1 = Len(q) - k
      BY <1>0
    <3> HIDE DEF b
    <3>5. Len(b) = Len(q) - k
      <4>1. Len(q) \in Nat /\ k \in 1 .. Len(q)
        BY <1>0
      <4>2. QED  BY ONLY <3>2, <4>1
    <3>6. \A i \in 1 .. Len(q) - k : b[i] = q[k + i]
      BY ONLY <3>2, <3>3, <3>4
    <3>7. QED  BY <3>2, <3>5, <3>6
  <2>6. /\ r \in Seq(S) /\ Len(r) = Len(q) - 1
        /\ \A i \in 1 .. Len(q) - 1 : r[i] = IF i < k THEN q[i] ELSE q[i + 1]
    <3> HIDE DEF a, b
    <3>1. r \in Seq(S) /\ Len(r) = Len(a) + Len(b)
      BY <2>4, <2>5, ConcatProperties
    <3>2. \A i \in 1 .. Len(a) + Len(b) :
             r[i] = IF i <= Len(a) THEN a[i] ELSE b[i - Len(a)]
      BY <2>4, <2>5, ConcatProperties
    <3>3. ASSUME NEW i \in 1 .. Len(q) - 1
          PROVE  r[i] = IF i < k THEN q[i] ELSE q[i + 1]
      <4>1. CASE i < k  BY <1>0, <2>4, <2>5, <3>2, <4>1
      <4>2. CASE ~(i < k)
        <5>1. i - (k - 1) \in 1 .. Len(q) - k /\ k + (i - (k - 1)) = i + 1
          BY <1>0, <4>2
        <5>2. b[i - (k - 1)] = q[i + 1]
          BY <2>5, <5>1
        <5>3. r[i] = b[i - (k - 1)]
          BY <1>0, <2>4, <2>5, <3>2, <4>2
        <5>4. QED  BY <4>2, <5>2, <5>3
      <4>3. QED  BY <4>1, <4>2
    <3>4. QED  BY <1>0, <2>4, <2>5, <3>1, <3>3
  <2>7. RemoveFirst(q, e) = r
    BY <2>3 DEF RemoveAt
  <2> HIDE DEF r
  <2>8. DOMAIN r = 1 .. Len(q) - 1
    BY <2>6, LenProperties
  <2>9. IsInjective(r)
    <3> DEFINE at(i) == IF i < k THEN i ELSE i + 1
    <3>1. \A i \in 1 .. Len(q) - 1 : at(i) \in 1 .. Len(q) /\ r[i] = q[at(i)]
      BY <1>0, <2>6
    <3>2. \A i, j \in 1 .. Len(q) - 1 : at(i) = at(j) => i = j
      BY <1>0
    <3> HIDE DEF at
    <3>3. QED  BY <1>0, <2>8, <3>1, <3>2 DEF IsInjective
  <2>10. ToSet(r) = ToSet(q) \ {e}
    <3>1. ASSUME NEW x \in ToSet(r) PROVE x \in ToSet(q) \ {e}
      <4>1. PICK i \in 1 .. Len(q) - 1 : x = r[i]
        BY <2>8 DEF ToSet
      <4>2. PICK j \in 1 .. Len(q) : x = q[j] /\ j # k
        BY <1>0, <2>6, <4>1
      <4>3. QED  BY <1>0, <2>1, <4>2 DEF ToSet, IsInjective
    <3>2. ASSUME NEW x \in ToSet(q) \ {e} PROVE x \in ToSet(r)
      <4>1. PICK j \in 1 .. Len(q) : x = q[j]
        BY <1>0 DEF ToSet
      <4>2. j # k
        BY <2>1, <4>1
      <4>3. \E i \in 1 .. Len(q) - 1 : r[i] = x
        <5>1. CASE j < k  BY <1>0, <2>6, <4>1, <5>1
        <5>2. CASE j > k
          <6>1. j - 1 \in 1 .. Len(q) - 1 /\ ~(j - 1 < k) /\ (j - 1) + 1 = j
            BY <1>0, <5>2
          <6>2. QED  BY <2>6, <4>1, <6>1
        <5>3. QED  BY <1>0, <4>2, <5>1, <5>2
      <4>4. QED  BY <2>8, <4>3 DEF ToSet
    <3>3. QED  BY <3>1, <3>2
  <2>11. QED  BY <2>6, <2>7, <2>9, <2>10
<1>3. QED  BY <1>1, <1>2

(* The sequence of no element, and of one.                                 *)
LEMMA SetToSeqSmall ==
  /\ SetToSeq({}) = <<>>
  /\ \A x : SetToSeq({x}) = <<x>>
<1>1. SetToSeq({}) = <<>>
  <2>1. Cardinality({}) = 0
    BY FS_EmptySet
  <2>2. SetToSeq({}) \in [1 .. 0 -> {}]
    <3>1. <<>> \in [1 .. 0 -> {}] /\ IsInjective(<<>>)
      BY DEF IsInjective
    <3>2. QED  BY <2>1, <3>1 DEF SetToSeq
  <2>3. QED  BY <2>2
<1>2. ASSUME NEW x PROVE SetToSeq({x}) = <<x>>
  <2>1. Cardinality({x}) = 1
    BY FS_Singleton
  <2>2. <<x>> \in [1 .. 1 -> {x}] /\ IsInjective(<<x>>)
    BY DEF IsInjective
  <2>3. SetToSeq({x}) \in [1 .. 1 -> {x}]
    BY <2>1, <2>2 DEF SetToSeq
  <2>4. QED  BY <2>3
<1>3. QED  BY <1>1, <1>2

(* Where callbacks are in a queue.                                         *)
LEMMA AppendBefore ==
  ASSUME NEW S, NEW q \in Seq(S), NEW e \in S
  PROVE  /\ \A a, b : Before(a, b, q) => Before(a, b, Append(q, e))
         /\ \A a : a \in ToSet(q) => Before(a, e, Append(q, e))
<1>1. /\ DOMAIN Append(q, e) = 1 .. Len(q) + 1
      /\ DOMAIN q = 1 .. Len(q)
      /\ Len(q) \in Nat
      /\ \A i \in 1 .. Len(q) : Append(q, e)[i] = q[i]
      /\ Append(q, e)[Len(q) + 1] = e
  BY AppendProperties, LenProperties
<1>2. ASSUME NEW a, NEW b, Before(a, b, q) PROVE Before(a, b, Append(q, e))
  <2>1. PICK i \in 1 .. Len(q), j \in 1 .. Len(q) : i < j /\ q[i] = a /\ q[j] = b
    BY <1>1, <1>2 DEF Before
  <2>2. QED  BY <1>1, <2>1 DEF Before
<1>3. ASSUME NEW a, a \in ToSet(q) PROVE Before(a, e, Append(q, e))
  <2>1. PICK i \in 1 .. Len(q) : q[i] = a
    BY <1>1, <1>3 DEF ToSet
  <2>2. QED  BY <1>1, <2>1 DEF Before
<1>4. QED  BY <1>2, <1>3

LEMMA TailBefore ==
  ASSUME NEW S, NEW q \in Seq(S), q # <<>>, NEW a, NEW b, Before(a, b, q), a # Head(q)
  PROVE  Before(a, b, Tail(q))
<1>1. /\ Len(q) \in Nat \ {0} /\ DOMAIN q = 1 .. Len(q)
      /\ DOMAIN Tail(q) = 1 .. Len(q) - 1
      /\ \A i \in 1 .. Len(q) - 1 : Tail(q)[i] = q[i + 1]
      /\ Head(q) = q[1]
  <2>1. /\ Len(q) \in Nat \ {0}  /\ DOMAIN q = 1 .. Len(q)
    BY LenProperties, EmptySeq
  <2>2. /\ Tail(q) \in Seq(S)
        /\ Len(Tail(q)) = Len(q) - 1
        /\ \A i \in 1 .. Len(Tail(q)) : Tail(q)[i] = q[i + 1]
    BY HeadTailProperties
  <2>3. DOMAIN Tail(q) = 1 .. Len(Tail(q))
    BY <2>2, LenProperties
  <2>4. Head(q) = q[1]
    BY <2>1
  <2>5. QED  BY <2>1, <2>2, <2>3, <2>4
<1>2. PICK i \in 1 .. Len(q), j \in 1 .. Len(q) : i < j /\ q[i] = a /\ q[j] = b
  BY <1>1 DEF Before
<1>3. i # 1
  BY <1>1, <1>2
<1>4. i - 1 \in 1 .. Len(q) - 1 /\ j - 1 \in 1 .. Len(q) - 1 /\ i - 1 < j - 1
  BY <1>1, <1>2, <1>3
<1>5. Tail(q)[i - 1] = a /\ Tail(q)[j - 1] = b
  BY <1>1, <1>2, <1>4
<1>6. QED  BY <1>1, <1>4, <1>5 DEF Before

LEMMA ConcatBefore ==
  ASSUME NEW S, NEW p \in Seq(S), NEW q \in Seq(S), NEW a, NEW b, Before(a, b, p)
  PROVE  Before(a, b, p \o q)
<1>1. /\ Len(p) \in Nat /\ DOMAIN p = 1 .. Len(p)
      /\ Len(q) \in Nat /\ DOMAIN (p \o q) = 1 .. Len(p) + Len(q)
      /\ \A i \in 1 .. Len(p) : (p \o q)[i] = p[i]
  BY LenProperties, ConcatProperties
<1>2. PICK i \in 1 .. Len(p), j \in 1 .. Len(p) : i < j /\ p[i] = a /\ p[j] = b
  BY <1>1 DEF Before
<1>3. QED  BY <1>1, <1>2 DEF Before

LEMMA NothingBeforeHead ==
  ASSUME NEW S, NEW q \in Seq(S), q # <<>>, IsInjective(q), NEW a
  PROVE  ~Before(a, Head(q), q)
<1>1. /\ Len(q) \in Nat \ {0} /\ DOMAIN q = 1 .. Len(q)
      /\ Head(q) = q[1]
  BY LenProperties, EmptySeq
<1>2. QED  BY <1>1 DEF Before, IsInjective

(* The last element stays the last when another one is removed.            *)
LEMMA RemoveFirstLast ==
  ASSUME NEW S, NEW q \in Seq(S), IsInjective(q), NEW e, q # <<>>, Last(q) # e
  PROVE  Last(RemoveFirst(q, e)) = Last(q)
<1>0. Len(q) \in Nat \ {0} /\ DOMAIN q = 1 .. Len(q) /\ \A i \in 1 .. Len(q) : q[i] \in S
  BY LenProperties, ElementOfSeq, EmptySeq
<1>1. CASE ~ \E i \in 1 .. Len(q) : q[i] = e
  BY <1>0, <1>1 DEF RemoveFirst
<1>2. CASE \E i \in 1 .. Len(q) : q[i] = e
  <2>1. PICK k \in 1 .. Len(q) : q[k] = e
    BY <1>2
  <2>2. {i \in 1 .. Len(q) : q[i] = e} = {k} /\ k < Len(q)
    BY <1>0, <2>1 DEF IsInjective, Last
  <2>3. RemoveFirst(q, e) = RemoveAt(q, k)
    <3>1. SelectInSeq(q, LAMBDA v : v = e) = Min({k})
      BY <2>2 DEF SelectInSeq
    <3>2. Min({k}) = k
      BY DEF Min
    <3>3. QED  BY <1>2, <3>1, <3>2 DEF RemoveFirst
  <2> DEFINE a == SubSeq(q, 1, k - 1)
             b == SubSeq(q, k + 1, Len(q))
  <2>4. a \in Seq(S) /\ Len(a) = k - 1
    <3>1. \A i \in 1 .. k - 1 : q[i] \in S
      BY <1>0
    <3>2. QED  BY <1>0, <3>1, SubSeqProperties
  <2>5. b \in Seq(S) /\ Len(b) = Len(q) - k /\ b[Len(q) - k] = q[Len(q)]
    <3>1. k + 1 \in Int /\ Len(q) \in Int /\ \A i \in k + 1 .. Len(q) : q[i] \in S
      BY <1>0
    <3>2. /\ b \in Seq(S)
          /\ Len(b) = IF k + 1 <= Len(q) THEN Len(q) - (k + 1) + 1 ELSE 0
          /\ \A i \in 1 .. Len(q) - (k + 1) + 1 : b[i] = q[(k + 1) + i - 1]
      BY <3>1, SubSeqProperties
    <3> HIDE DEF b
    <3>3. Len(q) - k \in 1 .. Len(q) - (k + 1) + 1 /\ (k + 1) + (Len(q) - k) - 1 = Len(q)
      BY <1>0, <2>2
    <3>4. b[Len(q) - k] = q[(k + 1) + (Len(q) - k) - 1]
      BY ONLY <3>2, <3>3
    <3>5. Len(b) = Len(q) - k
      <4>1. Len(q) \in Nat /\ k \in 1 .. Len(q)
        BY <1>0
      <4>2. QED  BY ONLY <3>2, <4>1
    <3>6. QED  BY <3>2, <3>3, <3>4, <3>5
  <2> HIDE DEF a, b
  <2>6. /\ Len(a \o b) = Len(q) - 1
        /\ \A i \in 1 .. Len(a) + Len(b) :
             (a \o b)[i] = IF i <= Len(a) THEN a[i] ELSE b[i - Len(a)]
    <3>0. a \in Seq(S) /\ b \in Seq(S)
      BY <2>4, <2>5
    <3>1. Len(a \o b) = Len(a) + Len(b)
      BY <3>0, ConcatProperties
    <3>2. \A i \in 1 .. Len(a) + Len(b) :
             (a \o b)[i] = IF i <= Len(a) THEN a[i] ELSE b[i - Len(a)]
      BY <2>4, <2>5, ConcatProperties
    <3>3. QED  BY <1>0, <2>4, <2>5, <3>1, <3>2
  <2>7. (a \o b)[Len(q) - 1] = q[Len(q)]
    <3>1. /\ Len(q) - 1 \in 1 .. Len(a) + Len(b)
          /\ ~(Len(q) - 1 <= Len(a))
          /\ (Len(q) - 1) - Len(a) = Len(q) - k
      BY <1>0, <2>2, <2>4, <2>5
    <3>2. QED  BY <2>5, <2>6, <3>1
  <2>8. RemoveFirst(q, e) = a \o b
    BY <2>3 DEF RemoveAt, a, b
  <2>9. QED  BY <2>6, <2>7, <2>8 DEF Last
<1>3. QED  BY <1>1, <1>2

-----------------------------------------------------------------------------
(* The invariant.                                                          *)

USE TaskAssumption

LEMMA InitIInv == Init => IInv
<1> SUFFICES ASSUME Init PROVE IInv
  OBVIOUS
<1>1. TypeOK
  BY DEF Init, TypeOK, Callback
<1>2. ToSet(ready) = {} /\ \A i \in Item : ToSet(itemTasks[i]) = {}
  BY DEF Init, ToSet
<1>3. IsInjective(ready) /\ \A i \in Item : IsInjective(itemTasks[i])
  BY DEF Init, IsInjective
<1>4. \A t \in Task : ItemOf[t] \in Item
  BY DEF Task
<1>5. QED
  BY <1>1, <1>2, <1>3, <1>4 DEF Init, IInv, QueueOK, TaskQueueOK, StopQueueOK, StateOK, RunningListed,
     EndedIsReaped, StopOnce, Queued, Listed, Started, Running

(* What the loop leaves in its queue when it takes a callback.             *)
LEMMA TakeHead ==
  ASSUME TypeOK, QueueOK, NEW kind, NEW x, AtHead(kind, x)
  PROVE  /\ <<kind, x>> \in Callback
         /\ Queued(<<kind, x>>)
         /\ Tail(ready) \in Seq(Callback)
         /\ ToSet(Tail(ready)) = ToSet(ready) \ {<<kind, x>>}
         /\ IsInjective(Tail(ready))
<1>1. ready \in Seq(Callback) /\ ready # <<>> /\ Head(ready) = <<kind, x>> /\ IsInjective(ready)
  BY DEF TypeOK, QueueOK, AtHead
<1>2. ToSet(ready) \subseteq Callback
  BY <1>1, LenProperties DEF ToSet
<1>3. QED  BY <1>1, <1>2, TailSet DEF Queued

(* What it leaves there when it adds a callback that was not there.        *)
LEMMA Enqueue ==
  ASSUME NEW q \in Seq(Callback), IsInjective(q), NEW c \in Callback, c \notin ToSet(q)
  PROVE  /\ Append(q, c) \in Seq(Callback)
         /\ ToSet(Append(q, c)) = ToSet(q) \cup {c}
         /\ IsInjective(Append(q, c))
BY AppendSet

-----------------------------------------------------------------------------
(* Requests that arrive.                                                   *)

LEMMA ArriveCreateIInv ==
  ASSUME IInv, NEW t \in Task, ArriveCreate(t)
  PROVE  IInv'
<1>1. /\ <<"create", t>> \in Callback
      /\ ready \in Seq(Callback)
  BY DEF IInv, TypeOK, Callback
<1>2. /\ ready' \in Seq(Callback)
      /\ ToSet(ready') = ToSet(ready) \cup {<<"create", t>>}
      /\ IsInjective(ready')
  BY <1>1, Enqueue DEF IInv, QueueOK, ArriveCreate, Queued
<1>3. TypeOK'
  BY <1>2 DEF IInv, TypeOK, ArriveCreate, taskVars, registry, stopVars
<1>4. QueueOK'
  BY <1>2 DEF IInv, QueueOK, TaskQueueOK, StopQueueOK, Queued, ArriveCreate, taskVars, stopVars
<1>5. StateOK' /\ RunningListed' /\ EndedIsReaped' /\ StopOnce'
  BY <1>2 DEF IInv, StateOK, RunningListed, EndedIsReaped, StopOnce, Queued, Listed, Started,
     Running, ArriveCreate, taskVars, registry, stopVars
<1>6. QED  BY <1>3, <1>4, <1>5 DEF IInv

LEMMA ArriveStopIInv ==
  ASSUME IInv, NEW s \in Stopper, NEW j \in Task \cup Item, ArriveStop(s, j)
  PROVE  IInv'
<1>1. /\ <<"stop", s>> \in Callback
      /\ ready \in Seq(Callback)
      /\ ~Queued(<<"stop", s>>)
      /\ pc[s] = "idle"
  BY DEF IInv, TypeOK, QueueOK, StopQueueOK, Callback, ArriveStop
<1>2. /\ ready' \in Seq(Callback)
      /\ ToSet(ready') = ToSet(ready) \cup {<<"stop", s>>}
      /\ IsInjective(ready')
  BY <1>1, Enqueue DEF IInv, QueueOK, ArriveStop, Queued
<1>3. TypeOK'
  BY <1>2 DEF IInv, TypeOK, ArriveStop, taskVars, registry
<1>4. QueueOK'
  <2>1. TaskQueueOK'
    BY <1>2 DEF IInv, QueueOK, TaskQueueOK, Queued, ArriveStop, taskVars
  <2>2. \A r \in Stopper : pc'[r] = IF r = s THEN "queued" ELSE pc[r]
    BY DEF IInv, TypeOK, ArriveStop
  <2>3. StopQueueOK'
    BY <1>1, <1>2, <2>2 DEF IInv, QueueOK, StopQueueOK, Queued, ArriveStop, taskVars
  <2>4. QED  BY <1>2, <2>1, <2>3 DEF QueueOK
<1>5. StateOK'
  BY <1>2 DEF IInv, TypeOK, StateOK, Listed, Started, ArriveStop, taskVars, registry
<1>6. RunningListed'
  BY <1>2 DEF IInv, TypeOK, RunningListed, Listed, Running, ArriveStop, taskVars, registry
<1>7. EndedIsReaped'
  BY <1>2 DEF IInv, TypeOK, EndedIsReaped, Queued, Listed, ArriveStop, taskVars, registry
<1>8. StopOnce'
  BY <1>2 DEF IInv, TypeOK, StopOnce, StateOK, Queued, Running, ArriveStop, taskVars, registry
<1>9. QED  BY <1>3, <1>4, <1>5, <1>6, <1>7, <1>8 DEF IInv

LEMMA ArriveIOIInv ==
  ASSUME IInv, NEW t \in Task, ArriveIO(t)
  PROVE  IInv'
<1>1. /\ <<"step", t>> \in Callback
      /\ ready \in Seq(Callback)
      /\ ~Queued(<<"step", t>>)
      /\ st[t] = "waiting"
      /\ \A u \in Task : st'[u] = IF u = t THEN "ready" ELSE st[u]
  BY DEF IInv, TypeOK, QueueOK, TaskQueueOK, Callback, ArriveIO
<1>2. /\ ready' \in Seq(Callback)
      /\ ToSet(ready') = ToSet(ready) \cup {<<"step", t>>}
      /\ IsInjective(ready')
  <2>1. ready' = Append(ready, <<"step", t>>) /\ IsInjective(ready)
    BY DEF IInv, QueueOK, ArriveIO
  <2>2. QED  BY <1>1, <2>1, Enqueue DEF Queued
<1>3. TypeOK'
  BY <1>2 DEF IInv, TypeOK, ArriveIO, registry, stopVars
<1>4. QueueOK'
  <2>1. TaskQueueOK'
    BY <1>1, <1>2 DEF IInv, QueueOK, TaskQueueOK, Queued
  <2>2. StopQueueOK'
    BY <1>1, <1>2 DEF IInv, QueueOK, StateOK, StopQueueOK, Queued, ArriveIO, stopVars
  <2>3. QED  BY <1>2, <2>1, <2>2 DEF QueueOK
<1>5. StateOK'
  BY <1>2 DEF IInv, TypeOK, StateOK, Listed, Started, ArriveIO, registry, stopVars
<1>6. RunningListed'
  BY <1>2 DEF IInv, TypeOK, RunningListed, Listed, Running, ArriveIO, registry, stopVars
<1>7. EndedIsReaped'
  BY <1>2 DEF IInv, TypeOK, EndedIsReaped, Queued, Listed, ArriveIO, registry, stopVars
<1>8. StopOnce'
  BY <1>2 DEF IInv, TypeOK, StopOnce, StateOK, Queued, Running, ArriveIO, registry, stopVars
<1>9. QED  BY <1>3, <1>4, <1>5, <1>6, <1>7, <1>8 DEF IInv

-----------------------------------------------------------------------------
(* The life of a task.                                                     *)

(* A new task enters the registry, and its first step the queue q.         *)
LEMMA RegisterIInv ==
  ASSUME IInv, NEW t \in Task, st[t] = "none",
         NEW q \in Seq(Callback), IsInjective(q), ToSet(q) = ToSet(ready) \ {<<"create", t>>},
         st' = [st EXCEPT ![t] = "ready"], tasks' = tasks \cup {t},
         itemTasks' = [itemTasks EXCEPT ![ItemOf[t]] = Append(@, t)],
         ready' = Append(q, <<"step", t>>),
         UNCHANGED <<cancel, phase, outcome, stopVars>>
  PROVE  /\ IInv'
         /\ ToSet(ready') = (ToSet(ready) \ {<<"create", t>>}) \cup {<<"step", t>>}
         /\ itemTasks[ItemOf[t]] \in Seq(Task)
<1> DEFINE i == ItemOf[t]
<1>1. /\ i \in Item
      /\ itemTasks[i] \in Seq(Task)
      /\ t \notin ToSet(itemTasks[i])
      /\ IsInjective(itemTasks[i])
      /\ <<"step", t>> \in Callback
  <2>1. i \in Item
    BY DEF Task
  <2>2. itemTasks[i] \in Seq(Task) /\ IsInjective(itemTasks[i])
    BY <2>1 DEF IInv, TypeOK, RunningListed
  <2>3. t \notin ToSet(itemTasks[i])
    BY DEF IInv, StateOK, Listed, Started
  <2>4. QED  BY <2>1, <2>2, <2>3 DEF Callback
<1>2. /\ ready' \in Seq(Callback)
      /\ ToSet(ready') = (ToSet(ready) \ {<<"create", t>>}) \cup {<<"step", t>>}
      /\ IsInjective(ready')
  <2>1. <<"step", t>> \notin ToSet(q)
    BY DEF IInv, QueueOK, TaskQueueOK, Queued
  <2>2. QED  BY <1>1, <2>1, Enqueue
<1>3. /\ itemTasks' = [itemTasks EXCEPT ![i] = Append(itemTasks[i], t)]
      /\ Append(itemTasks[i], t) \in Seq(Task)
      /\ ToSet(Append(itemTasks[i], t)) = ToSet(itemTasks[i]) \cup {t}
      /\ IsInjective(Append(itemTasks[i], t))
  BY <1>1, AppendSet
<1>4. /\ ToSet(itemTasks'[i]) = ToSet(itemTasks[i]) \cup {t}
      /\ IsInjective(itemTasks'[i])
      /\ \A j \in Item : j # i => itemTasks'[j] = itemTasks[j]
  BY <1>1, <1>3 DEF IInv, TypeOK
<1>5. TypeOK'
  BY <1>1, <1>2, <1>3 DEF IInv, TypeOK, stopVars
<1>6. QueueOK'
  <2>1. \A u \in Task : st'[u] = IF u = t THEN "ready" ELSE st[u]
    BY DEF IInv, TypeOK
  <2>2. TaskQueueOK'
    BY <1>1, <1>2, <2>1 DEF IInv, QueueOK, TaskQueueOK, Queued
  <2>3. StopQueueOK'
    BY <1>1, <1>2, <2>1 DEF IInv, QueueOK, StateOK, StopQueueOK, Queued, stopVars
  <2>4. QED  BY <1>2, <2>2, <2>3 DEF QueueOK
<1>7. StateOK'
  BY <1>1, <1>4 DEF IInv, TypeOK, StateOK, Listed, Started, stopVars
<1>8. RunningListed'
  BY <1>1, <1>4 DEF IInv, TypeOK, RunningListed, Listed, Running
<1>9. EndedIsReaped'
  BY <1>1, <1>2, <1>4 DEF IInv, TypeOK, EndedIsReaped, Queued, Listed
<1>10. StopOnce'
  BY <1>1, <1>2 DEF IInv, TypeOK, StopOnce, StateOK, Queued, Running, stopVars
<1>11. QED  BY <1>1, <1>2, <1>5, <1>6, <1>7, <1>8, <1>9, <1>10 DEF IInv

LEMMA CreateTaskIInv ==
  ASSUME IInv, NEW t \in Task, CreateTask(t)
  PROVE  IInv'
<1>1. st[t] = "none"
  <2>1. Queued(<<"create", t>>)
    BY TakeHead DEF IInv, CreateTask
  <2>2. QED  BY <2>1 DEF IInv, QueueOK, TaskQueueOK
<1>2. /\ Tail(ready) \in Seq(Callback)
      /\ ToSet(Tail(ready)) = ToSet(ready) \ {<<"create", t>>}
      /\ IsInjective(Tail(ready))
      /\ ready' = Append(Tail(ready), <<"step", t>>)
  BY TakeHead DEF IInv, CreateTask
<1>3. QED  BY <1>1, <1>2, RegisterIInv DEF CreateTask

LEMMA ReapIInv ==
  ASSUME IInv, NEW t \in Task, Reap(t)
  PROVE  IInv'
<1>1. /\ st[t] = "done"
      /\ <<"cleanup", t>> \in Callback
      /\ <<"cleanup", t>> \notin ToSet(ready)
  BY TakeHead DEF IInv, QueueOK, TaskQueueOK, Queued, Callback, Reap
<1>2. /\ ready' \in Seq(Callback)
      /\ ToSet(ready') = (ToSet(ready) \ {<<"reap", t>>}) \cup {<<"cleanup", t>>}
      /\ IsInjective(ready')
  <2>1. /\ Tail(ready) \in Seq(Callback)
        /\ ToSet(Tail(ready)) = ToSet(ready) \ {<<"reap", t>>}
        /\ IsInjective(Tail(ready))
        /\ ready' = Append(Tail(ready), <<"cleanup", t>>)
    BY TakeHead DEF IInv, Reap
  <2>2. QED  BY <1>1, <2>1, Enqueue
<1>3. TypeOK'
  BY <1>2 DEF IInv, TypeOK, Reap, taskVars, registry, stopVars
<1>4. QueueOK'
  BY <1>1, <1>2 DEF IInv, QueueOK, TaskQueueOK, StopQueueOK, Queued, Reap, taskVars, stopVars
<1>5. StateOK'
  BY DEF IInv, StateOK, Listed, Started, Reap, taskVars, registry, stopVars
<1>6. RunningListed'
  BY DEF IInv, RunningListed, Listed, Running, Reap, taskVars, registry
<1>7. EndedIsReaped'
  BY <1>2 DEF IInv, EndedIsReaped, Queued, Listed, Reap, taskVars, registry
<1>8. StopOnce'
  BY <1>2 DEF IInv, StopOnce, Queued, Running, Reap, taskVars, stopVars
<1>9. QED  BY <1>3, <1>4, <1>5, <1>6, <1>7, <1>8 DEF IInv

LEMMA CleanupTaskIInv ==
  ASSUME IInv, NEW t \in Task, CleanupTask(t)
  PROVE  IInv'
<1> DEFINE i == ItemOf[t]
           rest == RemoveFirst(itemTasks[i], t)
<1>1. /\ i \in Item
      /\ st[t] = "done"
      /\ <<"reap", t>> \notin ToSet(ready)
  BY TakeHead DEF IInv, QueueOK, TaskQueueOK, Queued, CleanupTask
<1>2. /\ ready' \in Seq(Callback)
      /\ ToSet(ready') = ToSet(ready) \ {<<"cleanup", t>>}
      /\ IsInjective(ready')
  BY TakeHead DEF IInv, CleanupTask
<1>3. /\ rest \in Seq(Task)
      /\ ToSet(rest) = ToSet(itemTasks[i]) \ {t}
      /\ IsInjective(rest)
  BY <1>1, RemoveFirstSet DEF IInv, TypeOK, RunningListed
<1>4. /\ itemTasks' = [itemTasks EXCEPT ![i] = rest]
      /\ itemTasks'[i] = rest
      /\ \A j \in Item : j # i => itemTasks'[j] = itemTasks[j]
  BY <1>1 DEF IInv, TypeOK, CleanupTask
<1> HIDE DEF rest
<1>5. TypeOK'
  BY <1>1, <1>2, <1>3, <1>4 DEF IInv, TypeOK, CleanupTask, taskVars
<1>6. QueueOK'
  BY <1>2 DEF IInv, QueueOK, TaskQueueOK, StopQueueOK, Queued, CleanupTask, taskVars
<1>7. StateOK'
  BY <1>1, <1>3, <1>4 DEF IInv, StateOK, Listed, Started, CleanupTask, taskVars
<1>8. RunningListed'
  BY <1>1, <1>3, <1>4 DEF IInv, RunningListed, Listed, Running, CleanupTask, taskVars
<1>9. EndedIsReaped'
  BY <1>1, <1>2, <1>3, <1>4 DEF IInv, EndedIsReaped, Queued, Listed, CleanupTask, taskVars
<1>10. StopOnce'
  BY <1>2 DEF IInv, StopOnce, Queued, Running, CleanupTask, taskVars
<1>11. QED  BY <1>5, <1>6, <1>7, <1>8, <1>9, <1>10 DEF IInv

(* A task that ends wakes at most the one stopper that awaits it.          *)
LEMMA WaitersSeq ==
  ASSUME IInv, NEW t \in Task
  PROVE  /\ Waiters(t) \in Seq(Callback)
         /\ ToSet(Waiters(t)) = {<<"wake", s>> : s \in {r \in Stopper : pc[r] = "await" /\ cur[r] = t}}
         /\ IsInjective(Waiters(t))
<1> DEFINE W == {r \in Stopper : pc[r] = "await" /\ cur[r] = t}
<1>1. CASE W = {}
  <2>1. {<<"wake", s>> : s \in W} = {}
    BY <1>1
  <2>2. Waiters(t) = <<>>
    BY <2>1, SetToSeqSmall DEF Waiters
  <2>3. QED  BY <2>1, <2>2 DEF ToSet, IsInjective
<1>2. CASE W # {}
  <2>1. PICK s \in Stopper : W = {s}
    BY <1>2 DEF IInv, StopOnce
  <2>2. {<<"wake", r>> : r \in W} = {<<"wake", s>>}
    BY <2>1
  <2>3. Waiters(t) = <<<<"wake", s>>>>
    BY <2>2, SetToSeqSmall DEF Waiters
  <2>4. <<"wake", s>> \in Callback
    BY DEF Callback
  <2>5. QED  BY <2>2, <2>3, <2>4 DEF ToSet, IsInjective
<1>3. QED  BY <1>1, <1>2

LEMMA FinishIInv ==
  ASSUME IInv, NEW t \in Task, AtHead("step", t),
         NEW how \in {"ok", "cancelled", "error"}, Finish(t, how),
         cancel' \in [Task -> BOOLEAN],
         phase' \in [Task -> {"new", "body", "handling"}],
         UNCHANGED <<registry, stopVars>>
  PROVE  IInv'
<1> DEFINE W == {r \in Stopper : pc[r] = "await" /\ cur[r] = t}
<1>1. /\ st[t] = "ready"
      /\ ~Queued(<<"reap", t>>) /\ ~Queued(<<"cleanup", t>>)
      /\ \A s \in W : ~Queued(<<"wake", s>>)
      /\ \A u \in Task : st'[u] = IF u = t THEN "done" ELSE st[u]
  <2>1. Queued(<<"step", t>>)
    BY TakeHead DEF IInv
  <2>2. st[t] = "ready"
    BY <2>1 DEF IInv, QueueOK, TaskQueueOK
  <2>3. ~Queued(<<"reap", t>>) /\ ~Queued(<<"cleanup", t>>)
    BY <2>2 DEF IInv, QueueOK, TaskQueueOK
  <2>4. \A s \in W : ~Queued(<<"wake", s>>)
    BY <2>2 DEF IInv, QueueOK, StopQueueOK
  <2>5. \A u \in Task : st'[u] = IF u = t THEN "done" ELSE st[u]
    BY DEF IInv, TypeOK, Finish
  <2>6. QED  BY <2>2, <2>3, <2>4, <2>5
<1>2. /\ Waiters(t) \in Seq(Callback)
      /\ ToSet(Waiters(t)) = {<<"wake", s>> : s \in W}
      /\ IsInjective(Waiters(t))
  BY WaitersSeq
<1>3. /\ ready' \in Seq(Callback)
      /\ ToSet(ready') = (ToSet(ready) \ {<<"step", t>>})
                           \cup {<<"reap", t>>} \cup {<<"wake", s>> : s \in W}
      /\ IsInjective(ready')
  <2> DEFINE a == Append(Tail(ready), <<"reap", t>>)
  <2>1. /\ a \in Seq(Callback)
        /\ ToSet(a) = (ToSet(ready) \ {<<"step", t>>}) \cup {<<"reap", t>>}
        /\ IsInjective(a)
    <3>1. <<"reap", t>> \in Callback
      BY DEF Callback
    <3>2. /\ Tail(ready) \in Seq(Callback)
          /\ ToSet(Tail(ready)) = ToSet(ready) \ {<<"step", t>>}
          /\ IsInjective(Tail(ready))
      BY TakeHead DEF IInv
    <3>3. <<"reap", t>> \notin ToSet(Tail(ready))
      BY <1>1, <3>2 DEF Queued
    <3>4. QED  BY <3>1, <3>2, <3>3, Enqueue
  <2>2. Tail(ready) \o <<<<"reap", t>>>> = a
    BY TakeHead, AppendIsConcat DEF IInv, Callback
  <2>3. ToSet(a) \cap ToSet(Waiters(t)) = {}
    <3>1. \A s \in W : <<"wake", s>> \notin ToSet(ready) /\ <<"wake", s>> # <<"reap", t>>
      BY <1>1 DEF Queued
    <3>2. \A s \in W : <<"wake", s>> \notin ToSet(a)
      BY <2>1, <3>1
    <3> HIDE DEF a, W
    <3>3. QED  BY <1>2, <3>2
  <2> HIDE DEF a
  <2>4. ready' = a \o Waiters(t)
    BY <2>2 DEF Finish
  <2>5. QED  BY <1>2, <2>1, <2>3, <2>4, ConcatSet
<1>4. TypeOK'
  BY <1>3 DEF IInv, TypeOK, Finish, registry, stopVars
<1>5. QueueOK'
  <2>1. TaskQueueOK'
    BY <1>1, <1>3 DEF IInv, QueueOK, TaskQueueOK, Queued
  <2>2. ASSUME NEW s \in Stopper PROVE Queued(<<"stop", s>>)' => pc'[s] = "queued"
    BY <1>3 DEF IInv, QueueOK, StopQueueOK, Queued, stopVars
  <2>3. ASSUME NEW s \in Stopper, Queued(<<"wake", s>>)'
        PROVE  pc'[s] = "await" /\ st'[cur'[s]] = "done"
    <3>1. Queued(<<"wake", s>>) \/ s \in W
      BY <1>3, <2>3 DEF Queued
    <3>2. pc[s] = "await" /\ cur[s] \in Task /\ (st[cur[s]] = "done" \/ cur[s] = t)
      BY <3>1 DEF IInv, QueueOK, StateOK, StopQueueOK
    <3>3. QED  BY <1>1, <3>2 DEF stopVars
  <2>4. QED  BY <1>3, <2>1, <2>2, <2>3 DEF QueueOK, StopQueueOK
<1>6. StateOK'
  BY <1>1 DEF IInv, TypeOK, StateOK, Listed, Started, Finish, registry, stopVars
<1>7. RunningListed'
  BY <1>1 DEF IInv, TypeOK, RunningListed, Listed, Running, Finish, registry
<1>8. EndedIsReaped'
  BY <1>1, <1>3 DEF IInv, TypeOK, EndedIsReaped, Queued, Listed, Finish, registry
<1>9. StopOnce'
  <2>1. ASSUME NEW s \in Stopper, pc'[s] = "await"
        PROVE  Running(cur[s])' \/ Queued(<<"wake", s>>)'
    <3>1. pc[s] = "await" /\ cur[s] \in Task /\ cur'[s] = cur[s]
      BY <2>1 DEF IInv, StateOK, stopVars
    <3>2. CASE cur[s] = t
      BY <1>3, <3>1, <3>2 DEF Queued
    <3>3. CASE cur[s] # t
      BY <1>1, <1>3, <3>1, <3>3 DEF IInv, StopOnce, Queued, Running
    <3>4. QED  BY <3>2, <3>3
  <2>2. QED  BY <2>1 DEF IInv, StopOnce, stopVars
<1>10. QED  BY <1>4, <1>5, <1>6, <1>7, <1>8, <1>9 DEF IInv

LEMMA SuspendIInv ==
  ASSUME IInv, NEW t \in Task, AtHead("step", t), Suspend(t),
         cancel' \in [Task -> BOOLEAN],
         phase' \in [Task -> {"new", "body", "handling"}],
         UNCHANGED <<registry, stopVars>>
  PROVE  IInv'
<1>1. /\ st[t] = "ready"
      /\ \A u \in Task : st'[u] = IF u = t THEN "waiting" ELSE st[u]
  <2>1. Queued(<<"step", t>>)
    BY TakeHead DEF IInv
  <2>2. QED  BY <2>1 DEF IInv, TypeOK, QueueOK, TaskQueueOK, Suspend
<1>2. /\ ready' \in Seq(Callback)
      /\ ToSet(ready') = ToSet(ready) \ {<<"step", t>>}
      /\ IsInjective(ready')
  BY TakeHead DEF IInv, Suspend
<1>3. TypeOK'
  BY <1>2 DEF IInv, TypeOK, Suspend, registry, stopVars
<1>4. QueueOK'
  <2>1. TaskQueueOK'
    BY <1>1, <1>2 DEF IInv, QueueOK, TaskQueueOK, Queued
  <2>2. StopQueueOK'
    BY <1>1, <1>2 DEF IInv, QueueOK, StateOK, StopQueueOK, Queued, stopVars
  <2>3. QED  BY <1>2, <2>1, <2>2 DEF QueueOK
<1>5. StateOK'
  BY <1>1 DEF IInv, TypeOK, StateOK, Listed, Started, Suspend, registry, stopVars
<1>6. RunningListed'
  BY <1>1 DEF IInv, TypeOK, RunningListed, Listed, Running, Suspend, registry
<1>7. EndedIsReaped'
  BY <1>1, <1>2 DEF IInv, TypeOK, EndedIsReaped, Queued, Listed, Suspend, registry
<1>8. StopOnce'
  BY <1>1, <1>2 DEF IInv, TypeOK, StopOnce, StateOK, Queued, Running, Suspend, stopVars
<1>9. QED  BY <1>3, <1>4, <1>5, <1>6, <1>7, <1>8 DEF IInv

LEMMA StepIInv ==
  ASSUME IInv, NEW t \in Task, StepCancelled(t) \/ StepNormally(t)
  PROVE  IInv'
<1>1. /\ AtHead("step", t)
      /\ cancel' \in [Task -> BOOLEAN]
      /\ phase' \in [Task -> {"new", "body", "handling"}]
      /\ UNCHANGED <<registry, stopVars>>
  BY DEF IInv, TypeOK, StepCancelled, StepNormally
<1>2. Suspend(t) \/ \E how \in {"ok", "cancelled", "error"} : Finish(t, how)
  BY DEF StepCancelled, StepNormally
<1>3. QED  BY <1>1, <1>2, SuspendIInv, FinishIInv

-----------------------------------------------------------------------------
(* stop_task and stop_item_tasks.                                          *)

LEMMA BeginStopIInv ==
  ASSUME IInv, NEW s \in Stopper, BeginStop(s)
  PROVE  IInv'
<1>1. pc[s] = "queued" /\ job[s] \in Task \cup Item
  <2>1. Queued(<<"stop", s>>)
    BY TakeHead DEF IInv, BeginStop
  <2>2. pc[s] = "queued"
    BY <2>1 DEF IInv, QueueOK, StopQueueOK
  <2>3. QED  BY <2>2 DEF IInv, TypeOK, StateOK
<1>2. /\ ready' \in Seq(Callback)
      /\ ToSet(ready') = ToSet(ready) \ {<<"stop", s>>}
      /\ IsInjective(ready')
  BY TakeHead DEF IInv, BeginStop
<1>3. /\ pc' \in [Stopper -> {"idle", "queued", "loop", "await", "returned"}]
      /\ \A r \in Stopper : r # s => pc'[r] = pc[r]
      /\ pc'[s] \in {"loop", "returned"}
      /\ result' \in [Stopper -> {"none", "stopped", "failed", "raised", "notfound",
                                  "nothing", "all"}]
  BY DEF IInv, TypeOK, BeginStop, Return
<1>4. asked' \in [Stopper -> SUBSET Task]
  <2>1. job[s] \in Item => ToSet(itemTasks[job[s]]) \subseteq Task
    BY LenProperties DEF IInv, TypeOK, ToSet
  <2>2. QED  BY <1>1, <2>1 DEF IInv, TypeOK, BeginStop
<1>5. live' \in [Stopper -> BOOLEAN]
  BY DEF IInv, TypeOK, BeginStop
<1>6. TypeOK'
  BY <1>2, <1>3, <1>4, <1>5 DEF IInv, TypeOK, BeginStop, taskVars, registry
<1>7. QueueOK'
  BY <1>1, <1>2, <1>3 DEF IInv, QueueOK, TaskQueueOK, StopQueueOK, Queued, BeginStop, taskVars
<1>8. StateOK'
  BY <1>1, <1>3 DEF IInv, StateOK, Listed, Started, BeginStop, taskVars, registry
<1>9. RunningListed'
  BY DEF IInv, RunningListed, Listed, Running, BeginStop, taskVars, registry
<1>10. EndedIsReaped'
  BY <1>2 DEF IInv, EndedIsReaped, Queued, Listed, BeginStop, taskVars, registry
<1>11. StopOnce'
  BY <1>2, <1>3 DEF IInv, StopOnce, Queued, Running, BeginStop, taskVars
<1>12. QED  BY <1>6, <1>7, <1>8, <1>9, <1>10, <1>11 DEF IInv

(* A report changes the program counter of its stopper and its result.     *)
LEMMA ReportType ==
  ASSUME IInv, NEW s \in Stopper, NEW t \in Task, st[t] = "done", Report(s, Verdict(t))
  PROVE  /\ pc' \in [Stopper -> {"idle", "queued", "loop", "await", "returned"}]
         /\ \A r \in Stopper : r # s => pc'[r] = pc[r]
         /\ pc'[s] \in {"loop", "returned"}
         /\ result' \in [Stopper -> {"none", "stopped", "failed", "raised", "notfound",
                                     "nothing", "all"}]
<1>1. outcome[t] \in {"ok", "cancelled", "error"}
  BY DEF IInv, TypeOK, StateOK
<1>2. Verdict(t) \in {"stopped", "failed", "raised"}
  BY <1>1 DEF Verdict
<1>3. /\ pc \in [Stopper -> {"idle", "queued", "loop", "await", "returned"}]
      /\ result \in [Stopper -> {"none", "stopped", "failed", "raised", "notfound",
                                 "nothing", "all"}]
  BY DEF IInv, TypeOK
<1>4. CASE pc' = [pc EXCEPT ![s] = "loop"] /\ UNCHANGED result
  BY <1>3, <1>4
<1>5. CASE Return(s, Verdict(t))
  BY <1>2, <1>3, <1>5 DEF Return
<1>6. QED  BY <1>4, <1>5 DEF Report

LEMMA WakeStopIInv ==
  ASSUME IInv, NEW s \in Stopper, WakeStop(s)
  PROVE  IInv'
<1>1. pc[s] = "await" /\ st[cur[s]] = "done" /\ cur[s] \in Task
  BY TakeHead DEF IInv, QueueOK, StateOK, StopQueueOK, Queued, WakeStop
<1>2. /\ ready' \in Seq(Callback)
      /\ ToSet(ready') = ToSet(ready) \ {<<"wake", s>>}
      /\ IsInjective(ready')
  BY TakeHead DEF IInv, WakeStop
<1>3. /\ pc' \in [Stopper -> {"idle", "queued", "loop", "await", "returned"}]
      /\ \A r \in Stopper : r # s => pc'[r] = pc[r]
      /\ pc'[s] \in {"loop", "returned"}
      /\ result' \in [Stopper -> {"none", "stopped", "failed", "raised", "notfound",
                                  "nothing", "all"}]
  BY <1>1, ReportType DEF WakeStop
<1>4. TypeOK'
  BY <1>2, <1>3 DEF IInv, TypeOK, WakeStop, taskVars, registry
<1>5. QueueOK'
  BY <1>1, <1>2, <1>3 DEF IInv, QueueOK, TaskQueueOK, StopQueueOK, Queued, WakeStop, taskVars
<1>6. StateOK'
  BY <1>1, <1>3 DEF IInv, StateOK, Listed, Started, WakeStop, taskVars, registry
<1>7. RunningListed'
  BY DEF IInv, RunningListed, Listed, Running, WakeStop, taskVars, registry
<1>8. EndedIsReaped'
  BY <1>2 DEF IInv, EndedIsReaped, Queued, Listed, WakeStop, taskVars, registry
<1>9. StopOnce'
  BY <1>2, <1>3 DEF IInv, StopOnce, Queued, Running, WakeStop, taskVars
<1>10. QED  BY <1>4, <1>5, <1>6, <1>7, <1>8, <1>9 DEF IInv

LEMMA StopTaskIInv ==
  ASSUME IInv, NEW s \in Stopper, NEW t \in Task, pc[s] = "loop", StopTask(s, t),
         idx' \in [Stopper -> Nat]
  PROVE  IInv'
<1> DEFINE Program == {"idle", "queued", "loop", "await", "returned"}
           Result == {"none", "stopped", "failed", "raised", "notfound", "nothing", "all"}
<1>1. /\ cur' \in [Stopper -> Task \cup {NoTask}]
      /\ cur'[s] = t
      /\ \A r \in Stopper : r # s => cur'[r] = cur[r]
      /\ tasks' = tasks \ {t}
      /\ UNCHANGED <<phase, outcome, itemTasks, job, live, asked>>
  BY DEF IInv, TypeOK, StopTask
<1>2. ~Queued(<<"stop", s>>) /\ ~Queued(<<"wake", s>>)
  BY DEF IInv, QueueOK, StopQueueOK
<1>3. job[s] # NoTask
  BY DEF IInv, StateOK
<1>4. CASE /\ UNCHANGED <<st, cancel, ready>>
           /\ pc' \in [Stopper -> Program]
           /\ \A r \in Stopper : r # s => pc'[r] = pc[r]
           /\ pc'[s] \in {"loop", "returned"}
           /\ result' \in [Stopper -> Result]
  <2>1. TypeOK'
    BY <1>1, <1>4 DEF IInv, TypeOK
  <2>2. QueueOK'
    BY <1>1, <1>2, <1>4 DEF IInv, QueueOK, TaskQueueOK, StopQueueOK, Queued
  <2>3. StateOK'
    BY <1>1, <1>3, <1>4 DEF IInv, StateOK, Listed, Started
  <2>4. RunningListed'
    BY <1>1, <1>4 DEF IInv, RunningListed, Listed, Running
  <2>5. EndedIsReaped'
    BY <1>1, <1>4 DEF IInv, EndedIsReaped, Queued, Listed
  <2>6. StopOnce'
    BY <1>1, <1>4 DEF IInv, StopOnce, Queued, Running
  <2>7. QED  BY <2>1, <2>2, <2>3, <2>4, <2>5, <2>6 DEF IInv
<1>5. CASE /\ t \in tasks /\ st[t] # "done"
           /\ RequestCancel(t)
           /\ pc' = [pc EXCEPT ![s] = "await"]
           /\ UNCHANGED result
  <2>1. /\ pc' \in [Stopper -> Program]
        /\ pc'[s] = "await"
        /\ \A r \in Stopper : r # s => pc'[r] = pc[r]
    BY <1>5 DEF IInv, TypeOK
  <2>2. st[t] \in {"ready", "waiting"}
    BY <1>5 DEF IInv, TypeOK, StateOK, Started
  <2>3. /\ st' \in [Task -> {"none", "ready", "waiting", "done"}]
        /\ st'[t] = "ready"
        /\ \A u \in Task : u # t => st'[u] = st[u]
    BY <1>5, <2>2 DEF IInv, TypeOK, RequestCancel
  <2>4. /\ ready' \in Seq(Callback)
        /\ ToSet(ready) \subseteq ToSet(ready')
        /\ ToSet(ready') \subseteq ToSet(ready) \cup {<<"step", t>>}
        /\ IsInjective(ready')
    <3>1. CASE st[t] = "waiting"
      <4>1. <<"step", t>> \in Callback /\ <<"step", t>> \notin ToSet(ready)
        BY <3>1 DEF IInv, QueueOK, TaskQueueOK, Queued, Callback
      <4>2. ready' = Append(ready, <<"step", t>>)
        BY <1>5, <3>1 DEF RequestCancel
      <4>3. ready \in Seq(Callback) /\ IsInjective(ready)
        BY DEF IInv, TypeOK, QueueOK
      <4>4. /\ Append(ready, <<"step", t>>) \in Seq(Callback)
            /\ ToSet(Append(ready, <<"step", t>>)) = ToSet(ready) \cup {<<"step", t>>}
            /\ IsInjective(Append(ready, <<"step", t>>))
        BY <4>1, <4>3, Enqueue
      <4>5. QED  BY <4>2, <4>4
    <3>2. CASE st[t] # "waiting"
      BY <1>5, <3>2 DEF IInv, TypeOK, QueueOK, RequestCancel
    <3>3. QED  BY <3>1, <3>2
  <2>5. \A r \in Stopper : pc[r] = "await" => cur[r] \in Task /\ cur[r] # t
    BY <1>5 DEF IInv, StateOK
  <2>6. TypeOK'
    BY <1>1, <1>5, <2>1, <2>3, <2>4 DEF IInv, TypeOK, RequestCancel
  <2>7. QueueOK'
    <3>1. TaskQueueOK'
      BY <2>2, <2>3, <2>4 DEF IInv, QueueOK, TaskQueueOK, Queued
    <3>2. \A r \in Stopper : Queued(<<"stop", r>>)' => pc'[r] = "queued"
      BY <1>2, <2>1, <2>4 DEF IInv, QueueOK, StopQueueOK, Queued
    <3>3. \A r \in Stopper : Queued(<<"wake", r>>)' => pc'[r] = "await" /\ st'[cur'[r]] = "done"
      <4>1. ASSUME NEW r \in Stopper, Queued(<<"wake", r>>)' PROVE Queued(<<"wake", r>>)
        BY <2>4, <4>1 DEF Queued
      <4>2. ASSUME NEW r \in Stopper, Queued(<<"wake", r>>)
            PROVE  pc'[r] = "await" /\ st'[cur'[r]] = "done"
        <5>1. r # s /\ pc[r] = "await" /\ st[cur[r]] = "done"
          BY <1>2, <4>2 DEF IInv, QueueOK, StopQueueOK
        <5>2. QED  BY <1>1, <2>1, <2>3, <2>5, <5>1
      <4>3. QED  BY <4>1, <4>2
    <3>4. QED  BY <2>4, <3>1, <3>2, <3>3 DEF QueueOK, StopQueueOK
  <2>8. StateOK'
    BY <1>1, <1>3, <2>1, <2>2, <2>3 DEF IInv, StateOK, Listed, Started
  <2>9. RunningListed'
    BY <1>1, <2>2, <2>3 DEF IInv, RunningListed, Listed, Running
  <2>10. EndedIsReaped'
    BY <1>1, <2>3, <2>4 DEF IInv, EndedIsReaped, Queued, Listed
  <2>11. StopOnce'
    <3>1. \A q, r \in Stopper :
            pc'[q] = "await" /\ pc'[r] = "await" /\ cur'[q] = cur'[r] => q = r
      BY <1>1, <2>1, <2>5 DEF IInv, StopOnce
    <3>2. \A r \in Stopper : pc'[r] = "await" => Running(cur[r])' \/ Queued(<<"wake", r>>)'
      <4>1. Running(cur[s])'
        BY <1>1, <2>3 DEF Running
      <4>2. ASSUME NEW r \in Stopper, r # s, pc'[r] = "await"
            PROVE  Running(cur[r])' \/ Queued(<<"wake", r>>)'
        BY <1>1, <2>1, <2>3, <2>4, <2>5, <4>2 DEF IInv, StopOnce, Queued, Running
      <4>3. QED  BY <4>1, <4>2
    <3>3. QED  BY <3>1, <3>2 DEF StopOnce
  <2>12. QED  BY <2>6, <2>7, <2>8, <2>9, <2>10, <2>11 DEF IInv
<1>6. CASE t \notin tasks
  BY <1>4, <1>6 DEF IInv, TypeOK, StopTask, Return
<1>7. CASE t \in tasks /\ st[t] = "done"
  BY <1>4, <1>7, ReportType DEF StopTask
<1>8. CASE t \in tasks /\ st[t] # "done"
  BY <1>5, <1>8 DEF StopTask
<1>9. QED  BY <1>6, <1>7, <1>8

LEMMA StopLoopIInv ==
  ASSUME IInv, NEW s \in Stopper, StopOne(s) \/ StopNext(s) \/ StopExhausted(s)
  PROVE  IInv'
<1>1. CASE StopOne(s)
  BY <1>1, StopTaskIInv DEF IInv, TypeOK, StopOne
<1>2. CASE StopNext(s)
  <2>1. ListOf(s) \in Seq(Task)
    BY <1>2, EmptySeq DEF IInv, TypeOK, ListOf, StopNext
  <2>2. idx[s] \in Nat /\ idx[s] + 1 \in 1 .. Len(ListOf(s))
    BY <1>2, <2>1, LenProperties DEF IInv, TypeOK, StopNext
  <2>3. ListOf(s)[idx[s] + 1] \in Task
    BY <2>1, <2>2, ElementOfSeq
  <2>4. idx' \in [Stopper -> Nat]
    BY <1>2 DEF IInv, TypeOK, StopNext
  <2>5. QED  BY <1>2, <2>3, <2>4, StopTaskIInv DEF StopNext
<1>3. CASE StopExhausted(s)
  <2>1. /\ pc' \in [Stopper -> {"idle", "queued", "loop", "await", "returned"}]
        /\ \A r \in Stopper : r # s => pc'[r] = pc[r]
        /\ pc'[s] = "returned"
        /\ result' \in [Stopper -> {"none", "stopped", "failed", "raised", "notfound",
                                    "nothing", "all"}]
        /\ UNCHANGED <<taskVars, registry, ready, job, cur, idx, live, asked>>
    BY <1>3 DEF IInv, TypeOK, StopExhausted, Return
  <2>2. ~Queued(<<"stop", s>>) /\ ~Queued(<<"wake", s>>) /\ job[s] # NoTask
    BY <1>3 DEF IInv, QueueOK, StateOK, StopQueueOK, StopExhausted
  <2>3. TypeOK'
    BY <2>1 DEF IInv, TypeOK, taskVars, registry
  <2>4. QueueOK'
    BY <2>1, <2>2 DEF IInv, QueueOK, TaskQueueOK, StopQueueOK, Queued, taskVars
  <2>5. StateOK'
    BY <2>1, <2>2 DEF IInv, StateOK, Listed, Started, taskVars, registry
  <2>6. RunningListed' /\ EndedIsReaped'
    BY <2>1 DEF IInv, RunningListed, EndedIsReaped, Queued, Listed, Running, taskVars, registry
  <2>7. StopOnce'
    BY <2>1 DEF IInv, StopOnce, Queued, Running, taskVars
  <2>8. QED  BY <2>3, <2>4, <2>5, <2>6, <2>7 DEF IInv
<1>4. QED  BY <1>1, <1>2, <1>3

-----------------------------------------------------------------------------
LEMMA NextIInv == IInv /\ [Next]_vars => IInv'
<1> SUFFICES ASSUME IInv, [Next]_vars PROVE IInv'
  OBVIOUS
<1>1. ASSUME NEW t \in Task, ArriveCreate(t) \/ ArriveIO(t) PROVE IInv'
  BY <1>1, ArriveCreateIInv, ArriveIOIInv
<1>2. ASSUME NEW s \in Stopper, NEW j \in Task \cup Document, ArriveStop(s, j) PROVE IInv'
  <2>1. Document \subseteq Item
    BY DEF Document, Task
  <2>2. QED  BY <1>2, <2>1, ArriveStopIInv
<1>3. ASSUME NEW t \in Task, TaskCallback(t) PROVE IInv'
  BY <1>3, CreateTaskIInv, ReapIInv, CleanupTaskIInv, StepIInv DEF TaskCallback
<1>4. ASSUME NEW s \in Stopper, StopCallback(s) PROVE IInv'
  BY <1>4, BeginStopIInv, WakeStopIInv, StopLoopIInv DEF StopCallback
<1>5. CASE UNCHANGED vars
  BY <1>5 DEF vars, taskVars, stopVars, IInv, TypeOK, QueueOK, TaskQueueOK, StopQueueOK,
     StateOK, RunningListed, EndedIsReaped, StopOnce, Queued, Listed, Started, Running
<1>6. QED  BY <1>1, <1>2, <1>3, <1>4, <1>5 DEF Next, Loop

(* The registry of a process is what it should be in every reachable state *)
(* of any number of tasks and stop requests.                               *)
THEOREM Invariance == Spec => []IInv
<1>1. Init => IInv
  BY InitIInv
<1>2. IInv /\ [Next]_vars => IInv'
  BY NextIInv
<1>3. QED  BY <1>1, <1>2, PTL DEF Spec

(* A running task is always listed under its item, once, and nowhere else. *)
THEOREM RunningAlwaysListed == Spec => []RunningListed
<1>1. IInv => RunningListed
  BY DEF IInv
<1>2. QED  BY <1>1, Invariance, PTL

(* No registry entry outlives its task without a cleanup on the way.       *)
THEOREM NoLeak == Spec => []EndedIsReaped
<1>1. IInv => EndedIsReaped
  BY DEF IInv
<1>2. QED  BY <1>1, Invariance, PTL

(* However many stops of a task race, one waits for it, and it is woken.   *)
THEOREM OneStopWaits == Spec => []StopOnce
<1>1. IInv => StopOnce
  BY DEF IInv
<1>2. QED  BY <1>1, Invariance, PTL

-----------------------------------------------------------------------------
(* "Not found".                                                            *)

(* What a step leaves of a task.                                           *)
LEMMA PoppedByTask ==
  ASSUME IInv, PoppedIsStopping, NEW t \in Task,
         ArriveCreate(t) \/ ArriveIO(t) \/ TaskCallback(t)
  PROVE  PoppedIsStopping' /\ UNCHANGED result
<1>1. CASE ArriveCreate(t) \/ Reap(t)
  BY <1>1 DEF ArriveCreate, Reap, PoppedIsStopping, Running, taskVars, registry, stopVars
<1>2. CASE ArriveIO(t)
  BY <1>2 DEF IInv, TypeOK, ArriveIO, PoppedIsStopping, Running, registry, stopVars
<1>3. CASE CreateTask(t)
  BY <1>3 DEF IInv, TypeOK, CreateTask, PoppedIsStopping, Running, stopVars
<1>4. CASE CleanupTask(t)
  <2>1. st[t] = "done"
    BY <1>4, TakeHead DEF IInv, QueueOK, TaskQueueOK, CleanupTask
  <2>2. QED  BY <1>4, <2>1 DEF CleanupTask, PoppedIsStopping, Running, taskVars
<1>5. CASE StepCancelled(t) \/ StepNormally(t)
  <2>1. \A u \in Task \ {t} : st'[u] = st[u] /\ cancel'[u] = cancel[u] /\ phase'[u] = phase[u]
    BY <1>5 DEF IInv, TypeOK, StepCancelled, StepNormally, Suspend, Finish
  <2>2. tasks' = tasks /\ result' = result
    BY <1>5 DEF StepCancelled, StepNormally, registry, stopVars
  <2>3. Running(t)' => phase'[t] = "handling" \/ (Running(t) /\ ~cancel[t] /\ phase[t] # "handling")
    <3>1. Running(t)
      BY <1>5, TakeHead DEF IInv, QueueOK, TaskQueueOK, StepCancelled, StepNormally, Running
    <3>2. \A how : Finish(t, how) => ~Running(t)'
      BY DEF IInv, TypeOK, Finish, Running
    <3>3. CASE StepCancelled(t)
      BY <3>2, <3>3 DEF IInv, TypeOK, StepCancelled
    <3>4. CASE StepNormally(t)
      BY <3>1, <3>2, <3>4 DEF StepNormally
    <3>5. QED  BY <1>5, <3>3, <3>4
  <2>4. QED  BY <2>1, <2>2, <2>3 DEF PoppedIsStopping, Running
<1>6. QED  BY <1>1, <1>2, <1>3, <1>4, <1>5 DEF TaskCallback

LEMMA PoppedByStop ==
  ASSUME IInv, PoppedIsStopping, NEW s \in Stopper, NEW t \in Task, pc[s] = "loop", StopTask(s, t)
  PROVE  /\ PoppedIsStopping'
         /\ \A r \in Stopper : result'[r] = "notfound" /\ result[r] # "notfound" /\ Running(cur'[r]) =>
              cancel[cur'[r]] \/ phase[cur'[r]] = "handling"
<1>1. cur'[s] = t /\ tasks' = tasks \ {t} /\ UNCHANGED phase
  BY DEF IInv, TypeOK, StopTask
<1>2. CASE t \notin tasks /\ Return(s, "notfound") /\ UNCHANGED <<st, cancel, ready>>
  <2>1. \A r \in Stopper \ {s} : result'[r] = result[r]
    BY <1>2 DEF IInv, TypeOK, Return
  <2>2. QED  BY <1>1, <1>2, <2>1 DEF PoppedIsStopping, Running
<1>3. CASE t \in tasks /\ st[t] = "done" /\ Report(s, Verdict(t)) /\ UNCHANGED <<st, cancel, ready>>
  <2>1. Verdict(t) # "notfound"
    BY <1>3 DEF IInv, TypeOK, StateOK, Verdict
  <2>2. \A r \in Stopper : result'[r] = "notfound" => result[r] = "notfound"
    BY <1>3, <2>1 DEF IInv, TypeOK, Report, Return
  <2>3. QED  BY <1>1, <1>3, <2>2 DEF PoppedIsStopping, Running
<1>4. CASE t \in tasks /\ st[t] # "done" /\ RequestCancel(t) /\ UNCHANGED result
  <2>1. cancel'[t] /\ \A u \in Task \ {t} : cancel'[u] = cancel[u] /\ st'[u] = st[u]
    BY <1>4 DEF IInv, TypeOK, RequestCancel
  <2>2. QED  BY <1>1, <1>4, <2>1 DEF PoppedIsStopping, Running
<1>5. QED  BY <1>2, <1>3, <1>4 DEF StopTask

LEMMA PoppedStep ==
  ASSUME IInv, PoppedIsStopping, [Next]_vars
  PROVE  /\ PoppedIsStopping'
         /\ \A r \in Stopper : result'[r] = "notfound" /\ result[r] # "notfound" /\ Running(cur'[r]) =>
              cancel[cur'[r]] \/ phase[cur'[r]] = "handling"
<1>1. ASSUME NEW t \in Task, ArriveCreate(t) \/ ArriveIO(t) \/ TaskCallback(t)
      PROVE  PoppedIsStopping' /\ UNCHANGED result
  BY <1>1, PoppedByTask
<1>2. ASSUME NEW s \in Stopper, NEW j \in Task \cup Document, ArriveStop(s, j)
      PROVE  PoppedIsStopping' /\ UNCHANGED result
  BY <1>2 DEF ArriveStop, PoppedIsStopping, Running, taskVars, registry
<1>3. ASSUME NEW s \in Stopper, BeginStop(s) \/ WakeStop(s) \/ StopExhausted(s)
      PROVE  /\ PoppedIsStopping'
             /\ \A r \in Stopper : result'[r] = "notfound" => result[r] = "notfound"
  <2>1. PoppedIsStopping'
    BY <1>3 DEF BeginStop, WakeStop, StopExhausted, PoppedIsStopping, Running, taskVars, registry
  <2>2. ASSUME WakeStop(s) PROVE Verdict(cur[s]) # "notfound"
    <3>1. cur[s] \in Task /\ st[cur[s]] = "done"
      BY <2>2, TakeHead DEF IInv, QueueOK, StopQueueOK, StateOK, WakeStop
    <3>2. QED  BY <3>1 DEF IInv, TypeOK, StateOK, Verdict
  <2>3. \A r \in Stopper : result'[r] = "notfound" => result[r] = "notfound"
    BY <1>3, <2>2 DEF IInv, TypeOK, BeginStop, WakeStop, StopExhausted, Report, Return
  <2>4. QED  BY <2>1, <2>3
<1>4. ASSUME NEW s \in Stopper, StopOne(s) \/ StopNext(s)
      PROVE  \E t \in Task : pc[s] = "loop" /\ StopTask(s, t)
  <2>1. CASE StopNext(s)
    <3>1. ListOf(s) \in Seq(Task)
      BY <2>1, EmptySeq DEF IInv, TypeOK, ListOf, StopNext
    <3>2. idx[s] \in Nat /\ idx[s] + 1 \in 1 .. Len(ListOf(s))
      BY <2>1, <3>1, LenProperties DEF IInv, TypeOK, StopNext
    <3>3. ListOf(s)[idx[s] + 1] \in Task
      BY <3>1, <3>2, ElementOfSeq
    <3>4. QED  BY <2>1, <3>3 DEF StopNext
  <2>2. QED  BY <1>4, <2>1 DEF StopOne
<1>5. CASE UNCHANGED vars
  BY <1>5 DEF vars, taskVars, registry, stopVars, PoppedIsStopping, Running
<1>6. QED  BY <1>1, <1>2, <1>3, <1>4, <1>5, PoppedByStop DEF Next, Loop, StopCallback

(* stop_task says "not found" of no task that would go on running: it is   *)
(* unknown, has ended, or another stop has popped it: NotFoundIsStopping.  *)
THEOREM NotFoundIsHonest == Spec => NotFoundIsStopping
<1>1. Init => PoppedIsStopping
  BY DEF Init, PoppedIsStopping, Running
<1>2. IInv /\ PoppedIsStopping /\ [Next]_vars => PoppedIsStopping'
  BY PoppedStep
<1>3. IInv /\ PoppedIsStopping /\ [Next]_vars =>
        [\A s \in Stopper :
           result'[s] = "notfound" /\ result[s] # "notfound" =>
             LET t == cur'[s] IN Running(t) => cancel[t] \/ phase[t] = "handling"]_vars
  BY PoppedStep
<1>4. QED  BY <1>1, <1>2, <1>3, Invariance, PTL DEF Spec, NotFoundIsStopping

-----------------------------------------------------------------------------
(* The notes.                                                              *)

LEMMA NoteFacts ==
  ASSUME NoteAssumption
  PROVE  /\ Task = Saves /\ Item = {Doc} /\ \A t \in Task : ItemOf[t] = Doc
         /\ Cardinality(Update) \in Nat /\ Update = 1 .. Cardinality(Update)
         /\ WithData \subseteq Update
         /\ \A k \in WithData : SaveOf[k] \in Saves /\ SaveOf[k] # NoTask
         /\ \A k \in Update : k \in WithData <=> SaveOf[k] # NoTask
<1>1. Task = Saves
  BY DEF NoteAssumption, Task
<1>2. Item = {Doc} /\ \A t \in Task : ItemOf[t] = Doc
  BY DEF NoteAssumption
<1>3. Cardinality(Update) \in Nat /\ Update = 1 .. Cardinality(Update)
  BY FS_CardinalityType DEF NoteAssumption
<1>4. \A k \in Update : SaveOf[k] \in Saves \cup {NoTask}
  BY DEF NoteAssumption
<1>5. QED  BY <1>1, <1>2, <1>3, <1>4 DEF WithData

LEMMA UpdateOfSave ==
  ASSUME NoteAssumption, NEW t \in Saves
  PROVE  /\ UpdateOf(t) \in WithData /\ SaveOf[UpdateOf(t)] = t
         /\ \A k \in WithData : SaveOf[k] = t => k = UpdateOf(t)
<1>1. \E k \in Update : SaveOf[k] = t
  BY DEF NoteAssumption
<1>2. t # NoTask
  BY DEF Task
<1>3. \E k \in WithData : SaveOf[k] = t
  BY <1>1, <1>2 DEF WithData
<1>4. UpdateOf(t) \in WithData /\ SaveOf[UpdateOf(t)] = t
  BY <1>3 DEF UpdateOf
<1>5. QED  BY <1>4 DEF NoteAssumption

(* What takes no save from being created, and no update from having been   *)
(* received or handled, leaves the order of the updates alone.             *)
LEMMA StillInTurn ==
  ASSUME NoteAssumption, InTurn, UpdatesOK, UNCHANGED <<last, crossed, bare>>,
         \A k \in Update : pc'[k] = "idle" <=> pc[k] = "idle",
         \A k \in Update : pc'[k] # "returned" => pc[k] # "returned",
         \A t \in Saves : st'[t] = "none" <=> st[t] = "none"
  PROVE  InTurn' /\ UpdatesOK'
<1>1. Received' = Received
  BY DEF Received
<1>2. \A k \in Update : Created(k)' <=> Created(k)
  BY NoteFacts DEF Created
<1>3. \A k \in Update : Handled(k) => Handled(k)'
  BY <1>2 DEF Handled, Stopped
<1>4. UpdatesOK'
  BY <1>2, NoteFacts DEF UpdatesOK
<1>5. (\A k \in Received, j \in Update : j < k => j \in Received)'
  BY <1>1 DEF InTurn
<1>6. ASSUME ~crossed'
      PROVE  /\ \A j, k \in Received' : j < k => Handled(j)'
             /\ \A k \in WithData : Created(k)' => k <= last'
             /\ last' # 0 /\ bare' => \E k \in Received' \ WithData : last' < k
  <2>1. ~crossed
    BY <1>6
  <2>2. \A j, k \in Received' : j < k => Handled(j)'
    BY <1>1, <1>3, <2>1 DEF InTurn, Received
  <2>3. \A k \in WithData : Created(k)' => k <= last'
    BY <1>2, <2>1, NoteFacts DEF InTurn
  <2>4. last' # 0 /\ bare' => \E k \in Received' \ WithData : last' < k
    BY <1>1, <2>1 DEF InTurn
  <2>5. QED  BY <2>2, <2>3, <2>4
<1>7. InTurn'
  BY <1>5, <1>6 DEF InTurn
<1>8. QED  BY <1>4, <1>7

(* What the registry does between the steps of saves.                      *)
LEMMA QuietNotes ==
  ASSUME NoteAssumption, NotesInv, IInv', UNCHANGED <<taskVars, noteVars>>,
         \A t \in Saves : Queued(<<"step", t>>) => Queued(<<"step", t>>)',
         \A t \in Saves : Queued(<<"create", t>>)' => Queued(<<"create", t>>),
         \A t, u \in Saves : Sooner(t, u) => Sooner(t, u)',
         \A t \in Saves : (Listed(t) => Last(itemTasks[Doc]) = t)
                            => (Listed(t) => Last(itemTasks[Doc]) = t)',
         \A k \in Update : pc'[k] = pc[k] \/ (Busy(k) /\ pc'[k] # "idle")
  PROVE  NotesInv'
<1>1. /\ SavesOK /\ UpdatesOK /\ LastOK /\ InTurn /\ NotesTypeOK
      /\ UNCHANGED <<st, cancel, phase, outcome, note, left, last, crossed, bare>>
  BY DEF NotesInv, taskVars, noteVars
<1>2. NotesTypeOK'
  BY <1>1 DEF NotesTypeOK
<1>3. SavesOK'
  BY <1>1 DEF SavesOK
<1>4. \A k \in Update : /\ pc'[k] = "idle" <=> pc[k] = "idle"
                        /\ pc'[k] # "returned" => pc[k] # "returned"
                        /\ Busy(k)' => Busy(k)
  BY DEF Busy
<1>5. InTurn' /\ UpdatesOK'
  BY <1>1, <1>4, StillInTurn
<1>6. ASSUME NEW k \in WithData, last' = k
      PROVE  Created(k)' /\ Follows(SaveOf[k])' /\ Ends(k)'
  <2> DEFINE t == SaveOf[k]
  <2>1. Created(k) /\ Follows(t) /\ Ends(k) /\ t \in Saves
    BY <1>1, <1>6, NoteFacts DEF LastOK
  <2>2. Created(k)'
    BY <1>1, <2>1 DEF Created
  <2> HIDE DEF t
  <2>3. (Listed(t) => Last(itemTasks[Doc]) = t)'
    BY <2>1 DEF Follows
  <2>4. Follows(t)'
    <3>1. ASSUME NEW u \in Saves \ {t}, GoesOn(u)'
          PROVE  /\ outcome'[t] # "ok"
                 /\ GoesOn(t)' =>
                      \/ phase'[t] = "new" /\ (phase'[u] = "new" => Sooner(u, t)')
                      \/ phase'[t] = "body" /\ phase'[u] = "body" /\ st'[t] = "waiting"
                      \/ phase'[t] = "body" /\ phase'[u] = "body" /\ Sooner(u, t)'
      <4>1. GoesOn(u) /\ (GoesOn(t)' => GoesOn(t))
        BY <1>1, <3>1 DEF GoesOn, Running
      <4>2. Sooner(u, t) => Sooner(u, t)'
        BY <2>1
      <4>3. QED  BY <1>1, <2>1, <4>1, <4>2 DEF Follows
    <3>2. QED  BY <2>3, <3>1 DEF Follows
  <2>5. Ends(k)'
    <3>1. \A j \in WithData : pc[j] # "idle" /\ ~Created(j) => pc'[j] # "idle" /\ ~Created(j)'
      BY <1>1, <1>4, NoteFacts DEF Created
    <3>2. \A j \in Update \ WithData : Busy(j)' => bare'
      BY <1>1, <1>4, <2>1 DEF Ends
    <3>3. QED  BY <1>1, <2>1, <3>1, <3>2 DEF Ends
  <2>6. QED  BY <2>2, <2>4, <2>5 DEF t
<1>7. LastOK'
  BY <1>1, <1>6 DEF LastOK
<1>8. QED  BY <1>2, <1>3, <1>5, <1>7 DEF NotesInv

(* What the queue is like after a step of a task.                          *)
LEMMA StepQueue ==
  ASSUME IInv, NEW t \in Task, AtHead("step", t),
         Suspend(t) \/ \E how \in {"ok", "cancelled", "error"} : Finish(t, how)
  PROVE  /\ st[t] = "ready"
         /\ \A u \in Task : u # t /\ Queued(<<"step", u>>) => Queued(<<"step", u>>)'
         /\ \A u \in Task : Queued(<<"create", u>>)' => Queued(<<"create", u>>)
         /\ \A u, v \in Task : u # t /\ Sooner(u, v) => Sooner(u, v)'
         /\ \A u \in Task : ~Sooner(u, t)
<1>1. /\ ready \in Seq(Callback) /\ ready # <<>> /\ Head(ready) = <<"step", t>>
      /\ IsInjective(ready) /\ Tail(ready) \in Seq(Callback)
      /\ ToSet(Tail(ready)) = ToSet(ready) \ {<<"step", t>>}
  BY TakeHead DEF IInv, TypeOK, QueueOK, AtHead
<1>2. st[t] = "ready"
  BY TakeHead DEF IInv, QueueOK, TaskQueueOK
<1>3. \A u \in Task : ~Sooner(u, t)
  BY <1>1, NothingBeforeHead DEF Sooner
<1>4. \A u, v \in Task : u # t /\ Sooner(u, v) => Before(<<"step", u>>, <<"step", v>>, Tail(ready))
  <2> SUFFICES ASSUME NEW u \in Task, NEW v \in Task, u # t, Sooner(u, v)
               PROVE  Before(<<"step", u>>, <<"step", v>>, Tail(ready))
    OBVIOUS
  <2>1. <<"step", u>> # Head(ready)
    BY <1>1
  <2>2. QED  BY <1>1, <2>1, TailBefore DEF Sooner
<1>5. CASE Suspend(t)
  <2>1. ready' = Tail(ready)
    BY <1>5 DEF Suspend
  <2>2. QED  BY <1>1, <1>2, <1>3, <1>4, <2>1 DEF Queued, Sooner
<1>6. ASSUME NEW how, Finish(t, how)
      PROVE  /\ \A u \in Task : u # t /\ Queued(<<"step", u>>) => Queued(<<"step", u>>)'
             /\ \A u \in Task : Queued(<<"create", u>>)' => Queued(<<"create", u>>)
             /\ \A u, v \in Task : u # t /\ Sooner(u, v) => Sooner(u, v)'
  <2> DEFINE p == <<<<"reap", t>>>>
             w == Waiters(t)
             q == Tail(ready) \o p
  <2>1. p \in Seq(Callback) /\ w \in Seq(Callback) /\ ready' = q \o w
    BY <1>6, WaitersSeq DEF Finish, Callback
  <2>2. ToSet(p) = {<<"reap", t>>}
    BY DEF ToSet
  <2>3. \A c \in ToSet(w) : \E s \in Stopper : c = <<"wake", s>>
    BY WaitersSeq
  <2> HIDE DEF p, w
  <2>4. q \in Seq(Callback) /\ ToSet(q) = ToSet(Tail(ready)) \cup ToSet(p)
    <3>1. Tail(ready) \in Seq(Callback) /\ p \in Seq(Callback)
      BY <1>1, <2>1
    <3>2. QED  BY <3>1, ToSetConcat
  <2> HIDE DEF q
  <2>5. ToSet(ready') = ToSet(q) \cup ToSet(w)
    BY <2>1, <2>4, ToSetConcat
  <2>6. \A u \in Task : u # t /\ Queued(<<"step", u>>) => Queued(<<"step", u>>)'
    BY <1>1, <2>4, <2>5 DEF Queued
  <2>7. \A u \in Task : Queued(<<"create", u>>)' => Queued(<<"create", u>>)
    BY <1>1, <2>2, <2>3, <2>4, <2>5 DEF Queued
  <2>8. \A u, v \in Task : u # t /\ Sooner(u, v) => Sooner(u, v)'
    <3> SUFFICES ASSUME NEW u \in Task, NEW v \in Task, u # t, Sooner(u, v)
                 PROVE  Before(<<"step", u>>, <<"step", v>>, ready')
      BY DEF Sooner
    <3>1. Before(<<"step", u>>, <<"step", v>>, Tail(ready))
      BY <1>4
    <3>2. Before(<<"step", u>>, <<"step", v>>, q)
      BY <1>1, <2>1, <3>1, ConcatBefore DEF q
    <3>3. QED  BY <2>1, <2>4, <3>2, ConcatBefore
  <2>9. QED  BY <2>6, <2>7, <2>8
<1>7. QED  BY <1>2, <1>3, <1>5, <1>6

LEMMA ReceiveNotes ==
  ASSUME NoteAssumption, NotesInv, NEW k \in Update, Receive(k)
  PROVE  NotesInv'
<1>1. /\ IInv /\ SavesOK /\ UpdatesOK /\ LastOK /\ InTurn /\ NotesTypeOK
      /\ pc[k] = "idle" /\ \A j \in Update : pc'[j] = IF j = k THEN "queued" ELSE pc[j]
      /\ ready' = Append(ready, <<"stop", k>>)
      /\ UNCHANGED <<st, cancel, phase, outcome, itemTasks, note, left, last>>
      /\ \A j \in Update : j < k => pc[j] # "idle"
      /\ crossed' = (crossed \/ \E j \in Update : j < k /\ ~Handled(j))
      /\ bare' = (bare \/ k \notin WithData)
  BY DEF NotesInv, IInv, TypeOK, Receive, ArriveStop, taskVars, registry, Update
<1>2. IInv'
  <2>1. Doc \in Task \cup Item /\ ArriveStop(k, Doc)
    BY NoteFacts DEF Receive
  <2>2. QED  BY <1>1, <2>1, ArriveStopIInv DEF Update
<1>3. NotesTypeOK'
  BY <1>1 DEF NotesTypeOK
<1>4. /\ \A c : Queued(c) => Queued(c)'
      /\ \A t \in Saves : Queued(<<"create", t>>)' => Queued(<<"create", t>>)
      /\ \A t, u \in Saves : Sooner(t, u) => Sooner(t, u)'
  <2>1. ready \in Seq(Callback) /\ <<"stop", k>> \in Callback
    BY <1>1 DEF IInv, TypeOK, Callback, Update
  <2>2. ToSet(ready') = ToSet(ready) \cup {<<"stop", k>>}
    BY <1>1, <2>1, AppendSet
  <2>3. \A a, b : Before(a, b, ready) => Before(a, b, ready')
    BY <1>1, <2>1, AppendBefore
  <2>4. QED  BY <2>2, <2>3 DEF Queued, Sooner
<1>5. SavesOK'
  BY <1>1, <1>4 DEF SavesOK
<1>6. \A j \in Update : Created(j)' <=> Created(j)
  BY <1>1 DEF Created
<1>7. UpdatesOK'
  BY <1>1, <1>6, NoteFacts DEF UpdatesOK
<1>8. ASSUME NEW l \in WithData, last' = l
      PROVE  Created(l)' /\ Follows(SaveOf[l])' /\ Ends(l)'
  <2> DEFINE t == SaveOf[l]
  <2>1. Created(l) /\ Follows(t) /\ Ends(l) /\ t \in Saves /\ l \in Update
    BY <1>1, <1>8, NoteFacts DEF LastOK
  <2> HIDE DEF t
  <2>2. Follows(t)'
    <3>1. \A u \in Saves : Sooner(u, t) => Sooner(u, t)'
      BY <1>4, <2>1
    <3>2. (Listed(t) => Last(itemTasks[Doc]) = t)'
      BY <1>1, <2>1 DEF Follows, Listed
    <3>3. QED  BY <1>1, <2>1, <3>1, <3>2 DEF Follows, GoesOn, Running
  <2>3. Ends(l)'
    <3>1. \A j \in WithData : pc[j] # "idle" /\ ~Created(j) => pc'[j] # "idle" /\ ~Created(j)'
      BY <1>1, <1>6, NoteFacts
    <3>2. \A j \in Update \ WithData : Busy(j)' => bare'
      BY <1>1, <2>1 DEF Ends, Busy
    <3>3. bare => bare'
      BY <1>1
    <3>4. QED  BY <1>1, <2>1, <3>1, <3>2, <3>3 DEF Ends
  <2>4. QED  BY <1>6, <2>1, <2>2, <2>3 DEF t
<1>9. LastOK'
  BY <1>1, <1>8 DEF LastOK
<1>10. InTurn'
  <2>1. Received' = Received \cup {k} /\ k \notin Received
    BY <1>1 DEF Received
  <2>2. \A i \in Received, j \in Update : j < i => j \in Received
    BY <1>1 DEF InTurn
  <2>3. \A i \in Received', j \in Update : j < i => j \in Received'
    BY <1>1, <2>1, <2>2 DEF Received
  <2>4. \A i \in Received : i < k
    BY <2>1, <2>2, NoteFacts DEF Received
  <2>5. ASSUME ~crossed'
        PROVE  /\ \A j, i \in Received' : j < i => Handled(j)'
               /\ \A i \in WithData : Created(i)' => i <= last'
               /\ last' # 0 /\ bare' => \E i \in Received' \ WithData : last' < i
    <3>1. ~crossed /\ \A j \in Update : j < k => Handled(j)
      BY <1>1, <2>5
    <3>2. \A j \in Received : Handled(j) => Handled(j)'
      BY <1>1, <1>6, <2>1 DEF Handled, Stopped, Received
    <3>3. ASSUME NEW j \in Received', NEW i \in Received', j < i
          PROVE  Handled(j)'
      <4>1. j # k
        BY <2>1, <2>4, <3>3, NoteFacts DEF Received
      <4>2. j \in Received
        BY <2>1, <4>1
      <4>3. Handled(j)
        BY <1>1, <2>1, <2>4, <3>1, <3>3, <4>2 DEF InTurn, Received
      <4>4. QED  BY <3>2, <4>2, <4>3
    <3>4. \A i \in WithData : Created(i)' => i <= last'
      BY <1>1, <1>6, <3>1, NoteFacts DEF InTurn
    <3>5. ASSUME last' # 0, bare'
          PROVE  \E i \in Received' \ WithData : last' < i
      <4>1. CASE k \in WithData
        BY <1>1, <2>1, <3>1, <3>5, <4>1 DEF InTurn
      <4>2. CASE k \notin WithData
        <5>1. last \in WithData /\ Created(last)
          BY <1>1, <3>5 DEF LastOK
        <5>2. last \in Received
          BY <1>1, <5>1, NoteFacts DEF UpdatesOK, Received
        <5>3. QED  BY <1>1, <2>1, <2>4, <4>2, <5>2
      <4>3. QED  BY <4>1, <4>2
    <3>6. QED  BY <3>3, <3>4, <3>5
  <2>6. QED  BY <2>3, <2>5 DEF InTurn
<1>11. QED  BY <1>2, <1>3, <1>5, <1>7, <1>9, <1>10 DEF NotesInv

LEMMA StartSaveNotes ==
  ASSUME NoteAssumption, NotesInv, NEW k \in Update, StartSave(k)
  PROVE  NotesInv'
<1> DEFINE t == SaveOf[k]
<1>1. /\ IInv /\ SavesOK /\ UpdatesOK /\ LastOK /\ InTurn /\ NotesTypeOK
      /\ k \in WithData /\ pc[k] = "returned" /\ ~Created(k) /\ st[t] = "none"
      /\ st' = [st EXCEPT ![t] = "ready"] /\ tasks' = tasks \cup {t}
      /\ itemTasks' = [itemTasks EXCEPT ![Doc] = Append(@, t)]
      /\ ready' = Append(ready, <<"step", t>>)
      /\ last' = k
      /\ bare' = \E j \in Update \ WithData : Busy(j)
      /\ UNCHANGED <<cancel, phase, outcome, stopVars, pc, note, left, crossed>>
  BY DEF NotesInv, StartSave, Created, Stopped, WithData, Busy, stopVars
<1>2. t \in Saves /\ t \in Task /\ ItemOf[t] = Doc /\ Doc \in Item
  BY <1>1, NoteFacts
<1>3. \A u \in Saves : st'[u] = IF u = t THEN "ready" ELSE st[u]
  BY <1>1, <1>2, NoteFacts DEF IInv, TypeOK
<1>4. /\ IInv'
      /\ ToSet(ready') = ToSet(ready) \cup {<<"step", t>>}
      /\ itemTasks[Doc] \in Seq(Task)
  <2>1. ready \in Seq(Callback) /\ IsInjective(ready)
    BY <1>1 DEF IInv, TypeOK, QueueOK
  <2>2. <<"create", t>> \notin ToSet(ready)
    BY <1>1, <1>2 DEF SavesOK, Queued
  <2>3. ToSet(ready) = ToSet(ready) \ {<<"create", t>>}
    BY <2>2
  <2> HIDE DEF t
  <2>4. QED  BY <1>1, <1>2, <2>1, <2>3, RegisterIInv
<1>5. \A a, b : Before(a, b, ready) => Before(a, b, ready')
  <2>1. ready \in Seq(Callback) /\ <<"step", t>> \in Callback
    BY <1>1, <1>2 DEF IInv, TypeOK, Callback
  <2>2. QED  BY <1>1, <2>1, AppendBefore
<1>6. \A u \in Saves : Queued(<<"step", u>>) => Sooner(u, t)'
  <2>1. ready \in Seq(Callback) /\ <<"step", t>> \in Callback
    BY <1>1, <1>2 DEF IInv, TypeOK, Callback
  <2> HIDE DEF t
  <2>2. QED  BY <1>1, <2>1, AppendBefore DEF Queued, Sooner
<1>7. NotesTypeOK'
  BY <1>1, NoteFacts DEF NotesTypeOK
<1>8. SavesOK'
  <2> HIDE DEF t
  <2>1. ASSUME NEW u \in Saves
        PROVE  /\ Queued(<<"create", u>>)' <=> Queued(<<"create", u>>)
               /\ Queued(<<"step", u>>)' <=> Queued(<<"step", u>>) \/ u = t
    BY <1>4 DEF Queued
  <2>2. UNCHANGED <<cancel, phase, outcome>> /\ SavesOK /\ st[t] = "none"
    BY <1>1
  <2>3. QED  BY <1>2, <1>3, <2>1, <2>2 DEF SavesOK
<1>9. /\ \A j \in WithData : Created(j)' <=> Created(j) \/ j = k
      /\ \A j \in Update : j \notin WithData => Created(j) /\ Created(j)'
  <2>1. \A j \in WithData : SaveOf[j] \in Saves /\ (SaveOf[j] = t <=> j = k)
    BY <1>1, NoteFacts DEF NoteAssumption
  <2>2. \A j \in WithData : SaveOf[j] # NoTask
    BY NoteFacts
  <2> HIDE DEF t
  <2>3. \A j \in WithData : Created(j)' <=> Created(j) \/ j = k
    BY <1>3, <2>1, <2>2 DEF Created
  <2>4. QED  BY <2>3, NoteFacts DEF Created
<1>10. UpdatesOK'
  BY <1>1, <1>9 DEF UpdatesOK
<1>11. Follows(t)'
  <2>1. (Listed(t) => Last(itemTasks[Doc]) = t)'
    <3>1. itemTasks'[Doc] = Append(itemTasks[Doc], t)
      BY <1>1, <1>2 DEF IInv, TypeOK
    <3>2. Last(Append(itemTasks[Doc], t)) = t
      <4> HIDE DEF t
      <4>1. /\ Len(Append(itemTasks[Doc], t)) = Len(itemTasks[Doc]) + 1
            /\ Append(itemTasks[Doc], t)[Len(itemTasks[Doc]) + 1] = t
        BY <1>2, <1>4, AppendProperties
      <4>2. QED  BY <4>1 DEF Last
    <3>3. QED  BY <3>1, <3>2
  <2> HIDE DEF t
  <2>2. ASSUME NEW u \in Saves \ {t}, GoesOn(u)'
        PROVE  /\ outcome'[t] # "ok"
               /\ phase'[t] = "new" /\ (phase'[u] = "new" => Sooner(u, t)')
    <3>1. outcome'[t] # "ok" /\ phase'[t] = "new"
      BY <1>1, <1>2 DEF SavesOK
    <3>2. ASSUME phase'[u] = "new" PROVE Sooner(u, t)'
      <4>1. st[u] = "ready"
        BY <1>1, <1>3, <2>2, <3>2 DEF SavesOK, GoesOn, Running
      <4>2. QED  BY <1>1, <1>6, <4>1 DEF SavesOK
    <3>3. QED  BY <3>1, <3>2
  <2>3. QED  BY <2>1, <2>2 DEF Follows
<1>12. Ends(k)'
  <2>1. outcome'[t] = "none" /\ ~cancel'[t]
    BY <1>1, <1>2 DEF SavesOK
  <2>2. \A j \in Update \ WithData : Busy(j)' => bare'
    BY <1>1 DEF Busy
  <2>3. QED  BY <2>1, <2>2 DEF Ends
<1>13. LastOK'
  BY <1>1, <1>9, <1>11, <1>12 DEF LastOK
<1>14. InTurn'
  <2>1. Received' = Received /\ k \in Received
    BY <1>1 DEF Received
  <2>2. ASSUME ~crossed'
        PROVE  /\ \A j, i \in Received' : j < i => Handled(j)'
               /\ \A i \in WithData : Created(i)' => i <= last'
               /\ ~bare'
    <3>1. \A j, i \in Received : j < i => Handled(j)
      BY <1>1, <2>2 DEF InTurn
    <3>2. \A j \in Received : Handled(j) => Handled(j)'
      BY <1>1, <1>9 DEF Handled, Stopped, Received
    <3>3. \A j, i \in Received' : j < i => Handled(j)'
      BY <2>1, <3>1, <3>2
    <3>4. ~Handled(k)
      BY <1>1 DEF Handled
    <3>5. \A j \in Received : j <= k
      BY <2>1, <3>1, <3>4, NoteFacts DEF Received
    <3>6. \A i \in WithData : Created(i)' => i \in Received
      BY <1>1, <1>9, <2>1, NoteFacts DEF UpdatesOK, Received
    <3>7. \A j \in Update : Busy(j) => j \in Received /\ ~Handled(j)
      BY DEF Busy, Received, Handled, Stopped
    <3>8. \A j \in Received : ~Handled(j) => j = k
      BY <2>1, <3>1, <3>5, NoteFacts DEF Received
    <3>9. ~bare'
      BY <1>1, <3>7, <3>8
    <3>10. QED  BY <1>1, <3>3, <3>5, <3>6, <3>9
  <2>3. QED  BY <1>1, <2>1, <2>2 DEF InTurn
<1>15. QED  BY <1>4, <1>7, <1>8, <1>10, <1>13, <1>14 DEF NotesInv

LEMMA SleepEndsNotes ==
  ASSUME NoteAssumption, NotesInv, NEW s \in Saves, SleepEnds(s)
  PROVE  NotesInv'
<1>1. /\ IInv /\ SavesOK /\ UpdatesOK /\ LastOK /\ InTurn /\ NotesTypeOK
      /\ st[s] = "waiting"
      /\ st' = [st EXCEPT ![s] = "ready"] /\ ready' = Append(ready, <<"step", s>>)
      /\ UNCHANGED <<cancel, phase, outcome, tasks, itemTasks, pc, note, left, last, crossed, bare>>
  BY DEF NotesInv, SleepEnds, ArriveIO, registry, stopVars, noteVars
<1>2. IInv'
  BY <1>1, NoteFacts, ArriveIOIInv DEF SleepEnds
<1>3. \A u \in Saves : st'[u] = IF u = s THEN "ready" ELSE st[u]
  BY <1>1, NoteFacts DEF IInv, TypeOK
<1>4. /\ ToSet(ready') = ToSet(ready) \cup {<<"step", s>>}
      /\ \A u, v \in Saves : Sooner(u, v) => Sooner(u, v)'
      /\ \A u \in Saves : Queued(<<"step", u>>) => Sooner(u, s)'
  <2>1. ready \in Seq(Callback) /\ <<"step", s>> \in Callback
    BY <1>1, NoteFacts DEF IInv, TypeOK, Callback
  <2>2. ToSet(ready') = ToSet(ready) \cup {<<"step", s>>}
    BY <1>1, <2>1, AppendSet
  <2>3. \A a, b : Before(a, b, ready) => Before(a, b, ready')
    BY <1>1, <2>1, AppendBefore
  <2>4. \A a : a \in ToSet(ready) => Before(a, <<"step", s>>, ready')
    BY <1>1, <2>1, AppendBefore
  <2>5. QED  BY <2>2, <2>3, <2>4 DEF Queued, Sooner
<1>5. NotesTypeOK'
  BY <1>1 DEF NotesTypeOK
<1>6. SavesOK'
  <2>1. ASSUME NEW u \in Saves
        PROVE  /\ Queued(<<"create", u>>)' <=> Queued(<<"create", u>>)
               /\ Queued(<<"step", u>>)' <=> Queued(<<"step", u>>) \/ u = s
    BY <1>4 DEF Queued
  <2>2. UNCHANGED <<cancel, phase, outcome>> /\ SavesOK /\ st[s] = "waiting"
    BY <1>1
  <2>3. QED  BY <1>3, <2>1, <2>2 DEF SavesOK
<1>7. InTurn' /\ UpdatesOK'
  BY <1>1, <1>3, StillInTurn
<1>8. ASSUME NEW k \in WithData, last' = k
      PROVE  Created(k)' /\ Follows(SaveOf[k])' /\ Ends(k)'
  <2> DEFINE t == SaveOf[k]
  <2>1. Created(k) /\ Follows(t) /\ Ends(k) /\ t \in Saves
    BY <1>1, <1>8, NoteFacts DEF LastOK
  <2>2. \A j \in WithData : Created(j)' <=> Created(j)
    BY <1>1, <1>3, NoteFacts DEF Created
  <2> HIDE DEF t
  <2>3. (Listed(t) => Last(itemTasks[Doc]) = t)'
    BY <1>1, <2>1 DEF Follows, Listed
  <2>4. ASSUME NEW u \in Saves \ {t}, GoesOn(u)'
        PROVE  /\ outcome'[t] # "ok"
               /\ GoesOn(t)' =>
                    \/ phase'[t] = "new" /\ (phase'[u] = "new" => Sooner(u, t)')
                    \/ phase'[t] = "body" /\ phase'[u] = "body" /\ st'[t] = "waiting"
                    \/ phase'[t] = "body" /\ phase'[u] = "body" /\ Sooner(u, t)'
    <3>1. GoesOn(u) /\ (GoesOn(t)' => GoesOn(t))
      BY <1>1, <1>3, <2>1, <2>4 DEF GoesOn, Running
    <3>2. outcome[t] # "ok"
      BY <2>1, <3>1 DEF Follows
    <3>3. Sooner(u, t) => Sooner(u, t)'
      BY <1>4, <2>1
    <3>4. ASSUME GoesOn(t), t = s PROVE Sooner(u, t)'
      <4>1. Listed(t) /\ Listed(u) /\ ItemOf[t] = Doc /\ ItemOf[u] = Doc
        BY <1>1, <2>1, <3>1, <3>4, NoteFacts DEF IInv, RunningListed, GoesOn
      <4>2. Last(itemTasks[Doc]) = t /\ itemTasks[Doc] \in Seq(Task)
        BY <1>1, <2>1, <4>1, NoteFacts DEF Follows, IInv, TypeOK
      <4>3. PICK i \in DOMAIN itemTasks[Doc] : itemTasks[Doc][i] = u
        BY <4>1 DEF Listed, ToSet
      <4>4. /\ Len(itemTasks[Doc]) \in Nat
            /\ DOMAIN itemTasks[Doc] = 1 .. Len(itemTasks[Doc])
            /\ itemTasks[Doc][Len(itemTasks[Doc])] = t
        BY <4>2, LenProperties DEF Last
      <4>5. i < Len(itemTasks[Doc])
        BY <4>3, <4>4
      <4>6. st[u] # "waiting"
        BY <3>4, <4>3, <4>4, <4>5 DEF SleepEnds
      <4>7. Queued(<<"step", u>>)
        BY <1>1, <3>1, <4>6 DEF SavesOK, GoesOn, Running
      <4>8. QED  BY <1>4, <3>4, <4>7
    <3>5. ASSUME GoesOn(t), t = s PROVE phase[t] = "body" /\ phase[u] = "body"
      <4>1. phase[t] = "body"
        BY <1>1, <3>5 DEF SavesOK
      <4>2. QED  BY <2>1, <3>1, <3>5, <4>1 DEF Follows
    <3>6. CASE t = s
      BY <1>1, <3>1, <3>2, <3>4, <3>5, <3>6
    <3>7. CASE t # s
      BY <1>1, <1>3, <2>1, <3>1, <3>2, <3>3, <3>7 DEF Follows
    <3>8. QED  BY <3>6, <3>7
  <2>5. Follows(t)'
    BY <2>3, <2>4 DEF Follows
  <2>6. Ends(k)'
    BY <1>1, <2>1, <2>2 DEF Ends, Busy
  <2>7. QED  BY <2>1, <2>2, <2>5, <2>6 DEF t
<1>9. LastOK'
  BY <1>1, <1>8 DEF LastOK
<1>10. QED  BY <1>2, <1>5, <1>6, <1>7, <1>9 DEF NotesInv

LEMMA LeaveNotes ==
  ASSUME NoteAssumption, NotesInv, NEW s \in Sids, Leave(s)
  PROVE  NotesInv'
<1>1. /\ IInv /\ SavesOK /\ UpdatesOK /\ LastOK /\ InTurn /\ NotesTypeOK
      /\ left' = left \cup {s}
      /\ UNCHANGED <<vars, note, last, crossed, bare>>
  BY DEF NotesInv, Leave
<1>2. UNCHANGED <<st, cancel, phase, outcome, tasks, itemTasks, ready, pc, job, cur, idx, live, result, asked>>
  BY <1>1 DEF vars, stopVars
<1>3. IInv'
  BY <1>1, NextIInv
<1>4. NotesTypeOK' /\ SavesOK'
  BY <1>1, <1>2 DEF NotesTypeOK, SavesOK, Queued
<1>5. InTurn' /\ UpdatesOK'
  BY <1>1, <1>2, StillInTurn
<1>6. ASSUME NEW k \in WithData, last' = k
      PROVE  Created(k)' /\ Follows(SaveOf[k])' /\ Ends(k)'
  <2>1. Created(k) /\ Follows(SaveOf[k]) /\ Ends(k)
    BY <1>1, <1>6 DEF LastOK
  <2>2. \A j \in WithData : Created(j)' <=> Created(j)
    BY <1>2 DEF Created
  <2>3. Follows(SaveOf[k])'
    BY <1>2, <2>1 DEF Follows, Listed, GoesOn, Running, Sooner
  <2>4. Ends(k)'
    BY <1>1, <1>2, <2>1, <2>2 DEF Ends, Busy
  <2>5. QED  BY <2>1, <2>2, <2>3, <2>4
<1>7. LastOK'
  BY <1>1, <1>6 DEF LastOK
<1>8. QED  BY <1>3, <1>4, <1>5, <1>7 DEF NotesInv

LEMMA StepCancelledNotes ==
  ASSUME NoteAssumption, NotesInv, NEW s \in Saves, StepCancelled(s), UNCHANGED noteVars
  PROVE  NotesInv'
<1>1. /\ IInv /\ SavesOK /\ UpdatesOK /\ LastOK /\ InTurn /\ NotesTypeOK
      /\ AtHead("step", s) /\ cancel[s] /\ cancel' = [cancel EXCEPT ![s] = FALSE]
      /\ Finish(s, "cancelled")
      /\ UNCHANGED <<phase, tasks, itemTasks, pc, note, left, last, crossed, bare>>
  <2>1. s \notin Chats
    BY DEF NoteAssumption
  <2>2. QED  BY <2>1 DEF NotesInv, StepCancelled, registry, stopVars, noteVars
<1>2. s \in Task /\ IInv'
  BY <1>1, NoteFacts, StepIInv
<1>3. \A u \in Saves : /\ st'[u] = IF u = s THEN "done" ELSE st[u]
                       /\ cancel'[u] = IF u = s THEN FALSE ELSE cancel[u]
                       /\ outcome'[u] = IF u = s THEN "cancelled" ELSE outcome[u]
  BY <1>1, NoteFacts DEF IInv, TypeOK, Finish
<1>4. /\ st[s] = "ready"
      /\ \A u \in Saves : u # s /\ Queued(<<"step", u>>) => Queued(<<"step", u>>)'
      /\ \A u \in Saves : Queued(<<"create", u>>)' => Queued(<<"create", u>>)
      /\ \A u, v \in Saves : u # s /\ Sooner(u, v) => Sooner(u, v)'
  BY <1>1, <1>2, NoteFacts, StepQueue
<1>5. NotesTypeOK'
  BY <1>1 DEF NotesTypeOK
<1>6. SavesOK'
  BY <1>1, <1>3, <1>4 DEF SavesOK
<1>7. InTurn' /\ UpdatesOK'
  BY <1>1, <1>3, <1>4, StillInTurn
<1>8. ASSUME NEW k \in WithData, last' = k
      PROVE  Created(k)' /\ Follows(SaveOf[k])' /\ Ends(k)'
  <2> DEFINE t == SaveOf[k]
  <2>1. Created(k) /\ Follows(t) /\ Ends(k) /\ t \in Saves
    BY <1>1, <1>8, NoteFacts DEF LastOK
  <2>2. \A j \in WithData : Created(j)' <=> Created(j)
    BY <1>3, <1>4, NoteFacts DEF Created
  <2> HIDE DEF t
  <2>3. (Listed(t) => Last(itemTasks[Doc]) = t)'
    BY <1>1, <2>1 DEF Follows, Listed
  <2>4. ASSUME NEW u \in Saves \ {t}, GoesOn(u)'
        PROVE  /\ outcome'[t] # "ok"
               /\ GoesOn(t)' =>
                    \/ phase'[t] = "new" /\ (phase'[u] = "new" => Sooner(u, t)')
                    \/ phase'[t] = "body" /\ phase'[u] = "body" /\ st'[t] = "waiting"
                    \/ phase'[t] = "body" /\ phase'[u] = "body" /\ Sooner(u, t)'
    <3>1. u # s /\ GoesOn(u) /\ (GoesOn(t)' => t # s /\ GoesOn(t))
      BY <1>3, <2>1, <2>4 DEF GoesOn, Running
    <3>2. outcome'[t] # "ok"
      BY <1>3, <2>1, <3>1 DEF Follows
    <3>3. Sooner(u, t) => Sooner(u, t)'
      BY <1>4, <2>1, <3>1
    <3>4. QED  BY <1>1, <1>3, <2>1, <3>1, <3>2, <3>3 DEF Follows
  <2>5. Follows(t)'
    BY <2>3, <2>4 DEF Follows
  <2>6. Ends(k)'
    BY <1>1, <1>3, <2>1, <2>2 DEF Ends, Busy, t
  <2>7. QED  BY <2>1, <2>2, <2>5, <2>6 DEF t
<1>9. LastOK'
  BY <1>1, <1>8 DEF LastOK
<1>10. QED  BY <1>2, <1>5, <1>6, <1>7, <1>9 DEF NotesInv

(* Cancelling a save that an update has found.                             *)
LEMMA StopNotes ==
  ASSUME NoteAssumption, NotesInv, IInv', NEW r \in Update, NEW s \in Saves,
         pc[r] = "loop", pc' = [pc EXCEPT ![r] = "await"],
         s \in tasks, st[s] # "done", RequestCancel(s),
         UNCHANGED <<phase, outcome, itemTasks>>, UNCHANGED noteVars
  PROVE  NotesInv'
<1>1. /\ IInv /\ SavesOK /\ UpdatesOK /\ LastOK /\ InTurn /\ NotesTypeOK
      /\ UNCHANGED <<phase, outcome, itemTasks, note, left, last, crossed, bare>>
      /\ \A k \in Update : pc'[k] = IF k = r THEN "await" ELSE pc[k]
  BY DEF NotesInv, noteVars, IInv, TypeOK, Update
<1>2. s \in Task /\ st[s] \in {"ready", "waiting"}
  BY <1>1, NoteFacts DEF IInv, TypeOK, StateOK, Started
<1>3. \A u \in Saves : /\ st'[u] = IF u = s THEN "ready" ELSE st[u]
                       /\ cancel'[u] <=> cancel[u] \/ u = s
  <2>1. \A u \in Task : st'[u] = IF u = s THEN "ready" ELSE st[u]
    BY <1>1, <1>2 DEF IInv, TypeOK, RequestCancel
  <2>2. \A u \in Task : cancel'[u] <=> cancel[u] \/ u = s
    <3>1. cancel' = [cancel EXCEPT ![s] = TRUE] /\ DOMAIN cancel = Task
      BY <1>1 DEF IInv, TypeOK, RequestCancel
    <3>2. cancel'[s] = TRUE /\ \A u \in Task : u # s => cancel'[u] = cancel[u]
      BY <1>2, <3>1
    <3>3. QED  BY <3>2
  <2>3. QED  BY <2>1, <2>2, NoteFacts
<1>4. /\ \A u \in Saves : Queued(<<"step", u>>) => Queued(<<"step", u>>)'
      /\ Queued(<<"step", s>>)'
      /\ \A u \in Saves : Queued(<<"create", u>>)' => Queued(<<"create", u>>)
      /\ \A u, v \in Saves : Sooner(u, v) => Sooner(u, v)'
  <2>1. ready \in Seq(Callback) /\ <<"step", s>> \in Callback
    BY <1>1, <1>2 DEF IInv, TypeOK, Callback
  <2>2. CASE st[s] = "waiting"
    <3>1. ready' = Append(ready, <<"step", s>>)
      BY <2>2 DEF RequestCancel
    <3>2. ToSet(ready') = ToSet(ready) \cup {<<"step", s>>}
      BY <2>1, <3>1, AppendSet
    <3>3. \A a, b : Before(a, b, ready) => Before(a, b, ready')
      BY <2>1, <3>1, AppendBefore
    <3>4. QED  BY <3>2, <3>3 DEF Queued, Sooner
  <2>3. CASE st[s] = "ready"
    <3>1. ready' = ready /\ Queued(<<"step", s>>)
      BY <1>1, <2>3 DEF RequestCancel, SavesOK
    <3>2. QED  BY <3>1 DEF Queued, Sooner
  <2>4. QED  BY <1>2, <2>2, <2>3
<1>5. NotesTypeOK'
  BY <1>1 DEF NotesTypeOK
<1>6. SavesOK'
  BY <1>1, <1>2, <1>3, <1>4 DEF SavesOK
<1>7. InTurn' /\ UpdatesOK'
  BY <1>1, <1>2, <1>3, StillInTurn
<1>8. ASSUME NEW k \in WithData, last' = k
      PROVE  Created(k)' /\ Follows(SaveOf[k])' /\ Ends(k)'
  <2> DEFINE t == SaveOf[k]
  <2>1. Created(k) /\ Follows(t) /\ Ends(k) /\ t \in Saves
    BY <1>1, <1>8, NoteFacts DEF LastOK
  <2>2. \A j \in WithData : Created(j)' <=> Created(j)
    BY <1>2, <1>3, NoteFacts DEF Created
  <2> HIDE DEF t
  <2>3. (Listed(t) => Last(itemTasks[Doc]) = t)'
    BY <1>1, <2>1 DEF Follows, Listed
  <2>4. ASSUME NEW u \in Saves \ {t}, GoesOn(u)'
        PROVE  /\ outcome'[t] # "ok"
               /\ GoesOn(t)' =>
                    \/ phase'[t] = "new" /\ (phase'[u] = "new" => Sooner(u, t)')
                    \/ phase'[t] = "body" /\ phase'[u] = "body" /\ st'[t] = "waiting"
                    \/ phase'[t] = "body" /\ phase'[u] = "body" /\ Sooner(u, t)'
    <3>1. GoesOn(u) /\ (GoesOn(t)' => t # s /\ GoesOn(t))
      BY <1>2, <1>3, <2>1, <2>4 DEF GoesOn, Running
    <3>2. Sooner(u, t) => Sooner(u, t)'
      BY <1>4, <2>1
    <3>3. QED  BY <1>1, <1>3, <2>1, <3>1, <3>2 DEF Follows
  <2>5. Follows(t)'
    BY <2>3, <2>4 DEF Follows
  <2>6. Ends(k)'
    <3>1. bare \/ (r \in WithData /\ pc'[r] # "idle" /\ ~Created(r)')
      BY <1>1, <2>1, <2>2 DEF Ends, Busy, UpdatesOK
    <3>2. \A j \in WithData : pc[j] # "idle" /\ ~Created(j) => pc'[j] # "idle" /\ ~Created(j)'
      BY <1>1, <2>2, NoteFacts
    <3>3. \A j \in Update \ WithData : Busy(j)' => bare'
      BY <1>1, <2>1 DEF Ends, Busy
    <3>4. QED  BY <1>1, <1>3, <2>1, <3>1, <3>2, <3>3 DEF Ends
  <2>7. QED  BY <2>1, <2>2, <2>5, <2>6 DEF t
<1>9. LastOK'
  BY <1>1, <1>8 DEF LastOK
<1>10. QED  BY <1>5, <1>6, <1>7, <1>9 DEF NotesInv

(* A save begins to sleep.                                                 *)
LEMMA FirstStepNotes ==
  ASSUME NoteAssumption, NotesInv, IInv', NEW s \in Saves,
         AtHead("step", s), ~cancel[s], phase[s] = "new",
         phase' = [phase EXCEPT ![s] = "body"], Suspend(s),
         UNCHANGED <<cancel, registry, stopVars>>, UNCHANGED noteVars
  PROVE  NotesInv'
<1>1. /\ IInv /\ SavesOK /\ UpdatesOK /\ LastOK /\ InTurn /\ NotesTypeOK
      /\ UNCHANGED <<cancel, outcome, itemTasks, pc, note, left, last, crossed, bare>>
  BY DEF NotesInv, noteVars, registry, stopVars, Suspend
<1>2. s \in Task
  BY NoteFacts
<1>3. \A u \in Saves : /\ st'[u] = IF u = s THEN "waiting" ELSE st[u]
                       /\ phase'[u] = IF u = s THEN "body" ELSE phase[u]
  BY <1>1, NoteFacts DEF IInv, TypeOK, Suspend
<1>4. /\ st[s] = "ready"
      /\ \A u \in Saves : u # s /\ Queued(<<"step", u>>) => Queued(<<"step", u>>)'
      /\ \A u \in Saves : Queued(<<"create", u>>)' => Queued(<<"create", u>>)
      /\ \A u, v \in Saves : u # s /\ Sooner(u, v) => Sooner(u, v)'
      /\ \A u \in Saves : ~Sooner(u, s)
  BY <1>1, <1>2, NoteFacts, StepQueue
<1>5. NotesTypeOK'
  BY <1>1 DEF NotesTypeOK
<1>6. SavesOK'
  <2>1. ASSUME NEW u \in Saves
        PROVE  (/\ ~Queued(<<"create", u>>) /\ phase[u] # "handling"
                /\ st[u] = "none" => ~cancel[u] /\ phase[u] = "new"
                /\ st[u] = "waiting" => phase[u] = "body"
                /\ st[u] = "ready" => Queued(<<"step", u>>)
                /\ st[u] # "done" => outcome[u] = "none")'
    <3>1. CASE u = s
      BY <1>1, <1>3, <1>4, <3>1 DEF SavesOK
    <3>2. CASE u # s
      BY <1>1, <1>3, <1>4, <3>2 DEF SavesOK
    <3>3. QED  BY <3>1, <3>2
  <2>2. QED  BY <2>1 DEF SavesOK
<1>7. InTurn' /\ UpdatesOK'
  BY <1>1, <1>3, <1>4, StillInTurn
<1>8. ASSUME NEW k \in WithData, last' = k
      PROVE  Created(k)' /\ Follows(SaveOf[k])' /\ Ends(k)'
  <2> DEFINE t == SaveOf[k]
  <2>1. Created(k) /\ Follows(t) /\ Ends(k) /\ t \in Saves
    BY <1>1, <1>8, NoteFacts DEF LastOK
  <2>2. \A j \in WithData : Created(j)' <=> Created(j)
    BY <1>3, <1>4, NoteFacts DEF Created
  <2> HIDE DEF t
  <2>3. (Listed(t) => Last(itemTasks[Doc]) = t)'
    BY <1>1, <2>1 DEF Follows, Listed
  <2>4. ASSUME NEW u \in Saves \ {t}, GoesOn(u)'
        PROVE  /\ outcome'[t] # "ok"
               /\ GoesOn(t)' =>
                    \/ phase'[t] = "new" /\ (phase'[u] = "new" => Sooner(u, t)')
                    \/ phase'[t] = "body" /\ phase'[u] = "body" /\ st'[t] = "waiting"
                    \/ phase'[t] = "body" /\ phase'[u] = "body" /\ Sooner(u, t)'
    <3>1. GoesOn(u) /\ (GoesOn(t)' => GoesOn(t))
      BY <1>1, <1>3, <1>4, <2>1, <2>4 DEF GoesOn, Running
    <3>2. outcome'[t] # "ok"
      BY <1>1, <2>1, <3>1 DEF Follows
    <3>3. CASE t = s
      <4>1. GoesOn(t) => phase[u] # "new"
        BY <1>4, <2>1, <3>1, <3>3 DEF Follows
      <4>2. phase[u] \in {"new", "body", "handling"}
        BY <1>1, NoteFacts DEF IInv, TypeOK
      <4>3. phase[u] # "handling"
        BY <1>1 DEF SavesOK
      <4>4. QED  BY <1>3, <3>1, <3>2, <3>3, <4>1, <4>2, <4>3
    <3>4. CASE u = s
      BY <1>1, <1>3, <2>1, <3>1, <3>2, <3>4 DEF Follows
    <3>5. CASE u # s /\ t # s
      <4>1. Sooner(u, t) => Sooner(u, t)'
        BY <1>4, <2>1, <3>5
      <4>2. QED  BY <1>1, <1>3, <2>1, <3>1, <3>2, <3>5, <4>1 DEF Follows
    <3>6. QED  BY <3>3, <3>4, <3>5
  <2>5. Follows(t)'
    BY <2>3, <2>4 DEF Follows
  <2>6. Ends(k)'
    BY <1>1, <2>1, <2>2 DEF Ends, Busy
  <2>7. QED  BY <2>1, <2>2, <2>5, <2>6 DEF t
<1>9. LastOK'
  BY <1>1, <1>8 DEF LastOK
<1>10. QED  BY <1>5, <1>6, <1>7, <1>9 DEF NotesInv

(* A save wakes up and writes, or finds that its author has left.          *)
LEMMA LastStepNotes ==
  ASSUME NoteAssumption, NotesInv, IInv', NEW s \in Saves,
         AtHead("step", s), ~cancel[s], phase[s] = "body",
         NEW how \in {"ok", "error"}, Finish(s, how),
         how = "ok" => note' = UpdateOf(s),
         how = "error" => SidOf[UpdateOf(s)] \in left /\ UNCHANGED note,
         UNCHANGED <<cancel, phase, registry, stopVars>>,
         UNCHANGED <<left, last, crossed, bare>>
  PROVE  NotesInv'
<1>1. /\ IInv /\ SavesOK /\ UpdatesOK /\ LastOK /\ InTurn /\ NotesTypeOK
      /\ UNCHANGED <<cancel, phase, itemTasks, pc, left, last, crossed, bare>>
  BY DEF NotesInv, registry, stopVars
<1>2. s \in Task
  BY NoteFacts
<1>3. \A u \in Saves : /\ st'[u] = IF u = s THEN "done" ELSE st[u]
                       /\ outcome'[u] = IF u = s THEN how ELSE outcome[u]
  BY <1>1, NoteFacts DEF IInv, TypeOK, Finish
<1>4. /\ st[s] = "ready"
      /\ \A u \in Saves : u # s /\ Queued(<<"step", u>>) => Queued(<<"step", u>>)'
      /\ \A u \in Saves : Queued(<<"create", u>>)' => Queued(<<"create", u>>)
      /\ \A u, v \in Saves : u # s /\ Sooner(u, v) => Sooner(u, v)'
      /\ \A u \in Saves : ~Sooner(u, s)
  BY <1>1, <1>2, NoteFacts, StepQueue
<1>5. NotesTypeOK'
  <2>1. UpdateOf(s) \in 0 .. Cardinality(Update)
    BY UpdateOfSave, NoteFacts
  <2>2. note' \in 0 .. Cardinality(Update)
    BY <1>1, <2>1 DEF NotesTypeOK
  <2>3. QED  BY <1>1, <2>2 DEF NotesTypeOK
<1>6. SavesOK'
  BY <1>1, <1>3, <1>4 DEF SavesOK
<1>7. InTurn' /\ UpdatesOK'
  BY <1>1, <1>3, <1>4, StillInTurn
<1>8. ASSUME NEW k \in WithData, last' = k
      PROVE  Created(k)' /\ Follows(SaveOf[k])' /\ Ends(k)'
  <2> DEFINE t == SaveOf[k]
  <2>1. Created(k) /\ Follows(t) /\ Ends(k) /\ t \in Saves
    BY <1>1, <1>8, NoteFacts DEF LastOK
  <2>2. \A j \in WithData : Created(j)' <=> Created(j)
    BY <1>3, <1>4, NoteFacts DEF Created
  <2>3. t = s => UpdateOf(s) = k
    BY UpdateOfSave
  <2> HIDE DEF t
  <2>4. GoesOn(s)
    BY <1>4 DEF GoesOn, Running
  <2>5. (Listed(t) => Last(itemTasks[Doc]) = t)'
    BY <1>1, <2>1 DEF Follows, Listed
  <2>6. ASSUME NEW u \in Saves \ {t}, GoesOn(u)'
        PROVE  /\ outcome'[t] # "ok"
               /\ GoesOn(t)' =>
                    \/ phase'[t] = "new" /\ (phase'[u] = "new" => Sooner(u, t)')
                    \/ phase'[t] = "body" /\ phase'[u] = "body" /\ st'[t] = "waiting"
                    \/ phase'[t] = "body" /\ phase'[u] = "body" /\ Sooner(u, t)'
    <3>1. u # s /\ GoesOn(u) /\ (GoesOn(t)' => t # s /\ GoesOn(t))
      BY <1>1, <1>3, <2>1, <2>6 DEF GoesOn, Running
    <3>2. t # s
      <4>1. ASSUME t = s PROVE FALSE
        BY <1>4, <2>1, <2>4, <3>1, <4>1 DEF Follows
      <4>2. QED  BY <4>1
    <3>3. Sooner(u, t) => Sooner(u, t)'
      BY <1>4, <2>1, <3>1
    <3>4. QED  BY <1>1, <1>3, <2>1, <3>1, <3>2, <3>3 DEF Follows
  <2>7. Follows(t)'
    BY <2>5, <2>6 DEF Follows
  <2>8. Ends(k)'
    <3>1. CASE t = s
      <4>1. outcome'[t] = how /\ ~cancel'[t]
        BY <1>1, <1>3, <2>1, <3>1
      <4>2. /\ outcome'[t] = "ok" => note' = k
            /\ outcome'[t] = "error" => SidOf[k] \in left'
        BY <1>1, <2>3, <3>1, <4>1
      <4>3. \A j \in Update \ WithData : Busy(j)' => bare'
        BY <1>1, <2>1 DEF Ends, Busy
      <4>4. QED  BY <4>1, <4>2, <4>3 DEF Ends, t
    <3>2. CASE t # s
      <4>1. outcome'[t] = outcome[t] /\ outcome[t] # "ok"
        BY <1>3, <2>1, <2>4, <3>2 DEF Follows
      <4>2. QED  BY <1>1, <2>1, <2>2, <4>1 DEF Ends, Busy, t
    <3>3. QED  BY <3>1, <3>2
  <2>9. QED  BY <2>1, <2>2, <2>7, <2>8 DEF t
<1>9. LastOK'
  BY <1>1, <1>8 DEF LastOK
<1>10. QED  BY <1>5, <1>6, <1>7, <1>9 DEF NotesInv

LEMMA SaveStepNotes ==
  ASSUME NoteAssumption, NotesInv, NEW s \in Saves, SaveStep(s)
  PROVE  NotesInv'
<1>1. s \in Task /\ s \notin Chats /\ IInv
  BY NoteFacts DEF NotesInv, NoteAssumption
<1>2. IInv'
  BY <1>1, StepIInv DEF SaveStep
<1>3. /\ AtHead("step", s) /\ ~cancel[s]
      /\ UNCHANGED <<cancel, registry, stopVars>> /\ UNCHANGED <<left, last, crossed, bare>>
  BY DEF SaveStep, StepNormally
<1>4. CASE phase[s] = "new" /\ UNCHANGED note
  <2>1. phase' = [phase EXCEPT ![s] = "body"] /\ Suspend(s)
    BY <1>1, <1>4 DEF SaveStep, StepNormally
  <2>2. UNCHANGED noteVars
    BY <1>3, <1>4 DEF noteVars
  <2>3. QED  BY <1>2, <1>3, <1>4, <2>1, <2>2, FirstStepNotes
<1>5. ASSUME phase[s] = "body"
      PROVE  /\ phase' = phase
             /\ \E how \in {"ok", "error"} : Finish(s, how)
  BY <1>1, <1>5 DEF SaveStep, StepNormally
<1>6. \A how : Finish(s, how) => outcome'[s] = how
  BY <1>1 DEF Finish, IInv, TypeOK
<1>7. CASE /\ phase[s] = "body" /\ SidOf[UpdateOf(s)] \notin left
           /\ outcome'[s] = "ok" /\ note' = UpdateOf(s)
  <2>1. phase' = phase /\ Finish(s, "ok")
    BY <1>5, <1>6, <1>7
  <2>2. QED  BY <1>2, <1>3, <1>7, <2>1, LastStepNotes
<1>8. CASE /\ phase[s] = "body" /\ SidOf[UpdateOf(s)] \in left
           /\ outcome'[s] = "error" /\ UNCHANGED note
  <2>1. phase' = phase /\ Finish(s, "error")
    BY <1>5, <1>6, <1>8
  <2>2. QED  BY <1>2, <1>3, <1>8, <2>1, LastStepNotes
<1>9. QED  BY <1>4, <1>7, <1>8 DEF SaveStep

(* The queue when something else than a step is taken from it.             *)
LEMMA OtherQueue ==
  ASSUME IInv, NEW kind, NEW x, AtHead(kind, x), kind # "step", NEW q,
         q = Tail(ready) \/ \E t \in Task : q = Append(Tail(ready), <<"cleanup", t>>)
  PROVE  /\ \A t \in Task : Queued(<<"step", t>>) => <<"step", t>> \in ToSet(q)
         /\ \A t \in Task : <<"create", t>> \in ToSet(q) => Queued(<<"create", t>>)
         /\ \A t, u \in Task : Sooner(t, u) => Before(<<"step", t>>, <<"step", u>>, q)
<1>1. /\ ready \in Seq(Callback) /\ ready # <<>> /\ Head(ready) = <<kind, x>>
      /\ Tail(ready) \in Seq(Callback)
      /\ ToSet(Tail(ready)) = ToSet(ready) \ {<<kind, x>>}
  BY TakeHead DEF IInv, TypeOK, QueueOK, AtHead
<1>2. \A t, u \in Task : Sooner(t, u) => Before(<<"step", t>>, <<"step", u>>, Tail(ready))
  <2> SUFFICES ASSUME NEW t \in Task, NEW u \in Task, Sooner(t, u)
               PROVE  Before(<<"step", t>>, <<"step", u>>, Tail(ready))
    OBVIOUS
  <2>1. <<"step", t>> # Head(ready)
    BY <1>1
  <2>2. Before(<<"step", t>>, <<"step", u>>, ready)
    BY DEF Sooner
  <2>3. ready \in Seq(Callback) /\ ready # <<>>
    BY <1>1
  <2>4. QED  BY <2>1, <2>2, <2>3, TailBefore
<1>3. CASE q = Tail(ready)
  BY <1>1, <1>2, <1>3 DEF Queued
<1>4. ASSUME NEW t \in Task, q = Append(Tail(ready), <<"cleanup", t>>)
      PROVE  /\ \A v \in Task : Queued(<<"step", v>>) => <<"step", v>> \in ToSet(q)
             /\ \A v \in Task : <<"create", v>> \in ToSet(q) => Queued(<<"create", v>>)
             /\ \A v, u \in Task : Sooner(v, u) => Before(<<"step", v>>, <<"step", u>>, q)
  <2>1. <<"cleanup", t>> \in Callback /\ Tail(ready) \in Seq(Callback)
    BY <1>1 DEF Callback
  <2>2. ToSet(q) = ToSet(Tail(ready)) \cup {<<"cleanup", t>>}
    BY <1>4, <2>1, AppendSet
  <2>3. \A a, b : Before(a, b, Tail(ready)) => Before(a, b, q)
    BY <1>4, <2>1, AppendBefore
  <2>4. QED  BY <1>1, <1>2, <2>2, <2>3 DEF Queued
<1>5. QED  BY <1>3, <1>4

LEMMA TaskRegistryNotes ==
  ASSUME NoteAssumption, NotesInv, NEW s \in Saves, Reap(s) \/ CleanupTask(s), UNCHANGED noteVars
  PROVE  NotesInv'
<1>1. IInv /\ s \in Task /\ \A t \in Saves : t \in Task
  BY NoteFacts DEF NotesInv
<1>2. IInv'
  BY <1>1, ReapIInv, CleanupTaskIInv
<1>3. UNCHANGED <<taskVars, pc>> /\ UNCHANGED <<taskVars, noteVars>>
  BY DEF Reap, CleanupTask, stopVars
<1>4. /\ \A t \in Task : Queued(<<"step", t>>) => Queued(<<"step", t>>)'
      /\ \A t \in Task : Queued(<<"create", t>>)' => Queued(<<"create", t>>)
      /\ \A t, u \in Task : Sooner(t, u) => Sooner(t, u)'
  <2>1. CASE Reap(s)
    <3>1. AtHead("reap", s) /\ ready' = Append(Tail(ready), <<"cleanup", s>>)
      BY <2>1 DEF Reap
    <3>2. QED  BY <1>1, <3>1, OtherQueue DEF Queued, Sooner
  <2>2. CASE CleanupTask(s)
    <3>1. AtHead("cleanup", s) /\ ready' = Tail(ready)
      BY <2>2 DEF CleanupTask
    <3>2. QED  BY <1>1, <3>1, OtherQueue DEF Queued, Sooner
  <2>3. QED  BY <2>1, <2>2
<1>5. ASSUME NEW t \in Saves, Listed(t) => Last(itemTasks[Doc]) = t
      PROVE  (Listed(t) => Last(itemTasks[Doc]) = t)'
  <2>1. CASE Reap(s)
    BY <1>5, <2>1 DEF Reap, registry, Listed
  <2>2. CASE CleanupTask(s)
    <3>1. /\ ItemOf[t] = Doc /\ ItemOf[s] = Doc /\ Doc \in Item
          /\ itemTasks[Doc] \in Seq(Task) /\ IsInjective(itemTasks[Doc])
      BY <1>1, NoteFacts DEF IInv, TypeOK, RunningListed
    <3>2. itemTasks'[Doc] = RemoveFirst(itemTasks[Doc], s)
      BY <1>1, <2>2, <3>1 DEF CleanupTask, IInv, TypeOK
    <3>3. ToSet(itemTasks'[Doc]) = ToSet(itemTasks[Doc]) \ {s}
      BY <3>1, <3>2, RemoveFirstSet
    <3>4. ASSUME t \in ToSet(itemTasks'[Doc]) PROVE Last(itemTasks'[Doc]) = t
      <4>1. t # s /\ t \in ToSet(itemTasks[Doc]) /\ Last(itemTasks[Doc]) = t
        BY <1>5, <3>1, <3>3, <3>4 DEF Listed
      <4>2. itemTasks[Doc] # <<>>
        BY <4>1 DEF ToSet
      <4>3. QED  BY <3>1, <3>2, <4>1, <4>2, RemoveFirstLast
    <3>5. QED  BY <3>1, <3>4 DEF Listed
  <2>3. QED  BY <2>1, <2>2
<1>6. QED  BY <1>1, <1>2, <1>3, <1>4, <1>5, QuietNotes

LEMMA StopRegistryNotes ==
  ASSUME NoteAssumption, NotesInv, NEW k \in Update, StopCallback(k), UNCHANGED noteVars
  PROVE  NotesInv'
<1>1. IInv /\ k \in Stopper /\ \A t \in Saves : t \in Task
  BY NoteFacts DEF NotesInv, Update
<1>2. IInv'
  BY <1>1, BeginStopIInv, WakeStopIInv, StopLoopIInv DEF StopCallback
<1>3. CASE /\ Busy(k) /\ pc'[k] # "idle" /\ \A j \in Update : j # k => pc'[j] = pc[j]
           /\ UNCHANGED <<taskVars, itemTasks>>
           /\ ready' = ready \/ \E kind \in {"stop", "wake"} : AtHead(kind, k) /\ ready' = Tail(ready)
  <2>1. /\ \A t \in Task : Queued(<<"step", t>>) => Queued(<<"step", t>>)'
        /\ \A t \in Task : Queued(<<"create", t>>)' => Queued(<<"create", t>>)
        /\ \A t, u \in Task : Sooner(t, u) => Sooner(t, u)'
    <3>1. CASE ready' = ready
      BY <3>1 DEF Queued, Sooner
    <3>2. ASSUME NEW kind \in {"stop", "wake"}, AtHead(kind, k), ready' = Tail(ready)
          PROVE  /\ \A t \in Task : Queued(<<"step", t>>) => Queued(<<"step", t>>)'
                 /\ \A t \in Task : Queued(<<"create", t>>)' => Queued(<<"create", t>>)
                 /\ \A t, u \in Task : Sooner(t, u) => Sooner(t, u)'
      BY <1>1, <3>2, OtherQueue DEF Queued, Sooner
    <3>3. QED  BY <1>3, <3>1, <3>2
  <2>2. \A t \in Saves : (Listed(t) => Last(itemTasks[Doc]) = t)
                            => (Listed(t) => Last(itemTasks[Doc]) = t)'
    BY <1>3 DEF Listed
  <2>3. UNCHANGED <<taskVars, noteVars>>
    BY <1>3
  <2>4. QED  BY <1>1, <1>2, <1>3, <2>1, <2>2, <2>3, QuietNotes
<1>4. CASE BeginStop(k)
  <2>1. pc[k] = "queued"
    BY <1>1, <1>4, TakeHead DEF BeginStop, IInv, QueueOK, StopQueueOK
  <2>2. /\ pc'[k] \in {"loop", "returned"} /\ \A j \in Update : j # k => pc'[j] = pc[j]
        /\ AtHead("stop", k) /\ ready' = Tail(ready) /\ UNCHANGED <<taskVars, itemTasks>>
    BY <1>1, <1>4 DEF BeginStop, Return, IInv, TypeOK, registry, Update
  <2>3. QED  BY <1>3, <2>1, <2>2 DEF Busy
<1>5. CASE WakeStop(k)
  <2>1. pc[k] = "await"
    BY <1>1, <1>5, TakeHead DEF WakeStop, IInv, QueueOK, StopQueueOK
  <2>2. /\ pc'[k] \in {"loop", "returned"} /\ \A j \in Update : j # k => pc'[j] = pc[j]
        /\ AtHead("wake", k) /\ ready' = Tail(ready) /\ UNCHANGED <<taskVars, itemTasks>>
    BY <1>1, <1>5 DEF WakeStop, Report, Return, IInv, TypeOK, registry, Update
  <2>3. QED  BY <1>3, <2>1, <2>2 DEF Busy
<1>6. CASE StopExhausted(k)
  <2>1. /\ pc[k] = "loop" /\ pc'[k] = "returned" /\ \A j \in Update : j # k => pc'[j] = pc[j]
        /\ ready' = ready /\ UNCHANGED <<taskVars, itemTasks>>
    BY <1>1, <1>6 DEF StopExhausted, Return, IInv, TypeOK, registry, Update
  <2>2. QED  BY <1>3, <2>1 DEF Busy
<1>7. ASSUME NEW t, pc[k] = "loop", StopTask(k, t)
      PROVE  NotesInv'
  <2>1. UNCHANGED <<phase, outcome, itemTasks>>
    BY <1>7 DEF StopTask
  <2>2. CASE ~(t \in tasks /\ st[t] # "done")
    <3>1. /\ pc'[k] \in {"loop", "returned"} /\ \A j \in Update : j # k => pc'[j] = pc[j]
          /\ ready' = ready /\ UNCHANGED <<st, cancel>>
      BY <1>1, <1>7, <2>2 DEF StopTask, Report, Return, IInv, TypeOK, Update
    <3>2. UNCHANGED <<taskVars, itemTasks>>
      BY <2>1, <3>1 DEF taskVars
    <3>3. QED  BY <1>3, <1>7, <3>1, <3>2 DEF Busy
  <2>3. CASE t \in tasks /\ st[t] # "done"
    <3>1. t \in Saves
      BY <1>1, <2>3, NoteFacts DEF IInv, TypeOK
    <3>2. RequestCancel(t) /\ pc' = [pc EXCEPT ![k] = "await"]
      BY <1>7, <2>3 DEF StopTask
    <3>3. QED  BY <1>2, <1>7, <2>1, <2>3, <3>1, <3>2, StopNotes
  <2>4. QED  BY <2>2, <2>3
<1>8. CASE StopOne(k)
  BY <1>7, <1>8 DEF StopOne
<1>9. CASE StopNext(k)
  BY <1>7, <1>9 DEF StopNext
<1>10. QED  BY <1>4, <1>5, <1>6, <1>8, <1>9 DEF StopCallback

LEMMA InitNotes == NoteAssumption /\ NotesInit => NotesInv
<1> SUFFICES ASSUME NoteAssumption, NotesInit PROVE NotesInv
  OBVIOUS
<1>1. IInv
  BY InitIInv DEF NotesInit
<1>2. NotesTypeOK
  <2>1. Cardinality(Update) \in Nat
    BY FS_CardinalityType DEF NoteAssumption
  <2>2. note \in 0..Cardinality(Update) /\ last \in 0..Cardinality(Update)
    BY <2>1 DEF NotesInit
  <2>3. left = {} /\ crossed = FALSE /\ bare = FALSE
    BY DEF NotesInit
  <2>4. QED  BY <2>2, <2>3 DEF NotesTypeOK
<1>3. ToSet(ready) = {} /\ \A t \in Saves : t \in Task
  BY NoteFacts DEF NotesInit, Init, ToSet
<1>4. SavesOK
  BY <1>3 DEF NotesInit, Init, SavesOK, Queued
<1>5. \A k \in WithData : ~Created(k)
  BY NoteFacts DEF NotesInit, Init, Created
<1>6. UpdatesOK
  BY <1>5 DEF UpdatesOK
<1>7. LastOK
  <2>1. 0 \notin WithData
    BY NoteFacts
  <2>2. QED  BY <2>1 DEF NotesInit, LastOK
<1>8. InTurn
  <2>1. Received = {}
    BY DEF NotesInit, Init, Received, Update
  <2>2. QED  BY <1>5, <2>1 DEF NotesInit, InTurn
<1>9. QED  BY <1>1, <1>2, <1>4, <1>6, <1>7, <1>8 DEF NotesInv

LEMMA NextNotes == NoteAssumption /\ NotesInv /\ [NotesNext]_allVars => NotesInv'
<1> SUFFICES ASSUME NoteAssumption, NotesInv, [NotesNext]_allVars PROVE NotesInv'
  OBVIOUS
<1>1. ASSUME NEW k \in Update, Receive(k) \/ StartSave(k) PROVE NotesInv'
  BY <1>1, ReceiveNotes, StartSaveNotes
<1>2. ASSUME NEW t \in Saves, SleepEnds(t) \/ SaveStep(t) PROVE NotesInv'
  BY <1>2, SleepEndsNotes, SaveStepNotes
<1>3. ASSUME NEW s \in Sids, Leave(s) PROVE NotesInv'
  BY <1>3, LeaveNotes
<1>4. CASE Registry
  BY <1>4, TaskRegistryNotes, StepCancelledNotes, StopRegistryNotes DEF Registry
<1>5. CASE UNCHANGED allVars
  <2>1. /\ UNCHANGED <<st, cancel, phase, outcome, tasks, itemTasks, ready>>
        /\ UNCHANGED <<pc, job, cur, idx, live, result, asked>>
        /\ UNCHANGED <<note, left, last, crossed, bare>> /\ UNCHANGED <<vars, noteVars>>
    BY <1>5 DEF allVars, vars, noteVars, stopVars
  <2>2. IInv'
    BY <2>1, NextIInv DEF NotesInv
  <2>3. UNCHANGED <<taskVars, noteVars>>
    BY <2>1 DEF taskVars
  <2>4. QED  BY <2>1, <2>2, <2>3, QuietNotes DEF Queued, Sooner, Listed
<1>6. QED  BY <1>1, <1>2, <1>3, <1>4, <1>5 DEF NotesNext

LEMMA NotesInvariance == ASSUME NoteAssumption PROVE NotesSpec => []NotesInv
<1>1. NotesInit => NotesInv
  BY InitNotes
<1>2. NotesInv /\ [NotesNext]_allVars => NotesInv'
  BY NextNotes
<1>3. QED  BY <1>1, <1>2, PTL DEF NotesSpec

(* While nothing goes on, a save that nobody stops has ended with its      *)
(* content written or its author gone.                                     *)
LEMMA SettledLast ==
  ASSUME NoteAssumption, NotesInv, Settled, last # 0
  PROVE  /\ last \in WithData /\ Created(last)
         /\ bare \/ note = last \/ SidOf[last] \in left
<1> DEFINE t == SaveOf[last]
<1>1. last \in WithData /\ Created(last) /\ Ends(last)
  BY DEF NotesInv, LastOK
<1>2. t \in Saves /\ t \in Task /\ st[t] = "done"
  BY <1>1, NoteFacts DEF Created, Settled
<1>3. outcome[t] \in {"ok", "error", "cancelled"}
  BY <1>2 DEF NotesInv, IInv, TypeOK, StateOK
<1>4. ASSUME outcome[t] = "cancelled"
      PROVE  bare
  <2>1. \A j \in WithData : pc[j] = "idle" \/ Created(j)
    BY NoteFacts DEF Settled, Handled
  <2>2. QED  BY <1>1, <1>4, <2>1 DEF Ends
<1>5. QED  BY <1>1, <1>3, <1>4 DEF Ends

(* Of the saves of a note (debounced_save), the one created last is        *)
(* written and never overwritten by an older one, however many handlers    *)
(* overlap and stop each other's saves: LastCreatedSaved.                  *)
THEOREM LastSaveWins == ASSUME NoteAssumption PROVE NotesSpec => []LastCreatedSaved
<1>1. NotesInv => LastCreatedSaved
  BY SettledLast DEF LastCreatedSaved
<1>2. QED  BY <1>1, NotesInvariance, PTL

(* When every update is handled before the next arrives, the edit that     *)
(* yjs_document_update received last is the one in the database once the   *)
(* editors pause: LatestSaved.                                             *)
THEOREM LastEditSaved == ASSUME NoteAssumption PROVE NotesSpec => []LatestSaved
<1>1. ASSUME NotesInv, Settled, ~crossed, NEW k \in Received \cap WithData,
             \A j \in Received : j <= k
      PROVE  note = k \/ SidOf[k] \in left
  <2>1. k \in Update /\ Update \subseteq Nat /\ Created(k)
    BY <1>1, NoteFacts DEF Settled, Handled, Received
  <2>2. k <= last /\ last # 0 /\ last \in Nat
    BY <1>1, <2>1, NoteFacts DEF NotesInv, InTurn, NotesTypeOK
  <2>3. last \in Received
    <3>1. last \in WithData /\ Created(last)
      BY <1>1, <2>2, SettledLast
    <3>2. pc[last] = "returned"
      BY <1>1, <3>1 DEF NotesInv, UpdatesOK
    <3>3. QED  BY <3>1, <3>2 DEF Received, WithData
  <2>4. last = k
    BY <1>1, <2>1, <2>2, <2>3
  <2>5. ~bare
    <3>1. \A j \in Received : j \in Nat /\ ~(last < j)
      BY <1>1, <2>1, <2>4 DEF Received
    <3>2. QED  BY <1>1, <2>2, <3>1 DEF NotesInv, InTurn
  <2>6. QED  BY <1>1, <2>2, <2>4, <2>5, SettledLast
<1>2. NotesInv => LatestSaved
  BY <1>1 DEF LatestSaved
<1>3. QED  BY <1>2, NotesInvariance, PTL
=============================================================================
