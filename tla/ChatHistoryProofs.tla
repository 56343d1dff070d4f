-------------------------- MODULE ChatHistoryProofs --------------------------
(***************************************************************************)
(* What ChatHistory promises, for every number of questions, answers,      *)
(* requests and models: types; a tree whose two records agree, each        *)
(* question with an answer and the message shown at the end of its branch; *)
(* work on every answer that is not complete; and that it implements       *)
(* MessageTree.  All of it follows from ChatInv, which adds to the         *)
(* properties that going up from a message ends, that questions and        *)
(* answers alternate, that nothing is below a message that is not there or *)
(* below an answer whose request is under way, and what each handler keeps *)
(* while it waits.  DamageInv says besides what a request keeps while it   *)
(* is under way.                                                           *)
(***************************************************************************)
EXTENDS ChatHistory, SequenceTheorems, FiniteSetTheorems, TLAPS

-----------------------------------------------------------------------------
(* Sequences, and the walk of Leaf.  Induction over a set of numbers, from *)
(* the well-foundedness of <, stands for induction over data.              *)

\* Induction for sets of numbers.  (The library's induction theorems are about predicates.)
LEMMA SetInduction ==
  ASSUME NEW S, 0 \in S, \A n \in Nat : n \in S => n + 1 \in S
  PROVE  Nat \subseteq S
<1> DEFINE T == Nat \ S
<1> DEFINE R == OpToRel(<, Nat)
<1>1. SUFFICES ASSUME T # {} PROVE FALSE
  OBVIOUS
<1>2. PICK x \in T : \A y \in T : <<y, x>> \notin R
  <2>1. IsWellFoundedOn(R, Nat)
    BY NatLessThanWellFounded
  <2>2. T \subseteq Nat
    OBVIOUS
  <2> HIDE DEF T, R
  <2> QED BY <2>1, <2>2, <1>1, WFMin
<1> HIDE DEF R
<1>3. x # 0 /\ x - 1 \in Nat /\ x - 1 \notin S
  BY <1>2
<1>4. <<x - 1, x>> \in R
  BY <1>3 DEF OpToRel, R
<1> QED BY <1>2, <1>3, <1>4

\* One step of Leaf: to the last child.
Down(x, below) == IF x \in Id /\ below[x] # <<>> THEN Last(below[x]) ELSE x

\* The steps from x that Leaf takes.
IsPath(d, x, below) ==
  /\ d[0] = x
  /\ \A i \in 1..MaxQuestions + MaxAnswers : d[i] = Down(d[i - 1], below)
  /\ Leaf(x, below) = d[MaxQuestions + MaxAnswers]

\* Leaf goes down from x as often as there are messages.
LEMMA LeafIsPath ==
  ASSUME NEW x, NEW below
  PROVE  \E d : IsPath(d, x, below)
<1> DEFINE N == MaxQuestions + MaxAnswers
<1> DEFINE Path(g, n) == g[0] = x /\ \A i \in 1..n : g[i] = Down(g[i - 1], below)
<1> DEFINE S == {n \in Nat : \E g : Path(g, n)}
<1>0. N \in Nat
  BY HistoryAssumption
<1>1. 0 \in S
  <2>1. Path([i \in {0} |-> x], 0)
    OBVIOUS
  <2> QED BY <2>1
<1>2. ASSUME NEW n \in Nat, n \in S PROVE n + 1 \in S
  <2>1. PICK g : Path(g, n)
    BY <1>2
  <2> DEFINE h == [i \in 0..n + 1 |-> IF i = n + 1 THEN Down(g[n], below) ELSE g[i]]
  <2>2. h[0] = x /\ h[n + 1] = Down(h[n], below)
    <3>1. h[0] = g[0] /\ h[n] = g[n] /\ h[n + 1] = Down(g[n], below)
      <4> HIDE DEF S, Path
      <4> QED OBVIOUS
    <3> QED BY <2>1, <3>1
  <2>3. \A i \in 1..n : h[i] = Down(h[i - 1], below)
    BY <2>1
  <2>4. Path(h, n + 1)
    <3>1. \A i \in 1..n + 1 : i \in 1..n \/ (i = n + 1 /\ i - 1 = n)
      OBVIOUS
    <3> HIDE DEF h
    <3> QED BY <2>2, <2>3, <3>1
  <2> HIDE DEF h, Path
  <2> QED BY <2>4
<1>3. N \in S
  <2> HIDE DEF S, N
  <2> QED BY <1>0, <1>1, <1>2, SetInduction
<1>4. PICK g : Path(g, N)
  BY <1>3
<1> DEFINE Eq(f) == f = [i \in 0..N |-> IF i = 0 THEN x ELSE Down(f[i - 1], below)]
<1>5. Eq([i \in 0..N |-> g[i]])
  BY <1>0, <1>4
<1> DEFINE d == CHOOSE f : Eq(f)
<1>6. Eq(d)
  <2> HIDE DEF Eq
  <2> QED BY <1>5
<1>7. Leaf(x, below) = d[N]
  BY DEF Leaf, Down
<1>8. d[0] = x /\ \A i \in 1..N : d[i] = Down(d[i - 1], below)
  <2> HIDE DEF d
  <2> QED BY <1>6, <1>0
<1> HIDE DEF d
<1> QED BY <1>7, <1>8 DEF IsPath

\* Concatenation, as a name.
Cat(s, t) == s \o t

\* Reading FlattenSeq: the sequences so far, and one more.
LEMMA FlattenIsFold ==
  ASSUME NEW T, NEW s \in Seq(Seq(T)), s # <<>>
  PROVE  \E d : /\ d[1] = s[1]
                /\ \A i \in 2..Len(s) : d[i] = Cat(d[i - 1], s[i])
                /\ FlattenSeq(s) = d[Len(s)]
<1> DEFINE N == Len(s)
<1> DEFINE Fold(g, n) == g[1] = s[1] /\ \A i \in 2..n : g[i] = Cat(g[i - 1], s[i])
<1> DEFINE S == {n \in Nat : \E g : Fold(g, n + 1)}
<1>0. N \in Nat /\ N >= 1
  BY EmptySeq
<1>1. 0 \in S
  <2>1. Fold([i \in {1} |-> s[1]], 0 + 1)
    OBVIOUS
  <2> HIDE DEF Fold
  <2> QED BY <2>1
<1>2. ASSUME NEW n \in Nat, n \in S PROVE n + 1 \in S
  <2>1. PICK g : Fold(g, n + 1)
    BY <1>2
  <2> DEFINE h == [i \in 1..n + 2 |-> IF i = n + 2 THEN Cat(g[n + 1], s[n + 2]) ELSE g[i]]
  <2>2. h[1] = s[1] /\ h[n + 2] = Cat(h[n + 1], s[n + 2])
    <3>1. h[1] = g[1] /\ h[n + 1] = g[n + 1] /\ h[n + 2] = Cat(g[n + 1], s[n + 2])
      <4> HIDE DEF S, Fold
      <4> QED OBVIOUS
    <3> QED BY <2>1, <3>1
  <2>3. \A i \in 2..n + 1 : h[i] = Cat(h[i - 1], s[i])
    <3>1. \A i \in 2..n + 1 : h[i] = g[i] /\ h[i - 1] = g[i - 1]
      <4> HIDE DEF S, Fold
      <4> QED OBVIOUS
    <3> HIDE DEF h
    <3> QED BY <2>1, <3>1
  <2>4. Fold(h, n + 2)
    <3>1. \A i \in 2..n + 2 : i \in 2..n + 1 \/ (i = n + 2 /\ i - 1 = n + 1)
      OBVIOUS
    <3> HIDE DEF h
    <3> QED BY <2>2, <2>3, <3>1
  <2>5. (n + 1) + 1 = n + 2
    OBVIOUS
  <2> HIDE DEF h, Fold
  <2> QED BY <2>4, <2>5
<1>3. N - 1 \in S
  <2> HIDE DEF S, N
  <2>1. Nat \subseteq S
    BY <1>1, <1>2, SetInduction
  <2>2. N - 1 \in Nat
    BY <1>0
  <2> QED BY <2>1, <2>2
<1>4. PICK g : Fold(g, N)
  <2>1. PICK g : Fold(g, N - 1 + 1)
    BY <1>3
  <2>2. N - 1 + 1 = N
    BY <1>0
  <2> QED BY <2>1, <2>2
<1> DEFINE Eq(f) == f = [i \in 1..N |-> IF i = 1 THEN s[i] ELSE Cat(f[i - 1], s[i])]
<1>5. Eq([i \in 1..N |-> g[i]])
  BY <1>0, <1>4
<1> DEFINE d == CHOOSE f : Eq(f)
<1>6. Eq(d)
  <2> HIDE DEF Eq
  <2> QED BY <1>5
<1>7. FlattenSeq(s) = d[N]
  BY <1>0 DEF FlattenSeq, Cat
<1>8. d[1] = s[1] /\ \A i \in 2..N : d[i] = Cat(d[i - 1], s[i])
  <2> HIDE DEF d
  <2>1. \A i \in 1..N : d[i] = IF i = 1 THEN s[i] ELSE Cat(d[i - 1], s[i])
    BY <1>6
  <2> QED BY <2>1, <1>0
<1> QED BY <1>7, <1>8

\* What concatenation does to the elements: nothing is lost, and nothing occurs twice unless it did.
LEMMA RangeOfCat ==
  ASSUME NEW T, NEW s \in Seq(T), NEW t \in Seq(T)
  PROVE  /\ Cat(s, t) \in Seq(T)
         /\ Range(Cat(s, t)) = Range(s) \cup Range(t)
         /\ IsInjective(s) /\ IsInjective(t) /\ Range(s) \cap Range(t) = {} => IsInjective(Cat(s, t))
         /\ Cat(s, t) = <<>> <=> s = <<>> /\ t = <<>>
<1>1. /\ Cat(s, t) \in Seq(T) /\ Len(Cat(s, t)) = Len(s) + Len(t)
      /\ \A i \in 1..Len(s) + Len(t) : Cat(s, t)[i] = IF i <= Len(s) THEN s[i] ELSE t[i - Len(s)]
  BY ConcatProperties DEF Cat
<1>2. Range(Cat(s, t)) = Range(s) \cup Range(t)
  BY RangeConcatenation DEF Cat
<1>3. /\ Len(s) \in Nat /\ Len(t) \in Nat /\ DOMAIN s = 1..Len(s) /\ DOMAIN t = 1..Len(t)
      /\ DOMAIN Cat(s, t) = 1..Len(s) + Len(t)
  BY <1>1, LenProperties
<1>4. ASSUME IsInjective(s), IsInjective(t), Range(s) \cap Range(t) = {} PROVE IsInjective(Cat(s, t))
  <2>1. SUFFICES ASSUME NEW i \in 1..Len(s) + Len(t), NEW j \in 1..Len(s) + Len(t),
                        Cat(s, t)[i] = Cat(s, t)[j]
                 PROVE  i = j
    BY <1>3 DEF IsInjective
  <2> DEFINE u == Cat(s, t)
  <2>2. \A k \in 1..Len(s) + Len(t) :
          \/ k \in 1..Len(s) /\ u[k] = s[k] /\ u[k] \in Range(s)
          \/ k - Len(s) \in 1..Len(t) /\ u[k] = t[k - Len(s)] /\ u[k] \in Range(t)
    <3>1. SUFFICES ASSUME NEW k \in 1..Len(s) + Len(t)
                   PROVE  \/ k \in 1..Len(s) /\ u[k] = s[k] /\ u[k] \in Range(s)
                          \/ k - Len(s) \in 1..Len(t) /\ u[k] = t[k - Len(s)] /\ u[k] \in Range(t)
      OBVIOUS
    <3>2. u[k] = IF k <= Len(s) THEN s[k] ELSE t[k - Len(s)]
      BY <1>1
    <3> HIDE DEF u
    <3>3. CASE k <= Len(s)
      <4>1. k \in 1..Len(s) /\ u[k] = s[k]
        BY <3>2, <3>3, <1>3
      <4> QED BY <4>1, <1>3 DEF Range
    <3>4. CASE ~(k <= Len(s))
      <4>1. k - Len(s) \in 1..Len(t) /\ u[k] = t[k - Len(s)]
        BY <3>2, <3>4, <1>3
      <4> QED BY <4>1, <1>3 DEF Range
    <3> QED BY <3>3, <3>4
  <2> HIDE DEF u
  <2>3. u[i] = u[j]
    BY <2>1 DEF u
  <2>4. CASE i \in 1..Len(s) /\ j \in 1..Len(s) /\ s[i] = s[j]
    BY <2>4, <1>4, <1>3 DEF IsInjective
  <2>5. CASE i - Len(s) \in 1..Len(t) /\ j - Len(s) \in 1..Len(t) /\ t[i - Len(s)] = t[j - Len(s)]
    BY <2>5, <1>4, <1>3 DEF IsInjective
  <2> QED BY <2>2, <2>3, <2>4, <2>5, <1>4
<1>5. Cat(s, t) = <<>> <=> s = <<>> /\ t = <<>>
  BY <1>1, <1>3, EmptySeq
<1> QED BY <1>1, <1>2, <1>4, <1>5

\* What FlattenSeq returns: a sequence of what is in the sequences, without repetition if they have none.
LEMMA Flattened ==
  ASSUME NEW T, NEW s \in Seq(Seq(T))
  PROVE  /\ FlattenSeq(s) \in Seq(T)
         /\ Range(FlattenSeq(s)) = UNION {Range(s[i]) : i \in 1..Len(s)}
         /\ (/\ \A i \in 1..Len(s) : IsInjective(s[i])
             /\ \A i, j \in 1..Len(s) : i # j => Range(s[i]) \cap Range(s[j]) = {})
              => IsInjective(FlattenSeq(s))
<1> DEFINE Apart(n) == /\ \A i \in 1..n : IsInjective(s[i])
                       /\ \A i, j \in 1..n : i # j => Range(s[i]) \cap Range(s[j]) = {}
<1>1. CASE s = <<>>
  <2>1. Len(s) = 0 /\ FlattenSeq(s) = <<>>
    BY <1>1 DEF FlattenSeq
  <2>2. <<>> \in Seq(T) /\ Range(<<>>) = {} /\ IsInjective(<<>>)
    BY EmptySeq DEF Range, IsInjective
  <2>3. 1..0 = {}
    OBVIOUS
  <2> QED BY <2>1, <2>2, <2>3
<1>2. CASE s # <<>>
  <2>1. PICK d : /\ d[1] = s[1]
                 /\ \A i \in 2..Len(s) : d[i] = Cat(d[i - 1], s[i])
                 /\ FlattenSeq(s) = d[Len(s)]
    BY <1>2, FlattenIsFold
  <2>2. Len(s) \in Nat /\ Len(s) >= 1 /\ \A i \in 1..Len(s) : s[i] \in Seq(T)
    BY <1>2, EmptySeq, ElementOfSeq
  <2> DEFINE Good(n) == /\ d[n] \in Seq(T)
                        /\ Range(d[n]) = UNION {Range(s[i]) : i \in 1..n}
                        /\ Apart(n) => IsInjective(d[n])
  <2> DEFINE S == {n \in Nat : n + 1 <= Len(s) => Good(n + 1)}
  <2>3. 0 \in S
    <3>1. 1..1 = {1}
      OBVIOUS
    <3>2. Good(1)
      BY <2>1, <2>2, <3>1
    <3> QED BY <3>2
  <2>4. ASSUME NEW n \in Nat, n \in S PROVE n + 1 \in S
    <3>1. SUFFICES ASSUME n + 2 <= Len(s) PROVE Good(n + 2)
      <4>1. n + 1 + 1 = n + 2
        OBVIOUS
      <4> HIDE DEF Good
      <4> QED BY <4>1
    <3>2. n + 2 \in 2..Len(s) /\ n + 2 - 1 = n + 1 /\ n + 2 \in 1..Len(s) /\ n + 1 <= Len(s)
      BY <3>1, <2>2
    <3>3. Good(n + 1)
      BY <2>4, <3>2
    <3>4. d[n + 2] = Cat(d[n + 1], s[n + 2])
      BY <2>1, <3>2
    <3>5. 1..n + 2 = 1..n + 1 \cup {n + 2}
      OBVIOUS
    <3>6. s[n + 2] \in Seq(T)
      BY <2>2, <3>2
    <3>7. UNION {Range(s[i]) : i \in 1..n + 2} = (UNION {Range(s[i]) : i \in 1..n + 1}) \cup Range(s[n + 2])
      BY <3>5
    <3>8. /\ d[n + 2] \in Seq(T) /\ Range(d[n + 2]) = Range(d[n + 1]) \cup Range(s[n + 2])
          /\ (IsInjective(d[n + 1]) /\ IsInjective(s[n + 2]) /\ Range(d[n + 1]) \cap Range(s[n + 2]) = {})
               => IsInjective(d[n + 2])
      <4>1. d[n + 1] \in Seq(T)
        BY <3>3
      <4> HIDE DEF Good
      <4> QED BY <4>1, <3>4, <3>6, RangeOfCat
    <3>10. d[n + 2] \in Seq(T) /\ Range(d[n + 2]) = UNION {Range(s[i]) : i \in 1..n + 2}
      BY <3>3, <3>7, <3>8
    <3>9. ASSUME Apart(n + 2) PROVE IsInjective(d[n + 2])
      <4>1. Apart(n + 1) /\ IsInjective(s[n + 2])
        BY <3>9, <3>5
      <4>2. \A i \in 1..n + 1 : Range(s[i]) \cap Range(s[n + 2]) = {}
        <5>1. \A i \in 1..n + 1 : i # n + 2 /\ i \in 1..n + 2 /\ n + 2 \in 1..n + 2
          OBVIOUS
        <5> QED BY <3>9, <5>1
      <4>3. Range(d[n + 1]) \cap Range(s[n + 2]) = {}
        BY <4>2, <3>3
      <4> QED BY <4>1, <4>3, <3>3, <3>8
    <3> HIDE DEF Apart
    <3> QED BY <3>9, <3>10
  <2>5. Len(s) - 1 \in Nat /\ Len(s) - 1 + 1 = Len(s)
    BY <2>2
  <2>6. Nat \subseteq S
    <3> HIDE DEF S
    <3> QED BY <2>3, <2>4, SetInduction
  <2>7. Good(Len(s))
    <3> HIDE DEF Good
    <3>1. Len(s) - 1 \in S
      BY <2>5, <2>6
    <3> QED BY <2>5, <3>1, <2>2
  <2> QED BY <2>1, <2>7
<1> QED BY <1>1, <1>2

\* What the filter returns: the elements that are not in S, in their order.
LEMMA WithoutIs ==
  ASSUME NEW T, NEW s \in Seq(T), NEW S
  PROVE  /\ Without(s, S) \in Seq(T)
         /\ Range(Without(s, S)) = Range(s) \ S
         /\ IsInjective(s) => IsInjective(Without(s, S))
<1> DEFINE t == [i \in DOMAIN s |-> IF s[i] \in S THEN <<>> ELSE <<s[i]>>]
<1>1. /\ Len(s) \in Nat /\ DOMAIN s = 1..Len(s)
      /\ \A i \in 1..Len(s) : s[i] \in T
  BY LenProperties, ElementOfSeq
<1>2. t \in Seq(Seq(T)) /\ Len(t) = Len(s)
  <2>1. \A i \in 1..Len(s) : (IF s[i] \in S THEN <<>> ELSE <<s[i]>>) \in Seq(T)
    BY <1>1
  <2>2. t \in [1..Len(s) -> Seq(T)]
    BY <1>1, <2>1
  <2> HIDE DEF t
  <2> QED BY <2>2, <1>1
<1>3. \A i \in 1..Len(s) : t[i] = IF s[i] \in S THEN <<>> ELSE <<s[i]>>
  BY <1>1
<1>5. Without(s, S) = FlattenSeq(t)
  BY DEF Without
<1> HIDE DEF t
<1>4. \A i \in 1..Len(s) : Range(t[i]) = (IF s[i] \in S THEN {} ELSE {s[i]}) /\ IsInjective(t[i])
  <2>1. Range(<<>>) = {} /\ IsInjective(<<>>)
    BY DEF Range, IsInjective
  <2>2. \A y : Range(<<y>>) = {y} /\ IsInjective(<<y>>)
    BY DEF Range, IsInjective
  <2>3. TAKE i \in 1..Len(s)
  <2>4. CASE s[i] \in S
    <3>1. t[i] = <<>>
      BY <2>4, <1>3
    <3> QED BY <2>4, <3>1, <2>1
  <2>5. CASE s[i] \notin S
    <3>1. t[i] = <<s[i]>>
      BY <2>5, <1>3
    <3> QED BY <2>5, <3>1, <2>2
  <2> QED BY <2>4, <2>5
<1>6. Range(s) = {s[i] : i \in 1..Len(s)}
  BY <1>1 DEF Range
<1>7. UNION {Range(t[i]) : i \in 1..Len(t)} = Range(s) \ S
  BY <1>2, <1>4, <1>6
<1>8. ASSUME IsInjective(s) PROVE IsInjective(Without(s, S))
  <2>1. \A i, j \in 1..Len(s) : i # j => s[i] # s[j]
    BY <1>8, <1>1 DEF IsInjective
  <2>2. \A i, j \in 1..Len(t) : i # j => Range(t[i]) \cap Range(t[j]) = {}
    <3>1. \A i \in 1..Len(s) : Range(t[i]) \subseteq {s[i]}
      BY <1>4
    <3> QED BY <2>1, <3>1, <1>2
  <2> QED BY <2>2, <1>2, <1>4, <1>5, Flattened
<1> QED BY <1>2, <1>5, <1>7, <1>8, Flattened

-----------------------------------------------------------------------------
(* Trees of messages.                                                      *)

\* The links of the messages L agree: a message is, once, in the childrenIds of its parent, which is a
\* message.
Linked(L, p, k) ==
  \A x \in L :
    /\ p[x] # Null => p[x] \in L /\ x \in Range(k[p[x]])
    /\ IsInjective(k[x])
    /\ \A y \in Range(k[x]) : y \in L /\ p[y] = x

\* Questions hang below answers or start a tree; answers hang below questions.
Alternating(L, p) == \A x \in L : p[x] \in IF x \in Question THEN Answer \cup {Null} ELSE Question

\* Nothing hangs below what is not there.
Bare(L, k) == \A x \in Id \ L : k[x] = <<>>

\* Every set of messages has one whose parent is not in it: going up ends.
Grounded(L, p) == \A S \in SUBSET L : S # {} => \E x \in S : p[x] \notin S

\* The messages L are a tree, or several: what the handlers rely on and have to leave behind.
IsTree(L, p, k) == Linked(L, p, k) /\ Alternating(L, p) /\ Bare(L, k) /\ Grounded(L, p)

\* The ids of questions and answers are different numbers.
LEMMA IdFacts ==
  /\ Id = 1..MaxQuestions + MaxAnswers /\ MaxQuestions + MaxAnswers \in Nat
  /\ Question \cap Answer = {} /\ Id \subseteq Nat /\ Null \notin Id
  /\ \A x \in Question : x \in Nat /\ x <= MaxQuestions
  /\ \A x \in Answer : x \in Nat /\ x > MaxQuestions
BY HistoryAssumption DEF Id, Question, Answer

\* The last of a sequence is in it.
LEMMA LastIn ==
  ASSUME NEW T, NEW s \in Seq(T), s # <<>>
  PROVE  Last(s) \in Range(s) /\ Last(s) \in T
<1>1. Len(s) \in DOMAIN s
  BY EmptySeq, LenProperties
<1>2. s[Len(s)] \in T
  BY EmptySeq, ElementOfSeq
<1> QED BY <1>1, <1>2 DEF Last, Range

\* Where Leaf goes, it stays among the messages (and below nothing there is nothing).
LEMMA LeafStays ==
  ASSUME NEW k, NEW x, NEW D, x \in D, \A y \in D : Down(y, k) \in D
  PROVE  Leaf(x, k) \in D
<1> DEFINE N == MaxQuestions + MaxAnswers
<1>0. PICK d : IsPath(d, x, k)
  BY LeafIsPath
<1>1. d[0] = x /\ (\A i \in 1..N : d[i] = Down(d[i - 1], k)) /\ Leaf(x, k) = d[N]
  BY <1>0 DEF IsPath
<1> DEFINE S == {n \in Nat : n <= N => d[n] \in D}
<1>2. N \in Nat
  BY HistoryAssumption
<1>3. 0 \in S
  BY <1>1
<1>4. ASSUME NEW n \in Nat, n \in S PROVE n + 1 \in S
  <2>1. SUFFICES ASSUME n + 1 <= N PROVE d[n + 1] \in D
    OBVIOUS
  <2>2. n + 1 \in 1..N /\ n + 1 - 1 = n /\ n <= N
    BY <2>1, <1>2
  <2>3. d[n] \in D
    BY <1>4, <2>2
  <2>4. d[n + 1] = Down(d[n], k)
    BY <1>1, <2>2
  <2> QED BY <2>3, <2>4
<1>5. N \in S
  <2> HIDE DEF S, N
  <2> QED BY <1>2, <1>3, <1>4, SetInduction
<1> QED BY <1>1, <1>2, <1>5

\* Leaf returns an id, or Null for Null.
LEMMA LeafType ==
  ASSUME NEW k \in [Id -> Seq(Id)], NEW x \in Id \cup {Null}
  PROVE  Leaf(x, k) \in Id \cup {Null} /\ (x = Null => Leaf(x, k) = Null)
<1>1. \A y \in Id \cup {Null} : Down(y, k) \in Id \cup {Null}
  BY LastIn DEF Down
<1>2. Down(Null, k) \in {Null}
  BY IdFacts DEF Down
<1> QED BY <1>1, <1>2, LeafStays

\* In a tree, Leaf returns the end of a branch: the path down, which has room for every message, has
\* no message twice.
LEMMA LeafEnds ==
  ASSUME NEW L, L \subseteq Id, NEW p, NEW k \in [Id -> Seq(Id)],
         Linked(L, p, k), Grounded(L, p), NEW x \in L
  PROVE  Leaf(x, k) \in L /\ k[Leaf(x, k)] = <<>>
<1> DEFINE N == MaxQuestions + MaxAnswers
<1>0. PICK d : IsPath(d, x, k)
  BY LeafIsPath
<1>1. d[0] = x /\ (\A i \in 1..N : d[i] = Down(d[i - 1], k)) /\ Leaf(x, k) = d[N]
  BY <1>0 DEF IsPath
<1>2. N \in Nat /\ Id = 1..N
  BY IdFacts
<1>3. \A y \in L : Down(y, k) \in L
  BY LastIn DEF Down, Linked
<1>4. \A n \in 0..N : d[n] \in L
  <2> DEFINE S == {n \in Nat : n <= N => d[n] \in L}
  <2>1. 0 \in S
    BY <1>1
  <2>2. ASSUME NEW n \in Nat, n \in S PROVE n + 1 \in S
    <3>1. SUFFICES ASSUME n + 1 <= N PROVE d[n + 1] \in L
      OBVIOUS
    <3>2. n + 1 \in 1..N /\ n + 1 - 1 = n /\ n <= N
      BY <3>1, <1>2
    <3>3. d[n] \in L
      BY <2>2, <3>2
    <3>4. d[n + 1] = Down(d[n], k)
      BY <1>1, <3>2
    <3> QED BY <3>3, <3>4, <1>3
  <2>3. Nat \subseteq S
    <3> HIDE DEF S
    <3> QED BY <2>1, <2>2, SetInduction
  <2>4. TAKE n \in 0..N
  <2>5. n \in S /\ n <= N
    BY <2>3, <1>2
  <2> QED BY <2>5
<1>5. SUFFICES ASSUME k[d[N]] # <<>> PROVE FALSE
  BY <1>1, <1>2, <1>4
<1>6. \A n \in 0..N : k[d[n]] # <<>>
  <2>1. TAKE n \in 0..N
  <2>2. SUFFICES ASSUME k[d[n]] = <<>> PROVE FALSE
    OBVIOUS
  <2> DEFINE S == {m \in Nat : n + m <= N => d[n + m] = d[n]}
  <2>3. 0 \in S
    BY <1>2
  <2>4. ASSUME NEW m \in Nat, m \in S PROVE m + 1 \in S
    <3>1. SUFFICES ASSUME n + (m + 1) <= N PROVE d[n + (m + 1)] = d[n]
      OBVIOUS
    <3>2. n + (m + 1) \in 1..N /\ n + (m + 1) - 1 = n + m /\ n + m <= N
      BY <3>1, <1>2
    <3>3. d[n + m] = d[n]
      BY <2>4, <3>2
    <3>4. d[n + (m + 1)] = Down(d[n + m], k)
      BY <1>1, <3>2
    <3> QED BY <3>3, <3>4, <2>2 DEF Down
  <2>5. Nat \subseteq S
    <3> HIDE DEF S
    <3> QED BY <2>3, <2>4, SetInduction
  <2>6. N - n \in Nat /\ n + (N - n) = N
    BY <1>2
  <2>7. N - n \in S
    BY <2>5, <2>6
  <2>8. d[N] = d[n]
    <3> HIDE DEF N
    <3> QED BY <2>6, <2>7, <1>2
  <2> QED BY <2>8, <2>2, <1>5
<1>7. \A i \in 1..N : d[i - 1] \in L /\ p[d[i]] = d[i - 1]
  <2>1. TAKE i \in 1..N
  <2>2. i - 1 \in 0..N
    BY <1>2
  <2>3. d[i - 1] \in L /\ d[i - 1] \in Id /\ k[d[i - 1]] # <<>> /\ k[d[i - 1]] \in Seq(Id)
    BY <1>4, <1>6, <2>2
  <2>4. d[i] = Last(k[d[i - 1]])
    BY <1>1, <2>3 DEF Down
  <2>5. d[i] \in Range(k[d[i - 1]])
    BY <2>3, <2>4, LastIn
  <2>6. \A y \in L : \A z \in Range(k[y]) : p[z] = y
    BY DEF Linked
  <2> QED BY <2>3, <2>5, <2>6
<1>8. ASSUME NEW i \in 0..N, NEW j \in 0..N, i < j, d[i] = d[j] PROVE FALSE
  <2> DEFINE C == {d[m] : m \in i + 1..j}
  <2>1. C \subseteq L
    <3>1. i + 1..j \subseteq 0..N
      BY <1>2
    <3> QED BY <1>4, <3>1
  <2>2. d[j] \in C
    BY <1>8, <1>2
  <2>3. \A y \in C : p[y] \in C
    <3>1. TAKE y \in C
    <3>2. PICK m \in i + 1..j : y = d[m]
      OBVIOUS
    <3>3. m \in 1..N /\ (m - 1 \in i + 1..j \/ m - 1 = i)
      BY <1>2
    <3>4. p[y] = d[m - 1]
      BY <3>2, <3>3, <1>7
    <3> QED BY <3>3, <3>4, <2>2, <1>8
  <2> HIDE DEF C
  <2> QED BY <2>1, <2>2, <2>3 DEF Grounded
<1>9. \E i, j \in 0..N : i # j /\ d[i] = d[j]
  <2>1. IsFiniteSet(0..N) /\ Cardinality(0..N) = N + 1
    BY <1>2, FS_Interval
  <2>2. IsFiniteSet(Id) /\ Cardinality(Id) = N
    BY <1>2, FS_Interval
  <2> DEFINE f == [n \in 0..N |-> d[n]]
  <2>3. f \in [0..N -> Id]
    BY <1>4
  <2>4. PICK i, j \in 0..N : i # j /\ f[i] = f[j]
    <3>1. Cardinality(Id) < Cardinality(0..N)
      BY <2>1, <2>2, <1>2
    <3> HIDE DEF f, N
    <3> QED BY <2>1, <2>2, <2>3, <3>1, FS_PigeonHole
  <2> QED BY <2>4
<1> QED
  <2>1. PICK i, j \in 0..N : i # j /\ d[i] = d[j]
    BY <1>9
  <2>2. i < j \/ j < i
    BY <2>1, <1>2
  <2> QED BY <2>1, <2>2, <1>8

-----------------------------------------------------------------------------
(* What handlers do to trees.                                              *)

\* New messages below one message, or new roots.
Adds(L, p, k, up, new, p2, k2) ==
  /\ L \subseteq Id /\ k \in [Id -> Seq(Id)] /\ IsTree(L, p, k)
  /\ up \in L \cup {Null} /\ new \in Seq(Id) /\ IsInjective(new) /\ Range(new) \cap L = {}
  /\ \A x \in Range(new) : up \in IF x \in Question THEN Answer \cup {Null} ELSE Question
  /\ \A x \in Id : p2[x] = IF x \in Range(new) THEN up ELSE p[x]
  /\ \A x \in Id : k2[x] = IF x = up THEN Cat(k[x], new) ELSE k[x]

\* They make a tree of a tree.
LEMMA AddBelow ==
  ASSUME NEW L, NEW p, NEW k, NEW up, NEW new, NEW p2, NEW k2, Adds(L, p, k, up, new, p2, k2)
  PROVE  IsTree(L \cup Range(new), p2, k2)
<1> USE DEF Adds
<1> DEFINE N == Range(new)
<1>1. N \subseteq Id /\ Null \notin Id
  BY RangeOfSeq, IdFacts
<1>2. \A x \in L : p2[x] = p[x]
  BY <1>1
<1>3. \A x \in N : p2[x] = up /\ x # up /\ x \notin L /\ k[x] = <<>> /\ k2[x] = <<>>
  BY <1>1 DEF IsTree, Bare
<1>4. \A x \in L : (p[x] # Null => p[x] \in L /\ x \in Range(k[p[x]])) /\ IsInjective(k[x])
                    /\ (\A y \in Range(k[x]) : y \in L /\ p[y] = x)
  BY DEF IsTree, Linked
<1>5. ASSUME up \in L
      PROVE  /\ k2[up] = Cat(k[up], new) /\ Range(k2[up]) = Range(k[up]) \cup N /\ IsInjective(k2[up])
             /\ Range(k[up]) \subseteq L
  <2>1. k2[up] = Cat(k[up], new) /\ k[up] \in Seq(Id)
    BY <1>5
  <2>2. Range(k[up]) \subseteq L /\ IsInjective(k[up])
    BY <1>4, <1>5
  <2>3. Range(k[up]) \cap Range(new) = {}
    BY <2>2
  <2> QED BY <2>1, <2>2, <2>3, RangeOfCat
<1>6. \A x \in Id : x # up => k2[x] = k[x]
  BY <1>1
<1> HIDE DEF N
<1>7. Linked(L \cup N, p2, k2)
  <2>1. SUFFICES ASSUME NEW x \in L \cup N
                 PROVE  /\ p2[x] # Null => p2[x] \in L \cup N /\ x \in Range(k2[p2[x]])
                        /\ IsInjective(k2[x])
                        /\ \A y \in Range(k2[x]) : y \in L \cup N /\ p2[y] = x
    BY DEF Linked
  <2>2. CASE x \in N
    <3>1. p2[x] # Null => p2[x] \in L /\ x \in Range(k2[p2[x]])
      BY <2>2, <1>3, <1>5
    <3>2. Range(k2[x]) = {} /\ IsInjective(k2[x])
      BY <2>2, <1>3 DEF Range, IsInjective
    <3> QED BY <3>1, <3>2
  <2>3. CASE x \in L
    <3>1. p2[x] # Null => p2[x] \in L /\ x \in Range(k2[p2[x]])
      <4>1. SUFFICES ASSUME p[x] # Null PROVE p[x] \in L /\ x \in Range(k2[p[x]])
        BY <1>2, <2>3
      <4>2. p[x] \in L /\ x \in Range(k[p[x]])
        BY <4>1, <2>3, <1>4
      <4>3. CASE p[x] = up
        BY <4>2, <4>3, <1>5
      <4>4. CASE p[x] # up
        BY <4>2, <4>4, <1>6
      <4> QED BY <4>3, <4>4
    <3>2. CASE x = up
      <4>1. IsInjective(k2[x]) /\ Range(k2[x]) = Range(k[x]) \cup N
        BY <2>3, <3>2, <1>5
      <4>2. \A y \in Range(k[x]) : y \in L /\ p[y] = x
        BY <2>3, <1>4
      <4> QED BY <3>1, <4>1, <4>2, <1>2, <1>3, <3>2
    <3>3. CASE x # up
      <4>1. k2[x] = k[x]
        BY <2>3, <3>3, <1>6
      <4> QED BY <3>1, <4>1, <1>4, <2>3, <1>2
    <3> QED BY <3>2, <3>3
  <2> QED BY <2>2, <2>3
<1>8. Alternating(L \cup N, p2)
  BY <1>2, <1>3 DEF Alternating, IsTree, N
<1>9. Bare(L \cup N, k2)
  BY <1>1, <1>6 DEF Bare, IsTree
<1>10. Grounded(L \cup N, p2)
  <2>1. SUFFICES ASSUME NEW S \in SUBSET (L \cup N), S # {} PROVE \E x \in S : p2[x] \notin S
    BY DEF Grounded
  <2>2. CASE S \cap L = {}
    <3>1. PICK x \in S : x \in N
      BY <2>1, <2>2
    <3>2. p2[x] = up /\ (up \in L \/ up = Null)
      BY <3>1, <1>3
    <3>3. up \notin S
      BY <3>2, <2>2, <1>1
    <3> QED BY <3>2, <3>3
  <2>3. CASE S \cap L # {}
    <3>1. PICK x \in S \cap L : p[x] \notin S \cap L
      BY <2>3 DEF IsTree, Grounded
    <3>2. p[x] = Null \/ p[x] \in L
      BY <1>4
    <3>3. p2[x] = p[x] /\ p[x] \notin S
      BY <1>1, <1>2, <3>1, <3>2
    <3> QED BY <3>3
  <2> QED BY <2>2, <2>3
<1> QED BY <1>7, <1>8, <1>9, <1>10 DEF IsTree, N

\* A message is removed with those directly below it; what is further below moves up.
Drops(L, p, k, x, gone, grand, w, p2, k2) ==
  /\ L \subseteq Id /\ k \in [Id -> Seq(Id)] /\ IsTree(L, p, k) /\ x \in L
  /\ gone = {x} \cup Range(k[x])
  /\ grand \in Seq(Id) /\ IsInjective(grand)
  /\ Range(grand) = UNION {Range(k[y]) : y \in Range(k[x])}
  /\ w \in Seq(Id) /\ (p[x] \in L => IsInjective(w) /\ Range(w) = Range(k[p[x]]) \ {x})
  /\ \A y \in Id : p2[y] = IF y \in gone THEN Null ELSE IF y \in Range(grand) THEN p[x] ELSE p[y]
  /\ \A y \in Id : k2[y] = IF y \in gone THEN <<>> ELSE IF y = p[x] /\ y \in L THEN Cat(w, grand) ELSE k[y]

\* A tree is left.
LEMMA RemoveOne ==
  ASSUME NEW L, NEW p, NEW k, NEW x, NEW gone, NEW grand, NEW w, NEW p2, NEW k2,
         Drops(L, p, k, x, gone, grand, w, p2, k2)
  PROVE  /\ IsTree(L \ gone, p2, k2) /\ p[x] \notin gone /\ gone \subseteq L
         /\ \A y \in L : y \in Range(grand) <=> p[y] \in Range(k[x])
<1> USE DEF Drops
<1> DEFINE G == Range(grand)
<1> DEFINE up == p[x]
<1>0. Null \notin Id /\ Question \cap Answer = {} /\ Id = Question \cup Answer
  BY IdFacts DEF Id
<1>1. \A y \in L : (p[y] # Null => p[y] \in L /\ y \in Range(k[p[y]])) /\ IsInjective(k[y])
                    /\ (\A z \in Range(k[y]) : z \in L /\ p[z] = y)
  BY DEF IsTree, Linked
<1>2. \A S \in SUBSET L : S # {} => \E y \in S : p[y] \notin S
  BY DEF IsTree, Grounded
<1>3. gone \subseteq L
  BY <1>1
<1>4. up \notin gone
  <2>1. ASSUME up = x PROVE FALSE
    <3>1. {x} \in SUBSET L /\ {x} # {}
      OBVIOUS
    <3>2. \E y \in {x} : p[y] \notin {x}
      BY <3>1, <1>2
    <3> QED BY <3>2, <2>1
  <2>2. ASSUME up \in Range(k[x]) PROVE FALSE
    <3>1. up \in L /\ p[up] = x
      BY <2>2, <1>1
    <3>2. {x, up} \in SUBSET L /\ {x, up} # {}
      BY <3>1
    <3>3. \E y \in {x, up} : p[y] \notin {x, up}
      BY <3>2, <1>2
    <3> QED BY <3>1, <3>3
  <2> QED BY <2>1, <2>2
<1>5. \A y \in L : y \in G <=> p[y] \in Range(k[x])
  <2>1. ASSUME NEW y \in L, y \in G PROVE p[y] \in Range(k[x])
    <3>1. PICK z \in Range(k[x]) : y \in Range(k[z])
      BY <2>1
    <3>2. z \in L
      BY <1>1
    <3> QED BY <3>1, <3>2, <1>1
  <2>2. ASSUME NEW y \in L, p[y] \in Range(k[x]) PROVE y \in G
    <3>1. p[y] \in L /\ p[y] # Null
      BY <2>2, <1>0, <1>1
    <3> QED BY <2>2, <3>1, <1>1
  <2> QED BY <2>1, <2>2
<1>6. G \subseteq L
  <2>1. SUFFICES ASSUME NEW y \in G PROVE y \in L
    OBVIOUS
  <2>2. PICK z \in Range(k[x]) : y \in Range(k[z])
    OBVIOUS
  <2>3. z \in L
    BY <1>1
  <2> QED BY <2>2, <2>3, <1>1
<1>7. G \cap gone = {}
  <2>1. SUFFICES ASSUME NEW y \in G, y \in gone PROVE FALSE
    OBVIOUS
  <2>2. y \in L /\ p[y] \in Range(k[x])
    BY <2>1, <1>5, <1>6
  <2>3. CASE y = x
    BY <2>2, <2>3, <1>4
  <2>4. CASE y \in Range(k[x])
    <3>1. p[y] = x
      BY <2>4, <1>1
    <3>2. x \in Range(k[x])
      BY <2>2, <3>1
    <3> QED BY <3>2, <1>1, <1>4
  <2> QED BY <2>1, <2>3, <2>4
<1>8. up # Null => up \in L \ gone
  BY <1>1, <1>4
<1>9. ASSUME up # Null
      PROVE  /\ k2[up] = Cat(w, grand) /\ IsInjective(k2[up]) /\ Range(k2[up]) = (Range(k[up]) \ {x}) \cup G
             /\ (Range(k[up]) \ {x}) \cap G = {}
  <2>1. up \in L /\ up \in Id
    BY <1>8, <1>9
  <2>2. k2[up] = Cat(w, grand)
    BY <2>1, <1>4
  <2>3. IsInjective(w) /\ Range(w) = Range(k[up]) \ {x}
    BY <2>1
  <2>4. (Range(k[up]) \ {x}) \cap G = {}
    <3>1. SUFFICES ASSUME NEW z \in Range(k[up]), z \in G PROVE FALSE
      OBVIOUS
    <3>2. z \in L /\ p[z] = up
      BY <2>1, <1>1
    <3>3. up \in Range(k[x])
      BY <3>1, <3>2, <1>5
    <3> QED BY <3>3, <1>4
  <2> QED BY <2>2, <2>3, <2>4, RangeOfCat
<1>10. \A y \in L \ gone : y \in Id /\ (y \in G => p2[y] = up) /\ (y \notin G => p2[y] = p[y])
                            /\ (y # up => k2[y] = k[y])
  OBVIOUS
<1> HIDE DEF G, up
<1>11. Linked(L \ gone, p2, k2)
  <2>1. SUFFICES ASSUME NEW y \in L \ gone
                 PROVE  /\ p2[y] # Null => p2[y] \in L \ gone /\ y \in Range(k2[p2[y]])
                        /\ IsInjective(k2[y])
                        /\ \A z \in Range(k2[y]) : z \in L \ gone /\ p2[z] = y
    BY DEF Linked
  <2>2. p2[y] # Null => p2[y] \in L \ gone /\ y \in Range(k2[p2[y]])
    <3>1. CASE y \in G
      BY <3>1, <1>8, <1>9, <1>10
    <3>2. CASE y \notin G
      <4>1. p2[y] = p[y]
        BY <3>2, <1>10
      <4>2. SUFFICES ASSUME p[y] # Null PROVE p[y] \in L \ gone /\ y \in Range(k2[p[y]])
        BY <4>1
      <4>3. p[y] \in L /\ y \in Range(k[p[y]])
        BY <4>2, <1>1
      <4>4. p[y] \notin gone
        <5>1. p[y] \notin Range(k[x])
          BY <3>2, <1>5
        <5>2. ASSUME p[y] = x PROVE FALSE
          BY <4>3, <5>2, <2>1
        <5> QED BY <5>1, <5>2
      <4>5. CASE p[y] = up
        <5>1. y # x
          BY <2>1
        <5> QED BY <4>2, <4>3, <4>4, <4>5, <5>1, <1>9
      <4>6. CASE p[y] # up
        BY <4>3, <4>4, <4>6, <1>10
      <4> QED BY <4>5, <4>6
    <3> QED BY <3>1, <3>2
  <2>3. CASE y = up
    <3>1. up # Null
      BY <2>3, <1>0
    <3>2. IsInjective(k2[y])
      BY <3>1, <2>3, <1>9
    <3>3. ASSUME NEW z \in Range(k2[y]) PROVE z \in L \ gone /\ p2[z] = y
      <4>1. CASE z \in G
        BY <4>1, <1>6, <1>7, <1>10, <2>3
      <4>2. CASE z \in Range(k[up]) \ {x}
        <5>1. z \in L /\ p[z] = up /\ z \notin G
          BY <4>2, <1>1, <1>9, <2>3, <3>1
        <5>2. z \notin Range(k[x])
          <6>1. SUFFICES ASSUME z \in Range(k[x]) PROVE FALSE
            OBVIOUS
          <6>2. p[z] = x
            BY <6>1, <1>1
          <6> QED BY <6>2, <5>1, <1>4
        <5> QED BY <5>1, <5>2, <4>2, <1>10, <2>3
      <4> QED BY <4>1, <4>2, <3>1, <3>3, <2>3, <1>9
    <3> QED BY <2>2, <3>2, <3>3
  <2>4. CASE y # up
    <3>1. k2[y] = k[y]
      BY <2>4, <1>10
    <3>2. ASSUME NEW z \in Range(k[y]) PROVE z \in L \ gone /\ p2[z] = y
      <4>1. z \in L /\ p[z] = y
        BY <1>1
      <4>2. z # x
        BY <4>1, <2>4 DEF up
      <4>3. z \notin Range(k[x])
        <5>1. SUFFICES ASSUME z \in Range(k[x]) PROVE FALSE
          OBVIOUS
        <5>2. p[z] = x
          BY <5>1, <1>1
        <5> QED BY <5>2, <4>1, <2>1
      <4>4. z \notin G
        BY <4>1, <1>5, <2>1
      <4> QED BY <4>1, <4>2, <4>3, <4>4, <1>10
    <3> QED BY <2>2, <3>1, <3>2, <1>1
  <2> QED BY <2>3, <2>4
<1>12. Alternating(L \ gone, p2)
  <2>0. \A y \in L : p[y] \in IF y \in Question THEN Answer \cup {Null} ELSE Question
    BY DEF IsTree, Alternating
  <2>1. SUFFICES ASSUME NEW y \in L \ gone
                 PROVE  p2[y] \in IF y \in Question THEN Answer \cup {Null} ELSE Question
    BY DEF Alternating
  <2>2. CASE y \notin G
    BY <2>0, <2>2, <1>10
  <2>3. CASE y \in G
    <3>1. p[y] \in Range(k[x]) /\ p[y] \in L /\ p[p[y]] = x /\ p2[y] = up
      BY <2>3, <1>1, <1>5, <1>10
    <3>2. up \in IF x \in Question THEN Answer \cup {Null} ELSE Question
      BY <2>0 DEF up
    <3>3. x \in IF p[y] \in Question THEN Answer \cup {Null} ELSE Question
      BY <2>0, <3>1
    <3>4. p[y] \in IF y \in Question THEN Answer \cup {Null} ELSE Question
      BY <2>0
    <3> QED BY <3>1, <3>2, <3>3, <3>4, <1>0
  <2> QED BY <2>2, <2>3
<1>13. Bare(L \ gone, k2)
  <2>1. SUFFICES ASSUME NEW y \in Id, y \notin L \ gone PROVE k2[y] = <<>>
    BY DEF Bare
  <2>2. CASE y \in gone
    BY <2>2
  <2>3. CASE y \notin L /\ y \notin gone
    BY <2>3 DEF IsTree, Bare
  <2> QED BY <2>1, <2>2, <2>3
<1>14. Grounded(L \ gone, p2)
  <2>1. SUFFICES ASSUME NEW S \in SUBSET (L \ gone), S # {}, \A y \in S : p2[y] \in S PROVE FALSE
    BY DEF Grounded
  <2>2. CASE S \cap G = {}
    <3>1. \A y \in S : p[y] \in S
      BY <2>1, <2>2, <1>10
    <3> QED BY <3>1, <2>1, <1>2
  <2>3. CASE S \cap G # {}
    <3> DEFINE U == S \cup gone
    <3>1. up \in S
      <4>1. PICK y \in S : y \in G
        BY <2>3
      <4>2. p2[y] = up
        BY <4>1, <1>10
      <4> QED BY <4>2, <2>1
    <3>2. \A y \in U : p[y] \in U
      <4>1. TAKE y \in U
      <4>2. CASE y \in S /\ y \notin G
        BY <4>2, <2>1, <1>10
      <4>3. CASE y \in S /\ y \in G
        BY <4>3, <1>5
      <4>4. CASE y \in Range(k[x])
        BY <4>4, <1>1
      <4>5. CASE y = x
        BY <4>5, <3>1 DEF up
      <4> QED BY <4>2, <4>3, <4>4, <4>5
    <3>3. U \in SUBSET L /\ U # {}
      BY <1>3
    <3> HIDE DEF U
    <3> QED BY <3>2, <3>3, <1>2
  <2> QED BY <2>2, <2>3
<1> QED
  <2>1. IsTree(L \ gone, p2, k2)
    BY <1>11, <1>12, <1>13, <1>14 DEF IsTree
  <2>2. up \notin gone /\ gone \subseteq L /\ \A y \in L : y \in G <=> p[y] \in Range(k[x])
    BY <1>3, <1>4, <1>5
  <2> QED BY <2>1, <2>2 DEF G, up

-----------------------------------------------------------------------------
(* The inductive invariant.                                                *)

\* What a handler keeps of an answer.
Held == [id : Answer, is : {"object", "old", "copy"}, parent : Id \cup {Null}, kids : Seq(Id)]

\* The number of the newest answer.
Newest == MaxQuestions + answered

\* The ids of messages, those used up, and how many.
KeysOK ==
  /\ keys \in Seq(Id) /\ IsInjective(keys)
  /\ asked \in 0..MaxQuestions /\ answered \in 0..MaxAnswers
  /\ \A x \in Live : IF x \in Question THEN x <= asked ELSE x <= Newest

\* parentId and childrenIds.
LinksOK == parent \in [Id -> Id \cup {Null}] /\ kids \in [Id -> Seq(Id)]

\* What is shown of the messages.
ViewOK ==
  /\ done \in [Id -> BOOLEAN] /\ slot \in [Answer -> Nat] /\ failed \subseteq Answer
  /\ currentId \in Id \cup {Null}
  /\ \A x \in Answer : done[x] => x <= Newest

\* The completion requests; they are numbered in the order in which they are sent.
CallsOK ==
  /\ call \in [Call -> Answer \cup {Null}]
  /\ post \in [Call -> {"none", "sent", "over", "failed"}]
  /\ job \in [Call -> {"none", "running", "tidying", "ended"}]
  /\ Sent \in 0..MaxCalls
  /\ \A c \in Call : /\ call[c] # Null <=> c <= Sent
                     /\ call[c] = Null => post[c] = "none" /\ job[c] = "none"
                     /\ call[c] # Null => post[c] # "none" /\ call[c] <= Newest

\* What handlers keep; a request that is sent keeps its answer.
KeptOK ==
  /\ kept \in [Keeper -> Held \cup {Null}]
  /\ \A h \in Keeper : kept[h] # Null => kept[h] \in Held /\ kept[h].id <= Newest
  /\ \A c \in Call : post[c] = "sent" => kept[c] \in Held /\ kept[c].id = call[c]

\* Tasks to stop, events on their way, chains to save.
QueuesOK ==
  /\ taskIds # Null => taskIds \in Seq(Call)
  /\ loop # Null => loop \in [arr : Seq(Call), at : Nat \ {0}, shared : BOOLEAN]
  /\ inbox \in Seq([type : {"done", "error", "cancel", "title"}, id : Answer])
  /\ \A f \in finishing : f = [id |-> f.id, chain |-> f.chain, saving |-> f.saving] /\ f.id \in Answer

\* What is chosen at first, and the history variables.
RestOK ==
  /\ \E m \in Menus : width = m[1] /\ menu = m[2]
  /\ stale \subseteq {"call", "title", "rate", "merge"} /\ hasty \in BOOLEAN /\ lost \subseteq Answer

\* Types, and numbers: what there is has been counted.
TypeInv == KeysOK /\ LinksOK /\ ViewOK /\ CallsOK /\ KeptOK /\ QueuesOK /\ RestOK

\* While nothing outdated has been written, there is a tree, and an answer of it is shown.
TreeInv ==
  stale = {} =>
    /\ IsTree(Live, parent, kids)
    /\ \A q \in Live \cap Question : kids[q] # <<>>
    /\ IF Live = {} THEN currentId = Null ELSE currentId \in Live \cap Answer

\* Nothing is below the message shown, nor below an answer whose request is under way.
LeafInv ==
  stale = {} /\ ~hasty =>
    /\ currentId # Null => kids[currentId] = <<>>
    /\ \A c \in Call : post[c] = "sent" => kids[call[c]] = <<>>

\* The server will still answer the request, or works on it.
Unfinished(c) == (post[c] = "sent" /\ job[c] = "none") \/ job[c] = "running"

\* The end of the answer is announced.
EndComes(a) == \E i \in DOMAIN inbox : inbox[i].id = a /\ inbox[i].type \in {"done", "cancel"}

\* An answer that is not complete has a request the server will answer, a task that runs, or an event on
\* its way; a stop goes through accepted requests only; who waits without a copy has a message that exists.
WorkInv ==
  /\ \A a \in Live \cap Answer :
       done[a] \/ a \in lost \/ EndComes(a) \/ \E c \in Call : call[c] = a /\ Unfinished(c)
  /\ \A c \in Call : post[c] = "over" => job[c] # "none"
  /\ taskIds # Null => \A c \in Range(taskIds) : post[c] = "over"
  /\ loop # Null => \A c \in Range(loop.arr) : post[c] = "over"
  /\ \A h \in {Title, Merge} :
       kept[h] # Null => kept[h].is \in {"object", "old"} /\ (kept[h].is = "object" => kept[h].id \in Live)

\* The inductive invariant.
ChatInv == TypeInv /\ TreeInv /\ LeafInv /\ WorkInv

\* The numbers of messages and requests, and who keeps messages.
LEMMA Constants ==
  /\ MaxQuestions \in Nat /\ MaxAnswers \in Nat /\ MaxCalls \in Nat /\ Null \notin Nat
  /\ Call \subseteq Nat /\ Call \subseteq Keeper /\ Title \in Keeper /\ Rating \in Keeper /\ Merge \in Keeper
  /\ Title \notin Call /\ Rating \notin Call /\ Merge \notin Call
  /\ Title # Rating /\ Title # Merge /\ Rating # Merge
  /\ \A h \in Keeper : h \notin Call => h \in {Title, Rating, Merge}
  /\ Null \notin Id /\ Null \notin Answer /\ Question \cap Answer = {} /\ Id = Question \cup Answer
<1>1. MaxQuestions \in Nat /\ MaxAnswers \in Nat /\ MaxCalls \in Nat /\ Null \notin Nat
  BY HistoryAssumption
<1>2. Keeper = 1..MaxCalls + 3 /\ Call = 1..MaxCalls
  BY DEF Keeper, Call
<1>3. /\ Call \subseteq Nat /\ Call \subseteq Keeper /\ Title \in Keeper /\ Rating \in Keeper
         /\ Merge \in Keeper
      /\ Title \notin Call /\ Rating \notin Call /\ Merge \notin Call
      /\ Title # Rating /\ Title # Merge /\ Rating # Merge
  BY <1>1, <1>2 DEF Title, Rating, Merge
<1>4. \A h \in Keeper : h \notin Call => h \in {Title, Rating, Merge}
  BY <1>1, <1>2 DEF Title, Rating, Merge
<1>5. Null \notin Id /\ Null \notin Answer /\ Question \cap Answer = {} /\ Id = Question \cup Answer
  BY <1>1 DEF Id, Question, Answer
<1> QED BY <1>1, <1>3, <1>4, <1>5

\* Counting requests.
LEMMA Counted ==
  ASSUME NEW f, NEW m \in 0..MaxCalls, \A c \in Call : f[c] # Null <=> c <= m
  PROVE  Cardinality({c \in Call : f[c] # Null}) = m
<1>1. {c \in Call : f[c] # Null} = 1..m
  BY HistoryAssumption DEF Call
<1>2. m \in Nat
  BY HistoryAssumption
<1>3. Cardinality(1..m) = m
  BY <1>2, FS_Interval
<1> DEFINE C == {c \in Call : f[c] # Null}
<1>4. C = 1..m
  BY <1>1
<1> HIDE DEF C
<1>5. Cardinality(C) = m
  BY <1>3, <1>4
<1> QED BY <1>5 DEF C

\* A new state whose tree, and what is shown of it, is the same.
LEMMA SameTree ==
  ASSUME TreeInv, UNCHANGED <<keys, parent, kids, currentId, stale>>
  PROVE  TreeInv'
BY DEF TreeInv, Live, IsTree, Linked, Alternating, Bare, Grounded

\* A step that sends nothing and leaves what is shown, and what is below it.
LEMMA SameLeaf ==
  ASSUME LeafInv, UNCHANGED <<kids, currentId, stale, hasty, call>>,
         \A c \in Call : post'[c] = "sent" => post[c] = "sent"
  PROVE  LeafInv'
BY DEF LeafInv

\* How the copies kept may change while others act: an object gets old, an old one gets another child.
Ages(new) ==
  /\ new \in [Keeper -> Held \cup {Null}]
  /\ \A h \in Keeper :
       /\ new[h] # Null => /\ kept[h] # Null /\ new[h] \in Held /\ new[h].id = kept[h].id
                           /\ new[h].is = kept[h].is \/ (kept[h].is = "object" /\ new[h].is = "old")
       /\ kept[h] \in Held => new[h] \in Held /\ new[h].id = kept[h].id

\* Nothing becomes of the copies that are kept: that is one way to age.
LEMMA KeptAges ==
  ASSUME KeptOK
  PROVE  Ages(kept)
BY DEF KeptOK, Ages

\* When entries of history.messages are replaced, the objects kept become old ones.
LEMMA OutdatedAges ==
  ASSUME KeptOK, LinksOK, NEW S
  PROVE  /\ Ages(Outdated(S))
         /\ \A h \in Keeper : Keeps(h, "object") /\ kept[h].id \in S => Outdated(S)[h].is = "old"
<1> DEFINE new == Outdated(S)
<1>0. Answer \subseteq Id
  BY Constants
<1>1. \A h \in Keeper : kept[h] \in Held => Copy(kept[h].id, "old") \in Held
                          /\ Copy(kept[h].id, "old").id = kept[h].id /\ Copy(kept[h].id, "old").is = "old"
  BY <1>0 DEF Held, Copy, LinksOK
<1>2. \A h \in Keeper : \/ new[h] = kept[h]
                        \/ /\ kept[h] # Null /\ kept[h].is = "object"
                           /\ new[h] = Copy(kept[h].id, "old")
  BY DEF Outdated, Keeps
<1>3. \A h \in Keeper : Keeps(h, "object") /\ kept[h].id \in S => new[h] = Copy(kept[h].id, "old")
  BY DEF Outdated
<1>4. new = [h \in Keeper |-> new[h]]
  BY DEF Outdated
<1> HIDE DEF new
<1>5. \A h \in Keeper : (kept[h] # Null => kept[h] \in Held) /\ kept[h] \in Held \cup {Null}
  BY DEF KeptOK
<1>6. \A h \in Keeper : new[h] \in Held \cup {Null}
  BY <1>1, <1>2, <1>5
<1>7. new \in [Keeper -> Held \cup {Null}]
  BY <1>4, <1>6
<1>8. ASSUME NEW h \in Keeper
      PROVE  /\ new[h] # Null => /\ kept[h] # Null /\ new[h] \in Held /\ new[h].id = kept[h].id
                                 /\ new[h].is = kept[h].is \/ (kept[h].is = "object" /\ new[h].is = "old")
             /\ kept[h] \in Held => new[h] \in Held /\ new[h].id = kept[h].id
  BY <1>1, <1>2, <1>5
<1>9. \A h \in Keeper : Keeps(h, "object") /\ kept[h].id \in S => new[h].is = "old"
  BY <1>1, <1>3, <1>5 DEF Keeps
<1> QED BY <1>7, <1>8, <1>9 DEF Ages, new

\* An old object that shares its childrenIds gets another child with them.
LEMMA PushedAges ==
  ASSUME KeptOK, NEW x, NEW y \in Id
  PROVE  Ages(Pushed(x, y))
<1> DEFINE new == Pushed(x, y)
<1> DEFINE More(h) == [kept[h] EXCEPT !.kids = Append(@, y)]
<1>1. \A h \in Keeper : kept[h] \in Held => More(h) \in Held /\ More(h).id = kept[h].id
      /\ More(h).is = kept[h].is
  <2>1. ASSUME NEW r \in Held
        PROVE  LET s == [r EXCEPT !.kids = Append(@, y)] IN s \in Held /\ s.id = r.id /\ s.is = r.is
    <3>1. Append(r.kids, y) \in Seq(Id)
      BY DEF Held
    <3> QED BY <3>1 DEF Held
  <2> QED BY <2>1
<1>2. \A h \in Keeper : new[h] = kept[h] \/ (kept[h] # Null /\ new[h] = More(h))
  BY DEF Pushed, Keeps
<1>3. new = [h \in Keeper |-> new[h]]
  BY DEF Pushed
<1> HIDE DEF new, More
<1>4. \A h \in Keeper : (kept[h] # Null => kept[h] \in Held) /\ kept[h] \in Held \cup {Null}
  BY DEF KeptOK
<1>5. new \in [Keeper -> Held \cup {Null}]
  <2>1. \A h \in Keeper : new[h] \in Held \cup {Null}
    BY <1>1, <1>2, <1>4
  <2> QED BY <2>1, <1>3
<1> QED BY <1>1, <1>2, <1>4, <1>5 DEF Ages, new

\* Counts grow, and copies age: what is kept is still in order.
LEMMA KeptStays ==
  ASSUME KeptOK, Ages(kept'), Newest \in Nat, Newest' \in Nat, Newest <= Newest',
         \A c \in Call : post'[c] = "sent" => post[c] = "sent" /\ call'[c] = call[c]
  PROVE  KeptOK'
<1>1. Call \subseteq Keeper /\ Answer \subseteq Nat
  BY Constants, IdFacts
<1>2. \A h \in Keeper : kept'[h] # Null => kept'[h] \in Held /\ kept'[h].id <= Newest'
  <2>1. SUFFICES ASSUME NEW h \in Keeper, kept'[h] # Null PROVE kept'[h] \in Held /\ kept'[h].id <= Newest'
    OBVIOUS
  <2>2. kept'[h] \in Held /\ kept'[h].id = kept[h].id /\ kept[h].id <= Newest /\ kept[h] \in Held
    BY <2>1 DEF Ages, KeptOK
  <2>3. kept[h].id \in Nat
    BY <2>2, <1>1 DEF Held
  <2> QED BY <2>2, <2>3
<1>3. \A c \in Call : post'[c] = "sent" => kept'[c] \in Held /\ kept'[c].id = call'[c]
  BY <1>1 DEF Ages, KeptOK
<1>4. kept' \in [Keeper -> Held \cup {Null}]
  BY DEF Ages
<1> QED BY <1>2, <1>3, <1>4 DEF KeptOK, Held

\* Answers that are complete have been counted.
LEMMA DoneStays ==
  ASSUME ViewOK, Newest \in Nat, Newest' \in Nat, Newest <= Newest'
  PROVE  \A x \in Answer : done[x] => x <= Newest'
<1>1. SUFFICES ASSUME NEW x \in Answer, done[x] PROVE x <= Newest'
  OBVIOUS
<1>2. x \in Nat /\ x <= Newest
  BY <1>1, IdFacts DEF ViewOK
<1> QED BY <1>2

-----------------------------------------------------------------------------
(* Sending.                                                                *)

\* What Send does: new answers below q, in order, each with a request of its own or lost.
Sends1(q, new, keys0, parent0, kids0, kept0) ==
  /\ new \in Seq(Id) /\ new # <<>> /\ IsInjective(new) /\ Range(new) \subseteq Answer
  /\ \A x \in Range(new) : x > Newest
  /\ keys' = Cat(keys0, new)
  /\ \A x \in Id : parent'[x] = IF x \in Range(new) THEN q ELSE parent0[x]
  /\ kids' = [kids0 EXCEPT ![q] = Cat(@, new)]
  /\ currentId' \in Range(new)
  /\ \A c \in Call : \/ call[c] # Null /\ call'[c] = call[c] /\ post'[c] = post[c]
                     \/ call[c] = Null /\ (\/ call'[c] = Null /\ post'[c] = "none"
                                           \/ call'[c] \in Range(new) /\ post'[c] \in {"sent", "failed"})
  /\ \A a \in Range(new) : a \in lost' \/ \E c \in Call : call'[c] = a /\ post'[c] = "sent" /\ job[c] = "none"
  /\ lost \subseteq lost'
  /\ \A h \in Keeper \ Call : kept'[h] = kept0[h]
  /\ UNCHANGED <<width, menu, done, failed, job, taskIds, loop, inbox, finishing, stale>>

\* Send keeps the types, and does what Sends1 says.
LEMMA SendIs ==
  ASSUME TypeInv, NEW q \in Id, NEW slots \in Seq(Nat), slots # <<>>,
         NEW keys0 \in Seq(Id), IsInjective(keys0), asked' \in 0..MaxQuestions,
         \A x \in Range(keys0) : IF x \in Question THEN x <= asked' ELSE x <= Newest,
         NEW parent0 \in [Id -> Id \cup {Null}], NEW kids0 \in [Id -> Seq(Id)], NEW kept0, Ages(kept0),
         hasty' \in BOOLEAN, Send(q, slots, keys0, parent0, kids0, kept0)
  PROVE  TypeInv' /\ \E new : Sends1(q, new, keys0, parent0, kids0, kept0)
<1> DEFINE n == Len(slots)
<1> DEFINE new == [i \in 1..n |-> MaxQuestions + answered + i]
<1> DEFINE New(c) == c - Sent \in 1..n
<1>1. /\ answered + n <= MaxAnswers /\ Sent + n <= MaxCalls
      /\ keys' = keys0 \o new
      /\ parent' = [x \in Id |-> IF x \in Range(new) THEN q ELSE parent0[x]]
      /\ kids' = [kids0 EXCEPT ![q] = @ \o new]
      /\ slot' = [x \in Answer |-> IF x \in Range(new) THEN slots[x - MaxQuestions - answered] ELSE slot[x]]
      /\ currentId' = Last(new)
      /\ answered' = answered + n
      /\ call' = [c \in Call |-> IF New(c) THEN new[c - Sent] ELSE call[c]]
  BY DEF Send
<1>2. /\ UNCHANGED <<width, menu, done, failed, job, taskIds, loop, inbox, finishing, stale>>
      /\ \E saved \in IF "offline" \in menu THEN BOOLEAN ELSE {TRUE} :
           /\ post' = [c \in Call |-> IF ~New(c) THEN post[c] ELSE IF saved THEN "sent" ELSE "failed"]
           /\ kept' = [h \in Keeper |-> IF h \in Call /\ saved /\ New(h)
                                        THEN [id |-> new[h - Sent], is |-> "copy", parent |-> q,
                                              kids |-> <<>>]
                                        ELSE kept0[h]]
           /\ lost' = IF saved THEN lost ELSE lost \cup Range(new)
  BY DEF Send, stopping
<1>3. PICK saved \in BOOLEAN :
           /\ post' = [c \in Call |-> IF ~New(c) THEN post[c] ELSE IF saved THEN "sent" ELSE "failed"]
           /\ kept' = [h \in Keeper |-> IF h \in Call /\ saved /\ New(h)
                                        THEN [id |-> new[h - Sent], is |-> "copy", parent |-> q,
                                              kids |-> <<>>]
                                        ELSE kept0[h]]
           /\ lost' = IF saved THEN lost ELSE lost \cup Range(new)
  <2> HIDE DEF new, New
  <2> QED BY <1>2
<1>4. /\ n \in Nat \ {0} /\ answered \in Nat /\ answered + n <= MaxAnswers /\ MaxQuestions \in Nat
         /\ MaxAnswers \in Nat
      /\ MaxCalls \in Nat /\ Sent \in Nat /\ Sent + n <= MaxCalls /\ \A i \in 1..n : slots[i] \in Nat
  <2>1. \A i \in 1..n : slots[i] \in Nat
    BY ElementOfSeq
  <2>2. n \in Nat \ {0}
    BY EmptySeq
  <2>3. answered \in 0..MaxAnswers /\ Sent \in 0..MaxCalls
    BY DEF TypeInv, KeysOK, CallsOK
  <2>4. answered + n <= MaxAnswers /\ Sent + n <= MaxCalls
    BY <1>1
  <2> HIDE DEF n
  <2> QED BY <2>1, <2>2, <2>3, <2>4, Constants
<1>5. \A i \in 1..n : new[i] = Newest + i /\ new[i] \in Answer /\ new[i] > Newest
  BY <1>4 DEF Newest, Answer
<1>6. new \in Seq(Id) /\ new # <<>> /\ IsInjective(new) /\ Range(new) \subseteq Answer /\ Len(new) = n
  <2>1. new \in Seq(Answer) /\ Len(new) = n
    <3>1. new \in [1..n -> Answer]
      BY <1>5
    <3> HIDE DEF new
    <3>2. n \in Nat
      BY <1>4
    <3> HIDE DEF n
    <3>3. new \in Seq(Answer)
      BY <3>1, <3>2, SeqDef
    <3>4. Len(new) \in Nat /\ DOMAIN new = 1..Len(new) /\ DOMAIN new = 1..n
      BY <3>1, <3>3, LenProperties
    <3>5. ASSUME NEW i \in Nat, NEW j \in Nat, 1..i = 1..j PROVE i = j
      <4>1. i > 0 => i \in 1..j
        BY <3>5
      <4>2. j > 0 => j \in 1..i
        BY <3>5
      <4> QED BY <4>1, <4>2
    <3>6. 1..Len(new) = 1..n
      BY <3>4
    <3>7. Len(new) = n
      BY <3>2, <3>4, <3>5, <3>6
    <3> QED BY <3>3, <3>7
  <2>2. DOMAIN new = 1..n
    OBVIOUS
  <2>3. Newest \in Nat
    BY <1>4 DEF Newest
  <2> HIDE DEF new
  <2>4. new # <<>> /\ Range(new) \subseteq Answer
    BY <2>1, <1>4, EmptySeq, RangeOfSeq
  <2>5. IsInjective(new)
    BY <2>2, <2>3, <1>4, <1>5 DEF IsInjective
  <2>6. new \in Seq(Id)
    BY <2>1, SeqMonotonic DEF Id
  <2> QED BY <2>1, <2>4, <2>5, <2>6
<1>7. \A x \in Range(new) : x \in Answer /\ x \in Id /\ x > Newest /\ x <= Newest'
      /\ x - MaxQuestions - answered \in 1..n
  <2>1. SUFFICES ASSUME NEW i \in 1..n
                 PROVE  LET x == new[i] IN x \in Answer /\ x \in Id /\ x > Newest /\ x <= Newest'
                                           /\ x - MaxQuestions - answered \in 1..n
    <3>1. DOMAIN new = 1..n
      OBVIOUS
    <3> HIDE DEF new
    <3> QED BY <3>1 DEF Range
  <2>2. new[i] = Newest + i /\ new[i] \in Answer
    BY <1>5
  <2> DEFINE x == new[i]
  <2>3. x = MaxQuestions + answered + i /\ x \in Answer /\ answered' = answered + n
    BY <2>2, <1>1 DEF Newest
  <2> HIDE DEF x, new
  <2>4. n \in Nat /\ answered \in Nat /\ MaxQuestions \in Nat
    BY <1>4
  <2> HIDE DEF n
  <2>5. /\ x \in Answer /\ x > Newest /\ x <= Newest' /\ x - MaxQuestions - answered \in 1..n
    BY <2>3, <2>4 DEF Newest
  <2>6. x \in Id
    BY <2>3 DEF Id
  <2> QED BY <2>5, <2>6 DEF x
<1>8. \A c \in Call : New(c) => c - Sent \in 1..n /\ new[c - Sent] \in Range(new) /\ call[c] = Null
  <2>1. DOMAIN new = 1..n
    OBVIOUS
  <2> HIDE DEF new
  <2>2. SUFFICES ASSUME NEW c \in Call, c - Sent \in 1..n PROVE new[c - Sent] \in Range(new) /\ call[c] = Null
    OBVIOUS
  <2>3. ~(c <= Sent)
    BY <2>2, <1>4, Constants
  <2> QED BY <2>1, <2>2, <2>3 DEF Range, TypeInv, CallsOK
<1>9. \A i \in 1..n : \E c \in Call : New(c) /\ c - Sent = i
  <2>1. TAKE i \in 1..n
  <2>2. Sent + i \in Call /\ (Sent + i) - Sent = i /\ (Sent + i) - Sent \in 1..n
    BY <1>4 DEF Call
  <2> QED BY <2>2
<1>10. Newest \in Nat /\ Newest' \in Nat /\ Newest <= Newest' /\ answered' \in 0..MaxAnswers
  BY <1>1, <1>4 DEF Newest
<1> HIDE DEF new
<1>11. KeysOK'
  <2>1. \A x \in Range(keys0) : x \in Id /\ IF x \in Question THEN x <= asked' ELSE x <= Newest
    BY RangeOfSeq
  <2>2. Range(keys0) \cap Range(new) = {}
    BY <2>1, <1>7, <1>10, Constants, IdFacts
  <2>3. keys' \in Seq(Id) /\ IsInjective(keys') /\ Range(keys') = Range(keys0) \cup Range(new)
    BY <1>1, <1>6, <2>2, RangeOfCat DEF Cat
  <2>4. \A x \in Range(keys') : IF x \in Question THEN x <= asked' ELSE x <= Newest'
    <3>1. ASSUME NEW x \in Range(keys0) PROVE IF x \in Question THEN x <= asked' ELSE x <= Newest'
      BY <2>1, <1>10, Constants, IdFacts
    <3>2. ASSUME NEW x \in Range(new) PROVE IF x \in Question THEN x <= asked' ELSE x <= Newest'
      BY <1>7, Constants
    <3> QED BY <3>1, <3>2, <2>3
  <2> QED BY <2>3, <2>4, <1>10 DEF KeysOK, Live
<1>12. LinksOK'
  <2>1. parent' \in [Id -> Id \cup {Null}]
    BY <1>1
  <2>2. kids0[q] \o new \in Seq(Id)
    BY <1>6, ConcatProperties
  <2>3. kids' \in [Id -> Seq(Id)]
    BY <2>2, <1>1
  <2> QED BY <2>1, <2>3 DEF LinksOK
<1>13. ViewOK'
  <2>1. slot' \in [Answer -> Nat]
    <3>1. \A x \in Answer : (IF x \in Range(new) THEN slots[x - MaxQuestions - answered] ELSE slot[x]) \in Nat
      BY <1>4, <1>7 DEF TypeInv, ViewOK
    <3> QED BY <3>1, <1>1
  <2>2. currentId' \in Id
    BY <1>1, <1>6, LastIn
  <2>3. ViewOK /\ \A x \in Answer : done'[x] => x <= Newest'
    BY <1>2, <1>10, DoneStays DEF TypeInv
  <2> QED BY <2>1, <2>2, <2>3, <1>2 DEF ViewOK
<1>14. \A c \in Call : /\ call'[c] = IF New(c) THEN new[c - Sent] ELSE call[c]
                       /\ post'[c] = IF ~New(c) THEN post[c] ELSE IF saved THEN "sent" ELSE "failed"
  BY <1>1, <1>3
<1>15. CallsOK'
  <2>0. CallsOK /\ Answer \subseteq Nat
    BY IdFacts DEF TypeInv
  <2>1. call' \in [Call -> Answer \cup {Null}]
    BY <2>0, <1>1, <1>7, <1>8 DEF CallsOK
  <2>2. post' \in [Call -> {"none", "sent", "over", "failed"}]
    BY <2>0, <1>3 DEF CallsOK
  <2>3. ASSUME NEW c \in Call
        PROVE  /\ call'[c] # Null <=> c <= Sent + n
               /\ call'[c] = Null => post'[c] = "none" /\ job'[c] = "none"
               /\ call'[c] # Null => post'[c] # "none" /\ call'[c] <= Newest'
    <3>1. CASE New(c)
      <4>1. call'[c] \in Answer /\ call'[c] <= Newest' /\ post'[c] # "none"
        BY <3>1, <1>7, <1>8, <1>14
      <4>2. c <= Sent + n
        BY <3>1, <1>4, Constants
      <4> QED BY <4>1, <4>2, Constants
    <3>2. CASE ~New(c)
      <4>1. call'[c] = call[c] /\ post'[c] = post[c] /\ job'[c] = job[c]
        BY <3>2, <1>14, <1>2
      <4>2. c <= Sent <=> c <= Sent + n
        BY <3>2, <1>4, Constants
      <4>3. call[c] # Null => call[c] <= Newest'
        <5>1. SUFFICES ASSUME call[c] # Null PROVE call[c] <= Newest'
          OBVIOUS
        <5>2. call[c] <= Newest /\ call[c] \in Nat
          BY <5>1, <2>0 DEF CallsOK
        <5> QED BY <5>2, <1>10
      <4> QED BY <4>1, <4>2, <4>3, <2>0 DEF CallsOK
    <3> QED BY <3>1, <3>2
  <2>4. Sent' = Sent + n /\ Sent + n \in 0..MaxCalls
    <3>1. Sent + n \in 0..MaxCalls
      BY <1>4
    <3>2. Cardinality({c \in Call : call'[c] # Null}) = Sent + n
      BY <3>1, <2>3, Counted
    <3> QED BY <3>1, <3>2 DEF Sent
  <2> QED BY <2>0, <2>1, <2>2, <2>3, <2>4, <1>2 DEF CallsOK
<1>16. KeptOK'
  <2> DEFINE Fresh(h) == [id |-> new[h - Sent], is |-> "copy", parent |-> q, kids |-> <<>>]
  <2>1. \A h \in Call : New(h) => Fresh(h) \in Held /\ Fresh(h).id = new[h - Sent] /\ Fresh(h).id <= Newest'
    BY <1>7, <1>8, EmptySeq DEF Held
  <2>2. \A h \in Keeper : \/ h \in Call /\ saved /\ New(h) /\ kept'[h] = Fresh(h)
                          \/ ~(h \in Call /\ saved /\ New(h)) /\ kept'[h] = kept0[h]
    BY <1>3
  <2>3. kept' = [h \in Keeper |-> kept'[h]]
    BY <1>3
  <2>4. \A h \in Keeper : kept0[h] # Null => kept0[h] \in Held /\ kept0[h].id <= Newest'
    <3>1. TAKE h \in Keeper
    <3>2. kept0[h] # Null => kept0[h] \in Held /\ kept0[h].id = kept[h].id /\ kept[h].id <= Newest
      BY DEF Ages, TypeInv, KeptOK
    <3>3. kept0[h] \in Held => kept0[h].id \in Nat
      BY IdFacts DEF Held
    <3> QED BY <3>2, <3>3, <1>10
  <2> HIDE DEF Fresh
  <2>5. \A h \in Keeper : kept'[h] \in Held \cup {Null}
    BY <2>1, <2>2 DEF Ages
  <2>6. \A h \in Keeper : kept'[h] # Null => kept'[h] \in Held /\ kept'[h].id <= Newest'
    BY <2>1, <2>2, <2>4
  <2>7. ASSUME NEW c \in Call, post'[c] = "sent" PROVE kept'[c] \in Held /\ kept'[c].id = call'[c]
    <3>0. c \in Keeper
      BY Constants
    <3>1. CASE New(c)
      <4>1. saved /\ call'[c] = new[c - Sent]
        BY <3>1, <2>7, <1>14
      <4> QED BY <4>1, <3>0, <3>1, <2>1, <2>2
    <3>2. CASE ~New(c)
      <4>1. post[c] = "sent" /\ call'[c] = call[c] /\ kept'[c] = kept0[c]
        BY <3>0, <3>2, <2>2, <2>7, <1>14
      <4> QED BY <4>1, <3>0 DEF TypeInv, KeptOK, Ages
    <3> QED BY <3>1, <3>2
  <2> QED BY <2>3, <2>5, <2>6, <2>7 DEF KeptOK, Held
<1>17. QueuesOK' /\ RestOK'
  <2>1. lost' \subseteq Answer
    BY <1>3, <1>7 DEF TypeInv, RestOK
  <2> QED BY <2>1, <1>2 DEF TypeInv, QueuesOK, RestOK
<1>18. Sends1(q, new, keys0, parent0, kids0, kept0)
  <2>1. \A x \in Id : parent'[x] = IF x \in Range(new) THEN q ELSE parent0[x]
    BY <1>1
  <2>2. ASSUME NEW c \in Call
        PROVE  \/ call[c] # Null /\ call'[c] = call[c] /\ post'[c] = post[c]
               \/ call[c] = Null /\ (\/ call'[c] = Null /\ post'[c] = "none"
                                     \/ call'[c] \in Range(new) /\ post'[c] \in {"sent", "failed"})
    BY <1>8, <1>14 DEF TypeInv, CallsOK
  <2>3. ASSUME NEW a \in Range(new), a \notin lost'
        PROVE  \E c \in Call : call'[c] = a /\ post'[c] = "sent" /\ job[c] = "none"
    <3>1. saved
      BY <2>3, <1>3
    <3>2. PICK i \in 1..n : a = new[i]
      BY <1>6, LenProperties DEF Range
    <3>4. PICK c \in Call : New(c) /\ c - Sent = i
      BY <1>9
    <3>5. call'[c] = a /\ post'[c] = "sent"
      BY <3>1, <3>2, <3>4, <1>14
    <3>6. job[c] = "none"
      BY <3>4, <1>8 DEF TypeInv, CallsOK
    <3> QED BY <3>4, <3>5, <3>6
  <2>4. lost \subseteq lost'
    BY <1>3
  <2>5. \A h \in Keeper \ Call : kept'[h] = kept0[h]
    BY <1>3
  <2>6. currentId' \in Range(new)
    BY <1>1, <1>6, LastIn
  <2>7. kids' = [kids0 EXCEPT ![q] = Cat(@, new)] /\ keys' = Cat(keys0, new)
    BY <1>1 DEF Cat
  <2> QED BY <2>1, <2>2, <2>3, <2>4, <2>5, <2>6, <2>7, <1>2, <1>6, <1>7 DEF Sends1
<1> QED BY <1>11, <1>12, <1>13, <1>15, <1>16, <1>17, <1>18 DEF TypeInv

\* What the reader of the chat sees of a step, as long as nothing outdated is written (MessageTree).
Grows ==
  \E new : /\ new # {} /\ new \cap Live = {} /\ Live' = Live \cup new
           /\ \A x \in Live : parent'[x] = parent[x] /\ done'[x] = done[x]
           /\ \A x \in new \cap Question : parent'[x] \in Live \cup {Null}
           /\ currentId' \in new

\* Answers become complete; a failure may show one that does.
Settles ==
  /\ UNCHANGED <<keys, parent>> /\ \A x \in Live \cap Answer : done[x] => done'[x]
  /\ currentId' # currentId => currentId' \in Live \cap Answer /\ ~done[currentId'] /\ done'[currentId']

\* The answer shown is continued.
Reopens ==
  /\ UNCHANGED <<keys, parent, currentId>> /\ currentId \in Live \cap Answer
  /\ \A x \in Live : done'[x] = (done[x] /\ x # currentId)

\* Another message is shown.
Turns == UNCHANGED <<keys, parent, done>> /\ currentId' \in Live

\* A message goes, with those directly below it; what is further below moves up.
Removes ==
  \E x \in Live : \E gone :
    /\ gone = {x} \cup {y \in Live : parent[y] = x} /\ Live' = Live \ gone
    /\ \A y \in Live \ gone : /\ parent'[y] = IF parent[y] \in gone THEN parent[x] ELSE parent[y]
                              /\ done'[y] = done[y]

\* A step, as the reader sees it: after an outdated message was written, anything.
TreeStep ==
  \/ stale' = stale /\ (stale = {} => Grows \/ Settles \/ Reopens \/ Turns \/ Removes)
  \/ stale' # {}

\* Sending below a question, once the caller has entered it in the tree.
LEMMA SendKeeps ==
  ASSUME ChatInv, NEW q \in Id, NEW slots \in Seq(Nat), slots # <<>>,
         NEW keys0 \in Seq(Id), IsInjective(keys0), asked' \in 0..MaxQuestions,
         \A x \in Range(keys0) : IF x \in Question THEN x <= asked' ELSE x <= Newest,
         NEW parent0 \in [Id -> Id \cup {Null}], NEW kids0 \in [Id -> Seq(Id)], NEW kept0, Ages(kept0),
         hasty' \in BOOLEAN, Send(q, slots, keys0, parent0, kids0, kept0),
         Live \subseteq Range(keys0), \A x \in Range(keys0) : x \in Live \/ (x = q /\ q \in Question),
         stale = {} => /\ IsTree(Range(keys0), parent0, kids0) /\ q \in Range(keys0) /\ q \in Question
                       /\ \A x \in Range(keys0) \cap Question : x = q \/ kids0[x] # <<>>
                       /\ \A x \in Live : parent0[x] = parent[x]
                       /\ q \notin Live => parent0[q] \in Live \cup {Null},
         ~hasty' => ~hasty /\ \A c \in Call : post[c] = "sent" => kids0[call[c]] = kids[call[c]]
  PROVE  ChatInv' /\ TreeStep
<1>0. TypeInv /\ TreeInv /\ LeafInv /\ WorkInv
  BY DEF ChatInv
<1>1. TypeInv' /\ \E new : Sends1(q, new, keys0, parent0, kids0, kept0)
  BY <1>0, SendIs
<1>2. PICK new : Sends1(q, new, keys0, parent0, kids0, kept0)
  BY <1>1
<1>3. /\ new \in Seq(Id) /\ new # <<>> /\ IsInjective(new) /\ Range(new) \subseteq Answer
      /\ \A x \in Range(new) : x > Newest
      /\ keys' = Cat(keys0, new)
      /\ \A x \in Id : parent'[x] = IF x \in Range(new) THEN q ELSE parent0[x]
      /\ kids' = [kids0 EXCEPT ![q] = Cat(@, new)]
      /\ currentId' \in Range(new)
  BY <1>2 DEF Sends1
<1>4. /\ \A c \in Call : \/ call[c] # Null /\ call'[c] = call[c] /\ post'[c] = post[c]
                         \/ call[c] = Null /\ (\/ call'[c] = Null /\ post'[c] = "none"
                                               \/ call'[c] \in Range(new) /\ post'[c] \in {"sent", "failed"})
      /\ \A a \in Range(new) : a \in lost' \/ \E c \in Call : call'[c] = a /\ post'[c] = "sent"
         /\ job[c] = "none"
      /\ lost \subseteq lost'
      /\ \A h \in Keeper \ Call : kept'[h] = kept0[h]
      /\ UNCHANGED <<width, menu, done, failed, job, taskIds, loop, inbox, finishing, stale>>
  BY <1>2 DEF Sends1
<1>5. Range(keys0) \subseteq Id /\ Range(new) \cap Range(keys0) = {} /\ Live' = Range(keys0) \cup Range(new)
  <2>1. \A x \in Range(keys0) : x \in Id /\ IF x \in Question THEN TRUE ELSE x <= Newest
    BY RangeOfSeq
  <2>2. Newest \in Nat
    BY <1>0, Constants DEF TypeInv, KeysOK, Newest
  <2>3. \A x \in Range(new) : x \notin Question /\ x \in Nat /\ ~(x <= Newest)
    BY <2>2, <1>3, IdFacts
  <2>4. Range(Cat(keys0, new)) = Range(keys0) \cup Range(new)
    BY <1>3, RangeOfCat
  <2> QED BY <2>1, <2>3, <2>4, <1>3 DEF Live
<1>6. Range(new) # {}
  BY <1>3
<1>7. stale = {} => IsTree(Live', parent', kids')
  <2>1. SUFFICES ASSUME stale = {} PROVE IsTree(Range(keys0) \cup Range(new), parent', kids')
    BY <1>5
  <2>2. IsTree(Range(keys0), parent0, kids0) /\ q \in Range(keys0) \cup {Null} /\ q \in Question
    BY <2>1
  <2>3. \A x \in Range(new) : q \in IF x \in Question THEN Answer \cup {Null} ELSE Question
    BY <2>2, <1>3, Constants
  <2>4. \A x \in Id : kids'[x] = IF x = q THEN Cat(kids0[x], new) ELSE kids0[x]
    BY <1>3
  <2>5. /\ new \in Seq(Id) /\ IsInjective(new) /\ Range(new) \cap Range(keys0) = {}
           /\ Range(keys0) \subseteq Id
        /\ \A x \in Id : parent'[x] = IF x \in Range(new) THEN q ELSE parent0[x]
    BY <1>3, <1>5
  <2> DEFINE p2 == parent'
  <2> DEFINE k2 == kids'
  <2> DEFINE L0 == Range(keys0)
  <2>6. /\ \A x \in Id : p2[x] = IF x \in Range(new) THEN q ELSE parent0[x]
        /\ \A x \in Id : k2[x] = IF x = q THEN Cat(kids0[x], new) ELSE kids0[x]
    BY <2>4, <2>5
  <2>7. L0 \subseteq Id /\ Range(new) \cap L0 = {} /\ IsTree(L0, parent0, kids0) /\ q \in L0 \cup {Null}
    BY <2>2, <2>5
  <2>8. IsTree(L0 \cup Range(new), p2, k2)
    <3> HIDE DEF p2, k2, L0
    <3>1. Adds(L0, parent0, kids0, q, new, p2, k2)
      BY <2>3, <2>5, <2>6, <2>7 DEF Adds
    <3> QED BY <3>1, AddBelow
  <2> QED BY <2>8
<1>8. stale = {} => \A x \in Live' \cap Question : kids'[x] # <<>>
  <2>1. SUFFICES ASSUME stale = {}, NEW x \in Range(keys0), x \in Question PROVE kids'[x] # <<>>
    BY <1>3, <1>5, Constants
  <2>2. x \in Id /\ kids0[x] \in Seq(Id)
    BY <1>5
  <2>3. CASE x = q
    <3>1. kids'[x] = Cat(kids0[x], new)
      BY <2>2, <2>3, <1>3
    <3> QED BY <3>1, <2>2, <1>3, RangeOfCat
  <2>4. CASE x # q
    BY <2>1, <2>2, <2>4, <1>3
  <2> QED BY <2>3, <2>4
<1>9. TreeInv'
  <2>1. currentId' \in Live' \cap Answer
    BY <1>3, <1>5
  <2> QED BY <2>1, <1>4, <1>7, <1>8 DEF TreeInv
<1>10. LeafInv'
  <2>1. SUFFICES ASSUME stale = {}, ~hasty'
                 PROVE  kids'[currentId'] = <<>>
                        /\ \A c \in Call : post'[c] = "sent" => kids'[call'[c]] = <<>>
    BY <1>4 DEF LeafInv
  <2>2. \A x \in Range(new) : kids'[x] = <<>>
    <3>1. \A x \in Id \ Range(keys0) : kids0[x] = <<>>
      BY <2>1 DEF IsTree, Bare
    <3>2. \A x \in Range(new) : x \in Id \ Range(keys0) /\ x # q
      BY <2>1, <1>3, <1>5, Constants
    <3> QED BY <3>1, <3>2, <1>3
  <2>3. ASSUME NEW c \in Call, post'[c] = "sent" PROVE kids'[call'[c]] = <<>>
    <3>1. CASE call[c] # Null /\ call'[c] = call[c] /\ post'[c] = post[c]
      <4>1. kids[call[c]] = <<>> /\ kids0[call[c]] = kids[call[c]]
        BY <2>1, <2>3, <3>1, <1>0 DEF LeafInv
      <4>2. call[c] \in Answer /\ call[c] \in Id /\ call[c] # q
        BY <3>1, <2>1, <1>0, Constants DEF TypeInv, CallsOK
      <4> QED BY <4>1, <4>2, <3>1, <1>3
    <3>2. CASE call'[c] \in Range(new)
      BY <3>2, <2>2
    <3> QED BY <3>1, <3>2, <2>3, <1>4
  <2> QED BY <2>2, <2>3, <1>3
<1>11. WorkInv'
  <2>1. ASSUME NEW a \in Live' \cap Answer
        PROVE  (done[a] \/ a \in lost \/ EndComes(a) \/ \E c \in Call : call[c] = a /\ Unfinished(c))'
    <3>1. CASE a \in Range(new)
      BY <3>1, <1>4 DEF Unfinished
    <3>2. CASE a \notin Range(new)
      <4>1. a \in Live
        BY <3>2, <2>1, <1>5, Constants
      <4>2. done[a] \/ a \in lost \/ EndComes(a) \/ \E c \in Call : call[c] = a /\ Unfinished(c)
        BY <4>1, <1>0 DEF WorkInv
      <4>3. (done[a] => done'[a]) /\ (a \in lost => a \in lost') /\ (EndComes(a) => EndComes(a)')
        BY <1>4 DEF EndComes
      <4>4. ASSUME NEW c \in Call, call[c] = a, Unfinished(c) PROVE call'[c] = a /\ Unfinished(c)'
        BY <4>4, <2>1, <1>4, Constants DEF Unfinished
      <4> QED BY <4>2, <4>3, <4>4
    <3> QED BY <3>1, <3>2
  <2>2. \A c \in Call : post[c] = "over" => post'[c] = "over"
    BY <1>0, <1>4 DEF TypeInv, CallsOK
  <2>3. \A c \in Call : post'[c] = "over" => job'[c] # "none"
    <3>1. \A c \in Call : post[c] = "over" => job[c] # "none"
      BY <1>0 DEF WorkInv
    <3>2. \A c \in Call : post'[c] = "over" => post[c] = "over"
      BY <1>4
    <3> QED BY <3>1, <3>2, <1>4
  <2>4. taskIds' # Null => \A c \in Range(taskIds') : post'[c] = "over"
    <3>1. taskIds # Null => Range(taskIds) \subseteq Call
      BY <1>0, RangeOfSeq DEF TypeInv, QueuesOK
    <3> QED BY <3>1, <2>2, <1>0, <1>4 DEF WorkInv
  <2>5. loop' # Null => \A c \in Range(loop.arr') : post'[c] = "over"
    <3>1. loop # Null => Range(loop.arr) \subseteq Call
      BY <1>0, RangeOfSeq DEF TypeInv, QueuesOK
    <3> QED BY <3>1, <2>2, <1>0, <1>4 DEF WorkInv
  <2>6. ASSUME NEW h \in {Title, Merge}, kept'[h] # Null
        PROVE  kept'[h].is \in {"object", "old"} /\ (kept'[h].is = "object" => kept'[h].id \in Live')
    <3>1. h \in Keeper \ Call /\ kept'[h] = kept0[h]
      BY <1>4, Constants
    <3>2. kept[h] # Null => kept[h].is \in {"object", "old"} /\ (kept[h].is = "object" => kept[h].id \in Live)
      BY <1>0 DEF WorkInv
    <3>3. /\ kept[h] # Null /\ kept0[h].id = kept[h].id
          /\ kept0[h].is = kept[h].is \/ (kept[h].is = "object" /\ kept0[h].is = "old")
      BY <3>1, <2>6 DEF Ages
    <3> QED BY <3>1, <3>2, <3>3, <1>5
  <2> QED BY <2>1, <2>3, <2>4, <2>5, <2>6 DEF WorkInv
<1>12. stale' = stale /\ (stale = {} => Grows)
  <2>1. SUFFICES ASSUME stale = {} PROVE Grows
    BY <1>4
  <2> DEFINE more == Live' \ Live
  <2>2. Range(new) \subseteq more /\ more \subseteq Range(new) \cup {q} /\ Live \subseteq Live'
    BY <1>5
  <2>3. \A x \in Live : parent'[x] = parent[x] /\ done'[x] = done[x]
    BY <2>1, <1>3, <1>4, <1>5
  <2>4. ASSUME NEW x \in more, x \in Question PROVE parent'[x] \in Live \cup {Null}
    <3>1. x = q /\ q \notin Live /\ q \notin Range(new)
      BY <2>1, <2>2, <2>4, <1>3, Constants
    <3> QED BY <3>1, <2>1, <1>3
  <2> HIDE DEF more
  <2>5. more # {} /\ currentId' \in more
    BY <2>2, <1>3
  <2>6. more \cap Live = {} /\ Live' = Live \cup more
    BY <2>2 DEF more
  <2> QED BY <2>3, <2>4, <2>5, <2>6 DEF Grows
<1> QED BY <1>1, <1>9, <1>10, <1>11, <1>12 DEF ChatInv, TreeStep

-----------------------------------------------------------------------------
(* Prompts, suggestions, edits and other answers.                          *)

\* One more at the end of a sequence.
LEMMA Appended ==
  ASSUME NEW T, NEW s \in Seq(T), NEW y \in T
  PROVE  /\ Append(s, y) \in Seq(T) /\ Append(s, y) # <<>> /\ Range(Append(s, y)) = Range(s) \cup {y}
         /\ IsInjective(s) /\ y \notin Range(s) => IsInjective(Append(s, y))
<1> DEFINE one == <<y>>
<1>1. one \in Seq(T) /\ Range(one) = {y} /\ IsInjective(one) /\ one # <<>>
  BY DEF Range, IsInjective
<1>2. Append(s, y) = Cat(s, one)
  BY AppendIsConcat DEF Cat
<1>3. Range(s) \cap {y} = {} <=> y \notin Range(s)
  OBVIOUS
<1> HIDE DEF one
<1> QED BY <1>1, <1>2, <1>3, RangeOfCat

\* Append, as a concatenation.
LEMMA AppendIs ==
  ASSUME NEW T, NEW s \in Seq(T), NEW y \in T
  PROVE  Append(s, y) = Cat(s, <<y>>)
BY AppendIsConcat DEF Cat

\* The number of the next question, and of the next answer, is not in use.
LEMMA NextQuestion ==
  ASSUME TypeInv, asked < MaxQuestions
  PROVE  asked + 1 \in Question /\ asked + 1 \in Id /\ asked + 1 \notin Live /\ asked + 1 \in 0..MaxQuestions
<1>1. asked \in 0..MaxQuestions /\ MaxQuestions \in Nat
  BY Constants DEF TypeInv, KeysOK
<1>2. asked + 1 \in 1..MaxQuestions /\ ~(asked + 1 <= asked)
  BY <1>1
<1>3. asked + 1 \in Question
  BY <1>2 DEF Question
<1> QED BY <1>2, <1>3, <1>1, Constants DEF TypeInv, KeysOK

\* The same of answers.
LEMMA NextAnswer ==
  ASSUME TypeInv, answered < MaxAnswers
  PROVE  /\ Newest + 1 \in Answer /\ Newest + 1 \in Id /\ Newest + 1 \notin Live
         /\ answered + 1 \in 0..MaxAnswers
         /\ Newest + 1 \notin Question /\ Newest \in Nat
<1>1. answered \in 0..MaxAnswers /\ MaxAnswers \in Nat /\ MaxQuestions \in Nat
  BY Constants DEF TypeInv, KeysOK
<1>2. Newest \in Nat /\ Newest + 1 \in MaxQuestions + 1..MaxQuestions + MaxAnswers /\ ~(Newest + 1 <= Newest)
  BY <1>1 DEF Newest
<1>3. Newest + 1 \in Answer
  BY <1>2 DEF Answer
<1> QED BY <1>1, <1>2, <1>3, Constants DEF TypeInv, KeysOK

\* Questions are asked below answers, or start a tree.
LEMMA AskKeeps ==
  ASSUME ChatInv, NEW up \in Id \cup {Null}, NEW pushes \in BOOLEAN, Ask(up, pushes),
         stale = {} => up \in (Live \cap Answer) \cup {Null}
  PROVE  ChatInv' /\ TreeStep
<1> DEFINE q == asked + 1
<1> DEFINE keys0 == Append(keys, q)
<1> DEFINE parent0 == [parent EXCEPT ![q] = up]
<1> DEFINE kids0 == IF up # Null THEN [kids EXCEPT ![up] = Append(@, q)] ELSE kids
<1> DEFINE kept0 == IF up # Null /\ pushes THEN Pushed(up, q) ELSE kept
<1> DEFINE slots == [i \in 1..width |-> i]
<1>0. TypeInv /\ TreeInv /\ LeafInv
  BY DEF ChatInv
<1>1. /\ asked < MaxQuestions /\ asked' = q
      /\ hasty' = (hasty \/ (up # Null /\ Pending(up)))
      /\ Send(q, slots, keys0, parent0, kids0, kept0)
  BY DEF Ask
<1>2. q \in Question /\ q \in Id /\ q \notin Live /\ q \in 0..MaxQuestions
  BY <1>0, <1>1, NextQuestion
<1>3. KeysOK /\ LinksOK /\ KeptOK /\ RestOK /\ Live = Range(keys)
  BY <1>0 DEF TypeInv, Live
<1>4. asked' \in 0..MaxQuestions /\ hasty' \in BOOLEAN
  BY <1>1, <1>2, <1>3 DEF RestOK
<1>5. slots \in Seq(Nat) /\ slots # <<>>
  <2>1. width \in Nat \ {0}
    BY <1>3, HistoryAssumption DEF RestOK
  <2>2. slots \in [1..width -> Nat]
    BY <2>1
  <2>3. slots \in Seq(Nat)
    BY <2>1, <2>2, SeqDef
  <2>4. 1 \in DOMAIN slots
    BY <2>1
  <2> HIDE DEF slots
  <2> QED BY <2>3, <2>4, EmptySeq, LenProperties
<1>6. /\ keys0 \in Seq(Id) /\ IsInjective(keys0) /\ Range(keys0) = Live \cup {q} /\ keys \in Seq(Id)
      /\ Live \subseteq Id
  <2>1. keys \in Seq(Id) /\ IsInjective(keys) /\ Live \subseteq Id
    BY <1>3, RangeOfSeq DEF KeysOK
  <2> HIDE DEF q
  <2>2. keys0 \in Seq(Id) /\ IsInjective(keys0) /\ Range(keys0) = Range(keys) \cup {q}
    <3>1. q \in Id /\ q \notin Range(keys)
      BY <1>2, <1>3
    <3> QED BY <2>1, <3>1, Appended
  <2> QED BY <2>1, <2>2, <1>3
<1>7. \A x \in Range(keys0) : IF x \in Question THEN x <= asked' ELSE x <= Newest
  <2>1. asked \in Nat /\ \A x \in Question : x \in Nat
    BY <1>3, IdFacts DEF KeysOK
  <2>2. q <= asked'
    BY <2>1, <1>1
  <2>3. \A x \in Live : IF x \in Question THEN x <= asked' ELSE x <= Newest
    BY <2>1, <1>1, <1>3 DEF KeysOK
  <2> QED BY <2>2, <2>3, <1>2, <1>6
<1> HIDE DEF keys0, slots, q
<1>8. parent0 \in [Id -> Id \cup {Null}]
  BY <1>3 DEF LinksOK
<1>9. kids0 \in [Id -> Seq(Id)]
  <2>1. \A x \in Id : Append(kids[x], q) \in Seq(Id)
    BY <1>2, <1>3, Appended DEF LinksOK
  <2> QED BY <2>1, <1>3 DEF LinksOK
<1>10. Ages(kept0)
  BY <1>2, <1>3, KeptAges, PushedAges
<1>11. ASSUME stale = {}
       PROVE  /\ IsTree(Range(keys0), parent0, kids0) /\ q \in Range(keys0) /\ q \in Question
              /\ \A x \in Range(keys0) \cap Question : x = q \/ kids0[x] # <<>>
              /\ \A x \in Live : parent0[x] = parent[x]
              /\ q \notin Live => parent0[q] \in Live \cup {Null}
  <2>1. IsTree(Live, parent, kids) /\ up \in (Live \cap Answer) \cup {Null}
        /\ \A x \in Live \cap Question : kids[x] # <<>>
    BY <1>11, <1>0 DEF TreeInv
  <2>2. <<q>> \in Seq(Id) /\ Range(<<q>>) = {q} /\ IsInjective(<<q>>)
    BY <1>2 DEF Range, IsInjective
  <2>3. \A x \in Id : kids0[x] = IF x = up THEN Cat(kids[x], <<q>>) ELSE kids[x]
    <3>1. \A x \in Id : Append(kids[x], q) = Cat(kids[x], <<q>>)
      BY <1>2, <1>3, AppendIs DEF LinksOK
    <3>2. Null \notin Id
      BY Constants
    <3> QED BY <3>1, <3>2, <1>3 DEF LinksOK
  <2>4. \A x \in Id : parent0[x] = IF x \in {q} THEN up ELSE parent[x]
    BY <1>3 DEF LinksOK
  <2> DEFINE one == <<q>>
  <2> HIDE DEF parent0, kids0, one
  <2>5. Adds(Live, parent, kids, up, one, parent0, kids0)
    BY <2>1, <2>2, <2>3, <2>4, <1>2, <1>3, <1>6 DEF Adds, LinksOK, one
  <2>6. IsTree(Live \cup Range(one), parent0, kids0)
    BY <2>5, AddBelow
  <2>7. IsTree(Range(keys0), parent0, kids0)
    BY <2>2, <2>6, <1>6 DEF one
  <2>8. ASSUME NEW x \in Range(keys0) \cap Question PROVE x = q \/ kids0[x] # <<>>
    <3>1. x # q => x \in Live /\ x # up /\ x \in Id
      BY <2>1, <1>6, Constants
    <3> QED BY <3>1, <2>1, <2>3
  <2> QED BY <2>1, <2>4, <2>7, <2>8, <1>2, <1>6
<1>12. ~hasty' => ~hasty /\ \A c \in Call : post[c] = "sent" => kids0[call[c]] = kids[call[c]]
  <2>1. SUFFICES ASSUME ~hasty', NEW c \in Call, post[c] = "sent" PROVE kids0[call[c]] = kids[call[c]]
    BY <1>1
  <2>2. up # Null => call[c] # up
    BY <2>1, <1>1 DEF Pending, Working
  <2>3. kids \in [Id -> Seq(Id)] /\ call[c] \in Id
    <3>1. call[c] \in Answer
      BY <2>1, <1>0, Constants DEF TypeInv, CallsOK
    <3> QED BY <3>1, <1>3, Constants DEF LinksOK
  <2> QED BY <2>2, <2>3
<1>13. \A x \in Range(keys0) : x \in Live \/ (x = q /\ q \in Question)
  BY <1>2, <1>6
<1>14. Live \subseteq Range(keys0)
  BY <1>6
<1> HIDE DEF parent0, kids0, kept0
<1> QED BY <1>1, <1>2, <1>4, <1>5, <1>6, <1>7, <1>8, <1>9, <1>10, <1>11, <1>12, <1>13, <1>14, SendKeeps

\* What is shown, and what is above a message, is a message or nothing.
LEMMA Places ==
  ASSUME ChatInv
  PROVE  /\ currentId \in Id \cup {Null} /\ Live \subseteq Id
         /\ stale = {} => /\ currentId \in (Live \cap Answer) \cup {Null}
                          /\ \A x \in Live : /\ parent[x] # Null => parent[x] \in Live
                                             /\ x \in Question => parent[x] \in (Live \cap Answer) \cup {Null}
                                             /\ x \in Answer => parent[x] \in Live \cap Question
<1>1. TypeInv /\ TreeInv /\ Live = Range(keys)
  BY DEF ChatInv, Live
<1>2. currentId \in Id \cup {Null} /\ Live \subseteq Id
  BY <1>1, RangeOfSeq DEF TypeInv, ViewOK, KeysOK
<1>3. ASSUME stale = {}
      PROVE  /\ currentId \in (Live \cap Answer) \cup {Null}
             /\ \A x \in Live : /\ parent[x] # Null => parent[x] \in Live
                                /\ x \in Question => parent[x] \in (Live \cap Answer) \cup {Null}
                                /\ x \in Answer => parent[x] \in Live \cap Question
  <2>1. IsTree(Live, parent, kids) /\ currentId \in (Live \cap Answer) \cup {Null}
    BY <1>1, <1>3 DEF TreeInv
  <2>2. \A x \in Live : /\ parent[x] # Null => parent[x] \in Live
                        /\ parent[x] \in IF x \in Question THEN Answer \cup {Null} ELSE Question
    BY <2>1 DEF IsTree, Linked, Alternating
  <2> QED BY <2>1, <2>2, Constants
<1> QED BY <1>2, <1>3

\* The prompts typed, suggested and edited.
LEMMA SubmitKeeps ==
  ASSUME ChatInv, SubmitPrompt \/ \E x \in Live : SubmitMessage(x) \/ EditQuestion(x)
  PROVE  ChatInv' /\ TreeStep
<1>0. TypeInv /\ LinksOK
  BY DEF ChatInv, TypeInv
<1>1. CASE SubmitPrompt
  BY <1>1, Places, AskKeeps DEF SubmitPrompt
<1>2. ASSUME NEW x \in Live, SubmitMessage(x) PROVE ChatInv' /\ TreeStep
  <2>1. Ask(x, FALSE) /\ x \in Answer /\ x \in Id
    BY <1>2, Places DEF SubmitMessage
  <2> QED BY <2>1, AskKeeps
<1>3. ASSUME NEW x \in Live, EditQuestion(x) PROVE ChatInv' /\ TreeStep
  <2>1. Ask(parent[x], FALSE) /\ x \in Question /\ x \in Id
    BY <1>3, Places DEF EditQuestion
  <2>2. parent[x] \in Id \cup {Null} /\ (stale = {} => parent[x] \in (Live \cap Answer) \cup {Null})
    BY <2>1, <1>0, Places DEF LinksOK
  <2> QED BY <2>1, <2>2, AskKeeps
<1> QED BY <1>1, <1>2, <1>3

\* Another answer to a question, by its own model or by all that are selected.
LEMMA RegenerateKeeps ==
  ASSUME ChatInv, NEW a \in Live, RegenerateResponse(a)
  PROVE  ChatInv' /\ TreeStep
<1> DEFINE slots == IF width > 1 THEN <<slot[a]>> ELSE <<1>>
<1>0. TypeInv /\ TreeInv /\ LeafInv
  BY DEF ChatInv
<1>1. /\ a \in Answer /\ parent[a] \in Live /\ Send(parent[a], slots, keys, parent, kids, kept)
      /\ asked' = asked /\ hasty' = hasty
  BY DEF RegenerateResponse
<1>2. KeysOK /\ LinksOK /\ KeptOK /\ RestOK /\ ViewOK /\ Live = Range(keys) /\ Live \subseteq Id
  BY <1>0, Places DEF TypeInv, Live
<1>3. slots \in Seq(Nat) /\ slots # <<>>
  <2>1. slot[a] \in Nat
    BY <1>1, <1>2 DEF ViewOK
  <2>2. <<slot[a]>> \in Seq(Nat) /\ <<1>> \in Seq(Nat)
    BY <2>1
  <2> QED BY <2>2
<1>4. /\ keys \in Seq(Id) /\ IsInjective(keys) /\ asked' \in 0..MaxQuestions /\ hasty' \in BOOLEAN
      /\ \A x \in Range(keys) : IF x \in Question THEN x <= asked' ELSE x <= Newest
  BY <1>1, <1>2 DEF KeysOK, RestOK
<1>5. parent \in [Id -> Id \cup {Null}] /\ kids \in [Id -> Seq(Id)] /\ Ages(kept)
  BY <1>2, KeptAges DEF LinksOK
<1>6. ASSUME stale = {}
      PROVE  /\ IsTree(Range(keys), parent, kids) /\ parent[a] \in Range(keys) /\ parent[a] \in Question
             /\ \A x \in Range(keys) \cap Question : x = parent[a] \/ kids[x] # <<>>
  BY <1>0, <1>1, <1>2, <1>6, Places DEF TreeInv
<1> HIDE DEF slots
<1> QED BY <1>1, <1>2, <1>3, <1>4, <1>5, <1>6, SendKeeps

-----------------------------------------------------------------------------
(* What the user does to the tree without asking a model.                  *)

\* Steps that leave the server and its requests alone.
Quiet == UNCHANGED <<width, menu, call, post, job, inbox, finishing>>

\* Handlers that keep no copy have the object of a message that exists, or an old one.
ObjectsLive ==
  \A h \in {Title, Merge} :
    kept[h] # Null => kept[h].is \in {"object", "old"} /\ (kept[h].is = "object" => kept[h].id \in Live)

\* Answers have numbers.
LEMMA Numbered ==
  ASSUME NEW n \in 0..MaxAnswers
  PROVE  MaxQuestions + n \in Nat
BY HistoryAssumption

\* Such steps keep the types if they do of what they change.
LEMMA QuietTypes ==
  ASSUME TypeInv, Quiet, UNCHANGED <<taskIds, loop, lost>>, KeysOK', LinksOK', ViewOK', RestOK', Ages(kept'),
         Newest <= Newest'
  PROVE  TypeInv'
<1>1. KeysOK /\ CallsOK /\ KeptOK /\ QueuesOK
  BY DEF TypeInv
<1>2. Newest \in Nat /\ Newest' \in Nat
  <2>1. answered \in 0..MaxAnswers /\ answered' \in 0..MaxAnswers
    BY <1>1 DEF KeysOK
  <2>3. MaxQuestions + answered \in Nat /\ MaxQuestions + answered' \in Nat
    BY <2>1, Numbered
  <2>4. Newest = MaxQuestions + answered /\ Newest' = MaxQuestions + answered'
    BY DEF Newest
  <2> QED BY <2>3, <2>4
<1>3. UNCHANGED <<call, post, job, inbox, finishing>>
  BY DEF Quiet
<1>4. KeptOK'
  BY <1>1, <1>2, <1>3, KeptStays
<1>5. CallsOK'
  <2>1. /\ call \in [Call -> Answer \cup {Null}]
        /\ post \in [Call -> {"none", "sent", "over", "failed"}]
        /\ job \in [Call -> {"none", "running", "tidying", "ended"}]
        /\ Sent \in 0..MaxCalls
        /\ \A c \in Call : /\ call[c] # Null <=> c <= Sent
                           /\ call[c] = Null => post[c] = "none" /\ job[c] = "none"
                           /\ call[c] # Null => post[c] # "none" /\ call[c] <= Newest
    BY <1>1 DEF CallsOK
  <2>2. Sent' = Sent
    BY <1>3 DEF Sent
  <2>3. \A c \in Call : call[c] # Null => call[c] <= Newest'
    <3>1. SUFFICES ASSUME NEW c \in Call, call[c] # Null PROVE call[c] <= Newest'
      OBVIOUS
    <3>2. call[c] <= Newest /\ call[c] \in Nat
      BY <2>1, <3>1, IdFacts
    <3> QED BY <3>2, <1>2
  <2> QED BY <2>1, <2>2, <2>3, <1>3 DEF CallsOK
<1>6. QueuesOK'
  BY <1>1, <1>3 DEF QueuesOK
<1> QED BY <1>4, <1>5, <1>6 DEF TypeInv

\* As long as messages are only added, an object that is kept is one of a message.
LEMMA AgedObjects ==
  ASSUME WorkInv, Ages(kept'), Live \subseteq Live'
  PROVE  ObjectsLive'
<1>1. SUFFICES ASSUME NEW h \in {Title, Merge}, kept'[h] # Null
               PROVE  kept'[h].is \in {"object", "old"} /\ (kept'[h].is = "object" => kept'[h].id \in Live')
  BY DEF ObjectsLive
<1>2. h \in Keeper
  BY Constants
<1>3. /\ kept[h] # Null /\ kept'[h].id = kept[h].id
      /\ kept'[h].is = kept[h].is \/ (kept[h].is = "object" /\ kept'[h].is = "old")
  BY <1>1, <1>2 DEF Ages
<1>4. kept[h].is \in {"object", "old"} /\ (kept[h].is = "object" => kept[h].id \in Live)
  BY <1>3 DEF WorkInv
<1> QED BY <1>3, <1>4

\* Such steps leave no answer without somebody who works on it, unless they complete it.
LEMMA QuietWork ==
  ASSUME WorkInv, UNCHANGED <<call, post, job, taskIds, loop, inbox>>, lost \subseteq lost', ObjectsLive',
         \A x \in Live' \cap Answer : done'[x] \/ (x \in Live /\ (done[x] => done'[x]))
  PROVE  WorkInv'
<1>1. ASSUME NEW a \in Live' \cap Answer
      PROVE  (done[a] \/ a \in lost \/ EndComes(a)
              \/ \E c \in Call : call[c] = a /\ Unfinished(c))'
  <2>1. SUFFICES ASSUME a \in Live, done[a] => done'[a]
                 PROVE  (done[a] \/ a \in lost \/ EndComes(a)
                         \/ \E c \in Call : call[c] = a /\ Unfinished(c))'
    BY <1>1
  <2>2. done[a] \/ a \in lost \/ EndComes(a) \/ \E c \in Call : call[c] = a /\ Unfinished(c)
    BY <2>1, <1>1 DEF WorkInv
  <2> QED BY <2>1, <2>2 DEF EndComes, Unfinished
<1>2. \A c \in Call : post'[c] = "over" => job'[c] # "none"
  BY DEF WorkInv
<1>3. /\ taskIds' # Null => \A c \in Range(taskIds') : post'[c] = "over"
      /\ loop' # Null => \A c \in Range(loop.arr') : post'[c] = "over"
  BY DEF WorkInv
<1> QED BY <1>1, <1>2, <1>3 DEF WorkInv, ObjectsLive

\* One message directly below another, or a root.
AddsOne(L, p, k, up, y, p2, k2) ==
  /\ L \subseteq Id /\ p \in [Id -> Id \cup {Null}] /\ k \in [Id -> Seq(Id)] /\ IsTree(L, p, k)
  /\ up \in L \cup {Null} /\ y \in Id \ L
  /\ up \in IF y \in Question THEN Answer \cup {Null} ELSE Question
  /\ p2 = [p EXCEPT ![y] = up]
  /\ \A x \in Id : k2[x] = IF x = up THEN Append(k[x], y) ELSE k[x]

\* It makes a tree of a tree.
LEMMA AddOne ==
  ASSUME NEW L, NEW p, NEW k, NEW up, NEW y, NEW p2, NEW k2, AddsOne(L, p, k, up, y, p2, k2)
  PROVE  IsTree(L \cup {y}, p2, k2)
<1> USE DEF AddsOne
<1> DEFINE one == <<y>>
<1>1. one \in Seq(Id) /\ Range(one) = {y} /\ IsInjective(one)
  BY DEF Range, IsInjective
<1>2. \A x \in Id : Append(k[x], y) = Cat(k[x], one)
  BY AppendIs
<1> HIDE DEF one
<1>3. \A x \in Id : p2[x] = IF x \in Range(one) THEN up ELSE p[x]
  BY <1>1
<1>4. \A x \in Id : k2[x] = IF x = up THEN Cat(k[x], one) ELSE k[x]
  BY <1>2
<1>5. Adds(L, p, k, up, one, p2, k2)
  BY <1>1, <1>3, <1>4 DEF Adds
<1>6. IsTree(L \cup Range(one), p2, k2)
  BY <1>5, AddBelow
<1> QED BY <1>1, <1>6

\* A question and its answer, entered together, below an answer or at the root.
LEMMA PairKeeps ==
  ASSUME ChatInv, NEW up \in Id \cup {Null}, Pair(up), stale = {} => up \in (Live \cap Answer) \cup {Null}
  PROVE  ChatInv' /\ TreeStep
<1> DEFINE q == asked + 1
<1> DEFINE a == MaxQuestions + answered + 1
<1> DEFINE two == <<q, a>>
<1>0. /\ TypeInv /\ TreeInv /\ LeafInv /\ WorkInv /\ Live = Range(keys)
      /\ KeysOK /\ LinksOK /\ ViewOK /\ KeptOK /\ RestOK /\ Live \subseteq Id
  BY Places DEF ChatInv, TypeInv, Live
<1>1. /\ asked < MaxQuestions /\ answered < MaxAnswers /\ asked' = q /\ answered' = answered + 1
      /\ keys' = Cat(keys, two)
      /\ parent' = [parent EXCEPT ![q] = up, ![a] = q]
      /\ kids' = [x \in Id |-> IF x = q THEN <<a>> ELSE IF x = up THEN Append(kids[x], q) ELSE kids[x]]
      /\ kept' = IF up = Null THEN kept ELSE Pushed(up, q)
      /\ done' = [done EXCEPT ![a] = TRUE] /\ slot' = [slot EXCEPT ![a] = 1] /\ currentId' = a
      /\ hasty' = (hasty \/ (up # Null /\ Pending(up)))
      /\ Quiet /\ UNCHANGED <<failed, taskIds, loop, stale, lost>>
  BY DEF Pair, Quiet, Cat, stopping
<1>2. q \in Question /\ q \in Id /\ q \notin Live /\ q \in 0..MaxQuestions
  BY <1>0, <1>1, NextQuestion
<1>3. /\ a \in Answer /\ a \in Id /\ a \notin Live /\ a \notin Question /\ a # q
      /\ a = Newest + 1 /\ Newest \in Nat /\ answered' \in 0..MaxAnswers
  <2>1. a = Newest + 1
    BY <1>0, Constants DEF Newest, KeysOK
  <2> HIDE DEF a
  <2> QED BY <2>1, <1>0, <1>1, <1>2, NextAnswer
<1>4. Newest' = Newest + 1
  BY <1>0, <1>1, Constants DEF Newest, KeysOK
<1>5. two \in Seq(Id) /\ Range(two) = {q, a} /\ IsInjective(two)
  BY <1>2, <1>3 DEF Range, IsInjective
<1>50. asked \in Nat /\ asked' = asked + 1
  BY <1>0, <1>1 DEF KeysOK
<1> HIDE DEF q, a, two
<1>6. keys' \in Seq(Id) /\ IsInjective(keys') /\ Live' = Live \cup {q, a}
  <2>1. keys \in Seq(Id) /\ IsInjective(keys) /\ Range(keys) \cap Range(two) = {}
    BY <1>0, <1>2, <1>3, <1>5 DEF KeysOK
  <2>2. /\ Cat(keys, two) \in Seq(Id) /\ IsInjective(Cat(keys, two))
        /\ Range(Cat(keys, two)) = Range(keys) \cup Range(two)
    BY <2>1, <1>5, RangeOfCat
  <2> QED BY <2>2, <1>0, <1>1, <1>5 DEF Live
<1>7. KeysOK'
  <2>1. ASSUME NEW x \in Live PROVE IF x \in Question THEN x <= asked' ELSE x <= Newest'
    <3>1. x \in Nat /\ IF x \in Question THEN x <= asked ELSE x <= Newest
      BY <1>0, IdFacts DEF KeysOK
    <3> QED BY <3>1, <1>3, <1>4, <1>50
  <2>2. q <= asked' /\ a <= Newest'
    BY <1>1, <1>2, <1>3, <1>4, IdFacts
  <2> QED BY <2>1, <2>2, <1>1, <1>2, <1>3, <1>6 DEF KeysOK
<1>8. LinksOK'
  <2>1. \A x \in Id : (IF x = q THEN <<a>> ELSE IF x = up THEN Append(kids[x], q) ELSE kids[x]) \in Seq(Id)
    <3>1. \A x \in Id : kids[x] \in Seq(Id) /\ Append(kids[x], q) \in Seq(Id)
      BY <1>0, <1>2, Appended DEF LinksOK
    <3>2. <<a>> \in Seq(Id)
      BY <1>3
    <3> QED BY <3>1, <3>2
  <2>2. parent' \in [Id -> Id \cup {Null}]
    BY <1>0, <1>1, <1>2 DEF LinksOK
  <2> QED BY <2>1, <2>2, <1>1 DEF LinksOK
<1>9. ViewOK'
  <2>1. Newest' \in Nat /\ a <= Newest' /\ Newest <= Newest'
    BY <1>3, <1>4
  <2>2. \A x \in Answer : done[x] => x <= Newest'
    BY <2>1, <1>0, <1>3, DoneStays
  <2>3. \A x \in Answer : done'[x] => x = a \/ done[x]
    BY <1>0, <1>1 DEF ViewOK
  <2>4. \A x \in Answer : done'[x] => x <= Newest'
    BY <2>1, <2>2, <2>3
  <2> QED BY <2>4, <1>0, <1>1, <1>3 DEF ViewOK
<1>10. RestOK'
  BY <1>0, <1>1 DEF RestOK, Quiet
<1>11. Ages(kept')
  BY <1>0, <1>1, <1>2, KeptAges, PushedAges
<1>12. TypeInv'
  BY <1>0, <1>1, <1>3, <1>4, <1>7, <1>8, <1>9, <1>10, <1>11, QuietTypes
<1>13. ASSUME stale = {}
       PROVE  /\ IsTree(Live', parent', kids') /\ \A x \in Live' \cap Question : kids'[x] # <<>>
              /\ kids'[a] = <<>>
  <2> DEFINE p1 == [parent EXCEPT ![q] = up]
  <2> DEFINE k1 == [x \in Id |-> IF x = up THEN Append(kids[x], q) ELSE kids[x]]
  <2> DEFINE p2 == [p1 EXCEPT ![a] = q]
  <2> DEFINE k2 == kids'
  <2>1. /\ IsTree(Live, parent, kids) /\ up \in Live \cup {Null} /\ up \in Answer \cup {Null}
        /\ \A x \in Live \cap Question : kids[x] # <<>>
    BY <1>13, <1>0 DEF TreeInv
  <2>2. parent \in [Id -> Id \cup {Null}] /\ kids \in [Id -> Seq(Id)]
    BY <1>0 DEF LinksOK
  <2>3. p1 \in [Id -> Id \cup {Null}] /\ k1 \in [Id -> Seq(Id)]
    <3>1. \A x \in Id : Append(kids[x], q) \in Seq(Id)
      BY <2>2, <1>2, Appended
    <3> QED BY <3>1, <2>2, <1>2
  <2>4. \A x \in Id : k1[x] = IF x = up THEN Append(kids[x], q) ELSE kids[x]
    OBVIOUS
  <2>5. IsTree(Live \cup {q}, p1, k1)
    <3>1. p1 = [parent EXCEPT ![q] = up]
      OBVIOUS
    <3> HIDE DEF p1, k1
    <3>2. AddsOne(Live, parent, kids, up, q, p1, k1)
      BY <3>1, <2>1, <2>2, <2>4, <1>0, <1>2 DEF AddsOne
    <3> QED BY <3>2, AddOne
  <2>6. kids[q] = <<>> /\ kids[a] = <<>> /\ q # up /\ a # up
    BY <2>1, <1>2, <1>3, Constants DEF IsTree, Bare
  <2>7. \A x \in Id : k2[x] = IF x = q THEN Append(k1[x], a) ELSE k1[x]
    <3>1. Append(k1[q], a) = <<a>>
      <4>1. k1[q] = <<>>
        BY <2>4, <2>6, <1>2
      <4> HIDE DEF k1
      <4> QED BY <4>1
    <3>2. \A x \in Id : k2[x] = IF x = q THEN <<a>> ELSE IF x = up THEN Append(kids[x], q) ELSE kids[x]
      BY <1>1
    <3> HIDE DEF k1, k2
    <3> QED BY <3>1, <3>2, <2>4
  <2>8. parent' = p2
    BY <1>1
  <2>9. IsTree((Live \cup {q}) \cup {a}, p2, k2)
    <3>1. p2 = [p1 EXCEPT ![a] = q] /\ Live \cup {q} \subseteq Id /\ a \notin Live \cup {q}
          /\ q \in Live \cup {q}
      BY <1>0, <1>2, <1>3
    <3> HIDE DEF p1, k1, p2, k2
    <3>2. AddsOne(Live \cup {q}, p1, k1, q, a, p2, k2)
      BY <3>1, <2>3, <2>5, <2>7, <1>2, <1>3 DEF AddsOne
    <3> QED BY <3>2, AddOne
  <2>10. IsTree(Live', parent', kids')
    <3>1. (Live \cup {q}) \cup {a} = Live'
      BY <1>6
    <3> QED BY <3>1, <2>8, <2>9
  <2>11. ASSUME NEW x \in Live', x \in Question PROVE kids'[x] # <<>>
    <3>1. x = q \/ x \in Live
      BY <2>11, <1>3, <1>6
    <3>2. CASE x = q
      BY <3>2, <1>1, <1>2
    <3>3. CASE x # q /\ x \in Live
      <4>1. x # up /\ x \in Id /\ kids[x] # <<>>
        BY <3>3, <2>1, <2>11, <1>0, Constants
      <4> QED BY <4>1, <3>3, <1>1
    <3> QED BY <3>1, <3>2, <3>3
  <2>12. kids'[a] = <<>>
    BY <2>6, <1>1, <1>3
  <2> QED BY <2>10, <2>11, <2>12
<1>14. TreeInv'
  BY <1>1, <1>3, <1>6, <1>13 DEF TreeInv
<1>15. LeafInv'
  <2>1. SUFFICES ASSUME stale = {}, ~hasty'
                 PROVE  kids'[currentId'] = <<>>
                        /\ \A c \in Call : post'[c] = "sent" => kids'[call'[c]] = <<>>
    BY <1>1 DEF LeafInv
  <2>2. ASSUME NEW c \in Call, post[c] = "sent" PROVE kids'[call[c]] = <<>>
    <3>1. kids[call[c]] = <<>> /\ call[c] # up
      BY <2>1, <2>2, <1>0, <1>1, Constants DEF LeafInv, Pending, Working, TypeInv, CallsOK
    <3>2. call[c] \in Id /\ call[c] # q
      BY <2>2, <1>0, <1>2, Constants DEF TypeInv, CallsOK
    <3> QED BY <3>1, <3>2, <1>1
  <2> QED BY <2>1, <2>2, <1>1, <1>13 DEF Quiet
<1>16. WorkInv'
  <2>1. ObjectsLive'
    BY <1>0, <1>6, <1>11, AgedObjects
  <2>2. \A x \in Live' \cap Answer : done'[x] \/ (x \in Live /\ (done[x] => done'[x]))
    <3>1. \A x \in Live' \cap Answer : x = a \/ x \in Live
      BY <1>2, <1>6, Constants
    <3>2. done'[a] /\ \A x \in Live : done'[x] = done[x]
      BY <1>0, <1>1, <1>3 DEF ViewOK
    <3> QED BY <3>1, <3>2
  <2> QED BY <2>1, <2>2, <1>0, <1>1, QuietWork DEF Quiet
<1>17. stale' = stale /\ (stale = {} => Grows)
  <2>1. SUFFICES ASSUME stale = {} PROVE Grows
    BY <1>1
  <2> DEFINE more == {q, a}
  <2>2. \A x \in Live : parent'[x] = parent[x] /\ done'[x] = done[x]
    BY <1>0, <1>1, <1>2, <1>3 DEF ViewOK, LinksOK
  <2>3. ASSUME NEW x \in more, x \in Question PROVE parent'[x] \in Live \cup {Null}
    <3>1. x = q /\ parent'[q] = up
      BY <2>3, <1>0, <1>1, <1>2, <1>3 DEF LinksOK
    <3> QED BY <3>1, <2>1
  <2>4. more # {} /\ currentId' \in more /\ more \cap Live = {} /\ Live' = Live \cup more
    BY <1>1, <1>2, <1>3, <1>6
  <2> HIDE DEF more
  <2> QED BY <2>2, <2>3, <2>4 DEF Grows
<1> QED BY <1>12, <1>14, <1>15, <1>16, <1>17 DEF ChatInv, TreeStep

\* The copy of an answer hangs beside it.
LEMMA CopyKeeps ==
  ASSUME ChatInv, NEW x \in Live, SaveAsCopy(x)
  PROVE  ChatInv' /\ TreeStep
<1> DEFINE b == MaxQuestions + answered + 1
<1> DEFINE q == parent[x]
<1>0. /\ TypeInv /\ TreeInv /\ LeafInv /\ WorkInv /\ Live = Range(keys)
      /\ KeysOK /\ LinksOK /\ ViewOK /\ KeptOK /\ RestOK /\ Live \subseteq Id
  BY Places DEF ChatInv, TypeInv, Live
<1>1. /\ x \in Answer /\ q \in Live /\ answered < MaxAnswers /\ answered' = answered + 1
      /\ keys' = Append(keys, b)
      /\ parent' = [parent EXCEPT ![b] = q]
      /\ kids' = [kids EXCEPT ![q] = Append(@, b)]
      /\ done' = [done EXCEPT ![b] = TRUE] /\ slot' = [slot EXCEPT ![b] = slot[x]] /\ currentId' = b
      /\ Quiet /\ UNCHANGED <<failed, asked, kept, taskIds, loop, stale, hasty, lost>>
  BY DEF SaveAsCopy, Quiet, stopping, sending, ghosts
<1>2. /\ b \in Answer /\ b \in Id /\ b \notin Live /\ b \notin Question
      /\ b = Newest + 1 /\ Newest \in Nat /\ answered' \in 0..MaxAnswers
  <2>1. b = Newest + 1
    BY <1>0, Constants DEF Newest, KeysOK
  <2> HIDE DEF b
  <2> QED BY <2>1, <1>0, <1>1, NextAnswer
<1>3. Newest' = Newest + 1
  BY <1>0, <1>1, Constants DEF Newest, KeysOK
<1> HIDE DEF b, q
<1>4. keys' \in Seq(Id) /\ IsInjective(keys') /\ Live' = Live \cup {b}
  <2>1. keys \in Seq(Id) /\ IsInjective(keys) /\ b \notin Range(keys)
    BY <1>0, <1>2 DEF KeysOK
  <2>2. Append(keys, b) \in Seq(Id) /\ IsInjective(Append(keys, b))
        /\ Range(Append(keys, b)) = Range(keys) \cup {b}
    BY <2>1, <1>2, Appended
  <2> QED BY <2>2, <1>0, <1>1 DEF Live
<1>5. KeysOK'
  <2>1. ASSUME NEW y \in Live PROVE IF y \in Question THEN y <= asked' ELSE y <= Newest'
    <3>1. y \in Nat /\ IF y \in Question THEN y <= asked ELSE y <= Newest
      BY <1>0, IdFacts DEF KeysOK
    <3> QED BY <3>1, <1>1, <1>2, <1>3
  <2>2. b <= Newest'
    BY <1>2, <1>3
  <2> QED BY <2>1, <2>2, <1>0, <1>1, <1>2, <1>4 DEF KeysOK
<1>6. LinksOK'
  <2>1. q \in Id /\ \A y \in Id : Append(kids[y], b) \in Seq(Id)
    BY <1>0, <1>1, <1>2, Appended DEF LinksOK
  <2> QED BY <2>1, <1>0, <1>1, <1>2 DEF LinksOK
<1>7. ViewOK'
  <2>1. Newest' \in Nat /\ b <= Newest' /\ Newest <= Newest'
    BY <1>2, <1>3
  <2>2. \A y \in Answer : done[y] => y <= Newest'
    BY <2>1, <1>0, <1>2, DoneStays
  <2>3. \A y \in Answer : done'[y] => y = b \/ done[y]
    BY <1>0, <1>1 DEF ViewOK
  <2>4. \A y \in Answer : done'[y] => y <= Newest'
    BY <2>1, <2>2, <2>3
  <2> QED BY <2>4, <1>0, <1>1, <1>2 DEF ViewOK
<1>8. RestOK'
  BY <1>0, <1>1 DEF RestOK, Quiet
<1>9. Ages(kept')
  BY <1>0, <1>1, KeptAges
<1>10. TypeInv'
  BY <1>0, <1>1, <1>2, <1>3, <1>5, <1>6, <1>7, <1>8, <1>9, QuietTypes
<1>11. ASSUME stale = {}
       PROVE  /\ IsTree(Live', parent', kids') /\ \A y \in Live' \cap Question : kids'[y] # <<>>
              /\ kids'[b] = <<>> /\ q \in Question
  <2>1. IsTree(Live, parent, kids) /\ q \in Question /\ \A y \in Live \cap Question : kids[y] # <<>>
    BY <1>11, <1>0, <1>1, Places DEF TreeInv, q
  <2>2. /\ parent \in [Id -> Id \cup {Null}] /\ kids \in [Id -> Seq(Id)] /\ q \in Id
        /\ \A y \in Id : kids'[y] = IF y = q THEN Append(kids[y], b) ELSE kids[y]
    BY <1>0, <1>1 DEF LinksOK
  <2> DEFINE p2 == parent'
  <2> DEFINE k2 == kids'
  <2>3. /\ p2 = [parent EXCEPT ![b] = q] /\ b \in Id \ Live /\ q \in Live \cup {Null}
        /\ q \in IF b \in Question THEN Answer \cup {Null} ELSE Question
    BY <2>1, <1>1, <1>2
  <2>4. \A y \in Id : k2[y] = IF y = q THEN Append(kids[y], b) ELSE kids[y]
    BY <2>2
  <2> HIDE DEF p2, k2
  <2>5. AddsOne(Live, parent, kids, q, b, p2, k2)
    BY <2>1, <2>2, <2>3, <2>4, <1>0 DEF AddsOne
  <2>6. IsTree(Live \cup {b}, p2, k2)
    BY <2>5, AddOne
  <2>7. kids'[b] = <<>>
    BY <2>1, <2>2, <1>2 DEF IsTree, Bare
  <2>8. ASSUME NEW y \in Live', y \in Question PROVE kids'[y] # <<>>
    <3>1. y \in Live /\ y \in Id /\ kids[y] # <<>>
      BY <2>1, <2>8, <1>0, <1>2, <1>4
    <3>2. Append(kids[y], b) # <<>>
      BY <3>1, <2>2, <1>2, Appended
    <3> QED BY <3>1, <3>2, <2>2
  <2> QED BY <2>1, <2>6, <2>7, <2>8, <1>4 DEF p2, k2
<1>12. TreeInv'
  BY <1>1, <1>2, <1>4, <1>11 DEF TreeInv
<1>13. LeafInv'
  <2>1. SUFFICES ASSUME stale = {}, ~hasty
                 PROVE  kids'[currentId'] = <<>>
                        /\ \A c \in Call : post'[c] = "sent" => kids'[call'[c]] = <<>>
    BY <1>1 DEF LeafInv
  <2>2. ASSUME NEW c \in Call, post[c] = "sent" PROVE kids'[call[c]] = <<>>
    <3>1. kids[call[c]] = <<>> /\ call[c] \in Answer /\ call[c] \in Id
      BY <2>1, <2>2, <1>0, Constants DEF LeafInv, TypeInv, CallsOK
    <3>2. call[c] # q
      BY <2>1, <3>1, <1>11, Constants
    <3> QED BY <3>1, <3>2, <1>0, <1>1 DEF LinksOK
  <2> QED BY <2>1, <2>2, <1>1, <1>11 DEF Quiet
<1>14. WorkInv'
  <2>1. ObjectsLive'
    BY <1>0, <1>4, <1>9, AgedObjects
  <2>2. \A y \in Live' \cap Answer : done'[y] \/ (y \in Live /\ (done[y] => done'[y]))
    BY <1>0, <1>1, <1>2, <1>4 DEF ViewOK
  <2> QED BY <2>1, <2>2, <1>0, <1>1, QuietWork DEF Quiet
<1>15. stale' = stale /\ (stale = {} => Grows)
  <2> DEFINE more == {b}
  <2>2. \A y \in Live : parent'[y] = parent[y] /\ done'[y] = done[y]
    BY <1>0, <1>1, <1>2 DEF ViewOK, LinksOK
  <2>3. \A y \in more \cap Question : parent'[y] \in Live \cup {Null}
    BY <1>2
  <2>4. more # {} /\ currentId' \in more /\ more \cap Live = {} /\ Live' = Live \cup more
    BY <1>1, <1>2, <1>4
  <2> HIDE DEF more
  <2>5. Grows
    BY <2>2, <2>3, <2>4 DEF Grows
  <2> QED BY <2>5, <1>1
<1> QED BY <1>10, <1>12, <1>13, <1>14, <1>15 DEF ChatInv, TreeStep

\* Where no message is, there is no way down.
LEMMA LeafOf ==
  ASSUME ChatInv, NEW y, Leaf(y, kids) \in Live, stale = {}
  PROVE  y \in Live /\ kids[Leaf(y, kids)] = <<>> /\ Leaf(y, kids) \in Answer
<1>1. /\ TypeInv /\ Live \subseteq Id /\ IsTree(Live, parent, kids) /\ kids \in [Id -> Seq(Id)]
      /\ \A q \in Live \cap Question : kids[q] # <<>>
  BY Places DEF ChatInv, TreeInv, TypeInv, LinksOK
<1>2. y \in Live
  <2>1. SUFFICES ASSUME y \notin Live PROVE FALSE
    OBVIOUS
  <2>2. Down(y, kids) \in {y}
    BY <2>1, <1>1 DEF Down, IsTree, Bare
  <2>3. Leaf(y, kids) \in {y}
    BY <2>2, LeafStays
  <2> QED BY <2>1, <2>3
<1>3. Linked(Live, parent, kids) /\ Grounded(Live, parent)
  BY <1>1 DEF IsTree
<1>4. kids[Leaf(y, kids)] = <<>>
  BY <1>1, <1>2, <1>3, LeafEnds
<1> QED BY <1>1, <1>2, <1>4, Constants

\* Steps that touch nothing of the server, nor of the tree.
LEMMA ViewKeeps ==
  ASSUME ChatInv, Quiet, UNCHANGED <<keys, parent, kids, asked, answered, kept, taskIds, loop, stale, hasty,
                                     lost>>,
         ViewOK', \A x \in Live : done[x] => done'[x],
         stale = {} => \/ currentId' = currentId
                       \/ currentId' \in Live \cap Answer /\ (hasty \/ kids[currentId'] = <<>>)
  PROVE  ChatInv'
<1>1. TypeInv /\ TreeInv /\ LeafInv /\ WorkInv /\ KeysOK /\ LinksOK /\ RestOK /\ KeptOK
  BY DEF ChatInv, TypeInv
<1>2. Live' = Live /\ Newest' = Newest /\ Newest \in Nat /\ UNCHANGED <<call, post, job, inbox, finishing>>
  BY <1>1, Numbered DEF Live, Newest, Quiet, KeysOK
<1>3. KeysOK' /\ LinksOK' /\ RestOK' /\ Ages(kept')
  <2>1. KeysOK'
    BY <1>1, <1>2 DEF KeysOK
  <2>2. LinksOK' /\ RestOK'
    BY <1>1 DEF LinksOK, RestOK, Quiet
  <2> QED BY <2>1, <2>2, <1>1, KeptAges
<1>4. TypeInv'
  <2>1. Newest <= Newest'
    BY <1>2
  <2> QED BY <2>1, <1>1, <1>3, QuietTypes
<1>5. TreeInv'
  <2>1. stale = {} => /\ IsTree(Live', parent', kids') /\ \A q \in Live' \cap Question : kids'[q] # <<>>
                      /\ IF Live' = {} THEN currentId' = Null ELSE currentId' \in Live' \cap Answer
    BY <1>1, <1>2 DEF TreeInv
  <2> QED BY <2>1 DEF TreeInv
<1>6. LeafInv'
  <2>1. stale = {} /\ ~hasty => /\ currentId' # Null => kids[currentId'] = <<>>
                                /\ \A c \in Call : post[c] = "sent" => kids[call[c]] = <<>>
    BY <1>1 DEF LeafInv
  <2> QED BY <2>1, <1>2 DEF LeafInv
<1>7. ObjectsLive'
  BY <1>1, <1>2, <1>3, AgedObjects
<1>8. WorkInv'
  BY <1>1, <1>2, <1>7, QuietWork
<1> QED BY <1>4, <1>5, <1>6, <1>8 DEF ChatInv

\* What is shown ends a branch, and is an answer.
LEMMA ShowKeeps ==
  ASSUME ChatInv, NEW y, ShowBranch(y)
  PROVE  ChatInv' /\ TreeStep
<1>1. /\ currentId' = Leaf(y, kids) /\ currentId' \in Live /\ Quiet
      /\ UNCHANGED <<keys, parent, kids, done, slot, failed, asked, answered, kept, taskIds, loop, stale,
                     hasty, lost>>
  BY DEF ShowBranch, Quiet, links, sending, stopping, ghosts
<1>2. stale = {} => currentId' \in Live \cap Answer /\ kids[currentId'] = <<>>
  BY <1>1, LeafOf
<1>3. ViewOK'
  BY <1>1, Places DEF ChatInv, TypeInv, ViewOK, Newest
<1>4. ChatInv'
  BY <1>1, <1>2, <1>3, ViewKeeps
<1>5. TreeStep
  BY <1>1 DEF TreeStep, Turns
<1> QED BY <1>4, <1>5

\* Overview, arrows, numbers and clicks show the end of some branch.
LEMMA ShowsKeep ==
  ASSUME ChatInv, Shows
  PROVE  ChatInv' /\ TreeStep
<1>1. PICK x \in Live : \/ ShowMessage(x) \/ ShowPreviousMessage(x) \/ ShowNextMessage(x) \/ GroupClick(x)
                        \/ \E i \in 1..MaxAnswers : GotoMessage(x, i)
  BY DEF Shows
<1>2. \E y : ShowBranch(y)
  BY <1>1 DEF ShowMessage, ShowPreviousMessage, ShowNextMessage, GroupClick, GotoMessage
<1> QED BY <1>2, ShowKeeps

\* An answer is edited.
LEMMA EditKeeps ==
  ASSUME ChatInv, NEW x, EditAnswer(x)
  PROVE  ChatInv' /\ TreeStep
<1>1. /\ failed' = failed \ {x} /\ Quiet
      /\ UNCHANGED <<keys, parent, kids, done, slot, currentId, asked, answered, kept, taskIds, loop, stale,
                     hasty, lost>>
  BY DEF EditAnswer, Quiet, links, sending, stopping, ghosts
<1>2. ViewOK'
  BY <1>1 DEF ChatInv, TypeInv, ViewOK, Newest
<1>3. ChatInv'
  BY <1>1, <1>2, ViewKeeps
<1>4. TreeStep
  BY <1>1 DEF TreeStep, Settles
<1> QED BY <1>3, <1>4

\* What moves up when a message is deleted: the children of those below it, each once.
Grand(x) == FlattenSeq([i \in DOMAIN kids[x] |-> kids[kids[x][i]]])

\* They are the children of the children, once each, since each has one parent.
LEMMA GrandIs ==
  ASSUME TypeInv, NEW x \in Id
  PROVE  /\ Grand(x) \in Seq(Id) /\ Range(Grand(x)) = UNION {Range(kids[y]) : y \in Range(kids[x])}
         /\ IsTree(Live, parent, kids) /\ x \in Live => IsInjective(Grand(x))
<1> DEFINE s == [i \in DOMAIN kids[x] |-> kids[kids[x][i]]]
<1>1. kids \in [Id -> Seq(Id)] /\ kids[x] \in Seq(Id)
  BY DEF TypeInv, LinksOK
<1>2. /\ Len(kids[x]) \in Nat /\ DOMAIN kids[x] = 1..Len(kids[x])
      /\ \A i \in 1..Len(kids[x]) : kids[x][i] \in Id
  BY <1>1, LenProperties, ElementOfSeq
<1>3. s \in [1..Len(kids[x]) -> Seq(Id)]
  BY <1>1, <1>2
<1>4. DOMAIN s = 1..Len(kids[x]) /\ \A i \in 1..Len(kids[x]) : s[i] = kids[kids[x][i]]
  BY <1>2
<1> HIDE DEF s
<1>5. s \in Seq(Seq(Id))
  BY <1>2, <1>3, SeqDef
<1>6. 1..Len(s) = 1..Len(kids[x])
  BY <1>4, <1>5, LenProperties
<1>7. FlattenSeq(s) \in Seq(Id) /\ Range(FlattenSeq(s)) = UNION {Range(s[i]) : i \in 1..Len(s)}
  BY <1>5, Flattened
<1>8. Range(kids[x]) = {kids[x][i] : i \in 1..Len(kids[x])}
  BY <1>2 DEF Range
<1>9. UNION {Range(s[i]) : i \in 1..Len(s)} = UNION {Range(kids[y]) : y \in Range(kids[x])}
  <2>1. ASSUME NEW z, NEW i \in 1..Len(s), z \in Range(s[i])
        PROVE  \E y \in Range(kids[x]) : z \in Range(kids[y])
    BY <2>1, <1>4, <1>6, <1>8
  <2>2. ASSUME NEW z, NEW y \in Range(kids[x]), z \in Range(kids[y])
        PROVE  \E i \in 1..Len(s) : z \in Range(s[i])
    <3>1. PICK i \in 1..Len(kids[x]) : y = kids[x][i]
      BY <1>8
    <3> QED BY <3>1, <2>2, <1>4, <1>6
  <2> QED BY <2>1, <2>2
<1>10. ASSUME IsTree(Live, parent, kids), x \in Live PROVE IsInjective(FlattenSeq(s))
  <2>1. /\ IsInjective(kids[x]) /\ \A y \in Range(kids[x]) : y \in Live
        /\ \A y \in Live : IsInjective(kids[y]) /\ \A z \in Range(kids[y]) : parent[z] = y
    BY <1>10 DEF IsTree, Linked
  <2>2. \A i \in 1..Len(s) : kids[x][i] \in Live /\ s[i] = kids[kids[x][i]]
    BY <2>1, <1>4, <1>6, <1>8
  <2>3. \A i, j \in 1..Len(s) : i # j => kids[x][i] # kids[x][j]
    BY <2>1, <1>2, <1>6 DEF IsInjective
  <2>4. \A i \in 1..Len(s) : IsInjective(s[i])
    BY <2>1, <2>2
  <2>5. ASSUME NEW i \in 1..Len(s), NEW j \in 1..Len(s), i # j PROVE Range(s[i]) \cap Range(s[j]) = {}
    <3>1. \A z \in Range(s[i]) : parent[z] = kids[x][i]
      BY <2>1, <2>2
    <3>2. \A z \in Range(s[j]) : parent[z] = kids[x][j]
      BY <2>1, <2>2
    <3> QED BY <3>1, <3>2, <2>3, <2>5
  <2> QED BY <2>4, <2>5, <1>5, Flattened
<1> QED BY <1>7, <1>9, <1>10 DEF Grand, s

\* An answer is deleted only while another one of the same question exists.
LEMMA OtherAnswer ==
  ASSUME NEW x, x \notin Question, MayDelete(x), parent[x] # Null
  PROVE  \E y \in Range(kids[parent[x]]) : y # x
<1>1. Cardinality(SameModel(x)) > 1
  BY DEF MayDelete
<1>2. SameModel(x) \subseteq Range(kids[parent[x]])
  BY DEF SameModel, Siblings
<1>3. SUFFICES ASSUME SameModel(x) \subseteq {x} PROVE FALSE
  BY <1>2
<1>4. SameModel(x) = {} \/ SameModel(x) = {x}
  BY <1>3
<1>5. Cardinality({}) = 0 /\ Cardinality({x}) = 1
  BY FS_EmptySet, FS_Singleton
<1>6. Cardinality(SameModel(x)) \in {0, 1}
  BY <1>4, <1>5
<1> QED BY <1>1, <1>6

\* A message is deleted: the tree that is left is one, and the end of one of its branches is shown.
LEMMA DeleteKeeps ==
  ASSUME ChatInv, NEW x \in Live, DeleteMessage(x)
  PROVE  ChatInv' /\ TreeStep
<1> DEFINE up == parent[x]
<1> DEFINE gone == {x} \cup Range(kids[x])
<1> DEFINE grand == Grand(x)
<1> DEFINE w == Without(kids[up], {x})
<1> DEFINE roots == Without(keys', {y \in Id : parent'[y] # Null})
<1> DEFINE from == IF up # Null THEN up ELSE IF roots = <<>> THEN Null ELSE Last(roots)
<1>0. /\ TypeInv /\ TreeInv /\ LeafInv /\ WorkInv /\ Live = Range(keys)
      /\ KeysOK /\ LinksOK /\ ViewOK /\ KeptOK /\ RestOK /\ Live \subseteq Id /\ x \in Id
  BY Places DEF ChatInv, TypeInv, Live
<1>1. /\ MayDelete(x) /\ keys' = Without(keys, gone)
      /\ parent' = [y \in Id |-> IF y \in gone THEN Null ELSE IF y \in Range(grand) THEN up ELSE parent[y]]
      /\ kids' = [y \in Id |-> IF y \in gone THEN <<>>
                               ELSE IF y = up /\ y \in Live THEN Cat(Without(kids[y], {x}), grand)
                               ELSE kids[y]]
      /\ currentId' = Leaf(from, kids') /\ kept' = Outdated(gone)
      /\ done' = [y \in Id |-> done[y] /\ y \notin gone]
      /\ Quiet /\ UNCHANGED <<slot, failed, asked, answered, taskIds, loop, stale, hasty, lost>>
  BY DEF DeleteMessage, Quiet, stopping, ghosts, Grand, Cat
<1>2. /\ grand \in Seq(Id) /\ Range(grand) = UNION {Range(kids[y]) : y \in Range(kids[x])}
      /\ IsTree(Live, parent, kids) => IsInjective(grand)
  BY <1>0, GrandIs
<1>3. /\ parent \in [Id -> Id \cup {Null}] /\ kids \in [Id -> Seq(Id)] /\ up \in Id \cup {Null}
      /\ keys \in Seq(Id) /\ IsInjective(keys)
  BY <1>0 DEF LinksOK, KeysOK
<1> HIDE DEF grand, gone
<1>4. keys' \in Seq(Id) /\ IsInjective(keys') /\ Live' = Live \ gone
  BY <1>0, <1>1, <1>3, WithoutIs DEF Live
<1>5. Newest' = Newest /\ Newest \in Nat
  BY <1>0, <1>1, Numbered DEF Newest, KeysOK
<1>6. KeysOK'
  BY <1>0, <1>1, <1>4, <1>5 DEF KeysOK
<1>7. \A y \in Id : Without(kids[y], {x}) \in Seq(Id) /\ Cat(Without(kids[y], {x}), grand) \in Seq(Id)
  <2>1. ASSUME NEW y \in Id PROVE Without(kids[y], {x}) \in Seq(Id)
    BY <1>3, WithoutIs
  <2> QED BY <2>1, <1>2, RangeOfCat
<1>8. LinksOK'
  <2>1. parent' \in [Id -> Id \cup {Null}]
    BY <1>1, <1>3
  <2>2. \A y \in Id : (IF y \in gone THEN <<>>
                        ELSE IF y = up /\ y \in Live THEN Cat(Without(kids[y], {x}), grand)
                        ELSE kids[y]) \in Seq(Id)
    BY <1>3, <1>7, EmptySeq
  <2> QED BY <2>1, <2>2, <1>1 DEF LinksOK
<1>9. from \in Id \cup {Null} /\ roots \in Seq(Id) /\ Range(roots) = {y \in Live' : parent'[y] = Null}
  <2>1. roots \in Seq(Id) /\ Range(roots) = Live' \ {y \in Id : parent'[y] # Null}
    BY <1>4, WithoutIs DEF Live
  <2> HIDE DEF roots
  <2>2. roots # <<>> => Last(roots) \in Id
    BY <2>1, LastIn
  <2>3. Live' \subseteq Id
    BY <1>0, <1>4
  <2> QED BY <2>1, <2>2, <2>3, <1>3
<1> HIDE DEF roots
<1>10. ViewOK'
  <2>1. currentId' \in Id \cup {Null}
    <3> DEFINE k2 == kids'
    <3>1. k2 \in [Id -> Seq(Id)]
      BY <1>8 DEF LinksOK
    <3> HIDE DEF from, k2
    <3>2. Leaf(from, k2) \in Id \cup {Null}
      BY <3>1, <1>9, LeafType
    <3> QED BY <3>2, <1>1 DEF k2
  <2>2. done' \in [Id -> BOOLEAN]
    BY <1>1
  <2>3. \A y \in Answer : done'[y] => y <= Newest'
    BY <1>0, <1>1, <1>5, Constants DEF ViewOK
  <2> QED BY <2>1, <2>2, <2>3, <1>0, <1>1 DEF ViewOK
<1>11. RestOK'
  BY <1>0, <1>1 DEF RestOK, Quiet
<1>12. /\ Ages(kept')
       /\ \A h \in Keeper : Keeps(h, "object") /\ kept[h].id \in gone => kept'[h].is = "old"
  BY <1>0, <1>1, OutdatedAges
<1>13. TypeInv'
  BY <1>0, <1>1, <1>5, <1>6, <1>8, <1>10, <1>11, <1>12, QuietTypes
<1>14. ASSUME stale = {}
       PROVE  /\ IsTree(Live', parent', kids') /\ up \notin gone /\ gone \subseteq Live
              /\ \A y \in Live : y \in Range(grand) <=> parent[y] \in Range(kids[x])
              /\ up # Null => up \in Live'
              /\ \A y \in Live \cap Question : kids[y] # <<>>
              /\ gone = {x} \cup {y \in Live : parent[y] = x}
              /\ up # Null => x \in Range(kids[up])
  <2>1. IsTree(Live, parent, kids) /\ IsInjective(grand) /\ \A y \in Live \cap Question : kids[y] # <<>>
    BY <1>14, <1>0, <1>2 DEF TreeInv
  <2>2. \A y \in Live : /\ parent[y] # Null => parent[y] \in Live /\ y \in Range(kids[parent[y]])
                        /\ IsInjective(kids[y])
                        /\ \A z \in Range(kids[y]) : z \in Live /\ parent[z] = y
    BY <2>1 DEF IsTree, Linked
  <2> DEFINE v == IF up \in Live THEN w ELSE <<>>
  <2>3. v \in Seq(Id) /\ (up \in Live => IsInjective(v) /\ Range(v) = Range(kids[up]) \ {x})
    <3>1. CASE up \in Live
      <4>1. kids[up] \in Seq(Id) /\ IsInjective(kids[up])
        BY <3>1, <2>2, <1>0, <1>3
      <4> QED BY <3>1, <4>1, WithoutIs
    <3>2. CASE up \notin Live
      BY <3>2, EmptySeq
    <3> QED BY <3>1, <3>2
  <2> DEFINE p2 == parent'
  <2> DEFINE k2 == kids'
  <2>4. \A y \in Id : p2[y] = IF y \in gone THEN Null ELSE IF y \in Range(grand) THEN up ELSE parent[y]
    BY <1>1
  <2>5. \A y \in Id : k2[y] = IF y \in gone THEN <<>> ELSE IF y = up /\ y \in Live THEN Cat(v, grand)
        ELSE kids[y]
    BY <1>1
  <2> HIDE DEF p2, k2, v
  <2>6. Drops(Live, parent, kids, x, gone, grand, v, p2, k2)
    BY <2>1, <2>3, <2>4, <2>5, <1>0, <1>2, <1>3 DEF Drops, gone
  <2>7. /\ IsTree(Live \ gone, p2, k2) /\ up \notin gone /\ gone \subseteq Live
        /\ \A y \in Live : y \in Range(grand) <=> parent[y] \in Range(kids[x])
    BY <2>6, RemoveOne
  <2>8. gone = {x} \cup {y \in Live : parent[y] = x}
    BY <2>2, <1>0, Constants DEF gone
  <2>9. up # Null => up \in Live' /\ x \in Range(kids[up])
    BY <2>2, <2>7, <1>4
  <2> QED BY <2>1, <2>7, <2>8, <2>9, <1>4 DEF p2, k2
<1>15. ASSUME stale = {}, NEW y \in Live', y \in Question PROVE kids'[y] # <<>>
  <2>1. y \in Live /\ y \notin gone /\ y \in Id /\ kids[y] # <<>>
    BY <1>0, <1>4, <1>14, <1>15
  <2>2. CASE y # up
    BY <2>1, <2>2, <1>1
  <2>3. CASE y = up
    <3>1. x \notin Question /\ up # Null
      BY <2>1, <2>3, <1>0, <1>15, Places, Constants
    <3>2. PICK z \in Range(kids[up]) : z # x
      BY <3>1, <1>1, OtherAnswer
    <3>3. w \in Seq(Id) /\ Range(w) = Range(kids[up]) \ {x}
      BY <2>1, <2>3, <1>3, WithoutIs
    <3> HIDE DEF w
    <3>4. w # <<>>
      <4>1. z \in Range(w)
        BY <3>2, <3>3
      <4> QED BY <4>1 DEF Range
    <3>5. Cat(w, grand) # <<>>
      BY <3>3, <3>4, <1>2, RangeOfCat
    <3> QED BY <3>5, <2>1, <2>3, <1>1 DEF w
  <2> QED BY <2>2, <2>3
<1>16. ASSUME stale = {}
       PROVE  IF Live' = {} THEN currentId' = Null
              ELSE currentId' \in Live' \cap Answer /\ kids'[currentId'] = <<>>
  <2> DEFINE k2 == kids'
  <2> DEFINE p2 == parent'
  <2> DEFINE L2 == Live'
  <2>1. k2 \in [Id -> Seq(Id)] /\ L2 \subseteq Id /\ Linked(L2, p2, k2) /\ Grounded(L2, p2)
    BY <1>0, <1>4, <1>8, <1>14, <1>16 DEF LinksOK, IsTree
  <2>2. L2 # {} => from \in L2
    <3>1. SUFFICES ASSUME L2 # {}, up = Null PROVE from \in L2
      BY <1>14, <1>16
    <3>2. PICK y \in L2 : p2[y] \notin L2
      <4>1. L2 \in SUBSET L2
        OBVIOUS
      <4> HIDE DEF L2, p2
      <4> QED BY <3>1, <4>1, <2>1 DEF Grounded
    <3>3. p2[y] = Null
      <4> HIDE DEF L2, p2, k2
      <4> QED BY <3>2, <2>1 DEF Linked
    <3>4. y \in Range(roots) /\ roots # <<>>
      <4>1. y \in Range(roots)
        BY <3>2, <3>3, <1>9
      <4> QED BY <4>1 DEF Range
    <3>5. Last(roots) \in Range(roots)
      BY <3>4, <1>9, LastIn
    <3> QED BY <3>1, <3>4, <3>5, <1>9
  <2>3. L2 # {} => Leaf(from, k2) \in L2 /\ k2[Leaf(from, k2)] = <<>>
    <3> HIDE DEF L2, k2, p2, from
    <3> QED BY <2>1, <2>2, LeafEnds
  <2>4. L2 = {} => from = Null
    <3>1. SUFFICES ASSUME L2 = {} PROVE up = Null /\ roots = <<>>
      OBVIOUS
    <3>2. Range(roots) = {}
      BY <3>1, <1>9
    <3> QED BY <3>1, <3>2, <1>9, <1>14, <1>16, LastIn
  <2>5. L2 = {} => Leaf(from, k2) = Null
    <3> HIDE DEF L2, k2, p2, from
    <3> QED BY <2>1, <2>4, <1>9, LeafType
  <2>6. L2 # {} => Leaf(from, k2) \in Answer
    <3>1. Id = Question \cup Answer
      BY Constants
    <3> QED BY <3>1, <2>1, <2>3, <1>15, <1>16
  <2> QED BY <2>3, <2>5, <2>6, <1>1
<1>17. TreeInv'
  BY <1>1, <1>14, <1>15, <1>16 DEF TreeInv
<1>18. LeafInv'
  <2>1. SUFFICES ASSUME stale = {}, ~hasty
                 PROVE  \A c \in Call : post'[c] = "sent" => kids'[call'[c]] = <<>>
    <3>1. stale = {} => (currentId' # Null => kids'[currentId'] = <<>>)
      BY <1>16
    <3> QED BY <2>1, <3>1, <1>1 DEF LeafInv
  <2>2. ASSUME NEW c \in Call, post[c] = "sent" PROVE kids'[call[c]] = <<>>
    <3>1. kids[call[c]] = <<>> /\ call[c] \in Id
      BY <2>1, <2>2, <1>0, Constants DEF LeafInv, TypeInv, CallsOK
    <3>2. call[c] # up
      <4>1. up # Null => kids[up] # <<>>
        BY <2>1, <1>14 DEF Range
      <4> QED BY <3>1, <4>1, Constants
    <3> QED BY <3>1, <3>2, <1>1
  <2> QED BY <2>2, <1>1 DEF Quiet
<1>19. WorkInv'
  <2>1. ObjectsLive'
    <3>1. SUFFICES ASSUME NEW h \in {Title, Merge}, kept'[h] # Null
                   PROVE  kept'[h].is \in {"object", "old"}
                          /\ (kept'[h].is = "object" => kept'[h].id \in Live')
      BY DEF ObjectsLive
    <3>2. h \in Keeper
      BY Constants
    <3>3. /\ kept[h] # Null /\ kept'[h].id = kept[h].id
          /\ kept'[h].is = kept[h].is \/ (kept[h].is = "object" /\ kept'[h].is = "old")
      BY <3>1, <3>2, <1>12 DEF Ages
    <3>4. kept[h].is \in {"object", "old"} /\ (kept[h].is = "object" => kept[h].id \in Live)
      BY <3>3, <1>0 DEF WorkInv
    <3>5. kept[h].is = "object" /\ kept[h].id \in gone => kept'[h].is = "old"
      BY <3>2, <3>3, <1>12 DEF Keeps
    <3> QED BY <3>3, <3>4, <3>5, <1>4
  <2>2. \A y \in Live' \cap Answer : done'[y] \/ (y \in Live /\ (done[y] => done'[y]))
    BY <1>0, <1>1, <1>4
  <2> QED BY <2>1, <2>2, <1>0, <1>1, QuietWork DEF Quiet
<1>20. ASSUME stale = {} PROVE Removes
  <2>1. \A y \in Live \ gone : /\ parent'[y] = IF parent[y] \in gone THEN parent[x] ELSE parent[y]
                               /\ done'[y] = done[y]
    <3>1. SUFFICES ASSUME NEW y \in Live, y \notin gone
                   PROVE  /\ parent'[y] = IF parent[y] \in gone THEN parent[x] ELSE parent[y]
                          /\ done'[y] = done[y]
      OBVIOUS
    <3>2. parent[y] \in gone <=> parent[y] \in Range(kids[x])
      BY <3>1, <1>14, <1>20 DEF gone
    <3>3. y \in Range(grand) <=> parent[y] \in gone
      BY <3>1, <3>2, <1>14, <1>20
    <3>4. y \in Id /\ done \in [Id -> BOOLEAN]
      BY <3>1, <1>0 DEF ViewOK
    <3> QED BY <3>1, <3>3, <3>4, <1>1
  <2>2. gone = {x} \cup {y \in Live : parent[y] = x} /\ Live' = Live \ gone
    BY <1>4, <1>14, <1>20
  <2> QED BY <2>1, <2>2 DEF Removes
<1> QED BY <1>1, <1>13, <1>17, <1>18, <1>19, <1>20 DEF ChatInv, TreeStep

\* A complete answer is shown as being written again, with a request of its own.
LEMMA ContinueKeeps ==
  ASSUME ChatInv, ContinueResponse
  PROVE  ChatInv' /\ TreeStep
<1> DEFINE a == currentId
<1> DEFINE n == Sent + 1
<1>0. /\ TypeInv /\ TreeInv /\ LeafInv /\ WorkInv /\ KeysOK /\ LinksOK /\ ViewOK /\ CallsOK /\ KeptOK
         /\ QueuesOK
      /\ RestOK /\ Live \subseteq Id
  BY Places DEF ChatInv, TypeInv
<1>1. /\ a \in Answer /\ done[a] /\ Sent < MaxCalls
      /\ done' = [done EXCEPT ![a] = FALSE]
      /\ call' = [call EXCEPT ![n] = a]
      /\ post' = [post EXCEPT ![n] = "sent"]
      /\ kept' = [kept EXCEPT ![n] = Object(a)]
      /\ UNCHANGED <<width, menu, keys, parent, kids, slot, failed, currentId, asked, answered, job, taskIds,
                     loop, inbox, finishing, stale, hasty, lost>>
  BY DEF ContinueResponse, links, stopping, ghosts
<1>2. n \in Call /\ n \in Nat /\ Sent \in Nat /\ n \in 0..MaxCalls /\ ~(n <= Sent) /\ n \in Keeper
  BY <1>0, <1>1, Constants DEF CallsOK, Call
<1>3. call[n] = Null /\ post[n] = "none" /\ job[n] = "none" /\ a <= Newest /\ a \in Id /\ a \in Nat
      /\ a # Null
  BY <1>0, <1>1, <1>2, IdFacts, Constants DEF CallsOK, ViewOK
<1>4. Object(a) \in Held /\ Object(a).id = a /\ Object(a).is = "object"
  BY <1>1, EmptySeq DEF Object, Held
<1>5. Newest' = Newest /\ Live' = Live
  BY <1>1 DEF Newest, Live
<1>6. Sent' = n
  <2>1. ASSUME NEW c \in Call PROVE call'[c] # Null <=> c <= n
    <3>1. c \in Nat /\ (c <= n <=> c <= Sent \/ c = n)
      BY <1>2, Constants
    <3>2. call[c] # Null <=> c <= Sent
      BY <1>0 DEF CallsOK
    <3>3. call'[c] = IF c = n THEN a ELSE call[c]
      BY <1>0, <1>1 DEF CallsOK
    <3> QED BY <3>1, <3>2, <3>3, <1>3
  <2> HIDE DEF n
  <2>2. Cardinality({c \in Call : call'[c] # Null}) = n
    BY <1>2, <2>1, Counted
  <2> QED BY <2>2 DEF Sent
<1> HIDE DEF n, a
<1>7. KeysOK' /\ LinksOK' /\ QueuesOK' /\ RestOK'
  <2>1. KeysOK'
    BY <1>0, <1>1, <1>5 DEF KeysOK
  <2>2. LinksOK' /\ RestOK'
    BY <1>0, <1>1 DEF LinksOK, RestOK
  <2>3. QueuesOK'
    BY <1>0, <1>1 DEF QueuesOK
  <2> QED BY <2>1, <2>2, <2>3
<1>8. ViewOK'
  <2>1. \A x \in Answer : done'[x] => done[x]
    BY <1>0, <1>1 DEF ViewOK
  <2> QED BY <2>1, <1>0, <1>1, <1>3, <1>5 DEF ViewOK
<1>9. \A c \in Call : /\ call'[c] = IF c = n THEN a ELSE call[c]
                      /\ post'[c] = IF c = n THEN "sent" ELSE post[c]
                      /\ kept'[c] = IF c = n THEN Object(a) ELSE kept[c]
  BY <1>0, <1>1, Constants DEF CallsOK, KeptOK
<1>10. CallsOK'
  <2>1. call' \in [Call -> Answer \cup {Null}] /\ post' \in [Call -> {"none", "sent", "over", "failed"}]
    BY <1>0, <1>1 DEF CallsOK
  <2>2. ASSUME NEW c \in Call
        PROVE  /\ call'[c] # Null <=> c <= n
               /\ call'[c] = Null => post'[c] = "none" /\ job'[c] = "none"
               /\ call'[c] # Null => post'[c] # "none" /\ call'[c] <= Newest'
    <3>1. CASE c = n
      <4>1. n <= n
        BY <1>2
      <4> QED BY <3>1, <4>1, <1>3, <1>5, <1>9
    <3>2. CASE c # n
      <4>1. c <= Sent <=> c <= n
        <5>1. n = Sent + 1 /\ c \in Nat /\ Sent \in Nat
          BY <1>2, Constants DEF n
        <5> QED BY <5>1, <3>2
      <4>2. call'[c] = call[c] /\ post'[c] = post[c] /\ job'[c] = job[c]
        BY <3>2, <1>1, <1>9
      <4> QED BY <4>1, <4>2, <1>0, <1>5 DEF CallsOK
    <3> QED BY <3>1, <3>2
  <2>3. job' \in [Call -> {"none", "running", "tidying", "ended"}]
    BY <1>0, <1>1 DEF CallsOK
  <2> QED BY <2>1, <2>2, <2>3, <1>2, <1>6 DEF CallsOK
<1>11. KeptOK'
  <2>1. kept' \in [Keeper -> Held \cup {Null}]
    BY <1>0, <1>1, <1>4 DEF KeptOK
  <2>2. ASSUME NEW h \in Keeper, kept'[h] # Null PROVE kept'[h] \in Held /\ kept'[h].id <= Newest'
    <3>1. kept'[h] = IF h = n THEN Object(a) ELSE kept[h]
      BY <1>0, <1>1 DEF KeptOK
    <3> QED BY <3>1, <2>2, <1>0, <1>3, <1>4, <1>5 DEF KeptOK
  <2>3. ASSUME NEW c \in Call, post'[c] = "sent" PROVE kept'[c] \in Held /\ kept'[c].id = call'[c]
    <3>1. CASE c = n
      BY <3>1, <1>4, <1>9
    <3>2. CASE c # n
      BY <3>2, <2>3, <1>0, <1>9 DEF KeptOK
    <3> QED BY <3>1, <3>2
  <2> QED BY <2>1, <2>2, <2>3 DEF KeptOK, Held
<1>12. TypeInv'
  BY <1>7, <1>8, <1>10, <1>11 DEF TypeInv
<1>13. TreeInv'
  BY <1>0, <1>1, SameTree
<1>14. LeafInv'
  <2>1. SUFFICES ASSUME stale = {}, ~hasty
                 PROVE  /\ currentId # Null => kids[currentId] = <<>>
                        /\ \A c \in Call : post'[c] = "sent" => kids[call'[c]] = <<>>
    BY <1>1 DEF LeafInv
  <2>2. kids[a] = <<>> /\ \A c \in Call : post[c] = "sent" => kids[call[c]] = <<>>
    BY <2>1, <1>0, <1>3 DEF LeafInv, a
  <2> QED BY <2>2, <1>9 DEF a
<1>15. WorkInv'
  <2>1. ASSUME NEW x \in Live' \cap Answer
        PROVE  (done[x] \/ x \in lost \/ EndComes(x) \/ \E c \in Call : call[c] = x /\ Unfinished(c))'
    <3>1. CASE x = a
      <4>1. PICK c \in Call : c = n
        BY <1>2
      <4>2. call'[c] = x /\ post'[c] = "sent" /\ job'[c] = "none"
        BY <3>1, <4>1, <1>1, <1>3, <1>9
      <4> QED BY <4>2 DEF Unfinished
    <3>2. CASE x # a
      <4>1. done[x] \/ x \in lost \/ EndComes(x) \/ \E c \in Call : call[c] = x /\ Unfinished(c)
        BY <2>1, <1>0, <1>5 DEF WorkInv
      <4>2. done'[x] = done[x] /\ lost' = lost /\ EndComes(x)' = EndComes(x)
        BY <3>2, <2>1, <1>0, <1>1, <1>3 DEF ViewOK, EndComes
      <4>3. ASSUME NEW c \in Call, call[c] = x, Unfinished(c) PROVE call'[c] = x /\ Unfinished(c)'
        <5>1. c # n
          BY <4>3, <2>1, <1>3, Constants
        <5> QED BY <5>1, <4>3, <1>1, <1>9 DEF Unfinished
      <4> QED BY <4>1, <4>2, <4>3
    <3> QED BY <3>1, <3>2
  <2>2. \A c \in Call : post[c] = "over" => post'[c] = "over"
    BY <1>3, <1>9
  <2>3. \A c \in Call : post'[c] = "over" => post[c] = "over" /\ job'[c] # "none"
    <3>1. \A c \in Call : post'[c] = "over" => post[c] = "over"
      BY <1>9
    <3>2. \A c \in Call : post[c] = "over" => job[c] # "none"
      BY <1>0 DEF WorkInv
    <3> QED BY <3>1, <3>2, <1>1
  <2>4. taskIds' # Null => \A c \in Range(taskIds') : post'[c] = "over"
    <3>1. taskIds # Null => Range(taskIds) \subseteq Call
      BY <1>0, RangeOfSeq DEF QueuesOK
    <3> QED BY <3>1, <2>2, <1>0, <1>1 DEF WorkInv
  <2>5. loop' # Null => \A c \in Range(loop.arr') : post'[c] = "over"
    <3>1. loop # Null => Range(loop.arr) \subseteq Call
      BY <1>0, RangeOfSeq DEF QueuesOK
    <3> QED BY <3>1, <2>2, <1>0, <1>1 DEF WorkInv
  <2>6. ASSUME NEW h \in {Title, Merge}, kept'[h] # Null
        PROVE  kept'[h].is \in {"object", "old"} /\ (kept'[h].is = "object" => kept'[h].id \in Live')
    <3>1. h \in Keeper /\ h # n /\ kept'[h] = kept[h]
      BY <1>0, <1>1, <1>2, Constants DEF KeptOK
    <3> QED BY <3>1, <2>6, <1>0, <1>5 DEF WorkInv
  <2> QED BY <2>1, <2>3, <2>4, <2>5, <2>6 DEF WorkInv
<1>16. TreeStep
  <2>1. SUFFICES ASSUME stale = {} PROVE Reopens
    BY <1>1 DEF TreeStep
  <2>2. a \in Live \cap Answer
    BY <2>1, <1>0, <1>1, <1>3 DEF TreeInv, a
  <2>3. \A x \in Live : done'[x] = (done[x] /\ x # a)
    BY <1>0, <1>1 DEF ViewOK
  <2> QED BY <2>2, <2>3, <1>1 DEF Reopens, a
<1> QED BY <1>12, <1>13, <1>14, <1>15, <1>16 DEF ChatInv

-----------------------------------------------------------------------------
(* Handlers that put back what they kept.                                  *)

\* What is put back is an answer that has been created; nothing becomes of the tree unless it was outdated.
Put(h) ==
  LET a == kept[h].id IN
    /\ a \in Answer /\ a \in Id /\ a <= Newest
    /\ KeysOK' /\ LinksOK' /\ Live' = Live \cup {a} /\ ObjectsLive'
    /\ kept' \in [Keeper -> Held \cup {Null}]
    /\ \A g \in Keeper : kept'[g] # Null => kept'[g] \in Held /\ kept'[g].id <= Newest
    /\ \A g \in Keeper : g # h /\ kept[g] \in Held => kept'[g] \in Held /\ kept'[g].id = kept[g].id
    /\ stale' \subseteq {"call", "title", "rate", "merge"}
    /\ stale' # {} \/ (a \in Live /\ UNCHANGED <<stale, keys, parent, kids>>)

\* What PutBack does.
LEMMA PutBackPuts ==
  ASSUME TypeInv, ObjectsLive, NEW h \in Keeper, kept[h] \in Held, kept[h].id <= Newest,
         NEW goesOn \in BOOLEAN, PutBack(h, goesOn), UNCHANGED <<asked, answered>>
  PROVE  Put(h)
<1> DEFINE v == kept[h]
<1> DEFINE a == v.id
<1> DEFINE torn == a \notin Live \/ (v.is # "object" /\ <<v.parent, v.kids>> # <<parent[a], kids[a]>>)
<1> DEFINE rest == IF v.is = "object" THEN kept ELSE Outdated({a})
<1>0. KeysOK /\ LinksOK /\ KeptOK /\ RestOK /\ Live = Range(keys)
  BY DEF TypeInv, Live
<1>1. /\ keys' = IF a \in Live THEN keys ELSE Append(keys, a)
      /\ parent' = IF v.is = "object" THEN parent ELSE [parent EXCEPT ![a] = v.parent]
      /\ kids' = IF v.is = "object" THEN kids ELSE [kids EXCEPT ![a] = v.kids]
      /\ kept' = [rest EXCEPT ![h] = IF goesOn THEN Object(a) ELSE Null]
      /\ stale' = IF torn THEN stale \cup {IF h \in Call THEN "call" ELSE KeeperName[h - MaxCalls]} ELSE stale
  BY DEF PutBack
<1>2. v \in Held /\ a \in Answer /\ a \in Id /\ a <= Newest /\ v.parent \in Id \cup {Null}
      /\ v.kids \in Seq(Id)
  BY <1>0, Constants DEF KeptOK, Held
<1>3. Newest' = Newest /\ Newest \in Nat
  BY <1>0, Numbered DEF Newest, KeysOK
<1>4. Ages(rest)
  BY <1>0, KeptAges, OutdatedAges
<1> HIDE DEF rest, torn
<1>5. keys' \in Seq(Id) /\ IsInjective(keys') /\ Live' = Live \cup {a}
  <2>1. CASE a \in Live
    BY <2>1, <1>0, <1>1 DEF KeysOK, Live
  <2>2. CASE a \notin Live
    <3>1. keys \in Seq(Id) /\ IsInjective(keys) /\ a \notin Range(keys)
      BY <2>2, <1>0 DEF KeysOK
    <3>2. /\ Append(keys, a) \in Seq(Id) /\ IsInjective(Append(keys, a))
          /\ Range(Append(keys, a)) = Range(keys) \cup {a}
      BY <3>1, <1>2, Appended
    <3> QED BY <2>2, <3>2, <1>0, <1>1 DEF Live
  <2> QED BY <2>1, <2>2
<1>6. KeysOK'
  BY <1>0, <1>2, <1>3, <1>5, Constants DEF KeysOK
<1>7. LinksOK'
  BY <1>0, <1>1, <1>2 DEF LinksOK
<1>8. Object(a) \in Held /\ Object(a).id = a /\ Object(a).is = "object"
  BY <1>2, EmptySeq DEF Object, Held
<1> HIDE DEF v
<1>9. /\ kept' \in [Keeper -> Held \cup {Null}]
      /\ \A g \in Keeper : g # h => kept'[g] = rest[g]
      /\ kept'[h] = IF goesOn THEN Object(v.id) ELSE Null
  BY <1>1, <1>4, <1>8 DEF Ages
<1>10. ASSUME NEW g \in Keeper
       PROVE  /\ kept'[g] # Null => kept'[g] \in Held /\ kept'[g].id <= Newest
              /\ g # h /\ kept[g] \in Held => kept'[g] \in Held /\ kept'[g].id = kept[g].id
  <2>1. CASE g = h
    BY <2>1, <1>2, <1>8, <1>9
  <2>2. CASE g # h
    <3>1. kept'[g] = rest[g]
      BY <2>2, <1>9
    <3>2. kept[g] # Null => kept[g] \in Held /\ kept[g].id <= Newest
      BY <1>0 DEF KeptOK
    <3> QED BY <2>2, <3>1, <3>2, <1>4 DEF Ages
  <2> QED BY <2>1, <2>2
<1>11. ObjectsLive'
  <2>1. SUFFICES ASSUME NEW g \in {Title, Merge}, kept'[g] # Null
                 PROVE  kept'[g].is \in {"object", "old"} /\ (kept'[g].is = "object" => kept'[g].id \in Live')
    BY DEF ObjectsLive
  <2>2. g \in Keeper
    BY Constants
  <2>3. CASE g = h
    BY <2>1, <2>3, <1>5, <1>8, <1>9
  <2>4. CASE g # h
    <3>1. kept'[g] = rest[g]
      BY <2>2, <2>4, <1>9
    <3>2. /\ kept[g] # Null /\ rest[g].id = kept[g].id
          /\ rest[g].is = kept[g].is \/ (kept[g].is = "object" /\ rest[g].is = "old")
      BY <2>1, <2>2, <3>1, <1>4 DEF Ages
    <3>3. kept[g].is \in {"object", "old"} /\ (kept[g].is = "object" => kept[g].id \in Live)
      BY <3>2 DEF ObjectsLive
    <3> QED BY <3>1, <3>2, <3>3, <1>5
  <2> QED BY <2>3, <2>4
<1>12. stale' \subseteq {"call", "title", "rate", "merge"}
  <2>1. h \notin Call => KeeperName[h - MaxCalls] \in {"title", "rate", "merge"}
    <3>1. h \notin Call => h - MaxCalls \in {1, 2, 3}
      BY Constants DEF Title, Rating, Merge
    <3>2. \A i \in {1, 2, 3} : KeeperName[i] \in {"title", "rate", "merge"}
      BY DEF KeeperName
    <3> QED BY <3>1, <3>2
  <2> QED BY <2>1, <1>0, <1>1 DEF RestOK
<1>13. stale' # {} \/ (v.id \in Live /\ UNCHANGED <<stale, keys, parent, kids>>)
  <2>1. SUFFICES ASSUME stale' = {} PROVE v.id \in Live /\ UNCHANGED <<stale, keys, parent, kids>>
    OBVIOUS
  <2>2. ~torn /\ stale' = stale
    BY <2>1, <1>1
  <2>3. a \in Live /\ (v.is # "object" => v.parent = parent[a] /\ v.kids = kids[a])
    BY <2>2 DEF torn
  <2>4. keys' = keys /\ parent' = parent /\ kids' = kids
    BY <2>3, <1>0, <1>1, <1>2 DEF LinksOK
  <2> QED BY <2>2, <2>3, <2>4
<1> QED BY <1>2, <1>5, <1>6, <1>7, <1>9, <1>10, <1>11, <1>12, <1>13 DEF Put, v

\* A handler that is not a request puts back what it kept.
LEMMA WaitKeeps ==
  ASSUME ChatInv, NEW h \in {Title, Rating, Merge}, kept[h] # Null, NEW goesOn \in BOOLEAN,
         PutBack(h, goesOn),
         NEW sets \in BOOLEAN, done' = [done EXCEPT ![kept[h].id] = @ \/ sets],
         kept[h].id \notin Live => sets,
         UNCHANGED waiting
  PROVE  ChatInv' /\ TreeStep
<1> DEFINE a == kept[h].id
<1>0. /\ TypeInv /\ TreeInv /\ LeafInv /\ WorkInv /\ KeysOK /\ LinksOK /\ ViewOK /\ CallsOK /\ KeptOK
         /\ QueuesOK
      /\ RestOK /\ h \in Keeper /\ h \notin Call /\ ObjectsLive
  BY Constants DEF ChatInv, TypeInv, WorkInv, ObjectsLive
<1>1. UNCHANGED <<width, menu, asked, answered, slot, failed, currentId, call, post, job, taskIds, loop,
                  inbox, finishing, hasty, lost>>
  BY DEF waiting, still, stopping
<1>2. Put(h)
  <2>1. kept[h] \in Held /\ kept[h].id <= Newest
    BY <1>0 DEF KeptOK
  <2> QED BY <2>1, <1>0, <1>1, PutBackPuts
<1>3. /\ a \in Answer /\ a \in Id /\ a <= Newest
      /\ KeysOK' /\ LinksOK' /\ Live' = Live \cup {a} /\ ObjectsLive'
      /\ kept' \in [Keeper -> Held \cup {Null}]
      /\ \A g \in Keeper : kept'[g] # Null => kept'[g] \in Held /\ kept'[g].id <= Newest
      /\ \A g \in Keeper : g # h /\ kept[g] \in Held => kept'[g] \in Held /\ kept'[g].id = kept[g].id
      /\ stale' \subseteq {"call", "title", "rate", "merge"}
      /\ stale' # {} \/ (a \in Live /\ UNCHANGED <<stale, keys, parent, kids>>)
  BY <1>2 DEF Put
<1>4. Newest' = Newest /\ Sent' = Sent
  BY <1>1 DEF Newest, Sent
<1> HIDE DEF a
<1>5. done' = [done EXCEPT ![a] = @ \/ sets] /\ (a \notin Live => sets)
  BY DEF a
<1>6. /\ done' \in [Id -> BOOLEAN] /\ \A x \in Id : done[x] => done'[x]
      /\ a \notin Live => done'[a]
      /\ \A x \in Id : x # a => done'[x] = done[x]
  BY <1>0, <1>3, <1>5 DEF ViewOK
<1>7. ViewOK'
  <2>1. \A x \in Answer : done'[x] => x <= Newest'
    <3>1. \A x \in Answer : x \in Id
      BY Constants
    <3> QED BY <3>1, <1>0, <1>3, <1>4, <1>6 DEF ViewOK
  <2> QED BY <2>1, <1>0, <1>1, <1>6 DEF ViewOK
<1>8. CallsOK' /\ QueuesOK' /\ RestOK'
  <2>1. CallsOK'
    BY <1>0, <1>1, <1>4 DEF CallsOK
  <2>2. QueuesOK'
    BY <1>0, <1>1 DEF QueuesOK
  <2>3. RestOK'
    BY <1>0, <1>1, <1>3 DEF RestOK
  <2> QED BY <2>1, <2>2, <2>3
<1>9. KeptOK'
  <2>1. \A c \in Call : post'[c] = "sent" => kept'[c] \in Held /\ kept'[c].id = call'[c]
    <3>1. SUFFICES ASSUME NEW c \in Call, post[c] = "sent" PROVE kept'[c] \in Held /\ kept'[c].id = call[c]
      BY <1>1
    <3>2. c \in Keeper /\ c # h /\ kept[c] \in Held /\ kept[c].id = call[c]
      BY <3>1, <1>0, Constants DEF KeptOK
    <3> QED BY <3>2, <1>3
  <2> QED BY <2>1, <1>3, <1>4 DEF KeptOK, Held
<1>10. TypeInv'
  BY <1>3, <1>7, <1>8, <1>9 DEF TypeInv
<1>11. TreeInv'
  <2>1. CASE stale' # {}
    BY <2>1 DEF TreeInv
  <2>2. CASE stale' = {}
    BY <2>2, <1>0, <1>1, <1>3, SameTree
  <2> QED BY <2>1, <2>2
<1>12. LeafInv'
  <2>1. CASE stale' # {}
    BY <2>1 DEF LeafInv
  <2>2. CASE stale' = {}
    BY <2>2, <1>0, <1>1, <1>3, SameLeaf
  <2> QED BY <2>1, <2>2
<1>13. WorkInv'
  <2>1. \A x \in Live' \cap Answer : done'[x] \/ (x \in Live /\ (done[x] => done'[x]))
    BY <1>3, <1>6, Constants
  <2> QED BY <2>1, <1>0, <1>1, <1>3, QuietWork
<1>14. TreeStep
  <2>1. SUFFICES ASSUME stale' = {} PROVE stale' = stale /\ Settles
    BY DEF TreeStep
  <2>2. \A x \in Live \cap Answer : done[x] => done'[x]
    BY <1>6, Constants
  <2> QED BY <2>1, <2>2, <1>1, <1>3 DEF Settles
<1> QED BY <1>10, <1>11, <1>12, <1>13, <1>14 DEF ChatInv

\* Titles, ratings and merged answers are written to the message kept.
LEMMA PutsKeep ==
  ASSUME ChatInv, TitleListed \/ \E goesOn \in BOOLEAN : SaveRating(goesOn) \/ MergeChunk(goesOn)
  PROVE  ChatInv' /\ TreeStep
<1>0. /\ \A h \in Keeper : kept[h] # Null => kept[h].id \in Answer /\ kept[h].id \in Id
      /\ done \in [Id -> BOOLEAN]
      /\ \A h \in {Title, Merge} : kept[h] # Null /\ kept[h].id \notin Live => kept[h].is = "old"
  <2>1. KeptOK /\ ViewOK /\ WorkInv
    BY DEF ChatInv, TypeInv
  <2> QED BY <2>1, Constants DEF KeptOK, ViewOK, WorkInv, Held
<1>1. CASE TitleListed
  <2>1. kept[Title] # Null /\ PutBack(Title, FALSE) /\ UNCHANGED waiting
    BY <1>1 DEF TitleListed
  <2> DEFINE sets == kept[Title].is = "old"
  <2>2. done' = [done EXCEPT ![kept[Title].id] = @ \/ sets] /\ sets \in BOOLEAN
    BY <1>1 DEF TitleListed
  <2>3. kept[Title].id \notin Live => sets
    BY <2>1, <1>0
  <2> HIDE DEF sets
  <2> QED BY <2>1, <2>2, <2>3, WaitKeeps
<1>2. ASSUME NEW goesOn \in BOOLEAN, SaveRating(goesOn) PROVE ChatInv' /\ TreeStep
  <2>1. kept[Rating] # Null /\ PutBack(Rating, goesOn) /\ UNCHANGED waiting
    BY <1>2 DEF SaveRating
  <2>2. kept[Rating].id \in Id
    BY <2>1, <1>0, Constants
  <2>3. done' = [done EXCEPT ![kept[Rating].id] = @ \/ TRUE]
    BY <2>2, <1>0, <1>2 DEF SaveRating
  <2> QED BY <2>1, <2>3, WaitKeeps
<1>3. ASSUME NEW goesOn \in BOOLEAN, MergeChunk(goesOn) PROVE ChatInv' /\ TreeStep
  <2>1. kept[Merge] # Null /\ PutBack(Merge, goesOn) /\ UNCHANGED waiting
    BY <1>3 DEF MergeChunk
  <2> DEFINE sets == kept[Merge].is = "old"
  <2>2. done' = [done EXCEPT ![kept[Merge].id] = @ \/ sets] /\ sets \in BOOLEAN
    BY <1>3 DEF MergeChunk
  <2>3. kept[Merge].id \notin Live => sets
    BY <2>1, <1>0
  <2> HIDE DEF sets
  <2> QED BY <2>1, <2>2, <2>3, WaitKeeps
<1> QED BY <1>1, <1>2, <1>3

-----------------------------------------------------------------------------
(* Requests, tasks and socket events.                                      *)

\* The events of an answer.
EventType == {"done", "error", "cancel", "title"}

\* An event on its way to the page.
InboxEvent == [type : EventType, id : Answer]

\* Who waits for a task to be stopped, or keeps its id, knows of its request.
TasksKnown ==
  /\ \A c \in Call : post[c] = "over" => job[c] # "none"
  /\ taskIds # Null => \A c \in Range(taskIds) : post[c] = "over"
  /\ loop # Null => \A c \in Range(loop.arr) : post[c] = "over"

\* Steps of the server, of requests and of events leave the tree alone.
LEMMA FrameKeeps ==
  ASSUME ChatInv, UNCHANGED <<width, menu, keys, parent, kids, currentId, asked, answered, call, stale,
                              hasty>>,
         ViewOK', CallsOK', KeptOK', QueuesOK', WorkInv', lost' \subseteq Answer,
         \A x \in Live : done[x] => done'[x],
         \A c \in Call : post'[c] = "sent" => post[c] = "sent"
  PROVE  ChatInv' /\ TreeStep
<1>1. TypeInv /\ TreeInv /\ LeafInv /\ KeysOK /\ LinksOK /\ RestOK
  BY DEF ChatInv, TypeInv
<1>2. KeysOK'
  BY <1>1 DEF KeysOK, Live, Newest
<1>3. LinksOK' /\ RestOK'
  BY <1>1 DEF LinksOK, RestOK
<1>4. TypeInv'
  BY <1>2, <1>3 DEF TypeInv
<1>5. TreeInv' /\ LeafInv'
  BY <1>1, SameTree, SameLeaf
<1>6. TreeStep
  BY DEF TreeStep, Settles
<1> QED BY <1>4, <1>5, <1>6 DEF ChatInv

\* One more event, or the first one taken.
LEMMA Arriving ==
  ASSUME NEW T, NEW s \in Seq(T), NEW e \in T, NEW t, t = Append(s, e)
  PROVE  t \in Seq(T) /\ (\A i \in DOMAIN s : i \in DOMAIN t /\ t[i] = s[i]) /\ \E i \in DOMAIN t : t[i] = e
<1>1. Len(s) \in Nat /\ DOMAIN s = 1..Len(s)
  BY LenProperties
<1>2. t \in Seq(T) /\ Len(t) = Len(s) + 1 /\ t[Len(s) + 1] = e /\ \A i \in 1..Len(s) : t[i] = s[i]
  BY AppendProperties
<1>3. DOMAIN t = 1..Len(s) + 1
  BY <1>2, LenProperties
<1>4. Len(s) + 1 \in DOMAIN t /\ \A i \in DOMAIN s : i \in DOMAIN t
  BY <1>1, <1>3
<1> QED BY <1>1, <1>2, <1>4

\* The first event is taken.
LEMMA Taking ==
  ASSUME NEW T, NEW s \in Seq(T), s # <<>>, NEW t, t = Tail(s)
  PROVE  /\ t \in Seq(T) /\ Head(s) \in T
         /\ \A i \in DOMAIN s : s[i] = Head(s) \/ \E j \in DOMAIN t : t[j] = s[i]
<1>1. /\ Len(s) \in Nat /\ DOMAIN s = 1..Len(s) /\ t \in Seq(T) /\ Head(s) \in T
      /\ Len(t) = Len(s) - 1 /\ \A i \in 1..Len(t) : t[i] = s[i + 1]
  BY LenProperties, HeadTailProperties
<1>2. DOMAIN t = 1..Len(s) - 1
  BY <1>1, LenProperties
<1>3. Head(s) = s[1]
  OBVIOUS
<1>4. ASSUME NEW i \in DOMAIN s, i # 1 PROVE i - 1 \in DOMAIN t /\ t[i - 1] = s[i]
  <2>1. i - 1 \in 1..Len(s) - 1 /\ i - 1 + 1 = i
    BY <1>1, <1>4
  <2> QED BY <2>1, <1>1, <1>2
<1> QED BY <1>1, <1>3, <1>4

\* Requests and tasks go on: while an answer is not complete, somebody works on it or its end is announced.
LEMMA RequestsWork ==
  ASSUME WorkInv, UNCHANGED <<keys, call, lost>>, \A x \in Live : done[x] => done'[x], ObjectsLive',
         TasksKnown',
         \A i \in DOMAIN inbox : i \in DOMAIN inbox' /\ inbox'[i] = inbox[i],
         \A a \in Answer : \A c \in Call : call[c] = a /\ Unfinished(c) => Unfinished(c)' \/ EndComes(a)'
  PROVE  WorkInv'
<1>1. ASSUME NEW a \in Live \cap Answer
      PROVE  (done[a] \/ a \in lost \/ EndComes(a) \/ \E c \in Call : call[c] = a /\ Unfinished(c))'
  <2>1. done[a] \/ a \in lost \/ EndComes(a) \/ \E c \in Call : call[c] = a /\ Unfinished(c)
    BY <1>1 DEF WorkInv
  <2>2. EndComes(a) => EndComes(a)'
    BY DEF EndComes
  <2>3. ASSUME NEW c \in Call, call[c] = a, Unfinished(c)
        PROVE  (call[c] = a /\ Unfinished(c))' \/ EndComes(a)'
    BY <1>1, <2>3
  <2> QED BY <2>1, <2>2, <2>3
<1>2. Live' = Live
  BY DEF Live
<1> QED BY <1>1, <1>2 DEF WorkInv, ObjectsLive, TasksKnown

\* An event that ends an answer may be taken if the answer is then complete, or counts as lost.
LEMMA EventsWork ==
  ASSUME TypeInv, WorkInv, UNCHANGED <<keys, call, post, job>>, ObjectsLive', TasksKnown',
         inbox # <<>>, inbox' = Tail(inbox), lost \subseteq lost', \A x \in Live : done[x] => done'[x],
         LET e == Head(inbox) IN
           e.id \in Live /\ e.type \in {"done", "cancel"} => done'[e.id] \/ e.id \in lost'
  PROVE  WorkInv'
<1>1. ASSUME NEW a \in Live \cap Answer
      PROVE  (done[a] \/ a \in lost \/ EndComes(a) \/ \E c \in Call : call[c] = a /\ Unfinished(c))'
  <2>1. done[a] \/ a \in lost \/ EndComes(a) \/ \E c \in Call : call[c] = a /\ Unfinished(c)
    BY <1>1 DEF WorkInv
  <2>2. ASSUME EndComes(a) PROVE EndComes(a)' \/ done'[a] \/ a \in lost'
    <3>1. PICK i \in DOMAIN inbox : inbox[i].id = a /\ inbox[i].type \in {"done", "cancel"}
      BY <2>2 DEF EndComes
    <3>2. inbox \in Seq(InboxEvent)
      BY DEF TypeInv, QueuesOK, InboxEvent, EventType
    <3>3. inbox[i] = Head(inbox) \/ \E j \in DOMAIN inbox' : inbox'[j] = inbox[i]
      BY <3>2, Taking
    <3>4. CASE inbox[i] = Head(inbox)
      BY <1>1, <3>1, <3>4
    <3>5. CASE \E j \in DOMAIN inbox' : inbox'[j] = inbox[i]
      BY <3>1, <3>5 DEF EndComes
    <3> QED BY <3>3, <3>4, <3>5
  <2>3. \A c \in Call : call[c] = a /\ Unfinished(c) => (call[c] = a /\ Unfinished(c))'
    BY DEF Unfinished
  <2> QED BY <2>1, <2>2, <2>3, <1>1
<1>2. Live' = Live
  BY DEF Live
<1> QED BY <1>1, <1>2 DEF WorkInv, ObjectsLive, TasksKnown

\* What the invariant says of objects and of tasks.
LEMMA Known ==
  ASSUME WorkInv
  PROVE  ObjectsLive /\ TasksKnown
BY DEF WorkInv, ObjectsLive, TasksKnown

\* Steps of a task.
LEMMA TaskKeeps ==
  ASSUME ChatInv, NEW c \in Call, NEW s \in {"running", "tidying", "ended"}, call[c] # Null,
         job' = [job EXCEPT ![c] = s],
         UNCHANGED <<width, menu, keys, parent, kids, done, slot, failed, currentId, asked, answered, call,
                     post, kept, taskIds, finishing, stale, hasty, lost>>,
         loop' # Null => /\ loop # Null /\ loop'.arr = loop.arr
                         /\ loop' \in [arr : Seq(Call), at : Nat \ {0}, shared : BOOLEAN],
         inbox' \in Seq(InboxEvent), \A i \in DOMAIN inbox : i \in DOMAIN inbox' /\ inbox'[i] = inbox[i],
         \A a \in Answer : call[c] = a /\ Unfinished(c) => s = "running" \/ EndComes(a)'
  PROVE  ChatInv' /\ TreeStep
<1>0. /\ TypeInv /\ WorkInv /\ ViewOK /\ CallsOK /\ KeptOK /\ QueuesOK /\ RestOK /\ TasksKnown /\ ObjectsLive
  BY Known DEF ChatInv, TypeInv
<1>1. Newest' = Newest /\ Sent' = Sent /\ Live' = Live
  BY DEF Newest, Sent, Live
<1>2. \A d \in Call : job'[d] = IF d = c THEN s ELSE job[d]
  BY <1>0 DEF CallsOK
<1>3. ViewOK' /\ KeptOK'
  BY <1>0, <1>1 DEF ViewOK, KeptOK
<1>4. CallsOK'
  <2>1. job' \in [Call -> {"none", "running", "tidying", "ended"}]
    BY <1>0 DEF CallsOK
  <2> QED BY <2>1, <1>0, <1>1, <1>2 DEF CallsOK
<1>5. QueuesOK'
  BY <1>0 DEF QueuesOK, InboxEvent, EventType
<1>6. TasksKnown'
  <2>1. \A d \in Call : post[d] = "over" => job'[d] # "none"
    BY <1>0, <1>2 DEF TasksKnown
  <2> QED BY <2>1, <1>0 DEF TasksKnown
<1>7. ObjectsLive'
  BY <1>0, <1>1 DEF ObjectsLive
<1>8. \A a \in Answer : \A d \in Call : call[d] = a /\ Unfinished(d) => Unfinished(d)' \/ EndComes(a)'
  BY <1>2 DEF Unfinished
<1>9. WorkInv'
  BY <1>0, <1>6, <1>7, <1>8, RequestsWork
<1> QED BY <1>0, <1>3, <1>4, <1>5, <1>9, FrameKeeps DEF RestOK

\* The server accepts a request, answers, ends or fails.
LEMMA RequestsKeep ==
  ASSUME ChatInv, NEW c \in Call,
         Accept(c) \/ TaskAnswers(c) \/ TaskFails(c) \/ \E titles \in BOOLEAN : TaskEnds(c, titles)
  PROVE  ChatInv' /\ TreeStep
<1>0. CallsOK /\ QueuesOK /\ inbox \in Seq(InboxEvent)
  BY DEF ChatInv, TypeInv, QueuesOK, InboxEvent, EventType
<1>1. /\ UNCHANGED <<width, menu, keys, parent, kids, done, slot, failed, currentId, asked, answered, call,
                     post, kept, taskIds, finishing, stale, hasty, lost>>
      /\ loop' = loop
  BY DEF Accept, TaskAnswers, TaskFails, TaskEnds, still, links, view, stopping, ghosts
<1>2. call[c] # Null /\ call[c] \in Answer
  BY <1>0 DEF Accept, TaskAnswers, TaskFails, TaskEnds, CallsOK
<1>3. loop' # Null => loop # Null /\ loop'.arr = loop.arr
                      /\ loop' \in [arr : Seq(Call), at : Nat \ {0}, shared : BOOLEAN]
  BY <1>0, <1>1 DEF QueuesOK
<1>4. \A type \in EventType : Event(type, call[c]) \in InboxEvent /\ Event(type, call[c]).type = type
                              /\ Event(type, call[c]).id = call[c]
  BY <1>2 DEF Event, InboxEvent
<1>5. CASE Accept(c)
  <2>1. job' = [job EXCEPT ![c] = "running"] /\ inbox' = inbox
    BY <1>5 DEF Accept
  <2> QED BY <2>1, <1>0, <1>1, <1>2, <1>3, TaskKeeps
<1>6. CASE TaskAnswers(c)
  <2>1. PICK s \in {"tidying", "ended"} : job' = [job EXCEPT ![c] = s]
    BY <1>6 DEF TaskAnswers
  <2>2. inbox' = Append(inbox, Event("done", call[c]))
    BY <1>6 DEF TaskAnswers
  <2> DEFINE e == Event("done", call[c])
  <2>3. e \in InboxEvent /\ e.type = "done" /\ e.id = call[c]
    BY <1>4 DEF EventType
  <2> HIDE DEF e
  <2>4. /\ inbox' \in Seq(InboxEvent) /\ \A i \in DOMAIN inbox : i \in DOMAIN inbox' /\ inbox'[i] = inbox[i]
        /\ \E i \in DOMAIN inbox' : inbox'[i] = e
    BY <2>2, <2>3, <1>0, Arriving DEF e
  <2>5. \A a \in Answer : call[c] = a => EndComes(a)'
    BY <2>3, <2>4 DEF EndComes
  <2> QED BY <2>1, <2>4, <2>5, <1>1, <1>2, <1>3, TaskKeeps
<1>7. CASE TaskFails(c)
  <2>1. /\ job' = [job EXCEPT ![c] = "ended"]
        /\ inbox' = inbox \o <<Event("error", call[c]), Event("cancel", call[c])>>
    BY <1>7 DEF TaskFails
  <2> DEFINE e1 == Event("error", call[c])
  <2> DEFINE e == Event("cancel", call[c])
  <2> DEFINE mid == Append(inbox, e1)
  <2>2. e \in InboxEvent /\ e.type = "cancel" /\ e.id = call[c] /\ e1 \in InboxEvent
    BY <1>4 DEF EventType
  <2> HIDE DEF e, e1
  <2>3. inbox' = Append(mid, e)
    <3>1. <<e1>> \in Seq(InboxEvent) /\ <<e>> \in Seq(InboxEvent) /\ <<e1>> \o <<e>> = <<e1, e>>
      <4>1. <<e1>> \in Seq(InboxEvent) /\ <<e>> \in Seq(InboxEvent)
        BY <2>2
      <4>2. <<e1>> \o <<e>> = <<e1, e>>
        <5> DEFINE t == <<e1>>
        <5> DEFINE u == <<e>>
        <5> DEFINE v == <<e1, e>>
        <5>1. /\ t \in Seq(InboxEvent) /\ Len(t) = 1 /\ t[1] = e1 /\ u \in Seq(InboxEvent) /\ Len(u) = 1
                 /\ u[1] = e
              /\ v \in Seq(InboxEvent) /\ Len(v) = 2 /\ v[1] = e1 /\ v[2] = e
          BY <2>2
        <5> HIDE DEF t, u, v
        <5>2. /\ Cat(t, u) \in Seq(InboxEvent) /\ Len(Cat(t, u)) = 2
              /\ \A i \in 1..2 : Cat(t, u)[i] = IF i <= 1 THEN t[i] ELSE u[i - 1]
          <6>1. /\ Cat(t, u) \in Seq(InboxEvent) /\ Len(Cat(t, u)) = Len(t) + Len(u)
                /\ \A i \in 1..Len(t) + Len(u) : Cat(t, u)[i] = IF i <= Len(t) THEN t[i] ELSE u[i - Len(t)]
            BY <5>1, ConcatProperties DEF Cat
          <6> QED BY <5>1, <6>1
        <5>3. \A i \in 1..2 : Cat(t, u)[i] = v[i]
          BY <5>1, <5>2
        <5>4. Cat(t, u) = v
          BY <5>1, <5>2, <5>3, SeqEqual
        <5> QED BY <5>4 DEF Cat, t, u, v
      <4> QED BY <4>1, <4>2
    <3>2. mid = inbox \o <<e1>> /\ mid \in Seq(InboxEvent)
      BY <2>2, <1>0, AppendIsConcat, Appended
    <3>3. Append(mid, e) = mid \o <<e>>
      BY <3>2, <2>2, AppendIsConcat
    <3>4. (inbox \o <<e1>>) \o <<e>> = inbox \o (<<e1>> \o <<e>>)
      BY <3>1, <1>0, ConcatAssociative
    <3> QED BY <3>1, <3>2, <3>3, <3>4, <2>1 DEF e, e1
  <2>4. mid \in Seq(InboxEvent) /\ \A i \in DOMAIN inbox : i \in DOMAIN mid /\ mid[i] = inbox[i]
    BY <2>2, <1>0, Arriving
  <2> HIDE DEF mid
  <2>5. /\ inbox' \in Seq(InboxEvent) /\ \A i \in DOMAIN mid : i \in DOMAIN inbox' /\ inbox'[i] = mid[i]
        /\ \E i \in DOMAIN inbox' : inbox'[i] = e
    BY <2>2, <2>3, <2>4, Arriving
  <2>6. \A i \in DOMAIN inbox : i \in DOMAIN inbox' /\ inbox'[i] = inbox[i]
    BY <2>4, <2>5
  <2>7. \A a \in Answer : call[c] = a => EndComes(a)'
    BY <2>2, <2>5 DEF EndComes
  <2> QED BY <2>1, <2>5, <2>6, <2>7, <1>1, <1>2, <1>3, TaskKeeps
<1>8. ASSUME NEW titles \in BOOLEAN, TaskEnds(c, titles) PROVE ChatInv' /\ TreeStep
  <2>1. /\ job' = [job EXCEPT ![c] = "ended"] /\ job[c] = "tidying"
        /\ inbox' = IF titles THEN Append(inbox, Event("title", call[c])) ELSE inbox
    BY <1>8 DEF TaskEnds
  <2> DEFINE e == Event("title", call[c])
  <2>2. e \in InboxEvent
    BY <1>4 DEF EventType
  <2> HIDE DEF e
  <2>3. inbox' \in Seq(InboxEvent) /\ \A i \in DOMAIN inbox : i \in DOMAIN inbox' /\ inbox'[i] = inbox[i]
    <3>1. CASE titles
      BY <3>1, <2>1, <2>2, <1>0, Arriving DEF e
    <3>2. CASE ~titles
      BY <3>2, <2>1, <1>0
    <3> QED BY <3>1, <3>2
  <2>4. ~Unfinished(c)
    BY <2>1 DEF Unfinished
  <2> QED BY <2>1, <2>3, <2>4, <1>1, <1>2, <1>3, TaskKeeps
<1> QED BY <1>5, <1>6, <1>7, <1>8

\* The page learns the id of the task, which a stop will go through.
LEMMA AcceptedKeeps ==
  ASSUME ChatInv, NEW c \in Call, SendAccepted(c)
  PROVE  ChatInv' /\ TreeStep
<1>0. /\ TypeInv /\ WorkInv /\ ViewOK /\ CallsOK /\ KeptOK /\ QueuesOK /\ RestOK /\ TasksKnown /\ ObjectsLive
      /\ c \in Keeper /\ c # Title /\ c # Merge /\ Title \in Keeper /\ Merge \in Keeper
  BY Known, Constants DEF ChatInv, TypeInv
<1>1. /\ post[c] = "sent" /\ job[c] # "none"
      /\ post' = [post EXCEPT ![c] = "over"] /\ kept' = [kept EXCEPT ![c] = Null]
      /\ taskIds' = IF taskIds = Null THEN <<c>> ELSE Append(taskIds, c)
      /\ loop' = IF loop # Null /\ loop.shared THEN [loop EXCEPT !.arr = Append(@, c)] ELSE loop
      /\ UNCHANGED <<width, menu, asked, answered, keys, parent, kids, done, slot, failed, currentId, call,
                     job, inbox, finishing, stale, hasty, lost>>
  BY DEF SendAccepted, still, links, view, ghosts
<1>2. Newest' = Newest /\ Sent' = Sent /\ Live' = Live
  BY <1>1 DEF Newest, Sent, Live
<1>3. \A d \in Call : post'[d] = IF d = c THEN "over" ELSE post[d]
  BY <1>0, <1>1 DEF CallsOK
<1>4. \A h \in Keeper : kept'[h] = IF h = c THEN Null ELSE kept[h]
  BY <1>0, <1>1 DEF KeptOK
<1>5. ViewOK'
  BY <1>0, <1>1, <1>2 DEF ViewOK
<1>6. CallsOK'
  <2>1. post' \in [Call -> {"none", "sent", "over", "failed"}]
    BY <1>0, <1>1 DEF CallsOK
  <2> QED BY <2>1, <1>0, <1>1, <1>2, <1>3 DEF CallsOK
<1>7. KeptOK'
  <2>1. kept' \in [Keeper -> Held \cup {Null}]
    BY <1>0, <1>1 DEF KeptOK
  <2>2. \A h \in Keeper : kept'[h] # Null => kept'[h] \in Held /\ kept'[h].id <= Newest
    BY <1>0, <1>4 DEF KeptOK
  <2>3. ASSUME NEW d \in Call, post'[d] = "sent" PROVE kept'[d] \in Held /\ kept'[d].id = call[d]
    <3>1. d # c /\ d \in Keeper /\ post[d] = "sent"
      BY <2>3, <1>3, Constants
    <3> QED BY <3>1, <1>0, <1>4 DEF KeptOK
  <2> QED BY <2>1, <2>2, <2>3, <1>1, <1>2 DEF KeptOK, Held
<1>8. /\ taskIds' # Null => taskIds' \in Seq(Call) /\ \A d \in Range(taskIds') : post'[d] = "over"
  <2>1. CASE taskIds = Null
    <3>1. taskIds' = <<c>> /\ <<c>> \in Seq(Call) /\ Range(<<c>>) = {c}
      BY <2>1, <1>1 DEF Range
    <3> QED BY <3>1, <1>3
  <2>2. CASE taskIds # Null
    <3>1. taskIds \in Seq(Call) /\ Range(taskIds) \subseteq Call /\ \A d \in Range(taskIds) : post[d] = "over"
      BY <2>2, <1>0, RangeOfSeq DEF QueuesOK, TasksKnown
    <3>2. taskIds' \in Seq(Call) /\ Range(taskIds') = Range(taskIds) \cup {c}
      BY <2>2, <3>1, <1>1, Appended
    <3> QED BY <3>1, <3>2, <1>3
  <2> QED BY <2>1, <2>2
<1>9. loop' # Null => /\ loop' \in [arr : Seq(Call), at : Nat \ {0}, shared : BOOLEAN]
                      /\ \A d \in Range(loop'.arr) : post'[d] = "over"
  <2>1. SUFFICES ASSUME loop # Null
                 PROVE  /\ loop' \in [arr : Seq(Call), at : Nat \ {0}, shared : BOOLEAN]
                        /\ \A d \in Range(loop'.arr) : post'[d] = "over"
    BY <1>1
  <2>2. /\ loop \in [arr : Seq(Call), at : Nat \ {0}, shared : BOOLEAN] /\ loop.arr \in Seq(Call)
        /\ \A d \in Range(loop.arr) : post[d] = "over"
    BY <2>1, <1>0 DEF QueuesOK, TasksKnown
  <2>3. Range(loop.arr) \subseteq Call
    BY <2>2, RangeOfSeq
  <2>4. CASE ~loop.shared
    BY <2>2, <2>3, <2>4, <1>1, <1>3
  <2>5. CASE loop.shared
    <3>1. loop' = [loop EXCEPT !.arr = Append(loop.arr, c)]
      BY <2>1, <2>5, <1>1
    <3>2. Append(loop.arr, c) \in Seq(Call) /\ Range(Append(loop.arr, c)) = Range(loop.arr) \cup {c}
      BY <2>2, Appended
    <3>3. loop' \in [arr : Seq(Call), at : Nat \ {0}, shared : BOOLEAN] /\ loop'.arr = Append(loop.arr, c)
      BY <2>2, <3>1, <3>2
    <3> QED BY <2>2, <2>3, <3>2, <3>3, <1>3
  <2> QED BY <2>2, <2>4, <2>5
<1>10. QueuesOK'
  BY <1>0, <1>1, <1>8, <1>9 DEF QueuesOK
<1>11. TasksKnown'
  <2>1. \A d \in Call : post'[d] = "over" => job'[d] # "none"
    BY <1>0, <1>1, <1>3 DEF TasksKnown
  <2> QED BY <2>1, <1>8, <1>9 DEF TasksKnown
<1>12. ObjectsLive'
  BY <1>0, <1>2, <1>4 DEF ObjectsLive
<1>13. \A a \in Answer : \A d \in Call : call[d] = a /\ Unfinished(d) => Unfinished(d)' \/ EndComes(a)'
  BY <1>1, <1>3 DEF Unfinished
<1>14. WorkInv'
  BY <1>0, <1>1, <1>11, <1>12, <1>13, RequestsWork
<1> QED BY <1>0, <1>1, <1>3, <1>5, <1>6, <1>7, <1>10, <1>14, FrameKeeps DEF RestOK

\* A request that fails puts back the answer it kept, which is shown.
LEMMA FailsKeeps ==
  ASSUME ChatInv, NEW c \in Call, SendFails(c)
  PROVE  ChatInv' /\ TreeStep
<1> DEFINE a == call[c]
<1>0. /\ TypeInv /\ TreeInv /\ LeafInv /\ WorkInv /\ KeysOK /\ LinksOK /\ ViewOK /\ CallsOK /\ KeptOK
         /\ QueuesOK
      /\ RestOK /\ c \in Keeper /\ ObjectsLive /\ TasksKnown
  BY Known, Constants DEF ChatInv, TypeInv
<1>1. /\ post[c] = "sent" /\ post' = [post EXCEPT ![c] = "failed"]
      /\ job' = [job EXCEPT ![c] = IF @ = "none" THEN "ended" ELSE @]
      /\ PutBack(c, FALSE) /\ done' = [done EXCEPT ![a] = TRUE]
      /\ failed' = IF kept[c].is = "copy" THEN failed \cup {a} ELSE failed
      /\ currentId' = a
      /\ UNCHANGED <<width, menu, asked, answered, slot, call, taskIds, loop, inbox, finishing, hasty, lost>>
  BY DEF SendFails, still, stopping
<1>2. kept[c] \in Held /\ kept[c].id = a /\ kept[c].id <= Newest
  <2>1. kept[c] \in Held /\ kept[c].id = a
    BY <1>0, <1>1 DEF KeptOK
  <2>2. a \in Answer /\ call[c] # Null
    BY <2>1, <1>0, <1>1 DEF Held, CallsOK
  <2> QED BY <2>1, <2>2, <1>0 DEF CallsOK
<1>3. Put(c)
  <2>1. FALSE \in BOOLEAN
    OBVIOUS
  <2> QED BY <2>1, <1>0, <1>1, <1>2, PutBackPuts
<1>4. /\ a \in Answer /\ a \in Id /\ a <= Newest
      /\ KeysOK' /\ LinksOK' /\ Live' = Live \cup {a} /\ ObjectsLive'
      /\ kept' \in [Keeper -> Held \cup {Null}]
      /\ \A g \in Keeper : kept'[g] # Null => kept'[g] \in Held /\ kept'[g].id <= Newest
      /\ \A g \in Keeper : g # c /\ kept[g] \in Held => kept'[g] \in Held /\ kept'[g].id = kept[g].id
      /\ stale' \subseteq {"call", "title", "rate", "merge"}
      /\ stale' # {} \/ (a \in Live /\ UNCHANGED <<stale, keys, parent, kids>>)
  BY <1>2, <1>3 DEF Put
<1> HIDE DEF a
<1>5. Newest' = Newest /\ Sent' = Sent
  BY <1>1 DEF Newest, Sent
<1>6. done' \in [Id -> BOOLEAN] /\ done'[a] /\ \A x \in Id : x # a => done'[x] = done[x]
  BY <1>0, <1>1, <1>4 DEF ViewOK
<1>7. ViewOK'
  <2>1. \A x \in Answer : done'[x] => x <= Newest'
    <3>1. \A x \in Answer : x \in Id
      BY Constants
    <3> QED BY <3>1, <1>0, <1>4, <1>5, <1>6 DEF ViewOK
  <2> QED BY <2>1, <1>0, <1>1, <1>4, <1>6 DEF ViewOK
<1>8. \A d \in Call : /\ post'[d] = IF d = c THEN "failed" ELSE post[d]
                      /\ d # c => job'[d] = job[d]
                      /\ job[d] # "none" => job'[d] = job[d]
                      /\ job'[c] # "none"
  BY <1>0, <1>1 DEF CallsOK
<1>9. CallsOK'
  <2>1. post' \in [Call -> {"none", "sent", "over", "failed"}]
    BY <1>0, <1>1 DEF CallsOK
  <2>2. job' \in [Call -> {"none", "running", "tidying", "ended"}]
    BY <1>0, <1>1 DEF CallsOK
  <2>3. call[c] # Null
    BY <1>0, <1>1 DEF CallsOK
  <2> QED BY <2>1, <2>2, <2>3, <1>0, <1>1, <1>5, <1>8 DEF CallsOK
<1>10. KeptOK'
  <2>1. ASSUME NEW d \in Call, post'[d] = "sent" PROVE kept'[d] \in Held /\ kept'[d].id = call'[d]
    <3>1. d # c /\ d \in Keeper /\ post[d] = "sent" /\ call'[d] = call[d]
      BY <2>1, <1>1, <1>8, Constants
    <3>2. kept[d] \in Held /\ kept[d].id = call[d]
      BY <3>1, <1>0 DEF KeptOK
    <3> QED BY <3>1, <3>2, <1>4
  <2> QED BY <2>1, <1>4, <1>5 DEF KeptOK, Held
<1>11. QueuesOK' /\ RestOK'
  <2>1. QueuesOK'
    BY <1>0, <1>1 DEF QueuesOK
  <2>2. RestOK'
    BY <1>0, <1>1, <1>4 DEF RestOK
  <2> QED BY <2>1, <2>2
<1>12. TypeInv'
  BY <1>4, <1>7, <1>9, <1>10, <1>11 DEF TypeInv
<1>13. TreeInv'
  <2>1. CASE stale' # {}
    BY <2>1 DEF TreeInv
  <2>2. CASE stale' = {}
    <3>1. stale = {} /\ a \in Live \cap Answer /\ UNCHANGED <<keys, parent, kids>> /\ Live' = Live
      BY <2>2, <1>4 DEF Live
    <3>2. IsTree(Live, parent, kids) /\ \A q \in Live \cap Question : kids[q] # <<>>
      BY <3>1, <1>0 DEF TreeInv
    <3> QED BY <3>1, <3>2, <1>1 DEF TreeInv
  <2> QED BY <2>1, <2>2
<1>14. LeafInv'
  <2>1. SUFFICES ASSUME stale' = {}, ~hasty'
                 PROVE  kids'[currentId'] = <<>>
                        /\ \A d \in Call : post'[d] = "sent" => kids'[call'[d]] = <<>>
    BY DEF LeafInv
  <2>2. stale = {} /\ ~hasty /\ kids' = kids
    BY <2>1, <1>1, <1>4
  <2>3. \A d \in Call : post[d] = "sent" => kids[call[d]] = <<>>
    BY <2>2, <1>0 DEF LeafInv
  <2> QED BY <2>2, <2>3, <1>1, <1>8 DEF a
<1>15. WorkInv'
  <2>1. ASSUME NEW x \in Live' \cap Answer
        PROVE  (done[x] \/ x \in lost \/ EndComes(x)
                \/ \E d \in Call : call[d] = x /\ Unfinished(d))'
    <3>1. SUFFICES ASSUME x # a
                   PROVE  (done[x] \/ x \in lost \/ EndComes(x)
                           \/ \E d \in Call : call[d] = x /\ Unfinished(d))'
      BY <1>6
    <3>2. done[x] \/ x \in lost \/ EndComes(x) \/ \E d \in Call : call[d] = x /\ Unfinished(d)
      BY <2>1, <3>1, <1>0, <1>4 DEF WorkInv
    <3>3. done'[x] = done[x] /\ lost' = lost /\ EndComes(x)' = EndComes(x)
      BY <2>1, <3>1, <1>1, <1>6, Constants DEF EndComes
    <3>4. ASSUME NEW d \in Call, call[d] = x, Unfinished(d) PROVE (call[d] = x /\ Unfinished(d))'
      <4>1. d # c
        BY <3>1, <3>4 DEF a
      <4> QED BY <4>1, <3>4, <1>1, <1>8 DEF Unfinished
    <3> QED BY <3>2, <3>3, <3>4
  <2>2. \A d \in Call : post[d] = "over" => post'[d] = "over"
    BY <1>1, <1>8
  <2>3. TasksKnown'
    <3>1. \A d \in Call : post'[d] = "over" => job'[d] # "none"
      BY <1>0, <1>8 DEF TasksKnown
    <3>2. taskIds # Null => Range(taskIds) \subseteq Call
      BY <1>0, RangeOfSeq DEF QueuesOK
    <3>3. loop # Null => Range(loop.arr) \subseteq Call
      BY <1>0, RangeOfSeq DEF QueuesOK
    <3> QED BY <3>1, <3>2, <3>3, <2>2, <1>0, <1>1 DEF TasksKnown
  <2> QED BY <2>1, <2>3, <1>4 DEF WorkInv, TasksKnown, ObjectsLive
<1>16. TreeStep
  <2>1. SUFFICES ASSUME stale' = {} PROVE stale' = stale /\ (Settles \/ Turns)
    BY DEF TreeStep
  <2>2. a \in Live \cap Answer /\ UNCHANGED <<stale, keys, parent, kids>>
    BY <2>1, <1>4
  <2>3. CASE done[a]
    <3>1. done' = done
      BY <2>3, <1>0, <1>1, <1>4 DEF ViewOK
    <3> QED BY <2>2, <3>1, <1>1 DEF Turns
  <2>4. CASE ~done[a]
    <3>1. \A x \in Live \cap Answer : done[x] => done'[x]
      BY <1>6, Constants
    <3> QED BY <2>2, <2>4, <3>1, <1>1, <1>6 DEF Settles
  <2> QED BY <2>3, <2>4
<1> QED BY <1>12, <1>13, <1>14, <1>15, <1>16 DEF ChatInv

-----------------------------------------------------------------------------
(* Stopping.                                                               *)

\* The steps of a stop up to its last answer: it asks the server to end tasks the page was told of.
LEMMA StopsKeep ==
  ASSUME ChatInv, StopResponse \/ StopTask
  PROVE  ChatInv' /\ TreeStep
<1>0. /\ TypeInv /\ WorkInv /\ ViewOK /\ CallsOK /\ KeptOK /\ QueuesOK /\ RestOK /\ TasksKnown /\ ObjectsLive
      /\ inbox \in Seq(InboxEvent)
  BY Known DEF ChatInv, TypeInv, QueuesOK, InboxEvent, EventType
<1>1. CASE StopResponse
  <2>1. /\ taskIds # Null /\ loop' = [arr |-> taskIds, at |-> 1, shared |-> TRUE]
        /\ UNCHANGED <<width, menu, keys, parent, kids, done, slot, failed, currentId, asked, answered, call,
                       post, job, kept, taskIds, inbox, finishing, stale, hasty, lost>>
    BY <1>1 DEF StopResponse, still, links, view, sending, ghosts
  <2>2. Newest' = Newest /\ Sent' = Sent /\ Live' = Live
    BY <2>1 DEF Newest, Sent, Live
  <2>3. taskIds \in Seq(Call) /\ \A c \in Range(taskIds) : post[c] = "over"
    BY <2>1, <1>0 DEF QueuesOK, TasksKnown
  <2>4. loop' \in [arr : Seq(Call), at : Nat \ {0}, shared : BOOLEAN] /\ loop'.arr = taskIds
    BY <2>1, <2>3
  <2>5. ViewOK' /\ CallsOK' /\ KeptOK'
    <3>1. ViewOK'
      BY <2>1, <2>2, <1>0 DEF ViewOK
    <3>2. CallsOK'
      BY <2>1, <2>2, <1>0 DEF CallsOK
    <3>3. KeptOK'
      BY <2>1, <2>2, <1>0 DEF KeptOK
    <3> QED BY <3>1, <3>2, <3>3
  <2>6. QueuesOK'
    BY <2>1, <2>4, <1>0 DEF QueuesOK
  <2>7. TasksKnown' /\ ObjectsLive'
    <3>1. TasksKnown'
      BY <2>1, <2>3, <2>4, <1>0 DEF TasksKnown
    <3>2. ObjectsLive'
      BY <2>1, <2>2, <1>0 DEF ObjectsLive
    <3> QED BY <3>1, <3>2
  <2>8. WorkInv'
    BY <2>1, <2>7, <1>0, RequestsWork DEF Unfinished
  <2> QED BY <2>1, <2>5, <2>6, <2>8, <1>0, FrameKeeps DEF RestOK
<1>2. CASE StopTask
  <2> DEFINE c == loop.arr[loop.at]
  <2>1. /\ loop # Null /\ loop.at <= Len(loop.arr)
        /\ job' = [job EXCEPT ![c] = "ended"]
        /\ inbox' = IF job[c] \in {"running", "tidying"} THEN Append(inbox, Event("cancel", call[c]))
           ELSE inbox
        /\ loop' = [loop EXCEPT !.at = @ + 1]
        /\ UNCHANGED <<width, menu, keys, parent, kids, done, slot, failed, currentId, asked, answered, call,
                       post, kept, taskIds, finishing, stale, hasty, lost>>
    BY <1>2 DEF StopTask, still, links, view, ghosts
  <2>2. /\ loop \in [arr : Seq(Call), at : Nat \ {0}, shared : BOOLEAN]
        /\ \A d \in Range(loop.arr) : post[d] = "over" /\ job[d] # "none" /\ d \in Call
    <3>1. loop \in [arr : Seq(Call), at : Nat \ {0}, shared : BOOLEAN]
      BY <2>1, <1>0 DEF QueuesOK
    <3>2. loop.arr \in Seq(Call)
      BY <3>1
    <3>3. Range(loop.arr) \subseteq Call
      BY <3>2, RangeOfSeq
    <3> QED BY <3>1, <3>3, <2>1, <1>0 DEF TasksKnown
  <2>3. c \in Range(loop.arr)
    <3>1. loop.at \in 1..Len(loop.arr) /\ DOMAIN loop.arr = 1..Len(loop.arr)
      BY <2>1, <2>2
    <3> QED BY <3>1 DEF Range
  <2>4. c \in Call /\ post[c] = "over" /\ job[c] # "none"
    BY <2>2, <2>3
  <2> HIDE DEF c
  <2>5. call[c] # Null /\ call[c] \in Answer
    BY <2>4, <1>0 DEF CallsOK
  <2>6. loop' \in [arr : Seq(Call), at : Nat \ {0}, shared : BOOLEAN] /\ loop'.arr = loop.arr
    BY <2>1, <2>2
  <2> DEFINE e == Event("cancel", call[c])
  <2>7. e \in InboxEvent /\ e.type = "cancel" /\ e.id = call[c]
    BY <2>5 DEF Event, InboxEvent, EventType
  <2> HIDE DEF e
  <2>8. inbox' = IF job[c] \in {"running", "tidying"} THEN Append(inbox, e) ELSE inbox
    BY <2>1 DEF e
  <2>9. /\ inbox' \in Seq(InboxEvent) /\ \A i \in DOMAIN inbox : i \in DOMAIN inbox' /\ inbox'[i] = inbox[i]
        /\ job[c] = "running" => \E i \in DOMAIN inbox' : inbox'[i] = e
    <3>1. CASE job[c] \in {"running", "tidying"}
      BY <3>1, <2>7, <2>8, <1>0, Arriving
    <3>2. CASE job[c] \notin {"running", "tidying"}
      BY <3>2, <2>8, <1>0
    <3> QED BY <3>1, <3>2
  <2>10. \A a \in Answer : call[c] = a /\ Unfinished(c) => EndComes(a)'
    BY <2>4, <2>7, <2>9 DEF Unfinished, EndComes
  <2> QED BY <2>1, <2>4, <2>5, <2>6, <2>9, <2>10, TaskKeeps
<1> QED BY <1>1, <1>2

\* The stop is over: the answers to the question shown count as complete.
LEMMA GroupIsDone ==
  ASSUME ViewOK, KeysOK
  PROVE  /\ GroupDone \in [Id -> BOOLEAN] /\ \A x \in Id : done[x] => GroupDone[x]
         /\ \A x \in Answer : GroupDone[x] => x <= Newest
<1>1. \A x \in Id : GroupDone[x] = (done[x] \/ x \in Group \cap Live)
  BY DEF GroupDone
<1>2. GroupDone \in [Id -> BOOLEAN]
  BY DEF GroupDone, ViewOK
<1>3. ASSUME NEW x \in Answer, GroupDone[x] PROVE x <= Newest
  <2>1. x \in Id /\ x \notin Question /\ (done[x] \/ x \in Live)
    BY <1>1, <1>3, Constants
  <2> QED BY <2>1 DEF ViewOK, KeysOK
<1> QED BY <1>1, <1>2, <1>3

\* The last task has been asked to stop.
LEMMA StopReturnsKeeps ==
  ASSUME ChatInv, StopReturns
  PROVE  ChatInv' /\ TreeStep
<1>0. /\ TypeInv /\ WorkInv /\ KeysOK /\ ViewOK /\ CallsOK /\ KeptOK /\ QueuesOK /\ RestOK /\ TasksKnown
         /\ ObjectsLive
      /\ Merge \in Keeper /\ Merge \notin Call /\ Call \subseteq Keeper /\ Title \in Keeper
  BY Known, Constants DEF ChatInv, TypeInv
<1>1. /\ loop' = Null /\ taskIds' = Null /\ done' = GroupDone /\ kept' = [kept EXCEPT ![Merge] = Null]
      /\ UNCHANGED <<width, menu, keys, parent, kids, slot, failed, currentId, asked, answered, call, post,
                     job, inbox, finishing, stale, hasty, lost>>
  BY DEF StopReturns, still, links, ghosts
<1>2. Newest' = Newest /\ Sent' = Sent /\ Live' = Live
  BY <1>1 DEF Newest, Sent, Live
<1>3. ViewOK' /\ \A x \in Id : done[x] => done'[x]
  BY <1>0, <1>1, <1>2, GroupIsDone DEF ViewOK
<1>4. \A h \in Keeper : kept'[h] = IF h = Merge THEN Null ELSE kept[h]
  BY <1>0, <1>1 DEF KeptOK
<1>5. CallsOK' /\ QueuesOK'
  <2>1. CallsOK'
    BY <1>0, <1>1, <1>2 DEF CallsOK
  <2>2. QueuesOK'
    BY <1>0, <1>1 DEF QueuesOK
  <2> QED BY <2>1, <2>2
<1>6. KeptOK'
  <2>1. kept' \in [Keeper -> Held \cup {Null}]
    BY <1>0, <1>1 DEF KeptOK
  <2>2. \A h \in Keeper : kept'[h] # Null => kept'[h] \in Held /\ kept'[h].id <= Newest
    BY <1>0, <1>4 DEF KeptOK
  <2>3. \A c \in Call : post[c] = "sent" => kept'[c] \in Held /\ kept'[c].id = call[c]
    BY <1>0, <1>4 DEF KeptOK
  <2> QED BY <2>1, <2>2, <2>3, <1>1, <1>2 DEF KeptOK, Held
<1>7. TasksKnown' /\ ObjectsLive'
  <2>1. TasksKnown'
    BY <1>0, <1>1 DEF TasksKnown
  <2>2. ObjectsLive'
    BY <1>0, <1>2, <1>4 DEF ObjectsLive
  <2> QED BY <2>1, <2>2
<1>8. \A x \in Live : done[x] => done'[x]
  BY <1>0, <1>3, RangeOfSeq DEF KeysOK, Live
<1>9. WorkInv'
  BY <1>0, <1>1, <1>7, <1>8, RequestsWork DEF Unfinished
<1> QED BY <1>0, <1>1, <1>3, <1>5, <1>6, <1>8, <1>9, FrameKeeps DEF RestOK

-----------------------------------------------------------------------------
(* Events, and the rest of what waits.                                     *)

\* A stop that is under way goes through the array it began with.
LoopKept ==
  loop' # Null =>
    /\ loop # Null /\ loop'.arr = loop.arr
    /\ loop' \in [arr : Seq(Call), at : Nat \ {0}, shared : BOOLEAN]

\* The first event is taken, and what it says becomes of its answer.
LEMMA EventKeeps ==
  ASSUME ChatInv, inbox # <<>>, inbox' = Tail(inbox),
         UNCHANGED <<width, menu, keys, parent, kids, slot, currentId, asked, answered, call, post, job,
                     stale, hasty>>,
         failed' \subseteq Answer, done' \in [Id -> BOOLEAN], \A x \in Id : done[x] => done'[x],
         \A x \in Answer : done'[x] => x <= Newest, KeptOK', ObjectsLive', taskIds' \in {Null, taskIds},
         LoopKept,
         \A f \in finishing' : f = [id |-> f.id, chain |-> f.chain, saving |-> f.saving] /\ f.id \in Answer,
         lost \subseteq lost', lost' \subseteq Answer,
         Arrived \in Live /\ Head(inbox).type \in {"done", "cancel"} => done'[Arrived] \/ Arrived \in lost'
  PROVE  ChatInv' /\ TreeStep
<1>0. /\ TypeInv /\ WorkInv /\ KeysOK /\ ViewOK /\ CallsOK /\ QueuesOK /\ TasksKnown
      /\ inbox \in Seq(InboxEvent)
  BY Known DEF ChatInv, TypeInv, QueuesOK, InboxEvent, EventType
<1>1. Newest' = Newest /\ Sent' = Sent /\ Live' = Live
  BY DEF Newest, Sent, Live
<1>2. ViewOK'
  BY <1>0, <1>1 DEF ViewOK
<1>3. CallsOK'
  BY <1>0, <1>1 DEF CallsOK
<1>4. QueuesOK'
  <2>1. inbox' \in Seq(InboxEvent)
    BY <1>0, Taking
  <2> QED BY <2>1, <1>0 DEF QueuesOK, InboxEvent, EventType, LoopKept
<1>5. TasksKnown'
  BY <1>0 DEF TasksKnown, LoopKept
<1>6. \A x \in Live : done[x] => done'[x]
  BY <1>0, RangeOfSeq DEF KeysOK, Live
<1>7. WorkInv'
  BY <1>0, <1>5, <1>6, EventsWork DEF Arrived
<1> QED BY <1>2, <1>3, <1>4, <1>6, <1>7, FrameKeeps

\* Forgetting the tasks leaves such a stop its array.
LEMMA Forgets ==
  ASSUME QueuesOK, ForgetTasks
  PROVE  taskIds' = Null /\ LoopKept
<1>1. CASE loop = Null
  BY <1>1 DEF ForgetTasks, LoopKept
<1>2. CASE loop # Null
  BY <1>2 DEF ForgetTasks, LoopKept, QueuesOK
<1> QED BY <1>1, <1>2

\* What chatEventHandler does of each event, and events that are lost.
LEMMA EventsKeep ==
  ASSUME ChatInv, Events
  PROVE  ChatInv' /\ TreeStep
<1>0. /\ TypeInv /\ WorkInv /\ KeysOK /\ ViewOK /\ CallsOK /\ KeptOK /\ QueuesOK /\ RestOK /\ TasksKnown
         /\ ObjectsLive
      /\ inbox \in Seq(InboxEvent) /\ Title \in Keeper /\ Title \notin Call
      /\ lost \subseteq Answer /\ done \in [Id -> BOOLEAN] /\ failed \subseteq Answer
      /\ \A x \in Answer : done[x] => x <= Newest
      /\ \A f \in finishing : f = [id |-> f.id, chain |-> f.chain, saving |-> f.saving] /\ f.id \in Answer
  BY Known, Constants DEF ChatInv, TypeInv, QueuesOK, InboxEvent, EventType, ViewOK, RestOK
<1>1. /\ inbox # <<>> /\ inbox' = Tail(inbox)
      /\ UNCHANGED <<width, menu, keys, parent, kids, slot, currentId, asked, answered, call, post, job,
                     stale, hasty>>
  <2>1. CASE Ignored \/ LoseEvent
    BY <2>1 DEF Ignored, LoseEvent, still, links, view, sending, ghosts
  <2>2. CASE DoneArrives \/ ErrorArrives
    BY <2>2 DEF DoneArrives, ErrorArrives, Arrives, still, links, ghosts
  <2>3. CASE CancelArrives \/ TitleArrives
    BY <2>3 DEF CancelArrives, TitleArrives, Arrives, still, links, view, ghosts
  <2> QED BY <2>1, <2>2, <2>3 DEF Events
<1> DEFINE a == Arrived
<1>2. a \in Answer /\ a \in Id
  <2>1. Head(inbox) \in InboxEvent
    BY <1>0, <1>1, HeadTailProperties
  <2> QED BY <2>1, Constants DEF Arrived, InboxEvent
<1>3. a \in Live => a <= Newest
  BY <1>0, <1>2, Constants DEF KeysOK
<1> HIDE DEF a
<1>4. Newest' = Newest /\ Live' = Live /\ Sent' = Sent
  BY <1>1 DEF Newest, Live, Sent
<1>5. kept' = kept => KeptOK' /\ ObjectsLive'
  <2>1. SUFFICES ASSUME kept' = kept PROVE KeptOK' /\ ObjectsLive'
    OBVIOUS
  <2>2. KeptOK'
    BY <2>1, <1>0, <1>1, <1>4 DEF KeptOK
  <2>3. ObjectsLive'
    BY <2>1, <1>0, <1>4 DEF ObjectsLive
  <2> QED BY <2>2, <2>3
<1>6. UNCHANGED <<taskIds, loop>> => taskIds' \in {Null, taskIds} /\ LoopKept
  BY <1>0 DEF QueuesOK, LoopKept
<1>7. CASE Ignored
  <2>1. UNCHANGED <<done, failed, kept, taskIds, loop, finishing, lost>> /\ a \notin Live
    BY <1>7 DEF Ignored, view, sending, stopping, ghosts, a
  <2> QED BY <2>1, <1>0, <1>1, <1>5, <1>6, EventKeeps DEF a
<1>8. CASE DoneArrives
  <2>1. /\ a \in Live /\ done' = [done EXCEPT ![a] = TRUE] /\ UNCHANGED <<failed, kept, taskIds, loop, lost>>
        /\ finishing' = finishing \cup {[id |-> a, chain |-> Chain(a), saving |-> FALSE]}
    BY <1>8 DEF DoneArrives, stopping, ghosts, a
  <2>2. done' \in [Id -> BOOLEAN] /\ done'[a] /\ \A x \in Id : x # a => done'[x] = done[x]
    BY <2>1, <1>0, <1>2
  <2>3. \A x \in Answer : done'[x] => x <= Newest
    BY <2>1, <2>2, <1>0, <1>3, Constants
  <2>4. \A f \in finishing' : f = [id |-> f.id, chain |-> f.chain, saving |-> f.saving] /\ f.id \in Answer
    <3> DEFINE new == [id |-> a, chain |-> Chain(a), saving |-> FALSE]
    <3>1. new = [id |-> new.id, chain |-> new.chain, saving |-> new.saving] /\ new.id \in Answer
      BY <1>2
    <3> QED BY <3>1, <2>1, <1>0
  <2>5. \A x \in Id : done[x] => done'[x]
    BY <2>2
  <2> QED BY <2>1, <2>2, <2>3, <2>4, <2>5, <1>0, <1>1, <1>5, <1>6, EventKeeps DEF a
<1>9. CASE ErrorArrives
  <2>1. /\ Head(inbox).type = "error" /\ failed' \in {failed, failed \cup {a}}
        /\ UNCHANGED <<done, kept, taskIds, loop, finishing, lost>>
    BY <1>9 DEF ErrorArrives, Arrives, stopping, ghosts, a
  <2> QED BY <2>1, <1>0, <1>1, <1>2, <1>5, <1>6, EventKeeps
<1>10. CASE CancelArrives
  <2>1. /\ ForgetTasks /\ done' = GroupDone /\ UNCHANGED <<failed, kept, finishing>>
        /\ lost' = IF done'[a] THEN lost ELSE lost \cup {a}
    BY <1>10 DEF CancelArrives, a
  <2>2. /\ done' \in [Id -> BOOLEAN] /\ \A x \in Id : done[x] => done'[x]
        /\ \A x \in Answer : done'[x] => x <= Newest
    BY <2>1, <1>0, GroupIsDone
  <2>3. taskIds' \in {Null, taskIds} /\ LoopKept
    BY <2>1, <1>0, Forgets
  <2>4. lost \subseteq lost' /\ lost' \subseteq Answer /\ (done'[a] \/ a \in lost')
    BY <2>1, <1>0, <1>2
  <2> QED BY <2>1, <2>2, <2>3, <2>4, <1>0, <1>1, <1>5, EventKeeps DEF a
<1>11. CASE TitleArrives
  <2>1. /\ Head(inbox).type = "title" /\ a \in Live /\ kept' = [kept EXCEPT ![Title] = Object(a)]
        /\ UNCHANGED <<done, failed, taskIds, loop, finishing, lost>>
    BY <1>11 DEF TitleArrives, Arrives, view, stopping, ghosts, a
  <2>2. Object(a) \in Held /\ Object(a).id = a /\ Object(a).is = "object"
    BY <1>2, EmptySeq DEF Object, Held
  <2> DEFINE w == Object(a)
  <2> HIDE DEF w
  <2>3. /\ kept' \in [Keeper -> Held \cup {Null}]
        /\ \A h \in Keeper : kept'[h] = IF h = Title THEN w ELSE kept[h]
    BY <2>1, <2>2, <1>0 DEF KeptOK, w
  <2>4. w \in Held /\ w.id = a /\ w.is = "object"
    BY <2>2 DEF w
  <2>5. KeptOK'
    <3>1. \A h \in Keeper : kept'[h] # Null => kept'[h] \in Held /\ kept'[h].id <= Newest
      BY <2>1, <2>3, <2>4, <1>0, <1>3 DEF KeptOK
    <3>2. \A c \in Call : post[c] = "sent" => kept'[c] \in Held /\ kept'[c].id = call[c]
      BY <2>3, <1>0, Constants DEF KeptOK
    <3> QED BY <2>3, <3>1, <3>2, <1>1, <1>4 DEF KeptOK, Held
  <2>6. ObjectsLive'
    BY <2>1, <2>3, <2>4, <1>0, <1>4, Constants DEF ObjectsLive
  <2> QED BY <2>1, <2>5, <2>6, <1>0, <1>1, <1>6, EventKeeps
<1>12. CASE LoseEvent
  <2>1. /\ UNCHANGED <<done, failed, kept, taskIds, loop, finishing>>
        /\ lost' = IF Head(inbox).type \in {"done", "cancel"} THEN lost \cup {a} ELSE lost
    BY <1>12 DEF LoseEvent, view, sending, stopping, a
  <2>2. lost \subseteq lost' /\ lost' \subseteq Answer
    BY <2>1, <1>0, <1>2
  <2>3. Head(inbox).type \in {"done", "cancel"} => a \in lost'
    BY <2>1
  <2> QED BY <2>1, <2>2, <2>3, <1>0, <1>1, <1>5, <1>6, EventKeeps DEF a
<1> QED BY <1>7, <1>8, <1>9, <1>10, <1>11, <1>12 DEF Events

\* Steps that change nothing but copies, tasks to stop and what is still to be saved.
LEMMA SavingKeeps ==
  ASSUME ChatInv,
         UNCHANGED <<width, menu, keys, parent, kids, done, slot, failed, currentId, asked, answered, call,
                     post, job, inbox, stale, hasty, lost>>,
         KeptOK', ObjectsLive', taskIds' \in {Null, taskIds}, LoopKept,
         \A f \in finishing' : f = [id |-> f.id, chain |-> f.chain, saving |-> f.saving] /\ f.id \in Answer
  PROVE  ChatInv' /\ TreeStep
<1>0. TypeInv /\ WorkInv /\ ViewOK /\ CallsOK /\ QueuesOK /\ RestOK /\ TasksKnown
  BY Known DEF ChatInv, TypeInv
<1>1. Newest' = Newest /\ Sent' = Sent /\ Live' = Live
  BY DEF Newest, Sent, Live
<1>2. ViewOK'
  BY <1>0, <1>1 DEF ViewOK
<1>3. CallsOK'
  BY <1>0, <1>1 DEF CallsOK
<1>4. QueuesOK'
  BY <1>0 DEF QueuesOK, LoopKept
<1>5. TasksKnown'
  BY <1>0 DEF TasksKnown, LoopKept
<1>6. WorkInv'
  BY <1>0, <1>5, RequestsWork DEF Unfinished
<1> QED BY <1>0, <1>2, <1>3, <1>4, <1>6, FrameKeeps DEF RestOK

\* What chat/completed returns, and the handlers that keep a message while they wait.
LEMMA WaitsKeep ==
  ASSUME ChatInv, Waits
  PROVE  ChatInv' /\ TreeStep
<1>0. /\ TypeInv /\ WorkInv /\ KeysOK /\ LinksOK /\ KeptOK /\ QueuesOK /\ TasksKnown /\ ObjectsLive
      /\ Merge \in Keeper /\ Rating \in Keeper /\ Merge \notin Call /\ Rating \notin Call
      /\ Rating # Title /\ Rating # Merge /\ Merge # Title
      /\ Newest \in Nat
      /\ \A f \in finishing : f = [id |-> f.id, chain |-> f.chain, saving |-> f.saving] /\ f.id \in Answer
  <2>1. TypeInv /\ WorkInv /\ KeysOK /\ LinksOK /\ KeptOK /\ QueuesOK /\ TasksKnown /\ ObjectsLive
    BY Known DEF ChatInv, TypeInv
  <2>2. Newest \in Nat
    BY <2>1, Numbered DEF KeysOK, Newest
  <2>3. \A f \in finishing : f = [id |-> f.id, chain |-> f.chain, saving |-> f.saving] /\ f.id \in Answer
    BY <2>1 DEF QueuesOK
  <2> QED BY <2>1, <2>2, <2>3, Constants
<1>1. UNCHANGED <<taskIds, loop>> => taskIds' \in {Null, taskIds} /\ LoopKept
  BY <1>0 DEF QueuesOK, LoopKept
<1>2. ASSUME NEW f \in finishing, ChatCompleted(f) PROVE ChatInv' /\ TreeStep
  <2>1. PICK S : kept' = Outdated(S)
    BY <1>2 DEF ChatCompleted
  <2>2. /\ UNCHANGED <<width, menu, keys, parent, kids, done, slot, failed, currentId, asked, answered, call,
                       post, job, taskIds, loop, inbox, stale, hasty, lost>>
        /\ finishing' \subseteq finishing \cup {[f EXCEPT !.saving = TRUE]}
    BY <1>2 DEF ChatCompleted, still, links, view, stopping, ghosts
  <2>3. Newest' = Newest /\ Live' = Live
    BY <2>2 DEF Newest, Live
  <2>4. Ages(kept')
    BY <2>1, <1>0, OutdatedAges
  <2>5. KeptOK'
    <3>1. Newest <= Newest' /\ Newest' \in Nat
      BY <2>3, <1>0
    <3> QED BY <3>1, <2>2, <2>4, <1>0, KeptStays
  <2>6. ObjectsLive'
    BY <2>3, <2>4, <1>0, AgedObjects
  <2>7. \A g \in finishing' : g = [id |-> g.id, chain |-> g.chain, saving |-> g.saving] /\ g.id \in Answer
    <3> DEFINE new == [f EXCEPT !.saving = TRUE]
    <3>1. f = [id |-> f.id, chain |-> f.chain, saving |-> f.saving] /\ f.id \in Answer
      BY <1>0
    <3>2. new = [id |-> f.id, chain |-> f.chain, saving |-> TRUE]
      <4> DEFINE R == [id : {f.id}, chain : {f.chain}, saving : {f.saving, TRUE}]
      <4>1. f \in R
        BY <3>1
      <4>2. new \in R /\ new.id = f.id /\ new.chain = f.chain /\ new.saving = TRUE
        BY <4>1
      <4> HIDE DEF new
      <4>3. new = [id |-> new.id, chain |-> new.chain, saving |-> new.saving]
        BY <4>2
      <4> QED BY <4>2, <4>3
    <3> HIDE DEF new
    <3>3. new = [id |-> new.id, chain |-> new.chain, saving |-> new.saving] /\ new.id \in Answer
      BY <3>1, <3>2
    <3> QED BY <3>3, <2>2, <1>0 DEF new
  <2> QED BY <2>2, <2>5, <2>6, <2>7, <1>1, SavingKeeps
<1>3. ASSUME NEW f \in finishing, ChatSaved(f) PROVE ChatInv' /\ TreeStep
  <2>1. /\ UNCHANGED <<width, menu, keys, parent, kids, done, slot, failed, currentId, asked, answered, call,
                       post, job, kept, inbox, stale, hasty, lost>>
        /\ finishing' \subseteq finishing /\ ForgetTasks
    BY <1>3 DEF ChatSaved, still, links, view, sending, ghosts
  <2>2. Newest' = Newest /\ Live' = Live
    BY <2>1 DEF Newest, Live
  <2>3. KeptOK'
    BY <2>1, <2>2, <1>0 DEF KeptOK
  <2>4. ObjectsLive'
    BY <2>1, <2>2, <1>0 DEF ObjectsLive
  <2>5. taskIds' \in {Null, taskIds} /\ LoopKept
    BY <2>1, <1>0, Forgets
  <2> QED BY <2>1, <2>3, <2>4, <2>5, <1>0, SavingKeeps
<1>4. ASSUME NEW x \in Live, Rate(x) \/ MergeResponses(x) PROVE ChatInv' /\ TreeStep
  <2>1. /\ UNCHANGED <<width, menu, keys, parent, kids, done, slot, failed, currentId, asked, answered, call,
                       post, job, taskIds, loop, inbox, finishing, stale, hasty, lost>>
        /\ x \in Answer
    BY <1>4 DEF Rate, MergeResponses, waiting, still, links, stopping
  <2>2. Newest' = Newest /\ Live' = Live
    BY <2>1 DEF Newest, Live
  <2>3. x <= Newest /\ x \in Id
    BY <2>1, <1>0, Constants DEF KeysOK
  <2>4. PICK h \in {Rating, Merge}, w \in Held :
            kept' = [kept EXCEPT ![h] = w] /\ w.id = x /\ (h = Merge => w.is = "object")
    <3>1. CASE Rate(x)
      <4>1. Copy(x, "copy") \in Held /\ Copy(x, "copy").id = x
        BY <2>1, <2>3, <1>0 DEF Copy, Held, LinksOK
      <4> QED BY <4>1, <3>1, <1>0 DEF Rate
    <3>2. CASE MergeResponses(x)
      <4>1. Object(x) \in Held /\ Object(x).id = x /\ Object(x).is = "object"
        BY <2>1, EmptySeq DEF Object, Held
      <4> QED BY <4>1, <3>2 DEF MergeResponses
    <3> QED BY <3>1, <3>2, <1>4
  <2>5. /\ kept' \in [Keeper -> Held \cup {Null}]
        /\ \A g \in Keeper : kept'[g] = IF g = h THEN w ELSE kept[g]
    BY <2>4, <1>0 DEF KeptOK
  <2>6. KeptOK'
    <3>1. ASSUME NEW g \in Keeper, kept'[g] # Null PROVE kept'[g] \in Held /\ kept'[g].id <= Newest
      <4>1. CASE g = h
        BY <4>1, <2>3, <2>4, <2>5
      <4>2. CASE g # h
        BY <4>2, <3>1, <2>5, <1>0 DEF KeptOK
      <4> QED BY <4>1, <4>2
    <3>2. \A c \in Call : post[c] = "sent" => kept'[c] \in Held /\ kept'[c].id = call[c]
      BY <2>4, <2>5, <1>0, Constants DEF KeptOK
    <3> QED BY <2>5, <3>1, <3>2, <2>1, <2>2 DEF KeptOK, Held
  <2>7. ObjectsLive'
    BY <2>2, <2>4, <2>5, <1>0, Constants DEF ObjectsLive
  <2> QED BY <2>1, <2>6, <2>7, <1>0, <1>1, SavingKeeps
<1> QED BY <1>2, <1>3, <1>4, PutsKeep DEF Waits

-----------------------------------------------------------------------------
(* Every step, and the properties.                                         *)

\* At first there is no message and no request.
LEMMA InitHolds ==
  ASSUME Init
  PROVE  ChatInv
<1>1. /\ \E m \in Menus : width = m[1] /\ menu = m[2]
      /\ keys = <<>> /\ parent = [x \in Id |-> Null] /\ kids = [x \in Id |-> <<>>]
      /\ done = [x \in Id |-> FALSE] /\ slot = [x \in Answer |-> 0] /\ failed = {} /\ currentId = Null
      /\ asked = 0 /\ answered = 0
      /\ call = [c \in Call |-> Null] /\ post = [c \in Call |-> "none"] /\ job = [c \in Call |-> "none"]
      /\ kept = [h \in Keeper |-> Null] /\ taskIds = Null /\ loop = Null /\ inbox = <<>> /\ finishing = {}
      /\ stale = {} /\ hasty = FALSE /\ lost = {}
  BY DEF Init
<1>2. Live = {} /\ keys \in Seq(Id) /\ IsInjective(keys)
  <2>1. DOMAIN keys = {}
    BY <1>1
  <2> QED BY <2>1, <1>1, EmptySeq DEF Live, Range, IsInjective
<1>4. KeysOK
  BY <1>1, <1>2, Constants DEF KeysOK
<1>5. LinksOK
  <2>1. <<>> \in Seq(Id)
    BY EmptySeq
  <2> QED BY <2>1, <1>1 DEF LinksOK
<1>6. ViewOK
  BY <1>1, Constants DEF ViewOK
<1>7. CallsOK
  <2>1. Sent = 0
    <3>1. {c \in Call : call[c] # Null} = {}
      BY <1>1
    <3> QED BY <3>1, FS_EmptySet DEF Sent
  <2>2. 0 \in 0..MaxCalls
    BY Constants
  <2>3. \A c \in Call : ~(c <= 0)
    BY Constants DEF Call
  <2>4. \A c \in Call : call[c] = Null /\ post[c] = "none" /\ job[c] = "none"
    BY <1>1
  <2>5. /\ call \in [Call -> Answer \cup {Null}] /\ post \in [Call -> {"none", "sent", "over", "failed"}]
        /\ job \in [Call -> {"none", "running", "tidying", "ended"}]
    BY <1>1
  <2> QED BY <2>1, <2>2, <2>3, <2>4, <2>5 DEF CallsOK
<1>8. KeptOK
  BY <1>1 DEF KeptOK
<1>9. QueuesOK
  BY <1>1, EmptySeq DEF QueuesOK
<1>10. RestOK
  BY <1>1 DEF RestOK
<1>11. TypeInv
  BY <1>4, <1>5, <1>6, <1>7, <1>8, <1>9, <1>10 DEF TypeInv
<1>12. TreeInv
  <2>1. IsTree(Live, parent, kids)
    BY <1>1, <1>2 DEF IsTree, Linked, Alternating, Bare, Grounded
  <2> QED BY <2>1, <1>1, <1>2 DEF TreeInv
<1>13. LeafInv
  BY <1>1 DEF LeafInv
<1>14. WorkInv
  BY <1>1, <1>2, Constants DEF WorkInv
<1> QED BY <1>11, <1>12, <1>13, <1>14 DEF ChatInv

\* The two handlers that enter a question with its answer.
LEMMA PairsKeep ==
  ASSUME ChatInv, CreateMessagePair \/ \E x \in Live : AddMessages(x)
  PROVE  ChatInv' /\ TreeStep
<1>1. /\ currentId \in Id \cup {Null} /\ Live \subseteq Id
      /\ stale = {} => currentId \in (Live \cap Answer) \cup {Null}
  BY Places
<1>2. CASE CreateMessagePair
  BY <1>1, <1>2, PairKeeps DEF CreateMessagePair
<1>3. ASSUME NEW x \in Live, AddMessages(x) PROVE ChatInv' /\ TreeStep
  <2>1. x \in Live \cap Answer /\ Pair(x) /\ x \in Id
    BY <1>1, <1>3 DEF AddMessages
  <2> QED BY <2>1, PairKeeps
<1> QED BY <1>2, <1>3

\* Whatever happens, the chat stays in order, and its tree changes the way MessageTree allows.
LEMMA NextKeeps ==
  ASSUME ChatInv, [Next]_vars
  PROVE  ChatInv' /\ (TreeStep \/ UNCHANGED vars)
<1>1. CASE UNCHANGED vars
  <2>1. UNCHANGED <<width, menu, keys, parent, kids, done, slot, failed, currentId, asked, answered, call,
                    post, job, kept, taskIds, loop, inbox, finishing, stale, hasty, lost>>
    BY <1>1 DEF vars, links, view, sending, stopping, ghosts
  <2>2. KeysOK' /\ LinksOK' /\ ViewOK' /\ CallsOK'
    BY <2>1 DEF ChatInv, TypeInv, KeysOK, LinksOK, ViewOK, CallsOK, Live, Newest, Sent
  <2>3. KeptOK' /\ QueuesOK' /\ RestOK'
    BY <2>1 DEF ChatInv, TypeInv, KeptOK, QueuesOK, RestOK, Newest
  <2>4. TreeInv' /\ LeafInv'
    BY <2>1, SameTree, SameLeaf DEF ChatInv
  <2>5. WorkInv'
    BY <2>1 DEF ChatInv, WorkInv, Live, EndComes, Unfinished
  <2> QED BY <1>1, <2>2, <2>3, <2>4, <2>5 DEF ChatInv, TypeInv
<1>2. CASE Sends
  BY <1>2, SubmitKeeps, ContinueKeeps, RegenerateKeeps DEF Sends
<1>3. CASE Changes
  BY <1>3, PairsKeep, CopyKeeps, EditKeeps, DeleteKeeps DEF Changes
<1>4. CASE Shows
  BY <1>4, ShowsKeep
<1>5. CASE Requests
  BY <1>5, RequestsKeep, AcceptedKeeps, FailsKeeps DEF Requests
<1>6. CASE StopResponse \/ StopTask \/ StopReturns
  BY <1>6, StopsKeep, StopReturnsKeeps
<1>7. CASE Events \/ Waits
  BY <1>7, EventsKeep, WaitsKeep
<1> QED BY <1>1, <1>2, <1>3, <1>4, <1>5, <1>6, <1>7 DEF Next

\* The inductive invariant holds in every state of every chat.
LEMMA ChatSafe == Spec => []ChatInv
<1>1. Init => ChatInv
  BY InitHolds
<1>2. ChatInv /\ [Next]_vars => ChatInv'
  BY NextKeeps
<1> QED BY <1>1, <1>2, PTL DEF Spec

\* TypeOK: messages, requests, copies and events have their types.
THEOREM ChatTypeOK == Spec => []TypeOK
<1>1. ChatInv => TypeOK
  <2>1. SUFFICES ASSUME ChatInv PROVE TypeOK
    OBVIOUS
  <2>2. KeysOK /\ LinksOK /\ ViewOK /\ CallsOK /\ KeptOK /\ QueuesOK /\ RestOK
    BY <2>1 DEF ChatInv, TypeInv
  <2>3. \A h \in Keeper : kept[h] # Null => kept[h].id \in Answer /\ kept[h].is \in {"object", "old", "copy"}
    BY <2>2 DEF KeptOK, Held
  <2> QED BY <2>2, <2>3 DEF TypeOK, KeysOK, LinksOK, ViewOK, CallsOK, QueuesOK, RestOK
<1> QED BY <1>1, ChatSafe, PTL

\* LinksAgree: parentId and childrenIds are two records of one tree, whatever is sent, deleted, copied or
\* fails, until an outdated copy of a message is written back.
THEOREM ChatLinksAgree == Spec => []LinksAgree
<1>1. ChatInv => LinksAgree
  BY DEF ChatInv, TreeInv, IsTree, Linked, LinksAgree
<1> QED BY <1>1, ChatSafe, PTL

\* ShownIsLeaf: the message shown ends its branch, so that the next prompt has no brothers it does not
\* know of, until something is sent below an answer still being written.
THEOREM ChatShownIsLeaf == Spec => []ShownIsLeaf
<1>1. ChatInv => ShownIsLeaf
  <2>1. SUFFICES ASSUME ChatInv, stale = {}, ~hasty
                 PROVE  IF Live = {} THEN currentId = Null ELSE currentId \in Live /\ kids[currentId] = <<>>
    BY DEF ShownIsLeaf
  <2>2. IF Live = {} THEN currentId = Null ELSE currentId \in Live \cap Answer
    BY <2>1 DEF ChatInv, TreeInv
  <2>3. currentId # Null => kids[currentId] = <<>>
    BY <2>1 DEF ChatInv, LeafInv
  <2> QED BY <2>2, <2>3, Constants
<1> QED BY <1>1, ChatSafe, PTL

\* QuestionsAnswered: every question has an answer, so that a prompt never goes below a question.
THEOREM ChatQuestionsAnswered == Spec => []QuestionsAnswered
<1>1. ChatInv => QuestionsAnswered
  BY DEF ChatInv, TreeInv, QuestionsAnswered
<1> QED BY <1>1, ChatSafe, PTL

\* UndoneWorked: an answer that shows as being written is, or its end is announced or was lost.
THEOREM ChatUndoneWorked == Spec => []UndoneWorked
<1>1. ChatInv => UndoneWorked
  BY DEF ChatInv, WorkInv, Unfinished, EndComes, UndoneWorked, Pending, Working
<1> QED BY <1>1, ChatSafe, PTL

\* The tree a reader sees, as MessageTree has it.
TreeParent == IF stale = {} THEN [x \in Live |-> parent[x]] ELSE [x \in {} |-> Null]

\* The answers that show as being written.
TreeOpen == IF stale = {} THEN {a \in Live \cap Answer : ~done[a]} ELSE {}

\* The message shown.
TreeShown == IF stale = {} THEN currentId ELSE Null

\* The empty history is one of MessageTree.
LEMMA TreeInitHolds ==
  ASSUME Init
  PROVE  Tree!Init
<1>1. keys = <<>> /\ stale = {} /\ currentId = Null
  BY DEF Init
<1>2. Live = {}
  <2>1. DOMAIN keys = {}
    BY <1>1
  <2> QED BY <2>1 DEF Live, Range
<1>3. TreeParent = [x \in {} |-> Null] /\ TreeOpen = {} /\ TreeShown = Null
  BY <1>1, <1>2 DEF TreeParent, TreeOpen, TreeShown
<1>4. (stale # {}) = FALSE
  BY <1>1
<1> QED BY <1>3, <1>4 DEF Tree!Init, TreeParent, TreeOpen, TreeShown

\* Every step of the page, from a history in order, is one of MessageTree or leaves it as it is.
LEMMA TreeSteps ==
  ASSUME ChatInv, ChatInv', TreeStep
  PROVE  Tree!Next
<1>0. Live \subseteq Id /\ Null \notin Id /\ Id = Question \cup Answer /\ Question \cap Answer = {}
  BY Places, Constants
<1>1. CASE stale = {} /\ stale' = {}
  <2>0. Grows \/ Settles \/ Reopens \/ Turns \/ Removes
    BY <1>1 DEF TreeStep
  <2>1. /\ TreeParent = [x \in Live |-> parent[x]] /\ TreeParent' = [x \in Live' |-> parent'[x]]
        /\ TreeOpen = {a \in Live \cap Answer : ~done[a]} /\ TreeOpen' = {a \in Live' \cap Answer : ~done'[a]}
        /\ TreeShown = currentId /\ TreeShown' = currentId'
    BY <1>1 DEF TreeParent, TreeOpen, TreeShown
  <2>2. Tree!Msgs = Live /\ DOMAIN TreeParent = Live /\ DOMAIN TreeParent' = Live'
    BY <2>1 DEF Tree!Msgs, TreeParent
  <2>3. (stale' # {}) = (stale # {}) /\ ~(stale # {})
    BY <1>1
  <2>4. CASE Grows
    <3>1. PICK new : /\ new # {} /\ new \cap Live = {} /\ Live' = Live \cup new
                     /\ \A x \in Live : parent'[x] = parent[x] /\ done'[x] = done[x]
                     /\ \A x \in new \cap Question : parent'[x] \in Live \cup {Null}
                     /\ currentId' \in new
      BY <2>4 DEF Grows
    <3>2. DOMAIN TreeParent' \ Tree!Msgs = new
      BY <3>1, <2>2
    <3>3. IsTree(Live', parent', kids')
      BY <1>1 DEF ChatInv, TreeInv
    <3>4. /\ new \subseteq Id
          /\ TreeParent' = [x \in new \cup Live |-> IF x \in Live THEN TreeParent[x] ELSE TreeParent'[x]]
      <4>1. new \subseteq Id
        <5>1. Live' \subseteq Id
          BY RangeOfSeq DEF ChatInv, TypeInv, KeysOK, Live
        <5> QED BY <5>1, <3>1
      <4>2. \A x \in Live : TreeParent[x] = parent[x] /\ parent'[x] = parent[x]
        BY <2>1, <3>1
      <4>3. \A x \in new : TreeParent'[x] = parent'[x]
        BY <2>1, <3>1
      <4> QED BY <4>1, <4>2, <4>3, <2>1, <3>1
    <3>5. \A x \in new \cap Question : TreeParent'[x] \in (Live \cap Answer) \cup {Null}
      BY <3>1, <3>3, <2>1 DEF IsTree, Alternating
    <3>6. \A x \in new \cap Answer : TreeParent'[x] \in (new \cup Live) \cap Question
      <4>1. SUFFICES ASSUME NEW x \in new \cap Answer PROVE parent'[x] \in Live' \cap Question
        BY <2>1, <3>1
      <4>2. x \in Live' /\ x \notin Question
        BY <3>1, <1>0
      <4>3. parent'[x] \in Question /\ parent'[x] # Null
        BY <4>2, <3>3, <1>0 DEF IsTree, Alternating
      <4> QED BY <4>2, <4>3, <3>3 DEF IsTree, Linked
    <3>7. TreeOpen \subseteq TreeOpen' /\ TreeOpen' \subseteq TreeOpen \cup (new \cap Answer)
          /\ TreeShown' \in new
      BY <2>1, <3>1
    <3>8. Tree!Grow
      BY <2>2, <2>3, <3>1, <3>2, <3>4, <3>5, <3>6, <3>7 DEF Tree!Grow, Tree!Id, Tree!Msgs, Id, TreeParent,
         TreeOpen, TreeShown
    <3> QED BY <3>8, <2>3 DEF Tree!Next
  <2>5. CASE Settles
    <3>1. /\ Live' = Live /\ parent' = parent /\ \A x \in Live \cap Answer : done[x] => done'[x]
          /\ currentId' # currentId =>
               currentId' \in Live \cap Answer /\ ~done[currentId'] /\ done'[currentId']
      BY <2>5 DEF Settles, Live
    <3>2. TreeParent' = TreeParent /\ TreeOpen' \subseteq TreeOpen
      BY <2>1, <3>1
    <3>3. TreeShown' = TreeShown \/ TreeShown' \in TreeOpen \ TreeOpen'
      BY <2>1, <3>1
    <3>4. Tree!Settle
      BY <2>3, <3>2, <3>3 DEF Tree!Settle, TreeParent, TreeOpen, TreeShown
    <3> QED BY <3>4, <2>3 DEF Tree!Next
  <2>6. CASE Reopens
    <3>1. /\ Live' = Live /\ parent' = parent /\ currentId' = currentId /\ currentId \in Live \cap Answer
          /\ \A x \in Live : done'[x] = (done[x] /\ x # currentId)
      BY <2>6 DEF Reopens, Live
    <3>2. TreeParent' = TreeParent /\ TreeShown' = TreeShown /\ TreeShown \in Answer
      BY <2>1, <3>1
    <3>3. TreeOpen' = TreeOpen \cup {TreeShown}
      BY <2>1, <3>1
    <3>4. Tree!Reopen
      BY <2>3, <3>2, <3>3 DEF Tree!Reopen, TreeParent, TreeOpen, TreeShown
    <3> QED BY <3>4, <2>3 DEF Tree!Next
  <2>7. CASE Turns
    <3>1. Live' = Live /\ parent' = parent /\ done' = done /\ currentId' \in Live
      BY <2>7 DEF Turns, Live
    <3>2. TreeParent' = TreeParent /\ TreeOpen' = TreeOpen /\ TreeShown' \in Tree!Msgs
      BY <2>1, <2>2, <3>1
    <3>3. Tree!Show
      BY <2>3, <3>2 DEF Tree!Show, TreeParent, TreeOpen, TreeShown
    <3> QED BY <3>3, <2>3 DEF Tree!Next
  <2>8. CASE Removes
    <3>0. PICK x \in Live : \E gone :
            /\ gone = {x} \cup {y \in Live : parent[y] = x} /\ Live' = Live \ gone
            /\ \A y \in Live \ gone : /\ parent'[y] = IF parent[y] \in gone THEN parent[x] ELSE parent[y]
                                      /\ done'[y] = done[y]
      BY <2>8 DEF Removes
    <3>1. PICK gone :
            /\ gone = {x} \cup {y \in Live : parent[y] = x} /\ Live' = Live \ gone
            /\ \A y \in Live \ gone : /\ parent'[y] = IF parent[y] \in gone THEN parent[x] ELSE parent[y]
                                      /\ done'[y] = done[y]
      BY <3>0
    <3> DEFINE below == {y \in Live : parent[y] = x}
    <3>2. Tree!Below(x) = below
      BY <2>1, <2>2 DEF Tree!Below, TreeParent
    <3>3. gone = {x} \cup below /\ \A y \in Live \ gone : parent[y] \in gone <=> parent[y] \in below
      BY <3>1
    <3> HIDE DEF below
    <3>4. TreeParent' = 
            [y \in Live \ gone |-> IF TreeParent[y] \in below THEN TreeParent[x] ELSE TreeParent[y]]
      <4>1. \A y \in Live : TreeParent[y] = parent[y]
        BY <2>1
      <4> QED BY <4>1, <2>1, <3>1, <3>3
    <3>5. TreeOpen' = TreeOpen \ gone
      BY <2>1, <3>1
    <3>6. IF Live = gone THEN TreeShown' = Null ELSE TreeShown' \in Live \ gone
      <4>1. IF Live' = {} THEN currentId' = Null ELSE currentId' \in Live'
        BY <1>1 DEF ChatInv, TreeInv
      <4>2. gone \subseteq Live
        BY <3>1
      <4> QED BY <4>1, <4>2, <2>1, <3>1
    <3>7. Tree!Remove
      BY <2>2, <2>3, <3>1, <3>2, <3>3, <3>4, <3>5, <3>6 DEF Tree!Remove, TreeParent, TreeOpen, TreeShown
    <3> QED BY <3>7, <2>3 DEF Tree!Next
  <2> QED BY <2>0, <2>4, <2>5, <2>6, <2>7, <2>8
<1>2. CASE stale = {} /\ stale' # {}
  <2>1. TreeParent' = [x \in {} |-> Null] /\ TreeOpen' = {} /\ TreeShown' = Null
    BY <1>2 DEF TreeParent, TreeOpen, TreeShown
  <2>2. (stale' # {}) = TRUE /\ ~(stale # {})
    BY <1>2
  <2>3. Tree!Tear
    BY <2>1, <2>2 DEF Tree!Tear, Tree!Blank, TreeParent, TreeOpen, TreeShown
  <2> QED BY <2>2, <2>3 DEF Tree!Next
<1>3. CASE stale # {}
  <2>1. stale' # {}
    BY <1>3 DEF TreeStep
  <2>2. TreeParent' = TreeParent /\ TreeOpen' = TreeOpen /\ TreeShown' = TreeShown
    BY <1>3, <2>1 DEF TreeParent, TreeOpen, TreeShown
  <2>3. (stale' # {}) = (stale # {})
    BY <1>3, <2>1
  <2>4. UNCHANGED Tree!tree
    BY <2>2, <2>3 DEF Tree!tree, TreeParent, TreeOpen, TreeShown
  <2> QED BY <1>3, <2>4 DEF Tree!Next
<1> QED BY <1>1, <1>2, <1>3

\* TreeSpec: the page implements MessageTree, the tree of messages a reader of the chat sees.
THEOREM ChatIsTree == Spec => TreeSpec
<1>1. Init => Tree!Init
  BY TreeInitHolds
<1>2. ChatInv /\ ChatInv' /\ [Next]_vars => [Tree!Next]_Tree!tree
  <2>1. SUFFICES ASSUME ChatInv, [Next]_vars PROVE [Tree!Next]_Tree!tree
    OBVIOUS
  <2>2. ChatInv' /\ (TreeStep \/ UNCHANGED vars)
    BY <2>1, NextKeeps
  <2>3. CASE TreeStep
    BY <2>1, <2>2, <2>3, TreeSteps
  <2>4. CASE UNCHANGED vars
    <3>1. UNCHANGED <<keys, parent, done, currentId, stale>>
      BY <2>4 DEF vars, links, view, ghosts
    <3>2. UNCHANGED Tree!tree
      BY <3>1 DEF Tree!tree, Live
    <3> QED BY <3>2
  <2> QED BY <2>2, <2>3, <2>4
<1> QED BY <1>1, <1>2, ChatSafe, PTL DEF Spec, TreeSpec, Tree!Spec

-----------------------------------------------------------------------------
(* What requests keep: a request that fails writes back an outdated        *)
(* message only in the cases of OnlyDoneDamaged.                           *)

\* Nothing puts a message below an answer being written, and none that is complete is continued.
Plain == menu \cap {"pair", "continue"} = {}

\* The answer whose copy a request keeps is deleted, moved, or complete, or still as it was.
Spared(c) ==
  LET a == call[c]
      q == kept[c].parent
  IN  /\ kept[c].is = "copy" /\ kept[c].kids = <<>> /\ q \in Question /\ q <= asked
      /\ a \notin Live \/ done[a] \/ q \notin Live \/ (parent[a] = q /\ kids[a] = <<>>)

\* What OnlyDoneDamaged needs besides ChatInv: what a request under way keeps agrees with the tree.
DamageInv ==
  stale = {} =>
    \A c \in Call : post[c] = "sent" =>
      /\ ~hasty => kept[c].is = "object" \/ kept[c].kids = <<>>
      /\ Plain => Spared(c)

\* What a request keeps after a step: what it kept, or its object has become an old one, or grown.
StillKept(c) ==
  /\ post[c] = "sent" /\ call'[c] = call[c]
  /\ \/ kept'[c] = kept[c]
     \/ Keeps(c, "object") /\ kept'[c] = Copy(kept[c].id, "old")
     \/ Keeps(c, "old") /\ hasty'

\* What a new request keeps: a copy of a new answer, or the object of one that is continued.
NewlyKept(c) ==
  \/ "continue" \in menu /\ kept'[c].is = "object"
  \/ /\ kept'[c].is = "copy" /\ kept'[c].kids = <<>>
     /\ stale' = {} => call'[c] \in Live' \ Live /\ kept'[c].parent = parent'[call'[c]]

\* Where a new question may go.
Allowed(y) == y = Null \/ done[y] \/ kids[y] # <<>> \/ ~Plain

\* What a step does to what requests keep, to ids and to answers that are complete.
Careful ==
  /\ menu' = menu /\ (hasty => hasty') /\ asked <= asked'
  /\ \A c \in Call : post'[c] = "sent" => StillKept(c) \/ NewlyKept(c)
  /\ stale' = {} =>
       /\ \A x \in Live' \ Live : IF x \in Question THEN x > asked /\ Allowed(parent'[x]) ELSE x > Newest
       /\ Plain => \A x \in Live \cap Live' : done[x] => done'[x]

\* Nobody's parent.
Childless(L, p, a) == \A y \in L : p[y] # a

\* In a tree, nothing is below a message that is nobody's parent.
LEMMA NobodysParent ==
  ASSUME NEW L, NEW p, NEW k, L \subseteq Id, k \in [Id -> Seq(Id)], IsTree(L, p, k), NEW a, a \in L
  PROVE  k[a] = <<>> <=> Childless(L, p, a)
<1>1. k[a] \in Seq(Id) /\ a # Null /\ Linked(L, p, k)
  BY IdFacts DEF IsTree
<1>2. ASSUME k[a] = <<>>, NEW y \in L, p[y] = a PROVE FALSE
  <2>1. y \in Range(k[a])
    BY <1>1, <1>2 DEF Linked
  <2>2. Range(k[a]) = {}
    BY <1>2 DEF Range
  <2> QED BY <2>1, <2>2
<1>3. ASSUME k[a] # <<>>, \A y \in L : p[y] # a PROVE FALSE
  <2>1. Last(k[a]) \in Range(k[a])
    BY <1>1, <1>3, LastIn
  <2> QED BY <2>1, <1>1, <1>3 DEF Linked
<1> QED BY <1>2, <1>3 DEF Childless

\* The tree of a history in order, with the numbers of its messages.
InTree ==
  /\ IsTree(Live, parent, kids) /\ Live \subseteq Id /\ kids \in [Id -> Seq(Id)]
  /\ parent \in [Id -> Id \cup {Null}]
  /\ \A x \in Live : IF x \in Question THEN x <= asked ELSE x <= Newest
  /\ asked \in Nat /\ Newest \in Nat

\* ChatInv says that there is one.
LEMMA TreeOf ==
  ASSUME ChatInv, stale = {}
  PROVE  InTree
<1>1. KeysOK /\ LinksOK /\ TreeInv
  BY DEF ChatInv, TypeInv
<1>2. asked \in Nat /\ Newest \in Nat
  <2>1. answered \in 0..MaxAnswers /\ asked \in 0..MaxQuestions
    BY <1>1 DEF KeysOK
  <2> QED BY <2>1, Numbered, Constants DEF Newest
<1>3. Live \subseteq Id
  BY <1>1 DEF KeysOK, Live, Range
<1> QED BY <1>1, <1>2, <1>3 DEF InTree, KeysOK, LinksOK, TreeInv

\* The same after a step.
LEMMA TreeOfNext ==
  ASSUME ChatInv', stale' = {}
  PROVE  InTree'
<1>1. KeysOK' /\ LinksOK' /\ TreeInv'
  BY DEF ChatInv, TypeInv
<1>2. asked' \in Nat /\ Newest' \in Nat
  <2>1. answered' \in 0..MaxAnswers /\ asked' \in 0..MaxQuestions
    BY <1>1 DEF KeysOK
  <2>2. MaxQuestions + answered' \in Nat /\ Newest' = MaxQuestions + answered'
    BY <2>1, Numbered DEF Newest
  <2>3. asked' \in Nat
    BY <2>1
  <2> QED BY <2>2, <2>3
<1>3. Live' \subseteq Id
  BY <1>1 DEF KeysOK, Live, Range
<1> QED BY <1>1, <1>2, <1>3 DEF InTree, KeysOK, LinksOK, TreeInv

\* A new answer has nothing below it.
LEMMA NewIsBare ==
  ASSUME ChatInv, ChatInv', stale = {}, stale' = {}, Grows, NEW a \in Live' \ Live, a \in Answer
  PROVE  kids'[a] = <<>>
<1>1. /\ IsTree(Live, parent, kids)
      /\ IsTree(Live', parent', kids') /\ Live' \subseteq Id /\ kids' \in [Id -> Seq(Id)]
  BY TreeOf, TreeOfNext DEF InTree
<1>0. kids'[a] = <<>> <=> Childless(Live', parent', a)
  BY <1>1, NobodysParent
<1>2. SUFFICES ASSUME NEW y \in Live', parent'[y] = a PROVE FALSE
  BY <1>0 DEF Childless
<1>3. a \notin Question /\ a # Null
  BY Constants
<1>4. y \in Question
  BY <1>1, <1>2, <1>3 DEF IsTree, Alternating
<1>5. CASE y \in Live
  <2>1. parent[y] = a
    BY <1>2, <1>5 DEF Grows
  <2>2. a \in Live
    BY <2>1, <1>1, <1>3, <1>5 DEF IsTree, Linked
  <2> QED BY <2>2
<1>6. CASE y \notin Live
  <2>1. parent'[y] \in Live \cup {Null}
    BY <1>2, <1>4, <1>6 DEF Grows
  <2> QED BY <2>1, <1>2, <1>3
<1> QED BY <1>5, <1>6

\* An answer that is not complete keeps its question and has nothing put below it.
LEMMA StaysBare ==
  ASSUME ChatInv, ChatInv', TreeStep, Careful, stale = {}, stale' = {}, Plain,
         NEW a \in Answer, a \in Live, a \in Live', ~done[a], parent[a] \in Live', kids[a] = <<>>
  PROVE  parent'[a] = parent[a] /\ kids'[a] = <<>>
<1>1. /\ IsTree(Live, parent, kids) /\ Live \subseteq Id /\ kids \in [Id -> Seq(Id)]
      /\ IsTree(Live', parent', kids') /\ Live' \subseteq Id /\ kids' \in [Id -> Seq(Id)]
  BY TreeOf, TreeOfNext DEF InTree
<1>0. /\ kids[a] = <<>> <=> Childless(Live, parent, a)
      /\ kids'[a] = <<>> <=> Childless(Live', parent', a)
  BY <1>1, NobodysParent
<1>2. \A y \in Live : parent[y] # a
  BY <1>0 DEF Childless
<1>3. a \notin Question /\ a # Null
  BY Constants
<1>4. SUFFICES parent'[a] = parent[a] /\ \A y \in Live' : parent'[y] # a
  BY <1>0 DEF Childless
<1>5. CASE UNCHANGED <<keys, parent>>
  BY <1>2, <1>5 DEF Live
<1>6. CASE Grows
  <2>1. parent'[a] = parent[a]
    BY <1>6 DEF Grows
  <2>2. ASSUME NEW y \in Live', parent'[y] = a PROVE FALSE
    <3>1. y \in Question
      BY <1>1, <2>2, <1>3 DEF IsTree, Alternating
    <3>2. y \notin Live
      BY <1>6, <1>2, <2>2 DEF Grows
    <3>3. Allowed(a)
      BY <3>1, <3>2, <2>2 DEF Careful
    <3> QED BY <3>3, <1>3 DEF Allowed
  <2> QED BY <2>1, <2>2
<1>7. CASE Removes
  <2>1. PICK x \in Live : \E gone :
          /\ gone = {x} \cup {y \in Live : parent[y] = x} /\ Live' = Live \ gone
          /\ \A y \in Live \ gone : parent'[y] = IF parent[y] \in gone THEN parent[x] ELSE parent[y]
    BY <1>7 DEF Removes
  <2>2. PICK gone :
          /\ gone = {x} \cup {y \in Live : parent[y] = x} /\ Live' = Live \ gone
          /\ \A y \in Live \ gone : parent'[y] = IF parent[y] \in gone THEN parent[x] ELSE parent[y]
    BY <2>1
  <2>3. parent'[a] = parent[a]
    BY <2>2
  <2>4. \A y \in Live' : parent'[y] # a
    BY <2>2, <1>2
  <2> QED BY <2>3, <2>4
<1> QED BY <1>5, <1>6, <1>7 DEF TreeStep, Settles, Reopens, Turns

\* A step that is careful keeps DamageInv.
LEMMA DamageStays ==
  ASSUME ChatInv, ChatInv', TreeStep, Careful, DamageInv
  PROVE  DamageInv'
<1>1. SUFFICES ASSUME stale' = {}, NEW c \in Call, post'[c] = "sent"
               PROVE  /\ ~hasty' => kept'[c].is = "object" \/ kept'[c].kids = <<>>
                      /\ Plain' => Spared(c)'
  BY DEF DamageInv
<1>2. stale = {} /\ menu' = menu /\ (hasty => hasty') /\ asked <= asked'
  BY <1>1 DEF TreeStep, Careful
<1>3. Plain' <=> Plain
  BY <1>2 DEF Plain
<1>4. CASE StillKept(c)
  <2>1. post[c] = "sent" /\ call'[c] = call[c]
    BY <1>4 DEF StillKept
  <2>2. kept[c].id = call[c]
    BY <2>1 DEF ChatInv, TypeInv, KeptOK
  <2>3. ASSUME ~hasty' PROVE kept'[c].is = "object" \/ kept'[c].kids = <<>>
    <3>1. ~hasty /\ kids[call[c]] = <<>>
      BY <2>3, <1>2, <2>1 DEF ChatInv, LeafInv
    <3>2. CASE kept'[c] = kept[c]
      BY <3>1, <3>2, <1>2, <2>1 DEF DamageInv
    <3>3. CASE kept'[c] = Copy(kept[c].id, "old")
      BY <3>1, <3>3, <2>2 DEF Copy
    <3> QED BY <3>2, <3>3, <2>3, <1>4 DEF StillKept
  <2>4. ASSUME Plain PROVE Spared(c)'
    <3> DEFINE a == call[c]
               q == kept[c].parent
    <3>1. /\ kept[c].is = "copy" /\ kept[c].kids = <<>> /\ q \in Question /\ q <= asked
          /\ a \notin Live \/ done[a] \/ q \notin Live \/ (parent[a] = q /\ kids[a] = <<>>)
      BY <2>4, <1>2, <2>1 DEF DamageInv, Spared
    <3>2. kept'[c] = kept[c]
      BY <3>1, <1>4 DEF StillKept, Keeps
    <3>3. q <= asked'
      <4>1. asked \in Nat /\ asked' \in Nat /\ q \in Nat
        BY <3>1, <1>1, <1>2, TreeOf, TreeOfNext, IdFacts DEF InTree
      <4> QED BY <4>1, <3>1, <1>2
    <3>4. ASSUME a \in Live', ~done'[a], q \in Live' PROVE parent'[a] = q /\ kids'[a] = <<>>
      <4>1. a \in Answer /\ a <= Newest /\ Newest \in Nat /\ a \in Nat /\ asked \in Nat /\ q \in Nat
        BY <2>1, <2>2, <3>1, <1>2, TreeOf, IdFacts, Constants DEF InTree, ChatInv, TypeInv, CallsOK, KeptOK,
           Held
      <4>2. a \in Live
        BY <4>1, <3>4, <1>1, Constants DEF Careful
      <4>3. q \in Live
        BY <4>1, <3>1, <3>4, <1>1 DEF Careful
      <4>4. ~done[a]
        BY <3>4, <4>2, <1>1, <2>4 DEF Careful
      <4>5. parent[a] = q /\ kids[a] = <<>>
        BY <3>1, <4>2, <4>3, <4>4
      <4> QED BY <4>1, <4>2, <4>4, <4>5, <3>4, <1>1, <1>2, <2>4, StaysBare
    <3> HIDE DEF a, q
    <3>5. call'[c] = a /\ kept'[c].parent = q /\ kept'[c].is = "copy" /\ kept'[c].kids = <<>>
      BY <2>1, <3>1, <3>2 DEF a, q
    <3>6. q \in Question
      BY <3>1
    <3> QED BY <3>3, <3>4, <3>5, <3>6 DEF Spared
  <2> QED BY <2>3, <2>4, <1>3
<1>5. CASE NewlyKept(c)
  <2>1. kept'[c].is = "object" \/ kept'[c].kids = <<>>
    BY <1>5 DEF NewlyKept
  <2>2. ASSUME Plain PROVE Spared(c)'
    <3> DEFINE a == call'[c]
               q == kept'[c].parent
    <3>1. /\ kept'[c].is = "copy" /\ kept'[c].kids = <<>>
          /\ a \in Live' \ Live /\ q = parent'[a]
      BY <2>2, <1>5, <1>1 DEF NewlyKept, Plain
    <3>2. /\ IsTree(Live', parent', kids') /\ Live' \subseteq Id
          /\ \A x \in Live' : IF x \in Question THEN x <= asked' ELSE x <= Newest'
      BY <1>1, TreeOfNext DEF InTree
    <3>3. a \in Answer
      <4>1. kept'[c].id = a /\ kept'[c] \in Held
        BY <1>1 DEF ChatInv, TypeInv, KeptOK
      <4> QED BY <4>1 DEF Held
    <3>4. q \in Question /\ q \in Live' /\ q <= asked'
      <4>1. a \notin Question /\ \A x \in Question : x # Null
        BY <3>3, Constants
      <4>2. q \in Question
        BY <3>1, <3>2, <4>1 DEF IsTree, Alternating
      <4>3. q \in Live'
        BY <3>1, <3>2, <4>1, <4>2 DEF IsTree, Linked
      <4> QED BY <4>2, <4>3, <3>2
    <3>5. Grows
      <4>1. Live' # Live /\ ~(Live' \subseteq Live)
        BY <3>1
      <4> QED BY <4>1, <1>1, <1>2 DEF TreeStep, Settles, Reopens, Turns, Removes, Live
    <3>6. kids'[a] = <<>>
      BY <3>1, <3>3, <3>5, <1>1, <1>2, NewIsBare
    <3> QED BY <3>1, <3>4, <3>6 DEF Spared
  <2> QED BY <2>1, <2>2, <1>3
<1> QED BY <1>1, <1>4, <1>5 DEF Careful

\* What requests keep is left to them, except that objects become old ones.
OldKept ==
  \A c \in Call : post'[c] = "sent" =>
    /\ post[c] = "sent"
    /\ kept'[c] = kept[c] \/ (Keeps(c, "object") /\ kept'[c] = Copy(kept[c].id, "old"))

\* A step that sends nothing and makes no message is careful if it opens no answer.
LEMMA RestCareful ==
  ASSUME TypeInv, UNCHANGED <<menu, hasty, asked, call>>, OldKept,
         stale' = {} => Live' \subseteq Live /\ \A x \in Live' : done[x] => done'[x]
  PROVE  Careful
<1>1. asked \in Nat
  BY DEF TypeInv, KeysOK
<1>2. \A c \in Call : post'[c] = "sent" => StillKept(c)
  BY DEF OldKept, StillKept
<1> QED BY <1>1, <1>2 DEF Careful

\* Replacing entries of history.messages makes old ones of objects.
LEMMA OutdatedCareful ==
  ASSUME NEW S, kept' = Outdated(S), UNCHANGED post
  PROVE  OldKept
BY Constants DEF OldKept, Outdated, Keeps

\* Putting a message back does, and leaves the messages unless it was outdated.
LEMMA PutBackCareful ==
  ASSUME TypeInv, NEW h \in Keeper, NEW goesOn, PutBack(h, goesOn),
         \A c \in Call : post'[c] = "sent" => post[c] = "sent" /\ c # h
  PROVE  OldKept /\ (stale' = {} => Live' = Live)
<1> DEFINE w == kept[h]
<1> DEFINE rest == IF w.is = "object" THEN kept ELSE Outdated({w.id})
<1>1. KeptOK
  BY DEF TypeInv
<1>2. kept' = [rest EXCEPT ![h] = IF goesOn THEN Object(w.id) ELSE Null]
  BY DEF PutBack
<1>3. \A c \in Call : rest[c] = kept[c] \/ (Keeps(c, "object") /\ rest[c] = Copy(kept[c].id, "old"))
  BY <1>1, Constants DEF Outdated, Keeps
<1>4. \A g \in Keeper : g # h => kept'[g] = rest[g]
  <2>1. DOMAIN rest = Keeper
    BY <1>1 DEF KeptOK, Outdated
  <2> HIDE DEF rest
  <2> QED BY <1>2, <2>1
<1> HIDE DEF rest
<1>5. OldKept
  BY <1>3, <1>4, Constants DEF OldKept
<1>6. ASSUME stale' = {} PROVE Live' = Live
  <2>1. w.id \in Live
    BY <1>6 DEF PutBack
  <2>2. keys' = keys
    BY <2>1 DEF PutBack
  <2> QED BY <2>2 DEF Live
<1> QED BY <1>5, <1>6

\* Which branch is shown, and what an answer says, concerns no request.
LEMMA ViewCareful ==
  ASSUME ChatInv, Shows \/ \E x : EditAnswer(x)
  PROVE  Careful
<1>1. /\ UNCHANGED <<menu, hasty, asked, call, post, kept, keys, done>> /\ TypeInv
  <2>1. CASE Shows
    <3>1. \E y : ShowBranch(y)
      BY <2>1 DEF Shows, ShowMessage, ShowPreviousMessage, ShowNextMessage, GroupClick, GotoMessage
    <3> QED BY <3>1 DEF ShowBranch, links, sending, ghosts, ChatInv
  <2>2. CASE \E x : EditAnswer(x)
    BY <2>2 DEF EditAnswer, links, sending, ghosts, ChatInv
  <2> QED BY <2>1, <2>2
<1>2. OldKept
  BY <1>1 DEF OldKept
<1>3. Live' = Live
  BY <1>1 DEF Live
<1> QED BY <1>1, <1>2, <1>3, RestCareful

\* A deletion leaves those messages that are complete so.
LEMMA DeleteCareful ==
  ASSUME ChatInv, NEW x \in Live, DeleteMessage(x)
  PROVE  Careful
<1> DEFINE gone == {x} \cup Range(kids[x])
<1>1. /\ keys' = Without(keys, gone) /\ kept' = Outdated(gone)
         /\ done' = [y \in Id |-> done[y] /\ y \notin gone]
      /\ UNCHANGED <<menu, hasty, asked, call, post>>
  BY DEF DeleteMessage, ghosts
<1> HIDE DEF gone
<1>2. TypeInv /\ keys \in Seq(Id) /\ Live \subseteq Id
  BY Places DEF ChatInv, TypeInv, KeysOK
<1>3. Live' = Live \ gone
  BY <1>1, <1>2, WithoutIs DEF Live
<1>4. OldKept
  BY <1>1, OutdatedCareful
<1>5. \A y \in Live' : done[y] => done'[y]
  BY <1>1, <1>2, <1>3
<1> QED BY <1>1, <1>2, <1>3, <1>4, <1>5, RestCareful

\* Requests are answered or fail, and tasks go on.
LEMMA RequestsCareful ==
  ASSUME ChatInv, Requests
  PROVE  Careful
<1>0. TypeInv /\ ViewOK /\ CallsOK /\ KeptOK
  BY DEF ChatInv, TypeInv
<1>1. PICK c \in Call : \/ Accept(c) \/ TaskAnswers(c) \/ TaskFails(c) \/ SendAccepted(c) \/ SendFails(c)
                        \/ \E titles \in BOOLEAN : TaskEnds(c, titles)
  BY DEF Requests
<1>2. c \in Keeper
  BY Constants
<1>3. CASE Accept(c) \/ TaskAnswers(c) \/ TaskFails(c) \/ \E titles \in BOOLEAN : TaskEnds(c, titles)
  <2>1. UNCHANGED <<menu, hasty, asked, call, post, kept, keys, done>>
    BY <1>3 DEF Accept, TaskAnswers, TaskFails, TaskEnds, still, links, view, ghosts
  <2>2. OldKept /\ Live' = Live
    BY <2>1 DEF OldKept, Live
  <2> QED BY <1>0, <2>1, <2>2, RestCareful
<1>4. CASE SendAccepted(c)
  <2>1. /\ UNCHANGED <<menu, hasty, asked, call, keys, done>>
        /\ post' = [post EXCEPT ![c] = "over"] /\ kept' = [kept EXCEPT ![c] = Null]
    BY <1>4 DEF SendAccepted, still, links, view, ghosts
  <2>2. OldKept /\ Live' = Live
    BY <2>1, <1>0, Constants DEF OldKept, Live, CallsOK, KeptOK
  <2> QED BY <1>0, <2>1, <2>2, RestCareful
<1>5. CASE SendFails(c)
  <2>1. /\ UNCHANGED <<menu, hasty, asked, call>>
        /\ post' = [post EXCEPT ![c] = "failed"] /\ PutBack(c, FALSE)
        /\ done' = [done EXCEPT ![call[c]] = TRUE]
    BY <1>5 DEF SendFails, still
  <2>2. \A d \in Call : post'[d] = "sent" => post[d] = "sent" /\ d # c
    BY <2>1, <1>0 DEF CallsOK
  <2>3. OldKept /\ (stale' = {} => Live' = Live)
    BY <2>1, <2>2, <1>0, <1>2, PutBackCareful
  <2>4. \A x \in Live : done[x] => done'[x]
    BY <2>1, <1>0, Places DEF ViewOK
  <2> QED BY <1>0, <2>1, <2>3, <2>4, RestCareful
<1> QED BY <1>1, <1>3, <1>4, <1>5

\* A stop completes answers, and ends a merge.
LEMMA StopsCareful ==
  ASSUME ChatInv, StopResponse \/ StopTask \/ StopReturns
  PROVE  Careful
<1>0. TypeInv /\ ViewOK /\ KeysOK /\ KeptOK
  BY DEF ChatInv, TypeInv
<1>1. CASE StopResponse \/ StopTask
  <2>1. UNCHANGED <<menu, hasty, asked, call, post, kept, keys, done>>
    BY <1>1 DEF StopResponse, StopTask, still, links, view, sending, ghosts
  <2>2. OldKept /\ Live' = Live
    BY <2>1 DEF OldKept, Live
  <2> QED BY <1>0, <2>1, <2>2, RestCareful
<1>2. CASE StopReturns
  <2>1. /\ UNCHANGED <<menu, hasty, asked, call, post, keys>> /\ done' = GroupDone
        /\ kept' = [kept EXCEPT ![Merge] = Null]
    BY <1>2 DEF StopReturns, still, links, ghosts
  <2>2. OldKept /\ Live' = Live
    BY <2>1, <1>0, Constants DEF OldKept, Live, KeptOK
  <2>3. \A x \in Live : done[x] => done'[x]
    BY <2>1, <1>0, GroupIsDone, Places
  <2> QED BY <1>0, <2>1, <2>2, <2>3, RestCareful
<1> QED BY <1>1, <1>2

\* Events complete answers.
LEMMA EventsCareful ==
  ASSUME ChatInv, Events
  PROVE  Careful
<1>0. TypeInv /\ ViewOK /\ KeysOK /\ KeptOK /\ Live \subseteq Id
  BY Places DEF ChatInv, TypeInv
<1>1. UNCHANGED <<menu, hasty, asked, call, post, keys>>
  BY DEF Events, Ignored, DoneArrives, ErrorArrives, CancelArrives, TitleArrives, LoseEvent, Arrives,
         still, links, sending, ghosts
<1>2. kept' = kept \/ kept' = [kept EXCEPT ![Title] = Object(Arrived)]
  BY DEF Events, Ignored, DoneArrives, ErrorArrives, CancelArrives, TitleArrives, LoseEvent, sending
<1>3. done' = done \/ done' = [done EXCEPT ![Arrived] = TRUE] \/ done' = GroupDone
  BY DEF Events, Ignored, DoneArrives, ErrorArrives, CancelArrives, TitleArrives, LoseEvent, view
<1>4. OldKept /\ Live' = Live
  BY <1>0, <1>1, <1>2, Constants DEF OldKept, Live, KeptOK
<1>5. \A x \in Live : done[x] => done'[x]
  BY <1>0, <1>3, GroupIsDone DEF ViewOK
<1> QED BY <1>0, <1>1, <1>4, <1>5, RestCareful

\* Handlers that wait keep messages of their own, and complete those they put back.
LEMMA WaitsCareful ==
  ASSUME ChatInv, Waits
  PROVE  Careful
<1>0. TypeInv /\ ViewOK /\ KeysOK /\ KeptOK /\ Live \subseteq Id
  BY Places DEF ChatInv, TypeInv
<1>1. CASE \E f \in finishing : ChatCompleted(f) \/ ChatSaved(f)
  <2>1. UNCHANGED <<menu, hasty, asked, call, post, keys, done>>
    BY <1>1 DEF ChatCompleted, ChatSaved, still, links, view, sending, ghosts
  <2>2. kept' = kept \/ \E S : kept' = Outdated(S)
    BY <1>1 DEF ChatCompleted, ChatSaved, sending
  <2>3. OldKept
    <3>1. CASE kept' = kept
      BY <3>1, <2>1 DEF OldKept
    <3> QED BY <3>1, <2>1, <2>2, OutdatedCareful
  <2>4. Live' = Live
    BY <2>1 DEF Live
  <2> QED BY <1>0, <2>1, <2>3, <2>4, RestCareful
<1>2. CASE \E x \in Live : Rate(x) \/ MergeResponses(x)
  <2>1. /\ UNCHANGED <<menu, hasty, asked, call, post, keys, done>>
        /\ \E h \in {Rating, Merge} : \E v : kept' = [kept EXCEPT ![h] = v]
    BY <1>2 DEF Rate, MergeResponses, waiting, still, links
  <2>2. OldKept /\ Live' = Live
    BY <1>0, <2>1, Constants DEF OldKept, Live, KeptOK
  <2> QED BY <1>0, <2>1, <2>2, RestCareful
<1>3. CASE TitleListed \/ \E goesOn \in BOOLEAN : SaveRating(goesOn) \/ MergeChunk(goesOn)
  <2>1. PICK h \in {Title, Rating, Merge} : \E goesOn \in BOOLEAN : PutBack(h, goesOn)
    BY <1>3 DEF TitleListed, SaveRating, MergeChunk
  <2>2. UNCHANGED <<menu, hasty, asked, call, post>>
    BY <1>3 DEF TitleListed, SaveRating, MergeChunk, waiting, still
  <2>3. \A x \in Live : done[x] => done'[x]
    <3>1. \E a, b : done' = [done EXCEPT ![a] = @ \/ b] \/ done' = [done EXCEPT ![a] = TRUE]
      BY <1>3 DEF TitleListed, SaveRating, MergeChunk
    <3> QED BY <3>1, <1>0 DEF ViewOK
  <2>4. OldKept /\ (stale' = {} => Live' = Live)
    <3>1. h \in Keeper /\ h \notin Call
      BY Constants
    <3> QED BY <1>0, <2>1, <2>2, <3>1, PutBackCareful
  <2> QED BY <1>0, <2>2, <2>3, <2>4, RestCareful
<1> QED BY <1>1, <1>2, <1>3 DEF Waits

\* What requests keep is left to them, unless the question below an answer being written grows an old object.
KeptFor(kept0) == \A c \in Call : post[c] = "sent" => kept0[c] = kept[c] \/ (Keeps(c, "old") /\ hasty')

\* Sending is careful if the caller is.
LEMMA SendCareful ==
  ASSUME TypeInv, NEW q \in Id, NEW slots \in Seq(Nat), slots # <<>>,
         NEW keys0 \in Seq(Id), IsInjective(keys0), asked' \in 0..MaxQuestions,
         \A x \in Range(keys0) : IF x \in Question THEN x <= asked' ELSE x <= Newest,
         NEW parent0 \in [Id -> Id \cup {Null}], NEW kids0 \in [Id -> Seq(Id)], NEW kept0, Ages(kept0),
         hasty' \in BOOLEAN, Send(q, slots, keys0, parent0, kids0, kept0),
         KeptFor(kept0), hasty => hasty', asked <= asked',
         \A x \in Range(keys0) : x \in Live \/ (x \in Question /\ x > asked
                                                /\ (stale' = {} => Allowed(parent0[x])))
  PROVE  Careful
<1>1. PICK new : Sends1(q, new, keys0, parent0, kids0, kept0)
  BY SendIs
<1>2. /\ new \in Seq(Id) /\ Range(new) \subseteq Answer /\ \A x \in Range(new) : x > Newest
      /\ keys' = Cat(keys0, new)
      /\ \A x \in Id : parent'[x] = IF x \in Range(new) THEN q ELSE parent0[x]
      /\ menu' = menu /\ done' = done
  BY <1>1 DEF Sends1
<1>3. Live' = Range(keys0) \cup Range(new) /\ Range(keys0) \subseteq Id
  <2>1. Range(Cat(keys0, new)) = Range(keys0) \cup Range(new)
    BY <1>2, RangeOfCat
  <2> QED BY <2>1, <1>2, RangeOfSeq DEF Live
<1>4. \A x \in Range(new) : x \in Answer /\ x \notin Question /\ x \notin Live /\ x \in Id
  <2>1. Newest \in Nat /\ \A x \in Live : x \in Question \/ x <= Newest
    <3>1. answered \in 0..MaxAnswers
      BY DEF TypeInv, KeysOK
    <3>2. Newest \in Nat
      BY <3>1, Numbered DEF Newest
    <3> QED BY <3>2 DEF TypeInv, KeysOK
  <2>2. ASSUME NEW x \in Range(new) PROVE x \in Answer /\ x \in Nat /\ x > Newest
    BY <1>2, IdFacts
  <2> QED BY <2>1, <2>2, Constants
<1>5. ASSUME NEW c \in Call, post'[c] = "sent" PROVE StillKept(c) \/ NewlyKept(c)
  <2> DEFINE n == Len(slots)
  <2> DEFINE more == [i \in 1..n |-> MaxQuestions + answered + i]
  <2> DEFINE New(d) == d - Sent \in 1..n
  <2>1. \E saved \in BOOLEAN :
          /\ post' = [d \in Call |-> IF ~New(d) THEN post[d] ELSE IF saved THEN "sent" ELSE "failed"]
          /\ kept' = [h \in Keeper |-> IF h \in Call /\ saved /\ New(h)
                                       THEN [id |-> more[h - Sent], is |-> "copy", parent |-> q,
                                             kids |-> <<>>]
                                       ELSE kept0[h]]
    <3> HIDE DEF more
    <3>1. \E saved \in IF "offline" \in menu THEN BOOLEAN ELSE {TRUE} :
          /\ post' = [d \in Call |-> IF ~New(d) THEN post[d] ELSE IF saved THEN "sent" ELSE "failed"]
          /\ kept' = [h \in Keeper |-> IF h \in Call /\ saved /\ New(h)
                                       THEN [id |-> more[h - Sent], is |-> "copy", parent |-> q,
                                             kids |-> <<>>]
                                       ELSE kept0[h]]
      BY DEF Send, more
    <3> HIDE DEF New
    <3> QED BY <3>1
  <2>2. call' = [d \in Call |-> IF New(d) THEN more[d - Sent] ELSE call[d]]
    BY DEF Send
  <2> HIDE DEF more
  <2>3. CASE ~New(c)
    <3>1. post[c] = "sent" /\ call'[c] = call[c] /\ kept'[c] = kept0[c]
      <4> HIDE DEF New
      <4> QED BY <2>1, <2>2, <2>3, <1>5, Constants
    <3> QED BY <3>1 DEF KeptFor, StillKept
  <2>4. CASE New(c)
    <3>1. kept'[c].is = "copy" /\ kept'[c].kids = <<>> /\ kept'[c].parent = q
      <4> HIDE DEF New
      <4>1. kept'[c] = [id |-> more[c - Sent], is |-> "copy", parent |-> q, kids |-> <<>>]
        BY <2>1, <2>4, <1>5, Constants
      <4> QED BY <4>1
    <3>2. call[c] = Null
      <4>1. c \in Nat /\ Sent \in Nat /\ c - Sent \in 1..n /\ (call[c] # Null <=> c <= Sent)
        BY <2>4, Constants DEF TypeInv, CallsOK
      <4> HIDE DEF n
      <4> QED BY <4>1
    <3>3. call'[c] \in Range(new)
      BY <3>2, <1>1, <1>5 DEF Sends1
    <3>4. call'[c] \in Live' \ Live /\ parent'[call'[c]] = q
      BY <3>3, <1>2, <1>3, <1>4
    <3> QED BY <3>1, <3>4 DEF NewlyKept
  <2> QED BY <2>3, <2>4
<1>6. ASSUME stale' = {}, NEW x \in Live' \ Live
      PROVE  IF x \in Question THEN x > asked /\ Allowed(parent'[x]) ELSE x > Newest
  <2>1. CASE x \in Range(new)
    BY <2>1, <1>2, <1>4
  <2>2. CASE x \notin Range(new)
    <3>1. x \in Range(keys0) /\ x \in Id
      BY <2>2, <1>6, <1>3
    <3>2. x \in Question /\ x > asked /\ Allowed(parent0[x])
      BY <3>1, <1>6
    <3>3. parent'[x] = parent0[x]
      BY <2>2, <3>1, <1>2
    <3> QED BY <3>2, <3>3
  <2> QED BY <2>1, <2>2
<1> QED BY <1>2, <1>5, <1>6 DEF Careful

\* A prompt is careful if it is not below an answer with nothing below it that is being written.
LEMMA AskCareful ==
  ASSUME ChatInv, NEW up \in Id \cup {Null}, NEW pushes \in BOOLEAN, Ask(up, pushes),
         stale = {} => Allowed(up)
  PROVE  Careful
<1> DEFINE q == asked + 1
<1> DEFINE keys0 == Append(keys, q)
<1> DEFINE parent0 == [parent EXCEPT ![q] = up]
<1> DEFINE kids0 == IF up # Null THEN [kids EXCEPT ![up] = Append(@, q)] ELSE kids
<1> DEFINE kept0 == IF up # Null /\ pushes THEN Pushed(up, q) ELSE kept
<1> DEFINE slots == [i \in 1..width |-> i]
<1>0. TypeInv /\ KeysOK /\ LinksOK /\ KeptOK /\ RestOK /\ Live = Range(keys)
  BY DEF ChatInv, TypeInv, Live
<1>1. /\ asked < MaxQuestions /\ asked' = q
      /\ hasty' = (hasty \/ (up # Null /\ Pending(up)))
      /\ Send(q, slots, keys0, parent0, kids0, kept0)
  BY DEF Ask
<1>2. q \in Question /\ q \in Id /\ q \notin Live /\ q \in 0..MaxQuestions
  BY <1>0, <1>1, NextQuestion
<1>3. asked' \in 0..MaxQuestions /\ hasty' \in BOOLEAN /\ asked \in Nat /\ q > asked /\ asked <= asked'
  BY <1>0, <1>1, <1>2 DEF RestOK, KeysOK
<1>4. slots \in Seq(Nat) /\ slots # <<>>
  <2>1. width \in Nat \ {0}
    BY <1>0, HistoryAssumption DEF RestOK
  <2>2. slots \in [1..width -> Nat]
    BY <2>1
  <2>3. slots \in Seq(Nat)
    BY <2>1, <2>2, SeqDef
  <2>4. 1 \in DOMAIN slots
    BY <2>1
  <2> HIDE DEF slots
  <2> QED BY <2>3, <2>4, EmptySeq, LenProperties
<1>5. keys0 \in Seq(Id) /\ IsInjective(keys0) /\ Range(keys0) = Live \cup {q}
  <2>1. keys \in Seq(Id) /\ IsInjective(keys)
    BY <1>0 DEF KeysOK
  <2> HIDE DEF q
  <2>2. q \in Id /\ q \notin Range(keys)
    BY <1>2, <1>0
  <2> QED BY <2>1, <2>2, <1>0, Appended
<1>6. \A x \in Range(keys0) : IF x \in Question THEN x <= asked' ELSE x <= Newest
  <2>1. \A x \in Question : x \in Nat
    BY IdFacts
  <2>2. \A x \in Live : IF x \in Question THEN x <= asked' ELSE x <= Newest
    BY <2>1, <1>0, <1>1, <1>3 DEF KeysOK
  <2>3. q <= asked'
    BY <1>1, <1>3
  <2> QED BY <2>2, <2>3, <1>2, <1>5
<1> HIDE DEF keys0, slots, q
<1>7. parent0 \in [Id -> Id \cup {Null}] /\ parent0[q] = up
  BY <1>0, <1>2 DEF LinksOK
<1>8. kids0 \in [Id -> Seq(Id)]
  <2>1. \A x \in Id : Append(kids[x], q) \in Seq(Id)
    BY <1>2, <1>0, Appended DEF LinksOK
  <2> QED BY <2>1, <1>0 DEF LinksOK
<1>9. Ages(kept0)
  BY <1>2, <1>0, KeptAges, PushedAges
<1>10. KeptFor(kept0)
  <2>1. SUFFICES ASSUME NEW c \in Call, post[c] = "sent", kept0[c] # kept[c]
                 PROVE  Keeps(c, "old") /\ hasty'
    BY DEF KeptFor
  <2>2. c \in Keeper /\ up # Null /\ Keeps(c, "old") /\ kept[c].id = up
    BY <2>1, Constants DEF Pushed
  <2>3. call[c] = up
    BY <2>1, <2>2, <1>0 DEF KeptOK
  <2> QED BY <2>1, <2>2, <2>3, <1>1 DEF Pending, Working
<1>11. stale' = stale
  BY DEF Ask, Send
<1>12. \A x \in Range(keys0) : x \in Live \/ (x \in Question /\ x > asked
                                              /\ (stale' = {} => Allowed(parent0[x])))
  BY <1>2, <1>3, <1>5, <1>7, <1>11
<1> HIDE DEF parent0, kids0, kept0
<1> QED BY <1>0, <1>1, <1>2, <1>3, <1>4, <1>5, <1>6, <1>7, <1>8, <1>9, <1>10, <1>12, SendCareful

\* Typed prompts and suggestions go below complete answers; an edited question beside the one that is there.
LEMMA SubmitCareful ==
  ASSUME ChatInv, SubmitPrompt \/ \E x \in Live : SubmitMessage(x) \/ EditQuestion(x)
  PROVE  Careful
<1>1. CASE SubmitPrompt
  <2>1. Ask(currentId, TRUE) /\ Allowed(currentId)
    BY <1>1 DEF SubmitPrompt, Allowed
  <2> QED BY <2>1, Places, AskCareful
<1>2. ASSUME NEW x \in Live, SubmitMessage(x) PROVE Careful
  <2>1. Ask(x, FALSE) /\ Allowed(x) /\ x \in Id
    BY <1>2, Places DEF SubmitMessage, Allowed
  <2> QED BY <2>1, AskCareful
<1>3. ASSUME NEW x \in Live, EditQuestion(x) PROVE Careful
  <2>1. Ask(parent[x], FALSE) /\ x \in Id /\ parent[x] \in Id \cup {Null}
    BY <1>3, Places DEF EditQuestion, ChatInv, TypeInv, LinksOK
  <2>2. ASSUME stale = {}, parent[x] # Null PROVE kids[parent[x]] # <<>>
    <3>1. x \in Range(kids[parent[x]])
      BY <2>2 DEF ChatInv, TreeInv, IsTree, Linked
    <3> QED BY <3>1 DEF Range
  <2>3. stale = {} => Allowed(parent[x])
    BY <2>2 DEF Allowed
  <2> QED BY <2>1, <2>3, AskCareful
<1> QED BY <1>1, <1>2, <1>3

\* Another answer needs no question.
LEMMA RegenerateCareful ==
  ASSUME ChatInv, NEW a \in Live, RegenerateResponse(a)
  PROVE  Careful
<1> DEFINE slots == IF width > 1 THEN <<slot[a]>> ELSE <<1>>
<1>1. /\ a \in Answer /\ parent[a] \in Live /\ Send(parent[a], slots, keys, parent, kids, kept)
      /\ asked' = asked /\ hasty' = hasty
  BY DEF RegenerateResponse
<1>2. TypeInv /\ KeysOK /\ LinksOK /\ KeptOK /\ RestOK /\ ViewOK /\ Live = Range(keys) /\ Live \subseteq Id
  BY Places DEF ChatInv, TypeInv, Live
<1>3. slots \in Seq(Nat) /\ slots # <<>>
  <2>1. slot[a] \in Nat
    BY <1>1, <1>2 DEF ViewOK
  <2>2. <<slot[a]>> \in Seq(Nat) /\ <<1>> \in Seq(Nat)
    BY <2>1
  <2> QED BY <2>2
<1>4. /\ keys \in Seq(Id) /\ IsInjective(keys) /\ asked' \in 0..MaxQuestions /\ hasty' \in BOOLEAN
      /\ \A x \in Range(keys) : IF x \in Question THEN x <= asked' ELSE x <= Newest
  BY <1>1, <1>2 DEF KeysOK, RestOK
<1>5. parent \in [Id -> Id \cup {Null}] /\ kids \in [Id -> Seq(Id)] /\ Ages(kept)
  BY <1>2, KeptAges DEF LinksOK
<1>6. KeptFor(kept) /\ (hasty => hasty') /\ asked <= asked'
  BY <1>1, <1>2 DEF KeptFor, KeysOK
<1> HIDE DEF slots
<1> QED BY <1>1, <1>2, <1>3, <1>4, <1>5, <1>6, SendCareful

\* What is continued is kept as an object.
LEMMA ContinueCareful ==
  ASSUME ChatInv, ContinueResponse
  PROVE  Careful
<1> DEFINE n == Sent + 1
<1>0. TypeInv /\ KeysOK /\ CallsOK /\ KeptOK
  BY DEF ChatInv, TypeInv
<1>1. /\ "continue" \in menu
      /\ call' = [call EXCEPT ![n] = currentId] /\ post' = [post EXCEPT ![n] = "sent"]
      /\ kept' = [kept EXCEPT ![n] = Object(currentId)]
      /\ UNCHANGED <<menu, hasty, asked, keys>>
  BY DEF ContinueResponse, links, ghosts
<1> HIDE DEF n
<1>2. ASSUME NEW c \in Call, post'[c] = "sent" PROVE StillKept(c) \/ NewlyKept(c)
  <2>1. c \in Keeper
    BY Constants
  <2>2. CASE c = n
    <3>1. kept'[c] = Object(currentId)
      BY <2>1, <2>2, <1>0, <1>1 DEF KeptOK
    <3> QED BY <3>1, <1>1 DEF NewlyKept, Object
  <2>3. CASE c # n
    BY <2>1, <2>3, <1>0, <1>1, <1>2 DEF StillKept, CallsOK, KeptOK
  <2> QED BY <2>2, <2>3
<1>3. ~Plain /\ Live' = Live /\ asked \in Nat
  BY <1>0, <1>1 DEF Plain, Live, KeysOK
<1> QED BY <1>1, <1>2, <1>3 DEF Careful

\* A pair may go anywhere.
LEMMA PairCareful ==
  ASSUME ChatInv, NEW up, Pair(up)
  PROVE  Careful
<1> DEFINE q == asked + 1
<1> DEFINE a == MaxQuestions + answered + 1
<1>0. TypeInv /\ KeysOK /\ KeptOK
  BY DEF ChatInv, TypeInv
<1>1. /\ "pair" \in menu /\ asked' = q /\ keys' = keys \o <<q, a>>
      /\ kept' = IF up = Null THEN kept ELSE Pushed(up, q)
      /\ hasty' = (hasty \/ (up # Null /\ Pending(up)))
      /\ asked < MaxQuestions /\ answered < MaxAnswers
      /\ UNCHANGED <<menu, call, post>>
  BY DEF Pair
<1>2. q \in Question /\ q \in Id /\ asked \in Nat /\ q > asked /\ asked <= asked'
  BY <1>0, <1>1, NextQuestion DEF KeysOK
<1>3. a = Newest + 1 /\ Newest \in Nat /\ a > Newest /\ a \in Id /\ a \notin Question
  <2>1. a = Newest + 1
    BY <1>0, Constants DEF Newest, KeysOK
  <2>2. Newest + 1 \in Id /\ Newest + 1 \notin Question /\ Newest \in Nat
    BY <1>0, <1>1, NextAnswer
  <2> HIDE DEF a
  <2> QED BY <2>1, <2>2
<1> HIDE DEF q, a
<1>4. Live' = Live \cup {q, a}
  <2> DEFINE two == <<q, a>>
  <2>1. two \in Seq(Id) /\ Range(two) = {q, a} /\ keys \in Seq(Id) /\ keys' = Cat(keys, two)
    BY <1>0, <1>1, <1>2, <1>3 DEF Range, KeysOK, Cat
  <2> HIDE DEF two
  <2>2. Range(Cat(keys, two)) = Range(keys) \cup Range(two)
    BY <2>1, RangeOfCat
  <2> QED BY <2>1, <2>2 DEF Live
<1>5. ASSUME NEW c \in Call, post'[c] = "sent" PROVE StillKept(c)
  <2>1. post[c] = "sent" /\ call'[c] = call[c] /\ c \in Keeper
    BY <1>1, <1>5, Constants
  <2>2. SUFFICES ASSUME kept'[c] # kept[c] PROVE Keeps(c, "old") /\ hasty'
    BY <2>1 DEF StillKept
  <2>3. up # Null /\ Keeps(c, "old") /\ kept[c].id = up
    BY <2>1, <2>2, <1>1 DEF Pushed
  <2>4. call[c] = up
    BY <2>1, <2>3, <1>0 DEF KeptOK
  <2> QED BY <2>1, <2>3, <2>4, <1>1 DEF Pending, Working
<1>6. ~Plain
  BY <1>1 DEF Plain
<1> QED BY <1>1, <1>2, <1>3, <1>4, <1>5, <1>6 DEF Careful, Allowed

\* A copy of an answer is a new, complete answer.
LEMMA CopyCareful ==
  ASSUME ChatInv, NEW x \in Live, SaveAsCopy(x)
  PROVE  Careful
<1> DEFINE b == MaxQuestions + answered + 1
<1>0. TypeInv /\ KeysOK /\ ViewOK /\ Live \subseteq Id
  BY Places DEF ChatInv, TypeInv
<1>1. /\ answered < MaxAnswers /\ keys' = Append(keys, b) /\ done' = [done EXCEPT ![b] = TRUE]
      /\ UNCHANGED <<menu, hasty, asked, call, post, kept>>
  BY DEF SaveAsCopy, sending, ghosts
<1>2. b = Newest + 1 /\ Newest \in Nat /\ b > Newest /\ b \in Id /\ b \notin Question
  <2>1. b = Newest + 1
    BY <1>0, Constants DEF Newest, KeysOK
  <2>2. Newest + 1 \in Id /\ Newest + 1 \notin Question /\ Newest \in Nat
    BY <1>0, <1>1, NextAnswer
  <2> HIDE DEF b
  <2> QED BY <2>1, <2>2
<1> HIDE DEF b
<1>3. Live' = Live \cup {b} /\ asked \in Nat
  BY <1>0, <1>1, <1>2, Appended DEF Live, KeysOK
<1>4. \A y \in Live : done[y] => done'[y]
  BY <1>0, <1>1 DEF ViewOK
<1>5. \A c \in Call : post'[c] = "sent" => StillKept(c)
  BY <1>1 DEF StillKept
<1> QED BY <1>1, <1>2, <1>3, <1>4, <1>5 DEF Careful

\* Every step is careful.
LEMMA NextCareful ==
  ASSUME ChatInv, Next
  PROVE  Careful
<1>1. CASE Sends
  BY <1>1, SubmitCareful, ContinueCareful, RegenerateCareful DEF Sends
<1>2. CASE Changes
  BY <1>2, PairCareful, CopyCareful, ViewCareful, DeleteCareful DEF Changes, CreateMessagePair, AddMessages
<1>3. CASE Shows \/ Requests
  BY <1>3, ViewCareful, RequestsCareful
<1>4. CASE StopResponse \/ StopTask \/ StopReturns
  BY <1>4, StopsCareful
<1>5. CASE Events \/ Waits
  BY <1>5, EventsCareful, WaitsCareful
<1> QED BY <1>1, <1>2, <1>3, <1>4, <1>5 DEF Next

\* What requests keep agrees with the tree in every state, until an outdated message is written back.
LEMMA ChatCareful == Spec => [](ChatInv /\ DamageInv)
<1>1. Init => ChatInv /\ DamageInv
  BY InitHolds DEF Init, DamageInv
<1>2. ChatInv /\ DamageInv /\ [Next]_vars => (ChatInv /\ DamageInv)'
  <2>1. SUFFICES ASSUME ChatInv, DamageInv, [Next]_vars PROVE ChatInv' /\ DamageInv'
    OBVIOUS
  <2>2. ChatInv' /\ (TreeStep \/ UNCHANGED vars)
    BY <2>1, NextKeeps
  <2>3. CASE UNCHANGED vars
    <3>1. UNCHANGED <<menu, keys, parent, kids, done, asked, call, post, kept, stale, hasty>>
      BY <2>3 DEF vars, links, view, sending, ghosts
    <3> QED BY <2>1, <2>2, <3>1 DEF DamageInv, Spared, Plain, Live
  <2>4. CASE Next /\ TreeStep
    BY <2>1, <2>2, <2>4, NextCareful, DamageStays
  <2> QED BY <2>1, <2>2, <2>3, <2>4
<1> QED BY <1>1, <1>2, PTL DEF Spec

\* OnlyDoneDamaged: a request that fails writes an outdated message back only if its answer was deleted, moved
\* or marked as done, or was continued, or has a pair below it.
THEOREM ChatOnlyDoneDamaged == Spec => OnlyDoneDamaged
<1> DEFINE Only == \A c \in Call : SendFails(c) /\ stale = {} /\ stale' # {} =>
                     \/ call[c] \notin Live \/ parent[call[c]] # kept[c].parent \/ done[call[c]]
                     \/ hasty /\ menu \cap {"pair", "continue"} # {}
<1>1. ChatInv /\ DamageInv => [Only]_vars
  <2>1. SUFFICES ASSUME ChatInv, DamageInv, NEW c \in Call, SendFails(c), stale = {}, stale' # {},
                        call[c] \in Live, parent[call[c]] = kept[c].parent, ~done[call[c]]
                 PROVE  hasty /\ ~Plain
    BY DEF Plain
  <2> DEFINE a == call[c]
  <2>2. post[c] = "sent" /\ PutBack(c, FALSE) /\ kept[c].id = a
    BY <2>1 DEF SendFails, ChatInv, TypeInv, KeptOK
  <2>3. kept[c].is # "object" /\ kept[c].kids # kids[a]
    BY <2>1, <2>2 DEF PutBack
  <2>4. hasty
    BY <2>1, <2>2, <2>3 DEF DamageInv, ChatInv, LeafInv
  <2>5. ASSUME Plain PROVE FALSE
    <3>1. /\ kept[c].kids = <<>> /\ kept[c].parent \in Question
          /\ kept[c].parent \notin Live \/ kids[a] = <<>>
      BY <2>1, <2>2, <2>5 DEF DamageInv, Spared
    <3>2. kept[c].parent # Null
      BY <3>1, Constants
    <3>3. parent[a] \in Live
      BY <2>1, <3>2 DEF ChatInv, TreeInv, IsTree, Linked
    <3> QED BY <2>1, <2>3, <3>1, <3>3
  <2> QED BY <2>4, <2>5
<1>2. [](ChatInv /\ DamageInv) => [][Only]_vars
  BY <1>1, PTL
<1> QED BY <1>2, ChatCareful, PTL DEF OnlyDoneDamaged
==============================================================================
