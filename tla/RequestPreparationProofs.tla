------------------------ MODULE RequestPreparationProofs ------------------------
(***************************************************************************)
(* Theorems about RequestPreparation, for every Operation, any number of   *)
(* Patches, constraints, candidates and draws: what is chosen, what a      *)
(* Patch replaces, and that the server reads what the constraints ask.     *)
(*                                                                         *)
(* First come lemmas about the operators (folds, sequences, what connects, *)
(* trees of inputs, the search), then those about one case and its two     *)
(* passes, then the invariants of the specification.                       *)
(***************************************************************************)
EXTENDS RequestPreparation, FiniteSetTheorems, WellFoundedInduction, SequenceTheorems, TLAPS

-----------------------------------------------------------------------------
(* Induction and folds.  The library's induction theorems speak of an      *)
(* operator, which the provers cannot instantiate; here a set takes its    *)
(* place.                                                                  *)

\* A set with zero and the successors of its members has all natural numbers.
LEMMA SetInduction ==
  ASSUME NEW S, 0 \in S, \A n \in Nat : n \in S => n + 1 \in S
  PROVE  Nat \subseteq S
<1>1. SUFFICES ASSUME Nat \ S # {} PROVE FALSE
  OBVIOUS
<1>2. IsWellFoundedOn(OpToRel(<, Nat), Nat)
  BY NatLessThanWellFounded
<1>3. PICK x \in Nat \ S : \A y \in Nat \ S : ~(<<y, x>> \in OpToRel(<, Nat))
  <2> DEFINE R == OpToRel(<, Nat)
  <2> HIDE DEF R
  <2>1. IsWellFoundedOn(R, Nat)
    BY <1>2 DEF R
  <2>2. \E x \in Nat \ S : \A y \in Nat \ S : ~(<<y, x>> \in R)
    BY <1>1, <2>1, WFMin
  <2> QED
    BY <2>2 DEF R
<1>4. x # 0
  BY <1>3
<1>5. <<x - 1, x>> \in OpToRel(<, Nat)
  BY <1>4 DEF OpToRel
<1>7. x - 1 \in Nat /\ x = (x - 1) + 1
  BY <1>4
<1>6. x - 1 \in S
  <2> DEFINE R == OpToRel(<, Nat)
  <2> HIDE DEF R
  <2>1. <<x - 1, x>> \in R /\ \A y \in Nat \ S : ~(<<y, x>> \in R)
    BY <1>3, <1>5 DEF R
  <2> QED
    BY <1>7, <2>1
<1> QED
  BY <1>6, <1>7

\* A set of positions has a greatest one (Max of the library).
LEMMA MaxOf == ASSUME NEW n \in Nat, NEW s \in SUBSET (1..n), s # {}
               PROVE Max(s) \in s /\ \A y \in s : Max(s) >= y
<1>1. \E x \in s : \A y \in s : x >= y
  <2> DEFINE T == {k \in Nat : \A r \in SUBSET (1..k) : r # {} => \E x \in r : \A y \in r : x >= y}
  <2>1. 0 \in T
    <3>1. \A r \in SUBSET (1..0) : r = {}
      OBVIOUS
    <3> QED BY <3>1
  <2>2. ASSUME NEW k \in Nat, k \in T PROVE k + 1 \in T
    <3>1. SUFFICES ASSUME NEW r \in SUBSET (1..(k + 1)), r # {} PROVE \E x \in r : \A y \in r : x >= y
      OBVIOUS
    <3>2. CASE k + 1 \in r
      BY <3>2
    <3>3. CASE k + 1 \notin r
      <4>1. r \in SUBSET (1..k)
        BY <3>3
      <4> QED BY <4>1, <2>2, <3>1
    <3> QED BY <3>2, <3>3
  <2> HIDE DEF T
  <2>3. n \in T
    BY <2>1, <2>2, SetInduction
  <2> QED BY <2>3 DEF T
<1> QED BY <1>1 DEF Max

\* A step of a fold over 1..n, and the function that folds its subsets from the
\* smallest position to the greatest, as FoldLeft does.
IsStep(n, X, base, step) == base \in X /\ step \in [X \X (1..n) -> X]
IsFold(n, X, base, step) ==
  \E g \in [SUBSET (1..n) -> X] : \A s \in SUBSET (1..n) :
    g[s] = IF s = {} THEN base ELSE step[<<g[s \ {Max(s)}], Max(s)>>]

\* The recursive function that FoldLeft chooses exists.
LEMMA FoldSolution ==
  ASSUME NEW n \in Nat, NEW X, NEW base, NEW step, IsStep(n, X, base, step)
  PROVE  IsFold(n, X, base, step)
<1> base \in X /\ step \in [X \X (1..n) -> X]
  BY DEF IsStep
<1> DEFINE Solves(g, k) ==
      \A s \in SUBSET (1..k) : g[s] = IF s = {} THEN base ELSE step[<<g[s \ {Max(s)}], Max(s)>>]
    P(k) == \E g \in [SUBSET (1..k) -> X] : Solves(g, k)
    T == {k \in Nat : k <= n => P(k)}
<1>1. P(0)
  <2>1. \A s \in SUBSET (1..0) : s = {}
    OBVIOUS
  <2>2. /\ [s \in SUBSET (1..0) |-> base] \in [SUBSET (1..0) -> X]
        /\ Solves([s \in SUBSET (1..0) |-> base], 0)
    BY <2>1
  <2> HIDE DEF Solves
  <2> QED BY <2>2
<1>2. ASSUME NEW k \in Nat, k + 1 <= n, P(k) PROVE P(k + 1)
  <2>1. PICK g \in [SUBSET (1..k) -> X] : Solves(g, k)
    BY <1>2
  <2> DEFINE h == [s \in SUBSET (1..(k + 1)) |->
                     IF k + 1 \in s THEN step[<<g[s \ {k + 1}], k + 1>>] ELSE g[s]]
  <2>2. \A s \in SUBSET (1..(k + 1)) : k + 1 \notin s => s \in SUBSET (1..k)
    OBVIOUS
  <2>3. \A s \in SUBSET (1..(k + 1)) : s \ {k + 1} \in SUBSET (1..k)
    OBVIOUS
  <2>4. h \in [SUBSET (1..(k + 1)) -> X]
    <3>1. k + 1 \in 1..n
      BY <1>2
    <3>2. ASSUME NEW s \in SUBSET (1..(k + 1)) PROVE h[s] \in X
      <4>1. CASE k + 1 \in s
        <5>1. g[s \ {k + 1}] \in X
          BY <2>3
        <5> QED BY <3>1, <4>1, <5>1
      <4>2. CASE k + 1 \notin s
        BY <2>2, <4>2
      <4> QED BY <4>1, <4>2
    <3> QED BY <3>2
  <2>5. ASSUME NEW s \in SUBSET (1..(k + 1))
        PROVE  h[s] = IF s = {} THEN base ELSE step[<<h[s \ {Max(s)}], Max(s)>>]
    <3>1. CASE k + 1 \in s
      <4>1. Max(s) = k + 1
        <5>1. k + 1 \in Nat /\ s # {}
          BY <3>1
        <5>2. Max(s) \in s /\ \A y \in s : Max(s) >= y
          BY <5>1, MaxOf
        <5>3. Max(s) \in 1..(k + 1) /\ Max(s) >= k + 1
          BY <3>1, <5>2
        <5> QED BY <5>3
      <4>2. h[s \ {k + 1}] = g[s \ {k + 1}]
        BY <2>3
      <4>3. h[s] = step[<<g[s \ {k + 1}], k + 1>>]
        BY <3>1
      <4> HIDE DEF h
      <4> QED BY <3>1, <4>1, <4>2, <4>3
    <3>2. CASE k + 1 \notin s
      <4>1. s \in SUBSET (1..k) /\ h[s] = g[s] /\ h[s \ {Max(s)}] = g[s \ {Max(s)}]
        BY <2>2, <3>2
      <4>2. g[s] = IF s = {} THEN base ELSE step[<<g[s \ {Max(s)}], Max(s)>>]
        BY <2>1, <4>1
      <4> HIDE DEF h
      <4> QED BY <4>1, <4>2
    <3> QED BY <3>1, <3>2
  <2> HIDE DEF h
  <2>6. Solves(h, k + 1)
    BY <2>5
  <2> HIDE DEF Solves
  <2> QED BY <2>4, <2>6
<1> HIDE DEF P
<1>3. n \in T
  <2>1. 0 \in T
    BY <1>1
  <2>2. \A k \in Nat : k \in T => k + 1 \in T
    BY <1>2
  <2> HIDE DEF T
  <2> QED BY <2>1, <2>2, SetInduction
<1>4. P(n)
  BY <1>3
<1> QED BY <1>4 DEF P, IsFold

\* The prefixes 1..k of the positions.
LEMMA UpTo ==
  ASSUME NEW n \in Nat, NEW k \in 1..n
  PROVE  /\ 1..k \in SUBSET (1..n) /\ 1..k # {} /\ Max(1..k) = k /\ (1..k) \ {k} = 1..(k - 1)
<1>1. 1..k \in SUBSET (1..n) /\ k \in 1..k
  OBVIOUS
<1>2. (1..k) \ {k} = 1..(k - 1)
  <2>1. \A i : i \in (1..k) \ {k} <=> i \in 1..(k - 1)
    OBVIOUS
  <2> QED BY <2>1
<1>3. Max(1..k) \in 1..k /\ \A y \in 1..k : Max(1..k) >= y
  <2>1. 1..k # {}
    BY <1>1
  <2> QED BY <1>1, <2>1, MaxOf
<1>4. Max(1..k) = k
  BY <1>1, <1>3
<1>5. 1..k # {}
  BY <1>1
<1> QED BY <1>1, <1>2, <1>4, <1>5

\* Induction over the positions 0..n.
LEMMA IntervalInduction ==
  ASSUME NEW n \in Nat, NEW S, 0 \in S, \A k \in 0..(n - 1) : k \in S => k + 1 \in S
  PROVE  0..n \subseteq S
<1> DEFINE T == {k \in Nat : k <= n => k \in S}
<1>1. 0 \in T
  OBVIOUS
<1>2. \A k \in Nat : k \in T => k + 1 \in T
  OBVIOUS
<1> HIDE DEF T
<1>3. Nat \subseteq T
  BY <1>1, <1>2, SetInduction
<1> QED BY <1>3 DEF T

\* A fold seen from its prefixes.
IsLine(n, X, base, step) ==
  \E h \in [0..n -> X] : h[0] = base /\ \A k \in 1..n : h[k] = step[<<h[k - 1], k>>]

LEMMA LineExists ==
  ASSUME NEW n \in Nat, NEW X, NEW base, NEW step, IsStep(n, X, base, step)
  PROVE  IsLine(n, X, base, step)
<1>0. IsFold(n, X, base, step)
  BY FoldSolution
<1>1. PICK g \in [SUBSET (1..n) -> X] : \A s \in SUBSET (1..n) :
         g[s] = IF s = {} THEN base ELSE step[<<g[s \ {Max(s)}], Max(s)>>]
  BY <1>0 DEF IsFold
<1> DEFINE h == [k \in 0..n |-> g[1..k]]
<1>2. h \in [0..n -> X]
  <2>1. ASSUME NEW k \in 0..n PROVE g[1..k] \in X
    <3>1. 1..k \in SUBSET (1..n)
      OBVIOUS
    <3> QED BY <3>1
  <2> QED BY <2>1
<1>3. h[0] = base
  <2>1. 1..0 = {} /\ {} \in SUBSET (1..n) /\ 0 \in 0..n
    OBVIOUS
  <2>2. g[{}] = base
    BY <1>1, <2>1
  <2>3. h[0] = g[1..0]
    BY <2>1
  <2> HIDE DEF h
  <2> QED BY <2>1, <2>2, <2>3
<1>4. ASSUME NEW k \in 1..n PROVE h[k] = step[<<h[k - 1], k>>]
  <2>1. 1..k \in SUBSET (1..n) /\ 1..k # {} /\ Max(1..k) = k /\ (1..k) \ {k} = 1..(k - 1)
    BY UpTo
  <2>2. g[1..k] = step[<<g[1..(k - 1)], k>>]
    BY <1>1, <2>1
  <2> QED BY <2>2
<1> HIDE DEF h
<1> QED BY <1>2, <1>3, <1>4 DEF IsLine

-----------------------------------------------------------------------------
(* The elements of a sequence at some positions.                           *)

\* The positions of S up to i.
Until(S, i) == {j \in S : j <= i}

\* How many positions of S come up to one of them numbers the positions of S.
Numbered(S) ==
  /\ IsFiniteSet(S)
  /\ \A i \in S : Cardinality(Until(S, i)) \in 1..Cardinality(S)
  /\ \A k \in 1..Cardinality(S) : \E i \in S : Cardinality(Until(S, i)) = k
  /\ \A i, j \in S : Cardinality(Until(S, i)) = Cardinality(Until(S, j)) => i = j

LEMMA PositionsAreNumbered ==
  ASSUME NEW n \in Nat, NEW S \in SUBSET (1..n)
  PROVE  Numbered(S)
<1> DEFINE T == {m \in Nat : \A R \in SUBSET (1..m) : Numbered(R)}
<1>1. 0 \in T
  <2>1. \A R \in SUBSET (1..0) : R = {}
    OBVIOUS
  <2>2. Numbered({})
    BY FS_EmptySet DEF Numbered
  <2> QED BY <2>1, <2>2
<1>2. ASSUME NEW m \in Nat, m \in T PROVE m + 1 \in T
  <2>1. SUFFICES ASSUME NEW R \in SUBSET (1..(m + 1)) PROVE Numbered(R)
    OBVIOUS
  <2>2. CASE m + 1 \notin R
    <3>1. R \in SUBSET (1..m)
      BY <2>2
    <3> QED BY <1>2, <3>1
  <2>3. CASE m + 1 \in R
    <3> DEFINE Q == R \ {m + 1}
    <3>1. Q \in SUBSET (1..m) /\ R = Q \cup {m + 1} /\ m + 1 \notin Q
      BY <2>3
    <3>2. Numbered(Q)
      BY <1>2, <3>1
    <3> HIDE DEF Q
    <3>3. IsFiniteSet(Q) /\ IsFiniteSet(R) /\ Cardinality(Q) \in Nat /\ Cardinality(R) = Cardinality(Q) + 1
      <4>1. IsFiniteSet(Q)
        BY <3>2 DEF Numbered
      <4> QED BY <4>1, <3>1, FS_AddElement, FS_CardinalityType
    <3>4. \A i \in Q : Until(R, i) = Until(Q, i)
      BY <3>1 DEF Until
    <3>5. Until(R, m + 1) = R
      <4>1. \A j \in R : j <= m + 1
        BY <2>1
      <4> QED BY <4>1 DEF Until
    <3>6. \A i \in R : i \in Q \/ i = m + 1
      BY <3>1
    <3>7. \A i \in Q : Cardinality(Until(R, i)) \in 1..Cardinality(Q)
      BY <3>2, <3>4 DEF Numbered
    <3>8. Cardinality(Until(R, m + 1)) = Cardinality(Q) + 1
      BY <3>3, <3>5
    <3>9. \A i \in R : Cardinality(Until(R, i)) \in 1..Cardinality(R)
      BY <3>3, <3>6, <3>7, <3>8
    <3>10. ASSUME NEW k \in 1..Cardinality(R) PROVE \E i \in R : Cardinality(Until(R, i)) = k
      <4>1. CASE k = Cardinality(Q) + 1
        BY <4>1, <3>1, <3>8
      <4>2. CASE k # Cardinality(Q) + 1
        <5>1. k \in 1..Cardinality(Q)
          BY <4>2, <3>3
        <5>2. PICK i \in Q : Cardinality(Until(Q, i)) = k
          BY <3>2, <5>1 DEF Numbered
        <5> QED BY <5>2, <3>1, <3>4
      <4> QED BY <4>1, <4>2
    <3>11. ASSUME NEW i \in R, NEW j \in R, Cardinality(Until(R, i)) = Cardinality(Until(R, j))
           PROVE i = j
      <4>1. CASE i \in Q /\ j \in Q
        BY <4>1, <3>2, <3>4, <3>11 DEF Numbered
      <4>2. CASE ~(i \in Q /\ j \in Q)
        BY <4>2, <3>3, <3>6, <3>7, <3>8, <3>11
      <4> QED BY <4>1, <4>2
    <3> QED BY <3>3, <3>9, <3>10, <3>11 DEF Numbered
  <2> QED BY <2>2, <2>3
<1> HIDE DEF T
<1>3. n \in T
  BY <1>1, <1>2, SetInduction
<1> QED BY <1>3 DEF T

\* What a filter keeps: the elements at the positions, and nothing else.
LEMMA Elements ==
  ASSUME NEW T, NEW s \in Seq(T), NEW S \in SUBSET (DOMAIN s)
  PROVE  /\ ElementsAt(s, S) \in Seq(T)
         /\ Len(ElementsAt(s, S)) = Cardinality(S)
         /\ DOMAIN ElementsAt(s, S) = 1..Cardinality(S)
         /\ \A k \in DOMAIN ElementsAt(s, S) : \E i \in S : ElementsAt(s, S)[k] = s[i]
         /\ \A i \in S : \E k \in DOMAIN ElementsAt(s, S) : ElementsAt(s, S)[k] = s[i]
         /\ ElementsAt(s, S) = << >> <=> S = {}
<1> DEFINE e == ElementsAt(s, S)
           At(k) == CHOOSE i \in S : Cardinality({j \in S : j <= i}) = k
<1>1. Len(s) \in Nat /\ DOMAIN s = 1..Len(s)
  OBVIOUS
<1>2. Numbered(S)
  BY <1>1, PositionsAreNumbered
<1>3. IsFiniteSet(S) /\ Cardinality(S) \in Nat
  BY <1>2, FS_CardinalityType DEF Numbered
<1>4. ASSUME NEW k \in 1..Cardinality(S) PROVE At(k) \in S /\ Cardinality({j \in S : j <= At(k)}) = k
  <2>1. \E i \in S : Cardinality({j \in S : j <= i}) = k
    BY <1>2 DEF Numbered, Until
  <2> QED BY <2>1
<1>5. ASSUME NEW i \in S PROVE \E k \in 1..Cardinality(S) : At(k) = i
  <2> DEFINE k == Cardinality({j \in S : j <= i})
  <2>1. k \in 1..Cardinality(S)
    BY <1>2 DEF Numbered, Until
  <2>2. At(k) \in S /\ Cardinality({j \in S : j <= At(k)}) = k
    BY <1>4, <2>1
  <2>3. Cardinality(Until(S, At(k))) = Cardinality(Until(S, i))
    BY <2>2 DEF Until
  <2>4. At(k) = i
    <3> HIDE DEF At, k
    <3> QED BY <1>2, <2>2, <2>3 DEF Numbered
  <2> QED BY <2>1, <2>4
<1>6. e = [k \in 1..Cardinality(S) |-> s[At(k)]]
  BY DEF ElementsAt
<1> HIDE DEF At, e
<1>7. \A k \in 1..Cardinality(S) : e[k] = s[At(k)] /\ At(k) \in S /\ s[At(k)] \in T
  <2>1. ASSUME NEW k \in 1..Cardinality(S) PROVE e[k] = s[At(k)] /\ At(k) \in S
    BY <1>4, <1>6
  <2>2. \A i \in S : s[i] \in T
    BY <1>1
  <2> QED BY <2>1, <2>2
<1>8. e \in Seq(T) /\ Len(e) = Cardinality(S) /\ DOMAIN e = 1..Cardinality(S)
  BY <1>3, <1>6, <1>7
<1>9. S = {} <=> Cardinality(S) = 0
  BY <1>3, FS_EmptySet
<1>10. e = << >> <=> S = {}
  BY <1>8, <1>9
<1>11. \A k \in DOMAIN e : \E i \in S : e[k] = s[i]
  BY <1>7, <1>8
<1>12. \A i \in S : \E k \in DOMAIN e : e[k] = s[i]
  BY <1>5, <1>7, <1>8
<1> QED BY <1>8, <1>10, <1>11, <1>12 DEF e

-----------------------------------------------------------------------------
(* What connects with some inputs.                                         *)

\* What passes over the records can find.
Findings(records, inputs) ==
  [ids : SUBSET {records[i].id : i \in DOMAIN records},
   inputs : SUBSET (inputs \cup UNION {Owners(records[i]) : i \in DOMAIN records})]

\* h goes over the records once, from s to t.
IsPass(records, s, t) ==
  \E h : /\ h[0] = s /\ h[Len(records)] = t
         /\ \A k \in 1..Len(records) : h[k] = Absorbed(h[k - 1], records[k])

LEMMA AbsorbedIsFinding ==
  ASSUME NEW records, NEW inputs, NEW i \in DOMAIN records, NEW s \in Findings(records, inputs)
  PROVE  Absorbed(s, records[i]) \in Findings(records, inputs)
<1> DEFINE I == {records[j].id : j \in DOMAIN records}
           M == inputs \cup UNION {Owners(records[j]) : j \in DOMAIN records}
<1>1. s.ids \in SUBSET I /\ s.inputs \in SUBSET M
  BY DEF Findings
<1>2. records[i].id \in I
  OBVIOUS
<1>3. Owners(records[i]) \subseteq M
  OBVIOUS
<1> HIDE DEF I, M
<1>4. Absorbed(s, records[i]) \in [ids : SUBSET I, inputs : SUBSET M]
  <2>1. s \in [ids : SUBSET I, inputs : SUBSET M]
    BY DEF Findings, I, M
  <2> QED BY <2>1, <1>1, <1>2, <1>3 DEF Absorbed
<1> QED BY <1>4 DEF Findings, I, M

\* The fold of a pass goes over the records once.
LEMMA FoldIsPass ==
  ASSUME NEW T, NEW records \in Seq(T), NEW inputs, NEW s \in Findings(records, inputs)
  PROVE  /\ IsPass(records, s, FoldLeft(Absorbed, s, records))
         /\ FoldLeft(Absorbed, s, records) \in Findings(records, inputs)
<1> DEFINE n == Len(records)
           X == Findings(records, inputs)
           Step(q, v) == Absorbed(v, records[Max(q)])
           F == CHOOSE iter : iter = [q \in SUBSET DOMAIN records |->
                                        IF q = {} THEN s ELSE Step(q, iter[q \ {Max(q)}])]
           step == [p \in X \X (1..n) |-> Absorbed(p[1], records[p[2]])]
<1>1. FoldLeft(Absorbed, s, records) = F[DOMAIN records]
  BY DEF FoldLeft, MapThenFoldSet
<1>2. n \in Nat /\ DOMAIN records = 1..n
  OBVIOUS
<1>3. step \in [X \X (1..n) -> X]
  BY <1>2, AbsorbedIsFinding
<1>4. PICK g \in [SUBSET (1..n) -> X] : \A q \in SUBSET (1..n) :
            g[q] = IF q = {} THEN s ELSE step[<<g[q \ {Max(q)}], Max(q)>>]
  <2>1. n \in Nat /\ IsStep(n, X, s, step)
    BY <1>2, <1>3 DEF IsStep
  <2> HIDE DEF n, step, X
  <2>2. IsFold(n, X, s, step)
    BY <2>1, FoldSolution
  <2> QED BY <2>2 DEF IsFold
<1>5. g = [q \in SUBSET DOMAIN records |-> IF q = {} THEN s ELSE Step(q, g[q \ {Max(q)}])]
  <2>1. ASSUME NEW q \in SUBSET (1..n), q # {} PROVE g[q] = Step(q, g[q \ {Max(q)}])
    <3>1. Max(q) \in 1..n /\ q \ {Max(q)} \in SUBSET (1..n)
      BY <1>2, <2>1, MaxOf
    <3>2. g[q \ {Max(q)}] \in X
      BY <3>1
    <3> HIDE DEF X
    <3> QED BY <1>4, <2>1, <3>1, <3>2
  <2> HIDE DEF n, Step
  <2> QED BY <1>2, <1>4, <2>1
<1>6. F = [q \in SUBSET DOMAIN records |-> IF q = {} THEN s ELSE Step(q, F[q \ {Max(q)}])]
  <2> HIDE DEF Step
  <2>1. \E iter : iter = [q \in SUBSET DOMAIN records |-> IF q = {} THEN s ELSE Step(q, iter[q \ {Max(q)}])]
    BY <1>5
  <2> QED BY <2>1, Zenon
<1> HIDE DEF F, X
<1>7. F[{}] = s
  BY <1>6
<1>8. ASSUME NEW k \in 1..n PROVE F[1..k] = Absorbed(F[1..(k - 1)], records[k])
  <2> HIDE DEF n
  <2>1. 1..k \in SUBSET (1..n) /\ 1..k # {} /\ Max(1..k) = k /\ (1..k) \ {k} = 1..(k - 1)
    BY <1>2, UpTo
  <2> DEFINE S == Step(1..k, F[(1..k) \ {Max(1..k)}])
  <2>2. F[1..k] = S
    <3> HIDE DEF Step
    <3> QED BY <1>2, <1>6, <2>1
  <2>3. S = Absorbed(F[1..(k - 1)], records[k])
    BY <2>1
  <2> QED BY <2>2, <2>3
<1> DEFINE h == [k \in 0..n |-> F[1..k]]
<1>9. h[0] = s
  <2>1. 1..0 = {}
    OBVIOUS
  <2> QED BY <1>2, <1>7, <2>1
<1>10. h[n] = FoldLeft(Absorbed, s, records)
  BY <1>1, <1>2
<1>11. \A k \in 1..n : h[k] = Absorbed(h[k - 1], records[k])
  BY <1>2, <1>8
<1>12. \A k \in 0..n : h[k] \in X
  <2> DEFINE S == {k \in 0..n : h[k] \in X}
  <2>1. 0 \in S
    BY <1>2, <1>9 DEF X
  <2>2. ASSUME NEW k \in 0..(n - 1), k \in S PROVE k + 1 \in S
    <3>1. k + 1 \in 1..n /\ k + 1 \in 0..n /\ (k + 1) - 1 = k
      BY <1>2
    <3>2. h[k + 1] = Absorbed(h[k], records[k + 1])
      BY <1>11, <3>1
    <3> HIDE DEF h
    <3>3. h[k + 1] \in X
      BY <1>2, <2>2, <3>1, <3>2, AbsorbedIsFinding DEF X
    <3> QED BY <3>1, <3>3
  <2> HIDE DEF S, n
  <2>3. 0..n \subseteq S
    BY <1>2, <2>1, <2>2, IntervalInduction
  <2> QED BY <2>3 DEF S
<1>13. h[n] \in X
  BY <1>2, <1>12
<1>14. IsPass(records, s, h[n])
  <2> HIDE DEF h
  <2> QED BY <1>2, <1>9, <1>11 DEF IsPass
<1> HIDE DEF h
<1> QED BY <1>10, <1>13, <1>14 DEF X

\* Every record that names a found input is found, with its inputs.
AllFound(records, s) ==
  \A i \in DOMAIN records : Owners(records[i]) \cap s.inputs # {} =>
    records[i].id \in s.ids /\ Owners(records[i]) \subseteq s.inputs

\* A set of inputs that no record leads out of.
NothingLeadsOut(records, C) ==
  \A i \in DOMAIN records : Owners(records[i]) \cap C # {} => Owners(records[i]) \subseteq C

\* The ids of the records that name an input of C.
Naming(records, C) == {records[i].id : i \in {j \in DOMAIN records : Owners(records[j]) \cap C # {}}}

\* What one pass does: it loses nothing, takes all that was reached before it, and
\* stays in every set that nothing leads out of.
PassFacts(records, s, t) ==
  /\ s.inputs \subseteq t.inputs /\ s.ids \subseteq t.ids
  /\ \A i \in DOMAIN records : Owners(records[i]) \cap s.inputs # {} =>
       records[i].id \in t.ids /\ Owners(records[i]) \subseteq t.inputs
  /\ \A C : NothingLeadsOut(records, C) /\ s.inputs \subseteq C /\ s.ids \subseteq Naming(records, C) =>
       t.inputs \subseteq C /\ t.ids \subseteq Naming(records, C)

LEMMA PassDoes ==
  ASSUME NEW T, NEW records \in Seq(T), NEW s, NEW t, IsPass(records, s, t)
  PROVE  PassFacts(records, s, t)
<1> DEFINE n == Len(records)
<1>1. n \in Nat /\ DOMAIN records = 1..n
  OBVIOUS
<1>2. PICK h : h[0] = s /\ h[n] = t /\ \A k \in 1..n : h[k] = Absorbed(h[k - 1], records[k])
  BY DEF IsPass
<1>3. ASSUME NEW k \in 0..(n - 1)
      PROVE  k + 1 \in 1..n /\ h[k + 1] = Absorbed(h[k], records[k + 1])
  <2>1. k + 1 \in 1..n /\ (k + 1) - 1 = k
    BY <1>1
  <2>2. h[k + 1] = Absorbed(h[(k + 1) - 1], records[k + 1])
    BY <1>2, <2>1
  <2> QED BY <2>1, <2>2
<1> HIDE DEF n
<1>4. ASSUME NEW k \in 0..(n - 1) PROVE h[k].inputs \subseteq h[k + 1].inputs /\ h[k].ids \subseteq h[k + 1].ids
  <2> DEFINE r == records[k + 1]
  <2>1. h[k + 1] = Absorbed(h[k], r)
    BY <1>3
  <2>2. CASE Owners(r) \cap h[k].inputs = {}
    BY <2>1, <2>2 DEF Absorbed
  <2>3. CASE Owners(r) \cap h[k].inputs # {}
    <3>1. h[k + 1].ids = h[k].ids \cup {r.id} /\ h[k + 1].inputs = h[k].inputs \cup Owners(r)
      BY <2>1, <2>3 DEF Absorbed
    <3> QED BY <3>1
  <2> QED BY <2>2, <2>3
\* Everything of one moment is there at all later ones.
<1>5. ASSUME NEW j \in 0..n
      PROVE  \A k \in 0..n : j <= k => h[j].inputs \subseteq h[k].inputs /\ h[j].ids \subseteq h[k].ids
  <2> DEFINE S == {k \in 0..n : j <= k => h[j].inputs \subseteq h[k].inputs /\ h[j].ids \subseteq h[k].ids}
  <2>1. 0 \in S
    BY <1>1
  <2>2. ASSUME NEW k \in 0..(n - 1), k \in S PROVE k + 1 \in S
    <3>1. k + 1 \in 0..n
      BY <1>1
    <3>2. CASE j <= k
      BY <3>1, <3>2, <2>2, <1>4
    <3>3. CASE ~(j <= k)
      <4>1. j <= k + 1 => j = k + 1
        BY <1>1, <3>3
      <4> QED BY <3>1, <4>1
    <3> QED BY <3>2, <3>3
  <2> HIDE DEF S
  <2>3. 0..n \subseteq S
    BY <1>1, <2>1, <2>2, IntervalInduction
  <2> QED BY <2>3 DEF S
<1>6. ASSUME NEW i \in DOMAIN records, Owners(records[i]) \cap s.inputs # {}
      PROVE  records[i].id \in t.ids /\ Owners(records[i]) \subseteq t.inputs
  <2>1. i \in 1..n /\ i - 1 \in 0..(n - 1) /\ (i - 1) + 1 = i /\ i \in 0..n /\ n \in 0..n /\ 0 \in 0..n
        /\ i - 1 \in 0..n /\ 0 <= i - 1 /\ i <= n
    BY <1>1
  <2>2. h[0].inputs \subseteq h[i - 1].inputs
    BY <1>5, <2>1
  <2>3. h[i] = Absorbed(h[i - 1], records[i])
    BY <1>2, <2>1
  <2>4. records[i].id \in h[i].ids /\ Owners(records[i]) \subseteq h[i].inputs
    BY <1>2, <1>6, <2>2, <2>3 DEF Absorbed
  <2>5. h[i].ids \subseteq h[n].ids /\ h[i].inputs \subseteq h[n].inputs
    BY <1>5, <2>1
  <2> QED BY <1>2, <2>4, <2>5
<1>7. ASSUME NEW C, NothingLeadsOut(records, C), s.inputs \subseteq C, s.ids \subseteq Naming(records, C)
      PROVE  t.inputs \subseteq C /\ t.ids \subseteq Naming(records, C)
  <2> DEFINE S == {k \in 0..n : h[k].inputs \subseteq C /\ h[k].ids \subseteq Naming(records, C)}
  <2>1. 0 \in S
    BY <1>1, <1>2, <1>7
  <2>2. ASSUME NEW k \in 0..(n - 1), k \in S PROVE k + 1 \in S
    <3> DEFINE r == records[k + 1]
    <3>1. k + 1 \in DOMAIN records /\ k + 1 \in 0..n /\ h[k + 1] = Absorbed(h[k], r)
      BY <1>1, <1>3
    <3>2. CASE Owners(r) \cap h[k].inputs = {}
      BY <2>2, <3>1, <3>2 DEF Absorbed
    <3>3. CASE Owners(r) \cap h[k].inputs # {}
      <4>1. h[k].inputs \subseteq C /\ h[k].ids \subseteq Naming(records, C)
        BY <2>2
      <4>2. Owners(r) \cap C # {}
        BY <3>3, <4>1
      <4>3. Owners(r) \subseteq C
        BY <1>7, <3>1, <4>2 DEF NothingLeadsOut
      <4>4. r.id \in Naming(records, C)
        BY <3>1, <4>2 DEF Naming
      <4>5. h[k + 1].ids = h[k].ids \cup {r.id} /\ h[k + 1].inputs = h[k].inputs \cup Owners(r)
        BY <3>1, <3>3 DEF Absorbed
      <4> QED BY <3>1, <4>1, <4>3, <4>4, <4>5
    <3> QED BY <3>2, <3>3
  <2> HIDE DEF S
  <2>3. 0..n \subseteq S
    BY <1>1, <2>1, <2>2, IntervalInduction
  <2>4. n \in 0..n
    BY <1>1
  <2> QED BY <1>2, <2>3, <2>4 DEF S
<1>8. s.inputs \subseteq t.inputs /\ s.ids \subseteq t.ids
  <2>1. 0 \in 0..n /\ n \in 0..n /\ 0 <= n
    BY <1>1
  <2> QED BY <1>2, <1>5, <2>1
<1> QED BY <1>6, <1>7, <1>8 DEF PassFacts

\* The passes of Connection.
LEMMA ConnectionPasses ==
  ASSUME NEW T, NEW records \in Seq(T), NEW inputs
  PROVE  \E p : /\ p[0] = [ids |-> {}, inputs |-> inputs]
                /\ p[Len(records)] = Connection(records, inputs)
                /\ \A k \in 1..Len(records) : PassFacts(records, p[k - 1], p[k])
<1> DEFINE n == Len(records)
           X == Findings(records, inputs)
           none == [ids |-> {}, inputs |-> inputs]
           Pass(s) == FoldLeft(Absorbed, s, records)
           F == CHOOSE p : p = [k \in 0..n |-> IF k = 0 THEN none ELSE Pass(p[k - 1])]
           step == [q \in X \X (1..n) |-> Pass(q[1])]
<1>1. Connection(records, inputs) = F[n]
  BY DEF Connection
<1>2. n \in Nat
  OBVIOUS
<1>3. none \in X
  BY DEF Findings
<1>4. \A s \in X : Pass(s) \in X /\ IsPass(records, s, Pass(s))
  BY FoldIsPass
<1> HIDE DEF n, X, Pass, none
<1>5. step \in [X \X (1..n) -> X]
  BY <1>4
<1>6. PICK h \in [0..n -> X] : h[0] = none /\ \A k \in 1..n : h[k] = step[<<h[k - 1], k>>]
  <2>1. IsStep(n, X, none, step)
    BY <1>3, <1>5 DEF IsStep
  <2> HIDE DEF step
  <2>2. IsLine(n, X, none, step)
    BY <1>2, <2>1, LineExists
  <2> QED BY <2>2 DEF IsLine
<1>7. \A k \in 1..n : h[k - 1] \in X /\ h[k] = Pass(h[k - 1])
  <2>1. ASSUME NEW k \in 1..n PROVE h[k - 1] \in X
    <3>1. k - 1 \in 0..n
      BY <1>2
    <3> QED BY <3>1
  <2> QED BY <1>6, <2>1
<1>8. h = [k \in 0..n |-> IF k = 0 THEN none ELSE Pass(h[k - 1])]
  <2>1. ASSUME NEW k \in 0..n PROVE h[k] = IF k = 0 THEN none ELSE Pass(h[k - 1])
    <3>1. k = 0 \/ k \in 1..n
      BY <1>2
    <3> QED BY <3>1, <1>6, <1>7
  <2> QED BY <2>1
<1>9. F = [k \in 0..n |-> IF k = 0 THEN none ELSE Pass(F[k - 1])]
  BY <1>8
<1> HIDE DEF F
<1>10. F[0] = none /\ \A k \in 1..n : F[k] = Pass(F[k - 1])
  <2>1. 0 \in 0..n /\ \A k \in 1..n : k \in 0..n /\ k # 0
    BY <1>2
  <2> QED BY <1>9, <2>1
<1>11. \A k \in 0..n : F[k] \in X
  <2> DEFINE S == {k \in 0..n : F[k] \in X}
  <2>1. 0 \in S
    BY <1>2, <1>3, <1>10
  <2>2. ASSUME NEW k \in 0..(n - 1), k \in S PROVE k + 1 \in S
    <3>1. k + 1 \in 1..n /\ k + 1 \in 0..n /\ (k + 1) - 1 = k
      BY <1>2
    <3>2. F[k + 1] = Pass(F[k])
      BY <1>10, <3>1
    <3> QED BY <1>4, <2>2, <3>1, <3>2
  <2> HIDE DEF S
  <2>3. 0..n \subseteq S
    BY <1>2, <2>1, <2>2, IntervalInduction
  <2> QED BY <2>3 DEF S
<1>12. ASSUME NEW k \in 1..n PROVE PassFacts(records, F[k - 1], F[k])
  <2>1. k - 1 \in 0..n
    BY <1>2
  <2>2. IsPass(records, F[k - 1], F[k])
    BY <1>4, <1>10, <1>11, <2>1
  <2> QED BY <2>2, PassDoes
<1> QED BY <1>1, <1>10, <1>12 DEF n, none

\* The records that name an input found so far.
Touched(records, s) == {i \in DOMAIN records : Owners(records[i]) \cap s.inputs # {}}

\* s is what connects with `inputs`: it has every record that names an input of it,
\* with all the inputs of these, and nothing else.
IsClosure(records, inputs, s) ==
  /\ inputs \subseteq s.inputs
  /\ NothingLeadsOut(records, s.inputs)
  /\ s.ids = Naming(records, s.inputs)
  /\ \A C : NothingLeadsOut(records, C) /\ inputs \subseteq C => s.inputs \subseteq C

\* As many passes as there are records find everything: a pass that touches no new
\* record has found all, and each other pass touches one more.
LEMMA ConnectionIsClosure ==
  ASSUME NEW T, NEW records \in Seq(T), NEW inputs
  PROVE  IsClosure(records, inputs, Connection(records, inputs))
<1> DEFINE n == Len(records)
<1>1. n \in Nat /\ DOMAIN records = 1..n
  OBVIOUS
<1>2. PICK p : /\ p[0] = [ids |-> {}, inputs |-> inputs]
               /\ p[n] = Connection(records, inputs)
               /\ \A k \in 1..n : PassFacts(records, p[k - 1], p[k])
  BY ConnectionPasses
<1>3. ASSUME NEW k \in 0..(n - 1)
      PROVE  k + 1 \in 1..n /\ k + 1 \in 0..n /\ k \in 0..n /\ PassFacts(records, p[k], p[k + 1])
  <2>1. k + 1 \in 1..n /\ (k + 1) - 1 = k /\ k + 1 \in 0..n /\ k \in 0..n
    BY <1>1
  <2>2. PassFacts(records, p[(k + 1) - 1], p[k + 1])
    BY <1>2, <2>1
  <2> QED BY <2>1, <2>2
<1> HIDE DEF n
<1>4. \A k \in 0..n : IsFiniteSet(Touched(records, p[k])) /\ Cardinality(Touched(records, p[k])) \in 0..n
  <2>1. IsFiniteSet(1..n) /\ Cardinality(1..n) = n
    BY <1>1, FS_Interval
  <2>2. ASSUME NEW k \in 0..n
        PROVE  IsFiniteSet(Touched(records, p[k])) /\ Cardinality(Touched(records, p[k])) \in 0..n
    <3>1. Touched(records, p[k]) \subseteq 1..n
      BY <1>1 DEF Touched
    <3>2. IsFiniteSet(Touched(records, p[k])) /\ Cardinality(Touched(records, p[k])) <= n
      BY <2>1, <3>1, FS_Subset
    <3> QED BY <1>1, <3>2, FS_CardinalityType
  <2> QED BY <2>2
<1>5. ASSUME NEW k \in 0..(n - 1), Touched(records, p[k + 1]) \subseteq Touched(records, p[k])
      PROVE  AllFound(records, p[k + 1])
  <2>1. PassFacts(records, p[k], p[k + 1])
    BY <1>3
  <2> QED BY <1>5, <2>1 DEF PassFacts, AllFound, Touched
\* The passes stay in every set that nothing leads out of.
<1>7. ASSUME NEW C, NothingLeadsOut(records, C), inputs \subseteq C
      PROVE  \A k \in 0..n : p[k].inputs \subseteq C /\ p[k].ids \subseteq Naming(records, C)
  <2> DEFINE S == {k \in 0..n : p[k].inputs \subseteq C /\ p[k].ids \subseteq Naming(records, C)}
  <2>1. 0 \in S
    BY <1>1, <1>2, <1>7
  <2>2. ASSUME NEW k \in 0..(n - 1), k \in S PROVE k + 1 \in S
    <3>1. k + 1 \in 0..n /\ PassFacts(records, p[k], p[k + 1])
      BY <1>3
    <3>2. p[k].inputs \subseteq C /\ p[k].ids \subseteq Naming(records, C)
      BY <2>2
    <3> HIDE DEF S
    <3>3. p[k + 1].inputs \subseteq C /\ p[k + 1].ids \subseteq Naming(records, C)
      BY <1>7, <3>1, <3>2 DEF PassFacts
    <3> QED BY <3>1, <3>3 DEF S
  <2> HIDE DEF S
  <2>3. 0..n \subseteq S
    BY <1>1, <2>1, <2>2, IntervalInduction
  <2> QED BY <2>3 DEF S
<1>8. \A k \in 0..n : inputs \subseteq p[k].inputs
  <2> DEFINE S == {k \in 0..n : inputs \subseteq p[k].inputs}
  <2>1. 0 \in S
    BY <1>1, <1>2
  <2>2. ASSUME NEW k \in 0..(n - 1), k \in S PROVE k + 1 \in S
    BY <1>3, <2>2 DEF PassFacts
  <2> HIDE DEF S
  <2>3. 0..n \subseteq S
    BY <1>1, <2>1, <2>2, IntervalInduction
  <2> QED BY <2>3 DEF S
\* Where all is found, it is found with its own records only.
<1>9. ASSUME NEW k \in 0..n, AllFound(records, p[k])
      PROVE  NothingLeadsOut(records, p[k].inputs) /\ p[k].ids = Naming(records, p[k].inputs)
  <2>1. NothingLeadsOut(records, p[k].inputs)
    BY <1>9 DEF AllFound, NothingLeadsOut
  <2>2. p[k].ids \subseteq Naming(records, p[k].inputs)
    BY <1>7, <1>8, <2>1
  <2>3. Naming(records, p[k].inputs) \subseteq p[k].ids
    BY <1>9 DEF AllFound, Naming
  <2> QED BY <2>1, <2>2, <2>3
<1>10. ASSUME NEW k \in 0..(n - 1), AllFound(records, p[k]) PROVE AllFound(records, p[k + 1])
  <2>1. k \in 0..n /\ PassFacts(records, p[k], p[k + 1])
    BY <1>3
  <2>2. NothingLeadsOut(records, p[k].inputs) /\ p[k].ids = Naming(records, p[k].inputs)
    BY <1>9, <1>10, <2>1
  <2>3. p[k + 1].inputs \subseteq p[k].inputs
    BY <2>1, <2>2 DEF PassFacts
  <2>4. Touched(records, p[k + 1]) \subseteq Touched(records, p[k])
    BY <2>3 DEF Touched
  <2> QED BY <2>4, <1>5
<1>11. AllFound(records, p[n])
  <2> DEFINE S == {k \in 0..n : AllFound(records, p[k]) \/ Cardinality(Touched(records, p[k])) >= k + 1}
  <2>1. 0 \in S
    <3>1. 0 \in 0..n
      BY <1>1
    <3>2. CASE Touched(records, p[0]) = {}
      BY <3>1, <3>2 DEF Touched, AllFound
    <3>3. CASE Touched(records, p[0]) # {}
      <4>1. IsFiniteSet(Touched(records, p[0])) /\ Cardinality(Touched(records, p[0])) \in Nat
        BY <1>1, <1>4, <3>1
      <4>2. Cardinality(Touched(records, p[0])) # 0
        BY <3>3, <4>1, FS_EmptySet
      <4> QED BY <3>1, <4>1, <4>2
    <3> QED BY <3>2, <3>3
  <2>2. ASSUME NEW k \in 0..(n - 1), k \in S PROVE k + 1 \in S
    <3>1. k \in 0..n /\ k + 1 \in 0..n /\ k \in Nat /\ PassFacts(records, p[k], p[k + 1])
      BY <1>1, <1>3
    <3>2. CASE AllFound(records, p[k + 1])
      BY <3>1, <3>2
    <3>3. CASE ~AllFound(records, p[k + 1])
      <4> DEFINE A == Touched(records, p[k])
                 B == Touched(records, p[k + 1])
      <4>1. Cardinality(A) >= k + 1
        BY <1>10, <2>2, <3>3
      <4>2. ~(B \subseteq A)
        BY <1>5, <3>3
      <4>3. A \subseteq B
        BY <3>1 DEF PassFacts, Touched
      <4>4. IsFiniteSet(B) /\ Cardinality(A) \in Nat /\ Cardinality(B) \in Nat
        BY <1>1, <1>4, <3>1
      <4> HIDE DEF A, B
      <4>5. Cardinality(A) <= Cardinality(B) /\ Cardinality(A) # Cardinality(B)
        BY <4>2, <4>3, <4>4, FS_Subset
      <4>6. Cardinality(B) >= (k + 1) + 1
        BY <3>1, <4>1, <4>4, <4>5
      <4> QED BY <3>1, <4>6 DEF B
    <3> QED BY <3>2, <3>3
  <2> HIDE DEF S
  <2>3. 0..n \subseteq S
    BY <1>1, <2>1, <2>2, IntervalInduction
  <2>4. n \in 0..n
    BY <1>1
  <2>5. AllFound(records, p[n]) \/ Cardinality(Touched(records, p[n])) >= n + 1
    BY <2>3, <2>4 DEF S
  <2>6. Cardinality(Touched(records, p[n])) \in 0..n
    BY <1>4, <2>4
  <2> QED BY <1>1, <2>5, <2>6
<1> QED
  <2>1. n \in 0..n
    BY <1>1
  <2>2. NothingLeadsOut(records, p[n].inputs) /\ p[n].ids = Naming(records, p[n].inputs)
    BY <1>9, <1>11, <2>1
  <2>3. IsClosure(records, inputs, p[n])
    BY <1>7, <1>8, <2>1, <2>2 DEF IsClosure
  <2> QED BY <1>2, <2>3

\* What an input connects with is what connects with it alone.
LEMMA ConnectedInputs ==
  ASSUME NEW T, NEW records \in Seq(T), NEW n
  PROVE  ConnectedBy(records, n) = Connection(records, {n}).inputs
<1> DEFINE s == Connection(records, {n})
           nodes == {n} \cup UNION {Owners(records[i]) : i \in DOMAIN records}
<1>1. IsClosure(records, {n}, s)
  BY ConnectionIsClosure
<1> HIDE DEF s
<1>2. NothingLeadsOut(records, nodes) /\ {n} \subseteq nodes
  BY DEF NothingLeadsOut
<1>3. s.inputs \subseteq nodes
  BY <1>1, <1>2 DEF IsClosure
<1>4. ConnectedBy(records, n) =
        {m \in nodes : \A S \in SUBSET nodes : n \in S /\ NothingLeadsOut(records, S) => m \in S}
  BY DEF ConnectedBy, NothingLeadsOut
<1> HIDE DEF nodes
<1>5. \A S \in SUBSET nodes : n \in S /\ NothingLeadsOut(records, S) => s.inputs \subseteq S
  BY <1>1 DEF IsClosure
<1>6. s.inputs \in SUBSET nodes /\ n \in s.inputs /\ NothingLeadsOut(records, s.inputs)
  BY <1>1, <1>3 DEF IsClosure
<1> QED
  BY <1>4, <1>5, <1>6 DEF s

-----------------------------------------------------------------------------
(* The choice among candidates.                                            *)

\* What is kept of a sequence by a test on its elements.
LEMMA Picking ==
  ASSUME NEW T, NEW s \in Seq(T), s # << >>, NEW k \in Nat
  PROVE  \E i \in DOMAIN s : PickFrom(s, k) = s[i]
<1>1. Len(s) \in Nat /\ DOMAIN s = 1..Len(s) /\ Len(s) # 0
  OBVIOUS
<1>2. k % Len(s) \in 0..(Len(s) - 1)
  BY <1>1
<1> QED
  BY <1>1, <1>2 DEF PickFrom

\* The statistics of an arm.
IsScore(x) == x.attempts \in Nat /\ x.rewards \in 0..x.attempts
AreScores(score) == \A arm \in DOMAIN score : IsScore(score[arm])

LEMMA ScoreIsScore ==
  ASSUME NEW score, AreScores(score), NEW arm
  PROVE  IsScore(Score(score, arm))
BY DEF AreScores, IsScore, Score

LEMMA Scaled ==
  ASSUME NEW x \in Int, NEW y \in Int, NEW z \in Nat, z > 0, x > y
  PROVE  x * z > y * z
<1>1. x * z = y * z + (x - y) * z
  OBVIOUS
<1>2. (x - y) * z > 0
  OBVIOUS
<1> QED BY <1>1, <1>2

\* "No better than" is an order on the statistics: what is no better than b is no
\* better than what b is worse than.
LEMMA BetterIsAnOrder ==
  ASSUME NEW a, NEW b, NEW c, IsScore(a), IsScore(b), IsScore(c)
  PROVE  /\ ~BetterMean(a, a)
         /\ ~BetterMean(a, b) /\ BetterMean(c, b) => ~BetterMean(a, c)
<1>1. ~BetterMean(a, a)
  BY DEF IsScore, BetterMean
<1>2. SUFFICES ASSUME ~BetterMean(a, b), BetterMean(c, b), BetterMean(a, c) PROVE FALSE
  BY <1>1
<1> DEFINE A == a.attempts  ra == a.rewards
           B == b.attempts  rb == b.rewards
           C == c.attempts  rc == c.rewards
<1>3. A \in Nat /\ B \in Nat /\ C \in Nat /\ ra \in Nat /\ rb \in Nat /\ rc \in Nat
      /\ ra <= A /\ rb <= B /\ rc <= C
  BY DEF IsScore
<1>4. (IF B = 0 THEN rc > 0 ELSE C > 0 /\ rc * B > rb * C)
      /\ ~(IF B = 0 THEN ra > 0 ELSE A > 0 /\ ra * B > rb * A)
      /\ (IF C = 0 THEN ra > 0 ELSE A > 0 /\ ra * C > rc * A)
  BY <1>2 DEF BetterMean
<1> HIDE DEF A, B, C, ra, rb, rc
<1>5. CASE B = 0
  <2>1. ra = 0 /\ C > 0 /\ rc > 0
    BY <1>3, <1>4, <1>5
  <2>2. 0 * C > rc * A
    BY <1>4, <2>1
  <2>3. rc * A >= 0
    BY <1>3
  <2> QED BY <1>3, <2>2, <2>3
<1>6. CASE B # 0
  <2>1. B > 0 /\ C > 0 /\ A > 0
    BY <1>3, <1>4, <1>6
  <2>2. rc * B > rb * C /\ ~(ra * B > rb * A) /\ ra * C > rc * A
    BY <1>4, <1>6, <2>1
  <2>3. (rc * B) * A > (rb * C) * A
    <3>1. rc * B \in Int /\ rb * C \in Int
      BY <1>3
    <3> QED BY <1>3, <2>1, <2>2, <3>1, Scaled
  <2>4. (ra * C) * B > (rc * A) * B
    <3>1. ra * C \in Int /\ rc * A \in Int
      BY <1>3
    <3> QED BY <1>3, <2>1, <2>2, <3>1, Scaled
  <2>5. ~((ra * B) * C > (rb * A) * C)
    <3>1. ra * B \in Int /\ rb * A \in Int
      BY <1>3
    <3>2. ra * B = rb * A \/ rb * A > ra * B
      BY <2>2, <3>1
    <3>3. rb * A > ra * B => (rb * A) * C > (ra * B) * C
      BY <1>3, <2>1, <3>1, Scaled
    <3>4. (ra * B) * C \in Int /\ (rb * A) * C \in Int
      BY <1>3, <3>1
    <3> QED BY <3>2, <3>3, <3>4
  <2>6. (rc * B) * A = (rc * A) * B /\ (ra * C) * B = (ra * B) * C /\ (rb * C) * A = (rb * A) * C
    BY <1>3
  <2> HIDE DEF A
  <2>7. (rc * B) * A \in Int /\ (ra * C) * B \in Int /\ (rb * C) * A \in Int
    BY <1>3
  <2> QED BY <2>3, <2>4, <2>5, <2>6, <2>7
<1> QED BY <1>5, <1>6

\* Among some statistics there are best ones.
LEMMA BestExists ==
  ASSUME NEW n \in Nat \ {0}, NEW sc, \A i \in 1..n : IsScore(sc[i])
  PROVE  \E i \in 1..n : \A j \in 1..n : ~BetterMean(sc[j], sc[i])
<1> DEFINE Best(i, k) == i \in 1..k /\ \A j \in 1..k : ~BetterMean(sc[j], sc[i])
           S == {k \in 0..(n - 1) : \E i \in 1..(k + 1) : Best(i, k + 1)}
<1>1. 0 \in S
  <2>1. 0 \in 0..(n - 1) /\ 1 \in 1..n /\ \A j \in 1..(0 + 1) : j = 1
    OBVIOUS
  <2>2. ~BetterMean(sc[1], sc[1])
    BY <2>1, BetterIsAnOrder
  <2> QED BY <2>1, <2>2
<1>2. ASSUME NEW k \in 0..((n - 1) - 1), k \in S PROVE k + 1 \in S
  <2> DEFINE m == (k + 1) + 1
  <2>1. k + 1 \in 0..(n - 1) /\ m \in 1..n /\ m \in 1..m /\ \A j \in 1..m : j = m \/ j \in 1..(k + 1)
    OBVIOUS
  <2>2. PICK i \in 1..(k + 1) : Best(i, k + 1)
    BY <1>2
  <2>3. i \in 1..n /\ i \in 1..m /\ \A j \in 1..m : j \in 1..n
    OBVIOUS
  <2> HIDE DEF m
  <2>4. CASE BetterMean(sc[m], sc[i])
    <3>1. ASSUME NEW j \in 1..m PROVE ~BetterMean(sc[j], sc[m])
      <4>1. CASE j = m
        BY <2>1, <4>1, BetterIsAnOrder
      <4>2. CASE j \in 1..(k + 1)
        <5>1. ~BetterMean(sc[j], sc[i])
          BY <2>2, <4>2
        <5>2. IsScore(sc[j]) /\ IsScore(sc[i]) /\ IsScore(sc[m])
          BY <2>1, <2>3
        <5> QED BY <2>4, <5>1, <5>2, BetterIsAnOrder
      <4> QED BY <2>1, <4>1, <4>2
    <3>2. Best(m, m)
      BY <2>1, <3>1
    <3> QED BY <2>1, <3>2 DEF m
  <2>5. CASE ~BetterMean(sc[m], sc[i])
    <3>1. Best(i, m)
      BY <2>1, <2>2, <2>3, <2>5
    <3> QED BY <2>1, <2>3, <3>1 DEF m
  <2> QED BY <2>4, <2>5
<1> HIDE DEF S
<1>3. 0..(n - 1) \subseteq S
  BY <1>1, <1>2, IntervalInduction
<1>4. n - 1 \in 0..(n - 1) /\ (n - 1) + 1 = n
  OBVIOUS
<1>5. \E i \in 1..((n - 1) + 1) : Best(i, (n - 1) + 1)
  BY <1>3, <1>4 DEF S
<1> QED BY <1>4, <1>5

\* A candidate that is chosen: one of them, and a best one unless arms are explored.
IsChoice(candidates, kind, n, score, draws, x) ==
  /\ \E i \in DOMAIN candidates : x = candidates[i]
  /\ draws.explore \/ \A j \in DOMAIN candidates :
       ~BetterMean(Score(score, <<kind, n, candidates[j]>>), Score(score, <<kind, n, x>>))

LEMMA EpsilonGreedyChooses ==
  ASSUME NEW T, NEW candidates \in Seq(T), candidates # << >>, NEW kind, NEW n,
         NEW score, AreScores(score), NEW draws, draws.pick \in Nat
  PROVE  IsChoice(candidates, kind, n, score, draws, EpsilonGreedy(candidates, kind, n, score, draws))
<1> DEFINE x == EpsilonGreedy(candidates, kind, n, score, draws)
           Sc(y) == Score(score, <<kind, n, y>>)
           S == {i \in DOMAIN candidates : \A j \in DOMAIN candidates :
                   ~BetterMean(Sc(candidates[j]), Sc(candidates[i]))}
<1>1. Greedy(candidates, kind, n, score) = ElementsAt(candidates, S)
  BY DEF Greedy, Filter
<1>2. Len(candidates) \in Nat \ {0} /\ DOMAIN candidates = 1..Len(candidates)
  OBVIOUS
<1>3. S # {}
  <2> DEFINE sc == [i \in 1..Len(candidates) |-> Sc(candidates[i])]
  <2>1. \A i \in 1..Len(candidates) : IsScore(sc[i])
    BY ScoreIsScore
  <2>2. \E i \in 1..Len(candidates) : \A j \in 1..Len(candidates) : ~BetterMean(sc[j], sc[i])
    <3> HIDE DEF sc
    <3> QED BY <1>2, <2>1, BestExists
  <2> HIDE DEF Sc
  <2> QED BY <1>2, <2>2
<1>4. CASE draws.explore
  <2>1. x = PickFrom(candidates, draws.pick)
    BY <1>4 DEF EpsilonGreedy
  <2>2. \E i \in DOMAIN candidates : x = candidates[i]
    BY <2>1, Picking
  <2> QED BY <1>4, <2>2 DEF IsChoice
<1>5. CASE ~draws.explore
  <2> DEFINE e == ElementsAt(candidates, S)
  <2>1. x = PickFrom(e, draws.pick)
    BY <1>1, <1>5 DEF EpsilonGreedy
  <2> HIDE DEF S
  <2>2. e \in Seq(T) /\ e # << >> /\ \A k \in DOMAIN e : \E i \in S : e[k] = candidates[i]
    <3>1. S \in SUBSET (DOMAIN candidates)
      BY DEF S
    <3> QED BY <1>3, <3>1, Elements
  <2> HIDE DEF e
  <2>3. \E k \in DOMAIN e : x = e[k]
    BY <2>1, <2>2, Picking
  <2>4. PICK i \in S : x = candidates[i]
    BY <2>2, <2>3
  <2> HIDE DEF x
  <2>5. i \in DOMAIN candidates /\ \A j \in DOMAIN candidates : ~BetterMean(Sc(candidates[j]), Sc(x))
    BY <2>4 DEF S
  <2> QED BY <2>4, <2>5 DEF IsChoice, x
<1> QED BY <1>4, <1>5

\* A configuration that a slot may choose from.
IsConfig(config) ==
  /\ IsSequence(config.negative)
  /\ \A n \in DOMAIN config.positive : IsSequence(config.positive[n]) /\ config.positive[n] # << >>

\* What Choose promises of what it chose.
Faithful(config, records, mode, score, choice, s) ==
  /\ mode = "happy_path" => s.action = "happy_path" /\ s.ignored = {}
  /\ s.action = "ignored_constraint" => \E i \in DOMAIN records : s.ignored = {records[i].id}
  /\ s.action = "negative_generator" =>
       /\ s.ignored = AssociatedConstraints(records, s.negative.node)
       /\ IsChoice(NegativesOf(config, s.negative.node), "negative", s.negative.node, score, choice, s.negative)
  /\ \A n \in DOMAIN s.positive :
       /\ n \in DOMAIN config.positive
       /\ s.generators[n] = s.positive[n]
       /\ IsChoice(config.positive[n], "positive", n, score, choice, s.positive[n])
  /\ DOMAIN s.generators = DOMAIN config.positive
  /\ \A n \in DOMAIN config.positive \ DOMAIN s.positive :
       /\ s.action = "negative_generator" /\ n = s.negative.node
       /\ s.generators[n].strategy = s.negative.strategy

LEMMA ChoiceIsFaithful ==
  ASSUME NEW config, IsConfig(config), NEW ids, IsSequence(ids), NEW records, IsSequence(records),
         NEW mode, NEW score, AreScores(score), NEW choice, choice.pick \in Nat,
         Choose(config, ids, records, mode, score, choice) # Skipped
  PROVE  Faithful(config, records, mode, score, choice,
                  Choose(config, ids, records, mode, score, choice)[2])
<1> DEFINE action == IF mode = "happy_path" THEN "happy_path"
                     ELSE IF choice.negative THEN "negative_generator" ELSE "ignored_constraint"
           I == {i \in DOMAIN ids : ids[i] \in NegativeInputs(config)}
           inputs == ElementsAt(ids, I)
           target == PickFrom(inputs, choice.pick)
           negative == EpsilonGreedy(NegativesOf(config, target), "negative", target, score, choice)
           ignored == CASE action = "happy_path" -> {}
                        [] action = "negative_generator" -> AssociatedConstraints(records, target)
                        [] action = "ignored_constraint" -> {PickFrom(records, choice.pick).id}
           kept == Filter(records, LAMBDA r : r.id \notin ignored)
           positive_ == DOMAIN config.positive \ (IF action = "negative_generator" THEN {target} ELSE {})
           chosen == [n \in positive_ |->
                        EpsilonGreedy(config.positive[n], "positive", n, score, choice)]
           s == [action |-> action, positive |-> chosen,
                 negative |-> IF action = "negative_generator" THEN negative ELSE NoChoice,
                 generators |-> [n \in DOMAIN config.positive |->
                   IF n \in positive_ THEN chosen[n]
                   ELSE [chance |-> negative.chance, strategy |-> negative.strategy]],
                 ignored |-> ignored,
                 constraints |-> FlattenSeq([i \in DOMAIN kept |-> kept[i].constraints])]
           missing == \/ action = "negative_generator" /\ inputs = << >>
                      \/ action = "ignored_constraint" /\ records = << >>
<1>1. Choose(config, ids, records, mode, score, choice) = IF missing THEN Skipped ELSE <<"selected", s>>
  BY DEF Choose, Filter
<1>2. ~missing /\ Choose(config, ids, records, mode, score, choice)[2] = s
  <2> HIDE DEF missing, s
  <2> QED BY <1>1
<1>3. /\ s.action = action /\ s.positive = chosen /\ s.ignored = ignored
      /\ (action = "negative_generator" => s.negative = negative)
      /\ \A n \in positive_ : s.generators[n] = chosen[n]
      /\ DOMAIN s.generators = DOMAIN config.positive
      /\ \A n \in DOMAIN config.positive \ positive_ : s.generators[n].strategy = negative.strategy
  <2> HIDE DEF chosen, action, ignored, negative, kept
  <2>1. positive_ \subseteq DOMAIN config.positive
    OBVIOUS
  <2> HIDE DEF positive_
  <2> QED BY <2>1
<1>4. mode = "happy_path" => action = "happy_path" /\ ignored = {}
  OBVIOUS
<1>5. action = "ignored_constraint" => \E i \in DOMAIN records : ignored = {records[i].id}
  <2> SUFFICES ASSUME action = "ignored_constraint" PROVE \E i \in DOMAIN records : ignored = {records[i].id}
    OBVIOUS
  <2>1. records # << >> /\ records \in Seq(ToSet(records))
    BY <1>2 DEF IsSequence
  <2>2. ignored = {PickFrom(records, choice.pick).id}
    OBVIOUS
  <2> HIDE DEF ignored, action
  <2>3. PICK i \in DOMAIN records : PickFrom(records, choice.pick) = records[i]
    BY <2>1, Picking
  <2> QED BY <2>2, <2>3
<1>6. action = "negative_generator" =>
        /\ ignored = AssociatedConstraints(records, target)
        /\ negative.node = target
        /\ IsChoice(NegativesOf(config, target), "negative", target, score, choice, negative)
  <2> SUFFICES ASSUME action = "negative_generator"
               PROVE  /\ ignored = AssociatedConstraints(records, target)
                      /\ negative.node = target
                      /\ IsChoice(NegativesOf(config, target), "negative", target, score, choice, negative)
    OBVIOUS
  <2>1. inputs # << >> /\ ids \in Seq(ToSet(ids))
    BY <1>2 DEF IsSequence
  <2>2. ignored = AssociatedConstraints(records, target)
    OBVIOUS
  <2> HIDE DEF ignored, action
  <2>3. \E k \in DOMAIN inputs : target = inputs[k]
    <3>1. inputs \in Seq(ToSet(ids))
      BY <2>1, Elements
    <3> HIDE DEF inputs
    <3> QED BY <2>1, <3>1, Picking
  <2>4. target \in NegativeInputs(config)
    <3>1. I \in SUBSET (DOMAIN ids) /\ \A i \in I : ids[i] \in NegativeInputs(config)
      OBVIOUS
    <3> HIDE DEF I
    <3>2. \A k \in DOMAIN inputs : \E i \in I : inputs[k] = ids[i]
      BY <2>1, <3>1, Elements
    <3> HIDE DEF inputs, target
    <3> QED BY <2>3, <3>1, <3>2
  <2> HIDE DEF target
  <2> DEFINE N == {i \in DOMAIN config.negative : config.negative[i].node = target}
             ns == NegativesOf(config, target)
  <2>5. ns = ElementsAt(config.negative, N)
    BY DEF NegativesOf, Filter
  <2>6. N # {} /\ config.negative \in Seq(ToSet(config.negative))
    BY <2>4 DEF NegativeInputs, IsConfig, IsSequence
  <2>7. /\ ns \in Seq(ToSet(config.negative)) /\ ns # << >>
        /\ \A k \in DOMAIN ns : \E i \in N : ns[k] = config.negative[i]
    <3> HIDE DEF ns
    <3>1. N \in SUBSET (DOMAIN config.negative)
      OBVIOUS
    <3> HIDE DEF N
    <3> QED BY <2>5, <2>6, <3>1, Elements
  <2>8. IsChoice(ns, "negative", target, score, choice, negative)
    <3> HIDE DEF ns
    <3>1. IsChoice(ns, "negative", target, score, choice,
                   EpsilonGreedy(ns, "negative", target, score, choice))
      BY <2>7, EpsilonGreedyChooses
    <3> QED BY <3>1 DEF ns
  <2> HIDE DEF ns, negative
  <2>9. negative.node = target
    BY <2>7, <2>8 DEF IsChoice
  <2> QED BY <2>2, <2>8, <2>9 DEF ns
<1>7. ASSUME NEW n \in positive_
      PROVE  n \in DOMAIN config.positive /\ IsChoice(config.positive[n], "positive", n, score, choice, chosen[n])
  <2>1. n \in DOMAIN config.positive
    OBVIOUS
  <2>2. chosen[n] = EpsilonGreedy(config.positive[n], "positive", n, score, choice)
    OBVIOUS
  <2> HIDE DEF chosen, positive_
  <2>3. config.positive[n] \in Seq(ToSet(config.positive[n])) /\ config.positive[n] # << >>
    BY <2>1 DEF IsConfig, IsSequence
  <2> QED BY <2>1, <2>2, <2>3, EpsilonGreedyChooses
<1>8. /\ DOMAIN s.positive = positive_
      /\ \A n \in DOMAIN config.positive \ positive_ : action = "negative_generator" /\ n = target
  <2>1. DOMAIN s.positive = positive_
    BY <1>3
  <2> HIDE DEF s, action, target
  <2> QED BY <2>1
<1> HIDE DEF s, action, negative, ignored, chosen, positive_, target, inputs, missing
<1>9. \A n \in DOMAIN config.positive \ DOMAIN s.positive :
        /\ s.action = "negative_generator" /\ n = s.negative.node
        /\ s.generators[n].strategy = s.negative.strategy
  BY <1>3, <1>6, <1>8
<1>10. \A n \in DOMAIN s.positive :
         /\ n \in DOMAIN config.positive
         /\ s.generators[n] = s.positive[n]
         /\ IsChoice(config.positive[n], "positive", n, score, choice, s.positive[n])
  BY <1>3, <1>7, <1>8
<1>11. Faithful(config, records, mode, score, choice, s)
  BY <1>3, <1>4, <1>5, <1>6, <1>9, <1>10 DEF Faithful
<1> QED BY <1>2, <1>11

-----------------------------------------------------------------------------
(* What a Patch leaves.                                                    *)

LEMMA MappedIsSequence ==
  ASSUME NEW n \in Nat, NEW f, f = [i \in 1..n |-> f[i]]
  PROVE  IsSequence(f) /\ Len(f) = n
<1>1. DOMAIN f = 1..n /\ \A i \in 1..n : f[i] \in ToSet(f)
  BY DEF ToSet
<1> QED BY <1>1 DEF IsSequence

LEMMA SequenceIsSequence ==
  ASSUME NEW T, NEW s \in Seq(T)
  PROVE  IsSequence(s) /\ Len(s) \in Nat /\ DOMAIN s = 1..Len(s)
<1>1. Len(s) \in Nat /\ s = [i \in 1..Len(s) |-> s[i]] /\ DOMAIN s = 1..Len(s)
  OBVIOUS
<1> HIDE DEF IsSequence
<1> QED BY <1>1, MappedIsSequence

\* A sorted sequence has the same elements.
LEMMA SortedKeeps ==
  ASSUME NEW s, IsSequence(s)
  PROVE  IsSequence(Sorted(s)) /\ ToSet(Sorted(s)) = ToSet(s)
<1> DEFINE P == Bijection(DOMAIN s, DOMAIN s)
           S == {[i \in DOMAIN s |-> s[p[i]]] : p \in P}
<1>1. s \in Seq(ToSet(s)) /\ Len(s) \in Nat /\ DOMAIN s = 1..Len(s)
  BY SequenceIsSequence DEF IsSequence
<1>2. [i \in DOMAIN s |-> i] \in P
  BY DEF Bijection, Injection, Surjection, IsInjective
<1>3. Sorted(s) \in S
  <2>1. S # {}
    BY <1>2
  <2> QED BY <2>1 DEF Sorted
<1>4. PICK p \in P : Sorted(s) = [i \in DOMAIN s |-> s[p[i]]]
  BY <1>3
<1>5. p \in [DOMAIN s -> DOMAIN s] /\ \A w \in DOMAIN s : \E v \in DOMAIN s : p[v] = w
  BY DEF Bijection, Surjection
<1>6. IsSequence(Sorted(s))
  <2> DEFINE t == [i \in 1..Len(s) |-> s[p[i]]]
  <2>1. Sorted(s) = t
    BY <1>1, <1>4
  <2>2. t = [i \in 1..Len(s) |-> t[i]]
    OBVIOUS
  <2> HIDE DEF t
  <2> QED BY <1>1, <2>1, <2>2, MappedIsSequence
<1>7. ToSet(Sorted(s)) = ToSet(s)
  <2>1. ToSet(Sorted(s)) = {s[p[i]] : i \in DOMAIN s}
    BY <1>4 DEF ToSet
  <2> QED BY <1>5, <2>1 DEF ToSet
<1> QED BY <1>6, <1>7

\* A stored constraint is named after its only expression.
Stored(r) == r = [id |-> r.id, constraints |-> <<r.id>>]

\* The constraints after a Patch: those that nothing connects with its inputs, and its
\* own.
LEMMA ReplacedHas ==
  ASSUME NEW records, IsSequence(records), NEW patch, IsSequence(patch.constraints)
  PROVE  /\ IsSequence(Replaced(records, patch))
         /\ ToSet(Replaced(records, patch)) =
              {r \in ToSet(records) : r.id \notin Connection(records, ToSet(patch.affected)).ids}
                \cup {Compiled(e) : e \in ToSet(patch.constraints)}
<1> DEFINE removed == Connection(records, ToSet(patch.affected)).ids
           K == {i \in DOMAIN records : records[i].id \notin removed}
           kept == ElementsAt(records, K)
           own == [i \in DOMAIN patch.constraints |-> Compiled(patch.constraints[i])]
<1>1. Replaced(records, patch) = Sorted(kept \o own)
  BY DEF Replaced, Filter
<1> HIDE DEF removed
<1>2. /\ kept \in Seq(ToSet(records))
      /\ \A k \in DOMAIN kept : \E i \in K : kept[k] = records[i]
      /\ \A i \in K : \E k \in DOMAIN kept : kept[k] = records[i]
  <2>1. K \in SUBSET (DOMAIN records) /\ records \in Seq(ToSet(records))
    BY DEF IsSequence
  <2> HIDE DEF K
  <2> QED BY <2>1, Elements
<1>3. ToSet(kept) = {r \in ToSet(records) : r.id \notin removed}
  <2> HIDE DEF kept
  <2> QED BY <1>2 DEF ToSet
<1> HIDE DEF kept
<1>4. IsSequence(own) /\ ToSet(own) = {Compiled(e) : e \in ToSet(patch.constraints)}
  <2> DEFINE m == Len(patch.constraints)
             f == [i \in 1..m |-> Compiled(patch.constraints[i])]
  <2>1. m \in Nat /\ DOMAIN patch.constraints = 1..m
    BY SequenceIsSequence DEF IsSequence
  <2>2. own = f
    BY <2>1
  <2>3. f = [i \in 1..m |-> f[i]]
    OBVIOUS
  <2>4. IsSequence(own)
    <3> HIDE DEF f, own, m
    <3> QED BY <2>1, <2>2, <2>3, MappedIsSequence
  <2>5. ToSet(own) = {Compiled(e) : e \in ToSet(patch.constraints)}
    BY DEF ToSet
  <2> QED BY <2>4, <2>5
<1> HIDE DEF own
<1>5. IsSequence(kept \o own) /\ ToSet(kept \o own) = ToSet(kept) \cup ToSet(own)
  <2> DEFINE U == ToSet(records) \cup ToSet(own)
  <2>1. kept \in Seq(U) /\ own \in Seq(U)
    BY <1>2, <1>4 DEF IsSequence
  <2> HIDE DEF U
  <2>2. kept \o own \in Seq(U)
    BY <2>1
  <2>3. /\ DOMAIN kept = 1..Len(kept) /\ DOMAIN own = 1..Len(own) /\ Len(kept) \in Nat /\ Len(own) \in Nat
        /\ DOMAIN (kept \o own) = 1..(Len(kept) + Len(own))
        /\ \A i \in 1..Len(kept) : (kept \o own)[i] = kept[i]
        /\ \A i \in 1..Len(own) : (kept \o own)[Len(kept) + i] = own[i]
    BY <2>1
  <2>4. \A x \in ToSet(kept \o own) : x \in ToSet(kept) \cup ToSet(own)
    <3>1. ASSUME NEW i \in DOMAIN (kept \o own) PROVE (kept \o own)[i] \in ToSet(kept) \cup ToSet(own)
      <4>1. CASE i \in 1..Len(kept)
        BY <2>3, <4>1 DEF ToSet
      <4>2. CASE i \notin 1..Len(kept)
        <5>1. i - Len(kept) \in 1..Len(own) /\ i = Len(kept) + (i - Len(kept))
          BY <2>3, <4>2
        <5>2. (kept \o own)[i] = own[i - Len(kept)]
          BY <2>3, <5>1
        <5> QED BY <2>3, <5>1, <5>2 DEF ToSet
      <4> QED BY <4>1, <4>2
    <3> QED BY <3>1 DEF ToSet
  <2>5. \A x \in ToSet(kept) : x \in ToSet(kept \o own)
    <3>1. \A i \in DOMAIN kept : i \in DOMAIN (kept \o own) /\ (kept \o own)[i] = kept[i]
      BY <2>3
    <3> QED BY <3>1 DEF ToSet
  <2>6. \A x \in ToSet(own) : x \in ToSet(kept \o own)
    <3>1. \A i \in DOMAIN own : Len(kept) + i \in DOMAIN (kept \o own) /\ (kept \o own)[Len(kept) + i] = own[i]
      BY <2>3
    <3> QED BY <3>1 DEF ToSet
  <2>7. IsSequence(kept \o own)
    BY <2>2, SequenceIsSequence
  <2> QED BY <2>4, <2>5, <2>6, <2>7
<1>6. IsSequence(Sorted(kept \o own)) /\ ToSet(Sorted(kept \o own)) = ToSet(kept \o own)
  BY <1>5, SortedKeeps
<1> QED BY <1>1, <1>3, <1>4, <1>5, <1>6 DEF removed

\* What the inputs of a scope connect with is what each of them connects with.
LEMMA ConnectedScope ==
  ASSUME NEW T, NEW records \in Seq(T), NEW scope
  PROVE  Connection(records, scope).inputs = UNION {ConnectedBy(records, n) : n \in scope}
<1> DEFINE C == Connection(records, scope).inputs
           Of(n) == Connection(records, {n}).inputs
           U == UNION {Of(n) : n \in scope}
<1>1. IsClosure(records, scope, Connection(records, scope))
  BY ConnectionIsClosure
<1>2. \A n \in scope : IsClosure(records, {n}, Connection(records, {n}))
  BY ConnectionIsClosure
<1>3. \A n \in scope : ConnectedBy(records, n) = Of(n)
  BY ConnectedInputs
<1>4. U = UNION {ConnectedBy(records, n) : n \in scope}
  <2> HIDE DEF Of
  <2>1. {Of(n) : n \in scope} = {ConnectedBy(records, n) : n \in scope}
    BY <1>3
  <2> QED BY <2>1
<1>5. \A n \in scope : NothingLeadsOut(records, Of(n)) /\ n \in Of(n)
  BY <1>2 DEF IsClosure
<1>6. NothingLeadsOut(records, U) /\ scope \subseteq U
  <2> HIDE DEF Of
  <2> QED BY <1>5 DEF NothingLeadsOut
<1>7. C \subseteq U
  BY <1>1, <1>6 DEF IsClosure
<1>8. \A n \in scope : Of(n) \subseteq C
  <2>1. NothingLeadsOut(records, C) /\ scope \subseteq C
    BY <1>1 DEF IsClosure
  <2>2. \A n \in scope : {n} \subseteq C
    BY <2>1
  <2> HIDE DEF C
  <2> QED BY <1>2, <2>1, <2>2 DEF IsClosure
<1> HIDE DEF C, Of
<1>9. U \subseteq C
  BY <1>8
<1> QED BY <1>4, <1>7, <1>9 DEF C

\* The constraints of a Patch replace those that connect with its scope and no others,
\* and an Agent that read its scope was shown all that is removed.
LEMMA ScopeGivesWay ==
  ASSUME NEW records, IsSequence(records), \A i \in DOMAIN records : Stored(records[i]),
         NEW patch, IsSequence(patch.constraints), constraints = Replaced(records, patch)
  PROVE  ScopeIsReplaced(records, patch)
<1> DEFINE scope == ToSet(patch.affected)
           reached == UNION {ConnectedBy(records, n) : n \in scope}
           own == {Compiled(e) : e \in ToSet(patch.constraints)}
           kept == {r \in ToSet(records) : Owners(r) \cap reached = {}}
           s == Connection(records, scope)
<1>1. records \in Seq(ToSet(records))
  BY DEF IsSequence
<1>2. IsClosure(records, scope, s)
  BY <1>1, ConnectionIsClosure
<1>3. s.inputs = reached
  BY <1>1, ConnectedScope
<1>4. ToSet(constraints) = {r \in ToSet(records) : r.id \notin s.ids} \cup own
  BY ReplacedHas
<1> HIDE DEF s, reached, own, scope
<1>5. ASSUME NEW r \in ToSet(records) PROVE r.id \in s.ids <=> Owners(r) \cap reached # {}
  <2>1. PICK i \in DOMAIN records : r = records[i]
    BY DEF ToSet
  <2>2. s.ids = Naming(records, reached)
    BY <1>2, <1>3 DEF IsClosure
  <2>3. Owners(r) \cap reached # {} => r.id \in s.ids
    BY <2>1, <2>2 DEF Naming
  <2>4. ASSUME r.id \in s.ids PROVE Owners(r) \cap reached # {}
    <3>1. PICK j \in DOMAIN records : records[j].id = r.id /\ Owners(records[j]) \cap reached # {}
      BY <2>2, <2>4 DEF Naming
    <3>2. Stored(records[j]) /\ Stored(r)
      BY <2>1
    <3>3. records[j] = r
      BY <3>1, <3>2 DEF Stored
    <3> QED BY <3>1, <3>3
  <2> QED BY <2>3, <2>4
<1>6. ToSet(constraints) = kept \cup own
  BY <1>4, <1>5
<1>7. ASSUME NEW r \in ToSet(records) \ kept
      PROVE  r.id \in Shown(records, scope).ids
             /\ Owners(r) \subseteq scope \cup Shown(records, scope).additional
  <2>1. Shown(records, scope).ids = s.ids /\ Shown(records, scope).additional = s.inputs \ scope
    BY DEF Shown, s
  <2>2. Owners(r) \cap reached # {}
    OBVIOUS
  <2>3. Owners(r) \subseteq s.inputs
    <3>1. PICK i \in DOMAIN records : r = records[i]
      BY DEF ToSet
    <3>2. NothingLeadsOut(records, s.inputs)
      BY <1>2 DEF IsClosure
    <3> QED BY <1>3, <2>2, <3>1, <3>2 DEF NothingLeadsOut
  <2> QED BY <1>5, <2>1, <2>2, <2>3
<1> QED BY <1>6, <1>7 DEF ScopeIsReplaced, scope, reached, own

\* The candidates of an Operation's inputs.
AreCandidates(o, candidates) ==
  /\ DOMAIN candidates = DOMAIN o.nodes
  /\ \A n \in DOMAIN candidates : IsSequence(candidates[n]) /\ candidates[n] # << >>

\* The items of a Patch.
AreItems(items) ==
  IsSequence(items) /\ \A i \in DOMAIN items : DOMAIN items[i] = {"node", "chance", "strategy"}

\* The items for one input.
LEMMA ItemsAreSequences ==
  ASSUME NEW changes, IsSequence(changes), NEW n
  PROVE  IsSequence(ItemsFor(changes, n))
<1> DEFINE S == {i \in DOMAIN changes : changes[i].node = n}
<1>1. ItemsFor(changes, n) = ElementsAt(changes, S)
  BY DEF ItemsFor, Filter
<1>2. S \in SUBSET (DOMAIN changes) /\ changes \in Seq(ToSet(changes))
  BY DEF IsSequence
<1> HIDE DEF S
<1>3. ElementsAt(changes, S) \in Seq(ToSet(changes))
  BY <1>2, Elements
<1> HIDE DEF IsSequence
<1> QED BY <1>1, <1>3, SequenceIsSequence

\* What is expanded are the inputs that are named and the containers that become
\* mandatory, each with a list of items.
Expanded(c, candidates, changes) ==
  NodesOf(changes) \cup {a \in RequiredAncestors(c, changes) :
                           \E i \in DOMAIN candidates[a] : candidates[a][i].chance # "always"}

LEMMA ExpandHas ==
  ASSUME NEW c, NEW candidates, NEW changes, IsSequence(changes)
  PROVE  /\ DOMAIN Expand(c, candidates, changes) = Expanded(c, candidates, changes)
         /\ \A n \in Expanded(c, candidates, changes) :
              IsSequence(candidates[n]) => IsSequence(Expand(c, candidates, changes)[n])
<1> DEFINE required == RequiredAncestors(c, changes)
           optional == {a \in required : \E i \in DOMAIN candidates[a] : candidates[a][i].chance # "always"}
           List(n) == LET items == ItemsFor(changes, n)
                      IN  IF n \notin required THEN items
                          ELSE IF n \in NodesOf(changes)
                            THEN [i \in DOMAIN items |->
                                   IF items[i].chance = Keep /\ n \notin optional THEN items[i]
                                   ELSE [items[i] EXCEPT !.chance = "always"]]
                          ELSE [i \in DOMAIN candidates[n] |->
                                 [node |-> n, chance |-> "always", strategy |-> candidates[n][i].strategy]]
<1>1. Expand(c, candidates, changes) = [n \in NodesOf(changes) \cup optional |-> List(n)]
  BY DEF Expand
<1>2. Expanded(c, candidates, changes) = NodesOf(changes) \cup optional
  BY DEF Expanded
<1>3. ASSUME NEW n \in NodesOf(changes) \cup optional, IsSequence(candidates[n]) PROVE IsSequence(List(n))
  <2> DEFINE items == ItemsFor(changes, n)
             m == Len(items)
             k == Len(candidates[n])
             f == [i \in 1..m |-> IF items[i].chance = Keep /\ n \notin optional THEN items[i]
                                  ELSE [items[i] EXCEPT !.chance = "always"]]
             g == [i \in 1..k |-> [node |-> n, chance |-> "always", strategy |-> candidates[n][i].strategy]]
  <2>1. IsSequence(items)
    BY ItemsAreSequences
  <2>2. m \in Nat /\ DOMAIN items = 1..m
    <3> HIDE DEF items
    <3> QED BY <2>1, SequenceIsSequence DEF IsSequence
  <2>3. CASE n \notin required
    BY <2>1, <2>3
  <2>4. CASE n \in required /\ n \in NodesOf(changes)
    <3>1. List(n) = f
      BY <2>2, <2>4
    <3>2. f = [i \in 1..m |-> f[i]]
      OBVIOUS
    <3> HIDE DEF List, f, m
    <3> QED BY <2>2, <3>1, <3>2, MappedIsSequence
  <2>5. CASE n \in required /\ n \notin NodesOf(changes)
    <3>1. k \in Nat /\ DOMAIN candidates[n] = 1..k
      BY <1>3, SequenceIsSequence DEF IsSequence
    <3>2. List(n) = g
      BY <2>5, <3>1
    <3>3. g = [i \in 1..k |-> g[i]]
      OBVIOUS
    <3> HIDE DEF List, g, k
    <3> QED BY <3>1, <3>2, <3>3, MappedIsSequence
  <2> QED BY <2>3, <2>4, <2>5
<1> HIDE DEF List, optional
<1> QED BY <1>1, <1>2, <1>3

\* The new candidates of an accepted Patch: lists again, and those of the inputs that
\* are not expanded are the old ones.
LEMMA PatchedHas ==
  ASSUME NEW c, NEW candidates, AreCandidates(c.op, candidates), NEW changes, IsSequence(changes),
         PatchedGenerators(c, candidates, changes) # Refused
  PROVE  \E new : /\ PatchedGenerators(c, candidates, changes) = <<"accepted", new>>
                  /\ AreCandidates(c.op, new)
                  /\ \A n \in Nodes(c) \ Expanded(c, candidates, changes) : new[n] = candidates[n]
<1> DEFINE expanded == Expand(c, candidates, changes)
           new == [n \in Nodes(c) |-> IF n \in DOMAIN expanded
                                      THEN Replacements(candidates, expanded[n]) ELSE candidates[n]]
<1>1. Nodes(c) = DOMAIN candidates
  BY DEF Nodes, AreCandidates
<1>2. CASE changes = << >>
  <2>1. PatchedGenerators(c, candidates, changes) = <<"accepted", candidates>>
    BY <1>2 DEF PatchedGenerators
  <2> QED BY <2>1
<1>3. CASE changes # << >>
  <2>1. PatchedGenerators(c, candidates, changes) = <<"accepted", new>> /\ Acceptable(c, new)
    <3>1. PatchedGenerators(c, candidates, changes) =
            IF \/ ~(NodesOf(changes) \subseteq Nodes(c))
               \/ \E n \in NodesOf(changes) : Len(ItemsFor(changes, n)) > MaxCandidates
               \/ ClosureConflict(c, changes)
               \/ \E n \in DOMAIN expanded : ~IsInjective(new[n])
               \/ ~Acceptable(c, new)
            THEN Refused ELSE <<"accepted", new>>
      BY <1>3 DEF PatchedGenerators
    <3> HIDE DEF new, expanded
    <3> QED BY <3>1
  <2>2. /\ DOMAIN expanded = Expanded(c, candidates, changes)
        /\ \A n \in DOMAIN expanded : IsSequence(candidates[n]) => IsSequence(expanded[n])
    BY ExpandHas
  <2> HIDE DEF expanded
  <2>3. ASSUME NEW n \in Nodes(c) PROVE IsSequence(new[n])
    <3>1. IsSequence(candidates[n])
      BY <1>1 DEF AreCandidates
    <3>2. CASE n \notin DOMAIN expanded
      BY <3>1, <3>2
    <3>3. CASE n \in DOMAIN expanded
      <4> DEFINE items == expanded[n]
                 first == candidates[items[1].node][1]
                 m == Len(items)
                 f == [i \in 1..m |->
                        [chance |-> IF items[i].chance = Keep THEN first.chance ELSE items[i].chance,
                         strategy |-> IF items[i].strategy = KeepStrategy THEN first.strategy
                                      ELSE items[i].strategy]]
      <4>1. m \in Nat /\ DOMAIN items = 1..m
        <5> HIDE DEF items
        <5>1. IsSequence(items)
          BY <2>2, <3>1, <3>3 DEF items
        <5> QED BY <5>1, SequenceIsSequence DEF IsSequence
      <4>2. new[n] = f
        BY <3>3, <4>1 DEF Replacements
      <4>3. f = [i \in 1..m |-> f[i]]
        OBVIOUS
      <4> HIDE DEF f, m, new
      <4> QED BY <4>1, <4>2, <4>3, MappedIsSequence
    <3> QED BY <3>2, <3>3
  <2>4. DOMAIN new = DOMAIN c.op.nodes /\ DOMAIN new = Nodes(c)
    BY DEF Nodes
  <2>5. \A n \in Nodes(c) \ DOMAIN expanded : new[n] = candidates[n]
    OBVIOUS
  <2> HIDE DEF new
  <2>6. ASSUME NEW n \in Nodes(c) PROVE new[n] # << >>
    <3>1. Len(new[n]) \in 1..MaxCandidates
      BY <2>1 DEF Acceptable
    <3>2. Len(<< >>) = 0
      OBVIOUS
    <3> QED BY <3>1, <3>2, PatchAssumption
  <2>7. AreCandidates(c.op, new)
    BY <2>3, <2>4, <2>6 DEF AreCandidates
  <2> QED BY <2>1, <2>2, <2>5, <2>7
<1> QED BY <1>2, <1>3

\* Compiling the sources of a Patch changes neither its inputs nor their chances.
LEMMA CompilingKeepsItems ==
  ASSUME NEW c, NEW changes, AreItems(changes), NEW compiled,
         compiled = [i \in DOMAIN changes |-> [changes[i] EXCEPT !.strategy = CompiledStrategy(c, @)]]
  PROVE  /\ IsSequence(compiled)
         /\ NodesOf(compiled) = NodesOf(changes)
         /\ RequiredAncestors(c, compiled) = RequiredAncestors(c, changes)
<1>1. ASSUME NEW i \in DOMAIN changes
      PROVE  compiled[i].node = changes[i].node /\ compiled[i].chance = changes[i].chance
  <2> DEFINE x == changes[i]
             y == CompiledStrategy(c, x.strategy)
  <2>1. DOMAIN x = {"node", "chance", "strategy"}
    BY DEF AreItems
  <2>2. compiled[i] = [x EXCEPT !.strategy = y]
    OBVIOUS
  <2> HIDE DEF x, y
  <2>3. [x EXCEPT !.strategy = y].node = x.node /\ [x EXCEPT !.strategy = y].chance = x.chance
    BY <2>1
  <2> QED BY <2>2, <2>3 DEF x
<1>2. DOMAIN compiled = DOMAIN changes
  OBVIOUS
<1>3. NodesOf(compiled) = NodesOf(changes)
  BY <1>1, <1>2 DEF NodesOf
<1>4. RequiredAncestors(c, compiled) = RequiredAncestors(c, changes)
  BY <1>1, <1>2 DEF RequiredAncestors
<1>5. IsSequence(compiled)
  <2> DEFINE m == Len(changes)
             f == [i \in 1..m |-> [changes[i] EXCEPT !.strategy = CompiledStrategy(c, @)]]
  <2>1. m \in Nat /\ DOMAIN changes = 1..m
    BY SequenceIsSequence DEF AreItems, IsSequence
  <2>2. compiled = f
    BY <2>1
  <2>3. f = [i \in 1..m |-> f[i]]
    OBVIOUS
  <2> HIDE DEF f, m
  <2> QED BY <2>1, <2>2, <2>3, MappedIsSequence
<1> QED BY <1>3, <1>4, <1>5

\* What an accepted Patch compiles to: candidates for all inputs, and new ones for the
\* inputs of its scope only, as far as an Agent can name them.
LEMMA CompiledHas ==
  ASSUME NEW o, NEW candidates, AreCandidates(o, candidates), NEW patch, AreItems(patch.changes),
         CompiledGenerators([op |-> o], candidates, patch) # Refused
  PROVE  \E new : /\ CompiledGenerators([op |-> o], candidates, patch) = <<"accepted", new>>
                  /\ AreCandidates(o, new)
                  /\ \A n \in Addressable([op |-> o]) \ ToSet(patch.affected) : new[n] = candidates[n]
<1> DEFINE c == [op |-> o]
           compiled == [i \in DOMAIN patch.changes |->
                         [patch.changes[i] EXCEPT !.strategy = CompiledStrategy(c, @)]]
<1>1. c.op = o
  OBVIOUS
<1> HIDE DEF c
<1>2. /\ CompiledGenerators(c, candidates, patch) = PatchedGenerators(c, candidates, compiled)
      /\ ScopeIsComplete(c, candidates, patch)
  <2> DEFINE Accepts == /\ IsScope(c, patch.affected)
         /\ NodesOf(patch.changes) \subseteq ToSet(patch.affected)
         /\ SourcesFit(c, patch.changes)
         /\ IdentitiesAreComplete(c, patch.changes)
         /\ ScopeIsComplete(c, candidates, patch)
         /\ BranchesAreSelected(c, candidates, patch.changes)
         /\ \A i \in DOMAIN patch.constraints : ConstraintFits(c, ToSet(patch.affected), patch.constraints[i])
  <2>1. CompiledGenerators(c, candidates, patch) =
          IF Accepts THEN PatchedGenerators(c, candidates, compiled) ELSE Refused
    BY DEF CompiledGenerators
  <2>2. CompiledGenerators(c, candidates, patch) # Refused
    BY DEF c
  <2> HIDE DEF compiled
  <2>3. Accepts => ScopeIsComplete(c, candidates, patch)
    OBVIOUS
  <2> HIDE DEF Accepts
  <2> QED BY <2>1, <2>2, <2>3
<1>3. /\ IsSequence(compiled) /\ NodesOf(compiled) = NodesOf(patch.changes)
      /\ RequiredAncestors(c, compiled) = RequiredAncestors(c, patch.changes)
  <2> DEFINE changes == patch.changes
  <2>1. compiled = [i \in DOMAIN changes |-> [changes[i] EXCEPT !.strategy = CompiledStrategy(c, @)]]
    OBVIOUS
  <2> HIDE DEF compiled
  <2> QED BY <2>1, CompilingKeepsItems
<1> HIDE DEF compiled
<1>4. PICK new : /\ PatchedGenerators(c, candidates, compiled) = <<"accepted", new>>
                 /\ AreCandidates(c.op, new)
                 /\ \A n \in Nodes(c) \ Expanded(c, candidates, compiled) : new[n] = candidates[n]
  <2>1. PatchedGenerators(c, candidates, compiled) # Refused
    BY <1>2 DEF c
  <2>2. AreCandidates(c.op, candidates)
    BY <1>1
  <2> QED BY <1>3, <2>1, <2>2, PatchedHas
<1>5. Expanded(c, candidates, compiled) = DOMAIN Expand(c, candidates, patch.changes)
  <2>1. Expanded(c, candidates, compiled) = Expanded(c, candidates, patch.changes)
    BY <1>3 DEF Expanded
  <2>2. IsSequence(patch.changes)
    BY DEF AreItems
  <2> QED BY <2>1, <2>2, ExpandHas
<1>6. ASSUME NEW n \in Addressable(c) \ ToSet(patch.affected) PROVE new[n] = candidates[n]
  <2>1. n \in Nodes(c)
    BY DEF Addressable
  <2>2. n \notin Expanded(c, candidates, compiled)
    BY <1>2, <1>5 DEF ScopeIsComplete
  <2> QED BY <1>4, <2>1, <2>2
<1> QED BY <1>1, <1>2, <1>4, <1>6 DEF c

-----------------------------------------------------------------------------
(* Trees of inputs.                                                        *)

\* Induction along a rank.
LEMMA RankInduction ==
  ASSUME NEW S, NEW rank \in [S -> Nat], NEW T,
         \A x \in S : (\A y \in S : rank[y] < rank[x] => y \in T) => x \in T
  PROVE  S \subseteq T
<1> DEFINE U == {k \in Nat : \A x \in S : rank[x] < k => x \in T}
<1>1. 0 \in U
  BY DEF U
<1>2. ASSUME NEW k \in Nat, k \in U PROVE k + 1 \in U
  <2>1. ASSUME NEW x \in S, rank[x] < k + 1 PROVE x \in T
    <3>1. \A y \in S : rank[y] < rank[x] => y \in T
      BY <1>2, <2>1
    <3> QED BY <3>1
  <2> QED BY <2>1
<1> HIDE DEF U
<1>3. Nat \subseteq U
  BY <1>1, <1>2, SetInduction
<1>4. ASSUME NEW x \in S PROVE x \in T
  <2>1. rank[x] + 1 \in U /\ rank[x] < rank[x] + 1
    BY <1>3
  <2> QED BY <2>1 DEF U
<1> QED BY <1>4

\* A rank of the inputs in which containers come before what is below them.
IsRank(c, rank, bound) ==
  /\ bound \in Nat
  /\ rank \in [Nodes(c) -> 0..bound]
  /\ \A n \in Nodes(c) : Node(c, n).parent # NoNode => rank[Node(c, n).parent] < rank[n]

\* A finite set in which every part has an element with its parent elsewhere has a rank.
LEMMA TreeIsRanked ==
  ASSUME NEW c, IsTree(c.op), IsSequence(c.op.ids)
  PROVE  \E bound, rank : IsRank(c, rank, bound)
<1> DEFINE ParentOf(n) == Node(c, n).parent
           Ranked(S, k) == \E f \in [S -> 0..k] : \A n \in S : ParentOf(n) \in S => f[ParentOf(n)] < f[n]
           U == {k \in Nat : \A S \in SUBSET Nodes(c) : IsFiniteSet(S) /\ Cardinality(S) = k => Ranked(S, k)}
<1>1. IsFiniteSet(Nodes(c))
  <2>1. c.op.ids \in Seq(ToSet(c.op.ids)) /\ ToSet(c.op.ids) = Nodes(c)
    BY DEF IsTree, IsSequence, Nodes
  <2>2. IsFiniteSet(1..Len(c.op.ids)) /\ c.op.ids \in [1..Len(c.op.ids) -> ToSet(c.op.ids)]
    BY <2>1, FS_Interval
  <2>3. IsFiniteSet({c.op.ids[i] : i \in DOMAIN c.op.ids})
    <3> DEFINE s == c.op.ids
               I == DOMAIN s
    <3>1. IsFiniteSet(I)
      BY <2>1, <2>2
    <3>2. s \in [I -> ToSet(s)] /\ \A x \in ToSet(s) : \E i \in I : s[i] = x
      BY <2>2 DEF ToSet
    <3>3. s \in Surjection(I, ToSet(s))
      BY <3>2 DEF Surjection
    <3> QED BY <3>1, <3>3, FS_Surjection DEF ToSet
  <2> QED BY <2>1, <2>3 DEF ToSet
<1>2. 0 \in U
  <2>1. ASSUME NEW S \in SUBSET Nodes(c), IsFiniteSet(S), Cardinality(S) = 0 PROVE Ranked(S, 0)
    <3>1. S = {}
      BY <2>1, FS_EmptySet
    <3>2. [n \in {} |-> 0] \in [{} -> 0..0]
      OBVIOUS
    <3> QED BY <3>1, <3>2
  <2> HIDE DEF Ranked
  <2> QED BY <2>1
<1>3. ASSUME NEW k \in Nat, k \in U PROVE k + 1 \in U
  <2>1. ASSUME NEW S \in SUBSET Nodes(c), IsFiniteSet(S), Cardinality(S) = k + 1 PROVE Ranked(S, k + 1)
    <3>1. S # {}
      BY <2>1, FS_EmptySet
    <3>2. PICK m \in S : ParentOf(m) \notin S
      BY <3>1 DEF IsTree, Nodes, Node
    <3>3. IsFiniteSet(S \ {m}) /\ Cardinality(S \ {m}) = k
      <4>1. IsFiniteSet(S \ {m}) /\ Cardinality(S \ {m}) = Cardinality(S) - 1
        BY <2>1, <3>2, FS_RemoveElement
      <4> QED BY <2>1, <4>1
    <3>4. PICK f \in [S \ {m} -> 0..k] : \A n \in S \ {m} : ParentOf(n) \in S \ {m} => f[ParentOf(n)] < f[n]
      BY <1>3, <3>3
    <3> DEFINE g == [n \in S |-> IF n = m THEN 0 ELSE f[n] + 1]
    <3> HIDE DEF ParentOf
    <3>5. g \in [S -> 0..(k + 1)]
      OBVIOUS
    <3>6. \A n \in S : ParentOf(n) \in S => g[ParentOf(n)] < g[n]
      BY <3>2, <3>4
    <3> QED BY <3>5, <3>6
  <2> HIDE DEF Ranked
  <2> QED BY <2>1
<1> HIDE DEF U
<1>4. Cardinality(Nodes(c)) \in U /\ Cardinality(Nodes(c)) \in Nat
  BY <1>1, <1>2, <1>3, SetInduction, FS_CardinalityType
<1>5. Ranked(Nodes(c), Cardinality(Nodes(c)))
  <2> HIDE DEF Ranked
  <2> QED BY <1>1, <1>4 DEF U
<1>6. \A n \in Nodes(c) : ParentOf(n) # NoNode => ParentOf(n) \in Nodes(c)
  BY DEF IsTree, Nodes, Node
<1> QED BY <1>4, <1>5, <1>6 DEF IsRank

HasTree(c) == IsTree(c.op) /\ IsSequence(c.op.ids)

\* The parent of an input is an input, and a container.
LEMMA ParentIsContainer ==
  ASSUME NEW c, HasTree(c), NEW n \in Nodes(c), Node(c, n).parent # NoNode
  PROVE  Node(c, n).parent \in Nodes(c) /\ Node(c, Node(c, n).parent).container
BY DEF HasTree, IsTree, Nodes, Node

LEMMA AncestorsUnfold ==
  ASSUME NEW c, HasTree(c), NEW n \in Nodes(c)
  PROVE  Ancestors(c, n) = IF Node(c, n).parent = NoNode THEN {}
                           ELSE {Node(c, n).parent} \cup Ancestors(c, Node(c, n).parent)
<1> DEFINE Up(f, m) == LET p == Node(c, m).parent IN IF p = NoNode THEN {} ELSE {p} \cup f[p]
           Solves(f) == f = [m \in Nodes(c) |-> Up(f, m)]
           above == CHOOSE f : Solves(f)
<1>1. PICK bound, rank : IsRank(c, rank, bound)
  BY TreeIsRanked DEF HasTree
<1>2. ASSUME NEW f, NEW g, NEW m \in Nodes(c), \A y \in Nodes(c) : rank[y] < rank[m] => f[y] = g[y]
      PROVE  Up(f, m) = Up(g, m)
  BY <1>1, <1>2, ParentIsContainer DEF IsRank
<1>3. \E f : Solves(f)
  <2> DEFINE Upto(k) == \E f : f = [m \in Nodes(c) |-> f[m]] /\ \A m \in Nodes(c) : rank[m] < k => f[m] = Up(f, m)
             U == {k \in Nat : Upto(k)}
  <2>1. 0 \in U
    <3>1. \A m \in Nodes(c) : ~(rank[m] < 0)
      BY <1>1 DEF IsRank
    <3> DEFINE f == [m \in Nodes(c) |-> {}]
    <3>2. f = [m \in Nodes(c) |-> f[m]]
      OBVIOUS
    <3> HIDE DEF Up, f
    <3> QED BY <3>1, <3>2
  <2>2. ASSUME NEW k \in Nat, k \in U PROVE k + 1 \in U
    <3>1. PICK f : f = [m \in Nodes(c) |-> f[m]] /\ \A m \in Nodes(c) : rank[m] < k => f[m] = Up(f, m)
      BY <2>2
    <3> HIDE DEF Up
    <3> DEFINE g == [m \in Nodes(c) |-> Up(f, m)]
    <3>2. \A m \in Nodes(c) : g[m] = Up(f, m)
      OBVIOUS
    <3>3. g = [m \in Nodes(c) |-> g[m]]
      OBVIOUS
    <3> HIDE DEF g
    <3>4. ASSUME NEW m \in Nodes(c), rank[m] < k + 1 PROVE g[m] = Up(g, m)
      <4>1. \A y \in Nodes(c) : rank[y] < rank[m] => rank[y] < k
        BY <1>1, <3>4 DEF IsRank
      <4>2. \A y \in Nodes(c) : rank[y] < rank[m] => f[y] = g[y]
        BY <3>1, <3>2, <4>1
      <4> QED BY <1>2, <3>2, <4>2
    <3> QED BY <3>3, <3>4
  <2> HIDE DEF U
  <2>3. bound + 1 \in U
    BY <1>1, <2>1, <2>2, SetInduction DEF IsRank
  <2>4. PICK f : f = [m \in Nodes(c) |-> f[m]] /\ \A m \in Nodes(c) : rank[m] < bound + 1 => f[m] = Up(f, m)
    BY <2>3 DEF U
  <2>5. \A m \in Nodes(c) : rank[m] < bound + 1
    BY <1>1 DEF IsRank
  <2> HIDE DEF Up
  <2> QED BY <2>4, <2>5
<1> HIDE DEF Solves
<1>4. Solves(above)
  BY <1>3
<1>5. \A m \in Nodes(c) : Ancestors(c, m) = above[m]
  BY DEF Ancestors, Solves
<1> HIDE DEF above, Up
<1>6. \A m \in Nodes(c) : above[m] = Up(above, m)
  BY <1>4 DEF Solves
<1> QED BY <1>5, <1>6, ParentIsContainer DEF Up

\* What is above an input is a container and an input, is the parent of one at it or above
\* it, and has above it what is above the input too.
AncestorFacts(c, n) ==
  /\ \A a \in Ancestors(c, n) :
       /\ a \in Nodes(c) /\ Node(c, a).container
       /\ \E m \in Ancestors(c, n) \cup {n} : Node(c, m).parent = a /\ a # NoNode
       /\ Ancestors(c, a) \subseteq Ancestors(c, n)

LEMMA AncestorsAre ==
  ASSUME NEW c, HasTree(c)
  PROVE  \A n \in Nodes(c) : AncestorFacts(c, n)
<1>1. PICK bound, rank : IsRank(c, rank, bound)
  BY TreeIsRanked DEF HasTree
<1> DEFINE T == {n \in Nodes(c) : AncestorFacts(c, n)}
<1>2. ASSUME NEW n \in Nodes(c), \A y \in Nodes(c) : rank[y] < rank[n] => y \in T PROVE n \in T
  <2>1. CASE Node(c, n).parent = NoNode
    BY <2>1, AncestorsUnfold DEF AncestorFacts
  <2>2. CASE Node(c, n).parent # NoNode
    <3> DEFINE p == Node(c, n).parent
    <3>1. p \in Nodes(c) /\ Node(c, p).container /\ p \in T /\ p # NoNode
      BY <1>1, <1>2, <2>2, ParentIsContainer DEF IsRank
    <3>2. Ancestors(c, n) = {p} \cup Ancestors(c, p)
      BY <2>2, AncestorsUnfold
    <3>3. AncestorFacts(c, p) /\ Node(c, n).parent = p
      BY <3>1
    <3> HIDE DEF p
    <3> QED BY <3>1, <3>2, <3>3 DEF AncestorFacts
  <2> QED BY <2>1, <2>2
<1> HIDE DEF T
<1>3. rank \in [Nodes(c) -> Nat]
  BY <1>1 DEF IsRank
<1>4. Nodes(c) \subseteq T
  BY <1>2, <1>3, RankInduction
<1> QED BY <1>4 DEF T

\* A container above an input that is plain is plain.
LEMMA PlainAbove ==
  ASSUME NEW c, HasTree(c), NEW n \in Nodes(c), Plain(c, n), NEW a \in Ancestors(c, n)
  PROVE  Plain(c, a)
<1>1. Ancestors(c, a) \subseteq Ancestors(c, n)
  BY AncestorsAre DEF AncestorFacts
<1> QED BY <1>1 DEF Plain

\* The container right above an input that is plain.
LEMMA PlainParent ==
  ASSUME NEW c, HasTree(c), NEW n \in Nodes(c), Plain(c, n), Node(c, n).parent # NoNode
  PROVE  LET p == Node(c, n).parent
         IN  /\ p \in Nodes(c) /\ p \in Ancestors(c, n) /\ Plain(c, p)
             /\ Strategy(c, p).type \in {"object", "request_body"} /\ Children(c, p, "allOf") = {}
             /\ Ancestors(c, n) = {p} \cup Ancestors(c, p)
<1> DEFINE p == Node(c, n).parent
<1>1. Ancestors(c, n) = {p} \cup Ancestors(c, p)
  BY AncestorsUnfold
<1>2. p \in Nodes(c) /\ p \in Ancestors(c, n)
  BY <1>1, ParentIsContainer
<1>3. Plain(c, p)
  BY <1>2, PlainAbove
<1>4. Strategy(c, p).type \in {"object", "request_body"} /\ Children(c, p, "allOf") = {}
  BY <1>2 DEF Plain
<1> QED BY <1>1, <1>2, <1>3, <1>4

\* A value is built over the values of the parts.
LEMMA BuildUnfold ==
  ASSUME NEW c, HasTree(c), NEW n \in Nodes(c)
  PROVE  Build(c, n) = ValueOver(c, n, [k \in PartsOf(c, n) |-> Build(c, k)])
<1> DEFINE Of(f, m) == ValueOver(c, m, [k \in PartsOf(c, m) |-> f[k]])
           Solves(f) == f = [m \in Nodes(c) |-> Of(f, m)]
           built == CHOOSE f : Solves(f)
<1>1. PICK bound, rank : IsRank(c, rank, bound)
  BY TreeIsRanked DEF HasTree
<1>2. \A m \in Nodes(c) : \A k \in PartsOf(c, m) : k \in Nodes(c) /\ rank[m] < rank[k]
  <2>1. NoNode \notin Nodes(c)
    BY DEF HasTree, IsTree, Nodes
  <2> QED BY <1>1, <2>1 DEF PartsOf, IsRank
<1>3. ASSUME NEW f, NEW g, NEW m \in Nodes(c), \A k \in Nodes(c) : rank[m] < rank[k] => f[k] = g[k]
      PROVE  Of(f, m) = Of(g, m)
  <2>1. [k \in PartsOf(c, m) |-> f[k]] = [k \in PartsOf(c, m) |-> g[k]]
    BY <1>2, <1>3
  <2> QED BY <2>1
<1>4. \E f : Solves(f)
  <2> DEFINE From(k) == \E f : f = [m \in Nodes(c) |-> f[m]]
                                 /\ \A m \in Nodes(c) : bound - rank[m] < k => f[m] = Of(f, m)
             U == {k \in Nat : From(k)}
  <2>1. 0 \in U
    <3>1. \A m \in Nodes(c) : ~(bound - rank[m] < 0)
      BY <1>1 DEF IsRank
    <3> DEFINE f == [m \in Nodes(c) |-> {}]
    <3>2. f = [m \in Nodes(c) |-> f[m]]
      OBVIOUS
    <3> HIDE DEF Of, f
    <3> QED BY <3>1, <3>2
  <2>2. ASSUME NEW k \in Nat, k \in U PROVE k + 1 \in U
    <3>1. PICK f : f = [m \in Nodes(c) |-> f[m]] /\ \A m \in Nodes(c) : bound - rank[m] < k => f[m] = Of(f, m)
      BY <2>2
    <3> HIDE DEF Of
    <3> DEFINE g == [m \in Nodes(c) |-> Of(f, m)]
    <3>2. \A m \in Nodes(c) : g[m] = Of(f, m)
      OBVIOUS
    <3>3. g = [m \in Nodes(c) |-> g[m]]
      OBVIOUS
    <3> HIDE DEF g
    <3>4. ASSUME NEW m \in Nodes(c), bound - rank[m] < k + 1 PROVE g[m] = Of(g, m)
      <4>1. \A y \in Nodes(c) : rank[m] < rank[y] => bound - rank[y] < k
        <5>1. bound \in Int /\ \A y \in Nodes(c) : rank[y] \in Int
          BY <1>1 DEF IsRank
        <5> QED BY <3>4, <5>1
      <4>2. \A y \in Nodes(c) : rank[m] < rank[y] => f[y] = g[y]
        BY <3>1, <3>2, <4>1
      <4> QED BY <1>3, <3>2, <4>2
    <3> QED BY <3>3, <3>4
  <2> HIDE DEF U
  <2>3. bound + 1 \in U
    BY <1>1, <2>1, <2>2, SetInduction DEF IsRank
  <2>4. PICK f : f = [m \in Nodes(c) |-> f[m]] /\ \A m \in Nodes(c) : bound - rank[m] < bound + 1 => f[m] = Of(f, m)
    BY <2>3 DEF U
  <2>5. \A m \in Nodes(c) : bound - rank[m] < bound + 1
    BY <1>1 DEF IsRank
  <2> HIDE DEF Of
  <2> QED BY <2>4, <2>5
<1> HIDE DEF Solves
<1>5. Solves(built)
  BY <1>4
<1>6. \A m : Build(c, m) = built[m]
  BY DEF Build, Solves
<1> HIDE DEF built, Of
<1>7. built[n] = Of(built, n)
  BY <1>5 DEF Solves
<1>8. [k \in PartsOf(c, n) |-> built[k]] = [k \in PartsOf(c, n) |-> Build(c, k)]
  BY <1>6
<1> QED BY <1>6, <1>7, <1>8 DEF Of

\* Where a body property is found.
LEMMA BodyAtUnfold ==
  ASSUME NEW c, HasTree(c), NEW r, NEW n \in Nodes(c)
  PROVE  BodyAt(c, r, n) =
           LET x == Node(c, n).name
               v == BodyAt(c, r, Node(c, n).parent)
           IN  IF n = c.op.active THEN r.body
               ELSE IF Node(c, n).parent = NoNode \/ Node(c, n).edge # "property" THEN Absent
               ELSE IF HasMember(v, x) THEN v[2][x] ELSE Absent
<1> DEFINE Of(f, m) == LET x == Node(c, m).name
                           v == f[Node(c, m).parent]
                       IN  IF m = c.op.active THEN r.body
                           ELSE IF Node(c, m).parent = NoNode \/ Node(c, m).edge # "property" THEN Absent
                           ELSE IF HasMember(v, x) THEN v[2][x] ELSE Absent
           Solves(f) == f = [m \in Nodes(c) |-> Of(f, m)]
           at == CHOOSE f : Solves(f)
<1>1. PICK bound, rank : IsRank(c, rank, bound)
  BY TreeIsRanked DEF HasTree
<1>2. ASSUME NEW f, NEW g, NEW m \in Nodes(c), \A y \in Nodes(c) : rank[y] < rank[m] => f[y] = g[y]
      PROVE  Of(f, m) = Of(g, m)
  BY <1>1, <1>2, ParentIsContainer DEF IsRank
<1>3. \E f : Solves(f)
  <2> DEFINE Upto(k) == \E f : f = [m \in Nodes(c) |-> f[m]] /\ \A m \in Nodes(c) : rank[m] < k => f[m] = Of(f, m)
             U == {k \in Nat : Upto(k)}
  <2>1. 0 \in U
    <3>1. \A m \in Nodes(c) : ~(rank[m] < 0)
      BY <1>1 DEF IsRank
    <3> DEFINE f == [m \in Nodes(c) |-> {}]
    <3>2. f = [m \in Nodes(c) |-> f[m]]
      OBVIOUS
    <3> HIDE DEF Of, f
    <3> QED BY <3>1, <3>2
  <2>2. ASSUME NEW k \in Nat, k \in U PROVE k + 1 \in U
    <3>1. PICK f : f = [m \in Nodes(c) |-> f[m]] /\ \A m \in Nodes(c) : rank[m] < k => f[m] = Of(f, m)
      BY <2>2
    <3> HIDE DEF Of
    <3> DEFINE g == [m \in Nodes(c) |-> Of(f, m)]
    <3>2. \A m \in Nodes(c) : g[m] = Of(f, m)
      OBVIOUS
    <3>3. g = [m \in Nodes(c) |-> g[m]]
      OBVIOUS
    <3> HIDE DEF g
    <3>4. ASSUME NEW m \in Nodes(c), rank[m] < k + 1 PROVE g[m] = Of(g, m)
      <4>1. \A y \in Nodes(c) : rank[y] < rank[m] => rank[y] < k
        BY <1>1, <3>4 DEF IsRank
      <4>2. \A y \in Nodes(c) : rank[y] < rank[m] => f[y] = g[y]
        BY <3>1, <3>2, <4>1
      <4> QED BY <1>2, <3>2, <4>2
    <3> QED BY <3>3, <3>4
  <2> HIDE DEF U
  <2>3. bound + 1 \in U
    BY <1>1, <2>1, <2>2, SetInduction DEF IsRank
  <2>4. PICK f : f = [m \in Nodes(c) |-> f[m]] /\ \A m \in Nodes(c) : rank[m] < bound + 1 => f[m] = Of(f, m)
    BY <2>3 DEF U
  <2>5. \A m \in Nodes(c) : rank[m] < bound + 1
    BY <1>1 DEF IsRank
  <2> HIDE DEF Of
  <2> QED BY <2>4, <2>5
<1> HIDE DEF Solves
<1>4. Solves(at)
  BY <1>3
<1>5. \A m : BodyAt(c, r, m) = at[m]
  BY DEF BodyAt, Solves
<1> HIDE DEF at, Of
<1>6. at[n] = Of(at, n)
  BY <1>4 DEF Solves
<1> QED BY <1>5, <1>6 DEF Of

\* What the server reads of an input.
LEMMA ProjectedUnfold ==
  ASSUME NEW c, HasTree(c), NEW r, NEW n \in Nodes(c)
  PROVE  Projected(c, r, n) =
           LET v == Projected(c, r, Node(c, n).parent)
           IN  IF Node(c, n).kind = "parameter"
               THEN IF n \in DOMAIN r.parameters THEN r.parameters[n] ELSE Failed
               ELSE IF n = c.op.active THEN IF r.hasBody THEN r.body ELSE Failed
               ELSE IF Node(c, n).parent = NoNode \/ Node(c, n).edge = "media" THEN Failed
               ELSE IF v = Failed THEN Failed
               ELSE ChildValue(c, n, v)
<1> DEFINE Of(f, m) ==
             LET v == f[Node(c, m).parent]
             IN  IF Node(c, m).kind = "parameter"
                 THEN IF m \in DOMAIN r.parameters THEN r.parameters[m] ELSE Failed
                 ELSE IF m = c.op.active THEN IF r.hasBody THEN r.body ELSE Failed
                 ELSE IF Node(c, m).parent = NoNode \/ Node(c, m).edge = "media" THEN Failed
                 ELSE IF v = Failed THEN Failed
                 ELSE ChildValue(c, m, v)
           Solves(f) == f = [m \in Nodes(c) |-> Of(f, m)]
           found == CHOOSE f : Solves(f)
<1>1. PICK bound, rank : IsRank(c, rank, bound)
  BY TreeIsRanked DEF HasTree
<1>2. ASSUME NEW f, NEW g, NEW m \in Nodes(c), \A y \in Nodes(c) : rank[y] < rank[m] => f[y] = g[y]
      PROVE  Of(f, m) = Of(g, m)
  BY <1>1, <1>2, ParentIsContainer DEF IsRank
<1>3. \E f : Solves(f)
  <2> DEFINE Upto(k) == \E f : f = [m \in Nodes(c) |-> f[m]] /\ \A m \in Nodes(c) : rank[m] < k => f[m] = Of(f, m)
             U == {k \in Nat : Upto(k)}
  <2>1. 0 \in U
    <3>1. \A m \in Nodes(c) : ~(rank[m] < 0)
      BY <1>1 DEF IsRank
    <3> DEFINE f == [m \in Nodes(c) |-> {}]
    <3>2. f = [m \in Nodes(c) |-> f[m]]
      OBVIOUS
    <3> HIDE DEF Of, f
    <3> QED BY <3>1, <3>2
  <2>2. ASSUME NEW k \in Nat, k \in U PROVE k + 1 \in U
    <3>1. PICK f : f = [m \in Nodes(c) |-> f[m]] /\ \A m \in Nodes(c) : rank[m] < k => f[m] = Of(f, m)
      BY <2>2
    <3> HIDE DEF Of
    <3> DEFINE g == [m \in Nodes(c) |-> Of(f, m)]
    <3>2. \A m \in Nodes(c) : g[m] = Of(f, m)
      OBVIOUS
    <3>3. g = [m \in Nodes(c) |-> g[m]]
      OBVIOUS
    <3> HIDE DEF g
    <3>4. ASSUME NEW m \in Nodes(c), rank[m] < k + 1 PROVE g[m] = Of(g, m)
      <4>1. \A y \in Nodes(c) : rank[y] < rank[m] => rank[y] < k
        BY <1>1, <3>4 DEF IsRank
      <4>2. \A y \in Nodes(c) : rank[y] < rank[m] => f[y] = g[y]
        BY <3>1, <3>2, <4>1
      <4> QED BY <1>2, <3>2, <4>2
    <3> QED BY <3>3, <3>4
  <2> HIDE DEF U
  <2>3. bound + 1 \in U
    BY <1>1, <2>1, <2>2, SetInduction DEF IsRank
  <2>4. PICK f : f = [m \in Nodes(c) |-> f[m]] /\ \A m \in Nodes(c) : rank[m] < bound + 1 => f[m] = Of(f, m)
    BY <2>3 DEF U
  <2>5. \A m \in Nodes(c) : rank[m] < bound + 1
    BY <1>1 DEF IsRank
  <2> HIDE DEF Of
  <2> QED BY <2>4, <2>5
<1> HIDE DEF Solves
<1>4. Solves(found)
  BY <1>3
<1>5. \A m : Projected(c, r, m) = found[m]
  BY DEF Projected, Solves
<1> HIDE DEF found, Of
<1>6. found[n] = Of(found, n)
  BY <1>4 DEF Solves
<1> QED BY <1>5, <1>6 DEF Of

\* What a case draws from are JSON values.
DrawsValues(c) ==
  /\ \A n \in Nodes(c) : Strategy(c, n).type = "values" => AreValues(Strategy(c, n).samples)
  /\ \A s \in DOMAIN c.responses : AreValues(c.responses[s])
  /\ \A r \in DOMAIN c.records :
       IsSequence(c.records[r]) /\ \A row \in ToSet(c.records[r]) : \A f \in DOMAIN row : IsValue(row[f])
  /\ c.draws.record \in Nat /\ \A n \in Nodes(c) : c.draws.value[n] \in Nat

LEMMA ValuesStand ==
  ASSUME NEW x, IsValue(x)
  PROVE  HasValue(x) /\ x # Absent /\ x # Failed
BY DEF IsValue, HasValue, Absent, Bare, Unavailable, NotAssigned, Failed

\* An element of a list that is found modulo its length.
LEMMA Wrapped ==
  ASSUME NEW s, IsSequence(s), s # << >>, NEW k \in Nat
  PROVE  s[(k % Len(s)) + 1] \in ToSet(s)
<1>1. s \in Seq(ToSet(s)) /\ Len(s) \in Nat \ {0} /\ DOMAIN s = 1..Len(s)
  BY DEF IsSequence
<1>2. (k % Len(s)) + 1 \in 1..Len(s)
  BY <1>1
<1> QED BY <1>1, <1>2

\* The values of a source of values.
LEMMA OwnAreValues ==
  ASSUME NEW c, DrawsValues(c), NEW n \in Nodes(c), Strategy(c, n).type \in {"values", "response"}
  PROVE  AreValues(OwnValues(c, Strategy(c, n)))
<1>1. AreValues(<< >>)
  <2>1. << >> \in Seq(ToSet(<< >>)) /\ ToSet(<< >>) = {}
    BY DEF ToSet
  <2> QED BY <2>1 DEF AreValues, IsSequence
<1> QED BY <1>1 DEF DrawsValues, OwnValues, Known

LEMMA KnownRecords ==
  ASSUME NEW c, DrawsValues(c), NEW r
  PROVE  /\ IsSequence(Known(c.records, r))
         /\ \A row \in ToSet(Known(c.records, r)) : \A f \in DOMAIN row : IsValue(row[f])
<1>1. IsSequence(<< >>) /\ ToSet(<< >>) = {}
  BY DEF ToSet, IsSequence
<1> QED BY <1>1 DEF DrawsValues, Known

LEMMA DrawnIsValue ==
  ASSUME NEW c, DrawsValues(c), NEW n \in Nodes(c), Strategy(c, n).type \in ScalarStrategies
  PROVE  Drawn(c, n) = Failed \/ IsValue(Drawn(c, n))
<1> DEFINE s == Strategy(c, n)
<1>1. CASE s.type # "resource"
  <2> DEFINE own == OwnValues(c, s)
  <2>1. AreValues(own)
    BY <1>1, OwnAreValues DEF ScalarStrategies
  <2>2. Drawn(c, n) = IF own = << >> THEN Failed ELSE own[(c.draws.value[n] % Len(own)) + 1]
    BY <1>1 DEF Drawn
  <2> HIDE DEF own
  <2>3. own # << >> => own[(c.draws.value[n] % Len(own)) + 1] \in ToSet(own)
    BY <2>1, Wrapped DEF AreValues, DrawsValues
  <2> QED BY <2>1, <2>2, <2>3 DEF AreValues
<1>2. CASE s.type = "resource"
  <2> DEFINE records == Known(c.records, s.resource)
             row == records[(c.draws.record % Len(records)) + 1]
  <2>1. Drawn(c, n) = IF records = << >> THEN Failed
                      ELSE IF s.field \notin DOMAIN row THEN Failed ELSE row[s.field]
    BY <1>2 DEF Drawn
  <2>2. IsSequence(records) /\ \A w \in ToSet(records) : \A f \in DOMAIN w : IsValue(w[f])
    BY KnownRecords
  <2> HIDE DEF records
  <2>3. records # << >> => row \in ToSet(records)
    BY <2>2, Wrapped DEF DrawsValues
  <2> QED BY <2>1, <2>2, <2>3
<1> QED BY <1>1, <1>2

\* What is left out is absent, and what is taken is not.
LEMMA TakenIsBuilt ==
  ASSUME NEW c, HasTree(c), DrawsValues(c), NEW n \in Nodes(c)
  PROVE  Taken(c, n) <=> Build(c, n) # Absent
<1> DEFINE below == [k \in PartsOf(c, n) |-> Build(c, k)]
           s == Strategy(c, n)
<1>1. Build(c, n) = ValueOver(c, n, below)
  BY BuildUnfold
<1>2. CASE ~Taken(c, n)
  BY <1>1, <1>2 DEF ValueOver
<1>3. CASE Taken(c, n) /\ s.type \in ScalarStrategies
  <2>1. Build(c, n) = IF n \in DOMAIN c.overrides /\ HasValue(c.overrides[n]) THEN c.overrides[n] ELSE Drawn(c, n)
    BY <1>1, <1>3 DEF ValueOver
  <2>2. Drawn(c, n) # Absent
    BY <1>3, DrawnIsValue, ValuesStand DEF Failed, Absent
  <2> QED BY <1>3, <2>1, <2>2 DEF HasValue
<1>4. CASE Taken(c, n) /\ s.type \notin ScalarStrategies
  <2> DEFINE branch == BranchTaken(c, n)
             merged == {below[k] : k \in Children(c, n, "allOf")}
             items == Children(c, n, "items")
             object == ObjectOf(c, [k \in Children(c, n, "property") |-> below[k]])
             array == ArrayOfItems(ArrayLength(c, n), below[CHOOSE k \in items : TRUE])
  <2>1. Build(c, n) = IF s.type = "variant"
                      THEN IF branch \notin Children(c, n, "oneOf") THEN Failed
                           ELSE IF below[branch] = Absent THEN Failed ELSE below[branch]
                      ELSE IF s.type = "object" /\ merged # {} THEN Merged(merged)
                      ELSE IF s.type = "object" THEN object
                      ELSE IF s.type = "array" /\ items # {} THEN array
                      ELSE Failed
    BY <1>1, <1>4 DEF ValueOver
  <2>2. Failed # Absent /\ Failed[1] = "failed" /\ Absent[1] = "absent"
    BY DEF Failed, Absent
  <2>3. Merged(merged) = Failed \/ Merged(merged)[1] = "object"
    BY DEF Merged
  <2>4. object = Failed \/ object[1] = "object"
    BY DEF ObjectOf
  <2>5. array = Failed \/ array[1] = "array"
    BY DEF ArrayOfItems
  <2> HIDE DEF below, branch, merged, items, object, array
  <2> QED BY <1>4, <2>1, <2>2, <2>3, <2>4, <2>5
<1> QED BY <1>2, <1>3, <1>4

\* An object that is built holds exactly its members that are not left out.
IsObjectOf(c, p) ==
  /\ Taken(c, p) /\ Build(c, p)[1] = "object"
  /\ \A n \in Children(c, p, "property") :
       /\ HasMember(Build(c, p), Node(c, n).name) <=> Build(c, n) # Absent
       /\ Build(c, n) # Absent => Build(c, n) # Failed /\ Build(c, p)[2][Node(c, n).name] = Build(c, n)

LEMMA ObjectIsBuilt ==
  ASSUME NEW c, HasTree(c), NEW p \in Nodes(c), Children(c, p, "allOf") = {},
         Strategy(c, p).type \in {"object", "request_body"}
  PROVE  Build(c, p) \in {Absent, Failed} \/ IsObjectOf(c, p)
<1> DEFINE below == [k \in PartsOf(c, p) |-> Build(c, k)]
           members == Children(c, p, "property")
           parts == [k \in members |-> below[k]]
           made == {m \in members : Build(c, m) # Absent}
           NameOf(m) == Node(c, m).name
<1>1. Build(c, p) = ValueOver(c, p, below)
  BY BuildUnfold
<1>2. CASE ~Taken(c, p)
  BY <1>1, <1>2 DEF ValueOver
<1>3. CASE Strategy(c, p).type = "request_body"
  BY <1>1, <1>3 DEF ValueOver, ScalarStrategies
<1>4. CASE Taken(c, p) /\ Strategy(c, p).type = "object"
  <2>1. Build(c, p) = ObjectOf(c, parts)
    BY <1>1, <1>4 DEF ValueOver, ScalarStrategies
  <2>2. DOMAIN parts = members /\ \A m \in members : parts[m] = Build(c, m)
    BY DEF Children, PartsOf
  <2> HIDE DEF parts
  <2>3. {m \in DOMAIN parts : parts[m] # Absent} = made
    BY <2>2
  <2>4. Build(c, p) = IF \E m \in made : parts[m] = Failed THEN Failed
                      ELSE <<"object", [x \in {NameOf(m) : m \in made} |->
                              parts[CHOOSE m \in made : NameOf(m) = x]]>>
    BY <2>1, <2>3 DEF ObjectOf
  <2>5. SUFFICES ASSUME ~ \E m \in made : parts[m] = Failed PROVE IsObjectOf(c, p)
    BY <2>4
  <2>6. Build(c, p)[1] = "object"
        /\ Build(c, p)[2] = [x \in {NameOf(m) : m \in made} |-> parts[CHOOSE m \in made : NameOf(m) = x]]
    BY <2>4, <2>5
  <2>7. \A m, n \in members : NameOf(m) = NameOf(n) => m = n
    BY DEF HasTree, IsTree, Children, Nodes, Node
  <2>8. ASSUME NEW n \in members
        PROVE  /\ HasMember(Build(c, p), NameOf(n)) <=> Build(c, n) # Absent
               /\ Build(c, n) # Absent => Build(c, n) # Failed /\ Build(c, p)[2][NameOf(n)] = Build(c, n)
    <3>1. NameOf(n) \in {NameOf(m) : m \in made} <=> n \in made
      BY <2>7
    <3>2. HasMember(Build(c, p), NameOf(n)) <=> n \in made
      BY <2>6, <3>1 DEF HasMember
    <3>3. n \in made => (CHOOSE m \in made : NameOf(m) = NameOf(n)) = n
      BY <2>7
    <3>4. n \in made => Build(c, p)[2][NameOf(n)] = parts[n]
      <4> HIDE DEF made, NameOf
      <4> QED BY <2>6, <3>1, <3>3
    <3> QED BY <2>2, <2>5, <3>2, <3>4
  <2> QED BY <1>4, <2>6, <2>8 DEF IsObjectOf
<1> QED BY <1>2, <1>3, <1>4

\* What a request has of the values that were built.
IsRequestOf(c, r) ==
  /\ r.hasBody <=> \E n \in Nodes(c) : Node(c, n).kind = "request_body" /\ Taken(c, n)
  /\ r.hasBody => /\ c.op.active # NoNode /\ Build(c, c.op.active) # Failed
                  /\ r.body = IF Build(c, c.op.active) = Absent THEN <<"null", 0>>
                              ELSE Build(c, c.op.active)
  /\ \A n \in Nodes(c) : Node(c, n).kind = "parameter" =>
       /\ Build(c, n) # Failed
       /\ n \in DOMAIN r.parameters <=> Build(c, n) # Absent
       /\ n \in DOMAIN r.parameters => r.parameters[n] = Build(c, n)
  /\ \A n \in DOMAIN r.parameters : n \in Nodes(c) /\ Node(c, n).kind = "parameter"
  /\ DOMAIN r.made = {n \in Nodes(c) : Reached(c, n) /\ Taken(c, n) /\ Strategy(c, n).type \in ScalarStrategies}
  /\ \A n \in DOMAIN r.made : r.made[n] = Build(c, n)
  /\ r.omitted = {n \in Nodes(c) : Reached(c, n) /\ ~Taken(c, n)}

LEMMA RequestOfCase ==
  ASSUME NEW c, NEW r, Generate(c) = <<"request", r>>
  PROVE  IsRequestOf(c, r)
<1> DEFINE bodies == {n \in Nodes(c) : Node(c, n).kind = "request_body" /\ Taken(c, n)}
           parameters == {m \in Nodes(c) : Node(c, m).kind = "parameter"}
           parts == [n \in parameters |-> Build(c, n)]
           body == BodyOf(c, bodies)
           visited == {n \in Nodes(c) : Reached(c, n)}
<1>1. Generate(c) = Assembled(c, bodies, parts, body, visited)
  BY DEF Generate
<1> HIDE DEF bodies, parts, body, visited
<1>2. ~(body = Failed \/ \E n \in DOMAIN parts : parts[n] = Failed)
  BY <1>1 DEF Assembled, Failed
<1>3. r = [parameters |-> [n \in {m \in DOMAIN parts : parts[m] # Absent} |-> parts[n]],
           hasBody |-> bodies # {}, body |-> IF body = Absent THEN <<"null", 0>> ELSE body,
           made |-> [n \in {m \in visited : Taken(c, m) /\ Strategy(c, m).type \in ScalarStrategies}
                      |-> Build(c, n)],
           omitted |-> {n \in visited : ~Taken(c, n)}]
  BY <1>1, <1>2 DEF Assembled
<1>4. /\ r.hasBody = (bodies # {}) /\ r.body = IF body = Absent THEN <<"null", 0>> ELSE body
      /\ r.parameters = [n \in {m \in DOMAIN parts : parts[m] # Absent} |-> parts[n]]
      /\ r.made = [n \in {m \in visited : Taken(c, m) /\ Strategy(c, m).type \in ScalarStrategies} |-> Build(c, n)]
      /\ r.omitted = {n \in visited : ~Taken(c, n)}
  BY <1>3
<1>5. r.hasBody <=> \E n \in Nodes(c) : Node(c, n).kind = "request_body" /\ Taken(c, n)
  BY <1>4 DEF bodies
<1>6. r.hasBody => c.op.active # NoNode /\ body = Build(c, c.op.active)
  BY <1>2, <1>4 DEF body, BodyOf
<1>7. DOMAIN parts = parameters /\ \A n \in parameters : parts[n] = Build(c, n)
  BY DEF parts
<1>8. DOMAIN r.parameters = {m \in parameters : Build(c, m) # Absent}
      /\ \A n \in DOMAIN r.parameters : r.parameters[n] = Build(c, n)
  BY <1>4, <1>7
<1>9. /\ DOMAIN r.made = {n \in Nodes(c) : Reached(c, n) /\ Taken(c, n) /\ Strategy(c, n).type \in ScalarStrategies}
      /\ \A n \in DOMAIN r.made : r.made[n] = Build(c, n)
  BY <1>4 DEF visited
<1>10. r.omitted = {n \in Nodes(c) : Reached(c, n) /\ ~Taken(c, n)}
  BY <1>4 DEF visited
<1>11. \A n \in Nodes(c) : Node(c, n).kind = "parameter" =>
         /\ Build(c, n) # Failed
         /\ n \in DOMAIN r.parameters <=> Build(c, n) # Absent
         /\ n \in DOMAIN r.parameters => r.parameters[n] = Build(c, n)
  BY <1>2, <1>7, <1>8
<1>12. \A n \in DOMAIN r.parameters : n \in Nodes(c) /\ Node(c, n).kind = "parameter"
  BY <1>8
<1>13. r.hasBody => /\ c.op.active # NoNode /\ Build(c, c.op.active) # Failed
                    /\ r.body = IF Build(c, c.op.active) = Absent THEN <<"null", 0>>
                                ELSE Build(c, c.op.active)
  BY <1>2, <1>4, <1>6
<1> QED BY <1>5, <1>9, <1>10, <1>11, <1>12, <1>13 DEF IsRequestOf

\* The edges and the kinds of an input that is plain.
LEMMA PlainEdges ==
  ASSUME NEW c, HasTree(c), NEW n \in Nodes(c), Plain(c, n)
  PROVE  /\ Node(c, n).parent = NoNode <=> Node(c, n).kind \in {"parameter", "request_body"}
         /\ Node(c, n).parent # NoNode /\ n # c.op.active =>
              /\ Node(c, n).edge = "property"
              /\ Node(c, Node(c, n).parent).kind # "request_body"
              /\ n \in Children(c, Node(c, n).parent, "property")
         /\ n = c.op.active => /\ n # NoNode /\ Node(c, n).parent # NoNode /\ Node(c, n).edge = "media"
                               /\ Node(c, Node(c, n).parent).kind = "request_body"
                               /\ Node(c, Node(c, n).parent).parent = NoNode
<1>1. /\ Node(c, n).parent = NoNode <=> Node(c, n).kind \in {"parameter", "request_body"}
      /\ Node(c, n).parent = NoNode <=> Node(c, n).edge = "root"
      /\ Node(c, n).edge = "media" <=> Node(c, n).parent # NoNode /\ Node(c, Node(c, n).parent).kind = "request_body"
      /\ n # NoNode /\ Node(c, n).parent # NoNode => Node(c, n).parent \in Nodes(c)
      /\ \A m \in Nodes(c) : Node(c, m).parent = NoNode <=> Node(c, m).kind \in {"parameter", "request_body"}
  BY DEF HasTree, IsTree, Nodes, Node
<1>2. n = c.op.active => Node(c, n).edge = "media"
  BY <1>1 DEF HasTree, IsTree, Nodes, Node
<1>3. Node(c, n).edge \in {"root", "media", "property"} /\ (Node(c, n).edge = "media" => n = c.op.active)
  BY DEF Plain
<1>4. Node(c, n).parent # NoNode /\ n # c.op.active => Node(c, n).edge = "property"
  BY <1>1, <1>3
<1>5. n # NoNode
  BY DEF HasTree, IsTree, Nodes
<1>6. n = c.op.active => /\ Node(c, n).parent # NoNode /\ Node(c, n).edge = "media"
                         /\ Node(c, Node(c, n).parent).kind = "request_body"
                         /\ Node(c, Node(c, n).parent).parent = NoNode
  BY <1>1, <1>2, <1>5
<1>7. Node(c, n).parent # NoNode /\ n # c.op.active =>
        /\ Node(c, Node(c, n).parent).kind # "request_body"
        /\ n \in Children(c, Node(c, n).parent, "property")
  BY <1>1, <1>4 DEF Children
<1> QED BY <1>1, <1>4, <1>5, <1>6, <1>7

\* The body of a request holds what was built of its plain inputs.
LEMMA BodyHolds ==
  ASSUME NEW c, HasTree(c), NEW r, IsRequestOf(c, r), r.hasBody
  PROVE  \A n \in Nodes(c) : Plain(c, n) /\ n # c.op.active /\ BodyAt(c, r, n) # Absent =>
           BodyAt(c, r, n) = Build(c, n)
<1> DEFINE T == {n \in Nodes(c) : Plain(c, n) /\ n # c.op.active /\ BodyAt(c, r, n) # Absent =>
                                    BodyAt(c, r, n) = Build(c, n)}
<1>1. PICK bound, rank : IsRank(c, rank, bound)
  BY TreeIsRanked DEF HasTree
<1>2. ASSUME NEW n \in Nodes(c), \A y \in Nodes(c) : rank[y] < rank[n] => y \in T,
             Plain(c, n), n # c.op.active, BodyAt(c, r, n) # Absent
      PROVE  BodyAt(c, r, n) = Build(c, n)
  <2> DEFINE p == Node(c, n).parent
             x == Node(c, n).name
             v == BodyAt(c, r, p)
  <2>1. p # NoNode /\ HasMember(v, x) /\ BodyAt(c, r, n) = v[2][x]
    BY <1>2, BodyAtUnfold
  <2>2. /\ p \in Nodes(c) /\ Plain(c, p) /\ Children(c, p, "allOf") = {}
        /\ Strategy(c, p).type \in {"object", "request_body"} /\ n \in Children(c, p, "property")
    BY <1>2, <2>1, PlainParent, PlainEdges
  <2>3. v[1] = "object"
    BY <2>1 DEF HasMember
  <2>4. v = Build(c, p)
    <3>1. CASE p = c.op.active
      <4>1. v = r.body
        BY <2>2, <3>1, BodyAtUnfold
      <4> HIDE DEF v
      <4> QED BY <2>3, <3>1, <4>1 DEF IsRequestOf
    <3>2. CASE p # c.op.active
      <4>1. v # Absent
        BY <2>3 DEF Absent
      <4>2. p \in T
        BY <1>1, <1>2, <2>1, <2>2 DEF IsRank
      <4> QED BY <2>2, <3>2, <4>1, <4>2
    <3> QED BY <3>1, <3>2
  <2>5. IsObjectOf(c, p)
    <3>1. Build(c, p) \notin {Absent, Failed}
      BY <2>3, <2>4 DEF Absent, Failed
    <3> QED BY <2>2, <3>1, ObjectIsBuilt
  <2>6. Build(c, n) # Absent /\ v[2][x] = Build(c, n)
    <3> HIDE DEF v
    <3> QED BY <2>1, <2>2, <2>4, <2>5 DEF IsObjectOf
  <2> QED BY <2>1, <2>6
<1>3. rank \in [Nodes(c) -> Nat]
  BY <1>1 DEF IsRank
<1>4. \A n \in Nodes(c) : (\A y \in Nodes(c) : rank[y] < rank[n] => y \in T) => n \in T
  BY <1>2
<1> HIDE DEF T
<1>5. Nodes(c) \subseteq T
  BY <1>3, <1>4, RankInduction
<1> QED BY <1>5 DEF T

LEMMA OneBody ==
  ASSUME NEW c, HasTree(c), NEW m \in Nodes(c), NEW n \in Nodes(c),
         Node(c, m).kind = "request_body", Node(c, n).kind = "request_body"
  PROVE  m = n
BY DEF HasTree, IsTree, Nodes, Node

\* What is read back of a plain input was not left out.
LEMMA RecoveredIsTaken ==
  ASSUME NEW c, HasTree(c), DrawsValues(c), NEW r, IsRequestOf(c, r), NEW n \in Nodes(c), Plain(c, n),
         Recovered(c, r)[n] # Absent
  PROVE  Taken(c, n)
<1> DEFINE above == UNION {Ancestors(c, m) : m \in DOMAIN r.made \ r.omitted}
<1>1. /\ n \notin r.omitted
      /\ \/ r.hasBody /\ Node(c, n).kind = "request_body"
         \/ r.hasBody /\ BodyAt(c, r, n) # Absent
         \/ n \in above
         \/ n \in DOMAIN r.made
         \/ n \in DOMAIN r.parameters
  BY DEF Recovered
<1>2. CASE r.hasBody /\ Node(c, n).kind = "request_body"
  BY <1>2, OneBody DEF IsRequestOf
<1>3. CASE r.hasBody /\ BodyAt(c, r, n) # Absent /\ n # c.op.active
  <2>1. BodyAt(c, r, n) = Build(c, n)
    BY <1>3, BodyHolds
  <2> QED BY <1>3, <2>1, TakenIsBuilt
<1>4. CASE r.hasBody /\ n = c.op.active
  <2> DEFINE p == Node(c, n).parent
  <2>1. /\ p # NoNode /\ p \in Nodes(c) /\ Node(c, p).kind = "request_body" /\ Node(c, p).parent = NoNode
        /\ Node(c, n).edge = "media"
    BY <1>4, PlainEdges, PlainParent
  <2>2. Ancestors(c, n) = {p}
    <3>1. Ancestors(c, p) = {} /\ Ancestors(c, n) = {p} \cup Ancestors(c, p)
      BY <2>1, AncestorsUnfold
    <3> QED BY <3>1
  <2>3. Taken(c, p)
    BY <1>4, <2>1, OneBody DEF IsRequestOf
  <2>4. Reached(c, n)
    BY <1>4, <2>1, <2>2, <2>3 DEF Reached, Entered
  <2> QED BY <1>1, <2>4 DEF IsRequestOf
<1>5. CASE n \in above
  <2>1. PICK m \in DOMAIN r.made : n \in Ancestors(c, m)
    BY <1>5
  <2>2. m \in Nodes(c) /\ Reached(c, m)
    BY DEF IsRequestOf
  <2>3. PICK k \in Ancestors(c, m) \cup {m} : Node(c, k).parent = n /\ n # NoNode
    BY <2>1, <2>2, AncestorsAre DEF AncestorFacts
  <2> QED BY <2>2, <2>3 DEF Reached, Entered
<1>6. CASE n \in DOMAIN r.made
  BY <1>6 DEF IsRequestOf
<1>7. CASE n \in DOMAIN r.parameters
  BY <1>7, TakenIsBuilt DEF IsRequestOf
<1> QED BY <1>1, <1>2, <1>3, <1>4, <1>5, <1>6, <1>7

\* A property of a value that is no array.
LEMMA PropertyValue ==
  ASSUME NEW c, NEW n, Node(c, n).edge = "property", NEW v, v[1] # "array"
  PROVE  ChildValue(c, n, v) = IF HasMember(v, Node(c, n).name) THEN v[2][Node(c, n).name] ELSE Failed
BY DEF ChildValue

\* What arrives of a plain input is what was built of it, but for a body that is null.
LEMMA OnlyBuiltArrives ==
  ASSUME NEW c, HasTree(c), DrawsValues(c), NEW r, IsRequestOf(c, r)
  PROVE  \A n \in Nodes(c) : Plain(c, n) /\ Projected(c, r, n) # Failed =>
           \/ Projected(c, r, n) = Build(c, n) /\ Build(c, n) # Absent
           \/ n = c.op.active /\ Projected(c, r, n)[1] = "null" /\ Build(c, n) = Absent
<1> DEFINE Arrived(n) ==
             \/ Projected(c, r, n) = Build(c, n) /\ Build(c, n) # Absent
             \/ n = c.op.active /\ Projected(c, r, n)[1] = "null" /\ Build(c, n) = Absent
           T == {n \in Nodes(c) : Plain(c, n) /\ Projected(c, r, n) # Failed => Arrived(n)}
<1>1. PICK bound, rank : IsRank(c, rank, bound)
  BY TreeIsRanked DEF HasTree
<1>2. ASSUME NEW n \in Nodes(c), \A y \in Nodes(c) : rank[y] < rank[n] => y \in T,
             Plain(c, n), Projected(c, r, n) # Failed
      PROVE  Arrived(n)
  <2> DEFINE p == Node(c, n).parent
             x == Node(c, n).name
             v == Projected(c, r, p)
  <2>1. CASE Node(c, n).kind = "parameter"
    BY <1>2, <2>1, ProjectedUnfold DEF IsRequestOf
  <2>2. CASE n = c.op.active /\ Node(c, n).kind # "parameter"
    <3>1. r.hasBody /\ Projected(c, r, n) = r.body
      BY <1>2, <2>2, ProjectedUnfold
    <3> QED BY <2>2, <3>1 DEF IsRequestOf
  <2>3. CASE n # c.op.active /\ Node(c, n).kind # "parameter"
    <3>1. p # NoNode /\ v # Failed /\ Projected(c, r, n) = ChildValue(c, n, v)
      BY <1>2, <2>3, ProjectedUnfold
    <3>2. /\ p \in Nodes(c) /\ Plain(c, p) /\ Children(c, p, "allOf") = {}
          /\ Strategy(c, p).type \in {"object", "request_body"} /\ n \in Children(c, p, "property")
          /\ Node(c, n).edge = "property"
      BY <1>2, <2>3, <3>1, PlainParent, PlainEdges
    <3>3. p \in T
      BY <1>1, <1>2, <3>1, <3>2 DEF IsRank
    <3> HIDE DEF v
    <3>4. CASE v = Build(c, p) /\ Build(c, p) # Absent
      <4>1. IsObjectOf(c, p)
        BY <3>1, <3>2, <3>4, ObjectIsBuilt
      <4>2. v[1] # "array"
        BY <3>4, <4>1 DEF IsObjectOf
      <4>3. HasMember(v, x) /\ Projected(c, r, n) = v[2][x]
        BY <1>2, <3>1, <3>2, <4>2, PropertyValue
      <4> QED BY <3>2, <3>4, <4>1, <4>3 DEF IsObjectOf
    <3>5. CASE v[1] = "null"
      BY <1>2, <3>1, <3>2, <3>5, PropertyValue DEF HasMember
    <3> QED BY <3>1, <3>2, <3>3, <3>4, <3>5 DEF v
  <2> QED BY <2>1, <2>2, <2>3
<1>3. rank \in [Nodes(c) -> Nat]
  BY <1>1 DEF IsRank
<1> HIDE DEF Arrived
<1>4. \A n \in Nodes(c) : (\A y \in Nodes(c) : rank[y] < rank[n] => y \in T) => n \in T
  BY <1>2
<1> HIDE DEF T
<1>5. Nodes(c) \subseteq T
  BY <1>3, <1>4, RankInduction
<1> QED BY <1>5 DEF T, Arrived

\* A plain input arrives when it and the containers above it are taken.
TakenTo(c, n) == \A a \in Ancestors(c, n) \cup {n} : Taken(c, a)

LEMMA TakenArrives ==
  ASSUME NEW c, HasTree(c), DrawsValues(c), NEW r, IsRequestOf(c, r)
  PROVE  \A n \in Nodes(c) : Plain(c, n) /\ Node(c, n).kind # "request_body" /\ TakenTo(c, n) =>
           Projected(c, r, n) = Build(c, n) /\ Build(c, n) \notin {Absent, Failed}
<1> DEFINE Arrives(n) == Projected(c, r, n) = Build(c, n) /\ Build(c, n) \notin {Absent, Failed}
           T == {n \in Nodes(c) : Plain(c, n) /\ Node(c, n).kind # "request_body" /\ TakenTo(c, n) => Arrives(n)}
<1>1. PICK bound, rank : IsRank(c, rank, bound)
  BY TreeIsRanked DEF HasTree
<1>2. ASSUME NEW n \in Nodes(c), \A y \in Nodes(c) : rank[y] < rank[n] => y \in T,
             Plain(c, n), Node(c, n).kind # "request_body", TakenTo(c, n)
      PROVE  Arrives(n)
  <2> DEFINE p == Node(c, n).parent
             x == Node(c, n).name
             v == Projected(c, r, p)
  <2>0. Build(c, n) # Absent
    BY <1>2, TakenIsBuilt DEF TakenTo
  <2>1. CASE Node(c, n).kind = "parameter"
    BY <2>0, <2>1, ProjectedUnfold DEF IsRequestOf
  <2>2. CASE n = c.op.active /\ Node(c, n).kind # "parameter"
    <3>1. p \in Nodes(c) /\ p \in Ancestors(c, n) /\ Node(c, p).kind = "request_body"
      BY <1>2, <2>2, PlainEdges, PlainParent
    <3>2. r.hasBody
      BY <1>2, <3>1 DEF IsRequestOf, TakenTo
    <3>3. Projected(c, r, n) = r.body
      BY <2>2, <3>2, ProjectedUnfold
    <3> QED BY <2>0, <2>2, <3>2, <3>3 DEF IsRequestOf
  <2>3. CASE n # c.op.active /\ Node(c, n).kind # "parameter"
    <3>1. p # NoNode
      BY <1>2, <2>3, PlainEdges
    <3>2. /\ p \in Nodes(c) /\ Plain(c, p) /\ Children(c, p, "allOf") = {}
          /\ Strategy(c, p).type \in {"object", "request_body"} /\ n \in Children(c, p, "property")
          /\ Node(c, n).edge = "property" /\ Node(c, p).kind # "request_body"
          /\ Ancestors(c, n) = {p} \cup Ancestors(c, p)
      BY <1>2, <2>3, <3>1, PlainParent, PlainEdges
    <3>3. p \in T /\ TakenTo(c, p)
      BY <1>1, <1>2, <3>1, <3>2 DEF IsRank, TakenTo
    <3>4. v = Build(c, p) /\ Build(c, p) \notin {Absent, Failed}
      BY <3>2, <3>3
    <3>5. IsObjectOf(c, p)
      BY <3>2, <3>4, ObjectIsBuilt
    <3>6. Projected(c, r, n) = ChildValue(c, n, v)
      BY <2>3, <3>1, <3>2, <3>4, ProjectedUnfold
    <3> HIDE DEF v
    <3>7. HasMember(v, x) /\ v[2][x] = Build(c, n) /\ Build(c, n) # Failed /\ v[1] # "array"
      BY <2>0, <3>2, <3>4, <3>5 DEF IsObjectOf
    <3> QED BY <2>0, <3>2, <3>6, <3>7, PropertyValue
  <2> QED BY <2>1, <2>2, <2>3
<1>3. rank \in [Nodes(c) -> Nat]
  BY <1>1 DEF IsRank
<1> HIDE DEF Arrives
<1>4. \A n \in Nodes(c) : (\A y \in Nodes(c) : rank[y] < rank[n] => y \in T) => n \in T
  BY <1>2
<1> HIDE DEF T
<1>5. Nodes(c) \subseteq T
  BY <1>3, <1>4, RankInduction
<1> QED BY <1>5 DEF T, Arrives

-----------------------------------------------------------------------------
(* Two cases over one Operation read alike.                                *)

LEMMA SameAncestors ==
  ASSUME NEW c, HasTree(c), NEW d, d.op = c.op
  PROVE  \A n \in Nodes(c) : Ancestors(d, n) = Ancestors(c, n)
<1>0. HasTree(d) /\ Nodes(d) = Nodes(c) /\ \A n : Node(d, n) = Node(c, n)
  BY DEF HasTree, Nodes, Node
<1>1. PICK bound, rank : IsRank(c, rank, bound)
  BY TreeIsRanked DEF HasTree
<1> DEFINE T == {n \in Nodes(c) : Ancestors(d, n) = Ancestors(c, n)}
<1>2. ASSUME NEW n \in Nodes(c), \A y \in Nodes(c) : rank[y] < rank[n] => y \in T PROVE n \in T
  <2>1. /\ Ancestors(c, n) = IF Node(c, n).parent = NoNode THEN {}
                             ELSE {Node(c, n).parent} \cup Ancestors(c, Node(c, n).parent)
        /\ Ancestors(d, n) = IF Node(c, n).parent = NoNode THEN {}
                             ELSE {Node(c, n).parent} \cup Ancestors(d, Node(c, n).parent)
    BY <1>0, AncestorsUnfold
  <2>2. Node(c, n).parent # NoNode => Node(c, n).parent \in T
    BY <1>1, <1>2, ParentIsContainer DEF IsRank
  <2> QED BY <2>1, <2>2
<1>3. rank \in [Nodes(c) -> Nat]
  BY <1>1 DEF IsRank
<1> HIDE DEF T
<1>4. Nodes(c) \subseteq T
  BY <1>2, <1>3, RankInduction
<1> QED BY <1>4 DEF T

LEMMA SameBody ==
  ASSUME NEW c, HasTree(c), NEW d, d.op = c.op, NEW r
  PROVE  \A n \in Nodes(c) : BodyAt(d, r, n) = BodyAt(c, r, n)
<1>0. HasTree(d) /\ Nodes(d) = Nodes(c) /\ \A n : Node(d, n) = Node(c, n)
  BY DEF HasTree, Nodes, Node
<1>1. PICK bound, rank : IsRank(c, rank, bound)
  BY TreeIsRanked DEF HasTree
<1> DEFINE T == {n \in Nodes(c) : BodyAt(d, r, n) = BodyAt(c, r, n)}
<1>2. ASSUME NEW n \in Nodes(c), \A y \in Nodes(c) : rank[y] < rank[n] => y \in T PROVE n \in T
  <2> DEFINE Of(v) == IF n = c.op.active THEN r.body
                      ELSE IF Node(c, n).parent = NoNode \/ Node(c, n).edge # "property" THEN Absent
                      ELSE IF HasMember(v, Node(c, n).name) THEN v[2][Node(c, n).name] ELSE Absent
  <2>1. BodyAt(c, r, n) = Of(BodyAt(c, r, Node(c, n).parent))
    BY BodyAtUnfold
  <2>2. BodyAt(d, r, n) = Of(BodyAt(d, r, Node(c, n).parent))
    BY <1>0, BodyAtUnfold
  <2>3. Node(c, n).parent # NoNode => Node(c, n).parent \in T
    BY <1>1, <1>2, ParentIsContainer DEF IsRank
  <2> QED BY <2>1, <2>2, <2>3
<1>3. rank \in [Nodes(c) -> Nat]
  BY <1>1 DEF IsRank
<1> HIDE DEF T
<1>4. Nodes(c) \subseteq T
  BY <1>2, <1>3, RankInduction
<1> QED BY <1>4 DEF T

LEMMA SameProjected ==
  ASSUME NEW c, HasTree(c), NEW d, d.op = c.op, NEW r
  PROVE  \A n \in Nodes(c) : Projected(d, r, n) = Projected(c, r, n)
<1>0. HasTree(d) /\ Nodes(d) = Nodes(c) /\ \A n : Node(d, n) = Node(c, n)
  BY DEF HasTree, Nodes, Node
<1>1. PICK bound, rank : IsRank(c, rank, bound)
  BY TreeIsRanked DEF HasTree
<1> DEFINE T == {n \in Nodes(c) : Projected(d, r, n) = Projected(c, r, n)}
<1>2. ASSUME NEW n \in Nodes(c), \A y \in Nodes(c) : rank[y] < rank[n] => y \in T PROVE n \in T
  <2> DEFINE Of(v) == IF Node(c, n).kind = "parameter"
                      THEN IF n \in DOMAIN r.parameters THEN r.parameters[n] ELSE Failed
                      ELSE IF n = c.op.active THEN IF r.hasBody THEN r.body ELSE Failed
                      ELSE IF Node(c, n).parent = NoNode \/ Node(c, n).edge = "media" THEN Failed
                      ELSE IF v = Failed THEN Failed
                      ELSE ChildValue(c, n, v)
  <2>1. Projected(c, r, n) = Of(Projected(c, r, Node(c, n).parent))
    BY ProjectedUnfold
  <2>2. Projected(d, r, n) = Of(Projected(d, r, Node(c, n).parent))
    <3>1. \A v : ChildValue(d, n, v) = ChildValue(c, n, v)
      <4>1. ASSUME NEW v PROVE ChildValue(d, n, v) = ChildValue(c, n, v)
        <5> DEFINE Said(x, e) == LET held == Filter(v[2], LAMBDA w : HasMember(w, x))
                               IN  CASE e = "items" -> IF v[1] = "array" THEN v ELSE Failed
                                     [] e = "property" /\ v[1] # "array" ->
                                          IF HasMember(v, x) THEN v[2][x] ELSE Failed
                                     [] e = "property" /\ v[1] = "array" ->
                                          IF held = << >> THEN Failed
                                          ELSE <<"array", [i \in DOMAIN held |-> held[i][2][x]]>>
                                     [] OTHER -> v
        <5>1. ChildValue(c, n, v) = Said(Node(c, n).name, Node(c, n).edge)
          BY DEF ChildValue
        <5>2. ChildValue(d, n, v) = Said(Node(d, n).name, Node(d, n).edge)
          BY DEF ChildValue
        <5> HIDE DEF Said
        <5> QED BY <1>0, <5>1, <5>2
      <4> QED BY <4>1
    <3> QED BY <1>0, <3>1, ProjectedUnfold
  <2>3. Node(c, n).parent # NoNode => Node(c, n).parent \in T
    BY <1>1, <1>2, ParentIsContainer DEF IsRank
  <2> QED BY <2>1, <2>2, <2>3
<1>3. rank \in [Nodes(c) -> Nat]
  BY <1>1 DEF IsRank
<1> HIDE DEF T
<1>4. Nodes(c) \subseteq T
  BY <1>2, <1>3, RankInduction
<1> QED BY <1>4 DEF T

LEMMA SameRecovered ==
  ASSUME NEW c, HasTree(c), NEW d, d.op = c.op, NEW r, DOMAIN r.made \subseteq Nodes(c)
  PROVE  Recovered(d, r) = Recovered(c, r)
<1>1. Nodes(d) = Nodes(c) /\ \A n : Node(d, n) = Node(c, n)
  BY DEF Nodes, Node
<1>2. UNION {Ancestors(d, n) : n \in DOMAIN r.made \ r.omitted} = UNION {Ancestors(c, n) : n \in DOMAIN r.made \ r.omitted}
  BY SameAncestors
<1>3. \A n \in Nodes(c) : BodyAt(d, r, n) = BodyAt(c, r, n)
  BY SameBody
<1>4. \A n, v : Assigned(d, n, v) = Assigned(c, n, v)
  BY <1>1 DEF Assigned
<1> QED BY <1>1, <1>2, <1>3, <1>4 DEF Recovered

LEMMA SamePlain ==
  ASSUME NEW c, HasTree(c), NEW d, d.op = c.op, d.strategy = c.strategy
  PROVE  \A n \in Nodes(c) : Plain(d, n) <=> Plain(c, n)
<1>1. Nodes(d) = Nodes(c) /\ \A n : Node(d, n) = Node(c, n) /\ Strategy(d, n) = Strategy(c, n)
  BY DEF Nodes, Node, Strategy
<1>2. \A n \in Nodes(c) : Ancestors(d, n) = Ancestors(c, n)
  BY SameAncestors
<1>3. \A n, e : Children(d, n, e) = Children(c, n, e)
  BY <1>1 DEF Children
<1> QED BY <1>1, <1>2, <1>3 DEF Plain

-----------------------------------------------------------------------------
(* The candidates of a search.                                             *)

\* The elements of parts of sequences.
LEMMA JoinedHas ==
  ASSUME NEW s, IsSequence(s), NEW t, IsSequence(t)
  PROVE  IsSequence(s \o t) /\ ToSet(s \o t) = ToSet(s) \cup ToSet(t)
<1> DEFINE T == ToSet(s) \cup ToSet(t)
<1>1. s \in Seq(T) /\ t \in Seq(T)
  BY DEF IsSequence
<1>2. /\ s \o t \in Seq(T) /\ Len(s) \in Nat /\ Len(t) \in Nat /\ Len(s \o t) = Len(s) + Len(t)
      /\ \A i \in 1..(Len(s) + Len(t)) : (s \o t)[i] = IF i <= Len(s) THEN s[i] ELSE t[i - Len(s)]
  BY <1>1
<1>3. DOMAIN s = 1..Len(s) /\ DOMAIN t = 1..Len(t) /\ DOMAIN (s \o t) = 1..(Len(s) + Len(t))
  BY <1>1, <1>2
<1>4. ASSUME NEW x \in ToSet(s \o t) PROVE x \in T
  <2>1. PICK i \in DOMAIN (s \o t) : x = (s \o t)[i]
    BY <1>4 DEF ToSet
  <2>2. CASE i <= Len(s)
    BY <1>2, <1>3, <2>1, <2>2 DEF ToSet
  <2>3. CASE ~(i <= Len(s))
    <3>1. i - Len(s) \in DOMAIN t
      BY <1>2, <1>3, <2>3
    <3> QED BY <1>2, <1>3, <2>1, <2>3, <3>1 DEF ToSet
  <2> QED BY <2>2, <2>3
<1>5. ASSUME NEW x \in ToSet(s) PROVE x \in ToSet(s \o t)
  <2>1. PICK i \in DOMAIN s : x = s[i]
    BY <1>5 DEF ToSet
  <2>2. i \in DOMAIN (s \o t) /\ (s \o t)[i] = x
    BY <1>2, <1>3, <2>1
  <2> QED BY <2>2 DEF ToSet
<1>6. ASSUME NEW x \in ToSet(t) PROVE x \in ToSet(s \o t)
  <2>1. PICK i \in DOMAIN t : x = t[i]
    BY <1>6 DEF ToSet
  <2>2. i + Len(s) \in DOMAIN (s \o t) /\ (s \o t)[i + Len(s)] = x
    BY <1>2, <1>3, <2>1
  <2> QED BY <2>2 DEF ToSet
<1>7. IsSequence(s \o t)
  <2> HIDE DEF T
  <2> QED BY <1>2, SequenceIsSequence
<1>8. ToSet(s \o t) = ToSet(s) \cup ToSet(t)
  BY <1>4, <1>5, <1>6
<1> QED BY <1>7, <1>8

\* A part of a sequence, by its positions.
LEMMA ElementsHave ==
  ASSUME NEW s, IsSequence(s), NEW S \in SUBSET (DOMAIN s)
  PROVE  IsSequence(ElementsAt(s, S)) /\ ToSet(ElementsAt(s, S)) = {s[i] : i \in S}
<1> DEFINE e == ElementsAt(s, S)
           T == ToSet(s)
<1>1. s \in Seq(T) /\ S \in SUBSET (DOMAIN s)
  BY DEF IsSequence
<1> HIDE DEF T
<1>2. /\ e \in Seq(T)
      /\ \A k \in DOMAIN e : \E i \in S : e[k] = s[i]
      /\ \A i \in S : \E k \in DOMAIN e : e[k] = s[i]
  BY <1>1, Elements
<1> HIDE DEF e
<1>3. IsSequence(e)
  BY <1>2, SequenceIsSequence
<1>4. ToSet(e) = {s[i] : i \in S}
  BY <1>2 DEF ToSet
<1> QED BY <1>3, <1>4 DEF e

LEMMA DistinctHas ==
  ASSUME NEW s, IsSequence(s)
  PROVE  IsSequence(Distinct(s)) /\ ToSet(Distinct(s)) = ToSet(s)
<1> DEFINE S == {i \in DOMAIN s : \A j \in 1..(i - 1) : s[j] # s[i]}
           U == {k \in Nat : \A i \in DOMAIN s : i <= k => s[i] \in {s[j] : j \in S}}
<1>1. Distinct(s) = ElementsAt(s, S)
  BY DEF Distinct
<1>2. IsSequence(ElementsAt(s, S)) /\ ToSet(ElementsAt(s, S)) = {s[i] : i \in S}
  BY ElementsHave
<1>3. Len(s) \in Nat /\ DOMAIN s = 1..Len(s)
  BY DEF IsSequence
<1>4. 0 \in U
  BY <1>3
<1>5. ASSUME NEW k \in Nat, k \in U PROVE k + 1 \in U
  <2>1. ASSUME NEW i \in DOMAIN s, i <= k + 1 PROVE s[i] \in {s[j] : j \in S}
    <3>1. CASE i \in S
      BY <3>1
    <3>2. CASE i \notin S
      <4>1. PICK j \in 1..(i - 1) : s[j] = s[i]
        BY <3>2
      <4>2. j \in DOMAIN s /\ j <= k
        BY <1>3, <2>1, <4>1
      <4>3. s[j] \in {s[l] : l \in S}
        BY <1>5, <4>2
      <4> QED BY <4>1, <4>3
    <3> QED BY <3>1, <3>2
  <2> HIDE DEF S
  <2> QED BY <2>1
<1> HIDE DEF U
<1>6. Len(s) \in U
  BY <1>3, <1>4, <1>5, SetInduction
<1>7. ToSet(s) = {s[i] : i \in S}
  <2>1. \A i \in DOMAIN s : s[i] \in {s[j] : j \in S}
    BY <1>3, <1>6 DEF U
  <2> QED BY <2>1 DEF ToSet
<1> QED BY <1>1, <1>2, <1>7

LEMMA BaselineFirstHas ==
  ASSUME NEW s, IsSequence(s), NEW x
  PROVE  IsSequence(BaselineFirst(x, s)) /\ ToSet(BaselineFirst(x, s)) \subseteq ToSet(s)
<1> DEFINE S == {i \in DOMAIN s : s[i] # x}
<1>1. CASE ~Contains(s, x)
  BY <1>1 DEF BaselineFirst
<1>2. CASE Contains(s, x)
  <2>1. BaselineFirst(x, s) = <<x>> \o ElementsAt(s, S)
    BY <1>2 DEF BaselineFirst, Filter
  <2>2. IsSequence(ElementsAt(s, S)) /\ ToSet(ElementsAt(s, S)) = {s[i] : i \in S}
    BY ElementsHave
  <2>3. IsSequence(<<x>>) /\ ToSet(<<x>>) = {x}
    BY DEF ToSet, IsSequence
  <2>4. x \in ToSet(s)
    BY <1>2 DEF Contains, ToSet, IsSequence
  <2>5. ToSet(<<x>> \o ElementsAt(s, S)) = {x} \cup {s[i] : i \in S} /\ IsSequence(<<x>> \o ElementsAt(s, S))
    BY <2>2, <2>3, JoinedHas
  <2> QED BY <2>1, <2>4, <2>5 DEF ToSet
<1> QED BY <1>1, <1>2

LEMMA PrefixHas ==
  ASSUME NEW s, IsSequence(s), NEW k \in 0..Len(s)
  PROVE  IsSequence(SubSeq(s, 1, k)) /\ ToSet(SubSeq(s, 1, k)) \subseteq ToSet(s)
<1>1. s \in Seq(ToSet(s)) /\ Len(s) \in Nat /\ DOMAIN s = 1..Len(s)
  BY DEF IsSequence
<1>2. /\ SubSeq(s, 1, k) \in Seq(ToSet(s)) /\ Len(SubSeq(s, 1, k)) = k
      /\ \A i \in 1..k : SubSeq(s, 1, k)[i] = s[i]
  BY <1>1
<1>3. \A x \in ToSet(SubSeq(s, 1, k)) : x \in ToSet(s)
  BY <1>1, <1>2 DEF ToSet
<1> QED BY <1>2, <1>3, SequenceIsSequence

LEMMA ShortHas ==
  ASSUME NEW s, IsSequence(s)
  PROVE  IsSequence(Short(s)) /\ ToSet(Short(s)) \subseteq ToSet(s)
<1> DEFINE k == IF Len(s) < MaxDomain THEN Len(s) ELSE MaxDomain
<1>1. Len(s) \in Nat /\ MaxDomain \in Nat
  BY SolverAssumption DEF IsSequence
<1>2. k \in 0..Len(s)
  BY <1>1
<1>3. Short(s) = SubSeq(s, 1, k)
  BY DEF Short
<1> HIDE DEF k
<1> QED BY <1>2, <1>3, PrefixHas

\* An input that the document or its Generator asks for.
Mandatory(c, n) == Node(c, n).required \/ c.chance[n] = "always"

\* What an input may be assigned: a mandatory one is there, and one with a Generator of
\* values has a value.
Fine(c, n, x) ==
  /\ Mandatory(c, n) => x # Absent
  /\ x # Absent /\ Strategy(c, n).type \in ScalarStrategies => HasValue(x)

LEMMA SmallSequences ==
  /\ IsSequence(<< >>) /\ ToSet(<< >>) = {}
  /\ \A x : IsSequence(<<x>>) /\ ToSet(<<x>>) = {x}
BY DEF ToSet, IsSequence

LEMMA OwnCandidates ==
  ASSUME NEW c, DrawsValues(c), NEW n \in Nodes(c), Strategy(c, n).type \in ScalarStrategies, NEW b
  PROVE  /\ IsSequence(ValueCandidates(c, n, b))
         /\ \A x \in ToSet(ValueCandidates(c, n, b)) : HasValue(x)
<1> DEFINE s == Strategy(c, n)
           known == Known(c.records, s.resource)
           S == {i \in DOMAIN known : s.field \in DOMAIN known[i] /\ IsScalar(known[i][s.field])}
           rows == ElementsAt(known, S)
           fields == [i \in DOMAIN rows |-> rows[i][s.field]]
           own == IF s.type # "resource" THEN OwnValues(c, s) ELSE fields
           first == IF HasValue(b) THEN <<b>> ELSE << >>
<1>1. ValueCandidates(c, n, b) = Short(Distinct(first \o own))
  BY DEF ValueCandidates, Filter
<1>2. IsSequence(own) /\ \A x \in ToSet(own) : IsValue(x)
  <2>1. CASE s.type # "resource"
    <3>1. AreValues(OwnValues(c, s))
      BY <2>1, OwnAreValues DEF ScalarStrategies
    <3> QED BY <2>1, <3>1 DEF AreValues
  <2>2. CASE s.type = "resource"
    <3>1. IsSequence(known) /\ \A row \in ToSet(known) : \A f \in DOMAIN row : IsValue(row[f])
      BY KnownRecords
    <3> HIDE DEF known
    <3>2. IsSequence(rows) /\ ToSet(rows) = {known[i] : i \in S}
      BY <3>1, ElementsHave
    <3>3. \A row \in ToSet(rows) : IsValue(row[s.field])
      BY <3>1, <3>2 DEF ToSet
    <3> HIDE DEF rows
    <3>4. Len(rows) \in Nat /\ DOMAIN rows = 1..Len(rows)
      BY <3>2 DEF IsSequence
    <3>5. IsSequence(fields)
      <4>1. fields = [i \in 1..Len(rows) |-> fields[i]]
        BY <3>4
      <4> HIDE DEF fields
      <4> QED BY <3>4, <4>1, MappedIsSequence
    <3>6. \A x \in ToSet(fields) : IsValue(x)
      BY <3>3 DEF ToSet
    <3> HIDE DEF fields
    <3> QED BY <2>2, <3>5, <3>6
  <2> QED BY <2>1, <2>2
<1> HIDE DEF own
<1>3. IsSequence(first) /\ \A x \in ToSet(first) : HasValue(x)
  BY SmallSequences
<1> HIDE DEF first
<1>4. IsSequence(first \o own) /\ \A x \in ToSet(first \o own) : HasValue(x)
  BY <1>2, <1>3, JoinedHas, ValuesStand
<1>5. IsSequence(Distinct(first \o own)) /\ \A x \in ToSet(Distinct(first \o own)) : HasValue(x)
  BY <1>4, DistinctHas
<1> QED BY <1>1, <1>5, ShortHas

\* The candidates of one input.
LEMMA DomainIsFine ==
  ASSUME NEW c, DrawsValues(c), NEW n \in Nodes(c), NEW b
  PROVE  IsSequence(Domain(c, n, b)) /\ \A x \in ToSet(Domain(c, n, b)) : Fine(c, n, x)
<1> DEFINE choices == Presence(c, n, b)
           scalar == Strategy(c, n).type \in ScalarStrategies
           Of(choice) == IF ~choice THEN <<Absent>>
                         ELSE IF scalar THEN ValueCandidates(c, n, b) ELSE <<Bare>>
           s == IF Len(choices) = 1 THEN Of(choices[1]) ELSE Of(choices[1]) \o Of(choices[2])
<1>1. Domain(c, n, b) = BaselineFirst(b, s)
  BY DEF Domain
<1>2. \/ choices = <<TRUE>>
      \/ ~Mandatory(c, n) /\ choices = <<FALSE>>
      \/ ~Mandatory(c, n) /\ choices = <<b # Absent, b = Absent>>
  BY DEF Presence, Mandatory
<1>3. IsSequence(Of(TRUE)) /\ \A x \in ToSet(Of(TRUE)) : x # Absent /\ (scalar => HasValue(x))
  <2>1. Absent # Bare
    BY DEF Absent, Bare
  <2> QED BY <2>1, SmallSequences, OwnCandidates DEF HasValue
<1>4. IsSequence(Of(FALSE)) /\ ToSet(Of(FALSE)) = {Absent}
  BY SmallSequences
<1>5. Fine(c, n, Absent) <=> ~Mandatory(c, n)
  BY DEF Fine
<1>6. \A x : x # Absent /\ (scalar => HasValue(x)) => Fine(c, n, x)
  BY DEF Fine
<1> DEFINE yes == Of(TRUE)
           no == Of(FALSE)
<1>7. \/ s = yes
      \/ ~Mandatory(c, n) /\ s \in {no, yes \o no, no \o yes}
  <2>1. CASE choices = <<TRUE>>
    <3>1. choices[1] = TRUE /\ Len(choices) = 1
      BY <2>1
    <3> HIDE DEF choices
    <3>2. s = yes
      BY <3>1
    <3> QED BY <3>2
  <2>2. CASE ~Mandatory(c, n) /\ choices = <<FALSE>>
    <3>1. choices[1] = FALSE /\ Len(choices) = 1
      BY <2>2
    <3> HIDE DEF choices
    <3> QED BY <2>2, <3>1
  <2>3. CASE ~Mandatory(c, n) /\ choices = <<b # Absent, b = Absent>>
    <3>1. CASE b = Absent
      <4>1. choices[1] = FALSE /\ choices[2] = TRUE /\ Len(choices) = 2
        <5>1. (b # Absent) = FALSE /\ (b = Absent) = TRUE
          BY <3>1
        <5>2. choices = <<FALSE, TRUE>>
          BY <2>3, <5>1, Zenon
        <5> QED BY <5>2
      <4> HIDE DEF choices
      <4>2. s = no \o yes
        BY <4>1
      <4> QED BY <2>3, <4>2
    <3>2. CASE b # Absent
      <4>1. choices[1] = TRUE /\ choices[2] = FALSE /\ Len(choices) = 2
        <5>1. (b # Absent) = TRUE /\ (b = Absent) = FALSE
          BY <3>2
        <5>2. choices = <<TRUE, FALSE>>
          BY <2>3, <5>1, Zenon
        <5> QED BY <5>2
      <4> HIDE DEF choices
      <4>2. s = yes \o no
        BY <4>1
      <4> QED BY <2>3, <4>2
    <3> QED BY <3>1, <3>2
  <2> QED BY <1>2, <2>1, <2>2, <2>3
<1> HIDE DEF s, scalar
<1>8. IsSequence(s) /\ \A x \in ToSet(s) : Fine(c, n, x)
  <2>1. /\ IsSequence(yes) /\ \A x \in ToSet(yes) : Fine(c, n, x)
        /\ IsSequence(no) /\ (~Mandatory(c, n) => \A x \in ToSet(no) : Fine(c, n, x))
    BY <1>3, <1>4, <1>5, <1>6
  <2> HIDE DEF yes, no
  <2>2. CASE s = yes
    BY <2>1, <2>2
  <2>3. CASE ~Mandatory(c, n) /\ s = no
    BY <2>1, <2>3
  <2>4. CASE ~Mandatory(c, n) /\ s = yes \o no
    BY <2>1, <2>4, JoinedHas
  <2>5. CASE ~Mandatory(c, n) /\ s = no \o yes
    BY <2>1, <2>5, JoinedHas
  <2> QED BY <1>7, <2>2, <2>3, <2>4, <2>5
<1> QED BY <1>1, <1>8, BaselineFirstHas

\* A unit of the search: its candidates give every one of its inputs what it may have.
IsUnit(c, u) ==
  /\ u.nodes \subseteq Nodes(c) /\ IsSequence(u.candidates)
  /\ \A x \in ToSet(u.candidates) : \A n \in u.nodes : Fine(c, n, x[n])

LEMMA ValuesAreFine ==
  ASSUME NEW c, NEW n, NEW x, IsValue(x)
  PROVE  Fine(c, n, x)
BY ValuesStand DEF Fine

LEMMA AloneIsUnit ==
  ASSUME NEW c, DrawsValues(c), NEW n \in Nodes(c), NEW b
  PROVE  IsUnit(c, [nodes |-> {n}, candidates |-> Alone(n, Domain(c, n, b))])
<1> DEFINE d == Domain(c, n, b)
           rows == [i \in DOMAIN d |-> [m \in {n} |-> d[i]]]
<1>1. IsSequence(d) /\ \A x \in ToSet(d) : Fine(c, n, x)
  BY DomainIsFine
<1> HIDE DEF d
<1>2. Len(d) \in Nat /\ DOMAIN d = 1..Len(d)
  BY <1>1 DEF IsSequence
<1>3. IsSequence(rows)
  <2>1. rows = [i \in 1..Len(d) |-> rows[i]]
    BY <1>2
  <2> HIDE DEF rows
  <2> QED BY <1>2, <2>1, MappedIsSequence
<1>4. \A x \in ToSet(rows) : Fine(c, n, x[n])
  <2>1. \A i \in DOMAIN d : Fine(c, n, d[i])
    BY <1>1 DEF ToSet
  <2> QED BY <2>1 DEF ToSet
<1> HIDE DEF rows
<1>5. IsSequence(rows \o << >>) /\ ToSet(rows \o << >>) = ToSet(rows)
  BY <1>3, JoinedHas, SmallSequences
<1>6. Alone(n, d) = rows \o << >>
  BY DEF Alone, rows
<1>7. IsUnit(c, [nodes |-> {n}, candidates |-> Alone(n, d)])
  <2> HIDE DEF Fine
  <2> QED BY <1>4, <1>5, <1>6 DEF IsUnit
<1> QED BY <1>7 DEF d

\* The inputs of a resource are inputs.
LEMMA ComponentsAreInputs ==
  ASSUME NEW c, HasTree(c), NEW r
  PROVE  Range(Components(c, r)) \subseteq Nodes(c)
<1> DEFINE ids == c.op.ids
           Fitting(n) == Strategy(c, n).type = "resource" /\ Strategy(c, n).resource = r
           named == ElementsAt(ids, {i \in DOMAIN ids : Fitting(ids[i])})
           NameFields == {Strategy(c, named[i]).field : i \in DOMAIN named}
           At(f) == {i \in DOMAIN named : Strategy(c, named[i]).field = f}
<1>1. Components(c, r) = [f \in NameFields |-> Last(ElementsAt(named, At(f)))]
  BY DEF Components, Filter
<1>2. IsSequence(ids) /\ ToSet(ids) = Nodes(c)
  BY DEF HasTree, IsTree, Nodes
<1>3. IsSequence(named) /\ ToSet(named) \subseteq Nodes(c)
  <2>1. IsSequence(named) /\ ToSet(named) = {ids[k] : k \in {i \in DOMAIN ids : Fitting(ids[i])}}
    BY <1>2, ElementsHave
  <2> QED BY <1>2, <2>1 DEF ToSet
<1>4. ASSUME NEW f \in NameFields PROVE Last(ElementsAt(named, At(f))) \in Nodes(c)
  <2> DEFINE e == ElementsAt(named, At(f))
  <2>1. At(f) # {} /\ At(f) \in SUBSET (DOMAIN named)
    OBVIOUS
  <2> HIDE DEF At, named
  <2>2. IsSequence(e) /\ ToSet(e) = {named[i] : i \in At(f)}
    BY <1>3, <2>1, ElementsHave
  <2>3. ToSet(e) # {} /\ ToSet(e) \subseteq Nodes(c)
    BY <1>3, <2>1, <2>2 DEF ToSet
  <2> HIDE DEF e
  <2>4. e \in Seq(ToSet(e)) /\ e # << >>
    BY <2>2, <2>3, SmallSequences DEF IsSequence
  <2>5. Last(e) \in ToSet(e)
    BY <2>4 DEF Last
  <2> QED BY <2>3, <2>5 DEF e
<1> HIDE DEF At, named, NameFields
<1> QED BY <1>1, <1>4 DEF Range

LEMMA RecordsAreUnit ==
  ASSUME NEW c, HasTree(c), DrawsValues(c), NEW r \in DOMAIN c.records, NEW base
  PROVE  IsUnit(c, [nodes |-> Range(Components(c, r)), candidates |-> RecordCandidates(c, r, base)])
<1> DEFINE parts == Components(c, r)
           records == c.records[r]
           rows == ElementsAt(records, {i \in DOMAIN records : DOMAIN parts \subseteq DOMAIN records[i]})
           Row(row) == [n \in Range(parts) |-> row[CHOOSE f \in DOMAIN parts : parts[f] = n]]
           all == [i \in DOMAIN rows |-> Row(rows[i])]
           first == [n \in Range(parts) |-> base[n]]
<1>1. RecordCandidates(c, r, base) = Short(BaselineFirst(first, Distinct(all)))
  BY DEF RecordCandidates, Filter
<1>2. IsSequence(records) /\ \A row \in ToSet(records) : \A f \in DOMAIN row : IsValue(row[f])
  BY DEF DrawsValues
<1> HIDE DEF parts, records
<1>3. /\ IsSequence(rows)
      /\ ToSet(rows) = {records[i] : i \in {i \in DOMAIN records : DOMAIN parts \subseteq DOMAIN records[i]}}
  BY <1>2, ElementsHave
<1>4. \A row \in ToSet(rows) : \A f \in DOMAIN parts : IsValue(row[f])
  BY <1>2, <1>3 DEF ToSet
<1> HIDE DEF rows
<1>5. Len(rows) \in Nat /\ DOMAIN rows = 1..Len(rows)
  BY <1>3 DEF IsSequence
<1>6. IsSequence(all)
  <2>1. all = [i \in 1..Len(rows) |-> all[i]]
    BY <1>5
  <2> HIDE DEF all
  <2> QED BY <1>5, <2>1, MappedIsSequence
<1>7. \A x \in ToSet(all) : \A n \in Range(parts) : Fine(c, n, x[n])
  <2>1. ASSUME NEW i \in DOMAIN rows, NEW n \in Range(parts)
        PROVE  Fine(c, n, all[i][n])
    <3> DEFINE f == CHOOSE f \in DOMAIN parts : parts[f] = n
    <3>1. f \in DOMAIN parts
      BY DEF Range
    <3>2. all[i][n] = rows[i][f]
      OBVIOUS
    <3>3. rows[i] \in ToSet(rows)
      BY DEF ToSet
    <3> HIDE DEF f
    <3>4. IsValue(rows[i][f])
      BY <1>4, <3>1, <3>3
    <3> QED BY <3>2, <3>4, ValuesAreFine
  <2> HIDE DEF Fine
  <2> QED BY <2>1 DEF ToSet
<1> HIDE DEF all
<1>8. /\ IsSequence(Short(BaselineFirst(first, Distinct(all))))
      /\ ToSet(Short(BaselineFirst(first, Distinct(all)))) \subseteq ToSet(all)
  <2>1. IsSequence(Distinct(all)) /\ ToSet(Distinct(all)) = ToSet(all)
    BY <1>6, DistinctHas
  <2> HIDE DEF first
  <2>2. /\ IsSequence(BaselineFirst(first, Distinct(all)))
        /\ ToSet(BaselineFirst(first, Distinct(all))) \subseteq ToSet(all)
    BY <2>1, BaselineFirstHas
  <2>3. /\ IsSequence(Short(BaselineFirst(first, Distinct(all))))
        /\ ToSet(Short(BaselineFirst(first, Distinct(all)))) \subseteq ToSet(BaselineFirst(first, Distinct(all)))
    BY <2>2, ShortHas
  <2> QED BY <2>2, <2>3
<1>9. IsUnit(c, [nodes |-> Range(parts), candidates |-> Short(BaselineFirst(first, Distinct(all)))])
  <2>1. Range(parts) \subseteq Nodes(c)
    BY ComponentsAreInputs DEF parts
  <2> HIDE DEF Fine, first
  <2> QED BY <1>7, <1>8, <2>1 DEF IsUnit
<1> QED BY <1>1, <1>9 DEF parts

\* Every unit is one, and every input that the constraints name is in a unit.
LEMMA UnitsAreUnits ==
  ASSUME NEW c, HasTree(c), DrawsValues(c), ReferencedInputs(c.constraints) \subseteq Nodes(c), NEW base
  PROVE  /\ \A u \in Units(c, base) : IsUnit(c, u)
         /\ \A n \in ReferencedInputs(c.constraints) : \E u \in Units(c, base) : n \in u.nodes
<1> DEFINE referenced == ReferencedInputs(c.constraints)
           joined == {r \in DOMAIN c.records :
                        /\ Cardinality(DOMAIN Components(c, r)) > 1
                        /\ Range(Components(c, r)) \cap referenced # {}}
           single == referenced \ UNION {Range(Components(c, r)) : r \in joined}
<1>1. Units(c, base) =
        {[nodes |-> Range(Components(c, r)), candidates |-> RecordCandidates(c, r, base)] : r \in joined}
        \cup {[nodes |-> {n}, candidates |-> Alone(n, Domain(c, n, base[n]))] : n \in single}
  BY DEF Units
<1>2. single \subseteq Nodes(c) /\ joined \subseteq DOMAIN c.records
  OBVIOUS
<1>3. \A n \in referenced : n \in single \/ \E r \in joined : n \in Range(Components(c, r))
  OBVIOUS
<1> HIDE DEF referenced, joined, single
<1>4. \A u \in Units(c, base) : IsUnit(c, u)
  BY <1>1, <1>2, AloneIsUnit, RecordsAreUnit
<1>5. \A n \in referenced : \E u \in Units(c, base) : n \in u.nodes
  <2>1. ASSUME NEW n \in single PROVE \E u \in Units(c, base) : n \in u.nodes
    <3> DEFINE u == [nodes |-> {n}, candidates |-> Alone(n, Domain(c, n, base[n]))]
    <3>1. u \in Units(c, base)
      BY <1>1
    <3>2. n \in u.nodes
      OBVIOUS
    <3> QED BY <3>1, <3>2
  <2>2. ASSUME NEW r \in joined, NEW n \in Range(Components(c, r)) PROVE \E u \in Units(c, base) : n \in u.nodes
    <3> DEFINE u == [nodes |-> Range(Components(c, r)), candidates |-> RecordCandidates(c, r, base)]
    <3>1. u \in Units(c, base)
      BY <1>1
    <3>2. n \in u.nodes
      OBVIOUS
    <3> QED BY <3>1, <3>2
  <2> QED BY <1>3, <2>1, <2>2
<1> QED BY <1>4, <1>5 DEF referenced

\* The units that an input of the Operation is in, listed.
LEMMA ListedHas ==
  ASSUME NEW ids, IsSequence(ids), NEW units
  PROVE  /\ IsSequence(Listed(ids, units))
         /\ ToSet(Listed(ids, units)) \subseteq units
         /\ \A n \in ToSet(ids) : (\E u \in units : n \in u.nodes) =>
              \E u \in ToSet(Listed(ids, units)) : n \in u.nodes
<1> DEFINE S == {i \in DOMAIN ids : \E u \in units : ids[i] \in u.nodes}
           inputs == ElementsAt(ids, S)
           UnitOf(n) == CHOOSE u \in units : n \in u.nodes
           all == [i \in DOMAIN inputs |-> UnitOf(inputs[i])]
<1>1. Listed(ids, units) = Distinct(all \o << >>)
  BY DEF Listed, Filter
<1>2. IsSequence(inputs) /\ ToSet(inputs) = {ids[i] : i \in S}
  BY ElementsHave
<1>3. \A n \in ToSet(inputs) : UnitOf(n) \in units /\ n \in UnitOf(n).nodes
  BY <1>2
<1>4. \A n \in ToSet(ids) : (\E u \in units : n \in u.nodes) => n \in ToSet(inputs)
  BY <1>2 DEF ToSet
<1> HIDE DEF inputs, UnitOf
<1>5. Len(inputs) \in Nat /\ DOMAIN inputs = 1..Len(inputs)
  BY <1>2 DEF IsSequence
<1>6. IsSequence(all)
  <2>1. all = [i \in 1..Len(inputs) |-> all[i]]
    BY <1>5
  <2> HIDE DEF all
  <2> QED BY <1>5, <2>1, MappedIsSequence
<1>7. ToSet(all) = {UnitOf(n) : n \in ToSet(inputs)}
  BY DEF ToSet
<1> HIDE DEF all
<1>8. IsSequence(all \o << >>) /\ ToSet(all \o << >>) = ToSet(all)
  BY <1>6, JoinedHas, SmallSequences
<1>9. IsSequence(Listed(ids, units)) /\ ToSet(Listed(ids, units)) = ToSet(all)
  BY <1>1, <1>8, DistinctHas
<1>10. \A n \in ToSet(inputs) : UnitOf(n) \in ToSet(all) /\ n \in UnitOf(n).nodes
  BY <1>3, <1>7
<1>11. \A u \in ToSet(all) : u \in units
  BY <1>3, <1>7
<1> QED BY <1>4, <1>9, <1>10, <1>11

\* One more unit among those that are sorted.
HasMore(T, s, u, t) == t \in Seq(T) /\ ToSet(t) = ToSet(s) \cup {u}

LEMMA InsertedHas ==
  ASSUME NEW refs, NEW T, NEW s \in Seq(T), NEW u \in T
  PROVE  HasMore(T, s, u, Inserted(refs, s, u))
<1> DEFINE P == {i \in DOMAIN s : ~Precedes(refs, u, s[i])}
           k == Cardinality(P)
           head == SubSeq(s, 1, k)
           tail == SubSeq(s, k + 1, Len(s))
<1>1. Len(s) \in Nat /\ DOMAIN s = 1..Len(s)
  OBVIOUS
<1>0. Len(s) \in Nat
  OBVIOUS
<1>2. k \in 0..Len(s)
  <2>1. IsFiniteSet(1..Len(s)) /\ Cardinality(1..Len(s)) = Len(s)
    BY <1>1, FS_Interval
  <2>2. P \in SUBSET (1..Len(s))
    BY <1>1
  <2> HIDE DEF P
  <2>3. Cardinality(P) <= Cardinality(1..Len(s)) /\ IsFiniteSet(P)
    BY <2>1, <2>2, FS_Subset
  <2>4. Cardinality(P) \in Nat
    BY <2>3, FS_CardinalityType
  <2> QED BY <2>1, <2>3, <2>4
<1>3. Inserted(refs, s, u) = SubSeq(s, 1, (k + 1) - 1) \o <<u>> \o SubSeq(s, k + 1, Len(s))
  BY DEF Inserted, InsertAt
<1> HIDE DEF k
<1>4. (k + 1) - 1 = k
  BY <1>2
<1>5. head \in Seq(T) /\ Len(head) = k /\ \A i \in 1..k : head[i] = s[i]
  BY <1>1, <1>2
<1>6. tail \in Seq(T) /\ Len(tail) = Len(s) - k /\ \A i \in 1..(Len(s) - k) : tail[i] = s[k + i]
  <2>1. tail \in Seq(T) /\ Len(tail) = Len(s) - k
    <3>1. CASE k = Len(s)
      <4>1. tail = << >>
        BY <1>1, <3>1
      <4> QED BY <1>1, <3>1, <4>1
    <3>2. CASE k # Len(s)
      <4>1. k + 1 \in 1..Len(s) /\ Len(s) - (k + 1) + 1 = Len(s) - k
        BY <1>0, <1>2, <3>2
      <4>2. \A i \in (k + 1)..Len(s) : s[i] \in T
        BY <1>1, <1>2
      <4> QED BY <1>1, <1>2, <4>1, <4>2
    <3> QED BY <3>1, <3>2
  <2>2. ASSUME NEW i \in 1..(Len(s) - k) PROVE tail[i] = s[k + i]
    <3>1. tail[i] = s[(k + 1) + i - 1]
      BY <1>1, <1>2
    <3>2. (k + 1) + i - 1 = k + i
      BY <1>1, <1>2
    <3> QED BY <3>1, <3>2
  <2> QED BY <2>1, <2>2
<1>7. Inserted(refs, s, u) = (head \o <<u>>) \o tail
  BY <1>3, <1>4
<1> HIDE DEF head, tail
<1>8. head \o <<u>> \in Seq(T) /\ (head \o <<u>>) \o tail \in Seq(T)
  BY <1>5, <1>6
<1>9. IsSequence(head) /\ IsSequence(tail) /\ IsSequence(head \o <<u>>)
  BY <1>5, <1>6, <1>8, SequenceIsSequence
<1>10. ToSet((head \o <<u>>) \o tail) = (ToSet(head) \cup {u}) \cup ToSet(tail)
  <2>1. ToSet(head \o <<u>>) = ToSet(head) \cup {u}
    BY <1>9, JoinedHas, SmallSequences
  <2> QED BY <1>9, <2>1, JoinedHas
<1>11. ToSet(head) \cup ToSet(tail) = ToSet(s)
  <2>1. DOMAIN head = 1..k /\ DOMAIN tail = 1..(Len(s) - k)
    BY <1>2, <1>5, <1>6
  <2>2. ASSUME NEW i \in 1..Len(s) PROVE s[i] \in ToSet(head) \cup ToSet(tail)
    <3>1. CASE i <= k
      <4>1. i \in DOMAIN head /\ head[i] = s[i]
        BY <1>2, <1>5, <2>1, <3>1
      <4> QED BY <4>1 DEF ToSet
    <3>2. CASE i > k
      <4>1. i - k \in 1..(Len(s) - k) /\ k + (i - k) = i
        BY <1>1, <1>2, <3>2
      <4>2. i - k \in DOMAIN tail /\ tail[i - k] = s[i]
        BY <1>6, <2>1, <4>1
      <4> QED BY <4>2 DEF ToSet
    <3> QED BY <1>1, <1>2, <3>1, <3>2
  <2>3. ASSUME NEW i \in 1..k PROVE head[i] \in ToSet(s)
    <3>1. i \in DOMAIN s
      BY <1>1, <1>2
    <3> QED BY <1>5, <3>1 DEF ToSet
  <2>4. ASSUME NEW i \in 1..(Len(s) - k) PROVE tail[i] \in ToSet(s)
    <3>1. k + i \in DOMAIN s
      BY <1>1, <1>2
    <3> QED BY <1>6, <3>1 DEF ToSet
  <2> QED BY <1>1, <2>1, <2>2, <2>3, <2>4 DEF ToSet
<1> QED BY <1>7, <1>8, <1>10, <1>11 DEF HasMore

\* Sorting keeps the units.
LEMMA InOrderHas ==
  ASSUME NEW refs, NEW listed, IsSequence(listed)
  PROVE  IsSequence(InOrder(refs, listed)) /\ ToSet(InOrder(refs, listed)) = ToSet(listed)
<1> DEFINE n == Len(listed)
           Us == ToSet(listed)
           X == Seq(Us)
           Put(s, k) == Inserted(refs, s, listed[k])
           F == CHOOSE f : f = [k \in 0..n |-> IF k = 0 THEN << >> ELSE Put(f[k - 1], k)]
           step == [q \in X \X (1..n) |-> Put(q[1], q[2])]
<1>1. InOrder(refs, listed) = F[n]
  BY DEF InOrder
<1>2. n \in Nat /\ \A k \in 1..n : listed[k] \in Us
  <2>1. listed \in Seq(Us)
    BY DEF IsSequence
  <2> QED BY <2>1
<1>3. << >> \in X
  OBVIOUS
<1>4. \A s \in X : \A k \in 1..n : Put(s, k) \in X /\ ToSet(Put(s, k)) = ToSet(s) \cup {listed[k]}
  <2> HIDE DEF Us
  <2>1. ASSUME NEW s \in X, NEW k \in 1..n
        PROVE  Put(s, k) \in X /\ ToSet(Put(s, k)) = ToSet(s) \cup {listed[k]}
    <3>1. s \in Seq(Us) /\ listed[k] \in Us
      BY <1>2
    <3>2. HasMore(Us, s, listed[k], Inserted(refs, s, listed[k]))
      BY <3>1, InsertedHas
    <3> QED BY <3>2 DEF HasMore
  <2> QED BY <2>1
<1>5. ToSet(<< >>) = {}
  BY SmallSequences
<1>13. DOMAIN listed = 1..n /\ Us = {listed[i] : i \in 1..n}
  BY DEF IsSequence, ToSet
<1> HIDE DEF n, X, Put
<1>6. step \in [X \X (1..n) -> X]
  BY <1>4
<1>7. PICK h \in [0..n -> X] : h[0] = << >> /\ \A k \in 1..n : h[k] = step[<<h[k - 1], k>>]
  <2>1. IsStep(n, X, << >>, step)
    BY <1>3, <1>6 DEF IsStep
  <2> HIDE DEF step
  <2>2. IsLine(n, X, << >>, step)
    BY <1>2, <2>1, LineExists
  <2> QED BY <2>2 DEF IsLine
<1>8. \A k \in 1..n : h[k - 1] \in X /\ h[k] = Put(h[k - 1], k)
  <2>1. ASSUME NEW k \in 1..n PROVE h[k - 1] \in X
    <3>1. k - 1 \in 0..n
      BY <1>2
    <3> QED BY <3>1
  <2> QED BY <1>7, <2>1
<1>9. h = [k \in 0..n |-> IF k = 0 THEN << >> ELSE Put(h[k - 1], k)]
  <2>1. ASSUME NEW k \in 0..n PROVE h[k] = IF k = 0 THEN << >> ELSE Put(h[k - 1], k)
    <3>1. k = 0 \/ k \in 1..n
      BY <1>2
    <3> QED BY <3>1, <1>7, <1>8
  <2> QED BY <2>1
<1>10. F = [k \in 0..n |-> IF k = 0 THEN << >> ELSE Put(F[k - 1], k)]
  BY <1>9
<1> HIDE DEF F
<1>11. F[0] = << >> /\ \A k \in 1..n : F[k] = Put(F[k - 1], k)
  <2>1. 0 \in 0..n /\ \A k \in 1..n : k \in 0..n /\ k # 0
    BY <1>2
  <2> QED BY <1>10, <2>1
<1> DEFINE S == {k \in 0..n : F[k] \in X /\ ToSet(F[k]) = {listed[i] : i \in 1..k}}
<1>12. 0..n \subseteq S
  <2>1. 0 \in S
    <3>1. {listed[i] : i \in 1..0} = {}
      OBVIOUS
    <3> QED BY <1>2, <1>3, <1>5, <1>11, <3>1
  <2>2. ASSUME NEW k \in 0..(n - 1), k \in S PROVE k + 1 \in S
    <3>1. k + 1 \in 1..n /\ k + 1 \in 0..n /\ (k + 1) - 1 = k
      BY <1>2
    <3>2. F[k + 1] = Put(F[k], k + 1)
      BY <1>11, <3>1
    <3>3. {listed[i] : i \in 1..(k + 1)} = {listed[i] : i \in 1..k} \cup {listed[k + 1]}
      <4>1. \A i : i \in 1..(k + 1) <=> i \in 1..k \/ i = k + 1
        BY <1>2
      <4> QED BY <4>1
    <3> QED BY <1>4, <2>2, <3>1, <3>2, <3>3
  <2> HIDE DEF S
  <2> QED BY <1>2, <2>1, <2>2, IntervalInduction
<1>14. n \in S
  BY <1>2, <1>12
<1>15. F[n] \in X /\ ToSet(F[n]) = Us
  BY <1>13, <1>14
<1>16. IsSequence(F[n])
  BY <1>15, SequenceIsSequence DEF X
<1> QED BY <1>1, <1>15, <1>16

\* The units of a search: each is one, and they have every input of the constraints.
AreUnits(c, units) ==
  /\ IsSequence(units)
  /\ \A u \in ToSet(units) : IsUnit(c, u)
  /\ \A n \in ReferencedInputs(c.constraints) : \E i \in DOMAIN units : n \in units[i].nodes

LEMMA OrderedAreUnits ==
  ASSUME NEW c, HasTree(c), DrawsValues(c), ReferencedInputs(c.constraints) \subseteq Nodes(c), NEW base
  PROVE  AreUnits(c, OrderedUnits(c, base))
<1> DEFINE listed == Listed(c.op.ids, Units(c, base))
           units == OrderedUnits(c, base)
<1>1. IsSequence(c.op.ids) /\ ToSet(c.op.ids) = Nodes(c)
  BY DEF HasTree, IsTree, Nodes
<1>2. /\ \A u \in Units(c, base) : IsUnit(c, u)
      /\ \A n \in ReferencedInputs(c.constraints) : \E u \in Units(c, base) : n \in u.nodes
  BY UnitsAreUnits
<1>3. /\ IsSequence(listed) /\ ToSet(listed) \subseteq Units(c, base)
      /\ \A n \in Nodes(c) : (\E u \in Units(c, base) : n \in u.nodes) => \E u \in ToSet(listed) : n \in u.nodes
  BY <1>1, ListedHas
<1> HIDE DEF listed
<1>4. IsSequence(units) /\ ToSet(units) = ToSet(listed)
  BY <1>3, InOrderHas DEF OrderedUnits, listed
<1> HIDE DEF units
<1>5. \A n \in ReferencedInputs(c.constraints) : \E u \in ToSet(units) : n \in u.nodes
  BY <1>2, <1>3, <1>4
<1>6. \A n \in ReferencedInputs(c.constraints) : \E i \in DOMAIN units : n \in units[i].nodes
  BY <1>5 DEF ToSet
<1>7. AreUnits(c, units)
  BY <1>2, <1>3, <1>4, <1>6 DEF AreUnits
<1> QED BY <1>7 DEF units

-----------------------------------------------------------------------------
(* The search.                                                             *)

\* The values of a step hang on those at lower ranks, and a function that takes these steps.
HangsBelow(D, E, step, rank) ==
  \A f, g \in [D -> E] : \A x \in D :
    (\A y \in D : rank[y] < rank[x] => f[y] = g[y]) => step[<<f, x>>] = step[<<g, x>>]
IsSolved(D, E, step) == \E f \in [D -> E] : \A x \in D : f[x] = step[<<f, x>>]

LEMMA RankedSolution ==
  ASSUME NEW D, NEW E, NEW e \in E, NEW step \in [[D -> E] \X D -> E],
         NEW bound \in Nat, NEW rank \in [D -> 0..bound], HangsBelow(D, E, step, rank)
  PROVE  IsSolved(D, E, step)
<1> DEFINE From(k) == \E f \in [D -> E] : \A x \in D : rank[x] < k => f[x] = step[<<f, x>>]
           U == {k \in Nat : From(k)}
<1>1. 0 \in U
  <2>1. [x \in D |-> e] \in [D -> E] /\ \A x \in D : ~(rank[x] < 0)
    OBVIOUS
  <2> QED BY <2>1
<1>2. ASSUME NEW k \in Nat, k \in U PROVE k + 1 \in U
  <2>1. PICK f \in [D -> E] : \A x \in D : rank[x] < k => f[x] = step[<<f, x>>]
    BY <1>2
  <2> DEFINE g == [x \in D |-> step[<<f, x>>]]
  <2>2. g \in [D -> E] /\ \A x \in D : g[x] = step[<<f, x>>]
    OBVIOUS
  <2> HIDE DEF g
  <2>3. ASSUME NEW x \in D, rank[x] < k + 1 PROVE g[x] = step[<<g, x>>]
    <3>1. \A y \in D : rank[y] < rank[x] => rank[y] < k
      BY <2>3
    <3>2. \A y \in D : rank[y] < rank[x] => f[y] = g[y]
      BY <2>1, <2>2, <3>1
    <3>3. step[<<f, x>>] = step[<<g, x>>]
      BY <2>2, <3>2 DEF HangsBelow
    <3> QED BY <2>2, <3>3
  <2> QED BY <2>2, <2>3
<1> HIDE DEF U
<1>3. bound + 1 \in U
  BY <1>1, <1>2, SetInduction
<1>4. PICK f \in [D -> E] : \A x \in D : rank[x] < bound + 1 => f[x] = step[<<f, x>>]
  BY <1>3 DEF U
<1>5. \A x \in D : rank[x] < bound + 1
  OBVIOUS
<1> QED BY <1>4, <1>5 DEF IsSolved

\* A bound on how many candidates the units have.
LEMMA CandidatesAreBounded ==
  ASSUME NEW units, IsSequence(units), \A i \in DOMAIN units : Len(units[i].candidates) \in Nat
  PROVE  \E K \in Nat : \A i \in DOMAIN units : Len(units[i].candidates) <= K
<1> DEFINE L == Len(units)
           Bounded(k) == \E K \in Nat : \A i \in 1..k : Len(units[i].candidates) <= K
           S == {k \in 0..L : Bounded(k)}
<1>1. L \in Nat /\ DOMAIN units = 1..L
  BY DEF IsSequence
<1> HIDE DEF L
<1>2. 0 \in S
  BY <1>1
<1>3. ASSUME NEW k \in 0..(L - 1), k \in S PROVE k + 1 \in S
  <2>1. PICK K \in Nat : \A i \in 1..k : Len(units[i].candidates) <= K
    BY <1>3
  <2> DEFINE m == Len(units[k + 1].candidates)
             J == IF m > K THEN m ELSE K
  <2>2. m \in Nat
    BY <1>1
  <2> HIDE DEF m
  <2>3. J \in Nat /\ K <= J /\ m <= J
    BY <2>2
  <2> HIDE DEF J
  <2>4. \A i \in 1..(k + 1) : Len(units[i].candidates) \in Nat
    BY <1>1
  <2>5. \A i \in 1..(k + 1) : Len(units[i].candidates) <= J
    <3>1. ASSUME NEW i \in 1..(k + 1) PROVE Len(units[i].candidates) <= J
      <4>1. CASE i = k + 1
        BY <2>3, <4>1 DEF m
      <4>2. CASE i # k + 1
        <5>1. i \in 1..k
          BY <4>2
        <5>2. Len(units[i].candidates) <= K /\ Len(units[i].candidates) \in Nat
          BY <2>1, <2>4, <5>1
        <5> QED BY <2>3, <5>2
      <4> QED BY <4>1, <4>2
    <3> QED BY <3>1
  <2>6. Bounded(k + 1)
    BY <2>3, <2>5
  <2> HIDE DEF Bounded
  <2> QED BY <1>1, <2>6
<1>4. L \in S
  <2> HIDE DEF S
  <2> QED BY <1>1, <1>2, <1>3, IntervalInduction
<1> QED BY <1>1, <1>4

\* How far a search is from its end: no more units, or no more candidates.
Left(L, K, picks, j) ==
  IF Len(picks) >= L \/ j > K THEN 0 ELSE (L - Len(picks)) * (K + 2) + (K + 1 - j)

LEMMA LeftIsBounded ==
  ASSUME NEW L \in Nat, NEW K \in Nat, NEW picks \in Seq(Nat), NEW j \in Nat
  PROVE  Left(L, K, picks, j) \in 0..(L * (K + 2) + K + 1)
<1> DEFINE p == Len(picks)
           M == K + 2
<1>1. p \in Nat /\ M \in Nat
  OBVIOUS
<1>2. CASE p >= L \/ j > K
  <2>1. L * M \in Nat
    BY <1>1
  <2> QED BY <1>2, <2>1 DEF Left
<1>3. CASE p < L /\ j <= K
  <2> HIDE DEF p
  <2>1. L * M = (L - p) * M + p * M /\ p * M \in Nat /\ (L - p) * M \in Nat
    <3> HIDE DEF M
    <3>1. L - p \in Nat
      BY <1>1, <1>3
    <3> QED BY <1>1, <3>1
  <2>2. Left(L, K, picks, j) = (L - p) * M + (K + 1 - j)
    BY <1>1, <1>3 DEF Left, p
  <2> DEFINE A == (L - p) * M
             B == p * M
             C == L * M
  <2>3. C = A + B /\ A \in Nat /\ B \in Nat /\ Left(L, K, picks, j) = A + (K + 1 - j)
    BY <2>1, <2>2
  <2> HIDE DEF A, B, C
  <2>4. A + (K + 1 - j) \in 0..(C + K + 1)
    BY <1>3, <2>3
  <2> QED BY <2>3, <2>4 DEF C
<1> QED BY <1>1, <1>2, <1>3

LEMMA NextIsNearer ==
  ASSUME NEW L \in Nat, NEW K \in Nat, NEW picks \in Seq(Nat), NEW j \in Nat, Len(picks) < L, j <= K
  PROVE  /\ Left(L, K, picks, j + 1) < Left(L, K, picks, j)
         /\ Left(L, K, Append(picks, j), 1) < Left(L, K, picks, j)
<1> DEFINE p == Len(picks)
           M == K + 2
           A == (L - p) * M
           B == (L - (p + 1)) * M
<1>1. p \in Nat /\ p < L /\ M \in Nat /\ M = K + 2 /\ Len(Append(picks, j)) = p + 1
  OBVIOUS
<1>2. Left(L, K, picks, j) = A + (K + 1 - j)
  BY DEF Left
<1>3. Left(L, K, picks, j + 1) = 0 \/ Left(L, K, picks, j + 1) = A + (K + 1 - (j + 1))
  BY DEF Left
<1>4. Left(L, K, Append(picks, j), 1) = 0 \/ Left(L, K, Append(picks, j), 1) = B + (K + 1 - 1)
  <2>1. Left(L, K, Append(picks, j), 1) =
          IF p + 1 >= L \/ 1 > K THEN 0 ELSE (L - (p + 1)) * (K + 2) + (K + 1 - 1)
    BY <1>1 DEF Left
  <2> QED BY <2>1
<1>5. A = B + M /\ A \in Nat /\ B \in Nat
  <2> HIDE DEF M, p
  <2> DEFINE d == L - (p + 1)
  <2>1. d \in Nat /\ L - p = d + 1
    BY <1>1
  <2> HIDE DEF d
  <2>2. (d + 1) * M = d * M + M /\ (d + 1) * M \in Nat /\ d * M \in Nat
    BY <1>1, <2>1
  <2> QED BY <2>1, <2>2 DEF d
<1> HIDE DEF A, B, M, p
<1>6. A + (K + 1 - j) > 0 /\ A + (K + 1 - j) > A + (K + 1 - (j + 1))
  BY <1>5
<1>7. A + (K + 1 - j) > B + (K + 1 - 1)
  BY <1>1, <1>5
<1> QED BY <1>2, <1>3, <1>4, <1>6, <1>7

\* One step of the search, over what is found from later positions.
Turn(c, base, units, found, x) ==
  LET k == x[1]
      picks == x[2]
      j == x[3]
      goOn[s \in Ends] == IF s.solution # NoSolution \/ s.exhausted THEN s
                         ELSE found[<<s.explored, picks, j + 1>>]
  IN  IF Len(picks) >= Len(units) THEN Leaf(c, base, units, k, picks)
      ELSE IF j > Len(units[Len(picks) + 1].candidates) THEN Searched(NoSolution, k, FALSE)
      ELSE IF Len(picks) + 1 < Len(units) /\ Pruned(c, Picked(units, Append(picks, j)))
        THEN found[<<k, picks, j + 1>>]
      ELSE goOn[found[<<k, Append(picks, j), 1>>]]

Positions == Nat \X Seq(Nat) \X Nat

LEMMA EndsOfLeaf ==
  ASSUME NEW c, NEW base, NEW units, NEW k \in Nat, NEW picks \in Seq(Nat)
  PROVE  Leaf(c, base, units, k, picks) \in Ends /\ Searched(NoSolution, k, FALSE) \in Ends
<1>1. /\ \A n \in Nat : \A b \in BOOLEAN : Searched(NoSolution, n, b) \in Ends /\ Searched(<<picks>>, n, b) \in Ends
  BY DEF Searched, NoSolution, Ends
<1>2. /\ Searched(NoSolution, k, TRUE) \in Ends /\ Searched(NoSolution, k, FALSE) \in Ends
      /\ Searched(<<picks>>, k + 1, FALSE) \in Ends /\ Searched(NoSolution, k + 1, FALSE) \in Ends
  <2>1. k + 1 \in Nat /\ TRUE \in BOOLEAN /\ FALSE \in BOOLEAN
    OBVIOUS
  <2> QED BY <1>1, <2>1, Zenon
<1> QED BY <1>2 DEF Leaf

LEMMA TurnStays ==
  ASSUME NEW c, NEW base, NEW units, NEW x \in Positions, NEW f \in [Positions -> Ends]
  PROVE  Turn(c, base, units, f, x) \in Ends
<1> DEFINE k == x[1]
           picks == x[2]
           j == x[3]
           goOn == [s \in Ends |-> IF s.solution # NoSolution \/ s.exhausted THEN s
                                   ELSE f[<<s.explored, picks, j + 1>>]]
<1>1. k \in Nat /\ picks \in Seq(Nat) /\ j \in Nat
  BY DEF Positions
<1>2. Turn(c, base, units, f, x) =
        IF Len(picks) >= Len(units) THEN Leaf(c, base, units, k, picks)
        ELSE IF j > Len(units[Len(picks) + 1].candidates) THEN Searched(NoSolution, k, FALSE)
        ELSE IF Len(picks) + 1 < Len(units) /\ Pruned(c, Picked(units, Append(picks, j)))
          THEN f[<<k, picks, j + 1>>]
        ELSE goOn[f[<<k, Append(picks, j), 1>>]]
  BY DEF Turn
<1> HIDE DEF k, picks, j
<1>3. \A n \in Nat : <<n, picks, j + 1>> \in Positions /\ <<n, Append(picks, j), 1>> \in Positions
  <2>1. Append(picks, j) \in Seq(Nat) /\ j + 1 \in Nat
    BY <1>1
  <2> QED BY <1>1, <2>1 DEF Positions
<1>4. \A s \in Ends : s.explored \in Nat
  BY DEF Ends
<1>5. goOn \in [Ends -> Ends]
  BY <1>3, <1>4
<1> HIDE DEF goOn
<1>6. goOn[f[<<k, Append(picks, j), 1>>]] \in Ends /\ f[<<k, picks, j + 1>>] \in Ends
  BY <1>1, <1>3, <1>5
<1> QED BY <1>1, <1>2, <1>6, EndsOfLeaf

\* Two functions that give the same where a step looks further.
AgreeLater(units, f, g, x) ==
  ~(Len(x[2]) >= Len(units)) /\ ~(x[3] > Len(units[Len(x[2]) + 1].candidates)) =>
    /\ \A n \in Nat : f[<<n, x[2], x[3] + 1>>] = g[<<n, x[2], x[3] + 1>>]
    /\ f[<<x[1], Append(x[2], x[3]), 1>>] = g[<<x[1], Append(x[2], x[3]), 1>>]

LEMMA TurnHangsOnLater ==
  ASSUME NEW c, NEW base, NEW units, NEW x \in Positions,
         NEW f \in [Positions -> Ends], NEW g \in [Positions -> Ends], AgreeLater(units, f, g, x)
  PROVE  Turn(c, base, units, f, x) = Turn(c, base, units, g, x)
<1> DEFINE k == x[1]
           picks == x[2]
           j == x[3]
           goOn(h) == [s \in Ends |-> IF s.solution # NoSolution \/ s.exhausted THEN s
                                      ELSE h[<<s.explored, picks, j + 1>>]]
           Ended == Len(picks) >= Len(units)
           Out == j > Len(units[Len(picks) + 1].candidates)
           Skips == Len(picks) + 1 < Len(units) /\ Pruned(c, Picked(units, Append(picks, j)))
<1>1. k \in Nat /\ picks \in Seq(Nat) /\ j \in Nat
  BY DEF Positions
<1>2. \A h : Turn(c, base, units, h, x) =
        IF Ended THEN Leaf(c, base, units, k, picks)
        ELSE IF Out THEN Searched(NoSolution, k, FALSE)
        ELSE IF Skips THEN h[<<k, picks, j + 1>>]
        ELSE goOn(h)[h[<<k, Append(picks, j), 1>>]]
  BY DEF Turn
<1>3. ~Ended /\ ~Out => /\ \A n \in Nat : f[<<n, picks, j + 1>>] = g[<<n, picks, j + 1>>]
                        /\ f[<<k, Append(picks, j), 1>>] = g[<<k, Append(picks, j), 1>>]
  BY DEF AgreeLater
<1> HIDE DEF k, picks, j, Ended, Out, Skips
<1>4. \A s \in Ends : s.explored \in Nat
  BY DEF Ends
<1>5. ~Ended /\ ~Out => goOn(f) = goOn(g)
  BY <1>3, <1>4
<1> HIDE DEF goOn
<1> QED BY <1>1, <1>2, <1>3, <1>5

\* The search is where it starts, and every step is as it says.
IsSearch(c, base, units, found) ==
  \A x \in Positions : found[x] = Turn(c, base, units, found, x)

LEMMA SearchUnfold ==
  ASSUME NEW c, NEW base, NEW units, IsSequence(units),
         \A i \in DOMAIN units : Len(units[i].candidates) \in Nat
  PROVE  \E found : IsSearch(c, base, units, found) /\ Search(c, base, units) = found[<<0, << >>, 1>>]
<1> DEFINE L == Len(units)
           D == Positions
           Solves(f) == f = [x \in D |-> Turn(c, base, units, f, x)]
           found == CHOOSE f : Solves(f)
<1>1. Search(c, base, units) = found[<<0, << >>, 1>>]
  BY DEF Search, Turn, Positions
<1>2. L \in Nat /\ DOMAIN units = 1..L
  BY DEF IsSequence
<1>3. PICK K \in Nat : \A i \in DOMAIN units : Len(units[i].candidates) <= K
  BY CandidatesAreBounded
<1> DEFINE bound == L * (K + 2) + K + 1
           rank == [x \in D |-> Left(L, K, x[2], x[3])]
           step == [q \in [D -> Ends] \X D |-> Turn(c, base, units, q[1], q[2])]
<1>4. bound \in Nat /\ rank \in [D -> 0..bound]
  <2> HIDE DEF L
  <2>1. L * (K + 2) \in Nat
    BY <1>2
  <2>2. ASSUME NEW x \in D PROVE Left(L, K, x[2], x[3]) \in 0..bound
    <3>1. x[2] \in Seq(Nat) /\ x[3] \in Nat
      BY DEF Positions
    <3> QED BY <1>2, <3>1, LeftIsBounded
  <2> QED BY <2>1, <2>2
<1>5. step \in [[D -> Ends] \X D -> Ends]
  <2> HIDE DEF D, found
  <2>1. \A f \in [D -> Ends] : \A x \in D : Turn(c, base, units, f, x) \in Ends
    BY TurnStays DEF D
  <2> QED BY <2>1
<1>6. ASSUME NEW f \in [D -> Ends], NEW g \in [D -> Ends], NEW x \in D,
             \A y \in D : rank[y] < rank[x] => f[y] = g[y]
      PROVE  Turn(c, base, units, f, x) = Turn(c, base, units, g, x)
  <2> DEFINE k == x[1]
             picks == x[2]
             j == x[3]
  <2>1. k \in Nat /\ picks \in Seq(Nat) /\ j \in Nat
    BY DEF Positions
  <2> HIDE DEF k, picks, j
  <2>2. ASSUME ~(Len(picks) >= L), ~(j > Len(units[Len(picks) + 1].candidates))
        PROVE  /\ \A n \in Nat : f[<<n, picks, j + 1>>] = g[<<n, picks, j + 1>>]
               /\ f[<<k, Append(picks, j), 1>>] = g[<<k, Append(picks, j), 1>>]
    <3>1. Len(picks) \in Nat /\ Len(picks) < L
      BY <1>2, <2>1, <2>2
    <3>2. Len(picks) + 1 \in DOMAIN units
      BY <1>2, <3>1
    <3>3. j <= K
      <4> DEFINE m == Len(units[Len(picks) + 1].candidates)
      <4>1. m \in Nat /\ m <= K
        BY <1>3, <3>2
      <4> HIDE DEF m
      <4>2. ~(j > m)
        BY <2>2 DEF m
      <4> QED BY <2>1, <4>1, <4>2
    <3>4. Left(L, K, picks, j + 1) < Left(L, K, picks, j)
          /\ Left(L, K, Append(picks, j), 1) < Left(L, K, picks, j)
      BY <1>2, <2>1, <3>1, <3>3, NextIsNearer
    <3>5. rank[x] = Left(L, K, picks, j)
      BY DEF picks, j
    <3>6. ASSUME NEW y \in D, Left(L, K, y[2], y[3]) < Left(L, K, picks, j) PROVE f[y] = g[y]
      BY <1>6, <3>5, <3>6
    <3>7. \A n \in Nat : <<n, picks, j + 1>> \in D /\ <<n, Append(picks, j), 1>> \in D
      <4>1. Append(picks, j) \in Seq(Nat) /\ j + 1 \in Nat
        BY <2>1
      <4> QED BY <2>1, <4>1 DEF Positions
    <3>8. \A n \in Nat : f[<<n, picks, j + 1>>] = g[<<n, picks, j + 1>>]
      BY <3>4, <3>6, <3>7
    <3>9. f[<<k, Append(picks, j), 1>>] = g[<<k, Append(picks, j), 1>>]
      BY <2>1, <3>4, <3>6, <3>7
    <3> QED BY <3>8, <3>9
  <2>3. AgreeLater(units, f, g, x)
    BY <2>2 DEF k, picks, j, AgreeLater
  <2> HIDE DEF found
  <2> QED BY <2>3, TurnHangsOnLater
<1>7. PICK f \in [D -> Ends] : \A x \in D : f[x] = step[<<f, x>>]
  <2>1. Searched(NoSolution, 0, FALSE) \in Ends
    BY DEF Searched, NoSolution, Ends
  <2>2. HangsBelow(D, Ends, step, rank)
    <3> HIDE DEF rank, D, found
    <3> QED BY <1>6 DEF HangsBelow
  <2> HIDE DEF D, rank, bound, step, found
  <2>3. IsSolved(D, Ends, step)
    BY <1>4, <1>5, <2>1, <2>2, RankedSolution
  <2> QED BY <2>3 DEF IsSolved
<1>8. Solves(f)
  <2> HIDE DEF D, found
  <2>1. \A x \in D : f[x] = Turn(c, base, units, f, x)
    BY <1>7
  <2> QED BY <2>1
<1>9. Solves(found)
  <2> HIDE DEF Solves
  <2> QED BY <1>8
<1> HIDE DEF found
<1>10. \A x \in D : found[x] = Turn(c, base, units, found, x)
  <2> HIDE DEF D
  <2> QED BY <1>9
<1> QED BY <1>1, <1>10 DEF IsSearch

\* Positions of candidates of the first units.
AreChosen(units, picks) ==
  /\ picks \in Seq(Nat) /\ Len(picks) <= Len(units)
  /\ \A i \in 1..Len(picks) : picks[i] \in DOMAIN units[i].candidates

\* A search that ends with a solution has a good candidate of every unit.
EndsWell(c, base, units, end) ==
  /\ end \in Ends
  /\ end.solution # NoSolution =>
       /\ AreChosen(units, end.solution[1]) /\ Len(end.solution[1]) = Len(units)
       /\ Good(c, Picked(units, end.solution[1]), base)

LEMMA NoneEndsWell ==
  ASSUME NEW c, NEW base, NEW units, NEW k \in Nat, NEW b \in BOOLEAN
  PROVE  EndsWell(c, base, units, Searched(NoSolution, k, b))
BY DEF EndsWell, Searched, NoSolution, Ends

LEMMA LeafEndsWell ==
  ASSUME NEW c, NEW base, NEW units, NEW k \in Nat, NEW picks, AreChosen(units, picks),
         Len(picks) = Len(units)
  PROVE  EndsWell(c, base, units, Leaf(c, base, units, k, picks))
<1>1. picks \in Seq(Nat) /\ k + 1 \in Nat /\ TRUE \in BOOLEAN /\ FALSE \in BOOLEAN
  BY DEF AreChosen
<1>2. ASSUME Good(c, Picked(units, picks), base)
      PROVE  EndsWell(c, base, units, Searched(<<picks>>, k + 1, FALSE))
  <2> DEFINE s == Searched(<<picks>>, k + 1, FALSE)
  <2>1. s \in Ends /\ s.solution = <<picks>> /\ s.solution[1] = picks
    BY <1>1 DEF Searched, Ends
  <2> HIDE DEF s
  <2>2. /\ AreChosen(units, s.solution[1]) /\ Len(s.solution[1]) = Len(units)
        /\ Good(c, Picked(units, s.solution[1]), base)
    BY <1>2, <2>1
  <2>3. EndsWell(c, base, units, s)
    BY <2>1, <2>2 DEF EndsWell
  <2> QED BY <2>3 DEF s
<1>3. EndsWell(c, base, units, Searched(NoSolution, k, TRUE))
      /\ EndsWell(c, base, units, Searched(NoSolution, k + 1, FALSE))
  BY <1>1, NoneEndsWell, Zenon
<1> QED BY <1>2, <1>3 DEF Leaf

LEMMA SearchIsSound ==
  ASSUME NEW c, NEW base, NEW units, IsSequence(units),
         \A i \in DOMAIN units : IsSequence(units[i].candidates)
  PROVE  EndsWell(c, base, units, Search(c, base, units))
<1> DEFINE L == Len(units)
           Size(i) == Len(units[i].candidates)
<1>1. L \in Nat /\ DOMAIN units = 1..L
  BY DEF IsSequence
<1>2. \A i \in 1..L : Size(i) \in Nat /\ DOMAIN units[i].candidates = 1..Size(i)
  BY <1>1 DEF IsSequence
<1>3. PICK K \in Nat : \A i \in DOMAIN units : Size(i) <= K
  BY <1>1, <1>2, CandidatesAreBounded
<1>4. PICK found : IsSearch(c, base, units, found) /\ Search(c, base, units) = found[<<0, << >>, 1>>]
  BY <1>1, <1>2, SearchUnfold
<1> DEFINE D == {x \in Positions : AreChosen(units, x[2]) /\ x[3] >= 1}
           rank == [x \in D |-> Left(L, K, x[2], x[3])]
           T == {x \in D : EndsWell(c, base, units, found[x])}
<1>5. rank \in [D -> Nat]
  <2>1. ASSUME NEW x \in D PROVE Left(L, K, x[2], x[3]) \in Nat
    <3>1. x[2] \in Seq(Nat) /\ x[3] \in Nat
      BY DEF Positions
    <3>2. L * (K + 2) + K + 1 \in Nat
      <4>1. L * (K + 2) \in Nat
        BY <1>1
      <4> QED BY <4>1
    <3>3. Left(L, K, x[2], x[3]) \in 0..(L * (K + 2) + K + 1)
      <4> HIDE DEF L, D
      <4> QED BY <1>1, <3>1, LeftIsBounded
    <3> QED BY <3>2, <3>3
  <2> HIDE DEF D, L
  <2> QED BY <2>1
<1>6. ASSUME NEW k \in Nat, NEW picks, AreChosen(units, picks), NEW j \in Nat, j >= 1,
             \A y \in D : rank[y] < Left(L, K, picks, j) => EndsWell(c, base, units, found[y])
      PROVE  EndsWell(c, base, units, found[<<k, picks, j>>])
  <2> DEFINE x == <<k, picks, j>>
             goOn == [s \in Ends |-> IF s.solution # NoSolution \/ s.exhausted THEN s
                                     ELSE found[<<s.explored, picks, j + 1>>]]
             Skips == Len(picks) + 1 < L /\ Pruned(c, Picked(units, Append(picks, j)))
  <2>1. picks \in Seq(Nat) /\ Len(picks) \in Nat /\ Len(picks) <= L
    BY <1>6 DEF AreChosen
  <2>2. found[x] = IF Len(picks) >= L THEN Leaf(c, base, units, k, picks)
                   ELSE IF j > Size(Len(picks) + 1) THEN Searched(NoSolution, k, FALSE)
                   ELSE IF Skips THEN found[<<k, picks, j + 1>>]
                   ELSE goOn[found[<<k, Append(picks, j), 1>>]]
    <3>1. x \in Positions
      BY <1>6, <2>1 DEF Positions
    <3>2. found[x] = Turn(c, base, units, found, x)
      <4> HIDE DEF x
      <4> QED BY <1>4, <3>1 DEF IsSearch
    <3> QED BY <3>2 DEF Turn
  <2>3. CASE Len(picks) >= L
    <3>1. Len(picks) = L
      BY <1>1, <2>1, <2>3
    <3>2. EndsWell(c, base, units, Leaf(c, base, units, k, picks))
      BY <1>6, <3>1, LeafEndsWell
    <3> HIDE DEF goOn, Skips
    <3> QED BY <2>2, <2>3, <3>2
  <2>4. CASE ~(Len(picks) >= L) /\ j > Size(Len(picks) + 1)
    <3>1. EndsWell(c, base, units, Searched(NoSolution, k, FALSE))
      BY <1>6, NoneEndsWell
    <3> HIDE DEF goOn, Skips
    <3> QED BY <2>2, <2>4, <3>1
  <2>5. CASE ~(Len(picks) >= L) /\ ~(j > Size(Len(picks) + 1))
    <3>1. Len(picks) < L /\ Len(picks) + 1 \in 1..L
      BY <1>1, <2>1, <2>5
    <3>2. j \in 1..Size(Len(picks) + 1) /\ j <= K
      <4> DEFINE m == Size(Len(picks) + 1)
      <4>1. m \in Nat /\ m <= K
        BY <1>1, <1>2, <1>3, <3>1
      <4> HIDE DEF m
      <4>2. ~(j > m)
        BY <2>5 DEF m
      <4>3. j \in 1..m /\ j <= K
        BY <1>6, <4>1, <4>2
      <4> QED BY <4>3 DEF m
    <3>3. Left(L, K, picks, j + 1) < Left(L, K, picks, j)
          /\ Left(L, K, Append(picks, j), 1) < Left(L, K, picks, j)
      <4> HIDE DEF L
      <4> QED BY <1>1, <1>6, <2>1, <3>1, <3>2, NextIsNearer
    <3>4. AreChosen(units, Append(picks, j))
      <4>1. Append(picks, j) \in Seq(Nat) /\ Len(Append(picks, j)) = Len(picks) + 1
        BY <1>6, <2>1
      <4>2. ASSUME NEW i \in 1..(Len(picks) + 1)
            PROVE  Append(picks, j)[i] \in DOMAIN units[i].candidates
        <5>1. CASE i = Len(picks) + 1
          <6>1. Append(picks, j)[i] = j
            BY <2>1, <5>1
          <6> QED BY <1>2, <3>1, <3>2, <5>1, <6>1
        <5>2. CASE i # Len(picks) + 1
          <6>1. i \in 1..Len(picks)
            BY <2>1, <5>2
          <6>2. Append(picks, j)[i] = picks[i]
            BY <2>1, <6>1
          <6> QED BY <1>6, <6>1, <6>2 DEF AreChosen
        <5> QED BY <5>1, <5>2
      <4>3. Len(picks) + 1 <= Len(units)
        BY <1>1, <2>1, <3>1
      <4> QED BY <4>1, <4>2, <4>3 DEF AreChosen
    <3>5. ASSUME NEW n \in Nat PROVE EndsWell(c, base, units, found[<<n, picks, j + 1>>])
      <4> DEFINE y == <<n, picks, j + 1>>
      <4>1. y \in D /\ y[2] = picks /\ y[3] = j + 1
        BY <1>6, <2>1 DEF Positions
      <4> HIDE DEF y, D
      <4>2. rank[y] < Left(L, K, picks, j)
        BY <3>3, <4>1
      <4>3. EndsWell(c, base, units, found[y])
        <5> HIDE DEF rank
        <5> QED BY <1>6, <4>1, <4>2
      <4> QED BY <4>3 DEF y
    <3>6. EndsWell(c, base, units, found[<<k, Append(picks, j), 1>>])
      <4> DEFINE y == <<k, Append(picks, j), 1>>
      <4>1. y \in D /\ y[2] = Append(picks, j) /\ y[3] = 1
        <5>1. Append(picks, j) \in Seq(Nat) /\ 1 \in Nat /\ 1 >= 1
          BY <3>4 DEF AreChosen
        <5> QED BY <1>6, <3>4, <5>1 DEF Positions
      <4> HIDE DEF y, D
      <4>2. rank[y] < Left(L, K, picks, j)
        BY <3>3, <4>1
      <4>3. EndsWell(c, base, units, found[y])
        <5> HIDE DEF rank
        <5> QED BY <1>6, <4>1, <4>2
      <4> QED BY <4>3 DEF y
    <3>7. EndsWell(c, base, units, goOn[found[<<k, Append(picks, j), 1>>]])
      <4> DEFINE s == found[<<k, Append(picks, j), 1>>]
      <4>1. s \in Ends /\ EndsWell(c, base, units, s)
        BY <3>6 DEF EndsWell
      <4> HIDE DEF s
      <4>2. s.explored \in Nat
        BY <4>1 DEF Ends
      <4>3. goOn[s] = IF s.solution # NoSolution \/ s.exhausted THEN s
                      ELSE found[<<s.explored, picks, j + 1>>]
        BY <4>1
      <4> HIDE DEF goOn
      <4>4. EndsWell(c, base, units, goOn[s])
        BY <3>5, <4>1, <4>2, <4>3
      <4> QED BY <4>4 DEF s
    <3>8. EndsWell(c, base, units, found[<<k, picks, j + 1>>])
      BY <1>6, <3>5
    <3> HIDE DEF goOn, Skips, x
    <3>9. EndsWell(c, base, units, found[x])
      BY <2>2, <2>5, <3>7, <3>8
    <3> QED BY <3>9 DEF x
  <2> QED BY <2>3, <2>4, <2>5
<1>7. \A x \in D : (\A y \in D : rank[y] < rank[x] => y \in T) => x \in T
  <2>1. ASSUME NEW x \in D, \A y \in D : rank[y] < rank[x] => y \in T PROVE x \in T
    <3> DEFINE k == x[1]
               picks == x[2]
               j == x[3]
    <3>1. k \in Nat /\ AreChosen(units, picks) /\ j \in Nat /\ j >= 1 /\ x = <<k, picks, j>>
      BY DEF Positions
    <3>2. rank[x] = Left(L, K, picks, j)
      OBVIOUS
    <3> HIDE DEF k, picks, j, rank, D
    <3>3. \A y \in D : rank[y] < Left(L, K, picks, j) => EndsWell(c, base, units, found[y])
      BY <2>1, <3>2
    <3>4. EndsWell(c, base, units, found[<<k, picks, j>>])
      BY <1>6, <3>1, <3>3
    <3> QED BY <2>1, <3>1, <3>4
  <2> HIDE DEF D, rank, T
  <2> QED BY <2>1
<1>8. D \subseteq T
  <2> HIDE DEF D, rank, T
  <2> QED BY <1>5, <1>7, RankInduction
<1>9. <<0, << >>, 1>> \in D
  <2>1. AreChosen(units, << >>)
    BY <1>1 DEF AreChosen
  <2>2. << >> \in Seq(Nat) /\ 0 \in Nat /\ 1 \in Nat /\ 1 >= 1
    OBVIOUS
  <2> QED BY <2>1, <2>2 DEF Positions
<1> QED BY <1>4, <1>8, <1>9

\* What the search selects: every input of the constraints, each with what it may have, and
\* none under one that is absent.
IsSelection(c, selected) ==
  /\ ReferencedInputs(c.constraints) \subseteq DOMAIN selected /\ DOMAIN selected \subseteq Nodes(c)
  /\ \A n \in DOMAIN selected : Fine(c, n, selected[n])
  /\ Coherent(c, selected)

LEMMA PickedIsFine ==
  ASSUME NEW c, NEW units, AreUnits(c, units), NEW picks, AreChosen(units, picks),
         Len(picks) = Len(units)
  PROVE  /\ ReferencedInputs(c.constraints) \subseteq DOMAIN Picked(units, picks)
         /\ DOMAIN Picked(units, picks) \subseteq Nodes(c)
         /\ \A n \in DOMAIN Picked(units, picks) : Fine(c, n, Picked(units, picks)[n])
<1> DEFINE At(n) == CHOOSE i \in DOMAIN picks : n \in units[i].nodes
           chosen == UNION {units[i].nodes : i \in DOMAIN picks}
<1>1. Picked(units, picks) = [n \in chosen |-> units[At(n)].candidates[picks[At(n)]][n]]
  BY DEF Picked
<1>2. /\ DOMAIN picks = 1..Len(picks) /\ DOMAIN units = 1..Len(units)
      /\ \A i \in DOMAIN picks : picks[i] \in DOMAIN units[i].candidates
  BY DEF AreChosen, AreUnits, IsSequence
<1>3. \A n \in chosen : At(n) \in DOMAIN picks /\ n \in units[At(n)].nodes
  OBVIOUS
<1>4. ReferencedInputs(c.constraints) \subseteq chosen
  <2>1. ASSUME NEW n \in ReferencedInputs(c.constraints) PROVE n \in chosen
    <3>1. PICK i \in DOMAIN units : n \in units[i].nodes
      BY DEF AreUnits
    <3>2. i \in DOMAIN picks
      BY <1>2
    <3> QED BY <3>1, <3>2
  <2> QED BY <2>1
<1>6. chosen \subseteq Nodes(c)
  <2>1. \A i \in DOMAIN picks : units[i] \in ToSet(units)
    BY <1>2 DEF ToSet
  <2>2. \A i \in DOMAIN picks : units[i].nodes \subseteq Nodes(c)
    BY <2>1 DEF AreUnits, IsUnit
  <2> QED BY <2>2
<1> HIDE DEF At, chosen
<1>5. ASSUME NEW n \in chosen PROVE Fine(c, n, units[At(n)].candidates[picks[At(n)]][n])
  <2> DEFINE i == At(n)
             u == units[i]
  <2>1. i \in DOMAIN picks /\ i \in DOMAIN units /\ n \in u.nodes /\ picks[i] \in DOMAIN u.candidates
    BY <1>2, <1>3
  <2>2. IsUnit(c, u)
    BY <2>1 DEF AreUnits, ToSet
  <2>3. u.candidates[picks[i]] \in ToSet(u.candidates)
    BY <2>1 DEF ToSet
  <2> HIDE DEF i, u
  <2>4. Fine(c, n, u.candidates[picks[i]][n])
    BY <2>1, <2>2, <2>3 DEF IsUnit
  <2> QED BY <2>4 DEF i, u
<1> HIDE DEF Fine
<1> QED BY <1>1, <1>4, <1>5, <1>6

LEMMA SolvedHas ==
  ASSUME NEW c, HasTree(c), DrawsValues(c), ReferencedInputs(c.constraints) \subseteq Nodes(c),
         NEW base, Solve(c, base)[1] = "solved"
  PROVE  \E selected : IsSelection(c, selected)
                       /\ Solve(c, base)[2] = Completed(c, selected, base).overrides
<1> DEFINE units == OrderedUnits(c, base)
           end == Search(c, base, units)
           picks == end.solution[1]
<1>1. AreUnits(c, units)
  BY OrderedAreUnits
<1>2. Solve(c, base) = SolveUnits(c, base, units)
  BY DEF Solve
<1> HIDE DEF units
<1>3. IsSequence(units) /\ \A i \in DOMAIN units : IsSequence(units[i].candidates)
  BY <1>1 DEF AreUnits, IsUnit, ToSet
<1>4. EndsWell(c, base, units, end)
  BY <1>3, SearchIsSound
<1>5. Solve(c, base) = Verdicted(c, base, units, end)
  BY <1>2 DEF SolveUnits
<1> HIDE DEF end
<1>6. end.solution # NoSolution
      /\ Solve(c, base)[2] = Completed(c, Picked(units, picks), base).overrides
  BY <1>5 DEF Verdicted
<1>7. AreChosen(units, picks) /\ Len(picks) = Len(units) /\ Good(c, Picked(units, picks), base)
  BY <1>4, <1>6 DEF EndsWell
<1>8. IsSelection(c, Picked(units, picks))
  BY <1>1, <1>7, PickedIsFine DEF IsSelection, Good
<1> QED BY <1>6, <1>8

-----------------------------------------------------------------------------
(* What is requested arrives.                                              *)

\* Two cases that differ in their overrides and their constraints only.
SameCase(c, d) ==
  /\ d.op = c.op /\ d.records = c.records /\ d.responses = c.responses
  /\ d.draws = c.draws /\ d.chance = c.chance /\ d.strategy = c.strategy

LEMMA SameCaseStands ==
  ASSUME NEW c, NEW d, SameCase(c, d)
  PROVE  /\ Nodes(d) = Nodes(c)
         /\ \A n : Node(d, n) = Node(c, n) /\ Strategy(d, n) = Strategy(c, n)
         /\ HasTree(c) => HasTree(d)
         /\ DrawsValues(c) => DrawsValues(d)
<1>1. Nodes(d) = Nodes(c) /\ \A n : Node(d, n) = Node(c, n) /\ Strategy(d, n) = Strategy(c, n)
  BY DEF SameCase, Nodes, Node, Strategy
<1>2. HasTree(c) => HasTree(d)
  BY DEF SameCase, HasTree
<1>3. DrawsValues(c) => DrawsValues(d)
  BY <1>1 DEF SameCase, DrawsValues
<1> QED BY <1>1, <1>2, <1>3

\* What the solver adds to the chosen values: the containers that the baseline lacks.
LEMMA OverridesAre ==
  ASSUME NEW c, NEW selected, NEW base
  PROVE  LET over == Completed(c, selected, base).overrides
             added == {m \in AncestorsOf(c, selected) : base[m] = Absent}
         IN  /\ DOMAIN over = added \cup DOMAIN selected
             /\ \A n \in added : over[n] = Bare
             /\ \A n \in DOMAIN selected \ added : over[n] = selected[n]
<1> DEFINE above == [n \in AncestorsOf(c, selected) |-> Bare]
           added == {m \in AncestorsOf(c, selected) : base[m] = Absent}
           f == [n \in {m \in DOMAIN above : base[m] = Absent} |-> Bare]
<1>1. Completed(c, selected, base).overrides = Over(f, selected)
  BY DEF Completed
<1>2. DOMAIN f = added /\ \A n \in added : f[n] = Bare
  OBVIOUS
<1> HIDE DEF f
<1> QED BY <1>1, <1>2 DEF Over

\* Whether an input is included where the solver says nothing of it.
Included(c, n) ==
  \/ c.chance[n] = "always"
  \/ c.chance[n] = "sometimes" /\ c.draws.include[n]

\* d is the second pass over c, for a selection and a baseline that the first one made.
IsSecond(c, base, selected, d) ==
  /\ HasTree(c) /\ DrawsValues(c) /\ SameCase(c, d) /\ IsSelection(c, selected)
  /\ \A n \in Nodes(c) : Plain(c, n) /\ base[n] # Absent => Included(c, n)
  /\ d.overrides = Completed(c, selected, base).overrides

\* A chosen input is requested with what was chosen, unless it has to be there for another.
LEMMA ChosenIsRequested ==
  ASSUME NEW c, NEW base, NEW selected, NEW d, IsSecond(c, base, selected, d),
         NEW n \in DOMAIN selected
  PROVE  /\ n \in DOMAIN d.overrides
         /\ d.overrides[n] = Absent => selected[n] = Absent
         /\ d.overrides[n] # Absent => selected[n] # Absent
         /\ ~Node(c, n).container => d.overrides[n] = selected[n]
<1> DEFINE over == Completed(c, selected, base).overrides
           added == {m \in AncestorsOf(c, selected) : base[m] = Absent}
<1>1. /\ d.overrides = over /\ DOMAIN over = added \cup DOMAIN selected
      /\ \A m \in added : over[m] = Bare
      /\ \A m \in DOMAIN selected \ added : over[m] = selected[m]
  BY OverridesAre DEF IsSecond
<1>2. Bare # Absent
  BY DEF Bare, Absent
<1>3. n \in AncestorsOf(c, selected) => selected[n] # Absent /\ Node(c, n).container
  <2>1. HAVE n \in AncestorsOf(c, selected)
  <2>2. PICK m \in DOMAIN selected : selected[m] # Absent /\ n \in Ancestors(c, m)
    BY <2>1 DEF AncestorsOf
  <2>3. m \in Nodes(c) /\ Coherent(c, selected) /\ HasTree(c)
    BY DEF IsSecond, IsSelection
  <2>4. AncestorFacts(c, m)
    BY <2>3, AncestorsAre
  <2>5. Node(c, n).container
    BY <2>2, <2>4 DEF AncestorFacts
  <2> QED BY <2>2, <2>3, <2>5 DEF Coherent
<1> HIDE DEF over
<1> QED BY <1>1, <1>2, <1>3

\* An input that is requested is taken, and every container above it.
LEMMA RequestedIsTaken ==
  ASSUME NEW c, NEW base, NEW selected, NEW d, IsSecond(c, base, selected, d),
         NEW n \in DOMAIN selected, Plain(c, n), d.overrides[n] # Absent
  PROVE  TakenTo(d, n)
<1> DEFINE over == Completed(c, selected, base).overrides
           added == {m \in AncestorsOf(c, selected) : base[m] = Absent}
<1>1. /\ d.overrides = over /\ DOMAIN over = added \cup DOMAIN selected
      /\ \A m \in added : over[m] = Bare
      /\ \A m \in DOMAIN selected \ added : over[m] = selected[m]
  BY OverridesAre DEF IsSecond
<1>2. Bare # Absent
  BY DEF Bare, Absent
<1>3. n \in Nodes(c) /\ HasTree(c) /\ Coherent(c, selected) /\ selected[n] # Absent /\ SameCase(c, d)
  BY ChosenIsRequested DEF IsSecond, IsSelection
<1>4. Taken(d, n)
  BY ChosenIsRequested DEF Taken
<1>5. Ancestors(d, n) = Ancestors(c, n)
  BY <1>3, SameAncestors DEF SameCase
<1>6. ASSUME NEW a \in Ancestors(c, n) PROVE Taken(d, a)
  <2>1. a \in AncestorsOf(c, selected)
    BY <1>3, <1>6 DEF AncestorsOf
  <2>2. AncestorFacts(c, n)
    BY <1>3, AncestorsAre
  <2>3. a \in Nodes(c) /\ Plain(c, a)
    BY <1>3, <1>6, <2>2, PlainAbove DEF AncestorFacts
  <2> HIDE DEF over
  <2>4. CASE base[a] = Absent
    BY <1>1, <1>2, <2>1, <2>4 DEF Taken
  <2>5. CASE base[a] # Absent /\ a \in DOMAIN selected
    <3>1. selected[a] # Absent
      BY <1>3, <1>6, <2>5 DEF Coherent
    <3> QED BY <1>1, <2>5, <3>1 DEF Taken
  <2>6. CASE base[a] # Absent /\ a \notin DOMAIN selected
    <3>1. a \notin DOMAIN d.overrides
      BY <1>1, <2>6
    <3>2. Included(c, a)
      BY <2>3, <2>6 DEF IsSecond
    <3>3. d.chance = c.chance /\ d.draws = c.draws
      BY <1>3 DEF SameCase
    <3> QED BY <3>1, <3>2, <3>3 DEF Taken, Included
  <2> QED BY <2>4, <2>5, <2>6
<1> QED BY <1>4, <1>5, <1>6 DEF TakenTo

\* The Generators that were chosen, one for each input.
StrategiesFit(c) == \A n \in Nodes(c) : IsStrategy(c.op, n, Strategy(c, n))

\* Nothing is built for an input without others below it but the value that it was given.
LEMMA LeafIsBuilt ==
  ASSUME NEW d, HasTree(d), StrategiesFit(d), NEW n \in Nodes(d), ~Node(d, n).container,
         n \in DOMAIN d.overrides, Build(d, n) \notin {Absent, Failed},
         Strategy(d, n).type \in ScalarStrategies => HasValue(d.overrides[n])
  PROVE  Build(d, n) = d.overrides[n]
<1> DEFINE below == [k \in PartsOf(d, n) |-> Build(d, k)]
           branch == BranchTaken(d, n)
           items == Children(d, n, "items")
           merged == {below[k] : k \in Children(d, n, "allOf")}
<1>1. Build(d, n) = ValueOver(d, n, below)
  BY BuildUnfold
<1>2. \A e : Children(d, n, e) = {}
  <2>1. ASSUME NEW e, NEW m \in Children(d, n, e) PROVE FALSE
    <3>1. m \in Nodes(d) /\ Node(d, m).parent = n
      BY <2>1 DEF Children
    <3>2. n # NoNode
      BY DEF HasTree, IsTree, Nodes
    <3> QED BY <3>1, <3>2, ParentIsContainer
  <2> QED BY <2>1
<1>3. Strategy(d, n).type # "object"
  BY DEF StrategiesFit, IsStrategy, Node
<1>4. branch \notin Children(d, n, "oneOf") /\ items = {} /\ Taken(d, n) \in BOOLEAN
  BY <1>2 DEF Taken
<1> HIDE DEF below, branch
<1>5. CASE Strategy(d, n).type \in ScalarStrategies
  BY <1>1, <1>5 DEF ValueOver
<1>6. CASE Strategy(d, n).type \notin ScalarStrategies
  <2>1. ValueOver(d, n, below) \in {Absent, Failed}
    BY <1>3, <1>4, <1>6 DEF ValueOver, branch
  <2> QED BY <1>1, <2>1
<1> QED BY <1>5, <1>6

\* What is requested to be left out stays away.
LEMMA AbsentStaysAway ==
  ASSUME NEW c, NEW base, NEW selected, NEW d, IsSecond(c, base, selected, d),
         NEW r, IsRequestOf(d, r), NEW n \in DOMAIN selected, Plain(c, n), d.overrides[n] = Absent
  PROVE  Received(c, r)[n] = Absent
<1>1. /\ n \in Nodes(c) /\ HasTree(c) /\ DrawsValues(c) /\ SameCase(c, d)
      /\ Fine(c, n, selected[n]) /\ selected[n] = Absent
  BY ChosenIsRequested DEF IsSecond, IsSelection
<1>2. /\ HasTree(d) /\ DrawsValues(d) /\ Nodes(d) = Nodes(c) /\ d.op = c.op
      /\ \A m : Node(d, m) = Node(c, m)
  BY <1>1, SameCaseStands DEF SameCase
<1>3. ~Taken(d, n)
  BY ChosenIsRequested DEF Taken
<1>4. CASE Node(c, n).kind = "request_body"
  <2>1. ~r.hasBody
    <3>1. ASSUME NEW m \in Nodes(d), Node(d, m).kind = "request_body", Taken(d, m) PROVE FALSE
      BY <1>1, <1>2, <1>3, <1>4, <3>1, OneBody
    <3> QED BY <3>1 DEF IsRequestOf
  <2> QED BY <1>1, <1>4, <2>1 DEF Received
<1>5. CASE Node(c, n).kind # "request_body"
  <2>1. Plain(d, n) /\ Projected(d, r, n) = Projected(c, r, n)
    BY <1>1, SamePlain, SameProjected DEF SameCase
  <2>2. n # c.op.active
    <3>1. n = c.op.active => Node(c, n).edge = "media"
      BY <1>1, PlainEdges
    <3>2. Node(c, n).edge # "media"
      BY <1>1 DEF HasTree, IsTree, Fine, Mandatory, Node, Nodes
    <3> QED BY <3>1, <3>2
  <2>3. Build(d, n) = Absent
    BY <1>1, <1>2, <1>3, TakenIsBuilt
  <2>4. Projected(d, r, n) = Failed
    BY <1>1, <1>2, <2>1, <2>2, <2>3, OnlyBuiltArrives
  <2> QED BY <1>1, <1>5, <2>1, <2>4 DEF Received
<1> QED BY <1>4, <1>5

\* What is requested arrives.
LEMMA PresentArrives ==
  ASSUME NEW c, NEW base, NEW selected, NEW d, IsSecond(c, base, selected, d), StrategiesFit(c),
         NEW r, IsRequestOf(d, r), NEW n \in DOMAIN selected, Plain(c, n), d.overrides[n] # Absent
  PROVE  /\ Received(c, r)[n] # Absent
         /\ ~Node(c, n).container => Received(c, r)[n] = d.overrides[n]
<1>1. /\ n \in Nodes(c) /\ HasTree(c) /\ DrawsValues(c) /\ SameCase(c, d)
      /\ Fine(c, n, selected[n]) /\ selected[n] # Absent /\ n \in DOMAIN d.overrides
      /\ ~Node(c, n).container => d.overrides[n] = selected[n]
  BY ChosenIsRequested DEF IsSecond, IsSelection
<1>2. /\ HasTree(d) /\ DrawsValues(d) /\ Nodes(d) = Nodes(c) /\ d.op = c.op
      /\ \A m : Node(d, m) = Node(c, m) /\ Strategy(d, m) = Strategy(c, m)
  BY <1>1, SameCaseStands DEF SameCase
<1>3. TakenTo(d, n) /\ Taken(d, n)
  BY RequestedIsTaken DEF TakenTo
<1>4. Bare # Absent
  BY DEF Bare, Absent
<1>5. CASE Node(c, n).kind = "request_body"
  <2>1. r.hasBody
    BY <1>1, <1>2, <1>3, <1>5 DEF IsRequestOf
  <2>2. Node(c, n).container
    BY <1>1, <1>5 DEF HasTree, IsTree, Node, Nodes
  <2> QED BY <1>1, <1>4, <1>5, <2>1, <2>2 DEF Received
<1>6. CASE Node(c, n).kind # "request_body"
  <2>1. Plain(d, n) /\ Projected(d, r, n) = Projected(c, r, n)
    BY <1>1, SamePlain, SameProjected DEF SameCase
  <2>2. Projected(c, r, n) = Build(d, n) /\ Build(d, n) \notin {Absent, Failed}
    BY <1>1, <1>2, <1>3, <1>6, <2>1, TakenArrives
  <2>3. Received(c, r)[n] = IF Node(c, n).container THEN Bare ELSE Build(d, n)
    BY <1>1, <1>6, <2>2 DEF Received
  <2>4. ~Node(c, n).container => Build(d, n) = d.overrides[n]
    <3>1. HAVE ~Node(c, n).container
    <3>2. StrategiesFit(d)
      BY <1>2 DEF StrategiesFit
    <3>3. Strategy(d, n).type \in ScalarStrategies => HasValue(d.overrides[n])
      BY <1>1, <1>2, <3>1 DEF Fine
    <3> QED BY <1>1, <1>2, <2>2, <3>1, <3>2, <3>3, LeafIsBuilt
  <2> QED BY <1>4, <2>2, <2>3, <2>4
<1> QED BY <1>5, <1>6

-----------------------------------------------------------------------------
(* A request meets its constraints.                                        *)

\* A constraint means the same for two assignments that agree on its inputs.
LEMMA AgreementHolds ==
  ASSUME NEW e, NEW a, NEW b,
         \A n \in InputsOf(e) : n \in DOMAIN a /\ n \in DOMAIN b /\ (a[n] = Absent <=> b[n] = Absent),
         \A n \in Operands(e) : a[n] = b[n]
  PROVE  Holds(e, a) <=> Holds(e, b)
<1>1. PresentIn(e, a) = PresentIn(e, b)
  BY DEF PresentIn
<1>2. GivenTo(e, a) = GivenTo(e, b)
  <2> DEFINE given(f) == {m \in Operands(e) \cap DOMAIN f : HasValue(f[m])}
  <2>1. given(a) = given(b)
    BY DEF InputsOf
  <2>2. GivenTo(e, a) = [n \in given(a) |-> a[n]] /\ GivenTo(e, b) = [n \in given(b) |-> b[n]]
    BY DEF GivenTo
  <2>3. \A n \in given(a) : a[n] = b[n]
    OBVIOUS
  <2> HIDE DEF given
  <2> QED BY <2>1, <2>2, <2>3
<1> QED BY <1>1, <1>2 DEF Holds

\* The constraints that are accepted name inputs, and values of scalar inputs.
LEMMA ValidNames ==
  ASSUME NEW c, ValidSet(c.constraints, Referable(c), ScalarTypes(c)), NEW i \in DOMAIN c.constraints
  PROVE  /\ InputsOf(c.constraints[i]) \subseteq Nodes(c)
         /\ \A n \in Operands(c.constraints[i]) : ~Node(c, n).container
<1> DEFINE e == c.constraints[i]
<1>1. Valid(e, Referable(c), ScalarTypes(c))
  BY DEF ValidSet
<1>2. \A x \in Subterms(e) : x.type = "input_value" => x.node \in DOMAIN ScalarTypes(c)
  BY <1>1 DEF Valid
<1>3. \A x \in Subterms(e) : x.type = "present" => x.node \in Referable(c)
  BY <1>1 DEF Valid
<1>4. /\ Referable(c) \subseteq Nodes(c) /\ DOMAIN ScalarTypes(c) \subseteq Referable(c)
      /\ \A n \in DOMAIN ScalarTypes(c) : ~Node(c, n).container
  BY DEF Referable, ScalarTypes
<1> QED BY <1>2, <1>3, <1>4 DEF InputsOf, Operands

IsCase(c) ==
  \E op, responses, generators, kept, draws : c = CaseOf(op, responses, generators, kept, draws)

LEMMA RecastIs ==
  ASSUME NEW c, IsCase(c), NEW over, NEW d, d = [c EXCEPT !.overrides = over]
  PROVE  SameCase(c, d) /\ d.overrides = over
<1>1. PICK op, responses, generators, kept, draws : c = CaseOf(op, responses, generators, kept, draws)
  BY DEF IsCase
<1> QED BY <1>1 DEF CaseOf, SameCase

\* A search ends well or with the code of an error, and so does the first pass.
LEMMA SolveAnswers ==
  ASSUME NEW c, NEW base, NEW r
  PROVE  Solve(c, base)[1] = "solved" \/ Solve(c, base) # <<"request", r>>
BY DEF Solve, SolveUnits, Verdicted

LEMMA GenerateAnswers ==
  ASSUME NEW c
  PROVE  Generate(c) = Failed \/ \E r : Generate(c) = <<"request", r>>
BY DEF Generate, Assembled

\* The baseline has only what its own draws include.
LEMMA BaselineIsIncluded ==
  ASSUME NEW c, HasTree(c), DrawsValues(c), NEW d, SameCase(c, d), d.overrides = << >>,
         NEW r, Generate(d) = <<"request", r>>
  PROVE  \A n \in Nodes(c) : Plain(c, n) /\ Recovered(c, r)[n] # Absent => Included(c, n)
<1>1. IsRequestOf(d, r)
  BY RequestOfCase
<1>2. /\ Nodes(d) = Nodes(c) /\ HasTree(d) /\ DrawsValues(d) /\ d.op = c.op /\ d.strategy = c.strategy
      /\ d.chance = c.chance /\ d.draws = c.draws
  BY SameCaseStands DEF SameCase
<1>3. DOMAIN r.made \subseteq Nodes(c)
  BY <1>1, <1>2 DEF IsRequestOf
<1>4. Recovered(d, r) = Recovered(c, r)
  BY <1>2, <1>3, SameRecovered
<1>5. ASSUME NEW n \in Nodes(c), Plain(c, n), Recovered(c, r)[n] # Absent PROVE Included(c, n)
  <2>1. Plain(d, n)
    BY <1>2, <1>5, SamePlain
  <2>2. Taken(d, n)
    BY <1>1, <1>2, <1>4, <1>5, <2>1, RecoveredIsTaken
  <2>3. n \notin DOMAIN d.overrides
    OBVIOUS
  <2> QED BY <1>2, <2>2, <2>3 DEF Taken, Included
<1> QED BY <1>5

\* The request of a case meets its constraints as the server receives it.
LEMMA CaseMeetsConstraints ==
  ASSUME NEW c, IsCase(c), HasTree(c), DrawsValues(c), StrategiesFit(c),
         NEW r, TestCase(c) = <<"request", r>>,
         NEW i \in DOMAIN c.constraints, \A n \in InputsOf(c.constraints[i]) : Plain(c, n)
  PROVE  Holds(c.constraints[i], Received(c, r))
<1> DEFINE first == Generate(Unsolved(c))
<1>1. TestCase(c) = Generated(c, first) /\ c.constraints # << >>
  BY DEF TestCase
<1>2. first # Failed
  BY <1>1 DEF Generated, Failed
<1>3. PICK r0 : first = <<"request", r0>>
  BY <1>2, GenerateAnswers
<1> DEFINE base == Recovered(c, r0)
<1> HIDE DEF first
<1>4. /\ ValidSet(c.constraints, Referable(c), ScalarTypes(c))
      /\ Second(c, Solve(c, base)) = <<"request", r>>
  BY <1>1, <1>2, <1>3 DEF Generated
<1>5. \A j \in DOMAIN c.constraints :
        /\ InputsOf(c.constraints[j]) \subseteq Nodes(c)
        /\ \A n \in Operands(c.constraints[j]) : ~Node(c, n).container
  BY <1>4, ValidNames
<1>6. Solve(c, base)[1] = "solved"
  BY <1>4, SolveAnswers DEF Second
<1>7. ReferencedInputs(c.constraints) \subseteq Nodes(c)
  BY <1>5 DEF ReferencedInputs
<1>8. PICK selected : IsSelection(c, selected)
                      /\ Solve(c, base)[2] = Completed(c, selected, base).overrides
  BY <1>6, <1>7, SolvedHas
<1> DEFINE over == Completed(c, selected, base).overrides
           d == [c EXCEPT !.overrides = over]
           a == Over(over, Recovered(c, r))
<1>9. Rechecked(c, over, Generate(d)) = <<"request", r>>
  BY <1>4, <1>6, <1>8 DEF Second
<1>10. Generate(d) = <<"request", r>> /\ Satisfied(c.constraints, a)
  <2> HIDE DEF d, over
  <2>1. Generate(d) # Failed
    BY <1>9 DEF Rechecked, Failed
  <2>2. Satisfied(c.constraints, Over(over, Recovered(c, Generate(d)[2])))
    BY <1>9, <2>1 DEF Rechecked
  <2>3. Generate(d) = <<"request", r>>
    BY <1>9, <2>1, <2>2 DEF Rechecked
  <2> QED BY <2>2, <2>3
<1>11. SameCase(c, d) /\ d.overrides = over
  BY RecastIs
<1> HIDE DEF d
<1>12. IsRequestOf(d, r)
  BY <1>10, RequestOfCase
<1>13. \A n \in Nodes(c) : Plain(c, n) /\ base[n] # Absent => Included(c, n)
  <2>1. SameCase(c, Unsolved(c)) /\ Unsolved(c).overrides = << >>
    BY RecastIs DEF Unsolved
  <2>2. Generate(Unsolved(c)) = <<"request", r0>>
    BY <1>3 DEF first
  <2> QED BY <2>1, <2>2, BaselineIsIncluded
<1>14. IsSecond(c, base, selected, d)
  BY <1>8, <1>11, <1>13 DEF IsSecond
<1> DEFINE e == c.constraints[i]
<1>15. \A n \in InputsOf(e) : n \in DOMAIN selected /\ n \in Nodes(c) /\ n \in DOMAIN over /\ a[n] = over[n]
  <2>1. \A n \in InputsOf(e) : n \in DOMAIN selected
    BY <1>8 DEF IsSelection, ReferencedInputs
  <2>2. \A n \in InputsOf(e) : n \in DOMAIN over
    BY <1>11, <1>14, <2>1, ChosenIsRequested
  <2> HIDE DEF over
  <2> QED BY <1>5, <2>1, <2>2 DEF Over
<1>16. \A n \in InputsOf(e) : n \in DOMAIN a /\ n \in DOMAIN Received(c, r)
  <2>1. DOMAIN Received(c, r) = Nodes(c)
    BY DEF Received
  <2> HIDE DEF over
  <2> QED BY <1>15, <2>1 DEF Over
<1> HIDE DEF over, a, base
<1>17. \A n \in InputsOf(e) : over[n] = Absent <=> Received(c, r)[n] = Absent
  BY <1>11, <1>12, <1>14, <1>15, AbsentStaysAway, PresentArrives
<1>18. \A n \in Operands(e) : n \in InputsOf(e) /\ over[n] = Received(c, r)[n]
  <2>1. \A n \in Operands(e) : n \in InputsOf(e) /\ ~Node(c, n).container
    BY <1>5 DEF InputsOf
  <2> QED BY <1>11, <1>12, <1>14, <1>15, <2>1, AbsentStaysAway, PresentArrives
<1>19. Holds(e, a) <=> Holds(e, Received(c, r))
  <2> HIDE DEF e
  <2> QED BY <1>15, <1>16, <1>17, <1>18, AgreementHolds
<1>20. Holds(e, a)
  BY <1>10 DEF Satisfied
<1> QED BY <1>19, <1>20

\* A slot ends with a request only where its case does.
LEMMA RequestIsPair ==
  ASSUME NEW c, TestCase(c)[1] = "request"
  PROVE  TestCase(c) = <<"request", TestCase(c)[2]>>
<1> DEFINE first == Generate(Unsolved(c))
           base == Recovered(c, first[2])
           solved == Solve(c, base)
           d == [c EXCEPT !.overrides = solved[2]]
           IsPair(x) == x[1] = "request" => x = <<"request", x[2]>>
<1>1. \A x : IsPair(Generate(x))
  BY GenerateAnswers DEF Failed
<1>2. IsPair(Failed)
  BY DEF Failed
<1>3. \A over, made : IsPair(made) => IsPair(Rechecked(c, over, made))
  BY <1>2 DEF Rechecked
<1>4. solved[1] # "solved" => IsPair(solved)
  BY DEF Solve, SolveUnits, Verdicted
<1>5. IsPair(Second(c, solved))
  <2> HIDE DEF solved
  <2>1. IsPair(Rechecked(c, solved[2], Generate(d)))
    <3> HIDE DEF IsPair
    <3> QED BY <1>1, <1>3
  <2> HIDE DEF IsPair, d
  <2> QED BY <1>4, <2>1 DEF Second, d
<1>6. IsPair(first)
  <2> HIDE DEF IsPair
  <2> QED BY <1>1
<1>7. Generated(c, first) \in {first, <<"constraint_invalid">>, Second(c, solved)}
  <2> HIDE DEF first
  <2> QED BY DEF Generated
<1>8. IsPair(Generated(c, first))
  <2>1. IsPair(<<"constraint_invalid">>)
    OBVIOUS
  <2> HIDE DEF IsPair, first, solved
  <2> QED BY <1>5, <1>6, <1>7, <2>1
<1> QED BY <1>8 DEF TestCase

\* What a Batch reads of a source are values.
LEMMA CapturedAreValues ==
  ASSUME NEW o, WellFormed(o), NEW s \in DOMAIN Observed(o)
  PROVE  AreValues(Observed(o)[s])
<1> DEFINE observed == o.evidence.observed[s]
           S == {i \in DOMAIN observed : IsScalar(observed[i])}
           values == Distinct(ElementsAt(observed, S))
           k == Min({Len(values), MaxObserved})
<1>1. Observed(o)[s] = SubSeq(values, 1, k) /\ s \in DOMAIN o.evidence.observed
  BY DEF Observed, Filter
<1>2. AreValues(observed)
  BY <1>1 DEF WellFormed
<1>3. IsSequence(ElementsAt(observed, S)) /\ ToSet(ElementsAt(observed, S)) \subseteq ToSet(observed)
  <2>1. IsSequence(observed) /\ S \in SUBSET (DOMAIN observed)
    BY <1>2 DEF AreValues
  <2>2. ToSet(ElementsAt(observed, S)) = {observed[i] : i \in S} /\ IsSequence(ElementsAt(observed, S))
    BY <2>1, ElementsHave
  <2> QED BY <2>2 DEF ToSet
<1>4. IsSequence(values) /\ ToSet(values) = ToSet(ElementsAt(observed, S))
  BY <1>3, DistinctHas
<1> HIDE DEF values
<1>5. k \in 0..Len(values)
  <2>1. Len(values) \in Nat /\ MaxObserved \in Nat
    BY <1>4, SemanticAssumption, SequenceIsSequence DEF IsSequence
  <2> DEFINE P == {Len(values), MaxObserved}
             least == IF Len(values) < MaxObserved THEN Len(values) ELSE MaxObserved
  <2>2. least \in P /\ \A y \in P : least =< y
    BY <2>1
  <2>3. k \in P /\ \A y \in P : k =< y
    BY <2>2 DEF Min
  <2> QED BY <2>1, <2>3
<1> HIDE DEF k
<1>6. IsSequence(SubSeq(values, 1, k)) /\ ToSet(SubSeq(values, 1, k)) \subseteq ToSet(values)
  BY <1>4, <1>5, PrefixHas
<1> QED BY <1>1, <1>2, <1>3, <1>4, <1>6 DEF AreValues

-----------------------------------------------------------------------------
(* The strategies that reach a request.                                    *)

\* Every candidate is a Generator that its input can have.
CandidatesFit(o, candidates) ==
  \A n \in DOMAIN candidates : \A i \in DOMAIN candidates[n] : IsStrategy(o, n, candidates[n][i].strategy)

\* The items for an input say what it can have.
ItemsFit(o, n, items) ==
  IsSequence(items) /\ \A i \in DOMAIN items : items[i].node = n /\ IsStrategy(o, n, items[i].strategy)

LEMMA ItemsForFit ==
  ASSUME NEW o, NEW changes, IsSequence(changes), NEW n,
         \A i \in DOMAIN changes : IsStrategy(o, changes[i].node, changes[i].strategy)
  PROVE  /\ ItemsFit(o, n, ItemsFor(changes, n))
         /\ \A i \in DOMAIN ItemsFor(changes, n) : \E j \in DOMAIN changes : ItemsFor(changes, n)[i] = changes[j]
<1> DEFINE S == {i \in DOMAIN changes : changes[i].node = n}
           items == ItemsFor(changes, n)
<1>1. items = ElementsAt(changes, S)
  BY DEF ItemsFor, Filter
<1>2. S \in SUBSET (DOMAIN changes) /\ \A j \in S : changes[j].node = n
  OBVIOUS
<1> HIDE DEF S, items
<1>3. IsSequence(items) /\ ToSet(items) = {changes[j] : j \in S}
  BY <1>1, <1>2, ElementsHave
<1>4. \A i \in DOMAIN items : \E j \in S : items[i] = changes[j]
  BY <1>3 DEF ToSet
<1> QED BY <1>2, <1>3, <1>4 DEF ItemsFit, items

LEMMA ExpandFits ==
  ASSUME NEW c, NEW candidates, AreCandidates(c.op, candidates), CandidatesFit(c.op, candidates),
         NEW changes, AreItems(changes),
         \A i \in DOMAIN changes : IsStrategy(c.op, changes[i].node, changes[i].strategy),
         NEW n \in Nodes(c), n \in Expanded(c, candidates, changes)
  PROVE  ItemsFit(c.op, n, Expand(c, candidates, changes)[n])
<1> DEFINE required == RequiredAncestors(c, changes)
           optional == {a \in required : \E i \in DOMAIN candidates[a] : candidates[a][i].chance # "always"}
           items == ItemsFor(changes, n)
           f == [i \in DOMAIN items |-> IF items[i].chance = Keep /\ n \notin optional THEN items[i]
                                        ELSE [items[i] EXCEPT !.chance = "always"]]
           g == [i \in DOMAIN candidates[n] |->
                  [node |-> n, chance |-> "always", strategy |-> candidates[n][i].strategy]]
           list == IF n \notin required THEN items ELSE IF n \in NodesOf(changes) THEN f ELSE g
<1>1. Expand(c, candidates, changes)[n] = list
  BY DEF Expand, Expanded
<1>2. IsSequence(list)
  <2>1. IsSequence(candidates[n])
    BY DEF AreCandidates, Nodes
  <2>2. IsSequence(Expand(c, candidates, changes)[n])
    BY <2>1, ExpandHas DEF AreItems
  <2> QED BY <1>1, <2>2
<1>3. ItemsFit(c.op, n, items)
      /\ \A i \in DOMAIN items : \E j \in DOMAIN changes : items[i] = changes[j]
  BY ItemsForFit DEF AreItems
<1> HIDE DEF items, required, optional
<1>4. \A i \in DOMAIN f : f[i].node = n /\ IsStrategy(c.op, n, f[i].strategy)
  <2>1. ASSUME NEW i \in DOMAIN items PROVE f[i].node = n /\ IsStrategy(c.op, n, f[i].strategy)
    <3> DEFINE x == items[i]
               y == [x EXCEPT !.chance = "always"]
    <3>1. DOMAIN x = {"node", "chance", "strategy"} /\ x.node = n /\ IsStrategy(c.op, n, x.strategy)
      BY <1>3 DEF AreItems, ItemsFit
    <3>2. f[i] \in {x, y}
      OBVIOUS
    <3> HIDE DEF x, f
    <3>3. y.node = x.node /\ y.strategy = x.strategy
      BY <3>1
    <3> HIDE DEF y
    <3> QED BY <3>1, <3>2, <3>3
  <2> QED BY <2>1
<1>5. \A i \in DOMAIN g : g[i].node = n /\ IsStrategy(c.op, n, g[i].strategy)
  BY DEF CandidatesFit, AreCandidates, Nodes
<1>6. \A i \in DOMAIN items : items[i].node = n /\ IsStrategy(c.op, n, items[i].strategy)
  BY <1>3 DEF ItemsFit
<1> HIDE DEF f, g
<1>7. \A i \in DOMAIN list : list[i].node = n /\ IsStrategy(c.op, n, list[i].strategy)
  BY <1>4, <1>5, <1>6
<1> QED BY <1>1, <1>2, <1>7 DEF ItemsFit

\* What replaces the candidates of an input fits it too.
LEMMA ReplacementsFit ==
  ASSUME NEW o, NEW candidates, CandidatesFit(o, candidates), NEW n \in DOMAIN candidates,
         IsSequence(candidates[n]), candidates[n] # << >>, NEW items, ItemsFit(o, n, items)
  PROVE  \A i \in DOMAIN Replacements(candidates, items) :
           IsStrategy(o, n, Replacements(candidates, items)[i].strategy)
<1> DEFINE first == candidates[items[1].node][1]
           Own(i) == IF items[i].strategy = KeepStrategy THEN first.strategy ELSE items[i].strategy
           new == [i \in DOMAIN items |->
                    [chance |-> IF items[i].chance = Keep THEN first.chance ELSE items[i].chance,
                     strategy |-> Own(i)]]
<1>1. Replacements(candidates, items) = new
  BY DEF Replacements
<1>2. ASSUME NEW i \in DOMAIN items PROVE IsStrategy(o, n, new[i].strategy)
  <2>1. new[i].strategy = Own(i)
    OBVIOUS
  <2>2. 1 \in DOMAIN items
    BY SequenceIsSequence DEF ItemsFit, IsSequence
  <2>3. items[1].node = n /\ 1 \in DOMAIN candidates[n]
    BY <2>2, SequenceIsSequence DEF ItemsFit, IsSequence
  <2>4. IsStrategy(o, n, first.strategy) /\ IsStrategy(o, n, items[i].strategy)
    BY <2>3 DEF CandidatesFit, ItemsFit
  <2> HIDE DEF new, first
  <2> QED BY <2>1, <2>4
<1>3. DOMAIN new = DOMAIN items
  OBVIOUS
<1> HIDE DEF new
<1> QED BY <1>1, <1>2, <1>3

LEMMA PatchedFits ==
  ASSUME NEW c, NEW candidates, AreCandidates(c.op, candidates), CandidatesFit(c.op, candidates),
         NEW changes, AreItems(changes),
         \A i \in DOMAIN changes : IsStrategy(c.op, changes[i].node, changes[i].strategy),
         NEW new, PatchedGenerators(c, candidates, changes) = <<"accepted", new>>
  PROVE  CandidatesFit(c.op, new)
<1> DEFINE expanded == Expand(c, candidates, changes)
           made == [n \in Nodes(c) |-> IF n \in DOMAIN expanded
                                       THEN Replacements(candidates, expanded[n]) ELSE candidates[n]]
<1>1. Nodes(c) = DOMAIN candidates
  BY DEF Nodes, AreCandidates
<1>2. new = candidates \/ new = made
  <2>1. PatchedGenerators(c, candidates, changes) \in
          {<<"accepted", candidates>>, Refused, <<"accepted", made>>}
    BY DEF PatchedGenerators
  <2> HIDE DEF made
  <2> QED BY <2>1 DEF Refused
<1>3. DOMAIN expanded = Expanded(c, candidates, changes)
  BY ExpandHas DEF AreItems
<1>4. ASSUME NEW n \in Nodes(c) PROVE \A i \in DOMAIN made[n] : IsStrategy(c.op, n, made[n][i].strategy)
  <2>1. CASE n \notin DOMAIN expanded
    <3>1. made[n] = candidates[n]
      BY <2>1
    <3> HIDE DEF made
    <3> QED BY <1>1, <1>4, <3>1 DEF CandidatesFit
  <2>2. CASE n \in DOMAIN expanded
    <3>1. ItemsFit(c.op, n, expanded[n])
      BY <1>3, <2>2, ExpandFits
    <3>2. made[n] = Replacements(candidates, expanded[n])
      BY <2>2
    <3>3. IsSequence(candidates[n]) /\ candidates[n] # << >> /\ n \in DOMAIN candidates
      BY <1>1 DEF AreCandidates
    <3> HIDE DEF expanded, made
    <3> QED BY <3>1, <3>2, <3>3, ReplacementsFit
  <2> QED BY <2>1, <2>2
<1>5. DOMAIN made = Nodes(c)
  OBVIOUS
<1> HIDE DEF made
<1> QED BY <1>2, <1>4, <1>5 DEF CandidatesFit

LEMMA CompiledFits ==
  ASSUME NEW o, NEW candidates, AreCandidates(o, candidates), CandidatesFit(o, candidates),
         NEW patch, AreItems(patch.changes),
         \A i \in DOMAIN patch.changes : IsStrategy(o, patch.changes[i].node, patch.changes[i].strategy),
         NEW new, CompiledGenerators([op |-> o], candidates, patch) = <<"accepted", new>>
  PROVE  CandidatesFit(o, new)
<1> DEFINE c == [op |-> o]
           changes == patch.changes
           compiled == [i \in DOMAIN changes |-> [changes[i] EXCEPT !.strategy = CompiledStrategy(c, @)]]
<1>1. c.op = o
  OBVIOUS
<1>2. PatchedGenerators(c, candidates, compiled) = <<"accepted", new>>
  <2>1. CompiledGenerators(c, candidates, patch) \in {PatchedGenerators(c, candidates, compiled), Refused}
    BY DEF CompiledGenerators
  <2> HIDE DEF compiled
  <2> QED BY <2>1 DEF Refused
<1> HIDE DEF c
<1>3. IsSequence(compiled)
  <2> HIDE DEF compiled
  <2>1. compiled = [i \in DOMAIN changes |-> [changes[i] EXCEPT !.strategy = CompiledStrategy(c, @)]]
    BY DEF compiled
  <2> QED BY <2>1, CompilingKeepsItems
<1>4. ASSUME NEW i \in DOMAIN changes
      PROVE  /\ DOMAIN compiled[i] = {"node", "chance", "strategy"}
             /\ IsStrategy(o, compiled[i].node, compiled[i].strategy)
  <2> DEFINE x == changes[i]
             s == CompiledStrategy(c, x.strategy)
             y == [x EXCEPT !.strategy = s]
  <2>1. DOMAIN x = {"node", "chance", "strategy"} /\ IsStrategy(o, x.node, x.strategy)
    BY DEF AreItems
  <2>2. compiled[i] = y
    OBVIOUS
  <2>3. s = x.strategy \/ s.type = "resource"
    BY DEF CompiledStrategy
  <2> HIDE DEF x, s, compiled
  <2>4. y.node = x.node /\ y.strategy = s /\ DOMAIN y = DOMAIN x
    BY <2>1
  <2> HIDE DEF y
  <2>5. IsStrategy(o, x.node, s)
    BY <2>1, <2>3 DEF IsStrategy
  <2> QED BY <2>1, <2>2, <2>4, <2>5
<1>5. DOMAIN compiled = DOMAIN changes
  OBVIOUS
<1> HIDE DEF compiled
<1>6. AreItems(compiled) /\ \A i \in DOMAIN compiled : IsStrategy(c.op, compiled[i].node, compiled[i].strategy)
  BY <1>1, <1>3, <1>4, <1>5 DEF AreItems, c
<1>7. AreCandidates(c.op, candidates) /\ CandidatesFit(c.op, candidates)
  BY <1>1 DEF c
<1>8. CandidatesFit(c.op, new)
  BY <1>2, <1>6, <1>7, PatchedFits
<1> QED BY <1>1, <1>8 DEF c

\* What a slot chose is a Generator that its input can have.
GeneratorsFit(o, generators) ==
  /\ DOMAIN generators = DOMAIN o.nodes
  /\ \A n \in DOMAIN o.nodes : IsStrategy(o, n, generators[n].strategy)

LEMMA ChosenFit ==
  ASSUME NEW o, WellFormed(o), NEW config, config.negative = o.negative, NEW records, NEW mode, NEW score,
         NEW choice, NEW s, Faithful(config, records, mode, score, choice, s),
         AreCandidates(o, config.positive), CandidatesFit(o, config.positive)
  PROVE  GeneratorsFit(o, s.generators)
<1>1. DOMAIN s.generators = DOMAIN config.positive /\ DOMAIN config.positive = DOMAIN o.nodes
  BY DEF Faithful, AreCandidates
<1>2. ASSUME NEW n \in DOMAIN config.positive PROVE IsStrategy(o, n, s.generators[n].strategy)
  <2>1. CASE n \in DOMAIN s.positive
    <3>1. \E i \in DOMAIN config.positive[n] : s.generators[n] = config.positive[n][i]
      BY <2>1 DEF Faithful, IsChoice
    <3> QED BY <3>1 DEF CandidatesFit
  <2>2. CASE n \notin DOMAIN s.positive
    <3> DEFINE ns == NegativesOf(config, n)
               N == {i \in DOMAIN config.negative : config.negative[i].node = n}
    <3>1. s.action = "negative_generator" /\ n = s.negative.node
          /\ s.generators[n].strategy = s.negative.strategy
      BY <2>2 DEF Faithful
    <3>2. \E i \in DOMAIN ns : s.negative = ns[i]
      BY <3>1 DEF Faithful, IsChoice
    <3>3. ns = ElementsAt(config.negative, N)
      BY DEF NegativesOf, Filter
    <3>4. config.negative \in Seq(ToSet(config.negative)) /\ N \in SUBSET (DOMAIN config.negative)
      BY DEF WellFormed, IsSequence
    <3> HIDE DEF N, ns
    <3>5. PICK i \in N : s.negative = config.negative[i]
      BY <3>2, <3>3, <3>4, Elements
    <3>6. IsStrategy(o, config.negative[i].node, config.negative[i].strategy)
      BY <3>4, <3>5 DEF WellFormed
    <3> QED BY <3>1, <3>5, <3>6
  <2> QED BY <2>1, <2>2
<1> QED BY <1>1, <1>2 DEF GeneratorsFit

-----------------------------------------------------------------------------
(* What is reached arrives.                                                *)

\* What is made of an input arrives when each container above it is built by its own
\* Generator or takes the branch of the input.
LEMMA ReachedArrives ==
  ASSUME NEW c, HasTree(c), DrawsValues(c), NEW r, IsRequestOf(c, r)
  PROVE  \A n \in Nodes(c) :
           /\ Reached(c, n) /\ Taken(c, n) /\ Node(c, n).kind # "request_body"
           /\ \A a \in Ancestors(c, n) \cup {n} : Node(c, a).edge \in {"root", "media", "property", "oneOf"}
           => Projected(c, r, n) = Build(c, n) /\ Build(c, n) \notin {Absent, Failed}
<1> DEFINE Arrives(n) == Projected(c, r, n) = Build(c, n) /\ Build(c, n) \notin {Absent, Failed}
           Meant(n) == /\ Reached(c, n) /\ Taken(c, n) /\ Node(c, n).kind # "request_body"
                       /\ \A a \in Ancestors(c, n) \cup {n} :
                            Node(c, a).edge \in {"root", "media", "property", "oneOf"}
           T == {n \in Nodes(c) : Meant(n) => Arrives(n)}
<1>1. PICK bound, rank : IsRank(c, rank, bound)
  BY TreeIsRanked DEF HasTree
<1>2. ASSUME NEW n \in Nodes(c), \A y \in Nodes(c) : rank[y] < rank[n] => y \in T, Meant(n)
      PROVE  Arrives(n)
  <2> DEFINE p == Node(c, n).parent
             x == Node(c, n).name
             v == Projected(c, r, p)
  <2>0. Build(c, n) # Absent
    BY <1>2, TakenIsBuilt
  <2>1. CASE Node(c, n).kind = "parameter"
    BY <2>0, <2>1, ProjectedUnfold DEF IsRequestOf
  <2>2. CASE Node(c, n).kind # "parameter"
    <3>1. /\ p # NoNode /\ p \in Nodes(c) /\ Node(c, n).edge \in {"media", "property", "oneOf"}
          /\ Node(c, n).edge = "media" <=> Node(c, p).kind = "request_body"
          /\ n = c.op.active => Node(c, n).edge = "media"
      BY <1>2, <2>2 DEF HasTree, IsTree, Nodes, Node
    <3>2. /\ Taken(c, p) /\ Entered(c, n) /\ Ancestors(c, n) = {p} \cup Ancestors(c, p)
      BY <1>2, <3>1, AncestorsUnfold DEF Reached, Entered
    <3>3. CASE Node(c, n).edge = "media"
      <4>1. n = c.op.active /\ r.hasBody
        BY <3>1, <3>2, <3>3 DEF Entered, IsRequestOf
      <4>2. Projected(c, r, n) = r.body
        BY <2>2, <4>1, ProjectedUnfold
      <4> QED BY <2>0, <4>1, <4>2 DEF IsRequestOf
    <3>4. CASE Node(c, n).edge # "media"
      <4>1. Meant(p)
        BY <1>2, <3>1, <3>2, <3>4 DEF Reached
      <4>2. v = Build(c, p) /\ Build(c, p) \notin {Absent, Failed}
        BY <1>1, <1>2, <3>1, <4>1 DEF IsRank
      <4>3. Projected(c, r, n) = ChildValue(c, n, v)
        BY <2>2, <3>1, <3>4, <4>2, ProjectedUnfold
      <4> HIDE DEF v
      <4>4. CASE Node(c, n).edge = "property"
        <5>1. Strategy(c, p).type = "object" /\ Children(c, p, "allOf") = {} /\ n \in Children(c, p, "property")
          BY <3>2, <4>4 DEF Entered, Children
        <5>2. IsObjectOf(c, p)
          BY <3>1, <4>2, <5>1, ObjectIsBuilt
        <5>3. HasMember(v, x) /\ v[2][x] = Build(c, n) /\ Build(c, n) # Failed /\ v[1] # "array"
          BY <2>0, <4>2, <5>1, <5>2 DEF IsObjectOf
        <5> QED BY <2>0, <4>3, <4>4, <5>3, PropertyValue
      <4>5. CASE Node(c, n).edge = "oneOf"
        <5>1. Strategy(c, p).type = "variant" /\ BranchTaken(c, p) = n
          BY <3>2, <4>5 DEF Entered
        <5>2. Build(c, p) = Build(c, n)
          <6> DEFINE below == [k \in PartsOf(c, p) |-> Build(c, k)]
          <6>1. Build(c, p) = ValueOver(c, p, below)
            BY <3>1, BuildUnfold
          <6>2. n \in DOMAIN below /\ below[n] = Build(c, n)
            BY DEF PartsOf
          <6> HIDE DEF below
          <6> QED BY <3>2, <4>2, <5>1, <6>1, <6>2 DEF ValueOver, ScalarStrategies
        <5>3. ChildValue(c, n, v) = v
          BY <4>5 DEF ChildValue
        <5> QED BY <4>2, <4>3, <5>2, <5>3
      <4> QED BY <3>1, <3>4, <4>4, <4>5
    <3> QED BY <3>3, <3>4
  <2> QED BY <2>1, <2>2
<1>3. rank \in [Nodes(c) -> Nat]
  BY <1>1 DEF IsRank
<1> HIDE DEF Arrives, Meant
<1>4. \A n \in Nodes(c) : (\A y \in Nodes(c) : rank[y] < rank[n] => y \in T) => n \in T
  BY <1>2
<1> HIDE DEF T
<1>5. Nodes(c) \subseteq T
  BY <1>3, <1>4, RankInduction
<1> QED BY <1>5 DEF T, Arrives, Meant

\* What a request says of the inputs that it left out or made.
LEMMA RequestReadsBack ==
  ASSUME NEW c, HasTree(c), DrawsValues(c), NEW r, IsRequestOf(c, r), NEW n \in Nodes(c), Plain(c, n)
  PROVE  /\ n \in r.omitted => Recovered(c, r)[n] = Absent
         /\ n \in r.omitted \ {c.op.active} => Projected(c, r, n) = Failed
         /\ n \in DOMAIN r.made /\ ~Node(c, n).container =>
              Projected(c, r, n) = r.made[n] /\ Recovered(c, r)[n] = r.made[n]
<1>1. n \in r.omitted => Recovered(c, r)[n] = Absent
  BY DEF Recovered
<1>2. ASSUME n \in r.omitted, n # c.op.active PROVE Projected(c, r, n) = Failed
  <2>1. Build(c, n) = Absent
    BY <1>2, TakenIsBuilt DEF IsRequestOf
  <2> QED BY <1>2, <2>1, OnlyBuiltArrives
<1>3. ASSUME n \in DOMAIN r.made, ~Node(c, n).container
      PROVE  Projected(c, r, n) = r.made[n] /\ Recovered(c, r)[n] = r.made[n]
  <2>1. /\ Reached(c, n) /\ Taken(c, n) /\ n \notin r.omitted
        /\ r.made[n] = Build(c, n)
    BY <1>3 DEF IsRequestOf
  <2>2. Node(c, n).kind # "request_body"
    BY <1>3 DEF HasTree, IsTree, Node, Nodes
  <2>3. \A a \in Ancestors(c, n) \cup {n} : Node(c, a).edge \in {"root", "media", "property", "oneOf"}
    BY DEF Plain
  <2>4. Projected(c, r, n) = Build(c, n) /\ Build(c, n) # Absent
    BY <2>1, <2>2, <2>3, ReachedArrives
  <2>5. r.hasBody /\ BodyAt(c, r, n) # Absent => BodyAt(c, r, n) = Build(c, n)
    <3>1. CASE n = c.op.active
      <4>1. BodyAt(c, r, n) = r.body
        BY <3>1, BodyAtUnfold
      <4> QED BY <2>4, <3>1, <4>1 DEF IsRequestOf
    <3>2. CASE n # c.op.active
      BY <3>2, BodyHolds
    <3> QED BY <3>1, <3>2
  <2>6. n \notin UNION {Ancestors(c, m) : m \in DOMAIN r.made \ r.omitted}
    <3>1. ASSUME NEW m \in DOMAIN r.made, n \in Ancestors(c, m) PROVE FALSE
      <4>1. m \in Nodes(c)
        BY DEF IsRequestOf
      <4> QED BY <1>3, <3>1, <4>1, AncestorsAre DEF AncestorFacts
    <3> QED BY <3>1
  <2>7. Recovered(c, r)[n] = IF r.hasBody /\ BodyAt(c, r, n) # Absent THEN BodyAt(c, r, n) ELSE r.made[n]
    BY <1>3, <2>1, <2>2, <2>6 DEF Recovered, Assigned
  <2> QED BY <2>1, <2>4, <2>5, <2>7
<1> QED BY <1>1, <1>2, <1>3

\* The same of another case over one Operation.
LEMMA CaseReadsBack ==
  ASSUME NEW c, HasTree(c), DrawsValues(c), NEW d, SameCase(c, d), NEW r, IsRequestOf(d, r),
         NEW n \in Nodes(c), Plain(c, n)
  PROVE  /\ n \in r.omitted => Recovered(c, r)[n] = Absent
         /\ n \in r.omitted \ {c.op.active} => Projected(c, r, n) = Failed
         /\ n \in DOMAIN r.made /\ ~Node(c, n).container =>
              Projected(c, r, n) = r.made[n] /\ Recovered(c, r)[n] = r.made[n]
<1>1. /\ HasTree(d) /\ DrawsValues(d) /\ Nodes(d) = Nodes(c) /\ d.op = c.op /\ d.strategy = c.strategy
      /\ Node(d, n) = Node(c, n)
  BY SameCaseStands DEF SameCase
<1>2. Plain(d, n) /\ Projected(d, r, n) = Projected(c, r, n)
  BY <1>1, SamePlain, SameProjected
<1>3. DOMAIN r.made \subseteq Nodes(c)
  BY <1>1 DEF IsRequestOf
<1>4. Recovered(d, r) = Recovered(c, r)
  BY <1>1, <1>3, SameRecovered
<1> QED BY <1>1, <1>2, <1>4, RequestReadsBack

-----------------------------------------------------------------------------
(* What a Patch makes mandatory.                                           *)

\* An input that a search has to assign, or that has to be there anyway, is taken.
LEMMA MandatoryIsTaken ==
  ASSUME NEW c, NEW selected, IsSelection(c, selected), NEW base, NEW d, SameCase(c, d),
         d.overrides = Completed(c, selected, base).overrides, NEW n \in Nodes(c), c.chance[n] = "always"
  PROVE  Taken(d, n)
<1> DEFINE over == Completed(c, selected, base).overrides
           added == {m \in AncestorsOf(c, selected) : base[m] = Absent}
<1>1. /\ DOMAIN over = added \cup DOMAIN selected
      /\ \A m \in added : over[m] = Bare
      /\ \A m \in DOMAIN selected \ added : over[m] = selected[m]
  BY OverridesAre
<1>2. n \in DOMAIN selected => selected[n] # Absent
  BY DEF IsSelection, Fine, Mandatory
<1>3. d.overrides = over /\ d.chance[n] = "always" /\ Bare # Absent
  BY DEF SameCase, Bare, Absent
<1> HIDE DEF over, added
<1> QED BY <1>1, <1>2, <1>3 DEF Taken

\* Above an input there is one child for each container.
LEMMA OneChildAbove ==
  ASSUME NEW c, HasTree(c)
  PROVE  \A n \in Nodes(c) : \A a, b \in Ancestors(c, n) \cup {n} :
           Node(c, a).parent = Node(c, b).parent /\ Node(c, a).parent # NoNode => a = b
<1>1. PICK bound, rank : IsRank(c, rank, bound)
  BY TreeIsRanked DEF HasTree
<1> DEFINE Single(n) == \A a, b \in Ancestors(c, n) \cup {n} :
                          Node(c, a).parent = Node(c, b).parent /\ Node(c, a).parent # NoNode => a = b
           Higher(n) == \A a \in Ancestors(c, n) : a \in Nodes(c) /\ rank[a] < rank[n]
           T == {n \in Nodes(c) : Single(n) /\ Higher(n)}
<1>2. ASSUME NEW n \in Nodes(c), \A y \in Nodes(c) : rank[y] < rank[n] => y \in T
      PROVE  n \in T
  <2> DEFINE p == Node(c, n).parent
  <2>1. CASE p = NoNode
    <3>1. Ancestors(c, n) = {}
      BY <2>1, AncestorsUnfold
    <3> QED BY <3>1
  <2>2. CASE p # NoNode
    <3>1. /\ p \in Nodes(c) /\ rank[p] < rank[n] /\ rank[p] \in Nat /\ rank[n] \in Nat
          /\ \A m \in Nodes(c) : rank[m] \in Nat /\ (Node(c, m).parent # NoNode => rank[Node(c, m).parent] < rank[m])
      BY <1>1, <2>2, ParentIsContainer DEF IsRank
    <3>2. Single(p) /\ Higher(p)
      BY <1>2, <3>1
    <3>3. Ancestors(c, n) = {p} \cup Ancestors(c, p)
      BY <2>2, AncestorsUnfold
    <3>4. Higher(n)
      BY <3>1, <3>2, <3>3
    <3>5. ASSUME NEW a \in Ancestors(c, n) PROVE Node(c, a).parent # p
      <4>1. a \in Nodes(c) /\ (a = p \/ rank[a] < rank[p])
        BY <3>1, <3>2, <3>3
      <4> QED BY <2>2, <3>1, <4>1
    <3>6. Single(n)
      BY <3>2, <3>3, <3>5
    <3> QED BY <3>4, <3>6
  <2> QED BY <2>1, <2>2
<1>3. rank \in [Nodes(c) -> Nat]
  BY <1>1 DEF IsRank
<1> HIDE DEF T
<1>4. Nodes(c) \subseteq T
  BY <1>2, <1>3, RankInduction
<1> QED BY <1>4 DEF T

\* Where the candidates of an input may leave it out.
IsOptional(candidates, n) == \E i \in DOMAIN candidates[n] : candidates[n][i].chance # "always"

\* An expanded item is for its input, is one of the Patch where the Patch names the input,
\* and leaves a mandatory container as it is only where it is there anyway.
LEMMA ExpandedItem ==
  ASSUME NEW c, NEW candidates, NEW changes, AreItems(changes), NEW n \in Expanded(c, candidates, changes),
         NEW i \in DOMAIN Expand(c, candidates, changes)[n]
  PROVE  LET x == Expand(c, candidates, changes)[n][i]
         IN  /\ x.node = n
             /\ n \in RequiredAncestors(c, changes) =>
                  (x.chance # "always" => x.chance = Keep /\ ~IsOptional(candidates, n))
             /\ n \in NodesOf(changes) =>
                  \E j \in DOMAIN changes :
                    /\ changes[j].node = n /\ x.strategy = changes[j].strategy
                    /\ x.chance \in {changes[j].chance, "always"}
<1> DEFINE required == RequiredAncestors(c, changes)
           optional == {a \in required : \E k \in DOMAIN candidates[a] : candidates[a][k].chance # "always"}
           items == ItemsFor(changes, n)
           f == [k \in DOMAIN items |-> IF items[k].chance = Keep /\ n \notin optional THEN items[k]
                                        ELSE [items[k] EXCEPT !.chance = "always"]]
           g == [k \in DOMAIN candidates[n] |->
                  [node |-> n, chance |-> "always", strategy |-> candidates[n][k].strategy]]
           list == IF n \notin required THEN items ELSE IF n \in NodesOf(changes) THEN f ELSE g
           x == list[i]
<1>1. Expand(c, candidates, changes)[n] = list
  BY DEF Expand, Expanded
<1>2. ASSUME NEW k \in DOMAIN items
      PROVE  \E j \in DOMAIN changes : items[k] = changes[j] /\ changes[j].node = n
  <2> DEFINE S == {j \in DOMAIN changes : changes[j].node = n}
  <2>1. items = ElementsAt(changes, S) /\ S \in SUBSET (DOMAIN changes) /\ IsSequence(changes)
    BY DEF ItemsFor, Filter, AreItems
  <2> HIDE DEF items, S
  <2>2. ToSet(items) = {changes[j] : j \in S}
    BY <2>1, ElementsHave
  <2>3. items[k] \in ToSet(items)
    BY DEF ToSet
  <2> QED BY <2>2, <2>3 DEF S
<1>3. n \in optional <=> n \in required /\ IsOptional(candidates, n)
  BY DEF IsOptional
<1> HIDE DEF items, required, optional
<1>4. CASE n \notin required
  <2>1. n \in NodesOf(changes)
    BY <1>4 DEF Expanded, required
  <2>2. i \in DOMAIN items /\ x = items[i]
    BY <1>1, <1>4
  <2> HIDE DEF x
  <2> QED BY <1>1, <1>2, <1>4, <2>2 DEF required, x
<1>5. CASE n \in required /\ n \in NodesOf(changes)
  <2>1. i \in DOMAIN items /\ x = f[i]
    BY <1>1, <1>5
  <2> DEFINE y == items[i]
             z == [y EXCEPT !.chance = "always"]
  <2>2. PICK j \in DOMAIN changes : y = changes[j] /\ changes[j].node = n
    BY <1>2, <2>1
  <2>3. DOMAIN y = {"node", "chance", "strategy"}
    BY <2>2 DEF AreItems
  <2>4. x = IF y.chance = Keep /\ n \notin optional THEN y ELSE z
    BY <2>1
  <2> HIDE DEF y, x, f
  <2>5. z.node = y.node /\ z.chance = "always" /\ z.strategy = y.strategy
    BY <2>3
  <2> HIDE DEF z
  <2>6. /\ x.node = n
        /\ x.chance # "always" => x.chance = Keep /\ ~IsOptional(candidates, n)
        /\ x.strategy = changes[j].strategy /\ x.chance \in {changes[j].chance, "always"}
    BY <1>3, <1>5, <2>2, <2>4, <2>5
  <2> QED BY <1>1, <2>2, <2>6 DEF x
<1>6. CASE n \in required /\ n \notin NodesOf(changes)
  <2>1. i \in DOMAIN candidates[n] /\ x = g[i]
    BY <1>1, <1>6
  <2>2. x.node = n /\ x.chance = "always"
    BY <2>1
  <2> HIDE DEF x
  <2> QED BY <1>1, <1>6, <2>2 DEF x
<1> QED BY <1>4, <1>5, <1>6

\* The candidates that an accepted Patch gives an input.
LEMMA PatchedAre ==
  ASSUME NEW c, NEW candidates, NEW changes, AreItems(changes), changes # << >>,
         NEW new, PatchedGenerators(c, candidates, changes) = <<"accepted", new>>
  PROVE  /\ NodesOf(changes) \subseteq Nodes(c)
         /\ \A n \in Nodes(c) \cap Expanded(c, candidates, changes) :
              new[n] = Replacements(candidates, Expand(c, candidates, changes)[n])
         /\ \A n \in Nodes(c) \ Expanded(c, candidates, changes) : new[n] = candidates[n]
<1> DEFINE expanded == Expand(c, candidates, changes)
           made == [n \in Nodes(c) |-> IF n \in DOMAIN expanded
                                       THEN Replacements(candidates, expanded[n]) ELSE candidates[n]]
<1>1. new = made /\ NodesOf(changes) \subseteq Nodes(c)
  <2>1. PatchedGenerators(c, candidates, changes) =
          IF \/ ~(NodesOf(changes) \subseteq Nodes(c))
             \/ \E n \in NodesOf(changes) : Len(ItemsFor(changes, n)) > MaxCandidates
             \/ ClosureConflict(c, changes)
             \/ \E n \in DOMAIN expanded : ~IsInjective(made[n])
             \/ ~Acceptable(c, made)
          THEN Refused ELSE <<"accepted", made>>
    BY DEF PatchedGenerators
  <2> HIDE DEF made, expanded
  <2> QED BY <2>1 DEF Refused
<1>2. DOMAIN expanded = Expanded(c, candidates, changes)
  BY ExpandHas DEF AreItems
<1> HIDE DEF expanded
<1>3. \A n \in Nodes(c) : made[n] = IF n \in DOMAIN expanded THEN Replacements(candidates, expanded[n])
                                    ELSE candidates[n]
  OBVIOUS
<1> HIDE DEF made
<1> QED BY <1>1, <1>2, <1>3 DEF expanded

\* The candidates of an input that a Patch makes mandatory, and of the containers above it.
LEMMA PatchedDemands ==
  ASSUME NEW c, HasTree(c), NEW candidates, AreCandidates(c.op, candidates), NEW changes, AreItems(changes),
         NEW new, PatchedGenerators(c, candidates, changes) = <<"accepted", new>>,
         NEW n \in NodesOf(changes), \A i \in DOMAIN changes : changes[i].node = n => changes[i].chance = "always"
  PROVE  /\ n \in Nodes(c)
         /\ \A a \in Ancestors(c, n) \cup {n} : \A i \in DOMAIN new[a] : new[a][i].chance = "always"
<1>1. changes # << >>
  BY DEF NodesOf
<1>2. n \in Nodes(c)
  BY <1>1, PatchedAre
<1>3. PICK j \in DOMAIN changes : changes[j].node = n
  BY DEF NodesOf
<1>4. \A a \in Ancestors(c, n) : a \in Nodes(c) /\ a \in RequiredAncestors(c, changes)
  <2>1. AncestorFacts(c, n)
    BY <1>2, AncestorsAre
  <2> QED BY <1>3, <2>1 DEF AncestorFacts, RequiredAncestors
<1>5. ASSUME NEW a \in Ancestors(c, n) \cup {n}, NEW i \in DOMAIN new[a] PROVE new[a][i].chance = "always"
  <2> DEFINE items == Expand(c, candidates, changes)[a]
             first == candidates[items[1].node][1]
             x == items[i]
  <2>1. a \in Nodes(c) /\ (a = n \/ a \in RequiredAncestors(c, changes))
    BY <1>2, <1>4
  <2>2. CASE a \notin Expanded(c, candidates, changes)
    <3>1. new[a] = candidates[a]
      BY <1>1, <2>1, <2>2, PatchedAre
    <3> QED BY <1>5, <2>1, <2>2, <3>1 DEF Expanded
  <2>3. CASE a \in Expanded(c, candidates, changes)
    <3>1. new[a] = Replacements(candidates, items)
      BY <1>1, <2>1, <2>3, PatchedAre
    <3>2. IsSequence(candidates[a]) /\ candidates[a] # << >>
      BY <2>1 DEF AreCandidates, Nodes
    <3>3. IsSequence(items)
      BY <2>3, <3>2, ExpandHas DEF AreItems
    <3>4. \A k \in DOMAIN items :
            /\ items[k].node = a
            /\ a \in RequiredAncestors(c, changes) =>
                 (items[k].chance # "always" => items[k].chance = Keep /\ ~IsOptional(candidates, a))
            /\ a \in NodesOf(changes) =>
                 \E l \in DOMAIN changes : /\ changes[l].node = a /\ items[k].strategy = changes[l].strategy
                                           /\ items[k].chance \in {changes[l].chance, "always"}
      BY <2>3, ExpandedItem
    <3> HIDE DEF items
    <3>5. i \in DOMAIN items /\ new[a][i].chance = IF x.chance = Keep THEN first.chance ELSE x.chance
      BY <1>5, <3>1 DEF Replacements
    <3>6. CASE a = n
      <4>1. x.chance = "always"
        BY <3>4, <3>5, <3>6
      <4> QED BY <3>5, <4>1 DEF Keep
    <3>7. CASE a \in RequiredAncestors(c, changes)
      <4>1. 1 \in DOMAIN items /\ 1 \in DOMAIN candidates[a]
        BY <3>2, <3>3, <3>5, SequenceIsSequence DEF IsSequence
      <4>2. first = candidates[a][1]
        BY <3>4, <4>1
      <4>3. ~IsOptional(candidates, a) => first.chance = "always"
        BY <4>1, <4>2 DEF IsOptional
      <4> HIDE DEF first, x
      <4>4. x.chance # "always" => x.chance = Keep /\ ~IsOptional(candidates, a)
        BY <3>4, <3>5, <3>7 DEF x
      <4> QED BY <3>5, <4>3, <4>4 DEF Keep
    <3> QED BY <2>1, <3>6, <3>7
  <2> QED BY <2>2, <2>3
<1> QED BY <1>2, <1>5

\* The one candidate that a Patch gives an input that it names is the one that it says.
LEMMA PatchedSays ==
  ASSUME NEW c, NEW candidates, AreCandidates(c.op, candidates), NEW changes, AreItems(changes),
         NEW new, PatchedGenerators(c, candidates, changes) = <<"accepted", new>>,
         NEW j \in DOMAIN changes, changes[j].strategy # KeepStrategy, NEW n, n = changes[j].node, Len(new[n]) = 1
  PROVE  new[n][1].strategy = changes[j].strategy
<1> DEFINE items == Expand(c, candidates, changes)[n]
           own == ItemsFor(changes, n)
           S == {i \in DOMAIN changes : changes[i].node = n}
<1>1. changes # << >> /\ n \in NodesOf(changes) /\ j \in S
  BY DEF NodesOf
<1>2. n \in Nodes(c) /\ n \in Expanded(c, candidates, changes)
  BY <1>1, PatchedAre DEF Expanded
<1>3. new[n] = Replacements(candidates, items)
  BY <1>1, <1>2, PatchedAre
<1>4. IsSequence(items)
  <2>1. IsSequence(candidates[n])
    BY <1>2 DEF AreCandidates, Nodes
  <2> QED BY <1>2, <2>1, ExpandHas DEF AreItems
<1>5. Len(items) = Len(own) /\ DOMAIN items = DOMAIN own
  <2> DEFINE optional == {a \in RequiredAncestors(c, changes) :
                            \E i \in DOMAIN candidates[a] : candidates[a][i].chance # "always"}
             f == [i \in DOMAIN own |-> IF own[i].chance = Keep /\ n \notin optional THEN own[i]
                                        ELSE [own[i] EXCEPT !.chance = "always"]]
  <2>1. items \in {own, f}
    BY <1>1, <1>2 DEF Expand, Expanded
  <2>2. DOMAIN f = DOMAIN own
    OBVIOUS
  <2>3. IsSequence(own)
    BY ItemsAreSequences DEF AreItems
  <2> HIDE DEF items, own, f
  <2>4. DOMAIN items = DOMAIN own
    BY <2>1, <2>2
  <2>5. Len(items) \in Nat /\ DOMAIN items = 1..Len(items) /\ Len(own) \in Nat /\ DOMAIN own = 1..Len(own)
    BY <1>4, <2>3, SequenceIsSequence DEF IsSequence
  <2> DEFINE k == Len(items)
             m == Len(own)
  <2>6. k \in Nat /\ m \in Nat /\ 1..k = 1..m
    BY <2>4, <2>5
  <2> HIDE DEF k, m
  <2>7. k = m
    <3>1. k \in 1..m \/ k = 0
      BY <2>6
    <3>2. m \in 1..k \/ m = 0
      BY <2>6
    <3> QED BY <2>6, <3>1, <3>2
  <2> QED BY <2>4, <2>7 DEF k, m
<1>6. IsSequence(own) /\ ToSet(own) = {changes[i] : i \in S}
  <2>1. own = ElementsAt(changes, S) /\ S \in SUBSET (DOMAIN changes) /\ IsSequence(changes)
    BY DEF ItemsFor, Filter, AreItems
  <2> HIDE DEF own, S
  <2> QED BY <2>1, ElementsHave
<1>7. \A i \in DOMAIN items : \E k \in DOMAIN changes :
        changes[k].node = n /\ items[i].strategy = changes[k].strategy
  BY <1>1, <1>2, ExpandedItem
<1> HIDE DEF items, own
<1>8. Len(items) = 1
  <2> DEFINE m == Len(items)
             first == candidates[items[1].node][1]
             f == [i \in 1..m |->
                    [chance |-> IF items[i].chance = Keep THEN first.chance ELSE items[i].chance,
                     strategy |-> IF items[i].strategy = KeepStrategy THEN first.strategy
                                  ELSE items[i].strategy]]
  <2>1. m \in Nat /\ DOMAIN items = 1..m
    BY <1>4, SequenceIsSequence DEF IsSequence
  <2>2. new[n] = f
    BY <1>3, <2>1 DEF Replacements
  <2>3. f = [i \in 1..m |-> f[i]]
    OBVIOUS
  <2> HIDE DEF f, m
  <2>4. Len(f) = m
    BY <2>1, <2>3, MappedIsSequence
  <2> QED BY <2>2, <2>4 DEF m
<1>9. 1 \in DOMAIN items /\ 1 \in DOMAIN own /\ \A i \in DOMAIN own : i = 1
  BY <1>4, <1>5, <1>6, <1>8, SequenceIsSequence DEF IsSequence
<1>10. \A k \in S : changes[k] = own[1]
  BY <1>6, <1>9 DEF ToSet
<1>11. items[1].strategy = changes[j].strategy
  BY <1>1, <1>7, <1>9, <1>10
<1>12. new[n][1].strategy = IF items[1].strategy = KeepStrategy THEN candidates[items[1].node][1].strategy
                            ELSE items[1].strategy
  BY <1>3, <1>9 DEF Replacements
<1> QED BY <1>11, <1>12

\* What an accepted Patch says of an input that it makes mandatory: the input and the
\* containers above it are always there, and a variant above it takes its branch.
Demanded(o, old, new, n) ==
  /\ n \in DOMAIN o.nodes
  /\ \A a \in Ancestors([op |-> o], n) \cup {n} : \A i \in DOMAIN new[a] : new[a][i].chance = "always"
  /\ \A b \in Ancestors([op |-> o], n) \cup {n} :
       LET a == o.nodes[b].parent
       IN  a # NoNode /\ Last(old[a]).strategy.type = "variant" /\ Len(new[a]) = 1 =>
             new[a][1].strategy.branches = {b}

LEMMA CompiledDemands ==
  ASSUME NEW o, HasTree([op |-> o]), NEW candidates, AreCandidates(o, candidates),
         NEW patch, AreItems(patch.changes),
         NEW new, CompiledGenerators([op |-> o], candidates, patch) = <<"accepted", new>>,
         NEW n \in MandatoryInputs(patch)
  PROVE  Demanded(o, candidates, new, n)
<1> DEFINE c == [op |-> o]
           changes == patch.changes
           compiled == [i \in DOMAIN changes |-> [changes[i] EXCEPT !.strategy = CompiledStrategy(c, @)]]
<1>1. c.op = o
  OBVIOUS
<1> HIDE DEF c
<1>2. PatchedGenerators(c, candidates, compiled) = <<"accepted", new>> /\ BranchesAreSelected(c, candidates, changes)
  <2> DEFINE Accepts == /\ IsScope(c, patch.affected)
         /\ NodesOf(patch.changes) \subseteq ToSet(patch.affected)
         /\ SourcesFit(c, patch.changes)
         /\ IdentitiesAreComplete(c, patch.changes)
         /\ ScopeIsComplete(c, candidates, patch)
         /\ BranchesAreSelected(c, candidates, patch.changes)
         /\ \A i \in DOMAIN patch.constraints : ConstraintFits(c, ToSet(patch.affected), patch.constraints[i])
  <2>1. CompiledGenerators(c, candidates, patch) =
          IF Accepts THEN PatchedGenerators(c, candidates, compiled) ELSE Refused
    BY DEF CompiledGenerators
  <2>2. CompiledGenerators(c, candidates, patch) = <<"accepted", new>>
    BY DEF c
  <2> HIDE DEF compiled
  <2>3. Accepts => BranchesAreSelected(c, candidates, patch.changes)
    OBVIOUS
  <2> HIDE DEF Accepts
  <2> QED BY <2>1, <2>2, <2>3 DEF Refused
<1>3. HasTree(c) /\ AreCandidates(c.op, candidates)
  BY <1>1 DEF c
<1>4. IsSequence(compiled)
  <2> HIDE DEF compiled
  <2>1. compiled = [i \in DOMAIN changes |-> [changes[i] EXCEPT !.strategy = CompiledStrategy(c, @)]]
    BY DEF compiled
  <2>2. AreItems(changes)
    OBVIOUS
  <2> HIDE DEF changes
  <2> QED BY <2>1, <2>2, CompilingKeepsItems
<1>5. ASSUME NEW i \in DOMAIN changes
      PROVE  /\ DOMAIN compiled[i] = {"node", "chance", "strategy"}
             /\ compiled[i].node = changes[i].node /\ compiled[i].chance = changes[i].chance
             /\ changes[i].strategy.type = "variant" => compiled[i].strategy = changes[i].strategy
  <2> DEFINE x == changes[i]
             s == CompiledStrategy(c, x.strategy)
             y == [x EXCEPT !.strategy = s]
  <2>1. DOMAIN x = {"node", "chance", "strategy"}
    BY DEF AreItems
  <2>2. compiled[i] = y
    OBVIOUS
  <2>3. x.strategy.type = "variant" => s = x.strategy
    BY DEF CompiledStrategy
  <2> HIDE DEF x, s, compiled
  <2>4. y.node = x.node /\ y.strategy = s /\ y.chance = x.chance /\ DOMAIN y = DOMAIN x
    BY <2>1
  <2> HIDE DEF y
  <2> QED BY <2>1, <2>2, <2>3, <2>4 DEF x
<1>6. DOMAIN compiled = DOMAIN changes
  OBVIOUS
<1> HIDE DEF compiled
<1>7. AreItems(compiled)
  BY <1>4, <1>5, <1>6 DEF AreItems
<1>8. n \in NodesOf(compiled) /\ \A i \in DOMAIN compiled : compiled[i].node = n => compiled[i].chance = "always"
  <2>1. n \in NodesOf(changes) /\ \A i \in DOMAIN changes : changes[i].node = n => changes[i].chance = "always"
    BY DEF MandatoryInputs
  <2> QED BY <2>1, <1>5, <1>6 DEF NodesOf
<1>9. /\ n \in Nodes(c)
      /\ \A a \in Ancestors(c, n) \cup {n} : \A i \in DOMAIN new[a] : new[a][i].chance = "always"
  <2> DEFINE AllAlways == \A i \in DOMAIN compiled : compiled[i].node = n => compiled[i].chance = "always"
  <2>1. n \in NodesOf(compiled) /\ AllAlways
    BY <1>8
  <2>2. PatchedGenerators(c, candidates, compiled) = <<"accepted", new>>
    BY <1>2
  <2> QED BY <1>3, <1>7, <2>1, <2>2, PatchedDemands
<1>10. ASSUME NEW b \in Ancestors(c, n) \cup {n}, NEW a, a = Node(c, b).parent, a # NoNode,
              Last(candidates[a]).strategy.type = "variant", Len(new[a]) = 1
       PROVE  new[a][1].strategy.branches = {b}
  <2> DEFINE items == ItemsFor(changes, a)
             onPath == {m \in Ancestors(c, n) \cup {n} : Node(c, m).parent = a}
  <2>1. a \in Ancestors(c, n)
    <3>1. b \in Nodes(c) /\ (b = n \/ Ancestors(c, b) \subseteq Ancestors(c, n))
      BY <1>3, <1>9, AncestorsAre DEF AncestorFacts
    <3>2. a \in Ancestors(c, b)
      BY <1>3, <1>10, <3>1, AncestorsUnfold
    <3> QED BY <3>1, <3>2
  <2>2. n \in NodesOf(changes)
    BY DEF MandatoryInputs
  <2>3. items # << >> /\ Last(items).strategy.type = "variant" /\ Last(items).strategy.branches = onPath
    <3> HIDE DEF items, onPath
    <3> QED BY <1>2, <1>10, <2>1, <2>2 DEF BranchesAreSelected, items, onPath
  <2>4. onPath = {b}
    BY <1>3, <1>9, <1>10, OneChildAbove
  <2>5. PICK k \in DOMAIN changes : changes[k].node = a /\ Last(items) = changes[k]
    <3> DEFINE S == {i \in DOMAIN changes : changes[i].node = a}
    <3>1. items = ElementsAt(changes, S) /\ S \in SUBSET (DOMAIN changes) /\ IsSequence(changes)
      BY DEF ItemsFor, Filter, AreItems
    <3> HIDE DEF items, S
    <3>2. IsSequence(items) /\ ToSet(items) = {changes[i] : i \in S}
      BY <3>1, ElementsHave
    <3>3. Last(items) \in ToSet(items)
      <4>1. Len(items) \in DOMAIN items
        BY <2>3, <3>2, SequenceIsSequence DEF IsSequence
      <4> QED BY <4>1 DEF ToSet, Last
    <3> QED BY <3>2, <3>3 DEF S
  <2> HIDE DEF items, onPath
  <2>6. /\ compiled[k].node = a /\ compiled[k].strategy = changes[k].strategy
        /\ compiled[k].strategy.type = "variant" /\ compiled[k].strategy.branches = {b} /\ k \in DOMAIN compiled
    BY <1>5, <1>6, <2>3, <2>4, <2>5
  <2>7. compiled[k].strategy # KeepStrategy
    BY <2>6 DEF KeepStrategy
  <2>8. new[a][1].strategy = compiled[k].strategy
    BY <1>2, <1>3, <1>7, <1>10, <2>6, <2>7, PatchedSays
  <2> QED BY <2>6, <2>8
<1>11. \A b : Node(c, b).parent = o.nodes[b].parent
  BY <1>1 DEF Node
<1>12. n \in DOMAIN o.nodes
  BY <1>1, <1>9 DEF Nodes
<1> QED BY <1>9, <1>10, <1>11, <1>12 DEF c, Demanded

-----------------------------------------------------------------------------
(* The invariant.                                                          *)

\* Lists of candidates and of stored constraints.
ShapeOf(candidates, records) ==
  /\ AreCandidates(Op, candidates)
  /\ IsSequence(records) /\ \A i \in DOMAIN records : Stored(records[i])

Shape == operation \in Operations /\ ShapeOf(positive, constraints)

\* A selection is the choice from the candidates and constraints that still stand.
SelectionStands ==
  slot.stage = "selected" =>
    LET chosen == Choose(Config, Op.ids, constraints, slot.mode, slot.score, slot.choice)
    IN  /\ slot.score \in Op.scores /\ slot.choice \in Op.choices
        /\ chosen # Skipped /\ slot.selection = chosen[2]

\* The candidates and the constraints are what the latest Patch made of those before it.
PatchStands ==
  latest # NoPatch =>
    /\ latest.patch \in Op.patches
    /\ ShapeOf(latest.positive, latest.constraints)
    /\ CompiledGenerators([op |-> Op], latest.positive, latest.patch) = <<"accepted", positive>>
    /\ constraints = Replaced(latest.constraints, latest.patch)

IInv == Shape /\ SelectionStands /\ PatchStands

LEMMA WellFormedOp ==
  ASSUME operation \in Operations
  PROVE  WellFormed(Op)
BY OperationAssumption DEF Op

LEMMA InitIInv ==
  ASSUME Init
  PROVE  IInv
<1>1. operation \in Operations /\ WellFormed(Op)
  BY WellFormedOp DEF Init
<1>2. AreCandidates(Op, positive)
  <2> DEFINE First(n) == [chance |-> IF Op.nodes[n].required THEN "always" ELSE "sometimes",
                          strategy |-> Op.strategy[n]]
  <2>1. positive = [n \in DOMAIN Op.nodes |-> <<First(n)>>]
    BY DEF Init, InitialGenerators
  <2> HIDE DEF First
  <2>2. ASSUME NEW n \in DOMAIN Op.nodes PROVE IsSequence(positive[n]) /\ positive[n] # << >>
    <3>1. positive[n] = <<First(n)>> /\ <<First(n)>> \in Seq({First(n)}) /\ Len(<<First(n)>>) = 1
      BY <2>1
    <3>2. IsSequence(positive[n])
      BY <3>1, SequenceIsSequence
    <3> QED BY <3>1, <3>2
  <2> QED BY <2>1, <2>2 DEF AreCandidates
<1>3. IsSequence(constraints) /\ \A i \in DOMAIN constraints : Stored(constraints[i])
  BY <1>1 DEF Init, WellFormed, Stored
<1>4. slot.stage = "empty" /\ latest = NoPatch
  BY DEF Init, Empty
<1> QED BY <1>1, <1>2, <1>3, <1>4 DEF IInv, Shape, ShapeOf, SelectionStands, PatchStands

\* Publishing a Patch keeps the lists, and remembers what it replaced.
LEMMA PublishKeeps ==
  ASSUME IInv, NEW patch \in Op.patches, NEW sample, UNCHANGED <<operation, slot>>, slot = Empty,
         Publish(Validated(Op, positive, constraints, patch, sample), patch)
  PROVE  IInv'
<1> DEFINE new == Validated(Op, positive, constraints, patch, sample)
           compiled == CompiledGenerators([op |-> Op], positive, patch)
           replaced == Replaced(constraints, patch)
<1>1. WellFormed(Op) /\ Op' = Op /\ operation' \in Operations
  BY WellFormedOp DEF IInv, Shape, Op
<1>2. SelectionStands'
  BY DEF Empty, SelectionStands
<1>3. AreItems(patch.changes) /\ IsSequence(patch.constraints)
  BY <1>1 DEF WellFormed, AreItems
<1>4. CASE UNCHANGED <<positive, constraints, latest>>
  BY <1>1, <1>2, <1>4 DEF IInv, Shape, ShapeOf, PatchStands
<1>5. CASE /\ new # Refused
           /\ positive' = new[2].positive
           /\ constraints' = new[2].constraints
           /\ latest' = [stage |-> "applied", patch |-> patch, positive |-> positive, constraints |-> constraints]
  <2>1. compiled # Refused /\ new = <<"valid", [positive |-> compiled[2], constraints |-> replaced]>>
    <3>1. new = Tried(Op, compiled, replaced, patch, sample)
      BY DEF Validated
    <3> HIDE DEF new, compiled, replaced
    <3> QED BY <1>5, <3>1 DEF Tried
  <2>2. positive' = compiled[2] /\ constraints' = replaced
    <3> HIDE DEF new, compiled, replaced
    <3> QED BY <1>5, <2>1
  <2>3. PICK g : compiled = <<"accepted", g>> /\ AreCandidates(Op, g)
    <3>1. AreCandidates(Op, positive)
      BY DEF IInv, Shape, ShapeOf
    <3> QED BY <1>3, <2>1, <3>1, CompiledHas
  <2>4. compiled = <<"accepted", positive'>> /\ AreCandidates(Op, positive')
    <3> HIDE DEF compiled
    <3> QED BY <2>2, <2>3
  <2>5. /\ IsSequence(constraints) /\ \A i \in DOMAIN constraints : Stored(constraints[i])
        /\ AreCandidates(Op, positive)
    BY DEF IInv, Shape, ShapeOf
  <2>6. /\ IsSequence(replaced)
        /\ ToSet(replaced) = {r \in ToSet(constraints) : r.id \notin Connection(constraints, ToSet(patch.affected)).ids}
                               \cup {Compiled(e) : e \in ToSet(patch.constraints)}
    BY <1>3, <2>5, ReplacedHas
  <2>7. \A r \in ToSet(replaced) : Stored(r)
    <3>1. \A r \in ToSet(constraints) : Stored(r)
      BY <2>5 DEF ToSet
    <3>2. \A e : Stored(Compiled(e))
      BY DEF Stored, Compiled
    <3> HIDE DEF replaced
    <3> QED BY <2>6, <3>1, <3>2
  <2>8. IsSequence(constraints') /\ \A i \in DOMAIN constraints' : Stored(constraints'[i])
    <3> HIDE DEF replaced
    <3> QED BY <2>2, <2>6, <2>7 DEF ToSet
  <2>9. ShapeOf(positive, constraints)' /\ ShapeOf(latest.positive, latest.constraints)'
    <3>1. latest'.positive = positive /\ latest'.constraints = constraints
      BY <1>5
    <3> QED BY <1>1, <2>4, <2>5, <2>8, <3>1 DEF ShapeOf
  <2>10. PatchStands'
    <3>1. latest'.patch = patch /\ latest'.positive = positive /\ latest'.constraints = constraints
      BY <1>5
    <3>2. latest'.patch \in Op'.patches
      BY <1>1, <3>1
    <3>3. CompiledGenerators([op |-> Op'], latest'.positive, latest'.patch) = <<"accepted", positive'>>
      BY <1>1, <2>4, <3>1
    <3>4. constraints' = Replaced(latest'.constraints, latest'.patch)
      BY <2>2, <3>1
    <3> QED BY <2>9, <3>2, <3>3, <3>4 DEF PatchStands
  <2> QED BY <1>1, <1>2, <2>9, <2>10 DEF IInv, Shape
<1> QED BY <1>4, <1>5 DEF Publish

\* A slot leaves the candidates, the constraints and the latest Patch alone.
LEMMA SlotKeeps ==
  ASSUME IInv, UNCHANGED <<operation, positive, constraints, latest>>, SelectionStands'
  PROVE  IInv'
<1>1. Op' = Op
  BY DEF Op
<1> QED BY <1>1 DEF IInv, Shape, ShapeOf, PatchStands

LEMMA NextIInv ==
  ASSUME IInv, [Next]_vars
  PROVE  IInv'
<1>1. ASSUME NEW patch \in Op.patches, NEW sample \in Op.samples, ApplyPatch(patch, sample) PROVE IInv'
  BY <1>1, PublishKeeps DEF ApplyPatch
<1>2. ASSUME NEW mode \in {"happy_path", "exceptional"}, NEW score \in Op.scores, NEW choice \in Op.choices,
             Select(mode, score, choice)
      PROVE  IInv'
  <2> DEFINE chosen == Choose(Config, Op.ids, constraints, mode, score, choice)
  <2>1. UNCHANGED <<operation, positive, constraints, latest, patched>> /\ Op' = Op /\ Config' = Config
    BY <1>2 DEF Select, Op, Config
  <2>2. slot' = IF chosen = Skipped THEN [stage |-> "skipped"]
                ELSE [stage |-> "selected", mode |-> mode, score |-> score, choice |-> choice,
                      selection |-> chosen[2]]
    BY <1>2 DEF Select
  <2>3. CASE chosen = Skipped
    <3>1. slot'.stage = "skipped"
      BY <2>2, <2>3
    <3> QED BY <2>1, <3>1, SlotKeeps DEF SelectionStands
  <2>4. CASE chosen # Skipped
    <3> HIDE DEF chosen
    <3>1. slot'.mode = mode /\ slot'.score = score /\ slot'.choice = choice /\ slot'.selection = chosen[2]
      BY <2>2, <2>4
    <3>2. chosen = Choose(Config', Op'.ids, constraints', slot'.mode, slot'.score, slot'.choice)
      BY <2>1, <3>1 DEF chosen
    <3>3. SelectionStands'
      BY <2>1, <2>4, <3>1, <3>2 DEF SelectionStands
    <3> QED BY <2>1, <3>3, SlotKeeps
  <2> QED BY <2>3, <2>4
<1>3. ASSUME NEW draws \in Op.draws, Prepare(draws) PROVE IInv'
  <2> DEFINE c == Case(slot.selection.generators, slot.selection.constraints, draws)
             made == Weakened(c, TestCase(c))
  <2>1. slot' = [stage |-> "prepared", selection |-> slot.selection, draws |-> draws,
                 error |-> made.error, outcome |-> made.outcome]
        /\ UNCHANGED <<operation, positive, constraints, latest>>
    BY <1>3 DEF Prepare
  <2> HIDE DEF made
  <2>2. slot'.stage = "prepared"
    BY <2>1
  <2>3. SelectionStands'
    BY <2>2 DEF SelectionStands
  <2> QED BY <2>1, <2>3, SlotKeeps
<1>4. ASSUME NEW declared \in Op.declarations, NEW app \in Op.apps, Send(declared, app) PROVE IInv'
  <2>1. slot'.stage = "sent" /\ UNCHANGED <<operation, positive, constraints, latest>>
    BY <1>4 DEF Send
  <2>2. SelectionStands'
    BY <2>1 DEF SelectionStands
  <2> QED BY <2>1, <2>2, SlotKeeps
<1>5. CASE UNCHANGED vars
  <2>1. Op' = Op /\ Config' = Config
    BY <1>5 DEF Op, Config, vars
  <2> QED BY <1>5, <2>1, SlotKeeps DEF vars, IInv, SelectionStands
<1> QED BY <1>1, <1>2, <1>3, <1>4, <1>5 DEF Next

\* The invariant holds in every state.
THEOREM StateStands == Spec => []IInv
<1>1. Init => IInv
  BY InitIInv
<1>2. IInv /\ [Next]_vars => IInv'
  BY NextIInv
<1> QED BY <1>1, <1>2, PTL DEF Spec

\* A slot chooses faithfully.
LEMMA SlotChoosesFaithfully ==
  ASSUME IInv, NEW mode, NEW score \in Op.scores, NEW choice \in Op.choices,
         Choose(Config, Op.ids, constraints, mode, score, choice) # Skipped
  PROVE  Faithful(Config, constraints, mode, score, choice,
                  Choose(Config, Op.ids, constraints, mode, score, choice)[2])
<1>1. WellFormed(Op) /\ AreCandidates(Op, positive) /\ IsSequence(constraints)
  BY WellFormedOp DEF IInv, Shape, ShapeOf
<1>2. IsConfig(Config)
  BY <1>1 DEF IsConfig, Config, AreCandidates, WellFormed
<1>3. IsSequence(Op.ids) /\ AreScores(score) /\ choice.pick \in Nat
  BY <1>1 DEF WellFormed, AreScores, IsScore
<1> HIDE DEF Faithful, IsConfig, AreScores
<1> QED BY <1>1, <1>2, <1>3, ChoiceIsFaithful

LEMMA IInvIsFaithful ==
  ASSUME IInv
  PROVE  SelectionIsFaithful
<1> SUFFICES ASSUME slot.stage = "selected" PROVE SelectionIsFaithful
  BY DEF SelectionIsFaithful
<1> DEFINE s == slot.selection
           n == s.negative.node
           ids == {constraints[i].id : i \in DOMAIN constraints}
           related == {constraints[i].id : i \in {j \in DOMAIN constraints :
                         Owners(constraints[j]) \cap ConnectedBy(constraints, n) # {}}}
           BestOf(candidates, kind, m, x) ==
             slot.choice.explore \/ \A i \in DOMAIN candidates :
               ~BetterMean(Score(slot.score, <<kind, m, candidates[i]>>), Score(slot.score, <<kind, m, x>>))
<1>1. WellFormed(Op) /\ AreCandidates(Op, positive) /\ IsSequence(constraints)
  BY WellFormedOp DEF IInv, Shape, ShapeOf
<1>2. Faithful(Config, constraints, slot.mode, slot.score, slot.choice, s)
  <2> DEFINE chosen == Choose(Config, Op.ids, constraints, slot.mode, slot.score, slot.choice)
  <2>1. slot.score \in Op.scores /\ slot.choice \in Op.choices /\ chosen # Skipped /\ s = chosen[2]
    BY DEF IInv, SelectionStands
  <2>2. Faithful(Config, constraints, slot.mode, slot.score, slot.choice, chosen[2])
    BY <2>1, SlotChoosesFaithfully
  <2> HIDE DEF s, chosen
  <2> QED BY <2>1, <2>2
<1>3. AssociatedConstraints(constraints, n) = related
  <2>1. constraints \in Seq(ToSet(constraints))
    BY <1>1 DEF IsSequence
  <2>2. IsClosure(constraints, {n}, Connection(constraints, {n}))
    BY <2>1, ConnectionIsClosure
  <2>3. ConnectedBy(constraints, n) = Connection(constraints, {n}).inputs
    BY <2>1, ConnectedInputs
  <2> QED BY <2>2, <2>3 DEF AssociatedConstraints, IsClosure, Naming
<1> HIDE DEF s, related, n
<1>4. slot.mode = "happy_path" => s.action = "happy_path" /\ s.ignored = {}
  BY <1>2 DEF Faithful
<1>5. s.action = "ignored_constraint" => Cardinality(s.ignored) = 1 /\ s.ignored \subseteq ids
  <2>1. s.action = "ignored_constraint" => \E i \in DOMAIN constraints : s.ignored = {constraints[i].id}
    BY <1>2 DEF Faithful
  <2> QED BY <2>1, FS_Singleton
<1>6. s.action = "negative_generator" =>
        s.ignored = related /\ BestOf(NegativesOf(Config, n), "negative", n, s.negative)
  BY <1>2, <1>3 DEF Faithful, IsChoice, n
<1>7. \A m \in DOMAIN s.positive :
        /\ s.generators[m] = s.positive[m] /\ Contains(positive[m], s.positive[m])
        /\ BestOf(positive[m], "positive", m, s.positive[m])
  <2>1. Config.positive = positive
    BY DEF Config
  <2> QED BY <1>2, <2>1 DEF Faithful, IsChoice, Contains
<1> QED BY <1>4, <1>5, <1>6, <1>7 DEF SelectionIsFaithful, s, n, related

\* A happy path keeps every constraint; a negative value is tried without the
\* constraints it could break, and with all the others; and without exploration no
\* better candidate is passed over: for any constraints, candidates and scores.
THEOREM SelectionStaysFaithful == Spec => []SelectionIsFaithful
<1>1. IInv => SelectionIsFaithful
  BY IInvIsFaithful
<1> QED BY <1>1, StateStands, PTL

\* What ScopesAreReplaced says, whatever the slot does.
LEMMA IInvKeepsScopes ==
  ASSUME IInv, latest # NoPatch
  PROVE  /\ ScopeIsReplaced(latest.constraints, latest.patch)
         /\ \A n \in Addressable([op |-> Op]) \ ToSet(latest.patch.affected) :
              positive[n] = latest.positive[n]
<1>1. /\ WellFormed(Op) /\ latest.patch \in Op.patches
      /\ AreCandidates(Op, latest.positive)
      /\ IsSequence(latest.constraints) /\ \A i \in DOMAIN latest.constraints : Stored(latest.constraints[i])
      /\ CompiledGenerators([op |-> Op], latest.positive, latest.patch) = <<"accepted", positive>>
      /\ constraints = Replaced(latest.constraints, latest.patch)
  BY WellFormedOp DEF IInv, Shape, ShapeOf, PatchStands
<1>2. AreItems(latest.patch.changes) /\ IsSequence(latest.patch.constraints)
  BY <1>1 DEF WellFormed, AreItems
<1>3. ScopeIsReplaced(latest.constraints, latest.patch)
  BY <1>1, <1>2, ScopeGivesWay
<1>4. PICK new :
        /\ CompiledGenerators([op |-> Op], latest.positive, latest.patch) = <<"accepted", new>>
        /\ \A n \in Addressable([op |-> Op]) \ ToSet(latest.patch.affected) : new[n] = latest.positive[n]
  <2>1. CompiledGenerators([op |-> Op], latest.positive, latest.patch) # Refused
    BY <1>1 DEF Refused
  <2> QED BY <1>1, <1>2, <2>1, CompiledHas
<1>5. new = positive
  BY <1>1, <1>4
<1> QED BY <1>3, <1>4, <1>5

\* A Patch replaces the Generators of its scope and the constraints that connect with
\* it, and nothing else: the second part of PatchesAreKept, for any constraints that
\* connect in any way.
THEOREM ScopesStayReplaced == Spec => []ScopesAreReplaced
<1>1. IInv => ScopesAreReplaced
  BY IInvKeepsScopes DEF ScopesAreReplaced
<1> QED BY <1>1, StateStands, PTL

-----------------------------------------------------------------------------
(* The requests of every behaviour.                                        *)

\* The Generators of a slot fit their inputs, and its outcome is that of its case.
RequestStands ==
  /\ CandidatesFit(Op, positive)
  /\ slot.stage \in {"selected", "prepared"} => GeneratorsFit(Op, slot.selection.generators)
  /\ slot.stage = "prepared" =>
       LET made == Weakened(SlotCase, TestCase(SlotCase))
       IN  slot.draws \in Op.draws /\ slot.error = made.error /\ slot.outcome = made.outcome

LEMMA InitRequestStands ==
  ASSUME Init
  PROVE  RequestStands
<1>1. WellFormed(Op) /\ slot.stage = "empty"
  BY WellFormedOp DEF Init, Empty
<1>2. CandidatesFit(Op, positive)
  <2> DEFINE First(n) == [chance |-> IF Op.nodes[n].required THEN "always" ELSE "sometimes",
                          strategy |-> Op.strategy[n]]
  <2>1. positive = [n \in DOMAIN Op.nodes |-> <<First(n)>>]
    BY DEF Init, InitialGenerators
  <2>2. ASSUME NEW n \in DOMAIN Op.nodes, NEW i \in DOMAIN positive[n]
        PROVE  IsStrategy(Op, n, positive[n][i].strategy)
    <3>1. positive[n][i].strategy = Op.strategy[n]
      BY <2>1
    <3> QED BY <1>1, <3>1 DEF WellFormed
  <2> QED BY <2>1, <2>2 DEF CandidatesFit
<1> QED BY <1>1, <1>2 DEF RequestStands

\* An applied Patch leaves candidates that fit.
LEMMA PublishKeepsFit ==
  ASSUME IInv, RequestStands, NEW patch \in Op.patches, NEW sample, operation' = operation,
         Publish(Validated(Op, positive, constraints, patch, sample), patch)
  PROVE  CandidatesFit(Op, positive)'
<1> DEFINE new == Validated(Op, positive, constraints, patch, sample)
           compiled == CompiledGenerators([op |-> Op], positive, patch)
<1>1. WellFormed(Op) /\ Op' = Op /\ AreCandidates(Op, positive) /\ CandidatesFit(Op, positive)
  BY WellFormedOp DEF IInv, Shape, ShapeOf, RequestStands, Op
<1>2. CASE positive' = positive
  BY <1>1, <1>2 DEF CandidatesFit
<1>3. CASE new # Refused /\ positive' = new[2].positive
  <2>1. compiled # Refused /\ positive' = compiled[2]
    <3> DEFINE replaced == Replaced(constraints, patch)
    <3>1. new = Tried(Op, compiled, replaced, patch, sample)
      BY DEF Validated
    <3> HIDE DEF new, compiled, replaced
    <3> QED BY <1>3, <3>1 DEF Tried
  <2>2. AreItems(patch.changes)
        /\ \A i \in DOMAIN patch.changes : IsStrategy(Op, patch.changes[i].node, patch.changes[i].strategy)
    BY <1>1 DEF WellFormed, AreItems
  <2>3. PICK g : compiled = <<"accepted", g>>
    BY <1>1, <2>1, <2>2, CompiledHas
  <2>4. CandidatesFit(Op, g)
    BY <1>1, <2>2, <2>3, CompiledFits
  <2>5. positive' = g
    <3> HIDE DEF compiled
    <3> QED BY <2>1, <2>3
  <2> QED BY <1>1, <2>4, <2>5
<1> QED BY <1>2, <1>3 DEF Publish

LEMMA NextRequestStands ==
  ASSUME IInv, RequestStands, [Next]_vars
  PROVE  RequestStands'
<1>1. ASSUME NEW patch \in Op.patches, NEW sample \in Op.samples, ApplyPatch(patch, sample)
      PROVE  RequestStands'
  <2>1. UNCHANGED <<operation, slot>> /\ slot.stage = "empty"
    BY <1>1 DEF ApplyPatch, Empty
  <2>2. CandidatesFit(Op, positive)'
    BY <1>1, <2>1, PublishKeepsFit DEF ApplyPatch
  <2>3. slot'.stage = "empty"
    BY <2>1
  <2> QED BY <2>2, <2>3 DEF RequestStands
<1>2. ASSUME NEW mode \in {"happy_path", "exceptional"}, NEW score \in Op.scores, NEW choice \in Op.choices,
             Select(mode, score, choice)
      PROVE  RequestStands'
  <2> DEFINE chosen == Choose(Config, Op.ids, constraints, mode, score, choice)
  <2>1. /\ UNCHANGED <<operation, positive>> /\ Op' = Op
        /\ slot' = IF chosen = Skipped THEN [stage |-> "skipped"]
                   ELSE [stage |-> "selected", mode |-> mode, score |-> score, choice |-> choice,
                         selection |-> chosen[2]]
    BY <1>2 DEF Select, Op
  <2>2. CandidatesFit(Op, positive)'
    BY <2>1 DEF RequestStands
  <2> HIDE DEF chosen
  <2>3. CASE chosen = Skipped
    <3>1. slot'.stage = "skipped"
      BY <2>1, <2>3
    <3> QED BY <2>2, <3>1 DEF RequestStands
  <2>4. CASE chosen # Skipped
    <3>1. slot'.stage = "selected" /\ slot'.selection = chosen[2]
      BY <2>1, <2>4
    <3>2. Faithful(Config, constraints, mode, score, choice, chosen[2])
      BY <2>4, SlotChoosesFaithfully DEF chosen
    <3>3. WellFormed(Op) /\ AreCandidates(Op, positive) /\ CandidatesFit(Op, positive)
      BY WellFormedOp DEF IInv, Shape, ShapeOf, RequestStands
    <3>4. Config.negative = Op.negative /\ Config.positive = positive
      BY DEF Config
    <3>5. GeneratorsFit(Op, chosen[2].generators)
      BY <3>2, <3>3, <3>4, ChosenFit
    <3>6. GeneratorsFit(Op, slot.selection.generators)'
      BY <2>1, <3>1, <3>5
    <3> QED BY <2>2, <3>1, <3>6 DEF RequestStands
  <2> QED BY <2>3, <2>4
<1>3. ASSUME NEW draws \in Op.draws, Prepare(draws) PROVE RequestStands'
  <2> DEFINE c == Case(slot.selection.generators, slot.selection.constraints, draws)
             made == Weakened(c, TestCase(c))
  <2>1. /\ UNCHANGED <<operation, positive>> /\ Op' = Op /\ slot.stage = "selected"
        /\ slot' = [stage |-> "prepared", selection |-> slot.selection, draws |-> draws,
                    error |-> made.error, outcome |-> made.outcome]
    BY <1>3 DEF Prepare, Op
  <2>2. CandidatesFit(Op, positive)' /\ GeneratorsFit(Op', slot.selection.generators)
    BY <2>1 DEF RequestStands
  <2> HIDE DEF made
  <2>3. /\ slot'.stage = "prepared" /\ slot'.selection = slot.selection /\ slot'.draws = draws
        /\ slot'.error = made.error /\ slot'.outcome = made.outcome
    BY <2>1
  <2>4. SlotCase' = c
    BY <2>1, <2>3 DEF SlotCase, Case, Captured
  <2>5. GeneratorsFit(Op, slot.selection.generators)' /\ draws \in Op'.draws
    BY <2>1, <2>2, <2>3
  <2> HIDE DEF c
  <2> QED BY <2>2, <2>3, <2>4, <2>5 DEF RequestStands, made
<1>4. ASSUME NEW declared \in Op.declarations, NEW app \in Op.apps, Send(declared, app)
      PROVE  RequestStands'
  <2>1. slot'.stage = "sent" /\ UNCHANGED <<operation, positive>> /\ Op' = Op
    BY <1>4 DEF Send, Op
  <2>2. CandidatesFit(Op, positive)'
    BY <2>1 DEF RequestStands
  <2> QED BY <2>1, <2>2 DEF RequestStands
<1>5. CASE UNCHANGED vars
  <2>1. UNCHANGED <<operation, positive, slot>> /\ Op' = Op
    BY <1>5 DEF vars, Op
  <2>2. SlotCase' = SlotCase
    BY <2>1 DEF SlotCase, Case, Captured
  <2> QED BY <2>1, <2>2 DEF RequestStands
<1> QED BY <1>1, <1>2, <1>3, <1>4, <1>5 DEF Next

\* In every state the Generators of a slot fit its inputs, and its outcome is what its
\* case gives.
THEOREM RequestsStand == Spec => []RequestStands
<1>1. Init => RequestStands
  BY InitRequestStands
<1>2. IInv /\ RequestStands /\ [Next]_vars => RequestStands'
  BY NextRequestStands
<1> QED BY <1>1, <1>2, StateStands, PTL DEF Spec

\* The case of a slot has what the lemmas about cases ask for.
LEMMA SlotCaseStands ==
  ASSUME IInv, RequestStands, slot.stage = "prepared"
  PROVE  /\ IsCase(SlotCase) /\ HasTree(SlotCase) /\ DrawsValues(SlotCase) /\ StrategiesFit(SlotCase)
         /\ SlotCase.overrides = << >>
<1> DEFINE g == slot.selection.generators
           c == SlotCase
<1>1. WellFormed(Op) /\ GeneratorsFit(Op, g) /\ slot.draws \in Op.draws
  BY WellFormedOp DEF IInv, Shape, RequestStands
<1>2. c = CaseOf(Op, Captured, g, slot.selection.constraints, slot.draws)
  BY DEF SlotCase, Case
<1>3. /\ c.op = Op /\ c.records = Op.records /\ c.responses = Captured /\ c.draws = slot.draws
      /\ c.strategy = [n \in DOMAIN g |-> g[n].strategy] /\ c.overrides = << >>
  BY <1>2 DEF CaseOf
<1> HIDE DEF c
<1>4. HasTree(c)
  BY <1>1, <1>3 DEF HasTree, WellFormed
<1>5. Nodes(c) = DOMAIN Op.nodes /\ \A n \in Nodes(c) : IsStrategy(c.op, n, Strategy(c, n))
  BY <1>1, <1>3 DEF Nodes, Strategy, GeneratorsFit
<1>6. DrawsValues(c)
  <2>1. \A n \in Nodes(c) : Strategy(c, n).type = "values" => AreValues(Strategy(c, n).samples)
    BY <1>5 DEF IsStrategy
  <2>2. \A s \in DOMAIN c.responses : AreValues(c.responses[s])
    BY <1>1, <1>3, CapturedAreValues DEF Captured
  <2>3. \A r \in DOMAIN c.records :
          IsSequence(c.records[r]) /\ \A row \in ToSet(c.records[r]) : \A f \in DOMAIN row : IsValue(row[f])
    BY <1>1, <1>3 DEF WellFormed
  <2>4. c.draws.record \in Nat /\ \A n \in Nodes(c) : c.draws.value[n] \in Nat
    BY <1>1, <1>3, <1>5 DEF WellFormed
  <2> QED BY <2>1, <2>2, <2>3, <2>4 DEF DrawsValues
<1>7. IsCase(c)
  BY <1>2 DEF IsCase
<1> QED BY <1>3, <1>4, <1>5, <1>6, <1>7 DEF StrategiesFit, c

\* A request without an error is the one that its case gave.
LEMMA SlotOutcome ==
  ASSUME RequestStands, Prepared, slot.error = "none"
  PROVE  TestCase(SlotCase) = <<"request", Request>>
<1> DEFINE first == TestCase(SlotCase)
           made == Weakened(SlotCase, first)
<1>1. slot.error = made.error /\ slot.outcome = made.outcome /\ slot.outcome[1] = "request"
  BY DEF RequestStands, Prepared
<1> HIDE DEF first
<1>2. first[1] \notin ConstraintErrors
  BY <1>1 DEF Weakened, ConstraintErrors
<1>3. slot.outcome = first
  BY <1>1, <1>2 DEF Weakened
<1> QED BY <1>1, <1>3, RequestIsPair DEF first, Request

\* A request that was generated for constraints meets them as the server receives it:
\* for any inputs, candidates, constraints and draws, and however the search went.
THEOREM RequestsMeetTheirConstraints == Spec => []RequestsMeetConstraints
<1>1. IInv /\ RequestStands => RequestsMeetConstraints
  <2> SUFFICES ASSUME IInv, RequestStands, Prepared, slot.error = "none",
                      NEW i \in DOMAIN SlotCase.constraints,
                      \A n \in InputsOf(SlotCase.constraints[i]) : Plain(SlotCase, n)
               PROVE  Holds(SlotCase.constraints[i], Received(SlotCase, Request))
    BY DEF RequestsMeetConstraints
  <2>1. slot.stage = "prepared"
    BY DEF Prepared
  <2> QED BY <2>1, SlotCaseStands, SlotOutcome, CaseMeetsConstraints
<1> QED BY <1>1, StateStands, RequestsStand, PTL

-----------------------------------------------------------------------------
(* What is read back from a request, and what a Patch demands of it.       *)

\* A request that some way to override a case gives: none, or what a search selected.
IsGivenBy(c, d, r) ==
  /\ SameCase(c, d) /\ IsRequestOf(d, r)
  /\ \/ d.overrides = << >>
     \/ \E selected, base : IsSelection(c, selected) /\ d.overrides = Completed(c, selected, base).overrides

LEMMA UnsolvedGives ==
  ASSUME NEW c, IsCase(c), NEW r, Generate(Unsolved(c)) = <<"request", r>>
  PROVE  IsGivenBy(c, Unsolved(c), r)
<1>1. SameCase(c, Unsolved(c)) /\ Unsolved(c).overrides = << >>
  BY RecastIs DEF Unsolved
<1>2. IsRequestOf(Unsolved(c), r)
  BY RequestOfCase
<1> QED BY <1>1, <1>2 DEF IsGivenBy

\* The request of a case is given by one of them, ...
LEMMA CaseGives ==
  ASSUME NEW c, IsCase(c), HasTree(c), DrawsValues(c), NEW r, TestCase(c) = <<"request", r>>
  PROVE  \E d : IsGivenBy(c, d, r)
<1> DEFINE first == Generate(Unsolved(c))
<1>1. TestCase(c) = Generated(c, first)
  BY DEF TestCase
<1>2. CASE c.constraints = << >>
  <2>1. first = <<"request", r>>
    <3> HIDE DEF first
    <3> QED BY <1>1, <1>2 DEF Generated
  <2> QED BY <2>1, UnsolvedGives
<1>3. CASE c.constraints # << >>
  <2>1. first # Failed
    BY <1>1 DEF Generated, Failed
  <2>2. PICK r0 : first = <<"request", r0>>
    BY <2>1, GenerateAnswers
  <2> DEFINE base == Recovered(c, r0)
  <2> HIDE DEF first
  <2>3. /\ ValidSet(c.constraints, Referable(c), ScalarTypes(c))
        /\ Second(c, Solve(c, base)) = <<"request", r>>
    <3>1. Generated(c, first) = IF ~ValidSet(c.constraints, Referable(c), ScalarTypes(c))
                                THEN <<"constraint_invalid">> ELSE Second(c, Solve(c, base))
      BY <1>3, <2>1, <2>2 DEF Generated
    <3> HIDE DEF base
    <3> QED BY <1>1, <3>1
  <2>4. ReferencedInputs(c.constraints) \subseteq Nodes(c)
    BY <2>3, ValidNames DEF ReferencedInputs
  <2>5. Solve(c, base)[1] = "solved"
    BY <2>3, SolveAnswers DEF Second
  <2>6. PICK selected : IsSelection(c, selected)
                        /\ Solve(c, base)[2] = Completed(c, selected, base).overrides
    BY <2>4, <2>5, SolvedHas
  <2> DEFINE over == Completed(c, selected, base).overrides
             d == [c EXCEPT !.overrides = over]
  <2>7. Rechecked(c, over, Generate(d)) = <<"request", r>>
    BY <2>3, <2>5, <2>6 DEF Second
  <2>8. SameCase(c, d) /\ d.overrides = over
    BY RecastIs
  <2> HIDE DEF d, over
  <2>9. Generate(d) = <<"request", r>>
    BY <2>7 DEF Rechecked, Failed
  <2>10. IsRequestOf(d, r)
    BY <2>9, RequestOfCase
  <2> QED BY <2>6, <2>8, <2>10 DEF IsGivenBy, over
<1> QED BY <1>2, <1>3

\* ... and so is the request of a slot, which drops constraints that it cannot meet.
LEMMA SlotGives ==
  ASSUME IInv, RequestStands, Prepared
  PROVE  \E d : IsGivenBy(SlotCase, d, Request)
<1> DEFINE c == SlotCase
           first == TestCase(c)
           made == Weakened(c, first)
<1>1. IsCase(c) /\ HasTree(c) /\ DrawsValues(c)
  BY SlotCaseStands DEF Prepared
<1>2. CASE slot.error = "none"
  BY <1>1, <1>2, SlotOutcome, CaseGives
<1>3. CASE slot.error # "none"
  <2>1. slot.error = made.error /\ slot.outcome = made.outcome /\ slot.outcome[1] = "request"
    BY DEF RequestStands, Prepared
  <2> HIDE DEF first, c
  <2>2. slot.outcome = Generate(Unsolved(c))
    BY <1>3, <2>1 DEF Weakened
  <2>3. PICK r : Generate(Unsolved(c)) = <<"request", r>>
    BY <2>1, <2>2, GenerateAnswers DEF Failed
  <2>4. r = Request
    BY <2>2, <2>3 DEF Request
  <2> QED BY <1>1, <2>3, <2>4, UnsolvedGives DEF c
<1> QED BY <1>2, <1>3

\* What was generated is read back from a request, of whatever case and draws.
THEOREM RequestsAreReadBack == Spec => []RequestIsReadBack
<1>1. IInv /\ RequestStands => RequestIsReadBack
  <2> DEFINE s == SlotCase
             c == [s EXCEPT !.constraints = << >>]
  <2> SUFFICES ASSUME IInv, RequestStands, Prepared, NEW n \in Nodes(c), Plain(c, n)
               PROVE  /\ n \in Request.omitted => Recovered(c, Request)[n] = Absent
                      /\ n \in Request.omitted \ {c.op.active} => Projected(c, Request, n) = Failed
                      /\ n \in DOMAIN Request.made /\ ~Node(c, n).container =>
                           Projected(c, Request, n) = Request.made[n]
                           /\ Recovered(c, Request)[n] = Request.made[n]
    BY DEF RequestIsReadBack
  <2>1. IsCase(s) /\ HasTree(s) /\ DrawsValues(s)
    BY SlotCaseStands DEF Prepared
  <2>2. PICK d : SameCase(s, d) /\ IsRequestOf(d, Request)
    BY SlotGives DEF IsGivenBy
  <2>3. SameCase(s, c)
    <3>1. PICK op, responses, generators, kept, draws : s = CaseOf(op, responses, generators, kept, draws)
      BY <2>1 DEF IsCase
    <3> HIDE DEF s
    <3> QED BY <3>1 DEF CaseOf, SameCase
  <2>4. SameCase(c, d)
    <3> HIDE DEF s, c
    <3> QED BY <2>2, <2>3 DEF SameCase
  <2>5. HasTree(c) /\ DrawsValues(c)
    BY <2>1, <2>3, SameCaseStands
  <2> HIDE DEF c
  <2> QED BY <2>2, <2>4, <2>5, CaseReadsBack
<1> QED BY <1>1, StateStands, RequestsStand, PTL

\* Each input but the one that a negative Generator aims at has one of its candidates.
ChosenFrom(candidates, s) ==
  \A n \in DOMAIN candidates : n # s.negative.node =>
    \E i \in DOMAIN candidates[n] : s.generators[n] = candidates[n][i]

ChosenStands == slot.stage \in {"selected", "prepared"} => ChosenFrom(positive, slot.selection)

LEMMA NextChosenStands ==
  ASSUME IInv, ChosenStands, [Next]_vars
  PROVE  ChosenStands'
<1>1. ASSUME NEW patch \in Op.patches, NEW sample \in Op.samples, ApplyPatch(patch, sample)
      PROVE  ChosenStands'
  BY <1>1 DEF ApplyPatch, Empty, ChosenStands
<1>2. ASSUME NEW mode \in {"happy_path", "exceptional"}, NEW score \in Op.scores, NEW choice \in Op.choices,
             Select(mode, score, choice)
      PROVE  ChosenStands'
  <2> DEFINE chosen == Choose(Config, Op.ids, constraints, mode, score, choice)
  <2>1. /\ UNCHANGED positive
        /\ slot' = IF chosen = Skipped THEN [stage |-> "skipped"]
                   ELSE [stage |-> "selected", mode |-> mode, score |-> score, choice |-> choice,
                         selection |-> chosen[2]]
    BY <1>2 DEF Select
  <2> HIDE DEF chosen
  <2>2. CASE chosen = Skipped
    BY <2>1, <2>2 DEF ChosenStands
  <2>3. CASE chosen # Skipped
    <3>1. slot'.stage = "selected" /\ slot'.selection = chosen[2]
      BY <2>1, <2>3
    <3>2. Faithful(Config, constraints, mode, score, choice, chosen[2])
      BY <2>3, SlotChoosesFaithfully DEF chosen
    <3>3. ChosenFrom(positive, chosen[2])
      <4>1. Config.positive = positive
        BY DEF Config
      <4>2. \A n \in DOMAIN chosen[2].positive :
              \E i \in DOMAIN positive[n] : chosen[2].generators[n] = positive[n][i]
        BY <3>2, <4>1 DEF Faithful, IsChoice
      <4>3. \A n \in DOMAIN positive \ DOMAIN chosen[2].positive : n = chosen[2].negative.node
        BY <3>2, <4>1 DEF Faithful
      <4> QED BY <4>2, <4>3 DEF ChosenFrom
    <3> QED BY <2>1, <3>1, <3>3 DEF ChosenStands
  <2> QED BY <2>2, <2>3
<1>3. ASSUME NEW draws \in Op.draws, Prepare(draws) PROVE ChosenStands'
  <2>1. UNCHANGED positive /\ slot.stage = "selected" /\ slot'.selection = slot.selection
    BY <1>3 DEF Prepare
  <2> QED BY <2>1 DEF ChosenStands
<1>4. ASSUME NEW declared \in Op.declarations, NEW app \in Op.apps, Send(declared, app)
      PROVE  ChosenStands'
  <2>1. slot'.stage = "sent"
    BY <1>4 DEF Send
  <2> QED BY <2>1 DEF ChosenStands
<1>5. CASE UNCHANGED vars
  BY <1>5 DEF vars, ChosenStands
<1> QED BY <1>1, <1>2, <1>3, <1>4, <1>5 DEF Next

\* In every state a slot uses candidates of its inputs.
THEOREM ChoicesStand == Spec => []ChosenStands
<1>1. Init => ChosenStands
  BY DEF Init, Empty, ChosenStands
<1>2. IInv /\ ChosenStands /\ [Next]_vars => ChosenStands'
  BY NextChosenStands
<1> QED BY <1>1, <1>2, StateStands, PTL DEF Spec

\* A mandatory input is taken, whatever a search selected.
LEMMA MandatoryIsGiven ==
  ASSUME NEW c, NEW d, NEW r, IsGivenBy(c, d, r), NEW n \in Nodes(c), c.chance[n] = "always"
  PROVE  Taken(d, n)
<1>1. SameCase(c, d) /\ d.chance[n] = "always"
  BY DEF IsGivenBy, SameCase
<1>2. CASE d.overrides = << >>
  BY <1>1, <1>2 DEF Taken
<1>3. ASSUME NEW selected, NEW base, IsSelection(c, selected), d.overrides = Completed(c, selected, base).overrides
      PROVE  Taken(d, n)
  BY <1>1, <1>3, MandatoryIsTaken
<1> QED BY <1>2, <1>3 DEF IsGivenBy

\* What the latest Patch demands stands in a slot that does not aim at it: the input and its
\* containers are mandatory, and a variant above it takes its branch.
LEMMA SlotDemands ==
  ASSUME IInv, RequestStands, ChosenStands, latest # NoPatch, Prepared,
         NEW n \in MandatoryInputs(latest.patch),
         slot.selection.negative.node \notin Ancestors(SlotCase, n) \cup {n}
  PROVE  /\ n \in Nodes(SlotCase)
         /\ \A a \in Ancestors(SlotCase, n) \cup {n} : a \in Nodes(SlotCase) /\ SlotCase.chance[a] = "always"
         /\ \A b \in Ancestors(SlotCase, n) \cup {n} :
              LET a == Node(SlotCase, b).parent
              IN  a # NoNode /\ Last(latest.positive[a]).strategy.type = "variant" /\ Len(positive[a]) = 1 =>
                    Strategy(SlotCase, a).branches = {b}
<1> DEFINE c == SlotCase
           g == slot.selection.generators
           path == Ancestors(c, n) \cup {n}
<1>1. WellFormed(Op) /\ AreCandidates(Op, positive) /\ GeneratorsFit(Op, g) /\ ChosenFrom(positive, slot.selection)
  BY WellFormedOp DEF IInv, Shape, ShapeOf, RequestStands, ChosenStands, Prepared
<1>2. HasTree(c) /\ c.op = Op /\ Nodes(c) = DOMAIN Op.nodes
      /\ \A m \in DOMAIN g : c.chance[m] = g[m].chance /\ Strategy(c, m) = g[m].strategy
  <2>1. HasTree(c)
    BY SlotCaseStands DEF Prepared
  <2>2. c = CaseOf(Op, Captured, g, slot.selection.constraints, slot.draws)
    BY DEF SlotCase, Case
  <2> HIDE DEF c
  <2> QED BY <2>1, <2>2 DEF CaseOf, Nodes, Strategy
<1> HIDE DEF c
<1>3. /\ AreCandidates(Op, latest.positive) /\ AreItems(latest.patch.changes)
      /\ CompiledGenerators([op |-> Op], latest.positive, latest.patch) = <<"accepted", positive>>
  BY <1>1 DEF IInv, PatchStands, ShapeOf, WellFormed, AreItems
<1>4. HasTree([op |-> Op])
  BY <1>1 DEF WellFormed, HasTree
<1>5. Demanded(Op, latest.positive, positive, n)
  <2> DEFINE o == Op
             old == latest.positive
             patch == latest.patch
  <2>1. HasTree([op |-> o]) /\ AreCandidates(o, old) /\ AreItems(patch.changes) /\ n \in MandatoryInputs(patch)
    BY <1>3, <1>4
  <2>2. CompiledGenerators([op |-> o], old, patch) = <<"accepted", positive>>
    BY <1>3
  <2> HIDE DEF o, old, patch
  <2>3. Demanded(o, old, positive, n)
    BY <2>1, <2>2, CompiledDemands
  <2> QED BY <2>3 DEF o, old, patch
<1>6. /\ n \in DOMAIN Op.nodes
      /\ \A a \in Ancestors([op |-> Op], n) \cup {n} : \A i \in DOMAIN positive[a] : positive[a][i].chance = "always"
      /\ \A b \in Ancestors([op |-> Op], n) \cup {n} :
           LET a == Op.nodes[b].parent
           IN  a # NoNode /\ Last(latest.positive[a]).strategy.type = "variant" /\ Len(positive[a]) = 1 =>
                 positive[a][1].strategy.branches = {b}
  BY <1>5 DEF Demanded
<1>7. Ancestors([op |-> Op], n) = Ancestors(c, n) /\ AncestorFacts(c, n)
  BY <1>2, <1>6, SameAncestors, AncestorsAre
<1>8. \A a \in path : a \in Nodes(c) /\ a \in DOMAIN g /\ \E i \in DOMAIN positive[a] : g[a] = positive[a][i]
  BY <1>1, <1>2, <1>6, <1>7 DEF ChosenFrom, GeneratorsFit, AncestorFacts, AreCandidates, c
<1>9. \A a \in path : c.chance[a] = "always"
  BY <1>2, <1>6, <1>7, <1>8
<1>10. ASSUME NEW b \in path, NEW a, a = Node(c, b).parent, a # NoNode,
             Last(latest.positive[a]).strategy.type = "variant", Len(positive[a]) = 1
      PROVE  Strategy(c, a).branches = {b}
  <2>1. a \in path
    <3>1. a \in Ancestors(c, b)
      BY <1>2, <1>8, <1>10, AncestorsUnfold
    <3>2. Ancestors(c, b) \subseteq Ancestors(c, n)
      BY <1>7, <1>10 DEF AncestorFacts
    <3> QED BY <3>1, <3>2
  <2>2. positive[a][1].strategy.branches = {b}
    BY <1>2, <1>6, <1>7, <1>10 DEF Node
  <2>3. g[a] = positive[a][1]
    <3>1. IsSequence(positive[a])
      BY <1>1, <1>2, <1>8, <2>1 DEF AreCandidates
    <3>2. \A i \in DOMAIN positive[a] : i = 1
      BY <1>10, <3>1, SequenceIsSequence DEF IsSequence
    <3> QED BY <1>8, <2>1, <3>2
  <2> QED BY <1>2, <1>8, <2>1, <2>2, <2>3
<1> QED BY <1>2, <1>6, <1>8, <1>9, <1>10 DEF c

\* The way to an input whose containers are all taken, and take its branch, is gone.
LEMMA DemandedArrives ==
  ASSUME NEW c, HasTree(c), DrawsValues(c), NEW d, SameCase(c, d), NEW r, IsRequestOf(d, r), NEW n \in Nodes(c),
         \A a \in Ancestors(c, n) \cup {n} : Taken(d, a),
         \A a \in Ancestors(c, n) \cup {n} :
           LET p == Node(c, a).parent
           IN  \/ Node(c, a).edge = "root"
               \/ Node(c, a).edge = "media" /\ a = c.op.active
               \/ /\ Node(c, a).edge = "property"
                  /\ Strategy(c, p).type = "object" /\ Children(c, p, "allOf") = {}
               \/ Node(c, a).edge = "oneOf" /\ Strategy(c, p).type = "variant" /\ Strategy(c, p).branches = {a}
  PROVE  Received(c, r)[n] # Absent
<1>1. /\ HasTree(d) /\ DrawsValues(d) /\ Nodes(d) = Nodes(c) /\ d.op = c.op
      /\ \A m : Node(d, m) = Node(c, m) /\ Strategy(d, m) = Strategy(c, m)
  BY SameCaseStands DEF SameCase
<1>2. Ancestors(d, n) = Ancestors(c, n) /\ AncestorFacts(c, n) /\ \A m, e : Children(d, m, e) = Children(c, m, e)
  BY <1>1, SameAncestors, AncestorsAre DEF Children
<1>3. Bare # Absent
  BY DEF Bare, Absent
<1>4. CASE Node(c, n).kind = "request_body"
  <2>1. r.hasBody
    BY <1>1, <1>4 DEF IsRequestOf
  <2> QED BY <1>3, <1>4, <2>1 DEF Received
<1>5. CASE Node(c, n).kind # "request_body"
  <2>1. ASSUME NEW a \in Ancestors(c, n) \cup {n}, Node(c, a).parent # NoNode PROVE Entered(d, a)
    <3> DEFINE p == Node(c, a).parent
    <3>1. a \in Nodes(c) /\ Ancestors(c, a) \subseteq Ancestors(c, n)
      BY <1>2 DEF AncestorFacts
    <3>2. p \in Ancestors(c, n)
      BY <2>1, <3>1, AncestorsUnfold
    <3>3. Node(c, a).edge # "root"
      BY <2>1, <3>1 DEF HasTree, IsTree, Node, Nodes
    <3>4. Taken(d, p)
      BY <3>2
    <3>5. Strategy(c, p).branches = {a} => BranchTaken(d, p) = a
      BY <1>1 DEF BranchTaken
    <3> QED BY <1>1, <1>2, <3>3, <3>4, <3>5 DEF Entered
  <2>2. Reached(d, n)
    BY <1>1, <1>2, <2>1 DEF Reached
  <2>3. \A a \in Ancestors(d, n) \cup {n} : Node(d, a).edge \in {"root", "media", "property", "oneOf"}
    BY <1>1, <1>2
  <2>4. Projected(d, r, n) = Build(d, n) /\ Build(d, n) \notin {Absent, Failed}
    BY <1>1, <1>5, <2>2, <2>3, ReachedArrives
  <2>5. Projected(c, r, n) \notin {Absent, Failed}
    BY <1>1, <2>4, SameProjected
  <2> QED BY <1>3, <1>5, <2>5 DEF Received
<1> QED BY <1>4, <1>5

\* An applied Patch does what it says, to the requests and to the state: for any inputs,
\* candidates and Patches.
THEOREM PatchesStayKept == Spec => []PatchesAreKept
<1>1. IInv /\ RequestStands /\ ChosenStands => MandatoryInputsArrive
  <2> DEFINE c == SlotCase
  <2> SUFFICES ASSUME IInv, RequestStands, ChosenStands, latest # NoPatch, Prepared,
                      NEW n \in MandatoryInputs(latest.patch), Traceable(c, n),
                      slot.selection.negative.node \notin Ancestors(c, n) \cup {n}
               PROVE  Received(c, Request)[n] # Absent
    BY DEF MandatoryInputsArrive
  <2>1. /\ n \in Nodes(c)
        /\ \A a \in Ancestors(c, n) \cup {n} : a \in Nodes(c) /\ c.chance[a] = "always"
        /\ \A b \in Ancestors(c, n) \cup {n} :
             LET a == Node(c, b).parent
             IN  a # NoNode /\ Last(latest.positive[a]).strategy.type = "variant" /\ Len(positive[a]) = 1 =>
                   Strategy(c, a).branches = {b}
    BY SlotDemands
  <2>2. HasTree(c) /\ DrawsValues(c)
    BY SlotCaseStands DEF Prepared
  <2>3. PICK d : IsGivenBy(c, d, Request)
    BY SlotGives
  <2> HIDE DEF c
  <2>4. \A a \in Ancestors(c, n) \cup {n} : Taken(d, a)
    BY <2>1, <2>3, MandatoryIsGiven
  <2>5. \A a \in Ancestors(c, n) \cup {n} : Node(c, a).edge = "oneOf" => Node(c, a).parent # NoNode
    BY <2>1, <2>2 DEF HasTree, IsTree, Node, Nodes
  <2>6. ASSUME NEW a \in Ancestors(c, n) \cup {n}
        PROVE  LET p == Node(c, a).parent
               IN  \/ Node(c, a).edge = "root"
                   \/ Node(c, a).edge = "media" /\ a = c.op.active
                   \/ /\ Node(c, a).edge = "property"
                      /\ Strategy(c, p).type = "object" /\ Children(c, p, "allOf") = {}
                   \/ Node(c, a).edge = "oneOf" /\ Strategy(c, p).type = "variant" /\ Strategy(c, p).branches = {a}
    BY <2>1, <2>5 DEF Traceable
  <2>7. SameCase(c, d) /\ IsRequestOf(d, Request)
    BY <2>3 DEF IsGivenBy
  <2> QED BY <2>1, <2>2, <2>4, <2>6, <2>7, DemandedArrives
<1> QED BY <1>1, StateStands, RequestsStand, ChoicesStand, ScopesStayReplaced, PTL DEF PatchesAreKept
=============================================================================
