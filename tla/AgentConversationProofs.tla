------------------------ MODULE AgentConversationProofs ------------------------
(***************************************************************************)
(* Theorems about AgentConversation, for every definition, every size and  *)
(* every number of turns: what is launched was authorized, every request   *)
(* to the provider is a valid conversation, and nothing that was said to   *)
(* the Agent is left out without a summary.                                *)
(***************************************************************************)
EXTENDS AgentConversation, WellFoundedInduction, SequenceTheorems, TLAPS

-----------------------------------------------------------------------------
(* Induction and folds.  The library's induction theorems speak of an      *)
(* operator, which the provers cannot instantiate; here a set takes its    *)
(* place.                                                                  *)

\* A set with zero and the successors of its members has all natural numbers.
LEMMA SetInduction ==
  ASSUME NEW S, 0 \in S, \A n \in Nat : n \in S => n + 1 \in S
  PROVE  Nat \subseteq S
<1>1. SUFFICES ASSUME Nat \ S # {} PROVE FALSE
  OBVIOUS
<1>2. IsWellFoundedOn(OpToRel(<, Nat), Nat)
  BY NatLessThanWellFounded
<1>3. PICK x \in Nat \ S : \A y \in Nat \ S : ~(<<y, x>> \in OpToRel(<, Nat))
  <2> DEFINE R == OpToRel(<, Nat)
  <2> HIDE DEF R
  <2>1. IsWellFoundedOn(R, Nat)
    BY <1>2 DEF R
  <2>2. \E x \in Nat \ S : \A y \in Nat \ S : ~(<<y, x>> \in R)
    BY <1>1, <2>1, WFMin
  <2> QED
    BY <2>2 DEF R
<1>4. x # 0
  BY <1>3
<1>5. <<x - 1, x>> \in OpToRel(<, Nat)
  BY <1>4 DEF OpToRel
<1>7. x - 1 \in Nat /\ x = (x - 1) + 1
  BY <1>4
<1>6. x - 1 \in S
  <2> DEFINE R == OpToRel(<, Nat)
  <2> HIDE DEF R
  <2>1. <<x - 1, x>> \in R /\ \A y \in Nat \ S : ~(<<y, x>> \in R)
    BY <1>3, <1>5 DEF R
  <2> QED
    BY <1>7, <2>1
<1> QED
  BY <1>6, <1>7

\* A set of positions has a greatest one (Max of the library).
LEMMA MaxOf == ASSUME NEW n \in Nat, NEW s \in SUBSET (1..n), s # {}
               PROVE Max(s) \in s /\ \A y \in s : Max(s) >= y
<1>1. \E x \in s : \A y \in s : x >= y
  <2> DEFINE T == {k \in Nat : \A r \in SUBSET (1..k) : r # {} => \E x \in r : \A y \in r : x >= y}
  <2>1. 0 \in T
    <3>1. \A r \in SUBSET (1..0) : r = {}
      OBVIOUS
    <3> QED BY <3>1
  <2>2. ASSUME NEW k \in Nat, k \in T PROVE k + 1 \in T
    <3>1. SUFFICES ASSUME NEW r \in SUBSET (1..(k + 1)), r # {} PROVE \E x \in r : \A y \in r : x >= y
      OBVIOUS
    <3>2. CASE k + 1 \in r
      BY <3>2
    <3>3. CASE k + 1 \notin r
      <4>1. r \in SUBSET (1..k)
        BY <3>3
      <4> QED BY <4>1, <2>2, <3>1
    <3> QED BY <3>2, <3>3
  <2> HIDE DEF T
  <2>3. n \in T
    BY <2>1, <2>2, SetInduction
  <2> QED BY <2>3 DEF T
<1> QED BY <1>1 DEF Max

\* A step of a fold over 1..n, and the function that folds its subsets from the
\* smallest position to the greatest, as FoldLeft does.
IsStep(n, X, base, step) == base \in X /\ step \in [X \X (1..n) -> X]
IsFold(n, X, base, step) ==
  \E g \in [SUBSET (1..n) -> X] : \A s \in SUBSET (1..n) :
    g[s] = IF s = {} THEN base ELSE step[<<g[s \ {Max(s)}], Max(s)>>]

\* The recursive function that FoldLeft chooses exists.
LEMMA FoldSolution ==
  ASSUME NEW n \in Nat, NEW X, NEW base, NEW step, IsStep(n, X, base, step)
  PROVE  IsFold(n, X, base, step)
<1> base \in X /\ step \in [X \X (1..n) -> X]
  BY DEF IsStep
<1> DEFINE Solves(g, k) ==
      \A s \in SUBSET (1..k) : g[s] = IF s = {} THEN base ELSE step[<<g[s \ {Max(s)}], Max(s)>>]
    P(k) == \E g \in [SUBSET (1..k) -> X] : Solves(g, k)
    T == {k \in Nat : k <= n => P(k)}
<1>1. P(0)
  <2>1. \A s \in SUBSET (1..0) : s = {}
    OBVIOUS
  <2>2. /\ [s \in SUBSET (1..0) |-> base] \in [SUBSET (1..0) -> X]
        /\ Solves([s \in SUBSET (1..0) |-> base], 0)
    BY <2>1
  <2> HIDE DEF Solves
  <2> QED BY <2>2
<1>2. ASSUME NEW k \in Nat, k + 1 <= n, P(k) PROVE P(k + 1)
  <2>1. PICK g \in [SUBSET (1..k) -> X] : Solves(g, k)
    BY <1>2
  <2> DEFINE h == [s \in SUBSET (1..(k + 1)) |->
                     IF k + 1 \in s THEN step[<<g[s \ {k + 1}], k + 1>>] ELSE g[s]]
  <2>2. \A s \in SUBSET (1..(k + 1)) : k + 1 \notin s => s \in SUBSET (1..k)
    OBVIOUS
  <2>3. \A s \in SUBSET (1..(k + 1)) : s \ {k + 1} \in SUBSET (1..k)
    OBVIOUS
  <2>4. h \in [SUBSET (1..(k + 1)) -> X]
    <3>1. k + 1 \in 1..n
      BY <1>2
    <3>2. ASSUME NEW s \in SUBSET (1..(k + 1)) PROVE h[s] \in X
      <4>1. CASE k + 1 \in s
        <5>1. g[s \ {k + 1}] \in X
          BY <2>3
        <5> QED BY <3>1, <4>1, <5>1
      <4>2. CASE k + 1 \notin s
        BY <2>2, <4>2
      <4> QED BY <4>1, <4>2
    <3> QED BY <3>2
  <2>5. ASSUME NEW s \in SUBSET (1..(k + 1))
        PROVE  h[s] = IF s = {} THEN base ELSE step[<<h[s \ {Max(s)}], Max(s)>>]
    <3>1. CASE k + 1 \in s
      <4>1. Max(s) = k + 1
        <5>1. k + 1 \in Nat /\ s # {}
          BY <3>1
        <5>2. Max(s) \in s /\ \A y \in s : Max(s) >= y
          BY <5>1, MaxOf
        <5>3. Max(s) \in 1..(k + 1) /\ Max(s) >= k + 1
          BY <3>1, <5>2
        <5> QED BY <5>3
      <4>2. h[s \ {k + 1}] = g[s \ {k + 1}]
        BY <2>3
      <4>3. h[s] = step[<<g[s \ {k + 1}], k + 1>>]
        BY <3>1
      <4> HIDE DEF h
      <4> QED BY <3>1, <4>1, <4>2, <4>3
    <3>2. CASE k + 1 \notin s
      <4>1. s \in SUBSET (1..k) /\ h[s] = g[s] /\ h[s \ {Max(s)}] = g[s \ {Max(s)}]
        BY <2>2, <3>2
      <4>2. g[s] = IF s = {} THEN base ELSE step[<<g[s \ {Max(s)}], Max(s)>>]
        BY <2>1, <4>1
      <4> HIDE DEF h
      <4> QED BY <4>1, <4>2
    <3> QED BY <3>1, <3>2
  <2> HIDE DEF h
  <2>6. Solves(h, k + 1)
    BY <2>5
  <2> HIDE DEF Solves
  <2> QED BY <2>4, <2>6
<1> HIDE DEF P
<1>3. n \in T
  <2>1. 0 \in T
    BY <1>1
  <2>2. \A k \in Nat : k \in T => k + 1 \in T
    BY <1>2
  <2> HIDE DEF T
  <2> QED BY <2>1, <2>2, SetInduction
<1>4. P(n)
  BY <1>3
<1> QED BY <1>4 DEF P, IsFold

\* What holds of every step of a fold holds of its prefixes.
LEMMA FoldAlong ==
  ASSUME NEW n \in Nat, NEW X, NEW F, F[{}] \in X,
         \A k \in 1..n : F[1..(k - 1)] \in X => F[1..k] \in X
  PROVE  \A k \in 0..n : F[1..k] \in X
<1> DEFINE T == {k \in Nat : k <= n => F[1..k] \in X}
<1>1. 0 \in T
  <2>1. 1..0 = {}
    OBVIOUS
  <2> QED BY <2>1
<1>2. \A k \in Nat : k \in T => k + 1 \in T
  <2>1. ASSUME NEW k \in Nat, k \in T, k + 1 <= n PROVE F[1..(k + 1)] \in X
    <3>1. F[1..k] \in X /\ k + 1 \in 1..n /\ (k + 1) - 1 = k
      BY <2>1
    <3> QED BY <3>1
  <2> QED BY <2>1
<1> HIDE DEF T
<1>3. Nat \subseteq T
  BY <1>1, <1>2, SetInduction
<1> QED BY <1>3 DEF T

\* The prefixes 1..k of the positions.
LEMMA UpTo ==
  ASSUME NEW n \in Nat, NEW k \in 1..n
  PROVE  /\ 1..k \in SUBSET (1..n) /\ 1..k # {} /\ Max(1..k) = k /\ (1..k) \ {k} = 1..(k - 1)
<1>1. 1..k \in SUBSET (1..n) /\ k \in 1..k
  OBVIOUS
<1>2. (1..k) \ {k} = 1..(k - 1)
  <2>1. \A i : i \in (1..k) \ {k} <=> i \in 1..(k - 1)
    OBVIOUS
  <2> QED BY <2>1
<1>3. Max(1..k) \in 1..k /\ \A y \in 1..k : Max(1..k) >= y
  <2>1. 1..k # {}
    BY <1>1
  <2> QED BY <1>1, <2>1, MaxOf
<1>4. Max(1..k) = k
  BY <1>1, <1>3
<1>5. 1..k # {}
  BY <1>1
<1> QED BY <1>1, <1>2, <1>4, <1>5

\* Induction over the positions 0..n.
LEMMA IntervalInduction ==
  ASSUME NEW n \in Nat, NEW S, 0 \in S, \A k \in 0..(n - 1) : k \in S => k + 1 \in S
  PROVE  0..n \subseteq S
<1> DEFINE T == {k \in Nat : k <= n => k \in S}
<1>1. 0 \in T
  OBVIOUS
<1>2. \A k \in Nat : k \in T => k + 1 \in T
  OBVIOUS
<1> HIDE DEF T
<1>3. Nat \subseteq T
  BY <1>1, <1>2, SetInduction
<1> QED BY <1>3 DEF T

\* A fold seen from its prefixes.
IsLine(n, X, base, step) ==
  \E h \in [0..n -> X] : h[0] = base /\ \A k \in 1..n : h[k] = step[<<h[k - 1], k>>]

LEMMA LineExists ==
  ASSUME NEW n \in Nat, NEW X, NEW base, NEW step, IsStep(n, X, base, step)
  PROVE  IsLine(n, X, base, step)
<1>0. IsFold(n, X, base, step)
  BY FoldSolution
<1>1. PICK g \in [SUBSET (1..n) -> X] : \A s \in SUBSET (1..n) :
         g[s] = IF s = {} THEN base ELSE step[<<g[s \ {Max(s)}], Max(s)>>]
  BY <1>0 DEF IsFold
<1> DEFINE h == [k \in 0..n |-> g[1..k]]
<1>2. h \in [0..n -> X]
  <2>1. ASSUME NEW k \in 0..n PROVE g[1..k] \in X
    <3>1. 1..k \in SUBSET (1..n)
      OBVIOUS
    <3> QED BY <3>1
  <2> QED BY <2>1
<1>3. h[0] = base
  <2>1. 1..0 = {} /\ {} \in SUBSET (1..n) /\ 0 \in 0..n
    OBVIOUS
  <2>2. g[{}] = base
    BY <1>1, <2>1
  <2>3. h[0] = g[1..0]
    BY <2>1
  <2> HIDE DEF h
  <2> QED BY <2>1, <2>2, <2>3
<1>4. ASSUME NEW k \in 1..n PROVE h[k] = step[<<h[k - 1], k>>]
  <2>1. 1..k \in SUBSET (1..n) /\ 1..k # {} /\ Max(1..k) = k /\ (1..k) \ {k} = 1..(k - 1)
    BY UpTo
  <2>2. g[1..k] = step[<<g[1..(k - 1)], k>>]
    BY <1>1, <2>1
  <2> QED BY <2>2
<1> HIDE DEF h
<1> QED BY <1>2, <1>3, <1>4 DEF IsLine

-----------------------------------------------------------------------------
(* Messages, their characters and their sequences.                         *)

Roles == {"system", "user", "assistant", "tool"}
Facts ==
  {"rules", "task", "source", "reminder", "correction", "text", "result", "skill"} \X Nat

SomeMessages == [role : Roles, size : Nat, call : Nat, says : SUBSET Facts]

\* Chars adds up the messages one after the other.
LEMMA CharsSteps ==
  ASSUME NEW messages \in Seq(SomeMessages)
  PROVE  \E f \in [0..Len(messages) -> Nat] :
           /\ f[0] = 0 /\ f[Len(messages)] = Chars(messages)
           /\ \A k \in 1..Len(messages) : f[k] = f[k - 1] + messages[k].size + Overhead
<1> DEFINE n == Len(messages)
           Step(s, v) == v + messages[Max(s)].size + Overhead
           F == CHOOSE iter : iter = [s \in SUBSET DOMAIN messages |->
                                        IF s = {} THEN 0 ELSE Step(s, iter[s \ {Max(s)}])]
           step == [p \in Nat \X (1..n) |-> p[1] + messages[p[2]].size + Overhead]
<1>1. Chars(messages) = F[DOMAIN messages]
  BY DEF Chars, FoldLeft, MapThenFoldSet
<1>2. n \in Nat /\ DOMAIN messages = 1..n /\ Overhead \in Nat /\ \A k \in 1..n : messages[k].size \in Nat
  <2>1. n \in Nat /\ DOMAIN messages = 1..n /\ Overhead \in Nat
    BY ContextAssumption DEF ContextAssumption
  <2>2. ASSUME NEW k \in 1..n PROVE messages[k].size \in Nat
    <3>1. messages[k] \in SomeMessages
      OBVIOUS
    <3> QED BY <3>1 DEF SomeMessages
  <2> QED BY <2>1, <2>2
<1>3. step \in [Nat \X (1..n) -> Nat]
  BY <1>2
<1>4. PICK g \in [SUBSET (1..n) -> Nat] : \A s \in SUBSET (1..n) :
            g[s] = IF s = {} THEN 0 ELSE step[<<g[s \ {Max(s)}], Max(s)>>]
  <2>1. n \in Nat /\ IsStep(n, Nat, 0, step)
    BY <1>2, <1>3 DEF IsStep
  <2> HIDE DEF n, step
  <2>2. IsFold(n, Nat, 0, step)
    BY <2>1, FoldSolution
  <2> QED BY <2>2 DEF IsFold
<1>5. g = [s \in SUBSET DOMAIN messages |-> IF s = {} THEN 0 ELSE Step(s, g[s \ {Max(s)}])]
  <2>1. ASSUME NEW s \in SUBSET (1..n), s # {} PROVE g[s] = Step(s, g[s \ {Max(s)}])
    <3>1. Max(s) \in 1..n /\ s \ {Max(s)} \in SUBSET (1..n)
      BY <1>2, <2>1, MaxOf
    <3>2. g[s \ {Max(s)}] \in Nat
      BY <3>1
    <3> QED BY <1>4, <2>1, <3>1, <3>2
  <2> HIDE DEF n, Step
  <2> QED BY <1>2, <1>4, <2>1
<1>6. F = [s \in SUBSET DOMAIN messages |-> IF s = {} THEN 0 ELSE Step(s, F[s \ {Max(s)}])]
  <2> HIDE DEF Step
  <2>1. \E iter : iter = [s \in SUBSET DOMAIN messages |-> IF s = {} THEN 0 ELSE Step(s, iter[s \ {Max(s)}])]
    BY <1>5
  <2> QED BY <2>1, Zenon
<1> HIDE DEF F
<1>7. F[{}] = 0 /\ \A k \in 1..n : F[1..k] = F[1..(k - 1)] + messages[k].size + Overhead
  <2>1. F[{}] = 0
    BY <1>6
  <2>2. ASSUME NEW k \in 1..n PROVE F[1..k] = Step(1..k, F[1..(k - 1)])
    <3> HIDE DEF n, Step
    <3>0. n \in Nat
      BY <1>2
    <3>1. 1..k \in SUBSET (1..n) /\ 1..k # {} /\ Max(1..k) = k /\ (1..k) \ {k} = 1..(k - 1)
      BY <3>0, UpTo
    <3>2. F[1..k] = Step(1..k, F[(1..k) \ {Max(1..k)}])
      BY <1>2, <1>6, <3>1
    <3> QED BY <3>1, <3>2
  <2>3. ASSUME NEW k \in 1..n PROVE Max(1..k) = k
    <3> HIDE DEF n
    <3>1. n \in Nat
      BY <1>2
    <3> QED BY <3>1, UpTo
  <2> QED BY <1>2, <2>1, <2>2, <2>3
<1>8. \A k \in 0..n : F[1..k] \in Nat
  <2> HIDE DEF n
  <2>1. n \in Nat /\ F[{}] \in Nat
    BY <1>2, <1>7
  <2>2. ASSUME NEW k \in 1..n, F[1..(k - 1)] \in Nat PROVE F[1..k] \in Nat
    <3>1. F[1..k] = F[1..(k - 1)] + messages[k].size + Overhead
      BY <1>7
    <3> QED BY <1>2, <2>2, <3>1
  <2> QED BY <2>1, <2>2, FoldAlong
<1> DEFINE f == [k \in 0..n |-> F[1..k]]
<1>9. f \in [0..n -> Nat] /\ f[0] = 0 /\ f[n] = Chars(messages)
  BY <1>1, <1>2, <1>7, <1>8
<1>10. \A k \in 1..n : f[k] = f[k - 1] + messages[k].size + Overhead
  BY <1>2, <1>7
<1> HIDE DEF f
<1> QED BY <1>9, <1>10
\* The characters of a history are those of its parts.
LEMMA CharsConcat ==
  ASSUME NEW a \in Seq(SomeMessages), NEW b \in Seq(SomeMessages)
  PROVE  Chars(a \o b) = Chars(a) + Chars(b)
<1> DEFINE c == a \o b
<1>1. c \in Seq(SomeMessages) /\ Len(c) = Len(a) + Len(b) /\ Len(a) \in Nat /\ Len(b) \in Nat
  OBVIOUS
<1>2. \A i \in 1..Len(a) : c[i] = a[i]
  OBVIOUS
<1>3. \A i \in 1..Len(b) : c[Len(a) + i] = b[i]
  OBVIOUS
<1>4. PICK fa \in [0..Len(a) -> Nat] : /\ fa[0] = 0 /\ fa[Len(a)] = Chars(a)
         /\ \A k \in 1..Len(a) : fa[k] = fa[k - 1] + a[k].size + Overhead
  BY CharsSteps
<1>5. PICK fb \in [0..Len(b) -> Nat] : /\ fb[0] = 0 /\ fb[Len(b)] = Chars(b)
         /\ \A k \in 1..Len(b) : fb[k] = fb[k - 1] + b[k].size + Overhead
  BY CharsSteps
<1> HIDE DEF c
<1>6. PICK fc \in [0..Len(c) -> Nat] : /\ fc[0] = 0 /\ fc[Len(c)] = Chars(c)
         /\ \A k \in 1..Len(c) : fc[k] = fc[k - 1] + c[k].size + Overhead
  BY <1>1, CharsSteps
<1>7. fc[Len(a)] = fa[Len(a)]
  <2> DEFINE S == {k \in 0..Len(a) : fc[k] = fa[k]}
  <2>1. 0 \in S
    BY <1>1, <1>4, <1>6
  <2>2. ASSUME NEW k \in 0..(Len(a) - 1), k \in S PROVE k + 1 \in S
    <3>1. k + 1 \in 1..Len(a) /\ k + 1 \in 1..Len(c) /\ (k + 1) - 1 = k
      BY <1>1
    <3>2. fc[k + 1] = fc[k] + a[k + 1].size + Overhead
      BY <1>2, <1>6, <3>1
    <3>3. fa[k + 1] = fa[k] + a[k + 1].size + Overhead
      BY <1>4, <3>1
    <3> QED BY <2>2, <3>1, <3>2, <3>3
  <2> HIDE DEF S
  <2>3. 0..Len(a) \subseteq S
    BY <1>1, <2>1, <2>2, IntervalInduction
  <2> QED BY <1>1, <2>3 DEF S
<1>8. fc[Len(a) + Len(b)] = fa[Len(a)] + fb[Len(b)]
  <2> DEFINE S == {k \in 0..Len(b) : fc[Len(a) + k] = fa[Len(a)] + fb[k]}
  <2>1. 0 \in S
    BY <1>1, <1>4, <1>5, <1>7
  <2>2. ASSUME NEW k \in 0..(Len(b) - 1), k \in S PROVE k + 1 \in S
    <3>1. /\ k + 1 \in 1..Len(b) /\ Len(a) + (k + 1) \in 1..Len(c)
          /\ (k + 1) - 1 = k /\ (Len(a) + (k + 1)) - 1 = Len(a) + k
      BY <1>1
    <3>2. fc[Len(a) + (k + 1)] = fc[Len(a) + k] + b[k + 1].size + Overhead
      BY <1>3, <1>6, <3>1
    <3>3. fb[k + 1] = fb[k] + b[k + 1].size + Overhead
      BY <1>5, <3>1
    <3>4. fa[Len(a)] \in Nat /\ fb[k] \in Nat /\ b[k + 1].size \in Nat /\ Overhead \in Nat
      <4>1. b[k + 1] \in SomeMessages
        BY <3>1
      <4>2. b[k + 1].size \in Nat
        BY <4>1 DEF SomeMessages
      <4>3. Overhead \in Nat
        BY ContextAssumption DEF ContextAssumption
      <4>4. Len(a) \in 0..Len(a) /\ k \in 0..Len(b)
        BY <1>1, <3>1
      <4> QED BY <1>4, <1>5, <4>2, <4>3, <4>4
    <3>5. fc[Len(a) + k] = fa[Len(a)] + fb[k]
      BY <2>2
    <3>6. fc[Len(a) + (k + 1)] = fa[Len(a)] + fb[k + 1]
      BY <3>2, <3>3, <3>1, <3>4, <3>5
    <3>7. k + 1 \in 0..Len(b)
      BY <3>1
    <3> QED BY <3>6, <3>7
  <2> HIDE DEF S
  <2> DEFINE n == Len(b)
  <2>3. n \in Nat /\ \A k \in 0..(n - 1) : k \in S => k + 1 \in S
    BY <1>1, <2>2
  <2> HIDE DEF n
  <2>5. 0..n \subseteq S
    BY <2>1, <2>3, IntervalInduction
  <2>4. 0..Len(b) \subseteq S
    BY <2>5 DEF n
  <2>6. Len(b) \in S
    <3>1. Len(b) \in 0..Len(b)
      BY <1>1
    <3> QED BY <2>4, <3>1
  <2> QED BY <2>6 DEF S
<1> QED BY <1>1, <1>4, <1>5, <1>6, <1>7, <1>8 DEF c

LEMMA CharsOfOne ==
  /\ Chars(<< >>) = 0
  /\ \A m \in SomeMessages : Chars(<<m>>) = m.size + Overhead
  /\ \A ms \in Seq(SomeMessages) : Chars(ms) \in Nat
<1>1. Chars(<< >>) = 0
  <2>1. << >> \in Seq(SomeMessages) /\ Len(<< >>) = 0
    OBVIOUS
  <2> QED BY <2>1, CharsSteps
<1>2. ASSUME NEW m \in SomeMessages PROVE Chars(<<m>>) = m.size + Overhead
  <2> DEFINE ms == <<m>>
  <2>1. ms \in Seq(SomeMessages) /\ Len(ms) = 1 /\ ms[1] = m
    OBVIOUS
  <2>2. m.size \in Nat /\ Overhead \in Nat
    BY ContextAssumption DEF ContextAssumption, SomeMessages
  <2> HIDE DEF ms
  <2>3. PICK f \in [0..Len(ms) -> Nat] :
          /\ f[0] = 0 /\ f[Len(ms)] = Chars(ms)
          /\ \A k \in 1..Len(ms) : f[k] = f[k - 1] + ms[k].size + Overhead
    BY <2>1, CharsSteps
  <2>4. f[1] = f[0] + m.size + Overhead
    BY <2>1, <2>3
  <2>5. Chars(ms) = m.size + Overhead
    BY <2>1, <2>2, <2>3, <2>4
  <2> QED BY <2>5 DEF ms
<1>3. ASSUME NEW ms \in Seq(SomeMessages) PROVE Chars(ms) \in Nat
  <2>1. Len(ms) \in Nat
    OBVIOUS
  <2> QED BY <2>1, CharsSteps
<1> QED BY <1>1, <1>2, <1>3

-----------------------------------------------------------------------------
(* The launch.                                                             *)

\* The Agents that were built are a path of the accepted definition, the last of
\* them built or not.
Path(d, names) ==
  /\ names \in Seq(DOMAIN d.profiles) /\ Len(names) \in 1..(MaxLevels + 1)
  /\ \A i \in 2..Len(names) : names[i] \in ChildrenOf(d, names[i - 1])

LaunchInv ==
  /\ phase = "configured" => definition \in Definitions /\ chain = << >>
  /\ phase = "accepted" =>
       definition \in Definitions /\ DefinitionAccepted(definition) /\ chain = << >>
  /\ phase \in {"launched", "launch_failed"} =>
       /\ definition \in Definitions /\ DefinitionAccepted(definition)
       /\ Path(definition, chain)
       /\ Builds(definition, Last(chain)) <=> phase = "launched"

\* Below an Agent four levels down there is none.
LEMMA Depth ==
  ASSUME NEW d, GraphIsFinite(d), NEW names, Path(d, names), Len(names) > MaxLevels
  PROVE  ChildrenOf(d, Last(names)) = {}
<1> DEFINE root == names[1]
           n == MaxLevels + 1
           level == CHOOSE f : f = [k \in 0..n |-> IF k = 0 THEN {root}
                                     ELSE UNION {ChildrenOf(d, x) : x \in f[k - 1]}]
           l1 == ChildrenOf(d, root)
           l2 == UNION {ChildrenOf(d, x) : x \in l1}
           l3 == UNION {ChildrenOf(d, x) : x \in l2}
           l4 == UNION {ChildrenOf(d, x) : x \in l3}
           f0 == [k \in 0..n |-> IF k = 0 THEN {root} ELSE IF k = 1 THEN l1
                                 ELSE IF k = 2 THEN l2 ELSE IF k = 3 THEN l3 ELSE l4]
<1>1. Len(names) = 4 /\ n = 4 /\ \A i \in 1..4 : names[i] \in DOMAIN d.profiles
  BY DEF Path, MaxLevels
<1>2. LevelBelow(d, root, n) = {}
  BY <1>1 DEF GraphIsFinite
<1>3. LevelBelow(d, root, n) = level[n]
  BY DEF LevelBelow
<1>4. UNION {ChildrenOf(d, x) : x \in {root}} = l1
  OBVIOUS
<1>5. f0 = [k \in 0..n |-> IF k = 0 THEN {root} ELSE UNION {ChildrenOf(d, x) : x \in f0[k - 1]}]
  <2>1. f0[0] = {root} /\ f0[1] = l1 /\ f0[2] = l2 /\ f0[3] = l3 /\ f0[4] = l4
    BY <1>1
  <2>2. ASSUME NEW k \in 0..n
        PROVE  f0[k] = IF k = 0 THEN {root} ELSE UNION {ChildrenOf(d, x) : x \in f0[k - 1]}
    <3>1. k = 0 \/ k = 1 \/ k = 2 \/ k = 3 \/ k = 4
      BY <1>1
    <3> HIDE DEF f0, l1
    <3>2. CASE k = 0
      BY <2>1, <3>2
    <3>3. CASE k = 1
      <4>1. f0[k - 1] = {root}
        BY <2>1, <3>3
      <4> QED BY <1>4, <2>1, <3>3, <4>1
    <3>4. CASE k = 2
      <4>1. f0[k - 1] = l1
        BY <2>1, <3>4
      <4> QED BY <2>1, <3>4, <4>1
    <3>5. CASE k = 3
      <4>1. f0[k - 1] = l2
        BY <2>1, <3>5
      <4> HIDE DEF l2
      <4> QED BY <2>1, <3>5, <4>1 DEF l3
    <3>6. CASE k = 4
      <4>1. f0[k - 1] = l3
        BY <2>1, <3>6
      <4> HIDE DEF l3
      <4> QED BY <2>1, <3>6, <4>1 DEF l4
    <3> QED BY <3>1, <3>2, <3>3, <3>4, <3>5, <3>6
  <2>3. f0 = [k \in 0..n |-> f0[k]]
    OBVIOUS
  <2> HIDE DEF f0
  <2> QED BY <2>2, <2>3, Zenon
<1>6. level = [k \in 0..n |-> IF k = 0 THEN {root} ELSE UNION {ChildrenOf(d, x) : x \in level[k - 1]}]
  <2>1. \E f : f = [k \in 0..n |-> IF k = 0 THEN {root} ELSE UNION {ChildrenOf(d, x) : x \in f[k - 1]}]
    BY <1>5
  <2> QED BY <2>1, Zenon
<1> HIDE DEF level, f0, root
<1>7. /\ level[1] = UNION {ChildrenOf(d, x) : x \in level[0]}
      /\ level[2] = UNION {ChildrenOf(d, x) : x \in level[1]}
      /\ level[3] = UNION {ChildrenOf(d, x) : x \in level[2]}
      /\ level[4] = UNION {ChildrenOf(d, x) : x \in level[3]}
      /\ level[0] = {root}
  BY <1>1, <1>6
<1>8. /\ names[2] \in ChildrenOf(d, names[1])
      /\ names[3] \in ChildrenOf(d, names[2])
      /\ names[4] \in ChildrenOf(d, names[3])
  <2>1. /\ 2 \in 2..Len(names) /\ 3 \in 2..Len(names) /\ 4 \in 2..Len(names)
        /\ 2 - 1 = 1 /\ 3 - 1 = 2 /\ 4 - 1 = 3
    BY <1>1
  <2>2. \A i \in 2..Len(names) : names[i] \in ChildrenOf(d, names[i - 1])
    BY DEF Path
  <2> QED BY <2>1, <2>2
<1>9. names[2] \in level[1]
  BY <1>7, <1>8 DEF root
<1>10. names[3] \in level[2]
  BY <1>7, <1>8, <1>9
<1>11. names[4] \in level[3]
  BY <1>7, <1>8, <1>10
<1>12. ChildrenOf(d, names[4]) \subseteq level[4]
  BY <1>7, <1>11
<1> QED BY <1>1, <1>2, <1>3, <1>12 DEF Last

\* What LaunchesAreAuthorized says follows for every accepted definition.
LEMMA LaunchSuffices == LaunchInv => LaunchesAreAuthorized
<1> SUFFICES ASSUME LaunchInv PROVE LaunchesAreAuthorized
  OBVIOUS
<1> DEFINE d == definition
           name == Last(chain)
           p == d.profiles[name]
<1>0. SUFFICES ASSUME phase \in {"launched", "launch_failed"} PROVE LaunchesAreAuthorized
  BY DEF LaunchesAreAuthorized
<1>1. /\ d \in Definitions /\ DefinitionAccepted(d) /\ Path(d, chain)
      /\ Builds(d, name) <=> phase = "launched"
  BY <1>0 DEF LaunchInv
<1>2. name \in DOMAIN d.profiles
  BY <1>1 DEF Path, Last
<1> HIDE DEF d, name
<1>3. ProfileAccepted(d, p)
  BY <1>1, <1>2 DEF DefinitionAccepted
<1>4. p.skills \in Seq(DOMAIN Describing) /\ p.children \in Seq(DOMAIN Describing)
  BY <1>1, <1>2, DefinitionsAssumption DEF DefinitionsAssumption
<1>5. ASSUME ~Builds(d, name)
      PROVE  \/ \E tool \in DOMAIN d.factories : d.factories[tool] # tool
             \/ ~Defined(d, "skill.read")
  <2>1. PICK tool \in EffectiveTools(p) :
          ~Defined(d, tool) \/ ~(tool \in OwnBindings(p) \/ d.factories[tool] = tool)
    BY <1>5 DEF Builds
  <2>2. CASE tool \in p.tools
    <3>1. Defined(d, tool) /\ tool \in DOMAIN d.factories \cup HarnessOwned
      BY <1>3, <2>2 DEF ProfileAccepted, ToolsAccepted
    <3>2. ~(tool \in OwnBindings(p) \/ d.factories[tool] = tool)
      BY <2>1, <3>1
    <3>3. tool \notin HarnessOwned
      BY <1>3, <2>2, <3>2
         DEF ProfileAccepted, ToolsAccepted, HarnessOwned, OwnBindings, PlanTools
    <3> QED BY <3>1, <3>2, <3>3
  <2>3. CASE tool \notin p.tools
    <3>1. p.skills # << >> /\ tool = "skill.read"
      BY <2>1, <2>3 DEF EffectiveTools
    <3> QED BY <2>1, <3>1 DEF OwnBindings
  <2> QED BY <2>2, <2>3
<1>6. ASSUME phase = "launched", Len(chain) > MaxLevels PROVE p.children = << >>
  <2>1. ChildrenOf(d, name) = {}
    BY <1>1, <1>6, Depth DEF DefinitionAccepted, name
  <2>2. ToSet(p.children) = {}
    BY <2>1 DEF ChildrenOf
  <2>3. \A i \in DOMAIN p.children : FALSE
    BY <2>2 DEF ToSet
  <2> DEFINE names == p.children
  <2>4. names \in Seq(DOMAIN Describing) /\ \A i \in DOMAIN names : FALSE
    BY <1>4, <2>3
  <2> HIDE DEF names
  <2>5. DOMAIN names = 1..Len(names) /\ Len(names) \in Nat
    BY <2>4
  <2>6. Len(names) = 0
    <3>1. 1 \notin 1..Len(names)
      BY <2>4, <2>5
    <3> QED BY <2>5, <3>1
  <2>7. names = << >>
    BY <2>4, <2>6
  <2> QED BY <2>7 DEF names
<1>7. ASSUME phase = "launched", NEW skill \in ToSet(p.skills)
      PROVE  /\ Skill(d, skill).risk # "high"
             /\ Skill(d, skill).tools \subseteq EffectiveTools(p)
             /\ Skill(d, skill).sources \subseteq p.sources
             /\ skill \in Installed(d) => Skill(d, skill).references \subseteq Readable(d, p)
  <2>1. SkillsAccepted(d, p)
    BY <1>3 DEF ProfileAccepted
  <2>2. /\ Skill(d, skill).risk # "high" /\ Skill(d, skill).sources \subseteq p.sources
        /\ Skill(d, skill).tools \subseteq p.tools
    BY <1>7, <2>1 DEF SkillsAccepted
  <2>3. ASSUME skill \in Installed(d) PROVE Skill(d, skill).references \subseteq Readable(d, p)
    <3> DEFINE dir == CHOOSE x \in d.installed : x.name = skill
    <3>1. Catalogued(d)
      BY <1>1 DEF DefinitionAccepted
    <3>2. skill \notin DOMAIN d.supplied
      BY <2>3, <3>1 DEF Catalogued
    <3>3. dir \in d.installed /\ Loads(dir)
      BY <2>3, <3>1 DEF Catalogued, Installed
    <3>4. Skill(d, skill) = SkillOf(dir)
      BY <3>2 DEF Skill
    <3> HIDE DEF dir
    <3>5. CASE dir.links # << >>
      <4>1. "file.read" \in EffectiveTools(p)
        BY <2>2, <3>3, <3>4, <3>5 DEF Loads, SkillOf, EffectiveTools
      <4> QED BY <1>7, <4>1 DEF Readable
    <3>6. CASE dir.links = << >>
      <4>1. ToSet(dir.links) = {}
        BY <3>6 DEF ToSet
      <4> QED BY <3>3, <3>4, <4>1 DEF Loads, SkillOf
    <3> QED BY <3>5, <3>6
  <2> QED BY <2>2, <2>3 DEF EffectiveTools
<1>8. /\ \A child \in ToSet(p.children) : d.profiles[child].described
      /\ p.sources \subseteq d.sources
  BY <1>3 DEF ProfileAccepted
<1>9. EffectiveTools(p) \cap d.builtIn \cap d.external = {}
  BY <1>1 DEF DefinitionAccepted
<1> QED
  BY <1>0, <1>1, <1>5, <1>6, <1>7, <1>8, <1>9 DEF LaunchesAreAuthorized, d, name

LEMMA LaunchInit == Init => LaunchInv
BY DEF Init, LaunchInv

\* Building one more Agent below the last one.
LEMMA PathGrows ==
  ASSUME NEW d, DefinitionAccepted(d), NEW name,
         NEW names, \/ names = << >> /\ name \in d.systems
                    \/ /\ Path(d, names) /\ Len(names) <= MaxLevels
                       /\ name \in ChildrenOf(d, Last(names))
  PROVE  Path(d, Append(names, name)) /\ Last(Append(names, name)) = name
<1>1. CASE names = << >> /\ name \in d.systems
  <2> DEFINE one == Append(names, name)
             D == DOMAIN d.profiles
  <2>1. name \in D
    BY <1>1 DEF DefinitionAccepted
  <2>2. one \in Seq(D) /\ Len(one) = 1 /\ one[1] = name
    <3> HIDE DEF D
    <3>1. one = Append(<< >>, name)
      BY <1>1
    <3> QED BY <2>1, <3>1
  <2> HIDE DEF one
  <2>3. 2..1 = {}
    OBVIOUS
  <2>4. Path(d, one) /\ Last(one) = name
    BY <2>2, <2>3 DEF Path, MaxLevels, Last
  <2> QED BY <2>4 DEF one
<1>2. CASE /\ Path(d, names) /\ Len(names) <= MaxLevels
           /\ name \in ChildrenOf(d, Last(names))
  <2> DEFINE D == DOMAIN d.profiles
             longer == Append(names, name)
  <2>1. names \in Seq(D) /\ Len(names) \in Nat \ {0}
    BY <1>2 DEF Path
  <2>2. names[Len(names)] \in D
    BY <2>1
  <2>3. name \in D
    BY <1>2, <2>2 DEF DefinitionAccepted, GraphIsFinite, Last
  <2>4. /\ longer \in Seq(D) /\ Len(longer) = Len(names) + 1 /\ longer[Len(names) + 1] = name
        /\ \A i \in 1..Len(names) : longer[i] = names[i]
    BY <2>1, <2>3
  <2>5. ASSUME NEW i \in 2..Len(longer) PROVE longer[i] \in ChildrenOf(d, longer[i - 1])
    <3>1. CASE i = Len(longer)
      <4>1. i - 1 \in 1..Len(names) /\ i - 1 = Len(names) /\ i = Len(names) + 1
        BY <2>1, <2>4, <3>1
      <4>2. longer[i] = name /\ longer[i - 1] = names[Len(names)]
        BY <2>4, <4>1
      <4> HIDE DEF longer
      <4> QED BY <1>2, <4>2 DEF Last
    <3>2. CASE i # Len(longer)
      <4>1. i \in 2..Len(names) /\ i \in 1..Len(names) /\ i - 1 \in 1..Len(names)
        BY <2>1, <2>4, <3>2
      <4>2. longer[i] = names[i] /\ longer[i - 1] = names[i - 1]
        BY <2>4, <4>1
      <4>3. names[i] \in ChildrenOf(d, names[i - 1])
        BY <1>2, <4>1 DEF Path
      <4> HIDE DEF longer
      <4> QED BY <4>2, <4>3
    <3> QED BY <3>1, <3>2
  <2> HIDE DEF longer
  <2>6. Len(longer) \in 1..(MaxLevels + 1)
    BY <1>2, <2>1, <2>4 DEF MaxLevels
  <2>7. Last(longer) = name
    BY <2>4 DEF Last
  <2>8. Path(d, longer)
    BY <2>4, <2>5, <2>6 DEF Path
  <2> QED BY <2>7, <2>8 DEF longer
<1> QED BY <1>1, <1>2

\* Every step keeps LaunchInv: only the launch builds Agents, and after it the
\* Agent never returns to it.
LEMMA LaunchStep == LaunchInv /\ [Next]_vars => LaunchInv'
<1> SUFFICES ASSUME LaunchInv, [Next]_vars PROVE LaunchInv'
  OBVIOUS
<1> DEFINE Launching == {"configured", "accepted", "launched", "launch_failed"}
<1>1. ASSUME phase' \notin Launching PROVE LaunchInv'
  BY <1>1 DEF LaunchInv
<1>2. ASSUME UNCHANGED <<definition, chain, phase>> PROVE LaunchInv'
  BY <1>2 DEF LaunchInv
<1>3. ASSUME NEW name, Build(name), DefinitionAccepted(definition), definition \in Definitions,
             \/ chain = << >> /\ name \in definition.systems
             \/ /\ Path(definition, chain) /\ Len(chain) <= MaxLevels
                /\ name \in ChildrenOf(definition, Last(chain))
      PROVE  LaunchInv'
  <2>1. Path(definition, Append(chain, name)) /\ Last(Append(chain, name)) = name
    BY <1>3, PathGrows
  <2>2. definition' = definition /\ chain' = Append(chain, name)
    BY <1>3 DEF Build
  <2>3. phase' = IF Builds(definition, name) THEN "launched" ELSE "launch_failed"
    BY <1>3 DEF Build
  <2> QED BY <1>3, <2>1, <2>2, <2>3 DEF LaunchInv
<1>4. CASE Configure
  <2>1. phase = "configured" /\ definition' = definition /\ chain' = chain
    BY <1>4 DEF Configure, End, environment, launch
  <2>2. phase' = IF DefinitionAccepted(definition) THEN "accepted" ELSE "refused"
    BY <1>4 DEF Configure, End
  <2> QED BY <2>1, <2>2 DEF LaunchInv
<1>5. CASE StartRoot
  <2>1. PICK name \in definition.systems : phase = "accepted" /\ Build(name)
    BY <1>5 DEF StartRoot
  <2> QED BY <1>3, <2>1 DEF LaunchInv
<1>6. CASE StartChild
  <2>1. PICK name \in ChildrenOf(definition, Last(chain)) :
          phase = "launched" /\ Len(chain) <= MaxLevels /\ Build(name)
    BY <1>6 DEF StartChild
  <2> QED BY <1>3, <2>1 DEF LaunchInv
<1>7. CASE \E w \in Windows : StartSession(w)
  BY <1>1, <1>7 DEF StartSession
<1>8. CASE \E n \in TaskSizes : Prepare(n)
  BY <1>1, <1>8 DEF Prepare, End
<1>9. CASE AskForSummary
  BY <1>1, <1>9 DEF AskForSummary
<1>10. CASE Ask
  BY <1>1, <1>10 DEF Ask
<1>11. CASE Outage
  BY <1>1, <1>11 DEF Outage, End
<1>12. CASE Cancel
  BY <1>2, <1>12 DEF Cancel, launch
<1>13. CASE \E n \in SummarySizes, cost \in Charges : Summarized(n, cost)
  <2>1. PICK n \in SummarySizes, cost \in Charges : Summarized(n, cost)
    BY <1>13
  <2>2. phase = "compacting" /\ (phase' = phase \/ phase' \notin Launching)
    BY <2>1 DEF Summarized, End
  <2> QED BY <1>1, <2>2
<1>14. CASE \E n \in TextSizes, cost \in Charges : Mixed(n, cost) \/ Invalid(n, cost)
  BY <1>1, <1>14 DEF Mixed, Invalid, GoOn
<1>15. CASE \E cost \in Charges : Refuse(cost) \/ Final(cost) \/ CallTool(cost) \/ OtherCharge(cost)
  <2>1. PICK cost \in Charges : Refuse(cost) \/ Final(cost) \/ CallTool(cost) \/ OtherCharge(cost)
    BY <1>15
  <2>2. CASE Refuse(cost)
    BY <1>1, <2>2 DEF Refuse, End
  <2>3. CASE Final(cost)
    BY <1>1, <2>3 DEF Final, End
  <2>4. CASE CallTool(cost)
    BY <1>1, <2>4 DEF CallTool
  <2>5. CASE OtherCharge(cost)
    BY <1>2, <2>5 DEF OtherCharge, environment, launch
  <2> QED BY <2>1, <2>2, <2>3, <2>4, <2>5
<1>16. CASE \E n \in TextSizes, b \in BOOLEAN : ToolResult(n, b)
  BY <1>1, <1>16 DEF ToolResult
<1>17. CASE \E n \in SourceSizes : SourceChanges(n)
  BY <1>2, <1>17 DEF SourceChanges, launch
<1>18. CASE UNCHANGED vars
  BY <1>2, <1>18 DEF vars, environment, launch
<1> QED
  BY <1>4, <1>5, <1>6, <1>7, <1>8, <1>9, <1>10, <1>11, <1>12, <1>13, <1>14, <1>15, <1>16, <1>17,
     <1>18 DEF Next

\* What is accepted at startup can be launched, and a launched Agent may only do
\* what its definition authorizes (AgentRuntimeResolver, the Skill loader,
\* start_child), for every definition.
THEOREM LaunchesAuthorized == Spec => []LaunchesAreAuthorized
<1>1. Init => LaunchInv
  BY LaunchInit
<1>2. LaunchInv /\ [Next]_vars => LaunchInv'
  BY LaunchStep
<1>3. LaunchInv => LaunchesAreAuthorized
  BY LaunchSuffices
<1> QED BY <1>1, <1>2, <1>3, PTL DEF Spec

\* A set of numbers has a smallest one (Min of the library).
LEMMA MinOf == ASSUME NEW s \in SUBSET Nat, s # {} PROVE Min(s) \in s
<1>1. \E x \in s : \A y \in s : x <= y
  <2> DEFINE S == {k \in Nat : \A y \in s : y > k} \cup {k \in Nat : \E x \in s : \A y \in s : x <= y}
  <2>1. SUFFICES ASSUME ~\E x \in s : \A y \in s : x <= y PROVE FALSE
    OBVIOUS
  <2>2. 0 \in S
    BY <2>1
  <2>3. \A k \in Nat : k \in S => k + 1 \in S
    <3>1. ASSUME NEW k \in Nat, k \in S PROVE k + 1 \in S
      <4>1. \A y \in s : y >= k + 1
        BY <2>1, <3>1
      <4>2. k + 1 \notin s
        BY <2>1, <4>1
      <4>3. \A y \in s : y > k + 1
        BY <4>1, <4>2
      <4> QED BY <4>3
    <3> QED BY <3>1
  <2>4. S = {k \in Nat : \A y \in s : y > k}
    BY <2>1
  <2> HIDE DEF S
  <2>5. Nat \subseteq S
    BY <2>2, <2>3, SetInduction
  <2>6. PICK x \in s : TRUE
    OBVIOUS
  <2> QED BY <2>4, <2>5, <2>6
<1> QED BY <1>1 DEF Min

\* Flattening groups of messages, one after the other.
Groups == Seq(Seq(SomeMessages))

LEMMA FlattenSteps ==
  ASSUME NEW gs \in Groups
  PROVE  \E h \in [0..Len(gs) -> Seq(SomeMessages)] :
           /\ h[0] = << >> /\ h[Len(gs)] = FlattenSeq(gs)
           /\ \A k \in 1..Len(gs) : h[k] = h[k - 1] \o gs[k]
<1> DEFINE n == Len(gs)
           X == Seq(SomeMessages)
           step == [p \in X \X (1..n) |-> p[1] \o gs[p[2]]]
<1>1. n \in Nat /\ DOMAIN gs = 1..n /\ \A k \in 1..n : gs[k] \in X
  BY DEF Groups
<1>2. step \in [X \X (1..n) -> X]
  BY <1>1
<1>3. PICK h \in [0..n -> X] : h[0] = << >> /\ \A k \in 1..n : h[k] = step[<<h[k - 1], k>>]
  <2>1. << >> \in X
    OBVIOUS
  <2> HIDE DEF n, step, X
  <2>2. n \in Nat /\ IsStep(n, X, << >>, step)
    BY <1>1, <1>2, <2>1 DEF IsStep
  <2>3. IsLine(n, X, << >>, step)
    BY <2>2, LineExists
  <2> QED BY <2>3 DEF IsLine
<1>4. ASSUME NEW k \in 1..n PROVE h[k] = h[k - 1] \o gs[k]
  <2>1. k - 1 \in 0..n
    BY <1>1
  <2>2. h[k - 1] \in X
    BY <1>3, <2>1
  <2>3. <<h[k - 1], k>> \in X \X (1..n)
    BY <2>2
  <2> QED BY <1>3, <2>3
<1>5. h[n] = FlattenSeq(gs)
  <2>1. CASE n = 0
    <3>1. gs = << >>
      BY <1>1, <2>1
    <3> QED BY <1>3, <2>1, <3>1 DEF FlattenSeq
  <2>2. CASE n # 0
    <3> DEFINE flat == CHOOSE f : f = [i \in 1..n |-> IF i = 1 THEN gs[i] ELSE f[i - 1] \o gs[i]]
               f0 == [i \in 1..n |-> h[i]]
    <3>1. FlattenSeq(gs) = flat[n]
      BY <2>2 DEF FlattenSeq
    <3>2. \A i \in 1..n : f0[i] = IF i = 1 THEN gs[i] ELSE f0[i - 1] \o gs[i]
      <4>1. ASSUME NEW i \in 1..n PROVE f0[i] = IF i = 1 THEN gs[i] ELSE f0[i - 1] \o gs[i]
        <5>1. CASE i = 1
          <6>0. h[i] = h[i - 1] \o gs[i]
            BY <1>4
          <6>4. i - 1 = 0
            BY <5>1
          <6>1. h[i] = << >> \o gs[i]
            BY <1>3, <6>0, <6>4
          <6>2. gs[i] \in X
            BY <1>1
          <6>3. << >> \o gs[i] = gs[i]
            BY <6>2
          <6> QED BY <5>1, <6>1, <6>3
        <5>2. CASE i # 1
          <6>1. i - 1 \in 1..n
            BY <1>1, <5>2
          <6>2. f0[i - 1] = h[i - 1] /\ f0[i] = h[i]
            BY <6>1
          <6> HIDE DEF f0
          <6> QED BY <1>4, <5>2, <6>2
        <5> QED BY <5>1, <5>2
      <4> QED BY <4>1
    <3>3. f0 = [i \in 1..n |-> f0[i]] /\ f0[n] = h[n]
      BY <1>1, <2>2
    <3> HIDE DEF f0
    <3>4. f0 = [i \in 1..n |-> IF i = 1 THEN gs[i] ELSE f0[i - 1] \o gs[i]]
      BY <3>2, <3>3, Zenon
    <3>5. \E f : f = [i \in 1..n |-> IF i = 1 THEN gs[i] ELSE f[i - 1] \o gs[i]]
      BY <3>4
    <3>6. flat = [i \in 1..n |-> IF i = 1 THEN gs[i] ELSE flat[i - 1] \o gs[i]]
      BY <3>5, Zenon
    <3> HIDE DEF flat
    <3> DEFINE S == {k \in 0..n : k = 0 \/ flat[k] = f0[k]}
    <3>7. 0 \in S
      BY <1>1
    <3>8. ASSUME NEW k \in 0..(n - 1), k \in S PROVE k + 1 \in S
      <4>1. k + 1 \in 1..n /\ (k + 1) - 1 = k /\ k + 1 \in 0..n
        BY <1>1
      <4>2. flat[k + 1] = IF k + 1 = 1 THEN gs[k + 1] ELSE flat[k] \o gs[k + 1]
        BY <3>6, <4>1
      <4>3. f0[k + 1] = IF k + 1 = 1 THEN gs[k + 1] ELSE f0[k] \o gs[k + 1]
        BY <3>2, <4>1
      <4>4. k = 0 \/ flat[k] = f0[k]
        BY <3>8
      <4>5. flat[k + 1] = f0[k + 1]
        BY <4>2, <4>3, <4>4
      <4> QED BY <4>1, <4>5
    <3> HIDE DEF S
    <3>9. 0..n \subseteq S
      <4> HIDE DEF n
      <4> QED BY <1>1, <3>7, <3>8, IntervalInduction
    <3>10. flat[n] = f0[n]
      <4>1. n \in 0..n
        BY <1>1
      <4> QED BY <2>2, <3>9, <4>1 DEF S
    <3> QED BY <3>1, <3>3, <3>10
  <2> QED BY <2>1, <2>2
<1> QED BY <1>3, <1>4, <1>5

\* A message is one of a history.
Has(ms, m) == \E j \in DOMAIN ms : ms[j] = m

LEMMA ConcatParts ==
  ASSUME NEW a \in Seq(SomeMessages), NEW b \in Seq(SomeMessages)
  PROVE  /\ a \o b \in Seq(SomeMessages) /\ Len(a \o b) = Len(a) + Len(b)
         /\ Len(a) \in Nat /\ Len(b) \in Nat
         /\ DOMAIN a = 1..Len(a) /\ DOMAIN b = 1..Len(b) /\ DOMAIN (a \o b) = 1..(Len(a) + Len(b))
         /\ \A i \in 1..Len(a) : (a \o b)[i] = a[i]
         /\ \A i \in 1..Len(b) : (a \o b)[Len(a) + i] = b[i]
OBVIOUS

LEMMA HasConcat ==
  ASSUME NEW a \in Seq(SomeMessages), NEW b \in Seq(SomeMessages), NEW m
  PROVE  Has(a \o b, m) <=> Has(a, m) \/ Has(b, m)
<1> DEFINE c == a \o b
<1>1. /\ Len(c) = Len(a) + Len(b) /\ Len(a) \in Nat /\ Len(b) \in Nat
      /\ DOMAIN a = 1..Len(a) /\ DOMAIN b = 1..Len(b) /\ DOMAIN c = 1..(Len(a) + Len(b))
      /\ \A i \in 1..Len(a) : c[i] = a[i]
      /\ \A i \in 1..Len(b) : c[Len(a) + i] = b[i]
  BY ConcatParts
<1> HIDE DEF c
<1>2. ASSUME Has(c, m) PROVE Has(a, m) \/ Has(b, m)
  <2>1. PICK j \in DOMAIN c : c[j] = m
    BY <1>2 DEF Has
  <2>2. CASE j \in 1..Len(a)
    BY <1>1, <2>1, <2>2 DEF Has
  <2>3. CASE j \notin 1..Len(a)
    <3>1. j - Len(a) \in 1..Len(b) /\ Len(a) + (j - Len(a)) = j
      BY <1>1, <2>1, <2>3
    <3>2. b[j - Len(a)] = m
      BY <1>1, <2>1, <3>1
    <3> QED BY <1>1, <3>1, <3>2 DEF Has
  <2> QED BY <2>2, <2>3
<1>3. ASSUME Has(a, m) PROVE Has(c, m)
  <2>1. PICK j \in 1..Len(a) : a[j] = m
    BY <1>1, <1>3 DEF Has
  <2>2. j \in DOMAIN c /\ c[j] = m
    BY <1>1, <2>1
  <2> QED BY <2>2 DEF Has
<1>4. ASSUME Has(b, m) PROVE Has(c, m)
  <2>1. PICK j \in 1..Len(b) : b[j] = m
    BY <1>1, <1>4 DEF Has
  <2>2. Len(a) + j \in DOMAIN c /\ c[Len(a) + j] = m
    BY <1>1, <2>1
  <2> QED BY <2>2 DEF Has
<1> QED BY <1>2, <1>3, <1>4 DEF c

\* Calls stay with their results when histories are put together.
LEMMA PairedConcat ==
  ASSUME NEW a \in Seq(SomeMessages), NEW b \in Seq(SomeMessages), Paired(a), Paired(b)
  PROVE  Paired(a \o b)
<1> DEFINE c == a \o b
<1>1. /\ Len(c) = Len(a) + Len(b) /\ Len(a) \in Nat /\ Len(b) \in Nat
      /\ DOMAIN a = 1..Len(a) /\ DOMAIN b = 1..Len(b) /\ DOMAIN c = 1..(Len(a) + Len(b))
      /\ \A i \in 1..Len(a) : c[i] = a[i]
      /\ \A i \in 1..Len(b) : c[Len(a) + i] = b[i]
  BY ConcatParts
<1> HIDE DEF c
<1>2. ASSUME NEW i \in 1..Len(c)
      PROVE  /\ c[i].role = "tool" =>
                  i > 1 /\ c[i - 1].role = "assistant" /\ c[i - 1].call = c[i].call
             /\ c[i].role = "assistant" /\ c[i].call # NoCall =>
                  i < Len(c) /\ c[i + 1].role = "tool" /\ c[i + 1].call = c[i].call
  <2>1. CASE i \in 1..Len(a)
    <3>1. /\ a[i].role = "tool" =>
               i > 1 /\ a[i - 1].role = "assistant" /\ a[i - 1].call = a[i].call
          /\ a[i].role = "assistant" /\ a[i].call # NoCall =>
               i < Len(a) /\ a[i + 1].role = "tool" /\ a[i + 1].call = a[i].call
      BY <1>1, <2>1 DEF Paired
    <3>2. /\ c[i] = a[i]
          /\ i > 1 => c[i - 1] = a[i - 1]
          /\ i < Len(a) => c[i + 1] = a[i + 1]
      BY <1>1, <2>1
    <3> QED BY <1>1, <2>1, <3>1, <3>2
  <2>2. CASE i \notin 1..Len(a)
    <3> DEFINE j == i - Len(a)
    <3>0. j \in 1..Len(b) /\ i = Len(a) + j /\ j \in Nat /\ i \in Nat
      BY <1>1, <2>2
    <3> HIDE DEF j
    <3>1. /\ b[j].role = "tool" =>
               j > 1 /\ b[j - 1].role = "assistant" /\ b[j - 1].call = b[j].call
          /\ b[j].role = "assistant" /\ b[j].call # NoCall =>
               j < Len(b) /\ b[j + 1].role = "tool" /\ b[j + 1].call = b[j].call
      BY <1>1, <3>0 DEF Paired
    <3>2. c[i] = b[j]
      BY <1>1, <3>0
    <3>3. ASSUME j > 1 PROVE i > 1 /\ c[i - 1] = b[j - 1]
      <4>1. j - 1 \in 1..Len(b) /\ i - 1 = Len(a) + (j - 1) /\ i > 1
        BY <1>1, <3>0, <3>3
      <4> QED BY <1>1, <4>1
    <3>4. ASSUME j < Len(b) PROVE i < Len(c) /\ c[i + 1] = b[j + 1]
      <4>1. j + 1 \in 1..Len(b) /\ i + 1 = Len(a) + (j + 1) /\ i < Len(c)
        BY <1>1, <3>0, <3>4
      <4> QED BY <1>1, <4>1
    <3> QED BY <3>1, <3>2, <3>3, <3>4
  <2> QED BY <2>1, <2>2
<1>3. DOMAIN c = 1..Len(c)
  BY <1>1
<1> QED BY <1>2, <1>3 DEF Paired, c

\* Flattened groups have the messages of the groups, paired when each group is.
LEMMA FlattenParts ==
  ASSUME NEW gs \in Groups
  PROVE  /\ FlattenSeq(gs) \in Seq(SomeMessages)
         /\ \A m : Has(FlattenSeq(gs), m) <=> \E g \in DOMAIN gs : Has(gs[g], m)
         /\ (\A g \in DOMAIN gs : Paired(gs[g])) => Paired(FlattenSeq(gs))
<1> DEFINE n == Len(gs)
<1>1. n \in Nat /\ DOMAIN gs = 1..n /\ \A g \in 1..n : gs[g] \in Seq(SomeMessages)
  BY DEF Groups
<1>2. PICK h \in [0..n -> Seq(SomeMessages)] :
        /\ h[0] = << >> /\ h[n] = FlattenSeq(gs)
        /\ \A k \in 1..n : h[k] = h[k - 1] \o gs[k]
  BY FlattenSteps
<1> HIDE DEF n
<1>3. \A k \in 0..n : h[k] \in Seq(SomeMessages)
  BY <1>2
<1>4. ASSUME NEW k \in 0..(n - 1)
      PROVE  /\ k + 1 \in 1..n /\ k \in 0..n /\ k + 1 \in 0..n
             /\ h[k + 1] = h[k] \o gs[k + 1]
             /\ h[k] \in Seq(SomeMessages) /\ gs[k + 1] \in Seq(SomeMessages)
  <2>1. k + 1 \in 1..n /\ k \in 0..n /\ k + 1 \in 0..n /\ (k + 1) - 1 = k
    BY <1>1
  <2>2. h[k + 1] = h[(k + 1) - 1] \o gs[k + 1]
    BY <1>2, <2>1
  <2> QED BY <1>1, <1>3, <2>1, <2>2
<1>5. n \in 0..n /\ 0 \in 0..n
  BY <1>1
<1>6. ASSUME NEW m PROVE Has(FlattenSeq(gs), m) <=> \E g \in DOMAIN gs : Has(gs[g], m)
  <2> DEFINE S == {k \in 0..n : Has(h[k], m) <=> \E g \in 1..k : Has(gs[g], m)}
  <2>1. 0 \in S
    <3>1. ~Has(h[0], m)
      BY <1>2 DEF Has
    <3>2. 1..0 = {}
      OBVIOUS
    <3> QED BY <1>5, <3>1, <3>2
  <2>2. ASSUME NEW k \in 0..(n - 1), k \in S PROVE k + 1 \in S
    <3>1. Has(h[k + 1], m) <=> Has(h[k], m) \/ Has(gs[k + 1], m)
      <4> DEFINE a == h[k]
                 b == gs[k + 1]
      <4>1. a \in Seq(SomeMessages) /\ b \in Seq(SomeMessages) /\ h[k + 1] = a \o b
        BY <1>4
      <4> HIDE DEF a, b
      <4>2. Has(a \o b, m) <=> Has(a, m) \/ Has(b, m)
        BY <4>1, HasConcat
      <4>3. Has(h[k + 1], m) <=> Has(a, m) \/ Has(b, m)
        BY <4>1, <4>2
      <4> QED BY <4>3 DEF a, b
    <3>2. 1..(k + 1) = (1..k) \cup {k + 1}
      OBVIOUS
    <3>3. Has(h[k], m) <=> \E g \in 1..k : Has(gs[g], m)
      BY <2>2
    <3>4. Has(h[k + 1], m) <=> \E g \in 1..(k + 1) : Has(gs[g], m)
      BY <3>1, <3>2, <3>3
    <3> QED BY <1>4, <3>4
  <2> HIDE DEF S
  <2>3. 0..n \subseteq S
    BY <1>1, <2>1, <2>2, IntervalInduction
  <2> QED BY <1>1, <1>2, <1>5, <2>3 DEF S
<1>7. ASSUME \A g \in DOMAIN gs : Paired(gs[g]) PROVE Paired(FlattenSeq(gs))
  <2> DEFINE S == {k \in 0..n : Paired(h[k])}
  <2>1. 0 \in S
    BY <1>2, <1>5 DEF Paired
  <2>2. ASSUME NEW k \in 0..(n - 1), k \in S PROVE k + 1 \in S
    <3>1. Paired(h[k]) /\ Paired(gs[k + 1])
      BY <1>1, <1>4, <1>7, <2>2
    <3>2. Paired(h[k + 1])
      BY <1>4, <3>1, PairedConcat
    <3> QED BY <1>4, <3>2
  <2> HIDE DEF S
  <2>3. 0..n \subseteq S
    BY <1>1, <2>1, <2>2, IntervalInduction
  <2> QED BY <1>2, <1>5, <2>3 DEF S
<1>8. FlattenSeq(gs) \in Seq(SomeMessages)
  BY <1>2, <1>3, <1>5
<1> QED BY <1>6, <1>7, <1>8

LEMMA CharsOfSome ==
  ASSUME NEW ms \in Seq(SomeMessages), ms # << >>
  PROVE  Chars(ms) >= Overhead /\ Overhead \in Nat
<1> DEFINE n == Len(ms)
<1>1. n \in Nat /\ n # 0 /\ ms[n] \in SomeMessages
  OBVIOUS
<1>2. ms[n].size \in Nat /\ Overhead \in Nat
  BY <1>1, ContextAssumption DEF SomeMessages, ContextAssumption
<1>3. PICK f \in [0..n -> Nat] : /\ f[0] = 0 /\ f[n] = Chars(ms)
        /\ \A k \in 1..n : f[k] = f[k - 1] + ms[k].size + Overhead
  BY CharsSteps
<1> HIDE DEF n
<1>4. n \in 1..n /\ n - 1 \in 0..n
  BY <1>1
<1>5. f[n - 1] \in Nat /\ f[n] = f[n - 1] + ms[n].size + Overhead
  BY <1>3, <1>4
<1> QED BY <1>2, <1>3, <1>5

\* The groups a projection keeps.
Kept(gs, sel) == [i \in DOMAIN gs |-> IF i \in sel THEN gs[i] ELSE << >>]

LEMMA KeptParts ==
  ASSUME NEW gs \in Groups, NEW sel \in SUBSET DOMAIN gs, \A g \in DOMAIN gs : gs[g] # << >>
  PROVE  /\ Kept(gs, sel) \in Groups
         /\ sel = DOMAIN gs => Kept(gs, sel) = gs
         /\ Chars(FlattenSeq(Kept(gs, sel)))
              + (IF sel = DOMAIN gs THEN 0 ELSE Overhead) <= Chars(FlattenSeq(gs))
<1> DEFINE n == Len(gs)
           ks == Kept(gs, sel)
<1>1. n \in Nat /\ DOMAIN gs = 1..n /\ \A g \in 1..n : gs[g] \in Seq(SomeMessages)
  BY DEF Groups
<1>2. ks \in Groups /\ Len(ks) = n /\ DOMAIN ks = 1..n
  <2>1. << >> \in Seq(SomeMessages)
    OBVIOUS
  <2>2. ks \in [1..n -> Seq(SomeMessages)]
    BY <1>1, <2>1 DEF Kept
  <2> HIDE DEF ks, n
  <2> QED BY <1>1, <2>2 DEF Groups
<1>3. \A i \in 1..n : ks[i] = IF i \in sel THEN gs[i] ELSE << >>
  BY <1>1 DEF Kept
<1>4. ASSUME sel = DOMAIN gs PROVE ks = gs
  <2>1. gs = [i \in 1..n |-> gs[i]] /\ ks = [i \in 1..n |-> gs[i]]
    BY <1>1, <1>4 DEF Kept, Groups
  <2> QED BY <2>1
<1> HIDE DEF ks
<1>5. PICK h \in [0..n -> Seq(SomeMessages)] :
        /\ h[0] = << >> /\ h[n] = FlattenSeq(gs)
        /\ \A k \in 1..n : h[k] = h[k - 1] \o gs[k]
  BY FlattenSteps
<1>6. PICK l \in [0..n -> Seq(SomeMessages)] :
        /\ l[0] = << >> /\ l[n] = FlattenSeq(ks)
        /\ \A k \in 1..n : l[k] = l[k - 1] \o ks[k]
  BY <1>2, FlattenSteps
<1> HIDE DEF n
<1>7. Overhead \in Nat /\ Chars(<< >>) = 0
  BY ContextAssumption, CharsOfOne DEF ContextAssumption
<1> DEFINE Lost(k) == IF 1..k \subseteq sel THEN 0 ELSE Overhead
           S == {k \in 0..n : Chars(l[k]) + Lost(k) <= Chars(h[k])}
<1>8. 0 \in S
  <2>1. 1..0 = {} /\ 0 \in 0..n
    BY <1>1
  <2> QED BY <1>5, <1>6, <1>7, <2>1
<1>9. ASSUME NEW k \in 0..(n - 1), k \in S PROVE k + 1 \in S
  <2>1. k + 1 \in 1..n /\ k \in 0..n /\ k + 1 \in 0..n /\ (k + 1) - 1 = k
    BY <1>1
  <2>2. h[k + 1] = h[k] \o gs[k + 1] /\ l[k + 1] = l[k] \o ks[k + 1]
    BY <1>5, <1>6, <2>1
  <2>3. /\ h[k] \in Seq(SomeMessages) /\ l[k] \in Seq(SomeMessages)
        /\ gs[k + 1] \in Seq(SomeMessages) /\ ks[k + 1] \in Seq(SomeMessages)
    <3>1. << >> \in Seq(SomeMessages)
      OBVIOUS
    <3> QED BY <1>1, <1>3, <1>5, <1>6, <2>1, <3>1
  <2>4. Chars(h[k + 1]) = Chars(h[k]) + Chars(gs[k + 1])
    BY <2>2, <2>3, CharsConcat
  <2>5. Chars(l[k + 1]) = Chars(l[k]) + Chars(ks[k + 1])
    BY <2>2, <2>3, CharsConcat
  <2>6. /\ Chars(h[k]) \in Nat /\ Chars(l[k]) \in Nat
        /\ Chars(gs[k + 1]) \in Nat /\ Chars(ks[k + 1]) \in Nat
    BY <2>3, CharsOfOne
  <2>7. Chars(gs[k + 1]) >= Overhead
    BY <1>1, <2>1, <2>3, CharsOfSome
  <2>8. 1..(k + 1) = (1..k) \cup {k + 1}
    OBVIOUS
  <2>9. Chars(l[k]) + Lost(k) <= Chars(h[k])
    BY <1>9
  <2>10. CASE k + 1 \in sel
    <3>1. ks[k + 1] = gs[k + 1] /\ Lost(k + 1) = Lost(k)
      BY <1>3, <2>1, <2>8, <2>10
    <3>2. Lost(k) \in Nat
      BY <1>7
    <3> HIDE DEF Lost
    <3>3. Chars(l[k + 1]) + Lost(k + 1) <= Chars(h[k + 1])
      BY <2>4, <2>5, <2>6, <2>9, <3>1, <3>2
    <3> QED BY <2>1, <3>3
  <2>11. CASE k + 1 \notin sel
    <3>1. ks[k + 1] = << >> /\ Lost(k + 1) = Overhead
      BY <1>3, <2>1, <2>8, <2>11
    <3>2. Lost(k) \in Nat
      BY <1>7
    <3> HIDE DEF Lost
    <3>3. Chars(l[k + 1]) + Lost(k + 1) <= Chars(h[k + 1])
      BY <1>7, <2>4, <2>5, <2>6, <2>7, <2>9, <3>1, <3>2
    <3> QED BY <2>1, <3>3
  <2> QED BY <2>10, <2>11
<1> HIDE DEF S
<1>10. 0..n \subseteq S
  BY <1>1, <1>8, <1>9, IntervalInduction
<1>11. Chars(FlattenSeq(ks)) + Lost(n) <= Chars(FlattenSeq(gs))
  <2>1. n \in 0..n
    BY <1>1
  <2> QED BY <1>5, <1>6, <1>10, <2>1 DEF S
<1>12. Lost(n) = IF sel = DOMAIN gs THEN 0 ELSE Overhead
  BY <1>1
<1> QED BY <1>2, <1>4, <1>11, <1>12 DEF ks

-----------------------------------------------------------------------------
(* The stable prefix.                                                      *)

IsProfile(p) == p.skills \in Seq(Nat) /\ p.children \in Seq(Nat)

\* With any number of descriptions the prefix has at least its fixed part.
LEMMA PrefixParts ==
  ASSUME NEW p, IsProfile(p), NEW limit \in Nat
  PROVE  PrefixSize(p, limit) \in Nat /\ PrefixSize(p, limit) >= BaseSize
<1> DEFINE d == Descriptions(p)
           n == Len(d)
           seq == [i \in DOMAIN d |-> i]
           Line(i) == NameSize + (IF i <= limit THEN d[i] ELSE OmittedSize)
           X == {x \in Nat : x >= BaseSize}
           F == CHOOSE iter : iter = [s \in SUBSET DOMAIN seq |->
                  IF s = {} THEN BaseSize ELSE iter[s \ {Max(s)}] + Line(seq[Max(s)])]
           step == [q \in X \X (1..n) |-> q[1] + Line(q[2])]
<1>1. PrefixSize(p, limit) = F[DOMAIN seq]
  BY DEF PrefixSize, FoldLeft, MapThenFoldSet
<1>2. /\ n \in Nat /\ DOMAIN d = 1..n /\ \A i \in 1..n : d[i] \in Nat
      /\ DOMAIN seq = 1..n /\ \A i \in 1..n : seq[i] = i
      /\ BaseSize \in Nat /\ NameSize \in Nat /\ OmittedSize \in Nat
  <2>1. d \in Seq(Nat)
    BY DEF IsProfile, Descriptions
  <2>2. BaseSize \in Nat /\ NameSize \in Nat /\ OmittedSize \in Nat
    BY SizesAssumption DEF SizesAssumption
  <2> HIDE DEF d
  <2>3. n \in Nat /\ DOMAIN d = 1..n /\ \A i \in 1..n : d[i] \in Nat
    BY <2>1
  <2>4. DOMAIN seq = 1..n /\ \A i \in 1..n : seq[i] = i
    BY <2>3
  <2> QED BY <2>2, <2>3, <2>4
<1> HIDE DEF n, d, seq
<1>3. \A i \in 1..n : Line(i) \in Nat
  BY <1>2
<1> HIDE DEF Line
<1>4. step \in [X \X (1..n) -> X]
  <2>1. ASSUME NEW q \in X \X (1..n) PROVE q[1] + Line(q[2]) \in X
    <3>1. q[1] \in Nat /\ q[1] >= BaseSize /\ Line(q[2]) \in Nat
      BY <1>3
    <3> QED BY <1>2, <3>1
  <2> QED BY <2>1
<1>5. PICK g \in [SUBSET (1..n) -> X] : \A s \in SUBSET (1..n) :
            g[s] = IF s = {} THEN BaseSize ELSE step[<<g[s \ {Max(s)}], Max(s)>>]
  <2>1. n \in Nat /\ IsStep(n, X, BaseSize, step)
    BY <1>2, <1>4 DEF IsStep
  <2> HIDE DEF step, X
  <2>2. IsFold(n, X, BaseSize, step)
    BY <2>1, FoldSolution
  <2> QED BY <2>2 DEF IsFold
<1>6. g = [s \in SUBSET DOMAIN seq |->
             IF s = {} THEN BaseSize ELSE g[s \ {Max(s)}] + Line(seq[Max(s)])]
  <2>1. ASSUME NEW s \in SUBSET (1..n), s # {} PROVE g[s] = g[s \ {Max(s)}] + Line(seq[Max(s)])
    <3>1. Max(s) \in 1..n /\ s \ {Max(s)} \in SUBSET (1..n)
      BY <1>2, <2>1, MaxOf
    <3>2. g[s \ {Max(s)}] \in X /\ seq[Max(s)] = Max(s)
      BY <1>2, <3>1
    <3>3. <<g[s \ {Max(s)}], Max(s)>> \in X \X (1..n)
      BY <3>1, <3>2
    <3>4. step[<<g[s \ {Max(s)}], Max(s)>>] = g[s \ {Max(s)}] + Line(Max(s))
      BY <3>3
    <3> HIDE DEF step
    <3> QED BY <1>5, <2>1, <3>2, <3>4
  <2> QED BY <1>2, <1>5, <2>1
<1>7. F = [s \in SUBSET DOMAIN seq |->
             IF s = {} THEN BaseSize ELSE F[s \ {Max(s)}] + Line(seq[Max(s)])]
  <2>1. \E iter : iter = [s \in SUBSET DOMAIN seq |->
             IF s = {} THEN BaseSize ELSE iter[s \ {Max(s)}] + Line(seq[Max(s)])]
    BY <1>6
  <2> QED BY <2>1, Zenon
<1> HIDE DEF F
<1>8. F[{}] \in X
  BY <1>2, <1>7
<1>9. ASSUME NEW k \in 1..n, F[1..(k - 1)] \in X PROVE F[1..k] \in X
  <2>1. 1..k \in SUBSET (1..n) /\ 1..k # {} /\ Max(1..k) = k /\ (1..k) \ {k} = 1..(k - 1)
    BY <1>2, UpTo
  <2>2. F[1..k] = F[1..(k - 1)] + Line(k)
    <3>1. seq[Max(1..k)] = k /\ 1..k \in SUBSET DOMAIN seq
      BY <1>2, <2>1
    <3>2. F[1..k] = F[(1..k) \ {Max(1..k)}] + Line(seq[Max(1..k)])
      BY <1>7, <2>1, <3>1
    <3> QED BY <2>1, <3>1, <3>2
  <2> QED BY <1>2, <1>3, <1>9, <2>2
<1>10. F[1..n] \in X
  <2> HIDE DEF X
  <2>1. \A k \in 0..n : F[1..k] \in X
    BY <1>2, <1>8, <1>9, FoldAlong
  <2> QED BY <1>2, <2>1
<1> QED BY <1>1, <1>2, <1>10

\* The prefix of a session that starts: within its limit and smaller than the window.
LEMMA PrefixFits ==
  ASSUME NEW p, IsProfile(p), PrefixSize(p, 0) <= PrefixLimit
  PROVE  /\ Details(p) \in Nat /\ PrefixSize(p, Details(p)) <= PrefixLimit
         /\ PrefixSize(p, Details(p)) \in Nat /\ PrefixSize(p, Details(p)) >= BaseSize
<1> DEFINE n == Len(Descriptions(p))
           S == {k \in 0..n : \A j \in 0..k : PrefixSize(p, j) <= PrefixLimit}
<1>1. n \in Nat
  <2> DEFINE d == Descriptions(p)
  <2>1. d \in Seq(Nat)
    BY DEF IsProfile, Descriptions
  <2> HIDE DEF d
  <2>2. Len(d) \in Nat
    BY <2>1
  <2> QED BY <2>2 DEF d
<1> HIDE DEF n
<1>2. 0 \in S
  <2>1. \A j \in 0..0 : j = 0
    OBVIOUS
  <2> QED BY <1>1, <2>1
<1>3. Max(S) \in S
  <2>1. S = {0} \/ S \cap (1..n) # {}
    BY <1>1, <1>2
  <2>2. CASE S = {0}
    BY <2>2 DEF Max
  <2>3. CASE S \cap (1..n) # {}
    <3> DEFINE s == S \cap (1..n)
    <3>0. s \in SUBSET (1..n) /\ s # {} /\ s \subseteq S /\ \A y \in S : y \in s \/ y = 0
      BY <1>1, <2>3
    <3> HIDE DEF s
    <3>1. Max(s) \in s /\ \A y \in s : Max(s) >= y
      BY <1>1, <3>0, MaxOf
    <3> DEFINE x == Max(s)
    <3> HIDE DEF S
    <3>6. x \in s
      BY <3>1
    <3> HIDE DEF x
    <3>7. x \in 1..n
      BY <3>0, <3>6
    <3>4. x \in s /\ x \in 1..n /\ x >= 0
      BY <1>1, <3>6, <3>7
    <3>5. ASSUME NEW y \in S PROVE x >= y
      <4>1. CASE y = 0
        BY <3>4, <4>1
      <4>2. CASE y \in s
        BY <3>1, <4>2 DEF x
      <4> QED BY <3>0, <4>1, <4>2
    <3>2. Max(s) \in S /\ \A y \in S : Max(s) >= y
      BY <3>0, <3>4, <3>5 DEF x
    <3>3. \E z \in S : \A y \in S : z >= y
      BY <3>2
    <3> QED BY <3>3 DEF Max
  <2> QED BY <2>1, <2>2, <2>3
<1>4. Details(p) = Max(S)
  BY DEF Details, n
<1>5. Details(p) \in 0..n /\ \A j \in 0..Details(p) : PrefixSize(p, j) <= PrefixLimit
  BY <1>3, <1>4
<1>6. Details(p) \in Nat /\ Details(p) \in 0..Details(p)
  BY <1>1, <1>5
<1> QED BY <1>5, <1>6, PrefixParts

-----------------------------------------------------------------------------
(* The projection.                                                         *)

Contexts == [stable : Seq(SomeMessages), user : SomeMessages, groups : Groups]

\* The context of a session: one stable message, the task, and groups that say something.
Session(c) ==
  /\ c \in Contexts
  /\ Len(c.stable) = 1 /\ c.stable[1].role = "system" /\ c.stable[1].call = NoCall
  /\ c.user.role = "user" /\ c.user.call = NoCall
  /\ \A g \in DOMAIN c.groups : c.groups[g] # << >>

AllPaired(c) == \A g \in DOMAIN c.groups : Paired(c.groups[g])

LEMMA MessageParts ==
  ASSUME NEW role \in Roles, NEW n \in Nat, NEW call \in Nat, NEW says \in SUBSET Facts
  PROVE  LET m == Message(role, n, call, says)
         IN  /\ m \in SomeMessages
             /\ m.role = role /\ m.size = n /\ m.call = call /\ m.says = says
BY DEF Message, SomeMessages

\* A single message that is no part of a Tool exchange.
LEMMA PairedOne ==
  ASSUME NEW m \in SomeMessages, m.role # "tool", m.role = "assistant" => m.call = NoCall
  PROVE  <<m>> \in Seq(SomeMessages) /\ Paired(<<m>>)
<1> DEFINE one == <<m>>
<1>1. one \in Seq(SomeMessages) /\ DOMAIN one = 1..1 /\ one[1] = m
  OBVIOUS
<1> HIDE DEF one
<1>2. \A i \in DOMAIN one : one[i] = m
  BY <1>1
<1>3. Paired(one)
  BY <1>2 DEF Paired
<1> QED BY <1>1, <1>3 DEF one

LEMMA HasOne == ASSUME NEW a, NEW m PROVE Has(<<a>>, m) <=> m = a
<1>1. DOMAIN <<a>> = {1} /\ <<a>>[1] = a
  OBVIOUS
<1> QED BY <1>1 DEF Has

\* What comes before the groups.
LEMMA HeadParts ==
  ASSUME NEW c, Session(c)
  PROVE  LET head == c.stable \o <<c.user>>
         IN  /\ head \in Seq(SomeMessages) /\ Len(head) = 2 /\ head[1] = c.stable[1] /\ Paired(head)
             /\ \A m : Has(head, m) <=> m = c.stable[1] \/ m = c.user
<1> DEFINE head == c.stable \o <<c.user>>
           one == <<c.user>>
           st == c.stable
<1>1. st \in Seq(SomeMessages) /\ Len(st) = 1 /\ c.user \in SomeMessages
  BY DEF Session, Contexts
<1>2. one \in Seq(SomeMessages) /\ Paired(one)
  BY <1>1, PairedOne DEF Session
<1>3. st = <<st[1]>> /\ st[1] \in SomeMessages
  BY <1>1
<1>4. Paired(st)
  <2>1. st[1].role = "system"
    BY DEF Session
  <2> HIDE DEF st
  <2>2. Paired(<<st[1]>>)
    BY <1>3, <2>1, PairedOne
  <2> QED BY <1>3, <2>2
<1>5. Len(one) = 1
  OBVIOUS
<1> HIDE DEF one, st
<1>6. head = st \o one
  BY DEF one, st
<1> HIDE DEF head
<1>7. head \in Seq(SomeMessages) /\ Len(head) = 2 /\ head[1] = st[1]
  <2>1. /\ head \in Seq(SomeMessages) /\ Len(head) = Len(st) + Len(one)
        /\ \A i \in 1..Len(st) : head[i] = st[i]
    BY <1>1, <1>2, <1>6, ConcatParts
  <2> QED BY <1>1, <1>5, <2>1
<1>8. Paired(head)
  BY <1>1, <1>2, <1>4, <1>6, PairedConcat
<1>9. ASSUME NEW m PROVE Has(head, m) <=> m = c.stable[1] \/ m = c.user
  <2>1. Has(st \o one, m) <=> Has(st, m) \/ Has(one, m)
    BY <1>1, <1>2, HasConcat
  <2>2. Has(one, m) <=> m = c.user
    BY HasOne DEF one
  <2>3. Has(<<st[1]>>, m) <=> m = st[1]
    BY HasOne
  <2>4. Has(head, m) <=> m = st[1] \/ m = c.user
    BY <1>3, <1>6, <2>1, <2>2, <2>3
  <2> QED BY <2>4 DEF st
<1> QED BY <1>7, <1>8, <1>9 DEF head, st

LEMMA SavedParts ==
  ASSUME NEW c, Session(c)
  PROVE  /\ Saved(c) \in Seq(SomeMessages) /\ Len(Saved(c)) >= 2 /\ Saved(c)[1] = c.stable[1]
         /\ \A m : Has(Saved(c), m) <=>
              m = c.stable[1] \/ m = c.user \/ \E g \in DOMAIN c.groups : Has(c.groups[g], m)
         /\ AllPaired(c) => Paired(Saved(c))
<1> DEFINE head == c.stable \o <<c.user>>
           flat == FlattenSeq(c.groups)
           saved == Saved(c)
<1>1. /\ head \in Seq(SomeMessages) /\ Len(head) = 2 /\ head[1] = c.stable[1] /\ Paired(head)
      /\ \A m : Has(head, m) <=> m = c.stable[1] \/ m = c.user
  BY HeadParts
<1>2. c.groups \in Groups
  BY DEF Session, Contexts
<1>3. /\ flat \in Seq(SomeMessages)
      /\ \A m : Has(flat, m) <=> \E g \in DOMAIN c.groups : Has(c.groups[g], m)
      /\ AllPaired(c) => Paired(flat)
  BY <1>2, FlattenParts DEF AllPaired
<1>4. saved = head \o flat
  BY DEF Saved
<1> HIDE DEF head, flat, saved
<1>5. saved \in Seq(SomeMessages) /\ Len(saved) >= 2 /\ saved[1] = c.stable[1]
  <2>1. /\ saved \in Seq(SomeMessages) /\ Len(saved) = Len(head) + Len(flat) /\ Len(flat) \in Nat
        /\ \A i \in 1..Len(head) : saved[i] = head[i]
    BY <1>1, <1>3, <1>4, ConcatParts
  <2> QED BY <1>1, <2>1
<1>6. AllPaired(c) => Paired(saved)
  BY <1>1, <1>3, <1>4, PairedConcat
<1>7. ASSUME NEW m
      PROVE  Has(saved, m) <=>
               m = c.stable[1] \/ m = c.user \/ \E g \in DOMAIN c.groups : Has(c.groups[g], m)
  <2>1. Has(head \o flat, m) <=> Has(head, m) \/ Has(flat, m)
    BY <1>1, <1>3, HasConcat
  <2>2. Has(head, m) <=> m = c.stable[1] \/ m = c.user
    BY <1>1
  <2>3. Has(flat, m) <=> \E g \in DOMAIN c.groups : Has(c.groups[g], m)
    BY <1>3
  <2> QED BY <1>4, <2>1, <2>2, <2>3
<1> QED BY <1>5, <1>6, <1>7 DEF saved

\* Whatever is selected, the rules stay first, calls stay with their results, the
\* selected groups are in it, and it is longer than the history by a marker at most.
LEMMA ProjectedParts ==
  ASSUME NEW c, Session(c), NEW sel \in SUBSET DOMAIN c.groups
  PROVE  /\ Projected(c, sel) \in Seq(SomeMessages) /\ Len(Projected(c, sel)) >= 2
         /\ Projected(c, sel)[1] = c.stable[1]
         /\ AllPaired(c) => Paired(Projected(c, sel))
         /\ \A g \in sel : \A m : Has(c.groups[g], m) => Has(Projected(c, sel), m)
         /\ sel = DOMAIN c.groups => Projected(c, sel) = Saved(c)
         /\ Chars(Projected(c, sel)) <= Chars(Saved(c)) + MarkerSize
<1> DEFINE head == c.stable \o <<c.user>>
           gs == c.groups
           ks == Kept(gs, sel)
           marker == IF sel = DOMAIN gs THEN << >>
                     ELSE <<Message("user", MarkerSize, NoCall, {})>>
           front == head \o marker
           flat == FlattenSeq(ks)
           proj == Projected(c, sel)
<1>1. head \in Seq(SomeMessages) /\ Len(head) = 2 /\ head[1] = c.stable[1] /\ Paired(head)
  BY HeadParts
<1>2. gs \in Groups /\ \A g \in DOMAIN gs : gs[g] # << >>
  BY DEF Session, Contexts
<1>3. Overhead \in Nat /\ MarkerSize \in Nat
  BY ContextAssumption DEF ContextAssumption
<1>4. proj = front \o flat
  BY DEF Projected, Kept
<1>5. Saved(c) = head \o FlattenSeq(gs)
  BY DEF Saved
<1>6. /\ marker \in Seq(SomeMessages) /\ Paired(marker)
      /\ Chars(marker) = IF sel = DOMAIN gs THEN 0 ELSE MarkerSize + Overhead
  <2>1. CASE sel = DOMAIN gs
    <3>1. << >> \in Seq(SomeMessages) /\ Paired(<< >>)
      BY DEF Paired
    <3> QED BY <2>1, <3>1, CharsOfOne
  <2>2. CASE sel # DOMAIN gs
    <3> DEFINE m == Message("user", MarkerSize, NoCall, {})
    <3>1. m \in SomeMessages /\ m.role = "user" /\ m.size = MarkerSize
      <4>1. "user" \in Roles /\ NoCall \in Nat /\ {} \in SUBSET Facts
        BY DEF NoCall, Roles
      <4> QED BY <1>3, <4>1, MessageParts
    <3>2. marker = <<m>>
      BY <2>2
    <3> HIDE DEF m, marker
    <3>3. <<m>> \in Seq(SomeMessages) /\ Paired(<<m>>)
      BY <3>1, PairedOne
    <3>4. Chars(<<m>>) = MarkerSize + Overhead
      BY <3>1, CharsOfOne
    <3> QED BY <2>2, <3>2, <3>3, <3>4
  <2> QED BY <2>1, <2>2
<1> HIDE DEF head, gs, marker
<1>7. /\ ks \in Groups
      /\ sel = DOMAIN gs => ks = gs
      /\ Chars(flat) + (IF sel = DOMAIN gs THEN 0 ELSE Overhead) <= Chars(FlattenSeq(gs))
  BY <1>2, KeptParts DEF gs
<1>8. \A g \in DOMAIN gs : ks[g] = IF g \in sel THEN gs[g] ELSE << >>
  BY DEF Kept
<1>9. DOMAIN ks = DOMAIN gs
  BY DEF Kept
<1> HIDE DEF ks
<1>10. /\ flat \in Seq(SomeMessages)
       /\ \A m : Has(flat, m) <=> \E g \in DOMAIN ks : Has(ks[g], m)
       /\ (\A g \in DOMAIN ks : Paired(ks[g])) => Paired(flat)
  BY <1>7, FlattenParts
<1>11. FlattenSeq(gs) \in Seq(SomeMessages)
  BY <1>2, FlattenParts
<1>12. front \in Seq(SomeMessages) /\ Len(front) >= 2 /\ front[1] = head[1]
  <2>1. Len(head) = 2 /\ Len(marker) \in Nat
    BY <1>1, <1>6
  <2>2. front \in Seq(SomeMessages)
    BY <1>1, <1>6
  <2>3. Len(front) = Len(head) + Len(marker)
    BY <1>1, <1>6, ConcatProperties
  <2>4. front[1] = head[1]
    <3>1. 1 \in 1..(Len(head) + Len(marker)) /\ 1 <= Len(head)
      BY <2>1
    <3> QED BY <1>1, <1>6, <3>1, ConcatProperties
  <2> QED BY <2>1, <2>2, <2>3, <2>4
<1>13. Paired(front)
  BY <1>1, <1>6, PairedConcat
<1>14. Chars(front) = Chars(head) + Chars(marker)
  BY <1>1, <1>6, CharsConcat
<1> HIDE DEF front, flat, proj
<1>15. proj \in Seq(SomeMessages) /\ Len(proj) >= 2 /\ proj[1] = c.stable[1]
  BY <1>1, <1>4, <1>10, <1>12
<1>16. ASSUME AllPaired(c) PROVE Paired(proj)
  <2>1. ASSUME NEW g \in DOMAIN ks PROVE Paired(ks[g])
    <3>1. Paired(<< >>)
      BY DEF Paired
    <3>2. Paired(gs[g])
      BY <1>9, <1>16 DEF AllPaired, gs
    <3> QED BY <1>8, <1>9, <3>1, <3>2
  <2>2. Paired(flat)
    BY <1>10, <2>1
  <2> QED BY <1>4, <1>10, <1>12, <1>13, <2>2, PairedConcat
<1>17. ASSUME NEW g \in sel, NEW m, Has(gs[g], m) PROVE Has(proj, m)
  <2>1. g \in DOMAIN ks /\ ks[g] = gs[g]
    BY <1>8, <1>9 DEF gs
  <2>2. Has(flat, m)
    BY <1>10, <1>17, <2>1
  <2>3. Has(front \o flat, m)
    BY <1>10, <1>12, <2>2, HasConcat
  <2> QED BY <1>4, <2>3
<1>18. ASSUME sel = DOMAIN gs PROVE proj = Saved(c)
  <2>1. flat = FlattenSeq(gs) /\ front = head \o << >>
    BY <1>7, <1>18 DEF flat, front, marker
  <2>2. head \o << >> = head
    BY <1>1
  <2> QED BY <1>4, <1>5, <2>1, <2>2
<1>19. Chars(proj) <= Chars(Saved(c)) + MarkerSize
  <2>1. Chars(proj) = Chars(head) + Chars(marker) + Chars(flat)
    <3>1. Chars(proj) = Chars(front) + Chars(flat)
      BY <1>4, <1>10, <1>12, CharsConcat
    <3> QED BY <1>14, <3>1
  <2>2. Chars(Saved(c)) = Chars(head) + Chars(FlattenSeq(gs))
    BY <1>1, <1>5, <1>11, CharsConcat
  <2>3. /\ Chars(head) \in Nat /\ Chars(flat) \in Nat /\ Chars(FlattenSeq(gs)) \in Nat
        /\ Chars(marker) \in Nat
    BY <1>1, <1>6, <1>10, <1>11, CharsOfOne
  <2>4. CASE sel = DOMAIN gs
    <3>1. Chars(marker) = 0 /\ Chars(flat) <= Chars(FlattenSeq(gs))
      BY <1>6, <1>7, <2>3, <2>4
    <3> QED BY <1>3, <2>1, <2>2, <2>3, <3>1
  <2>5. CASE sel # DOMAIN gs
    <3>1. Chars(marker) = MarkerSize + Overhead /\ Chars(flat) + Overhead <= Chars(FlattenSeq(gs))
      BY <1>6, <1>7, <2>5
    <3> QED BY <1>3, <2>1, <2>2, <2>3, <3>1
  <2> QED BY <2>4, <2>5
<1> QED BY <1>15, <1>16, <1>17, <1>18, <1>19 DEF proj, gs

LEMMA RequiredParts ==
  ASSUME NEW groups \in Groups
  PROVE  Required(groups) \in SUBSET DOMAIN groups
<1> DEFINE WithTool == {g \in DOMAIN groups : \E i \in DOMAIN groups[g] : groups[g][i].call # NoCall}
           WithUser == {g \in DOMAIN groups : \E i \in DOMAIN groups[g] : groups[g][i].role = "user"}
           n == Len(groups)
<1>1. n \in Nat /\ DOMAIN groups = 1..n
  BY DEF Groups
<1>2. WithTool \in SUBSET (1..n) /\ WithUser \in SUBSET (1..n)
  BY <1>1
<1>3. Required(groups) = UNION {IF S = {} THEN {} ELSE {Max(S)} : S \in {WithTool, WithUser}}
  BY DEF Required
<1> HIDE DEF WithTool, WithUser, n
<1>4. ASSUME NEW S \in {WithTool, WithUser}, S # {} PROVE Max(S) \in 1..n
  BY <1>1, <1>2, <1>4, MaxOf
<1> QED BY <1>1, <1>3, <1>4

\* One step of the selection.
AddTo(c, space, selected, g) ==
  IF Chars(Projected(c, selected \cup {g})) <= space THEN selected \cup {g} ELSE selected

LEMMA SelectedSteps ==
  ASSUME NEW c, c.groups \in Groups, NEW space
  PROVE  LET n == Len(c.groups)
         IN  \E h \in [0..n -> SUBSET DOMAIN c.groups] :
               /\ h[0] = Required(c.groups) /\ h[n] = Selected(c, space)
               /\ \A k \in 1..n : h[k] = AddTo(c, space, h[k - 1], n - k + 1)
<1> DEFINE n == Len(c.groups)
           seq == Reverse([i \in DOMAIN c.groups |-> i])
           X == SUBSET DOMAIN c.groups
           base == Required(c.groups)
           Step(x, i) == AddTo(c, space, x, i)
           F == CHOOSE iter : iter = [s \in SUBSET DOMAIN seq |->
                  IF s = {} THEN base ELSE Step(iter[s \ {Max(s)}], seq[Max(s)])]
           step == [q \in X \X (1..n) |-> Step(q[1], n - q[2] + 1)]
<1>1. Selected(c, space) = F[DOMAIN seq]
  BY DEF Selected, FoldLeft, MapThenFoldSet, AddTo
<1>2. n \in Nat /\ DOMAIN c.groups = 1..n
  BY DEF Groups
<1>3. DOMAIN seq = 1..n /\ \A i \in 1..n : seq[i] = n - i + 1
  <2> DEFINE ids == [i \in 1..n |-> i]
  <2>1. ids \in Seq(1..n) /\ Len(ids) = n /\ \A i \in 1..n : ids[i] = i
    BY <1>2
  <2>2. seq = [i \in 1..n |-> ids[(n - i) + 1]]
    BY <1>2, <2>1 DEF Reverse
  <2> HIDE DEF seq, n, ids
  <2>3. \A i \in 1..n : (n - i) + 1 \in 1..n /\ (n - i) + 1 = n - i + 1
    BY <1>2
  <2>4. DOMAIN seq = 1..n
    BY <2>2
  <2>5. ASSUME NEW i \in 1..n PROVE seq[i] = n - i + 1
    <3>1. seq[i] = ids[(n - i) + 1]
      BY <2>2
    <3> QED BY <2>1, <2>3, <3>1
  <2> QED BY <2>4, <2>5
<1>4. base \in X
  BY RequiredParts
<1> HIDE DEF n, seq, base
<1>5. ASSUME NEW x \in X, NEW i \in 1..n PROVE Step(x, i) \in X
  BY <1>2, <1>5 DEF AddTo
<1> HIDE DEF Step, X
<1>6. step \in [X \X (1..n) -> X]
  <2>1. ASSUME NEW q \in X \X (1..n) PROVE Step(q[1], n - q[2] + 1) \in X
    <3>1. q[1] \in X /\ n - q[2] + 1 \in 1..n
      BY <1>2
    <3> QED BY <1>5, <3>1
  <2> QED BY <2>1
<1>7. PICK g \in [SUBSET (1..n) -> X] : \A s \in SUBSET (1..n) :
            g[s] = IF s = {} THEN base ELSE step[<<g[s \ {Max(s)}], Max(s)>>]
  <2>1. n \in Nat /\ IsStep(n, X, base, step)
    BY <1>2, <1>4, <1>6 DEF IsStep
  <2> HIDE DEF step
  <2>2. IsFold(n, X, base, step)
    BY <2>1, FoldSolution
  <2> QED BY <2>2 DEF IsFold
<1>8. g = [s \in SUBSET DOMAIN seq |->
             IF s = {} THEN base ELSE Step(g[s \ {Max(s)}], seq[Max(s)])]
  <2>1. ASSUME NEW s \in SUBSET (1..n), s # {} PROVE g[s] = Step(g[s \ {Max(s)}], seq[Max(s)])
    <3>1. Max(s) \in 1..n /\ s \ {Max(s)} \in SUBSET (1..n)
      BY <1>2, <2>1, MaxOf
    <3>2. g[s \ {Max(s)}] \in X /\ seq[Max(s)] = n - Max(s) + 1
      BY <1>3, <3>1
    <3>3. <<g[s \ {Max(s)}], Max(s)>> \in X \X (1..n)
      BY <3>1, <3>2
    <3>4. step[<<g[s \ {Max(s)}], Max(s)>>] = Step(g[s \ {Max(s)}], n - Max(s) + 1)
      BY <3>3
    <3> HIDE DEF step
    <3> QED BY <1>7, <2>1, <3>2, <3>4
  <2> QED BY <1>3, <1>7, <2>1
<1>9. F = [s \in SUBSET DOMAIN seq |->
             IF s = {} THEN base ELSE Step(F[s \ {Max(s)}], seq[Max(s)])]
  <2>1. \E iter : iter = [s \in SUBSET DOMAIN seq |->
             IF s = {} THEN base ELSE Step(iter[s \ {Max(s)}], seq[Max(s)])]
    BY <1>8
  <2> QED BY <2>1, Zenon
<1> HIDE DEF F
<1>10. F[{}] = base
  BY <1>9
<1>11. ASSUME NEW k \in 1..n PROVE F[1..k] = Step(F[1..(k - 1)], n - k + 1)
  <2>1. 1..k \in SUBSET (1..n) /\ 1..k # {} /\ Max(1..k) = k /\ (1..k) \ {k} = 1..(k - 1)
    BY <1>2, UpTo
  <2>2. seq[Max(1..k)] = n - k + 1 /\ 1..k \in SUBSET DOMAIN seq
    BY <1>3, <2>1
  <2>3. F[1..k] = Step(F[(1..k) \ {Max(1..k)}], seq[Max(1..k)])
    BY <1>9, <2>1, <2>2
  <2> QED BY <2>1, <2>2, <2>3
<1>12. ASSUME NEW k \in 1..n, F[1..(k - 1)] \in X PROVE F[1..k] \in X
  <2>1. n - k + 1 \in 1..n
    BY <1>2
  <2> QED BY <1>5, <1>11, <1>12, <2>1
<1>13. \A k \in 0..n : F[1..k] \in X
  BY <1>2, <1>4, <1>10, <1>12, FoldAlong
<1> DEFINE h == [k \in 0..n |-> F[1..k]]
<1>14. h \in [0..n -> X]
  BY <1>13
<1>15. h[0] = base /\ h[n] = Selected(c, space)
  <2>1. 1..0 = {} /\ 0 \in 0..n /\ n \in 0..n
    BY <1>2
  <2> QED BY <1>1, <1>3, <1>10, <2>1
<1>16. ASSUME NEW k \in 1..n PROVE h[k] = Step(h[k - 1], n - k + 1)
  <2>1. k \in 0..n /\ k - 1 \in 0..n
    BY <1>2
  <2>2. h[k] = F[1..k] /\ h[k - 1] = F[1..(k - 1)]
    BY <2>1
  <2> HIDE DEF h
  <2> QED BY <1>11, <2>2
<1> HIDE DEF h
<1>17. \E f \in [0..n -> X] : f[0] = base /\ f[n] = Selected(c, space)
                               /\ \A k \in 1..n : f[k] = Step(f[k - 1], n - k + 1)
  BY <1>14, <1>15, <1>16
<1> QED BY <1>17 DEF n, X, base, Step

\* The newest Tool exchange and the newest message to the Agent are always selected,
\* and every group when all of them fit beside a marker.
LEMMA SelectedParts ==
  ASSUME NEW c, Session(c), NEW space \in Int
  PROVE  /\ Selected(c, space) \in SUBSET DOMAIN c.groups
         /\ Required(c.groups) \subseteq Selected(c, space)
         /\ Chars(Saved(c)) + MarkerSize <= space => Selected(c, space) = DOMAIN c.groups
<1> DEFINE n == Len(c.groups)
<1>1. c.groups \in Groups
  BY DEF Session, Contexts
<1>2. n \in Nat /\ DOMAIN c.groups = 1..n
  BY <1>1 DEF Groups
<1>3. PICK h \in [0..n -> SUBSET DOMAIN c.groups] :
        /\ h[0] = Required(c.groups) /\ h[n] = Selected(c, space)
        /\ \A k \in 1..n : h[k] = AddTo(c, space, h[k - 1], n - k + 1)
  BY <1>1, SelectedSteps
<1> HIDE DEF n
<1>4. 0 \in 0..n /\ n \in 0..n
  BY <1>2
<1>5. ASSUME NEW k \in 0..(n - 1)
      PROVE  /\ k + 1 \in 1..n /\ k + 1 \in 0..n /\ n - k \in 1..n
             /\ h[k] \in SUBSET DOMAIN c.groups
             /\ h[k + 1] = AddTo(c, space, h[k], n - k)
  <2>1. /\ k + 1 \in 1..n /\ k + 1 \in 0..n /\ k \in 0..n /\ n - k \in 1..n
        /\ (k + 1) - 1 = k /\ n - (k + 1) + 1 = n - k
    BY <1>2
  <2>2. h[k + 1] = AddTo(c, space, h[(k + 1) - 1], n - (k + 1) + 1)
    BY <1>3, <2>1
  <2> QED BY <1>3, <2>1, <2>2
<1>6. Required(c.groups) \subseteq Selected(c, space)
  <2> DEFINE S == {k \in 0..n : Required(c.groups) \subseteq h[k]}
  <2>1. 0 \in S
    BY <1>3, <1>4
  <2>2. ASSUME NEW k \in 0..(n - 1), k \in S PROVE k + 1 \in S
    BY <1>5, <2>2 DEF AddTo
  <2> HIDE DEF S
  <2>3. 0..n \subseteq S
    BY <1>2, <2>1, <2>2, IntervalInduction
  <2> QED BY <1>3, <1>4, <2>3 DEF S
<1>7. ASSUME Chars(Saved(c)) + MarkerSize <= space PROVE Selected(c, space) = DOMAIN c.groups
  <2> DEFINE S == {k \in 0..n : \A g \in 1..n : g > n - k => g \in h[k]}
  <2>1. 0 \in S
    BY <1>2, <1>4
  <2>2. ASSUME NEW k \in 0..(n - 1), k \in S PROVE k + 1 \in S
    <3> DEFINE sel == h[k] \cup {n - k}
    <3>1. sel \in SUBSET DOMAIN c.groups
      BY <1>2, <1>5
    <3> HIDE DEF sel
    <3>2. /\ Chars(Projected(c, sel)) <= Chars(Saved(c)) + MarkerSize
          /\ Projected(c, sel) \in Seq(SomeMessages)
      BY <3>1, ProjectedParts
    <3>3. Chars(Projected(c, sel)) \in Nat /\ Chars(Saved(c)) \in Nat /\ MarkerSize \in Nat
      BY <3>2, SavedParts, CharsOfOne, ContextAssumption DEF ContextAssumption
    <3>4. Chars(Projected(c, sel)) <= space
      BY <1>7, <3>2, <3>3
    <3>5. h[k + 1] = sel
      BY <1>5, <3>4 DEF AddTo, sel
    <3>6. ASSUME NEW g \in 1..n, g > n - (k + 1) PROVE g \in sel
      <4>1. g = n - k \/ g > n - k
        BY <1>2, <3>6
      <4> QED BY <2>2, <4>1 DEF sel
    <3> QED BY <1>5, <3>5, <3>6
  <2> HIDE DEF S
  <2>3. 0..n \subseteq S
    BY <1>2, <2>1, <2>2, IntervalInduction
  <2>4. \A g \in 1..n : g \in Selected(c, space)
    <3>1. \A g \in 1..n : g > n - n
      BY <1>2
    <3> QED BY <1>3, <1>4, <2>3, <3>1 DEF S
  <2>5. Selected(c, space) \in SUBSET DOMAIN c.groups
    BY <1>3, <1>4
  <2> QED BY <1>2, <2>4, <2>5
<1>8. Selected(c, space) \in SUBSET DOMAIN c.groups
  BY <1>3, <1>4
<1> QED BY <1>6, <1>7, <1>8

\* One step of the clipping.
ClipAt(space, ms, i) ==
  LET overflow == Chars(ms) - space
      target == IF ms[i].size - overflow > Least THEN ms[i].size - overflow ELSE Least
  IN  IF overflow <= 0 THEN ms ELSE [ms EXCEPT ![i] = Clipped(@, target)]

\* Every message but the first, which is protected, may be clipped: what each
\* clipping keeps, fitting keeps.
LEMMA FittedFold ==
  ASSUME NEW messages, NEW n \in Nat, n = Len(messages), n >= 2, NEW space,
         NEW X, messages \in X, \A ms \in X, i \in 2..n : ClipAt(space, ms, i) \in X
  PROVE  \E fitted \in X :
           Fitted(messages, space, 2, 1) = IF Chars(fitted) <= space THEN fitted ELSE TooLarge
<1> DEFINE old == IF Len(messages) - 2 > 2 THEN Len(messages) - 2 ELSE 2
           Positions(lo, hi) == [i \in 1..(hi - lo + 1) |-> lo + i - 1]
           order == Positions(2 + 1, old) \o <<2>> \o Positions(1 + 1, 2 - 1)
                      \o Positions(old + 1, Len(messages))
           m == Len(order)
           Step(x, i) == ClipAt(space, x, i)
           F == CHOOSE iter : iter = [s \in SUBSET DOMAIN order |->
                  IF s = {} THEN messages ELSE Step(iter[s \ {Max(s)}], order[Max(s)])]
           step == [q \in X \X (1..m) |-> Step(q[1], order[q[2]])]
<1>1. Fitted(messages, space, 2, 1) =
        IF Chars(F[DOMAIN order]) <= space THEN F[DOMAIN order] ELSE TooLarge
  BY DEF Fitted, FoldLeft, MapThenFoldSet, ClipAt
<1>2. order \in Seq(2..n)
  <2>1. old \in 2..n /\ old \in Nat /\ Len(messages) = n
    OBVIOUS
  <2> HIDE DEF old
  <2>2. Positions(2 + 1, old) \in Seq(2..n)
    <3>1. old - (2 + 1) + 1 \in Nat /\ \A i \in 1..(old - (2 + 1) + 1) : (2 + 1) + i - 1 \in 2..n
      BY <2>1
    <3> QED BY <3>1
  <2>3. Positions(1 + 1, 2 - 1) \in Seq(2..n)
    <3>1. (2 - 1) - (1 + 1) + 1 \in Nat
          /\ \A i \in 1..((2 - 1) - (1 + 1) + 1) : (1 + 1) + i - 1 \in 2..n
      OBVIOUS
    <3> QED BY <3>1
  <2>4. Positions(old + 1, Len(messages)) \in Seq(2..n)
    <3>1. /\ Len(messages) - (old + 1) + 1 \in Nat
          /\ \A i \in 1..(Len(messages) - (old + 1) + 1) : (old + 1) + i - 1 \in 2..n
      BY <2>1
    <3> QED BY <3>1
  <2>5. <<2>> \in Seq(2..n)
    OBVIOUS
  <2> HIDE DEF Positions
  <2> QED BY <2>2, <2>3, <2>4, <2>5
<1> HIDE DEF order
<1>3. m \in Nat /\ DOMAIN order = 1..m /\ \A i \in 1..m : order[i] \in 2..n
  BY <1>2
<1> HIDE DEF m
<1>4. ASSUME NEW x \in X, NEW i \in 2..n PROVE Step(x, i) \in X
  OBVIOUS
<1> HIDE DEF Step
<1>5. step \in [X \X (1..m) -> X]
  <2>1. ASSUME NEW q \in X \X (1..m) PROVE Step(q[1], order[q[2]]) \in X
    <3>1. q[1] \in X /\ order[q[2]] \in 2..n
      BY <1>3
    <3> QED BY <1>4, <3>1
  <2> QED BY <2>1
<1>6. PICK g \in [SUBSET (1..m) -> X] : \A s \in SUBSET (1..m) :
            g[s] = IF s = {} THEN messages ELSE step[<<g[s \ {Max(s)}], Max(s)>>]
  <2>1. IsStep(m, X, messages, step)
    BY <1>5 DEF IsStep
  <2> HIDE DEF step
  <2>2. IsFold(m, X, messages, step)
    BY <1>3, <2>1, FoldSolution
  <2> QED BY <2>2 DEF IsFold
<1>7. g = [s \in SUBSET DOMAIN order |->
             IF s = {} THEN messages ELSE Step(g[s \ {Max(s)}], order[Max(s)])]
  <2>1. ASSUME NEW s \in SUBSET (1..m), s # {} PROVE g[s] = Step(g[s \ {Max(s)}], order[Max(s)])
    <3>1. Max(s) \in 1..m /\ s \ {Max(s)} \in SUBSET (1..m)
      BY <1>3, <2>1, MaxOf
    <3>2. <<g[s \ {Max(s)}], Max(s)>> \in X \X (1..m)
      BY <3>1
    <3>3. step[<<g[s \ {Max(s)}], Max(s)>>] = Step(g[s \ {Max(s)}], order[Max(s)])
      BY <3>2
    <3> HIDE DEF step
    <3> QED BY <1>6, <2>1, <3>3
  <2> QED BY <1>3, <1>6, <2>1
<1>8. F = [s \in SUBSET DOMAIN order |->
             IF s = {} THEN messages ELSE Step(F[s \ {Max(s)}], order[Max(s)])]
  <2>1. \E iter : iter = [s \in SUBSET DOMAIN order |->
             IF s = {} THEN messages ELSE Step(iter[s \ {Max(s)}], order[Max(s)])]
    BY <1>7
  <2> QED BY <2>1, Zenon
<1> HIDE DEF F
<1>9. F[{}] = messages
  BY <1>8
<1>10. ASSUME NEW k \in 1..m, F[1..(k - 1)] \in X PROVE F[1..k] \in X
  <2>1. 1..k \in SUBSET (1..m) /\ 1..k # {} /\ Max(1..k) = k /\ (1..k) \ {k} = 1..(k - 1)
    BY <1>3, UpTo
  <2>2. F[1..k] = Step(F[(1..k) \ {Max(1..k)}], order[Max(1..k)])
    BY <1>3, <1>8, <2>1
  <2>3. F[1..k] = Step(F[1..(k - 1)], order[k]) /\ order[k] \in 2..n
    BY <1>3, <2>1, <2>2
  <2> QED BY <1>4, <1>10, <2>3
<1>11. F[1..m] \in X
  <2>1. \A k \in 0..m : F[1..k] \in X
    BY <1>3, <1>9, <1>10, FoldAlong
  <2> QED BY <1>3, <2>1
<1> QED BY <1>1, <1>3, <1>11

\* Messages of the same roles and calls, the first of them unchanged.
Alike(ms) ==
  {x \in Seq(SomeMessages) :
     /\ Len(x) = Len(ms) /\ x[1] = ms[1]
     /\ \A i \in 1..Len(ms) : x[i].role = ms[i].role /\ x[i].call = ms[i].call}

LEMMA ClippedParts ==
  ASSUME NEW m \in SomeMessages, NEW limit \in Nat
  PROVE  /\ Clipped(m, limit) \in SomeMessages
         /\ Clipped(m, limit).role = m.role /\ Clipped(m, limit).call = m.call
         /\ Clipped(m, limit).says \subseteq m.says
         /\ m.size <= limit => Clipped(m, limit) = m
BY DEF Clipped, SomeMessages

\* A request that can be sent has the roles and calls of the projection and its
\* first message, fits, and is the projection when that fits.
LEMMA FittedParts ==
  ASSUME NEW messages \in Seq(SomeMessages), Len(messages) >= 2, NEW space \in Int
  PROVE  /\ Fitted(messages, space, 2, 1) # TooLarge =>
              /\ Fitted(messages, space, 2, 1) \in Alike(messages)
              /\ Chars(Fitted(messages, space, 2, 1)) <= space
         /\ Chars(messages) <= space => Fitted(messages, space, 2, 1) = messages
<1> DEFINE n == Len(messages)
<1>1. n \in Nat
  OBVIOUS
<1>2. Least \in Nat
  BY ContextAssumption DEF ContextAssumption
<1>3. ASSUME NEW ms \in Alike(messages), NEW i \in 2..n PROVE ClipAt(space, ms, i) \in Alike(messages)
  <2> DEFINE overflow == Chars(ms) - space
             target == IF ms[i].size - overflow > Least THEN ms[i].size - overflow ELSE Least
             clipped == Clipped(ms[i], target)
             new == [ms EXCEPT ![i] = clipped]
  <2>1. /\ ms \in Seq(SomeMessages) /\ Len(ms) = n /\ ms[1] = messages[1]
        /\ \A k \in 1..n : ms[k].role = messages[k].role /\ ms[k].call = messages[k].call
    BY DEF Alike
  <2>2. ms[i] \in SomeMessages /\ i \in 1..n /\ i # 1
    BY <2>1
  <2>3. Chars(ms) \in Nat /\ ms[i].size \in Nat
    BY <2>1, <2>2, CharsOfOne DEF SomeMessages
  <2>4. target \in Nat
    BY <1>2, <2>3
  <2> HIDE DEF target
  <2>5. clipped \in SomeMessages /\ clipped.role = ms[i].role /\ clipped.call = ms[i].call
    BY <2>2, <2>4, ClippedParts
  <2> HIDE DEF clipped
  <2>6. /\ new \in Seq(SomeMessages) /\ Len(new) = n /\ new[1] = ms[1] /\ new[i] = clipped
        /\ \A k \in 1..n : k # i => new[k] = ms[k]
    BY <1>1, <2>1, <2>2, <2>5
  <2> HIDE DEF new
  <2>7. new \in Alike(messages)
    <3>1. \A k \in 1..n : new[k].role = messages[k].role /\ new[k].call = messages[k].call
      BY <2>1, <2>5, <2>6
    <3> QED BY <2>1, <2>6, <3>1 DEF Alike
  <2>8. ClipAt(space, ms, i) = IF overflow <= 0 THEN ms ELSE new
    BY DEF ClipAt, new, clipped, target
  <2> QED BY <2>7, <2>8
<1>4. messages \in Alike(messages)
  BY DEF Alike
<1>5. PICK fitted \in Alike(messages) :
        Fitted(messages, space, 2, 1) = IF Chars(fitted) <= space THEN fitted ELSE TooLarge
  <2> DEFINE X == Alike(messages)
  <2>1. messages \in X /\ \A ms \in X, i \in 2..n : ClipAt(space, ms, i) \in X
    BY <1>3, <1>4
  <2> HIDE DEF X
  <2>2. n = Len(messages) /\ n >= 2
    OBVIOUS
  <2> HIDE DEF n
  <2>3. \E fitted \in X :
          Fitted(messages, space, 2, 1) = IF Chars(fitted) <= space THEN fitted ELSE TooLarge
    BY <1>1, <2>1, <2>2, FittedFold
  <2> QED BY <2>3 DEF X
<1>6. ASSUME Chars(messages) <= space PROVE Fitted(messages, space, 2, 1) = messages
  <2> DEFINE X == {messages}
  <2>1. \A ms \in X, i \in 2..n : ClipAt(space, ms, i) \in X
    <3>1. Chars(messages) \in Nat
      BY CharsOfOne
    <3>2. Chars(messages) - space <= 0
      BY <1>6, <3>1
    <3> QED BY <3>2 DEF ClipAt
  <2>2. n = Len(messages) /\ n >= 2 /\ messages \in X
    OBVIOUS
  <2>4. \A x \in X : x = messages
    OBVIOUS
  <2> HIDE DEF n, X
  <2>3. \E f \in X :
          Fitted(messages, space, 2, 1) = IF Chars(f) <= space THEN f ELSE TooLarge
    BY <1>1, <2>1, <2>2, FittedFold
  <2> QED BY <1>6, <2>3, <2>4
<1> QED BY <1>5, <1>6

LEMMA PairedAlike ==
  ASSUME NEW ms \in Seq(SomeMessages), Paired(ms), NEW x \in Alike(ms)
  PROVE  Paired(x)
<1> DEFINE n == Len(ms)
<1>1. /\ n \in Nat /\ Len(x) = n /\ DOMAIN ms = 1..n /\ DOMAIN x = 1..n
      /\ \A i \in 1..n : x[i].role = ms[i].role /\ x[i].call = ms[i].call
  BY DEF Alike
<1> HIDE DEF n
<1>2. ASSUME NEW i \in 1..n
      PROVE  /\ x[i].role = "tool" =>
                  i > 1 /\ x[i - 1].role = "assistant" /\ x[i - 1].call = x[i].call
             /\ x[i].role = "assistant" /\ x[i].call # NoCall =>
                  i < n /\ x[i + 1].role = "tool" /\ x[i + 1].call = x[i].call
  <2>1. /\ ms[i].role = "tool" =>
             i > 1 /\ ms[i - 1].role = "assistant" /\ ms[i - 1].call = ms[i].call
        /\ ms[i].role = "assistant" /\ ms[i].call # NoCall =>
             i < n /\ ms[i + 1].role = "tool" /\ ms[i + 1].call = ms[i].call
    BY <1>1 DEF Paired, n
  <2>2. i > 1 => i - 1 \in 1..n
    BY <1>1
  <2>3. i < n => i + 1 \in 1..n
    BY <1>1
  <2> QED BY <1>1, <2>1, <2>2, <2>3
<1> QED BY <1>1, <1>2 DEF Paired

\* What a turn's request has, whatever had to be left out or clipped.
LEMMA RequestParts ==
  ASSUME NEW c, Session(c), AllPaired(c), NEW space \in Int, RequestMessages(c, space) # TooLarge
  PROVE  /\ RequestMessages(c, space) \in Seq(SomeMessages)
         /\ RequestMessages(c, space)[1] = c.stable[1]
         /\ Paired(RequestMessages(c, space))
         /\ Chars(RequestMessages(c, space)) <= space
         /\ \A g \in Required(c.groups) : \A i \in DOMAIN c.groups[g] :
              \E j \in DOMAIN RequestMessages(c, space) :
                /\ RequestMessages(c, space)[j].role = c.groups[g][i].role
                /\ RequestMessages(c, space)[j].call = c.groups[g][i].call
<1> DEFINE sel == Selected(c, space)
           ms == Projected(c, sel)
           r == RequestMessages(c, space)
<1>1. sel \in SUBSET DOMAIN c.groups /\ Required(c.groups) \subseteq sel
  BY SelectedParts
<1>2. r = Fitted(ms, space, 2, 1)
  BY DEF Session, RequestMessages
<1> HIDE DEF sel
<1>3. /\ ms \in Seq(SomeMessages) /\ Len(ms) >= 2 /\ ms[1] = c.stable[1] /\ Paired(ms)
      /\ \A g \in sel : \A m : Has(c.groups[g], m) => Has(ms, m)
  BY <1>1, ProjectedParts
<1> HIDE DEF ms, r
<1>4. r \in Alike(ms) /\ Chars(r) <= space
  BY <1>2, <1>3, FittedParts DEF r
<1>5. r \in Seq(SomeMessages) /\ r[1] = c.stable[1]
  BY <1>3, <1>4 DEF Alike
<1>6. Paired(r)
  BY <1>3, <1>4, PairedAlike
<1>7. ASSUME NEW g \in Required(c.groups), NEW i \in DOMAIN c.groups[g]
      PROVE  \E j \in DOMAIN r : r[j].role = c.groups[g][i].role /\ r[j].call = c.groups[g][i].call
  <2>1. Has(c.groups[g], c.groups[g][i]) /\ g \in sel
    BY <1>1 DEF Has
  <2>2. PICK j \in DOMAIN ms : ms[j] = c.groups[g][i]
    BY <1>3, <2>1 DEF Has
  <2>3. DOMAIN r = DOMAIN ms /\ r[j].role = ms[j].role /\ r[j].call = ms[j].call
    <3>1. j \in 1..Len(ms) /\ DOMAIN ms = 1..Len(ms) /\ DOMAIN r = 1..Len(r)
      BY <1>3, <1>5, <2>2
    <3> QED BY <1>4, <3>1 DEF Alike
  <2> QED BY <2>2, <2>3
<1> QED BY <1>4, <1>5, <1>6, <1>7 DEF r

\* What fits beside a marker is sent as it is.
LEMMA RequestIsSaved ==
  ASSUME NEW c, Session(c), NEW space \in Int, Chars(Saved(c)) + MarkerSize <= space
  PROVE  RequestMessages(c, space) = Saved(c)
<1> DEFINE sel == Selected(c, space)
           ms == Projected(c, sel)
<1>1. sel = DOMAIN c.groups
  BY SelectedParts
<1>2. RequestMessages(c, space) = Fitted(ms, space, 2, 1)
  BY DEF Session, RequestMessages
<1> HIDE DEF sel
<1>3. ms = Saved(c)
  BY <1>1, ProjectedParts
<1>4. Saved(c) \in Seq(SomeMessages) /\ Len(Saved(c)) >= 2
  BY SavedParts
<1> HIDE DEF ms
<1>5. Chars(Saved(c)) <= space
  <2>1. Chars(Saved(c)) \in Nat /\ MarkerSize \in Nat
    BY <1>4, CharsOfOne, ContextAssumption DEF ContextAssumption
  <2> QED BY <2>1
<1> QED BY <1>2, <1>3, <1>4, <1>5, FittedParts

-----------------------------------------------------------------------------
(* What a history says.                                                    *)

Known(c) == UNION {Saved(c)[i].says : i \in DOMAIN Saved(c)}

LEMMA KnownParts ==
  ASSUME NEW c, Session(c), NEW f
  PROVE  f \in Known(c) <=>
           \/ f \in c.stable[1].says
           \/ f \in c.user.says
           \/ \E g \in DOMAIN c.groups : \E i \in DOMAIN c.groups[g] : f \in c.groups[g][i].says
<1> DEFINE saved == Saved(c)
<1>1. \A m : Has(saved, m) <=>
        m = c.stable[1] \/ m = c.user \/ \E g \in DOMAIN c.groups : Has(c.groups[g], m)
  BY SavedParts
<1>2. f \in Known(c) <=> \E i \in DOMAIN saved : f \in saved[i].says
  BY DEF Known
<1> HIDE DEF saved
<1>3. f \in Known(c) <=> \E m : Has(saved, m) /\ f \in m.says
  BY <1>2 DEF Has
<1>4. \A g \in DOMAIN c.groups :
        (\E m : Has(c.groups[g], m) /\ f \in m.says)
          <=> \E i \in DOMAIN c.groups[g] : f \in c.groups[g][i].says
  BY DEF Has
<1> QED BY <1>1, <1>3, <1>4

\* One history follows another: the same start, and it says more.
Follows(c, d, facts) ==
  /\ Session(d) /\ AllPaired(d)
  /\ d.stable = c.stable /\ d.user = c.user
  /\ Known(c) \cup facts \subseteq Known(d)

\* Any message that is no part of a Tool exchange may follow.
LEMMA GroupFollows ==
  ASSUME NEW c, Session(c), NEW m \in SomeMessages
  PROVE  LET d == [c EXCEPT !.groups = Append(@, <<m>>)]
         IN  /\ Session(d) /\ d.stable = c.stable /\ d.user = c.user
             /\ d.groups = Append(c.groups, <<m>>)
             /\ Known(c) \cup m.says \subseteq Known(d)
             /\ AllPaired(c) /\ m.role # "tool" /\ (m.role = "assistant" => m.call = NoCall)
                  => AllPaired(d)
<1> DEFINE gs == c.groups
           one == <<m>>
           n == Len(gs)
           d == [c EXCEPT !.groups = Append(@, <<m>>)]
<1>1. c \in Contexts /\ gs \in Groups
  BY DEF Session, Contexts
<1>2. one \in Seq(SomeMessages) /\ one # << >> /\ DOMAIN one = {1} /\ one[1] = m
  OBVIOUS
<1>3. /\ d = [stable |-> c.stable, user |-> c.user, groups |-> Append(gs, one)]
      /\ d.stable = c.stable /\ d.user = c.user /\ d.groups = Append(gs, one)
  <2> DEFINE new == Append(gs, one)
  <2> HIDE DEF new
  <2>1. c = [stable |-> c.stable, user |-> c.user, groups |-> c.groups]
    BY <1>1 DEF Contexts
  <2>2. d = [c EXCEPT !.groups = new]
    BY DEF new
  <2> HIDE DEF d
  <2>3. d = [stable |-> c.stable, user |-> c.user, groups |-> new]
    BY <2>1, <2>2
  <2> QED BY <2>3 DEF new
<1> HIDE DEF d
<1>4. n \in Nat /\ DOMAIN gs = 1..n
  BY <1>1 DEF Groups
<1>5. /\ d.groups \in Groups /\ DOMAIN d.groups = 1..(n + 1)
      /\ d.groups[n + 1] = one /\ \A g \in 1..n : d.groups[g] = gs[g]
  <2> HIDE DEF gs, one
  <2>1. gs \in Seq(Seq(SomeMessages))
    BY <1>1 DEF Groups
  <2> QED BY <1>2, <1>3, <2>1 DEF Groups
<1> HIDE DEF gs, n, one
<1>6. \A g \in DOMAIN d.groups : g \in 1..n \/ g = n + 1
  BY <1>4, <1>5
<1>7. d \in Contexts
  BY <1>1, <1>3, <1>5 DEF Contexts
<1>8. Session(d)
  <2>1. \A g \in 1..n : gs[g] # << >>
    BY <1>4 DEF Session, gs
  <2>2. \A g \in DOMAIN d.groups : d.groups[g] # << >>
    BY <1>2, <1>5, <1>6, <2>1
  <2>3. /\ Len(d.stable) = 1 /\ d.stable[1].role = "system" /\ d.stable[1].call = NoCall
        /\ d.user.role = "user" /\ d.user.call = NoCall
    BY <1>3 DEF Session
  <2> QED BY <1>7, <2>2, <2>3 DEF Session
<1>9. ASSUME NEW f \in Known(c) PROVE f \in Known(d)
  <2>1. \/ f \in c.stable[1].says \/ f \in c.user.says
        \/ \E g \in 1..n : \E i \in DOMAIN gs[g] : f \in gs[g][i].says
    BY <1>4, KnownParts DEF gs
  <2>2. CASE f \in c.stable[1].says \/ f \in c.user.says
    BY <1>3, <1>8, <2>2, KnownParts
  <2>3. CASE \E g \in 1..n : \E i \in DOMAIN gs[g] : f \in gs[g][i].says
    <3>1. PICK g \in 1..n : \E i \in DOMAIN gs[g] : f \in gs[g][i].says
      BY <2>3
    <3>2. g \in DOMAIN d.groups /\ d.groups[g] = gs[g]
      BY <1>4, <1>5
    <3>3. \E i \in DOMAIN d.groups[g] : f \in d.groups[g][i].says
      BY <3>1, <3>2
    <3> QED BY <1>8, <3>2, <3>3, KnownParts
  <2> QED BY <2>1, <2>2, <2>3
<1>10. ASSUME NEW f \in m.says PROVE f \in Known(d)
  <2>1. n + 1 \in DOMAIN d.groups /\ d.groups[n + 1] = one
    BY <1>4, <1>5
  <2>2. \E i \in DOMAIN d.groups[n + 1] : f \in d.groups[n + 1][i].says
    BY <1>2, <2>1
  <2> QED BY <1>8, <2>1, <2>2, KnownParts
<1>11. ASSUME AllPaired(c), m.role # "tool", m.role = "assistant" => m.call = NoCall
       PROVE  AllPaired(d)
  <2>1. Paired(one)
    BY <1>11, PairedOne DEF one
  <2>2. \A g \in 1..n : Paired(gs[g])
    BY <1>4, <1>11 DEF AllPaired, gs
  <2> QED BY <1>5, <1>6, <2>1, <2>2 DEF AllPaired
<1> QED BY <1>3, <1>8, <1>9, <1>10, <1>11 DEF d, gs, one

LEMMA FollowsOn ==
  ASSUME NEW c, NEW d, NEW e, NEW a, NEW b, Follows(c, d, a), Follows(d, e, b)
  PROVE  Follows(c, e, a \cup b)
BY DEF Follows

LEMMA FollowsItself == ASSUME NEW c, Session(c), AllPaired(c) PROVE Follows(c, c, {})
BY DEF Follows

LEMMA FeedbackFollows ==
  ASSUME NEW c, Session(c), AllPaired(c), NEW m \in SomeMessages, m.role = "user",
         m.size <= MessageLimit
  PROVE  Follows(c, AppendFeedback(c, m), m.says)
<1>1. MessageLimit \in Nat
  BY ContextAssumption DEF ContextAssumption
<1>2. Clipped(m, MessageLimit) = m
  BY <1>1, ClippedParts
<1> DEFINE d == [c EXCEPT !.groups = Append(@, <<m>>)]
<1>3. AppendFeedback(c, m) = d
  BY <1>2 DEF AppendFeedback
<1>4. /\ Session(d) /\ d.stable = c.stable /\ d.user = c.user
      /\ Known(c) \cup m.says \subseteq Known(d)
      /\ AllPaired(c) /\ m.role # "tool" /\ (m.role = "assistant" => m.call = NoCall) => AllPaired(d)
  BY GroupFollows
<1> HIDE DEF d
<1>5. AllPaired(d)
  BY <1>4
<1> QED BY <1>3, <1>4, <1>5 DEF Follows

LEMMA AssistantFollows ==
  ASSUME NEW c, Session(c), AllPaired(c), NEW m \in SomeMessages, m.role = "assistant",
         m.call = NoCall
  PROVE  Follows(c, AppendAssistant(c, m), m.says)
<1> DEFINE d == [c EXCEPT !.groups = Append(@, <<m>>)]
<1>3. AppendAssistant(c, m) = d
  BY DEF AppendAssistant
<1>4. /\ Session(d) /\ d.stable = c.stable /\ d.user = c.user
      /\ Known(c) \cup m.says \subseteq Known(d)
      /\ AllPaired(c) /\ m.role # "tool" /\ (m.role = "assistant" => m.call = NoCall) => AllPaired(d)
  BY GroupFollows
<1> HIDE DEF d
<1>5. AllPaired(d)
  BY <1>4
<1> QED BY <1>3, <1>4, <1>5 DEF Follows

LEMMA NoticeParts ==
  ASSUME NEW f \in Facts
  PROVE  LET m == Message("user", NoticeSize, NoCall, {f})
         IN  m \in SomeMessages /\ m.role = "user" /\ m.size <= MessageLimit /\ m.says = {f}
<1> DEFINE m == Message("user", NoticeSize, NoCall, {f})
<1>1. "user" \in Roles /\ NoticeSize \in Nat /\ NoCall \in Nat /\ {f} \in SUBSET Facts
  BY SizesAssumption DEF SizesAssumption, Roles, NoCall
<1>2. m \in SomeMessages /\ m.role = "user" /\ m.size = NoticeSize /\ m.says = {f}
  BY <1>1, MessageParts
<1>3. NoticeSize <= MessageLimit
  BY SizesAssumption DEF SizesAssumption
<1> QED BY <1>2, <1>3

\* Every reminder that was crossed is appended.
LEMMA RemindersFollow ==
  ASSUME NEW c, Session(c), AllPaired(c), NEW ps
  PROVE  Follows(c, WithReminders(c, ps), Reminders(ps \cap Thresholds))
<1> DEFINE Told(d, p) == IF p \in ps THEN AppendFeedback(d, Reminder(p)) ELSE d
           new(p) == IF p \in ps THEN {<<"reminder", p>>} ELSE {}
           d1 == Told(c, 50)
           d2 == Told(d1, 25)
           d3 == Told(d2, 10)
<1>1. ASSUME NEW d, Session(d), AllPaired(d), NEW p \in {50, 25, 10}
      PROVE  Follows(d, Told(d, p), new(p))
  <2>1. CASE p \in ps
    <3>1. <<"reminder", p>> \in Facts
      BY DEF Facts
    <3>2. /\ Reminder(p) \in SomeMessages /\ Reminder(p).role = "user"
          /\ Reminder(p).size <= MessageLimit /\ Reminder(p).says = {<<"reminder", p>>}
      BY <3>1, NoticeParts DEF Reminder
    <3>3. Follows(d, AppendFeedback(d, Reminder(p)), {<<"reminder", p>>})
      BY <1>1, <3>2, FeedbackFollows
    <3> QED BY <2>1, <3>3
  <2>2. CASE p \notin ps
    BY <1>1, <2>2, FollowsItself
  <2> QED BY <2>1, <2>2
<1> HIDE DEF Told, new
<1>2. Follows(c, d1, new(50))
  BY <1>1
<1>3. Follows(d1, d2, new(25))
  BY <1>1, <1>2 DEF Follows
<1>4. Follows(d2, d3, new(10))
  BY <1>1, <1>3 DEF Follows
<1>5. WithReminders(c, ps) = d3
  BY DEF WithReminders, Told
<1> HIDE DEF d1, d2, d3
<1>6. Follows(c, d3, (new(50) \cup new(25)) \cup new(10))
  BY <1>2, <1>3, <1>4, FollowsOn
<1>7. Reminders(ps \cap Thresholds) \subseteq (new(50) \cup new(25)) \cup new(10)
  BY DEF Reminders, Thresholds, new
<1> QED BY <1>5, <1>6, <1>7 DEF Follows

\* A history that ends with a call whose result is missing.
Calling(c, call) ==
  LET last == c.groups[Len(c.groups)]
  IN  /\ Session(c) /\ call \in Nat \ {0} /\ Len(c.groups) >= 1
      /\ \A g \in 1..(Len(c.groups) - 1) : Paired(c.groups[g])
      /\ Len(last) = 1 /\ last[1].role = "assistant" /\ last[1].call = call

LEMMA CallFollows ==
  ASSUME NEW c, Session(c), AllPaired(c), NEW m \in SomeMessages, m.role = "assistant",
         m.call \in Nat \ {0}
  PROVE  LET d == AppendAssistant(c, m)
         IN  Calling(d, m.call) /\ d.stable = c.stable /\ Known(c) \subseteq Known(d)
<1> DEFINE gs == c.groups
           one == <<m>>
           d == [c EXCEPT !.groups = Append(@, <<m>>)]
<1>1. AppendAssistant(c, m) = d
  BY DEF AppendAssistant
<1>2. /\ Session(d) /\ d.stable = c.stable /\ d.groups = Append(gs, one)
      /\ Known(c) \subseteq Known(d)
  BY GroupFollows
<1> HIDE DEF d
<1>3. gs \in Seq(Seq(SomeMessages)) /\ one \in Seq(SomeMessages)
  BY DEF Session, Contexts, Groups
<1>4. Len(one) = 1 /\ one[1] = m
  OBVIOUS
<1>5. \A g \in DOMAIN gs : Paired(gs[g])
  BY DEF AllPaired
<1> HIDE DEF gs, one
<1>6. /\ Len(gs) \in Nat /\ Len(d.groups) = Len(gs) + 1 /\ d.groups[Len(gs) + 1] = one
      /\ DOMAIN gs = 1..Len(gs) /\ \A g \in 1..Len(gs) : d.groups[g] = gs[g]
  BY <1>2, <1>3
<1>7. d.groups[Len(d.groups)] = one
  BY <1>6
<1>8. \A g \in 1..(Len(d.groups) - 1) : Paired(d.groups[g])
  BY <1>5, <1>6
<1>9. Len(d.groups) >= 1
  BY <1>6
<1> QED BY <1>1, <1>2, <1>4, <1>7, <1>8, <1>9 DEF Calling

LEMMA OneMore ==
  ASSUME NEW s \in Seq(SomeMessages), Len(s) = 1, NEW m \in SomeMessages
  PROVE  /\ DOMAIN s = 1..1 /\ s[1] \in SomeMessages
         /\ Append(s, m) \in Seq(SomeMessages) /\ Len(Append(s, m)) = 2
         /\ Append(s, m)[1] = s[1] /\ Append(s, m)[2] = m
<1>1. DOMAIN s = 1..1
  <2>1. DOMAIN s = 1..Len(s)
    OBVIOUS
  <2> QED BY <2>1
<1>2. s[1] \in SomeMessages
  <2>1. 1 \in 1..Len(s)
    OBVIOUS
  <2> QED BY <2>1, ElementOfSeq
<1>3. Append(s, m) \in Seq(SomeMessages)
  OBVIOUS
<1>4. Len(Append(s, m)) = Len(s) + 1
  BY AppendProperties
<1>5. Append(s, m)[1] = s[1]
  <2>1. 1 \in 1..Len(s)
    OBVIOUS
  <2> QED BY <2>1, AppendProperties
<1>6. Append(s, m)[Len(s) + 1] = m
  BY AppendProperties
<1> QED BY <1>1, <1>2, <1>3, <1>4, <1>5, <1>6

\* The result joins the newest group, which makes the call.
LEMMA ResultFollows ==
  ASSUME NEW c, NEW call, Calling(c, call), NEW m \in SomeMessages, m.role = "tool",
         m.call = call, m.size <= MessageLimit
  PROVE  Follows(c, AppendToolResult(c, m), m.says)
<1> DEFINE gs == c.groups
           n == Len(gs)
           last == gs[n]
           calling == {g \in DOMAIN gs : \E i \in DOMAIN gs[g] :
                         gs[g][i].role = "assistant" /\ gs[g][i].call = m.call}
           pair == Append(last, m)
           d == [c EXCEPT !.groups[n] = pair]
<1>0. c \in Contexts /\ Session(c)
  BY DEF Session, Calling
<1>1. gs \in Seq(Seq(SomeMessages)) /\ n \in Nat /\ n >= 1 /\ DOMAIN gs = 1..n
  BY <1>0 DEF Calling, Contexts, Groups
<1>2. /\ last \in Seq(SomeMessages) /\ Len(last) = 1 /\ DOMAIN last = 1..1
      /\ last[1].role = "assistant" /\ last[1].call = call /\ last[1] \in SomeMessages
      /\ n \in 1..n
  <2>1. n \in 1..n
    BY <1>1
  <2>2. last \in Seq(SomeMessages)
    <3> HIDE DEF gs, n
    <3> QED BY <1>1, <2>1
  <2>3. Len(last) = 1 /\ last[1].role = "assistant" /\ last[1].call = call
    BY DEF Calling
  <2> HIDE DEF last, n, gs
  <2>4. DOMAIN last = 1..1 /\ last[1] \in SomeMessages
    BY <2>2, <2>3, OneMore
  <2> QED BY <2>1, <2>2, <2>3, <2>4
<1>3. call \in Nat \ {0} /\ \A g \in 1..(n - 1) : Paired(gs[g])
  BY DEF Calling
<1>4. Max(calling) = n
  <2>1. 1 \in DOMAIN last
    BY <1>2
  <2>2. n \in calling
    BY <1>1, <1>2, <2>1
  <2>3. calling \in SUBSET (1..n)
    BY <1>1
  <2> HIDE DEF calling, n
  <2>4. Max(calling) \in calling /\ \A y \in calling : Max(calling) >= y
    BY <1>1, <2>2, <2>3, MaxOf
  <2>5. Max(calling) \in 1..n /\ Max(calling) >= n
    BY <2>2, <2>3, <2>4
  <2> QED BY <1>1, <2>5
<1>5. AppendToolResult(c, m) = d
  <2>1. Clipped(m, MessageLimit) = m
    BY ClippedParts, ContextAssumption DEF ContextAssumption
  <2>2. AppendToolResult(c, m)
          = [c EXCEPT !.groups[Max(calling)] = Append(@, Clipped(m, MessageLimit))]
    BY DEF AppendToolResult
  <2> QED BY <1>4, <2>1, <2>2
<1> HIDE DEF d, calling
<1>6. pair \in Seq(SomeMessages) /\ Len(pair) = 2 /\ pair[1] = last[1] /\ pair[2] = m
  <2>1. last \in Seq(SomeMessages) /\ Len(last) = 1
    BY <1>2
  <2> HIDE DEF last, n, gs
  <2> QED BY <2>1, OneMore
<1>7. /\ d \in Contexts /\ d.stable = c.stable /\ d.user = c.user
      /\ d.groups = [gs EXCEPT ![n] = pair]
  <2> DEFINE new == [gs EXCEPT ![n] = pair]
  <2>1. new \in Seq(Seq(SomeMessages))
    <3> HIDE DEF gs, n, pair
    <3> QED BY <1>1, <1>2, <1>6
  <2>2. d = [c EXCEPT !.groups = new]
    BY DEF d
  <2> HIDE DEF new
  <2>3. c = [stable |-> c.stable, user |-> c.user, groups |-> c.groups]
    BY <1>0 DEF Contexts
  <2>4. d = [stable |-> c.stable, user |-> c.user, groups |-> new]
    BY <2>2, <2>3
  <2> QED BY <1>0, <2>1, <2>4 DEF Contexts, Groups, new
<1>8. /\ DOMAIN d.groups = 1..n /\ d.groups[n] = pair
      /\ \A g \in 1..n : g # n => d.groups[g] = gs[g]
  <2> HIDE DEF gs, n, pair
  <2> QED BY <1>1, <1>2, <1>7
<1>9. last[1] = gs[n][1]
  OBVIOUS
<1> HIDE DEF gs, n, last, pair
<1>10. Paired(pair)
  <2>1. DOMAIN pair = 1..2
    BY <1>6
  <2>2. ASSUME NEW i \in 1..2
        PROVE  /\ pair[i].role = "tool" =>
                    i > 1 /\ pair[i - 1].role = "assistant" /\ pair[i - 1].call = pair[i].call
               /\ pair[i].role = "assistant" /\ pair[i].call # NoCall =>
                    i < Len(pair) /\ pair[i + 1].role = "tool" /\ pair[i + 1].call = pair[i].call
    <3>1. CASE i = 1
      BY <1>2, <1>6, <3>1
    <3>2. CASE i = 2
      <4>1. i - 1 = 1
        BY <3>2
      <4> QED BY <1>2, <1>6, <3>2, <4>1
    <3> QED BY <3>1, <3>2
  <2> QED BY <2>1, <2>2 DEF Paired
<1>11. AllPaired(d)
  <2>1. \A g \in 1..n : g = n \/ g \in 1..(n - 1)
    BY <1>1
  <2>2. \A g \in 1..n : Paired(d.groups[g])
    BY <1>1, <1>3, <1>8, <1>10, <2>1
  <2> QED BY <1>8, <2>2 DEF AllPaired
<1>12. Session(d)
  <2>1. \A g \in 1..n : gs[g] # << >>
    BY <1>0, <1>1 DEF Session, gs
  <2>4. pair # << >>
    BY <1>6
  <2>2. \A g \in 1..n : d.groups[g] # << >>
    BY <1>8, <2>1, <2>4
  <2>3. /\ Len(d.stable) = 1 /\ d.stable[1].role = "system" /\ d.stable[1].call = NoCall
        /\ d.user.role = "user" /\ d.user.call = NoCall
    BY <1>0, <1>7 DEF Session
  <2> QED BY <1>7, <1>8, <2>2, <2>3 DEF Session
<1>13. ASSUME NEW f \in Known(c) PROVE f \in Known(d)
  <2>1. \/ f \in c.stable[1].says \/ f \in c.user.says
        \/ \E g \in 1..n : \E i \in DOMAIN gs[g] : f \in gs[g][i].says
    BY <1>0, <1>1, KnownParts DEF gs
  <2>2. CASE f \in c.stable[1].says \/ f \in c.user.says
    BY <1>7, <1>12, <2>2, KnownParts
  <2>3. CASE \E g \in 1..n : \E i \in DOMAIN gs[g] : f \in gs[g][i].says
    <3>4. PICK g \in 1..n : \E i \in DOMAIN gs[g] : f \in gs[g][i].says
      BY <2>3
    <3>1. PICK i \in DOMAIN gs[g] : f \in gs[g][i].says
      BY <3>4
    <3>2. i \in DOMAIN d.groups[g] /\ d.groups[g][i] = gs[g][i]
      <4>1. CASE g # n
        BY <1>8, <3>1, <4>1
      <4>2. CASE g = n
        <5>1. gs[n] = last
          BY DEF last, gs, n
        <5>2. i = 1
          BY <1>2, <3>1, <4>2, <5>1
        <5>3. 1 \in DOMAIN pair
          BY <1>6
        <5> QED BY <1>6, <1>8, <4>2, <5>1, <5>2, <5>3
      <4> QED BY <4>1, <4>2
    <3>3. \E k \in DOMAIN d.groups[g] : f \in d.groups[g][k].says
      BY <3>1, <3>2
    <3> QED BY <1>8, <1>12, <3>3, KnownParts
  <2> QED BY <2>1, <2>2, <2>3
<1>14. ASSUME NEW f \in m.says PROVE f \in Known(d)
  <2>1. 2 \in DOMAIN pair /\ n \in DOMAIN d.groups
    BY <1>2, <1>6, <1>8
  <2>2. \E i \in DOMAIN d.groups[n] : f \in d.groups[n][i].says
    BY <1>6, <1>8, <2>1
  <2> QED BY <1>12, <2>1, <2>2, KnownParts
<1>15. Follows(c, d, m.says)
  BY <1>7, <1>11, <1>12, <1>13, <1>14 DEF Follows
<1> QED BY <1>5, <1>15

-----------------------------------------------------------------------------
(* The conversation.                                                       *)

\* The phases before the task, those in which the Agent has its context, and those
\* between two answers.
Starting == {"configured", "accepted", "launched", "new"}
Talking == {"ready", "compacting", "compacted", "asking", "asking_anew", "tool"}
Between == {"ready", "compacted", "asking", "asking_anew"}

TypeOK ==
  /\ turns \in Nat /\ version \in Nat /\ size \in Nat /\ reminders \subseteq Thresholds
  /\ phase \in {"new"} \cup Talking => IsProfile(profile) /\ window \in Windows
  /\ phase \in Talking => told \subseteq Facts

\* The context is a history behind the unchanged prefix, with every call answered
\* but the one whose Tool runs, and what was said is in it, or a reminder that the
\* end of the compaction or of the Tool appends.
HistoryInv ==
  /\ phase \in Starting \cup Between => reminders = {}
  /\ phase \in Talking =>
       /\ ~StartupFails /\ context.stable = Stable /\ Session(context)
       /\ IF phase = "tool" THEN Calling(context, turns) ELSE AllPaired(context)
       /\ told \ Reminders(reminders) \subseteq Known(context)

\* The last request is still the one that the context gives.
RequestInv ==
  /\ Asking =>
       /\ request = RequestMessages(context, Capacity) /\ request # TooLarge
       /\ turns # 0 /\ (phase = "asking" => ~NeedsCompaction)
  /\ phase = "compacting" =>
       request = CompactionMessages(context, Message("user", NoticeSize, NoCall, {}))

ConversationInv == TypeOK /\ HistoryInv /\ RequestInv

LEMMA StableParts ==
  ASSUME IsProfile(profile), window \in Windows, ~StartupFails
  PROVE  /\ Stable[1] \in SomeMessages /\ Stable = <<Stable[1]>>
         /\ Stable[1].role = "system" /\ Stable[1].call = NoCall /\ Stable[1].says = Rules
         /\ Stable[1].size <= PrefixLimit
         /\ Capacity \in Nat /\ MarkerSize * 5 <= Capacity
<1> DEFINE n == PrefixSize(profile, Details(profile))
           m == Message("system", n, NoCall, Rules)
<1>1. ~(PrefixSize(profile, 0) > PrefixLimit) /\ ~(Capacity <= 0) /\ ~(n >= Capacity)
  BY DEF StartupFails
<1>2. /\ PrefixLimit \in Nat /\ BaseSize \in Nat /\ Protocol \in Nat /\ window \in Nat
      /\ window - Protocol > BaseSize => MarkerSize * 5 <= window - Protocol
  BY SizesAssumption DEF SizesAssumption
<1>3. PrefixSize(profile, 0) \in Nat
  BY PrefixParts
<1>4. n \in Nat /\ n <= PrefixLimit /\ n >= BaseSize
  BY <1>1, <1>2, <1>3, PrefixFits
<1> HIDE DEF n
<1>5. "system" \in Roles /\ NoCall \in Nat /\ Rules \in SUBSET Facts
  BY DEF Roles, NoCall, Rules, Facts
<1>6. m \in SomeMessages /\ m.role = "system" /\ m.size = n /\ m.call = NoCall /\ m.says = Rules
  BY <1>4, <1>5, MessageParts
<1>7. Stable = <<m>>
  BY DEF Stable, n
<1>8. Stable[1] = m
  BY <1>7
<1> HIDE DEF m
<1>9. Capacity \in Nat /\ MarkerSize * 5 <= Capacity
  BY <1>1, <1>2, <1>4 DEF Capacity
<1> QED BY <1>4, <1>6, <1>7, <1>8, <1>9

\* A request for a summary has the complete history.
LEMMA CompactionParts ==
  ASSUME NEW c, Session(c), AllPaired(c)
  PROVE  LET r == CompactionMessages(c, Message("user", NoticeSize, NoCall, {}))
         IN  /\ r \in Seq(SomeMessages) /\ r[1] = c.stable[1] /\ Paired(r)
             /\ UNION {r[i].says : i \in DOMAIN r} = Known(c)
<1> DEFINE m == Message("user", NoticeSize, NoCall, {})
           saved == Saved(c)
           r == Append(saved, m)
           one == <<m>>
<1>1. "user" \in Roles /\ NoticeSize \in Nat /\ NoCall \in Nat /\ {} \in SUBSET Facts
  BY SizesAssumption DEF SizesAssumption, Roles, NoCall
<1>2. m \in SomeMessages /\ m.role = "user" /\ m.says = {}
  BY <1>1, MessageParts
<1>3. saved \in Seq(SomeMessages) /\ Len(saved) >= 2 /\ saved[1] = c.stable[1] /\ Paired(saved)
  BY SavedParts
<1>4. Known(c) = UNION {saved[i].says : i \in DOMAIN saved}
  BY DEF Known
<1> HIDE DEF m, saved
<1>5. one \in Seq(SomeMessages) /\ Paired(one)
  BY <1>2, PairedOne
<1>6. r = saved \o one
  BY <1>2, <1>3, AppendIsConcat
<1>7. Paired(r)
  BY <1>3, <1>5, <1>6, PairedConcat
<1>8. /\ r \in Seq(SomeMessages) /\ DOMAIN saved = 1..Len(saved) /\ Len(saved) \in Nat
      /\ DOMAIN r = 1..(Len(saved) + 1) /\ r[Len(saved) + 1] = m
      /\ \A i \in 1..Len(saved) : r[i] = saved[i]
  BY <1>2, <1>3, AppendProperties
<1> HIDE DEF r
<1>9. r[1] = c.stable[1]
  BY <1>3, <1>8
<1>10. UNION {r[i].says : i \in DOMAIN r} = UNION {saved[i].says : i \in DOMAIN saved}
  <2>1. \A i \in DOMAIN r : i \in DOMAIN saved \/ r[i] = m
    BY <1>8
  <2>2. \A i \in DOMAIN saved : i \in DOMAIN r /\ r[i] = saved[i]
    BY <1>8
  <2> QED BY <1>2, <2>1, <2>2
<1> QED BY <1>4, <1>7, <1>8, <1>9, <1>10 DEF r, m, saved, CompactionMessages

LEMMA ValidSuffices == ConversationInv => ProviderRequestsAreValid
<1> SUFFICES ASSUME ConversationInv, Waiting PROVE ProviderRequestsAreValid
  BY DEF ProviderRequestsAreValid
<1>1. phase \in Talking /\ phase # "tool"
  BY DEF Waiting, Asking, Talking
<1>2. /\ IsProfile(profile) /\ window \in Windows /\ ~StartupFails
      /\ context.stable = Stable /\ Session(context) /\ AllPaired(context)
  BY <1>1 DEF ConversationInv, TypeOK, HistoryInv
<1>3. Stable[1].size <= PrefixLimit /\ Capacity \in Nat
  BY <1>2, StableParts
<1>4. CASE Asking
  <2>1. request = RequestMessages(context, Capacity) /\ request # TooLarge
    BY <1>4 DEF ConversationInv, RequestInv
  <2>2. Capacity \in Int
    BY <1>3
  <2>3. /\ request[1] = Stable[1] /\ Paired(request) /\ Chars(request) <= Capacity
        /\ \A g \in Required(context.groups) : \A i \in DOMAIN context.groups[g] :
             \E j \in DOMAIN request : /\ request[j].role = context.groups[g][i].role
                                       /\ request[j].call = context.groups[g][i].call
    BY <1>2, <2>1, <2>2, RequestParts
  <2>4. request[1].size <= PrefixLimit
    BY <1>3, <2>3
  <2> QED BY <2>3, <2>4 DEF ProviderRequestsAreValid
<1>5. CASE phase = "compacting"
  <2>1. request = CompactionMessages(context, Message("user", NoticeSize, NoCall, {}))
    BY <1>5 DEF ConversationInv, RequestInv
  <2>2. request[1] = Stable[1] /\ Paired(request)
    BY <1>2, <2>1, CompactionParts
  <2>3. ~Asking
    BY <1>5 DEF Asking
  <2>4. request[1].size <= PrefixLimit
    BY <1>3, <2>2
  <2> QED BY <2>2, <2>3, <2>4 DEF ProviderRequestsAreValid
<1> QED BY <1>4, <1>5 DEF Waiting

LEMMA ForgottenSuffices == ConversationInv => NothingIsForgotten
<1> SUFFICES ASSUME ConversationInv, Waiting PROVE NothingIsForgotten
  BY DEF NothingIsForgotten, Waiting
<1>1. phase \in Talking /\ phase # "tool"
  BY DEF Waiting, Asking, Talking
<1>2. /\ IsProfile(profile) /\ window \in Windows /\ ~StartupFails
      /\ context.stable = Stable /\ Session(context) /\ AllPaired(context)
      /\ told \ Reminders(reminders) \subseteq Known(context)
  BY <1>1 DEF ConversationInv, TypeOK, HistoryInv
<1>3. ASSUME Asking,
             \/ phase = "asking" /\ context.groups # << >>
             \/ Chars(Saved(context)) + MarkerSize <= Capacity
      PROVE  told \subseteq Shown
  <2>1. request = RequestMessages(context, Capacity) /\ (phase = "asking" => ~NeedsCompaction)
    BY <1>3 DEF ConversationInv, RequestInv
  <2>2. Capacity \in Nat /\ MarkerSize * 5 <= Capacity /\ MarkerSize \in Nat
    BY <1>2, StableParts, ContextAssumption DEF ContextAssumption
  <2>3. Chars(Saved(context)) \in Nat
    BY <1>2, SavedParts, CharsOfOne
  <2>4. Chars(Saved(context)) + MarkerSize <= Capacity
    <3>1. CASE phase = "asking" /\ context.groups # << >>
      <4>1. ~(Chars(Saved(context)) >= (Capacity * 8) \div 10)
        BY <2>1, <3>1 DEF NeedsCompaction
      <4> DEFINE x == Chars(Saved(context))
                 y == Capacity
      <4>2. x \in Nat /\ y \in Nat /\ MarkerSize \in Nat /\ MarkerSize * 5 <= y
            /\ ~(x >= (y * 8) \div 10)
        BY <2>2, <2>3, <4>1
      <4> HIDE DEF x, y
      <4>3. x + MarkerSize <= y
        BY <4>2
      <4> QED BY <4>3 DEF x, y
    <3> QED BY <1>3, <3>1
  <2>5. Capacity \in Int
    BY <2>2
  <2>6. request = Saved(context)
    BY <1>2, <2>1, <2>4, <2>5, RequestIsSaved
  <2>7. Shown = Known(context)
    BY <2>6 DEF Shown, Known
  <2>8. phase \in Between
    BY <1>3 DEF Asking, Between
  <2>9. reminders = {}
    BY <1>1, <2>8 DEF ConversationInv, HistoryInv
  <2> QED BY <1>2, <2>7, <2>9 DEF Reminders
<1>4. ASSUME phase = "compacting" PROVE told \ Reminders(reminders) \subseteq Shown
  <2>1. request = CompactionMessages(context, Message("user", NoticeSize, NoCall, {}))
    BY <1>4 DEF ConversationInv, RequestInv
  <2>2. Shown = Known(context)
    BY <1>2, <2>1, CompactionParts DEF Shown
  <2> QED BY <1>2, <2>2
<1> QED BY <1>3, <1>4 DEF NothingIsForgotten

LEMMA ConversationInit == Init => ConversationInv
<1> SUFFICES ASSUME Init PROVE ConversationInv
  OBVIOUS
<1>1. phase = "configured" /\ reminders = {} /\ turns = 0 /\ version = 0 /\ size = 0
  BY DEF Init
<1>2. phase \notin {"new"} \cup Talking /\ ~Asking /\ phase # "compacting"
  BY <1>1 DEF Talking, Asking
<1> QED BY <1>1, <1>2 DEF ConversationInv, TypeOK, HistoryInv, RequestInv

\* What concerns neither the session nor its loop.
LEMMA OthersStep ==
  ASSUME ConversationInv,
         UNCHANGED <<profile, window, context, phase, request, reminders, turns, told>>,
         version' \in Nat, size' \in Nat
  PROVE  ConversationInv'
<1>1. TypeOK'
  BY DEF ConversationInv, TypeOK
<1>2. StartupFails' <=> StartupFails
  BY DEF StartupFails, Capacity
<1>3. Stable' = Stable
  BY DEF Stable
<1>4. HistoryInv'
  BY <1>2, <1>3 DEF ConversationInv, HistoryInv
<1>5. Capacity' = Capacity /\ (NeedsCompaction' <=> NeedsCompaction) /\ (Asking' <=> Asking)
  BY DEF Capacity, NeedsCompaction, Asking
<1>6. RequestInv'
  BY <1>5 DEF ConversationInv, RequestInv
<1> QED BY <1>1, <1>4, <1>6 DEF ConversationInv

\* The end of an Agent, and the launch before its session.
LEMMA OutsideStep ==
  ASSUME ConversationInv, phase' \notin {"new"} \cup Talking,
         phase' \in Starting => phase \in Starting,
         UNCHANGED <<version, size, turns, reminders>>
  PROVE  ConversationInv'
<1>1. ~(phase' \in Talking) /\ ~(phase' = "new")
  OBVIOUS
<1>2. TypeOK'
  BY <1>1 DEF ConversationInv, TypeOK
<1>3. HistoryInv'
  <2>1. phase' \in Starting \cup Between => phase \in Starting
    BY <1>1 DEF Talking, Between
  <2> QED BY <1>1, <2>1 DEF ConversationInv, HistoryInv
<1>4. ~Asking' /\ phase' # "compacting"
  BY <1>1 DEF Asking, Talking
<1>5. RequestInv'
  BY <1>4 DEF RequestInv
<1> QED BY <1>2, <1>3, <1>5 DEF ConversationInv

\* A turn goes on with a history that follows the one before.
LEMMA GoesOn ==
  ASSUME ConversationInv, phase \in Talking, phase' \in {"ready", "compacted"},
         UNCHANGED <<profile, window, version, size, turns>>, reminders' = {},
         Session(context'), AllPaired(context'), context'.stable = context.stable,
         told' \subseteq Known(context') /\ told' \subseteq Facts
  PROVE  ConversationInv'
<1>1. /\ IsProfile(profile) /\ window \in Windows /\ turns \in Nat /\ version \in Nat /\ size \in Nat
      /\ ~StartupFails /\ context.stable = Stable
  BY DEF ConversationInv, TypeOK, HistoryInv
<1>2. phase' \in Talking /\ phase' # "tool" /\ ~Asking' /\ phase' # "compacting"
  BY DEF Talking, Asking
<1>3. TypeOK'
  BY <1>1, <1>2 DEF TypeOK
<1>4. ~StartupFails' /\ Stable' = Stable
  BY <1>1 DEF StartupFails, Capacity, Stable
<1>5. HistoryInv'
  BY <1>1, <1>2, <1>4 DEF HistoryInv
<1>6. RequestInv'
  BY <1>2 DEF RequestInv
<1> QED BY <1>3, <1>5, <1>6 DEF ConversationInv

\* The session that the Agent built last gets.
LEMMA StartStep ==
  ASSUME ConversationInv, LaunchInv, NEW w \in Windows, StartSession(w)
  PROVE  ConversationInv'
<1> DEFINE p == definition.profiles[Last(chain)]
           Sizes(names) == [i \in DOMAIN names |-> Describing[names[i]]]
<1>1. /\ phase = "launched" /\ phase' = "new" /\ window' = w /\ size' = Min(SourceSizes)
      /\ profile' = [skills |-> Sizes(p.skills), children |-> Sizes(p.children)]
      /\ version' = version /\ turns' = turns /\ reminders' = reminders
  BY DEF StartSession
<1>2. definition \in Definitions /\ Path(definition, chain)
  BY <1>1 DEF LaunchInv
<1>3. Last(chain) \in DOMAIN definition.profiles
  BY <1>2 DEF Path, Last
<1>4. p.skills \in Seq(DOMAIN Describing) /\ p.children \in Seq(DOMAIN Describing)
  BY <1>2, <1>3, DefinitionsAssumption DEF DefinitionsAssumption
<1> HIDE DEF p
<1>5. ASSUME NEW names \in Seq(DOMAIN Describing) PROVE Sizes(names) \in Seq(Nat)
  <2>1. Describing \in [DOMAIN Describing -> Nat]
    BY DefinitionsAssumption DEF DefinitionsAssumption
  <2>2. Len(names) \in Nat /\ DOMAIN names = 1..Len(names)
        /\ \A i \in 1..Len(names) : names[i] \in DOMAIN Describing
    OBVIOUS
  <2>3. \A i \in 1..Len(names) : Describing[names[i]] \in Nat
    BY <2>1, <2>2
  <2>4. Sizes(names) \in [1..Len(names) -> Nat]
    BY <2>2, <2>3
  <2> HIDE DEF Sizes
  <2> QED BY <2>2, <2>4, SeqDef
<1>6. IsProfile(profile')
  <2>1. Sizes(p.skills) \in Seq(Nat) /\ Sizes(p.children) \in Seq(Nat)
    BY <1>4, <1>5
  <2> HIDE DEF Sizes
  <2>2. profile'.skills = Sizes(p.skills) /\ profile'.children = Sizes(p.children)
    BY <1>1
  <2> QED BY <2>1, <2>2 DEF IsProfile
<1>7. size' \in Nat
  <2>1. SourceSizes \in SUBSET Nat /\ SourceSizes # {}
    BY SizesAssumption DEF SizesAssumption
  <2> QED BY <1>1, <2>1, MinOf
<1>8. phase' \notin Talking /\ ~Asking' /\ phase' # "compacting"
  BY <1>1 DEF Talking, Asking
<1>9. TypeOK'
  BY <1>1, <1>6, <1>7, <1>8 DEF ConversationInv, TypeOK
<1>10. reminders = {}
  BY <1>1 DEF ConversationInv, HistoryInv, Starting
<1> QED BY <1>1, <1>8, <1>9, <1>10 DEF ConversationInv, HistoryInv, RequestInv

\* prepare_task: the first message to the Agent is the task with the source.
LEMMA PrepareStep ==
  ASSUME ConversationInv, NEW n \in TaskSizes, Prepare(n)
  PROVE  ConversationInv'
<1> DEFINE facts == Task \cup {<<"source", version>>}
           message == Message("user", n + size, NoCall, facts)
           user == Clipped(message, MessageLimit)
           started == NewContext(Stable, message)
<1>1. phase = "new" /\ version' = version /\ size' = size /\ turns' = turns /\ reminders' = reminders
  BY DEF Prepare, End, environment
<1>2. CASE cancelled \/ StartupFails \/ size > SourceLimit
  <2>1. phase' \in {"cancelled", "context_budget_exceeded"}
    BY <1>2 DEF Prepare, End
  <2> QED BY <1>1, <2>1, OutsideStep DEF Talking, Starting
<1>3. CASE ~(cancelled \/ StartupFails \/ size > SourceLimit)
  <2>1. /\ context' = started /\ told' = started.user.says
        /\ phase' = IF RequestMessages(started, Capacity) = TooLarge
                    THEN "context_budget_exceeded" ELSE "ready"
        /\ profile' = profile /\ window' = window
    BY <1>3 DEF Prepare, environment
  <2>2. CASE phase' = "context_budget_exceeded"
    BY <1>1, <2>2, OutsideStep DEF Talking, Starting
  <2>3. CASE phase' = "ready"
    <3>1. IsProfile(profile) /\ window \in Windows /\ ~StartupFails
      BY <1>1, <1>3 DEF ConversationInv, TypeOK
    <3>2. /\ Stable[1] \in SomeMessages /\ Stable = <<Stable[1]>>
          /\ Stable[1].role = "system" /\ Stable[1].call = NoCall
      BY <3>1, StableParts
    <3>3. user \in SomeMessages /\ user.role = "user" /\ user.call = NoCall
      <4>1. "user" \in Roles /\ n + size \in Nat /\ NoCall \in Nat /\ facts \in SUBSET Facts
        <5>1. n \in Nat /\ size \in Nat /\ version \in Nat
          BY SizesAssumption DEF SizesAssumption, ConversationInv, TypeOK
        <5> QED BY <5>1 DEF Roles, NoCall, Facts, Task
      <4>2. message \in SomeMessages /\ message.role = "user" /\ message.call = NoCall
        <5> DEFINE k == n + size
        <5> HIDE DEF k, facts
        <5>1. LET m == Message("user", k, NoCall, facts)
              IN  m \in SomeMessages /\ m.role = "user" /\ m.call = NoCall
          BY <4>1, MessageParts DEF k
        <5> QED BY <5>1 DEF k
      <4>3. MessageLimit \in Nat
        BY ContextAssumption DEF ContextAssumption
      <4> HIDE DEF message
      <4> QED BY <4>2, <4>3, ClippedParts
    <3> HIDE DEF user
    <3>4. started = [stable |-> Stable, user |-> user, groups |-> << >>]
      BY DEF NewContext, user
    <3> HIDE DEF started
    <3>5. started.stable = Stable /\ started.user = user /\ started.groups = << >>
      BY <3>4
    <3>6. Session(started)
      <4>1. << >> \in Groups
        BY DEF Groups
      <4>2. Stable \in Seq(SomeMessages) /\ Len(Stable) = 1
        <5> DEFINE first == Stable[1]
        <5>1. first \in SomeMessages /\ Stable = <<first>>
          BY <3>2
        <5> HIDE DEF first
        <5>2. <<first>> \in Seq(SomeMessages) /\ Len(<<first>>) = 1
          BY <5>1
        <5> QED BY <5>1, <5>2
      <4>3. started \in Contexts
        BY <3>3, <3>4, <4>1, <4>2 DEF Contexts
      <4> QED BY <3>2, <3>3, <3>5, <4>2, <4>3 DEF Session
    <3>7. AllPaired(started)
      BY <3>5 DEF AllPaired
    <3>8. user.says \subseteq Known(started)
      BY <3>5, <3>6, KnownParts
    <3>9. user.says \subseteq Facts
      BY <3>3 DEF SomeMessages
    <3>10. reminders = {}
      BY <1>1 DEF ConversationInv, HistoryInv, Starting
    <3>11. phase' \in Talking /\ phase' # "tool" /\ ~Asking' /\ phase' # "compacting"
      BY <2>3 DEF Talking, Asking
    <3>12. TypeOK'
      BY <1>1, <2>1, <3>1, <3>5, <3>9 DEF TypeOK, ConversationInv
    <3>13. ~StartupFails' /\ Stable' = Stable
      BY <2>1, <3>1 DEF StartupFails, Capacity, Stable
    <3>14. HistoryInv'
      BY <1>1, <2>1, <3>5, <3>6, <3>7, <3>8, <3>10, <3>11, <3>13 DEF HistoryInv
    <3>15. RequestInv'
      BY <3>11 DEF RequestInv
    <3> QED BY <3>12, <3>14, <3>15 DEF ConversationInv
  <2> QED BY <2>1, <2>2, <2>3
<1> QED BY <1>2, <1>3

\* The first request of a turn, for its answer or for a summary.
LEMMA AskStep ==
  ASSUME ConversationInv, Ask \/ AskForSummary
  PROVE  ConversationInv'
<1>1. /\ phase \in {"ready", "compacted"}
      /\ UNCHANGED <<profile, window, version, size, context, told>>
  BY DEF Ask, AskForSummary, environment
<1>2. phase \in Talking /\ phase \in Between /\ phase # "tool"
  BY <1>1 DEF Talking, Between
<1>3. /\ IsProfile(profile) /\ window \in Windows /\ turns \in Nat /\ version \in Nat /\ size \in Nat
      /\ told \subseteq Facts /\ ~StartupFails /\ context.stable = Stable /\ Session(context)
      /\ AllPaired(context) /\ reminders = {} /\ told \subseteq Known(context)
  BY <1>2 DEF ConversationInv, TypeOK, HistoryInv, Reminders
<1>4. /\ ~StartupFails' /\ Stable' = Stable /\ Capacity' = Capacity
      /\ NeedsCompaction' <=> NeedsCompaction
  BY <1>1, <1>3 DEF StartupFails, Capacity, Stable, NeedsCompaction
<1>5. ASSUME phase' \in Talking \ {"tool"}, turns' \in Nat, reminders' = {} PROVE TypeOK' /\ HistoryInv'
  <2>1. TypeOK'
    BY <1>1, <1>3, <1>5 DEF TypeOK
  <2>2. HistoryInv'
    BY <1>1, <1>3, <1>4, <1>5 DEF HistoryInv
  <2> QED BY <2>1, <2>2
<1>6. CASE AskForSummary
  <2>1. /\ phase' = "compacting" /\ turns' = turns /\ reminders' = {}
        /\ request' = CompactionMessages(context, Message("user", NoticeSize, NoCall, {}))
    BY <1>6 DEF AskForSummary
  <2>2. ~Asking'
    BY <2>1 DEF Asking
  <2>3. RequestInv'
    BY <1>1, <2>1, <2>2 DEF RequestInv
  <2>4. phase' \in Talking \ {"tool"}
    BY <2>1 DEF Talking
  <2> QED BY <1>3, <1>5, <2>1, <2>3, <2>4 DEF ConversationInv
<1>7. CASE Ask
  <2>1. reminders' = reminders
    BY <1>7 DEF Ask
  <2>2. CASE RequestMessages(context, Capacity) = TooLarge
    <3>1. phase' = "context_budget_exceeded" /\ turns' = turns
      BY <1>7, <2>2 DEF Ask
    <3> QED BY <1>1, <2>1, <3>1, OutsideStep DEF Talking, Starting
  <2>3. CASE RequestMessages(context, Capacity) # TooLarge
    <3>1. /\ request' = RequestMessages(context, Capacity) /\ turns' = turns + 1
          /\ phase' = IF phase = "compacted" THEN "asking_anew" ELSE "asking"
          /\ phase = "compacted" \/ (phase = "ready" /\ ~NeedsCompaction)
      BY <1>7, <2>3 DEF Ask
    <3>2. phase' \in Talking \ {"tool"} /\ phase' # "compacting" /\ turns' \in Nat /\ turns' # 0
      BY <1>3, <3>1 DEF Talking
    <3>3. phase' = "asking" => ~NeedsCompaction'
      BY <1>4, <3>1
    <3>4. RequestMessages(context, Capacity)' = RequestMessages(context, Capacity)
      BY <1>1, <1>4
    <3>5. RequestInv'
      BY <2>3, <3>1, <3>2, <3>3, <3>4 DEF RequestInv
    <3> QED BY <1>3, <1>5, <2>1, <3>2, <3>5 DEF ConversationInv
  <2> QED BY <2>2, <2>3
<1> QED BY <1>6, <1>7

LEMMA CrossedParts ==
  ASSUME NEW cost
  PROVE  /\ Crossed(cost) \subseteq Thresholds /\ Crossed(cost) \cap Thresholds = Crossed(cost)
         /\ \A ps \in SUBSET Thresholds : Reminders(ps) \subseteq Facts
BY DEF Crossed, Thresholds, Reminders, Facts

\* What holds while the model is asked.
LEMMA AskingParts ==
  ASSUME ConversationInv, Asking
  PROVE  /\ turns \in Nat \ {0} /\ told \subseteq Facts
         /\ Session(context) /\ AllPaired(context) /\ reminders = {}
         /\ told \subseteq Known(context) /\ phase \in Talking
<1>1. phase \in Talking /\ phase \in Between /\ phase # "tool"
  BY DEF Asking, Talking, Between
<1>2. reminders = {} /\ told \ Reminders(reminders) \subseteq Known(context)
  BY <1>1 DEF ConversationInv, HistoryInv
<1>3. told \subseteq Known(context)
  BY <1>2 DEF Reminders
<1>4. Session(context) /\ AllPaired(context)
  BY <1>1 DEF ConversationInv, HistoryInv
<1>5. turns \in Nat \ {0} /\ told \subseteq Facts
  BY <1>1 DEF ConversationInv, TypeOK, RequestInv
<1> QED BY <1>1, <1>2, <1>3, <1>4, <1>5

LEMMA GoOnStep ==
  ASSUME ConversationInv, Asking, NEW c, NEW cost, NEW facts, facts \subseteq Facts,
         Follows(context, c, facts), GoOn(c, cost, facts)
  PROVE  ConversationInv'
<1> DEFINE new == Crossed(cost)
<1>1. /\ context' = WithReminders(c, new) /\ told' = told \cup facts \cup Reminders(new)
      /\ phase' = "ready" /\ reminders' = reminders
      /\ UNCHANGED <<profile, window, version, size, turns>>
  BY DEF GoOn, environment
<1>2. /\ Session(context) /\ told \subseteq Facts /\ told \subseteq Known(context)
      /\ reminders = {} /\ phase \in Talking
  BY AskingParts
<1>3. new \subseteq Thresholds /\ new \cap Thresholds = new /\ Reminders(new) \subseteq Facts
  BY CrossedParts
<1> HIDE DEF new
<1>4. Follows(c, WithReminders(c, new), Reminders(new))
  <2>1. Session(c) /\ AllPaired(c)
    BY DEF Follows
  <2>2. Follows(c, WithReminders(c, new), Reminders(new \cap Thresholds))
    BY <2>1, RemindersFollow
  <2> QED BY <1>3, <2>2
<1>5. Follows(context, context', facts \cup Reminders(new))
  BY <1>1, <1>4, FollowsOn
<1>6. /\ Session(context') /\ AllPaired(context') /\ context'.stable = context.stable
      /\ told' \subseteq Known(context') /\ told' \subseteq Facts
  BY <1>1, <1>2, <1>3, <1>5 DEF Follows
<1> QED BY <1>1, <1>2, <1>6, GoesOn

\* Answers that call no Tool.
LEMMA AnswerStep ==
  ASSUME ConversationInv, NEW n \in TextSizes, NEW cost \in Charges,
         Mixed(n, cost) \/ Invalid(n, cost)
  PROVE  ConversationInv'
<1> DEFINE correction == <<"correction", turns>>
           text == <<"text", turns>>
           notice == Notice(correction)
           answer == Message("assistant", n, NoCall, {text})
<1>1. Asking
  BY DEF Mixed, Invalid, Answered
<1>2. turns \in Nat /\ Session(context) /\ AllPaired(context)
  BY <1>1, AskingParts
<1>3. correction \in Facts /\ text \in Facts
  BY <1>2 DEF Facts
<1>4. notice \in SomeMessages /\ notice.role = "user" /\ notice.size <= MessageLimit
      /\ notice.says = {correction}
  BY <1>3, NoticeParts DEF Notice
<1>5. answer \in SomeMessages /\ answer.role = "assistant" /\ answer.call = NoCall
      /\ answer.says = {text}
  <2>1. "assistant" \in Roles /\ n \in Nat /\ NoCall \in Nat /\ {text} \in SUBSET Facts
    BY <1>3, SizesAssumption DEF SizesAssumption, Roles, NoCall
  <2> HIDE DEF text
  <2> QED BY <2>1, MessageParts
<1> HIDE DEF correction, text, notice, answer
<1>6. CASE Mixed(n, cost)
  <2>1. Follows(context, AppendFeedback(context, notice), {correction})
    BY <1>2, <1>4, FeedbackFollows
  <2>2. GoOn(AppendFeedback(context, notice), cost, {correction})
    BY <1>6 DEF Mixed, notice, correction
  <2>3. {correction} \subseteq Facts
    BY <1>3
  <2> QED BY <1>1, <2>1, <2>2, <2>3, GoOnStep
<1>7. CASE Invalid(n, cost)
  <2> DEFINE c == AppendAssistant(context, answer)
             d == AppendFeedback(c, notice)
  <2>1. Follows(context, c, {text})
    BY <1>2, <1>5, AssistantFollows
  <2> HIDE DEF c
  <2>2. Follows(c, d, {correction})
    BY <1>4, <2>1, FeedbackFollows DEF Follows
  <2>3. GoOn(d, cost, {text, correction})
    BY <1>7 DEF Invalid, notice, correction, text, answer, c
  <2> HIDE DEF d
  <2>4. Follows(context, d, {text} \cup {correction})
    BY <2>1, <2>2, FollowsOn
  <2>5. {text} \cup {correction} = {text, correction} /\ {text, correction} \subseteq Facts
    BY <1>3
  <2>6. Follows(context, d, {text, correction})
    BY <2>4, <2>5
  <2> QED BY <1>1, <2>3, <2>5, <2>6, GoOnStep
<1> QED BY <1>6, <1>7

\* An answer that is one call.
LEMMA CallStep ==
  ASSUME ConversationInv, NEW cost, CallTool(cost)
  PROVE  ConversationInv'
<1> DEFINE new == Crossed(cost)
           call == Message("assistant", NoticeSize, turns, {})
<1>1. /\ Asking /\ context' = AppendAssistant(context, call) /\ reminders' = new
      /\ told' = told \cup Reminders(new) /\ phase' = "tool"
      /\ UNCHANGED <<profile, window, version, size, turns>>
  BY DEF CallTool, Answered, environment
<1>2. /\ turns \in Nat \ {0} /\ Session(context) /\ AllPaired(context)
      /\ told \subseteq Facts /\ told \subseteq Known(context) /\ phase \in Talking
  BY <1>1, AskingParts
<1>3. /\ IsProfile(profile) /\ window \in Windows /\ version \in Nat /\ size \in Nat
      /\ ~StartupFails /\ context.stable = Stable
  BY <1>2 DEF ConversationInv, TypeOK, HistoryInv
<1>4. new \subseteq Thresholds /\ Reminders(new) \subseteq Facts
  BY CrossedParts
<1>5. call \in SomeMessages /\ call.role = "assistant" /\ call.call = turns
  <2>1. "assistant" \in Roles /\ NoticeSize \in Nat /\ turns \in Nat /\ {} \in SUBSET Facts
    BY <1>2, SizesAssumption DEF SizesAssumption, Roles
  <2> QED BY <2>1, MessageParts
<1> HIDE DEF new, call
<1>6. /\ Calling(context', turns) /\ context'.stable = context.stable
      /\ Known(context) \subseteq Known(context')
  BY <1>1, <1>2, <1>5, CallFollows
<1>7. phase' \in Talking /\ ~Asking' /\ phase' # "compacting" /\ phase' \notin Starting \cup Between
  BY <1>1 DEF Talking, Asking, Starting, Between
<1>8. TypeOK'
  BY <1>1, <1>2, <1>3, <1>4 DEF TypeOK
<1>9. ~StartupFails' /\ Stable' = Stable
  BY <1>1, <1>3 DEF StartupFails, Capacity, Stable
<1>10. Session(context')
  BY <1>6 DEF Calling
<1>11. told' \ Reminders(reminders') \subseteq Known(context')
  BY <1>1, <1>2, <1>6
<1>12. HistoryInv'
  BY <1>1, <1>3, <1>6, <1>7, <1>9, <1>10, <1>11 DEF HistoryInv
<1>13. RequestInv'
  BY <1>7 DEF RequestInv
<1> QED BY <1>8, <1>12, <1>13 DEF ConversationInv

\* The answer of the toolbox.
LEMMA ToolStep ==
  ASSUME ConversationInv, NEW n \in TextSizes, NEW readsSkill \in BOOLEAN, ToolResult(n, readsSkill)
  PROVE  ConversationInv'
<1> DEFINE result == Message("tool", n, turns, {<<"result", turns>>})
           skill == Message("user", n, NoCall, {<<"skill", turns>>})
           answered == AppendToolResult(context, result)
           full == IF readsSkill THEN AppendFeedback(answered, skill) ELSE answered
           facts == {<<"result", turns>>} \cup (IF readsSkill THEN {<<"skill", turns>>} ELSE {})
<1>1. /\ phase = "tool" /\ context' = WithReminders(full, reminders) /\ told' = told \cup facts
      /\ phase' = IF cancelled THEN "cancelled" ELSE "ready"
      /\ reminders' = {} /\ UNCHANGED <<profile, window, version, size, turns>>
  BY DEF ToolResult, environment
<1>2. phase \in Talking
  BY <1>1 DEF Talking
<1>3. /\ told \subseteq Facts /\ reminders \subseteq Thresholds /\ turns \in Nat
      /\ Calling(context, turns) /\ told \ Reminders(reminders) \subseteq Known(context)
  BY <1>1, <1>2 DEF ConversationInv, TypeOK, HistoryInv
<1>4. n \in Nat /\ n <= MessageLimit
  BY SizesAssumption DEF SizesAssumption
<1>5. facts \subseteq Facts /\ {<<"result", turns>>} \in SUBSET Facts /\ {<<"skill", turns>>} \in SUBSET Facts
  BY <1>3 DEF Facts
<1>6. /\ result \in SomeMessages /\ result.role = "tool" /\ result.call = turns
      /\ result.size <= MessageLimit /\ result.says = {<<"result", turns>>}
  <2>1. "tool" \in Roles
    BY DEF Roles
  <2> QED BY <1>3, <1>4, <1>5, <2>1, MessageParts
<1>7. /\ skill \in SomeMessages /\ skill.role = "user"
      /\ skill.size <= MessageLimit /\ skill.says = {<<"skill", turns>>}
  <2>1. "user" \in Roles /\ NoCall \in Nat
    BY DEF Roles, NoCall
  <2> QED BY <1>4, <1>5, <2>1, MessageParts
<1> HIDE DEF result, skill
<1>8. Follows(context, answered, {<<"result", turns>>})
  BY <1>3, <1>6, ResultFollows
<1> HIDE DEF answered
<1>9. Follows(context, full, facts)
  <2>1. CASE readsSkill
    <3>1. Session(answered) /\ AllPaired(answered)
      BY <1>8 DEF Follows
    <3>2. Follows(answered, AppendFeedback(answered, skill), {<<"skill", turns>>})
      BY <1>7, <3>1, FeedbackFollows
    <3>3. Follows(context, AppendFeedback(answered, skill),
                  {<<"result", turns>>} \cup {<<"skill", turns>>})
      BY <1>8, <3>2, FollowsOn
    <3> QED BY <2>1, <3>3
  <2>2. CASE ~readsSkill
    <3>1. full = answered /\ facts = {<<"result", turns>>}
      BY <2>2
    <3> HIDE DEF full, facts
    <3> QED BY <1>8, <3>1
  <2> QED BY <2>1, <2>2
<1> HIDE DEF full, facts
<1>10. Follows(full, context', Reminders(reminders))
  <2>1. Session(full) /\ AllPaired(full)
    BY <1>9 DEF Follows
  <2>2. Follows(full, WithReminders(full, reminders), Reminders(reminders \cap Thresholds))
    BY <2>1, RemindersFollow
  <2>3. reminders \cap Thresholds = reminders
    BY <1>3
  <2> QED BY <1>1, <2>2, <2>3
<1>11. Follows(context, context', facts \cup Reminders(reminders))
  BY <1>9, <1>10, FollowsOn
<1>12. CASE phase' = "ready"
  <2>1. /\ Session(context') /\ AllPaired(context') /\ context'.stable = context.stable
        /\ told' \subseteq Known(context') /\ told' \subseteq Facts
    BY <1>1, <1>3, <1>5, <1>11 DEF Follows
  <2> QED BY <1>1, <1>2, <1>12, <2>1, GoesOn
<1>13. CASE phase' = "cancelled"
  <2>1. phase' \notin Talking /\ phase' \notin Starting \cup Between /\ phase' # "new" /\ ~Asking'
        /\ phase' # "compacting"
    BY <1>13 DEF Talking, Starting, Between, Asking
  <2>2. TypeOK'
    BY <1>1, <2>1 DEF TypeOK, ConversationInv
  <2>3. HistoryInv' /\ RequestInv'
    BY <2>1 DEF HistoryInv, RequestInv
  <2> QED BY <2>2, <2>3 DEF ConversationInv
<1> QED BY <1>1, <1>12, <1>13

\* A history that a summary replaces.
LEMMA ReplacedParts ==
  ASSUME NEW c, Session(c), NEW m \in SomeMessages, m.role = "user", NEW limit \in Nat
  PROVE  LET d == ReplaceHistory(c, m, limit)
         IN  /\ Session(d) /\ AllPaired(d) /\ d.stable = c.stable /\ d.user = c.user
             /\ c.stable[1].says \cup c.user.says \subseteq Known(d)
             /\ m.size <= limit => m.says \subseteq Known(d)
<1> DEFINE k == Clipped(m, limit)
           one == <<k>>
           only == <<one>>
           d == ReplaceHistory(c, m, limit)
<1>1. k \in SomeMessages /\ k.role = "user" /\ (m.size <= limit => k = m)
  BY ClippedParts
<1> HIDE DEF k
<1>2. one \in Seq(SomeMessages) /\ Paired(one)
  BY <1>1, PairedOne
<1>3. one # << >> /\ DOMAIN one = {1} /\ one[1] = k
  OBVIOUS
<1> HIDE DEF one
<1>4. only \in Groups /\ DOMAIN only = {1} /\ only[1] = one
  BY <1>2 DEF Groups
<1>5. d = [c EXCEPT !.groups = only]
  BY DEF ReplaceHistory, only, one, k
<1> HIDE DEF only, d
<1>6. c \in Contexts
  BY DEF Session
<1>7. d = [stable |-> c.stable, user |-> c.user, groups |-> only]
  <2>1. c = [stable |-> c.stable, user |-> c.user, groups |-> c.groups]
    BY <1>6 DEF Contexts
  <2> QED BY <1>5, <2>1
<1>8. d \in Contexts /\ d.stable = c.stable /\ d.user = c.user /\ d.groups = only
  BY <1>4, <1>6, <1>7 DEF Contexts
<1>9. Session(d)
  <2>1. \A g \in DOMAIN d.groups : d.groups[g] # << >>
    BY <1>3, <1>4, <1>8
  <2>2. /\ Len(d.stable) = 1 /\ d.stable[1].role = "system" /\ d.stable[1].call = NoCall
        /\ d.user.role = "user" /\ d.user.call = NoCall
    BY <1>8 DEF Session
  <2> QED BY <1>8, <2>1, <2>2 DEF Session
<1>10. AllPaired(d)
  BY <1>2, <1>4, <1>8 DEF AllPaired
<1>11. c.stable[1].says \cup c.user.says \subseteq Known(d)
  BY <1>8, <1>9, KnownParts
<1>12. ASSUME m.size <= limit PROVE m.says \subseteq Known(d)
  <2>1. \A f \in m.says : \E g \in DOMAIN d.groups : \E i \in DOMAIN d.groups[g] :
          f \in d.groups[g][i].says
    BY <1>1, <1>3, <1>4, <1>8, <1>12
  <2> QED BY <1>9, <2>1, KnownParts
<1> QED BY <1>8, <1>9, <1>10, <1>11, <1>12 DEF d

\* The answer to a request for a summary.
LEMMA SummarizedStep ==
  ASSUME ConversationInv, NEW n \in SummarySizes, NEW cost, Summarized(n, cost)
  PROVE  ConversationInv'
<1> DEFINE new == Crossed(cost)
           crossed == reminders \cup new
           summary == Summary(n)
           replaced == ReplaceHistory(context, summary, SummaryLimit)
           anchored == WithSource(replaced)
           newest == {<<"source", version>>}
           kept == NoOldSource(IF HeaderSize + n > SummaryLimit THEN context.user.says ELSE told)
<1>1. /\ phase = "compacting" /\ UNCHANGED <<profile, window, version, size, turns>>
  BY DEF Summarized, End, environment
<1>2. phase \in Talking /\ phase # "tool" /\ ~Asking
  BY <1>1 DEF Talking, Asking
<1>3. /\ IsProfile(profile) /\ window \in Windows /\ turns \in Nat /\ version \in Nat /\ size \in Nat
      /\ told \subseteq Facts /\ ~StartupFails /\ context.stable = Stable /\ Session(context)
      /\ AllPaired(context) /\ reminders \subseteq Thresholds
      /\ told \ Reminders(reminders) \subseteq Known(context)
      /\ request = CompactionMessages(context, Message("user", NoticeSize, NoCall, {}))
  BY <1>1, <1>2 DEF ConversationInv, TypeOK, HistoryInv, RequestInv
<1>4. new \subseteq Thresholds /\ crossed \subseteq Thresholds /\ Reminders(crossed) \subseteq Facts
  <2>1. crossed \in SUBSET Thresholds
    BY <1>3, CrossedParts
  <2> QED BY <2>1, CrossedParts
<1>5. Reminders(crossed) = Reminders(reminders) \cup Reminders(new)
  BY DEF Reminders
<1> HIDE DEF new
<1>6. ASSUME left - cost < 0 \/ cancelled PROVE ConversationInv'
  <2>1. phase' \in {"rollout_budget_exceeded", "cancelled"} /\ reminders' = reminders
    BY <1>6 DEF Summarized, End
  <2> QED BY <1>1, <2>1, OutsideStep DEF Talking, Starting
<1>7. ASSUME ~(left - cost < 0), ~cancelled, n \notin 1..SummaryLimit PROVE ConversationInv'
  <2>1. /\ phase' = (IF attempt = 2 THEN "context_compaction_failed" ELSE phase)
        /\ reminders' = crossed /\ told' = told \cup Reminders(new)
        /\ context' = context /\ request' = request
    BY <1>7 DEF Summarized, new
  <2>2. ~Asking' /\ phase' \notin Starting \cup Between
    BY <1>1, <2>1 DEF Asking, Starting, Between
  <2>3. phase' \in Talking => phase' = "compacting"
    BY <1>1, <2>1 DEF Talking
  <2>4. phase' = "compacting" => phase' \in Talking
    BY DEF Talking
  <2>5. TypeOK'
    BY <1>1, <1>3, <1>4, <1>5, <2>1 DEF TypeOK
  <2>6. ~StartupFails' /\ Stable' = Stable
    BY <1>1, <1>3 DEF StartupFails, Capacity, Stable
  <2>7. told' \ Reminders(reminders') \subseteq Known(context')
    BY <1>3, <1>5, <2>1
  <2>8. HistoryInv'
    BY <1>3, <2>1, <2>2, <2>3, <2>6, <2>7 DEF HistoryInv
  <2>9. RequestInv'
    BY <1>3, <2>1, <2>2 DEF RequestInv
  <2> QED BY <2>5, <2>8, <2>9 DEF ConversationInv
<1>8. ASSUME ~(left - cost < 0), ~cancelled, n \in 1..SummaryLimit, size > SourceLimit
      PROVE  ConversationInv'
  <2>1. phase' = "context_budget_exceeded" /\ reminders' = reminders
    BY <1>8 DEF Summarized, End
  <2> QED BY <1>1, <2>1, OutsideStep DEF Talking, Starting
<1>9. ASSUME ~(left - cost < 0), ~cancelled, n \in 1..SummaryLimit, ~(size > SourceLimit)
      PROVE  ConversationInv'
  <2>1. /\ context' = WithReminders(anchored, crossed) /\ phase' = "compacted" /\ reminders' = {}
        /\ told' = Reminders(crossed) \cup newest \cup kept
    BY <1>9 DEF Summarized, new
  <2>2. UNION {request[i].says : i \in DOMAIN request} = Known(context)
    BY <1>3, CompactionParts
  <2>3. Known(context) \subseteq Facts
    <3>1. Saved(context) \in Seq(SomeMessages)
      BY <1>3, SavedParts
    <3>2. ASSUME NEW i \in DOMAIN Saved(context) PROVE Saved(context)[i].says \subseteq Facts
      <4>1. Saved(context)[i] \in SomeMessages
        BY <3>1
      <4> QED BY <4>1 DEF SomeMessages
    <3> QED BY <3>2 DEF Known
  <2>4. /\ summary \in SomeMessages /\ summary.role = "user" /\ summary.size = HeaderSize + n
        /\ summary.says = Known(context) \ Rules
    <3> DEFINE says == Known(context) \ Rules
               length == HeaderSize + n
    <3>1. "user" \in Roles /\ length \in Nat /\ NoCall \in Nat /\ says \in SUBSET Facts
      BY <2>3, SizesAssumption DEF SizesAssumption, Roles, NoCall
    <3>2. summary = Message("user", length, NoCall, says)
      <4> DEFINE shown == UNION {request[i].says : i \in DOMAIN request}
      <4>1. summary = Message("user", length, NoCall, shown \ Rules)
        BY DEF Summary
      <4>2. shown \ Rules = says
        BY <2>2
      <4> HIDE DEF shown, says, summary, length
      <4> QED BY <4>1, <4>2
    <3> HIDE DEF says, length, summary
    <3>3. LET m == Message("user", length, NoCall, says)
          IN  m \in SomeMessages /\ m.role = "user" /\ m.size = length /\ m.says = says
      BY <3>1, MessageParts
    <3>4. /\ summary \in SomeMessages /\ summary.role = "user" /\ summary.size = length
          /\ summary.says = says
      BY <3>2, <3>3
    <3> QED BY <3>4 DEF says, length
  <2> HIDE DEF summary
  <2>5. SummaryLimit \in Nat
    BY SizesAssumption DEF SizesAssumption
  <2>6. /\ Session(replaced) /\ AllPaired(replaced)
        /\ replaced.stable = context.stable /\ replaced.user = context.user
        /\ context.stable[1].says \cup context.user.says \subseteq Known(replaced)
        /\ HeaderSize + n <= SummaryLimit => Known(context) \ Rules \subseteq Known(replaced)
    BY <1>3, <2>4, <2>5, ReplacedParts
  <2> HIDE DEF replaced
  <2>7. SourceText \in SomeMessages /\ SourceText.role = "user"
        /\ SourceText.size <= MessageLimit /\ SourceText.says = newest
    <3>1. "user" \in Roles /\ size \in Nat /\ NoCall \in Nat /\ newest \in SUBSET Facts
      BY <1>3 DEF Roles, NoCall, Facts
    <3> HIDE DEF newest
    <3>2. LET m == Message("user", size, NoCall, newest)
          IN  m \in SomeMessages /\ m.role = "user" /\ m.size = size /\ m.says = newest
      BY <3>1, MessageParts
    <3>3. size <= MessageLimit
      <4>1. SourceLimit \in Nat /\ MessageLimit \in Nat
        BY SizesAssumption, ContextAssumption DEF SizesAssumption, ContextAssumption
      <4>2. SourceLimit <= MessageLimit
        BY SizesAssumption DEF SizesAssumption
      <4> QED BY <1>3, <1>9, <4>1, <4>2
    <3>4. SourceText = Message("user", size, NoCall, newest)
      BY DEF SourceText, newest
    <3> QED BY <3>2, <3>3, <3>4
  <2>8. Follows(replaced, anchored, newest)
    <3>1. Follows(replaced, AppendFeedback(replaced, SourceText), newest)
      BY <2>6, <2>7, FeedbackFollows
    <3> QED BY <3>1 DEF WithSource
  <2> HIDE DEF anchored, newest, kept
  <2>9. Follows(anchored, context', Reminders(crossed))
    <3>1. Session(anchored) /\ AllPaired(anchored)
      BY <2>8 DEF Follows
    <3>2. crossed \cap Thresholds = crossed
      BY <1>4
    <3> HIDE DEF crossed
    <3>3. Follows(anchored, WithReminders(anchored, crossed), Reminders(crossed \cap Thresholds))
      BY <3>1, RemindersFollow
    <3> QED BY <2>1, <3>2, <3>3
  <2>10. Follows(replaced, context', newest \cup Reminders(crossed))
    BY <2>8, <2>9, FollowsOn
  <2>11. kept \subseteq Known(replaced) \cup Reminders(crossed)
    <3>1. CASE HeaderSize + n > SummaryLimit
      BY <2>6, <3>1 DEF kept, NoOldSource
    <3>2. CASE ~(HeaderSize + n > SummaryLimit)
      <4>1. HeaderSize + n <= SummaryLimit
        BY <2>5, <3>2, SizesAssumption DEF SizesAssumption
      <4>2. context.stable[1].says = Rules
        BY <1>3, StableParts
      <4>3. Known(context) \subseteq Known(replaced)
        BY <2>6, <4>1, <4>2
      <4>4. kept \subseteq told
        BY <3>2 DEF kept, NoOldSource
      <4> QED BY <1>3, <1>5, <4>3, <4>4
    <3> QED BY <3>1, <3>2
  <2>12. kept \subseteq Facts
    <3>1. context.user.says \subseteq Facts
      BY <1>3 DEF Session, Contexts, SomeMessages
    <3> QED BY <1>3, <3>1 DEF kept, NoOldSource
  <2>13. newest \subseteq Facts
    BY <1>3 DEF newest, Facts
  <2>14. /\ Session(context') /\ AllPaired(context') /\ context'.stable = context.stable
         /\ told' \subseteq Known(context') /\ told' \subseteq Facts
    <3> HIDE DEF crossed
    <3> QED BY <1>4, <2>1, <2>6, <2>10, <2>11, <2>12, <2>13 DEF Follows
  <2> QED BY <1>1, <1>2, <2>1, <2>14, GoesOn
<1> QED BY <1>6, <1>7, <1>8, <1>9

LEMMA ConversationStep == LaunchInv /\ ConversationInv /\ [Next]_vars => ConversationInv'
<1> SUFFICES ASSUME LaunchInv, ConversationInv, [Next]_vars PROVE ConversationInv'
  OBVIOUS
<1>1. CASE Configure
  <2>1. /\ phase = "configured" /\ phase' \in {"accepted", "refused"}
        /\ UNCHANGED <<version, size, turns, reminders>>
    BY <1>1 DEF Configure, End, environment
  <2> QED BY <2>1, OutsideStep DEF Talking, Starting
<1>2. CASE StartRoot \/ StartChild
  <2>1. PICK name : Build(name)
    BY <1>2 DEF StartRoot, StartChild
  <2>2. /\ phase \in Starting /\ phase' \in {"launched", "launch_failed"}
        /\ UNCHANGED <<version, size, turns, reminders>>
    BY <1>2, <2>1 DEF StartRoot, StartChild, Build, Starting
  <2> QED BY <2>2, OutsideStep DEF Talking
<1>3. CASE \E w \in Windows : StartSession(w)
  BY <1>3, StartStep
<1>4. CASE \E n \in TaskSizes : Prepare(n)
  BY <1>4, PrepareStep
<1>5. CASE AskForSummary \/ Ask
  BY <1>5, AskStep
<1>6. CASE Outage
  <2>1. phase' = "raised" /\ UNCHANGED <<version, size, turns, reminders>>
    BY <1>6 DEF Outage, End, environment
  <2> QED BY <2>1, OutsideStep DEF Talking, Starting
<1>7. ASSUME UNCHANGED <<profile, window, context, phase, request, reminders, told, turns>>,
             version' \in Nat, size' \in Nat
      PROVE  ConversationInv'
  BY <1>7, OthersStep
<1>8. version \in Nat /\ size \in Nat
  BY DEF ConversationInv, TypeOK
<1>9. CASE Cancel
  BY <1>7, <1>8, <1>9 DEF Cancel
<1>10. CASE \E n \in SummarySizes, cost \in Charges : Summarized(n, cost)
  BY <1>10, SummarizedStep
<1>11. CASE \E n \in TextSizes, cost \in Charges : Mixed(n, cost) \/ Invalid(n, cost)
  BY <1>11, AnswerStep
<1>12. CASE \E cost \in Charges : Refuse(cost) \/ Final(cost) \/ CallTool(cost) \/ OtherCharge(cost)
  <2>1. PICK cost \in Charges : Refuse(cost) \/ Final(cost) \/ CallTool(cost) \/ OtherCharge(cost)
    BY <1>12
  <2>2. CASE Refuse(cost) \/ Final(cost)
    <3>1. /\ phase' \in {"rollout_budget_exceeded", "cancelled", "completed"}
          /\ UNCHANGED <<version, size, turns, reminders>>
      BY <2>2 DEF Refuse, Final, End, environment
    <3> QED BY <3>1, OutsideStep DEF Talking, Starting
  <2>3. CASE CallTool(cost)
    BY <2>3, CallStep
  <2>4. CASE OtherCharge(cost)
    BY <1>7, <1>8, <2>4 DEF OtherCharge, environment
  <2> QED BY <2>1, <2>2, <2>3, <2>4
<1>13. CASE \E n \in TextSizes, b \in BOOLEAN : ToolResult(n, b)
  BY <1>13, ToolStep
<1>14. CASE \E n \in SourceSizes : SourceChanges(n)
  <2>1. PICK n \in SourceSizes : SourceChanges(n)
    BY <1>14
  <2>2. version' \in Nat /\ size' \in Nat
    BY <1>8, <2>1, SizesAssumption DEF SourceChanges, SizesAssumption
  <2> QED BY <1>7, <2>1, <2>2 DEF SourceChanges
<1>15. CASE UNCHANGED vars
  BY <1>7, <1>8, <1>15 DEF vars, environment
<1> QED
  BY <1>1, <1>2, <1>3, <1>4, <1>5, <1>6, <1>9, <1>10, <1>11, <1>12, <1>13, <1>14, <1>15 DEF Next

LEMMA ConversationInvariance == Spec => [](LaunchInv /\ ConversationInv)
<1>1. Init => LaunchInv /\ ConversationInv
  BY LaunchInit, ConversationInit
<1>2. (LaunchInv /\ ConversationInv) /\ [Next]_vars => (LaunchInv /\ ConversationInv)'
  BY LaunchStep, ConversationStep
<1> QED BY <1>1, <1>2, PTL DEF Spec

\* The history of every Agent is typed, starts with the unchanged stable prefix and
\* has every call but the one that runs answered (context.py, prompt.py, the loop).
THEOREM HistoryIsWellFormed == Spec => [](TypeOK /\ HistoryInv)
<1>1. ConversationInv => TypeOK /\ HistoryInv
  BY DEF ConversationInv
<1> QED BY <1>1, ConversationInvariance, PTL

\* Whatever was left out or clipped, every request to the provider is a valid
\* conversation that fits (prompt.py, context.py and the loop of the Agent), for
\* every size of the window, the prefix, the task, the source and the answers.
THEOREM RequestsAreValid == Spec => []ProviderRequestsAreValid
BY ValidSuffices, ConversationInvariance, PTL

\* Nothing that was said to the Agent is left out without a summary (context.py and
\* prompt.py), for every size and every number of turns.
THEOREM NothingForgotten == Spec => []NothingIsForgotten
BY ForgottenSuffices, ConversationInvariance, PTL
=============================================================================
