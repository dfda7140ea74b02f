----------------------------- MODULE Constraints -----------------------------
(***************************************************************************)
(* Same-request constraints (restscope/request_generation/constraints.py): *)
(* their expression trees, the two evaluators (of a finished request, and  *)
(* of the inputs a search has assigned so far), normal forms, labels and   *)
(* the check against an Operation's inputs.                                *)
(*                                                                         *)
(* A scalar is <<type, v>>.  Strings stand in their alphabetical order, so *)
(* v is an integer for every type; a pattern is the set of the strings it  *)
(* is found in.  An assignment is a scalar, Bare for an input that is      *)
(* present without a value of its own, or Absent.                          *)
(***************************************************************************)
EXTENDS Integers, SequencesExt

CONSTANT MaxLevel    \* bound: how deep expressions are nested

ASSUME LevelAssumption == MaxLevel \in Nat

\* The elements of a sequence at some positions, and those that pass a test, in order.
ElementsAt(s, positions) ==
  [k \in 1..Cardinality(positions) |->
     s[CHOOSE i \in positions : Cardinality({j \in positions : j <= i}) = k]]
Filter(s, Test(_)) == ElementsAt(s, {i \in DOMAIN s : Test(s[i])})

Absent == <<"absent">>
Bare == <<"present">>
Unavailable == <<"unavailable">>
NotAssigned == <<"unknown">>

HasValue(x) == x \notin {Absent, Bare, Unavailable, NotAssigned}
IsNumber(x) == x[1] = "number"

-----------------------------------------------------------------------------
(* Expressions.                                                            *)

Input(n) == [type |-> "input_value", node |-> n]
Literal(x) == [type |-> "literal", value |-> x]
Arithmetic(op, l, r) == [type |-> "arithmetic", operator |-> op, left |-> l, right |-> r]

Present(n) == [type |-> "present", node |-> n]
Compare(op, l, r) == [type |-> "compare", operator |-> op, left |-> l, right |-> r]
Matches(x, found) == [type |-> "matches", value |-> x, pattern |-> found]
Implies(c, d) == [type |-> "implies", expressions |-> <<c, d>>]
Between(lo, es, hi) ==
  [type |-> "cardinality", expressions |-> es, minimum |-> lo, maximum |-> hi]
All(es) == [type |-> "and", expressions |-> es]
Some(es) == [type |-> "or", expressions |-> es]
Not(e) == [type |-> "not", expressions |-> <<e>>]

\* The expressions right below one, and all that occur in it.  What is said of an
\* expression is a function over its parts.
Within(e) ==
  CASE e.type \in {"input_value", "literal", "present"} -> {}
    [] e.type \in {"arithmetic", "compare"} -> {e.left, e.right}
    [] e.type = "matches" -> {e.value}
    [] OTHER -> ToSet(e.expressions)

Subterms(e) ==
  LET level[k \in 0..MaxLevel] == IF k = 0 THEN {e} ELSE UNION {Within(x) : x \in level[k - 1]}
  IN  UNION {level[k] : k \in 0..MaxLevel}

\* _boolean_references: every reference, in the order of the expression.
References(e) ==
  LET refs[x \in Subterms(e)] ==
        CASE x.type \in {"input_value", "present"} -> <<x.node>>
          [] x.type = "literal" -> << >>
          [] x.type \in {"arithmetic", "compare"} -> refs[x.left] \o refs[x.right]
          [] x.type = "matches" -> refs[x.value]
          [] OTHER -> FlattenSeq([i \in DOMAIN x.expressions |-> refs[x.expressions[i]]])
  IN  refs[e]

\* The inputs whose values an expression needs, and all that it refers to.
Operands(e) == {x.node : x \in {y \in Subterms(e) : y.type = "input_value"}}
InputsOf(e) == Operands(e) \cup {x.node : x \in {y \in Subterms(e) : y.type = "present"}}

\* A set of constraints is their sequence.
AllReferences(constraints) ==
  FlattenSeq([i \in DOMAIN constraints |-> References(constraints[i])])
ReferencedInputs(constraints) == UNION {InputsOf(constraints[i]) : i \in DOMAIN constraints}

-----------------------------------------------------------------------------
(* The meaning of a finished request.                                      *)

\* Division is exact: a number that is not whole is <<"number", n, d>>, n / d in
\* lowest terms, so that two numbers are equal when they are the same.
Denominator(x) == IF Len(x) = 3 THEN x[3] ELSE 1
Quotient(n, d) ==
  LET Divide(g) == n % g = 0 /\ d % g = 0
      g == CHOOSE g \in 1..d : Divide(g) /\ \A h \in (g + 1)..d : ~Divide(h)
  IN  IF g = d THEN <<"number", n \div d>> ELSE <<"number", n \div g, d \div g>>

\* Division by zero and operands that are no numbers leave nothing to compare.
Calculate(op, l, r) ==
  IF ~IsNumber(l) \/ ~IsNumber(r) \/ (op = "/" /\ r[2] = 0) THEN Unavailable
  ELSE LET m == Denominator(l)
           n == Denominator(r)
       IN  CASE op = "+" -> Quotient(l[2] * n + r[2] * m, m * n)
             [] op = "-" -> Quotient(l[2] * n - r[2] * m, m * n)
             [] op = "*" -> Quotient(l[2] * r[2], m * n)
             [] op = "/" -> IF r[2] > 0 THEN Quotient(l[2] * n, r[2] * m)
                                        ELSE Quotient(-(l[2] * n), -(r[2] * m))

\* _compare_values: only numbers and only strings are ordered.
Compares(op, l, r) ==
  LET ordered == l[1] = r[1] /\ l[1] \in {"number", "string"}
      Below(x, y) == x[2] * Denominator(y) < y[2] * Denominator(x)
  IN  CASE op = "==" -> l = r
        [] op = "!=" -> l # r
        [] op = "<"  -> ordered /\ Below(l, r)
        [] op = "<=" -> ordered /\ ~Below(r, l)
        [] op = ">"  -> ordered /\ Below(r, l)
        [] op = ">=" -> ordered /\ ~Below(l, r)

\* What an assignment, which may leave inputs out, tells an expression: the inputs that
\* are present, and the values of its operands.
PresentIn(e, a) == {n \in InputsOf(e) \cap DOMAIN a : a[n] # Absent}
GivenTo(e, a) == [n \in {m \in Operands(e) \cap DOMAIN a : HasValue(a[m])} |-> a[n]]

\* _evaluate_value, of the values that are given.
ValueOf(e, given) ==
  LET value[x \in Subterms(e)] ==
        CASE x.type = "input_value" -> IF x.node \in DOMAIN given THEN given[x.node] ELSE Unavailable
          [] x.type = "literal" -> x.value
          [] x.type = "arithmetic" -> Calculate(x.operator, value[x.left], value[x.right])
  IN  value[e]

\* _evaluate_boolean.
IsMet(e, present, given) ==
  LET holds[x \in Subterms(e)] ==
        CASE x.type = "present" -> x.node \in present
          [] x.type = "compare" ->
               LET l == ValueOf(x.left, given)
                   r == ValueOf(x.right, given)
               IN  l # Unavailable /\ r # Unavailable /\ Compares(x.operator, l, r)
          [] x.type = "matches" -> ValueOf(x.value, given) \in {<<"string", s>> : s \in x.pattern}
          [] OTHER ->
               LET es == x.expressions
                   count == Cardinality({i \in DOMAIN es : holds[es[i]]})
               IN  CASE x.type = "implies" -> ~holds[es[1]] \/ holds[es[2]]
                     [] x.type = "cardinality" -> count \in x.minimum..x.maximum
                     [] x.type = "and" -> count = Len(es)
                     [] x.type = "or"  -> count > 0
                     [] x.type = "not" -> count = 0
  IN  holds[e]

Holds(e, a) == IsMet(e, PresentIn(e, a), GivenTo(e, a))
Satisfied(constraints, a) == \A i \in DOMAIN constraints : Holds(constraints[i], a)

-----------------------------------------------------------------------------
(* What is decided while a search goes on: a verdict is the set of truth   *)
(* values that are still possible, BOOLEAN while nothing is decided.       *)

\* _evaluate_value_partial.
KnownValue(e, a) ==
  LET known[x \in Subterms(e)] ==
        CASE x.type = "input_value" ->
               IF x.node \notin DOMAIN a THEN NotAssigned
               ELSE IF HasValue(a[x.node]) THEN a[x.node] ELSE Unavailable
          [] x.type = "literal" -> x.value
          [] x.type = "arithmetic" ->
               IF NotAssigned \in {known[x.left], known[x.right]} THEN NotAssigned
               ELSE Calculate(x.operator, known[x.left], known[x.right])
  IN  known[e]

CompareKnown(op, l, r) ==
  IF NotAssigned \in {l, r} THEN BOOLEAN
  ELSE IF Unavailable \in {l, r} THEN {FALSE} ELSE {Compares(op, l, r)}

\* What n true and u undecided expressions leave of a cardinality.
Counted(n, u, lo, hi) ==
  IF n > hi \/ n + u < lo THEN {FALSE}
  ELSE IF lo <= n /\ n + u <= hi THEN {TRUE} ELSE BOOLEAN

\* _evaluate_boolean_partial.
Verdict(e, a) ==
  LET verdict[x \in Subterms(e)] ==
        CASE x.type = "present" -> IF x.node \in DOMAIN a THEN {a[x.node] # Absent} ELSE BOOLEAN
          [] x.type = "compare" ->
               CompareKnown(x.operator, KnownValue(x.left, a), KnownValue(x.right, a))
          [] x.type = "matches" ->
               LET v == KnownValue(x.value, a)
               IN  IF v = NotAssigned THEN BOOLEAN
                   ELSE {v \in {<<"string", s>> : s \in x.pattern}}
          [] OTHER ->
               LET vs == [i \in DOMAIN x.expressions |-> verdict[x.expressions[i]]]
                   Count(v) == Cardinality({i \in DOMAIN vs : vs[i] = v})
               IN  CASE x.type = "implies" ->
                          IF vs[1] = {FALSE} \/ vs[2] = {TRUE} THEN {TRUE}
                          ELSE IF vs[1] = {TRUE} THEN vs[2] ELSE BOOLEAN
                     [] x.type = "cardinality" ->
                          Counted(Count({TRUE}), Count(BOOLEAN), x.minimum, x.maximum)
                     [] x.type = "and" ->
                          IF Count({FALSE}) > 0 THEN {FALSE}
                          ELSE IF Count({TRUE}) = Len(vs) THEN {TRUE} ELSE BOOLEAN
                     [] x.type = "or" ->
                          IF Count({TRUE}) > 0 THEN {TRUE}
                          ELSE IF Count({FALSE}) = Len(vs) THEN {FALSE} ELSE BOOLEAN
                     [] x.type = "not" -> {~b : b \in vs[1]}
  IN  verdict[e]

\* evaluate_constraint_set_partial.
VerdictOnAll(constraints, a) == Verdict(All(constraints), a)

-----------------------------------------------------------------------------
(* Normal forms.  Expressions are sorted by their JSON text, which is some *)
(* fixed order: the same members always give the same sequence.            *)

Sorted(s) ==
  CHOOSE t \in {[i \in DOMAIN s |-> s[p[i]]] : p \in Bijection(DOMAIN s, DOMAIN s)} : TRUE

\* _normalize_value and _normalize_boolean.
Normal(e) ==
  LET normal[x \in Subterms(e)] ==
        CASE x.type \in {"input_value", "literal", "present"} -> x
          [] x.type \in {"arithmetic", "compare"} ->
               LET s == <<normal[x.left], normal[x.right]>>
                   t == IF x.operator \in {"+", "*", "==", "!="} THEN Sorted(s) ELSE s
               IN  [x EXCEPT !.left = t[1], !.right = t[2]]
          [] x.type = "matches" -> [x EXCEPT !.value = normal[x.value]]
          [] OTHER ->
               LET s == [i \in DOMAIN x.expressions |-> normal[x.expressions[i]]]
               IN  [x EXCEPT !.expressions =
                      IF x.type \in {"cardinality", "and", "or"} THEN Sorted(s) ELSE s]
  IN  normal[e]

NormalSet(constraints) == Sorted([i \in DOMAIN constraints |-> Normal(constraints[i])])

\* _is_all_or_none, of a normal form.
IsAllOrNone(e) ==
  /\ e.type = "or" /\ Len(e.expressions) = 2
  /\ LET f == e.expressions[1]
         g == e.expressions[2]
     IN  /\ f.type = "cardinality" /\ g.type = "cardinality"
         /\ f.expressions = g.expressions /\ Len(f.expressions) >= 2
         /\ {<<f.minimum, f.maximum>>, <<g.minimum, g.maximum>>}
              = {<<0, 0>>, <<Len(f.expressions), Len(f.expressions)>>}

\* classify_constraint.
Kind(e) ==
  LET n == Normal(e)
  IN  CASE n.type = "implies" /\ {n.expressions[1].type, n.expressions[2].type} = {"present"}
             -> "Requires"
        [] n.type = "cardinality" /\ n.minimum = 1 /\ n.maximum = 1 -> "OnlyOne"
        [] n.type = "cardinality" /\ n.minimum = 0 /\ n.maximum = 1 -> "ZeroOrOne"
        [] n.type = "cardinality" /\ n.minimum = 1 /\ n.maximum = Len(n.expressions) -> "Or"
        [] IsAllOrNone(n) -> "AllOrNone"
        [] n.type = "compare" -> "Arithmetic/Relational"
        [] OTHER -> "Complex"

-----------------------------------------------------------------------------
(* The check against an Operation: `types` gives the types of the scalar   *)
(* inputs, "unknown" among them when the contract names none; an input     *)
(* that is a container, or lies under an array, is no scalar input.        *)

NumericTypes(ts) == {"unknown", "number"} \cap ts # {}

\* _node_scalar_types, and what arithmetic makes of them: {} when it is refused.
ValueTypes(e, types) ==
  LET typesOf[x \in Subterms(e)] ==
        CASE x.type = "input_value" -> IF x.node \in DOMAIN types THEN types[x.node] ELSE {}
          [] x.type = "literal" -> {x.value[1]}
          [] x.type = "arithmetic" ->
               IF NumericTypes(typesOf[x.left]) /\ NumericTypes(typesOf[x.right])
               THEN {"number"} ELSE {}
  IN  typesOf[e]

\* _comparison_types_compatible.
Comparable(op, ls, rs) ==
  /\ ls # {} /\ rs # {}
  /\ \/ "unknown" \in ls \cup rs
     \/ ls \cap rs \cap (IF op \in {"==", "!="} THEN ls ELSE {"number", "string"}) # {}

\* _validate_boolean and _validate_value, part by part: `present` may name any input
\* outside arrays.
Valid(e, inputs, types) ==
  \A x \in Subterms(e) :
    CASE x.type = "input_value" -> x.node \in DOMAIN types
      [] x.type = "arithmetic" -> ValueTypes(x, types) # {}
      [] x.type = "present" -> x.node \in inputs
      [] x.type = "compare" ->
           Comparable(x.operator, ValueTypes(x.left, types), ValueTypes(x.right, types))
      [] x.type = "matches" -> {"unknown", "string"} \cap ValueTypes(x.value, types) # {}
      [] x.type = "cardinality" ->
           x.minimum <= x.maximum /\ x.maximum <= Len(x.expressions)
      [] OTHER -> TRUE

ValidSet(constraints, inputs, types) ==
  \A i \in DOMAIN constraints : Valid(constraints[i], inputs, types)

-----------------------------------------------------------------------------
\* A stored record is its id and its constraints.
Owners(r) == ReferencedInputs(r.constraints)

\* A record is added when it names an input that is already connected.
Absorbed(s, r) ==
  IF Owners(r) \cap s.inputs = {} THEN s
  ELSE [ids |-> s.ids \cup {r.id}, inputs |-> s.inputs \cup Owners(r)]

\* What connects with some inputs: passes over the records, as many as can find one.
Connection(records, inputs) ==
  LET passes[k \in 0..Len(records)] ==
        IF k = 0 THEN [ids |-> {}, inputs |-> inputs]
        ELSE FoldLeft(Absorbed, passes[k - 1], records)
  IN  passes[Len(records)]

\* Mutant: only the constraints that name the input itself are related to it.
NamingConstraints(records, n) ==
  {records[i].id : i \in {j \in DOMAIN records : n \in Owners(records[j])}}

\* associated_constraint_ids
AssociatedConstraints(records, n) == Connection(records, {n}).ids
=============================================================================
