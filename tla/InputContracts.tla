---------------------------- MODULE InputContracts ----------------------------
(***************************************************************************)
(* The contract of one scalar input: which values meet it                  *)
(* (restscope/request_generation/generation.py), the default Generator and *)
(* the negative ones derived from it (snapshot.py), and the check that     *)
(* enables an Operation (store.py).                                        *)
(*                                                                         *)
(* A value is <<type, v>>.  Numbers are counted in steps of the number     *)
(* line, Unit of which make one, so that a fraction and the next number    *)
(* after a bound exist; a boolean is 0 or Unit, because Python's True is   *)
(* the number one.  A contract is a record; what it does not state is      *)
(* << >>, what it states is <<it>>, and a pattern is the set of strings    *)
(* it is found in.                                                         *)
(***************************************************************************)
EXTENDS Integers, SequencesExt

CONSTANTS
  Unit,          \* steps from one whole number to the next
  Span,          \* width of a range without an upper bound (100 in the code)
  StringSpan,    \* default longest random string (16), and longest match (100)
  LongestTried   \* no negative value is longer than this (1000 in the code)

ASSUME ContractAssumption ==
  /\ Unit \in Nat \ {0, 1} /\ Span \in Nat /\ StringSpan \in Nat \ {0}
  /\ LongestTried \in Nat \ {0}

Null == <<"null", 0>>
Number(n) == <<"number", n>>
String(s) == <<"string", s>>
Truth(b) == <<"boolean", IF b THEN Unit ELSE 0>>
True == Truth(TRUE)
False == Truth(FALSE)

Stated(x) == x # << >>
IsType(s, t) == t \in s.types
IsWhole(n) == n % Unit = 0
Floor(n) == n - (n % Unit)
Ceiling(n) == IF IsWhole(n) THEN n ELSE Floor(n) + Unit
Larger(x, y) == IF x < y THEN y ELSE x

\* Python's equality: True == 1 and False == 0.
Equal(x, y) ==
  \/ x = y
  \/ {x[1], y[1]} = {"number", "boolean"} /\ x[2] = y[2]
Among(x, s) == \E i \in DOMAIN s : Equal(x, s[i])

RECURSIVE Repeated(_, _)
Repeated(letter, n) == IF n = 0 THEN "" ELSE letter \o Repeated(letter, n - 1)

-----------------------------------------------------------------------------
(* schema_matches and _validate_scalar, of a scalar contract.              *)

\* The formats that are checked, and a value each of them generates.
Formatted == [email |-> "user000000000000@example.test", date |-> "2000-01-01"]
IsFormat(f, v) == f \in DOMAIN Formatted => v = Formatted[f]

NumberMeets(s, n) ==
  /\ Stated(s.minimum) => s.minimum[1] <= n
  /\ Stated(s.maximum) => n <= s.maximum[1]
  /\ s.minimumIsExclusive /\ Stated(s.minimum) => s.minimum[1] < n
  /\ s.maximumIsExclusive /\ Stated(s.maximum) => n < s.maximum[1]
  /\ Stated(s.exclusiveMinimum) => s.exclusiveMinimum[1] < n
  /\ Stated(s.exclusiveMaximum) => n < s.exclusiveMaximum[1]
  /\ Stated(s.multipleOf) /\ s.multipleOf[1] > 0 => n % s.multipleOf[1] = 0

StringMeets(s, v) ==
  /\ Stated(s.minLength) => s.minLength[1] <= Len(v)
  /\ Stated(s.maxLength) => Len(v) <= s.maxLength[1]
  /\ Stated(s.pattern) => v \in s.pattern[1]
  /\ Stated(s.format) => IsFormat(s.format[1], v)

HasType(s, v) ==
  \/ s.types = {}
  \/ v[1] \in s.types \cap {"string", "number", "boolean"}
  \/ v[1] = "number" /\ IsType(s, "integer") /\ IsWhole(v[2])

AllowsNull(s) == s.nullable \/ IsType(s, "null")

Meets(s, v) ==
  IF Stated(s.enum) THEN Among(v, s.enum[1])
  ELSE IF v = Null THEN AllowsNull(s)
  ELSE /\ Stated(s.const) => Equal(v, s.const[1])
       /\ HasType(s, v)
       /\ v[1] = "number" => NumberMeets(s, v[2])
       /\ v[1] = "string" => StringMeets(s, v[2])

-----------------------------------------------------------------------------
(* The default Generator.                                                  *)

Constant(v) == [type |-> "constant", value |-> v]
Interval(type, lo, hi) == [type |-> type, minimum |-> lo, maximum |-> Larger(lo, hi)]
Strings(type, lo, hi) == [type |-> type, minimum |-> lo, maximum |-> hi]

\* _integer_bounds: a numeric exclusive bound replaces the other one.
IntegerBounds(s) ==
  LET least == IF Stated(s.minimum) THEN Ceiling(s.minimum[1]) ELSE 0
      lo == CASE Stated(s.exclusiveMinimum) -> Floor(s.exclusiveMinimum[1]) + Unit
              [] s.minimumIsExclusive /\ Stated(s.minimum) -> Floor(s.minimum[1]) + Unit
              [] OTHER -> least
      hi == CASE Stated(s.exclusiveMaximum) -> Ceiling(s.exclusiveMaximum[1]) - Unit
              [] s.maximumIsExclusive /\ Stated(s.maximum) -> Ceiling(s.maximum[1]) - Unit
              [] Stated(s.maximum) -> Floor(s.maximum[1])
              [] OTHER -> least + Span
  IN  Interval("integer_range", lo, hi)

\* _number_bounds: the flags are not read.
NumberBounds(s) ==
  LET least == IF Stated(s.minimum) THEN s.minimum[1] ELSE 0
      lo == IF Stated(s.exclusiveMinimum) THEN s.exclusiveMinimum[1] + 1 ELSE least
      hi == CASE Stated(s.exclusiveMaximum) -> s.exclusiveMaximum[1] - 1
              [] Stated(s.maximum) -> s.maximum[1]
              [] OTHER -> least + Span
  IN  Interval("number_range", lo, hi)

\* The lengths of a generated string, and the longest default.
Lengths(s, type, least, longest) ==
  LET lo == IF Stated(s.minLength) THEN s.minLength[1] ELSE least
  IN  Strings(type, lo, IF Stated(s.maxLength) THEN s.maxLength[1] ELSE Larger(longest, lo))

MayBeString(s) == IsType(s, "string") \/ s.types = {}
Explicit(s) == FlattenSeq(<<s.const, s.default, s.example>>)
NoDefault == [type |-> "unavailable"]

\* _default_strategy, NoDefault where it gives a reason to disable.
Default(s) ==
  CASE Stated(s.enum) ->
         IF s.enum[1] = << >> THEN NoDefault ELSE [type |-> "choice", values |-> s.enum[1]]
    [] ~Stated(s.enum) /\ Explicit(s) # << >> ->
         IF Meets(s, Explicit(s)[1]) THEN Constant(Explicit(s)[1]) ELSE NoDefault
    [] OTHER ->
         IF Stated(s.pattern) /\ MayBeString(s)
           THEN Lengths(s, "regex", 0, StringSpan) @@ [pattern |-> s.pattern[1]]
         ELSE IF Stated(s.format) /\ s.format[1] \in DOMAIN Formatted
           THEN [type |-> "format", format |-> s.format[1]]
         ELSE IF IsType(s, "boolean") THEN [type |-> "boolean"]
         ELSE IF IsType(s, "integer") THEN IntegerBounds(s)
         ELSE IF IsType(s, "number") THEN NumberBounds(s)
         ELSE IF MayBeString(s) THEN Lengths(s, "random_string", 1, StringSpan)
         ELSE Constant(Null)

\* generate_strategy_value: what a Generator can give.  Random strings differ
\* in their letters, which only patterns and formats tell apart.
Values(g) ==
  CASE g.type = "constant" -> {g.value}
    [] g.type = "choice" -> ToSet(g.values)
    [] g.type = "boolean" -> {True, False}
    [] g.type = "integer_range" -> {Number(n) : n \in {m \in g.minimum..g.maximum : IsWhole(m)}}
    [] g.type = "number_range" -> {Number(n) : n \in g.minimum..g.maximum}
    [] g.type = "random_string" -> {String(Repeated("a", n)) : n \in g.minimum..g.maximum}
    [] g.type = "regex" ->
         {String(v) : v \in {w \in g.pattern : Len(w) \in g.minimum..g.maximum}}
    [] g.type = "format" -> {String(Formatted[g.format])}

-----------------------------------------------------------------------------
(* Whether the Operation is enabled.                                       *)

\* _schema_unsupported_reasons of a scalar.
Supported(s) ==
  \/ Stated(s.enum)
  \/ /\ ~s.conditional
     /\ Stated(s.pattern) /\ ~MayBeString(s) => Explicit(s) # << >>
     /\ Stated(s.multipleOf) => s.multipleOf[1] = 0 \/ Explicit(s) # << >>

\* Mutant: only the lower end of a range is tried.
StrategyMatchesBelow(s, g) ==
  g.type \in {"integer_range", "number_range"} => Meets(s, Number(g.minimum))

\* _strategy_matches_node: the ends of a range are tried, not the whole of it, and
\* two texts of a pattern or format, whose other texts meet the contract as well.
StrategyMatches(s, g) ==
  CASE g.type \in {"constant", "choice"} -> TRUE
    [] g.type = "boolean" -> Meets(s, True) /\ Meets(s, False)
    [] g.type \in {"integer_range", "number_range"} ->
         /\ Meets(s, Number(g.minimum)) /\ Meets(s, Number(g.maximum))
         /\ g.type = "number_range" /\ Stated(s.multipleOf) => g.minimum = g.maximum
    [] g.type = "random_string" ->
         /\ ~Stated(s.pattern) /\ ~Stated(s.format)
         /\ Meets(s, String(Repeated("a", g.minimum))) /\ Meets(s, String(Repeated("a", g.maximum)))
    [] g.type = "regex" -> ~Stated(s.format) /\ Values(g) # {} /\ \A v \in Values(g) : Meets(s, v)
    [] g.type = "format" -> ~Stated(s.pattern) /\ \A v \in Values(g) : Meets(s, v)

\* The models refuse a reversed length interval.
Consistent(g) == g.type \in {"random_string", "regex"} => g.minimum <= g.maximum

Enabled(s) ==
  LET g == Default(s)
  IN  Supported(s) /\ g # NoDefault /\ Consistent(g) /\ StrategyMatches(s, g)

-----------------------------------------------------------------------------
(* The negative Generators.                                                *)

\* _wrong_scalar_type
WrongType(s) ==
  CASE IsType(s, "string") -> <<Number(0)>>
    [] ~IsType(s, "string") /\ s.types \cap {"integer", "number"} # {} -> <<String("not-a-number")>>
    [] s.types \subseteq {"boolean", "null"} /\ IsType(s, "boolean") -> <<String("not-a-boolean")>>
    [] s.types = {"null"} -> <<String("not-null")>>
    [] OTHER -> << >>

\* _outside_enumeration: the first value of the declared type that is not named.
Outside(s) ==
  LET forbidden == FlattenSeq(s.enum) \o s.const
      Declared(v) ==
        CASE v = Null -> AllowsNull(s)
          [] v # Null /\ IsType(s, "string") -> v[1] = "string"
          [] v # Null /\ ~IsType(s, "string") /\ s.types \cap {"integer", "number"} # {} ->
               v[1] = "number"
          [] v # Null /\ s.types \cap {"string", "integer", "number"} = {} ->
               IsType(s, "boolean") => v[1] = "boolean"
      tried == <<String("__restscope_outside__"), Number(0), Number(Unit), Number(-Unit),
                 False, True, Null>>
      outside == SelectSeq(tried, LAMBDA v : ~Among(v, forbidden) /\ Declared(v))
  IN  IF (~Stated(s.enum) /\ ~Stated(s.const)) \/ outside = << >> THEN << >> ELSE <<outside[1]>>

\* _pattern_mismatch
Mismatch(s) ==
  LET tried == SelectSeq(<<"", "x", "invalid", "0">>, LAMBDA v : v \notin s.pattern[1])
  IN  IF ~Stated(s.pattern) \/ tried = << >> THEN << >> ELSE <<String(tried[1])>>

\* _non_multiple
NonMultiple(s) ==
  LET m == s.multipleOf[1]
  IN  IF ~Stated(s.multipleOf) \/ (IsType(s, "integer") /\ ~(IsWhole(m) /\ m > Unit)) THEN << >>
      ELSE IF m <= 0 THEN << >>
      ELSE IF IsType(s, "integer") THEN <<Number(m - Unit)>> ELSE <<Number(m \div 2)>>

\* _negative_generators: at most one value for every rule, in this order; of equal
\* values the first rule keeps its Generator.
NegativeValues(s) ==
  LET Shift(bound, by) == IF Stated(bound) THEN <<Number(bound[1] + by)>> ELSE << >>
      rules == <<
        <<"wrong_type", WrongType(s)>>,
        <<"null_for_non_nullable", IF AllowsNull(s) THEN << >> ELSE <<Null>>>>,
        <<"below_minimum", Shift(s.minimum, -Unit)>>,
        <<"above_maximum", Shift(s.maximum, Unit)>>,
        <<"exclusive_minimum", Shift(s.exclusiveMinimum, 0)>>,
        <<"exclusive_maximum", Shift(s.exclusiveMaximum, 0)>>,
        <<"below_min_length",
          IF Stated(s.minLength) /\ s.minLength[1] > 0 THEN <<String("")>> ELSE << >>>>,
        <<"above_max_length",
          IF Stated(s.maxLength) /\ s.maxLength[1] < LongestTried
            THEN <<String(Repeated("x", s.maxLength[1] + 1))>> ELSE << >>>>,
        <<"pattern_mismatch", Mismatch(s)>>,
        <<"format_mismatch",
          IF Stated(s.format) THEN <<String("not-a-" \o s.format[1])>> ELSE << >>>>,
        <<"enum_or_const_mismatch", Outside(s)>>,
        <<"multiple_of_mismatch", NonMultiple(s)>> >>
      made == SelectSeq(rules, LAMBDA r : Stated(r[2]))
      First(i) == \A j \in 1..(i - 1) : made[j][2] # made[i][2]
  IN  [i \in {j \in DOMAIN made : First(j)} |-> [rule |-> made[i][1], value |-> made[i][2][1]]]

-----------------------------------------------------------------------------
(* Properties of a contract.                                               *)

\* Every value the default Generator of an enabled Operation gives meets the
\* contract it was inferred from: the inference and the check of the ends of its
\* range leave no gap between them.
DefaultsAreValid(s) == Enabled(s) => \A v \in Values(Default(s)) : Meets(s, v)

\* No negative value is a valid one, whichever rule suggested it: a success that
\* follows it is rightly called unexpected.  The contract has one type, its named
\* values meet its other rules, and a format that nothing checks may be met by chance.
NegativesAreInvalid(s) ==
  LET Rest == [s EXCEPT !.enum = << >>, !.const = << >>]
      consistent == \A v \in ToSet(FlattenSeq(s.enum) \o s.const) : Meets(Rest, v)
      negatives == NegativeValues(s)
  IN  Cardinality(s.types \ {"null"}) <= 1 /\ consistent =>
        \A i \in DOMAIN negatives :
          \/ ~Meets(s, negatives[i].value)
          \/ negatives[i].rule = "format_mismatch" /\ s.format[1] \notin DOMAIN Formatted
=============================================================================
