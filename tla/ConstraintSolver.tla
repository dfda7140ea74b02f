-------------------------- MODULE ConstraintSolver --------------------------
(***************************************************************************)
(* The bounded search for a request that meets its constraints             *)
(* (restscope/request_generation/constraint_solver.py) and the two passes  *)
(* of generate_test_case around it.                                        *)
(*                                                                         *)
(* A case (see RequestGeneration) also has its `constraints`.              *)
(***************************************************************************)
EXTENDS RequestGeneration

CONSTANTS
  MaxDomain,    \* max_domain_size (8 in the code)
  MaxStates     \* max_search_states (10000 in the code)

ASSUME SolverAssumption == MaxDomain \in Nat \ {0} /\ MaxStates \in Nat \ {0}

Distinct(s) == ElementsAt(s, {i \in DOMAIN s : \A j \in 1..(i - 1) : s[j] # s[i]})

\* The baseline comes first where it is one of the candidates.
BaselineFirst(x, s) == IF Contains(s, x) THEN <<x>> \o Filter(s, LAMBDA y : y # x) ELSE s

Short(s) == SubSeq(s, 1, IF Len(s) < MaxDomain THEN Len(s) ELSE MaxDomain)

-----------------------------------------------------------------------------
(* Candidates.                                                             *)

\* _presence_candidates
Presence(c, n, base) ==
  IF Node(c, n).required \/ c.chance[n] = "always" THEN <<TRUE>>
  ELSE IF c.chance[n] = "never" THEN <<FALSE>>
  ELSE <<base # Absent, base = Absent>>

\* _value_candidates: the baseline's value, then the Generator's own.
ValueCandidates(c, n, base) ==
  LET s == Strategy(c, n)
      rows == Filter(Known(c.records, s.resource), LAMBDA row :
                s.field \in DOMAIN row /\ IsScalar(row[s.field]))
      own == IF s.type # "resource" THEN OwnValues(c, s)
             ELSE [i \in DOMAIN rows |-> rows[i][s.field]]
  IN  Short(Distinct((IF HasValue(base) THEN <<base>> ELSE << >>) \o own))

\* _candidate_domain
Domain(c, n, base) ==
  LET choices == Presence(c, n, base)
      Of(choice) == IF ~choice THEN <<Absent>>
                    ELSE IF Strategy(c, n).type \in ScalarStrategies THEN ValueCandidates(c, n, base)
                    ELSE <<Bare>>
  IN  BaselineFirst(base, IF Len(choices) = 1 THEN Of(choices[1])
                          ELSE Of(choices[1]) \o Of(choices[2]))

\* The resource inputs by field: of two inputs for one field the later stands.
Components(c, resource) ==
  LET Named(n) == Strategy(c, n).type = "resource" /\ Strategy(c, n).resource = resource
      named == Filter(c.op.ids, Named)
  IN  [f \in {Strategy(c, named[i]).field : i \in DOMAIN named} |->
        Last(Filter(named, LAMBDA n : Strategy(c, n).field = f))]

\* The whole records a unit of related inputs may take.
RecordCandidates(c, resource, base) ==
  LET parts == Components(c, resource)
      rows == Filter(c.records[resource], LAMBDA row : DOMAIN parts \subseteq DOMAIN row)
      Row(row) == [n \in Range(parts) |-> row[CHOOSE f \in DOMAIN parts : parts[f] = n]]
      all == Distinct([i \in DOMAIN rows |-> Row(rows[i])])
  IN  Short(BaselineFirst([n \in Range(parts) |-> base[n]], all))

\* The candidates of an input alone.
Alone(n, domain) == [i \in DOMAIN domain |-> [m \in {n} |-> domain[i]]] \o << >>

\* _build_search_units
Units(c, base) ==
  LET referenced == ReferencedInputs(c.constraints)
      joined == {r \in DOMAIN c.records :
                   /\ Cardinality(DOMAIN Components(c, r)) > 1
                   /\ Range(Components(c, r)) \cap referenced # {}}
      single == referenced \ UNION {Range(Components(c, r)) : r \in joined}
  IN  {[nodes |-> Range(Components(c, r)), candidates |-> RecordCandidates(c, r, base)] :
         r \in joined}
      \cup {[nodes |-> {n}, candidates |-> Alone(n, Domain(c, n, base[n]))] : n \in single}

\* The units by the first of their inputs.
Listed(ids, units) ==
  LET inputs == Filter(ids, LAMBDA n : \E u \in units : n \in u.nodes)
  IN  Distinct([i \in DOMAIN inputs |-> CHOOSE u \in units : inputs[i] \in u.nodes] \o << >>)

\* Few candidates first, then many references.
Precedes(refs, u, v) ==
  LET Count(w) == Cardinality({i \in DOMAIN refs : refs[i] \in w.nodes})
  IN  \/ Len(u.candidates) < Len(v.candidates)
      \/ Len(u.candidates) = Len(v.candidates) /\ Count(u) > Count(v)

\* After those that it does not precede.
Inserted(refs, s, u) ==
  InsertAt(s, Cardinality({i \in DOMAIN s : ~Precedes(refs, u, s[i])}) + 1, u)

\* sorted: units that are alike stay in their order.
InOrder(refs, listed) ==
  LET sorted[k \in 0..Len(listed)] ==
        IF k = 0 THEN << >> ELSE Inserted(refs, sorted[k - 1], listed[k])
  IN  sorted[Len(listed)]

OrderedUnits(c, base) == InOrder(AllReferences(c.constraints), Listed(c.op.ids, Units(c, base)))

-----------------------------------------------------------------------------
(* The search.                                                             *)

\* A present input under one that was chosen to be absent.
Coherent(c, selected) ==
  \A n \in DOMAIN selected : selected[n] # Absent =>
    \A m \in Ancestors(c, n) \cap DOMAIN selected : selected[m] # Absent

AncestorsOf(c, selected) ==
  UNION {Ancestors(c, n) : n \in {m \in DOMAIN selected : selected[m] # Absent}}

\* f, and what g says besides.
Over(f, g) == [n \in DOMAIN f \cup DOMAIN g |-> IF n \in DOMAIN f THEN f[n] ELSE g[n]]

\* Mutant: the containers above a chosen value are not requested.
CompletedAlone(c, selected, base) ==
  [assignments |-> Over([n \in AncestorsOf(c, selected) |-> Bare], Over(selected, base)),
   overrides |-> selected]

\* _complete_candidate
Completed(c, selected, base) ==
  LET above == [n \in AncestorsOf(c, selected) |-> Bare]
  IN  [assignments |-> Over(above, Over(selected, base)),
       overrides |-> Over([n \in {m \in DOMAIN above : base[m] = Absent} |-> Bare], selected)]

\* Mutant: every input that is not selected counts as absent.
PartlyAsAbsent(c, selected) ==
  Over([n \in AncestorsOf(c, selected) |-> Bare], Over(selected, [n \in Nodes(c) |-> Absent]))

\* _partial_candidate
Partly(c, selected) == Over([n \in AncestorsOf(c, selected) |-> Bare], selected)

\* _resource_identifier_records_match
RecordsMatch(c, a) ==
  \A r \in DOMAIN c.records :
    LET parts == Components(c, r)
    IN  DOMAIN parts # {} =>
          /\ \A f \in DOMAIN parts : HasValue(a[parts[f]])
          /\ \E i \in DOMAIN c.records[r] : \A f \in DOMAIN parts :
               f \in DOMAIN c.records[r][i] /\ c.records[r][i][f] = a[parts[f]]

Good(c, selected, base) ==
  /\ Coherent(c, selected)
  /\ LET a == Completed(c, selected, base).assignments
     IN  RecordsMatch(c, a) /\ Satisfied(c.constraints, a)

Pruned(c, selected) ==
  \/ ~Coherent(c, selected)
  \/ VerdictOnAll(c.constraints, Partly(c, selected)) = {FALSE}

\* The first of the units take the candidates at these positions.
Picked(units, picks) ==
  [n \in UNION {units[i].nodes : i \in DOMAIN picks} |->
     LET i == CHOOSE i \in DOMAIN picks : n \in units[i].nodes IN units[i].candidates[picks[i]][n]]

\* What a search knows after so many candidates: no solution yet, or the positions of
\* the first one, or that there were too many candidates.
Searched(solution, explored, exhausted) ==
  [solution |-> solution, explored |-> explored, exhausted |-> exhausted]
NoSolution == << >>
Ends == [solution : Seq(Seq(Nat)), explored : Nat, exhausted : BOOLEAN]

\* A complete choice is tried unless there were too many.
Leaf(c, base, units, k, picks) ==
  IF k >= MaxStates THEN Searched(NoSolution, k, TRUE)
  ELSE IF Good(c, Picked(units, picks), base) THEN Searched(<<picks>>, k + 1, FALSE)
  ELSE Searched(NoSolution, k + 1, FALSE)

\* The nested function `search`: after k candidates, and below some positions, the loop
\* over the candidates of the next unit from the j-th on.
Search(c, base, units) ==
  LET found[x \in Nat \X Seq(Nat) \X Nat] ==
        LET k == x[1]
            picks == x[2]
            j == x[3]
            goOn[s \in Ends] == IF s.solution # NoSolution \/ s.exhausted THEN s
                               ELSE found[<<s.explored, picks, j + 1>>]
        IN  IF Len(picks) >= Len(units) THEN Leaf(c, base, units, k, picks)
            ELSE IF j > Len(units[Len(picks) + 1].candidates) THEN Searched(NoSolution, k, FALSE)
            ELSE IF Len(picks) + 1 < Len(units) /\ Pruned(c, Picked(units, Append(picks, j)))
              THEN found[<<k, picks, j + 1>>]
            ELSE goOn[found[<<k, Append(picks, j), 1>>]]
  IN  found[<<0, << >>, 1>>]

\* What a search that ended so says.
Verdicted(c, base, units, end) ==
  IF end.solution # NoSolution
  THEN <<"solved", Completed(c, Picked(units, end.solution[1]), base).overrides>>
  ELSE IF end.exhausted THEN <<"constraint_search_exhausted">>
  ELSE <<"constraint_unsatisfiable">>

SolveUnits(c, base, units) ==
  IF \/ \E n \in ReferencedInputs(c.constraints) : Domain(c, n, base[n]) = << >>
     \/ \E i \in DOMAIN units : units[i].candidates = << >>
  THEN <<"constraint_empty_domain">>
  ELSE Verdicted(c, base, units, Search(c, base, units))

\* solve_input_overrides: an error code, or the overrides.
Solve(c, base) == SolveUnits(c, base, OrderedUnits(c, base))

-----------------------------------------------------------------------------
(* generate_test_case.                                                     *)

\* _validate_input_reference, for the nodes of the parser's kinds: a node is
\* refused when it or one above it is of kind "items".
Referable(c) ==
  {n \in Nodes(c) : \A m \in Ancestors(c, n) \cup {n} : Node(c, m).kind # "items"}
ScalarTypes(c) ==
  [n \in {m \in Referable(c) : ~Node(c, m).container} |-> Node(c, n).types]

Unsolved(c) == [c EXCEPT !.overrides = << >>]

\* The second pass, and the check of what it made.
Rechecked(c, overrides, generated) ==
  IF generated = Failed THEN Failed
  ELSE IF ~Satisfied(c.constraints, Over(overrides, Recovered(c, generated[2])))
    THEN <<"constraint_recheck_failed">>
  ELSE generated

Second(c, solved) ==
  IF solved[1] # "solved" THEN solved
  ELSE Rechecked(c, solved[2], Generate([c EXCEPT !.overrides = solved[2]]))

Generated(c, baseline) ==
  IF baseline = Failed \/ c.constraints = << >> THEN baseline
  ELSE IF ~ValidSet(c.constraints, Referable(c), ScalarTypes(c)) THEN <<"constraint_invalid">>
  ELSE Second(c, Solve(c, Recovered(c, baseline[2])))

\* The outcome of one request slot: an error code, or the request.
TestCase(c) == Generated(c, Generate(Unsolved(c)))
=============================================================================
