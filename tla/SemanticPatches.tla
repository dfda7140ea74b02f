--------------------------- MODULE SemanticPatches ---------------------------
(***************************************************************************)
(* A Parameter Patch as an Agent writes it, and how it is compiled, tried  *)
(* and refused (restscope/request_generation/parameter_patch/, and the     *)
(* sources of values of request_generation/reference_values.py).           *)
(*                                                                         *)
(* A Patch is [affected, changes, constraints]: the inputs it is about, a  *)
(* sequence of candidates (input, chance, strategy) and a sequence of      *)
(* expressions.  The state it works on is the `positive` candidates and    *)
(* the stored `constraints`.  An Operation also has what the monitor knows *)
(* as `evidence`: the resources each producer's responses carry, the       *)
(* fields that identify a resource, the values observed for a response     *)
(* field and the fields the document still has; `paths` are its path       *)
(* parameters.  Integers are numbers like any other.                       *)
(***************************************************************************)
EXTENDS ConstraintSolver, GeneratorSelection, GeneratorPatches

CONSTANTS
  MaxAffected,    \* affected inputs of one Patch (20 in the code)
  MaxObserved     \* _MAX_RESPONSE_VALUE_CANDIDATES (8 in the code)

ASSUME SemanticAssumption == MaxAffected \in Nat \ {0} /\ MaxObserved \in Nat \ {0}

\* build_semantic_input_map: the inputs that an Agent can name.
Addressable(c) == {n \in Nodes(c) : Node(c, n).kind # "request_body" /\ Selected(c, n)}

\* validate_affected_inputs
IsScope(c, affected) ==
  /\ Len(affected) \in 1..MaxAffected
  /\ IsInjective(affected)
  /\ ToSet(affected) \subseteq Addressable(c)

-----------------------------------------------------------------------------
(* Sources of values.                                                      *)

\* values_for, of a response field: what was observed, the newest first.
Observed(op) ==
  [s \in DOMAIN op.evidence.observed |->
    LET values == Distinct(Filter(op.evidence.observed[s], IsScalar))
    IN  SubSeq(values, 1, Min({Len(values), MaxObserved}))]

\* _resource_for: the resources of the producer that the field identifies.
Identified(c, source) ==
  {r \in c.op.evidence.produced[source.producer] : source.field \in c.op.evidence.identity[r]}

\* What a compiled Generator knows of its source.
CompiledStrategy(c, s) ==
  IF s.type # "resource" \/ Cardinality(Identified(c, s.source)) # 1 THEN s
  ELSE [type |-> "resource", field |-> s.source.field,
        resource |-> CHOOSE r \in Identified(c, s.source) : TRUE]

\* The one scalar type that an input of the body, or a parameter's contract, has.
IsScalarTarget(c, n) ==
  /\ ~Node(c, n).container
  /\ \E t \in {"string", "number", "boolean"} : Node(c, n).types \ {"null"} = {t}

\* A parameter is sent as text, so that any scalar fits it.
Fits(c, n, x) == IsScalar(x) /\ (Node(c, n).kind = "parameter" \/ x[1] \in Node(c, n).types)

\* _validate_resource_reference: one resource, and every value known of it fits.
ResourceFits(c, n, source) ==
  /\ Cardinality(Identified(c, source)) = 1
  /\ LET rows == ToSet(c.op.records[CHOOSE r \in Identified(c, source) : TRUE])
         values == {row[source.field] : row \in
                     {x \in rows : source.field \in DOMAIN x /\ IsScalar(x[source.field])}}
     IN  /\ values # {} /\ \A x \in values : Fits(c, n, x)
         /\ Node(c, n).kind = "parameter" \/ IsScalarTarget(c, n)

FittingValues(c, n, s) == Filter(Observed(c.op)[s], LAMBDA x : Fits(c, n, x))

\* resolve_response_source: the document has the field, and some value fits.
ResponseFits(c, n, source) ==
  /\ source \in c.op.evidence.declared /\ IsScalarTarget(c, n)
  /\ source \in DOMAIN Observed(c.op) /\ FittingValues(c, n, source) # << >>

SourcesFit(c, changes) ==
  \A i \in DOMAIN changes :
    LET x == changes[i]
    IN  CASE x.strategy.type = "resource" -> ResourceFits(c, x.node, x.strategy.source)
          [] x.strategy.type = "response" -> ResponseFits(c, x.node, x.strategy.source)
          [] OTHER -> TRUE

\* _CandidateReferenceValues: while a Patch is tried, a response source gives the
\* values that fit the last input it was chosen for.
ValuesOnTrial(c, changes) ==
  LET Uses(s) == Filter(changes, LAMBDA x :
                   x.strategy.type = "response" /\ x.strategy.source = s)
  IN  [s \in DOMAIN Observed(c.op) |->
        IF Uses(s) = << >> THEN Observed(c.op)[s] ELSE FittingValues(c, Last(Uses(s)).node, s)]

\* _validate_complete_resource_identifier_bindings: the fields that identify a
\* resource together are bound together, each once, to path parameters.
IdentitiesAreComplete(c, changes) ==
  \A r \in DOMAIN c.op.evidence.identity :
    LET uses == Filter(changes, LAMBDA x :
                  x.strategy.type = "resource" /\ Identified(c, x.strategy.source) = {r})
        fields == [i \in DOMAIN uses |-> uses[i].strategy.source.field]
    IN  uses # << >> /\ Cardinality(c.op.evidence.identity[r]) > 1 =>
          /\ \A i \in DOMAIN uses : uses[i].node \in c.op.paths
          /\ IsInjective(fields) /\ ToSet(fields) = c.op.evidence.identity[r]

-----------------------------------------------------------------------------
(* Compiling a Patch.                                                      *)

\* Mutant: a changed branch need not be the one that is selected.
BranchesUnchecked(c, positive, changes) == TRUE

\* validate_variant_branch_updates: above a changed input every variant is told to
\* take its branch; the last candidate of a variant counts.
BranchesAreSelected(c, positive, changes) ==
  \A n \in NodesOf(changes) : \A a \in Ancestors(c, n) :
    Last(positive[a]).strategy.type = "variant" =>
      LET items == ItemsFor(changes, a)
          onPath == {m \in Ancestors(c, n) \cup {n} : Node(c, m).parent = a}
      IN  /\ items # << >>
          /\ Last(items).strategy.type = "variant" /\ Last(items).strategy.branches = onPath

\* The ancestors that become mandatory with an input are named too, but for the
\* containers of a body that an Agent has no name for.
ScopeIsComplete(c, positive, patch) ==
  DOMAIN Expand(c, positive, patch.changes) \cap Addressable(c) \subseteq ToSet(patch.affected)

\* compile_constraint: a stored record is named after its normal form.
Compiled(e) == [id |-> Normal(e), constraints |-> <<Normal(e)>>]
ConstraintFits(c, affected, e) ==
  /\ InputsOf(e) \subseteq affected
  /\ ValidSet(<<e>>, Referable(c), ScalarTypes(c))

\* _compile: the new candidates, or Refused.
CompiledGenerators(c, positive, patch) ==
  LET affected == ToSet(patch.affected)
  IN  IF /\ IsScope(c, patch.affected)
         /\ NodesOf(patch.changes) \subseteq affected
         /\ SourcesFit(c, patch.changes)
         /\ IdentitiesAreComplete(c, patch.changes)
         /\ ScopeIsComplete(c, positive, patch)
         /\ BranchesAreSelected(c, positive, patch.changes)
         /\ \A i \in DOMAIN patch.constraints : ConstraintFits(c, affected, patch.constraints[i])
      THEN PatchedGenerators(c, positive,
             [i \in DOMAIN patch.changes |->
               [patch.changes[i] EXCEPT !.strategy = CompiledStrategy(c, @)]])
      ELSE Refused

\* Mutant: only the constraints that name an affected input are replaced.
ReplacedNamed(current, patch) ==
  Sorted(Filter(current, LAMBDA r : Owners(r) \cap ToSet(patch.affected) = {}) \o
         [i \in DOMAIN patch.constraints |-> Compiled(patch.constraints[i])])

\* replace_constraint_scope: the constraints connected with the affected inputs give
\* way to those of the Patch.
Replaced(current, patch) ==
  LET removed == Connection(current, ToSet(patch.affected)).ids
  IN  Sorted(Filter(current, LAMBDA r : r.id \notin removed) \o
             [i \in DOMAIN patch.constraints |-> Compiled(patch.constraints[i])])

\* constraint_closure: the constraints and the further inputs that an Agent sees
\* when it reads some inputs.
Shown(constraints, inputs) ==
  LET seen == Connection(constraints, inputs)
  IN  [ids |-> seen.ids, additional |-> seen.inputs \ inputs]

-----------------------------------------------------------------------------
(* Trying a Patch.                                                         *)

\* The case that generate_test_case works on.
CaseOf(op, responses, generators, constraints, draws) ==
  [op |-> op, records |-> op.records, responses |-> responses, constraints |-> constraints,
   draws |-> draws, overrides |-> << >>,
   chance |-> [n \in DOMAIN generators |-> generators[n].chance],
   strategy |-> [n \in DOMAIN generators |-> generators[n].strategy]]

\* One of the samples, the only one if the Agent asks for one: a happy path that can
\* be generated and be read back.
ReadsBack(c, affected, outcome) ==
  /\ outcome[1] = "request"
  /\ \A n \in affected :
       Recovered(c, outcome[2])[n] # Absent => Projected(c, outcome[2], n) # Failed

Succeeds(c, affected) == ReadsBack(c, affected, TestCase(c))

\* _sample
Sampled(op, responses, positive, constraints, sample) ==
  LET chosen == Choose([positive |-> positive, negative |-> << >>], op.ids, constraints,
                       "happy_path", << >>, sample.choice)[2]
  IN  CaseOf(op, responses, chosen.generators, chosen.constraints, sample.draws)

Tried(op, new, replaced, patch, sample) ==
  IF /\ new # Refused
     /\ Succeeds(Sampled(op, ValuesOnTrial([op |-> op], patch.changes), new[2], replaced, sample),
                 ToSet(patch.affected))
  THEN <<"valid", [positive |-> new[2], constraints |-> replaced]>>
  ELSE Refused

\* validate_state: the new state, or Refused.
Validated(op, positive, constraints, patch, sample) ==
  Tried(op, CompiledGenerators([op |-> op], positive, patch), Replaced(constraints, patch), patch, sample)
=============================================================================
