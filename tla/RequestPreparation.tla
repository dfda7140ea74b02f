-------------------------- MODULE RequestPreparation --------------------------
(***************************************************************************)
(* How the requests of one Operation come about: the contracts of its      *)
(* inputs are frozen, Parameter Patches replace its Generators and its     *)
(* constraints, a slot of a Batch chooses among them, and the case is      *)
(* generated for its constraints (_generate_selected_case of               *)
(* harness/operation_testing/service.py over restscope/request_generation).*)
(*                                                                         *)
(* An Operation's record joins what RequestGeneration and SemanticPatches  *)
(* need with the observed `records` of each resource, the `constraints` of *)
(* earlier Patches, the default `strategy` of each input, the `negative`   *)
(* Generators, and the Patches, their samples, the scores and the draws    *)
(* considered for it.                                                      *)
(***************************************************************************)
EXTENDS SemanticPatches, RequestWire

CONSTANTS
  Operations,      \* the names of the Operations
  Contract,        \* the record of each of them
  MaxPatches       \* bound: Patches considered before a slot

IsSequence(s) == s \in Seq(ToSet(s))

\* A list of JSON values.
IsValue(x) == x[1] \in {"number", "string", "boolean", "null", "array", "object"}
AreValues(s) == IsSequence(s) /\ \A x \in ToSet(s) : IsValue(x)

\* build_operation_input_nodes: the parameters and a request body are the roots, a media type is
\* what lies right below the body and is always there, a node with others below it is a
\* container, and the properties of one object have different names.
IsTree(o) ==
  LET KindOf(n) == o.nodes[n].kind
      EdgeOf(n) == o.nodes[n].edge
      ParentOf(n) == o.nodes[n].parent
  IN  /\ ToSet(o.ids) = DOMAIN o.nodes /\ IsInjective(o.ids) /\ NoNode \notin DOMAIN o.nodes
      /\ \A S \in SUBSET DOMAIN o.nodes : S # {} => \E n \in S : ParentOf(n) \notin S
      /\ \A n \in DOMAIN o.nodes :
           /\ ParentOf(n) # NoNode => ParentOf(n) \in DOMAIN o.nodes /\ o.nodes[ParentOf(n)].container
           /\ ParentOf(n) = NoNode <=> KindOf(n) \in {"parameter", "request_body"}
           /\ ParentOf(n) = NoNode <=> EdgeOf(n) = "root"
           /\ EdgeOf(n) = "media" <=> ParentOf(n) # NoNode /\ KindOf(ParentOf(n)) = "request_body"
           /\ EdgeOf(n) = "media" => o.nodes[n].required
           /\ KindOf(n) = "request_body" => o.nodes[n].container
      /\ \A m, n \in DOMAIN o.nodes : KindOf(m) = "request_body" /\ KindOf(n) = "request_body" => m = n
      /\ \A m, n \in DOMAIN o.nodes :
           EdgeOf(m) = "property" /\ EdgeOf(n) = "property" /\ ParentOf(m) = ParentOf(n)
             /\ o.nodes[m].name = o.nodes[n].name => m = n
      /\ o.active # NoNode => o.active \in DOMAIN o.nodes /\ EdgeOf(o.active) = "media"

\* A Generator that an input can have: an object is built for a container only.
IsStrategy(o, n, s) ==
  /\ s.type = "values" => AreValues(s.samples)
  /\ s.type = "object" => o.nodes[n].container

\* What the documents, the stores and the statistics guarantee of an Operation: lists
\* are lists, a stored constraint is named after its only expression, the rewards of
\* an arm are among its attempts.
WellFormed(o) ==
  /\ IsTree(o)
  /\ DOMAIN o.strategy = DOMAIN o.nodes
  /\ \A n \in DOMAIN o.nodes : IsStrategy(o, n, o.strategy[n])
  /\ \A i \in DOMAIN o.negative : IsStrategy(o, o.negative[i].node, o.negative[i].strategy)
  /\ \A r \in DOMAIN o.records :
       IsSequence(o.records[r]) /\ \A row \in ToSet(o.records[r]) : \A f \in DOMAIN row : IsValue(row[f])
  /\ \A s \in DOMAIN o.evidence.observed : AreValues(o.evidence.observed[s])
  /\ \A draws \in o.draws :
       draws.record \in Nat /\ \A n \in DOMAIN o.nodes : draws.value[n] \in Nat
  /\ IsSequence(o.ids) /\ IsSequence(o.negative) /\ IsSequence(o.constraints)
  /\ \A i \in DOMAIN o.constraints :
       LET id == o.constraints[i].id IN o.constraints[i] = [id |-> id, constraints |-> <<id>>]
  /\ \A patch \in o.patches :
       /\ IsSequence(patch.affected) /\ IsSequence(patch.changes) /\ IsSequence(patch.constraints)
       /\ \A i \in DOMAIN patch.changes :
            /\ DOMAIN patch.changes[i] = {"node", "chance", "strategy"}
            /\ IsStrategy(o, patch.changes[i].node, patch.changes[i].strategy)
  /\ \A choice \in o.choices : choice.pick \in Nat
  /\ \A score \in o.scores : \A arm \in DOMAIN score :
       score[arm].attempts \in Nat /\ score[arm].rewards \in 0..score[arm].attempts

ASSUME OperationAssumption ==
  MaxPatches \in Nat /\ \A o \in Operations : WellFormed(Contract[o])

VARIABLES
  operation,       \* the Operation at work
  positive,        \* its positive candidates
  constraints,     \* its stored constraints
  latest,          \* the latest accepted Patch and the state it was written for
  patched,         \* how many Patches were accepted or refused
  slot             \* the selection, the draws and the outcome of a slot

vars == <<operation, positive, constraints, latest, patched, slot>>

Op == Contract[operation]
Empty == [stage |-> "empty"]
NoPatch == [stage |-> "none"]

\* build_initial_operation_config: one candidate for each input, optional inputs
\* half of the time.
InitialGenerators(o) ==
  [n \in DOMAIN o.nodes |->
    <<[chance |-> IF o.nodes[n].required THEN "always" ELSE "sometimes",
       strategy |-> o.strategy[n]]>>]

\* _capture_reference_values: a Batch reads each source once, and what it gave then.
Captured == Observed(Op)

\* The case that generate_test_case works on.
Case(generators, kept, draws) == CaseOf(Op, Captured, generators, kept, draws)

SlotCase == Case(slot.selection.generators, slot.selection.constraints, slot.draws)

Config == [positive |-> positive, negative |-> Op.negative]

Init ==
  /\ operation \in Operations
  /\ positive = InitialGenerators(Op)
  /\ constraints = Op.constraints
  /\ latest = NoPatch
  /\ patched = 0
  /\ slot = Empty

\* What a valid Patch leaves, if it changes anything.
Publish(new, patch) ==
  IF new = Refused \/ new[2] = [positive |-> positive, constraints |-> constraints]
  THEN UNCHANGED <<positive, constraints, latest>>
  ELSE /\ positive' = new[2].positive
       /\ constraints' = new[2].constraints
       /\ latest' = [stage |-> "applied", patch |-> patch, positive |-> positive,
                     constraints |-> constraints]

\* RequestGenerationPatchRuntime.apply: a Patch that is valid and changes something
\* replaces the Generators and the constraints of its scope.
ApplyPatch(patch, sample) ==
  /\ slot = Empty /\ patched < MaxPatches
  /\ patched' = patched + 1
  /\ Publish(Validated(Op, positive, constraints, patch, sample), patch)
  /\ UNCHANGED <<operation, slot>>

\* choose_case_generators
Select(mode, score, choice) ==
  LET chosen == Choose(Config, Op.ids, constraints, mode, score, choice)
  IN  /\ slot = Empty
      /\ slot' = IF chosen = Skipped THEN [stage |-> "skipped"]
                 ELSE [stage |-> "selected", mode |-> mode, score |-> score, choice |-> choice,
                       selection |-> chosen[2]]
      /\ UNCHANGED <<operation, positive, constraints, latest, patched>>

ConstraintErrors == {"constraint_invalid", "constraint_empty_domain", "constraint_unsatisfiable",
                     "constraint_search_exhausted", "constraint_recheck_failed"}

\* Constraints that cannot be met are all dropped at once: the case is generated anew
\* without any, so that nothing is overridden.
Weakened(c, first) ==
  IF first[1] \in ConstraintErrors
  THEN [error |-> first[1], outcome |-> Generate(Unsolved(c))]
  ELSE [error |-> "none", outcome |-> first]

\* _generate_selected_case
Prepare(draws) ==
  LET c == Case(slot.selection.generators, slot.selection.constraints, draws)
      made == Weakened(c, TestCase(c))
  IN  /\ slot.stage = "selected"
      /\ slot' = [stage |-> "prepared", selection |-> slot.selection, draws |-> draws,
                  error |-> made.error, outcome |-> made.outcome]
      /\ UNCHANGED <<operation, positive, constraints, latest, patched>>

\* serialize_test_case and prepare_target_request, for one declaration of the
\* parameters and one configuration of the App.
Send(declared, app) ==
  /\ slot.stage = "prepared" /\ slot.outcome[1] = "request"
  /\ slot' = [stage |-> "sent", declared |-> declared, app |-> app,
              selection |-> slot.selection, draws |-> slot.draws, request |-> slot.outcome[2],
              wire |-> Wired(SlotCase, declared, app, slot.outcome[2])]
  /\ UNCHANGED <<operation, positive, constraints, latest, patched>>

Next ==
  \/ \E patch \in Op.patches, sample \in Op.samples : ApplyPatch(patch, sample)
  \/ \E mode \in {"happy_path", "exceptional"}, score \in Op.scores, choice \in Op.choices :
       Select(mode, score, choice)
  \/ \E draws \in Op.draws : Prepare(draws)
  \/ \E declared \in Op.declarations, app \in Op.apps : Send(declared, app)

Spec == Init /\ [][Next]_vars

-----------------------------------------------------------------------------
(* Properties.                                                             *)

Prepared == slot.stage = "prepared" /\ slot.outcome[1] = "request"
Request == slot.outcome[2]

\* An input all of whose containers are built by their own Generators: no array,
\* variant, composition or constant stands between it and the request.
Plain(c, n) ==
  /\ Node(c, n).edge \in {"root", "media", "property"}
  /\ \A a \in Ancestors(c, n) :
       /\ Node(c, a).edge \in {"root", "media", "property"}
       /\ Strategy(c, a).type \in {"object", "request_body"}
       /\ Children(c, a, "allOf") = {}
       /\ Node(c, a).edge = "media" => a = c.op.active
  /\ Node(c, n).edge = "media" => n = c.op.active

\* What the server receives for each input.
Received(c, r) ==
  [n \in Nodes(c) |->
    IF Node(c, n).kind = "request_body" THEN IF r.hasBody THEN Bare ELSE Absent
    ELSE LET v == Projected(c, r, n)
         IN  IF v = Failed THEN Absent ELSE IF Node(c, n).container THEN Bare ELSE v]

\* A request that was generated for constraints meets them as the server receives
\* it, although the search saw only assignments: the presence of every container
\* above a chosen value, and every absence, arrives.
RequestsMeetConstraints ==
  Prepared /\ slot.error = "none" =>
    LET c == SlotCase
        a == Received(c, Request)
    IN  \A i \in DOMAIN c.constraints :
          (\A n \in InputsOf(c.constraints[i]) : Plain(c, n)) => Holds(c.constraints[i], a)

\* What is read back from a request is what was generated: a value where one was
\* made, nothing where the input was left out; a body that is left out is null.
RequestIsReadBack ==
  Prepared =>
    LET c == [SlotCase EXCEPT !.constraints = << >>]
        r == Request
    IN  \A n \in {m \in Nodes(c) : Plain(c, m)} :
          /\ n \in r.omitted => Recovered(c, r)[n] = Absent
          /\ n \in r.omitted \ {c.op.active} => Projected(c, r, n) = Failed
          /\ n \in DOMAIN r.made /\ ~Node(c, n).container =>
               Projected(c, r, n) = r.made[n] /\ Recovered(c, r)[n] = r.made[n]

\* What the target reads from the text that is sent is what the request says, with
\* what belongs to the App unchanged.
TextIsFaithful ==
  slot.stage = "sent" /\ slot.wire[1] = "ready" =>
    /\ Says(SlotCase, slot.declared, slot.app, slot.request, slot.wire[2])
    /\ SecretsAreKept(slot.app, slot.wire[2])

\* What was generated is read back, from the request and from its text.
ReadBackIsFaithful == RequestIsReadBack /\ TextIsFaithful

\* Every combination of the candidates, as the positions picked: an input is absent or has
\* one of its values.
Combinations(units) ==
  {p \in [DOMAIN units -> 1..(MaxDomain + 1)] :
     \A i \in DOMAIN units : p[i] \in DOMAIN units[i].candidates}
Before(p, q) ==
  \E i \in DOMAIN p : p[i] < q[i] /\ \A j \in 1..(i - 1) : p[j] = q[j]

\* What the search answers, against every good combination.
ExactAnswer(c, base, units, all, good, result) ==
  CASE result[1] = "constraint_empty_domain" -> \E i \in DOMAIN units : units[i].candidates = << >>
    [] result[1] = "constraint_unsatisfiable" -> good = {}
    [] result[1] = "constraint_search_exhausted" -> Cardinality(all) > MaxStates
    [] result[1] = "solved" ->
         /\ \E first \in good :
              /\ \A q \in good \ {first} : Before(first, q)
              /\ result[2] = Completed(c, Picked(units, first), base).overrides
         /\ Satisfied(c.constraints, base) /\ RecordsMatch(c, base)
              /\ (\E p \in all : \A n \in ReferencedInputs(c.constraints) :
                    Picked(units, p)[n] = base[n])
            => \A n \in DOMAIN result[2] : result[2][n] = base[n]

\* What is decided of the first k choices is decided of them all.
SoundVerdicts(c, units, p, a) ==
  /\ \A k \in 0..Len(units) :
       Satisfied(c.constraints, a) \in VerdictOnAll(c.constraints, Partly(c, Picked(units, SubSeq(p, 1, k))))
  /\ \A i \in DOMAIN c.constraints : Holds(Normal(c.constraints[i]), a) = Holds(c.constraints[i], a)

ExactSearch(c, base, units, all) ==
  /\ ExactAnswer(c, base, units, all, {p \in all : Good(c, Picked(units, p), base)},
                 Solve(c, base))
  /\ \A p \in all :
       LET full == Picked(units, p)
       IN  Coherent(c, full) => SoundVerdicts(c, units, p, Completed(c, full, base).assignments)

ExactFrom(c, baseline) ==
  LET base == Recovered(c, baseline[2])
      units == OrderedUnits(c, base)
  IN  baseline # Failed => ExactSearch(c, base, units, Combinations(units))

\* The search with its pruning finds exactly what trying every combination finds:
\* the first good combination, that there is none, or that there are too many;
\* and a baseline that meets the constraints is left as it is.  What is decided on
\* the inputs assigned so far holds for every coherent way to assign the others,
\* and a constraint means the same in its normal form.
SearchIsExact ==
  slot.stage = "prepared" /\ slot.selection.constraints # << >> /\ slot.error # "constraint_invalid" =>
    ExactFrom(SlotCase, Generate(SlotCase))

\* The inputs of some records that connect with n, directly or through others.
ConnectedBy(records, n) ==
  LET Closed(S) == \A i \in DOMAIN records :
                     Owners(records[i]) \cap S # {} => Owners(records[i]) \subseteq S
      nodes == {n} \cup UNION {Owners(records[i]) : i \in DOMAIN records}
  IN  {m \in nodes : \A S \in SUBSET nodes : n \in S /\ Closed(S) => m \in S}

\* An input whose containers are all built by their own Generators or by a variant
\* that has one candidate only, and that the latest Patch found to be a variant: the
\* branch of a container that becomes a variant with the Patch is not compared with
\* the inputs that are changed.
Traceable(c, n) ==
  \A a \in Ancestors(c, n) \cup {n} :
    LET p == Node(c, a).parent
    IN  \/ Node(c, a).edge = "root"
        \/ Node(c, a).edge = "media" /\ a = c.op.active
        \/ /\ Node(c, a).edge = "property"
           /\ Strategy(c, p).type = "object" /\ Children(c, p, "allOf") = {}
        \/ /\ Node(c, a).edge = "oneOf"
           /\ Strategy(c, p).type = "variant" /\ Len(positive[p]) = 1
           /\ Last(latest.positive[p]).strategy.type = "variant"

MandatoryInputs(patch) ==
  {n \in NodesOf(patch.changes) :
     \A i \in DOMAIN patch.changes : patch.changes[i].node = n => patch.changes[i].chance = "always"}

\* The constraints that a Patch removed were all shown to an Agent that read the
\* inputs of its scope, and those that nothing connects with the scope are kept.
ScopeIsReplaced(old, patch) ==
  LET scope == ToSet(patch.affected)
      reached == UNION {ConnectedBy(old, n) : n \in scope}
      own == {Compiled(e) : e \in ToSet(patch.constraints)}
      kept == {r \in ToSet(old) : Owners(r) \cap reached = {}}
  IN  /\ ToSet(constraints) = kept \cup own
      /\ \A r \in ToSet(old) \ kept :
           r.id \in Shown(old, scope).ids /\ Owners(r) \subseteq scope \cup Shown(old, scope).additional

\* An input that the latest Patch made mandatory is in every request, however many
\* candidates its containers have and whatever the constraints ask, unless a negative
\* Generator aims at it or at a container of it.
MandatoryInputsArrive ==
  latest # NoPatch /\ Prepared =>
    \A n \in MandatoryInputs(latest.patch) :
      /\ Traceable(SlotCase, n)
      /\ slot.selection.negative.node \notin Ancestors(SlotCase, n) \cup {n}
      => Received(SlotCase, Request)[n] # Absent

\* Nothing but the scope of the latest Patch has new Generators, and its constraints
\* replace those that connect with its scope and no others.
ScopesAreReplaced ==
  latest # NoPatch /\ slot = Empty =>
    /\ ScopeIsReplaced(latest.constraints, latest.patch)
    /\ \A n \in Addressable([op |-> Op]) \ ToSet(latest.patch.affected) :
         positive[n] = latest.positive[n]

\* An applied Patch does what it says, to the requests and to the state.
PatchesAreKept == MandatoryInputsArrive /\ ScopesAreReplaced

\* A happy path keeps every constraint; a negative value is tested without any
\* constraint that could be broken by it, directly or through other inputs, and
\* with all the others; without exploration no better candidate is passed over.
SelectionIsFaithful ==
  slot.stage = "selected" =>
    LET s == slot.selection
        ids == {constraints[i].id : i \in DOMAIN constraints}
        related == {constraints[i].id : i \in {j \in DOMAIN constraints :
                      Owners(constraints[j]) \cap ConnectedBy(constraints, s.negative.node) # {}}}
        BestOf(candidates, kind, n, x) ==
          slot.choice.explore \/ \A i \in DOMAIN candidates :
            ~BetterMean(Score(slot.score, <<kind, n, candidates[i]>>), Score(slot.score, <<kind, n, x>>))
    IN  /\ slot.mode = "happy_path" => s.action = "happy_path" /\ s.ignored = {}
        /\ s.action = "ignored_constraint" => Cardinality(s.ignored) = 1 /\ s.ignored \subseteq ids
        /\ s.action = "negative_generator" =>
             /\ s.ignored = related
             /\ BestOf(NegativesOf(Config, s.negative.node), "negative", s.negative.node, s.negative)
        /\ \A n \in DOMAIN s.positive :
             /\ s.generators[n] = s.positive[n] /\ Contains(positive[n], s.positive[n])
             /\ BestOf(positive[n], "positive", n, s.positive[n])
=============================================================================
