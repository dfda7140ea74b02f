-------------------------- MODULE RequestGeneration --------------------------
(***************************************************************************)
(* How one request of an Operation is built from its input tree, the       *)
(* selected Generators and the seeded draws, and how values are read back  *)
(* from it (restscope/request_generation/generation.py, and                *)
(* assignments_from_generated_case of constraint_solver.py).               *)
(*                                                                         *)
(* An Operation is a record: `nodes` gives each input node its kind, its   *)
(* parent and the edge to it, its property name, whether it is required,   *)
(* whether its contract is a container and the types of its contract;      *)
(* `ids` lists the nodes in order and `active` is the selected media type. *)
(* A case joins the Operation with the chance and the strategy of each     *)
(* node, the overrides of a solver, the records known of each resource,    *)
(* the values observed for each response source and the draws: the seed of *)
(* a draw depends on the node and the purpose, not on the overrides, so    *)
(* both passes over one case draw alike.  The items of one array are drawn *)
(* alike.                                                                  *)
(***************************************************************************)
EXTENDS Constraints

NoNode == "none"
Failed == <<"failed">>
ScalarStrategies == {"values", "resource", "response"}

Node(c, n) == c.op.nodes[n]
Nodes(c) == DOMAIN c.op.nodes
Strategy(c, n) == c.strategy[n]
Children(c, n, edge) == {m \in Nodes(c) : Node(c, m).parent = n /\ Node(c, m).edge = edge}

Ancestors(c, n) ==
  LET above[m \in Nodes(c)] ==
        LET p == Node(c, m).parent IN IF p = NoNode THEN {} ELSE {p} \cup above[p]
  IN  above[n]

\* _included, which the solver's override decides before the draw.
Taken(c, n) ==
  IF n \in DOMAIN c.overrides THEN c.overrides[n] # Absent
  ELSE \/ c.chance[n] = "always"
       \/ c.chance[n] = "sometimes" /\ c.draws.include[n]

IsScalar(x) == x[1] \in {"string", "number", "boolean"}

\* What is known of a resource or of a source of values.
Known(f, x) == IF x \in DOMAIN f THEN f[x] ELSE << >>

\* The values a plain or a response Generator chooses from.
OwnValues(c, s) == IF s.type = "response" THEN Known(c.responses, s.source) ELSE s.samples

\* generate_strategy_value: the same record for all components of a resource.
Drawn(c, n) ==
  LET s == Strategy(c, n)
  IN  IF s.type # "resource"
      THEN IF OwnValues(c, s) = << >> THEN Failed
           ELSE OwnValues(c, s)[(c.draws.value[n] % Len(OwnValues(c, s))) + 1]
      ELSE LET records == Known(c.records, s.resource)
               row == records[(c.draws.record % Len(records)) + 1]
           IN  IF records = << >> THEN Failed
               ELSE IF s.field \notin DOMAIN row THEN Failed ELSE row[s.field]

\* An item the solver requires makes an array of at least one, or fails.
ArrayLength(c, n) ==
  LET s == Strategy(c, n)
      wanted == \E m \in Children(c, n, "items") : m \in DOMAIN c.overrides /\ Taken(c, m)
      least == IF wanted /\ s.minimum = 0 THEN 1 ELSE s.minimum
  IN  IF s.maximum < least THEN -1
      ELSE IF c.draws.length[n] < least THEN least
      ELSE IF c.draws.length[n] > s.maximum THEN s.maximum ELSE c.draws.length[n]

\* _build_variant: a branch with a positive weight.
BranchTaken(c, n) ==
  IF c.draws.branch[n] \in Strategy(c, n).branches THEN c.draws.branch[n]
  ELSE CHOOSE m \in Strategy(c, n).branches : TRUE

\* _build_object: the members that are not left out.
ObjectOf(c, parts) ==
  LET members == {m \in DOMAIN parts : parts[m] # Absent}
  IN  IF \E m \in members : parts[m] = Failed THEN Failed
      ELSE <<"object", [x \in {Node(c, m).name : m \in members} |->
             parts[CHOOSE m \in members : Node(c, m).name = x]]>>

\* The objects of an allOf, joined unless two of them disagree.
Merged(objects) ==
  IF \E v \in objects : v[1] # "object" THEN Failed
  ELSE IF \E v, w \in objects : \E x \in DOMAIN v[2] \cap DOMAIN w[2] : v[2][x] # w[2][x] THEN Failed
  ELSE <<"object", [x \in UNION {DOMAIN v[2] : v \in objects} |->
         (CHOOSE v \in objects : x \in DOMAIN v[2])[2][x]]>>

\* An array of so many items.
ArrayOfItems(length, item) ==
  IF length < 0 \/ (length > 0 /\ item = Failed) THEN Failed
  ELSE IF length = 0 \/ item = Absent THEN <<"array", << >>>>
  ELSE <<"array", [i \in 1..length |-> item]>>

\* _build_value, of the values of the nodes right below; Absent when it is left out.
ValueOver(c, m, below) ==
  LET s == Strategy(c, m)
      branch == BranchTaken(c, m)
      merged == {below[k] : k \in Children(c, m, "allOf")}
      items == Children(c, m, "items")
  IN  IF ~Taken(c, m) THEN Absent
      ELSE IF s.type \in ScalarStrategies
        THEN IF m \in DOMAIN c.overrides /\ HasValue(c.overrides[m]) THEN c.overrides[m]
             ELSE Drawn(c, m)
      ELSE IF s.type = "variant"
        THEN IF branch \notin Children(c, m, "oneOf") THEN Failed
             ELSE IF below[branch] = Absent THEN Failed ELSE below[branch]
      ELSE IF s.type = "object" /\ merged # {} THEN Merged(merged)
      ELSE IF s.type = "object" THEN ObjectOf(c, [k \in Children(c, m, "property") |-> below[k]])
      ELSE IF s.type = "array" /\ items # {}
        THEN ArrayOfItems(ArrayLength(c, m), below[CHOOSE k \in items : TRUE])
      ELSE Failed

PartsOf(c, n) == {m \in Nodes(c) : Node(c, m).parent = n}

Build(c, n) ==
  LET built[m \in Nodes(c)] == ValueOver(c, m, [k \in PartsOf(c, m) |-> built[k]])
  IN  built[n]

\* Mutant: inputs in a container that is left out are recorded as made.
ReachedAnyway(c, n) == TRUE

\* Whether _build_value goes on from a node to one below it.
Entered(c, n) ==
  LET p == Node(c, n).parent
  IN  /\ Taken(c, p)
      /\ \/ Node(c, n).edge = "media" /\ n = c.op.active
         \/ /\ Node(c, n).edge = "property"
            /\ Strategy(c, p).type = "object" /\ Children(c, p, "allOf") = {}
         \/ Node(c, n).edge = "allOf" /\ Strategy(c, p).type = "object"
         \/ /\ Node(c, n).edge = "oneOf"
            /\ Strategy(c, p).type = "variant" /\ BranchTaken(c, p) = n
         \/ /\ Node(c, n).edge = "items"
            /\ Strategy(c, p).type = "array" /\ ArrayLength(c, p) > 0

\* The nodes that _build_value visits.
Reached(c, n) == \A m \in Ancestors(c, n) \cup {n} : Node(c, m).parent # NoNode => Entered(c, m)

\* The body of a request: Absent where the request has none.
BodyOf(c, bodies) ==
  IF bodies = {} THEN Absent
  ELSE IF c.op.active = NoNode THEN Failed ELSE Build(c, c.op.active)

Assembled(c, bodies, parts, body, visited) ==
  IF body = Failed \/ \E n \in DOMAIN parts : parts[n] = Failed THEN Failed
  ELSE <<"request",
         [parameters |-> [n \in {m \in DOMAIN parts : parts[m] # Absent} |-> parts[n]],
          hasBody |-> bodies # {}, body |-> IF body = Absent THEN <<"null", 0>> ELSE body,
          made |-> [n \in {m \in visited : Taken(c, m) /\ Strategy(c, m).type \in ScalarStrategies}
                      |-> Build(c, n)],
          omitted |-> {n \in visited : ~Taken(c, n)}]>>

\* _TestCaseGenerator.generate, or Failed.
Generate(c) ==
  LET bodies == {n \in Nodes(c) : Node(c, n).kind = "request_body" /\ Taken(c, n)}
  IN  Assembled(c, bodies, [n \in {m \in Nodes(c) : Node(c, m).kind = "parameter"} |-> Build(c, n)],
                BodyOf(c, bodies), {n \in Nodes(c) : Reached(c, n)})

-----------------------------------------------------------------------------
(* What a request says of each input.                                      *)

\* _assignment_for_generated_value
Assigned(c, n, v) == IF Node(c, n).container THEN Bare ELSE v

HasMember(v, x) == v[1] = "object" /\ x \in DOMAIN v[2]

\* The value of a body property in the body, as _mark_body_descendants goes down.
BodyAt(c, r, n) ==
  LET at[m \in Nodes(c)] ==
        LET x == Node(c, m).name
            v == at[Node(c, m).parent]
        IN  IF m = c.op.active THEN r.body
            ELSE IF Node(c, m).parent = NoNode \/ Node(c, m).edge # "property" THEN Absent
            ELSE IF HasMember(v, x) THEN v[2][x] ELSE Absent
  IN  at[n]

\* assignments_from_generated_case
Recovered(c, r) ==
  LET above == UNION {Ancestors(c, n) : n \in DOMAIN r.made \ r.omitted}
      media == IF r.hasBody THEN {c.op.active} ELSE {}
  IN  [n \in Nodes(c) |->
        IF n \in r.omitted THEN Absent
        ELSE IF r.hasBody /\ Node(c, n).kind = "request_body" THEN Bare
        ELSE IF r.hasBody /\ BodyAt(c, r, n) # Absent THEN Assigned(c, n, BodyAt(c, r, n))
        ELSE IF n \in above THEN Bare
        ELSE IF n \in DOMAIN r.made THEN r.made[n]
        ELSE IF n \in DOMAIN r.parameters THEN Assigned(c, n, r.parameters[n])
        ELSE Absent]

\* _project_child_value: below an array, the sequence of the values of its items.
ChildValue(c, m, v) ==
  LET x == Node(c, m).name
      held == Filter(v[2], LAMBDA w : HasMember(w, x))
  IN  CASE Node(c, m).edge = "items" -> IF v[1] = "array" THEN v ELSE Failed
        [] Node(c, m).edge = "property" /\ v[1] # "array" ->
             IF HasMember(v, x) THEN v[2][x] ELSE Failed
        [] Node(c, m).edge = "property" /\ v[1] = "array" ->
             IF held = << >> THEN Failed ELSE <<"array", [i \in DOMAIN held |-> held[i][2][x]]>>
        [] OTHER -> v

\* project_generated_input_value: Failed where the code raises KeyError.
Projected(c, r, n) ==
  LET found[m \in Nodes(c)] ==
        LET v == found[Node(c, m).parent]
        IN  IF Node(c, m).kind = "parameter"
            THEN IF m \in DOMAIN r.parameters THEN r.parameters[m] ELSE Failed
            ELSE IF m = c.op.active THEN IF r.hasBody THEN r.body ELSE Failed
            ELSE IF Node(c, m).parent = NoNode \/ Node(c, m).edge = "media" THEN Failed
            ELSE IF v = Failed THEN Failed
            ELSE ChildValue(c, m, v)
  IN  found[n]
=============================================================================
