--------------------------- MODULE GeneratorPatches ---------------------------
(***************************************************************************)
(* How a Parameter Patch becomes the new Generators of an Operation        *)
(* (the pure part of restscope/request_generation/store.py).               *)
(*                                                                         *)
(* A Patch is a sequence of items: an input, a chance or Keep, a strategy  *)
(* or KeepStrategy.  `positive` gives each input its candidates.           *)
(***************************************************************************)
EXTENDS RequestGeneration

CONSTANT MaxCandidates    \* positive candidates of one input (8 in the code)

ASSUME PatchAssumption == MaxCandidates \in Nat \ {0}

Keep == "keep"
KeepStrategy == [type |-> "keep"]
Refused == <<"refused">>

ItemsFor(patch, n) == Filter(patch, LAMBDA x : x.node = n)
NodesOf(patch) == {patch[i].node : i \in DOMAIN patch}

\* The ancestors that must be present because a Patch makes n so.
RequiredAncestors(c, patch) ==
  UNION {Ancestors(c, patch[i].node) : i \in {j \in DOMAIN patch : patch[j].chance = "always"}}

ClosureConflict(c, patch) ==
  \E a \in RequiredAncestors(c, patch) : \E i \in DOMAIN patch :
    patch[i].node = a /\ patch[i].chance \in {"sometimes", "never"}

\* Mutant: candidates a Patch does not name keep their chance.
ExpandNamedOnly(c, positive, patch) ==
  [n \in NodesOf(patch) |->
     LET items == ItemsFor(patch, n)
     IN  IF n \in RequiredAncestors(c, patch)
         THEN [i \in DOMAIN items |-> [items[i] EXCEPT !.chance = "always"]] ELSE items]

\* expand_generator_patch_presence: the items of each input once the ancestors
\* of the mandatory ones are mandatory too.
Expand(c, positive, patch) ==
  LET required == RequiredAncestors(c, patch)
      optional == {a \in required : \E i \in DOMAIN positive[a] : positive[a][i].chance # "always"}
  IN  [n \in NodesOf(patch) \cup optional |->
        LET items == ItemsFor(patch, n)
        IN  IF n \notin required THEN items
            ELSE IF n \in NodesOf(patch)
              THEN [i \in DOMAIN items |->
                     IF items[i].chance = Keep /\ n \notin optional THEN items[i]
                     ELSE [items[i] EXCEPT !.chance = "always"]]
            ELSE [i \in DOMAIN positive[n] |->
                   [node |-> n, chance |-> "always", strategy |-> positive[n][i].strategy]]]

\* _apply_patches: what an item leaves out comes from the first candidate.
Replacements(positive, items) ==
  LET first == positive[items[1].node][1]
  IN  [i \in DOMAIN items |->
        [chance |-> IF items[i].chance = Keep THEN first.chance ELSE items[i].chance,
         strategy |-> IF items[i].strategy = KeepStrategy THEN first.strategy
                      ELSE items[i].strategy]]

-----------------------------------------------------------------------------
(* _validate_configs, as a Patch is checked.                               *)

\* _effective_node_ids: inputs below a container that a plain value replaces are
\* not built; the first candidate of the container decides.
Shadowed(c, positive, n) ==
  \E a \in Ancestors(c, n) : positive[a][1].strategy.type = "values"

\* _strategy_can_build_node
CanBuild(c, n, s) ==
  IF Node(c, n).kind = "request_body" THEN s.type = "request_body"
  ELSE CASE s.type = "request_body" -> FALSE
         [] s.type \in {"resource", "response"} -> ~Node(c, n).container
         [] s.type = "array" -> Children(c, n, "items") # {}
         [] s.type = "variant" -> Children(c, n, "oneOf") # {}
         [] OTHER -> TRUE

\* _media_body_strategy_errors, of the first candidate of the active media type.
MediaFits(c, s) ==
  CASE c.op.media = "form" ->
         \/ s.type = "object"
         \/ s.type = "values" /\ \A i \in DOMAIN s.samples : s.samples[i][1] = "object"
    [] c.op.media = "text" ->
         s.type = "values" /\ \A i \in DOMAIN s.samples : s.samples[i][1] = "string"
    [] OTHER -> TRUE

\* _selected_node_ids: everything but the media types that are not active.
Selected(c, n) ==
  \/ c.op.active \in Ancestors(c, n) \cup {n}
  \/ \A a \in Ancestors(c, n) : Node(c, a).kind # "request_body"

\* _validate_configs
Acceptable(c, positive) ==
  /\ c.op.active # NoNode => MediaFits(c, positive[c.op.active][1].strategy)
  /\ \A n \in Nodes(c) :
     /\ Len(positive[n]) \in 1..MaxCandidates
     /\ Node(c, n).required => \A i \in DOMAIN positive[n] : positive[n][i].chance = "always"
     /\ Selected(c, n) /\ ~Shadowed(c, positive, n) =>
          \A i \in DOMAIN positive[n] : CanBuild(c, n, positive[n][i].strategy)

\* preview_generator_patch: the new candidates, or Refused.  A Patch of constraints
\* alone leaves the Generators as they are.
PatchedGenerators(c, positive, patch) ==
  LET expanded == Expand(c, positive, patch)
      new == [n \in Nodes(c) |-> IF n \in DOMAIN expanded
                                 THEN Replacements(positive, expanded[n]) ELSE positive[n]]
  IN  IF patch = << >> THEN <<"accepted", positive>>
      ELSE IF \/ ~(NodesOf(patch) \subseteq Nodes(c))
              \/ \E n \in NodesOf(patch) : Len(ItemsFor(patch, n)) > MaxCandidates
              \/ ClosureConflict(c, patch)
              \/ \E n \in DOMAIN expanded : ~IsInjective(new[n])
              \/ ~Acceptable(c, new)
      THEN Refused
      ELSE <<"accepted", new>>
=============================================================================
