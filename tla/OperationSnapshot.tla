-------------------------- MODULE OperationSnapshot --------------------------
(***************************************************************************)
(* How the document's description of an Operation becomes the frozen tree  *)
(* of its inputs, their default Generators, and the reasons that disable   *)
(* it (restscope/openapi_parser/input_nodes.py,                            *)
(* request_generation/snapshot.py and the validation of store.py).         *)
(*                                                                         *)
(* A schema is the contract of InputContracts with `properties`,           *)
(* `required`, `items`, `allOf`, `anyOf`, `oneOf`, `readOnly`, `binary`    *)
(* (format binary or byte), `minItems`, `maxItems`, `unique`,              *)
(* `minProperties` and `maxProperties`.  A container states no constant,   *)
(* default, example or pattern, and the objects it enumerates hold scalars.*)
(* A described Operation has a sequence of parameters and at most one      *)
(* body, whose media types have a schema and say whether an encoding is    *)
(* declared.  A node is named by its path.                                 *)
(***************************************************************************)
EXTENDS InputContracts, RequestWire

IsObjectSchema(s) == IsType(s, "object") \/ DOMAIN s.properties # {}
IsArraySchema(s) == IsType(s, "array") \/ Stated(s.items)
Combined(s) == s.allOf \o s.anyOf \o s.oneOf
IsScalarSchema(s) == Combined(s) = << >> /\ ~IsObjectSchema(s) /\ ~IsArraySchema(s)

-----------------------------------------------------------------------------
(* The tree of inputs (build_operation_input_nodes).                       *)

NewNode(kind, parent, edge, name, required, schema) ==
  [kind |-> kind, parent |-> parent, edge |-> edge, name |-> name, required |-> required, schema |-> schema]

SchemaKind(s) ==
  CASE Combined(s) # << >> -> "variant"
    [] Combined(s) = << >> /\ IsObjectSchema(s) -> "object"
    [] IsScalarSchema(s) -> "scalar"
    [] OTHER -> "array"

\* Mutant: what only responses carry is an input as well.
AllProperties(s) == DOMAIN s.properties

RequestProperties(s) == {x \in DOMAIN s.properties : ~s.properties[x].readOnly}
Without(f, S) == [x \in DOMAIN f \ S |-> f[x]]

RECURSIVE SchemaNodes(_, _, _)
\* The node at a path with all nodes below it (_add_schema_children), except those
\* that `dropped` leaves out.  The branches of anyOf and of oneOf are alike.
SchemaNodes(path, node, dropped) ==
  LET s == node.schema[1]
      Below(keyword, edge, name, required, c) ==
        IF dropped /\ c.binary THEN {}
        ELSE SchemaNodes(path \o "/" \o keyword \o "/" \o name,
                         NewNode(SchemaKind(c), path, edge, name, required, <<c>>), dropped)
      Branches(keyword, edge, cs) ==
        UNION {Below(keyword, edge, ToString(i), TRUE, cs[i]) : i \in DOMAIN cs}
  IN  {<<path, node>>} \cup
      (IF ~Stated(node.schema) THEN {}
       ELSE UNION {Below("properties", "property", x, x \in s.required, s.properties[x]) :
                     x \in RequestProperties(s)} \cup
            UNION {Below("items", "items", "item", TRUE, s.items[i]) : i \in DOMAIN s.items} \cup
            Branches("allOf", "allOf", s.allOf) \cup
            Branches("anyOf", "oneOf", s.anyOf) \cup Branches("oneOf", "oneOf", s.oneOf))

RECURSIVE ReadOnlyNames(_)
\* _read_only_property_names
ReadOnlyNames(s) ==
  (DOMAIN s.properties \ RequestProperties(s)) \cup
  UNION {ReadOnlyNames(Combined(s)[i]) : i \in DOMAIN Combined(s)}

\* _schema_snapshot and _project_request_value: the contract without what only
\* responses carry.
RequestSchema(s) ==
  LET hidden == ReadOnlyNames(s)
      Shown(v) == IF IsObject(v) THEN <<"object", Without(v[2], hidden)>> ELSE v
  IN  [s EXCEPT !.properties = Without(s.properties, DOMAIN s.properties \ RequestProperties(s)),
                !.required = s.required \ hidden,
                !.enum = [i \in DOMAIN s.enum |->
                           [k \in DOMAIN s.enum[i] |-> Shown(s.enum[i][k])]]]

RECURSIVE IsObjectContract(_)
IsObjectContract(s) ==
  LET branches == IF s.allOf # << >> THEN s.allOf ELSE IF s.anyOf # << >> THEN s.anyOf ELSE s.oneOf
  IN  \/ IsObjectSchema(s)
      \/ branches # << >> /\ \A i \in DOMAIN branches : IsObjectContract(branches[i])

RECURSIVE NeedsFile(_)
\* _ir_has_required_file
NeedsFile(s) ==
  \/ s.binary
  \/ \E x \in s.required \cap DOMAIN s.properties : NeedsFile(s.properties[x])
  \/ Stated(s.items) /\ Stated(s.minItems) /\ s.minItems[1] > 0 /\ NeedsFile(s.items[1])
  \/ \E i \in DOMAIN Combined(s) : NeedsFile(Combined(s)[i])

\* _is_supported_media_contract
IsSupportedMedia(media, content) ==
  /\ Stated(content.schema) /\ ~content.encoding /\ ~content.schema[1].binary
  /\ CASE media \in {"json", "vendor+json"} -> TRUE
       [] media = "form" -> IsObjectSchema(content.schema[1])
       [] media = "multipart" -> IsObjectContract(content.schema[1]) /\ ~NeedsFile(content.schema[1])
       [] media = "text" -> IsType(content.schema[1], "string")
       [] OTHER -> FALSE

\* The media types that can be sent, the preferred one first.
SupportedMedia(d) ==
  SelectSeq(<<"json", "vendor+json", "form", "multipart", "text">>,
            LAMBDA m : Stated(d.body) /\ m \in DOMAIN d.body[1].contents
                         /\ IsSupportedMedia(m, d.body[1].contents[m]))

\* build_operation_snapshot: a multipart body keeps no node for a file.
FrozenNodes(d) ==
  LET Root(p) == NewNode("parameter", NoNode, "root", p.name, p.required, p.schema)
      PathOf(p) == p.in \o "/" \o (IF p.in = "header" THEN LowerOf(p.name) ELSE p.name)
      Content(m) == NewNode("media_type", "body", "media", m, TRUE, d.body[1].contents[m].schema)
      pairs ==
        UNION {SchemaNodes(PathOf(d.parameters[i]), Root(d.parameters[i]), FALSE) : i \in DOMAIN d.parameters} \cup
        {<<"body", NewNode("request_body", NoNode, "root", "body", d.body[i].required, << >>)>> :
           i \in DOMAIN d.body} \cup
        UNION {SchemaNodes("body/" \o m, Content(m), m = "multipart") : m \in ToSet(SupportedMedia(d))}
      At(n) == (CHOOSE pair \in pairs : pair[1] = n)[2]
  IN  [n \in {pair[1] : pair \in pairs} |->
        [At(n) EXCEPT !.schema = [i \in DOMAIN @ |-> RequestSchema(@[i])]]]

RECURSIVE Above(_, _)
Above(nodes, n) ==
  IF nodes[n].parent = NoNode THEN {} ELSE {nodes[n].parent} \cup Above(nodes, nodes[n].parent)

Active(d) == IF SupportedMedia(d) = << >> THEN NoNode ELSE "body/" \o SupportedMedia(d)[1]

\* _selected_node_ids of store.py, and of snapshot.py.
ActiveNodes(d, nodes) ==
  {n \in DOMAIN nodes : \A a \in Above(nodes, n) \cup {n} :
     nodes[a].edge = "media" => a = Active(d)}
SelectedNodes(d, nodes) ==
  {n \in ActiveNodes(d, nodes) : \A a \in Above(nodes, n) :
     Stated(nodes[a].schema) => ~Stated(nodes[a].schema[1].enum)}

-----------------------------------------------------------------------------
(* Default Generators, and what disables the Operation.                    *)

\* _default_strategy
NodeDefault(node) ==
  LET s == node.schema[1]
      least == IF Stated(s.minItems) THEN s.minItems[1] ELSE 1
      most == IF Stated(s.maxItems) THEN s.maxItems[1] ELSE Larger(1, least)
  IN  CASE node.kind = "request_body" -> [type |-> "request_body"]
        [] node.kind # "request_body" /\ ~Stated(node.schema) -> NoDefault
        [] Stated(node.schema) /\ (IsScalarSchema(s) \/ Stated(s.enum)) -> Default(s)
        [] OTHER ->
             IF s.oneOf # << >> \/ s.anyOf # << >> THEN [type |-> "variant"]
             ELSE IF s.allOf # << >> \/ IsObjectSchema(s) THEN [type |-> "object"]
             ELSE [type |-> "array", minimum |-> least, maximum |-> most]

\* _schema_unsupported_reasons
IsSupportedSchema(s) ==
  LET combiners == {i \in 1..3 : <<s.allOf, s.anyOf, s.oneOf>>[i] # << >>}
      siblings == \/ DOMAIN s.properties # {} \/ s.required # {} \/ Stated(s.items)
                  \/ Stated(s.minItems) \/ Stated(s.maxItems) \/ s.unique
                  \/ Stated(s.minProperties) \/ Stated(s.maxProperties)
  IN  /\ Supported(s)
      /\ Stated(s.enum) \/
           /\ Cardinality(combiners) <= 1
           /\ combiners # {} => ~siblings
           /\ \A i \in DOMAIN s.allOf : IsObjectSchema(s.allOf[i]) \/ s.allOf[i].allOf # << >>

\* _parameter_unsupported_reason
IsSupportedParameter(p) ==
  /\ ~p.content
  /\ p.style \in [path |-> {"unstated", "simple", "label", "matrix"},
                  query |-> {"unstated", "form", "deepObject", "spaceDelimited", "pipeDelimited"},
                  header |-> {"unstated", "simple"}, cookie |-> {"unstated", "form"}][p.in]
  /\ p.collection \in {"none", "csv", "ssv", "tsv", "pipes", "multi"}
  /\ p.style = "deepObject" => p.explode = "yes" /\ Stated(p.schema) /\ IsObjectContract(p.schema[1])

\* Nodes that an ancestor's own value hides (_effective_node_ids).
EffectiveNodes(d, nodes) ==
  {n \in ActiveNodes(d, nodes) :
     \A a \in Above(nodes, n) : NodeDefault(nodes[a]).type \notin {"constant", "choice"}}

\* A derived interval that is reversed is refused by the models.
IsConsistent(g) ==
  /\ Consistent(g)
  /\ g.type = "array" => g.minimum <= g.maximum

\* What the body of a media type needs (_media_body_strategy_errors).
FitsMedia(media, g) ==
  LET Fits(v) == IF media = "form" THEN IsObject(v) ELSE v[1] = "string"
  IN  CASE g.type = "constant" -> Fits(g.value)
        [] g.type = "choice" -> \A i \in DOMAIN g.values : Fits(g.values[i])
        [] OTHER -> g.type \in IF media = "form" THEN {"object"} ELSE {"random_string", "regex", "format"}

\* _strategy_matches_node and _container_configuration_errors, of the default of a node.
IsValidDefault(d, nodes, n) ==
  LET s == nodes[n].schema[1]
      g == NodeDefault(nodes[n])
      own == {m \in DOMAIN nodes : nodes[m].parent = n /\ nodes[m].edge = "property"}
  IN  nodes[n].kind # "request_body" =>
        /\ Stated(nodes[n].schema)
        /\ IsScalarSchema(s) /\ g # NoDefault => StrategyMatches(s, g)
        /\ g.type = "array" /\ s.unique => g.maximum <= 1
        /\ (IsObjectSchema(s) /\ g.type # "choice") =>
             /\ Stated(s.minProperties) => Cardinality({m \in own : nodes[m].required}) >= s.minProperties[1]
             /\ Stated(s.maxProperties) => Cardinality(own) <= s.maxProperties[1]
        /\ \A media \in {"form", "text"} :
             n = "body/" \o media /\ n = Active(d) /\ g # NoDefault => FitsMedia(media, g)

\* build_initial_operation_config and initialize_once.
IsEnabled(d) ==
  LET nodes == FrozenNodes(d)
  IN  /\ \A i \in DOMAIN d.parameters : IsSupportedParameter(d.parameters[i])
      /\ Stated(d.body) => SupportedMedia(d) # << >>
      /\ \A n \in SelectedNodes(d, nodes) :
           /\ NodeDefault(nodes[n]) # NoDefault /\ IsConsistent(NodeDefault(nodes[n]))
           /\ Stated(nodes[n].schema) => IsSupportedSchema(nodes[n].schema[1])
      /\ \A n \in EffectiveNodes(d, nodes) : IsValidDefault(d, nodes, n)

\* The strategy of a node as the generation of requests knows it: the values of a
\* scalar, an interval of lengths, or how a container is built.
AsStrategy(nodes, n) ==
  LET g == NodeDefault(nodes[n])
  IN  CASE g = NoDefault -> [type |-> "values", samples |-> <<Null>>]
        [] g.type \in {"request_body", "object", "array"} -> g
        [] g.type = "variant" ->
             [type |-> "variant",
              branches |-> {m \in DOMAIN nodes : nodes[m].parent = n /\ nodes[m].edge = "oneOf"}]
        [] OTHER -> [type |-> "values", samples |-> SetToSeq(Values(g))]

\* The frozen Operation, as RequestGeneration takes it.
Frozen(d, nodes) ==
  [nodes |-> [n \in DOMAIN nodes |->
               [kind |-> nodes[n].kind, parent |-> nodes[n].parent, edge |-> nodes[n].edge,
                name |-> nodes[n].name, required |-> nodes[n].required,
                types |-> UNION {nodes[n].schema[i].types : i \in DOMAIN nodes[n].schema},
                container |-> Stated(nodes[n].schema) /\ ~IsScalarSchema(nodes[n].schema[1])]],
   ids |-> SetToSeq(DOMAIN nodes), active |-> Active(d),
   media |-> IF SupportedMedia(d) = << >> THEN "none" ELSE SupportedMedia(d)[1]]

\* A case of the default Generators.
DefaultCase(d, nodes, draws) ==
  [op |-> Frozen(d, nodes), records |-> << >>, constraints |-> << >>, overrides |-> << >>,
   draws |-> draws,
   chance |-> [n \in DOMAIN nodes |-> IF nodes[n].required THEN "always" ELSE "sometimes"],
   strategy |-> [n \in DOMAIN nodes |-> AsStrategy(nodes, n)]]

-----------------------------------------------------------------------------
(* Properties of a described Operation.                                    *)

\* Every way to include the optional inputs, with a few lengths, values and branches.
SomeDraws(nodes) ==
  LET optional == {n \in DOMAIN nodes : ~nodes[n].required}
      Branch(n, k) ==
        LET branches == {m \in DOMAIN nodes : nodes[m].parent = n /\ nodes[m].edge = "oneOf"}
        IN  IF branches = {} THEN NoNode ELSE SetToSeq(branches)[(k % Cardinality(branches)) + 1]
  IN  {[include |-> [n \in DOMAIN nodes |-> n \in S], value |-> [n \in DOMAIN nodes |-> k], record |-> 0,
        length |-> [n \in DOMAIN nodes |-> k], branch |-> [n \in DOMAIN nodes |-> Branch(n, k)]] :
          S \in SUBSET optional, k \in 0..2}

RECURSIVE Conforms(_, _, _)
\* A value that the document allows in a request: no member that only responses
\* carry, no file where none can be sent, every member that is required.
Conforms(v, s, media) ==
  LET branches == s.anyOf \o s.oneOf
      Shown(x) == x \in DOMAIN s.properties => ~s.properties[x].readOnly
  IN  IF Stated(s.enum)
      THEN \E w \in ToSet(s.enum[1]) :
             IF IsObject(w) THEN IsObject(v) /\ v[2] = [x \in {y \in DOMAIN w[2] : Shown(y)} |-> w[2][x]]
             ELSE v = w
      ELSE /\ media = "multipart" => ~s.binary
           /\ \A i \in DOMAIN s.allOf : Conforms(v, s.allOf[i], media)
           /\ (branches # << >>) => \E i \in DOMAIN branches : Conforms(v, branches[i], media)
           /\ (SchemaKind(s) = "scalar") => Meets(s, v)
           /\ (SchemaKind(s) = "object") =>
                /\ IsObject(v)
                /\ \A x \in DOMAIN s.properties :
                     IF x \in DOMAIN v[2] THEN Shown(x) /\ Conforms(v[2][x], s.properties[x], media)
                     ELSE x \notin s.required \/ ~Shown(x)
                /\ Stated(s.minProperties) => Cardinality(DOMAIN v[2]) >= s.minProperties[1]
                /\ Stated(s.maxProperties) => Cardinality(DOMAIN v[2]) <= s.maxProperties[1]
           /\ (SchemaKind(s) = "array") =>
                /\ IsArray(v)
                /\ Stated(s.minItems) => Len(v[2]) >= s.minItems[1]
                /\ Stated(s.maxItems) => Len(v[2]) <= s.maxItems[1]
                /\ s.unique => IsInjective(v[2])
                /\ \A i \in DOMAIN v[2] : Conforms(v[2][i], s.items[1], media)

\* What the code does not look at when it enables an Operation: an array without an
\* input for its items, a required file in an object that is optional itself, a
\* property of two branches of allOf, an object whose properties only responses carry.
IsRegular(nodes) ==
  \A n \in DOMAIN nodes : Stated(nodes[n].schema) =>
    LET s == nodes[n].schema[1]
    IN  /\ NodeDefault(nodes[n]).type = "array" =>
             \E m \in DOMAIN nodes : nodes[m].parent = n /\ nodes[m].edge = "items"
        /\ NodeDefault(nodes[n]).type = "object" =>
             \A x \in s.required \cap DOMAIN s.properties :
               \E m \in DOMAIN nodes : nodes[m].parent = n /\ nodes[m].name = x
        /\ \A i, j \in DOMAIN s.allOf :
             i # j => DOMAIN s.allOf[i].properties \cap DOMAIN s.allOf[j].properties = {}
        /\ nodes[n].kind = "object" => IsObjectSchema(s)

RequestConforms(d, nodes, made) ==
  LET r == made[2]
      Bodies == {d.body[i].contents[m].schema[1] : i \in DOMAIN d.body, m \in {SupportedMedia(d)[1]}}
  IN  /\ made # Failed
      /\ \A i \in DOMAIN d.parameters :
           LET p == d.parameters[i]
               given == {n \in DOMAIN r.parameters : nodes[n].name = p.name}
           IN  /\ p.required => given # {}
               /\ \A n \in given : Conforms(r.parameters[n], p.schema[1], "none")
      /\ r.hasBody => \A s \in Bodies : Conforms(r.body, s, SupportedMedia(d)[1])
      /\ \A i \in DOMAIN d.body : d.body[i].required => r.hasBody

\* Every request that the default Generators of an enabled Operation can give is
\* built, and is one that the document allows: what freezing leaves out is left out
\* of the request too, and nothing that is required is lost on the way.
DefaultRequestsConform(d) ==
  LET nodes == FrozenNodes(d)
  IN  IsEnabled(d) /\ IsRegular(nodes) =>
        \A draws \in SomeDraws(nodes) :
          RequestConforms(d, nodes, Generate(DefaultCase(d, nodes, draws)))
=============================================================================
