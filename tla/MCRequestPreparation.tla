------------------------ MODULE MCRequestPreparation ------------------------
(* Small Operations, one for each way inputs can be nested, and the        *)
(* contracts of one scalar input.                                          *)
EXTENDS RequestPreparation, OperationSnapshot, TLC

VARIABLE contract    \* of the only input of "single", or the description of "frozen"

Num(n) == <<"number", n>>
Str(n) == <<"string", <<Symbol(n)>>>>
List(s) == <<"array", s>>
Samples(s) == [type |-> "values", samples |-> s]
OfType(t) == [type |-> t]
Branch_(S) == [type |-> "variant", branches |-> S]
ArrayOf(lo, hi) == [type |-> "array", minimum |-> lo, maximum |-> hi]

Node_(kind, parent, edge, name, required, container, types) ==
  [kind |-> kind, parent |-> parent, edge |-> edge, name |-> name, required |-> required,
   container |-> container, types |-> types]
Query(name, required) == Node_("parameter", NoNode, "root", name, required, FALSE, {"number"})
Body(required) == Node_("request_body", NoNode, "root", "body", required, TRUE, {})
Media == Node_("media_type", "body", "media", "json", TRUE, TRUE, {"object"})
Below(parent, edge, name, required, container) ==
  Node_("schema", parent, edge, name, required, container, IF container THEN {"object"} ELSE {"number"})

Patch_(affected, changes, constraints_) ==
  [affected |-> affected, changes |-> changes, constraints |-> constraints_]
Source(producer, field) == [producer |-> producer, field |-> field]
FromResource(producer, field) == [type |-> "resource", source |-> Source(producer, field)]
FromResponse(producer, field) == [type |-> "response", source |-> Source(producer, field)]
Item(n, chance, s) == [node |-> n, chance |-> chance, strategy |-> s]
Omission(n, s) == [node |-> n, chance |-> "never", strategy |-> s, rule |-> "required_omission"]
Wrong(n) == [node |-> n, chance |-> "always", strategy |-> Samples(<<Str("text")>>), rule |-> "wrong_type"]
Picks(picks) ==
  [negative : BOOLEAN, explore : {FALSE}, pick : picks] \cup
  {[negative |-> TRUE, explore |-> TRUE, pick |-> 1]}

\* Every way to include the inputs of S, with the values of two draws.
DrawsFor(S, nodes, branches) ==
  {[include |-> [n \in nodes |-> n \in T], value |-> [n \in nodes |-> k], record |-> k,
    length |-> [n \in nodes |-> k], branch |-> [n \in nodes |-> b]] : T \in SUBSET S, k \in 0..1, b \in branches}

\* Two of them, to try a Patch.
TrialsFor(S, nodes, b) ==
  {[choice |-> [negative |-> FALSE, explore |-> FALSE, pick |-> d.record], draws |-> d] :
     d \in {x \in DrawsFor(S, nodes, {b}) : \A n \in S : x.include[n] <=> x.record = 0}}

NoEvidence == [produced |-> << >>, identity |-> << >>, observed |-> << >>, declared |-> {}]
Fresh(expressions, patches, negatives) ==
  [constraints |-> Sorted([i \in DOMAIN expressions |-> Compiled(expressions[i])]),
   patches |-> patches, samples |-> {}, negative |-> negatives, paths |-> {}, evidence |-> NoEvidence,
   records |-> [r \in {} |-> << >>], scores |-> {<< >>}, choices |-> Picks({0}),
   declarations |-> {}, apps |-> {}]

\* Three query inputs whose constraints form a chain, and one apart.
SearchNodes == [a |-> Query("a", FALSE), b |-> Query("b", FALSE), d |-> Query("d", FALSE),
                e |-> Query("e", TRUE)]
SearchRules ==
  <<Implies(Present("d"), Compare("<", Input("b"), Input("d"))),
    All(<<Compare("==", Arithmetic("-", Input("b"), Input("a")), Literal(Num(1))),
          Between(1, <<Present("a"), Present("b")>>, 2)>>),
    Compare(">", Input("e"), Literal(Num(1)))>>
SearchPatches ==
  {Patch_(<<"a">>, <<Item("a", "sometimes", Samples(<<Num(1), Num(3)>>)),
                     Item("a", "always", Samples(<<Num(2)>>))>>, << >>),
   Patch_(<<"a", "b", "d">>, <<Item("b", "never", Samples(<<Num(2)>>))>>,
          <<Implies(Present("d"), Present("a"))>>),
   Patch_(<<"a", "b">>, << >>, <<SearchRules[2]>>),
   Patch_(<<"a", "b", "d">>, <<Item("a", "always", Samples(<<Num(2)>>)),
                               Item("a", "always", Samples(<<Num(3)>>))>>,
          <<SearchRules[1], SearchRules[2]>>),
   Patch_(<<"e">>, <<Item("e", "always", Samples(<<Num(2)>>)), Item("e", "always", Samples(<<Num(1)>>))>>,
          <<SearchRules[3]>>),
   Patch_(<<"e">>, << >>,
          <<Compare(">=", Input("e"), Arithmetic("/", Input("a"), Literal(Num(2))))>>)}
Search_ ==
  [nodes |-> SearchNodes, ids |-> <<"a", "b", "d", "e">>, active |-> NoNode, media |-> "none",
   strategy |-> [a |-> Samples(<<Num(1), Num(2)>>), b |-> Samples(<<Num(2), Num(1), Num(3)>>),
                 d |-> Samples(<<Num(0)>>), e |-> Samples(<<Num(1), Num(2)>>)],
   draws |-> DrawsFor({"a", "b", "d"}, DOMAIN SearchNodes, {NoNode})] @@
  [Fresh(SearchRules, SearchPatches, <<Omission("e", Samples(<<Num(1)>>)), Wrong("a"), Wrong("e")>>)
   EXCEPT !.choices = Picks(0..2),
          !.samples = TrialsFor({"a", "b", "d"}, DOMAIN SearchNodes, NoNode),
          !.scores = {<< >>,
            (<<"negative", "e", Wrong("e")>> :> [attempts |-> 3, rewards |-> 2]) @@
            (<<"negative", "e", Omission("e", Samples(<<Num(1)>>))>> :> [attempts |-> 1, rewards |-> 1])}]

\* An optional body with an optional object whose property is required.
CreateNodes ==
  [q |-> Query("q", FALSE), body |-> Body(FALSE), media |-> Media,
   owner |-> Below("media", "property", "owner", FALSE, TRUE),
   id |-> Below("owner", "property", "id", TRUE, FALSE),
   tag |-> Below("owner", "property", "tag", FALSE, FALSE)]
Plainly_(k) == <<"object", [x \in {"id"} |-> Num(k)]>>
CreatePatches ==
  {Patch_(<<"owner", "id">>, <<Item("id", "always", Samples(<<Num(1), Num(2)>>))>>, << >>),
   Patch_(<<"tag">>, <<Item("tag", "always", Samples(<<Num(2)>>))>>, << >>),
   Patch_(<<"owner", "tag">>, <<Item("owner", "sometimes", Samples(<<Plainly_(1)>>)),
                                Item("tag", "always", Samples(<<Num(2)>>))>>, << >>),
   Patch_(<<"owner">>, <<Item("owner", "sometimes", Samples(<<Plainly_(1)>>)),
                         Item("owner", "always", Samples(<<Plainly_(2)>>))>>, << >>),
   Patch_(<<"owner", "tag", "q">>, <<Item("tag", "always", FromResponse("list", "count"))>>,
          <<Compare(">=", Input("tag"), Input("q"))>>)}
Create ==
  [nodes |-> CreateNodes, ids |-> <<"body", "media", "owner", "id", "tag", "q">>,
   active |-> "media", media |-> "json",
   strategy |-> [q |-> Samples(<<Num(1), Num(2)>>), body |-> OfType("request_body"),
                 media |-> OfType("object"), owner |-> OfType("object"),
                 id |-> Samples(<<Num(1), Num(2)>>), tag |-> Samples(<<Num(2), Num(3)>>)],
   draws |-> DrawsFor({"body", "owner", "tag", "q"}, DOMAIN CreateNodes, {NoNode})] @@
  [Fresh(<<Compare("==", Input("id"), Input("q")),
           Not(All(<<Present("tag"), Compare("<", Input("q"), Input("tag"))>>))>>,
         CreatePatches, <<Omission("id", Samples(<<Num(1)>>)), Wrong("tag")>>)
   EXCEPT !.samples = TrialsFor({"body", "owner", "tag", "q"}, DOMAIN CreateNodes, NoNode),
          !.evidence.observed = Source("list", "count") :> <<Str("text"), Num(2), <<"null", 0>>, Num(2), Num(3)>>,
          !.evidence.declared = {Source("list", "count")}]

\* Two inputs that identify one observed resource.
ResourceNodes == [p |-> Query("p", TRUE), r |-> Query("r", TRUE), q |-> Query("q", FALSE)]
ResourceRules ==
  <<Compare(">=", Input("r"), Input("q")), Compare("!=", Input("p"), Literal(Num(1)))>>
ResourcePatches ==
  {Patch_(<<"p", "r", "q">>, <<Item("p", "always", FromResource("projects", "project")),
                               Item("r", "always", FromResource("projects", "number"))>>, ResourceRules),
   Patch_(<<"p">>, <<Item("p", "always", FromResource("projects", "project"))>>, << >>),
   Patch_(<<"p", "r">>, <<Item("p", "always", FromResource("mixed", "project")),
                          Item("r", "always", FromResource("mixed", "number"))>>, << >>),
   Patch_(<<"q">>, <<Item("q", "always", FromResource("projects", "number"))>>, << >>),
   Patch_(<<"q">>, <<Item("q", "always", FromResource("orders", "number"))>>, << >>),
   Patch_(<<"q">>, <<Item("q", "sometimes", FromResponse("list", "count"))>>, << >>),
   Patch_(<<"r">>, <<Item("r", "always", FromResponse("list", "gone"))>>, << >>)}
Resource_ ==
  [nodes |-> ResourceNodes, ids |-> <<"p", "r", "q">>, active |-> NoNode, media |-> "none",
   strategy |-> [p |-> Samples(<<Num(1), Num(2)>>), r |-> Samples(<<Num(3), Num(1)>>),
                 q |-> Samples(<<Num(1), Num(2), Num(4)>>)],
   draws |-> DrawsFor({"q"}, DOMAIN ResourceNodes, {NoNode})] @@
  [Fresh(ResourceRules, ResourcePatches, <<Wrong("p")>>)
   EXCEPT !.samples = TrialsFor({"q"}, DOMAIN ResourceNodes, NoNode), !.paths = {"p", "r"},
          !.evidence =
            [produced |-> [projects |-> {"item"}, mixed |-> {"item", "order"}, orders |-> {"order"}],
             identity |-> [item |-> {"project", "number"}, order |-> {"number"}],
             observed |-> (Source("list", "count") :> <<Num(4), Str("text"), List(<<Num(1)>>), Num(2)>>) @@
                          (Source("list", "gone") :> <<Num(3)>>),
             declared |-> {Source("list", "count")}],
          !.records = [item |-> <<[project |-> Num(1), number |-> Num(1)],
                                  [project |-> Num(2), number |-> Num(3)], [project |-> Num(2)],
                                  [project |-> Num(3), number |-> Num(2)]>>,
                       order |-> <<[number |-> Num(1)], [number |-> Str("text")]>>]]

\* A body of one of two branches, and an array.
VariantNodes ==
  [body |-> Body(TRUE), media |-> Media,
   x |-> Below("media", "oneOf", "x", TRUE, TRUE), y |-> Below("media", "oneOf", "y", TRUE, TRUE),
   s |-> Below("x", "property", "s", TRUE, FALSE), t |-> Below("y", "property", "t", FALSE, FALSE),
   l |-> Node_("parameter", NoNode, "root", "l", FALSE, TRUE, {"array"}),
   i |-> Below("l", "items", "i", TRUE, FALSE)]
VariantPatches ==
  LET t == Item("t", "always", Samples(<<Num(2)>>))
  IN  {Patch_(<<"t">>, <<t>>, << >>),
       Patch_(<<"media", "t">>, <<Item("media", "always", Branch_({"y"})), t>>, << >>),
       Patch_(<<"media">>, <<Item("media", "always", Samples(<<Plainly_(1)>>))>>, << >>),
       Patch_(<<"media", "t">>, <<Item("media", "always", Branch_({"x"})), t>>, << >>),
       Patch_(<<"media", "t">>, <<Item("media", "always", Branch_({"x"})),
                                  Item("media", "always", Branch_({"y"})), t>>, << >>),
       Patch_(<<"l">>, <<Item("l", "always", ArrayOf(0, 2))>>, << >>)}
Variant ==
  [nodes |-> VariantNodes, ids |-> <<"body", "media", "x", "s", "y", "t", "l", "i">>,
   active |-> "media", media |-> "json",
   strategy |-> [body |-> OfType("request_body"), media |-> Branch_({"x", "y"}), x |-> OfType("object"),
                 y |-> OfType("object"), s |-> Samples(<<Num(1), Num(2)>>),
                 t |-> Samples(<<Num(2)>>), l |-> ArrayOf(0, 1), i |-> Samples(<<Num(5), Num(6)>>)],
   draws |-> DrawsFor({"t", "l"}, DOMAIN VariantNodes, {"x", "y"})] @@
  [Fresh(<<Implies(Present("l"), Compare("==", Input("s"), Literal(Num(2))))>>, VariantPatches, << >>)
   EXCEPT !.samples = TrialsFor({"t", "l"}, DOMAIN VariantNodes, "x")]

\* One scalar or container in each location, for every way to declare it.
LookupNodes ==
  [p |-> Query("id", TRUE), q |-> Query("filter", TRUE), h |-> Query("X-Trace", TRUE),
   c |-> Query("theme", TRUE), body |-> Body(TRUE), media |-> Media]
Chars(s) == <<"string", [i \in DOMAIN s |-> Symbol(s[i])]>>
LookupValues ==
  <<Num(1), Chars(<<"a", "/", "b">>), Chars(<<".", ".">>), <<"string", <<<<".", 1>>>>>>,
    Chars(<<"x", ";", "session", "=", "y">>), Chars(<<"CR", "LF">>), <<"null", 0>>,
    List(<<Num(1), Chars(<<"a", ".", "b">>)>>), List(<<Chars(<<"a", ",", "b">>), Num(2)>>), List(<< >>),
    <<"object", [k |-> Num(1), l |-> Chars(<<"&", "%">>)]>>,
    <<"object", [k |-> List(<<Num(1), Num(2)>>), l |-> Num(3)]>>>>
Style_(in, style, explode, reserved, collection) ==
  [in |-> in, style |-> style, explode |-> explode, reserved |-> reserved, collection |-> collection]
Plainly == [p |-> Style_("path", "unstated", "unstated", FALSE, "none"),
            q |-> Style_("query", "unstated", "unstated", FALSE, "none"),
            h |-> Style_("header", "unstated", "unstated", FALSE, "none"),
            c |-> Style_("cookie", "unstated", "unstated", FALSE, "none")]
Stated_ == {"unstated", "yes", "no"}
LookupParameters ==
  {[Plainly EXCEPT !.p = Style_("path", st, ex, rs, "none")] :
     st \in {"unstated", "label", "matrix"}, ex \in Stated_, rs \in BOOLEAN} \cup
  {[Plainly EXCEPT !.q = Style_("query", st, ex, rs, co)] :
     st \in {"unstated", "deepObject", "spaceDelimited", "pipeDelimited"}, ex \in Stated_,
     rs \in BOOLEAN, co \in {"none"}} \cup
  {[Plainly EXCEPT !.q = Style_("query", "unstated", "unstated", FALSE, co)] :
     co \in {"csv", "ssv", "tsv", "pipes", "multi"}} \cup
  {[Plainly EXCEPT !.h = Style_("header", "simple", ex, FALSE, "none"),
                   !.c = Style_("cookie", "form", ex, FALSE, "none")] : ex \in Stated_}
Template == <<Symbol("/"), Symbol("items"), Symbol("/"), Place("p")>>
LookupApps ==
  {[Accept |-> <<Symbol("any")>>],
   [Authorization |-> <<Symbol("secret")>>, Cookie |-> <<Symbol("Session"), Symbol("="), Symbol("own")>>],
   [cookie |-> <<Symbol("theme"), Symbol("="), Symbol("own"), Symbol(";"), Symbol("s"), Symbol("="), Symbol("t")>>]}
Lookup(name, media, drawn, parameters) ==
  [nodes |-> [LookupNodes EXCEPT !.h.name = name], ids |-> <<"p", "q", "h", "c", "body", "media">>,
   active |-> "media", media |-> media,
   strategy |-> [n \in DOMAIN LookupNodes |->
                  IF n = "body" THEN OfType("request_body") ELSE Samples(LookupValues)],
   draws |-> {[include |-> [n \in DOMAIN LookupNodes |-> TRUE],
               value |-> [n \in DOMAIN LookupNodes |-> IF n = x THEN k ELSE 0],
               record |-> k, length |-> [n \in DOMAIN LookupNodes |-> k],
               branch |-> [n \in DOMAIN LookupNodes |-> NoNode]] :
                 x \in drawn, k \in 0..(Len(LookupValues) - 1)}] @@
  [Fresh(<< >>, {}, << >>) EXCEPT
     !.declarations = {[path |-> Template, parameters |-> d] : d \in parameters},
     !.apps = LookupApps]

Single ==
  [nodes |-> [n |-> Query("n", TRUE)], ids |-> <<"n">>, active |-> NoNode, media |-> "none",
   strategy |-> [n |-> Samples(<<Num(1)>>)],
   draws |-> {}] @@
  [Fresh(<< >>, {}, << >>) EXCEPT !.scores = {}]

MCContract ==
  LET Sending(media) == Lookup("X-Trace", media, {"media"}, {Plainly})
  IN  [search |-> Search_, create |-> Create, resource |-> Resource_, variant |-> Variant,
       lookup |-> Lookup("X-Trace", "json", {"p", "q", "h", "c"}, LookupParameters),
       upload |-> Lookup("Accept", "form", {"media"}, {Plainly}),
       attach |-> Sending("multipart"), note |-> Sending("text"),
       write |-> Lookup("content-type", "text", {"media"}, {Plainly}),
       keyed |-> Lookup("X-Api-Key", "json", {"media"}, {Plainly}),
       single |-> Single, frozen |-> Single]

MCLower == ("Accept" :> "accept") @@ ("Authorization" :> "authorization") @@ ("Cookie" :> "cookie") @@
           ("Content-Type" :> "content-type") @@ ("X-Trace" :> "x-trace") @@ ("X-Api-Key" :> "x-api-key") @@ 
           ("Session" :> "session")

-----------------------------------------------------------------------------
Unstated ==
  [types |-> {}, nullable |-> FALSE, conditional |-> FALSE, enum |-> << >>, const |-> << >>,
   default |-> << >>, example |-> << >>, minimum |-> << >>, maximum |-> << >>,
   minimumIsExclusive |-> FALSE, maximumIsExclusive |-> FALSE, exclusiveMinimum |-> << >>,
   exclusiveMaximum |-> << >>, multipleOf |-> << >>, minLength |-> << >>, maxLength |-> << >>,
   pattern |-> << >>, format |-> << >>]

NumericContracts ==
  {[Unstated EXCEPT !.types = ts, !.minimum = lo, !.maximum = hi, !.exclusiveMinimum = above,
                    !.exclusiveMaximum = below, !.minimumIsExclusive = fl, !.maximumIsExclusive = fl,
                    !.multipleOf = m, !.default = d] :
     ts \in {{"integer"}, {"number"}, {"number", "null"}},
     lo \in {<< >>, <<-Unit>>, <<1>>}, hi \in {<< >>, <<-1>>, <<2 * Unit>>},
     above \in {<< >>, <<0>>}, below \in {<< >>, <<Unit>>}, fl \in BOOLEAN,
     m \in {<< >>, <<2 * Unit>>}, d \in {<< >>, <<Number(0)>>}}

StringContracts ==
  {[Unstated EXCEPT !.types = ts, !.nullable = nu, !.minLength = lo, !.maxLength = hi,
                    !.pattern = p, !.format = f] :
     ts \in {{"string"}, {}, {"string", "integer"}}, nu \in BOOLEAN,
     lo \in {<< >>, <<0>>, <<2>>}, hi \in {<< >>, <<1>>, <<30>>},
     p \in {<< >>, <<{"", "x"}>>, <<{"xy", "0", "invalid"}>>},
     f \in {<< >>, <<"email">>, <<"ipv4">>}}

NamedContracts ==
  {[Unstated EXCEPT !.types = ts, !.enum = en, !.const = co, !.minLength = lo] :
     ts \in {{"string"}, {"integer"}, {"boolean"}, {"string", "null"}, {"null"}},
     en \in {<< >>, << << >> >>, <<<<String("a"), String("")>>>>, <<<<Number(0), Number(Unit)>>>>,
             <<<<True, Null>>>>},
     co \in {<< >>, <<String("a")>>, <<Number(Unit)>>}, lo \in {<< >>, <<1>>}}

Contracts == NumericContracts \cup StringContracts \cup NamedContracts

-----------------------------------------------------------------------------
\* Schemas with containers, and the descriptions of an Operation.
Schema(types) ==
  [Unstated EXCEPT !.types = types] @@
  [properties |-> << >>, required |-> {}, items |-> << >>, allOf |-> << >>, anyOf |-> << >>,
   oneOf |-> << >>, readOnly |-> FALSE, binary |-> FALSE, minItems |-> << >>, maxItems |-> << >>,
   unique |-> FALSE, minProperties |-> << >>, maxProperties |-> << >>]
Object_(properties, required) ==
  [Schema({"object"}) EXCEPT !.properties = properties, !.required = required]
Whole == [Schema({"integer"}) EXCEPT !.minimum = <<0>>, !.maximum = <<2 * Unit>>]
Word == Schema({"string"})
File == [Word EXCEPT !.binary = TRUE]
Given == [Whole EXCEPT !.readOnly = TRUE]
Array(items, lo, hi) ==
  [Schema({"array"}) EXCEPT !.items = items, !.minItems = lo, !.maxItems = hi]
Hiding(s) == [s EXCEPT !.enum = <<<<<<"object", [a |-> Number(0), g |-> Number(Unit)]>>>>>>]

Members ==
  {Whole, Given, File, [Whole EXCEPT !.conditional = TRUE], [Word EXCEPT !.multipleOf = <<2>>],
   Array(<<Whole>>, << >>, <<2>>), Array(<<Whole>>, <<2>>, <<1>>), Array(<< >>, << >>, << >>),
   Array(<<File>>, << >>, << >>), [Array(<<Whole>>, <<0>>, << >>) EXCEPT !.unique = TRUE],
   Object_([g |-> Given, f |-> File], {"g"}), Object_([f |-> File], {"f"}),
   Hiding(Object_([a |-> [Whole EXCEPT !.conditional = TRUE], g |-> Given], {"a", "g"}))}
Records_ ==
  {Object_([a |-> x, b |-> y], req) : x \in Members, y \in {Whole, Given, File}, req \in SUBSET {"a", "b"}}
Bounded ==
  {[Object_([a |-> Whole, b |-> Whole, g |-> Given], req) EXCEPT !.minProperties = lo, !.maxProperties = hi] :
     req \in SUBSET {"a", "g"}, lo \in {<< >>, <<1>>, <<2>>}, hi \in {<< >>, <<1>>, <<2>>}}
Branches ==
  {Object_([a |-> Whole], {"a"}), Object_([b |-> Word, g |-> Given], {"g"}), Object_([f |-> File], {"f"}),
   Object_([f |-> File], {}), [Schema({}) EXCEPT !.properties = [h |-> Given]], Word}
Combinations_ ==
  UNION {{[Schema({}) EXCEPT !.oneOf = <<x, y>>], [Schema({}) EXCEPT !.anyOf = <<x, y>>],
          [Schema({}) EXCEPT !.allOf = <<x, y>>],
          [Schema({"object"}) EXCEPT !.oneOf = <<x>>, !.required = {"a"}],
          [Schema({}) EXCEPT !.anyOf = <<x>>, !.oneOf = <<y>>]} : x, y \in Branches}
Texts == {Word, [Schema({"string", "integer"}) EXCEPT !.minimum = <<0>>], [Word EXCEPT !.enum = <<<< >>>>],
          [Word EXCEPT !.enum = <<<<String("a"), Number(0)>>>>], [Word EXCEPT !.const = <<String("a")>>]}

Described(parameters, body) == [parameters |-> parameters, body |-> body]
Content_(s, encoding) == [schema |-> s, encoding |-> encoding]
WithBody(required, contents) == Described(<< >>, <<[required |-> required, contents |-> contents]>>)
Bodies ==
  {WithBody(TRUE, m :> Content_(<<s>>, FALSE)) :
     m \in {"json", "form", "multipart"}, s \in Records_ \cup Bounded \cup Combinations_ \cup Texts} \cup
  {WithBody(FALSE, ("text" :> Content_(<<s>>, e)) @@ ("vendor+json" :> Content_(t, e))) :
     s \in Texts, t \in {<< >>, <<Whole>>, <<File>>}, e \in BOOLEAN} \cup
  {WithBody(FALSE, ("json" :> Content_(<<s>>, FALSE)) @@ ("multipart" :> Content_(<<t>>, FALSE))) :
     s, t \in {Object_([a |-> Whole, f |-> File], {"a"}), File, Hiding(Word)}}
OneParameter ==
  {Described(<<[in |-> in, name |-> "X-Trace", required |-> required, style |-> style, explode |-> explode,
                collection |-> collection, content |-> content, schema |-> s]>>, << >>) :
     in \in {"query", "header"}, required \in BOOLEAN, style \in {"unstated", "deepObject", "simple"},
     explode \in {"yes", "no"}, collection \in {"none", "csv", "unknown"}, content \in BOOLEAN,
     s \in {<< >>, <<Whole>>, <<Object_([a |-> Whole, g |-> Given], {"a", "g"})>>}}
Documents == Bodies \cup OneParameter

MCInit ==
  /\ Init
  /\ contract \in CASE operation = "single" -> Contracts
                     [] operation = "frozen" -> Documents
                     [] OTHER -> {Unstated}
MCNext == Next /\ UNCHANGED contract
MCSpec == MCInit /\ [][MCNext]_<<vars, contract>>

\* What the Generators derived from a contract give: the default ones only values
\* that meet it, the negative ones only values that do not; and the default requests
\* of a whole Operation are those that its document allows.
ContractsAreKept ==
  CASE operation = "single" -> DefaultsAreValid(contract) /\ NegativesAreInvalid(contract)
    [] operation = "frozen" -> DefaultRequestsConform(contract)
    [] OTHER -> TRUE
=============================================================================
