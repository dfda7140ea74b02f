------------------------- MODULE MCAgentConversation -------------------------
EXTENDS AgentConversation

P(tools, skills, children) ==
  [model |-> "m", tools |-> tools, skills |-> skills, sources |-> {"s"}, children |-> children,
   described |-> TRUE]

Dir(name, links, packaged, tools, risk) ==
  [name |-> name, directory |-> "guide", wellFormed |-> TRUE, links |-> links,
   packaged |-> packaged, tools |-> tools, sources |-> {"s"}, risk |-> risk]

Guide == Dir("guide", <<"a">>, {"a"}, {"file.read", "http"}, "low")

Root == P(SubagentTools \cup {"http", "file.read"}, <<"guide">>, <<"left", "right">>)

Graph ==
  [root |-> Root, left |-> P(SubagentTools, << >>, <<"leaf">>),
   right |-> P(PlanTools, << >>, << >>),
   leaf |-> P({"http", "file.read"}, <<"guide", "plain">>, << >>)]

Plain == [tools |-> {}, sources |-> {}, references |-> {}, risk |-> "medium"]

Base ==
  [profiles |-> Graph,
   models |-> [m |-> "provider"], providers |-> {"provider"}, sources |-> {"s"},
   systems |-> {"root"},
   builtIn |-> HarnessOwned \cup {"http"}, external |-> {"mcp"},
   factories |-> [http |-> "http", mcp |-> "mcp"],
   installed |-> {Guide}, supplied |-> [plain |-> Plain]]

With(name, p) == [profiles |-> name :> p @@ Graph]
Directory(dir) == [installed |-> {dir}]

\* One or two of these replace parts of the base.
Changes ==
  { With("leaf", P(SubagentTools, << >>, <<"end">>) ) @@ [systems |-> {"left"}],
    [profiles |-> "end" :> P({}, << >>, << >>) @@ "leaf" :> P(SubagentTools, << >>, <<"end">>) @@ Graph],
    [profiles |-> "end" :> P(SubagentTools, << >>, <<"last">>) @@ "last" :> P({}, << >>, << >>)
                  @@ "leaf" :> P(SubagentTools, << >>, <<"end">>) @@ Graph],
    With("leaf", P(SubagentTools, << >>, <<"root">>)),
    With("right", P({"plan.read"}, << >>, << >>)),
    With("right", P({"skill.read"}, << >>, << >>)),
    With("right", P({"file.read"}, << >>, << >>)),
    With("right", P({"mcp"}, <<"plain">>, << >>)),
    With("right", P(SubagentTools, << >>, << >>)),
    With("right", [Graph.right EXCEPT !.described = FALSE]),
    With("right", [Graph.right EXCEPT !.model = "other"]),
    With("right", [Graph.right EXCEPT !.sources = {"t"}]),
    With("leaf", [Graph.leaf EXCEPT !.sources = {}]),
    With("leaf", [Graph.leaf EXCEPT !.tools = {"http"}]),
    With("left", P({}, << >>, <<"leaf">>)),
    Directory(Dir("guide", <<"a">>, {"a"}, {"http"}, "low")),
    Directory(Dir("guide", <<"a">>, {"a", "b"}, {"file.read"}, "low")),
    Directory(Dir("guide", <<"a", "a">>, {"a"}, {"file.read"}, "low")),
    Directory(Dir("guide", <<"a">>, {"a"}, {"file.read"}, "high")),
    Directory(Dir("plain", << >>, {}, {}, "low")),
    Directory([Guide EXCEPT !.wellFormed = FALSE]),
    [supplied |-> [plain |-> Plain, guide |-> Plain]],
    [supplied |-> [plain |-> [Plain EXCEPT !.references = {"c"}]]],
    [external |-> {"http"}], [providers |-> {}], [systems |-> {"none"}],
    [builtIn |-> (HarnessOwned \cup {"http"}) \ {"skill.read"}],
    [factories |-> [mcp |-> "mcp"]],
    [factories |-> [http |-> "mcp", mcp |-> "mcp"]],
    [factories |-> [http |-> "http", nothing |-> "nothing"]],
    [factories |-> "file.read" :> "file.read" @@ [http |-> "http"]] }

MCDefinitions == {Base} \cup {c @@ Base : c \in Changes} \cup {c @@ e @@ Base : c, e \in Changes}

MCDescribing ==
  [name \in {"guide", "plain", "root", "left", "right", "leaf", "end", "last"} |->
     IF name = "guide" THEN 4 ELSE 1]
=============================================================================
