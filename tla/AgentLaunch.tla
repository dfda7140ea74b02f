----------------------------- MODULE AgentLaunch -----------------------------
(***************************************************************************)
(* Which Agents a runtime definition may start: the Skill loader           *)
(* (restscope/skills), the validation of every Profile at startup and the  *)
(* construction of one Agent (AgentRuntimeResolver of                      *)
(* harness/agent_runtime.py), and the toolbox it gets (tools/).            *)
(*                                                                         *)
(* A definition is a record:                                               *)
(*   profiles    name -> [model, tools, skills, sources, children,         *)
(*               described]; skills and children are sequences             *)
(*   models      name -> provider;  providers, sources, systems: names     *)
(*   builtIn, external     the names of the two Tool Catalogs              *)
(*   factories   Tool -> the name of the Binding that it creates           *)
(*   installed   the directories of the installed Skills                   *)
(*   supplied    name -> Skill, loaded by the caller                       *)
(***************************************************************************)
EXTENDS Integers, SequencesExt

SubagentTools == {"subagent.start", "subagent.wait", "subagent.cancel"}
PlanTools == {"plan.read", "plan.update"}
HarnessOwned == SubagentTools \cup PlanTools \cup {"skill.read", "file.read"}

\* The levels of children below a root Agent.
MaxLevels == 3

-----------------------------------------------------------------------------
(* Skills.                                                                 *)

\* Mutant: References may be linked by a Skill that does not require their reader.
LoadsUnread(dir) ==
  /\ dir.wellFormed /\ dir.name = dir.directory
  /\ IsInjective(dir.links)
  /\ ToSet(dir.links) = dir.packaged

\* load_skill_directory: the linked References are those that are packaged, each
\* linked once, and reading them is required; without a manifest nothing is.
Loads(dir) ==
  /\ dir.wellFormed /\ dir.name = dir.directory
  /\ IsInjective(dir.links)
  /\ ToSet(dir.links) = dir.packaged
  /\ dir.links # << >> => "file.read" \in dir.tools

SkillOf(dir) ==
  [tools |-> dir.tools, sources |-> dir.sources, references |-> dir.packaged, risk |-> dir.risk]

Installed(d) == {dir.name : dir \in d.installed}

\* SkillCatalog over the discovered Skills and the caller's: no name twice.
Catalogued(d) ==
  /\ \A dir \in d.installed : Loads(dir)
  /\ Installed(d) \cap DOMAIN d.supplied = {}

Skill(d, name) ==
  IF name \in DOMAIN d.supplied THEN d.supplied[name]
  ELSE SkillOf(CHOOSE dir \in d.installed : dir.name = name)

-----------------------------------------------------------------------------
(* Validation.                                                             *)

ChildrenOf(d, name) == ToSet(d.profiles[name].children)

\* The profiles n levels below.
LevelBelow(d, name, n) ==
  LET level[k \in 0..n] ==
        IF k = 0 THEN {name} ELSE UNION {ChildrenOf(d, x) : x \in level[k - 1]}
  IN  level[n]

\* _reject_profile_cycles and _reject_profile_depth
GraphIsFinite(d) ==
  /\ \A name \in DOMAIN d.profiles : ChildrenOf(d, name) \subseteq DOMAIN d.profiles
  /\ \A name \in DOMAIN d.profiles : LevelBelow(d, name, MaxLevels + 1) = {}

\* _tool_definition
Defined(d, tool) == tool \in d.builtIn \cup d.external

ToolsAccepted(d, p) ==
  /\ "skill.read" \notin p.tools
  /\ "file.read" \in p.tools => p.skills # << >>
  /\ p.tools \cap PlanTools \in {{}, PlanTools}
  /\ p.tools \cap SubagentTools = IF p.children = << >> THEN {} ELSE SubagentTools
  /\ \A tool \in p.tools : Defined(d, tool) /\ tool \in DOMAIN d.factories \cup HarnessOwned

SkillsAccepted(d, p) ==
  \A name \in ToSet(p.skills) :
    /\ name \in Installed(d) \cup DOMAIN d.supplied
    /\ Skill(d, name).tools \subseteq p.tools
    /\ Skill(d, name).sources \subseteq p.sources
    /\ Skill(d, name).risk # "high"

ProfileAccepted(d, p) ==
  /\ ToolsAccepted(d, p)
  /\ p.model \in DOMAIN d.models /\ d.models[p.model] \in d.providers
  /\ \A child \in ToSet(p.children) : d.profiles[child].described
  /\ SkillsAccepted(d, p)
  /\ p.sources \subseteq d.sources

\* The constructor of AgentRuntimeResolver, with _validate.
DefinitionAccepted(d) ==
  /\ Catalogued(d)
  /\ GraphIsFinite(d)
  /\ d.systems \subseteq DOMAIN d.profiles
  /\ d.builtIn \cap d.external = {}
  /\ DOMAIN d.factories \cap HarnessOwned = {}
  /\ \A tool \in DOMAIN d.factories : Defined(d, tool)
  /\ \A name \in DOMAIN d.profiles : ProfileAccepted(d, d.profiles[name])

-----------------------------------------------------------------------------
(* Construction.                                                           *)

\* effective_tool_names
EffectiveTools(p) == p.tools \cup IF p.skills = << >> THEN {} ELSE {"skill.read"}

\* The Bindings the Harness makes itself; the other Tools are bound by a factory.
OwnBindings(p) ==
  SubagentTools \cup (IF PlanTools \subseteq p.tools THEN PlanTools ELSE {})
    \cup (IF p.skills = << >> THEN {} ELSE {"skill.read"})
    \cup (p.tools \cap {"file.read"})

\* _build_agent succeeds: every Tool has a definition and a Binding of its name.
Builds(d, name) ==
  LET p == d.profiles[name]
  IN  \A tool \in EffectiveTools(p) :
        /\ Defined(d, tool)
        /\ tool \in OwnBindings(p) \/ d.factories[tool] = tool

\* The references that file.read of the Agent answers for.
Readable(d, p) ==
  IF "file.read" \notin EffectiveTools(p) THEN {}
  ELSE UNION {Skill(d, name).references : name \in ToSet(p.skills)}
=============================================================================
