-------------------------- MODULE AgentConversation --------------------------
(***************************************************************************)
(* One Agent's conversation with its model: the prompt session             *)
(* (restscope/agent/prompt.py), the loop of one Tool Call or one final     *)
(* result per turn (agent/runtime.py), the outcomes of its toolbox         *)
(* (tools/runtime.py), and the budget it shares with the other Agents of   *)
(* its tree (RolloutBudget of harness/agent_control.py).  Before it, the   *)
(* launch of that Agent: the definition is accepted or refused, a root and *)
(* then children are built, and the last one of them gets the task.        *)
(*                                                                         *)
(* Sizes stand for characters.  A fact is named for where it was said      *)
(* first; a source says its newest version.                                *)
(***************************************************************************)
EXTENDS AgentContext, AgentLaunch

CONSTANTS
  Definitions,     \* runtime definitions, and
  Describing,      \* the sizes of the descriptions of Skills and Profiles
  Windows,         \* the sizes of the model's input window
  Protocol,        \* the size of the Tool and output schemas
  BaseSize, NameSize, OmittedSize,   \* what the stable prefix is made of
  PrefixLimit,     \* 24000 characters
  TaskSizes, SourceSizes, TextSizes, SummarySizes,
  SourceLimit,     \* max_chars of a Context Source
  SummaryLimit, HeaderSize,          \* 24000 characters; the heading of a summary
  NoticeSize,      \* a correction, a reminder, or the instruction to compact
  Limit,           \* the shared budget of the tree
  Charges,         \* what one answer costs
  MaxTurns, MaxChanges, MaxOthers    \* bounds: turns; changes of the source; other Agents' charges

\* Everything has a size.  What a Tool or a Skill says and a source have at most 24000
\* characters, a message 26000 or what the window leaves (_prepare_message), and the
\* marker for groups left out is short beside the system prompt.
ASSUME SizesAssumption ==
  /\ {Protocol, BaseSize, NameSize, OmittedSize, PrefixLimit, SourceLimit, SummaryLimit,
      HeaderSize, NoticeSize} \subseteq Nat
  /\ Windows \cup TaskSizes \cup SourceSizes \cup TextSizes \cup SummarySizes \subseteq Nat
  /\ SourceSizes # {}
  /\ \A n \in TextSizes \cup {NoticeSize, SourceLimit} : n <= MessageLimit
  /\ \A w \in Windows :
       /\ w - Protocol <= MessageLimit
       /\ w - Protocol > BaseSize => MarkerSize * 5 <= w - Protocol

\* The names of a definition are those of described Skills and Profiles.
ASSUME DefinitionsAssumption ==
  /\ Describing \in [DOMAIN Describing -> Nat]
  /\ \A d \in Definitions : \A name \in DOMAIN d.profiles :
       /\ d.profiles[name].skills \in Seq(DOMAIN Describing)
       /\ d.profiles[name].children \in Seq(DOMAIN Describing)

VARIABLES
  definition, chain, \* the runtime definition until the task; the Agents built from it
  profile, window,   \* the descriptions its prompt shows; the model's window
  version, size,     \* the Context Source: its newest version and its size
  context,           \* AgentContext, << >> before the task
  phase, request,    \* where the loop is; the messages of the last provider request
  attempt, reminders,\* of a compaction, or of the answer whose Tool is running
  left, sent,        \* RolloutBudget: what remains, the reminders given
  cancelled,         \* cancel_event
  turns, others,     \* how many answers; how many charges of other Agents
  told               \* history: what was said to the Agent and must not get lost

budget == <<left, sent, others>>
launch == <<definition, chain>>
environment == <<launch, profile, window, version, size, cancelled>>
vars == <<environment, context, phase, request, attempt, reminders, budget, turns, told>>

-----------------------------------------------------------------------------
(* The stable prefix.                                                      *)

Descriptions(p) == p.skills \o p.children

\* Its size with the first k descriptions, Skills before children.
PrefixSize(p, k) ==
  LET d == Descriptions(p)
      Line(i) == NameSize + (IF i <= k THEN d[i] ELSE OmittedSize)
  IN  FoldLeft(LAMBDA n, i : n + Line(i), BaseSize, [i \in DOMAIN d |-> i])

\* _render_stable_prefix: descriptions are shown up to the first that does not fit.
Details(p) ==
  Max({k \in 0..Len(Descriptions(p)) : \A j \in 0..k : PrefixSize(p, j) <= PrefixLimit})

\* _conversation_budget_chars
Capacity == window - Protocol

\* The constructor of the session: an error is kept for prepare_task.
StartupFails ==
  \/ PrefixSize(profile, 0) > PrefixLimit
  \/ Capacity <= 0
  \/ PrefixSize(profile, Details(profile)) >= Capacity

Rules == {<<"rules", 0>>}
Stable == <<Message("system", PrefixSize(profile, Details(profile)), NoCall, Rules)>>

-----------------------------------------------------------------------------
(* The budget.                                                             *)

Thresholds == {50, 25, 10}

\* charge: the reminders are those crossed by this charge and given to nobody yet.
Crossed(cost) ==
  {p \in Thresholds \ sent : left * 100 > Limit * p /\ Limit * p >= (left - cost) * 100}

Charge(cost) == left' = left - cost /\ sent' = sent \cup Crossed(cost)

Reminder(p) == Message("user", NoticeSize, NoCall, {<<"reminder", p>>})
Reminders(ps) == {<<"reminder", p>> : p \in ps}

\* _append_budget_reminders
WithReminders(c, ps) ==
  LET Told(d, p) == IF p \in ps THEN AppendFeedback(d, Reminder(p)) ELSE d
  IN  Told(Told(Told(c, 50), 25), 10)

-----------------------------------------------------------------------------
(* The session.                                                            *)

Notice(fact) == Message("user", NoticeSize, NoCall, {fact})
SourceText == Message("user", size, NoCall, {<<"source", version>>})
Task == {<<"task", 0>>}
NoOldSource(facts) == {f \in facts : f[1] # "source"}

Init ==
  /\ definition \in Definitions /\ chain = << >>
  /\ profile = [skills |-> << >>, children |-> << >>] /\ window = 0
  /\ version = 0 /\ size = 0
  /\ context = << >> /\ phase = "configured" /\ request = << >>
  /\ attempt = 0 /\ reminders = {}
  /\ left = Limit /\ sent = {} /\ others = 0
  /\ cancelled = FALSE /\ turns = 0
  /\ told = {}

End(result) ==
  /\ phase' = result /\ request' = << >>
  /\ UNCHANGED <<environment, context, attempt, reminders, turns, told>>

\* The constructor of the resolver.
Configure ==
  /\ phase = "configured"
  /\ End(IF DefinitionAccepted(definition) THEN "accepted" ELSE "refused")
  /\ UNCHANGED budget

Build(name) ==
  /\ phase' = IF Builds(definition, name) THEN "launched" ELSE "launch_failed"
  /\ chain' = Append(chain, name)
  /\ UNCHANGED <<definition, profile, window, version, size, cancelled, context, request,
                 attempt, reminders, budget, turns, told>>

\* start_system
StartRoot == phase = "accepted" /\ \E name \in definition.systems : Build(name)

\* _build_child, for a child that start_child of the tree lets through.
StartChild ==
  /\ phase = "launched" /\ Len(chain) <= MaxLevels
  /\ \E name \in ChildrenOf(definition, Last(chain)) : Build(name)

\* The prompt session of the Agent built last, for its model; the source is small at first.
StartSession(w) ==
  LET p == definition.profiles[Last(chain)]
      Sizes(names) == [i \in DOMAIN names |-> Describing[names[i]]]
  IN  /\ phase = "launched" /\ phase' = "new"
      /\ profile' = [skills |-> Sizes(p.skills), children |-> Sizes(p.children)]
      /\ window' = w /\ size' = Min(SourceSizes)
      /\ definition' = << >> /\ chain' = << >>
      /\ UNCHANGED <<version, cancelled, context, request, attempt, reminders, budget, turns, told>>

\* _run_task up to the loop, with prepare_task: the task and the source are one
\* message, and one projection shows whether it can be sent at all.
Prepare(taskSize) ==
  LET started == NewContext(Stable, Message("user", taskSize + size, NoCall,
                                            Task \cup {<<"source", version>>}))
  IN  /\ phase = "new"
      /\ IF cancelled THEN End("cancelled")
         ELSE IF StartupFails \/ size > SourceLimit THEN End("context_budget_exceeded")
         ELSE /\ context' = started
              /\ told' = started.user.says
              /\ phase' = IF RequestMessages(started, Capacity) = TooLarge
                          THEN "context_budget_exceeded" ELSE "ready"
              /\ UNCHANGED <<environment, request, attempt, reminders, turns>>
      /\ UNCHANGED budget

\* Mutant: what is measured is what the next request would send.
NeedsCompactionOfRequest ==
  context.groups # << >> /\ Chars(RequestMessages(context, Capacity)) >= (Capacity * 8) \div 10

\* needs_compaction: 80% of the window, of everything that is saved.
NeedsCompaction ==
  context.groups # << >> /\ Chars(Saved(context)) >= (Capacity * 8) \div 10

AskForSummary ==
  /\ phase = "ready" /\ NeedsCompaction
  /\ request' = CompactionMessages(context, Message("user", NoticeSize, NoCall, {}))
  /\ attempt' = 1 /\ reminders' = {}
  /\ phase' = "compacting"
  /\ UNCHANGED <<environment, context, budget, turns, told>>

\* A summary says what the request said; with its heading it may be longer than the
\* limit that the summary itself keeps, and is clipped.
Summary(n) ==
  Message("user", HeaderSize + n, NoCall,
          (UNION {request[i].says : i \in DOMAIN request}) \ Rules)

\* replace_compacted_history re-anchors the source as it is now.
WithSource(c) == AppendFeedback(c, SourceText)

\* An answer to a request for a summary; n = 0 is one that is no summary.
Summarized(n, cost) ==
  LET crossed == reminders \cup Crossed(cost)
      anchored == WithSource(ReplaceHistory(context, Summary(n), SummaryLimit))
  IN  /\ phase = "compacting"
      /\ Charge(cost) /\ UNCHANGED others
      /\ IF left - cost < 0 THEN End("rollout_budget_exceeded")
         ELSE IF cancelled THEN End("cancelled")
         ELSE IF n \notin 1..SummaryLimit
           THEN /\ phase' = IF attempt = 2 THEN "context_compaction_failed" ELSE phase
                /\ attempt' = 2 /\ reminders' = crossed
                /\ told' = told \cup Reminders(Crossed(cost))
                /\ UNCHANGED <<environment, context, request, turns>>
         ELSE IF size > SourceLimit THEN End("context_budget_exceeded")
         ELSE /\ context' = WithReminders(anchored, crossed)
              /\ phase' = "compacted"
              /\ reminders' = {}
              /\ told' = Reminders(crossed) \cup {<<"source", version>>}
                          \cup NoOldSource(IF HeaderSize + n > SummaryLimit THEN context.user.says
                                         ELSE told)
              /\ UNCHANGED <<environment, request, attempt, turns>>

\* request: the turn's messages, after at most one compaction.
Ask ==
  LET messages == RequestMessages(context, Capacity)
  IN  /\ phase = "compacted" \/ (phase = "ready" /\ ~NeedsCompaction)
      /\ turns < MaxTurns
      /\ IF messages = TooLarge
         THEN /\ phase' = "context_budget_exceeded"
              /\ UNCHANGED <<request, turns>>
         ELSE /\ request' = messages /\ turns' = turns + 1
              /\ phase' = IF phase = "compacted" THEN "asking_anew" ELSE "asking"
      /\ UNCHANGED <<environment, context, attempt, reminders, budget, told>>

Asking == phase \in {"asking", "asking_anew"}

\* What every answer is checked for before it is looked at.
Answered(cost) == Asking /\ Charge(cost) /\ UNCHANGED others
Accepted(cost) == left - cost >= 0 /\ ~cancelled

Refuse(cost) ==
  /\ Answered(cost) /\ ~Accepted(cost)
  /\ End(IF left - cost < 0 THEN "rollout_budget_exceeded" ELSE "cancelled")

GoOn(c, cost, facts) ==
  /\ context' = WithReminders(c, Crossed(cost))
  /\ told' = told \cup facts \cup Reminders(Crossed(cost))
  /\ phase' = "ready"
  /\ UNCHANGED <<environment, request, attempt, reminders, turns>>

\* Mutant: the answer is kept although its Tools are not executed.
MixedKept(n, cost) ==
  /\ Answered(cost) /\ Accepted(cost)
  /\ GoOn(AppendFeedback(AppendAssistant(context, Message("assistant", n, turns, {})),
                         Notice(<<"correction", turns>>)),
          cost, {<<"correction", turns>>})

\* Several Tool Calls, or a Tool Call with a result: nothing of it is kept.
Mixed(n, cost) ==
  /\ Answered(cost) /\ Accepted(cost)
  /\ GoOn(AppendFeedback(context, Notice(<<"correction", turns>>)), cost, {<<"correction", turns>>})

\* A final result that the output model or the Harness refuses.
Invalid(n, cost) ==
  /\ Answered(cost) /\ Accepted(cost)
  /\ GoOn(AppendFeedback(AppendAssistant(context, Message("assistant", n, NoCall, {<<"text", turns>>})),
                         Notice(<<"correction", turns>>)),
          cost, {<<"text", turns>>, <<"correction", turns>>})

Final(cost) == Answered(cost) /\ Accepted(cost) /\ End("completed")

CallTool(cost) ==
  /\ Answered(cost) /\ Accepted(cost)
  /\ context' = AppendAssistant(context, Message("assistant", NoticeSize, turns, {}))
  /\ reminders' = Crossed(cost)
  /\ told' = told \cup Reminders(Crossed(cost))
  /\ phase' = "tool"
  /\ UNCHANGED <<environment, request, attempt, turns>>

\* The toolbox answers: denied, failed or succeeded are one text each; skill.read
\* that succeeds is followed by the instructions of the Skill.
ToolResult(n, readsSkill) ==
  LET answered == AppendToolResult(context, Message("tool", n, turns, {<<"result", turns>>}))
      skill == {<<"skill", turns>>}
  IN  /\ phase = "tool"
      /\ context' = WithReminders(
           IF readsSkill THEN AppendFeedback(answered, Message("user", n, NoCall, skill)) ELSE answered,
           reminders)
      /\ told' = told \cup {<<"result", turns>>} \cup (IF readsSkill THEN skill ELSE {})
      /\ phase' = IF cancelled THEN "cancelled" ELSE "ready"
      /\ reminders' = {}
      /\ UNCHANGED <<environment, request, attempt, budget, turns>>

\* A provider outage is raised: during a Tool it is no result of the Tool.
Outage ==
  /\ phase \in {"compacting", "asking", "asking_anew", "tool"}
  /\ End("raised") /\ UNCHANGED budget

-----------------------------------------------------------------------------
(* The others.                                                             *)

\* What happens to them before or after the session is left out.
Running == phase \in {"new", "ready", "compacting", "compacted", "asking", "asking_anew", "tool"}

Cancel ==
  /\ Running /\ ~cancelled /\ cancelled' = TRUE
  /\ UNCHANGED <<launch, profile, window, version, size, context, phase, request, attempt, reminders,
                 budget, turns, told>>

\* The response of another Agent of the tree: it gets the reminders it crosses.
OtherCharge(cost) ==
  /\ Running /\ others < MaxOthers /\ others' = others + 1
  /\ Charge(cost)
  /\ UNCHANGED <<environment, context, phase, request, attempt, reminders, turns, told>>

SourceChanges(n) ==
  /\ Running /\ version < MaxChanges
  /\ version' = version + 1 /\ size' = n
  /\ UNCHANGED <<launch, profile, window, cancelled, context, phase, request, attempt, reminders,
                 budget, turns, told>>

Next ==
  \/ Configure \/ StartRoot \/ StartChild
  \/ \E w \in Windows : StartSession(w)
  \/ \E n \in TaskSizes : Prepare(n)
  \/ AskForSummary \/ Ask \/ Outage \/ Cancel
  \/ \E n \in SummarySizes, cost \in Charges : Summarized(n, cost)
  \/ \E n \in TextSizes, cost \in Charges : Mixed(n, cost) \/ Invalid(n, cost)
  \/ \E cost \in Charges : Refuse(cost) \/ Final(cost) \/ CallTool(cost) \/ OtherCharge(cost)
  \/ \E n \in TextSizes, b \in BOOLEAN : ToolResult(n, b)
  \/ \E n \in SourceSizes : SourceChanges(n)

Spec == Init /\ [][Next]_vars

-----------------------------------------------------------------------------
(* Properties.                                                             *)

Waiting == Asking \/ phase = "compacting"
Shown == UNION {request[i].says : i \in DOMAIN request}

\* A Tool result follows the call it answers, and a call its result.
Paired(messages) ==
  \A i \in DOMAIN messages :
    /\ messages[i].role = "tool" =>
         i > 1 /\ messages[i - 1].role = "assistant" /\ messages[i - 1].call = messages[i].call
    /\ messages[i].role = "assistant" /\ messages[i].call # NoCall =>
         i < Len(messages) /\ messages[i + 1].role = "tool" /\ messages[i + 1].call = messages[i].call

\* What is accepted at startup can be launched: building an Agent of an accepted
\* definition fails only for a Binding of another name or a Catalog without
\* skill.read, none of its children is refused for its depth, children are
\* described to their parent, and an Agent has the Tools and sources its Skills
\* need, with a reader for the References of every installed one, and no Tool name
\* that could mean two Tools (AgentRuntimeResolver, the Skill loader and start_child).
LaunchesAreAuthorized ==
  LET d == definition
      p == d.profiles[Last(chain)]
  IN  /\ phase = "launch_failed" =>
           \/ \E tool \in DOMAIN d.factories : d.factories[tool] # tool
           \/ ~Defined(d, "skill.read")
      /\ phase = "launched" =>
           /\ Len(chain) > MaxLevels => p.children = << >>
           /\ \A child \in ToSet(p.children) : d.profiles[child].described
           /\ EffectiveTools(p) \cap d.builtIn \cap d.external = {}
           /\ p.sources \subseteq d.sources
           /\ \A name \in ToSet(p.skills) :
                /\ Skill(d, name).risk # "high"
                /\ Skill(d, name).tools \subseteq EffectiveTools(p)
                /\ Skill(d, name).sources \subseteq p.sources
                /\ name \in Installed(d) => Skill(d, name).references \subseteq Readable(d, p)

\* Whatever was left out or clipped, a provider request is a valid conversation:
\* the rules of the Agent are whole, calls and results are paired, the newest Tool
\* exchange and the newest message to the Agent are in it, and a turn's request
\* fits the window (prompt.py, context.py and the loop of the Agent together).
ProviderRequestsAreValid ==
  Waiting =>
    /\ request[1] = Stable[1] /\ request[1].size <= PrefixLimit
    /\ Paired(request)
    /\ Asking =>
         /\ Chars(request) <= Capacity
         /\ \A g \in Required(context.groups) : \A i \in DOMAIN context.groups[g] :
              \E j \in DOMAIN request : /\ request[j].role = context.groups[g][i].role
                                        /\ request[j].call = context.groups[g][i].call

\* Nothing that was said to the Agent is left out without a summary: a turn's
\* request says every Tool result, correction, Skill, reminder, the task and the
\* newest source that was read, itself or in a summary, unless the task alone or
\* what a compaction left is larger than the window (less the marker, which may be
\* longer than the group it stands for); and what is summarized is the complete
\* history.
NothingIsForgotten ==
  /\ Asking /\ (\/ phase = "asking" /\ context.groups # << >>
               \/ Chars(Saved(context)) + MarkerSize <= Capacity) => told \subseteq Shown
  /\ phase = "compacting" => told \ Reminders(reminders) \subseteq Shown
=============================================================================
