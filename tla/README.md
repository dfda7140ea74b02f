# RESTScope in TLA+

RESTScope tests REST APIs with agents: an Orchestrator plans, Task Executors work
on one Task at a time, Subagents help them, and Tools send generated requests to a
target and watch its answers. The code is under `src/restscope`; its vocabulary is
that of `CONTEXT.md` and `docs/adr`. This directory holds its specifications, the
TLC configurations that check them on small instances, and TLAPS proofs.

Most of RESTScope runs on several threads: each Agent has one, the App may be
closed from another, and the Agents of one tree share the tree control, the
generation store, the OpenAPI IR, the database and the observer. The rest is a long
pure computation, from a document to the text of a request, in which a wrong step is
hard to see from outside.

## 1. Inventory

| Component (under `restscope/`) | State | Operations | What makes it correct |
|---|---|---|---|
| Agent tree: `harness/agent_control.py`, `harness/runtime.py` | records of Agents (status, parent, depth, cancellation event, collected), open-slot count, permits, executor | start, wait and collect, cancel, close descendants, close; register and close roots | slots are neither lost nor given back twice; nobody runs unaware that its owner ended; no set of waiting Agents stops the tree |
| Agent loop: `agent/runtime.py`, `agent/prompt.py`, `context/context.py` | position in the loop, history, compaction, the shared `RolloutBudget` | model call, compaction, Tool call, correction, final answer, close | a cancelled Agent stops promptly; every request is a valid conversation that fits the window; nothing is forgotten without a summary |
| Launch: `harness/agent_runtime.py`, `skills/`, `tools/catalog.py` | the resolved definition | validate at startup, build an Agent | what is accepted can be built, with the Tools its Skills need and no others |
| Task Ledger: `orchestration/ledger.py` | plan revisions, Milestones, Tasks, Attempts, the active Task | apply_replan, dispatch, append_attempt, append_failure, complete | one current plan, history only appended, one Attempt per Task |
| Orchestration: `orchestration/runtime.py`, `contracts.py` | the Ledger, session records, observer | run: decide, check, apply, execute, record, publish | every failure becomes an Attempt or ends the run; the observer is current |
| Document to inputs: `openapi_parser/input_nodes.py`, `request_generation/snapshot.py` | the frozen tree of inputs, default and negative Generators | build_operation_snapshot | a default request is one the document allows, a negative value is not |
| Parameter Patches: `request_generation/parameter_patch/`, `reference_values.py`, `store.py` | candidates and constraints of each Operation, its revisions, statistics and bindings | validate, try on samples, apply in a transaction, roll back, feedback | a Patch is applied to the state it was validated against, and does what it says and nothing else; readers see committed states; rewards reach the revision they were earned by |
| Requests: `selection.py`, `constraint_solver.py`, `constraints.py`, `generation.py`, `serialization.py` (in `request_generation/`) | none | select, solve, generate, read back, serialize | a request meets its constraints; the search answers exactly; the target reads what was generated |
| Operation testing: `harness/operation_testing/service.py` | Batches and cases in the database | run_batch | summary, warnings, result, rewards and progress agree |
| Target API client: `target_api/client.py` | none | send, with at most one replay | the primary answer is the one returned |
| Response processing, Bug Oracle: `api_behavior_monitor/` `coordinator.py`, `oracle.py`, `response_processor.py` | observations, assessments | observe a response or a failure, evaluate, persist | a Bug is claimed only on two stored observations that agree |
| Contract Monitor: `api_behavior_monitor/contract_monitor.py` | state per response key, the shared IR | merge an observed Schema | IR and stored events agree; a failed merge is undone |
| Resource Monitor: `api_behavior_monitor/resource_monitor.py` | resource graph in the database | derive, choose a result state, record | a role or a state, once stored, does not change without a cause |
| MCP host: `tools/external/mcp/host.py` | sessions, one owner thread and queue each | start, request, close | every request is answered; every session is closed |
| Observability, UI: `observability/`, `ui/server.py`, the page's `stream.ts` and `state.ts` | the run, its cards, every change with a cursor; the page's copy | begin, end, interrupt, open and update a card, snapshot, wait_after, close | no update loses evidence; every card ends; a page that caught up shows what the observer holds |
| App: `app/composition.py` | the resources above | build, run, close | every resource is released, in order |
| LLM clients, parser, operation references, evidence, configuration | none, or private to a call | | |

How they interact. `App.run` asks the Harness to run Orchestrator turns and Task
Executors; each is the root of an Agent tree. The loop of an Agent calls a provider
or a Tool under one of the tree's permits. The Subagent Tools call the tree control;
the Batch and HTTP Tools call the target client, which hands each response to the
response processor on the same thread; the Batch Tool freezes a generation state
before it starts and rewards it when it ends; the Patch Tool replaces that state.
What the monitor observes becomes the values and sources that later Patches and
Batches use.

What is hard here: a Subagent that is started while its owner ends; waits that
overlap; permits held by those who wait; the App closing a running tree; a history
that outgrows its window; a Patch that is validated and then overtaken, or that
makes an input mandatory under containers that earlier Patches gave other
Generators; a search that prunes on partial assignments; a value that is lost
between the solution and the request; a database commit that fails after a state
was published; a monitor write that fails halfway to a verdict; two responses on one
resource; a run that is stopped while Subagents still write their cards.
`PROJECT.json` lists each of these at its line together with the properties that
watch it.

## 2. Modules

| Module | Models |
|---|---|
| `SubagentContract` | what the tree control promises about one Subagent: owned, holding a slot, ended once, collected once |
| `AgentTree` | the tree control, the loops of the Agents and the closing of the Harness, one action per block under the lock, read of an event, or begin or end of a call; refines `SubagentContract` |
| `AgentContext` | the history of one Agent and its projection into the window |
| `AgentLaunch` | Skills, the validation of a runtime definition and the construction of an Agent |
| `AgentConversation` | one Agent launched and run: its history, corrections, compactions and budget; extends the two above |
| `TaskLedger` | the Ledger, every operation with any arguments |
| `Orchestration` | the orchestration loop, which calls the operations of `TaskLedger` |
| `PatchRegister` | what a reader may rely on: one current configuration per Operation, replaced as a whole |
| `GenerationStore` | store, Patch runtime and bindings of one Operation, several threads; refines `PatchRegister` |
| `InputContracts` | the contract of one scalar, its default and negative Generators |
| `OperationSnapshot` | from a described Operation to its input nodes, their Generators and the reasons that disable it |
| `Constraints`, `ConstraintSolver` | the constraint language with its two evaluators; domains, units and the bounded search |
| `RequestGeneration` | one request from nodes, Generators, overrides and draws; and reading it back |
| `RequestWire` | the text of that request, and how its target reads it |
| `GeneratorSelection` | the choice of candidates and of what a slot breaks |
| `GeneratorPatches`, `SemanticPatches` | what a Patch does to the Generators; a Patch as an Agent writes it, its compilation, samples and refusals |
| `RequestPreparation` | one Operation from Patches to requests, composing the seven above |
| `OracleReplay` | one send of the target client with its observation, verdict and replay |
| `BatchExecution` | a Batch of such sends with its rows, summary, warnings, rewards and progress; extends `OracleReplay` |
| `ContractMonitor`, `ResourceMonitor` | the two other parts of the response processor |
| `BehaviorMonitor` | the coordinator that gives each response to both; extends them |
| `RunObserver` | the live observer and the spans of a run's Agent turns and Tool calls |
| `RunViewer` | one browser that follows the observer, extending `RunObserver` |
| `Tables` | tables by key, and a row put into one (the dictionaries of the monitor) |
| `OrchestrationProofs`, `GenerationStoreProofs`, `RequestPreparationProofs`, `AgentTreeProofs`, `AgentConversationProofs`, `BatchExecutionProofs`, `BehaviorMonitorProofs`, `RunViewerProofs` | theorems |
| `MC*` | instances, symmetry sets and definitions for TLC |

`SubagentContract` and `PatchRegister` are written from the promises; every other
definition carries the lines it translates in `PROJECT.json` ("map"). Operators
commented "Mutant" are deliberate bugs of a definition that follows them; no
specification uses them, they show that a property can fail.

### AgentTree

`status`, `parent`, `depth`, `cancelEvent`, `collected` are the fields of
`_AgentRecord`, `openCount` is `_open_count`. `pc` says where an Agent's thread is;
the permits are not a variable, since exactly the threads inside a call hold one.
A record's version counts its status changes, so a waiting Agent remembers the
statuses it saw (`seen`). `start_child`, `wait_children` before and after sleeping,
`cancel_child` and `close_descendants` hold the lock throughout and are one action
each. `Agent.close` of a root cancels under the lock and shuts the executor after
releasing it, which makes two steps that others can come between. The end of a
model call and the one read of the cancellation event that follows it are one
step: nobody else can tell the two apart. What a model answers, whether a call
fails and how long it takes are free choices.

A closed conversation raises in the root's loop (`Released`). A Subagent's
conversation is closed by its own thread alone. The record of the root stays
`running` after the root ends, as in the code. A Subagent that ends without
collecting its children leaves their slots taken, as in the code; `SlotAccounting`
counts them as open.

### AgentConversation

Sizes are small numbers in the place of characters, and a message says a set of
facts; so "nothing is forgotten" can be stated: each fact is said by a message of the
request, itself or in a summary. A launch comes first, because which Tools an Agent has decides what it may answer. The
window, the message limit and the summary limit are constants, the order of the
checks in `append_turn`, `needs_compaction` and the projection is the code's.
Compaction may fail, and its answer may be empty or too long. `SizesAssumption`
relates the sizes as the code does: what a Tool or a Source says has at most 24000
characters and `_prepare_message` allows a message `max(26_000, window)`, so nothing
but a task or a summary is clipped before the window is full; and a system prompt is
longer than five markers for groups left out (some 40 characters each).
`DefinitionsAssumption` gives every name in a Profile a description of some size;
whether the Skill or the child exists is for the validation to find out.

### TaskLedger and Orchestration

Identities are positions in the sequences, titles and criteria are opaque. A call
that raises `ValueError` changes nothing, so `TaskLedger` only has the accepted
calls. `Orchestration` replaces the free caller by the loop: the Harness checks of a
decision (`ReplanOffered`, `DispatchOffered`), the aliases of Attempts, the Task
Executor that reports, fails or raises, and the error that ends the run when the
Ledger refuses a decision. `CheckedAnswersStand` says which refusals are left: those
that the answer itself is to blame for. No action refuses a Task Executor's result
that the Harness has checked, because `ExecutorIsHeard` shows that there is none.

### PatchRegister and GenerationStore

The state of one Operation is a Strategy per input. Some Strategies take a value
of the evidence, some need a stored binding. `validate_state` runs without the lock
and leaves a digest; `apply` takes the lock and, when the Patch touches bindings,
a transaction. Inside it the state is published, then the commit may fail and the
published state is taken back; feedback of a Batch may arrive at any moment.

### RequestPreparation and what it composes

The state is one Operation's `positive` candidates and `constraints` and one slot
of a Batch. `ApplyPatch` is the whole of a Patch's way: its compilation against the
Operation and the evidence, the closure that makes containers mandatory, the checks
of constraints and variants, one generated sample, and the replacement; a refused
Patch changes nothing. A slot is then selected, prepared (two passes of
`generate_test_case` around the solver) and sent. The sequence of the steps is
`_generate_selected_case`'s; each step is a pure operator, so the run compares it
with a reference definition: `SearchIsExact` tries every combination of the
candidates, `ConnectedBy` is the least closed set, `Says` reads the text back as RFC
6570 and the style table ask.

A draw of Python's seeded generator depends on the node and the purpose, not on the
overrides of the solver, so both passes draw alike; in the model the draws are one
record chosen for the slot. Strings are sequences of symbols only where a
separator or an encoding matters, elsewhere they are numbered in order.

### OracleReplay and BatchExecution

The steps of one thread between `TargetAPIClient.send` and its return: receive or
lose the answer, record the observation, evaluate, persist, repeat. Every write may
fail where the code catches it, and also where it does not. Batch cases and HTTP
Tool calls share the database. A Batch adds its row, a summary after every case, the
failure of a case, an interruption of the thread, and the rewards.

### BehaviorMonitor

A Schema is the set of its facts, a response one object. The Contract Monitor holds
its lock over a check, but the merge is visible to readers before its event is
stored, so merge and end of the check are two steps. The Resource Monitor holds no
lock: its transaction is split where another thread's can come between (the reads,
the Agents' answers, the writes).

### RunObserver and RunViewer

Every span is one card and one thread's work; spans of the main thread come one
after the other, those of Subagents at any time, since `Executor.shutdown` does not
wait for them. `pc` is the span's next call. An update takes a copy of the card
under the lock (`CopyCard`) and replaces fields under the lock later
(`UpdateEvent`); `copy` is what it holds in between. The detail of a card is the set
of parts written to it, and `written` records which parts its own span wrote.
`start_span` looks at the run, at the order and at the cards in three blocks.
`start_http_exchange` looks at the run before it copies the card; here that is one
step, since a card that is gone in between leaves nothing to update either way.

The page of `RunViewer` fetches a snapshot, opens the stream at its cursor and
reduces the changes it receives. The browser's automatic reconnection sends the id
of the last event it received. Reloading the page starts a new page, which is not
another behaviour. The page model assumes one run, as `RESTScopeApp.start` does.

## 3. Runs

Every run uses two TLC workers and ends within five minutes, most within one or two.

| Run | Instance | Shows |
|---|---|---|
| `agent_tree_safety` | 2 Subagents, 3 slots, 2 permits, 2 turns | slots, orphans, cancellation; the tree implements its contract |
| `agent_tree_ends` | 1 permit, no timeouts | every finite conversation ends |
| `agent_tree_shutdown` | endless conversations | closing the Harness ends the tree |
| `agent_conversation` | some 400 runtime definitions; two windows, three answers, a changing source, a shared budget | what is accepted can be launched; every request is valid; nothing is forgotten |
| `orchestration` | 3 revisions, 2 Tasks of 2 kinds of work, a window of 1 Attempt | plans, Attempts and retries; the Ledger refuses no checked answer without cause; the loop answers every Task and keeps the observer current |
| `generation_store` | 2 inputs, 2 Patch authors, 1 tester with 2 Batches | Patches, rollbacks, feedback, bindings; the store implements the register |
| `request_preparation` | 10 Operations of up to 8 inputs, 2 Patches; 1498 scalar contracts and 1512 documents | the way from a document and its Patches to what the target reads |
| `batch_execution` | a Batch of up to 2 cases and an HTTP call | verdicts, replays, reports, summaries, rewards, progress |
| `behavior_monitor` | 2 threads, 3 responses of 9 kinds, 3 operations on one resource | the contract is audited, checks are not wasted, states are caused, definitions are stable |
| `run_viewer` | a turn of the main thread, an HTTP Tool call of a Subagent; a page with one lost connection | no evidence is lost, every card ends, the page misses nothing and never goes back |
| `contract_widens` | as `behavior_monitor` | finding 1 |
| `resource_merge` | as `behavior_monitor` | finding 2 |

Bounds. Two Subagents suffice for each race between the tree control's
operations: a child and its child, or two children of one parent. A tree of depth 3
cannot be reached with two Subagents; the limit of the code is kept in the model,
so depth is bounded by it. `MaxTurns` bounds the turns of the root, a Subagent has
one less per level; two turns let the root start and then wait. With two Subagents
the limit of three slots is never reached; what happens at the limit, and when a
slot is taken again, rests on `SlotsAreExact` and `TreeImplementsContract`, which are
proved for any number of Subagents and slots.

In `agent_conversation` the small window is crossed by two messages and the large one
by three, a task and a summary each come in a size that fits and one that does not,
and one more charge than the reminders need exhausts the budget. The definitions
are a base that is accepted, every single change that breaks one rule, and every
pair of changes, since the order of the checks decides what a pair does.

The Ledger never looks further back than one Task's Attempts and the pending
Milestones, so three revisions show everything two replans in sequence can do to a
third. The window of twenty Attempts in `Orchestration` is a constant that the run
makes smaller than the number of Tasks. `GenerationStore` bounds the number of
revisions and of Batches.

Each Operation of `request_preparation` has one way to nest or connect inputs: a
chain of constraints (`search`), an optional body with an optional object
(`create`), two inputs that identify one resource (`resource`), branches and an array
(`variant`), and one value in each location for every style (`lookup`, and five
others that vary the media type and a header's name). `MaxStates` is 7 and
`MaxDomain` 3 where the code has 10000 and 8: with these the search is exhausted in
some slots, unsatisfiable in some and solved in others, and a domain is cut. Not
reached are `constraint_invalid`, `constraint_empty_domain` and
`constraint_recheck_failed` (no Patch that is accepted leads there; of the last see
section 4). Expressions are nested at most `MaxLevel` (4) deep. Quotients are exact
fractions, without the rounding of Python's floats. `LongestTried` is the 1000
characters up to which the code makes a string too long for its contract. Numbers of
a contract count steps of which `Unit` make one, so that there are values between
whole numbers and next to each bound.

`BatchExecution` bounds the requests of all callers (`MaxSends`), two of which let a
Tool call come between two cases. Three responses in `behavior_monitor` let two merge
at once after a first. In `RunObserver` updates of different cards do not touch each
other, so one card of each kind of thread shows every race with the end, the
interruption and the closing of the run. The feed is a part of the state and remembers
the order of all changes, so the page is checked on runs with one card and one
Orchestration replacement, and the other cards on runs nobody looks at; `MCNext`
makes that division. Where the deadlock check is off, a run that is over has
nothing left to do.

Fairness. `FairSpec` of `AgentTree` is weak fairness of each Agent's thread and of
the closing thread: threads are scheduled, and every provider or Tool call has a
timeout of its own. Nothing makes the App close the Harness or a wait time out;
`EveryAgentEnds` therefore shows that no Agent depends on a timeout. `TimedSpec`
adds the timeout of `subagent.wait` (1 to 60 seconds), on which an endless tree
does depend when it is closed. Weak fairness of a whole thread is enough for
the permits: when one is free, some waiting thread takes it. `Orchestration`
assumes that an Executor returns in one of its ways. `PageReads` only says that an
open page receives what is sent to it and that the server's generator, which waits at
most 15 seconds at a time, goes on.

## 4. Findings

Two runs end in a violation of what the documentation says:

1. `contract_widens`: one observed response with an empty body removes every media
   type of its status (`response.contents = {}`), although
   `docs/tasks/api-behavior-monitor.md` says that runtime evidence never deletes.
2. `resource_merge`: of two responses on one resource that are merged at once the
   later write removes what only the other observed, although
   `docs/database_design.md` says that missing properties stay.

Other places where the code and its documents, or two parts of the code, disagree.
They were met while modelling; the models follow the code, and no run is spent on them.

Orchestration, tests and observation:

* `docs/adr/0007` asks for *a new retry reason* before failed work is repeated;
  `_reject_unchanged_failed_retry` asks for a reason, which may be the first one's.
* The main `README.md` says that one candidate triggers one Replay. A candidate whose
  body is too large for the HTTP Tool is judged a candidate, but
  `response_too_large` leaves `_send` before the directive is used. A Batch truncates
  instead, and `ReplaysAreExact` holds for it.
* The main `README.md` says that App shutdown clears the observer. A span of a
  Subagent that found the run active before `close` stores its card afterwards. And a
  Tool call that returns after `interrupt_run` replaces the stopped warning of its
  card by the status of its result.
* A KeyboardInterrupt leaves a Batch stored as `running`; a case whose stored
  assessment cannot be read raises. The observer's list of changes grows until the
  run is replaced. `ensure_operation` overwrites a stored description with None.
* A Subagent that ends without waiting leaves the slots of its children taken.
  `App.close` disposes the database engine while Subagents may still write.

Agents:

* `replace_compacted_history` adds a heading to a valid summary before it is clipped,
  so the end of a summary near the limit is lost. The projection keeps older groups
  after it skipped a newer one that is too large (`context.py` says it keeps the
  newest complete groups). In a small window the summary itself may be left out,
  and the request for a compaction is not projected (`docs/adr/0001`: history is never
  silently dropped). The projection counts the marker for groups left out even when
  the group it would stand for is shorter than the marker, so a history that just
  fits may lose a group; `NothingIsForgotten` speaks of histories that leave room for
  the marker.
* A custom Tool Catalog without `skill.read`, and a Tool factory that returns
  another name, are accepted at startup and fail when an Agent is built. Skills with
  References that the caller supplies need not require `file.read`.

Documents and Generators:

* A media type with parameters makes `build_operation_snapshot` raise a KeyError, so
  the App does not start. An array without items, or an optional multipart array of
  files, leaves its Operation enabled and fails in generation. `required` may name a
  property that is never generated, and an untyped object whose properties are all
  read-only becomes a string; branches of `allOf` that share a property may
  contradict each other in generation.
* A `wrong_type` value may be valid for a union of types, which reports a Bug that is
  none. A negative maximum gives bounds above it and disables the Operation.
* `_validate_configs` looks at the first candidate of an input only.
* A disabled Operation can never be repaired: the functions that would are not
  called, and `require_state` refuses such an Operation.

Patches, constraints and requests:

* A Patch may bind one part of a resource's composite identity anew, since the check
  sees the updates of one Patch only (`docs/adr/0006`).
* A response source is validated with the values that have the input's type, and a
  Batch uses all values observed. Where two inputs name one source, the later input's
  filter is used for both.
* `validate_variant_branch_updates` looks at the last candidate of a variant, so a
  mandatory input in a branch need not be taken when a variant has several;
  `PatchesAreKept` asks it of a single candidate. It looks at the container as it was
  before the Patch (`compiler.py:200`): when the Patch itself makes a container with
  plain values a variant, its branch is not compared with the changed inputs
  (`compiler.py:190` says "for every changed branch"), and an input made mandatory
  under another branch is in no request. TLC shows this for a Patch of
  `VariantPatches`; `Traceable` leaves the case out.
* A constraint without inputs can never be removed, and one stated twice is stored
  twice under one id.
* A required input under an optional container may be absent in the search although
  `constraint_solver.py` says that each domain starts with the baseline. Every
  assignment in which an optional resource identifier is absent is rejected. The last
  check of a case is made with the overrides and so can hardly fail.
* When the solver gives up, all constraints of a slot are dropped while its input
  still counts as valid.

On the wire:

* An exploded `label` object is joined by "," instead of "."; `label` of an empty
  array gives the dot segment "."; header values are percent-encoded and cookie
  values are not, so a ";" splits one; null and "" are one text, as are an empty array
  and an array of one empty string; `matrix` ignores `allowReserved`, and with it "&"
  and "/" change the structure of a query or a path. `TextIsFaithful` says in its
  premises which values it is about.
* A header parameter beside a generated header of the same name, or a path that
  is refused, raises an error that `run_batch` does not catch.

## 5. Proofs

Every theorem holds for every value of the constants that the named assumptions
allow. The provers treat neither ENABLED nor fairness, and cannot instantiate the
induction theorems of the library, which take an operator. Two lemmas called
`SetInduction` get around the second from the well-foundedness of the naturals: a set
that has 0 and each successor has all naturals, where the set may be defined by what
a fold or a sum does. `RankInduction` and `RankedSolution` do the same for recursion over the
inputs of an Operation and over a search. RECURSIVE operators remain out of reach.

`OrchestrationProofs` proves first, for any number of revisions, Milestones, Tasks and kinds
of work, that the Ledger's invariants hold and that its history is never rewritten.
The only assumption is `LedgerAssumption` (the bounds are natural numbers, `None` is
not a reason). The properties are not inductive by themselves. The argument adds:

* `HistoryIsBounded`: no Milestone is of a later revision than the current one, and
  the plan revisions speak of existing Milestones only. Without it a new revision
  could be mistaken for an old one and the history is incomplete after a replan.
* `ActiveTaskIsLast`: the active Task is the last one dispatched. When it fails, no
  later Task can have repeated its work already, which is what
  `RetriesAreJustified` needs.

`ReplanMilestones` says what a replan does to the sequence of Milestones, and each
operation has a lemma of its own (`ReplanInv`, `DispatchInv`, `EndTaskInv`,
`CompleteInv`); `LedgerInvariant` combines them.

All of the above holds of runs too: each action of the loop that changes the Ledger
names one of its operations (`RunUsesLedger`, a lemma that says nothing more). Then
the runtime, its sessions and the observer follow the Ledger (`TrackInv`). The invariant needs
`SessionsAreOfTheRun`: the sessions recorded so far name no Task that is still to be
dispatched, so that the next one cannot be confused with them. `RetriesStayPossible`
shows the decision that repeats failed work (`RetryIsOffered`): any reason, and the
Attempts of all failed Tasks of that work. `ReasonsAssumption`, that there is a
reason, is what it needs beside `RecentAssumption`; the soundness of the Attempts
gives the rest, since each failed Task has an Attempt to name. `AnswersAreHeard` rests
on both invariants: the view offers Milestones by their status alone and the Ledger
also asks for their revision, so it needs `OnlyTheNewestPlanIsPending`; and no Task may
be open while the Orchestrator decides, whichever way the last Executor ended.

`GenerationStoreProofs` proves the four properties of the store for any number of
Patches, testers, inputs and revisions, from `StoreAssumption` (the initial content is
plain, the two kinds of references are different). `LockInv` says who holds the
Operation's lock, and `HolderInv` that what the holder will restore is what it found,
and what it published is what its Patch makes of that; nothing else is needed for
`AppliedAsValidated` and for the refinement (`VisibleState`, `RegisterStep`).
`PureInv` adds that no later revision than the visible one is known to anybody (by a
frozen state or by feedback), and one content per revision; `DurableInv` that a Patch
past its commit has its bindings in the database.

`AgentTreeProofs` proves the safety of the tree for any number of Subagents, slots,
permits and turns, and that it implements `SubagentContract`. The only assumption is
`TreeAssumption` (the root is no Subagent, the session ids are finitely many, the
limits are positive). `TreeInv` adds to the properties:

* `AwaitedAreOwn`, with `CollectedHasEnded` and `RootIsOpen`: what an Agent waits for
  stays open and its own until it collects it. Two waits of one Agent cannot overlap
  and nobody else collects, so the count that `EndWait` subtracts is the number of
  records that leave the open ones; `SlotAccounting` is not inductive without it.
* `ThreadsMatchRecords`, `OwnersHaveBegun`, `ConcludedHasVerdict`: a Subagent's thread
  lives exactly while its record says running, an owner is past the start of its
  loop, and a thread that is ending has a verdict. `OrphansCancelled` needs the
  second: an Agent that has not begun has nobody to close.
* `LateCallsAreLast`: the call begun after the cancellation leads to the end of the
  loop without another one, and to a verdict other than `completed`. The bound of one
  call in `CancellationIsEffective` says nothing about what comes next.

Each action has a lemma (`StartChildInv`, `EndWaitInv`, `CloseInv`, ...), those
that move within the loop share `GoOn`, `Calls` and `Concludes`, and `NextTree`
combines them. For the refinement, `HoldingIsOpen` relates the slots of the contract
to the open records and one lemma per operation gives the step of the contract
(`StartRefines`, `RunRefines`, `FinishRefines`, `CollectRefines`).

`BatchExecutionProofs` proves what the oracle and the Batches promise for any number
of Batches, HTTP Tool calls and requests. The assumptions are `CallersAssumption`
(Batches and Tool calls are different, the missing identity is no identity) and
`BatchAssumption` (there are finitely many Batches, over which an Orchestrator sums).
The stored verdicts cannot be justified from the tables alone, since a row is written,
then the verdict is reached, then it is stored, and each may fail; so `OracleInv`
says for every caller what it holds meanwhile:

* `RowsAreOwned`, `RowsAreNew`: an identity belongs to one request of one caller and
  is used once. Without it a row of another request could stand in for the evidence.
* `EvidenceIsHeld`: an identity that a caller holds is that of a stored row with the
  reasons that the caller itself computed. This is what `Persist` rests on
  (`Supports`, `PersistTables`).
* `ReplayIsAsked`: a directive stands exactly for a Primary with reasons, and is used
  up by its Replay.
* `VerdictIsHeld`: while the exchange is unsettled there is neither a verdict in the
  details nor an Assessment, and afterwards the two agree where both exist. A Replay
  with an oversized body leaves only the stored one, and a failed write only the other.
* `ReportIsHeld`, `AnswerStands`: what follows for the report and the answer.

`Frame` states what a step of one caller leaves to the others (`OthersStand`), and
each step has a lemma. `RewardInv` adds that case *i* of a Batch is its request *i*
(`CasesAreRequests`) and that a Batch leaves its last summary only with all cases done
(`RewardsAreOwed`), which gives `RewardsAreEarned`. `SummaryInv` adds what a stored
summary still says while its Batch goes on:

* `SummaryStands`: it tells of the first cases of the Batch and of so many of its rows
  (`Tells`), and of all cases when the last write did not fail (`Noted`). Rows are
  only added, and the rows of a Batch are finitely many because an identity is used
  once (`RowsAreFew`), so such a summary stays true of an earlier moment.
* `EndIsSaid`: a Batch that is over says what its summary or its rows lack.

The sums over all Batches are folds over a set, whose order the definition leaves open;
`SumsCompare` shows by induction that any two such sums compare as their terms do.

`AgentConversationProofs` proves three properties of `AgentConversation`, from
`ContextAssumption`, `SizesAssumption` and `DefinitionsAssumption`, for any definitions
and all sizes. `LaunchInv` follows a launch: what was built so far is a path of
the accepted definition, and such a path has at most four levels below its root
(`Depth`, from `GraphIsFinite`), where the Harness stops too. The conversation
needs `ConversationInv`:

* `HistoryInv`: the context is a history behind the unchanged prefix, in which every
  Tool call is answered except that of the Tool that runs; and what was said to the
  Agent is in it (`Known`), or is a reminder that the end of the Tool or of the
  compaction will append. The exception is why `ProviderRequestsAreValid` is not
  inductive: the call and its answer are two steps.
* `RequestInv`: the last request is still the one that the context gives, although
  the source may have changed meanwhile.

The lemmas before it say what the projection selects, by induction along its fold:
`Chars` adds up, what is selected fits and keeps the newest groups, what is not
selected did not fit.

`BehaviorMonitorProofs` proves the four properties of the run `behavior_monitor`, for any
number of threads, operations, responses and media types, any declared document and
all Schemas as sets of facts, from `ContractAssumption`, `ResourceAssumption` and
`MonitorAssumption` (all say that names are different and that documents and responses
have their form). `MonitorInv` has a part for each of the two monitors and one for
their coordinator:

* `CheckHeld`, `CheckFree`: while a check holds the lock, the IR is the stored document
  with one response merged and nothing else, and only its key is being checked. An
  undone merge gives back exactly the document.
* `EventInv`, `LeadsToDocument`: the events of one status form a chain from the
  declared Response to the stored one. `ChangeCovered` needs it, since a later event may
  only remove what an earlier one added by an empty body (`MergedResponses`).
* `TaskInv`: what a thread found when it began to write is still there when it
  writes. `InstanceInv` and `StateEventInv` then follow for two threads that write to
  one resource at once.
* `ResponseInv`, `ObservationInv`: an Observation belongs to one response, which one
  thread processes once, and to at most one event.

`RunViewerProofs` proves `EvidenceIsKept` and `CardsEnd` of the observer, for any
number of spans, and that the page neither goes back nor shows anything else than the
observer once it has caught up, for any number of changes and lost connections, from
`ObserverAssumption` and `ViewerAssumption`. `SpanInv` says of each span that the copy
it holds between two blocks has all that it has written. For the page, `ViewerInv` adds:

* `Flows`: what is on its way to the page is a piece of the feed that ends at the
  stream's cursor and starts no later than after what the page has applied; a
  reconnection repeats changes, it skips none.
* `NewestIsTrue`, `Lacks`: the newest change about a card, the run or the Orchestration
  carries its present state, and whatever the page lacks is repeated by a change after
  its cursor. So nothing is missing when no such change is left. The same is
  kept of the snapshot on its way.
* `KnownInv`, `ViewInv`: revisions of a card grow along the feed, and what the page
  has is not newer than what follows its cursor; this gives `ViewNeverGoesBack`.

`RequestPreparationProofs` proves `SelectionIsFaithful`, `RequestsMeetConstraints`,
`PatchesAreKept` and the part of `ReadBackIsFaithful` that is about requests
(`RequestIsReadBack`), for any Operations, Patches, constraints, candidates, scores and
draws, from `SolverAssumption` (the bounds of the
search are positive) and `OperationAssumption`. The latter says what
`build_operation_input_nodes` and the stores guarantee: the inputs are trees with the
parameters and one body as roots, the names in an object differ (`IsTree`), an object is
built for a container only and values are JSON values (`IsStrategy`), lists are lists, a
stored constraint is named after its expression (`Compiled`), an arm has no more rewards
than attempts. TLC checks it for the ten Operations of the run. The invariant `IInv` says that the state is what the latest Patch made of the
state before it (`PatchStands`), and that a selection is what `Choose` makes of the state
that still stands. The rest is about the operators:

* `ConnectionIsClosure`: the passes of `associated_constraint_ids`, as many as there are
  constraints, end at the least set that contains the inputs and that no constraint
  leads out of. A pass that adds nothing is the last one; else each adds a
  constraint. `ScopeGivesWay` follows: what a Patch removes is what its readers saw.
* `BestExists`: among finitely many candidates one has no better one, since the means are
  compared by cross-multiplication, which is transitive (`Scaled`). So the greedy choice
  chooses among some.
* `Elements`, `FoldIsPass`, `SortedKeeps`: what filters, folds and sorting keep.

`RequestsMeetConstraints` says that what the *server* reads of a request satisfies the
constraints, although the solver only sees what a first pass generated, changes some
inputs of it and generates again. The argument follows the value of an input:

* `TreeIsRanked` ranks the inputs with their containers first. By induction along the
  rank each recursive function on the tree is its own unfolding (`AncestorsUnfold`,
  `BuildUnfold`, `ProjectedUnfold`, ...).
* `TakenIsBuilt` and `ObjectIsBuilt` say what a container holds: all its members that
  are not left out. From them `OnlyBuiltArrives` (what the server reads of an input is
  what was built of it) and `TakenArrives` (an input arrives when it and each container
  above it is taken). `Plain`, in the property, names the inputs for which this is so:
  not those in arrays, branches and dictionaries, nor under containers with another Generator.
* `DomainIsFine` and its like: a candidate of an input is absent only where the input is
  optional. `ListedHas` and `InOrderHas` follow the units through the listing and the
  sorting: no input of a constraint gets lost.
* `SearchUnfold` shows that the nested search has its steps, by a rank that falls with the
  positions that are left; `SearchIsSound` that a solution consists of one candidate of
  each unit and was found `Good`. `SolvedHas` sums up: the solver selects for every input
  of a constraint something it may have, with no present input under an absent one.
* The second pass: what is selected is requested (`ChosenIsRequested`) and so taken
  (`RequestedIsTaken`), an absent input stays away (`AbsentStaysAway`), a present one
  arrives (`PresentArrives`). `AgreementHolds` carries the result of the code's check
  over to what the server reads, and `CaseMeetsConstraints` closes the argument.

`RequestStands` is the invariant with which that becomes a theorem of the runs: the
candidates fit their inputs, and the outcome of a slot is what `TestCase` gives for it.
`SlotGives` sums that up: the request of a slot is one that its case gives with no
overrides at all or with those of one selection of the solver. Two more properties follow:

* `RequestIsReadBack`: `ReachedArrives` extends `TakenArrives` to the branch that a variant
  takes, and with it what was built of an input is what the server reads and what
  `Recovered` finds. The proof failed for a media type that is left out under a required
  body: the negative Generator of a required scalar media type gives an omission
  (`request_generation/snapshot.py:529-531`), the body is then sent as null
  (`request_generation/generation.py:653`), and that is what the server reads. The
  property says so now.
* `MandatoryInputsArrive`: `PatchedDemands` follows the closure of a Patch (an input that
  becomes mandatory makes the containers above it mandatory), `CompiledDemands` the
  selection of branches, `ChosenStands` (an invariant: each input that no negative
  Generator aims at has one of its present candidates) brings both to the slot, and
  `MandatoryIsTaken` shows that no selection of the solver leaves such an input out. The
  proof also found `Traceable` too wide: a property below a container that is not built as
  an object is not reached, whatever the Patch says.

Only model-checked: the liveness properties and whatever depends on fairness or on
ENABLED, which the prover does not treat; and of `request_preparation`
`TextIsFaithful`, the part of `ReadBackIsFaithful` that reads texts back (an induction over
their symbols), `SearchIsExact` (that the search finds a solution where there is one: the
proof shows that what it finds is one) and `ContractsAreKept`, whose modules define
contracts by RECURSIVE operators.

## 6. Not modelled

* Provider I/O (`llm/`): an answer is a choice in `AgentTree` and
  `AgentConversation`. Loading and hashing of files, configuration, tracing, the ORM
  and its migrations: no behaviour over time of their own.
* The OpenAPI parser up to `input_nodes.py`, and `operation_references/`: sequential
  translations of documents. `semantics.py` phrases a state for a prompt.
* The MCP host. It is a thin shell around the session of an external SDK: a request
  waits for its result with no limit, so a command that is queued after the owner
  thread left its loop is never answered; two first uses may start two sessions;
  `close` stops at the first error. Whether that thread can end under a queued
  command is decided by the SDK.
* The random numbers of Python and the strings of the regular-expression generator:
  choices, and a small set of texts for each pattern.
* `prepare_accepted_generator_patch`, `rebuild_generator_config`,
  `_changed_input_can_repair_reason` and `_contract_disabled_reasons` of `store.py`:
  nothing calls them. The branches of `serialization.py` for styles and media types
  that disable an Operation: no request reaches them.
* Several resource groups of one response in one transaction: the model has one.

## 7. Plan

What is left, in this order:

1. Proofs about the request modules: that the search leaves out no combination, for which
   the three-valued evaluation has to be compared with the other one, term by term.
2. Several resource groups of one response; the source rows two Operations share.
3. The parser's resolution of references and the merge of `allOf`, against
   `OperationSnapshot`'s documents.
4. The MCP host, once what its SDK promises is written down.
