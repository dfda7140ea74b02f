----------------------------- MODULE AgentTree -----------------------------
(***************************************************************************)
(* One Agent tree: the System root the Harness runs, the Subagents it and  *)
(* they start, the tree control they share, and the App thread that closes *)
(* the Harness while they run.                                             *)
(*                                                                         *)
(* restscope/harness/agent_control.py keeps the records, the open-slot     *)
(* count, the permit pool and the worker pool; restscope/agent/runtime.py  *)
(* is the loop of one Agent, one thread each; restscope/harness/runtime.py *)
(* registers the root and closes it.                                       *)
(*                                                                         *)
(* A step is what one thread does between two points at which another      *)
(* thread can be seen: a block under the tree lock, one read of a          *)
(* cancellation event, the start or the end of a provider or Tool call.    *)
(***************************************************************************)
EXTENDS Naturals, FiniteSets

CONSTANTS
  Root,       \* the System root Agent
  Children,   \* the session ids Subagents can be given
  NoAgent,    \* the parent of the root
  MaxOpen,    \* max_open_agents
  MaxActive,  \* max_active_agents, the permits of the tree
  MaxTurns,   \* bound: corrections, compactions and Tool calls of the root
  Endless     \* whether an Agent may go on once its turns have been counted

ASSUME TreeAssumption ==
  /\ Root \notin Children
  /\ NoAgent \notin Children \cup {Root}
  /\ IsFiniteSet(Children)
  /\ MaxOpen \in Nat \ {0}
  /\ MaxActive \in Nat \ {0}
  /\ MaxTurns \in Nat
  /\ Endless \in BOOLEAN

VARIABLES
  status, parent, depth,       \* _AgentRecord
  cancelEvent, collected,      \* _AgentRecord
  openCount,                   \* AgentTreeControl._open_count
  accepting,                   \* the executor still takes submissions
  pc, verdict,                 \* where an Agent's thread is; its AgentResult.status
  seen,                        \* the statuses a waiting Agent found when it began to wait
  turns, lateCalls,            \* history: loop turns; calls begun after cancellation
  registered, closing,         \* Harness: root in _system_agents; _system_agents_closing
  shutdown, promptClosed       \* the closing thread; the root's conversation released

records == <<status, parent, depth, cancelEvent, collected, openCount>>
harness == <<registered, closing, shutdown, promptClosed>>
vars == <<records, accepting, pc, verdict, seen, turns, lateCalls, harness>>

Agents == Children \cup {Root}
Terminal == {"completed", "failed", "cancelled"}
Statuses == {"absent", "queued", "running"} \cup Terminal
MaxDepth == 3

\* max_workers=max(8, max_open_agents * 2)
MaxWorkers == IF 2 * MaxOpen > 8 THEN 2 * MaxOpen ELSE 8

\* Mutant: a wait keeps its permit.
WaitKeepsPermit == {"model", "compact", "recompact", "tool", "waiting"}

\* A thread inside a provider or ordinary Tool call holds one permit of the tree.
Calling == {"model", "compact", "recompact", "tool"}
PCs == Calling \cup
       {"idle", "built", "starting", "loop", "again", "ready", "answered",
        "waiting", "returned", "closing", "stopping", "closed", "ended"}

Live(a) == status[a] \in {"queued", "running"}
Open == {a \in Agents : status[a] # "absent" /\ ~collected[a]}
OpenKids(S) == {c \in Open : parent[c] \in S}

\* _descendant_ids: the walk goes through uncollected records only.  No record
\* lies deeper than MaxDepth, so three levels are the whole walk.
Descendants(a) ==
  LET first  == OpenKids({a})
      second == OpenKids(first)
  IN  first \cup second \cup OpenKids(second)

PermitFree == Cardinality({a \in Agents : pc[a] \in Calling}) < MaxActive
WorkerFree == Cardinality({c \in Children : status[c] = "running"}) < MaxWorkers

\* Bound: an Agent may take one counted turn less than its parent.  An endless
\* conversation goes on, but compacts only within its counted turns.
TurnsLeft(a) == turns[a] + depth[a] < MaxTurns
MayGoOn(a) == TurnsLeft(a) \/ Endless
Turn(a) == turns' = [turns EXCEPT ![a] = IF @ < MaxTurns THEN @ + 1 ELSE @]

\* A conversation method of a root whose Prompt Session another thread closed
\* raises; Agent.run lets that error escape.
Released(a) == a = Root /\ promptClosed

Init ==
  /\ status = [a \in Agents |-> IF a = Root THEN "running" ELSE "absent"]
  /\ parent = [a \in Agents |-> NoAgent]
  /\ depth = [a \in Agents |-> 0]
  /\ cancelEvent = [a \in Agents |-> FALSE]
  /\ collected = [a \in Agents |-> FALSE]
  /\ openCount = 1
  /\ accepting = TRUE
  /\ pc = [a \in Agents |-> IF a = Root THEN "built" ELSE "idle"]
  /\ verdict = [a \in Agents |-> "running"]
  /\ seen = [a \in Agents |-> <<>>]
  /\ turns = [a \in Agents |-> 0]
  /\ lateCalls = [a \in Agents |-> 0]
  /\ registered = FALSE
  /\ closing = FALSE
  /\ shutdown = "idle"
  /\ promptClosed = FALSE

Goto(a, label) == pc' = [pc EXCEPT ![a] = label]

\* The loop returns, or an error escapes it: either way Agent.close() is next.
Conclude(a, outcome) ==
  /\ Goto(a, "closing")
  /\ verdict' = [verdict EXCEPT ![a] = outcome]

\* One more call begins; it is late when cancellation was requested before.
\* Bound: the history is kept only where conversations are finite.
BeginCall(a, label) ==
  /\ Goto(a, label)
  /\ lateCalls' = [lateCalls EXCEPT ![a] = IF cancelEvent[a] /\ ~Endless THEN @ + 1 ELSE @]

-----------------------------------------------------------------------------
(* Starting.                                                               *)

\* run_system_agent: enter the root among the active System Agents, or refuse
\* it (and close it) because the Harness is closing.
RegisterRoot ==
  /\ pc[Root] = "built"
  /\ IF closing
     THEN /\ Conclude(Root, "failed")
          /\ UNCHANGED registered
     ELSE /\ registered' = TRUE
          /\ Goto(Root, "starting")
          /\ UNCHANGED verdict
  /\ UNCHANGED <<records, accepting, seen, turns, lateCalls, closing, shutdown,
                 promptClosed>>

\* _run_child, first block: a worker takes the queued child.
BeginChild(c) ==
  /\ status[c] = "queued" /\ WorkerFree
  /\ status' = [status EXCEPT ![c] = "running"]
  /\ Goto(c, "starting")
  /\ UNCHANGED <<parent, depth, cancelEvent, collected, openCount, accepting,
                 verdict, seen, turns, lateCalls, harness>>

\* _build_child raises: there is no Agent to close.
BuildFails(c) ==
  /\ c \in Children /\ pc[c] = "starting"
  /\ Goto(c, "closed")
  /\ verdict' = [verdict EXCEPT ![c] = "failed"]
  /\ UNCHANGED <<records, accepting, seen, turns, lateCalls, harness>>

\* Agent.run: a closed root raises, a cancelled Agent returns at once, and the
\* first prompt may not fit.
EnterLoop(a) ==
  /\ pc[a] = "starting"
  /\ \/ (Released(a) \/ ~cancelEvent[a]) /\ Conclude(a, "failed")
     \/ ~Released(a) /\ cancelEvent[a] /\ Conclude(a, "cancelled")
     \/ ~Released(a) /\ ~cancelEvent[a] /\ Goto(a, "loop") /\ UNCHANGED verdict
  /\ UNCHANGED <<records, accepting, seen, turns, lateCalls, harness>>

-----------------------------------------------------------------------------
(* The loop of one Agent.                                                  *)

\* The conversation reached 80% of its capacity: at most two attempts.
BeginCompaction(a) ==
  /\ PermitFree /\ ~Released(a)
  /\ \/ pc[a] = "loop" /\ TurnsLeft(a) /\ BeginCall(a, "compact") /\ Turn(a)
     \/ pc[a] = "again" /\ BeginCall(a, "recompact") /\ UNCHANGED turns
  /\ UNCHANGED <<records, accepting, verdict, seen, harness>>

\* The provider failed, the budget is exceeded, cancellation was requested,
\* the summary is unusable, or it is installed and the request follows.
EndCompaction(a) ==
  /\ pc[a] \in {"compact", "recompact"}
  /\ \/ Conclude(a, "failed")
     \/ cancelEvent[a] /\ Conclude(a, "cancelled")
     \/ /\ ~cancelEvent[a]
        /\ \/ pc[a] = "compact" /\ Goto(a, "again")
           \/ Goto(a, "ready")
        /\ UNCHANGED verdict
  /\ UNCHANGED <<records, accepting, seen, turns, lateCalls, harness>>

BeginModel(a) ==
  /\ pc[a] \in {"loop", "ready"} /\ PermitFree /\ ~Released(a)
  /\ BeginCall(a, "model")
  /\ UNCHANGED <<records, accepting, verdict, seen, turns, harness>>

\* Mutant: the cancellation event is not read when the response arrives.
EndModelUnchecked(a) ==
  /\ pc[a] = "model"
  /\ Goto(a, "answered")
  /\ UNCHANGED <<records, accepting, verdict, seen, turns, lateCalls, harness>>

\* The cancellation event is read once, when the response is in hand.
EndModel(a) ==
  /\ pc[a] = "model"
  /\ \/ Conclude(a, "failed")
     \/ cancelEvent[a] /\ Conclude(a, "cancelled")
     \/ ~cancelEvent[a] /\ Goto(a, "answered") /\ UNCHANGED verdict
  /\ UNCHANGED <<records, accepting, seen, turns, lateCalls, harness>>

\* A mixed, multi-call or invalid answer: feedback and another turn, with no
\* look at the cancellation event on the way.
Correct(a) ==
  /\ pc[a] = "answered" /\ MayGoOn(a) /\ ~Released(a)
  /\ Goto(a, "loop")
  /\ Turn(a)
  /\ UNCHANGED <<records, accepting, verdict, seen, lateCalls, harness>>

Accept(a) ==
  /\ pc[a] = "answered" /\ ~Released(a)
  /\ Conclude(a, "completed")
  /\ UNCHANGED <<records, accepting, seen, turns, lateCalls, harness>>

\* The root's next use of a conversation that close() released raises.
FailReleased ==
  /\ Released(Root)
  /\ pc[Root] \in {"loop", "again", "ready", "answered", "returned"}
  /\ Conclude(Root, "failed")
  /\ UNCHANGED <<records, accepting, seen, turns, lateCalls, harness>>

\* execute_tool: every Tool but subagent.wait runs under a permit.
BeginTool(a) ==
  /\ pc[a] = "answered" /\ MayGoOn(a) /\ ~Released(a) /\ PermitFree
  /\ BeginCall(a, "tool")
  /\ Turn(a)
  /\ UNCHANGED <<records, accepting, verdict, seen, harness>>

\* A Tool that leaves the tree alone, or one that fails.
OtherTool(a) ==
  /\ pc[a] = "tool"
  /\ Goto(a, "returned")
  /\ UNCHANGED <<records, accepting, verdict, seen, turns, lateCalls, harness>>

\* start_child: reserve a slot and submit.  A failed submission takes its
\* record and its slot back before the lock is released.
StartChild(a, c) ==
  /\ pc[a] = "tool" /\ status[c] = "absent"
  /\ Goto(a, "returned")
  /\ IF depth[a] < MaxDepth /\ openCount < MaxOpen /\ accepting
     THEN /\ status' = [status EXCEPT ![c] = "queued"]
          /\ parent' = [parent EXCEPT ![c] = a]
          /\ depth' = [depth EXCEPT ![c] = depth[a] + 1]
          /\ openCount' = openCount + 1
     ELSE UNCHANGED <<status, parent, depth, openCount>>
  /\ UNCHANGED <<cancelEvent, collected, accepting, verdict, seen, turns, lateCalls,
                 harness>>

\* cancel_child: _require_direct_child, then the event unless it has ended.
CancelChild(a, c) ==
  /\ pc[a] = "tool" /\ c \in OpenKids({a})
  /\ Goto(a, "returned")
  /\ cancelEvent' = [cancelEvent EXCEPT ![c] = @ \/ Live(c)]
  /\ UNCHANGED <<status, parent, depth, collected, openCount, accepting, verdict,
                 seen, turns, lateCalls, harness>>

\* wait_children: one to three open direct children, without a permit.  A
\* record's version counts its status changes, so its status stands for it.
BeginWait(a, S) ==
  /\ pc[a] = "answered" /\ MayGoOn(a) /\ ~Released(a)
  /\ S # {} /\ Cardinality(S) <= 3 /\ S \subseteq OpenKids({a})
  /\ BeginCall(a, "waiting")
  /\ seen' = [seen EXCEPT ![a] = [c \in S |-> status[c]]]
  /\ Turn(a)
  /\ UNCHANGED <<records, accepting, verdict, harness>>

Ended(S) == {c \in S : status[c] \in Terminal}
News(a) == \E c \in DOMAIN seen[a] : status[c] \in Terminal \/ status[c] # seen[a][c]

\* Mutant: every child awaited gives its slot back, ended or not.
EndWaitFreesAll(a) ==
  /\ pc[a] = "waiting" /\ News(a)
  /\ collected' = [c \in Agents |-> collected[c] \/ c \in Ended(DOMAIN seen[a])]
  /\ openCount' = openCount - Cardinality(DOMAIN seen[a])
  /\ Goto(a, "returned")
  /\ seen' = [seen EXCEPT ![a] = <<>>]
  /\ UNCHANGED <<status, parent, depth, cancelEvent, accepting, verdict, turns,
                 lateCalls, harness>>

\* Mutant: every child awaited is collected, ended or not.
EndWaitCollectsAll(a) ==
  /\ pc[a] = "waiting" /\ News(a)
  /\ collected' = [c \in Agents |-> collected[c] \/ c \in DOMAIN seen[a]]
  /\ openCount' = openCount - Cardinality(DOMAIN seen[a])
  /\ Goto(a, "returned")
  /\ seen' = [seen EXCEPT ![a] = <<>>]
  /\ UNCHANGED <<status, parent, depth, cancelEvent, accepting, verdict, turns,
                 lateCalls, harness>>

\* The wait ends with news, and every terminal child among those awaited is
\* collected and gives its slot back.
EndWait(a) ==
  /\ pc[a] = "waiting" /\ News(a)
  /\ LET ended == Ended(DOMAIN seen[a]) IN
       /\ collected' = [c \in Agents |-> collected[c] \/ c \in ended]
       /\ openCount' = openCount - Cardinality(ended)
  /\ Goto(a, "returned")
  /\ seen' = [seen EXCEPT ![a] = <<>>]
  /\ UNCHANGED <<status, parent, depth, cancelEvent, accepting, verdict, turns,
                 lateCalls, harness>>

\* The timeout of the wait (at most 60 seconds) passes without news.
WaitTimeout(a) ==
  /\ pc[a] = "waiting" /\ ~News(a)
  /\ Goto(a, "returned")
  /\ seen' = [seen EXCEPT ![a] = <<>>]
  /\ UNCHANGED <<records, accepting, verdict, turns, lateCalls, harness>>

\* Mutant: the loop goes on after a Tool without reading the event.
AfterToolUnchecked(a) ==
  /\ pc[a] = "returned" /\ ~Released(a)
  /\ Goto(a, "loop")
  /\ UNCHANGED <<records, accepting, verdict, seen, turns, lateCalls, harness>>

\* The Tool result is appended and the cancellation event read again.
AfterTool(a) ==
  /\ pc[a] = "returned" /\ ~Released(a)
  /\ IF cancelEvent[a] THEN Conclude(a, "cancelled")
                       ELSE Goto(a, "loop") /\ UNCHANGED verdict
  /\ UNCHANGED <<records, accepting, seen, turns, lateCalls, harness>>

-----------------------------------------------------------------------------
(* Ending.                                                                 *)

CancelAll(S) == cancelEvent' = [a \in Agents |-> cancelEvent[a] \/ a \in S]

\* Mutant: a closing Subagent forgets its descendants.
CloseAlone(c) ==
  /\ c \in Children /\ pc[c] = "closing"
  /\ CancelAll({c})
  /\ Goto(c, "closed")
  /\ UNCHANGED <<status, parent, depth, collected, openCount, accepting, verdict,
                 seen, turns, lateCalls, harness>>

\* Agent.close of a Subagent: close_descendants.
CloseChild(c) ==
  /\ c \in Children /\ pc[c] = "closing"
  /\ CancelAll({c} \cup Descendants(c))
  /\ Goto(c, "closed")
  /\ UNCHANGED <<status, parent, depth, collected, openCount, accepting, verdict,
                 seen, turns, lateCalls, harness>>

\* _run_child, last block: the result becomes visible to the parent.
FinishChild(c) ==
  /\ c \in Children /\ pc[c] = "closed"
  /\ status' = [status EXCEPT ![c] = verdict[c]]
  /\ Goto(c, "ended")
  /\ UNCHANGED <<parent, depth, cancelEvent, collected, openCount, accepting,
                 verdict, seen, turns, lateCalls, harness>>

\* Agent.close of the root, on its own thread: AgentTreeControl.close cancels
\* every open record under the lock, then shuts the executor outside it.
CloseRoot ==
  /\ pc[Root] = "closing"
  /\ CancelAll(Open)
  /\ Goto(Root, "stopping")
  /\ UNCHANGED <<status, parent, depth, collected, openCount, accepting, verdict,
                 seen, turns, lateCalls, harness>>

EndRoot ==
  /\ pc[Root] = "stopping"
  /\ accepting' = FALSE
  /\ promptClosed' = TRUE
  /\ registered' = FALSE
  /\ Goto(Root, "ended")
  /\ UNCHANGED <<records, verdict, seen, turns, lateCalls, closing, shutdown>>

-----------------------------------------------------------------------------
(* HarnessRuntime.close_agents, on the thread that closes the App.         *)

\* Refuse new roots and take the active ones, under one lock.
BeginShutdown ==
  /\ shutdown = "idle"
  /\ closing' = TRUE
  /\ shutdown' = IF registered THEN "event" ELSE "done"
  /\ UNCHANGED <<records, accepting, pc, verdict, seen, turns, lateCalls,
                 registered, promptClosed>>

\* Agent.close of the root: its event first, then the tree's, then the
\* executor, then the conversation.
ShutdownEvent ==
  /\ shutdown = "event"
  /\ CancelAll({Root})
  /\ shutdown' = "tree"
  /\ UNCHANGED <<status, parent, depth, collected, openCount, accepting, pc, verdict,
                 seen, turns, lateCalls, registered, closing, promptClosed>>

ShutdownTree ==
  /\ shutdown = "tree"
  /\ CancelAll(Open)
  /\ shutdown' = "executor"
  /\ UNCHANGED <<status, parent, depth, collected, openCount, accepting, pc, verdict,
                 seen, turns, lateCalls, registered, closing, promptClosed>>

ShutdownExecutor ==
  /\ shutdown = "executor"
  /\ accepting' = FALSE
  /\ shutdown' = "prompt"
  /\ UNCHANGED <<records, pc, verdict, seen, turns, lateCalls, registered, closing,
                 promptClosed>>

ShutdownPrompt ==
  /\ shutdown = "prompt"
  /\ promptClosed' = TRUE
  /\ shutdown' = "done"
  /\ UNCHANGED <<records, accepting, pc, verdict, seen, turns, lateCalls, registered,
                 closing>>

-----------------------------------------------------------------------------
RootStep == RegisterRoot \/ FailReleased \/ CloseRoot \/ EndRoot

\* One Agent's thread, the timeout of its wait apart.
AgentStep(a) ==
  \/ a = Root /\ RootStep
  \/ a \in Children /\ BeginChild(a)
  \/ BuildFails(a) \/ EnterLoop(a)
  \/ BeginCompaction(a) \/ EndCompaction(a)
  \/ BeginModel(a) \/ EndModel(a)
  \/ Correct(a) \/ Accept(a)
  \/ BeginTool(a) \/ OtherTool(a)
  \/ \E c \in Children : StartChild(a, c) \/ CancelChild(a, c)
  \/ \E S \in SUBSET Children : BeginWait(a, S)
  \/ EndWait(a) \/ AfterTool(a)
  \/ CloseChild(a) \/ FinishChild(a)

ShutdownStep ==
  ShutdownEvent \/ ShutdownTree \/ ShutdownExecutor \/ ShutdownPrompt

\* Every thread has come to its end.
Quiet ==
  /\ pc[Root] = "ended" /\ shutdown = "done" /\ \A c \in Children : ~Live(c)
  /\ UNCHANGED vars

Next ==
  \/ \E a \in Agents : AgentStep(a) \/ WaitTimeout(a)
  \/ BeginShutdown
  \/ ShutdownStep
  \/ Quiet

Spec == Init /\ [][Next]_vars

\* Threads run, and calls to the provider and to Tools return (each has a
\* timeout of its own).  Nothing makes the App close the Harness.
FairSpec ==
  /\ Spec
  /\ \A a \in Agents : WF_vars(AgentStep(a))
  /\ WF_vars(ShutdownStep)

\* The timeout of a wait passes too.
TimedSpec ==
  /\ Spec
  /\ \A a \in Agents : WF_vars(AgentStep(a) \/ WaitTimeout(a))
  /\ WF_vars(ShutdownStep)

-----------------------------------------------------------------------------
(* Properties.                                                             *)

\* Types of the variables, one conjunct each.
TypeOK ==
  /\ status \in [Agents -> Statuses]
  /\ parent \in [Agents -> Agents \cup {NoAgent}]
  /\ depth \in [Agents -> 0..MaxDepth]
  /\ cancelEvent \in [Agents -> BOOLEAN]
  /\ collected \in [Agents -> BOOLEAN]
  /\ openCount \in Nat
  /\ accepting \in BOOLEAN
  /\ pc \in [Agents -> PCs]
  /\ verdict \in [Agents -> Terminal \cup {"running"}]
  /\ DOMAIN seen = Agents
  /\ \A a \in Agents : DOMAIN seen[a] \subseteq Children
  /\ turns \in [Agents -> 0..MaxTurns]
  /\ lateCalls \in [Agents -> Nat]
  /\ registered \in BOOLEAN /\ closing \in BOOLEAN /\ promptClosed \in BOOLEAN
  /\ shutdown \in {"idle", "event", "tree", "executor", "prompt", "done"}

\* The open-slot count start_child reads is the number of records not yet
\* collected, and it never passes max_open_agents: no slot is lost by a failed
\* submission or given back twice by overlapping waits.
SlotAccounting ==
  /\ openCount = Cardinality(Open)
  /\ openCount <= MaxOpen

\* An Agent that has been closed leaves no descendant running unaware: each of
\* its children that has not ended was asked to cancel, although it could be
\* started up to the last moment of its parent's loop (start_child against
\* close_descendants), and a child started while the App thread closes the tree
\* is caught by its own parent.
HasClosed(a) == pc[a] \in {"stopping", "closed", "ended"}
OrphansCancelled ==
  \A c \in Children : (Live(c) /\ HasClosed(parent[c])) => cancelEvent[c]

\* Cancellation is prompt: from the moment the event is set, an Agent begins at
\* most one more provider, compaction or Tool call, whichever thread set it and
\* wherever the loop was.
CancellationIsPrompt == \A a \in Agents : lateCalls[a] <= 1

\* A cancelled Agent's completion is still an honest one: an Agent that was asked
\* to cancel before it made its last call does not report completion.
CancelledDoesNotComplete ==
  \A a \in Agents : (lateCalls[a] > 0 /\ pc[a] \in {"closed", "ended"}) =>
                        verdict[a] # "completed"

\* Cancelling an Agent takes effect: at the next call at the latest, and in what
\* the Agent then reports.
CancellationIsEffective == CancellationIsPrompt /\ CancelledDoesNotComplete

\* The tree implements the contract: a Subagent's stage is read off its record.
Contract == INSTANCE SubagentContract WITH
  Capacity <- MaxOpen,
  stage  <- [c \in Children |-> IF collected[c] THEN "collected"
                                ELSE IF status[c] \in Terminal THEN "ended"
                                ELSE status[c]],
  owner  <- [c \in Children |-> parent[c]],
  result <- [c \in Children |-> IF status[c] \in Terminal THEN status[c] ELSE "running"]

\* Every step of the tree is a step of SubagentContract, or changes nothing in it.
ImplementsContract == Contract!Spec

\* No step takes a permit from a thread that waits for its children, and the
\* workers suffice: with one permit for the whole tree, every Agent whose
\* conversation is finite ends, without a single wait having to time out.
AllEnded == pc[Root] = "ended" /\ \A c \in Children : ~Live(c)
EveryAgentEnds == <>[]AllEnded

\* Closing the Harness ends the tree, even one whose Agents would go on forever:
\* the root and every Subagent, those started meanwhile included.
ShutdownEndsTree == closing ~> AllEnded
=============================================================================
