--------------------------- MODULE Orchestration ---------------------------
(***************************************************************************)
(* OrchestrationRuntime.run (restscope/orchestration/runtime.py): one      *)
(* thread asks an Orchestrator root for a decision, applies it to the      *)
(* Ledger, and for a dispatched Task runs a Task Executor root and records *)
(* its end, until the Orchestrator completes the Goal or an error ends the *)
(* run.  After every change it publishes the Ledger and the sessions to    *)
(* the observer.                                                           *)
(*                                                                         *)
(* A decision or a result reaches the runtime only after the Harness has   *)
(* validated it against the view the runtime gave the root                 *)
(* (orchestration/contracts.py); the Ledger then applies rules of its own. *)
(***************************************************************************)
EXTENDS TaskLedger

CONSTANT
  Recent                \* Attempts offered to the Orchestrator (20 in the code)

ASSUME RecentAssumption == Recent \in Nat \ {0}

\* A retry reason is any text that is not empty (models.py).
ASSUME ReasonsAssumption == Reasons # {}

VARIABLES
  pc,                   \* what the run is doing
  sessions,             \* _observed_sessions
  observed              \* the last observation published

vars == <<ledger, pc, sessions, observed>>

View == [revision |-> planRevision, status |-> runStatus, plans |-> planRevisions,
         milestones |-> milestones, tasks |-> tasks, attempts |-> attempts,
         sessions |-> sessions]

Init ==
  /\ LedgerInit
  /\ pc = "deciding"
  /\ sessions = <<>>
  /\ observed = View

\* _publish_observation.  What the observer does with it changes nothing here.
Publish == observed' = View'

RecordOrchestrator(task) ==
  sessions' = Append(sessions, [role |-> "orchestrator", task |-> task, attempt |-> 0])

RecordExecutor(task, attempt) ==
  sessions' = Append(sessions, [role |-> "task_executor", task |-> task,
                                attempt |-> attempt])

\* An error escapes run(): the Ledger stays as it is.
Abort ==
  /\ pc' = "aborted"
  /\ UNCHANGED <<ledger, sessions, observed>>

-----------------------------------------------------------------------------
(* What the Harness lets through (validate_orchestrator_output).           *)

\* Mutant: the window of Attempts misses the newest one.
OlderAttemptAliases == {a \in DOMAIN attempts : a + Recent >= Len(attempts)}
                          \ {Len(attempts)}

AttemptAliases == {a \in DOMAIN attempts : a + Recent > Len(attempts)}

\* Mutant: the view offers the Milestones that are no longer pending too.
AnyReplanOffered(completed) == completed \subseteq DOMAIN milestones

ReplanOffered(completed) == completed \subseteq Pending

\* The schema of these two kinds wants expected_plan_revision >= 1.
DispatchOffered(m, related) ==
  /\ planRevision >= 1
  /\ m \in Pending
  /\ related \subseteq AttemptAliases

-----------------------------------------------------------------------------
(* One turn of the Orchestrator.                                           *)

Replan(completed, plan) ==
  /\ pc = "deciding" /\ ReplanOffered(completed)
  /\ ApplyReplan(planRevision, completed, plan)
  /\ RecordOrchestrator(0)
  /\ Publish
  /\ UNCHANGED pc

RejectedReplan(completed, plan) ==
  /\ pc = "deciding" /\ ReplanOffered(completed)
  /\ ~ReplanAccepted(planRevision, completed, plan)
  /\ Abort

DispatchTask(m, work, related, reason) ==
  /\ pc = "deciding" /\ DispatchOffered(m, related)
  /\ Dispatch(planRevision, m, work, related, reason)
  /\ pc' = "executing"
  /\ RecordOrchestrator(Len(tasks'))
  /\ Publish

RejectedDispatch(m, work, related, reason) ==
  /\ pc = "deciding" /\ DispatchOffered(m, related)
  /\ ~DispatchAccepted(planRevision, m, work, related, reason)
  /\ Abort

CompleteRun ==
  /\ pc = "deciding" /\ planRevision >= 1
  /\ Complete(planRevision, TRUE)
  /\ pc' = "finished"
  /\ RecordOrchestrator(0)
  /\ Publish

\* The Orchestrator root fails, is cancelled, or its prompt cannot be built.
OrchestratorFails == pc = "deciding" /\ Abort

-----------------------------------------------------------------------------
(* One Task Executor.                                                      *)

\* validate_task_execution_output has accepted the result.
ExecutorReports(outcome, allMet) ==
  /\ pc = "executing"
  /\ outcome = "completed" => allMet
  /\ AppendAttempt(activeTask, outcome, TRUE, allMet)
  /\ pc' = "deciding"
  /\ RecordExecutor(activeTask, Len(attempts'))
  /\ Publish

\* The root ended without a completed result (_TaskExecutorLifecycleError).
ExecutorFails ==
  /\ pc = "executing"
  /\ AppendFailure(activeTask)
  /\ pc' = "deciding"
  /\ RecordExecutor(activeTask, Len(attempts'))
  /\ Publish

\* Mutant: the failure is recorded and not published.
ExecutorRaisesSilently ==
  /\ pc = "executing"
  /\ AppendFailure(activeTask)
  /\ pc' = "deciding"
  /\ UNCHANGED <<sessions, observed>>

\* Mutant: the error is swallowed and the Task left open.
ExecutorRaisesUnrecorded ==
  /\ pc = "executing"
  /\ pc' = "deciding"
  /\ UNCHANGED <<ledger, sessions, observed>>

\* The root, or the Harness before it, raised RuntimeError: no session is known.
ExecutorRaises ==
  /\ pc = "executing"
  /\ AppendFailure(activeTask)
  /\ pc' = "deciding"
  /\ UNCHANGED sessions
  /\ Publish

\* Any other exception, an interrupt included.
ExecutorAborts == pc = "executing" /\ Abort

-----------------------------------------------------------------------------
ExecutorStep ==
  \/ \E o \in Outcomes, allMet \in BOOLEAN : ExecutorReports(o, allMet)
  \/ ExecutorFails
  \/ ExecutorRaises
  \/ ExecutorAborts

OrchestratorStep ==
  \/ \E plan \in Plans, completed \in SUBSET DOMAIN milestones :
       \/ planRevision < MaxRevisions /\ Replan(completed, plan)
       \/ RejectedReplan(completed, plan)
  \/ \E m \in DOMAIN milestones, w \in Works, related \in SUBSET DOMAIN attempts,
        reason \in Reasons \cup {NoReason} :
       \/ Len(tasks) < MaxTasks /\ DispatchTask(m, w, related, reason)
       \/ RejectedDispatch(m, w, related, reason)
  \/ CompleteRun
  \/ OrchestratorFails

Next == OrchestratorStep \/ ExecutorStep

Spec == Init /\ [][Next]_vars

\* A Task Executor returns or raises: every provider and Tool call it makes has
\* a timeout, and the accepted end of its conversation is assumed.
FairSpec == Spec /\ WF_vars(ExecutorStep)

-----------------------------------------------------------------------------
(* Properties.                                                             *)

\* Types of the Ledger and of the variables the runtime adds.
RuntimeTypeOK ==
  /\ TypeOK
  /\ pc \in {"deciding", "executing", "finished", "aborted"}
  /\ sessions \in Seq([role : {"orchestrator", "task_executor"}, task : Nat, attempt : Nat])

\* The runtime calls the Ledger in order: a Task is active exactly while its
\* Executor runs (or was running when the run was aborted), and the run is over
\* exactly when the Ledger says it is completed.
RuntimeFollowsLedger ==
  /\ pc = "executing" => activeTask # 0
  /\ pc \in {"deciding", "finished"} => activeTask = 0
  /\ pc = "finished" <=> runStatus = "completed"

\* Whenever the runtime is waiting for a root, or is over, what the viewer was
\* last given is the whole current Ledger with the sessions recorded for it: no
\* path through the loop changes the Ledger and skips the publication.
ObserverIsCurrent == observed = View

\* Sessions and history agree: each Task was dispatched by exactly one recorded
\* Orchestrator session, an Executor session names a Task and the Attempt that
\* ended it, and no Attempt has two of them.
SessionsMatchHistory ==
  /\ \A t \in DOMAIN tasks : \E i \in DOMAIN sessions :
       /\ sessions[i].role = "orchestrator" /\ sessions[i].task = t
       /\ \A j \in DOMAIN sessions :
            sessions[j].role = "orchestrator" /\ sessions[j].task = t => j = i
  /\ \A i \in DOMAIN sessions : sessions[i].role = "task_executor" =>
       /\ sessions[i].attempt \in DOMAIN attempts
       /\ attempts[sessions[i].attempt].task = sessions[i].task
       /\ \A j \in DOMAIN sessions :
            sessions[j].role = "task_executor" /\ sessions[j].attempt = sessions[i].attempt
              => j = i

\* The three views of the run agree: the runtime's own place in the loop, the
\* Ledger, and the sessions and the observation given to the viewer.
RuntimeTracksLedger ==
  RuntimeFollowsLedger /\ ObserverIsCurrent /\ SessionsMatchHistory

\* The Harness and the Ledger leave the Orchestrator a way to repeat failed work:
\* while the Attempts of all its failed Tasks are among the Recent newest ones,
\* some decision the Harness lets through is accepted.  (Once one of them is
\* older, none is: the Ledger demands an Attempt the Harness no longer offers.)
FailedWork == {tasks[t].work : t \in {u \in DOMAIN tasks : tasks[u].status = "failed"}}
InView(work) ==
  \A a \in DOMAIN attempts :
    (attempts[a].outcome = "failed" /\ tasks[attempts[a].task].work = work) =>
      Len(attempts) - a < Recent
FailedWorkCanBeRetried ==
  \A work \in FailedWork, m \in Pending :
    (pc = "deciding" /\ InView(work)) =>
      \E related \in SUBSET DOMAIN attempts, reason \in Reasons :
        /\ DispatchOffered(m, related)
        /\ DispatchAccepted(planRevision, m, work, related, reason)

\* A rejection by the Ledger ends the whole run, and with it the work of all its
\* Tasks.  The Harness checks answers against a view made for the root, the Ledger
\* against its own state and its own rules.  What a checked answer is rejected for
\* is only what the root could have known: a plan that changes nothing or reopens a
\* Milestone that never was, and failed work repeated without cause.  Nothing in the
\* view is stale, no Task is left open behind the Orchestrator's back, a Task
\* Executor's checked result is never refused, and every planned run can be completed.
ChangesThePlan(completed, plan) == completed # {} \/ plan # CurrentShape
ReopensNothingUnknown(plan) == \A i \in DOMAIN plan : plan[i].supersedes <= Len(milestones)
OrchestratorIsHeard ==
  /\ \A plan \in Plans, completed \in SUBSET DOMAIN milestones :
       ReplanOffered(completed) /\ ChangesThePlan(completed, plan) /\ ReopensNothingUnknown(plan)
         => ReplanAccepted(planRevision, completed, plan)
  /\ \A m \in DOMAIN milestones, work \in Works \ FailedWork,
        related \in SUBSET DOMAIN attempts, reason \in Reasons \cup {NoReason} :
       DispatchOffered(m, related) => DispatchAccepted(planRevision, m, work, related, reason)
  /\ planRevision >= 1 => CompleteAccepted(planRevision, TRUE)
ExecutorIsHeard ==
  \A outcome \in Outcomes, allMet \in BOOLEAN :
    (outcome = "completed" => allMet) => AttemptAccepted(activeTask, outcome, TRUE, allMet)
CheckedAnswersStand ==
  /\ pc = "deciding" => OrchestratorIsHeard
  /\ pc = "executing" => ExecutorIsHeard

\* A dispatched Task does not stay open: it ends in an Attempt, or the run ends.
EveryTaskIsAnswered ==
  \A t \in 1..MaxTasks :
    (activeTask = t) ~> (pc = "aborted" \/ \E a \in DOMAIN attempts : attempts[a].task = t)
=============================================================================
