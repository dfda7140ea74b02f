----------------------------- MODULE TaskLedger -----------------------------
(***************************************************************************)
(* The App-lifetime Ledger of an orchestrated run                          *)
(* (restscope/orchestration/ledger.py): the revisions of the plan, the     *)
(* Milestones they create and retire, the Tasks dispatched for them and    *)
(* the Attempt each Task ends with.                                        *)
(*                                                                         *)
(* An operation either raises ValueError, and then changes nothing, or     *)
(* makes its whole change; the predicate of the same name says when it is  *)
(* accepted.  Identities are positions: milestone_3 is milestones[3].      *)
(* Titles, objectives, criteria and reasons are opaque values: a Shape is  *)
(* the title, purpose and criteria of a Milestone, a Work the objective,   *)
(* purpose and criteria of a Task.                                         *)
(***************************************************************************)
EXTENDS Naturals, Sequences

CONSTANTS
  Shapes, Works, Reasons,
  NoReason,              \* retry_reason is None
  MaxRevisions,          \* bound: plan revisions
  MaxTasks,              \* bound: Tasks
  MaxPlan                \* bound: Milestones of one replan (the code allows 20)

ASSUME LedgerAssumption ==
  /\ NoReason \notin Reasons
  /\ MaxRevisions \in Nat /\ MaxTasks \in Nat /\ MaxPlan \in Nat \ {0}

VARIABLES
  planRevision, runStatus, planRevisions, milestones, tasks, attempts,
  activeTask             \* the position of the running Task, 0 for none

ledger == <<planRevision, runStatus, planRevisions, milestones, tasks, attempts,
            activeTask>>

Outcomes == {"completed", "partial", "blocked"}

LedgerInit ==
  /\ planRevision = 0
  /\ runStatus = "planning"
  /\ planRevisions = <<>>
  /\ milestones = <<>>
  /\ tasks = <<>>
  /\ attempts = <<>>
  /\ activeTask = 0

-----------------------------------------------------------------------------
(* Replanning.                                                             *)

Pending == {m \in DOMAIN milestones : milestones[m].status = "pending"}

IsPending(m) == m.status = "pending"
ShapeOf(m) == [shape |-> m.shape, supersedes |-> m.supersedes]

\* A Milestone proposal: its shape, and the Milestone it reopens (0 for none).
Proposals == [shape : Shapes, supersedes : 0..(MaxRevisions * MaxPlan + 1)]

\* The shapes of the pending Milestones, in order: future work as it stands.
CurrentShape ==
  LET pending == SelectSeq(milestones, IsPending)
  IN  [i \in DOMAIN pending |-> ShapeOf(pending[i])]

\* apply_replan.  completed is the decision's set of completed Milestones.
ReplanAccepted(expected, completed, plan) ==
  /\ expected = planRevision
  /\ activeTask = 0
  /\ plan # CurrentShape \/ completed # {}
  /\ completed \subseteq {m \in Pending : milestones[m].revision = planRevision}
  /\ \A i \in DOMAIN plan : plan[i].supersedes \in {0} \cup DOMAIN milestones

\* Mutant: what was not completed stays pending.
RetiredIfCompleted(m, completed) ==
  IF m \in completed THEN [milestones[m] EXCEPT !.status = "completed"]
                     ELSE milestones[m]

\* Mutant: Milestones that are no longer pending are retired again.
RetiredAgain(m, completed) ==
  [milestones[m] EXCEPT !.status = IF m \in completed THEN "completed" ELSE "superseded"]

Retired(m, completed) ==
  IF m \notin Pending THEN milestones[m]
  ELSE [milestones[m] EXCEPT !.status = IF m \in completed THEN "completed"
                                                           ELSE "superseded"]

ApplyReplan(expected, completed, plan) ==
  /\ ReplanAccepted(expected, completed, plan)
  /\ planRevision' = planRevision + 1
  /\ runStatus' = "running"
  /\ milestones' = [m \in DOMAIN milestones |-> Retired(m, completed)] \o
                   [i \in DOMAIN plan |-> [revision |-> planRevision + 1,
                                           shape |-> plan[i].shape,
                                           supersedes |-> plan[i].supersedes,
                                           status |-> "pending"]]
  /\ planRevisions' = Append(planRevisions,
       [completed |-> completed,
        superseded |-> Pending \ completed,
        created |-> (Len(milestones) + 1)..(Len(milestones) + Len(plan))])
  /\ UNCHANGED <<tasks, attempts, activeTask>>

-----------------------------------------------------------------------------
(* Dispatching a Task and recording how it ended.                          *)

FailedAttemptsOf(t) ==
  {a \in DOMAIN attempts : attempts[a].task = t /\ attempts[a].outcome = "failed"}

\* Mutant: a reason alone will do.
RetryWithReasonAlone(work, related, reason) ==
  \A t \in DOMAIN tasks :
    (tasks[t].status = "failed" /\ tasks[t].work = work) => reason # NoReason

\* _reject_unchanged_failed_retry
RetryJustified(work, related, reason) ==
  \A t \in DOMAIN tasks :
    (tasks[t].status = "failed" /\ tasks[t].work = work) =>
      reason # NoReason /\ FailedAttemptsOf(t) \cap related # {}

DispatchAccepted(expected, m, work, related, reason) ==
  /\ expected = planRevision
  /\ activeTask = 0
  /\ m \in Pending /\ milestones[m].revision = planRevision
  /\ related \subseteq DOMAIN attempts
  /\ RetryJustified(work, related, reason)

Dispatch(expected, m, work, related, reason) ==
  /\ DispatchAccepted(expected, m, work, related, reason)
  /\ tasks' = Append(tasks, [milestone |-> m, revision |-> planRevision, work |-> work,
                             related |-> related, reason |-> reason,
                             status |-> "running"])
  /\ activeTask' = Len(tasks) + 1
  /\ UNCHANGED <<planRevision, runStatus, planRevisions, milestones, attempts>>

\* The shared end of append_attempt and append_failure.
EndTask(t, outcome, allMet) ==
  /\ attempts' = Append(attempts, [task |-> t, revision |-> tasks[t].revision,
                                   outcome |-> outcome, allMet |-> allMet])
  /\ tasks' = [tasks EXCEPT ![t].status = outcome]
  /\ activeTask' = 0
  /\ UNCHANGED <<planRevision, runStatus, planRevisions, milestones>>

\* reported: every criterion of the Task exactly once; allMet: each of them met.
AttemptAccepted(t, outcome, reported, allMet) ==
  /\ t = activeTask /\ t # 0
  /\ reported
  /\ outcome = "completed" => allMet

AppendAttempt(t, outcome, reported, allMet) ==
  /\ AttemptAccepted(t, outcome, reported, allMet)
  /\ EndTask(t, outcome, allMet)

AppendFailure(t) ==
  /\ t = activeTask /\ t # 0
  /\ EndTask(t, "failed", FALSE)

\* complete: assessed says that every Goal criterion is assessed exactly once.
CompleteAccepted(expected, assessed) ==
  /\ expected = planRevision
  /\ planRevision # 0
  /\ activeTask = 0
  /\ assessed

Complete(expected, assessed) ==
  /\ CompleteAccepted(expected, assessed)
  /\ runStatus' = "completed"
  /\ UNCHANGED <<planRevision, planRevisions, milestones, tasks, attempts, activeTask>>

-----------------------------------------------------------------------------
Plans == UNION {[1..n -> Proposals] : n \in 1..MaxPlan}
Revisions == 0..MaxRevisions
TaskIds == 0..MaxTasks

\* Any caller, in any order, with any arguments.
LedgerNext ==
  \/ /\ planRevision < MaxRevisions
     /\ \E r \in Revisions, plan \in Plans : \E completed \in SUBSET DOMAIN milestones :
          ApplyReplan(r, completed, plan)
  \/ /\ Len(tasks) < MaxTasks
     /\ \E r \in Revisions, m \in DOMAIN milestones, w \in Works,
           related \in SUBSET DOMAIN attempts, reason \in Reasons \cup {NoReason} :
          Dispatch(r, m, w, related, reason)
  \/ \E t \in TaskIds, o \in Outcomes, reported, allMet \in BOOLEAN :
       AppendAttempt(t, o, reported, allMet)
  \/ \E t \in TaskIds : AppendFailure(t)
  \/ \E r \in Revisions, assessed \in BOOLEAN : Complete(r, assessed)

LedgerSpec == LedgerInit /\ [][LedgerNext]_ledger

-----------------------------------------------------------------------------
(* Properties.                                                             *)

Milestone ==
  [revision : Nat \ {0}, shape : Shapes, supersedes : Nat,
   status : {"pending", "completed", "superseded"}]
Task ==
  [milestone : Nat, revision : Nat \ {0}, work : Works, related : SUBSET Nat,
   reason : Reasons \cup {NoReason},
   status : Outcomes \cup {"running", "failed"}]
Attempt ==
  [task : Nat, revision : Nat \ {0}, outcome : Outcomes \cup {"failed"},
   allMet : BOOLEAN]
PlanRevision == [completed : SUBSET Nat, superseded : SUBSET Nat, created : SUBSET Nat]

\* Types of the Ledger's state.
TypeOK ==
  /\ planRevision \in Nat
  /\ runStatus \in {"planning", "running", "completed"}
  /\ planRevisions \in Seq(PlanRevision)
  /\ milestones \in Seq(Milestone)
  /\ tasks \in Seq(Task)
  /\ attempts \in Seq(Attempt)
  /\ activeTask \in Nat

\* One plan at a time: future work is only what the newest revision created, so
\* no Milestone of an earlier plan can still be dispatched or completed.
OnlyTheNewestPlanIsPending ==
  \A m \in Pending : milestones[m].revision = planRevision

\* The running Task, and no other, is the active one, and the plan it works for
\* cannot be replaced under it: its Milestone stays pending in the current plan.
ActiveTaskServesThePlan ==
  /\ \A t \in DOMAIN tasks : tasks[t].status = "running" <=> t = activeTask
  /\ activeTask # 0 =>
       /\ activeTask \in DOMAIN tasks
       /\ tasks[activeTask].milestone \in Pending
       /\ tasks[activeTask].revision = planRevision

\* Every Task that is no longer running ended in exactly one Attempt, which
\* carries the Task's outcome and the revision of the plan it was made for.
OneAttemptPerEndedTask ==
  /\ \A a \in DOMAIN attempts :
       /\ attempts[a].task \in DOMAIN tasks
       /\ attempts[a].outcome = tasks[attempts[a].task].status
       /\ attempts[a].revision = tasks[attempts[a].task].revision
  /\ \A t \in DOMAIN tasks : tasks[t].status # "running" =>
       \E a \in DOMAIN attempts : attempts[a].task = t
  /\ \A a, b \in DOMAIN attempts : attempts[a].task = attempts[b].task => a = b

\* A Task that repeats, unchanged, work that has failed before was dispatched
\* with a reason and with the failed Attempt of every earlier Task of that work.
RetriesAreJustified ==
  \A s, t \in DOMAIN tasks :
    (s < t /\ tasks[s].work = tasks[t].work /\ tasks[s].status = "failed") =>
      /\ tasks[t].reason # NoReason
      /\ FailedAttemptsOf(s) \cap tasks[t].related # {}

\* The plan revisions tell the whole history of the plan: each Milestone was
\* created by the revision it carries, and it left the pending ones by being
\* completed or superseded in exactly one later revision.
PlanHistoryIsComplete ==
  /\ Len(planRevisions) = planRevision
  /\ \A m \in DOMAIN milestones, r \in DOMAIN planRevisions :
       m \in planRevisions[r].created <=> milestones[m].revision = r
  /\ \A m \in DOMAIN milestones, r \in DOMAIN planRevisions :
       m \in planRevisions[r].completed => milestones[m].status = "completed"
  /\ \A m \in DOMAIN milestones, r \in DOMAIN planRevisions :
       m \in planRevisions[r].superseded => milestones[m].status = "superseded"
  /\ \A m \in DOMAIN milestones : milestones[m].status # "pending" =>
       \E r \in DOMAIN planRevisions :
         /\ m \in planRevisions[r].completed \cup planRevisions[r].superseded
         /\ \A q \in DOMAIN planRevisions :
              m \in planRevisions[q].completed \cup planRevisions[q].superseded => q = r

\* One plan, told by its revisions: what can still be dispatched or completed is
\* the newest revision's, the running Task serves it, and no Milestone is lost.
PlansAreSound ==
  OnlyTheNewestPlanIsPending /\ ActiveTaskServesThePlan /\ PlanHistoryIsComplete

\* One Attempt for each ended Task, and no silent repetition of failed work.
AttemptsAreSound == OneAttemptPerEndedTask /\ RetriesAreJustified

\* History is never rewritten: Attempts and plan revisions are only appended, a
\* Task changes only by ending, a Milestone only by ceasing to be pending.
IsPrefixOf(s, t) == Len(s) <= Len(t) /\ \A i \in DOMAIN s : t[i] = s[i]
HistoryStep ==
  /\ IsPrefixOf(attempts, attempts')
  /\ IsPrefixOf(planRevisions, planRevisions')
  /\ Len(tasks) <= Len(tasks') /\ \A t \in DOMAIN tasks :
       tasks'[t] # tasks[t] =>
         /\ tasks[t].status = "running"
         /\ tasks'[t] = [tasks[t] EXCEPT !.status = tasks'[t].status]
  /\ Len(milestones) <= Len(milestones') /\ \A m \in DOMAIN milestones :
       milestones'[m] # milestones[m] =>
         /\ milestones[m].status = "pending"
         /\ milestones'[m] = [milestones[m] EXCEPT !.status = milestones'[m].status]
HistoryIsImmutable == [][HistoryStep]_ledger
=============================================================================
