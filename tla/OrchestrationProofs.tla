-------------------------- MODULE OrchestrationProofs --------------------------
(***************************************************************************)
(* What holds of the Ledger for any number of revisions, Milestones, Tasks *)
(* and Attempts; that all of it holds of every run of the orchestration    *)
(* loop; that the runtime, the Ledger and the observer never disagree; and *)
(* that the Ledger refuses no checked answer for a reason the answering    *)
(* Agent could not know.  Proved with TLAPS.                               *)
(***************************************************************************)
EXTENDS Orchestration, SequenceTheorems, TLAPS

-----------------------------------------------------------------------------
(* The inductive invariant of the Ledger.                                  *)

\* The history of the plan refers to Milestones that exist, and no Milestone is
\* of a plan still to come: what keeps a new revision apart from the old ones.
HistoryIsBounded ==
  /\ \A m \in DOMAIN milestones : milestones[m].revision <= planRevision
  /\ \A r \in DOMAIN planRevisions :
       /\ planRevisions[r].created \subseteq DOMAIN milestones
       /\ planRevisions[r].completed \subseteq DOMAIN milestones
       /\ planRevisions[r].superseded \subseteq DOMAIN milestones

\* The active Task is the last one dispatched.
ActiveTaskIsLast == activeTask # 0 => activeTask = Len(tasks)

PlanInv ==
  /\ TypeOK
  /\ OnlyTheNewestPlanIsPending
  /\ HistoryIsBounded
  /\ PlanHistoryIsComplete

TaskInv ==
  /\ ActiveTaskIsLast
  /\ ActiveTaskServesThePlan
  /\ OneAttemptPerEndedTask
  /\ RetriesAreJustified

LedgerInv == PlanInv /\ TaskInv

-----------------------------------------------------------------------------
(* Lemmas.                                                                 *)

\* A plan is a sequence of proposals.
LEMMA PlanIsSequence ==
  ASSUME NEW plan \in Plans
  PROVE  /\ plan \in Seq(Proposals)
         /\ DOMAIN plan = 1..Len(plan)
         /\ Len(plan) \in Nat
PROOF
<1>1. PICK n \in 1..MaxPlan : plan \in [1..n -> Proposals]
  BY DEF Plans
<1>2. n \in Nat
  BY <1>1, LedgerAssumption
<1> QED
  BY <1>1, <1>2

\* The Milestones after a replan: the old ones, retired where they were pending,
\* followed by the new ones, which are pending and of the new revision.
LEMMA ReplanMilestones ==
  ASSUME TypeOK,
         NEW expected, NEW completed, NEW plan \in Plans,
         ApplyReplan(expected, completed, plan)
  PROVE  /\ milestones' \in Seq(Milestone)
         /\ Len(milestones') = Len(milestones) + Len(plan)
         /\ \A m \in DOMAIN milestones : milestones'[m] = Retired(m, completed)
         /\ \A m \in (Len(milestones) + 1)..(Len(milestones) + Len(plan)) :
              milestones'[m].revision = planRevision + 1 /\ milestones'[m].status = "pending"
PROOF
<1> DEFINE old == [m \in DOMAIN milestones |-> Retired(m, completed)]
           new == [i \in DOMAIN plan |-> [revision |-> planRevision + 1,
                                          shape |-> plan[i].shape,
                                          supersedes |-> plan[i].supersedes,
                                          status |-> "pending"]]
<1>1. milestones \in Seq(Milestone) /\ planRevision \in Nat
  BY DEF TypeOK
<1>2. plan \in Seq(Proposals) /\ DOMAIN plan = 1..Len(plan) /\ Len(plan) \in Nat
  BY PlanIsSequence
<1>3. DOMAIN milestones = 1..Len(milestones) /\ Len(milestones) \in Nat
  BY <1>1
<1>4. \A m \in DOMAIN milestones : Retired(m, completed) \in Milestone
  <2>1. ASSUME NEW m \in DOMAIN milestones
        PROVE  Retired(m, completed) \in Milestone
    <3>1. milestones[m] \in Milestone
      BY <1>1
    <3>2. ASSUME NEW st \in {"completed", "superseded"}
          PROVE  [milestones[m] EXCEPT !.status = st] \in Milestone
      BY <3>1 DEF Milestone
    <3> QED
      BY <3>1, <3>2 DEF Retired
  <2> QED
    BY <2>1
<1>5. old \in Seq(Milestone) /\ Len(old) = Len(milestones)
  <2>1. old \in [1..Len(milestones) -> Milestone]
    BY <1>3, <1>4
  <2> QED
    BY <2>1, <1>3
<1>6. new \in Seq(Milestone) /\ Len(new) = Len(plan)
  <2>1. ASSUME NEW i \in DOMAIN plan
        PROVE  plan[i].shape \in Shapes /\ plan[i].supersedes \in Nat
    <3>1. plan[i] \in Proposals
      BY <1>2
    <3> QED
      BY <3>1, LedgerAssumption DEF Proposals
  <2>2. new \in [1..Len(plan) -> Milestone]
    BY <1>1, <1>2, <2>1 DEF Milestone
  <2> QED
    BY <2>2, <1>2
<1>7. milestones' = old \o new
  BY DEF ApplyReplan
<1> HIDE DEF old, new
<1>8. milestones' \in Seq(Milestone) /\ Len(milestones') = Len(milestones) + Len(plan)
  <2>1. old \o new \in Seq(Milestone)
    BY <1>5, <1>6, ConcatProperties
  <2>2. Len(old \o new) = Len(old) + Len(new)
    BY <1>5, <1>6, ConcatProperties
  <2> QED
    BY <2>1, <2>2, <1>5, <1>6, <1>7
<1>9. ASSUME NEW m \in DOMAIN milestones
      PROVE  milestones'[m] = Retired(m, completed)
  <2>1. (old \o new)[m] = old[m]
    BY <1>3, <1>5, <1>6
  <2> QED
    BY <2>1, <1>7 DEF old
<1>10. ASSUME NEW m \in (Len(milestones) + 1)..(Len(milestones) + Len(plan))
       PROVE  milestones'[m].revision = planRevision + 1 /\ milestones'[m].status = "pending"
  <2>1. (old \o new)[m] = new[m - Len(old)]
    BY <1>3, <1>2, <1>5, <1>6
  <2>2. m - Len(old) \in DOMAIN plan
    BY <1>2, <1>3, <1>5
  <2> QED
    BY <2>1, <2>2, <1>7 DEF new
<1> QED
  BY <1>8, <1>9, <1>10

\* No Milestone is pending any more after a replan but the new ones.
LEMMA ReplanPending ==
  ASSUME TypeOK,
         NEW expected, NEW completed, NEW plan \in Plans,
         ApplyReplan(expected, completed, plan)
  PROVE  \A m \in DOMAIN milestones' :
           milestones'[m].status = "pending" => m > Len(milestones)
PROOF
<1>1. SUFFICES ASSUME NEW m \in DOMAIN milestones
               PROVE  milestones'[m].status # "pending"
  <2>1. Len(milestones) \in Nat /\ DOMAIN milestones = 1..Len(milestones)
    BY DEF TypeOK
  <2>2. Len(milestones') \in Nat /\ DOMAIN milestones' = 1..Len(milestones')
    BY ReplanMilestones
  <2> QED
    BY <2>1, <2>2
<1>2. milestones'[m] = Retired(m, completed)
  BY ReplanMilestones
<1>3. milestones[m] \in Milestone
  BY DEF TypeOK
<1>4. CASE m \in Pending
  BY <1>2, <1>3, <1>4 DEF Retired, Milestone
<1>5. CASE m \notin Pending
  BY <1>2, <1>5 DEF Retired, Pending
<1> QED
  BY <1>4, <1>5

-----------------------------------------------------------------------------
(* The steps.                                                              *)

LEMMA InitInv == LedgerInit => LedgerInv
PROOF
<1> SUFFICES ASSUME LedgerInit PROVE LedgerInv
  OBVIOUS
<1> USE DEF LedgerInit
<1>1. TypeOK
  BY DEF TypeOK
<1>2. OnlyTheNewestPlanIsPending /\ HistoryIsBounded
  BY DEF OnlyTheNewestPlanIsPending, HistoryIsBounded, Pending
<1>3. PlanHistoryIsComplete
  BY DEF PlanHistoryIsComplete
<1>4. TaskInv
  BY DEF TaskInv, ActiveTaskIsLast, ActiveTaskServesThePlan, OneAttemptPerEndedTask,
         RetriesAreJustified
<1> QED
  BY <1>1, <1>2, <1>3, <1>4 DEF LedgerInv, PlanInv

\* A replan keeps the invariant: it retires exactly the pending Milestones, enters
\* them in the new revision, and finds no Task running.
LEMMA ReplanInv ==
  ASSUME LedgerInv,
         NEW expected, NEW completed, NEW plan \in Plans,
         ApplyReplan(expected, completed, plan)
  PROVE  LedgerInv'
PROOF
<1> DEFINE L == Len(milestones)
           entry == [completed |-> completed, superseded |-> Pending \ completed,
                     created |-> (L + 1)..(L + Len(plan))]
<1>1. /\ TypeOK /\ L \in Nat /\ DOMAIN milestones = 1..L
      /\ planRevision \in Nat /\ Len(planRevisions) = planRevision
      /\ DOMAIN planRevisions = 1..planRevision
  BY DEF LedgerInv, PlanInv, TypeOK, PlanHistoryIsComplete
<1>2. Len(plan) \in Nat
  BY PlanIsSequence
<1>3. /\ milestones' \in Seq(Milestone)
      /\ Len(milestones') = L + Len(plan)
      /\ DOMAIN milestones' = 1..(L + Len(plan))
  BY <1>1, ReplanMilestones
<1>4. ASSUME NEW m \in 1..L
      PROVE  milestones'[m] = Retired(m, completed)
  BY <1>1, ReplanMilestones
<1>5. ASSUME NEW m \in (L + 1)..(L + Len(plan))
      PROVE  milestones'[m].revision = planRevision + 1 /\ milestones'[m].status = "pending"
  BY <1>1, ReplanMilestones
<1>6. \A m \in DOMAIN milestones' : milestones'[m].status = "pending" => m > L
  BY <1>1, ReplanPending
<1>7. completed \subseteq Pending /\ Pending \subseteq 1..L
  BY <1>1 DEF ApplyReplan, ReplanAccepted, Pending
<1>8. ASSUME NEW m \in 1..L
      PROVE  milestones'[m].revision = milestones[m].revision
  <2>1. milestones[m] \in Milestone
    BY <1>1 DEF TypeOK
  <2> QED
    BY <1>4, <2>1 DEF Retired, Milestone
<1>9. planRevisions' = Append(planRevisions, entry) /\ planRevision' = planRevision + 1
  BY DEF ApplyReplan
<1>10. entry \in PlanRevision
  BY <1>1, <1>2, <1>7 DEF PlanRevision
<1> HIDE DEF entry
<1>11. /\ planRevisions' \in Seq(PlanRevision)
       /\ Len(planRevisions') = planRevision + 1
       /\ DOMAIN planRevisions' = 1..(planRevision + 1)
       /\ \A r \in 1..planRevision : planRevisions'[r] = planRevisions[r]
       /\ planRevisions'[planRevision + 1] = entry
  <2>1. planRevisions \in Seq(PlanRevision)
    BY <1>1 DEF TypeOK
  <2> QED
    BY <2>1, <1>1, <1>9, <1>10
<1>12. activeTask = 0 /\ UNCHANGED <<tasks, attempts, activeTask>>
  BY DEF ApplyReplan, ReplanAccepted
<1>13. TypeOK'
  BY <1>1, <1>3, <1>9, <1>11, <1>12 DEF TypeOK, ApplyReplan
<1>14. OnlyTheNewestPlanIsPending'
  BY <1>1, <1>2, <1>3, <1>5, <1>6, <1>9 DEF OnlyTheNewestPlanIsPending, Pending
<1>15. HistoryIsBounded'
  <2>1. \A m \in DOMAIN milestones' : milestones'[m].revision <= planRevision'
    <3>1. \A m \in 1..L : milestones[m].revision <= planRevision /\ milestones[m].revision \in Nat
      <4>1. \A m \in 1..L : milestones[m] \in Milestone
        BY <1>1 DEF TypeOK
      <4>2. \A m \in 1..L : milestones[m].revision <= planRevision
        BY <1>1 DEF LedgerInv, PlanInv, HistoryIsBounded
      <4> QED
        BY <4>1, <4>2 DEF Milestone
    <3> QED
      BY <3>1, <1>1, <1>2, <1>3, <1>5, <1>8, <1>9
  <2>2. \A r \in 1..planRevision :
           /\ planRevisions[r].created \subseteq 1..L
           /\ planRevisions[r].completed \subseteq 1..L
           /\ planRevisions[r].superseded \subseteq 1..L
    BY <1>1 DEF LedgerInv, PlanInv, HistoryIsBounded
  <2>3. /\ entry.created \subseteq 1..(L + Len(plan))
        /\ entry.completed \subseteq 1..(L + Len(plan))
        /\ entry.superseded \subseteq 1..(L + Len(plan))
    BY <1>1, <1>2, <1>7 DEF entry
  <2>4. 1..L \subseteq 1..(L + Len(plan))
    BY <1>1, <1>2
  <2>5. ASSUME NEW r \in DOMAIN planRevisions'
        PROVE  /\ planRevisions'[r].created \subseteq DOMAIN milestones'
               /\ planRevisions'[r].completed \subseteq DOMAIN milestones'
               /\ planRevisions'[r].superseded \subseteq DOMAIN milestones'
    <3>1. r \in 1..planRevision \/ r = planRevision + 1
      BY <1>1, <1>11
    <3> QED
      BY <3>1, <1>3, <1>11, <2>2, <2>3, <2>4
  <2> QED
    BY <2>1, <2>5 DEF HistoryIsBounded
<1>16. PlanHistoryIsComplete'
  <2>1. /\ \A m \in 1..L, r \in 1..planRevision :
             m \in planRevisions[r].created <=> milestones[m].revision = r
        /\ \A m \in 1..L, r \in 1..planRevision :
             m \in planRevisions[r].completed => milestones[m].status = "completed"
        /\ \A m \in 1..L, r \in 1..planRevision :
             m \in planRevisions[r].superseded => milestones[m].status = "superseded"
        /\ \A m \in 1..L : milestones[m].status # "pending" =>
             \E r \in 1..planRevision :
               /\ m \in planRevisions[r].completed \cup planRevisions[r].superseded
               /\ \A q \in 1..planRevision :
                    m \in planRevisions[q].completed \cup planRevisions[q].superseded => q = r
    BY <1>1 DEF LedgerInv, PlanInv, PlanHistoryIsComplete
  <2>2. \A r \in 1..planRevision :
           /\ planRevisions[r].created \subseteq 1..L
           /\ planRevisions[r].completed \subseteq 1..L
           /\ planRevisions[r].superseded \subseteq 1..L
    BY <1>1 DEF LedgerInv, PlanInv, HistoryIsBounded
  <2>3. \A m \in 1..L : milestones[m] \in Milestone /\ milestones[m].revision <= planRevision
    <3>1. \A m \in 1..L : milestones[m] \in Milestone
      BY <1>1 DEF TypeOK
    <3>2. \A m \in 1..L : milestones[m].revision <= planRevision
      BY <1>1 DEF LedgerInv, PlanInv, HistoryIsBounded
    <3> QED
      BY <3>1, <3>2
  <2>4. \A m \in 1..L : m \notin Pending => milestones'[m].status = milestones[m].status
    BY <1>4 DEF Retired
  <2>5. \A m \in 1..L : m \in Pending => milestones[m].status = "pending"
    BY DEF Pending
  <2>6. \A m \in 1..L : m \in Pending =>
           milestones'[m].status = IF m \in completed THEN "completed" ELSE "superseded"
    <3>1. ASSUME NEW m \in 1..L, m \in Pending
          PROVE  milestones'[m].status =
                   IF m \in completed THEN "completed" ELSE "superseded"
      <4>1. milestones[m] \in Milestone
        BY <2>3
      <4>2. milestones'[m] = [milestones[m] EXCEPT !.status =
                               IF m \in completed THEN "completed" ELSE "superseded"]
        BY <3>1, <1>4 DEF Retired
      <4> QED
        BY <4>1, <4>2 DEF Milestone
    <3> QED
      BY <3>1
  <2>7. entry.completed = completed /\ entry.superseded = Pending \ completed
        /\ entry.created = (L + 1)..(L + Len(plan))
    BY DEF entry
  <2>8. ASSUME NEW m \in 1..(L + Len(plan)), NEW r \in 1..(planRevision + 1)
        PROVE  m \in planRevisions'[r].created <=> milestones'[m].revision = r
    <3>1. CASE m <= L /\ r <= planRevision
      <4>1. m \in 1..L /\ r \in 1..planRevision
        BY <3>1, <1>1, <1>2
      <4> QED
        BY <4>1, <2>1, <1>8, <1>11
    <3>2. CASE m <= L /\ r > planRevision
      <4>1. m \in 1..L /\ r = planRevision + 1
        BY <3>2, <1>1, <1>2
      <4>2. m \notin entry.created
        BY <4>1, <2>7, <1>1
      <4>3. milestones'[m].revision # r
        BY <4>1, <1>8, <2>3, <1>1 DEF Milestone
      <4> QED
        BY <4>1, <4>2, <4>3, <1>11
    <3>3. CASE m > L
      <4>1. m \in (L + 1)..(L + Len(plan)) /\ m \notin 1..L
        BY <3>3, <1>1, <1>2
      <4>2. milestones'[m].revision = planRevision + 1
        BY <4>1, <1>5
      <4>3. CASE r <= planRevision
        <5>1. r \in 1..planRevision
          BY <4>3, <1>1
        <5>2. m \notin planRevisions'[r].created
          BY <5>1, <4>1, <2>2, <1>11
        <5> QED
          BY <5>2, <4>2, <4>3, <1>1
      <4>4. CASE r > planRevision
        <5>1. r = planRevision + 1
          BY <4>4, <1>1
        <5> QED
          BY <5>1, <4>1, <4>2, <2>7, <1>11
      <4> QED
        BY <4>3, <4>4, <1>1
    <3> QED
      BY <3>1, <3>2, <3>3, <1>1, <1>2
  <2>9. ASSUME NEW m \in 1..(L + Len(plan)), NEW r \in 1..(planRevision + 1)
        PROVE  /\ m \in planRevisions'[r].completed => milestones'[m].status = "completed"
               /\ m \in planRevisions'[r].superseded => milestones'[m].status = "superseded"
    <3>1. CASE r \in 1..planRevision
      <4>1. planRevisions'[r] = planRevisions[r]
        BY <3>1, <1>11
      <4>2. ASSUME m \in planRevisions[r].completed \cup planRevisions[r].superseded
            PROVE  m \in 1..L /\ m \notin Pending
        BY <4>2, <3>1, <2>1, <2>2, <2>5
      <4> QED
        BY <3>1, <4>1, <4>2, <2>1, <2>4
    <3>2. CASE r = planRevision + 1
      BY <3>2, <1>7, <1>11, <2>6, <2>7
    <3> QED
      BY <3>1, <3>2, <1>1
  <2>10. ASSUME NEW m \in 1..(L + Len(plan)), milestones'[m].status # "pending"
         PROVE  \E r \in 1..(planRevision + 1) :
                  /\ m \in planRevisions'[r].completed \cup planRevisions'[r].superseded
                  /\ \A q \in 1..(planRevision + 1) :
                       m \in planRevisions'[q].completed \cup planRevisions'[q].superseded => q = r
    <3>1. m \in 1..L
      BY <2>10, <1>1, <1>2, <1>5
    <3>2. \A q \in 1..(planRevision + 1) : q \in 1..planRevision \/ q = planRevision + 1
      BY <1>1
    <3>3. CASE m \in Pending
      <4>1. m \in entry.completed \cup entry.superseded
        BY <3>3, <2>7
      <4>2. \A q \in 1..planRevision :
               m \notin planRevisions[q].completed \cup planRevisions[q].superseded
        BY <3>1, <3>3, <2>1, <2>5
      <4>3. planRevision + 1 \in 1..(planRevision + 1)
        BY <1>1
      <4> QED
        BY <4>1, <4>2, <4>3, <3>2, <1>11
    <3>4. CASE m \notin Pending
      <4>1. milestones[m].status # "pending"
        BY <2>10, <3>1, <3>4, <2>4
      <4>2. PICK r \in 1..planRevision :
               /\ m \in planRevisions[r].completed \cup planRevisions[r].superseded
               /\ \A q \in 1..planRevision :
                    m \in planRevisions[q].completed \cup planRevisions[q].superseded => q = r
        BY <3>1, <4>1, <2>1
      <4>3. m \notin entry.completed \cup entry.superseded
        BY <3>4, <2>7, <1>7
      <4>4. r \in 1..(planRevision + 1)
        BY <1>1
      <4>5. m \in planRevisions'[r].completed \cup planRevisions'[r].superseded
        BY <4>2, <1>11
      <4>6. ASSUME NEW q \in 1..(planRevision + 1),
                   m \in planRevisions'[q].completed \cup planRevisions'[q].superseded
            PROVE  q = r
        BY <4>2, <4>3, <4>6, <3>2, <1>11
      <4> QED
        BY <4>4, <4>5, <4>6
    <3> QED
      BY <3>3, <3>4
  <2>11. /\ DOMAIN milestones' = 1..(L + Len(plan))
         /\ DOMAIN planRevisions' = 1..(planRevision + 1)
         /\ Len(planRevisions') = planRevision'
    BY <1>3, <1>9, <1>11
  <2> DEFINE M == DOMAIN milestones'
             R == DOMAIN planRevisions'
  <2>12. \A m \in M, r \in R :
           m \in planRevisions'[r].created <=> milestones'[m].revision = r
    BY <2>8, <2>11
  <2>13. \A m \in M, r \in R :
           m \in planRevisions'[r].completed => milestones'[m].status = "completed"
    BY <2>9, <2>11
  <2>14. \A m \in M, r \in R :
           m \in planRevisions'[r].superseded => milestones'[m].status = "superseded"
    BY <2>9, <2>11
  <2>15. \A m \in M : milestones'[m].status # "pending" =>
           \E r \in R :
             /\ m \in planRevisions'[r].completed \cup planRevisions'[r].superseded
             /\ \A q \in R :
                  m \in planRevisions'[q].completed \cup planRevisions'[q].superseded => q = r
    BY <2>10, <2>11
  <2> QED
    BY <2>11, <2>12, <2>13, <2>14, <2>15 DEF PlanHistoryIsComplete
<1>17. TaskInv'
  BY <1>12 DEF LedgerInv, TaskInv, ActiveTaskIsLast, ActiveTaskServesThePlan,
               OneAttemptPerEndedTask, RetriesAreJustified, FailedAttemptsOf
<1> QED
  BY <1>13, <1>14, <1>15, <1>16, <1>17 DEF LedgerInv, PlanInv

\* What is said of the plan depends on the plan's variables only.
LEMMA PlanUnchanged ==
  ASSUME LedgerInv, UNCHANGED <<planRevision, planRevisions, milestones>>
  PROVE  OnlyTheNewestPlanIsPending' /\ HistoryIsBounded' /\ PlanHistoryIsComplete'
PROOF
<1>1. OnlyTheNewestPlanIsPending /\ HistoryIsBounded /\ PlanHistoryIsComplete
  BY DEF LedgerInv, PlanInv
<1>2. OnlyTheNewestPlanIsPending'
  BY <1>1 DEF OnlyTheNewestPlanIsPending, Pending
<1>3. HistoryIsBounded'
  BY <1>1 DEF HistoryIsBounded
<1>4. PlanHistoryIsComplete'
  BY <1>1 DEF PlanHistoryIsComplete
<1> QED
  BY <1>2, <1>3, <1>4

\* A dispatch keeps the invariant: the new Task is the last and the only running
\* one, and what it repeats was checked against every failed Task before it.
LEMMA DispatchInv ==
  ASSUME LedgerInv,
         NEW expected, NEW m, NEW work \in Works, NEW related,
         NEW reason \in Reasons \cup {NoReason},
         Dispatch(expected, m, work, related, reason)
  PROVE  LedgerInv'
PROOF
<1> DEFINE T == Len(tasks)
           task == [milestone |-> m, revision |-> planRevision, work |-> work,
                    related |-> related, reason |-> reason, status |-> "running"]
<1>1. /\ TypeOK /\ tasks \in Seq(Task) /\ T \in Nat /\ DOMAIN tasks = 1..T
      /\ attempts \in Seq(Attempt)
  BY DEF LedgerInv, PlanInv, TypeOK
<1>2. /\ activeTask = 0 /\ activeTask' = T + 1
      /\ UNCHANGED <<planRevision, runStatus, planRevisions, milestones, attempts>>
      /\ tasks' = Append(tasks, task)
      /\ m \in Pending /\ milestones[m].revision = planRevision
      /\ related \subseteq DOMAIN attempts
      /\ RetryJustified(work, related, reason)
  BY DEF Dispatch, DispatchAccepted
<1>3. task \in Task
  <2>1. m \in DOMAIN milestones /\ milestones[m] \in Milestone
    BY <1>1, <1>2 DEF Pending, TypeOK
  <2>2. m \in Nat /\ planRevision \in Nat \ {0}
    BY <2>1, <1>1, <1>2 DEF TypeOK, Milestone
  <2>3. related \subseteq Nat
    BY <1>1, <1>2
  <2> QED
    BY <2>2, <2>3 DEF Task
<1>4. task.status = "running" /\ task.milestone = m /\ task.revision = planRevision
      /\ task.work = work /\ task.reason = reason /\ task.related = related
  OBVIOUS
<1> HIDE DEF task
<1>5. /\ tasks' \in Seq(Task) /\ Len(tasks') = T + 1 /\ DOMAIN tasks' = 1..(T + 1)
      /\ \A t \in 1..T : tasks'[t] = tasks[t]
      /\ tasks'[T + 1] = task
  BY <1>1, <1>2, <1>3
<1>6. TypeOK'
  BY <1>1, <1>2, <1>5 DEF TypeOK
<1>7. ActiveTaskIsLast'
  BY <1>2, <1>5 DEF ActiveTaskIsLast
<1>8. \A t \in 1..(T + 1) : t \in 1..T \/ t = T + 1
  BY <1>1
<1>9. \A t \in 1..T : tasks[t].status # "running"
  BY <1>1, <1>2 DEF LedgerInv, TaskInv, ActiveTaskServesThePlan
<1>10. ActiveTaskServesThePlan'
  <2>1. \A t \in DOMAIN tasks' : tasks'[t].status = "running" <=> t = activeTask'
    <3>1. ASSUME NEW t \in 1..T
          PROVE  tasks'[t].status # "running" /\ t # T + 1
      BY <1>1, <1>5, <1>9
    <3>2. T + 1 = activeTask' /\ tasks'[T + 1].status = "running"
      BY <1>2, <1>4, <1>5
    <3> QED
      BY <3>1, <3>2, <1>2, <1>5, <1>8
  <2>2. activeTask' \in DOMAIN tasks'
    BY <1>1, <1>2, <1>5
  <2>3. tasks'[activeTask'].milestone \in Pending'
    BY <1>2, <1>4, <1>5 DEF Pending
  <2>4. tasks'[activeTask'].revision = planRevision'
    BY <1>2, <1>4, <1>5
  <2> QED
    BY <2>1, <2>2, <2>3, <2>4 DEF ActiveTaskServesThePlan
<1>11. OneAttemptPerEndedTask'
  <2>1. OneAttemptPerEndedTask
    BY DEF LedgerInv, TaskInv
  <2>2. \A a \in DOMAIN attempts : attempts[a].task \in 1..T
    BY <2>1, <1>1 DEF OneAttemptPerEndedTask
  <2>3. \A a \in DOMAIN attempts :
           /\ attempts[a].task \in DOMAIN tasks'
           /\ attempts[a].outcome = tasks'[attempts[a].task].status
           /\ attempts[a].revision = tasks'[attempts[a].task].revision
    BY <2>1, <2>2, <1>1, <1>5 DEF OneAttemptPerEndedTask
  <2>4. \A t \in DOMAIN tasks' : tasks'[t].status # "running" =>
           \E a \in DOMAIN attempts : attempts[a].task = t
    BY <2>1, <1>1, <1>4, <1>5, <1>8 DEF OneAttemptPerEndedTask
  <2> QED
    BY <2>1, <2>3, <2>4, <1>2 DEF OneAttemptPerEndedTask
<1>12. RetriesAreJustified'
  <2>1. SUFFICES ASSUME NEW s \in DOMAIN tasks', NEW t \in DOMAIN tasks',
                        s < t, tasks'[s].work = tasks'[t].work,
                        tasks'[s].status = "failed"
                 PROVE  /\ tasks'[t].reason # NoReason
                        /\ FailedAttemptsOf(s) \cap tasks'[t].related # {}
    BY <1>2 DEF RetriesAreJustified, FailedAttemptsOf
  <2>2. s \in 1..T /\ tasks'[s] = tasks[s]
    BY <2>1, <1>1, <1>5
  <2>3. CASE t \in 1..T
    BY <2>1, <2>2, <2>3, <1>1, <1>5 DEF LedgerInv, TaskInv, RetriesAreJustified
  <2>4. CASE t = T + 1
    BY <2>1, <2>2, <2>4, <1>1, <1>2, <1>4, <1>5 DEF RetryJustified
  <2> QED
    BY <2>3, <2>4, <1>5, <1>8
<1> QED
  BY <1>2, <1>6, <1>7, <1>10, <1>11, <1>12, PlanUnchanged DEF LedgerInv, PlanInv, TaskInv

\* The end of the active Task keeps the invariant: the Attempt appended is the
\* first of its Task, and no later Task was dispatched while it ran.
LEMMA EndTaskInv ==
  ASSUME LedgerInv, activeTask # 0,
         NEW outcome \in Outcomes \cup {"failed"}, NEW allMet \in BOOLEAN,
         EndTask(activeTask, outcome, allMet)
  PROVE  LedgerInv'
PROOF
<1> DEFINE T == Len(tasks)
           A == Len(attempts)
           attempt == [task |-> activeTask, revision |-> tasks[activeTask].revision,
                       outcome |-> outcome, allMet |-> allMet]
<1>1. /\ TypeOK /\ tasks \in Seq(Task) /\ T \in Nat /\ DOMAIN tasks = 1..T
      /\ attempts \in Seq(Attempt) /\ A \in Nat /\ DOMAIN attempts = 1..A
  BY DEF LedgerInv, PlanInv, TypeOK
<1>2. /\ attempts' = Append(attempts, attempt)
      /\ tasks' = [tasks EXCEPT ![activeTask].status = outcome]
      /\ activeTask' = 0
      /\ UNCHANGED <<planRevision, runStatus, planRevisions, milestones>>
  BY DEF EndTask
<1>3. /\ activeTask = T /\ T \in 1..T /\ tasks[T] \in Task
      /\ tasks[T].status = "running"
      /\ \A t \in 1..T : t # T => tasks[t].status # "running"
  BY <1>1 DEF LedgerInv, TaskInv, ActiveTaskIsLast, ActiveTaskServesThePlan
<1>4. outcome # "running"
  BY DEF Outcomes
<1>5. attempt \in Attempt
  BY <1>1, <1>3 DEF Attempt, Task
<1>6. attempt.task = T /\ attempt.outcome = outcome /\ attempt.revision = tasks[T].revision
  BY <1>3
<1> HIDE DEF attempt
<1>7. /\ attempts' \in Seq(Attempt) /\ Len(attempts') = A + 1 /\ DOMAIN attempts' = 1..(A + 1)
      /\ \A a \in 1..A : attempts'[a] = attempts[a]
      /\ attempts'[A + 1] = attempt
  BY <1>1, <1>2, <1>5
<1>8. /\ DOMAIN tasks' = 1..T
      /\ \A t \in 1..T : t # T => tasks'[t] = tasks[t]
      /\ tasks'[T] = [tasks[T] EXCEPT !.status = outcome]
  BY <1>1, <1>2, <1>3
<1>9. /\ tasks'[T].status = outcome /\ tasks'[T].revision = tasks[T].revision
      /\ tasks'[T].work = tasks[T].work /\ tasks'[T].reason = tasks[T].reason
      /\ tasks'[T].related = tasks[T].related /\ tasks'[T] \in Task
  BY <1>3, <1>8 DEF Task
<1>10. tasks' \in Seq(Task) /\ Len(tasks') = T
  BY <1>1, <1>2, <1>3, <1>9
<1>11. TypeOK'
  BY <1>1, <1>2, <1>7, <1>10 DEF TypeOK
<1>12. ActiveTaskIsLast' /\ ActiveTaskServesThePlan'
  <2>1. \A t \in 1..T : tasks'[t].status # "running"
    BY <1>3, <1>4, <1>8, <1>9
  <2>2. 0 \notin 1..T
    BY <1>1
  <2> QED
    BY <2>1, <2>2, <1>2, <1>8 DEF ActiveTaskIsLast, ActiveTaskServesThePlan
<1>13. \A a \in 1..(A + 1) : a \in 1..A \/ a = A + 1
  BY <1>1
<1>14. OneAttemptPerEndedTask'
  <2>1. OneAttemptPerEndedTask
    BY DEF LedgerInv, TaskInv
  <2>2. \A a \in 1..A : attempts[a].task \in 1..T /\ attempts[a].task # T
    <3>1. ASSUME NEW a \in 1..A
          PROVE  attempts[a].task \in 1..T /\ attempts[a].task # T
      <4>1. attempts[a] \in Attempt
        BY <1>1
      <4>2. attempts[a].outcome # "running"
        BY <4>1 DEF Attempt, Outcomes
      <4>3. /\ attempts[a].task \in DOMAIN tasks
            /\ attempts[a].outcome = tasks[attempts[a].task].status
        BY <2>1, <1>1 DEF OneAttemptPerEndedTask
      <4>4. attempts[a].task # T
        BY <4>2, <4>3, <1>3
      <4> QED
        BY <4>3, <4>4, <1>1
    <3> QED
      BY <3>1
  <2>3. \A a \in DOMAIN attempts' :
           /\ attempts'[a].task \in DOMAIN tasks'
           /\ attempts'[a].outcome = tasks'[attempts'[a].task].status
           /\ attempts'[a].revision = tasks'[attempts'[a].task].revision
    <3>1. ASSUME NEW a \in 1..A
          PROVE  /\ attempts'[a].task \in 1..T
                 /\ attempts'[a].outcome = tasks'[attempts'[a].task].status
                 /\ attempts'[a].revision = tasks'[attempts'[a].task].revision
      BY <2>1, <2>2, <1>1, <1>7, <1>8 DEF OneAttemptPerEndedTask
    <3>2. /\ attempts'[A + 1].task \in 1..T
          /\ attempts'[A + 1].outcome = tasks'[attempts'[A + 1].task].status
          /\ attempts'[A + 1].revision = tasks'[attempts'[A + 1].task].revision
      BY <1>3, <1>6, <1>7, <1>9
    <3> QED
      BY <3>1, <3>2, <1>7, <1>8, <1>13
  <2>4. \A t \in DOMAIN tasks' : tasks'[t].status # "running" =>
           \E a \in DOMAIN attempts' : attempts'[a].task = t
    <3>1. ASSUME NEW t \in 1..T, t # T
          PROVE  \E a \in 1..(A + 1) : attempts'[a].task = t
      <4>1. PICK a \in 1..A : attempts[a].task = t
        BY <2>1, <3>1, <1>1, <1>3 DEF OneAttemptPerEndedTask
      <4>2. a \in 1..(A + 1) /\ attempts'[a].task = t
        BY <4>1, <1>1, <1>7
      <4> QED
        BY <4>2
    <3>2. A + 1 \in 1..(A + 1) /\ attempts'[A + 1].task = T
      BY <1>1, <1>6, <1>7
    <3> QED
      BY <3>1, <3>2, <1>7, <1>8
  <2>5. \A a, b \in DOMAIN attempts' : attempts'[a].task = attempts'[b].task => a = b
    <3>1. \A a, b \in 1..A : attempts'[a].task = attempts'[b].task => a = b
      BY <2>1, <1>1, <1>7 DEF OneAttemptPerEndedTask
    <3>2. \A a \in 1..A : attempts'[a].task # attempts'[A + 1].task
      BY <2>2, <1>6, <1>7
    <3> QED
      BY <3>1, <3>2, <1>7, <1>13
  <2> QED
    BY <2>3, <2>4, <2>5 DEF OneAttemptPerEndedTask
<1>15. RetriesAreJustified'
  <2>1. SUFFICES ASSUME NEW s \in 1..T, NEW t \in 1..T,
                        s < t, tasks'[s].work = tasks'[t].work,
                        tasks'[s].status = "failed"
                 PROVE  /\ tasks'[t].reason # NoReason
                        /\ FailedAttemptsOf(s)' \cap tasks'[t].related # {}
    BY <1>8 DEF RetriesAreJustified
  <2>2. s # T /\ tasks'[s] = tasks[s]
    BY <2>1, <1>1, <1>8
  <2>3. tasks[t].work = tasks'[t].work /\ tasks[t].reason = tasks'[t].reason
        /\ tasks[t].related = tasks'[t].related
    BY <1>8, <1>9
  <2>4. tasks[t].reason # NoReason /\ FailedAttemptsOf(s) \cap tasks[t].related # {}
    BY <2>1, <2>2, <2>3, <1>1 DEF LedgerInv, TaskInv, RetriesAreJustified
  <2>5. FailedAttemptsOf(s) \subseteq FailedAttemptsOf(s)'
    <3>1. 1..A \subseteq 1..(A + 1)
      BY <1>1
    <3> QED
      BY <3>1, <1>1, <1>7 DEF FailedAttemptsOf
  <2> QED
    BY <2>3, <2>4, <2>5
<1> QED
  BY <1>2, <1>11, <1>12, <1>14, <1>15, PlanUnchanged DEF LedgerInv, PlanInv, TaskInv

\* Completion changes the status of the run only.
LEMMA CompleteInv ==
  ASSUME LedgerInv, NEW expected, NEW assessed, Complete(expected, assessed)
  PROVE  LedgerInv'
PROOF
<1>1. TypeOK'
  BY DEF LedgerInv, PlanInv, TypeOK, Complete
<1>2. UNCHANGED <<planRevision, planRevisions, milestones, tasks, attempts, activeTask>>
  BY DEF Complete
<1>3. OnlyTheNewestPlanIsPending' /\ HistoryIsBounded' /\ PlanHistoryIsComplete'
  BY <1>2, PlanUnchanged
<1>4. TaskInv'
  BY <1>2 DEF LedgerInv, TaskInv, ActiveTaskIsLast, ActiveTaskServesThePlan, Pending,
              OneAttemptPerEndedTask, RetriesAreJustified, FailedAttemptsOf
<1> QED
  BY <1>1, <1>3, <1>4 DEF LedgerInv, PlanInv

LEMMA StutterInv == ASSUME LedgerInv, UNCHANGED ledger PROVE LedgerInv'
PROOF
<1>1. TypeOK'
  BY DEF LedgerInv, PlanInv, TypeOK, ledger
<1>2. OnlyTheNewestPlanIsPending' /\ HistoryIsBounded' /\ PlanHistoryIsComplete'
  BY PlanUnchanged DEF ledger
<1>3. TaskInv'
  BY DEF ledger, LedgerInv, TaskInv, ActiveTaskIsLast, ActiveTaskServesThePlan, Pending,
         OneAttemptPerEndedTask, RetriesAreJustified, FailedAttemptsOf
<1> QED
  BY <1>1, <1>2, <1>3 DEF LedgerInv, PlanInv

LEMMA NextInv == LedgerInv /\ [LedgerNext]_ledger => LedgerInv'
PROOF
<1> SUFFICES ASSUME LedgerInv, [LedgerNext]_ledger PROVE LedgerInv'
  OBVIOUS
<1>1. ASSUME NEW r \in Revisions, NEW plan \in Plans, NEW completed,
             ApplyReplan(r, completed, plan)
      PROVE  LedgerInv'
  BY <1>1, ReplanInv
<1>2. ASSUME NEW r \in Revisions, NEW m \in DOMAIN milestones, NEW w \in Works,
             NEW related, NEW reason \in Reasons \cup {NoReason},
             Dispatch(r, m, w, related, reason)
      PROVE  LedgerInv'
  BY <1>2, DispatchInv
<1>3. ASSUME NEW t \in TaskIds, NEW o \in Outcomes, NEW reported \in BOOLEAN,
             NEW allMet \in BOOLEAN, AppendAttempt(t, o, reported, allMet)
      PROVE  LedgerInv'
  BY <1>3, EndTaskInv DEF AppendAttempt, AttemptAccepted
<1>4. ASSUME NEW t \in TaskIds, AppendFailure(t)
      PROVE  LedgerInv'
  BY <1>4, EndTaskInv DEF AppendFailure
<1>5. ASSUME NEW r \in Revisions, NEW assessed \in BOOLEAN, Complete(r, assessed)
      PROVE  LedgerInv'
  BY <1>5, CompleteInv
<1>6. ASSUME UNCHANGED ledger
      PROVE  LedgerInv'
  BY <1>6, StutterInv
<1> QED
  BY <1>1, <1>2, <1>3, <1>4, <1>5, <1>6 DEF LedgerNext

-----------------------------------------------------------------------------
(* The theorems.                                                           *)

\* The invariant holds in every state the Ledger reaches.
THEOREM LedgerInvariant == LedgerSpec => []LedgerInv
PROOF
<1> QED
  BY InitInv, NextInv, PTL DEF LedgerSpec

\* Type correctness of the Ledger (ledger.py, the fields of TaskLedger).
THEOREM LedgerTypeCorrect == LedgerSpec => []TypeOK
PROOF
<1>1. LedgerInv => TypeOK
  BY DEF LedgerInv, PlanInv
<1> QED
  BY <1>1, LedgerInvariant, PTL

\* Only Milestones of the newest revision are pending (apply_replan supersedes what
\* it does not complete), the plan revisions account for every Milestone, and the
\* active Task serves a pending one (apply_replan and dispatch refuse to act while
\* a Task runs).
THEOREM PlansStaySound == LedgerSpec => []PlansAreSound
PROOF
<1>1. LedgerInv => PlansAreSound
  BY DEF LedgerInv, PlanInv, TaskInv, PlansAreSound
<1> QED
  BY <1>1, LedgerInvariant, PTL

\* Every ended Task has exactly one Attempt with its outcome (append_attempt,
\* append_failure), and unchanged failed work is only repeated with a reason and
\* with the failed Attempt of each earlier Task (_reject_unchanged_failed_retry).
THEOREM AttemptsStaySound == LedgerSpec => []AttemptsAreSound
PROOF
<1>1. LedgerInv => AttemptsAreSound
  BY DEF LedgerInv, TaskInv, AttemptsAreSound
<1> QED
  BY <1>1, LedgerInvariant, PTL

\* No operation rewrites the history of the Ledger.
THEOREM HistoryIsNeverRewritten == LedgerSpec => HistoryIsImmutable
PROOF
<1>1. ASSUME LedgerInv, NEW r, NEW plan \in Plans, NEW completed,
             ApplyReplan(r, completed, plan)
      PROVE  HistoryStep
  <2>1. UNCHANGED <<tasks, attempts>>
    BY <1>1 DEF ApplyReplan
  <2>2. attempts \in Seq(Attempt) /\ tasks \in Seq(Task) /\ planRevisions \in Seq(PlanRevision)
        /\ milestones \in Seq(Milestone)
    BY <1>1 DEF LedgerInv, PlanInv, TypeOK
  <2>3. IsPrefixOf(attempts, attempts')
    BY <2>1, <2>2 DEF IsPrefixOf
  <2>4. IsPrefixOf(planRevisions, planRevisions')
    <3>1. PICK e : planRevisions' = Append(planRevisions, e)
      BY <1>1 DEF ApplyReplan
    <3> QED
      BY <3>1, <2>2 DEF IsPrefixOf
  <2>5. /\ Len(milestones) <= Len(milestones')
        /\ \A m \in DOMAIN milestones : milestones'[m] = Retired(m, completed)
    BY <1>1, <2>2, PlanIsSequence, ReplanMilestones DEF LedgerInv, PlanInv
  <2>6. ASSUME NEW m \in DOMAIN milestones, milestones'[m] # milestones[m]
        PROVE  /\ milestones[m].status = "pending"
               /\ milestones'[m] = [milestones[m] EXCEPT !.status = milestones'[m].status]
    <3>1. milestones[m] \in Milestone
      BY <2>2
    <3>2. m \in Pending
      BY <2>5, <2>6 DEF Retired
    <3>3. PICK st : milestones'[m] = [milestones[m] EXCEPT !.status = st]
      BY <2>5, <3>2 DEF Retired
    <3>4. milestones'[m].status = st
      BY <3>1, <3>3 DEF Milestone
    <3> QED
      BY <3>2, <3>3, <3>4 DEF Pending
  <2> QED
    BY <2>1, <2>2, <2>3, <2>4, <2>5, <2>6 DEF HistoryStep
<1>2. ASSUME LedgerInv, NEW r, NEW m, NEW w, NEW related, NEW reason,
             Dispatch(r, m, w, related, reason)
      PROVE  HistoryStep
  <2>1. UNCHANGED <<planRevisions, milestones, attempts>>
    BY <1>2 DEF Dispatch
  <2>2. attempts \in Seq(Attempt) /\ tasks \in Seq(Task) /\ planRevisions \in Seq(PlanRevision)
        /\ milestones \in Seq(Milestone)
    BY <1>2 DEF LedgerInv, PlanInv, TypeOK
  <2>3. PICK e : tasks' = Append(tasks, e)
    BY <1>2 DEF Dispatch
  <2>4. Len(tasks) <= Len(tasks') /\ \A t \in DOMAIN tasks : tasks'[t] = tasks[t]
    BY <2>2, <2>3
  <2> QED
    BY <2>1, <2>2, <2>4 DEF HistoryStep, IsPrefixOf
<1>3. ASSUME LedgerInv, activeTask # 0, NEW o, NEW allMet, EndTask(activeTask, o, allMet)
      PROVE  HistoryStep
  <2>1. UNCHANGED <<planRevisions, milestones>>
    BY <1>3 DEF EndTask
  <2>2. attempts \in Seq(Attempt) /\ tasks \in Seq(Task) /\ planRevisions \in Seq(PlanRevision)
        /\ milestones \in Seq(Milestone)
    BY <1>3 DEF LedgerInv, PlanInv, TypeOK
  <2>3. PICK e : attempts' = Append(attempts, e)
    BY <1>3 DEF EndTask
  <2>4. IsPrefixOf(attempts, attempts')
    BY <2>2, <2>3 DEF IsPrefixOf
  <2>5. activeTask \in DOMAIN tasks /\ tasks[activeTask].status = "running"
    BY <1>3 DEF LedgerInv, TaskInv, ActiveTaskServesThePlan
  <2>6. tasks' = [tasks EXCEPT ![activeTask].status = o]
    BY <1>3 DEF EndTask
  <2>7. Len(tasks') = Len(tasks)
    BY <2>2, <2>5, <2>6
  <2>8. ASSUME NEW t \in DOMAIN tasks, tasks'[t] # tasks[t]
        PROVE  /\ tasks[t].status = "running"
               /\ tasks'[t] = [tasks[t] EXCEPT !.status = tasks'[t].status]
    <3>1. t = activeTask
      BY <2>2, <2>6, <2>8
    <3>2. tasks'[t] = [tasks[t] EXCEPT !.status = o]
      BY <3>1, <2>2, <2>5, <2>6
    <3>3. tasks[t] \in Task
      BY <2>2
    <3>4. tasks'[t].status = o
      BY <3>2, <3>3 DEF Task
    <3> QED
      BY <3>1, <3>2, <3>4, <2>5
  <2> QED
    BY <2>1, <2>2, <2>4, <2>7, <2>8 DEF HistoryStep, IsPrefixOf
<1>4. ASSUME LedgerInv, UNCHANGED <<planRevisions, milestones, tasks, attempts>>
      PROVE  HistoryStep
  <2>1. attempts \in Seq(Attempt) /\ tasks \in Seq(Task) /\ planRevisions \in Seq(PlanRevision)
        /\ milestones \in Seq(Milestone)
    BY <1>4 DEF LedgerInv, PlanInv, TypeOK
  <2> QED
    BY <1>4, <2>1 DEF HistoryStep, IsPrefixOf
<1>5. LedgerInv /\ [LedgerNext]_ledger => [HistoryStep]_ledger
  <2> SUFFICES ASSUME LedgerInv, LedgerNext PROVE HistoryStep
    OBVIOUS
  <2>1. ASSUME NEW r \in Revisions, NEW plan \in Plans, NEW completed,
               ApplyReplan(r, completed, plan)
        PROVE  HistoryStep
    BY <2>1, <1>1
  <2>2. ASSUME NEW r, NEW m, NEW w, NEW related, NEW reason,
               Dispatch(r, m, w, related, reason)
        PROVE  HistoryStep
    BY <2>2, <1>2
  <2>3. ASSUME NEW t, NEW o, NEW reported, NEW allMet, AppendAttempt(t, o, reported, allMet)
        PROVE  HistoryStep
    BY <2>3, <1>3 DEF AppendAttempt, AttemptAccepted
  <2>4. ASSUME NEW t, AppendFailure(t)
        PROVE  HistoryStep
    BY <2>4, <1>3 DEF AppendFailure
  <2>5. ASSUME NEW r, NEW assessed, Complete(r, assessed)
        PROVE  HistoryStep
    BY <2>5, <1>4 DEF Complete
  <2> QED
    BY <2>1, <2>2, <2>3, <2>4, <2>5 DEF LedgerNext
<1> QED
  BY <1>5, LedgerInvariant, PTL DEF LedgerSpec, HistoryIsImmutable

-----------------------------------------------------------------------------
(* The run, and the bounds on its Ledger.                                  *)

\* The bounds of the model, which the Ledger's own next-state relation assumes.
RunIsBounded == planRevision <= MaxRevisions /\ Len(tasks) <= MaxTasks

SafeInv == LedgerInv /\ RunIsBounded

-----------------------------------------------------------------------------
(* Every step of the runtime is a step of the Ledger or leaves it alone.   *)

\* What SafeInv says of the Ledger's counters.
LEMMA CountersAreBounded ==
  ASSUME SafeInv
  PROVE  /\ planRevision \in Revisions
         /\ activeTask \in TaskIds
         /\ Len(tasks) \in Nat
PROOF
<1>1. planRevision \in Nat /\ tasks \in Seq(Task) /\ activeTask \in Nat
  BY DEF SafeInv, LedgerInv, PlanInv, TypeOK
<1>2. Len(tasks) \in Nat
  BY <1>1
<1>3. activeTask # 0 => activeTask = Len(tasks)
  BY DEF SafeInv, LedgerInv, TaskInv, ActiveTaskIsLast
<1> QED
  BY <1>1, <1>2, <1>3, LedgerAssumption DEF SafeInv, RunIsBounded, Revisions, TaskIds

LEMMA StepRefines ==
  ASSUME SafeInv, [Next]_vars
  PROVE  [LedgerNext]_ledger /\ RunIsBounded'
PROOF
<1>1. planRevision \in Revisions /\ activeTask \in TaskIds /\ Len(tasks) \in Nat
      /\ planRevision <= MaxRevisions /\ Len(tasks) <= MaxTasks
      /\ planRevision \in Nat /\ tasks \in Seq(Task)
  BY CountersAreBounded DEF SafeInv, RunIsBounded, LedgerInv, PlanInv, TypeOK
<1>2. ASSUME UNCHANGED ledger
      PROVE  [LedgerNext]_ledger /\ RunIsBounded'
  BY <1>1, <1>2 DEF ledger, RunIsBounded
<1>3. ASSUME NEW plan \in Plans, NEW completed \in SUBSET DOMAIN milestones,
             planRevision < MaxRevisions, Replan(completed, plan)
      PROVE  [LedgerNext]_ledger /\ RunIsBounded'
  <2>2. ApplyReplan(planRevision, completed, plan)
    BY <1>3 DEF Replan
  <2>3. planRevision' = planRevision + 1 /\ tasks' = tasks
    BY <2>2 DEF ApplyReplan
  <2> QED
    BY <1>1, <1>3, <2>2, <2>3, LedgerAssumption DEF LedgerNext, RunIsBounded
<1>4. ASSUME NEW m \in DOMAIN milestones, NEW w \in Works,
             NEW related \in SUBSET DOMAIN attempts,
             NEW reason \in Reasons \cup {NoReason},
             Len(tasks) < MaxTasks, DispatchTask(m, w, related, reason)
      PROVE  [LedgerNext]_ledger /\ RunIsBounded'
  <2>1. Dispatch(planRevision, m, w, related, reason)
    BY <1>4 DEF DispatchTask
  <2>2. planRevision' = planRevision /\ Len(tasks') = Len(tasks) + 1
    BY <2>1, <1>1 DEF Dispatch
  <2> QED
    BY <1>1, <1>4, <2>1, <2>2, LedgerAssumption DEF LedgerNext, RunIsBounded
<1>5. ASSUME CompleteRun
      PROVE  [LedgerNext]_ledger /\ RunIsBounded'
  <2>1. Complete(planRevision, TRUE)
    BY <1>5 DEF CompleteRun
  <2>2. planRevision' = planRevision /\ tasks' = tasks
    BY <2>1 DEF Complete
  <2> QED
    BY <1>1, <2>1, <2>2 DEF LedgerNext, RunIsBounded
<1>6. ASSUME NEW o, NEW allMet, EndTask(activeTask, o, allMet)
      PROVE  RunIsBounded'
  <2>1. planRevision' = planRevision /\ tasks' = [tasks EXCEPT ![activeTask].status = o]
    BY <1>6 DEF EndTask
  <2>2. Len(tasks') = Len(tasks)
    BY <2>1, <1>1
  <2> QED
    BY <1>1, <2>1, <2>2 DEF RunIsBounded
<1>7. ASSUME NEW o \in Outcomes, NEW allMet \in BOOLEAN, ExecutorReports(o, allMet)
      PROVE  [LedgerNext]_ledger /\ RunIsBounded'
  <2>1. AppendAttempt(activeTask, o, TRUE, allMet)
    BY <1>7 DEF ExecutorReports
  <2> QED
    BY <1>1, <1>6, <2>1 DEF LedgerNext, AppendAttempt
<1>8. ASSUME ExecutorFails \/ ExecutorRaises
      PROVE  [LedgerNext]_ledger /\ RunIsBounded'
  <2>1. AppendFailure(activeTask)
    BY <1>8 DEF ExecutorFails, ExecutorRaises
  <2> QED
    BY <1>1, <1>6, <2>1 DEF LedgerNext, AppendFailure
<1>9. ASSUME Abort
      PROVE  [LedgerNext]_ledger /\ RunIsBounded'
  BY <1>2, <1>9 DEF Abort
<1>10. CASE OrchestratorStep
  BY <1>10, <1>3, <1>4, <1>5, <1>9
     DEF OrchestratorStep, RejectedReplan, RejectedDispatch, OrchestratorFails
<1>11. CASE ExecutorStep
  BY <1>11, <1>7, <1>8, <1>9 DEF ExecutorStep, ExecutorAborts
<1>12. CASE UNCHANGED vars
  BY <1>2, <1>12 DEF vars
<1> QED
  BY <1>10, <1>11, <1>12 DEF Next

LEMMA SafeStart == Init => SafeInv
PROOF
<1> SUFFICES ASSUME Init PROVE SafeInv
  OBVIOUS
<1>1. LedgerInit
  BY DEF Init
<1>2. planRevision = 0 /\ Len(tasks) = 0
  BY <1>1 DEF LedgerInit
<1> QED
  BY <1>1, <1>2, InitInv, LedgerAssumption DEF SafeInv, RunIsBounded

LEMMA SafeStep == SafeInv /\ [Next]_vars => SafeInv'
PROOF
<1> SUFFICES ASSUME SafeInv, [Next]_vars PROVE SafeInv'
  OBVIOUS
<1>1. LedgerInv'
  BY StepRefines, NextInv DEF SafeInv
<1> QED
  BY <1>1, StepRefines DEF SafeInv

\* The inductive invariant holds in every state of a run.
THEOREM RunIsSafe == Spec => []SafeInv
PROOF
<1> QED
  BY SafeStart, SafeStep, PTL DEF Spec

\* Each action of the run that changes the Ledger names one of its operations, so a
\* run is also a behaviour of the Ledger and has what is proved of the Ledger alone.
LEMMA RunUsesLedger == Spec => LedgerSpec
PROOF
<1>1. Init => LedgerInit
  BY DEF Init
<1>2. SafeInv /\ [Next]_vars => [LedgerNext]_ledger
  BY StepRefines
<1> QED
  BY <1>1, <1>2, RunIsSafe, PTL DEF Spec, LedgerSpec

\* What the Ledger promises of its plans holds of every run.
THEOREM PlansOfRunsAreSound == Spec => []PlansAreSound
PROOF
<1> QED
  BY RunUsesLedger, PlansStaySound, PTL

\* What the Ledger promises of its Tasks and Attempts holds of every run.
THEOREM AttemptsOfRunsAreSound == Spec => []AttemptsAreSound
PROOF
<1> QED
  BY RunUsesLedger, AttemptsStaySound, PTL

\* No run rewrites the history of its Ledger.
THEOREM HistoryOfRunsIsImmutable == Spec => HistoryIsImmutable
PROOF
<1> QED
  BY RunUsesLedger, HistoryIsNeverRewritten, PTL
-----------------------------------------------------------------------------
(* The runtime, the Ledger and what the viewer is given agree.             *)

Sessions == [role : {"orchestrator", "task_executor"}, task : Nat, attempt : Nat]

\* The sessions recorded so far name no Task that is still to be dispatched.
SessionsAreOfTheRun ==
  /\ sessions \in Seq(Sessions)
  /\ \A i \in DOMAIN sessions :
       sessions[i].role = "orchestrator" => sessions[i].task <= Len(tasks)

TrackInv ==
  /\ SafeInv
  /\ RuntimeFollowsLedger
  /\ ObserverIsCurrent
  /\ SessionsAreOfTheRun
  /\ SessionsMatchHistory

LEMMA FollowStep ==
  ASSUME RuntimeFollowsLedger, ObserverIsCurrent, SafeInv, [Next]_vars
  PROVE  RuntimeFollowsLedger' /\ ObserverIsCurrent'
PROOF
<1> USE DEF RuntimeFollowsLedger, ObserverIsCurrent
<1>1. Len(tasks) \in Nat
  BY CountersAreBounded
<1>2. ASSUME NEW plan, NEW completed, Replan(completed, plan)
      PROVE  RuntimeFollowsLedger' /\ ObserverIsCurrent'
  BY <1>2 DEF Replan, ApplyReplan, Publish
<1>3. ASSUME NEW m, NEW w, NEW related, NEW reason, DispatchTask(m, w, related, reason)
      PROVE  RuntimeFollowsLedger' /\ ObserverIsCurrent'
  BY <1>1, <1>3 DEF DispatchTask, Dispatch, Publish
<1>4. ASSUME CompleteRun
      PROVE  RuntimeFollowsLedger' /\ ObserverIsCurrent'
  BY <1>4 DEF CompleteRun, Complete, CompleteAccepted, Publish
<1>5. ASSUME NEW o, NEW allMet, ExecutorReports(o, allMet)
      PROVE  RuntimeFollowsLedger' /\ ObserverIsCurrent'
  BY <1>5 DEF ExecutorReports, AppendAttempt, EndTask, Publish
<1>6. ASSUME ExecutorFails \/ ExecutorRaises
      PROVE  RuntimeFollowsLedger' /\ ObserverIsCurrent'
  BY <1>6 DEF ExecutorFails, ExecutorRaises, AppendFailure, EndTask, Publish
<1>7. ASSUME Abort, pc \in {"deciding", "executing"}
      PROVE  RuntimeFollowsLedger' /\ ObserverIsCurrent'
  BY <1>7 DEF Abort, ledger, View
<1>8. CASE OrchestratorStep
  BY <1>8, <1>2, <1>3, <1>4, <1>7
     DEF OrchestratorStep, RejectedReplan, RejectedDispatch, OrchestratorFails
<1>9. CASE ExecutorStep
  BY <1>9, <1>5, <1>6, <1>7 DEF ExecutorStep, ExecutorAborts
<1>10. CASE UNCHANGED vars
  BY <1>10 DEF vars, ledger, View
<1> QED
  BY <1>8, <1>9, <1>10 DEF Next

\* Each Task has the session of the decision that dispatched it, and only that.
LEMMA TurnOfTask ==
  ASSUME SessionsMatchHistory, NEW u \in DOMAIN tasks
  PROVE  \E i \in DOMAIN sessions :
           /\ sessions[i].role = "orchestrator" /\ sessions[i].task = u
           /\ \A j \in DOMAIN sessions :
                sessions[j].role = "orchestrator" /\ sessions[j].task = u => j = i
PROOF
  BY DEF SessionsMatchHistory

\* A decision adds an Orchestrator's session: of no Task, or of the Task it adds.
LEMMA OrchestratorSession ==
  ASSUME SafeInv, SessionsAreOfTheRun, SessionsMatchHistory,
         NEW t \in Nat, RecordOrchestrator(t),
         tasks' \in Seq(Task), attempts' = attempts,
         \/ t = 0 /\ Len(tasks') = Len(tasks)
         \/ t = Len(tasks) + 1 /\ Len(tasks') = Len(tasks) + 1
  PROVE  SessionsAreOfTheRun' /\ SessionsMatchHistory'
PROOF
<1> DEFINE n == Len(sessions)
           new == [role |-> "orchestrator", task |-> t, attempt |-> 0]
<1>1. /\ tasks \in Seq(Task) /\ Len(tasks) \in Nat
      /\ sessions \in Seq(Sessions) /\ n \in Nat /\ DOMAIN sessions = 1..n
  BY DEF SafeInv, LedgerInv, PlanInv, TypeOK, SessionsAreOfTheRun
<1>2. /\ sessions' \in Seq(Sessions)
      /\ DOMAIN sessions' = 1..(n + 1)
      /\ sessions'[n + 1] = new
      /\ \A i \in 1..n : sessions'[i] = sessions[i]
  BY <1>1 DEF RecordOrchestrator, Sessions
<1>3. /\ DOMAIN tasks = 1..Len(tasks) /\ DOMAIN tasks' = 1..Len(tasks')
      /\ Len(tasks') \in Nat
  BY <1>1
<1>4. \A i \in 1..n : sessions[i].role = "orchestrator" =>
        sessions[i].task <= Len(tasks) /\ sessions[i].task \in Nat
  <2>1. \A i \in 1..n : sessions[i] \in Sessions
    BY <1>1
  <2> QED
    BY <2>1, <1>1 DEF SessionsAreOfTheRun, Sessions
<1>each. \A j \in DOMAIN sessions' : j = n + 1 \/ j \in 1..n
  BY <1>1, <1>2
<1>5. SessionsAreOfTheRun'
  BY <1>1, <1>2, <1>4 DEF SessionsAreOfTheRun
<1>6. ASSUME NEW u \in DOMAIN tasks'
      PROVE  \E i \in DOMAIN sessions' :
               /\ sessions'[i].role = "orchestrator" /\ sessions'[i].task = u
               /\ \A j \in DOMAIN sessions' :
                    sessions'[j].role = "orchestrator" /\ sessions'[j].task = u => j = i
  <2>1. CASE u = t
    <3>1. t = Len(tasks) + 1
      <4>1. t = 0 \/ t = Len(tasks) + 1
        OBVIOUS
      <4>2. u \in 1..Len(tasks')
        BY <1>3, <1>6
      <4> QED
        BY <4>1, <4>2, <2>1, <1>1
    <3>2. \A j \in 1..n : ~(sessions'[j].role = "orchestrator" /\ sessions'[j].task = u)
      BY <3>1, <2>1, <1>1, <1>2, <1>4
    <3>3. n + 1 \in DOMAIN sessions' /\ sessions'[n + 1].role = "orchestrator"
          /\ sessions'[n + 1].task = u
      BY <1>1, <1>2, <2>1
    <3> QED
      BY <3>2, <3>3, <1>each
  <2>2. CASE u # t
    <3>1. u \in 1..Len(tasks)
      <4>1. t = 0 \/ t = Len(tasks) + 1
        OBVIOUS
      <4>2. u \in 1..Len(tasks')
        BY <1>3, <1>6
      <4> QED
        BY <4>1, <4>2, <2>2, <1>1
    <3>2. PICK i \in 1..n :
            /\ sessions[i].role = "orchestrator" /\ sessions[i].task = u
            /\ \A j \in 1..n :
                 sessions[j].role = "orchestrator" /\ sessions[j].task = u => j = i
      <4>1. u \in DOMAIN tasks /\ DOMAIN sessions = 1..n
        BY <3>1, <1>1, <1>3
      <4> QED
        BY <4>1, TurnOfTask
    <3>3. i \in DOMAIN sessions' /\ sessions'[i] = sessions[i]
      BY <1>1, <1>2
    <3>4. sessions'[n + 1].task # u
      BY <2>2, <1>2
    <3>5. \A j \in DOMAIN sessions' :
            sessions'[j].role = "orchestrator" /\ sessions'[j].task = u => j = i
      BY <3>2, <3>4, <1>2, <1>each
    <3>6. sessions'[i].role = "orchestrator" /\ sessions'[i].task = u
      BY <3>2, <3>3
    <3> QED
      BY <3>3, <3>5, <3>6
  <2> QED
    BY <2>1, <2>2
<1>7. ASSUME NEW i \in DOMAIN sessions', sessions'[i].role = "task_executor"
      PROVE  /\ sessions'[i].attempt \in DOMAIN attempts'
             /\ attempts'[sessions'[i].attempt].task = sessions'[i].task
             /\ \A j \in DOMAIN sessions' :
                  sessions'[j].role = "task_executor"
                    /\ sessions'[j].attempt = sessions'[i].attempt => j = i
  <2>1. sessions'[n + 1].role # "task_executor"
    BY <1>2
  <2>2. i \in 1..n /\ sessions'[i] = sessions[i]
    BY <2>1, <1>2, <1>7, <1>each
  <2>3. /\ sessions[i].attempt \in DOMAIN attempts
        /\ attempts[sessions[i].attempt].task = sessions[i].task
        /\ \A j \in 1..n : sessions[j].role = "task_executor"
              /\ sessions[j].attempt = sessions[i].attempt => j = i
    BY <2>2, <1>1, <1>7 DEF SessionsMatchHistory
  <2> QED
    BY <2>1, <2>2, <2>3, <1>2, <1>each
<1>8. SessionsMatchHistory'
  BY <1>6, <1>7 DEF SessionsMatchHistory
<1> QED
  BY <1>5, <1>8

\* The end of a Task adds its Attempt and, unless the root was never known, the
\* session that made it.
LEMMA ExecutorSession ==
  ASSUME SafeInv, SessionsAreOfTheRun, SessionsMatchHistory,
         NEW o, NEW allMet, EndTask(activeTask, o, allMet),
         RecordExecutor(activeTask, Len(attempts')) \/ UNCHANGED sessions
  PROVE  SessionsAreOfTheRun' /\ SessionsMatchHistory'
PROOF
<1> DEFINE n == Len(sessions)
           A == Len(attempts)
<1>1. /\ tasks \in Seq(Task) /\ Len(tasks) \in Nat /\ activeTask \in Nat
      /\ attempts \in Seq(Attempt) /\ A \in Nat /\ DOMAIN attempts = 1..A
      /\ sessions \in Seq(Sessions) /\ n \in Nat /\ DOMAIN sessions = 1..n
  BY DEF SafeInv, LedgerInv, PlanInv, TypeOK, SessionsAreOfTheRun
<1>2. Len(tasks') = Len(tasks) /\ DOMAIN tasks' = DOMAIN tasks
  BY <1>1 DEF EndTask
<1>3. /\ Len(attempts') = A + 1 /\ DOMAIN attempts' = 1..(A + 1)
      /\ attempts'[A + 1].task = activeTask
      /\ \A a \in 1..A : attempts'[a] = attempts[a]
  BY <1>1 DEF EndTask
<1>4. \A i \in 1..n : sessions[i].role = "task_executor" =>
        sessions[i].attempt \in 1..A /\ sessions[i].attempt # A + 1
  BY <1>1 DEF SessionsMatchHistory
<1>5. CASE UNCHANGED sessions
  <2>1. SessionsAreOfTheRun'
    BY <1>2, <1>5 DEF SessionsAreOfTheRun
  <2>2. SessionsMatchHistory'
    BY <1>1, <1>2, <1>3, <1>4, <1>5 DEF SessionsMatchHistory
  <2> QED
    BY <2>1, <2>2
<1>6. CASE RecordExecutor(activeTask, Len(attempts'))
  <2>1. /\ sessions' \in Seq(Sessions)
        /\ DOMAIN sessions' = 1..(n + 1)
        /\ sessions'[n + 1] = [role |-> "task_executor", task |-> activeTask,
                               attempt |-> A + 1]
        /\ \A i \in 1..n : sessions'[i] = sessions[i]
    BY <1>1, <1>3, <1>6 DEF RecordExecutor, Sessions
  <2>2. \A j \in DOMAIN sessions' : j = n + 1 \/ j \in 1..n
    BY <1>1, <2>1
  <2>3. SessionsAreOfTheRun'
    BY <1>1, <1>2, <2>1, <2>2 DEF SessionsAreOfTheRun
  <2>4. ASSUME NEW u \in DOMAIN tasks'
        PROVE  \E i \in DOMAIN sessions' :
                 /\ sessions'[i].role = "orchestrator" /\ sessions'[i].task = u
                 /\ \A j \in DOMAIN sessions' :
                      sessions'[j].role = "orchestrator" /\ sessions'[j].task = u => j = i
    <3>1. PICK i \in 1..n :
            /\ sessions[i].role = "orchestrator" /\ sessions[i].task = u
            /\ \A j \in 1..n :
                 sessions[j].role = "orchestrator" /\ sessions[j].task = u => j = i
      <4>1. u \in DOMAIN tasks /\ DOMAIN sessions = 1..n
        BY <1>1, <1>2
      <4> QED
        BY <4>1, TurnOfTask
    <3>2. i \in DOMAIN sessions' /\ sessions'[i] = sessions[i]
      BY <1>1, <2>1
    <3>3. sessions'[n + 1].role # "orchestrator"
      BY <2>1
    <3>4. ASSUME NEW j \in DOMAIN sessions', sessions'[j].role = "orchestrator",
                 sessions'[j].task = u
          PROVE  j = i
      <4>1. j \in 1..n /\ sessions'[j] = sessions[j]
        BY <3>3, <3>4, <2>1, <2>2
      <4> QED
        BY <3>1, <3>4, <4>1
    <3> QED
      BY <3>1, <3>2, <3>4
  <2>5. ASSUME NEW i \in DOMAIN sessions', sessions'[i].role = "task_executor"
        PROVE  /\ sessions'[i].attempt \in DOMAIN attempts'
               /\ attempts'[sessions'[i].attempt].task = sessions'[i].task
               /\ \A j \in DOMAIN sessions' :
                    sessions'[j].role = "task_executor"
                      /\ sessions'[j].attempt = sessions'[i].attempt => j = i
    <3>1. CASE i = n + 1
      <4>1. \A j \in 1..n : ~(sessions'[j].role = "task_executor"
                               /\ sessions'[j].attempt = A + 1)
        BY <1>4, <2>1
      <4> QED
        BY <3>1, <4>1, <1>1, <1>3, <2>1, <2>2
    <3>2. CASE i \in 1..n
      <4>1. /\ sessions[i].role = "task_executor" /\ sessions'[i] = sessions[i]
            /\ sessions[i].attempt \in 1..A
            /\ attempts[sessions[i].attempt].task = sessions[i].task
        BY <3>2, <2>1, <2>5, <1>1 DEF SessionsMatchHistory
      <4>2. sessions[i].attempt \in 1..(A + 1) /\ sessions[i].attempt # A + 1
        BY <4>1, <1>1
      <4>3. \A j \in 1..n : sessions[j].role = "task_executor"
               /\ sessions[j].attempt = sessions[i].attempt => j = i
        BY <4>1, <3>2, <1>1 DEF SessionsMatchHistory
      <4> QED
        BY <4>1, <4>2, <4>3, <1>3, <2>1, <2>2
    <3> QED
      BY <3>1, <3>2, <2>2
  <2>6. SessionsMatchHistory'
    BY <2>4, <2>5 DEF SessionsMatchHistory
  <2> QED
    BY <2>3, <2>6
<1> QED
  BY <1>5, <1>6

LEMMA SessionsStep ==
  ASSUME SafeInv, SessionsAreOfTheRun, SessionsMatchHistory, [Next]_vars
  PROVE  SessionsAreOfTheRun' /\ SessionsMatchHistory'
PROOF
<1>1. tasks \in Seq(Task) /\ Len(tasks) \in Nat /\ tasks' \in Seq(Task)
  BY SafeStep DEF SafeInv, LedgerInv, PlanInv, TypeOK
<1>2. ASSUME NEW plan, NEW completed, Replan(completed, plan)
      PROVE  SessionsAreOfTheRun' /\ SessionsMatchHistory'
  <2>1. tasks' = tasks /\ attempts' = attempts /\ RecordOrchestrator(0)
    BY <1>2 DEF Replan, ApplyReplan
  <2> QED
    BY <1>1, <2>1, OrchestratorSession
<1>3. ASSUME NEW m, NEW w, NEW related, NEW reason, DispatchTask(m, w, related, reason)
      PROVE  SessionsAreOfTheRun' /\ SessionsMatchHistory'
  <2>1. Len(tasks') = Len(tasks) + 1 /\ attempts' = attempts
    BY <1>1, <1>3 DEF DispatchTask, Dispatch
  <2>2. RecordOrchestrator(Len(tasks) + 1)
    BY <2>1, <1>3 DEF DispatchTask
  <2> QED
    BY <1>1, <2>1, <2>2, OrchestratorSession
<1>4. ASSUME CompleteRun
      PROVE  SessionsAreOfTheRun' /\ SessionsMatchHistory'
  <2>1. tasks' = tasks /\ attempts' = attempts /\ RecordOrchestrator(0)
    BY <1>4 DEF CompleteRun, Complete
  <2> QED
    BY <1>1, <2>1, OrchestratorSession
<1>5. ASSUME NEW o, NEW allMet, ExecutorReports(o, allMet)
      PROVE  SessionsAreOfTheRun' /\ SessionsMatchHistory'
  BY <1>5, ExecutorSession DEF ExecutorReports, AppendAttempt
<1>6. ASSUME ExecutorFails \/ ExecutorRaises
      PROVE  SessionsAreOfTheRun' /\ SessionsMatchHistory'
  BY <1>6, ExecutorSession DEF ExecutorFails, ExecutorRaises, AppendFailure
<1>7. ASSUME UNCHANGED <<ledger, sessions>>
      PROVE  SessionsAreOfTheRun' /\ SessionsMatchHistory'
  BY <1>7 DEF ledger, SessionsAreOfTheRun, SessionsMatchHistory
<1>8. ASSUME Abort
      PROVE  SessionsAreOfTheRun' /\ SessionsMatchHistory'
  BY <1>7, <1>8 DEF Abort
<1>9. CASE OrchestratorStep
  BY <1>9, <1>2, <1>3, <1>4, <1>8
     DEF OrchestratorStep, RejectedReplan, RejectedDispatch, OrchestratorFails
<1>10. CASE ExecutorStep
  BY <1>10, <1>5, <1>6, <1>8 DEF ExecutorStep, ExecutorAborts
<1>11. CASE UNCHANGED vars
  BY <1>7, <1>11 DEF vars
<1> QED
  BY <1>9, <1>10, <1>11 DEF Next

LEMMA TrackStart == Init => TrackInv
PROOF
<1> SUFFICES ASSUME Init PROVE TrackInv
  OBVIOUS
<1>1. SafeInv
  BY SafeStart
<1>2. RuntimeFollowsLedger /\ ObserverIsCurrent
  BY DEF Init, LedgerInit, RuntimeFollowsLedger, ObserverIsCurrent
<1>3. SessionsAreOfTheRun /\ SessionsMatchHistory
  BY DEF Init, LedgerInit, SessionsAreOfTheRun, SessionsMatchHistory, Sessions
<1> QED
  BY <1>1, <1>2, <1>3 DEF TrackInv

LEMMA TrackStep == TrackInv /\ [Next]_vars => TrackInv'
PROOF
<1> SUFFICES ASSUME TrackInv, [Next]_vars PROVE TrackInv'
  OBVIOUS
<1>1. SafeInv'
  BY SafeStep DEF TrackInv
<1> QED
  BY <1>1, FollowStep, SessionsStep DEF TrackInv

\* At every moment of every run the place in the loop, the Ledger, the recorded
\* sessions and the last observation tell the same story.
THEOREM RuntimeNeverLosesTrack == Spec => []RuntimeTracksLedger
PROOF
<1>1. TrackInv => RuntimeTracksLedger
  BY DEF TrackInv, RuntimeTracksLedger
<1> QED
  BY <1>1, TrackStart, TrackStep, PTL DEF Spec

\* What an Orchestrator may always say: it refers to every Attempt it was shown.
LEMMA RetryIsOffered ==
  ASSUME SafeInv, RuntimeFollowsLedger, pc = "deciding",
         NEW work, InView(work), NEW m \in Pending, NEW reason \in Reasons
  PROVE  /\ DispatchOffered(m, AttemptAliases)
         /\ DispatchAccepted(planRevision, m, work, AttemptAliases, reason)
PROOF
<1>1. /\ TypeOK /\ OnlyTheNewestPlanIsPending /\ OneAttemptPerEndedTask /\ activeTask = 0
  BY DEF SafeInv, LedgerInv, PlanInv, TaskInv, RuntimeFollowsLedger
<1>2. milestones[m].revision = planRevision
  BY <1>1 DEF OnlyTheNewestPlanIsPending
<1>3. planRevision \in Nat \ {0}
  <2>1. m \in DOMAIN milestones /\ milestones \in Seq(Milestone)
    BY <1>1 DEF Pending, TypeOK
  <2>2. milestones[m] \in Milestone
    BY <2>1
  <2> QED BY <1>2, <2>2 DEF Milestone
<1>4. AttemptAliases \subseteq DOMAIN attempts
  BY DEF AttemptAliases
<1>5. RetryJustified(work, AttemptAliases, reason)
  <2>1. SUFFICES ASSUME NEW t \in DOMAIN tasks, tasks[t].status = "failed", tasks[t].work = work
                 PROVE  reason # NoReason /\ FailedAttemptsOf(t) \cap AttemptAliases # {}
    BY DEF RetryJustified
  <2>2. reason # NoReason
    BY LedgerAssumption DEF LedgerAssumption
  <2>3. PICK a \in DOMAIN attempts : attempts[a].task = t
    BY <1>1, <2>1 DEF OneAttemptPerEndedTask
  <2>4. attempts[a].outcome = "failed"
    BY <1>1, <2>1, <2>3 DEF OneAttemptPerEndedTask
  <2>5. Len(attempts) - a < Recent
    BY <2>1, <2>3, <2>4 DEF InView
  <2>6. a \in Nat /\ Len(attempts) \in Nat /\ Recent \in Nat
    BY <1>1, <2>3, RecentAssumption DEF TypeOK, RecentAssumption
  <2>7. a + Recent > Len(attempts)
    BY <2>5, <2>6
  <2>8. a \in FailedAttemptsOf(t) \cap AttemptAliases
    BY <2>3, <2>4, <2>7 DEF FailedAttemptsOf, AttemptAliases
  <2> QED BY <2>2, <2>8
<1> QED BY <1>1, <1>2, <1>3, <1>4, <1>5 DEF DispatchOffered, DispatchAccepted

\* Failed work can be repeated while its Attempts are offered: no rule of the
\* Ledger and of the Harness (contracts.py) together excludes every retry.
THEOREM RetriesStayPossible == Spec => []FailedWorkCanBeRetried
PROOF
<1>1. TrackInv => FailedWorkCanBeRetried
  <2>1. SUFFICES ASSUME TrackInv, NEW work \in FailedWork, NEW m \in Pending,
                        pc = "deciding", InView(work)
                 PROVE  \E related \in SUBSET DOMAIN attempts, reason \in Reasons :
                          /\ DispatchOffered(m, related)
                          /\ DispatchAccepted(planRevision, m, work, related, reason)
    BY DEF FailedWorkCanBeRetried
  <2>2. PICK reason \in Reasons : TRUE
    BY ReasonsAssumption DEF ReasonsAssumption
  <2>3. SafeInv /\ RuntimeFollowsLedger
    BY <2>1 DEF TrackInv
  <2>4. AttemptAliases \in SUBSET DOMAIN attempts
    BY DEF AttemptAliases
  <2> QED BY <2>1, <2>3, <2>4, RetryIsOffered
<1> QED
  BY <1>1, TrackStart, TrackStep, PTL DEF Spec

\* The Ledger takes every decision whose fault the Orchestrator could not have seen.
LEMMA DecisionsAreTaken ==
  ASSUME SafeInv, activeTask = 0
  PROVE  OrchestratorIsHeard
PROOF
<1>1. TypeOK /\ OnlyTheNewestPlanIsPending
  BY DEF SafeInv, LedgerInv, PlanInv
<1>2. ASSUME NEW plan \in Plans, NEW completed \in SUBSET DOMAIN milestones,
             ReplanOffered(completed), ChangesThePlan(completed, plan),
             ReopensNothingUnknown(plan)
      PROVE  ReplanAccepted(planRevision, completed, plan)
  <2>1. completed \subseteq {m \in Pending : milestones[m].revision = planRevision}
    BY <1>1, <1>2 DEF ReplanOffered, OnlyTheNewestPlanIsPending
  <2>2. ASSUME NEW i \in DOMAIN plan
        PROVE  plan[i].supersedes \in {0} \cup DOMAIN milestones
    <3>1. plan[i] \in Proposals
      BY <1>2, PlanIsSequence
    <3>2. plan[i].supersedes \in Nat
      BY <3>1, LedgerAssumption DEF Proposals, LedgerAssumption
    <3>3. plan[i].supersedes <= Len(milestones)
      BY <1>2 DEF ReopensNothingUnknown
    <3>4. DOMAIN milestones = 1..Len(milestones) /\ Len(milestones) \in Nat
      BY <1>1 DEF TypeOK
    <3> QED
      BY <3>2, <3>3, <3>4
  <2> QED
    BY <1>2, <2>1, <2>2 DEF ReplanAccepted, ChangesThePlan
<1>3. ASSUME NEW m \in DOMAIN milestones, NEW work \in Works \ FailedWork,
             NEW related \in SUBSET DOMAIN attempts, NEW reason, DispatchOffered(m, related)
      PROVE  DispatchAccepted(planRevision, m, work, related, reason)
  <2>1. m \in Pending /\ milestones[m].revision = planRevision
    BY <1>1, <1>3 DEF DispatchOffered, OnlyTheNewestPlanIsPending
  <2>2. RetryJustified(work, related, reason)
    BY <1>3 DEF RetryJustified, FailedWork
  <2> QED
    BY <2>1, <2>2 DEF DispatchAccepted
<1>4. planRevision >= 1 => CompleteAccepted(planRevision, TRUE)
  BY <1>1 DEF CompleteAccepted, TypeOK
<1> QED
  BY <1>2, <1>3, <1>4 DEF OrchestratorIsHeard

\* Whatever the failures and replans before it, an answer that passed the checks of
\* contracts.py ends a run by a ValueError of the Ledger only for what the answer
\* itself says: the view it was checked against is never stale, and no Task stays
\* open that would block it.
THEOREM AnswersAreHeard == Spec => []CheckedAnswersStand
PROOF
<1>1. TrackInv => CheckedAnswersStand
  <2> SUFFICES ASSUME TrackInv PROVE CheckedAnswersStand
    OBVIOUS
  <2>1. SafeInv /\ RuntimeFollowsLedger
    BY DEF TrackInv
  <2>2. pc = "deciding" => OrchestratorIsHeard
    BY <2>1, DecisionsAreTaken DEF RuntimeFollowsLedger
  <2>3. pc = "executing" => ExecutorIsHeard
    BY <2>1 DEF RuntimeFollowsLedger, ExecutorIsHeard, AttemptAccepted
  <2> QED
    BY <2>2, <2>3 DEF CheckedAnswersStand
<1> QED
  BY <1>1, TrackStart, TrackStep, PTL DEF Spec
=============================================================================
