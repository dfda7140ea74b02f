---------------------------- MODULE BatchExecution ----------------------------
(***************************************************************************)
(* OperationTestingService._execute_batch: the preflight, the Batch row,   *)
(* its cases one after another through TargetAPIClient.send (module        *)
(* OracleReplay), the summary that is stored again after every case, and   *)
(* the rewards the generators get at the end.                              *)
(*                                                                         *)
(* Writes of the summary are best effort: one that fails leaves a warning  *)
(* in the result and an older summary in the database.  A case that raises *)
(* ends the Batch, and so does an interruption of its thread.              *)
(*                                                                         *)
(* HTTP Tool calls of other Agents go on meanwhile.  The Tool lets one     *)
(* Batch run at a time.  Which requests a Batch prepares is left open.     *)
(***************************************************************************)
EXTENDS OracleReplay, Sequences, FiniteSetsExt

CONSTANTS MaxSends,   \* bound: requests of all callers together
          NoSummary   \* a Batch without a row

\* An App runs finitely many Batches.
ASSUME BatchAssumption == MaxSends \in Nat /\ IsFiniteSet(Batches)

VARIABLES batch,     \* batch[b]: the execution in progress
          batches,   \* batches[b]: the summary in the batches table
          rewards    \* rewards[b]: the feedback the store was given

batchVars == <<vars, batch, batches, rewards>>

Waiting == [phase |-> "waiting", mode |-> "valid", prepared |-> 0,
            cases |-> <<>>, warnings |-> {}, status |-> "running"]

BatchInit ==
    /\ Init
    /\ batch = [b \in Batches |-> Waiting]
    /\ batches = [b \in Batches |-> NoSummary]
    /\ rewards = [b \in Batches |-> <<>>]

-----------------------------------------------------------------------------
Sends == LET Add[S \in SUBSET Callers] ==
               IF S = {} THEN 0
               ELSE LET c == CHOOSE c \in S : TRUE IN call[c].number + Add[S \ {c}]
         IN  Add[Callers]

\* _batch_summary.
Summary(mode, status, cases, stored, warnings) ==
    [mode |-> mode, status |-> status, executed |-> Len(cases), persisted |-> stored,
     success |-> Cardinality({i \in DOMAIN cases : cases[i].outcome = "2xx"}),
     unanswered |-> Cardinality({i \in DOMAIN cases : cases[i].outcome = "no_response"}),
     bugs |-> Cardinality({i \in DOMAIN cases : cases[i].bug}), logs |-> warnings]

\* list_batch_observations: a Replay carries no Batch.
StoredRows(b) == {o \in observations : o.id[1] = b /\ o.of = NoId}

\* read_test_progress: the Batches of a mode, and the cases that their summaries count.
Progress(mode) ==
    LET counted == {b \in Batches : batches[b] # NoSummary /\ batches[b].mode = mode}
    IN  [batches |-> Cardinality(counted),
         cases |-> MapThenSumSet(LAMBDA b : batches[b].executed, counted)]

\* Mutant: an exceptional case earns by a suspicious answer.
RewardByStatus(b, case) ==
    IF batch[b].mode = "valid" THEN case.outcome = "2xx" ELSE case.outcome = "5xx"

\* _case_feedback: a happy path earns by its answer, an exceptional case by a
\* confirmed Bug.
Reward(b, case) ==
    IF batch[b].mode = "valid" THEN case.outcome = "2xx" ELSE case.bug

\* The Batch and its row: preflight is over, nothing is sent yet.  Slots that
\* an exceptional Batch could not prepare are skipped.
StartBatch(b, mode, n) ==
    /\ batch[b].phase = "waiting"
    /\ batch' = [batch EXCEPT ![b] = [Waiting EXCEPT !.phase = "ready", !.mode = mode,
                                                     !.prepared = n]]
    /\ batches' = [batches EXCEPT ![b] = Summary(mode, "running", <<>>, 0, {})]
    /\ UNCHANGED <<vars, rewards>>

\* A case cannot be prepared, or the abstract case or the row cannot be stored.
StartFails(b) ==
    /\ batch[b].phase = "waiting"
    /\ batch' = [batch EXCEPT ![b].phase = "failed"]
    /\ UNCHANGED <<vars, batches, rewards>>

NextPhase(b) == IF Len(batch[b].cases) < batch[b].prepared THEN "ready" ELSE "ending"

\* The next prepared case is sent.
SendCase(b) ==
    /\ batch[b].phase = "ready" /\ Sends < MaxSends
    /\ Send(b, batch[b].mode)
    /\ batch' = [batch EXCEPT ![b].phase = "case"]
    /\ UNCHANGED <<batches, rewards>>

\* _execute_case returns its outcome.
EndCase(b) ==
    /\ batch[b].phase = "case" /\ Report(b)
    /\ batch' = [batch EXCEPT ![b].phase = "summary",
           ![b].cases = Append(@, [outcome |-> call[b].outcome,
                                   bug |-> call'[b].report = "bug"])]
    /\ UNCHANGED <<batches, rewards>>

\* The stored Assessment has to be read and cannot be: the case raises, and
\* the Batch goes on to its failed summary.
CaseRaises(b) ==
    /\ batch[b].phase = "case" /\ pc[b] = "returned"
    /\ call[b].details /\ call[b].bug = "none" /\ call[b].outcome \in Statuses
    /\ pc' = [pc EXCEPT ![b] = "done"]
    /\ batch' = [batch EXCEPT ![b].phase = "summary", ![b].status = "failed",
                              ![b].warnings = @ \cup {<<"batch_execution_failed">>}]
    /\ UNCHANGED <<call, observations, assessments, batches, rewards>>

\* After a summary: the next case, the last summary, or the end.
AfterSummary(b) ==
    CASE batch[b].status = "failed" -> "failed"
      [] batch[b].status = "completed" -> "reward"
      [] OTHER -> NextPhase(b)

Incomplete(b) ==
    LET expected == Len(batch[b].cases)
        stored == Cardinality(StoredRows(b))
    IN  IF stored < expected
        THEN {<<"observation_persistence_incomplete", expected, stored>>} ELSE {}

\* Mutant: a failed write is not mentioned.
UpdateQuietly(b) ==
    /\ batch[b].phase = "summary"
    /\ \/ /\ batch' = [batch EXCEPT ![b].phase = AfterSummary(b),
                                    ![b].warnings = @ \cup Incomplete(b)]
          /\ batches' = [batches EXCEPT ![b] =
               Summary(batch[b].mode, batch[b].status, batch[b].cases, Cardinality(StoredRows(b)),
                       batch'[b].warnings)]
       \/ /\ batch' = [batch EXCEPT ![b].phase = AfterSummary(b)]
          /\ UNCHANGED batches
    /\ UNCHANGED <<vars, rewards>>

\* _update_batch_summary: the rows are counted, a lack of them is noted, and
\* the summary replaced; either access of the database may fail.
UpdateSummary(b) ==
    /\ batch[b].phase = "summary"
    /\ \/ /\ batch' = [batch EXCEPT ![b].phase = AfterSummary(b),
                                    ![b].warnings = @ \cup Incomplete(b)]
          /\ batches' = [batches EXCEPT ![b] =
               Summary(batch[b].mode, batch[b].status, batch[b].cases, Cardinality(StoredRows(b)),
                       batch'[b].warnings)]
       \/ /\ \E noted \in {{}, Incomplete(b)} :
               batch' = [batch EXCEPT ![b].phase = AfterSummary(b),
                 ![b].warnings = @ \cup noted \cup
                                 {<<"batch_summary_persistence_failed">>}]
          /\ UNCHANGED batches
    /\ UNCHANGED <<vars, rewards>>

\* All cases are done: the summary is written once more, as completed.
Conclude(b) ==
    /\ batch[b].phase = "ending"
    /\ batch' = [batch EXCEPT ![b].phase = "summary", ![b].status = "completed"]
    /\ UNCHANGED <<vars, batches, rewards>>

\* The rewards of all cases reach the store, and the result the caller.
GiveRewards(b) ==
    /\ batch[b].phase = "reward"
    /\ rewards' = [rewards EXCEPT ![b] =
                     [i \in DOMAIN batch[b].cases |-> Reward(b, batch[b].cases[i])]]
    /\ batch' = [batch EXCEPT ![b].phase = "returned"]
    /\ UNCHANGED <<vars, batches>>

\* KeyboardInterrupt is no Exception: no summary, no rewards.
Interrupt(b) ==
    /\ batch[b].phase \in {"ready", "case", "summary", "ending", "reward"}
    /\ batch' = [batch EXCEPT ![b].phase = "interrupted"]
    /\ UNCHANGED <<vars, batches, rewards>>

\* A call of the HTTP Tool, from its request to its result.
ToolStep(t) ==
    /\ \/ Sends < MaxSends /\ \E v \in Validities(t) : Send(t, v)
       \/ Exchange(t)
       \/ Report(t)
    /\ UNCHANGED <<batch, batches, rewards>>

\* The send of the case in progress, for as long as its thread lives.
CaseStep(b) ==
    /\ batch[b].phase = "case" /\ Exchange(b)
    /\ UNCHANGED <<batch, batches, rewards>>

\* send is called again for the next case.
NextCase(b) ==
    /\ batch[b].phase = "ready" /\ Again(b)
    /\ UNCHANGED <<batch, batches, rewards>>

BatchNext ==
    \/ \E b \in Batches :
         \/ \E mode \in {"valid", "invalid"}, n \in 1..MaxCalls : StartBatch(b, mode, n)
         \/ StartFails(b)
         \/ SendCase(b) \/ CaseStep(b) \/ EndCase(b) \/ CaseRaises(b) \/ NextCase(b)
         \/ UpdateSummary(b)
         \/ Conclude(b) \/ GiveRewards(b) \/ Interrupt(b)
    \/ \E t \in Tools : ToolStep(t)

BatchSpec == BatchInit /\ [][BatchNext]_batchVars

-----------------------------------------------------------------------------
(* Properties.                                                             *)

BatchTypeOK ==
    /\ TypeOK
    /\ \A b \in Batches :
         /\ batch[b].phase \in {"waiting", "ready", "case", "summary", "ending",
                                "reward", "returned", "failed", "interrupted"}
         /\ Len(batch[b].cases) <= batch[b].prepared
         /\ batch[b].phase \in {"waiting", "ready", "summary", "ending", "reward",
                                "returned"} => pc[b] \in {"idle", "done"}

\* One more request per candidate, for every caller and every Batch case, and the
\* caller still gets the answer of the first.
ReplaysAreExact == OneReplayPerCandidate /\ BatchCandidatesAreReplayed /\ PrimaryAnswerStands

Said(b, w) == \E x \in batch[b].warnings : x[1] = w

\* The cases that an Orchestrator reads to have been tested are ones that were, and
\* all of them once their Batches have noted their last case without a warning.
ProgressIsAccounted ==
    \A mode \in {"valid", "invalid"} :
        LET own == {b \in Batches : batches[b] # NoSummary /\ batch[b].mode = mode}
            tested == MapThenSumSet(LAMBDA b : Len(batch[b].cases), own)
        IN  /\ Progress(mode).batches = Cardinality(own)
            /\ Progress(mode).cases <= tested
            /\ (\A b \in own : /\ batch[b].phase \notin {"summary", "interrupted"}
                               /\ ~Said(b, "batch_summary_persistence_failed"))
               => Progress(mode).cases = tested

\* The stored summary is the state of the Batch at an earlier moment, and a
\* result says what it lacks: with no warning the summary is the complete one
\* and every case has its row; the evidence of a missing row is its warning.  The
\* progress that is computed from the summaries is as exact as they are.
SummaryIsAccounted ==
    /\ ProgressIsAccounted
    /\ \A b \in Batches :
        LET done == batch[b].cases
        IN  /\ batches[b] # NoSummary =>
                 /\ \E n \in 0..Len(done) : \E p \in 0..Cardinality(StoredRows(b)) :
                      batches[b] = Summary(batch[b].mode, batches[b].status, SubSeq(done, 1, n),
                                           p, batches[b].logs)
                 /\ batches[b].logs \subseteq batch[b].warnings
                 /\ batches[b].status = "completed" => batches[b].executed = batch[b].prepared
            /\ batch[b].phase = "returned" =>
                 /\ batches[b].status = "completed" \/ Said(b, "batch_summary_persistence_failed")
                 /\ Cardinality(StoredRows(b)) < Len(done) =>
                      \/ Said(b, "observation_persistence_incomplete")
                      \/ Said(b, "batch_summary_persistence_failed")
            /\ batch[b].phase = "failed" /\ batches[b] # NoSummary =>
                 batches[b].status = "failed" \/ Said(b, "batch_summary_persistence_failed")

\* Generators are rewarded for all cases of a Batch or for none, once, and for
\* a Bug only where the stored Assessment, if there is one, agrees.
RewardsAreEarned ==
    \A b \in Batches :
        /\ rewards[b] # <<>> => batch[b].phase = "returned"
        /\ batch[b].phase = "returned" => Len(rewards[b]) = batch[b].prepared
        /\ batch[b].mode = "invalid" => \A i \in DOMAIN rewards[b] :
             LET primary == <<b, i, "primary">>
             IN  primary \in DOMAIN assessments =>
                   rewards[b][i] = (assessments[primary].verdict = "reproduced")
=============================================================================
