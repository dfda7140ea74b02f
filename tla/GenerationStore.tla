-------------------------- MODULE GenerationStore --------------------------
(***************************************************************************)
(* The generation state of one Operation, the Parameter Patches that       *)
(* replace it and the Batches that run with it                             *)
(* (restscope/request_generation/store.py and parameter_patch/runtime.py,  *)
(* with the reference rows staged by reference_values.py).                 *)
(*                                                                         *)
(* Agents patch and test concurrently.  Validation reads a snapshot and    *)
(* holds no lock; application holds the Operation's lock from its checks   *)
(* through the database commit; a Batch freezes its snapshot under the     *)
(* same lock and reports its rewards long after.                           *)
(*                                                                         *)
(* The content of a revision is the strategy of each input: a plain one,   *)
(* or a reference to an observed response value or resource identifier.    *)
(* The reference bindings are read off it, and its digest is the content   *)
(* itself.                                                                 *)
(***************************************************************************)
EXTENDS Naturals, FiniteSets

CONSTANTS
  Inputs,
  Plain,                  \* strategies that need no evidence
  ValueSources,           \* response_value references
  ResourceSources,        \* resource_identifier references
  Initial,                \* the revision-zero content
  Patchers, Batches,
  Nobody, NotFrozen, NoPlan,
  MaxPatched,             \* bound: inputs changed by one Patch
  MaxRevision,            \* bound: committed revisions
  MaxEvidence,            \* bound: changes of the observed evidence
  MaxBatches              \* bound: Batches run by each tester

Strategies == Plain \cup ValueSources \cup ResourceSources
References == ValueSources \cup ResourceSources
Contents == [Inputs -> Strategies]

ASSUME StoreAssumption ==
  /\ Initial \in [Inputs -> Plain]
  /\ Nobody \notin Patchers
  /\ Plain \cap References = {} /\ ValueSources \cap ResourceSources = {}
  /\ NotFrozen \notin [revision : Nat, content : Contents, validated : Nat]
  /\ MaxPatched \in Nat /\ MaxRevision \in Nat /\ MaxEvidence \in Nat /\ MaxBatches \in Nat

VARIABLES
  content, revision,      \* _MutableOperationState
  validated,              \* last_applied_validation_digest, by its revision
  lock,                   \* who holds the Operation's lock
  evidence,               \* which observations the reference values come from
  durable,                \* the input-source rows committed to the database
  statistics,             \* _selection_statistics: who contributed, by revision
  pc, plan,               \* each Patch: where it is, and what was validated
  before,                 \* _OperationReplacement.before
  frozen, batchesRun      \* each Batch

store == <<content, revision, validated>>
patching == <<pc, plan, before>>
testing == <<frozen, batchesRun>>
vars == <<store, lock, evidence, durable, statistics, patching, testing>>

Patches == UNION {[S -> Strategies] : S \in {T \in SUBSET Inputs : Cardinality(T) \in 1..MaxPatched}}
Patched(c, patch) ==
  [i \in Inputs |-> IF i \in DOMAIN patch THEN patch[i] ELSE c[i]]

\* A binding is the input and the source it takes its values from.
Bindings(c) == {<<i, c[i]>> : i \in {j \in Inputs : c[j] \in References}}

\* _final_reference_bindings: those of untouched inputs stay, and each changed
\* input that selected a source gets the new one.
FinalBindings(c, patch) ==
  {b \in Bindings(c) : b[1] \notin DOMAIN patch} \cup
  {<<i, patch[i]>> : i \in {j \in DOMAIN patch : patch[j] \in References}}

\* The samples of a Patch depend on observed evidence if it selects a source.
UsesEvidence(patch) == \E i \in DOMAIN patch : patch[i] \in References

\* Mutant: only response-value sources open a transaction.
NeedsTransactionForValues(c, patch) ==
  \E i \in DOMAIN patch : {c[i], patch[i]} \cap ValueSources # {}

\* needs_reference_transaction
NeedsTransaction(c, patch) ==
  \/ UsesEvidence(patch)
  \/ \E i \in DOMAIN patch : c[i] \in ValueSources

\* _freeze_state
State == [revision |-> revision, content |-> content, validated |-> validated]

Init ==
  /\ content = Initial
  /\ revision = 0
  /\ validated = 0
  /\ lock = Nobody
  /\ evidence = 0
  /\ durable = {}
  /\ statistics = [r \in 0..MaxRevision |-> {}]
  /\ pc = [p \in Patchers |-> "idle"]
  /\ plan = [p \in Patchers |-> NoPlan]
  /\ before = [p \in Patchers |-> NotFrozen]
  /\ frozen = [b \in Batches |-> NotFrozen]
  /\ batchesRun = [b \in Batches |-> 0]

-----------------------------------------------------------------------------
(* The world: another observation changes what references resolve to.      *)

Observe ==
  /\ evidence < MaxEvidence
  /\ evidence' = evidence + 1
  /\ UNCHANGED <<store, lock, durable, statistics, patching, testing>>

-----------------------------------------------------------------------------
(* A Parameter Patch.                                                      *)

\* validate: one locked read of the state, then no lock.
Validate(p, patch) ==
  /\ pc[p] = "idle" /\ lock = Nobody /\ revision < MaxRevision
  /\ pc' = [pc EXCEPT ![p] = "validated"]
  /\ plan' = [plan EXCEPT ![p] = [revision |-> revision, evidence |-> evidence,
                                  patch |-> patch, content |-> content]]
  /\ UNCHANGED <<store, lock, evidence, durable, statistics, before, testing>>

\* apply: the checks that are made once the lock is held.
DigestMatches(p) ==
  /\ plan[p].content = content
  /\ UsesEvidence(plan[p].patch) => plan[p].evidence = evidence
\* Mutant: application trusts the validation.
ApplyUnchecked(p) == Patched(content, plan[p].patch) # content

ApplyAccepted(p) ==
  /\ plan[p].revision = revision
  /\ DigestMatches(p)
  /\ Patched(content, plan[p].patch) # content

BeginApply(p) ==
  /\ pc[p] = "validated" /\ lock = Nobody
  /\ ApplyAccepted(p)
  /\ lock' = p
  /\ before' = [before EXCEPT ![p] = State]
  /\ pc' = [pc EXCEPT ![p] = "staging"]
  /\ UNCHANGED <<store, evidence, durable, statistics, plan, testing>>

\* A conflict, a changed digest, or a Patch that changes nothing.
RejectApply(p) ==
  /\ pc[p] = "validated" /\ lock = Nobody
  /\ ~ApplyAccepted(p)
  /\ pc' = [pc EXCEPT ![p] = "idle"]
  /\ plan' = [plan EXCEPT ![p] = NoPlan]
  /\ UNCHANGED <<store, lock, evidence, durable, statistics, before, testing>>

\* publish, inside the open database transaction when one is needed.
Publish(p) ==
  /\ pc[p] = "staging"
  /\ content' = Patched(content, plan[p].patch)
  /\ revision' = revision + 1
  /\ validated' = revision + 1
  /\ pc' = [pc EXCEPT ![p] = "published"]
  /\ UNCHANGED <<lock, evidence, durable, statistics, plan, before, testing>>

\* Leaving the staged transaction commits the source rows.
Commit(p) ==
  /\ pc[p] = "published"
  /\ pc' = [pc EXCEPT ![p] = "committed"]
  /\ durable' = IF NeedsTransaction(before[p].content, plan[p].patch)
                THEN durable \cup FinalBindings(before[p].content, plan[p].patch)
                ELSE durable
  /\ UNCHANGED <<store, lock, evidence, statistics, plan, before, testing>>

LeaveLock(p) ==
  /\ lock' = Nobody
  /\ pc' = [pc EXCEPT ![p] = "idle"]
  /\ plan' = [plan EXCEPT ![p] = NoPlan]
  /\ before' = [before EXCEPT ![p] = NotFrozen]

FinishApply(p) ==
  /\ pc[p] = "committed"
  /\ LeaveLock(p)
  /\ UNCHANGED <<store, evidence, durable, statistics, testing>>

\* Mutant: the revision survives the rollback.
RollBackKeepsRevision(p) ==
  /\ content' = before[p].content
  /\ validated' = before[p].validated
  /\ UNCHANGED revision

\* Staging fails, the commit fails, or an error escapes after the commit: the
\* replacement transaction restores what publish replaced.
RollBack(p) ==
  /\ content' = before[p].content
  /\ revision' = before[p].revision
  /\ validated' = before[p].validated

FailApply(p) ==
  /\ pc[p] \in {"staging", "published", "committed"}
  /\ IF pc[p] = "staging" THEN UNCHANGED store ELSE RollBack(p)
  /\ LeaveLock(p)
  /\ UNCHANGED <<evidence, durable, statistics, testing>>

-----------------------------------------------------------------------------
(* A Batch.                                                                *)

\* _snapshot_with: the state and the statistics of its revision, under the lock.
Freeze(b) ==
  /\ frozen[b] = NotFrozen /\ lock = Nobody /\ batchesRun[b] < MaxBatches
  /\ frozen' = [frozen EXCEPT ![b] = State]
  /\ UNCHANGED <<store, lock, evidence, durable, statistics, patching, batchesRun>>

EndBatch(b) ==
  /\ frozen' = [frozen EXCEPT ![b] = NotFrozen]
  /\ batchesRun' = [batchesRun EXCEPT ![b] = @ + 1]
  /\ UNCHANGED <<store, lock, evidence, durable, patching>>

\* Mutant: rewards go to the revision current when they are reported.
RecordFeedbackToCurrent(b) ==
  /\ frozen[b] # NotFrozen
  /\ statistics' = [statistics EXCEPT ![revision] = @ \cup {frozen[b].content}]
  /\ EndBatch(b)

\* _record_generator_feedback: rewards go to the frozen revision.
RecordFeedback(b) ==
  /\ frozen[b] # NotFrozen
  /\ statistics' = [statistics EXCEPT ![frozen[b].revision] = @ \cup {frozen[b].content}]
  /\ EndBatch(b)

\* A Batch that fails reports nothing.
FailBatch(b) ==
  /\ frozen[b] # NotFrozen
  /\ EndBatch(b)
  /\ UNCHANGED statistics

-----------------------------------------------------------------------------
PatchStep(p) ==
  \/ BeginApply(p) \/ RejectApply(p)
  \/ Publish(p) \/ Commit(p) \/ FinishApply(p) \/ FailApply(p)

BatchStep(b) == RecordFeedback(b) \/ FailBatch(b)

Next ==
  \/ Observe
  \/ \E p \in Patchers : PatchStep(p) \/ \E patch \in Patches : Validate(p, patch)
  \/ \E b \in Batches : Freeze(b) \/ BatchStep(b)

Spec == Init /\ [][Next]_vars

-----------------------------------------------------------------------------
(* Properties.                                                             *)

States == [revision : Nat, content : Contents, validated : Nat]

\* Types of the variables.
TypeOK ==
  /\ content \in Contents
  /\ revision \in Nat /\ validated \in Nat /\ evidence \in Nat
  /\ lock \in Patchers \cup {Nobody}
  /\ durable \subseteq Inputs \X References
  /\ statistics \in [0..MaxRevision -> SUBSET Contents]
  /\ pc \in [Patchers -> {"idle", "validated", "staging", "published", "committed"}]
  /\ plan \in [Patchers -> {NoPlan} \cup [revision : Nat, evidence : Nat,
                                          patch : Patches, content : Contents]]
  /\ before \in [Patchers -> {NotFrozen} \cup States]
  /\ frozen \in [Batches -> {NotFrozen} \cup States]
  /\ batchesRun \in [Batches -> Nat]

\* What anyone else can see: the content published by a Patch that still holds
\* the lock is not part of it.
Visible == IF lock = Nobody THEN State ELSE before[lock]

\* The store implements the versioned register: no update is lost to a concurrent
\* Patch, a Patch that fails at any point leaves no trace, and a Batch never runs
\* with a revision that is rolled back under it.
Register == INSTANCE PatchRegister WITH current <- Visible
ImplementsRegister == Register!Spec

\* What a Patch publishes is what was validated: two Patches validated against
\* the same revision are never merged, although neither held the lock then.
AppliedAsValidated ==
  \A p \in Patchers : pc[p] \in {"published", "committed"} =>
    content = Patched(plan[p].content, plan[p].patch)

\* The statistics of a revision come from one content: although a revision number
\* is used again after a rollback, rewards earned with different Generators are
\* never added together, however late they are reported.
StatisticsArePure ==
  \A r \in 0..MaxRevision :
    /\ Cardinality(statistics[r]) <= 1
    /\ r = Visible.revision => statistics[r] \subseteq {Visible.content}

\* Every reference a Batch or a reader can meet has its input-source row in the
\* database, including when the Patch that dropped or kept it opened no
\* transaction of its own.
BindingsAreDurable ==
  /\ Bindings(Visible.content) \subseteq durable
  /\ \A b \in Batches : frozen[b] # NotFrozen => Bindings(frozen[b].content) \subseteq durable
=============================================================================
