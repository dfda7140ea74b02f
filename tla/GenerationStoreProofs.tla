------------------------- MODULE GenerationStoreProofs -------------------------
(***************************************************************************)
(* What holds of one Operation's generation state for any number of        *)
(* Patches, testers, inputs, strategies and revisions, proved with TLAPS.  *)
(***************************************************************************)
EXTENDS GenerationStore, FiniteSetTheorems, TLAPS

Plans == [revision : Nat, evidence : Nat, patch : Patches, content : Contents]

-----------------------------------------------------------------------------
(* The inductive invariant.                                                *)

\* The types the proofs need.
StoreTypes ==
  /\ State \in States
  /\ evidence \in Nat
  /\ lock \in Patchers \cup {Nobody}
  /\ pc \in [Patchers -> {"idle", "validated", "staging", "published", "committed"}]
  /\ plan \in [Patchers -> {NoPlan} \cup Plans]
  /\ before \in [Patchers -> {NotFrozen} \cup States]
  /\ frozen \in [Batches -> {NotFrozen} \cup States]

Holding == {"staging", "published", "committed"}

\* The Operation's lock is held from the checks of apply to its end; a Patch past
\* validation has a plan, made while the bound allowed another revision.
LockInv ==
  /\ \A p \in Patchers : pc[p] \in Holding <=> lock = p
  /\ \A p \in Patchers : pc[p] # "idle" =>
       plan[p] \in Plans /\ plan[p].revision < MaxRevision
  /\ revision <= MaxRevision

\* What the holder of the lock has done so far to the state it will restore.
HolderInv ==
  \A p \in Patchers : lock = p =>
    /\ before[p] \in States
    /\ before[p].content = plan[p].content
    /\ before[p].revision = plan[p].revision
    /\ Patched(before[p].content, plan[p].patch) # before[p].content
    /\ pc[p] = "staging" => State = before[p]
    /\ pc[p] \in {"published", "committed"} =>
         State = [revision |-> before[p].revision + 1,
                  content |-> Patched(before[p].content, plan[p].patch),
                  validated |-> before[p].revision + 1]

StoreInv == StoreTypes /\ LockInv /\ HolderInv

-----------------------------------------------------------------------------
(* Lemmas.                                                                 *)

\* A Patch leaves every input with a strategy.
LEMMA PatchedIsContent ==
  ASSUME NEW c \in Contents, NEW patch \in Patches
  PROVE  Patched(c, patch) \in Contents
PROOF
<1>1. PICK S \in SUBSET Inputs : patch \in [S -> Strategies]
  BY DEF Patches
<1> QED
  BY <1>1 DEF Patched, Contents

LEMMA StateFields ==
  /\ State.revision = revision
  /\ State.content = content
  /\ State.validated = validated
PROOF
<1> QED
  BY DEF State

LEMMA StoreStart == Init => StoreInv
PROOF
<1> SUFFICES ASSUME Init PROVE StoreInv
  OBVIOUS
<1>1. Initial \in Contents
  BY StoreAssumption DEF Contents, Strategies
<1>2. StoreTypes
  BY <1>1 DEF Init, StoreTypes, State, States
<1>3. LockInv
  BY StoreAssumption DEF Init, LockInv, Holding
<1>4. HolderInv
  BY StoreAssumption DEF Init, HolderInv
<1> QED
  BY <1>2, <1>3, <1>4 DEF StoreInv

\* A step that touches neither the state, nor the lock, nor a Patch.
LEMMA AsideStep ==
  ASSUME StoreInv, UNCHANGED <<store, lock, patching>>,
         evidence' \in Nat, frozen' \in [Batches -> {NotFrozen} \cup States]
  PROVE  StoreInv'
PROOF
<1> QED
  BY DEF StoreInv, StoreTypes, LockInv, HolderInv, State, store, patching

LEMMA ValidateStep ==
  ASSUME StoreInv, NEW p \in Patchers, NEW patch \in Patches, Validate(p, patch)
  PROVE  StoreInv'
PROOF
<1> USE DEF StoreInv
<1>1. /\ pc' = [pc EXCEPT ![p] = "validated"]
      /\ plan' = [plan EXCEPT ![p] = [revision |-> revision, evidence |-> evidence,
                                      patch |-> patch, content |-> content]]
      /\ lock = Nobody /\ revision < MaxRevision
      /\ UNCHANGED <<content, revision, validated, lock, evidence, before, frozen>>
  BY DEF Validate, store, testing
<1>2. content \in Contents /\ revision \in Nat /\ evidence \in Nat
  BY StateFields DEF StoreTypes, States
<1>3. [revision |-> revision, evidence |-> evidence, patch |-> patch, content |-> content]
        \in Plans
  BY <1>2 DEF Plans
<1>4. StoreTypes'
  BY <1>1, <1>3 DEF StoreTypes, State
<1>5. LockInv'
  BY <1>1, <1>3, StoreAssumption DEF StoreTypes, LockInv, Holding
<1>6. HolderInv'
  BY <1>1, StoreAssumption DEF HolderInv
<1> QED
  BY <1>4, <1>5, <1>6

LEMMA BeginStep ==
  ASSUME StoreInv, NEW p \in Patchers, BeginApply(p)
  PROVE  StoreInv'
PROOF
<1> USE DEF StoreInv
<1>1. /\ pc[p] = "validated" /\ lock = Nobody
      /\ pc' = [pc EXCEPT ![p] = "staging"] /\ lock' = p
      /\ before' = [before EXCEPT ![p] = State]
      /\ UNCHANGED <<content, revision, validated, evidence, plan, frozen>>
  BY DEF BeginApply, store, testing
<1>2. /\ plan[p].revision = revision /\ plan[p].content = content
      /\ Patched(content, plan[p].patch) # content
  BY DEF BeginApply, ApplyAccepted, DigestMatches
<1>3. StoreTypes'
  BY <1>1 DEF StoreTypes, State
<1>4. LockInv'
  BY <1>1, StoreAssumption DEF StoreTypes, LockInv, Holding
<1>5. before'[p] = State /\ State' = State /\ State \in States /\ pc'[p] = "staging"
  BY <1>1 DEF StoreTypes, State
<1>6. HolderInv'
  BY <1>1, <1>2, <1>5, StateFields DEF HolderInv
<1> QED
  BY <1>3, <1>4, <1>6

LEMMA RejectStep ==
  ASSUME StoreInv, NEW p \in Patchers, RejectApply(p)
  PROVE  StoreInv'
PROOF
<1> USE DEF StoreInv
<1>1. /\ pc[p] = "validated" /\ lock = Nobody
      /\ pc' = [pc EXCEPT ![p] = "idle"]
      /\ plan' = [plan EXCEPT ![p] = NoPlan]
      /\ UNCHANGED <<content, revision, validated, lock, evidence, before, frozen>>
  BY DEF RejectApply, store, testing
<1>2. StoreTypes'
  BY <1>1 DEF StoreTypes, State
<1>3. LockInv'
  BY <1>1, StoreAssumption DEF StoreTypes, LockInv, Holding
<1>4. HolderInv'
  BY <1>1, StoreAssumption DEF HolderInv
<1> QED
  BY <1>2, <1>3, <1>4

LEMMA PublishStep ==
  ASSUME StoreInv, NEW p \in Patchers, Publish(p)
  PROVE  StoreInv'
PROOF
<1> USE DEF StoreInv
<1>1. /\ pc[p] = "staging"
      /\ content' = Patched(content, plan[p].patch)
      /\ revision' = revision + 1 /\ validated' = revision + 1
      /\ pc' = [pc EXCEPT ![p] = "published"]
      /\ UNCHANGED <<lock, evidence, plan, before, frozen>>
  BY DEF Publish, testing
<1>2. /\ lock = p /\ plan[p] \in Plans /\ plan[p].revision < MaxRevision
      /\ plan[p].patch \in Patches /\ plan[p].revision \in Nat
  BY <1>1 DEF LockInv, Holding, Plans
<1>3. State = before[p] /\ before[p].revision = plan[p].revision /\ State \in States
  BY <1>1, <1>2 DEF HolderInv, StoreTypes
<1>4. content \in Contents /\ revision \in Nat /\ revision = plan[p].revision
      /\ content = before[p].content /\ revision = before[p].revision
  BY <1>3, StateFields DEF States
<1>5. State' = [revision |-> before[p].revision + 1,
                content |-> Patched(before[p].content, plan[p].patch),
                validated |-> before[p].revision + 1]
  BY <1>1, <1>4 DEF State
<1>6. State' \in States
  BY <1>1, <1>2, <1>4, PatchedIsContent DEF State, States
<1>7. StoreTypes'
  BY <1>1, <1>6 DEF StoreTypes
<1>8. LockInv'
  BY <1>1, <1>2, <1>4, StoreAssumption DEF StoreTypes, LockInv, Holding
<1>9. HolderInv'
  BY <1>1, <1>2, <1>5 DEF StoreTypes, HolderInv
<1> QED
  BY <1>7, <1>8, <1>9

LEMMA CommitStep ==
  ASSUME StoreInv, NEW p \in Patchers, Commit(p)
  PROVE  StoreInv'
PROOF
<1> USE DEF StoreInv
<1>1. /\ pc[p] = "published" /\ pc' = [pc EXCEPT ![p] = "committed"]
      /\ UNCHANGED <<content, revision, validated, lock, evidence, plan, before, frozen>>
  BY DEF Commit, store, testing
<1>2. StoreTypes'
  BY <1>1 DEF StoreTypes, State
<1>3. LockInv'
  BY <1>1 DEF StoreTypes, LockInv, Holding
<1>4. lock = p
  BY <1>1 DEF LockInv, Holding
<1>5. HolderInv'
  BY <1>1, <1>4 DEF StoreTypes, HolderInv, State
<1> QED
  BY <1>2, <1>3, <1>5

\* A Patch that leaves the lock, with its replacement or with what was before it.
LEMMA LeaveStep ==
  ASSUME StoreInv, NEW p \in Patchers, pc[p] \in Holding,
         FinishApply(p) \/ FailApply(p)
  PROVE  StoreInv'
PROOF
<1> USE DEF StoreInv
<1>1. /\ lock' = Nobody /\ pc' = [pc EXCEPT ![p] = "idle"]
      /\ plan' = [plan EXCEPT ![p] = NoPlan]
      /\ before' = [before EXCEPT ![p] = NotFrozen]
      /\ UNCHANGED <<evidence, frozen>>
  BY DEF FinishApply, FailApply, LeaveLock, testing
<1>2. /\ lock = p /\ before[p] \in States
      /\ before[p].revision = plan[p].revision /\ plan[p].revision < MaxRevision
      /\ State \in States
  <2>1. pc[p] # "idle" /\ lock = p
    BY DEF Holding, LockInv
  <2>2. plan[p].revision < MaxRevision
    BY <2>1 DEF LockInv
  <2>3. before[p] \in States /\ before[p].revision = plan[p].revision
    BY <2>1 DEF HolderInv
  <2> QED
    BY <2>1, <2>2, <2>3 DEF StoreTypes
<1>3. State' \in States /\ revision' <= MaxRevision
  <2>1. CASE UNCHANGED store
    BY <1>2, <2>1 DEF store, State, LockInv
  <2>2. CASE RollBack(p)
    <3>1. State' = [revision |-> before[p].revision, content |-> before[p].content,
                    validated |-> before[p].validated]
      BY <2>2 DEF RollBack, State
    <3>2. before[p].revision \in Nat
      BY <1>2 DEF States
    <3> QED
      BY <1>2, <2>2, <3>1, <3>2, StoreAssumption DEF RollBack, States
  <2> QED
    BY <2>1, <2>2 DEF FinishApply, FailApply
<1>4. StoreTypes'
  BY <1>1, <1>3 DEF StoreTypes
<1>5. LockInv'
  BY <1>1, <1>2, <1>3, StoreAssumption DEF StoreTypes, LockInv, Holding
<1>6. HolderInv'
  BY <1>1, StoreAssumption DEF HolderInv
<1> QED
  BY <1>4, <1>5, <1>6

LEMMA BatchAside ==
  ASSUME StoreInv, NEW b \in Batches, Freeze(b) \/ BatchStep(b)
  PROVE  StoreInv'
PROOF
<1>1. UNCHANGED <<store, lock, evidence, patching>>
      /\ (frozen' = [frozen EXCEPT ![b] = State] \/ frozen' = [frozen EXCEPT ![b] = NotFrozen])
  BY DEF Freeze, BatchStep, RecordFeedback, FailBatch, EndBatch
<1>2. frozen' \in [Batches -> {NotFrozen} \cup States]
  BY <1>1 DEF StoreInv, StoreTypes
<1>3. evidence' \in Nat
  BY <1>1 DEF StoreInv, StoreTypes
<1> QED
  BY <1>1, <1>2, <1>3, AsideStep

LEMMA StoreStep == StoreInv /\ [Next]_vars => StoreInv'
PROOF
<1> SUFFICES ASSUME StoreInv, [Next]_vars PROVE StoreInv'
  OBVIOUS
<1>1. CASE Observe
  BY <1>1, AsideStep DEF Observe, testing, StoreInv, StoreTypes
<1>2. ASSUME NEW p \in Patchers, NEW patch \in Patches, Validate(p, patch)
      PROVE  StoreInv'
  BY <1>2, ValidateStep
<1>3. ASSUME NEW p \in Patchers, PatchStep(p)
      PROVE  StoreInv'
  BY <1>3, BeginStep, RejectStep, PublishStep, CommitStep, LeaveStep
     DEF PatchStep, FinishApply, FailApply, Holding
<1>4. ASSUME NEW b \in Batches, Freeze(b) \/ BatchStep(b)
      PROVE  StoreInv'
  BY <1>4, BatchAside
<1>5. CASE UNCHANGED vars
  BY <1>5, AsideStep DEF vars, testing, StoreInv, StoreTypes
<1> QED
  BY <1>1, <1>2, <1>3, <1>4, <1>5 DEF Next

\* The inductive invariant holds in every state the store reaches.
THEOREM StoreIsConsistent == Spec => []StoreInv
PROOF
<1> QED
  BY StoreStart, StoreStep, PTL DEF Spec

\* A Patch publishes what was validated (apply compares the base revision and the
\* digest once it holds the lock), whatever other Patches did meanwhile.
THEOREM PatchesApplyAsValidated == Spec => []AppliedAsValidated
PROOF
<1>1. StoreInv => AppliedAsValidated
  BY StateFields DEF StoreInv, LockInv, Holding, HolderInv, AppliedAsValidated
<1> QED
  BY <1>1, StoreIsConsistent, PTL
-----------------------------------------------------------------------------
(* The store implements the versioned register.                            *)

\* What others see while a Patch holds the lock is what it will restore.
LEMMA VisibleState ==
  ASSUME StoreInv
  PROVE  /\ lock = Nobody => Visible = State
         /\ \A p \in Patchers : lock = p => Visible = before[p]
         /\ Visible \in States
         /\ Visible.revision <= MaxRevision
PROOF
<1>1. lock = Nobody => Visible = State
  BY DEF Visible
<1>2. \A p \in Patchers : lock = p => Visible = before[p]
  BY StoreAssumption DEF Visible
<1>3. ASSUME NEW p \in Patchers, lock = p
      PROVE  before[p] \in States /\ before[p].revision <= MaxRevision
  <2>1. before[p] \in States /\ before[p].revision = plan[p].revision
    BY <1>3 DEF StoreInv, HolderInv
  <2>2. pc[p] # "idle"
    BY <1>3 DEF StoreInv, LockInv, Holding
  <2>3. plan[p].revision < MaxRevision /\ before[p].revision \in Nat
    BY <2>1, <2>2 DEF StoreInv, LockInv, States
  <2> QED
    BY <2>1, <2>3, StoreAssumption
<1>4. State \in States /\ State.revision <= MaxRevision
  BY StateFields DEF StoreInv, StoreTypes, LockInv
<1> QED
  BY <1>1, <1>2, <1>3, <1>4 DEF StoreInv, StoreTypes

LEMMA PatchesAreRegisterPatches == Patches \subseteq Register!Patches
PROOF
<1>1. SUFFICES ASSUME NEW S \in SUBSET Inputs, Cardinality(S) \in 1..MaxPatched,
                      NEW patch \in [S -> Strategies]
               PROVE  patch \in Register!Patches
  BY DEF Patches
<1>2. S # {}
  BY <1>1, FS_EmptySet
<1> QED
  BY <1>2 DEF Register!Patches

\* The step that ends a Patch replaces the content in one step of the register.
LEMMA FinishReplaces ==
  ASSUME StoreInv, NEW p \in Patchers, FinishApply(p)
  PROVE  Register!Replace(plan[p].patch) /\ plan[p].patch \in Register!Patches
PROOF
<1>1. pc[p] = "committed" /\ lock = p /\ lock' = Nobody /\ UNCHANGED <<store, frozen>>
  BY DEF FinishApply, LeaveLock, testing, StoreInv, LockInv, Holding
<1>2. plan[p] \in Plans
  BY <1>1 DEF StoreInv, LockInv
<1>3. plan[p].patch \in Register!Patches
  BY <1>2, PatchesAreRegisterPatches DEF Plans
<1>4. Visible = before[p]
  BY <1>1, VisibleState
<1>5. Visible' = State'
  BY <1>1 DEF Visible
<1>6. State' = State
  BY <1>1 DEF store, State
<1>7. /\ State = [revision |-> before[p].revision + 1,
                  content |-> Patched(before[p].content, plan[p].patch),
                  validated |-> before[p].revision + 1]
      /\ Patched(before[p].content, plan[p].patch) # before[p].content
  BY <1>1 DEF StoreInv, HolderInv
<1>8. \A c : Register!Patched(c, plan[p].patch) = Patched(c, plan[p].patch)
  BY DEF Register!Patched, Patched
<1> QED
  BY <1>1, <1>3, <1>4, <1>5, <1>6, <1>7, <1>8 DEF Register!Replace

LEMMA VisibleUnchanged ==
  ASSUME StoreInv, NEW p \in Patchers,
         BeginApply(p) \/ RejectApply(p) \/ Publish(p) \/ Commit(p) \/ FailApply(p)
  PROVE  Visible' = Visible /\ frozen' = frozen
PROOF
<1>1. CASE BeginApply(p)
  <2>1. lock = Nobody /\ lock' = p /\ before'[p] = State /\ frozen' = frozen
    BY <1>1 DEF BeginApply, testing, StoreInv, StoreTypes
  <2> QED
    BY <2>1, StoreAssumption DEF Visible
<1>2. CASE RejectApply(p)
  BY <1>2 DEF RejectApply, testing, store, Visible, State
<1>3. CASE Publish(p) \/ Commit(p)
  <2>1. pc[p] \in Holding /\ UNCHANGED <<lock, before, frozen>>
    BY <1>3 DEF Publish, Commit, Holding, testing
  <2>2. lock = p
    BY <2>1 DEF StoreInv, LockInv
  <2> QED
    BY <2>1, <2>2, StoreAssumption DEF Visible
<1>4. CASE FailApply(p)
  <2>1. pc[p] \in Holding /\ lock' = Nobody /\ frozen' = frozen
    BY <1>4 DEF FailApply, LeaveLock, Holding, testing
  <2>2. lock = p
    BY <2>1 DEF StoreInv, LockInv
  <2>3. before[p] \in States
    BY <2>2 DEF StoreInv, HolderInv
  <2>4. State' = before[p]
    <3>1. CASE pc[p] = "staging"
      <4>1. State' = State
        BY <3>1, <1>4 DEF FailApply, store, State
      <4> QED
        BY <3>1, <4>1, <2>2 DEF StoreInv, HolderInv
    <3>2. CASE pc[p] # "staging"
      <4>1. State' = [revision |-> before[p].revision, content |-> before[p].content,
                      validated |-> before[p].validated]
        BY <3>2, <1>4 DEF FailApply, RollBack, State
      <4> QED
        BY <4>1, <2>3 DEF States
    <3> QED
      BY <3>1, <3>2
  <2>5. Visible' = State' /\ Visible = before[p]
    BY <2>1, <2>2, VisibleState DEF Visible
  <2> QED
    BY <2>1, <2>4, <2>5
<1> QED
  BY <1>1, <1>2, <1>3, <1>4

LEMMA RegisterStep ==
  ASSUME StoreInv, [Next]_vars
  PROVE  [Register!Next]_(Register!rvars)
PROOF
<1>1. ASSUME UNCHANGED <<Visible, frozen>>
      PROVE  [Register!Next]_(Register!rvars)
  BY <1>1 DEF Register!rvars
<1>2. ASSUME UNCHANGED <<store, lock, before, frozen>>
      PROVE  UNCHANGED <<Visible, frozen>>
  BY <1>2 DEF store, Visible, State
<1>3. ASSUME NEW p \in Patchers, PatchStep(p)
      PROVE  [Register!Next]_(Register!rvars)
  BY <1>1, <1>3, FinishReplaces, VisibleUnchanged DEF PatchStep, Register!Next
<1>4. ASSUME NEW b \in Batches, Freeze(b)
      PROVE  Register!Freeze(b)
  <2>1. /\ lock = Nobody /\ frozen' = [frozen EXCEPT ![b] = State]
        /\ UNCHANGED <<store, lock, before>>
    BY <1>4 DEF Freeze, patching
  <2>2. Visible = State /\ Visible' = Visible
    BY <2>1 DEF Visible, State, store
  <2> QED
    BY <2>1, <2>2 DEF Register!Freeze
<1>5. ASSUME NEW b \in Batches, BatchStep(b)
      PROVE  Register!Release(b)
  <2>1. /\ frozen' = [frozen EXCEPT ![b] = NotFrozen]
        /\ UNCHANGED <<store, lock, before>>
    BY <1>5 DEF BatchStep, RecordFeedback, FailBatch, EndBatch, patching
  <2>2. Visible' = Visible
    BY <2>1 DEF Visible, State, store
  <2> QED
    BY <2>1, <2>2 DEF Register!Release
<1>6. CASE Observe
  BY <1>1, <1>2, <1>6 DEF Observe, patching, testing
<1>7. ASSUME NEW p \in Patchers, NEW patch \in Patches, Validate(p, patch)
      PROVE  [Register!Next]_(Register!rvars)
  BY <1>1, <1>2, <1>7 DEF Validate, testing
<1>8. CASE UNCHANGED vars
  BY <1>1, <1>2, <1>8 DEF vars, patching, testing
<1> QED
  BY <1>3, <1>4, <1>5, <1>6, <1>7, <1>8 DEF Next, Register!Next

\* The store refines the register: no update of one Patch is lost to another, a
\* Patch that fails at any point leaves no trace, and a Batch freezes a revision
\* that is never rolled back under it (store.py, _replacement_transaction).
THEOREM StoreImplementsRegister == Spec => ImplementsRegister
PROOF
<1>1. Init => Register!Init
  <2> SUFFICES ASSUME Init PROVE Register!Init
    OBVIOUS
  <2>1. Visible = [revision |-> 0, content |-> Initial, validated |-> 0]
    BY DEF Init, Visible, State
  <2> QED
    BY <2>1 DEF Init, Register!Init
<1>2. StoreInv /\ [Next]_vars => [Register!Next]_(Register!rvars)
  BY RegisterStep
<1> QED
  BY <1>1, <1>2, StoreIsConsistent, PTL DEF Spec, ImplementsRegister, Register!Spec
-----------------------------------------------------------------------------
(* Where the statistics of a revision come from.                           *)

\* A content that stands for a revision: the visible one, one that a tester runs
\* with, or one that rewards were recorded for.
Known(r, c) ==
  \/ r = Visible.revision /\ c = Visible.content
  \/ \E b \in Batches :
       frozen[b] # NotFrozen /\ frozen[b].revision = r /\ frozen[b].content = c
  \/ r \in 0..MaxRevision /\ c \in statistics[r]

\* A revision that is used again after a rollback was never seen before it.
PureInv ==
  /\ statistics \in [0..MaxRevision -> SUBSET Contents]
  /\ \A r, c : Known(r, c) => r <= Visible.revision
  /\ \A r, c, d : Known(r, c) /\ Known(r, d) => c = d

\* A step after which nothing new stands for a revision.
LEMMA NothingNew ==
  ASSUME PureInv, Visible' = Visible,
         statistics' \in [0..MaxRevision -> SUBSET Contents],
         \A r, c : Known(r, c)' => Known(r, c)
  PROVE  PureInv'
PROOF
<1> QED
  BY DEF PureInv

LEMMA PureAside ==
  ASSUME PureInv, Visible' = Visible, UNCHANGED <<frozen, statistics>>
  PROVE  PureInv'
PROOF
<1>1. \A r, c : Known(r, c)' => Known(r, c)
  BY DEF Known
<1>2. statistics' \in [0..MaxRevision -> SUBSET Contents]
  BY DEF PureInv
<1> QED
  BY <1>1, <1>2, NothingNew

LEMMA PureFinish ==
  ASSUME StoreInv, PureInv, NEW p \in Patchers, FinishApply(p)
  PROVE  PureInv'
PROOF
<1>1. UNCHANGED <<frozen, statistics>>
  BY DEF FinishApply, testing
<1>2. Visible.revision \in Nat /\ Visible'.revision = Visible.revision + 1
  BY FinishReplaces, VisibleState DEF Register!Replace, States
<1>3. \A r, c : Known(r, c)' =>
        Known(r, c) \/ (r = Visible'.revision /\ c = Visible'.content)
  BY <1>1 DEF Known
<1>4. ASSUME NEW r, NEW c, Known(r, c)
      PROVE  r <= Visible.revision /\ r \in Nat
  <2>1. r <= Visible.revision
    BY <1>4 DEF PureInv
  <2>2. CASE r = Visible.revision
    BY <2>1, <2>2, <1>2
  <2>3. CASE \E b \in Batches : frozen[b] # NotFrozen /\ frozen[b].revision = r
    BY <2>1, <2>3 DEF StoreInv, StoreTypes, States
  <2>4. CASE r \in 0..MaxRevision
    BY <2>1, <2>4, StoreAssumption
  <2> QED
    BY <1>4, <2>2, <2>3, <2>4 DEF Known
<1>5. \A r, c : Known(r, c)' => r <= Visible'.revision
  BY <1>2, <1>3, <1>4
<1>6. \A r, c, d : Known(r, c)' /\ Known(r, d)' => c = d
  BY <1>2, <1>3, <1>4 DEF PureInv
<1> QED
  BY <1>1, <1>5, <1>6 DEF PureInv

LEMMA PureBatch ==
  ASSUME StoreInv, PureInv, NEW b \in Batches, Freeze(b) \/ BatchStep(b)
  PROVE  PureInv'
PROOF
<1>1. UNCHANGED <<store, lock, before>>
  BY DEF Freeze, BatchStep, RecordFeedback, FailBatch, EndBatch, patching
<1>2. Visible' = Visible
  BY <1>1 DEF Visible, State, store
<1>3. CASE Freeze(b)
  <2>1. /\ lock = Nobody /\ frozen' = [frozen EXCEPT ![b] = State]
        /\ statistics' = statistics
    BY <1>3 DEF Freeze
  <2>2. \A r, c : Known(r, c)' => Known(r, c)
    BY <1>2, <2>1, VisibleState DEF Known, StoreInv, StoreTypes
  <2> QED
    BY <1>2, <2>1, <2>2, NothingNew DEF PureInv
<1>4. CASE RecordFeedback(b)
  <2>1. /\ frozen[b] # NotFrozen
        /\ frozen' = [frozen EXCEPT ![b] = NotFrozen]
        /\ statistics' = [statistics EXCEPT
                            ![frozen[b].revision] = @ \cup {frozen[b].content}]
    BY <1>4 DEF RecordFeedback, EndBatch
  <2>2. frozen[b].content \in Contents
    BY <2>1 DEF StoreInv, StoreTypes, States
  <2>3. statistics' \in [0..MaxRevision -> SUBSET Contents]
    BY <2>1, <2>2 DEF PureInv
  <2>4. ASSUME NEW r \in 0..MaxRevision, NEW c \in statistics'[r]
        PROVE  Known(r, c)
    <3>1. c \in statistics[r] \/ (r = frozen[b].revision /\ c = frozen[b].content)
      BY <2>1, <2>4 DEF PureInv
    <3> QED
      BY <2>1, <3>1 DEF Known
  <2>5. ASSUME NEW a \in Batches, frozen'[a] # NotFrozen
        PROVE  frozen[a] # NotFrozen /\ frozen'[a] = frozen[a]
    BY <2>1, <2>5 DEF StoreInv, StoreTypes
  <2>6. \A r, c : Known(r, c)' => Known(r, c)
    BY <1>2, <2>4, <2>5 DEF Known
  <2> QED
    BY <1>2, <2>3, <2>6, NothingNew
<1>5. CASE FailBatch(b)
  <2>1. frozen' = [frozen EXCEPT ![b] = NotFrozen] /\ statistics' = statistics
    BY <1>5 DEF FailBatch, EndBatch
  <2>2. \A r, c : Known(r, c)' => Known(r, c)
    BY <1>2, <2>1 DEF Known, StoreInv, StoreTypes
  <2> QED
    BY <1>2, <2>1, <2>2, NothingNew DEF PureInv
<1> QED
  BY <1>3, <1>4, <1>5 DEF BatchStep

LEMMA PureStep ==
  ASSUME StoreInv, PureInv, [Next]_vars
  PROVE  PureInv'
PROOF
<1>1. ASSUME UNCHANGED <<store, lock, before, frozen, statistics>>
      PROVE  PureInv'
  BY <1>1, PureAside DEF store, Visible, State
<1>2. ASSUME NEW p \in Patchers, PatchStep(p)
      PROVE  PureInv'
  <2>1. CASE FinishApply(p)
    BY <2>1, PureFinish
  <2>2. CASE ~FinishApply(p)
    <3>1. statistics' = statistics
      BY <1>2 DEF PatchStep, BeginApply, RejectApply, Publish, Commit, FinishApply, FailApply
    <3> QED
      BY <1>2, <2>2, <3>1, VisibleUnchanged, PureAside DEF PatchStep
  <2> QED
    BY <2>1, <2>2
<1>3. CASE Observe
  BY <1>1, <1>3 DEF Observe, patching, testing
<1>4. ASSUME NEW p \in Patchers, NEW patch \in Patches, Validate(p, patch)
      PROVE  PureInv'
  BY <1>1, <1>4 DEF Validate, testing
<1>5. ASSUME NEW b \in Batches, Freeze(b) \/ BatchStep(b)
      PROVE  PureInv'
  BY <1>5, PureBatch
<1>6. CASE UNCHANGED vars
  BY <1>1, <1>6 DEF vars, patching, testing
<1> QED
  BY <1>2, <1>3, <1>4, <1>5, <1>6 DEF Next

\* Rewards of different Generators are never added together, although a rollback
\* gives a revision number back: no Batch can have seen it (_record_generator_feedback).
THEOREM RewardsStayWithTheirRevision == Spec => []StatisticsArePure
PROOF
<1>1. Init => PureInv
  <2> SUFFICES ASSUME Init PROVE PureInv
    OBVIOUS
  <2>1. /\ Visible = State /\ State.revision = 0
        /\ frozen = [b \in Batches |-> NotFrozen]
        /\ statistics = [r \in 0..MaxRevision |-> {}]
    BY DEF Init, Visible, State
  <2>2. \A r, c : Known(r, c) => r = 0 /\ c = Visible.content
    BY <2>1 DEF Known
  <2> QED
    BY <2>1, <2>2 DEF PureInv
<1>2. StoreInv /\ PureInv /\ [Next]_vars => PureInv'
  BY PureStep
<1>3. PureInv => StatisticsArePure
  <2> SUFFICES ASSUME PureInv, NEW r \in 0..MaxRevision
               PROVE  /\ Cardinality(statistics[r]) <= 1
                      /\ r = Visible.revision => statistics[r] \subseteq {Visible.content}
    BY DEF StatisticsArePure
  <2>1. \A c, d \in statistics[r] : c = d
    BY DEF PureInv, Known
  <2>2. Cardinality(statistics[r]) <= 1
    <3>1. CASE statistics[r] = {}
      BY <3>1, FS_EmptySet
    <3>2. CASE statistics[r] # {}
      <4>1. PICK c : statistics[r] = {c}
        BY <2>1, <3>2
      <4>2. Cardinality({c}) = 1
        BY FS_Singleton
      <4> QED
        BY <4>1, <4>2
    <3> QED
      BY <3>1, <3>2
  <2>3. r = Visible.revision => statistics[r] \subseteq {Visible.content}
    BY DEF PureInv, Known
  <2> QED
    BY <2>2, <2>3
<1> QED
  BY <1>1, <1>2, <1>3, StoreIsConsistent, PTL DEF Spec

-----------------------------------------------------------------------------
(* The input-source rows in the database.                                  *)

DurableInv ==
  /\ BindingsAreDurable
  /\ \A p \in Patchers : pc[p] = "committed" => Bindings(content) \subseteq durable

\* The bindings a Patch leaves are those of the content it makes.
LEMMA BindingsOfPatched ==
  ASSUME NEW c \in Contents, NEW patch \in Patches
  PROVE  /\ Bindings(Patched(c, patch)) = FinalBindings(c, patch)
         /\ ~NeedsTransaction(c, patch) => Bindings(Patched(c, patch)) \subseteq Bindings(c)
PROOF
<1>1. PICK S \in SUBSET Inputs : patch \in [S -> Strategies]
  BY DEF Patches
<1>2. \A i \in Inputs : Patched(c, patch)[i] = IF i \in S THEN patch[i] ELSE c[i]
  BY <1>1 DEF Patched
<1>3. Bindings(Patched(c, patch)) = FinalBindings(c, patch)
  BY <1>1, <1>2 DEF Bindings, FinalBindings
<1>4. ASSUME ~NeedsTransaction(c, patch)
      PROVE  Bindings(Patched(c, patch)) \subseteq Bindings(c)
  <2>1. \A i \in S : patch[i] \notin References
    BY <1>1, <1>4 DEF NeedsTransaction, UsesEvidence
  <2> QED
    BY <1>2, <2>1 DEF Bindings
<1> QED
  BY <1>3, <1>4

LEMMA DurableStep ==
  ASSUME StoreInv, DurableInv, [Next]_vars
  PROVE  DurableInv'
PROOF
<1>1. ASSUME UNCHANGED <<store, lock, before, frozen, durable>>,
             \A p \in Patchers : pc'[p] = "committed" => pc[p] = "committed"
      PROVE  DurableInv'
  BY <1>1 DEF DurableInv, BindingsAreDurable, Visible, State, store, Bindings
<1>2. ASSUME NEW p \in Patchers, BeginApply(p) \/ RejectApply(p) \/ Publish(p) \/ FailApply(p)
      PROVE  DurableInv'
  <2>1. Visible' = Visible /\ frozen' = frozen /\ durable' = durable
    BY <1>2, VisibleUnchanged DEF BeginApply, RejectApply, Publish, FailApply
  <2>2. BindingsAreDurable'
    BY <2>1 DEF DurableInv, BindingsAreDurable, Bindings
  <2>3. ASSUME NEW q \in Patchers, pc'[q] = "committed"
        PROVE  Bindings(content)' \subseteq durable'
    <3>1. q # p /\ pc[q] = "committed"
      BY <1>2, <2>3 DEF BeginApply, RejectApply, Publish, FailApply, LeaveLock, StoreInv,
                        StoreTypes
    <3>2. lock = q
      BY <3>1 DEF StoreInv, LockInv, Holding
    <3>3. pc[p] \notin Holding
      BY <3>1, <3>2 DEF StoreInv, LockInv
    <3>4. RejectApply(p) \/ BeginApply(p)
      BY <1>2, <3>3 DEF Publish, FailApply, Holding
    <3>5. content' = content
      BY <3>4 DEF RejectApply, BeginApply, store
    <3> QED
      BY <2>1, <3>1, <3>5 DEF DurableInv, Bindings
  <2> QED
    BY <2>2, <2>3 DEF DurableInv
<1>3. ASSUME NEW p \in Patchers, Commit(p)
      PROVE  DurableInv'
  <2>1. /\ pc[p] = "published" /\ pc' = [pc EXCEPT ![p] = "committed"]
        /\ content' = content /\ frozen' = frozen
        /\ durable' = IF NeedsTransaction(before[p].content, plan[p].patch)
                      THEN durable \cup FinalBindings(before[p].content, plan[p].patch)
                      ELSE durable
    BY <1>3 DEF Commit, store, testing
  <2>2. lock = p /\ plan[p] \in Plans
    BY <2>1 DEF StoreInv, LockInv, Holding
  <2>3. /\ before[p] \in States
        /\ content = Patched(before[p].content, plan[p].patch)
    BY <2>1, <2>2, StateFields DEF StoreInv, HolderInv
  <2>4. Visible = before[p] /\ Visible' = Visible
    BY <1>3, <2>2, VisibleState, VisibleUnchanged
  <2>5. before[p].content \in Contents /\ plan[p].patch \in Patches
    BY <2>2, <2>3 DEF States, Plans
  <2>6. Bindings(content) \subseteq durable'
    BY <2>1, <2>3, <2>4, <2>5, BindingsOfPatched DEF DurableInv, BindingsAreDurable
  <2>7. durable \subseteq durable'
    BY <2>1
  <2>8. BindingsAreDurable'
    BY <2>1, <2>4, <2>7 DEF DurableInv, BindingsAreDurable, Bindings
  <2> QED
    BY <2>1, <2>6, <2>8 DEF DurableInv, Bindings
<1>4. ASSUME NEW p \in Patchers, FinishApply(p)
      PROVE  DurableInv'
  <2>1. /\ pc[p] = "committed" /\ pc' = [pc EXCEPT ![p] = "idle"] /\ lock' = Nobody
        /\ UNCHANGED <<content, revision, validated, durable, frozen>>
    BY <1>4 DEF FinishApply, LeaveLock, store, testing
  <2>2. Visible'.content = content
    BY <2>1 DEF Visible, State
  <2>3. BindingsAreDurable'
    BY <2>1, <2>2 DEF DurableInv, BindingsAreDurable, Bindings
  <2>4. \A q \in Patchers : pc'[q] # "committed"
    BY <2>1 DEF StoreInv, StoreTypes, LockInv, Holding
  <2> QED
    BY <2>3, <2>4 DEF DurableInv
<1>5. ASSUME NEW b \in Batches, Freeze(b) \/ BatchStep(b)
      PROVE  DurableInv'
  <2>1. /\ UNCHANGED <<content, revision, validated, lock, before, pc, durable>>
        /\ frozen' = [frozen EXCEPT ![b] = NotFrozen]
              \/ (frozen' = [frozen EXCEPT ![b] = State] /\ lock = Nobody)
    BY <1>5 DEF Freeze, BatchStep, RecordFeedback, FailBatch, EndBatch, patching, store
  <2>2. Visible' = Visible /\ (lock = Nobody => Visible = State)
    BY <2>1 DEF Visible, State
  <2>3. \A a \in Batches : frozen'[a] # NotFrozen =>
          frozen'[a] = frozen[a] \/ frozen'[a] = Visible
    BY <2>1, <2>2 DEF StoreInv, StoreTypes
  <2>4. BindingsAreDurable'
    BY <2>1, <2>2, <2>3 DEF DurableInv, BindingsAreDurable, Bindings
  <2> QED
    BY <2>1, <2>4 DEF DurableInv, Bindings
<1>6. CASE Observe
  BY <1>1, <1>6 DEF Observe, patching, testing
<1>7. ASSUME NEW p \in Patchers, NEW patch \in Patches, Validate(p, patch)
      PROVE  DurableInv'
  <2>1. \A q \in Patchers : pc'[q] = "committed" => pc[q] = "committed"
    BY <1>7 DEF Validate, StoreInv, StoreTypes
  <2> QED
    BY <1>1, <1>7, <2>1 DEF Validate, testing
<1>8. CASE UNCHANGED vars
  BY <1>1, <1>8 DEF vars, patching, testing
<1> QED
  BY <1>2, <1>3, <1>4, <1>5, <1>6, <1>7, <1>8 DEF Next, PatchStep

\* Every reference a reader or a Batch can meet has its row in the database: a
\* Patch without a transaction only ever removes references (needs_reference_transaction).
THEOREM ReferencesAreDurable == Spec => []BindingsAreDurable
PROOF
<1>1. Init => DurableInv
  <2> SUFFICES ASSUME Init PROVE DurableInv
    OBVIOUS
  <2>1. Visible.content = Initial
    BY DEF Init, Visible, State
  <2>2. Bindings(Initial) = {}
    BY StoreAssumption DEF Bindings, References
  <2> QED
    BY <2>1, <2>2 DEF Init, DurableInv, BindingsAreDurable
<1>2. StoreInv /\ DurableInv /\ [Next]_vars => DurableInv'
  BY DurableStep
<1>3. DurableInv => BindingsAreDurable
  BY DEF DurableInv
<1> QED
  BY <1>1, <1>2, <1>3, StoreIsConsistent, PTL DEF Spec
=============================================================================
