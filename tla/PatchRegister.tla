--------------------------- MODULE PatchRegister ---------------------------
(***************************************************************************)
(* What the request-generation store promises about one Operation: a       *)
(* versioned register.  A Parameter Patch that succeeds replaces the       *)
(* content it was validated against, in one step, and makes the next       *)
(* revision; a Patch that fails is never seen.  A Batch freezes one        *)
(* revision with the content that revision stands for.                     *)
(***************************************************************************)
EXTENDS Naturals

CONSTANTS
  Inputs, Strategies,     \* what a Patch changes, and to what
  Initial,                \* the content built from the OpenAPI document
  Batches, NotFrozen

VARIABLES
  current,                \* [revision, content, validated] of the Operation, where
                          \* validated is the revision its last digest belongs to
  frozen                  \* what each Batch runs with

rvars == <<current, frozen>>

\* A Patch names the inputs it changes, each with a new strategy.
Patches == UNION {[S -> Strategies] : S \in (SUBSET Inputs) \ {{}}}
Patched(content, patch) ==
  [i \in Inputs |-> IF i \in DOMAIN patch THEN patch[i] ELSE content[i]]

Init ==
  /\ current = [revision |-> 0, content |-> Initial, validated |-> 0]
  /\ frozen = [b \in Batches |-> NotFrozen]

Replace(patch) ==
  /\ Patched(current.content, patch) # current.content
  /\ current' = [revision |-> current.revision + 1,
                 content |-> Patched(current.content, patch),
                 validated |-> current.revision + 1]
  /\ UNCHANGED frozen

Freeze(b) ==
  /\ frozen' = [frozen EXCEPT ![b] = current]
  /\ UNCHANGED current

Release(b) ==
  /\ frozen' = [frozen EXCEPT ![b] = NotFrozen]
  /\ UNCHANGED current

Next ==
  \/ \E patch \in Patches : Replace(patch)
  \/ \E b \in Batches : Freeze(b) \/ Release(b)

Spec == Init /\ [][Next]_rvars
=============================================================================
