-------------------------- MODULE SubagentContract --------------------------
(***************************************************************************)
(* What the tree control promises the Agents of one tree about Subagents   *)
(* (agent_control.py; ADR 0001, "Asynchronous tree control"): a Subagent   *)
(* is owned by the running Agent that started it, holds one of the slots   *)
(* from its start until its owner collects its result, ends once, and is   *)
(* collected once, only after it has ended.                                *)
(***************************************************************************)
EXTENDS Naturals, FiniteSets

CONSTANTS
  Root, Children, NoAgent,
  Capacity      \* slots, the root's own included

VARIABLES
  stage,        \* what each Subagent has reached
  owner,        \* who started it
  result        \* how it ended

cvars == <<stage, owner, result>>

Results == {"completed", "failed", "cancelled"}
Stages == {"absent", "queued", "running", "ended", "collected"}

Holding == {c \in Children : stage[c] \in {"queued", "running", "ended"}}

Init ==
  /\ stage = [c \in Children |-> "absent"]
  /\ owner = [c \in Children |-> NoAgent]
  /\ result = [c \in Children |-> "running"]

MayOwn(a) == a = Root \/ (a \in Children /\ stage[a] = "running")

Start(a, c) ==
  /\ MayOwn(a) /\ stage[c] = "absent"
  /\ Cardinality(Holding) + 1 < Capacity
  /\ stage' = [stage EXCEPT ![c] = "queued"]
  /\ owner' = [owner EXCEPT ![c] = a]
  /\ UNCHANGED result

Run(c) ==
  /\ stage[c] = "queued"
  /\ stage' = [stage EXCEPT ![c] = "running"]
  /\ UNCHANGED <<owner, result>>

Finish(c, r) ==
  /\ stage[c] = "running"
  /\ stage' = [stage EXCEPT ![c] = "ended"]
  /\ result' = [result EXCEPT ![c] = r]
  /\ UNCHANGED owner

\* One wait collects every ended child it awaited.
Collect(a, S) ==
  /\ MayOwn(a) /\ S # {}
  /\ \A c \in S : stage[c] = "ended" /\ owner[c] = a
  /\ stage' = [c \in Children |-> IF c \in S THEN "collected" ELSE stage[c]]
  /\ UNCHANGED <<owner, result>>

Next ==
  \/ \E a \in Children \cup {Root}, c \in Children : Start(a, c)
  \/ \E c \in Children : Run(c)
  \/ \E c \in Children, r \in Results : Finish(c, r)
  \/ \E a \in Children \cup {Root}, S \in SUBSET Children : Collect(a, S)

Spec == Init /\ [][Next]_cvars
=============================================================================
