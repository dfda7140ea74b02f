----------------------------- MODULE MCRunViewer -----------------------------
(* A run nobody looks at, whose Subagents' threads begin when the card of   *)
(* the turn that started them is stored, and a run with a page open that    *)
(* has an Orchestration and the cards of Watched.                           *)
EXTENDS RunViewer

CONSTANT Watched

Opening == {"idle", "active", "ordered"}

MCNext ==
  /\ ViewerNext
  /\ conn = "none" =>
       /\ UNCHANGED orchestration
       /\ \A s \in Watched : UNCHANGED pc[s]
       /\ \A s \in Side : pc'[s] # "idle" => \A r \in Root : pc[r] \notin Opening
  /\ losses' # losses => inflight # << >>      \* a loss that loses something
  /\ conn # "none" => \A s \in Spans \ Watched : UNCHANGED pc[s]

MCSpec == ViewerInit /\ [][MCNext]_viewerVars /\ PageReads
=============================================================================
