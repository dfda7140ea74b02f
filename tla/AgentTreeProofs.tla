--------------------------- MODULE AgentTreeProofs ---------------------------
(***************************************************************************)
(* What holds of an Agent tree of any size, with any number of slots and   *)
(* permits and conversations of any length, proved with TLAPS.             *)
(***************************************************************************)
EXTENDS AgentTree, FiniteSetTheorems, TLAPS

-----------------------------------------------------------------------------
(* The inductive invariant.                                                *)

Over == {"closing", "stopping", "closed", "ended"}
Before == {"idle", "built", "starting"}

\* The records: what is collected has ended, the root's record stays open, and
\* what an Agent waits for is its own and not collected by anybody else.
CollectedHasEnded == \A a \in Agents : collected[a] => status[a] \in Terminal
RootIsOpen == status[Root] = "running" /\ ~collected[Root]
AwaitedAreOwn ==
  \A a \in Agents : \A c \in DOMAIN seen[a] : c \in Open /\ parent[c] = a

SlotInv == SlotAccounting /\ CollectedHasEnded /\ RootIsOpen /\ AwaitedAreOwn

\* The threads: a Subagent's thread exists while its record says running, whoever
\* owns a Subagent has begun its loop, and whoever concludes has a verdict.
ThreadsMatchRecords ==
  \A c \in Children :
    /\ status[c] \in {"absent", "queued"} => pc[c] = "idle"
    /\ pc[c] \notin {"idle", "ended"} => status[c] = "running"
OwnersHaveBegun ==
  \A c \in Children : status[c] # "absent" =>
    /\ parent[c] \in Agents
    /\ pc[parent[c]] \notin Before
ConcludedHasVerdict == \A a \in Agents : pc[a] \in Over => verdict[a] \in Terminal

FlowInv == ThreadsMatchRecords /\ OwnersHaveBegun /\ ConcludedHasVerdict

\* The calls: the one late call an Agent may begin leads it to its end.
LateCallsAreLast ==
  \A a \in Agents : lateCalls[a] # 0 =>
    /\ lateCalls[a] = 1
    /\ cancelEvent[a]
    /\ pc[a] \in Calling \cup {"waiting", "returned"} \cup Over
    /\ pc[a] \in Over => verdict[a] # "completed"

TreeInv == TypeOK /\ SlotInv /\ FlowInv /\ OrphansCancelled /\ LateCallsAreLast

-----------------------------------------------------------------------------
(* Lemmas.                                                                 *)

\* No record is both absent and open, so the open ones are a finite set.
LEMMA OpenIsFinite ==
  IsFiniteSet(Agents) /\ IsFiniteSet(Open) /\ Cardinality(Open) \in Nat
PROOF
<1>1. IsFiniteSet(Agents)
  BY TreeAssumption, FS_AddElement DEF Agents
<1>2. Open \subseteq Agents
  BY DEF Open
<1>3. IsFiniteSet(Open)
  BY <1>1, <1>2, FS_Subset
<1> QED
  BY <1>1, <1>3, FS_CardinalityType

\* The slots depend on the records and on what is awaited only.
LEMMA SlotsUnchanged ==
  ASSUME SlotInv, UNCHANGED <<status, parent, collected, openCount, seen>>
  PROVE  SlotInv'
PROOF
<1>1. Open' = Open
  BY DEF Open
<1> QED
  BY <1>1 DEF SlotInv, SlotAccounting, CollectedHasEnded, RootIsOpen, AwaitedAreOwn

\* An Agent that moves on within its loop, or comes to its end, leaves the
\* threads, the owners and the orphans as they should be.
LEMMA MoveInLoop ==
  ASSUME TypeOK, FlowInv, OrphansCancelled,
         NEW a \in Agents, NEW l \in PCs,
         pc[a] \notin {"idle", "ended"},
         l \notin Before \cup {"stopping", "closed", "ended"},
         Goto(a, l),
         l = "closing" => verdict'[a] \in Terminal,
         \A b \in Agents \ {a} : verdict'[b] = verdict[b],
         UNCHANGED <<status, parent>>,
         \A b \in Agents : cancelEvent[b] => cancelEvent'[b]
  PROVE  FlowInv' /\ OrphansCancelled'
PROOF
<1>1. /\ pc \in [Agents -> PCs]
      /\ pc' = [pc EXCEPT ![a] = l]
      /\ Children \subseteq Agents
  BY DEF TypeOK, Goto, Agents
<1>2. pc'[a] = l /\ \A b \in Agents \ {a} : pc'[b] = pc[b]
  BY <1>1
<1>3. ThreadsMatchRecords'
  BY <1>1, <1>2 DEF FlowInv, ThreadsMatchRecords
<1>4. OwnersHaveBegun'
  BY <1>1, <1>2 DEF FlowInv, OwnersHaveBegun
<1>5. ConcludedHasVerdict'
  BY <1>1, <1>2 DEF FlowInv, ConcludedHasVerdict, Over
<1>6. OrphansCancelled'
  <2> SUFFICES ASSUME NEW c \in Children, Live(c), HasClosed(parent[c])'
               PROVE  cancelEvent'[c]
    BY DEF OrphansCancelled, Live
  <2>1. parent[c] \in Agents
    BY DEF Live, FlowInv, OwnersHaveBegun
  <2>2. HasClosed(parent[c])
    BY <2>1, <1>2 DEF HasClosed
  <2> QED
    BY <2>2, <1>1 DEF OrphansCancelled
<1> QED
  BY <1>3, <1>4, <1>5, <1>6 DEF FlowInv

\* A call begins at a place that no cancelled Agent with a late call reaches.
LEMMA CallBegins ==
  ASSUME TypeOK, LateCallsAreLast,
         NEW a \in Agents, NEW l \in Calling \cup {"waiting"},
         pc[a] \in {"loop", "again", "ready", "answered"},
         BeginCall(a, l), UNCHANGED <<cancelEvent, verdict>>
  PROVE  LateCallsAreLast' /\ lateCalls' \in [Agents -> Nat]
PROOF
<1>1. lateCalls[a] = 0
  BY DEF LateCallsAreLast, Calling, Over
<1>2. /\ pc \in [Agents -> PCs] /\ lateCalls \in [Agents -> Nat]
      /\ pc' = [pc EXCEPT ![a] = l]
      /\ lateCalls' = [lateCalls EXCEPT ![a] =
                         IF cancelEvent[a] /\ ~Endless THEN lateCalls[a] + 1 ELSE lateCalls[a]]
  BY DEF TypeOK, BeginCall, Goto
<1>3. lateCalls' \in [Agents -> Nat]
  BY <1>2
<1>4. ASSUME NEW b \in Agents, lateCalls'[b] # 0
      PROVE  /\ lateCalls'[b] = 1
             /\ cancelEvent'[b]
             /\ pc'[b] \in Calling \cup {"waiting", "returned"} \cup Over
             /\ pc'[b] \in Over => verdict'[b] # "completed"
  <2>1. CASE b = a
    <3>1. pc'[b] = l /\ cancelEvent[a] /\ lateCalls'[b] = 1
      BY <2>1, <1>1, <1>2, <1>4
    <3> QED
      BY <3>1, <2>1 DEF Calling, Over
  <2>2. CASE b # a
    <3>1. pc'[b] = pc[b] /\ lateCalls'[b] = lateCalls[b]
      BY <2>2, <1>2
    <3> QED
      BY <3>1, <1>4 DEF LateCallsAreLast
  <2> QED
    BY <2>1, <2>2
<1> QED
  BY <1>3, <1>4 DEF LateCallsAreLast

\* Any other move of a cancelled Agent with a late call stays on the way to its end,
\* and it does not conclude with completion.
LEMMA CallGoesOn ==
  ASSUME TypeOK, LateCallsAreLast,
         NEW a \in Agents, NEW l, Goto(a, l),
         cancelEvent[a] /\ pc[a] \in Calling \cup {"waiting", "returned"} \cup Over =>
           /\ l \in {"returned"} \cup Over
           /\ pc[a] \in Over => verdict'[a] = verdict[a]
           /\ pc[a] \notin Over /\ l \in Over => verdict'[a] # "completed",
         \A b \in Agents \ {a} : verdict'[b] = verdict[b],
         \A b \in Agents : cancelEvent[b] => cancelEvent'[b],
         pc[a] \in Over => l \in Over,
         UNCHANGED lateCalls
  PROVE  LateCallsAreLast'
PROOF
<1>1. pc \in [Agents -> PCs] /\ pc' = [pc EXCEPT ![a] = l]
  BY DEF TypeOK, Goto
<1> SUFFICES ASSUME NEW b \in Agents, lateCalls[b] # 0
             PROVE  /\ lateCalls[b] = 1
                    /\ cancelEvent'[b]
                    /\ pc'[b] \in Calling \cup {"waiting", "returned"} \cup Over
                    /\ pc'[b] \in Over => verdict'[b] # "completed"
  BY DEF LateCallsAreLast
<1>2. /\ lateCalls[b] = 1 /\ cancelEvent[b]
      /\ pc[b] \in Calling \cup {"waiting", "returned"} \cup Over
      /\ pc[b] \in Over => verdict[b] # "completed"
  BY DEF LateCallsAreLast
<1>3. CASE b # a
  BY <1>1, <1>2, <1>3
<1>4. CASE b = a
  <2>1. pc'[b] = l
    BY <1>1, <1>4
  <2>2. CASE pc[a] \in Over
    BY <2>1, <2>2, <1>2, <1>4
  <2>3. CASE pc[a] \notin Over
    BY <2>1, <2>3, <1>2, <1>4
  <2> QED
    BY <2>2, <2>3
<1> QED
  BY <1>3, <1>4

-----------------------------------------------------------------------------
(* Steps of the loop.                                                      *)

LEMMA InitTree == Init => TreeInv
PROOF
<1> SUFFICES ASSUME Init PROVE TreeInv
  OBVIOUS
<1> USE DEF Init
<1>1. Children \subseteq Agents /\ Root \in Agents /\ Root \notin Children
  BY TreeAssumption DEF Agents
<1>2. TypeOK
  <2>1. /\ status \in [Agents -> Statuses] /\ parent \in [Agents -> Agents \cup {NoAgent}]
        /\ depth \in [Agents -> 0..MaxDepth] /\ cancelEvent \in [Agents -> BOOLEAN]
        /\ collected \in [Agents -> BOOLEAN] /\ openCount \in Nat /\ accepting \in BOOLEAN
    BY DEF Statuses, MaxDepth
  <2>2. /\ pc \in [Agents -> PCs] /\ verdict \in [Agents -> Terminal \cup {"running"}]
        /\ turns \in [Agents -> 0..MaxTurns] /\ lateCalls \in [Agents -> Nat]
    BY TreeAssumption DEF PCs
  <2>3. DOMAIN seen = Agents /\ \A a \in Agents : DOMAIN seen[a] \subseteq Children
    <3>1. \A a \in Agents : seen[a] = << >>
      OBVIOUS
    <3>2. DOMAIN << >> = {}
      OBVIOUS
    <3> QED
      BY <3>1, <3>2
  <2> QED
    BY <2>1, <2>2, <2>3 DEF TypeOK
<1>3. SlotInv
  <2>1. Open = {Root}
    BY <1>1 DEF Open
  <2>2. SlotAccounting
    <3>1. Cardinality({Root}) = 1
      BY FS_Singleton, Zenon
    <3> QED
      BY <2>1, <3>1, TreeAssumption DEF SlotAccounting
  <2>3. CollectedHasEnded /\ RootIsOpen /\ AwaitedAreOwn
    BY <1>1 DEF CollectedHasEnded, RootIsOpen, AwaitedAreOwn
  <2> QED
    BY <2>2, <2>3 DEF SlotInv
<1>4. FlowInv
  <2>1. \A c \in Children : status[c] = "absent" /\ pc[c] = "idle"
    BY <1>1
  <2>2. \A a \in Agents : pc[a] \in {"built", "idle"}
    OBVIOUS
  <2> QED
    BY <2>1, <2>2 DEF FlowInv, ThreadsMatchRecords, OwnersHaveBegun, ConcludedHasVerdict, Over
<1>5. OrphansCancelled
  BY <1>1 DEF OrphansCancelled, Live
<1>6. LateCallsAreLast
  BY DEF LateCallsAreLast
<1> QED
  BY <1>2, <1>3, <1>4, <1>5, <1>6 DEF TreeInv

\* Counting a turn keeps its type.
LEMMA TurnType ==
  ASSUME TypeOK, NEW a \in Agents, Turn(a)
  PROVE  turns' \in [Agents -> 0..MaxTurns]
PROOF
  BY TreeAssumption DEF TypeOK, Turn

\* An Agent goes on in its loop.
LEMMA GoOn ==
  ASSUME TreeInv, NEW a \in Agents,
         NEW l \in {"loop", "again", "ready", "answered", "returned"},
         pc[a] \notin {"idle"} \cup Over,
         cancelEvent[a] /\ pc[a] \in Calling \cup {"waiting", "returned"} => l = "returned",
         Goto(a, l),
         turns' \in [Agents -> 0..MaxTurns],
         UNCHANGED <<records, accepting, verdict, seen, lateCalls, harness>>
  PROVE  TreeInv'
PROOF
<1>1. l \in PCs /\ l \notin Before \cup Over
  BY DEF PCs, Before, Over
<1>2. TypeOK'
  BY <1>1 DEF TreeInv, TypeOK, Goto, records, harness
<1>3. SlotInv'
  BY SlotsUnchanged DEF TreeInv, records
<1>4. FlowInv' /\ OrphansCancelled'
  BY <1>1, MoveInLoop DEF TreeInv, records, Over
<1>5. LateCallsAreLast'
  BY <1>1, CallGoesOn DEF TreeInv, records
<1> QED
  BY <1>2, <1>3, <1>4, <1>5 DEF TreeInv

\* An Agent concludes; with completion only where it read that it is not cancelled.
LEMMA Concludes ==
  ASSUME TreeInv, NEW a \in Agents, NEW outcome \in Terminal,
         pc[a] \notin {"idle"} \cup Over,
         cancelEvent[a] /\ pc[a] \in Calling \cup {"waiting", "returned"} =>
           outcome # "completed",
         Conclude(a, outcome),
         UNCHANGED <<records, accepting, seen, turns, lateCalls, harness>>
  PROVE  TreeInv'
PROOF
<1>1. /\ verdict \in [Agents -> Terminal \cup {"running"}]
      /\ verdict' = [verdict EXCEPT ![a] = outcome]
      /\ Goto(a, "closing")
  BY DEF TreeInv, TypeOK, Conclude
<1>2. verdict'[a] = outcome /\ \A b \in Agents \ {a} : verdict'[b] = verdict[b]
  BY <1>1
<1>3. "closing" \in PCs /\ "closing" \in Over /\ "closing" \notin Before
  BY DEF PCs, Before, Over
<1>4. TypeOK'
  BY <1>1, <1>3 DEF TreeInv, TypeOK, Goto, records, harness
<1>5. SlotInv'
  BY SlotsUnchanged DEF TreeInv, records
<1>6. FlowInv' /\ OrphansCancelled'
  BY <1>1, <1>2, <1>3, MoveInLoop DEF TreeInv, records, Over
<1>7. LateCallsAreLast'
  BY <1>1, <1>2, <1>3, CallGoesOn DEF TreeInv, records
<1> QED
  BY <1>4, <1>5, <1>6, <1>7 DEF TreeInv

\* An Agent begins a call.
LEMMA Calls ==
  ASSUME TreeInv, NEW a \in Agents, NEW l \in Calling,
         pc[a] \in {"loop", "again", "ready", "answered"},
         BeginCall(a, l),
         turns' \in [Agents -> 0..MaxTurns],
         UNCHANGED <<records, accepting, verdict, seen, harness>>
  PROVE  TreeInv'
PROOF
<1>1. l \in PCs /\ l \notin Before \cup Over /\ Goto(a, l)
  BY DEF PCs, Before, Over, Calling, BeginCall
<1>2. LateCallsAreLast' /\ lateCalls' \in [Agents -> Nat]
  BY CallBegins DEF TreeInv, records
<1>3. TypeOK'
  BY <1>1, <1>2 DEF TreeInv, TypeOK, Goto, records, harness
<1>4. SlotInv'
  BY SlotsUnchanged DEF TreeInv, records
<1>5. FlowInv' /\ OrphansCancelled'
  BY <1>1, MoveInLoop DEF TreeInv, records, Over
<1> QED
  BY <1>2, <1>3, <1>4, <1>5 DEF TreeInv

\* The steps of the loop that neither start, await, cancel nor close an Agent.
LoopStep(a) ==
  \/ EnterLoop(a) \/ BeginCompaction(a) \/ EndCompaction(a)
  \/ BeginModel(a) \/ EndModel(a) \/ Correct(a) \/ Accept(a)
  \/ BeginTool(a) \/ OtherTool(a) \/ AfterTool(a)

LEMMA LoopStepInv ==
  ASSUME TreeInv, NEW a \in Agents, LoopStep(a)
  PROVE  TreeInv'
PROOF
<1> USE DEF Calling, Over, Terminal
<1>2. TypeOK
  BY DEF TreeInv
<1>3. turns \in [Agents -> 0..MaxTurns]
  BY <1>2 DEF TypeOK
<1>4. CASE EnterLoop(a)
  BY <1>4, <1>3, GoOn, Concludes DEF EnterLoop
<1>5. CASE BeginCompaction(a)
  BY <1>5, <1>2, <1>3, Calls, TurnType DEF BeginCompaction
<1>6. CASE EndCompaction(a)
  BY <1>6, <1>3, GoOn, Concludes DEF EndCompaction
<1>7. CASE BeginModel(a)
  BY <1>7, <1>3, Calls DEF BeginModel
<1>8. CASE EndModel(a)
  BY <1>8, <1>3, GoOn, Concludes DEF EndModel
<1>9. CASE Correct(a)
  BY <1>9, <1>2, GoOn, TurnType DEF Correct
<1>10. CASE Accept(a)
  BY <1>10, Concludes DEF Accept
<1>11. CASE BeginTool(a)
  BY <1>11, <1>2, Calls, TurnType DEF BeginTool
<1>12. CASE OtherTool(a)
  BY <1>12, <1>3, GoOn DEF OtherTool
<1>13. CASE AfterTool(a)
  BY <1>13, <1>3, GoOn, Concludes DEF AfterTool
<1> QED
  BY <1>4, <1>5, <1>6, <1>7, <1>8, <1>9, <1>10, <1>11, <1>12, <1>13 DEF LoopStep

-----------------------------------------------------------------------------
(* Starting, awaiting and collecting Subagents.                            *)

LEMMA StartChildInv ==
  ASSUME TreeInv, NEW a \in Agents, NEW c \in Children, StartChild(a, c)
  PROVE  TreeInv'
PROOF
<1>1. CASE ~(depth[a] < MaxDepth /\ openCount < MaxOpen /\ accepting)
  <2>1. /\ pc[a] = "tool" /\ Goto(a, "returned") /\ turns \in [Agents -> 0..MaxTurns]
        /\ UNCHANGED <<records, accepting, verdict, seen, turns, lateCalls, harness>>
    BY <1>1 DEF StartChild, records, TreeInv, TypeOK
  <2> QED
    BY <2>1, GoOn DEF Over
<1>2. CASE depth[a] < MaxDepth /\ openCount < MaxOpen /\ accepting
  <2>1. /\ pc[a] = "tool" /\ status[c] = "absent" /\ Goto(a, "returned")
        /\ status' = [status EXCEPT ![c] = "queued"]
        /\ parent' = [parent EXCEPT ![c] = a]
        /\ depth' = [depth EXCEPT ![c] = depth[a] + 1]
        /\ openCount' = openCount + 1
        /\ UNCHANGED <<cancelEvent, collected, accepting, verdict, seen, turns, lateCalls,
                       registered, closing, shutdown, promptClosed>>
    BY <1>2 DEF StartChild, harness
  <2>2. TypeOK /\ SlotInv /\ FlowInv /\ OrphansCancelled /\ LateCallsAreLast
        /\ c \in Agents /\ c # Root
    BY TreeAssumption DEF TreeInv, Agents
  <2>3. /\ status'[c] = "queued" /\ parent'[c] = a
        /\ \A b \in Agents \ {c} : status'[b] = status[b] /\ parent'[b] = parent[b]
        /\ pc'[a] = "returned"
        /\ \A b \in Agents \ {a} : pc'[b] = pc[b]
    BY <2>1, <2>2 DEF TypeOK, Goto
  <2>4. TypeOK'
    <3>1. depth[a] \in 0..MaxDepth
      BY <2>2 DEF TypeOK
    <3>2. depth[a] + 1 \in 0..MaxDepth
      BY <3>1, <1>2 DEF MaxDepth
    <3>3. "queued" \in Statuses /\ "returned" \in PCs
      BY DEF Statuses, PCs
    <3>4. status' \in [Agents -> Statuses] /\ parent' \in [Agents -> Agents \cup {NoAgent}]
          /\ depth' \in [Agents -> 0..MaxDepth] /\ pc' \in [Agents -> PCs]
          /\ openCount' \in Nat
      BY <2>1, <2>2, <3>2, <3>3 DEF TypeOK, Goto
    <3> QED
      BY <2>1, <2>2, <3>4 DEF TypeOK
  <2>5. ~collected[c] /\ c \notin Open
    BY <2>1, <2>2 DEF SlotInv, CollectedHasEnded, Terminal, Open
  <2>6. Open' = Open \cup {c}
    BY <2>1, <2>2, <2>3, <2>5 DEF Open
  <2>7. SlotInv'
    <3>1. Cardinality(Open') = Cardinality(Open) + 1
      BY <2>5, <2>6, OpenIsFinite, FS_AddElement
    <3>2. SlotAccounting'
      BY <3>1, <2>1, <2>2, <1>2, OpenIsFinite, TreeAssumption DEF SlotInv, SlotAccounting
    <3>3. CollectedHasEnded' /\ RootIsOpen'
      BY <2>1, <2>2, <2>3, <2>5 DEF SlotInv, CollectedHasEnded, RootIsOpen, Agents
    <3>4. AwaitedAreOwn'
      BY <2>1, <2>2, <2>3, <2>5, <2>6 DEF SlotInv, AwaitedAreOwn, TypeOK, Agents
    <3> QED
      BY <3>2, <3>3, <3>4 DEF SlotInv
  <2>8. FlowInv'
    <3>1. pc[c] = "idle" /\ c # a
      BY <2>1, <2>2 DEF FlowInv, ThreadsMatchRecords
    <3>2. ThreadsMatchRecords'
      BY <2>1, <2>2, <2>3, <3>1 DEF FlowInv, ThreadsMatchRecords, Agents
    <3>3. OwnersHaveBegun'
      BY <2>1, <2>2, <2>3 DEF FlowInv, OwnersHaveBegun, Before, Agents
    <3>4. ConcludedHasVerdict'
      BY <2>1, <2>2, <2>3 DEF FlowInv, ConcludedHasVerdict, Over
    <3> QED
      BY <3>2, <3>3, <3>4 DEF FlowInv
  <2>9. OrphansCancelled'
    <3> SUFFICES ASSUME NEW d \in Children, Live(d)', HasClosed(parent[d])'
                 PROVE  cancelEvent[d]
      BY <2>1 DEF OrphansCancelled
    <3>1. d # c
      BY <2>3 DEF HasClosed
    <3>2. Live(d) /\ parent'[d] = parent[d]
      BY <2>3, <3>1 DEF Live, Agents
    <3>3. parent[d] \in Agents
      BY <2>2, <3>2 DEF Live, FlowInv, OwnersHaveBegun
    <3>4. HasClosed(parent[d])
      BY <2>3, <3>2, <3>3 DEF HasClosed
    <3> QED
      BY <2>2, <3>2, <3>4 DEF OrphansCancelled
  <2>10. LateCallsAreLast'
    BY <2>1, <2>2, CallGoesOn DEF Over
  <2> QED
    BY <2>4, <2>7, <2>8, <2>9, <2>10 DEF TreeInv
<1> QED
  BY <1>1, <1>2

LEMMA CancelChildInv ==
  ASSUME TreeInv, NEW a \in Agents, NEW c \in Children, CancelChild(a, c)
  PROVE  TreeInv'
PROOF
<1>1. /\ pc[a] = "tool" /\ Goto(a, "returned")
      /\ cancelEvent' = [cancelEvent EXCEPT ![c] = @ \/ Live(c)]
      /\ UNCHANGED <<status, parent, depth, collected, openCount, accepting, verdict,
                     seen, turns, lateCalls, registered, closing, shutdown, promptClosed>>
  BY DEF CancelChild, harness
<1>2. /\ TypeOK /\ SlotInv /\ FlowInv /\ OrphansCancelled /\ LateCallsAreLast
      /\ "returned" \in PCs \ (Before \cup Over)
  BY DEF TreeInv, PCs, Before, Over
<1>3. /\ cancelEvent' \in [Agents -> BOOLEAN]
      /\ \A b \in Agents : cancelEvent[b] => cancelEvent'[b]
  BY <1>1, <1>2 DEF TypeOK, Live
<1>4. TypeOK'
  BY <1>1, <1>2, <1>3 DEF TypeOK, Goto
<1>5. SlotInv'
  BY <1>1, <1>2, SlotsUnchanged
<1>6. FlowInv' /\ OrphansCancelled'
  BY <1>1, <1>2, <1>3, MoveInLoop DEF Over
<1>7. LateCallsAreLast'
  BY <1>1, <1>2, <1>3, CallGoesOn DEF Over
<1> QED
  BY <1>4, <1>5, <1>6, <1>7 DEF TreeInv

LEMMA BeginWaitInv ==
  ASSUME TreeInv, NEW a \in Agents, NEW S \in SUBSET Children, BeginWait(a, S)
  PROVE  TreeInv'
PROOF
<1>1. /\ pc[a] = "answered" /\ S \subseteq OpenKids({a})
      /\ BeginCall(a, "waiting") /\ Goto(a, "waiting")
      /\ seen' = [seen EXCEPT ![a] = [c \in S |-> status[c]]]
      /\ Turn(a)
      /\ UNCHANGED <<records, accepting, verdict, harness>>
  BY DEF BeginWait, BeginCall
<1>2. /\ TypeOK /\ SlotInv /\ FlowInv /\ OrphansCancelled /\ LateCallsAreLast
      /\ "waiting" \in PCs \ (Before \cup Over)
  BY DEF TreeInv, PCs, Before, Over
<1>3. LateCallsAreLast' /\ lateCalls' \in [Agents -> Nat]
  BY <1>1, <1>2, CallBegins DEF records
<1>4. turns' \in [Agents -> 0..MaxTurns]
  BY <1>1, <1>2, TurnType
<1>5. /\ DOMAIN seen' = Agents
      /\ DOMAIN seen'[a] = S
      /\ \A b \in Agents \ {a} : seen'[b] = seen[b]
  BY <1>1, <1>2 DEF TypeOK
<1>6. TypeOK'
  <2>1. \A b \in Agents : DOMAIN seen'[b] \subseteq Children
    BY <1>2, <1>5 DEF TypeOK
  <2>2. pc' \in [Agents -> PCs]
    BY <1>1, <1>2 DEF TypeOK, Goto
  <2> QED
    BY <1>1, <1>2, <1>3, <1>4, <1>5, <2>1, <2>2 DEF TypeOK, records, harness
<1>7. SlotInv'
  <2>1. Open' = Open /\ UNCHANGED <<status, parent, collected, openCount>>
    BY <1>1 DEF Open, records
  <2>2. AwaitedAreOwn'
    BY <1>1, <1>2, <1>5, <2>1 DEF SlotInv, AwaitedAreOwn, OpenKids
  <2> QED
    BY <1>2, <2>1, <2>2 DEF SlotInv, SlotAccounting, CollectedHasEnded, RootIsOpen
<1>8. FlowInv' /\ OrphansCancelled'
  BY <1>1, <1>2, MoveInLoop DEF records, Over
<1> QED
  BY <1>3, <1>6, <1>7, <1>8 DEF TreeInv

LEMMA WaitTimeoutInv ==
  ASSUME TreeInv, NEW a \in Agents, WaitTimeout(a)
  PROVE  TreeInv'
PROOF
<1>1. /\ pc[a] = "waiting" /\ Goto(a, "returned")
      /\ seen' = [seen EXCEPT ![a] = <<>>]
      /\ UNCHANGED <<records, accepting, verdict, turns, lateCalls, harness>>
  BY DEF WaitTimeout
<1>2. /\ TypeOK /\ SlotInv /\ FlowInv /\ OrphansCancelled /\ LateCallsAreLast
      /\ "returned" \in PCs \ (Before \cup Over)
  BY DEF TreeInv, PCs, Before, Over
<1>3. /\ DOMAIN seen' = Agents /\ DOMAIN seen'[a] = {}
      /\ \A b \in Agents \ {a} : seen'[b] = seen[b]
  <2>1. DOMAIN << >> = {}
    OBVIOUS
  <2>2. seen'[a] = << >>
    BY <1>1, <1>2 DEF TypeOK
  <2> QED
    BY <2>1, <2>2, <1>1, <1>2 DEF TypeOK
<1>4. TypeOK'
  <2>1. \A b \in Agents : DOMAIN seen'[b] \subseteq Children
    BY <1>2, <1>3 DEF TypeOK
  <2>2. pc' \in [Agents -> PCs]
    BY <1>1, <1>2 DEF TypeOK, Goto
  <2> QED
    BY <1>1, <1>2, <1>3, <2>1, <2>2 DEF TypeOK, records, harness
<1>5. SlotInv'
  <2>1. Open' = Open /\ UNCHANGED <<status, parent, collected, openCount>>
    BY <1>1 DEF Open, records
  <2>2. AwaitedAreOwn'
    BY <1>2, <1>3, <2>1 DEF SlotInv, AwaitedAreOwn
  <2> QED
    BY <1>2, <2>1, <2>2 DEF SlotInv, SlotAccounting, CollectedHasEnded, RootIsOpen
<1>6. FlowInv' /\ OrphansCancelled'
  BY <1>1, <1>2, MoveInLoop DEF records, Over
<1>7. LateCallsAreLast'
  BY <1>1, <1>2, CallGoesOn DEF records, Over
<1> QED
  BY <1>4, <1>5, <1>6, <1>7 DEF TreeInv

\* What a wait collects was open and its own, so each slot is given back once.
LEMMA EndWaitInv ==
  ASSUME TreeInv, NEW a \in Agents, EndWait(a)
  PROVE  TreeInv'
PROOF
<1> DEFINE ended == Ended(DOMAIN seen[a])
<1>1. /\ pc[a] = "waiting" /\ Goto(a, "returned")
      /\ collected' = [c \in Agents |-> collected[c] \/ c \in ended]
      /\ openCount' = openCount - Cardinality(ended)
      /\ seen' = [seen EXCEPT ![a] = <<>>]
      /\ UNCHANGED <<status, parent, depth, cancelEvent, accepting, verdict, turns,
                     lateCalls, registered, closing, shutdown, promptClosed>>
  BY DEF EndWait, harness
<1>2. /\ TypeOK /\ SlotInv /\ FlowInv /\ OrphansCancelled /\ LateCallsAreLast
      /\ "returned" \in PCs \ (Before \cup Over)
  BY DEF TreeInv, PCs, Before, Over
<1>3. /\ DOMAIN seen' = Agents /\ DOMAIN seen'[a] = {}
      /\ \A b \in Agents \ {a} : seen'[b] = seen[b]
  <2>1. DOMAIN << >> = {}
    OBVIOUS
  <2>2. seen'[a] = << >>
    BY <1>1, <1>2 DEF TypeOK
  <2> QED
    BY <2>1, <2>2, <1>1, <1>2 DEF TypeOK
<1>4. /\ ended \subseteq Open /\ ended \subseteq Children
      /\ \A c \in ended : parent[c] = a /\ status[c] \in Terminal
  BY <1>2 DEF Ended, SlotInv, AwaitedAreOwn, TypeOK
<1> HIDE DEF ended
<1>5. Open' = Open \ ended
  BY <1>1 DEF Open
<1>6. SlotAccounting' /\ openCount' \in Nat
  <2>1. IsFiniteSet(ended) /\ Cardinality(ended) \in Nat
    BY <1>4, OpenIsFinite, FS_Subset, FS_CardinalityType
  <2>2. Open \cap ended = ended
    BY <1>4
  <2>3. Cardinality(Open \ ended) = Cardinality(Open) - Cardinality(ended)
    BY <2>2, OpenIsFinite, FS_Difference
  <2>4. Cardinality(ended) <= Cardinality(Open)
    BY <1>4, OpenIsFinite, FS_Subset
  <2> QED
    BY <2>1, <2>3, <2>4, <1>1, <1>2, <1>5, OpenIsFinite, TreeAssumption
       DEF SlotInv, SlotAccounting
<1>7. TypeOK'
  <2>1. \A b \in Agents : DOMAIN seen'[b] \subseteq Children
    BY <1>2, <1>3 DEF TypeOK
  <2>2. pc' \in [Agents -> PCs]
    BY <1>1, <1>2 DEF TypeOK, Goto
  <2>3. collected' \in [Agents -> BOOLEAN]
    BY <1>1, <1>2 DEF TypeOK
  <2> QED
    BY <1>1, <1>2, <1>3, <1>6, <2>1, <2>2, <2>3 DEF TypeOK
<1>8. SlotInv'
  <2>1. CollectedHasEnded'
    BY <1>1, <1>2, <1>4 DEF SlotInv, CollectedHasEnded
  <2>2. RootIsOpen'
    BY <1>1, <1>2, <1>4, TreeAssumption DEF SlotInv, RootIsOpen, Agents
  <2>3. AwaitedAreOwn'
    <3> SUFFICES ASSUME NEW b \in Agents, NEW c \in DOMAIN seen'[b]
                 PROVE  c \in Open' /\ parent[c] = b
      BY <1>1 DEF AwaitedAreOwn
    <3>1. b # a /\ seen'[b] = seen[b]
      BY <1>3
    <3>2. c \in Open /\ parent[c] = b
      BY <3>1, <1>2 DEF SlotInv, AwaitedAreOwn
    <3> QED
      BY <3>1, <3>2, <1>4, <1>5
  <2> QED
    BY <1>6, <2>1, <2>2, <2>3 DEF SlotInv
<1>9. FlowInv' /\ OrphansCancelled'
  BY <1>1, <1>2, MoveInLoop DEF Over
<1>10. LateCallsAreLast'
  BY <1>1, <1>2, CallGoesOn DEF Over
<1> QED
  BY <1>7, <1>8, <1>9, <1>10 DEF TreeInv

-----------------------------------------------------------------------------
(* Beginnings and ends.                                                    *)

\* A step that leaves the records (but for cancellation) and the threads alone.
LEMMA ElsewhereInv ==
  ASSUME TreeInv, TypeOK',
         UNCHANGED <<status, parent, collected, openCount, seen, pc, verdict, lateCalls>>,
         \A b \in Agents : cancelEvent[b] => cancelEvent'[b]
  PROVE  TreeInv'
PROOF
<1>1. SlotInv'
  BY SlotsUnchanged DEF TreeInv
<1>2. FlowInv'
  BY DEF TreeInv, FlowInv, ThreadsMatchRecords, OwnersHaveBegun, ConcludedHasVerdict
<1>3. OrphansCancelled'
  <2>1. Children \subseteq Agents
    BY DEF Agents
  <2> QED
    BY <2>1 DEF TreeInv, OrphansCancelled, Live, HasClosed
<1>4. LateCallsAreLast'
  BY DEF TreeInv, LateCallsAreLast
<1> QED
  BY <1>1, <1>2, <1>3, <1>4 DEF TreeInv

LEMMA RegisterRootInv ==
  ASSUME TreeInv, RegisterRoot
  PROVE  TreeInv'
PROOF
<1> USE DEF RegisterRoot
<1>1. Root \in Agents /\ pc[Root] = "built" /\ "failed" \in Terminal
  BY DEF Agents, Terminal
<1>2. CASE closing
  <2>1. UNCHANGED <<records, accepting, seen, turns, lateCalls, harness>>
    BY <1>2 DEF harness
  <2> QED
    BY <1>1, <1>2, <2>1, Concludes DEF Over, Calling
<1>3. CASE ~closing
  <2>1. /\ registered' = TRUE
        /\ pc' = [pc EXCEPT ![Root] = "starting"]
        /\ UNCHANGED <<verdict, status, parent, depth, cancelEvent, collected, openCount,
                       accepting, seen, turns, lateCalls, closing, shutdown, promptClosed>>
    BY <1>3 DEF records, Goto
  <2>2. TypeOK /\ SlotInv /\ FlowInv /\ OrphansCancelled /\ LateCallsAreLast
        /\ pc \in [Agents -> PCs] /\ Root \notin Children
    BY TreeAssumption DEF TreeInv, TypeOK
  <2>3. pc'[Root] = "starting" /\ \A b \in Agents \ {Root} : pc'[b] = pc[b]
    BY <1>1, <2>1, <2>2
  <2>4. TypeOK'
    <3>1. pc' \in [Agents -> PCs]
      BY <2>1, <2>2 DEF PCs
    <3> QED
      BY <2>1, <2>2, <3>1 DEF TypeOK
  <2>5. SlotInv'
    BY <2>1, <2>2, SlotsUnchanged
  <2>6. FlowInv'
    BY <1>1, <2>1, <2>2, <2>3
       DEF FlowInv, ThreadsMatchRecords, OwnersHaveBegun, ConcludedHasVerdict, Before, Over, Agents
  <2>7. OrphansCancelled'
    BY <1>1, <2>1, <2>2, <2>3
       DEF OrphansCancelled, Live, HasClosed, FlowInv, OwnersHaveBegun
  <2>8. LateCallsAreLast'
    BY <1>1, <2>1, <2>2, <2>3 DEF LateCallsAreLast, Calling, Over
  <2> QED
    BY <2>4, <2>5, <2>6, <2>7, <2>8 DEF TreeInv
<1> QED
  BY <1>2, <1>3

LEMMA BeginChildInv ==
  ASSUME TreeInv, NEW c \in Children, BeginChild(c)
  PROVE  TreeInv'
PROOF
<1>1. /\ status[c] = "queued"
      /\ status' = [status EXCEPT ![c] = "running"]
      /\ pc' = [pc EXCEPT ![c] = "starting"]
      /\ UNCHANGED <<parent, depth, cancelEvent, collected, openCount, accepting, verdict,
                     seen, turns, lateCalls, registered, closing, shutdown, promptClosed>>
  BY DEF BeginChild, Goto, harness
<1>2. /\ TypeOK /\ SlotInv /\ FlowInv /\ OrphansCancelled /\ LateCallsAreLast
      /\ pc \in [Agents -> PCs] /\ status \in [Agents -> Statuses]
      /\ c \in Agents /\ c # Root /\ pc[c] = "idle"
  BY <1>1, TreeAssumption DEF TreeInv, TypeOK, Agents, FlowInv, ThreadsMatchRecords
<1>3. /\ pc'[c] = "starting" /\ status'[c] = "running"
      /\ \A b \in Agents \ {c} : pc'[b] = pc[b] /\ status'[b] = status[b]
  BY <1>1, <1>2
<1>4. TypeOK'
  <2>1. pc' \in [Agents -> PCs] /\ status' \in [Agents -> Statuses]
    BY <1>1, <1>2 DEF PCs, Statuses
  <2> QED
    BY <1>1, <1>2, <2>1 DEF TypeOK
<1>5. SlotInv'
  <2>1. Open' = Open
    BY <1>1, <1>2, <1>3 DEF Open
  <2>2. CollectedHasEnded' /\ RootIsOpen'
    BY <1>1, <1>2, <1>3 DEF SlotInv, CollectedHasEnded, RootIsOpen, Terminal, Agents
  <2> QED
    BY <1>1, <1>2, <2>1, <2>2 DEF SlotInv, SlotAccounting, AwaitedAreOwn
<1>6. FlowInv'
  <2>1. ThreadsMatchRecords'
    BY <1>2, <1>3 DEF FlowInv, ThreadsMatchRecords, Agents
  <2>2. OwnersHaveBegun'
    <3> SUFFICES ASSUME NEW d \in Children, status'[d] # "absent"
                 PROVE  parent[d] \in Agents /\ pc'[parent[d]] \notin Before
      BY <1>1 DEF OwnersHaveBegun
    <3>1. status[d] # "absent"
      BY <1>1, <1>2, <1>3 DEF Agents
    <3>2. parent[d] \in Agents /\ pc[parent[d]] \notin Before
      BY <1>2, <3>1 DEF FlowInv, OwnersHaveBegun
    <3>3. parent[d] # c
      BY <1>2, <3>2 DEF Before
    <3> QED
      BY <1>3, <3>2, <3>3
  <2>3. ConcludedHasVerdict'
    BY <1>1, <1>2, <1>3 DEF FlowInv, ConcludedHasVerdict, Over
  <2> QED
    BY <2>1, <2>2, <2>3 DEF FlowInv
<1>7. OrphansCancelled'
  <2> SUFFICES ASSUME NEW d \in Children, Live(d)', HasClosed(parent[d])'
               PROVE  cancelEvent[d]
    BY <1>1 DEF OrphansCancelled
  <2>1. Live(d) /\ parent[d] \in Agents
    BY <1>1, <1>2, <1>3 DEF Live, FlowInv, OwnersHaveBegun, Agents
  <2>2. HasClosed(parent[d])
    BY <2>1, <1>1, <1>3 DEF HasClosed
  <2> QED
    BY <2>1, <2>2, <1>2 DEF OrphansCancelled
<1>8. LateCallsAreLast'
  BY <1>1, <1>2, <1>3 DEF LateCallsAreLast, Calling, Over
<1> QED
  BY <1>4, <1>5, <1>6, <1>7, <1>8 DEF TreeInv

\* A child that cannot be built has no children to leave behind.
LEMMA BuildFailsInv ==
  ASSUME TreeInv, NEW c \in Agents, BuildFails(c)
  PROVE  TreeInv'
PROOF
<1>1. /\ c \in Children /\ pc[c] = "starting" /\ Goto(c, "closed")
      /\ pc' = [pc EXCEPT ![c] = "closed"]
      /\ verdict' = [verdict EXCEPT ![c] = "failed"]
      /\ UNCHANGED <<records, accepting, seen, turns, lateCalls, harness>>
      /\ UNCHANGED <<status, parent, depth, cancelEvent, collected, openCount>>
  BY DEF BuildFails, Goto, records
<1>2. /\ TypeOK /\ SlotInv /\ FlowInv /\ OrphansCancelled /\ LateCallsAreLast
      /\ pc \in [Agents -> PCs] /\ verdict \in [Agents -> Terminal \cup {"running"}]
  BY DEF TreeInv, TypeOK
<1>3. /\ pc'[c] = "closed" /\ verdict'[c] = "failed"
      /\ \A b \in Agents \ {c} : pc'[b] = pc[b] /\ verdict'[b] = verdict[b]
  BY <1>1, <1>2
<1>4. TypeOK'
  <2>1. /\ pc' \in [Agents -> PCs]
        /\ verdict' \in [Agents -> Terminal \cup {"running"}]
    BY <1>1, <1>2 DEF PCs, Terminal
  <2> QED
    BY <1>1, <1>2, <2>1 DEF TypeOK, records, harness
<1>5. SlotInv'
  BY <1>1, <1>2, SlotsUnchanged
<1>6. FlowInv'
  <2>1. ThreadsMatchRecords'
    BY <1>1, <1>2, <1>3 DEF FlowInv, ThreadsMatchRecords, Agents
  <2>2. OwnersHaveBegun'
    BY <1>1, <1>2, <1>3 DEF FlowInv, OwnersHaveBegun, Before
  <2>3. ConcludedHasVerdict'
    BY <1>1, <1>2, <1>3 DEF FlowInv, ConcludedHasVerdict, Over, Terminal
  <2> QED
    BY <2>1, <2>2, <2>3 DEF FlowInv
<1>7. OrphansCancelled'
  <2> SUFFICES ASSUME NEW d \in Children, Live(d), HasClosed(parent[d])'
               PROVE  cancelEvent[d]
    BY <1>1 DEF OrphansCancelled, Live
  <2>1. parent[d] \in Agents /\ pc[parent[d]] \notin Before
    BY <1>2 DEF Live, FlowInv, OwnersHaveBegun
  <2>2. parent[d] # c
    BY <2>1, <1>1 DEF Before
  <2>3. HasClosed(parent[d])
    BY <2>1, <2>2, <1>1, <1>3 DEF HasClosed
  <2> QED
    BY <2>3, <1>2 DEF OrphansCancelled
<1>8. LateCallsAreLast'
  BY <1>1, <1>2, <1>3 DEF LateCallsAreLast, Calling, Over
<1> QED
  BY <1>4, <1>5, <1>6, <1>7, <1>8 DEF TreeInv

\* A closing Agent leaves the loop after it cancelled each of its open children,
\* and its open children are all that live.
LEMMA CloseInv ==
  ASSUME TreeInv, NEW a \in Agents, pc[a] = "closing",
         NEW l \in {"closed", "stopping"}, NEW S,
         OpenKids({a}) \cap Children \subseteq S,
         CancelAll(S), Goto(a, l),
         a \notin Children => l # "closed",
         UNCHANGED <<status, parent, depth, collected, openCount, accepting, verdict,
                     seen, turns, lateCalls, harness>>
  PROVE  TreeInv'
PROOF
<1>1. /\ TypeOK /\ SlotInv /\ FlowInv /\ OrphansCancelled /\ LateCallsAreLast
      /\ pc \in [Agents -> PCs] /\ pc' = [pc EXCEPT ![a] = l]
      /\ cancelEvent' = [b \in Agents |-> cancelEvent[b] \/ b \in S]
  BY DEF TreeInv, TypeOK, Goto, CancelAll
<1>2. pc'[a] = l /\ \A b \in Agents \ {a} : pc'[b] = pc[b]
  BY <1>1
<1>3. \A b \in Agents : cancelEvent[b] => cancelEvent'[b]
  BY <1>1
<1>4. TypeOK'
  <2>1. pc' \in [Agents -> PCs] /\ cancelEvent' \in [Agents -> BOOLEAN]
    BY <1>1 DEF PCs, TypeOK
  <2> QED
    BY <1>1, <2>1 DEF TypeOK, harness
<1>5. SlotInv'
  BY <1>1, SlotsUnchanged
<1>6. FlowInv'
  <2>1. ThreadsMatchRecords'
    BY <1>1, <1>2 DEF FlowInv, ThreadsMatchRecords, Agents
  <2>2. OwnersHaveBegun'
    BY <1>1, <1>2 DEF FlowInv, OwnersHaveBegun, Before
  <2>3. ConcludedHasVerdict'
    BY <1>1, <1>2 DEF FlowInv, ConcludedHasVerdict, Over
  <2> QED
    BY <2>1, <2>2, <2>3 DEF FlowInv
<1>7. OrphansCancelled'
  <2> SUFFICES ASSUME NEW d \in Children, Live(d), HasClosed(parent[d])'
               PROVE  cancelEvent'[d]
    BY DEF OrphansCancelled, Live
  <2>1. parent[d] \in Agents /\ d \in Agents
    BY <1>1 DEF Live, FlowInv, OwnersHaveBegun, Agents
  <2>2. CASE parent[d] = a
    <3>1. ~collected[d]
      BY <1>1, <2>1 DEF SlotInv, CollectedHasEnded, Live, Terminal
    <3>2. d \in OpenKids({a})
      BY <2>1, <2>2, <3>1 DEF OpenKids, Open, Live
    <3> QED
      BY <3>2, <2>1, <1>1
  <2>3. CASE parent[d] # a
    <3>1. HasClosed(parent[d])
      BY <2>1, <2>3, <1>2 DEF HasClosed
    <3> QED
      BY <3>1, <2>1, <1>1, <1>3 DEF OrphansCancelled
  <2> QED
    BY <2>2, <2>3
<1>8. LateCallsAreLast'
  BY <1>1, <1>2, <1>3, CallGoesOn DEF Over
<1> QED
  BY <1>4, <1>5, <1>6, <1>7, <1>8 DEF TreeInv

LEMMA CloseChildInv ==
  ASSUME TreeInv, NEW c \in Agents, CloseChild(c)
  PROVE  TreeInv'
PROOF
<1>1. OpenKids({c}) \cap Children \subseteq {c} \cup Descendants(c)
  BY DEF Descendants
<1> QED
  BY <1>1, CloseInv DEF CloseChild

LEMMA CloseRootInv == ASSUME TreeInv, CloseRoot PROVE TreeInv'
PROOF
<1>1. Root \in Agents /\ OpenKids({Root}) \cap Children \subseteq Open
  BY DEF Agents, OpenKids
<1> QED
  BY <1>1, CloseInv DEF CloseRoot

LEMMA FinishChildInv ==
  ASSUME TreeInv, NEW c \in Agents, FinishChild(c)
  PROVE  TreeInv'
PROOF
<1>1. /\ c \in Children /\ pc[c] = "closed"
      /\ status' = [status EXCEPT ![c] = verdict[c]]
      /\ pc' = [pc EXCEPT ![c] = "ended"]
      /\ UNCHANGED <<parent, depth, cancelEvent, collected, openCount, accepting, verdict,
                     seen, turns, lateCalls, registered, closing, shutdown, promptClosed>>
  BY DEF FinishChild, Goto, harness
<1>2. /\ TypeOK /\ SlotInv /\ FlowInv /\ OrphansCancelled /\ LateCallsAreLast
      /\ pc \in [Agents -> PCs] /\ status \in [Agents -> Statuses]
      /\ c # Root /\ verdict[c] \in Terminal /\ status[c] = "running"
  BY <1>1, TreeAssumption
     DEF TreeInv, TypeOK, FlowInv, ConcludedHasVerdict, ThreadsMatchRecords, Over
<1>3. /\ pc'[c] = "ended" /\ status'[c] \in Terminal
      /\ \A b \in Agents \ {c} : pc'[b] = pc[b] /\ status'[b] = status[b]
  BY <1>1, <1>2
<1>4. TypeOK'
  <2>1. pc' \in [Agents -> PCs] /\ status' \in [Agents -> Statuses]
    BY <1>1, <1>2 DEF PCs, Statuses
  <2> QED
    BY <1>1, <1>2, <2>1 DEF TypeOK
<1>5. SlotInv'
  <2>1. Open' = Open
    BY <1>1, <1>2, <1>3 DEF Open, Terminal
  <2>2. CollectedHasEnded' /\ RootIsOpen'
    BY <1>1, <1>2, <1>3 DEF SlotInv, CollectedHasEnded, RootIsOpen, Agents
  <2> QED
    BY <1>1, <1>2, <2>1, <2>2 DEF SlotInv, SlotAccounting, AwaitedAreOwn
<1>6. FlowInv'
  <2>1. ThreadsMatchRecords'
    BY <1>2, <1>3 DEF FlowInv, ThreadsMatchRecords, Agents, Terminal
  <2>2. OwnersHaveBegun'
    BY <1>1, <1>2, <1>3 DEF FlowInv, OwnersHaveBegun, Before, Agents
  <2>3. ConcludedHasVerdict'
    BY <1>1, <1>2, <1>3 DEF FlowInv, ConcludedHasVerdict, Over
  <2> QED
    BY <2>1, <2>2, <2>3 DEF FlowInv
<1>7. OrphansCancelled'
  <2> SUFFICES ASSUME NEW d \in Children, Live(d)', HasClosed(parent[d])'
               PROVE  cancelEvent[d]
    BY <1>1 DEF OrphansCancelled
  <2>1. d # c /\ Live(d) /\ parent[d] \in Agents
    BY <1>1, <1>2, <1>3 DEF Live, FlowInv, OwnersHaveBegun, Agents, Terminal
  <2>2. HasClosed(parent[d])
    BY <2>1, <1>1, <1>3 DEF HasClosed
  <2> QED
    BY <2>1, <2>2, <1>2 DEF OrphansCancelled
<1>8. LateCallsAreLast'
  BY <1>1, <1>2, <1>3 DEF LateCallsAreLast, Calling, Over
<1> QED
  BY <1>4, <1>5, <1>6, <1>7, <1>8 DEF TreeInv

LEMMA EndRootInv == ASSUME TreeInv, EndRoot PROVE TreeInv'
PROOF
<1>1. /\ pc[Root] = "stopping" /\ Root \in Agents /\ Root \notin Children
      /\ accepting' = FALSE /\ promptClosed' = TRUE /\ registered' = FALSE
      /\ pc' = [pc EXCEPT ![Root] = "ended"]
      /\ UNCHANGED <<status, parent, depth, cancelEvent, collected, openCount, verdict, seen,
                     turns, lateCalls, closing, shutdown>>
  BY TreeAssumption DEF EndRoot, Goto, records, Agents
<1>2. /\ TypeOK /\ SlotInv /\ FlowInv /\ OrphansCancelled /\ LateCallsAreLast
      /\ pc \in [Agents -> PCs]
  BY DEF TreeInv, TypeOK
<1>3. pc'[Root] = "ended" /\ \A b \in Agents \ {Root} : pc'[b] = pc[b]
  BY <1>1, <1>2
<1>4. TypeOK'
  <2>1. pc' \in [Agents -> PCs]
    BY <1>1, <1>2 DEF PCs
  <2> QED
    BY <1>1, <1>2, <2>1 DEF TypeOK
<1>5. SlotInv'
  BY <1>1, <1>2, SlotsUnchanged
<1>6. FlowInv'
  BY <1>1, <1>2, <1>3
     DEF FlowInv, ThreadsMatchRecords, OwnersHaveBegun, ConcludedHasVerdict, Before, Over, Agents
<1>7. OrphansCancelled'
  <2> SUFFICES ASSUME NEW d \in Children, Live(d), HasClosed(parent[d])'
               PROVE  cancelEvent[d]
    BY <1>1 DEF OrphansCancelled, Live
  <2>1. parent[d] \in Agents
    BY <1>2 DEF Live, FlowInv, OwnersHaveBegun
  <2>2. HasClosed(parent[d])
    BY <2>1, <1>1, <1>3 DEF HasClosed
  <2> QED
    BY <2>2, <1>2 DEF OrphansCancelled
<1>8. LateCallsAreLast'
  BY <1>1, <1>2, <1>3 DEF LateCallsAreLast, Calling, Over
<1> QED
  BY <1>4, <1>5, <1>6, <1>7, <1>8 DEF TreeInv

\* The thread that closes the App only cancels and closes.
LEMMA ShutdownInv ==
  ASSUME TreeInv, BeginShutdown \/ ShutdownStep
  PROVE  TreeInv'
PROOF
<1>1. TypeOK
  BY DEF TreeInv
<1>2. CASE BeginShutdown
  <2>1. TypeOK'
    BY <1>1, <1>2 DEF TypeOK, BeginShutdown, records
  <2> QED
    BY <1>2, <2>1, ElsewhereInv DEF BeginShutdown, records
<1>3. ASSUME NEW S, NEW next \in {"tree", "executor"}, CancelAll(S), shutdown' = next,
             UNCHANGED <<status, parent, depth, collected, openCount, accepting, pc, verdict,
                         seen, turns, lateCalls, registered, closing, promptClosed>>
      PROVE  TreeInv'
  <2>1. cancelEvent' \in [Agents -> BOOLEAN] /\ \A b \in Agents : cancelEvent[b] => cancelEvent'[b]
    BY <1>1, <1>3 DEF CancelAll, TypeOK
  <2>2. TypeOK'
    BY <1>1, <1>3, <2>1 DEF TypeOK
  <2> QED
    BY <1>3, <2>1, <2>2, ElsewhereInv
<1>4. CASE ShutdownEvent
  BY <1>3, <1>4 DEF ShutdownEvent
<1>5. CASE ShutdownTree
  BY <1>3, <1>5 DEF ShutdownTree
<1>6. CASE ShutdownExecutor
  <2>1. TypeOK'
    BY <1>1, <1>6 DEF TypeOK, ShutdownExecutor, records
  <2> QED
    BY <1>6, <2>1, ElsewhereInv DEF ShutdownExecutor, records
<1>7. CASE ShutdownPrompt
  <2>1. TypeOK'
    BY <1>1, <1>7 DEF TypeOK, ShutdownPrompt, records
  <2> QED
    BY <1>7, <2>1, ElsewhereInv DEF ShutdownPrompt, records
<1> QED
  BY <1>2, <1>4, <1>5, <1>6, <1>7 DEF ShutdownStep

LEMMA FailReleasedInv == ASSUME TreeInv, FailReleased PROVE TreeInv'
PROOF
<1>1. Root \in Agents /\ "failed" \in Terminal
  BY DEF Agents, Terminal
<1> QED
  BY <1>1, Concludes DEF FailReleased, Over

LEMMA StutterInv == ASSUME TreeInv, UNCHANGED vars PROVE TreeInv'
PROOF
<1>1. TypeOK'
  BY DEF TreeInv, TypeOK, vars, records, harness
<1> QED
  BY <1>1, ElsewhereInv DEF vars, records

LEMMA NextTree == TreeInv /\ [Next]_vars => TreeInv'
PROOF
<1> SUFFICES ASSUME TreeInv, [Next]_vars PROVE TreeInv'
  OBVIOUS
<1>1. ASSUME NEW a \in Agents, AgentStep(a) PROVE TreeInv'
  <2>1. CASE a = Root /\ RootStep
    BY <2>1, RegisterRootInv, FailReleasedInv, CloseRootInv, EndRootInv DEF RootStep
  <2>2. CASE a \in Children /\ BeginChild(a)
    BY <2>2, BeginChildInv
  <2>3. CASE BuildFails(a)
    BY <2>3, BuildFailsInv
  <2>4. CASE LoopStep(a)
    BY <2>4, LoopStepInv
  <2>5. ASSUME NEW c \in Children, StartChild(a, c) \/ CancelChild(a, c)
        PROVE  TreeInv'
    BY <2>5, StartChildInv, CancelChildInv
  <2>6. ASSUME NEW S \in SUBSET Children, BeginWait(a, S)
        PROVE  TreeInv'
    BY <2>6, BeginWaitInv
  <2>7. CASE EndWait(a)
    BY <2>7, EndWaitInv
  <2>8. CASE CloseChild(a) \/ FinishChild(a)
    BY <2>8, CloseChildInv, FinishChildInv
  <2> QED
    BY <1>1, <2>1, <2>2, <2>3, <2>4, <2>5, <2>6, <2>7, <2>8 DEF AgentStep, LoopStep
<1>2. ASSUME NEW a \in Agents, WaitTimeout(a) PROVE TreeInv'
  BY <1>2, WaitTimeoutInv
<1>3. CASE BeginShutdown \/ ShutdownStep
  BY <1>3, ShutdownInv
<1>4. CASE Quiet \/ UNCHANGED vars
  BY <1>4, StutterInv DEF Quiet
<1> QED
  BY <1>1, <1>2, <1>3, <1>4 DEF Next

-----------------------------------------------------------------------------
(* The refinement: what a step does to a Subagent's stage.                 *)

Stage(c) == IF collected[c] THEN "collected"
            ELSE IF status[c] \in Terminal THEN "ended" ELSE status[c]
Result(c) == IF status[c] \in Terminal THEN status[c] ELSE "running"

LEMMA InitRefines == Init => Contract!Init
PROOF
<1> SUFFICES ASSUME Init PROVE Contract!Init
  OBVIOUS
<1>1. \A c \in Children : /\ c \in Agents /\ status[c] = "absent" /\ ~collected[c]
                          /\ parent[c] = NoAgent
  BY TreeAssumption DEF Init, Agents
<1>2. "absent" \notin Terminal
  BY DEF Terminal
<1> QED
  BY <1>1, <1>2 DEF Contract!Init

LEMMA SameRecordsSameStages ==
  ASSUME UNCHANGED <<status, parent, collected>>
  PROVE  UNCHANGED Contract!cvars
PROOF
  BY DEF Contract!cvars

\* The contract counts with the same cardinality.
LEMMA SameCardinality ==
  ASSUME NEW S
  PROVE  Contract!Cardinality(S) = Cardinality(S)
PROOF
  BY DEF Contract!Cardinality, Cardinality

\* The open records are the root's and those of the Subagents that hold a slot.
LEMMA HoldingIsOpen ==
  ASSUME TreeInv
  PROVE  IsFiniteSet(Contract!Holding) /\ Cardinality(Contract!Holding) + 1 = openCount
PROOF
<1>1. /\ TypeOK /\ SlotInv /\ Root \notin Children
      /\ \A c \in Children : c \in Agents /\ status[c] \in Statuses
  BY TreeAssumption DEF TreeInv, TypeOK, Agents
<1>2. Contract!Holding = {c \in Children : Stage(c) \in {"queued", "running", "ended"}}
  BY DEF Contract!Holding, Stage
<1>3. \A c \in Children : Stage(c) \in {"queued", "running", "ended"} <=> c \in Open
  BY <1>1 DEF Stage, Open, Statuses, Terminal
<1>4. Open = Contract!Holding \cup {Root} /\ Root \notin Contract!Holding
  BY <1>1, <1>2, <1>3 DEF Open, SlotInv, RootIsOpen, Agents
<1>5. Contract!Holding \subseteq Open
  BY <1>4
<1>6. IsFiniteSet(Contract!Holding)
  BY <1>5, OpenIsFinite, FS_Subset
<1>7. Cardinality(Open) = Cardinality(Contract!Holding) + 1
  BY <1>4, <1>6, FS_AddElement
<1> QED
  BY <1>1, <1>6, <1>7 DEF SlotInv, SlotAccounting

\* Whoever acts in the tree may own Subagents under the contract.
LEMMA ActorMayOwn ==
  ASSUME TreeInv, NEW a \in Agents, pc[a] \notin {"idle", "ended"}
  PROVE  Contract!MayOwn(a)
PROOF
<1>1. CASE a = Root
  BY <1>1 DEF Contract!MayOwn
<1>2. CASE a \in Children
  <2>1. status[a] = "running" /\ ~collected[a]
    BY <1>2 DEF TreeInv, FlowInv, ThreadsMatchRecords, SlotInv, CollectedHasEnded, Terminal
  <2> QED
    BY <1>2, <2>1 DEF Contract!MayOwn, Terminal
<1> QED
  BY <1>1, <1>2 DEF Agents

LEMMA StartRefines ==
  ASSUME TreeInv, NEW a \in Agents, NEW c \in Children, StartChild(a, c)
  PROVE  Contract!Start(a, c) \/ UNCHANGED Contract!cvars
PROOF
<1>1. CASE UNCHANGED <<status, parent, depth, openCount>>
  BY <1>1, SameRecordsSameStages DEF StartChild
<1>2. CASE /\ openCount < MaxOpen
           /\ status' = [status EXCEPT ![c] = "queued"]
           /\ parent' = [parent EXCEPT ![c] = a]
  <2>1. /\ pc[a] = "tool" /\ status[c] = "absent" /\ UNCHANGED collected
        /\ ~collected[c] /\ c \in Agents
    BY DEF StartChild, TreeInv, SlotInv, CollectedHasEnded, Terminal, Agents
  <2>2. /\ status \in [Agents -> Statuses] /\ parent \in [Agents -> Agents \cup {NoAgent}]
        /\ Children \subseteq Agents /\ "absent" \notin Terminal /\ "queued" \notin Terminal
    BY DEF TreeInv, TypeOK, Agents, Terminal
  <2>3. /\ status'[c] = "queued" /\ parent'[c] = a
        /\ \A d \in Children \ {c} : status'[d] = status[d] /\ parent'[d] = parent[d]
    BY <1>2, <2>1, <2>2
  <2>4. Stage(c) = "absent" /\ Stage(c)' = "queued" /\ Result(c) = Result(c)'
    BY <2>1, <2>2, <2>3 DEF Stage, Result
  <2>5. \A d \in Children \ {c} : Stage(d)' = Stage(d) /\ Result(d)' = Result(d)
    BY <2>1, <2>3 DEF Stage, Result
  <2>6. Contract!MayOwn(a)
    BY <2>1, ActorMayOwn
  <2>7. Contract!Cardinality(Contract!Holding) + 1 < MaxOpen
    BY <1>2, HoldingIsOpen, SameCardinality
  <2>8. [d \in Children |-> Stage(d)]' =
          [[d \in Children |-> Stage(d)] EXCEPT ![c] = "queued"]
    BY <2>4, <2>5
  <2>9. [d \in Children |-> parent[d]]' = [[d \in Children |-> parent[d]] EXCEPT ![c] = a]
    BY <2>3
  <2>10. [d \in Children |-> Result(d)]' = [d \in Children |-> Result(d)]
    BY <2>4, <2>5
  <2> QED
    BY <2>4, <2>6, <2>7, <2>8, <2>9, <2>10 DEF Contract!Start, Stage, Result
<1> QED
  BY <1>1, <1>2 DEF StartChild

LEMMA RunRefines ==
  ASSUME TreeInv, NEW c \in Children, BeginChild(c)
  PROVE  Contract!Run(c)
PROOF
<1>1. /\ status[c] = "queued" /\ UNCHANGED <<parent, collected>>
      /\ status' = [status EXCEPT ![c] = "running"]
      /\ ~collected[c] /\ c \in Agents
  BY DEF BeginChild, TreeInv, SlotInv, CollectedHasEnded, Terminal, Agents
<1>2. /\ status \in [Agents -> Statuses] /\ Children \subseteq Agents
      /\ "running" \notin Terminal /\ "queued" \notin Terminal
  BY DEF TreeInv, TypeOK, Agents, Terminal
<1>3. status'[c] = "running" /\ \A d \in Children \ {c} : status'[d] = status[d]
  BY <1>1, <1>2
<1>4. Stage(c) = "queued" /\ Stage(c)' = "running" /\ Result(c) = Result(c)'
  BY <1>1, <1>2, <1>3 DEF Stage, Result
<1>5. \A d \in Children \ {c} : Stage(d)' = Stage(d) /\ Result(d)' = Result(d)
  BY <1>1, <1>3 DEF Stage, Result
<1>6. [d \in Children |-> Stage(d)]' =
        [[d \in Children |-> Stage(d)] EXCEPT ![c] = "running"]
  BY <1>4, <1>5
<1>7. [d \in Children |-> Result(d)]' = [d \in Children |-> Result(d)]
  BY <1>4, <1>5
<1>8. [d \in Children |-> parent[d]]' = [d \in Children |-> parent[d]]
  BY <1>1
<1> QED
  BY <1>4, <1>6, <1>7, <1>8 DEF Contract!Run, Stage, Result

LEMMA FinishRefines ==
  ASSUME TreeInv, NEW c \in Children, FinishChild(c)
  PROVE  \E r \in Contract!Results : Contract!Finish(c, r)
PROOF
<1>1. /\ pc[c] = "closed" /\ UNCHANGED <<parent, collected>>
      /\ status' = [status EXCEPT ![c] = verdict[c]]
      /\ c \in Agents /\ status[c] = "running" /\ verdict[c] \in Terminal
  BY DEF FinishChild, TreeInv, FlowInv, ThreadsMatchRecords, ConcludedHasVerdict, Over, Agents
<1>2. /\ status \in [Agents -> Statuses] /\ Children \subseteq Agents
      /\ "running" \notin Terminal /\ ~collected[c]
      /\ verdict[c] \in Contract!Results
  BY <1>1 DEF TreeInv, TypeOK, SlotInv, CollectedHasEnded, Agents, Terminal, Contract!Results
<1>3. status'[c] = verdict[c] /\ \A d \in Children \ {c} : status'[d] = status[d]
  BY <1>1, <1>2
<1>4. Stage(c) = "running" /\ Stage(c)' = "ended" /\ Result(c)' = verdict[c]
  BY <1>1, <1>2, <1>3 DEF Stage, Result
<1>5. \A d \in Children \ {c} : Stage(d)' = Stage(d) /\ Result(d)' = Result(d)
  BY <1>1, <1>3 DEF Stage, Result
<1>6. [d \in Children |-> Stage(d)]' =
        [[d \in Children |-> Stage(d)] EXCEPT ![c] = "ended"]
  BY <1>4, <1>5
<1>7. [d \in Children |-> Result(d)]' =
        [[d \in Children |-> Result(d)] EXCEPT ![c] = verdict[c]]
  BY <1>4, <1>5
<1>8. [d \in Children |-> parent[d]]' = [d \in Children |-> parent[d]]
  BY <1>1
<1>9. PICK r \in Contract!Results : r = verdict[c]
  BY <1>2
<1>10. Contract!Finish(c, r)
  BY <1>4, <1>6, <1>7, <1>8, <1>9 DEF Contract!Finish, Stage, Result
<1> QED
  BY <1>10

LEMMA CollectRefines ==
  ASSUME TreeInv, NEW a \in Agents, EndWait(a)
  PROVE  (\E S \in SUBSET Children : Contract!Collect(a, S)) \/ UNCHANGED Contract!cvars
PROOF
<1> DEFINE ended == Ended(DOMAIN seen[a])
<1>1. /\ pc[a] = "waiting" /\ UNCHANGED <<status, parent>>
      /\ collected' = [c \in Agents |-> collected[c] \/ c \in ended]
  BY DEF EndWait
<1>2. /\ ended \subseteq Children /\ Children \subseteq Agents
      /\ collected \in [Agents -> BOOLEAN]
      /\ \A c \in ended : parent[c] = a /\ status[c] \in Terminal /\ ~collected[c]
  BY DEF Ended, TreeInv, SlotInv, AwaitedAreOwn, TypeOK, Open, Agents
<1> HIDE DEF ended
<1>3. CASE ended = {}
  <2>1. \A c \in Agents : collected'[c] = collected[c]
    BY <1>1, <1>2, <1>3
  <2>2. collected' = collected
    BY <1>1, <1>2, <2>1
  <2> QED
    BY <1>1, <2>2, SameRecordsSameStages
<1>4. CASE ended # {}
  <2>1. Contract!MayOwn(a)
    BY <1>1, ActorMayOwn
  <2>2. \A c \in Children : Stage(c)' = IF c \in ended THEN "collected" ELSE Stage(c)
    BY <1>1, <1>2 DEF Stage
  <2>3. \A c \in ended : c \in Children /\ Stage(c) = "ended" /\ parent[c] = a
    BY <1>2 DEF Stage
  <2>4. [c \in Children |-> Stage(c)]' =
          [c \in Children |-> IF c \in ended THEN "collected"
                              ELSE [d \in Children |-> Stage(d)][c]]
    BY <2>2
  <2>5. /\ [c \in Children |-> parent[c]]' = [c \in Children |-> parent[c]]
        /\ [c \in Children |-> Result(c)]' = [c \in Children |-> Result(c)]
    BY <1>1 DEF Result
  <2>6. PICK S \in SUBSET Children : S = ended
    BY <1>2
  <2>7. Contract!Collect(a, S)
    BY <1>4, <2>1, <2>3, <2>4, <2>5, <2>6 DEF Contract!Collect, Stage, Result
  <2> QED
    BY <2>7
<1> QED
  BY <1>3, <1>4

LEMMA NextRefines == TreeInv /\ [Next]_vars => [Contract!Next]_(Contract!cvars)
PROOF
<1> SUFFICES ASSUME TreeInv, [Next]_vars
             PROVE  Contract!Next \/ UNCHANGED Contract!cvars
  OBVIOUS
<1>1. Agents = Children \cup {Root}
  BY DEF Agents
<1>2. CASE UNCHANGED <<status, parent, collected>>
  BY <1>2, SameRecordsSameStages
<1>3. ASSUME NEW a \in Agents, NEW c \in Children, StartChild(a, c)
      PROVE  Contract!Next \/ UNCHANGED Contract!cvars
  BY <1>1, <1>3, StartRefines DEF Contract!Next
<1>4. ASSUME NEW c \in Children, BeginChild(c)
      PROVE  Contract!Next
  BY <1>4, RunRefines DEF Contract!Next
<1>5. ASSUME NEW c \in Children, FinishChild(c)
      PROVE  Contract!Next
  BY <1>5, FinishRefines DEF Contract!Next
<1>6. ASSUME NEW a \in Agents, EndWait(a)
      PROVE  Contract!Next \/ UNCHANGED Contract!cvars
  BY <1>1, <1>6, CollectRefines DEF Contract!Next
<1>7. ASSUME NEW a \in Agents, AgentStep(a)
      PROVE  Contract!Next \/ UNCHANGED Contract!cvars
  <2>1. CASE RootStep
    BY <2>1, <1>2 DEF RootStep, RegisterRoot, FailReleased, CloseRoot, EndRoot, records
  <2>2. CASE BuildFails(a) \/ LoopStep(a)
    BY <2>2, <1>2 DEF BuildFails, LoopStep, EnterLoop, BeginCompaction, EndCompaction,
                      BeginModel, EndModel, Correct, Accept, BeginTool, OtherTool, AfterTool,
                      records
  <2>3. ASSUME NEW c \in Children, CancelChild(a, c)
        PROVE  UNCHANGED Contract!cvars
    BY <2>3, SameRecordsSameStages DEF CancelChild
  <2>4. ASSUME NEW S \in SUBSET Children, BeginWait(a, S)
        PROVE  UNCHANGED Contract!cvars
    BY <2>4, SameRecordsSameStages DEF BeginWait, records
  <2>5. CASE CloseChild(a)
    BY <2>5, <1>2 DEF CloseChild
  <2>6. CASE FinishChild(a)
    BY <2>6, <1>5 DEF FinishChild
  <2> QED
    BY <1>3, <1>4, <1>6, <1>7, <2>1, <2>2, <2>3, <2>4, <2>5, <2>6 DEF AgentStep, LoopStep
<1>8. ASSUME NEW a \in Agents, WaitTimeout(a)
      PROVE  UNCHANGED Contract!cvars
  BY <1>8, SameRecordsSameStages DEF WaitTimeout, records
<1>9. CASE BeginShutdown \/ ShutdownStep \/ Quiet \/ UNCHANGED vars
  BY <1>9, <1>2 DEF BeginShutdown, ShutdownStep, ShutdownEvent, ShutdownTree,
                    ShutdownExecutor, ShutdownPrompt, Quiet, vars, records
<1> QED
  BY <1>7, <1>8, <1>9 DEF Next

-----------------------------------------------------------------------------
(* The theorems.                                                           *)

\* The invariant holds in every state of the tree.
THEOREM TreeInvariant == Spec => []TreeInv
PROOF
<1> QED
  BY InitTree, NextTree, PTL DEF Spec

\* Type correctness of the tree's records, threads and Harness flags.
THEOREM TreeTypeCorrect == Spec => []TypeOK
PROOF
<1>1. TreeInv => TypeOK
  BY DEF TreeInv
<1> QED
  BY <1>1, TreeInvariant, PTL

\* The open-slot count is exact and within max_open_agents, for any number of
\* Subagents and whatever waits overlap (start_child, wait_children).
THEOREM SlotsAreExact == Spec => []SlotAccounting
PROOF
<1>1. TreeInv => SlotAccounting
  BY DEF TreeInv, SlotInv
<1> QED
  BY <1>1, TreeInvariant, PTL

\* No Subagent runs on unaware after its owner closed (close_descendants, close).
THEOREM NoOrphanRunsOn == Spec => []OrphansCancelled
PROOF
<1>1. TreeInv => OrphansCancelled
  BY DEF TreeInv
<1> QED
  BY <1>1, TreeInvariant, PTL

\* A cancelled Agent begins at most one more call, and does not complete after it
\* (Agent._execute_loop).
THEOREM CancellationIsHonoured ==
  Spec => []CancellationIsEffective
PROOF
<1>1. TreeInv => CancellationIsPrompt
  <2> SUFFICES ASSUME TreeInv, NEW a \in Agents PROVE lateCalls[a] <= 1
    BY DEF CancellationIsPrompt
  <2>1. lateCalls[a] = 0 \/ lateCalls[a] = 1
    BY DEF TreeInv, LateCallsAreLast
  <2> QED
    BY <2>1
<1>2. TreeInv => CancelledDoesNotComplete
  BY DEF TreeInv, LateCallsAreLast, CancelledDoesNotComplete, Over
<1> QED
  BY <1>1, <1>2, TreeInvariant, PTL DEF CancellationIsEffective

\* The tree implements the contract of SubagentContract: every step of the tree
\* control, the loops and the Harness is a step of the contract or leaves it alone.
THEOREM TreeImplementsContract == Spec => ImplementsContract
PROOF
<1> QED
  BY InitRefines, NextRefines, TreeInvariant, PTL
     DEF Spec, ImplementsContract, Contract!Spec

=============================================================================
