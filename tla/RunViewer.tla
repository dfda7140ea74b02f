----------------------------- MODULE RunViewer -----------------------------
(***************************************************************************)
(* One browser that follows the run: the endpoints of restscope/ui/        *)
(* server.py, LiveRunObserver.snapshot and wait_after, and the page's      *)
(* stream and reducer (ui/src/stream.ts, state.ts).                        *)
(*                                                                         *)
(* The page loads a snapshot and then applies the changes after its        *)
(* cursor, over a connection that may be lost and is made again.           *)
(***************************************************************************)
EXTENDS RunObserver

CONSTANT MaxLosses   \* bound: lost connections

ASSUME ViewerAssumption == MaxLosses \in Nat

VARIABLES
  conn, reply,        \* the page's connection, "none" where nobody looks; the
                      \* snapshot on its way
  pulled, inflight,   \* the event stream: its cursor, the changes on their way
  view,               \* what the page shows
  losses

browser == <<conn, reply, pulled, inflight, view, losses>>
viewerVars == <<vars, browser>>

NothingSeen == [run |-> "none", orchestration |-> 0, events |-> NoEvents, cursor |-> 0]

ViewerInit ==
  /\ Init
  /\ conn \in {"none", "idle"} /\ reply = NothingSeen /\ pulled = 0 /\ inflight = <<>>
  /\ view = NothingSeen /\ losses = 0

Snapshot ==
  [run |-> run, orchestration |-> orchestration, events |-> events, cursor |-> cursor]

\* The page asks for the snapshot ...
Fetch ==
  /\ conn = "idle"
  /\ conn' = "fetching" /\ reply' = Snapshot
  /\ UNCHANGED <<vars, pulled, inflight, view, losses>>

\* The reducer's case for a snapshot: an older one is dropped, and so is an
\* older Orchestration of the same run.
WithSnapshot(v, snap) ==
  LET sameRun == (v.run = "none") = (snap.run = "none")
      keep == sameRun /\ v.orchestration # 0 /\ snap.orchestration <= v.orchestration
  IN  IF snap.cursor < v.cursor THEN v
      ELSE [snap EXCEPT !.orchestration = IF keep THEN v.orchestration ELSE @]

\* Mutant: the stream starts at the newest change.
LoadFromNow ==
  /\ conn = "fetching"
  /\ conn' = "streaming"
  /\ view' = WithSnapshot(view, reply)
  /\ pulled' = cursor
  /\ UNCHANGED <<vars, reply, inflight, losses>>

\* ... and opens the event stream at the snapshot's cursor.
Load ==
  /\ conn = "fetching"
  /\ conn' = "streaming"
  /\ view' = WithSnapshot(view, reply)
  /\ pulled' = reply.cursor
  /\ UNCHANGED <<vars, reply, inflight, losses>>

\* wait_after: what is newer than the cursor, which is an end of the feed, since
\* its cursors ascend; with nothing newer it waits.
WaitAfter(n) ==
  LET seen == CHOOSE k \in 0..Len(changes) :
                \A i \in DOMAIN changes : changes[i].cursor > n <=> i > k
  IN  SubSeq(changes, seen + 1, Len(changes))

\* The generator of the event stream takes the newer changes and moves on.
Pull ==
  /\ conn = "streaming" /\ WaitAfter(pulled) # <<>>
  /\ inflight' = inflight \o WaitAfter(pulled)
  /\ pulled' = changes[Len(changes)].cursor
  /\ UNCHANGED <<vars, conn, reply, view, losses>>

\* The reducer's cases for a change: the cursor decides whether it is new.
WithChange(v, c) ==
  CASE c.cursor <= v.cursor -> v
    [] c.cursor > v.cursor /\ c.type = "reset" ->
         [NothingSeen EXCEPT !.run = c.data, !.cursor = c.cursor]
    [] c.cursor > v.cursor /\ c.type = "run" ->
         [v EXCEPT !.run = c.data, !.cursor = c.cursor]
    [] c.cursor > v.cursor /\ c.type = "orchestration" ->
         [v EXCEPT !.orchestration = IF c.data > @ THEN c.data ELSE @, !.cursor = c.cursor]
    [] c.cursor > v.cursor /\ c.type = "card" ->
         [v EXCEPT !.cursor = c.cursor,
                   !.events = [s \in DOMAIN v.events \cup {c.data.span} |->
                                 IF s = c.data.span THEN c.data.card ELSE v.events[s]]]

Deliver ==
  /\ inflight # <<>>
  /\ view' = WithChange(view, Head(inflight))
  /\ inflight' = Tail(inflight)
  /\ UNCHANGED <<vars, conn, reply, pulled, losses>>

\* Mutant: the new connection goes on where the server was.
LoseChanges ==
  /\ conn = "streaming" /\ losses < MaxLosses
  /\ losses' = losses + 1
  /\ inflight' = <<>>
  /\ UNCHANGED <<vars, conn, reply, pulled, view>>

\* _read_cursor: a new connection names the last event it saw, or else the
\* snapshot it started from; what was on its way is lost.
LoseConnection ==
  /\ conn = "streaming" /\ losses < MaxLosses
  /\ losses' = losses + 1
  /\ inflight' = <<>>
  /\ pulled' = view.cursor
  /\ UNCHANGED <<vars, conn, reply, view>>

-----------------------------------------------------------------------------
ObserverStep == Next /\ UNCHANGED browser

ViewerNext == ObserverStep \/ Fetch \/ Load \/ Pull \/ Deliver \/ LoseConnection

ViewerSpec == ViewerInit /\ [][ViewerNext]_viewerVars

\* An open page reads its stream.
PageReads == WF_viewerVars(Load) /\ WF_viewerVars(Pull) /\ WF_viewerVars(Deliver)

FairViewerSpec == ViewerSpec /\ PageReads

-----------------------------------------------------------------------------
(* Properties.                                                             *)

IsView(v) ==
  /\ v.run \in Runs /\ v.orchestration \in 0..MaxRevision
  /\ IsEvents(v.events) /\ v.cursor \in 0..cursor

\* Types; the changes on their way continue what the page shows, in order.
ViewTypeOK ==
  /\ conn \in {"none", "idle", "fetching", "streaming"}
  /\ IsView(view) /\ IsView(reply)
  /\ pulled \in 0..cursor /\ losses \in 0..MaxLosses
  /\ ~closed =>
       \A i \in DOMAIN inflight : inflight[i].cursor = pulled - Len(inflight) + i

\* A page that has applied the newest change shows what a page loaded now would
\* show, whichever connections it lost and whatever it loaded first (snapshot,
\* wait_after, the cursor of the stream and the page's reducer).
CaughtUpIsExact ==
  (conn = "streaming" /\ ~closed /\ view.cursor = cursor) => view = Snapshot

\* A page never goes back: a card of it only changes to a newer revision and does
\* not disappear, and the Orchestration is not replaced by an older one (copies
\* taken before an interruption, reconnections and slow snapshots).
ViewNeverGoesBack ==
  [][ /\ view'.cursor >= view.cursor
      /\ view'.orchestration >= view.orchestration
      /\ \A s \in DOMAIN view.events :
           /\ s \in DOMAIN view'.events
           /\ \/ view'.events[s] = view.events[s]
              \/ view'.events[s].revision > view.events[s].revision ]_viewerVars

\* An open page comes to show the state that stays, and keeps it.
ViewerCatchesUp ==
  (conn = "fetching") ~> [](closed \/ view = Snapshot)
=============================================================================
