---------------------------- MODULE RunObserver ----------------------------
(***************************************************************************)
(* The live observer of one run (restscope/observability/observer.py) and  *)
(* the spans that write to it (span.py, http_exchange.py).                 *)
(*                                                                         *)
(* Every Agent's thread opens cards and updates them.  An update is made   *)
(* of two blocks under the observer's lock: a copy of the card is taken,   *)
(* then the fields computed from that copy replace those of the card.  In  *)
(* between the caller may interrupt the run or close the App; Subagents    *)
(* run on after either.                                                    *)
(*                                                                         *)
(* A span is one card; its detail is the set of the parts written to it.   *)
(***************************************************************************)
EXTENDS Naturals, Sequences, FiniteSets, TLC

CONSTANTS
  Root, Side,     \* the cards of the main thread; those of Subagents' threads
  Turns,          \* which of them are Agent turns; the others are Tool calls
  Https,          \* the Tool calls that are HTTP requests
  NoCopy,
  MaxRevision     \* bound: Orchestration replacements

Spans == Root \cup Side

ASSUME ObserverAssumption ==
  /\ Root \cap Side = {}
  /\ Turns \subseteq Spans /\ Https \subseteq Spans \ Turns
  /\ MaxRevision \in Nat

VARIABLES
  closed, run, orchestration,            \* LiveRunObserver
  events, eventOrder, nextOrder,
  changes, cursor,
  main,                                  \* where RESTScopeApp.start is
  pc, copy,                              \* each span: its thread, the copy it took
  written                                \* history: the parts it wrote to its card

feed == <<changes, cursor>>
cards == <<events, eventOrder>>
observer == <<closed, run, orchestration, cards, nextOrder, feed>>
threads == <<pc, copy, written>>
vars == <<observer, main, threads>>

Parts == {"input", "request", "response", "output", "error", "stopped", "answer"}
Statuses == {"running", "succeeded", "warning", "failed"}

NewCard(order) ==
  [order |-> order, revision |-> 1, status |-> "running", detail |-> {}, ended |-> FALSE]

\* What an update works with when its card is gone.
Blank == [NewCard(0) EXCEPT !.status = "succeeded"]

Active == ~closed /\ run # "none"

Change(n, type, data) == [cursor |-> n, type |-> type, data |-> data]

\* _publish_locked
Publish(type, data) ==
  /\ changes' = Append(changes, Change(cursor + 1, type, data))
  /\ cursor' = cursor + 1

NoEvents == [s \in {} |-> Blank]

Init ==
  /\ closed = FALSE /\ run = "none" /\ orchestration = 0
  /\ events = NoEvents /\ eventOrder = <<>> /\ nextOrder = 0
  /\ changes = <<>> /\ cursor = 0
  /\ main = "before"
  /\ pc = [s \in Spans |-> "idle"]
  /\ copy = [s \in Spans |-> NoCopy]
  /\ written = [s \in Spans |-> {}]

-----------------------------------------------------------------------------
(* The run: RESTScopeApp.start on the main thread, and the closing App.    *)

RootQuiet == \A s \in Root : pc[s] \in {"idle", "done"}

\* begin_run: nothing is published by an observer that was closed before.
BeginRun ==
  /\ main = "before"
  /\ main' = "running"
  /\ IF closed THEN UNCHANGED observer
     ELSE /\ run' = "running" /\ orchestration' = 0
          /\ events' = NoEvents /\ eventOrder' = <<>> /\ nextOrder' = 0
          /\ changes' = <<Change(cursor + 1, "reset", "running")>>
          /\ cursor' = cursor + 1
          /\ UNCHANGED closed
  /\ UNCHANGED <<threads>>

\* record_orchestration: a replacement that is not newer is ignored.
RecordOrchestration(r) ==
  /\ main = "running" /\ RootQuiet
  /\ Active /\ r > orchestration
  /\ orchestration' = r
  /\ Publish("orchestration", r)
  /\ UNCHANGED <<closed, run, cards, nextOrder, main, threads>>

\* end_run, with a report or with the exception that ended the loop.
EndRun(status) ==
  /\ main = "running" /\ RootQuiet
  /\ main' = "ended"
  /\ IF closed \/ run # "running" THEN UNCHANGED <<run, feed>>
     ELSE run' = status /\ Publish("run", status)
  /\ UNCHANGED <<closed, orchestration, cards, nextOrder, threads>>

\* Mutant: the detail of a stopped card is replaced.
StoppedCardOnly(card) ==
  [card EXCEPT !.status = "warning", !.ended = TRUE, !.revision = @ + 1,
               !.detail = {"stopped"}]

StoppedCard(card) ==
  [card EXCEPT !.status = "warning", !.ended = TRUE, !.revision = @ + 1,
               !.detail = @ \cup {"stopped"}]

\* interrupt_run: every card still running is stopped and published, in the
\* order of the page, then the run, all in one block.  "at" lists the places
\* of these cards.
Interrupt ==
  LET IsRunning(s) == events[s].status = "running"
      places == {i \in DOMAIN eventOrder : IsRunning(eventOrder[i])}
      n == Cardinality(places)
      Stopped(s) == [span |-> s, card |-> StoppedCard(events[s])]
  IN  /\ main \in {"running", "stopping"} /\ RootQuiet
      /\ main' = "ended"
      /\ IF closed \/ run # "running" THEN UNCHANGED <<run, events, feed>>
         ELSE \E at \in [1..n -> places] :
              /\ \A p \in places : \E i \in 1..n : at[i] = p
              /\ \A i, j \in 1..n : i < j => at[i] < at[j]
              /\ run' = "stopped"
              /\ events' = [s \in DOMAIN events |->
                              IF IsRunning(s) THEN StoppedCard(events[s]) ELSE events[s]]
              /\ cursor' = cursor + n + 1
              /\ changes' =
                   changes \o [i \in 1..n |-> Change(cursor + i, "card", Stopped(eventOrder[at[i]]))]
                           \o <<Change(cursor', "run", "stopped")>>
      /\ UNCHANGED <<closed, orchestration, eventOrder, nextOrder, threads>>

\* close, by the thread that closes the App, whatever the others do.
Close ==
  /\ ~closed
  /\ closed' = TRUE /\ run' = "none" /\ orchestration' = 0
  /\ events' = NoEvents /\ eventOrder' = <<>>
  /\ changes' = <<>>
  /\ UNCHANGED <<nextOrder, cursor, main, threads>>

-----------------------------------------------------------------------------
(* The spans.                                                              *)

Goto(s, l) == pc' = [pc EXCEPT ![s] = l]

\* start_span, in three blocks: the run is active, ...
OpenSpan(s) ==
  /\ pc[s] = "idle" /\ Active
  /\ s \in Root => main = "running" /\ RootQuiet
  /\ Goto(s, "active")
  /\ UNCHANGED <<observer, main, copy, written>>

\* ... _new_event takes the next place in the order, ...
AllocateOrder(s) ==
  /\ pc[s] = "active"
  /\ nextOrder' = nextOrder + 1
  /\ copy' = [copy EXCEPT ![s] = NewCard(nextOrder + 1)]
  /\ Goto(s, "ordered")
  /\ UNCHANGED <<closed, run, orchestration, cards, feed, main, written>>

\* ... and _upsert stores and publishes the card.
Upsert(s) ==
  /\ pc[s] = "ordered"
  /\ events' = [t \in DOMAIN events \cup {s} |-> IF t = s THEN copy[s] ELSE events[t]]
  /\ eventOrder' = IF s \in DOMAIN events THEN eventOrder ELSE Append(eventOrder, s)
  /\ Publish("card", [span |-> s, card |-> copy[s]])
  /\ copy' = [copy EXCEPT ![s] = NoCopy]
  /\ Goto(s, "input")
  /\ UNCHANGED <<closed, run, orchestration, nextOrder, main, written>>

Updating == {"input", "request", "response", "output", "outcome", "error", "stopped",
             "finish", "answer"}

\* _event_copy.
CopyCard(s) ==
  /\ pc[s] \in Updating /\ copy[s] = NoCopy
  /\ pc[s] = "request" => Active
  /\ copy' = [copy EXCEPT ![s] = IF s \in DOMAIN events THEN events[s] ELSE Blank]
  /\ UNCHANGED <<observer, main, pc, written>>

\* The card with some of its fields replaced.
Merged(card, fields) ==
  [[f \in DOMAIN card |-> IF f \in DOMAIN fields THEN fields[f] ELSE card[f]]
     EXCEPT !.revision = @ + 1]

\* Mutant: the card is built from the copy.
UpdateCopy(s, fields) ==
  /\ IF s \in DOMAIN events
     THEN /\ events' = [events EXCEPT ![s] = Merged(copy[s], fields)]
          /\ Publish("card", [span |-> s, card |-> Merged(copy[s], fields)])
     ELSE UNCHANGED <<events, feed>>
  /\ copy' = [copy EXCEPT ![s] = NoCopy]
  /\ UNCHANGED <<closed, run, orchestration, eventOrder, nextOrder, main>>

\* _update_event: the fields computed from the copy replace the card's.
UpdateEvent(s, fields) ==
  /\ IF s \in DOMAIN events
     THEN /\ events' = [events EXCEPT ![s] = Merged(@, fields)]
          /\ Publish("card", [span |-> s, card |-> Merged(events[s], fields)])
     ELSE UNCHANGED <<events, feed>>
  /\ copy' = [copy EXCEPT ![s] = NoCopy]
  /\ UNCHANGED <<closed, run, orchestration, eventOrder, nextOrder, main>>

\* A part of the detail is added to the copied detail.
WritePart(s, part, next, fields) ==
  /\ copy[s] # NoCopy
  /\ UpdateEvent(s, [f \in DOMAIN fields \cup {"detail"} |->
                       IF f = "detail" THEN copy[s].detail \cup {part} ELSE fields[f]])
  /\ written' = [written EXCEPT ![s] = @ \cup {part}]
  /\ Goto(s, next)

NoFields == <<>>
Status(status) == [status |-> status]

SetInput(s) ==
  /\ pc[s] = "input"
  /\ WritePart(s, "input", IF s \in Https THEN "request" ELSE "output", NoFields)

\* start_http_exchange: there is no exchange to record without an active run.
StartExchange(s) ==
  /\ pc[s] = "request"
  /\ \/ WritePart(s, "request", "response", NoFields)
     \/ /\ ~Active /\ copy[s] = NoCopy
        /\ Goto(s, "output")
        /\ UNCHANGED <<observer, main, copy, written>>

\* LiveHTTPExchange.finish, LiveHTTPExchange.fail
FinishExchange(s) ==
  /\ pc[s] = "response"
  /\ \/ WritePart(s, "response", "output", NoFields)
     \/ \E status \in {"warning", "failed"} : WritePart(s, "response", "output", Status(status))

\* _set_agent_messages for a turn; set_content and the status for a Tool call.
SetOutput(s) ==
  /\ pc[s] = "output"
  /\ IF s \in Turns THEN WritePart(s, "output", "outcome", NoFields)
     ELSE \E status \in {"succeeded", "warning", "failed"} :
            WritePart(s, "output", IF status = "failed" THEN "error" ELSE "outcome",
                      Status(status))

\* The provider raises instead of answering.
Raise(s) ==
  /\ pc[s] = "output" /\ s \in Turns /\ copy[s] = NoCopy
  /\ Goto(s, "error")
  /\ UNCHANGED <<observer, main, copy, written>>

\* A KeyboardInterrupt reaches the main thread inside a call.
Stop(s) ==
  /\ pc[s] = "output" /\ s \in Root /\ copy[s] = NoCopy
  /\ Goto(s, "stopped") /\ main' = "stopping"
  /\ UNCHANGED <<observer, copy, written>>

MarkInterrupted(s) ==
  pc[s] = "stopped" /\ WritePart(s, "stopped", "finish", Status("warning"))

MarkError(s) ==
  /\ pc[s] = "error"
  /\ WritePart(s, "error", IF s \in Turns THEN "finish" ELSE "outcome", Status("failed"))

\* mark_ok: an earlier status is not hidden.
MarkOk(s) ==
  /\ pc[s] = "outcome" /\ copy[s] # NoCopy
  /\ IF copy[s].status = "running"
     THEN UpdateEvent(s, Status("succeeded"))
     ELSE /\ copy' = [copy EXCEPT ![s] = NoCopy]
          /\ UNCHANGED <<observer, main>>
  /\ Goto(s, "finish")
  /\ UNCHANGED written

\* Mutant: the card is left as it is.
FinishQuietly(s) ==
  /\ pc[s] = "finish" /\ copy[s] # NoCopy
  /\ copy' = [copy EXCEPT ![s] = NoCopy]
  /\ Goto(s, IF s \in Turns THEN "answer" ELSE "done")
  /\ UNCHANGED <<observer, main, written>>

\* LiveSpan.finish: the end and the duration, with the status the copy has.
Finish(s) ==
  /\ pc[s] = "finish" /\ copy[s] # NoCopy
  /\ LET status == IF copy[s].status = "running" THEN "succeeded" ELSE copy[s].status
     IN  UpdateEvent(s, [status |-> status, ended |-> TRUE])
  /\ Goto(s, IF s \in Turns THEN "answer" ELSE "done")
  /\ UNCHANGED written

\* _complete_agent_task: the last turn of a completed task is its answer.
PromoteAnswer(s) == pc[s] = "answer" /\ WritePart(s, "answer", "done", NoFields)
KeepCommentary(s) ==
  /\ pc[s] = "answer" /\ copy[s] = NoCopy
  /\ Goto(s, "done")
  /\ UNCHANGED <<observer, main, copy, written>>

SpanStep(s) ==
  \/ AllocateOrder(s) \/ Upsert(s) \/ CopyCard(s)
  \/ SetInput(s) \/ StartExchange(s) \/ FinishExchange(s) \/ SetOutput(s)
  \/ Raise(s) \/ MarkInterrupted(s) \/ MarkError(s) \/ MarkOk(s) \/ Finish(s)
  \/ PromoteAnswer(s) \/ KeepCommentary(s)

-----------------------------------------------------------------------------
Next ==
  \/ BeginRun
  \/ \E r \in 1..MaxRevision : RecordOrchestration(r)
  \/ \E status \in {"completed", "errored"} : EndRun(status)
  \/ Interrupt
  \/ Close
  \/ \E s \in Spans : OpenSpan(s) \/ Stop(s) \/ SpanStep(s)

Spec == Init /\ [][Next]_vars

-----------------------------------------------------------------------------
(* Properties.                                                             *)

Cards == [order : Nat, revision : Nat, status : Statuses, detail : SUBSET Parts,
          ended : BOOLEAN]
IsEvents(e) == DOMAIN e \subseteq Spans /\ e \in [DOMAIN e -> Cards]
Runs == {"none", "running", "completed", "errored", "stopped"}

\* Types; the cards are listed once each, and the feed is numbered without a
\* gap up to the newest cursor.
TypeOK ==
  /\ run \in Runs /\ orchestration \in 0..MaxRevision
  /\ IsEvents(events)
  /\ \A i \in DOMAIN eventOrder : eventOrder[i] \in DOMAIN events
  /\ \A s \in DOMAIN events : \E i \in DOMAIN eventOrder : eventOrder[i] = s
  /\ \A i, j \in DOMAIN eventOrder : eventOrder[i] = eventOrder[j] => i = j
  /\ \A i \in DOMAIN changes : changes[i].cursor = cursor - Len(changes) + i

\* No update loses what a span wrote to its card before: the copies the spans
\* and the interruption work with are never too old for that.
EvidenceIsKept ==
  \A s \in DOMAIN events : pc[s] \notin {"active", "ordered"} =>
    written[s] \subseteq events[s].detail

\* A span that has returned leaves a card that ended, whatever happened to the run
\* meanwhile (mark_ok and finish keep the status they find in their copy).
CardsEnd ==
  \A s \in DOMAIN events :
    pc[s] = "done" => events[s].ended /\ events[s].status # "running"
=============================================================================
