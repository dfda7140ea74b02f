--------------------------- MODULE RunViewerProofs ---------------------------
(***************************************************************************)
(* Proofs about RunObserver and RunViewer: no update of a card loses what  *)
(* its span wrote, a span that returned leaves an ended card, a page never *)
(* goes back, and a page that has applied the newest change is exact.      *)
(*                                                                         *)
(* The argument for the page looks at what it does not have yet.  Whatever *)
(* differs between what it shows and the observer's state is repeated by a *)
(* change after its cursor, and the newest of these changes carries the    *)
(* observer's state (Lacks, NewestIsTrue); so nothing differs when no such *)
(* change is left.  Every step of the observer either appends changes of a *)
(* certain form (Grows), begins the run, or closes the feed for good.      *)
(***************************************************************************)
EXTENDS RunViewer, FiniteSetTheorems, SequenceTheorems, TLAPS

-----------------------------------------------------------------------------
(* The inductive invariant of the observer.                                *)

Opening == {"idle", "active", "ordered"}
Places == Opening \cup Updating \cup {"done"}

\* The changes of the feed, by what they say.
Changes ==
       [cursor : Nat, type : {"reset", "run"}, data : Runs]
  \cup [cursor : Nat, type : {"orchestration"}, data : 0..MaxRevision]
  \cup [cursor : Nat, type : {"card"}, data : [span : Spans, card : Cards]]

Types ==
  /\ closed \in BOOLEAN /\ run \in Runs /\ orchestration \in 0..MaxRevision
  /\ IsEvents(events)
  /\ eventOrder \in Seq(Spans) /\ nextOrder \in Nat /\ cursor \in Nat
  /\ pc \in [Spans -> Places]
  /\ copy \in [Spans -> Cards \cup {NoCopy}]
  /\ written \in [Spans -> SUBSET Parts]

\* The cards are listed once each.
Listed ==
  /\ \A i \in DOMAIN eventOrder : eventOrder[i] \in DOMAIN events
  /\ \A s \in DOMAIN events : \E i \in DOMAIN eventOrder : eventOrder[i] = s
  /\ \A i, j \in DOMAIN eventOrder : eventOrder[i] = eventOrder[j] => i = j

\* The feed is numbered without a gap; nothing is dropped before the end.
Numbered ==
  /\ changes \in Seq(Changes)
  /\ Len(changes) <= cursor /\ (~closed => Len(changes) = cursor)
  /\ \A i \in DOMAIN changes :
       changes[i].cursor = cursor - Len(changes) + i

\* Nothing has happened while nothing was published.
Quiet ==
  /\ main = "before" => cursor = 0
  /\ cursor = 0 => /\ run = "none" /\ orchestration = 0 /\ events = NoEvents
                   /\ \A s \in Spans : pc[s] = "idle"

\* What a span has written is in its card, and in the copy it works with; the
\* card of a span that has finished has ended.
SpanInv(s) ==
  /\ pc[s] \in Opening => s \notin DOMAIN events /\ written[s] = {}
  /\ pc[s] = "ordered" => copy[s] \in Cards
  /\ s \in DOMAIN events =>
       /\ written[s] \subseteq events[s].detail
       /\ pc[s] \in Updating /\ copy[s] # NoCopy => written[s] \subseteq copy[s].detail
       /\ pc[s] \in {"answer", "done"} => events[s].ended /\ events[s].status # "running"

Evidence == \A s \in Spans : SpanInv(s)

ObserverInv == Types /\ Listed /\ Numbered /\ Quiet /\ Evidence

-----------------------------------------------------------------------------
(* The inductive invariant of the page.                                    *)

IsCardOf(c, s) == c.type = "card" /\ c.data.span = s

\* The changes that are published and those on their way to the page.
Known == {changes[i] : i \in DOMAIN changes} \cup {inflight[i] : i \in DOMAIN inflight}

\* What is known of a card is not newer than the card, and grows newer with the
\* cursor; only the first change starts a run.
KnownInv ==
  \A c \in Known :
    /\ c.cursor <= cursor
    /\ c.type = "reset" => c.cursor = 1
    /\ c.type = "card" =>
         /\ pc[c.data.span] \notin Opening
         /\ c.data.span \in DOMAIN events =>
              c.data.card.revision <= events[c.data.span].revision
         /\ \A d \in Known :
              IsCardOf(d, c.data.span) /\ c.cursor < d.cursor =>
                c.data.card.revision < d.data.card.revision

IsRecord(v) ==
  v = [run |-> v.run, orchestration |-> v.orchestration, events |-> v.events,
       cursor |-> v.cursor]

\* The same of what a page shows or is about to show.
ViewInv(v) ==
  /\ IsRecord(v)
  /\ IsView(v) /\ (v.cursor = 0 => v = NothingSeen)
  /\ \A s \in DOMAIN v.events :
       /\ pc[s] \notin Opening
       /\ s \in DOMAIN events => v.events[s].revision <= events[s].revision
       /\ \A c \in Known : IsCardOf(c, s) /\ c.cursor > v.cursor =>
                             c.data.card.revision > v.events[s].revision

\* The connection: before the stream is open, nothing is shown.
Connected ==
  /\ conn \in {"none", "idle", "fetching", "streaming"}
  /\ inflight \in Seq(Changes)
  /\ pulled \in 0..cursor /\ losses \in 0..MaxLosses
  /\ conn # "streaming" => view = NothingSeen /\ inflight = <<>>

\* The changes on their way are those before the stream's cursor, and they begin
\* at latest after what the page shows.
Flows ==
  conn = "streaming" =>
    LET first == pulled - Len(inflight)
    IN  /\ first >= 0 /\ first <= view.cursor /\ view.cursor <= pulled
        /\ \A i \in DOMAIN inflight : inflight[i] = changes[first + i]

\* The newest change about a thing carries its state.
NewestIsTrue ==
  \A i \in DOMAIN changes :
    LET c == changes[i]
        after == i + 1 .. Len(changes)
    IN  /\ c.type = "card" /\ (\A j \in after : ~IsCardOf(changes[j], c.data.span)) =>
             c.data.span \in DOMAIN events /\ c.data.card = events[c.data.span]
        /\ c.type \in {"reset", "run"} /\ (\A j \in after : changes[j].type \notin {"reset", "run"}) =>
             c.data = run
        /\ c.type = "orchestration" =>
             /\ c.data <= orchestration
             /\ \A j \in after : changes[j].type = "orchestration" => c.data < changes[j].data
             /\ (\A j \in after : changes[j].type # "orchestration") => c.data = orchestration

\* What a page lacks is in the changes after its cursor.
Lacks(v) ==
  LET after == v.cursor + 1 .. Len(changes)
  IN  /\ \A s \in Spans : (\A j \in after : ~IsCardOf(changes[j], s)) =>
           /\ s \in DOMAIN v.events <=> s \in DOMAIN events
           /\ s \in DOMAIN events => v.events[s] = events[s]
      /\ (\A j \in after : changes[j].type \notin {"reset", "run"}) => v.run = run
      /\ (\A j \in after : changes[j].type # "orchestration") => v.orchestration = orchestration
      /\ \A j \in after : changes[j].type = "orchestration" => v.orchestration < changes[j].data

Exact == ~closed => Flows /\ NewestIsTrue /\ Lacks(view) /\ Lacks(reply)

PageInv == KnownInv /\ ViewInv(view) /\ ViewInv(reply) /\ Connected /\ Exact

ViewerInv == ObserverInv /\ PageInv

-----------------------------------------------------------------------------
(* Cards, changes and sequences.                                           *)

\* The fields an update may replace.
IsFields(fields) ==
  /\ DOMAIN fields \subseteq {"status", "detail", "ended"}
  /\ "status" \in DOMAIN fields => fields["status"] \in Statuses
  /\ "detail" \in DOMAIN fields => fields["detail"] \in SUBSET Parts
  /\ "ended" \in DOMAIN fields => fields["ended"] \in BOOLEAN

\* A card after an update: the named fields are replaced, the others stay
\* (_update_event).
LEMMA MergedCard ==
  ASSUME NEW card \in Cards, NEW fields, IsFields(fields)
  PROVE  LET m == Merged(card, fields)
         IN  /\ m \in Cards
             /\ m.revision = card.revision + 1
             /\ m.status = IF "status" \in DOMAIN fields THEN fields["status"] ELSE card.status
             /\ m.detail = IF "detail" \in DOMAIN fields THEN fields["detail"] ELSE card.detail
             /\ m.ended = IF "ended" \in DOMAIN fields THEN fields["ended"] ELSE card.ended
<1> DEFINE u == [f \in DOMAIN card |-> IF f \in DOMAIN fields THEN fields[f] ELSE card[f]]
           m == Merged(card, fields)
<1>1. DOMAIN card = {"order", "revision", "status", "detail", "ended"}
  BY DEF Cards
<1>2. DOMAIN u = {"order", "revision", "status", "detail", "ended"}
  BY <1>1
<1>3. /\ u["order"] = card["order"] /\ u["revision"] = card["revision"]
      /\ u["status"] = IF "status" \in DOMAIN fields THEN fields["status"] ELSE card["status"]
      /\ u["detail"] = IF "detail" \in DOMAIN fields THEN fields["detail"] ELSE card["detail"]
      /\ u["ended"] = IF "ended" \in DOMAIN fields THEN fields["ended"] ELSE card["ended"]
  BY <1>1 DEF IsFields
<1>4. u = [x \in {"order", "revision", "status", "detail", "ended"} |-> u[x]]
  BY <1>1, <1>2
<1>5. card.order \in Nat /\ card.revision \in Nat /\ card.status \in Statuses
      /\ card.detail \in SUBSET Parts /\ card.ended \in BOOLEAN
  BY DEF Cards
<1>. HIDE DEF u
<1>6. m = [u EXCEPT !.revision = u["revision"] + 1]
  BY DEF Merged, u
<1>. HIDE DEF m
<1>7. /\ m["order"] = u["order"] /\ m["revision"] = u["revision"] + 1
      /\ m["status"] = u["status"] /\ m["detail"] = u["detail"] /\ m["ended"] = u["ended"]
      /\ DOMAIN m = {"order", "revision", "status", "detail", "ended"}
      /\ m = [x \in {"order", "revision", "status", "detail", "ended"} |-> m[x]]
  BY <1>2, <1>6
<1>8. m = [order |-> m["order"], revision |-> m["revision"], status |-> m["status"],
           detail |-> m["detail"], ended |-> m["ended"]]
  BY <1>7
<1>9. /\ m["order"] \in Nat /\ m["revision"] \in Nat /\ m["status"] \in Statuses
      /\ m["detail"] \in SUBSET Parts /\ m["ended"] \in BOOLEAN
  BY <1>3, <1>5, <1>7 DEF IsFields
<1>10. m \in Cards
  BY <1>8, <1>9 DEF Cards
<1>. QED  BY <1>3, <1>7, <1>10 DEF m

\* The kinds of changes.
LEMMA ChangeKinds ==
  /\ \A c \in Changes :
       /\ c.cursor \in Nat /\ c.type \in {"reset", "run", "orchestration", "card"}
       /\ c.type \in {"reset", "run"} => c.data \in Runs
       /\ c.type = "orchestration" => c.data \in 0..MaxRevision
       /\ c.type = "card" => /\ c.data.span \in Spans /\ c.data.card \in Cards
                             /\ c.data.card.revision \in Nat
  /\ \A n \in Nat : \A d \in Runs :
       Change(n, "run", d) \in Changes /\ Change(n, "reset", d) \in Changes
  /\ \A n \in Nat : \A d \in 0..MaxRevision : Change(n, "orchestration", d) \in Changes
  /\ \A n \in Nat : \A s \in Spans : \A k \in Cards :
       Change(n, "card", [span |-> s, card |-> k]) \in Changes
  BY DEF Changes, Change, Cards

\* The changes a step publishes (_publish_locked): cards as they are after the
\* step, one change for each, the run's status and a newer Orchestration; and
\* what no change tells of stays.
Fresh == Len(changes) + 1 .. Len(changes')

SameCard(s) ==
  /\ s \in DOMAIN events' <=> s \in DOMAIN events
  /\ s \in DOMAIN events => events'[s] = events[s]

Announces(i) ==
  LET c == changes'[i]
  IN  /\ c.type # "reset"
      /\ c.type = "card" =>
           /\ c.data.span \in DOMAIN events' /\ c.data.card = events'[c.data.span]
           /\ IF c.data.span \in DOMAIN events
              THEN events[c.data.span].revision < c.data.card.revision
              ELSE pc[c.data.span] \in Opening
           /\ \A j \in Fresh : IsCardOf(changes'[j], c.data.span) => i = j
      /\ c.type = "run" => c.data = run'
      /\ c.type = "orchestration" =>
           /\ c.data = orchestration' /\ orchestration < c.data
           /\ \A j \in Fresh : changes'[j].type = "orchestration" => i = j

Grows ==
  /\ closed' = closed
  /\ cursor' \in Nat /\ cursor <= cursor'
  /\ changes' \in Seq(Changes) /\ Len(changes') = Len(changes) + (cursor' - cursor)
  /\ \A i \in DOMAIN changes : changes'[i] = changes[i]
  /\ \A i \in Fresh : changes'[i].cursor = cursor + (i - Len(changes)) /\ Announces(i)
  /\ \A s \in Spans : (\A i \in Fresh : ~IsCardOf(changes'[i], s)) => SameCard(s)
  /\ (\A i \in Fresh : changes'[i].type # "run") => run' = run
  /\ (\A i \in Fresh : changes'[i].type # "orchestration") => orchestration' = orchestration

\* A step that leaves what the observer shows alone publishes nothing.
LEMMA NothingGrows ==
  ASSUME Types, Numbered, UNCHANGED <<closed, run, orchestration, events, changes, cursor>>
  PROVE  Grows
<1>1. /\ closed' = closed /\ run' = run /\ orchestration' = orchestration
      /\ events' = events /\ changes' = changes /\ cursor' = cursor
  OBVIOUS
<1>2. Len(changes) \in Nat /\ cursor \in Nat
  BY DEF Types, Numbered
<1>3. Fresh = {}
  BY <1>1, <1>2 DEF Fresh
<1>. QED  BY <1>1, <1>2, <1>3 DEF Grows, SameCard, Numbered

\* The numbering after a step that appends.
LEMMA GrowsNumbered ==
  ASSUME Types, Numbered, Grows
  PROVE  Numbered'
<1>1. Len(changes) \in Nat /\ Len(changes') \in Nat /\ cursor \in Nat /\ cursor' \in Nat
  BY DEF Types, Numbered, Grows
<1>2. ASSUME NEW i \in DOMAIN changes'
      PROVE  changes'[i].cursor = cursor' - Len(changes') + i
  <2>1. i \in 1 .. Len(changes')
    BY <1>1 DEF Grows
  <2>2. CASE i \in DOMAIN changes
    <3>1. changes'[i] = changes[i] /\ changes[i].cursor = cursor - Len(changes) + i
      BY <2>2 DEF Grows, Numbered
    <3>2. Len(changes') = Len(changes) + (cursor' - cursor)
      BY DEF Grows
    <3>. QED  BY <1>1, <2>1, <3>1, <3>2
  <2>3. CASE i \notin DOMAIN changes
    <3>1. i \in Fresh
      BY <1>1, <2>1, <2>3 DEF Fresh, Numbered
    <3>. QED  BY <1>1, <2>1, <3>1 DEF Grows
  <2>. QED  BY <2>2, <2>3
<1>. QED  BY <1>1, <1>2 DEF Numbered, Grows

\* One change is appended.
LEMMA PublishOne ==
  ASSUME Types, Numbered, NEW type, NEW data,
         Change(cursor + 1, type, data) \in Changes, Publish(type, data)
  PROVE  /\ changes' \in Seq(Changes) /\ cursor' = cursor + 1
         /\ Len(changes') = Len(changes) + 1
         /\ Fresh = {Len(changes) + 1}
         /\ \A i \in DOMAIN changes : changes'[i] = changes[i]
         /\ \A i \in Fresh : /\ changes'[i].cursor = cursor + (i - Len(changes))
                             /\ changes'[i].type = type /\ changes'[i].data = data
<1> DEFINE c == Change(cursor + 1, type, data)
<1>1. changes \in Seq(Changes) /\ Len(changes) \in Nat /\ cursor \in Nat
  BY DEF Types, Numbered
<1>2. c.cursor = cursor + 1 /\ c.type = type /\ c.data = data /\ c \in Changes
  BY DEF Change
<1>3. changes' = Append(changes, c) /\ cursor' = cursor + 1
  BY DEF Publish
<1>. HIDE DEF c
<1>4. /\ changes' \in Seq(Changes) /\ Len(changes') = Len(changes) + 1
      /\ \A i \in DOMAIN changes : changes'[i] = changes[i]
      /\ changes'[Len(changes) + 1] = c
  BY <1>1, <1>2, <1>3
<1>5. Fresh = {Len(changes) + 1}
  BY <1>1, <1>4 DEF Fresh
<1>. QED  BY <1>1, <1>2, <1>3, <1>4, <1>5

\* A card is replaced by a newer one, or a first one is put in, and published.
LEMMA CardGrows ==
  ASSUME Types, Numbered, NEW s \in Spans, NEW k \in Cards,
         UNCHANGED <<closed, run, orchestration>>,
         events' = [t \in DOMAIN events \cup {s} |-> IF t = s THEN k ELSE events[t]],
         Publish("card", [span |-> s, card |-> k]),
         IF s \in DOMAIN events THEN events[s].revision < k.revision ELSE pc[s] \in Opening
  PROVE  Grows
<1> DEFINE d == [span |-> s, card |-> k]
<1>1. cursor \in Nat /\ Len(changes) \in Nat
  BY DEF Types, Numbered
<1>2. Change(cursor + 1, "card", d) \in Changes
  BY <1>1 DEF Change, Changes
<1>3. d.span = s /\ d.card = k
  OBVIOUS
<1>. HIDE DEF d
<1>4. Publish("card", d)
  BY DEF d
<1>5. /\ changes' \in Seq(Changes) /\ cursor' = cursor + 1
      /\ Len(changes') = Len(changes) + 1
      /\ Fresh = {Len(changes) + 1}
      /\ \A i \in DOMAIN changes : changes'[i] = changes[i]
      /\ \A i \in Fresh : /\ changes'[i].cursor = cursor + (i - Len(changes))
                          /\ changes'[i].type = "card" /\ changes'[i].data = d
  BY <1>2, <1>4, PublishOne
<1>6. \A i \in Fresh : Announces(i)
  BY <1>3, <1>5 DEF Announces
<1>7. \A t \in Spans : (\A i \in Fresh : ~IsCardOf(changes'[i], t)) => SameCard(t)
  BY <1>3, <1>5 DEF IsCardOf, SameCard
<1>. QED  BY <1>1, <1>5, <1>6, <1>7 DEF Grows

-----------------------------------------------------------------------------
(* The spans.                                                              *)

Onward == \A t \in Spans : pc[t] \notin Opening => pc'[t] \notin Opening

\* A step of the observer, as the page needs to know it.
Grown == ObserverInv' /\ Grows /\ Onward

OthersStand(s) ==
  \A t \in Spans \ {s} : /\ pc'[t] = pc[t] /\ copy'[t] = copy[t] /\ written'[t] = written[t]
                         /\ SameCard(t)

\* A step of one span keeps the invariant if it keeps the span's part of it.
LEMMA SpanMoves ==
  ASSUME ObserverInv, NEW s \in Spans, Types', Listed', Grows, OthersStand(s),
         cursor # 0, main' \in {main, "stopping"},
         SpanInv(s)', pc[s] \notin Opening => pc'[s] \notin Opening
  PROVE  Grown
<1>1. Numbered'
  BY GrowsNumbered DEF ObserverInv
<1>2. Quiet'
  <2>1. cursor' # 0 /\ main # "before"
    BY DEF Grows, ObserverInv, Types, Quiet
  <2>. QED  BY <2>1 DEF Quiet
<1>3. ASSUME NEW t \in Spans \ {s}
      PROVE  SpanInv(t)'
  <2>1. SpanInv(t)
    BY DEF ObserverInv, Evidence
  <2>2. pc'[t] = pc[t] /\ copy'[t] = copy[t] /\ written'[t] = written[t] /\ SameCard(t)
    BY DEF OthersStand
  <2>. QED  BY <2>1, <2>2 DEF SpanInv, SameCard
<1>4. Evidence'
  BY <1>3 DEF Evidence
<1>5. Onward
  BY DEF Onward, OthersStand
<1>. QED  BY <1>1, <1>2, <1>4, <1>5 DEF Grown, ObserverInv

\* An open span's card changes after the run has begun.
LEMMA SpanIsLate ==
  ASSUME ObserverInv, NEW s \in Spans, pc[s] # "idle"
  PROVE  cursor # 0
  BY DEF ObserverInv, Quiet

\* A step of one span that leaves what the observer shows alone.
LEMMA QuietStep ==
  ASSUME ObserverInv, NEW s \in Spans, cursor # 0, nextOrder' \in Nat,
         UNCHANGED <<closed, run, orchestration, cards, feed>>,
         main' \in {main, "stopping"},
         NEW next \in Places, pc' = [pc EXCEPT ![s] = next],
         copy' \in [Spans -> Cards \cup {NoCopy}],
         \A t \in Spans \ {s} : copy'[t] = copy[t],
         written' = written,
         SpanInv(s)', pc[s] \notin Opening => next \notin Opening
  PROVE  Grown
<1>1. /\ closed' = closed /\ run' = run /\ orchestration' = orchestration
      /\ events' = events /\ eventOrder' = eventOrder /\ changes' = changes /\ cursor' = cursor
  BY DEF cards, feed
<1>2. Grows
  BY <1>1, NothingGrows DEF ObserverInv
<1>3. pc \in [Spans -> Places]
  BY DEF ObserverInv, Types
<1>4. Types'
  BY <1>1, <1>3 DEF ObserverInv, Types, IsEvents
<1>5. Listed'
  BY <1>1 DEF ObserverInv, Listed
<1>6. OthersStand(s)
  BY <1>1, <1>3 DEF OthersStand, SameCard
<1>7. pc'[s] = next
  BY <1>3
<1>. QED  BY <1>2, <1>4, <1>5, <1>6, <1>7, SpanMoves

\* _update_event, for fields of a card.
LEMMA UpdateGrows ==
  ASSUME Types, Listed, Numbered, NEW s \in Spans, NEW fields, IsFields(fields),
         UpdateEvent(s, fields)
  PROVE  /\ Grows /\ Listed' /\ IsEvents(events')
         /\ UNCHANGED <<closed, run, orchestration, eventOrder, nextOrder, main>>
         /\ s \in DOMAIN events' <=> s \in DOMAIN events
         /\ s \in DOMAIN events => events'[s] = Merged(events[s], fields)
         /\ \A t \in Spans \ {s} : SameCard(t)
         /\ copy' = [copy EXCEPT ![s] = NoCopy]
<1>1. /\ closed' = closed /\ run' = run /\ orchestration' = orchestration
      /\ eventOrder' = eventOrder /\ nextOrder' = nextOrder /\ main' = main
      /\ copy' = [copy EXCEPT ![s] = NoCopy]
  BY DEF UpdateEvent
<1>2. events \in [DOMAIN events -> Cards] /\ DOMAIN events \subseteq Spans
  BY DEF Types, IsEvents
<1>3. CASE s \notin DOMAIN events
  <2>1. events' = events /\ changes' = changes /\ cursor' = cursor
    BY <1>3 DEF UpdateEvent, feed
  <2>2. Grows
    BY <1>1, <2>1, NothingGrows
  <2>. QED  BY <1>1, <1>2, <1>3, <2>1, <2>2 DEF Listed, IsEvents, SameCard
<1>4. CASE s \in DOMAIN events
  <2> DEFINE k == Merged(events[s], fields)
  <2>1. events[s] \in Cards
    BY <1>2, <1>4
  <2>2. k \in Cards /\ k.revision = events[s].revision + 1
    BY <2>1, MergedCard
  <2>3. events' = [events EXCEPT ![s] = k] /\ Publish("card", [span |-> s, card |-> k])
    BY <1>4 DEF UpdateEvent
  <2>4. k = Merged(events[s], fields)
    OBVIOUS
  <2>. HIDE DEF k
  <2>5. events' = [t \in DOMAIN events \cup {s} |-> IF t = s THEN k ELSE events[t]]
    BY <1>2, <1>4, <2>3
  <2>6. DOMAIN events' = DOMAIN events /\ events' \in [DOMAIN events -> Cards] /\ events'[s] = k
    BY <1>2, <1>4, <2>2, <2>3
  <2>7. events[s].revision < k.revision
    BY <2>1, <2>2 DEF Cards
  <2>8. Grows
    BY <1>1, <1>4, <2>2, <2>3, <2>5, <2>7, CardGrows
  <2>9. \A t \in Spans \ {s} : SameCard(t)
    BY <1>2, <2>3 DEF SameCard
  <2>10. Listed'
    BY <1>1, <2>6 DEF Listed
  <2>11. IsEvents(events')
    BY <1>2, <2>6 DEF IsEvents
  <2>. QED  BY <1>1, <1>4, <2>4, <2>6, <2>8, <2>9, <2>10, <2>11
<1>. QED  BY <1>3, <1>4

\* A step of one span that updates its card.
LEMMA UpdateStep ==
  ASSUME ObserverInv, NEW s \in Spans, pc[s] \notin Opening,
         NEW fields, IsFields(fields), UpdateEvent(s, fields),
         NEW next \in Places \ Opening, pc' = [pc EXCEPT ![s] = next],
         written' \in [Spans -> SUBSET Parts],
         \A t \in Spans \ {s} : written'[t] = written[t],
         s \in DOMAIN events =>
           LET k == Merged(events[s], fields)
           IN  /\ written'[s] \subseteq k.detail
               /\ next \in {"answer", "done"} => k.ended /\ k.status # "running"
  PROVE  Grown
<1>1. pc \in [Spans -> Places] /\ copy \in [Spans -> Cards \cup {NoCopy}]
  BY DEF ObserverInv, Types
<1>2. /\ Grows /\ Listed' /\ IsEvents(events')
      /\ UNCHANGED <<closed, run, orchestration, eventOrder, nextOrder, main>>
      /\ s \in DOMAIN events' <=> s \in DOMAIN events
      /\ s \in DOMAIN events => events'[s] = Merged(events[s], fields)
      /\ \A t \in Spans \ {s} : SameCard(t)
      /\ copy' = [copy EXCEPT ![s] = NoCopy]
  BY UpdateGrows DEF ObserverInv
<1>3. pc'[s] = next /\ copy'[s] = NoCopy
  BY <1>1, <1>2
<1>4. pc' \in [Spans -> Places] /\ copy' \in [Spans -> Cards \cup {NoCopy}]
  BY <1>1, <1>2
<1>5. Types'
  BY <1>2, <1>4 DEF ObserverInv, Types, Grows
<1>6. OthersStand(s)
  BY <1>1, <1>2 DEF OthersStand
<1>7. SpanInv(s)'
  <2>1. pc'[s] \notin Opening
    BY <1>3
  <2>2. ASSUME s \in DOMAIN events'
        PROVE  /\ written'[s] \subseteq events'[s].detail
               /\ next \in {"answer", "done"} => events'[s].ended /\ events'[s].status # "running"
    BY <1>2, <2>2
  <2>. QED  BY <1>3, <2>1, <2>2 DEF SpanInv, Opening
<1>8. cursor # 0
  BY SpanIsLate DEF Opening
<1>. QED  BY <1>2, <1>3, <1>5, <1>6, <1>7, <1>8, SpanMoves

\* What the steps of a span start from.
LEMMA SpanFacts ==
  ASSUME ObserverInv, NEW s \in Spans
  PROVE  /\ pc \in [Spans -> Places] /\ written \in [Spans -> SUBSET Parts]
         /\ copy \in [Spans -> Cards \cup {NoCopy}]
         /\ copy[s] # NoCopy => copy[s] \in Cards /\ copy[s].detail \in SUBSET Parts
                                /\ copy[s].status \in Statuses
         /\ s \in DOMAIN events => events[s] \in Cards /\ events[s].status \in Statuses
         /\ SpanInv(s)
  BY DEF ObserverInv, Types, IsEvents, Evidence, Cards

\* A part is added to the detail (WritePart).
LEMMA WriteStep ==
  ASSUME ObserverInv, NEW s \in Spans, pc[s] \in Updating, NEW part \in Parts,
         NEW next \in Places \ Opening, next \in {"answer", "done"} => pc[s] = "answer",
         NEW fields, fields = NoFields \/ \E status \in Statuses : fields = Status(status),
         pc[s] = "answer" => fields = NoFields,
         WritePart(s, part, next, fields)
  PROVE  Grown
<1> DEFINE all == [f \in DOMAIN fields \cup {"detail"} |->
                     IF f = "detail" THEN copy[s].detail \cup {part} ELSE fields[f]]
<1>1. /\ copy[s] # NoCopy /\ UpdateEvent(s, all)
      /\ written' = [written EXCEPT ![s] = @ \cup {part}] /\ pc' = [pc EXCEPT ![s] = next]
  BY DEF WritePart, Goto
<1>2. /\ pc \in [Spans -> Places] /\ written \in [Spans -> SUBSET Parts]
      /\ copy[s].detail \in SUBSET Parts /\ SpanInv(s)
      /\ s \in DOMAIN events => events[s] \in Cards
  BY <1>1, SpanFacts
<1>3. /\ DOMAIN all \subseteq {"status", "detail"} /\ "detail" \in DOMAIN all
      /\ all["detail"] = copy[s].detail \cup {part}
      /\ "status" \in DOMAIN all => all["status"] \in Statuses
      /\ fields = NoFields => "status" \notin DOMAIN all
  <2>1. CASE fields = NoFields
    <3>1. DOMAIN fields = {}
      BY <2>1 DEF NoFields
    <3>. QED  BY <2>1, <3>1
  <2>2. CASE \E status \in Statuses : fields = Status(status)
    <3>1. PICK status \in Statuses : fields = Status(status)
      BY <2>2
    <3>2. DOMAIN fields = {"status"} /\ fields["status"] = status
      BY <3>1 DEF Status
    <3>3. DOMAIN NoFields = {}
      BY DEF NoFields
    <3>4. fields # NoFields
      BY <3>2, <3>3
    <3>. QED  BY <3>2, <3>4
  <2>. QED  BY <2>1, <2>2
<1>. HIDE DEF all
<1>4. IsFields(all)
  BY <1>2, <1>3 DEF IsFields
<1>5. written' \in [Spans -> SUBSET Parts] /\ written'[s] = written[s] \cup {part}
      /\ \A t \in Spans \ {s} : written'[t] = written[t]
  BY <1>1, <1>2
<1>6. pc[s] \notin Opening
  BY DEF Updating, Opening
<1>7. ASSUME s \in DOMAIN events
      PROVE  LET k == Merged(events[s], all)
             IN  /\ written'[s] \subseteq k.detail
                 /\ next \in {"answer", "done"} => k.ended /\ k.status # "running"
  <2> DEFINE k == Merged(events[s], all)
  <2>1. /\ k.detail = copy[s].detail \cup {part}
        /\ k.ended = events[s].ended
        /\ fields = NoFields => k.status = events[s].status
    BY <1>2, <1>3, <1>4, <1>7, MergedCard
  <2>. HIDE DEF k
  <2>2. written[s] \subseteq copy[s].detail
    BY <1>1, <1>2, <1>7 DEF SpanInv
  <2>3. pc[s] = "answer" => events[s].ended /\ events[s].status # "running"
    BY <1>2, <1>7 DEF SpanInv
  <2>4. /\ written'[s] \subseteq k.detail
        /\ next \in {"answer", "done"} => k.ended /\ k.status # "running"
    BY <1>5, <2>1, <2>2, <2>3
  <2>. QED  BY <2>4 DEF k
<1>. QED  BY <1>1, <1>4, <1>5, <1>6, <1>7, UpdateStep

\* A step of a span that leaves the card and the copies alone.
LEMMA BesideStep ==
  ASSUME ObserverInv, NEW s \in Spans, pc[s] \in Updating, pc[s] # "finish",
         UNCHANGED <<observer, copy, written>>, main' \in {main, "stopping"},
         NEW next \in Places \ Opening, Goto(s, next),
         next \in {"answer", "done"} => pc[s] = "answer"
  PROVE  Grown
<1>1. /\ closed' = closed /\ run' = run /\ orchestration' = orchestration
      /\ cards' = cards /\ nextOrder' = nextOrder /\ feed' = feed
      /\ events' = events /\ copy' = copy /\ written' = written
      /\ pc' = [pc EXCEPT ![s] = next]
  BY DEF observer, cards, Goto
<1>2. /\ pc \in [Spans -> Places] /\ copy \in [Spans -> Cards \cup {NoCopy}] /\ SpanInv(s)
  BY SpanFacts
<1>3. pc[s] \notin Opening /\ cursor # 0
  BY SpanIsLate DEF Updating, Opening
<1>4. pc'[s] = next
  BY <1>1, <1>2
<1>5. SpanInv(s)'
  BY <1>1, <1>2, <1>3, <1>4 DEF SpanInv, Opening
<1>6. nextOrder' \in Nat /\ copy' \in [Spans -> Cards \cup {NoCopy}]
  BY <1>1, <1>2 DEF ObserverInv, Types
<1>. QED  BY <1>1, <1>3, <1>5, <1>6, QuietStep

\* start_span, before the card is stored.
LEMMA OpenSpanStep ==
  ASSUME ObserverInv, NEW s \in Spans, OpenSpan(s)
  PROVE  Grown
<1>1. /\ closed' = closed /\ run' = run /\ orchestration' = orchestration
      /\ cards' = cards /\ nextOrder' = nextOrder /\ feed' = feed /\ main' = main
      /\ events' = events /\ copy' = copy /\ written' = written
      /\ pc' = [pc EXCEPT ![s] = "active"] /\ pc[s] = "idle"
  BY DEF OpenSpan, observer, cards, Goto
<1>2. cursor # 0
  BY DEF OpenSpan, Active, ObserverInv, Quiet
<1>3. /\ pc \in [Spans -> Places] /\ copy \in [Spans -> Cards \cup {NoCopy}] /\ SpanInv(s)
  BY SpanFacts
<1>4. SpanInv(s)'
  BY <1>1, <1>3 DEF SpanInv, Opening
<1>5. nextOrder' \in Nat /\ "active" \in Places /\ copy' \in [Spans -> Cards \cup {NoCopy}]
  BY <1>1, <1>3 DEF ObserverInv, Types, Places, Opening
<1>6. pc[s] \in Opening
  BY <1>1 DEF Opening
<1>. QED  BY <1>1, <1>2, <1>4, <1>5, <1>6, QuietStep

LEMMA AllocateOrderStep ==
  ASSUME ObserverInv, NEW s \in Spans, AllocateOrder(s)
  PROVE  Grown
<1> DEFINE k == NewCard(nextOrder + 1)
<1>1. /\ closed' = closed /\ run' = run /\ orchestration' = orchestration
      /\ cards' = cards /\ nextOrder' = nextOrder + 1 /\ feed' = feed /\ main' = main
      /\ events' = events /\ copy' = [copy EXCEPT ![s] = k] /\ written' = written
      /\ pc' = [pc EXCEPT ![s] = "ordered"] /\ pc[s] = "active"
  BY DEF AllocateOrder, cards, Goto
<1>2. nextOrder \in Nat
  BY DEF ObserverInv, Types
<1>3. k \in Cards
  BY <1>2 DEF NewCard, Cards, Statuses
<1>. HIDE DEF k
<1>4. /\ pc \in [Spans -> Places] /\ copy \in [Spans -> Cards \cup {NoCopy}] /\ SpanInv(s)
  BY SpanFacts
<1>5. copy'[s] = k /\ copy' \in [Spans -> Cards \cup {NoCopy}]
      /\ \A t \in Spans \ {s} : copy'[t] = copy[t]
  BY <1>1, <1>3, <1>4
<1>6. SpanInv(s)'
  BY <1>1, <1>3, <1>4, <1>5 DEF SpanInv, Opening
<1>7. nextOrder' \in Nat /\ "ordered" \in Places /\ cursor # 0
  BY <1>1, <1>2, SpanIsLate DEF Places, Opening
<1>8. pc[s] \in Opening
  BY <1>1 DEF Opening
<1>. QED  BY <1>1, <1>5, <1>6, <1>7, <1>8, QuietStep

\* _upsert
LEMMA UpsertStep ==
  ASSUME ObserverInv, NEW s \in Spans, Upsert(s)
  PROVE  Grown
<1> DEFINE k == copy[s]
<1>1. /\ closed' = closed /\ run' = run /\ orchestration' = orchestration
      /\ nextOrder' = nextOrder /\ main' = main /\ written' = written
      /\ copy' = [copy EXCEPT ![s] = NoCopy]
      /\ pc' = [pc EXCEPT ![s] = "input"] /\ pc[s] = "ordered"
      /\ events' = [t \in DOMAIN events \cup {s} |-> IF t = s THEN k ELSE events[t]]
      /\ Publish("card", [span |-> s, card |-> k])
      /\ eventOrder' = IF s \in DOMAIN events THEN eventOrder ELSE Append(eventOrder, s)
  BY DEF Upsert, Goto
<1>2. /\ pc \in [Spans -> Places] /\ copy \in [Spans -> Cards \cup {NoCopy}] /\ SpanInv(s)
  BY SpanFacts
<1>3. k \in Cards /\ s \notin DOMAIN events /\ written[s] = {} /\ pc[s] \in Opening
  BY <1>1, <1>2 DEF SpanInv, Opening
<1>. HIDE DEF k
<1>4. Types /\ Numbered /\ Listed
  BY DEF ObserverInv
<1>5. Grows
  BY <1>1, <1>3, <1>4, CardGrows
<1>6. events \in [DOMAIN events -> Cards] /\ DOMAIN events \subseteq Spans
  BY <1>4 DEF Types, IsEvents
<1>7. /\ DOMAIN events' = DOMAIN events \cup {s}
      /\ events' \in [DOMAIN events \cup {s} -> Cards]
      /\ events'[s] = k /\ \A t \in Spans \ {s} : SameCard(t)
  BY <1>1, <1>3, <1>6 DEF SameCard
<1>8. IsEvents(events')
  BY <1>6, <1>7 DEF IsEvents
<1>9. eventOrder \in Seq(Spans) /\ eventOrder' = Append(eventOrder, s)
  BY <1>1, <1>3, <1>4 DEF Types
<1>10. /\ Len(eventOrder) \in Nat /\ eventOrder' \in Seq(Spans)
       /\ Len(eventOrder') = Len(eventOrder) + 1
       /\ \A i \in 1..Len(eventOrder) : eventOrder'[i] = eventOrder[i]
       /\ eventOrder'[Len(eventOrder) + 1] = s
       /\ DOMAIN eventOrder' = DOMAIN eventOrder \cup {Len(eventOrder) + 1}
       /\ DOMAIN eventOrder = 1..Len(eventOrder)
  BY <1>9
<1>11. Listed'
  <2>1. \A i \in DOMAIN eventOrder : eventOrder'[i] = eventOrder[i] /\ eventOrder[i] # s
    BY <1>3, <1>4, <1>10 DEF Listed
  <2>2. \A i \in DOMAIN eventOrder' : eventOrder'[i] \in DOMAIN events'
    BY <1>4, <1>7, <1>10, <2>1 DEF Listed
  <2>3. \A t \in DOMAIN events' : \E i \in DOMAIN eventOrder' : eventOrder'[i] = t
    BY <1>4, <1>7, <1>10, <2>1 DEF Listed
  <2>4. \A i, j \in DOMAIN eventOrder' : eventOrder'[i] = eventOrder'[j] => i = j
    BY <1>4, <1>10, <2>1 DEF Listed
  <2>. QED  BY <2>2, <2>3, <2>4 DEF Listed
<1>12. pc'[s] = "input" /\ copy'[s] = NoCopy /\ written'[s] = {}
       /\ pc' \in [Spans -> Places] /\ copy' \in [Spans -> Cards \cup {NoCopy}]
  BY <1>1, <1>2, <1>3 DEF Places, Updating
<1>13. Types'
  BY <1>1, <1>4, <1>5, <1>8, <1>10, <1>12 DEF Types, Grows
<1>14. OthersStand(s)
  BY <1>1, <1>2, <1>7 DEF OthersStand
<1>15. SpanInv(s)'
  BY <1>12 DEF SpanInv, Opening
<1>16. cursor # 0
  BY <1>1, SpanIsLate
<1>. QED  BY <1>1, <1>3, <1>5, <1>11, <1>13, <1>14, <1>15, <1>16, SpanMoves

\* _event_copy
LEMMA CopyCardStep ==
  ASSUME ObserverInv, NEW s \in Spans, CopyCard(s)
  PROVE  Grown
<1> DEFINE k == IF s \in DOMAIN events THEN events[s] ELSE Blank
<1>1. /\ closed' = closed /\ run' = run /\ orchestration' = orchestration
      /\ cards' = cards /\ nextOrder' = nextOrder /\ feed' = feed /\ main' = main
      /\ events' = events /\ copy' = [copy EXCEPT ![s] = k] /\ written' = written
      /\ pc' = pc /\ pc[s] \in Updating
  BY DEF CopyCard, observer, cards
<1>2. /\ pc \in [Spans -> Places] /\ copy \in [Spans -> Cards \cup {NoCopy}] /\ SpanInv(s)
      /\ s \in DOMAIN events => events[s] \in Cards
  BY SpanFacts
<1>3. Blank \in Cards
  BY DEF Blank, NewCard, Cards, Statuses
<1>4. k \in Cards /\ (s \in DOMAIN events => k = events[s])
  BY <1>2, <1>3
<1>. HIDE DEF k
<1>5. copy'[s] = k /\ copy' \in [Spans -> Cards \cup {NoCopy}]
      /\ \A t \in Spans \ {s} : copy'[t] = copy[t]
  BY <1>1, <1>2, <1>4
<1>6. pc[s] \notin Opening /\ pc' = [pc EXCEPT ![s] = pc[s]] /\ pc[s] \in Places
  BY <1>1, <1>2 DEF Updating, Opening
<1>7. SpanInv(s)'
  BY <1>1, <1>2, <1>4, <1>5, <1>6 DEF SpanInv, Opening
<1>8. nextOrder' \in Nat /\ cursor # 0
  BY <1>1, <1>6, SpanIsLate DEF ObserverInv, Types, Opening
<1>. QED  BY <1>1, <1>5, <1>6, <1>7, <1>8, QuietStep

\* The steps of a span that has its card.
LEMMA WritingSteps ==
  ASSUME ObserverInv, NEW s \in Spans,
         \/ SetInput(s) \/ StartExchange(s) \/ FinishExchange(s) \/ SetOutput(s)
         \/ MarkInterrupted(s) \/ MarkError(s) \/ PromoteAnswer(s)
  PROVE  Grown
<1>. /\ {"request", "response", "output", "outcome", "error", "finish", "done"} \subseteq Places \ Opening
     /\ {"input", "request", "response", "output", "error", "stopped", "answer"} \subseteq Updating
     /\ {"input", "request", "response", "output", "error", "stopped", "answer"} \subseteq Parts
     /\ {"succeeded", "warning", "failed"} \subseteq Statuses
  BY DEF Places, Opening, Updating, Parts, Statuses
<1>1. CASE SetInput(s)
  BY <1>1, WriteStep DEF SetInput
<1>2. CASE StartExchange(s)
  <2>1. CASE WritePart(s, "request", "response", NoFields)
    BY <1>2, <2>1, WriteStep DEF StartExchange
  <2>2. CASE Goto(s, "output") /\ UNCHANGED <<observer, main, copy, written>>
    <3>1. pc[s] = "request" /\ UNCHANGED <<observer, copy, written>> /\ main' = main
      BY <1>2, <2>2 DEF StartExchange
    <3>. QED  BY <2>2, <3>1, BesideStep
  <2>. QED  BY <1>2, <2>1, <2>2 DEF StartExchange
<1>3. CASE FinishExchange(s)
  BY <1>3, WriteStep DEF FinishExchange
<1>4. CASE SetOutput(s)
  <2>1. pc[s] = "output"
    BY <1>4 DEF SetOutput
  <2>2. CASE s \in Turns
    BY <1>4, <2>1, <2>2, WriteStep DEF SetOutput
  <2>3. CASE s \notin Turns
    <3>1. PICK status \in {"succeeded", "warning", "failed"} :
            WritePart(s, "output", IF status = "failed" THEN "error" ELSE "outcome", Status(status))
      BY <1>4, <2>3 DEF SetOutput
    <3>2. CASE status = "failed"
      BY <2>1, <3>1, <3>2, WriteStep
    <3>3. CASE status # "failed"
      BY <2>1, <3>1, <3>3, WriteStep
    <3>. QED  BY <3>2, <3>3
  <2>. QED  BY <2>2, <2>3
<1>5. CASE MarkInterrupted(s)
  BY <1>5, WriteStep DEF MarkInterrupted
<1>6. CASE MarkError(s)
  <2>1. pc[s] = "error"
    BY <1>6 DEF MarkError
  <2>2. CASE s \in Turns
    BY <1>6, <2>1, <2>2, WriteStep DEF MarkError
  <2>3. CASE s \notin Turns
    BY <1>6, <2>1, <2>3, WriteStep DEF MarkError
  <2>. QED  BY <2>2, <2>3
<1>7. CASE PromoteAnswer(s)
  BY <1>7, WriteStep DEF PromoteAnswer
<1>. QED  BY <1>1, <1>2, <1>3, <1>4, <1>5, <1>6, <1>7

\* The steps of a span between its updates.
LEMMA TurningSteps ==
  ASSUME ObserverInv, NEW s \in Spans, Raise(s) \/ Stop(s) \/ KeepCommentary(s)
  PROVE  Grown
<1>. /\ {"error", "stopped", "done"} \subseteq Places \ Opening
     /\ {"output", "answer"} \subseteq Updating
  BY DEF Places, Opening, Updating
<1>1. CASE Raise(s)
  <2>1. /\ pc[s] = "output" /\ Goto(s, "error") /\ main' = main
        /\ UNCHANGED <<observer, copy, written>>
    BY <1>1 DEF Raise
  <2>. QED  BY <2>1, BesideStep
<1>2. CASE Stop(s)
  <2>1. /\ pc[s] = "output" /\ Goto(s, "stopped") /\ main' = "stopping"
        /\ UNCHANGED <<observer, copy, written>>
    BY <1>2 DEF Stop
  <2>. QED  BY <2>1, BesideStep
<1>3. CASE KeepCommentary(s)
  <2>1. /\ pc[s] = "answer" /\ Goto(s, "done") /\ main' = main
        /\ UNCHANGED <<observer, copy, written>>
    BY <1>3 DEF KeepCommentary
  <2>. QED  BY <2>1, BesideStep
<1>. QED  BY <1>1, <1>2, <1>3

\* mark_ok
LEMMA MarkOkStep ==
  ASSUME ObserverInv, NEW s \in Spans, MarkOk(s)
  PROVE  Grown
<1>1. /\ pc[s] = "outcome" /\ copy[s] # NoCopy
      /\ pc' = [pc EXCEPT ![s] = "finish"] /\ written' = written
  BY DEF MarkOk, Goto
<1>2. /\ pc \in [Spans -> Places] /\ copy \in [Spans -> Cards \cup {NoCopy}] /\ SpanInv(s)
      /\ written \in [Spans -> SUBSET Parts]
      /\ s \in DOMAIN events => events[s] \in Cards
  BY SpanFacts
<1>3. "finish" \in Places \ Opening /\ pc[s] \notin Opening
  BY <1>1 DEF Places, Opening, Updating
<1>4. CASE copy[s].status = "running"
  <2> DEFINE fields == Status("succeeded")
  <2>1. UpdateEvent(s, fields)
    BY <1>4 DEF MarkOk
  <2>2. DOMAIN fields = {"status"} /\ fields["status"] = "succeeded"
    BY DEF Status
  <2>. HIDE DEF fields
  <2>3. IsFields(fields)
    BY <2>2 DEF IsFields, Statuses
  <2>4. ASSUME s \in DOMAIN events
        PROVE  written'[s] \subseteq Merged(events[s], fields).detail
    <3>1. Merged(events[s], fields).detail = events[s].detail
      BY <1>2, <2>2, <2>3, <2>4, MergedCard
    <3>. QED  BY <1>1, <1>2, <2>4, <3>1 DEF SpanInv
  <2>. QED  BY <1>1, <1>2, <1>3, <2>1, <2>3, <2>4, UpdateStep
<1>5. CASE copy[s].status # "running"
  <2>1. /\ copy' = [copy EXCEPT ![s] = NoCopy] /\ main' = main
        /\ closed' = closed /\ run' = run /\ orchestration' = orchestration
        /\ cards' = cards /\ events' = events /\ nextOrder' = nextOrder /\ feed' = feed
    BY <1>5 DEF MarkOk, observer, cards
  <2>2. copy'[s] = NoCopy /\ copy' \in [Spans -> Cards \cup {NoCopy}] /\ pc'[s] = "finish"
        /\ \A t \in Spans \ {s} : copy'[t] = copy[t]
    BY <1>1, <1>2, <2>1
  <2>3. SpanInv(s)'
    BY <1>1, <1>2, <1>3, <2>1, <2>2 DEF SpanInv, Opening
  <2>4. nextOrder' \in Nat /\ cursor # 0
    BY <1>1, <2>1, SpanIsLate DEF ObserverInv, Types
  <2>. QED  BY <1>1, <1>3, <2>1, <2>2, <2>3, <2>4, QuietStep
<1>. QED  BY <1>4, <1>5

\* LiveSpan.finish
LEMMA FinishStep ==
  ASSUME ObserverInv, NEW s \in Spans, Finish(s)
  PROVE  Grown
<1> DEFINE status == IF copy[s].status = "running" THEN "succeeded" ELSE copy[s].status
           fields == [status |-> status, ended |-> TRUE]
           next == IF s \in Turns THEN "answer" ELSE "done"
<1>1. /\ pc[s] = "finish" /\ copy[s] # NoCopy /\ UpdateEvent(s, fields)
      /\ pc' = [pc EXCEPT ![s] = next] /\ written' = written
  BY DEF Finish, Goto
<1>2. /\ SpanInv(s) /\ copy[s].status \in Statuses
      /\ written \in [Spans -> SUBSET Parts]
      /\ s \in DOMAIN events => events[s] \in Cards
  BY <1>1, SpanFacts
<1>3. status \in Statuses /\ status # "running"
  BY <1>2 DEF Statuses
<1>4. next \in Places \ Opening /\ pc[s] \notin Opening
  BY <1>1 DEF Places, Opening, Updating
<1>5. DOMAIN fields = {"status", "ended"} /\ fields["status"] = status /\ fields["ended"] = TRUE
  OBVIOUS
<1>. HIDE DEF status, fields, next
<1>6. IsFields(fields)
  BY <1>3, <1>5 DEF IsFields
<1>7. ASSUME s \in DOMAIN events
      PROVE  LET k == Merged(events[s], fields)
             IN  /\ written'[s] \subseteq k.detail
                 /\ next \in {"answer", "done"} => k.ended /\ k.status # "running"
  <2> DEFINE k == Merged(events[s], fields)
  <2>1. k.detail = events[s].detail /\ k.ended = TRUE /\ k.status = status
    BY <1>2, <1>5, <1>6, <1>7, MergedCard
  <2>. HIDE DEF k
  <2>2. written'[s] \subseteq k.detail
    BY <1>1, <1>2, <1>7, <2>1 DEF SpanInv
  <2>3. k.ended /\ k.status # "running"
    BY <1>3, <2>1
  <2>. QED  BY <2>2, <2>3 DEF k
<1>. QED  BY <1>1, <1>2, <1>4, <1>6, <1>7, UpdateStep

\* Every step of a span.
LEMMA SpanSteps ==
  ASSUME ObserverInv, NEW s \in Spans, OpenSpan(s) \/ Stop(s) \/ SpanStep(s)
  PROVE  Grown
  BY OpenSpanStep, AllocateOrderStep, UpsertStep, CopyCardStep, WritingSteps, TurningSteps,
     MarkOkStep, FinishStep DEF SpanStep

-----------------------------------------------------------------------------
(* The run and the App that closes.                                        *)

Begins ==
  /\ ~closed /\ closed' = closed /\ cursor = 0 /\ cursor' = 1
  /\ run' = "running" /\ orchestration' = 0 /\ events' = NoEvents
  /\ changes' = <<Change(1, "reset", "running")>>
  /\ pc' = pc

Closes ==
  /\ closed' = TRUE /\ events' = NoEvents /\ changes' = <<>> /\ cursor' = cursor
  /\ pc' = pc

\* No card at all.
LEMMA NoCards ==
  /\ IsEvents(NoEvents) /\ DOMAIN NoEvents = {}
  /\ \A e : IsEvents(e) /\ DOMAIN e = {} => e = NoEvents
  BY DEF IsEvents, NoEvents

\* A step of the main thread that leaves the cards alone.
LEMMA RunMoves ==
  ASSUME ObserverInv, Grows, cursor' # 0, main' # "before",
         run' \in Runs, orchestration' \in 0..MaxRevision,
         UNCHANGED <<cards, nextOrder, threads>>
  PROVE  Grown
<1>1. /\ events' = events /\ eventOrder' = eventOrder /\ nextOrder' = nextOrder
      /\ pc' = pc /\ copy' = copy /\ written' = written
  BY DEF cards, threads
<1>2. Types'
  BY <1>1 DEF ObserverInv, Types, Grows, IsEvents
<1>3. Listed' /\ Evidence'
  BY <1>1 DEF ObserverInv, Listed, Evidence, SpanInv
<1>4. Numbered'
  BY GrowsNumbered DEF ObserverInv
<1>5. Quiet'
  BY DEF Quiet
<1>. QED  BY <1>1, <1>2, <1>3, <1>4, <1>5 DEF Grown, ObserverInv, Onward

\* begin_run
LEMMA BeginRunStep ==
  ASSUME ObserverInv, BeginRun
  PROVE  Grown \/ (ObserverInv' /\ Begins)
<1>1. main = "before" /\ main' = "running" /\ pc' = pc /\ copy' = copy /\ written' = written
  BY DEF BeginRun, threads
<1>2. cursor = 0 /\ run = "none" /\ orchestration = 0 /\ events = NoEvents
      /\ \A s \in Spans : pc[s] = "idle"
  BY <1>1 DEF ObserverInv, Quiet
<1>3. CASE closed
  <2>1. /\ closed' = closed /\ run' = run /\ orchestration' = orchestration
        /\ events' = events /\ eventOrder' = eventOrder /\ nextOrder' = nextOrder
        /\ changes' = changes /\ cursor' = cursor
    BY <1>3 DEF BeginRun, observer, cards, feed
  <2>2. Grows
    BY <2>1, NothingGrows DEF ObserverInv
  <2>3. Types' /\ Listed' /\ Evidence'
    BY <1>1, <2>1 DEF ObserverInv, Types, IsEvents, Listed, Evidence, SpanInv
  <2>4. Numbered' /\ Quiet'
    BY <1>1, <1>2, <2>1, <2>2, GrowsNumbered DEF ObserverInv, Quiet
  <2>. QED  BY <1>1, <2>2, <2>3, <2>4 DEF Grown, ObserverInv, Onward
<1>4. CASE ~closed
  <2>1. /\ closed' = closed /\ run' = "running" /\ orchestration' = 0
        /\ events' = NoEvents /\ eventOrder' = <<>> /\ nextOrder' = 0
        /\ changes' = <<Change(1, "reset", "running")>> /\ cursor' = 1
    BY <1>2, <1>4 DEF BeginRun
  <2>2. "running" \in Runs /\ MaxRevision \in Nat
    BY ObserverAssumption DEF Runs
  <2>3. Change(1, "reset", "running") \in Changes
    BY <2>2, ChangeKinds
  <2>4. Types'
    BY <1>1, <2>1, <2>2, NoCards DEF ObserverInv, Types
  <2>5. Listed'
    BY <2>1, NoCards DEF Listed
  <2>6. Numbered'
    <3>1. changes' \in Seq(Changes) /\ Len(changes') = 1 /\ DOMAIN changes' = {1}
          /\ changes'[1].cursor = 1
      BY <2>1, <2>3 DEF Change
    <3>. QED  BY <2>1, <3>1 DEF Numbered
  <2>7. Quiet'
    BY <1>1, <2>1 DEF Quiet
  <2>8. Evidence'
    BY <1>1, <1>2, <2>1, NoCards DEF ObserverInv, Evidence, SpanInv, Opening
  <2>. QED  BY <1>1, <1>2, <1>4, <2>1, <2>4, <2>5, <2>6, <2>7, <2>8 DEF Begins, ObserverInv
<1>. QED  BY <1>3, <1>4

\* record_orchestration
LEMMA RecordOrchestrationStep ==
  ASSUME ObserverInv, NEW r \in 1..MaxRevision, RecordOrchestration(r)
  PROVE  Grown
<1>1. /\ closed' = closed /\ run' = run /\ orchestration' = r /\ main' = main
      /\ main = "running" /\ r > orchestration /\ Publish("orchestration", r)
      /\ UNCHANGED <<cards, nextOrder, threads>>
  BY DEF RecordOrchestration
<1>2. /\ Types /\ Numbered /\ cursor \in Nat /\ Len(changes) \in Nat
      /\ orchestration \in 0..MaxRevision /\ MaxRevision \in Nat /\ run \in Runs
  BY ObserverAssumption DEF ObserverInv, Types, Numbered
<1>3. Change(cursor + 1, "orchestration", r) \in Changes
  BY <1>2, ChangeKinds
<1>4. /\ changes' \in Seq(Changes) /\ cursor' = cursor + 1
      /\ Len(changes') = Len(changes) + 1
      /\ Fresh = {Len(changes) + 1}
      /\ \A i \in DOMAIN changes : changes'[i] = changes[i]
      /\ \A i \in Fresh : /\ changes'[i].cursor = cursor + (i - Len(changes))
                          /\ changes'[i].type = "orchestration" /\ changes'[i].data = r
  BY <1>1, <1>2, <1>3, PublishOne
<1>5. \A i \in Fresh : Announces(i)
  BY <1>1, <1>2, <1>4 DEF Announces
<1>6. \A s \in Spans : SameCard(s)
  BY <1>1 DEF SameCard, cards
<1>7. Grows
  BY <1>1, <1>2, <1>4, <1>5, <1>6 DEF Grows
<1>. QED  BY <1>1, <1>2, <1>4, <1>7, RunMoves

\* end_run
LEMMA EndRunStep ==
  ASSUME ObserverInv, NEW status \in {"completed", "errored"}, EndRun(status)
  PROVE  Grown
<1>1. /\ main = "running" /\ main' = "ended" /\ closed' = closed /\ orchestration' = orchestration
      /\ UNCHANGED <<cards, nextOrder, threads>>
  BY DEF EndRun
<1>2. /\ Types /\ Numbered /\ cursor \in Nat /\ Len(changes) \in Nat
      /\ orchestration \in 0..MaxRevision /\ run \in Runs /\ status \in Runs
  BY DEF ObserverInv, Types, Numbered, Runs
<1>3. \A s \in Spans : SameCard(s)
  BY <1>1 DEF SameCard, cards
<1>4. CASE closed \/ run # "running"
  <2>1. run' = run /\ changes' = changes /\ cursor' = cursor /\ events' = events
        /\ eventOrder' = eventOrder /\ nextOrder' = nextOrder
        /\ pc' = pc /\ copy' = copy /\ written' = written
    BY <1>1, <1>4 DEF EndRun, feed, cards, threads
  <2>2. Grows
    BY <1>1, <1>2, <2>1, NothingGrows
  <2>3. Types' /\ Listed' /\ Evidence'
    BY <1>1, <2>1, <2>2 DEF ObserverInv, Types, IsEvents, Listed, Evidence, SpanInv, Grows
  <2>4. Numbered' /\ Quiet'
    BY <1>1, <2>1, <2>2, GrowsNumbered DEF ObserverInv, Quiet
  <2>. QED  BY <2>1, <2>2, <2>3, <2>4 DEF Grown, ObserverInv, Onward
<1>5. CASE ~closed /\ run = "running"
  <2>1. run' = status /\ Publish("run", status)
    BY <1>5 DEF EndRun
  <2>2. Change(cursor + 1, "run", status) \in Changes
    BY <1>2, ChangeKinds
  <2>3. /\ changes' \in Seq(Changes) /\ cursor' = cursor + 1
        /\ Len(changes') = Len(changes) + 1
        /\ Fresh = {Len(changes) + 1}
        /\ \A i \in DOMAIN changes : changes'[i] = changes[i]
        /\ \A i \in Fresh : /\ changes'[i].cursor = cursor + (i - Len(changes))
                            /\ changes'[i].type = "run" /\ changes'[i].data = status
    BY <1>2, <2>1, <2>2, PublishOne
  <2>4. \A i \in Fresh : Announces(i)
    BY <2>1, <2>3 DEF Announces
  <2>5. Grows
    BY <1>1, <1>2, <1>3, <2>1, <2>3, <2>4 DEF Grows
  <2>. QED  BY <1>1, <1>2, <2>1, <2>3, <2>5, RunMoves
<1>. QED  BY <1>4, <1>5

\* close
LEMMA CloseStep ==
  ASSUME ObserverInv, Close
  PROVE  ObserverInv' /\ Closes
<1>1. /\ closed' = TRUE /\ run' = "none" /\ orchestration' = 0
      /\ events' = NoEvents /\ eventOrder' = <<>> /\ changes' = <<>>
      /\ nextOrder' = nextOrder /\ cursor' = cursor /\ main' = main
      /\ pc' = pc /\ copy' = copy /\ written' = written
  BY DEF Close, threads
<1>2. "none" \in Runs /\ MaxRevision \in Nat
  BY ObserverAssumption DEF Runs
<1>3. Types'
  BY <1>1, <1>2, NoCards DEF ObserverInv, Types
<1>4. Listed' /\ Quiet'
  BY <1>1, NoCards DEF ObserverInv, Listed, Quiet
<1>5. Numbered'
  BY <1>1 DEF ObserverInv, Types, Numbered
<1>6. Evidence'
  BY <1>1, NoCards DEF ObserverInv, Evidence, SpanInv
<1>. QED  BY <1>1, <1>3, <1>4, <1>5, <1>6 DEF ObserverInv, Closes

\* A card that is stopped.
LEMMA StoppedIsCard ==
  ASSUME NEW card \in Cards
  PROVE  /\ StoppedCard(card) \in Cards
         /\ StoppedCard(card).revision = card.revision + 1 /\ card.revision \in Nat
         /\ StoppedCard(card).status = "warning" /\ StoppedCard(card).ended = TRUE
         /\ card.detail \subseteq StoppedCard(card).detail
<1> DEFINE m == StoppedCard(card)
<1>1. /\ card.order \in Nat /\ card.revision \in Nat /\ card.status \in Statuses
      /\ card.detail \in SUBSET Parts /\ card.ended \in BOOLEAN
      /\ card = [order |-> card.order, revision |-> card.revision, status |-> card.status,
                 detail |-> card.detail, ended |-> card.ended]
  BY DEF Cards
<1>5. DOMAIN card = {"order", "revision", "status", "detail", "ended"}
  BY <1>1
<1>6. /\ m["order"] = card["order"] /\ m["revision"] = card["revision"] + 1
      /\ m["status"] = "warning" /\ m["ended"] = TRUE
      /\ m["detail"] = card["detail"] \cup {"stopped"}
      /\ DOMAIN m = {"order", "revision", "status", "detail", "ended"}
      /\ m = [x \in {"order", "revision", "status", "detail", "ended"} |-> m[x]]
  BY <1>5 DEF StoppedCard
<1>. HIDE DEF m
<1>2. m = [order |-> card.order, revision |-> card.revision + 1, status |-> "warning",
           detail |-> card.detail \cup {"stopped"}, ended |-> TRUE]
  BY <1>6
<1>3. m \in Cards
  BY <1>1, <1>2 DEF Cards, Statuses, Parts
<1>4. m.revision = card.revision + 1 /\ m.status = "warning" /\ m.ended = TRUE
      /\ m.detail = card.detail \cup {"stopped"}
  BY <1>2
<1>. QED  BY <1>1, <1>3, <1>4 DEF m

\* Three parts of a feed, one after the other.
LEMMA ThreeParts ==
  ASSUME NEW S, NEW a \in Seq(S), NEW b \in Seq(S), NEW c \in S
  PROVE  LET w == a \o b \o <<c>>
         IN  /\ w \in Seq(S) /\ Len(w) = Len(a) + Len(b) + 1
             /\ \A i \in DOMAIN a : w[i] = a[i]
             /\ \A i \in 1..Len(b) : w[Len(a) + i] = b[i]
             /\ w[Len(a) + Len(b) + 1] = c
<1> DEFINE u == a \o b
           v == <<c>>
           w == u \o v
<1>1. /\ u \in Seq(S) /\ Len(u) = Len(a) + Len(b)
      /\ \A i \in 1 .. Len(a) + Len(b) : u[i] = IF i <= Len(a) THEN a[i] ELSE b[i - Len(a)]
  BY ConcatProperties
<1>2. v \in Seq(S) /\ Len(v) = 1 /\ v[1] = c
  OBVIOUS
<1>. HIDE DEF u, v
<1>3. u \in Seq(S)
  BY <1>1
<1>4. /\ w \in Seq(S) /\ Len(w) = Len(u) + Len(v)
      /\ \A i \in 1 .. Len(u) + Len(v) : w[i] = IF i <= Len(u) THEN u[i] ELSE v[i - Len(u)]
  BY <1>2, <1>3, ConcatProperties
<1>5. Len(a) \in Nat /\ Len(b) \in Nat /\ DOMAIN a = 1..Len(a)
  OBVIOUS
<1>. HIDE DEF w
<1>6. ASSUME NEW i \in DOMAIN a
      PROVE  w[i] = a[i]
  BY <1>1, <1>2, <1>4, <1>5
<1>7. ASSUME NEW i \in 1..Len(b)
      PROVE  w[Len(a) + i] = b[i]
  <2>1. w[Len(a) + i] = u[Len(a) + i]
    BY <1>1, <1>2, <1>4, <1>5
  <2>2. u[Len(a) + i] = b[Len(a) + i - Len(a)]
    BY <1>1, <1>5
  <2>3. Len(a) + i - Len(a) = i
    BY <1>5
  <2>. QED  BY <2>1, <2>2, <2>3
<1>8. w[Len(a) + Len(b) + 1] = c
  <2>1. w[Len(u) + 1] = v[Len(u) + 1 - Len(u)]
    BY <1>1, <1>2, <1>4, <1>5
  <2>2. Len(u) + 1 - Len(u) = 1 /\ Len(u) = Len(a) + Len(b)
    BY <1>1, <1>5
  <2>. QED  BY <1>2, <2>1, <2>2
<1>9. w \in Seq(S) /\ Len(w) = Len(a) + Len(b) + 1
  BY <1>1, <1>2, <1>4
<1>. QED  BY <1>6, <1>7, <1>8, <1>9 DEF w, u, v

\* interrupt_run
LEMMA InterruptStep ==
  ASSUME ObserverInv, Interrupt
  PROVE  Grown
<1> DEFINE IsRunning(s) == events[s].status = "running"
           places == {i \in DOMAIN eventOrder : IsRunning(eventOrder[i])}
           n == Cardinality(places)
<1>1. /\ main' = "ended" /\ main \in {"running", "stopping"} /\ closed' = closed
      /\ orchestration' = orchestration
      /\ eventOrder' = eventOrder /\ nextOrder' = nextOrder
      /\ pc' = pc /\ copy' = copy /\ written' = written
  BY DEF Interrupt, threads
<1>2. /\ Types /\ Numbered /\ Listed /\ cursor \in Nat /\ Len(changes) \in Nat
      /\ run \in Runs /\ eventOrder \in Seq(Spans) /\ changes \in Seq(Changes)
      /\ events \in [DOMAIN events -> Cards] /\ DOMAIN events \subseteq Spans
      /\ DOMAIN changes = 1..Len(changes)
  BY DEF ObserverInv, Types, Numbered, IsEvents
<1>3. CASE closed \/ run # "running"
  <2>1. run' = run /\ changes' = changes /\ cursor' = cursor /\ events' = events
    BY <1>3 DEF Interrupt, feed
  <2>2. Grows
    BY <1>1, <1>2, <2>1, NothingGrows
  <2>3. Types' /\ Listed' /\ Evidence'
    BY <1>1, <2>1, <2>2 DEF ObserverInv, Types, IsEvents, Listed, Evidence, SpanInv, Grows
  <2>4. Numbered' /\ Quiet'
    BY <1>1, <2>1, <2>2, GrowsNumbered DEF ObserverInv, Quiet
  <2>. QED  BY <1>1, <2>2, <2>3, <2>4 DEF Grown, ObserverInv, Onward
<1>4. CASE ~closed /\ run = "running"
  <2> DEFINE Told(at, i) ==
               Change(cursor + i, "card",
                      [span |-> eventOrder[at[i]], card |-> StoppedCard(events[eventOrder[at[i]]])])
             told(at) == [i \in 1..n |-> Told(at, i)]
             last == Change(cursor', "run", "stopped")
  <2>1. PICK at \in [1..n -> places] :
          /\ \A p \in places : \E i \in 1..n : at[i] = p
          /\ \A i, j \in 1..n : i < j => at[i] < at[j]
          /\ run' = "stopped"
          /\ events' = [s \in DOMAIN events |->
                          IF IsRunning(s) THEN StoppedCard(events[s]) ELSE events[s]]
          /\ cursor' = cursor + n + 1
          /\ changes' = changes \o told(at) \o <<last>>
    BY <1>4 DEF Interrupt
  <2>2. n \in Nat
    <3>1. IsFiniteSet(1..Len(eventOrder)) /\ places \subseteq 1..Len(eventOrder)
      BY <1>2, FS_Interval
    <3>2. IsFiniteSet(places)
      BY <3>1, FS_Subset
    <3>. QED  BY <3>2, FS_CardinalityType
  <2> HIDE DEF n
  <2>3. /\ DOMAIN events' = DOMAIN events /\ events' \in [DOMAIN events -> Cards]
        /\ \A s \in DOMAIN events :
             events'[s] = IF IsRunning(s) THEN StoppedCard(events[s]) ELSE events[s]
    BY <1>2, <2>1, StoppedIsCard
  <2>4. \A i \in 1..n : /\ at[i] \in DOMAIN eventOrder
                        /\ eventOrder[at[i]] \in DOMAIN events
                        /\ IsRunning(eventOrder[at[i]])
    BY <1>2, <2>1 DEF Listed
  <2>5. \A i, j \in 1..n : eventOrder[at[i]] = eventOrder[at[j]] => i = j
    <3>. SUFFICES ASSUME NEW i \in 1..n, NEW j \in 1..n, eventOrder[at[i]] = eventOrder[at[j]], i # j
                  PROVE  FALSE
      OBVIOUS
    <3>1. at[i] = at[j]
      BY <1>2, <2>4 DEF Listed
    <3>2. at[i] \in Nat
      BY <1>2, <2>4
    <3>3. i < j \/ j < i
      BY <2>2
    <3>4. at[i] < at[j] \/ at[j] < at[i]
      BY <2>1, <3>3
    <3>. QED  BY <3>1, <3>2, <3>4
  <2>6. \A i \in 1..n : /\ Told(at, i) \in Changes /\ Told(at, i).cursor = cursor + i
                        /\ Told(at, i).type = "card"
                        /\ Told(at, i).data.span = eventOrder[at[i]]
                        /\ Told(at, i).data.card = events'[eventOrder[at[i]]]
    <3>. SUFFICES ASSUME NEW i \in 1..n
                  PROVE  /\ Told(at, i) \in Changes /\ Told(at, i).cursor = cursor + i
                         /\ Told(at, i).type = "card"
                         /\ Told(at, i).data.span = eventOrder[at[i]]
                         /\ Told(at, i).data.card = events'[eventOrder[at[i]]]
      OBVIOUS
    <3> DEFINE s == eventOrder[at[i]]
               k == StoppedCard(events[s])
    <3>1. s \in Spans /\ k \in Cards /\ k = events'[s]
      BY <1>2, <2>3, <2>4, StoppedIsCard
    <3>2. cursor + i \in Nat
      BY <1>2, <2>2
    <3>. HIDE DEF s, k
    <3>3. /\ Change(cursor + i, "card", [span |-> s, card |-> k]) \in Changes
          /\ Change(cursor + i, "card", [span |-> s, card |-> k]).cursor = cursor + i
          /\ Change(cursor + i, "card", [span |-> s, card |-> k]).type = "card"
          /\ Change(cursor + i, "card", [span |-> s, card |-> k]).data.span = s
          /\ Change(cursor + i, "card", [span |-> s, card |-> k]).data.card = k
      BY <3>1, <3>2 DEF Change, Changes
    <3>. QED  BY <3>1, <3>3 DEF s, k
  <2>7. told(at) \in Seq(Changes) /\ Len(told(at)) = n
        /\ \A i \in 1..n : told(at)[i] = Told(at, i)
    <3>. HIDE DEF Told
    <3>. QED  BY <2>2, <2>6
  <2>8. last \in Changes /\ last.cursor = cursor + n + 1 /\ last.type = "run" /\ last.data = "stopped"
    <3>1. "stopped" \in Runs /\ cursor' \in Nat
      BY <1>2, <2>1, <2>2 DEF Runs
    <3>. QED  BY <2>1, <3>1 DEF Change, Changes
  <2> HIDE DEF Told, told, last
  <2>9. /\ changes' \in Seq(Changes) /\ Len(changes') = Len(changes) + n + 1
        /\ \A i \in DOMAIN changes : changes'[i] = changes[i]
        /\ \A i \in 1..n : changes'[Len(changes) + i] = Told(at, i)
        /\ changes'[Len(changes) + n + 1] = last
    <3> DEFINE t == told(at)
    <3>1. t \in Seq(Changes) /\ Len(t) = n /\ \A i \in 1..n : t[i] = Told(at, i)
      BY <2>7
    <3>2. changes' = changes \o t \o <<last>>
      BY <2>1
    <3>. HIDE DEF t
    <3> DEFINE w == changes \o t \o <<last>>
    <3>3. /\ w \in Seq(Changes) /\ Len(w) = Len(changes) + Len(t) + 1
          /\ \A i \in DOMAIN changes : w[i] = changes[i]
          /\ \A i \in 1..Len(t) : w[Len(changes) + i] = t[i]
          /\ w[Len(changes) + Len(t) + 1] = last
      <4>1. changes \in Seq(Changes) /\ t \in Seq(Changes) /\ last \in Changes
        BY <1>2, <2>8, <3>1
      <4>. QED  BY <4>1, ThreeParts
    <3>. HIDE DEF w
    <3>4. changes' = w
      BY <3>2 DEF w
    <3>. QED  BY <3>1, <3>3, <3>4
  <2>10. /\ Fresh = {Len(changes) + i : i \in 1..n} \cup {Len(changes) + n + 1}
         /\ \A i \in Fresh : i = Len(changes) + n + 1 \/ \E j \in 1..n : i = Len(changes) + j
    <3>1. Fresh = Len(changes) + 1 .. Len(changes) + n + 1
      BY <1>2, <2>2, <2>9 DEF Fresh
    <3>2. ASSUME NEW i \in Fresh, i # Len(changes) + n + 1
          PROVE  i - Len(changes) \in 1..n /\ i = Len(changes) + (i - Len(changes))
      BY <1>2, <2>2, <3>1, <3>2
    <3>3. \A i \in Fresh : i = Len(changes) + n + 1 \/ \E j \in 1..n : i = Len(changes) + j
      BY <3>2
    <3>4. \A j \in 1..n : Len(changes) + j \in Fresh
      BY <1>2, <2>2, <3>1
    <3>5. Len(changes) + n + 1 \in Fresh
      BY <1>2, <2>2, <3>1
    <3>. QED  BY <3>3, <3>4, <3>5
  <2>11. ASSUME NEW i \in Fresh
         PROVE  changes'[i].cursor = cursor + (i - Len(changes)) /\ Announces(i)
    <3>1. CASE i = Len(changes) + n + 1
      <4>1. changes'[i] = last /\ i - Len(changes) = n + 1
        BY <1>2, <2>2, <2>9, <3>1
      <4>2. /\ changes'[i].type = "run" /\ changes'[i].data = run'
            /\ changes'[i].cursor = cursor + (n + 1)
        <5>1. last.cursor = cursor + (n + 1) /\ run' = "stopped"
          BY <1>2, <2>1, <2>2, <2>8
        <5>. QED  BY <2>8, <4>1, <5>1
      <4>. QED  BY <4>1, <4>2 DEF Announces
    <3>2. ASSUME NEW j \in 1..n, i = Len(changes) + j
          PROVE  changes'[i].cursor = cursor + (i - Len(changes)) /\ Announces(i)
      <4> DEFINE s == eventOrder[at[j]]
      <4>1. /\ changes'[i].type = "card" /\ changes'[i].cursor = cursor + j
            /\ changes'[i].data.span = s /\ changes'[i].data.card = events'[s]
        BY <2>6, <2>9, <3>2
      <4>2. s \in DOMAIN events /\ IsRunning(s)
        BY <2>4
      <4>. HIDE DEF s
      <4>3. events[s].revision < events'[s].revision
        <5>1. events[s] \in Cards /\ events'[s] = StoppedCard(events[s])
          BY <1>2, <2>3, <4>2
        <5>2. events'[s].revision = events[s].revision + 1 /\ events[s].revision \in Nat
          BY <5>1, StoppedIsCard
        <5>. QED  BY <5>2
      <4>4. ASSUME NEW h \in Fresh, IsCardOf(changes'[h], s)
            PROVE  i = h
        <5>1. h # Len(changes) + n + 1
          BY <2>8, <2>9, <4>4 DEF IsCardOf
        <5>2. PICK g \in 1..n : h = Len(changes) + g
          BY <2>10, <5>1
        <5>3. changes'[h].data.span = eventOrder[at[g]]
          BY <2>6, <2>9, <5>2
        <5>. QED  BY <2>5, <3>2, <4>4, <5>2, <5>3 DEF IsCardOf, s
      <4>5. j = i - Len(changes)
        BY <1>2, <2>2, <3>2
      <4>. QED  BY <2>3, <4>1, <4>2, <4>3, <4>4, <4>5 DEF Announces
    <3>. QED  BY <2>10, <3>1, <3>2
  <2>12. ASSUME NEW s \in Spans, \A i \in Fresh : ~IsCardOf(changes'[i], s)
         PROVE  SameCard(s)
    <3>1. CASE s \in DOMAIN events /\ IsRunning(s)
      <4>1. PICK p \in DOMAIN eventOrder : eventOrder[p] = s
        BY <1>2, <3>1 DEF Listed
      <4>2. PICK j \in 1..n : at[j] = p
        BY <2>1, <3>1, <4>1
      <4>3. IsCardOf(changes'[Len(changes) + j], s)
        BY <2>6, <2>9, <4>1, <4>2 DEF IsCardOf
      <4>. QED  BY <2>10, <2>12, <4>3
    <3>2. CASE ~(s \in DOMAIN events /\ IsRunning(s))
      BY <2>3, <3>2 DEF SameCard
    <3>. QED  BY <3>1, <3>2
  <2>13. \E i \in Fresh : changes'[i].type = "run"
    BY <2>8, <2>9, <2>10
  <2>14. Grows
    <3>1. cursor' \in Nat /\ cursor <= cursor' /\ Len(changes') = Len(changes) + (cursor' - cursor)
      <4>1. cursor' = cursor + n + 1
        BY <2>1
      <4>2. Len(changes') = Len(changes) + n + 1
        BY <2>9
      <4>3. cursor \in Nat /\ Len(changes) \in Nat
        BY <1>2
      <4>. QED  BY <2>2, <4>1, <4>2, <4>3
    <3>2. \A i \in Fresh : changes'[i].cursor = cursor + (i - Len(changes)) /\ Announces(i)
      BY <2>11
    <3>3. \A s \in Spans : (\A i \in Fresh : ~IsCardOf(changes'[i], s)) => SameCard(s)
      BY <2>12
    <3>4. (\A i \in Fresh : changes'[i].type # "run") => run' = run
      BY <2>13
    <3>. QED  BY <1>1, <2>9, <3>1, <3>2, <3>3, <3>4 DEF Grows
  <2>15. Types'
    BY <1>1, <1>2, <2>1, <2>3, <2>14 DEF Types, IsEvents, Grows, Runs
  <2>16. Listed'
    BY <1>1, <1>2, <2>3 DEF Listed
  <2>17. Numbered'
    BY <1>2, <2>14, GrowsNumbered
  <2>18. Quiet'
    BY <1>1, <1>2, <2>1, <2>2 DEF Quiet
  <2>19. ASSUME NEW s \in Spans
         PROVE  SpanInv(s)'
    <3>1. SpanInv(s)
      BY DEF ObserverInv, Evidence
    <3>2. CASE s \in DOMAIN events
      <4>1. /\ events[s].detail \subseteq events'[s].detail
            /\ events[s].ended /\ events[s].status # "running" =>
                 events'[s].ended /\ events'[s].status # "running"
        BY <1>2, <2>3, <3>2, StoppedIsCard
      <4>. QED  BY <1>1, <2>3, <3>1, <3>2, <4>1 DEF SpanInv
    <3>3. CASE s \notin DOMAIN events
      BY <1>1, <2>3, <3>1, <3>3 DEF SpanInv
    <3>. QED  BY <3>2, <3>3
  <2>. QED  BY <1>1, <2>14, <2>15, <2>16, <2>17, <2>18, <2>19
            DEF Grown, ObserverInv, Evidence, Onward
<1>. QED  BY <1>3, <1>4

\* Every step of the observer appends changes, begins the run, or closes it.
LEMMA ObserverSteps ==
  ASSUME ObserverInv, [Next]_vars
  PROVE  Grown \/ (ObserverInv' /\ (Begins \/ Closes))
<1>1. CASE UNCHANGED vars
  <2>1. /\ closed' = closed /\ run' = run /\ orchestration' = orchestration
        /\ events' = events /\ eventOrder' = eventOrder /\ nextOrder' = nextOrder
        /\ changes' = changes /\ cursor' = cursor /\ main' = main
        /\ pc' = pc /\ copy' = copy /\ written' = written
    BY <1>1 DEF vars, observer, cards, feed, threads
  <2>2. Grows
    BY <2>1, NothingGrows DEF ObserverInv
  <2>3. Types' /\ Listed' /\ Evidence' /\ Numbered' /\ Quiet'
    BY <2>1 DEF ObserverInv, Types, IsEvents, Listed, Evidence, SpanInv, Numbered, Quiet
  <2>. QED  BY <2>1, <2>2, <2>3 DEF Grown, ObserverInv, Onward
<1>2. CASE Next
  BY <1>2, BeginRunStep, RecordOrchestrationStep, EndRunStep, InterruptStep, CloseStep, SpanSteps
  DEF Next
<1>. QED  BY <1>1, <1>2

-----------------------------------------------------------------------------
(* The page while the observer takes a step.                               *)

\* A card that was there is replaced by a newer one or not at all.
LEMMA CardsGrow ==
  ASSUME ObserverInv, Grows, NEW s \in Spans, s \in DOMAIN events', pc[s] \notin Opening
  PROVE  s \in DOMAIN events /\ events[s].revision <= events'[s].revision
<1>1. CASE \A i \in Fresh : ~IsCardOf(changes'[i], s)
  <2>1. s \in DOMAIN events /\ events'[s] = events[s]
    BY <1>1 DEF Grows, SameCard
  <2>2. events[s].revision \in Nat
    BY <2>1 DEF ObserverInv, Types, IsEvents, Cards
  <2>. QED  BY <2>1, <2>2
<1>2. CASE \E i \in Fresh : IsCardOf(changes'[i], s)
  <2>1. PICK i \in Fresh : IsCardOf(changes'[i], s)
    BY <1>2
  <2>2. Announces(i)
    BY DEF Grows
  <2>3. s \in DOMAIN events /\ events[s].revision < events'[s].revision
    BY <2>1, <2>2 DEF Announces, IsCardOf
  <2>4. events[s].revision \in Nat
    BY <2>3 DEF ObserverInv, Types, IsEvents, Cards
  <2>5. changes'[i] \in Changes
    <3>1. i \in 1..Len(changes')
      BY <2>1 DEF Fresh, ObserverInv, Numbered
    <3>. QED  BY <3>1 DEF Grows
  <2>6. events'[s].revision \in Nat
    BY <2>1, <2>2, <2>5, ChangeKinds DEF Announces, IsCardOf
  <2>. QED  BY <2>3, <2>4, <2>6
<1>. QED  BY <1>1, <1>2

\* What a step publishes is newer than what was published.
LEMMA FreshIsNewest ==
  ASSUME ObserverInv, Grows, NEW i \in Fresh
  PROVE  /\ changes'[i] \in Changes /\ i \in Nat /\ i \in 1..Len(changes')
         /\ cursor < changes'[i].cursor /\ changes'[i].cursor <= cursor'
         /\ Announces(i)
<1>1. Len(changes) \in Nat /\ cursor \in Nat /\ cursor' \in Nat
      /\ Len(changes') = Len(changes) + (cursor' - cursor)
  BY DEF ObserverInv, Types, Numbered, Grows
<1>2. i \in Nat /\ i \in 1..Len(changes') /\ Len(changes) < i /\ i <= Len(changes')
  BY <1>1 DEF Fresh
<1>3. changes'[i] \in Changes /\ Announces(i) /\ changes'[i].cursor = cursor + (i - Len(changes))
  BY <1>2 DEF Grows
<1>. QED  BY <1>1, <1>2, <1>3

\* What is known after a step was known or is published by it.
LEMMA KnownGrows ==
  ASSUME ObserverInv, Grows, inflight' = inflight, NEW c \in Known'
  PROVE  c \in Known \/ \E i \in Fresh : c = changes'[i]
<1>1. CASE \E i \in DOMAIN changes' : c = changes'[i]
  <2>1. PICK i \in DOMAIN changes' : c = changes'[i]
    BY <1>1
  <2>2. i \in DOMAIN changes \/ i \in Fresh
    BY DEF Fresh, Grows, ObserverInv, Numbered
  <2>. QED  BY <2>1, <2>2 DEF Known, Grows
<1>2. CASE \E i \in DOMAIN inflight' : c = inflight'[i]
  BY <1>2 DEF Known
<1>. QED  BY <1>1, <1>2 DEF Known

\* What is known are changes.
LEMMA KnownChanges ==
  ASSUME ObserverInv, Connected, NEW c \in Known
  PROVE  /\ c \in Changes /\ c.cursor \in Nat
         /\ c.type = "card" => c.data.span \in Spans /\ c.data.card.revision \in Nat
<1>1. c \in Changes
  BY DEF Known, ObserverInv, Numbered, Connected
<1>. QED  BY <1>1, ChangeKinds

LEMMA KnownKept ==
  ASSUME ObserverInv, Connected, KnownInv, Grown, inflight' = inflight
  PROVE  KnownInv'
<1>1. ObserverInv' /\ Grows /\ Onward
  BY DEF Grown
<1>2. cursor \in Nat /\ cursor' \in Nat /\ cursor <= cursor'
  BY <1>1 DEF ObserverInv, Types, Grows
<1>3. ASSUME NEW c \in Known'
      PROVE  c.cursor <= cursor' /\ (c.type = "reset" => c.cursor = 1)
  <2>1. CASE c \in Known
    <3>1. c.cursor <= cursor /\ (c.type = "reset" => c.cursor = 1) /\ c.cursor \in Nat
      BY <2>1, KnownChanges DEF KnownInv
    <3>. QED  BY <1>2, <3>1
  <2>2. CASE \E i \in Fresh : c = changes'[i]
    <3>1. PICK i \in Fresh : c = changes'[i]
      BY <2>2
    <3>. QED  BY <1>1, <3>1, FreshIsNewest DEF Announces
  <2>. QED  BY <1>1, <2>1, <2>2, KnownGrows
<1>4. ASSUME NEW c \in Known', c.type = "card"
      PROVE  LET s == c.data.span
             IN  /\ pc'[s] \notin Opening
                 /\ s \in DOMAIN events' => c.data.card.revision <= events'[s].revision
                 /\ \A d \in Known' : IsCardOf(d, s) /\ c.cursor < d.cursor =>
                                        c.data.card.revision < d.data.card.revision
  <2> DEFINE s == c.data.span
  <2>1. CASE c \in Known
    <3>1. /\ s \in Spans /\ c.data.card.revision \in Nat /\ c.cursor \in Nat /\ c.cursor <= cursor
          /\ pc[s] \notin Opening
          /\ s \in DOMAIN events => c.data.card.revision <= events[s].revision
          /\ \A d \in Known : IsCardOf(d, s) /\ c.cursor < d.cursor =>
                                c.data.card.revision < d.data.card.revision
      BY <1>4, <2>1, KnownChanges DEF KnownInv
    <3>. HIDE DEF s
    <3>2. pc'[s] \notin Opening
      BY <1>1, <3>1 DEF Onward
    <3>3. s \in DOMAIN events => events[s].revision \in Nat
      BY DEF ObserverInv, Types, IsEvents, Cards
    <3>4. s \in DOMAIN events' => events'[s].revision \in Nat
      BY <1>1 DEF ObserverInv, Types, IsEvents, Cards
    <3>5. s \in DOMAIN events' => c.data.card.revision <= events'[s].revision
      BY <1>1, <3>1, <3>3, <3>4, CardsGrow
    <3>6. ASSUME NEW d \in Known', IsCardOf(d, s), c.cursor < d.cursor
          PROVE  c.data.card.revision < d.data.card.revision
      <4>1. CASE d \in Known
        BY <3>1, <3>6, <4>1
      <4>2. ASSUME NEW i \in Fresh, d = changes'[i]
            PROVE  c.data.card.revision < d.data.card.revision
        <5>1. s \in DOMAIN events /\ events[s].revision < d.data.card.revision
          BY <1>1, <3>1, <3>6, <4>2, FreshIsNewest DEF Announces, IsCardOf
        <5>2. d.data.card.revision \in Nat
          BY <1>1, <3>6, <4>2, FreshIsNewest, ChangeKinds DEF IsCardOf
        <5>. QED  BY <3>1, <3>3, <5>1, <5>2
      <4>. QED  BY <1>1, <4>1, <4>2, KnownGrows
    <3>. QED  BY <3>2, <3>5, <3>6 DEF s
  <2>2. ASSUME NEW i \in Fresh, c = changes'[i]
        PROVE  /\ pc'[s] \notin Opening
               /\ s \in DOMAIN events' => c.data.card.revision <= events'[s].revision
               /\ \A d \in Known' : IsCardOf(d, s) /\ c.cursor < d.cursor =>
                                      c.data.card.revision < d.data.card.revision
    <3>1. /\ s \in Spans /\ c.data.card.revision \in Nat /\ cursor < c.cursor /\ c.cursor \in Nat
          /\ s \in DOMAIN events' /\ c.data.card = events'[s]
          /\ \A j \in Fresh : IsCardOf(changes'[j], s) => i = j
      BY <1>1, <1>4, <2>2, FreshIsNewest, ChangeKinds DEF Announces
    <3>2. pc'[s] \notin Opening
      BY <1>1, <3>1 DEF ObserverInv, Evidence, SpanInv
    <3>3. ASSUME NEW d \in Known', IsCardOf(d, s), c.cursor < d.cursor
          PROVE  FALSE
      <4>1. CASE d \in Known
        BY <1>2, <3>1, <3>3, <4>1, KnownChanges DEF KnownInv
      <4>2. ASSUME NEW j \in Fresh, d = changes'[j]
            PROVE  FALSE
        BY <2>2, <3>1, <3>3, <4>2
      <4>. QED  BY <1>1, <4>1, <4>2, KnownGrows
    <3>. QED  BY <3>1, <3>2, <3>3
  <2>. QED  BY <1>1, <2>1, <2>2, KnownGrows
<1>. QED  BY <1>3, <1>4 DEF KnownInv

LEMMA ViewKept ==
  ASSUME ObserverInv, Connected, KnownInv, Grown, inflight' = inflight, NEW v, ViewInv(v)
  PROVE  ViewInv(v)'
<1>1. ObserverInv' /\ Grows /\ Onward
  BY DEF Grown
<1>2. cursor \in Nat /\ cursor' \in Nat /\ cursor <= cursor'
  BY <1>1 DEF ObserverInv, Types, Grows
<1>3. IsView(v)' /\ (v.cursor = 0 => v = NothingSeen)
  BY <1>2 DEF ViewInv, IsView
<1>4. ASSUME NEW s \in DOMAIN v.events
      PROVE  /\ pc'[s] \notin Opening
             /\ s \in DOMAIN events' => v.events[s].revision <= events'[s].revision
             /\ \A c \in Known' : IsCardOf(c, s) /\ c.cursor > v.cursor =>
                                    c.data.card.revision > v.events[s].revision
  <2>1. /\ pc[s] \notin Opening
        /\ s \in DOMAIN events => v.events[s].revision <= events[s].revision
        /\ \A c \in Known : IsCardOf(c, s) /\ c.cursor > v.cursor =>
                              c.data.card.revision > v.events[s].revision
    BY DEF ViewInv
  <2>2. s \in Spans /\ v.events[s].revision \in Nat
    BY DEF ViewInv, IsView, IsEvents, Cards
  <2>3. s \in DOMAIN events => events[s].revision \in Nat
    BY DEF ObserverInv, Types, IsEvents, Cards
  <2>4. s \in DOMAIN events' => events'[s].revision \in Nat
    BY <1>1 DEF ObserverInv, Types, IsEvents, Cards
  <2>5. pc'[s] \notin Opening
    BY <1>1, <2>1, <2>2 DEF Onward
  <2>6. s \in DOMAIN events' => v.events[s].revision <= events'[s].revision
    BY <1>1, <2>1, <2>2, <2>3, <2>4, CardsGrow
  <2>7. ASSUME NEW c \in Known', IsCardOf(c, s), c.cursor > v.cursor
        PROVE  c.data.card.revision > v.events[s].revision
    <3>1. CASE c \in Known
      BY <2>1, <2>7, <3>1
    <3>2. ASSUME NEW i \in Fresh, c = changes'[i]
          PROVE  c.data.card.revision > v.events[s].revision
      <4>1. s \in DOMAIN events /\ events[s].revision < c.data.card.revision
        BY <1>1, <2>1, <2>7, <3>2, FreshIsNewest DEF Announces, IsCardOf
      <4>2. c.data.card.revision \in Nat
        BY <1>1, <2>7, <3>2, FreshIsNewest, ChangeKinds DEF IsCardOf
      <4>. QED  BY <2>1, <2>2, <2>3, <4>1, <4>2
    <3>. QED  BY <1>1, <3>1, <3>2, KnownGrows
  <2>. QED  BY <2>5, <2>6, <2>7
<1>. QED  BY <1>3, <1>4 DEF ViewInv

\* The feed before and after a step that appends.
LEMMA FeedFacts ==
  ASSUME ObserverInv, Grown
  PROVE  /\ Len(changes) \in Nat /\ Len(changes') \in Nat /\ Len(changes) <= Len(changes')
         /\ DOMAIN changes = 1..Len(changes) /\ DOMAIN changes' = 1..Len(changes')
         /\ Fresh = Len(changes) + 1 .. Len(changes')
         /\ \A i \in DOMAIN changes : changes'[i] = changes[i] /\ changes[i] \in Changes
         /\ orchestration \in Nat /\ orchestration' \in Nat
         /\ cursor \in Nat /\ (~closed => cursor = Len(changes))
<1>1. ObserverInv' /\ Grows
  BY DEF Grown
<1>2. /\ cursor \in Nat /\ cursor' \in Nat /\ cursor <= cursor'
      /\ changes \in Seq(Changes) /\ changes' \in Seq(Changes)
      /\ Len(changes') = Len(changes) + (cursor' - cursor)
      /\ ~closed => cursor = Len(changes)
      /\ \A i \in DOMAIN changes : changes'[i] = changes[i]
  BY <1>1 DEF ObserverInv, Types, Numbered, Grows
<1>3. orchestration \in Nat /\ orchestration' \in Nat
  BY <1>1, ObserverAssumption DEF ObserverInv, Types
<1>4. Len(changes) \in Nat /\ Len(changes') \in Nat
      /\ DOMAIN changes = 1..Len(changes) /\ DOMAIN changes' = 1..Len(changes')
  BY <1>2
<1>5. \A i \in DOMAIN changes : changes[i] \in Changes
  BY <1>2
<1>6. Len(changes) <= Len(changes')
  <2>1. cursor \in Nat /\ cursor' \in Nat /\ cursor <= cursor'
        /\ Len(changes') = Len(changes) + (cursor' - cursor)
    BY <1>2
  <2>2. Len(changes) \in Nat
    BY <1>4
  <2>. QED  BY <2>1, <2>2
<1>. QED  BY <1>2, <1>3, <1>4, <1>5, <1>6 DEF Fresh

\* A card, the run and the Orchestration as the changes that no step has
\* published yet leave them.
LEMMA NewestKept ==
  ASSUME ObserverInv, Grown, ~closed, NewestIsTrue
  PROVE  NewestIsTrue' /\ orchestration <= orchestration'
<1>1. ObserverInv' /\ Grows
  BY DEF Grown
<1>2. /\ Len(changes) \in Nat /\ Len(changes') \in Nat /\ Len(changes) <= Len(changes')
      /\ DOMAIN changes = 1..Len(changes) /\ DOMAIN changes' = 1..Len(changes')
      /\ Fresh = Len(changes) + 1 .. Len(changes')
      /\ \A i \in DOMAIN changes : changes'[i] = changes[i] /\ changes[i] \in Changes
      /\ orchestration \in Nat /\ orchestration' \in Nat
  BY FeedFacts
<1>3. orchestration <= orchestration'
  <2>1. CASE \A i \in Fresh : changes'[i].type # "orchestration"
    BY <1>1, <1>2, <2>1 DEF Grows
  <2>2. CASE \E i \in Fresh : changes'[i].type = "orchestration"
    BY <1>1, <1>2, <2>2 DEF Grows, Announces
  <2>. QED  BY <2>1, <2>2
<1>4. ASSUME NEW i \in DOMAIN changes'
      PROVE  LET c == changes'[i]
                 after == i + 1 .. Len(changes')
             IN  /\ c.type = "card" /\ (\A j \in after : ~IsCardOf(changes'[j], c.data.span)) =>
                      c.data.span \in DOMAIN events' /\ c.data.card = events'[c.data.span]
                 /\ c.type \in {"reset", "run"}
                      /\ (\A j \in after : changes'[j].type \notin {"reset", "run"}) =>
                      c.data = run'
                 /\ c.type = "orchestration" =>
                      /\ c.data <= orchestration'
                      /\ \A j \in after : changes'[j].type = "orchestration" =>
                                            c.data < changes'[j].data
                      /\ (\A j \in after : changes'[j].type # "orchestration") =>
                           c.data = orchestration'
  <2> DEFINE c == changes'[i]
             after == i + 1 .. Len(changes')
  <2>1. CASE i \in Fresh
    <3>1. Announces(i) /\ c \in Changes
      BY <1>1, <2>1, FreshIsNewest
    <3>2. \A j \in after : j \in Fresh /\ j # i
      BY <1>2, <2>1
    <3>3. c.type = "orchestration" => c.data \in Nat
      BY <3>1, ChangeKinds
    <3>. QED  BY <1>2, <3>1, <3>2, <3>3 DEF Announces
  <2>2. CASE i \in DOMAIN changes
    <3> DEFINE before == i + 1 .. Len(changes)
    <3>1. c = changes[i] /\ c \in Changes
      BY <1>2, <2>2
    <3>2. /\ \A j \in before : j \in after /\ changes'[j] = changes[j]
          /\ \A j \in Fresh : j \in after
          /\ \A j \in after : j \in before \/ j \in Fresh
      BY <1>2, <2>2
    <3>3. /\ c.type = "card" /\ (\A j \in before : ~IsCardOf(changes[j], c.data.span)) =>
               c.data.span \in DOMAIN events /\ c.data.card = events[c.data.span]
          /\ c.type \in {"reset", "run"} /\ (\A j \in before : changes[j].type \notin {"reset", "run"}) =>
               c.data = run
          /\ c.type = "orchestration" =>
               /\ c.data <= orchestration
               /\ \A j \in before : changes[j].type = "orchestration" => c.data < changes[j].data
               /\ (\A j \in before : changes[j].type # "orchestration") => c.data = orchestration
      BY <2>2, <3>1 DEF NewestIsTrue
    <3>. HIDE DEF c, after, before
    <3>4. ASSUME c.type = "card", \A j \in after : ~IsCardOf(changes'[j], c.data.span)
          PROVE  c.data.span \in DOMAIN events' /\ c.data.card = events'[c.data.span]
      <4>1. c.data.span \in DOMAIN events /\ c.data.card = events[c.data.span]
        BY <3>2, <3>3, <3>4
      <4>2. c.data.span \in Spans
        BY <3>1, <3>4, ChangeKinds
      <4>3. SameCard(c.data.span)
        BY <1>1, <3>2, <3>4, <4>2 DEF Grows
      <4>. QED  BY <4>1, <4>3 DEF SameCard
    <3>5. ASSUME c.type \in {"reset", "run"}, \A j \in after : changes'[j].type \notin {"reset", "run"}
          PROVE  c.data = run'
      <4>1. c.data = run
        BY <3>2, <3>3, <3>5
      <4>2. \A j \in Fresh : changes'[j].type # "run"
        BY <3>2, <3>5
      <4>. QED  BY <1>1, <4>1, <4>2 DEF Grows
    <3>6. ASSUME c.type = "orchestration"
          PROVE  /\ c.data <= orchestration'
                 /\ \A j \in after : changes'[j].type = "orchestration" => c.data < changes'[j].data
                 /\ (\A j \in after : changes'[j].type # "orchestration") => c.data = orchestration'
      <4>1. c.data \in Nat /\ c.data <= orchestration
        BY <3>1, <3>3, <3>6, ChangeKinds, ObserverAssumption
      <4>2. ASSUME NEW j \in after, changes'[j].type = "orchestration"
            PROVE  c.data < changes'[j].data
        <5>1. CASE j \in before
          BY <3>2, <3>3, <3>6, <4>2, <5>1
        <5>2. CASE j \in Fresh
          <6>1. Announces(j)
            BY <1>1, <5>2 DEF Grows
          <6>2. orchestration < changes'[j].data /\ changes'[j].data = orchestration'
            BY <4>2, <6>1 DEF Announces
          <6>. QED  BY <1>2, <4>1, <6>2
        <5>. QED  BY <3>2, <5>1, <5>2
      <4>3. ASSUME \A j \in after : changes'[j].type # "orchestration"
            PROVE  c.data = orchestration'
        <5>1. c.data = orchestration
          BY <3>2, <3>3, <3>6, <4>3
        <5>2. orchestration' = orchestration
          BY <1>1, <3>2, <4>3 DEF Grows
        <5>. QED  BY <5>1, <5>2
      <4>. QED  BY <1>2, <1>3, <4>1, <4>2, <4>3
    <3>. QED  BY <3>4, <3>5, <3>6 DEF c, after
  <2>. QED  BY <1>2, <1>4, <2>1, <2>2
<1>. QED  BY <1>3, <1>4 DEF NewestIsTrue

LEMMA LacksKept ==
  ASSUME ObserverInv, Grown, ~closed, NewestIsTrue,
         NEW v, ViewInv(v), Lacks(v)
  PROVE  Lacks(v)'
<1>1. ObserverInv' /\ Grows
  BY DEF Grown
<1>2. /\ Len(changes) \in Nat /\ Len(changes') \in Nat /\ Len(changes) <= Len(changes')
      /\ DOMAIN changes = 1..Len(changes)
      /\ \A i \in DOMAIN changes : changes'[i] = changes[i] /\ changes[i] \in Changes
      /\ orchestration \in Nat /\ cursor = Len(changes)
  BY FeedFacts
<1>3. v.cursor \in Nat /\ v.cursor <= Len(changes) /\ v.orchestration \in Nat
  BY <1>2, ObserverAssumption DEF ViewInv, IsView
<1> DEFINE before == v.cursor + 1 .. Len(changes)
           after == v.cursor + 1 .. Len(changes')
<1>4. /\ \A j \in before : j \in after /\ changes'[j] = changes[j] /\ j \in DOMAIN changes
      /\ \A j \in Fresh : j \in after
      /\ \A j \in after : j \in before \/ j \in Fresh
  BY <1>2, <1>3 DEF Fresh
<1>5. /\ \A s \in Spans : (\A j \in before : ~IsCardOf(changes[j], s)) =>
           /\ s \in DOMAIN v.events <=> s \in DOMAIN events
           /\ s \in DOMAIN events => v.events[s] = events[s]
      /\ (\A j \in before : changes[j].type \notin {"reset", "run"}) => v.run = run
      /\ (\A j \in before : changes[j].type # "orchestration") => v.orchestration = orchestration
      /\ \A j \in before : changes[j].type = "orchestration" => v.orchestration < changes[j].data
  BY DEF Lacks
<1>. HIDE DEF before, after
<1>6. ASSUME NEW s \in Spans, \A j \in after : ~IsCardOf(changes'[j], s)
      PROVE  /\ s \in DOMAIN v.events <=> s \in DOMAIN events'
             /\ s \in DOMAIN events' => v.events[s] = events'[s]
  <2>1. SameCard(s)
    BY <1>1, <1>4, <1>6 DEF Grows
  <2>2. /\ s \in DOMAIN v.events <=> s \in DOMAIN events
        /\ s \in DOMAIN events => v.events[s] = events[s]
    BY <1>4, <1>5, <1>6
  <2>. QED  BY <2>1, <2>2 DEF SameCard
<1>7. ASSUME \A j \in after : changes'[j].type \notin {"reset", "run"}
      PROVE  v.run = run'
  <2>1. v.run = run
    BY <1>4, <1>5, <1>7
  <2>2. \A j \in Fresh : changes'[j].type # "run"
    BY <1>4, <1>7
  <2>. QED  BY <1>1, <2>1, <2>2 DEF Grows
<1>8. ASSUME \A j \in after : changes'[j].type # "orchestration"
      PROVE  v.orchestration = orchestration'
  <2>1. v.orchestration = orchestration
    BY <1>4, <1>5, <1>8
  <2>2. \A j \in Fresh : changes'[j].type # "orchestration"
    BY <1>4, <1>8
  <2>. QED  BY <1>1, <2>1, <2>2 DEF Grows
<1>9. v.orchestration <= orchestration
  <2>1. CASE \A j \in before : changes[j].type # "orchestration"
    BY <1>2, <1>5, <2>1
  <2>2. ASSUME NEW j \in before, changes[j].type = "orchestration"
        PROVE  v.orchestration <= orchestration
    <3>1. v.orchestration < changes[j].data
      BY <1>5, <2>2
    <3>2. changes[j].data <= orchestration
      BY <1>4, <2>2 DEF NewestIsTrue
    <3>3. changes[j].data \in Nat
      BY <1>2, <1>4, <2>2, ChangeKinds, ObserverAssumption
    <3>. QED  BY <1>2, <1>3, <3>1, <3>2, <3>3
  <2>. QED  BY <2>1, <2>2
<1>10. ASSUME NEW j \in after, changes'[j].type = "orchestration"
       PROVE  v.orchestration < changes'[j].data
  <2>1. CASE j \in before
    BY <1>4, <1>5, <1>10, <2>1
  <2>2. CASE j \in Fresh
    <3>1. Announces(j) /\ changes'[j] \in Changes
      BY <1>1, <2>2, FreshIsNewest
    <3>2. orchestration < changes'[j].data /\ changes'[j].data \in Nat
      BY <1>10, <3>1, ChangeKinds, ObserverAssumption DEF Announces
    <3>. QED  BY <1>2, <1>3, <1>9, <3>2
  <2>. QED  BY <1>4, <2>1, <2>2
<1>. QED  BY <1>6, <1>7, <1>8, <1>10 DEF Lacks, after

LEMMA FlowsKept ==
  ASSUME ObserverInv, Grown, ~closed, Connected, Flows,
         UNCHANGED <<conn, pulled, inflight, view>>
  PROVE  Flows'
<1>1. Grows /\ conn' = conn /\ pulled' = pulled /\ inflight' = inflight /\ view' = view
  BY DEF Grown
<1>2. /\ Len(changes) \in Nat /\ cursor = Len(changes) /\ DOMAIN changes = 1..Len(changes)
      /\ \A i \in DOMAIN changes : changes'[i] = changes[i]
      /\ pulled \in 0..cursor
      /\ Len(inflight) \in Nat /\ DOMAIN inflight = 1..Len(inflight)
  BY <1>1 DEF ObserverInv, Types, Numbered, Grows, Connected
<1>3. ASSUME conn = "streaming", NEW i \in DOMAIN inflight
      PROVE  inflight[i] = changes'[pulled - Len(inflight) + i]
  <2>1. pulled - Len(inflight) >= 0 /\ inflight[i] = changes[pulled - Len(inflight) + i]
    BY <1>3 DEF Flows
  <2>2. pulled - Len(inflight) + i \in DOMAIN changes
    BY <1>2, <2>1
  <2>. QED  BY <1>2, <2>1, <2>2
<1>. QED  BY <1>1, <1>3 DEF Flows

LEMMA ConnectedKept ==
  ASSUME ObserverInv, Connected, cursor' \in Nat, cursor <= cursor', UNCHANGED browser
  PROVE  Connected'
  BY DEF ObserverInv, Types, Connected, browser

\* A step that appends keeps what is true of the page.
LEMMA PageGrows ==
  ASSUME ViewerInv, Grown, UNCHANGED browser
  PROVE  PageInv'
<1>1. /\ ObserverInv /\ KnownInv /\ ViewInv(view) /\ ViewInv(reply) /\ Connected
      /\ inflight' = inflight /\ view' = view /\ reply' = reply
      /\ conn' = conn /\ pulled' = pulled
  BY DEF ViewerInv, PageInv, browser
<1>2. KnownInv'
  BY <1>1, KnownKept
<1>3. ViewInv(view)' /\ ViewInv(reply)'
  BY <1>1, ViewKept
<1>4. Connected'
  BY <1>1, ConnectedKept DEF Grown, Grows
<1>5. ASSUME ~closed'
      PROVE  (Flows /\ NewestIsTrue /\ Lacks(view) /\ Lacks(reply))'
  <2>1. ~closed /\ Flows /\ NewestIsTrue /\ Lacks(view) /\ Lacks(reply)
    BY <1>5 DEF ViewerInv, PageInv, Exact, Grown, Grows
  <2>2. Flows'
    BY <1>1, <2>1, FlowsKept
  <2>3. NewestIsTrue'
    BY <1>1, <2>1, NewestKept
  <2>4. Lacks(view)' /\ Lacks(reply)'
    BY <1>1, <2>1, LacksKept
  <2>. QED  BY <2>2, <2>3, <2>4
<1>. QED  BY <1>2, <1>3, <1>4, <1>5 DEF PageInv, Exact

\* Before the run begins, nothing is published and nothing shown.
LEMMA PageBegins ==
  ASSUME ViewerInv, ObserverInv', Begins, UNCHANGED browser
  PROVE  PageInv'
<1>1. /\ ObserverInv /\ KnownInv /\ ViewInv(view) /\ ViewInv(reply) /\ Connected
      /\ inflight' = inflight /\ view' = view /\ reply' = reply
      /\ conn' = conn /\ pulled' = pulled /\ losses' = losses
  BY DEF ViewerInv, PageInv, browser
<1>2. /\ ~closed /\ closed' = closed /\ cursor = 0 /\ cursor' = 1 /\ run' = "running"
      /\ orchestration' = 0 /\ events' = NoEvents /\ pc' = pc
      /\ changes' = <<Change(1, "reset", "running")>>
  BY DEF Begins
<1>3. /\ DOMAIN changes' = {1} /\ Len(changes') = 1
      /\ changes'[1].type = "reset" /\ changes'[1].data = "running" /\ changes'[1].cursor = 1
  BY <1>2 DEF Change
<1>4. view = NothingSeen /\ reply = NothingSeen /\ pulled = 0
  BY <1>1, <1>2 DEF ViewInv, IsView, Connected
<1>5. inflight \in Seq(Changes) /\ Len(inflight) = 0
  <2>1. inflight \in Seq(Changes) /\ Len(inflight) \in Nat
    BY <1>1 DEF Connected
  <2>2. CASE conn = "streaming"
    BY <1>1, <1>2, <1>4, <2>1, <2>2 DEF ViewerInv, PageInv, Exact, Flows
  <2>3. CASE conn # "streaming"
    BY <1>1, <2>3 DEF Connected
  <2>. QED  BY <2>1, <2>2, <2>3
<1>6. \A c \in Known' : c = changes'[1]
  BY <1>1, <1>3, <1>5 DEF Known
<1>7. KnownInv'
  BY <1>2, <1>3, <1>6 DEF KnownInv
<1>8. NothingSeen.run = "none" /\ NothingSeen.orchestration = 0
      /\ NothingSeen.events = NoEvents /\ NothingSeen.cursor = 0
      /\ DOMAIN NoEvents = {} /\ IsEvents(NoEvents)
  BY NoCards DEF NothingSeen
<1>9. ViewInv(NothingSeen)'
  <2>1. IsView(NothingSeen)'
    BY <1>2, <1>8, ObserverAssumption DEF IsView, Runs
  <2>2. NothingSeen = [run |-> NothingSeen.run, orchestration |-> NothingSeen.orchestration,
                       events |-> NothingSeen.events, cursor |-> NothingSeen.cursor]
    BY DEF NothingSeen
  <2>. QED  BY <1>8, <2>1, <2>2 DEF ViewInv, IsRecord
<1>10. Connected'
  BY <1>1, <1>2, ConnectedKept
<1>11. Flows'
  BY <1>1, <1>4, <1>5, <1>8 DEF Flows
<1>12. NewestIsTrue'
  BY <1>2, <1>3 DEF NewestIsTrue
<1>13. Lacks(NothingSeen)'
  BY <1>2, <1>3, <1>8 DEF Lacks, IsCardOf
<1>. QED  BY <1>1, <1>4, <1>7, <1>9, <1>10, <1>11, <1>12, <1>13 DEF PageInv, Exact

\* The feed of a closed observer goes on where it was.
LEMMA PageCloses ==
  ASSUME ViewerInv, ObserverInv', Closes, UNCHANGED browser
  PROVE  PageInv'
<1>1. /\ ObserverInv /\ KnownInv /\ ViewInv(view) /\ ViewInv(reply) /\ Connected
      /\ inflight' = inflight /\ view' = view /\ reply' = reply
  BY DEF ViewerInv, PageInv, browser
<1>2. /\ closed' = TRUE /\ events' = NoEvents /\ changes' = <<>> /\ cursor' = cursor
      /\ pc' = pc /\ DOMAIN events' = {} /\ cursor \in Nat
  BY NoCards DEF Closes, ObserverInv, Types
<1>3. \A c \in Known' : c \in Known
  BY <1>1, <1>2 DEF Known
<1>4. KnownInv'
  BY <1>1, <1>2, <1>3 DEF KnownInv
<1>5. ASSUME NEW v, ViewInv(v)
      PROVE  ViewInv(v)'
  <2>1. IsView(v)'
    BY <1>2, <1>5 DEF ViewInv, IsView
  <2>. QED  BY <1>2, <1>3, <1>5, <2>1 DEF ViewInv
<1>6. ViewInv(view)' /\ ViewInv(reply)'
  BY <1>1, <1>5
<1>7. Connected'
  BY <1>1, <1>2, ConnectedKept
<1>. QED  BY <1>2, <1>4, <1>6, <1>7 DEF PageInv, Exact

-----------------------------------------------------------------------------
(* The page takes a step.                                                  *)

\* What the reducer makes of a newer change.
LEMMA Reduced ==
  ASSUME NEW v, IsRecord(v), v.cursor \in Nat, NEW c \in Changes, c.cursor > v.cursor,
         c.type = "reset" => v = NothingSeen
  PROVE  LET w == WithChange(v, c)
         IN  /\ IsRecord(w) /\ w.cursor = c.cursor
             /\ w.run = IF c.type \in {"reset", "run"} THEN c.data ELSE v.run
             /\ w.orchestration = IF c.type = "orchestration" /\ c.data > v.orchestration
                                  THEN c.data ELSE v.orchestration
             /\ c.type # "card" => w.events = v.events
             /\ c.type = "card" =>
                  w.events = [s \in DOMAIN v.events \cup {c.data.span} |->
                                IF s = c.data.span THEN c.data.card ELSE v.events[s]]
<1>1. c.type \in {"reset", "run", "orchestration", "card"} /\ c.cursor \in Nat
      /\ ~(c.cursor <= v.cursor)
  BY ChangeKinds
<1> DEFINE w == WithChange(v, c)
<1>2. CASE c.type = "reset"
  <2>1. w = [NothingSeen EXCEPT !.run = c.data, !.cursor = c.cursor]
    BY <1>1, <1>2 DEF WithChange
  <2>2. w = [run |-> c.data, orchestration |-> 0, events |-> NoEvents, cursor |-> c.cursor]
    BY <2>1 DEF NothingSeen
  <2>3. v.orchestration = 0 /\ v.events = NoEvents
    BY <1>2 DEF NothingSeen
  <2>. HIDE DEF w
  <2>4. IsRecord(w) /\ w.run = c.data /\ w.orchestration = 0 /\ w.events = NoEvents
        /\ w.cursor = c.cursor
    BY <2>2 DEF IsRecord
  <2>. QED  BY <1>2, <2>3, <2>4 DEF w
<1>3. CASE c.type = "run"
  <2>1. w = [v EXCEPT !.run = c.data, !.cursor = c.cursor]
    BY <1>1, <1>3 DEF WithChange
  <2>2. w = [run |-> c.data, orchestration |-> v.orchestration, events |-> v.events,
             cursor |-> c.cursor]
    BY <2>1 DEF IsRecord
  <2>. HIDE DEF w
  <2>3. IsRecord(w) /\ w.run = c.data /\ w.orchestration = v.orchestration
        /\ w.events = v.events /\ w.cursor = c.cursor
    BY <2>2 DEF IsRecord
  <2>. QED  BY <1>3, <2>3 DEF w
<1>4. CASE c.type = "orchestration"
  <2> DEFINE o == IF c.data > v.orchestration THEN c.data ELSE v.orchestration
  <2>1. w = [v EXCEPT !.orchestration = o, !.cursor = c.cursor]
    BY <1>1, <1>4 DEF WithChange
  <2>2. w = [run |-> v.run, orchestration |-> o, events |-> v.events, cursor |-> c.cursor]
    <3>. HIDE DEF w, o
    <3>. QED  BY <2>1 DEF IsRecord
  <2>. HIDE DEF w
  <2>3. IsRecord(w) /\ w.run = v.run /\ w.orchestration = o
        /\ w.events = v.events /\ w.cursor = c.cursor
    <3>. HIDE DEF o
    <3>. QED  BY <2>2 DEF IsRecord
  <2>. QED  BY <1>4, <2>3 DEF w
<1>5. CASE c.type = "card"
  <2> DEFINE e == [s \in DOMAIN v.events \cup {c.data.span} |->
                     IF s = c.data.span THEN c.data.card ELSE v.events[s]]
  <2>1. w = [v EXCEPT !.cursor = c.cursor, !.events = e]
    BY <1>1, <1>5 DEF WithChange
  <2>2. w = [run |-> v.run, orchestration |-> v.orchestration, events |-> e,
             cursor |-> c.cursor]
    <3>. HIDE DEF w, e
    <3>. QED  BY <2>1 DEF IsRecord
  <2>. HIDE DEF w
  <2>3. IsRecord(w) /\ w.run = v.run /\ w.orchestration = v.orchestration
        /\ w.events = e /\ w.cursor = c.cursor
    <3>. HIDE DEF e
    <3>. QED  BY <2>2 DEF IsRecord
  <2>. QED  BY <1>5, <2>3 DEF w
<1>. QED  BY <1>1, <1>2, <1>3, <1>4, <1>5

\* What a page may show after it showed v.
NotBack(v, w) ==
  /\ w.cursor >= v.cursor
  /\ w.orchestration >= v.orchestration
  /\ \A s \in DOMAIN v.events :
       /\ s \in DOMAIN w.events
       /\ w.events[s] = v.events[s] \/ w.events[s].revision > v.events[s].revision

LEMMA ViewFacts ==
  ASSUME NEW v, ViewInv(v), ObserverInv
  PROVE  /\ IsRecord(v) /\ v.run \in Runs /\ v.orchestration \in Nat
         /\ v.orchestration \in 0..MaxRevision
         /\ v.cursor \in Nat /\ v.cursor <= cursor /\ cursor \in Nat
         /\ v.events \in [DOMAIN v.events -> Cards] /\ DOMAIN v.events \subseteq Spans
         /\ \A s \in DOMAIN v.events : v.events[s].revision \in Nat
  BY ObserverAssumption DEF ViewInv, IsView, IsEvents, Cards, ObserverInv, Types

\* A newer change that is known leads to a view of which the same is true, and
\* never back.
LEMMA ChangedView ==
  ASSUME ObserverInv, Connected, KnownInv, NEW v, ViewInv(v), NEW c \in Known,
         c.cursor > v.cursor
  PROVE  ViewInv(WithChange(v, c)) /\ NotBack(v, WithChange(v, c))
<1> DEFINE w == WithChange(v, c)
<1>1. c \in Changes /\ c.cursor \in Nat /\ c.cursor <= cursor
  BY KnownChanges DEF KnownInv
<1>2. /\ IsRecord(v) /\ v.run \in Runs /\ v.orchestration \in Nat
      /\ v.orchestration \in 0..MaxRevision
      /\ v.cursor \in Nat /\ v.cursor <= cursor /\ cursor \in Nat
      /\ v.events \in [DOMAIN v.events -> Cards] /\ DOMAIN v.events \subseteq Spans
      /\ \A s \in DOMAIN v.events : v.events[s].revision \in Nat
  BY ViewFacts
<1>3. c.type = "reset" => v = NothingSeen
  BY <1>2 DEF KnownInv, ViewInv
<1>4. /\ IsRecord(w) /\ w.cursor = c.cursor
      /\ w.run = IF c.type \in {"reset", "run"} THEN c.data ELSE v.run
      /\ w.orchestration = IF c.type = "orchestration" /\ c.data > v.orchestration
                           THEN c.data ELSE v.orchestration
      /\ c.type # "card" => w.events = v.events
      /\ c.type = "card" =>
           w.events = [s \in DOMAIN v.events \cup {c.data.span} |->
                         IF s = c.data.span THEN c.data.card ELSE v.events[s]]
  BY <1>1, <1>2, <1>3, Reduced
<1>. HIDE DEF w
<1>5. /\ c.type \in {"reset", "run"} => c.data \in Runs
      /\ c.type = "orchestration" => c.data \in 0..MaxRevision /\ c.data \in Nat
      /\ c.type = "card" => /\ c.data.span \in Spans /\ c.data.card \in Cards
                            /\ c.data.card.revision \in Nat
  BY <1>1, ChangeKinds, ObserverAssumption
<1>6. w.run \in Runs /\ w.orchestration \in 0..MaxRevision
      /\ w.orchestration >= v.orchestration
  BY <1>2, <1>4, <1>5
<1>7. w.cursor \in 0..cursor /\ w.cursor >= v.cursor /\ w.cursor # 0
  BY <1>1, <1>2, <1>4
<1>8. IsEvents(w.events)
  <2>1. CASE c.type # "card"
    BY <1>2, <1>4, <2>1 DEF IsEvents
  <2>2. CASE c.type = "card"
    BY <1>2, <1>4, <1>5, <2>2 DEF IsEvents
  <2>. QED  BY <2>1, <2>2
<1>9. ASSUME NEW s \in DOMAIN w.events
      PROVE  \/ s \in DOMAIN v.events /\ w.events[s] = v.events[s]
             \/ IsCardOf(c, s) /\ w.events[s] = c.data.card
  <2>1. CASE c.type # "card"
    BY <1>4, <2>1
  <2>2. CASE c.type = "card"
    BY <1>4, <2>2 DEF IsCardOf
  <2>. QED  BY <2>1, <2>2
<1>10. ASSUME NEW s \in DOMAIN w.events
       PROVE  /\ pc[s] \notin Opening
              /\ s \in DOMAIN events => w.events[s].revision <= events[s].revision
              /\ \A d \in Known : IsCardOf(d, s) /\ d.cursor > w.cursor =>
                                    d.data.card.revision > w.events[s].revision
  <2>1. CASE s \in DOMAIN v.events /\ w.events[s] = v.events[s]
    <3>1. /\ pc[s] \notin Opening
          /\ s \in DOMAIN events => v.events[s].revision <= events[s].revision
          /\ \A d \in Known : IsCardOf(d, s) /\ d.cursor > v.cursor =>
                                d.data.card.revision > v.events[s].revision
      BY <2>1 DEF ViewInv
    <3>2. \A d \in Known : d.cursor > w.cursor => d.cursor > v.cursor
      BY <1>2, <1>7, KnownChanges
    <3>. QED  BY <2>1, <3>1, <3>2
  <2>2. CASE IsCardOf(c, s) /\ w.events[s] = c.data.card
    <3>1. c.type = "card" /\ c.data.span = s
      BY <2>2 DEF IsCardOf
    <3>2. /\ pc[s] \notin Opening
          /\ s \in DOMAIN events => c.data.card.revision <= events[s].revision
          /\ \A d \in Known : IsCardOf(d, s) /\ c.cursor < d.cursor =>
                                c.data.card.revision < d.data.card.revision
      BY <3>1 DEF KnownInv
    <3>3. \A d \in Known : d.cursor \in Nat
      BY KnownChanges
    <3>4. ASSUME NEW d \in Known, IsCardOf(d, s), d.cursor > w.cursor
          PROVE  d.data.card.revision > w.events[s].revision
      <4>1. c.cursor < d.cursor /\ d.data.card.revision \in Nat
        BY <1>1, <1>4, <3>3, <3>4, KnownChanges DEF IsCardOf
      <4>2. c.data.card.revision < d.data.card.revision
        BY <3>2, <3>4, <4>1
      <4>. QED  BY <1>5, <2>2, <3>1, <4>1, <4>2
    <3>. QED  BY <2>2, <3>2, <3>4
  <2>. QED  BY <1>9, <2>1, <2>2
<1>11. ViewInv(w)
  BY <1>4, <1>6, <1>7, <1>8, <1>10 DEF ViewInv, IsView
<1>12. ASSUME NEW s \in DOMAIN v.events
       PROVE  /\ s \in DOMAIN w.events
              /\ w.events[s] = v.events[s] \/ w.events[s].revision > v.events[s].revision
  <2>1. s \in DOMAIN w.events
    BY <1>4, <1>5, ChangeKinds
  <2>2. CASE IsCardOf(c, s) /\ w.events[s] = c.data.card
    <3>1. c.data.card.revision > v.events[s].revision
      BY <2>2 DEF ViewInv
    <3>. QED  BY <2>1, <2>2, <3>1
  <2>. QED  BY <1>9, <2>1, <2>2
<1>13. NotBack(v, w)
  BY <1>6, <1>7, <1>12 DEF NotBack
<1>. QED  BY <1>11, <1>13 DEF w

\* The change after what a page shows leaves out nothing.
LEMMA ChangedLacks ==
  ASSUME ObserverInv, Connected, KnownInv, ~closed, NewestIsTrue,
         NEW v, ViewInv(v), Lacks(v), NEW n \in DOMAIN changes, n = v.cursor + 1
  PROVE  Lacks(WithChange(v, changes[n]))
<1> DEFINE c == changes[n]
           w == WithChange(v, c)
<1>1. /\ c \in Changes /\ c \in Known /\ n \in Nat /\ Len(changes) \in Nat
      /\ n \in 1..Len(changes) /\ c.cursor = n
  <2>1. changes \in Seq(Changes) /\ Len(changes) = cursor /\ cursor \in Nat
        /\ c.cursor = cursor - Len(changes) + n
    BY DEF ObserverInv, Types, Numbered
  <2>. QED  BY <2>1 DEF Known
<1>2. IsRecord(v) /\ v.cursor \in Nat /\ v.orchestration \in Nat
  BY ViewFacts
<1>3. c.type = "reset" => v = NothingSeen
  BY <1>1, <1>2 DEF KnownInv, ViewInv
<1>4. c.cursor > v.cursor
  BY <1>1, <1>2
<1>5. /\ IsRecord(w) /\ w.cursor = c.cursor
      /\ w.run = IF c.type \in {"reset", "run"} THEN c.data ELSE v.run
      /\ w.orchestration = IF c.type = "orchestration" /\ c.data > v.orchestration
                           THEN c.data ELSE v.orchestration
      /\ c.type # "card" => w.events = v.events
      /\ c.type = "card" =>
           w.events = [s \in DOMAIN v.events \cup {c.data.span} |->
                         IF s = c.data.span THEN c.data.card ELSE v.events[s]]
  <2>. HIDE DEF c
  <2>. QED  BY <1>1, <1>2, <1>3, <1>4, Reduced
<1> DEFINE before == v.cursor + 1 .. Len(changes)
           after == n + 1 .. Len(changes)
<1>6. /\ w.cursor + 1 .. Len(changes) = after
      /\ n \in before /\ \A j \in before : j = n \/ j \in after
  BY <1>1, <1>2, <1>5
<1>7. /\ \A s \in Spans : (\A j \in before : ~IsCardOf(changes[j], s)) =>
           /\ s \in DOMAIN v.events <=> s \in DOMAIN events
           /\ s \in DOMAIN events => v.events[s] = events[s]
      /\ (\A j \in before : changes[j].type \notin {"reset", "run"}) => v.run = run
      /\ (\A j \in before : changes[j].type # "orchestration") => v.orchestration = orchestration
      /\ \A j \in before : changes[j].type = "orchestration" => v.orchestration < changes[j].data
      /\ \A j \in after : j \in before
  BY <1>1, <1>2 DEF Lacks
<1>8. /\ c.type = "card" /\ (\A j \in after : ~IsCardOf(changes[j], c.data.span)) =>
           c.data.span \in DOMAIN events /\ c.data.card = events[c.data.span]
      /\ c.type \in {"reset", "run"} /\ (\A j \in after : changes[j].type \notin {"reset", "run"}) =>
           c.data = run
      /\ c.type = "orchestration" =>
           /\ \A j \in after : changes[j].type = "orchestration" => c.data < changes[j].data
           /\ (\A j \in after : changes[j].type # "orchestration") => c.data = orchestration
  BY DEF NewestIsTrue
<1>9. c = changes[n]
  OBVIOUS
<1>. HIDE DEF c, w, before, after
<1>10. ASSUME NEW s \in Spans, \A j \in after : ~IsCardOf(changes[j], s)
       PROVE  /\ s \in DOMAIN w.events <=> s \in DOMAIN events
              /\ s \in DOMAIN events => w.events[s] = events[s]
  <2>1. CASE IsCardOf(c, s)
    <3>1. s \in DOMAIN events /\ c.data.card = events[s]
      BY <1>8, <1>10, <2>1 DEF IsCardOf
    <3>2. s \in DOMAIN w.events /\ w.events[s] = c.data.card
      BY <1>5, <2>1 DEF IsCardOf
    <3>. QED  BY <3>1, <3>2
  <2>2. CASE ~IsCardOf(c, s)
    <3>1. /\ s \in DOMAIN v.events <=> s \in DOMAIN events
          /\ s \in DOMAIN events => v.events[s] = events[s]
      BY <1>6, <1>7, <1>9, <1>10, <2>2
    <3>2. /\ s \in DOMAIN w.events <=> s \in DOMAIN v.events
          /\ s \in DOMAIN v.events => w.events[s] = v.events[s]
      <4>1. CASE c.type # "card"
        BY <1>5, <4>1
      <4>2. CASE c.type = "card"
        BY <1>5, <2>2, <4>2 DEF IsCardOf
      <4>. QED  BY <4>1, <4>2
    <3>. QED  BY <3>1, <3>2
  <2>. QED  BY <2>1, <2>2
<1>11. ASSUME \A j \in after : changes[j].type \notin {"reset", "run"}
       PROVE  w.run = run
  <2>1. CASE c.type \in {"reset", "run"}
    BY <1>5, <1>8, <1>11, <2>1
  <2>2. CASE c.type \notin {"reset", "run"}
    BY <1>5, <1>6, <1>7, <1>9, <1>11, <2>2
  <2>. QED  BY <2>1, <2>2
<1>12. c.type = "orchestration" => w.orchestration = c.data
  BY <1>2, <1>5, <1>6, <1>7, <1>9
<1>13. c.type # "orchestration" => w.orchestration = v.orchestration
  BY <1>5
<1>14. ASSUME \A j \in after : changes[j].type # "orchestration"
       PROVE  w.orchestration = orchestration
  <2>1. CASE c.type = "orchestration"
    BY <1>8, <1>12, <1>14, <2>1
  <2>2. CASE c.type # "orchestration"
    BY <1>6, <1>7, <1>9, <1>13, <1>14, <2>2
  <2>. QED  BY <2>1, <2>2
<1>15. ASSUME NEW j \in after, changes[j].type = "orchestration"
       PROVE  w.orchestration < changes[j].data
  <2>1. CASE c.type = "orchestration"
    BY <1>8, <1>12, <1>15, <2>1
  <2>2. CASE c.type # "orchestration"
    BY <1>7, <1>13, <1>15, <2>2
  <2>. QED  BY <2>1, <2>2
<1>16. Lacks(w)
  BY <1>6, <1>10, <1>11, <1>14, <1>15 DEF Lacks
<1>. QED  BY <1>9, <1>16 DEF w

\* A step of the page leaves the observer alone; what it knows does not grow.
LEMMA PageStays ==
  ASSUME ViewerInv, UNCHANGED vars, \A c \in Known' : c \in Known
  PROVE  /\ KnownInv'
         /\ \A v : ViewInv(v) => ViewInv(v)'
         /\ ~closed' => NewestIsTrue'
         /\ \A v : ~closed' /\ Lacks(v) => Lacks(v)'
<1>1. /\ closed' = closed /\ run' = run /\ orchestration' = orchestration
      /\ events' = events /\ changes' = changes /\ cursor' = cursor /\ pc' = pc
  BY DEF vars, observer, cards, feed, threads
<1>2. KnownInv /\ (~closed => NewestIsTrue)
  BY DEF ViewerInv, PageInv, Exact
<1>3. KnownInv'
  BY <1>1, <1>2 DEF KnownInv
<1>4. ASSUME NEW v, ViewInv(v)
      PROVE  ViewInv(v)'
  <2>1. IsView(v)'
    BY <1>1, <1>4 DEF ViewInv, IsView
  <2>. QED  BY <1>1, <1>4, <2>1 DEF ViewInv
<1>5. ~closed' => NewestIsTrue'
  BY <1>1, <1>2 DEF NewestIsTrue
<1>6. ASSUME NEW v, Lacks(v)
      PROVE  Lacks(v)'
  BY <1>1, <1>6 DEF Lacks
<1>. QED  BY <1>3, <1>4, <1>5, <1>6

\* The page asks for a snapshot.
LEMMA FetchStep ==
  ASSUME ViewerInv, Fetch
  PROVE  PageInv'
<1>1. /\ UNCHANGED vars /\ view' = view /\ inflight' = inflight /\ pulled' = pulled
      /\ losses' = losses /\ conn = "idle" /\ conn' = "fetching" /\ reply' = Snapshot
      /\ changes' = changes /\ cursor' = cursor
  BY DEF Fetch, vars, observer, feed
<1>2. ObserverInv /\ Connected /\ ViewInv(view) /\ (~closed => Lacks(view))
  BY DEF ViewerInv, PageInv, Exact
<1>3. \A c \in Known' : c \in Known
  BY <1>1 DEF Known
<1>4. /\ KnownInv'
      /\ \A v : ViewInv(v) => ViewInv(v)'
      /\ ~closed' => NewestIsTrue'
      /\ \A v : ~closed' /\ Lacks(v) => Lacks(v)'
  BY <1>1, <1>3, PageStays
<1>5. ViewInv(Snapshot)
  <2>1. Snapshot.run = run /\ Snapshot.orchestration = orchestration
        /\ Snapshot.events = events /\ Snapshot.cursor = cursor /\ IsRecord(Snapshot)
    BY DEF Snapshot, IsRecord
  <2>2. IsView(Snapshot)
    BY <1>2, <2>1 DEF IsView, ObserverInv, Types
  <2>3. cursor = 0 => Snapshot = NothingSeen
    BY <1>2 DEF Snapshot, NothingSeen, ObserverInv, Quiet
  <2>4. ASSUME NEW s \in DOMAIN events
        PROVE  pc[s] \notin Opening /\ events[s].revision <= events[s].revision
    <3>1. s \in Spans /\ events[s].revision \in Nat
      BY <1>2 DEF ObserverInv, Types, IsEvents, Cards
    <3>. QED  BY <1>2, <3>1 DEF ObserverInv, Evidence, SpanInv
  <2>5. ASSUME NEW c \in Known, c.cursor > cursor
        PROVE  FALSE
    <3>1. c.cursor \in Nat /\ c.cursor <= cursor /\ cursor \in Nat
      BY <1>2, KnownChanges DEF ViewerInv, PageInv, KnownInv, ObserverInv, Types
    <3>. QED  BY <2>5, <3>1
  <2>. QED  BY <2>1, <2>2, <2>3, <2>4, <2>5 DEF ViewInv
<1>6. ~closed => Lacks(Snapshot)
  <2>1. Snapshot.run = run /\ Snapshot.orchestration = orchestration
        /\ Snapshot.events = events /\ Snapshot.cursor = cursor
    BY DEF Snapshot
  <2>2. ~closed => Len(changes) = cursor /\ cursor \in Nat
    BY <1>2 DEF ObserverInv, Types, Numbered
  <2>3. ~closed => \A j \in cursor + 1 .. Len(changes) : FALSE
    BY <2>2
  <2>. QED  BY <2>1, <2>3 DEF Lacks
<1>7. Connected'
  BY <1>1, <1>2 DEF Connected
<1>8. Flows'
  BY <1>1 DEF Flows
<1>9. ViewInv(view)' /\ (~closed' => Lacks(view)')
  <2>1. closed' = closed
    BY <1>1 DEF vars, observer
  <2>. QED  BY <1>1, <1>2, <1>4, <2>1
<1>10. ViewInv(reply)' /\ (~closed' => Lacks(reply)')
  <2>1. closed' = closed
    BY <1>1 DEF vars, observer
  <2>. QED  BY <1>1, <1>4, <1>5, <1>6, <2>1
<1>. QED  BY <1>4, <1>7, <1>8, <1>9, <1>10 DEF PageInv, Exact

\* The page shows the snapshot, and opens the stream at its cursor.
LEMMA LoadStep ==
  ASSUME ViewerInv, Load
  PROVE  PageInv' /\ view = NothingSeen
<1>1. /\ UNCHANGED vars /\ inflight' = inflight /\ losses' = losses /\ reply' = reply
      /\ conn = "fetching" /\ conn' = "streaming" /\ pulled' = reply.cursor
      /\ view' = WithSnapshot(view, reply)
      /\ changes' = changes /\ cursor' = cursor /\ closed' = closed
  BY DEF Load, vars, observer, feed
<1>2. /\ ObserverInv /\ Connected /\ ViewInv(reply) /\ (~closed => Lacks(reply))
      /\ view = NothingSeen /\ inflight = <<>>
  BY <1>1 DEF ViewerInv, PageInv, Exact, Connected
<1>3. /\ IsRecord(reply) /\ reply.cursor \in Nat /\ reply.cursor <= cursor /\ cursor \in Nat
  BY <1>2, ViewFacts
<1>4. view' = reply
  <2>1. NothingSeen.cursor = 0 /\ NothingSeen.orchestration = 0
    BY DEF NothingSeen
  <2>2. ~(reply.cursor < NothingSeen.cursor)
    BY <1>3, <2>1
  <2>3. WithSnapshot(NothingSeen, reply) = [reply EXCEPT !.orchestration = reply.orchestration]
    BY <2>1, <2>2 DEF WithSnapshot
  <2>4. [reply EXCEPT !.orchestration = reply.orchestration] = reply
    BY <1>3 DEF IsRecord
  <2>. QED  BY <1>1, <1>2, <2>3, <2>4
<1>5. \A c \in Known' : c \in Known
  BY <1>1 DEF Known
<1>6. /\ KnownInv'
      /\ \A v : ViewInv(v) => ViewInv(v)'
      /\ ~closed' => NewestIsTrue'
      /\ \A v : ~closed' /\ Lacks(v) => Lacks(v)'
  BY <1>1, <1>5, PageStays
<1>7. ViewInv(reply)' /\ (~closed' => Lacks(reply)')
  BY <1>1, <1>2, <1>6
<1>8. ViewInv(view)' /\ (~closed' => Lacks(view)')
  BY <1>1, <1>2, <1>4, <1>6
<1>9. Connected'
  BY <1>1, <1>2, <1>3 DEF Connected
<1>10. Flows'
  <2>1. Len(inflight') = 0 /\ DOMAIN inflight' = {}
    BY <1>1, <1>2
  <2>. QED  BY <1>1, <1>3, <1>4, <2>1 DEF Flows
<1>. QED  BY <1>2, <1>6, <1>7, <1>8, <1>9, <1>10 DEF PageInv, Exact

\* wait_after: the newer changes are the end of the feed.
LEMMA WaitAfterIsEnd ==
  ASSUME ObserverInv, NEW n \in Nat
  PROVE  \E k \in 0..Len(changes) :
           /\ WaitAfter(n) = SubSeq(changes, k + 1, Len(changes))
           /\ \A i \in DOMAIN changes : changes[i].cursor > n <=> i > k
<1>1. /\ cursor \in Nat /\ Len(changes) \in Nat /\ Len(changes) <= cursor
      /\ DOMAIN changes = 1..Len(changes)
      /\ \A i \in DOMAIN changes : changes[i].cursor = cursor - Len(changes) + i
  BY DEF ObserverInv, Types, Numbered
<1> DEFINE dropped == cursor - Len(changes)
           IsSeen(k) == \A i \in DOMAIN changes : changes[i].cursor > n <=> i > k
<1>2. \E k \in 0..Len(changes) : IsSeen(k)
  <2>1. CASE n <= dropped
    <3>1. IsSeen(0)
      BY <1>1, <2>1
    <3>. QED  BY <1>1, <3>1
  <2>2. CASE n > cursor
    <3>1. IsSeen(Len(changes))
      BY <1>1, <2>2
    <3>2. Len(changes) \in 0..Len(changes)
      BY <1>1
    <3>. HIDE DEF IsSeen
    <3>. QED  BY <3>1, <3>2
  <2>3. CASE n > dropped /\ n <= cursor
    <3>1. IsSeen(n - dropped) /\ n - dropped \in 0..Len(changes)
      BY <1>1, <2>3
    <3>. QED  BY <3>1
  <2>. QED  BY <1>1, <2>1, <2>2, <2>3
<1> DEFINE seen == CHOOSE k \in 0..Len(changes) : IsSeen(k)
<1>3. seen \in 0..Len(changes) /\ IsSeen(seen)
  BY <1>2
<1>4. WaitAfter(n) = SubSeq(changes, seen + 1, Len(changes))
  BY DEF WaitAfter
<1>. QED  BY <1>3, <1>4

\* The event stream takes the newer changes.
LEMMA PullStep ==
  ASSUME ViewerInv, Pull
  PROVE  PageInv'
<1>1. /\ UNCHANGED vars /\ losses' = losses /\ reply' = reply /\ view' = view
      /\ conn = "streaming" /\ conn' = "streaming"
      /\ WaitAfter(pulled) # <<>>
      /\ inflight' = inflight \o WaitAfter(pulled)
      /\ pulled' = changes[Len(changes)].cursor
      /\ changes' = changes /\ cursor' = cursor /\ closed' = closed
  BY DEF Pull, vars, observer, feed
<1>2. /\ ObserverInv /\ Connected /\ ViewInv(reply) /\ ViewInv(view)
      /\ (~closed => Lacks(reply) /\ Lacks(view) /\ Flows)
  BY DEF ViewerInv, PageInv, Exact
<1>3. /\ cursor \in Nat /\ Len(changes) \in Nat /\ Len(changes) <= cursor
      /\ ~closed => Len(changes) = cursor
  BY <1>2 DEF ObserverInv, Types, Numbered
<1>17. /\ changes \in Seq(Changes) /\ DOMAIN changes = 1..Len(changes)
       /\ \A i \in DOMAIN changes : changes[i].cursor = cursor - Len(changes) + i
  BY <1>2 DEF ObserverInv, Types, Numbered
<1>18. inflight \in Seq(Changes)
  BY <1>2 DEF Connected
<1>19. pulled \in 0..cursor
  BY <1>2 DEF Connected
<1>20. Len(inflight) \in Nat /\ DOMAIN inflight = 1..Len(inflight)
  BY <1>18
<1>4. pulled \in Nat /\ pulled <= cursor /\ inflight \in Seq(Changes) /\ Len(inflight) \in Nat
  BY <1>3, <1>18, <1>19, <1>20
<1>5. PICK k \in 0..Len(changes) :
        /\ WaitAfter(pulled) = SubSeq(changes, k + 1, Len(changes))
        /\ \A i \in DOMAIN changes : changes[i].cursor > pulled <=> i > k
  BY <1>2, <1>4, WaitAfterIsEnd
<1> DEFINE new == SubSeq(changes, k + 1, Len(changes))
<1>6. new \in Seq(Changes) /\ Len(new) = Len(changes) - k
      /\ \A i \in 1..Len(new) : new[i] = changes[k + i]
  <2>1. k + 1 \in 1 .. Len(changes) + 1 /\ Len(changes) \in (k + 1) - 1 .. Len(changes)
    BY <1>3
  <2>2. changes \in Seq(Changes)
    BY <1>17
  <2>3. /\ new \in Seq(Changes)
        /\ Len(new) = IF k + 1 <= Len(changes) THEN Len(changes) - (k + 1) + 1 ELSE 0
        /\ \A i \in 1 .. Len(changes) - (k + 1) + 1 : new[i] = changes[k + 1 + i - 1]
    BY <2>1, <2>2, SubSeqProperties
  <2>. HIDE DEF new
  <2>4. Len(new) = Len(changes) - k
    BY <1>3, <2>3
  <2>5. ASSUME NEW i \in 1..Len(new)
        PROVE  new[i] = changes[k + i]
    <3>1. i \in 1 .. Len(changes) - (k + 1) + 1
      BY <1>3, <2>4
    <3>2. new[i] = changes[k + 1 + i - 1]
      BY <2>3, <3>1
    <3>3. k + 1 + i - 1 = k + i
      BY <1>3
    <3>. QED  BY <3>2, <3>3
  <2>. QED  BY <2>3, <2>4, <2>5
<1>21. Len(new) = Len(changes) - k /\ k \in Nat /\ k <= Len(changes) /\ Len(new) \in Nat
  <2>1. k \in Nat /\ k <= Len(changes)
    BY <1>3
  <2>2. Len(new) = Len(changes) - k
    BY <1>6
  <2>. HIDE DEF new
  <2>. QED  BY <1>3, <2>1, <2>2
<1>7. new # <<>> /\ inflight' = inflight \o new
  BY <1>1, <1>5
<1>. HIDE DEF new
<1>8. k < Len(changes)
  <2>1. CASE k = Len(changes)
    <3>1. Len(new) = 0
      BY <1>3, <1>21, <2>1
    <3>2. new = <<>>
      BY <1>6, <3>1
    <3>. QED  BY <1>7, <3>2
  <2>. QED  BY <1>3, <1>21, <2>1
<1>9. /\ inflight' \in Seq(Changes) /\ Len(inflight') = Len(inflight) + Len(new)
      /\ \A i \in 1 .. Len(inflight) + Len(new) :
           inflight'[i] = IF i <= Len(inflight) THEN inflight[i] ELSE new[i - Len(inflight)]
  BY <1>4, <1>6, <1>7, ConcatProperties
<1>10. pulled' = cursor
  <2>1. Len(changes) \in DOMAIN changes
    <3>1. Len(changes) \in 1..Len(changes)
      BY <1>3, <1>8, <1>21
    <3>. QED  BY <1>17, <3>1
  <2>2. pulled' = cursor - Len(changes) + Len(changes)
    BY <1>1, <1>17, <2>1
  <2>. QED  BY <1>3, <2>2
<1>11. \A c \in Known' : c \in Known
  <2>1. ASSUME NEW i \in DOMAIN inflight'
        PROVE  inflight'[i] \in Known
    <3>1. i \in 1 .. Len(inflight) + Len(new)
      BY <1>9
    <3>2. CASE i <= Len(inflight)
      <4>1. inflight'[i] = inflight[i] /\ i \in DOMAIN inflight
        BY <1>4, <1>9, <3>1, <3>2
      <4>. QED  BY <4>1 DEF Known
    <3>3. CASE i > Len(inflight)
      <4>1. i - Len(inflight) \in 1..Len(new)
        BY <1>20, <1>21, <3>1, <3>3
      <4>5. ~(i <= Len(inflight))
        BY <1>20, <3>1, <3>3
      <4>6. inflight'[i] = new[i - Len(inflight)]
        BY <1>9, <3>1, <4>5
      <4>2. new[i - Len(inflight)] = changes[k + (i - Len(inflight))]
        BY <1>6, <4>1
      <4>3. k + (i - Len(inflight)) \in 1..Len(changes)
        BY <1>3, <1>21, <4>1
      <4>. QED  BY <1>17, <4>2, <4>3, <4>6 DEF Known
    <3>. QED  BY <1>4, <3>1, <3>2, <3>3
  <2>. QED  BY <1>1, <2>1 DEF Known
<1>12. /\ KnownInv'
       /\ \A v : ViewInv(v) => ViewInv(v)'
       /\ ~closed' => NewestIsTrue'
       /\ \A v : ~closed' /\ Lacks(v) => Lacks(v)'
  BY <1>1, <1>11, PageStays
<1>13. ViewInv(reply)' /\ (~closed' => Lacks(reply)')
  BY <1>1, <1>2, <1>12
<1>14. ViewInv(view)' /\ (~closed' => Lacks(view)')
  BY <1>1, <1>2, <1>12
<1>15. Connected'
  <2>1. inflight' \in Seq(Changes) /\ pulled' \in 0..cursor'
    BY <1>1, <1>3, <1>9, <1>10
  <2>. QED  BY <1>1, <1>2, <2>1 DEF Connected
<1>16. ASSUME ~closed
       PROVE  Flows'
  <2> DEFINE first == pulled - Len(inflight)
  <2>1. /\ first >= 0 /\ first <= view.cursor /\ view.cursor <= pulled /\ view.cursor \in Nat
        /\ \A i \in DOMAIN inflight : inflight[i] = changes[first + i]
    BY <1>1, <1>2, <1>16, ViewFacts DEF Flows
  <2>2. k = pulled
    <3>1. \A i \in 1..Len(changes) : i > pulled <=> i > k
      BY <1>3, <1>5, <1>16, <1>17
    <3>2. pulled <= Len(changes) /\ pulled \in Nat
      BY <1>3, <1>16, <1>19
    <3>3. CASE k < pulled
      <4>1. pulled \in 1..Len(changes) /\ pulled > k /\ ~(pulled > pulled)
        BY <1>3, <1>19, <1>21, <3>2, <3>3
      <4>. QED  BY <3>1, <4>1
    <3>4. CASE pulled < k
      <4>1. k \in 1..Len(changes) /\ k > pulled /\ ~(k > k)
        BY <1>3, <1>19, <1>21, <3>2, <3>4
      <4>. QED  BY <3>1, <4>1
    <3>. QED  BY <1>21, <3>2, <3>3, <3>4
  <2>3. Len(inflight') = Len(inflight) + (cursor - pulled)
    BY <1>3, <1>9, <1>16, <1>21, <2>2
  <2>4. pulled' - Len(inflight') = first
    BY <1>3, <1>10, <1>19, <1>20, <2>3
  <2>5. ASSUME NEW i \in DOMAIN inflight'
        PROVE  inflight'[i] = changes[first + i]
    <3>1. i \in 1 .. Len(inflight) + Len(new)
      BY <1>9
    <3>2. CASE i <= Len(inflight)
      <4>1. i \in 1..Len(inflight) /\ i \in DOMAIN inflight
        BY <1>9, <3>1, <3>2
      <4>. QED  BY <1>9, <2>1, <4>1
    <3>3. CASE i > Len(inflight)
      <4>1. i - Len(inflight) \in 1..Len(new)
        BY <1>20, <1>21, <3>1, <3>3
      <4>5. ~(i <= Len(inflight))
        BY <1>20, <3>1, <3>3
      <4>6. inflight'[i] = new[i - Len(inflight)]
        BY <1>9, <3>1, <4>5
      <4>2. new[i - Len(inflight)] = changes[pulled + (i - Len(inflight))]
        BY <1>6, <2>2, <4>1
      <4>3. pulled + (i - Len(inflight)) = first + i
        BY <1>4, <3>1
      <4>. QED  BY <4>2, <4>3, <4>6
    <3>. QED  BY <1>4, <3>1, <3>2, <3>3
  <2>7. view.cursor <= pulled /\ view.cursor \in Nat /\ first >= 0 /\ first <= view.cursor
    BY <2>1
  <2>6. view.cursor <= pulled' /\ first >= 0 /\ first <= view.cursor
    BY <1>3, <1>10, <1>19, <2>7
  <2>. HIDE DEF first
  <2>. QED  BY <1>1, <2>4, <2>5, <2>6 DEF Flows
<1>. QED  BY <1>1, <1>2, <1>12, <1>13, <1>14, <1>15, <1>16 DEF PageInv, Exact

\* The page applies the first change on its way.
LEMMA DeliverStep ==
  ASSUME ViewerInv, Deliver
  PROVE  PageInv' /\ (view' = view \/ NotBack(view, view'))
<1> DEFINE c == Head(inflight)
<1>1. /\ UNCHANGED vars /\ losses' = losses /\ reply' = reply /\ pulled' = pulled
      /\ conn' = conn /\ inflight # <<>> /\ inflight' = Tail(inflight)
      /\ view' = WithChange(view, c)
      /\ changes' = changes /\ cursor' = cursor /\ closed' = closed
  BY DEF Deliver, vars, observer, feed
<1>2. /\ ObserverInv /\ Connected /\ KnownInv /\ ViewInv(reply) /\ ViewInv(view)
      /\ (~closed => Lacks(reply) /\ Lacks(view) /\ Flows /\ NewestIsTrue)
      /\ conn = "streaming"
  BY <1>1 DEF ViewerInv, PageInv, Exact, Connected
<1>3. inflight \in Seq(Changes) /\ Len(inflight) \in Nat /\ DOMAIN inflight = 1..Len(inflight)
  BY <1>2 DEF Connected
<1>4. /\ c = inflight[1] /\ 1 \in DOMAIN inflight /\ Len(inflight) >= 1
      /\ inflight' \in Seq(Changes) /\ Len(inflight') = Len(inflight) - 1
      /\ \A i \in 1..Len(inflight') : inflight'[i] = inflight[i + 1]
  BY <1>1, <1>3
<1>5. c \in Known
  BY <1>4 DEF Known
<1>. HIDE DEF c
<1>6. \A d \in Known' : d \in Known
  <2>1. ASSUME NEW i \in DOMAIN inflight'
        PROVE  inflight'[i] \in Known
    <3>1. i \in 1..Len(inflight') /\ i + 1 \in DOMAIN inflight
      <4>1. i \in 1..Len(inflight')
        BY <1>4
      <4>2. i + 1 \in 1..Len(inflight)
        BY <1>3, <1>4, <4>1
      <4>. QED  BY <1>3, <4>1, <4>2
    <3>2. inflight'[i] = inflight[i + 1]
      BY <1>4, <3>1
    <3>. QED  BY <3>1, <3>2 DEF Known
  <2>. QED  BY <1>1, <2>1 DEF Known
<1>7. /\ KnownInv'
      /\ \A v : ViewInv(v) => ViewInv(v)'
      /\ ~closed' => NewestIsTrue'
      /\ \A v : ~closed' /\ Lacks(v) => Lacks(v)'
  BY <1>1, <1>6, PageStays
<1>8. ViewInv(reply)' /\ (~closed' => Lacks(reply)')
  BY <1>1, <1>2, <1>7
<1>9. Connected'
  BY <1>1, <1>2, <1>4 DEF Connected
<1>10. c.cursor \in Nat /\ view.cursor \in Nat /\ cursor \in Nat /\ view.cursor <= cursor
  BY <1>2, <1>5, KnownChanges, ViewFacts
<1>11. ASSUME ~closed
       PROVE  LET first == pulled - Len(inflight)
              IN  /\ first \in Nat /\ first <= view.cursor /\ view.cursor <= pulled
                  /\ \A i \in DOMAIN inflight : inflight[i] = changes[first + i]
                  /\ first + 1 \in DOMAIN changes /\ c = changes[first + 1]
                  /\ c.cursor = first + 1
  <2> DEFINE first == pulled - Len(inflight)
  <2>1. /\ first >= 0 /\ first <= view.cursor /\ view.cursor <= pulled
        /\ \A i \in DOMAIN inflight : inflight[i] = changes[first + i]
    BY <1>2, <1>11 DEF Flows
  <2>2. Len(changes) = cursor /\ DOMAIN changes = 1..Len(changes)
        /\ \A i \in DOMAIN changes : changes[i].cursor = cursor - Len(changes) + i
    BY <1>2, <1>11 DEF ObserverInv, Numbered
  <2>3. pulled \in 0..cursor
    BY <1>2 DEF Connected
  <2>4. first \in Nat
    <3>1. first >= 0
      BY <2>1
    <3>. QED  BY <1>3, <1>10, <2>3, <3>1
  <2>5. first + 1 \in 1..Len(changes)
    <3>1. Len(inflight) >= 1 /\ Len(changes) = cursor
      BY <1>4, <2>2
    <3>. QED  BY <1>3, <1>10, <2>3, <2>4, <3>1
  <2>6. c = changes[first + 1]
    BY <1>4, <2>1
  <2>7. c.cursor = first + 1
    <3>1. c.cursor = cursor - Len(changes) + (first + 1) /\ Len(changes) = cursor
      BY <2>2, <2>5, <2>6
    <3>. QED  BY <1>10, <2>4, <3>1
  <2>. HIDE DEF first
  <2>. QED  BY <2>1, <2>2, <2>4, <2>5, <2>6, <2>7 DEF first
<1>12. CASE c.cursor > view.cursor
  <2>1. ViewInv(WithChange(view, c)) /\ NotBack(view, WithChange(view, c))
    BY <1>2, <1>5, <1>12, ChangedView
  <2>2. ViewInv(view)' /\ NotBack(view, view')
    BY <1>1, <1>7, <2>1
  <2>3. ASSUME ~closed
        PROVE  Lacks(view)' /\ view'.cursor = view.cursor + 1
               /\ view.cursor = pulled - Len(inflight)
    <3> DEFINE first == pulled - Len(inflight)
    <3>1. /\ first \in Nat /\ first <= view.cursor
          /\ first + 1 \in DOMAIN changes /\ c = changes[first + 1] /\ c.cursor = first + 1
      BY <1>11, <2>3
    <3>2. first = view.cursor
      BY <1>10, <1>12, <3>1
    <3>3. Lacks(WithChange(view, changes[first + 1]))
      BY <1>2, <2>3, <3>1, <3>2, ChangedLacks
    <3>4. Lacks(view')
      BY <1>1, <3>1, <3>3
    <3>5. Lacks(view)'
      BY <1>1, <1>7, <2>3, <3>1, <3>3
    <3>6. view'.cursor = c.cursor
      <4>1. IsRecord(view) /\ c \in Changes
        BY <1>2, <1>5, ViewFacts, KnownChanges
      <4>2. c.type = "reset" => view = NothingSeen
        <5>1. c.type = "reset" => c.cursor = 1
          BY <1>2, <1>5 DEF KnownInv
        <5>2. c.cursor = 1 => view.cursor = 0
          BY <1>10, <1>12
        <5>. QED  BY <1>2, <5>1, <5>2 DEF ViewInv
      <4>3. WithChange(view, c).cursor = c.cursor
        BY <1>10, <1>12, <4>1, <4>2, Reduced
      <4>. QED  BY <1>1, <4>3
    <3>. QED  BY <3>1, <3>2, <3>5, <3>6
  <2>4. ~closed => Flows'
    <3>. SUFFICES ASSUME ~closed PROVE Flows'
      OBVIOUS
    <3> DEFINE first == pulled - Len(inflight)
    <3>1. /\ first \in Nat /\ first <= view.cursor
          /\ \A i \in DOMAIN inflight : inflight[i] = changes[first + i]
      BY <1>11
    <3>2. view'.cursor = view.cursor + 1 /\ view.cursor = first
      BY <2>3
    <3>3. pulled \in 0..cursor
      BY <1>2 DEF Connected
    <3>4. Len(inflight) >= 1 /\ Len(inflight') = Len(inflight) - 1
      BY <1>4
    <3>5. pulled' - Len(inflight') = first + 1 /\ view'.cursor <= pulled'
      BY <1>1, <1>3, <1>10, <3>2, <3>3, <3>4
    <3>6. ASSUME NEW i \in DOMAIN inflight'
          PROVE  inflight'[i] = changes[first + 1 + i]
      <4>1. i \in 1..Len(inflight')
        BY <1>4
      <4>2. i + 1 \in DOMAIN inflight
        BY <1>3, <3>4, <4>1
      <4>3. inflight'[i] = changes[first + (i + 1)]
        BY <1>4, <3>1, <4>1, <4>2
      <4>4. first + (i + 1) = first + 1 + i
        BY <3>1, <4>1
      <4>. QED  BY <4>3, <4>4
    <3>. HIDE DEF first
    <3>. QED  BY <1>1, <3>1, <3>2, <3>5, <3>6 DEF Flows
  <2>. QED  BY <1>1, <1>2, <1>7, <1>8, <1>9, <2>2, <2>3, <2>4 DEF PageInv, Exact
<1>13. CASE ~(c.cursor > view.cursor)
  <2>1. view' = view
    <3>1. c.cursor <= view.cursor
      BY <1>10, <1>13
    <3>. QED  BY <1>1, <1>13, <3>1 DEF WithChange
  <2>2. ViewInv(view)' /\ (~closed' => Lacks(view)')
    BY <1>1, <1>2, <1>7, <2>1
  <2>3. ~closed => Flows'
    <3>. SUFFICES ASSUME ~closed PROVE Flows'
      OBVIOUS
    <3> DEFINE first == pulled - Len(inflight)
    <3>1. /\ first \in Nat /\ first <= view.cursor /\ view.cursor <= pulled
          /\ \A i \in DOMAIN inflight : inflight[i] = changes[first + i]
          /\ c.cursor = first + 1
      BY <1>11
    <3>3. pulled \in 0..cursor
      BY <1>2 DEF Connected
    <3>4. Len(inflight) >= 1 /\ Len(inflight') = Len(inflight) - 1
      BY <1>4
    <3>5. pulled' - Len(inflight') = first + 1
      BY <1>1, <1>3, <1>10, <3>3, <3>4
    <3>6. ASSUME NEW i \in DOMAIN inflight'
          PROVE  inflight'[i] = changes[first + 1 + i]
      <4>1. i \in 1..Len(inflight')
        BY <1>4
      <4>2. i + 1 \in DOMAIN inflight
        BY <1>3, <3>4, <4>1
      <4>3. inflight'[i] = changes[first + (i + 1)]
        BY <1>4, <3>1, <4>1, <4>2
      <4>4. first + (i + 1) = first + 1 + i
        BY <3>1, <4>1
      <4>. QED  BY <4>3, <4>4
    <3>7. first + 1 <= view.cursor /\ view.cursor <= pulled'
      <4>1. first \in Nat /\ c.cursor = first + 1 /\ view.cursor <= pulled
        BY <3>1
      <4>. QED  BY <1>1, <1>10, <1>13, <4>1
    <3>8. first + 1 >= 0
      BY <3>1
    <3>. HIDE DEF first
    <3>. QED  BY <1>1, <2>1, <3>5, <3>6, <3>7, <3>8 DEF Flows
  <2>. QED  BY <1>1, <1>2, <1>7, <1>8, <1>9, <2>1, <2>2, <2>3 DEF PageInv, Exact
<1>. QED  BY <1>12, <1>13

\* A new connection goes on after what the page shows.
LEMMA LoseConnectionStep ==
  ASSUME ViewerInv, LoseConnection
  PROVE  PageInv' /\ view' = view
<1>1. /\ UNCHANGED vars /\ losses' = losses + 1 /\ losses < MaxLosses
      /\ reply' = reply /\ view' = view
      /\ pulled' = view.cursor /\ conn = "streaming" /\ conn' = conn /\ inflight' = <<>>
      /\ changes' = changes /\ cursor' = cursor /\ closed' = closed
  BY DEF LoseConnection, vars, observer, feed
<1>2. /\ ObserverInv /\ Connected /\ ViewInv(reply) /\ ViewInv(view)
      /\ (~closed => Lacks(reply) /\ Lacks(view))
  BY DEF ViewerInv, PageInv, Exact
<1>3. \A d \in Known' : d \in Known
  BY <1>1 DEF Known
<1>4. /\ KnownInv'
      /\ \A v : ViewInv(v) => ViewInv(v)'
      /\ ~closed' => NewestIsTrue'
      /\ \A v : ~closed' /\ Lacks(v) => Lacks(v)'
  BY <1>1, <1>3, PageStays
<1>5. ViewInv(reply)' /\ ViewInv(view)' /\ (~closed' => Lacks(reply)' /\ Lacks(view)')
  BY <1>1, <1>2, <1>4
<1>6. view.cursor \in Nat /\ view.cursor <= cursor /\ cursor \in Nat
  BY <1>2, ViewFacts
<1>7. losses' \in 0..MaxLosses /\ pulled' \in 0..cursor'
  <2>1. losses \in 0..MaxLosses
    BY <1>2 DEF Connected
  <2>. QED  BY <1>1, <1>6, <2>1, ViewerAssumption
<1>8. Connected'
  BY <1>1, <1>2, <1>7 DEF Connected
<1>9. Flows'
  <2>1. Len(inflight') = 0 /\ DOMAIN inflight' = {}
    BY <1>1
  <2>. QED  BY <1>1, <1>6, <2>1 DEF Flows
<1>. QED  BY <1>1, <1>4, <1>5, <1>8, <1>9 DEF PageInv, Exact

-----------------------------------------------------------------------------
(* The specification.                                                      *)

LEMMA ObserverStarts ==
  ASSUME Init
  PROVE  ObserverInv
<1>1. Types
  <2>1. \A s \in Spans : "idle" \in Places
    BY DEF Places, Opening
  <2>2. IsEvents(events)
    BY NoCards DEF Init
  <2>3. pc \in [Spans -> Places] /\ copy \in [Spans -> Cards \cup {NoCopy}]
    BY <2>1 DEF Init
  <2>4. written \in [Spans -> SUBSET Parts] /\ eventOrder \in Seq(Spans)
    BY DEF Init
  <2>5. run \in Runs /\ orchestration \in 0..MaxRevision /\ nextOrder \in Nat /\ cursor \in Nat
    <3>1. run = "none" /\ orchestration = 0 /\ nextOrder = 0 /\ cursor = 0
      BY DEF Init
    <3>. QED  BY <3>1, ObserverAssumption DEF Runs
  <2>6. closed \in BOOLEAN
    BY Zenon DEF Init
  <2>. QED  BY <2>2, <2>3, <2>4, <2>5, <2>6 DEF Types
<1>2. Listed
  BY NoCards DEF Init, Listed
<1>3. Numbered
  BY DEF Init, Numbered
<1>4. Quiet
  BY DEF Init, Quiet
<1>5. Evidence
  BY NoCards DEF Init, Evidence, SpanInv, Opening, Updating
<1>. QED  BY <1>1, <1>2, <1>3, <1>4, <1>5 DEF ObserverInv

LEMMA ViewerStarts ==
  ASSUME ViewerInit
  PROVE  ViewerInv
<1>1. /\ changes = <<>> /\ inflight = <<>> /\ view = NothingSeen /\ reply = NothingSeen
      /\ events = NoEvents /\ run = "none" /\ orchestration = 0 /\ cursor = 0
      /\ pulled = 0 /\ losses = 0 /\ conn \in {"none", "idle"}
  BY DEF ViewerInit, Init
<1>2. ObserverInv
  BY ObserverStarts DEF ViewerInit
<1>3. KnownInv
  BY <1>1 DEF KnownInv, Known
<1>4. /\ NothingSeen.run = "none" /\ NothingSeen.orchestration = 0
      /\ NothingSeen.events = NoEvents /\ NothingSeen.cursor = 0
      /\ IsRecord(NothingSeen)
  BY DEF NothingSeen, IsRecord
<1>5. ViewInv(NothingSeen)
  <2>1. IsView(NothingSeen)
    BY <1>1, <1>4, NoCards, ObserverAssumption DEF IsView, Runs
  <2>. QED  BY <1>4, <2>1, NoCards DEF ViewInv
<1>6. Connected
  BY <1>1, ViewerAssumption DEF Connected
<1>7. Lacks(NothingSeen)
  BY <1>1, <1>4, NoCards DEF Lacks
<1>8. NewestIsTrue
  BY <1>1 DEF NewestIsTrue
<1>9. Flows
  BY <1>1 DEF Flows
<1>. QED  BY <1>1, <1>2, <1>3, <1>5, <1>6, <1>7, <1>8, <1>9 DEF ViewerInv, PageInv, Exact

\* One step of the observer or of the page.
LEMMA ViewerSteps ==
  ASSUME ViewerInv, [ViewerNext]_viewerVars
  PROVE  ViewerInv'
<1>1. ObserverInv
  BY DEF ViewerInv
<1>2. CASE ObserverStep \/ UNCHANGED viewerVars
  <2>1. [Next]_vars /\ UNCHANGED browser
    BY <1>2 DEF ObserverStep, viewerVars
  <2>2. Grown \/ (ObserverInv' /\ (Begins \/ Closes))
    BY <1>1, <2>1, ObserverSteps
  <2>. QED  BY <2>1, <2>2, PageGrows, PageBegins, PageCloses DEF ViewerInv, Grown
<1>3. CASE Fetch \/ Load \/ Pull \/ Deliver \/ LoseConnection
  <2>1. UNCHANGED vars
    BY <1>3 DEF Fetch, Load, Pull, Deliver, LoseConnection
  <2>2. Grown \/ (ObserverInv' /\ (Begins \/ Closes))
    BY <1>1, <2>1, ObserverSteps
  <2>3. PageInv'
    BY <1>3, FetchStep, LoadStep, PullStep, DeliverStep, LoseConnectionStep
  <2>. QED  BY <2>2, <2>3 DEF ViewerInv, Grown
<1>. QED  BY <1>2, <1>3 DEF ViewerNext

\* What the observer keeps does not depend on who looks.
THEOREM ObserverKeepsInv == Spec => []ObserverInv
<1>1. Init => ObserverInv
  BY ObserverStarts
<1>2. ObserverInv /\ [Next]_vars => ObserverInv'
  BY ObserverSteps DEF Grown
<1>. QED  BY <1>1, <1>2, PTL DEF Spec

\* The inductive invariant of the run and its page.
THEOREM ViewerKeepsInv == ViewerSpec => []ViewerInv
<1>1. ViewerInit => ViewerInv
  BY ViewerStarts
<1>2. ViewerInv /\ [ViewerNext]_viewerVars => ViewerInv'
  BY ViewerSteps
<1>. QED  BY <1>1, <1>2, PTL DEF ViewerSpec

\* Types: the feed is numbered without a gap, and the cards are listed once each
\* (LiveRunObserver's fields).
THEOREM ObserverTypeCorrect == Spec => []TypeOK
<1>1. ObserverInv => TypeOK
  BY DEF ObserverInv, Types, Listed, Numbered, TypeOK
<1>. QED  BY <1>1, ObserverKeepsInv, PTL

\* Types of the page: the changes on their way are numbered without a gap up to the
\* stream's cursor (the event stream of ui/server.py).
THEOREM ViewerTypeCorrect == ViewerSpec => []ViewTypeOK
<1>1. ASSUME ViewerInv PROVE ViewTypeOK
  <2>1. /\ ObserverInv /\ Connected /\ ViewInv(view) /\ ViewInv(reply)
        /\ ~closed => Flows
    BY <1>1 DEF ViewerInv, PageInv, Exact
  <2>2. IsView(view) /\ IsView(reply)
    BY <2>1 DEF ViewInv
  <2>3. ASSUME ~closed, NEW i \in DOMAIN inflight
        PROVE  inflight[i].cursor = pulled - Len(inflight) + i
    <3>1. /\ inflight \in Seq(Changes) /\ Len(inflight) \in Nat /\ i \in 1..Len(inflight)
      BY <2>1, <2>3 DEF Connected
    <3>2. conn = "streaming"
      BY <2>1, <3>1 DEF Connected
    <3>3. /\ pulled - Len(inflight) >= 0
          /\ inflight[i] = changes[pulled - Len(inflight) + i]
      BY <2>1, <2>3, <3>2 DEF Flows
    <3>4. /\ cursor \in Nat /\ Len(changes) = cursor /\ DOMAIN changes = 1..cursor
          /\ \A j \in DOMAIN changes : changes[j].cursor = cursor - Len(changes) + j
      BY <2>1, <2>3 DEF ObserverInv, Types, Numbered
    <3>5. pulled \in 0..cursor
      BY <2>1 DEF Connected
    <3> DEFINE j == pulled - Len(inflight) + i
    <3>6. j \in 1..cursor
      BY <3>1, <3>3, <3>4, <3>5
    <3>7. changes[j].cursor = cursor - cursor + j
      BY <3>4, <3>6
    <3>. QED  BY <3>3, <3>4, <3>6, <3>7
  <2>. QED  BY <2>1, <2>2, <2>3 DEF Connected, ViewTypeOK
<1>. QED  BY <1>1, ViewerKeepsInv, PTL

\* No update loses what a span wrote to its card before (_update_event takes the
\* detail from a copy, while the run may be interrupted or the App closed).
THEOREM EvidenceKept == Spec => []EvidenceIsKept
<1>1. ASSUME ObserverInv, NEW s \in DOMAIN events, pc[s] \notin {"active", "ordered"}
      PROVE  written[s] \subseteq events[s].detail
  <2>1. s \in Spans
    BY <1>1 DEF ObserverInv, Types, IsEvents
  <2>. QED  BY <1>1, <2>1 DEF ObserverInv, Evidence, SpanInv
<1>2. ObserverInv => EvidenceIsKept
  BY <1>1 DEF EvidenceIsKept
<1>. QED  BY <1>2, ObserverKeepsInv, PTL

\* A span that has returned leaves a card that ended (mark_ok and LiveSpan.finish
\* keep the status they find in their copy).
THEOREM CardsHaveEnded == Spec => []CardsEnd
<1>1. ASSUME ObserverInv, NEW s \in DOMAIN events, pc[s] = "done"
      PROVE  events[s].ended /\ events[s].status # "running"
  <2>1. s \in Spans
    BY <1>1 DEF ObserverInv, Types, IsEvents
  <2>. QED  BY <1>1, <2>1 DEF ObserverInv, Evidence, SpanInv
<1>2. ObserverInv => CardsEnd
  BY <1>1 DEF CardsEnd
<1>. QED  BY <1>2, ObserverKeepsInv, PTL

\* A page that has applied the newest change shows what a page loaded now would show
\* (snapshot, wait_after, the stream's cursor and the page's reducer), however many
\* connections it lost.
THEOREM CaughtUpExact == ViewerSpec => []CaughtUpIsExact
<1>1. ASSUME ViewerInv, ~closed, view.cursor = cursor
      PROVE  view = Snapshot
  <2>1. ObserverInv /\ ViewInv(view) /\ Lacks(view)
    BY <1>1 DEF ViewerInv, PageInv, Exact
  <2>2. cursor \in Nat /\ Len(changes) = cursor
    BY <1>1, <2>1 DEF ObserverInv, Types, Numbered
  <2>3. view.cursor + 1 .. Len(changes) = {}
    BY <1>1, <2>2
  <2>4. /\ view.run = run /\ view.orchestration = orchestration
        /\ \A s \in Spans : /\ s \in DOMAIN view.events <=> s \in DOMAIN events
                            /\ s \in DOMAIN events => view.events[s] = events[s]
    BY <2>1, <2>3 DEF Lacks
  <2>5. IsEvents(view.events) /\ IsEvents(events)
    BY <2>1 DEF ViewInv, IsView, ObserverInv, Types
  <2>6. view.events = events
    BY <2>4, <2>5 DEF IsEvents
  <2>. QED  BY <1>1, <2>1, <2>4, <2>6 DEF ViewInv, IsRecord, Snapshot
<1>2. ViewerInv => CaughtUpIsExact
  BY <1>1 DEF CaughtUpIsExact
<1>. QED  BY <1>2, ViewerKeepsInv, PTL

\* A page never goes back (the reducer's cursors, after connections that were lost
\* and snapshots that were slow).
THEOREM NeverGoesBack == ViewerSpec => ViewNeverGoesBack
<1> DEFINE Forward == NotBack(view, view')
<1>1. ASSUME ViewerInv, ViewerInv', view' = view
      PROVE  Forward
  <2>1. view.cursor \in Nat /\ view.orchestration \in Nat
    BY <1>1, ViewFacts DEF ViewerInv, PageInv
  <2>. QED  BY <1>1, <2>1 DEF NotBack
<1>2. ASSUME ViewerInv, ViewerInv', view = NothingSeen
      PROVE  Forward
  <2>1. ViewInv(view)' /\ ObserverInv'
    BY <1>2 DEF ViewerInv, PageInv
  <2>2. IsView(view)' /\ cursor' \in Nat /\ MaxRevision \in Nat
    BY <2>1, ObserverAssumption DEF ViewInv, ObserverInv, Types
  <2>3. view'.cursor \in Nat /\ view'.orchestration \in Nat
    BY <2>2 DEF IsView
  <2>4. view.cursor = 0 /\ view.orchestration = 0 /\ DOMAIN view.events = {}
    BY <1>2, NoCards DEF NothingSeen
  <2>. QED  BY <2>3, <2>4 DEF NotBack
<1>3. ASSUME ViewerInv, ViewerInv', [ViewerNext]_viewerVars
      PROVE  Forward
  <2>1. CASE ObserverStep \/ Fetch \/ Pull \/ LoseConnection \/ UNCHANGED viewerVars
    <3>1. view' = view
      BY <2>1 DEF ObserverStep, Fetch, Pull, LoseConnection, viewerVars, browser
    <3>. QED  BY <1>1, <1>3, <3>1
  <2>2. CASE Load
    BY <1>2, <1>3, <2>2, LoadStep
  <2>3. CASE Deliver
    BY <1>1, <1>3, <2>3, DeliverStep
  <2>. QED  BY <1>3, <2>1, <2>2, <2>3 DEF ViewerNext
<1>4. Forward => [ /\ view'.cursor >= view.cursor
                   /\ view'.orchestration >= view.orchestration
                   /\ \A s \in DOMAIN view.events :
                        /\ s \in DOMAIN view'.events
                        /\ \/ view'.events[s] = view.events[s]
                           \/ view'.events[s].revision > view.events[s].revision ]_viewerVars
  BY DEF NotBack
<1>. QED  BY <1>3, <1>4, ViewerKeepsInv, PTL DEF ViewerSpec, ViewNeverGoesBack
=============================================================================
