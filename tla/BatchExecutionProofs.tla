------------------------- MODULE BatchExecutionProofs -------------------------
(***************************************************************************)
(* What holds of the verdicts on a target's answers for any number of      *)
(* Batches, HTTP Tool calls and requests, whatever is lost on the way,     *)
(* proved with TLAPS.                                                      *)
(***************************************************************************)
EXTENDS BatchExecution, FiniteSetTheorems, WellFoundedInduction, TLAPS

-----------------------------------------------------------------------------
(* The inductive invariant.                                                *)

Places == {"idle", "sent", "received", "recorded", "processed", "lost", "replay_lost",
           "returned", "done"}
Unsettled == {"sent", "received", "recorded", "lost", "replay_lost"}
Over == {"returned", "done", "idle"}

Call ==
  [number : 0..MaxCalls, validity : {"valid", "invalid", "unstated"}, exchanges : Nat,
   replay : BOOLEAN, status : Statuses \cup {"none"}, large : BOOLEAN, id : Ids \cup {NoId},
   directive : BOOLEAN, primary : Ids \cup {NoId}, reasons : SUBSET Reasons,
   first : Statuses \cup {"none"}, outcome : Statuses \cup {"none", "no_response", "response_too_large"},
   details : BOOLEAN, bug : {"none", "clean", "bug"}, report : {"none", "clean", "bug"}]

CallTypes ==
  /\ pc \in [Callers -> Places]
  /\ call \in [Callers -> Call]
  /\ \A c \in Callers : pc[c] # "idle" => call[c].number \in 1..MaxCalls

\* The identity the current request of c gives to a row.
Own(c, kind) == <<c, call[c].number, kind>>

\* A row is written once, by its caller, for a request that was sent; that of a
\* Replay names the Primary of the same request.
RowsAreOwned ==
  /\ \A o \in observations : \E c \in Callers : \E n \in 1..call[c].number :
       \/ o.id = <<c, n, "primary">> /\ o.of = NoId
       \/ o.id = <<c, n, "replay">> /\ o.of = <<c, n, "primary">>
  /\ \A o1, o2 \in observations : o1.id = o2.id => o1 = o2

AssessmentsAreOwned ==
  /\ assessments \in [DOMAIN assessments -> [replay : Ids \cup {NoId}, verdict : Verdicts]]
  /\ \A p \in DOMAIN assessments : \E c \in Callers : \E n \in 1..call[c].number :
       p = <<c, n, "primary">>

\* The row a caller is about to write is not there yet.
RowsAreNew(c) ==
  /\ pc[c] \in {"sent", "received", "lost"} => Row(FreshId(c)) = {}
  /\ ~call[c].replay => Row(Own(c, "replay")) = {}

\* What a send returns is what it got first.
AnswerStands(c) ==
  /\ ~call[c].replay /\ pc[c] \in {"sent", "lost"} => call[c].first = "none"
  /\ ~call[c].replay /\ pc[c] \in {"received", "recorded", "processed"} =>
       call[c].first = call[c].status /\ call[c].first \in Statuses
  /\ call[c].replay => call[c].first \in Statuses /\ call[c].outcome = call[c].first
  /\ pc[c] \in {"returned", "done"} =>
       call[c].outcome \in
         IF call[c].first = "none" THEN {"no_response"}
         ELSE {call[c].first} \cup (IF c \in Tools THEN {"response_too_large"} ELSE {})

\* A Replay is asked for once, by a Primary with reasons, and every such Primary is
\* repeated unless its body was refused.
ReplayIsAsked(c) ==
  /\ call[c].exchanges = IF call[c].replay THEN 2 ELSE 1
  /\ call[c].replay => call[c].reasons # {} /\ call[c].details
  /\ call[c].directive <=> ~call[c].replay /\ call[c].reasons # {}
  /\ call[c].directive /\ pc[c] \in Over => c \in Tools
  /\ pc[c] = "replay_lost" => call[c].replay
  /\ ~call[c].details => call[c].reasons = {} /\ call[c].primary = NoId
  /\ ~call[c].replay /\ pc[c] \in Unsettled => ~call[c].details
  /\ call[c].details => call[c].reasons = ReasonsFor(call[c].first, call[c].validity)

\* The identities a caller holds are those of rows that say what it saw.
EvidenceIsHeld(c) ==
  /\ call[c].primary # NoId =>
       /\ call[c].primary = Own(c, "primary")
       /\ \E o \in Row(call[c].primary) :
            o.kind = "http" /\ o.of = NoId /\ o.reasons = call[c].reasons
  /\ pc[c] \in {"received", "lost"} => call[c].id = NoId
  /\ pc[c] = "recorded" /\ call[c].id # NoId =>
       /\ call[c].id = FreshId(c)
       /\ \E o \in Row(call[c].id) :
            /\ o.kind = "http" /\ o.reasons = ReasonsFor(call[c].status, call[c].validity)
            /\ o.of = IF call[c].replay THEN call[c].primary ELSE NoId
  /\ pc[c] = "replay_lost" /\ call[c].id # NoId =>
       \E o \in Row(call[c].id) : o.kind = "transport" /\ o.of = call[c].primary

\* A verdict is reached at the end only, and the caller's and the stored one agree.
VerdictIsHeld(c) ==
  /\ pc[c] \in Unsettled \/ call[c].directive =>
       Own(c, "primary") \notin DOMAIN assessments /\ call[c].bug = "none"
  /\ call[c].bug = "bug" =>
       call[c].replay /\ ReasonsFor(call[c].status, call[c].validity) = call[c].reasons
  /\ Own(c, "primary") \in DOMAIN assessments =>
       LET reproduced == assessments[Own(c, "primary")].verdict = "reproduced"
       IN  /\ call[c].primary = Own(c, "primary")
           /\ call[c].bug # "none" => (call[c].bug = "bug" <=> reproduced)
           /\ reproduced =>
                call[c].replay /\ ReasonsFor(call[c].status, call[c].validity) = call[c].reasons

\* What a Batch case reported is what the rows say.
ReportIsHeld(c) ==
  /\ pc[c] \notin {"done", "idle"} => call[c].report = "none"
  /\ c \in Batches /\ pc[c] = "done" /\ call[c].report # "none" =>
       /\ call[c].report = "bug" =>
            call[c].replay /\ ReasonsFor(call[c].status, call[c].validity) = call[c].reasons
       /\ call[c].primary \in DOMAIN assessments =>
            (call[c].report = "bug" <=> assessments[call[c].primary].verdict = "reproduced")

Stands(c) ==
  RowsAreNew(c) /\ AnswerStands(c) /\ ReplayIsAsked(c) /\ EvidenceIsHeld(c) /\ VerdictIsHeld(c)
  /\ ReportIsHeld(c)

OracleInv ==
  /\ CallTypes /\ RowsAreOwned /\ AssessmentsAreOwned /\ VerdictsMatchEvidence
  /\ \A c \in Callers : Stands(c)

-----------------------------------------------------------------------------
(* Lemmas about the steps of one caller.                                   *)

\* What a step of c may do to what others rely on: c's own place and call change,
\* rows are added with c's identities, and only c's Primary may get a verdict.
Frame(c) ==
  /\ pc' = [pc EXCEPT ![c] = pc'[c]] /\ pc'[c] \in Places
  /\ call' = [call EXCEPT ![c] = call'[c]] /\ call'[c] \in Call
  /\ call'[c].number \in {call[c].number, call[c].number + 1}
  /\ pc'[c] # "idle" => call'[c].number \in 1..MaxCalls
  /\ observations \subseteq observations'
  /\ \A o \in observations' \ observations : \E n, kind : o.id = <<c, n, kind>>
  /\ DOMAIN assessments \subseteq DOMAIN assessments'
  /\ \A p \in DOMAIN assessments : assessments'[p] = assessments[p]
  /\ \A p \in DOMAIN assessments' \ DOMAIN assessments :
       \E n \in 1..MaxCalls : n = call[c].number /\ p = <<c, n, "primary">>

LEMMA AssessedIds ==
  ASSUME CallTypes, AssessmentsAreOwned
  PROVE  NoId \notin DOMAIN assessments
PROOF
<1>1. \A p \in DOMAIN assessments : p \in Ids
  <2> SUFFICES ASSUME NEW p \in DOMAIN assessments PROVE p \in Ids
    OBVIOUS
  <2>1. PICK c \in Callers : \E n \in 1..call[c].number : p = <<c, n, "primary">>
    BY DEF AssessmentsAreOwned
  <2>2. call[c].number \in 0..MaxCalls
    BY DEF CallTypes, Call
  <2>3. PICK n \in 1..MaxCalls : p = <<c, n, "primary">>
    BY <2>1, <2>2, CallersAssumption
  <2> QED
    BY <2>3 DEF Ids
<1> QED
  BY <1>1, CallersAssumption DEF Ids, Callers

LEMMA OthersStand ==
  ASSUME OracleInv, NEW c \in Callers, Frame(c), NEW d \in Callers, d # c
  PROVE  Stands(d)'
PROOF
<1>1. call'[d] = call[d] /\ pc'[d] = pc[d] /\ Stands(d)
  BY DEF OracleInv, Frame, CallTypes
<1>2. \A n, kind : Row(<<d, n, kind>>)' = Row(<<d, n, kind>>)
  BY DEF Frame, Row
<1>3. \A n, kind : /\ <<d, n, kind>> \in DOMAIN assessments' <=> <<d, n, kind>> \in DOMAIN assessments
                   /\ <<d, n, kind>> \in DOMAIN assessments =>
                        assessments'[<<d, n, kind>>] = assessments[<<d, n, kind>>]
  BY DEF Frame
<1>4. \A id : Row(id) \subseteq Row(id)'
  BY DEF Frame, Row
<1>5. RowsAreNew(d)'
  BY <1>1, <1>2 DEF Stands, RowsAreNew, FreshId, Own
<1>6. AnswerStands(d)'
  BY <1>1 DEF Stands, AnswerStands
<1>7. ReplayIsAsked(d)'
  BY <1>1 DEF Stands, ReplayIsAsked
<1>8. EvidenceIsHeld(d)'
  BY <1>1, <1>4 DEF Stands, EvidenceIsHeld, Own, FreshId
<1>9. VerdictIsHeld(d)'
  BY <1>1, <1>3 DEF Stands, VerdictIsHeld, Own
<1>10. ReportIsHeld(d)'
  <2>1. call[d].primary = NoId \/ call[d].primary = Own(d, "primary")
    BY <1>1 DEF Stands, EvidenceIsHeld
  <2>2. NoId \notin DOMAIN assessments'
    <3>1. NoId \notin DOMAIN assessments
      BY AssessedIds DEF OracleInv
    <3>2. \A n \in 1..MaxCalls : <<c, n, "primary">> \in Ids
      BY DEF Ids
    <3> QED
      BY <3>1, <3>2, CallersAssumption DEF Frame, Ids, Callers
  <2> QED
    BY <1>1, <1>3, <2>1, <2>2 DEF Stands, ReportIsHeld, Own
<1> QED
  BY <1>5, <1>6, <1>7, <1>8, <1>9, <1>10 DEF Stands

\* The tables stay sound when none of them is written.
LEMMA QuietTables ==
  ASSUME OracleInv, NEW c \in Callers, Frame(c), UNCHANGED <<observations, assessments>>
  PROVE  CallTypes' /\ RowsAreOwned' /\ AssessmentsAreOwned' /\ VerdictsMatchEvidence'
PROOF
<1>1. CallTypes'
  BY DEF OracleInv, CallTypes, Frame
<1>2. \A d \in Callers : call[d].number \in Nat /\ call'[d].number \in Nat /\ call[d].number <= call'[d].number
  BY CallersAssumption DEF OracleInv, CallTypes, Frame, Call
<1>3. RowsAreOwned'
  <2>1. \A d \in Callers : 1..call[d].number \subseteq 1..call'[d].number
    BY <1>2
  <2> QED
    BY <2>1 DEF OracleInv, RowsAreOwned
<1>4. AssessmentsAreOwned'
  <2>1. \A d \in Callers : 1..call[d].number \subseteq 1..call'[d].number
    BY <1>2
  <2> QED
    BY <2>1 DEF OracleInv, AssessmentsAreOwned
<1>5. VerdictsMatchEvidence'
  BY DEF OracleInv, VerdictsMatchEvidence, Row
<1> QED
  BY <1>1, <1>3, <1>4, <1>5

\* A step that gives c a new place and call and leaves the tables alone.
LEMMA QuietFrame ==
  ASSUME OracleInv, NEW c \in Callers, NEW k \in Call, NEW q \in Places,
         call' = [call EXCEPT ![c] = k], pc' = [pc EXCEPT ![c] = q],
         k.number \in {call[c].number, call[c].number + 1},
         q # "idle" => k.number \in 1..MaxCalls,
         UNCHANGED <<observations, assessments>>
  PROVE  Frame(c) /\ call'[c] = k /\ pc'[c] = q
PROOF
<1>1. call'[c] = k /\ pc'[c] = q
  BY DEF OracleInv, CallTypes
<1>2. observations' \ observations = {} /\ DOMAIN assessments' \ DOMAIN assessments = {}
  OBVIOUS
<1>3. /\ observations \subseteq observations' /\ DOMAIN assessments \subseteq DOMAIN assessments'
      /\ \A p \in DOMAIN assessments : assessments'[p] = assessments[p]
  OBVIOUS
<1> QED
  BY <1>1, <1>2, <1>3 DEF Frame

\* A new request has identities of its own.
LEMMA SendStep ==
  ASSUME OracleInv, NEW c \in Callers, NEW v \in Validities(c), Send(c, v)
  PROVE  Frame(c) /\ Stands(c)' /\ UNCHANGED <<observations, assessments>>
PROOF
<1>1. /\ call' = [call EXCEPT ![c] = NewCall(call[c].number + 1, v)]
      /\ pc' = [pc EXCEPT ![c] = "sent"]
      /\ UNCHANGED <<observations, assessments>>
      /\ call[c].number < MaxCalls
  BY DEF Send
<1>2. call[c].number \in 0..MaxCalls /\ call[c].number + 1 \in 1..MaxCalls
  BY <1>1, CallersAssumption DEF OracleInv, CallTypes, Call
<1>3. call'[c] = NewCall(call[c].number + 1, v) /\ pc'[c] = "sent"
  BY <1>1 DEF OracleInv, CallTypes
<1>4. NewCall(call[c].number + 1, v) \in Call
  BY <1>2 DEF NewCall, Call, Validities, Statuses
<1>5. Frame(c)
  <2>1. NewCall(call[c].number + 1, v).number = call[c].number + 1 /\ "sent" \in Places
    BY DEF NewCall, Places
  <2> QED
    BY <1>1, <1>2, <1>4, <2>1, QuietFrame
<1>6. /\ Row(<<c, call[c].number + 1, "primary">>) = {}
      /\ Row(<<c, call[c].number + 1, "replay">>) = {}
  BY <1>2 DEF OracleInv, RowsAreOwned, Row
<1>7. <<c, call[c].number + 1, "primary">> \notin DOMAIN assessments
  BY <1>2 DEF OracleInv, AssessmentsAreOwned
<1>8. RowsAreNew(c)'
  BY <1>1, <1>3, <1>6 DEF RowsAreNew, FreshId, Own, NewCall, Row
<1>9. AnswerStands(c)' /\ ReplayIsAsked(c)' /\ EvidenceIsHeld(c)' /\ ReportIsHeld(c)'
  BY <1>3 DEF AnswerStands, ReplayIsAsked, EvidenceIsHeld, ReportIsHeld, NewCall
<1>10. VerdictIsHeld(c)'
  BY <1>1, <1>3, <1>7 DEF VerdictIsHeld, NewCall, Own
<1> QED
  BY <1>1, <1>5, <1>8, <1>9, <1>10 DEF Stands

\* The fields of a call.
LEMMA CallFields ==
  ASSUME NEW k \in Call
  PROVE  DOMAIN k = {"number", "validity", "exchanges", "replay", "status", "large", "id", "directive",
                     "primary", "reasons", "first", "outcome", "details", "bug", "report"}
PROOF
<1> QED
  BY DEF Call

\* The target answers: what a Replay gets is not what the caller will get.
LEMMA ReceiveStep ==
  ASSUME OracleInv, NEW c \in Callers, NEW s \in Statuses, NEW large \in BOOLEAN,
         Receive(c, s, large)
  PROVE  Frame(c) /\ Stands(c)' /\ UNCHANGED <<observations, assessments>>
PROOF
<1> DEFINE k == [call[c] EXCEPT !.status = s, !.large = large, !.id = NoId,
                             !.first = IF call[c].replay THEN @ ELSE s]
<1>1. call[c] \in Call /\ pc \in [Callers -> Places] /\ call \in [Callers -> Call] /\ Stands(c)
  BY DEF OracleInv, CallTypes
<1>2. /\ call' = [call EXCEPT ![c] = k] /\ pc' = [pc EXCEPT ![c] = "received"]
      /\ UNCHANGED <<observations, assessments>>
  BY <1>1 DEF Receive, Call
<1>3. k \in Call
  <2>1. (IF call[c].replay THEN call[c].first ELSE s) \in Statuses \cup {"none"}
    BY <1>1 DEF Call
  <2>2. \A x \in Statuses \cup {"none"} :
          [call[c] EXCEPT !.status = s, !.large = large, !.id = NoId, !.first = x] \in Call
    BY <1>1 DEF Call
  <2> QED
    BY <2>1, <2>2
<1>4. /\ k.status = s
      /\ k.large = large
      /\ k.id = NoId
      /\ k.first = IF call[c].replay THEN call[c].first ELSE s
      /\ k.number = call[c].number /\ k.validity = call[c].validity /\ k.exchanges = call[c].exchanges
      /\ k.replay = call[c].replay /\ k.directive = call[c].directive /\ k.primary = call[c].primary
      /\ k.reasons = call[c].reasons /\ k.outcome = call[c].outcome /\ k.details = call[c].details
      /\ k.bug = call[c].bug /\ k.report = call[c].report
  BY <1>1, CallFields
<1> HIDE DEF k
<1>5. pc[c] # "idle" /\ "received" \in Places
  BY DEF Receive, Places
<1>6. call[c].number \in 1..MaxCalls
  BY <1>5 DEF OracleInv, CallTypes
<1>7. Frame(c) /\ call'[c] = k /\ pc'[c] = "received"
  BY <1>2, <1>3, <1>4, <1>5, <1>6, QuietFrame
<1>8. RowsAreNew(c)'
  BY <1>1, <1>2, <1>4, <1>7 DEF Stands, RowsAreNew, FreshId, Own, Row, Receive
<1>9. AnswerStands(c)'
  BY <1>1, <1>2, <1>4, <1>7 DEF Stands, AnswerStands, Receive
<1>10. ReplayIsAsked(c)'
  BY <1>1, <1>2, <1>4, <1>7 DEF Stands, ReplayIsAsked, Unsettled, Over, Receive
<1>11. EvidenceIsHeld(c)'
  BY <1>1, <1>2, <1>4, <1>7 DEF Stands, EvidenceIsHeld, Own, FreshId, Row, Receive
<1>12. VerdictIsHeld(c)'
  BY <1>1, <1>2, <1>4, <1>7 DEF Stands, VerdictIsHeld, Own, Unsettled, Receive
<1>13. ReportIsHeld(c)'
  BY <1>1, <1>2, <1>4, <1>7 DEF Stands, ReportIsHeld, Receive
<1> QED
  BY <1>2, <1>7, <1>8, <1>9, <1>10, <1>11, <1>12, <1>13 DEF Stands

\* The exchange is lost.
LEMMA LoseStep ==
  ASSUME OracleInv, NEW c \in Callers, Lose(c)
  PROVE  Frame(c) /\ Stands(c)' /\ UNCHANGED <<observations, assessments>>
PROOF
<1> DEFINE k == [call[c] EXCEPT !.status = "none", !.large = FALSE, !.id = NoId]
<1>1. call[c] \in Call /\ pc \in [Callers -> Places] /\ call \in [Callers -> Call] /\ Stands(c)
  BY DEF OracleInv, CallTypes
<1>2. /\ call' = [call EXCEPT ![c] = k] /\ pc' = [pc EXCEPT ![c] = "lost"]
      /\ UNCHANGED <<observations, assessments>>
  BY <1>1 DEF Lose, Call
<1>3. k \in Call
  BY <1>1 DEF Call, Statuses
<1>4. /\ k.status = "none"
      /\ k.large = FALSE
      /\ k.id = NoId
      /\ k.number = call[c].number /\ k.validity = call[c].validity /\ k.exchanges = call[c].exchanges
      /\ k.replay = call[c].replay /\ k.directive = call[c].directive /\ k.primary = call[c].primary
      /\ k.reasons = call[c].reasons /\ k.first = call[c].first /\ k.outcome = call[c].outcome
      /\ k.details = call[c].details /\ k.bug = call[c].bug /\ k.report = call[c].report
  BY <1>1, CallFields
<1> HIDE DEF k
<1>5. pc[c] # "idle" /\ "lost" \in Places
  BY DEF Lose, Places
<1>6. call[c].number \in 1..MaxCalls
  BY <1>5 DEF OracleInv, CallTypes
<1>7. Frame(c) /\ call'[c] = k /\ pc'[c] = "lost"
  BY <1>2, <1>3, <1>4, <1>5, <1>6, QuietFrame
<1>8. RowsAreNew(c)'
  BY <1>1, <1>2, <1>4, <1>7 DEF Stands, RowsAreNew, FreshId, Own, Row, Lose
<1>9. AnswerStands(c)'
  BY <1>1, <1>2, <1>4, <1>7 DEF Stands, AnswerStands, Lose
<1>10. ReplayIsAsked(c)'
  BY <1>1, <1>2, <1>4, <1>7 DEF Stands, ReplayIsAsked, Unsettled, Over, Lose
<1>11. EvidenceIsHeld(c)'
  BY <1>1, <1>2, <1>4, <1>7 DEF Stands, EvidenceIsHeld, Own, FreshId, Row, Lose
<1>12. VerdictIsHeld(c)'
  BY <1>1, <1>2, <1>4, <1>7 DEF Stands, VerdictIsHeld, Own, Unsettled, Lose
<1>13. ReportIsHeld(c)'
  BY <1>1, <1>2, <1>4, <1>7 DEF Stands, ReportIsHeld, Lose
<1> QED
  BY <1>2, <1>7, <1>8, <1>9, <1>10, <1>11, <1>12, <1>13 DEF Stands

\* Nothing is recorded, and there is no verdict.
LEMMA ObserveFailsStep ==
  ASSUME OracleInv, NEW c \in Callers, ObserveFails(c)
  PROVE  Frame(c) /\ Stands(c)' /\ UNCHANGED <<observations, assessments>>
PROOF
<1> DEFINE k == [call[c] EXCEPT !.directive = FALSE, !.bug = "none"]
<1>1. call[c] \in Call /\ pc \in [Callers -> Places] /\ call \in [Callers -> Call] /\ Stands(c)
  BY DEF OracleInv, CallTypes
<1>2. /\ call' = [call EXCEPT ![c] = k] /\ pc' = [pc EXCEPT ![c] = "processed"]
      /\ UNCHANGED <<observations, assessments>>
  BY <1>1 DEF ObserveFails, Call
<1>3. k \in Call
  BY <1>1 DEF Call
<1>4. /\ k.directive = FALSE
      /\ k.bug = "none"
      /\ k.number = call[c].number /\ k.validity = call[c].validity /\ k.exchanges = call[c].exchanges
      /\ k.replay = call[c].replay /\ k.status = call[c].status /\ k.large = call[c].large
      /\ k.id = call[c].id /\ k.primary = call[c].primary /\ k.reasons = call[c].reasons
      /\ k.first = call[c].first /\ k.outcome = call[c].outcome /\ k.details = call[c].details
      /\ k.report = call[c].report
  BY <1>1, CallFields
<1> HIDE DEF k
<1>5. pc[c] # "idle" /\ "processed" \in Places
  BY DEF ObserveFails, Places
<1>6. call[c].number \in 1..MaxCalls
  BY <1>5 DEF OracleInv, CallTypes
<1>7. Frame(c) /\ call'[c] = k /\ pc'[c] = "processed"
  BY <1>2, <1>3, <1>4, <1>5, <1>6, QuietFrame
<1>8. RowsAreNew(c)'
  BY <1>1, <1>2, <1>4, <1>7 DEF Stands, RowsAreNew, FreshId, Own, Row, ObserveFails
<1>9. AnswerStands(c)'
  BY <1>1, <1>2, <1>4, <1>7 DEF Stands, AnswerStands, ObserveFails
<1>10. ReplayIsAsked(c)'
  BY <1>1, <1>2, <1>4, <1>7 DEF Stands, ReplayIsAsked, Unsettled, Over, ObserveFails
<1>11. EvidenceIsHeld(c)'
  BY <1>1, <1>2, <1>4, <1>7 DEF Stands, EvidenceIsHeld, Own, FreshId, Row, ObserveFails
<1>12. VerdictIsHeld(c)'
  BY <1>1, <1>2, <1>4, <1>7 DEF Stands, VerdictIsHeld, Own, Unsettled, ObserveFails
<1>13. ReportIsHeld(c)'
  BY <1>1, <1>2, <1>4, <1>7 DEF Stands, ReportIsHeld, ObserveFails
<1> QED
  BY <1>2, <1>7, <1>8, <1>9, <1>10, <1>11, <1>12, <1>13 DEF Stands

\* An oversized Primary of the Tool ends with its directive unused.
LEMMA RefuseStep ==
  ASSUME OracleInv, NEW c \in Callers, RefuseLargePrimary(c)
  PROVE  Frame(c) /\ Stands(c)' /\ UNCHANGED <<observations, assessments>>
PROOF
<1> DEFINE k == [call[c] EXCEPT !.outcome = "response_too_large"]
<1>1. call[c] \in Call /\ pc \in [Callers -> Places] /\ call \in [Callers -> Call] /\ Stands(c)
  BY DEF OracleInv, CallTypes
<1>2. /\ call' = [call EXCEPT ![c] = k] /\ pc' = [pc EXCEPT ![c] = "returned"]
      /\ UNCHANGED <<observations, assessments>>
  BY <1>1 DEF RefuseLargePrimary, Call
<1>3. k \in Call
  BY <1>1 DEF Call, Statuses
<1>4. /\ k.outcome = "response_too_large"
      /\ k.number = call[c].number /\ k.validity = call[c].validity /\ k.exchanges = call[c].exchanges
      /\ k.replay = call[c].replay /\ k.status = call[c].status /\ k.large = call[c].large
      /\ k.id = call[c].id /\ k.directive = call[c].directive /\ k.primary = call[c].primary
      /\ k.reasons = call[c].reasons /\ k.first = call[c].first /\ k.details = call[c].details
      /\ k.bug = call[c].bug /\ k.report = call[c].report
  BY <1>1, CallFields
<1> HIDE DEF k
<1>5. pc[c] # "idle" /\ "returned" \in Places
  BY DEF RefuseLargePrimary, Places
<1>6. call[c].number \in 1..MaxCalls
  BY <1>5 DEF OracleInv, CallTypes
<1>7. Frame(c) /\ call'[c] = k /\ pc'[c] = "returned"
  BY <1>2, <1>3, <1>4, <1>5, <1>6, QuietFrame
<1>8. RowsAreNew(c)'
  BY <1>1, <1>2, <1>4, <1>7 DEF Stands, RowsAreNew, FreshId, Own, Row, RefuseLargePrimary
<1>9. AnswerStands(c)'
  BY <1>1, <1>2, <1>4, <1>7 DEF Stands, AnswerStands, RefuseLargePrimary, Oversized, Statuses
<1>10. ReplayIsAsked(c)'
  BY <1>1, <1>2, <1>4, <1>7 DEF Stands, ReplayIsAsked, Unsettled, Over, RefuseLargePrimary, Oversized
<1>11. EvidenceIsHeld(c)'
  BY <1>1, <1>2, <1>4, <1>7 DEF Stands, EvidenceIsHeld, Own, FreshId, Row, RefuseLargePrimary
<1>12. VerdictIsHeld(c)'
  BY <1>1, <1>2, <1>4, <1>7 DEF Stands, VerdictIsHeld, Own, Unsettled, RefuseLargePrimary
<1>13. ReportIsHeld(c)'
  BY <1>1, <1>2, <1>4, <1>7 DEF Stands, ReportIsHeld, RefuseLargePrimary
<1> QED
  BY <1>2, <1>7, <1>8, <1>9, <1>10, <1>11, <1>12, <1>13 DEF Stands

\* The directive is used up by the Replay.
LEMMA StartReplayStep ==
  ASSUME OracleInv, NEW c \in Callers, StartReplay(c)
  PROVE  Frame(c) /\ Stands(c)' /\ UNCHANGED <<observations, assessments>>
PROOF
<1> DEFINE k == [call[c] EXCEPT !.outcome = call[c].status, !.replay = TRUE,
                             !.directive = FALSE, !.exchanges = @ + 1]
<1>1. call[c] \in Call /\ pc \in [Callers -> Places] /\ call \in [Callers -> Call] /\ Stands(c)
  BY DEF OracleInv, CallTypes
<1>2. /\ call' = [call EXCEPT ![c] = k] /\ pc' = [pc EXCEPT ![c] = "sent"]
      /\ UNCHANGED <<observations, assessments>>
  BY <1>1 DEF StartReplay, Call
<1>3. k \in Call
  <2>1. call[c].exchanges + 1 \in Nat
        /\ call[c].status \in Statuses \cup {"none", "no_response", "response_too_large"}
    BY <1>1 DEF Call
  <2>2. \A n \in Nat, s \in Statuses \cup {"none", "no_response", "response_too_large"} :
          [call[c] EXCEPT !.outcome = s, !.replay = TRUE, !.directive = FALSE, !.exchanges = n] \in Call
    BY <1>1 DEF Call
  <2> QED
    BY <2>1, <2>2
<1>4. /\ k.outcome = call[c].status
      /\ k.replay = TRUE
      /\ k.directive = FALSE
      /\ k.exchanges = call[c].exchanges + 1
      /\ k.number = call[c].number /\ k.validity = call[c].validity /\ k.status = call[c].status
      /\ k.large = call[c].large /\ k.id = call[c].id /\ k.primary = call[c].primary
      /\ k.reasons = call[c].reasons /\ k.first = call[c].first /\ k.details = call[c].details
      /\ k.bug = call[c].bug /\ k.report = call[c].report
  BY <1>1, CallFields
<1> HIDE DEF k
<1>5. pc[c] # "idle" /\ "sent" \in Places
  BY DEF StartReplay, Places
<1>6. call[c].number \in 1..MaxCalls
  BY <1>5 DEF OracleInv, CallTypes
<1>7. Frame(c) /\ call'[c] = k /\ pc'[c] = "sent"
  BY <1>2, <1>3, <1>4, <1>5, <1>6, QuietFrame
<1>8. RowsAreNew(c)'
  BY <1>1, <1>2, <1>4, <1>7 DEF Stands, RowsAreNew, ReplayIsAsked, FreshId, Own, Row, StartReplay
<1>9. AnswerStands(c)'
  BY <1>1, <1>2, <1>4, <1>7 DEF Stands, AnswerStands, ReplayIsAsked, StartReplay
<1>10. ReplayIsAsked(c)'
  BY <1>1, <1>2, <1>4, <1>7 DEF Stands, ReplayIsAsked, Unsettled, Over, StartReplay
<1>11. EvidenceIsHeld(c)'
  BY <1>1, <1>2, <1>4, <1>7 DEF Stands, EvidenceIsHeld, Own, FreshId, Row, StartReplay
<1>12. VerdictIsHeld(c)'
  BY <1>1, <1>2, <1>4, <1>7 DEF Stands, VerdictIsHeld, Own, Unsettled, StartReplay
<1>13. ReportIsHeld(c)'
  BY <1>1, <1>2, <1>4, <1>7 DEF Stands, ReportIsHeld, StartReplay
<1> QED
  BY <1>2, <1>7, <1>8, <1>9, <1>10, <1>11, <1>12, <1>13 DEF Stands

\* send returns.
LEMMA ReturnStep ==
  ASSUME OracleInv, NEW c \in Callers, Return(c)
  PROVE  Frame(c) /\ Stands(c)' /\ UNCHANGED <<observations, assessments>>
PROOF
<1> DEFINE k == [call[c] EXCEPT !.outcome = IF call[c].replay THEN @ ELSE call[c].status]
<1>1. call[c] \in Call /\ pc \in [Callers -> Places] /\ call \in [Callers -> Call] /\ Stands(c)
  BY DEF OracleInv, CallTypes
<1>2. /\ call' = [call EXCEPT ![c] = k] /\ pc' = [pc EXCEPT ![c] = "returned"]
      /\ UNCHANGED <<observations, assessments>>
  BY <1>1 DEF Return, Call
<1>3. k \in Call
  BY <1>1 DEF Call, Statuses
<1>4. /\ k.outcome = IF call[c].replay THEN call[c].outcome ELSE call[c].status
      /\ k.number = call[c].number /\ k.validity = call[c].validity /\ k.exchanges = call[c].exchanges
      /\ k.replay = call[c].replay /\ k.status = call[c].status /\ k.large = call[c].large
      /\ k.id = call[c].id /\ k.directive = call[c].directive /\ k.primary = call[c].primary
      /\ k.reasons = call[c].reasons /\ k.first = call[c].first /\ k.details = call[c].details
      /\ k.bug = call[c].bug /\ k.report = call[c].report
  BY <1>1, CallFields
<1> HIDE DEF k
<1>5. pc[c] # "idle" /\ "returned" \in Places
  BY DEF Return, Places
<1>6. call[c].number \in 1..MaxCalls
  BY <1>5 DEF OracleInv, CallTypes
<1>7. Frame(c) /\ call'[c] = k /\ pc'[c] = "returned"
  BY <1>2, <1>3, <1>4, <1>5, <1>6, QuietFrame
<1>8. RowsAreNew(c)'
  BY <1>1, <1>2, <1>4, <1>7 DEF Stands, RowsAreNew, FreshId, Own, Row, Return
<1>9. AnswerStands(c)'
  <2>1. CASE call[c].replay
    BY <1>1, <1>4, <1>7, <2>1 DEF Stands, AnswerStands, Statuses
  <2>2. CASE ~call[c].replay
    BY <1>1, <1>4, <1>7, <2>2 DEF Stands, AnswerStands, Statuses, Return
  <2> QED
    BY <2>1, <2>2
<1>10. ReplayIsAsked(c)'
  BY <1>1, <1>2, <1>4, <1>7 DEF Stands, ReplayIsAsked, Unsettled, Over, Return
<1>11. EvidenceIsHeld(c)'
  BY <1>1, <1>2, <1>4, <1>7 DEF Stands, EvidenceIsHeld, Own, FreshId, Row, Return
<1>12. VerdictIsHeld(c)'
  BY <1>1, <1>2, <1>4, <1>7 DEF Stands, VerdictIsHeld, Own, Unsettled, Return
<1>13. ReportIsHeld(c)'
  BY <1>1, <1>2, <1>4, <1>7 DEF Stands, ReportIsHeld, Return
<1> QED
  BY <1>2, <1>7, <1>8, <1>9, <1>10, <1>11, <1>12, <1>13 DEF Stands

\* A lost exchange of an unknown operation ends unrecorded.
LEMMA LostUnobservedStep ==
  ASSUME OracleInv, NEW c \in Callers, ObserveLostFails(c)
  PROVE  Frame(c) /\ Stands(c)' /\ UNCHANGED <<observations, assessments>>
PROOF
<1> DEFINE k == [call[c] EXCEPT !.outcome = IF call[c].replay THEN @ ELSE "no_response"]
<1>1. call[c] \in Call /\ pc \in [Callers -> Places] /\ call \in [Callers -> Call] /\ Stands(c)
  BY DEF OracleInv, CallTypes
<1>2. /\ call' = [call EXCEPT ![c] = k] /\ pc' = [pc EXCEPT ![c] = "returned"]
      /\ UNCHANGED <<observations, assessments>>
  BY <1>1 DEF ObserveLostFails, Call
<1>3. k \in Call
  BY <1>1 DEF Call, Statuses
<1>4. /\ k.outcome = IF call[c].replay THEN call[c].outcome ELSE "no_response"
      /\ k.number = call[c].number /\ k.validity = call[c].validity /\ k.exchanges = call[c].exchanges
      /\ k.replay = call[c].replay /\ k.status = call[c].status /\ k.large = call[c].large
      /\ k.id = call[c].id /\ k.directive = call[c].directive /\ k.primary = call[c].primary
      /\ k.reasons = call[c].reasons /\ k.first = call[c].first /\ k.details = call[c].details
      /\ k.bug = call[c].bug /\ k.report = call[c].report
  BY <1>1, CallFields
<1> HIDE DEF k
<1>5. pc[c] # "idle" /\ "returned" \in Places
  BY DEF ObserveLostFails, Places
<1>6. call[c].number \in 1..MaxCalls
  BY <1>5 DEF OracleInv, CallTypes
<1>7. Frame(c) /\ call'[c] = k /\ pc'[c] = "returned"
  BY <1>2, <1>3, <1>4, <1>5, <1>6, QuietFrame
<1>8. RowsAreNew(c)'
  BY <1>1, <1>2, <1>4, <1>7 DEF Stands, RowsAreNew, FreshId, Own, Row, ObserveLostFails
<1>9. AnswerStands(c)'
  <2>1. CASE call[c].replay
    BY <1>1, <1>4, <1>7, <2>1 DEF Stands, AnswerStands, Statuses
  <2>2. CASE ~call[c].replay
    BY <1>1, <1>4, <1>7, <2>2 DEF Stands, AnswerStands, Statuses, ObserveLostFails
  <2> QED
    BY <2>1, <2>2
<1>10. ReplayIsAsked(c)'
  BY <1>1, <1>2, <1>4, <1>7 DEF Stands, ReplayIsAsked, Unsettled, Over, ObserveLostFails
<1>11. EvidenceIsHeld(c)'
  BY <1>1, <1>2, <1>4, <1>7 DEF Stands, EvidenceIsHeld, Own, FreshId, Row, ObserveLostFails
<1>12. VerdictIsHeld(c)'
  BY <1>1, <1>2, <1>4, <1>7 DEF Stands, VerdictIsHeld, Own, Unsettled, ObserveLostFails
<1>13. ReportIsHeld(c)'
  BY <1>1, <1>2, <1>4, <1>7 DEF Stands, ReportIsHeld, ObserveLostFails
<1> QED
  BY <1>2, <1>7, <1>8, <1>9, <1>10, <1>11, <1>12, <1>13 DEF Stands

\* The verdict held and the verdict stored agree, so the report agrees with both.
LEMMA ReportStep ==
  ASSUME OracleInv, NEW c \in Callers, Report(c)
  PROVE  Frame(c) /\ Stands(c)' /\ UNCHANGED <<observations, assessments>>
PROOF
<1> DEFINE k == [call[c] EXCEPT !.report = IF c \in Batches /\ call[c].outcome \in Statuses
                                       THEN BugFound(c) ELSE "none"]
<1>1. call[c] \in Call /\ pc \in [Callers -> Places] /\ call \in [Callers -> Call] /\ Stands(c)
  BY DEF OracleInv, CallTypes
<1>2. /\ call' = [call EXCEPT ![c] = k] /\ pc' = [pc EXCEPT ![c] = "done"]
      /\ UNCHANGED <<observations, assessments>>
  BY <1>1 DEF Report, Call
<1>3. k \in Call
  BY <1>1 DEF Call, BugFound
<1>4. /\ k.report = IF c \in Batches /\ call[c].outcome \in Statuses THEN BugFound(c) ELSE "none"
      /\ k.number = call[c].number /\ k.validity = call[c].validity /\ k.exchanges = call[c].exchanges
      /\ k.replay = call[c].replay /\ k.status = call[c].status /\ k.large = call[c].large
      /\ k.id = call[c].id /\ k.directive = call[c].directive /\ k.primary = call[c].primary
      /\ k.reasons = call[c].reasons /\ k.first = call[c].first /\ k.outcome = call[c].outcome
      /\ k.details = call[c].details /\ k.bug = call[c].bug
  BY <1>1, CallFields
<1> HIDE DEF k
<1>5. pc[c] # "idle" /\ "done" \in Places
  BY DEF Report, Places
<1>6. call[c].number \in 1..MaxCalls
  BY <1>5 DEF OracleInv, CallTypes
<1>7. Frame(c) /\ call'[c] = k /\ pc'[c] = "done"
  BY <1>2, <1>3, <1>4, <1>5, <1>6, QuietFrame
<1>8. RowsAreNew(c)'
  BY <1>1, <1>2, <1>4, <1>7 DEF Stands, RowsAreNew, FreshId, Own, Row, Report
<1>9. AnswerStands(c)'
  BY <1>1, <1>2, <1>4, <1>7 DEF Stands, AnswerStands, Report
<1>10. ReplayIsAsked(c)'
  BY <1>1, <1>2, <1>4, <1>7 DEF Stands, ReplayIsAsked, Unsettled, Over, Report
<1>11. EvidenceIsHeld(c)'
  BY <1>1, <1>2, <1>4, <1>7 DEF Stands, EvidenceIsHeld, Own, FreshId, Row, Report
<1>12. VerdictIsHeld(c)'
  BY <1>1, <1>2, <1>4, <1>7 DEF Stands, VerdictIsHeld, Own, Unsettled, Report
<1>13. ReportIsHeld(c)'
  <2>1. call[c].primary \in DOMAIN assessments => call[c].primary = Own(c, "primary") /\ call[c].details
    BY <1>1, AssessedIds DEF OracleInv, Stands, EvidenceIsHeld, ReplayIsAsked
  <2>2. BugFound(c) = "bug" =>
          call[c].replay /\ ReasonsFor(call[c].status, call[c].validity) = call[c].reasons
    BY <1>1, <2>1 DEF Stands, VerdictIsHeld, BugFound
  <2>3. call[c].primary \in DOMAIN assessments =>
          (BugFound(c) = "bug" <=> assessments[call[c].primary].verdict = "reproduced")
    BY <1>1, <2>1 DEF Stands, VerdictIsHeld, BugFound
  <2> QED
    BY <1>2, <1>4, <1>7, <2>2, <2>3 DEF ReportIsHeld
<1> QED
  BY <1>2, <1>7, <1>8, <1>9, <1>10, <1>11, <1>12, <1>13 DEF Stands

\* A case that is over, or that raises, changes nothing but its place.
LEMMA MoveStep ==
  ASSUME OracleInv, NEW c \in Callers, NEW q \in {"done", "idle"},
         q = "done" => pc[c] = "returned", q = "idle" => pc[c] = "done",
         pc' = [pc EXCEPT ![c] = q], UNCHANGED <<call, observations, assessments>>
  PROVE  Frame(c) /\ Stands(c)'
PROOF
<1>1. call[c] \in Call /\ pc \in [Callers -> Places] /\ call \in [Callers -> Call] /\ Stands(c)
  BY DEF OracleInv, CallTypes
<1>2. call' = [call EXCEPT ![c] = call[c]]
  BY <1>1
<1>3. pc[c] # "idle" /\ q \in Places
  BY DEF Places
<1>4. call[c].number \in 1..MaxCalls
  BY <1>3 DEF OracleInv, CallTypes
<1>5. Frame(c) /\ call'[c] = call[c] /\ pc'[c] = q
  BY <1>1, <1>2, <1>3, <1>4, QuietFrame
<1>6. RowsAreNew(c)' /\ AnswerStands(c)' /\ EvidenceIsHeld(c)'
  BY <1>1, <1>5 DEF Stands, RowsAreNew, AnswerStands, EvidenceIsHeld, FreshId, Own, Row
<1>7. ReplayIsAsked(c)' /\ VerdictIsHeld(c)' /\ ReportIsHeld(c)'
  BY <1>1, <1>5 DEF Stands, ReplayIsAsked, VerdictIsHeld, ReportIsHeld, Unsettled, Over, Own
<1> QED
  BY <1>5, <1>6, <1>7 DEF Stands

NewRow(c, kind, reasons) ==
  [id |-> FreshId(c), kind |-> kind, reasons |-> reasons,
   of |-> IF call[c].replay THEN call[c].primary ELSE NoId]

\* A step that adds a row for the current request and leaves the verdicts alone.
LEMMA InsertFrame ==
  ASSUME OracleInv, NEW c \in Callers, NEW k \in Call, NEW q \in Places, NEW kind, NEW reasons,
         call' = [call EXCEPT ![c] = k], pc' = [pc EXCEPT ![c] = q],
         k.number = call[c].number, call[c].number \in 1..MaxCalls,
         Insert(c, kind, reasons), UNCHANGED assessments
  PROVE  /\ Frame(c) /\ call'[c] = k /\ pc'[c] = q
         /\ observations' = observations \cup {NewRow(c, kind, reasons)}
         /\ FreshId(c) \in {Own(c, "primary"), Own(c, "replay")}
PROOF
<1>1. call'[c] = k /\ pc'[c] = q
  BY DEF OracleInv, CallTypes
<1>2. observations' = observations \cup {NewRow(c, kind, reasons)}
  BY DEF Insert, NewRow
<1>3. FreshId(c) \in {Own(c, "primary"), Own(c, "replay")}
  BY DEF FreshId, Own
<1>4. \A o \in observations' \ observations : \E n, x : o.id = <<c, n, x>>
  BY <1>2, <1>3 DEF NewRow, Own
<1>5. DOMAIN assessments' \ DOMAIN assessments = {} /\ DOMAIN assessments \subseteq DOMAIN assessments'
      /\ \A p \in DOMAIN assessments : assessments'[p] = assessments[p]
  OBVIOUS
<1>6. observations \subseteq observations'
  BY <1>2
<1> QED
  BY <1>1, <1>2, <1>3, <1>4, <1>5, <1>6 DEF Frame

\* The tables stay sound: the row is new, and a Replay's names its Primary.
LEMMA InsertTables ==
  ASSUME OracleInv, NEW c \in Callers, Frame(c), NEW kind, NEW reasons,
         observations' = observations \cup {NewRow(c, kind, reasons)}, UNCHANGED assessments,
         pc[c] \in {"received", "lost"}, call[c].replay => call[c].primary # NoId,
         call'[c].number = call[c].number
  PROVE  CallTypes' /\ RowsAreOwned' /\ AssessmentsAreOwned' /\ VerdictsMatchEvidence'
PROOF
<1> DEFINE new == NewRow(c, kind, reasons)
<1>1. CallTypes'
  BY DEF OracleInv, CallTypes, Frame
<1>2. call[c].number \in 1..MaxCalls /\ call[c].replay \in BOOLEAN /\ Stands(c)
  BY DEF OracleInv, CallTypes, Call
<1>3. \A d \in Callers : call'[d].number = call[d].number
  BY DEF OracleInv, CallTypes, Frame
<1>4. \/ new.id = <<c, call[c].number, "primary">> /\ new.of = NoId
      \/ new.id = <<c, call[c].number, "replay">> /\ new.of = <<c, call[c].number, "primary">>
  BY <1>2 DEF NewRow, FreshId, Stands, EvidenceIsHeld, Own
<1>5. \A o \in observations : o.id # new.id
  BY <1>2 DEF Stands, RowsAreNew, Row, NewRow
<1>6. call[c].number \in 1..call[c].number
  BY <1>2, CallersAssumption
<1> HIDE DEF new
<1>7. observations' = observations \cup {new}
  BY DEF new
<1>8. RowsAreOwned'
  <2>1. ASSUME NEW o \in observations'
        PROVE  \E d \in Callers : \E n \in 1..call'[d].number :
                 \/ o.id = <<d, n, "primary">> /\ o.of = NoId
                 \/ o.id = <<d, n, "replay">> /\ o.of = <<d, n, "primary">>
    <3>1. CASE o \in observations
      BY <1>3, <3>1 DEF OracleInv, RowsAreOwned
    <3>2. CASE o = new
      BY <1>3, <1>4, <1>6, <3>2
    <3> QED
      BY <1>7, <3>1, <3>2
  <2>2. \A o1, o2 \in observations' : o1.id = o2.id => o1 = o2
    BY <1>5, <1>7 DEF OracleInv, RowsAreOwned
  <2> QED
    BY <2>1, <2>2 DEF RowsAreOwned
<1>9. AssessmentsAreOwned'
  BY <1>3 DEF OracleInv, AssessmentsAreOwned
<1>10. VerdictsMatchEvidence'
  <2>1. \A id : Row(id) \subseteq Row(id)'
    BY <1>7 DEF Row
  <2> QED
    BY <2>1 DEF OracleInv, VerdictsMatchEvidence
<1> QED
  BY <1>1, <1>8, <1>9, <1>10

SoundTables == CallTypes /\ RowsAreOwned /\ AssessmentsAreOwned /\ VerdictsMatchEvidence

\* The row of an answer is linked to the Primary of its own request, or is missing.
LEMMA RecordStep ==
  ASSUME OracleInv, NEW c \in Callers, Record(c)
  PROVE  Frame(c) /\ Stands(c)' /\ SoundTables'
PROOF
<1>1. call[c] \in Call /\ pc \in [Callers -> Places] /\ call \in [Callers -> Call] /\ Stands(c)
  BY DEF OracleInv, CallTypes
<1>2. pc[c] = "received" /\ pc' = [pc EXCEPT ![c] = "recorded"] /\ UNCHANGED assessments
  BY DEF Record
<1>3. "recorded" \in Places /\ call[c].number \in 1..MaxCalls
  BY <1>2 DEF OracleInv, CallTypes, Places
<1>4. CASE UNCHANGED <<observations, call>>
  <2>1. call' = [call EXCEPT ![c] = call[c]]
    BY <1>1, <1>4
  <2>2. Frame(c) /\ call'[c] = call[c] /\ pc'[c] = "recorded"
    BY <1>1, <1>2, <1>3, <1>4, <2>1, QuietFrame
  <2>3. SoundTables'
    BY <1>2, <1>4, <2>2, QuietTables DEF SoundTables
  <2>4. RowsAreNew(c)' /\ AnswerStands(c)' /\ EvidenceIsHeld(c)'
    BY <1>1, <1>2, <1>4, <2>2 DEF Stands, RowsAreNew, AnswerStands, EvidenceIsHeld, FreshId, Own, Row
  <2>5. ReplayIsAsked(c)' /\ VerdictIsHeld(c)' /\ ReportIsHeld(c)'
    BY <1>1, <1>2, <1>4, <2>2
       DEF Stands, ReplayIsAsked, VerdictIsHeld, ReportIsHeld, Unsettled, Over, Own
  <2> QED
    BY <2>2, <2>3, <2>4, <2>5 DEF Stands
<1>5. CASE /\ call[c].replay => call[c].primary # NoId
           /\ Insert(c, "http", ReasonsFor(call[c].status, call[c].validity))
           /\ call' = [call EXCEPT ![c].id = FreshId(c)]
  <2> DEFINE k == [call[c] EXCEPT !.id = FreshId(c)]
             new == NewRow(c, "http", ReasonsFor(call[c].status, call[c].validity))
  <2>1. FreshId(c) \in Ids
    BY <1>1, <1>3 DEF FreshId, Ids
  <2>2. k \in Call
    BY <1>1, <2>1 DEF Call
  <2>3. /\ k.id = FreshId(c)
        /\ k.number = call[c].number /\ k.validity = call[c].validity /\ k.exchanges = call[c].exchanges
        /\ k.replay = call[c].replay /\ k.status = call[c].status /\ k.directive = call[c].directive
        /\ k.primary = call[c].primary /\ k.reasons = call[c].reasons /\ k.first = call[c].first
        /\ k.outcome = call[c].outcome /\ k.details = call[c].details
        /\ k.bug = call[c].bug /\ k.report = call[c].report
    BY <1>1, CallFields
  <2>4. call' = [call EXCEPT ![c] = k]
    BY <1>1, <1>5 DEF Call
  <2> HIDE DEF k, new
  <2>5. /\ Frame(c) /\ call'[c] = k /\ pc'[c] = "recorded" /\ observations' = observations \cup {new}
        /\ FreshId(c) \in {Own(c, "primary"), Own(c, "replay")}
    <3>1. new = NewRow(c, "http", ReasonsFor(call[c].status, call[c].validity))
      BY DEF new
    <3>2. k.number = call[c].number /\ Insert(c, "http", ReasonsFor(call[c].status, call[c].validity))
      BY <1>5, <2>3
    <3> QED
      BY <1>2, <1>3, <2>2, <2>4, <3>1, <3>2, InsertFrame
  <2>6. SoundTables'
    BY <1>2, <1>5, <2>3, <2>5, InsertTables DEF SoundTables, new
  <2>7. new.id = FreshId(c) /\ new.kind = "http" /\ new.reasons = ReasonsFor(call[c].status, call[c].validity)
        /\ new.of = IF call[c].replay THEN call[c].primary ELSE NoId
    BY DEF new, NewRow
  <2>8. RowsAreNew(c)'
    BY <1>1, <2>3, <2>5, <2>7 DEF Stands, RowsAreNew, FreshId, Own, Row
  <2>9. AnswerStands(c)' /\ ReplayIsAsked(c)' /\ ReportIsHeld(c)'
    BY <1>1, <1>2, <2>3, <2>5
       DEF Stands, AnswerStands, ReplayIsAsked, ReportIsHeld, Unsettled, Over
  <2>10. EvidenceIsHeld(c)'
    <3>1. new \in Row(FreshId(c))' /\ FreshId(c)' = FreshId(c) /\ Own(c, "primary")' = Own(c, "primary")
      BY <2>3, <2>5, <2>7 DEF Row, FreshId, Own
    <3>2. \A id : Row(id) \subseteq Row(id)'
      BY <2>5 DEF Row
    <3> QED
      BY <1>1, <2>3, <2>5, <2>7, <3>1, <3>2 DEF Stands, EvidenceIsHeld
  <2>11. VerdictIsHeld(c)'
    BY <1>1, <1>2, <2>3, <2>5 DEF Stands, VerdictIsHeld, Own, Unsettled
  <2> QED
    BY <2>5, <2>6, <2>8, <2>9, <2>10, <2>11 DEF Stands
<1> QED
  BY <1>4, <1>5 DEF Record

\* A Primary that is lost ends the send, with its row or without.
LEMMA LosePrimaryStep ==
  ASSUME OracleInv, NEW c \in Callers, LosePrimary(c)
  PROVE  Frame(c) /\ Stands(c)' /\ SoundTables'
PROOF
<1> DEFINE k == [call[c] EXCEPT !.outcome = "no_response"]
<1>1. call[c] \in Call /\ pc \in [Callers -> Places] /\ call \in [Callers -> Call] /\ Stands(c)
  BY DEF OracleInv, CallTypes
<1>2. /\ pc[c] = "lost" /\ ~call[c].replay /\ pc' = [pc EXCEPT ![c] = "returned"]
      /\ call' = [call EXCEPT ![c] = k] /\ UNCHANGED assessments
  BY <1>1 DEF LosePrimary, Call
<1>3. "returned" \in Places /\ call[c].number \in 1..MaxCalls
  BY <1>2 DEF OracleInv, CallTypes, Places
<1>4. k \in Call
  BY <1>1 DEF Call
<1>5. /\ k.outcome = "no_response"
      /\ k.number = call[c].number /\ k.validity = call[c].validity /\ k.exchanges = call[c].exchanges
      /\ k.replay = call[c].replay /\ k.status = call[c].status /\ k.id = call[c].id
      /\ k.directive = call[c].directive /\ k.primary = call[c].primary /\ k.reasons = call[c].reasons
      /\ k.first = call[c].first /\ k.details = call[c].details
      /\ k.bug = call[c].bug /\ k.report = call[c].report
  BY <1>1, CallFields
<1> HIDE DEF k
<1>6. \/ UNCHANGED observations
      \/ Insert(c, "transport", {})
  BY DEF LosePrimary
<1>7. ASSUME Frame(c), call'[c] = k, pc'[c] = "returned",
             Row(Own(c, "replay"))' = Row(Own(c, "replay"))
      PROVE  Stands(c)'
  <2>1. RowsAreNew(c)' /\ AnswerStands(c)'
    BY <1>1, <1>2, <1>5, <1>7 DEF Stands, RowsAreNew, AnswerStands, Own
  <2>2. ReplayIsAsked(c)' /\ ReportIsHeld(c)'
    BY <1>1, <1>2, <1>5, <1>7 DEF Stands, ReplayIsAsked, ReportIsHeld, Unsettled, Over
  <2>3. EvidenceIsHeld(c)'
    BY <1>1, <1>2, <1>5, <1>7 DEF Stands, EvidenceIsHeld, ReplayIsAsked, Unsettled
  <2>4. VerdictIsHeld(c)'
    BY <1>1, <1>2, <1>5, <1>7 DEF Stands, VerdictIsHeld, Own, Unsettled
  <2> QED
    BY <2>1, <2>2, <2>3, <2>4 DEF Stands
<1>8. CASE UNCHANGED observations
  <2>1. Frame(c) /\ call'[c] = k /\ pc'[c] = "returned"
    BY <1>2, <1>3, <1>4, <1>5, <1>8, QuietFrame
  <2>2. Row(Own(c, "replay"))' = Row(Own(c, "replay"))
    BY <1>5, <1>8, <2>1 DEF Row, Own
  <2> QED
    BY <1>2, <1>7, <1>8, <2>1, <2>2, QuietTables DEF SoundTables
<1>9. CASE Insert(c, "transport", {})
  <2>1. /\ Frame(c) /\ call'[c] = k /\ pc'[c] = "returned"
        /\ observations' = observations \cup {NewRow(c, "transport", {})}
    BY <1>2, <1>3, <1>4, <1>5, <1>9, InsertFrame
  <2>2. SoundTables'
    BY <1>2, <1>5, <2>1, InsertTables DEF SoundTables
  <2>3. Row(Own(c, "replay"))' = Row(Own(c, "replay"))
    BY <1>2, <1>5, <2>1 DEF Row, Own, NewRow, FreshId
  <2> QED
    BY <1>7, <2>1, <2>2, <2>3
<1> QED
  BY <1>6, <1>8, <1>9

\* A lost Replay leaves its row, linked to the Primary, or none.
LEMMA RecordLostStep ==
  ASSUME OracleInv, NEW c \in Callers, RecordLostReplay(c)
  PROVE  Frame(c) /\ Stands(c)' /\ SoundTables'
PROOF
<1>1. call[c] \in Call /\ pc \in [Callers -> Places] /\ call \in [Callers -> Call] /\ Stands(c)
  BY DEF OracleInv, CallTypes
<1>2. pc[c] = "lost" /\ call[c].replay /\ pc' = [pc EXCEPT ![c] = "replay_lost"] /\ UNCHANGED assessments
  BY DEF RecordLostReplay
<1>3. "replay_lost" \in Places /\ call[c].number \in 1..MaxCalls
  BY <1>2 DEF OracleInv, CallTypes, Places
<1>4. CASE UNCHANGED <<observations, call>>
  <2>1. call' = [call EXCEPT ![c] = call[c]]
    BY <1>1, <1>4
  <2>2. Frame(c) /\ call'[c] = call[c] /\ pc'[c] = "replay_lost"
    BY <1>1, <1>2, <1>3, <1>4, <2>1, QuietFrame
  <2>3. SoundTables'
    BY <1>2, <1>4, <2>2, QuietTables DEF SoundTables
  <2>4. RowsAreNew(c)' /\ AnswerStands(c)' /\ EvidenceIsHeld(c)'
    BY <1>1, <1>2, <1>4, <2>2 DEF Stands, RowsAreNew, AnswerStands, EvidenceIsHeld, FreshId, Own, Row
  <2>5. ReplayIsAsked(c)' /\ VerdictIsHeld(c)' /\ ReportIsHeld(c)'
    BY <1>1, <1>2, <1>4, <2>2
       DEF Stands, ReplayIsAsked, VerdictIsHeld, ReportIsHeld, Unsettled, Over, Own
  <2> QED
    BY <2>2, <2>3, <2>4, <2>5 DEF Stands
<1>5. CASE /\ call[c].primary # NoId /\ Insert(c, "transport", {})
           /\ call' = [call EXCEPT ![c].id = FreshId(c)]
  <2> DEFINE k == [call[c] EXCEPT !.id = FreshId(c)]
             new == NewRow(c, "transport", {})
  <2>1. FreshId(c) \in Ids
    BY <1>1, <1>3 DEF FreshId, Ids
  <2>2. k \in Call
    BY <1>1, <2>1 DEF Call
  <2>3. /\ k.id = FreshId(c)
        /\ k.number = call[c].number /\ k.validity = call[c].validity /\ k.exchanges = call[c].exchanges
        /\ k.replay = call[c].replay /\ k.status = call[c].status /\ k.directive = call[c].directive
        /\ k.primary = call[c].primary /\ k.reasons = call[c].reasons /\ k.first = call[c].first
        /\ k.outcome = call[c].outcome /\ k.details = call[c].details
        /\ k.bug = call[c].bug /\ k.report = call[c].report
    BY <1>1, CallFields
  <2>4. call' = [call EXCEPT ![c] = k]
    BY <1>1, <1>5 DEF Call
  <2> HIDE DEF k, new
  <2>5. /\ Frame(c) /\ call'[c] = k /\ pc'[c] = "replay_lost" /\ observations' = observations \cup {new}
        /\ FreshId(c) \in {Own(c, "primary"), Own(c, "replay")}
    <3>1. new = NewRow(c, "transport", {})
      BY DEF new
    <3>2. k.number = call[c].number /\ Insert(c, "transport", {})
      BY <1>5, <2>3
    <3> QED
      BY <1>2, <1>3, <2>2, <2>4, <3>1, <3>2, InsertFrame
  <2>6. SoundTables'
    BY <1>2, <1>5, <2>3, <2>5, InsertTables DEF SoundTables, new
  <2>7. new.id = FreshId(c) /\ new.kind = "transport" /\ new.of = call[c].primary
    BY <1>2 DEF new, NewRow
  <2>8. RowsAreNew(c)'
    BY <1>1, <1>2, <2>3, <2>5, <2>7 DEF Stands, RowsAreNew, FreshId, Own, Row
  <2>9. AnswerStands(c)' /\ ReplayIsAsked(c)' /\ ReportIsHeld(c)'
    BY <1>1, <1>2, <2>3, <2>5
       DEF Stands, AnswerStands, ReplayIsAsked, ReportIsHeld, Unsettled, Over
  <2>10. EvidenceIsHeld(c)'
    <3>1. new \in Row(FreshId(c))' /\ FreshId(c)' = FreshId(c) /\ Own(c, "primary")' = Own(c, "primary")
      BY <2>3, <2>5, <2>7 DEF Row, FreshId, Own
    <3>2. \A id : Row(id) \subseteq Row(id)'
      BY <2>5 DEF Row
    <3> QED
      BY <1>1, <1>2, <2>3, <2>5, <2>7, <3>1, <3>2 DEF Stands, EvidenceIsHeld
  <2>11. VerdictIsHeld(c)'
    BY <1>1, <1>2, <2>3, <2>5 DEF Stands, VerdictIsHeld, Own, Unsettled
  <2> QED
    BY <2>5, <2>6, <2>8, <2>9, <2>10, <2>11 DEF Stands
<1> QED
  BY <1>4, <1>5 DEF RecordLostReplay

\* What has to be known of the rows for a verdict to be the right one.
Supports(p, replay, verdict) ==
  \E first \in Row(p) :
    /\ first.kind = "http" /\ first.of = NoId
    /\ (verdict = "no_candidate") = (first.reasons = {})
    /\ replay # NoId =>
         \E again \in Row(replay) :
           /\ again.of = p
           /\ (verdict = "replay_failed") = (again.kind = "transport")
           /\ (verdict = "reproduced") = (again.kind = "http" /\ again.reasons = first.reasons)

\* Only c moves on, with the same request.
Moves(c) ==
  /\ pc' = [pc EXCEPT ![c] = pc'[c]] /\ pc'[c] \in Places
  /\ call' = [call EXCEPT ![c] = call'[c]] /\ call'[c] \in Call
  /\ call'[c].number = call[c].number /\ call[c].number \in 1..MaxCalls

LEMMA MovesTo ==
  ASSUME OracleInv, NEW c \in Callers, NEW k \in Call, NEW q \in Places,
         call' = [call EXCEPT ![c] = k], pc' = [pc EXCEPT ![c] = q],
         k.number = call[c].number, call[c].number \in 1..MaxCalls
  PROVE  Moves(c) /\ call'[c] = k /\ pc'[c] = q
PROOF
<1> QED
  BY DEF OracleInv, CallTypes, Moves

\* A step that settles the current request of c, stored or not.
LEMMA PersistTables ==
  ASSUME OracleInv, NEW c \in Callers, Moves(c), UNCHANGED observations,
         NEW p, p = NoId \/ p = Own(c, "primary"),
         NEW replay \in Ids \cup {NoId}, NEW verdict \in Verdicts,
         Persist(p, replay, verdict), p # NoId => Supports(p, replay, verdict)
  PROVE  /\ Frame(c) /\ SoundTables'
         /\ \/ UNCHANGED assessments
            \/ /\ p = Own(c, "primary") /\ p \notin DOMAIN assessments
               /\ DOMAIN assessments' = DOMAIN assessments \cup {p}
               /\ assessments'[p].verdict = verdict
PROOF
<1>1. \A d \in Callers : call'[d].number = call[d].number
  BY DEF OracleInv, CallTypes, Moves
<1>2. CASE UNCHANGED assessments
  <2>1. Frame(c)
    <3>1. observations' \ observations = {} /\ observations \subseteq observations'
          /\ DOMAIN assessments' \ DOMAIN assessments = {} /\ DOMAIN assessments \subseteq DOMAIN assessments'
          /\ \A x \in DOMAIN assessments : assessments'[x] = assessments[x]
      BY <1>2
    <3> QED
      BY <3>1 DEF Frame, Moves
  <2> QED
    BY <1>2, <2>1, QuietTables DEF SoundTables
<1>3. CASE p # NoId /\ MayAssess(p, replay)
           /\ assessments' = [x \in DOMAIN assessments \cup {p} |->
                                IF x = p THEN [replay |-> replay, verdict |-> verdict] ELSE assessments[x]]
  <2>1. p = Own(c, "primary") /\ p \notin DOMAIN assessments
    BY <1>3 DEF MayAssess
  <2>2. /\ DOMAIN assessments' = DOMAIN assessments \cup {p}
        /\ assessments'[p] = [replay |-> replay, verdict |-> verdict]
        /\ \A x \in DOMAIN assessments : assessments'[x] = assessments[x]
    BY <1>3, <2>1
  <2>3. p = <<c, call[c].number, "primary">>
    BY <2>1 DEF Own
  <2>4. Frame(c)
    <3>1. observations' \ observations = {} /\ observations \subseteq observations'
      OBVIOUS
    <3>2. \A x \in DOMAIN assessments' \ DOMAIN assessments :
            \E n \in 1..MaxCalls : n = call[c].number /\ x = <<c, n, "primary">>
      BY <2>2, <2>3 DEF Moves
    <3> QED
      BY <2>2, <3>1, <3>2 DEF Frame, Moves
  <2>5. CallTypes'
    BY <2>4 DEF OracleInv, CallTypes, Frame
  <2>7. RowsAreOwned'
    BY <1>1 DEF OracleInv, RowsAreOwned
  <2>8. AssessmentsAreOwned'
    <3>1. assessments' \in [DOMAIN assessments' -> [replay : Ids \cup {NoId}, verdict : Verdicts]]
      BY <1>3, <2>2 DEF OracleInv, AssessmentsAreOwned
    <3>2. call[c].number \in 1..call[c].number
      BY CallersAssumption DEF Moves
    <3>3. \A x \in DOMAIN assessments' : \E d \in Callers : \E n \in 1..call'[d].number :
            x = <<d, n, "primary">>
      BY <1>1, <2>2, <2>3, <3>2 DEF OracleInv, AssessmentsAreOwned
    <3> QED
      BY <3>1, <3>3 DEF AssessmentsAreOwned
  <2>9. VerdictsMatchEvidence'
    <3> SUFFICES ASSUME NEW x \in DOMAIN assessments'
                 PROVE  Supports(x, assessments'[x].replay, assessments'[x].verdict)
      BY DEF VerdictsMatchEvidence, Supports, Row
    <3>1. CASE x = p
      BY <1>3, <2>2, <3>1
    <3>2. CASE x \in DOMAIN assessments
      BY <2>2, <3>2 DEF OracleInv, VerdictsMatchEvidence, Supports
    <3> QED
      BY <2>2, <3>1, <3>2
  <2> QED
    BY <2>1, <2>2, <2>4, <2>5, <2>7, <2>8, <2>9 DEF SoundTables
<1> QED
  BY <1>2, <1>3 DEF Persist

\* A Primary without reasons is settled, one with reasons asks for its Replay.
LEMMA EvaluatePrimaryStep ==
  ASSUME OracleInv, NEW c \in Callers, EvaluatePrimary(c)
  PROVE  Frame(c) /\ Stands(c)' /\ SoundTables'
PROOF
<1> DEFINE seen == ReasonsFor(call[c].status, call[c].validity)
           k == [call[c] EXCEPT !.primary = call[c].id, !.reasons = seen, !.directive = seen # {},
                   !.details = TRUE, !.bug = IF seen = {} THEN "clean" ELSE "none"]
<1>1. call[c] \in Call /\ pc \in [Callers -> Places] /\ call \in [Callers -> Call] /\ Stands(c)
  BY DEF OracleInv, CallTypes
<1>2. /\ pc[c] = "recorded" /\ ~call[c].replay /\ pc' = [pc EXCEPT ![c] = "processed"]
      /\ call' = [call EXCEPT ![c] = k] /\ UNCHANGED observations
      /\ IF seen = {} THEN Persist(call[c].id, NoId, "no_candidate") ELSE UNCHANGED assessments
  BY <1>1 DEF EvaluatePrimary, Call
<1>3. "processed" \in Places /\ call[c].number \in 1..MaxCalls
  BY <1>2 DEF OracleInv, CallTypes, Places
<1>4. k \in Call
  <2>1. seen \in SUBSET Reasons /\ call[c].id \in Ids \cup {NoId}
    BY <1>1 DEF ReasonsFor, Call
  <2>2. \A r \in SUBSET Reasons, i \in Ids \cup {NoId}, x \in BOOLEAN, b \in {"clean", "none"} :
          [call[c] EXCEPT !.primary = i, !.reasons = r, !.directive = x, !.details = TRUE, !.bug = b] \in Call
    BY <1>1 DEF Call
  <2>3. (seen # {}) \in BOOLEAN /\ (IF seen = {} THEN "clean" ELSE "none") \in {"clean", "none"}
    OBVIOUS
  <2> QED
    BY <2>1, <2>2, <2>3
<1>5. /\ k.primary = call[c].id /\ k.reasons = seen /\ k.directive = (seen # {})
      /\ k.details = TRUE /\ k.bug = IF seen = {} THEN "clean" ELSE "none"
      /\ k.number = call[c].number /\ k.validity = call[c].validity /\ k.exchanges = call[c].exchanges
      /\ k.replay = call[c].replay /\ k.status = call[c].status /\ k.id = call[c].id
      /\ k.first = call[c].first /\ k.outcome = call[c].outcome /\ k.report = call[c].report
  BY <1>1, CallFields
<1>6. seen = ReasonsFor(call[c].status, call[c].validity)
  OBVIOUS
<1> HIDE DEF k, seen
<1>7. call[c].id # NoId =>
        /\ call[c].id = Own(c, "primary")
        /\ \E o \in Row(call[c].id) : o.kind = "http" /\ o.of = NoId /\ o.reasons = seen
  BY <1>1, <1>2, <1>6 DEF Stands, EvidenceIsHeld, FreshId, Own
<1>8. /\ Frame(c) /\ SoundTables' /\ call'[c] = k /\ pc'[c] = "processed"
      /\ \/ UNCHANGED assessments
         \/ /\ seen = {} /\ call[c].id = Own(c, "primary")
            /\ DOMAIN assessments' = DOMAIN assessments \cup {Own(c, "primary")}
            /\ assessments'[Own(c, "primary")].verdict = "no_candidate"
  <2>1. CASE seen # {}
    <3>1. UNCHANGED assessments
      BY <1>2, <2>1
    <3>2. Frame(c) /\ call'[c] = k /\ pc'[c] = "processed"
      BY <1>2, <1>3, <1>4, <1>5, <3>1, QuietFrame
    <3> QED
      BY <1>2, <3>1, <3>2, QuietTables DEF SoundTables
  <2>2. CASE seen = {}
    <3>1. call[c].id # NoId => Supports(call[c].id, NoId, "no_candidate")
      BY <1>7, <2>2 DEF Supports
    <3>2. "no_candidate" \in Verdicts /\ Persist(call[c].id, NoId, "no_candidate")
          /\ (call[c].id = NoId \/ call[c].id = Own(c, "primary"))
      BY <1>2, <1>7, <2>2 DEF Verdicts
    <3>3. Moves(c) /\ call'[c] = k /\ pc'[c] = "processed"
      BY <1>2, <1>3, <1>4, <1>5, MovesTo
    <3>4. /\ Frame(c) /\ SoundTables'
          /\ \/ UNCHANGED assessments
             \/ /\ call[c].id = Own(c, "primary") /\ call[c].id \notin DOMAIN assessments
                /\ DOMAIN assessments' = DOMAIN assessments \cup {call[c].id}
                /\ assessments'[call[c].id].verdict = "no_candidate"
      <4>1. NoId \in Ids \cup {NoId} /\ UNCHANGED observations
        BY <1>2
      <4> QED
        BY <3>1, <3>2, <3>3, <4>1, PersistTables
    <3> QED
      BY <2>2, <3>3, <3>4
  <2> QED
    BY <2>1, <2>2
<1>9. RowsAreNew(c)' /\ AnswerStands(c)'
  BY <1>1, <1>2, <1>5, <1>8 DEF Stands, RowsAreNew, AnswerStands, Own, Row
<1>10. ReplayIsAsked(c)'
  BY <1>1, <1>2, <1>5, <1>6, <1>8 DEF Stands, ReplayIsAsked, AnswerStands, Unsettled, Over
<1>11. EvidenceIsHeld(c)'
  BY <1>2, <1>5, <1>7, <1>8 DEF EvidenceIsHeld, Own, Row
<1>12. VerdictIsHeld(c)'
  <2>1. Own(c, "primary") \notin DOMAIN assessments /\ Own(c, "primary")' = Own(c, "primary")
    BY <1>1, <1>2, <1>5, <1>8 DEF Stands, VerdictIsHeld, Unsettled, Own
  <2> QED
    BY <1>2, <1>5, <1>8, <2>1 DEF VerdictIsHeld, Unsettled
<1>13. ReportIsHeld(c)'
  BY <1>1, <1>2, <1>5, <1>8 DEF Stands, ReportIsHeld
<1> QED
  BY <1>8, <1>9, <1>10, <1>11, <1>12, <1>13 DEF Stands

\* A Replay is a Bug exactly when it answers with all of the Primary's reasons.
LEMMA EvaluateReplayStep ==
  ASSUME OracleInv, NEW c \in Callers, EvaluateReplay(c)
  PROVE  Frame(c) /\ Stands(c)' /\ SoundTables'
PROOF
<1> DEFINE again == ReasonsFor(call[c].status, call[c].validity) = call[c].reasons
           bug == IF Oversized(c) THEN call[c].bug ELSE IF again THEN "bug" ELSE "clean"
           verdict == IF again THEN "reproduced" ELSE "not_reproduced"
           k == [call[c] EXCEPT !.directive = FALSE, !.bug = bug]
<1>1. call[c] \in Call /\ pc \in [Callers -> Places] /\ call \in [Callers -> Call] /\ Stands(c)
  BY DEF OracleInv, CallTypes
<1>2. /\ pc[c] = "recorded" /\ call[c].replay /\ pc' = [pc EXCEPT ![c] = "processed"]
      /\ call' = [call EXCEPT ![c] = k] /\ UNCHANGED observations
      /\ Persist(call[c].primary, call[c].id, verdict)
  BY <1>1 DEF EvaluateReplay, Call
<1>3. "processed" \in Places /\ call[c].number \in 1..MaxCalls
  BY <1>2 DEF OracleInv, CallTypes, Places
<1>4. k \in Call
  <2>1. bug \in {"none", "clean", "bug"}
    BY <1>1 DEF Call
  <2>2. \A b \in {"none", "clean", "bug"} : [call[c] EXCEPT !.directive = FALSE, !.bug = b] \in Call
    BY <1>1 DEF Call
  <2> QED
    BY <2>1, <2>2
<1>5. /\ k.directive = FALSE /\ k.bug = bug
      /\ k.number = call[c].number /\ k.validity = call[c].validity /\ k.exchanges = call[c].exchanges
      /\ k.replay = call[c].replay /\ k.status = call[c].status /\ k.id = call[c].id
      /\ k.primary = call[c].primary /\ k.reasons = call[c].reasons /\ k.first = call[c].first
      /\ k.outcome = call[c].outcome /\ k.details = call[c].details /\ k.report = call[c].report
  BY <1>1, CallFields
<1>6. /\ verdict = IF ReasonsFor(call[c].status, call[c].validity) = call[c].reasons
                   THEN "reproduced" ELSE "not_reproduced"
      /\ bug \in {call[c].bug} \cup
           {IF ReasonsFor(call[c].status, call[c].validity) = call[c].reasons THEN "bug" ELSE "clean"}
  OBVIOUS
<1> HIDE DEF k, verdict, bug, again
<1>7. /\ call[c].primary # NoId =>
           /\ call[c].primary = Own(c, "primary")
           /\ \E o \in Row(call[c].primary) :
                o.kind = "http" /\ o.of = NoId /\ o.reasons = call[c].reasons
      /\ call[c].reasons # {}
      /\ call[c].id # NoId =>
           \E o \in Row(call[c].id) :
             /\ o.kind = "http" /\ o.of = call[c].primary
             /\ o.reasons = ReasonsFor(call[c].status, call[c].validity)
  BY <1>1, <1>2 DEF Stands, EvidenceIsHeld, ReplayIsAsked
<1>8. /\ Frame(c) /\ SoundTables' /\ call'[c] = k /\ pc'[c] = "processed"
      /\ \/ UNCHANGED assessments
         \/ /\ call[c].primary = Own(c, "primary") /\ call[c].primary \notin DOMAIN assessments
            /\ DOMAIN assessments' = DOMAIN assessments \cup {call[c].primary}
            /\ assessments'[call[c].primary].verdict = verdict
  <2>1. call[c].primary # NoId => Supports(call[c].primary, call[c].id, verdict)
    <3> SUFFICES ASSUME call[c].primary # NoId
                 PROVE  Supports(call[c].primary, call[c].id, verdict)
      OBVIOUS
    <3>1. PICK first \in Row(call[c].primary) :
            first.kind = "http" /\ first.of = NoId /\ first.reasons = call[c].reasons
      BY <1>7
    <3>2. (verdict = "no_candidate") = (first.reasons = {})
      BY <1>6, <1>7, <3>1
    <3>3. ASSUME call[c].id # NoId
          PROVE  \E o \in Row(call[c].id) :
                   /\ o.of = call[c].primary /\ (verdict = "replay_failed") = (o.kind = "transport")
                   /\ (verdict = "reproduced") = (o.kind = "http" /\ o.reasons = first.reasons)
      BY <1>6, <1>7, <3>1, <3>3
    <3> QED
      BY <3>1, <3>2, <3>3 DEF Supports
  <2>2. verdict \in Verdicts /\ call[c].id \in Ids \cup {NoId}
        /\ (call[c].primary = NoId \/ call[c].primary = Own(c, "primary"))
    BY <1>1, <1>6, <1>7 DEF Verdicts, Call
  <2>3. Moves(c) /\ call'[c] = k /\ pc'[c] = "processed"
    BY <1>2, <1>3, <1>4, <1>5, MovesTo
  <2> QED
    BY <1>2, <2>1, <2>2, <2>3, PersistTables
<1>9. RowsAreNew(c)' /\ AnswerStands(c)'
  BY <1>1, <1>2, <1>5, <1>8 DEF Stands, RowsAreNew, AnswerStands
<1>10. ReplayIsAsked(c)'
  BY <1>1, <1>2, <1>5, <1>8 DEF Stands, ReplayIsAsked, Unsettled, Over
<1>11. EvidenceIsHeld(c)'
  BY <1>2, <1>5, <1>7, <1>8 DEF EvidenceIsHeld, Own, Row
<1>12. VerdictIsHeld(c)'
  <2>1. Own(c, "primary") \notin DOMAIN assessments /\ call[c].bug = "none"
        /\ Own(c, "primary")' = Own(c, "primary")
    BY <1>1, <1>2, <1>5, <1>8 DEF Stands, VerdictIsHeld, Unsettled, Own
  <2> QED
    BY <1>2, <1>5, <1>6, <1>8, <2>1 DEF VerdictIsHeld, Unsettled
<1>13. ReportIsHeld(c)'
  BY <1>1, <1>2, <1>5, <1>8 DEF Stands, ReportIsHeld
<1> QED
  BY <1>8, <1>9, <1>10, <1>11, <1>12, <1>13 DEF Stands

\* The check of a lost Replay is settled as failed.
LEMMA SettleLostStep ==
  ASSUME OracleInv, NEW c \in Callers, SettleLostReplay(c)
  PROVE  Frame(c) /\ Stands(c)' /\ SoundTables'
PROOF
<1>1. call[c] \in Call /\ pc \in [Callers -> Places] /\ call \in [Callers -> Call] /\ Stands(c)
  BY DEF OracleInv, CallTypes
<1>2. /\ pc[c] = "replay_lost" /\ pc' = [pc EXCEPT ![c] = "returned"]
      /\ Persist(call[c].primary, call[c].id, "replay_failed") /\ UNCHANGED <<call, observations>>
  BY DEF SettleLostReplay
<1>3. /\ "returned" \in Places /\ call[c].number \in 1..MaxCalls
      /\ call' = [call EXCEPT ![c] = call[c]] /\ call[c].replay
  BY <1>1, <1>2 DEF OracleInv, CallTypes, Places, Stands, ReplayIsAsked
<1>4. /\ call[c].primary # NoId =>
           /\ call[c].primary = Own(c, "primary")
           /\ \E o \in Row(call[c].primary) :
                o.kind = "http" /\ o.of = NoId /\ o.reasons = call[c].reasons
      /\ call[c].reasons # {}
      /\ call[c].id # NoId =>
           \E o \in Row(call[c].id) : o.kind = "transport" /\ o.of = call[c].primary
  BY <1>1, <1>2, <1>3 DEF Stands, EvidenceIsHeld, ReplayIsAsked
<1>5. /\ Frame(c) /\ SoundTables' /\ call'[c] = call[c] /\ pc'[c] = "returned"
      /\ \/ UNCHANGED assessments
         \/ /\ call[c].primary = Own(c, "primary") /\ call[c].primary \notin DOMAIN assessments
            /\ DOMAIN assessments' = DOMAIN assessments \cup {call[c].primary}
            /\ assessments'[call[c].primary].verdict = "replay_failed"
  <2>1. call[c].primary # NoId => Supports(call[c].primary, call[c].id, "replay_failed")
    BY <1>4 DEF Supports
  <2>2. "replay_failed" \in Verdicts /\ call[c].id \in Ids \cup {NoId}
        /\ (call[c].primary = NoId \/ call[c].primary = Own(c, "primary"))
    BY <1>1, <1>4 DEF Verdicts, Call
  <2>3. Moves(c) /\ call'[c] = call[c] /\ pc'[c] = "returned"
    BY <1>1, <1>2, <1>3, MovesTo
  <2> QED
    BY <1>2, <2>1, <2>2, <2>3, PersistTables
<1>6. RowsAreNew(c)' /\ AnswerStands(c)'
  BY <1>1, <1>2, <1>3, <1>5 DEF Stands, RowsAreNew, AnswerStands, Statuses
<1>7. ReplayIsAsked(c)'
  BY <1>1, <1>2, <1>3, <1>5 DEF Stands, ReplayIsAsked, Unsettled, Over
<1>8. EvidenceIsHeld(c)'
  BY <1>2, <1>4, <1>5 DEF EvidenceIsHeld, Own, Row
<1>9. VerdictIsHeld(c)'
  <2>1. Own(c, "primary") \notin DOMAIN assessments /\ call[c].bug = "none"
        /\ Own(c, "primary")' = Own(c, "primary")
    BY <1>1, <1>2 DEF Stands, VerdictIsHeld, Unsettled, Own
  <2>2. ~call'[c].directive
    BY <1>1, <1>3, <1>5 DEF Stands, ReplayIsAsked
  <2> QED
    BY <1>2, <1>5, <2>1, <2>2 DEF VerdictIsHeld, Unsettled
<1>10. ReportIsHeld(c)'
  BY <1>1, <1>2, <1>5 DEF Stands, ReportIsHeld
<1> QED
  BY <1>5, <1>6, <1>7, <1>8, <1>9, <1>10 DEF Stands

-----------------------------------------------------------------------------
(* The invariant holds from the start and every step keeps it.             *)

LEMMA OracleStart ==
  ASSUME BatchInit
  PROVE  OracleInv
PROOF
<1>1. /\ pc = [c \in Callers |-> "idle"] /\ call = [c \in Callers |-> NewCall(0, "unstated")]
      /\ observations = {} /\ DOMAIN assessments = {}
  BY DEF BatchInit, Init
<1>2. NewCall(0, "unstated") \in Call
  BY CallersAssumption DEF NewCall, Call, Statuses
<1>3. CallTypes
  BY <1>1, <1>2 DEF CallTypes, Places
<1>4. RowsAreOwned /\ AssessmentsAreOwned /\ VerdictsMatchEvidence
  <2>1. assessments \in [DOMAIN assessments -> [replay : Ids \cup {NoId}, verdict : Verdicts]]
    BY DEF BatchInit, Init
  <2> QED
    BY <1>1, <2>1 DEF RowsAreOwned, AssessmentsAreOwned, VerdictsMatchEvidence
<1>5. ASSUME NEW c \in Callers
      PROVE  Stands(c)
  <2>1. call[c] = NewCall(0, "unstated") /\ pc[c] = "idle"
    BY <1>1
  <2>2. RowsAreNew(c) /\ AnswerStands(c) /\ EvidenceIsHeld(c)
    BY <1>1, <2>1 DEF RowsAreNew, AnswerStands, EvidenceIsHeld, Row, NewCall
  <2>3. ReplayIsAsked(c) /\ VerdictIsHeld(c) /\ ReportIsHeld(c)
    BY <1>1, <2>1 DEF ReplayIsAsked, VerdictIsHeld, ReportIsHeld, NewCall, Unsettled, Over
  <2> QED
    BY <2>2, <2>3 DEF Stands
<1> QED
  BY <1>3, <1>4, <1>5 DEF OracleInv

LEMMA OracleKept ==
  ASSUME OracleInv, NEW c \in Callers, Frame(c), Stands(c)',
         SoundTables' \/ UNCHANGED <<observations, assessments>>
  PROVE  OracleInv'
PROOF
<1>1. SoundTables'
  BY QuietTables DEF SoundTables
<1>2. \A d \in Callers : Stands(d)'
  BY OthersStand
<1> QED
  BY <1>1, <1>2 DEF OracleInv, SoundTables

LEMMA ExchangeKeeps ==
  ASSUME OracleInv, NEW c \in Callers, Exchange(c)
  PROVE  OracleInv'
PROOF
<1>1. CASE \E s \in Statuses, large \in BOOLEAN : Receive(c, s, large)
  BY <1>1, ReceiveStep, OracleKept
<1>2. CASE Lose(c)
  BY <1>2, LoseStep, OracleKept
<1>3. CASE ObserveFails(c)
  BY <1>3, ObserveFailsStep, OracleKept
<1>4. CASE Record(c)
  BY <1>4, RecordStep, OracleKept
<1>5. CASE EvaluatePrimary(c)
  BY <1>5, EvaluatePrimaryStep, OracleKept
<1>6. CASE EvaluateReplay(c)
  BY <1>6, EvaluateReplayStep, OracleKept
<1>7. CASE RefuseLargePrimary(c)
  BY <1>7, RefuseStep, OracleKept
<1>8. CASE StartReplay(c)
  BY <1>8, StartReplayStep, OracleKept
<1>9. CASE Return(c)
  BY <1>9, ReturnStep, OracleKept
<1>10. CASE LosePrimary(c)
  BY <1>10, LosePrimaryStep, OracleKept
<1>11. CASE RecordLostReplay(c)
  BY <1>11, RecordLostStep, OracleKept
<1>12. CASE SettleLostReplay(c)
  BY <1>12, SettleLostStep, OracleKept
<1>13. CASE ObserveLostFails(c)
  BY <1>13, LostUnobservedStep, OracleKept
<1> QED
  BY <1>1, <1>2, <1>3, <1>4, <1>5, <1>6, <1>7, <1>8, <1>9, <1>10, <1>11, <1>12, <1>13 DEF Exchange

LEMMA OracleStep ==
  ASSUME OracleInv, [BatchNext]_batchVars
  PROVE  OracleInv'
PROOF
<1>1. CASE UNCHANGED vars
  <2>1. pc' = pc /\ call' = call /\ observations' = observations /\ assessments' = assessments
    BY <1>1 DEF vars
  <2>2. CallTypes' /\ RowsAreOwned' /\ AssessmentsAreOwned'
    BY <2>1 DEF OracleInv, CallTypes, RowsAreOwned, AssessmentsAreOwned
  <2>4. VerdictsMatchEvidence'
    BY <2>1 DEF OracleInv, VerdictsMatchEvidence, Row
  <2>3. ASSUME NEW c \in Callers
        PROVE  Stands(c)'
    <3>1. Stands(c)
      BY DEF OracleInv
    <3>2. RowsAreNew(c)' /\ AnswerStands(c)' /\ EvidenceIsHeld(c)'
      BY <2>1, <3>1 DEF Stands, RowsAreNew, AnswerStands, EvidenceIsHeld, Row, FreshId, Own
    <3>3. ReplayIsAsked(c)' /\ VerdictIsHeld(c)' /\ ReportIsHeld(c)'
      BY <2>1, <3>1 DEF Stands, ReplayIsAsked, VerdictIsHeld, ReportIsHeld, Own
    <3> QED
      BY <3>2, <3>3 DEF Stands
  <2> QED
    BY <2>2, <2>3, <2>4 DEF OracleInv
<1>2. ASSUME NEW c \in Callers, NEW v \in Validities(c), Send(c, v)
      PROVE  OracleInv'
  BY <1>2, SendStep, OracleKept
<1>3. ASSUME NEW c \in Callers, Report(c)
      PROVE  OracleInv'
  BY <1>3, ReportStep, OracleKept
<1>4. ASSUME NEW b \in Batches, SendCase(b)
      PROVE  OracleInv'
  BY <1>2, <1>4 DEF SendCase, Send, Callers
<1>5. ASSUME NEW b \in Batches, CaseStep(b)
      PROVE  OracleInv'
  BY <1>5, ExchangeKeeps DEF CaseStep, Callers
<1>6. ASSUME NEW b \in Batches, EndCase(b)
      PROVE  OracleInv'
  BY <1>3, <1>6 DEF EndCase, Callers
<1>7. ASSUME NEW b \in Batches, CaseRaises(b)
      PROVE  OracleInv'
  <2>1. b \in Callers /\ pc[b] = "returned" /\ pc' = [pc EXCEPT ![b] = "done"]
        /\ UNCHANGED <<call, observations, assessments>>
    BY <1>7 DEF CaseRaises, Callers
  <2> QED
    BY <2>1, MoveStep, OracleKept
<1>8. ASSUME NEW b \in Batches, NextCase(b)
      PROVE  OracleInv'
  <2>1. b \in Callers /\ pc[b] = "done" /\ pc' = [pc EXCEPT ![b] = "idle"]
        /\ UNCHANGED <<call, observations, assessments>>
    BY <1>8 DEF NextCase, Again, Callers
  <2> QED
    BY <2>1, MoveStep, OracleKept
<1>9. ASSUME NEW t \in Tools, ToolStep(t)
      PROVE  OracleInv'
  BY <1>2, <1>3, <1>9, ExchangeKeeps DEF ToolStep, Callers
<1>10. ASSUME NEW b \in Batches,
              \/ \E mode \in {"valid", "invalid"}, n \in 1..MaxCalls : StartBatch(b, mode, n)
              \/ StartFails(b) \/ UpdateSummary(b) \/ Conclude(b) \/ GiveRewards(b) \/ Interrupt(b)
       PROVE  UNCHANGED vars
  BY <1>10 DEF StartBatch, StartFails, UpdateSummary, Conclude, GiveRewards, Interrupt
<1> QED
  BY <1>1, <1>4, <1>5, <1>6, <1>7, <1>8, <1>9, <1>10 DEF BatchNext, batchVars

-----------------------------------------------------------------------------
(* What follows for every execution.                                       *)

\* Whatever the target answers, loses or answers differently the second time, and
\* whichever writes of the monitor fail, the tables and every send in progress stay
\* in the relation that evaluate_primary, evaluate_replay and the merge of their
\* details rely on.
THEOREM OracleIsSound == BatchSpec => []OracleInv
PROOF
<1>1. BatchInit => OracleInv
  BY OracleStart
<1>2. OracleInv /\ [BatchNext]_batchVars => OracleInv'
  BY OracleStep
<1> QED
  BY <1>1, <1>2, PTL DEF BatchSpec

\* An Assessment in the database can always be justified by the Observations stored
\* beside it: no failed write leaves a Bug verdict without its two matching answers.
THEOREM VerdictsAreEvidenced == BatchSpec => []VerdictsMatchEvidence
PROOF
<1>1. OracleInv => VerdictsMatchEvidence
  BY DEF OracleInv
<1> QED
  BY <1>1, OracleIsSound, PTL

\* A candidate is repeated once, in a Batch always, nothing else is, and send
\* returns what the Primary got.
THEOREM ReplaysStayExact == BatchSpec => []ReplaysAreExact
PROOF
<1>1. ASSUME OracleInv
      PROVE  ReplaysAreExact
  <2>1. \A c \in Callers : Stands(c) /\ call[c] \in Call
    BY <1>1 DEF OracleInv, CallTypes
  <2>2. NoId \notin Ids /\ \A c \in Callers : 1..call[c].number \subseteq 1..MaxCalls
    BY <2>1, CallersAssumption DEF Ids, Callers, Call
  <2>3. \A c \in Callers : call[c].exchanges <= IF Candidate(c) THEN 2 ELSE 1
    BY <2>1 DEF Stands, ReplayIsAsked, Candidate
  <2>4. ASSUME NEW o \in observations
        PROVE  /\ o.of # NoId => \E c \in Callers : \E n \in 1..MaxCalls :
                    o.id = <<c, n, "replay">> /\ o.of = <<c, n, "primary">>
               /\ o.of = NoId \/ \E c \in Callers, n \in 1..MaxCalls : o.id = <<c, n, "replay">>
    BY <1>1, <2>2 DEF OracleInv, RowsAreOwned
  <2>5. \A o1, o2 \in observations : o1.of # NoId /\ o1.of = o2.of => o1 = o2
    <3> SUFFICES ASSUME NEW o1 \in observations, NEW o2 \in observations, o1.of # NoId, o1.of = o2.of
                 PROVE  o1 = o2
      OBVIOUS
    <3>1. PICK c \in Callers, n \in 1..MaxCalls : o1.id = <<c, n, "replay">> /\ o1.of = <<c, n, "primary">>
      BY <2>4
    <3>2. PICK d \in Callers, m \in 1..MaxCalls : o2.id = <<d, m, "replay">> /\ o2.of = <<d, m, "primary">>
      BY <2>4
    <3>3. <<c, n, "primary">> = <<d, m, "primary">>
      BY <3>1, <3>2
    <3>4. <<c, n, "replay">> = <<d, m, "replay">>
      BY <3>3
    <3> QED
      BY <1>1, <3>1, <3>2, <3>4 DEF OracleInv, RowsAreOwned
  <2>6. \A o1, o2 \in observations : o2.id = o1.of => o2.of = NoId
    <3> SUFFICES ASSUME NEW o1 \in observations, NEW o2 \in observations, o2.id = o1.of, o2.of # NoId
                 PROVE  FALSE
      OBVIOUS
    <3>1. PICK d \in Callers, m \in 1..MaxCalls : o2.id = <<d, m, "replay">>
      BY <2>4
    <3>2. o1.of # NoId
      BY <2>2, <3>1 DEF Ids
    <3>3. PICK c \in Callers, n \in 1..MaxCalls : o1.of = <<c, n, "primary">>
      BY <2>4, <3>2
    <3>4. <<d, m, "replay">> = <<c, n, "primary">>
      BY <3>1, <3>3
    <3> QED
      BY <3>4
  <2>7. BatchCandidatesAreReplayed
    BY <2>1, CallersAssumption
       DEF BatchCandidatesAreReplayed, Stands, ReplayIsAsked, Candidate, Callers, Over
  <2>8. PrimaryAnswerStands
    BY <2>1 DEF PrimaryAnswerStands, Stands, AnswerStands
  <2> QED
    BY <2>3, <2>5, <2>6, <2>7, <2>8 DEF ReplaysAreExact, OneReplayPerCandidate
<1> QED
  BY <1>1, OracleIsSound, PTL

\* A Batch calls a case a Bug only when its Replay gave all the reasons again, and
\* never disagrees with a stored Assessment.
THEOREM ReportsStayTrue == BatchSpec => []ReportsMatchAssessments
PROOF
<1>1. ASSUME OracleInv
      PROVE  ReportsMatchAssessments
  <2> SUFFICES ASSUME NEW b \in Batches, pc[b] = "done", call[b].report # "none"
               PROVE  /\ call[b].report = "bug" =>
                           /\ call[b].exchanges = 2
                           /\ ReasonsFor(call[b].status, call[b].validity) =
                                ReasonsFor(call[b].first, call[b].validity)
                      /\ call[b].primary \in DOMAIN assessments =>
                           ((call[b].report = "bug") =
                              (assessments[call[b].primary].verdict = "reproduced"))
    BY DEF ReportsMatchAssessments
  <2>1. b \in Callers /\ Stands(b)
    BY <1>1 DEF OracleInv, Callers
  <2> QED
    BY <2>1 DEF Stands, ReportIsHeld, ReplayIsAsked
<1> QED
  BY <1>1, OracleIsSound, PTL

-----------------------------------------------------------------------------
(* The cases of a Batch and the rewards they earn.                         *)

Case == [outcome : Statuses \cup {"none", "no_response", "response_too_large"}, bug : BOOLEAN]

\* Case i of a Batch is its request i, and says what the Assessment of that request
\* says, if it was stored.
CasesAreRequests(b) ==
  LET x == batch[b]
  IN  /\ DOMAIN x = {"phase", "mode", "prepared", "cases", "warnings", "status"}
      /\ x.cases \in Seq(Case) /\ x.prepared \in Nat
      /\ x.phase = "waiting" => x = Waiting /\ call[b].number = 0
      /\ x.phase \in {"ready", "case", "summary", "ending"} /\ x.status # "failed" =>
           call[b].number = Len(x.cases) + IF x.phase = "case" THEN 1 ELSE 0
      /\ \A i \in DOMAIN x.cases : <<b, i, "primary">> \in DOMAIN assessments =>
           x.cases[i].bug = (assessments[<<b, i, "primary">>].verdict = "reproduced")

\* A Batch is over when all its cases are, and only then rewarded.
RewardsAreOwed(b) ==
  LET x == batch[b]
  IN  /\ x.phase \in {"ready", "case"} => x.status = "running" /\ Len(x.cases) < x.prepared
      /\ x.phase = "summary" /\ x.status # "failed" =>
           /\ x.status \in {"running", "completed"} /\ Len(x.cases) <= x.prepared
           /\ x.status = "completed" => Len(x.cases) = x.prepared
      /\ x.phase \in {"ending", "reward", "returned"} =>
           x.status # "failed" /\ Len(x.cases) = x.prepared
      /\ rewards[b] = IF x.phase = "returned"
                      THEN [i \in DOMAIN x.cases |-> Reward(b, x.cases[i])] ELSE <<>>

RewardInv ==
  /\ OracleInv
  /\ DOMAIN batch = Batches /\ DOMAIN rewards = Batches
  /\ \A b \in Batches : CasesAreRequests(b) /\ RewardsAreOwed(b)

\* A Batch is not disturbed by a step of somebody else.
LEMMA OthersAreKept ==
  ASSUME RewardInv, NEW c \in Callers, Frame(c), NEW d \in Batches, d # c,
         batch'[d] = batch[d], rewards'[d] = rewards[d]
  PROVE  CasesAreRequests(d)' /\ RewardsAreOwed(d)'
PROOF
<1>1. CasesAreRequests(d) /\ RewardsAreOwed(d) /\ d \in Callers
  BY DEF RewardInv, Callers
<1>2. call'[d] = call[d]
  BY <1>1 DEF RewardInv, OracleInv, Frame, CallTypes
<1>3. \A i : /\ <<d, i, "primary">> \in DOMAIN assessments' => <<d, i, "primary">> \in DOMAIN assessments
             /\ <<d, i, "primary">> \in DOMAIN assessments =>
                  assessments'[<<d, i, "primary">>] = assessments[<<d, i, "primary">>]
  BY DEF Frame
<1>4. CasesAreRequests(d)'
  <2>1. \A i \in DOMAIN batch'[d].cases : <<d, i, "primary">> \in DOMAIN assessments' =>
          batch'[d].cases[i].bug = (assessments'[<<d, i, "primary">>].verdict = "reproduced")
    BY <1>1, <1>3 DEF CasesAreRequests
  <2>2. batch'[d].phase = "waiting" => batch'[d] = Waiting /\ call'[d].number = 0
    BY <1>1, <1>2 DEF CasesAreRequests
  <2> QED
    BY <1>1, <1>2, <2>1, <2>2 DEF CasesAreRequests, Waiting
<1>5. RewardsAreOwed(d)'
  BY <1>1 DEF RewardsAreOwed, Reward
<1> QED
  BY <1>4, <1>5

\* An exchange touches the identities of its own request only.
LEMMA ExchangeFrame ==
  ASSUME OracleInv, NEW c \in Callers, Exchange(c)
  PROVE  Frame(c) /\ call'[c].number = call[c].number
PROOF
<1> call[c] \in Call /\ call \in [Callers -> Call]
  BY DEF OracleInv, CallTypes
<1>1. CASE \E s \in Statuses, large \in BOOLEAN : Receive(c, s, large)
  <2>1. PICK s \in Statuses, large \in BOOLEAN : Receive(c, s, large)
    BY <1>1
  <2> QED
    BY <2>1, ReceiveStep DEF Receive, Call
<1>2. CASE Lose(c)
  BY <1>2, LoseStep DEF Lose, Call
<1>3. CASE ObserveFails(c)
  BY <1>3, ObserveFailsStep DEF ObserveFails, Call
<1>4. CASE Record(c)
  BY <1>4, RecordStep DEF Record, Call
<1>5. CASE EvaluatePrimary(c)
  BY <1>5, EvaluatePrimaryStep DEF EvaluatePrimary, Call
<1>6. CASE EvaluateReplay(c)
  BY <1>6, EvaluateReplayStep DEF EvaluateReplay, Call
<1>7. CASE RefuseLargePrimary(c)
  BY <1>7, RefuseStep DEF RefuseLargePrimary, Call
<1>8. CASE StartReplay(c)
  BY <1>8, StartReplayStep DEF StartReplay, Call
<1>9. CASE Return(c)
  BY <1>9, ReturnStep DEF Return, Call
<1>10. CASE LosePrimary(c)
  BY <1>10, LosePrimaryStep DEF LosePrimary, Call
<1>11. CASE RecordLostReplay(c)
  BY <1>11, RecordLostStep DEF RecordLostReplay, Call
<1>12. CASE SettleLostReplay(c)
  BY <1>12, SettleLostStep DEF SettleLostReplay
<1>13. CASE ObserveLostFails(c)
  BY <1>13, LostUnobservedStep DEF ObserveLostFails, Call
<1> QED
  BY <1>1, <1>2, <1>3, <1>4, <1>5, <1>6, <1>7, <1>8, <1>9, <1>10, <1>11, <1>12, <1>13 DEF Exchange

\* The request in progress is none of the cases that are over.
LEMMA CaseStepKeeps ==
  ASSUME RewardInv, NEW b \in Batches, CaseStep(b)
  PROVE  CasesAreRequests(b)' /\ RewardsAreOwed(b)'
PROOF
<1>1. CasesAreRequests(b) /\ RewardsAreOwed(b) /\ b \in Callers /\ OracleInv
  BY DEF RewardInv, Callers
<1>2. /\ Frame(b) /\ call'[b].number = call[b].number
      /\ batch[b].phase = "case" /\ UNCHANGED <<batch, rewards>>
  BY <1>1, ExchangeFrame DEF CaseStep
<1>3. \A i \in DOMAIN batch[b].cases : i # call[b].number
  <2>1. batch[b].cases \in Seq(Case) /\ call[b].number = Len(batch[b].cases) + 1
    BY <1>1, <1>2 DEF CasesAreRequests, RewardsAreOwed
  <2> QED
    BY <2>1
<1>4. \A i \in DOMAIN batch[b].cases :
        /\ <<b, i, "primary">> \in DOMAIN assessments' => <<b, i, "primary">> \in DOMAIN assessments
        /\ <<b, i, "primary">> \in DOMAIN assessments =>
             assessments'[<<b, i, "primary">>] = assessments[<<b, i, "primary">>]
  BY <1>2, <1>3 DEF Frame
<1>5. CasesAreRequests(b)'
  BY <1>1, <1>2, <1>4 DEF CasesAreRequests
<1>6. RewardsAreOwed(b)'
  BY <1>1, <1>2 DEF RewardsAreOwed, Reward
<1> QED
  BY <1>5, <1>6

\* What a case is counted as is what its Assessment says, whichever there is.
LEMMA EndCaseKeeps ==
  ASSUME RewardInv, NEW b \in Batches, EndCase(b)
  PROVE  CasesAreRequests(b)' /\ RewardsAreOwed(b)'
PROOF
<1> DEFINE n == Len(batch[b].cases)
           new == [outcome |-> call[b].outcome, bug |-> call'[b].report = "bug"]
<1>1. /\ CasesAreRequests(b) /\ RewardsAreOwed(b) /\ b \in Callers /\ OracleInv /\ Stands(b)
      /\ call[b] \in Call /\ call \in [Callers -> Call]
  BY DEF RewardInv, OracleInv, CallTypes, Callers
<1>2. batch[b].phase = "case" /\ Report(b) /\ UNCHANGED <<batches, rewards>>
  BY DEF EndCase
<1>3. Frame(b) /\ Stands(b)' /\ UNCHANGED <<observations, assessments>>
  BY <1>1, <1>2, ReportStep
<1>4. /\ call' = [call EXCEPT ![b].report =
                    IF b \in Batches /\ call[b].outcome \in Statuses THEN BugFound(b) ELSE "none"]
      /\ pc[b] = "returned" /\ pc' = [pc EXCEPT ![b] = "done"]
  BY <1>2 DEF Report
<1>5. /\ call'[b].number = call[b].number /\ call'[b].primary = call[b].primary
      /\ call'[b].report = IF call[b].outcome \in Statuses THEN BugFound(b) ELSE "none"
      /\ pc'[b] = "done"
  BY <1>1, <1>4 DEF Call, OracleInv, CallTypes
<1>6. /\ DOMAIN batch[b] = {"phase", "mode", "prepared", "cases", "warnings", "status"}
      /\ batch[b].cases \in Seq(Case) /\ batch[b].prepared \in Nat
      /\ call[b].number = n + 1 /\ n < batch[b].prepared /\ batch[b].status = "running"
  BY <1>1, <1>2 DEF CasesAreRequests, RewardsAreOwed
<1>7. /\ batch'[b].phase = "summary" /\ batch'[b].cases = Append(batch[b].cases, new)
      /\ batch'[b].prepared = batch[b].prepared /\ batch'[b].status = batch[b].status
      /\ batch'[b].mode = batch[b].mode /\ DOMAIN batch'[b] = DOMAIN batch[b]
  BY <1>6 DEF EndCase, RewardInv
<1>8. new \in Case
  BY <1>1 DEF Case, Call
<1>9. <<b, n + 1, "primary">> \in DOMAIN assessments =>
        new.bug = (assessments[<<b, n + 1, "primary">>].verdict = "reproduced")
  <2> SUFFICES ASSUME Own(b, "primary") \in DOMAIN assessments
               PROVE  (call'[b].report = "bug") <=> (assessments[Own(b, "primary")].verdict = "reproduced")
    BY <1>6 DEF Own
  <2>1. call[b].primary = Own(b, "primary")
    BY <1>1 DEF Stands, VerdictIsHeld
  <2>2. CASE call[b].outcome \in Statuses
    <3>1. BugFound(b) # "none"
      BY DEF BugFound
    <3> QED
      BY <1>3, <1>5, <2>1, <2>2, <3>1 DEF Stands, ReportIsHeld
  <2>3. CASE call[b].outcome \notin Statuses
    <3>1. ~call[b].replay
      BY <1>1, <2>3 DEF Stands, AnswerStands
    <3> QED
      BY <1>1, <1>5, <2>3, <3>1 DEF Stands, VerdictIsHeld
  <2> QED
    BY <2>2, <2>3
<1> HIDE DEF new, n
<1>10. n \in Nat /\ n = Len(batch[b].cases)
  BY <1>6 DEF n
<1>11. /\ batch'[b].cases \in Seq(Case) /\ Len(batch'[b].cases) = n + 1 /\ DOMAIN batch'[b].cases = 1..(n + 1)
       /\ \A i \in 1..n : batch'[b].cases[i] = batch[b].cases[i] /\ batch'[b].cases[n + 1] = new
       /\ DOMAIN batch[b].cases = 1..n
  BY <1>6, <1>7, <1>8, <1>10
<1>12. \A i \in DOMAIN batch'[b].cases : <<b, i, "primary">> \in DOMAIN assessments =>
         batch'[b].cases[i].bug = (assessments[<<b, i, "primary">>].verdict = "reproduced")
  <2> SUFFICES ASSUME NEW i \in 1..(n + 1), <<b, i, "primary">> \in DOMAIN assessments
               PROVE  batch'[b].cases[i].bug = (assessments[<<b, i, "primary">>].verdict = "reproduced")
    BY <1>11
  <2>1. CASE i = n + 1
    <3>1. batch'[b].cases[n + 1] = new
      BY <1>6, <1>7, <1>10
    <3> QED
      BY <1>9, <2>1, <3>1
  <2>2. CASE i \in 1..n
    BY <1>1, <1>11, <2>2 DEF CasesAreRequests
  <2> QED
    BY <1>10, <2>1, <2>2
<1>13. CasesAreRequests(b)'
  BY <1>3, <1>5, <1>6, <1>7, <1>11, <1>12 DEF CasesAreRequests
<1>14. RewardsAreOwed(b)'
  BY <1>1, <1>2, <1>6, <1>7, <1>10, <1>11 DEF RewardsAreOwed
<1> QED
  BY <1>13, <1>14

\* A step that leaves the cases and the Assessments alone and keeps count.
LEMMA SameCases ==
  ASSUME RewardInv, NEW b \in Batches, UNCHANGED assessments,
         DOMAIN batch'[b] = DOMAIN batch[b], batch'[b].cases = batch[b].cases,
         batch'[b].prepared = batch[b].prepared, batch'[b].phase # "waiting",
         batch'[b].phase \in {"ready", "case", "summary", "ending"} /\ batch'[b].status # "failed" =>
           call'[b].number = Len(batch[b].cases) + IF batch'[b].phase = "case" THEN 1 ELSE 0
  PROVE  CasesAreRequests(b)'
PROOF
<1>1. CasesAreRequests(b)
  BY DEF RewardInv
<1> QED
  BY <1>1 DEF CasesAreRequests

\* The steps of the Batch itself, between its cases.
LEMMA BetweenCases ==
  ASSUME RewardInv, NEW b \in Batches,
         \/ \E mode \in {"valid", "invalid"}, n \in 1..MaxCalls : StartBatch(b, mode, n)
         \/ StartFails(b) \/ UpdateSummary(b) \/ Conclude(b) \/ GiveRewards(b) \/ Interrupt(b)
  PROVE  CasesAreRequests(b)' /\ RewardsAreOwed(b)'
PROOF
<1>1. /\ CasesAreRequests(b) /\ RewardsAreOwed(b) /\ DOMAIN batch = Batches /\ DOMAIN rewards = Batches
      /\ batch[b].cases \in Seq(Case) /\ batch[b].prepared \in Nat
      /\ DOMAIN batch[b] = {"phase", "mode", "prepared", "cases", "warnings", "status"}
  BY DEF RewardInv, CasesAreRequests
<1>2. Len(batch[b].cases) \in Nat
  BY <1>1
<1>3. ASSUME NEW mode \in {"valid", "invalid"}, NEW n \in 1..MaxCalls, StartBatch(b, mode, n)
      PROVE  CasesAreRequests(b)' /\ RewardsAreOwed(b)'
  <2>1. batch[b] = Waiting /\ call[b].number = 0 /\ rewards[b] = <<>>
        /\ UNCHANGED <<vars, rewards>>
    BY <1>1, <1>3 DEF StartBatch, CasesAreRequests, RewardsAreOwed
  <2>2. batch'[b] = [Waiting EXCEPT !.phase = "ready", !.mode = mode, !.prepared = n]
    BY <1>1, <1>3 DEF StartBatch
  <2>3. /\ DOMAIN batch'[b] = {"phase", "mode", "prepared", "cases", "warnings", "status"}
        /\ batch'[b].phase = "ready" /\ batch'[b].prepared = n /\ batch'[b].cases = <<>>
        /\ batch'[b].status = "running"
    BY <2>2 DEF Waiting
  <2>4. n \in Nat /\ 0 < n
    BY CallersAssumption
  <2>5. call'[b].number = 0
    BY <2>1 DEF vars
  <2>6. <<>> \in Seq(Case) /\ Len(<<>>) = 0 /\ DOMAIN <<>> = {}
    OBVIOUS
  <2> QED
    BY <2>1, <2>3, <2>4, <2>5, <2>6 DEF CasesAreRequests, RewardsAreOwed
<1>4. CASE StartFails(b) \/ Interrupt(b)
  <2>1. /\ batch'[b].phase \in {"failed", "interrupted"} /\ UNCHANGED <<vars, rewards>>
        /\ batch[b].phase # "returned"
        /\ DOMAIN batch'[b] = DOMAIN batch[b] /\ batch'[b].cases = batch[b].cases
        /\ batch'[b].prepared = batch[b].prepared
    BY <1>1, <1>4 DEF StartFails, Interrupt
  <2>2. CasesAreRequests(b)'
    BY <2>1, SameCases DEF vars
  <2> QED
    BY <1>1, <2>1, <2>2 DEF RewardsAreOwed
<1>5. CASE UpdateSummary(b)
  <2>1. /\ batch[b].phase = "summary" /\ batch'[b].phase = AfterSummary(b) /\ UNCHANGED <<vars, rewards>>
        /\ DOMAIN batch'[b] = DOMAIN batch[b] /\ batch'[b].cases = batch[b].cases
        /\ batch'[b].prepared = batch[b].prepared /\ batch'[b].status = batch[b].status
    BY <1>1, <1>5 DEF UpdateSummary
  <2>2. \/ batch[b].status = "failed" /\ batch'[b].phase = "failed"
        \/ /\ batch[b].status = "completed" /\ batch'[b].phase = "reward"
           /\ Len(batch[b].cases) = batch[b].prepared
        \/ /\ batch[b].status = "running" /\ batch'[b].phase = "ready"
           /\ Len(batch[b].cases) < batch[b].prepared
        \/ /\ batch[b].status = "running" /\ batch'[b].phase = "ending"
           /\ Len(batch[b].cases) = batch[b].prepared
    BY <1>1, <1>2, <2>1 DEF AfterSummary, NextPhase, RewardsAreOwed
  <2>3. batch[b].status # "failed" => call'[b].number = Len(batch[b].cases) + 0
    BY <1>1, <2>1 DEF CasesAreRequests, vars
  <2>4. CasesAreRequests(b)'
    BY <2>1, <2>2, <2>3, SameCases DEF vars
  <2> QED
    BY <1>1, <2>1, <2>2, <2>4 DEF RewardsAreOwed
<1>6. CASE Conclude(b)
  <2>1. /\ batch[b].phase = "ending" /\ batch'[b].phase = "summary" /\ UNCHANGED <<vars, rewards>>
        /\ DOMAIN batch'[b] = DOMAIN batch[b] /\ batch'[b].cases = batch[b].cases
        /\ batch'[b].prepared = batch[b].prepared /\ batch'[b].status = "completed"
    BY <1>1, <1>6 DEF Conclude
  <2>2. Len(batch[b].cases) = batch[b].prepared /\ call'[b].number = Len(batch[b].cases) + 0
    BY <1>1, <2>1 DEF CasesAreRequests, RewardsAreOwed, vars
  <2>3. CasesAreRequests(b)'
    BY <2>1, <2>2, SameCases DEF vars
  <2> QED
    BY <1>1, <1>2, <2>1, <2>2, <2>3 DEF RewardsAreOwed
<1>7. CASE GiveRewards(b)
  <2>1. /\ batch[b].phase = "reward" /\ batch'[b].phase = "returned" /\ UNCHANGED vars
        /\ DOMAIN batch'[b] = DOMAIN batch[b] /\ batch'[b].cases = batch[b].cases
        /\ batch'[b].prepared = batch[b].prepared /\ batch'[b].status = batch[b].status
        /\ batch'[b].mode = batch[b].mode
        /\ rewards'[b] = [i \in DOMAIN batch[b].cases |-> Reward(b, batch[b].cases[i])]
    BY <1>1, <1>7 DEF GiveRewards
  <2>2. CasesAreRequests(b)'
    BY <2>1, SameCases DEF vars
  <2>3. \A i \in DOMAIN batch[b].cases : Reward(b, batch[b].cases[i])' = Reward(b, batch[b].cases[i])
    BY <2>1 DEF Reward
  <2>4. rewards'[b] = [i \in DOMAIN batch'[b].cases |-> Reward(b, batch[b].cases[i])']
    BY <2>1, <2>3
  <2> QED
    BY <1>1, <2>1, <2>2, <2>4 DEF RewardsAreOwed
<1> QED
  BY <1>3, <1>4, <1>5, <1>6, <1>7

\* The steps between the Batch and its client.
LEMMA AroundCases ==
  ASSUME RewardInv, NEW b \in Batches, SendCase(b) \/ CaseRaises(b) \/ NextCase(b)
  PROVE  CasesAreRequests(b)' /\ RewardsAreOwed(b)'
PROOF
<1>1. /\ CasesAreRequests(b) /\ RewardsAreOwed(b) /\ DOMAIN batch = Batches
      /\ batch[b].cases \in Seq(Case) /\ batch[b].prepared \in Nat
      /\ DOMAIN batch[b] = {"phase", "mode", "prepared", "cases", "warnings", "status"}
      /\ b \in Callers /\ call \in [Callers -> Call]
  BY DEF RewardInv, CasesAreRequests, OracleInv, CallTypes, Callers
<1>2. Len(batch[b].cases) \in Nat
  BY <1>1
<1>3. CASE SendCase(b)
  <2>1. /\ batch[b].phase = "ready" /\ batch'[b].phase = "case" /\ UNCHANGED <<assessments, rewards>>
        /\ DOMAIN batch'[b] = DOMAIN batch[b] /\ batch'[b].cases = batch[b].cases
        /\ batch'[b].prepared = batch[b].prepared /\ batch'[b].status = batch[b].status
        /\ call'[b].number = call[b].number + 1
    BY <1>1, <1>3 DEF SendCase, Send, NewCall
  <2>2. call[b].number = Len(batch[b].cases) /\ batch[b].status = "running"
        /\ Len(batch[b].cases) < batch[b].prepared
    BY <1>1, <1>2, <2>1 DEF CasesAreRequests, RewardsAreOwed
  <2>3. CasesAreRequests(b)'
    BY <2>1, <2>2, SameCases
  <2> QED
    BY <1>1, <2>1, <2>2, <2>3 DEF RewardsAreOwed
<1>4. CASE CaseRaises(b)
  <2>1. /\ batch[b].phase = "case" /\ batch'[b].phase = "summary" /\ UNCHANGED <<assessments, rewards>>
        /\ DOMAIN batch'[b] = DOMAIN batch[b] /\ batch'[b].cases = batch[b].cases
        /\ batch'[b].prepared = batch[b].prepared /\ batch'[b].status = "failed"
    BY <1>1, <1>4 DEF CaseRaises
  <2>2. CasesAreRequests(b)'
    BY <2>1, SameCases
  <2> QED
    BY <1>1, <2>1, <2>2 DEF RewardsAreOwed
<1>5. CASE NextCase(b)
  <2>1. batch' = batch /\ rewards' = rewards /\ call' = call /\ UNCHANGED assessments
        /\ batch[b].phase = "ready"
    BY <1>5 DEF NextCase, Again
  <2>2. call'[b].number = Len(batch[b].cases) + 0
    BY <1>1, <2>1 DEF CasesAreRequests, RewardsAreOwed
  <2>3. CasesAreRequests(b)'
    BY <2>1, <2>2, SameCases
  <2> QED
    BY <1>1, <2>1, <2>3 DEF RewardsAreOwed, Reward
<1> QED
  BY <1>3, <1>4, <1>5

LEMMA RewardStart ==
  ASSUME BatchInit
  PROVE  RewardInv
PROOF
<1>1. OracleInv
  BY OracleStart
<1>2. DOMAIN batch = Batches /\ DOMAIN rewards = Batches
  BY DEF BatchInit
<1>3. ASSUME NEW b \in Batches
      PROVE  CasesAreRequests(b) /\ RewardsAreOwed(b)
  <2>1. batch[b] = Waiting /\ rewards[b] = <<>> /\ call[b].number = 0
    BY DEF BatchInit, Init, NewCall, Callers
  <2>2. <<>> \in Seq(Case) /\ DOMAIN <<>> = {}
    OBVIOUS
  <2>3. /\ DOMAIN Waiting = {"phase", "mode", "prepared", "cases", "warnings", "status"}
        /\ Waiting.phase = "waiting" /\ Waiting.cases = <<>> /\ Waiting.prepared = 0
    BY DEF Waiting
  <2> QED
    BY <2>1, <2>2, <2>3 DEF CasesAreRequests, RewardsAreOwed
<1> QED
  BY <1>1, <1>2, <1>3 DEF RewardInv

\* The callers other than c may go on as if nothing had happened.
LEMMA StepFrame ==
  ASSUME OracleInv, NEW c \in Callers,
         \/ UNCHANGED vars \/ Exchange(c) \/ Report(c)
         \/ \E v \in Validities(c) : Send(c, v)
         \/ /\ UNCHANGED <<call, observations, assessments>>
            /\ \/ pc[c] = "returned" /\ pc' = [pc EXCEPT ![c] = "done"]
               \/ pc[c] = "done" /\ pc' = [pc EXCEPT ![c] = "idle"]
  PROVE  Frame(c)
PROOF
<1>1. CASE UNCHANGED vars
  <2>1. pc' = pc /\ call' = call /\ observations' = observations /\ assessments' = assessments
    BY <1>1 DEF vars
  <2>2. /\ pc' = [pc EXCEPT ![c] = pc'[c]] /\ pc'[c] \in Places
        /\ call' = [call EXCEPT ![c] = call'[c]] /\ call'[c] \in Call
        /\ pc'[c] # "idle" => call'[c].number \in 1..MaxCalls
    BY <2>1 DEF OracleInv, CallTypes
  <2>3. observations' \ observations = {} /\ DOMAIN assessments' \ DOMAIN assessments = {}
    BY <2>1
  <2> QED
    BY <2>1, <2>2, <2>3 DEF Frame
<1>2. CASE Exchange(c)
  BY <1>2, ExchangeFrame
<1>3. CASE Report(c)
  BY <1>3, ReportStep
<1>4. CASE \E v \in Validities(c) : Send(c, v)
  BY <1>4, SendStep
<1>5. CASE /\ UNCHANGED <<call, observations, assessments>>
           /\ \/ pc[c] = "returned" /\ pc' = [pc EXCEPT ![c] = "done"]
              \/ pc[c] = "done" /\ pc' = [pc EXCEPT ![c] = "idle"]
  BY <1>5, MoveStep
<1> QED
  BY <1>1, <1>2, <1>3, <1>4, <1>5

LEMMA RewardStep ==
  ASSUME RewardInv, [BatchNext]_batchVars
  PROVE  RewardInv'
PROOF
<1>1. OracleInv'
  BY OracleStep DEF RewardInv
<1>2. DOMAIN batch = Batches /\ DOMAIN rewards = Batches /\ OracleInv
  BY DEF RewardInv
<1>3. CASE UNCHANGED batchVars
  <2> SUFFICES ASSUME NEW b \in Batches
               PROVE  CasesAreRequests(b)' /\ RewardsAreOwed(b)'
    BY <1>1, <1>2, <1>3 DEF RewardInv, batchVars
  <2>1. CasesAreRequests(b) /\ RewardsAreOwed(b)
    BY DEF RewardInv
  <2>2. batch' = batch /\ rewards' = rewards /\ call' = call /\ assessments' = assessments
    BY <1>3 DEF batchVars, vars
  <2> QED
    BY <2>1, <2>2 DEF CasesAreRequests, RewardsAreOwed, Reward
<1>4. ASSUME NEW t \in Tools, ToolStep(t)
      PROVE  RewardInv'
  <2>1. t \in Callers /\ batch' = batch /\ rewards' = rewards
    BY <1>4 DEF ToolStep, Callers
  <2>2. Frame(t)
    BY <1>2, <1>4, <2>1, StepFrame DEF ToolStep
  <2>3. \A d \in Batches : d # t
    BY CallersAssumption
  <2> QED
    BY <1>1, <1>2, <2>1, <2>2, <2>3, OthersAreKept DEF RewardInv
<1>5. ASSUME NEW b \in Batches,
             \/ \E mode \in {"valid", "invalid"}, n \in 1..MaxCalls : StartBatch(b, mode, n)
             \/ StartFails(b) \/ UpdateSummary(b) \/ Conclude(b) \/ GiveRewards(b) \/ Interrupt(b)
             \/ SendCase(b) \/ CaseStep(b) \/ EndCase(b) \/ CaseRaises(b) \/ NextCase(b)
      PROVE  RewardInv'
  <2>1. b \in Callers
    BY DEF Callers
  <2>2. CasesAreRequests(b)' /\ RewardsAreOwed(b)'
    BY <1>5, BetweenCases, AroundCases, CaseStepKeeps, EndCaseKeeps
  <2>3. Frame(b)
    <3>1. CASE SendCase(b)
      <4>1. Send(b, batch[b].mode) /\ batch[b].mode \in Validities(b)
        BY <3>1 DEF SendCase, Send
      <4> QED
        BY <1>2, <2>1, <4>1, StepFrame
    <3>2. CASE CaseStep(b)
      BY <1>2, <2>1, <3>2, StepFrame DEF CaseStep
    <3>3. CASE EndCase(b)
      BY <1>2, <2>1, <3>3, StepFrame DEF EndCase
    <3>4. CASE CaseRaises(b)
      BY <1>2, <2>1, <3>4, StepFrame DEF CaseRaises
    <3>5. CASE NextCase(b)
      BY <1>2, <2>1, <3>5, StepFrame DEF NextCase, Again
    <3>6. CASE \/ \E mode \in {"valid", "invalid"}, n \in 1..MaxCalls : StartBatch(b, mode, n)
               \/ StartFails(b) \/ UpdateSummary(b) \/ Conclude(b) \/ GiveRewards(b) \/ Interrupt(b)
      <4>1. UNCHANGED vars
        BY <3>6 DEF StartBatch, StartFails, UpdateSummary, Conclude, GiveRewards, Interrupt
      <4> QED
        BY <1>2, <2>1, <4>1, StepFrame
    <3> QED
      BY <1>5, <3>1, <3>2, <3>3, <3>4, <3>5, <3>6
  <2>4. /\ DOMAIN batch' = Batches /\ DOMAIN rewards' = Batches
        /\ \A d \in Batches : d # b => batch'[d] = batch[d] /\ rewards'[d] = rewards[d]
    <3>1. CASE \E mode \in {"valid", "invalid"}, n \in 1..MaxCalls : StartBatch(b, mode, n)
      BY <1>2, <3>1 DEF StartBatch
    <3>2. CASE UpdateSummary(b)
      BY <1>2, <3>2 DEF UpdateSummary
    <3>3. CASE StartFails(b) \/ Conclude(b) \/ GiveRewards(b) \/ Interrupt(b)
      BY <1>2, <3>3 DEF StartFails, Conclude, GiveRewards, Interrupt
    <3>4. CASE SendCase(b) \/ CaseStep(b) \/ EndCase(b) \/ CaseRaises(b) \/ NextCase(b)
      BY <1>2, <3>4 DEF SendCase, CaseStep, EndCase, CaseRaises, NextCase
    <3> QED
      BY <1>5, <3>1, <3>2, <3>3, <3>4
  <2>5. \A d \in Batches : CasesAreRequests(d)' /\ RewardsAreOwed(d)'
    BY <2>1, <2>2, <2>3, <2>4, OthersAreKept
  <2> QED
    BY <1>1, <2>4, <2>5 DEF RewardInv
<1> QED
  BY <1>3, <1>4, <1>5 DEF BatchNext

\* Generators learn from whole Batches only, once, and from no Bug that the stored
\* Assessment of the case denies.
THEOREM RewardsStayEarned == BatchSpec => []RewardsAreEarned
PROOF
<1>1. BatchInit => RewardInv
  BY RewardStart
<1>2. RewardInv /\ [BatchNext]_batchVars => RewardInv'
  BY RewardStep
<1>3. ASSUME RewardInv
      PROVE  RewardsAreEarned
  <2> SUFFICES ASSUME NEW b \in Batches
               PROVE  /\ rewards[b] # <<>> => batch[b].phase = "returned"
                      /\ batch[b].phase = "returned" => Len(rewards[b]) = batch[b].prepared
                      /\ batch[b].mode = "invalid" => \A i \in DOMAIN rewards[b] :
                           <<b, i, "primary">> \in DOMAIN assessments =>
                             rewards[b][i] = (assessments[<<b, i, "primary">>].verdict = "reproduced")
    BY DEF RewardsAreEarned
  <2>1. CasesAreRequests(b) /\ RewardsAreOwed(b) /\ batch[b].cases \in Seq(Case)
    BY <1>3 DEF RewardInv, CasesAreRequests
  <2>2. CASE batch[b].phase # "returned"
    <3>1. rewards[b] = <<>> /\ DOMAIN <<>> = {}
      BY <2>1, <2>2 DEF RewardsAreOwed
    <3> QED
      BY <2>2, <3>1
  <2>3. CASE batch[b].phase = "returned"
    <3>1. /\ rewards[b] = [i \in DOMAIN batch[b].cases |-> Reward(b, batch[b].cases[i])]
          /\ Len(batch[b].cases) = batch[b].prepared
      BY <2>1, <2>3 DEF RewardsAreOwed
    <3>2. rewards[b] = [i \in 1..Len(batch[b].cases) |-> Reward(b, batch[b].cases[i])]
          /\ Len(batch[b].cases) \in Nat
      BY <2>1, <3>1
    <3>3. Len(rewards[b]) = batch[b].prepared
      BY <3>1, <3>2
    <3>4. ASSUME batch[b].mode = "invalid", NEW i \in DOMAIN rewards[b],
                 <<b, i, "primary">> \in DOMAIN assessments
          PROVE  rewards[b][i] = (assessments[<<b, i, "primary">>].verdict = "reproduced")
      BY <2>1, <3>1, <3>4 DEF CasesAreRequests, Reward
    <3> QED
      BY <2>3, <3>3, <3>4
  <2> QED
    BY <2>2, <2>3
<1> QED
  BY <1>1, <1>2, <1>3, PTL DEF BatchSpec

-----------------------------------------------------------------------------
(* Sums.  MapThenSumSet takes the members of a set in an order that CHOOSE *)
(* fixes; two sums over the same set therefore take the same steps.        *)

\* A set with zero and the successors of its members has all natural numbers.
LEMMA SetInduction ==
  ASSUME NEW S, 0 \in S, \A n \in Nat : n \in S => n + 1 \in S
  PROVE  Nat \subseteq S
<1>1. SUFFICES ASSUME Nat \ S # {} PROVE FALSE
  OBVIOUS
<1>2. PICK n \in Nat \ S : \A k \in Nat \ S : ~(<<k, n>> \in OpToRel(<, Nat))
  <2> DEFINE R == OpToRel(<, Nat)
  <2>1. IsWellFoundedOn(R, Nat)
    BY NatLessThanWellFounded
  <2> HIDE DEF R
  <2>2. \E n \in Nat \ S : \A k \in Nat \ S : ~(<<k, n>> \in R)
    BY <1>1, <2>1, WFMin
  <2> QED
    BY <2>2 DEF R
<1>6. n # 0
  BY <1>2
<1>3. n - 1 \in Nat /\ n = (n - 1) + 1
  BY <1>6
<1>4. <<n - 1, n>> \in OpToRel(<, Nat)
  BY <1>3 DEF OpToRel
<1>5. n - 1 \in S
  <2> DEFINE R == OpToRel(<, Nat)
  <2> HIDE DEF R
  <2>1. <<n - 1, n>> \in R /\ \A k \in Nat \ S : ~(<<k, n>> \in R)
    BY <1>2, <1>4 DEF R
  <2> QED
    BY <1>3, <2>1
<1> QED
  BY <1>2, <1>3, <1>5

Some(s) == CHOOSE b \in s : TRUE

\* F sums a over the subsets of S, one chosen member at a time.
IsSum(F, S, a) ==
  \A s \in SUBSET S : F[s] = IF s = {} THEN 0 ELSE a[Some(s)] + F[s \ {Some(s)}]

LEMMA SomeOf ==
  ASSUME NEW S, IsFiniteSet(S), NEW s \in SUBSET S, s # {}
  PROVE  /\ Some(s) \in s /\ s \ {Some(s)} \in SUBSET S
         /\ Cardinality(s) \in Nat /\ Cardinality(s \ {Some(s)}) = Cardinality(s) - 1
PROOF
<1>1. Some(s) \in s
  BY DEF Some
<1>2. IsFiniteSet(s)
  BY FS_Subset
<1> QED
  BY <1>1, <1>2, FS_RemoveElement, FS_CardinalityType

\* Such a function exists, so the recursion of MapThenSumSet has a solution.
LEMMA SumExists ==
  ASSUME NEW S, IsFiniteSet(S), NEW a \in [S -> Nat]
  PROVE  \E F \in [SUBSET S -> Nat] : IsSum(F, S, a)
PROOF
<1> DEFINE Step(g, s) == IF s = {} THEN 0 ELSE a[Some(s)] + g[s \ {Some(s)}]
           Solves(g, k) == \A s \in SUBSET S : Cardinality(s) <= k => g[s] = Step(g, s)
           T == {k \in Nat : \E g \in [SUBSET S -> Nat] : Solves(g, k)}
<1>1. ASSUME NEW g \in [SUBSET S -> Nat], NEW s \in SUBSET S PROVE Step(g, s) \in Nat
  <2>1. CASE s # {}
    <3>1. Some(s) \in S /\ s \ {Some(s)} \in SUBSET S
      BY <2>1, SomeOf
    <3> QED
      BY <3>1
  <2> QED
    BY <2>1
<1>2. 0 \in T
  <2> DEFINE g == [s \in SUBSET S |-> 0]
  <2>1. g \in [SUBSET S -> Nat]
    OBVIOUS
  <2>2. ASSUME NEW s \in SUBSET S, Cardinality(s) <= 0 PROVE s = {}
    <3>1. IsFiniteSet(s)
      BY FS_Subset
    <3>2. Cardinality(s) = 0
      BY <2>2, <3>1, FS_CardinalityType
    <3> QED
      BY <3>1, <3>2, FS_EmptySet
  <2>3. Solves(g, 0)
    BY <2>2
  <2> QED
    BY <2>1, <2>3
<1>3. ASSUME NEW k \in Nat, k \in T PROVE k + 1 \in T
  <2>1. PICK g \in [SUBSET S -> Nat] : Solves(g, k)
    BY <1>3
  <2> DEFINE h == [s \in SUBSET S |-> Step(g, s)]
  <2>2. h \in [SUBSET S -> Nat]
    BY <1>1
  <2>3. ASSUME NEW s \in SUBSET S, Cardinality(s) <= k + 1 PROVE h[s] = Step(h, s)
    <3>1. CASE s # {}
      <4> DEFINE r == s \ {Some(s)}
      <4>1. r \in SUBSET S /\ Cardinality(r) <= k
        BY <2>3, <3>1, SomeOf
      <4>2. h[r] = g[r]
        BY <2>1, <4>1
      <4> QED
        BY <3>1, <4>1, <4>2
    <3> QED
      BY <3>1
  <2> HIDE DEF h
  <2>4. Solves(h, k + 1)
    BY <2>3
  <2> HIDE DEF Solves
  <2>5. \E x \in [SUBSET S -> Nat] : Solves(x, k + 1)
    BY <2>2, <2>4
  <2>6. k + 1 \in Nat
    OBVIOUS
  <2> QED
    BY <2>5, <2>6
<1>4. Nat \subseteq T
  <2> HIDE DEF T
  <2> QED
    BY <1>2, <1>3, SetInduction
<1>5. Cardinality(S) \in Nat
  BY FS_CardinalityType
<1>6. PICK g \in [SUBSET S -> Nat] : Solves(g, Cardinality(S))
  BY <1>4, <1>5
<1>7. \A s \in SUBSET S : Cardinality(s) <= Cardinality(S)
  BY FS_Subset
<1> QED
  BY <1>6, <1>7 DEF IsSum

\* The greater of two functions has the greater sum.
LEMMA SumsCompare ==
  ASSUME NEW S, IsFiniteSet(S), NEW a \in [S -> Nat], NEW b \in [S -> Nat],
         \A x \in S : a[x] <= b[x],
         NEW F, IsSum(F, S, a), NEW G, IsSum(G, S, b)
  PROVE  F[S] \in Nat /\ G[S] \in Nat /\ F[S] <= G[S]
PROOF
<1> DEFINE Fits(s) == F[s] \in Nat /\ G[s] \in Nat /\ F[s] <= G[s]
           T == {k \in Nat : \A s \in SUBSET S : Cardinality(s) = k => Fits(s)}
<1>1. 0 \in T
  <2>1. ASSUME NEW s \in SUBSET S, Cardinality(s) = 0 PROVE Fits(s)
    <3>1. s = {}
      BY <2>1, FS_Subset, FS_EmptySet
    <3>2. F[{}] = 0 /\ G[{}] = 0
      BY DEF IsSum
    <3> QED
      BY <3>1, <3>2
  <2> QED
    BY <2>1
<1>2. ASSUME NEW k \in Nat, k \in T PROVE k + 1 \in T
  <2>1. ASSUME NEW s \in SUBSET S, Cardinality(s) = k + 1 PROVE Fits(s)
    <3> DEFINE r == s \ {Some(s)}
    <3>1. s # {}
      BY <2>1, FS_EmptySet
    <3>2. Some(s) \in S /\ r \in SUBSET S /\ Cardinality(r) = k
      BY <2>1, <3>1, SomeOf
    <3>3. Fits(r)
      BY <1>2, <3>2
    <3>4. F[s] = a[Some(s)] + F[r] /\ G[s] = b[Some(s)] + G[r]
      BY <3>1 DEF IsSum
    <3>5. a[Some(s)] \in Nat /\ b[Some(s)] \in Nat /\ a[Some(s)] <= b[Some(s)]
      BY <3>2
    <3> HIDE DEF r
    <3> QED
      BY <3>3, <3>4, <3>5
  <2> QED
    BY <2>1
<1>3. Nat \subseteq T
  <2> HIDE DEF T
  <2> QED
    BY <1>1, <1>2, SetInduction
<1> QED
  BY <1>3, FS_CardinalityType

-----------------------------------------------------------------------------
(* The summaries of a Batch.                                               *)

Unwritten == "batch_summary_persistence_failed"

\* The last summary was written after the last change of the Batch.
Noted(b) ==
  batch[b].phase \notin {"waiting", "summary", "interrupted"} /\ ~Said(b, Unwritten)

\* The stored summary tells of the first n cases and of p rows.
Tells(b, n, p) ==
  LET x == batch[b]
      s == batches[b]
  IN  /\ s = Summary(x.mode, s.status, SubSeq(x.cases, 1, n), p, s.logs)
      /\ s.logs \subseteq x.warnings
      /\ s.status = "completed" => n = x.prepared
      /\ Noted(b) => n = Len(x.cases) /\ s.status = x.status

HasSummary(b) == batches[b] # NoSummary \/ batch[b].phase \notin {"waiting", "failed"}

SummaryStands(b) ==
  /\ batch[b].phase = "waiting" => batches[b] = NoSummary
  /\ HasSummary(b) =>
       \E n \in 0..Len(batch[b].cases), p \in 0..Cardinality(StoredRows(b)) : Tells(b, n, p)

\* How a Batch that is over says so.
EndIsSaid(b) ==
  LET x == batch[b]
  IN  /\ x.phase \in {"reward", "returned"} =>
           /\ x.status = "completed"
           /\ Cardinality(StoredRows(b)) < Len(x.cases) =>
                Said(b, "observation_persistence_incomplete") \/ Said(b, Unwritten)
      /\ x.phase = "failed" /\ batches[b] # NoSummary => x.status = "failed"

SummaryInv ==
  /\ RewardInv /\ DOMAIN batches = Batches
  /\ \A b \in Batches : SummaryStands(b) /\ EndIsSaid(b)

LEMMA SummaryFields ==
  ASSUME NEW mode, NEW status, NEW cases, NEW stored, NEW warnings
  PROVE  LET s == Summary(mode, status, cases, stored, warnings)
         IN  /\ s.mode = mode /\ s.status = status /\ s.logs = warnings
             /\ s.executed = Len(cases)
BY DEF Summary

\* The first cases stay the first when one more is added.
LEMMA FirstCases ==
  ASSUME NEW cases \in Seq(Case), NEW n \in 0..Len(cases)
  PROVE  /\ Len(SubSeq(cases, 1, n)) = n
         /\ n = Len(cases) => SubSeq(cases, 1, n) = cases
         /\ \A case : /\ Len(Append(cases, case)) = Len(cases) + 1
                      /\ SubSeq(Append(cases, case), 1, n) = SubSeq(cases, 1, n)
PROOF
<1>1. Len(SubSeq(cases, 1, n)) = n
  OBVIOUS
<1>2. n = Len(cases) => SubSeq(cases, 1, n) = cases
  OBVIOUS
<1>3. ASSUME NEW case
      PROVE  /\ Len(Append(cases, case)) = Len(cases) + 1
             /\ SubSeq(Append(cases, case), 1, n) = SubSeq(cases, 1, n)
  OBVIOUS
<1> QED
  BY <1>1, <1>2, <1>3

\* Rows of one Batch with identities of their own are finitely many.
LEMMA RowsAreFew ==
  ASSUME NEW rows, NEW b,
         \A o \in rows : \E n \in 1..MaxCalls : o.id = <<b, n, "primary">>,
         \A o1, o2 \in rows : o1.id = o2.id => o1 = o2
  PROVE  IsFiniteSet(rows) /\ Cardinality(rows) \in Nat
PROOF
<1> DEFINE requests == 1..MaxCalls
           f == [o \in rows |-> o.id[2]]
<1>1. MaxCalls \in Nat
  BY CallersAssumption
<1>2. IsFiniteSet(requests)
  BY <1>1, FS_Interval
<1>3. f \in [rows -> requests]
  OBVIOUS
<1>4. ASSUME NEW o1 \in rows, NEW o2 \in rows, f[o1] = f[o2] PROVE o1 = o2
  <2>1. o1.id = o2.id
    BY <1>4
  <2> QED
    BY <2>1
<1>5. f \in Injection(rows, requests)
  BY <1>3, <1>4 DEF Injection, IsInjective
<1> HIDE DEF f, requests
<1>6. IsFiniteSet(rows)
  BY <1>2, <1>5, FS_Injection
<1> QED
  BY <1>6, FS_CardinalityType

OwnRows(b) ==
  /\ \A o \in StoredRows(b) : \E n \in 1..MaxCalls : o.id = <<b, n, "primary">>
  /\ \A o1, o2 \in StoredRows(b) : o1.id = o2.id => o1 = o2

\* The rows that count for a Batch: one for each of its requests at most.
LEMMA StoredAreOwn ==
  OracleInv => \A b \in Batches : OwnRows(b)
PROOF
<1> SUFFICES ASSUME OracleInv, NEW b \in Batches PROVE OwnRows(b)
  OBVIOUS
<1>1. MaxCalls \in Nat
  BY CallersAssumption
<1>2. ASSUME NEW c \in Callers, NEW n \in 1..call[c].number
      PROVE  n \in 1..MaxCalls /\ <<c, n, "primary">> # NoId
  <2>1. n \in 1..MaxCalls
    BY <1>1 DEF OracleInv, CallTypes, Call
  <2> QED
    BY <2>1, CallersAssumption DEF Callers
<1>3. ASSUME NEW o \in StoredRows(b) PROVE \E n \in 1..MaxCalls : o.id = <<b, n, "primary">>
  <2>1. o \in observations /\ o.id[1] = b /\ o.of = NoId
    BY DEF StoredRows
  <2>2. PICK c \in Callers : \E n \in 1..call[c].number :
          \/ o.id = <<c, n, "primary">> /\ o.of = NoId
          \/ o.id = <<c, n, "replay">> /\ o.of = <<c, n, "primary">>
    BY <2>1 DEF OracleInv, RowsAreOwned
  <2>3. PICK n \in 1..call[c].number :
          \/ o.id = <<c, n, "primary">> /\ o.of = NoId
          \/ o.id = <<c, n, "replay">> /\ o.of = <<c, n, "primary">>
    BY <2>2
  <2>4. n \in 1..MaxCalls /\ o.id = <<c, n, "primary">>
    BY <1>2, <2>1, <2>3
  <2>5. c = b
    BY <2>1, <2>4
  <2> QED
    BY <2>4, <2>5
<1> QED
  BY <1>3 DEF OwnRows, StoredRows, OracleInv, RowsAreOwned

LEMMA StoredAreOwnNext == OracleInv' => \A b \in Batches : OwnRows(b)'
<1>1. OracleInv' => (\A b \in Batches : OwnRows(b))'
  BY StoredAreOwn, PTL
<1> QED
  BY <1>1

LEMMA StoredGrows ==
  ASSUME OracleInv, OracleInv', observations \subseteq observations', NEW b \in Batches
  PROVE  /\ Cardinality(StoredRows(b)) \in Nat /\ Cardinality(StoredRows(b))' \in Nat
         /\ Cardinality(StoredRows(b)) <= Cardinality(StoredRows(b))'
PROOF
<1> DEFINE now == StoredRows(b)
           next == StoredRows(b)'
<1>1. now \in SUBSET next
  BY DEF StoredRows
<1>2. /\ \A o \in next : \E n \in 1..MaxCalls : o.id = <<b, n, "primary">>
      /\ \A o1, o2 \in next : o1.id = o2.id => o1 = o2
  BY StoredAreOwnNext DEF OwnRows
<1> HIDE DEF now, next
<1>3. /\ \A o \in now : \E n \in 1..MaxCalls : o.id = <<b, n, "primary">>
      /\ \A o1, o2 \in now : o1.id = o2.id => o1 = o2
  BY <1>1, <1>2
<1>4. IsFiniteSet(next) /\ Cardinality(next) \in Nat
  BY <1>2, RowsAreFew
<1>5. IsFiniteSet(now) /\ Cardinality(now) \in Nat
  BY <1>3, RowsAreFew
<1>6. Cardinality(now) <= Cardinality(next)
  BY <1>1, <1>4, FS_Subset
<1> QED
  BY <1>4, <1>5, <1>6 DEF now, next

\* No step removes a row.
LEMMA RowsGrow ==
  ASSUME RewardInv, [BatchNext]_batchVars
  PROVE  observations \subseteq observations'
PROOF
<1>1. OracleInv
  BY DEF RewardInv
<1>2. ASSUME NEW c \in Callers, Exchange(c) PROVE observations \subseteq observations'
  BY <1>1, <1>2, ExchangeFrame DEF Frame
<1>3. ASSUME NEW c, NEW v, Send(c, v) PROVE observations' = observations
  BY <1>3 DEF Send
<1>4. CASE UNCHANGED batchVars
  BY <1>4 DEF batchVars, vars
<1>5. ASSUME NEW t \in Tools, ToolStep(t) PROVE observations \subseteq observations'
  BY <1>2, <1>3, <1>5 DEF ToolStep, Report, Callers
<1>6. ASSUME NEW b \in Batches, CaseStep(b) PROVE observations \subseteq observations'
  BY <1>2, <1>6 DEF CaseStep, Callers
<1>7. ASSUME NEW b \in Batches,
             \/ \E mode \in {"valid", "invalid"}, n \in 1..MaxCalls : StartBatch(b, mode, n)
             \/ StartFails(b) \/ UpdateSummary(b) \/ Conclude(b) \/ GiveRewards(b) \/ Interrupt(b)
      PROVE  observations' = observations
  BY <1>7 DEF StartBatch, StartFails, UpdateSummary, Conclude, GiveRewards, Interrupt, vars
<1>8. ASSUME NEW b \in Batches, SendCase(b) \/ EndCase(b) \/ CaseRaises(b) \/ NextCase(b)
      PROVE  observations' = observations
  BY <1>8 DEF SendCase, Send, EndCase, Report, CaseRaises, NextCase, Again
<1> QED
  BY <1>4, <1>5, <1>6, <1>7, <1>8 DEF BatchNext

\* A step that leaves the stored summary alone.  The Batch may get a case or a
\* warning, and what was not noted stays so until a warning says it.
LEMMA SummaryKept ==
  ASSUME SummaryInv, OracleInv', observations \subseteq observations', NEW b \in Batches,
         batches'[b] = batches[b], HasSummary(b)' => HasSummary(b),
         batch'[b].mode = batch[b].mode, batch'[b].prepared = batch[b].prepared,
         batch[b].warnings \subseteq batch'[b].warnings,
         \/ batch'[b].cases = batch[b].cases
         \/ \E case : batch'[b].cases = Append(batch[b].cases, case),
         batch'[b].phase = "waiting" => batch[b].phase = "waiting",
         Noted(b)' => Noted(b) /\ batch'[b].cases = batch[b].cases /\ batch'[b].status = batch[b].status
  PROVE  SummaryStands(b)'
PROOF
<1>1. SummaryStands(b) /\ CasesAreRequests(b) /\ OracleInv
  BY DEF SummaryInv, RewardInv
<1>2. batch[b].cases \in Seq(Case)
  BY <1>1 DEF CasesAreRequests
<1>3. batch'[b].phase = "waiting" => batches'[b] = NoSummary
  BY <1>1 DEF SummaryStands
<1>4. ASSUME HasSummary(b)'
      PROVE  \E n \in 0..Len(batch'[b].cases), p \in 0..Cardinality(StoredRows(b))' : Tells(b, n, p)'
  <2>1. PICK n \in 0..Len(batch[b].cases), p \in 0..Cardinality(StoredRows(b)) : Tells(b, n, p)
    BY <1>1, <1>4 DEF SummaryStands
  <2>2. p \in 0..Cardinality(StoredRows(b))'
    BY <1>1, StoredGrows
  <2>3. n \in 0..Len(batch'[b].cases) /\ SubSeq(batch'[b].cases, 1, n) = SubSeq(batch[b].cases, 1, n)
    <3>1. CASE batch'[b].cases = batch[b].cases
      BY <3>1
    <3>2. CASE \E case : batch'[b].cases = Append(batch[b].cases, case)
      <4>1. PICK case : batch'[b].cases = Append(batch[b].cases, case)
        BY <3>2
      <4>2. /\ Len(batch'[b].cases) = Len(batch[b].cases) + 1
            /\ SubSeq(batch'[b].cases, 1, n) = SubSeq(batch[b].cases, 1, n)
        BY <1>2, <4>1, FirstCases
      <4> QED
        BY <1>2, <4>2
    <3> QED
      BY <3>1, <3>2
  <2>4. Tells(b, n, p)'
    <3>1. /\ batches[b] = Summary(batch[b].mode, batches[b].status,
                                  SubSeq(batch[b].cases, 1, n), p, batches[b].logs)
          /\ batches[b].logs \subseteq batch[b].warnings
          /\ batches[b].status = "completed" => n = batch[b].prepared
          /\ Noted(b) => n = Len(batch[b].cases) /\ batches[b].status = batch[b].status
      BY <2>1 DEF Tells
    <3>2. batches'[b] = Summary(batch'[b].mode, batches'[b].status,
                                SubSeq(batch'[b].cases, 1, n), p, batches'[b].logs)
      BY <2>3, <3>1
    <3> QED
      BY <3>1, <3>2 DEF Tells, Summary
  <2> QED
    BY <2>2, <2>3, <2>4
<1> QED
  BY <1>3, <1>4 DEF SummaryStands

\* A Batch that does nothing while others do.
LEMMA SummaryRests ==
  ASSUME SummaryInv, OracleInv', observations \subseteq observations', NEW b \in Batches,
         batches'[b] = batches[b], batch'[b] = batch[b]
  PROVE  SummaryStands(b)' /\ EndIsSaid(b)'
PROOF
<1>1. SummaryStands(b)'
  <2>1. HasSummary(b)' => HasSummary(b)
    BY DEF HasSummary
  <2>2. Noted(b)' => Noted(b)
    BY DEF Noted, Said
  <2> QED
    BY <2>1, <2>2, SummaryKept
<1>2. EndIsSaid(b) /\ CasesAreRequests(b) /\ OracleInv
  BY DEF SummaryInv, RewardInv
<1>3. Len(batch[b].cases) \in Nat
  BY <1>2 DEF CasesAreRequests
<1>4. /\ Cardinality(StoredRows(b)) \in Nat /\ Cardinality(StoredRows(b))' \in Nat
      /\ Cardinality(StoredRows(b)) <= Cardinality(StoredRows(b))'
  BY <1>2, StoredGrows
<1>5. Cardinality(StoredRows(b))' < Len(batch[b].cases) =>
        Cardinality(StoredRows(b)) < Len(batch[b].cases)
  BY <1>3, <1>4
<1>6. EndIsSaid(b)'
  BY <1>2, <1>5 DEF EndIsSaid, Said
<1> QED
  BY <1>1, <1>6

\* _update_batch_summary: either the summary is the Batch as it is, or a warning
\* says that it is not.
LEMMA UpdateStep ==
  ASSUME SummaryInv, OracleInv', NEW b \in Batches, UpdateSummary(b)
  PROVE  SummaryStands(b)' /\ EndIsSaid(b)'
PROOF
<1> DEFINE stored == Cardinality(StoredRows(b))
           done == Len(batch[b].cases)
<1>1. /\ RewardsAreOwed(b) /\ CasesAreRequests(b) /\ OracleInv
      /\ DOMAIN batch = Batches /\ DOMAIN batches = Batches
  BY DEF SummaryInv, RewardInv
<1>2. /\ DOMAIN batch[b] = {"phase", "mode", "prepared", "cases", "warnings", "status"}
      /\ batch[b].cases \in Seq(Case) /\ done \in Nat /\ batch[b].phase = "summary"
  BY <1>1 DEF CasesAreRequests, UpdateSummary
<1>3. /\ observations' = observations /\ StoredRows(b)' = StoredRows(b) /\ stored \in Nat
  <2>1. observations' = observations
    BY DEF UpdateSummary, vars
  <2>2. stored \in Nat
    BY <1>1, <2>1, StoredGrows
  <2> QED
    BY <2>1, <2>2 DEF StoredRows
<1>4. /\ batch'[b].phase = AfterSummary(b) /\ batch'[b].mode = batch[b].mode
      /\ batch'[b].prepared = batch[b].prepared /\ batch'[b].cases = batch[b].cases
      /\ batch'[b].status = batch[b].status /\ batch[b].warnings \subseteq batch'[b].warnings
  BY <1>1, <1>2 DEF UpdateSummary
<1>5. /\ batch'[b].phase \in {"failed", "reward", "ready", "ending"}
      /\ batch'[b].phase = "failed" <=> batch[b].status = "failed"
      /\ batch'[b].phase = "reward" <=> batch[b].status = "completed"
      /\ batch[b].status = "completed" => done = batch[b].prepared
  BY <1>1, <1>2, <1>4 DEF AfterSummary, NextPhase, RewardsAreOwed
<1>6. ASSUME batch'[b].warnings = batch[b].warnings \cup Incomplete(b),
             batches'[b] = Summary(batch[b].mode, batch[b].status, batch[b].cases, stored,
                                   batch'[b].warnings)
      PROVE  SummaryStands(b)' /\ EndIsSaid(b)'
  <2>1. batches'[b].status = batch[b].status /\ batches'[b].logs = batch'[b].warnings
    BY <1>6, SummaryFields
  <2>2. done \in 0..done /\ stored \in 0..stored /\ SubSeq(batch[b].cases, 1, done) = batch[b].cases
    BY <1>2, <1>3, FirstCases
  <2> HIDE DEF done, stored
  <2>3. batches'[b] = Summary(batch'[b].mode, batches'[b].status,
                              SubSeq(batch'[b].cases, 1, done), stored, batches'[b].logs)
    BY <1>4, <1>6, <2>1, <2>2
  <2>4. Tells(b, done, stored)'
    <3>1. done' = Len(batch'[b].cases) /\ done' = done /\ stored' = stored
      BY <1>3, <1>4 DEF done, stored
    <3> QED
      BY <1>4, <1>5, <2>1, <2>3, <3>1 DEF Tells, Summary, Noted
  <2>5. SummaryStands(b)'
    <3>1. done' \in 0..Len(batch'[b].cases) /\ stored' \in 0..Cardinality(StoredRows(b))'
      BY <1>3, <1>4, <2>2 DEF done, stored
    <3> QED
      BY <1>5, <2>4, <3>1 DEF SummaryStands
  <2>6. stored < done => Said(b, "observation_persistence_incomplete")'
    <3>1. stored < done => <<"observation_persistence_incomplete", done, stored>> \in batch'[b].warnings
      BY <1>6 DEF Incomplete, done, stored
    <3>2. <<"observation_persistence_incomplete", done, stored>>[1]
            = "observation_persistence_incomplete"
      OBVIOUS
    <3> QED
      BY <3>1, <3>2 DEF Said
  <2>7. EndIsSaid(b)'
    BY <1>3, <1>4, <1>5, <2>6 DEF EndIsSaid, done, stored
  <2> QED
    BY <2>5, <2>7
<1>7. ASSUME <<Unwritten>> \in batch'[b].warnings, batches' = batches
      PROVE  SummaryStands(b)' /\ EndIsSaid(b)'
  <2>1. Said(b, Unwritten)'
    <3>1. <<Unwritten>>[1] = Unwritten
      OBVIOUS
    <3> QED
      BY <1>7, <3>1 DEF Said, Unwritten
  <2>2. HasSummary(b) /\ ~Noted(b)' /\ batch'[b].phase # "waiting"
    BY <1>2, <1>5, <2>1 DEF HasSummary, Noted
  <2>3. SummaryStands(b)'
    BY <1>3, <1>4, <1>7, <2>2, SummaryKept
  <2>4. EndIsSaid(b)'
    BY <1>4, <1>5, <2>1 DEF EndIsSaid
  <2> QED
    BY <2>3, <2>4
<1>8. \/ /\ batch'[b].warnings = batch[b].warnings \cup Incomplete(b)
         /\ batches'[b] = Summary(batch[b].mode, batch[b].status, batch[b].cases, stored,
                                  batch'[b].warnings)
      \/ <<Unwritten>> \in batch'[b].warnings /\ batches' = batches
  BY <1>1, <1>2 DEF UpdateSummary, Unwritten
<1> QED
  BY <1>6, <1>7, <1>8

\* The other steps of a Batch leave its summary alone, the first one writes it.
LEMMA OwnSteps ==
  ASSUME SummaryInv, OracleInv', observations \subseteq observations', NEW b \in Batches,
         \/ StartFails(b) \/ Conclude(b) \/ GiveRewards(b) \/ Interrupt(b)
         \/ SendCase(b) \/ EndCase(b) \/ CaseRaises(b)
  PROVE  SummaryStands(b)' /\ EndIsSaid(b)'
PROOF
<1>1. /\ SummaryStands(b) /\ EndIsSaid(b) /\ RewardsAreOwed(b) /\ CasesAreRequests(b) /\ OracleInv
      /\ DOMAIN batch = Batches
  BY DEF SummaryInv, RewardInv
<1>2. /\ DOMAIN batch[b] = {"phase", "mode", "prepared", "cases", "warnings", "status"}
      /\ batch[b].cases \in Seq(Case)
  BY <1>1 DEF CasesAreRequests
<1>3. ASSUME batches'[b] = batches[b], HasSummary(b)' => HasSummary(b),
             batch'[b].mode = batch[b].mode, batch'[b].prepared = batch[b].prepared,
             batch[b].warnings \subseteq batch'[b].warnings,
             \/ batch'[b].cases = batch[b].cases
             \/ \E case : batch'[b].cases = Append(batch[b].cases, case),
             batch'[b].phase # "waiting",
             Noted(b)' => Noted(b) /\ batch'[b].cases = batch[b].cases
                          /\ batch'[b].status = batch[b].status
      PROVE  SummaryStands(b)'
  BY <1>3, SummaryKept
<1>4. CASE StartFails(b)
  <2>1. /\ batch[b].phase = "waiting" /\ batch'[b].phase = "failed" /\ batches' = batches
        /\ batches[b] = NoSummary
    BY <1>1, <1>2, <1>4 DEF StartFails, SummaryStands
  <2> QED
    BY <2>1 DEF SummaryStands, HasSummary, EndIsSaid
<1>5. CASE Conclude(b)
  <2>1. /\ batch[b].phase = "ending" /\ batch'[b].phase = "summary" /\ batches' = batches
        /\ batch'[b].mode = batch[b].mode /\ batch'[b].prepared = batch[b].prepared
        /\ batch'[b].warnings = batch[b].warnings /\ batch'[b].cases = batch[b].cases
    BY <1>1, <1>2, <1>5 DEF Conclude
  <2>2. HasSummary(b) /\ ~Noted(b)'
    BY <2>1 DEF HasSummary, Noted
  <2>3. SummaryStands(b)'
    BY <1>3, <2>1, <2>2
  <2> QED
    BY <2>1, <2>3 DEF EndIsSaid
<1>6. CASE GiveRewards(b)
  <2>1. /\ batch[b].phase = "reward" /\ batch'[b].phase = "returned" /\ batches' = batches
        /\ batch'[b].mode = batch[b].mode /\ batch'[b].prepared = batch[b].prepared
        /\ batch'[b].warnings = batch[b].warnings /\ batch'[b].cases = batch[b].cases
        /\ batch'[b].status = batch[b].status /\ observations' = observations
    BY <1>1, <1>2, <1>6 DEF GiveRewards, vars
  <2>2. HasSummary(b) /\ (Noted(b)' => Noted(b))
    BY <2>1 DEF HasSummary, Noted, Said
  <2>3. SummaryStands(b)'
    BY <1>3, <2>1, <2>2
  <2>4. StoredRows(b)' = StoredRows(b)
    BY <2>1 DEF StoredRows
  <2> QED
    BY <1>1, <2>1, <2>3, <2>4 DEF EndIsSaid, Said
<1>7. CASE Interrupt(b)
  <2>1. /\ batch[b].phase \in {"ready", "case", "summary", "ending", "reward"}
        /\ batch'[b].phase = "interrupted" /\ batches' = batches
        /\ batch'[b].mode = batch[b].mode /\ batch'[b].prepared = batch[b].prepared
        /\ batch'[b].warnings = batch[b].warnings /\ batch'[b].cases = batch[b].cases
    BY <1>1, <1>2, <1>7 DEF Interrupt
  <2>2. HasSummary(b) /\ ~Noted(b)'
    BY <2>1 DEF HasSummary, Noted
  <2>3. SummaryStands(b)'
    BY <1>3, <2>1, <2>2
  <2> QED
    BY <2>1, <2>3 DEF EndIsSaid
<1>8. CASE SendCase(b)
  <2>1. /\ batch[b].phase = "ready" /\ batch'[b].phase = "case" /\ batches' = batches
        /\ batch'[b].mode = batch[b].mode /\ batch'[b].prepared = batch[b].prepared
        /\ batch'[b].warnings = batch[b].warnings /\ batch'[b].cases = batch[b].cases
        /\ batch'[b].status = batch[b].status
    BY <1>1, <1>2, <1>8 DEF SendCase
  <2>2. HasSummary(b) /\ (Noted(b)' => Noted(b))
    BY <2>1 DEF HasSummary, Noted, Said
  <2>3. SummaryStands(b)'
    BY <1>3, <2>1, <2>2
  <2> QED
    BY <2>1, <2>3 DEF EndIsSaid
<1>9. CASE EndCase(b)
  <2>1. /\ batch[b].phase = "case" /\ batch'[b].phase = "summary" /\ batches' = batches
        /\ batch'[b].mode = batch[b].mode /\ batch'[b].prepared = batch[b].prepared
        /\ batch'[b].warnings = batch[b].warnings
        /\ \E case : batch'[b].cases = Append(batch[b].cases, case)
    BY <1>1, <1>2, <1>9 DEF EndCase
  <2>2. HasSummary(b) /\ ~Noted(b)'
    BY <2>1 DEF HasSummary, Noted
  <2>3. SummaryStands(b)'
    BY <1>3, <2>1, <2>2
  <2> QED
    BY <2>1, <2>3 DEF EndIsSaid
<1>10. CASE CaseRaises(b)
  <2>1. /\ batch[b].phase = "case" /\ batch'[b].phase = "summary" /\ batches' = batches
        /\ batch'[b].mode = batch[b].mode /\ batch'[b].prepared = batch[b].prepared
        /\ batch[b].warnings \subseteq batch'[b].warnings /\ batch'[b].cases = batch[b].cases
    BY <1>1, <1>2, <1>10 DEF CaseRaises
  <2>2. HasSummary(b) /\ ~Noted(b)'
    BY <2>1 DEF HasSummary, Noted
  <2>3. SummaryStands(b)'
    BY <1>3, <2>1, <2>2
  <2> QED
    BY <2>1, <2>3 DEF EndIsSaid
<1> QED
  BY <1>4, <1>5, <1>6, <1>7, <1>8, <1>9, <1>10

LEMMA StartStep ==
  ASSUME SummaryInv, OracleInv', NEW b \in Batches, NEW mode \in {"valid", "invalid"},
         NEW n \in 1..MaxCalls, StartBatch(b, mode, n)
  PROVE  SummaryStands(b)' /\ EndIsSaid(b)'
PROOF
<1>1. /\ DOMAIN batch = Batches /\ DOMAIN batches = Batches /\ OracleInv
      /\ RewardsAreOwed(b) /\ CasesAreRequests(b)
  BY DEF SummaryInv, RewardInv
<1>2. /\ batch'[b] = [Waiting EXCEPT !.phase = "ready", !.mode = mode, !.prepared = n]
      /\ batches'[b] = Summary(mode, "running", <<>>, 0, {}) /\ UNCHANGED vars
  BY <1>1 DEF StartBatch
<1>3. /\ batch'[b].phase = "ready" /\ batch'[b].mode = mode /\ batch'[b].prepared = n
      /\ batch'[b].cases = <<>> /\ batch'[b].warnings = {} /\ batch'[b].status = "running"
  BY <1>2 DEF Waiting
<1>4. batches'[b].status = "running" /\ batches'[b].logs = {}
  BY <1>2, SummaryFields
<1>5. SubSeq(<<>>, 1, 0) = <<>> /\ Len(<<>>) = 0
  <2>1. <<>> \in Seq(Case) /\ Len(<<>>) = 0 /\ 0 \in 0..Len(<<>>)
    OBVIOUS
  <2> QED
    BY <2>1, FirstCases
<1>6. batches'[b] = Summary(batch'[b].mode, batches'[b].status, SubSeq(batch'[b].cases, 1, 0), 0,
                            batches'[b].logs)
  BY <1>2, <1>3, <1>4, <1>5
<1>7. Tells(b, 0, 0)'
  BY <1>3, <1>4, <1>5, <1>6 DEF Tells, Summary
<1>8. 0 \in 0..Len(batch'[b].cases) /\ 0 \in 0..Cardinality(StoredRows(b))'
  <2>1. observations' = observations
    BY <1>2 DEF vars
  <2>2. Cardinality(StoredRows(b))' \in Nat
    BY <1>1, <2>1, StoredGrows
  <2> QED
    BY <1>3, <1>5, <2>2
<1>9. SummaryStands(b)'
  BY <1>3, <1>7, <1>8 DEF SummaryStands
<1> QED
  BY <1>3, <1>9 DEF EndIsSaid

LEMMA SummaryStart == BatchInit => SummaryInv
PROOF
<1> SUFFICES ASSUME BatchInit PROVE SummaryInv
  OBVIOUS
<1>1. RewardInv
  BY RewardStart
<1>2. ASSUME NEW b \in Batches PROVE SummaryStands(b) /\ EndIsSaid(b)
  <2>1. batch[b].phase = "waiting" /\ batches[b] = NoSummary
    BY DEF BatchInit, Waiting
  <2> QED
    BY <2>1 DEF SummaryStands, HasSummary, EndIsSaid
<1> QED
  BY <1>1, <1>2 DEF SummaryInv, BatchInit

LEMMA SummaryStep == SummaryInv /\ [BatchNext]_batchVars => SummaryInv'
PROOF
<1> SUFFICES ASSUME SummaryInv, [BatchNext]_batchVars PROVE SummaryInv'
  OBVIOUS
<1>1. /\ RewardInv /\ RewardInv' /\ OracleInv' /\ observations \subseteq observations'
      /\ DOMAIN batch = Batches /\ DOMAIN batches = Batches
  <2>1. RewardInv /\ DOMAIN batches = Batches
    BY DEF SummaryInv
  <2>2. RewardInv' /\ observations \subseteq observations'
    BY <2>1, RewardStep, RowsGrow
  <2> QED
    BY <2>1, <2>2 DEF RewardInv
<1>2. CASE UNCHANGED <<batch, batches>>
  <2>1. batch' = batch /\ batches' = batches
    BY <1>2
  <2> QED
    BY <1>1, <2>1, SummaryRests DEF SummaryInv
<1>3. ASSUME NEW b \in Batches,
             \/ \E mode \in {"valid", "invalid"}, n \in 1..MaxCalls : StartBatch(b, mode, n)
             \/ StartFails(b) \/ Conclude(b) \/ GiveRewards(b) \/ Interrupt(b)
             \/ SendCase(b) \/ EndCase(b) \/ CaseRaises(b) \/ UpdateSummary(b)
      PROVE  SummaryInv'
  <2>1. SummaryStands(b)' /\ EndIsSaid(b)'
    BY <1>1, <1>3, StartStep, OwnSteps, UpdateStep
  <2>2. /\ DOMAIN batches' = Batches
        /\ \A d \in Batches : d # b => batch'[d] = batch[d] /\ batches'[d] = batches[d]
    <3>1. CASE \E mode \in {"valid", "invalid"}, n \in 1..MaxCalls : StartBatch(b, mode, n)
      BY <1>1, <3>1 DEF StartBatch
    <3>2. CASE UpdateSummary(b)
      BY <1>1, <3>2 DEF UpdateSummary
    <3>3. CASE StartFails(b) \/ Conclude(b) \/ GiveRewards(b) \/ Interrupt(b)
      BY <1>1, <3>3 DEF StartFails, Conclude, GiveRewards, Interrupt
    <3>4. CASE SendCase(b) \/ EndCase(b) \/ CaseRaises(b)
      BY <1>1, <3>4 DEF SendCase, EndCase, CaseRaises
    <3> QED
      BY <1>3, <3>1, <3>2, <3>3, <3>4
  <2>3. \A d \in Batches : SummaryStands(d)' /\ EndIsSaid(d)'
    BY <1>1, <2>1, <2>2, SummaryRests
  <2> QED
    BY <1>1, <2>2, <2>3 DEF SummaryInv
<1>4. CASE UNCHANGED batchVars
  BY <1>2, <1>4 DEF batchVars
<1>5. CASE \E t \in Tools : ToolStep(t)
  BY <1>2, <1>5 DEF ToolStep
<1>6. CASE \E b \in Batches : CaseStep(b) \/ NextCase(b)
  BY <1>2, <1>6 DEF CaseStep, NextCase
<1> QED
  BY <1>3, <1>4, <1>5, <1>6 DEF BatchNext

\* What the stored summaries of one mode add up to.
LEMMA ExecutedSum ==
  ASSUME NEW S \in SUBSET Batches, \A b \in S : batches[b].executed \in Nat
  PROVE  \E F : /\ IsSum(F, S, [b \in S |-> batches[b].executed])
                /\ F[S] = MapThenSumSet(LAMBDA b : batches[b].executed, S)
PROOF
<1> DEFINE Step(g, s) == IF s = {} THEN 0 ELSE batches[Some(s)].executed + g[s \ {Some(s)}]
           a == [b \in S |-> batches[b].executed]
           F == CHOOSE iter : iter = [s \in SUBSET S |-> Step(iter, s)]
<1>1. MapThenSumSet(LAMBDA b : batches[b].executed, S) = F[S]
  BY DEF MapThenSumSet, MapThenFoldSet, Some
<1>2. IsFiniteSet(S) /\ a \in [S -> Nat]
  BY BatchAssumption, FS_Subset DEF BatchAssumption
<1>3. \A s \in SUBSET S : s # {} => a[Some(s)] = batches[Some(s)].executed
  BY <1>2, SomeOf
<1> HIDE DEF a
<1>4. PICK g \in [SUBSET S -> Nat] : IsSum(g, S, a)
  BY <1>2, SumExists
<1>5. g = [s \in SUBSET S |-> Step(g, s)]
  BY <1>3, <1>4 DEF IsSum
<1>6. F = [s \in SUBSET S |-> Step(F, s)]
  <2> HIDE DEF Step
  <2>1. \E iter : iter = [s \in SUBSET S |-> Step(iter, s)]
    BY <1>5
  <2> QED
    BY <2>1, Zenon
<1> HIDE DEF F
<1>7. IsSum(F, S, a)
  <2>1. ASSUME NEW s \in SUBSET S
        PROVE  F[s] = IF s = {} THEN 0 ELSE a[Some(s)] + F[s \ {Some(s)}]
    <3>1. F[s] = Step(F, s)
      BY <1>6
    <3> QED
      BY <1>3, <3>1
  <2> QED
    BY <2>1 DEF IsSum
<1> QED
  BY <1>1, <1>7 DEF a

\* What their Batches have tested.
LEMMA TestedSum ==
  ASSUME NEW S \in SUBSET Batches, \A b \in S : Len(batch[b].cases) \in Nat
  PROVE  \E F : /\ IsSum(F, S, [b \in S |-> Len(batch[b].cases)])
                /\ F[S] = MapThenSumSet(LAMBDA b : Len(batch[b].cases), S)
PROOF
<1> DEFINE Step(g, s) == IF s = {} THEN 0 ELSE Len(batch[Some(s)].cases) + g[s \ {Some(s)}]
           a == [b \in S |-> Len(batch[b].cases)]
           F == CHOOSE iter : iter = [s \in SUBSET S |-> Step(iter, s)]
<1>1. MapThenSumSet(LAMBDA b : Len(batch[b].cases), S) = F[S]
  BY DEF MapThenSumSet, MapThenFoldSet, Some
<1>2. IsFiniteSet(S) /\ a \in [S -> Nat]
  BY BatchAssumption, FS_Subset DEF BatchAssumption
<1>3. \A s \in SUBSET S : s # {} => a[Some(s)] = Len(batch[Some(s)].cases)
  BY <1>2, SomeOf
<1> HIDE DEF a
<1>4. PICK g \in [SUBSET S -> Nat] : IsSum(g, S, a)
  BY <1>2, SumExists
<1>5. g = [s \in SUBSET S |-> Step(g, s)]
  BY <1>3, <1>4 DEF IsSum
<1>6. F = [s \in SUBSET S |-> Step(F, s)]
  <2> HIDE DEF Step
  <2>1. \E iter : iter = [s \in SUBSET S |-> Step(iter, s)]
    BY <1>5
  <2> QED
    BY <2>1, Zenon
<1> HIDE DEF F
<1>7. IsSum(F, S, a)
  <2>1. ASSUME NEW s \in SUBSET S
        PROVE  F[s] = IF s = {} THEN 0 ELSE a[Some(s)] + F[s \ {Some(s)}]
    <3>1. F[s] = Step(F, s)
      BY <1>6
    <3> QED
      BY <1>3, <3>1
  <2> QED
    BY <2>1 DEF IsSum
<1> QED
  BY <1>1, <1>7 DEF a

\* The summary of a Batch counts cases that it has, all of them when it was noted.
LEMMA SummaryCounts ==
  ASSUME SummaryInv, NEW b \in Batches, HasSummary(b)
  PROVE  /\ batches[b].mode = batch[b].mode /\ batches[b].logs \subseteq batch[b].warnings
         /\ batches[b].executed \in 0..Len(batch[b].cases) /\ Len(batch[b].cases) \in Nat
         /\ \E p \in 0..Cardinality(StoredRows(b)) :
              batches[b] = Summary(batch[b].mode, batches[b].status,
                                   SubSeq(batch[b].cases, 1, batches[b].executed), p, batches[b].logs)
         /\ batches[b].status = "completed" => batches[b].executed = batch[b].prepared
         /\ Noted(b) => /\ batches[b].executed = Len(batch[b].cases)
                        /\ batches[b].status = batch[b].status
PROOF
<1>1. SummaryStands(b) /\ CasesAreRequests(b)
  BY DEF SummaryInv, RewardInv
<1>2. batch[b].cases \in Seq(Case) /\ Len(batch[b].cases) \in Nat
  BY <1>1 DEF CasesAreRequests
<1>3. PICK n \in 0..Len(batch[b].cases), p \in 0..Cardinality(StoredRows(b)) : Tells(b, n, p)
  BY <1>1 DEF SummaryStands
<1>4. batches[b] = Summary(batch[b].mode, batches[b].status, SubSeq(batch[b].cases, 1, n), p,
                           batches[b].logs)
  BY <1>3 DEF Tells
<1>5. Len(SubSeq(batch[b].cases, 1, n)) = n
  BY <1>2, FirstCases
<1>6. batches[b].executed = n /\ batches[b].mode = batch[b].mode
  <2> DEFINE first == SubSeq(batch[b].cases, 1, n)
             row == Summary(batch[b].mode, batches[b].status, first, p, batches[b].logs)
  <2>1. row.executed = Len(first) /\ row.mode = batch[b].mode
    <3> HIDE DEF first
    <3> QED
      BY SummaryFields
  <2>2. batches[b] = row
    BY <1>4
  <2> HIDE DEF row
  <2> QED
    BY <1>5, <2>1, <2>2
<1> QED
  BY <1>2, <1>3, <1>4, <1>6 DEF Tells

LEMMA ProgressAdds ==
  ASSUME SummaryInv
  PROVE  ProgressIsAccounted
PROOF
<1> SUFFICES ASSUME NEW mode \in {"valid", "invalid"}
             PROVE  LET own == {b \in Batches : batches[b] # NoSummary /\ batch[b].mode = mode}
                        tested == MapThenSumSet(LAMBDA b : Len(batch[b].cases), own)
                    IN  /\ Progress(mode).batches = Cardinality(own)
                        /\ Progress(mode).cases <= tested
                        /\ (\A b \in own : /\ batch[b].phase \notin {"summary", "interrupted"}
                                           /\ ~Said(b, "batch_summary_persistence_failed"))
                           => Progress(mode).cases = tested
  BY DEF ProgressIsAccounted
<1> DEFINE own == {b \in Batches : batches[b] # NoSummary /\ batch[b].mode = mode}
           counted == {b \in Batches : batches[b] # NoSummary /\ batches[b].mode = mode}
           tested == MapThenSumSet(LAMBDA b : Len(batch[b].cases), own)
           executed == MapThenSumSet(LAMBDA b : batches[b].executed, own)
           ofSummary == [b \in own |-> batches[b].executed]
           ofBatch == [b \in own |-> Len(batch[b].cases)]
<1>1. ASSUME NEW b \in Batches, batches[b] # NoSummary
      PROVE  /\ batches[b].mode = batch[b].mode
             /\ batches[b].executed \in Nat /\ Len(batch[b].cases) \in Nat
             /\ batches[b].executed <= Len(batch[b].cases)
             /\ Noted(b) => batches[b].executed = Len(batch[b].cases)
             /\ batch[b].phase # "waiting"
  <2>1. HasSummary(b)
    BY <1>1 DEF HasSummary
  <2>2. batch[b].phase # "waiting"
    BY <1>1 DEF SummaryInv, SummaryStands
  <2> QED
    BY <2>1, <2>2, SummaryCounts
<1>2. counted = own
  BY <1>1
<1>3. Progress(mode).batches = Cardinality(own) /\ Progress(mode).cases = executed
  BY <1>2 DEF Progress
<1>4. own \in SUBSET Batches /\ IsFiniteSet(own)
  BY BatchAssumption, FS_Subset DEF BatchAssumption
<1>5. ofSummary \in [own -> Nat] /\ ofBatch \in [own -> Nat] /\ \A b \in own : ofSummary[b] <= ofBatch[b]
  BY <1>1
<1>6. PICK F : IsSum(F, own, ofSummary) /\ F[own] = executed
  BY <1>1, <1>4, ExecutedSum
<1>7. PICK G : IsSum(G, own, ofBatch) /\ G[own] = tested
  BY <1>1, <1>4, TestedSum
<1>8. ASSUME \A b \in own : /\ batch[b].phase \notin {"summary", "interrupted"}
                            /\ ~Said(b, "batch_summary_persistence_failed")
      PROVE  \A b \in own : ofBatch[b] <= ofSummary[b]
  <2>1. ASSUME NEW b \in own PROVE Noted(b)
    BY <1>1, <1>8, <2>1 DEF Noted, Unwritten
  <2> QED
    BY <1>1, <2>1
<1> HIDE DEF own, counted, tested, executed, ofSummary, ofBatch
<1>9. executed \in Nat /\ tested \in Nat /\ executed <= tested
  BY <1>4, <1>5, <1>6, <1>7, SumsCompare
<1>10. (\A b \in own : ofBatch[b] <= ofSummary[b]) => executed = tested
  <2>1. (\A b \in own : ofBatch[b] <= ofSummary[b]) => tested <= executed
    BY <1>4, <1>5, <1>6, <1>7, SumsCompare
  <2> QED
    BY <1>9, <2>1
<1>11. /\ Progress(mode).batches = Cardinality(own)
       /\ Progress(mode).cases <= tested
       /\ (\A b \in own : /\ batch[b].phase \notin {"summary", "interrupted"}
                          /\ ~Said(b, "batch_summary_persistence_failed"))
          => Progress(mode).cases = tested
  BY <1>3, <1>8, <1>9, <1>10
<1> QED
  BY <1>11 DEF own, tested

\* Whatever an Orchestrator and a caller read of a Batch is a moment of it: what
\* is missing in the summary, in the rows and in the sums over all Batches
\* (_update_batch_summary, read_test_progress) is said by a warning.
THEOREM SummariesStayAccounted == BatchSpec => []SummaryIsAccounted
PROOF
<1>1. ASSUME SummaryInv
      PROVE  SummaryIsAccounted
  <2>1. ASSUME NEW b \in Batches, batches[b] # NoSummary
        PROVE  /\ \E n \in 0..Len(batch[b].cases) : \E p \in 0..Cardinality(StoredRows(b)) :
                    batches[b] = Summary(batch[b].mode, batches[b].status,
                                         SubSeq(batch[b].cases, 1, n), p, batches[b].logs)
               /\ batches[b].logs \subseteq batch[b].warnings
               /\ batches[b].status = "completed" => batches[b].executed = batch[b].prepared
    <3>1. HasSummary(b)
      BY <2>1 DEF HasSummary
    <3> QED
      BY <1>1, <3>1, SummaryCounts
  <2>2. ASSUME NEW b \in Batches, batch[b].phase = "returned"
        PROVE  /\ batches[b].status = "completed" \/ Said(b, Unwritten)
               /\ Cardinality(StoredRows(b)) < Len(batch[b].cases) =>
                    Said(b, "observation_persistence_incomplete") \/ Said(b, Unwritten)
    <3>1. HasSummary(b) /\ EndIsSaid(b)
      BY <1>1, <2>2 DEF SummaryInv, HasSummary
    <3>2. Noted(b) => batches[b].status = batch[b].status
      BY <1>1, <3>1, SummaryCounts
    <3> QED
      BY <2>2, <3>1, <3>2 DEF EndIsSaid, Noted
  <2>3. ASSUME NEW b \in Batches, batch[b].phase = "failed", batches[b] # NoSummary
        PROVE  batches[b].status = "failed" \/ Said(b, Unwritten)
    <3>1. HasSummary(b) /\ EndIsSaid(b)
      BY <1>1, <2>3 DEF SummaryInv, HasSummary
    <3>2. Noted(b) => batches[b].status = batch[b].status
      BY <1>1, <3>1, SummaryCounts
    <3> QED
      BY <2>3, <3>1, <3>2 DEF EndIsSaid, Noted
  <2>4. ProgressIsAccounted
    BY <1>1, ProgressAdds
  <2> QED
    BY <2>1, <2>2, <2>3, <2>4 DEF SummaryIsAccounted, Unwritten
<1> QED
  BY <1>1, SummaryStart, SummaryStep, PTL DEF BatchSpec
=============================================================================
