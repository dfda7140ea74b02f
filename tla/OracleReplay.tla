---------------------------- MODULE OracleReplay ----------------------------
(***************************************************************************)
(* One target request from the HTTP client to the stored Bug verdict.      *)
(* TargetAPIClient.send performs the Primary exchange, hands the response  *)
(* to the API Behavior Monitor, and, when the Bug Oracle marks it as a     *)
(* candidate, sends the frozen request once more as a Replay.  Every write *)
(* of the monitor is best effort: each may fail on its own, and none may   *)
(* change what the caller gets.                                            *)
(*                                                                         *)
(* A caller is a Batch case (bodies are truncated, the input is known to   *)
(* be valid or invalid) or the HTTP Tool (an oversized body is an error,   *)
(* the input has no declared validity).  The Contract and Resource         *)
(* Monitors run between the recording and the Oracle, are isolated from    *)
(* both by their own handlers; they are module BehaviorMonitor.  A body's  *)
(* size is kept as the one bit the client tests, a status as its class.    *)
(***************************************************************************)
EXTENDS Naturals, FiniteSets

CONSTANTS Batches, \* callers that are cases of a Batch
          Tools,   \* callers that are HTTP Tool calls
          MaxCalls,\* bound: requests one caller sends
          NoId     \* an Observation that was not persisted

ASSUME CallersAssumption ==
    /\ Batches \cap Tools = {} /\ MaxCalls \in Nat
    /\ NoId \notin (Batches \cup Tools) \X (1..MaxCalls) \X {"primary", "replay"}

VARIABLES pc,           \* pc[c]: where caller c's send stands
          call,         \* call[c]: the state of the send in progress
          observations, \* the observations table
          assessments   \* the oracle_assessments table: Primary id -> verdict

vars == <<pc, call, observations, assessments>>
-----------------------------------------------------------------------------
Callers == Batches \cup Tools
Statuses == {"2xx", "4xx", "5xx"}
Reasons == {"server_error", "invalid_input_unexpected_status"}
Validities(c) == IF c \in Batches THEN {"valid", "invalid"} ELSE {"unstated"}
Ids == Callers \X (1..MaxCalls) \X {"primary", "replay"}
Verdicts == {"no_candidate", "reproduced", "not_reproduced", "replay_failed"}

\* The identity a new row of caller c gets: a fresh uuid in the code.
FreshId(c) == <<c, call[c].number, IF call[c].replay THEN "replay" ELSE "primary">>

ReasonsFor(status, validity) ==
    {r \in Reasons :
        \/ r = "server_error" /\ status = "5xx"
        \/ /\ r = "invalid_input_unexpected_status"
           /\ validity = "invalid" /\ status \in {"2xx", "5xx"}}

Candidate(c) == call[c].reasons # {}

\* An oversized body is refused, but only after the monitor has seen it.
Oversized(c) == call[c].large /\ c \in Tools

\* The row of one table with a given identity, if it was written.
Row(id) == {o \in observations : o.id = id}

\* record_oracle_assessment refuses a Primary that is absent, a transport
\* failure, a Replay, or already assessed, and a Replay of another Primary.
MayAssess(primary, replay) ==
    /\ primary \notin DOMAIN assessments
    /\ \E o \in Row(primary) : o.kind = "http" /\ o.of = NoId
    /\ replay # NoId => \E o \in Row(replay) : o.of = primary

\* _persist: nothing is written without a Primary identity, and a failed
\* write is only reported as a warning.
Persist(primary, replay, verdict) ==
    \/ UNCHANGED assessments
    \/ /\ primary # NoId
       /\ MayAssess(primary, replay)
       /\ assessments' = [p \in DOMAIN assessments \cup {primary} |->
                            IF p = primary
                            THEN [replay |-> replay, verdict |-> verdict]
                            ELSE assessments[p]]

\* One insert of the observations table, linked to the Primary for a Replay.
Insert(c, kind, reasons) ==
    observations' = observations \cup
        {[id |-> FreshId(c), kind |-> kind, reasons |-> reasons,
          of |-> IF call[c].replay THEN call[c].primary ELSE NoId]}
-----------------------------------------------------------------------------
\* What a send starts from.  status, large and id describe the exchange in
\* progress, the other fields outlive the Replay.
NewCall(n, v) ==
    [number |-> n, validity |-> v, exchanges |-> 1, replay |-> FALSE,
     status |-> "none", large |-> FALSE, id |-> NoId, directive |-> FALSE,
     primary |-> NoId, reasons |-> {}, first |-> "none",
     outcome |-> "none", details |-> FALSE, bug |-> "none", report |-> "none"]

Init ==
    /\ pc = [c \in Callers |-> "idle"]
    /\ call = [c \in Callers |-> NewCall(0, "unstated")]
    /\ observations = {}
    /\ assessments = [p \in {} |-> {}]

\* The request is frozen and sent.
Send(c, v) ==
    /\ pc[c] = "idle"
    /\ call[c].number < MaxCalls
    /\ v \in Validities(c)
    /\ call' = [call EXCEPT ![c] = NewCall(call[c].number + 1, v)]
    /\ pc' = [pc EXCEPT ![c] = "sent"]
    /\ UNCHANGED <<observations, assessments>>

\* The target answers with a complete body.
Receive(c, s, large) ==
    /\ pc[c] = "sent"
    /\ call' = [call EXCEPT ![c].status = s, ![c].large = large, ![c].id = NoId,
                            ![c].first = IF call[c].replay THEN @ ELSE s]
    /\ pc' = [pc EXCEPT ![c] = "received"]
    /\ UNCHANGED <<observations, assessments>>

\* The exchange times out or fails below HTTP.
Lose(c) ==
    /\ pc[c] = "sent"
    /\ call' = [call EXCEPT ![c].status = "none", ![c].large = FALSE, ![c].id = NoId]
    /\ pc' = [pc EXCEPT ![c] = "lost"]
    /\ UNCHANGED <<observations, assessments>>

\* observe_response raises: no operation matches, or its row cannot be
\* written.  The processor's answer has warnings, no details, no directive,
\* and merging a Replay without details resets what the Primary reported.
ObserveFails(c) ==
    /\ pc[c] = "received"
    /\ call' = [call EXCEPT ![c].directive = FALSE, ![c].bug = "none"]
    /\ pc' = [pc EXCEPT ![c] = "processed"]
    /\ UNCHANGED <<observations, assessments>>

\* _record_observation: one row, unless the write fails or it is a Replay of
\* a Primary that has no row.
Record(c) ==
    LET new == ReasonsFor(call[c].status, call[c].validity)
    IN  /\ pc[c] = "received"
        /\ \/ UNCHANGED <<observations, call>>
           \/ /\ call[c].replay => call[c].primary # NoId
              /\ Insert(c, "http", new)
              /\ call' = [call EXCEPT ![c].id = FreshId(c)]
        /\ pc' = [pc EXCEPT ![c] = "recorded"]
        /\ UNCHANGED assessments

\* Mutant: a Replay is evaluated like a Primary.
EvaluateAnyAsPrimary(c) ==
    LET new == ReasonsFor(call[c].status, call[c].validity)
    IN  /\ pc[c] = "recorded"
        /\ call' = [call EXCEPT ![c].primary = call[c].id, ![c].reasons = new,
                                ![c].directive = new # {}, ![c].details = TRUE,
                                ![c].bug = IF new = {} THEN "clean" ELSE "none"]
        /\ IF new = {}
           THEN Persist(call[c].id, NoId, "no_candidate")
           ELSE UNCHANGED assessments
        /\ pc' = [pc EXCEPT ![c] = "processed"]
        /\ UNCHANGED observations

\* evaluate_primary: a response without reasons is settled at once, one with
\* reasons asks for a Replay through the processor's directive.
EvaluatePrimary(c) ==
    LET new == ReasonsFor(call[c].status, call[c].validity)
    IN  /\ pc[c] = "recorded"
        /\ ~call[c].replay
        /\ call' = [call EXCEPT ![c].primary = call[c].id, ![c].reasons = new,
                                ![c].directive = new # {}, ![c].details = TRUE,
                                ![c].bug = IF new = {} THEN "clean" ELSE "none"]
        /\ IF new = {}
           THEN Persist(call[c].id, NoId, "no_candidate")
           ELSE UNCHANGED assessments
        /\ pc' = [pc EXCEPT ![c] = "processed"]
        /\ UNCHANGED observations

\* Mutant: one common reason is enough.
EvaluateReplayLoosely(c) ==
    LET again == ReasonsFor(call[c].status, call[c].validity) \cap call[c].reasons # {}
    IN  /\ pc[c] = "recorded"
        /\ call[c].replay
        /\ call' = [call EXCEPT ![c].directive = FALSE,
                                ![c].bug = IF again THEN "bug" ELSE "clean"]
        /\ Persist(call[c].primary, call[c].id,
                   IF again THEN "reproduced" ELSE "not_reproduced")
        /\ pc' = [pc EXCEPT ![c] = "processed"]
        /\ UNCHANGED observations

\* evaluate_replay: a Bug needs the Primary's complete set of reasons again.
EvaluateReplay(c) ==
    LET again == ReasonsFor(call[c].status, call[c].validity) = call[c].reasons
    IN  /\ pc[c] = "recorded"
        /\ call[c].replay
        /\ call' = [call EXCEPT ![c].directive = FALSE,
                                ![c].bug = IF Oversized(c) THEN @
                                           ELSE IF again THEN "bug" ELSE "clean"]
        /\ Persist(call[c].primary, call[c].id,
                   IF again THEN "reproduced" ELSE "not_reproduced")
        /\ pc' = [pc EXCEPT ![c] = "processed"]
        /\ UNCHANGED observations

\* The Primary's send raises before it looks at the directive.
RefuseLargePrimary(c) ==
    /\ pc[c] = "processed"
    /\ ~call[c].replay
    /\ Oversized(c)
    /\ call' = [call EXCEPT ![c].outcome = "response_too_large"]
    /\ pc' = [pc EXCEPT ![c] = "returned"]
    /\ UNCHANGED <<observations, assessments>>

\* The directive starts the one Replay, with the frozen request.
StartReplay(c) ==
    /\ pc[c] = "processed"
    /\ ~Oversized(c)
    /\ call[c].directive
    /\ call' = [call EXCEPT ![c].outcome = call[c].status, ![c].replay = TRUE,
                            ![c].directive = FALSE, ![c].exchanges = @ + 1]
    /\ pc' = [pc EXCEPT ![c] = "sent"]
    /\ UNCHANGED <<observations, assessments>>

\* send returns the Primary's response; a Replay that was refused as too
\* large is swallowed, any other only merges its verdict into the details.
Return(c) ==
    /\ pc[c] = "processed"
    /\ ~call[c].directive
    /\ call[c].replay \/ ~Oversized(c)
    /\ call' = [call EXCEPT ![c].outcome = IF call[c].replay THEN @ ELSE call[c].status]
    /\ pc' = [pc EXCEPT ![c] = "returned"]
    /\ UNCHANGED <<observations, assessments>>

\* observe_transport of a Primary: one row at best, then the client's own
\* exception reaches the caller.
LosePrimary(c) ==
    /\ pc[c] = "lost"
    /\ ~call[c].replay
    /\ UNCHANGED observations \/ Insert(c, "transport", {})
    /\ call' = [call EXCEPT ![c].outcome = "no_response"]
    /\ pc' = [pc EXCEPT ![c] = "returned"]
    /\ UNCHANGED assessments

\* observe_transport of a Replay: the row, unless the write fails or there is
\* no Primary row to link it to ...
RecordLostReplay(c) ==
    /\ pc[c] = "lost"
    /\ call[c].replay
    /\ \/ UNCHANGED <<observations, call>>
       \/ /\ call[c].primary # NoId
          /\ Insert(c, "transport", {})
          /\ call' = [call EXCEPT ![c].id = FreshId(c)]
    /\ pc' = [pc EXCEPT ![c] = "replay_lost"]
    /\ UNCHANGED assessments

\* ... then the check is settled as failed; the Primary's response stands.
SettleLostReplay(c) ==
    /\ pc[c] = "replay_lost"
    /\ Persist(call[c].primary, call[c].id, "replay_failed")
    /\ pc' = [pc EXCEPT ![c] = "returned"]
    /\ UNCHANGED <<call, observations>>

\* The operation's row cannot be written: observe_transport raises before it
\* records or settles anything.
ObserveLostFails(c) ==
    /\ pc[c] = "lost"
    /\ call' = [call EXCEPT ![c].outcome = IF call[c].replay THEN @ ELSE "no_response"]
    /\ pc' = [pc EXCEPT ![c] = "returned"]
    /\ UNCHANGED <<observations, assessments>>

\* Mutant: a candidate without a verdict is a Bug.
BugSuspected(c) ==
    IF call[c].bug # "none" THEN call[c].bug
    ELSE IF Candidate(c) THEN "bug" ELSE "clean"

\* What a Batch case says of the response: the verdict among the details, or
\* else the stored Assessment of the Observation the details name.
BugFound(c) ==
    IF call[c].bug # "none" THEN call[c].bug
    ELSE IF /\ call[c].details /\ call[c].primary \in DOMAIN assessments
            /\ assessments[call[c].primary].verdict = "reproduced"
         THEN "bug" ELSE "clean"

\* The caller takes the outcome and is free to send again.
Report(c) ==
    /\ pc[c] = "returned"
    /\ call' = [call EXCEPT ![c].report =
                  IF c \in Batches /\ call[c].outcome \in Statuses
                  THEN BugFound(c) ELSE "none"]
    /\ pc' = [pc EXCEPT ![c] = "done"]
    /\ UNCHANGED <<observations, assessments>>

Again(c) ==
    /\ pc[c] = "done"
    /\ pc' = [pc EXCEPT ![c] = "idle"]
    /\ UNCHANGED <<call, observations, assessments>>

\* From the frozen request to the answer of send.
Exchange(c) ==
    \/ \E s \in Statuses, large \in BOOLEAN : Receive(c, s, large)
    \/ Lose(c)
    \/ ObserveFails(c)
    \/ Record(c)
    \/ EvaluatePrimary(c)
    \/ EvaluateReplay(c)
    \/ RefuseLargePrimary(c)
    \/ StartReplay(c)
    \/ Return(c)
    \/ LosePrimary(c)
    \/ RecordLostReplay(c)
    \/ SettleLostReplay(c)
    \/ ObserveLostFails(c)

Next ==
    \E c \in Callers :
        \/ \E v \in Validities(c) : Send(c, v)
        \/ Exchange(c)
        \/ Report(c)
        \/ Again(c)

Spec == Init /\ [][Next]_vars
-----------------------------------------------------------------------------
Observation == [id : Ids, kind : {"http", "transport"},
                reasons : SUBSET Reasons, of : Ids \cup {NoId}]

\* Type correctness of the send in progress and of the two tables.
TypeOK ==
    /\ pc \in [Callers -> {"idle", "sent", "received", "recorded", "processed",
                           "lost", "replay_lost", "returned", "done"}]
    /\ \A c \in Callers :
         /\ call[c].number \in 0..MaxCalls
         /\ call[c].status \in Statuses \cup {"none"}
         /\ call[c].reasons \subseteq Reasons
         /\ {call[c].id, call[c].primary} \subseteq Ids \cup {NoId}
         /\ call[c].outcome \in Statuses \cup
                                {"none", "no_response", "response_too_large"}
    /\ observations \subseteq Observation
    /\ DOMAIN assessments \subseteq Ids

\* An Assessment can be checked against the two tables alone: its Primary is
\* an HTTP row; "no_candidate" means that row has no reason; a Replay it names
\* is a row of that Primary, answered with the same reasons exactly when the
\* verdict is "reproduced" and unanswered when it is "replay_failed".  Each of
\* the rows may have failed to be written on its own.
VerdictsMatchEvidence ==
    \A p \in DOMAIN assessments :
        LET a == assessments[p]
        IN  \E first \in Row(p) :
              /\ first.kind = "http" /\ first.of = NoId
              /\ (a.verdict = "no_candidate") = (first.reasons = {})
              /\ a.replay # NoId =>
                   \E again \in Row(a.replay) :
                     /\ again.of = p
                     /\ (a.verdict = "replay_failed") = (again.kind = "transport")
                     /\ (a.verdict = "reproduced") =
                          (again.kind = "http" /\ again.reasons = first.reasons)

\* Confirming a candidate costs one more request and never a chain of them:
\* a Replay is not evaluated as a Primary, and a response without reasons is
\* not repeated.  A Replay carries side effects to the target, so this is
\* what keeps a confirmed 5xx from being resent for ever.
OneReplayPerCandidate ==
    /\ \A c \in Callers :
         call[c].exchanges <= IF Candidate(c) THEN 2 ELSE 1
    /\ \A o1, o2 \in observations : o1.of # NoId /\ o1.of = o2.of => o1 = o2
    /\ \A o1, o2 \in observations : o2.id = o1.of => o2.of = NoId

\* What the caller gets is the Primary's answer, whatever happened to the
\* Replay and to every write of the monitor.
PrimaryAnswerStands ==
    \A c \in Callers : pc[c] \in {"returned", "done"} =>
        call[c].outcome \in
            IF call[c].first = "none" THEN {"no_response"}
            ELSE {call[c].first} \cup (IF c \in Tools THEN {"response_too_large"} ELSE {})

\* A Batch never contradicts the database: a case it reports as a Bug was
\* repeated with the Primary's reasons, and where an Assessment was stored
\* both say the same.
ReportsMatchAssessments ==
    \A c \in Batches : pc[c] = "done" /\ call[c].report # "none" =>
        /\ call[c].report = "bug" =>
             call[c].exchanges = 2 /\
             ReasonsFor(call[c].status, call[c].validity) =
                ReasonsFor(call[c].first, call[c].validity)
        /\ call[c].primary \in DOMAIN assessments =>
             ((call[c].report = "bug") =
                 (assessments[call[c].primary].verdict = "reproduced"))

\* A Batch case whose response was evaluated and is a candidate has been
\* repeated when its send returns.
BatchCandidatesAreReplayed ==
    \A c \in Batches :
        pc[c] = "done" /\ Candidate(c) => call[c].exchanges = 2
=============================================================================
