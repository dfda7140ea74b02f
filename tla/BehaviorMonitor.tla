--------------------------- MODULE BehaviorMonitor ---------------------------
(***************************************************************************)
(* APIBehaviorMonitorCoordinator.observe_response up to the Bug Oracle:    *)
(* one response is recorded, checked by the Contract Monitor and, when it  *)
(* is complete successful JSON whose Observation was stored, handed to the *)
(* Resource Monitor.  Every part is isolated: whatever fails leaves a      *)
(* warning, and the response goes on to the next part.  Several Agents'    *)
(* requests are answered at once; the coordinator takes no lock.           *)
(*                                                                         *)
(* A response whose operation row cannot be stored leaves nothing at all   *)
(* and is left out.  The Oracle's part is module OracleReplay.             *)
(***************************************************************************)
EXTENDS ContractMonitor, ResourceMonitor

CONSTANTS Responses,    \* responses the target may send
          Success,      \* the status codes from 200 to 299
          TypeOf,       \* TypeOf[v]: the JSON type of a value
          MaxResponses  \* bound: responses of a run

\* _observed_schema_from_evidence and _infer_schema: the facts of a body.
Inferred(r) ==
    IF r.kind = "text" THEN {<<"$", "string">>}
    ELSE {<<"$", "object">>} \cup {<<f, TypeOf[r.object[f]]>> : f \in DOMAIN r.object}

\* decode_response_evidence, as the Contract Monitor reads it.
Evidence(r) ==
    [op |-> r.op, status |-> r.status, media |-> r.media, body |-> r.kind,
     schema |-> IF r.kind \in {"json", "text"} THEN Inferred(r) ELSE {}]

\* The responses of the target, decoded.
AreDecoded(all) ==
    \A r \in all :
        /\ DOMAIN r = {"op", "status", "media", "kind", "object"}
        /\ Evidence(r) \in Evidences

ASSUME MonitorAssumption ==
    /\ Trackers = Threads /\ ResourceOps = Operations
    /\ MaxResponses \in Nat /\ Success \subseteq StatusCodes
    /\ AreDecoded(Responses)

VARIABLES stage,     \* stage[t]: where the response of thread t stands
          response,  \* response[t]: the response in process
          received   \* responses so far, which number the Observations

monitorVars == <<contractVars, resourceVars, stage, response, received>>

NoResponse == [kind |-> "none", stored |-> FALSE]

MonitorInit ==
    /\ ContractInit /\ ResourceInit
    /\ stage = [t \in Threads |-> "idle"]
    /\ response = [t \in Threads |-> NoResponse]
    /\ received = 0

-----------------------------------------------------------------------------
\* Which responses the Resource Monitor learns from.
Eligible(t) ==
    /\ response[t].stored
    /\ response[t].kind = "json" /\ response[t].status \in Success

AfterContract(t) == IF Eligible(t) THEN "resources" ELSE "idle"

\* The response goes on, or is done with and forgotten.
GoTo(t, next) ==
    /\ stage' = [stage EXCEPT ![t] = next]
    /\ response' = [response EXCEPT ![t] = IF next = "idle" THEN NoResponse ELSE @]
    /\ UNCHANGED received

\* The Observation is recorded, or its write fails.
Observe(t, r, stored) ==
    /\ stage[t] = "idle" /\ received < MaxResponses
    /\ received' = received + 1
    /\ response' = [response EXCEPT ![t] = Put(Put(r, "stored", stored), "id", received)]
    /\ stage' = [stage EXCEPT ![t] = "contract"]
    /\ UNCHANGED <<contractVars, resourceVars>>

\* _check_contract.
CheckContract(t) ==
    LET e == Evidence(response[t])
    IN  /\ stage[t] = "contract"
        /\ AlreadyChecked(t, e) \/ CheckLater(t, e) \/ Merge(t, e)
        /\ GoTo(t, IF check'.thread = t THEN "storing" ELSE AfterContract(t))
        /\ UNCHANGED resourceVars

EndContract(t) ==
    /\ stage[t] = "storing"
    /\ StoreChange(t) \/ UndoMerge(t)
    /\ GoTo(t, AfterContract(t))
    /\ UNCHANGED resourceVars

\* The Resource Monitor's observe.
BeginResources(t) ==
    LET r == response[t]
    IN  /\ stage[t] = "resources"
        /\ \/ SkipAmbiguous(t, r.op, r.object) /\ GoTo(t, "idle")
           \/ Derive(t, r.op, r.id, r.object) /\ GoTo(t, "deriving")
        /\ UNCHANGED contractVars

TrackResources(t) ==
    /\ stage[t] = "deriving"
    /\ TrackerStep(t)
    /\ GoTo(t, IF task'[t] = Idle THEN "idle" ELSE "deriving")
    /\ UNCHANGED contractVars

MonitorNext ==
    \E t \in Threads :
        \/ \E r \in Responses, stored \in BOOLEAN : Observe(t, r, stored)
        \/ CheckContract(t)
        \/ EndContract(t)
        \/ BeginResources(t)
        \/ TrackResources(t)

MonitorSpec == MonitorInit /\ [][MonitorNext]_monitorVars

-----------------------------------------------------------------------------
\* Types of the three parts, and where a response stands in them: only the
\* thread that holds the lock stores a change, and a thread derives resources
\* exactly while its tracker has a task.
MonitorTypeOK ==
    /\ ContractTypeOK /\ ResourceTypeOK
    /\ \A t \in Threads :
         /\ (stage[t] = "storing") = (check.thread = t)
         /\ (stage[t] = "deriving") = (task[t] # Idle)
         /\ stage[t] \in {"resources", "deriving"} => Eligible(t)
=============================================================================
