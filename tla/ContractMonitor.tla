--------------------------- MODULE ContractMonitor ---------------------------
(***************************************************************************)
(* The Response Contract Monitor (api_behavior_monitor/contract_monitor    *)
(* .py): the response part of the shared OpenAPI IR, which observed        *)
(* responses widen, and its durable copy with one change event per         *)
(* widening (record_openapi_change).                                       *)
(*                                                                         *)
(* observe runs under one lock, but the merge changes the IR in place,     *)
(* before its event is stored, and the readers of the IR take no lock; the *)
(* merge and the end of the check are therefore two steps.                 *)
(*                                                                         *)
(* A Schema is the set of its facts <<location, type>>: a field has the    *)
(* types stated at its location, and _merge_schema works location by       *)
(* location.  A Response is the Schemas of its media types; headers and    *)
(* descriptions are only carried along and are left out.                   *)
(***************************************************************************)
EXTENDS Naturals, Sequences, Tables

CONSTANTS Threads,      \* threads that process responses
          Operations,   \* operation keys of the IR
          StatusCodes,  \* status codes that are observed
          Wildcard,     \* Wildcard[s]: the class key of a status, "2XX"
          Default,      \* the key of the default Response
          MediaTypes,
          OctetStream,  \* the media type a body without one is filed under
          NoMedia,      \* a response without a content type
          Facts,        \* <<location, type>>: what a Schema may state
          Declared,     \* Declared[op]: the Responses the document declares
          Absent,       \* no Response, or no state of a key
          NoSchema,     \* a media type without a Schema
          NoThread

States == {"checking", "checked", "pending"}

Schemas == SUBSET Facts

\* A Response: the Schemas of its media types.
IsResponse(r) == DOMAIN r \subseteq MediaTypes /\ r \in [DOMAIN r -> {NoSchema} \cup Schemas]

\* What is kept of an observed response.
Bodies == {"empty", "binary", "text", "json", "invalid_json"}

Evidences ==
    [op : Operations, status : StatusCodes, media : MediaTypes \cup {NoMedia},
     body : Bodies, schema : Schemas]

\* The Responses of an operation.
AreResponses(all) ==
    IsTable(all) /\ \A s \in DOMAIN all : IsResponse(all[s])

ASSUME ContractAssumption ==
    /\ NoThread \notin Threads /\ Absent \notin States
    /\ \A schema \in Schemas : schema # NoSchema
    /\ \A M \in SUBSET MediaTypes : Absent \notin [M -> {NoSchema} \cup Schemas]
    /\ OctetStream \in MediaTypes
    /\ StatusCodes \cap {Wildcard[s] : s \in StatusCodes} = {}
    /\ Default \notin StatusCodes
    /\ IsTable(Declared) /\ DOMAIN Declared = Operations
    /\ \A op \in Operations : AreResponses(Declared[op])

VARIABLES responses,  \* operation.responses.by_status of the shared IR
          states,     \* the tracker's _states: response key -> state
          check,      \* the check that holds the lock between its two steps
          document,   \* openapi_current, its Responses
          changes     \* openapi_change_events

contractVars == <<responses, states, check, document, changes>>

NoCheck == [thread |-> NoThread]

ContractInit ==
    /\ responses = Declared
    /\ states = [k \in {} |-> Absent]
    /\ check = NoCheck
    /\ document = Declared
    /\ changes = <<>>
-----------------------------------------------------------------------------
\* _response_baseline: the key a missing status is copied from, if any.
Baseline(all, s) ==
    IF Wildcard[s] \in DOMAIN all THEN {Wildcard[s]}
    ELSE DOMAIN all \cap {Default}

TypesAt(schema, place) == {f[2] : f \in {g \in schema : g[1] = place}}

\* _merge_schema and _merge_types: the observed types are added at each of
\* their locations, except that an integer is no news where numbers are.
MergeSchema(target, observed) ==
    target \cup {f \in observed :
        ~ (TypesAt(observed, f[1]) = {"integer"} /\ <<f[1], "number">> \in target)}

\* The Response of a status before the body is looked at.
Materialized(all, s) ==
    IF s \in DOMAIN all THEN all[s]
    ELSE IF Baseline(all, s) # {} THEN all[CHOOSE k \in Baseline(all, s) : TRUE]
    ELSE << >>

\* The rest of _merge_response: an empty body removes every content, a body
\* of a new media type adds one, a decoded body gives or widens its Schema.
MergedContent(contents, key, e) ==
    LET old == IF key \in DOMAIN contents THEN contents[key] ELSE NoSchema
    IN  CASE e.body = "empty"  -> << >>
          [] e.body = "binary" -> Put(contents, key, old)
          [] OTHER -> Put(contents, key, IF old = NoSchema THEN e.schema
                                         ELSE MergeSchema(old, e.schema))

MediaOf(e) == IF e.media = NoMedia THEN OctetStream ELSE e.media

\* _merge_response on the Responses of one operation.
MergeResponse(all, e) ==
    Put(all, e.status, MergedContent(Materialized(all, e.status), MediaOf(e), e))

KeyOf(e) == <<e.op, e.status, e.media>>
StateOf(k) == IF k \in DOMAIN states THEN states[k] ELSE Absent

\* The exact Response of a status, if there is one (_document_response).
ResponseAt(all, s) == IF s \in DOMAIN all THEN all[s] ELSE Absent
-----------------------------------------------------------------------------
(* observe: the part before the event is stored.                           *)

LockFree == check = NoCheck

\* The key was checked before.
AlreadyChecked(t, e) ==
    /\ LockFree /\ StateOf(KeyOf(e)) = "checked"
    /\ UNCHANGED contractVars

\* A declared JSON body that is invalid or cut off is left for a later one.
CheckLater(t, e) ==
    /\ LockFree /\ StateOf(KeyOf(e)) # "checked"
    /\ e.body = "invalid_json"
    /\ states' = Put(states, KeyOf(e), "pending")
    /\ UNCHANGED <<responses, check, document, changes>>

\* The merge changes the IR; without a change the check is complete.
Merge(t, e) ==
    LET merged == MergeResponse(responses[e.op], e)
    IN  /\ LockFree /\ StateOf(KeyOf(e)) # "checked"
        /\ e.body # "invalid_json"
        /\ IF merged = responses[e.op]
           THEN /\ states' = Put(states, KeyOf(e), "checked")
                /\ UNCHANGED <<responses, check>>
           ELSE /\ responses' = [responses EXCEPT ![e.op] = merged]
                /\ states' = Put(states, KeyOf(e), "checking")
                /\ check' = [thread |-> t, evidence |-> e,
                             previous |-> responses[e.op],
                             state |-> StateOf(KeyOf(e))]
        /\ UNCHANGED <<document, changes>>

\* Whether observe is over when thread t has taken the first step.
CheckRuns(t) == check.thread = t

-----------------------------------------------------------------------------
(* observe: the part after the merge.                                      *)

ChangeEvent(c) ==
    [op |-> c.evidence.op, status |-> c.evidence.status, media |-> c.evidence.media,
     evidence |-> c.evidence,
     before |-> ResponseAt(c.previous, c.evidence.status),
     after |-> ResponseAt(responses[c.evidence.op], c.evidence.status)]

\* The document and the event are one transaction.
StoreChange(t) ==
    /\ CheckRuns(t)
    /\ document' = responses
    /\ changes' = Append(changes, ChangeEvent(check))
    /\ states' = Put(states, KeyOf(check.evidence), "checked")
    /\ check' = NoCheck
    /\ UNCHANGED responses

\* Mutant: the failure keeps the merged Responses.
KeepMerge(t) ==
    /\ CheckRuns(t)
    /\ states' = [k \in {j \in DOMAIN states : j # KeyOf(check.evidence)
                                        \/ check.state # Absent} |->
                    IF k = KeyOf(check.evidence) THEN check.state ELSE states[k]]
    /\ check' = NoCheck
    /\ UNCHANGED <<responses, document, changes>>

\* Mutant: the failed check is not taken back.
KeepState(t) ==
    /\ CheckRuns(t)
    /\ responses' = [responses EXCEPT ![check.evidence.op] = check.previous]
    /\ states' = Put(states, KeyOf(check.evidence), "checked")
    /\ check' = NoCheck
    /\ UNCHANGED <<document, changes>>

\* The write fails: the Responses and the state of the key are put back.
UndoMerge(t) ==
    /\ CheckRuns(t)
    /\ responses' = [responses EXCEPT ![check.evidence.op] = check.previous]
    /\ states' = [k \in {j \in DOMAIN states : j # KeyOf(check.evidence)
                                        \/ check.state # Absent} |->
                    IF k = KeyOf(check.evidence) THEN check.state ELSE states[k]]
    /\ check' = NoCheck
    /\ UNCHANGED <<document, changes>>
-----------------------------------------------------------------------------
(* Properties.                                                             *)

ContractTypeOK ==
    /\ DOMAIN responses = Operations /\ DOMAIN document = Operations
    /\ \A k \in DOMAIN states : states[k] \in States
    /\ check.thread \in Threads \cup {NoThread}

Contents(response) == IF response = Absent THEN << >> ELSE response

\* What a Response says of one media type.
Knows(response, media) ==
    IF media \notin DOMAIN Contents(response) THEN {}
    ELSE IF response[media] = NoSchema THEN {} ELSE response[media]

IsChangeOf(i, op, s) == changes[i].op = op /\ changes[i].status = s

\* Where the first n events leave a status: the last of them about it says, or
\* else the document that was declared.
LeadTo(n, op, s, response) ==
    \/ \E i \in 1..n : /\ IsChangeOf(i, op, s) /\ response = changes[i].after
                       /\ \A j \in i + 1..n : ~IsChangeOf(j, op, s)
    \/ /\ \A i \in 1..n : ~IsChangeOf(i, op, s)
       /\ response = ResponseAt(Declared[op], s)

\* The stored document can be explained: outside of a check it is the IR's,
\* and the events of a status lead, each from where the last one ended, from
\* the declared Response to the stored one; only an empty body takes a fact
\* away.  A merge that is undone, and every failed write, must leave no trace.
ContractIsAudited ==
    /\ LockFree => document = responses
    /\ \A i \in DOMAIN changes :
         changes[i].evidence.body # "empty" =>
           \A m \in DOMAIN Contents(changes[i].before) :
             Knows(changes[i].before, m) \subseteq Knows(changes[i].after, m)
    /\ \A i \in DOMAIN changes :
         LET c == changes[i]
         IN  LeadTo(i - 1, c.op, c.status, c.before) /\ c.after # c.before
    /\ \A op \in Operations, s \in StatusCodes :
         LeadTo(Len(changes), op, s, ResponseAt(document[op], s))

\* The facts of one event's body are in the Response it left, and they stay
\* there until an empty body of the same status is observed.
ChangeCovered(i) ==
    LET c == changes[i]
        emptied == \E j \in i..Len(changes) :
                     /\ changes[j].op = c.op /\ changes[j].status = c.status
                     /\ changes[j].after = << >>
    IN  c.evidence.body \in {"json", "text"} /\ ~emptied =>
          LET known == Knows(ResponseAt(document[c.op], c.status), MediaOf(c))
          IN  MergeSchema(known, c.evidence.schema) = known

\* A check happens once per key and App, so it must not be wasted: a key is
\* only done when the Response it names exists in the stored document, and
\* whatever a check added stays known there, also when other checks of the
\* same status failed in between.
ChecksAreNotWasted ==
    /\ \A k \in DOMAIN states :
         /\ states[k] = "checked" => k[2] \in DOMAIN document[k[1]]
         /\ states[k] = "checking" => check # NoCheck /\ k = KeyOf(check.evidence)
    /\ \A i \in DOMAIN changes : ChangeCovered(i)
    /\ \A i, j \in DOMAIN changes :
         (<<changes[i].op, changes[i].status, changes[i].media>> =
          <<changes[j].op, changes[j].status, changes[j].media>>) => i = j

\* docs/tasks/api-behavior-monitor.md:34-35: "Runtime evidence may add
\* statuses, media types, optional fields, and wider type unions. It never
\* deletes fields, narrows types, or infers enums."  It does not hold: an empty
\* body removes every media type of its status (_merge_response).
ContractOnlyWidens ==
    [][ \A op \in Operations : \A s \in DOMAIN document[op] :
          \A m \in DOMAIN document[op][s] :
            Knows(document[op][s], m) \subseteq
            Knows(ResponseAt(document'[op], s), m) ]_document
=============================================================================
