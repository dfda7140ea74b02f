------------------------ MODULE BehaviorMonitorProofs ------------------------
(***************************************************************************)
(* Proofs about the Response Contract Monitor, the Resource Response       *)
(* Tracker and the coordinator that feeds them, for any threads, documents *)
(* and responses.                                                          *)
(***************************************************************************)
EXTENDS BehaviorMonitor, SequenceTheorems, TLAPS

-----------------------------------------------------------------------------
(* Responses and their merge.                                              *)

NoContents == << >>

LEMMA Emptied ==
  IsResponse(NoContents) /\ DOMAIN NoContents = {} /\ NoContents # Absent
<1>1. DOMAIN NoContents = {}
  BY DEF NoContents
<1>2. NoContents = [m \in {} |-> NoSchema]
  BY DEF NoContents
<1>3. NoContents \in [{} -> {NoSchema} \cup Schemas]
  BY <1>2
<1>. QED  BY <1>1, <1>3, ContractAssumption DEF IsResponse

LEMMA ResponseIsPresent ==
  ASSUME NEW r, IsResponse(r)
  PROVE  r # Absent /\ Contents(r) = r
  BY ContractAssumption DEF IsResponse, Contents

\* Merging keeps what was known and adds what was observed (_merge_schema).
LEMMA MergedSchema ==
  ASSUME NEW old \in Schemas, NEW observed \in Schemas
  PROVE  LET new == MergeSchema(old, observed)
         IN  new \in Schemas /\ old \subseteq new /\ MergeSchema(new, observed) = new
  BY DEF MergeSchema, Schemas, TypesAt

\* What is covered stays covered.
LEMMA CoverGrows ==
  ASSUME NEW known, NEW more, known \subseteq more, NEW observed,
         MergeSchema(known, observed) = known
  PROVE  MergeSchema(more, observed) = more
  BY DEF MergeSchema

\* The contents of a Response after a body (_merge_response).
LEMMA MergedContents ==
  ASSUME NEW r, IsResponse(r), NEW e \in Evidences
  PROVE  LET new == MergedContent(r, MediaOf(e), e)
         IN  /\ IsResponse(new)
             /\ e.body = "empty" => new = NoContents
             /\ e.body # "empty" =>
                  /\ new # NoContents
                  /\ \A m \in DOMAIN r : Knows(r, m) \subseteq Knows(new, m)
             /\ e.body \in {"json", "text"} =>
                  LET known == Knows(new, MediaOf(e))
                  IN  MergeSchema(known, e.schema) = known
<1> DEFINE key == MediaOf(e)
           old == IF key \in DOMAIN r THEN r[key] ELSE NoSchema
           row == IF e.body = "binary" THEN old
                  ELSE IF old = NoSchema THEN e.schema ELSE MergeSchema(old, e.schema)
           new == MergedContent(r, key, e)
<1>1. key \in MediaTypes /\ e.schema \in Schemas /\ \A schema \in Schemas : schema # NoSchema
  BY ContractAssumption DEF Evidences, MediaOf
<1>2. CASE e.body = "empty"
  <2>1. new = NoContents
    BY <1>2 DEF MergedContent, NoContents
  <2>. QED  BY <1>2, <2>1, Emptied
<1>3. CASE e.body # "empty"
  <2>1. new = Put(r, key, row)
    BY <1>3 DEF MergedContent
  <2>2. old \in {NoSchema} \cup Schemas
    BY DEF IsResponse
  <2>3. row \in {NoSchema} \cup Schemas
    BY <1>1, <2>2, MergedSchema
  <2>4. /\ e.body # "binary" => row # NoSchema /\ row \in Schemas /\ e.schema \in Schemas
                                /\ MergeSchema(row, e.schema) = row
        /\ old # NoSchema => row # NoSchema /\ old \subseteq row
    <3>1. MergeSchema(e.schema, e.schema) = e.schema
      BY DEF MergeSchema
    <3>. QED  BY <1>1, <2>2, <3>1, MergedSchema
  <2>. HIDE DEF row, new
  <2>5. /\ DOMAIN new = DOMAIN r \cup {key} /\ new[key] = row
        /\ \A m \in DOMAIN r : m # key => new[m] = r[m]
        /\ IsTable(new)
    BY <2>1 DEF Put, IsTable
  <2>6. IsResponse(new)
    BY <1>1, <2>3, <2>5 DEF IsResponse, IsTable
  <2>7. new # NoContents
    BY <2>5, Emptied
  <2>8. Contents(new) = new /\ Contents(r) = r
    BY <2>6, ResponseIsPresent
  <2>9. ASSUME NEW m \in DOMAIN r PROVE Knows(r, m) \subseteq Knows(new, m)
    BY <2>4, <2>5, <2>8, <2>9 DEF Knows
  <2>10. ASSUME e.body \in {"json", "text"}
         PROVE  MergeSchema(Knows(new, key), e.schema) = Knows(new, key)
    BY <2>4, <2>5, <2>8, <2>10 DEF Knows
  <2>. QED  BY <1>3, <2>6, <2>7, <2>9, <2>10 DEF new
<1>. QED  BY <1>2, <1>3

\* The Responses of an operation after a response was merged.
LEMMA MergedResponses ==
  ASSUME NEW all, AreResponses(all), NEW e \in Evidences
  PROVE  LET s == e.status
             before == ResponseAt(all, s)
             new == MergeResponse(all, e)
             after == ResponseAt(new, s)
         IN  /\ AreResponses(new) /\ DOMAIN new = DOMAIN all \cup {s}
             /\ \A x \in StatusCodes : x # s => ResponseAt(new, x) = ResponseAt(all, x)
             /\ IsResponse(after)
             /\ new # all => after # before
             /\ e.body = "empty" => after = NoContents
             /\ e.body # "empty" =>
                  /\ after # NoContents
                  /\ \A m \in DOMAIN Contents(before) : Knows(before, m) \subseteq Knows(after, m)
             /\ e.body \in {"json", "text"} =>
                  LET known == Knows(after, MediaOf(e))
                  IN  MergeSchema(known, e.schema) = known
<1> DEFINE s == e.status
           start == Materialized(all, s)
           row == MergedContent(start, MediaOf(e), e)
           new == MergeResponse(all, e)
<1>1. IsResponse(start)
  <2>1. CASE s \in DOMAIN all
    BY <2>1 DEF Materialized, AreResponses
  <2>2. CASE s \notin DOMAIN all /\ Baseline(all, s) # {}
    <3>1. Baseline(all, s) \subseteq DOMAIN all
      BY DEF Baseline
    <3>. QED  BY <2>2, <3>1 DEF Materialized, AreResponses
  <2>3. CASE s \notin DOMAIN all /\ Baseline(all, s) = {}
    BY <2>3, Emptied DEF Materialized, NoContents
  <2>. QED  BY <2>1, <2>2, <2>3
<1>2. new = Put(all, s, row)
  BY DEF MergeResponse
<1>3. s \in DOMAIN all => start = all[s] /\ ResponseAt(all, s) = start
  BY DEF Materialized, ResponseAt
<1>. HIDE DEF start
<1>4. /\ IsResponse(row)
      /\ e.body = "empty" => row = NoContents
      /\ e.body # "empty" =>
           /\ row # NoContents
           /\ \A m \in DOMAIN start : Knows(start, m) \subseteq Knows(row, m)
      /\ e.body \in {"json", "text"} =>
           MergeSchema(Knows(row, MediaOf(e)), e.schema) = Knows(row, MediaOf(e))
  BY <1>1, MergedContents
<1>. HIDE DEF row, new
<1>5. /\ DOMAIN new = DOMAIN all \cup {s} /\ new[s] = row
      /\ \A k \in DOMAIN all : k # s => new[k] = all[k]
      /\ IsTable(new)
  BY <1>2 DEF Put, IsTable
<1>6. ResponseAt(new, s) = row
  BY <1>5 DEF ResponseAt
<1>7. AreResponses(new)
  BY <1>4, <1>5 DEF AreResponses
<1>8. \A x \in StatusCodes : x # s => ResponseAt(new, x) = ResponseAt(all, x)
  BY <1>5 DEF ResponseAt
<1>9. new # all => row # ResponseAt(all, s)
  <2>1. CASE s \in DOMAIN all
    <3>1. SUFFICES ASSUME row = all[s] PROVE new = all
      BY <2>1 DEF ResponseAt
    <3>2. DOMAIN new = DOMAIN all /\ \A k \in DOMAIN all : new[k] = all[k]
      BY <1>5, <2>1, <3>1
    <3>. QED  BY <1>5, <3>2 DEF AreResponses, IsTable
  <2>2. CASE s \notin DOMAIN all
    BY <1>4, <2>2, ResponseIsPresent DEF ResponseAt
  <2>. QED  BY <2>1, <2>2
<1>10. ASSUME e.body # "empty", NEW m \in DOMAIN Contents(ResponseAt(all, s))
       PROVE  Knows(ResponseAt(all, s), m) \subseteq Knows(row, m)
  <2>1. CASE s \in DOMAIN all
    <3>1. Contents(start) = start
      BY <1>1, ResponseIsPresent
    <3>. QED  BY <1>3, <1>4, <1>10, <2>1, <3>1
  <2>2. CASE s \notin DOMAIN all
    BY <1>10, <2>2, Emptied DEF ResponseAt, Contents, NoContents
  <2>. QED  BY <2>1, <2>2
<1>. QED  BY <1>4, <1>5, <1>6, <1>7, <1>8, <1>9, <1>10 DEF new

-----------------------------------------------------------------------------
(* The inductive invariant of the Contract Monitor.                        *)

Keys == Operations \X StatusCodes \X (MediaTypes \cup {NoMedia})

IsSeq(s) == s \in Seq({s[i] : i \in DOMAIN s})

AreDocuments(all) ==
  IsTable(all) /\ DOMAIN all = Operations /\ \A op \in Operations : AreResponses(all[op])

ContractTypes ==
  /\ AreDocuments(responses) /\ AreDocuments(document)
  /\ DOMAIN states \subseteq Keys /\ states \in [DOMAIN states -> States]
  /\ IsSeq(changes)

\* While a check holds the lock the IR is the document with its response merged, and
\* its key is the only one being checked.
CheckHeld ==
  LET e == check.evidence
      all == document[e.op]
  IN  /\ check = [thread |-> check.thread, evidence |-> e, previous |-> all,
                  state |-> check.state]
      /\ check.thread \in Threads /\ e \in Evidences
      /\ check.state \in {Absent, "pending"}
      /\ MergeResponse(all, e) # all
      /\ responses = [document EXCEPT ![e.op] = MergeResponse(all, e)]
      /\ KeyOf(e) \in DOMAIN states
      /\ \A k \in DOMAIN states : states[k] = "checking" <=> k = KeyOf(e)

CheckFree ==
  /\ document = responses
  /\ \A k \in DOMAIN states : states[k] # "checking"

\* One event: it comes from a key that is done with, it continues where its status
\* was left before, and what it says is still known.
EventInv(i) ==
  LET c == changes[i]
      e == c.evidence
  IN  /\ c.op = e.op /\ c.status = e.status /\ c.media = e.media
      /\ KeyOf(e) \in DOMAIN states /\ states[KeyOf(e)] = "checked"
      /\ \A j \in DOMAIN changes : KeyOf(changes[j].evidence) = KeyOf(e) => i = j
      /\ LeadTo(i - 1, c.op, c.status, c.before) /\ c.after # c.before
      /\ e.body = "empty" => c.after = NoContents
      /\ e.body # "empty" =>
           /\ c.after # NoContents
           /\ \A m \in DOMAIN Contents(c.before) :
                Knows(c.before, m) \subseteq Knows(c.after, m)
      /\ ChangeCovered(i)

LeadsToDocument ==
  \A op \in Operations, s \in StatusCodes :
    LeadTo(Len(changes), op, s, ResponseAt(document[op], s))

DoneInDocument ==
  \A k \in DOMAIN states : states[k] = "checked" => k[2] \in DOMAIN document[k[1]]

ContractInv ==
  /\ ContractTypes
  /\ IF LockFree THEN CheckFree ELSE CheckHeld
  /\ \A i \in DOMAIN changes : EventInv(i)
  /\ LeadsToDocument
  /\ DoneInDocument

-----------------------------------------------------------------------------
(* The inductive invariant of the Resource Tracker.                        *)

Working(t) == task[t] # Idle

IsTask(k) ==
  k = [phase |-> k.phase, op |-> k.op, observation |-> k.observation, body |-> k.body,
       name |-> k.name, fields |-> k.fields, state |-> k.state, row |-> k.row, new |-> k.new]

\* What a thread found when it began to write is still there.
TaskInv(t) ==
  LET k == task[t]
  IN  /\ k.phase \in {"idle", "identify", "context", "choose", "record", "write"}
      /\ (k.phase = "idle") = (k = Idle)
      /\ k.phase # "idle" => IsTask(k) /\ k.op \in ResourceOps
      /\ k.phase \in {"record", "write"} => k.state \in StateNames
      /\ k.phase = "write" =>
           /\ "resource" \notin k.new =>
                k.name \in DOMAIN resources /\ resources[k.name] = k.fields
           /\ "edge" \notin k.new =>
                EdgeOf(t) \in DOMAIN edges /\ edges[EdgeOf(t)] = k.state
           /\ k.row # Unknown => InstanceOf(t) \in DOMAIN instances

InstanceInv(k) ==
  /\ k[1] \in DOMAIN resources /\ DOMAIN k[2] = resources[k[1]]
  /\ NewestState(k, instances[k].state)

StateEventInv(e) ==
  /\ <<e.op, e.instance[1]>> \in DOMAIN edges
  /\ edges[<<e.op, e.instance[1]>>] = e.current
  /\ e.instance \in DOMAIN instances

ResourceInv ==
  /\ IsTable(task) /\ DOMAIN task = Trackers
  /\ \A t \in Trackers : TaskInv(t)
  /\ \A e \in DOMAIN edges : e \in ResourceOps \X DOMAIN resources /\ edges[e] \in StateNames
  /\ \A k \in DOMAIN instances : InstanceInv(k)
  /\ IsSeq(stateEvents)
  /\ \A i \in DOMAIN stateEvents : StateEventInv(stateEvents[i])

-----------------------------------------------------------------------------
(* The inductive invariant of the coordinator.                             *)

Stages == {"idle", "contract", "storing", "resources", "deriving"}

\* An Observation has one response, and it is processed once.
ResponseInv(t) ==
  LET r == response[t]
  IN  /\ stage[t] \in Stages
      /\ (stage[t] = "storing") = (check.thread = t)
      /\ (stage[t] = "deriving") = Working(t)
      /\ stage[t] # "idle" =>
           /\ Evidence(r) \in Evidences
           /\ r.id \in Nat /\ r.id < received
           /\ \A u \in Threads : stage[u] # "idle" /\ response[u].id = r.id => u = t
           /\ \A i \in DOMAIN stateEvents : stateEvents[i].observation # r.id
      /\ stage[t] \in {"resources", "deriving"} => Eligible(t)
      /\ stage[t] = "deriving" => task[t].op = r.op /\ task[t].observation = r.id

ObservationInv(i) ==
  /\ stateEvents[i].observation \in Nat /\ stateEvents[i].observation < received
  /\ \A j \in DOMAIN stateEvents :
       stateEvents[i].observation = stateEvents[j].observation => i = j

FlowInv ==
  /\ IsTable(stage) /\ DOMAIN stage = Threads
  /\ IsTable(response) /\ DOMAIN response = Threads
  /\ received \in Nat
  /\ \A t \in Threads : ResponseInv(t)
  /\ \A i \in DOMAIN stateEvents : ObservationInv(i)

MonitorInv == ContractInv /\ ResourceInv /\ FlowInv

-----------------------------------------------------------------------------
(* The steps of the Contract Monitor.                                      *)

LEMMA Appended ==
  ASSUME NEW s, IsSeq(s), NEW e
  PROVE  /\ IsSeq(Append(s, e)) /\ Len(s) \in Nat /\ DOMAIN s = 1..Len(s)
         /\ Len(Append(s, e)) = Len(s) + 1
         /\ DOMAIN Append(s, e) = 1..Len(s) + 1
         /\ \A i \in 1..Len(s) : Append(s, e)[i] = s[i]
         /\ Append(s, e)[Len(s) + 1] = e
         /\ SubSeq(Append(s, e), 1, Len(s)) = s
<1> DEFINE all == {s[i] : i \in DOMAIN s}
           more == all \cup {e}
           new == Append(s, e)
<1>1. s \in Seq(more)
  <2>1. s \in Seq(all) /\ all \subseteq more
    BY DEF IsSeq
  <2>. HIDE DEF all, more
  <2>. QED  BY <2>1
<1>2. e \in more
  OBVIOUS
<1>. HIDE DEF all, more
<1>3. /\ new \in Seq(more) /\ Len(s) \in Nat /\ DOMAIN s = 1..Len(s)
      /\ Len(new) = Len(s) + 1 /\ DOMAIN new = 1..Len(s) + 1
      /\ \A i \in 1..Len(s) : new[i] = s[i]
      /\ new[Len(s) + 1] = e
  BY <1>1, <1>2
<1>. HIDE DEF new
<1>5. SubSeq(new, 1, Len(s)) = s
  <2> DEFINE part == SubSeq(new, 1, Len(s))
  <2>1. \A i \in 1..Len(s) : new[i] \in more
    BY <1>1, <1>3, ElementOfSeq
  <2>2. /\ part \in Seq(more)
        /\ Len(part) = IF 1 <= Len(s) THEN Len(s) - 1 + 1 ELSE 0
        /\ \A i \in 1..Len(s) - 1 + 1 : part[i] = new[1 + i - 1]
    BY <1>3, <2>1, SubSeqProperties
  <2>3. Len(part) = Len(s) /\ \A i \in 1..Len(s) : part[i] = s[i]
    BY <1>3, <2>2
  <2>. HIDE DEF part
  <2>4. part = s
    BY <1>1, <2>2, <2>3, SeqEqual
  <2>. QED  BY <2>4 DEF part
<1>4. IsSeq(new)
  <2> DEFINE values == {new[i] : i \in DOMAIN new}
  <2>1. \A i \in 1..Len(new) : new[i] \in values
    BY <1>3
  <2>2. new = [i \in 1..Len(new) |-> new[i]]
    BY <1>3
  <2>. HIDE DEF values
  <2>3. new \in Seq(values)
    BY <1>3, <2>1, <2>2
  <2>. QED  BY <2>3 DEF IsSeq, values
<1>. QED  BY <1>3, <1>4, <1>5 DEF new

\* A step that stores nothing and takes no key back that is done with.
Unstored ==
  /\ document' = document /\ changes' = changes
  /\ \A k \in DOMAIN states : states[k] = "checked" => k \in DOMAIN states' /\ states'[k] = "checked"

LEMMA EventsStay ==
  ASSUME ContractInv, Unstored
  PROVE  (\A i \in DOMAIN changes : EventInv(i))' /\ LeadsToDocument'
<1>1. changes' = changes /\ document' = document
  BY DEF Unstored
<1>2. ASSUME NEW i \in DOMAIN changes
      PROVE  EventInv(i)'
  <2>1. EventInv(i)
    BY <1>2 DEF ContractInv
  <2>2. \A n, op, s, r : LeadTo(n, op, s, r) => LeadTo(n, op, s, r)'
    BY <1>1 DEF LeadTo, IsChangeOf
  <2>3. ChangeCovered(i) => ChangeCovered(i)'
    BY <1>1 DEF ChangeCovered
  <2>. QED  BY <1>1, <2>1, <2>2, <2>3 DEF EventInv, Unstored
<1>3. LeadsToDocument'
  BY <1>1 DEF ContractInv, LeadsToDocument, LeadTo, IsChangeOf
<1>. QED  BY <1>1, <1>2, <1>3

\* A key of an evidence, in any state, put into the states.
LEMMA StatesPut ==
  ASSUME ContractTypes, NEW e \in Evidences, NEW state \in States,
         states' = Put(states, KeyOf(e), state)
  PROVE  /\ DOMAIN states' = DOMAIN states \cup {KeyOf(e)}
         /\ DOMAIN states' \subseteq Keys /\ states' \in [DOMAIN states' -> States]
         /\ states'[KeyOf(e)] = state
         /\ \A k \in DOMAIN states : k # KeyOf(e) => states'[k] = states[k]
<1>1. KeyOf(e) \in Keys
  BY DEF KeyOf, Keys, Evidences
<1> DEFINE key == KeyOf(e)
<1>. HIDE DEF key
<1>2. /\ DOMAIN states' = DOMAIN states \cup {key}
      /\ states' \in [DOMAIN states' -> States]
      /\ states'[key] = state
      /\ \A k \in DOMAIN states : k # key => states'[k] = states[k]
  BY DEF Put, ContractTypes, key
<1>3. DOMAIN states' \subseteq Keys
  BY <1>1, <1>2 DEF ContractTypes, key
<1>. QED  BY <1>2, <1>3 DEF key

LEMMA CheckLaterStep ==
  ASSUME ContractInv, NEW t \in Threads, NEW e \in Evidences, CheckLater(t, e)
  PROVE  ContractInv'
<1>1. /\ LockFree /\ StateOf(KeyOf(e)) # "checked"
      /\ states' = Put(states, KeyOf(e), "pending")
      /\ responses' = responses /\ check' = check /\ document' = document /\ changes' = changes
  BY DEF CheckLater
<1>2. "pending" \in States
  BY DEF States
<1>3. ContractTypes
  BY DEF ContractInv
<1>4. /\ DOMAIN states' = DOMAIN states \cup {KeyOf(e)}
      /\ DOMAIN states' \subseteq Keys /\ states' \in [DOMAIN states' -> States]
      /\ states'[KeyOf(e)] = "pending"
      /\ \A k \in DOMAIN states : k # KeyOf(e) => states'[k] = states[k]
  BY <1>1, <1>2, <1>3, StatesPut
<1>5. KeyOf(e) \in DOMAIN states => states[KeyOf(e)] # "checked"
  BY <1>1 DEF StateOf
<1>6. Unstored
  BY <1>1, <1>4, <1>5 DEF Unstored
<1>7. ContractTypes'
  BY <1>1, <1>3, <1>4 DEF ContractTypes, AreDocuments
<1>8. CheckFree' /\ LockFree'
  BY <1>1, <1>4 DEF ContractInv, CheckFree, LockFree, NoCheck
<1>9. DoneInDocument'
  BY <1>1, <1>4 DEF ContractInv, DoneInDocument
<1>. QED  BY <1>6, <1>7, <1>8, <1>9, EventsStay DEF ContractInv

LEMMA ContractStutters ==
  ASSUME ContractInv, UNCHANGED contractVars
  PROVE  ContractInv'
<1>1. /\ responses' = responses /\ states' = states /\ check' = check
      /\ document' = document /\ changes' = changes
  BY DEF contractVars
<1>2. Unstored
  BY <1>1 DEF Unstored
<1>3. ContractTypes' /\ DoneInDocument'
  BY <1>1 DEF ContractInv, ContractTypes, AreDocuments, DoneInDocument
<1>4. (IF LockFree THEN CheckFree ELSE CheckHeld)'
  <2>1. CASE LockFree
    BY <1>1, <2>1 DEF ContractInv, LockFree, NoCheck, CheckFree
  <2>2. CASE ~LockFree
    BY <1>1, <2>2 DEF ContractInv, LockFree, NoCheck, CheckHeld
  <2>. QED  BY <2>1, <2>2
<1>. QED  BY <1>2, <1>3, <1>4, EventsStay DEF ContractInv

LEMMA MergeStep ==
  ASSUME ContractInv, NEW t \in Threads, NEW e \in Evidences, Merge(t, e)
  PROVE  ContractInv'
<1> DEFINE all == responses[e.op]
           merged == MergeResponse(all, e)
<1>1. /\ LockFree /\ StateOf(KeyOf(e)) # "checked"
      /\ document' = document /\ changes' = changes
      /\ ContractTypes /\ CheckFree /\ DoneInDocument /\ e.op \in Operations
  BY DEF Merge, ContractInv, Evidences
<1>2. AreResponses(all) /\ document = responses
  BY <1>1 DEF ContractTypes, AreDocuments, CheckFree
<1>3. AreResponses(merged) /\ DOMAIN merged = DOMAIN all \cup {e.status}
  BY <1>2, MergedResponses
<1>4. {"checked", "checking"} \subseteq States
  BY DEF States
<1>5. KeyOf(e) \in DOMAIN states => states[KeyOf(e)] # "checked"
  BY <1>1 DEF StateOf
<1>6. CASE merged = all
  <2>1. states' = Put(states, KeyOf(e), "checked") /\ responses' = responses /\ check' = check
    BY <1>6 DEF Merge
  <2>2. /\ DOMAIN states' = DOMAIN states \cup {KeyOf(e)}
        /\ DOMAIN states' \subseteq Keys /\ states' \in [DOMAIN states' -> States]
        /\ states'[KeyOf(e)] = "checked"
        /\ \A k \in DOMAIN states : k # KeyOf(e) => states'[k] = states[k]
    BY <1>1, <1>4, <2>1, StatesPut
  <2>3. Unstored
    BY <1>1, <2>2 DEF Unstored
  <2>4. ContractTypes'
    BY <1>1, <2>1, <2>2 DEF ContractTypes, AreDocuments
  <2>5. CheckFree' /\ LockFree'
    BY <1>1, <2>1, <2>2 DEF CheckFree, LockFree, NoCheck
  <2>6. DoneInDocument'
    <3>1. KeyOf(e)[1] = e.op /\ KeyOf(e)[2] = e.status
      BY DEF KeyOf
    <3>2. e.status \in DOMAIN document[e.op]
      BY <1>2, <1>3, <1>6
    <3>. QED  BY <1>1, <2>2, <3>1, <3>2 DEF DoneInDocument
  <2>. QED  BY <2>3, <2>4, <2>5, <2>6, EventsStay DEF ContractInv
<1>7. CASE merged # all
  <2> DEFINE held == [thread |-> t, evidence |-> e, previous |-> all, state |-> StateOf(KeyOf(e))]
  <2>1. /\ states' = Put(states, KeyOf(e), "checking")
        /\ responses' = [responses EXCEPT ![e.op] = merged] /\ check' = held
    BY <1>7 DEF Merge
  <2>2. /\ DOMAIN states' = DOMAIN states \cup {KeyOf(e)}
        /\ DOMAIN states' \subseteq Keys /\ states' \in [DOMAIN states' -> States]
        /\ states'[KeyOf(e)] = "checking"
        /\ \A k \in DOMAIN states : k # KeyOf(e) => states'[k] = states[k]
    BY <1>1, <1>4, <2>1, StatesPut
  <2>3. Unstored
    BY <1>1, <1>5, <2>2 DEF Unstored
  <2>4. /\ held.thread = t /\ held.evidence = e /\ held.previous = all
        /\ held.state = StateOf(KeyOf(e))
        /\ held = [thread |-> t, evidence |-> e, previous |-> all, state |-> held.state]
    OBVIOUS
  <2>. HIDE DEF held, merged
  <2>5. AreDocuments(responses)'
    BY <1>1, <1>3, <2>1 DEF ContractTypes, AreDocuments, IsTable
  <2>6. ContractTypes'
    BY <1>1, <2>2, <2>5 DEF ContractTypes, AreDocuments
  <2>7. ~LockFree'
    <3>1. NoCheck.thread = NoThread
      BY DEF NoCheck
    <3>. QED  BY <2>1, <2>4, <3>1, ContractAssumption DEF LockFree
  <2>8. CheckHeld'
    <3>1. held.state \in {Absent, "pending"}
      <4>1. CASE KeyOf(e) \in DOMAIN states
        BY <1>1, <1>5, <2>4, <4>1 DEF StateOf, CheckFree, ContractTypes, States
      <4>2. CASE KeyOf(e) \notin DOMAIN states
        BY <2>4, <4>2 DEF StateOf
      <4>. QED  BY <4>1, <4>2
    <3>2. \A k \in DOMAIN states' : states'[k] = "checking" <=> k = KeyOf(e)
      BY <1>1, <2>2 DEF CheckFree
    <3>3. document'[e.op] = all /\ responses' = [document' EXCEPT ![e.op] = merged]
      BY <1>1, <1>2, <2>1
    <3>4. MergeResponse(document'[e.op], e) = merged /\ merged # document'[e.op]
      BY <1>7, <3>3 DEF merged
    <3>5. check' = [thread |-> check'.thread, evidence |-> check'.evidence,
                    previous |-> document'[e.op], state |-> check'.state]
      BY <2>1, <2>4, <3>3
    <3>. HIDE DEF all
    <3>. QED  BY <1>1, <2>1, <2>2, <2>4, <3>1, <3>2, <3>3, <3>4, <3>5 DEF CheckHeld
  <2>9. DoneInDocument'
    BY <1>1, <2>2 DEF DoneInDocument
  <2>. QED  BY <2>3, <2>6, <2>7, <2>8, <2>9, EventsStay DEF ContractInv
<1>. QED  BY <1>6, <1>7

\* The check that ends.
LEMMA HeldFacts ==
  ASSUME ContractInv, NEW t \in Threads, CheckRuns(t)
  PROVE  LET e == check.evidence
             all == document[e.op]
         IN  /\ CheckHeld /\ ~LockFree /\ ContractTypes
             /\ e \in Evidences /\ e.op \in Operations /\ e.status \in StatusCodes
             /\ check.previous = all /\ AreResponses(all)
             /\ responses[e.op] = MergeResponse(all, e)
             /\ \A op \in Operations : op # e.op => responses[op] = document[op]
<1>1. ~LockFree
  <2>1. NoCheck.thread = NoThread
    BY DEF NoCheck
  <2>. QED  BY <2>1, ContractAssumption DEF CheckRuns, LockFree
<1>2. CheckHeld /\ ContractTypes
  BY <1>1 DEF ContractInv
<1>3. /\ check.evidence \in Evidences
      /\ check.evidence.op \in Operations /\ check.evidence.status \in StatusCodes
  BY <1>2 DEF CheckHeld, Evidences
<1>4. check.previous = document[check.evidence.op]
  BY <1>2 DEF CheckHeld
<1>5. AreResponses(document[check.evidence.op]) /\ DOMAIN document = Operations
  BY <1>2, <1>3 DEF ContractTypes, AreDocuments
<1>. QED  BY <1>1, <1>2, <1>3, <1>4, <1>5 DEF CheckHeld

LEMMA UndoMergeStep ==
  ASSUME ContractInv, NEW t \in Threads, UndoMerge(t)
  PROVE  ContractInv' /\ LockFree'
<1> DEFINE e == check.evidence
           kept == {j \in DOMAIN states : j # KeyOf(e) \/ check.state # Absent}
<1>1. /\ CheckRuns(t) /\ document' = document /\ changes' = changes /\ check' = NoCheck
      /\ responses' = [responses EXCEPT ![e.op] = check.previous]
      /\ states' = [k \in kept |-> IF k = KeyOf(e) THEN check.state ELSE states[k]]
  BY DEF UndoMerge
<1>2. /\ CheckHeld /\ ContractTypes /\ e.op \in Operations
      /\ check.previous = document[e.op]
      /\ \A op \in Operations : op # e.op => responses[op] = document[op]
  BY <1>1, HeldFacts
<1>3. responses' = document
  <2>1. DOMAIN responses = Operations /\ DOMAIN document = Operations /\ IsTable(document)
    BY <1>2 DEF ContractTypes, AreDocuments
  <2>. HIDE DEF e
  <2>2. DOMAIN responses' = Operations /\ \A op \in Operations : responses'[op] = document[op]
    BY <1>1, <1>2, <2>1
  <2>3. responses' = [op \in Operations |-> responses'[op]]
    BY <1>1, <2>1
  <2>. QED  BY <2>1, <2>2, <2>3 DEF IsTable
<1>4. /\ check.state \in {Absent, "pending"} /\ KeyOf(e) \in DOMAIN states
      /\ \A k \in DOMAIN states : states[k] = "checking" <=> k = KeyOf(e)
  BY <1>2 DEF CheckHeld
<1>5. DOMAIN states \subseteq Keys /\ states \in [DOMAIN states -> States]
  BY <1>2 DEF ContractTypes
<1>6. "pending" \in States
  BY DEF States
<1>7. /\ DOMAIN states' = kept /\ kept \subseteq DOMAIN states
      /\ \A k \in kept : states'[k] = IF k = KeyOf(e) THEN check.state ELSE states[k]
  BY <1>1
<1>8. states' \in [DOMAIN states' -> States]
  <2>1. \A k \in kept : (IF k = KeyOf(e) THEN check.state ELSE states[k]) \in States
    BY <1>4, <1>5, <1>6
  <2>. HIDE DEF kept, e
  <2>. QED  BY <1>1, <2>1
<1>9. ContractTypes'
  BY <1>1, <1>2, <1>3, <1>5, <1>7, <1>8 DEF ContractTypes, AreDocuments
<1>10. LockFree' /\ CheckFree'
  BY <1>1, <1>3, <1>4, <1>7 DEF LockFree, NoCheck, CheckFree
<1>11. Unstored
  BY <1>1, <1>4, <1>7 DEF Unstored
<1>12. DoneInDocument'
  BY <1>1, <1>4, <1>7 DEF ContractInv, DoneInDocument
<1>. QED  BY <1>9, <1>10, <1>11, <1>12, EventsStay DEF ContractInv

\* What is known of a status outlives the events of other statuses, and those of its own
\* that do not empty it.
LEMMA CoveredStays ==
  ASSUME NEW n \in Nat, n = Len(changes), Len(changes') = n + 1,
         NEW i \in 1..n, \A j \in 1..n : changes'[j] = changes[j],
         ChangeCovered(i),
         NEW c, c = changes[i],
         IF changes'[n + 1].op = c.op /\ changes'[n + 1].status = c.status
         THEN \/ changes'[n + 1].after = << >>
              \/ \A m : Knows(ResponseAt(document[c.op], c.status), m)
                       \subseteq Knows(ResponseAt(document'[c.op], c.status), m)
         ELSE ResponseAt(document'[c.op], c.status) = ResponseAt(document[c.op], c.status)
  PROVE  ChangeCovered(i)'
<1> DEFINE s == c.status
           m == MediaOf(c)
           known == Knows(ResponseAt(document[c.op], s), m)
           more == Knows(ResponseAt(document'[c.op], s), m)
<1>1. changes'[i] = c /\ n + 1 \in i..n + 1 /\ \A j \in i..n : j \in i..n + 1 /\ j \in 1..n
  OBVIOUS
<1>2. SUFFICES ASSUME c.evidence.body \in {"json", "text"},
                      ~ \E j \in i..n + 1 : /\ changes'[j].op = c.op /\ changes'[j].status = s
                                            /\ changes'[j].after = << >>
               PROVE  MergeSchema(more, c.evidence.schema) = more
  BY <1>1 DEF ChangeCovered
<1>3. ~ \E j \in i..n : /\ changes[j].op = c.op /\ changes[j].status = s
                        /\ changes[j].after = << >>
  BY <1>1, <1>2
<1>4. MergeSchema(known, c.evidence.schema) = known
  BY <1>2, <1>3 DEF ChangeCovered
<1>5. known \subseteq more
  BY <1>1, <1>2
<1>. HIDE DEF known, more
<1>. QED  BY <1>4, <1>5, CoverGrows

\* The new event continues the others, and they stay true.
LEMMA EventStored ==
  ASSUME ContractInv, NEW e \in Evidences, NEW n \in Nat, n = Len(changes),
         NEW before, NEW after, NEW new,
         new.op = e.op, new.status = e.status, new.media = e.media, new.evidence = e,
         new.before = before, new.after = after,
         changes' = Append(changes, new),
         KeyOf(e) \in DOMAIN states, states[KeyOf(e)] # "checked",
         states' = Put(states, KeyOf(e), "checked"),
         after # before,
         e.body = "empty" => after = NoContents,
         e.body # "empty" =>
           /\ after # NoContents
           /\ \A m \in DOMAIN Contents(before) : Knows(before, m) \subseteq Knows(after, m),
         e.body \in {"json", "text"} =>
           MergeSchema(Knows(after, MediaOf(e)), e.schema) = Knows(after, MediaOf(e)),
         ResponseAt(document'[e.op], e.status) = after,
         ResponseAt(document[e.op], e.status) = before,
         \A op \in Operations, x \in StatusCodes :
           <<op, x>> # <<e.op, e.status>> =>
             ResponseAt(document'[op], x) = ResponseAt(document[op], x)
  PROVE  /\ IsSeq(changes') /\ (\A i \in DOMAIN changes : EventInv(i))' /\ LeadsToDocument'
<1> DEFINE s == e.status
<1>1. e.op \in Operations /\ s \in StatusCodes /\ ContractTypes
  BY DEF Evidences, ContractInv
<1>6. IsSeq(changes) /\ \A i \in DOMAIN changes : EventInv(i)
  BY DEF ContractTypes, ContractInv
<1>7. /\ IsSeq(changes') /\ DOMAIN changes = 1..n
      /\ Len(changes') = n + 1 /\ DOMAIN changes' = 1..n + 1
      /\ \A i \in 1..n : changes'[i] = changes[i]
      /\ changes'[n + 1] = new
  BY <1>6, Appended
<1>8. "checked" \in States
  BY DEF States
<1>9. /\ DOMAIN states' = DOMAIN states \cup {KeyOf(e)}
      /\ states'[KeyOf(e)] = "checked"
      /\ \A k \in DOMAIN states : k # KeyOf(e) => states'[k] = states[k]
  BY <1>1, <1>8, StatesPut
<1>13. e.body # "empty" => \A m : Knows(before, m) \subseteq Knows(after, m)
  BY DEF Knows
<1>14. \A k, op, x, r : k \in 0..n /\ LeadTo(k, op, x, r) => LeadTo(k, op, x, r)'
  BY <1>7 DEF LeadTo, IsChangeOf
<1>15. ASSUME NEW i \in 1..n
       PROVE  EventInv(i)'
  <2>1. EventInv(i) /\ changes'[i] = changes[i]
    BY <1>6, <1>7
  <2> DEFINE c == changes[i]
  <2>2. /\ c.op = c.evidence.op /\ c.status = c.evidence.status /\ c.media = c.evidence.media
        /\ KeyOf(c.evidence) \in DOMAIN states /\ states[KeyOf(c.evidence)] = "checked"
    BY <2>1 DEF EventInv
  <2>3. KeyOf(c.evidence) # KeyOf(e)
    BY <2>2
  <2>4. KeyOf(c.evidence) \in DOMAIN states' /\ states'[KeyOf(c.evidence)] = "checked"
    BY <1>9, <2>2, <2>3
  <2>5. \A j \in DOMAIN changes' : KeyOf(changes'[j].evidence) = KeyOf(c.evidence) => i = j
    <3>1. \A j \in 1..n : KeyOf(changes[j].evidence) = KeyOf(c.evidence) => i = j
      BY <1>7, <2>1 DEF EventInv
    <3>2. \A j \in 1..n + 1 : j \in 1..n \/ j = n + 1
      BY <1>7
    <3>. QED  BY <1>7, <2>3, <3>1, <3>2
  <2>6. LeadTo(i - 1, c.op, c.status, c.before)'
    <3>1. i - 1 \in 0..n
      BY <1>7
    <3>. QED  BY <1>14, <2>1, <3>1 DEF EventInv
  <2>7. c.op \in Operations /\ c.status \in StatusCodes
    <3>1. KeyOf(c.evidence) \in Keys
      BY <1>1, <2>2 DEF ContractTypes
    <3>. QED  BY <2>2, <3>1 DEF Keys, KeyOf
  <2>8. ChangeCovered(i)'
    <3>1. ChangeCovered(i)
      BY <2>1 DEF EventInv
    <3>2. IF changes'[n + 1].op = c.op /\ changes'[n + 1].status = c.status
          THEN \/ changes'[n + 1].after = << >>
               \/ \A m : Knows(ResponseAt(document[c.op], c.status), m)
                        \subseteq Knows(ResponseAt(document'[c.op], c.status), m)
          ELSE ResponseAt(document'[c.op], c.status) = ResponseAt(document[c.op], c.status)
      <4>1. CASE <<c.op, c.status>> = <<e.op, s>>
        BY <1>7, <1>13, <4>1 DEF NoContents
      <4>2. CASE <<c.op, c.status>> # <<e.op, s>>
        BY <1>7, <2>7, <4>2
      <4>. QED  BY <4>1, <4>2
    <3>. QED  BY <1>7, <3>1, <3>2, CoveredStays
  <2>. QED  BY <2>1, <2>4, <2>5, <2>6, <2>8 DEF EventInv
<1>16. EventInv(n + 1)'
  <2>1. \A j \in DOMAIN changes' : KeyOf(changes'[j].evidence) = KeyOf(e) => n + 1 = j
    <3>1. \A j \in 1..n : KeyOf(changes[j].evidence) # KeyOf(e)
      BY <1>6, <1>7 DEF EventInv
    <3>2. \A j \in 1..n + 1 : j \in 1..n \/ j = n + 1
      BY <1>7
    <3>. QED  BY <1>7, <3>1, <3>2
  <2>2. LeadTo(n, e.op, s, before)'
    <3>1. LeadTo(n, e.op, s, before)
      BY <1>1 DEF ContractInv, LeadsToDocument
    <3>2. n \in 0..n
      BY <1>7
    <3>. QED  BY <1>14, <3>1, <3>2
  <2>3. (n + 1) - 1 = n
    BY <1>7
  <2>4. ChangeCovered(n + 1)'
    <3>1. MediaOf(new) = MediaOf(e)
      BY DEF MediaOf
    <3>. QED  BY <1>7, <3>1 DEF ChangeCovered
  <2>. QED  BY <1>7, <1>9, <2>1, <2>2, <2>3, <2>4 DEF EventInv
<1>17. (\A i \in DOMAIN changes : EventInv(i))'
  <2>1. \A i \in 1..n + 1 : i \in 1..n \/ i = n + 1
    BY <1>7
  <2>. QED  BY <1>7, <1>15, <1>16, <2>1
<1>18. ASSUME NEW op \in Operations, NEW x \in StatusCodes
       PROVE  LeadTo(n + 1, op, x, ResponseAt(document[op], x))'
  <2>1. CASE <<op, x>> = <<e.op, s>>
    BY <1>7, <2>1 DEF LeadTo, IsChangeOf
  <2>2. CASE <<op, x>> # <<e.op, s>>
    <3>1. LeadTo(n, op, x, ResponseAt(document[op], x))
      BY DEF ContractInv, LeadsToDocument
    <3>2. n \in 0..n
      BY <1>7
    <3>3. LeadTo(n, op, x, ResponseAt(document[op], x))'
      BY <1>14, <2>2, <3>1, <3>2
    <3>4. ~IsChangeOf(n + 1, op, x)'
      BY <1>7, <2>2 DEF IsChangeOf
    <3>5. \A i \in 1..n + 1 : i \in 1..n \/ i = n + 1
      BY <1>7
    <3>. QED  BY <1>7, <3>3, <3>4, <3>5 DEF LeadTo
  <2>. QED  BY <2>1, <2>2
<1>19. LeadsToDocument'
  BY <1>7, <1>18 DEF LeadsToDocument
<1>. QED  BY <1>7, <1>17, <1>19

LEMMA StoreChangeStep ==
  ASSUME ContractInv, NEW t \in Threads, StoreChange(t)
  PROVE  ContractInv' /\ LockFree'
<1> DEFINE e == check.evidence
           s == e.status
           all == document[e.op]
           merged == MergeResponse(all, e)
           before == ResponseAt(all, s)
           after == ResponseAt(merged, s)
           new == ChangeEvent(check)
           n == Len(changes)
<1>1. /\ CheckRuns(t) /\ document' = responses /\ responses' = responses /\ check' = NoCheck
      /\ changes' = Append(changes, new)
      /\ states' = Put(states, KeyOf(e), "checked")
  BY DEF StoreChange
<1>2. /\ CheckHeld /\ ContractTypes
      /\ e \in Evidences /\ e.op \in Operations /\ s \in StatusCodes
      /\ check.previous = all /\ AreResponses(all)
      /\ responses[e.op] = merged
      /\ \A op \in Operations : op # e.op => responses[op] = document[op]
  BY <1>1, HeldFacts
<1>3. merged # all /\ KeyOf(e) \in DOMAIN states
      /\ \A k \in DOMAIN states : states[k] = "checking" <=> k = KeyOf(e)
  BY <1>2 DEF CheckHeld
<1>4. /\ AreResponses(merged) /\ DOMAIN merged = DOMAIN all \cup {s}
      /\ \A x \in StatusCodes : x # s => ResponseAt(merged, x) = ResponseAt(all, x)
      /\ after # before
      /\ e.body = "empty" => after = NoContents
      /\ e.body # "empty" =>
           /\ after # NoContents
           /\ \A m \in DOMAIN Contents(before) : Knows(before, m) \subseteq Knows(after, m)
      /\ e.body \in {"json", "text"} =>
           MergeSchema(Knows(after, MediaOf(e)), e.schema) = Knows(after, MediaOf(e))
  BY <1>2, <1>3, MergedResponses
<1>5. /\ new.op = e.op /\ new.status = s /\ new.media = e.media /\ new.evidence = e
      /\ new.before = before /\ new.after = after
  BY <1>2 DEF ChangeEvent
<1>8. "checked" \in States
  BY DEF States
<1>9. /\ DOMAIN states' = DOMAIN states \cup {KeyOf(e)}
      /\ DOMAIN states' \subseteq Keys /\ states' \in [DOMAIN states' -> States]
      /\ states'[KeyOf(e)] = "checked"
      /\ \A k \in DOMAIN states : k # KeyOf(e) => states'[k] = states[k]
  BY <1>1, <1>2, <1>8, StatesPut
<1>11. LockFree' /\ CheckFree'
  BY <1>1, <1>3, <1>9 DEF LockFree, NoCheck, CheckFree
<1>. HIDE DEF merged, all, e, new
<1>12. /\ ResponseAt(document'[e.op], s) = after /\ ResponseAt(document[e.op], s) = before
       /\ \A op \in Operations, x \in StatusCodes :
            <<op, x>> # <<e.op, s>> => ResponseAt(document'[op], x) = ResponseAt(document[op], x)
  BY <1>1, <1>2, <1>4 DEF all
<1>. HIDE DEF before, after
<1>13. n \in Nat
  BY <1>2, Appended DEF ContractTypes
<1>14. states[KeyOf(e)] # "checked"
  BY <1>3
<1>15. /\ IsSeq(changes') /\ (\A i \in DOMAIN changes : EventInv(i))' /\ LeadsToDocument'
  <2>. HIDE DEF s, n
  <2>. QED  BY <1>1, <1>2, <1>3, <1>4, <1>5, <1>12, <1>13, <1>14, EventStored DEF s, n
<1>16. ContractTypes'
  BY <1>1, <1>2, <1>9, <1>15 DEF ContractTypes, AreDocuments
<1>17. DoneInDocument'
  <2>1. KeyOf(e)[1] = e.op /\ KeyOf(e)[2] = s
    BY DEF KeyOf
  <2>2. s \in DOMAIN document'[e.op]
    BY <1>1, <1>2, <1>4
  <2>3. \A op \in Operations : DOMAIN document[op] \subseteq DOMAIN document'[op]
    BY <1>1, <1>2, <1>4 DEF all
  <2>4. \A k \in DOMAIN states : k[1] \in Operations
    BY <1>2 DEF ContractTypes, Keys
  <2>. QED  BY <1>9, <2>1, <2>2, <2>3, <2>4 DEF ContractInv, DoneInDocument
<1>. QED  BY <1>11, <1>15, <1>16, <1>17 DEF ContractInv

-----------------------------------------------------------------------------
(* The steps of the Resource Tracker.                                      *)

TaskFields == {"phase", "op", "observation", "body", "name", "fields", "state", "row", "new"}

\* A task is the record of its fields.
LEMMA TaskIsTable ==
  ASSUME NEW k
  PROVE  IsTask(k) <=> IsTable(k) /\ DOMAIN k = TaskFields
<1>1. ASSUME IsTask(k) PROVE IsTable(k) /\ DOMAIN k = TaskFields
  <2>1. DOMAIN k = TaskFields
    BY <1>1 DEF IsTask, TaskFields
  <2>2. IsTable(k)
    BY <1>1, <2>1 DEF IsTask, IsTable, TaskFields
  <2>. QED  BY <2>1, <2>2
<1>2. ASSUME IsTable(k), DOMAIN k = TaskFields PROVE IsTask(k)
  BY <1>2 DEF IsTask, IsTable, TaskFields
<1>. QED  BY <1>1, <1>2

\* What the coordinator sees of a step of one thread's task.
TaskMoves(t) ==
  /\ IsTable(task') /\ DOMAIN task' = Trackers
  /\ \A u \in Trackers : u # t => task'[u] = task[u]

TaskGoesOn(t) ==
  /\ TaskMoves(t) /\ UNCHANGED resourceTables
  /\ \/ task'[t] = Idle
     \/ /\ task'[t] # Idle /\ task[t] # Idle
        /\ task'[t].op = task[t].op /\ task'[t].observation = task[t].observation

\* A step that stores nothing.
LEMMA TaskStep ==
  ASSUME ResourceInv, NEW t \in Trackers, TaskMoves(t), UNCHANGED resourceTables, TaskInv(t)'
  PROVE  ResourceInv'
<1>1. /\ resources' = resources /\ edges' = edges /\ instances' = instances
      /\ stateEvents' = stateEvents
  BY DEF resourceTables
<1>2. ASSUME NEW u \in Trackers PROVE TaskInv(u)'
  <2>1. CASE u = t
    BY <2>1
  <2>2. CASE u # t
    BY <1>1, <2>2 DEF TaskMoves, ResourceInv, TaskInv, EdgeOf, InstanceOf
  <2>. QED  BY <2>1, <2>2
<1>3. \A k \in DOMAIN instances' : InstanceInv(k)'
  BY <1>1 DEF ResourceInv, InstanceInv, NewestState
<1>4. \A i \in DOMAIN stateEvents' : StateEventInv(stateEvents[i])'
  BY <1>1 DEF ResourceInv, StateEventInv
<1>. QED  BY <1>1, <1>2, <1>3, <1>4 DEF ResourceInv, TaskMoves

LEMMA TaskEnds ==
  ASSUME ResourceInv, NEW t \in Trackers, EndTask(t)
  PROVE  TaskMoves(t) /\ task'[t] = Idle /\ TaskInv(t)'
<1>1. TaskMoves(t) /\ task'[t] = Idle
  BY DEF EndTask, ResourceInv, TaskMoves, IsTable
<1>2. Idle.phase = "idle"
  BY DEF Idle
<1>. QED  BY <1>1, <1>2 DEF TaskInv

\* A task whose fields are replaced, which is not over.
LEMMA TaskReplaced ==
  ASSUME ResourceInv, NEW t \in Trackers, NEW k, task' = [task EXCEPT ![t] = k],
         k.phase \in {"identify", "context", "choose", "record", "write"}
  PROVE  TaskMoves(t) /\ task'[t] = k /\ k # Idle
<1>1. Idle.phase = "idle"
  BY DEF Idle
<1>. QED  BY <1>1 DEF ResourceInv, TaskMoves, IsTable

LEMMA DeriveStep ==
  ASSUME ResourceInv, NEW t \in Trackers, NEW op \in ResourceOps, NEW observation, NEW body,
         Derive(t, op, observation, body)
  PROVE  /\ ResourceInv' /\ TaskMoves(t) /\ UNCHANGED resourceTables
         /\ task'[t] # Idle /\ task'[t].op = op /\ task'[t].observation = observation
<1> DEFINE names == SelectKnown(op, body)
           k == [phase |-> IF names = {} THEN "identify" ELSE "context",
                 op |-> op, observation |-> observation, body |-> body,
                 name |-> IF names = {} THEN Suggested[op] ELSE CHOOSE n \in names : TRUE,
                 fields |-> IF names = {} THEN {} ELSE resources[CHOOSE n \in names : TRUE],
                 state |-> Unknown, row |-> Unknown, new |-> {}]
<1>1. task' = [task EXCEPT ![t] = k] /\ UNCHANGED resourceTables
  BY DEF Derive
<1>2. /\ k.phase \in {"identify", "context"} /\ k.op = op /\ k.observation = observation
      /\ IsTask(k)
  BY DEF IsTask
<1>. HIDE DEF k
<1>3. TaskMoves(t) /\ task'[t] = k /\ k # Idle
  BY <1>1, <1>2, TaskReplaced
<1>4. TaskInv(t)'
  BY <1>2, <1>3 DEF TaskInv
<1>. QED  BY <1>1, <1>2, <1>3, <1>4, TaskStep

\* The steps before the transaction, and those that end the task without storing.
LEMMA QuietSteps ==
  ASSUME ResourceInv, NEW t \in Trackers,
         \/ \E fields \in IdentityChoices : Identify(t, fields)
         \/ ReadContext(t)
         \/ \E state \in StateNames : ChooseState(t, state)
         \/ ReadRows(t)
         \/ GiveUp(t) \/ Refuse(t) \/ Abort(t)
  PROVE  ResourceInv' /\ TaskGoesOn(t) /\ task[t] # Idle
<1> DEFINE old == task[t]
<1>1. TaskInv(t) /\ DOMAIN task = Trackers /\ IsTable(task)
  BY DEF ResourceInv
<1>2. Phase(t) = old.phase /\ Idle.phase = "idle"
  BY DEF Phase, Idle
<1>3. CASE GiveUp(t) \/ Refuse(t) \/ Abort(t)
  <2>1. EndTask(t) /\ UNCHANGED resourceTables /\ old # Idle
    BY <1>2, <1>3 DEF GiveUp, Refuse, Abort
  <2>. QED  BY <2>1, TaskEnds, TaskStep DEF TaskGoesOn
<1>4. ASSUME NEW k, task' = [task EXCEPT ![t] = k], UNCHANGED resourceTables, IsTask(old),
             old # Idle, IsTask(k), k.op = old.op, k.observation = old.observation,
             k.phase \in {"identify", "context", "choose", "record", "write"},
             k.phase \in {"record", "write"} => k.state \in StateNames, TaskInv(t)'
      PROVE  ResourceInv' /\ TaskGoesOn(t)
  <2>1. TaskMoves(t) /\ task'[t] = k /\ k # Idle
    BY <1>4, TaskReplaced
  <2>. QED  BY <1>4, <2>1, TaskStep DEF TaskGoesOn
<1>5. ASSUME NEW fields \in IdentityChoices, Identify(t, fields)
      PROVE  ResourceInv' /\ TaskGoesOn(t) /\ old # Idle
  <2> DEFINE k == [old EXCEPT !.phase = "context", !.fields = fields]
  <2>1. /\ task' = [task EXCEPT ![t] = k] /\ UNCHANGED resourceTables /\ old.phase = "identify"
    BY <1>2, <1>5 DEF Identify
  <2>2. IsTask(old) /\ old # Idle /\ old.op \in ResourceOps
    BY <1>1, <1>2, <2>1 DEF TaskInv
  <2>3. IsTask(k) /\ k.op = old.op /\ k.observation = old.observation /\ k.phase = "context"
    <3>1. DOMAIN old = TaskFields /\ IsTable(old)
      BY <2>2, TaskIsTable
    <3>2. DOMAIN k = TaskFields /\ IsTable(k)
      BY <3>1 DEF IsTable
    <3>3. k.op = old.op /\ k.observation = old.observation /\ k.phase = "context"
      BY <3>1 DEF TaskFields
    <3>4. IsTask(k)
      BY <3>2, TaskIsTable
    <3>. QED  BY <3>3, <3>4
  <2>. HIDE DEF k
  <2>4. TaskInv(t)'
    BY <2>1, <2>2, <2>3, TaskReplaced DEF TaskInv
  <2>. QED  BY <1>4, <2>1, <2>2, <2>3, <2>4
<1>6. ASSUME ReadContext(t)
      PROVE  ResourceInv' /\ TaskGoesOn(t) /\ old # Idle
  <2> DEFINE edge == <<old.op, old.name>>
             k == [old EXCEPT !.state = IF edge \in DOMAIN edges THEN edges[edge] ELSE Unknown,
                              !.phase = IF edge \in DOMAIN edges THEN "record" ELSE "choose"]
  <2>1. /\ task' = [task EXCEPT ![t] = k] /\ UNCHANGED resourceTables /\ old.phase = "context"
    BY <1>2, <1>6 DEF ReadContext
  <2>2. IsTask(old) /\ old # Idle /\ old.op \in ResourceOps
    BY <1>1, <1>2, <2>1 DEF TaskInv
  <2>3. /\ IsTask(k) /\ k.op = old.op /\ k.observation = old.observation
        /\ k.phase \in {"record", "choose"}
        /\ k.phase = "record" => edge \in DOMAIN edges /\ k.state = edges[edge]
    <3>1. DOMAIN old = TaskFields /\ IsTable(old)
      BY <2>2, TaskIsTable
    <3>2. DOMAIN k = TaskFields /\ IsTable(k)
      BY <3>1 DEF IsTable
    <3>3. /\ k.op = old.op /\ k.observation = old.observation
          /\ k.phase \in {"record", "choose"}
          /\ k.phase = "record" => edge \in DOMAIN edges /\ k.state = edges[edge]
      BY <3>1 DEF TaskFields
    <3>4. IsTask(k)
      BY <3>2, TaskIsTable
    <3>. QED  BY <3>3, <3>4
  <2>4. k.phase = "record" => k.state \in StateNames
    BY <2>3 DEF ResourceInv
  <2>. HIDE DEF k
  <2>5. TaskInv(t)'
    BY <2>1, <2>2, <2>3, <2>4, TaskReplaced DEF TaskInv
  <2>. QED  BY <1>4, <2>1, <2>2, <2>3, <2>4, <2>5
<1>7. ASSUME NEW state \in StateNames, ChooseState(t, state)
      PROVE  ResourceInv' /\ TaskGoesOn(t) /\ old # Idle
  <2> DEFINE k == [old EXCEPT !.state = state, !.phase = "record"]
  <2>1. /\ task' = [task EXCEPT ![t] = k] /\ UNCHANGED resourceTables /\ old.phase = "choose"
    BY <1>2, <1>7 DEF ChooseState
  <2>2. IsTask(old) /\ old # Idle /\ old.op \in ResourceOps
    BY <1>1, <1>2, <2>1 DEF TaskInv
  <2>3. /\ IsTask(k) /\ k.op = old.op /\ k.observation = old.observation
        /\ k.phase = "record" /\ k.state = state
    <3>1. DOMAIN old = TaskFields /\ IsTable(old)
      BY <2>2, TaskIsTable
    <3>2. DOMAIN k = TaskFields /\ IsTable(k)
      BY <3>1 DEF IsTable
    <3>3. /\ k.op = old.op /\ k.observation = old.observation
          /\ k.phase = "record" /\ k.state = state
      BY <3>1 DEF TaskFields
    <3>4. IsTask(k)
      BY <3>2, TaskIsTable
    <3>. QED  BY <3>3, <3>4
  <2>. HIDE DEF k
  <2>4. TaskInv(t)'
    BY <2>1, <2>2, <2>3, TaskReplaced DEF TaskInv
  <2>. QED  BY <1>4, <2>1, <2>2, <2>3, <2>4
<1>8. ASSUME ReadRows(t)
      PROVE  ResourceInv' /\ TaskGoesOn(t) /\ old # Idle
  <2> DEFINE k == [old EXCEPT !.phase = "write", !.new = Missing(t), !.row = RowAt(InstanceOf(t))]
  <2>1. /\ task' = [task EXCEPT ![t] = k] /\ UNCHANGED resourceTables /\ old.phase = "record"
        /\ ~Contradicts(t)
    BY <1>2, <1>8 DEF ReadRows
  <2>2. IsTask(old) /\ old # Idle /\ old.op \in ResourceOps /\ old.state \in StateNames
    BY <1>1, <1>2, <2>1 DEF TaskInv
  <2>3. /\ IsTask(k) /\ k.op = old.op /\ k.observation = old.observation
        /\ k.phase = "write" /\ k.state = old.state /\ k.name = old.name
        /\ k.fields = old.fields /\ k.body = old.body
        /\ k.new = Missing(t) /\ k.row = RowAt(InstanceOf(t))
    <3>1. DOMAIN old = TaskFields /\ IsTable(old)
      BY <2>2, TaskIsTable
    <3>2. DOMAIN k = TaskFields /\ IsTable(k)
      BY <3>1 DEF IsTable
    <3>3. /\ k.op = old.op /\ k.observation = old.observation
          /\ k.phase = "write" /\ k.state = old.state /\ k.name = old.name
          /\ k.fields = old.fields /\ k.body = old.body
          /\ k.new = Missing(t) /\ k.row = RowAt(InstanceOf(t))
      BY <3>1 DEF TaskFields
    <3>4. IsTask(k)
      BY <3>2, TaskIsTable
    <3>. QED  BY <3>3, <3>4
  <2>. HIDE DEF k
  <2>4. task'[t] = k /\ k # Idle
    BY <2>1, <2>3, TaskReplaced
  <2>5. EdgeOf(t)' = EdgeOf(t) /\ InstanceOf(t)' = InstanceOf(t)
    BY <2>3, <2>4 DEF EdgeOf, InstanceOf
  <2>6. /\ resources' = resources /\ edges' = edges /\ instances' = instances
    BY <2>1 DEF resourceTables
  <2>7. /\ "resource" \notin k.new => k.name \in DOMAIN resources /\ resources[k.name] = k.fields
        /\ "edge" \notin k.new => EdgeOf(t) \in DOMAIN edges /\ edges[EdgeOf(t)] = k.state
        /\ k.row # Unknown => InstanceOf(t) \in DOMAIN instances
    BY <2>1, <2>3 DEF Missing, Contradicts, RowAt
  <2>8. TaskInv(t)'
    BY <2>2, <2>3, <2>4, <2>5, <2>6, <2>7 DEF TaskInv
  <2>. QED  BY <1>4, <2>1, <2>2, <2>3, <2>8
<1>. QED  BY <1>3, <1>5, <1>6, <1>7, <1>8

\* What a transaction that commits stores (record_resource_derivations).
LEMMA WriteStep ==
  ASSUME ResourceInv, NEW t \in Trackers, Write(t)
  PROVE  /\ ResourceInv' /\ TaskMoves(t) /\ task[t] # Idle /\ task'[t] = Idle
         /\ \/ stateEvents' = stateEvents
            \/ \E e : /\ stateEvents' = Append(stateEvents, e)
                      /\ e.observation = task[t].observation
         /\ \A n \in DOMAIN resources : n \in DOMAIN resources' /\ resources'[n] = resources[n]
         /\ \A e \in DOMAIN edges : e \in DOMAIN edges' /\ edges'[e] = edges[e]
<1> DEFINE name == task[t].name
           state == task[t].state
           seen == SeenRow(t)
           merged == MergedRow(t, seen)
           key == InstanceOf(t)
           edge == EdgeOf(t)
           row == ChangedColumns(RowAt(key), seen, merged)
           before == IF seen = Unknown THEN Unknown ELSE seen.state
           event == [instance |-> key, previous |-> before, current |-> state,
                     op |-> task[t].op, observation |-> task[t].observation]
<1>1. /\ task[t].phase = "write" /\ Insertable(t) /\ EndTask(t)
      /\ resources' = Put(resources, name, task[t].fields)
      /\ edges' = Put(edges, edge, state)
      /\ instances' = Put(instances, key, row)
      /\ stateEvents' = IF before = state THEN stateEvents ELSE Append(stateEvents, event)
  BY DEF Write, Phase
<1>2. /\ TaskInv(t) /\ task[t] # Idle
  BY <1>1 DEF ResourceInv, TaskInv, Idle
<1>3. /\ task[t].op \in ResourceOps /\ state \in StateNames
      /\ "resource" \notin task[t].new => name \in DOMAIN resources /\ resources[name] = task[t].fields
      /\ "edge" \notin task[t].new => edge \in DOMAIN edges /\ edges[edge] = state
      /\ task[t].row # Unknown => key \in DOMAIN instances
  BY <1>1, <1>2 DEF TaskInv
<1>4. /\ key[1] = name /\ DOMAIN key[2] = task[t].fields /\ edge = <<task[t].op, name>>
  BY DEF InstanceOf, EdgeOf
<1>5. /\ event.instance = key /\ event.current = state /\ event.op = task[t].op
      /\ event.observation = task[t].observation
  OBVIOUS
<1>6. /\ seen = Unknown => key \notin DOMAIN instances /\ row.state = state
      /\ seen # Unknown =>
           /\ key \in DOMAIN instances
           /\ row.state = IF seen.state # state THEN state ELSE instances[key].state
  <2>1. merged.state = state
    BY DEF MergedRow
  <2>2. seen # Unknown => key \in DOMAIN instances
    BY <1>3 DEF SeenRow, RowAt
  <2>3. seen = Unknown => key \notin DOMAIN instances
    BY <1>1 DEF Insertable
  <2>. HIDE DEF merged, seen, key
  <2>4. CASE seen = Unknown
    BY <2>1, <2>3, <2>4 DEF ChangedColumns
  <2>5. CASE seen # Unknown
    BY <2>1, <2>2, <2>5 DEF ChangedColumns, RowAt
  <2>. QED  BY <2>4, <2>5
<1>7. /\ \A n \in DOMAIN resources : n \in DOMAIN resources' /\ resources'[n] = resources[n]
      /\ name \in DOMAIN resources' /\ resources'[name] = task[t].fields
  BY <1>1, <1>3 DEF Put, Insertable
<1>8. /\ \A e \in DOMAIN edges : e \in DOMAIN edges' /\ edges'[e] = edges[e]
      /\ DOMAIN edges' = DOMAIN edges \cup {edge} /\ edges'[edge] = state
  <2>. HIDE DEF edge
  <2>. QED  BY <1>1, <1>3 DEF Put, Insertable, edge
<1>. HIDE DEF row, key, seen, event
<1>9. /\ DOMAIN instances' = DOMAIN instances \cup {key} /\ instances'[key] = row
      /\ \A k \in DOMAIN instances : k # key => instances'[k] = instances[k]
  BY <1>1 DEF Put
<1>. HIDE DEF edge
<1>10. TaskMoves(t) /\ task'[t] = Idle /\ TaskInv(t)'
  BY <1>1, TaskEnds
<1>11. ASSUME NEW u \in Trackers PROVE TaskInv(u)'
  <2>1. CASE u = t
    BY <1>10, <2>1
  <2>2. CASE u # t
    <3>1. task'[u] = task[u] /\ TaskInv(u)
      BY <1>10, <2>2 DEF TaskMoves, ResourceInv
    <3>2. EdgeOf(u)' = EdgeOf(u) /\ InstanceOf(u)' = InstanceOf(u)
      BY <3>1 DEF EdgeOf, InstanceOf
    <3>. QED  BY <1>7, <1>8, <1>9, <3>1, <3>2 DEF TaskInv
  <2>. QED  BY <2>1, <2>2
<1>12. \A e \in DOMAIN edges' : e \in ResourceOps \X DOMAIN resources' /\ edges'[e] \in StateNames
  BY <1>3, <1>4, <1>7, <1>8 DEF ResourceInv
<1>13. IsSeq(stateEvents) /\ \A i \in DOMAIN stateEvents : StateEventInv(stateEvents[i])
  BY DEF ResourceInv
<1> DEFINE n == Len(stateEvents)
<1>14. /\ n \in Nat /\ DOMAIN stateEvents = 1..n /\ IsSeq(stateEvents')
       /\ \A i \in 1..n : i \in DOMAIN stateEvents' /\ stateEvents'[i] = stateEvents[i]
       /\ before = state => stateEvents' = stateEvents
       /\ before # state => /\ DOMAIN stateEvents' = 1..n + 1 /\ stateEvents'[n + 1] = event
                            /\ stateEvents' = Append(stateEvents, event)
  <2>1. CASE before = state
    BY <1>1, <1>13, <2>1, Appended
  <2>2. CASE before # state
    <3>1. stateEvents' = Append(stateEvents, event)
      BY <1>1, <2>2
    <3>. QED  BY <1>13, <2>2, <3>1, Appended
  <2>. QED  BY <2>1, <2>2
<1>15. \A i \in DOMAIN stateEvents' :
         \/ i \in 1..n /\ stateEvents'[i] = stateEvents[i]
         \/ before # state /\ i = n + 1 /\ stateEvents'[i] = event
  <2>1. \A i \in 1..n + 1 : i \in 1..n \/ i = n + 1
    BY <1>14
  <2>. HIDE DEF n, before
  <2>. QED  BY <1>14, <2>1
<1>. HIDE DEF n
<1>16. ASSUME NEW i \in DOMAIN stateEvents' PROVE StateEventInv(stateEvents[i])'
  <2>1. CASE i \in 1..n /\ stateEvents'[i] = stateEvents[i]
    <3>1. StateEventInv(stateEvents[i])
      BY <1>13, <1>14, <2>1
    <3>. QED  BY <1>8, <1>9, <2>1, <3>1 DEF StateEventInv
  <2>2. CASE stateEvents'[i] = event
    BY <1>4, <1>5, <1>8, <1>9, <2>2 DEF StateEventInv
  <2>. QED  BY <1>15, <2>1, <2>2
<1>17. ASSUME NEW k \in DOMAIN instances' PROVE InstanceInv(k)'
  <2>1. CASE k # key
    <3>1. k \in DOMAIN instances /\ instances'[k] = instances[k] /\ InstanceInv(k)
      BY <1>9, <1>17, <2>1 DEF ResourceInv
    <3>2. PICK i \in 1..n : /\ stateEvents[i].instance = k
                            /\ stateEvents[i].current = instances[k].state
                            /\ \A j \in 1..n : j > i => stateEvents[j].instance # k
      BY <1>14, <3>1 DEF InstanceInv, NewestState
    <3>3. \A j \in DOMAIN stateEvents' : j > i => stateEvents'[j].instance # k
      BY <1>5, <1>15, <2>1, <3>2
    <3>4. NewestState(k, instances[k].state)'
      BY <1>14, <3>1, <3>2, <3>3 DEF NewestState
    <3>. QED  BY <1>7, <3>1, <3>4 DEF InstanceInv
  <2>2. CASE k = key
    <3>1. k[1] \in DOMAIN resources' /\ DOMAIN k[2] = resources'[k[1]]
      BY <1>4, <1>7, <2>2
    <3>2. CASE before # state
      <4>1. row.state = state
        BY <1>6, <3>2
      <4>2. n + 1 \in DOMAIN stateEvents' /\ stateEvents'[n + 1] = event
        BY <1>14, <3>2
      <4>3. \A j \in DOMAIN stateEvents' : ~ j > n + 1
        BY <1>14, <3>2
      <4>4. NewestState(k, instances[k].state)'
        BY <1>5, <1>9, <2>2, <4>1, <4>2, <4>3 DEF NewestState
      <4>. QED  BY <3>1, <4>4 DEF InstanceInv
    <3>3. CASE before = state
      <4>1. seen # Unknown /\ key \in DOMAIN instances /\ row.state = instances[key].state
        BY <1>3, <1>6, <3>3, ResourceAssumption
      <4>2. NewestState(key, instances[key].state)
        BY <4>1 DEF ResourceInv, InstanceInv
      <4>3. stateEvents' = stateEvents /\ instances'[key].state = instances[key].state
        BY <1>9, <1>14, <3>3, <4>1
      <4>4. NewestState(k, instances[k].state)'
        BY <2>2, <4>2, <4>3 DEF NewestState
      <4>. QED  BY <3>1, <4>4 DEF InstanceInv
    <3>. QED  BY <3>2, <3>3
  <2>. QED  BY <2>1, <2>2
<1>18. ResourceInv'
  BY <1>10, <1>11, <1>12, <1>14, <1>16, <1>17 DEF ResourceInv, TaskMoves
<1>19. \/ stateEvents' = stateEvents
       \/ \E e : stateEvents' = Append(stateEvents, e) /\ e.observation = task[t].observation
  BY <1>5, <1>14
<1>. QED  BY <1>2, <1>7, <1>8, <1>10, <1>18, <1>19

LEMMA ResourceStutters ==
  ASSUME ResourceInv, UNCHANGED resourceVars
  PROVE  ResourceInv'
<1>1. /\ task' = task /\ resources' = resources /\ edges' = edges /\ instances' = instances
      /\ stateEvents' = stateEvents
  BY DEF resourceVars, resourceTables
<1>2. \A t \in Trackers : TaskInv(t)'
  BY <1>1 DEF ResourceInv, TaskInv, EdgeOf, InstanceOf
<1>3. \A k \in DOMAIN instances' : InstanceInv(k)'
  BY <1>1 DEF ResourceInv, InstanceInv, NewestState
<1>4. \A i \in DOMAIN stateEvents' : StateEventInv(stateEvents[i])'
  BY <1>1 DEF ResourceInv, StateEventInv
<1>. QED  BY <1>1, <1>2, <1>3, <1>4 DEF ResourceInv

-----------------------------------------------------------------------------
(* The steps of the coordinator.                                           *)

LEMMA DecodedResponse ==
  ASSUME NEW t \in Threads, ResponseInv(t), stage[t] # "idle"
  PROVE  /\ Evidence(response[t]) \in Evidences /\ response[t].op \in ResourceOps
<1>1. Evidence(response[t]) \in Evidences
  BY DEF ResponseInv
<1>2. Evidence(response[t]).op = response[t].op
  BY DEF Evidence
<1>3. response[t].op \in Operations
  BY <1>1, <1>2 DEF Evidences
<1>. QED  BY <1>1, <1>3, MonitorAssumption

\* A response goes on to its next part.
LEMMA GoToStep ==
  ASSUME FlowInv, NEW t \in Threads, stage[t] # "idle", NEW next \in Stages, GoTo(t, next),
         IsSeq(stateEvents),
         \A u \in Threads : u # t => /\ task'[u] = task[u]
                                     /\ (check'.thread = u) = (check.thread = u),
         (next = "storing") = (check'.thread = t),
         (next = "deriving") = (task'[t] # Idle),
         next \in {"resources", "deriving"} => Eligible(t),
         next = "deriving" =>
           task'[t].op = response[t].op /\ task'[t].observation = response[t].id,
         \/ stateEvents' = stateEvents
         \/ next = "idle" /\ \E e : /\ stateEvents' = Append(stateEvents, e)
                                    /\ e.observation = response[t].id
  PROVE  FlowInv'
<1>1. /\ IsTable(stage') /\ DOMAIN stage' = Threads
      /\ IsTable(response') /\ DOMAIN response' = Threads
      /\ received' = received /\ received \in Nat
      /\ stage'[t] = next /\ response'[t] = IF next = "idle" THEN NoResponse ELSE response[t]
      /\ \A u \in Threads : u # t => stage'[u] = stage[u] /\ response'[u] = response[u]
  BY DEF FlowInv, GoTo, IsTable
<1>2. /\ response[t].id \in Nat /\ response[t].id < received
      /\ \A u \in Threads : stage[u] # "idle" /\ response[u].id = response[t].id => u = t
      /\ \A i \in DOMAIN stateEvents : stateEvents[i].observation # response[t].id
      /\ Evidence(response[t]) \in Evidences
  BY DEF FlowInv, ResponseInv
<1>3. ASSUME NEW i \in DOMAIN stateEvents'
      PROVE  \/ i \in DOMAIN stateEvents /\ stateEvents'[i] = stateEvents[i]
             \/ /\ next = "idle" /\ stateEvents'[i].observation = response[t].id
                /\ i = Len(stateEvents) + 1
  <2>1. CASE stateEvents' = stateEvents
    BY <1>3, <2>1
  <2>2. CASE next = "idle" /\ \E e : /\ stateEvents' = Append(stateEvents, e)
                                     /\ e.observation = response[t].id
    <3>1. PICK e : stateEvents' = Append(stateEvents, e) /\ e.observation = response[t].id
      BY <2>2
    <3> DEFINE n == Len(stateEvents)
    <3>2. /\ n \in Nat /\ DOMAIN stateEvents = 1..n /\ DOMAIN stateEvents' = 1..n + 1
          /\ \A j \in 1..n : stateEvents'[j] = stateEvents[j]
          /\ stateEvents'[n + 1] = e
      BY <3>1, Appended
    <3>3. i \in 1..n \/ i = n + 1
      BY <1>3, <3>2
    <3>4. CASE i \in 1..n
      BY <3>2, <3>4
    <3>5. CASE i = n + 1
      BY <2>2, <3>1, <3>2, <3>5
    <3>. QED  BY <3>3, <3>4, <3>5
  <2>. QED  BY <2>1, <2>2
<1>4. ASSUME NEW u \in Threads PROVE ResponseInv(u)'
  <2>1. CASE u = t
    <3>1. /\ (stage'[t] = "storing") = (check'.thread = t)
          /\ (stage'[t] = "deriving") = (task'[t] # Idle)
      BY <1>1
    <3>2. CASE next = "idle"
      BY <1>1, <2>1, <3>1, <3>2 DEF ResponseInv, Working, Stages
    <3>3. CASE next # "idle"
      <4>1. response'[t] = response[t] /\ stage'[t] = next
        BY <1>1, <3>3
      <4>2. \A v \in Threads : stage'[v] # "idle" /\ response'[v].id = response'[t].id => v = t
        BY <1>1, <1>2, <4>1
      <4>3. \A i \in DOMAIN stateEvents' : stateEvents'[i].observation # response'[t].id
        BY <1>2, <1>3, <3>3, <4>1
      <4>4. Eligible(t)' = Eligible(t)
        BY <4>1 DEF Eligible
      <4>5. Evidence(response[t])' \in Evidences
        BY <1>2, <4>1 DEF Evidence, Inferred
      <4>. QED  BY <1>1, <1>2, <2>1, <3>1, <4>1, <4>2, <4>3, <4>4, <4>5 DEF ResponseInv, Working
    <3>. QED  BY <3>2, <3>3
  <2>2. CASE u # t
    <3>1. /\ stage'[u] = stage[u] /\ response'[u] = response[u] /\ task'[u] = task[u]
          /\ (check'.thread = u) = (check.thread = u) /\ ResponseInv(u)
      BY <1>1, <2>2 DEF FlowInv
    <3>2. ASSUME stage[u] # "idle"
          PROVE  /\ Evidence(response[u])' \in Evidences
                 /\ response[u].id \in Nat /\ response[u].id < received
                 /\ \A v \in Threads : stage'[v] # "idle" /\ response'[v].id = response[u].id => v = u
                 /\ \A i \in DOMAIN stateEvents' : stateEvents'[i].observation # response[u].id
      <4>1. /\ Evidence(response[u]) \in Evidences
            /\ response[u].id \in Nat /\ response[u].id < received
            /\ \A v \in Threads : stage[v] # "idle" /\ response[v].id = response[u].id => v = u
            /\ \A i \in DOMAIN stateEvents : stateEvents[i].observation # response[u].id
        BY <3>1, <3>2 DEF ResponseInv
      <4>2. response[t].id # response[u].id
        BY <2>2, <4>1
      <4>3. Evidence(response[u])' \in Evidences
        BY <3>1, <4>1 DEF Evidence, Inferred
      <4>4. \A v \in Threads : stage'[v] # "idle" /\ response'[v].id = response[u].id => v = u
        BY <1>1, <4>1, <4>2
      <4>5. \A i \in DOMAIN stateEvents' : stateEvents'[i].observation # response[u].id
        BY <1>3, <4>1, <4>2
      <4>. QED  BY <4>1, <4>3, <4>4, <4>5
    <3>3. Eligible(u)' = Eligible(u)
      BY <3>1 DEF Eligible
    <3>4. Working(u)' = Working(u)
      BY <3>1 DEF Working
    <3>. QED  BY <1>1, <3>1, <3>2, <3>3, <3>4 DEF ResponseInv
  <2>. QED  BY <2>1, <2>2
<1>5. ASSUME NEW i \in DOMAIN stateEvents' PROVE ObservationInv(i)'
  <2>1. stateEvents'[i].observation \in Nat /\ stateEvents'[i].observation < received
    BY <1>2, <1>3 DEF FlowInv, ObservationInv
  <2>2. ASSUME NEW j \in DOMAIN stateEvents',
               stateEvents'[i].observation = stateEvents'[j].observation
        PROVE  i = j
    BY <1>2, <1>3, <2>2 DEF FlowInv, ObservationInv
  <2>. QED  BY <1>1, <2>1, <2>2 DEF ObservationInv
<1>. QED  BY <1>1, <1>4, <1>5 DEF FlowInv

LEMMA ObserveStep ==
  ASSUME MonitorInv, NEW t \in Threads, NEW r \in Responses, NEW stored \in BOOLEAN,
         Observe(t, r, stored)
  PROVE  MonitorInv'
<1> DEFINE new == Put(Put(r, "stored", stored), "id", received)
<1>1. /\ stage[t] = "idle" /\ received' = received + 1
      /\ response' = [response EXCEPT ![t] = new]
      /\ stage' = [stage EXCEPT ![t] = "contract"]
      /\ UNCHANGED contractVars /\ UNCHANGED resourceVars
      /\ check' = check /\ task' = task /\ stateEvents' = stateEvents
  BY DEF Observe, contractVars, resourceVars, resourceTables
<1>2. DOMAIN r = {"op", "status", "media", "kind", "object"} /\ Evidence(r) \in Evidences
  BY MonitorAssumption DEF AreDecoded
<1>3. /\ new.op = r.op /\ new.status = r.status /\ new.media = r.media
      /\ new.kind = r.kind /\ new.object = r.object /\ new.id = received
  BY <1>2 DEF Put
<1>. HIDE DEF new
<1>4. Evidence(new) \in Evidences
  BY <1>2, <1>3 DEF Evidence, Inferred
<1>5. /\ ContractInv' /\ ResourceInv'
  BY <1>1, ContractStutters, ResourceStutters DEF MonitorInv
<1>6. FlowInv
  BY DEF MonitorInv
<1>7. /\ IsTable(stage') /\ DOMAIN stage' = Threads
      /\ IsTable(response') /\ DOMAIN response' = Threads
      /\ received \in Nat /\ received' \in Nat
      /\ stage'[t] = "contract" /\ response'[t] = new
      /\ \A u \in Threads : u # t => stage'[u] = stage[u] /\ response'[u] = response[u]
  <2>1. /\ IsTable(stage) /\ DOMAIN stage = Threads
        /\ IsTable(response) /\ DOMAIN response = Threads /\ received \in Nat
    BY <1>6 DEF FlowInv
  <2>2. received' \in Nat
    BY <1>1, <2>1
  <2>3. /\ IsTable(stage') /\ DOMAIN stage' = Threads /\ stage'[t] = "contract"
        /\ \A u \in Threads : u # t => stage'[u] = stage[u]
    BY <1>1, <2>1 DEF IsTable
  <2>4. /\ IsTable(response') /\ DOMAIN response' = Threads /\ response'[t] = new
        /\ \A u \in Threads : u # t => response'[u] = response[u]
    BY <1>1, <2>1 DEF IsTable
  <2>. QED  BY <2>1, <2>2, <2>3, <2>4
<1>8. ASSUME NEW u \in Threads PROVE ResponseInv(u)'
  <2>1. ResponseInv(u)
    BY <1>6 DEF FlowInv
  <2>2. \A v \in Threads : stage[v] # "idle" => response[v].id \in Nat /\ response[v].id < received
    BY <1>6 DEF FlowInv, ResponseInv
  <2>3. \A i \in DOMAIN stateEvents : /\ stateEvents[i].observation \in Nat
                                      /\ stateEvents[i].observation < received
    BY <1>6 DEF FlowInv, ObservationInv
  <2>4. CASE u = t
    <3>1. /\ (stage'[t] = "storing") = (check'.thread = t)
          /\ (stage'[t] = "deriving") = (task'[t] # Idle)
      BY <1>1, <1>7, <2>1, <2>4 DEF ResponseInv, Working
    <3>2. \A v \in Threads : stage'[v] # "idle" /\ response'[v].id = received => v = t
      BY <1>7, <2>2
    <3>3. \A i \in DOMAIN stateEvents' : stateEvents'[i].observation # received
      BY <1>1, <1>7, <2>3
    <3>4. Evidence(response[t])' \in Evidences
      BY <1>4, <1>7 DEF Evidence, Inferred
    <3>. QED  BY <1>1, <1>3, <1>7, <2>4, <3>1, <3>2, <3>3, <3>4 DEF ResponseInv, Working, Stages
  <2>5. CASE u # t
    <3>1. stage'[u] = stage[u] /\ response'[u] = response[u]
      BY <1>7, <2>5
    <3>2. ASSUME stage[u] # "idle"
          PROVE  /\ Evidence(response[u])' \in Evidences
                 /\ response[u].id \in Nat /\ response[u].id < received'
                 /\ \A v \in Threads : stage'[v] # "idle" /\ response'[v].id = response[u].id => v = u
                 /\ \A i \in DOMAIN stateEvents' : stateEvents'[i].observation # response[u].id
      <4>1. /\ Evidence(response[u]) \in Evidences
            /\ response[u].id \in Nat /\ response[u].id < received
            /\ \A v \in Threads : stage[v] # "idle" /\ response[v].id = response[u].id => v = u
            /\ \A i \in DOMAIN stateEvents : stateEvents[i].observation # response[u].id
        BY <2>1, <3>2 DEF ResponseInv
      <4>2. Evidence(response[u])' \in Evidences
        BY <3>1, <4>1 DEF Evidence, Inferred
      <4>3. response'[t].id # response[u].id
        BY <1>3, <1>7, <4>1
      <4>4. \A v \in Threads : stage'[v] # "idle" /\ response'[v].id = response[u].id => v = u
        BY <1>7, <4>1, <4>3
      <4>. QED  BY <1>1, <1>7, <4>1, <4>2, <4>4
    <3>3. Eligible(u)' = Eligible(u)
      BY <3>1 DEF Eligible
    <3>. QED  BY <1>1, <2>1, <3>1, <3>2, <3>3 DEF ResponseInv, Working
  <2>. QED  BY <2>4, <2>5
<1>9. ASSUME NEW i \in DOMAIN stateEvents' PROVE ObservationInv(i)'
  <2>1. ObservationInv(i)
    BY <1>1, <1>6, <1>9 DEF FlowInv
  <2>. QED  BY <1>1, <1>7, <2>1 DEF ObservationInv
<1>. QED  BY <1>5, <1>7, <1>8, <1>9 DEF FlowInv, MonitorInv

LEMMA CheckContractStep ==
  ASSUME MonitorInv, NEW t \in Threads, CheckContract(t)
  PROVE  MonitorInv'
<1> DEFINE e == Evidence(response[t])
           next == IF check'.thread = t THEN "storing" ELSE AfterContract(t)
<1>1. /\ stage[t] = "contract" /\ UNCHANGED resourceVars
      /\ AlreadyChecked(t, e) \/ CheckLater(t, e) \/ Merge(t, e)
      /\ GoTo(t, next)
  BY DEF CheckContract
<1>2. /\ ContractInv /\ ResourceInv /\ FlowInv /\ ResponseInv(t)
  BY DEF MonitorInv, FlowInv
<1>3. e \in Evidences
  BY <1>1, <1>2, DecodedResponse
<1>4. task' = task /\ stateEvents' = stateEvents /\ IsSeq(stateEvents)
  BY <1>1, <1>2 DEF resourceVars, resourceTables, ResourceInv
<1>5. LockFree /\ check.thread = NoThread
  BY <1>1 DEF AlreadyChecked, CheckLater, Merge, LockFree, NoCheck
<1>. HIDE DEF e
<1>6. check'.thread \in {NoThread, t}
  BY <1>1, <1>5 DEF AlreadyChecked, CheckLater, Merge, contractVars
<1>7. ContractInv'
  BY <1>1, <1>2, <1>3, ContractStutters, CheckLaterStep, MergeStep DEF AlreadyChecked
<1>8. ResourceInv'
  BY <1>1, <1>2, ResourceStutters
<1>9. \A u \in Threads : (check.thread = u) = FALSE /\ (u # t => (check'.thread = u) = FALSE)
  BY <1>5, <1>6, ContractAssumption
<1>10. /\ next \in Stages /\ (next = "storing") = (check'.thread = t)
       /\ next # "deriving" /\ (next = "resources" => Eligible(t))
  BY DEF AfterContract, Stages
<1>11. task[t] = Idle
  BY <1>1, <1>2 DEF ResponseInv, Working
<1>. HIDE DEF next
<1>12. FlowInv'
  BY <1>1, <1>2, <1>4, <1>9, <1>10, <1>11, GoToStep
<1>. QED  BY <1>7, <1>8, <1>12 DEF MonitorInv

LEMMA EndContractStep ==
  ASSUME MonitorInv, NEW t \in Threads, EndContract(t)
  PROVE  MonitorInv'
<1> DEFINE next == AfterContract(t)
<1>1. /\ stage[t] = "storing" /\ UNCHANGED resourceVars
      /\ StoreChange(t) \/ UndoMerge(t)
      /\ GoTo(t, next)
  BY DEF EndContract
<1>2. /\ ContractInv /\ ResourceInv /\ FlowInv /\ ResponseInv(t)
  BY DEF MonitorInv, FlowInv
<1>3. task' = task /\ stateEvents' = stateEvents /\ IsSeq(stateEvents)
  BY <1>1, <1>2 DEF resourceVars, resourceTables, ResourceInv
<1>4. check.thread = t /\ check'.thread = NoThread
  BY <1>1 DEF StoreChange, UndoMerge, CheckRuns, NoCheck
<1>5. ContractInv' /\ ResourceInv'
  BY <1>1, <1>2, StoreChangeStep, UndoMergeStep, ResourceStutters
<1>6. /\ next \in Stages /\ next # "storing" /\ next # "deriving"
      /\ next = "resources" => Eligible(t)
  BY DEF AfterContract, Stages
<1>7. task[t] = Idle
  BY <1>1, <1>2 DEF ResponseInv, Working
<1>8. \A u \in Threads : (check'.thread = u) = FALSE /\ (u # t => (check.thread = u) = FALSE)
  BY <1>4, ContractAssumption
<1>. HIDE DEF next
<1>9. FlowInv'
  BY <1>1, <1>2, <1>3, <1>6, <1>7, <1>8, GoToStep
<1>. QED  BY <1>5, <1>9 DEF MonitorInv

LEMMA BeginResourcesStep ==
  ASSUME MonitorInv, NEW t \in Threads, BeginResources(t)
  PROVE  MonitorInv' /\ UNCHANGED resourceTables
<1> DEFINE r == response[t]
<1>1. stage[t] = "resources" /\ UNCHANGED contractVars /\ check' = check /\ t \in Trackers
  BY MonitorAssumption DEF BeginResources, contractVars
<1>2. /\ ContractInv /\ ResourceInv /\ FlowInv /\ ResponseInv(t) /\ IsSeq(stateEvents)
  BY DEF MonitorInv, FlowInv, ResourceInv
<1>3. ContractInv'
  BY <1>1, <1>2, ContractStutters
<1>4. /\ r.op \in ResourceOps /\ Eligible(t) /\ check.thread # t /\ task[t] = Idle
  BY <1>1, <1>2, DecodedResponse DEF ResponseInv, Working
<1>5. {"idle", "deriving"} \subseteq Stages
  BY DEF Stages
<1>6. CASE SkipAmbiguous(t, r.op, r.object) /\ GoTo(t, "idle")
  <2>1. UNCHANGED resourceVars /\ task' = task /\ stateEvents' = stateEvents
    BY <1>6 DEF SkipAmbiguous, resourceVars, resourceTables
  <2>2. ResourceInv' /\ UNCHANGED resourceTables
    BY <1>2, <2>1, ResourceStutters DEF resourceVars
  <2>3. FlowInv'
    BY <1>1, <1>2, <1>4, <1>5, <1>6, <2>1, GoToStep
  <2>. QED  BY <1>3, <2>2, <2>3 DEF MonitorInv
<1>7. CASE Derive(t, r.op, r.id, r.object) /\ GoTo(t, "deriving")
  <2>1. /\ ResourceInv' /\ TaskMoves(t) /\ UNCHANGED resourceTables
        /\ task'[t] # Idle /\ task'[t].op = r.op /\ task'[t].observation = r.id
    BY <1>1, <1>2, <1>4, <1>7, DeriveStep
  <2>2. /\ stateEvents' = stateEvents
        /\ \A u \in Threads : u # t => task'[u] = task[u]
    BY <2>1, MonitorAssumption DEF resourceTables, TaskMoves
  <2>. HIDE DEF r
  <2>3. FlowInv'
    BY <1>1, <1>2, <1>4, <1>5, <1>7, <2>1, <2>2, GoToStep DEF r
  <2>. QED  BY <1>3, <2>1, <2>3 DEF MonitorInv
<1>. QED  BY <1>6, <1>7 DEF BeginResources

\* No definition changes: the names, the edges and the events that exist stay.
Stable ==
  /\ \A n \in DOMAIN resources : n \in DOMAIN resources' /\ resources'[n] = resources[n]
  /\ \A e \in DOMAIN edges : e \in DOMAIN edges' /\ edges'[e] = edges[e]
  /\ SubSeq(stateEvents', 1, Len(stateEvents)) = stateEvents

LEMMA UnchangedIsStable ==
  ASSUME ResourceInv, UNCHANGED resourceTables
  PROVE  Stable
<1>1. /\ resources' = resources /\ edges' = edges /\ stateEvents' = stateEvents
      /\ IsSeq(stateEvents)
  BY DEF resourceTables, ResourceInv
<1>. QED  BY <1>1, SubSeqFull DEF Stable, IsSeq

LEMMA TrackResourcesStep ==
  ASSUME MonitorInv, NEW t \in Threads, TrackResources(t)
  PROVE  MonitorInv' /\ Stable
<1> DEFINE next == IF task'[t] = Idle THEN "idle" ELSE "deriving"
<1>1. /\ stage[t] = "deriving" /\ TrackerStep(t) /\ GoTo(t, next)
      /\ UNCHANGED contractVars /\ check' = check /\ t \in Trackers
  BY MonitorAssumption DEF TrackResources, contractVars
<1>2. /\ ContractInv /\ ResourceInv /\ FlowInv /\ ResponseInv(t) /\ IsSeq(stateEvents)
  BY DEF MonitorInv, FlowInv, ResourceInv
<1>3. ContractInv'
  BY <1>1, <1>2, ContractStutters
<1>4. /\ Eligible(t) /\ check.thread # t
      /\ task[t].op = response[t].op /\ task[t].observation = response[t].id
  BY <1>1, <1>2 DEF ResponseInv
<1>5. next \in Stages /\ next # "storing" /\ (next = "deriving") = (task'[t] # Idle)
  BY DEF Stages
<1>6. CASE Write(t)
  <2>1. /\ ResourceInv' /\ TaskMoves(t) /\ task'[t] = Idle
        /\ \/ stateEvents' = stateEvents
           \/ \E e : /\ stateEvents' = Append(stateEvents, e)
                     /\ e.observation = task[t].observation
        /\ \A n \in DOMAIN resources : n \in DOMAIN resources' /\ resources'[n] = resources[n]
        /\ \A e \in DOMAIN edges : e \in DOMAIN edges' /\ edges'[e] = edges[e]
    BY <1>1, <1>2, <1>6, WriteStep
  <2>2. \A u \in Threads : u # t => task'[u] = task[u]
    BY <2>1, MonitorAssumption DEF TaskMoves
  <2>3. next = "idle"
    BY <2>1
  <2>. HIDE DEF next
  <2>4. FlowInv'
    BY <1>1, <1>2, <1>4, <1>5, <2>1, <2>2, <2>3, GoToStep
  <2>5. SubSeq(stateEvents', 1, Len(stateEvents)) = stateEvents
    <3>1. CASE stateEvents' = stateEvents
      BY <1>2, <3>1, SubSeqFull DEF IsSeq
    <3>2. CASE \E e : stateEvents' = Append(stateEvents, e)
      BY <1>2, <3>2, Appended
    <3>. QED  BY <2>1, <3>1, <3>2
  <2>. QED  BY <1>3, <2>1, <2>4, <2>5 DEF MonitorInv, Stable
<1>7. CASE ~Write(t)
  <2>1. ResourceInv' /\ TaskGoesOn(t) /\ task[t] # Idle
    BY <1>1, <1>2, <1>7, QuietSteps DEF TrackerStep
  <2>2. /\ \A u \in Threads : u # t => task'[u] = task[u]
        /\ stateEvents' = stateEvents
    BY <2>1, MonitorAssumption DEF TaskGoesOn, TaskMoves, resourceTables
  <2>3. next = "deriving" =>
          task'[t].op = response[t].op /\ task'[t].observation = response[t].id
    BY <1>4, <2>1 DEF TaskGoesOn
  <2>. HIDE DEF next
  <2>4. FlowInv'
    BY <1>1, <1>2, <1>4, <1>5, <2>2, <2>3, GoToStep
  <2>5. Stable
    BY <1>2, <2>1, UnchangedIsStable DEF TaskGoesOn
  <2>. QED  BY <1>3, <2>1, <2>4, <2>5 DEF MonitorInv
<1>. QED  BY <1>6, <1>7

-----------------------------------------------------------------------------
(* The specification.                                                      *)

LEMMA MonitorStarts ==
  ASSUME MonitorInit
  PROVE  MonitorInv
<1>1. /\ responses = Declared /\ document = Declared /\ changes = <<>>
      /\ states = [k \in {} |-> Absent] /\ check = NoCheck
      /\ DOMAIN states = {} /\ Len(changes) = 0 /\ DOMAIN changes = {}
  BY DEF MonitorInit, ContractInit
<1>2. NoCheck.thread = NoThread /\ Idle.phase = "idle"
  BY DEF NoCheck, Idle
<1>3. IsSeq(<<>>)
  BY DEF IsSeq
<1>4. ContractInv
  <2>1. ContractTypes
    <3>1. AreDocuments(Declared)
      BY ContractAssumption DEF AreDocuments
    <3>2. states \in [DOMAIN states -> States]
      BY <1>1
    <3>. QED  BY <1>1, <1>3, <3>1, <3>2 DEF ContractTypes
  <2>2. LockFree /\ CheckFree
    BY <1>1 DEF LockFree, CheckFree
  <2>3. LeadsToDocument /\ DoneInDocument
    BY <1>1 DEF LeadsToDocument, LeadTo, DoneInDocument
  <2>. QED  BY <1>1, <2>1, <2>2, <2>3 DEF ContractInv
<1>5. /\ task = [t \in Trackers |-> Idle] /\ stateEvents = <<>> /\ DOMAIN stateEvents = {}
      /\ DOMAIN edges = {} /\ DOMAIN instances = {}
  BY DEF MonitorInit, ResourceInit
<1>6. ResourceInv
  <2>1. IsTable(task) /\ DOMAIN task = Trackers /\ \A t \in Trackers : task[t] = Idle
    BY <1>5 DEF IsTable
  <2>2. \A t \in Trackers : TaskInv(t)
    BY <1>2, <2>1 DEF TaskInv
  <2>. QED  BY <1>3, <1>5, <2>1, <2>2 DEF ResourceInv
<1>7. FlowInv
  <2>1. /\ stage = [t \in Threads |-> "idle"] /\ response = [t \in Threads |-> NoResponse]
        /\ received = 0
    BY DEF MonitorInit
  <2>2. /\ IsTable(stage) /\ DOMAIN stage = Threads
        /\ IsTable(response) /\ DOMAIN response = Threads /\ received \in Nat
    BY <2>1 DEF IsTable
  <2>3. ASSUME NEW t \in Threads PROVE ResponseInv(t)
    <3>1. stage[t] = "idle" /\ check.thread # t /\ task[t] = Idle
      BY <1>1, <1>2, <1>5, <2>1, MonitorAssumption, ContractAssumption
    <3>. QED  BY <3>1 DEF ResponseInv, Working, Stages
  <2>. QED  BY <1>5, <2>2, <2>3 DEF FlowInv
<1>. QED  BY <1>4, <1>6, <1>7 DEF MonitorInv

LEMMA MonitorStutters ==
  ASSUME MonitorInv, UNCHANGED monitorVars
  PROVE  MonitorInv'
<1>1. /\ UNCHANGED contractVars /\ UNCHANGED resourceVars
      /\ stage' = stage /\ response' = response /\ received' = received
      /\ check' = check /\ task' = task /\ stateEvents' = stateEvents
  BY DEF monitorVars, contractVars, resourceVars, resourceTables
<1>2. ContractInv' /\ ResourceInv'
  BY <1>1, ContractStutters, ResourceStutters DEF MonitorInv
<1>3. ASSUME NEW t \in Threads PROVE ResponseInv(t)'
  <2>1. ResponseInv(t)
    BY DEF MonitorInv, FlowInv
  <2>2. Evidence(response[t])' = Evidence(response[t]) /\ Eligible(t)' = Eligible(t)
    BY <1>1 DEF Evidence, Inferred, Eligible
  <2>. QED  BY <1>1, <2>1, <2>2 DEF ResponseInv, Working
<1>4. \A i \in DOMAIN stateEvents' : ObservationInv(i)'
  BY <1>1 DEF MonitorInv, FlowInv, ObservationInv
<1>. QED  BY <1>1, <1>2, <1>3, <1>4 DEF MonitorInv, FlowInv

LEMMA MonitorSteps ==
  ASSUME MonitorInv, [MonitorNext]_monitorVars
  PROVE  MonitorInv' /\ Stable
<1>1. ResourceInv
  BY DEF MonitorInv
<1>2. CASE UNCHANGED monitorVars
  <2>1. UNCHANGED resourceTables
    BY <1>2 DEF monitorVars, resourceVars
  <2>. QED  BY <1>1, <1>2, <2>1, MonitorStutters, UnchangedIsStable
<1>3. ASSUME NEW t \in Threads, NEW r \in Responses, NEW stored \in BOOLEAN, Observe(t, r, stored)
      PROVE  MonitorInv' /\ Stable
  <2>1. UNCHANGED resourceTables
    BY <1>3 DEF Observe, resourceVars
  <2>. QED  BY <1>1, <1>3, <2>1, ObserveStep, UnchangedIsStable
<1>4. ASSUME NEW t \in Threads, CheckContract(t) \/ EndContract(t)
      PROVE  MonitorInv' /\ Stable
  <2>1. UNCHANGED resourceTables
    BY <1>4 DEF CheckContract, EndContract, resourceVars
  <2>. QED  BY <1>1, <1>4, <2>1, CheckContractStep, EndContractStep, UnchangedIsStable
<1>5. ASSUME NEW t \in Threads, BeginResources(t)
      PROVE  MonitorInv' /\ Stable
  BY <1>1, <1>5, BeginResourcesStep, UnchangedIsStable
<1>6. ASSUME NEW t \in Threads, TrackResources(t)
      PROVE  MonitorInv' /\ Stable
  BY <1>6, TrackResourcesStep
<1>. QED  BY <1>2, <1>3, <1>4, <1>5, <1>6 DEF MonitorNext

\* The inductive invariant of the coordinator and its two monitors.
THEOREM MonitorKeepsInv == MonitorSpec => []MonitorInv
<1>1. MonitorInit => MonitorInv
  BY MonitorStarts
<1>2. MonitorInv /\ [MonitorNext]_monitorVars => MonitorInv'
  BY MonitorSteps
<1>. QED  BY <1>1, <1>2, PTL DEF MonitorSpec

\* Types, and where a response stands in the two monitors: only the thread that holds
\* the lock stores a change, and only successful JSON whose Observation was stored
\* reaches the Resource Monitor (observe_response).
THEOREM MonitorTypeCorrect == MonitorSpec => []MonitorTypeOK
<1>1. ASSUME MonitorInv PROVE MonitorTypeOK
  <2>1. ContractInv /\ ResourceInv /\ FlowInv
    BY <1>1 DEF MonitorInv
  <2>2. ContractTypeOK
    <3>1. check.thread \in Threads \cup {NoThread}
      BY <2>1 DEF ContractInv, CheckHeld, LockFree, NoCheck
    <3>. QED  BY <2>1, <3>1 DEF ContractInv, ContractTypes, AreDocuments, ContractTypeOK
  <2>3. ResourceTypeOK
    BY <2>1 DEF ResourceInv, TaskInv, InstanceInv, Phase, ResourceTypeOK
  <2>. QED  BY <2>1, <2>2, <2>3 DEF FlowInv, ResponseInv, Working, MonitorTypeOK
<1>. QED  BY <1>1, MonitorKeepsInv, PTL

\* The stored document can be explained by its change events, each of which begins where
\* the one before it ended, and only an empty body takes a fact away
\* (record_openapi_change, the rollback in observe).
THEOREM ContractAudited == MonitorSpec => []ContractIsAudited
<1>1. ASSUME MonitorInv PROVE ContractIsAudited
  <2>1. ContractInv
    BY <1>1 DEF MonitorInv
  <2>. QED  BY <2>1 DEF ContractInv, CheckFree, EventInv, LeadsToDocument, ContractIsAudited
<1>. QED  BY <1>1, MonitorKeepsInv, PTL

\* The one check a key gets is not wasted: what it added stays known until an empty body
\* of the same status (the states of the tracker, put back when a write fails).
THEOREM ChecksNotWasted == MonitorSpec => []ChecksAreNotWasted
<1>1. ASSUME MonitorInv PROVE ChecksAreNotWasted
  <2>1. ContractInv
    BY <1>1 DEF MonitorInv
  <2>2. ASSUME NEW k \in DOMAIN states
        PROVE  /\ states[k] = "checked" => k[2] \in DOMAIN document[k[1]]
               /\ states[k] = "checking" => check # NoCheck /\ k = KeyOf(check.evidence)
    BY <2>1 DEF ContractInv, DoneInDocument, CheckFree, CheckHeld, LockFree
  <2>3. ASSUME NEW i \in DOMAIN changes PROVE ChangeCovered(i)
    BY <2>1 DEF ContractInv, EventInv
  <2>4. ASSUME NEW i \in DOMAIN changes, NEW j \in DOMAIN changes,
               <<changes[i].op, changes[i].status, changes[i].media>> =
               <<changes[j].op, changes[j].status, changes[j].media>>
        PROVE  i = j
    <3>1. EventInv(i) /\ EventInv(j)
      BY <2>1 DEF ContractInv
    <3>2. KeyOf(changes[i].evidence) = KeyOf(changes[j].evidence)
      BY <2>4, <3>1 DEF EventInv, KeyOf
    <3>. QED  BY <3>1, <3>2 DEF EventInv
  <2>. QED  BY <2>2, <2>3, <2>4 DEF ChecksAreNotWasted
<1>. QED  BY <1>1, MonitorKeepsInv, PTL

\* The state of an instance is the one its newest event names, and every event is caused
\* by one Observation of an operation whose edge leads to that state, however many
\* responses are merged at once (record_resource_derivations).
THEOREM StatesCaused == MonitorSpec => []StatesAreCaused
<1>1. ASSUME MonitorInv PROVE StatesAreCaused
  <2>1. ResourceInv /\ FlowInv
    BY <1>1 DEF MonitorInv
  <2>2. ASSUME NEW i \in DOMAIN stateEvents, NEW j \in DOMAIN stateEvents,
               <<stateEvents[j].observation, stateEvents[j].instance>> =
               <<stateEvents[i].observation, stateEvents[i].instance>>
        PROVE  i = j
    BY <2>1, <2>2 DEF FlowInv, ObservationInv
  <2>. QED  BY <2>1, <2>2 DEF ResourceInv, InstanceInv, StateEventInv, StatesAreCaused
<1>. QED  BY <1>1, MonitorKeepsInv, PTL

\* Two threads that define the same name at once cannot both succeed: the identity of a
\* resource, the state of an edge and the events that were written stay as they are.
THEOREM DefinitionsStay == MonitorSpec => DefinitionsAreStable
<1>1. ASSUME MonitorInv, [MonitorNext]_monitorVars PROVE Stable
  BY <1>1, MonitorSteps
<1>2. Stable =>
        [ /\ \A n \in DOMAIN resources : n \in DOMAIN resources' /\ resources'[n] = resources[n]
          /\ \A e \in DOMAIN edges : e \in DOMAIN edges' /\ edges'[e] = edges[e]
          /\ SubSeq(stateEvents', 1, Len(stateEvents)) = stateEvents ]_resourceTables
  BY DEF Stable
<1>. QED  BY <1>1, <1>2, MonitorKeepsInv, PTL DEF MonitorSpec, DefinitionsAreStable
=============================================================================
