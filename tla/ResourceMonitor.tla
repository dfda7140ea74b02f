--------------------------- MODULE ResourceMonitor ---------------------------
(***************************************************************************)
(* The Resource Response Tracker (api_behavior_monitor/resource_monitor    *)
(* .py) and the tables it fills: resources with their identity fields, the *)
(* edges from operations to resources, the merged instances, and the       *)
(* events of their semantic states (record_resource_derivations).          *)
(*                                                                         *)
(* A thread reads the known resources, may ask the Identifier Agent, reads *)
(* the state context, may ask the State Agent, and then writes everything  *)
(* in one transaction; other threads commit meanwhile.  SQLite takes the   *)
(* write lock at the first changing statement, so what a transaction read  *)
(* before it may be stale.  A key that was inserted meanwhile makes the    *)
(* whole transaction fail; a row that was changed meanwhile does not, and  *)
(* the ORM writes only the columns it saw change.                          *)
(*                                                                         *)
(* A response holds one object; several groups only repeat the steps.      *)
(***************************************************************************)
EXTENDS Naturals, Sequences, FiniteSets, Tables

CONSTANTS Trackers,       \* threads that derive resources
          ResourceOps,    \* operations
          Role,           \* Role[op]: what its method does to a resource
          Suggested,      \* Suggested[op]: the resource name of its path
          IdentityChoices,\* field sets the Identifier Agent may answer
          StateNames,     \* states the State Agent may answer
          Null,           \* the JSON null of a body
          Unknown         \* no row, or nothing chosen yet

ASSUME ResourceAssumption ==
    /\ Unknown \notin StateNames
    /\ Role \in [ResourceOps -> {"CREATED", "REFERENCED", "UPDATED", "DELETED"}]

VARIABLES task,       \* task[t]: the response thread t derives from
          resources,  \* resources: name -> identity fields
          edges,      \* operation_resource_edges: <<op, name>> -> result state
          instances,  \* resource_instances: <<name, identity>> -> row
          stateEvents \* resource_state_events, oldest first

resourceTables == <<resources, edges, instances, stateEvents>>
resourceVars == <<task, resourceTables>>

Idle == [phase |-> "idle"]

ResourceInit ==
    /\ task = [t \in Trackers |-> Idle]
    /\ resources = [n \in {} |-> {}]
    /\ edges = [e \in {} |-> Unknown]
    /\ instances = [k \in {} |-> Unknown]
    /\ stateEvents = <<>>
-----------------------------------------------------------------------------
(* Identity and state of the response.                                     *)

Scalars(body) == {f \in DOMAIN body : body[f] # Null}

\* _matching_resources: the known meanings whose identity the object has.
Matching(body) == {n \in DOMAIN resources : resources[n] \subseteq Scalars(body)}

\* _select_known_resource: the suggested name, or else the only match.
SelectKnown(op, body) ==
    IF Suggested[op] \in Matching(body) THEN {Suggested[op]}
    ELSE IF Cardinality(Matching(body)) = 1 THEN Matching(body) ELSE {}

Phase(t) == task[t].phase
EndTask(t) == task' = [task EXCEPT ![t] = Idle]

\* Among several meanings none is guessed.
SkipAmbiguous(t, op, body) ==
    /\ Phase(t) = "idle"
    /\ SelectKnown(op, body) = {} /\ Matching(body) # {}
    /\ UNCHANGED resourceVars

\* observe: the response has a known resource, or the Identifier is asked.
Derive(t, op, observation, body) ==
    /\ Phase(t) = "idle"
    /\ SelectKnown(op, body) = {} => Matching(body) = {}
    /\ \E names \in {SelectKnown(op, body)} :
         task' = [task EXCEPT ![t] =
           [phase |-> IF names = {} THEN "identify" ELSE "context",
            op |-> op, observation |-> observation, body |-> body,
            name |-> IF names = {} THEN Suggested[op] ELSE CHOOSE n \in names : TRUE,
            fields |-> IF names = {} THEN {} ELSE resources[CHOOSE n \in names : TRUE],
            state |-> Unknown, row |-> Unknown, new |-> {}]]
    /\ UNCHANGED resourceTables

\* The Identifier Agent names fields the object has ...
Identify(t, fields) ==
    /\ Phase(t) = "identify"
    /\ fields \subseteq Scalars(task[t].body)
    /\ task' = [task EXCEPT ![t].phase = "context", ![t].fields = fields]
    /\ UNCHANGED resourceTables

\* ... or there is no identity, or one of the Agents fails: nothing is derived.
GiveUp(t) ==
    /\ Phase(t) \in {"identify", "choose"}
    /\ EndTask(t)
    /\ UNCHANGED resourceTables

\* read_resource_state_contexts: an edge already fixes the result state.
ReadContext(t) ==
    LET edge == <<task[t].op, task[t].name>>
    IN  /\ Phase(t) = "context"
        /\ task' = [task EXCEPT
             ![t].state = IF edge \in DOMAIN edges THEN edges[edge] ELSE Unknown,
             ![t].phase = IF edge \in DOMAIN edges THEN "record" ELSE "choose"]
        /\ UNCHANGED resourceTables

\* The State Agent reuses an established name or makes a new one: any name.
ChooseState(t, state) ==
    /\ Phase(t) = "choose"
    /\ task' = [task EXCEPT ![t].state = state, ![t].phase = "record"]
    /\ UNCHANGED resourceTables
-----------------------------------------------------------------------------
(* record_resource_derivations: one transaction.                           *)

EdgeOf(t) == <<task[t].op, task[t].name>>
InstanceOf(t) == <<task[t].name, [f \in task[t].fields |-> task[t].body[f]]>>

\* The definitions a transaction found missing, in the order they are added.
Missing(t) ==
    {d \in {"resource", "edge"} :
        \/ d = "resource" /\ task[t].name \notin DOMAIN resources
        \/ d = "edge" /\ EdgeOf(t) \notin DOMAIN edges}

\* The name stands for other fields, or the edge for another state.
Contradicts(t) ==
    \/ task[t].name \in DOMAIN resources /\ resources[task[t].name] # task[t].fields
    \/ EdgeOf(t) \in DOMAIN edges /\ edges[EdgeOf(t)] # task[t].state

\* Such a derivation is skipped or refused; nothing of it is stored.
Refuse(t) ==
    /\ Phase(t) = "record" /\ Contradicts(t)
    /\ EndTask(t)
    /\ UNCHANGED resourceTables

RowAt(k) == IF k \in DOMAIN instances THEN instances[k] ELSE Unknown

\* What the transaction reads before its first write.
ReadRows(t) ==
    /\ Phase(t) = "record" /\ ~Contradicts(t)
    /\ task' = [task EXCEPT ![t].phase = "write", ![t].new = Missing(t),
                            ![t].row = RowAt(InstanceOf(t))]
    /\ UNCHANGED resourceTables

\* merge_resource_state: a null leaves the old value, the rest replaces it.
MergedProps(old, body) ==
    [f \in DOMAIN old \cup Scalars(body) |->
        IF f \in Scalars(body) THEN body[f] ELSE old[f]]

MergedRow(t, row) ==
    [props |-> MergedProps(IF row = Unknown THEN << >> ELSE row.props, task[t].body),
     deleted |-> Role[task[t].op] = "DELETED",
     state |-> task[t].state]

\* The row the transaction works on: with a definition to insert, the lock is
\* taken before the instance is read.
SeenRow(t) == IF task[t].new # {} THEN RowAt(InstanceOf(t)) ELSE task[t].row

\* Mutant: a definition that exists by now is overwritten.
Upsertable(t) == SeenRow(t) = Unknown => InstanceOf(t) \notin DOMAIN instances

\* A key that is inserted must still be missing.
Insertable(t) ==
    /\ "resource" \in task[t].new => task[t].name \notin DOMAIN resources
    /\ "edge" \in task[t].new => EdgeOf(t) \notin DOMAIN edges
    /\ SeenRow(t) = Unknown => InstanceOf(t) \notin DOMAIN instances

\* Mutant: every column is written, changed or not.
WholeRow(stored, seen, merged) == merged

\* The UPDATE of the ORM: the columns that differ from the row that was read.
ChangedColumns(stored, seen, merged) ==
    IF seen = Unknown THEN merged
    ELSE LET rewritten == <<seen.props, seen.deleted>> # <<merged.props, merged.deleted>>
         IN  [props |-> IF rewritten THEN merged.props ELSE stored.props,
              deleted |-> IF rewritten THEN merged.deleted ELSE stored.deleted,
              state |-> IF seen.state # merged.state THEN merged.state ELSE stored.state]

\* Everything of the response in one commit, with an event when the state is
\* another one than the one that was read.
Write(t) ==
    LET seen == SeenRow(t)
        merged == MergedRow(t, seen)
        key == InstanceOf(t)
        before == IF seen = Unknown THEN Unknown ELSE seen.state
    IN  /\ Phase(t) = "write" /\ Insertable(t)
        /\ resources' = Put(resources, task[t].name, task[t].fields)
        /\ edges' = Put(edges, EdgeOf(t), task[t].state)
        /\ instances' = Put(instances, key, ChangedColumns(RowAt(key), seen, merged))
        /\ stateEvents' = IF before = task[t].state THEN stateEvents
                          ELSE Append(stateEvents,
                                 [instance |-> key, previous |-> before,
                                  current |-> task[t].state, op |-> task[t].op,
                                  observation |-> task[t].observation])
        /\ EndTask(t)

\* A key was inserted meanwhile, or the write fails: all of it is rolled back.
Abort(t) ==
    /\ Phase(t) = "write"
    /\ EndTask(t)
    /\ UNCHANGED resourceTables

TrackerStep(t) ==
    \/ \E fields \in IdentityChoices : Identify(t, fields)
    \/ GiveUp(t)
    \/ ReadContext(t)
    \/ \E state \in StateNames : ChooseState(t, state)
    \/ Refuse(t)
    \/ ReadRows(t)
    \/ Write(t)
    \/ Abort(t)
-----------------------------------------------------------------------------
(* Properties.                                                             *)

ResourceTypeOK ==
    /\ \A t \in Trackers : Phase(t) \in
         {"idle", "identify", "context", "choose", "record", "write"}
    /\ \A e \in DOMAIN edges : e \in ResourceOps \X DOMAIN resources /\ edges[e] \in StateNames
    /\ \A k \in DOMAIN instances : k[1] \in DOMAIN resources

\* The newest event of an instance names this state.
NewestState(k, state) ==
    \E i \in DOMAIN stateEvents :
        /\ stateEvents[i].instance = k /\ stateEvents[i].current = state
        /\ \A j \in DOMAIN stateEvents : j > i => stateEvents[j].instance # k

\* The semantic state of an instance is the one its newest event names, and
\* every event is caused by an Observation of an operation whose edge leads to
\* that state, however many responses of how many threads were merged at once.
StatesAreCaused ==
    /\ \A k \in DOMAIN instances :
         /\ DOMAIN k[2] = resources[k[1]]
         /\ NewestState(k, instances[k].state)
    /\ \A i \in DOMAIN stateEvents :
         LET e == stateEvents[i]
         IN  /\ <<e.op, e.instance[1]>> \in DOMAIN edges
             /\ edges[<<e.op, e.instance[1]>>] = e.current
             /\ e.instance \in DOMAIN instances
             /\ \A j \in DOMAIN stateEvents :
                  <<stateEvents[j].observation, stateEvents[j].instance>> =
                  <<e.observation, e.instance>> => i = j

\* What later reads rely on is never redefined: the identity fields of a
\* resource, the result state of an edge and the events that were written.
\* Two threads that define the same name at once cannot both succeed.
DefinitionsAreStable ==
    [][ /\ \A n \in DOMAIN resources :
             n \in DOMAIN resources' /\ resources'[n] = resources[n]
        /\ \A e \in DOMAIN edges : e \in DOMAIN edges' /\ edges'[e] = edges[e]
        /\ SubSeq(stateEvents', 1, Len(stateEvents)) = stateEvents ]_resourceTables

\* docs/database_design.md:77-78: "current_state_json is updated incrementally:
\* missing properties stay".  It does not hold: a row that was changed after it
\* was read is overwritten with a merge that does not know the change.
MissingPropertiesStay ==
    [][ \A k \in DOMAIN instances :
          /\ k \in DOMAIN instances'
          /\ DOMAIN instances[k].props \subseteq DOMAIN instances'[k].props ]_resourceTables
=============================================================================
