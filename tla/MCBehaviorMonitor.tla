-------------------------- MODULE MCBehaviorMonitor --------------------------
(* Two threads and the responses of three operations on one resource.      *)
EXTENDS BehaviorMonitor, TLC

CONSTANTS post, put, get, json, text

MCRole == post :> "CREATED" @@ put :> "UPDATED" @@ get :> "REFERENCED"
MCSuggested == post :> "tickets" @@ put :> "ticket" @@ get :> "items"
MCWildcard == "200" :> "2XX" @@ "404" :> "4XX"
MCTypeOf == [v \in {"1", "n"} |-> IF v = "1" THEN "integer" ELSE "string"]
            @@ (Null :> "null")

MCFacts == {"$"} \X {"object", "string"} \cup {"id"} \X {"integer", "number", "string"}
           \cup {"name", "note"} \X {"string", "null"}

\* One response is declared exactly, one only by its class or by default.
MCDeclared ==
  [op \in {post, put, get} |->
     CASE op = put  -> "200" :> (json :> {<<"$", "object">>, <<"id", "number">>})
       [] op = get  -> "2XX" :> (json :> {<<"id", "string">>}) @@ "default" :> << >>
       [] op = post -> "default" :> (json :> NoSchema)]

Object(op, o) == [op |-> op, status |-> "200", media |-> json, kind |-> "json", object |-> o]
Bodyless(op, s, m, k) == [op |-> op, status |-> s, media |-> m, kind |-> k, object |-> << >>]

MCResponses ==
  {Object(put, [id |-> "1"]), Object(put, [id |-> "1", name |-> "n"]),
   Object(put, [id |-> "1", note |-> "n"]), Object(post, [id |-> "1", name |-> "n"]),
   Object(get, [id |-> "1", name |-> Null]),
   Bodyless(put, "200", NoMedia, "empty"), Bodyless(put, "200", json, "invalid_json"),
   Bodyless(post, "404", text, "text"), Bodyless(get, "404", NoMedia, "binary")}
ThreadSymmetry == Permutations(Threads)
=============================================================================
