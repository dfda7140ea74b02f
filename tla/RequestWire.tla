----------------------------- MODULE RequestWire -----------------------------
(***************************************************************************)
(* How a generated request becomes the text that is sent                   *)
(* (restscope/request_generation/serialization.py and                      *)
(* target_api/request.py), and how its target reads it.                    *)
(*                                                                         *)
(* A text is a sequence of symbols <<s, k>>: the character or word s under *)
(* k percent-encodings; in a path template, <<n, -1>> is the place of the  *)
(* parameter n.  The text of a string value is the value itself, every     *)
(* other scalar is one word.  The members of an object are taken in one    *)
(* fixed order, and the blank after a cookie's ";" is left out.            *)
(***************************************************************************)
EXTENDS RequestGeneration, SequencesExt

CONSTANTS
  Lower,         \* the lower-case form of the names that are not in lower case
  Sensitive      \* the lower-case header names that carry secrets

Symbol(s) == <<s, 0>>
Place(n) == <<n, -1>>

Reserved == {":", "/", "?", "#", "[", "]", "@", "!", "$", "&", "'", "(", ")", "*", "+", ",", ";", "="}
Escaped == Reserved \cup {" ", "|", "%", "\\", "CR", "LF"}
HopByHop == {"connection", "content-length", "host", "keep-alive", "proxy-authenticate",
             "proxy-authorization", "te", "trailer", "transfer-encoding", "upgrade"}

LowerOf(s) == IF s \in DOMAIN Lower THEN Lower[s] ELSE s
LowerText(text) == [i \in DOMAIN text |-> <<LowerOf(text[i][1]), text[i][2]>>]

\* quote, and repeated unquote.
Quote(text, safe) ==
  [i \in DOMAIN text |->
    <<text[i][1], text[i][2] + (IF text[i][2] > 0 \/ text[i][1] \in Escaped \ safe THEN 1 ELSE 0)>>]
Unquote(text, times) ==
  [i \in DOMAIN text |-> <<text[i][1], IF text[i][2] > times THEN text[i][2] - times ELSE 0>>]

Joined(parts, d) ==
  FlattenSeq([i \in DOMAIN parts |-> IF i = 1 THEN parts[i] ELSE <<Symbol(d)>> \o parts[i]])
\* The pieces of a text between the symbols d.
Pieces(text, d) ==
  LET cuts == <<0>> \o SetToSortSeq({i \in DOMAIN text : text[i] = Symbol(d)}, <) \o <<Len(text) + 1>>
  IN  [k \in 1..(Len(cuts) - 1) |-> SubSeq(text, cuts[k] + 1, cuts[k + 1] - 1)]
\* What is before the first d, and what is after it.
Cut(text, d) ==
  LET first == Pieces(text, d)[1]
  IN  <<first, SubSeq(text, Len(first) + 2, Len(text))>>

-----------------------------------------------------------------------------
(* Serialization.                                                          *)

Text(v) ==
  CASE v[1] = "string" -> v[2]
    [] v[1] = "null" -> << >>
    [] OTHER -> <<Symbol(ToString(v[2]))>>
Items(v) == [i \in DOMAIN v[2] |-> Text(v[2][i])]
Names(v) == SetToSeq(DOMAIN v[2])
Entries(v) == [i \in DOMAIN Names(v) |-> <<<<Symbol(Names(v)[i])>>, Text(v[2][Names(v)[i]])>>]
IsArray(v) == v[1] = "array"
IsObject(v) == v[1] = "object"

\* A declared parameter p states its location, style, whether it is exploded, whether
\* reserved characters are kept, and the collectionFormat of Swagger.
DefaultStyle == [path |-> "simple", query |-> "form", header |-> "simple", cookie |-> "form"]
Style(p) == IF p.style = "unstated" THEN DefaultStyle[p.in] ELSE p.style
Explode(p) == IF p.explode = "unstated" THEN Style(p) = "form" ELSE p.explode = "yes"
Safe(p) == IF p.reserved THEN Reserved ELSE {}

\* _delimited_value
Delimited(v, d, explode, safe) ==
  CASE IsArray(v) -> Joined([i \in DOMAIN v[2] |-> Quote(Items(v)[i], safe)], d)
    [] IsObject(v) ->
         Joined([i \in DOMAIN Entries(v) |->
           Joined(<<Quote(Entries(v)[i][1], {}), Quote(Entries(v)[i][2], safe)>>,
                  IF explode THEN "=" ELSE d)], d)
    [] OTHER -> Quote(Text(v), safe)

\* serialize_path_parameter_value
PathText(p, name, v) ==
  LET Member(k, t) == <<Symbol(";")>> \o k \o <<Symbol("=")>> \o Quote(t, {})
      own == Quote(name, Safe(p))
  IN  CASE Style(p) = "simple" -> Delimited(v, ",", Explode(p), Safe(p))
        [] Style(p) = "label" ->
             <<Symbol(".")>> \o
             Delimited(v, IF Explode(p) /\ IsArray(v) THEN "." ELSE ",", Explode(p), Safe(p))
        [] Explode(p) /\ IsObject(v) ->
             FlattenSeq([i \in DOMAIN Entries(v) |-> Member(Quote(Entries(v)[i][1], {}), Entries(v)[i][2])])
        [] Explode(p) /\ IsArray(v) -> FlattenSeq([i \in DOMAIN v[2] |-> Member(own, Items(v)[i])])
        [] OTHER -> <<Symbol(";")>> \o own \o <<Symbol("=")>> \o Delimited(v, ",", FALSE, {})

Separator == [form |-> ",", spaceDelimited |-> " ", pipeDelimited |-> "|",
              csv |-> ",", ssv |-> " ", tsv |-> "TAB", pipes |-> "|"]
\* The members of a container as one text, without any encoding.
Flattened(v, d) ==
  CASE IsArray(v) -> Joined(Items(v), d)
    [] IsObject(v) -> Joined(FlattenSeq(Entries(v)), d)
    [] OTHER -> Text(v)

\* What _serialize_query and _serialize_body refuse.
IsUndeepObject(p, v) ==
  /\ Style(p) = "deepObject" /\ ~(IsArray(v) /\ p.collection # "none")
  /\ ~IsObject(v) \/ ~Explode(p)
IsUnfitBody(media, v) ==
  \/ media \in {"form", "multipart"} /\ ~IsObject(v)
  \/ media = "text" /\ v[1] # "string"

\* _serialize_query: the pairs of name and text.
QueryPairs(p, name, v) ==
  LET Each == [i \in DOMAIN v[2] |-> <<name, Items(v)[i]>>]
  IN  CASE IsArray(v) /\ p.collection # "none" ->
             IF p.collection = "multi" THEN Each
             ELSE <<<<name, Flattened(v, Separator[p.collection])>>>>
        [] Style(p) = "deepObject" ->
             [i \in DOMAIN Entries(v) |->
               <<name \o <<Symbol("[")>> \o Entries(v)[i][1] \o <<Symbol("]")>>, Entries(v)[i][2]>>]
        [] Style(p) = "form" /\ Explode(p) /\ IsArray(v) -> Each
        [] Style(p) = "form" /\ Explode(p) /\ IsObject(v) -> Entries(v)
        [] OTHER -> <<<<name, Flattened(v, Separator[Style(p)])>>>>

\* _serialize_cookie
CookiePairs(p, name, v) ==
  CASE Explode(p) /\ IsArray(v) -> [i \in DOMAIN v[2] |-> <<name, Items(v)[i]>>]
    [] Explode(p) /\ IsObject(v) -> Entries(v)
    [] OTHER -> <<<<name, Flattened(v, ",")>>>>

\* _serialize_body: the content.  The boundary of a multipart body is in none of its
\* parts, so that they stay apart.
BodyContent(media, v) ==
  CASE media = "json" -> v
    [] media = "form" ->
         FlattenSeq([i \in DOMAIN Entries(v) |->
           LET x == v[2][Names(v)[i]]
           IN  IF IsArray(x) THEN [k \in DOMAIN x[2] |-> <<Entries(v)[i][1], Items(x)[k]>>]
               ELSE <<Entries(v)[i]>>])
    [] media = "multipart" ->
         [i \in DOMAIN Entries(v) |->
           LET x == v[2][Names(v)[i]]
           IN  <<Entries(v)[i][1], IF IsArray(x) \/ IsObject(x) THEN x ELSE <<"text", Text(x)>>>>]
    [] media = "text" -> v[2]

\* serialize_test_case, for the request r of the case c whose Operation declares d:
\* the template of its path and its parameters.
Serialized(c, d, r) ==
  LET At(location) == SelectSeq(c.op.ids, LAMBDA n : n \in DOMAIN d.parameters
                                                       /\ d.parameters[n].in = location)
      Given(location) == SelectSeq(At(location), LAMBDA n : n \in DOMAIN r.parameters)
      Name(n) == <<Symbol(Node(c, n).name)>>
      path == FlattenSeq([i \in DOMAIN d.path |->
                LET n == d.path[i][1]
                IN  IF d.path[i] = Place(n) /\ n \in DOMAIN r.parameters
                    THEN PathText(d.parameters[n], Name(n), r.parameters[n]) ELSE <<d.path[i]>>])
      query == [i \in DOMAIN Given("query") |->
                 LET n == Given("query")[i] IN QueryPairs(d.parameters[n], Name(n), r.parameters[n])]
      marks == [i \in DOMAIN query |->
                 [k \in DOMAIN query[i] |-> query[i][k] \o <<d.parameters[Given("query")[i]].reserved>>]]
      cookies == FlattenSeq([i \in DOMAIN Given("cookie") |->
                   LET n == Given("cookie")[i]
                   IN  CookiePairs(d.parameters[n], Name(n), r.parameters[n])])
      named == {Node(c, n).name : n \in ToSet(Given("header"))}
  IN  IF \/ At("path") # Given("path") \/ \E s \in ToSet(path) : s[2] = -1
         \/ \E n \in ToSet(Given("query")) : IsUndeepObject(d.parameters[n], r.parameters[n])
         \/ r.hasBody /\ IsUnfitBody(c.op.media, r.body)
      THEN Failed
      ELSE <<"request",
             [path |-> path, query |-> FlattenSeq(marks),
              content |-> IF r.hasBody THEN BodyContent(c.op.media, r.body) ELSE << >>,
              headers |->
                (IF r.hasBody THEN "Content-Type" :> <<Symbol(c.op.media)>> ELSE << >>) @@
                (IF cookies = << >> THEN << >>
                 ELSE "Cookie" :> Joined([i \in DOMAIN cookies |-> Joined(cookies[i], "=")], ";")) @@
                [x \in named |->
                  LET n == CHOOSE m \in ToSet(Given("header")) : Node(c, m).name = x
                  IN  Delimited(r.parameters[n], ",", Explode(d.parameters[n]), {})]]>>

-----------------------------------------------------------------------------
(* The trust seam before the client.                                       *)

\* validate_target_headers
HeadersAreValid(headers) ==
  /\ \A x, y \in DOMAIN headers : LowerOf(x) = LowerOf(y) => x = y
  /\ \A x \in DOMAIN headers : \A i \in DOMAIN headers[x] :
       headers[x][i] \notin {Symbol("CR"), Symbol("LF")}

\* validate_relative_target_path
PathIsRelative(path) ==
  /\ path[1] = Symbol("/") /\ (Len(path) = 1 \/ path[2] # Symbol("/"))
  /\ \A i \in DOMAIN path : path[i] \notin {Symbol("?"), Symbol("#"), Symbol("\\")}
  /\ \A i \in DOMAIN Pieces(Unquote(path, 3), "/") :
       Pieces(Unquote(path, 3), "/")[i] \notin {<<Symbol(".")>>, <<Symbol("."), Symbol(".")>>}

\* _encode_query
QueryText(items) ==
  Joined([i \in DOMAIN items |->
    Joined(<<Quote(items[i][1], {}), Quote(items[i][2], IF items[i][3] THEN Reserved \ {"#"} ELSE {})>>,
           "=")], "&")

\* Mutant: generated cookies replace the App's own ones.
CookiesReplaced(own, generated) == generated

\* _merge_cookie_values
CookiesMerged(own, generated) ==
  LET NameOf(part) == LowerText(Cut(part, "=")[1])
      names == {NameOf(Pieces(own, ";")[i]) : i \in DOMAIN Pieces(own, ";")}
  IN  Joined(Pieces(own, ";") \o
             SelectSeq(Pieces(generated, ";"), LAMBDA part : part # << >> /\ NameOf(part) \notin names), ";")

Forbidden(x) == LowerOf(x) \in (Sensitive \ {"cookie"}) \cup HopByHop

\* merge_target_headers: the generated headers replace those of the App, except
\* for its cookies.
MergedHeaders(app, headers) ==
  LET Same(x, S) == {y \in S : LowerOf(y) = LowerOf(x)}
      kept == {x \in DOMAIN app : LowerOf(x) = "cookie" \/ Same(x, DOMAIN headers) = {}}
      added == {x \in DOMAIN headers : Same(x, kept) = {}}
  IN  [x \in kept \cup added |->
        IF x \in added THEN headers[x]
        ELSE IF Same(x, DOMAIN headers) = {} THEN app[x]
        ELSE CookiesMerged(app[x], headers[CHOOSE y \in Same(x, DOMAIN headers) : TRUE])]

\* prepare_target_request
TargetRequest(app, wire) ==
  IF ~HeadersAreValid(wire.headers) THEN <<"invalid_headers">>
  ELSE IF ~PathIsRelative(wire.path) THEN <<"invalid_path">>
  ELSE IF \E x \in DOMAIN wire.headers : Forbidden(x) THEN <<"forbidden_header">>
  ELSE <<"ready", [path |-> wire.path, query |-> QueryText(wire.query), content |-> wire.content,
                   headers |-> MergedHeaders(app, wire.headers)]>>

\* The request as it is sent for a case, or why there is none.
Wired(c, d, app, r) ==
  LET wire == Serialized(c, d, r)
  IN  IF wire = Failed THEN <<"serialization_failed">> ELSE TargetRequest(app, wire[2])

-----------------------------------------------------------------------------
(* How the target reads what it receives, by the declaration.              *)

Leaves(v) ==
  CASE IsArray(v) -> Items(v)
    [] IsObject(v) -> FlattenSeq(Entries(v))
    [] OTHER -> <<Text(v)>>
IsContainer(v) == IsArray(v) \/ IsObject(v)
Has(v, s) == \E i \in DOMAIN Leaves(v) : Contains(Leaves(v)[i], Symbol(s))

Decoded(parts) == [i \in DOMAIN parts |-> Unquote(parts[i], 1)]
Fields(text, d, inPairs) ==
  LET parts == Pieces(text, d)
  IN  Decoded(IF inPairs THEN FlattenSeq([i \in DOMAIN parts |-> Cut(parts[i], "=")]) ELSE parts)
\* Cookies are not encoded.
Pairs(text, d) ==
  [i \in DOMAIN Pieces(text, d) |->
    IF d = ";" THEN Cut(Pieces(text, d)[i], "=") ELSE Decoded(Cut(Pieces(text, d)[i], "="))]
\* The values under a name, in their order.
Under(name, pairs) ==
  LET own == SelectSeq(pairs, LAMBDA q : q[1] = name) IN [i \in DOMAIN own |-> own[i][2]]

PathFields(p, v, segment) ==
  CASE Style(p) = "simple" -> Fields(segment, ",", Explode(p) /\ IsObject(v))
    [] Style(p) = "label" -> Fields(Tail(segment), IF Explode(p) THEN "." ELSE ",", FALSE)
    [] Explode(p) /\ IsObject(v) -> Fields(Tail(segment), ";", TRUE)
    [] Explode(p) /\ IsArray(v) ->
         LET pairs == Pairs(Tail(segment), ";") IN [i \in DOMAIN pairs |-> Unquote(pairs[i][2], 1)]
    [] OTHER -> Fields(Cut(segment, "=")[2], ",", FALSE)

\* The value of a query or cookie parameter in the pairs received.
PairsGive(p, name, v, pairs) ==
  CASE Style(p) = "deepObject" ->
         \A x \in DOMAIN v[2] :
           Under(name \o <<Symbol("["), Symbol(x), Symbol("]")>>, pairs) = <<Text(v[2][x])>>
    [] p.collection = "multi" /\ IsArray(v) -> Under(name, pairs) = Items(v)
    [] p.collection = "none" /\ Style(p) = "form" /\ Explode(p) /\ IsArray(v) ->
         Under(name, pairs) = Items(v)
    [] Style(p) = "form" /\ Explode(p) /\ IsObject(v) ->
         \A x \in DOMAIN v[2] : Under(<<Symbol(x)>>, pairs) = <<Text(v[2][x])>>
    [] OTHER ->
         LET d == Separator[IF p.collection = "none" THEN Style(p) ELSE p.collection]
             texts == Under(name, pairs)
         IN  Len(texts) = 1 /\ (IF IsContainer(v) THEN Pieces(texts[1], d) ELSE texts) = Leaves(v)

\* The values that a declaration can carry at all: a container with members, no
\* delimiter inside an unencoded text, no reserved character that is kept.  An
\* exploded label joins the members of an object with "," where a reader expects ".".
Carries(p, v) ==
  /\ IsContainer(v) => v[2] # << >>
  /\ p.reserved => \A s \in Reserved : ~Has(v, s)
  /\ CASE p.in = "path" -> Style(p) = "label" /\ Explode(p) => ~IsObject(v) /\ ~Has(v, ".")
       [] p.in \in {"query", "cookie"} ->
            /\ IsContainer(v) => \A d \in {",", " ", "|", "TAB"} : ~Has(v, d)
            /\ p.in = "cookie" => ~Has(v, ";")
       [] OTHER -> TRUE

\* The request w that was sent for r says what r says, in the segment of the path, the
\* query, the headers, the cookies (but those the App has itself) and the form.
Lines(headers, x) == {headers[y] : y \in {z \in DOMAIN headers : LowerOf(z) = LowerOf(x)}}
CookiesOf(headers) == {Pairs(line, ";") : line \in Lines(headers, "cookie")}
Named(x, pairs) == SelectSeq(pairs, LAMBDA q : LowerText(q[1]) = LowerText(x))

Says(c, d, app, r, w) ==
  LET Name(n) == <<Symbol(Node(c, n).name)>>
      template == Pieces(d.path, "/")
      segments == Pieces(w.path, "/")
      Told(n, p, v) ==
        CASE p.in = "path" ->
               \E i \in DOMAIN template :
                 template[i] = <<Place(n)>> /\ PathFields(p, v, segments[i]) = Leaves(v)
          [] p.in = "query" -> PairsGive(p, Name(n), v, Pairs(w.query, "&"))
          [] p.in = "header" ->
               {Fields(line, ",", Explode(p) /\ IsObject(v)) : line \in Lines(w.headers, Node(c, n).name)}
                 = {Leaves(v)}
          [] p.in = "cookie" ->
               \/ \E own \in CookiesOf(app) : Named(Name(n), own) # << >>
               \/ \E pairs \in CookiesOf(w.headers) : PairsGive(p, Name(n), v, pairs)
  IN  /\ \A n \in DOMAIN r.parameters :
           Carries(d.parameters[n], r.parameters[n]) => Told(n, d.parameters[n], r.parameters[n])
      /\ (\A n \in DOMAIN r.parameters : ~d.parameters[n].reserved) => Len(segments) = Len(template)
      /\ r.hasBody /\ c.op.media = "form" =>
           \A x \in DOMAIN r.body[2] :
             Under(<<Symbol(x)>>, w.content)
               = IF IsArray(r.body[2][x]) THEN Items(r.body[2][x]) ELSE <<Text(r.body[2][x])>>

\* What the App sends with every request is sent with this one: its secrets and its
\* cookies as they are, and no other header that carries a secret.
SecretsAreKept(app, w) ==
  /\ \A x \in DOMAIN app : LowerOf(x) \in Sensitive \ {"cookie"} => w.headers[x] = app[x]
  /\ \A own \in CookiesOf(app) : \E pairs \in CookiesOf(w.headers) :
       \A i \in DOMAIN own : Named(own[i][1], pairs) = Named(own[i][1], own)
  /\ \A x \in DOMAIN w.headers \ DOMAIN app :
       LowerOf(x) \notin HopByHop /\ (LowerOf(x) \in Sensitive => LowerOf(x) = "cookie")
=============================================================================
