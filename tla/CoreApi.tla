------------------------------- MODULE CoreApi -------------------------------
(***************************************************************************)
(* The parts of the coreapi client (js/coreapi-0.1.1.js) that compute and   *)
(* keep no state: the decoded schema document, the lookup of a link in it,  *)
(* the credentials, the request built from a link and its parameters, and   *)
(* the choice of a decoder for the answer.                                  *)
(*                                                                         *)
(* A schema document is a function from key paths to links: the objects     *)
(* between the root and a link are the prefixes of its path.  A key is the  *)
(* sequence of its underscores and words, because two keys are reserved.  A *)
(* URL is its scheme and what the variables of its path are replaced by.    *)
(***************************************************************************)
EXTENDS SequencesExt

CONSTANTS
    Absent,      \* undefined
    PageScheme,  \* the scheme of the page the client runs in
    Lists,       \* the parameters that are lists
    Objects,     \* those that are objects
    Blank        \* those that a URL template expands to nothing: null, the empty string, and lists
                 \* and objects in which there is nothing else

ASSUME BlankAssumption == "" \in Blank /\ "false" \notin Blank

Safe == {"GET", "HEAD", "OPTIONS", "TRACE"}
Names(fields) == {fields[i].name : i \in DOMAIN fields}

(***************************************************************************)
(* The schema document.                                                     *)
(***************************************************************************)
Reserved == {<<"_", "type">>, <<"_", "meta">>}

\* Nothing but underscores before the word.
OnlyUnderscores(key) == ToSet(Front(key)) \subseteq {"_"}

\* The encoder of the server: a reserved key, escaped or not, gets one more underscore.
EscapeKey(key) ==
    IF OnlyUnderscores(key) /\ \E r \in Reserved : IsSuffix(r, key)
    THEN <<"_">> \o key ELSE key

\* The document as SchemaJSRenderer sends it: the keys of the objects below the root are escaped too.
Encode(document) ==
    LET Wire(path) == [i \in DOMAIN path |-> EscapeKey(path[i])]
    IN [p \in {Wire(q) : q \in DOMAIN document} |->
            document[CHOOSE q \in DOMAIN document : Wire(q) = p]]

\* Mutant of unescapeKey: an escaped key is left as it is.
EscapedKey(key) == key

\* The regular expression is not anchored in front: it shortens any key that ends like this.
unescapeKey(key) ==
    IF \E r \in Reserved : IsSuffix(<<"_">> \o r, key) THEN Tail(key) ELSE key

\* What is missing or has another type becomes the empty default.
DecodeField(field) ==
    [name |-> field.name,
     required |-> field.required,
     location |-> IF field.location = Absent THEN "" ELSE field.location]

\* A relative URL is resolved against the page.  Whatever the link says of its encoding, it
\* is taken for application/json; the data types of its fields are left behind.
DecodeLink(link) ==
    [method |-> IF link.action = Absent THEN "GET" ELSE link.action,
     scheme |-> IF link.scheme = Absent THEN PageScheme ELSE link.scheme,
     encoding |-> "application/json",
     variables |-> link.variables,
     fields |-> [i \in DOMAIN link.fields |-> DecodeField(link.fields[i])]]

\* The keys of the root are unescaped, those of the objects below it are not.
primitiveToNode(wire) ==
    LET Key(path) == <<unescapeKey(path[1])>> \o Tail(path)
    IN [p \in {Key(q) : q \in DOMAIN wire} |->
            DecodeLink(wire[CHOOSE q \in DOMAIN wire : Key(q) = p])]

\* Absent stands for a LinkLookupError: a key is missing, or the keys end before a link or go
\* on after one.
lookupLink(node, keys) == IF keys \in DOMAIN node THEN node[keys] ELSE Absent

\* Only HTTP has a transport; for another scheme the client throws.
determineTransport(link) == link.scheme \in {"http", "https"}

(***************************************************************************)
(* Credentials: what the three authentications add to the options of a      *)
(* request.                                                                 *)
(***************************************************************************)
csrfSafeMethod(method) == method \in Safe

NoAuthentication == [authorization |-> Absent, csrfToken |-> Absent, cookies |-> "default"]
BasicAuthentication(user) == [NoAuthentication EXCEPT !.authorization = <<"Basic", user>>]
TokenAuthentication(scheme, token) ==
    [NoAuthentication EXCEPT !.authorization = <<IF scheme = "" THEN "Bearer" ELSE scheme, token>>]
SessionAuthentication(cookie) ==
    [NoAuthentication EXCEPT !.csrfToken = cookie, !.cookies = "same-origin"]

\* A safe method does not carry the CSRF token.
authenticate(auth, method) ==
    IF csrfSafeMethod(method) THEN [auth EXCEPT !.csrfToken = Absent] ELSE auth

(***************************************************************************)
(* The request.                                                             *)
(***************************************************************************)
\* The parameters that the fields at this location name.
At(fields, params, location) ==
    [n \in {fields[i].name : i \in {j \in DOMAIN fields : fields[j].location = location}}
           \cap DOMAIN params |-> params[n]]

\* A required field without a parameter, or a parameter without a field.
ParameterError(fields, params) ==
    \/ \E i \in DOMAIN fields : fields[i].required /\ fields[i].name \notin DOMAIN params
    \/ ~(DOMAIN params \subseteq Names(fields))

HasBody(fields, params) ==
    \E i \in DOMAIN fields : /\ fields[i].location \in {"form", "body"}
                             /\ fields[i].name \in DOMAIN params

LastBody(fields, params) ==
    Max({0} \cup {i \in DOMAIN fields : /\ fields[i].location = "body"
                                        /\ fields[i].name \in DOMAIN params})

\* A form field is assigned into the value of the last body field in front of it.  Where that is
\* neither a list nor an object, the assignment throws a TypeError.
AssignmentError(fields, params) ==
    \E i \in DOMAIN fields :
        /\ fields[i].location = "form" /\ fields[i].name \in DOMAIN params
        /\ LET last == LastBody(SubSeq(fields, 1, i), params)
           IN last # 0 /\ params[fields[last].name] \notin Lists \cup Objects

\* The parameter of a body field is the whole body: it replaces the form fields in front of it.
\* Those behind it become parts of an object; what is assigned to a list is no part of its JSON.
FormParams(fields, params) ==
    LET last == LastBody(fields, params)
        whole == IF last = 0 THEN Absent ELSE params[fields[last].name]
        behind == SubSeq(fields, last + 1, Len(fields))
    IN [whole |-> whole,
        parts |-> At(IF last = 0 \/ whole \in Objects THEN behind ELSE <<>>, params, "form")]

\* What a path variable is replaced by: one without a value, or with a blank one, leaves nothing.
getValues(context, variable) ==
    IF variable \in DOMAIN context /\ context[variable] \notin Blank
    THEN context[variable] ELSE ""

\* The URI template: links have plain variables only.
Expand(variables, context) == [v \in variables |-> getValues(context, v)]

\* A field at another location is checked and then left out.
buildRequest(link, params, auth) ==
    [method |-> link.method,
     path |-> Expand(link.variables, At(link.fields, params, "path")),
     query |-> At(link.fields, params, "query"),
     body |-> IF HasBody(link.fields, params) THEN FormParams(link.fields, params) ELSE Absent,
     contentType |-> IF HasBody(link.fields, params) THEN link.encoding ELSE Absent,
     credentials |-> authenticate(auth, link.method)]

\* fetch throws a TypeError inside its promise: such a request is never sent.
BodyNotAllowed(request) == request.method \in {"GET", "HEAD"} /\ request.body # Absent

(***************************************************************************)
(* The answer.                                                              *)
(***************************************************************************)
\* The decoders of a client in their order: a missing type takes the first.  Absent stands for
\* the error that no decoder has the media type.
negotiateDecoder(contentType) ==
    CASE contentType \in {Absent, "application/coreapi+json"} -> "corejson"
      [] contentType = "application/json" -> "json"
      [] contentType \in {"text/html", "text/plain"} -> "text"
      [] OTHER -> Absent

\* Whether the text of an answer is decoded: JSON may be malformed, text never is.
Decodes(answer) ==
    CASE negotiateDecoder(answer.contentType) \in {"corejson", "json"} -> answer.wellFormed
      [] negotiateDecoder(answer.contentType) = "text" -> TRUE
      [] OTHER -> FALSE

NoContent(answer) == answer.status = 204
Ok(answer) == answer.status \in 200..299
=============================================================================
