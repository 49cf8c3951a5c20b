----------------------------- MODULE ApiExplorer -----------------------------
(***************************************************************************)
(* The interactive API explorer of the documentation page (docs/js/api.js)   *)
(* on top of the coreapi client.  The page has a form for each link of the   *)
(* schema; to submit one makes a client and calls its action().  The         *)
(* callbacks write into the response panel of the form while others, of the  *)
(* same form too, are under way.  The page and window.schema are made from   *)
(* the same document.                                                       *)
(***************************************************************************)
EXTENDS CoreApiClient

CONSTANTS
    Documents,       \* the schema documents of the server
    Texts,           \* Texts[type]: what the user may leave in an input of this type: see Reading
    Unchecked,       \* an input that is an unchecked box
    Authentications, \* what the user may select: "none", "token", "basic", "session"
    Cookies          \* values of the CSRF cookie

ASSUME CallsAssumption == Calls \subseteq Nat /\ Absent \notin Calls /\ Absent \notin Answers
ASSUME AuthenticationsAssumption == "none" \in Authentications

\* Absent is no value that the code computes.
ASSUME AbsentAssumption ==
    /\ Absent \notin {"", "path", "query", "form", "body", "false", "application/json"}
    /\ \A d \in Documents : \A p \in DOMAIN d : DecodeLink(d[p]) # Absent

\* The template makes an input of a type that it knows for each field.
ASSUME DocumentsAssumption ==
    \A d \in Documents : \A p \in DOMAIN d :
        /\ p \in Seq(Seq(STRING)) /\ p # <<>>
        /\ d[p].fields \in Seq([name : STRING, location : STRING \cup {Absent},
                                type : DOMAIN Texts, required : BOOLEAN])

\* Only a box can be unchecked.  JSON may be blank; a word, a number or a truth value is not.
ASSUME TextsAssumption ==
    \A type \in DOMAIN Texts : \A text \in Texts[type] :
        IF text = Unchecked THEN type = "boolean"
        ELSE \A t \in DOMAIN text \ {"array", "object"} : text[t] \notin Blank

VARIABLES
    document,         \* the schema document the page was made from; it does not change
    panel,            \* the response panel of each form
    responseDisplay,  \* "data" or "raw", one for the page
    authentication,   \* the type of window.auth
    cookie,           \* the CSRF cookie of the browser
    submission        \* what the user did to make a call: the form, the texts, the cookie then,
                      \* and whether no other call of the form was under way (history)

vars == <<call, document, panel, responseDisplay, authentication, cookie, submission>>

(***************************************************************************)
(* The page.  A form is the path of its link.                               *)
(***************************************************************************)
\* The template shows the links of the root only if the document has sections.
Forms(doc) == IF \E p \in DOMAIN doc : Len(p) > 1 THEN DOMAIN doc ELSE {}

\* data-key: the key of the section, "" for a link of the root, and the name of the link in it.
\* A name stands for the keys that " > " joins.
DataKey(form) ==
    IF Len(form) = 1 THEN << <<<<>>>>, form >> ELSE << <<form[1]>>, Tail(form) >>

\* Mutant of normalizeKeys: the name of a link in a subsection is taken for its key.
normalizeKeysNested(names) == <<names[1][1], names[2][1]>>

\* Each name is split at " > ".
normalizeKeys(names) == FlattenSeq(names)

\* An input for each name among the fields, of the data type of the last field so named.
TypeOf(fields, name) ==
    fields[Max({i \in DOMAIN fields : fields[i].name = name})].type

Inputs(doc, form) ==
    LET fields == doc[form].fields
    IN {texts \in [Names(fields) -> UNION {Texts[t] : t \in DOMAIN Texts}] :
            \A n \in Names(fields) : texts[n] \in Texts[TypeOf(fields, n)]}

(***************************************************************************)
(* What the schema generator says of its documents, unless a view says       *)
(* otherwise.                                                               *)
(***************************************************************************)
\* At the root the client shortens every key that ends in __type or __meta, and the encoder escapes
\* those of nothing but underscores before the word: the others lose an underscore.  Below the root
\* what is escaped stays so.
NamesReturn(doc) ==
    \A p \in DOMAIN doc :
        /\ \A r \in Reserved :
               Len(p) > 1 /\ IsSuffix(<<"_">> \o r, p[1]) => OnlyUnderscores(p[1])
        /\ \A i \in 2..Len(p) : EscapeKey(p[i]) = p[i]

\* The key of a root link is that of a link in a section without a name.
SectionsAreNamed(doc) == \A p \in DOMAIN doc : Len(p) > 1 => p[1] # <<>>

\* The URLs are relative or of HTTP.
SchemesAreKnown(doc) ==
    /\ PageScheme \in {"http", "https"}
    /\ \A p \in DOMAIN doc : doc[p].scheme \in {"http", "https", Absent}

\* The variables of a path are its fields, which are required.
PathsAreFields(doc) ==
    \A p \in DOMAIN doc :
        LET inPath == {i \in DOMAIN doc[p].fields : doc[p].fields[i].location = "path"}
        IN /\ doc[p].variables = {doc[p].fields[i].name : i \in inPath}
           /\ \A i \in inPath : doc[p].fields[i].required

\* Only a list has a field that is the whole body.
OneBody(doc) ==
    \A p \in DOMAIN doc : \A i, j \in DOMAIN doc[p].fields :
        doc[p].fields[i].location = "body" /\ doc[p].fields[j].location = "body"
        => doc[p].fields[i].name = doc[p].fields[j].name

(***************************************************************************)
(* The parameters of a submission.  A text is what its reading as each data  *)
(* type gives, Absent where that is empty, NaN or malformed: an integer      *)
(* ends at the first character that is not a digit.                          *)
(***************************************************************************)
\* Mutant of Reading: an empty string is a value.
ReadingOfEmpty(type, text) ==
    IF type = "string" /\ text[type] = Absent THEN ""
    ELSE IF type \in DOMAIN text THEN text[type] ELSE Absent

\* A data type that the page does not know has no reading.
Reading(type, text) == IF type \in DOMAIN text THEN text[type] ELSE Absent

\* Mutant of Params: an unchecked box has no parameter.
ParamsWithoutBoxes(fields, texts) ==
    LET given == {n \in Names(fields) : /\ texts[n] # Unchecked
                                        /\ Reading(TypeOf(fields, n), texts[n]) # Absent}
    IN [n \in given |-> Reading(TypeOf(fields, n), texts[n])]

\* Entries without a reading are dropped; a box without a parameter is false.
Params(fields, texts) ==
    LET given == {n \in Names(fields) : /\ texts[n] # Unchecked
                                        /\ Reading(TypeOf(fields, n), texts[n]) # Absent}
        boxes == {n \in Names(fields) : TypeOf(fields, n) = "boolean"}
    IN [n \in given \cup boxes |->
            IF n \in given THEN Reading(TypeOf(fields, n), texts[n]) ELSE "false"]

\* Mutant of Credentials: the session does not know the CSRF cookie.
CredentialsWithoutCookie(type, csrfCookie) ==
    CASE type = "token" -> TokenAuthentication("", "token")
      [] type = "basic" -> BasicAuthentication("user")
      [] type = "session" -> SessionAuthentication(Absent)
      [] OTHER -> NoAuthentication

\* Each submission makes the credentials anew: a session reads the cookie there and then.
Credentials(type, csrfCookie) ==
    CASE type = "token" -> TokenAuthentication("", "token")
      [] type = "basic" -> BasicAuthentication("user")
      [] type = "session" -> SessionAuthentication(csrfCookie)
      [] OTHER -> NoAuthentication

(***************************************************************************)
(* The response panel of a form: the calls whose request, answer and data    *)
(* it displays, which of the two displays is shown, and which button of its  *)
(* Data/Raw control is pressed.                                             *)
(***************************************************************************)
NewPanel == [line |-> Absent, answer |-> Absent, data |-> Absent,
             shown |-> "awaiting", pressed |-> "data"]

\* Mutant of requestCallback: the display is filled in once.
requestCallbackOnce(p, c) == [p EXCEPT !.line = IF @ = Absent THEN c ELSE @]

\* The "GET /foo/" display.
requestCallback(p, c) == [p EXCEPT !.line = c]

\* Mutant of responseCallback: it writes nothing.
responseCallbackMissing(p, c) == p

\* The "200 OK" display and the raw response; the Data/Raw control appears.
responseCallback(p, c) == [p EXCEPT !.answer = c]

\* Mutant of Display: the data is shown, whatever the control says.
DisplayData(p, c) == [p EXCEPT !.data = c, !.shown = "data"]

\* The promise settled, either way: the data of the outcome, and the display that is selected.
Display(p, c) == [p EXCEPT !.data = c, !.shown = responseDisplay]

\* What of a panel is visible.  The request line is hidden together with the status until there is
\* a status; of the data and the raw answer the one is visible that is selected.
Visible(p) ==
    [line |-> IF p.answer = Absent THEN Absent ELSE p.line,
     status |-> p.answer,
     content |-> CASE p.shown = "data" -> p.data
                   [] p.shown = "raw" -> p.answer
                   [] OTHER -> Absent]

(***************************************************************************)
(* Actions.                                                                 *)
(***************************************************************************)
InFlight(form) == {c \in Calls : call[c].phase \in Pending /\ submission[c].form = form}

Init ==
    /\ ClientInit
    /\ document \in Documents
    /\ panel = [f \in Forms(document) |-> NewPanel]
    /\ responseDisplay = "data"
    /\ authentication = "none"
    /\ cookie \in Cookies
    /\ submission = [c \in Calls |-> Absent]

\* What action() throws leaves the panel as it is.  Calls are made in their order.
Submit(form, c) ==
    /\ \A d \in Calls : d < c => call[d].phase # "unused"
    /\ call[c].phase = "unused"
    /\ \E texts \in Inputs(document, form) :
        /\ action(c, primitiveToNode(Encode(document)), normalizeKeys(DataKey(form)),
                  Params(document[form].fields, texts), Credentials(authentication, cookie))
        /\ submission' = [submission EXCEPT ![c] =
               [form |-> form, texts |-> texts, cookie |-> cookie, alone |-> InFlight(form) = {}]]
    /\ IF call'[c].phase = "sent"
       THEN panel' = [panel EXCEPT ![form] = requestCallback(@, c)]
       ELSE UNCHANGED panel
    /\ UNCHANGED <<document, responseDisplay, authentication, cookie>>

Settle(c) == panel' = [panel EXCEPT ![submission[c].form] = Display(@, c)]

Answer(c) ==
    /\ \E a \in Answers : Answered(c, a)
    /\ IF call'[c].phase = "resolved" THEN Settle(c) ELSE UNCHANGED panel
    /\ UNCHANGED <<document, responseDisplay, authentication, cookie, submission>>

Read(c) ==
    /\ parseResponse(c)
    /\ panel' = [panel EXCEPT ![submission[c].form] = Display(responseCallback(@, c), c)]
    /\ UNCHANGED <<document, responseDisplay, authentication, cookie, submission>>

\* Mutant of Fail: only what resolves is displayed.
FailUnseen(c) ==
    /\ Failed(c)
    /\ UNCHANGED <<document, panel, responseDisplay, authentication, cookie, submission>>

Fail(c) ==
    /\ Failed(c)
    /\ Settle(c)
    /\ UNCHANGED <<document, responseDisplay, authentication, cookie, submission>>

\* A button of the Data/Raw control.
Toggle(form, display) ==
    /\ panel[form].answer # Absent
    /\ responseDisplay' = display
    /\ panel' = [panel EXCEPT ![form].shown = display, ![form].pressed = display]
    /\ UNCHANGED <<call, document, authentication, cookie, submission>>

Authenticate(type) ==
    /\ authentication' = type
    /\ UNCHANGED <<call, document, panel, responseDisplay, cookie, submission>>

\* Another tab logs in (external): Django rotates the CSRF token.
Rotate ==
    /\ cookie' \in Cookies \ {cookie}
    /\ UNCHANGED <<call, document, panel, responseDisplay, authentication, submission>>

Next ==
    \/ \E f \in Forms(document), c \in Calls : Submit(f, c)
    \/ \E c \in Calls : Answer(c) \/ Read(c) \/ Fail(c)
    \/ \E f \in Forms(document), d \in {"data", "raw"} : Toggle(f, d)
    \/ \E type \in Authentications : Authenticate(type)
    \/ Rotate

\* The browser ends every fetch: with an answer, an error or a timeout.
Spec == Init /\ [][Next]_vars /\ \A c \in Calls : WF_vars(Answer(c) \/ Read(c) \/ Fail(c))

(***************************************************************************)
(* Properties.                                                              *)
(***************************************************************************)
Sent(form) == {c \in Calls : /\ call[c].phase \in Pending \cup Settled
                             /\ submission[c].form = form}

PanelTypeOK(p) ==
    /\ DOMAIN p = DOMAIN NewPanel
    /\ {p.line, p.answer, p.data} \subseteq Calls \cup {Absent}
    /\ p.shown \in {"awaiting", "data", "raw"}
    /\ p.pressed \in {"data", "raw"}

TypeOK ==
    /\ ClientTypeOK
    /\ document \in Documents
    /\ DOMAIN panel = Forms(document)
    /\ \A f \in Forms(document) : PanelTypeOK(panel[f])
    /\ responseDisplay \in {"data", "raw"}
    /\ authentication \in Authentications
    /\ cookie \in Cookies
    /\ DOMAIN submission = Calls
    /\ \A c \in Calls : call[c].phase # "unused" => submission[c].form \in Forms(document)

\* However the answers to the calls of a form overtake each other, the decoded data of an answer
\* stands beside the status and the raw text of that answer.
OneExchange ==
    \A f \in Forms(document) :
        LET p == panel[f]
        IN p.data # Absent /\ call[p.data].heard # Absent => p.answer = p.data

\* The calls of a form whose answers came as far as the response callback.
Heard(form) == {c \in Sent(form) : call[c].heard # Absent}

\* What a user sees who sends a form while none of its calls is under way, and waits.  If the answer
\* had a text: the request line, the status and the content of that call and of no other.  If it had
\* none or was lost: its outcome in the data display, and its request line beside the status and
\* under the raw answer of an earlier call; before any answer to the form, neither line nor status.
\* The calls of other forms do not disturb it.
SeenWhenAlone ==
    \A f \in Forms(document), c \in Calls :
        (/\ c \in Sent(f) /\ \A d \in Sent(f) : d <= c
         /\ submission[c].alone /\ call[c].phase \in Settled)
        => LET seen == Visible(panel[f])
           IN  CASE c \in Heard(f) -> seen = [line |-> c, status |-> c, content |-> c]
                 [] Heard(f) = {} ->
                        seen = [line |-> Absent, status |-> Absent,
                                content |-> IF panel[f].shown = "data" THEN c ELSE Absent]
                 [] OTHER ->
                        \E d \in Heard(f) :
                            seen = [line |-> c, status |-> d,
                                    content |-> IF panel[f].shown = "data" THEN c ELSE d]

\* The call of a session whose method is not safe carries the CSRF token that its cookie had
\* when it was sent, although the cookie may change while the page is open.
SessionCallsPassCsrf ==
    \A c \in Calls :
        LET request == call[c].request
        IN (/\ request # Absent /\ request.credentials.cookies = "same-origin"
            /\ ~csrfSafeMethod(request.method))
           => request.credentials.csrfToken = submission[c].cookie

\* While the control of no other form is used, the answers of a form come to the display that
\* its own control says.
AnswersKeepTheDisplay ==
    [][\A f \in Forms(document) :
           (panel[f].pressed = responseDisplay /\ panel'[f].data # panel[f].data)
           => panel'[f].shown = panel'[f].pressed]_vars

\* Each call that is sent settles, and its panel no longer awaits it.
EveryCallIsDisplayed ==
    \A c \in Calls :
        call[c].phase = "sent"
        ~> call[c].phase \in Settled /\ panel[submission[c].form].shown # "awaiting"

\* The client under the explorer keeps the promises of ApiCalls.
KeepsPromises == Promise!Spec

\* The form of a link in a section makes a call of that link, unless a required input has no
\* reading, or a form field stands behind a body whose value is neither a list nor an object: the
\* names that the template joins, the encoder escapes and the client unescapes and splits lead back
\* to the link the form was made from.
FormsFindTheirLinks ==
    \A c \in Calls :
        (call[c].phase # "unused" /\ Len(submission[c].form) > 1) =>
            LET link == document[submission[c].form]
                params == Params(link.fields, submission[c].texts)
                Given(i, place) == /\ link.fields[i].location = place
                                   /\ link.fields[i].name \in DOMAIN params
            IN IF call[c].phase = "thrown"
               THEN \/ \E i \in DOMAIN link.fields :
                           link.fields[i].required /\ link.fields[i].name \notin DOMAIN params
                    \/ \E i, j \in DOMAIN link.fields :
                           /\ j < i /\ Given(i, "form") /\ Given(j, "body")
                           /\ params[link.fields[j].name] \notin Lists \cup Objects
               ELSE /\ call[c].request.method = (IF link.action = Absent THEN "GET" ELSE link.action)
                    /\ DOMAIN call[c].request.path = link.variables

\* A request goes to a path with an empty segment, which is another resource, only if its user typed
\* blank JSON (null, "", [] or {}) for that variable: the variables of a path are required fields, and
\* an input that is empty or malformed gives no parameter.  A variable has an input for JSON where a
\* later field of its name is a list or an object, or where the view says that it is one itself.
PathIsComplete ==
    \A c \in Calls :
        LET request == call[c].request
            texts == submission[c].texts
        IN request # Absent =>
            \A v \in DOMAIN request.path :
                LET type == TypeOf(document[submission[c].form].fields, v)
                IN request.path[v] = ""
                   => type \in {"array", "object"} /\ Reading(type, texts[v]) \in Blank

\* What the user typed into the input of a name.
Typed(fields, texts, n) ==
    IF TypeOf(fields, n) = "boolean" /\ texts[n] = Unchecked
    THEN "false" ELSE Reading(TypeOf(fields, n), texts[n])

\* What the user typed is sent as its field's type reads it, at the place its field has, and a
\* box that is not checked as false; fields of one name share an input.  Blank JSON leaves nothing
\* in a path.  What has a body has its media type.  A body field is the whole body: form fields in
\* front of it are not sent, those behind it are if it is an object.  Header fields are not sent.
SentAsTyped ==
    \A c \in Calls :
        LET request == call[c].request
            fields == document[submission[c].form].fields
        IN request # Absent =>
            \A i \in DOMAIN fields :
                LET n == fields[i].name
                    place == fields[i].location
                    typed == Typed(fields, submission[c].texts, n)
                    In(params) == n \in DOMAIN params /\ params[n] = typed
                IN typed # Absent =>
                    /\ place = "path" =>
                           /\ n \in DOMAIN request.path
                           /\ request.path[n] = IF typed \in Blank THEN "" ELSE typed
                    /\ place = "query" => In(request.query)
                    /\ place \in {"form", "body"} =>
                           /\ request.contentType = "application/json"
                           /\ place = "body" => request.body.whole = typed
                           /\ place = "form"
                              /\ \/ request.body.whole = Absent
                                 \/ /\ request.body.whole \in Objects
                                    /\ \A j \in DOMAIN fields : fields[j].location = "body" => j < i
                              => In(request.body.parts)
=============================================================================
