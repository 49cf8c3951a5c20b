------------------------------ MODULE AjaxForm ------------------------------
(***************************************************************************)
(* The forms of the browsable API in the browser: js/ajax-form.js, csrf.js   *)
(* and default.js.  A submission is left to the browser, which navigates, or *)
(* made by XMLHttpRequest; then the answer, if it is HTML, replaces the      *)
(* document, and otherwise the page is loaded again.  The user may submit    *)
(* more, choose a tab, or load the page again, while requests are under way; *)
(* another tab may log in, which rotates the CSRF token.                     *)
(*                                                                         *)
(* The forms of a page and what they say are its template's.  Their action   *)
(* is the path of the page, which is of the same origin.  The session of the *)
(* user is authenticated by SessionAuthentication, which checks the token.   *)
(***************************************************************************)
EXTENDS Naturals, Sequences

CONSTANTS
    Forms,         \* the forms of the page: see FormTypeOK
    Tabs,          \* Tabs[g]: the names of the tabs of the g-th form switcher
    Calls,         \* submissions
    MaxRotations,  \* bound on the rotations of the CSRF token
    Absent

Safe == {"GET", "HEAD", "OPTIONS", "TRACE"}

\* method, data-method; those of the buttons; the content types to override with, none of them
\* if there is no such input; enctype; whether it has a hidden CSRF token; the switcher and the
\* tab it is under; whether a 403 leaves it out; the method whose invalid data it corrects.
FormTypeOK(form) ==
    DOMAIN form = {"method", "dataMethod", "buttons", "overrides", "enctype", "token",
                   "switcher", "tab", "edit", "corrects"}

ASSUME CallsAssumption == Calls \subseteq Nat \ {0}
ASSUME MaxRotationsAssumption == MaxRotations \in Nat
ASSUME AbsentAssumption == Absent \notin [call : Nat, cookie : Nat]
ASSUME FormsAssumption == \A f \in Forms : FormTypeOK(f) /\ f.buttons # {}

VARIABLES
    page,     \* the document: the call it answers, 0 for a GET; the cookie of that request
              \* (history) and csrftoken; whether it has edit forms; the method whose data
              \* was invalid; the open tabs; the calls made before it (history)
    nav,      \* the navigation under way: its call, 0 for a GET, and the cookie sent with it
    phase,    \* phase[c]: "unused", "sent", "native", "done" or "dropped"
    request,  \* request[c]: what c sent, and (history) how it came about
    cookie,   \* the CSRF cookie of the browser: the number of the token
    tabstyle  \* the cookie of the chosen tab

vars == <<page, nav, phase, request, cookie, tabstyle>>

(***************************************************************************)
(* A submission.                                                            *)
(***************************************************************************)
\* The operator ||.
OrElse(a, b) == IF a # Absent THEN a ELSE b

\* Mutant of methodOf: the button that was clicked is not captured.
methodOfForm(form, button) == OrElse(form.dataMethod, OrElse(form.method, "GET"))

\* The method of the button, or else that of the form's data, or else that of the form itself.
methodOf(form, button) == OrElse(button, OrElse(form.dataMethod, OrElse(form.method, "GET")))

\* GET, and POST without an overriding content type, are left to the browser.
Standard(form, button, override) ==
    methodOf(form, button) = "GET" \/ (methodOf(form, button) = "POST" /\ override = Absent)

csrfSafeMethod(method) == method \in Safe

Overrides(form) == IF form.overrides = {} THEN {Absent} ELSE form.overrides

\* The templates put the token into the forms that the browser may send with a method that is
\* not safe.
ASSUME TokensAssumption ==
    \A f \in Forms : \A b \in f.buttons, o \in Overrides(f) :
        Standard(f, b, o) => f.token \/ f.method = Absent \/ csrfSafeMethod(f.method)

\* base.html says the method of what is left to the browser in the attribute that the browser
\* reads, and gives a form that is a GET no overriding content.
MethodsAreAttributes ==
    \A f \in Forms : \A b \in f.buttons, o \in Overrides(f) :
        Standard(f, b, o) => o = Absent /\ methodOf(f, b) = OrElse(f.method, "GET")

\* What the browser sends (external): it knows the form's method only, and the hidden token.
StandardRequest(form) ==
    [method |-> OrElse(form.method, "GET"),
     content |-> "fields", type |-> form.enctype,
     token |-> IF form.token THEN page.token ELSE Absent]

\* Mutant of AjaxRequest: the content of an override is that of the fields.
AjaxRequestOfFields(form, button, override) ==
    [method |-> methodOf(form, button), content |-> "fields", type |-> form.enctype,
     token |-> IF csrfSafeMethod(methodOf(form, button)) THEN Absent ELSE page.token]

\* An overriding content type comes with the content of its text area, otherwise the fields are
\* sent; beforeSend adds csrftoken to a method that is not safe.
AjaxRequest(form, button, override) ==
    [method |-> methodOf(form, button),
     content |-> IF override # Absent THEN "override" ELSE "fields",
     type |-> IF override # Absent THEN override ELSE form.enctype,
     token |-> IF csrfSafeMethod(methodOf(form, button)) THEN Absent ELSE page.token]

(***************************************************************************)
(* The server: a request without the token of its cookie is refused.        *)
(***************************************************************************)
Refused(r) == ~csrfSafeMethod(r.method) /\ r.token # r.cookie

(***************************************************************************)
(* Documents.                                                               *)
(***************************************************************************)
Switchers == DOMAIN Tabs

\* Mutant of OpenTabs: the choice of a tab is not stored.
OpenTabsFirst == [g \in Switchers |-> IF g = 1 THEN Tabs[1][1] ELSE Absent]

\* The chosen tab in every switcher, the first tab of the page if none of them has it.
OpenTabs ==
    LET Has(g) == \E i \in DOMAIN Tabs[g] : Tabs[g][i] = tabstyle
    IN IF \E g \in Switchers : Has(g)
       THEN [g \in Switchers |-> IF Has(g) THEN tabstyle ELSE Absent]
       ELSE [g \in Switchers |-> IF g = 1 THEN Tabs[1][1] ELSE Absent]

Made == {c \in Calls : phase[c] # "unused"}

\* Whether the server may find the data of call c invalid; it matters to forms that correct it.
MayBeInvalid(c) ==
    IF c # 0 /\ ~Refused(request[c]) /\ \E f \in Forms : f.corrects = request[c].method
    THEN BOOLEAN ELSE {FALSE}

\* The document that answers call c, or a GET if c = 0, sent with this cookie: its scripts run.
Document(c, sentCookie, invalid) ==
    [answers |-> c, cookie |-> sentCookie, token |-> sentCookie,
     edit |-> c = 0 \/ ~Refused(request[c]),
     invalid |-> IF invalid THEN request[c].method ELSE Absent,
     tabs |-> OpenTabs, before |-> Made]

\* Mutant of replaceDocument: csrftoken stays what it was.
replaceDocumentKeepToken(c, invalid) ==
    page' = [Document(c, request[c].cookie, invalid) EXCEPT !.token = page.token]

\* Mutant of replaceDocument: the scripts of the new document do not run.
replaceDocumentWithoutScripts(c, invalid) ==
    page' = [Document(c, request[c].cookie, invalid) EXCEPT !.token = Absent]

replaceDocument(c, invalid) == page' = Document(c, request[c].cookie, invalid)

\* The phases of the calls when those in cancelled end without an answer.
Dropping(cancelled) == [c \in Calls |-> IF c \in cancelled THEN "dropped" ELSE phase[c]]
NavCall == IF nav = Absent THEN {} ELSE {nav.call} \cap Calls
Reloading == [call |-> 0, cookie |-> cookie]

(***************************************************************************)
(* Actions.                                                                 *)
(***************************************************************************)
UnderWay == {c \in Calls : phase[c] \in {"sent", "native"}}

Init ==
    /\ cookie = 1
    /\ tabstyle = Absent
    /\ phase = [c \in Calls |-> "unused"]
    /\ request = [c \in Calls |-> Absent]
    /\ nav = Absent
    /\ page = Document(0, cookie, FALSE)

Displayed(form) ==
    /\ form.edit => page.edit
    /\ form.corrects # Absent => page.invalid = form.corrects
    /\ form.switcher # Absent => page.tabs[form.switcher] = form.tab

\* A button of a form is clicked.  Calls are made in their order.
Submit(form, button, override, c) ==
    /\ Displayed(form)
    /\ phase[c] = "unused" /\ \A d \in Calls : d < c => phase[d] # "unused"
    /\ LET standard == Standard(form, button, override)
           sent == IF standard THEN StandardRequest(form) ELSE AjaxRequest(form, button, override)
       IN /\ request' = [request EXCEPT ![c] =
                 [method |-> sent.method, content |-> sent.content, type |-> sent.type,
                  token |-> sent.token, cookie |-> cookie, form |-> form, button |-> button,
                  override |-> override, since |-> page.cookie,
                  alone |-> UnderWay = {} /\ nav = Absent]]
          /\ IF standard
             THEN /\ nav' = [call |-> c, cookie |-> cookie]
                  /\ phase' = [Dropping(NavCall) EXCEPT ![c] = "native"]
             ELSE /\ phase' = [phase EXCEPT ![c] = "sent"]
                  /\ UNCHANGED nav
    /\ UNCHANGED <<page, cookie, tabstyle>>

\* The answer is HTML.  To open the document cancels a navigation (external), with which the
\* browser may end the other requests of the document.
Replace(c) ==
    /\ phase[c] = "sent"
    /\ \E invalid \in MayBeInvalid(c) : replaceDocument(c, invalid)
    /\ \E ended \in SUBSET (UnderWay \ ({c} \cup NavCall)) :
        /\ nav = Absent => ended = {}
        /\ phase' = [Dropping(NavCall \cup ended) EXCEPT ![c] = "done"]
    /\ nav' = Absent
    /\ UNCHANGED <<request, cookie, tabstyle>>

\* Mutant of Redirect: an answer that is not HTML is ignored.
RedirectNothing(c) ==
    /\ phase[c] = "sent"
    /\ phase' = [phase EXCEPT ![c] = "done"]
    /\ UNCHANGED <<page, nav, request, cookie, tabstyle>>

\* The answer is not HTML, or there is none.
Redirect(c) ==
    /\ phase[c] = "sent"
    /\ phase' = [Dropping(NavCall) EXCEPT ![c] = "done"]
    /\ nav' = Reloading
    /\ UNCHANGED <<page, request, cookie, tabstyle>>

\* The navigation ends in a new document; the requests of the old one are ended (external).
Load ==
    /\ nav # Absent
    /\ \E invalid \in MayBeInvalid(nav.call) : page' = Document(nav.call, nav.cookie, invalid)
    /\ phase' = [c \in Calls |-> CASE phase[c] = "sent" -> "dropped"
                                   [] c = nav.call -> "done"
                                   [] OTHER -> phase[c]]
    /\ nav' = Absent
    /\ UNCHANGED <<request, cookie, tabstyle>>

\* The GET button of the page, or the browser's own.
Reload ==
    /\ nav' = Reloading
    /\ phase' = Dropping(NavCall)
    /\ UNCHANGED <<page, request, cookie, tabstyle>>

ClickTab(g, tab) ==
    /\ page' = [page EXCEPT !.tabs[g] = tab]
    /\ tabstyle' = tab
    /\ UNCHANGED <<nav, phase, request, cookie>>

\* Another tab of the browser logs in (external).
Rotate ==
    /\ cookie <= MaxRotations
    /\ cookie' = cookie + 1
    /\ UNCHANGED <<page, nav, phase, request, tabstyle>>

Next ==
    \/ \E f \in Forms, c \in Calls :
           \E b \in f.buttons, o \in Overrides(f) : Submit(f, b, o, c)
    \/ \E c \in Calls : Replace(c) \/ Redirect(c)
    \/ Load
    \/ Reload
    \/ \E g \in Switchers : \E i \in DOMAIN Tabs[g] : ClickTab(g, Tabs[g][i])
    \/ Rotate

\* The browser ends every request and every navigation.
Spec ==
    /\ Init /\ [][Next]_vars
    /\ WF_vars(Load)
    /\ \A c \in Calls : WF_vars(Replace(c) \/ Redirect(c))

(***************************************************************************)
(* Properties.                                                              *)
(***************************************************************************)
TypeOK ==
    /\ cookie \in 1..(MaxRotations + 1)
    /\ phase \in [Calls -> {"unused", "sent", "native", "done", "dropped"}]
    /\ DOMAIN request = Calls
    /\ \A c \in Made : request[c].cookie \in 1..cookie
    /\ nav # Absent => nav.call \in {0} \cup Calls /\ nav.cookie \in 1..cookie
    /\ page.answers \in {0} \cup Calls
    /\ {page.cookie, page.token} \subseteq 1..cookie
    /\ page.before \subseteq Made
    /\ \A c \in Calls : phase[c] = "native" <=> nav # Absent /\ nav.call = c

\* Whoever sends the request, the library or the browser, its method is what the clicked button
\* or else the form asks for with data-method, or else with method.
MethodAsAsked ==
    \A c \in Made :
        LET form == request[c].form
        IN IF request[c].button # Absent THEN request[c].method = request[c].button
           ELSE IF form.dataMethod # Absent THEN request[c].method = form.dataMethod
           ELSE form.method # Absent => request[c].method = form.method

\* The method is the one asked for, and a content that overrides the fields is never lost on the
\* way: it is sent instead of them, with its type.
SentAsAsked ==
    /\ MethodAsAsked
    /\ \A c \in Made :
        request[c].override # Absent
        => request[c].content = "override" /\ request[c].type = request[c].override

\* A request is refused only if the CSRF token was rotated after the request that its document
\* answers: whatever answered it, and a refusal too, the next submission passes.
RefusedOnlyIfRotated ==
    \A c \in Made : Refused(request[c]) => request[c].since # request[c].cookie

\* A user who submits a form while nothing is under way, and submits nothing else, sees the answer
\* to it, or the page as it is after it.
SeenWhenAlone ==
    \A c \in Made :
        (/\ request[c].alone /\ \A d \in Made : d <= c
         /\ phase[c] \in {"done", "dropped"} /\ nav = Absent)
        => page.answers = c \/ (page.answers = 0 /\ c \in page.before)

\* With a document comes the tab that the user chose last, in whichever document that was.
TabIsKept ==
    [][(page'.before # page.before /\ tabstyle # Absent)
       => \A g \in Switchers : page'.tabs[g] \in {tabstyle, Absent}]_vars

\* Each submission is followed by a new document.
EachSubmissionIsFollowed ==
    \A c \in Calls : phase[c] \in {"sent", "native"} ~> c \in page.before
=============================================================================
