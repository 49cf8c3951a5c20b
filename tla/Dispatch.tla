------------------------------ MODULE Dispatch ------------------------------
(***************************************************************************)
(* APIView.dispatch (rest_framework/views.py): one request on its way       *)
(* through content negotiation, versioning, authentication, permissions,    *)
(* throttles and its handler, the exception handler with the rollback of    *)
(* ATOMIC_REQUESTS, finalize_response, and the rendering that Django starts *)
(* once the transaction has ended.  The browsable API checks the            *)
(* permissions of every form it might show, each on a clone of the request; *)
(* what a read of user or auth does is RequestAuth's.                       *)
(*                                                                         *)
(* The handler is any: it may look up an object, write, log a user in or    *)
(* out, and then return or raise.  Throttling is its own module: here a     *)
(* request may be throttled.                                                *)
(***************************************************************************)
EXTENDS RequestAuth

CONSTANTS
    Renderers,          \* the view's renderer classes, in order
    Allowed,            \* the methods the view has a handler for
    PermissionChoices,  \* the sets of permission classes it may have
    Required,           \* perms_map: the model permissions each method requires
    Grants,             \* the permissions a user may have been granted
    Versioned           \* whether the view has a versioning class

Safe == {"GET", "HEAD", "OPTIONS"}
Methods == Safe \cup {"POST", "PUT", "PATCH", "DELETE"}
PermissionClasses == {"AllowAny", "IsAuthenticated", "IsAuthenticatedOrReadOnly",
                      "DjangoObjectPermissions"}

\* What BrowsableAPIRenderer.get_context evaluates, in order: the raw data forms, the
\* user, the HTML forms.
Rendering == <<"POST", "PUT", "PATCH", "user", "PUT", "POST", "DELETE", "OPTIONS">>

\* "APIException" stands for one of the application's own, here with 401 for its status.
APIExceptions ==
    {"NotAcceptable", "NotFound", "AuthenticationFailed", "NotAuthenticated", "PermissionDenied",
     "MethodNotAllowed", "Throttled", "ValidationError", "APIException"}
Exceptions == APIExceptions \cup {"Http404", "DjangoPermissionDenied", "Error"}

ASSUME DispatchAssumption ==
    /\ Renderers \in Seq({"json", "api"}) /\ Renderers # <<>> /\ None \notin Nat \cup Exceptions
    /\ Allowed \subseteq Methods
    /\ PermissionChoices \subseteq SUBSET PermissionClasses
    /\ Required \in [Methods -> SUBSET Grants]
    /\ Versioned \in BOOLEAN
    /\ original = 0 /\ Requests = 0..Len(Rendering)

VARIABLES
    pc,         \* what dispatch, or Django after it, does next
    permissions, \* the permission classes of the view
    lazy,       \* its perform_authentication is overridden with pass
    method,     \* the method of the request
    globally,   \* the permissions its user has on the model
    granted,    \* the permissions its user has on the object
    atomic,     \* the view runs in the transaction of ATOMIC_REQUESTS
    exc,        \* the exception last raised
    accepted,   \* request.accepted_renderer: its number, or None
    response,   \* the response so far, and whether its status is the handler's own choice: it
                \* raised the exception, or returned the status (history)
    instance,   \* the response data has a serializer with an instance
    rollback,   \* the transaction is marked for rollback
    written,    \* the handler wrote to the database
    committed,  \* what it wrote is there to stay
    form        \* the form the browsable API is at

view == <<pc, exc, accepted, response, instance, form>>
db == <<rollback, written, committed>>
given == <<permissions, lazy, method, globally, granted, atomic>>
vars == <<authVars, view, db, given>>

\* The status codes of the exceptions exception_handler turns into a response.
StatusOf(e) ==
    CASE e \in {"NotFound", "Http404"} -> 404
      [] e \in {"AuthenticationFailed", "NotAuthenticated", "APIException"} -> 401
      [] e \in {"PermissionDenied", "DjangoPermissionDenied"} -> 403
      [] e = "NotAcceptable" -> 406
      [] e = "MethodNotAllowed" -> 405
      [] e = "Throttled" -> 429
      [] e = "ValidationError" -> 400

\* Django's answer to an exception that nobody handled.
DjangoStatusOf(e) ==
    CASE e = "Http404" -> 404 [] e = "DjangoPermissionDenied" -> 403 [] OTHER -> 500

(***************************************************************************)
(* Permissions.                                                             *)
(***************************************************************************)
\* Whether has_permission of some class reads the user.
ReadsUser(m) ==
    \/ permissions \cap {"IsAuthenticated", "DjangoObjectPermissions"} # {}
    \/ "IsAuthenticatedOrReadOnly" \in permissions /\ m \notin Safe

HasPermission(m, user) ==
    \A class \in permissions :
        CASE class = "AllowAny" -> TRUE
          [] class = "IsAuthenticated" -> user # Anonymous
          [] class = "IsAuthenticatedOrReadOnly" -> m \in Safe \/ user # Anonymous
          [] class = "DjangoObjectPermissions" ->
               user # Anonymous /\ Required[m] \subseteq globally

\* DjangoObjectPermissions.has_object_permission: to a user who may not even read the
\* object, it does not exist.
ObjectPermission(m) ==
    IF "DjangoObjectPermissions" \notin permissions \/ Required[m] \subseteq granted
    THEN "allow"
    ELSE IF m \in Safe \/ ~(Required["GET"] \subseteq granted) THEN "Http404" ELSE "deny"

\* permission_denied: the exception depends on whether an authenticator succeeded.  The classes
\* that deny an object have read the user before.
Denial(r) ==
    IF Chain # <<>> /\ request[r].authenticator = None
    THEN "NotAuthenticated" ELSE "PermissionDenied"

(***************************************************************************)
(* dispatch.                                                                *)
(***************************************************************************)
NoResponse ==
    [status |-> 0, challenge |-> FALSE, raised |-> FALSE, renderer |-> None, own |-> FALSE]

Init ==
    /\ AuthInit
    /\ pc = "negotiate" /\ exc = None /\ accepted = None /\ form = 0
    /\ response = NoResponse /\ instance = FALSE
    /\ rollback = FALSE /\ written = FALSE /\ committed = FALSE
    /\ permissions \in PermissionChoices /\ lazy \in BOOLEAN
    /\ method \in Methods
    /\ globally \in SUBSET Grants /\ granted \in SUBSET Grants
    /\ atomic \in BOOLEAN

\* The request goes on to p.
Goto(p) == pc' = p /\ UNCHANGED <<exc, accepted, response, instance, form>>

\* e is raised inside the try block of dispatch.
Raise(e) == pc' = "handling" /\ exc' = e /\ UNCHANGED <<accepted, response, instance, form>>

\* e leaves dispatch: the transaction is rolled back, and Django answers.
Escape(e) ==
    /\ pc' = "exit" /\ exc' = e
    /\ response' = [NoResponse EXCEPT !.status = DjangoStatusOf(e)]
    /\ rollback' = atomic
    /\ UNCHANGED <<accepted, instance, form, written, committed>>

\* perform_content_negotiation: some renderer, or none fits.
Negotiate ==
    /\ pc = "negotiate"
    /\ \/ \E i \in DOMAIN Renderers :
            /\ accepted' = i
            /\ pc' = "version"
            /\ UNCHANGED <<exc, response, instance, form>>
       \/ \E e \in {"NotAcceptable", "Http404"} : Raise(e)
    /\ UNCHANGED <<authVars, db, given>>

\* determine_version.
DetermineVersion ==
    /\ pc = "version"
    /\ \/ Goto(IF lazy THEN "permissions" ELSE "authenticate")
       \/ Versioned /\ \E e \in {"NotFound", "NotAcceptable"} : Raise(e)
    /\ UNCHANGED <<authVars, db, given>>

\* perform_authentication: request.user.
PerformAuthentication ==
    /\ pc = "authenticate"
    /\ Get(original, "user")
    /\ IF answer'.raised THEN Raise(answer'.exc) ELSE Goto("permissions")
    /\ UNCHANGED <<db, given>>

\* Mutant of CheckPermissions: only an authenticated user's permissions are checked.
CheckPermissionsOfUsers ==
    /\ pc = "permissions"
    /\ IF ReadsUser(method)
       THEN /\ Get(original, "user")
            /\ IF answer'.raised THEN Raise(answer'.exc)
               ELSE IF \/ request'[original].user = Anonymous
                       \/ HasPermission(method, request'[original].user)
               THEN Goto("throttles") ELSE Raise(Denial(original)')
       ELSE Goto("throttles") /\ UNCHANGED authVars
    /\ UNCHANGED <<db, given>>

\* check_permissions.
CheckPermissions ==
    /\ pc = "permissions"
    /\ IF ReadsUser(method)
       THEN /\ Get(original, "user")
            /\ IF answer'.raised THEN Raise(answer'.exc)
               ELSE IF HasPermission(method, request'[original].user)
               THEN Goto("throttles") ELSE Raise(Denial(original)')
       ELSE Goto("throttles") /\ UNCHANGED authVars
    /\ UNCHANGED <<db, given>>

\* check_throttles, and the choice of the handler.
CheckThrottles ==
    /\ pc = "throttles"
    /\ \/ Raise("Throttled")
       \/ IF method \in Allowed THEN Goto("handler") ELSE Raise("MethodNotAllowed")
    /\ UNCHANGED <<authVars, db, given>>

\* The handler writes to the database, in the transaction of the request if it has one.
Write ==
    /\ pc = "handler" /\ ~written
    /\ written' = TRUE
    /\ committed' = ~atomic
    /\ UNCHANGED <<authVars, view, rollback, given>>

\* The handler calls login() or logout().
Login ==
    /\ pc = "handler"
    /\ \E u \in Users \cup {Anonymous} : SetUser(original, u)
    /\ UNCHANGED <<view, db, given>>

\* get_object: get_object_or_404 and check_object_permissions.
GetObject ==
    /\ pc = "handler"
    /\ \/ Raise("Http404")
       \/ CASE ObjectPermission(method) = "allow" -> Goto("handler")
            [] ObjectPermission(method) = "deny" -> Raise(Denial(original))
            [] ObjectPermission(method) = "Http404" -> Raise("Http404")
    /\ UNCHANGED <<authVars, db, given>>

\* The handler itself raises: an APIException, one of Django's, or anything else, whoever the
\* user is.  The data of a ValidationError may be the errors of a serializer, with its instance
\* if it has one; those of the others are not.
HandlerRaises ==
    /\ pc = "handler"
    /\ \E e \in Exceptions :
        /\ exc' = e
        /\ instance' \in {FALSE, e = "ValidationError"}
    /\ response' = [response EXCEPT !.own = TRUE]
    /\ pc' = "handling"
    /\ UNCHANGED <<authVars, accepted, form, db, given>>

\* The handler returns a Response, of any status, perhaps with the data of a serializer that has
\* an instance, or something else: finalize_response asserts that it did not.
HandlerReturns ==
    /\ pc = "handler"
    /\ \/ /\ pc' = "finalize"
          /\ \E status \in {200, 401, 403} :
                response' = [response EXCEPT !.status = status, !.own = TRUE]
          /\ instance' \in {FALSE, method \notin {"DELETE", "OPTIONS"}}
          /\ UNCHANGED <<exc, accepted, form, db>>
       \/ Escape("Error")
    /\ UNCHANGED <<authVars, given>>

\* Mutants of HandleException: the transaction is not marked; a 403 keeps the challenge.
HandleExceptionUnmarked ==
    /\ pc = "handling"
    /\ IF exc = "Error" THEN Escape("Error")
       ELSE /\ response' = [response EXCEPT !.raised = TRUE, !.status = StatusOf(exc)]
            /\ pc' = "finalize"
            /\ UNCHANGED <<exc, accepted, instance, form, rollback, written, committed>>
    /\ UNCHANGED <<authVars, given>>
HandleExceptionUncoerced ==
    /\ pc = "handling"
    /\ IF exc = "Error" THEN Escape("Error")
       ELSE /\ response' = [response EXCEPT !.raised = TRUE, !.status = StatusOf(exc),
                                            !.challenge = Chain # <<>> /\ Chain[1] = "token"]
            /\ rollback' = atomic
            /\ pc' = "finalize"
            /\ UNCHANGED <<exc, accepted, instance, form, written, committed>>
    /\ UNCHANGED <<authVars, given>>

\* handle_exception and exception_handler: of the authentication classes the first one
\* has the say whether there is a WWW-Authenticate header, and a 401 without is a 403.
HandleException ==
    /\ pc = "handling"
    /\ IF exc = "Error" THEN Escape("Error")
       ELSE LET unauthenticated == exc \in {"NotAuthenticated", "AuthenticationFailed"}
                challenge == unauthenticated /\ Chain # <<>> /\ Chain[1] = "token"
            IN  /\ response' = [response EXCEPT
                     !.raised = TRUE,
                     !.challenge = challenge,
                     !.status = IF unauthenticated /\ ~challenge THEN 403 ELSE StatusOf(exc)]
                /\ rollback' = atomic
                /\ pc' = "finalize"
                /\ UNCHANGED <<exc, accepted, instance, form, written, committed>>
    /\ UNCHANGED <<authVars, given>>

\* finalize_response: without an accepted renderer the negotiation is forced.
FinalizeResponse ==
    /\ pc = "finalize"
    /\ accepted' = IF accepted = None THEN 1 ELSE accepted
    /\ response' = [response EXCEPT !.renderer = accepted']
    /\ pc' = "exit"
    /\ UNCHANGED <<authVars, exc, instance, form, db, given>>

\* The request leaves the transaction; Django then renders the response.
Exit ==
    /\ pc = "exit"
    /\ committed' = IF atomic THEN written /\ ~rollback ELSE committed
    /\ IF response.renderer # None /\ Renderers[response.renderer] = "api"
       THEN pc' = "rendering" /\ form' = 1
       ELSE pc' = "done" /\ form' = form
    /\ UNCHANGED <<authVars, exc, accepted, response, instance, rollback, written, given>>

(***************************************************************************)
(* The browsable API, rendered outside the transaction.                     *)
(***************************************************************************)
NextForm == pc' = "rendering" /\ form' = form + 1 /\ UNCHANGED <<exc, accepted, response, instance>>

\* e leaves the renderer: Django answers instead, whatever the response was.
FailRendering(e) ==
    /\ pc' = "done" /\ exc' = e
    /\ response' = [response EXCEPT !.status = DjangoStatusOf(e), !.challenge = FALSE]
    /\ UNCHANGED <<accepted, instance, form>>

\* The last form is rendered.
Deliver ==
    /\ pc = "rendering" /\ form > Len(Rendering)
    /\ Goto("done")
    /\ UNCHANGED <<authVars, db, given>>

\* get_context: 'user': request.user.
RenderUser ==
    /\ pc = "rendering" /\ form \in DOMAIN Rendering /\ Rendering[form] = "user"
    /\ Get(original, "user")
    /\ IF answer'.raised THEN FailRendering(answer'.exc) ELSE NextForm
    /\ UNCHANGED <<db, given>>

\* override_method: the form's view gets a clone of the request.
OverrideMethod ==
    /\ pc = "rendering" /\ form \in DOMAIN Rendering /\ Rendering[form] # "user"
    /\ Clone(original, form)
    /\ Goto("check")
    /\ UNCHANGED <<db, given>>

\* show_form_for_method: an APIException hides the form.  No form is shown for a method
\* without handler; the object is checked if the response has one.
ShowForm ==
    /\ pc = "check"
    /\ LET m == Rendering[form]
           checkObject == IF instance /\ ObjectPermission(m) = "Http404"
                          THEN FailRendering("Http404") ELSE NextForm
       IN  IF m \in Allowed /\ ReadsUser(m)
           THEN /\ Get(form, "user")
                /\ IF answer'.raised
                   THEN IF answer'.exc = "Error" THEN FailRendering("Error") ELSE NextForm
                   ELSE IF HasPermission(m, request'[form].user) THEN checkObject ELSE NextForm
           ELSE NextForm /\ UNCHANGED authVars
    /\ UNCHANGED <<db, given>>

Next ==
    \/ Negotiate \/ DetermineVersion \/ PerformAuthentication \/ CheckPermissions
    \/ CheckThrottles \/ Write \/ Login \/ GetObject \/ HandlerRaises \/ HandlerReturns
    \/ HandleException \/ FinalizeResponse \/ Exit
    \/ Deliver \/ RenderUser \/ OverrideMethod \/ ShowForm
    \/ pc # "done" /\ Revoke /\ UNCHANGED <<view, db, given>>

Spec == Init /\ [][Next]_vars

(***************************************************************************)
(* Type invariant.                                                          *)
(***************************************************************************)
\* Every variable has the shape views.py and request.py give it.
TypeOK ==
    /\ AuthTypeOK
    /\ pc \in {"negotiate", "version", "authenticate", "permissions", "throttles", "handler",
               "handling", "finalize", "exit", "rendering", "check", "done"}
    /\ permissions \in PermissionChoices
    /\ method \in Methods
    /\ globally \subseteq Grants /\ granted \subseteq Grants
    /\ exc \in Exceptions \cup {None}
    /\ accepted \in DOMAIN Renderers \cup {None}
    /\ response \in [status : {0, 200, 400, 401, 403, 404, 405, 406, 429, 500},
                     challenge : BOOLEAN, raised : BOOLEAN, own : BOOLEAN,
                     renderer : DOMAIN Renderers \cup {None}]
    /\ form \in 0..(Len(Rendering) + 1)
    /\ {lazy, atomic, instance, rollback, written, committed} \subseteq BOOLEAN

(***************************************************************************)
(* Safety.                                                                  *)
(***************************************************************************)
Returned == response.renderer # None /\ ~response.raised
Dispatched == pc \in {"rendering", "check", "done"}

\* Under ATOMIC_REQUESTS what a handler wrote is kept exactly if it returned a Response:
\* not if dispatch turned its exception into one, not if an error left dispatch; and
\* nothing that fails while rendering takes it back.
AtomicRequests ==
    Dispatched => (committed <=> written /\ (atomic => Returned))

\* Only a 401 carries a WWW-Authenticate header, and each does whose status the handler did not
\* declare, returning it or in an exception class of its own.  When the refusal is dispatch's and
\* not the handler's own, a 401 never answers a request that some authentication class
\* recognised, and permissions deny no other request without it, unless the class that rejected
\* it said so.
Challenge ==
    /\ response.challenge => response.status = 401
    /\ response.status = 401 =>
         \/ response.challenge
         \/ response.own /\ (response.raised => exc = "APIException")
    /\ ~response.own =>
         /\ response.status = 401 => request[original].authenticator = None
         /\ response.raised /\ exc = "PermissionDenied" /\ original \notin rejected
              => request[original].authenticator # None

\* The handler runs only for a request that the permissions let through: where they ask
\* for a user, some authentication class has recognised an active one, and it has the
\* model permissions the method requires, whatever happens to its token meanwhile.
HandlerIsPermitted ==
    pc = "handler" /\ assigned[original] = Unset =>
        /\ ReadsUser(method) => /\ request[original].authenticator \in DOMAIN Chain
                               /\ request[original].user \in Users \ Inactive
        /\ "DjangoObjectPermissions" \in permissions => Required[method] \subseteq globally

\* Where dispatch authenticates the request, rendering the response of a handler, or a 401, never
\* runs an authentication class again: the clones take over what the request has.  A lazy view
\* may have left it to the renderer to be the first.
FormsDoNotAuthenticate ==
    ~lazy /\ (Returned \/ response.challenge)
        => \A c \in Requests \ {original} : runs[c] = 0

\* Where dispatch authenticates the request, the 401 or 403 that it made of an exception is the
\* one the client gets: rendering it, which reads the user of the rejected request and checks its
\* permissions, does not fail.  In a lazy view rendering may be the first to authenticate, and fail.
RefusalIsDelivered ==
    [][~lazy /\ Dispatched /\ response.raised /\ response.status \in {401, 403}
        => response'.status = response.status]_vars

\* "Subclasses of APIException raised inside REST framework. [...] REST framework will
\* return a response with an appropriate status code": none ends as a server error.
ErrorsAreHandled == pc = "done" /\ exc \in APIExceptions => response.status # 500

\* show_form_for_method answers whether a form should be shown: a permission that the user
\* does not have on the object hides the form, and leaves alone the response to a method
\* that it does have the permission for.
FormsAreHidden == pc = "done" /\ Returned /\ ObjectPermission(method) = "allow" => exc # "Http404"
=============================================================================
