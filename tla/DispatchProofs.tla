--------------------------- MODULE DispatchProofs ---------------------------
(***************************************************************************)
(* Proofs about Dispatch, for every view: its authentication, permission    *)
(* and renderer classes, its methods and its permission map; who may pass    *)
(* it and how the others are turned away, for every order of login, logout  *)
(* and revocation.                                                          *)
(***************************************************************************)
EXTENDS Dispatch, RequestAuthProofs

(***************************************************************************)
(* dispatch and the rendering use a Request only as RequestAuth describes.  *)
(***************************************************************************)
FormInv ==
    /\ form \in Nat
    /\ pc = "check" => form \in DOMAIN Rendering

LEMMA FormsAreRequests == DOMAIN Rendering = 1..8 /\ DOMAIN Rendering \subseteq Requests /\ original \in Requests
<1>1. DOMAIN Rendering = 1..8 /\ Len(Rendering) = 8
  BY DEF Rendering
<1>2. Requests = 0..8 /\ original = 0
  BY <1>1, DispatchAssumption
<1>. QED
  BY <1>1, <1>2

LEMMA FormInductive == FormInv /\ [Next]_vars => FormInv'
<1>. SUFFICES ASSUME FormInv, [Next]_vars PROVE FormInv'
  OBVIOUS
<1>. USE DEF FormInv
<1>1. ASSUME pc' # "check", UNCHANGED form
      PROVE  FormInv'
  BY <1>1
<1>2. CASE Negotiate
  BY <1>2 DEF Negotiate, Raise
<1>3. CASE DetermineVersion
  BY <1>3 DEF DetermineVersion, Raise, Goto
<1>4. CASE PerformAuthentication
  BY <1>4 DEF PerformAuthentication, Raise, Goto
<1>5. CASE CheckPermissions
  BY <1>5 DEF CheckPermissions, Raise, Goto
<1>6. CASE CheckThrottles
  BY <1>6 DEF CheckThrottles, Raise, Goto
<1>7. CASE Write \/ Login
  BY <1>7 DEF Write, Login, view
<1>8. CASE GetObject
  <2>1. ObjectPermission(method) \in {"allow", "deny", "Http404"}
    BY DEF ObjectPermission
  <2>. QED
    BY <1>8, <2>1 DEF GetObject, Raise, Goto
<1>9. CASE HandlerRaises
  BY <1>9 DEF HandlerRaises
<1>10. CASE HandlerReturns
  BY <1>10 DEF HandlerReturns, Escape
<1>11. CASE HandleException
  BY <1>11 DEF HandleException, Escape
<1>12. CASE FinalizeResponse
  BY <1>12 DEF FinalizeResponse
<1>13. CASE Exit
  BY <1>13 DEF Exit
<1>14. CASE Deliver
  BY <1>14 DEF Deliver, Goto
<1>15. CASE RenderUser
  BY <1>15 DEF RenderUser, FailRendering, NextForm
<1>16. CASE OverrideMethod
  BY <1>16 DEF OverrideMethod, Goto
<1>17. CASE ShowForm
  BY <1>17 DEF ShowForm, FailRendering, NextForm
<1>18. CASE (Revoke /\ UNCHANGED <<view, db, given>>) \/ UNCHANGED vars
  BY <1>18 DEF view, vars
<1>. QED
  BY <1>2, <1>3, <1>4, <1>5, <1>6, <1>7, <1>8, <1>9, <1>10, <1>11, <1>12, <1>13, <1>14,
     <1>15, <1>16, <1>17, <1>18 DEF Next

LEMMA AuthStep == FormInv /\ [Next]_vars => [AuthNext]_authVars
<1>. SUFFICES ASSUME FormInv, [Next]_vars PROVE [AuthNext]_authVars
  OBVIOUS
<1>1. "user" \in Fields /\ original \in Requests
  BY FormsAreRequests DEF Fields
<1>2. ASSUME NEW r \in Requests, Get(r, "user")
      PROVE  AuthNext
  BY <1>1, <1>2 DEF AuthNext
<1>3. CASE Negotiate \/ DetermineVersion \/ CheckThrottles \/ Write \/ GetObject
  BY <1>3 DEF Negotiate, DetermineVersion, CheckThrottles, Write, GetObject
<1>4. CASE PerformAuthentication
  BY <1>1, <1>2, <1>4 DEF PerformAuthentication
<1>5. CASE CheckPermissions
  BY <1>1, <1>2, <1>5 DEF CheckPermissions
<1>6. CASE Login
  BY <1>1, <1>6 DEF Login, AuthNext
<1>7. CASE HandlerRaises \/ HandlerReturns \/ HandleException \/ FinalizeResponse \/ Exit \/ Deliver
  BY <1>7 DEF HandlerRaises, HandlerReturns, HandleException, FinalizeResponse, Exit, Deliver
<1>8. CASE RenderUser
  BY <1>1, <1>2, <1>8 DEF RenderUser
<1>9. CASE OverrideMethod
  BY <1>1, <1>9, FormsAreRequests DEF OverrideMethod, AuthNext
<1>10. CASE ShowForm
  <2>1. form \in Requests
    BY <1>10, FormsAreRequests DEF ShowForm, FormInv
  <2>. QED
    BY <1>2, <1>10, <2>1 DEF ShowForm
<1>11. CASE Revoke
  BY <1>11 DEF AuthNext
<1>12. CASE UNCHANGED vars
  BY <1>12 DEF vars
<1>. QED
  BY <1>3, <1>4, <1>5, <1>6, <1>7, <1>8, <1>9, <1>10, <1>11, <1>12 DEF Next

\* Whatever a view, its handler and the renderer do to a request and its clones is one of
\* the accesses RequestAuth describes: Dispatch implements RequestAuth.
THEOREM DispatchUsesRequest == Spec => AuthSpec
<1>1. Init => AuthInit /\ FormInv
  BY DEF Init, FormInv
<1>. QED
  BY <1>1, FormInductive, AuthStep, PTL DEF Spec, AuthSpec

\* No request is authenticated twice on its way through dispatch and the renderer.
THEOREM DispatchedOnce == Spec => []AuthenticatedOnce
  BY DispatchUsesRequest, OneRun, PTL

(***************************************************************************)
(* Types.                                                                   *)
(***************************************************************************)
LEMMA GetRaises ==
    ASSUME NEW r, NEW field, Get(r, field), answer'.raised
    PROVE  answer'.exc \in Exceptions
<1>1. CASE Read(r, field)
  BY <1>1 DEF Read
<1>2. CASE Authenticate(r, field)
  <2>1. PICK o \in Outcomes :
          answer' = [by |-> r, field |-> field,
                     raised |-> o.result.kind \in {"fail", "crash"}, exc |-> o.result.exc]
    BY <1>2 DEF Authenticate
  <2>2. o.result \in TokenResults \cup SessionResults \cup {Pass}
    <3>1. CASE o \in ChainResults
      BY <3>1 DEF ChainResults
    <3>. QED
      BY <3>1 DEF Outcomes
  <2>3. o.result.kind \in {"fail", "crash"}
    BY <2>1
  <2>4. o.result.exc \in {"AuthenticationFailed", "PermissionDenied", "Error"}
    BY <2>2, <2>3 DEF TokenResults, SessionResults, Pass, Ok, Fail, Crash
  <2>. QED
    BY <2>1, <2>4 DEF Exceptions, APIExceptions
<1>. QED
  BY <1>1, <1>2 DEF Get

Statuses == {0, 200, 400, 401, 403, 404, 405, 406, 429, 500}
Responses == [status : Statuses, challenge : BOOLEAN, raised : BOOLEAN, own : BOOLEAN,
              renderer : DOMAIN Renderers \cup {None}]

ViewTypeOK ==
    /\ pc \in {"negotiate", "version", "authenticate", "permissions", "throttles", "handler",
               "handling", "finalize", "exit", "rendering", "check", "done"}
    /\ exc \in Exceptions \cup {None}
    /\ pc = "handling" => exc \in Exceptions
    /\ accepted \in DOMAIN Renderers \cup {None}
    /\ response \in Responses
    /\ instance \in BOOLEAN
    /\ form \in 0..9
    /\ pc = "rendering" => form \in 1..9
    /\ pc = "check" => form \in 1..8

LEMMA StatusTypes ==
    /\ \A e \in Exceptions \ {"Error"} : StatusOf(e) \in Statuses
    /\ \A e \in Exceptions : DjangoStatusOf(e) \in Statuses
<1>1. ASSUME NEW e \in Exceptions \ {"Error"}
      PROVE  StatusOf(e) \in Statuses
  BY DEF StatusOf, Statuses, Exceptions, APIExceptions
<1>2. ASSUME NEW e \in Exceptions
      PROVE  DjangoStatusOf(e) \in Statuses
  BY DEF DjangoStatusOf, Statuses
<1>. QED
  BY <1>1, <1>2

LEMMA RaiseTypes == ASSUME ViewTypeOK, NEW e \in Exceptions, Raise(e) PROVE ViewTypeOK'
  BY DEF ViewTypeOK, Raise

LEMMA GotoTypes ==
    ASSUME ViewTypeOK, Goto(pc'),
           pc' \in {"permissions", "authenticate", "throttles", "handler", "done"}
    PROVE  ViewTypeOK'
  BY DEF ViewTypeOK, Goto

LEMMA EscapeTypes == ASSUME ViewTypeOK, NEW e \in Exceptions, Escape(e) PROVE ViewTypeOK'
<1>1. response' \in Responses
  BY StatusTypes DEF Escape, NoResponse, Responses
<1>. QED
  BY <1>1 DEF ViewTypeOK, Escape

LEMMA FailTypes ==
    ASSUME ViewTypeOK, NEW e \in Exceptions, FailRendering(e)
    PROVE  ViewTypeOK'
<1>1. response' \in Responses
  BY StatusTypes DEF FailRendering, ViewTypeOK, Responses
<1>. QED
  BY <1>1 DEF ViewTypeOK, FailRendering

LEMMA NextFormTypes ==
    ASSUME ViewTypeOK, form \in 1..8, NextForm
    PROVE  ViewTypeOK'
<1>1. form' \in 1..9
  BY DEF NextForm
<1>. QED
  BY <1>1 DEF ViewTypeOK, NextForm

LEMMA ViewInductive == ViewTypeOK /\ [Next]_vars => ViewTypeOK'
<1>. SUFFICES ASSUME ViewTypeOK, [Next]_vars PROVE ViewTypeOK'
  OBVIOUS
<1>0. /\ DOMAIN Rendering = 1..8 /\ Len(Rendering) = 8
      /\ \A r : Denial(r) \in Exceptions /\ Denial(r)' \in Exceptions
      /\ {"Error", "NotAcceptable", "NotFound", "Throttled", "MethodNotAllowed", "Http404",
          "ValidationError", "DjangoPermissionDenied"} \subseteq Exceptions
      /\ 1 \in DOMAIN Renderers
  <2>1. DOMAIN Rendering = 1..8 /\ Len(Rendering) = 8
    BY DEF Rendering
  <2>2. 1 \in DOMAIN Renderers
    BY DispatchAssumption
  <2>3. \A r : Denial(r) \in Exceptions /\ Denial(r)' \in Exceptions
    BY DEF Denial, Exceptions, APIExceptions
  <2>. QED
    BY <2>1, <2>2, <2>3 DEF Exceptions, APIExceptions
<1>1. CASE Negotiate
  <2>1. CASE \E i \in DOMAIN Renderers :
          /\ accepted' = i
          /\ pc' = "version"
          /\ UNCHANGED <<exc, response, instance, form>>
    BY <2>1 DEF ViewTypeOK
  <2>2. CASE \E e \in {"NotAcceptable", "Http404"} : Raise(e)
    BY <1>0, <2>2, RaiseTypes
  <2>. QED
    BY <1>1, <2>1, <2>2 DEF Negotiate
<1>2. CASE DetermineVersion
  <2>1. CASE Goto(IF lazy THEN "permissions" ELSE "authenticate")
    <3>1. Goto(pc') /\ pc' \in {"permissions", "authenticate"}
      BY <2>1 DEF Goto
    <3>. QED
      BY <3>1, GotoTypes
  <2>2. CASE \E e \in {"NotFound", "NotAcceptable"} : Raise(e)
    BY <1>0, <2>2, RaiseTypes
  <2>. QED
    BY <1>2, <2>1, <2>2 DEF DetermineVersion
<1>3. CASE PerformAuthentication
  <2>1. CASE answer'.raised
    BY <1>3, <2>1, GetRaises, RaiseTypes DEF PerformAuthentication
  <2>2. CASE ~answer'.raised
    <3>1. Goto("permissions")
      BY <1>3, <2>2 DEF PerformAuthentication
    <3>2. Goto(pc') /\ pc' = "permissions"
      BY <3>1 DEF Goto
    <3>. QED
      BY <3>2, GotoTypes
  <2>. QED
    BY <2>1, <2>2
<1>4. CASE CheckPermissions
  <2>1. \/ Goto("throttles")
        \/ Raise(Denial(original)')
        \/ Get(original, "user") /\ answer'.raised /\ Raise(answer'.exc)
    BY <1>4 DEF CheckPermissions
  <2>2. CASE Goto("throttles")
    <3>1. Goto(pc') /\ pc' = "throttles"
      BY <2>2 DEF Goto
    <3>. QED
      BY <3>1, GotoTypes
  <2>3. CASE Raise(Denial(original)')
    BY <1>0, <2>3, RaiseTypes
  <2>4. CASE Get(original, "user") /\ answer'.raised /\ Raise(answer'.exc)
    BY <2>4, GetRaises, RaiseTypes
  <2>. QED
    BY <2>1, <2>2, <2>3, <2>4
<1>5. CASE CheckThrottles
  <2>1. CASE Raise("Throttled") \/ Raise("MethodNotAllowed")
    BY <1>0, <2>1, RaiseTypes
  <2>2. CASE Goto("handler")
    <3>1. Goto(pc') /\ pc' = "handler"
      BY <2>2 DEF Goto
    <3>. QED
      BY <3>1, GotoTypes
  <2>. QED
    BY <1>5, <2>1, <2>2 DEF CheckThrottles
<1>6. CASE Write \/ Login \/ (Revoke /\ UNCHANGED <<view, db, given>>) \/ UNCHANGED vars
  BY <1>6 DEF Write, Login, view, vars, ViewTypeOK
<1>7. CASE GetObject
  <2>1. ObjectPermission(method) \in {"allow", "deny", "Http404"}
    BY DEF ObjectPermission
  <2>2. Raise("Http404") \/ Goto("handler") \/ Raise(Denial(original))
    BY <1>7, <2>1 DEF GetObject
  <2>3. CASE Raise("Http404") \/ Raise(Denial(original))
    BY <1>0, <2>3, RaiseTypes
  <2>4. CASE Goto("handler")
    <3>1. Goto(pc') /\ pc' = "handler"
      BY <2>4 DEF Goto
    <3>. QED
      BY <3>1, GotoTypes
  <2>. QED
    BY <2>2, <2>3, <2>4
<1>8. CASE HandlerRaises
  <2>1. response' \in Responses
    BY <1>8 DEF HandlerRaises, ViewTypeOK, Responses
  <2>2. /\ pc' = "handling" /\ exc' \in Exceptions /\ instance' \in BOOLEAN
        /\ UNCHANGED <<accepted, form>>
    BY <1>8 DEF HandlerRaises
  <2>. QED
    BY <2>1, <2>2 DEF ViewTypeOK
<1>9. CASE HandlerReturns
  <2>1. CASE Escape("Error")
    BY <1>0, <2>1, EscapeTypes
  <2>2. CASE ~Escape("Error")
    <3>1. /\ pc' = "finalize"
          /\ \E status \in {200, 401, 403} :
                response' = [response EXCEPT !.status = status, !.own = TRUE]
          /\ instance' \in BOOLEAN /\ UNCHANGED <<exc, accepted, form>>
      BY <1>9, <2>2 DEF HandlerReturns
    <3>2. response' \in Responses
      <4>1. PICK status \in {200, 401, 403} :
                response' = [response EXCEPT !.status = status, !.own = TRUE]
        BY <3>1
      <4>2. response \in Responses
        BY DEF ViewTypeOK
      <4>3. status \in Statuses
        BY DEF Statuses
      <4>. QED
        BY <4>1, <4>2, <4>3 DEF Responses
    <3>. QED
      BY <3>1, <3>2 DEF ViewTypeOK
  <2>. QED
    BY <2>1, <2>2
<1>10. CASE HandleException
  <2>1. CASE exc = "Error"
    BY <1>0, <1>10, <2>1, EscapeTypes DEF HandleException
  <2>2. CASE exc # "Error"
    <3>1. PICK challenge \in BOOLEAN :
            /\ response' = [response EXCEPT
                 !.raised = TRUE, !.challenge = challenge,
                 !.status = IF exc \in {"NotAuthenticated", "AuthenticationFailed"} /\ ~challenge
                            THEN 403 ELSE StatusOf(exc)]
            /\ pc' = "finalize" /\ UNCHANGED <<exc, accepted, instance, form>>
      BY <1>10, <2>2 DEF HandleException
    <3>2. StatusOf(exc) \in Statuses /\ 403 \in Statuses
      BY <1>10, <2>2, StatusTypes DEF ViewTypeOK, HandleException, Statuses
    <3>3. PICK status \in Statuses :
            response' = [response EXCEPT !.raised = TRUE, !.challenge = challenge, !.status = status]
      BY <3>1, <3>2
    <3>4. response' \in Responses
      BY <3>3 DEF ViewTypeOK, Responses
    <3>. QED
      BY <3>1, <3>4 DEF ViewTypeOK
  <2>. QED
    BY <2>1, <2>2
<1>11. CASE FinalizeResponse
  <2>1. accepted' \in DOMAIN Renderers
    BY <1>0, <1>11 DEF FinalizeResponse, ViewTypeOK
  <2>2. response' \in Responses
    BY <1>11, <2>1 DEF FinalizeResponse, ViewTypeOK, Responses
  <2>. QED
    BY <1>11, <2>1, <2>2 DEF FinalizeResponse, ViewTypeOK
<1>12. CASE Exit
  BY <1>12 DEF Exit, ViewTypeOK
<1>13. CASE Deliver
  <2>1. Goto(pc') /\ pc' = "done"
    BY <1>13 DEF Deliver, Goto
  <2>. QED
    BY <2>1, GotoTypes
<1>14. CASE RenderUser
  <2>1. CASE answer'.raised
    BY <1>14, <2>1, GetRaises, FailTypes DEF RenderUser
  <2>2. CASE ~answer'.raised
    BY <1>0, <1>14, <2>2, NextFormTypes DEF RenderUser
  <2>. QED
    BY <2>1, <2>2
<1>15. CASE OverrideMethod
  BY <1>0, <1>15 DEF OverrideMethod, Goto, ViewTypeOK
<1>16. CASE ShowForm
  <2>1. NextForm \/ FailRendering("Error") \/ FailRendering("Http404")
    BY <1>16 DEF ShowForm
  <2>2. form \in 1..8
    BY <1>16 DEF ShowForm, ViewTypeOK
  <2>. QED
    BY <1>0, <2>1, <2>2, FailTypes, NextFormTypes
<1>. QED
  BY <1>1, <1>2, <1>3, <1>4, <1>5, <1>6, <1>7, <1>8, <1>9, <1>10, <1>11, <1>12, <1>13,
     <1>14, <1>15, <1>16 DEF Next

DbTypeOK ==
    /\ permissions \in PermissionChoices /\ lazy \in BOOLEAN
    /\ method \in Methods /\ globally \subseteq Grants /\ granted \subseteq Grants
    /\ atomic \in BOOLEAN /\ rollback \in BOOLEAN /\ written \in BOOLEAN /\ committed \in BOOLEAN

LEMMA DbTypes == DbTypeOK /\ [Next]_vars => DbTypeOK'
<1>. SUFFICES ASSUME DbTypeOK, [Next]_vars PROVE DbTypeOK'
  OBVIOUS
<1>1. UNCHANGED given
  BY DEF Next, Negotiate, DetermineVersion, PerformAuthentication, CheckPermissions,
         CheckThrottles, Write, Login, GetObject, HandlerRaises, HandlerReturns,
         HandleException, FinalizeResponse, Exit, Deliver, RenderUser, OverrideMethod,
         ShowForm, vars
<1>2. \/ UNCHANGED db
      \/ Write \/ Exit \/ Escape("Error")
      \/ rollback' = atomic /\ UNCHANGED <<written, committed>>
  BY DEF Next, Negotiate, DetermineVersion, PerformAuthentication, CheckPermissions,
         CheckThrottles, Login, GetObject, HandlerRaises, HandlerReturns,
         HandleException, FinalizeResponse, Deliver, RenderUser, OverrideMethod,
         ShowForm, vars
<1>. QED
  BY <1>1, <1>2 DEF DbTypeOK, db, given, Write, Exit, Escape

LEMMA Initial == Init => ViewTypeOK /\ DbTypeOK
<1>. SUFFICES ASSUME Init PROVE ViewTypeOK /\ DbTypeOK
  OBVIOUS
<1>1. response = NoResponse /\ NoResponse \in Responses
  BY DEF Init, NoResponse, Responses, Statuses
<1>2. ViewTypeOK
  <2>1. pc = "negotiate" /\ exc = None /\ accepted = None /\ form = 0 /\ instance = FALSE
    BY DEF Init
  <2>2. form \in 0..9 /\ response \in Responses
    BY <1>1, <2>1
  <2>. QED
    BY <2>1, <2>2 DEF ViewTypeOK
<1>3. DbTypeOK
  BY DEF Init, DbTypeOK
<1>. QED
  BY <1>2, <1>3

\* Every reachable state of a dispatched request has the shape the code gives it.
THEOREM DispatchTypes == Spec => []TypeOK
<1>2. AuthInv /\ ViewTypeOK /\ DbTypeOK => TypeOK
  <2>1. Len(Rendering) + 1 = 9
    BY DEF Rendering
  <2>. QED
    BY <2>1 DEF AuthInv, ViewTypeOK, DbTypeOK, TypeOK, Responses, Statuses
<1>. QED
  BY Initial, <1>2, DispatchUsesRequest, AuthInvariant, ViewInductive, DbTypes, PTL DEF Spec

(***************************************************************************)
(* The transaction: before the request leaves it only an exception marks it *)
(* for rollback, and after that nothing is written or taken back.           *)
(***************************************************************************)
Phases == {"negotiate", "version", "authenticate", "permissions", "throttles", "handler",
           "handling"}

DbInv ==
    /\ pc \in Phases => ~response.raised /\ response.renderer = None /\ ~rollback
    /\ pc = "finalize" => (rollback <=> atomic /\ response.raised) /\ response.renderer = None
    /\ pc = "exit" => (atomic => (rollback <=> ~Returned))
    /\ pc \in Phases \cup {"finalize", "exit"} => (committed <=> written /\ ~atomic)
    /\ AtomicRequests

LEMMA EscapeDb ==
    ASSUME DbInv, pc \in Phases, DbTypeOK, Escape("Error"), UNCHANGED given
    PROVE  DbInv'
<1>1. /\ pc' = "exit" /\ response'.renderer = None
      /\ rollback' = atomic /\ UNCHANGED <<written, committed, atomic>>
  BY DEF Escape, NoResponse, given
<1>. QED
  BY <1>1 DEF DbInv, DbTypeOK, Phases, Returned, AtomicRequests, Dispatched

LEMMA DbInductive == ViewTypeOK /\ DbTypeOK /\ DbInv /\ [Next]_vars => DbInv'
<1>. SUFFICES ASSUME ViewTypeOK, DbTypeOK, DbInv, [Next]_vars PROVE DbInv'
  OBVIOUS
<1>1. ASSUME pc \in Phases, pc' \in Phases, UNCHANGED <<rollback, written, committed, atomic>>,
             response'.raised = response.raised, response'.renderer = response.renderer
      PROVE  DbInv'
  BY <1>1 DEF DbInv, Phases, AtomicRequests, Dispatched
<1>2. ASSUME pc \in {"rendering", "check"}, pc' \in {"rendering", "check", "done"},
             UNCHANGED <<written, committed, atomic>>,
             response'.renderer = response.renderer, response'.raised = response.raised
      PROVE  DbInv'
  BY <1>2 DEF DbInv, Phases, AtomicRequests, Dispatched, Returned
<1>3. CASE Negotiate \/ DetermineVersion \/ PerformAuthentication \/ CheckPermissions
           \/ CheckThrottles
  BY <1>1, <1>3 DEF Negotiate, DetermineVersion, PerformAuthentication, CheckPermissions,
                    CheckThrottles, Raise, Goto, Phases, db, given
<1>4. CASE GetObject
  <2>1. ObjectPermission(method) \in {"allow", "deny", "Http404"}
    BY DEF ObjectPermission
  <2>. QED
    BY <1>1, <1>4, <2>1 DEF GetObject, Raise, Goto, Phases, db, given
<1>5. CASE Login
  BY <1>1, <1>5 DEF Login, Phases, db, given, view
<1>14. CASE HandlerRaises
  <2>1. response'.raised = response.raised /\ response'.renderer = response.renderer
    BY <1>14 DEF HandlerRaises, ViewTypeOK, Responses
  <2>. QED
    BY <1>1, <1>14, <2>1 DEF HandlerRaises, Phases, db, given
<1>6. CASE Write
  BY <1>6 DEF Write, view, given, DbInv, DbTypeOK, Phases, AtomicRequests, Dispatched
<1>7. CASE HandlerReturns
  <2>1. CASE Escape("Error")
    BY <1>7, <2>1, EscapeDb DEF HandlerReturns, Phases
  <2>2. CASE ~Escape("Error")
    <3>1. /\ pc = "handler" /\ pc' = "finalize"
          /\ \E status \in {200, 401, 403} :
                response' = [response EXCEPT !.status = status, !.own = TRUE]
          /\ UNCHANGED <<rollback, written, committed, atomic>>
      BY <1>7, <2>2 DEF HandlerReturns, db, given
    <3>2. response'.renderer = response.renderer /\ response'.raised = response.raised
      BY <3>1 DEF ViewTypeOK, Responses
    <3>. QED
      BY <3>1, <3>2 DEF DbInv, Phases, NoResponse, AtomicRequests, Dispatched
  <2>. QED
    BY <2>1, <2>2
<1>8. CASE HandleException
  <2>1. CASE exc = "Error"
    BY <1>8, <2>1, EscapeDb DEF HandleException, Phases
  <2>2. CASE exc # "Error"
    <3>1. /\ pc = "handling" /\ pc' = "finalize" /\ rollback' = atomic
          /\ UNCHANGED <<written, committed, atomic>>
      BY <1>8, <2>2 DEF HandleException, given
    <3>2. response'.raised = TRUE /\ response'.renderer = response.renderer
      BY <1>8, <2>2 DEF HandleException, ViewTypeOK, Responses
    <3>. QED
      BY <3>1, <3>2 DEF DbInv, Phases, NoResponse, AtomicRequests, Dispatched
  <2>. QED
    BY <2>1, <2>2
<1>9. CASE FinalizeResponse
  <2>1. /\ pc = "finalize" /\ pc' = "exit" /\ UNCHANGED <<rollback, written, committed, atomic>>
    BY <1>9 DEF FinalizeResponse, db, given
  <2>2. response'.renderer = accepted' /\ response'.raised = response.raised
    BY <1>9 DEF FinalizeResponse, ViewTypeOK, Responses
  <2>3. accepted' # None
    BY <1>9, DispatchAssumption DEF FinalizeResponse
  <2>. QED
    BY <2>1, <2>2, <2>3 DEF DbInv, DbTypeOK, ViewTypeOK, Responses, Phases, Returned,
                            AtomicRequests, Dispatched
<1>10. CASE Exit
  <2>1. /\ pc = "exit" /\ pc' \in {"rendering", "done"}
        /\ UNCHANGED <<response, rollback, written, atomic>>
        /\ committed' = IF atomic THEN written /\ ~rollback ELSE committed
    BY <1>10 DEF Exit, given
  <2>. QED
    BY <2>1 DEF DbInv, Phases, Returned, AtomicRequests, Dispatched
<1>11. CASE Deliver \/ OverrideMethod
  BY <1>2, <1>11 DEF Deliver, OverrideMethod, Goto, db, given
<1>12. CASE RenderUser \/ ShowForm
  <2>1. UNCHANGED <<db, given>> /\ pc \in {"rendering", "check"}
    BY <1>12 DEF RenderUser, ShowForm
  <2>2. NextForm \/ \E e : FailRendering(e)
    BY <1>12 DEF RenderUser, ShowForm
  <2>3. /\ response'.renderer = response.renderer /\ response'.raised = response.raised
        /\ pc' \in {"rendering", "done"}
    BY <2>2 DEF NextForm, FailRendering, ViewTypeOK, Responses
  <2>. QED
    BY <1>2, <2>1, <2>3 DEF db, given
<1>13. CASE (Revoke /\ UNCHANGED <<view, db, given>>) \/ UNCHANGED vars
  BY <1>13 DEF vars, view, db, given, DbInv, Phases, Returned, AtomicRequests, Dispatched
<1>. QED
  BY <1>3, <1>4, <1>5, <1>6, <1>7, <1>8, <1>9, <1>10, <1>11, <1>12, <1>13, <1>14 DEF Next

\* Under ATOMIC_REQUESTS a handler's writes are kept exactly if it returned a Response.
THEOREM WritesAreAtomic == Spec => []AtomicRequests
<1>1. Init => DbInv
  BY DEF Init, DbInv, Phases, NoResponse, AtomicRequests, Dispatched
<1>2. DbInv => AtomicRequests
  BY DEF DbInv
<1>. QED
  BY Initial, <1>1, <1>2, ViewInductive, DbTypes, DbInductive, PTL DEF Spec

(***************************************************************************)
(* Refusals: what dispatch knows of the user when it lets a request through *)
(* or turns it away, and what rendering the answer then reads.              *)
(***************************************************************************)
Early == {"negotiate", "version", "authenticate", "permissions", "throttles", "handler"}
Denials == {"NotAuthenticated", "AuthenticationFailed", "PermissionDenied", "DjangoPermissionDenied",
            "APIException"}

Identified == request[original].user # Unset /\ request[original].authenticator # Unset
Rejected == request[original].user # Unset /\ request[original].authenticator = None
Permitted ==
    /\ ReadsUser(method) => /\ request[original].authenticator \in DOMAIN Chain
                           /\ request[original].user \in Users \ Inactive
    /\ "DjangoObjectPermissions" \in permissions => Required[method] \subseteq globally

\* A user who was not assigned was recognised by a class, if it is not the anonymous one.
UserInv ==
    /\ Exists(original)
    /\ assigned[original] = Unset =>
         \/ request[original] \in {Fresh, NotAuthenticated}
         \/ /\ request[original].user \in Users \ Inactive
            /\ request[original].authenticator \in DOMAIN Chain

\* What has been found out at each phase up to the exception handler.
PhaseInv ==
    /\ pc \in Early => exc = None /\ ~instance
    /\ pc \in Early => response = NoResponse
    /\ pc = "handling" => response = [NoResponse EXCEPT !.own = response.own]
    /\ pc \in Early \ {"handler"} => assigned[original] = Unset
    /\ pc \in {"throttles", "handler"} =>
         /\ ReadsUser(method) => Identified
         /\ assigned[original] = Unset => Permitted
    /\ pc \in {"permissions", "throttles", "handler"} /\ ~lazy => Identified
    /\ pc = "handling" =>
         /\ exc \in {"NotAuthenticated", "AuthenticationFailed"} /\ ~response.own => Rejected
         /\ exc = "APIException" => response.own
         /\ exc \in Denials => ~instance /\ (~lazy => Identified)

\* What the response says of it.
ResponseInv ==
    /\ response.challenge => response.status = 401 /\ response.raised
    /\ response.status = 401 =>
         \/ response.challenge
         \/ response.own /\ (response.raised => exc = "APIException")
    /\ response.status = 401 /\ ~response.own => Rejected
    /\ response.raised /\ response.status \in {401, 403} => ~instance /\ (~lazy => Identified)
    /\ ~lazy /\ (Returned \/ (pc = "finalize" /\ ~response.raised)) => Identified
    /\ Chain # <<>> /\ exc = "PermissionDenied" /\ ~response.own /\ original \notin rejected
         => Identified /\ request[original].authenticator # None

\* What the forms read.
ClonesInv ==
    /\ pc \notin {"rendering", "check", "done"} => \A c \in Requests \ {original} : runs[c] = 0
    /\ pc = "check" => request[form].user = request[original].user
    /\ FormsDoNotAuthenticate

(***************************************************************************)
(* What a read of the user does.                                            *)
(***************************************************************************)
\* Whoever a class recognises is active.
LEMMA OutcomeUsers ==
    ASSUME NEW o \in Outcomes, o.result.kind = "ok"
    PROVE  o.result.user \in Users \ Inactive /\ o.by \in DOMAIN Chain
<1>1. o \in ChainResults
  BY DEF Outcomes, Pass
<1>2. PICK i \in DOMAIN Chain, res \in TokenResults \cup SessionResults :
        o = [by |-> i, result |-> res]
  BY <1>1 DEF ChainResults
<1>3. res.kind = "ok" => res.user \in Users \ Inactive
  BY DEF TokenResults, SessionResults, Pass, Ok, Fail, Crash
<1>. QED
  BY <1>2, <1>3

\* A class that raises gives an exception; only an APIException is a failure.
LEMMA OutcomeExceptions ==
    ASSUME NEW o \in Outcomes
    PROVE  /\ o.result.kind = "crash" => o.result.exc = "Error"
           /\ o.result.kind = "fail" => o.result.exc \in {"AuthenticationFailed", "PermissionDenied"}
<1>1. o.result \in TokenResults \cup SessionResults \cup {Pass}
  <2>1. CASE o \in ChainResults
    BY <2>1 DEF ChainResults
  <2>. QED
    BY <2>1 DEF Outcomes
<1>. QED
  BY <1>1 DEF TokenResults, SessionResults, Pass, Ok, Fail, Crash

Recognised(r) ==
    /\ request[r].user \in Users \ Inactive
    /\ request[r].authenticator \in DOMAIN Chain

LEMMA GetUser ==
    ASSUME AuthInv, NEW r \in Requests, Get(r, "user")
    PROVE  /\ UNCHANGED assigned /\ rejected \subseteq rejected'
           /\ \A c \in Requests : c # r => request'[c] = request[c] /\ runs'[c] = runs[c]
           /\ request[r].user # Unset => UNCHANGED <<request, runs, rejected>> /\ ~answer'.raised
           /\ request'[r] = request[r] \/ request'[r] = NotAuthenticated \/ Recognised(r)'
           /\ ~answer'.raised => request'[r].user # Unset
           /\ answer'.raised =>
                \/ answer'.exc = "Error"
                \/ /\ answer'.exc \in {"AuthenticationFailed", "PermissionDenied"}
                   /\ request'[r] = NotAuthenticated /\ r \in rejected'
<1>1. CASE Read(r, "user")
  BY <1>1 DEF Read
<1>2. CASE Authenticate(r, "user")
  <2>1. request[r].user = Unset /\ UNCHANGED assigned
    BY <1>2 DEF Authenticate
  <2>2. PICK o \in Outcomes : \E a :
          /\ a = IF o.result.kind = "ok"
                 THEN [user |-> o.result.user, auth |-> o.result.auth, authenticator |-> o.by]
                 ELSE NotAuthenticated
          /\ answer' = [by |-> r, field |-> "user",
                        raised |-> o.result.kind \in {"fail", "crash"}, exc |-> o.result.exc]
          /\ IF o.result.kind = "crash"
             THEN UNCHANGED <<http, request, runs, rejected>>
             ELSE /\ request' = [request EXCEPT ![r] = a]
                  /\ http' = a.user
                  /\ runs' = [runs EXCEPT ![r] = @ + 1]
                  /\ rejected' = IF o.result.kind = "fail" THEN rejected \cup {r} ELSE rejected
    BY <1>2 DEF Authenticate
  <2>3. PICK a :
          /\ a = IF o.result.kind = "ok"
                 THEN [user |-> o.result.user, auth |-> o.result.auth, authenticator |-> o.by]
                 ELSE NotAuthenticated
          /\ answer' = [by |-> r, field |-> "user",
                        raised |-> o.result.kind \in {"fail", "crash"}, exc |-> o.result.exc]
          /\ IF o.result.kind = "crash"
             THEN UNCHANGED <<http, request, runs, rejected>>
             ELSE /\ request' = [request EXCEPT ![r] = a]
                  /\ http' = a.user
                  /\ runs' = [runs EXCEPT ![r] = @ + 1]
                  /\ rejected' = IF o.result.kind = "fail" THEN rejected \cup {r} ELSE rejected
    BY <2>2
  <2>4. CASE o.result.kind = "crash"
    BY <2>1, <2>3, <2>4, OutcomeExceptions
  <2>5. CASE o.result.kind # "crash"
    <3>1. /\ request'[r] = a /\ rejected \subseteq rejected'
          /\ \A c \in Requests : c # r => request'[c] = request[c] /\ runs'[c] = runs[c]
      BY <2>3, <2>5 DEF AuthInv, AuthTypeOK
    <3>2. CASE o.result.kind = "ok"
      <4>1. Recognised(r)'
        BY <2>3, <3>1, <3>2, OutcomeUsers DEF Recognised
      <4>2. request'[r].user # Unset
        BY <4>1, RequestAuthAssumption DEF Recognised
      <4>3. ~answer'.raised
        BY <2>3, <3>2
      <4>. QED
        BY <2>1, <3>1, <4>1, <4>2, <4>3
    <3>3. CASE o.result.kind # "ok"
      <4>1. request'[r] = NotAuthenticated /\ request'[r].user # Unset
        BY <2>3, <3>1, <3>3, RequestAuthAssumption DEF NotAuthenticated
      <4>2. /\ answer'.raised <=> o.result.kind = "fail"
            /\ answer'.exc = o.result.exc
            /\ o.result.kind = "fail" => r \in rejected'
        BY <2>3, <2>5
      <4>3. o.result.kind = "fail" => o.result.exc \in {"AuthenticationFailed", "PermissionDenied"}
        BY OutcomeExceptions
      <4>. QED
        BY <2>1, <3>1, <4>1, <4>2, <4>3
    <3>. QED
      BY <3>2, <3>3
  <2>. QED
    BY <2>4, <2>5
<1>. QED
  BY <1>1, <1>2 DEF Get

(***************************************************************************)
(* The user of the request.                                                 *)
(***************************************************************************)
LEMMA UserSteps ==
    ASSUME FormInv, [Next]_vars
    PROVE  \/ UNCHANGED <<request, assigned>>
           \/ \E r \in Requests : Get(r, "user")
           \/ \E u \in Users \cup {Anonymous} : SetUser(original, u)
           \/ \E c \in Requests : Clone(original, c)
<1>1. CASE UNCHANGED authVars
  BY <1>1 DEF authVars
<1>2. CASE PerformAuthentication \/ CheckPermissions \/ RenderUser
  BY <1>2, FormsAreRequests DEF PerformAuthentication, CheckPermissions, RenderUser, authVars
<1>3. CASE Login
  BY <1>3 DEF Login
<1>4. CASE OverrideMethod
  BY <1>4, FormsAreRequests DEF OverrideMethod
<1>5. CASE ShowForm
  <2>1. form \in Requests
    BY <1>5, FormsAreRequests DEF ShowForm, FormInv
  <2>. QED
    BY <1>5, <2>1 DEF ShowForm, authVars
<1>6. CASE Revoke
  BY <1>6 DEF Revoke
<1>. QED
  BY <1>1, <1>2, <1>3, <1>4, <1>5, <1>6
     DEF Next, Negotiate, DetermineVersion, CheckThrottles, Write, GetObject, HandlerRaises,
         HandlerReturns, HandleException, FinalizeResponse, Exit, Deliver, vars

LEMMA UserInductive ==
    ASSUME AuthInv, FormInv, UserInv, [Next]_vars
    PROVE  UserInv'
<1>0. original \in Requests
  BY RequestAuthAssumption
<1>1. CASE UNCHANGED <<request, assigned>>
  BY <1>1 DEF UserInv, Exists
<1>2. ASSUME NEW r \in Requests, Get(r, "user")
      PROVE  UserInv'
  <2>1. /\ UNCHANGED assigned
        /\ \/ request'[original] = request[original]
           \/ request'[original] = NotAuthenticated
           \/ Recognised(original)'
    BY <1>0, <1>2, GetUser
  <2>2. NotAuthenticated # NoObject
    BY RequestAuthAssumption DEF NotAuthenticated, NoObject
  <2>3. Recognised(original)' => request'[original] # NoObject
    BY RequestAuthAssumption DEF Recognised, NoObject
  <2>. QED
    BY <2>1, <2>2, <2>3 DEF UserInv, Exists, Recognised
<1>3. ASSUME NEW u \in Users \cup {Anonymous}, SetUser(original, u)
      PROVE  UserInv'
  <2>1. u # Unset /\ u # None
    BY RequestAuthAssumption
  <2>2. request'[original].user = u /\ assigned'[original] = u
    BY <1>0, <1>3 DEF SetUser, AuthInv, AuthTypeOK
  <2>. QED
    BY <2>1, <2>2 DEF UserInv, Exists, NoObject
<1>4. ASSUME NEW c \in Requests, Clone(original, c)
      PROVE  UserInv'
  <2>1. c # original
    BY <1>4 DEF Clone
  <2>2. request'[original] = request[original] /\ assigned'[original] = assigned[original]
    BY <1>0, <1>4, <2>1 DEF Clone, AuthInv, AuthTypeOK
  <2>. QED
    BY <2>2 DEF UserInv, Exists
<1>. QED
  BY <1>1, <1>2, <1>3, <1>4, UserSteps

\* Who is known and was not assigned has an authenticator, or is known to have none.
LEMMA KnownIsIdentified ==
    ASSUME UserInv', assigned'[original] = Unset, request'[original].user # Unset
    PROVE  /\ Identified'
           /\ request'[original] = NotAuthenticated \/ Recognised(original)'
  BY RequestAuthAssumption DEF UserInv, Identified, Fresh, NotAuthenticated, Recognised

LEMMA PermissionNeedsUser ==
    /\ \A u : ReadsUser(method) /\ HasPermission(method, u) => u # Anonymous
    /\ "DjangoObjectPermissions" \in permissions => ReadsUser(method)
    /\ \A u : HasPermission(method, u) /\ "DjangoObjectPermissions" \in permissions
              => Required[method] \subseteq globally
  BY DEF ReadsUser, HasPermission

\* The exception of a denial.
LEMMA DenialTypes ==
    ASSUME NEW r
    PROVE  /\ Denial(r) \in {"NotAuthenticated", "PermissionDenied"}
           /\ Denial(r) = "NotAuthenticated" => request[r].authenticator = None
           /\ Denial(r) = "PermissionDenied" /\ Chain # <<>> => request[r].authenticator # None
  BY DEF Denial

(***************************************************************************)
(* Up to the exception handler.                                             *)
(***************************************************************************)
\* A read of the user that goes on knows it, and one that raises rejects the request.
LEMMA GetOriginal ==
    ASSUME AuthInv, UserInv', assigned[original] = Unset, Get(original, "user")
    PROVE  /\ assigned'[original] = Unset
           /\ ~answer'.raised => /\ Identified'
                                 /\ \/ request'[original] = NotAuthenticated
                                    \/ Recognised(original)'
           /\ answer'.raised => \/ answer'.exc = "Error"
                                \/ /\ answer'.exc \in {"AuthenticationFailed", "PermissionDenied"}
                                   /\ Identified' /\ Rejected' /\ original \in rejected'
<1>1. original \in Requests
  BY RequestAuthAssumption
<1>2. assigned'[original] = Unset
  BY <1>1, GetUser
<1>3. CASE ~answer'.raised
  BY <1>1, <1>2, <1>3, GetUser, KnownIsIdentified
<1>4. CASE answer'.raised
  <2>1. \/ answer'.exc = "Error"
        \/ /\ answer'.exc \in {"AuthenticationFailed", "PermissionDenied"}
           /\ request'[original] = NotAuthenticated /\ original \in rejected'
    BY <1>1, <1>4, GetUser
  <2>. QED
    BY <1>2, <1>4, <2>1, RequestAuthAssumption DEF Identified, Rejected, NotAuthenticated
<1>. QED
  BY <1>2, <1>3, <1>4

\* Before a response is made, it is the handler's own doing or not.
LEMMA Unanswered == NoResponse = [NoResponse EXCEPT !.own = NoResponse.own] /\ ~NoResponse.own
  BY DEF NoResponse

LEMMA PhaseInductive ==
    ASSUME ViewTypeOK, AuthInv, UserInv', PhaseInv, [Next]_vars
    PROVE  PhaseInv'
<1>0. original \in Requests
  BY RequestAuthAssumption
<1>1. ASSUME pc \in Early, Raise("Error") \/ \E e \in Exceptions \ Denials : Raise(e)
      PROVE  PhaseInv'
  BY <1>1, Unanswered DEF Raise, PhaseInv, Early, Phases, Denials
<1>2. ASSUME pc \in Early, NEW e \in {"AuthenticationFailed", "PermissionDenied", "NotAuthenticated"},
             Raise(e), UNCHANGED lazy, ~lazy => Identified',
             e # "PermissionDenied" => Rejected'
      PROVE  PhaseInv'
  BY <1>2, Unanswered DEF Raise, PhaseInv, Early, Phases, Denials
<1>3. ASSUME pc' \notin Phases
      PROVE  PhaseInv'
  BY <1>3 DEF PhaseInv, Phases, Early
<1>4. CASE Negotiate
  <2>1. UNCHANGED <<assigned, response, instance>> /\ pc = "negotiate"
    BY <1>4 DEF Negotiate, Raise, authVars
  <2>2. CASE \E e \in {"NotAcceptable", "Http404"} : Raise(e)
    BY <1>1, <2>1, <2>2 DEF Exceptions, APIExceptions, Denials, Early
  <2>3. CASE pc' = "version" /\ UNCHANGED <<exc, response, instance, form>>
    BY <2>1, <2>3 DEF PhaseInv, Phases, Early
  <2>. QED
    BY <1>4, <2>2, <2>3 DEF Negotiate
<1>5. CASE DetermineVersion
  <2>1. UNCHANGED <<assigned, lazy>> /\ pc = "version"
    BY <1>5 DEF DetermineVersion, authVars, given
  <2>2. CASE \E e \in {"NotFound", "NotAcceptable"} : Raise(e)
    BY <1>1, <2>1, <2>2 DEF Exceptions, APIExceptions, Denials, Early
  <2>3. CASE Goto(IF lazy THEN "permissions" ELSE "authenticate")
    BY <2>1, <2>3 DEF Goto, PhaseInv, Phases, Early
  <2>. QED
    BY <1>5, <2>2, <2>3 DEF DetermineVersion
<1>6. CASE PerformAuthentication
  <2>1. /\ pc = "authenticate" /\ UNCHANGED given /\ Get(original, "user")
        /\ assigned[original] = Unset
    BY <1>6 DEF PerformAuthentication, PhaseInv, Early
  <2>2. CASE answer'.raised
    BY <1>1, <1>2, <1>6, <2>1, <2>2, GetOriginal
       DEF PerformAuthentication, Exceptions, APIExceptions, Denials, Early, given
  <2>3. CASE ~answer'.raised
    BY <1>6, <2>1, <2>3, GetOriginal DEF PerformAuthentication, Goto, PhaseInv, Phases, Early
  <2>. QED
    BY <2>2, <2>3
<1>7. CASE CheckPermissions
  <2>1. /\ pc = "permissions" /\ UNCHANGED given /\ assigned[original] = Unset
        /\ exc = None /\ ~instance /\ response = NoResponse
        /\ ~lazy => Identified
    BY <1>7 DEF CheckPermissions, PhaseInv, Phases, Early
  <2>2. UNCHANGED <<permissions, method, globally, lazy>>
    BY <2>1 DEF given
  <2>3. CASE ~ReadsUser(method)
    <3>1. Goto("throttles") /\ UNCHANGED authVars
      BY <1>7, <2>3 DEF CheckPermissions
    <3>2. ~ReadsUser(method)'
      BY <2>2, <2>3 DEF ReadsUser
    <3>3. Permitted'
      BY <2>2, <2>3, <3>2, PermissionNeedsUser DEF Permitted
    <3>4. ~lazy' => Identified'
      BY <2>1, <2>2, <3>1 DEF Identified, authVars
    <3>. QED
      BY <2>1, <3>1, <3>2, <3>3, <3>4 DEF Goto, PhaseInv, Phases, Early, authVars
  <2>4. CASE ReadsUser(method)
    <3>1. Get(original, "user")
      BY <1>7, <2>4 DEF CheckPermissions
    <3>2. CASE answer'.raised
      <4>1. Raise(answer'.exc)
        BY <1>7, <2>4, <3>2 DEF CheckPermissions
      <4>. QED
        BY <1>1, <1>2, <2>1, <2>2, <3>1, <3>2, <4>1, GetOriginal
           DEF Exceptions, APIExceptions, Denials, Early
    <3>3. CASE ~answer'.raised
      <4>1. /\ assigned'[original] = Unset /\ Identified'
            /\ request'[original] = NotAuthenticated \/ Recognised(original)'
        BY <2>1, <3>1, <3>3, GetOriginal
      <4>2. CASE HasPermission(method, request'[original].user)
        <5>1. Goto("throttles")
          BY <1>7, <2>4, <3>3, <4>2 DEF CheckPermissions
        <5>2. request'[original].user # Anonymous
          BY <2>4, <4>2, PermissionNeedsUser
        <5>3. Recognised(original)'
          BY <4>1, <5>2 DEF NotAuthenticated
        <5>4. "DjangoObjectPermissions" \in permissions => Required[method] \subseteq globally
          BY <4>2, PermissionNeedsUser
        <5>5. Permitted'
          BY <2>2, <5>3, <5>4 DEF Permitted, Recognised
        <5>. QED
          BY <2>1, <4>1, <5>1, <5>5 DEF Goto, PhaseInv, Phases, Early
      <4>3. CASE ~HasPermission(method, request'[original].user)
        <5>1. Raise(Denial(original)')
          BY <1>7, <2>4, <3>3, <4>3 DEF CheckPermissions
        <5>2. /\ Denial(original)' \in {"NotAuthenticated", "PermissionDenied"}
              /\ Denial(original)' = "NotAuthenticated" => request'[original].authenticator = None
          BY DEF Denial
        <5>3. Denial(original)' # "PermissionDenied" => Rejected'
          BY <4>1, <5>2 DEF Rejected, Identified
        <5>. QED
          BY <1>2, <2>1, <2>2, <4>1, <5>1, <5>2, <5>3 DEF Early
      <4>. QED
        BY <4>2, <4>3
    <3>. QED
      BY <3>2, <3>3
  <2>. QED
    BY <2>3, <2>4
<1>8. ASSUME pc \in {"throttles", "handler"}, pc' = "handler",
             UNCHANGED <<request, assigned, given, exc, response, instance>>
      PROVE  PhaseInv'
  <2>1. UNCHANGED <<permissions, method, globally, lazy>>
    BY <1>8 DEF given
  <2>2. /\ Identified' = Identified /\ ReadsUser(method)' = ReadsUser(method)
        /\ Permitted' = Permitted
    BY <1>8, <2>1 DEF Identified, ReadsUser, Permitted
  <2>. QED
    BY <1>8, <2>1, <2>2 DEF PhaseInv, Phases, Early
<1>9. CASE CheckThrottles
  <2>1. UNCHANGED <<authVars, given>> /\ pc = "throttles"
    BY <1>9 DEF CheckThrottles
  <2>2. CASE \E e \in {"Throttled", "MethodNotAllowed"} : Raise(e)
    BY <1>1, <2>1, <2>2 DEF Exceptions, APIExceptions, Denials, Early
  <2>3. CASE Goto("handler")
    BY <1>8, <2>1, <2>3 DEF Goto, authVars
  <2>. QED
    BY <1>9, <2>2, <2>3 DEF CheckThrottles
<1>10. CASE Write
  BY <1>8, <1>10 DEF Write, authVars, view
<1>11. CASE Login
  <2>1. /\ pc = "handler" /\ UNCHANGED <<view, given>>
        /\ \E u \in Users \cup {Anonymous} : SetUser(original, u)
    BY <1>11 DEF Login
  <2>2. PICK u \in Users \cup {Anonymous} : SetUser(original, u)
    BY <2>1
  <2>3. u # Unset /\ u # None
    BY RequestAuthAssumption
  <2>4. assigned'[original] = u
    BY <1>0, <2>2 DEF SetUser, AuthInv, AuthTypeOK
  <2>5. request[original] \in [user : Users \cup {Anonymous, Unset, None}, auth : Tokens \cup {None, Unset},
                               authenticator : DOMAIN Chain \cup {None, Unset}]
    BY <1>0 DEF AuthInv, AuthTypeOK
  <2>6. request'[original] = [request[original] EXCEPT !.user = u]
    BY <1>0, <2>2 DEF SetUser, AuthInv, AuthTypeOK
  <2>7. Identified => Identified'
    BY <2>3, <2>5, <2>6 DEF Identified
  <2>8. UNCHANGED <<pc, exc, response, instance, lazy>> /\ ReadsUser(method)' = ReadsUser(method)
    BY <2>1 DEF view, given, ReadsUser
  <2>. QED
    BY <2>1, <2>3, <2>4, <2>7, <2>8 DEF PhaseInv, Phases, Early
<1>12. CASE GetObject
  <2>1. UNCHANGED <<authVars, given>> /\ pc = "handler"
    BY <1>12 DEF GetObject
  <2>2. ObjectPermission(method) \in {"allow", "deny", "Http404"}
    BY DEF ObjectPermission
  <2>3. CASE Raise("Http404")
    BY <1>1, <2>1, <2>3 DEF Exceptions, APIExceptions, Denials, Early
  <2>4. CASE Goto("handler")
    BY <1>8, <2>1, <2>4 DEF Goto, authVars
  <2>5. CASE ObjectPermission(method) = "deny" /\ Raise(Denial(original))
    <3>1. ReadsUser(method)
      BY <2>5 DEF ObjectPermission, ReadsUser
    <3>2. Identified /\ Identified'
      BY <2>1, <3>1 DEF PhaseInv, Identified, authVars
    <3>3. Denial(original) # "PermissionDenied" => Rejected'
      BY <2>1, <3>2, DenialTypes DEF Rejected, Identified, authVars
    <3>. QED
      BY <1>2, <2>1, <2>5, <3>2, <3>3, DenialTypes DEF Early, given
  <2>. QED
    BY <1>12, <2>2, <2>3, <2>4, <2>5 DEF GetObject
<1>13. CASE HandlerRaises
  <2>1. /\ pc = "handler" /\ pc' = "handling" /\ UNCHANGED <<authVars, given>>
        /\ response' = [NoResponse EXCEPT !.own = TRUE]
        /\ exc' # "ValidationError" => ~instance'
    BY <1>13 DEF HandlerRaises, PhaseInv, Early
  <2>3. response'.own /\ response' = [NoResponse EXCEPT !.own = response'.own]
    BY <2>1 DEF NoResponse
  <2>2. ~lazy' => Identified'
    BY <2>1 DEF PhaseInv, Identified, authVars, given
  <2>. QED
    BY <2>1, <2>2, <2>3 DEF PhaseInv, Phases, Early, Denials
<1>14. CASE HandlerReturns \/ HandleException
  BY <1>3, <1>14 DEF HandlerReturns, HandleException, Escape, Phases
<1>15. CASE FinalizeResponse \/ Exit \/ Deliver \/ RenderUser \/ OverrideMethod \/ ShowForm
  <2>1. pc' \in {"exit", "rendering", "check", "done"}
    BY <1>15 DEF FinalizeResponse, Exit, Deliver, RenderUser, OverrideMethod, ShowForm, Goto,
                 NextForm, FailRendering
  <2>. QED
    BY <1>3, <2>1 DEF Phases
<1>16. ASSUME UNCHANGED <<view, given, request, assigned>>
       PROVE  PhaseInv'
  <2>1. UNCHANGED <<pc, exc, response, instance, lazy, permissions, method, globally>>
    BY <1>16 DEF view, given
  <2>2. /\ Identified' = Identified /\ ReadsUser(method)' = ReadsUser(method)
        /\ Permitted' = Permitted /\ Rejected' = Rejected
    BY <1>16, <2>1 DEF Identified, ReadsUser, Permitted, Rejected
  <2>. QED
    BY <1>16, <2>1, <2>2 DEF PhaseInv
<1>17. CASE (Revoke /\ UNCHANGED <<view, db, given>>) \/ UNCHANGED vars
  BY <1>16, <1>17 DEF Revoke, vars, authVars
<1>. QED
  BY <1>4, <1>5, <1>6, <1>7, <1>9, <1>10, <1>11, <1>12, <1>13, <1>14, <1>15, <1>17 DEF Next

(***************************************************************************)
(* From the exception handler on.                                           *)
(***************************************************************************)
\* Nobody who is known becomes unknown; a rejection stays one.
UserStands ==
    /\ Identified => Identified'
    /\ Rejected => Rejected'
    /\ Identified /\ request[original].authenticator # None
         => request'[original].authenticator # None
    /\ rejected \subseteq rejected'

LEMMA UsersStand ==
    ASSUME AuthInv, FormInv, UserInv, [Next]_vars
    PROVE  UserStands
<1>0. original \in Requests
  BY RequestAuthAssumption
<1>1. CASE UNCHANGED authVars
  BY <1>1 DEF UserStands, Identified, Rejected, authVars
<1>2. ASSUME NEW r \in Requests, Get(r, "user")
      PROVE  UserStands
  <2>1. rejected \subseteq rejected'
    BY <1>2, GetUser
  <2>2. request[original].user # Unset => request'[original] = request[original]
    BY <1>0, <1>2, GetUser
  <2>. QED
    BY <2>1, <2>2 DEF UserStands, Identified, Rejected
<1>3. ASSUME NEW u \in Users \cup {Anonymous}, SetUser(original, u)
      PROVE  UserStands
  <2>1. u # Unset
    BY RequestAuthAssumption
  <2>2. request[original] \in [user : Users \cup {Anonymous, Unset, None}, auth : Tokens \cup {None, Unset},
                               authenticator : DOMAIN Chain \cup {None, Unset}]
    BY <1>0 DEF AuthInv, AuthTypeOK
  <2>3. request'[original] = [request[original] EXCEPT !.user = u] /\ UNCHANGED rejected
    BY <1>0, <1>3 DEF SetUser, AuthInv, AuthTypeOK
  <2>. QED
    BY <2>1, <2>2, <2>3 DEF UserStands, Identified, Rejected
<1>4. ASSUME NEW c \in Requests, Clone(original, c)
      PROVE  UserStands
  <2>1. c # original /\ rejected \subseteq rejected'
    BY <1>4 DEF Clone
  <2>2. request'[original] = request[original]
    BY <1>0, <1>4, <2>1 DEF Clone, AuthInv, AuthTypeOK
  <2>. QED
    BY <2>1, <2>2 DEF UserStands, Identified, Rejected
<1>5. CASE Revoke
  BY <1>5 DEF Revoke, UserStands, Identified, Rejected
<1>6. CASE PerformAuthentication \/ CheckPermissions \/ RenderUser
  BY <1>0, <1>1, <1>2, <1>6 DEF PerformAuthentication, CheckPermissions, RenderUser
<1>7. CASE Login
  BY <1>3, <1>7 DEF Login
<1>8. CASE OverrideMethod
  BY <1>4, <1>8, FormsAreRequests DEF OverrideMethod
<1>9. CASE ShowForm
  <2>1. form \in Requests
    BY <1>9, FormsAreRequests DEF ShowForm, FormInv
  <2>. QED
    BY <1>1, <1>2, <1>9, <2>1 DEF ShowForm
<1>. QED
  BY <1>1, <1>5, <1>6, <1>7, <1>8, <1>9
     DEF Next, Negotiate, DetermineVersion, CheckThrottles, Write, GetObject, HandlerRaises,
         HandlerReturns, HandleException, FinalizeResponse, Exit, Deliver, vars

\* What each step does to the response.
LEMMA ResponseInductive ==
    ASSUME ViewTypeOK, DbInv, AuthInv, UserInv, UserInv', FormInv, PhaseInv, PhaseInv', ResponseInv,
           [Next]_vars
    PROVE  ResponseInv'
<1>0. original \in Requests /\ UserStands
  BY RequestAuthAssumption, UsersStand
<1>a. UNCHANGED lazy
  BY DEF Next, Negotiate, DetermineVersion, PerformAuthentication, CheckPermissions,
         CheckThrottles, Write, Login, GetObject, HandlerRaises, HandlerReturns,
         HandleException, FinalizeResponse, Exit, Deliver, RenderUser, OverrideMethod,
         ShowForm, vars, given
\* The last conjunct, of which only a denial or a failed read decide.
<1>1. ASSUME Chain # <<>>, exc' = "PermissionDenied", exc # exc', ~response'.own,
             original \notin rejected'
      PROVE  Identified' /\ request'[original].authenticator # None
  <2>1. CASE PerformAuthentication
    <3>1. answer'.raised /\ exc' = answer'.exc
      BY <1>1, <2>1 DEF PerformAuthentication, Raise, Goto
    <3>2. assigned[original] = Unset
      BY <2>1 DEF PerformAuthentication, PhaseInv, Early
    <3>. QED
      BY <1>1, <2>1, <3>1, <3>2, GetOriginal DEF PerformAuthentication
  <2>2. CASE CheckPermissions
    <3>1. assigned[original] = Unset /\ ReadsUser(method) /\ Get(original, "user")
      BY <1>1, <2>2 DEF CheckPermissions, PhaseInv, Early, Goto
    <3>2. ~answer'.raised
      BY <1>1, <2>2, <3>1, GetOriginal DEF CheckPermissions, Raise
    <3>3. exc' = Denial(original)'
      BY <1>1, <2>2, <3>1, <3>2 DEF CheckPermissions, Raise, Goto
    <3>. QED
      BY <1>1, <3>1, <3>2, <3>3, GetOriginal DEF Denial
  <2>3. CASE GetObject
    <3>1. UNCHANGED authVars /\ pc = "handler" /\ ObjectPermission(method) = "deny"
          /\ exc' = Denial(original)
      BY <1>1, <2>3 DEF GetObject, Raise, Goto, ObjectPermission
    <3>2. ReadsUser(method)
      BY <3>1 DEF ObjectPermission, ReadsUser
    <3>. QED
      BY <1>1, <3>1, <3>2, DenialTypes DEF PhaseInv, Identified, authVars
  <2>4. CASE RenderUser
    <3>1. /\ Get(original, "user") /\ answer'.raised /\ exc' = answer'.exc
      BY <1>1, <2>4 DEF RenderUser, FailRendering, NextForm
    <3>. QED
      BY <1>0, <1>1, <3>1, GetUser
  <2>5. CASE ShowForm
    BY <1>1, <2>5 DEF ShowForm, FailRendering, NextForm
  <2>6. ~(Negotiate \/ DetermineVersion \/ CheckThrottles \/ HandlerReturns)
    BY <1>1 DEF Negotiate, DetermineVersion, CheckThrottles, HandlerReturns, Raise, Goto, Escape
  <2>9. ~HandlerRaises
    BY <1>1 DEF HandlerRaises, ViewTypeOK, Responses
  <2>7. ~(HandleException \/ Write \/ Login \/ FinalizeResponse \/ Exit \/ Deliver \/ OverrideMethod)
    BY <1>1 DEF HandleException, Write, Login, FinalizeResponse, Exit, Deliver, OverrideMethod,
                Goto, Escape, view
  <2>8. ~(UNCHANGED <<view, db, given>> \/ UNCHANGED vars)
    BY <1>1 DEF vars, view
  <2>. QED
    BY <2>1, <2>2, <2>3, <2>4, <2>5, <2>6, <2>7, <2>8, <2>9 DEF Next
<1>2. ASSUME Chain # <<>>, exc' = "PermissionDenied", ~response'.own, original \notin rejected',
             exc' = exc => ~response.own
      PROVE  Identified' /\ request'[original].authenticator # None
  <2>1. CASE exc = exc'
    BY <1>0, <1>2, <2>1 DEF ResponseInv, UserStands
  <2>. QED
    BY <1>1, <1>2, <2>1
\* The response is the same, and so is what it says.
<1>3. ASSUME UNCHANGED <<response, instance, exc>>, pc' # "finalize" \/ pc = "finalize"
      PROVE  ResponseInv'
  BY <1>0, <1>a, <1>2, <1>3 DEF ResponseInv, UserStands, Returned
\* There is no response yet.
<1>4. ASSUME pc' \in Phases, response' = response \/ response'.own
      PROVE  ResponseInv'
  <2>1. /\ response'.status = 0 /\ ~response'.challenge /\ ~response'.raised
        /\ response'.renderer = None /\ pc' # "finalize"
    BY <1>4 DEF PhaseInv, Phases, Early, NoResponse
  <2>. QED
    BY <1>2, <1>4, <2>1 DEF ResponseInv, Returned
\* Django answers instead.
<1>5. ASSUME response' = [NoResponse EXCEPT !.status = 500], pc' = "exit", exc' = "Error"
      PROVE  ResponseInv'
  BY <1>5 DEF ResponseInv, NoResponse, Returned
<1>6. ASSUME NEW e \in {"AuthenticationFailed", "PermissionDenied", "Error", "Http404"},
             FailRendering(e), Returned => Identified \/ lazy
      PROVE  ResponseInv'
  <2>1. DjangoStatusOf(e) \in {404, 500}
    BY DEF DjangoStatusOf
  <2>2. /\ response'.status = DjangoStatusOf(e) /\ response'.challenge = FALSE
        /\ response'.raised = response.raised /\ response'.renderer = response.renderer
        /\ response'.own = response.own /\ pc' = "done"
    BY <1>6 DEF FailRendering, ViewTypeOK, Responses
  <2>. QED
    BY <1>0, <1>a, <1>2, <1>6, <2>1, <2>2 DEF ResponseInv, UserStands, Returned
<1>7. CASE Negotiate \/ DetermineVersion \/ PerformAuthentication \/ CheckPermissions
           \/ CheckThrottles
  BY <1>4, <1>7 DEF Negotiate, DetermineVersion, PerformAuthentication, CheckPermissions,
                    CheckThrottles, Raise, Goto, Phases
<1>17. CASE HandlerRaises
  <2>1. response'.own /\ pc' = "handling"
    BY <1>17 DEF HandlerRaises, ViewTypeOK, Responses
  <2>. QED
    BY <1>4, <2>1 DEF Phases
<1>8. CASE GetObject
  <2>1. ObjectPermission(method) \in {"allow", "deny", "Http404"}
    BY DEF ObjectPermission
  <2>. QED
    BY <1>4, <1>8, <2>1 DEF GetObject, Raise, Goto, Phases
<1>9. CASE HandlerReturns
  <2>1. pc = "handler" /\ response = NoResponse
    BY <1>9 DEF HandlerReturns, PhaseInv, Early
  <2>2. CASE Escape("Error")
    BY <1>5, <2>2 DEF Escape, DjangoStatusOf
  <2>3. CASE /\ pc' = "finalize" /\ UNCHANGED exc
             /\ \E status \in {200, 401, 403} :
                   response' = [response EXCEPT !.status = status, !.own = TRUE]
    <3>1. ~lazy => Identified'
      BY <1>0, <2>1 DEF PhaseInv, UserStands
    <3>2. response'.own /\ ~response'.challenge /\ ~response'.raised /\ response'.renderer = None
      BY <2>1, <2>3 DEF NoResponse
    <3>. QED
      BY <1>a, <2>3, <3>1, <3>2 DEF ResponseInv, Returned
  <2>. QED
    BY <1>9, <2>2, <2>3 DEF HandlerReturns
<1>10. CASE HandleException
  <2>1. CASE exc = "Error"
    BY <1>5, <1>10, <2>1 DEF HandleException, Escape, DjangoStatusOf
  <2>2. CASE exc # "Error"
    <3>1. /\ pc = "handling" /\ pc' = "finalize" /\ UNCHANGED <<exc, instance, authVars>>
          /\ response = [NoResponse EXCEPT !.own = response.own] /\ exc \in Exceptions
      BY <1>10, <2>2 DEF HandleException, PhaseInv, ViewTypeOK
    <3>2. DEFINE unauthenticated == exc \in {"NotAuthenticated", "AuthenticationFailed"}
                 challenge == unauthenticated /\ Chain # <<>> /\ Chain[1] = "token"
                 status == IF unauthenticated /\ ~challenge THEN 403 ELSE StatusOf(exc)
    <3>3. /\ response'.raised = TRUE /\ response'.challenge = challenge
          /\ response'.status = status /\ response'.renderer = None
          /\ response'.own = response.own
      BY <1>10, <2>2, <3>1 DEF HandleException, NoResponse, ViewTypeOK, Responses
    <3>4. /\ StatusOf(exc) = 401 <=> unauthenticated \/ exc = "APIException"
          /\ StatusOf(exc) = 403 => exc \in Denials
      BY <2>2, <3>1 DEF StatusOf, Exceptions, APIExceptions, Denials
    <3>5. status \in {401, 403} => exc \in Denials
      BY <3>4 DEF Denials
    <3>6. status = 401 <=> challenge \/ exc = "APIException"
      BY <3>4
    <3>12. exc = "APIException" => response.own
      BY <3>1 DEF PhaseInv
    <3>7. Identified' = Identified /\ Rejected' = Rejected
      BY <3>1 DEF Identified, Rejected, authVars
    <3>8. challenge /\ ~response.own => Rejected
      BY <3>1 DEF PhaseInv
    <3>9. status \in {401, 403} => ~instance /\ (~lazy => Identified)
      BY <3>1, <3>5 DEF PhaseInv
    <3>10. /\ response'.challenge => response'.status = 401
           /\ response'.status = 401 => response'.challenge \/ (response'.own /\ exc' = "APIException")
           /\ response'.status = 401 /\ ~response'.own => Rejected'
           /\ response'.status \in {401, 403} => ~instance' /\ (~lazy' => Identified')
      <4>1. /\ response'.challenge <=> challenge
            /\ response'.status = status /\ response'.raised = TRUE /\ response'.own = response.own
        BY <3>3
      <4>2. UNCHANGED <<instance, lazy, exc>>
        BY <1>a, <3>1
      <4>. HIDE DEF unauthenticated, challenge, status
      <4>. QED
        BY <3>6, <3>7, <3>8, <3>9, <3>12, <4>1, <4>2
    <3>11. response'.raised = TRUE /\ response'.own = response.own
      BY <3>3
    <3>. HIDE DEF unauthenticated, challenge, status
    <3>. QED
      BY <1>2, <3>1, <3>10, <3>11 DEF ResponseInv, Returned
  <2>. QED
    BY <2>1, <2>2
<1>11. CASE FinalizeResponse
  <2>1. /\ pc = "finalize" /\ pc' = "exit" /\ UNCHANGED <<authVars, exc, instance>>
        /\ response'.raised = response.raised /\ response'.challenge = response.challenge
        /\ response'.status = response.status /\ response'.own = response.own
    BY <1>11 DEF FinalizeResponse, ViewTypeOK, Responses
  <2>. QED
    BY <1>0, <1>a, <1>2, <2>1 DEF ResponseInv, UserStands, Returned
<1>12. CASE Exit \/ Deliver \/ OverrideMethod
  BY <1>3, <1>12 DEF Exit, Deliver, OverrideMethod, Goto
<1>13. CASE Write \/ Login
  BY <1>4, <1>13 DEF Write, Login, view, Phases
<1>14. CASE RenderUser
  <2>1. CASE NextForm
    BY <1>3, <2>1 DEF NextForm
  <2>2. CASE answer'.raised /\ FailRendering(answer'.exc)
    <3>1. answer'.exc \in {"AuthenticationFailed", "PermissionDenied", "Error"}
      BY <1>0, <1>14, <2>2, GetUser DEF RenderUser
    <3>. QED
      BY <1>6, <2>2, <3>1 DEF ResponseInv
  <2>. QED
    BY <1>14, <2>1, <2>2 DEF RenderUser
<1>15. CASE ShowForm
  <2>1. NextForm \/ FailRendering("Error") \/ FailRendering("Http404")
    BY <1>15 DEF ShowForm
  <2>2. CASE NextForm
    BY <1>3, <2>2 DEF NextForm
  <2>. QED
    BY <1>6, <2>1, <2>2 DEF ResponseInv
<1>16. CASE (Revoke /\ UNCHANGED <<view, db, given>>) \/ UNCHANGED vars
  BY <1>3, <1>16 DEF vars, view
<1>. QED
  BY <1>7, <1>8, <1>9, <1>10, <1>11, <1>12, <1>13, <1>14, <1>15, <1>16, <1>17 DEF Next

(***************************************************************************)
(* The forms.                                                               *)
(***************************************************************************)
Late == {"rendering", "check", "done"}

\* Until a form is checked no clone runs its classes, and the pages come last.
LEMMA ClonesWait ==
    ASSUME ViewTypeOK, AuthInv, FormInv, [Next]_vars, ~ShowForm
    PROVE  /\ \A c \in Requests \ {original} : runs'[c] = runs[c]
           /\ pc \in Late => /\ pc' \in Late
                             /\ response'.renderer = response.renderer
                             /\ response'.raised = response.raised
                             /\ response'.challenge => response.challenge
           /\ pc' = "check" => OverrideMethod \/ UNCHANGED <<pc, form, request>>
<1>0. original \in Requests
  BY RequestAuthAssumption
<1>1. CASE UNCHANGED <<request, runs, view>>
  BY <1>1 DEF view
<1>2. CASE PerformAuthentication \/ CheckPermissions
  <2>1. /\ pc \notin Late /\ pc' # "check"
        /\ Get(original, "user") \/ UNCHANGED authVars
    BY <1>2 DEF PerformAuthentication, CheckPermissions, Raise, Goto, Late
  <2>. QED
    BY <1>0, <2>1, GetUser DEF authVars
<1>3. CASE Login
  BY <1>3 DEF Login, SetUser, view, Late
<1>4. CASE RenderUser
  <2>1. Get(original, "user") /\ (NextForm \/ \E e : FailRendering(e))
    BY <1>4 DEF RenderUser
  <2>2. /\ pc' \in {"rendering", "done"}
        /\ response'.renderer = response.renderer /\ response'.raised = response.raised
        /\ response'.challenge => response.challenge
    BY <2>1 DEF NextForm, FailRendering, ViewTypeOK, Responses
  <2>. QED
    BY <1>0, <2>1, <2>2, GetUser DEF Late
<1>5. CASE OverrideMethod
  BY <1>5 DEF OverrideMethod, Clone, Goto, Late
<1>6. CASE Deliver
  BY <1>6 DEF Deliver, Goto, Late, authVars
<1>7. CASE Negotiate \/ DetermineVersion \/ CheckThrottles \/ GetObject \/ HandlerRaises
           \/ HandlerReturns \/ HandleException \/ FinalizeResponse \/ Exit
  <2>1. UNCHANGED authVars /\ pc \notin Late
    BY <1>7 DEF Negotiate, DetermineVersion, CheckThrottles, GetObject, HandlerRaises,
                HandlerReturns, HandleException, FinalizeResponse, Exit, Late
  <2>2. ObjectPermission(method) \in {"allow", "deny", "Http404"}
    BY DEF ObjectPermission
  <2>3. pc' # "check"
    BY <1>7, <2>2 DEF Negotiate, DetermineVersion, CheckThrottles, GetObject, HandlerRaises,
                HandlerReturns, HandleException, FinalizeResponse, Exit, Goto, Raise, Escape
  <2>. QED
    BY <2>1, <2>3 DEF authVars
<1>. QED
  BY <1>1, <1>2, <1>3, <1>4, <1>5, <1>6, <1>7 DEF Next, Write, Revoke, vars, authVars

\* The form that is checked has a clone that knows what the request knows: to read it is quiet.
LEMMA CheckedClone ==
    ASSUME AuthInv, FormInv, ClonesInv, Identified, ShowForm
    PROVE  /\ UNCHANGED runs
           /\ ~instance => NextForm
<1>1. form \in Requests /\ request[form].user # Unset
  BY FormsAreRequests DEF ShowForm, FormInv, ClonesInv, Identified
<1>2. CASE Get(form, "user")
  <2>1. UNCHANGED runs /\ ~answer'.raised
    BY <1>1, <1>2, GetUser
  <2>. QED
    BY <2>1 DEF ShowForm
<1>3. CASE ~Get(form, "user")
  BY <1>3 DEF ShowForm, authVars
<1>. QED
  BY <1>2, <1>3

LEMMA ClonesInductive ==
    ASSUME ViewTypeOK, AuthInv, FormInv, ResponseInv, ClonesInv, [Next]_vars
    PROVE  ClonesInv'
<1>0. UNCHANGED lazy
  BY DEF Next, Negotiate, DetermineVersion, PerformAuthentication, CheckPermissions,
         CheckThrottles, Write, Login, GetObject, HandlerRaises, HandlerReturns,
         HandleException, FinalizeResponse, Exit, Deliver, RenderUser, OverrideMethod,
         ShowForm, vars, given
<1>1. CASE ShowForm
  <2>1. pc' \in {"rendering", "done"}
    BY <1>1 DEF ShowForm, NextForm, FailRendering
  <2>2. /\ response'.renderer = response.renderer /\ response'.raised = response.raised
        /\ response'.challenge => response.challenge
    <3>1. NextForm \/ \E e : FailRendering(e)
      BY <1>1 DEF ShowForm
    <3>. QED
      BY <3>1 DEF NextForm, FailRendering, ViewTypeOK, Responses
  <2>3. ASSUME ~lazy, Returned \/ response.challenge
        PROVE  UNCHANGED runs
    <3>1. Identified
      BY <2>3 DEF ResponseInv
    <3>. QED
      BY <1>1, <3>1, CheckedClone
  <2>. QED
    BY <1>0, <2>1, <2>2, <2>3 DEF ClonesInv, FormsDoNotAuthenticate, Returned
<1>2. CASE ~ShowForm
  <2>1. /\ \A c \in Requests \ {original} : runs'[c] = runs[c]
        /\ pc \in Late => /\ pc' \in Late
                          /\ response'.renderer = response.renderer
                          /\ response'.raised = response.raised
                          /\ response'.challenge => response.challenge
        /\ pc' = "check" => OverrideMethod \/ UNCHANGED <<pc, form, request>>
    BY <1>2, ClonesWait
  <2>2. pc' \notin Late => \A c \in Requests \ {original} : runs'[c] = 0
    BY <2>1 DEF ClonesInv, Late
  <2>3. FormsDoNotAuthenticate'
    <3>1. CASE pc \in Late
      BY <1>0, <2>1, <3>1 DEF ClonesInv, FormsDoNotAuthenticate, Returned
    <3>2. CASE pc \notin Late
      BY <2>1, <3>2 DEF ClonesInv, FormsDoNotAuthenticate, Late
    <3>. QED
      BY <3>1, <3>2
  <2>4. pc' = "check" => request'[form'].user = request'[original].user
    <3>1. ASSUME OverrideMethod
          PROVE  request'[form'].user = request'[original].user
      <4>1. form \in Requests /\ original \in Requests /\ Clone(original, form) /\ form' = form
        BY <3>1, FormsAreRequests DEF OverrideMethod, Goto
      <4>2. request'[form] = request[original] /\ form # original
        BY <4>1 DEF Clone, AuthInv, AuthTypeOK
      <4>3. request'[original] = request[original]
        BY <4>1, <4>2 DEF Clone, AuthInv, AuthTypeOK
      <4>. QED
        BY <4>1, <4>2, <4>3
    <3>. QED
      BY <2>1, <3>1 DEF ClonesInv
  <2>. QED
    BY <2>2, <2>3, <2>4 DEF ClonesInv, Late
<1>. QED
  BY <1>1, <1>2

(***************************************************************************)
(* The properties of refusals.                                              *)
(***************************************************************************)
RefusalInv ==
    /\ ViewTypeOK /\ DbTypeOK /\ DbInv
    /\ AuthInv /\ FormInv
    /\ UserInv /\ PhaseInv /\ ResponseInv /\ ClonesInv

LEMMA RefusalInitial == Init => RefusalInv
<1>. SUFFICES ASSUME Init PROVE RefusalInv
  OBVIOUS
<1>1. AuthInv
  BY AuthInitial DEF Init
<1>2. /\ request[original] = Fresh /\ assigned[original] = Unset
      /\ \A c \in Requests : runs[c] = 0
  BY RequestAuthAssumption DEF Init, AuthInit
<1>3. /\ pc = "negotiate" /\ exc = None /\ form = 0 /\ instance = FALSE
      /\ response = NoResponse /\ rollback = FALSE /\ written = FALSE /\ committed = FALSE
  BY DEF Init
<1>4. UserInv
  BY <1>2, RequestAuthAssumption DEF UserInv, Exists, Fresh, NoObject
<1>5. PhaseInv
  BY <1>2, <1>3 DEF PhaseInv, Early, Phases
<1>6. exc # "PermissionDenied"
  <2>1. exc = None /\ None # "PermissionDenied"
    BY <1>3, DispatchAssumption DEF Exceptions, APIExceptions
  <2>. QED
    BY <2>1
<1>7. ResponseInv
  BY <1>3, <1>6 DEF ResponseInv, NoResponse, Returned
<1>8. ClonesInv
  BY <1>2, <1>3 DEF ClonesInv, FormsDoNotAuthenticate
<1>9. DbInv /\ FormInv
  BY <1>3 DEF DbInv, FormInv, Phases, NoResponse, AtomicRequests, Dispatched
<1>. QED
  BY <1>1, <1>4, <1>5, <1>7, <1>8, <1>9, Initial DEF RefusalInv

LEMMA RefusalInductive == RefusalInv /\ [Next]_vars => RefusalInv'
<1>. SUFFICES ASSUME RefusalInv, [Next]_vars PROVE RefusalInv'
  OBVIOUS
<1>1. ViewTypeOK' /\ DbTypeOK' /\ DbInv' /\ FormInv'
  BY ViewInductive, DbTypes, DbInductive, FormInductive DEF RefusalInv
<1>2. AuthInv'
  BY AuthStep, AuthInductive DEF RefusalInv
<1>3. UserInv'
  BY UserInductive DEF RefusalInv
<1>4. PhaseInv'
  BY <1>3, PhaseInductive DEF RefusalInv
<1>5. ResponseInv'
  BY <1>3, <1>4, ResponseInductive DEF RefusalInv
<1>6. ClonesInv'
  BY ClonesInductive DEF RefusalInv
<1>. QED
  BY <1>1, <1>2, <1>3, <1>4, <1>5, <1>6 DEF RefusalInv

LEMMA RefusalInvariant == Spec => []RefusalInv
  BY RefusalInitial, RefusalInductive, PTL DEF Spec

\* No handler runs for a user whom the permissions of the view would not let pass, also with
\* authentication left to whoever reads the user first.
THEOREM HandlersArePermitted == Spec => []HandlerIsPermitted
<1>1. RefusalInv => HandlerIsPermitted
  BY DEF RefusalInv, PhaseInv, Permitted, HandlerIsPermitted
<1>. QED
  BY <1>1, RefusalInvariant, PTL

\* In a view with authentication classes, whatever its handler raises or returns: a challenge comes
\* with a 401, every 401 that the handler did not declare comes with a challenge, and when it is
\* dispatch that refuses, a 401 goes to requests that no class recognised and a 403 of the
\* permissions to those that one did.
THEOREM ChallengesAreFit == ASSUME Chain # <<>> PROVE Spec => []Challenge
<1>1. RefusalInv => Challenge
  BY DEF RefusalInv, ResponseInv, Rejected, Challenge
<1>. QED
  BY <1>1, RefusalInvariant, PTL

\* Where dispatch authenticates the request, the forms of the browsable API ask no authentication
\* class again.
THEOREM FormsStayQuiet == Spec => []FormsDoNotAuthenticate
<1>1. RefusalInv => FormsDoNotAuthenticate
  BY DEF RefusalInv, ClonesInv
<1>. QED
  BY <1>1, RefusalInvariant, PTL

\* Where dispatch authenticates the request, the client gets the 401 or 403 that it decided on:
\* rendering it does not fail.
THEOREM RefusalsAreDelivered == Spec => RefusalIsDelivered
<1>1. ASSUME RefusalInv, [Next]_vars, ~lazy, Dispatched, response.raised,
             response.status \in {401, 403}
      PROVE  response'.status = response.status
  <2>1. ~instance /\ Identified
    BY <1>1 DEF RefusalInv, ResponseInv
  <2>2. CASE ShowForm
    BY <1>1, <2>1, <2>2, CheckedClone DEF RefusalInv, NextForm
  <2>3. CASE RenderUser
    <3>1. ~answer'.raised
      BY <1>1, <2>1, <2>3, RequestAuthAssumption, GetUser DEF RefusalInv, RenderUser, Identified
    <3>. QED
      BY <2>3, <3>1 DEF RenderUser, NextForm
  <2>4. CASE Deliver \/ OverrideMethod
    BY <2>4 DEF Deliver, OverrideMethod, Goto
  <2>5. CASE (Revoke /\ UNCHANGED <<view, db, given>>) \/ UNCHANGED vars
    BY <2>5 DEF view, vars
  <2>. QED
    BY <1>1, <2>2, <2>3, <2>4, <2>5
       DEF Dispatched, Next, Negotiate, DetermineVersion, PerformAuthentication, CheckPermissions,
           CheckThrottles, Write, Login, GetObject, HandlerRaises, HandlerReturns,
           HandleException, FinalizeResponse, Exit
<1>2. RefusalInv /\ [Next]_vars
      => [~lazy /\ Dispatched /\ response.raised /\ response.status \in {401, 403}
          => response'.status = response.status]_vars
  BY <1>1
<1>. QED
  BY <1>2, RefusalInvariant, PTL DEF RefusalIsDelivered, Spec
=============================================================================
