------------------------- MODULE ApiExplorerProofs -------------------------
(***************************************************************************)
(* Proofs about ApiExplorer, for every schema document, any calls, answers,  *)
(* texts and cookies: what a panel displays, which token a session sends,   *)
(* that the client under the explorer implements ApiCalls, and, of the      *)
(* documents that the schema generator makes, that a form makes a call of   *)
(* its own link with what was typed into it.                                *)
(***************************************************************************)
EXTENDS ApiExplorer, SequenceTheorems, WellFoundedInduction, TLAPS

(***************************************************************************)
(* What the steps of the client do to a call.                               *)
(***************************************************************************)
CallFields == {"phase", "request", "answer", "heard"}

LEMMA UnusedFields == DOMAIN Unused = CallFields
BY DEF Unused, CallFields

\* The other calls stay what they are.
Keeps(c) == DOMAIN call' = Calls /\ \A d \in Calls \ {c} : call'[d] = call[d]

LEMMA ActionEffect ==
    ASSUME ClientTypeOK, NEW c \in Calls, NEW doc, NEW keys, NEW params, NEW auth,
           action(c, doc, keys, params, auth)
    PROVE  /\ Keeps(c)
           /\ call[c].phase = "unused"
           /\ DOMAIN call'[c] = CallFields
           /\ call'[c].phase \in {"thrown", "sent"}
           /\ call'[c].answer = Absent /\ call'[c].heard = Absent
           /\ call'[c].phase = "thrown" => call'[c].request = Absent
           /\ call'[c].phase = "sent" => \E link : call'[c].request = buildRequest(link, params, auth)
<1>1. DOMAIN call = Calls
  BY DEF ClientTypeOK
<1>2. PICK link : call' = [call EXCEPT ![c] =
              IF \/ link = Absent
                 \/ ~determineTransport(link)
                 \/ ParameterError(link.fields, params)
                 \/ AssignmentError(link.fields, params)
              THEN [Unused EXCEPT !.phase = "thrown"]
              ELSE [Unused EXCEPT !.phase = "sent", !.request = buildRequest(link, params, auth)]]
  BY DEF action
<1>3. Keeps(c) /\ call[c].phase = "unused"
  BY <1>1, <1>2 DEF Keeps, action
<1>4. \/ call'[c] = [Unused EXCEPT !.phase = "thrown"]
      \/ call'[c] = [Unused EXCEPT !.phase = "sent", !.request = buildRequest(link, params, auth)]
  BY <1>1, <1>2
<1>. QED
  BY <1>3, <1>4 DEF Unused, CallFields

LEMMA AnsweredEffect ==
    ASSUME ClientTypeOK, NEW c \in Calls, NEW a \in Answers, Answered(c, a)
    PROVE  /\ Keeps(c)
           /\ call[c].phase = "sent"
           /\ DOMAIN call'[c] = CallFields
           /\ call'[c].phase = IF NoContent(a) THEN "resolved" ELSE "body"
           /\ call'[c].answer = a
           /\ call'[c].heard = call[c].heard /\ call'[c].request = call[c].request
<1>1. DOMAIN call = Calls /\ DOMAIN call[c] = CallFields
  BY UnusedFields DEF ClientTypeOK
<1>. QED
  BY <1>1 DEF Answered, Keeps, CallFields

LEMMA ParseEffect ==
    ASSUME ClientTypeOK, NEW c \in Calls, parseResponse(c)
    PROVE  /\ Keeps(c)
           /\ call[c].phase = "body"
           /\ DOMAIN call'[c] = CallFields
           /\ call'[c].phase = IF Ok(call[c].answer) /\ Decodes(call[c].answer)
                               THEN "resolved" ELSE "rejected"
           /\ call'[c].heard = call[c].answer
           /\ call'[c].answer = call[c].answer /\ call'[c].request = call[c].request
<1>1. DOMAIN call = Calls /\ DOMAIN call[c] = CallFields
  BY UnusedFields DEF ClientTypeOK
<1>. QED
  BY <1>1 DEF parseResponse, Keeps, CallFields

LEMMA FailedEffect ==
    ASSUME ClientTypeOK, NEW c \in Calls, Failed(c)
    PROVE  /\ Keeps(c)
           /\ call[c].phase \in Pending
           /\ DOMAIN call'[c] = CallFields
           /\ call'[c].phase = "rejected"
           /\ call'[c].heard = call[c].heard
           /\ call'[c].answer = call[c].answer /\ call'[c].request = call[c].request
<1>1. DOMAIN call = Calls /\ DOMAIN call[c] = CallFields
  BY UnusedFields DEF ClientTypeOK
<1>. QED
  BY <1>1 DEF Failed, Keeps, CallFields

(***************************************************************************)
(* What the callbacks do to a panel.                                        *)
(***************************************************************************)
LEMMA PanelFields == DOMAIN NewPanel = {"line", "answer", "data", "shown", "pressed"}
BY DEF NewPanel

LEMMA PanelSteps ==
    ASSUME NEW p, PanelTypeOK(p), NEW c \in Calls, responseDisplay \in {"data", "raw"}
    PROVE  /\ PanelTypeOK(requestCallback(p, c))
           /\ requestCallback(p, c).line = c
           /\ \A x \in {"answer", "data", "shown", "pressed"} : requestCallback(p, c)[x] = p[x]
           /\ PanelTypeOK(responseCallback(p, c))
           /\ responseCallback(p, c).answer = c
           /\ \A x \in {"line", "data", "shown", "pressed"} : responseCallback(p, c)[x] = p[x]
           /\ PanelTypeOK(Display(p, c))
           /\ Display(p, c).data = c /\ Display(p, c).shown = responseDisplay
           /\ \A x \in {"line", "answer", "pressed"} : Display(p, c)[x] = p[x]
BY PanelFields DEF PanelTypeOK, requestCallback, responseCallback, Display

\* The panels of the other forms stay what they are.
KeepsPanels(f) ==
    DOMAIN panel' = Forms(document) /\ \A g \in Forms(document) \ {f} : panel'[g] = panel[g]

LEMMA SettleEffect ==
    ASSUME TypeOK, NEW c \in Calls, call[c].phase # "unused", Settle(c)
    PROVE  /\ submission[c].form \in Forms(document)
           /\ KeepsPanels(submission[c].form)
           /\ panel'[submission[c].form] = Display(panel[submission[c].form], c)
BY DEF TypeOK, Settle, KeepsPanels

LEMMA ReadEffect ==
    ASSUME TypeOK, NEW c \in Calls, Read(c)
    PROVE  /\ submission[c].form \in Forms(document)
           /\ KeepsPanels(submission[c].form)
           /\ panel'[submission[c].form]
                = Display(responseCallback(panel[submission[c].form], c), c)
<1>1. call[c].phase # "unused"
  BY DEF Read, parseResponse
<1>. QED
  BY <1>1 DEF TypeOK, Read, KeepsPanels

LEMMA SubmitEffect ==
    ASSUME TypeOK, NEW f \in Forms(document), NEW c \in Calls, Submit(f, c)
    PROVE  /\ KeepsPanels(f)
           /\ call'[c].phase = "sent" => panel'[f] = requestCallback(panel[f], c)
           /\ call'[c].phase # "sent" => panel'[f] = panel[f]
           /\ DOMAIN submission' = Calls
           /\ \A d \in Calls \ {c} : submission'[d] = submission[d]
           /\ submission'[c].form = f /\ submission'[c].cookie = cookie
           /\ submission'[c].alone = (InFlight(f) = {})
BY DEF TypeOK, Submit, KeepsPanels

(***************************************************************************)
(* The type invariant.                                                      *)
(***************************************************************************)
LEMMA Initial == Init => TypeOK
<1>. SUFFICES ASSUME Init PROVE TypeOK
  OBVIOUS
<1>1. ClientTypeOK
  BY DEF Init, ClientInit, ClientTypeOK, Unused, Phases
<1>2. \A f \in Forms(document) : PanelTypeOK(panel[f])
  BY DEF Init, PanelTypeOK, NewPanel
<1>. QED
  BY <1>1, <1>2, AuthenticationsAssumption DEF Init, TypeOK, ClientInit, Unused

LEMMA ClientInductive == ASSUME TypeOK, [Next]_vars PROVE ClientTypeOK'
<1>1. ClientTypeOK
  BY DEF TypeOK
<1>2. ASSUME NEW c \in Calls, Keeps(c), DOMAIN call'[c] = CallFields, call'[c].phase \in Phases,
             {call'[c].answer, call'[c].heard} \subseteq Answers \cup {Absent},
             call'[c].phase = "body"
               => call'[c].answer \in Answers /\ ~NoContent(call'[c].answer)
      PROVE  ClientTypeOK'
  BY <1>1, <1>2, UnusedFields DEF ClientTypeOK, Keeps
<1>3. ASSUME NEW f \in Forms(document), NEW c \in Calls, Submit(f, c)
      PROVE  ClientTypeOK'
  <2>1. PICK keys, doc, params, auth : action(c, doc, keys, params, auth)
    BY <1>3 DEF Submit
  <2>. QED
    BY <1>1, <1>2, <2>1, ActionEffect DEF Phases
<1>4. ASSUME NEW c \in Calls, Answer(c)
      PROVE  ClientTypeOK'
  <2>1. PICK a \in Answers : Answered(c, a)
    BY <1>4 DEF Answer
  <2>2. call[c].heard \in Answers \cup {Absent}
    BY <1>1 DEF ClientTypeOK
  <2>. QED
    BY <1>1, <1>2, <2>1, <2>2, AnsweredEffect DEF Phases
<1>5. ASSUME NEW c \in Calls, parseResponse(c) \/ Failed(c)
      PROVE  ClientTypeOK'
  <2>1. {call[c].answer, call[c].heard} \subseteq Answers \cup {Absent}
    BY <1>1 DEF ClientTypeOK
  <2>. QED
    BY <1>1, <1>2, <1>5, <2>1, ParseEffect, FailedEffect DEF Phases
<1>6. CASE UNCHANGED call
  BY <1>1, <1>6 DEF ClientTypeOK
<1>. QED
  BY <1>3, <1>4, <1>5, <1>6 DEF Next, Read, Fail, Toggle, Authenticate, Rotate, vars

LEMMA PanelInductive ==
    ASSUME TypeOK, [Next]_vars
    PROVE  /\ document' = document /\ DOMAIN panel' = Forms(document)
           /\ \A f \in Forms(document) : PanelTypeOK(panel'[f])
<1>1. /\ DOMAIN panel = Forms(document) /\ responseDisplay \in {"data", "raw"}
      /\ \A f \in Forms(document) : PanelTypeOK(panel[f])
  BY DEF TypeOK
<1>2. document' = document
  BY DEF Next, Submit, Answer, Read, Fail, Toggle, Authenticate, Rotate, vars
<1>3. ASSUME NEW f \in Forms(document), KeepsPanels(f), PanelTypeOK(panel'[f])
      PROVE  DOMAIN panel' = Forms(document) /\ \A g \in Forms(document) : PanelTypeOK(panel'[g])
  BY <1>1, <1>3 DEF KeepsPanels
<1>4. ASSUME NEW f \in Forms(document), NEW c \in Calls, Submit(f, c)
      PROVE  PanelTypeOK(panel'[f]) /\ KeepsPanels(f)
  <2>1. PanelTypeOK(panel[f]) /\ PanelTypeOK(requestCallback(panel[f], c))
    BY <1>1, PanelSteps
  <2>. QED
    BY <1>4, <2>1, SubmitEffect
<1>5. ASSUME NEW c \in Calls, call[c].phase # "unused", Settle(c)
      PROVE  \E f \in Forms(document) : KeepsPanels(f) /\ PanelTypeOK(panel'[f])
  BY <1>1, <1>5, SettleEffect, PanelSteps
<1>6. ASSUME NEW c \in Calls, Read(c)
      PROVE  \E f \in Forms(document) : KeepsPanels(f) /\ PanelTypeOK(panel'[f])
  <2>1. PanelTypeOK(responseCallback(panel[submission[c].form], c))
    BY <1>1, <1>6, ReadEffect, PanelSteps
  <2>. QED
    BY <1>1, <1>6, <2>1, ReadEffect, PanelSteps
<1>7. ASSUME NEW f \in Forms(document), NEW d \in {"data", "raw"}, Toggle(f, d)
      PROVE  KeepsPanels(f) /\ PanelTypeOK(panel'[f])
  <2>1. DOMAIN panel[f] = {"line", "answer", "data", "shown", "pressed"}
    BY <1>1, PanelFields DEF PanelTypeOK
  <2>. QED
    BY <1>1, <1>7, <2>1, PanelFields DEF Toggle, KeepsPanels, PanelTypeOK
<1>8. CASE UNCHANGED panel
  BY <1>1, <1>2, <1>8
<1>9. ASSUME NEW c \in Calls, Answer(c) \/ Fail(c)
      PROVE  UNCHANGED panel \/ (call[c].phase # "unused" /\ Settle(c))
  BY <1>9 DEF Answer, Fail, Answered, Failed, Pending
<1>10. \/ UNCHANGED panel
       \/ \E f \in Forms(document) : KeepsPanels(f) /\ PanelTypeOK(panel'[f])
  <2>1. CASE \E f \in Forms(document), c \in Calls : Submit(f, c)
    BY <1>4, <2>1
  <2>2. CASE \E c \in Calls : Answer(c) \/ Read(c) \/ Fail(c)
    BY <1>5, <1>6, <1>9, <2>2
  <2>3. CASE \E f \in Forms(document), d \in {"data", "raw"} : Toggle(f, d)
    BY <1>7, <2>3
  <2>. QED
    BY <2>1, <2>2, <2>3 DEF Next, Authenticate, Rotate, vars
<1>11. CASE \E f \in Forms(document) : KeepsPanels(f) /\ PanelTypeOK(panel'[f])
  <2>1. PICK f \in Forms(document) : KeepsPanels(f) /\ PanelTypeOK(panel'[f])
    BY <1>11
  <2>. QED
    BY <1>2, <1>3, <2>1
<1>. QED
  BY <1>8, <1>10, <1>11

LEMMA TypesInductive == ASSUME TypeOK, [Next]_vars PROVE TypeOK'
<1>1. ClientTypeOK' /\ ClientTypeOK
  BY ClientInductive DEF TypeOK
<1>2. responseDisplay' \in {"data", "raw"} /\ authentication' \in Authentications /\ cookie' \in Cookies
  BY DEF TypeOK, Next, Submit, Answer, Read, Fail, Toggle, Authenticate, Rotate, vars
<1>3. ASSUME NEW f \in Forms(document), NEW c \in Calls, Submit(f, c)
      PROVE  /\ DOMAIN submission' = Calls
             /\ \A d \in Calls : call'[d].phase # "unused" => submission'[d].form \in Forms(document)
  <2>1. Keeps(c)
    BY <1>1, <1>3, ActionEffect DEF Submit
  <2>. QED
    BY <1>3, <2>1, SubmitEffect DEF TypeOK, Keeps
<1>4. ASSUME NEW c \in Calls, Keeps(c), call[c].phase # "unused", UNCHANGED submission
      PROVE  /\ DOMAIN submission' = Calls
             /\ \A d \in Calls : call'[d].phase # "unused" => submission'[d].form \in Forms(document)
  BY <1>4 DEF TypeOK, Keeps
<1>5. ASSUME NEW c \in Calls, Answer(c) \/ Read(c) \/ Fail(c)
      PROVE  Keeps(c) /\ call[c].phase # "unused" /\ UNCHANGED submission
  <2>1. CASE Answer(c)
    BY <1>1, <2>1, AnsweredEffect DEF Answer
  <2>2. CASE Read(c)
    BY <1>1, <2>2, ParseEffect DEF Read
  <2>3. CASE Fail(c)
    BY <1>1, <2>3, FailedEffect DEF Fail, Pending
  <2>. QED
    BY <1>5, <2>1, <2>2, <2>3
<1>6. ASSUME UNCHANGED <<call, submission>>
      PROVE  /\ DOMAIN submission' = Calls
             /\ \A d \in Calls : call'[d].phase # "unused" => submission'[d].form \in Forms(document)
  BY <1>6 DEF TypeOK
<1>7. /\ DOMAIN submission' = Calls
      /\ \A d \in Calls : call'[d].phase # "unused" => submission'[d].form \in Forms(document)
  BY <1>3, <1>4, <1>5, <1>6 DEF Next, Toggle, Authenticate, Rotate, vars
<1>8. document' = document /\ document \in Documents
  BY PanelInductive DEF TypeOK
<1>. QED
  BY <1>1, <1>2, <1>7, <1>8, PanelInductive DEF TypeOK

\* Every reachable state of the explorer has the shape api.js and coreapi-0.1.1.js give it.
THEOREM ExplorerTypes == Spec => []TypeOK
BY Initial, TypesInductive, PTL DEF Spec

(***************************************************************************)
(* What a panel displays.                                                   *)
(***************************************************************************)
\* Call c goes on: either its answer has begun to come, which nothing displays, or it settles and
\* its panel displays it, with the answer that it has heard.
Settling(c, f) ==
    /\ call'[c].phase \in Settled
    /\ panel'[f].data = c /\ panel'[f].shown = responseDisplay
    /\ panel'[f].line = panel[f].line /\ panel'[f].pressed = panel[f].pressed
    /\ \/ call'[c].heard # Absent /\ panel'[f].answer = c
       \/ call'[c].heard = call[c].heard /\ panel'[f].answer = panel[f].answer

GoesOn(c, f) ==
    /\ f \in Forms(document) /\ submission[c].form = f
    /\ Keeps(c) /\ KeepsPanels(f)
    /\ call[c].phase \in Pending /\ call'[c].request = call[c].request
    /\ \/ call'[c].phase = "body" /\ call'[c].heard = call[c].heard /\ panel'[f] = panel[f]
       \/ Settling(c, f)
    /\ UNCHANGED <<document, responseDisplay, authentication, cookie, submission>>

LEMMA GoingOn ==
    ASSUME TypeOK, NEW c \in Calls, Answer(c) \/ Read(c) \/ Fail(c)
    PROVE  GoesOn(c, submission[c].form)
<1>. DEFINE f == submission[c].form
<1>1. ClientTypeOK /\ responseDisplay \in {"data", "raw"} /\ DOMAIN panel = Forms(document)
  BY DEF TypeOK
<1>2. ASSUME call[c].phase # "unused", Settle(c)
      PROVE  /\ f \in Forms(document) /\ KeepsPanels(f)
             /\ panel'[f].data = c /\ panel'[f].shown = responseDisplay
             /\ panel'[f].line = panel[f].line /\ panel'[f].pressed = panel[f].pressed
             /\ panel'[f].answer = panel[f].answer
  <2>1. f \in Forms(document) /\ KeepsPanels(f) /\ panel'[f] = Display(panel[f], c)
    BY <1>2, SettleEffect
  <2>2. PanelTypeOK(panel[f])
    BY <2>1 DEF TypeOK
  <2>. QED
    BY <1>1, <2>1, <2>2, PanelSteps
<1>3. CASE Answer(c)
  <2>1. PICK a \in Answers : Answered(c, a)
    BY <1>3 DEF Answer
  <2>2. /\ Keeps(c) /\ call[c].phase = "sent" /\ call'[c].request = call[c].request
        /\ call'[c].heard = call[c].heard /\ call'[c].phase \in {"body", "resolved"}
    BY <1>1, <2>1, AnsweredEffect
  <2>3. CASE call'[c].phase = "resolved"
    BY <1>2, <1>3, <2>2, <2>3 DEF Answer, GoesOn, Settling, Pending, Settled
  <2>4. CASE call'[c].phase = "body"
    <3>1. f \in Forms(document) /\ UNCHANGED panel
      BY <1>3, <2>2, <2>4 DEF Answer, TypeOK
    <3>. QED
      BY <1>1, <1>3, <2>2, <2>4, <3>1 DEF Answer, GoesOn, KeepsPanels, Pending
  <2>. QED
    BY <2>2, <2>3, <2>4
<1>4. CASE Read(c)
  <2>1. /\ Keeps(c) /\ call[c].phase = "body" /\ call'[c].request = call[c].request
        /\ call'[c].phase \in {"resolved", "rejected"} /\ call'[c].heard # Absent
    BY <1>1, <1>4, ParseEffect, CallsAssumption DEF Read, ClientTypeOK
  <2>2. /\ f \in Forms(document) /\ KeepsPanels(f)
        /\ panel'[f] = Display(responseCallback(panel[f], c), c)
    BY <1>4, ReadEffect
  <2>3. PanelTypeOK(panel[f]) /\ PanelTypeOK(responseCallback(panel[f], c))
    BY <1>1, <2>2, PanelSteps DEF TypeOK
  <2>4. /\ panel'[f].data = c /\ panel'[f].shown = responseDisplay /\ panel'[f].answer = c
        /\ panel'[f].line = panel[f].line /\ panel'[f].pressed = panel[f].pressed
    BY <1>1, <2>2, <2>3, PanelSteps
  <2>. QED
    BY <1>4, <2>1, <2>2, <2>4 DEF Read, GoesOn, Settling, Pending, Settled
<1>5. CASE Fail(c)
  <2>1. /\ Keeps(c) /\ call[c].phase \in Pending /\ call'[c].phase = "rejected"
        /\ call'[c].request = call[c].request /\ call'[c].heard = call[c].heard
    BY <1>1, <1>5, FailedEffect DEF Fail
  <2>. QED
    BY <1>2, <1>5, <2>1 DEF Fail, GoesOn, Settling, Pending, Settled
<1>. QED
  BY <1>3, <1>4, <1>5

\* A call is begun.
Begins(c, f) ==
    /\ f \in Forms(document)
    /\ Keeps(c) /\ KeepsPanels(f)
    /\ call[c].phase = "unused" /\ call'[c].phase \in {"thrown", "sent"} /\ call'[c].heard = Absent
    /\ \A d \in Calls : d < c => call[d].phase # "unused"
    /\ \A x \in {"answer", "data", "shown", "pressed"} : panel'[f][x] = panel[f][x]
    /\ panel'[f].line = IF call'[c].phase = "sent" THEN c ELSE panel[f].line
    /\ \A d \in Calls \ {c} : submission'[d] = submission[d]
    /\ submission'[c].form = f
    /\ submission'[c].alone => InFlight(f) = {}
    /\ UNCHANGED <<document, responseDisplay>>

LEMMA Beginning ==
    ASSUME TypeOK, NEW f \in Forms(document), NEW c \in Calls, Submit(f, c)
    PROVE  Begins(c, f)
<1>1. ClientTypeOK /\ PanelTypeOK(panel[f]) /\ responseDisplay \in {"data", "raw"}
  BY DEF TypeOK
<1>2. /\ Keeps(c) /\ call[c].phase = "unused"
      /\ call'[c].phase \in {"thrown", "sent"} /\ call'[c].heard = Absent
  BY <1>1, ActionEffect DEF Submit
<1>3. /\ \A x \in {"answer", "data", "shown", "pressed"} : panel'[f][x] = panel[f][x]
      /\ panel'[f].line = IF call'[c].phase = "sent" THEN c ELSE panel[f].line
  BY <1>1, SubmitEffect, PanelSteps
<1>4. /\ \A d \in Calls : d < c => call[d].phase # "unused"
      /\ UNCHANGED <<document, responseDisplay>>
  BY DEF Submit
<1>. QED
  BY <1>2, <1>3, <1>4, SubmitEffect DEF Begins

\* No call changes, and what the panels display of the calls does not change.
Rests ==
    /\ UNCHANGED <<call, submission, document>>
    /\ \A f \in Forms(document), x \in {"line", "answer", "data"} : panel'[f][x] = panel[f][x]
    /\ \A f \in Forms(document) : panel'[f].shown = "awaiting" => panel[f].shown = "awaiting"

LEMMA Steps ==
    ASSUME TypeOK, [Next]_vars
    PROVE  \/ \E f \in Forms(document), c \in Calls : Begins(c, f)
           \/ \E f \in Forms(document), c \in Calls : GoesOn(c, f)
           \/ Rests
<1>1. ASSUME NEW f \in Forms(document), NEW d \in {"data", "raw"}, Toggle(f, d)
      PROVE  Rests
  <2>1. DOMAIN panel = Forms(document) /\ PanelTypeOK(panel[f])
    BY DEF TypeOK
  <2>. QED
    BY <1>1, <2>1, PanelFields DEF Toggle, Rests, PanelTypeOK
<1>2. CASE UNCHANGED <<call, submission, document, panel>>
  BY <1>2 DEF Rests
<1>3. ASSUME NEW c \in Calls, Answer(c) \/ Read(c) \/ Fail(c)
      PROVE  \E f \in Forms(document) : GoesOn(c, f)
  BY <1>3, GoingOn DEF GoesOn
<1>. QED
  BY <1>1, <1>2, <1>3, Beginning DEF Next, Authenticate, Rotate, vars

HeardWhenSettled == \A c \in Calls : call[c].heard # Absent => call[c].phase \in Settled
DataOfSettled ==
    \A f \in Forms(document) :
        panel[f].data # Absent => panel[f].data \in Calls /\ call[panel[f].data].phase \in Settled

ExchangeInv == HeardWhenSettled /\ DataOfSettled /\ OneExchange

LEMMA ExchangeInitial == Init => ExchangeInv
BY DEF Init, ClientInit, ExchangeInv, HeardWhenSettled, DataOfSettled, OneExchange, NewPanel, Unused

LEMMA ExchangeInductive == ASSUME TypeOK, ExchangeInv, [Next]_vars PROVE ExchangeInv'
<1>1. ASSUME NEW g \in Forms(document), NEW c \in Calls, Begins(c, g)
      PROVE  ExchangeInv'
  <2>1. HeardWhenSettled'
    BY <1>1 DEF ExchangeInv, HeardWhenSettled, Begins, Keeps
  <2>2. \A f \in Forms(document) : panel'[f].data = panel[f].data /\ panel'[f].answer = panel[f].answer
    BY <1>1 DEF Begins, KeepsPanels
  <2>3. \A d \in Calls : call[d].phase \in Settled => call'[d] = call[d]
    BY <1>1 DEF Begins, Keeps, Settled
  <2>. QED
    BY <1>1, <2>1, <2>2, <2>3 DEF ExchangeInv, DataOfSettled, OneExchange, Begins
<1>2. ASSUME NEW g \in Forms(document), NEW c \in Calls, GoesOn(c, g)
      PROVE  ExchangeInv'
  <2>1. call[c].heard = Absent
    BY <1>2 DEF ExchangeInv, HeardWhenSettled, GoesOn, Pending, Settled
  <2>2. HeardWhenSettled'
    BY <1>2, <2>1 DEF ExchangeInv, HeardWhenSettled, GoesOn, Settling, Keeps
  <2>3. \A d \in Calls : call[d].phase \in Settled => call'[d] = call[d]
    BY <1>2 DEF GoesOn, Keeps, Pending, Settled
  <2>4. \A f \in Forms(document) :
            \/ panel'[f] = panel[f]
            \/ f = g /\ Settling(c, g)
    BY <1>2 DEF GoesOn, KeepsPanels
  <2>5. DataOfSettled'
    BY <1>2, <2>3, <2>4 DEF ExchangeInv, DataOfSettled, GoesOn, Settling
  <2>6. OneExchange'
    BY <1>2, <2>1, <2>3, <2>4 DEF ExchangeInv, DataOfSettled, OneExchange, GoesOn, Settling
  <2>. QED
    BY <2>2, <2>5, <2>6 DEF ExchangeInv
<1>3. ASSUME Rests
      PROVE  ExchangeInv'
  BY <1>3 DEF Rests, ExchangeInv, HeardWhenSettled, DataOfSettled, OneExchange
<1>. QED
  BY <1>1, <1>2, <1>3, Steps

\* However many calls a form makes and however their answers overtake each other, the data that its
\* panel displays stands beside the status and the raw text of the same answer.
THEOREM PanelsShowOneExchange == Spec => []OneExchange
<1>1. TypeOK /\ ExchangeInv /\ [Next]_vars => (TypeOK /\ ExchangeInv)'
  BY TypesInductive, ExchangeInductive
<1>2. Init => TypeOK /\ ExchangeInv
  BY Initial, ExchangeInitial
<1>3. ExchangeInv => OneExchange
  BY DEF ExchangeInv
<1>. QED
  BY <1>1, <1>2, <1>3, PTL DEF Spec

(***************************************************************************)
(* The last call of a form, if it was made alone.                           *)
(***************************************************************************)
\* Calls are made in their order.
InOrder == \A c, d \in Calls : d < c /\ call[c].phase # "unused" => call[d].phase # "unused"

Latest(f, c) == c \in Sent(f) /\ \A d \in Sent(f) : d <= c

LineOfLatest == \A f \in Forms(document), c \in Calls : Latest(f, c) => panel[f].line = c

\* When a call was made alone, the calls of its form before it had settled.
AloneAfterSettled ==
    \A f \in Forms(document), c, d \in Calls :
        c \in Sent(f) /\ d \in Sent(f) /\ d < c /\ submission[c].alone => call[d].phase \in Settled

LatestIsSeen ==
    \A f \in Forms(document), c \in Calls :
        Latest(f, c) /\ submission[c].alone /\ call[c].phase \in Settled
        => panel[f].data = c /\ (call[c].heard # Absent => panel[f].answer = c)

SeenInv == InOrder /\ LineOfLatest /\ AloneAfterSettled /\ LatestIsSeen

LEMMA SeenInitial == Init => SeenInv
BY DEF Init, ClientInit, SeenInv, InOrder, LineOfLatest, AloneAfterSettled, LatestIsSeen,
       Latest, Sent, Unused, Pending, Settled

LEMMA SeenInductive == ASSUME TypeOK, ExchangeInv, SeenInv, [Next]_vars PROVE SeenInv'
<1>. Calls \subseteq Nat
  BY CallsAssumption
<1>1. ASSUME NEW g \in Forms(document), NEW c \in Calls, Begins(c, g)
      PROVE  SeenInv'
  <2>1. \A d \in Calls : c < d => call[d].phase = "unused"
    BY <1>1 DEF SeenInv, InOrder, Begins
  <2>2. InOrder'
    BY <1>1, <2>1 DEF SeenInv, InOrder, Begins, Keeps
  <2>3. ASSUME NEW d \in Calls, call[d].phase \in Pending \cup Settled
        PROVE  d < c /\ call'[d] = call[d]
    <3>1. call[d].phase # "unused" /\ call[c].phase = "unused"
      BY <1>1, <2>3 DEF Begins, Pending, Settled
    <3>2. d # c /\ ~(c < d) /\ c \in Nat /\ d \in Nat
      BY <2>1, <3>1
    <3>. QED
      BY <1>1, <3>2 DEF Begins, Keeps
  <2>4. \A f \in Forms(document) :
            Sent(f)' = IF f = g /\ call'[c].phase = "sent" THEN Sent(f) \cup {c} ELSE Sent(f)
    BY <1>1, <2>3, ZenonT(30) DEF Begins, Keeps, Sent, Pending, Settled
  <2>5. \A f \in Forms(document) : \A d \in Sent(f) :
            d \in Calls /\ d # c /\ d < c /\ call'[d] = call[d] /\ submission'[d] = submission[d]
    BY <1>1, <2>3 DEF Sent, Begins
  <2>6. \A f \in Forms(document), d \in Calls :
            \/ Latest(f, d)' <=> Latest(f, d)
            \/ f = g /\ call'[c].phase = "sent" /\ (Latest(f, d)' => d = c)
    BY <2>4, <2>5 DEF Latest
  <2>7. LineOfLatest'
    BY <1>1, <2>4, <2>5, <2>6 DEF SeenInv, LineOfLatest, Begins, KeepsPanels, Latest
  <2>8. AloneAfterSettled'
    <3>1. submission'[c].alone => \A d \in Sent(g) : call[d].phase \in Settled
      BY <1>1 DEF Begins, InFlight, Sent
    <3>2. call'[c].phase \notin Settled /\ document' = document
      BY <1>1 DEF Begins, Settled
    <3>3. ASSUME NEW f \in Forms(document), NEW e \in Sent(f)', NEW d \in Sent(f)',
                 d < e, submission'[e].alone
          PROVE  call'[d].phase \in Settled
      <4>1. CASE e = c
        <5>1. d \in Calls /\ d # c
          BY <3>3, <4>1 DEF Sent
        <5>2. d \in Sent(f) /\ d \in Sent(g)
          <6>1. d \in Sent(f) /\ (c \in Sent(f) \/ f = g)
            BY <2>4, <3>3, <4>1, <5>1
          <6>2. c \notin Sent(f)
            BY <2>5
          <6>. QED
            BY <6>1, <6>2
        <5>. QED
          BY <2>5, <3>1, <3>3, <4>1, <5>2
      <4>2. CASE e # c
        <5>1. e \in Sent(f) /\ e \in Calls
          BY <2>4, <3>3, <4>2 DEF Sent
        <5>2. e < c /\ d \in Nat /\ e \in Nat /\ c \in Nat /\ submission[e].alone
          BY <2>5, <3>3, <5>1 DEF Sent
        <5>3. d # c
          BY <3>3, <5>2
        <5>4. d \in Sent(f) /\ d \in Calls
          BY <2>4, <3>3, <5>3 DEF Sent
        <5>. QED
          BY <2>5, <3>3, <5>1, <5>2, <5>4 DEF SeenInv, AloneAfterSettled
      <4>. QED
        BY <4>1, <4>2
    <3>. QED
      BY <3>2, <3>3 DEF AloneAfterSettled
  <2>9. LatestIsSeen'
    <3>1. \A f \in Forms(document) : panel'[f].data = panel[f].data /\ panel'[f].answer = panel[f].answer
      BY <1>1 DEF Begins, KeepsPanels
    <3>2. call'[c].phase \notin Settled
      BY <1>1 DEF Begins, Settled
    <3>. QED
      BY <1>1, <2>4, <2>5, <2>6, <3>1, <3>2 DEF SeenInv, LatestIsSeen, Begins, Latest
  <2>. QED
    BY <2>2, <2>7, <2>8, <2>9 DEF SeenInv
<1>2. ASSUME NEW g \in Forms(document), NEW c \in Calls, GoesOn(c, g)
      PROVE  SeenInv'
  <2>1. c \in Sent(g) /\ \A f \in Forms(document) : c \in Sent(f) => f = g
    BY <1>2 DEF GoesOn, Sent
  <2>2. call'[c].phase \in Pending \cup Settled
    BY <1>2 DEF GoesOn, Settling, Pending
  <2>3. \A f \in Forms(document) : Sent(f)' = Sent(f)
    BY <1>2, <2>2 DEF GoesOn, Keeps, Sent
  <2>4. \A f \in Forms(document), d \in Calls : Latest(f, d)' <=> Latest(f, d)
    BY <2>3 DEF Latest
  <2>5. \A d \in Calls : (call[d].phase \in Settled => call'[d] = call[d]) /\ (d # c => call'[d] = call[d])
    BY <1>2 DEF GoesOn, Keeps, Pending, Settled
  <2>6. InOrder'
    <3>1. \A d \in Calls : call'[d].phase # "unused" <=> call[d].phase # "unused"
      BY <1>2, <2>2, <2>5 DEF GoesOn, Pending, Settled
    <3>. QED
      BY <3>1 DEF SeenInv, InOrder
  <2>7. LineOfLatest'
    BY <1>2, <2>4 DEF SeenInv, LineOfLatest, GoesOn, KeepsPanels, Settling
  <2>8. AloneAfterSettled'
    BY <1>2, <2>3, <2>5 DEF SeenInv, AloneAfterSettled, GoesOn
  <2>9. LatestIsSeen'
    <3>1. ASSUME NEW f \in Forms(document), NEW d \in Calls, Latest(f, d),
                 submission[d].alone, call'[d].phase \in Settled
          PROVE  panel'[f].data = d /\ (call'[d].heard # Absent => panel'[f].answer = d)
      <4>1. CASE d = c
        <5>1. f = g /\ Settling(c, g)
          BY <1>2, <2>1, <3>1, <4>1 DEF Latest, GoesOn, Settled
        <5>2. call[c].heard = Absent
          BY <1>2 DEF ExchangeInv, HeardWhenSettled, GoesOn, Pending, Settled
        <5>. QED
          BY <4>1, <5>1, <5>2 DEF Settling
      <4>2. CASE d # c
        <5>1. call'[d] = call[d]
          BY <2>5, <4>2
        <5>2. f # g
          <6>1. ASSUME f = g
                PROVE  FALSE
            <7>1. c < d
              <8>1. c <= d /\ c # d
                BY <2>1, <3>1, <4>2, <6>1 DEF Latest
              <8>2. c \in Nat /\ d \in Nat
                OBVIOUS
              <8>. QED
                BY <8>1, <8>2
            <7>. QED
              BY <1>2, <2>1, <3>1, <6>1, <7>1
                 DEF SeenInv, AloneAfterSettled, Latest, GoesOn, Pending, Settled
          <6>. QED
            BY <6>1
        <5>3. panel'[f] = panel[f]
          BY <1>2, <5>2 DEF GoesOn, KeepsPanels
        <5>. QED
          BY <3>1, <5>1, <5>3 DEF SeenInv, LatestIsSeen
      <4>. QED
        BY <4>1, <4>2
    <3>. QED
      BY <1>2, <2>4, <3>1 DEF LatestIsSeen, GoesOn
  <2>. QED
    BY <2>6, <2>7, <2>8, <2>9 DEF SeenInv
<1>3. ASSUME Rests
      PROVE  SeenInv'
  <2>1. \A f \in Forms(document) : Sent(f)' = Sent(f)
    BY <1>3 DEF Rests, Sent
  <2>2. /\ UNCHANGED <<call, submission, document>>
        /\ \A f \in Forms(document), x \in {"line", "answer", "data"} : panel'[f][x] = panel[f][x]
    BY <1>3 DEF Rests
  <2>. QED
    BY <2>1, <2>2 DEF SeenInv, InOrder, LineOfLatest, AloneAfterSettled, LatestIsSeen, Latest
<1>. QED
  BY <1>1, <1>2, <1>3, Steps

\* A panel has a status exactly if a call of its form was heard, and it is the status of one that
\* was; and when it has data it no longer awaits a call.
StatusInv ==
    \A f \in Forms(document) :
        /\ panel[f].answer # Absent => panel[f].answer \in Heard(f)
        /\ Heard(f) # {} => panel[f].answer # Absent
        /\ panel[f].data # Absent => panel[f].shown # "awaiting"

LEMMA StatusInitial == Init => StatusInv
BY DEF Init, ClientInit, StatusInv, Heard, Sent, NewPanel, Unused, Pending, Settled

LEMMA StatusInductive == ASSUME TypeOK, ExchangeInv, StatusInv, [Next]_vars PROVE StatusInv'
<1>1. ASSUME NEW g \in Forms(document), NEW c \in Calls, Begins(c, g)
      PROVE  StatusInv'
  <2>1. \A f \in Forms(document) : Heard(f)' = Heard(f)
    <3>1. call[c].phase \notin Pending \cup Settled /\ call'[c].heard = Absent
      BY <1>1 DEF Begins, Pending, Settled
    <3>2. \A d \in Calls \ {c} : call'[d] = call[d] /\ submission'[d] = submission[d]
      BY <1>1 DEF Begins, Keeps
    <3>. QED
      BY <3>1, <3>2 DEF Heard, Sent
  <2>2. /\ document' = document
        /\ \A f \in Forms(document) : \A x \in {"answer", "data", "shown"} : panel'[f][x] = panel[f][x]
    BY <1>1 DEF Begins, KeepsPanels
  <2>. QED
    BY <2>1, <2>2 DEF StatusInv
<1>2. ASSUME NEW g \in Forms(document), NEW c \in Calls, GoesOn(c, g)
      PROVE  StatusInv'
  <2>1. /\ UNCHANGED <<document, submission>>
        /\ \A d \in Calls \ {c} : call'[d] = call[d]
        /\ call[c].phase \in Pending /\ call'[c].phase \in Pending \cup Settled
        /\ submission[c].form = g
    BY <1>2 DEF GoesOn, Keeps, Settling, Pending, Settled
  <2>2. call[c].heard = Absent
    BY <2>1 DEF ExchangeInv, HeardWhenSettled, Pending, Settled
  <2>3. ASSUME NEW f \in Forms(document)
        PROVE  Heard(f)' = IF f = g /\ call'[c].heard # Absent THEN Heard(f) \cup {c} ELSE Heard(f)
    BY <2>1, <2>2 DEF Heard, Sent
  <2>4. ASSUME NEW f \in Forms(document), f # g
        PROVE  panel'[f] = panel[f]
    BY <1>2, <2>4 DEF GoesOn, KeepsPanels
  <2>5. \/ call'[c].heard = Absent /\ panel'[g].answer = panel[g].answer
        \/ call'[c].heard # Absent /\ panel'[g].answer = c
    BY <1>2, <2>2 DEF GoesOn, Settling
  <2>6. \/ panel'[g] = panel[g]
        \/ panel'[g].shown = responseDisplay /\ responseDisplay \in {"data", "raw"}
    BY <1>2 DEF GoesOn, Settling, TypeOK
  <2>7. ASSUME NEW f \in Forms(document)
        PROVE  /\ panel'[f].answer # Absent => panel'[f].answer \in Heard(f)'
               /\ Heard(f)' # {} => panel'[f].answer # Absent
               /\ panel'[f].data # Absent => panel'[f].shown # "awaiting"
    <3>1. CASE f = g
      BY <2>3, <2>5, <2>6, <3>1, CallsAssumption DEF StatusInv
    <3>2. CASE f # g
      BY <2>3, <2>4, <3>2 DEF StatusInv
    <3>. QED
      BY <3>1, <3>2
  <2>. QED
    BY <2>1, <2>7 DEF StatusInv
<1>3. ASSUME Rests
      PROVE  StatusInv'
  <2>1. \A f \in Forms(document) : Heard(f)' = Heard(f)
    BY <1>3 DEF Rests, Heard, Sent
  <2>. QED
    BY <1>3, <2>1 DEF Rests, StatusInv
<1>. QED
  BY <1>1, <1>2, <1>3, Steps

LEMMA WhatIsSeen ==
    ASSUME TypeOK, SeenInv, StatusInv
    PROVE  SeenWhenAlone
<1>. SUFFICES ASSUME NEW f \in Forms(document), NEW c \in Calls, Latest(f, c),
                     submission[c].alone, call[c].phase \in Settled
              PROVE  LET seen == Visible(panel[f])
                     IN  CASE c \in Heard(f) -> seen = [line |-> c, status |-> c, content |-> c]
                           [] Heard(f) = {} ->
                                  seen = [line |-> Absent, status |-> Absent,
                                          content |-> IF panel[f].shown = "data" THEN c ELSE Absent]
                           [] OTHER ->
                                  \E d \in Heard(f) :
                                      seen = [line |-> c, status |-> d,
                                              content |-> IF panel[f].shown = "data" THEN c ELSE d]
  BY Zenon DEF SeenWhenAlone, Latest
<1>. DEFINE p == panel[f]
<1>1. p.line = c /\ p.data = c /\ (call[c].heard # Absent => p.answer = c)
  BY DEF SeenInv, LineOfLatest, LatestIsSeen
<1>2. c # Absent
  BY CallsAssumption
<1>3. p.shown \in {"data", "raw"}
  BY <1>1, <1>2 DEF TypeOK, PanelTypeOK, StatusInv
<1>4. /\ p.answer # Absent => p.answer \in Heard(f)
      /\ Heard(f) # {} => p.answer # Absent
      /\ c \in Heard(f) => p.answer = c
  BY <1>1 DEF StatusInv, Heard
<1>. HIDE DEF p
<1>5. Visible(p) = [line |-> IF p.answer = Absent THEN Absent ELSE c, status |-> p.answer,
                    content |-> IF p.shown = "data" THEN c ELSE p.answer]
  BY <1>1, <1>3 DEF Visible
<1>6. CASE c \in Heard(f)
  BY <1>2, <1>4, <1>5, <1>6 DEF p
<1>7. CASE Heard(f) = {}
  BY <1>4, <1>5, <1>7 DEF p
<1>8. CASE c \notin Heard(f) /\ Heard(f) # {}
  <2>1. p.answer \in Heard(f) /\ p.answer # Absent
    BY <1>4, <1>8
  <2>. QED
    BY <1>5, <1>8, <2>1 DEF p
<1>. QED
  BY <1>6, <1>7, <1>8

\* Whoever sends a form alone and waits sees the request line, the status and the content of the last
\* call of it, if its answer had a text; else its outcome, and of the status what an earlier answer
\* left, whatever the calls of the other forms do.
THEOREM LastCallIsSeen == Spec => []SeenWhenAlone
<1>. DEFINE Inv == TypeOK /\ ExchangeInv /\ SeenInv /\ StatusInv
<1>1. Inv /\ [Next]_vars => Inv'
  BY TypesInductive, ExchangeInductive, SeenInductive, StatusInductive
<1>2. Init => Inv
  BY Initial, ExchangeInitial, SeenInitial, StatusInitial
<1>3. Inv => SeenWhenAlone
  BY WhatIsSeen
<1>. QED
  BY <1>1, <1>2, <1>3, PTL DEF Spec

(***************************************************************************)
(* The Data/Raw control.                                                    *)
(***************************************************************************)
LEMMA DisplayKept ==
    ASSUME TypeOK, [Next]_vars, NEW f \in Forms(document),
           panel[f].pressed = responseDisplay, panel'[f].data # panel[f].data
    PROVE  panel'[f].shown = panel'[f].pressed
<1>1. ASSUME NEW g \in Forms(document), NEW c \in Calls, Begins(c, g)
      PROVE  FALSE
  BY <1>1 DEF Begins, KeepsPanels
<1>2. ASSUME NEW g \in Forms(document), NEW c \in Calls, GoesOn(c, g)
      PROVE  panel'[f].shown = panel'[f].pressed
  BY <1>2 DEF GoesOn, KeepsPanels, Settling
<1>3. ~Rests
  BY DEF Rests
<1>. QED
  BY <1>1, <1>2, <1>3, Steps

\* As long as only the control of this form was used, what settles later comes to the display that
\* the control of the form says.
THEOREM ControlIsObeyed == Spec => AnswersKeepTheDisplay
<1>1. TypeOK /\ [Next]_vars
      => [\A f \in Forms(document) :
             (panel[f].pressed = responseDisplay /\ panel'[f].data # panel[f].data)
             => panel'[f].shown = panel'[f].pressed]_vars
  BY DisplayKept
<1>. QED
  BY <1>1, ExplorerTypes, PTL DEF Spec, AnswersKeepTheDisplay

(***************************************************************************)
(* The CSRF token of a session.                                             *)
(***************************************************************************)
LEMMA SessionReadsCookie ==
    ASSUME NEW type, NEW k, NEW method, ~csrfSafeMethod(method),
           authenticate(Credentials(type, k), method).cookies = "same-origin"
    PROVE  authenticate(Credentials(type, k), method).csrfToken = k
<1>1. authenticate(Credentials(type, k), method) = Credentials(type, k)
  BY DEF authenticate
<1>2. \/ Credentials(type, k) = TokenAuthentication("", "token")
      \/ Credentials(type, k) = BasicAuthentication("user")
      \/ Credentials(type, k) = SessionAuthentication(k)
      \/ Credentials(type, k) = NoAuthentication
  BY DEF Credentials
<1>3. SessionAuthentication(k).csrfToken = k
  BY DEF SessionAuthentication, NoAuthentication
<1>4. /\ TokenAuthentication("", "token").cookies = "default"
      /\ BasicAuthentication("user").cookies = "default" /\ NoAuthentication.cookies = "default"
  BY DEF TokenAuthentication, BasicAuthentication, NoAuthentication
<1>. QED
  BY <1>1, <1>2, <1>3, <1>4

LEMMA CsrfInductive == ASSUME TypeOK, SessionCallsPassCsrf, [Next]_vars PROVE SessionCallsPassCsrf'
<1>. DEFINE Passes(request, k) ==
              (/\ request # Absent /\ request.credentials.cookies = "same-origin"
               /\ ~csrfSafeMethod(request.method))
              => request.credentials.csrfToken = k
<1>1. ASSUME NEW f \in Forms(document), NEW c \in Calls, Submit(f, c)
      PROVE  SessionCallsPassCsrf'
  <2>1. PICK keys, doc, params : action(c, doc, keys, params, Credentials(authentication, cookie))
    BY <1>1 DEF Submit
  <2>2. /\ Keeps(c) /\ call'[c].phase \in {"thrown", "sent"}
        /\ call'[c].phase = "thrown" => call'[c].request = Absent
        /\ call'[c].phase = "sent" =>
               \E link : call'[c].request
                          = buildRequest(link, params, Credentials(authentication, cookie))
    BY <2>1, ActionEffect DEF TypeOK
  <2>3. ASSUME NEW link
        PROVE  Passes(buildRequest(link, params, Credentials(authentication, cookie)), cookie)
    BY SessionReadsCookie DEF buildRequest
  <2>4. Passes(call'[c].request, cookie)
    BY <2>2, <2>3
  <2>5. submission'[c].cookie = cookie /\ \A d \in Calls \ {c} : submission'[d] = submission[d]
    BY <1>1, SubmitEffect
  <2>6. \A d \in Calls \ {c} : call'[d] = call[d]
    BY <2>2 DEF Keeps
  <2>. QED
    BY <2>4, <2>5, <2>6 DEF SessionCallsPassCsrf
<1>2. ASSUME NEW c \in Calls, NEW f, GoesOn(c, f)
      PROVE  SessionCallsPassCsrf'
  BY <1>2 DEF SessionCallsPassCsrf, GoesOn, Keeps
<1>3. CASE UNCHANGED <<call, submission>>
  BY <1>3 DEF SessionCallsPassCsrf
<1>. QED
  BY <1>1, <1>2, <1>3, GoingOn DEF Next, Toggle, Authenticate, Rotate, vars

\* A call of a session that changes something carries the token that the cookie had when the form
\* was submitted, however often Django rotates it while the page is open.
THEOREM SessionsPassCsrf == Spec => []SessionCallsPassCsrf
<1>1. Init => SessionCallsPassCsrf
  BY DEF Init, ClientInit, Unused, SessionCallsPassCsrf
<1>. QED
  BY <1>1, Initial, TypesInductive, CsrfInductive, PTL DEF Spec

(***************************************************************************)
(* The client keeps the promises of ApiCalls: each step of the explorer is   *)
(* a step of it or leaves it alone.                                         *)
(***************************************************************************)
LEMMA OutcomeFor ==
    /\ OutcomeOf("unused") = "none" /\ OutcomeOf("thrown") = "thrown"
    /\ OutcomeOf("sent") = "pending" /\ OutcomeOf("body") = "pending"
    /\ OutcomeOf("resolved") = "resolved" /\ OutcomeOf("rejected") = "rejected"
BY DEF OutcomeOf, Pending

LEMMA PromiseInitial == Init => Promise!Init
BY OutcomeFor DEF Init, ClientInit, Unused, Promise!Init

LEMMA PromiseStep ==
    ASSUME TypeOK, HeardWhenSettled, [Next]_vars
    PROVE  [Promise!Next]_(Promise!vars)
<1>. DEFINE outcome == [c \in Calls |-> OutcomeOf(call[c].phase)]
            heard == [c \in Calls |-> call[c].heard]
<1>1. ClientTypeOK
  BY DEF TypeOK
<1>2. ASSUME NEW c \in Calls, Keeps(c)
      PROVE  /\ outcome' = [outcome EXCEPT ![c] = OutcomeOf(call'[c].phase)]
             /\ heard' = [heard EXCEPT ![c] = call'[c].heard]
             /\ outcome[c] = OutcomeOf(call[c].phase) /\ heard[c] = call[c].heard
  BY <1>2 DEF Keeps
<1>3. ASSUME NEW c \in Calls, Keeps(c), call'[c].heard = call[c].heard
      PROVE  heard' = heard
  BY <1>2, <1>3
<1>4. ASSUME NEW f \in Forms(document), NEW c \in Calls, Submit(f, c)
      PROVE  Promise!Ask(c)
  <2>1. PICK keys, doc, params, auth : action(c, doc, keys, params, auth)
    BY <1>4 DEF Submit
  <2>2. /\ Keeps(c) /\ call[c].phase = "unused"
        /\ call'[c].phase \in {"thrown", "sent"} /\ call'[c].heard = Absent
    BY <1>1, <2>1, ActionEffect
  <2>3. OutcomeOf(call'[c].phase) \in {"thrown", "pending"} /\ outcome[c] = "none"
    BY <1>2, <2>2, OutcomeFor
  <2>4. call[c].heard = Absent
    BY <2>2 DEF HeardWhenSettled, Settled
  <2>5. heard' = heard /\ outcome' = [outcome EXCEPT ![c] = OutcomeOf(call'[c].phase)]
    BY <1>2, <1>3, <2>2, <2>4
  <2>. QED
    BY <2>3, <2>5 DEF Promise!Ask
<1>5. ASSUME NEW c \in Calls, Keeps(c), call[c].phase \in Pending, call'[c].phase \in Settled,
             call'[c].heard = call[c].heard
      PROVE  Promise!SettleSilently(c)
  <2>1. outcome[c] = "pending" /\ OutcomeOf(call'[c].phase) \in {"resolved", "rejected"}
    BY <1>2, <1>5, OutcomeFor DEF Pending, Settled
  <2>2. heard' = heard /\ outcome' = [outcome EXCEPT ![c] = OutcomeOf(call'[c].phase)]
    BY <1>2, <1>3, <1>5
  <2>. QED
    BY <2>1, <2>2 DEF Promise!SettleSilently
<1>6. ASSUME NEW c \in Calls, Answer(c)
      PROVE  Promise!SettleSilently(c) \/ UNCHANGED Promise!vars
  <2>1. PICK a \in Answers : Answered(c, a)
    BY <1>6 DEF Answer
  <2>2. /\ Keeps(c) /\ call[c].phase = "sent" /\ call'[c].heard = call[c].heard
        /\ call'[c].phase \in {"body", "resolved"}
    BY <1>1, <2>1, AnsweredEffect
  <2>3. CASE call'[c].phase = "resolved"
    BY <1>5, <2>2, <2>3 DEF Pending, Settled
  <2>4. CASE call'[c].phase = "body"
    <3>1. outcome[c] = OutcomeOf(call'[c].phase)
      BY <1>2, <2>2, <2>4, OutcomeFor
    <3>2. heard' = heard /\ outcome' = outcome
      BY <1>2, <1>3, <2>2, <3>1
    <3>. QED
      BY <3>2 DEF Promise!vars
  <2>. QED
    BY <2>2, <2>3, <2>4
<1>7. ASSUME NEW c \in Calls, Read(c)
      PROVE  \E a \in Contents : Promise!SettleWith(c, a)
  <2>1. /\ Keeps(c) /\ call[c].phase = "body" /\ call'[c].heard = call[c].answer
        /\ call'[c].phase = IF Ok(call[c].answer) /\ Decodes(call[c].answer)
                            THEN "resolved" ELSE "rejected"
    BY <1>1, <1>7, ParseEffect DEF Read
  <2>2. call[c].answer \in Contents
    BY <1>1, <2>1 DEF ClientTypeOK, Contents
  <2>3. OutcomeOf(call'[c].phase)
        = IF call[c].answer \in {a \in Contents : Ok(a) /\ Decodes(a)}
          THEN "resolved" ELSE "rejected"
    BY <2>1, <2>2, OutcomeFor
  <2>4. outcome[c] = "pending"
    BY <1>2, <2>1, OutcomeFor
  <2>5. /\ outcome' = [outcome EXCEPT ![c] = OutcomeOf(call'[c].phase)]
        /\ heard' = [heard EXCEPT ![c] = call[c].answer]
    BY <1>2, <2>1
  <2>. QED
    BY <2>2, <2>3, <2>4, <2>5 DEF Promise!SettleWith
<1>8. ASSUME NEW c \in Calls, Fail(c)
      PROVE  Promise!SettleSilently(c)
  BY <1>1, <1>5, <1>8, FailedEffect DEF Fail, Settled
<1>9. CASE UNCHANGED call
  BY <1>9 DEF Promise!vars
<1>. QED
  BY <1>4, <1>6, <1>7, <1>8, <1>9
     DEF Next, Toggle, Authenticate, Rotate, vars, Promise!Next, Promise!Settle

\* The explorer's client, with its heads and texts, its decoders and its failures, implements the
\* safety part of ApiCalls: an action throws or is pending, a promise settles once, and the callback
\* hears the answer that the promise settles with.
THEOREM ClientKeepsPromises == Spec => Promise!Safety
<1>1. TypeOK /\ ExchangeInv /\ [Next]_vars => (TypeOK /\ ExchangeInv)'
  BY TypesInductive, ExchangeInductive
<1>2. Init => TypeOK /\ ExchangeInv /\ Promise!Init
  BY Initial, ExchangeInitial, PromiseInitial
<1>3. TypeOK /\ ExchangeInv /\ [Next]_vars => [Promise!Next]_(Promise!vars)
  BY PromiseStep DEF ExchangeInv
<1>. QED
  BY <1>1, <1>2, <1>3, PTL DEF Spec, Promise!Safety

(***************************************************************************)
(* The names of a link: out by the encoder and the template, and back.      *)
(***************************************************************************)
Words == STRING \cup {"_", "type", "meta"}
Keys == Seq(Words)

LEMMA SuffixAt ==
    ASSUME NEW S, NEW s \in Seq(S), NEW t \in Seq(S)
    PROVE  IsSuffix(s, t) <=>
               /\ Len(s) <= Len(t)
               /\ \A i \in 1..Len(s) : s[i] = t[Len(t) - Len(s) + i]
<1>. DEFINE m == Len(s)
            n == Len(t)
            rs == [i \in 1..m |-> s[m - i + 1]]
            rt == [i \in 1..n |-> t[n - i + 1]]
<1>1. m \in Nat /\ n \in Nat /\ DOMAIN s = 1..m /\ DOMAIN t = 1..n
      /\ (\A i \in 1..m : s[i] \in S) /\ (\A i \in 1..n : t[i] \in S)
  BY LenProperties
<1>2. Reverse(s) = rs /\ Reverse(t) = rt
  BY DEF Reverse
<1>3. /\ rs \in Seq(S) /\ Len(rs) = m /\ \A i \in 1..m : rs[i] = s[m - i + 1]
      /\ rt \in Seq(S) /\ Len(rt) = n /\ \A i \in 1..n : rt[i] = t[n - i + 1]
  BY <1>1
<1>. HIDE DEF m, n, rs, rt
<1>4. IsSuffix(s, t) <=> m <= n /\ SubSeq(rs, 1, m) = SubSeq(rt, 1, m)
  BY <1>2, <1>3 DEF IsSuffix, IsPrefix
<1>5. ASSUME m <= n
      PROVE  SubSeq(rs, 1, m) = SubSeq(rt, 1, m) <=> \A i \in 1..m : rs[i] = rt[i]
  <2>1. \A i \in 1..m : rs[i] \in S /\ rt[i] \in S
    BY <1>1, <1>3, <1>5
  <2>2. /\ SubSeq(rs, 1, m) \in Seq(S) /\ Len(SubSeq(rs, 1, m)) = m
        /\ \A i \in 1..m : SubSeq(rs, 1, m)[i] = rs[i]
    BY <1>1, <1>3, <1>5, <2>1
  <2>3. /\ SubSeq(rt, 1, m) \in Seq(S) /\ Len(SubSeq(rt, 1, m)) = m
        /\ \A i \in 1..m : SubSeq(rt, 1, m)[i] = rt[i]
    BY <1>1, <1>3, <1>5, <2>1
  <2>. QED
    BY <2>2, <2>3, SeqEqual
<1>6. ASSUME m <= n
      PROVE  (\A i \in 1..m : rs[i] = rt[i]) <=> \A i \in 1..m : s[i] = t[n - m + i]
  <2>1. ASSUME \A i \in 1..m : rs[i] = rt[i], NEW i \in 1..m
        PROVE  s[i] = t[n - m + i]
    <3>1. m - i + 1 \in 1..m /\ m - i + 1 \in 1..n /\ m - (m - i + 1) + 1 = i
          /\ n - (m - i + 1) + 1 = n - m + i
      BY <1>1, <1>6
    <3>. QED
      BY <1>3, <2>1, <3>1, SMTT(30)
  <2>2. ASSUME \A i \in 1..m : s[i] = t[n - m + i], NEW i \in 1..m
        PROVE  rs[i] = rt[i]
    <3>1. m - i + 1 \in 1..m /\ i \in 1..n /\ n - m + (m - i + 1) = n - i + 1
      BY <1>1, <1>6
    <3>2. s[m - i + 1] = t[n - m + (m - i + 1)]
      BY <2>2, <3>1
    <3>. QED
      BY <1>3, <3>1, <3>2
  <2>. QED
    BY <2>1, <2>2
<1>. QED
  BY <1>4, <1>5, <1>6 DEF m, n

LEMMA SuffixOfTwo ==
    ASSUME NEW S, NEW u \in S, NEW w \in S, NEW k \in Seq(S)
    PROVE  IsSuffix(<<u, w>>, k) <=> Len(k) >= 2 /\ k[Len(k) - 1] = u /\ k[Len(k)] = w
<1>. DEFINE s == <<u, w>>
<1>1. s \in Seq(S) /\ Len(s) = 2 /\ s[1] = u /\ s[2] = w
  OBVIOUS
<1>2. Len(k) \in Nat
  BY LenProperties
<1>. HIDE DEF s
<1>3. IsSuffix(s, k) <=> Len(s) <= Len(k) /\ \A i \in 1..Len(s) : s[i] = k[Len(k) - Len(s) + i]
  BY <1>1, SuffixAt
<1>4. IsSuffix(s, k) <=> Len(k) >= 2 /\ k[Len(k) - 1] = u /\ k[Len(k)] = w
  BY <1>1, <1>2, <1>3
<1>. QED
  BY <1>4 DEF s

LEMMA InFront ==
    ASSUME NEW S, NEW u \in S, NEW k \in Seq(S), NEW t, t = <<u>> \o k
    PROVE  /\ t \in Seq(S) /\ t # <<>> /\ Len(t) = Len(k) + 1
           /\ t[1] = u /\ \A i \in 1..Len(k) : t[i + 1] = k[i]
           /\ Tail(t) = k
<1>. DEFINE f == <<u>>
<1>1. f \in Seq(S) /\ Len(f) = 1 /\ f[1] = u /\ t = f \o k
  OBVIOUS
<1>2. Len(k) \in Nat
  BY LenProperties
<1>. HIDE DEF f
<1>3. /\ t \in Seq(S) /\ Len(t) = Len(k) + 1 /\ t[1] = u
      /\ \A i \in 1..Len(k) : t[i + 1] = k[i]
  <2>1. /\ t \in Seq(S) /\ Len(t) = Len(f) + Len(k)
        /\ \A i \in 1..(Len(f) + Len(k)) : t[i] = IF i <= Len(f) THEN f[i] ELSE k[i - Len(f)]
    BY <1>1, ConcatProperties
  <2>2. \A i \in 1..(Len(k) + 1) : t[i] = IF i <= 1 THEN u ELSE k[i - 1]
    BY <1>1, <1>2, <2>1
  <2>3. ASSUME NEW i \in 1..Len(k)
        PROVE  t[i + 1] = k[i]
    BY <1>2, <2>2
  <2>. QED
    BY <1>1, <1>2, <2>1, <2>2, <2>3
<1>4. t # <<>>
  BY <1>2, <1>3
<1>5. Tail(t) = k
  <2>1. /\ Tail(t) \in Seq(S) /\ Len(Tail(t)) = Len(k)
        /\ \A i \in 1..Len(k) : Tail(t)[i] = k[i]
    BY <1>2, <1>3, <1>4, HeadTailProperties
  <2>. QED
    BY <2>1, SeqEqual
<1>. QED
  BY <1>3, <1>4, <1>5

LEMMA TwoOf ==
    ASSUME NEW S, NEW u \in S, NEW w \in S
    PROVE  <<u, w>> \in Seq(S) /\ Len(<<u, w>>) = 2 /\ <<u, w>>[1] = u /\ <<u, w>>[2] = w
OBVIOUS

LEMMA ThreeOf ==
    ASSUME NEW S, NEW f \in Seq(S), Len(f) = 1, NEW r \in Seq(S), Len(r) = 2
    PROVE  /\ f \o r \in Seq(S) /\ Len(f \o r) = 3
           /\ (f \o r)[1] = f[1] /\ (f \o r)[2] = r[1] /\ (f \o r)[3] = r[2]
<1>. DEFINE s == f \o r
<1>1. /\ s \in Seq(S) /\ Len(s) = Len(f) + Len(r)
      /\ \A i \in 1..(Len(f) + Len(r)) : s[i] = IF i <= Len(f) THEN f[i] ELSE r[i - Len(f)]
  BY ConcatProperties
<1>. HIDE DEF s
<1>2. \A i \in 1..3 : s[i] = IF i <= 1 THEN f[i] ELSE r[i - 1]
  BY <1>1
<1>. QED
  BY <1>1, <1>2 DEF s

LEMMA SuffixOfThree ==
    ASSUME NEW S, NEW u \in S, NEW w \in S, NEW k \in Seq(S),
           NEW s \in Seq(S), Len(s) = 3, s[1] = u, s[2] = u, s[3] = w
    PROVE  IsSuffix(s, k) <=> Len(k) >= 3 /\ k[Len(k) - 2] = u /\ k[Len(k) - 1] = u /\ k[Len(k)] = w
<1>1. Len(k) \in Nat
  BY LenProperties
<1>2. IsSuffix(s, k) <=> Len(s) <= Len(k) /\ \A i \in 1..Len(s) : s[i] = k[Len(k) - Len(s) + i]
  BY SuffixAt
<1>. QED
  BY <1>1, <1>2

LEMMA LastThree ==
    ASSUME NEW n \in Nat, NEW k, NEW t, NEW u, NEW w,
           n >= 2, k[n] = w, \A i \in 1..(n - 1) : k[i] = u,
           t[1] = u, \A i \in 1..n : t[i + 1] = k[i]
    PROVE  t[n + 1] = w /\ t[n] = u /\ t[n - 1] = u
<1>1. t[n + 1] = w
  OBVIOUS
<1>2. t[(n - 1) + 1] = k[n - 1] /\ k[n - 1] = u
  OBVIOUS
<1>3. CASE n = 2
  BY <1>1, <1>2, <1>3
<1>4. CASE n > 2
  <2>1. t[(n - 2) + 1] = k[n - 2] /\ k[n - 2] = u
    BY <1>4
  <2>. QED
    BY <1>1, <1>2, <2>1
<1>. QED
  BY <1>3, <1>4

LEMMA EscapedSuffix ==
    ASSUME NEW u \in Words, NEW w \in Words, NEW k \in Keys
    PROVE  /\ IsSuffix(<<u>> \o <<u, w>>, k) => IsSuffix(<<u, w>>, k)
           /\ IsSuffix(<<u, w>>, k) /\ (\A i \in 1..(Len(k) - 1) : k[i] = u)
              => IsSuffix(<<u>> \o <<u, w>>, <<u>> \o k)
<1>. DEFINE f == <<u>>
            r == <<u, w>>
            s == f \o r
            t == f \o k
            n == Len(k)
<1>1. f \in Seq(Words) /\ Len(f) = 1 /\ f[1] = u
  OBVIOUS
<1>2. r \in Seq(Words) /\ Len(r) = 2 /\ r[1] = u /\ r[2] = w /\ k \in Seq(Words)
  BY TwoOf DEF Keys
<1>3. /\ IsSuffix(r, k) <=> n >= 2 /\ k[n - 1] = u /\ k[n] = w
      /\ n \in Nat
  BY SuffixOfTwo, LenProperties DEF Keys
<1>. HIDE DEF f, r
<1>4. s \in Seq(Words) /\ Len(s) = 3 /\ s[1] = u /\ s[2] = u /\ s[3] = w
  BY <1>1, <1>2, ThreeOf
<1>5. t \in Seq(Words) /\ Len(t) = n + 1 /\ t[1] = u /\ \A i \in 1..n : t[i + 1] = k[i]
  BY <1>2, InFront DEF f
<1>. HIDE DEF s, t
<1>6. IsSuffix(s, k) <=> n >= 3 /\ k[n - 2] = u /\ k[n - 1] = u /\ k[n] = w
  BY <1>2, <1>4, SuffixOfThree
<1>7. IsSuffix(s, t) <=> Len(t) >= 3 /\ t[Len(t) - 2] = u /\ t[Len(t) - 1] = u /\ t[Len(t)] = w
  BY <1>4, <1>5, SuffixOfThree
<1>. HIDE DEF n
<1>8. /\ n >= 3 => n >= 2
      /\ n >= 2 => Len(t) >= 3
      /\ Len(t) - 2 = n - 1 /\ Len(t) - 1 = n
  BY <1>3, <1>5
<1>9. IsSuffix(s, k) => IsSuffix(r, k)
  BY <1>3, <1>6, <1>8, Zenon
<1>10. ASSUME IsSuffix(r, k), \A i \in 1..(n - 1) : k[i] = u
       PROVE  IsSuffix(s, t)
  <2>1. n >= 2 /\ k[n] = w
    BY <1>3, <1>10, Zenon
  <2>2. t[n + 1] = w /\ t[n] = u /\ t[n - 1] = u
    <3>1. n \in Nat /\ t[1] = u /\ \A i \in 1..n : t[i + 1] = k[i]
      BY <1>3, <1>5
    <3>. QED
      BY <1>10, <2>1, <3>1, LastThree
  <2>3. t[Len(t)] = w /\ t[Len(t) - 1] = u /\ t[Len(t) - 2] = u
    BY <1>5, <1>8, <2>2, Zenon
  <2>. QED
    BY <1>7, <1>8, <2>1, <2>3, Zenon
<1>. QED
  BY <1>9, <1>10, Zenon DEF f, r, s, t, n

LEMMA UnderscoresBefore ==
    ASSUME NEW key \in Keys
    PROVE  OnlyUnderscores(key) <=> \A i \in 1..(Len(key) - 1) : key[i] = "_"
<1>1. Len(key) \in Nat /\ \A i \in 1..(Len(key) - 1) : key[i] \in Words
  BY DEF Keys
<1>2. /\ Front(key) \in Keys
      /\ DOMAIN Front(key) = 1..(Len(key) - 1)
      /\ \A i \in 1..(Len(key) - 1) : Front(key)[i] = key[i]
  BY <1>1 DEF Front, Keys
<1>. QED
  BY <1>2 DEF OnlyUnderscores, ToSet

\* What NamesReturn says of the key of a section.
Returns(key) == \A r \in Reserved : IsSuffix(<<"_">> \o r, key) => OnlyUnderscores(key)

LEMMA KeyReturns ==
    ASSUME NEW key \in Keys, Returns(key)
    PROVE  unescapeKey(EscapeKey(key)) = key /\ EscapeKey(key) \in Keys
<1>. DEFINE u == "_"
            Short(w) == <<u, w>>
            Long(w) == <<u>> \o <<u, w>>
            t == <<u>> \o key
<1>1. u \in Words /\ {"type", "meta"} \subseteq Words
  BY DEF Words
<1>2. Reserved = {Short(w) : w \in {"type", "meta"}}
  BY DEF Reserved
<1>3. OnlyUnderscores(key) <=> \A i \in 1..(Len(key) - 1) : key[i] = u
  BY UnderscoresBefore
<1>4. /\ unescapeKey(key) = key \/ \E w \in {"type", "meta"} : IsSuffix(Long(w), key)
      /\ (\E w \in {"type", "meta"} : IsSuffix(Long(w), t)) => unescapeKey(t) = Tail(t)
  BY DEF unescapeKey, Reserved
<1>5. EscapeKey(key) = IF OnlyUnderscores(key) /\ \E r \in Reserved : IsSuffix(r, key)
                       THEN t ELSE key
  BY DEF EscapeKey
<1>6. \A w \in {"type", "meta"} : IsSuffix(Long(w), key) => OnlyUnderscores(key)
  BY DEF Returns, Reserved
<1>7. t = <<u>> \o key
  OBVIOUS
<1>8. ASSUME NEW w \in {"type", "meta"}
      PROVE  /\ IsSuffix(Long(w), key) => IsSuffix(Short(w), key)
             /\ IsSuffix(Short(w), key) /\ OnlyUnderscores(key) => IsSuffix(Long(w), t)
  BY <1>1, <1>3, EscapedSuffix
<1>. HIDE DEF u, Short, Long, t
<1>9. t \in Keys /\ Tail(t) = key
  BY <1>1, <1>7, InFront DEF Keys
<1>10. CASE OnlyUnderscores(key) /\ \E r \in Reserved : IsSuffix(r, key)
  BY <1>2, <1>4, <1>5, <1>8, <1>9, <1>10, Zenon
<1>11. CASE ~(OnlyUnderscores(key) /\ \E r \in Reserved : IsSuffix(r, key))
  BY <1>2, <1>4, <1>5, <1>6, <1>8, <1>11, Zenon
<1>. QED
  BY <1>10, <1>11

LEMMA FirstReplaced ==
    ASSUME NEW S, NEW k \in S, NEW p \in Seq(S), p # <<>>, NEW q, q = <<k>> \o Tail(p)
    PROVE  q \in Seq(S) /\ q # <<>> /\ Len(q) = Len(p) /\ q[1] = k /\ Tail(q) = Tail(p)
<1>1. Tail(p) \in Seq(S) /\ Len(Tail(p)) = Len(p) - 1 /\ Len(p) \in Nat
  BY HeadTailProperties, LenProperties
<1>2. q \in Seq(S) /\ q # <<>> /\ Len(q) = Len(Tail(p)) + 1 /\ q[1] = k /\ Tail(q) = Tail(p)
  BY <1>1, InFront
<1>. QED
  BY <1>1, <1>2

LEMMA FirstAndRest ==
    ASSUME NEW S, NEW p \in Seq(S), p # <<>>
    PROVE  <<p[1]>> \o Tail(p) = p
<1>. DEFINE q == <<p[1]>> \o Tail(p)
<1>1. p[1] \in S /\ Len(p) \in Nat \ {0}
  BY EmptySeq, LenProperties
<1>2. q \in Seq(S) /\ q # <<>> /\ Len(q) = Len(p) /\ q[1] = p[1] /\ Tail(q) = Tail(p)
  BY <1>1, FirstReplaced
<1>. HIDE DEF q
<1>3. /\ \A i \in 1..Len(Tail(p)) : Tail(p)[i] = p[i + 1] /\ Tail(q)[i] = q[i + 1]
      /\ Len(Tail(p)) = Len(p) - 1
  BY <1>2, HeadTailProperties
<1>4. ASSUME NEW i \in 1..Len(p)
      PROVE  q[i] = p[i]
  <2>1. CASE i = 1
    BY <1>2, <2>1
  <2>2. CASE i # 1
    <3>1. i - 1 \in 1..Len(Tail(p)) /\ (i - 1) + 1 = i
      BY <1>1, <1>3, <2>2
    <3>2. Tail(p)[i - 1] = p[(i - 1) + 1] /\ Tail(q)[i - 1] = q[(i - 1) + 1]
      BY <1>3, <3>1, Zenon
    <3>. QED
      BY <1>2, <3>1, <3>2, Zenon
  <2>. QED
    BY <2>1, <2>2
<1>5. q = p
  BY <1>2, <1>4, SeqEqual
<1>. QED
  BY <1>5 DEF q

LEMMA Joined ==
    ASSUME NEW a, NEW b
    PROVE  normalizeKeys(<<a, b>>) = a \o b
<1>. DEFINE names == <<a, b>>
            Step(g) == [i \in 1..2 |-> IF i = 1 THEN names[i] ELSE g[i - 1] \o names[i]]
            joined == CHOOSE g : g = Step(g)
            h == [i \in 1..2 |-> IF i = 1 THEN a ELSE a \o b]
<1>1. Len(names) = 2 /\ names[1] = a /\ names[2] = b
  OBVIOUS
<1>2. h = Step(h)
  BY <1>1
<1>3. normalizeKeys(names) = joined[2]
  BY <1>1 DEF normalizeKeys, FlattenSeq
<1>. HIDE DEF names
<1>4. ASSUME NEW g
      PROVE  Step(g)[1] = names[1] /\ Step(g)[2] = g[1] \o names[2]
  <2>1. Step(g)[1] = names[1]
    OBVIOUS
  <2>2. 2 \in 1..2 /\ 2 # 1 /\ 2 - 1 = 1
    OBVIOUS
  <2>3. Step(g)[2] = g[2 - 1] \o names[2]
    BY <2>2, Zenon
  <2>. QED
    BY <2>1, <2>2, <2>3
<1>. HIDE DEF Step, h
<1>5. joined = Step(joined)
  BY <1>2
<1>. HIDE DEF joined
<1>6. joined[2] = names[1] \o names[2]
  BY <1>4, <1>5
<1>7. normalizeKeys(names) = a \o b
  BY <1>1, <1>3, <1>6, Zenon
<1>. QED
  BY <1>7 DEF names

\* The path of a link in the document that is sent, and that path as the client has it.
Wire(path) == [i \in DOMAIN path |-> EscapeKey(path[i])]
Key(path) == <<unescapeKey(path[1])>> \o Tail(path)

\* The encoder does not escape the keys below the root.
RestStays(p) == \A i \in 2..Len(p) : EscapeKey(p[i]) = p[i]

LEMMA FirstEscaped ==
    ASSUME NEW p \in Seq(Keys), p # <<>>, RestStays(p)
    PROVE  Wire(p) = <<EscapeKey(p[1])>> \o Tail(p)
<1>. DEFINE e == EscapeKey(p[1])
            S == Keys \cup {e}
            q == <<e>> \o Tail(p)
            w == Wire(p)
<1>1. p \in Seq(S) /\ Len(p) \in Nat /\ DOMAIN p = 1..Len(p) /\ \A i \in 1..Len(p) : p[i] \in S
  BY SeqMonotonic, LenProperties
<1>2. \A i \in 1..Len(p) : w[i] = EscapeKey(p[i])
  BY <1>1 DEF Wire
<1>3. \A i \in 1..Len(p) : w[i] \in S /\ (i # 1 => w[i] = p[i])
  <2>1. ASSUME NEW i \in 1..Len(p), i # 1
        PROVE  w[i] = p[i]
    <3>1. i \in 2..Len(p)
      BY <1>1, <2>1
    <3>. QED
      BY <1>2, <3>1 DEF RestStays
  <2>. QED
    BY <1>1, <1>2, <2>1
<1>4. w \in Seq(S) /\ Len(w) = Len(p)
  <2>1. w = [i \in 1..Len(p) |-> EscapeKey(p[i])]
    BY <1>1 DEF Wire
  <2>. HIDE DEF w, S
  <2>. QED
    BY <1>1, <1>3, <2>1
<1>. HIDE DEF e, S, w
<1>5. e \in S
  BY DEF S
<1>6. q \in Seq(S) /\ q # <<>> /\ Len(q) = Len(p) /\ q[1] = e /\ Tail(q) = Tail(p)
  BY <1>1, <1>5, FirstReplaced
<1>. HIDE DEF q
<1>7. /\ \A i \in 1..Len(Tail(p)) : Tail(p)[i] = p[i + 1] /\ Tail(q)[i] = q[i + 1]
      /\ Len(Tail(p)) = Len(p) - 1
  BY <1>1, <1>6, HeadTailProperties
<1>8. ASSUME NEW i \in 1..Len(p)
      PROVE  w[i] = q[i]
  <2>1. CASE i = 1
    BY <1>2, <1>6, <2>1 DEF e
  <2>2. CASE i # 1
    <3>1. i - 1 \in 1..Len(Tail(p)) /\ (i - 1) + 1 = i
      BY <1>1, <1>7, <2>2
    <3>2. Tail(p)[i - 1] = p[(i - 1) + 1] /\ Tail(q)[i - 1] = q[(i - 1) + 1]
      BY <1>7, <3>1, Zenon
    <3>3. q[i] = p[i]
      BY <1>6, <3>1, <3>2, Zenon
    <3>. QED
      BY <1>3, <2>2, <3>3
  <2>. QED
    BY <2>1, <2>2
<1>9. w = q
  BY <1>4, <1>6, <1>8, SeqEqual
<1>. QED
  BY <1>9 DEF w, q, e

LEMMA PathReturns ==
    ASSUME NEW p \in Seq(Keys), p # <<>>, RestStays(p)
    PROVE  /\ Len(Key(Wire(p))) = Len(p) /\ Tail(Key(Wire(p))) = Tail(p)
           /\ Returns(p[1]) => Key(Wire(p)) = p
<1>. DEFINE e == EscapeKey(p[1])
            u == unescapeKey(e)
            S == Keys \cup {e, u}
            w == Wire(p)
            k == Key(w)
<1>1. p \in Seq(S)
  BY SeqMonotonic
<1>2. e \in S /\ u \in S /\ w = <<e>> \o Tail(p)
  BY FirstEscaped
<1>3. k = <<unescapeKey(w[1])>> \o Tail(w)
  BY DEF Key
<1>4. p[1] \in Keys
  BY EmptySeq, LenProperties
<1>5. Returns(p[1]) => u = p[1]
  BY <1>4, KeyReturns
<1>. HIDE DEF e, S, w, k
<1>6. w \in Seq(S) /\ w # <<>> /\ Len(w) = Len(p) /\ w[1] = e /\ Tail(w) = Tail(p)
  BY <1>1, <1>2, FirstReplaced
<1>. HIDE DEF u
<1>7. k = <<u>> \o Tail(w)
  BY <1>3, <1>6 DEF u
<1>8. Len(k) = Len(w) /\ Tail(k) = Tail(w)
  BY <1>2, <1>6, <1>7, FirstReplaced
<1>9. u = p[1] => k = p
  BY <1>6, <1>7, FirstAndRest
<1>. QED
  BY <1>5, <1>6, <1>8, <1>9 DEF k, w

LEMMA NodesAreLinks ==
    ASSUME NEW doc
    PROVE  /\ \A q \in DOMAIN doc : Key(Wire(q)) \in DOMAIN primitiveToNode(Encode(doc))
           /\ \A p \in DOMAIN primitiveToNode(Encode(doc)) : \E q \in DOMAIN doc :
                  Key(Wire(q)) = p /\ primitiveToNode(Encode(doc))[p] = DecodeLink(doc[q])
<1>. DEFINE wire == Encode(doc)
            node == primitiveToNode(wire)
<1>1. wire = [p \in {Wire(q) : q \in DOMAIN doc} |->
                 doc[CHOOSE q \in DOMAIN doc : Wire(q) = p]]
  BY Zenon DEF Encode, Wire
<1>2. node = [p \in {Key(q) : q \in DOMAIN wire} |->
                 DecodeLink(wire[CHOOSE q \in DOMAIN wire : Key(q) = p])]
  BY Zenon DEF primitiveToNode, Key
<1>. HIDE DEF wire, node
<1>3. DOMAIN wire = {Wire(q) : q \in DOMAIN doc}
  BY <1>1
<1>4. \A w \in DOMAIN wire : \E q \in DOMAIN doc : Wire(q) = w /\ wire[w] = doc[q]
  BY <1>1
<1>5. DOMAIN node = {Key(w) : w \in DOMAIN wire}
  BY <1>2
<1>6. \A p \in DOMAIN node : \E w \in DOMAIN wire : Key(w) = p /\ node[p] = DecodeLink(wire[w])
  BY <1>2
<1>7. \A q \in DOMAIN doc : Key(Wire(q)) \in DOMAIN node
  BY <1>3, <1>5
<1>8. \A p \in DOMAIN node : \E q \in DOMAIN doc : Key(Wire(q)) = p /\ node[p] = DecodeLink(doc[q])
  BY <1>4, <1>6
<1>. QED
  BY <1>7, <1>8, Zenon DEF node, wire

LEMMA OneOrMore == ASSUME NEW n \in Nat \ {0} PROVE n = 1 \/ n > 1
OBVIOUS

LEMMA PathsOfDocument ==
    ASSUME NEW doc \in Documents, NEW p \in DOMAIN doc
    PROVE  /\ p \in Seq(Keys) /\ p # <<>> /\ p[1] \in Keys /\ (Len(p) = 1 \/ Len(p) > 1)
           /\ NamesReturn(doc) => RestStays(p) /\ (Len(p) > 1 => Returns(p[1]))
<1>1. Seq(STRING) \subseteq Keys
  BY SeqMonotonic DEF Keys, Words
<1>2. p \in Seq(Seq(STRING)) /\ p # <<>>
  BY DocumentsAssumption
<1>3. p \in Seq(Keys)
  BY <1>1, <1>2, SeqMonotonic
<1>4. Len(p) \in Nat \ {0} /\ p[1] \in Keys
  BY <1>2, <1>3, EmptySeq, LenProperties
<1>6. Len(p) = 1 \/ Len(p) > 1
  BY <1>4, OneOrMore
<1>5. NamesReturn(doc) => RestStays(p) /\ (Len(p) > 1 => Returns(p[1]))
  BY Zenon DEF NamesReturn, Returns, RestStays
<1>. QED
  BY <1>2, <1>3, <1>4, <1>5, <1>6

\* The form leads to no other link than its own.
Finds(doc, f) == NamesReturn(doc) /\ (Len(f) > 1 \/ SectionsAreNamed(doc))

LEMMA FindsItsLink ==
    ASSUME NEW doc \in Documents, NEW f \in DOMAIN doc,
           NEW node, node = primitiveToNode(Encode(doc)),
           NEW keys, keys = normalizeKeys(DataKey(f))
    PROVE  /\ keys \in DOMAIN node
              => \E q \in DOMAIN doc :
                     node[keys] = DecodeLink(doc[q]) /\ (Finds(doc, f) => q = f)
           /\ NamesReturn(doc) /\ Len(f) > 1 => keys \in DOMAIN node
<1>1. f \in Seq(Keys) /\ f # <<>> /\ (Len(f) = 1 \/ Len(f) > 1)
  BY PathsOfDocument
<1>7. /\ \A q \in DOMAIN doc : Key(Wire(q)) \in DOMAIN node
      /\ \A p \in DOMAIN node : \E q \in DOMAIN doc :
             Key(Wire(q)) = p /\ node[p] = DecodeLink(doc[q])
  BY NodesAreLinks, Zenon
<1>2. Len(f) > 1 => keys = f
  <2>1. SUFFICES ASSUME Len(f) > 1
                 PROVE  keys = f
    OBVIOUS
  <2>2. DataKey(f) = << <<f[1]>>, Tail(f) >>
    BY <2>1 DEF DataKey
  <2>3. keys = <<f[1]>> \o Tail(f)
    BY <2>2, Joined
  <2>. QED
    BY <1>1, <2>3, FirstAndRest
<1>3. Len(f) = 1 => Len(keys) = 2 /\ keys[1] = <<>>
  <2>1. SUFFICES ASSUME Len(f) = 1
                 PROVE  Len(keys) = 2 /\ keys[1] = <<>>
    OBVIOUS
  <2>. DEFINE e == <<>>
  <2>2. DataKey(f) = << <<e>>, f >>
    BY <2>1 DEF DataKey
  <2>3. keys = <<e>> \o f
    BY <2>2, Joined
  <2>4. e \in Keys
    BY EmptySeq DEF Keys
  <2>. HIDE DEF e
  <2>5. Len(keys) = Len(f) + 1 /\ keys[1] = e
    BY <1>1, <2>3, <2>4, InFront
  <2>. QED
    BY <2>1, <2>5 DEF e
<1>4. ASSUME NEW q \in DOMAIN doc, NamesReturn(doc)
      PROVE  /\ Len(Key(Wire(q))) = Len(q)
             /\ Len(q) > 1 => Key(Wire(q)) = q
  <2>1. q \in Seq(Keys) /\ q # <<>> /\ RestStays(q) /\ (Len(q) > 1 => Returns(q[1]))
    BY <1>4, PathsOfDocument
  <2>. QED
    BY <2>1, PathReturns
<1>5. NamesReturn(doc) /\ Len(f) > 1 => keys \in DOMAIN node
  BY <1>2, <1>4, <1>7, Zenon
<1>6. ASSUME keys \in DOMAIN node
      PROVE  \E q \in DOMAIN doc : node[keys] = DecodeLink(doc[q]) /\ (Finds(doc, f) => q = f)
  <2>1. PICK q \in DOMAIN doc : Key(Wire(q)) = keys /\ node[keys] = DecodeLink(doc[q])
    BY <1>6, <1>7, Zenon
  <2>2. ASSUME NamesReturn(doc), Len(f) > 1
        PROVE  q = f
    BY <1>2, <1>4, <2>1, <2>2
  <2>3. ASSUME NamesReturn(doc), Len(f) = 1, SectionsAreNamed(doc)
        PROVE  FALSE
    <3>1. Len(q) = 2 /\ q[1] = <<>>
      BY <1>3, <1>4, <2>1, <2>3
    <3>. QED
      BY <2>3, <3>1 DEF SectionsAreNamed
  <2>4. Len(f) = 1 \/ Len(f) > 1
    BY <1>1
  <2>. QED
    BY <2>1, <2>2, <2>3, <2>4 DEF Finds
<1>. QED
  BY <1>5, <1>6

(***************************************************************************)
(* The request of a call: it is built from a link and the parameters of the *)
(* form, and the link is the form's own where the names return.             *)
(***************************************************************************)
Made(doc, k, s) ==
    LET params == Params(doc[s.form].fields, s.texts)
    IN /\ s.texts \in Inputs(doc, s.form)
       /\ IF k.phase = "thrown"
          THEN /\ k.request = Absent
               /\ NamesReturn(doc) /\ Len(s.form) > 1 /\ SchemesAreKnown(doc)
                  => \/ ParameterError(DecodeLink(doc[s.form]).fields, params)
                     \/ AssignmentError(DecodeLink(doc[s.form]).fields, params)
          ELSE \E q \in DOMAIN doc : \E auth :
                   LET link == DecodeLink(doc[q])
                   IN /\ k.request = buildRequest(link, params, auth)
                      /\ ~ParameterError(link.fields, params)
                      /\ Finds(doc, s.form) => q = s.form

RequestInv ==
    \A c \in Calls :
        IF call[c].phase = "unused" THEN call[c].request = Absent
        ELSE Made(document, call[c], submission[c])

LEMMA SubmitMakes ==
    ASSUME TypeOK, NEW f \in Forms(document), NEW c \in Calls, Submit(f, c)
    PROVE  Made(document, call'[c], submission'[c]) /\ call'[c].phase # "unused"
<1>. DEFINE node == primitiveToNode(Encode(document))
            keys == normalizeKeys(DataKey(f))
            auth == Credentials(authentication, cookie)
            fields == document[f].fields
<1>1. PICK texts \in Inputs(document, f) :
          /\ action(c, node, keys, Params(fields, texts), auth)
          /\ submission' = [submission EXCEPT ![c] =
                 [form |-> f, texts |-> texts, cookie |-> cookie, alone |-> InFlight(f) = {}]]
  BY DEF Submit
<1>. DEFINE params == Params(fields, texts)
            link == lookupLink(node, keys)
<1>2. submission'[c].form = f /\ submission'[c].texts = texts
  BY <1>1 DEF TypeOK
<1>3. document \in Documents /\ f \in DOMAIN document /\ DOMAIN call = Calls
  BY DEF TypeOK, ClientTypeOK, Forms
<1>4. call'[c] = IF \/ link = Absent
                    \/ ~determineTransport(link)
                    \/ ParameterError(link.fields, params)
                    \/ AssignmentError(link.fields, params)
                 THEN [Unused EXCEPT !.phase = "thrown"]
                 ELSE [Unused EXCEPT !.phase = "sent", !.request = buildRequest(link, params, auth)]
  BY <1>1, <1>3 DEF action
<1>. HIDE DEF node, keys, auth, params
<1>5. /\ keys \in DOMAIN node
         => \E q \in DOMAIN document :
                node[keys] = DecodeLink(document[q]) /\ (Finds(document, f) => q = f)
      /\ NamesReturn(document) /\ Len(f) > 1 => keys \in DOMAIN node
  BY <1>3, FindsItsLink DEF node, keys
<1>. DEFINE Error(l) == ParameterError(l.fields, params) \/ AssignmentError(l.fields, params)
<1>6. CASE link = Absent \/ ~determineTransport(link) \/ Error(link)
  <2>1. call'[c].phase = "thrown" /\ call'[c].request = Absent
    BY <1>4, <1>6 DEF Unused
  <2>2. ASSUME NamesReturn(document), Len(f) > 1, SchemesAreKnown(document)
        PROVE  Error(DecodeLink(document[f]))
    <3>1. link = DecodeLink(document[f])
      BY <1>5, <2>2 DEF lookupLink, Finds
    <3>2. link # Absent
      BY <1>3, <3>1, AbsentAssumption
    <3>3. determineTransport(link)
      BY <1>3, <2>2, <3>1 DEF determineTransport, DecodeLink, SchemesAreKnown
    <3>. QED
      BY <1>6, <3>1, <3>2, <3>3
  <2>. QED
    BY <1>1, <1>2, <2>1, <2>2 DEF Made, params
<1>7. CASE ~(link = Absent \/ ~determineTransport(link) \/ Error(link))
  <2>1. call'[c].phase = "sent" /\ call'[c].request = buildRequest(link, params, auth)
    BY <1>4, <1>7 DEF Unused
  <2>2. PICK q \in DOMAIN document : link = DecodeLink(document[q]) /\ (Finds(document, f) => q = f)
    BY <1>5, <1>7 DEF lookupLink
  <2>. QED
    BY <1>1, <1>2, <1>7, <2>1, <2>2 DEF Made, params
<1>. QED
  BY <1>6, <1>7

LEMMA RequestInductive == ASSUME TypeOK, RequestInv, [Next]_vars PROVE RequestInv'
<1>1. document' = document
  BY PanelInductive
<1>2. ASSUME NEW f \in Forms(document), NEW c \in Calls, Submit(f, c)
      PROVE  RequestInv'
  <2>1. \A d \in Calls \ {c} : call'[d] = call[d] /\ submission'[d] = submission[d]
    <3>1. Keeps(c)
      BY <1>2, ActionEffect DEF Submit, TypeOK
    <3>. QED
      BY <1>2, <3>1, SubmitEffect DEF Keeps
  <2>. QED
    BY <1>1, <1>2, <2>1, SubmitMakes DEF RequestInv
<1>3. ASSUME NEW c \in Calls, NEW f, GoesOn(c, f)
      PROVE  RequestInv'
  <2>1. /\ \A d \in Calls \ {c} : call'[d] = call[d]
        /\ call[c].phase \notin {"unused", "thrown"} /\ call'[c].phase \notin {"unused", "thrown"}
        /\ call'[c].request = call[c].request /\ submission' = submission
    BY <1>3 DEF GoesOn, Keeps, Settling, Pending, Settled
  <2>2. Made(document, call[c], submission[c])
    BY <2>1 DEF RequestInv
  <2>3. Made(document, call'[c], submission'[c])
    BY <2>1, <2>2 DEF Made
  <2>. QED
    BY <1>1, <2>1, <2>3 DEF RequestInv
<1>4. CASE UNCHANGED <<call, submission>>
  BY <1>1, <1>4 DEF RequestInv
<1>. QED
  BY <1>2, <1>3, <1>4, GoingOn DEF Next, Toggle, Authenticate, Rotate, vars

LEMMA RequestInitial == Init => RequestInv
BY DEF Init, ClientInit, Unused, RequestInv

(***************************************************************************)
(* The parameters that the texts of a form give.                            *)
(***************************************************************************)
LEMMA GreatestIsThere ==
    ASSUME NEW n \in Nat, NEW S \in SUBSET (0..n), S # {}
    PROVE  Max(S) \in S /\ \A j \in S : j <= Max(S)
<1>. DEFINE T == {n - j : j \in S}
            R == {ss \in Nat \X Nat : ss[1] < ss[2]}
<1>1. \A j \in S : j \in Int /\ n - j \in Nat
  OBVIOUS
<1>2. T \subseteq Nat /\ T # {}
  BY <1>1
<1>3. IsWellFoundedOn(R, Nat)
  BY NatLessThanWellFounded DEF OpToRel
<1>4. \A x, y \in Nat : y < x => <<y, x>> \in R
  OBVIOUS
<1>. HIDE DEF R, T
<1>5. PICK x \in T : \A y \in T : ~(<<y, x>> \in R)
  BY <1>2, <1>3, WFMin
<1>6. PICK i \in S : x = n - i
  BY <1>5 DEF T
<1>7. \A j \in S : i >= j /\ j <= i
  <2>. SUFFICES ASSUME NEW j \in S
                PROVE  i >= j /\ j <= i
    OBVIOUS
  <2>1. n - j \in T /\ n - j \in Nat /\ x \in Nat /\ i \in Int /\ j \in Int
    BY <1>1, <1>2, <1>5, <1>6 DEF T
  <2>2. ~(n - j < x)
    BY <1>4, <1>5, <2>1
  <2>. QED
    BY <1>6, <2>1, <2>2
<1>8. Max(S) \in S /\ \A j \in S : Max(S) >= j
  BY <1>6, <1>7 DEF Max
<1>. QED
  BY <1>1, <1>8

\* The fields of a link are listed, and each has a type that the page knows.
Listed(fields) ==
    /\ Len(fields) \in Nat /\ DOMAIN fields = 1..Len(fields)
    /\ \A i \in DOMAIN fields : fields[i].type \in DOMAIN Texts

LEMMA FieldsOfLink ==
    ASSUME NEW doc \in Documents, NEW f \in DOMAIN doc
    PROVE  Listed(doc[f].fields)
<1>. DEFINE Fields == [name : STRING, location : STRING \cup {Absent},
                       type : DOMAIN Texts, required : BOOLEAN]
<1>1. \A field \in Fields : field.type \in DOMAIN Texts
  OBVIOUS
<1>2. doc[f].fields \in Seq(Fields)
  BY DocumentsAssumption
<1>. HIDE DEF Fields
<1>3. /\ Len(doc[f].fields) \in Nat /\ DOMAIN doc[f].fields = 1..Len(doc[f].fields)
      /\ \A i \in DOMAIN doc[f].fields : doc[f].fields[i] \in Fields
  BY <1>2, LenProperties
<1>. QED
  BY <1>1, <1>3 DEF Listed

LEMMA TypesAreKnown ==
    ASSUME NEW fields, Listed(fields), NEW n \in Names(fields)
    PROVE  TypeOf(fields, n) \in DOMAIN Texts
<1>. DEFINE S == {i \in DOMAIN fields : fields[i].name = n}
<1>1. S \in SUBSET (0..Len(fields)) /\ S # {} /\ Len(fields) \in Nat
  BY DEF Listed, Names
<1>2. Max(S) \in S
  BY <1>1, GreatestIsThere
<1>. QED
  BY <1>2 DEF Listed, TypeOf

\* Each input holds what one of its type may hold.
Fits(fields, texts) == \A n \in Names(fields) : texts[n] \in Texts[TypeOf(fields, n)]

\* The parameters are what was typed under their names, and nothing else.
AsTyped(fields, texts, params) ==
    /\ DOMAIN params \subseteq Names(fields)
    /\ \A n \in DOMAIN params :
           /\ params[n] # Absent
           /\ params[n] \in Blank => /\ TypeOf(fields, n) \in {"array", "object"}
                                    /\ Reading(TypeOf(fields, n), texts[n]) = params[n]
    /\ \A n \in Names(fields) : Typed(fields, texts, n) # Absent =>
           n \in DOMAIN params /\ params[n] = Typed(fields, texts, n)

LEMMA ParamsAreTyped ==
    ASSUME NEW fields, Listed(fields), NEW texts, Fits(fields, texts)
    PROVE  AsTyped(fields, texts, Params(fields, texts))
<1>. DEFINE params == Params(fields, texts)
            Value(n) == Reading(TypeOf(fields, n), texts[n])
            given == {n \in Names(fields) : texts[n] # Unchecked /\ Value(n) # Absent}
            boxes == {n \in Names(fields) : TypeOf(fields, n) = "boolean"}
<1>1. params = [n \in given \cup boxes |-> IF n \in given THEN Value(n) ELSE "false"]
  BY Zenon DEF Params
<1>. HIDE DEF params
<1>2. DOMAIN params = given \cup boxes
  BY <1>1
<1>3. \A n \in given : params[n] = Value(n)
  BY <1>1
<1>4. \A n \in boxes \ given : params[n] = "false"
  BY <1>1
<1>5. ASSUME NEW n \in Names(fields)
      PROVE  /\ texts[n] = Unchecked => n \in boxes /\ n \notin given
             /\ n \in given /\ Value(n) \in Blank => TypeOf(fields, n) \in {"array", "object"}
  <2>1. TypeOf(fields, n) \in DOMAIN Texts /\ texts[n] \in Texts[TypeOf(fields, n)]
    BY TypesAreKnown DEF Fits
  <2>2. IF texts[n] = Unchecked THEN TypeOf(fields, n) = "boolean"
        ELSE \A t \in DOMAIN texts[n] \ {"array", "object"} : texts[n][t] \notin Blank
    BY <2>1, TextsAssumption, Zenon
  <2>3. n \in given => TypeOf(fields, n) \in DOMAIN texts[n] /\ Value(n) = texts[n][TypeOf(fields, n)]
    BY DEF Reading
  <2>. QED
    BY <2>2, <2>3
<1>6. Absent # "false"
  BY AbsentAssumption
<1>7. ASSUME NEW n \in DOMAIN params
      PROVE  /\ params[n] # Absent
             /\ params[n] \in Blank => TypeOf(fields, n) \in {"array", "object"} /\ Value(n) = params[n]
  <2>1. CASE n \in given
    BY <1>3, <1>5, <2>1
  <2>2. CASE n \notin given
    BY <1>2, <1>4, <1>6, <2>2, BlankAssumption
  <2>. QED
    BY <2>1, <2>2
<1>8. ASSUME NEW n \in Names(fields), Typed(fields, texts, n) # Absent
      PROVE  n \in DOMAIN params /\ params[n] = Typed(fields, texts, n)
  <2>1. CASE texts[n] = Unchecked
    BY <1>2, <1>4, <1>5, <2>1 DEF Typed
  <2>2. CASE texts[n] # Unchecked
    BY <1>2, <1>3, <1>8, <2>2 DEF Typed
  <2>. QED
    BY <2>1, <2>2
<1>. QED
  BY <1>2, <1>7, <1>8 DEF AsTyped, params

\* What the client makes of the fields.
LEMMA DecodedFields ==
    ASSUME NEW link
    PROVE  LET fields == DecodeLink(link).fields
           IN  /\ DOMAIN fields = DOMAIN link.fields /\ Names(fields) = Names(link.fields)
               /\ \A i \in DOMAIN link.fields :
                      /\ fields[i].name = link.fields[i].name
                      /\ fields[i].required = link.fields[i].required
                      /\ fields[i].location =
                             IF link.fields[i].location = Absent THEN "" ELSE link.fields[i].location
<1>. DEFINE fields == DecodeLink(link).fields
<1>1. fields = [i \in DOMAIN link.fields |-> DecodeField(link.fields[i])]
  BY DEF DecodeLink
<1>. HIDE DEF fields
<1>2. DOMAIN fields = DOMAIN link.fields
  BY <1>1
<1>3. \A i \in DOMAIN link.fields :
          /\ fields[i].name = link.fields[i].name
          /\ fields[i].required = link.fields[i].required
          /\ fields[i].location =
                 IF link.fields[i].location = Absent THEN "" ELSE link.fields[i].location
  BY <1>1 DEF DecodeField
<1>4. Names(fields) = Names(link.fields)
  BY <1>2, <1>3 DEF Names
<1>. QED
  BY <1>2, <1>3, <1>4 DEF fields

LEMMA DecodedLink ==
    ASSUME NEW link
    PROVE  /\ DecodeLink(link).method = IF link.action = Absent THEN "GET" ELSE link.action
           /\ DecodeLink(link).variables = link.variables
           /\ DecodeLink(link).encoding = "application/json"
BY DEF DecodeLink

\* What a submission gives.
LEMMA SubmittedParams ==
    ASSUME NEW doc \in Documents, NEW f \in Forms(doc), NEW texts \in Inputs(doc, f)
    PROVE  /\ f \in DOMAIN doc /\ Listed(doc[f].fields)
           /\ AsTyped(doc[f].fields, texts, Params(doc[f].fields, texts))
<1>1. f \in DOMAIN doc
  BY DEF Forms
<1>2. Listed(doc[f].fields)
  BY <1>1, FieldsOfLink
<1>3. Fits(doc[f].fields, texts)
  BY Zenon DEF Inputs, Fits
<1>. QED
  BY <1>1, <1>2, <1>3, ParamsAreTyped, Zenon

(***************************************************************************)
(* A form leads to its own link.                                            *)
(***************************************************************************)
LEMMA MissingParameter ==
    ASSUME NEW link, NEW params, DOMAIN params \subseteq Names(link.fields),
           ParameterError(DecodeLink(link).fields, params)
    PROVE  \E i \in DOMAIN link.fields :
               link.fields[i].required /\ link.fields[i].name \notin DOMAIN params
BY DecodedFields, ZenonT(30) DEF ParameterError

LEMMA LastBodyIsGiven ==
    ASSUME NEW n \in Nat, NEW fields, DOMAIN fields = 1..n, NEW params
    PROVE  LET last == LastBody(fields, params)
           IN  /\ last \in 0..n
               /\ last # 0 => /\ fields[last].location = "body"
                             /\ fields[last].name \in DOMAIN params
               /\ \A i \in 1..n : fields[i].location = "body" /\ fields[i].name \in DOMAIN params
                                 => i <= last
<1>. DEFINE InBody == {i \in DOMAIN fields : /\ fields[i].location = "body"
                                             /\ fields[i].name \in DOMAIN params}
            last == Max({0} \cup InBody)
<1>1. {0} \cup InBody \in SUBSET (0..n) /\ {0} \cup InBody # {}
  OBVIOUS
<1>2. last \in {0} \cup InBody /\ \A j \in InBody : j <= last
  BY <1>1, GreatestIsThere
<1>. HIDE DEF last
<1>3. /\ last \in 0..n
      /\ last # 0 => fields[last].location = "body" /\ fields[last].name \in DOMAIN params
      /\ \A i \in 1..n : fields[i].location = "body" /\ fields[i].name \in DOMAIN params => i <= last
  BY <1>2
<1>. QED
  BY <1>3 DEF last, LastBody

\* The first fields of a link, as the client has them.
LEMMA FieldsInFront ==
    ASSUME NEW n \in Nat, NEW fields, fields = [i \in 1..n |-> fields[i]], NEW k \in 0..n
    PROVE  LET front == SubSeq(fields, 1, k)
           IN  DOMAIN front = 1..k /\ \A i \in 1..k : front[i] = fields[i]
<1>. DEFINE S == {fields[i] : i \in 1..n}
<1>1. fields \in Seq(S) /\ Len(fields) = n
  <2>1. \A i \in 1..n : fields[i] \in S
    OBVIOUS
  <2>. HIDE DEF S
  <2>2. [i \in 1..n |-> fields[i]] \in Seq(S) /\ Len([i \in 1..n |-> fields[i]]) = n
    BY <2>1
  <2>. QED
    BY <2>2, Zenon
<1>. HIDE DEF S
<1>. QED
  BY <1>1

LEMMA MisplacedParameter ==
    ASSUME NEW link, Listed(link.fields), NEW params,
           AssignmentError(DecodeLink(link).fields, params)
    PROVE  \E i, j \in DOMAIN link.fields :
               /\ j < i
               /\ link.fields[i].location = "form" /\ link.fields[i].name \in DOMAIN params
               /\ link.fields[j].location = "body" /\ link.fields[j].name \in DOMAIN params
               /\ params[link.fields[j].name] \notin Lists \cup Objects
<1>. DEFINE fields == DecodeLink(link).fields
            n == Len(link.fields)
<1>1. /\ n \in Nat /\ DOMAIN link.fields = 1..n /\ DOMAIN fields = 1..n
      /\ fields = [i \in 1..n |-> fields[i]]
  BY DecodedFields DEF Listed, DecodeLink
<1>2. \A i \in 1..n : /\ fields[i].name = link.fields[i].name
                      /\ \A place \in {"form", "body"} :
                             fields[i].location = place => link.fields[i].location = place
  <2>1. "" # "form" /\ "" # "body"
    OBVIOUS
  <2>. QED
    BY <1>1, <2>1, DecodedFields
<1>3. PICK i \in 1..n :
          /\ fields[i].location = "form" /\ fields[i].name \in DOMAIN params
          /\ LET last == LastBody(SubSeq(fields, 1, i), params)
             IN last # 0 /\ params[fields[last].name] \notin Lists \cup Objects
  BY <1>1 DEF AssignmentError
<1>. DEFINE front == SubSeq(fields, 1, i)
            j == LastBody(front, params)
<1>. HIDE DEF fields, n
<1>4. DOMAIN front = 1..i /\ \A k \in 1..i : front[k] = fields[k]
  BY <1>1, FieldsInFront
<1>. HIDE DEF front
<1>5. j \in 1..i /\ fields[j].location = "body" /\ fields[j].name \in DOMAIN params
  <2>1. j \in 0..i /\ (j # 0 => front[j].location = "body" /\ front[j].name \in DOMAIN params)
    BY <1>4, LastBodyIsGiven
  <2>2. j # 0
    BY <1>3 DEF front
  <2>. QED
    BY <1>4, <2>1, <2>2
<1>6. params[fields[j].name] \notin Lists \cup Objects
  BY <1>3 DEF front
<1>7. j # i /\ j \in 1..n /\ j < i
  BY <1>1, <1>3, <1>5
<1>. HIDE DEF j
<1>8. /\ link.fields[i].location = "form" /\ link.fields[i].name \in DOMAIN params
      /\ link.fields[j].location = "body" /\ link.fields[j].name \in DOMAIN params
      /\ params[link.fields[j].name] \notin Lists \cup Objects
  BY <1>2, <1>3, <1>5, <1>6, <1>7
<1>. QED
  BY <1>1, <1>7, <1>8, Zenon

LEMMA FormsLead ==
    ASSUME TypeOK, RequestInv, \A d \in Documents : NamesReturn(d) /\ SchemesAreKnown(d)
    PROVE  FormsFindTheirLinks
<1>. SUFFICES ASSUME NEW c \in Calls, call[c].phase # "unused", Len(submission[c].form) > 1
              PROVE  LET link == document[submission[c].form]
                         params == Params(link.fields, submission[c].texts)
                         Given(i, place) == /\ link.fields[i].location = place
                                            /\ link.fields[i].name \in DOMAIN params
                     IN IF call[c].phase = "thrown"
                        THEN \/ \E i \in DOMAIN link.fields :
                                    link.fields[i].required /\ link.fields[i].name \notin DOMAIN params
                             \/ \E i, j \in DOMAIN link.fields :
                                    /\ j < i /\ Given(i, "form") /\ Given(j, "body")
                                    /\ params[link.fields[j].name] \notin Lists \cup Objects
                        ELSE /\ call[c].request.method =
                                    (IF link.action = Absent THEN "GET" ELSE link.action)
                             /\ DOMAIN call[c].request.path = link.variables
  BY Zenon DEF FormsFindTheirLinks
<1>. DEFINE f == submission[c].form
            link == document[f]
            params == Params(link.fields, submission[c].texts)
<1>1. document \in Documents /\ f \in Forms(document)
  BY DEF TypeOK
<1>2. Made(document, call[c], submission[c])
  BY DEF RequestInv
<1>3. NamesReturn(document) /\ SchemesAreKnown(document) /\ Finds(document, f)
  BY <1>1 DEF Finds
<1>4. DOMAIN params \subseteq Names(link.fields) /\ Listed(link.fields)
  <2>1. submission[c].texts \in Inputs(document, f)
    BY <1>2, Zenon DEF Made
  <2>2. AsTyped(link.fields, submission[c].texts, params) /\ Listed(link.fields)
    BY <1>1, <2>1, SubmittedParams, Zenon
  <2>. QED
    BY <2>2, Zenon DEF AsTyped
<1>5. CASE call[c].phase = "thrown"
  <2>1. \/ ParameterError(DecodeLink(link).fields, params)
        \/ AssignmentError(DecodeLink(link).fields, params)
    BY <1>2, <1>3, <1>5 DEF Made
  <2>2. CASE ParameterError(DecodeLink(link).fields, params)
    BY <1>4, <1>5, <2>2, MissingParameter
  <2>3. CASE AssignmentError(DecodeLink(link).fields, params)
    <3>1. \E i, j \in DOMAIN link.fields :
              /\ j < i
              /\ link.fields[i].location = "form" /\ link.fields[i].name \in DOMAIN params
              /\ link.fields[j].location = "body" /\ link.fields[j].name \in DOMAIN params
              /\ params[link.fields[j].name] \notin Lists \cup Objects
      BY <1>4, <2>3, MisplacedParameter
    <3>. QED
      BY <1>5, <3>1, Zenon
  <2>. QED
    BY <2>1, <2>2, <2>3
<1>6. CASE call[c].phase # "thrown"
  <2>1. PICK auth : call[c].request = buildRequest(DecodeLink(link), params, auth)
    BY <1>2, <1>3, <1>6 DEF Made
  <2>2. /\ call[c].request.method = DecodeLink(link).method
        /\ DOMAIN call[c].request.path = DecodeLink(link).variables
    BY <2>1 DEF buildRequest, Expand
  <2>. QED
    BY <1>6, <2>2, DecodedLink
<1>. QED
  BY <1>5, <1>6

\* If no section is named so that an underscore is lost, no key below a section is reserved, and every
\* URL is relative or of HTTP, the form of a link in a section makes a call of that link, unless a
\* required input has no reading, or a form field behind a body has nothing to be assigned into.
THEOREM FormsLeadToTheirLinks ==
    Spec /\ (\A d \in Documents : NamesReturn(d) /\ SchemesAreKnown(d)) => []FormsFindTheirLinks
<1>. SUFFICES ASSUME \A d \in Documents : NamesReturn(d) /\ SchemesAreKnown(d)
              PROVE  Spec => []FormsFindTheirLinks
  OBVIOUS
<1>1. TypeOK /\ RequestInv /\ [Next]_vars => (TypeOK /\ RequestInv)'
  BY TypesInductive, RequestInductive
<1>2. Init => TypeOK /\ RequestInv
  BY Initial, RequestInitial
<1>3. TypeOK /\ RequestInv => FormsFindTheirLinks
  BY FormsLead
<1>. QED
  BY <1>1, <1>2, <1>3, PTL DEF Spec

(***************************************************************************)
(* No path has an empty segment.                                            *)
(***************************************************************************)
LEMMA PathsExpand ==
    ASSUME TypeOK, RequestInv, \A d \in Documents : PathsAreFields(d)
    PROVE  PathIsComplete
<1>. SUFFICES ASSUME NEW c \in Calls, call[c].request # Absent,
                     NEW v \in DOMAIN call[c].request.path
              PROVE  LET type == TypeOf(document[submission[c].form].fields, v)
                     IN  call[c].request.path[v] = ""
                         => type \in {"array", "object"} /\ Reading(type, submission[c].texts[v]) \in Blank
  BY Zenon DEF PathIsComplete
<1>. DEFINE f == submission[c].form
            params == Params(document[f].fields, submission[c].texts)
            type == TypeOf(document[f].fields, v)
<1>1. Made(document, call[c], submission[c]) /\ call[c].phase # "unused"
  BY DEF RequestInv
<1>2. document \in Documents /\ f \in Forms(document) /\ PathsAreFields(document)
  BY <1>1 DEF TypeOK
<1>3. v \in DOMAIN params /\ params[v] \in Blank
      => type \in {"array", "object"} /\ Reading(type, submission[c].texts[v]) = params[v]
  <2>1. submission[c].texts \in Inputs(document, f)
    BY <1>1, Zenon DEF Made
  <2>2. AsTyped(document[f].fields, submission[c].texts, params)
    BY <1>2, <2>1, SubmittedParams, Zenon
  <2>. QED
    BY <2>2, Zenon DEF AsTyped
<1>. HIDE DEF params, type
<1>10. PICK q \in DOMAIN document : \E auth :
          /\ call[c].request = buildRequest(DecodeLink(document[q]), params, auth)
          /\ ~ParameterError(DecodeLink(document[q]).fields, params)
  BY <1>1 DEF Made, params
<1>4. PICK auth :
          /\ call[c].request = buildRequest(DecodeLink(document[q]), params, auth)
          /\ ~ParameterError(DecodeLink(document[q]).fields, params)
  BY <1>10
<1>. DEFINE fields == DecodeLink(document[q]).fields
            context == At(fields, params, "path")
<1>5. call[c].request.path = [x \in document[q].variables |-> getValues(context, x)]
  <2>1. call[c].request.path = Expand(DecodeLink(document[q]).variables, context)
    BY <1>4 DEF buildRequest
  <2>. QED
    BY <2>1, DecodedLink, Zenon DEF Expand
<1>12. v \in document[q].variables
  BY <1>5, Zenon
<1>6. PICK i \in DOMAIN document[q].fields :
          /\ document[q].fields[i].location = "path" /\ document[q].fields[i].required
          /\ v = document[q].fields[i].name
  BY <1>2, <1>12 DEF PathsAreFields
<1>7. i \in DOMAIN fields /\ fields[i].location = "path" /\ fields[i].required /\ v = fields[i].name
  BY <1>6, DecodedFields, AbsentAssumption
<1>8. v \in DOMAIN params
  BY <1>4, <1>7, Zenon DEF ParameterError
<1>9. v \in DOMAIN context /\ context[v] = params[v]
  BY <1>7, <1>8 DEF At
<1>11. call[c].request.path[v] = "" => params[v] \in Blank
  BY <1>5, <1>9, <1>12, BlankAssumption DEF getValues
<1>. QED
  BY <1>3, <1>8, <1>11 DEF type

\* If the variables of each path are its fields and required, a request goes to a path with an empty
\* segment only if its user typed null or JSON of nothing for it: what is empty or malformed gives no
\* parameter, and without one nothing is sent.
THEOREM PathsAreComplete ==
    Spec /\ (\A d \in Documents : PathsAreFields(d)) => []PathIsComplete
<1>. SUFFICES ASSUME \A d \in Documents : PathsAreFields(d)
              PROVE  Spec => []PathIsComplete
  OBVIOUS
<1>1. TypeOK /\ RequestInv /\ [Next]_vars => (TypeOK /\ RequestInv)'
  BY TypesInductive, RequestInductive
<1>2. Init => TypeOK /\ RequestInv
  BY Initial, RequestInitial
<1>3. TypeOK /\ RequestInv => PathIsComplete
  BY PathsExpand
<1>. QED
  BY <1>1, <1>2, <1>3, PTL DEF Spec

(***************************************************************************)
(* What is typed is sent, at its place.                                     *)
(***************************************************************************)
LEMMA SentAt ==
    ASSUME NEW fields, NEW params, NEW place, NEW i \in DOMAIN fields,
           fields[i].location = place, fields[i].name \in DOMAIN params
    PROVE  /\ fields[i].name \in DOMAIN At(fields, params, place)
           /\ At(fields, params, place)[fields[i].name] = params[fields[i].name]
BY DEF At

\* The last fields of a link, as the client has them.
LEMMA FieldsBehind ==
    ASSUME NEW n \in Nat, NEW fields, fields = [i \in 1..n |-> fields[i]], NEW last \in 0..n
    PROVE  LET behind == SubSeq(fields, last + 1, Len(fields))
           IN  \A i \in (last + 1)..n : i - last \in DOMAIN behind /\ behind[i - last] = fields[i]
<1>. DEFINE S == {fields[i] : i \in 1..n}
<1>1. fields \in Seq(S) /\ Len(fields) = n
  <2>1. \A i \in 1..n : fields[i] \in S
    OBVIOUS
  <2>. HIDE DEF S
  <2>2. [i \in 1..n |-> fields[i]] \in Seq(S) /\ Len([i \in 1..n |-> fields[i]]) = n
    BY <2>1
  <2>. QED
    BY <2>2, Zenon
<1>. HIDE DEF S
<1>. QED
  BY <1>1

\* What DecodeLink makes of fields of which at most one name is the whole body.
Decoded(fields, n) ==
    /\ fields = [i \in 1..n |-> fields[i]]
    /\ \A i, j \in 1..n : fields[i].location = "body" /\ fields[j].location = "body"
                           => fields[i].name = fields[j].name

Present(params) == \A x \in DOMAIN params : params[x] # Absent

\* The place in the body of what a field of the form or the body gives.
LEMMA SentInBody ==
    ASSUME NEW n \in Nat, NEW fields, Decoded(fields, n), NEW params, Present(params),
           NEW k \in 1..n, fields[k].name \in DOMAIN params,
           NEW place \in {"form", "body"}, fields[k].location = place
    PROVE  LET body == FormParams(fields, params)
           IN  /\ place = "body" => body.whole = params[fields[k].name]
               /\ place = "form"
                  /\ \/ body.whole = Absent
                     \/ /\ body.whole \in Objects
                        /\ \A j \in 1..n : fields[j].location = "body" => j < k
                  => /\ fields[k].name \in DOMAIN body.parts
                     /\ body.parts[fields[k].name] = params[fields[k].name]
<1>. DEFINE last == LastBody(fields, params)
            whole == IF last = 0 THEN Absent ELSE params[fields[last].name]
            behind == SubSeq(fields, last + 1, Len(fields))
            body == FormParams(fields, params)
<1>1. /\ DOMAIN fields = 1..n /\ fields = [i \in 1..n |-> fields[i]]
      /\ \A x \in DOMAIN params : params[x] # Absent
      /\ \A i, j \in 1..n : fields[i].location = "body" /\ fields[j].location = "body"
                             => fields[i].name = fields[j].name
  BY DEF Decoded, Present
<1>2. /\ last \in 0..n
      /\ last # 0 => fields[last].location = "body" /\ fields[last].name \in DOMAIN params
      /\ \A i \in 1..n : fields[i].location = "body" /\ fields[i].name \in DOMAIN params => i <= last
  BY <1>1, LastBodyIsGiven
<1>3. /\ body.whole = whole
      /\ last = 0 \/ whole \in Objects => body.parts = At(behind, params, "form")
  BY DEF FormParams
<1>4. \A i \in (last + 1)..n : i - last \in DOMAIN behind /\ behind[i - last] = fields[i]
  BY <1>1, <1>2, FieldsBehind
<1>. HIDE DEF last, behind, body
<1>5. CASE place = "body"
  <2>1. last # 0 /\ last \in 1..n
    BY <1>2, <1>5
  <2>2. fields[last].name = fields[k].name
    BY <1>1, <1>2, <1>5, <2>1
  <2>. QED
    BY <1>3, <1>5, <2>1, <2>2 DEF body
<1>6. ASSUME place = "form",
             \/ body.whole = Absent
             \/ /\ body.whole \in Objects
                /\ \A j \in 1..n : fields[j].location = "body" => j < k
      PROVE  /\ fields[k].name \in DOMAIN body.parts
             /\ body.parts[fields[k].name] = params[fields[k].name]
  <2>1. last < k /\ (last = 0 \/ whole \in Objects)
    BY <1>1, <1>2, <1>3, <1>6
  <2>2. body.parts = At(behind, params, "form")
    BY <1>3, <2>1
  <2>3. k - last \in DOMAIN behind /\ behind[k - last] = fields[k]
    BY <1>2, <1>4, <2>1
  <2>4. /\ behind[k - last].name \in DOMAIN At(behind, params, "form")
        /\ At(behind, params, "form")[behind[k - last].name] = params[behind[k - last].name]
    BY <1>6, <2>3, SentAt
  <2>. QED
    BY <2>2, <2>3, <2>4
<1>. QED
  BY <1>5, <1>6 DEF body

\* A field stands in the request as it was typed.
StandsIn(request, fields, texts, i) ==
    LET n == fields[i].name
        place == fields[i].location
        value == Typed(fields, texts, n)
        In(params) == n \in DOMAIN params /\ params[n] = value
    IN  /\ place = "path" => /\ n \in DOMAIN request.path
                             /\ request.path[n] = IF value \in Blank THEN "" ELSE value
        /\ place = "query" => n \in DOMAIN request.query /\ request.query[n] = value
        /\ place \in {"form", "body"} =>
               /\ request.contentType = "application/json"
               /\ place = "body" => request.body.whole = value
               /\ place = "form"
                  /\ \/ request.body.whole = Absent
                     \/ /\ request.body.whole \in Objects
                        /\ \A j \in DOMAIN fields : fields[j].location = "body" => j < i
                  => In(request.body.parts)

LEMMA TypedGoesOut ==
    ASSUME NEW doc \in Documents, NEW f \in DOMAIN doc, PathsAreFields(doc), OneBody(doc),
           NEW texts, NEW auth, NEW i \in DOMAIN doc[f].fields,
           Listed(doc[f].fields), AsTyped(doc[f].fields, texts, Params(doc[f].fields, texts)),
           Typed(doc[f].fields, texts, doc[f].fields[i].name) # Absent
    PROVE  StandsIn(buildRequest(DecodeLink(doc[f]), Params(doc[f].fields, texts), auth),
                    doc[f].fields, texts, i)
<1>. DEFINE link == DecodeLink(doc[f])
            fields == link.fields
            n == doc[f].fields[i].name
            place == doc[f].fields[i].location
            value == Typed(doc[f].fields, texts, n)
            params == Params(doc[f].fields, texts)
            request == buildRequest(link, params, auth)
            size == Len(doc[f].fields)
<1>1. n \in Names(doc[f].fields)
  BY DEF Names
<1>2. n \in DOMAIN params /\ params[n] = value /\ \A x \in DOMAIN params : params[x] # Absent
  BY <1>1 DEF AsTyped
<1>3. /\ DOMAIN fields = DOMAIN doc[f].fields
      /\ \A j \in DOMAIN doc[f].fields :
             /\ fields[j].name = doc[f].fields[j].name
             /\ doc[f].fields[j].location # Absent => fields[j].location = doc[f].fields[j].location
             /\ fields[j].location = "body" <=> doc[f].fields[j].location = "body"
  <2>1. "" # "body" /\ Absent # "body"
    BY AbsentAssumption
  <2>. QED
    BY <2>1, DecodedFields
<1>4. size \in Nat /\ DOMAIN doc[f].fields = 1..size
  BY DEF Listed
<1>5. fields = [j \in 1..size |-> fields[j]]
  <2>1. fields = [j \in 1..size |-> DecodeField(doc[f].fields[j])]
    BY <1>4 DEF DecodeLink
  <2>. QED
    BY <2>1
<1>6. /\ request.path = Expand(doc[f].variables, At(fields, params, "path"))
      /\ request.query = At(fields, params, "query")
      /\ HasBody(fields, params) =>
             /\ request.body = FormParams(fields, params)
             /\ request.contentType = "application/json"
  BY DecodedLink DEF buildRequest
<1>7. place \in {"path", "query", "form", "body"} => fields[i].location = place
  BY <1>3, AbsentAssumption
<1>8. fields[i].name = n
  BY <1>3
<1>9. PathsAreFields(doc) /\ place = "path" => n \in doc[f].variables
  BY DEF PathsAreFields
<1>10. Decoded(fields, size) /\ Present(params)
  <2>1. \A j, k \in 1..size : fields[j].location = "body" /\ fields[k].location = "body"
                              => fields[j].name = fields[k].name
    BY <1>3, <1>4 DEF OneBody
  <2>. QED
    BY <1>2, <1>5, <2>1, Zenon DEF Decoded, Present
<1>. HIDE DEF params, link, fields, n, value, place, request, size
<1>11. CASE place = "path"
  <2>1. n \in DOMAIN At(fields, params, "path") /\ At(fields, params, "path")[n] = value
    BY <1>2, <1>3, <1>7, <1>8, <1>11, SentAt
  <2>2. n \in DOMAIN request.path /\ request.path[n] = IF value \in Blank THEN "" ELSE value
    BY <1>6, <1>9, <1>11, <2>1 DEF Expand, getValues
  <2>. QED
    BY <1>11, <2>2 DEF StandsIn, params, link, fields, n, value, place, request
<1>12. CASE place = "query"
  <2>1. n \in DOMAIN request.query /\ request.query[n] = value
    BY <1>2, <1>3, <1>6, <1>7, <1>8, <1>12, SentAt
  <2>. QED
    BY <1>12, <2>1 DEF StandsIn, params, link, fields, n, value, place, request
<1>13. CASE place \in {"form", "body"}
  <2>1. fields[i].location = place /\ i \in DOMAIN fields /\ i \in 1..size
    BY <1>3, <1>4, <1>7, <1>13
  <2>2. HasBody(fields, params)
    BY <1>2, <1>8, <1>13, <2>1 DEF HasBody
  <2>3. request.body = FormParams(fields, params) /\ request.contentType = "application/json"
    BY <1>6, <2>2
  <2>4. /\ place = "body" => request.body.whole = value
        /\ place = "form"
           /\ \/ request.body.whole = Absent
              \/ /\ request.body.whole \in Objects
                 /\ \A j \in DOMAIN doc[f].fields : doc[f].fields[j].location = "body" => j < i
           => n \in DOMAIN request.body.parts /\ request.body.parts[n] = value
    <3>1. LET body == FormParams(fields, params)
          IN  /\ place = "body" => body.whole = params[fields[i].name]
              /\ place = "form"
                 /\ \/ body.whole = Absent
                    \/ /\ body.whole \in Objects
                       /\ \A j \in 1..size : fields[j].location = "body" => j < i
                 => /\ fields[i].name \in DOMAIN body.parts
                    /\ body.parts[fields[i].name] = params[fields[i].name]
      BY <1>2, <1>4, <1>8, <1>10, <1>13, <2>1, SentInBody
    <3>2. (\A j \in DOMAIN doc[f].fields : doc[f].fields[j].location = "body" => j < i)
          => \A j \in 1..size : fields[j].location = "body" => j < i
      BY <1>3, <1>4
    <3>. QED
      BY <1>2, <1>8, <2>3, <3>1, <3>2
  <2>. QED
    BY <1>13, <2>3, <2>4 DEF StandsIn, params, link, fields, n, value, place, request
<1>14. CASE place \notin {"path", "query", "form", "body"}
  BY <1>14 DEF StandsIn, place
<1>. QED
  BY <1>11, <1>12, <1>13, <1>14

LEMMA FieldsStand ==
    ASSUME TypeOK, RequestInv,
           \A d \in Documents :
               NamesReturn(d) /\ SectionsAreNamed(d) /\ PathsAreFields(d) /\ OneBody(d)
    PROVE  SentAsTyped
<1>. SUFFICES ASSUME NEW c \in Calls, call[c].request # Absent,
                     NEW i \in DOMAIN document[submission[c].form].fields,
                     Typed(document[submission[c].form].fields, submission[c].texts,
                           document[submission[c].form].fields[i].name) # Absent
              PROVE  StandsIn(call[c].request, document[submission[c].form].fields,
                              submission[c].texts, i)
  BY Zenon DEF SentAsTyped, StandsIn
<1>. DEFINE f == submission[c].form
            fields == document[f].fields
            texts == submission[c].texts
<1>1. Made(document, call[c], submission[c]) /\ call[c].phase # "unused"
  BY DEF RequestInv
<1>2. /\ document \in Documents /\ f \in Forms(document)
      /\ NamesReturn(document) /\ SectionsAreNamed(document)
      /\ PathsAreFields(document) /\ OneBody(document)
  BY <1>1 DEF TypeOK
<1>3. texts \in Inputs(document, f)
  BY <1>1, Zenon DEF Made
<1>4. f \in DOMAIN document /\ Listed(fields) /\ AsTyped(fields, texts, Params(fields, texts))
  BY <1>2, <1>3, SubmittedParams, Zenon
<1>5. PICK auth : call[c].request = buildRequest(DecodeLink(document[f]), Params(fields, texts), auth)
  <2>1. Finds(document, f)
    BY <1>2 DEF Finds
  <2>. QED
    BY <1>1, <2>1 DEF Made
<1>. QED
  BY <1>2, <1>4, <1>5, TypedGoesOut

\* If each section has a name, and none that loses an underscore, no key below one is reserved, the
\* variables of each path are its fields and required, and the fields that are the whole body of a link share a name, then what the
\* user typed is sent as the type of its field reads it, at the place of the field.
THEOREM TypedIsSent ==
    Spec /\ (\A d \in Documents :
                NamesReturn(d) /\ SectionsAreNamed(d) /\ PathsAreFields(d) /\ OneBody(d))
    => []SentAsTyped
<1>. SUFFICES ASSUME \A d \in Documents :
                         NamesReturn(d) /\ SectionsAreNamed(d) /\ PathsAreFields(d) /\ OneBody(d)
              PROVE  Spec => []SentAsTyped
  OBVIOUS
<1>1. TypeOK /\ RequestInv /\ [Next]_vars => (TypeOK /\ RequestInv)'
  BY TypesInductive, RequestInductive
<1>2. Init => TypeOK /\ RequestInv
  BY Initial, RequestInitial
<1>3. TypeOK /\ RequestInv => SentAsTyped
  BY FieldsStand
<1>. QED
  BY <1>1, <1>2, <1>3, PTL DEF Spec
=============================================================================
