--------------------------- MODULE AjaxFormProofs ---------------------------
(***************************************************************************)
(* Proofs about AjaxForm, for every page, any submissions and rotations of   *)
(* the CSRF token: which token a document and its requests have, and what    *)
(* the user sees after a submission.                                        *)
(***************************************************************************)
EXTENDS AjaxForm, TLAPS

(***************************************************************************)
(* What the steps do to the phases, the navigation and the document.        *)
(***************************************************************************)
PageFields == {"answers", "cookie", "token", "edit", "invalid", "tabs", "before"}
Phases == {"unused", "sent", "native", "done", "dropped"}

LEMMA DocumentFields ==
    ASSUME NEW c, NEW k, NEW invalid
    PROVE  /\ DOMAIN Document(c, k, invalid) = PageFields
           /\ Document(c, k, invalid).answers = c
           /\ Document(c, k, invalid).cookie = k /\ Document(c, k, invalid).token = k
           /\ Document(c, k, invalid).tabs = OpenTabs
           /\ Document(c, k, invalid).before = Made
BY DEF Document, PageFields

\* A document comes.
Opens(c, k) ==
    /\ DOMAIN page' = PageFields
    /\ page'.answers = c /\ page'.cookie = k /\ page'.token = k
    /\ page'.tabs = OpenTabs /\ page'.before = Made
    /\ nav' = Absent
    /\ UNCHANGED <<request, cookie, tabstyle>>

\* Calls end; what the browser sent by itself is among them.
Ends ==
    /\ phase' \in [Calls -> Phases]
    /\ \A d \in Calls : /\ phase'[d] # "native"
                        /\ \/ phase'[d] = phase[d]
                           \/ d \in UnderWay /\ phase'[d] \in {"done", "dropped"}

\* The page is loaded again.
Reloads == nav' = Reloading /\ UNCHANGED <<page, request, cookie, tabstyle>>

\* The call of the navigation is the one that the browser sent by itself.
LEMMA NativeIsNavCall ==
    ASSUME TypeOK
    PROVE  \A d \in Calls : phase[d] = "native" <=> d \in NavCall
BY CallsAssumption DEF TypeOK, NavCall

LEMMA DroppingEnds ==
    ASSUME TypeOK, NEW cancelled \in SUBSET UnderWay, NavCall \subseteq cancelled
    PROVE  /\ Dropping(cancelled) \in [Calls -> Phases]
           /\ \A d \in Calls : /\ Dropping(cancelled)[d] # "native"
                               /\ \/ Dropping(cancelled)[d] = phase[d]
                                  \/ d \in UnderWay /\ Dropping(cancelled)[d] = "dropped"
BY NativeIsNavCall DEF Dropping, TypeOK, Phases

LEMMA NavCallIsUnderWay == ASSUME TypeOK PROVE NavCall \subseteq UnderWay
BY NativeIsNavCall DEF UnderWay, NavCall

LEMMA ReplaceEffect ==
    ASSUME TypeOK, NEW c \in Calls, Replace(c)
    PROVE  Opens(c, request[c].cookie) /\ Ends /\ c \in UnderWay
<1>1. PICK ended \in SUBSET (UnderWay \ ({c} \cup NavCall)) :
          phase' = [Dropping(NavCall \cup ended) EXCEPT ![c] = "done"]
  BY DEF Replace
<1>2. c \in UnderWay
  BY DEF Replace, UnderWay
<1>3. NavCall \cup ended \in SUBSET UnderWay
  BY NavCallIsUnderWay
<1>4. Ends
  BY <1>1, <1>2, <1>3, DroppingEnds DEF Ends, Phases
<1>5. Opens(c, request[c].cookie)
  BY DocumentFields DEF Replace, replaceDocument, Opens
<1>. QED
  BY <1>2, <1>4, <1>5

LEMMA RedirectEffect ==
    ASSUME TypeOK, NEW c \in Calls, Redirect(c)
    PROVE  Reloads /\ Ends
<1>1. c \in UnderWay /\ NavCall \in SUBSET UnderWay
  BY NavCallIsUnderWay DEF Redirect, UnderWay
<1>. QED
  BY <1>1, DroppingEnds DEF Redirect, Reloads, Ends, Phases

LEMMA ReloadEffect ==
    ASSUME TypeOK, Reload
    PROVE  Reloads /\ Ends
<1>1. NavCall \in SUBSET UnderWay
  BY NavCallIsUnderWay
<1>. QED
  BY <1>1, DroppingEnds DEF Reload, Reloads, Ends, Phases

LEMMA LoadEffect ==
    ASSUME TypeOK, Load
    PROVE  Opens(nav.call, nav.cookie) /\ Ends /\ nav # Absent
<1>1. Opens(nav.call, nav.cookie) /\ nav # Absent
  BY DocumentFields DEF Load, Opens
<1>2. \A d \in Calls : phase[d] \in Phases
  BY DEF TypeOK, Phases
<1>3. \A d \in Calls : phase[d] = "native" => d = nav.call
  BY DEF TypeOK
<1>4. \A d \in Calls : d = nav.call => phase[d] = "native"
  BY <1>1 DEF TypeOK
<1>5. Ends
  BY <1>2, <1>3, <1>4 DEF Load, Ends, Phases, UnderWay
<1>. QED
  BY <1>1, <1>5

\* A form is submitted, to the browser or not.
Submits(form, c) ==
    /\ phase[c] = "unused" /\ \A d \in Calls : d < c => phase[d] # "unused"
    /\ phase' \in [Calls -> Phases]
    /\ \A d \in Calls \ {c} : /\ request'[d] = request[d]
                              /\ \/ phase'[d] = phase[d]
                                 \/ d \in UnderWay /\ phase'[d] = "dropped"
    /\ DOMAIN request' = Calls
    /\ request'[c].cookie = cookie /\ request'[c].since = page.cookie
    /\ request'[c].alone = (UnderWay = {} /\ nav = Absent)
    /\ csrfSafeMethod(request'[c].method) \/ request'[c].token = page.token
    /\ \/ /\ phase'[c] = "native" /\ nav' = [call |-> c, cookie |-> cookie]
          /\ \A d \in Calls \ {c} : phase'[d] # "native"
       \/ /\ phase'[c] = "sent" /\ nav' = nav
          /\ \A d \in Calls \ {c} : phase'[d] = phase[d]
    /\ UNCHANGED <<page, cookie, tabstyle>>

LEMMA SubmitEffect ==
    ASSUME TypeOK, NEW f \in Forms, NEW b \in f.buttons, NEW o \in Overrides(f), NEW c \in Calls,
           Submit(f, b, o, c)
    PROVE  Submits(f, c)
<1>. DEFINE sent == IF Standard(f, b, o) THEN StandardRequest(f) ELSE AjaxRequest(f, b, o)
<1>1. /\ phase[c] = "unused" /\ \A d \in Calls : d < c => phase[d] # "unused"
      /\ UNCHANGED <<page, cookie, tabstyle>>
  BY DEF Submit
<1>2. DOMAIN request = Calls /\ phase \in [Calls -> Phases]
  BY DEF TypeOK, Phases
<1>3. /\ DOMAIN request' = Calls /\ \A d \in Calls \ {c} : request'[d] = request[d]
      /\ request'[c].cookie = cookie /\ request'[c].since = page.cookie
      /\ request'[c].alone = (UnderWay = {} /\ nav = Absent)
      /\ request'[c].method = sent.method /\ request'[c].token = sent.token
  BY <1>2 DEF Submit
<1>4. csrfSafeMethod(sent.method) \/ sent.token = page.token
  <2>1. CASE Standard(f, b, o)
    <3>1. sent = StandardRequest(f)
      BY <2>1
    <3>2. f.token \/ f.method = Absent \/ csrfSafeMethod(f.method)
      BY <2>1, TokensAssumption
    <3>. QED
      BY <3>1, <3>2 DEF StandardRequest, OrElse, csrfSafeMethod, Safe
  <2>2. CASE ~Standard(f, b, o)
    BY <2>2 DEF AjaxRequest
  <2>. QED
    BY <2>1, <2>2
<1>5. CASE Standard(f, b, o)
  <2>1. /\ nav' = [call |-> c, cookie |-> cookie]
        /\ phase' = [Dropping(NavCall) EXCEPT ![c] = "native"]
    BY <1>5 DEF Submit
  <2>2. NavCall \in SUBSET UnderWay
    BY NavCallIsUnderWay
  <2>3. /\ Dropping(NavCall) \in [Calls -> Phases]
        /\ \A d \in Calls : /\ Dropping(NavCall)[d] # "native"
                            /\ \/ Dropping(NavCall)[d] = phase[d]
                               \/ d \in UnderWay /\ Dropping(NavCall)[d] = "dropped"
    BY <2>2, DroppingEnds
  <2>. QED
    BY <1>1, <1>3, <1>4, <2>1, <2>3 DEF Submits, Phases
<1>6. CASE ~Standard(f, b, o)
  <2>1. phase' = [phase EXCEPT ![c] = "sent"] /\ nav' = nav
    BY <1>6 DEF Submit
  <2>. QED
    BY <1>1, <1>2, <1>3, <1>4, <2>1 DEF Submits, Phases
<1>. QED
  BY <1>5, <1>6

\* Nothing happens to the calls and to the document but for its tabs.
Rests ==
    /\ UNCHANGED <<nav, phase, request>>
    /\ DOMAIN page' = DOMAIN page
    /\ \A x \in PageFields \ {"tabs"} : page'[x] = page[x]
    /\ cookie' = cookie \/ (cookie <= MaxRotations /\ cookie' = cookie + 1)

LEMMA Steps ==
    ASSUME TypeOK, [Next]_vars, DOMAIN page = PageFields
    PROVE  \/ \E f \in Forms, c \in Calls : Submits(f, c)
           \/ \E c \in Calls : Opens(c, request[c].cookie) /\ Ends /\ c \in UnderWay
           \/ Opens(nav.call, nav.cookie) /\ Ends /\ nav # Absent
           \/ Reloads /\ Ends
           \/ Rests
<1>1. ASSUME NEW g, NEW tab, ClickTab(g, tab)
      PROVE  Rests
  BY <1>1 DEF ClickTab, Rests, PageFields
<1>2. CASE Rotate
  BY <1>2 DEF Rotate, Rests
<1>3. CASE UNCHANGED vars
  BY <1>3 DEF vars, Rests
<1>. QED
  BY <1>1, <1>2, <1>3, SubmitEffect, ReplaceEffect, RedirectEffect, LoadEffect, ReloadEffect DEF Next

(***************************************************************************)
(* The type invariant.                                                      *)
(***************************************************************************)
Typed == TypeOK /\ DOMAIN page = PageFields

LEMMA Initial == Init => Typed
<1>. SUFFICES ASSUME Init PROVE Typed
  OBVIOUS
<1>1. /\ DOMAIN page = PageFields /\ page.answers = 0 /\ page.before = Made
      /\ page.cookie = 1 /\ page.token = 1
  <2>1. page = Document(0, 1, FALSE)
    BY DEF Init
  <2>. QED
    BY <2>1 DEF Document, PageFields
<1>2. Made = {} /\ 1 \in 1..(MaxRotations + 1)
  BY MaxRotationsAssumption DEF Init, Made
<1>3. phase \in [Calls -> {"unused", "sent", "native", "done", "dropped"}]
  BY DEF Init
<1>4. /\ cookie = 1 /\ nav = Absent /\ DOMAIN request = Calls
      /\ \A c \in Calls : phase[c] # "native"
  BY DEF Init
<1>. QED
  BY <1>1, <1>2, <1>3, <1>4 DEF Typed, TypeOK

LEMMA TypesInductive == ASSUME Typed, [Next]_vars PROVE Typed'
<1>. USE CallsAssumption, MaxRotationsAssumption
<1>1. /\ TypeOK /\ cookie \in 1..(MaxRotations + 1) /\ cookie \in Nat
      /\ phase \in [Calls -> Phases] /\ DOMAIN request = Calls
      /\ \A c \in Made : request[c].cookie \in 1..cookie
      /\ nav # Absent => nav.call \in {0} \cup Calls /\ nav.cookie \in 1..cookie
      /\ page.answers \in {0} \cup Calls /\ page.before \subseteq Made
      /\ {page.cookie, page.token} \subseteq 1..cookie
      /\ \A c \in Calls : phase[c] = "native" <=> nav # Absent /\ nav.call = c
      /\ DOMAIN page = PageFields
  BY DEF Typed, TypeOK, Phases
<1>2. ASSUME NEW f \in Forms, NEW c \in Calls, Submits(f, c)
      PROVE  Typed'
  <2>1. phase' \in [Calls -> Phases] /\ DOMAIN request' = Calls /\ UNCHANGED <<page, cookie>>
    BY <1>2 DEF Submits
  <2>2. Made' = Made \cup {c}
    BY <1>2 DEF Submits, Made, UnderWay
  <2>3. \A d \in Made' : request'[d].cookie \in 1..cookie'
    BY <1>1, <1>2, <2>2 DEF Submits, Made
  <2>4. c \in Nat /\ cookie \in 1..cookie
    BY <1>1
  <2>5. nav' # Absent => nav'.call \in {0} \cup Calls /\ nav'.cookie \in 1..cookie'
    BY <1>1, <1>2, <2>4 DEF Submits
  <2>6. \A d \in Calls : phase'[d] = "native" <=> nav' # Absent /\ nav'.call = d
    <3>1. CASE phase'[c] = "native"
      <4>1. /\ nav' = [call |-> c, cookie |-> cookie]
            /\ \A d \in Calls \ {c} : phase'[d] # "native"
        BY <1>2, <3>1 DEF Submits
      <4>2. nav' # Absent /\ nav'.call = c
        BY <1>1, <2>4, <4>1, AbsentAssumption
      <4>. QED
        BY <3>1, <4>1, <4>2
    <3>2. CASE phase'[c] = "sent"
      <4>1. nav' = nav /\ phase[c] # "native" /\ \A d \in Calls \ {c} : phase'[d] = phase[d]
        BY <1>2, <3>2 DEF Submits
      <4>. QED
        BY <1>1, <3>2, <4>1
    <3>. QED
      BY <1>2, <3>1, <3>2 DEF Submits
  <2>. QED
    BY <1>1, <2>1, <2>2, <2>3, <2>5, <2>6 DEF Typed, TypeOK, Phases
<1>3. ASSUME Ends
      PROVE  phase' \in [Calls -> Phases] /\ Made' = Made /\ \A c \in Calls : phase'[c] # "native"
  BY <1>1, <1>3 DEF Ends, Made, UnderWay, Phases
<1>4. ASSUME NEW c \in {0} \cup Calls, NEW k \in 1..cookie, Opens(c, k), Ends
      PROVE  Typed'
  BY <1>1, <1>3, <1>4 DEF Typed, TypeOK, Opens, Phases
<1>5. CASE \E c \in Calls : Opens(c, request[c].cookie) /\ Ends /\ c \in UnderWay
  <2>1. PICK c \in Calls : Opens(c, request[c].cookie) /\ Ends /\ c \in UnderWay
    BY <1>5
  <2>2. request[c].cookie \in 1..cookie
    BY <1>1, <2>1 DEF UnderWay, Made
  <2>. QED
    BY <1>4, <2>1, <2>2
<1>6. CASE Opens(nav.call, nav.cookie) /\ Ends /\ nav # Absent
  BY <1>1, <1>4, <1>6
<1>7. CASE Reloads /\ Ends
  <2>1. nav' = [call |-> 0, cookie |-> cookie] /\ nav'.call = 0 /\ nav'.cookie \in 1..cookie
    BY <1>1, <1>7 DEF Reloads, Reloading
  <2>2. \A c \in Calls : nav'.call # c
    BY <2>1
  <2>. QED
    BY <1>1, <1>3, <1>7, <2>1, <2>2 DEF Typed, TypeOK, Reloads, Phases
<1>8. CASE Rests
  <2>1. 1..cookie \subseteq 1..cookie' /\ cookie' \in 1..(MaxRotations + 1)
    BY <1>1, <1>8 DEF Rests
  <2>2. /\ page'.answers = page.answers /\ page'.before = page.before
        /\ page'.cookie = page.cookie /\ page'.token = page.token
        /\ DOMAIN page' = PageFields /\ UNCHANGED <<nav, phase, request, Made>>
    BY <1>1, <1>8 DEF Rests, PageFields, Made
  <2>. QED
    BY <1>1, <2>1, <2>2 DEF Typed, TypeOK, Phases
<1>. QED
  BY <1>1, <1>2, <1>5, <1>6, <1>7, <1>8, Steps

\* Every reachable state of the forms has the shape that ajax-form.js and the browser give it.
THEOREM FormTypes == Spec => []TypeOK
<1>1. Typed => TypeOK
  BY DEF Typed
<1>. QED
  BY <1>1, Initial, TypesInductive, PTL DEF Spec

(***************************************************************************)
(* The CSRF token.                                                          *)
(***************************************************************************)
TokenInv == page.token = page.cookie /\ RefusedOnlyIfRotated

LEMMA TokenInductive == ASSUME Typed, TokenInv, [Next]_vars PROVE TokenInv'
<1>1. TypeOK /\ DOMAIN page = PageFields
  BY DEF Typed
<1>2. ASSUME NEW f \in Forms, NEW c \in Calls, Submits(f, c)
      PROVE  TokenInv'
  <2>1. \A d \in Made' : d = c \/ (d \in Made /\ request'[d] = request[d])
    BY <1>2 DEF Submits, Made, UnderWay
  <2>2. Refused(request'[c]) => request'[c].since # request'[c].cookie
    BY <1>2 DEF Submits, Refused, TokenInv
  <2>. QED
    BY <1>2, <2>1, <2>2 DEF TokenInv, RefusedOnlyIfRotated, Submits
<1>3. ASSUME Ends, UNCHANGED request
      PROVE  RefusedOnlyIfRotated'
  <2>1. Made' \subseteq Made
    BY <1>3 DEF Ends, Made, UnderWay
  <2>. QED
    BY <1>3, <2>1 DEF TokenInv, RefusedOnlyIfRotated
<1>4. CASE Rests
  <2>1. page'.token = page.token /\ page'.cookie = page.cookie /\ UNCHANGED <<Made, request>>
    BY <1>4 DEF Rests, PageFields, Made
  <2>. QED
    BY <2>1 DEF TokenInv, RefusedOnlyIfRotated
<1>. QED
  BY <1>1, <1>2, <1>3, <1>4, Steps DEF Opens, Reloads, TokenInv

\* Whichever answer a document came with, a refusal too, its requests carry the token of the cookie
\* its own request was sent with: only a rotation since then makes the server refuse one.
THEOREM TokensAreFresh == Spec => []RefusedOnlyIfRotated
<1>1. Init => TokenInv
  <2>1. Init => page = Document(0, cookie, FALSE) /\ Made = {}
    BY DEF Init, Made
  <2>. QED
    BY <2>1 DEF Document, TokenInv, RefusedOnlyIfRotated
<1>2. TokenInv => RefusedOnlyIfRotated
  BY DEF TokenInv
<1>. QED
  BY <1>1, <1>2, Initial, TypesInductive, TokenInductive, PTL DEF Spec

(***************************************************************************)
(* The last submission, if it was made alone.                               *)
(***************************************************************************)
\* Submissions are made in their order.
InOrder == \A c, d \in Calls : d < c /\ phase[c] # "unused" => phase[d] # "unused"

LastAlone(c) == c \in Made /\ request[c].alone /\ \A d \in Made : d <= c

\* No other is under way then.
AloneIsAlone == \A c \in Calls : LastAlone(c) => UnderWay \subseteq {c}

SeenInv == InOrder /\ AloneIsAlone /\ SeenWhenAlone

LEMMA SeenInductive == ASSUME Typed, SeenInv, [Next]_vars PROVE SeenInv'
<1>. USE CallsAssumption
<1>1. TypeOK /\ DOMAIN page = PageFields
  BY DEF Typed
<1>2. ASSUME NEW f \in Forms, NEW c \in Calls, Submits(f, c)
      PROVE  SeenInv'
  <2>1. Made' = Made \cup {c} /\ c \notin Made /\ phase'[c] \in {"sent", "native"}
    BY <1>2 DEF Submits, Made, UnderWay
  <2>2. InOrder'
    <3>1. \A d \in Calls : phase'[d] # "unused" <=> d \in Made \cup {c}
      BY <2>1 DEF Made
    <3>2. \A d \in Calls : d < c => d \in Made
      BY <1>2 DEF Submits, Made
    <3>. QED
      BY <3>1, <3>2 DEF SeenInv, InOrder, Made
  <2>3. \A d \in Made : ~(c <= d)
    BY <2>1 DEF SeenInv, InOrder, Made
  <2>4. \A d \in Calls : LastAlone(d)' => d = c /\ UnderWay = {}
    <3>1. ASSUME NEW d \in Calls, LastAlone(d)'
          PROVE  d = c /\ UnderWay = {}
      <4>1. d \in Made' /\ c <= d
        BY <2>1, <3>1 DEF LastAlone
      <4>2. d = c
        BY <2>1, <2>3, <4>1
      <4>. QED
        BY <1>2, <3>1, <4>2 DEF LastAlone, Submits
    <3>. QED
      BY <3>1
  <2>5. AloneIsAlone'
    <3>1. \A d \in UnderWay' : d = c \/ d \in UnderWay
      BY <1>2 DEF Submits, UnderWay
    <3>. QED
      BY <2>4, <3>1 DEF AloneIsAlone
  <2>6. SeenWhenAlone'
    <3>1. ASSUME NEW d \in Made', request'[d].alone, \A e \in Made' : e <= d,
                 phase'[d] \in {"done", "dropped"}
          PROVE  FALSE
      <4>1. d \in Calls /\ LastAlone(d)'
        BY <3>1 DEF LastAlone, Made
      <4>. QED
        BY <2>1, <2>4, <3>1, <4>1
    <3>. QED
      BY <3>1 DEF SeenWhenAlone
  <2>. QED
    BY <2>2, <2>5, <2>6 DEF SeenInv
<1>3. ASSUME Ends, UNCHANGED request
      PROVE  /\ Made' = Made /\ UnderWay' \subseteq UnderWay
             /\ InOrder' /\ AloneIsAlone'
             /\ \A c \in Made : LastAlone(c)' <=> LastAlone(c)
  <2>1. Made' = Made /\ UnderWay' \subseteq UnderWay
    BY <1>1, <1>3, ZenonT(30) DEF Ends, Made, UnderWay, TypeOK
  <2>2. \A c \in Calls : LastAlone(c)' <=> LastAlone(c)
    BY <1>3, <2>1 DEF LastAlone
  <2>3. \A c \in Calls : phase'[c] # "unused" <=> phase[c] # "unused"
    BY <2>1 DEF Made
  <2>. QED
    BY <2>1, <2>2, <2>3 DEF SeenInv, InOrder, AloneIsAlone, Made
<1>4. ASSUME NEW k, NEW c \in {0} \cup Calls, Opens(c, k), Ends,
             c = 0 \/ c \in UnderWay
      PROVE  SeenInv'
  <2>1. page'.answers = c /\ page'.before = Made /\ UNCHANGED request
    BY <1>4 DEF Opens
  <2>2. \A d \in Made : LastAlone(d) => c \in {0, d}
    BY <1>4 DEF SeenInv, AloneIsAlone, Made
  <2>3. SeenWhenAlone'
    BY <1>3, <1>4, <2>1, <2>2 DEF SeenWhenAlone, LastAlone
  <2>. QED
    BY <1>3, <1>4, <2>1, <2>3 DEF SeenInv
<1>5. CASE \E c \in Calls : Opens(c, request[c].cookie) /\ Ends /\ c \in UnderWay
  BY <1>4, <1>5
<1>6. CASE Opens(nav.call, nav.cookie) /\ Ends /\ nav # Absent
  <2>1. nav.call \in {0} \cup Calls /\ (nav.call = 0 \/ nav.call \in UnderWay)
    BY <1>1, <1>6 DEF TypeOK, UnderWay
  <2>. QED
    BY <1>4, <1>6, <2>1
<1>7. CASE Reloads /\ Ends
  <2>1. nav' # Absent
    <3>1. cookie \in Nat
      BY <1>1, MaxRotationsAssumption DEF TypeOK
    <3>. QED
      BY <1>7, <3>1, AbsentAssumption DEF Reloads, Reloading
  <2>2. SeenWhenAlone'
    BY <2>1 DEF SeenWhenAlone
  <2>. QED
    BY <1>3, <1>7, <2>2 DEF SeenInv, Reloads
<1>8. CASE Rests
  <2>1. /\ page'.answers = page.answers /\ page'.before = page.before
        /\ UNCHANGED <<nav, phase, request, Made, UnderWay>>
    BY <1>8 DEF Rests, PageFields, Made, UnderWay
  <2>. QED
    BY <2>1 DEF SeenInv, InOrder, AloneIsAlone, SeenWhenAlone, LastAlone
<1>. QED
  BY <1>1, <1>2, <1>5, <1>6, <1>7, <1>8, Steps

\* However late the answers of a document come and whatever the user loads meanwhile, who submits a
\* form with nothing under way, and nothing after it, ends at its answer or at the page after it.
THEOREM LastSubmissionIsSeen == Spec => []SeenWhenAlone
<1>1. Init => SeenInv
  BY DEF Init, SeenInv, InOrder, AloneIsAlone, SeenWhenAlone, LastAlone, Made
<1>2. SeenInv => SeenWhenAlone
  BY DEF SeenInv
<1>. QED
  BY <1>1, <1>2, Initial, TypesInductive, SeenInductive, PTL DEF Spec

(***************************************************************************)
(* The chosen tab.                                                          *)
(***************************************************************************)
\* The tab of the cookie is one of the page.
TabIsOfPage ==
    tabstyle # Absent => \E g \in Switchers : \E i \in DOMAIN Tabs[g] : Tabs[g][i] = tabstyle

LEMMA TabInductive ==
    ASSUME Typed, TabIsOfPage, [Next]_vars
    PROVE  /\ TabIsOfPage'
           /\ (page'.before # page.before /\ tabstyle # Absent)
              => \A g \in Switchers : page'.tabs[g] \in {tabstyle, Absent}
<1>1. TypeOK /\ DOMAIN page = PageFields
  BY DEF Typed
<1>2. ASSUME NEW g \in Switchers, NEW i \in DOMAIN Tabs[g], ClickTab(g, Tabs[g][i])
      PROVE  TabIsOfPage' /\ page'.before = page.before
  BY <1>1, <1>2 DEF ClickTab, TabIsOfPage, PageFields
<1>3. tabstyle # Absent => \A g \in Switchers : OpenTabs[g] \in {tabstyle, Absent}
  BY DEF TabIsOfPage, OpenTabs
<1>4. ASSUME NEW c, NEW k, Opens(c, k)
      PROVE  /\ TabIsOfPage'
             /\ tabstyle # Absent => \A g \in Switchers : page'.tabs[g] \in {tabstyle, Absent}
  BY <1>3, <1>4 DEF Opens, TabIsOfPage
<1>5. ASSUME UNCHANGED <<page, tabstyle>>
      PROVE  TabIsOfPage' /\ page'.before = page.before
  BY <1>5 DEF TabIsOfPage
<1>6. ASSUME NEW c \in Calls, Redirect(c) \/ Reload
      PROVE  UNCHANGED <<page, tabstyle>>
  BY <1>6 DEF Redirect, Reload
<1>. QED
  BY <1>1, <1>2, <1>4, <1>5, ReplaceEffect, LoadEffect
     DEF Next, Submit, Redirect, Reload, Rotate, vars

\* Each new document, and so each answer, opens the tab that the user chose last.
THEOREM ChosenTabIsKept == Spec => TabIsKept
<1>1. Init => TabIsOfPage
  BY DEF Init, TabIsOfPage
<1>2. Typed /\ TabIsOfPage /\ [Next]_vars
      => [(page'.before # page.before /\ tabstyle # Absent)
          => \A g \in Switchers : page'.tabs[g] \in {tabstyle, Absent}]_vars
  BY TabInductive
<1>3. Typed /\ TabIsOfPage /\ [Next]_vars => (Typed /\ TabIsOfPage)'
  BY TypesInductive, TabInductive
<1>. QED
  BY <1>1, <1>2, <1>3, Initial, PTL DEF Spec, TabIsKept
(***************************************************************************)
(* What is sent.                                                            *)
(***************************************************************************)
\* The request of c is what its submission asks for.
AsAsked(c) ==
    /\ IF request[c].button # Absent THEN request[c].method = request[c].button
       ELSE IF request[c].form.dataMethod # Absent
       THEN request[c].method = request[c].form.dataMethod
       ELSE request[c].form.method # Absent => request[c].method = request[c].form.method
    /\ request[c].override # Absent
       => request[c].content = "override" /\ request[c].type = request[c].override

LEMMA SubmittedAsAsked ==
    ASSUME TypeOK, MethodsAreAttributes,
           NEW f \in Forms, NEW b \in f.buttons, NEW o \in Overrides(f), NEW c \in Calls,
           Submit(f, b, o, c)
    PROVE  AsAsked(c)'
<1>. DEFINE sent == IF Standard(f, b, o) THEN StandardRequest(f) ELSE AjaxRequest(f, b, o)
<1>1. DOMAIN request = Calls
  BY DEF TypeOK
<1>2. /\ request'[c].form = f /\ request'[c].button = b /\ request'[c].override = o
      /\ request'[c].method = sent.method /\ request'[c].content = sent.content
      /\ request'[c].type = sent.type
  BY <1>1 DEF Submit
<1>3. sent.method = methodOf(f, b)
  BY DEF StandardRequest, AjaxRequest, MethodsAreAttributes
<1>4. o # Absent => sent.content = "override" /\ sent.type = o
  BY DEF AjaxRequest, MethodsAreAttributes
<1>. HIDE DEF sent
<1>. QED
  BY <1>2, <1>3, <1>4 DEF AsAsked, methodOf, OrElse

LEMMA AskedInductive ==
    ASSUME Typed, MethodsAreAttributes, \A c \in Made : AsAsked(c), [Next]_vars
    PROVE  (\A c \in Made : AsAsked(c))'
<1>1. TypeOK /\ DOMAIN page = PageFields
  BY DEF Typed
<1>2. ASSUME NEW f \in Forms, NEW c \in Calls, NEW b \in f.buttons, NEW o \in Overrides(f),
             Submit(f, b, o, c)
      PROVE  (\A d \in Made : AsAsked(d))'
  <2>1. \A d \in Made' : d = c \/ (d \in Made /\ request'[d] = request[d])
    BY <1>1, <1>2, SubmitEffect DEF Submits, Made, UnderWay
  <2>2. AsAsked(c)'
    BY <1>1, <1>2, SubmittedAsAsked
  <2>. QED
    BY <2>1, <2>2 DEF AsAsked
<1>3. ASSUME Made' \subseteq Made, UNCHANGED request
      PROVE  (\A c \in Made : AsAsked(c))'
  BY <1>3 DEF AsAsked
<1>4. CASE Ends /\ UNCHANGED request
  <2>1. Made' \subseteq Made
    BY <1>4 DEF Ends, Made, UnderWay
  <2>. QED
    BY <1>3, <1>4, <2>1
<1>5. CASE UNCHANGED <<phase, request>>
  BY <1>3, <1>5 DEF Made
<1>. QED
  BY <1>1, <1>2, <1>4, <1>5, ReplaceEffect, RedirectEffect, LoadEffect, ReloadEffect
     DEF Next, Opens, Reloads, ClickTab, Rotate, vars

\* If a template says the method of what it leaves to the browser in the attribute that the browser
\* reads, each request has the method that the button or the form asks for, whoever sends it, and
\* the content that overrides the fields.
THEOREM RequestsAreAsAsked == Spec /\ MethodsAreAttributes => []SentAsAsked
<1>. SUFFICES ASSUME MethodsAreAttributes
              PROVE  Spec => []SentAsAsked
  OBVIOUS
<1>1. Init => \A c \in Made : AsAsked(c)
  BY DEF Init, Made
<1>2. Typed /\ (\A c \in Made : AsAsked(c)) /\ [Next]_vars => (\A c \in Made : AsAsked(c))'
  BY AskedInductive
<1>3. (\A c \in Made : AsAsked(c)) => SentAsAsked
  BY DEF AsAsked, SentAsAsked, MethodAsAsked
<1>. QED
  BY <1>1, <1>2, <1>3, Initial, TypesInductive, PTL DEF Spec
=============================================================================
