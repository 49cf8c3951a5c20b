-------------------------- MODULE RequestAuthProofs --------------------------
(***************************************************************************)
(* Proofs about RequestAuth, for every chain of authentication classes,     *)
(* every number of clones and every order of accesses and assignments.      *)
(***************************************************************************)
EXTENDS RequestAuth, TLAPS

(***************************************************************************)
(* What an authentication class can answer.                                 *)
(***************************************************************************)
Results == [kind : {"pass", "ok", "fail", "crash"}, user : Users \cup {None},
            auth : Tokens \cup {None},
            exc : {None, "AuthenticationFailed", "PermissionDenied", "Error"}]

\* A user comes with its own token or with none.
LEMMA ResultTypes ==
    ASSUME NEW res \in TokenResults \cup SessionResults
    PROVE  /\ res \in Results
           /\ res.kind = "ok" => /\ res.user \in Users
                                /\ res.auth \in {None, Token(res.user)}
<1>1. CASE res \in TokenResults
  BY <1>1 DEF TokenResults, Results, Tokens, Pass, Ok, Fail, Crash
<1>2. CASE res \in SessionResults
  BY <1>2 DEF SessionResults, Results, Tokens, Pass, Ok, Fail
<1>. QED
  BY <1>1, <1>2

LEMMA OutcomeTypes ==
    ASSUME NEW o \in Outcomes
    PROVE  /\ o.result \in Results
           /\ o.result.kind = "ok" => /\ o.by \in DOMAIN Chain
                                     /\ o.result.user \in Users
                                     /\ o.result.auth \in {None, Token(o.result.user)}
<1>1. CASE o \in ChainResults
  <2>1. PICK i \in DOMAIN Chain, res \in TokenResults \cup SessionResults :
          o = [by |-> i, result |-> res]
    BY <1>1 DEF ChainResults
  <2>. QED
    BY <2>1, ResultTypes
<1>2. CASE o = [by |-> None, result |-> Pass]
  BY <1>2 DEF Pass, Results
<1>. QED
  BY <1>1, <1>2 DEF Outcomes

(***************************************************************************)
(* The inductive invariant: an object that ran its classes to an end has    *)
(* all three attributes, so no access runs them again; and as long as its   *)
(* user was not assigned, it holds the user its token belongs to.           *)
(***************************************************************************)
Complete(r) == \A field \in Fields : request[r][field] # Unset

ObjectInv(r) ==
    /\ runs[r] <= 1
    /\ runs[r] = 1 => Exists(r) /\ Complete(r)
    /\ r \in rejected => Exists(r) /\ Complete(r)
    /\ assigned[r] = Unset /\ request[r].auth \in Tokens
         => request[r].auth = Token(request[r].user)

AuthInv == AuthTypeOK /\ \A r \in Requests : ObjectInv(r)

LEMMA AuthInitial == AuthInit => AuthInv
<1>. SUFFICES ASSUME AuthInit PROVE AuthInv
  OBVIOUS
<1>1. AuthTypeOK
  BY RequestAuthAssumption DEF AuthInit, AuthTypeOK, Fresh, NoObject, NoAnswer, Fields
<1>2. ASSUME NEW r \in Requests
      PROVE  runs[r] = 0 /\ rejected = {} /\ request[r].auth \notin Tokens
  BY RequestAuthAssumption DEF AuthInit, Fresh, NoObject
<1>. QED
  BY <1>1, <1>2 DEF AuthInv, ObjectInv

\* The attributes an object gets when its classes ran to an end.
LEMMA Attributes ==
    ASSUME NEW o \in Outcomes, NEW a,
           a = IF o.result.kind = "ok"
               THEN [user |-> o.result.user, auth |-> o.result.auth, authenticator |-> o.by]
               ELSE NotAuthenticated
    PROVE  /\ a \in [user : Users \cup {Anonymous}, auth : Tokens \cup {None},
                    authenticator : DOMAIN Chain \cup {None}]
           /\ \A field \in Fields : a[field] # Unset
           /\ a # NoObject
           /\ a.auth \in Tokens => a.auth = Token(a.user)
<1>1. CASE o.result.kind = "ok"
  <2>1. /\ o.by \in DOMAIN Chain /\ o.result.user \in Users
        /\ o.result.auth \in {None, Token(o.result.user)}
    BY <1>1, OutcomeTypes
  <2>2. /\ a.user = o.result.user /\ a.auth = o.result.auth /\ a.authenticator = o.by
        /\ a = [user |-> o.result.user, auth |-> o.result.auth, authenticator |-> o.by]
    BY <1>1
  <2>3. None \notin Tokens /\ Unset \notin Users /\ Unset \notin Tokens
        /\ Unset \notin DOMAIN Chain /\ None # Unset /\ None \notin Users
    BY RequestAuthAssumption
  <2>4. o.result.auth \in Tokens \cup {None}
    BY <2>1 DEF Tokens
  <2>5. a.user # NoObject.user
    BY <2>1, <2>2, <2>3 DEF NoObject
  <2>6. \A field \in Fields : a[field] # Unset
    BY <2>1, <2>2, <2>3, <2>4 DEF Fields
  <2>. QED
    BY <2>1, <2>2, <2>3, <2>4, <2>5, <2>6
<1>2. CASE o.result.kind # "ok"
  <2>1. a = NotAuthenticated /\ a.user = Anonymous /\ a.auth = None /\ a.authenticator = None
    BY <1>2 DEF NotAuthenticated
  <2>2. None \notin Tokens /\ Anonymous # Unset /\ None # Unset /\ Anonymous # None
    BY RequestAuthAssumption
  <2>3. a # NoObject
    BY <2>1, <2>2 DEF NoObject
  <2>. QED
    BY <2>1, <2>2, <2>3 DEF Fields, NotAuthenticated
<1>. QED
  BY <1>1, <1>2

LEMMA AuthInductive == AuthInv /\ [AuthNext]_authVars => AuthInv'
<1>. SUFFICES ASSUME AuthInv, [AuthNext]_authVars PROVE AuthInv'
  OBVIOUS
<1>. USE DEF AuthInv
<1>1. ASSUME NEW r \in Requests, NEW field \in Fields, Read(r, field)
      PROVE  AuthInv'
  <2>1. UNCHANGED <<header, csrf, http, request, runs, rejected, assigned>> /\ AuthTypeOK'
    BY <1>1 DEF Read, AuthTypeOK
  <2>. QED
    BY <2>1 DEF ObjectInv, Complete, Exists
<1>2. ASSUME NEW r \in Requests, NEW field \in Fields, Authenticate(r, field)
      PROVE  AuthInv'
  <2>0. PICK o \in Outcomes : \E a :
          /\ a = IF o.result.kind = "ok"
                 THEN [user |-> o.result.user, auth |-> o.result.auth, authenticator |-> o.by]
                 ELSE NotAuthenticated
          /\ answer' = [by |-> r, field |-> field,
                        raised |-> o.result.kind \in {"fail", "crash"}, exc |-> o.result.exc]
          /\ IF o.result.kind = "crash"
             THEN UNCHANGED <<http, request, runs, rejected>>
             ELSE /\ request' = [request EXCEPT ![r] = a]
                  /\ http' = a.user
                  /\ runs' = [runs EXCEPT ![r] = @ + 1]
                  /\ rejected' = IF o.result.kind = "fail" THEN rejected \cup {r} ELSE rejected
    BY <1>2 DEF Authenticate
  <2>1. PICK a :
          /\ a = IF o.result.kind = "ok"
                 THEN [user |-> o.result.user, auth |-> o.result.auth, authenticator |-> o.by]
                 ELSE NotAuthenticated
          /\ answer' = [by |-> r, field |-> field,
                        raised |-> o.result.kind \in {"fail", "crash"}, exc |-> o.result.exc]
          /\ IF o.result.kind = "crash"
             THEN UNCHANGED <<http, request, runs, rejected>>
             ELSE /\ request' = [request EXCEPT ![r] = a]
                  /\ http' = a.user
                  /\ runs' = [runs EXCEPT ![r] = @ + 1]
                  /\ rejected' = IF o.result.kind = "fail" THEN rejected \cup {r} ELSE rejected
    BY <2>0
  <2>2. /\ a \in [user : Users \cup {Anonymous}, auth : Tokens \cup {None},
                  authenticator : DOMAIN Chain \cup {None}]
        /\ \A f \in Fields : a[f] # Unset
        /\ a # NoObject
        /\ a.auth \in Tokens => a.auth = Token(a.user)
    BY <2>1, Attributes
  <2>3. UNCHANGED <<header, csrf, assigned>> /\ request[r][field] = Unset
    BY <1>2 DEF Authenticate
  <2>4. runs[r] = 0
    <3>1. ~Complete(r) /\ runs[r] \in Nat /\ ObjectInv(r)
      BY <2>3 DEF Complete, AuthTypeOK
    <3>. QED
      BY <3>1 DEF ObjectInv
  <2>5. answer' \in [by : Requests, field : Fields, raised : BOOLEAN,
                    exc : {None, "AuthenticationFailed", "PermissionDenied", "Error"}]
    BY <2>1, OutcomeTypes DEF Results
  <2>6. CASE o.result.kind = "crash"
    <3>1. UNCHANGED <<http, request, runs, rejected>>
      BY <2>1, <2>6
    <3>2. AuthTypeOK'
      BY <2>3, <2>5, <3>1 DEF AuthTypeOK
    <3>. QED
      BY <2>3, <3>1, <3>2 DEF ObjectInv, Complete, Exists
  <2>7. CASE o.result.kind # "crash"
    <3>1. /\ request' = [request EXCEPT ![r] = a] /\ http' = a.user
          /\ runs' = [runs EXCEPT ![r] = @ + 1]
          /\ rejected' \subseteq rejected \cup {r}
      BY <2>1, <2>7
    <3>2. AuthTypeOK'
      BY <2>2, <2>3, <2>5, <3>1 DEF AuthTypeOK
    <3>3. request'[r] = a /\ runs'[r] = 1
      BY <2>4, <3>1 DEF AuthTypeOK
    <3>4. \A q \in Requests : q # r => request'[q] = request[q] /\ runs'[q] = runs[q]
      BY <3>1 DEF AuthTypeOK
    <3>5. ASSUME NEW q \in Requests
          PROVE  ObjectInv(q)'
      <4>1. CASE q = r
        BY <2>2, <3>3, <4>1 DEF ObjectInv, Complete, Exists
      <4>2. CASE q # r
        BY <2>3, <3>1, <3>4, <4>2 DEF ObjectInv, Complete, Exists
      <4>. QED
        BY <4>1, <4>2
    <3>. QED
      BY <3>2, <3>5
  <2>. QED
    BY <2>6, <2>7
<1>3. ASSUME NEW r \in Requests, NEW u \in Users \cup {Anonymous}, SetUser(r, u)
      PROVE  AuthInv'
  <2>1. u # Unset /\ u # None
    BY RequestAuthAssumption
  <2>2. AuthTypeOK' /\ UNCHANGED <<runs, rejected>>
    BY <1>3 DEF SetUser, AuthTypeOK
  <2>3. request[r] \in [user : Users \cup {Anonymous, Unset, None}, auth : Tokens \cup {None, Unset},
                        authenticator : DOMAIN Chain \cup {None, Unset}]
    BY DEF AuthTypeOK
  <2>4. /\ request'[r] = [request[r] EXCEPT !.user = u]
        /\ \A q \in Requests : q # r => request'[q] = request[q]
        /\ assigned'[r] = u
        /\ \A q \in Requests : q # r => assigned'[q] = assigned[q]
    BY <1>3 DEF SetUser, AuthTypeOK
  <2>5. Complete(r) => Complete(r)'
    BY <2>1, <2>3, <2>4 DEF Complete, Fields
  <2>6. Exists(r)'
    BY <2>1, <2>3, <2>4 DEF Exists, NoObject
  <2>7. ASSUME NEW q \in Requests
        PROVE  ObjectInv(q)'
    <3>1. CASE q = r
      BY <2>1, <2>2, <2>4, <2>5, <2>6, <3>1 DEF ObjectInv
    <3>2. CASE q # r
      BY <2>2, <2>4, <3>2 DEF ObjectInv, Complete, Exists
    <3>. QED
      BY <3>1, <3>2
  <2>. QED
    BY <2>2, <2>7
<1>4. ASSUME NEW r \in Requests, NEW c \in Requests, Clone(r, c)
      PROVE  AuthInv'
  <2>1. AuthTypeOK' /\ UNCHANGED runs /\ c # r /\ Exists(r) /\ ~Exists(c)
    BY <1>4 DEF Clone, AuthTypeOK
  <2>2. /\ request'[c] = request[r] /\ assigned'[c] = assigned[r]
        /\ \A q \in Requests : q # c => request'[q] = request[q] /\ assigned'[q] = assigned[q]
    BY <1>4 DEF Clone, AuthTypeOK
  <2>3. /\ \A q \in Requests : q # c => (q \in rejected' <=> q \in rejected)
        /\ c \in rejected' => r \in rejected \/ c \in rejected
    BY <1>4 DEF Clone
  <2>4. runs[c] = 0 /\ c \notin rejected
    <3>1. ObjectInv(c) /\ runs[c] \in Nat
      BY DEF AuthTypeOK
    <3>. QED
      BY <2>1, <3>1 DEF ObjectInv
  <2>5. ASSUME NEW q \in Requests
        PROVE  ObjectInv(q)'
    <3>1. CASE q = c
      BY <2>1, <2>2, <2>3, <2>4, <3>1 DEF ObjectInv, Complete, Exists
    <3>2. CASE q # c
      BY <2>1, <2>2, <2>3, <3>2 DEF ObjectInv, Complete, Exists
    <3>. QED
      BY <3>1, <3>2
  <2>. QED
    BY <2>1, <2>5
<1>5. CASE Revoke
  <2>1. UNCHANGED <<csrf, http, request, answer, runs, rejected, assigned>> /\ AuthTypeOK'
    BY <1>5 DEF Revoke, AuthTypeOK
  <2>. QED
    BY <2>1 DEF ObjectInv, Complete, Exists
<1>6. CASE UNCHANGED authVars
  <2>1. AuthTypeOK'
    BY <1>6 DEF authVars, AuthTypeOK
  <2>. QED
    BY <1>6, <2>1 DEF authVars, ObjectInv, Complete, Exists
<1>. QED
  BY <1>1, <1>2, <1>3, <1>4, <1>5, <1>6 DEF AuthNext, Get

(***************************************************************************)
(* The properties of RequestAuth.                                           *)
(***************************************************************************)
LEMMA AuthInvariant == AuthSpec => []AuthInv
  BY AuthInitial, AuthInductive, PTL DEF AuthSpec

\* A request is authenticated at most once, in any order of accesses.
THEOREM OneRun == AuthSpec => []AuthenticatedOnce
<1>1. AuthInv => AuthenticatedOnce
  BY DEF AuthInv, ObjectInv, AuthenticatedOnce
<1>. QED
  BY <1>1, AuthInvariant, PTL

\* The token in request.auth is that of request.user unless the user was assigned.
THEOREM TokenOfUser == AuthSpec => []TokenMatchesUser
<1>1. AuthInv => TokenMatchesUser
  BY DEF AuthInv, ObjectInv, TokenMatchesUser
<1>. QED
  BY <1>1, AuthInvariant, PTL

\* A rejected request, and its clones, can be read without an exception.
THEOREM RejectionIsRaisedOnce == AuthSpec => RejectedStaysQuiet
<1>1. ASSUME AuthInv, NEW r \in rejected, NEW field \in Fields, Get(r, field)
      PROVE  ~answer'.raised
  <2>1. r \in Requests /\ Complete(r)
    BY <1>1 DEF AuthInv, AuthTypeOK, ObjectInv
  <2>2. Read(r, field)
    BY <1>1, <2>1 DEF Get, Authenticate, Complete
  <2>. QED
    BY <2>2 DEF Read
<1>2. AuthInv => \A r \in rejected, field \in Fields : Get(r, field) => ~answer'.raised
  BY <1>1
<1>. QED
  BY <1>2, AuthInvariant, PTL DEF RejectedStaysQuiet
=============================================================================
