----------------------------- MODULE RequestAuth -----------------------------
(***************************************************************************)
(* Authentication as a Request object carries it out                        *)
(* (rest_framework/request.py): user, auth and successful_authenticator     *)
(* are computed lazily, together, by the first access to any of them, from  *)
(* the authentication classes of the view (rest_framework/authentication.py *)
(* ).  A request may be cloned, for the browsable API and the metadata of   *)
(* OPTIONS; the clones share the underlying HttpRequest, whose user         *)
(* attribute every Request sets and SessionAuthentication reads.            *)
(*                                                                         *)
(* The token of the request can be deleted at any time, and the lookup of   *)
(* an authentication class can fail with an error that is not an            *)
(* APIException: running the classes twice may give two results.            *)
(***************************************************************************)
EXTENDS Integers, Sequences

CONSTANTS
    Users,        \* the users an account exists for
    Inactive,     \* those whose account is disabled
    Anonymous,    \* UNAUTHENTICATED_USER()
    None,         \* Python's None: no auth, no authenticator
    Unset,        \* the attribute does not exist
    BadToken,     \* credentials that belong to nobody
    Chain,        \* the authentication classes of the view, in order
    Requests,     \* Request objects: the original one and its clones
    original      \* the one dispatch made

Kinds == {"token", "session"}
Token(u) == <<"token", u>>
Tokens == {Token(u) : u \in Users}

ASSUME RequestAuthAssumption ==
    /\ Inactive \subseteq Users
    /\ Chain \in Seq(Kinds)
    /\ original \in Requests
    /\ {Anonymous, None, Unset, BadToken} \cap Users = {}
    /\ None # Unset /\ Anonymous # Unset /\ Anonymous # None
    /\ {None, Unset} \cap Tokens = {} /\ {None, Unset} \cap DOMAIN Chain = {}

VARIABLES
    header,    \* the credentials of the Authorization header: a user, BadToken or None
    csrf,      \* whether the request passes the CSRF check
    http,      \* the underlying HttpRequest: its user attribute
    request,   \* the Request objects: _user, _auth and _authenticator
    answer,    \* what the last access gave: an attribute's value, or an exception
    runs,      \* how often each object ran the authentication classes to an end
    rejected,  \* the objects whose authentication classes raised an APIException
    assigned   \* the user last assigned to an object through its setter

authVars == <<header, csrf, http, request, answer, runs, rejected, assigned>>

Fields == {"user", "auth", "authenticator"}

Fresh == [user |-> Unset, auth |-> Unset, authenticator |-> Unset]
NoObject == [user |-> None, auth |-> None, authenticator |-> None]
NoAnswer == [by |-> original, field |-> "user", raised |-> FALSE, exc |-> None]

(***************************************************************************)
(* What one authentication class may do with the request: pass (None),      *)
(* return a user and auth, raise an APIException, or fail otherwise.        *)
(***************************************************************************)
Pass == [kind |-> "pass", user |-> None, auth |-> None, exc |-> None]
Ok(u, a) == [kind |-> "ok", user |-> u, auth |-> a, exc |-> None]
Fail(e) == [kind |-> "fail", user |-> None, auth |-> None, exc |-> e]
Crash == [kind |-> "crash", user |-> None, auth |-> None, exc |-> "Error"]

\* TokenAuthentication.authenticate and authenticate_credentials: the lookup in the
\* database may fail.
TokenResults ==
    IF header = None THEN {Pass}
    ELSE {Crash, IF header \in Users \ Inactive THEN Ok(header, Token(header))
                                               ELSE Fail("AuthenticationFailed")}

\* SessionAuthentication.authenticate: the user of the underlying HttpRequest.
SessionResults ==
    IF http \notin Users \ Inactive THEN {Pass}
    ELSE {IF csrf THEN Ok(http, None) ELSE Fail("PermissionDenied")}

ResultsOf(kind) == IF kind = "token" THEN TokenResults ELSE SessionResults

\* _authenticate: the first class that does not return None decides.
ChainResults ==
    {[by |-> i, result |-> res] : i \in DOMAIN Chain, res \in TokenResults \cup SessionResults}
\* The outcome of the whole chain: class number by and its result, or nobody and Pass.
Outcomes ==
    {o \in ChainResults :
        /\ o.result \in ResultsOf(Chain[o.by]) \ {Pass}
        /\ \A j \in 1..(o.by - 1) : Pass \in ResultsOf(Chain[j])}
    \cup (IF \A i \in DOMAIN Chain : Pass \in ResultsOf(Chain[i])
          THEN {[by |-> None, result |-> Pass]} ELSE {})

\* Mutant of NotAuthenticated: auth is not set, so that the next access to it runs the
\* classes again.
NotAuthenticatedButAuth == [user |-> Anonymous, auth |-> Unset, authenticator |-> None]

\* The attributes of a request that is not authenticated (_not_authenticated).
NotAuthenticated == [user |-> Anonymous, auth |-> None, authenticator |-> None]

(***************************************************************************)
(* Actions.                                                                 *)
(***************************************************************************)
AuthInit ==
    /\ header \in Users \cup {BadToken, None}
    /\ csrf \in BOOLEAN
    /\ http \in Users \cup {Anonymous, Unset}
    /\ request = [r \in Requests |-> IF r = original THEN Fresh ELSE NoObject]
    /\ answer = NoAnswer
    /\ runs = [r \in Requests |-> 0]
    /\ rejected = {}
    /\ assigned = [r \in Requests |-> Unset]

Exists(r) == request[r] # NoObject

\* The property is set already: no authentication class runs.
Read(r, field) ==
    /\ Exists(r)
    /\ request[r][field] # Unset
    /\ answer' = [by |-> r, field |-> field, raised |-> FALSE, exc |-> None]
    /\ UNCHANGED <<header, csrf, http, request, runs, rejected, assigned>>

\* Mutants of Authenticate: each access keeps its own attribute only; an APIException
\* leaves the attributes unset.
AuthenticateField(r, field) ==
    /\ Exists(r)
    /\ request[r][field] = Unset
    /\ \E o \in Outcomes :
        LET res == o.result
            attributes == IF res.kind = "ok"
                          THEN [user |-> res.user, auth |-> res.auth, authenticator |-> o.by]
                          ELSE NotAuthenticated
        IN  /\ answer' = [by |-> r, field |-> field, raised |-> res.kind \in {"fail", "crash"},
                          exc |-> res.exc]
            /\ request' = [request EXCEPT ![r][field] = attributes[field]]
            /\ http' = attributes.user
    /\ UNCHANGED <<header, csrf, runs, rejected, assigned>>
AuthenticateOrStayUnset(r, field) ==
    /\ Exists(r)
    /\ request[r][field] = Unset
    /\ \E o \in Outcomes :
        LET res == o.result
            attributes == IF res.kind = "ok"
                          THEN [user |-> res.user, auth |-> res.auth, authenticator |-> o.by]
                          ELSE NotAuthenticated
        IN  /\ answer' = [by |-> r, field |-> field, raised |-> res.kind \in {"fail", "crash"},
                          exc |-> res.exc]
            /\ rejected' = IF res.kind = "fail" THEN rejected \cup {r} ELSE rejected
            /\ IF res.kind \in {"fail", "crash"}
               THEN UNCHANGED <<http, request, runs>>
               ELSE /\ request' = [request EXCEPT ![r] = attributes]
                    /\ http' = attributes.user
                    /\ runs' = [runs EXCEPT ![r] = @ + 1]
    /\ UNCHANGED <<header, csrf, assigned>>

\* _authenticate: the object's three attributes are set, and the user of the
\* underlying HttpRequest; an error that is no APIException leaves them as they were.
Authenticate(r, field) ==
    /\ Exists(r)
    /\ request[r][field] = Unset
    /\ \E o \in Outcomes :
        LET res == o.result
            attributes == IF res.kind = "ok"
                          THEN [user |-> res.user, auth |-> res.auth, authenticator |-> o.by]
                          ELSE NotAuthenticated
            raised == res.kind \in {"fail", "crash"}
        IN  /\ answer' = [by |-> r, field |-> field, raised |-> raised, exc |-> res.exc]
            /\ IF res.kind = "crash"
               THEN UNCHANGED <<http, request, runs, rejected>>
               ELSE /\ request' = [request EXCEPT ![r] = attributes]
                    /\ http' = attributes.user
                    /\ runs' = [runs EXCEPT ![r] = @ + 1]
                    /\ rejected' = IF res.kind = "fail" THEN rejected \cup {r} ELSE rejected
    /\ UNCHANGED <<header, csrf, assigned>>

\* Access to request.user, request.auth or request.successful_authenticator.
Get(r, field) == Read(r, field) \/ Authenticate(r, field)

\* request.user = u, as login() and logout() do it.
SetUser(r, u) ==
    /\ Exists(r)
    /\ request' = [request EXCEPT ![r].user = u]
    /\ http' = u
    /\ assigned' = [assigned EXCEPT ![r] = u]
    /\ UNCHANGED <<header, csrf, answer, runs, rejected>>

\* Mutant of Clone: the clone starts without the three attributes.
CloneAnew(r, c) ==
    /\ Exists(r)
    /\ ~Exists(c)
    /\ request' = [request EXCEPT ![c] = Fresh]
    /\ UNCHANGED <<header, csrf, http, answer, runs, rejected, assigned>>

\* clone_request: whatever the request has of the three attributes.
Clone(r, c) ==
    /\ Exists(r)
    /\ ~Exists(c)
    /\ request' = [request EXCEPT ![c] = request[r]]
    /\ rejected' = IF r \in rejected THEN rejected \cup {c} ELSE rejected
    /\ assigned' = [assigned EXCEPT ![c] = assigned[r]]
    /\ UNCHANGED <<header, csrf, http, answer, runs>>

\* The token of the request is deleted, by its user or by drf_create_token --reset.
Revoke ==
    /\ header \in Users
    /\ header' = BadToken
    /\ UNCHANGED <<csrf, http, request, answer, runs, rejected, assigned>>

AuthNext ==
    \/ \E r \in Requests :
        \/ \E field \in Fields : Get(r, field)
        \/ \E u \in Users \cup {Anonymous} : SetUser(r, u)
        \/ \E c \in Requests : Clone(r, c)
    \/ Revoke

AuthSpec == AuthInit /\ [][AuthNext]_authVars

(***************************************************************************)
(* Type invariant.                                                          *)
(***************************************************************************)
\* Every variable has the shape request.py gives it.
AuthTypeOK ==
    /\ header \in Users \cup {BadToken, None}
    /\ csrf \in BOOLEAN
    /\ http \in Users \cup {Anonymous, Unset}
    /\ request \in [Requests ->
         [user : Users \cup {Anonymous, Unset, None}, auth : Tokens \cup {None, Unset},
          authenticator : DOMAIN Chain \cup {None, Unset}]]
    /\ answer \in [by : Requests, field : Fields, raised : BOOLEAN,
                   exc : {None, "AuthenticationFailed", "PermissionDenied", "Error"}]
    /\ runs \in [Requests -> Nat]
    /\ rejected \subseteq Requests
    /\ assigned \in [Requests -> Users \cup {Anonymous, Unset}]

(***************************************************************************)
(* Safety.                                                                  *)
(***************************************************************************)
\* A Request runs its authentication classes to an end at most once, in whatever order
\* its three properties and its setters are used, and also when they rejected it: a
\* second run could give another answer.
AuthenticatedOnce == \A r \in Requests : runs[r] <= 1

\* user and auth come from one run: while nobody assigns the user, a token in auth is
\* that user's token, even if the token was deleted between the two accesses.
TokenMatchesUser ==
    \A r \in Requests : assigned[r] = Unset /\ request[r].auth \in Tokens
        => request[r].auth = Token(request[r].user)

\* Once the authentication classes rejected a request, no access raises again, neither
\* on the object nor on its clones: an exception handler or a renderer that reads
\* request.user sees an anonymous one.
RejectedStaysQuiet ==
    [][\A r \in rejected, field \in Fields : Get(r, field) => ~answer'.raised]_authVars

\* "Sets the user on the current request": the user assigned to a request stays its
\* user until another one is assigned.
AssignedUserStays ==
    \A r \in Requests : assigned[r] # Unset => request[r].user = assigned[r]
=============================================================================
