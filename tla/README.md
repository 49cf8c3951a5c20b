# A TLA+ verification of Django REST framework

This directory holds the formal models kept beside `src/rest_framework`: TLA+ modules
that follow the control flow of the code on the server and of the scripts it sends to the
browser, TLC configurations that check them on small instances, and theorems that TLAPS
proves for every value of the constants.

A model keeps every state change, guard, early return and error path of the code it
stands for, in the order the code has them, and abstracts its data to what the
properties tell apart: a user is a model value, a row has two fields, a date is a value,
a rate is a number of requests and a period. Text, layout and wording are left out.
`PROJECT.json` says for each definition which lines of the source it translates.

## 1. The system

REST framework runs inside Django: a worker (thread or process) takes a request through
`APIView.dispatch` and gives a response back, which Django renders afterwards. Nothing in
the framework runs in the background. The pages it renders bring scripts along: the
browsable API and the admin submit their forms with `ajax-form.js`, and the page of the API's
documentation is an explorer (`api.js`) on a client library (`coreapi-0.1.1.js`). What makes
it hard is the state that several actors share:

- the database and the cache, which all workers read and write, without a transaction
  unless the project asks for one (`ATOMIC_REQUESTS`);
- the `Request`, which computes its user and its data lazily, at whichever access comes
  first, is cloned by the browsable API, and shares one `HttpRequest` with its clones;
- the serializer, whose attributes appear as its methods are called;
- the client, which comes back with a cursor, or after the wait it was told;
- the page in a browser, into which the callbacks of several requests write, in the order in
  which the answers come, and the CSRF cookie, which another tab may change meanwhile.

### Inventory

"Where" is relative to `src/rest_framework` (but `docs_theme`). M: modelled, P: partly, -: not yet or not at
all (section 9).

| Component | Where | State | Operations | What is hard | What makes it correct | |
|---|---|---|---|---|---|---|
| Throttling | `throttling.py`, `check_throttles` | history per key in the cache; key, history, now of one check | allow_request, throttle_success/failure, wait | read and write of the cache are two calls; expiry; limits that a redeploy changes; several throttles | the rate is kept, a refusal is justified, the wait is enough and bounded | M |
| Authentication of a request | `request.py`, `authentication.py` | `_user`, `_auth`, `_authenticator` of each Request; `HttpRequest.user` | user, auth, successful_authenticator, setters, clone_request | one lazy run fills three attributes; it may raise at any access; clones share the HttpRequest | one run at most; token and user of one run; a rejection raises once | M |
| Dispatch | `views.py`, `exceptions.py`, `generics.py` | the phase of the request, exception, response, accepted renderer, the transaction | initial, handler, handle_exception, finalize_response; Django's commit and rendering | every step may raise; exceptions become responses inside a transaction; rendering comes after the commit | atomic requests, challenge and status agree, the handler is permitted, errors get rendered | M |
| Permissions | `permissions.py` | none | has_permission, has_object_permission, `&` `\|` `~` | 403, 404 or 401; object checks that the handler triggers; the operators | a denied request has no effect | P |
| Browsable API | `renderers.py` | view.request, view.action while a form is rendered | get_context, show_form_for_method, override_method | checks permissions on clones during rendering | rendering changes no decision | P |
| Content negotiation | `negotiation.py`, `utils/mediatypes.py` | none | select_renderer, select_parser | the most specific media type, the first renderer | an acceptable renderer is found if there is one | P |
| Cursor pagination | `pagination.py` | cursor in the link; the page | paginate_queryset, get_next_link, get_previous_link | rows come and go between pages; equal positions; turning round | nothing repeated, nothing skipped, an end | M |
| Page number, limit/offset | `pagination.py` | none | paginate_queryset | count and slice are two queries | links lead to pages | - |
| Serializer protocol | `serializers.py` | initial_data, instance, _validated_data, _errors, _data | is_valid, errors, data, save | any order of calls, and calls repeated after a failure | only valid data is saved, once; data shows it | M |
| Generic views that write | `mixins.py`, `generics.py` | the table; instance and data of each request | create, update, partial_update, destroy | lookup, validation and write interleave with other workers | others' rows and fields kept; server errors only of races | P |
| Uniqueness validators | `validators.py` | none | UniqueValidator, UniqueTogetherValidator, UniqueFor...Validator | the current instance, missing, null, read-only and defaulted fields | enough without interference, and refuse no more than the constraint | M |
| ModelSerializer | `serializers.py`, `utils/field_mapping.py` | none | create, update, building the fields | partial updates save whole rows; nested and many-to-many fields | what was checked is saved | P |
| Request content and parsers | `request.py`, `parsers.py` | `_stream`, `_data`, `_files`, `_full_data`; the HttpRequest's stream and `_post` | data, POST, FILES, stream | the stream can be read once, perhaps by middleware | one parse; an error is not repeated | - |
| Fields | `fields.py` | none | run_validation, get_attribute, conversions | partial, default, null and empty in HTML forms | validated values round-trip | - |
| Relational fields | `relations.py` | none | to_internal_value, get_attribute | lookups by key, hyperlink; many | | - |
| Tokens | `authtoken/` | the token table | obtain_auth_token, drf_create_token | get_or_create and reset race | one token per user | - |
| Routers, viewsets, decorators | `routers.py`, `viewsets.py`, `decorators.py` | registry, cached urls | register, get_urls, as_view | order of routes, invalidation, actions mapped to methods | every action reachable by one route | - |
| Versioning | `versioning.py`, `reverse.py` | request.version | determine_version, reverse | | a link keeps the version | - |
| Filters | `filters.py` | none | SearchFilter, OrderingFilter | terms of several fields; invalid orderings dropped | an ordering is always total over valid fields | - |
| Metadata | `metadata.py` | view.request | determine_actions | clones the request and checks permissions | as the browsable API | - |
| Schemas, documentation | `schemas/` | none | generators, inspectors | | | - |
| Responses, other renderers, encoders, templates | `response.py`, `renderers.py`, `utils/`, `templatetags/` | none | rendering | formatting | | - |
| coreapi client | `static/.../js/coreapi-0.1.1.js` | none but the promises | encode and decode of documents, lookupLink, action, fetch, the decoders | a request may fail before it is sent, without an answer, with an answer that has no content or no decoder | every promise settles; what the user gave goes to the place its field has | P |
| API explorer | `static/.../docs/js/api.js`, `templates/rest_framework/docs/` | the response panel of each form; `responseDisplay`; `window.auth` | submit, the three callbacks, the Data/Raw control, login | calls of one form overlap; one display setting for all panels; names joined and split | a panel shows one exchange, the last; the form of a link calls that link | M |
| Browsable API: forms in the browser | `static/.../js/ajax-form.js`, `csrf.js`, `default.js`, `templates/rest_framework/base.html`, `admin.html` | the document, its `csrftoken`, its open tabs; the cookies | submit, done/always of the request, load, tabs | the answer replaces the document at any time; navigation cancels requests; the token rotates | the request is the one the button asks for, passes CSRF, and its answer is seen | M |
| Documentation site scripts, vendored scripts | `docs_theme/js` and minified highlighters | a label per button | | | | - |
| Settings, compatibility, test client, commands | `settings.py`, `compat.py`, `test.py`, `management/` | cached settings | | | | - |

How they interact: `dispatch` calls negotiation, versioning, authentication (through
`request.user`), permissions and throttles in this order, then the handler, which calls
`get_object` (object permissions), the pagination, or a serializer. An exception from any
of these goes to `handle_exception`, which reads the authenticators for the challenge.
The renderer that `finalize_response` put on the response runs after Django has ended the
transaction; the browsable API then clones the request for each form, reads the user and
checks permissions again.

In the browser, the explorer calls the client's `action()`, which calls `fetch`, and hears of
the request and of the response in two callbacks and of the outcome in the promise. The
forms of the browsable API go to the server as a navigation or as an XMLHttpRequest, where
`SessionAuthentication.enforce_csrf` compares the token in the request with the cookie. The
document that answers brings the token for the next submission.

## 2. The modules

| Module | Lines of the source it follows | Instances | Proofs |
|---|---|---|---|
| `Throttling` | `SimpleRateThrottle`, `ScopedRateThrottle`, `APIView.check_throttles` | `MCThrottling` | `ThrottlingProofs` |
| `RequestAuth` | `Request.user/auth/_authenticate`, `clone_request`, `TokenAuthentication`, `SessionAuthentication` | `MCRequestAuth` | `RequestAuthProofs` |
| `Dispatch` (extends `RequestAuth`) | `APIView.dispatch` and all it calls, `BrowsableAPIRenderer.get_context`, `show_form_for_method`, `override_method`, the permission classes | `MCDispatch` | `DispatchProofs` |
| `CursorPagination` | `CursorPagination` | `MCCursorPagination` | `CursorPaginationProofs` |
| `ModelWrites` | `CreateModelMixin`, `UpdateModelMixin`, `DestroyModelMixin`, `ModelSerializer.create/update`, `ListSerializer`, the uniqueness validators | `MCModelWrites` | `ModelWritesProofs` |
| `SerializerProtocol` | `BaseSerializer` and `ListSerializer`: `is_valid`, `data`, `save` | `MCSerializerProtocol` | `SerializerProtocolProofs` |
| `CoreApi` | the pure functions of `coreapi-0.1.1.js`: codec, lookup, parameters, URI template, credentials, decoders; those of `CoreJSONRenderer` | through `ApiExplorer` | |
| `ApiCalls` | what a caller may rely on: the abstract specification of the client | through `ApiExplorer` | |
| `CoreApiClient` (extends `CoreApi`, instantiates `ApiCalls`) | `Client.action`, the HTTP transport, the promise around `fetch` | through `ApiExplorer` | `ApiExplorerProofs` |
| `ApiExplorer` (extends `CoreApiClient`) | `docs/js/api.js` and its templates | `MCApiExplorer` | `ApiExplorerProofs` |
| `AjaxForm` | `ajax-form.js`, `csrf.js`, `default.js`, and the forms of `base.html` and `admin.html` | `MCAjaxForm` | `AjaxFormProofs` |

How state and actions correspond to the code:

- **Throttling.** `cache` is the Django cache, a history and its expiry per key; `job[w]` is
  what worker `w` has in `self.key`, `self.history`, `self.now` and in the list of waits of
  `check_throttles`. One action per call that other workers can interleave with: `Fetch`
  (`cache.get`), `Admit`/`Refuse` (the clock, the pop loop and the comparison), `Store`
  (`cache.set`). `Skip` is a throttle without rate or key. `Tick`, `Evict` and `Restart`
  are the clock, the cache backend and a redeployed worker, perhaps with another number of requests
  for the same period.
  `log`, `tainted` and `promise` are history variables that only the properties read.
- **RequestAuth.** `request[r]` has the three attributes of Request object `r`, `Unset`
  where the attribute does not exist. `Get` is an access: `Read` if the attribute is there,
  else `Authenticate`, the loop over the authentication classes up to the first that
  returns or raises. An `APIException` leaves the three attributes as
  `_not_authenticated` does and is raised; any other error leaves them unset (`Crash`). `SetUser`
  is the setter, `Clone` is `clone_request`, `Revoke` a token that is deleted meanwhile.
- **Dispatch.** `pc` is the phase. Each phase is an action that goes on or raises; `Raise`
  goes to `HandleException`, `Escape` leaves `dispatch`. The handler is any program that
  writes, logs in or out and looks up an object, in any order, and then returns a response of any status
  or raises any exception, those of authentication and permissions and one of the application's own
  among them; `response.own`, a history variable, says that the status is the handler's. `Exit` is
  the end of Django's transaction, after it `RenderUser`, `OverrideMethod` and `ShowForm` go
  through what the browsable API evaluates. `permissions`, `lazy`, `method`, `globally`,
  `granted` and `atomic` are chosen at the start and never change.
- **CursorPagination.** `page` is what the client got: rows, cursor and what
  `paginate_queryset` left on the paginator. `NextCursor` and `PreviousCursor` are the two
  methods that make links. `Follow` and `Turn` are the client, `Insert` and `Delete` are others.
- **ModelWrites.** Each worker serves one request: `GetObject`, for each item
  `ValidateFields` and `Validate` (one query each), then `Create`, `Update` or `Destroy`. Every
  action is one query's worth of atomicity. `fresh` and `deleted` are history variables.
- **SerializerProtocol.** A view calls `IsValid`, `Data` and `Save` in any order; `create()`
  and `update()` may write and return, raise before or after they wrote, or return None.
- **CoreApiClient, ApiExplorer.** `call[c]` is a call of `action()`: `thrown` if it threw at once
  (no link, a missing or unknown parameter, a body that a GET may not have), else `sent`, with the
  request it made; then `body` when the headers have come and the text is awaited; then
  `resolved` or `rejected`. `Submit` is the submit handler with all that `action()` does before
  it returns; `Answer`, `Read` and `Fail` are the steps of the promise with the callbacks they run.
  `panel[f]` says whose request line, status and data the panel of form `f` has, which display is
  shown, and which button of its control is pressed; `Visible` is what of it the user sees: the request line
  is hidden together with the status until there is a status. `Toggle` and `Authenticate` are the user,
  `Rotate` another tab. `submission` is a history variable.
- **AjaxForm.** `page` is the document: what it answers, its `csrftoken`, its open tabs, whether it
  has edit forms. `nav` is the navigation under way, at most one. `Submit` is a click on a
  button: `doAjaxSubmit` leaves it to the browser (`Standard`, phase `native`) or sends it (`sent`).
  `Replace` is `replaceDocument`, `Redirect` what happens to an answer that is not HTML, `Load` the end of
  a navigation; the fate of requests whose document goes away is the browser's, and chosen
  freely where the browser may choose.

Definitions with the comment "Mutant of ..." are the same code with a plausible bug. Every
property a run checks has one that breaks it, so that none holds by the shape of the model.

## 3. The abstract specifications

`RequestAuth!AuthSpec` says what any program may do with Request objects: read, assign,
clone, in any order. `Dispatch` is one such program, with seventeen kinds of steps and a
control flow of its own, and it implements `AuthSpec`: `DispatchProofs!DispatchUsesRequest`
proves `Spec => AuthSpec` with the identity on the shared variables. Everything proved of
a request alone therefore holds inside a view, which is how `DispatchedOnce` follows.

`ApiCalls` says what a caller of the client may rely on, in two variables: a call throws or returns
a promise; a promise settles once, and does settle; the response callback hears the answer that
it settles with, and nothing of an answer that has no content or does not come; and only
successful answers that can be decoded resolve it. `CoreApiClient` maps its phases, requests and
answers to these two (`Promise == INSTANCE ApiCalls WITH ...`). That the explorer's calls implement
it, liveness included, is the property `KeepsPromises`, which TLC checks;
`ApiExplorerProofs!ClientKeepsPromises` proves the safety part for any number of calls.

## 4. The runs

| Run | States | Checks |
|---|---|---|
| `Throttling` | 2.1 million | two workers, two views that share throttles, an exempt client, and a redeploy that changes how many requests a rate allows: the window limit for keys without a race, a bounded history in any case, justified refusals, one wait in range that is honoured |
| `RequestAuth` | 18 thousand | a request and a clone, read and assigned in any order, a token revoked in between, a lookup that fails |
| `DispatchToken` | 9 million | a view with object permissions or a list anyone may read, eager or lazy authentication, with and without a transaction, every exception at every step, behind the browsable API |
| `Cursor` | 39 thousand | every subset of six rows; with unique positions two changes by others and two turns of the client, and all 243 ways in which five rows share three positions; the walk comes to its end |
| `Writes` | 6.4 million | two workers, lists of two items, a nullable field, `UniqueTogetherValidator` before a constraint of the database: server errors need a race, what is looked up is what is saved, other rows and fields are kept, nothing else is refused |
| `Serializer` | 452 | any order of calls on a serializer of one object or of a list, with failures |
| `Explorer` | 99 thousand | two forms and three calls that overlap in any way, four kinds of answers and lost calls |
| `ExplorerRequests` | 14.7 thousand | one call from each form of two documents, with every input, credential and cookie |
| `BrowsableForms` | 228 thousand | the six forms of a view with all methods, two submissions that overlap each other, reloads, tabs, and a rotation of the CSRF token |
| `DispatchErrors`, `WritesNull`, `AdminForms` | violation | section 8 |

The properties, in the words of the modules:

- *Throttling.* `WindowLimit`: among the requests a throttle let through for a key, any
  MaxLimit + 1 span at least the period. It cannot hold for keys on which two workers
  raced (the code reads and writes without a lock) or that the cache evicted, and is stated
  for the others; `HistoryBounded` holds even then.
  `RefusedOnlyWhenFull`: no refusal without a full window, even from a stale read.
  `RetryAfterInRange`, `RetryAfterHonoured`: the wait is positive, at most a period, and long enough.
- *RequestAuth.* `AuthenticatedOnce`, `TokenMatchesUser`, `RejectedStaysQuiet`.
- *Dispatch.* `AtomicRequests`: what the handler wrote is committed exactly if it returned a
  Response (or there is no transaction). `Challenge`: WWW-Authenticate only with a 401, and with each whose
  status the handler did not declare itself; a 401 that is dispatch's own never goes to a request that some
  class recognised, and no other request is denied without one. `HandlerIsPermitted`: with the lazy
  variant too, no handler runs that the permissions would not let run.
  `FormsDoNotAuthenticate`, `RefusalIsDelivered`: where dispatch authenticates the request, rendering
  neither authenticates again nor replaces a refusal. In a lazy view it may be the first to
  authenticate, and a handler's 403 may still become a 500.
- *CursorPagination.* `SeenOnce`, `NothingSkipped`, `RoundTrip`, `WalkEnds`.
- *ModelWrites.* `ValidatorsSuffice`, `CheckedIsSaved`, `RefusalsAreConflicts`,
  `ServerErrorsAreRaces`, `OthersKept`.
- *SerializerProtocol.* `SavedWasValid`, `DataIsWhatWasSaved`, `CreatedOnce`.
- *ApiExplorer, calls that overlap.* `OneExchange`: decoded data stands beside the status and the raw
  text of its own answer. `SeenWhenAlone`: what is visible to who sends a form alone and waits, whatever
  other forms do: request line, status and content of that call if its answer has a text. If it has none,
  or is lost, the outcome is seen; the status is then an earlier answer's, and before any answer to that form
  there is neither status nor request line. `AnswersKeepTheDisplay`: answers come to the display that the form's control
  says, while no other control is used (`responseDisplay` is one variable for the page).
  `EveryCallIsDisplayed`, `KeepsPromises`: each call settles, and its panel stops waiting.
- *ApiExplorer, one call.* `FormsFindTheirLinks`: the names that the template joins, the encoder
  escapes and the client unescapes and splits lead back to the form's own link.
  `PathIsComplete`: no empty segment, unless blank JSON was typed for that variable.
  `SentAsTyped`: each input arrives at the place of its field, as its type reads it, with the
  exceptions that the code makes for a whole body, for headers and for blank JSON in a path. `SessionCallsPassCsrf`: with the token the cookie had then.
- *AjaxForm.* `SentAsAsked`: method and content are those of the clicked button.
  `RefusedOnlyIfRotated`: CSRF refuses only if the token was rotated after the request the
  document answers. `SeenWhenAlone`, `EachSubmissionIsFollowed`: a submission is followed by a new
  document, and one made alone by its answer or the page after it. `TabIsKept`: the tab chosen
  last is open in each new document. `TypeOK` is run here too, as it says which calls can be
  the browser's.

The other modules' type invariants are proved (section 7) and not run.

Configurations that belong to no run check the same modules on other instances, with other
properties, or with a known disagreement (section 8): `ThrottlingViews`, `WritesConstrained` and
`WritesDates` hold.

The server's systems may all stop, when the requests are served, the clock has reached its
bound or the client has reached the end, and their configurations say `CHECK_DEADLOCK FALSE`. A
page never stops, since its user may always do something more: `Explorer`, `ExplorerRequests` and
`BrowsableForms` check for deadlock, but it is their liveness properties that say something.

## 5. Bounds

| Bound | Where | Why it is enough |
|---|---|---|
| `MaxTime` 3, `MaxLog` 2 | Throttling | periods are 1 and 2 ticks, so that entries expire, windows slide and a refused client comes back; `MaxLog` stops new requests once a key has recorded so many: more than the largest limit |
| two workers | Throttling, ModelWrites | races are between a read and a write of two requests; the proofs have any number |
| two Requests, chain token then session | RequestAuth | a request and a clone; DispatchToken has nine |
| two users of which one is disabled, grants {view, change} | Dispatch | every outcome of authentication and every combination of model and object permissions |
| `PageSize` 2, six rows, `OffsetCutoff` 4 | CursorPagination | three pages; a group of equal positions may fill more than one page and stays below the cutoff |
| `MaxChanges` 2, `MaxTurns` 2, both 0 for shared positions | CursorPagination | an insertion and a deletion anywhere; there and back again. With shared positions the code promises less (section 8), and only the walk to the end is checked |
| `MaxPk` 3, two values per field (and null), `MaxItems` 1 or 2 | ModelWrites | two rows to conflict and one to insert; two items of one list |
| `MaxWrites` 6 | SerializerProtocol | more saves than any property needs |
| three calls, two forms, one token | Explorer | two calls of one form overtake each other while a third disturbs them or the other form; found, missing, no content, no decoder, and lost |
| one call, two documents | ExplorerRequests | what is sent depends on one submission; the documents have path variables, a name used twice of which the later is JSON, form fields around a whole body, a subsection, sections whose keys are reserved, links at the root, and fields of each place |
| two to five readings per data type | ExplorerRequests | empty, well-formed, and malformed as that type; for JSON also blank, a list, an object and a primitive |
| two submissions, `MaxRotations` 1 | BrowsableForms | one overtakes the other, before and after a rotation; `TokensAreFresh` and `LastSubmissionIsSeen` are proved for any number |

Workers are symmetric in Throttling and ModelWrites: `SYMMETRY` permutes them, and those
runs have no liveness property.

## 6. Fairness

On the server the framework has no scheduler: a request is served when its worker runs. Fairness is
assumed there in one place only, `CursorPagination!FairSpec`, weak fairness of `Follow`: a
client that keeps following the link. `WalkEnds` says that it comes to an end. Elsewhere
the properties of the server are safety, for which nothing has to happen.

In the browser, the browser is the scheduler. It ends every fetch, with an answer, an error or a
timeout: `ApiExplorer!Spec` has weak fairness of `Answer(c) \/ Read(c) \/ Fail(c)` for each call. It
ends every XMLHttpRequest and every navigation: `AjaxForm!Spec` has weak fairness of `Load`, and of
`Replace(c) \/ Redirect(c)` for each call. Nothing is assumed of the user, who may submit, toggle, choose
tabs or reload for ever; nor of the server, whose answer is chosen freely.

## 7. Proofs

TLAPS proves the following for every value of the constants that satisfies the module's
assumptions (each is named in the module that declares the constants; TLC evaluates them on every
run). The assumptions are types and the distinctness of special values; Throttling asks for a
largest limit of each throttle, ApiExplorer (`TextsAssumption`) that only JSON is blank: a word that is typed
is not empty, ApiExplorer and AjaxForm for calls that are numbered, and
AjaxForm (`TokensAssumption`) for forms that carry a token if they are left to the browser with a
method that is not safe, which the templates see to.

- **ThrottlingProofs**: `TypeCorrect`, `RateIsKept`, `CacheIsBounded`, `CacheIsSorted`,
  `WaitIsInRange`, `RefusalIsJustified`, `WaitIsLongEnough`, for any number of workers,
  clients, throttles, rates. `WindowLimit` is not inductive: it says nothing of what a worker
  holds between `Fetch` and `Store`. The invariant adds, for every key that is not tainted,
  that the cached history is the newest part of the log and misses only timestamps which have
  left the window (`Follows`), that the same is true of what a worker has fetched unless it is stale,
  and that an entry expires no earlier than a period after its newest timestamp.
- **RequestAuthProofs**: `OneRun`, `TokenOfUser`, `RejectionIsRaisedOnce`, from `AuthInv`: an
  object that ran its classes to an end, or was rejected, has all three attributes, so that
  no later access runs them; and while its user was not assigned, it is its token's.
- **DispatchProofs**: `DispatchUsesRequest` (the refinement of section 3), `DispatchedOnce`,
  `DispatchTypes`, `WritesAreAtomic`, `HandlersArePermitted`, `ChallengesAreFit` (for a view with
  authentication classes: without any, a denial is a 403 to a request nobody recognised; what a handler
  declares or raises of its own is told apart by `response.own`),
  `FormsStayQuiet` and `RefusalsAreDelivered` (for views that are not lazy). `FormInv` says that the form which is checked is one of the
  browsable API's, so that there is a Request object for its clone. `DbInv` says in each phase
  what `rollback`, `written` and `committed` are: until `exit` they have not met, and from then
  on nothing touches `committed`. `UserInv` says that a user who was not assigned was recognised by a class or is
  anonymous; `PhaseInv` what has been found out at each phase: behind `check_permissions` the user, if
  the permissions ask for one, and at the exception handler that a request to be challenged has no
  authenticator; `ResponseInv` the same of the response, and that a refusal carries no instance;
  `ClonesInv` that a form's clone knows the user if the request does, so that reading it is quiet.
- **CursorPaginationProofs**: `CursorTypes` and `CursorRoundTrip` for any rows, positions, page size and
  cutoff; `CursorSeenOnce` and `CursorNothingSkipped` on one of two conditions, which cover all
  assignments of the `Cursor` run, and without which they fail (`CursorInserts`, section 8).
  If no two rows share a position (`PositionsDiffer`), others may insert and delete and the client may
  turn round as it likes. The invariant is `WalkInv`: cursors have offset 0, each row
  of a page can be the marker, what was got lies on this side of the end of the page (`EndRow`), and
  what is still wanted lies beyond it. `SeenOnce` itself says nothing of where the walk stands. If rows do
  share positions, nobody may change them and no more may share one than an offset counts
  (`Steady`). The invariant is then `SteadyInv`: the page begins behind the first k rows, the client got exactly
  the rows up to its end, and its cursor's marker is the a-th row and its offset k - a, the rows
  in between being of one position. The order of a query (`Ordered`) is a function on
  indices, by the number of rows in front; `OrderedRows`, `OrderIsUnique` and `OrderOfStretch` say that it
  is an order, the only one, and what a filter leaves of it.
- **ModelWritesProofs**: `WritesTypes` and `WritesTouchOneRow`; for serializers without a read-only
  field `ChecksWhatIsSaved`, `ValidatorsAreEnough` and `RefusalsAreOfConflicts`;
  `ServerErrorsAreOfRaces` where every constraint is validated and no date is. `ShapeInv` ties `pc`, `item` and `instance` to the request; `SafeInv`
  says what a worker that nobody overtook has found out at each phase: after its validators that
  what it saves brings no new conflict; `CurrentInv` that its instance is still the row in the
  table; `NextPkInv` that there is no row from `nextPk` on, so that a create meets none; `CleanInv` that the table never breaks a constraint of the database; `ErrorInv`
  that a 500 ended a request which was overtaken or had several items.
- **SerializerProtocolProofs**: `SerializerTypes`, `CreatesOnce`, `SavesValidOnly`,
  `ShowsWhatWasSaved`, for any number of calls. `Protocol` adds that a serializer which has
  created an instance has it, and that after a save the instance is what save returned.
- **ApiExplorerProofs**: `ExplorerTypes`, `PanelsShowOneExchange`, `LastCallIsSeen`,
  `ControlIsObeyed`, `SessionsPassCsrf`, `ClientKeepsPromises`, for any documents, answers, inputs and
  number of calls. `OneExchange` needs `HeardWhenSettled` (only a call that settled has been heard) and
  `DataOfSettled` (the data on display is a settled call's of that form). What `Visible` shows rests
  on `StatusInv`: a panel has a status exactly if some call of its form was heard, and it is such a call's. `SeenWhenAlone` needs four
  facts more: calls are made in their order, the request line is the latest call's, a call
  that was sent alone found all earlier ones of its form settled, and from then on data and status
  can only become its own. The refinement has one step per action: `Submit` is `Ask`, `Answer`
  stutters or settles silently, `Read` settles with the answer, `Fail` silently, the rest stutters.
  `FormsLeadToTheirLinks`, `PathsAreComplete` and `TypedIsSent` are about what is sent. Their
  invariant `RequestInv` says that the request of a call was built from some link of the document with
  the parameters of its form's texts, and, if the names return, from the form's own link.
  `KeyReturns` proves that the client undoes the escaping of a key, `PathReturns` and `Joined` that
  the path then is the one the form has, `ParamsAreTyped` what the parameters are, and `SentInBody` where
  they go. They have hypotheses, definitions of `ApiExplorer`, about the document the server makes; `MCApiExplorer`
  asserts them of the documents of the runs. `NamesReturn`: the client's regular expression is
  not anchored, so it shortens any key that ends in `__type` or `__meta`, and the encoder escapes only
  those of underscores and the word: a section called `a__type` loses an underscore and its forms throw. Below a section the encoder
  escapes too and the client does not unescape, so that a link with a reserved key there is not found.
  `SectionsAreNamed`: a link at the root has the key of a link in a section without a name.
  `SchemesAreKnown`: for a URL of another scheme the client throws. `PathsAreFields`: the generator
  makes a required field of each variable of a path, which a view may overrule with `manual_fields`.
  What is left of `PathIsComplete` then is JSON: where a later field of the variable's name is a list or an
  object, its input is read as JSON, and what is blank (`Blank`) leaves nothing in the path.
  `OneBody`: of two body fields with different names the last is sent.
- **AjaxFormProofs**: `FormTypes`, `TokensAreFresh`, `LastSubmissionIsSeen`, `ChosenTabIsKept`, and
  `RequestsAreAsAsked` for templates that say the method of what is left to the browser in the
  attribute that it reads (`MethodsAreAttributes`): those of `base.html` do, the error form of `admin.html`
  does not, which is the finding of `AdminForms`. The first of the invariants is that `csrftoken` is always the cookie of the request the document answers
  (`TokenInv`), so that a submission's token is stale only if the cookie changed since. `SeenWhenAlone`
  needs that submissions are made in their order (`InOrder`) and that beside the last one, if it was
  made alone, no other is under way (`AloneIsAlone`): so that only its own answer, or a later
  GET, can replace the document.

Every invariant and every action property that a run checks is so proved, where its theorem has a hypothesis
under that hypothesis; the runs' own constants satisfy it. Only model-checked are the four properties
of liveness, among them that of `KeepsPromises`, the part of it that is safety being proved: that a walk
ends, that calls settle and that a document follows are beyond the prover, which has no rules for
fairness.

## 8. Where the code and its words disagree

Three runs show a disagreement, as a counterexample of TLC:

- `DispatchErrors` (`ErrorsAreHandled`). If negotiation or versioning fails, nothing has read
  `request.user` yet. The error response is rendered by the browsable API, outside the
  exception handler, and `get_context` is then the first to authenticate: an invalid token
  turns the 404 or 406 into a 500.
- `WritesNull` (`NullsAreIgnored`). In an update, `UniqueTogetherValidator` tests only the
  fields that change for null. Two rows (1, null) and (2, null) are fine for a create and for the
  database; a PUT that makes the second (1, null) is refused.
- `AdminForms` (`MethodAsAsked`). The form in which the admin shows the errors of a rejected create has
  `data-method="POST"` and no `method`. `doAjaxSubmit` leaves every POST without an overriding content
  type to the browser, which sends the form as a GET with the fields in the URL.

The others are not among the regular runs. Each has a property, and a configuration with
which TLC finds the counterexample:

| Configuration | Property | What happens |
|---|---|---|
| `DispatchForms.cfg` | `FormsAreHidden` | the object permissions of a form raise Django's `Http404`, which `show_form_for_method` does not catch: a PUT that succeeded and was committed is answered with 404 |
| `RequestAuthSetter.cfg` | `AssignedUserStays` | a user assigned before the first access is overwritten by the first read of `auth` |
| `CursorInserts.cfg` | `SeenOnce` | if no row of the first page is a usable marker, the link has an offset without position, and a row inserted in front makes one row come twice |
| `WritesDeleted.cfg` | `DeletedStaysDeleted` | a PUT that read the row before a DELETE inserts it again |
| `WritesReadOnly.cfg` | `CheckedIsSaved` | a PUT is checked with the default of a read-only field, not with the row's value |
| `WritesForDate.cfg` | `ValidatorsDoNotFail` | `UniqueForDateValidator` takes the day of a date that is null |
| `SerializerListData.cfg` | `ListDataIsWhatWasSaved` | `ListSerializer.save` lacks the assertion that `data` was not accessed, and `data` stays what it was |

Met while modelling the browser, and in the models as the code has them:

- `default.js` says it opens the rightmost tab and takes `:first`.
- The template gives the forms of links at the document's root the key `["", link]`, for which `lookupLink`
  throws: these forms never send anything (`FormsFindTheirLinks` is about the others).
- `encoding` is `application/json` whatever the link says, though `docs/link.html` shows the link's own.
- Fields whose location is `header` are checked and then dropped.
- Data of an answer without content stands beside the status of an earlier answer
  (`OneExchange` is about answers that are heard). If there was no earlier answer, the line of the request
  stays hidden: after a first 204 or a first lost call the user sees the outcome only.
- Blank JSON (`null`, `""`, `[]`, `{}`) that is typed for a path variable leaves an empty segment, and
  the request goes to another resource.
- A form field behind a body field whose value is a primitive or null is assigned into that value: in
  strict mode that throws, and nothing is sent or shown.
- The encoder escapes reserved keys at every depth, the client unescapes those of the root only.

## 9. What is not modelled, and the plan

Left out for good: schemas, templates, encoders, settings, the test client
and the schema command. They are functions of the configuration without state that
anything races on, or layout. So are the highlighters and the scripts of the project's web site.

Simplified in the modules of the server: one table with two fields; UniqueForMonth and
UniqueForYear, which differ from UniqueForDate in the lookup; a clock that does not step back;
`get_ident`'s parsing of addresses; custom exception handlers; a redeploy that changes the period of a rate, while entries of the
old one are in the cache; nested and
many-to-many writes; throttles in Dispatch, where a request simply may be throttled; more rows of one
position than `offset_cutoff`, where the code's own comment gives up; two updates of one row, of which
the later save writes back what it read.

Left out of the client: the parsing and printing of URLs (`url-parse`, querystring), the operators
of URI templates that no link of the framework uses, encodings other than JSON, `Client.get`, of the
`fetch` polyfill the headers and all bodies but text; JSON values that have a `toString` of their own, and
lone surrogates, for which the encoding of a path throws. Those are most of the lines of
`coreapi-0.1.1.js`: bundled libraries, and conversions of text without control of their own. Of the page:
copy buttons, themes, tooltips, the boundary that a raw multipart body is given, a navigation
that fails natively, and what `history` shows as the address.

Next, in this order:

1. `RequestContent`: `Request.data`, `POST`, `FILES` and `stream` over a stream that can be read
   once and that middleware may have read; the overridden `_post` and `_files`; errors that
   are raised once or at every access. Properties: the content is parsed at most once; after
   an error nothing repeats it; no data is lost silently. Composes with `RequestAuth`.
2. Dispatch, extended: `OPTIONS` with `SimpleMetadata.determine_actions` (clones and permission
   checks as in the browsable API, but catching `Http404`), and the permission operators
   `&`, `|` and `~` as functions on their outcomes.
3. `Negotiation`: `select_renderer` and media-type precedence as operators, against a
   definition of the best match over small sets of media types; it refines `Negotiate`.
4. `Tokens`: `get_or_create` in `obtain_auth_token` and `drf_create_token --reset`, racing; it
   implements `Revoke`.
5. Offset pagination (`PageNumberPagination`, `LimitOffsetPagination`) with its two queries.
6. Field validation: `validate_empty_values`, `run_validation`, partial and HTML input, as
   operators against a reference table; nested and list serializers on top; relational fields.
7. Routers and viewsets: the order of routes and which action a method reaches; the cached
   urls. Versioning: what each scheme determines and reverses. Filters.

8. The two sides joined: `AjaxForm`'s server as an instance of `Dispatch`, so that the outcome
   of a submission is that of its dispatch, and `SessionAuthentication` its CSRF check.

Theorems to come: those of the modules above.
