----------------------------- MODULE Throttling -----------------------------
(***************************************************************************)
(* Rate throttling of requests: SimpleRateThrottle and its subclasses       *)
(* (rest_framework/throttling.py) as APIView.check_throttles                *)
(* (rest_framework/views.py) runs them, by several server workers that      *)
(* share one cache.                                                         *)
(*                                                                         *)
(* allow_request reads the history of a cache key, reads the clock, drops   *)
(* the timestamps that left the window, and either refuses or writes the    *)
(* history back with one more timestamp.  Read and write are separate       *)
(* calls on the cache, so requests of the same client that run on two       *)
(* workers interleave between them.  The cache drops an entry when its      *)
(* timeout runs out and may evict it earlier; a worker may be restarted in  *)
(* the middle of a request, possibly with another number of requests in the *)
(* rates of its settings.  The period of a rate does not change.            *)
(*                                                                         *)
(* log, tainted and promise are history variables: no action reads them.    *)
(***************************************************************************)
EXTENDS Integers, Sequences

CONSTANTS
    Workers,          \* threads or processes that serve requests
    Clients,          \* what get_cache_key puts in a key: a user's pk or an address
    Throttles,        \* the throttle scopes
    Views,            \* the views of the API
    ThrottleClasses,  \* ThrottleClasses[v]: the scopes of view v's throttle_classes, in order
    Duration,         \* Duration[t]: the period of t's rate, in clock ticks
    Limits,           \* Limits[t]: the numbers of requests t's rate may be configured with
    Exempt,           \* pairs <<t, c>> that t does not throttle: no rate, or no cache key
    MaxTime,          \* bound on the clock
    MaxLog            \* bound on the requests a key records before requests stop coming

ASSUME ThrottlingAssumption ==
    /\ Clients # {}
    /\ ThrottleClasses \in [Views -> Seq(Throttles)]
    /\ Duration \in [Throttles -> Nat \ {0}]
    /\ Limits \in [Throttles -> SUBSET Nat]
    /\ \A t \in Throttles : \E n \in Limits[t] : \A m \in Limits[t] : m <= n
    /\ Exempt \subseteq Throttles \X Clients
    /\ MaxTime \in Nat
    /\ MaxLog \in Nat

VARIABLES
    now,      \* what time.time() returns
    cache,    \* the cache: a history (newest first) and its expiry, per key
    limits,   \* limits[w][t]: the num_requests worker w parsed from its settings
    job,      \* the request each worker is serving
    log,      \* every timestamp ever recorded for a key, newest first
    tainted,  \* keys whose history was overwritten from a stale read, or evicted
    promise   \* the last refusal of a key, if no request was recorded since the read
              \* it rests on: when the client was told to retry, under which limit

vars == <<now, cache, limits, job, log, tainted, promise>>

Keys == Throttles \X Clients
NoWait == -1                     \* wait() returned None
Absent == [history |-> <<>>, expires |-> 0]
NoPromise == [at |-> 0, limit |-> 0]

\* The numbers of requests a worker may have parsed from the rates in its settings.
Configurations == {f \in [Throttles -> UNION {Limits[t] : t \in Throttles}] :
                       \A t \in Throttles : f[t] \in Limits[t]}

Idle == [pc |-> "idle", client |-> CHOOSE c \in Clients : TRUE, todo |-> <<>>,
         history |-> <<>>, stamp |-> 0, wait |-> NoWait, refused |-> FALSE, stale |-> FALSE]

(***************************************************************************)
(* The throttle and the cache key a worker is busy with.                    *)
(***************************************************************************)
Throttle(w) == Head(job[w].todo)
Key(w) == <<Throttle(w), job[w].client>>
Limit(w) == limits[w][Throttle(w)]

\* cache.get(key, []): an entry whose timeout has run out is a miss.
Cached(k) == IF now < cache[k].expires THEN cache[k].history ELSE <<>>

\* self.history.insert(0, self.now)
Push(stamp, history) == <<stamp>> \o history

\* Mutant of Wait: one request too many counted as available.
WaitTooShort(history, stamp, limit, duration) ==
    IF history = <<>> \/ limit - Len(history) + 1 <= 0 THEN NoWait
    ELSE (duration - (stamp - history[Len(history)]) + 1) \div 2

\* wait(): the seconds until enough of the history has expired; None when the
\* history is longer than the rate allows.  Throttled rounds the quotient up.
Wait(history, stamp, limit, duration) ==
    LET remaining == IF history # <<>>
                     THEN duration - (stamp - history[Len(history)])
                     ELSE duration
        available == limit - Len(history) + 1
    IN  IF available <= 0 THEN NoWait
        ELSE (remaining + available - 1) \div available

\* Mutant of Longer: the waits add up.
Total(wait, other) == IF other = NoWait THEN wait ELSE wait + other

\* check_throttles raises Throttled with the longest of the waits, the None of a
\* lowered rate left out: NoWait is below them all.
Longer(wait, other) == IF wait > other THEN wait ELSE other

\* check_throttles goes on to the next throttle of the view, or ends.
Advance(j) == [j EXCEPT !.pc = IF Tail(j.todo) # <<>> THEN "fetch" ELSE "done",
                        !.todo = Tail(j.todo), !.history = <<>>, !.stamp = 0,
                        !.stale = FALSE]

(***************************************************************************)
(* Initial state: an empty cache, every worker idle.                        *)
(***************************************************************************)
Init ==
    /\ now = 0
    /\ cache = [k \in Keys |-> Absent]
    /\ limits \in [Workers -> Configurations]
    /\ job = [w \in Workers |-> Idle]
    /\ log = [k \in Keys |-> <<>>]
    /\ tainted = {}
    /\ promise = [k \in Keys |-> NoPromise]

Tick ==
    /\ now < MaxTime
    /\ now' = now + 1
    /\ UNCHANGED <<cache, limits, job, log, tainted, promise>>

(***************************************************************************)
(* A request of client c arrives at view v: get_throttles instantiates the  *)
(* throttles of the view and check_throttles starts on the first one.       *)
(***************************************************************************)
Begin(w, c, v) ==
    /\ job[w].pc \in {"idle", "done"}
    /\ \A k \in Keys : Len(log[k]) < MaxLog
    /\ job' = [job EXCEPT ![w] =
                 [Idle EXCEPT !.pc = IF ThrottleClasses[v] = <<>> THEN "done" ELSE "fetch",
                              !.client = c, !.todo = ThrottleClasses[v]]]
    /\ UNCHANGED <<now, cache, limits, log, tainted, promise>>

\* allow_request: no rate, or get_cache_key returned None.
Skip(w) ==
    /\ job[w].pc = "fetch"
    /\ Key(w) \in Exempt
    /\ job' = [job EXCEPT ![w] = Advance(job[w])]
    /\ UNCHANGED <<now, cache, limits, log, tainted, promise>>

\* allow_request: self.history = self.cache.get(self.key, [])
Fetch(w) ==
    /\ job[w].pc = "fetch"
    /\ Key(w) \notin Exempt
    /\ job' = [job EXCEPT ![w] = [@ EXCEPT !.pc = "decide", !.history = Cached(Key(w))]]
    /\ UNCHANGED <<now, cache, limits, log, tainted, promise>>

\* Mutant of LeftAfterPop: a timestamp at the edge of the window stays.
LeftAfterStrictPop(h, n, cutoff) ==
    /\ n \in 0..Len(h)
    /\ \A i \in (n + 1)..Len(h) : h[i] < cutoff
    /\ n > 0 => h[n] >= cutoff

\* The while loop of allow_request: n timestamps are left when the older ones,
\* read from the end, have all left the window and the n-th has not.
LeftAfterPop(h, n, cutoff) ==
    /\ n \in 0..Len(h)
    /\ \A i \in (n + 1)..Len(h) : h[i] <= cutoff
    /\ n > 0 => h[n] > cutoff

\* Mutant of Admit: the history may hold one timestamp more than the limit.
AdmitOneMore(w) ==
    /\ job[w].pc = "decide"
    /\ \E n \in 0..Len(job[w].history) :
        /\ LeftAfterPop(job[w].history, n, now - Duration[Throttle(w)])
        /\ n <= Limit(w)
        /\ job' = [job EXCEPT ![w] = [@ EXCEPT !.pc = "store", !.stamp = now,
                                               !.history = SubSeq(job[w].history, 1, n)]]
    /\ UNCHANGED <<now, cache, limits, log, tainted, promise>>

\* allow_request: self.now = self.timer(), the pop loop, and room for one more.
Admit(w) ==
    /\ job[w].pc = "decide"
    /\ \E n \in 0..Len(job[w].history) :
        /\ LeftAfterPop(job[w].history, n, now - Duration[Throttle(w)])
        /\ n < Limit(w)
        /\ job' = [job EXCEPT ![w] = [@ EXCEPT !.pc = "store", !.stamp = now,
                                               !.history = SubSeq(job[w].history, 1, n)]]
    /\ UNCHANGED <<now, cache, limits, log, tainted, promise>>

\* allow_request returns throttle_failure(): nothing is written to the cache, and
\* check_throttles asks for the wait and goes on with the view's other throttles.
Refuse(w) ==
    /\ job[w].pc = "decide"
    /\ \E n \in 0..Len(job[w].history) :
        LET h == SubSeq(job[w].history, 1, n)
            wait == Wait(h, now, Limit(w), Duration[Throttle(w)])
        IN  /\ LeftAfterPop(job[w].history, n, now - Duration[Throttle(w)])
            /\ n >= Limit(w)
            /\ job' = [job EXCEPT ![w] =
                 Advance([job[w] EXCEPT !.refused = TRUE, !.wait = Longer(wait, job[w].wait)])]
            /\ promise' = [promise EXCEPT ![Key(w)] =
                 IF wait = NoWait \/ job[w].stale THEN NoPromise
                                  ELSE [at |-> now + wait, limit |-> Limit(w)]]
    /\ UNCHANGED <<now, cache, limits, log, tainted>>

\* Mutant of Store: the entry's timeout is a tick shorter than the period.
StoreTooBriefly(w) ==
    /\ job[w].pc = "store"
    /\ LET k == Key(w)
       IN  /\ cache' = [cache EXCEPT ![k] =
                          [history |-> Push(job[w].stamp, job[w].history),
                           expires |-> now + Duration[Throttle(w)] - 1]]
           /\ log' = [log EXCEPT ![k] = Push(job[w].stamp, @)]
           /\ tainted' = IF job[w].stale THEN tainted \cup {k} ELSE tainted
           /\ promise' = [promise EXCEPT ![k] = NoPromise]
           /\ job' = [u \in Workers |->
                        IF u = w THEN Advance(job[u])
                        ELSE IF job[u].pc \in {"decide", "store"} /\ Key(u) = k
                             THEN [job[u] EXCEPT !.stale = TRUE]
                             ELSE job[u]]
    /\ UNCHANGED <<now, limits>>

\* throttle_success: insert the timestamp and write the history back, with the
\* duration of the rate as the timeout of the entry.
Store(w) ==
    /\ job[w].pc = "store"
    /\ LET k == Key(w)
       IN  /\ cache' = [cache EXCEPT ![k] =
                          [history |-> Push(job[w].stamp, job[w].history),
                           expires |-> now + Duration[Throttle(w)]]]
           /\ log' = [log EXCEPT ![k] = Push(job[w].stamp, @)]
           /\ tainted' = IF job[w].stale THEN tainted \cup {k} ELSE tainted
           /\ promise' = [promise EXCEPT ![k] = NoPromise]
           /\ job' = [u \in Workers |->
                        IF u = w THEN Advance(job[u])
                        ELSE IF job[u].pc \in {"decide", "store"} /\ Key(u) = k
                             THEN [job[u] EXCEPT !.stale = TRUE]
                             ELSE job[u]]
    /\ UNCHANGED <<now, limits>>

\* The cache backend drops an entry before its timeout.
Evict(k) ==
    /\ Cached(k) # <<>>
    /\ cache' = [cache EXCEPT ![k] = Absent]
    /\ tainted' = tainted \cup {k}
    /\ UNCHANGED <<now, limits, job, log, promise>>

\* A worker process is replaced, whatever it was doing; the new one parses the
\* rates its settings hold now, which may have other numbers of requests.
Restart(w) ==
    /\ \E f \in Configurations : limits' = [limits EXCEPT ![w] = f]
    /\ job' = [job EXCEPT ![w] = Idle]
    /\ UNCHANGED <<now, cache, log, tainted, promise>>

AllowRequest(w) == Skip(w) \/ Fetch(w) \/ Admit(w) \/ Refuse(w) \/ Store(w)

Next ==
    \/ Tick
    \/ \E w \in Workers :
        \/ \E c \in Clients, v \in Views : Begin(w, c, v)
        \/ AllowRequest(w)
        \/ Restart(w)
    \/ \E k \in Keys : Evict(k)

Spec == Init /\ [][Next]_vars

(***************************************************************************)
(* Type invariant.                                                          *)
(***************************************************************************)
Jobs == [pc : {"idle", "fetch", "decide", "store", "done"}, client : Clients,
         todo : Seq(Throttles), history : Seq(Nat), stamp : Nat,
         wait : Int, refused : BOOLEAN, stale : BOOLEAN]

\* Every variable has the shape allow_request and check_throttles give it; a worker
\* inside allow_request has a throttle it is busy with.
TypeOK ==
    /\ now \in Nat
    /\ cache \in [Keys -> [history : Seq(Nat), expires : Nat]]
    /\ limits \in [Workers -> Configurations]
    /\ job \in [Workers -> Jobs]
    /\ log \in [Keys -> Seq(Nat)]
    /\ tainted \subseteq Keys
    /\ promise \in [Keys -> [at : Int, limit : Nat]]
    /\ \A w \in Workers : job[w].pc \in {"fetch", "decide", "store"} => job[w].todo # <<>>

(***************************************************************************)
(* Safety.                                                                  *)
(***************************************************************************)
\* The largest number of requests any configuration of t allows.
MaxLimit(t) == CHOOSE n \in Limits[t] : \A m \in Limits[t] : m <= n

\* The rate is kept: as long as no worker overwrote a key from a stale read and the
\* cache did not evict it, any MaxLimit + 1 requests the throttle let through, for a
\* key, span at least the duration of the rate.  The entry's timeout never forgets a
\* timestamp that is still inside the window (allow_request, throttle_success).
WindowLimit ==
    \A k \in Keys \ tainted : \A i, j \in DOMAIN log[k] :
        j = i + MaxLimit(k[1]) => log[k][j] <= log[k][i] - Duration[k[1]]

\* However workers interleave, the cached history of a key never holds more
\* timestamps than a configured rate allows: stale writes lose timestamps but never
\* pile them up.
HistoryBounded ==
    \A k \in Keys : Len(cache[k].history) <= MaxLimit(k[1])

\* A history is ordered, newest first, and holds no timestamp from the future, even
\* when two workers raced on it: allow_request reads the clock after the cache.  The
\* pop loop, which stops at the first live timestamp, and wait() rely on it.
Sorted(h) == \A i, j \in DOMAIN h : i <= j => h[j] <= h[i]
HistorySorted ==
    \A k \in Keys : /\ Sorted(cache[k].history)
                    /\ \A i \in DOMAIN cache[k].history : cache[k].history[i] <= now

\* The Retry-After of a refused request is a positive number of seconds no longer than
\* the longest period: exception_handler sends no header for a zero, and a longer wait
\* would keep a client out for nothing.
RetryAfterInRange ==
    \A w \in Workers : job[w].wait # NoWait =>
        \E t \in Throttles : job[w].wait \in 1..Duration[t]

(***************************************************************************)
(* Action properties.                                                       *)
(***************************************************************************)
\* A client is refused only while the window really is full: the limit-th most recent
\* request the throttle let through is still inside it.
RefusedOnlyWhenFull ==
    [][\A w \in Workers : Refuse(w) /\ Key(w) \notin tainted /\ Limit(w) > 0 =>
          /\ Limit(w) \in DOMAIN log[Key(w)]
          /\ log[Key(w)][Limit(w)] > now - Duration[Throttle(w)]]_vars

\* A client that was refused and comes back when it was told to is let through by
\* that throttle, unless another request was recorded meanwhile (since the read the
\* refusal rests on) or the rate was lowered: the wait the throttle recommends is long enough.
RetryAfterHonoured ==
    [][\A w \in Workers :
          LET p == promise[Key(w)]
          IN  Refuse(w) /\ Key(w) \notin tainted /\ p # NoPromise /\ Limit(w) >= p.limit
                  /\ p.limit > 0
              => now < p.at]_vars
=============================================================================
