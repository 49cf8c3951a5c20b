-------------------------- MODULE ThrottlingProofs --------------------------
(***************************************************************************)
(* Proofs about Throttling, for every number of workers, clients and        *)
(* throttles, every rate and every interleaving.                            *)
(***************************************************************************)
EXTENDS Throttling, TLAPS, SequenceTheorems

(***************************************************************************)
(* Lemmas about the operators of the model.                                 *)
(***************************************************************************)
\* self.history.insert(0, self.now) moves every timestamp one place down.
LEMMA PushProperties ==
    ASSUME NEW h \in Seq(Nat), NEW x \in Nat
    PROVE  /\ Push(x, h) \in Seq(Nat)
           /\ Len(Push(x, h)) = Len(h) + 1
           /\ Push(x, h)[1] = x
           /\ \A i \in 2..(Len(h) + 1) : Push(x, h)[i] = h[i - 1]
<1>1. <<x>> \in Seq(Nat) /\ Len(<<x>>) = 1 /\ <<x>>[1] = x
  OBVIOUS
<1>2. Push(x, h) \in Seq(Nat) /\ Len(Push(x, h)) = Len(h) + 1
  BY <1>1, ConcatProperties DEF Push
<1>3. \A i \in 1..(Len(h) + 1) :
        Push(x, h)[i] = IF i <= 1 THEN <<x>>[i] ELSE h[i - 1]
  BY <1>1, ConcatProperties DEF Push
<1>. QED
  BY <1>1, <1>2, <1>3

\* The pop loop keeps the newest n timestamps as they are.
LEMMA KeepProperties ==
    ASSUME NEW h \in Seq(Nat), NEW n \in 0..Len(h)
    PROVE  /\ SubSeq(h, 1, n) \in Seq(Nat)
           /\ Len(SubSeq(h, 1, n)) = n
           /\ \A i \in 1..n : SubSeq(h, 1, n)[i] = h[i]
  BY SubSeqProperties

LEMMA ConfigurationTypes ==
    /\ \A f \in Configurations : f \in [Throttles -> Nat]
    /\ \A t \in Throttles : /\ MaxLimit(t) \in Nat
                            /\ \A f \in Configurations : f[t] <= MaxLimit(t)
<1>1. ASSUME NEW t \in Throttles
      PROVE  MaxLimit(t) \in Limits[t] /\ \A m \in Limits[t] : m <= MaxLimit(t)
  BY ThrottlingAssumption DEF MaxLimit
<1>2. \A t \in Throttles : Limits[t] \subseteq Nat
  BY ThrottlingAssumption
<1>3. ASSUME NEW f \in Configurations
      PROVE  f \in [Throttles -> Nat]
  <2>1. /\ f \in [Throttles -> UNION {Limits[t] : t \in Throttles}]
        /\ \A t \in Throttles : f[t] \in Limits[t]
    BY DEF Configurations
  <2>. QED
    BY <2>1, <1>2
<1>. QED
  BY <1>1, <1>2, <1>3 DEF Configurations

\* Going on to the next throttle of a view yields a well-formed job.
LEMMA AdvanceType ==
    ASSUME NEW j \in Jobs, j.todo # <<>>
    PROVE  /\ Advance(j) \in Jobs
           /\ Advance(j).pc \in {"fetch", "decide", "store"} => Advance(j).todo # <<>>
           /\ Advance(j).pc \in {"fetch", "done"}
           /\ Advance(j).wait = j.wait
<1>1. j.todo \in Seq(Throttles)
  BY DEF Jobs
<1>2. Tail(j.todo) \in Seq(Throttles)
  BY <1>1, HeadTailProperties
<1>3. <<>> \in Seq(Nat)
  OBVIOUS
<1>. QED
  BY <1>2, <1>3 DEF Advance, Jobs
\* wait() yields a number of seconds, or None.
LEMMA WaitType ==
    ASSUME NEW h \in Seq(Nat), NEW stamp \in Nat, NEW limit \in Nat, NEW duration \in Nat
    PROVE  Wait(h, stamp, limit, duration) \in Int
<1>1. h # <<>> => h[Len(h)] \in Nat
  BY LenProperties, EmptySeq
<1>2. Len(h) \in Nat
  BY LenProperties
<1>3. \A a \in Int : \A b \in Int : b > 0 => (a + b - 1) \div b \in Int
  OBVIOUS
<1>. QED
  BY <1>1, <1>2, <1>3 DEF Wait, NoWait

\* When the history is full and its oldest timestamp is alive, wait() is None if the
\* rate was lowered, and otherwise the rest of the oldest timestamp's life.
LEMMA WaitWhenFull ==
    ASSUME NEW h \in Seq(Nat), NEW stamp \in Nat, NEW limit \in Nat, NEW duration \in Nat \ {0},
           Len(h) >= limit,
           Len(h) > 0 => h[Len(h)] > stamp - duration /\ h[Len(h)] <= stamp,
           Wait(h, stamp, limit, duration) # NoWait
    PROVE  /\ Len(h) = limit
           /\ Wait(h, stamp, limit, duration) \in 1..duration
           /\ limit > 0 => stamp + Wait(h, stamp, limit, duration) = h[limit] + duration
<1>1. Len(h) \in Nat
  BY LenProperties
<1>2. Len(h) = limit
  BY <1>1 DEF Wait
<1>3. h # <<>> <=> Len(h) > 0
  BY EmptySeq, <1>1
<1>4. \A a \in Int : (a + 1 - 1) \div 1 = a
  OBVIOUS
<1>5. CASE limit = 0
  BY <1>1, <1>2, <1>3, <1>4, <1>5 DEF Wait
<1>6. CASE limit > 0
  <2>1. h[limit] \in Nat /\ h[limit] > stamp - duration /\ h[limit] <= stamp
    BY <1>1, <1>2, <1>6, LenProperties
  <2>2. Wait(h, stamp, limit, duration) = duration - (stamp - h[limit])
    BY <1>1, <1>2, <1>3, <1>4, <1>6, <2>1 DEF Wait
  <2>. QED
    BY <1>2, <1>6, <2>1, <2>2
<1>. QED
  BY <1>5, <1>6

\* A worker inside allow_request is busy with a key.
LEMMA KeyType ==
    ASSUME TypeOK, NEW w \in Workers, job[w].pc \in {"fetch", "decide", "store"}
    PROVE  /\ Throttle(w) \in Throttles
           /\ Key(w) \in Keys
           /\ Key(w)[1] = Throttle(w)
           /\ Limit(w) \in Nat
           /\ Limit(w) <= MaxLimit(Throttle(w))
           /\ Duration[Throttle(w)] \in Nat \ {0}
<1>1. job[w] \in Jobs /\ job[w].todo # <<>>
  BY DEF TypeOK
<1>2. Throttle(w) \in Throttles
  BY <1>1, HeadTailProperties DEF Throttle, Jobs
<1>3. Key(w) \in Keys /\ Key(w)[1] = Throttle(w)
  BY <1>1, <1>2 DEF Key, Keys, Jobs
<1>4. limits[w] \in Configurations
  BY DEF TypeOK
<1>. QED
  BY <1>2, <1>3, <1>4, ConfigurationTypes, ThrottlingAssumption DEF Limit

LEMMA IdleType == Idle \in Jobs
<1>1. <<>> \in Seq(Throttles) /\ <<>> \in Seq(Nat)
  OBVIOUS
<1>. QED
  BY <1>1, ThrottlingAssumption DEF Idle, Jobs, NoWait
(***************************************************************************)
(* Type correctness.                                                        *)
(***************************************************************************)
LEMMA TypeInit == Init => TypeOK
<1>1. \A k \in Keys : Absent \in [history : Seq(Nat), expires : Nat]
  BY DEF Absent
<1>2. \A k \in Keys : NoPromise \in [at : Int, limit : Nat]
  BY DEF NoPromise
<1>3. <<>> \in Seq(Nat)
  OBVIOUS
<1>4. Idle \in Jobs /\ Idle.pc = "idle"
  BY IdleType DEF Idle
<1>. QED
  BY <1>1, <1>2, <1>3, <1>4 DEF Init, TypeOK

LEMMA TypeNext == TypeOK /\ [Next]_vars => TypeOK'
<1>. SUFFICES ASSUME TypeOK, [Next]_vars PROVE TypeOK'
  OBVIOUS
<1>. USE DEF TypeOK
<1>1. CASE Tick
  BY <1>1 DEF Tick
<1>2. ASSUME NEW w \in Workers, NEW c \in Clients, NEW v \in Views, Begin(w, c, v)
      PROVE  TypeOK'
  <2>1. ThrottleClasses[v] \in Seq(Throttles)
    BY ThrottlingAssumption
  <2>2. job'[w] \in Jobs /\ (job'[w].pc = "fetch" => job'[w].todo # <<>>)
                         /\ job'[w].pc \in {"fetch", "done"}
    BY <1>2, <2>1, IdleType DEF Begin, Jobs, Idle
  <2>. QED
    BY <1>2, <2>2 DEF Begin
<1>3. ASSUME NEW w \in Workers, Skip(w)
      PROVE  TypeOK'
  <2>1. job[w] \in Jobs /\ job[w].todo # <<>>
    BY <1>3 DEF Skip
  <2>. QED
    BY <1>3, <2>1, AdvanceType DEF Skip
<1>4. ASSUME NEW w \in Workers, Fetch(w)
      PROVE  TypeOK'
  <2>1. Key(w) \in Keys
    BY <1>4, KeyType DEF Fetch
  <2>2. Cached(Key(w)) \in Seq(Nat)
    BY <2>1 DEF Cached
  <2>3. job[w].pc = "fetch" /\ job[w] \in Jobs /\ job[w].todo # <<>>
    BY <1>4 DEF Fetch
  <2>4. job'[w] \in Jobs /\ job'[w].todo # <<>>
    BY <1>4, <2>2, <2>3 DEF Fetch, Jobs
  <2>. QED
    BY <1>4, <2>4 DEF Fetch
<1>5. ASSUME NEW w \in Workers, Admit(w)
      PROVE  TypeOK'
  <2>1. PICK n \in 0..Len(job[w].history) :
           job' = [job EXCEPT ![w] = [job[w] EXCEPT !.pc = "store", !.stamp = now,
                                           !.history = SubSeq(job[w].history, 1, n)]]
    BY <1>5 DEF Admit
  <2>2. SubSeq(job[w].history, 1, n) \in Seq(Nat)
    BY KeepProperties DEF Jobs
  <2>3. job[w].pc = "decide" /\ job[w] \in Jobs /\ job[w].todo # <<>>
    BY <1>5 DEF Admit
  <2>4. job'[w] \in Jobs /\ job'[w].todo # <<>>
    BY <2>1, <2>2, <2>3 DEF Jobs
  <2>. QED
    BY <1>5, <2>1, <2>4 DEF Admit
<1>6. ASSUME NEW w \in Workers, Refuse(w)
      PROVE  TypeOK'
  <2>1. PICK n \in 0..Len(job[w].history) :
          LET wait == Wait(SubSeq(job[w].history, 1, n), now, Limit(w),
                           Duration[Throttle(w)])
          IN  /\ job' = [job EXCEPT ![w] = Advance([job[w] EXCEPT !.refused = TRUE,
                                               !.wait = Longer(wait, job[w].wait)])]
              /\ promise' = [promise EXCEPT ![Key(w)] =
                    IF wait = NoWait \/ job[w].stale THEN NoPromise
                    ELSE [at |-> now + wait, limit |-> Limit(w)]]
    BY <1>6 DEF Refuse
  <2>. DEFINE wait == Wait(SubSeq(job[w].history, 1, n), now, Limit(w),
                           Duration[Throttle(w)])
              j == [job[w] EXCEPT !.refused = TRUE, !.wait = Longer(wait, job[w].wait)]
  <2>2. job[w].pc = "decide" /\ job[w] \in Jobs /\ job[w].todo # <<>>
    BY <1>6 DEF Refuse
  <2>3. SubSeq(job[w].history, 1, n) \in Seq(Nat)
    BY <2>2, KeepProperties DEF Jobs
  <2>4. Key(w) \in Keys /\ Limit(w) \in Nat /\ Duration[Throttle(w)] \in Nat
    BY <2>2, KeyType
  <2>5. wait \in Int
    BY <2>3, <2>4, WaitType
  <2>6. j \in Jobs /\ j.todo # <<>>
    BY <2>2, <2>5 DEF Jobs, Longer
  <2>7. /\ Advance(j) \in Jobs
        /\ Advance(j).pc \in {"fetch", "decide", "store"} => Advance(j).todo # <<>>
    BY <2>6, AdvanceType
  <2>8. job' = [job EXCEPT ![w] = Advance(j)]
    BY <2>1
  <2>9. promise' \in [Keys -> [at : Int, limit : Nat]]
    BY <2>1, <2>4, <2>5 DEF NoPromise
  <2>. QED
    BY <1>6, <2>7, <2>8, <2>9 DEF Refuse
<1>7. ASSUME NEW w \in Workers, Store(w)
      PROVE  TypeOK'
  <2>1. job[w].pc = "store" /\ job[w] \in Jobs /\ job[w].todo # <<>>
    BY <1>7 DEF Store
  <2>2. Key(w) \in Keys /\ Duration[Throttle(w)] \in Nat
    BY <2>1, KeyType
  <2>3. /\ Push(job[w].stamp, job[w].history) \in Seq(Nat)
        /\ Push(job[w].stamp, log[Key(w)]) \in Seq(Nat)
    BY <2>1, <2>2, PushProperties DEF Jobs
  <2>4. job' \in [Workers -> Jobs]
    BY <1>7, <2>1, AdvanceType, ZenonT(30) DEF Store, Jobs
  <2>5. \A u \in Workers : job'[u].pc \in {"fetch", "decide", "store"} => job'[u].todo # <<>>
    BY <1>7, <2>1, AdvanceType DEF Store
  <2>6. cache' \in [Keys -> [history : Seq(Nat), expires : Nat]]
    BY <1>7, <2>2, <2>3 DEF Store
  <2>7. log' \in [Keys -> Seq(Nat)] /\ tainted' \subseteq Keys
    BY <1>7, <2>2, <2>3 DEF Store
  <2>8. promise' \in [Keys -> [at : Int, limit : Nat]]
    BY <1>7, <2>2 DEF Store, NoPromise
  <2>. QED
    BY <1>7, <2>4, <2>5, <2>6, <2>7, <2>8 DEF Store
<1>8. ASSUME NEW w \in Workers, Restart(w)
      PROVE  TypeOK'
  BY <1>8, IdleType DEF Restart, Idle
<1>9. ASSUME NEW k \in Keys, Evict(k)
      PROVE  TypeOK'
  BY <1>9 DEF Evict, Absent
<1>10. CASE UNCHANGED vars
  BY <1>10 DEF vars
<1>. QED
  BY <1>1, <1>2, <1>3, <1>4, <1>5, <1>6, <1>7, <1>8, <1>9, <1>10
     DEF Next, AllowRequest
\* Every reachable state has the shape the code gives it.
THEOREM TypeCorrect == Spec => []TypeOK
  BY TypeInit, TypeNext, PTL DEF Spec

(***************************************************************************)
(* The inductive invariant.  What makes the window limit hold is that a     *)
(* history, cached or held by a worker, is always the newest part of        *)
(* everything recorded for the key, and that what it leaves out has already *)
(* left the window.                                                         *)
(***************************************************************************)
\* h is the newest part of l, and the rest of l is not after the cutoff.
Follows(h, l, cutoff) ==
    /\ Len(h) <= Len(l)
    /\ \A i \in 1..Len(h) : h[i] = l[i]
    /\ \A i \in (Len(h) + 1)..Len(l) : l[i] <= cutoff

\* The i-th newest timestamp of l is no older than that of h.
NoOlder(h, l) ==
    /\ Len(h) <= Len(l)
    /\ \A i \in 1..Len(h) : h[i] <= l[i]

\* Any n + 1 timestamps of l in a row span at least d.
Spaced(l, n, d) ==
    \A i \in 1..Len(l) : i + n <= Len(l) => l[i + n] <= l[i] - d

CacheInv(k) ==
    /\ Len(cache[k].history) <= MaxLimit(k[1])
    /\ Sorted(cache[k].history)
    /\ \A i \in 1..Len(cache[k].history) :
          /\ cache[k].history[i] <= now
          /\ cache[k].history[i] <= cache[k].expires - Duration[k[1]]
    /\ k \notin tainted => Follows(cache[k].history, log[k], now - Duration[k[1]])

LogInv(k) ==
    /\ \A i \in 1..Len(log[k]) : log[k][i] <= now
    /\ k \notin tainted =>
        /\ Sorted(log[k])
        /\ Spaced(log[k], MaxLimit(k[1]), Duration[k[1]])

DecideInv(w) ==
    job[w].pc = "decide" =>
        /\ Len(job[w].history) <= MaxLimit(Throttle(w))
        /\ Sorted(job[w].history)
        /\ \A i \in 1..Len(job[w].history) : job[w].history[i] <= now
        /\ Key(w) \notin tainted =>
            /\ NoOlder(job[w].history, log[Key(w)])
            /\ ~job[w].stale =>
                 Follows(job[w].history, log[Key(w)], now - Duration[Throttle(w)])

StoreInv(w) ==
    job[w].pc = "store" =>
        /\ Len(job[w].history) < MaxLimit(Throttle(w))
        /\ Sorted(job[w].history)
        /\ \A i \in 1..Len(job[w].history) : job[w].history[i] <= job[w].stamp
        /\ job[w].stamp <= now
        /\ Key(w) \notin tainted /\ ~job[w].stale =>
              Follows(job[w].history, log[Key(w)], job[w].stamp - Duration[Throttle(w)])

WaitInv(w) == job[w].wait # NoWait => \E t \in Throttles : job[w].wait \in 1..Duration[t]

PromiseInv(k) ==
    promise[k] # NoPromise /\ promise[k].limit > 0 /\ k \notin tainted =>
        /\ promise[k].limit <= Len(log[k])
        /\ log[k][promise[k].limit] + Duration[k[1]] = promise[k].at

WindowInv ==
    /\ TypeOK
    /\ \A k \in Keys : CacheInv(k) /\ LogInv(k) /\ PromiseInv(k)
    /\ \A w \in Workers : DecideInv(w) /\ StoreInv(w) /\ WaitInv(w)

LEMMA KeyTypes ==
    ASSUME TypeOK, NEW k \in Keys
    PROVE  /\ cache[k].history \in Seq(Nat) /\ Len(cache[k].history) \in Nat
           /\ cache[k].expires \in Nat
           /\ log[k] \in Seq(Nat) /\ Len(log[k]) \in Nat
           /\ now \in Nat
           /\ k[1] \in Throttles
           /\ Duration[k[1]] \in Nat \ {0}
           /\ MaxLimit(k[1]) \in Nat
<1>1. k[1] \in Throttles
  BY DEF Keys
<1>. QED
  BY <1>1, ConfigurationTypes, ThrottlingAssumption, LenProperties DEF TypeOK

LEMMA JobTypes ==
    ASSUME TypeOK, NEW w \in Workers
    PROVE  /\ job[w] \in Jobs
           /\ job[w].history \in Seq(Nat) /\ Len(job[w].history) \in Nat
           /\ job[w].stamp \in Nat
           /\ job[w].wait \in Int
           /\ job[w].stale \in BOOLEAN
<1>1. job[w] \in Jobs
  BY DEF TypeOK
<1>. QED
  BY <1>1, LenProperties DEF Jobs

(***************************************************************************)
(* What popping and pushing do to these predicates.                         *)
(***************************************************************************)
LEMMA PopSorted ==
    ASSUME NEW h \in Seq(Nat), NEW n \in 0..Len(h), Sorted(h)
    PROVE  Sorted(SubSeq(h, 1, n))
<1>1. /\ SubSeq(h, 1, n) \in Seq(Nat) /\ Len(SubSeq(h, 1, n)) = n
      /\ \A i \in 1..n : SubSeq(h, 1, n)[i] = h[i]
  BY KeepProperties
<1>2. DOMAIN SubSeq(h, 1, n) = 1..n /\ DOMAIN h = 1..Len(h) /\ Len(h) \in Nat
  BY <1>1, LenProperties
<1>. QED
  BY <1>1, <1>2 DEF Sorted

LEMMA PopFollows ==
    ASSUME NEW h \in Seq(Nat), NEW l \in Seq(Nat), NEW c \in Int,
           NEW n \in 0..Len(h), LeftAfterPop(h, n, c), Follows(h, l, c)
    PROVE  Follows(SubSeq(h, 1, n), l, c)
<1>1. /\ Len(SubSeq(h, 1, n)) = n
      /\ \A i \in 1..n : SubSeq(h, 1, n)[i] = h[i]
  BY KeepProperties
<1>2. Len(h) \in Nat /\ Len(l) \in Nat
  BY LenProperties
<1>3. \A i \in (n + 1)..Len(l) : l[i] <= c
  <2>. TAKE i \in (n + 1)..Len(l)
  <2>1. CASE i <= Len(h)
    BY <1>2, <2>1 DEF Follows, LeftAfterPop
  <2>2. CASE i > Len(h)
    BY <1>2, <2>2 DEF Follows
  <2>. QED
    BY <1>2, <2>1, <2>2
<1>. QED
  BY <1>1, <1>2, <1>3 DEF Follows

LEMMA FollowsNoOlder ==
    ASSUME NEW h \in Seq(Nat), NEW l \in Seq(Nat), NEW c, Follows(h, l, c)
    PROVE  NoOlder(h, l)
<1>1. /\ Len(h) \in Nat /\ Len(l) \in Nat
      /\ \A i \in 1..Len(h) : h[i] \in Nat
  BY LenProperties
<1>. QED
  BY <1>1 DEF Follows, NoOlder

\* A timestamp that is not before those of h is not before those of l either.
LEMMA FollowsBounded ==
    ASSUME NEW h \in Seq(Nat), NEW l \in Seq(Nat), NEW c \in Int, NEW x \in Nat,
           c <= x, Follows(h, l, c), \A i \in 1..Len(h) : h[i] <= x
    PROVE  \A i \in 1..Len(l) : l[i] <= x
<1>1. /\ Len(h) \in Nat /\ Len(l) \in Nat
      /\ \A i \in 1..Len(l) : l[i] \in Nat
  BY LenProperties
<1>. TAKE i \in 1..Len(l)
<1>2. CASE i <= Len(h)
  BY <1>1, <1>2 DEF Follows
<1>3. CASE i > Len(h)
  <2>1. i \in (Len(h) + 1)..Len(l)
    BY <1>1, <1>3
  <2>2. l[i] <= c
    BY <2>1 DEF Follows
  <2>. QED
    BY <1>1, <2>2
<1>. QED
  BY <1>1, <1>2, <1>3

LEMMA PushSorted ==
    ASSUME NEW h \in Seq(Nat), NEW x \in Nat, Sorted(h), \A i \in 1..Len(h) : h[i] <= x
    PROVE  Sorted(Push(x, h))
<1>1. /\ Push(x, h) \in Seq(Nat) /\ Len(Push(x, h)) = Len(h) + 1
      /\ Push(x, h)[1] = x
      /\ \A i \in 2..(Len(h) + 1) : Push(x, h)[i] = h[i - 1]
  BY PushProperties
<1>2. /\ DOMAIN Push(x, h) = 1..(Len(h) + 1) /\ DOMAIN h = 1..Len(h) /\ Len(h) \in Nat
      /\ \A i \in 1..Len(h) : h[i] \in Nat
  BY <1>1, LenProperties
<1>3. ASSUME NEW i \in 1..(Len(h) + 1), NEW j \in 1..(Len(h) + 1), i <= j
      PROVE  Push(x, h)[j] <= Push(x, h)[i]
  <2>1. CASE j = 1
    BY <1>1, <1>3, <2>1
  <2>2. CASE j > 1 /\ i = 1
    <3>1. Push(x, h)[j] = h[j - 1] /\ j - 1 \in 1..Len(h)
      BY <1>1, <1>2, <2>2
    <3>. QED
      BY <1>1, <3>1, <2>2
  <2>3. CASE i > 1
    <3>1. /\ Push(x, h)[j] = h[j - 1] /\ j - 1 \in 1..Len(h)
          /\ Push(x, h)[i] = h[i - 1] /\ i - 1 \in 1..Len(h)
      BY <1>1, <1>2, <1>3, <2>3
    <3>2. i - 1 <= j - 1
      BY <1>3
    <3>. QED
      BY <1>2, <3>1, <3>2 DEF Sorted
  <2>. QED
    BY <2>1, <2>2, <2>3
<1>. QED
  BY <1>2, <1>3 DEF Sorted

LEMMA PushFollows ==
    ASSUME NEW h \in Seq(Nat), NEW l \in Seq(Nat), NEW c \in Int, NEW x \in Nat,
           Follows(h, l, c)
    PROVE  Follows(Push(x, h), Push(x, l), c)
<1>1. /\ Len(Push(x, h)) = Len(h) + 1 /\ Push(x, h)[1] = x
      /\ \A i \in 2..(Len(h) + 1) : Push(x, h)[i] = h[i - 1]
      /\ Len(Push(x, l)) = Len(l) + 1 /\ Push(x, l)[1] = x
      /\ \A i \in 2..(Len(l) + 1) : Push(x, l)[i] = l[i - 1]
  BY PushProperties
<1>2. Len(h) \in Nat /\ Len(l) \in Nat /\ Len(h) <= Len(l)
  BY LenProperties DEF Follows
<1>3. ASSUME NEW i \in 1..(Len(h) + 1)
      PROVE  Push(x, h)[i] = Push(x, l)[i]
  <2>1. CASE i = 1
    BY <1>1, <2>1
  <2>2. CASE i > 1
    <3>1. i - 1 \in 1..Len(h) /\ Push(x, h)[i] = h[i - 1] /\ Push(x, l)[i] = l[i - 1]
      BY <1>1, <1>2, <2>2, SMTT(30)
    <3>. QED
      BY <3>1 DEF Follows
  <2>. QED
    BY <2>1, <2>2
<1>4. ASSUME NEW i \in (Len(h) + 2)..(Len(l) + 1)
      PROVE  Push(x, l)[i] <= c
  <2>1. i - 1 \in (Len(h) + 1)..Len(l) /\ Push(x, l)[i] = l[i - 1]
    BY <1>1, <1>2
  <2>. QED
    BY <2>1 DEF Follows
<1>. QED
  BY <1>1, <1>2, <1>3, <1>4 DEF Follows

LEMMA PushNoOlder ==
    ASSUME NEW h \in Seq(Nat), NEW l \in Seq(Nat), NEW x \in Nat,
           NoOlder(h, l), Sorted(l), \A i \in 1..Len(l) : l[i] <= x
    PROVE  NoOlder(h, Push(x, l))
<1>1. /\ Len(Push(x, l)) = Len(l) + 1 /\ Push(x, l)[1] = x
      /\ \A i \in 2..(Len(l) + 1) : Push(x, l)[i] = l[i - 1]
  BY PushProperties
<1>2. /\ Len(h) \in Nat /\ Len(l) \in Nat /\ Len(h) <= Len(l) /\ DOMAIN l = 1..Len(l)
      /\ \A i \in 1..Len(l) : l[i] \in Nat
      /\ \A i \in 1..Len(h) : h[i] \in Nat
  BY LenProperties DEF NoOlder
<1>3. ASSUME NEW i \in 1..Len(h)
      PROVE  h[i] <= Push(x, l)[i]
  <2>1. i \in 1..Len(l) /\ h[i] <= l[i]
    BY <1>2 DEF NoOlder
  <2>2. CASE i = 1
    BY <1>1, <1>2, <2>1, <2>2
  <2>3. CASE i > 1
    <3>1. i - 1 \in 1..Len(l) /\ Push(x, l)[i] = l[i - 1]
      BY <1>1, <1>2, <2>1, <2>3, SMTT(30)
    <3>2. l[i] <= l[i - 1]
      <4>1. i - 1 \in DOMAIN l /\ i \in DOMAIN l /\ i - 1 <= i
        BY <1>2, <2>1, <3>1
      <4>. QED
        BY <4>1 DEF Sorted
    <3>. QED
      BY <1>2, <2>1, <3>1, <3>2, SMTT(30)
  <2>. QED
    BY <2>2, <2>3
<1>. QED
  BY <1>1, <1>2, <1>3 DEF NoOlder

\* With fewer than n timestamps left in the window there is room for one more.
LEMMA PushSpaced ==
    ASSUME NEW h \in Seq(Nat), NEW l \in Seq(Nat), NEW n \in Nat, NEW d \in Nat, NEW x \in Nat,
           Len(h) < n, Follows(h, l, x - d), Spaced(l, n, d)
    PROVE  Spaced(Push(x, l), n, d)
<1>1. /\ Len(Push(x, l)) = Len(l) + 1 /\ Push(x, l)[1] = x
      /\ \A i \in 2..(Len(l) + 1) : Push(x, l)[i] = l[i - 1]
  BY PushProperties
<1>2. Len(h) \in Nat /\ Len(l) \in Nat
  BY LenProperties
<1>3. ASSUME NEW i \in 1..(Len(l) + 1), i + n <= Len(l) + 1
      PROVE  Push(x, l)[i + n] <= Push(x, l)[i] - d
  <2>1. Push(x, l)[i + n] = l[(i + n) - 1] /\ (i + n) - 1 \in 1..Len(l)
    BY <1>1, <1>2, <1>3
  <2>2. CASE i = 1
    <3>1. (i + n) - 1 \in (Len(h) + 1)..Len(l)
      BY <1>2, <1>3, <2>2
    <3>. QED
      BY <1>1, <2>1, <2>2, <3>1 DEF Follows
  <2>3. CASE i > 1
    <3>1. i - 1 \in 1..Len(l) /\ Push(x, l)[i] = l[i - 1] /\ (i - 1) + n = (i + n) - 1
      BY <1>1, <1>2, <2>3
    <3>2. l[(i - 1) + n] <= l[i - 1] - d
      <4>. DEFINE m == i - 1
      <4>1. m \in 1..Len(l) /\ m + n <= Len(l)
        BY <1>2, <1>3, <3>1
      <4>. HIDE DEF m
      <4>2. l[m + n] <= l[m] - d
        BY <4>1 DEF Spaced
      <4>. QED
        BY <4>2 DEF m
    <3>. QED
      BY <2>1, <3>1, <3>2
  <2>. QED
    BY <2>2, <2>3
<1>. QED
  BY <1>1, <1>2, <1>3 DEF Spaced

LEMMA FollowsLater ==
    ASSUME NEW h \in Seq(Nat), NEW l \in Seq(Nat), NEW c \in Int, NEW d \in Int,
           c <= d, Follows(h, l, c)
    PROVE  Follows(h, l, d)
<1>1. \A i \in 1..Len(l) : l[i] \in Nat
  BY LenProperties
<1>2. Len(h) \in Nat /\ Len(l) \in Nat
  BY LenProperties
<1>. QED
  BY <1>1, <1>2 DEF Follows

\* What cache.get returns is as good as the entry: when the timeout ran out, every
\* timestamp of the entry had left the window.
LEMMA CachedInv ==
    ASSUME WindowInv, NEW k \in Keys
    PROVE  /\ Cached(k) \in Seq(Nat)
           /\ Len(Cached(k)) <= MaxLimit(k[1])
           /\ Sorted(Cached(k))
           /\ \A i \in 1..Len(Cached(k)) : Cached(k)[i] <= now
           /\ k \notin tainted => Follows(Cached(k), log[k], now - Duration[k[1]])
<1>1. TypeOK /\ CacheInv(k)
  BY DEF WindowInv
<1>2. /\ cache[k].history \in Seq(Nat) /\ Len(cache[k].history) \in Nat
      /\ cache[k].expires \in Nat /\ now \in Nat
      /\ log[k] \in Seq(Nat) /\ Len(log[k]) \in Nat
      /\ Duration[k[1]] \in Nat \ {0} /\ MaxLimit(k[1]) \in Nat
  BY <1>1, KeyTypes
<1>3. CASE now < cache[k].expires
  BY <1>1, <1>3 , <1>2 DEF Cached, CacheInv
<1>4. CASE ~(now < cache[k].expires)
  <2>1. Cached(k) = <<>> /\ Len(<<>>) = 0 /\ <<>> \in Seq(Nat) /\ Sorted(<<>>)
    BY <1>4 DEF Cached, Sorted
  <2>2. ASSUME k \notin tainted
        PROVE  Follows(<<>>, log[k], now - Duration[k[1]])
    <3>1. \A i \in 1..Len(cache[k].history) : cache[k].history[i] <= now - Duration[k[1]]
      <4>. TAKE i \in 1..Len(cache[k].history)
      <4>1. cache[k].history[i] \in Nat
        BY <1>2, LenProperties
      <4>2. cache[k].history[i] <= cache[k].expires - Duration[k[1]]
        BY <1>1 DEF CacheInv
      <4>3. cache[k].expires <= now
        BY <1>2, <1>4
      <4>4. \A a, b, c, d \in Int : a <= b - d /\ b <= c => a <= c - d
        OBVIOUS
      <4>5. /\ cache[k].history[i] \in Int /\ cache[k].expires \in Int
            /\ now \in Int /\ Duration[k[1]] \in Int
        BY <1>2, <4>1
      <4>. QED
        BY <4>2, <4>3, <4>4, <4>5
    <3>2. Follows(cache[k].history, log[k], now - Duration[k[1]])
      BY <1>1, <2>2 DEF CacheInv
    <3>3. \A i \in 1..Len(log[k]) : log[k][i] <= now - Duration[k[1]]
      <4>. TAKE i \in 1..Len(log[k])
      <4>1. CASE i <= Len(cache[k].history)
        BY <3>1, <3>2, <1>2, <4>1 DEF Follows
      <4>2. CASE i > Len(cache[k].history)
        BY <3>2, <1>2, <4>2 DEF Follows
      <4>. QED
        BY <4>1, <4>2, <1>2
    <3>. QED
      BY <3>3, <1>2 DEF Follows
  <2>3. \A i \in 1..Len(<<>>) : <<>>[i] <= now
    BY <2>1
  <2>. QED
    BY <2>1, <2>2, <2>3, <1>2
<1>. QED
  BY <1>3, <1>4

(***************************************************************************)
(* The invariant is inductive: one lemma per action.                        *)
(***************************************************************************)
LEMMA WindowInit == Init => WindowInv
<1>. SUFFICES ASSUME Init PROVE WindowInv
  OBVIOUS
<1>1. TypeOK
  BY TypeInit
<1>2. ASSUME NEW k \in Keys
      PROVE  CacheInv(k) /\ LogInv(k) /\ PromiseInv(k)
  <2>1. /\ cache[k].history = <<>> /\ cache[k].expires = 0 /\ log[k] = <<>>
        /\ promise[k] = NoPromise
    BY <1>2 DEF Init, Absent
  <2>2. Len(<<>>) = 0 /\ DOMAIN <<>> = {}
    OBVIOUS
  <2>3. MaxLimit(k[1]) \in Nat
    BY <1>1, KeyTypes
  <2>. QED
    BY <2>1, <2>2, <2>3 DEF CacheInv, LogInv, PromiseInv, Sorted, Follows, Spaced
<1>3. ASSUME NEW w \in Workers
      PROVE  DecideInv(w) /\ StoreInv(w) /\ WaitInv(w)
  <2>1. job[w].pc = "idle" /\ job[w].wait = NoWait
    BY DEF Init, Idle
  <2>. QED
    BY <2>1 DEF DecideInv, StoreInv, WaitInv
<1>. QED
  BY <1>1, <1>2, <1>3 DEF WindowInv

LEMMA WindowTick == WindowInv /\ TypeOK' /\ Tick => WindowInv'
<1>. SUFFICES ASSUME WindowInv, TypeOK', Tick PROVE WindowInv'
  OBVIOUS
<1>1. TypeOK /\ now' = now + 1 /\ now \in Nat
  BY DEF WindowInv, Tick, TypeOK
<1>2. /\ cache' = cache /\ limits' = limits /\ job' = job /\ log' = log
      /\ tainted' = tainted /\ promise' = promise
  BY DEF Tick
<1>3. ASSUME NEW k \in Keys
      PROVE  CacheInv(k)' /\ LogInv(k)' /\ PromiseInv(k)'
  <2>1. CacheInv(k) /\ LogInv(k) /\ PromiseInv(k)
    BY DEF WindowInv
  <2>2. /\ cache[k].history \in Seq(Nat) /\ log[k] \in Seq(Nat)
        /\ Duration[k[1]] \in Nat
        /\ \A i \in 1..Len(cache[k].history) : cache[k].history[i] \in Nat
        /\ \A i \in 1..Len(log[k]) : log[k][i] \in Nat
    BY <1>1, KeyTypes, LenProperties
  <2>3. k \notin tainted => Follows(cache[k].history, log[k], now' - Duration[k[1]])
    BY <1>1, <2>1, <2>2, FollowsLater DEF CacheInv
  <2>4. /\ \A i \in 1..Len(cache[k].history) : cache[k].history[i] <= now'
        /\ \A i \in 1..Len(log[k]) : log[k][i] <= now'
    <3>1. ASSUME NEW i \in 1..Len(cache[k].history)
          PROVE  cache[k].history[i] <= now'
      <4>1. cache[k].history[i] \in Nat /\ cache[k].history[i] <= now
        BY <2>1, <2>2 DEF CacheInv
      <4>. QED
        BY <1>1, <4>1
    <3>2. ASSUME NEW i \in 1..Len(log[k])
          PROVE  log[k][i] <= now'
      <4>1. log[k][i] \in Nat /\ log[k][i] <= now
        BY <2>1, <2>2 DEF LogInv
      <4>. QED
        BY <1>1, <4>1
    <3>. QED
      BY <3>1, <3>2
  <2>5. CacheInv(k)'
    BY <1>2, <2>1, <2>3, <2>4 DEF CacheInv
  <2>6. LogInv(k)' /\ PromiseInv(k)'
    BY <1>2, <2>1, <2>4 DEF LogInv, PromiseInv
  <2>. QED
    BY <2>5, <2>6
<1>4. ASSUME NEW w \in Workers
      PROVE  DecideInv(w)' /\ StoreInv(w)' /\ WaitInv(w)'
  <2>1. DecideInv(w) /\ StoreInv(w) /\ WaitInv(w)
    BY DEF WindowInv
  <2>2. /\ job[w].history \in Seq(Nat) /\ job[w].stamp \in Nat
        /\ \A i \in 1..Len(job[w].history) : job[w].history[i] \in Nat
    BY <1>1, JobTypes, LenProperties
  <2>3. ASSUME job[w].pc = "decide"
        PROVE  DecideInv(w)'
    <3>1. Key(w) \in Keys /\ Duration[Throttle(w)] \in Nat /\ log[Key(w)] \in Seq(Nat)
      BY <1>1, <2>3, KeyType, KeyTypes
    <3>2. Key(w) \notin tainted /\ ~job[w].stale =>
             Follows(job[w].history, log[Key(w)], now' - Duration[Throttle(w)])
      BY <1>1, <2>1, <2>2, <2>3, <3>1, FollowsLater DEF DecideInv
    <3>3. \A i \in 1..Len(job[w].history) : job[w].history[i] <= now'
      BY <1>1, <2>1, <2>2, <2>3 DEF DecideInv
    <3>. QED
      BY <1>2, <2>1, <3>2, <3>3 DEF DecideInv, Key, Throttle
  <2>4. StoreInv(w)'
    BY <1>1, <1>2, <2>1, <2>2 DEF StoreInv, Key, Throttle
  <2>. QED
    BY <1>2, <2>1, <2>3, <2>4 DEF DecideInv, WaitInv
<1>. QED
  BY <1>3, <1>4 DEF WindowInv

LEMMA KeepsKeys ==
    ASSUME WindowInv, UNCHANGED <<now, cache, log, tainted, promise>>, NEW k \in Keys
    PROVE  CacheInv(k)' /\ LogInv(k)' /\ PromiseInv(k)'
<1>1. CacheInv(k) /\ LogInv(k) /\ PromiseInv(k)
  BY DEF WindowInv
<1>. QED
  BY <1>1 DEF CacheInv, LogInv, PromiseInv

LEMMA KeepsWorker ==
    ASSUME WindowInv, UNCHANGED <<now, log, tainted>>, NEW w \in Workers, job'[w] = job[w]
    PROVE  DecideInv(w)' /\ StoreInv(w)' /\ WaitInv(w)'
<1>1. DecideInv(w) /\ StoreInv(w) /\ WaitInv(w)
  BY DEF WindowInv
<1>. QED
  BY <1>1 DEF DecideInv, StoreInv, WaitInv, Key, Throttle

\* A worker that is not between cache.get and cache.set owes nothing but its wait.
LEMMA OutsideWorker ==
    ASSUME NEW w \in Workers, job'[w].pc \notin {"decide", "store"},
           \/ job'[w].wait = NoWait
           \/ \E t \in Throttles : job'[w].wait \in 1..Duration[t]
    PROVE  DecideInv(w)' /\ StoreInv(w)' /\ WaitInv(w)'
  BY DEF DecideInv, StoreInv, WaitInv

LEMMA WindowBegin ==
    ASSUME WindowInv, TypeOK', NEW w \in Workers, NEW c \in Clients, NEW v \in Views,
           Begin(w, c, v)
    PROVE  WindowInv'
<1>1. \A k \in Keys : CacheInv(k)' /\ LogInv(k)' /\ PromiseInv(k)'
  BY KeepsKeys DEF Begin
<1>2. TypeOK
  BY DEF WindowInv
<1>3. job'[w].pc \notin {"decide", "store"} /\ job'[w].wait = NoWait
  BY <1>2 DEF Begin, Idle, TypeOK
<1>4. ASSUME NEW u \in Workers
      PROVE  DecideInv(u)' /\ StoreInv(u)' /\ WaitInv(u)'
  <2>1. CASE u = w
    BY <1>3, <2>1, OutsideWorker
  <2>2. CASE u # w
    BY <1>2, <2>2, KeepsWorker DEF Begin, TypeOK
  <2>. QED
    BY <2>1, <2>2
<1>. QED
  BY <1>1, <1>4 DEF WindowInv

LEMMA WindowSkip ==
    ASSUME WindowInv, TypeOK', NEW w \in Workers, Skip(w)
    PROVE  WindowInv'
<1>1. \A k \in Keys : CacheInv(k)' /\ LogInv(k)' /\ PromiseInv(k)'
  BY KeepsKeys DEF Skip
<1>2. TypeOK /\ WaitInv(w) /\ job[w].pc = "fetch"
  BY DEF WindowInv, Skip
<1>3. job[w] \in Jobs /\ job[w].todo # <<>> /\ job'[w] = Advance(job[w])
  BY <1>2 DEF Skip, TypeOK
<1>4. job'[w].pc \notin {"decide", "store"} /\ job'[w].wait = job[w].wait
  BY <1>3, AdvanceType
<1>5. ASSUME NEW u \in Workers
      PROVE  DecideInv(u)' /\ StoreInv(u)' /\ WaitInv(u)'
  <2>1. CASE u = w
    BY <1>2, <1>4, <2>1, OutsideWorker DEF WaitInv
  <2>2. CASE u # w
    BY <1>2, <2>2, KeepsWorker DEF Skip, TypeOK
  <2>. QED
    BY <2>1, <2>2
<1>. QED
  BY <1>1, <1>5 DEF WindowInv

LEMMA WindowFetch ==
    ASSUME WindowInv, TypeOK', NEW w \in Workers, Fetch(w)
    PROVE  WindowInv'
<1>1. \A k \in Keys : CacheInv(k)' /\ LogInv(k)' /\ PromiseInv(k)'
  BY KeepsKeys DEF Fetch
<1>2. TypeOK /\ WaitInv(w) /\ job[w].pc = "fetch"
  BY DEF WindowInv, Fetch
<1>3. job[w] \in Jobs /\ job'[w] = [job[w] EXCEPT !.pc = "decide", !.history = Cached(Key(w))]
  BY <1>2 DEF Fetch, TypeOK
<1>4. /\ job'[w].pc = "decide" /\ job'[w].history = Cached(Key(w))
      /\ job'[w].wait = job[w].wait /\ job'[w].todo = job[w].todo
      /\ job'[w].client = job[w].client
  BY <1>3 DEF Jobs
<1>5. Key(w) \in Keys /\ Key(w)[1] = Throttle(w) /\ Throttle(w)' = Throttle(w) /\ Key(w)' = Key(w)
  BY <1>2, <1>4, KeyType DEF Key, Throttle
<1>6. /\ Cached(Key(w)) \in Seq(Nat)
      /\ log[Key(w)] \in Seq(Nat)
      /\ Len(Cached(Key(w))) <= MaxLimit(Throttle(w))
      /\ Sorted(Cached(Key(w)))
      /\ \A i \in 1..Len(Cached(Key(w))) : Cached(Key(w))[i] <= now
      /\ Key(w) \notin tainted =>
            Follows(Cached(Key(w)), log[Key(w)], now - Duration[Throttle(w)])
  BY <1>2, <1>5, CachedInv, KeyTypes
<1>7. Key(w) \notin tainted => NoOlder(Cached(Key(w)), log[Key(w)])
  BY <1>6, FollowsNoOlder
<1>8. DecideInv(w)'
  BY <1>4, <1>5, <1>6, <1>7 DEF DecideInv, Fetch
<1>9. StoreInv(w)' /\ WaitInv(w)'
  BY <1>2, <1>4 DEF StoreInv, WaitInv
<1>10. ASSUME NEW u \in Workers, u # w
       PROVE  DecideInv(u)' /\ StoreInv(u)' /\ WaitInv(u)'
  BY <1>2, <1>10, KeepsWorker DEF Fetch, TypeOK
<1>. QED
  BY <1>1, <1>8, <1>9, <1>10 DEF WindowInv

LEMMA WindowAdmit ==
    ASSUME WindowInv, TypeOK', NEW w \in Workers, Admit(w)
    PROVE  WindowInv'
<1>1. \A k \in Keys : CacheInv(k)' /\ LogInv(k)' /\ PromiseInv(k)'
  BY KeepsKeys DEF Admit
<1>2. TypeOK /\ DecideInv(w) /\ WaitInv(w) /\ job[w].pc = "decide"
  BY DEF WindowInv, Admit
<1>3. job[w] \in Jobs /\ now \in Nat
  BY <1>2 DEF TypeOK
<1>4. PICK n \in 0..Len(job[w].history) :
        /\ LeftAfterPop(job[w].history, n, now - Duration[Throttle(w)])
        /\ n < Limit(w)
        /\ job'[w] = [job[w] EXCEPT !.pc = "store", !.stamp = now,
                                    !.history = SubSeq(job[w].history, 1, n)]
  BY <1>2 DEF Admit, TypeOK
<1>. DEFINE h == SubSeq(job[w].history, 1, n)
<1>5. /\ job'[w].pc = "store" /\ job'[w].history = h /\ job'[w].stamp = now
      /\ job'[w].wait = job[w].wait /\ job'[w].todo = job[w].todo
      /\ job'[w].client = job[w].client /\ job'[w].stale = job[w].stale
  BY <1>3, <1>4 DEF Jobs
<1>6. /\ Key(w) \in Keys /\ Key(w)[1] = Throttle(w)
      /\ Throttle(w)' = Throttle(w) /\ Key(w)' = Key(w)
      /\ Duration[Throttle(w)] \in Nat /\ MaxLimit(Throttle(w)) \in Nat
      /\ Limit(w) \in Nat /\ Limit(w) <= MaxLimit(Throttle(w))
  BY <1>2, <1>5, KeyType, ConfigurationTypes DEF Key, Throttle
<1>7. /\ job[w].history \in Seq(Nat) /\ log[Key(w)] \in Seq(Nat)
      /\ h \in Seq(Nat) /\ Len(h) = n
      /\ \A i \in 1..n : h[i] = job[w].history[i]
  BY <1>2, <1>6, JobTypes, KeyTypes, KeepProperties
<1>8. Sorted(h)
  BY <1>2, <1>7, PopSorted DEF DecideInv
<1>9. Key(w) \notin tainted /\ ~job[w].stale =>
        Follows(h, log[Key(w)], now - Duration[Throttle(w)])
  <2>1. now - Duration[Throttle(w)] \in Int
    BY <1>3, <1>6
  <2>2. Key(w) \notin tainted /\ ~job[w].stale =>
          Follows(job[w].history, log[Key(w)], now - Duration[Throttle(w)])
    BY <1>2 DEF DecideInv
  <2>. QED
    BY <1>4, <1>7, <2>1, <2>2, PopFollows
<1>10. \A i \in 1..n : h[i] <= now
  BY <1>2, <1>7, LenProperties DEF DecideInv
<1>11. n < MaxLimit(Throttle(w)) /\ now <= now
  BY <1>3, <1>4, <1>6
<1>12. UNCHANGED <<now, log, tainted>>
  BY DEF Admit
<1>13. DecideInv(w)' /\ StoreInv(w)' /\ WaitInv(w)'
  <2>. HIDE DEF h
  <2>. QED
    BY <1>2, <1>5, <1>6, <1>7, <1>8, <1>9, <1>10, <1>11, <1>12
       DEF DecideInv, StoreInv, WaitInv
<1>14. ASSUME NEW u \in Workers, u # w
       PROVE  DecideInv(u)' /\ StoreInv(u)' /\ WaitInv(u)'
  BY <1>2, <1>14, KeepsWorker DEF Admit, TypeOK
<1>. QED
  BY <1>1, <1>13, <1>14 DEF WindowInv

\* A worker that refuses found the window full.
LEMMA FullWindow ==
    ASSUME WindowInv, NEW w \in Workers, Refuse(w)
    PROVE  \E n \in 0..Len(job[w].history) :
             LET h == SubSeq(job[w].history, 1, n)
                 wait == Wait(h, now, Limit(w), Duration[Throttle(w)])
             IN  /\ n >= Limit(w)
                 /\ n > 0 => job[w].history[n] > now - Duration[Throttle(w)]
                 /\ wait # NoWait => /\ n = Limit(w)
                                     /\ wait \in 1..Duration[Throttle(w)]
                                     /\ n > 0 => now + wait = job[w].history[n]
                                                             + Duration[Throttle(w)]
                 /\ job' = [job EXCEPT ![w] =
                      Advance([job[w] EXCEPT !.refused = TRUE,
                                             !.wait = Longer(wait, job[w].wait)])]
                 /\ promise' = [promise EXCEPT ![Key(w)] =
                      IF wait = NoWait \/ job[w].stale THEN NoPromise
                      ELSE [at |-> now + wait, limit |-> Limit(w)]]
<1>1. TypeOK /\ DecideInv(w) /\ job[w].pc = "decide"
  BY DEF WindowInv, Refuse
<1>2. PICK n \in 0..Len(job[w].history) :
        LET h == SubSeq(job[w].history, 1, n)
            wait == Wait(h, now, Limit(w), Duration[Throttle(w)])
        IN  /\ LeftAfterPop(job[w].history, n, now - Duration[Throttle(w)])
            /\ n >= Limit(w)
            /\ job' = [job EXCEPT ![w] =
                 Advance([job[w] EXCEPT !.refused = TRUE,
                                        !.wait = Longer(wait, job[w].wait)])]
            /\ promise' = [promise EXCEPT ![Key(w)] =
                 IF wait = NoWait \/ job[w].stale THEN NoPromise
                 ELSE [at |-> now + wait, limit |-> Limit(w)]]
  BY DEF Refuse
<1>. DEFINE h == SubSeq(job[w].history, 1, n)
            wait == Wait(h, now, Limit(w), Duration[Throttle(w)])
<1>3. /\ Duration[Throttle(w)] \in Nat \ {0} /\ Limit(w) \in Nat /\ now \in Nat
  BY <1>1, KeyType DEF TypeOK
<1>4. /\ h \in Seq(Nat) /\ Len(h) = n /\ Len(job[w].history) \in Nat
      /\ \A i \in 1..n : h[i] = job[w].history[i] /\ h[i] \in Nat
  BY <1>1, JobTypes, KeepProperties, LenProperties, ZenonT(30)
<1>5. n > 0 => /\ job[w].history[n] > now - Duration[Throttle(w)]
               /\ job[w].history[n] <= now
  BY <1>1, <1>2, <1>4 DEF LeftAfterPop, DecideInv
<1>6. /\ Len(h) >= Limit(w)
      /\ Len(h) > 0 => h[Len(h)] > now - Duration[Throttle(w)] /\ h[Len(h)] <= now
  BY <1>2, <1>4, <1>5
<1>7. wait # NoWait => /\ Len(h) = Limit(w)
                       /\ wait \in 1..Duration[Throttle(w)]
                       /\ Limit(w) > 0 => now + wait = h[Limit(w)] + Duration[Throttle(w)]
  <2>1. ASSUME NEW g \in Seq(Nat), NEW d \in Nat \ {0},
               Len(g) >= Limit(w),
               Len(g) > 0 => g[Len(g)] > now - d /\ g[Len(g)] <= now,
               Wait(g, now, Limit(w), d) # NoWait
        PROVE  /\ Len(g) = Limit(w)
               /\ Wait(g, now, Limit(w), d) \in 1..d
               /\ Limit(w) > 0 => now + Wait(g, now, Limit(w), d) = g[Limit(w)] + d
    BY <1>3, <2>1, WaitWhenFull
  <2>. HIDE DEF h
  <2>. QED
    BY <1>3, <1>4, <1>6, <2>1
<1>8. wait # NoWait => /\ n = Limit(w)
                       /\ wait \in 1..Duration[Throttle(w)]
                       /\ n > 0 => now + wait = job[w].history[n] + Duration[Throttle(w)]
  <2>. HIDE DEF h, wait
  <2>. QED
    BY <1>4, <1>7
<1>. QED
  BY <1>2, <1>5, <1>8

LEMMA WindowRefuse ==
    ASSUME WindowInv, TypeOK', NEW w \in Workers, Refuse(w)
    PROVE  WindowInv'
<1>1. /\ TypeOK /\ DecideInv(w) /\ WaitInv(w) /\ job[w].pc = "decide"
      /\ UNCHANGED <<now, cache, limits, log, tainted>>
  BY DEF WindowInv, Refuse
<1>2. PICK n \in 0..Len(job[w].history), wait \in Int :
        /\ n >= Limit(w)
        /\ wait # NoWait => /\ n = Limit(w)
                            /\ wait \in 1..Duration[Throttle(w)]
                            /\ n > 0 => now + wait = job[w].history[n] + Duration[Throttle(w)]
        /\ job' = [job EXCEPT ![w] =
             Advance([job[w] EXCEPT !.refused = TRUE,
                                    !.wait = Longer(wait, job[w].wait)])]
        /\ promise' = [promise EXCEPT ![Key(w)] =
             IF wait = NoWait \/ job[w].stale THEN NoPromise
             ELSE [at |-> now + wait, limit |-> Limit(w)]]
  <2>1. \A n \in 0..Len(job[w].history) :
          Wait(SubSeq(job[w].history, 1, n), now, Limit(w), Duration[Throttle(w)]) \in Int
    <3>. TAKE n \in 0..Len(job[w].history)
    <3>1. SubSeq(job[w].history, 1, n) \in Seq(Nat)
      BY <1>1, JobTypes, KeepProperties
    <3>2. Duration[Throttle(w)] \in Nat /\ Limit(w) \in Nat /\ now \in Nat
      BY <1>1, KeyType DEF TypeOK
    <3>. QED
      BY <3>1, <3>2, WaitType
  <2>. QED
    BY <2>1, FullWindow
<1>3. /\ Key(w) \in Keys /\ Key(w)[1] = Throttle(w) /\ Throttle(w) \in Throttles
      /\ Limit(w) \in Nat /\ Duration[Throttle(w)] \in Nat
  BY <1>1, KeyType
<1>4. /\ job[w] \in Jobs /\ job[w].todo # <<>> /\ job[w].history \in Seq(Nat)
      /\ Len(job[w].history) \in Nat /\ job[w].wait \in Int
      /\ \A i \in 1..Len(job[w].history) : job[w].history[i] \in Nat
  BY <1>1, JobTypes, LenProperties DEF TypeOK
<1>5. /\ job'[w].pc \notin {"decide", "store"}
      /\ job'[w].wait = Longer(wait, job[w].wait)
  <2>. DEFINE j == [job[w] EXCEPT !.refused = TRUE, !.wait = Longer(wait, job[w].wait)]
  <2>1. j \in Jobs /\ j.todo # <<>> /\ j.wait = Longer(wait, job[w].wait)
    BY <1>2, <1>4 DEF Jobs, Longer
  <2>2. job'[w] = Advance(j)
    BY <1>1, <1>2 DEF TypeOK
  <2>. QED
    BY <2>1, <2>2, AdvanceType
<1>6. DecideInv(w)' /\ StoreInv(w)' /\ WaitInv(w)'
  <2>1. wait # NoWait => \E t \in Throttles : wait \in 1..Duration[t]
    BY <1>2, <1>3
  <2>. QED
    BY <1>1, <1>5, <2>1, OutsideWorker DEF WaitInv, Longer
<1>7. ASSUME NEW u \in Workers, u # w
      PROVE  DecideInv(u)' /\ StoreInv(u)' /\ WaitInv(u)'
  BY <1>1, <1>2, <1>7, KeepsWorker DEF TypeOK
<1>8. ASSUME NEW k \in Keys
      PROVE  CacheInv(k)' /\ LogInv(k)'
  <2>1. CacheInv(k) /\ LogInv(k)
    BY DEF WindowInv
  <2>. QED
    BY <1>1, <2>1 DEF CacheInv, LogInv
<1>9. ASSUME NEW k \in Keys, k = Key(w)
      PROVE  PromiseInv(k)'
  <2>. SUFFICES ASSUME promise'[k] # NoPromise, promise'[k].limit > 0, k \notin tainted
                PROVE  /\ promise'[k].limit <= Len(log[k])
                       /\ log[k][promise'[k].limit] + Duration[k[1]] = promise'[k].at
    BY <1>1 DEF PromiseInv
  <2>1. /\ wait # NoWait /\ ~job[w].stale
        /\ promise'[k] = [at |-> now + wait, limit |-> Limit(w)]
    BY <1>1, <1>2, <1>3, <1>9 DEF TypeOK
  <2>2. n = Limit(w) /\ n > 0 /\ now + wait = job[w].history[n] + Duration[Throttle(w)]
    BY <1>2, <1>3, <2>1
  <2>3. Follows(job[w].history, log[k], now - Duration[Throttle(w)])
    BY <1>1, <1>9, <2>1 DEF DecideInv
  <2>4. n <= Len(log[k]) /\ job[w].history[n] = log[k][n]
    <3>1. Len(log[k]) \in Nat
      BY <1>1, KeyTypes
    <3>. QED
      BY <1>4, <2>2, <2>3, <3>1 DEF Follows
  <2>. QED
    BY <1>3, <1>9, <2>1, <2>2, <2>4
<1>10. ASSUME NEW k \in Keys, k # Key(w)
       PROVE  PromiseInv(k)'
  <2>1. PromiseInv(k) /\ promise'[k] = promise[k]
    BY <1>1, <1>2, <1>10 DEF WindowInv, TypeOK
  <2>. QED
    BY <1>1, <2>1 DEF PromiseInv
<1>. QED
  BY <1>6, <1>7, <1>8, <1>9, <1>10 DEF WindowInv

LEMMA WindowStore ==
    ASSUME WindowInv, TypeOK', NEW w \in Workers, Store(w)
    PROVE  WindowInv'
<1>. DEFINE K == Key(w)
            D == Duration[Throttle(w)]
            M == MaxLimit(Throttle(w))
            h == job[w].history
            x == job[w].stamp
            l == log[K]
<1>1. /\ TypeOK /\ StoreInv(w) /\ WaitInv(w) /\ job[w].pc = "store"
      /\ now' = now /\ limits' = limits
  BY DEF WindowInv, Store
<1>2. /\ K \in Keys /\ K[1] = Throttle(w) /\ D \in Nat \ {0} /\ M \in Nat
      /\ h \in Seq(Nat) /\ x \in Nat /\ l \in Seq(Nat) /\ now \in Nat
      /\ Len(h) \in Nat /\ Len(l) \in Nat
  BY <1>1, KeyType, KeyTypes, JobTypes
<1>3. /\ Len(h) < M /\ Sorted(h) /\ x <= now
      /\ \A i \in 1..Len(h) : h[i] \in Nat /\ h[i] <= x
      /\ K \notin tainted /\ ~job[w].stale => Follows(h, l, x - D)
  BY <1>1, <1>2, LenProperties DEF StoreInv
<1>4. /\ cache'[K] = [history |-> Push(x, h), expires |-> now + D]
      /\ log'[K] = Push(x, l)
      /\ promise'[K] = NoPromise
      /\ \A k \in Keys : k # K => /\ cache'[k] = cache[k] /\ log'[k] = log[k]
                                  /\ promise'[k] = promise[k]
      /\ tainted' = IF job[w].stale THEN tainted \cup {K} ELSE tainted
  BY <1>1, <1>2 DEF Store, TypeOK
<1>5. LogInv(K) /\ \A i \in 1..Len(l) : l[i] \in Nat /\ l[i] <= now
  BY <1>1, <1>2, LenProperties DEF WindowInv, LogInv
<1>6. ASSUME K \notin tainted, ~job[w].stale
      PROVE  \A i \in 1..Len(l) : l[i] <= x
  <2>1. x - D \in Int /\ x - D <= x
    BY <1>2
  <2>. HIDE DEF K, D, M, h, x, l
  <2>. QED
    BY <1>2, <1>3, <1>6, <2>1, FollowsBounded
<1>7. /\ Push(x, h) \in Seq(Nat) /\ Len(Push(x, h)) = Len(h) + 1
      /\ \A i \in 1..(Len(h) + 1) : Push(x, h)[i] <= now
      /\ Sorted(Push(x, h))
  <2>. HIDE DEF K, D, M, h, x, l
  <2>1. /\ Push(x, h) \in Seq(Nat) /\ Len(Push(x, h)) = Len(h) + 1 /\ Push(x, h)[1] = x
        /\ \A i \in 2..(Len(h) + 1) : Push(x, h)[i] = h[i - 1]
    BY <1>2, PushProperties
  <2>2. ASSUME NEW i \in 2..(Len(h) + 1)
        PROVE  Push(x, h)[i] <= now
    <3>1. i - 1 \in 1..Len(h) /\ Push(x, h)[i] = h[i - 1]
      BY <1>2, <2>1
    <3>2. h[i - 1] \in Nat /\ h[i - 1] <= x
      BY <1>3, <3>1
    <3>. QED
      BY <1>2, <1>3, <3>1, <3>2
  <2>3. Sorted(Push(x, h))
    BY <1>2, <1>3, PushSorted
  <2>. QED
    BY <1>2, <1>3, <2>1, <2>2, <2>3
<1>8. /\ Push(x, l) \in Seq(Nat) /\ Len(Push(x, l)) = Len(l) + 1
      /\ \A i \in 1..(Len(l) + 1) : Push(x, l)[i] <= now
  <2>. HIDE DEF K, D, M, h, x, l
  <2>1. /\ Push(x, l) \in Seq(Nat) /\ Len(Push(x, l)) = Len(l) + 1 /\ Push(x, l)[1] = x
        /\ \A i \in 2..(Len(l) + 1) : Push(x, l)[i] = l[i - 1]
    BY <1>2, PushProperties
  <2>2. ASSUME NEW i \in 2..(Len(l) + 1)
        PROVE  Push(x, l)[i] <= now
    <3>1. i - 1 \in 1..Len(l) /\ Push(x, l)[i] = l[i - 1]
      BY <1>2, <2>1
    <3>. QED
      BY <1>5, <3>1
  <2>. QED
    BY <1>2, <1>3, <2>1, <2>2
<1>9. ASSUME NEW k \in Keys, k = K
      PROVE  CacheInv(k)' /\ LogInv(k)' /\ PromiseInv(k)'
  <2>1. ASSUME k \notin tainted'
        PROVE  /\ Follows(Push(x, h), Push(x, l), now - D)
               /\ Sorted(Push(x, l))
               /\ Spaced(Push(x, l), M, D)
    <3>1. K \notin tainted /\ ~job[w].stale
      BY <1>1, <1>2, <1>4, <1>9, <2>1, JobTypes
    <3>2. Follows(h, l, x - D) /\ Sorted(l) /\ Spaced(l, M, D)
      BY <1>2, <1>3, <1>5, <3>1 DEF LogInv
    <3>3. x - D \in Int /\ now - D \in Int /\ x - D <= now - D
      BY <1>2, <1>3
    <3>. HIDE DEF K, D, M, h, x, l
    <3>4. Follows(Push(x, h), Push(x, l), x - D)
      BY <1>2, <3>2, <3>3, PushFollows
    <3>5. Follows(Push(x, h), Push(x, l), now - D)
      BY <1>7, <1>8, <3>3, <3>4, FollowsLater
    <3>6. Sorted(Push(x, l))
      BY <1>2, <1>6, <3>1, <3>2, PushSorted
    <3>7. Spaced(Push(x, l), M, D)
      BY <1>2, <1>3, <3>2, PushSpaced
    <3>. QED
      BY <3>5, <3>6, <3>7
  <2>2. (now + D) - D = now
    BY <1>2
  <2>3. Len(h) + 1 <= M
    BY <1>2, <1>3
  <2>. HIDE DEF D, M, h, x, l
  <2>4. CacheInv(k)'
    <3>1. /\ cache'[k].history = Push(x, h) /\ cache'[k].expires = now + D
          /\ log'[k] = Push(x, l) /\ Duration[k[1]] = D /\ MaxLimit(k[1]) = M
      BY <1>2, <1>4, <1>9 DEF D, M, h, x, l
    <3>. QED
      BY <1>1, <1>7, <2>1, <2>2, <2>3, <3>1 DEF CacheInv
  <2>5. LogInv(k)'
    <3>1. log'[k] = Push(x, l) /\ Duration[k[1]] = D /\ MaxLimit(k[1]) = M
      BY <1>2, <1>4, <1>9 DEF D, M, h, x, l
    <3>. QED
      BY <1>1, <1>8, <2>1, <3>1 DEF LogInv
  <2>6. PromiseInv(k)'
    BY <1>4, <1>9 DEF PromiseInv
  <2>. QED
    BY <2>4, <2>5, <2>6
<1>10. ASSUME NEW k \in Keys, k # K
       PROVE  CacheInv(k)' /\ LogInv(k)' /\ PromiseInv(k)'
  <2>1. CacheInv(k) /\ LogInv(k) /\ PromiseInv(k)
    BY DEF WindowInv
  <2>2. k \notin tainted' <=> k \notin tainted
    BY <1>4, <1>10
  <2>3. cache'[k] = cache[k] /\ log'[k] = log[k] /\ promise'[k] = promise[k]
    BY <1>4, <1>10
  <2>. HIDE DEF K, D, M, h, x, l
  <2>. QED
    BY <1>1, <2>1, <2>2, <2>3 DEF CacheInv, LogInv, PromiseInv
<1>11. ASSUME NEW u \in Workers, u = w
       PROVE  DecideInv(u)' /\ StoreInv(u)' /\ WaitInv(u)'
  <2>1. job[w] \in Jobs /\ job[w].todo # <<>> /\ job'[w] = Advance(job[w])
    BY <1>1 DEF Store, TypeOK
  <2>2. job'[w].pc \notin {"decide", "store"} /\ job'[w].wait = job[w].wait
    BY <2>1, AdvanceType
  <2>. QED
    BY <1>1, <1>11, <2>2, OutsideWorker DEF WaitInv
<1>12. ASSUME NEW u \in Workers, u # w
       PROVE  DecideInv(u)' /\ StoreInv(u)' /\ WaitInv(u)'
  <2>1. DecideInv(u) /\ StoreInv(u) /\ WaitInv(u) /\ job[u] \in Jobs
    BY <1>1 DEF WindowInv, TypeOK
  <2>2. job'[u] = IF job[u].pc \in {"decide", "store"} /\ Key(u) = K
                  THEN [job[u] EXCEPT !.stale = TRUE] ELSE job[u]
    BY <1>12 DEF Store
  <2>3. /\ job'[u].pc = job[u].pc /\ job'[u].history = job[u].history
        /\ job'[u].stamp = job[u].stamp /\ job'[u].wait = job[u].wait
        /\ job'[u].todo = job[u].todo /\ job'[u].client = job[u].client
    BY <2>1, <2>2 DEF Jobs
  <2>4. Key(u)' = Key(u) /\ Throttle(u)' = Throttle(u)
    BY <2>3 DEF Key, Throttle
  <2>5. CASE job[u].pc \notin {"decide", "store"}
    BY <2>1, <2>3, <2>5 DEF DecideInv, StoreInv, WaitInv
  <2>6. CASE job[u].pc \in {"decide", "store"} /\ Key(u) # K
    <3>1. Key(u) \in Keys /\ job'[u].stale = job[u].stale
      BY <1>1, <2>2, <2>6, KeyType
    <3>2. log'[Key(u)] = log[Key(u)] /\ (Key(u) \notin tainted' <=> Key(u) \notin tainted)
      BY <1>4, <2>6, <3>1
    <3>. HIDE DEF K, D, M, h, x, l
    <3>. QED
      BY <1>1, <2>1, <2>3, <2>4, <3>1, <3>2 DEF DecideInv, StoreInv, WaitInv
  <2>7. CASE job[u].pc \in {"decide", "store"} /\ Key(u) = K
    <3>1. job'[u].stale = TRUE
      BY <2>1, <2>2, <2>7 DEF Jobs
    <3>2. ASSUME job[u].pc = "decide", K \notin tainted'
          PROVE  NoOlder(job[u].history, Push(x, l))
      <4>1. K \notin tainted /\ ~job[w].stale
        BY <1>1, <1>2, <1>4, <3>2, JobTypes
      <4>2. NoOlder(job[u].history, l)
        BY <2>1, <2>7, <3>2, <4>1 DEF DecideInv
      <4>3. Sorted(l) /\ job[u].history \in Seq(Nat)
        BY <1>1, <1>5, <4>1, JobTypes DEF LogInv
      <4>4. \A i \in 1..Len(l) : l[i] <= x
        BY <1>6, <4>1
      <4>. HIDE DEF K, D, M, h, x, l
      <4>. QED
        BY <1>2, <4>2, <4>3, <4>4, PushNoOlder
    <3>3. log'[Key(u)] = Push(x, l)
      BY <1>4, <2>7
    <3>. HIDE DEF D, M, h, x, l
    <3>4. DecideInv(u)'
      BY <1>1, <2>1, <2>3, <2>4, <2>7, <3>1, <3>2, <3>3 DEF DecideInv
    <3>5. StoreInv(u)' /\ WaitInv(u)'
      BY <1>1, <2>1, <2>3, <2>4, <3>1 DEF StoreInv, WaitInv
    <3>. QED
      BY <3>4, <3>5
  <2>. QED
    BY <2>5, <2>6, <2>7
<1>. QED
  BY <1>9, <1>10, <1>11, <1>12 DEF WindowInv

LEMMA WindowRestart ==
    ASSUME WindowInv, TypeOK', NEW w \in Workers, Restart(w)
    PROVE  WindowInv'
<1>1. \A k \in Keys : CacheInv(k)' /\ LogInv(k)' /\ PromiseInv(k)'
  BY KeepsKeys DEF Restart
<1>2. TypeOK /\ UNCHANGED <<now, log, tainted>>
  BY DEF WindowInv, Restart
<1>3. job'[w].pc \notin {"decide", "store"} /\ job'[w].wait = NoWait
  BY <1>2 DEF Restart, Idle, TypeOK
<1>4. ASSUME NEW u \in Workers
      PROVE  DecideInv(u)' /\ StoreInv(u)' /\ WaitInv(u)'
  <2>1. CASE u = w
    BY <1>3, <2>1, OutsideWorker
  <2>2. CASE u # w
    <3>1. job'[u] = job[u]
      BY <1>2, <2>2 DEF Restart, TypeOK
    <3>. QED
      BY <1>2, <3>1, KeepsWorker
  <2>. QED
    BY <2>1, <2>2
<1>. QED
  BY <1>1, <1>4 DEF WindowInv

LEMMA WindowEvict ==
    ASSUME WindowInv, TypeOK', NEW e \in Keys, Evict(e)
    PROVE  WindowInv'
<1>1. /\ TypeOK /\ e \in tainted' /\ \A k \in Keys : k \notin tainted' => k \notin tainted
      /\ UNCHANGED <<now, limits, job, log, promise>>
      /\ cache' = [cache EXCEPT ![e] = Absent]
  BY DEF WindowInv, Evict
<1>2. ASSUME NEW k \in Keys
      PROVE  CacheInv(k)' /\ LogInv(k)' /\ PromiseInv(k)'
  <2>1. CacheInv(k) /\ LogInv(k) /\ PromiseInv(k) /\ MaxLimit(k[1]) \in Nat
    BY <1>1, KeyTypes DEF WindowInv
  <2>2. LogInv(k)' /\ PromiseInv(k)'
    BY <1>1, <2>1 DEF LogInv, PromiseInv
  <2>3. CASE k = e
    <3>1. cache'[k].history = <<>> /\ k \in tainted'
      BY <1>1, <2>3 DEF TypeOK, Absent
    <3>2. Len(<<>>) = 0 /\ DOMAIN <<>> = {}
      OBVIOUS
    <3>. QED
      BY <2>1, <2>2, <3>1, <3>2 DEF CacheInv, Sorted
  <2>4. CASE k # e
    <3>1. cache'[k] = cache[k]
      BY <1>1, <2>4 DEF TypeOK
    <3>. QED
      BY <1>1, <2>1, <2>2, <3>1 DEF CacheInv
  <2>. QED
    BY <2>3, <2>4
<1>3. ASSUME NEW u \in Workers
      PROVE  DecideInv(u)' /\ StoreInv(u)' /\ WaitInv(u)'
  <2>1. DecideInv(u) /\ StoreInv(u) /\ WaitInv(u)
    BY DEF WindowInv
  <2>2. job[u].pc \in {"decide", "store"} => Key(u) \in Keys
    BY <1>1, KeyType
  <2>. QED
    BY <1>1, <2>1, <2>2 DEF DecideInv, StoreInv, WaitInv, Key, Throttle
<1>. QED
  BY <1>2, <1>3 DEF WindowInv

LEMMA WindowNext == WindowInv /\ [Next]_vars => WindowInv'
<1>. SUFFICES ASSUME WindowInv, [Next]_vars PROVE WindowInv'
  OBVIOUS
<1>1. TypeOK'
  BY TypeNext DEF WindowInv
<1>2. CASE Tick
  BY <1>1, <1>2, WindowTick
<1>3. ASSUME NEW w \in Workers, NEW c \in Clients, NEW v \in Views, Begin(w, c, v)
      PROVE  WindowInv'
  BY <1>1, <1>3, WindowBegin
<1>4. ASSUME NEW w \in Workers, AllowRequest(w)
      PROVE  WindowInv'
  BY <1>1, <1>4, WindowSkip, WindowFetch, WindowAdmit, WindowRefuse, WindowStore
     DEF AllowRequest
<1>5. ASSUME NEW w \in Workers, Restart(w)
      PROVE  WindowInv'
  BY <1>1, <1>5, WindowRestart
<1>6. ASSUME NEW k \in Keys, Evict(k)
      PROVE  WindowInv'
  BY <1>1, <1>6, WindowEvict
<1>7. CASE UNCHANGED vars
  <2>1. /\ cache' = cache /\ job' = job /\ log' = log /\ now' = now
        /\ tainted' = tainted /\ promise' = promise
    BY <1>7 DEF vars
  <2>2. \A k \in Keys : CacheInv(k)' /\ LogInv(k)' /\ PromiseInv(k)'
    BY <2>1, KeepsKeys
  <2>3. \A w \in Workers : DecideInv(w)' /\ StoreInv(w)' /\ WaitInv(w)'
    BY <2>1, KeepsWorker
  <2>. QED
    BY <1>1, <2>2, <2>3 DEF WindowInv
<1>. QED
  BY <1>2, <1>3, <1>4, <1>5, <1>6, <1>7 DEF Next

LEMMA WindowInvariant == Spec => []WindowInv
  BY WindowInit, WindowNext, PTL DEF Spec

(***************************************************************************)
(* The properties of Throttling.                                            *)
(***************************************************************************)
\* The rate is kept for every key that no race and no eviction touched, with any
\* number of workers, and restarts in the middle of a request that change how many
\* requests a rate allows.
THEOREM RateIsKept == Spec => []WindowLimit
<1>1. ASSUME WindowInv
      PROVE  WindowLimit
  <2>. SUFFICES ASSUME NEW k \in Keys \ tainted, NEW i \in DOMAIN log[k], NEW j \in DOMAIN log[k],
                       j = i + MaxLimit(k[1])
                PROVE  log[k][j] <= log[k][i] - Duration[k[1]]
    BY DEF WindowLimit
  <2>1. TypeOK /\ LogInv(k) /\ DOMAIN log[k] = 1..Len(log[k])
    BY <1>1, KeyTypes, LenProperties DEF WindowInv
  <2>. QED
    BY <2>1 DEF LogInv, Spaced
<1>. QED
  BY <1>1, WindowInvariant, PTL

\* Racing writes never make a cached history longer than the largest rate.
THEOREM CacheIsBounded == Spec => []HistoryBounded
<1>1. WindowInv => HistoryBounded
  BY DEF WindowInv, CacheInv, HistoryBounded
<1>. QED
  BY <1>1, WindowInvariant, PTL

\* Racing writes never put a cached history out of order.
THEOREM CacheIsSorted == Spec => []HistorySorted
<1>1. ASSUME WindowInv
      PROVE  HistorySorted
  <2>. SUFFICES ASSUME NEW k \in Keys
                PROVE  /\ Sorted(cache[k].history)
                       /\ \A i \in DOMAIN cache[k].history : cache[k].history[i] <= now
    BY DEF HistorySorted
  <2>1. CacheInv(k) /\ DOMAIN cache[k].history = 1..Len(cache[k].history)
    BY <1>1, KeyTypes, LenProperties DEF WindowInv
  <2>. QED
    BY <2>1 DEF CacheInv
<1>. QED
  BY <1>1, WindowInvariant, PTL

\* No refusal asks a client to wait for nothing, or longer than the longest period.
THEOREM WaitIsInRange == Spec => []RetryAfterInRange
<1>1. WindowInv => RetryAfterInRange
  BY DEF WindowInv, WaitInv, RetryAfterInRange
<1>. QED
  BY <1>1, WindowInvariant, PTL

\* What a worker that refuses knows: the limit-th newest request is inside the window.
LEMMA RefusalSeesFullWindow ==
    ASSUME WindowInv, NEW w \in Workers, Refuse(w), Key(w) \notin tainted, Limit(w) > 0
    PROVE  /\ Limit(w) \in 1..Len(log[Key(w)])
           /\ log[Key(w)][Limit(w)] > now - Duration[Throttle(w)]
<1>1. TypeOK /\ DecideInv(w) /\ job[w].pc = "decide"
  BY DEF WindowInv, Refuse
<1>2. /\ Key(w) \in Keys /\ Limit(w) \in Nat /\ Duration[Throttle(w)] \in Nat /\ now \in Nat
      /\ log[Key(w)] \in Seq(Nat) /\ Len(log[Key(w)]) \in Nat
      /\ \A i \in 1..Len(log[Key(w)]) : log[Key(w)][i] \in Nat
  BY <1>1, KeyType, KeyTypes, LenProperties
<1>3. /\ Len(job[w].history) \in Nat /\ DOMAIN job[w].history = 1..Len(job[w].history)
      /\ \A i \in 1..Len(job[w].history) : job[w].history[i] \in Nat
  BY <1>1, JobTypes, LenProperties
<1>4. PICK n \in 0..Len(job[w].history) :
        n >= Limit(w) /\ (n > 0 => job[w].history[n] > now - Duration[Throttle(w)])
  BY FullWindow
<1>5. n > 0 /\ n \in 1..Len(job[w].history) /\ Limit(w) \in 1..Len(job[w].history)
  BY <1>2, <1>3, <1>4
<1>6. job[w].history[n] <= job[w].history[Limit(w)]
  BY <1>1, <1>3, <1>4, <1>5 DEF DecideInv, Sorted
<1>7. /\ Limit(w) \in 1..Len(log[Key(w)])
      /\ job[w].history[Limit(w)] <= log[Key(w)][Limit(w)]
  BY <1>1, <1>2, <1>3, <1>5, SMTT(30) DEF DecideInv, NoOlder
<1>8. /\ job[w].history[n] \in Nat /\ job[w].history[Limit(w)] \in Nat
      /\ log[Key(w)][Limit(w)] \in Nat
  BY <1>2, <1>3, <1>5, <1>7
<1>9. now - Duration[Throttle(w)] \in Int
  BY <1>2
<1>. QED
  BY <1>4, <1>5, <1>6, <1>7, <1>8, <1>9, SMTT(30)

\* No client is refused while its window has room, even by a worker whose read of the
\* history is stale.
THEOREM RefusalIsJustified == Spec => RefusedOnlyWhenFull
<1>1. ASSUME WindowInv, NEW w \in Workers, Refuse(w), Key(w) \notin tainted, Limit(w) > 0
      PROVE  /\ Limit(w) \in DOMAIN log[Key(w)]
             /\ log[Key(w)][Limit(w)] > now - Duration[Throttle(w)]
  <2>1. TypeOK /\ job[w].pc = "decide"
    BY <1>1 DEF WindowInv, Refuse
  <2>2. DOMAIN log[Key(w)] = 1..Len(log[Key(w)])
    BY <2>1, KeyType, KeyTypes, LenProperties
  <2>. QED
    BY <1>1, <2>2, RefusalSeesFullWindow
<1>2. WindowInv => \A w \in Workers : Refuse(w) /\ Key(w) \notin tainted /\ Limit(w) > 0 =>
          /\ Limit(w) \in DOMAIN log[Key(w)]
          /\ log[Key(w)][Limit(w)] > now - Duration[Throttle(w)]
  BY <1>1
<1>. QED
  BY <1>2, WindowInvariant, PTL DEF RefusedOnlyWhenFull

\* A client that waits as long as wait() recommends is not refused by that throttle.
THEOREM WaitIsLongEnough == Spec => RetryAfterHonoured
<1>1. ASSUME WindowInv, NEW w \in Workers, Refuse(w), Key(w) \notin tainted,
             promise[Key(w)] # NoPromise, Limit(w) >= promise[Key(w)].limit,
             promise[Key(w)].limit > 0
      PROVE  now < promise[Key(w)].at
  <2>. DEFINE k == Key(w)
              p == promise[k]
  <2>1. TypeOK /\ job[w].pc = "decide"
    BY <1>1 DEF WindowInv, Refuse
  <2>2. /\ k \in Keys /\ k[1] = Throttle(w) /\ Limit(w) \in Nat
        /\ Duration[k[1]] \in Nat /\ now \in Nat
        /\ p.limit \in Nat /\ p.at \in Int
        /\ DOMAIN log[k] = 1..Len(log[k]) /\ Len(log[k]) \in Nat
        /\ \A i \in 1..Len(log[k]) : log[k][i] \in Nat
    <3>1. k \in Keys /\ k[1] = Throttle(w) /\ Limit(w) \in Nat
      BY <2>1, KeyType
    <3>2. p \in [at : Int, limit : Nat]
      BY <2>1, <3>1 DEF TypeOK
    <3>. HIDE DEF p, k
    <3>3. log[k] \in Seq(Nat) /\ Duration[k[1]] \in Nat /\ now \in Nat
      BY <2>1, <3>1, KeyTypes
    <3>. QED
      BY <3>1, <3>2, <3>3, LenProperties
  <2>3. /\ Limit(w) \in 1..Len(log[k])
        /\ log[k][Limit(w)] > now - Duration[k[1]]
    BY <1>1, <2>2, RefusalSeesFullWindow
  <2>4. /\ p.limit \in 1..Len(log[k])
        /\ log[k][p.limit] + Duration[k[1]] = p.at
    BY <1>1, <2>2 DEF WindowInv, PromiseInv
  <2>5. log[k][Limit(w)] <= log[k][p.limit]
    BY <1>1, <2>2, <2>3, <2>4 DEF WindowInv, LogInv, Sorted
  <2>6. log[k][Limit(w)] \in Nat /\ log[k][p.limit] \in Nat
    BY <2>2, <2>3, <2>4
  <2>. HIDE DEF p, k
  <2>7. now < p.at
    BY <2>2, <2>3, <2>4, <2>5, <2>6
  <2>. QED
    BY <2>7 DEF p, k
<1>2. WindowInv => \A w \in Workers :
          LET p == promise[Key(w)]
          IN  Refuse(w) /\ Key(w) \notin tainted /\ p # NoPromise /\ Limit(w) >= p.limit
                  /\ p.limit > 0
              => now < p.at
  BY <1>1
<1>. QED
  BY <1>2, WindowInvariant, PTL DEF RetryAfterHonoured
=============================================================================
