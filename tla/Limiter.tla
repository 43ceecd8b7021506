------------------------------ MODULE Limiter ------------------------------
(***************************************************************************)
(* The rate limiter that guards sign-in, public routes and the creation of *)
(* things: a sliding window per key, in the memory of the web process.     *)
(* The buckets are a Map, which keeps the order of insertion; a sweep      *)
(* forgets old hits, and a hard bound evicts the oldest bucket.            *)
(***************************************************************************)
EXTENDS Integers, FiniteSets

CONSTANTS
  Keys, Limit,
  Window,        \* [Keys -> length of the window its callers ask for]
  MaxWindow,     \* MAX_WINDOW_MS: what the sweep retains
  CleanupEvery, CleanupGap,
  MaxBuckets,
  MaxTime,       \* bound: the clock
  MaxLosses      \* bound: how often a key loses its bucket

ASSUME LimiterAssumption ==
  /\ Limit \in Nat \ {0} /\ Window \in [Keys -> Nat \ {0}] /\ MaxWindow \in Nat \ {0}
  /\ CleanupGap \in Nat /\ MaxBuckets \in Nat \ {0} /\ CleanupEvery \in 1..MaxBuckets
  /\ MaxTime \in Nat /\ MaxLosses \in Nat

VARIABLES
  now,
  buckets,       \* [key -> [hits, rank]]; rank: buckets inserted before it
  lastCleanup,
  allowed,       \* history: the calls in the window of a key that were allowed
  lives,         \* history: buckets the key has lost, to an eviction or a restart
  losses         \* history: those it lost within its window, and when

limiterVars == <<now, buckets, lastCleanup, allowed, lives, losses>>

-----------------------------------------------------------------------------
\* A hit is its time; life is the bucket of its key that it went into, and n
\* tells those of one moment apart.
Hits == [at : 0..MaxTime, n : 1..Limit, life : 0..MaxLosses]

LimiterTypeOK ==
  /\ now \in 0..MaxTime /\ lastCleanup \in 0..now
  /\ DOMAIN buckets \subseteq Keys /\ Cardinality(DOMAIN buckets) <= MaxBuckets
  /\ \A k \in DOMAIN buckets : buckets[k] \in [hits : SUBSET Hits, rank : Nat]
  /\ allowed \in [Keys -> SUBSET Hits] /\ lives \in [Keys -> 0..MaxLosses]
  /\ losses \in [Keys -> SUBSET [at : 0..MaxTime, life : 0..MaxLosses]]

LimiterInit ==
  /\ now = 0 /\ buckets = [k \in {} |-> 0] /\ lastCleanup = 0
  /\ allowed = [k \in Keys |-> {}] /\ lives = [k \in Keys |-> 0] /\ losses = [k \in Keys |-> {}]

Since(hits, t, window) == {h \in hits : t - h.at < window}

\* Some of the buckets, in the order they have.
Only(bs, K) ==
  [k \in K |-> [hits |-> bs[k].hits, rank |-> Cardinality({j \in K : bs[j].rank < bs[k].rank})]]

Retained(b) == Since(b.hits, now, MaxWindow)
Cleanup(bs) ==
  LET swept == [k \in DOMAIN bs |-> [bs[k] EXCEPT !.hits = Retained(bs[k])]] IN
  Only(swept, {k \in DOMAIN bs : swept[k].hits # {}})

Sweeps == \/ Cardinality(DOMAIN buckets) >= CleanupEvery /\ now - lastCleanup >= CleanupGap
          \/ Cardinality(DOMAIN buckets) >= MaxBuckets

\* Room for one more bucket, unless the key has its own; there are never
\* more than MaxBuckets, so that one makes room.
Oldest(bs) == CHOOSE k \in DOMAIN bs : \A j \in DOMAIN bs : bs[k].rank <= bs[j].rank
Evict(bs, k) ==
  IF Cardinality(DOMAIN bs) < MaxBuckets \/ k \in DOMAIN bs THEN bs
  ELSE Only(bs, DOMAIN bs \ {Oldest(bs)})

HitsOf(bs, k) == IF k \in DOMAIN bs THEN bs[k].hits ELSE {}
RankOf(bs, k) == IF k \in DOMAIN bs THEN bs[k].rank ELSE Cardinality(DOMAIN bs)
Put(bs, k, hits) ==
  [j \in DOMAIN bs \cup {k} |-> IF j = k THEN [hits |-> hits, rank |-> RankOf(bs, k)] ELSE bs[j]]

Recent_All(hits, k) == hits
Recent(hits, k) == Since(hits, now, Window[k])
Hit(hits, k) ==
  CHOOSE h \in {[at |-> now, n |-> i, life |-> lives[k]] : i \in 1..Limit} : \A g \in hits : g.n # h.n

\* The buckets of these keys are gone, with all they had counted.
Forget(K) ==
  /\ \A k \in K : lives[k] < MaxLosses
  /\ lives' = [k \in Keys |-> IF k \in K THEN lives[k] + 1 ELSE lives[k]]
  /\ losses' = [k \in Keys |-> losses[k] \cup (IF k \in K THEN {[at |-> now, life |-> lives[k]]} ELSE {})]

RateLimit(k) ==
  LET swept == IF Sweeps THEN Cleanup(buckets) ELSE buckets
      room  == Evict(swept, k)
      hits  == Recent(HitsOf(room, k), k)
      passes == Cardinality(hits) < Limit IN
  /\ buckets' = Put(room, k, IF passes THEN hits \cup {Hit(hits, k)} ELSE hits)
  /\ lastCleanup' = IF Sweeps THEN now ELSE lastCleanup
  /\ allowed' = [allowed EXCEPT ![k] = IF passes THEN @ \cup {Hit(hits, k)} ELSE @]
  /\ Forget(DOMAIN swept \ DOMAIN room)
  /\ UNCHANGED now

LimiterRestart ==
  /\ DOMAIN buckets # {} /\ buckets' = [k \in {} |-> 0] /\ lastCleanup' = 0
  /\ Forget(DOMAIN buckets) /\ UNCHANGED <<now, allowed>>

\* The part of a key's window that a sweep retains.
Span(k) == IF Window[k] <= MaxWindow THEN Window[k] ELSE MaxWindow

Tick ==
  /\ now < MaxTime /\ now' = now + 1
  /\ allowed' = [k \in Keys |-> Since(allowed[k], now', Window[k])]
  /\ losses' = [k \in Keys |-> Since(losses[k], now', Span(k))]
  /\ UNCHANGED <<buckets, lastCleanup, lives>>

LimiterNext == (\E k \in Keys : RateLimit(k)) \/ LimiterRestart \/ Tick

-----------------------------------------------------------------------------
\* Within its window a key has no more than Limit allowed calls, however
\* sweeps and other keys come in between, and Limit more for each bucket it
\* lost in that time to an eviction or a restart, which restarts its window.
\* A window longer than MaxWindow is held only for MaxWindow at a time: that
\* is all a sweep retains, and the panel has such windows (an hour).
WindowHolds ==
  \A k \in Keys : Cardinality(Since(allowed[k], now, Span(k))) <= Limit * (1 + Cardinality(losses[k]))

\* A call is refused only after Limit calls of the same bucket were allowed
\* within its window, however long that is.
Standing(k) == {h \in allowed[k] : h.life = lives[k]}
RefusedInTurn ==
  [][\A k \in Keys :
       RateLimit(k) /\ Cardinality(Standing(k)) < Limit =>
         Cardinality(allowed'[k]) = Cardinality(allowed[k]) + 1]_limiterVars

\* The limit is kept from both sides: no more calls than the buckets count,
\* and no fewer.
LimitHolds == []LimiterTypeOK /\ []WindowHolds /\ RefusedInTurn

=============================================================================
