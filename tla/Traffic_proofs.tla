---------------------------- MODULE Traffic_proofs ----------------------------
(***************************************************************************)
(* Theorems about the public routes: the click route against the worker's  *)
(* pruning, for any deliveries, buttons and retention; and the rate        *)
(* limiter, for any keys, windows, limit and number of buckets.            *)
(***************************************************************************)
EXTENDS Clicks, Limiter, FiniteSetTheorems, WellFoundedInduction, TLAPS

LEMMA AddOne ==
  ASSUME NEW S, NEW x, IsFiniteSet(S)
  PROVE  IsFiniteSet(S \cup {x}) /\ Cardinality(S \cup {x}) <= Cardinality(S) + 1
<1>1. Cardinality(S) \in Nat
  BY FS_CardinalityType
<1>2. CASE x \in S
  <2>1. S \cup {x} = S
    BY <1>2
  <2>2. Cardinality(S \cup {x}) = Cardinality(S) /\ IsFiniteSet(S \cup {x})
    BY <2>1, Zenon
  <2> QED  BY <1>1, <2>2
<1>3. CASE x \notin S
  BY <1>1, <1>3, FS_AddElement
<1> QED  BY <1>2, <1>3

-----------------------------------------------------------------------------
(* The limiter's buckets.                                                  *)

Below == {p \in Nat \X Nat : p[1] < p[2]}

LEMMA BelowIsWellFounded == IsWellFoundedOn(Below, Nat)
  BY NatLessThanWellFounded DEF OpToRel, Below

LEMMA HasLeast == ASSUME NEW S, S \subseteq Nat, S # {} PROVE \E x \in S : \A y \in S : x <= y
<1>1. PICK x \in S : \A y \in S : ~ (<<y, x>> \in Below)
  BY BelowIsWellFounded, WFMin
<1>2. ASSUME NEW y \in S PROVE x <= y
  <2>1. x \in Nat /\ y \in Nat /\ ~ (<<y, x>> \in Below)
    BY <1>1
  <2>2. ~ (y < x)
    BY <2>1 DEF Below
  <2> QED  BY <2>1, <2>2
<1> QED  BY <1>2

\* A table of buckets: finite, with ranks that can be compared.
Table(bs) ==
  /\ IsFiniteSet(DOMAIN bs) /\ DOMAIN bs \subseteq Keys
  /\ \A k \in DOMAIN bs : bs[k] \in [hits : SUBSET Hits, rank : Nat] /\ IsFiniteSet(bs[k].hits)

LEMMA OldestIsThere == ASSUME NEW bs, Table(bs), DOMAIN bs # {} PROVE Oldest(bs) \in DOMAIN bs
<1> DEFINE ranks == {bs[k].rank : k \in DOMAIN bs}
<1>1. ranks \subseteq Nat /\ ranks # {}
  BY DEF Table
<1>2. PICK r \in ranks : \A q \in ranks : r <= q
  BY <1>1, HasLeast
<1>3. PICK k \in DOMAIN bs : bs[k].rank = r
  BY <1>2
<1>4. \A j \in DOMAIN bs : bs[k].rank <= bs[j].rank
  BY <1>2, <1>3
<1> QED  BY <1>4 DEF Oldest

LEMMA OnlyIsTable ==
  ASSUME NEW bs, NEW K, K \subseteq Keys, IsFiniteSet(K),
         \A k \in K : bs[k].hits \subseteq Hits /\ IsFiniteSet(bs[k].hits)
  PROVE  Table(Only(bs, K)) /\ DOMAIN Only(bs, K) = K /\ \A k \in K : Only(bs, K)[k].hits = bs[k].hits
<1>1. DOMAIN Only(bs, K) = K /\ \A k \in K : Only(bs, K)[k].hits = bs[k].hits
  BY DEF Only
<1>2. ASSUME NEW k \in K PROVE Only(bs, K)[k].rank \in Nat
  <2> DEFINE older == {j \in K : bs[j].rank < bs[k].rank}
  <2>1. IsFiniteSet(older)
    BY FS_Subset
  <2>2. Cardinality(older) \in Nat
    BY <2>1, FS_CardinalityType
  <2> QED  BY <2>2 DEF Only
<1>3. ASSUME NEW k \in K PROVE Only(bs, K)[k] \in [hits : SUBSET Hits, rank : Nat]
  <2>1. Only(bs, K)[k] = [hits |-> bs[k].hits, rank |-> Only(bs, K)[k].rank]
    BY DEF Only
  <2> QED  BY <1>2, <2>1
<1>4. \A k \in DOMAIN Only(bs, K) :
        Only(bs, K)[k] \in [hits : SUBSET Hits, rank : Nat] /\ IsFiniteSet(Only(bs, K)[k].hits)
  BY <1>1, <1>3
<1> QED  BY <1>1, <1>4 DEF Table

\* A sweep: every key keeps its hits, or those the sweep retains.
LEMMA SweepIsTable ==
  ASSUME Table(buckets)
  PROVE  /\ Table(Cleanup(buckets)) /\ DOMAIN Cleanup(buckets) \subseteq DOMAIN buckets
         /\ \A k : HitsOf(Cleanup(buckets), k) = Since(HitsOf(buckets, k), now, MaxWindow)
<1> DEFINE swept == [k \in DOMAIN buckets |-> [buckets[k] EXCEPT !.hits = Retained(buckets[k])]]
<1> DEFINE kept == {k \in DOMAIN buckets : swept[k].hits # {}}
<1>0. Cleanup(buckets) = Only(swept, kept)
  BY DEF Cleanup
<1>1. \A k \in DOMAIN buckets :
        swept[k].hits = Since(buckets[k].hits, now, MaxWindow) /\ swept[k].hits \subseteq buckets[k].hits
  BY DEF Retained, Since, Table
<1>2. \A k \in kept : swept[k].hits \subseteq Hits /\ IsFiniteSet(swept[k].hits)
  BY <1>1, FS_Subset DEF Table
<1>3. kept \subseteq DOMAIN buckets /\ kept \subseteq Keys /\ IsFiniteSet(kept)
  BY FS_Subset DEF Table
<1> HIDE DEF swept
<1>4. Table(Only(swept, kept)) /\ DOMAIN Only(swept, kept) = kept
      /\ \A k \in kept : Only(swept, kept)[k].hits = swept[k].hits
  BY <1>2, <1>3, OnlyIsTable
<1>5. ASSUME NEW k PROVE HitsOf(Only(swept, kept), k) = Since(HitsOf(buckets, k), now, MaxWindow)
  <2>1. CASE k \in kept
    BY <1>1, <1>4, <2>1 DEF HitsOf
  <2>2. CASE k \in DOMAIN buckets \ kept
    BY <1>1, <1>4, <2>2 DEF HitsOf
  <2>3. CASE k \notin DOMAIN buckets
    BY <1>4, <2>3 DEF HitsOf, Since
  <2> QED  BY <2>1, <2>2, <2>3
<1> QED  BY <1>0, <1>3, <1>4, <1>5

\* An eviction leaves room for the key that calls, and touches no bucket but
\* the one it takes.
LEMMA EvictLeavesRoom ==
  ASSUME NEW bs, Table(bs), Cardinality(DOMAIN bs) <= MaxBuckets, NEW k \in Keys
  PROVE  /\ Table(Evict(bs, k)) /\ DOMAIN Evict(bs, k) \subseteq DOMAIN bs
         /\ k \in DOMAIN bs => Evict(bs, k) = bs
         /\ \A j \in DOMAIN Evict(bs, k) : Evict(bs, k)[j].hits = bs[j].hits
         /\ Cardinality(DOMAIN Evict(bs, k) \cup {k}) <= MaxBuckets
<1> DEFINE n == Cardinality(DOMAIN bs)
<1>0. n \in Nat /\ MaxBuckets \in Nat \ {0}
  BY FS_CardinalityType, LimiterAssumption DEF Table
<1>1. CASE k \in DOMAIN bs
  <2>1. DOMAIN bs \cup {k} = DOMAIN bs
    BY <1>1
  <2> QED  BY <1>1, <2>1 DEF Evict
<1>2. CASE k \notin DOMAIN bs /\ n < MaxBuckets
  <2>1. Cardinality(DOMAIN bs \cup {k}) = n + 1
    BY <1>2, FS_AddElement DEF Table
  <2> QED  BY <1>0, <1>2, <2>1 DEF Evict
<1>3. CASE k \notin DOMAIN bs /\ ~ (n < MaxBuckets)
  <2> DEFINE left == DOMAIN bs \ {Oldest(bs)}
  <2>1. DOMAIN bs # {}
    BY <1>0, <1>3, FS_EmptySet
  <2>2. Oldest(bs) \in DOMAIN bs
    BY <2>1, OldestIsThere
  <2>3. IsFiniteSet(left) /\ Cardinality(left) = n - 1
    BY <2>2, FS_RemoveElement DEF Table
  <2>4. Cardinality(left \cup {k}) = n
    BY <1>0, <1>3, <2>3, FS_AddElement
  <2>5. Evict(bs, k) = Only(bs, left)
    BY <1>3 DEF Evict
  <2>6. Table(Only(bs, left)) /\ DOMAIN Only(bs, left) = left /\ \A j \in left : Only(bs, left)[j].hits = bs[j].hits
    BY <2>3, OnlyIsTable DEF Table
  <2> QED  BY <1>3, <2>4, <2>5, <2>6
<1> QED  BY <1>1, <1>2, <1>3

\* A hit that is made is told apart from those that count, as long as the
\* limit is not reached.
LEMMA HitIsNew ==
  ASSUME NEW hits, IsFiniteSet(hits), Cardinality(hits) < Limit, now \in 0..MaxTime,
         NEW k, lives[k] \in 0..MaxLosses
  PROVE  /\ Hit(hits, k) \in Hits /\ Hit(hits, k).at = now /\ Hit(hits, k).life = lives[k]
         /\ \A g \in hits : g.n # Hit(hits, k).n
<1> DEFINE moment == {[at |-> now, n |-> i, life |-> lives[k]] : i \in 1..Limit}
<1> DEFINE numbers == {g.n : g \in hits}
<1> DEFINE f == [g \in hits |-> g.n]
<1>0. Limit \in Nat \ {0}
  BY LimiterAssumption
<1>1. IsFiniteSet(1..Limit) /\ Cardinality(1..Limit) = Limit
  BY <1>0, FS_Interval
<1>2. f \in Surjection(hits, numbers)
  BY DEF Surjection
<1>3. IsFiniteSet(numbers) /\ Cardinality(numbers) <= Cardinality(hits)
  BY <1>2, FS_Surjection
<1>4. PICK i \in 1..Limit : i \notin numbers
  <2> SUFFICES ASSUME 1..Limit \subseteq numbers PROVE FALSE
    OBVIOUS
  <2>1. Cardinality(1..Limit) <= Cardinality(numbers)
    BY <1>3, FS_Subset
  <2>2. Cardinality(numbers) \in Nat /\ Cardinality(hits) \in Nat
    BY <1>3, FS_CardinalityType
  <2> QED  BY <1>0, <1>1, <1>3, <2>1, <2>2
<1>5. \E h \in moment : \A g \in hits : g.n # h.n
  <2> DEFINE h == [at |-> now, n |-> i, life |-> lives[k]]
  <2>1. h \in moment
    BY <1>4
  <2>2. \A g \in hits : g.n # h.n
    BY <1>4
  <2> QED  BY <2>1, <2>2
<1>6. Hit(hits, k) \in moment /\ \A g \in hits : g.n # Hit(hits, k).n
  BY <1>5 DEF Hit
<1> QED  BY <1>6 DEF Hits

\* A bucket that is written holds what is written, and leaves the others alone.
LEMMA PutKeepsTheRest ==
  ASSUME NEW bs, Table(bs), NEW k \in Keys, NEW hits, hits \subseteq Hits, IsFiniteSet(hits)
  PROVE  /\ Table(Put(bs, k, hits)) /\ DOMAIN Put(bs, k, hits) = DOMAIN bs \cup {k}
         /\ HitsOf(Put(bs, k, hits), k) = hits
         /\ \A j : j # k => HitsOf(Put(bs, k, hits), j) = HitsOf(bs, j)
<1>1. DOMAIN Put(bs, k, hits) = DOMAIN bs \cup {k} /\ DOMAIN Put(bs, k, hits) \subseteq Keys
  BY DEF Put, Table
<1>2. IsFiniteSet(DOMAIN bs \cup {k})
  BY FS_AddElement DEF Table
<1>3. RankOf(bs, k) \in Nat
  BY FS_CardinalityType DEF RankOf, Table
<1>4. Put(bs, k, hits)[k] = [hits |-> hits, rank |-> RankOf(bs, k)]
  BY DEF Put
<1>5. \A j \in DOMAIN bs : j # k => Put(bs, k, hits)[j] = bs[j]
  BY DEF Put
<1>6. ASSUME NEW j \in DOMAIN Put(bs, k, hits)
      PROVE  Put(bs, k, hits)[j] \in [hits : SUBSET Hits, rank : Nat] /\ IsFiniteSet(Put(bs, k, hits)[j].hits)
  BY <1>1, <1>3, <1>4, <1>5 DEF Table
<1>7. Table(Put(bs, k, hits))
  BY <1>1, <1>2, <1>6 DEF Table
<1> QED  BY <1>1, <1>4, <1>5, <1>7 DEF HitsOf

-----------------------------------------------------------------------------
(* The limiter: what is counted against a key is what was allowed to it.   *)

\* The hits of a bucket that count were allowed in its window, and what was
\* allowed since its key last lost a bucket is still in it as long as a sweep
\* retains it.
Tracks ==
  \A k \in Keys :
    /\ IsFiniteSet(allowed[k])
    /\ \A h \in allowed[k] : now - h.at < Window[k]
    /\ Recent(HitsOf(buckets, k), k) \subseteq Standing(k)
    /\ Since(Standing(k), now, MaxWindow) \subseteq HitsOf(buckets, k)

\* A bucket gives no number twice within the span of its key.
Numbered ==
  \A k \in Keys : \A g, h \in Since(allowed[k], now, Span(k)) : g.life = h.life /\ g.n = h.n => g = h

\* What an earlier bucket of a key allowed came before that bucket was lost.
Lives ==
  \A k \in Keys :
    /\ IsFiniteSet(losses[k])
    /\ \A h \in allowed[k] : h.life <= lives[k] /\ h.at <= now
    /\ \A h \in Since(allowed[k], now, Span(k)) :
         h.life < lives[k] => \E x \in losses[k] : x.life = h.life /\ h.at <= x.at

LimInv == LimiterTypeOK /\ Table(buckets) /\ Tracks /\ Numbered /\ Lives

Swept == IF Sweeps THEN Cleanup(buckets) ELSE buckets
Room(k) == Evict(Swept, k)
Counting(k) == Recent(HitsOf(Room(k), k), k)

LEMMA Times == ASSUME LimInv PROVE now \in 0..MaxTime /\ MaxTime \in Nat /\ MaxWindow \in Nat \ {0}
                                   /\ Limit \in Nat \ {0} /\ MaxBuckets \in Nat \ {0}
                                   /\ MaxLosses \in Nat
                                   /\ \A k \in Keys : /\ Window[k] \in Nat \ {0} /\ Span(k) \in Nat \ {0}
                                                      /\ Span(k) <= Window[k] /\ Span(k) <= MaxWindow
  BY LimiterAssumption DEF LimInv, LimiterTypeOK, Span

LEMMA HitsAreHits == ASSUME NEW bs, Table(bs), NEW k PROVE HitsOf(bs, k) \subseteq Hits /\ IsFiniteSet(HitsOf(bs, k))
  BY FS_EmptySet DEF Table, HitsOf

LEMMA SweptKeeps ==
  ASSUME LimInv
  PROVE  /\ Table(Swept) /\ Cardinality(DOMAIN Swept) <= MaxBuckets
         /\ \A j : HitsOf(Swept, j) \subseteq HitsOf(buckets, j)
         /\ \A j \in Keys : Since(Standing(j), now, MaxWindow) \subseteq HitsOf(Swept, j)
<1>0. Table(buckets) /\ Cardinality(DOMAIN buckets) <= MaxBuckets /\ Tracks
  BY DEF LimInv, LimiterTypeOK
<1>1. CASE Sweeps
  <2>1. Swept = Cleanup(buckets)
    BY <1>1 DEF Swept
  <2>2. /\ Table(Cleanup(buckets)) /\ DOMAIN Cleanup(buckets) \subseteq DOMAIN buckets
        /\ \A k : HitsOf(Cleanup(buckets), k) = Since(HitsOf(buckets, k), now, MaxWindow)
    BY <1>0, SweepIsTable
  <2>3. Cardinality(DOMAIN Cleanup(buckets)) <= Cardinality(DOMAIN buckets)
    BY <1>0, <2>2, FS_Subset DEF Table
  <2>4. Cardinality(DOMAIN Cleanup(buckets)) <= MaxBuckets
    BY <1>0, <2>2, <2>3, FS_CardinalityType, Times DEF Table
  <2>5. \A j \in Keys : Since(Standing(j), now, MaxWindow) \subseteq HitsOf(Cleanup(buckets), j)
    BY <1>0, <2>2 DEF Tracks, Since
  <2> QED  BY <2>1, <2>2, <2>4, <2>5 DEF Since
<1>2. CASE ~ Sweeps
  BY <1>0, <1>2 DEF Swept, Tracks
<1> QED  BY <1>1, <1>2

\* An eviction never takes the bucket of the key that calls.
LEMMA RoomKeeps ==
  ASSUME LimInv, NEW k \in Keys
  PROVE  /\ Table(Room(k)) /\ Cardinality(DOMAIN Room(k) \cup {k}) <= MaxBuckets
         /\ \A j \in DOMAIN Swept \ DOMAIN Room(k) : j # k /\ HitsOf(Room(k), j) = {}
         /\ \A j : j \notin DOMAIN Swept \ DOMAIN Room(k) => HitsOf(Room(k), j) = HitsOf(Swept, j)
<1>1. Table(Swept) /\ Cardinality(DOMAIN Swept) <= MaxBuckets
  BY SweptKeeps
<1>2. /\ Table(Room(k)) /\ DOMAIN Room(k) \subseteq DOMAIN Swept
      /\ k \in DOMAIN Swept => Room(k) = Swept
      /\ \A j \in DOMAIN Room(k) : Room(k)[j].hits = Swept[j].hits
      /\ Cardinality(DOMAIN Room(k) \cup {k}) <= MaxBuckets
  BY <1>1, EvictLeavesRoom DEF Room
<1> QED  BY <1>2 DEF HitsOf

LEMMA CountingIsAllowed ==
  ASSUME LimInv, NEW k \in Keys
  PROVE  /\ IsFiniteSet(Counting(k)) /\ Counting(k) \subseteq Hits /\ Counting(k) \subseteq Standing(k)
         /\ Since(Standing(k), now, MaxWindow) \subseteq Counting(k)
<1>1. HitsOf(Room(k), k) = HitsOf(Swept, k)
  BY RoomKeeps
<1>2. HitsOf(Swept, k) \subseteq Hits /\ IsFiniteSet(HitsOf(Swept, k))
  BY SweptKeeps, HitsAreHits
<1>3. Counting(k) \subseteq HitsOf(Swept, k)
  BY <1>1 DEF Counting, Recent, Since
<1>4. IsFiniteSet(Counting(k)) /\ Counting(k) \subseteq Hits
  BY <1>2, <1>3, FS_Subset
<1>5. Counting(k) \subseteq Standing(k)
  BY <1>1, SweptKeeps DEF LimInv, Tracks, Counting, Recent, Since
<1>6. Since(Standing(k), now, MaxWindow) \subseteq HitsOf(Swept, k)
  BY SweptKeeps
<1>7. \A h \in Standing(k) : now - h.at < Window[k]
  BY DEF LimInv, Tracks, Standing
<1>8. Since(Standing(k), now, MaxWindow) \subseteq Counting(k)
  BY <1>1, <1>6, <1>7 DEF Counting, Recent, Since
<1> QED  BY <1>4, <1>5, <1>8

\* A call that passes adds a hit that its key was not allowed before.
LEMMA NewHit ==
  ASSUME LimInv, NEW k \in Keys, Cardinality(Counting(k)) < Limit
  PROVE  /\ Hit(Counting(k), k) \in Hits /\ Hit(Counting(k), k).at = now /\ Hit(Counting(k), k).life = lives[k]
         /\ Hit(Counting(k), k) \notin allowed[k]
         /\ \A g \in Since(Standing(k), now, MaxWindow) : g.n # Hit(Counting(k), k).n
<1> DEFINE h == Hit(Counting(k), k)
<1>0. lives[k] \in 0..MaxLosses
  BY DEF LimInv, LimiterTypeOK
<1>1. h \in Hits /\ h.at = now /\ h.life = lives[k] /\ \A g \in Counting(k) : g.n # h.n
  BY <1>0, HitIsNew, CountingIsAllowed, Times
<1> HIDE DEF h
<1>2. now - h.at < MaxWindow
  BY <1>1, Times
<1>3. \A g \in Since(Standing(k), now, MaxWindow) : g.n # h.n
  BY <1>1, CountingIsAllowed
<1>4. h \notin allowed[k]
  BY <1>1, <1>2, <1>3 DEF Since, Standing
<1> QED  BY <1>1, <1>3, <1>4 DEF h

\* What a call leaves behind.
Left(k) == IF Cardinality(Counting(k)) < Limit THEN Counting(k) \cup {Hit(Counting(k), k)} ELSE Counting(k)

LEMMA LeftIsAllowed ==
  ASSUME LimInv, NEW k \in Keys
  PROVE  /\ Left(k) \subseteq Hits /\ IsFiniteSet(Left(k)) /\ Counting(k) \subseteq Left(k)
         /\ \A h \in Left(k) : \/ h \in Counting(k)
                               \/ /\ h.at = now /\ h.life = lives[k]
                                  /\ \A g \in Since(Standing(k), now, MaxWindow) : g.n # h.n
         /\ \A g, h \in Left(k) : g \notin Counting(k) /\ h \notin Counting(k) => g = h
<1>1. IsFiniteSet(Counting(k)) /\ Counting(k) \subseteq Hits
  BY CountingIsAllowed
<1>2. CASE Cardinality(Counting(k)) < Limit
  <2>1. /\ Left(k) = Counting(k) \cup {Hit(Counting(k), k)} /\ Hit(Counting(k), k) \in Hits
        /\ Hit(Counting(k), k).at = now /\ Hit(Counting(k), k).life = lives[k]
        /\ \A g \in Since(Standing(k), now, MaxWindow) : g.n # Hit(Counting(k), k).n
    BY <1>2, NewHit DEF Left
  <2>2. IsFiniteSet(Left(k))
    BY <1>1, <2>1, FS_AddElement
  <2> QED  BY <1>1, <2>1, <2>2
<1>3. CASE ~ (Cardinality(Counting(k)) < Limit)
  BY <1>1, <1>3 DEF Left
<1> QED  BY <1>2, <1>3

\* The keys whose bucket makes room for another.
Evicted(k) == DOMAIN Swept \ DOMAIN Room(k)

\* A call of one key, as it shows in the history of every key.
LEMMA RateLimitShows ==
  ASSUME LimInv, NEW k \in Keys, RateLimit(k)
  PROVE  /\ buckets' = Put(Room(k), k, Left(k)) /\ now' = now /\ lastCleanup' \in 0..now
         /\ allowed' \in [Keys -> SUBSET Hits]
         /\ allowed'[k] = allowed[k] \cup Left(k)
         /\ \A j \in Keys : j # k => allowed'[j] = allowed[j]
         /\ Forget(Evicted(k)) /\ k \notin Evicted(k) /\ Evicted(k) \subseteq Keys
<1>1. /\ buckets' = Put(Room(k), k, Left(k)) /\ now' = now
      /\ lastCleanup' = IF Sweeps THEN now ELSE lastCleanup
      /\ allowed' = [allowed EXCEPT ![k] = IF Cardinality(Counting(k)) < Limit
                                           THEN @ \cup {Hit(Counting(k), k)} ELSE @]
      /\ Forget(Evicted(k))
  BY DEF RateLimit, Swept, Room, Counting, Left, Evicted
<1>2. lastCleanup' \in 0..now
  BY <1>1, Times DEF LimInv, LimiterTypeOK
<1>3. allowed \in [Keys -> SUBSET Hits]
  BY DEF LimInv, LimiterTypeOK
<1>4. k \notin Evicted(k) /\ Counting(k) \subseteq allowed[k]
  BY RoomKeeps, CountingIsAllowed DEF Evicted, Standing
<1>5. allowed'[k] = allowed[k] \cup Left(k) /\ \A j \in Keys : j # k => allowed'[j] = allowed[j]
  BY <1>1, <1>3, <1>4 DEF Left
<1>6. Cardinality(Counting(k)) < Limit => Hit(Counting(k), k) \in Hits
  BY NewHit
<1>7. allowed' \in [Keys -> SUBSET Hits]
  BY <1>1, <1>3, <1>6
<1>8. Evicted(k) \subseteq Keys
  BY SweptKeeps DEF Evicted, Table
<1> QED  BY <1>1, <1>2, <1>4, <1>5, <1>7, <1>8

\* A bucket that is lost counts as one, and dates what it had allowed.
LEMMA LossShows ==
  ASSUME LimInv, NEW K \in SUBSET Keys, Forget(K)
  PROVE  /\ lives' \in [Keys -> 0..MaxLosses]
         /\ losses' \in [Keys -> SUBSET [at : 0..MaxTime, life : 0..MaxLosses]]
         /\ \A j \in K : lives'[j] = lives[j] + 1
         /\ \A j \in Keys \ K : lives'[j] = lives[j] /\ losses'[j] = losses[j]
         /\ \A j \in Keys :
              /\ IsFiniteSet(losses'[j])
              /\ \A h \in allowed[j] : h.life <= lives'[j] /\ h.at <= now
              /\ \A h \in Since(allowed[j], now, Span(j)) :
                   h.life < lives'[j] => \E x \in losses'[j] : x.life = h.life /\ h.at <= x.at
<1>0. /\ lives \in [Keys -> 0..MaxLosses] /\ now \in 0..MaxTime /\ MaxLosses \in Nat
      /\ losses \in [Keys -> SUBSET [at : 0..MaxTime, life : 0..MaxLosses]]
      /\ allowed \in [Keys -> SUBSET Hits]
  BY Times DEF LimInv, LimiterTypeOK
<1>1. /\ \A j \in K : lives[j] < MaxLosses
      /\ lives' = [j \in Keys |-> IF j \in K THEN lives[j] + 1 ELSE lives[j]]
      /\ losses' = [j \in Keys |-> losses[j] \cup (IF j \in K THEN {[at |-> now, life |-> lives[j]]} ELSE {})]
  BY DEF Forget
<1>2. lives' \in [Keys -> 0..MaxLosses] /\ \A j \in K : lives'[j] = lives[j] + 1
  BY <1>0, <1>1
<1>3. losses' \in [Keys -> SUBSET [at : 0..MaxTime, life : 0..MaxLosses]]
  <2>1. \A j \in Keys : losses'[j] \subseteq [at : 0..MaxTime, life : 0..MaxLosses]
    BY <1>0, <1>1
  <2> QED  BY <1>1, <2>1
<1>4. \A j \in Keys \ K : lives'[j] = lives[j] /\ losses'[j] = losses[j]
  BY <1>1
<1>5. ASSUME NEW j \in K
      PROVE  /\ IsFiniteSet(losses'[j])
             /\ \A h \in allowed[j] : h.life <= lives'[j] /\ h.at <= now
             /\ \A h \in Since(allowed[j], now, Span(j)) :
                  h.life < lives'[j] => \E x \in losses'[j] : x.life = h.life /\ h.at <= x.at
  <2> DEFINE y == [at |-> now, life |-> lives[j]]
  <2>1. losses'[j] = losses[j] \cup {y} /\ lives'[j] = lives[j] + 1 /\ lives[j] \in Nat /\ now \in Nat
        /\ y.at = now /\ y.life = lives[j]
    BY <1>0, <1>1
  <2> HIDE DEF y
  <2>2. /\ IsFiniteSet(losses[j]) /\ \A h \in allowed[j] : h.life <= lives[j] /\ h.at <= now /\ h.life \in Nat
        /\ \A h \in Since(allowed[j], now, Span(j)) :
             h.life < lives[j] => \E x \in losses[j] : x.life = h.life /\ h.at <= x.at
    BY <1>0 DEF LimInv, Lives, Hits
  <2>3. IsFiniteSet(losses'[j])
    BY <2>1, <2>2, FS_AddElement
  <2>4. \A h \in allowed[j] : h.life <= lives'[j] /\ h.at <= now
    BY <2>1, <2>2
  <2>5. ASSUME NEW h \in Since(allowed[j], now, Span(j)), h.life < lives'[j]
        PROVE  \E x \in losses'[j] : x.life = h.life /\ h.at <= x.at
    <3>1. h \in allowed[j] /\ h.life \in Nat /\ h.at <= now
      BY <2>2 DEF Since
    <3>2. CASE h.life < lives[j]
      BY <2>1, <2>2, <3>2
    <3>3. CASE h.life = lives[j]
      BY <2>1, <3>1, <3>3
    <3> QED  BY <2>1, <2>5, <3>1, <3>2, <3>3
  <2> QED  BY <2>3, <2>4, <2>5
<1>6. ASSUME NEW j \in Keys \ K
      PROVE  /\ IsFiniteSet(losses'[j])
             /\ \A h \in allowed[j] : h.life <= lives'[j] /\ h.at <= now
             /\ \A h \in Since(allowed[j], now, Span(j)) :
                  h.life < lives'[j] => \E x \in losses'[j] : x.life = h.life /\ h.at <= x.at
  BY <1>4 DEF LimInv, Lives
<1> QED  BY <1>2, <1>3, <1>4, <1>5, <1>6

LEMMA RateLimitKeeps == ASSUME LimInv, NEW k \in Keys, RateLimit(k) PROVE LimInv'
<1> DEFINE room == Room(k)
<1> DEFINE K == Evicted(k)
<1>1. /\ buckets' = Put(room, k, Left(k)) /\ now' = now /\ lastCleanup' \in 0..now
      /\ allowed' \in [Keys -> SUBSET Hits] /\ allowed'[k] = allowed[k] \cup Left(k)
      /\ \A j \in Keys : j # k => allowed'[j] = allowed[j]
      /\ Forget(K) /\ k \notin K /\ K \subseteq Keys
  BY RateLimitShows
<1>2. /\ Table(room) /\ Cardinality(DOMAIN room \cup {k}) <= MaxBuckets
      /\ \A j \in K : j # k /\ HitsOf(room, j) = {}
      /\ \A j : j \notin K => HitsOf(room, j) = HitsOf(Swept, j)
  BY RoomKeeps DEF Evicted
<1>3. Left(k) \subseteq Hits /\ IsFiniteSet(Left(k)) /\ Counting(k) \subseteq Left(k)
  BY LeftIsAllowed
<1> HIDE DEF room, K
<1>4. /\ Table(buckets') /\ DOMAIN buckets' = DOMAIN room \cup {k} /\ HitsOf(buckets', k) = Left(k)
      /\ \A j : j # k => HitsOf(buckets', j) = HitsOf(room, j)
  <2>1. PICK bs : bs = room
    OBVIOUS
  <2>2. PICK hits : hits = Left(k)
    OBVIOUS
  <2>3. Table(bs)
    BY <1>2, <2>1
  <2>4. hits \subseteq Hits /\ IsFiniteSet(hits)
    BY <1>3, <2>2
  <2>5. /\ Table(Put(bs, k, hits)) /\ DOMAIN Put(bs, k, hits) = DOMAIN bs \cup {k}
        /\ HitsOf(Put(bs, k, hits), k) = hits
        /\ \A j : j # k => HitsOf(Put(bs, k, hits), j) = HitsOf(bs, j)
    BY <2>3, <2>4, PutKeepsTheRest
  <2>6. buckets' = Put(bs, k, hits)
    BY <1>1, <2>1, <2>2
  <2> QED  BY <2>1, <2>2, <2>5, <2>6
<1>5. Table(buckets)'
  BY <1>4 DEF Table, Hits
<1>6. /\ lives' \in [Keys -> 0..MaxLosses]
      /\ losses' \in [Keys -> SUBSET [at : 0..MaxTime, life : 0..MaxLosses]]
      /\ \A j \in K : lives'[j] = lives[j] + 1
      /\ \A j \in Keys \ K : lives'[j] = lives[j] /\ losses'[j] = losses[j]
      /\ \A j \in Keys :
           /\ IsFiniteSet(losses'[j])
           /\ \A h \in allowed[j] : h.life <= lives'[j] /\ h.at <= now
           /\ \A h \in Since(allowed[j], now, Span(j)) :
                h.life < lives'[j] => \E x \in losses'[j] : x.life = h.life /\ h.at <= x.at
  BY <1>1, LossShows
<1>7. LimiterTypeOK'
  <2>1. DOMAIN buckets' \subseteq Keys /\ \A j \in DOMAIN buckets' : buckets'[j] \in [hits : SUBSET Hits, rank : Nat]
    BY <1>4 DEF Table
  <2> QED  BY <1>1, <1>2, <1>4, <1>6, <2>1, Times DEF LimiterTypeOK, Hits
<1>8. lives'[k] = lives[k] /\ losses'[k] = losses[k]
  BY <1>1, <1>6
<1>9. \A h \in Left(k) : h \in Standing(k) \/ (h.at = now /\ h.life = lives[k])
  BY LeftIsAllowed, CountingIsAllowed
<1>10. ASSUME NEW j \in Keys, j # k
       PROVE  /\ IsFiniteSet(allowed'[j]) /\ \A h \in allowed'[j] : now - h.at < Window[j]
              /\ Since(HitsOf(buckets', j), now, Window[j]) \subseteq {h \in allowed'[j] : h.life = lives'[j]}
              /\ Since({h \in allowed'[j] : h.life = lives'[j]}, now, MaxWindow) \subseteq HitsOf(buckets', j)
  <2>1. HitsOf(buckets', j) = HitsOf(room, j) /\ allowed'[j] = allowed[j]
    BY <1>1, <1>4, <1>10
  <2>2. IsFiniteSet(allowed[j]) /\ \A h \in allowed[j] : now - h.at < Window[j]
    BY DEF LimInv, Tracks
  <2>3. CASE j \in K
    <3>1. HitsOf(room, j) = {} /\ lives'[j] = lives[j] + 1
      BY <1>2, <1>6, <2>3
    <3>2. ASSUME NEW h \in allowed[j] PROVE h.life # lives'[j]
      <4>1. h.life <= lives[j]
        BY DEF LimInv, Lives
      <4>2. lives[j] \in Nat /\ h.life \in Nat
        BY Times DEF LimInv, LimiterTypeOK, Hits
      <4> QED  BY <3>1, <4>1, <4>2
    <3> QED  BY <2>1, <2>2, <3>1, <3>2 DEF Since
  <2>4. CASE j \notin K
    <3>1. HitsOf(room, j) = HitsOf(Swept, j) /\ lives'[j] = lives[j]
      BY <1>2, <1>6, <2>4
    <3>2. HitsOf(Swept, j) \subseteq HitsOf(buckets, j) /\ Since(Standing(j), now, MaxWindow) \subseteq HitsOf(Swept, j)
      BY SweptKeeps
    <3>3. Since(HitsOf(buckets, j), now, Window[j]) \subseteq Standing(j)
      BY DEF LimInv, Tracks, Recent
    <3> QED  BY <2>1, <2>2, <3>1, <3>2, <3>3 DEF Standing, Since
  <2> QED  BY <2>3, <2>4
<1>11. /\ IsFiniteSet(allowed'[k]) /\ \A h \in allowed'[k] : now - h.at < Window[k]
       /\ Since(HitsOf(buckets', k), now, Window[k]) \subseteq {h \in allowed'[k] : h.life = lives'[k]}
       /\ Since({h \in allowed'[k] : h.life = lives'[k]}, now, MaxWindow) \subseteq HitsOf(buckets', k)
  <2>1. IsFiniteSet(allowed[k]) /\ \A h \in allowed[k] : now - h.at < Window[k]
    BY DEF LimInv, Tracks
  <2>2. now - now < Window[k]
    BY Times
  <2>3. IsFiniteSet(allowed'[k])
    BY <1>1, <1>3, <2>1, FS_Union
  <2>4. \A h \in allowed'[k] : now - h.at < Window[k]
    BY <1>1, <1>9, <2>1, <2>2 DEF Standing
  <2>5. Left(k) \subseteq {h \in allowed'[k] : h.life = lives'[k]}
    BY <1>1, <1>8, <1>9 DEF Standing
  <2>6. {h \in allowed'[k] : h.life = lives'[k]} \subseteq Standing(k) \cup Left(k)
    BY <1>1, <1>8 DEF Standing
  <2>7. Since(Standing(k), now, MaxWindow) \subseteq Left(k)
    BY <1>3, CountingIsAllowed
  <2> QED  BY <1>4, <2>3, <2>4, <2>5, <2>6, <2>7 DEF Since
<1>12. Tracks'
  <2>1. ASSUME NEW j \in Keys
        PROVE  /\ IsFiniteSet(allowed'[j]) /\ \A h \in allowed'[j] : now - h.at < Window[j]
               /\ Since(HitsOf(buckets', j), now, Window[j]) \subseteq {h \in allowed'[j] : h.life = lives'[j]}
               /\ Since({h \in allowed'[j] : h.life = lives'[j]}, now, MaxWindow) \subseteq HitsOf(buckets', j)
    BY <1>10, <1>11
  <2> QED  BY <1>1, <2>1 DEF Tracks, Standing, Recent, Since, HitsOf
<1>13. ASSUME NEW g \in Since(allowed'[k], now, Span(k)), NEW h \in Since(allowed'[k], now, Span(k)),
              g.life = h.life, g.n = h.n
       PROVE  g = h
  <2>1. /\ g \in allowed[k] \cup Left(k) /\ now - g.at < Span(k)
        /\ h \in allowed[k] \cup Left(k) /\ now - h.at < Span(k)
    BY <1>1 DEF Since
  <2>2. ASSUME NEW u \in allowed[k], now - u.at < Span(k), u.life = lives[k],
               NEW v \in Left(k), v \notin allowed[k]
        PROVE  u.n # v.n
    <3>1. u.at \in Nat
      BY DEF LimInv, LimiterTypeOK, Hits
    <3>2. now - u.at < MaxWindow
      BY <2>2, <3>1, Times
    <3>3. u \in Since(Standing(k), now, MaxWindow)
      BY <2>2, <3>2 DEF Since, Standing
    <3>4. v \notin Counting(k)
      BY <2>2, CountingIsAllowed DEF Standing
    <3> QED  BY <3>3, <3>4, LeftIsAllowed
  <2>3. CASE g \in allowed[k] /\ h \in allowed[k]
    BY <1>13, <2>1, <2>3 DEF LimInv, Numbered, Since
  <2>4. CASE g \in allowed[k] /\ h \notin allowed[k]
    BY <1>9, <1>13, <2>1, <2>2, <2>4 DEF Standing
  <2>5. CASE g \notin allowed[k] /\ h \in allowed[k]
    BY <1>9, <1>13, <2>1, <2>2, <2>5 DEF Standing
  <2>6. CASE g \notin allowed[k] /\ h \notin allowed[k]
    BY <2>1, <2>6, LeftIsAllowed, CountingIsAllowed DEF Standing
  <2> QED  BY <2>3, <2>4, <2>5, <2>6
<1>14. Numbered'
  <2>1. ASSUME NEW j \in Keys, NEW g \in Since(allowed'[j], now, Span(j)), NEW h \in Since(allowed'[j], now, Span(j)),
               g.life = h.life, g.n = h.n
        PROVE  g = h
    <3>1. CASE j = k
      BY <1>13, <2>1, <3>1
    <3>2. CASE j # k
      BY <1>1, <2>1, <3>2 DEF LimInv, Numbered
    <3> QED  BY <3>1, <3>2
  <2> QED  BY <1>1, <2>1 DEF Numbered, Since, Span
<1>15. Lives'
  <2>1. ASSUME NEW h \in allowed'[k] PROVE h.life <= lives'[k] /\ h.at <= now
    <3>1. h \in allowed[k] \/ (h.at = now /\ h.life = lives'[k])
      BY <1>1, <1>8, <1>9 DEF Standing
    <3>2. lives'[k] \in Nat /\ now \in Nat
      BY <1>6, Times
    <3> QED  BY <1>6, <3>1, <3>2
  <2>2. ASSUME NEW h \in Since(allowed'[k], now, Span(k)), h.life < lives'[k]
        PROVE  \E x \in losses'[k] : x.life = h.life /\ h.at <= x.at
    <3>1. h \in allowed[k] \/ h.life = lives'[k]
      BY <1>1, <1>8, <1>9 DEF Standing, Since
    <3>2. lives'[k] \in Nat
      BY <1>6, Times
    <3>3. h \in Since(allowed[k], now, Span(k))
      BY <2>2, <3>1, <3>2 DEF Since
    <3> QED  BY <1>6, <2>2, <3>3
  <2>3. ASSUME NEW j \in Keys
        PROVE  /\ IsFiniteSet(losses'[j])
               /\ \A h \in allowed'[j] : h.life <= lives'[j] /\ h.at <= now
               /\ \A h \in Since(allowed'[j], now, Span(j)) :
                    h.life < lives'[j] => \E x \in losses'[j] : x.life = h.life /\ h.at <= x.at
    <3>1. CASE j = k
      BY <1>6, <2>1, <2>2, <3>1
    <3>2. CASE j # k
      BY <1>1, <1>6, <3>2
    <3> QED  BY <3>1, <3>2
  <2> QED  BY <1>1, <2>3 DEF Lives, Since, Span
<1> QED  BY <1>5, <1>7, <1>12, <1>14, <1>15 DEF LimInv

LEMMA RestartKeeps == ASSUME LimInv, LimiterRestart PROVE LimInv'
<1> DEFINE K == DOMAIN buckets
<1>1. /\ buckets' = [k \in {} |-> 0] /\ lastCleanup' = 0 /\ allowed' = allowed /\ now' = now
      /\ Forget(K) /\ K \subseteq Keys
  BY DEF LimiterRestart, LimInv, LimiterTypeOK
<1>2. DOMAIN buckets' = {} /\ IsFiniteSet({}) /\ Cardinality({}) = 0 /\ \A k : HitsOf(buckets', k) = {}
  BY <1>1, FS_EmptySet DEF HitsOf
<1>3. /\ lives' \in [Keys -> 0..MaxLosses]
      /\ losses' \in [Keys -> SUBSET [at : 0..MaxTime, life : 0..MaxLosses]]
      /\ \A j \in K : lives'[j] = lives[j] + 1
      /\ \A j \in Keys \ K : lives'[j] = lives[j] /\ losses'[j] = losses[j]
      /\ \A j \in Keys :
           /\ IsFiniteSet(losses'[j])
           /\ \A h \in allowed[j] : h.life <= lives'[j] /\ h.at <= now
           /\ \A h \in Since(allowed[j], now, Span(j)) :
                h.life < lives'[j] => \E x \in losses'[j] : x.life = h.life /\ h.at <= x.at
  BY <1>1, LossShows
<1>4. LimiterTypeOK'
  <2>1. allowed \in [Keys -> SUBSET Hits]
    BY DEF LimInv, LimiterTypeOK
  <2> QED  BY <1>1, <1>2, <1>3, <2>1, Times DEF LimiterTypeOK, Hits
<1>5. Table(buckets)'
  BY <1>2 DEF Table
<1>6. Tracks'
  <2>1. ASSUME NEW j \in Keys
        PROVE  /\ IsFiniteSet(allowed[j]) /\ \A h \in allowed[j] : now - h.at < Window[j]
               /\ Since({h \in allowed[j] : h.life = lives'[j]}, now, MaxWindow) = {}
    <3>1. IsFiniteSet(allowed[j]) /\ \A h \in allowed[j] : now - h.at < Window[j]
      BY DEF LimInv, Tracks
    <3>2. CASE j \in K
      <4>1. ASSUME NEW h \in allowed[j] PROVE h.life # lives'[j]
        <5>1. h.life <= lives[j]
          BY DEF LimInv, Lives
        <5>2. lives[j] \in Nat /\ h.life \in Nat
          BY Times DEF LimInv, LimiterTypeOK, Hits
        <5> QED  BY <1>3, <3>2, <5>1, <5>2
      <4> QED  BY <3>1, <4>1 DEF Since
    <3>3. CASE j \notin K
      <4>1. HitsOf(buckets, j) = {} /\ lives'[j] = lives[j]
        BY <1>3, <3>3 DEF HitsOf
      <4>2. Since(Standing(j), now, MaxWindow) \subseteq HitsOf(buckets, j)
        BY DEF LimInv, Tracks
      <4> QED  BY <3>1, <4>1, <4>2 DEF Standing
    <3> QED  BY <3>2, <3>3
  <2> QED  BY <1>1, <1>2, <2>1 DEF Tracks, Standing, HitsOf, Recent, Since
<1>7. Numbered'
  BY <1>1 DEF LimInv, Numbered, Since, Span
<1>8. Lives'
  BY <1>1, <1>3 DEF Lives, Since, Span
<1> QED  BY <1>4, <1>5, <1>6, <1>7, <1>8 DEF LimInv

LEMMA TickKeeps == ASSUME LimInv, Tick PROVE LimInv'
<1>1. /\ now' = now + 1 /\ now' \in 0..MaxTime /\ now \in 0..MaxTime
      /\ allowed' = [k \in Keys |-> Since(allowed[k], now', Window[k])]
      /\ losses' = [k \in Keys |-> Since(losses[k], now', Span(k))]
      /\ buckets' = buckets /\ lastCleanup' = lastCleanup /\ lives' = lives
  BY Times DEF Tick
<1>2. /\ allowed' \in [Keys -> SUBSET Hits] /\ lastCleanup \in 0..now
      /\ losses' \in [Keys -> SUBSET [at : 0..MaxTime, life : 0..MaxLosses]]
      /\ \A k \in Keys : allowed[k] \subseteq Hits /\ HitsOf(buckets, k) \subseteq Hits
  BY <1>1, HitsAreHits DEF LimInv, LimiterTypeOK, Since
<1>3. LimiterTypeOK'
  BY <1>1, <1>2 DEF LimInv, LimiterTypeOK, Hits
<1>4. Table(buckets)'
  BY <1>1 DEF LimInv, Table, Hits
<1>5. \A h \in Hits, w \in Nat : now' - h.at < w => now - h.at < w
  BY <1>1 DEF Hits
<1>6. ASSUME NEW k \in Keys
      PROVE  /\ IsFiniteSet(allowed'[k]) /\ \A h \in allowed'[k] : now' - h.at < Window[k]
             /\ allowed'[k] \subseteq allowed[k]
             /\ Since(HitsOf(buckets, k), now', Window[k]) \subseteq {h \in allowed'[k] : h.life = lives[k]}
             /\ Since({h \in allowed'[k] : h.life = lives[k]}, now', MaxWindow) \subseteq HitsOf(buckets, k)
             /\ Since(allowed'[k], now', Span(k)) \subseteq Since(allowed[k], now, Span(k))
  <2>1. allowed'[k] = Since(allowed[k], now', Window[k])
    BY <1>1
  <2>2. allowed'[k] \subseteq allowed[k] /\ IsFiniteSet(allowed[k])
    BY <2>1 DEF Since, LimInv, Tracks
  <2>3. IsFiniteSet(allowed'[k])
    BY <2>2, FS_Subset
  <2>4. Since(HitsOf(buckets, k), now', Window[k]) \subseteq Since(HitsOf(buckets, k), now, Window[k])
    BY <1>2, <1>5, Times DEF Since
  <2>5. Since(HitsOf(buckets, k), now, Window[k]) \subseteq Standing(k)
        /\ Since(Standing(k), now, MaxWindow) \subseteq HitsOf(buckets, k)
    BY DEF LimInv, Tracks, Recent
  <2>6. Since(HitsOf(buckets, k), now', Window[k]) \subseteq {h \in allowed'[k] : h.life = lives[k]}
    BY <2>1, <2>4, <2>5 DEF Since, Standing
  <2>7. Since({h \in allowed'[k] : h.life = lives[k]}, now', MaxWindow) \subseteq Since(Standing(k), now, MaxWindow)
    BY <1>2, <1>5, <2>2, Times DEF Since, Standing
  <2>8. Since(allowed'[k], now', Span(k)) \subseteq Since(allowed[k], now, Span(k))
    BY <1>2, <1>5, <2>2, Times DEF Since
  <2> QED  BY <2>1, <2>2, <2>3, <2>5, <2>6, <2>7, <2>8 DEF Since
<1>7. Tracks'
  BY <1>1, <1>6 DEF Tracks, Standing, Recent, HitsOf, Since
<1>8. Numbered'
  <2>1. ASSUME NEW k \in Keys, NEW g \in Since(allowed'[k], now', Span(k)), NEW h \in Since(allowed'[k], now', Span(k)),
               g.life = h.life, g.n = h.n
        PROVE  g = h
    BY <1>6, <2>1 DEF LimInv, Numbered
  <2> QED  BY <2>1 DEF Numbered, Since, Span
<1>9. Lives'
  <2>1. ASSUME NEW k \in Keys, NEW h \in Since(allowed'[k], now', Span(k)), h.life < lives[k]
        PROVE  \E x \in losses'[k] : x.life = h.life /\ h.at <= x.at
    <3>1. h \in Since(allowed[k], now, Span(k)) /\ h \in Hits /\ now' - h.at < Span(k)
      BY <1>2, <1>6 DEF Since
    <3>2. PICK x \in losses[k] : x.life = h.life /\ h.at <= x.at
      BY <2>1, <3>1 DEF LimInv, Lives
    <3>3. x.at \in Nat /\ h.at \in Nat
      BY <3>1, <3>2 DEF LimInv, LimiterTypeOK, Hits
    <3>4. now' - x.at < Span(k)
      BY <1>1, <3>1, <3>2, <3>3, Times
    <3> QED  BY <1>1, <3>2, <3>4 DEF Since
  <2>2. ASSUME NEW k \in Keys
        PROVE  /\ IsFiniteSet(losses'[k])
               /\ \A h \in allowed'[k] : h.life <= lives[k] /\ h.at <= now'
    <3>1. losses'[k] \subseteq losses[k] /\ IsFiniteSet(losses[k])
      BY <1>1 DEF Since, LimInv, Lives
    <3>2. \A h \in allowed'[k] : h.life <= lives[k] /\ h.at <= now /\ h.at \in Nat
      BY <1>2, <1>6 DEF LimInv, Lives, Hits
    <3> QED  BY <1>1, <3>1, <3>2, FS_Subset
  <2> QED  BY <1>1, <2>1, <2>2 DEF Lives, Since, Span
<1> QED  BY <1>3, <1>4, <1>7, <1>8, <1>9 DEF LimInv

LEMMA LimInitHolds == ASSUME LimiterInit PROVE LimInv
<1>1. DOMAIN buckets = {} /\ IsFiniteSet({}) /\ Cardinality({}) = 0
  BY FS_EmptySet DEF LimiterInit
<1> QED  BY <1>1, LimiterAssumption DEF LimiterInit, LimInv, LimiterTypeOK, Table, Tracks, Standing, Numbered, Lives,
            HitsOf, Recent, Since

LEMMA LimStep == ASSUME LimInv, [LimiterNext]_limiterVars PROVE LimInv'
<1>1. ASSUME UNCHANGED limiterVars PROVE LimInv'
  BY <1>1 DEF limiterVars, LimInv, LimiterTypeOK, Table, Tracks, Standing, Numbered, Lives, Span, HitsOf, Recent,
              Since, Hits
<1> QED  BY <1>1, RateLimitKeeps, RestartKeeps, TickKeeps DEF LimiterNext

\* A hit is told by its bucket and its number: there are Limit numbers, and
\* one bucket more than were lost.
LEMMA AtMostPerBucket ==
  ASSUME LimInv, NEW k \in Keys
  PROVE  Cardinality(Since(allowed[k], now, Span(k))) <= Limit * (1 + Cardinality(losses[k]))
<1> DEFINE S == Since(allowed[k], now, Span(k))
<1> DEFINE earlier == {x.life : x \in losses[k]}
<1> DEFINE L == earlier \cup {lives[k]}
<1> DEFINE born == [x \in losses[k] |-> x.life]
<1> DEFINE tag == [h \in S |-> <<h.life, h.n>>]
<1>0. Limit \in Nat /\ IsFiniteSet(losses[k]) /\ Cardinality(losses[k]) \in Nat
  BY Times, FS_CardinalityType DEF LimInv, Lives
<1>1. born \in Surjection(losses[k], earlier)
  BY DEF Surjection
<1>2. IsFiniteSet(earlier) /\ Cardinality(earlier) <= Cardinality(losses[k])
  BY <1>0, <1>1, FS_Surjection
<1> HIDE DEF earlier
<1>3. IsFiniteSet(L) /\ Cardinality(L) <= Cardinality(earlier) + 1
  BY <1>2, AddOne
<1>4. IsFiniteSet(1..Limit) /\ Cardinality(1..Limit) = Limit
  BY <1>0, FS_Interval
<1>5. IsFiniteSet(L \X (1..Limit)) /\ Cardinality(L \X (1..Limit)) = Cardinality(L) * Limit
  BY <1>3, <1>4, FS_Product
<1>6. ASSUME NEW h \in S PROVE h.life \in L /\ h.n \in 1..Limit
  <2>1. h \in allowed[k] /\ h \in Hits /\ h.life <= lives[k]
    BY DEF Since, LimInv, LimiterTypeOK, Lives
  <2>2. h.life < lives[k] => h.life \in earlier
    BY DEF LimInv, Lives, earlier
  <2>3. h.life \in Nat /\ lives[k] \in Nat /\ h.n \in 1..Limit
    BY <2>1, Times DEF LimInv, LimiterTypeOK, Hits
  <2> QED  BY <2>1, <2>2, <2>3
<1> HIDE DEF L
<1>7. tag \in [S -> L \X (1..Limit)]
  BY <1>6
<1>8. \A g, h \in S : tag[g] = tag[h] => g = h
  <2> SUFFICES ASSUME NEW g \in S, NEW h \in S, tag[g] = tag[h] PROVE g = h
    OBVIOUS
  <2>1. g.life = h.life /\ g.n = h.n
    OBVIOUS
  <2> QED  BY <2>1 DEF LimInv, Numbered
<1> HIDE DEF S
<1>9. tag \in Injection(S, L \X (1..Limit))
  BY <1>7, <1>8 DEF Injection, IsInjective
<1>10. IsFiniteSet(S) /\ Cardinality(S) <= Cardinality(L \X (1..Limit))
  BY <1>5, <1>9, FS_Injection
<1>11. /\ Cardinality(S) \in Nat /\ Cardinality(L) \in Nat /\ Cardinality(earlier) \in Nat
       /\ Cardinality(S) <= Cardinality(L) * Limit
  BY <1>2, <1>3, <1>5, <1>10, FS_CardinalityType
<1>12. Cardinality(L) <= 1 + Cardinality(losses[k])
  BY <1>0, <1>2, <1>3, <1>11
<1>13. \A a, b, c \in Nat : a <= b => a * c <= c * b
  OBVIOUS
<1>14. 1 + Cardinality(losses[k]) \in Nat
  BY <1>0
<1>15. Cardinality(L) * Limit <= Limit * (1 + Cardinality(losses[k]))
  BY <1>0, <1>11, <1>12, <1>13, <1>14
<1> QED  BY <1>0, <1>11, <1>14, <1>15 DEF S

\* A call that finds fewer than Limit allowed is allowed, and counted once.
LEMMA InTurn ==
  ASSUME LimInv, NEW k \in Keys, RateLimit(k), Cardinality(Standing(k)) < Limit
  PROVE  Cardinality(allowed'[k]) = Cardinality(allowed[k]) + 1
<1>1. allowed'[k] = allowed[k] \cup Left(k)
  BY RateLimitShows
<1>2. IsFiniteSet(allowed[k]) /\ IsFiniteSet(Standing(k)) /\ Counting(k) \subseteq Standing(k)
  BY CountingIsAllowed, FS_Subset DEF LimInv, Tracks, Standing
<1>3. Cardinality(Counting(k)) <= Cardinality(Standing(k))
  BY <1>2, FS_Subset
<1>4. Cardinality(Counting(k)) < Limit
  BY <1>2, <1>3, CountingIsAllowed, FS_CardinalityType, Times
<1>5. allowed'[k] = allowed[k] \cup {Hit(Counting(k), k)}
  BY <1>1, <1>2, <1>4 DEF Left, Standing
<1> QED  BY <1>2, <1>4, <1>5, NewHit, FS_AddElement

\* The limit is kept from both sides, for any keys, windows, number of
\* buckets and times of sweeping: within its window, or MaxWindow if that is
\* shorter, a key has no more than Limit allowed calls for each bucket it had
\* in that time, and a call is refused only after that many of one bucket.
THEOREM LimitStays == LimiterInit /\ [][LimiterNext]_limiterVars => LimitHolds
<1>1. LimiterInit => LimInv
  BY LimInitHolds
<1>2. LimInv /\ [LimiterNext]_limiterVars => LimInv'
  BY LimStep
<1>3. LimInv => LimiterTypeOK /\ WindowHolds
  BY AtMostPerBucket DEF LimInv, WindowHolds
<1>4. LimInv => [\A k \in Keys : RateLimit(k) /\ Cardinality(Standing(k)) < Limit =>
                   Cardinality(allowed'[k]) = Cardinality(allowed[k]) + 1]_limiterVars
  BY InTurn
<1> QED  BY <1>1, <1>2, <1>3, <1>4, PTL DEF LimitHolds, RefusedInTurn

-----------------------------------------------------------------------------
(* The click route and the pruning.                                        *)

Run == [at : {"prior", "insert", "bump", "redirect"}, b : [of : Deliveries, press : Buttons \cup {Body}]]
Sent(d) == row[d] = Gone \/ row[d].is = "sent"

Shape ==
  /\ DOMAIN row = Deliveries /\ DOMAIN clicked = Deliveries
  /\ web # Rests => web \in Run /\ (web.at = "bump" => web.b.press \in Buttons)

\* What is shown, pressed or clicked was sent: the row is no longer queued.
Shown ==
  /\ \A d \in Deliveries : note[d] # "none" \/ clicked[d] # Gone => Sent(d)
  /\ \A b \in beacons : Sent(b.of)
  /\ web # Rests => Sent(web.b.of)

\* A click comes on the day its row was sent, or later, and not in the future.
Dated ==
  \A d \in Deliveries :
    /\ row[d] # Gone => row[d].at <= day
    /\ clicked[d] # Gone => clicked[d].at <= day
    /\ row[d] # Gone /\ clicked[d] # Gone => row[d].at <= clicked[d].at

\* When the events are pruned, the deliveries of the aged ones are gone, as
\* long as the settings keep events for longer.
RowsFirst == worker = "events" /\ ~ missed /\ Ordered => \A d \in Deliveries : Aged(d) => row[d] = Gone

\* A delivery that a click can find, and that has no event, was counted no
\* more often than its events were pruned early.
CountedStays ==
  \A d \in Deliveries :
    /\ times[d] <= 1 + early[d]
    /\ Reachable(d) /\ clicked[d] = Gone => times[d] <= early[d]
    /\ web.at = "insert" /\ web.b.of = d => clicked[d] = Gone /\ times[d] <= early[d]

ClicksInv == ClicksTypeOK /\ Shape /\ Shown /\ Dated /\ RowsFirst /\ CountedStays /\ TallyHolds

(* Each action keeps the invariant.                                        *)

LEMMA EndKeeps == ASSUME ClicksInv, End PROVE ClicksInv'
<1>1. ClicksTypeOK'
  BY DEF ClicksInv, ClicksTypeOK, End, server, history, prunes
<1>2. Shape'
  BY DEF ClicksInv, Shape, Run, End, server, history, prunes
<1>3. Shown'
  BY DEF ClicksInv, Shown, Sent, End, server, history, prunes
<1>4. Dated'
  BY DEF ClicksInv, Dated, End, server, history, prunes
<1>5. RowsFirst'
  BY DEF ClicksInv, RowsFirst, Ordered, Aged, Older, End, server, history, prunes
<1>6. CountedStays'
  BY DEF ClicksInv, CountedStays, Reachable, End, server, history, prunes
<1>7. TallyHolds'
  BY DEF ClicksInv, TallyHolds, Counted, End, server, history, prunes
<1> QED  BY <1>1, <1>2, <1>3, <1>4, <1>5, <1>6, <1>7 DEF ClicksInv

LEMMA LoseKeeps == ASSUME ClicksInv, NEW b \in beacons, Lose(b) PROVE ClicksInv'
<1>1. ClicksTypeOK'
  BY DEF ClicksInv, ClicksTypeOK, Lose, server, history, prunes
<1>2. Shape'
  BY DEF ClicksInv, Shape, Run, Lose, server, history, prunes
<1>3. Shown'
  BY DEF ClicksInv, Shown, Sent, Lose, server, history, prunes
<1>4. Dated'
  BY DEF ClicksInv, Dated, Lose, server, history, prunes
<1>5. RowsFirst'
  BY DEF ClicksInv, RowsFirst, Ordered, Aged, Older, Lose, server, history, prunes
<1>6. CountedStays'
  BY DEF ClicksInv, CountedStays, Reachable, Lose, server, history, prunes
<1>7. TallyHolds'
  BY DEF ClicksInv, TallyHolds, Counted, Lose, server, history, prunes
<1> QED  BY <1>1, <1>2, <1>3, <1>4, <1>5, <1>6, <1>7 DEF ClicksInv

LEMMA RedirectKeeps == ASSUME ClicksInv, Redirect PROVE ClicksInv'
<1>1. ClicksTypeOK'
  BY DEF ClicksInv, ClicksTypeOK, Redirect, Rests, Run, server, history, prunes
<1>2. Shape'
  BY DEF ClicksInv, Shape, Run, Redirect, Rests, server, history, prunes
<1>3. Shown'
  BY DEF ClicksInv, Shown, Sent, Redirect, Rests, Run, server, history, prunes
<1>4. Dated'
  BY DEF ClicksInv, Dated, Redirect, Rests, Run, server, history, prunes
<1>5. RowsFirst'
  BY DEF ClicksInv, RowsFirst, Ordered, Aged, Older, Redirect, Rests, Run, server, history, prunes
<1>6. CountedStays'
  BY DEF ClicksInv, CountedStays, Reachable, Redirect, Rests, Run, server, history, prunes
<1>7. TallyHolds'
  BY DEF ClicksInv, TallyHolds, Counted, Redirect, Rests, Run, server, history, prunes
<1> QED  BY <1>1, <1>2, <1>3, <1>4, <1>5, <1>6, <1>7 DEF ClicksInv

LEMMA WebRestartsKeeps == ASSUME ClicksInv, WebRestarts PROVE ClicksInv'
<1>1. ClicksTypeOK'
  BY ClicksAssumption DEF ClicksInv, ClicksTypeOK, WebRestarts, Rests, Run, server, history, prunes
<1>2. Shape'
  BY DEF ClicksInv, Shape, Run, WebRestarts, Rests, server, history, prunes
<1>3. Shown'
  BY DEF ClicksInv, Shown, Sent, WebRestarts, Rests, Run, server, history, prunes
<1>4. Dated'
  BY DEF ClicksInv, Dated, WebRestarts, Rests, Run, server, history, prunes
<1>5. RowsFirst'
  BY DEF ClicksInv, RowsFirst, Ordered, Aged, Older, WebRestarts, Rests, Run, server, history, prunes
<1>6. CountedStays'
  BY DEF ClicksInv, CountedStays, Reachable, WebRestarts, Rests, Run, server, history, prunes
<1>7. TallyHolds'
  BY DEF ClicksInv, TallyHolds, Counted, WebRestarts, Rests, Run, server, history, prunes
<1> QED  BY <1>1, <1>2, <1>3, <1>4, <1>5, <1>6, <1>7 DEF ClicksInv

LEMMA BeginPruneKeeps == ASSUME ClicksInv, BeginPrune PROVE ClicksInv'
<1>1. ClicksTypeOK'
  BY DEF ClicksInv, ClicksTypeOK, BeginPrune, Then, server, history, prunes
<1>2. Shape'
  BY DEF ClicksInv, Shape, Run, BeginPrune, Then, server, history, prunes
<1>3. Shown'
  BY DEF ClicksInv, Shown, Sent, BeginPrune, Then, server, history, prunes
<1>4. Dated'
  BY DEF ClicksInv, Dated, BeginPrune, Then, server, history, prunes
<1>5. RowsFirst'
  BY DEF ClicksInv, RowsFirst, Ordered, Aged, Older, BeginPrune, Then, server, history, prunes
<1>6. CountedStays'
  BY DEF ClicksInv, CountedStays, Reachable, BeginPrune, Then, server, history, prunes
<1>7. TallyHolds'
  BY DEF ClicksInv, TallyHolds, Counted, BeginPrune, Then, server, history, prunes
<1> QED  BY <1>1, <1>2, <1>3, <1>4, <1>5, <1>6, <1>7 DEF ClicksInv

LEMMA PruneFailsKeeps == ASSUME ClicksInv, PruneFails PROVE ClicksInv'
<1>1. ClicksTypeOK'
  BY ClicksAssumption DEF ClicksInv, ClicksTypeOK, PruneFails, Then, server, history, prunes
<1>2. Shape'
  BY DEF ClicksInv, Shape, Run, PruneFails, Then, server, history, prunes
<1>3. Shown'
  BY DEF ClicksInv, Shown, Sent, PruneFails, Then, server, history, prunes
<1>4. Dated'
  BY DEF ClicksInv, Dated, PruneFails, Then, server, history, prunes
<1>5. RowsFirst'
  BY DEF ClicksInv, RowsFirst, Ordered, Aged, Older, PruneFails, Then, server, history, prunes
<1>6. CountedStays'
  BY DEF ClicksInv, CountedStays, Reachable, PruneFails, Then, server, history, prunes
<1>7. TallyHolds'
  BY DEF ClicksInv, TallyHolds, Counted, PruneFails, Then, server, history, prunes
<1> QED  BY <1>1, <1>2, <1>3, <1>4, <1>5, <1>6, <1>7 DEF ClicksInv

LEMMA WriteMarkerKeeps == ASSUME ClicksInv, WriteMarker PROVE ClicksInv'
<1>1. ClicksTypeOK'
  BY DEF ClicksInv, ClicksTypeOK, WriteMarker, EndPrune, Unread, server, history, prunes
<1>2. Shape'
  BY DEF ClicksInv, Shape, Run, WriteMarker, EndPrune, Unread, server, history, prunes
<1>3. Shown'
  BY DEF ClicksInv, Shown, Sent, WriteMarker, EndPrune, Unread, server, history, prunes
<1>4. Dated'
  BY DEF ClicksInv, Dated, WriteMarker, EndPrune, Unread, server, history, prunes
<1>5. RowsFirst'
  BY DEF ClicksInv, RowsFirst, Ordered, Aged, Older, WriteMarker, EndPrune, Unread, server, history, prunes
<1>6. CountedStays'
  BY DEF ClicksInv, CountedStays, Reachable, WriteMarker, EndPrune, Unread, server, history, prunes
<1>7. TallyHolds'
  BY DEF ClicksInv, TallyHolds, Counted, WriteMarker, EndPrune, Unread, server, history, prunes
<1> QED  BY <1>1, <1>2, <1>3, <1>4, <1>5, <1>6, <1>7 DEF ClicksInv

LEMMA WorkerRestartsKeeps == ASSUME ClicksInv, WorkerRestarts PROVE ClicksInv'
<1>1. ClicksTypeOK'
  BY ClicksAssumption DEF ClicksInv, ClicksTypeOK, WorkerRestarts, EndPrune, Unread, server, history, prunes
<1>2. Shape'
  BY DEF ClicksInv, Shape, Run, WorkerRestarts, EndPrune, Unread, server, history, prunes
<1>3. Shown'
  BY DEF ClicksInv, Shown, Sent, WorkerRestarts, EndPrune, Unread, server, history, prunes
<1>4. Dated'
  BY DEF ClicksInv, Dated, WorkerRestarts, EndPrune, Unread, server, history, prunes
<1>5. RowsFirst'
  BY DEF ClicksInv, RowsFirst, Ordered, Aged, Older, WorkerRestarts, EndPrune, Unread, server, history, prunes
<1>6. CountedStays'
  BY DEF ClicksInv, CountedStays, Reachable, WorkerRestarts, EndPrune, Unread, server, history, prunes
<1>7. TallyHolds'
  BY DEF ClicksInv, TallyHolds, Counted, WorkerRestarts, EndPrune, Unread, server, history, prunes
<1> QED  BY <1>1, <1>2, <1>3, <1>4, <1>5, <1>6, <1>7 DEF ClicksInv

LEMMA NextDayKeeps == ASSUME ClicksInv, NextDay PROVE ClicksInv'
<1>1. ClicksTypeOK'
  BY ClicksAssumption DEF ClicksInv, ClicksTypeOK, NextDay, server, history, prunes
<1>2. Shape'
  BY DEF ClicksInv, Shape, Run, NextDay, Rests, server, history, prunes
<1>3. Shown'
  BY DEF ClicksInv, Shown, Sent, NextDay, Rests, server, history, prunes
<1>4. Dated'
  <2>1. /\ day \in Nat /\ day' = day + 1 /\ row' = row /\ clicked' = clicked
        /\ \A d \in Deliveries : /\ row[d] # Gone => row[d].at \in Nat
                                 /\ clicked[d] # Gone => clicked[d].at \in Nat
    BY DEF ClicksInv, ClicksTypeOK, NextDay, server
  <2>2. ASSUME NEW d \in Deliveries
        PROVE  /\ row[d] # Gone => row[d].at <= day'
               /\ clicked[d] # Gone => clicked[d].at <= day'
               /\ row[d] # Gone /\ clicked[d] # Gone => row[d].at <= clicked[d].at
    <3>1. /\ row[d] # Gone => row[d].at <= day
          /\ clicked[d] # Gone => clicked[d].at <= day
          /\ row[d] # Gone /\ clicked[d] # Gone => row[d].at <= clicked[d].at
      BY DEF ClicksInv, Dated
    <3>2. /\ day \in Nat /\ day' = day + 1
          /\ row[d] # Gone => row[d].at \in Nat
          /\ clicked[d] # Gone => clicked[d].at \in Nat
      BY <2>1
    <3>3. \A n \in Nat : n <= day => n <= day'
      BY <3>2
    <3> QED  BY <3>1, <3>2, <3>3
  <2> QED  BY <2>1, <2>2 DEF Dated
<1>5. RowsFirst'
  BY DEF ClicksInv, RowsFirst, Ordered, Aged, Older, NextDay, Rests, server, history, prunes
<1>6. CountedStays'
  BY DEF ClicksInv, CountedStays, Reachable, NextDay, Rests, server, history, prunes
<1>7. TallyHolds'
  BY DEF ClicksInv, TallyHolds, Counted, NextDay, Rests, server, history, prunes
<1> QED  BY <1>1, <1>2, <1>3, <1>4, <1>5, <1>6, <1>7 DEF ClicksInv

LEMMA TouchKeeps == ASSUME ClicksInv, NEW d \in Deliveries, NEW press \in Buttons \cup {Body, Close}, Touch(d, press) PROVE ClicksInv'
<1>1. ClicksTypeOK'
  BY DEF ClicksInv, ClicksTypeOK, Touch, server, history, prunes
<1>2. Shape'
  BY DEF ClicksInv, Shape, Run, Touch, server, history, prunes
<1>3. Shown'
  BY DEF ClicksInv, Shown, Sent, Touch, server, history, prunes
<1>4. Dated'
  BY DEF ClicksInv, Dated, Touch, server, history, prunes
<1>5. RowsFirst'
  BY DEF ClicksInv, RowsFirst, Ordered, Aged, Older, Touch, server, history, prunes
<1>6. CountedStays'
  BY DEF ClicksInv, CountedStays, Reachable, Touch, server, history, prunes
<1>7. TallyHolds'
  BY DEF ClicksInv, TallyHolds, Counted, Touch, server, history, prunes
<1> QED  BY <1>1, <1>2, <1>3, <1>4, <1>5, <1>6, <1>7 DEF ClicksInv

LEMMA ReceiveKeeps == ASSUME ClicksInv, NEW b \in beacons, Receive(b) PROVE ClicksInv'
<1>1. ClicksTypeOK'
  BY DEF ClicksInv, ClicksTypeOK, Receive, Unknown, Prior, Rests, Run, server, history, prunes
<1>2. Shape'
  <2>1. b \in [of : Deliveries, press : Buttons \cup {Body, Close}]
    BY DEF ClicksInv, ClicksTypeOK
  <2>2. web' = web \/ (b.press # Close /\ web' = [at |-> "prior", b |-> b])
    BY DEF Receive
  <2>3. CASE web' = web
    BY <2>3 DEF ClicksInv, Shape, Receive
  <2>4. CASE b.press # Close /\ web' = [at |-> "prior", b |-> b]
    <3>1. b \in [of : Deliveries, press : Buttons \cup {Body}]
      BY <2>1, <2>4
    <3>2. web' \in Run /\ web'.at # "bump"
      BY <2>4, <3>1 DEF Run
    <3> QED  BY <3>2 DEF ClicksInv, Shape, Receive, Run
  <2> QED  BY <2>2, <2>3, <2>4
<1>3. Shown'
  BY DEF ClicksInv, Shown, Sent, Receive, Unknown, Prior, Rests, Run, server, history, prunes
<1>4. Dated'
  BY DEF ClicksInv, Dated, Receive, Unknown, Prior, Rests, Run, server, history, prunes
<1>5. RowsFirst'
  BY DEF ClicksInv, RowsFirst, Ordered, Aged, Older, Receive, Unknown, Prior, Rests, Run, server, history, prunes
<1>6. CountedStays'
  <2>1. /\ b.of \in Deliveries /\ row' = row /\ clicked' = clicked /\ times' = times /\ early' = early
    BY DEF ClicksInv, ClicksTypeOK, Receive, history
  <2>2. web' = web \/ (web' = [at |-> "prior", b |-> b] /\ row[b.of] # Gone)
    BY DEF Receive, Unknown
  <2>3. \A d \in Deliveries : (web'.at = "prior" /\ web'.b.of = d => Reachable(d)) /\ (web'.at = "insert" => web' = web)
    BY <2>2 DEF Reachable
  <2> QED  BY <2>1, <2>3 DEF ClicksInv, CountedStays, Reachable
<1>7. TallyHolds'
  BY DEF ClicksInv, TallyHolds, Counted, Receive, Unknown, Prior, Rests, Run, server, history, prunes
<1> QED  BY <1>1, <1>2, <1>3, <1>4, <1>5, <1>6, <1>7 DEF ClicksInv

LEMMA LookUpKeeps == ASSUME ClicksInv, LookUpPrior PROVE ClicksInv'
<1>0. /\ web # Rests /\ web \in Run /\ web.at = "prior" /\ web.b.of \in Deliveries
      /\ web' \in Run /\ web'.b = web.b
      /\ web'.at = IF clicked[web.b.of] # Gone THEN "redirect" ELSE "insert"
      /\ clicked' = clicked /\ row' = row /\ times' = times /\ early' = early
  <2>1. web # Rests /\ web.at = "prior"
    BY DEF LookUpPrior, Rests
  <2>2. web \in Run
    BY <2>1 DEF ClicksInv, Shape
  <2> QED  BY <2>1, <2>2 DEF LookUpPrior, Prior, Run, history
<1>1. ClicksTypeOK'
  BY DEF ClicksInv, ClicksTypeOK, LookUpPrior, history, prunes
<1>2. Shape'
  BY <1>0 DEF ClicksInv, Shape
<1>3. Shown'
  BY <1>0 DEF ClicksInv, Shown, Sent, LookUpPrior
<1>4. Dated'
  BY DEF ClicksInv, Dated, LookUpPrior, history, prunes
<1>5. RowsFirst'
  BY DEF ClicksInv, RowsFirst, Ordered, Aged, Older, LookUpPrior, history, prunes
<1>6. CountedStays'
  <2>1. Reachable(web.b.of)
    BY <1>0 DEF Reachable
  <2>2. \A d \in Deliveries : Reachable(d)' => Reachable(d)
    BY <1>0 DEF Reachable
  <2> QED  BY <1>0, <2>1, <2>2 DEF ClicksInv, CountedStays
<1>7. TallyHolds'
  BY <1>0 DEF ClicksInv, TallyHolds, Counted, LookUpPrior, history
<1> QED  BY <1>1, <1>2, <1>3, <1>4, <1>5, <1>6, <1>7 DEF ClicksInv

LEMMA BumpKeeps == ASSUME ClicksInv, BumpButtonStat PROVE ClicksInv'
<1>1. ClicksTypeOK'
  <2>1. /\ web # Rests /\ web.b.press \in Buttons
    BY DEF ClicksInv, Shape, BumpButtonStat, Rests
  <2>2. tally' \in [Buttons -> Nat]
    BY <2>1 DEF ClicksInv, ClicksTypeOK, BumpButtonStat
  <2> QED  BY <2>2 DEF ClicksInv, ClicksTypeOK, BumpButtonStat, history, prunes
<1>2. Shape'
  BY DEF ClicksInv, Shape, Run, BumpButtonStat, Rests, server, history, prunes
<1>3. Shown'
  BY DEF ClicksInv, Shown, Sent, BumpButtonStat, Rests, Run, server, history, prunes
<1>4. Dated'
  BY DEF ClicksInv, Dated, BumpButtonStat, Rests, Run, server, history, prunes
<1>5. RowsFirst'
  BY DEF ClicksInv, RowsFirst, Ordered, Aged, Older, BumpButtonStat, Rests, Run, server, history, prunes
<1>6. CountedStays'
  BY DEF ClicksInv, CountedStays, Reachable, BumpButtonStat, Rests, Run, server, history, prunes
<1>7. TallyHolds'
  <2>1. /\ web # Rests /\ web.b.press \in Buttons /\ tally \in [Buttons -> Nat]
    BY DEF ClicksInv, ClicksTypeOK, Shape, BumpButtonStat, Rests
  <2>2. /\ tally' = [tally EXCEPT ![web.b.press] = @ + 1] /\ web.at = "bump" /\ web'.at = "redirect"
        /\ clicked' = clicked /\ torn' = torn
    BY <2>1 DEF ClicksInv, Shape, Run, BumpButtonStat, history
  <2>3. ASSUME NEW b \in Buttons, ~ torn
        PROVE  Cardinality(Counted(b)) <= tally'[b]
    <3>1. Cardinality(Counted(b)) <= tally[b] + (IF web.b.press = b THEN 1 ELSE 0)
      BY <2>1, <2>2, <2>3 DEF ClicksInv, TallyHolds
    <3>2. tally'[b] = tally[b] + (IF web.b.press = b THEN 1 ELSE 0)
      BY <2>1, <2>2
    <3> QED  BY <3>1, <3>2
  <2>4. \A b \in Buttons : Counted(b)' = Counted(b) /\ tally'[b] + 0 = tally'[b]
    BY <2>1, <2>2 DEF Counted
  <2> QED  BY <2>2, <2>3, <2>4 DEF TallyHolds
<1> QED  BY <1>1, <1>2, <1>3, <1>4, <1>5, <1>6, <1>7 DEF ClicksInv

LEMMA PushKeeps == ASSUME ClicksInv, NEW d \in Deliveries, Push(d) PROVE ClicksInv'
<1>0. /\ row[d] # Gone /\ row[d].is = "queued" /\ clicked' = clicked /\ day' = day
      /\ beacons' = beacons /\ web' = web /\ day \in 0..MaxDays
      /\ row'[d] = [is |-> "sent", at |-> day] /\ DOMAIN row' = Deliveries
      /\ \A x \in Deliveries : x # d => row'[x] = row[x]
      /\ note' \in {note, [note EXCEPT ![d] = "shown"]}
  BY DEF ClicksInv, ClicksTypeOK, Shape, Push, server
<1>1. ClicksTypeOK'
  BY <1>0 DEF ClicksInv, ClicksTypeOK, Shape, Push, server, history, prunes
<1>2. Shape'
  BY DEF ClicksInv, Shape, Push, server, history
<1>3. Shown'
  <2>1. \A x \in Deliveries : x # d => row'[x] = row[x] /\ note'[x] = note[x] /\ (Sent(x) => Sent(x)')
    BY <1>0, <1>2 DEF ClicksInv, ClicksTypeOK, Shape, Push, Sent
  <2>2. Sent(d)'
    BY <1>0 DEF Sent
  <2> QED  BY <1>0, <2>1, <2>2 DEF ClicksInv, ClicksTypeOK, Shape, Shown, Run
<1>4. Dated'
  <2>1. clicked[d] = Gone /\ day \in Nat
    BY <1>0 DEF ClicksInv, ClicksTypeOK, Shown, Sent
  <2> QED  BY <1>0, <2>1 DEF ClicksInv, Dated
<1>5. RowsFirst'
  <2>1. clicked[d] = Gone
    BY <1>0 DEF ClicksInv, Shown, Sent
  <2> QED  BY <1>0, <2>1 DEF ClicksInv, RowsFirst, Ordered, Aged, Older, Push, prunes, server, history
<1>6. CountedStays'
  <2> QED  BY <1>0 DEF ClicksInv, CountedStays, Reachable, Push, server, history
<1>7. TallyHolds'
  BY DEF ClicksInv, TallyHolds, Counted, Push, server, history, prunes
<1> QED  BY <1>1, <1>2, <1>3, <1>4, <1>5, <1>6, <1>7 DEF ClicksInv

LEMMA InsertKeeps == ASSUME ClicksInv, InsertClick PROVE ClicksInv'
<1> DEFINE b == web.b
<1>0. /\ web # Rests /\ web.at = "insert" /\ b \in [of : Deliveries, press : Buttons \cup {Body}]
      /\ web' = [web EXCEPT !.at = IF IsButton(b.press) THEN "bump" ELSE "redirect"]
      /\ web' \in Run /\ web'.b = b /\ web'.at = IF IsButton(b.press) THEN "bump" ELSE "redirect"
      /\ clicked'[b.of] = [by |-> b.press, at |-> day] /\ day \in 0..MaxDays
      /\ \A d \in Deliveries : d # b.of => clicked'[d] = clicked[d]
      /\ DOMAIN clicked' = Deliveries /\ row' = row /\ note' = note /\ beacons' = beacons
      /\ day' = day /\ tally' = tally /\ torn' = torn /\ missed' = missed /\ early' = early
  <2>1. web # Rests /\ web.at = "insert" /\ web \in Run
    BY DEF ClicksInv, Shape, InsertClick, Rests
  <2> QED  BY <2>1 DEF InsertClick, Run, ClicksInv, ClicksTypeOK, Shape
<1>1. ClicksTypeOK'
  BY <1>0 DEF ClicksInv, ClicksTypeOK, InsertClick, prunes
<1>2. Shape'
  BY <1>0 DEF ClicksInv, Shape, IsButton
<1>3. Shown'
  BY <1>0 DEF ClicksInv, Shown, Sent, Rests
<1>4. Dated'
  <2>1. day \in Nat
    BY DEF ClicksInv, ClicksTypeOK
  <2> QED  BY <1>0, <2>1 DEF ClicksInv, Dated
<1>5. RowsFirst'
  <2>1. day \in Nat /\ keep.evt \in Nat /\ keep' = keep /\ worker' = worker
    BY ClicksAssumption DEF ClicksInv, ClicksTypeOK, InsertClick, prunes
  <2>2. \A d \in Deliveries : Aged(d)' => Aged(d)
    BY <1>0, <2>1 DEF Aged, Older
  <2> QED  BY <1>0, <2>1, <2>2 DEF ClicksInv, RowsFirst, Ordered
<1>6. CountedStays'
  <2>1. times[b.of] <= early[b.of] /\ times[b.of] \in Nat /\ early[b.of] \in Nat
    BY <1>0 DEF ClicksInv, ClicksTypeOK, CountedStays
  <2>2. /\ times'[b.of] = times[b.of] + 1 /\ \A d \in Deliveries : d # b.of => times'[d] = times[d]
    BY <1>0 DEF ClicksInv, ClicksTypeOK, InsertClick
  <2>3. clicked'[b.of] # Gone
    BY <1>0, ClicksAssumption DEF ClicksInv, ClicksTypeOK
  <2>4. \A d \in Deliveries : Reachable(d)' => Reachable(d)
    BY <1>0 DEF Reachable, IsButton
  <2>5. times'[b.of] <= 1 + early[b.of] /\ web'.at # "insert"
    BY <1>0, <2>1, <2>2
  <2>6. \A d \in Deliveries : d # b.of => /\ times[d] <= 1 + early[d]
                                          /\ Reachable(d)' /\ clicked'[d] = Gone => times[d] <= early[d]
    BY <1>0, <2>4 DEF ClicksInv, CountedStays
  <2>7. ASSUME NEW d \in Deliveries
        PROVE  /\ times'[d] <= 1 + early'[d]
               /\ Reachable(d)' /\ clicked'[d] = Gone => times'[d] <= early'[d]
    <3>1. CASE d = b.of
      BY <1>0, <2>3, <2>5, <3>1
    <3>2. CASE d # b.of
      <4>1. times'[d] = times[d] /\ early' = early
        BY <1>0, <2>2, <3>2
      <4>2. /\ times[d] <= 1 + early[d]
            /\ Reachable(d)' /\ clicked'[d] = Gone => times[d] <= early[d]
        BY <2>6, <3>2
      <4> QED  BY <4>1, <4>2
    <3> QED  BY <3>1, <3>2
  <2> QED  BY <2>5, <2>7 DEF CountedStays
<1>7. TallyHolds'
  <2>1. ASSUME NEW x \in Buttons, ~ torn
        PROVE  Cardinality(Counted(x)') <= tally[x] + (IF web'.at = "bump" /\ b.press = x THEN 1 ELSE 0)
    <3>1. IsFiniteSet(Counted(x)) /\ Cardinality(Counted(x)) \in Nat /\ IsFiniteSet(Deliveries) /\ tally[x] \in Nat
      BY ClicksAssumption, FS_Subset, FS_CardinalityType DEF Counted, ClicksInv, ClicksTypeOK
    <3>2. Cardinality(Counted(x)) <= tally[x]
      BY <1>0, <2>1, <3>1 DEF ClicksInv, TallyHolds
    <3>3. CASE b.press = x
      <4>1. Counted(x)' \subseteq Counted(x) \cup {b.of}
        BY <1>0 DEF Counted
      <4>2. /\ IsFiniteSet(Counted(x) \cup {b.of})
            /\ Cardinality(Counted(x) \cup {b.of}) <= Cardinality(Counted(x)) + 1
        BY <3>1, AddOne
      <4>3. Cardinality(Counted(x)') <= Cardinality(Counted(x) \cup {b.of}) /\ IsFiniteSet(Counted(x)')
        BY <4>1, <4>2, FS_Subset
      <4>4. Cardinality(Counted(x)') \in Nat /\ Cardinality(Counted(x) \cup {b.of}) \in Nat
        BY <4>2, <4>3, FS_CardinalityType
      <4>5. web'.at = "bump"
        BY <1>0, <3>3 DEF IsButton
      <4> QED  BY <3>1, <3>2, <3>3, <4>2, <4>3, <4>4, <4>5
    <3>4. CASE b.press # x
      <4>1. Counted(x)' \subseteq Counted(x)
        BY <1>0, <3>4 DEF Counted
      <4>2. Cardinality(Counted(x)') <= Cardinality(Counted(x)) /\ IsFiniteSet(Counted(x)')
        BY <3>1, <4>1, FS_Subset
      <4>3. Cardinality(Counted(x)') \in Nat
        BY <4>2, FS_CardinalityType
      <4> QED  BY <3>1, <3>2, <3>4, <4>2, <4>3
    <3> QED  BY <3>3, <3>4
  <2> QED  BY <1>0, <2>1 DEF TallyHolds, InsertClick, Rests
<1> QED  BY <1>1, <1>2, <1>3, <1>4, <1>5, <1>6, <1>7 DEF ClicksInv

\* A retention is a number of days.
LEMMA KeepIsDays == ASSUME ClicksInv PROVE keep.del \in Nat /\ keep.evt \in Nat
<1>1. \A n \in DelDays \cup EvtDays \cup {0} : n \in Nat
  <2>1. DelDays \subseteq Nat /\ EvtDays \subseteq Nat /\ 0 \in Nat
    BY ClicksAssumption
  <2> QED  BY <2>1, Zenon
<1>2. keep \in [del : DelDays \cup {0}, evt : EvtDays \cup {0}]
  BY DEF ClicksInv, ClicksTypeOK
<1>3. keep.del \in DelDays \cup EvtDays \cup {0} /\ keep.evt \in DelDays \cup EvtDays \cup {0}
  BY <1>2, Zenon
<1> QED  BY <1>1, <1>3, Zenon

\* Rows that go: a click whose delivery goes keeps its event.
LEMMA RowsGo ==
  ASSUME ClicksInv, NEW O, O \subseteq Deliveries, DOMAIN row' = Deliveries,
         \A d \in Deliveries : row'[d] = IF d \in O THEN Gone ELSE row[d],
         UNCHANGED <<day, status, note, beacons, server, keep, marker, failing, mishaps>>,
         worker \in {"stranded", "terminal"}, worker' = Then(worker),
         worker = "terminal" => \A d \in Deliveries : Terminal(d) => d \in O
  PROVE  ClicksInv'
<1>0. /\ \A d \in Deliveries : row'[d] = Gone \/ row'[d] = row[d]
      /\ worker' \in {"terminal", "events"} /\ (worker' = "events" => worker = "terminal")
  BY DEF Then
<1>1. ClicksTypeOK'
  BY <1>0 DEF ClicksInv, ClicksTypeOK, server, history
<1>2. Shape'
  BY DEF ClicksInv, Shape, Run, server
<1>3. Shown'
  <2>1. \A d \in Deliveries : Sent(d) => Sent(d)'
    BY <1>0 DEF Sent
  <2>2. web # Rests => web.b.of \in Deliveries
    BY DEF ClicksInv, Shape, Run
  <2>3. \A b \in beacons : b.of \in Deliveries
    BY DEF ClicksInv, ClicksTypeOK
  <2> QED  BY <2>1, <2>2, <2>3 DEF ClicksInv, Shown, server, Rests
<1>4. Dated'
  BY <1>0 DEF ClicksInv, Dated, server
<1>5. RowsFirst'
  <2> SUFFICES ASSUME worker' = "events", ~ missed', Ordered', NEW d \in Deliveries, Aged(d)', row[d] # Gone
               PROVE  d \in O
    BY DEF RowsFirst
  <2>1. /\ worker = "terminal" /\ clicked[d] # Gone /\ clicked[d].at < day - keep.evt /\ keep.evt > 0
        /\ keep.evt = 0 \/ keep.del \in 1..keep.evt
    BY <1>0 DEF Aged, Older, Ordered, server
  <2>2. row[d].is = "sent" /\ row[d].at <= clicked[d].at
    BY <2>1 DEF ClicksInv, Shown, Sent, Dated
  <2>3. row[d].at \in Nat /\ clicked[d].at \in Nat /\ day \in Nat /\ keep.evt \in Nat
    <3>1. row[d].at \in Nat /\ clicked[d].at \in Nat /\ day \in Nat
      BY <2>1 DEF ClicksInv, ClicksTypeOK
    <3> QED  BY <3>1, KeepIsDays
  <2>4. row[d].at < day - keep.del /\ keep.del > 0
    BY <2>1, <2>2, <2>3
  <2> QED  BY <2>1, <2>2, <2>4 DEF Terminal, Older
<1>6. CountedStays'
  <2>1. \A d \in Deliveries : Reachable(d)' => Reachable(d)
    BY <1>0 DEF Reachable, server
  <2> QED  BY <2>1 DEF ClicksInv, CountedStays, server, history
<1>7. TallyHolds'
  BY DEF ClicksInv, TallyHolds, Counted, server, history, Rests
<1> QED  BY <1>1, <1>2, <1>3, <1>4, <1>5, <1>6, <1>7 DEF ClicksInv

LEMMA PruneStrandedKeeps == ASSUME ClicksInv, PruneStranded PROVE ClicksInv'
<1> DEFINE O == {d \in Deliveries : Stranded(d)}
<1>1. /\ DOMAIN row' = Deliveries /\ \A d \in Deliveries : row'[d] = IF d \in O THEN Gone ELSE row[d]
      /\ worker = "stranded" /\ worker' = Then(worker)
      /\ UNCHANGED <<day, status, note, beacons, server, keep, marker, failing, mishaps>>
  BY DEF PruneStranded, PruneRows
<1>2. O \subseteq Deliveries
  OBVIOUS
<1> HIDE DEF O
<1> QED  BY <1>1, <1>2, RowsGo

LEMMA PruneTerminalKeeps == ASSUME ClicksInv, PruneTerminal PROVE ClicksInv'
<1> DEFINE O == {d \in Deliveries : Terminal(d)}
<1>1. /\ DOMAIN row' = Deliveries /\ \A d \in Deliveries : row'[d] = IF d \in O THEN Gone ELSE row[d]
      /\ worker = "terminal" /\ worker' = Then(worker)
      /\ UNCHANGED <<day, status, note, beacons, server, keep, marker, failing, mishaps>>
  BY DEF PruneTerminal, PruneRows
<1>2. O \subseteq Deliveries /\ \A d \in Deliveries : Terminal(d) => d \in O
  OBVIOUS
<1> HIDE DEF O
<1> QED  BY <1>1, <1>2, RowsGo

LEMMA PruneEventsKeeps == ASSUME ClicksInv, PruneEvents PROVE ClicksInv'
<1>0. /\ DOMAIN clicked' = Deliveries /\ \A d \in Deliveries : clicked'[d] = IF Aged(d) THEN Gone ELSE clicked[d]
      /\ worker = "events" /\ worker' = "mark" /\ row' = row /\ web' = web /\ tally' = tally /\ day' = day
      /\ note' = note /\ beacons' = beacons /\ torn' = torn /\ missed' = missed /\ times' = times
      /\ early' = [d \in Deliveries |-> IF Aged(d) /\ Reachable(d) THEN early[d] + 1 ELSE early[d]]
  BY DEF PruneEvents, Then, history
<1>1. ClicksTypeOK'
  BY <1>0 DEF ClicksInv, ClicksTypeOK, PruneEvents, history
<1>2. Shape'
  BY <1>0 DEF ClicksInv, Shape, Run
<1>3. Shown'
  BY <1>0 DEF ClicksInv, Shown, Sent, Rests
<1>4. Dated'
  BY <1>0 DEF ClicksInv, Dated
<1>5. RowsFirst'
  BY <1>0 DEF RowsFirst
<1>6. CountedStays'
  <2>1. ASSUME NEW d \in Deliveries
        PROVE  /\ times[d] <= 1 + early'[d]
               /\ Reachable(d) /\ clicked'[d] = Gone => times[d] <= early'[d]
               /\ web.at = "insert" /\ web.b.of = d => clicked'[d] = Gone /\ times[d] <= early'[d]
    <3>1. /\ times[d] \in Nat /\ early[d] \in Nat /\ times[d] <= 1 + early[d]
          /\ Reachable(d) /\ clicked[d] = Gone => times[d] <= early[d]
          /\ web.at = "insert" /\ web.b.of = d => clicked[d] = Gone /\ times[d] <= early[d]
      BY DEF ClicksInv, ClicksTypeOK, CountedStays
    <3>2. early'[d] = IF Aged(d) /\ Reachable(d) THEN early[d] + 1 ELSE early[d]
      BY <1>0
    <3>3. clicked'[d] = IF Aged(d) THEN Gone ELSE clicked[d]
      BY <1>0
    <3>4. Aged(d) => clicked[d] # Gone
      BY DEF Aged
    <3> QED  BY <3>1, <3>2, <3>3, <3>4
  <2>2. \A d \in Deliveries : Reachable(d)' <=> Reachable(d)
    BY <1>0 DEF Reachable
  <2> QED  BY <1>0, <2>1, <2>2 DEF CountedStays
<1>7. TallyHolds'
  <2>1. ASSUME NEW b \in Buttons PROVE /\ Cardinality(Counted(b)') <= Cardinality(Counted(b))
                                       /\ Cardinality(Counted(b)') \in Nat /\ Cardinality(Counted(b)) \in Nat
    <3>1. Counted(b)' \subseteq Counted(b) /\ Counted(b) \subseteq Deliveries
      BY <1>0 DEF Counted
    <3>2. IsFiniteSet(Counted(b))
      BY <3>1, ClicksAssumption, FS_Subset
    <3>3. IsFiniteSet(Counted(b)') /\ Cardinality(Counted(b)') <= Cardinality(Counted(b))
      BY <3>1, <3>2, FS_Subset
    <3> QED  BY <3>2, <3>3, FS_CardinalityType
  <2>2. tally \in [Buttons -> Nat]
    BY DEF ClicksInv, ClicksTypeOK
  <2>3. ASSUME NEW b \in Buttons, ~ torn
        PROVE  Cardinality(Counted(b)') <= tally[b] + (IF web # Rests /\ web.at = "bump" /\ web.b.press = b THEN 1 ELSE 0)
    <3>1. Cardinality(Counted(b)) <= tally[b] + (IF web # Rests /\ web.at = "bump" /\ web.b.press = b THEN 1 ELSE 0)
      BY <2>3 DEF ClicksInv, TallyHolds
    <3>2. tally[b] \in Nat
      BY <2>2
    <3> QED  BY <2>1, <3>1, <3>2
  <2> QED  BY <1>0, <2>3 DEF TallyHolds, Rests
<1> QED  BY <1>1, <1>2, <1>3, <1>4, <1>5, <1>6, <1>7 DEF ClicksInv

LEMMA ClicksInitHolds == ASSUME ClicksInit PROVE ClicksInv
<1>1. \A b : Counted(b) = {}
  BY DEF ClicksInit, Counted
<1>2. Cardinality({}) = 0
  BY FS_EmptySet
<1>3. TallyHolds
  BY <1>1, <1>2 DEF ClicksInit, TallyHolds
<1>4. ClicksTypeOK
  BY ClicksAssumption DEF ClicksInit, ClicksTypeOK, Unread
<1> QED  BY <1>3, <1>4 DEF ClicksInit, ClicksInv, Shape, Shown, Dated, RowsFirst, CountedStays, Rests

LEMMA ClicksStep == ASSUME ClicksInv, [ClicksNext]_clicksVars PROVE ClicksInv'
<1>1. CASE UNCHANGED clicksVars
  <2>1. ClicksTypeOK' /\ Shape' /\ Shown'
    BY <1>1 DEF ClicksInv, clicksVars, history, ClicksTypeOK, Shape, Run, Shown, Sent, Rests
  <2>2. Dated' /\ RowsFirst' /\ CountedStays' /\ TallyHolds'
    BY <1>1 DEF ClicksInv, clicksVars, history, Dated, RowsFirst, Ordered, Reachable, Aged, Older, CountedStays, TallyHolds, Counted, Rests
  <2> QED  BY <2>1, <2>2 DEF ClicksInv
<1> QED  BY <1>1, PushKeeps, TouchKeeps, EndKeeps, LoseKeeps, ReceiveKeeps, LookUpKeeps, InsertKeeps, BumpKeeps, RedirectKeeps,
            WebRestartsKeeps, BeginPruneKeeps, PruneStrandedKeeps, PruneTerminalKeeps, PruneEventsKeeps,
            PruneFailsKeeps, WriteMarkerKeeps, WorkerRestartsKeeps, NextDayKeeps DEF ClicksNext

\* What the campaign is still to send stays, whoever prunes.
LEMMA QueuedStays ==
  ASSUME ClicksInv, [ClicksNext]_clicksVars,
         NEW d \in Deliveries, row[d] # Gone, row[d].is = "queued", status = "sending"
  PROVE  row'[d] # Gone
<1>1. CASE row' = row
  BY <1>1
<1>2. ASSUME NEW x \in Deliveries, Push(x) PROVE row'[d] # Gone
  <2>1. row' = [row EXCEPT ![x] = [is |-> "sent", at |-> day]] /\ DOMAIN row = Deliveries /\ day \in Nat
    BY <1>2 DEF Push, ClicksInv, Shape, ClicksTypeOK
  <2> QED  BY <2>1, ClicksAssumption
<1>3. CASE PruneStranded
  BY <1>3 DEF PruneStranded, PruneRows, Stranded
<1>4. CASE PruneTerminal
  BY <1>4 DEF PruneTerminal, PruneRows, Terminal
<1>5. row' = row \/ (\E x \in Deliveries : Push(x)) \/ PruneStranded \/ PruneTerminal
  BY DEF ClicksNext, clicksVars, Touch, End, Lose, Receive, LookUpPrior, InsertClick, BumpButtonStat, Redirect, WebRestarts,
         BeginPrune, PruneEvents, PruneFails, WriteMarker, WorkerRestarts, NextDay
<1> QED  BY <1>1, <1>2, <1>3, <1>4, <1>5

\* A pruning leaves the event of a delivery that is there.
LEMMA EventStays ==
  ASSUME ClicksInv, [ClicksNext]_clicksVars,
         NEW d \in Deliveries, clicked[d] # Gone, clicked'[d] = Gone, Ordered, ~ missed
  PROVE  row[d] = Gone
<1>1. CASE clicked' = clicked
  BY <1>1
<1>2. CASE InsertClick
  <2>1. \A x \in Deliveries : clicked'[x] = clicked[x] \/ clicked'[x] = [by |-> web.b.press, at |-> day]
    BY <1>2 DEF InsertClick, ClicksInv, Shape
  <2>2. web.b.press \in Buttons \cup {Body} /\ day \in Nat
    BY <1>2 DEF InsertClick, ClicksInv, Shape, ClicksTypeOK, Rests, Run
  <2> QED  BY <2>1, <2>2, ClicksAssumption
<1>3. CASE PruneEvents
  <2>1. worker = "events" /\ Aged(d)
    BY <1>3 DEF PruneEvents
  <2> QED  BY <2>1 DEF ClicksInv, RowsFirst
<1>4. clicked' = clicked \/ InsertClick \/ PruneEvents
  BY DEF ClicksNext, clicksVars, server, Push, Touch, End, Lose, Receive, LookUpPrior, BumpButtonStat, Redirect,
         WebRestarts, BeginPrune, PruneStranded, PruneTerminal, PruneRows, PruneFails, WriteMarker, WorkerRestarts,
         NextDay
<1> QED  BY <1>1, <1>2, <1>3, <1>4

\* Pruning and counting together, for any deliveries and buttons, and any two
\* retention settings, in whatever order: a delivery is counted once, and
\* once more for each event pruned while a click could find it; a pruning
\* that reads ordered settings and takes its deliveries leaves no such event;
\* no counted button is left out of the tally; and nothing goes that the
\* campaign is still to send.
THEOREM PruningStaysSafe == ClicksInit /\ [][ClicksNext]_clicksVars => PruningSafe
<1>1. ClicksInit => ClicksInv
  BY ClicksInitHolds
<1>2. ClicksInv /\ [ClicksNext]_clicksVars => ClicksInv'
  BY ClicksStep
<1>3. ClicksInv => ClicksTypeOK /\ ClickedOnce /\ TallyHolds
  BY DEF ClicksInv, CountedStays, ClickedOnce
<1>4. ClicksInv /\ [ClicksNext]_clicksVars =>
        [\A d \in Deliveries : row[d] # Gone /\ row[d].is = "queued" /\ status = "sending" => row'[d] # Gone]_clicksVars
  BY QueuedStays
<1>5. ClicksInv /\ [ClicksNext]_clicksVars =>
        [\A d \in Deliveries :
           clicked[d] # Gone /\ clicked'[d] = Gone /\ Ordered /\ ~ missed => row[d] = Gone]_clicksVars
  BY EventStays
<1> QED  BY <1>1, <1>2, <1>3, <1>4, <1>5, PTL DEF PruningSafe, PendingSpared, EventsOutlive
=============================================================================
