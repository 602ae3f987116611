-------------------------- MODULE RateLimiterProofs --------------------------
(***************************************************************************)
(* Theorems about RateLimiter that hold for any number of workers and      *)
(* addresses, every limit, every window and every bound on the clock.      *)
(***************************************************************************)
EXTENDS RateLimiter, FiniteSetTheorems, SequenceTheorems, TLAPS

-----------------------------------------------------------------------------
(***************************************************************************)
(* Prune drops a prefix: the hits before the first one that is recent.     *)
(***************************************************************************)

LEMMA IntervalFacts ==
    ASSUME NEW n \in Nat
    PROVE  IsFiniteSet(1..n) /\ Cardinality(1..n) = n
<1>1. 1 \in Int /\ n \in Int
    OBVIOUS
<1>2. IsFiniteSet(1..n) /\ Cardinality(1..n) = IF 1 > n THEN 0 ELSE n - 1 + 1
    BY <1>1, FS_Interval
<1>3. QED
    BY <1>2

\* A set of indices that is closed downwards is an interval.
LEMMA Prefix ==
    ASSUME NEW n \in Nat, NEW S, S \subseteq 1..n,
           \A i \in S : \A j \in 1..i : j \in S
    PROVE  /\ Cardinality(S) \in 0..n
           /\ S = 1..Cardinality(S)
<1> DEFINE T == {i \in 1..(n + 1) : i \notin S}
           R == OpToRel(<, Nat)
<1>1. T \subseteq Nat /\ T # {}
  <2>1. n + 1 \in T
      OBVIOUS
  <2>2. QED
      BY <2>1
<1>2. IsWellFoundedOn(R, Nat)
    BY NatLessThanWellFounded
<1>3. \A y, z \in Nat : y < z => <<y, z>> \in R
    BY DEF OpToRel
<1> HIDE DEF R
<1>4. PICK m \in T : \A y \in T : ~(<<y, m>> \in R)
  <2> HIDE DEF T
  <2>1. QED
      BY <1>1, <1>2, WFMin
<1>5. m \in Nat /\ m >= 1 /\ m <= n + 1 /\ m \notin S
    OBVIOUS
<1>6. \A y \in T : ~(y < m)
    BY <1>1, <1>3, <1>4
<1>7. 1..(m - 1) \subseteq S
    BY <1>5, <1>6
<1>8. S \subseteq 1..(m - 1)
  <2>1. ASSUME NEW i \in S, i >= m
        PROVE  FALSE
      BY <1>5, <2>1
  <2>2. QED
      BY <1>5, <2>1
<1>9. Cardinality(1..(m - 1)) = m - 1
    BY <1>5, FS_Interval
<1>10. S = 1..(m - 1)
    BY <1>7, <1>8
<1>11. QED
    BY <1>5, <1>9, <1>10

\* What is left of a bucket begins with its first recent hit.
Kept(q, m) ==
    /\ m \in 0..Len(q)
    /\ Len(Prune(q)) = Len(q) - m
    /\ \A i \in 1..(Len(q) - m) : Prune(q)[i] = q[i + m]
    /\ \A i \in 1..m : q[i] < now - Window
    /\ m < Len(q) => q[m + 1] >= now - Window

LEMMA PruneKeeps ==
    ASSUME NEW q \in Seq(Time), now \in Time
    PROVE  Prune(q) \in Seq(Time) /\ \E m \in 0..Len(q) : Kept(q, m)
<1> DEFINE S == {i \in 1..Len(q) : \A j \in 1..i : q[j] < now - Window}
           m == Cardinality(S)
<1>1. Len(q) \in Nat /\ S \subseteq 1..Len(q)
    OBVIOUS
<1>2. \A i \in S : \A j \in 1..i : j \in S
    BY <1>1
<1>3. m \in 0..Len(q) /\ S = 1..m
    BY <1>1, <1>2, Prefix
<1>4. Prune(q) = SubSeq(q, m + 1, Len(q))
    BY DEF Prune
<1>5. \A i \in 1..m : i \in S
    BY <1>3
<1>6. m < Len(q) => m + 1 \notin S
  <2> HIDE DEF m, S
  <2>1. QED
      BY <1>3
<1> HIDE DEF m
<1>7. \A i \in 1..m : q[i] < now - Window
    BY <1>3, <1>5
<1>8. /\ Prune(q) \in Seq(Time) /\ Len(Prune(q)) = Len(q) - m
      /\ \A i \in 1..(Len(q) - m) : Prune(q)[i] = q[i + m]
    BY <1>1, <1>3, <1>4
<1>9. ASSUME m < Len(q)
      PROVE  q[m + 1] >= now - Window
  <2>1. q[m + 1] \in Int /\ now - Window \in Int
      BY <1>1, <1>3, <1>9, RateLimiterAssumption DEF Time
  <2>2. \A j \in 1..m : q[j] < now - Window
      BY <1>7
  <2>3. m + 1 \in 1..Len(q) /\ m + 1 \notin S
      BY <1>3, <1>6, <1>9
  <2>4. ~(\A j \in 1..(m + 1) : q[j] < now - Window)
      BY <2>3
  <2>5. QED
      BY <1>3, <2>1, <2>2, <2>4
<1>10. QED
    BY <1>3, <1>7, <1>8, <1>9 DEF Kept
-----------------------------------------------------------------------------
(***************************************************************************)
(* The inductive invariant: each bucket lists attempts that its worker has *)
(* let through, oldest first, and misses none that is recent.              *)
(***************************************************************************)

By(a, w, g, k) == a.worker = w /\ a.generation = g /\ a.key = k

\* The times of a bucket are in order and not in the future.
Sorted(q) ==
    /\ \A i \in 1..Len(q) : q[i] <= now
    /\ \A i, j \in 1..Len(q) : i <= j => q[i] <= q[j]

\* f tells which attempt a hit of the bucket q stands for.
Mirror(q, w, k, f) ==
    /\ f \in [1..Len(q) -> 1..Len(passed)]
    /\ \A i, j \in 1..Len(q) : f[i] = f[j] => i = j
    /\ \A i \in 1..Len(q) :
           By(passed[f[i]], w, generation[w], k) /\ passed[f[i]].at = q[i]
    /\ \A n \in 1..Len(passed) :
           By(passed[n], w, generation[w], k) /\ passed[n].at >= now - Window =>
               \E i \in 1..Len(q) : f[i] = n

BucketsOK ==
    \A w \in Worker, k \in Address :
        /\ Sorted(hits[w][k])
        /\ \E f \in [1..Len(hits[w][k]) -> 1..Len(passed)] :
               Mirror(hits[w][k], w, k, f)

\* Attempts lie in the past, of this process or an earlier one, and count
\* against the caller itself unless a trusted proxy has sent them.
AttemptsOK ==
    \A n \in 1..Len(passed) :
        /\ passed[n].at <= now
        /\ passed[n].generation <= generation[passed[n].worker]
        /\ passed[n].peer \notin TrustedProxy => passed[n].key = passed[n].peer

\* The attempts of one process under one key in the window that ends at t.
UnderKeys(w, g, k, t) ==
    {n \in 1..Len(passed) : By(passed[n], w, g, k) /\ Within(passed[n], t)}

KeysBounded ==
    \A w \in Worker, g \in 0..MaxRestarts, k \in Address, t \in Time :
        Cardinality(UnderKeys(w, g, k, t)) <= MaxAttempts

IInv == TypeOK /\ BucketsOK /\ AttemptsOK /\ KeysBounded

-----------------------------------------------------------------------------
\* The records of the history, and the times of a bucket.
LEMMA PassedFacts ==
    ASSUME TypeOK, NEW n \in 1..Len(passed)
    PROVE  /\ passed[n] \in Attempt
           /\ passed[n].worker \in Worker /\ passed[n].generation \in 0..MaxRestarts
           /\ passed[n].peer \in Address /\ passed[n].key \in Address
           /\ passed[n].at \in Time
<1>1. passed[n] \in Attempt
    BY DEF TypeOK
<1>2. QED
    BY <1>1 DEF Attempt

LEMMA TimeFacts ==
    /\ \A t \in Time : t \in Int
    /\ \A q \in Seq(Time) : \A i \in 1..Len(q) : q[i] \in Time /\ q[i] \in Int
<1>1. \A t \in Time : t \in Int
    BY RateLimiterAssumption DEF Time
<1>2. \A q \in Seq(Time) : \A i \in 1..Len(q) : q[i] \in Time
    OBVIOUS
<1>3. QED
    BY <1>1, <1>2

\* What pruning leaves of a bucket still stands for attempts, all of them
\* recent, and misses no recent one.
LEMMA PrunedBucket ==
    ASSUME IInv, NEW w \in Worker, NEW k \in Address, NEW r, r = Prune(hits[w][k])
    PROVE  /\ r \in Seq(Time) /\ Sorted(r) /\ Len(r) <= MaxAttempts
           /\ \A i \in 1..Len(r) : r[i] >= now - Window
           /\ \E f : Mirror(r, w, k, f)
<1> DEFINE q == hits[w][k]
<1>1. /\ q \in Seq(Time) /\ now \in Time /\ Len(q) \in Nat /\ now \in Int
      /\ Window \in Int /\ Sorted(q)
    BY RateLimiterAssumption DEF IInv, TypeOK, BucketsOK, Time
<1>2. PICK f : Mirror(q, w, k, f)
    BY DEF IInv, BucketsOK
<1> HIDE DEF q
<1>3. PICK m \in 0..Len(q) : Kept(q, m)
    BY <1>1, PruneKeeps
<1>4. r = Prune(q) /\ r \in Seq(Time) /\ Len(r) = Len(q) - m
    BY <1>1, <1>3, PruneKeeps DEF Kept, q
<1>5. \A i \in 1..Len(r) : i + m \in 1..Len(q) /\ r[i] = q[i + m] /\ r[i] \in Int
  <2>1. SUFFICES ASSUME NEW i \in 1..Len(r)
                 PROVE  i + m \in 1..Len(q) /\ r[i] = q[i + m] /\ r[i] \in Int
      OBVIOUS
  <2>2. i + m \in 1..Len(q) /\ i \in 1..(Len(q) - m)
      BY <1>1, <1>3, <1>4
  <2>3. QED
      BY <1>1, <1>3, <1>4, <2>2, TimeFacts DEF Kept
<1>6. Sorted(r)
  <2>1. \A i \in 1..Len(r) : r[i] <= now
      BY <1>1, <1>5 DEF Sorted
  <2>2. ASSUME NEW i \in 1..Len(r), NEW j \in 1..Len(r), i <= j
        PROVE  r[i] <= r[j]
    <3>1. i + m <= j + m
        BY <1>3, <1>4, <2>2
    <3>2. QED
        BY <1>1, <1>5, <3>1 DEF Sorted
  <2>3. QED
      BY <2>1, <2>2 DEF Sorted
<1>7. \A i \in 1..Len(r) : r[i] >= now - Window
  <2>1. SUFFICES ASSUME NEW i \in 1..Len(r)
                 PROVE  r[i] >= now - Window
      OBVIOUS
  <2>2. m < Len(q) /\ m + 1 \in 1..Len(q) /\ i + m \in 1..Len(q) /\ m + 1 <= i + m
      BY <1>1, <1>3, <1>4
  <2>3. q[m + 1] >= now - Window /\ q[m + 1] <= q[i + m]
      BY <1>1, <1>3, <2>2 DEF Kept, Sorted
  <2>4. q[m + 1] \in Int /\ q[i + m] \in Int /\ r[i] = q[i + m]
      BY <1>1, <1>5, <2>2, TimeFacts
  <2>5. QED
      BY <1>1, <2>3, <2>4
<1> DEFINE g == [i \in 1..Len(r) |-> f[i + m]]
<1>8. Mirror(r, w, k, g)
  <2>1. g \in [1..Len(r) -> 1..Len(passed)]
      BY <1>2, <1>5 DEF Mirror
  <2>2. \A i \in 1..Len(r) : g[i] = f[i + m]
      OBVIOUS
  <2> HIDE DEF g
  <2>3. \A i, j \in 1..Len(r) : g[i] = g[j] => i = j
    <3>1. SUFFICES ASSUME NEW i \in 1..Len(r), NEW j \in 1..Len(r), g[i] = g[j]
                   PROVE  i = j
        OBVIOUS
    <3>2. i + m = j + m
        BY <1>2, <1>5, <2>2, <3>1 DEF Mirror
    <3>3. QED
        BY <1>3, <1>4, <3>2
  <2>4. \A i \in 1..Len(r) :
            By(passed[g[i]], w, generation[w], k) /\ passed[g[i]].at = r[i]
      BY <1>2, <1>5, <2>2 DEF Mirror
  <2>5. ASSUME NEW n \in 1..Len(passed), By(passed[n], w, generation[w], k),
               passed[n].at >= now - Window
        PROVE  \E i \in 1..Len(r) : g[i] = n
    <3>1. PICK j \in 1..Len(q) : f[j] = n
        BY <1>2, <2>5 DEF Mirror
    <3>2. q[j] = passed[n].at /\ q[j] \in Int
        BY <1>1, <1>2, <3>1, TimeFacts DEF Mirror
    <3>3. ~(j \in 1..m)
        BY <1>1, <1>3, <2>5, <3>2 DEF Kept
    <3>4. j - m \in 1..Len(r) /\ (j - m) + m = j
        BY <1>1, <1>3, <1>4, <3>1, <3>3
    <3>5. QED
        BY <2>2, <3>1, <3>4
  <2>6. QED
      BY <2>1, <2>3, <2>4, <2>5 DEF Mirror
<1>9. Len(r) <= MaxAttempts
  <2>1. Len(q) <= MaxAttempts
      BY DEF q, IInv, TypeOK
  <2>2. QED
      BY <1>1, <1>4, <2>1, RateLimiterAssumption
<1>10. QED
    BY <1>4, <1>6, <1>7, <1>8, <1>9

\* So its length is the number of attempts in the window that ends now.
LEMMA RecentCount ==
    ASSUME IInv, NEW w \in Worker, NEW k \in Address
    PROVE  Len(Prune(hits[w][k])) = Cardinality(UnderKeys(w, generation[w], k, now))
<1> DEFINE r == Prune(hits[w][k])
           U == UnderKeys(w, generation[w], k, now)
<1>1. /\ r \in Seq(Time) /\ \A i \in 1..Len(r) : r[i] >= now - Window
      /\ \E f : Mirror(r, w, k, f) /\ Sorted(r)
    BY PrunedBucket
<1>2. PICK f : Mirror(r, w, k, f)
    BY <1>1
<1>3. now \in Int /\ Window \in Int
    BY RateLimiterAssumption DEF IInv, TypeOK, Time
<1> HIDE DEF r
<1>4. \A i \in 1..Len(r) : f[i] \in U
  <2>1. SUFFICES ASSUME NEW i \in 1..Len(r) PROVE f[i] \in U
      OBVIOUS
  <2>2. /\ f[i] \in 1..Len(passed) /\ By(passed[f[i]], w, generation[w], k)
        /\ passed[f[i]].at = r[i]
      BY <1>2, <2>1 DEF Mirror
  <2>3. r[i] \in Int /\ r[i] >= now - Window /\ r[i] <= now
      BY <1>1, <2>1, TimeFacts DEF Sorted
  <2>4. QED
      BY <1>3, <2>2, <2>3 DEF UnderKeys, Within
<1>5. \A n \in U : \E i \in 1..Len(r) : f[i] = n
  <2>1. SUFFICES ASSUME NEW n \in U PROVE \E i \in 1..Len(r) : f[i] = n
      OBVIOUS
  <2>2. /\ n \in 1..Len(passed) /\ By(passed[n], w, generation[w], k)
        /\ passed[n].at >= now - Window
      BY <1>3 DEF UnderKeys, Within
  <2>3. QED
      BY <1>2, <2>2 DEF Mirror
<1> HIDE DEF U
<1>6. f \in Bijection(1..Len(r), U)
  <2>1. f \in [1..Len(r) -> U]
      BY <1>2, <1>4 DEF Mirror
  <2>2. \A i, j \in 1..Len(r) : f[i] = f[j] => i = j
      BY <1>2 DEF Mirror
  <2>3. QED
      BY <1>5, <2>1, <2>2 DEF Bijection, Injection, Surjection, IsInjective
<1>7. Len(r) \in Nat /\ IsFiniteSet(1..Len(r)) /\ Cardinality(1..Len(r)) = Len(r)
  <2>1. Len(r) \in Nat
      BY <1>1
  <2>2. QED
      BY <2>1, IntervalFacts
<1>8. Cardinality(U) = Cardinality(1..Len(r))
    BY <1>6, <1>7, FS_Bijection DEF ExistsBijection
<1>9. QED
    BY <1>7, <1>8 DEF r, U
-----------------------------------------------------------------------------
(***************************************************************************)
(* The steps.                                                              *)
(***************************************************************************)

\* A bucket that a step leaves alone, while the clock may go on.
LEMMA KeptBucket ==
    ASSUME IInv, NEW w \in Worker, NEW k \in Address, now' \in {now, now + 1},
           hits'[w][k] = hits[w][k], generation'[w] = generation[w], UNCHANGED passed
    PROVE  /\ Sorted(hits[w][k])'
           /\ \E f \in [1..Len(hits[w][k]) -> 1..Len(passed)]' : Mirror(hits[w][k], w, k, f)'
<1> DEFINE q == hits[w][k]
<1>1. q \in Seq(Time) /\ Sorted(q) /\ now \in Int /\ Window \in Int /\ TypeOK
    BY RateLimiterAssumption DEF IInv, TypeOK, BucketsOK, Time
<1>2. PICK f : Mirror(q, w, k, f)
    BY DEF IInv, BucketsOK
<1> HIDE DEF q
<1>3. hits[w][k] = q /\ hits'[w][k] = q
    BY DEF q
<1>4. Sorted(hits[w][k])'
    BY <1>1, <1>3, TimeFacts DEF Sorted
<1>5. \A n \in 1..Len(passed) : passed[n].at \in Int
    BY <1>1, PassedFacts, TimeFacts
<1>6. Mirror(hits[w][k], w, k, f)'
  <2>1. \A n \in 1..Len(passed) :
            By(passed[n], w, generation[w], k) /\ passed[n].at >= now' - Window =>
                \E i \in 1..Len(q) : f[i] = n
      BY <1>1, <1>2, <1>5 DEF Mirror
  <2>2. /\ f \in [1..Len(q) -> 1..Len(passed)]
        /\ \A i, j \in 1..Len(q) : f[i] = f[j] => i = j
        /\ \A i \in 1..Len(q) :
               By(passed[f[i]], w, generation[w], k) /\ passed[f[i]].at = q[i]
      BY <1>2 DEF Mirror
  <2>3. hits'[w][k] = q /\ passed' = passed /\ generation'[w] = generation[w]
      BY <1>3
  <2>4. QED
      BY <2>1, <2>2, <2>3 DEF Mirror
<1>7. QED
    BY <1>4, <1>6 DEF Mirror

\* The bounds stand while the history does.
LEMMA KeptBounds ==
    ASSUME IInv, UNCHANGED passed
    PROVE  KeysBounded'
BY DEF IInv, KeysBounded, UnderKeys, Within, By

LEMMA TickStep ==
    ASSUME IInv, Tick
    PROVE  IInv'
<1>1. TypeOK /\ now \in Int /\ now' = now + 1 /\ UNCHANGED <<hits, generation, passed>>
    BY TimeFacts DEF IInv, TypeOK, Tick
<1>2. TypeOK'
    BY <1>1, RateLimiterAssumption DEF TypeOK, Tick, Time
<1>3. BucketsOK'
    BY <1>1, KeptBucket DEF BucketsOK
<1>4. AttemptsOK'
    BY <1>1, PassedFacts, TimeFacts DEF IInv, AttemptsOK
<1>5. QED
    BY <1>1, <1>2, <1>3, <1>4, KeptBounds DEF IInv

\* A new process has an empty bucket for everyone, and no attempt is its own.
LEMMA RestartStep ==
    ASSUME IInv, NEW w \in Worker, Restart(w)
    PROVE  IInv'
<1>1. /\ TypeOK /\ AttemptsOK /\ UNCHANGED <<now, passed>>
      /\ generation' = [generation EXCEPT ![w] = @ + 1]
      /\ hits' = [hits EXCEPT ![w] = [a \in Address |-> <<>>]]
    BY DEF IInv, Restart
<1>2. TypeOK'
    BY <1>1, RateLimiterAssumption DEF TypeOK, Restart
<1>3. /\ generation'[w] = generation[w] + 1 /\ generation[w] \in Nat
      /\ \A v \in Worker : generation[v] \in Nat
      /\ \A v \in Worker \ {w} : generation'[v] = generation[v] /\ hits'[v] = hits[v]
      /\ \A k \in Address : hits'[w][k] = <<>>
    BY <1>1, RateLimiterAssumption DEF TypeOK
<1>4. ASSUME NEW k \in Address
      PROVE  /\ Sorted(hits[w][k])'
             /\ \E f \in [1..Len(hits[w][k]) -> 1..Len(passed)]' :
                    Mirror(hits[w][k], w, k, f)'
  <2>1. hits'[w][k] = <<>> /\ Len(hits'[w][k]) = 0 /\ 1..0 = {}
      BY <1>3
  <2>2. \A n \in 1..Len(passed) : ~By(passed[n], w, generation'[w], k)
    <3>1. ASSUME NEW n \in 1..Len(passed), passed[n].worker = w
          PROVE  passed[n].generation # generation'[w]
      <4>1. passed[n].generation \in Int /\ passed[n].generation <= generation[w]
          BY <1>1, <3>1, PassedFacts DEF AttemptsOK
      <4>2. QED
          BY <1>3, <4>1
    <3>2. QED
        BY <3>1 DEF By
  <2> DEFINE f == [i \in {} |-> i]
  <2>3. f \in [1..Len(hits[w][k]) -> 1..Len(passed)]'
      BY <2>1
  <2> HIDE DEF f
  <2>4. Mirror(hits[w][k], w, k, f)'
      BY <1>1, <2>1, <2>2, <2>3 DEF Mirror
  <2>5. Sorted(hits[w][k])'
      BY <2>1 DEF Sorted
  <2>6. QED
      BY <2>3, <2>4, <2>5
<1>5. ASSUME NEW v \in Worker \ {w}, NEW k \in Address
      PROVE  /\ Sorted(hits[v][k])'
             /\ \E f \in [1..Len(hits[v][k]) -> 1..Len(passed)]' :
                    Mirror(hits[v][k], v, k, f)'
    BY <1>1, <1>3, KeptBucket
<1>6. BucketsOK'
    BY <1>4, <1>5 DEF BucketsOK
<1>7. AttemptsOK'
  <2>1. SUFFICES ASSUME NEW n \in 1..Len(passed)
                 PROVE  passed[n].generation <= generation'[passed[n].worker]
      BY <1>1 DEF AttemptsOK
  <2>2. /\ passed[n].worker \in Worker /\ passed[n].generation \in Int
        /\ passed[n].generation <= generation[passed[n].worker]
      BY <1>1, PassedFacts DEF AttemptsOK
  <2>3. QED
      BY <1>3, <2>2
<1>8. QED
    BY <1>1, <1>2, <1>6, <1>7, KeptBounds DEF IInv

\* A bucket that is replaced within the limit leaves the state well typed.
LEMMA BucketReplaced ==
    ASSUME TypeOK, NEW w \in Worker, NEW key \in Address, NEW s \in Seq(Time),
           Len(s) <= MaxAttempts, hits' = [hits EXCEPT ![w][key] = s],
           UNCHANGED <<now, generation>>, passed' \in Seq(Attempt)
    PROVE  TypeOK'
<1>1. hits' \in [Worker -> [Address -> Seq(Time)]]
    BY DEF TypeOK
<1>2. ASSUME NEW v \in Worker, NEW k \in Address
      PROVE  Len(hits'[v][k]) <= MaxAttempts
  <2>1. hits'[v][k] = IF v = w /\ k = key THEN s ELSE hits[v][k]
      BY DEF TypeOK
  <2>2. QED
      BY <2>1 DEF TypeOK
<1>3. QED
    BY <1>1, <1>2 DEF TypeOK

LEMMA RejectStep ==
    ASSUME IInv, NEW w \in Worker, NEW key \in Address, Reject(w, key),
           UNCHANGED <<now, generation>>
    PROVE  IInv'
<1> DEFINE r == Prune(hits[w][key])
<1>1. /\ TypeOK /\ hits' = [hits EXCEPT ![w][key] = r]
      /\ UNCHANGED <<now, generation, passed>>
    BY DEF IInv, Reject
<1>2. /\ r \in Seq(Time) /\ Sorted(r) /\ Len(r) <= MaxAttempts
      /\ \E f : Mirror(r, w, key, f)
    BY PrunedBucket
<1> HIDE DEF r
<1>3. /\ hits'[w][key] = r
      /\ \A v \in Worker, k \in Address :
             ~(v = w /\ k = key) => hits'[v][k] = hits[v][k]
    BY <1>1 DEF TypeOK
<1>4. TypeOK'
    BY <1>1, <1>2, BucketReplaced DEF TypeOK
<1>5. /\ Sorted(hits[w][key])'
      /\ \E f \in [1..Len(hits[w][key]) -> 1..Len(passed)]' :
             Mirror(hits[w][key], w, key, f)'
  <2>1. PICK f : Mirror(r, w, key, f)
      BY <1>2
  <2>2. Sorted(hits[w][key])'
      BY <1>1, <1>2, <1>3 DEF Sorted
  <2>3. f \in [1..Len(hits[w][key]) -> 1..Len(passed)]'
      BY <1>1, <1>3, <2>1 DEF Mirror
  <2>4. Mirror(hits[w][key], w, key, f)'
      BY <1>1, <1>3, <2>1 DEF Mirror
  <2>5. QED
      BY <2>2, <2>3, <2>4
<1>6. BucketsOK'
  <2>1. SUFFICES ASSUME NEW v \in Worker, NEW k \in Address, ~(v = w /\ k = key)
                 PROVE  /\ Sorted(hits[v][k])'
                        /\ \E f \in [1..Len(hits[v][k]) -> 1..Len(passed)]' :
                               Mirror(hits[v][k], v, k, f)'
      BY <1>5 DEF BucketsOK
  <2>2. QED
      BY <1>1, <1>3, <2>1, KeptBucket
<1>7. AttemptsOK'
    BY <1>1 DEF IInv, AttemptsOK
<1>8. QED
    BY <1>1, <1>4, <1>6, <1>7, KeptBounds DEF IInv

\* An attempt that is let through counts in the windows that it lies in, and
\* there is room for it: they reach no further back than the one that ends now.
LEMMA AdmitBounds ==
    ASSUME IInv, NEW w \in Worker, NEW key \in Address, NEW a \in Attempt,
           By(a, w, generation[w], key), a.at = now,
           Len(Prune(hits[w][key])) < MaxAttempts, passed' = Append(passed, a)
    PROVE  KeysBounded'
<1> DEFINE n == Len(passed)
<1>1. /\ TypeOK /\ AttemptsOK /\ KeysBounded /\ passed \in Seq(Attempt) /\ n \in Nat
      /\ now \in Int /\ Window \in Nat /\ MaxAttempts \in Nat
    BY RateLimiterAssumption, TimeFacts DEF IInv, TypeOK
<1>2. /\ Len(passed') = n + 1 /\ passed'[n + 1] = a
      /\ \A i \in 1..n : passed'[i] = passed[i]
    BY <1>1
<1> HIDE DEF n
<1>3. SUFFICES ASSUME NEW v \in Worker, NEW g \in 0..MaxRestarts,
                      NEW k \in Address, NEW t \in Time
               PROVE  Cardinality(UnderKeys(v, g, k, t)') <= MaxAttempts
    BY DEF KeysBounded
<1> DEFINE U == UnderKeys(v, g, k, t)
<1>4. U \subseteq 1..n /\ IsFiniteSet(U) /\ Cardinality(U) <= MaxAttempts
  <2>1. U \subseteq 1..n
      BY DEF UnderKeys, n
  <2>2. IsFiniteSet(1..n)
      BY <1>1, IntervalFacts
  <2>3. QED
      BY <1>1, <2>1, <2>2, FS_Subset DEF KeysBounded
<1>5. UnderKeys(v, g, k, t)' \subseteq U \cup {n + 1}
  <2>1. SUFFICES ASSUME NEW i \in UnderKeys(v, g, k, t)', i # n + 1
                 PROVE  i \in U
      OBVIOUS
  <2>2. /\ i \in 1..(n + 1) /\ By(passed'[i], v, g, k)
        /\ passed'[i].at \in (t - Window)..t
      BY <1>2 DEF UnderKeys, By, Within
  <2>3. i \in 1..n
      BY <1>1, <2>1, <2>2
  <2>4. QED
      BY <1>2, <2>2, <2>3 DEF UnderKeys, By, Within, n
<1>6. CASE n + 1 \notin UnderKeys(v, g, k, t)'
  <2>1. UnderKeys(v, g, k, t)' \in SUBSET U
      BY <1>5, <1>6
  <2>2. Cardinality(UnderKeys(v, g, k, t)') <= Cardinality(U)
      BY <1>4, <2>1, FS_Subset
  <2>3. Cardinality(UnderKeys(v, g, k, t)') \in Nat /\ Cardinality(U) \in Nat
      BY <1>4, <2>1, FS_Subset, FS_CardinalityType
  <2>4. QED
      BY <1>1, <1>4, <2>2, <2>3
<1>7. CASE n + 1 \in UnderKeys(v, g, k, t)'
  <2>1. By(a, v, g, k) /\ now \in (t - Window)..t
      BY <1>2, <1>7 DEF UnderKeys, By, Within
  <2>2. v = w /\ g = generation[w] /\ k = key /\ t \in Int /\ t >= now
      BY <1>1, <2>1, TimeFacts DEF By
  <2> DEFINE N == UnderKeys(w, generation[w], key, now)
  <2>3. U \subseteq N
    <3>1. SUFFICES ASSUME NEW i \in U
                   PROVE  i \in N
        OBVIOUS
    <3>2. /\ i \in 1..Len(passed) /\ By(passed[i], w, generation[w], key)
          /\ passed[i].at \in (t - Window)..t
        BY <2>2, <3>1 DEF UnderKeys, Within
    <3>3. passed[i].at \in Int /\ passed[i].at <= now
        BY <1>1, <3>2, PassedFacts, TimeFacts DEF AttemptsOK
    <3>4. passed[i].at \in (now - Window)..now
        BY <1>1, <2>2, <3>2, <3>3
    <3>5. QED
        BY <3>2, <3>4 DEF UnderKeys, Within
  <2>4. N \subseteq 1..n /\ IsFiniteSet(1..n)
      BY <1>1, IntervalFacts DEF UnderKeys, n
  <2>5. Len(Prune(hits[w][key])) = Cardinality(N)
      BY RecentCount
  <2> HIDE DEF N, U
  <2>6. IsFiniteSet(N) /\ Cardinality(N) \in Nat /\ Cardinality(U) \in Nat
      BY <1>4, <2>4, FS_Subset, FS_CardinalityType
  <2>7. Cardinality(U) <= Cardinality(N) /\ Cardinality(N) < MaxAttempts
      BY <2>3, <2>5, <2>6, FS_Subset
  <2>8. /\ IsFiniteSet(U \cup {n + 1})
        /\ Cardinality(U \cup {n + 1}) <= Cardinality(U) + 1
        /\ Cardinality(U \cup {n + 1}) \in Nat
    <3>1. IsFiniteSet(U \cup {n + 1}) /\ n + 1 \notin U
        BY <1>1, <1>4, FS_AddElement
    <3>2. QED
        BY <1>4, <2>6, <3>1, FS_AddElement
  <2>9. /\ Cardinality(UnderKeys(v, g, k, t)') <= Cardinality(U \cup {n + 1})
        /\ Cardinality(UnderKeys(v, g, k, t)') \in Nat
    <3>1. UnderKeys(v, g, k, t)' \in SUBSET (U \cup {n + 1})
        BY <1>5
    <3>2. QED
        BY <2>8, <3>1, FS_Subset, FS_CardinalityType
  <2>10. QED
      BY <1>1, <2>6, <2>7, <2>8, <2>9
<1>8. QED
    BY <1>6, <1>7

\* The bucket of an attempt that is let through ends with it; the others'
\* attempts are where they were.
LEMMA AdmitStep ==
    ASSUME IInv, NEW w \in Worker, NEW peer \in Address, NEW key \in Address,
           Admit(w, peer, key), peer \notin TrustedProxy => key = peer,
           UNCHANGED <<now, generation>>
    PROVE  IInv'
<1> DEFINE r == Prune(hits[w][key])
           n == Len(passed)
           a == [worker |-> w, peer |-> peer, key |-> key,
                 generation |-> generation[w], at |-> now]
<1>1. /\ TypeOK /\ AttemptsOK /\ passed \in Seq(Attempt) /\ n \in Nat
      /\ now \in Time /\ now \in Int /\ Window \in Nat
    BY RateLimiterAssumption, TimeFacts DEF IInv, TypeOK
<1>2. /\ hits' = [hits EXCEPT ![w][key] = Append(r, now)]
      /\ passed' = Append(passed, a) /\ Len(r) < MaxAttempts
    BY DEF Admit
<1>3. r \in Seq(Time) /\ Sorted(r) /\ \E f : Mirror(r, w, key, f)
    BY PrunedBucket
<1>4. /\ a \in Attempt /\ By(a, w, generation[w], key) /\ a.at = now /\ a.worker = w
      /\ a.generation = generation[w] /\ a.peer = peer /\ a.key = key
    BY <1>1 DEF TypeOK, Attempt, By
<1>5. KeysBounded'
    BY <1>2, <1>4, AdmitBounds
<1> HIDE DEF r, a
<1>6. /\ Len(passed') = n + 1 /\ passed'[n + 1] = a /\ passed' \in Seq(Attempt)
      /\ \A i \in 1..n : passed'[i] = passed[i]
    BY <1>1, <1>2, <1>4
<1> HIDE DEF n
<1>7. /\ hits'[w][key] = Append(r, now)
      /\ \A v \in Worker, k \in Address :
             ~(v = w /\ k = key) => hits'[v][k] = hits[v][k]
    BY <1>1, <1>2 DEF TypeOK
<1> DEFINE m == Len(r)
           s == Append(r, now)
<1>8. /\ m \in Nat /\ Len(s) = m + 1 /\ s[m + 1] = now /\ s \in Seq(Time)
      /\ \A i \in 1..m : s[i] = r[i]
      /\ hits'[w][key] = s
    BY <1>1, <1>3, <1>7
<1>9. TypeOK'
  <2>1. Len(s) <= MaxAttempts
      BY <1>2, <1>8, RateLimiterAssumption
  <2>2. QED
      BY <1>1, <1>2, <1>6, <1>8, <2>1, BucketReplaced
<1> HIDE DEF m, s
<1>10. AttemptsOK'
  <2>1. SUFFICES ASSUME NEW i \in 1..(n + 1)
                 PROVE  /\ passed'[i].at <= now
                        /\ passed'[i].generation <= generation[passed'[i].worker]
                        /\ passed'[i].peer \notin TrustedProxy =>
                               passed'[i].key = passed'[i].peer
      BY <1>6 DEF AttemptsOK
  <2>2. CASE i = n + 1
    <3>1. generation[w] \in Int
        BY <1>1 DEF TypeOK
    <3>2. QED
        BY <1>1, <1>4, <1>6, <2>2, <3>1
  <2>3. CASE i \in 1..n
      BY <1>1, <1>6, <2>3 DEF AttemptsOK, n
  <2>4. QED
      BY <1>1, <2>2, <2>3
<1>11. Sorted(s)
  <2>1. \A i \in 1..m : s[i] <= now /\ s[i] \in Int
      BY <1>3, <1>8, TimeFacts DEF Sorted, m
  <2>2. ASSUME NEW i \in 1..(m + 1), NEW j \in 1..(m + 1), i <= j
        PROVE  s[i] <= s[j]
    <3>1. CASE j \in 1..m
      <4>1. i \in 1..m
          BY <1>8, <2>2, <3>1
      <4>2. QED
          BY <1>3, <1>8, <2>2, <3>1, <4>1 DEF Sorted, m
    <3>2. CASE j = m + 1
        BY <1>1, <1>8, <2>1, <2>2, <3>2
    <3>3. QED
        BY <1>8, <3>1, <3>2
  <2>3. \A i \in 1..(m + 1) : s[i] <= now
      BY <1>1, <1>8, <2>1
  <2>4. QED
      BY <1>8, <2>2, <2>3 DEF Sorted
<1>12. \E f \in [1..Len(hits[w][key]) -> 1..Len(passed)]' :
           Mirror(hits[w][key], w, key, f)'
  <2>1. PICK f : Mirror(r, w, key, f)
      BY <1>3
  <2> DEFINE g == [i \in 1..(m + 1) |-> IF i = m + 1 THEN n + 1 ELSE f[i]]
  <2>2. /\ \A i \in 1..m : f[i] \in 1..n
        /\ \A i, j \in 1..m : f[i] = f[j] => i = j
        /\ \A i \in 1..m : By(passed[f[i]], w, generation[w], key)
                           /\ passed[f[i]].at = r[i]
        /\ \A i \in 1..n : By(passed[i], w, generation[w], key)
                           /\ passed[i].at >= now - Window => \E j \in 1..m : f[j] = i
      BY <2>1 DEF Mirror, m, n
  <2>3. g \in [1..(m + 1) -> 1..(n + 1)]
      BY <1>1, <1>8, <2>2
  <2>4. g[m + 1] = n + 1 /\ \A i \in 1..m : g[i] = f[i] /\ g[i] \in 1..n
      BY <1>8, <2>2
  <2>5. \A i \in 1..(m + 1) : i = m + 1 \/ i \in 1..m
      BY <1>8
  <2>6. n + 1 \notin 1..n /\ \A i \in 1..(n + 1) : i = n + 1 \/ i \in 1..n
      BY <1>1
  <2> HIDE DEF g
  <2>7. \A i, j \in 1..(m + 1) : g[i] = g[j] => i = j
      BY <2>2, <2>4, <2>5, <2>6
  <2>8. ASSUME NEW i \in 1..(m + 1)
        PROVE  By(passed'[g[i]], w, generation[w], key) /\ passed'[g[i]].at = s[i]
    <3>1. CASE i = m + 1
        BY <1>4, <1>6, <1>8, <2>4, <3>1
    <3>2. CASE i \in 1..m
        BY <1>6, <1>8, <2>2, <2>4, <3>2
    <3>3. QED
        BY <2>5, <3>1, <3>2
  <2>9. ASSUME NEW i \in 1..(n + 1), By(passed'[i], w, generation[w], key),
               passed'[i].at >= now - Window
        PROVE  \E j \in 1..(m + 1) : g[j] = i
    <3>1. CASE i = n + 1
        BY <1>8, <2>4, <3>1
    <3>2. CASE i \in 1..n
      <4>1. PICK j \in 1..m : f[j] = i
          BY <1>6, <2>2, <2>9, <3>2
      <4>2. j \in 1..(m + 1) /\ g[j] = i
          BY <1>8, <2>4, <4>1
      <4>3. QED
          BY <4>2
    <3>3. QED
        BY <2>6, <3>1, <3>2
  <2> PICK h : h = g
      OBVIOUS
  <2>10. Mirror(hits[w][key], w, key, h)'
    <3>1. Len(hits'[w][key]) = m + 1 /\ Len(passed') = n + 1 /\ hits'[w][key] = s
        BY <1>6, <1>8
    <3>2. UNCHANGED <<now, generation>>
        OBVIOUS
    <3>3. QED
        BY <2>3, <2>7, <2>8, <2>9, <3>1, <3>2 DEF Mirror
  <2>11. QED
      BY <1>6, <1>8, <2>3, <2>10 DEF Mirror
<1>13. ASSUME NEW v \in Worker, NEW k \in Address, ~(v = w /\ k = key)
       PROVE  /\ Sorted(hits[v][k])'
              /\ \E f \in [1..Len(hits[v][k]) -> 1..Len(passed)]' :
                     Mirror(hits[v][k], v, k, f)'
  <2>1. hits'[v][k] = hits[v][k] /\ Sorted(hits[v][k])
      BY <1>7, <1>13 DEF IInv, BucketsOK
  <2>2. PICK f \in [1..Len(hits[v][k]) -> 1..n] : Mirror(hits[v][k], v, k, f)
      BY DEF IInv, BucketsOK, n
  <2>3. f \in [1..Len(hits[v][k]) -> 1..(n + 1)]
      BY <1>1, <2>2
  <2>4. ~By(a, v, generation[v], k)
      BY <1>4, <1>13 DEF By
  <2>5. \A i \in 1..(n + 1) : i \in 1..n \/ passed'[i] = a
      BY <1>1, <1>6
  <2>6. \A i \in 1..Len(hits[v][k]) : passed'[f[i]] = passed[f[i]]
      BY <1>6, <2>2
  <2>7. \A i \in 1..(n + 1) :
            By(passed'[i], v, generation[v], k) /\ passed'[i].at >= now - Window =>
                \E j \in 1..Len(hits[v][k]) : f[j] = i
      BY <1>6, <2>2, <2>4, <2>5 DEF Mirror, n
  <2>8. Mirror(hits[v][k], v, k, f)'
      BY <1>6, <2>1, <2>2, <2>3, <2>6, <2>7 DEF Mirror
  <2>9. Sorted(hits[v][k])'
      BY <2>1 DEF Sorted
  <2>10. QED
      BY <1>6, <2>1, <2>3, <2>8, <2>9
<1>14. BucketsOK'
  <2>1. Sorted(hits[w][key])'
      BY <1>8, <1>11 DEF Sorted
  <2>2. QED
      BY <1>12, <1>13, <2>1 DEF BucketsOK
<1>15. QED
    BY <1>5, <1>9, <1>10, <1>14 DEF IInv

LEMMA CheckStep ==
    ASSUME IInv, NEW w \in Worker, NEW peer \in Address,
           NEW forwarded \in Address \cup {NoHeader},
           check_and_record(w, peer, forwarded)
    PROVE  IInv'
<1> DEFINE key == client_ip(peer, forwarded)
<1>1. key \in Address /\ (peer \notin TrustedProxy => key = peer)
    BY DEF client_ip
<1>2. /\ Admit(w, peer, key) \/ Reject(w, key)
      /\ UNCHANGED <<now, generation>>
    BY DEF check_and_record
<1> HIDE DEF key
<1>3. QED
    BY <1>1, <1>2, AdmitStep, RejectStep

LEMMA InitStep == Init => IInv
<1>1. SUFFICES ASSUME Init PROVE IInv
    OBVIOUS
<1>2. TypeOK
    BY <1>1, RateLimiterAssumption DEF Init, TypeOK, Time
<1>3. Len(passed) = 0 /\ 1..0 = {}
    BY <1>1 DEF Init
<1>4. AttemptsOK
    BY <1>3 DEF AttemptsOK
<1>5. KeysBounded
  <2>1. ASSUME NEW w, NEW g, NEW k, NEW t
        PROVE  Cardinality(UnderKeys(w, g, k, t)) = 0
      BY <1>3, FS_EmptySet DEF UnderKeys
  <2>2. QED
      BY <2>1, RateLimiterAssumption DEF KeysBounded
<1>6. ASSUME NEW w \in Worker, NEW k \in Address
      PROVE  /\ Sorted(hits[w][k])
             /\ \E f \in [1..Len(hits[w][k]) -> 1..Len(passed)] :
                    Mirror(hits[w][k], w, k, f)
  <2>1. Len(hits[w][k]) = 0
      BY <1>1 DEF Init
  <2> DEFINE f == [i \in {} |-> i]
  <2>2. f \in [1..Len(hits[w][k]) -> 1..Len(passed)]
      BY <1>3, <2>1
  <2> HIDE DEF f
  <2>3. QED
      BY <1>3, <2>1, <2>2 DEF Sorted, Mirror
<1>7. QED
    BY <1>2, <1>4, <1>5, <1>6 DEF IInv, BucketsOK

LEMMA StutterStep ==
    ASSUME IInv, UNCHANGED vars
    PROVE  IInv'
<1>1. UNCHANGED <<now, hits, generation, passed>>
    BY DEF vars
<1>2. TypeOK' /\ AttemptsOK'
    BY <1>1 DEF IInv, TypeOK, AttemptsOK
<1>3. BucketsOK'
    BY <1>1, KeptBucket DEF BucketsOK
<1>4. QED
    BY <1>1, <1>2, <1>3, KeptBounds DEF IInv

LEMMA NextStep == IInv /\ [Next]_vars => IInv'
BY CheckStep, RestartStep, TickStep, StutterStep DEF Next

LEMMA Invariance == Spec => []IInv
BY InitStep, NextStep, PTL DEF Spec
-----------------------------------------------------------------------------
\* Type correctness: times, buckets and attempts are what the model says.
THEOREM TypeCorrect == Spec => []TypeOK
<1>1. IInv => TypeOK
    BY DEF IInv
<1>2. QED
    BY <1>1, Invariance, PTL

\* A worker decides on exactly the attempts that it has let through in the
\* window that ends now: pruning forgets none of them and keeps no other.
THEOREM BucketsAreExact == Spec => []BucketIsTheWindow
<1>1. IInv => BucketIsTheWindow
  <2>1. SUFFICES ASSUME IInv, NEW w \in Worker, NEW k \in Address
                 PROVE  Len(Prune(hits[w][k])) =
                            Cardinality({i \in 1..Len(passed) :
                                /\ passed[i].worker = w
                                /\ passed[i].generation = generation[w]
                                /\ passed[i].key = k
                                /\ Within(passed[i], now)})
      BY DEF BucketIsTheWindow, Count
  <2>2. QED
      BY <2>1, RecentCount DEF UnderKeys, By
<1>2. QED
    BY <1>1, Invariance, PTL

\* No span of the window's length holds more than MaxAttempts attempts that
\* one process let through under one key, or from one caller who is not behind
\* a trusted proxy, whatever the header says: for every limit and window.
THEOREM LimitIsKept == Spec => []WindowIsBounded
<1>1. IInv => WindowIsBounded
  <2> DEFINE Here(a, w, g, t) == a.worker = w /\ a.generation = g /\ Within(a, t)
             Keys(w, g, x, t) ==
                 {i \in 1..Len(passed) : Here(passed[i], w, g, t) /\ passed[i].key = x}
             Peers(w, g, x, t) ==
                 {i \in 1..Len(passed) : Here(passed[i], w, g, t) /\ passed[i].peer = x}
  <2>1. SUFFICES ASSUME IInv, NEW w \in Worker, NEW g \in 0..MaxRestarts,
                        NEW x \in Address, NEW t \in Time
                 PROVE  /\ Cardinality(UnderKeys(w, g, x, t)) <= MaxAttempts
                        /\ x \notin TrustedProxy =>
                               Cardinality(Peers(w, g, x, t)) <= MaxAttempts
    <3>1. \A w, g, x, t : Keys(w, g, x, t) = UnderKeys(w, g, x, t)
        BY DEF UnderKeys, By
    <3>2. ASSUME \A w \in Worker, g \in 0..MaxRestarts, x \in Address, t \in Time :
                     /\ Cardinality(Keys(w, g, x, t)) <= MaxAttempts
                     /\ x \notin TrustedProxy =>
                            Cardinality(Peers(w, g, x, t)) <= MaxAttempts
          PROVE  WindowIsBounded
        BY <3>2 DEF WindowIsBounded, Count
    <3> HIDE DEF Keys, Peers
    <3>3. QED
        BY <3>1, <3>2
  <2>2. Cardinality(UnderKeys(w, g, x, t)) <= MaxAttempts
      BY <2>1 DEF IInv, KeysBounded
  <2>3. ASSUME x \notin TrustedProxy
        PROVE  Cardinality(Peers(w, g, x, t)) <= MaxAttempts
    <3>1. Peers(w, g, x, t) \subseteq UnderKeys(w, g, x, t)
        BY <2>1, <2>3 DEF IInv, AttemptsOK, UnderKeys, By
    <3>2. IsFiniteSet(UnderKeys(w, g, x, t))
      <4>1. Len(passed) \in Nat
          BY <2>1 DEF IInv, TypeOK
      <4>2. UnderKeys(w, g, x, t) \subseteq 1..Len(passed)
          BY DEF UnderKeys
      <4>3. IsFiniteSet(1..Len(passed)) /\ UnderKeys(w, g, x, t) \in SUBSET (1..Len(passed))
          BY <4>1, <4>2, IntervalFacts
      <4>4. QED
          BY <4>3, FS_Subset
    <3> HIDE DEF Peers
    <3>3. /\ Cardinality(Peers(w, g, x, t)) <= Cardinality(UnderKeys(w, g, x, t))
          /\ Cardinality(Peers(w, g, x, t)) \in Nat
          /\ Cardinality(UnderKeys(w, g, x, t)) \in Nat
        BY <3>1, <3>2, FS_Subset, FS_CardinalityType
    <3>4. QED
        BY <2>2, <3>3, RateLimiterAssumption
  <2>4. QED
      BY <2>2, <2>3
<1>2. QED
    BY <1>1, Invariance, PTL
=============================================================================
