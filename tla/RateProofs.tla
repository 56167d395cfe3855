----------------------------- MODULE RateProofs -----------------------------
(***************************************************************************)
(* Proofs about the token bucket, for every burst, refill, resolution and  *)
(* age of clock readings.  That a run of denials is short needs the bucket *)
(* to remember it: from the first denial on it is empty, its last refill   *)
(* lies before that denial, and every later denial came less than a second *)
(* (plus the reading's age) after that refill.  That every interval is     *)
(* bounded needs an account from each tick on: what was granted since and  *)
(* what is left are no more than the burst, what was earned since and what *)
(* the removals of the bucket since gave back.                             *)
(***************************************************************************)
EXTENDS RateLimiter, SumProofs

----------------------------------------------------------------------------
(* The bucket.                                                             *)

\* Whole seconds: none exactly while less than a second has passed.
LEMMA WholeSeconds ==
    ASSUME NEW x \in Nat
    PROVE  /\ x \div TicksPerSec \in Nat
           /\ x \div TicksPerSec = 0 => x < TicksPerSec
<1>1. TicksPerSec \in Nat \ {0}
  BY BucketAssumption
<1> QED
  BY <1>1

LEMMA ElapsedType ==
    ASSUME NEW b \in Bucket, NEW now \in Nat
    PROVE  /\ ElapsedSecs(b, now) \in Nat
           /\ ElapsedSecs(b, now) = 0 => now < b.last_refill + TicksPerSec
<1>1. b.last_refill \in Nat
  BY DEF Bucket
<1>2. CASE now < b.last_refill
  BY <1>1, <1>2, BucketAssumption DEF ElapsedSecs
<1>3. CASE ~(now < b.last_refill)
  <2>1. now - b.last_refill \in Nat
    BY <1>1, <1>3
  <2>2. ElapsedSecs(b, now) = (now - b.last_refill) \div TicksPerSec
    BY <1>3 DEF ElapsedSecs
  <2>3. /\ (now - b.last_refill) \div TicksPerSec \in Nat
        /\ (now - b.last_refill) \div TicksPerSec = 0 => now - b.last_refill < TicksPerSec
    BY <2>1, WholeSeconds
  <2> QED
    BY <1>1, <2>2, <2>3, BucketAssumption
<1> QED
  BY <1>2, <1>3

LEMMA RefillType ==
    ASSUME NEW b \in Bucket, NEW now \in Nat
    PROVE  /\ Refill(b, now) \in Bucket
           /\ \/ Refill(b, now).last_refill = b.last_refill
              \/ Refill(b, now).last_refill = now
<1>1. CASE RefillPerSec = 0 \/ b.tokens >= Burst \/ ElapsedSecs(b, now) = 0
  BY <1>1 DEF Refill
<1>2. CASE ~(RefillPerSec = 0 \/ b.tokens >= Burst \/ ElapsedSecs(b, now) = 0)
  <2> DEFINE sum == b.tokens + ElapsedSecs(b, now) * RefillPerSec
  <2>1. ElapsedSecs(b, now) * RefillPerSec \in Nat
    BY ElapsedType, BucketAssumption
  <2>2. sum \in Nat
    BY <2>1, BucketAssumption DEF Bucket
  <2> HIDE DEF sum
  <2>3. (IF sum > Burst THEN Burst ELSE sum) \in 0..Burst
    BY <2>2, BucketAssumption
  <2>4. Refill(b, now) = [tokens |-> IF sum > Burst THEN Burst ELSE sum,
                          last_refill |-> now]
    BY <1>2 DEF Refill, sum
  <2> QED
    BY <2>3, <2>4 DEF Bucket
<1> QED
  BY <1>1, <1>2

LEMMA TryConsumeType ==
    ASSUME NEW b \in Bucket, NEW now \in Nat
    PROVE  /\ TryConsume(b, now) \in Bucket
           /\ \/ TryConsume(b, now).last_refill = b.last_refill
              \/ TryConsume(b, now).last_refill = now
<1> DEFINE r == Refill(b, now)
<1>1. /\ r.tokens \in 0..Burst
      /\ r.last_refill \in Nat
      /\ r.last_refill = b.last_refill \/ r.last_refill = now
  BY RefillType DEF Bucket
<1> HIDE DEF r
<1>2. TryConsume(b, now) = [tokens |-> IF r.tokens = 0 THEN 0 ELSE r.tokens - 1,
                            last_refill |-> r.last_refill]
  BY DEF TryConsume, r
<1>3. (IF r.tokens = 0 THEN 0 ELSE r.tokens - 1) \in 0..Burst
  BY <1>1, BucketAssumption
<1> QED
  BY <1>1, <1>2, <1>3 DEF Bucket

\* A denial leaves an empty bucket as it was, and came within a second of its
\* last refill.
LEMMA DenialLeavesBucket ==
    ASSUME NEW b \in Bucket, NEW now \in Nat, RefillPerSec > 0, ~Granted(b, now)
    PROVE  /\ TryConsume(b, now) = b
           /\ b.tokens = 0
           /\ now < b.last_refill + TicksPerSec
<1>1. /\ b = [tokens |-> b.tokens, last_refill |-> b.last_refill]
      /\ b.tokens \in 0..Burst
      /\ b.last_refill \in Nat
  BY DEF Bucket
<1>2. Refill(b, now).tokens = 0
  BY DEF Granted
<1>3. ~(b.tokens >= Burst)
  BY <1>1, <1>2, BucketAssumption DEF Refill
<1>4. ElapsedSecs(b, now) = 0
  <2>1. SUFFICES ASSUME ElapsedSecs(b, now) # 0 PROVE FALSE
    OBVIOUS
  <2> DEFINE earned == ElapsedSecs(b, now) * RefillPerSec
  <2>2. earned \in Nat \ {0}
    <3>1. /\ ElapsedSecs(b, now) \in Nat \ {0}
          /\ RefillPerSec \in Nat \ {0}
      BY <2>1, ElapsedType, BucketAssumption
    <3>2. \A m, n \in Nat \ {0} : m * n \in Nat \ {0}
      BY SMT
    <3> QED
      BY <3>1, <3>2
  <2>3. Refill(b, now).tokens = IF b.tokens + earned > Burst THEN Burst
                                ELSE b.tokens + earned
    BY <1>3, <2>1, BucketAssumption DEF Refill
  <2> HIDE DEF earned
  <2> QED
    BY <1>1, <1>2, <2>2, <2>3, BucketAssumption
<1>5. Refill(b, now) = b
  BY <1>4 DEF Refill
<1>6. TryConsume(b, now) = b
  BY <1>1, <1>2, <1>5 DEF TryConsume
<1> QED
  BY <1>2, <1>4, <1>5, <1>6, ElapsedType

----------------------------------------------------------------------------
(* The limiter.                                                            *)

\* What the bucket remembers of a run of denials.
DenialsAreFresh ==
    (RefillPerSec > 0 /\ deniedSince # <<>>) =>
        /\ deniedSince[1] \in Nat
        /\ deniedSince[2] \in Nat
        /\ deniedSince[2] - deniedSince[1] < TicksPerSec + Skew
        /\ bucket # NoBucket =>
              /\ bucket.tokens = 0
              /\ bucket.last_refill <= deniedSince[1]
              /\ deniedSince[2] < bucket.last_refill + TicksPerSec + Skew

LimiterInv == LimiterTypeOK /\ DenialsAreFresh

LEMMA LimiterInitially == LimiterInit => LimiterInv
<1>1. NewBucket(0) \in Bucket /\ NewBucket(0).last_refill = 0
  BY BucketAssumption DEF NewBucket, Bucket
<1> QED
  BY <1>1, LimiterAssumption
     DEF LimiterInit, PushInit, CreateInit, LimiterInv, LimiterTypeOK, DenialsAreFresh

\* The bucket a request finds, and its reading of the clock.
LEMMA EntryType ==
    ASSUME LimiterTypeOK, NEW now \in Readings
    PROVE  /\ now \in Nat /\ now <= mono /\ mono <= now + Skew
           /\ Entry(now) \in Bucket
           /\ Entry(now).last_refill <= mono
           /\ bucket = NoBucket => Granted(Entry(now), now)
           /\ bucket # NoBucket => Entry(now) = bucket
<1>1. now \in Nat /\ now <= mono /\ mono <= now + Skew /\ mono \in Nat
  BY LimiterAssumption DEF LimiterTypeOK, Readings
<1>2. CASE bucket # NoBucket
  BY <1>1, <1>2 DEF LimiterTypeOK, Entry
<1>3. CASE bucket = NoBucket
  <2>1. Entry(now) = [tokens |-> Burst, last_refill |-> now]
    BY <1>3 DEF Entry, NewBucket
  <2>2. Refill(Entry(now), now) = Entry(now)
    BY <2>1, BucketAssumption DEF Refill
  <2> QED
    BY <1>1, <1>3, <2>1, <2>2, BucketAssumption DEF Granted, Bucket
<1> QED
  BY <1>2, <1>3

LEMMA LimiterTypeStep ==
    ASSUME LimiterTypeOK, NEW now \in Readings,
           bucket' = TryConsume(Entry(now), now), mono' = mono
    PROVE  /\ bucket' \in Bucket
           /\ bucket' # NoBucket
           /\ bucket'.last_refill <= mono'
<1> DEFINE b == Entry(now)
<1>1. /\ now \in Nat /\ now <= mono /\ mono \in Nat
      /\ b \in Bucket /\ b.last_refill <= mono
  BY EntryType, LimiterAssumption DEF LimiterTypeOK
<1> HIDE DEF b
<1>2. /\ bucket' \in Bucket
      /\ bucket'.last_refill = b.last_refill \/ bucket'.last_refill = now
  BY <1>1, TryConsumeType DEF b
<1>3. bucket' # NoBucket
  BY <1>2, LimiterAssumption
<1> QED
  BY <1>1, <1>2, <1>3

LEMMA LimiterStep == LimiterInv /\ [LimiterNext]_limiterVars => LimiterInv'
<1> SUFFICES ASSUME LimiterInv, [LimiterNext]_limiterVars PROVE LimiterInv'
  OBVIOUS
<1> USE DEF LimiterInv
<1>1. CASE Tick
  <2>1. UNCHANGED <<bucket, grants, drops, deniedSince>> /\ mono' = mono + 1 /\ mono < MaxTicks
    BY <1>1 DEF Tick
  <2>2. LimiterTypeOK'
    <3>1. bucket # NoBucket => bucket.last_refill \in Nat
      BY DEF LimiterTypeOK, Bucket
    <3> QED
      BY <2>1, <3>1, LimiterAssumption DEF LimiterTypeOK
  <2> QED
    BY <2>1, <2>2 DEF DenialsAreFresh
<1>2. ASSUME NEW now \in Readings, Grant(now) PROVE LimiterInv'
  <2>1. /\ bucket' = TryConsume(Entry(now), now)
        /\ grants' = [grants EXCEPT ![mono] = @ + 1]
        /\ deniedSince' = <<>>
        /\ UNCHANGED <<mono, drops>>
    BY <1>2 DEF Grant
  <2>2. grants' \in [0..MaxTicks -> Nat]
    BY <2>1 DEF LimiterTypeOK
  <2> QED
    BY <2>1, <2>2, LimiterTypeStep DEF LimiterTypeOK, DenialsAreFresh
<1>3. ASSUME NEW now \in Readings, Deny(now) PROVE LimiterInv'
  <2>1. /\ ~Granted(Entry(now), now)
        /\ bucket' = TryConsume(Entry(now), now)
        /\ deniedSince' = IF deniedSince = <<>> THEN <<mono, mono>>
                                                ELSE <<deniedSince[1], mono>>
        /\ UNCHANGED <<mono, grants, drops>>
    BY <1>3 DEF Deny
  <2>2. LimiterTypeOK'
    BY <2>1, LimiterTypeStep DEF LimiterTypeOK
  <2>3. ASSUME RefillPerSec > 0
        PROVE  /\ bucket' # NoBucket
               /\ bucket'.tokens = 0
               /\ deniedSince'[1] \in Nat
               /\ deniedSince'[2] \in Nat
               /\ deniedSince'[2] - deniedSince'[1] < TicksPerSec + Skew
               /\ bucket'.last_refill <= deniedSince'[1]
               /\ deniedSince'[2] < bucket'.last_refill + TicksPerSec + Skew
    <3>1. bucket # NoBucket /\ Entry(now) = bucket /\ bucket \in Bucket
      BY <2>1, EntryType DEF LimiterTypeOK
    <3>2. bucket' = bucket /\ bucket.tokens = 0 /\ now < bucket.last_refill + TicksPerSec
      BY <2>1, <2>3, <3>1, EntryType, DenialLeavesBucket
    <3>3. bucket.last_refill \in Nat /\ bucket.last_refill <= mono
      BY <3>1 DEF LimiterTypeOK, Bucket
    <3>4. mono \in Nat /\ mono < bucket.last_refill + TicksPerSec + Skew
      BY <3>2, <3>3, EntryType, LimiterAssumption, BucketAssumption DEF LimiterTypeOK
    <3>5. CASE deniedSince = <<>>
      <4>1. deniedSince' = <<mono, mono>>
        BY <2>1, <3>5
      <4> QED
        BY <3>1, <3>2, <3>3, <3>4, <4>1, LimiterAssumption, BucketAssumption
    <3>6. CASE deniedSince # <<>>
      <4>1. deniedSince' = <<deniedSince[1], mono>>
        BY <2>1, <3>6
      <4>2. deniedSince'[1] = deniedSince[1] /\ deniedSince'[2] = mono
        BY <4>1
      <4> QED
        BY <2>3, <3>1, <3>2, <3>3, <3>4, <3>6, <4>2, LimiterAssumption, BucketAssumption
           DEF DenialsAreFresh
    <3> QED
      BY <3>5, <3>6
  <2> QED
    BY <2>2, <2>3 DEF DenialsAreFresh
<1>4. CASE Drop
  <2>1. /\ bucket' = NoBucket
        /\ drops' = [drops EXCEPT ![mono] = @ + 1]
        /\ UNCHANGED <<mono, grants, deniedSince>>
    BY <1>4 DEF Drop
  <2>2. drops' \in [0..MaxTicks -> Nat]
    BY <2>1 DEF LimiterTypeOK
  <2> QED
    BY <2>1, <2>2 DEF LimiterTypeOK, DenialsAreFresh
<1>5. CASE UNCHANGED limiterVars
  BY <1>5 DEF limiterVars, LimiterTypeOK, DenialsAreFresh
<1> QED
  BY <1>1, <1>2, <1>3, <1>4, <1>5 DEF LimiterNext

\* The inductive invariant, for a bucket made by its first request and for one
\* made when the relay starts.
THEOREM LimiterInvariant == LimiterSpec => []LimiterInv
BY LimiterInitially, LimiterStep, PTL DEF LimiterSpec

\* No bucket ever holds more than its burst or a refill from the future.
THEOREM LimiterTypeCorrect == LimiterSpec => []LimiterTypeOK
BY LimiterInvariant, PTL DEF LimiterInv

\* With a refill, requests that keep polling are denied for less than a second
\* plus the age of their clock readings.
THEOREM PollingDoesNotStarve == LimiterSpec => []NoStarvation
<1>1. LimiterInv => NoStarvation
  BY DEF LimiterInv, DenialsAreFresh, NoStarvation
<1> QED
  BY <1>1, LimiterInvariant, PTL

----------------------------------------------------------------------------
(* The grants of a window.                                                 *)

LEMMA DivBetween ==
    ASSUME NEW x \in Nat
    PROVE  LET q == x \div TicksPerSec
           IN  q \in Nat /\ q * TicksPerSec <= x /\ x < q * TicksPerSec + TicksPerSec
<1> DEFINE T == TicksPerSec
           q == x \div T
           r == x % T
<1>1. T \in Nat \ {0}
  BY BucketAssumption
<1> HIDE DEF T
<1>2. q \in Nat /\ x = T * q + r /\ r \in 0..(T - 1)
  BY <1>1
<1>3. T * q = q * T
  BY <1>1, <1>2
<1> HIDE DEF q, r
<1>4. q \in Nat /\ q * T <= x /\ x < q * T + T
  BY <1>1, <1>2, <1>3
<1> QED
  BY <1>4 DEF q, T

LEMMA ProductsOrdered ==
    ASSUME NEW T \in Nat \ {0}, NEW p \in Int, NEW q \in Int, p < q
    PROVE  p * T + T <= q * T
<1>1. PICK d \in Nat : q = p + 1 + d
  <2>1. q - p - 1 \in Nat /\ q = p + 1 + (q - p - 1)
    OBVIOUS
  <2> QED
    BY <2>1
<1> DEFINE a == p * T
           b == d * T
<1>2. q * T = a + T + b
  BY <1>1
<1>3. a \in Int /\ b \in Nat
  OBVIOUS
<1> HIDE DEF a, b
<1>4. a + T <= q * T
  BY <1>2, <1>3
<1> QED
  BY <1>4 DEF a

\* Whole seconds add up: e seconds more are e whole seconds more.
LEMMA SecondsAdd ==
    ASSUME NEW a \in Nat, NEW b \in Nat, NEW e \in Nat, a + e * TicksPerSec <= b
    PROVE  (a \div TicksPerSec) + e <= b \div TicksPerSec
<1> DEFINE T == TicksPerSec
           p == a \div T
           q == b \div T
<1>1. T \in Nat \ {0}
  BY BucketAssumption
<1>2. p \in Nat /\ q \in Nat /\ p * T <= a /\ b < q * T + T
  BY DivBetween
<1>3. a + e * T <= b
  OBVIOUS
<1> HIDE DEF T, p, q
<1>4. ASSUME q < p + e PROVE FALSE
  <2>1. q * T + T <= (p + e) * T
    BY <1>1, <1>2, <1>4, ProductsOrdered
  <2>2. (p + e) * T = p * T + e * T
    BY <1>1, <1>2
  <2> DEFINE pT == p * T
             eT == e * T
             qT == q * T
  <2>3. pT \in Nat /\ eT \in Nat /\ qT \in Nat
    BY <1>1, <1>2
  <2>4. qT + T <= pT + eT /\ pT <= a /\ a + eT <= b /\ b < qT + T
    BY <1>2, <1>3, <2>1, <2>2
  <2> HIDE DEF pT, eT, qT
  <2> QED
    BY <1>1, <2>3, <2>4
<1>5. p + e <= q
  BY <1>2, <1>4
<1> QED
  BY <1>5 DEF p, q, T

\* What n seconds earn.
LEMMA EarnedAdds ==
    ASSUME NEW m \in Nat, NEW e \in Nat, NEW n \in Nat, m + e <= n
    PROVE  /\ RefillPerSec * m \in Nat /\ RefillPerSec * n \in Nat
           /\ e * RefillPerSec \in Nat
           /\ RefillPerSec * m + e * RefillPerSec <= RefillPerSec * n
<1> DEFINE R == RefillPerSec
<1>1. R \in Nat
  BY BucketAssumption
<1> HIDE DEF R
<1>2. PICK d \in Nat : n = m + e + d
  <2>1. n - (m + e) \in Nat /\ n = m + e + (n - (m + e))
    OBVIOUS
  <2> QED
    BY <2>1
<1> DEFINE a == R * m
           b == e * R
           c == R * d
<1>3. R * n = a + b + c
  BY <1>1, <1>2
<1>4. a \in Nat /\ b \in Nat /\ c \in Nat
  BY <1>1
<1> HIDE DEF a, b, c
<1>5. a \in Nat /\ R * n \in Nat /\ b \in Nat /\ a + b <= R * n
  BY <1>3, <1>4
<1> QED
  BY <1>5 DEF a, b, R

----------------------------------------------------------------------------

\* The earliest refill whose earnings a window from tick i can still spend: a
\* reading may be Skew old, and a bucket is refilled only after a whole second.
Base(i) == i - Skew - TicksPerSec + 1

Extra == IF atStart THEN 1 ELSE 0
Since(i) == GrantsIn(i, mono)
Earned(i, t) == RefillPerSec * ((t - Base(i)) \div TicksPerSec)

\* What the time between a reading and the lock can earn.
Lag == RefillPerSec * CeilSecs(Skew)

\* The burst, and what the removals of the bucket since tick i gave back.
Allowed(i) == Burst + Refunded(DropsIn(i, mono))

\* The grants since tick i and the tokens left are covered: by what is allowed,
\* and by what was earned up to the last refill.  The bucket made at the start
\* may still hold a last refill from long before i after its first grant.
Accounted(i) ==
    \/ Since(i) = 0
    \/ RefillPerSec = 0 /\ Since(i) + bucket.tokens <= Allowed(i)
    \/ /\ bucket.last_refill >= Base(i)
       /\ Since(i) + bucket.tokens <= Allowed(i) + Extra + Earned(i, bucket.last_refill)
    \/ atStart /\ Since(i) = 1 /\ bucket.tokens = Burst - 1

\* Without a bucket, a full one made with the oldest reading is covered too.
Covered(i) ==
    \/ Since(i) = 0
    \/ Since(i) + Burst + Lag <= Allowed(i) + Earned(i, mono)

BucketAccounts ==
    /\ \A t \in (mono + 1)..MaxTicks : grants[t] = 0 /\ drops[t] = 0
    /\ bucket = NoBucket => \A i \in 0..mono : Covered(i)
    /\ bucket # NoBucket => \A i \in 0..mono : Accounted(i)
    /\ (bucket # NoBucket /\ bucket.tokens = Burst) => atStart

LEMMA TicksFinite ==
    ASSUME NEW i \in Nat, NEW j \in Nat
    PROVE  IsFiniteSet(i..j)
<1>1. i \in Int /\ j \in Int
  OBVIOUS
<1> QED
  BY <1>1, FS_Interval

\* Sums over the ticks of an interval.
LEMMA CountsType ==
    ASSUME LimiterTypeOK, NEW f \in [0..MaxTicks -> Nat],
           NEW i \in 0..mono, NEW j \in i..mono
    PROVE  SumFunctionOnSet(f, i..j) \in Nat
<1>1. i \in Nat /\ j \in Nat /\ mono \in Nat /\ mono <= MaxTicks /\ MaxTicks \in Nat
  BY LimiterAssumption DEF LimiterTypeOK
<1>2. IsFiniteSet(i..j) /\ i..j \subseteq 0..MaxTicks
  BY <1>1, TicksFinite
<1>3. \A t \in i..j : f[t] \in Nat
  BY <1>2
<1> QED
  BY <1>2, <1>3, SumType

\* A tick in which nothing happened adds nothing.
LEMMA QuietTick ==
    ASSUME LimiterTypeOK, NEW f \in [0..MaxTicks -> Nat], mono < MaxTicks,
           f[mono + 1] = 0, NEW i \in 0..(mono + 1)
    PROVE  SumFunctionOnSet(f, i..(mono + 1))
             = IF i = mono + 1 THEN 0 ELSE SumFunctionOnSet(f, i..mono)
<1> DEFINE S == i..(mono + 1)
<1>1. mono \in Nat /\ i \in Nat /\ MaxTicks \in Nat
  BY LimiterAssumption DEF LimiterTypeOK
<1>2. IsFiniteSet(S) /\ mono + 1 \in S /\ S \subseteq 0..MaxTicks
  BY <1>1, TicksFinite
<1>3. \A t \in S : f[t] \in Nat
  BY <1>2
<1>4. SumFunctionOnSet(f, S) = f[mono + 1] + SumFunctionOnSet(f, S \ {mono + 1})
  <2> HIDE DEF S
  <2> QED
    BY <1>2, <1>3, SumRemove
<1>5. S \ {mono + 1} = i..mono
  BY <1>1
<1>6. SumFunctionOnSet(f, S) = SumFunctionOnSet(f, i..mono)
  <2>1. SumFunctionOnSet(f, i..mono) \in Nat
    <3>1. IsFiniteSet(i..mono) /\ \A t \in i..mono : f[t] \in Nat
      BY <1>1, <1>3, TicksFinite
    <3> QED
      BY <3>1, SumType
  <2>2. SumFunctionOnSet(f, S \ {mono + 1}) = SumFunctionOnSet(f, i..mono)
    BY <1>5, Zenon
  <2> QED
    BY <1>4, <2>1, <2>2
<1>7. i = mono + 1 => SumFunctionOnSet(f, i..mono) = 0
  <2>1. i = mono + 1 => i..mono = {}
    BY <1>1
  <2> QED
    BY <2>1, SumOfNone
<1> QED
  BY <1>6, <1>7

\* The count f with one more now.
OneMore(f) == [f EXCEPT ![mono] = @ + 1]

\* What happens now counts in the intervals that reach to now, only in them.
LEMMA CountedNow ==
    ASSUME LimiterTypeOK, NEW f \in [0..MaxTicks -> Nat],
           NEW i \in 0..mono, NEW j \in i..mono
    PROVE  /\ j = mono => SumFunctionOnSet(OneMore(f), i..j) = SumFunctionOnSet(f, i..j) + 1
           /\ j # mono => SumFunctionOnSet(OneMore(f), i..j) = SumFunctionOnSet(f, i..j)
<1> DEFINE g == OneMore(f)
<1>1. mono \in Nat /\ i \in Nat /\ j \in Nat /\ MaxTicks \in Nat /\ mono <= MaxTicks
  BY LimiterAssumption DEF LimiterTypeOK
<1>2. /\ \A t \in 0..MaxTicks : f[t] \in Nat /\ g[t] \in Nat
      /\ \A t \in 0..MaxTicks \ {mono} : g[t] = f[t]
      /\ g[mono] = f[mono] + 1
  BY <1>1 DEF OneMore
<1> HIDE DEF g
<1> DEFINE S == i..j
<1>3. IsFiniteSet(S) /\ S \subseteq 0..MaxTicks /\ (mono \in S <=> j = mono)
  BY <1>1, TicksFinite
<1>4. IsFiniteSet(S \ {mono})
  BY <1>3, FS_Subset
<1>5. \A t \in S \ {mono} : g[t] = f[t]
  BY <1>2, <1>3
<1> HIDE DEF S
<1>6. SumFunctionOnSet(g, S \ {mono}) = SumFunctionOnSet(f, S \ {mono})
  BY <1>4, <1>5, SumSame
<1>7. SumFunctionOnSet(f, S \ {mono}) \in Nat
  BY <1>2, <1>3, <1>4, SumType
<1>8. CASE j = mono
  <2>1. \A h : (\A t \in S : h[t] \in Nat) =>
          SumFunctionOnSet(h, S) = h[mono] + SumFunctionOnSet(h, S \ {mono})
    BY <1>3, <1>8, SumRemove
  <2>2. /\ SumFunctionOnSet(f, S) = f[mono] + SumFunctionOnSet(f, S \ {mono})
        /\ SumFunctionOnSet(g, S) = g[mono] + SumFunctionOnSet(g, S \ {mono})
    BY <1>2, <1>3, <2>1
  <2>3. f[mono] \in Nat
    BY <1>1, <1>2
  <2>4. SumFunctionOnSet(g, S) = SumFunctionOnSet(f, S) + 1
    BY <1>2, <1>6, <1>7, <2>2, <2>3
  <2> QED
    BY <1>8, <2>4 DEF S, g
<1>9. CASE j # mono
  <2>1. S \ {mono} = S
    BY <1>3, <1>9
  <2>2. SumFunctionOnSet(g, S) = SumFunctionOnSet(f, S)
    BY <1>6, <2>1, Zenon
  <2> QED
    BY <1>9, <2>2 DEF S, g
<1> QED
  BY <1>8, <1>9

LEMMA LagType == Lag \in Nat
<1>1. Skew + TicksPerSec - 1 \in Nat
  BY LimiterAssumption, BucketAssumption
<1>2. CeilSecs(Skew) \in Nat
  BY <1>1, WholeSeconds DEF CeilSecs
<1> QED
  BY <1>2, BucketAssumption DEF Lag

\* One more removal gives back one more full bucket.
LEMMA RefundAdds ==
    ASSUME NEW n \in Nat
    PROVE  /\ Refunded(n) \in Nat
           /\ Refunded(n + 1) = Refunded(n) + Burst + Lag
           /\ Refunded(0) = 0
<1> DEFINE K == Burst + Lag
           a == n * K
<1>1. K \in Nat /\ Burst \in Nat /\ Lag \in Nat
  BY LagType, BucketAssumption
<1>2. \A m : Refunded(m) = m * K
  BY DEF Refunded, Lag
<1> HIDE DEF K
<1>3. a \in Nat /\ (n + 1) * K = a + K /\ 0 * K = 0
  BY <1>1
<1> HIDE DEF a
<1>4. Refunded(n) = a /\ Refunded(n + 1) = a + K /\ Refunded(0) = 0
  BY <1>2, <1>3 DEF a
<1> QED
  BY <1>1, <1>3, <1>4 DEF K

LEMMA AllowedType ==
    ASSUME LimiterTypeOK, NEW i \in 0..mono
    PROVE  /\ DropsIn(i, mono) \in Nat
           /\ Allowed(i) \in Nat
           /\ Burst <= Allowed(i)
<1>1. mono \in i..mono
  BY LimiterAssumption DEF LimiterTypeOK
<1>2. DropsIn(i, mono) \in Nat
  BY <1>1, CountsType DEF DropsIn, LimiterTypeOK
<1>3. Refunded(DropsIn(i, mono)) \in Nat
  BY <1>2, RefundAdds
<1> QED
  BY <1>2, <1>3, BucketAssumption DEF Allowed

\* A refill after Base(i) has earned a whole number of seconds.
LEMMA EarnedType ==
    ASSUME NEW i \in Nat, NEW t \in Nat, t >= Base(i)
    PROVE  /\ t - Base(i) \in Nat
           /\ (t - Base(i)) \div TicksPerSec \in Nat
           /\ Earned(i, t) \in Nat
<1>1. t - Base(i) \in Nat
  BY LimiterAssumption, BucketAssumption DEF Base
<1>2. (t - Base(i)) \div TicksPerSec \in Nat
  BY <1>1, WholeSeconds
<1>3. 0 \in Nat /\ (t - Base(i)) \div TicksPerSec + 0 <= (t - Base(i)) \div TicksPerSec
  BY <1>2
<1>4. Earned(i, t) \in Nat
  BY <1>2, <1>3, EarnedAdds DEF Earned
<1> QED
  BY <1>1, <1>2, <1>4

\* What a refill from one reading to a later one adds is earned.
LEMMA RefillIsEarned ==
    ASSUME NEW i \in Nat, NEW b \in Bucket, NEW now \in Nat,
           b.last_refill >= Base(i), ElapsedSecs(b, now) # 0
    PROVE  /\ now >= Base(i)
           /\ ElapsedSecs(b, now) * RefillPerSec \in Nat
           /\ Earned(i, b.last_refill) + ElapsedSecs(b, now) * RefillPerSec
                <= Earned(i, now)
<1> DEFINE r == b.last_refill
           e == ElapsedSecs(b, now)
<1>1. r \in Nat
  BY DEF Bucket
<1>2. ~(now < r) /\ e = (now - r) \div TicksPerSec
  BY DEF ElapsedSecs
<1>3. now - r \in Nat
  BY <1>1, <1>2
<1>4. e \in Nat /\ e * TicksPerSec <= now - r /\ e * TicksPerSec \in Nat
  BY <1>2, <1>3, DivBetween, BucketAssumption
<1>5. Base(i) \in Int /\ r >= Base(i)
  BY LimiterAssumption, BucketAssumption DEF Base
<1> DEFINE a == r - Base(i)
           c == now - Base(i)
<1>6. a \in Nat /\ c \in Nat /\ now >= Base(i)
  BY <1>1, <1>2, <1>5
<1>7. a + e * TicksPerSec <= c
  <2> DEFINE d == e * TicksPerSec
  <2>1. d \in Nat /\ d <= now - r
    BY <1>4
  <2> HIDE DEF d
  <2>2. a + d <= c
    BY <1>1, <1>2, <1>5, <2>1
  <2> QED
    BY <2>2 DEF d
<1> HIDE DEF e
<1>8. (a \div TicksPerSec) + e <= c \div TicksPerSec
  BY <1>4, <1>6, <1>7, SecondsAdd
<1>9. a \div TicksPerSec \in Nat /\ c \div TicksPerSec \in Nat
  BY <1>6, WholeSeconds
<1>10. /\ e * RefillPerSec \in Nat
       /\ RefillPerSec * (a \div TicksPerSec) + e * RefillPerSec
            <= RefillPerSec * (c \div TicksPerSec)
  BY <1>4, <1>8, <1>9, EarnedAdds
<1> QED
  BY <1>6, <1>10 DEF Earned, e

\* The bucket a granted request leaves.
LEMMA GrantedBucket ==
    ASSUME NEW b \in Bucket, NEW now \in Nat, Granted(b, now)
    PROVE  LET c == TryConsume(b, now)
               earned == b.tokens + ElapsedSecs(b, now) * RefillPerSec
           IN  \/ /\ RefillPerSec = 0 \/ b.tokens >= Burst \/ ElapsedSecs(b, now) = 0
                  /\ c.tokens = b.tokens - 1
                  /\ c.last_refill = b.last_refill
               \/ /\ RefillPerSec # 0 /\ b.tokens < Burst /\ ElapsedSecs(b, now) # 0
                  /\ earned \in Nat
                  /\ c.tokens = (IF earned > Burst THEN Burst ELSE earned) - 1
                  /\ c.last_refill = now
<1>1. b.tokens \in 0..Burst /\ Burst \in Nat
  BY BucketAssumption DEF Bucket
<1>2. TryConsume(b, now) = [tokens |-> Refill(b, now).tokens - 1,
                            last_refill |-> Refill(b, now).last_refill]
  BY DEF TryConsume, Granted
<1>3. CASE RefillPerSec = 0 \/ b.tokens >= Burst \/ ElapsedSecs(b, now) = 0
  <2>1. Refill(b, now) = b
    BY <1>3 DEF Refill
  <2> QED
    BY <1>2, <1>3, <2>1
<1>4. CASE ~(RefillPerSec = 0 \/ b.tokens >= Burst \/ ElapsedSecs(b, now) = 0)
  <2> DEFINE earned == b.tokens + ElapsedSecs(b, now) * RefillPerSec
  <2>1. earned \in Nat
    <3>1. ElapsedSecs(b, now) * RefillPerSec \in Nat
      BY ElapsedType, BucketAssumption
    <3> QED
      BY <1>1, <3>1
  <2>2. Refill(b, now) = [tokens |-> IF earned > Burst THEN Burst ELSE earned,
                          last_refill |-> now]
    BY <1>4 DEF Refill
  <2> HIDE DEF earned
  <2>3. /\ TryConsume(b, now).tokens = (IF earned > Burst THEN Burst ELSE earned) - 1
        /\ TryConsume(b, now).last_refill = now
    BY <1>2, <2>2
  <2>4. RefillPerSec # 0 /\ b.tokens < Burst /\ ElapsedSecs(b, now) # 0
    BY <1>1, <1>4
  <2> QED
    BY <2>1, <2>3, <2>4 DEF earned
<1> QED
  BY <1>3, <1>4

\* A reading a little old has earned a little less.
LEMMA EarnedSoon ==
    ASSUME NEW i \in Nat, NEW now \in Nat, NEW t \in Nat,
           now >= Base(i), now <= t, t <= now + Skew
    PROVE  /\ Lag \in Nat
           /\ Earned(i, t) \in Nat
           /\ Earned(i, t) <= Earned(i, now) + Lag
<1> DEFINE T == TicksPerSec
           a == now - Base(i)
           c == t - Base(i)
           x == Skew + T - 1
           p == a \div T
           q == c \div T
           w == x \div T
<1>1. T \in Nat \ {0} /\ Skew \in Nat /\ Base(i) \in Int
  BY BucketAssumption, LimiterAssumption DEF Base
<1>2. a \in Nat /\ c \in Nat /\ x \in Nat /\ c <= a + Skew
  BY <1>1
<1> HIDE DEF a, c, x
<1>3. /\ p \in Nat /\ q \in Nat /\ w \in Nat
      /\ a < p * T + T /\ q * T <= c /\ x < w * T + T
  BY <1>2, DivBetween
<1>4. q <= p + w
  <2> HIDE DEF T, p, q, w
  <2>1. ASSUME p + w < q PROVE FALSE
    <3>1. (p + w) * T + T <= q * T
      BY <1>1, <1>3, <2>1, ProductsOrdered
    <3>2. (p + w) * T = p * T + w * T
      BY <1>1, <1>3
    <3> DEFINE pT == p * T
               qT == q * T
               wT == w * T
    <3>3. pT \in Nat /\ qT \in Nat /\ wT \in Nat
      BY <1>1, <1>3
    <3>4. /\ pT + wT + T <= qT /\ a < pT + T /\ qT <= c
          /\ x < wT + T /\ x = Skew + T - 1
      BY <1>1, <1>3, <3>1, <3>2 DEF x
    <3> HIDE DEF pT, qT, wT
    <3> QED
      BY <1>1, <1>2, <3>3, <3>4
  <2> QED
    BY <1>3, <2>1
<1>5. /\ RefillPerSec * q \in Nat /\ RefillPerSec * p \in Nat
      /\ RefillPerSec * q <= RefillPerSec * p + RefillPerSec * w
      /\ RefillPerSec * w \in Nat
  <2> HIDE DEF p, q, w
  <2>1. RefillPerSec * q + 0 * RefillPerSec <= RefillPerSec * (p + w)
    BY <1>3, <1>4, EarnedAdds
  <2>2. /\ RefillPerSec * (p + w) = RefillPerSec * p + RefillPerSec * w
        /\ RefillPerSec * q \in Nat /\ RefillPerSec * p \in Nat /\ RefillPerSec * w \in Nat
        /\ 0 * RefillPerSec = 0
    BY <1>3, BucketAssumption
  <2> DEFINE x1 == RefillPerSec * q
             x2 == RefillPerSec * p
             x3 == RefillPerSec * w
  <2>3. x1 + 0 <= x2 + x3 /\ x1 \in Nat /\ x2 \in Nat /\ x3 \in Nat
    BY <2>1, <2>2
  <2> HIDE DEF x1, x2, x3
  <2>4. x1 \in Nat /\ x2 \in Nat /\ x1 <= x2 + x3 /\ x3 \in Nat
    BY <2>3
  <2> QED
    BY <2>4 DEF x1, x2, x3
<1>6. Earned(i, t) = RefillPerSec * q /\ Earned(i, now) = RefillPerSec * p
      /\ Lag = RefillPerSec * w
  BY DEF Earned, Lag, CeilSecs, a, c, x
<1> QED
  BY <1>5, <1>6

LEMMA GrantAccounted ==
    ASSUME LimiterTypeOK, BucketAccounts, NEW now \in Readings, Grant(now),
           NEW i \in 0..mono
    PROVE  Accounted(i)'
<1> DEFINE b == Entry(now)
           c == TryConsume(b, now)
           n == Since(i)
           k == b.tokens
           r == b.last_refill
           e == ElapsedSecs(b, now)
           A == Allowed(i)
<1>1. /\ now \in Nat /\ mono \in Nat /\ i \in Nat /\ i <= mono
      /\ now <= mono /\ mono <= now + Skew
      /\ b \in Bucket /\ Granted(b, now)
  BY EntryType, LimiterAssumption DEF Grant, LimiterTypeOK
<1>2. k \in 0..Burst /\ r \in Nat /\ Burst \in Nat \ {0} /\ Skew \in Nat
      /\ TicksPerSec \in Nat \ {0} /\ RefillPerSec \in Nat
  BY <1>1, BucketAssumption, LimiterAssumption DEF Bucket
<1>3. mono' = mono /\ bucket' = c /\ atStart' = atStart /\ Extra' = Extra /\ Extra \in 0..1
  BY DEF Grant, Extra
<1>4. n \in Nat /\ Since(i)' = n + 1
  <2>1. mono \in i..mono /\ grants' = [grants EXCEPT ![mono] = @ + 1]
    BY <1>1 DEF Grant
  <2>2. GrantsIn(i, mono) \in Nat
    BY <2>1, CountsType DEF GrantsIn, LimiterTypeOK
  <2>3. GrantsIn(i, mono)' = GrantsIn(i, mono) + 1
    <3>1. grants' = OneMore(grants) /\ grants \in [0..MaxTicks -> Nat]
      BY <2>1 DEF OneMore, LimiterTypeOK
    <3>2. SumFunctionOnSet(OneMore(grants), i..mono) = SumFunctionOnSet(grants, i..mono) + 1
      BY <2>1, <3>1, CountedNow
    <3> QED
      BY <1>3, <3>1, <3>2 DEF GrantsIn
  <2> QED
    BY <2>2, <2>3 DEF Since
<1>5. now >= Base(i) /\ Base(i) \in Int /\ Base(i)' = Base(i)
  BY <1>1, <1>2 DEF Base
<1>6. \A t \in Nat : Earned(i, t)' = Earned(i, t)
  BY DEF Earned, Base
<1>10. A \in Nat /\ Burst <= A /\ Allowed(i)' = A
  <2>1. drops' = drops
    BY DEF Grant
  <2> QED
    BY <1>3, <2>1, AllowedType DEF Allowed, Refunded, CeilSecs, DropsIn
\* What has to be shown of the counts.
<1>7. SUFFICES
        \/ RefillPerSec = 0 /\ n + 1 + c.tokens <= A
        \/ /\ c.last_refill >= Base(i) /\ c.last_refill \in Nat
           /\ n + 1 + c.tokens <= A + Extra + Earned(i, c.last_refill)
        \/ atStart /\ n = 0 /\ c.tokens = Burst - 1
  BY <1>3, <1>4, <1>5, <1>6, <1>10 DEF Accounted
<1> HIDE DEF A
<1>8. CASE bucket = NoBucket
  <2>1. b = [tokens |-> Burst, last_refill |-> now]
    BY <1>8 DEF Entry, NewBucket
  <2>2. n = 0 \/ n + Burst + Lag <= A + Earned(i, mono)
    BY <1>8 DEF BucketAccounts, Covered, A
  <2>3. c.tokens = Burst - 1 /\ c.last_refill = now
    BY <1>1, <1>2, <2>1, GrantedBucket
  <2>4. Earned(i, now) \in Nat
    BY <1>1, <1>5, EarnedType
  <2>5. Lag \in Nat /\ Earned(i, mono) \in Nat /\ Earned(i, mono) <= Earned(i, now) + Lag
    BY <1>1, <1>5, EarnedSoon
  <2> HIDE DEF n, c
  <2> QED
    BY <1>1, <1>2, <1>3, <1>4, <1>5, <1>10, <2>2, <2>3, <2>4, <2>5
<1>9. CASE bucket # NoBucket
  <2>1. b = bucket
    BY <1>9 DEF Entry
  <2>2. \/ n = 0
        \/ RefillPerSec = 0 /\ n + k <= A
        \/ r >= Base(i) /\ n + k <= A + Extra + Earned(i, r)
        \/ atStart /\ n = 1 /\ k = Burst - 1
    BY <1>9, <2>1 DEF BucketAccounts, Accounted, A
  <2>3. k = Burst => atStart
    BY <1>9, <2>1 DEF BucketAccounts
  <2>4. \A t \in Nat : t >= Base(i) => Earned(i, t) \in Nat
    BY <1>1, EarnedType
  <2>5. CASE /\ RefillPerSec = 0 \/ k >= Burst \/ e = 0
             /\ c.tokens = k - 1
             /\ c.last_refill = r
    <3>1. e = 0 => r >= Base(i)
      BY <1>1, <1>2, ElapsedType DEF Base
    <3> HIDE DEF n, c, k, r, e
    <3>2. CASE n = 0
      BY <1>2, <1>3, <1>4, <1>10, <2>3, <2>4, <2>5, <3>1, <3>2
    <3>3. CASE RefillPerSec = 0 /\ n + k <= A
      BY <1>2, <1>4, <1>10, <2>5, <3>3
    <3>4. CASE r >= Base(i) /\ n + k <= A + Extra + Earned(i, r)
      BY <1>2, <1>3, <1>4, <1>10, <2>4, <2>5, <3>4
    <3>5. CASE atStart /\ n = 1 /\ k = Burst - 1
      BY <1>2, <1>3, <1>4, <1>10, <2>4, <2>5, <3>1, <3>5
    <3> QED
      BY <2>2, <3>2, <3>3, <3>4, <3>5
  <2>6. CASE /\ RefillPerSec # 0 /\ k < Burst /\ e # 0
             /\ k + e * RefillPerSec \in Nat
             /\ c.tokens = (IF k + e * RefillPerSec > Burst THEN Burst
                            ELSE k + e * RefillPerSec) - 1
             /\ c.last_refill = now
    <3>1. r >= Base(i) => /\ e * RefillPerSec \in Nat
                          /\ Earned(i, r) + e * RefillPerSec <= Earned(i, now)
      BY <1>1, <2>6, RefillIsEarned
    <3>2. Earned(i, now) \in Nat
      BY <1>1, <1>5, <2>4
    <3> DEFINE m == e * RefillPerSec
    <3>3. /\ c.tokens = (IF k + m > Burst THEN Burst ELSE k + m) - 1
          /\ k + m \in Nat
          /\ r >= Base(i) => m \in Nat /\ Earned(i, r) + m <= Earned(i, now)
      BY <2>6, <3>1
    <3> HIDE DEF n, c, k, r, e, m
    <3>4. c.tokens <= Burst - 1 /\ c.tokens \in Int
      BY <1>2, <3>3
    <3>5. CASE n = 0
      BY <1>1, <1>2, <1>3, <1>5, <1>10, <2>6, <3>2, <3>4, <3>5
    <3>6. CASE r >= Base(i) /\ n + k <= A + Extra + Earned(i, r)
      <4>1. c.tokens <= k + m - 1
        BY <1>2, <3>3, <3>6
      <4>2. Earned(i, r) \in Nat
        BY <1>2, <2>4, <3>6
      <4> QED
        BY <1>1, <1>2, <1>3, <1>4, <1>5, <1>10, <2>6, <3>2, <3>3, <3>4, <3>6, <4>1, <4>2
    <3>7. CASE atStart /\ n = 1 /\ k = Burst - 1
      <4>1. Extra = 1
        BY <3>7 DEF Extra
      <4> QED
        BY <1>1, <1>2, <1>5, <1>10, <2>6, <3>2, <3>4, <3>7, <4>1
    <3> QED
      BY <2>2, <2>6, <3>5, <3>6, <3>7
  <2> QED
    BY <1>1, <2>5, <2>6, GrantedBucket
<1> QED
  BY <1>8, <1>9

\* A request that is denied leaves the bucket as it was, refill or none.
LEMMA DenialChangesNothing ==
    ASSUME LimiterTypeOK, NEW now \in Readings, ~Granted(Entry(now), now)
    PROVE  bucket # NoBucket /\ TryConsume(Entry(now), now) = bucket
<1>1. now \in Nat /\ bucket # NoBucket /\ Entry(now) = bucket /\ bucket \in Bucket
  BY EntryType DEF LimiterTypeOK
<1>2. CASE RefillPerSec > 0
  BY <1>1, <1>2, DenialLeavesBucket
<1>3. CASE RefillPerSec = 0
  <2>1. Refill(bucket, now) = bucket
    BY <1>3 DEF Refill
  <2>2. bucket = [tokens |-> bucket.tokens, last_refill |-> bucket.last_refill]
    BY <1>1 DEF Bucket
  <2> QED
    BY <1>1, <2>1, <2>2 DEF Granted, TryConsume
<1> QED
  BY <1>2, <1>3, BucketAssumption

LEMMA AccountsInitially == LimiterInit => BucketAccounts /\ WindowBound
<1> SUFFICES ASSUME LimiterInit PROVE BucketAccounts /\ WindowBound
  OBVIOUS
<1>1. /\ mono = 0 /\ MaxTicks \in Nat
      /\ grants = [t \in 0..MaxTicks |-> 0] /\ drops = [t \in 0..MaxTicks |-> 0]
      /\ LimiterTypeOK
      /\ bucket # NoBucket => atStart
  BY LimiterInitially, LimiterAssumption DEF LimiterInit, PushInit, CreateInit, LimiterInv
<1>2. GrantsIn(0, 0) = 0 /\ DropsIn(0, 0) = 0
  <2>1. IsFiniteSet({0}) /\ 0 \in {0} /\ {0} \ {0} = {} /\ 0..0 = {0}
    BY FS_Singleton
  <2>2. ASSUME NEW f, f = [t \in 0..MaxTicks |-> 0] PROVE SumFunctionOnSet(f, {0}) = 0
    <3>1. f[0] = 0 /\ \A t \in {0} : f[t] \in Nat
      BY <1>1, <2>2
    <3>2. SumFunctionOnSet(f, {0}) = f[0] + SumFunctionOnSet(f, {0} \ {0})
      BY <2>1, <3>1, SumRemove
    <3>3. SumFunctionOnSet(f, {}) = 0
      BY SumOfNone
    <3>4. SumFunctionOnSet(f, {0} \ {0}) = 0
      BY <2>1, <3>3, Zenon
    <3> QED
      BY <3>1, <3>2, <3>4
  <2>3. SumFunctionOnSet(grants, {0}) = 0 /\ SumFunctionOnSet(drops, {0}) = 0
    BY <1>1, <2>2
  <2> QED
    BY <2>1, <2>3, Zenon DEF GrantsIn, DropsIn
<1>3. \A i \in 0..mono : i = 0 /\ Since(i) = 0
  BY <1>1, <1>2 DEF Since
<1>4. BucketAccounts
  BY <1>1, <1>3 DEF BucketAccounts, Accounted, Covered
<1>5. WindowBound
  <2>1. SUFFICES 0 <= Burst + RefillPerSec * CeilSecs(0 - 0 + Skew) + Refunded(0)
                        + (IF atStart THEN 1 ELSE 0)
    BY <1>1, <1>2 DEF WindowBound
  <2>2. RefillPerSec * CeilSecs(0 - 0 + Skew) = Lag
    BY LimiterAssumption DEF CeilSecs, Lag
  <2> QED
    BY <2>2, LagType, RefundAdds, BucketAssumption
<1> QED
  BY <1>4, <1>5

\* Time that passes earns no less.
LEMMA EarnedGrows ==
    ASSUME NEW i \in Nat, NEW t \in Nat, NEW u \in Nat, t >= Base(i), t <= u
    PROVE  /\ Earned(i, t) \in Nat /\ Earned(i, u) \in Nat
           /\ Earned(i, t) <= Earned(i, u)
<1> DEFINE a == t - Base(i)
           c == u - Base(i)
<1>1. Base(i) \in Int /\ u >= Base(i)
  BY LimiterAssumption, BucketAssumption DEF Base
<1>2. a \in Nat /\ c \in Nat /\ a + 0 * TicksPerSec <= c
  BY <1>1, BucketAssumption
<1>3. /\ a \div TicksPerSec \in Nat /\ c \div TicksPerSec \in Nat
      /\ (a \div TicksPerSec) + 0 <= c \div TicksPerSec
  BY <1>2, SecondsAdd, WholeSeconds
<1>4. /\ RefillPerSec * (a \div TicksPerSec) + 0 * RefillPerSec
           <= RefillPerSec * (c \div TicksPerSec)
      /\ RefillPerSec * (a \div TicksPerSec) \in Nat
      /\ RefillPerSec * (c \div TicksPerSec) \in Nat
  BY <1>3, EarnedAdds
<1>5. /\ Earned(i, t) + 0 * RefillPerSec <= Earned(i, u)
      /\ Earned(i, t) \in Nat /\ Earned(i, u) \in Nat
  BY <1>4 DEF Earned
<1> QED
  BY <1>5, BucketAssumption

\* A removal gives back what the removed bucket had left, and more.
LEMMA DropCovered ==
    ASSUME LimiterTypeOK, BucketAccounts, Drop, NEW i \in 0..mono
    PROVE  Covered(i)'
<1> DEFINE n == Since(i)
           k == bucket.tokens
           l == bucket.last_refill
           A == Allowed(i)
           E == Earned(i, mono)
<1>1. /\ mono \in Nat /\ i \in Nat /\ i <= mono /\ mono' = mono /\ ~atStart
      /\ bucket # NoBucket /\ grants' = grants
      /\ drops' = [drops EXCEPT ![mono] = @ + 1]
  BY LimiterAssumption DEF Drop, LimiterTypeOK
<1>2. mono \in i..mono
  BY <1>1
<1>3. n \in Nat /\ k \in Nat /\ l \in Nat /\ l <= mono /\ Burst \in Nat /\ Lag \in Nat
  BY <1>1, <1>2, CountsType, LagType, BucketAssumption
     DEF LimiterTypeOK, Bucket, Since, GrantsIn
<1>4. A \in Nat /\ Allowed(i)' = A + Burst + Lag
  <2>1. DropsIn(i, mono) \in Nat /\ A \in Nat
    BY AllowedType
  <2>2. drops' = OneMore(drops) /\ drops \in [0..MaxTicks -> Nat]
    BY <1>1 DEF OneMore, LimiterTypeOK
  <2>6. SumFunctionOnSet(OneMore(drops), i..mono) = SumFunctionOnSet(drops, i..mono) + 1
    BY <1>2, <2>2, CountedNow
  <2>3. DropsIn(i, mono)' = DropsIn(i, mono) + 1
    BY <1>1, <2>2, <2>6 DEF DropsIn
  <2>4. Allowed(i)' = Burst + Refunded(DropsIn(i, mono) + 1)
    BY <2>3 DEF Allowed, Refunded, CeilSecs
  <2>5. /\ Refunded(DropsIn(i, mono) + 1) = Refunded(DropsIn(i, mono)) + Burst + Lag
        /\ Refunded(DropsIn(i, mono)) \in Nat
    BY <2>1, RefundAdds
  <2> QED
    BY <1>3, <2>1, <2>4, <2>5 DEF Allowed
<1>5. Since(i)' = n /\ Earned(i, mono)' = E /\ Lag' = Lag
  BY <1>1 DEF Since, GrantsIn, Earned, Base, Lag, CeilSecs
<1>6. mono >= Base(i) /\ E \in Nat
  BY <1>1, EarnedGrows, LimiterAssumption, BucketAssumption DEF Base
<1>7. l >= Base(i) => Earned(i, l) \in Nat /\ Earned(i, l) <= E
  BY <1>1, <1>3, EarnedGrows
<1>8. \/ n = 0
      \/ n + k <= A
      \/ l >= Base(i) /\ n + k <= A + Earned(i, l)
  <2>1. Accounted(i) /\ Extra = 0
    BY <1>1 DEF BucketAccounts, Extra
  <2> QED
    BY <1>1, <1>4, <2>1 DEF Accounted
<1> HIDE DEF n, k, l, A, E
<1>9. n = 0 \/ n + Burst + Lag <= A + Burst + Lag + E
  BY <1>3, <1>4, <1>6, <1>7, <1>8
<1> QED
  BY <1>4, <1>5, <1>9 DEF Covered

LEMMA AccountsStep ==
    LimiterTypeOK /\ BucketAccounts /\ [LimiterNext]_limiterVars => BucketAccounts'
<1> SUFFICES ASSUME LimiterTypeOK, BucketAccounts, [LimiterNext]_limiterVars
             PROVE  BucketAccounts'
  OBVIOUS
<1>1. CASE Tick
  <2>1. /\ mono \in Nat /\ mono < MaxTicks /\ MaxTicks \in Nat
        /\ mono' = mono + 1 /\ UNCHANGED <<bucket, grants, drops, atStart>>
    BY <1>1, LimiterAssumption DEF Tick, LimiterTypeOK
  <2>2. grants[mono + 1] = 0 /\ drops[mono + 1] = 0
    BY <2>1 DEF BucketAccounts
  <2>3. \A i \in 0..(mono + 1) :
          /\ Since(i)' = IF i = mono + 1 THEN 0 ELSE Since(i)
          /\ i # mono + 1 => DropsIn(i, mono)' = DropsIn(i, mono)
    BY <2>1, <2>2, QuietTick DEF Since, GrantsIn, DropsIn, LimiterTypeOK
  <2>4. ASSUME NEW i \in 0..mono', i # mono + 1
        PROVE  /\ i \in 0..mono /\ Since(i)' = Since(i) /\ Allowed(i)' = Allowed(i)
               /\ Earned(i, bucket.last_refill)' = Earned(i, bucket.last_refill)
               /\ Base(i)' = Base(i) /\ Extra' = Extra
    <3>1. i \in 0..mono /\ Since(i)' = Since(i) /\ DropsIn(i, mono)' = DropsIn(i, mono)
      BY <2>1, <2>3, <2>4
    <3> QED
      BY <2>1, <3>1 DEF Allowed, Refunded, CeilSecs, Earned, Base, Extra
  <2>5. ASSUME NEW i \in 0..mono', bucket' # NoBucket PROVE Accounted(i)'
    <3>1. CASE i = mono + 1
      BY <2>1, <2>3, <3>1 DEF Accounted
    <3>2. CASE i # mono + 1
      <4>1. Accounted(i)
        BY <2>1, <2>4, <2>5, <3>2 DEF BucketAccounts
      <4> QED
        BY <2>1, <2>4, <3>2, <4>1 DEF Accounted
    <3> QED
      BY <3>1, <3>2
  <2>6. ASSUME NEW i \in 0..mono', bucket' = NoBucket PROVE Covered(i)'
    <3>1. CASE i = mono + 1
      BY <2>1, <2>3, <3>1 DEF Covered
    <3>2. CASE i # mono + 1
      <4>1. Covered(i) /\ i \in 0..mono /\ i \in Nat
        BY <2>1, <2>4, <2>6, <3>2 DEF BucketAccounts
      <4>2. /\ Earned(i, mono) \in Nat /\ Earned(i, mono + 1) \in Nat
            /\ Earned(i, mono) <= Earned(i, mono + 1)
        <5>1. mono >= Base(i)
          BY <2>1, <4>1, LimiterAssumption, BucketAssumption DEF Base
        <5> QED
          BY <2>1, <4>1, <5>1, EarnedGrows
      <4>3. Earned(i, mono)' = Earned(i, mono + 1) /\ Lag' = Lag
        BY <2>1 DEF Earned, Base, Lag, CeilSecs
      <4>4. Since(i) \in Nat /\ Allowed(i) \in Nat /\ Lag \in Nat /\ Burst \in Nat
        <5>1. mono \in i..mono
          BY <2>1, <4>1
        <5> QED
          BY <4>1, <5>1, AllowedType, CountsType, LagType, BucketAssumption
             DEF Since, GrantsIn, LimiterTypeOK
      <4> QED
        BY <2>4, <3>2, <4>1, <4>2, <4>3, <4>4 DEF Covered
    <3> QED
      BY <3>1, <3>2
  <2>7. \A t \in (mono' + 1)..MaxTicks : grants'[t] = 0 /\ drops'[t] = 0
    BY <2>1 DEF BucketAccounts
  <2> QED
    BY <2>1, <2>5, <2>6, <2>7 DEF BucketAccounts
<1>2. ASSUME NEW now \in Readings, Grant(now) PROVE BucketAccounts'
  <2>1. /\ bucket' = TryConsume(Entry(now), now) /\ mono' = mono
        /\ grants' = [grants EXCEPT ![mono] = @ + 1] /\ drops' = drops
        /\ mono \in Nat /\ MaxTicks \in Nat
    BY <1>2, LimiterAssumption DEF Grant, LimiterTypeOK
  <2>2. bucket' # NoBucket
    BY <2>1, LimiterTypeStep
  <2>3. bucket'.tokens # Burst
    <3> DEFINE b == Entry(now)
    <3>1. b \in Bucket /\ now \in Nat /\ Granted(b, now)
      BY <1>2, EntryType DEF Grant
    <3>2. b.tokens \in 0..Burst /\ Burst \in Nat
      BY <3>1, BucketAssumption DEF Bucket
    <3> DEFINE m == b.tokens + ElapsedSecs(b, now) * RefillPerSec
    <3>3. \/ bucket'.tokens = b.tokens - 1
          \/ m \in Nat /\ bucket'.tokens = (IF m > Burst THEN Burst ELSE m) - 1
      BY <2>1, <3>1, GrantedBucket
    <3> HIDE DEF b, m
    <3> QED
      BY <3>2, <3>3
  <2>4. \A i \in 0..mono' : Accounted(i)'
    BY <1>2, <2>1, GrantAccounted
  <2>5. \A t \in (mono' + 1)..MaxTicks : grants'[t] = 0 /\ drops'[t] = 0
    BY <2>1 DEF BucketAccounts, LimiterTypeOK
  <2> QED
    BY <2>2, <2>3, <2>4, <2>5 DEF BucketAccounts
<1>3. CASE Drop
  <2>1. /\ bucket' = NoBucket /\ mono' = mono /\ grants' = grants
        /\ drops' = [drops EXCEPT ![mono] = @ + 1]
        /\ mono \in Nat /\ MaxTicks \in Nat
    BY <1>3, LimiterAssumption DEF Drop, LimiterTypeOK
  <2>2. \A i \in 0..mono' : Covered(i)'
    BY <1>3, <2>1, DropCovered
  <2>3. \A t \in (mono' + 1)..MaxTicks : grants'[t] = 0 /\ drops'[t] = 0
    BY <2>1 DEF BucketAccounts, LimiterTypeOK
  <2> QED
    BY <2>1, <2>2, <2>3 DEF BucketAccounts
<1>4. CASE UNCHANGED <<mono, bucket, grants, drops, atStart>>
  BY <1>4 DEF BucketAccounts, Accounted, Covered, Allowed, Refunded, CeilSecs, Lag,
              Since, GrantsIn, DropsIn, Extra, Earned, Base
<1>5. ASSUME NEW now \in Readings, Deny(now) PROVE BucketAccounts'
  <2>1. UNCHANGED <<mono, bucket, grants, drops, atStart>>
    BY <1>5, DenialChangesNothing DEF Deny
  <2> QED
    BY <1>4, <2>1
<1>6. CASE UNCHANGED limiterVars
  BY <1>4, <1>6 DEF limiterVars
<1> QED
  BY <1>1, <1>2, <1>3, <1>5, <1>6 DEF LimiterNext

\* The windows that end now.
LEMMA WindowsUpToNow ==
    ASSUME LimiterTypeOK, BucketAccounts, NEW i \in 0..mono
    PROVE  Since(i) <= Burst + RefillPerSec * CeilSecs(mono - i + Skew)
                        + Refunded(DropsIn(i, mono)) + Extra
<1> DEFINE l == bucket.last_refill
           n == Since(i)
           A == Allowed(i)
           w == RefillPerSec * CeilSecs(mono - i + Skew)
<1>1. /\ mono \in Nat /\ i \in Nat /\ i <= mono
      /\ Burst \in Nat \ {0} /\ Skew \in Nat
      /\ TicksPerSec \in Nat \ {0} /\ RefillPerSec \in Nat
  BY BucketAssumption, LimiterAssumption DEF LimiterTypeOK
<1>2. n \in Nat /\ Extra \in 0..1 /\ A \in Nat /\ Burst <= A
  <2>1. mono \in i..mono
    BY <1>1
  <2>2. n \in Nat
    BY <2>1, CountsType DEF Since, GrantsIn, LimiterTypeOK
  <2> QED
    BY <2>2, AllowedType DEF Extra
<1>3. mono >= Base(i) /\ w = Earned(i, mono)
  <2>1. mono - i + Skew + TicksPerSec - 1 = mono - Base(i) /\ mono >= Base(i)
    BY <1>1 DEF Base
  <2> QED
    BY <2>1 DEF Earned, CeilSecs
<1>4. w \in Nat
  BY <1>1, <1>3, EarnedType
<1>5. n <= A + w + Extra
  <2>1. CASE bucket = NoBucket
    <3>1. n = 0 \/ n + Burst + Lag <= A + w
      BY <1>3, <2>1 DEF BucketAccounts, Covered
    <3>2. Lag \in Nat
      BY LagType
    <3> HIDE DEF n, w, A
    <3> QED
      BY <1>1, <1>2, <1>4, <3>1, <3>2
  <2>2. CASE bucket # NoBucket
    <3>1. bucket.tokens \in Nat /\ l \in Nat /\ l <= mono
      BY <2>2, BucketAssumption DEF LimiterTypeOK, Bucket
    <3>2. l >= Base(i) => Earned(i, l) \in Nat /\ Earned(i, l) <= w
      BY <1>1, <1>3, <3>1, EarnedGrows
    <3>3. Accounted(i)
      BY <2>2 DEF BucketAccounts
    <3>4. \/ n = 0
          \/ n + bucket.tokens <= A
          \/ l >= Base(i) /\ n + bucket.tokens <= A + Extra + Earned(i, l)
          \/ n = 1
      BY <3>3 DEF Accounted
    <3> HIDE DEF n, w, l, A
    <3> QED
      BY <1>1, <1>2, <1>4, <3>1, <3>2, <3>4
  <2> QED
    BY <2>1, <2>2
<1>6. A = Burst + Refunded(DropsIn(i, mono)) /\ Refunded(DropsIn(i, mono)) \in Nat
  BY AllowedType, RefundAdds DEF Allowed
<1> HIDE DEF n, w, A
<1>7. n <= Burst + w + Refunded(DropsIn(i, mono)) + Extra
  BY <1>1, <1>2, <1>4, <1>5, <1>6
<1> QED
  BY <1>7 DEF n, w

WindowsToNowBounded ==
    \A i \in 0..mono :
        Since(i) <= Burst + RefillPerSec * CeilSecs(mono - i + Skew)
                     + Refunded(DropsIn(i, mono)) + Extra

LEMMA WindowStep ==
    /\ LimiterTypeOK /\ LimiterTypeOK' /\ WindowsToNowBounded' /\ WindowBound
    /\ [LimiterNext]_limiterVars
    => WindowBound'
<1> SUFFICES ASSUME LimiterTypeOK, LimiterTypeOK', WindowsToNowBounded', WindowBound,
                    [LimiterNext]_limiterVars,
                    NEW i \in 0..mono', NEW j \in i..mono'
             PROVE  GrantsIn(i, j)' <= Burst + RefillPerSec * CeilSecs(j - i + Skew)
                                        + Refunded(DropsIn(i, j)') + (IF atStart' THEN 1 ELSE 0)
  BY DEF WindowBound, CeilSecs, Refunded
<1>1. CASE j = mono'
  <2>1. Since(i)' <= Burst + RefillPerSec * CeilSecs(mono' - i + Skew)
                      + Refunded(DropsIn(i, mono)') + Extra'
    BY DEF WindowsToNowBounded, CeilSecs, Refunded
  <2> QED
    BY <1>1, <2>1 DEF Since, GrantsIn, DropsIn, Extra
<1>2. CASE j # mono'
  <2>1. /\ mono' = mono \/ mono' = mono + 1
        /\ atStart' = atStart
        /\ grants' = grants \/ (grants' = OneMore(grants) /\ mono' = mono)
        /\ drops' = drops \/ (drops' = OneMore(drops) /\ mono' = mono)
    BY DEF LimiterNext, Tick, Drop, Grant, Deny, limiterVars, OneMore
  <2>2. mono \in Nat /\ i \in 0..mono /\ j \in i..mono /\ (mono' = mono => j # mono)
    BY <1>2, <2>1, LimiterAssumption DEF LimiterTypeOK
  <2>3. grants \in [0..MaxTicks -> Nat] /\ drops \in [0..MaxTicks -> Nat]
    BY DEF LimiterTypeOK
  <2>4. GrantsIn(i, j)' = GrantsIn(i, j)
    <3>1. CASE grants' = grants
      BY <3>1 DEF GrantsIn
    <3>2. CASE grants' = OneMore(grants) /\ mono' = mono
      <4>1. SumFunctionOnSet(OneMore(grants), i..j) = SumFunctionOnSet(grants, i..j)
        BY <2>2, <2>3, <3>2, CountedNow
      <4> QED
        BY <3>2, <4>1 DEF GrantsIn
    <3> QED
      BY <2>1, <3>1, <3>2
  <2>5. DropsIn(i, j)' = DropsIn(i, j)
    <3>1. CASE drops' = drops
      BY <3>1 DEF DropsIn
    <3>2. CASE drops' = OneMore(drops) /\ mono' = mono
      <4>1. SumFunctionOnSet(OneMore(drops), i..j) = SumFunctionOnSet(drops, i..j)
        BY <2>2, <2>3, <3>2, CountedNow
      <4> QED
        BY <3>2, <4>1 DEF DropsIn
    <3> QED
      BY <2>1, <3>1, <3>2
  <2> QED
    BY <2>1, <2>2, <2>4, <2>5 DEF WindowBound
<1> QED
  BY <1>1, <1>2

\* However the bucket was used before, and however stale the readings: over
\* every interval the relay grants at most the burst, what the interval earned
\* and a full bucket (and the readings' age) for every time the interval saw
\* it dropped; the bucket made at the start, which is never dropped, one more.
THEOREM WindowsAreBounded == LimiterSpec => []WindowBound
<1>1. LimiterInit => BucketAccounts /\ WindowBound
  BY AccountsInitially
<1>2. LimiterTypeOK /\ BucketAccounts /\ [LimiterNext]_limiterVars => BucketAccounts'
  BY AccountsStep
<1>3. LimiterTypeOK /\ BucketAccounts => WindowsToNowBounded
  BY WindowsUpToNow DEF WindowsToNowBounded
<1>4. /\ LimiterTypeOK /\ LimiterTypeOK' /\ WindowsToNowBounded' /\ WindowBound
      /\ [LimiterNext]_limiterVars
      => WindowBound'
  BY WindowStep
<1> QED
  BY <1>1, <1>2, <1>3, <1>4, LimiterTypeCorrect, PTL DEF LimiterSpec
=============================================================================
