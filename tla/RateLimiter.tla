---------------------------- MODULE RateLimiter ----------------------------
(***************************************************************************)
(* The token bucket of one route, or the global one of invite creates,     *)
(* under a stream of requests.  A request reads the monotonic clock and    *)
(* only then takes the lock, so the bucket may see readings out of order,  *)
(* each at most Skew ticks old.  A route's bucket is dropped when the      *)
(* route goes, and its next push makes a full one.                         *)
(***************************************************************************)
EXTENDS TokenBucket, FiniteSetsExt

CONSTANTS
    Skew,        \* bound of the model: ticks between the reading and the lock
    MaxTicks,    \* bound of the model
    MaxDrops,    \* bound of the model: how often the bucket is dropped
    NoBucket     \* the route has no entry in the map

ASSUME LimiterAssumption ==
    /\ Skew \in Nat
    /\ MaxTicks \in Nat
    /\ MaxDrops \in Nat
    /\ NoBucket \notin Bucket

VARIABLES
    mono,          \* the monotonic clock
    bucket,        \* the bucket, or NoBucket
    grants,        \* history: grants per tick
    drops,         \* history: how often the bucket was dropped, per tick
    deniedSince,   \* history: <<first, last>> denial since the last grant
    atStart        \* history: the bucket was made when the relay started

limiterVars == <<mono, bucket, grants, drops, deniedSince, atStart>>

Readings == {t \in 0..mono : mono <= t + Skew}

Tick ==
    /\ mono < MaxTicks
    /\ mono' = mono + 1
    /\ UNCHANGED <<bucket, grants, drops, deniedSince, atStart>>

\* The bucket a request at `now' finds: entry(..).or_insert_with(new).
Entry(now) == IF bucket = NoBucket THEN NewBucket(now) ELSE bucket

Grant(now) ==
    /\ Granted(Entry(now), now)
    /\ bucket' = TryConsume(Entry(now), now)
    /\ grants' = [grants EXCEPT ![mono] = @ + 1]
    /\ deniedSince' = <<>>
    /\ UNCHANGED <<mono, drops, atStart>>

Deny(now) ==
    /\ ~Granted(Entry(now), now)
    /\ bucket' = TryConsume(Entry(now), now)
    /\ deniedSince' = IF deniedSince = <<>> THEN <<mono, mono>>
                                            ELSE <<deniedSince[1], mono>>
    /\ UNCHANGED <<mono, grants, drops, atStart>>

\* Grants and drops from tick i to tick j.
GrantsIn(i, j) == SumFunctionOnSet(grants, i..j)
DropsIn(i, j) == SumFunctionOnSet(drops, i..j)

\* A pull, an ack or a sweep has emptied the route, or a push that already took
\* its token is refused a new route: the route's entry is removed.
Drop ==
    /\ ~atStart
    /\ bucket # NoBucket
    /\ DropsIn(0, mono) < MaxDrops
    /\ bucket' = NoBucket
    /\ drops' = [drops EXCEPT ![mono] = @ + 1]
    /\ UNCHANGED <<mono, grants, deniedSince, atStart>>

\* A route's bucket is made by its first push.
PushInit ==
    /\ mono = 0
    /\ bucket = NoBucket
    /\ grants = [t \in 0..MaxTicks |-> 0]
    /\ drops = [t \in 0..MaxTicks |-> 0]
    /\ deniedSince = <<>>
    /\ atStart = FALSE

\* The invite-create bucket is made when the relay starts.
CreateInit ==
    /\ mono = 0
    /\ bucket = NewBucket(mono)
    /\ grants = [t \in 0..MaxTicks |-> 0]
    /\ drops = [t \in 0..MaxTicks |-> 0]
    /\ deniedSince = <<>>
    /\ atStart = TRUE

LimiterNext == Tick \/ Drop \/ \E now \in Readings : Grant(now) \/ Deny(now)

\* Either kind of bucket.
LimiterInit == PushInit \/ CreateInit

LimiterSpec == LimiterInit /\ [][LimiterNext]_limiterVars

----------------------------------------------------------------------------

\* The bucket never holds more than its burst and never from the future.
LimiterTypeOK ==
    /\ mono \in 0..MaxTicks
    /\ bucket \in Bucket \cup {NoBucket}
    /\ bucket # NoBucket => bucket.last_refill <= mono
    /\ grants \in [0..MaxTicks -> Nat]
    /\ drops \in [0..MaxTicks -> Nat]

CeilSecs(ticks) == (ticks + TicksPerSec - 1) \div TicksPerSec

\* What n removals of the bucket add: a full bucket each, and what the time
\* earns twice when the new bucket starts with an older reading.
Refunded(n) == n * (Burst + RefillPerSec * CeilSecs(Skew))

\* Over every interval the relay grants at most the burst, what the interval
\* earned, and what the removals of the bucket in it gave back; however idle
\* or busy the bucket was before.  In the life of one bucket that is the burst
\* and the refill; a route that is drained after each burst gets the next one
\* at once.  The global bucket, made full when the relay starts, grants one
\* more: a full bucket's refill returns before it moves last_refill, so the
\* time before the first request is credited once it is no longer full.
WindowBound ==
    \A i \in 0..mono : \A j \in i..mono :
        GrantsIn(i, j) <= Burst + RefillPerSec * CeilSecs(j - i + Skew)
                            + Refunded(DropsIn(i, j))
                            + (IF atStart THEN 1 ELSE 0)

\* Requests that poll while they are denied do not push the refill away: with
\* a refill, no run of denials lasts a second (plus the reading's age).
NoStarvation ==
    (RefillPerSec > 0 /\ deniedSince # <<>>)
        => deniedSince[2] - deniedSince[1] < TicksPerSec + Skew
=============================================================================
