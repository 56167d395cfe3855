---------------------------- MODULE TokenBucket ----------------------------
(***************************************************************************)
(* The token bucket of the relay (PushRateBucket, src/lib.rs), used per    *)
(* route for pushes and once, globally, for invite creation.  Time is      *)
(* counted in ticks; the bucket is refilled by whole seconds.              *)
(***************************************************************************)
EXTENDS Integers

CONSTANTS
    Burst,          \* push_rate_burst or create_burst
    RefillPerSec,   \* push_rate_refill_per_sec or create_refill_per_sec
    TicksPerSec     \* resolution of the monotonic clock in the model

ASSUME BucketAssumption ==
    /\ Burst \in Nat \ {0}
    /\ RefillPerSec \in Nat
    /\ TicksPerSec \in Nat \ {0}

Bucket == [tokens : 0..Burst, last_refill : Nat]

NewBucket(now) == [tokens |-> Burst, last_refill |-> now]

\* Whole seconds from the last refill; none when `now' was read before it.
ElapsedSecs(b, now) ==
    IF now < b.last_refill THEN 0 ELSE (now - b.last_refill) \div TicksPerSec

\* Mutation: a request moves last_refill even when it earns nothing.
RefillAlwaysMoves(b, now) ==
    IF RefillPerSec = 0 \/ b.tokens >= Burst THEN b
    ELSE LET sum == b.tokens + ElapsedSecs(b, now) * RefillPerSec
         IN  [tokens |-> IF sum > Burst THEN Burst ELSE sum, last_refill |-> now]

\* Mutation: the refill does not remember when it happened.
RefillForgetsTime(b, now) ==
    IF RefillPerSec = 0 \/ b.tokens >= Burst \/ ElapsedSecs(b, now) = 0 THEN b
    ELSE LET sum == b.tokens + ElapsedSecs(b, now) * RefillPerSec
         IN  [tokens |-> IF sum > Burst THEN Burst ELSE sum, last_refill |-> b.last_refill]

\* A full bucket, and one that has not earned a whole second, is left as it is.
Refill(b, now) ==
    IF RefillPerSec = 0 \/ b.tokens >= Burst \/ ElapsedSecs(b, now) = 0 THEN b
    ELSE LET sum == b.tokens + ElapsedSecs(b, now) * RefillPerSec
         IN  [tokens |-> IF sum > Burst THEN Burst ELSE sum, last_refill |-> now]

\* try_consume: its answer, and the bucket it leaves.
Granted(b, now) == Refill(b, now).tokens # 0
TryConsume(b, now) ==
    LET r == Refill(b, now)
    IN  [tokens |-> IF r.tokens = 0 THEN 0 ELSE r.tokens - 1,
         last_refill |-> r.last_refill]
=============================================================================
