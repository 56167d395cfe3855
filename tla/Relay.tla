------------------------------- MODULE Relay -------------------------------
(***************************************************************************)
(* The HTTP handlers of the relay (src/lib.rs) and its retention sweeper   *)
(* (src/main.rs) over the store: every await point and every acquisition   *)
(* of the rate-bucket lock separates two steps, and the steps of           *)
(* concurrent requests interleave.                                         *)
(*                                                                         *)
(* A handler reads the clock once, waits for its transaction (run_store),  *)
(* and only then touches the bucket map.  A client that goes away drops    *)
(* the handler at an await point while its transaction still commits.  A   *)
(* crash loses the handlers and the bucket maps and keeps the store.       *)
(***************************************************************************)
EXTENDS Store

CONSTANTS
    Procs,            \* requests in flight at one time (bound of the model)
    Sweeper,          \* the background sweep task
    Ops,              \* the operations clients call in this instance
    PushRateBurst, PushRateRefill, CreateBurst, CreateRefill,
    MayCrash, MayDisconnect, MayFail   \* the faults of this instance

Handlers == Procs \cup {Sweeper}

ASSUME RelayAssumption ==
    /\ Sweeper \notin Procs
    /\ Ops \subseteq {"push", "pull", "ack", "create", "redeem", "revoke"}
    /\ PushRateBurst \in Nat \ {0}
    /\ {MayCrash, MayDisconnect, MayFail} \subseteq BOOLEAN

VARIABLES
    pc,            \* where each handler is
    req,           \* the request it serves
    readAt,        \* its reading of the clock
    secret,        \* the token it minted, or Null
    release,       \* bucket entries it has to drop once its transaction is back
    gone,          \* its client has disconnected
    answer,        \* the code it answers with
    buckets,       \* push_rates: route_key |-> bucket
    createBucket   \* invite_create_rate

handlerVars == <<pc, req, readAt, secret, release, gone, answer>>
volatile == <<handlerVars, buckets, createBucket>>
relayVars == <<storeVars, handlerVars, buckets, createBucket>>

Push == INSTANCE TokenBucket WITH
            Burst <- PushRateBurst, RefillPerSec <- PushRateRefill, TicksPerSec <- 1
Create == INSTANCE TokenBucket WITH
            Burst <- CreateBurst, RefillPerSec <- CreateRefill, TicksPerSec <- 1

----------------------------------------------------------------------------
(* Requests.  One the handler refuses before it reads the clock (bad       *)
(* token, header, body or max) changes nothing and is no step.  A create   *)
(* with a malformed body is refused after the rate gate: it does what a    *)
(* create with a past expiry does, which is among the requests.            *)

PushRequests == [op : {"push"}, key : Keys, id : MsgIds, bytes : Sizes,
                 ticket : minted \cup {Null}]
PullRequests == [op : {"pull"}, key : Keys, max : 1..MaxQueueDepth, lease : BOOLEAN]
AckRequests == [op : {"ack"}, key : Keys, ids : (SUBSET MsgIds) \ {{}}]
CreateRequests == [op : {"create"}, key : InviteKeys, cap : Caps,
                   expiry : clock..(clock + MaxExpiry + 1)]
RedeemRequests == [op : {"redeem"}, key : InviteKeys, cap : Caps]
RevokeRequests == [op : {"revoke"}, key : InviteKeys, token : minted]
SweepRequest == [op |-> "sweep"]
NoRequest == [op |-> "none"]

Requests ==
    {r \in PushRequests \cup PullRequests \cup AckRequests \cup CreateRequests
            \cup RedeemRequests \cup RevokeRequests : r.op \in Ops}

\* The bound MaxSeq is kept by not starting a push it would block.
PushesInFlight == {p \in Procs : req[p].op = "push" /\ pc[p] # "done"}
RoomFor(r) == r.op = "push" => nextSeq + Cardinality(PushesInFlight) <= MaxSeq

\* Mutation: a token repeats one that a handler has not stored yet.
FreshTokensInStore == Tokens \ minted

\* 128-bit random tokens never repeat, not even before they are stored.
FreshTokens == (Tokens \ minted) \ {secret[p] : p \in Handlers}

FirstStep(op) ==
    CASE op = "push" -> "status" [] op = "create" -> "rate" [] OTHER -> "tx"

Arrive(p) ==
    /\ pc[p] = "idle"
    /\ p \in Procs
    /\ \E r \in Requests :
         /\ RoomFor(r)
         /\ req' = [req EXCEPT ![p] = r]
         /\ pc' = [pc EXCEPT ![p] = FirstStep(r.op)]
         /\ readAt' = [readAt EXCEPT ![p] = clock]
         /\ IF r.op = "redeem"
              THEN \E t \in FreshTokens : secret' = [secret EXCEPT ![p] = t]
              ELSE UNCHANGED secret
    /\ UNCHANGED <<storeVars, release, gone, answer, buckets, createBucket>>

\* The sweep task's timer fires and it reads the clock.
SweeperWakes ==
    /\ pc[Sweeper] = "idle"
    /\ req' = [req EXCEPT ![Sweeper] = SweepRequest]
    /\ pc' = [pc EXCEPT ![Sweeper] = "tx"]
    /\ readAt' = [readAt EXCEPT ![Sweeper] = clock]
    /\ UNCHANGED <<storeVars, secret, release, gone, answer, buckets, createBucket>>

\* The handler returns; the answer is sent and its locals are gone.
Reply(p) ==
    /\ pc[p] = "done"
    /\ pc' = [pc EXCEPT ![p] = "idle"]
    /\ req' = [req EXCEPT ![p] = NoRequest]
    /\ readAt' = [readAt EXCEPT ![p] = 0]
    /\ secret' = [secret EXCEPT ![p] = Null]
    /\ release' = [release EXCEPT ![p] = {}]
    /\ gone' = [gone EXCEPT ![p] = FALSE]
    /\ answer' = [answer EXCEPT ![p] = "none"]
    /\ UNCHANGED <<storeVars, buckets, createBucket>>

----------------------------------------------------------------------------
(* Building blocks.                                                        *)

\* The transaction of p is back with `code'; p still has to drop `keys' from
\* the bucket map in step `next'.  Nobody does when the client is gone.
Back(p, next, keys, code) ==
    /\ pc' = [pc EXCEPT ![p] = IF gone[p] THEN "done" ELSE next]
    /\ release' = [release EXCEPT ![p] = keys]
    /\ answer' = [answer EXCEPT ![p] = code]
    /\ UNCHANGED <<req, readAt, secret, gone, buckets, createBucket>>

\* buckets.remove(key) for every key in K.
DropBuckets(K) == buckets' = [k \in DOMAIN buckets \ K |-> buckets[k]]

\* The transaction fails: it is rolled back and the handler answers 500.
StoreError(p) ==
    /\ MayFail
    /\ pc[p] \in {"status", "tx"}
    /\ pc' = [pc EXCEPT ![p] = "done"]
    /\ answer' = [answer EXCEPT ![p] = "StoreError"]
    /\ UNCHANGED <<storeVars, req, readAt, secret, release, gone, buckets, createBucket>>

----------------------------------------------------------------------------
(* push_message.                                                           *)

\* What route_status reports, taken from the swept tables.
StatusVerdict(key, now) ==
    LET exists == key \in SweptRoutes(now)
        depth == Cardinality({s \in SweptSeqs(now) : messages[s].route_key = key})
    IN  IF exists /\ depth >= MaxQueueDepth THEN "Overloaded"
        ELSE IF ~exists /\ Cardinality(SweptRoutes(now)) >= MaxRouteCount THEN "RouteCap"
        ELSE "Proceed"

PushStatus(p) ==
    LET now == readAt[p]
    IN  /\ pc[p] = "status"
        /\ RouteStatus(now)
        /\ Back(p, "prune", RemovedRoutes(now), StatusVerdict(req[p].key, now))

\* log_and_prune_sweep, then the two prechecks.
PushPrune(p) ==
    /\ pc[p] = "prune"
    /\ DropBuckets(release[p])
    /\ release' = [release EXCEPT ![p] = {}]
    /\ pc' = [pc EXCEPT ![p] = IF answer[p] = "Proceed" THEN "rate" ELSE "done"]
    /\ UNCHANGED <<storeVars, req, readAt, secret, gone, answer, createBucket>>

\* One acquisition of the bucket lock: entry(..).or_insert_with(..), try_consume.
PushRate(p) ==
    LET key == req[p].key
        entry == IF key \in DOMAIN buckets THEN buckets[key] ELSE Push!NewBucket(clock)
        ok == Push!Granted(entry, clock)
    IN  /\ pc[p] = "rate"
        /\ req[p].op = "push"
        /\ buckets' = [k \in DOMAIN buckets \cup {key} |->
                         IF k = key THEN Push!TryConsume(entry, clock) ELSE buckets[k]]
        /\ pc' = [pc EXCEPT ![p] = IF ok THEN "tx" ELSE "done"]
        /\ answer' = [answer EXCEPT ![p] = IF ok THEN "Proceed" ELSE "RateLimited"]
        /\ UNCHANGED <<storeVars, req, readAt, secret, release, gone, createBucket>>

\* Mutation: a push refused for the route cap keeps its bucket.
RefusalReleasesNothing(key, outcome) == {}

\* The bucket a refused push drops: only the route cap's.
RefusalReleases(key, outcome) == IF outcome = "RouteCap" THEN {key} ELSE {}

\* enqueue, with the clock reading of the first step; a refusal is rolled back.
PushEnqueue(p) ==
    LET r == req[p]
        outcome == EnqueueOutcome(r.key, readAt[p], r.ticket)
    IN  /\ pc[p] = "tx"
        /\ r.op = "push"
        /\ \/ Enqueue(r.key, r.id, r.bytes, readAt[p], r.ticket)
           \/ outcome # "Accepted" /\ UNCHANGED storeVars
        /\ Back(p, "finish", RefusalReleases(r.key, outcome), outcome)

----------------------------------------------------------------------------
(* pull_message, ack_messages and the sweep task.                          *)

\* Routes a transaction at `now' removes: by its sweep (removed_route_keys),
\* or by draining its own route (route_drained).
Gone(now, key) == RemovedRoutes(now) \cup ({key} \cap (SweptRoutes(now) \ routes'))

\* Mutation: the transaction runs one second ahead of the handler's clock.
PullAhead(p) ==
    LET r == req[p]
        now == readAt[p] + 1
    IN  /\ pc[p] = "tx"
        /\ r.op = "pull"
        /\ PullLegacy(r.key, r.max, now)
        /\ Back(p, "finish", Gone(now, r.key), "Items")

\* Mutation: a pull waits until there is something to return.
PullWaits(p) ==
    LET r == req[p]
        now == readAt[p]
    IN  /\ pc[p] = "tx"
        /\ r.op = "pull"
        /\ Batch(r.key, r.max, now) # {}
        /\ PullLegacy(r.key, r.max, now)
        /\ Back(p, "finish", Gone(now, r.key), "Items")

Pull(p) ==
    LET r == req[p]
        now == readAt[p]
    IN  /\ pc[p] = "tx"
        /\ r.op = "pull"
        /\ IF r.lease THEN PullLeased(r.key, r.max, now) ELSE PullLegacy(r.key, r.max, now)
        /\ Back(p, "finish", Gone(now, r.key),
                IF Batch(r.key, r.max, now) = {} THEN "NoContent" ELSE "Items")

AckMessages(p) ==
    LET r == req[p]
        now == readAt[p]
    IN  /\ pc[p] = "tx"
        /\ r.op = "ack"
        /\ Ack(r.key, r.ids, now)
        /\ Back(p, "finish", Gone(now, r.key), "Acked")

Sweep(p) ==
    /\ pc[p] = "tx"
    /\ req[p].op = "sweep"
    /\ RetentionSweep(readAt[p])
    /\ Back(p, "finish", RemovedRoutes(readAt[p]), "Swept")

\* log_and_prune_sweep and drop_rate_bucket, then the answer.
Finish(p) ==
    /\ pc[p] = "finish"
    /\ DropBuckets(release[p])
    /\ release' = [release EXCEPT ![p] = {}]
    /\ pc' = [pc EXCEPT ![p] = "done"]
    /\ UNCHANGED <<storeVars, req, readAt, secret, gone, answer, createBucket>>

----------------------------------------------------------------------------
(* The invite handlers.                                                    *)

\* Mutation: the client's expiry is taken as it is.
ClampNever(expiry, now) == expiry

Clamp(expiry, now) == IF expiry > now + MaxExpiry THEN now + MaxExpiry ELSE expiry

\* The global rate gate comes first, also for a request whose expiry is then
\* refused; the clock is read after it.
CreateRate(p) ==
    LET ok == Create!Granted(createBucket, clock)
        late == req[p].expiry <= clock
    IN  /\ pc[p] = "rate"
        /\ req[p].op = "create"
        /\ createBucket' = Create!TryConsume(createBucket, clock)
        /\ readAt' = [readAt EXCEPT ![p] = clock]
        /\ pc' = [pc EXCEPT ![p] = IF ok /\ ~late THEN "tx" ELSE "done"]
        /\ answer' = [answer EXCEPT ![p] = IF ~ok THEN "RateLimited"
                                           ELSE IF late THEN "Expired" ELSE "Proceed"]
        /\ IF ok /\ ~late
             THEN \E t \in FreshTokens : secret' = [secret EXCEPT ![p] = t]
             ELSE UNCHANGED secret
        /\ UNCHANGED <<storeVars, req, release, gone, buckets>>

\* The sweep statistics of invite_create are discarded: nothing to release.
CreateInvite(p) ==
    LET r == req[p]
        now == readAt[p]
        outcome == InviteCreateOutcome(r.key, now)
    IN  /\ pc[p] = "tx"
        /\ r.op = "create"
        /\ \/ InviteCreate(r.key, r.cap, secret[p], Clamp(r.expiry, now), now)
           \/ outcome # "Created" /\ UNCHANGED storeVars
        /\ Back(p, "finish", {}, outcome)

RedeemInvite(p) ==
    LET r == req[p]
        outcome == InviteRedeemOutcome(r.key, readAt[p], r.cap)
    IN  /\ pc[p] = "tx"
        /\ r.op = "redeem"
        /\ \/ InviteRedeem(r.key, readAt[p], secret[p], r.cap)
           \/ outcome # "Redeemed" /\ UNCHANGED storeVars
        /\ Back(p, "finish", {}, outcome)

RevokeInvite(p) ==
    LET r == req[p]
        outcome == InviteRevokeOutcome(r.key, r.token)
    IN  /\ pc[p] = "tx"
        /\ r.op = "revoke"
        /\ \/ InviteRevoke(r.key, r.token)
           \/ outcome # "Revoked" /\ UNCHANGED storeVars
        /\ Back(p, "finish", {}, outcome)

----------------------------------------------------------------------------
(* Faults and time.                                                        *)

\* The client goes away.  A handler that waits is dropped where it waits: its
\* transaction, if not done yet, still runs, and nothing after it does.
Disconnect(p) ==
    /\ MayDisconnect
    /\ p \in Procs
    /\ pc[p] \in {"status", "prune", "tx", "finish"}
    /\ ~gone[p]
    /\ gone' = [gone EXCEPT ![p] = TRUE]
    /\ pc' = [pc EXCEPT ![p] = IF @ \in {"prune", "finish"} THEN "done" ELSE @]
    /\ UNCHANGED <<storeVars, req, readAt, secret, release, answer, buckets, createBucket>>

\* What a process has when it starts.
Fresh(startedAt) ==
    /\ pc' = [p \in Handlers |-> "idle"]
    /\ req' = [p \in Handlers |-> NoRequest]
    /\ readAt' = [p \in Handlers |-> 0]
    /\ secret' = [p \in Handlers |-> Null]
    /\ release' = [p \in Handlers |-> {}]
    /\ gone' = [p \in Handlers |-> FALSE]
    /\ answer' = [p \in Handlers |-> "none"]
    /\ buckets' = [k \in {} |-> Null]
    /\ createBucket' = Create!NewBucket(startedAt)

\* The process dies and is restarted on the same database file.
Crash ==
    /\ MayCrash
    /\ Fresh(clock)
    /\ UNCHANGED storeVars

TimePasses ==
    /\ Tick
    /\ UNCHANGED volatile

RelayInit ==
    /\ Init
    /\ pc = [p \in Handlers |-> "idle"]
    /\ req = [p \in Handlers |-> NoRequest]
    /\ readAt = [p \in Handlers |-> 0]
    /\ secret = [p \in Handlers |-> Null]
    /\ release = [p \in Handlers |-> {}]
    /\ gone = [p \in Handlers |-> FALSE]
    /\ answer = [p \in Handlers |-> "none"]
    /\ buckets = [k \in {} |-> Null]
    /\ createBucket = Create!NewBucket(clock)

\* What the runtime does for a handler once it has a request.
Progress(p) ==
    \/ PushStatus(p) \/ PushPrune(p) \/ PushRate(p) \/ PushEnqueue(p)
    \/ Pull(p) \/ AckMessages(p) \/ Sweep(p) \/ Finish(p)
    \/ CreateRate(p) \/ CreateInvite(p) \/ RedeemInvite(p) \/ RevokeInvite(p)
    \/ Reply(p)

RelayNext ==
    \/ \E p \in Handlers : Arrive(p) \/ Progress(p) \/ StoreError(p) \/ Disconnect(p)
    \/ SweeperWakes
    \/ Crash
    \/ TimePasses

RelaySpec == RelayInit /\ [][RelayNext]_relayVars

\* The runtime polls every ready handler, the sweeper's timer keeps firing and
\* time passes.  Nothing is assumed of clients or of faults.
RelayLive ==
    /\ RelaySpec
    /\ \A p \in Handlers : WF_relayVars(Progress(p))
    /\ WF_relayVars(SweeperWakes)
    /\ WF_relayVars(TimePasses)

----------------------------------------------------------------------------
(* Properties.                                                             *)

\* Handlers hold requests of their kind and clock readings of the past; a
\* token on its way to the store is nobody else's and not in the store yet.
WellFormed(r) ==
    /\ r.op \in {"none", "sweep", "push", "pull", "ack", "create", "redeem", "revoke"}
    /\ r.op = "push" => /\ r.key \in Keys /\ r.id \in MsgIds /\ r.bytes \in Sizes
                        /\ r.ticket \in minted \cup {Null}
    /\ r.op = "pull" => r.key \in Keys /\ r.max \in 1..MaxQueueDepth
    /\ r.op = "ack" => r.key \in Keys /\ r.ids \in (SUBSET MsgIds) \ {{}}
    /\ r.op \in {"create", "redeem"} => r.key \in InviteKeys /\ r.cap \in Caps
    /\ r.op = "create" => r.expiry \in Nat
    /\ r.op = "revoke" => r.key \in InviteKeys /\ r.token \in minted

\* p has minted a token that its transaction will store.
Carries(p) == pc[p] = "tx" /\ req[p].op \in {"create", "redeem"}

RelayTypeOK ==
    /\ pc \in [Handlers -> {"idle", "status", "prune", "rate", "tx", "finish", "done"}]
    /\ req = [p \in Handlers |-> req[p]]
    /\ \A p \in Handlers : WellFormed(req[p])
    /\ readAt \in [Handlers -> 0..clock]
    /\ secret \in [Handlers -> Tokens \cup {Null}]
    /\ \A p \in Handlers : Carries(p) =>
          /\ secret[p] \in Tokens \ minted
          /\ \A q \in Handlers \ {p} : secret[q] # secret[p]
    /\ \A p \in Handlers : (Carries(p) /\ req[p].op = "create")
          => req[p].expiry > readAt[p]

\* Whatever the handlers interleave, the store only ever sees the operations
\* of module Store: clock readings of the past, fresh tokens, clamped expiries.
StoreSpec == Spec

\* Keys whose bucket some handler still uses or will still drop.
InUse(k) ==
    \E p \in Handlers :
        \/ k \in release[p] /\ pc[p] \in {"prune", "finish"}
        \/ req[p].op = "push" /\ req[p].key = k /\ pc[p] = "tx"

\* The in-memory rate accounting is released with the route: a bucket belongs
\* to a live route, to a push on its way, or to a handler about to drop it.
BucketsAccounted == \A k \in DOMAIN buckets : k \in routes \/ InUse(k)

\* What the inbox contract says of expiry: with an expired route its rate
\* accounting is released.
ExpiredRoutesReleaseBuckets ==
    \A s \in DOMAIN accepted :
        accepted[s].route_key \in DOMAIN buckets
            => accepted[s].route_key \in routes \/ InUse(accepted[s].route_key)

\* Every request comes to an end, whatever the others do, and the sweeper is
\* never stuck behind them.
EveryRequestEnds == \A p \in Handlers : (pc[p] # "idle") ~> (pc[p] = "idle")

\* What the v2 contract's note says of the running version: no push is ever
\* answered with the expired-invite code.
PushNeverAnswersExpired ==
    \A p \in Procs : (req[p].op = "push" /\ pc[p] = "done") => answer[p] # "Expired"
=============================================================================
