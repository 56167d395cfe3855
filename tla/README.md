# A verification project for qsl-server

qsl-server is a store-and-forward relay. Clients push opaque messages to a mailbox (a *route*, named by
the hash of a secret token), pull them, and acknowledge them; they also publish single-use *invite slots*
that guard the first message to a mailbox. The relay keeps everything in one SQLite file and its rate
accounting in memory. This directory holds TLA+ models of that program, the TLC configurations that check
them on small instances, and TLAPS proofs of their main properties for every value of the constants.

Line numbers are those of `src/src/store.rs`, `src/src/lib.rs` and `src/src/main.rs`; `PROJECT.json`
maps every definition to its lines.

## 1. The system

| Part | State | Operations | Hard because |
|---|---|---|---|
| Store, mailboxes (`store.rs`) | tables `routes`, `messages`, the AUTOINCREMENT counter | `enqueue`, `pull` (legacy: delete on delivery; lease: hide until a deadline), `ack`, `route_status`, `retention_sweep`; all but `enqueue` first sweep what has expired | every operation runs with a clock its caller read earlier, so transactions commit in an order unrelated to their timestamps; ids repeat; batches are cut by count and bytes |
| Store, invite slots (`store.rs`) | table `invites` | `invite_create`, `invite_redeem`, `invite_revoke`, slot admission inside `enqueue` | single use under races; a ticket is burnt in a transaction that may still roll back; sweeps race everything |
| Handlers (`lib.rs`) | locals across awaits | `push_message` (two transactions and the bucket lock between them), `pull_message`, `ack_messages`, `invite_create`, `invite_redeem`, `invite_revoke` | interleaving; a client that goes away drops the handler but not its transaction; failing transactions |
| Rate buckets (`lib.rs`) | `push_rates` (one per route), `invite_create_rate` (global), in memory | refill, consume; dropped when the route goes | touched outside the transaction that removes the route; whole-second refill; lost in a crash |
| Sweeper (`main.rs`) | a timer | `run_retention_sweep` every minute | must make progress on a silent relay |
| Starting (`main.rs`, `store.rs`) | the listening socket; in the file, the tables and the schema marker | `bind_listener`, then `Store::open`: create what is missing, read the marker, refuse a newer file, migrate an older one | every statement commits by itself and the process may die between two; binaries of several versions take turns on one file |
| Configuration (`main.rs`, limit constructors of `lib.rs`, `store.rs`) | flags, environment, the resolved limits | `from_env`, `resolve_config`, `bind_listener`, `new_full` | the same limits are validated in three places; parsing, precedence, zero and ceilings meet |
| Gate (`lib.rs`) | none | extractors, `auth_ok`, `resolve_route_token`, the checks of seven handlers, the capability document | the order of checks is repeated by hand in every handler; one name reaches the store by two paths |
| base64url (`lib.rs`) | an accumulator | `b64_decode`, `b64_encode`, `invite_create_body_cap` | a 32-bit accumulator that drops its top bits; leftover bits; a size limit derived from the encoding |
| Logging, packaging, tests | none | - | - |

The handlers and the sweeper interact only through the store (one connection behind a mutex, so one
transaction at a time) and through the bucket map (another mutex). What makes each part correct:

* mailboxes: nothing accepted is lost before it is returned or has outlived its retention; first deliveries
  are in order; a leased message is nobody else's; limits hold; route capacity is always given back;
* slots: one redemption, one handshake, for the ticket that redemption issued; revocation is final; nothing
  is evicted; a rolled-back push gives the ticket back;
* handlers: the store sees only what its contract allows, whatever interleaves; every request ends;
* buckets: a bound on every interval, also over buckets that go with their route and are made again, no starvation,
  no entry that outlives its route;
* sweeper: what has expired goes;
* starting: the marker never promises tables that are missing, never moves back, and a binary never serves a
  file a newer one has served; an interrupted start locks nobody out;
* configuration: the relay runs as configured or not at all, and only with limits the rest is correct under;
* delivery as clients see it: at-least-once with leases, at-most-once without, whatever answers get lost; a
  client that scans a mailbox overlooks nothing, unless the mailbox is deeper than the relay now allows;
* gate: a stranger learns nothing and costs nothing;
* base64: what was uploaded comes back, every accepted text is canonical, the largest bundle fits.

## 2. Modules

```
Mailboxes, InviteSlots  <-- implemented by --  Store  <-- implemented by --  Relay
Store ---+--- Relay (EXTENDS Store, INSTANCE TokenBucket twice)      TokenBucket --- RateLimiter
         +--- Delivery (EXTENDS Store) --- FinishScan (EXTENDS Delivery)
Startup    Config    Gate ----------+
                     Base64 --------+--- MCRequests
                     RateLimiter ---+
```

Proofs: StoreProofs on Store, extended by InviteProofs and by DeliveryProofs (on FinishScan); RelayProofs on Relay
and InviteProofs; RateProofs on RateLimiter; MainProofs on Config and Startup, what `main` does before it serves;
RequestProofs on Gate and Base64; SumProofs, the facts on naturals, finite sets and sums that several of them
use. The MC modules hold model values and symmetries; MCRequests puts three parts that share no state, Gate, Base64
and RateLimiter, side by side in one run: in a behaviour one of them moves and the others are idle. A running relay
is Config, then Startup, then Relay behind Gate; Config establishes the assumptions on limits the other modules make
(`LegalLimits`), and Gate says which requests become steps of Relay.

**Store** is the database. A variable is a table (`routes` a set of keys; `messages`, `invites` functions
from their key to a row), `nextSeq` the AUTOINCREMENT counter, `clock` the wall clock in seconds. An
operation of `store.rs` is one action, because it is one transaction under one mutex; an outcome the code
returns before `commit` is rolled back and so is no step. An operation's `now` is any earlier reading of
the clock (`Readings`): that is what an await between the reading and the transaction allows. Columns that
nothing reads back are left out; a SHA-256 is an injective constructor; a body is its length; `bundle` and
`invite_sig`, written and cleared together, are one field. Six history variables (`accepted`, `delivered`,
`minted`, `redemptions`, `revocations`, `handshakes`) record what happened for the properties and guard
nothing, except that tokens are never minted twice. A slot's identity in the histories is the hash of its
revoke token, because its key may be published again after it has expired.

**Mailboxes** and **InviteSlots** say what the store is for, without its tables, limits and stale clocks. A mailbox
is a queue: messages are posted, leased or taken oldest unseen first, settled once they were returned, and expire
when they are due. A slot is published once, redeemed once, used once by the message its ticket admits, revoked at
any time, and dropped when it is due. Store maps its state to theirs (`Promised`, `PromisedSlots`): the queue is
table `messages` without the columns clients do not see, a message is hidden while its `leased_until` is ahead of the
wall clock, and a slot is told by the hash of its revoke token, so that a key that is published again is a new slot.
Both allow what a stale reading makes of an operation: a message that is due when it is posted, a lease that is
over when it is granted, a slot that is due when it is published. (Mailboxes knows which messages were returned
at all; which answer a message was in is Delivery's.)

**Relay** is the handlers over the store. `pc` says where a handler is: `status` (waiting for
`route_status`), `prune`, `rate` (the bucket lock), `tx` (waiting for its transaction), `finish` (transaction
back, buckets to drop), `done`. `readAt` is its one reading of the clock, `secret` the token it has minted,
`release` the bucket entries it still has to drop. `Disconnect` drops a handler at an await point: its
transaction still commits, nothing after it runs. `StoreError` fails a transaction. `Crash` loses all of
this and the buckets and keeps the tables. Requests that fail validation before the clock is read change
no table and are Gate's. In Relay both bucket kinds use the wall clock; the finer time is in RateLimiter.

**TokenBucket** is `PushRateBucket` as operators; **RateLimiter** puts one bucket under a stream of requests
with time in fractions of a second and readings that arrive out of order: a route's bucket, made by its first
push, or the global one of invite creates, made at start (`atStart`). `Drop` removes a route's bucket at any time: why
it goes (a pull or an ack that drained the route, a sweep, a push refused a new route) is Relay's. The next push
makes a full one. The histories `grants` and `drops` count both per tick.

**Delivery** puts the network between the store and the clients: a pull's answer is on the wire after its
transaction, arrives late or never, and clients acknowledge only identifiers they have received. The
transactions are Store's own actions; the histories `idOf`, `got` and `taken` are new.

**FinishScan** is the coupling `pull_message` documents (REVIEW C1), on top of Delivery: a client asks for
`FINISH_SCAN_BATCH` messages and reads a shorter answer as an exhausted mailbox, while other clients pull and the
operator restarts the relay with any legal queue depth on the same file, larger or smaller. Every step of it is a
step of Delivery or
leaves Delivery's variables alone. The body limit is no variable: whatever it is, a body has some size up to the
ceiling.

**Startup** is `main` from the listening socket to `axum::serve`, for any number of processes with any schema
versions on one file and one address. A statement of the schema batch is a step, and so is each access to the
marker; `Die` ends a process anywhere. Initially the file is new, or something else has spoilt its marker.

**Config** is the way of thirteen numbers, the store path and the address from flags and environment into the
running relay: `EnvVals::from_env` (every variable parsed, overridden or not), `resolve_config` (flag over
variable over default, zero refused, ceilings), the address, and `AppState::new_full` with `Store::open`, which
validate their share again; the store may turn out not to open. The first error in the code's order is the one
reported.

**Gate** is everything before a handler's first effect: framework extractors, bearer, route token, sizes, query
and body, in each handler's own order, over every shape of request. `Reached` says what a request got to (the
create-rate bucket, the store). Texts are a core with or without blanks around it, which is all trimming sees.

**Base64** is the codec as folds over characters and chunks, and the cap on create bodies, checked against
RFC 4648 stated as a bit stream.

Operators whose comment begins with "Mutation" are plausible bugs of the
operator that follows them; no specification uses them, and putting one in its place must break a property
(`mutants` in `PROJECT.json`).

## 3. Runs

| Run | Asks | Instance |
|---|---|---|
| `store_mailbox` | mailbox invariants, `LeaseHeld`; Store implements Mailboxes (`MailboxesPromised`) | 2 keys, 2 ids, 2 sizes, depth 2, 3 messages, clock to 2, retention 2, lease 1, budget 2 |
| `store_invite` | limits, slot invariants, `RevokedIsDead`, `SlotNeverEvicted`; Store implements InviteSlots (`SlotsPromised`) | 2 keys, 1 slot, 2 capabilities, 3 tokens, depth 1, 1 route, clock to 2 |
| `relay_mailbox` | refinement of Store, `BucketsAccounted` | 2 handlers and the sweeper, push/pull/ack on 2 routes, 1 route allowed, crashes |
| `relay_invite` | refinement of Store, `RelayTypeOK` | 2 handlers and the sweeper, push/create/redeem/revoke, failing transactions |
| `relay_live` | `EveryRequestEnds`, `ExpiredAreSwept` | 1 client with all six operations and the sweeper, disconnects, 2 tokens |
| `delivery` | `AtLeastOnce`, `LegacyAtMostOnce`, `OnlyDepthCutsAScan` | 2 mailboxes, 2 ids, 2 messages of sizes 1 and 2, depth 1 or 2, changed by restarts, batches of 2, clock to 2, lease 1, retention 2 |
| `startup` | `MarkerMeansTables`, `NoRollback`, `MarkerMonotone`, `NewerFileUntouched`, `OpensUnlessNewer` | 4 processes of versions 1, 2, 2, 3, starting and dying any number of times |
| `config` | `LegalLimits`, `RunsAsConfigured`, `EphemeralOnlyWhenTold` | at most one flag and one variable at once, any setting; numbers 0, 200, 5000, 3000000 and text; every store path |
| `requests` | `NoTokenOracle`, `RefusedReachesNothing`, `SlotGuardsItsMailbox`; `RoundTrip`, `EncodesTheBitStream`, `Canonical`, `LargestBundleFits`; `WindowBound`, `NoStarvation` | every shape of request to seven endpoints, on an open and on a bearer relay; byte strings up to 6 over 5 values, texts up to 5 over 9 characters; both kinds of bucket, burst 3, refill 2, half-second ticks to 2.5 s, readings up to one tick old, 2 drops |
| `bucket_leak`, `late_create`, `short_scan` | a sentence of a document, refuted | see section 5 |

Why the bounds are enough for the interesting cases. Three messages on depth two fill a queue, overflow it
and reuse it; with sizes 1 and 2 and a budget of 2 the budget cuts a batch in the middle and a single
message over what is left is deferred; two ids on three messages give duplicates. A clock of 2 with
retention 2 and lease 1 lets a lease run out, a message expire, and any transaction run with a reading up to
two seconds old, a whole retention time. Three tokens are a create, its redemption and a second create after expiry. One slot of
two keys, and one route of two, hit their limits. In Relay a clock of 1 with every lifetime equal to 1 makes
every reading either current or stale by a whole lifetime. Settings of Config do not depend on each other, so
one flag and one variable at once meet every pair; the four numbers are zero, below every ceiling, between the
ceilings, and above all of them. Two processes of one version in `startup` restart a half-made file of their
own kind. `AccWidth` of Base64 is 16 and not the code's 32: the decoder drops bits it has already emitted, and
with 16 this happens within three characters instead of six. Two and a half seconds with a burst of 3 and a refill
of 2 let a bucket run empty, refill, and be dropped and made again twice, with a reading older than the drop. Properties that depend on larger numbers are the
theorems' business. `MaxClock`, `MaxSeq` (Store), `Procs` (Relay), `Skew`, `MaxTicks` and `MaxDrops` (RateLimiter) are
bounds of the models and not of the code; Relay keeps `MaxSeq` by not starting a push that would pass it,
so that no handler is stuck on a bound. Symmetry is used only in runs without liveness, over sets whose
members the constants do not tell apart.

`BucketsAccounted` is checked on an instance without invites, disconnects and failing transactions. The
code does leave buckets behind elsewhere: a push refused by a slot keeps the bucket it made, as does one whose
client goes away or whose transaction fails (section 5), and a sweep inside `invite_create` forgets to
prune (`bucket_leak`).

`AtLeastOnce` is about identifiers, because an ack names one: where a sender repeats an identifier, receiving
one copy and acknowledging it deletes another copy that was leased and whose answer was lost. With identifiers
that are not repeated it is at-least-once for messages.

## 4. Fairness

`RelayLive`: weak fairness for each handler's `Progress` (the runtime polls what is ready, `spawn_blocking`
threads run, mutexes are released: no handler holds a lock over an await), for the sweeper's timer
(main's loop has no exit) and for time. Nothing is assumed of clients. `relay_live` has no crashes and no failing transactions: a relay whose
disk always fails, or that is restarted faster than the sweep interval, sweeps nothing, and no scheduling
would help. The model has no mutexes: a transaction, and a visit to the bucket map, is one step. So `EveryRequestEnds`
says that no handler waits for something that does not come, and not that the code's mutexes cannot deadlock; no
code path takes one while it holds the other. `StartupLive`: weak fairness for `Open(p)`: once started, main runs through. Nobody is assumed to start or stop
a process, and a process may die for ever. Weak fairness for the connection mutex is an assumption about the operating system's lock (it is
not queue-fair, but two lockers cannot starve a third for ever in practice).

## 5. Where the code and its documents disagree

Three sentences are refuted by a run of their own:

* `late_create`. DOC-SRV-008:62 says of a push to an invite slot that `ERR_INVITE_EXPIRED` is *unreachable*,
  because the push's own sweep has already removed an expired slot (so that the push is accepted as one to an
  ordinary route, against DOC-SRV-007:94; the same note records that as ENG-0356). It is reachable: an
  `invite_create` that waits longer than its slot lives commits an expired slot between the push's two
  transactions.
* `bucket_leak`. DOC-SRV-003:37 releases rate accounting with an expired route, and store.rs:87 keeps the keys of
  removed routes "for rate-bucket pruning"; `invite_create` discards the statistics of its sweep (store.rs:416), so
  nobody drops those buckets until the route is used and drained again or the relay restarts.
* `short_scan`. lib.rs:567 says that "no 16-frame batch can be cut at any legal configuration", so that a client that
  takes a short batch for an exhausted mailbox is safe. The byte budget cuts none, but `max` is clamped to the queue
  depth (lib.rs:1227): a relay restarted with a depth below 16 on a deeper queue answers a scan short, and the client
  stops. In the run that takes two pushes, a restart with depth 1 and a scan. What does hold is
  `OnlyDepthCutsAScan`.

Others are visible in what a property has to allow or to assume:

* `WindowBound` allows a route another burst for every time its bucket is dropped. A route's burst and refill
  (docs/CONFIGURATION.md:16) bound what one bucket grants; a client that pushes a burst, drains the route with a pull or an ack
  and pushes again gets two bursts within one second, because the drained route's bucket goes (lib.rs:1248, 1305) and
  the next push makes a full one (lib.rs:1125). The new bucket may start with a reading older than the drop, so that
  the age of a reading is credited twice.
* `WindowBound` allows the global invite-create bucket one request more than its burst (main.rs:62): a full
  bucket does not move `last_refill` (lib.rs:58), so the idle time before the first request is credited after it.
  A route's bucket is made by its first push and never is both full and stale.
* `EphemeralOnlyWhenTold` allows `--store-path ""`. main.rs:175 says only `:memory:` is an ephemeral choice; an
  empty flag is taken as it is, and SQLite gives it a private temporary database. An empty `STORE_PATH` variable
  is refused.
* `SlotGuardsItsMailbox` excludes an `invite_id` with blanks around it. lib.rs:107 and DOC-SRV-007:26 say an
  `invite_id` is the mailbox's route key; route tokens are trimmed before they are hashed (lib.rs:1042), invite
  ids are not (lib.rs:761).
* `NoTokenOracle` is about requests the extractors let through. DOC-SRV-004:20 promises 401 for a missing bearer;
  a malformed query or an oversized body is refused by the framework before the handler looks at the bearer.
* `BucketsReleased` and `BucketsAccounted` assume no slots, disconnects or failing transactions. DOC-SRV-003:85
  calls the rate buckets bounded; a push to a new route makes its bucket before an enqueue that may fail or be
  refused, and nothing drops it then (lib.rs:1167, 1190).
* `Config` does not look at `ROUTE_IDLE_TTL_MS`. DOC-SRV-003:84 has a zero route idle time-to-live rejected; the
  code warns about the variable and ignores its value (main.rs:208).

## 6. Theorems

All hold for every value of the constants that the named assumptions of the modules allow: any sets of keys,
ids, tokens and handlers, any non-zero limits and lifetimes (that the configuration lets nothing else through
is `OnlyLegalLimitsRun`), `Null` none of the values it stands in for, and sizes not zero (an empty body is
refused).

**StoreProofs.** `TypeCorrect` is inductive by itself. The mailbox properties are not. `MailboxInv` adds that
the tables are finite (a cardinality of anything else means nothing) and `StoredAsAccepted`: a queued row is
what was accepted, and it carries a lease exactly when some pull has returned it. That equivalence is what
makes an ack, which looks only at `leased_until`, unable to lose an undelivered duplicate (`NothingLost`), and
what makes every undelivered row visible to the next pull, whose batch is a prefix (`BatchIsPrefix`), hence
`InOrder`. `RoutesReleased` and `LimitsHold` need each other: the sweep only inspects routes when it expired
something, which is enough because no route was empty before. `LeasesHold` is an action property from the
same invariant: a pull with a stale clock sees an unexpired lease as unexpired.

`MailboxesKept`: `Spec => MailboxesPromised`, the store implements Mailboxes. One lemma per operation names the step
it makes (`EnqueuePosts`, `LegacyTakes`, `LeasedLeases`, `AckSettles`, `SweepExpires`, `TickPasses`), with what its
sweep expires and its batch as the step's parameters. `MailboxInv` is needed in three places: an ack settles only
what was returned (`StoredAsAccepted`), a batch leaves nothing older behind unseen (`BatchIsPrefix`), and what a sweep
deletes is due by the time it was accepted, not only by the row.

**InviteProofs.** `InviteInv` adds that every hash in tables and histories is of a token already minted, so a
fresh one names a new slot, and that no two slots share a revoke token. From it: `SlotsTellTheTruth`,
`SingleUse`, `OneHandshakePerSlot`, `RevocationIsFinal`, `SlotsAreNeverEvicted`.

`SlotsKept`: `Spec => SlotsPromised`, the store implements InviteSlots. `InviteInv` is not enough for it: tickets and
revoke tokens come from the same source, and a slot that leaves is seen to be gone only if its revoke token is not
also some ticket. `TicketsApart` says so and is inductive with `InviteInv` (`TicketsStayApart`). The proof reads the
life of a slot off its row (`LifeOfRow`, for which no two rows may share a revoke token) or, without a row, off the
histories (`LifeWithoutRow`); then one lemma per operation (`CreatePublishes`, `RedeemRedeems`, `PushAdmits`,
`RevokeRevokes`, `SweepDrops`).

**RelayProofs.** `RelayTypeCorrect`: clock readings are of the past, and a token on its way to the store is
carried by one handler and not stored yet (the strengthening the refinement needs, with `TypeOK`).
`RelayRefinesStore`: `RelaySpec => StoreSpec`, the identity mapping on the store's variables, one lemma per
handler step, for any number of handlers and with every fault. `RelayMailbox` and `RelayInvites` carry the
store's theorems over to the running relay, and `RelayKeepsPromises` composes the refinements: the concurrent
handlers, with crashes, disconnects and failing transactions, implement Mailboxes and InviteSlots.

`BucketsReleased`: no bucket without a queued message, a handler about to drop it, or a push
still in progress, where there are no invites, disconnects and failing transactions (`Undisturbed`; each of the
three breaks it). Its invariant `BucketInv` follows a key through the handlers' `release` sets: a route that a
sweep removes is in the `release` of whoever swept it until its bucket is gone.

**DeliveryProofs.** `DeliveryInv` adds to `MailboxInv` that a row carries its accepted identifier (`IdsKept`), that
everything received or on the wire was delivered, that leases end in time (`LeasesEnd`), and that what a legacy
pull took is in no row (`TakenIsGone`). Then
`DeliveredAtLeastOnce` and `LegacyDeliversAtMostOnce`, for any network that loses, delays and reorders.

`ScanRefinesDelivery`: scanning clients and restarts implement `DeliverySpec`, so all of the above holds for them
too. `OnlyDepthCuts`: if a scan's batch is shorter than asked for and leaves something visible behind, it was not cut
by bytes: the bodies of any prefix of at most `ScanBatch` messages fit the budget (`SumBound`), because the budget is
that many bodies of the ceiling's size. So it was cut by count, and more messages wait than the depth limit that
`max` is clamped to. `ScansAreComplete` is what is left of the sentence `short_scan` refutes: where no restart lowers
the depth (`NeverLowered`, a hypothesis of the theorem), no queue is deeper than the limit of the relay that runs now
(`QueuesWithinLimit`), and a scan overlooks nothing.

**RateProofs.** `WindowsAreBounded`: no interval of ticks grants more than a burst, what the interval earns, and what
the drops in it give back (`Refunded`: a burst each, and the refill of a reading's age).
The invariant is an account per tick i: while there is a bucket (`Accounted`), what was granted since i plus the
tokens left is at most what is allowed since i plus what was earned between i (less the age of a reading) and the last
refill; while there is none (`Covered`), the account has room for a full bucket made with the oldest reading, which is
what `DropCovered` shows of the step that removes it. Once a request is granted
the last refill is less than a second before it, so nothing earned long before i is spent after i; the
exception, which is the global bucket's extra request, is the full bucket made at start, whose last refill may lie
arbitrarily far back when its first token goes.

For both kinds of bucket (`LimiterSpec`): `LimiterTypeCorrect`, and `PollingDoesNotStarve`: a client that keeps asking too early is not
kept out. `LimiterInv` adds `DenialsAreFresh`: while requests are denied the bucket, if it has not been dropped since,
is empty, its last refill is no later than the first of the denials, and the latest denial is less than a second (and
the skew of readings) after that refill, so denied requests never push the refill ahead of themselves.

**MainProofs, configuration.** `ConfigInv` says what each phase has established. `ConfigTypeCorrect`, which rests on
the first faulty setting in the code's order being one that is at fault (`FirstIsFaulty`); `OnlyLegalLimitsRun`,
`ConfigurationIsHonoured`, for every set of flags and variables and all numbers; and, from
`PathInv` (past `resolve` the path is the resolved one, and what runs is durable exactly when its path is),
`NeverEphemeralByDefault`.

**MainProofs, starting.** `StartupInv` adds that the holder of the socket is the one process under way, so what
it has read of the marker is still true when it writes (two processes between read and write would break
`MarkerMonotone`), and that the marker is at least every version that has served. From it `MarkerPromisesTables`,
`DowngradeGuard`, `MarkerNeverGoesBack` and `NewerFilesAreSafe`, for any number of processes and versions, given
that a newer version has the tables of the older ones.

**RequestProofs.** `GateInv`: what a request was answered and what it reached are what its list of checks says. Then,
for any texts and not only the two of the run: `AnswersTellNothing` (past the extractors the bearer check is the
first of every endpoint's checks that can fail, so its answer is the one given), `RefusedCostsNothing`, and
`SlotsGuardByName` (trimming undoes padding and nothing else, and the hash is injective).

The codec, for byte strings and texts of any length over all 256 byte values, and any accumulator of 12 bits or more
(the code's has 32): `BundlesSurvive` (decoding undoes encoding), `AcceptedIsCanonical` (an accepted text, less
trailing padding, is what its bytes encode to), `EncodesRFC4648` and `LargestBundlesFit`. First the two folds are
unfolded: `FoldLeft` (`AfterUnfolds`) and `FlattenSeq` (`JoinerUnfolds`) exist and take one element at a time. The
decoder then has the loop invariant `LoopInv`, proved for every prefix of a text in `Reading`: after i valid
characters it holds 6i mod 8 bits, the accumulator's low six bits are the last character's, and every byte put out
is made of the two characters that complete it; that two characters suffice is why bits lost at the top do no harm,
and where the 12 bits are used (`AccKeeps`). `EncodeIs` says of the encoder that there are just enough characters and
that each has its six bits of the bytes. The rest compares the two, by where a position lies in its group of three
bytes and four characters.

**SumProofs.** Induction over data without an induction rule: a set of naturals has a least element and a set of
subsets of a finite set a smallest one (`LeastNatural`, `SmallestSubset`, from the library's well-foundedness
theorems), so a statement that fails somewhere fails at a least place. From that, that the fold behind a sum over a
finite set exists and unfolds by one element (`SumUnfolds`), any element (`SumRemove`), and the bounds that
DeliveryProofs and RateProofs use.

Only model-checked: liveness (`ExpiredAreSwept`, `EveryRequestEnds`, `OpensUnlessNewer`), which rests on fairness
and is out of the prover's reach, and what the violation runs show.

## 7. Not modelled

* Constructors only embedders and tests use (`Limits::from_env` and its like): main does not call them.
  Environment variables are assumed to be text; one that is not counts as unset in `env_opt`.
* SQLite URIs as store paths (`file::memory:` and the like, which rusqlite opens as such): `Config` tries a plain
  file, `:memory:` and an empty name, so `EphemeralOnlyWhenTold` says nothing of a URI, which is an explicit choice too.
* `ct_eq_secret`: what it compares is modelled, that it takes constant time is beyond TLA+.
* The fields of the capability document beyond its authentication mode and its retention; log lines, log
  identifiers; packaging, scripts; the tests, which exercise the modelled code.
* Lock poisoning (no panic under the lock is known), SQLite's own durability and isolation
  (`synchronous=FULL`, one connection), collisions of SHA-256 or of 128-bit tokens.
* A redemption whose answer is lost spends the invite, by contract. What must still hold, that the dead slot
  leaves the table at its expiry, is `ExpiredAreSwept`.
* Liveness under a wall clock that is set back for ever. For safety a set-back clock is covered: `clock` is the
  latest time it has shown, and an operation may run with any reading up to it.

## 8. State of the project

Every component of section 1 with state of its own is modelled, every invariant and action property the passing runs
check is also a theorem, and so are the refinements: Relay of Store, FinishScan of Delivery, and Store (hence
Relay) of Mailboxes and InviteSlots. What would extend it: the buckets of a relay with invites once `invite_create`
and refused pushes release what they made (section 5), and lock poisoning, should a panic under the lock become
possible.
