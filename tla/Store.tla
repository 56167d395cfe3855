------------------------------- MODULE Store -------------------------------
(***************************************************************************)
(* The durable store of the relay (src/store.rs): mailbox routes, queued   *)
(* messages and invite slots in one SQLite database.  Every operation is   *)
(* one transaction under the one connection mutex, so every operation is   *)
(* one atomic action; an outcome the code returns before COMMIT rolls the  *)
(* whole transaction back, so it is no step of this module.                *)
(*                                                                         *)
(* The handlers read the wall clock BEFORE they await the transaction, so  *)
(* an operation runs with a time `now' that may be any earlier reading:    *)
(* transactions commit in an order unrelated to their `now'.               *)
(*                                                                         *)
(* A route key and a slot key are the same hash of the same token: an      *)
(* invite identifier IS the key of the mailbox it protects.                *)
(***************************************************************************)
EXTENDS Integers, FiniteSets, FiniteSetsExt

CONSTANTS
    Keys,            \* hashes of route tokens and of invite identifiers
    InviteKeys,      \* the keys some client publishes an invite under
    MsgIds,          \* message identifiers, chosen by clients: not unique
    Sizes,           \* body lengths
    Caps,            \* capabilities, minted by clients
    Tokens,          \* 128-bit tokens, minted by the relay
    Null,            \* SQL NULL, and an absent header
    MaxQueueDepth, MaxRouteCount, MaxSlots,
    RetentionTtl, PullLease, PullBudget, MaxExpiry,
    MaxClock, MaxSeq \* bounds of the model

\* SHA-256 of a secret: what the relay keeps of it, and injective.
Sha256(x) == <<"sha256", x>>
Hashes(S) == {Sha256(x) : x \in S}

ASSUME SetAssumption ==
    /\ InviteKeys \subseteq Keys
    /\ Sizes \subseteq Nat \ {0}
    /\ Null \notin Nat
    /\ Null \notin Tokens
    /\ Null \notin Hashes(Tokens)

ASSUME LimitAssumption ==
    /\ MaxQueueDepth \in Nat \ {0}
    /\ MaxRouteCount \in Nat \ {0}
    /\ MaxSlots \in Nat \ {0}
    /\ RetentionTtl \in Nat \ {0}
    /\ PullLease \in Nat \ {0}
    /\ PullBudget \in Nat
    /\ MaxExpiry \in Nat \ {0}
    /\ MaxClock \in Nat
    /\ MaxSeq \in Nat

VARIABLES
    routes,       \* table routes: the keys that have a row
    messages,     \* table messages: seq |-> row
    invites,      \* table invites: slot_key |-> row
    nextSeq,      \* AUTOINCREMENT of messages.seq
    clock,        \* the wall clock, in seconds
    accepted,     \* history: every message ever enqueued, by seq
    delivered,    \* history: the seqs some pull has returned
    minted,       \* history: the relay's tokens already used in the store
    redemptions,  \* history: which ticket each slot was redeemed for
    revocations,  \* history: the slots that were revoked
    handshakes    \* history: the messages admitted through a slot

tables == <<routes, messages, invites, nextSeq>>
history == <<accepted, delivered, minted, redemptions, revocations, handshakes>>
storeVars == <<routes, messages, invites, nextSeq, clock,
               accepted, delivered, minted, redemptions, revocations, handshakes>>

----------------------------------------------------------------------------
(* Rows.  Columns nothing reads back (log_id, created_at, last_touched,    *)
(* consumed_at) are left out; bundle and invite_sig are written and        *)
(* cleared together and never parsed, so one field says if they are there. *)

Message == [msg_id : MsgIds, route_key : Keys, bytes : Sizes,
            enqueued_at : Nat, leased_until : Nat \cup {Null}]

Slot == [cap_hash : Hashes(Caps), revoke_hash : Hashes(Tokens),
         blobs : {"stored", "cleared"}, expiry : Nat,
         state : {"ACTIVE", "CONSUMED", "REVOKED"},
         ticket_hash : Hashes(Tokens) \cup {Null}]

\* The rows of table T whose key is in K.
Rows(T, K) == [x \in K |-> T[x]]

----------------------------------------------------------------------------
(* Retention.                                                              *)

\* Messages at least RetentionTtl old at `now'.
Expired(now) ==
    {s \in DOMAIN messages : messages[s].enqueued_at <= now - RetentionTtl}

\* The messages, routes and invites a sweep at `now' leaves.  Routes are only
\* looked at when the sweep expired some message.
SweptSeqs(now) == DOMAIN messages \ Expired(now)
SweptMessages(now) == Rows(messages, SweptSeqs(now))
RemovedRoutes(now) ==
    {k \in routes : /\ Expired(now) # {}
                    /\ \A s \in SweptSeqs(now) : messages[s].route_key # k}
SweptRoutes(now) == routes \ RemovedRoutes(now)
\* Mutation: the sweep forgets the invite table.
LiveSlotsForever(now) == DOMAIN invites

LiveSlots(now) == {k \in DOMAIN invites : ~(invites[k].expiry <= now)}
SweptInvites(now) == Rows(invites, LiveSlots(now))

SweepExpired(now) ==
    /\ messages' = SweptMessages(now)
    /\ routes' = SweptRoutes(now)
    /\ invites' = SweptInvites(now)

RetentionSweep(now) ==
    /\ SweepExpired(now)
    /\ UNCHANGED <<nextSeq, clock, history>>

\* The sweep half of route_status; its answer is read from the swept tables.
RouteStatus(now) ==
    /\ SweepExpired(now)
    /\ UNCHANGED <<nextSeq, clock, history>>

----------------------------------------------------------------------------
(* enqueue: slot admission and message insertion in one transaction.       *)

OnRoute(key) == {s \in DOMAIN messages : messages[s].route_key = key}
Depth(key) == Cardinality(OnRoute(key))

\* Mutation: any push reaches a redeemed slot, whatever ticket it presents.
SlotVerdictAnyTicket(key, now, ticket) ==
    IF key \notin DOMAIN invites THEN "NoSlot"
    ELSE IF invites[key].state = "REVOKED" THEN "Revoked"
    ELSE IF invites[key].expiry <= now THEN "Expired"
    ELSE "Admitted"

\* What the invite table says of a push to `key' that presents `ticket'.
SlotVerdict(key, now, ticket) ==
    IF key \notin DOMAIN invites THEN "NoSlot"
    ELSE IF invites[key].state = "REVOKED" THEN "Revoked"
    ELSE IF invites[key].expiry <= now THEN "Expired"
    ELSE IF \/ ticket = Null
            \/ invites[key].ticket_hash # Sha256(ticket) THEN "TicketInvalid"
    ELSE "Admitted"

EnqueueOutcome(key, now, ticket) ==
    IF SlotVerdict(key, now, ticket) \notin {"NoSlot", "Admitted"}
      THEN SlotVerdict(key, now, ticket)
    ELSE IF key \in routes /\ Depth(key) >= MaxQueueDepth THEN "Overloaded"
    ELSE IF key \notin routes /\ Cardinality(routes) >= MaxRouteCount
      THEN "RouteCap"
    ELSE "Accepted"

\* Mutation: the ticket is verified and never burnt.
BurnTicketNever(key) == invites' = invites

\* Burn the one-shot ticket of the slot, where there is a slot.
BurnTicket(key) ==
    invites' = [k \in DOMAIN invites |->
                  IF k = key THEN [invites[k] EXCEPT !.ticket_hash = Null]
                             ELSE invites[k]]

\* Mutation: the insert does not move the sequence on.
InsertMessageSameSeq(key, id, bytes, now) ==
    /\ messages' = [s \in DOMAIN messages \cup {nextSeq} |->
                      [msg_id |-> id, route_key |-> key, bytes |-> bytes,
                       enqueued_at |-> now, leased_until |-> Null]]
    /\ nextSeq' = nextSeq

InsertMessage(key, id, bytes, now) ==
    /\ messages' = [s \in DOMAIN messages \cup {nextSeq} |->
                      IF s = nextSeq
                        THEN [msg_id |-> id, route_key |-> key, bytes |-> bytes,
                              enqueued_at |-> now, leased_until |-> Null]
                        ELSE messages[s]]
    /\ nextSeq' = nextSeq + 1

\* The history of an accepted message.
RecordAccepted(key, now) ==
    /\ accepted' = [s \in 1..nextSeq |->
                      IF s = nextSeq
                        THEN [route_key |-> key, enqueued_at |-> now]
                        ELSE accepted[s]]
    /\ handshakes' =
         handshakes \cup
           {[slot |-> invites[k].revoke_hash, ticket |-> invites[k].ticket_hash,
             seq |-> nextSeq] : k \in DOMAIN invites \cap {key}}

Enqueue(key, id, bytes, now, ticket) ==
    /\ nextSeq <= MaxSeq
    /\ EnqueueOutcome(key, now, ticket) = "Accepted"
    /\ BurnTicket(key)
    /\ routes' = routes \cup {key}
    /\ InsertMessage(key, id, bytes, now)
    /\ RecordAccepted(key, now)
    /\ UNCHANGED <<clock, delivered, minted, redemptions, revocations>>

----------------------------------------------------------------------------
(* pull.                                                                   *)

\* Mutation: the SELECT does not look at leases.
VisibleLeasedToo(key, now) ==
    {s \in SweptSeqs(now) : messages[s].route_key = key}

\* The rows of `key' a pull at `now' selects after its own sweep.
Visible(key, now) ==
    {s \in SweptSeqs(now) :
        /\ messages[s].route_key = key
        /\ \/ messages[s].leased_until = Null
           \/ messages[s].leased_until <= now}

\* Total body bytes of a set of messages.
Bytes(S) == SumFunctionOnSet([s \in DOMAIN messages |-> messages[s].bytes], S)

\* Mutation: the batch has to stay below the byte budget.
FitsStrictly(V, max, s) ==
    LET upTo == {t \in V : t <= s}
    IN  /\ Cardinality(upTo) <= max
        /\ upTo = {s} \/ Bytes(upTo) < PullBudget

\* The loop over the rows in seq order stops at LIMIT max, or at the first row
\* after the first that the byte budget does not cover.
Fits(V, max, s) ==
    LET upTo == {t \in V : t <= s}
    IN  /\ Cardinality(upTo) <= max
        /\ upTo = {s} \/ Bytes(upTo) <= PullBudget

\* Mutation: rows are read in the order of their timestamps.
BatchByTime(key, max, now) ==
    LET V == Visible(key, now)
    IN  {s \in V : max >= Cardinality({t \in V :
            messages[t].enqueued_at <= messages[s].enqueued_at})}

Batch(key, max, now) ==
    LET V == Visible(key, now)
    IN  {s \in V : \A t \in V : t <= s => Fits(V, max, t)}

\* Mutation: the drained route keeps its row.
PullLegacyKeepsRoute(key, max, now) ==
    /\ messages' = Rows(messages, SweptSeqs(now) \ Batch(key, max, now))
    /\ routes' = SweptRoutes(now)
    /\ invites' = SweptInvites(now)
    /\ delivered' = delivered \cup Batch(key, max, now)
    /\ UNCHANGED <<nextSeq, clock, accepted, minted,
                   redemptions, revocations, handshakes>>

\* Mutation: the DELETE spares what an earlier pull has leased.
PullLegacySparesLeased(key, max, now) ==
    /\ messages' = Rows(messages, {s \in SweptSeqs(now) :
                      s \in Batch(key, max, now) => messages[s].leased_until # Null})
    /\ routes' = SweptRoutes(now)
    /\ invites' = SweptInvites(now)
    /\ delivered' = delivered \cup Batch(key, max, now)
    /\ UNCHANGED <<nextSeq, clock, accepted, minted,
                   redemptions, revocations, handshakes>>

\* Legacy pull: returning a message deletes it, and its route if it was the
\* last.
PullLegacy(key, max, now) ==
    LET left == SweptSeqs(now) \ Batch(key, max, now)
    IN  /\ messages' = Rows(messages, left)
        /\ routes' = {k \in SweptRoutes(now) :
                        \/ k # key
                        \/ \E s \in left : messages[s].route_key = key}
        /\ invites' = SweptInvites(now)
        /\ delivered' = delivered \cup Batch(key, max, now)
        /\ UNCHANGED <<nextSeq, clock, accepted, minted,
                       redemptions, revocations, handshakes>>

\* Leasing pull: the batch is hidden until now + PullLease.
PullLeased(key, max, now) ==
    /\ messages' = [s \in SweptSeqs(now) |->
                      IF s \in Batch(key, max, now)
                        THEN [messages[s] EXCEPT !.leased_until = now + PullLease]
                        ELSE messages[s]]
    /\ routes' = SweptRoutes(now)
    /\ invites' = SweptInvites(now)
    /\ delivered' = delivered \cup Batch(key, max, now)
    /\ UNCHANGED <<nextSeq, clock, accepted, minted,
                   redemptions, revocations, handshakes>>

----------------------------------------------------------------------------
(* ack: only copies that are or were leased can be deleted.                *)

\* Mutation: an ack deletes every copy of the id, delivered or not.
AckedUndelivered(key, ids, now) ==
    {s \in SweptSeqs(now) : /\ messages[s].route_key = key
                            /\ messages[s].msg_id \in ids}

\* Mutation: an ack deletes whatever is leased on the route.
AckedAnyId(key, ids, now) ==
    {s \in SweptSeqs(now) : /\ messages[s].route_key = key
                            /\ messages[s].leased_until # Null}

Acked(key, ids, now) ==
    {s \in SweptSeqs(now) : /\ messages[s].route_key = key
                            /\ messages[s].leased_until # Null
                            /\ messages[s].msg_id \in ids}

Ack(key, ids, now) ==
    LET left == SweptSeqs(now) \ Acked(key, ids, now)
    IN  /\ messages' = Rows(messages, left)
        /\ routes' = {k \in SweptRoutes(now) :
                        \/ k # key
                        \/ Acked(key, ids, now) = {}
                        \/ \E s \in left : messages[s].route_key = key}
        /\ invites' = SweptInvites(now)
        /\ UNCHANGED <<nextSeq, clock, history>>

----------------------------------------------------------------------------
(* Invite slots.                                                           *)

\* Mutation: the slot limit is off by one.
InviteCreateOutcomeOffByOne(key, now) ==
    IF key \in LiveSlots(now) THEN "Duplicate"
    ELSE IF Cardinality(LiveSlots(now)) > MaxSlots THEN "CapFull"
    ELSE "Created"

\* Mutation: INSERT OR REPLACE.
InviteCreateOutcomeReplaces(key, now) ==
    IF Cardinality(LiveSlots(now) \ {key}) >= MaxSlots THEN "CapFull"
    ELSE "Created"

InviteCreateOutcome(key, now) ==
    IF key \in LiveSlots(now) THEN "Duplicate"
    ELSE IF Cardinality(LiveSlots(now)) >= MaxSlots THEN "CapFull"
    ELSE "Created"

InviteCreate(key, cap, token, expiry, now) ==
    /\ InviteCreateOutcome(key, now) = "Created"
    /\ messages' = SweptMessages(now)
    /\ routes' = SweptRoutes(now)
    /\ invites' = [k \in LiveSlots(now) \cup {key} |->
                     IF k = key
                       THEN [cap_hash |-> Sha256(cap), revoke_hash |-> Sha256(token),
                             blobs |-> "stored", expiry |-> expiry,
                             state |-> "ACTIVE", ticket_hash |-> Null]
                       ELSE invites[k]]
    /\ minted' = minted \cup {token}
    /\ UNCHANGED <<nextSeq, clock, accepted, delivered,
                   redemptions, revocations, handshakes>>

InviteRedeemOutcome(key, now, cap) ==
    IF key \notin DOMAIN invites THEN "NotFound"
    ELSE IF invites[key].state = "REVOKED" THEN "Revoked"
    ELSE IF invites[key].expiry <= now THEN "Expired"
    ELSE IF invites[key].state = "CONSUMED" THEN "AlreadyUsed"
    ELSE IF invites[key].cap_hash # Sha256(cap) THEN "CapInvalid"
    ELSE "Redeemed"

\* Mutation: the state was checked in an earlier transaction.
InviteRedeemUnchecked(key, now, ticket, cap) ==
    /\ key \in DOMAIN invites
    /\ invites[key].cap_hash = Sha256(cap)
    /\ invites' = [invites EXCEPT ![key] =
                     [@ EXCEPT !.state = "CONSUMED",
                               !.ticket_hash = Sha256(ticket),
                               !.blobs = "cleared"]]
    /\ minted' = minted \cup {ticket}
    /\ redemptions' = redemptions \cup
         {[slot |-> invites[key].revoke_hash, ticket |-> Sha256(ticket)]}
    /\ UNCHANGED <<routes, messages, nextSeq, clock, accepted, delivered,
                   revocations, handshakes>>

InviteRedeem(key, now, ticket, cap) ==
    /\ InviteRedeemOutcome(key, now, cap) = "Redeemed"
    /\ invites[key].state = "ACTIVE"    \* the UPDATE's compare-and-set
    /\ invites' = [invites EXCEPT ![key] =
                     [@ EXCEPT !.state = "CONSUMED",
                               !.ticket_hash = Sha256(ticket),
                               !.blobs = "cleared"]]
    /\ minted' = minted \cup {ticket}
    /\ redemptions' = redemptions \cup
         {[slot |-> invites[key].revoke_hash, ticket |-> Sha256(ticket)]}
    /\ UNCHANGED <<routes, messages, nextSeq, clock, accepted, delivered,
                   revocations, handshakes>>

InviteRevokeOutcome(key, token) ==
    IF key \notin DOMAIN invites THEN "NotFound"
    ELSE IF invites[key].revoke_hash # Sha256(token) THEN "TokenInvalid"
    ELSE IF invites[key].state = "REVOKED" THEN "AlreadyRevoked"
    ELSE "Revoked"

\* Mutation: the blobs and the ticket are cleared, the state is not set.
InviteRevokeKeepsState(key, token) ==
    /\ InviteRevokeOutcome(key, token) = "Revoked"
    /\ invites' = [invites EXCEPT ![key].blobs = "cleared",
                                  ![key].ticket_hash = Null]
    /\ revocations' = revocations \cup {invites[key].revoke_hash}
    /\ UNCHANGED <<routes, messages, nextSeq, clock, accepted, delivered,
                   minted, redemptions, handshakes>>

InviteRevoke(key, token) ==
    /\ InviteRevokeOutcome(key, token) = "Revoked"
    /\ invites' = [invites EXCEPT ![key] =
                     [@ EXCEPT !.state = "REVOKED",
                               !.ticket_hash = Null,
                               !.blobs = "cleared"]]
    /\ revocations' = revocations \cup {invites[key].revoke_hash}
    /\ UNCHANGED <<routes, messages, nextSeq, clock, accepted, delivered,
                   minted, redemptions, handshakes>>

----------------------------------------------------------------------------
(* The store under every sequence of operations the handlers can issue.    *)

Tick ==
    /\ clock < MaxClock
    /\ clock' = clock + 1
    /\ UNCHANGED <<tables, history>>

\* An empty database file.
Init ==
    /\ routes = {}
    /\ messages = [s \in {} |-> Null]
    /\ invites = [k \in {} |-> Null]
    /\ nextSeq = 1
    /\ clock = 0
    /\ accepted = [s \in {} |-> Null]
    /\ delivered = {}
    /\ minted = {}
    /\ redemptions = {}
    /\ revocations = {}
    /\ handshakes = {}

\* A reading of the clock some handler has already taken.
Readings == 0..clock

DoEnqueue ==
    \E key \in Keys, id \in MsgIds, bytes \in Sizes, now \in Readings,
       ticket \in minted \cup {Null} :
        Enqueue(key, id, bytes, now, ticket)

DoPull ==
    \E key \in Keys, max \in 1..MaxQueueDepth, now \in Readings :
        PullLegacy(key, max, now) \/ PullLeased(key, max, now)

DoAck ==
    \E key \in Keys, ids \in (SUBSET MsgIds) \ {{}}, now \in Readings :
        Ack(key, ids, now)

DoInviteCreate ==
    \E key \in InviteKeys, cap \in Caps, token \in Tokens \ minted, now \in Readings :
        \E expiry \in (now + 1)..(now + MaxExpiry) :
            InviteCreate(key, cap, token, expiry, now)

DoInviteRedeem ==
    \E key \in InviteKeys, now \in Readings, ticket \in Tokens \ minted, cap \in Caps :
        InviteRedeem(key, now, ticket, cap)

DoInviteRevoke ==
    \E key \in InviteKeys, token \in minted : InviteRevoke(key, token)

DoSweep == \E now \in Readings : RetentionSweep(now) \/ RouteStatus(now)

Next ==
    \/ DoEnqueue
    \/ DoPull
    \/ DoAck
    \/ DoSweep
    \/ DoInviteCreate
    \/ DoInviteRedeem
    \/ DoInviteRevoke
    \/ Tick

Spec == Init /\ [][Next]_storeVars

----------------------------------------------------------------------------
(* Invariants.                                                             *)

\* The tables and the histories hold rows of their kind; a seq once given is
\* never given again, whatever was deleted since.
TypeOK ==
    /\ routes \subseteq Keys
    /\ nextSeq \in Nat \ {0}
    /\ clock \in 0..MaxClock
    /\ DOMAIN messages \subseteq 1..(nextSeq - 1)
    /\ messages \in [DOMAIN messages -> Message]
    /\ DOMAIN invites \subseteq InviteKeys
    /\ invites \in [DOMAIN invites -> Slot]
    /\ accepted \in [1..(nextSeq - 1) -> [route_key : Keys, enqueued_at : Nat]]
    /\ delivered \subseteq 1..(nextSeq - 1)
    /\ minted \subseteq Tokens
    /\ redemptions \subseteq [slot : Hashes(Tokens), ticket : Hashes(Tokens)]
    /\ revocations \subseteq Hashes(Tokens)
    /\ handshakes \subseteq [slot : Hashes(Tokens),
                             ticket : Hashes(Tokens) \cup {Null},
                             seq : 1..(nextSeq - 1)]

\* A route has a row exactly while it has a queued message: enqueue creates
\* it, and whichever of expiry, legacy pull or ack removes the last message
\* also releases the route, so no route capacity is ever leaked.
RoutesExactlyLive == routes = {messages[s].route_key : s \in DOMAIN messages}

\* The configured limits hold in every state: queue depth per route, number
\* of routes, number of invite slots.
ResourceBounds ==
    /\ \A key \in Keys : Depth(key) <= MaxQueueDepth
    /\ Cardinality(routes) <= MaxRouteCount
    /\ Cardinality(DOMAIN invites) <= MaxSlots

\* No accepted message disappears: it is queued unchanged, or some pull has
\* returned it, or its retention time has really passed.  An ack that names
\* the id of an undelivered duplicate must not delete it.
NoLoss ==
    \A s \in DOMAIN accepted :
        \/ /\ s \in DOMAIN messages
           /\ messages[s].route_key = accepted[s].route_key
           /\ messages[s].enqueued_at = accepted[s].enqueued_at
        \/ s \in delivered
        \/ accepted[s].enqueued_at + RetentionTtl <= clock

\* First deliveries of a route follow the order of its enqueues: no pull,
\* whatever its max, byte budget, mode or stale clock reading, returns a
\* message while an older one of the route still waits for its first delivery.
FirstDeliveryInOrder ==
    \A s \in DOMAIN messages, t \in delivered :
        (s \notin delivered /\ accepted[t].route_key = messages[s].route_key)
            => t < s

Redeemed(slot) == \E r \in redemptions : r.slot = slot
Used(slot) == \E h \in handshakes : h.slot = slot

\* The row of a slot tells its whole life: ACTIVE (with its blobs) until the
\* first redemption or revocation; a live ticket exactly from the redemption
\* until the message it admits is stored, and it is the winner's ticket.  A
\* push that is rolled back (queue full, route cap) does not burn it.
SlotMatchesHistory ==
    \A key \in DOMAIN invites :
        LET row == invites[key]
            slot == row.revoke_hash
        IN  /\ row.state = "REVOKED" <=> slot \in revocations
            /\ row.state = "ACTIVE" =>
                 ~Redeemed(slot) /\ ~Used(slot) /\ row.blobs = "stored"
            /\ row.state # "ACTIVE" => row.blobs = "cleared"
            /\ row.state = "CONSUMED" =>
                 Redeemed(slot) /\ (row.ticket_hash = Null <=> Used(slot))
            /\ row.ticket_hash # Null =>
                 /\ row.state = "CONSUMED"
                 /\ [slot |-> slot, ticket |-> row.ticket_hash] \in redemptions

\* Single use: a slot is redeemed at most once, even when its key is
\* published again after it expired (a new slot has a new revoke token).
OneRedemption ==
    \A r1, r2 \in redemptions : r1.slot = r2.slot => r1 = r2

\* One handshake per redemption: at most one message is ever admitted through
\* a slot, and only for the ticket its redemption issued.
OneHandshake ==
    /\ \A h1, h2 \in handshakes : h1.slot = h2.slot => h1 = h2
    /\ \A h \in handshakes : [slot |-> h.slot, ticket |-> h.ticket] \in redemptions

----------------------------------------------------------------------------
(* Action properties.                                                      *)

\* While a lease runs, no other pull returns or deletes the message: until
\* its deadline has passed on the wall clock the row is left alone by
\* everything but an ack of it and the retention sweep.
LeaseHeld ==
    [][\A s \in DOMAIN messages :
          (messages[s].leased_until # Null /\ clock < messages[s].leased_until)
            => \/ s \in DOMAIN messages' /\ messages'[s] = messages[s]
               \/ messages[s].enqueued_at + RetentionTtl <= clock
               \/ \E ids \in SUBSET MsgIds, now \in Readings :
                    /\ messages[s].msg_id \in ids
                    /\ Ack(messages[s].route_key, ids, now)]_storeVars

\* A revoked slot is dead: no redemption and no push through it succeeds
\* afterwards, even for a ticket that was issued before the revocation.
RevokedIsDead ==
    [][/\ \A r \in redemptions' \ redemptions : r.slot \notin revocations
       /\ \A h \in handshakes' \ handshakes : h.slot \notin revocations]_storeVars

\* A slot row leaves only when its own expiry has passed: a full table rejects
\* and never evicts, and no second create takes over a live slot.
SlotNeverEvicted ==
    [][\A key \in DOMAIN invites :
          \/ invites[key].expiry <= clock
          \/ /\ key \in DOMAIN invites'
             /\ invites'[key].revoke_hash = invites[key].revoke_hash]_storeVars

----------------------------------------------------------------------------
(* What the store promises, and how its state shows it.                    *)

Leases == [s \in {t \in DOMAIN messages : messages[t].leased_until # Null} |->
             messages[s].leased_until]

Due == {s \in DOMAIN accepted : accepted[s].enqueued_at + RetentionTtl <= clock}

Promised == INSTANCE Mailboxes WITH
    last <- nextSeq - 1,
    queue <- [s \in DOMAIN messages |-> messages[s].route_key],
    seen <- delivered, lease <- Leases, due <- Due, time <- clock

\* The store implements mailboxes: whatever the order of pushes, pulls of both
\* kinds, acks and sweeps, with whatever readings of the clock, every mailbox
\* is a queue that returns its oldest unseen messages first, leases nothing
\* anew while its lease runs, and loses nothing but what was returned and taken
\* or settled, or is due.
MailboxesPromised == Promised!Spec

\* How far the row of a slot has come.
Phase(row) ==
    CASE row.state = "ACTIVE" -> "open"
      [] row.state = "REVOKED" -> "revoked"
      [] row.state = "CONSUMED" /\ row.ticket_hash # Null -> "redeemed"
      [] row.state = "CONSUMED" /\ row.ticket_hash = Null -> "used"

\* A slot is told by its revoke token.  One without a row is gone, unless the
\* token has not been used yet or was used for a ticket.
Life == [h \in Hashes(Tokens) |->
    IF \E key \in DOMAIN invites : invites[key].revoke_hash = h
      THEN Phase(invites[CHOOSE key \in DOMAIN invites : invites[key].revoke_hash = h])
    ELSE IF h \in Hashes(minted) /\ \A r \in redemptions : r.ticket # h
      THEN "gone"
    ELSE "unborn"]

SlotsDue == {invites[key].revoke_hash : key \in {k \in DOMAIN invites : invites[k].expiry <= clock}}

PromisedSlots == INSTANCE InviteSlots WITH
    Slots <- Hashes(Tokens), Tickets <- Hashes(Tokens),
    life <- Life, redeemed <- redemptions, admitted <- handshakes, due <- SlotsDue

\* The store implements invite slots: every slot goes from open to redeemed to
\* used, once, or to revoked, and leaves only when it is due, whatever pushes,
\* redemptions, revocations and creates of the same key come in between.
SlotsPromised == PromisedSlots!Spec

----------------------------------------------------------------------------
(* Liveness.                                                               *)

\* A message past its retention time, and a slot past its expiry, is
\* eventually deleted even on a relay no client talks to.
ExpiredAreSwept ==
    /\ \A s \in 1..MaxSeq :
          (s \in DOMAIN messages /\ messages[s].enqueued_at + RetentionTtl <= clock)
             ~> (s \notin DOMAIN messages)
    /\ \A key \in InviteKeys, token \in Tokens :
          (/\ key \in DOMAIN invites
           /\ invites[key].revoke_hash = Sha256(token)
           /\ invites[key].expiry <= clock)
             ~> ~(/\ key \in DOMAIN invites
                  /\ invites[key].revoke_hash = Sha256(token))
=============================================================================
