---------------------------- MODULE StoreProofs ----------------------------
(***************************************************************************)
(* Proofs about the store, for every value of the constants: any number of *)
(* keys, messages, slots and tokens, any limits, any clock.                *)
(***************************************************************************)
EXTENDS Store, FiniteSetTheorems, TLAPS

----------------------------------------------------------------------------
(* What a sweep and a pull select.                                         *)

\* A sweep only removes rows.
LEMMA SweepShrinks ==
    ASSUME NEW now
    PROVE  /\ SweptSeqs(now) \subseteq DOMAIN messages
           /\ SweptRoutes(now) \subseteq routes
           /\ LiveSlots(now) \subseteq DOMAIN invites
BY DEF SweptSeqs, SweptRoutes, LiveSlots

\* A pull returns rows of its route that survived its sweep.
LEMMA BatchOnRoute ==
    ASSUME NEW key, NEW max, NEW now
    PROVE  /\ Batch(key, max, now) \subseteq SweptSeqs(now)
           /\ \A s \in Batch(key, max, now) : messages[s].route_key = key
BY DEF Batch, Visible

----------------------------------------------------------------------------
(* Type correctness.                                                       *)

LEMMA TypeInit == Init => TypeOK
BY SetAssumption, LimitAssumption DEF Init, TypeOK, Message, Slot

LEMMA TypeSweep ==
    ASSUME TypeOK, NEW now \in Readings, SweepExpired(now),
           UNCHANGED <<nextSeq, clock, history>>
    PROVE  TypeOK'
BY SweepShrinks DEF TypeOK, SweepExpired, SweptMessages, SweptInvites, Rows, history

LEMMA TypeEnqueue ==
    ASSUME TypeOK, NEW key \in Keys, NEW id \in MsgIds, NEW bytes \in Sizes,
           NEW now \in Readings, NEW ticket, Enqueue(key, id, bytes, now, ticket)
    PROVE  TypeOK'
<1>1. now \in Nat
  BY LimitAssumption DEF TypeOK, Readings
<1>2. /\ nextSeq' = nextSeq + 1
      /\ DOMAIN messages' = DOMAIN messages \cup {nextSeq}
      /\ DOMAIN messages' \subseteq 1..(nextSeq' - 1)
  BY DEF Enqueue, InsertMessage, TypeOK
<1>3. messages' \in [DOMAIN messages' -> Message]
  BY <1>1, <1>2 DEF Enqueue, InsertMessage, TypeOK, Message
<1>4. /\ DOMAIN invites' \subseteq InviteKeys
      /\ invites' \in [DOMAIN invites' -> Slot]
  <2>1. \A r \in Slot : [r EXCEPT !.ticket_hash = Null] \in Slot
    BY DEF Slot
  <2> QED
    BY <2>1 DEF Enqueue, BurnTicket, TypeOK
<1>5. accepted' \in [1..(nextSeq' - 1) -> [route_key : Keys, enqueued_at : Nat]]
  BY <1>1, <1>2 DEF Enqueue, RecordAccepted, TypeOK
<1>6. \A k \in DOMAIN invites \cap {key} :
        /\ invites[k].revoke_hash \in Hashes(Tokens)
        /\ invites[k].ticket_hash \in Hashes(Tokens) \cup {Null}
  BY DEF TypeOK, Slot
<1> QED
  BY <1>1, <1>2, <1>3, <1>4, <1>5, <1>6 DEF Enqueue, RecordAccepted, TypeOK

LEMMA TypePullLegacy ==
    ASSUME TypeOK, NEW key \in Keys, NEW max, NEW now \in Readings,
           PullLegacy(key, max, now)
    PROVE  TypeOK'
BY SweepShrinks, BatchOnRoute DEF TypeOK, PullLegacy, SweptInvites, Rows

LEMMA TypePullLeased ==
    ASSUME TypeOK, NEW key \in Keys, NEW max, NEW now \in Readings,
           PullLeased(key, max, now)
    PROVE  TypeOK'
<1>1. now + PullLease \in Nat
  BY LimitAssumption DEF TypeOK, Readings
<1>2. \A m \in Message :
        [m EXCEPT !.leased_until = now + PullLease] \in Message
  BY <1>1 DEF Message
<1>3. messages' \in [DOMAIN messages' -> Message]
  BY <1>2, SweepShrinks DEF TypeOK, PullLeased
<1> QED
  BY <1>3, SweepShrinks, BatchOnRoute DEF TypeOK, PullLeased, SweptInvites, Rows

LEMMA TypeAck ==
    ASSUME TypeOK, NEW key, NEW ids, NEW now \in Readings, Ack(key, ids, now)
    PROVE  TypeOK'
BY SweepShrinks DEF TypeOK, Ack, SweptInvites, Rows, history

LEMMA TypeInviteCreate ==
    ASSUME TypeOK, NEW key \in InviteKeys, NEW cap \in Caps, NEW token \in Tokens,
           NEW now \in Readings, NEW expiry \in (now + 1)..(now + MaxExpiry),
           InviteCreate(key, cap, token, expiry, now)
    PROVE  TypeOK'
<1>1. expiry \in Nat
  <2>1. now \in Nat /\ MaxExpiry \in Nat
    BY LimitAssumption DEF TypeOK, Readings
  <2> QED
    BY <2>1
<1>2. /\ Sha256(cap) \in Hashes(Caps)
      /\ Sha256(token) \in Hashes(Tokens)
  BY DEF Hashes
<1>3. /\ DOMAIN invites' \subseteq InviteKeys
      /\ invites' \in [DOMAIN invites' -> Slot]
  BY <1>1, <1>2, SweepShrinks DEF TypeOK, InviteCreate, Slot
<1> QED
  BY <1>3, SweepShrinks DEF TypeOK, InviteCreate, SweptMessages, Rows

LEMMA TypeInviteRedeem ==
    ASSUME TypeOK, NEW key \in InviteKeys, NEW now, NEW ticket \in Tokens, NEW cap,
           InviteRedeem(key, now, ticket, cap)
    PROVE  TypeOK'
<1>1. Sha256(ticket) \in Hashes(Tokens)
  BY DEF Hashes
<1>2. key \in DOMAIN invites
  BY DEF InviteRedeem, InviteRedeemOutcome
<1>3. /\ DOMAIN invites' = DOMAIN invites
      /\ invites' \in [DOMAIN invites' -> Slot]
  <2>1. \A r \in Slot : [r EXCEPT !.state = "CONSUMED",
                                  !.ticket_hash = Sha256(ticket),
                                  !.blobs = "cleared"] \in Slot
    BY <1>1 DEF Slot
  <2> QED
    BY <2>1, <1>2 DEF TypeOK, InviteRedeem
<1>4. invites[key].revoke_hash \in Hashes(Tokens)
  BY <1>2 DEF TypeOK, Slot
<1> QED
  BY <1>1, <1>3, <1>4 DEF TypeOK, InviteRedeem

LEMMA TypeInviteRevoke ==
    ASSUME TypeOK, NEW key, NEW token, InviteRevoke(key, token)
    PROVE  TypeOK'
<1>1. key \in DOMAIN invites
  BY DEF InviteRevoke, InviteRevokeOutcome
<1>2. /\ DOMAIN invites' = DOMAIN invites
      /\ invites' \in [DOMAIN invites' -> Slot]
  <2>1. \A r \in Slot : [r EXCEPT !.state = "REVOKED",
                                  !.ticket_hash = Null,
                                  !.blobs = "cleared"] \in Slot
    BY DEF Slot
  <2> QED
    BY <2>1, <1>1 DEF TypeOK, InviteRevoke
<1>3. invites[key].revoke_hash \in Hashes(Tokens)
  BY <1>1 DEF TypeOK, Slot
<1> QED
  BY <1>2, <1>3 DEF TypeOK, InviteRevoke

LEMMA TypeNext == TypeOK /\ [Next]_storeVars => TypeOK'
<1> SUFFICES ASSUME TypeOK, [Next]_storeVars PROVE TypeOK'
  OBVIOUS
<1>1. CASE DoEnqueue
  BY <1>1, TypeEnqueue DEF DoEnqueue
<1>2. CASE DoPull
  BY <1>2, TypePullLegacy, TypePullLeased DEF DoPull
<1>3. CASE DoAck
  BY <1>3, TypeAck DEF DoAck
<1>4. CASE DoSweep
  BY <1>4, TypeSweep DEF DoSweep, RetentionSweep, RouteStatus
<1>5. CASE DoInviteCreate
  BY <1>5, TypeInviteCreate DEF DoInviteCreate
<1>6. CASE DoInviteRedeem
  BY <1>6, TypeInviteRedeem DEF DoInviteRedeem
<1>7. CASE DoInviteRevoke
  BY <1>7, TypeInviteRevoke DEF DoInviteRevoke
<1>8. CASE Tick
  <2>1. clock' \in 0..MaxClock
    BY <1>8, LimitAssumption DEF Tick, TypeOK
  <2>2. UNCHANGED <<routes, messages, invites, nextSeq, accepted, delivered,
                    minted, redemptions, revocations, handshakes>>
    BY <1>8 DEF Tick, tables, history
  <2> QED
    BY <2>1, <2>2 DEF TypeOK
<1>9. CASE UNCHANGED storeVars
  BY <1>9 DEF storeVars, TypeOK
<1> QED
  BY <1>1, <1>2, <1>3, <1>4, <1>5, <1>6, <1>7, <1>8, <1>9 DEF Next

\* The store is always well typed, and no seq is ever used twice.
THEOREM TypeCorrect == Spec => []TypeOK
BY TypeInit, TypeNext, PTL DEF Spec

----------------------------------------------------------------------------
(* The mailbox.  The inductive invariant adds to the properties that the   *)
(* tables are finite and that the row of a queued message agrees with the  *)
(* history: it is the message that was accepted, and it carries a lease    *)
(* exactly when some pull has returned it.                                 *)

StoredAsAccepted ==
    \A s \in DOMAIN messages :
        /\ messages[s].route_key = accepted[s].route_key
        /\ messages[s].enqueued_at = accepted[s].enqueued_at
        /\ messages[s].leased_until = Null <=> s \notin delivered

FiniteTables ==
    /\ IsFiniteSet(DOMAIN messages)
    /\ IsFiniteSet(routes)
    /\ IsFiniteSet(DOMAIN invites)

MailboxInv ==
    /\ TypeOK
    /\ FiniteTables
    /\ RoutesExactlyLive
    /\ ResourceBounds
    /\ StoredAsAccepted
    /\ NoLoss
    /\ FirstDeliveryInOrder

\* The routes a sweep leaves are those of the messages it leaves.
LEMMA SweptRoutesLive ==
    ASSUME RoutesExactlyLive, NEW now
    PROVE  SweptRoutes(now) = {messages[s].route_key : s \in SweptSeqs(now)}
BY DEF RoutesExactlyLive, SweptRoutes, RemovedRoutes, SweptSeqs

\* A sweep takes only messages whose retention time has passed.
LEMMA SweptWasDue ==
    ASSUME TypeOK, NEW now \in Readings, NEW s \in DOMAIN messages \ SweptSeqs(now)
    PROVE  messages[s].enqueued_at + RetentionTtl <= clock
<1>1. /\ messages[s].enqueued_at \in Nat
      /\ now \in Nat
      /\ now <= clock
      /\ clock \in Nat
  BY LimitAssumption DEF TypeOK, Message, Readings
<1>2. messages[s].enqueued_at <= now - RetentionTtl
  BY DEF SweptSeqs, Expired
<1> QED
  BY <1>1, <1>2, LimitAssumption

\* Adding one row to a table below its limit keeps it within the limit.
LEMMA AddWithinLimit ==
    ASSUME NEW S, IsFiniteSet(S), NEW x, NEW n \in Nat,
           Cardinality(S) <= n, x \notin S => Cardinality(S) < n
    PROVE  IsFiniteSet(S \cup {x}) /\ Cardinality(S \cup {x}) <= n
<1>1. Cardinality(S) \in Nat
  BY FS_CardinalityType
<1>2. /\ IsFiniteSet(S \cup {x})
      /\ Cardinality(S \cup {x}) = IF x \in S THEN Cardinality(S) ELSE Cardinality(S) + 1
  BY FS_AddElement
<1>3. Cardinality(S \cup {x}) <= n
  BY <1>1, <1>2
<1> QED
  BY <1>2, <1>3

\* Sub-tables of tables within the limits are within the limits.
LEMMA LimitsShrink ==
    ASSUME FiniteTables, ResourceBounds, TypeOK,
           DOMAIN messages' \subseteq DOMAIN messages,
           \A s \in DOMAIN messages' : messages'[s].route_key = messages[s].route_key,
           routes' \subseteq routes,
           IsFiniteSet(DOMAIN invites'),
           Cardinality(DOMAIN invites') <= MaxSlots
    PROVE  FiniteTables' /\ ResourceBounds'
<1>1. FiniteTables'
  BY FS_Subset DEF FiniteTables
<1>2. Cardinality(routes') <= MaxRouteCount
  BY FS_Subset, FS_CardinalityType, LimitAssumption DEF FiniteTables, ResourceBounds
<1>3. ASSUME NEW key \in Keys PROVE Depth(key)' <= MaxQueueDepth
  <2>1. OnRoute(key)' \subseteq OnRoute(key)
    BY DEF OnRoute
  <2>2. IsFiniteSet(OnRoute(key))
    BY FS_Subset DEF OnRoute, FiniteTables
  <2>3. Cardinality(OnRoute(key)) <= MaxQueueDepth
    BY DEF ResourceBounds, Depth
  <2> QED
    BY <2>1, <2>2, <2>3, FS_Subset, FS_CardinalityType, LimitAssumption DEF Depth
<1> QED
  BY <1>1, <1>2, <1>3 DEF ResourceBounds

\* A transaction that only deletes messages keeps the invariant when what it
\* deletes was due or is delivered by it, and what it delivers precedes all
\* that is left undelivered.
LEMMA DeletionPreserves ==
    ASSUME MailboxInv, TypeOK', NEW left, left \subseteq DOMAIN messages,
           messages' = Rows(messages, left),
           routes' = {messages[s].route_key : s \in left},
           IsFiniteSet(DOMAIN invites'),
           Cardinality(DOMAIN invites') <= MaxSlots,
           accepted' = accepted, clock' = clock,
           delivered \subseteq delivered',
           \A s \in DOMAIN messages \ left :
              \/ s \in delivered'
              \/ messages[s].enqueued_at + RetentionTtl <= clock,
           \A t \in delivered' \ delivered :
              /\ t \in DOMAIN messages \ left
              /\ \A s \in left : (s \notin delivered /\
                     messages[s].route_key = messages[t].route_key) => t < s
    PROVE  MailboxInv'
<1> USE DEF MailboxInv
<1>1. /\ DOMAIN messages' = left
      /\ \A s \in left : messages'[s] = messages[s]
  BY DEF Rows
<1>2. RoutesExactlyLive'
  BY <1>1 DEF RoutesExactlyLive
<1>3. routes' \subseteq routes
  BY DEF RoutesExactlyLive
<1>4. FiniteTables' /\ ResourceBounds'
  BY <1>1, <1>3, LimitsShrink
<1>5. StoredAsAccepted'
  BY <1>1 DEF StoredAsAccepted
<1>6. NoLoss'
  BY <1>1 DEF NoLoss
<1>7. FirstDeliveryInOrder'
  BY <1>1 DEF FirstDeliveryInOrder, StoredAsAccepted
<1> QED
  BY <1>2, <1>4, <1>5, <1>6, <1>7

LEMMA MailboxInit == Init => MailboxInv
<1> SUFFICES ASSUME Init PROVE MailboxInv
  OBVIOUS
<1>1. TypeOK
  BY TypeInit
<1>2. /\ DOMAIN messages = {}
      /\ DOMAIN invites = {}
      /\ DOMAIN accepted = {}
      /\ routes = {}
  BY DEF Init
<1>3. FiniteTables
  BY <1>2, FS_EmptySet DEF FiniteTables
<1>4. ASSUME NEW key \in Keys PROVE Depth(key) <= MaxQueueDepth
  <2>1. OnRoute(key) = {}
    BY <1>2 DEF OnRoute
  <2> QED
    BY <2>1, FS_EmptySet, LimitAssumption DEF Depth
<1>5. ResourceBounds
  BY <1>2, <1>4, FS_EmptySet, LimitAssumption DEF ResourceBounds
<1> QED
  BY <1>1, <1>2, <1>3, <1>5
     DEF MailboxInv, RoutesExactlyLive, StoredAsAccepted, NoLoss, FirstDeliveryInOrder

\* The slots that survive a sweep are within the limit.
LEMMA LiveSlotsBounded ==
    ASSUME MailboxInv, NEW now
    PROVE  /\ IsFiniteSet(LiveSlots(now))
           /\ Cardinality(LiveSlots(now)) <= MaxSlots
<1>1. /\ IsFiniteSet(DOMAIN invites)
      /\ Cardinality(DOMAIN invites) <= MaxSlots
  BY DEF MailboxInv, FiniteTables, ResourceBounds
<1> QED
  BY <1>1, SweepShrinks, FS_Subset, FS_CardinalityType, LimitAssumption

LEMMA MailboxSweep ==
    ASSUME MailboxInv, NEW now \in Readings, SweepExpired(now),
           UNCHANGED <<nextSeq, clock, history>>
    PROVE  MailboxInv'
<1>1. TypeOK'
  BY TypeSweep DEF MailboxInv
<1>2. /\ messages' = Rows(messages, SweptSeqs(now))
      /\ routes' = {messages[s].route_key : s \in SweptSeqs(now)}
      /\ DOMAIN invites' = LiveSlots(now)
  BY SweptRoutesLive DEF MailboxInv, SweepExpired, SweptMessages, SweptInvites, Rows
<1>3. UNCHANGED <<accepted, delivered>>
  BY DEF history
<1>4. \A s \in DOMAIN messages \ SweptSeqs(now) :
         messages[s].enqueued_at + RetentionTtl <= clock
  BY SweptWasDue DEF MailboxInv
<1> QED
  BY <1>1, <1>2, <1>3, <1>4, SweepShrinks, LiveSlotsBounded, DeletionPreserves

\* What a pull leaves undelivered on its route follows all it returns: the
\* batch is a prefix of the visible rows, and an undelivered row is visible.
LEMMA BatchIsPrefix ==
    ASSUME MailboxInv, NEW key, NEW max, NEW now \in Readings,
           NEW t \in Batch(key, max, now),
           NEW s \in SweptSeqs(now) \ Batch(key, max, now),
           s \notin delivered, messages[s].route_key = key
    PROVE  t < s
<1>1. s \in Visible(key, now)
  BY SweepShrinks DEF MailboxInv, StoredAsAccepted, Visible
<1>2. /\ s \in Nat
      /\ t \in Nat
  BY SweepShrinks, BatchOnRoute DEF MailboxInv, TypeOK
<1>3. ASSUME s <= t PROVE FALSE
  <2>1. \A u \in Visible(key, now) : u <= t => Fits(Visible(key, now), max, u)
    BY DEF Batch
  <2>2. \A u \in Visible(key, now) : u \in Nat
    BY SweepShrinks DEF MailboxInv, TypeOK, Visible
  <2>3. \A u \in Visible(key, now) : u <= s => Fits(Visible(key, now), max, u)
    BY <1>2, <1>3, <2>1, <2>2
  <2> QED
    BY <1>1, <2>3 DEF Batch
<1> QED
  BY <1>2, <1>3

LEMMA MailboxPullLegacy ==
    ASSUME MailboxInv, NEW key \in Keys, NEW max, NEW now \in Readings,
           PullLegacy(key, max, now)
    PROVE  MailboxInv'
<1> DEFINE batch == Batch(key, max, now)
           left == SweptSeqs(now) \ batch
<1>1. TypeOK'
  BY TypePullLegacy DEF MailboxInv
<1>2. /\ messages' = Rows(messages, left)
      /\ DOMAIN invites' = LiveSlots(now)
      /\ delivered' = delivered \cup batch
      /\ UNCHANGED <<accepted, clock>>
  BY DEF PullLegacy, SweptInvites, Rows
<1>3. routes' = {messages[s].route_key : s \in left}
  <2>1. routes' = {k \in SweptRoutes(now) :
                     k # key \/ \E s \in left : messages[s].route_key = key}
    BY DEF PullLegacy
  <2>2. SweptRoutes(now) = {messages[s].route_key : s \in SweptSeqs(now)}
    BY SweptRoutesLive DEF MailboxInv
  <2>3. \A s \in batch : messages[s].route_key = key
    BY BatchOnRoute
  <2> QED
    BY <2>1, <2>2, <2>3
<1>4. left \subseteq DOMAIN messages
  BY SweepShrinks
<1>5. \A s \in DOMAIN messages \ left :
         \/ s \in delivered'
         \/ messages[s].enqueued_at + RetentionTtl <= clock
  BY <1>2, SweptWasDue DEF MailboxInv
<1>6. \A t \in delivered' \ delivered :
         /\ t \in DOMAIN messages \ left
         /\ \A s \in left :
              (s \notin delivered /\ messages[s].route_key = messages[t].route_key)
                 => t < s
  BY <1>2, SweepShrinks, BatchOnRoute, BatchIsPrefix
<1> QED
  BY <1>1, <1>2, <1>3, <1>4, <1>5, <1>6, LiveSlotsBounded, DeletionPreserves

LEMMA MailboxPullLeased ==
    ASSUME MailboxInv, NEW key \in Keys, NEW max, NEW now \in Readings,
           PullLeased(key, max, now)
    PROVE  MailboxInv'
<1> DEFINE batch == Batch(key, max, now)
<1> USE DEF MailboxInv
<1>1. TypeOK'
  BY TypePullLeased
<1>2. /\ DOMAIN messages' = SweptSeqs(now)
      /\ DOMAIN invites' = LiveSlots(now)
      /\ routes' = SweptRoutes(now)
      /\ delivered' = delivered \cup batch
      /\ UNCHANGED <<accepted, clock>>
  BY DEF PullLeased, SweptInvites, Rows
<1>3. \A s \in SweptSeqs(now) :
         /\ messages'[s].route_key = messages[s].route_key
         /\ messages'[s].enqueued_at = messages[s].enqueued_at
         /\ messages'[s].leased_until = IF s \in batch THEN now + PullLease
                                        ELSE messages[s].leased_until
  <2>1. \A m \in Message :
          LET n == [m EXCEPT !.leased_until = now + PullLease]
          IN  /\ n.route_key = m.route_key
              /\ n.enqueued_at = m.enqueued_at
              /\ n.leased_until = now + PullLease
    BY DEF Message
  <2>2. \A s \in SweptSeqs(now) : messages[s] \in Message
    BY SweepShrinks DEF TypeOK
  <2>3. \A s \in SweptSeqs(now) :
          messages'[s] = IF s \in batch
                           THEN [messages[s] EXCEPT !.leased_until = now + PullLease]
                           ELSE messages[s]
    BY DEF PullLeased
  <2> QED
    BY <2>1, <2>2, <2>3
<1>4. now + PullLease # Null
  BY SetAssumption, LimitAssumption DEF TypeOK, Readings
<1>5. batch \subseteq SweptSeqs(now) /\ SweptSeqs(now) \subseteq DOMAIN messages
  BY SweepShrinks, BatchOnRoute
<1>6. RoutesExactlyLive'
  BY <1>2, <1>3, SweptRoutesLive DEF RoutesExactlyLive
<1>7. FiniteTables' /\ ResourceBounds'
  BY <1>2, <1>3, <1>5, SweepShrinks, LiveSlotsBounded, LimitsShrink
<1>8. StoredAsAccepted'
  BY <1>2, <1>3, <1>4, <1>5 DEF StoredAsAccepted
<1>9. NoLoss'
  <2>1. \A s \in DOMAIN messages \ SweptSeqs(now) :
           messages[s].enqueued_at + RetentionTtl <= clock
    BY SweptWasDue
  <2> QED
    BY <1>2, <1>3, <2>1 DEF NoLoss
<1>10. FirstDeliveryInOrder'
  <2>1. ASSUME NEW s \in SweptSeqs(now), NEW t \in batch, s \notin delivered',
               accepted[t].route_key = messages[s].route_key
        PROVE  t < s
    BY <1>2, <1>5, <2>1, BatchOnRoute, BatchIsPrefix DEF StoredAsAccepted
  <2> QED
    BY <1>2, <1>3, <1>5, <2>1 DEF FirstDeliveryInOrder
<1> QED
  BY <1>1, <1>6, <1>7, <1>8, <1>9, <1>10

LEMMA MailboxAck ==
    ASSUME MailboxInv, NEW key \in Keys, NEW ids, NEW now \in Readings,
           Ack(key, ids, now)
    PROVE  MailboxInv'
<1> DEFINE acked == Acked(key, ids, now)
           left == SweptSeqs(now) \ acked
<1>1. TypeOK'
  BY TypeAck DEF MailboxInv
<1>2. /\ messages' = Rows(messages, left)
      /\ DOMAIN invites' = LiveSlots(now)
      /\ UNCHANGED <<accepted, delivered, clock>>
  BY DEF Ack, SweptInvites, Rows, history
<1>3. routes' = {messages[s].route_key : s \in left}
  <2>1. routes' = {k \in SweptRoutes(now) :
                     \/ k # key
                     \/ acked = {}
                     \/ \E s \in left : messages[s].route_key = key}
    BY DEF Ack
  <2>2. SweptRoutes(now) = {messages[s].route_key : s \in SweptSeqs(now)}
    BY SweptRoutesLive DEF MailboxInv
  <2>3. \A s \in acked : messages[s].route_key = key
    BY DEF Acked
  <2> QED
    BY <2>1, <2>2, <2>3
<1>4. left \subseteq DOMAIN messages
  BY SweepShrinks
<1>5. \A s \in DOMAIN messages \ left :
         \/ s \in delivered'
         \/ messages[s].enqueued_at + RetentionTtl <= clock
  <2>1. \A s \in acked : s \in delivered
    BY SweepShrinks DEF Acked, MailboxInv, StoredAsAccepted
  <2> QED
    BY <1>2, <2>1, SweptWasDue DEF MailboxInv
<1> QED
  BY <1>1, <1>2, <1>3, <1>4, <1>5, LiveSlotsBounded, DeletionPreserves

LEMMA MailboxEnqueue ==
    ASSUME MailboxInv, NEW key \in Keys, NEW id \in MsgIds, NEW bytes \in Sizes,
           NEW now \in Readings, NEW ticket, Enqueue(key, id, bytes, now, ticket)
    PROVE  MailboxInv'
<1> USE DEF MailboxInv
<1>1. TypeOK'
  BY TypeEnqueue
<1>2. /\ DOMAIN messages' = DOMAIN messages \cup {nextSeq}
      /\ \A s \in DOMAIN messages : s # nextSeq /\ messages'[s] = messages[s]
      /\ messages'[nextSeq].route_key = key
      /\ messages'[nextSeq].enqueued_at = now
      /\ messages'[nextSeq].leased_until = Null
  BY DEF Enqueue, InsertMessage, TypeOK
<1>3. /\ DOMAIN accepted' = DOMAIN accepted \cup {nextSeq}
      /\ \A s \in DOMAIN accepted : accepted'[s] = accepted[s]
      /\ accepted'[nextSeq] = [route_key |-> key, enqueued_at |-> now]
      /\ DOMAIN messages \subseteq DOMAIN accepted
  BY DEF Enqueue, RecordAccepted, TypeOK
<1>4. /\ routes' = routes \cup {key}
      /\ DOMAIN invites' = DOMAIN invites
      /\ UNCHANGED <<clock, delivered>>
  BY DEF Enqueue, BurnTicket
<1>5. /\ nextSeq \notin DOMAIN messages
      /\ nextSeq \notin delivered
      /\ \A t \in delivered : t < nextSeq /\ t \in DOMAIN accepted
  BY DEF TypeOK
<1>6. RoutesExactlyLive'
  BY <1>2, <1>4 DEF RoutesExactlyLive
<1>7. FiniteTables'
  BY <1>2, <1>4, FS_AddElement DEF FiniteTables
<1>8. /\ key \in routes => Depth(key) < MaxQueueDepth
      /\ key \notin routes => Cardinality(routes) < MaxRouteCount
  <2>1. /\ Depth(key) \in Nat
        /\ Cardinality(routes) \in Nat
    BY FS_Subset, FS_CardinalityType DEF Depth, OnRoute, FiniteTables
  <2>2. EnqueueOutcome(key, now, ticket) = "Accepted"
    BY DEF Enqueue
  <2>3. SlotVerdict(key, now, ticket) \in
          {"NoSlot", "Revoked", "Expired", "TicketInvalid", "Admitted"}
    BY DEF SlotVerdict
  <2> QED
    BY <2>1, <2>2, <2>3, LimitAssumption DEF EnqueueOutcome
<1>9. Cardinality(routes') <= MaxRouteCount
  <2>1. IsFiniteSet(routes) /\ Cardinality(routes) <= MaxRouteCount
    BY DEF FiniteTables, ResourceBounds
  <2>2. MaxRouteCount \in Nat
    BY LimitAssumption
  <2> QED
    BY <1>4, <1>8, <2>1, <2>2, AddWithinLimit
<1>10. ASSUME NEW k \in Keys PROVE Depth(k)' <= MaxQueueDepth
  <2>1. IsFiniteSet(OnRoute(k))
    BY FS_Subset DEF OnRoute, FiniteTables
  <2>2. CASE k # key
    <3>1. OnRoute(k)' = OnRoute(k)
      BY <1>2, <2>2 DEF OnRoute
    <3> QED
      BY <3>1 DEF ResourceBounds, Depth
  <2>3. CASE k = key
    <3>1. OnRoute(k)' = OnRoute(k) \cup {nextSeq} /\ nextSeq \notin OnRoute(k)
      BY <1>2, <1>5, <2>3 DEF OnRoute
    <3>2. Depth(k)' = Depth(k) + 1
      BY <2>1, <3>1, FS_AddElement DEF Depth
    <3>3. CASE key \in routes
      BY <1>8, <2>1, <2>3, <3>2, <3>3, FS_CardinalityType, LimitAssumption DEF Depth
    <3>4. CASE key \notin routes
      <4>1. OnRoute(k) = {}
        BY <2>3, <3>4 DEF OnRoute, RoutesExactlyLive
      <4> QED
        BY <3>2, <4>1, FS_EmptySet, LimitAssumption DEF Depth
    <3> QED
      BY <3>3, <3>4
  <2> QED
    BY <2>2, <2>3
<1>11. ResourceBounds'
  BY <1>4, <1>9, <1>10 DEF ResourceBounds
<1>12. StoredAsAccepted'
  BY <1>2, <1>3, <1>4, <1>5 DEF StoredAsAccepted
<1>13. NoLoss'
  BY <1>2, <1>3, <1>4 DEF NoLoss
<1>14. FirstDeliveryInOrder'
  BY <1>2, <1>3, <1>4, <1>5 DEF FirstDeliveryInOrder
<1> QED
  BY <1>1, <1>6, <1>7, <1>11, <1>12, <1>13, <1>14

LEMMA MailboxInviteCreate ==
    ASSUME MailboxInv, NEW key \in InviteKeys, NEW cap \in Caps, NEW token \in Tokens,
           NEW now \in Readings, NEW expiry \in (now + 1)..(now + MaxExpiry),
           InviteCreate(key, cap, token, expiry, now)
    PROVE  MailboxInv'
<1>1. TypeOK'
  BY TypeInviteCreate DEF MailboxInv
<1>2. /\ messages' = Rows(messages, SweptSeqs(now))
      /\ routes' = {messages[s].route_key : s \in SweptSeqs(now)}
      /\ DOMAIN invites' = LiveSlots(now) \cup {key}
      /\ UNCHANGED <<accepted, delivered, clock>>
  BY SweptRoutesLive DEF MailboxInv, InviteCreate, SweptMessages
<1>3. /\ key \notin LiveSlots(now)
      /\ ~(Cardinality(LiveSlots(now)) >= MaxSlots)
  BY DEF InviteCreate, InviteCreateOutcome
<1>4. /\ IsFiniteSet(DOMAIN invites')
      /\ Cardinality(DOMAIN invites') <= MaxSlots
  <2>1. /\ IsFiniteSet(LiveSlots(now))
        /\ Cardinality(LiveSlots(now)) \in Nat
        /\ MaxSlots \in Nat
    BY LiveSlotsBounded, FS_CardinalityType, LimitAssumption
  <2>2. Cardinality(LiveSlots(now)) < MaxSlots
    BY <1>3, <2>1
  <2> QED
    BY <1>2, <2>1, <2>2, LiveSlotsBounded, AddWithinLimit
<1>5. \A s \in DOMAIN messages \ SweptSeqs(now) :
         messages[s].enqueued_at + RetentionTtl <= clock
  BY SweptWasDue DEF MailboxInv
<1> QED
  BY <1>1, <1>2, <1>4, <1>5, SweepShrinks, DeletionPreserves

\* A step that leaves the mailbox alone keeps the invariant.
LEMMA MailboxUntouched ==
    ASSUME MailboxInv, TypeOK', clock' >= clock,
           DOMAIN invites' = DOMAIN invites,
           UNCHANGED <<routes, messages, accepted, delivered>>
    PROVE  MailboxInv'
<1> USE DEF MailboxInv
<1>1. FiniteTables' /\ ResourceBounds'
  BY DEF FiniteTables, ResourceBounds, Depth, OnRoute
<1>2. NoLoss'
  <2>1. /\ clock \in Nat /\ clock' \in Nat
        /\ \A s \in DOMAIN accepted : accepted[s].enqueued_at \in Nat
    BY LimitAssumption DEF TypeOK
  <2> QED
    BY <2>1, LimitAssumption DEF NoLoss
<1> QED
  BY <1>1, <1>2 DEF RoutesExactlyLive, StoredAsAccepted, FirstDeliveryInOrder

LEMMA MailboxNext == MailboxInv /\ [Next]_storeVars => MailboxInv'
<1> SUFFICES ASSUME MailboxInv, [Next]_storeVars PROVE MailboxInv'
  OBVIOUS
<1>0. /\ TypeOK'
      /\ clock \in Int
  BY TypeNext DEF MailboxInv, TypeOK
<1>1. CASE DoEnqueue
  BY <1>1, MailboxEnqueue DEF DoEnqueue
<1>2. CASE DoPull
  BY <1>2, MailboxPullLegacy, MailboxPullLeased DEF DoPull
<1>3. CASE DoAck
  BY <1>3, MailboxAck DEF DoAck
<1>4. CASE DoSweep
  BY <1>4, MailboxSweep DEF DoSweep, RetentionSweep, RouteStatus
<1>5. CASE DoInviteCreate
  BY <1>5, MailboxInviteCreate DEF DoInviteCreate
<1>6. CASE DoInviteRedeem
  BY <1>0, <1>6, MailboxUntouched DEF DoInviteRedeem, InviteRedeem
<1>7. CASE DoInviteRevoke
  BY <1>0, <1>7, MailboxUntouched DEF DoInviteRevoke, InviteRevoke
<1>8. CASE Tick
  BY <1>0, <1>8, MailboxUntouched DEF Tick, tables, history
<1>9. CASE UNCHANGED storeVars
  BY <1>0, <1>9, MailboxUntouched DEF storeVars
<1> QED
  BY <1>1, <1>2, <1>3, <1>4, <1>5, <1>6, <1>7, <1>8, <1>9 DEF Next

\* The inductive invariant holds in every reachable state.
THEOREM MailboxInvariant == Spec => []MailboxInv
BY MailboxInit, MailboxNext, PTL DEF Spec

\* No route capacity leaks: route rows are exactly the routes with messages.
THEOREM RoutesReleased == Spec => []RoutesExactlyLive
BY MailboxInvariant, PTL DEF MailboxInv

\* Queue depth, route count and slot count never exceed their limits.
THEOREM LimitsHold == Spec => []ResourceBounds
BY MailboxInvariant, PTL DEF MailboxInv

\* No accepted message is lost before its retention time.
THEOREM NothingLost == Spec => []NoLoss
BY MailboxInvariant, PTL DEF MailboxInv

\* Messages of a route are first delivered in the order they were enqueued.
THEOREM InOrder == Spec => []FirstDeliveryInOrder
BY MailboxInvariant, PTL DEF MailboxInv
----------------------------------------------------------------------------
(* Leases.                                                                 *)

\* No pull, whatever its reading of the clock, selects a message whose lease
\* still runs.
LEMMA LeasedNotInBatch ==
    ASSUME TypeOK, NEW key, NEW max, NEW now \in Readings, NEW s \in DOMAIN messages,
           messages[s].leased_until # Null, clock < messages[s].leased_until
    PROVE  s \notin Batch(key, max, now)
<1>1. /\ messages[s].leased_until \in Nat
      /\ now \in Nat
      /\ clock \in Nat
      /\ now <= clock
  BY LimitAssumption DEF TypeOK, Message, Readings
<1> QED
  BY <1>1 DEF Batch, Visible

\* What a step does to a message whose lease still runs.
LEMMA LeaseHeldStep ==
    ASSUME TypeOK, Next, NEW s \in DOMAIN messages,
           messages[s].leased_until # Null, clock < messages[s].leased_until
    PROVE  \/ s \in DOMAIN messages' /\ messages'[s] = messages[s]
           \/ messages[s].enqueued_at + RetentionTtl <= clock
           \/ \E ids \in SUBSET MsgIds, now \in Readings :
                 /\ messages[s].msg_id \in ids
                 /\ Ack(messages[s].route_key, ids, now)
<1>1. \A now \in Readings : s \notin SweptSeqs(now) =>
         messages[s].enqueued_at + RetentionTtl <= clock
  BY SweptWasDue
<1>2. CASE DoEnqueue
  BY <1>2 DEF DoEnqueue, Enqueue, InsertMessage, TypeOK
<1>3. CASE DoPull
  <2>1. PICK key \in Keys, max \in 1..MaxQueueDepth, now \in Readings :
           PullLegacy(key, max, now) \/ PullLeased(key, max, now)
    BY <1>3 DEF DoPull
  <2>2. s \notin Batch(key, max, now)
    BY LeasedNotInBatch
  <2> QED
    BY <1>1, <2>1, <2>2 DEF PullLegacy, PullLeased, Rows
<1>4. CASE DoAck
  <2>1. PICK key \in Keys, ids \in (SUBSET MsgIds) \ {{}}, now \in Readings :
           Ack(key, ids, now)
    BY <1>4 DEF DoAck
  <2>2. CASE s \in Acked(key, ids, now)
    BY <2>1, <2>2 DEF Acked
  <2>3. CASE s \notin Acked(key, ids, now)
    BY <1>1, <2>1, <2>3 DEF Ack, Rows
  <2> QED
    BY <2>2, <2>3
<1>5. CASE DoSweep
  BY <1>1, <1>5 DEF DoSweep, RetentionSweep, RouteStatus, SweepExpired, SweptMessages, Rows
<1>6. CASE DoInviteCreate
  BY <1>1, <1>6 DEF DoInviteCreate, InviteCreate, SweptMessages, Rows
<1>7. CASE DoInviteRedeem \/ DoInviteRevoke \/ Tick
  BY <1>7 DEF DoInviteRedeem, InviteRedeem, DoInviteRevoke, InviteRevoke, Tick, tables
<1> QED
  BY <1>2, <1>3, <1>4, <1>5, <1>6, <1>7 DEF Next

\* While a lease runs only an ack or the retention sweep touches the message.
THEOREM LeasesHold == Spec => LeaseHeld
<1>1. TypeOK /\ [Next]_storeVars =>
        [\A s \in DOMAIN messages :
          (messages[s].leased_until # Null /\ clock < messages[s].leased_until)
            => \/ s \in DOMAIN messages' /\ messages'[s] = messages[s]
               \/ messages[s].enqueued_at + RetentionTtl <= clock
               \/ \E ids \in SUBSET MsgIds, now \in Readings :
                    /\ messages[s].msg_id \in ids
                    /\ Ack(messages[s].route_key, ids, now)]_storeVars
  BY LeaseHeldStep
<1> QED
  BY <1>1, TypeCorrect, PTL DEF Spec, LeaseHeld
----------------------------------------------------------------------------
(* The store implements mailboxes.  A step picks its batch and its expired *)
(* messages as constants before it names the step of Mailboxes they make.  *)

\* The numbers queued, as the abstract queue has them.
Boxes == [s \in DOMAIN messages |-> messages[s].route_key]

\* Rows that leave, while the others stay where they are, leave the queue.
LEMMA QueueWithout ==
    ASSUME NEW G, DOMAIN messages' = DOMAIN messages \ G,
           \A s \in DOMAIN messages' : messages'[s].route_key = messages[s].route_key
    PROVE  Boxes' = [n \in DOMAIN Boxes \ G |-> Boxes[n]]
<1>1. DOMAIN Boxes = DOMAIN messages /\ \A s \in DOMAIN messages : Boxes[s] = messages[s].route_key
  BY DEF Boxes
<1> QED
  BY <1>1 DEF Boxes

\* Rows that leave, while the others keep their lease, take it with them.
LEMMA LeasesWithout ==
    ASSUME NEW G, DOMAIN messages' = DOMAIN messages \ G,
           \A s \in DOMAIN messages' : messages'[s].leased_until = messages[s].leased_until
    PROVE  Leases' = [n \in DOMAIN Leases \ G |-> Leases[n]]
<1>1. /\ DOMAIN Leases = {s \in DOMAIN messages : messages[s].leased_until # Null}
      /\ \A s \in DOMAIN Leases : Leases[s] = messages[s].leased_until
  BY DEF Leases
<1>2. /\ DOMAIN Leases' = {s \in DOMAIN messages' : messages'[s].leased_until # Null}
      /\ \A s \in DOMAIN Leases' : Leases'[s] = messages'[s].leased_until
      /\ Leases' = [s \in DOMAIN Leases' |-> Leases'[s]]
  BY DEF Leases
<1>3. DOMAIN Leases' = DOMAIN Leases \ G /\ \A s \in DOMAIN Leases' : Leases'[s] = Leases[s]
  BY <1>1, <1>2
<1> QED
  BY <1>2, <1>3

\* What is hidden are the rows with a lease that runs on the wall clock.
LEMMA HiddenIsLeased ==
    ASSUME NEW s \in Promised!Hidden
    PROVE  /\ s \in DOMAIN messages
           /\ messages[s].leased_until # Null /\ clock < messages[s].leased_until
BY DEF Promised!Hidden, Leases

\* What a sweep expires is due.
LEMMA ExpiredAreDue ==
    ASSUME MailboxInv, NEW now \in Readings
    PROVE  /\ Expired(now) \in SUBSET (DOMAIN Boxes \cap Due)
           /\ SweptSeqs(now) = DOMAIN messages \ Expired(now)
           /\ Expired(now) \subseteq DOMAIN messages
<1>1. SweptSeqs(now) = DOMAIN messages \ Expired(now) /\ Expired(now) \subseteq DOMAIN messages
  BY DEF SweptSeqs, Expired
<1>2. DOMAIN Boxes = DOMAIN messages
  BY DEF Boxes
<1>3. ASSUME NEW s \in Expired(now) PROVE s \in Due
  <2>1. s \in DOMAIN messages /\ s \in DOMAIN messages \ SweptSeqs(now)
    BY <1>1
  <2>2. messages[s].enqueued_at + RetentionTtl <= clock
    BY <2>1, SweptWasDue DEF MailboxInv
  <2>3. s \in DOMAIN accepted /\ messages[s].enqueued_at = accepted[s].enqueued_at
    BY <2>1 DEF MailboxInv, TypeOK, StoredAsAccepted
  <2> QED
    BY <2>2, <2>3 DEF Due
<1> QED
  BY <1>1, <1>2, <1>3

\* The messages of a mailbox.
LEMMA InIsOnRoute ==
    ASSUME NEW key
    PROVE  Promised!In(key) = OnRoute(key)
BY DEF Promised!In, OnRoute

\* A sweep, alone or in the transaction of a create.
LEMMA SweepExpires ==
    ASSUME MailboxInv, NEW now \in Readings, messages' = SweptMessages(now),
           UNCHANGED <<nextSeq, clock, accepted, delivered>>
    PROVE  Promised!Expire(Expired(now))
<1>1. DOMAIN messages' = DOMAIN messages \ Expired(now)
      /\ \A s \in DOMAIN messages' : /\ messages'[s].route_key = messages[s].route_key
                                      /\ messages'[s].leased_until = messages[s].leased_until
  BY ExpiredAreDue DEF SweptMessages, Rows
<1>2. Boxes' = [n \in DOMAIN Boxes \ Expired(now) |-> Boxes[n]]
  BY <1>1, QueueWithout
<1>3. Leases' = [n \in DOMAIN Leases \ Expired(now) |-> Leases[n]]
  BY <1>1, LeasesWithout
<1>4. Due' = Due
  BY DEF Due
<1> QED
  BY <1>2, <1>3, <1>4 DEF Promised!Expire, Promised!Leave, Promised!Without, Boxes

\* What a pull of either kind returns.
LEMMA BatchReturns ==
    ASSUME MailboxInv, NEW key \in Keys, NEW max, NEW now \in Readings,
           delivered' = delivered \cup Batch(key, max, now)
    PROVE  /\ Batch(key, max, now) \in SUBSET Promised!In(key)
           /\ Promised!Return(key, Expired(now), Batch(key, max, now))
<1> DEFINE B == Batch(key, max, now)
           E == Expired(now)
<1>1. B \subseteq OnRoute(key) \ E
  BY BatchOnRoute, ExpiredAreDue DEF OnRoute
<1>2. B \cap Promised!Hidden = {}
  BY BatchOnRoute, ExpiredAreDue, LeasedNotInBatch, HiddenIsLeased DEF MailboxInv
<1>3. ASSUME NEW m \in B, NEW n \in OnRoute(key) \ (E \cup B \cup delivered) PROVE m < n
  <2>1. n \in SweptSeqs(now) \ B /\ n \notin delivered /\ messages[n].route_key = key
    BY ExpiredAreDue DEF OnRoute
  <2> QED
    BY <2>1, BatchIsPrefix
<1> HIDE DEF B, E
<1>4. /\ B \subseteq OnRoute(key) \ (E \cup Promised!Hidden)
      /\ \A m \in B, n \in OnRoute(key) \ (E \cup B \cup delivered) : m < n
      /\ delivered' = delivered \cup B
  BY <1>1, <1>2, <1>3 DEF B
<1>5. Promised!Return(key, E, B)
  BY <1>4, InIsOnRoute DEF Promised!Return
<1> QED
  BY <1>1, <1>5, InIsOnRoute DEF B, E

\* A legacy pull takes what it returns.
LEMMA LegacyTakes ==
    ASSUME MailboxInv, NEW key \in Keys, NEW max, NEW now \in Readings,
           NEW E, E = Expired(now), NEW B, B = Batch(key, max, now),
           PullLegacy(key, max, now)
    PROVE  B \in SUBSET Promised!In(key) /\ Promised!Take(key, E, B)
<1>1. B \in SUBSET Promised!In(key) /\ Promised!Return(key, E, B)
  BY BatchReturns DEF PullLegacy
<1>2. DOMAIN messages' = DOMAIN messages \ (E \cup B)
      /\ \A s \in DOMAIN messages' : /\ messages'[s].route_key = messages[s].route_key
                                      /\ messages'[s].leased_until = messages[s].leased_until
  BY ExpiredAreDue DEF PullLegacy, Rows
<1>3. UNCHANGED <<nextSeq, clock, accepted>>
  BY DEF PullLegacy
<1>4. Boxes' = [n \in DOMAIN Boxes \ (E \cup B) |-> Boxes[n]]
  BY <1>2, QueueWithout
<1>5. Leases' = [n \in DOMAIN Leases \ (E \cup B) |-> Leases[n]]
  BY <1>2, LeasesWithout
<1>6. Due' = Due
  BY <1>3 DEF Due
<1> QED
  BY <1>1, <1>3, <1>4, <1>5, <1>6 DEF Promised!Take, Promised!Leave, Promised!Without, Boxes

\* A leasing pull leases what it returns.
LEMMA LeasedLeases ==
    ASSUME MailboxInv, NEW key \in Keys, NEW max, NEW now \in Readings,
           NEW E, E = Expired(now), NEW B, B = Batch(key, max, now),
           PullLeased(key, max, now)
    PROVE  B \in SUBSET Promised!In(key) /\ Promised!Lease(key, E, B)
<1>1. B \in SUBSET Promised!In(key) /\ Promised!Return(key, E, B)
  BY BatchReturns DEF PullLeased
<1>2. /\ DOMAIN messages' = DOMAIN messages \ E /\ B \subseteq DOMAIN messages \ E
      /\ \A s \in DOMAIN messages' :
            s \notin B => /\ messages'[s].route_key = messages[s].route_key
                          /\ messages'[s].leased_until = messages[s].leased_until
  BY ExpiredAreDue, BatchOnRoute DEF PullLeased
<1>3. /\ UNCHANGED <<nextSeq, clock, accepted>>
      /\ now + PullLease # Null
  BY LimitAssumption, SetAssumption DEF PullLeased, Readings, MailboxInv, TypeOK
<1>4. \A s \in B : /\ messages'[s].route_key = messages[s].route_key
                   /\ messages'[s].leased_until = now + PullLease
  <2>1. \A s \in B : messages[s] \in Message
    BY <1>2 DEF MailboxInv, TypeOK
  <2>2. \A s \in B : messages'[s] = [messages[s] EXCEPT !.leased_until = now + PullLease]
    BY <1>2, ExpiredAreDue DEF PullLeased
  <2> QED
    BY <2>1, <2>2 DEF Message
<1>5. Boxes' = [n \in DOMAIN Boxes \ E |-> Boxes[n]]
  <2>1. \A s \in DOMAIN messages' : messages'[s].route_key = messages[s].route_key
    BY <1>2, <1>4
  <2> QED
    BY <1>2, <2>1, QueueWithout
<1>6. /\ DOMAIN Leases' = (DOMAIN Leases \ E) \cup B
      /\ \A n \in DOMAIN Leases' \ B : Leases'[n] = Leases[n]
      /\ \A n \in B : Leases'[n] = now + PullLease
  BY <1>2, <1>3, <1>4 DEF Leases
<1>7. \A m, n \in B : Leases'[m] = Leases'[n]
  BY <1>6
<1>8. Due' = Due
  BY <1>3 DEF Due
<1> QED
  BY <1>1, <1>3, <1>5, <1>6, <1>7, <1>8 DEF Promised!Lease, Promised!Without, Boxes

\* An ack settles messages some pull has returned.
LEMMA AckSettles ==
    ASSUME MailboxInv, NEW key \in Keys, NEW ids, NEW now \in Readings,
           NEW E, E = Expired(now), NEW B, B = Acked(key, ids, now),
           Ack(key, ids, now)
    PROVE  B \in SUBSET Promised!In(key) /\ Promised!Settle(key, E, B)
<1>1. B \in SUBSET Promised!In(key)
  BY ExpiredAreDue, InIsOnRoute DEF Acked, OnRoute
<1>2. B \subseteq delivered
  BY ExpiredAreDue DEF Acked, MailboxInv, StoredAsAccepted
<1>3. DOMAIN messages' = DOMAIN messages \ (E \cup B)
      /\ \A s \in DOMAIN messages' : /\ messages'[s].route_key = messages[s].route_key
                                      /\ messages'[s].leased_until = messages[s].leased_until
  BY ExpiredAreDue DEF Ack, Rows
<1>4. UNCHANGED <<nextSeq, clock, accepted, delivered>>
  BY DEF Ack, history
<1>5. Boxes' = [n \in DOMAIN Boxes \ (E \cup B) |-> Boxes[n]]
  BY <1>3, QueueWithout
<1>6. Leases' = [n \in DOMAIN Leases \ (E \cup B) |-> Leases[n]]
  BY <1>3, LeasesWithout
<1>7. Due' = Due
  BY <1>4 DEF Due
<1> QED
  BY <1>1, <1>2, <1>4, <1>5, <1>6, <1>7
     DEF Promised!Settle, Promised!Leave, Promised!Without, Boxes

\* An accepted push posts one message.
LEMMA EnqueuePosts ==
    ASSUME MailboxInv, NEW key \in Keys, NEW id, NEW bytes, NEW now \in Readings, NEW ticket,
           Enqueue(key, id, bytes, now, ticket)
    PROVE  Promised!Post(key)
<1>1. /\ nextSeq \in Nat \ {0} /\ nextSeq' = nextSeq + 1
      /\ (nextSeq - 1) + 1 = nextSeq /\ nextSeq' - 1 = nextSeq
      /\ nextSeq \notin DOMAIN messages /\ DOMAIN accepted = 1..(nextSeq - 1)
  <2>1. /\ nextSeq \in Nat \ {0} /\ nextSeq' = nextSeq + 1
        /\ DOMAIN messages \subseteq 1..(nextSeq - 1) /\ DOMAIN accepted = 1..(nextSeq - 1)
    BY DEF MailboxInv, TypeOK, Enqueue, InsertMessage
  <2> QED
    BY <2>1
<1>2. /\ DOMAIN messages' = DOMAIN messages \cup {nextSeq}
      /\ \A s \in DOMAIN messages : messages'[s] = messages[s]
      /\ messages'[nextSeq].route_key = key /\ messages'[nextSeq].leased_until = Null
  BY <1>1 DEF Enqueue, InsertMessage
<1>3. UNCHANGED <<clock, delivered>>
  BY DEF Enqueue
<1>4. Boxes' = [n \in DOMAIN Boxes \cup {nextSeq} |-> IF n = nextSeq THEN key ELSE Boxes[n]]
  <2>1. DOMAIN Boxes = DOMAIN messages /\ \A s \in DOMAIN messages : Boxes[s] = messages[s].route_key
    BY DEF Boxes
  <2> QED
    BY <1>1, <1>2, <2>1 DEF Boxes
<1>5. Leases' = Leases
  <2>1. {t \in DOMAIN messages' : messages'[t].leased_until # Null}
          = {t \in DOMAIN messages : messages[t].leased_until # Null}
    BY <1>2
  <2> QED
    BY <1>2, <2>1 DEF Leases
<1>6. Due' \in {Due, Due \cup {nextSeq}}
  <2>1. /\ DOMAIN accepted' = 1..nextSeq
        /\ \A s \in DOMAIN accepted : accepted'[s] = accepted[s]
    BY <1>1 DEF Enqueue, RecordAccepted
  <2>2. \A s \in DOMAIN accepted : s \in Due <=> s \in Due'
    BY <1>1, <1>3, <2>1 DEF Due
  <2>3. Due \subseteq DOMAIN accepted /\ Due' \subseteq DOMAIN accepted \cup {nextSeq}
    BY <1>1, <2>1 DEF Due
  <2>4. nextSeq \notin Due
    BY <1>1 DEF Due
  <2> QED
    BY <2>2, <2>3, <2>4
<1> QED
  BY <1>1, <1>3, <1>4, <1>5, <1>6 DEF Promised!Post, Boxes

\* The clock ends leases and retention times and does nothing else.
LEMMA TickPasses ==
    ASSUME MailboxInv, Tick
    PROVE  Promised!TimePasses
<1>1. /\ clock \in Nat /\ clock' = clock + 1
      /\ UNCHANGED <<messages, nextSeq, accepted, delivered>>
      /\ DOMAIN accepted = 1..(nextSeq - 1)
  BY LimitAssumption DEF MailboxInv, TypeOK, Tick, tables, history
<1>2. Due \subseteq Due' /\ Due' \subseteq 1..(nextSeq - 1)
  <2>1. \A s \in DOMAIN accepted : accepted[s].enqueued_at \in Nat
    BY DEF MailboxInv, TypeOK
  <2> QED
    BY <1>1, <2>1, LimitAssumption DEF Due
<1>3. Leases' = Leases
  BY <1>1 DEF Leases
<1> QED
  BY <1>1, <1>2, <1>3 DEF Promised!TimePasses

\* What leaves messages, clock and their history alone is not seen in the mailboxes.
LEMMA MailboxesUnseen ==
    ASSUME UNCHANGED <<messages, nextSeq, clock, accepted, delivered>>
    PROVE  UNCHANGED Promised!mailboxVars
BY DEF Promised!mailboxVars, Leases, Due

\* Every transaction is a step of the mailboxes, or none.
LEMMA MailboxStep ==
    ASSUME MailboxInv, [Next]_storeVars
    PROVE  [Promised!Next]_(Promised!mailboxVars)
<1>1. CASE DoEnqueue
  BY <1>1, EnqueuePosts DEF DoEnqueue, Promised!Next
<1>2. CASE DoPull
  <2>1. PICK key \in Keys, max \in 1..MaxQueueDepth, now \in Readings :
           PullLegacy(key, max, now) \/ PullLeased(key, max, now)
    BY <1>2 DEF DoPull
  <2>2. PICK E, B : E = Expired(now) /\ B = Batch(key, max, now)
    OBVIOUS
  <2>3. E \in SUBSET (DOMAIN Boxes \cap Due)
    BY <2>2, ExpiredAreDue
  <2>4. /\ B \in SUBSET Promised!In(key)
        /\ Promised!Take(key, E, B) \/ Promised!Lease(key, E, B)
    BY <2>1, <2>2, LegacyTakes, LeasedLeases
  <2> QED
    BY <2>3, <2>4, Zenon DEF Promised!Next, Boxes
<1>3. CASE DoAck
  <2>1. PICK key \in Keys, ids \in (SUBSET MsgIds) \ {{}}, now \in Readings : Ack(key, ids, now)
    BY <1>3 DEF DoAck
  <2>2. PICK E, B : E = Expired(now) /\ B = Acked(key, ids, now)
    OBVIOUS
  <2>3. E \in SUBSET (DOMAIN Boxes \cap Due)
    BY <2>2, ExpiredAreDue
  <2>4. B \in SUBSET Promised!In(key) /\ Promised!Settle(key, E, B)
    BY <2>1, <2>2, AckSettles
  <2> QED
    BY <2>3, <2>4, Zenon DEF Promised!Next, Boxes
<1>4. CASE DoSweep \/ DoInviteCreate
  <2>1. PICK now \in Readings : /\ messages' = SweptMessages(now)
                                /\ UNCHANGED <<nextSeq, clock, accepted, delivered>>
    BY <1>4 DEF DoSweep, RetentionSweep, RouteStatus, SweepExpired, DoInviteCreate,
                InviteCreate, history
  <2>2. Expired(now) \in SUBSET (DOMAIN Boxes \cap Due)
    BY ExpiredAreDue
  <2>3. Promised!Expire(Expired(now))
    BY <2>1, SweepExpires
  <2> QED
    BY <2>2, <2>3 DEF Promised!Next, Promised!Expire, Promised!Leave, Promised!Without, Boxes
<1>5. CASE DoInviteRedeem \/ DoInviteRevoke \/ UNCHANGED storeVars
  <2>1. UNCHANGED <<messages, nextSeq, clock, accepted, delivered>>
    BY <1>5 DEF DoInviteRedeem, InviteRedeem, DoInviteRevoke, InviteRevoke, storeVars
  <2> QED
    BY <2>1, MailboxesUnseen
<1>6. CASE Tick
  BY <1>6, TickPasses DEF Promised!Next
<1> QED
  BY <1>1, <1>2, <1>3, <1>4, <1>5, <1>6 DEF Next

\* The store implements mailboxes: queues that return their oldest unseen
\* messages first, lease nothing anew while its lease runs, and lose only what
\* was returned and taken or settled, or is due, whatever the order of
\* transactions and however old their readings of the clock.
THEOREM MailboxesKept == Spec => MailboxesPromised
<1>1. Init => Promised!Init
  BY DEF Init, Promised!Init, Leases, Due
<1>2. MailboxInv /\ [Next]_storeVars => [Promised!Next]_(Promised!mailboxVars)
  BY MailboxStep
<1> QED
  BY <1>1, <1>2, MailboxInvariant, PTL DEF Spec, MailboxesPromised, Promised!Spec
=============================================================================
