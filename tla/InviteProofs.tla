---------------------------- MODULE InviteProofs ----------------------------
(***************************************************************************)
(* Proofs that an invite slot is single-use, for every value of the        *)
(* constants and every interleaving of creates, redemptions, revocations,  *)
(* pushes and sweeps.                                                      *)
(***************************************************************************)
EXTENDS StoreProofs

(* The inductive invariant adds that every hash in the tables and in the   *)
(* histories is that of a token already minted, so that a fresh token      *)
(* names a new slot, and that no two slots share a revoke token.           *)

SecretsMinted ==
    /\ \A k \in DOMAIN invites : invites[k].revoke_hash \in Hashes(minted)
    /\ \A r \in redemptions : r.slot \in Hashes(minted)
    /\ \A h \in handshakes : h.slot \in Hashes(minted)
    /\ revocations \subseteq Hashes(minted)

SlotsDistinct ==
    \A j, k \in DOMAIN invites : invites[j].revoke_hash = invites[k].revoke_hash => j = k

InviteInv ==
    /\ TypeOK
    /\ SecretsMinted
    /\ SlotsDistinct
    /\ SlotMatchesHistory
    /\ OneRedemption
    /\ OneHandshake

LEMMA InviteInit == Init => InviteInv
BY TypeInit DEF Init, InviteInv, SecretsMinted, SlotsDistinct, SlotMatchesHistory,
                OneRedemption, OneHandshake

\* The column value NULL matches no presented ticket.
LEMMA NullIsNoHash ==
    ASSUME TypeOK, NEW ticket \in minted
    PROVE  Sha256(ticket) # Null
BY SetAssumption DEF TypeOK, Hashes

\* A token that was not minted yet has a hash nothing in the store has.
LEMMA FreshHash ==
    ASSUME NEW token, token \notin minted
    PROVE  Sha256(token) \notin Hashes(minted)
BY DEF Sha256, Hashes

\* Minting a token keeps the hashes already there.
LEMMA HashesGrow ==
    ASSUME NEW S, NEW x
    PROVE  Hashes(S \cup {x}) = Hashes(S) \cup {Sha256(x)}
BY DEF Hashes

\* A step that only deletes slot rows keeps the invariant.
LEMMA SlotDeletion ==
    ASSUME InviteInv, TypeOK', NEW live, live \subseteq DOMAIN invites,
           invites' = Rows(invites, live),
           UNCHANGED <<minted, redemptions, revocations, handshakes>>
    PROVE  InviteInv'
<1> USE DEF InviteInv
<1>1. /\ DOMAIN invites' = live
      /\ \A k \in live : invites'[k] = invites[k]
  BY DEF Rows
<1>2. SecretsMinted' /\ SlotsDistinct'
  BY <1>1 DEF SecretsMinted, SlotsDistinct
<1>3. SlotMatchesHistory'
  BY <1>1 DEF SlotMatchesHistory, Redeemed, Used
<1> QED
  BY <1>2, <1>3 DEF OneRedemption, OneHandshake

LEMMA InviteCreatePreserves ==
    ASSUME InviteInv, TypeOK', NEW key, NEW cap, NEW token, token \notin minted,
           NEW now, NEW expiry, InviteCreate(key, cap, token, expiry, now)
    PROVE  InviteInv'
<1> USE DEF InviteInv
<1> DEFINE slot == Sha256(token)
<1>1. /\ slot \notin Hashes(minted)
      /\ Hashes(minted') = Hashes(minted) \cup {slot}
  BY FreshHash, HashesGrow DEF InviteCreate
<1>2. /\ DOMAIN invites' = LiveSlots(now) \cup {key}
      /\ \A k \in LiveSlots(now) : k # key /\ invites'[k] = invites[k]
      /\ invites'[key].revoke_hash = slot
      /\ invites'[key].state = "ACTIVE"
      /\ invites'[key].blobs = "stored"
      /\ invites'[key].ticket_hash = Null
  BY DEF InviteCreate, InviteCreateOutcome
<1>3. UNCHANGED <<redemptions, revocations, handshakes>>
  BY DEF InviteCreate
<1>4. SecretsMinted'
  BY <1>1, <1>2, <1>3, SweepShrinks DEF SecretsMinted
<1>5. SlotsDistinct'
  BY <1>1, <1>2, SweepShrinks DEF SlotsDistinct, SecretsMinted
<1>6. /\ slot \notin revocations
      /\ ~Redeemed(slot)
      /\ ~Used(slot)
  BY <1>1 DEF SecretsMinted, Redeemed, Used
<1>7. SlotMatchesHistory'
  BY <1>2, <1>3, <1>6, SweepShrinks DEF SlotMatchesHistory, Redeemed, Used
<1> QED
  BY <1>3, <1>4, <1>5, <1>7 DEF OneRedemption, OneHandshake

LEMMA InviteRedeemPreserves ==
    ASSUME InviteInv, TypeOK', NEW key, NEW now, NEW ticket \in Tokens, NEW cap,
           InviteRedeem(key, now, ticket, cap)
    PROVE  InviteInv'
<1> USE DEF InviteInv
<1> DEFINE slot == invites[key].revoke_hash
           won == [slot |-> slot, ticket |-> Sha256(ticket)]
<1>1. /\ key \in DOMAIN invites
      /\ invites[key].state = "ACTIVE"
      /\ invites[key] \in Slot
  BY DEF InviteRedeem, InviteRedeemOutcome, TypeOK
<1>2. Hashes(minted') = Hashes(minted) \cup {Sha256(ticket)}
  BY HashesGrow DEF InviteRedeem
<1>3. /\ DOMAIN invites' = DOMAIN invites
      /\ \A k \in DOMAIN invites \ {key} : invites'[k] = invites[k]
      /\ invites'[key].revoke_hash = slot
      /\ invites'[key].state = "CONSUMED"
      /\ invites'[key].blobs = "cleared"
      /\ invites'[key].ticket_hash = Sha256(ticket)
  <2>1. \A r \in Slot :
          LET n == [r EXCEPT !.state = "CONSUMED", !.ticket_hash = Sha256(ticket),
                             !.blobs = "cleared"]
          IN  /\ n.revoke_hash = r.revoke_hash
              /\ n.state = "CONSUMED"
              /\ n.blobs = "cleared"
              /\ n.ticket_hash = Sha256(ticket)
    BY DEF Slot
  <2>2. invites' = [invites EXCEPT ![key] =
                      [@ EXCEPT !.state = "CONSUMED", !.ticket_hash = Sha256(ticket),
                                !.blobs = "cleared"]]
    BY DEF InviteRedeem
  <2> QED
    BY <1>1, <2>1, <2>2 DEF TypeOK
<1>4. /\ redemptions' = redemptions \cup {won}
      /\ UNCHANGED <<revocations, handshakes>>
  BY DEF InviteRedeem
<1>5. ~Redeemed(slot) /\ ~Used(slot) /\ slot \notin revocations
  BY <1>1 DEF SlotMatchesHistory
<1>6. Sha256(ticket) # Null
  BY SetAssumption DEF Hashes
<1>7. SecretsMinted'
  BY <1>1, <1>2, <1>3, <1>4 DEF SecretsMinted
<1>8. SlotsDistinct'
  BY <1>3 DEF SlotsDistinct
<1>9. ASSUME NEW k \in DOMAIN invites \ {key}
      PROVE  /\ invites[k].revoke_hash # slot
             /\ Redeemed(invites[k].revoke_hash)' <=> Redeemed(invites[k].revoke_hash)
  BY <1>1, <1>3, <1>4 DEF SlotsDistinct, Redeemed
<1>10. SlotMatchesHistory'
  BY <1>1, <1>3, <1>4, <1>5, <1>6, <1>9 DEF SlotMatchesHistory, Redeemed, Used
<1>11. OneRedemption'
  BY <1>4, <1>5 DEF OneRedemption, Redeemed
<1>12. OneHandshake'
  BY <1>4 DEF OneHandshake
<1> QED
  BY <1>7, <1>8, <1>10, <1>11, <1>12

LEMMA InviteRevokePreserves ==
    ASSUME InviteInv, TypeOK', NEW key, NEW token, InviteRevoke(key, token)
    PROVE  InviteInv'
<1> USE DEF InviteInv
<1> DEFINE slot == invites[key].revoke_hash
<1>1. key \in DOMAIN invites /\ invites[key] \in Slot
  BY DEF InviteRevoke, InviteRevokeOutcome, TypeOK
<1>2. /\ DOMAIN invites' = DOMAIN invites
      /\ \A k \in DOMAIN invites \ {key} : invites'[k] = invites[k]
      /\ invites'[key].revoke_hash = slot
      /\ invites'[key].state = "REVOKED"
      /\ invites'[key].blobs = "cleared"
      /\ invites'[key].ticket_hash = Null
  <2>1. \A r \in Slot :
          LET n == [r EXCEPT !.state = "REVOKED", !.ticket_hash = Null,
                             !.blobs = "cleared"]
          IN  /\ n.revoke_hash = r.revoke_hash
              /\ n.state = "REVOKED"
              /\ n.blobs = "cleared"
              /\ n.ticket_hash = Null
    BY DEF Slot
  <2>2. invites' = [invites EXCEPT ![key] =
                      [@ EXCEPT !.state = "REVOKED", !.ticket_hash = Null,
                                !.blobs = "cleared"]]
    BY DEF InviteRevoke
  <2> QED
    BY <1>1, <2>1, <2>2 DEF TypeOK
<1>3. /\ revocations' = revocations \cup {slot}
      /\ UNCHANGED <<minted, redemptions, handshakes>>
  BY DEF InviteRevoke
<1>4. SecretsMinted' /\ SlotsDistinct'
  BY <1>1, <1>2, <1>3 DEF SecretsMinted, SlotsDistinct
<1>5. \A k \in DOMAIN invites \ {key} : invites[k].revoke_hash # slot
  BY <1>1 DEF SlotsDistinct
<1>6. SlotMatchesHistory'
  BY <1>1, <1>2, <1>3, <1>5 DEF SlotMatchesHistory, Redeemed, Used
<1> QED
  BY <1>3, <1>4, <1>6 DEF OneRedemption, OneHandshake

\* A push that is accepted on a slot presents its live ticket.
LEMMA AdmittedHoldsTicket ==
    ASSUME InviteInv, NEW key \in DOMAIN invites, NEW id, NEW bytes, NEW now,
           NEW ticket \in minted \cup {Null}, Enqueue(key, id, bytes, now, ticket)
    PROVE  /\ invites[key].state = "CONSUMED"
           /\ invites[key].ticket_hash # Null
           /\ ~Used(invites[key].revoke_hash)
<1>1. SlotVerdict(key, now, ticket) = "Admitted"
  BY DEF Enqueue, EnqueueOutcome, SlotVerdict
<1>2. /\ invites[key].ticket_hash = Sha256(ticket)
      /\ ticket # Null
  BY <1>1 DEF SlotVerdict
<1>3. invites[key].ticket_hash # Null
  BY <1>2, NullIsNoHash DEF InviteInv
<1> QED
  BY <1>3 DEF InviteInv, SlotMatchesHistory

LEMMA EnqueuePreserves ==
    ASSUME InviteInv, TypeOK', NEW key, NEW id, NEW bytes, NEW now,
           NEW ticket \in minted \cup {Null}, Enqueue(key, id, bytes, now, ticket)
    PROVE  InviteInv'
<1> USE DEF InviteInv
<1>1. UNCHANGED <<minted, redemptions, revocations>>
  BY DEF Enqueue
<1>2. CASE key \notin DOMAIN invites
  <2>1. handshakes' = handshakes
    BY <1>2 DEF Enqueue, RecordAccepted
  <2>2. invites' = Rows(invites, DOMAIN invites)
    BY <1>2 DEF Enqueue, BurnTicket, Rows
  <2> QED
    BY <1>1, <2>1, <2>2, SlotDeletion
<1>3. CASE key \in DOMAIN invites
  <2> DEFINE slot == invites[key].revoke_hash
             sent == [slot |-> slot, ticket |-> invites[key].ticket_hash,
                      seq |-> nextSeq]
  <2>1. handshakes' = handshakes \cup {sent}
    BY <1>3 DEF Enqueue, RecordAccepted
  <2>2. /\ DOMAIN invites' = DOMAIN invites
        /\ \A k \in DOMAIN invites \ {key} : invites'[k] = invites[k]
        /\ invites'[key].revoke_hash = slot
        /\ invites'[key].state = invites[key].state
        /\ invites'[key].blobs = invites[key].blobs
        /\ invites'[key].ticket_hash = Null
    <3>1. \A r \in Slot :
            LET n == [r EXCEPT !.ticket_hash = Null]
            IN  /\ n.revoke_hash = r.revoke_hash
                /\ n.state = r.state
                /\ n.blobs = r.blobs
                /\ n.ticket_hash = Null
      BY DEF Slot
    <3>2. invites[key] \in Slot
      BY <1>3 DEF TypeOK
    <3>3. invites' = [k \in DOMAIN invites |->
                        IF k = key THEN [invites[k] EXCEPT !.ticket_hash = Null]
                                   ELSE invites[k]]
      BY DEF Enqueue, BurnTicket
    <3> QED
      BY <1>3, <3>1, <3>2, <3>3
  <2>3. /\ invites[key].state = "CONSUMED"
        /\ invites[key].ticket_hash # Null
        /\ ~Used(slot)
    BY <1>3, AdmittedHoldsTicket
  <2>4. /\ slot \notin revocations
        /\ Redeemed(slot)
        /\ invites[key].blobs = "cleared"
        /\ [slot |-> slot, ticket |-> invites[key].ticket_hash] \in redemptions
    BY <1>3, <2>3 DEF SlotMatchesHistory
  <2>5. SecretsMinted' /\ SlotsDistinct'
    BY <1>1, <1>3, <2>1, <2>2 DEF SecretsMinted, SlotsDistinct
  <2>6. \A k \in DOMAIN invites \ {key} : invites[k].revoke_hash # slot
    BY <1>3 DEF SlotsDistinct
  <2>7. SlotMatchesHistory'
    <3>1. Used(slot)'
      <4>1. sent \in handshakes' /\ sent.slot = slot
        BY <2>1
      <4> HIDE DEF sent
      <4> QED
        BY <2>2, <4>1 DEF Used
    <3>2. Redeemed(slot)'
      BY <1>1, <2>2, <2>4 DEF Redeemed
    <3>3. ASSUME NEW k \in DOMAIN invites \ {key}
          PROVE  /\ Used(invites[k].revoke_hash)' <=> Used(invites[k].revoke_hash)
                 /\ Redeemed(invites[k].revoke_hash)' <=> Redeemed(invites[k].revoke_hash)
      BY <1>1, <2>1, <2>2, <2>6 DEF Used, Redeemed
    <3> QED
      BY <1>1, <1>3, <2>2, <2>3, <2>4, <3>1, <3>2, <3>3 DEF SlotMatchesHistory
  <2>8. OneHandshake'
    BY <1>1, <2>1, <2>3, <2>4 DEF OneHandshake, Used
  <2> QED
    BY <1>1, <2>5, <2>7, <2>8 DEF OneRedemption
<1> QED
  BY <1>2, <1>3

\* Pulls, acks and sweeps delete expired slot rows and nothing else.
LEMMA OthersOnlySweepSlots ==
    ASSUME NEW now, SweepExpired(now) \/ invites' = SweptInvites(now)
    PROVE  invites' = Rows(invites, LiveSlots(now))
BY DEF SweepExpired, SweptInvites

LEMMA InviteNext == InviteInv /\ [Next]_storeVars => InviteInv'
<1> SUFFICES ASSUME InviteInv, [Next]_storeVars PROVE InviteInv'
  OBVIOUS
<1>0. TypeOK'
  BY TypeNext DEF InviteInv
<1>1. CASE DoEnqueue
  BY <1>0, <1>1, EnqueuePreserves DEF DoEnqueue
<1>2. CASE DoPull
  <2>1. PICK now \in Readings : invites' = SweptInvites(now)
    BY <1>2 DEF DoPull, PullLegacy, PullLeased
  <2>2. UNCHANGED <<minted, redemptions, revocations, handshakes>>
    BY <1>2 DEF DoPull, PullLegacy, PullLeased
  <2> QED
    BY <1>0, <2>1, <2>2, OthersOnlySweepSlots, SweepShrinks, SlotDeletion
<1>3. CASE DoAck
  <2>1. PICK now \in Readings : invites' = SweptInvites(now)
    BY <1>3 DEF DoAck, Ack
  <2>2. UNCHANGED <<minted, redemptions, revocations, handshakes>>
    BY <1>3 DEF DoAck, Ack, history
  <2> QED
    BY <1>0, <2>1, <2>2, OthersOnlySweepSlots, SweepShrinks, SlotDeletion
<1>4. CASE DoSweep
  <2>1. PICK now \in Readings : invites' = SweptInvites(now)
    BY <1>4 DEF DoSweep, RetentionSweep, RouteStatus, SweepExpired
  <2>2. UNCHANGED <<minted, redemptions, revocations, handshakes>>
    BY <1>4 DEF DoSweep, RetentionSweep, RouteStatus, history
  <2> QED
    BY <1>0, <2>1, <2>2, OthersOnlySweepSlots, SweepShrinks, SlotDeletion
<1>5. CASE DoInviteCreate
  BY <1>0, <1>5, InviteCreatePreserves DEF DoInviteCreate
<1>6. CASE DoInviteRedeem
  BY <1>0, <1>6, InviteRedeemPreserves DEF DoInviteRedeem
<1>7. CASE DoInviteRevoke
  BY <1>0, <1>7, InviteRevokePreserves DEF DoInviteRevoke
<1>8. CASE Tick \/ UNCHANGED storeVars
  <2>1. UNCHANGED <<invites, minted, redemptions, revocations, handshakes>>
    BY <1>8 DEF Tick, tables, history, storeVars
  <2> QED
    BY <1>0, <2>1 DEF InviteInv, SecretsMinted, SlotsDistinct, SlotMatchesHistory,
                     Redeemed, Used, OneRedemption, OneHandshake
<1> QED
  BY <1>1, <1>2, <1>3, <1>4, <1>5, <1>6, <1>7, <1>8 DEF Next

THEOREM InviteInvariant == Spec => []InviteInv
BY InviteInit, InviteNext, PTL DEF Spec

\* A slot's row always tells its history, and its ticket is live exactly from
\* its redemption to the handshake it admits.
THEOREM SlotsTellTheTruth == Spec => []SlotMatchesHistory
BY InviteInvariant, PTL DEF InviteInv

\* No slot is ever redeemed twice.
THEOREM SingleUse == Spec => []OneRedemption
BY InviteInvariant, PTL DEF InviteInv

\* No slot ever admits two messages, and only its winner's ticket admits one.
THEOREM OneHandshakePerSlot == Spec => []OneHandshake
BY InviteInvariant, PTL DEF InviteInv
----------------------------------------------------------------------------
(* What a step may never do to a slot.                                     *)

\* Only a redemption of a slot that is not revoked is new in a step.
LEMMA NewRedemptionsAlive ==
    ASSUME InviteInv, [Next]_storeVars, NEW r \in redemptions' \ redemptions
    PROVE  r.slot \notin revocations
<1>1. DoInviteRedeem
  BY DEF Next, storeVars, DoEnqueue, Enqueue, DoPull, PullLegacy, PullLeased, DoAck, Ack,
         DoSweep, RetentionSweep, RouteStatus, DoInviteCreate, InviteCreate,
         DoInviteRevoke, InviteRevoke, Tick, history
<1>2. PICK key \in InviteKeys, now \in Readings, ticket \in Tokens \ minted, cap \in Caps :
         InviteRedeem(key, now, ticket, cap)
  BY <1>1 DEF DoInviteRedeem
<1>3. key \in DOMAIN invites /\ invites[key].state = "ACTIVE"
  BY <1>2 DEF InviteRedeem, InviteRedeemOutcome
<1>4. r.slot = invites[key].revoke_hash
  BY <1>2 DEF InviteRedeem
<1> QED
  BY <1>3, <1>4 DEF InviteInv, SlotMatchesHistory

\* Only a push through a slot that is not revoked is new in a step.
LEMMA NewHandshakesAlive ==
    ASSUME InviteInv, [Next]_storeVars, NEW h \in handshakes' \ handshakes
    PROVE  h.slot \notin revocations
<1>1. DoEnqueue
  BY DEF Next, storeVars, DoPull, PullLegacy, PullLeased, DoAck, Ack,
         DoSweep, RetentionSweep, RouteStatus, DoInviteCreate, InviteCreate,
         DoInviteRedeem, InviteRedeem, DoInviteRevoke, InviteRevoke, Tick, history
<1>2. PICK key \in Keys, id \in MsgIds, bytes \in Sizes, now \in Readings,
           ticket \in minted \cup {Null} : Enqueue(key, id, bytes, now, ticket)
  BY <1>1 DEF DoEnqueue
<1>3. key \in DOMAIN invites /\ h.slot = invites[key].revoke_hash
  BY <1>2 DEF Enqueue, RecordAccepted
<1>4. invites[key].state = "CONSUMED"
  BY <1>2, <1>3, AdmittedHoldsTicket
<1> QED
  BY <1>3, <1>4 DEF InviteInv, SlotMatchesHistory

\* Revocation is final: neither a redemption nor a push gets through a slot
\* once it is revoked.
THEOREM RevocationIsFinal == Spec => RevokedIsDead
<1>1. InviteInv /\ [Next]_storeVars =>
        [/\ \A r \in redemptions' \ redemptions : r.slot \notin revocations
         /\ \A h \in handshakes' \ handshakes : h.slot \notin revocations]_storeVars
  BY NewRedemptionsAlive, NewHandshakesAlive
<1> QED
  BY <1>1, InviteInvariant, PTL DEF Spec, RevokedIsDead

\* A sweep with any reading of the clock leaves a slot that has not expired.
LEMMA UnexpiredSurvives ==
    ASSUME TypeOK, NEW now \in Readings, NEW key \in DOMAIN invites,
           ~(invites[key].expiry <= clock)
    PROVE  key \in LiveSlots(now)
<1>1. /\ invites[key].expiry \in Nat
      /\ now \in Nat
      /\ clock \in Nat
      /\ now <= clock
  BY LimitAssumption DEF TypeOK, Slot, Readings
<1> QED
  BY <1>1 DEF LiveSlots

LEMMA SlotSurvivesStep ==
    ASSUME TypeOK, Next, NEW key \in DOMAIN invites, ~(invites[key].expiry <= clock)
    PROVE  /\ key \in DOMAIN invites'
           /\ invites'[key].revoke_hash = invites[key].revoke_hash
<1>0. invites[key] \in Slot
  BY DEF TypeOK
<1>1. CASE \E now \in Readings : invites' = SweptInvites(now)
  BY <1>1, UnexpiredSurvives DEF SweptInvites, Rows
<1>2. CASE DoEnqueue
  <2>1. \A r \in Slot : [r EXCEPT !.ticket_hash = Null].revoke_hash = r.revoke_hash
    BY DEF Slot
  <2> QED
    BY <1>0, <1>2, <2>1 DEF DoEnqueue, Enqueue, BurnTicket
<1>3. CASE DoPull
  BY <1>1, <1>3 DEF DoPull, PullLegacy, PullLeased
<1>4. CASE DoAck
  BY <1>1, <1>4 DEF DoAck, Ack
<1>5. CASE DoSweep
  BY <1>1, <1>5 DEF DoSweep, RetentionSweep, RouteStatus, SweepExpired
<1>6. CASE DoInviteCreate
  <2>1. PICK k \in InviteKeys, cap \in Caps, token \in Tokens \ minted,
             now \in Readings :
           \E expiry \in (now + 1)..(now + MaxExpiry) :
              InviteCreate(k, cap, token, expiry, now)
    BY <1>6 DEF DoInviteCreate
  <2>2. key \in LiveSlots(now)
    BY UnexpiredSurvives
  <2> QED
    BY <2>1, <2>2 DEF InviteCreate, InviteCreateOutcome
<1>7. CASE DoInviteRedeem
  <2>1. \A r \in Slot : \A t : [r EXCEPT !.state = "CONSUMED", !.ticket_hash = t,
                                    !.blobs = "cleared"].revoke_hash = r.revoke_hash
    BY DEF Slot
  <2> QED
    BY <1>0, <1>7, <2>1 DEF DoInviteRedeem, InviteRedeem, TypeOK
<1>8. CASE DoInviteRevoke
  <2>1. \A r \in Slot : [r EXCEPT !.state = "REVOKED", !.ticket_hash = Null,
                          !.blobs = "cleared"].revoke_hash = r.revoke_hash
    BY DEF Slot
  <2> QED
    BY <1>0, <1>8, <2>1 DEF DoInviteRevoke, InviteRevoke, TypeOK
<1>9. CASE Tick
  BY <1>9 DEF Tick, tables
<1> QED
  BY <1>2, <1>3, <1>4, <1>5, <1>6, <1>7, <1>8, <1>9 DEF Next

\* No slot is evicted or taken over before its expiry.
THEOREM SlotsAreNeverEvicted == Spec => SlotNeverEvicted
<1>1. TypeOK /\ [Next]_storeVars =>
        [\A key \in DOMAIN invites :
           \/ invites[key].expiry <= clock
           \/ /\ key \in DOMAIN invites'
              /\ invites'[key].revoke_hash = invites[key].revoke_hash]_storeVars
  BY SlotSurvivesStep
<1> QED
  BY <1>1, TypeCorrect, PTL DEF Spec, SlotNeverEvicted
----------------------------------------------------------------------------
(* The store implements invite slots.  A slot is told by its revoke token, *)
(* so the invariant adds that tickets, which are tokens too, are minted    *)
(* like revoke tokens are and that no token is both.                       *)

TicketsApart ==
    /\ \A r \in redemptions : r.ticket \in Hashes(minted)
    /\ \A r \in redemptions : \A k \in DOMAIN invites : invites[k].revoke_hash # r.ticket

\* A step that redeems nothing and publishes nothing keeps tickets apart.
LEMMA ApartKept ==
    ASSUME TicketsApart, DOMAIN invites' \subseteq DOMAIN invites,
           \A k \in DOMAIN invites' : invites'[k].revoke_hash = invites[k].revoke_hash,
           UNCHANGED <<minted, redemptions>>
    PROVE  TicketsApart'
BY DEF TicketsApart

\* No step but a create publishes a slot or changes a revoke token.
LEMMA RevokeHashKept ==
    ASSUME TypeOK, DoEnqueue \/ DoPull \/ DoAck \/ DoSweep \/ DoInviteRedeem
                   \/ DoInviteRevoke \/ Tick
    PROVE  /\ DOMAIN invites' \subseteq DOMAIN invites
           /\ \A k \in DOMAIN invites' : invites'[k].revoke_hash = invites[k].revoke_hash
<1>0. \A k \in DOMAIN invites : invites[k] \in Slot
  BY DEF TypeOK
<1>1. CASE \E now \in Readings : invites' = SweptInvites(now)
  BY <1>1 DEF SweptInvites, LiveSlots, Rows
<1>2. CASE DoEnqueue
  <2>1. \A r \in Slot : [r EXCEPT !.ticket_hash = Null].revoke_hash = r.revoke_hash
    BY DEF Slot
  <2> QED
    BY <1>0, <1>2, <2>1 DEF DoEnqueue, Enqueue, BurnTicket
<1>3. CASE DoPull
  BY <1>1, <1>3 DEF DoPull, PullLegacy, PullLeased
<1>4. CASE DoAck
  BY <1>1, <1>4 DEF DoAck, Ack
<1>5. CASE DoSweep
  BY <1>1, <1>5 DEF DoSweep, RetentionSweep, RouteStatus, SweepExpired
<1>6. CASE DoInviteRedeem
  <2>1. \A r \in Slot : \A t : [r EXCEPT !.state = "CONSUMED", !.ticket_hash = t,
                                    !.blobs = "cleared"].revoke_hash = r.revoke_hash
    BY DEF Slot
  <2>2. PICK key, t :
           /\ key \in DOMAIN invites
           /\ invites' = [invites EXCEPT ![key] = [@ EXCEPT !.state = "CONSUMED",
                                                 !.ticket_hash = t, !.blobs = "cleared"]]
    BY <1>6 DEF DoInviteRedeem, InviteRedeem, InviteRedeemOutcome
  <2> QED
    BY <1>0, <2>1, <2>2
<1>7. CASE DoInviteRevoke
  <2>1. \A r \in Slot : [r EXCEPT !.state = "REVOKED", !.ticket_hash = Null,
                          !.blobs = "cleared"].revoke_hash = r.revoke_hash
    BY DEF Slot
  <2>2. PICK key :
           /\ key \in DOMAIN invites
           /\ invites' = [invites EXCEPT ![key] = [@ EXCEPT !.state = "REVOKED",
                                                 !.ticket_hash = Null, !.blobs = "cleared"]]
    BY <1>7 DEF DoInviteRevoke, InviteRevoke, InviteRevokeOutcome
  <2> QED
    BY <1>0, <2>1, <2>2
<1>8. CASE Tick
  BY <1>8 DEF Tick, tables
<1> QED
  BY <1>2, <1>3, <1>4, <1>5, <1>6, <1>7, <1>8

\* A fresh token is neither a ticket nor a revoke token yet, and becomes one of them.
LEMMA TicketsApartNext ==
    ASSUME InviteInv, TicketsApart, [Next]_storeVars
    PROVE  TicketsApart'
<1>1. CASE DoInviteCreate
  <2>1. PICK key \in InviteKeys, cap \in Caps, token \in Tokens \ minted, now \in Readings :
           \E expiry \in (now + 1)..(now + MaxExpiry) :
              InviteCreate(key, cap, token, expiry, now)
    BY <1>1 DEF DoInviteCreate
  <2>2. /\ DOMAIN invites' = LiveSlots(now) \cup {key}
        /\ \A k \in LiveSlots(now) : k \in DOMAIN invites /\ k # key /\ invites'[k] = invites[k]
        /\ invites'[key].revoke_hash = Sha256(token)
        /\ redemptions' = redemptions
    BY <2>1 DEF InviteCreate, InviteCreateOutcome, LiveSlots
  <2>3. /\ Sha256(token) \notin Hashes(minted)
        /\ Hashes(minted') = Hashes(minted) \cup {Sha256(token)}
    BY <2>1, FreshHash, HashesGrow DEF InviteCreate
  <2> QED
    BY <2>2, <2>3 DEF TicketsApart
<1>2. CASE DoInviteRedeem
  <2>1. PICK key \in InviteKeys, now \in Readings, ticket \in Tokens \ minted, cap \in Caps :
           InviteRedeem(key, now, ticket, cap)
    BY <1>2 DEF DoInviteRedeem
  <2>2. /\ redemptions' = redemptions \cup
              {[slot |-> invites[key].revoke_hash, ticket |-> Sha256(ticket)]}
        /\ Sha256(ticket) \notin Hashes(minted)
        /\ Hashes(minted') = Hashes(minted) \cup {Sha256(ticket)}
    BY <2>1, FreshHash, HashesGrow DEF InviteRedeem
  <2>3. /\ DOMAIN invites' \subseteq DOMAIN invites
        /\ \A k \in DOMAIN invites' : invites'[k].revoke_hash = invites[k].revoke_hash
    BY <1>2, RevokeHashKept DEF InviteInv
  <2> QED
    BY <2>2, <2>3 DEF TicketsApart, InviteInv, SecretsMinted
<1>3. CASE DoEnqueue \/ DoPull \/ DoAck \/ DoSweep \/ DoInviteRevoke \/ Tick
  <2>1. UNCHANGED <<minted, redemptions>>
    BY <1>3 DEF DoEnqueue, Enqueue, DoPull, PullLegacy, PullLeased, DoAck, Ack, DoSweep,
                RetentionSweep, RouteStatus, DoInviteRevoke, InviteRevoke, Tick, history
  <2> QED
    BY <1>3, <2>1, RevokeHashKept, ApartKept DEF InviteInv
<1>4. CASE UNCHANGED storeVars
  BY <1>4 DEF TicketsApart, storeVars
<1> QED
  BY <1>1, <1>2, <1>3, <1>4 DEF Next

\* Throughout, no token is both a revoke token and a ticket.
THEOREM TicketsStayApart == Spec => []TicketsApart
<1>1. Init => TicketsApart
  BY DEF Init, TicketsApart
<1>2. InviteInv /\ TicketsApart /\ [Next]_storeVars => TicketsApart'
  BY TicketsApartNext
<1> QED
  BY <1>1, <1>2, InviteInvariant, PTL DEF Spec

\* What Life is at h, of any table, tokens and redemptions.
LifeAt(table, tokens, won, h) ==
    IF \E key \in DOMAIN table : table[key].revoke_hash = h
      THEN Phase(table[CHOOSE key \in DOMAIN table : table[key].revoke_hash = h])
    ELSE IF h \in Hashes(tokens) /\ \A r \in won : r.ticket # h
      THEN "gone"
    ELSE "unborn"

\* The life of a slot with a row is told by its row, of which there is one.
LEMMA LifeOfRow ==
    ASSUME NEW T, NEW M, NEW R, NEW k \in DOMAIN T,
           \A j \in DOMAIN T : T[j].revoke_hash = T[k].revoke_hash => j = k
    PROVE  LifeAt(T, M, R, T[k].revoke_hash) = Phase(T[k])
<1>1. (CHOOSE key \in DOMAIN T : T[key].revoke_hash = T[k].revoke_hash) = k
  OBVIOUS
<1> QED
  BY <1>1 DEF LifeAt

\* The life of a slot without a row is told by the histories.
LEMMA LifeWithoutRow ==
    ASSUME NEW T, NEW M, NEW R, NEW h, \A j \in DOMAIN T : T[j].revoke_hash # h
    PROVE  LifeAt(T, M, R, h) =
             IF h \in Hashes(M) /\ \A r \in R : r.ticket # h THEN "gone" ELSE "unborn"
BY DEF LifeAt

\* Life before and after a step.
LEMMA LifeIs ==
    /\ Life = [h \in Hashes(Tokens) |-> LifeAt(invites, minted, redemptions, h)]
    /\ Life' = [h \in Hashes(Tokens) |-> LifeAt(invites', minted', redemptions', h)]
BY DEF Life, LifeAt

\* A row that a step leaves alone tells the same life after it.
LEMMA SameRowSameLife ==
    ASSUME InviteInv, InviteInv', NEW k \in DOMAIN invites, k \in DOMAIN invites',
           invites'[k] = invites[k]
    PROVE  Life'[invites[k].revoke_hash] = Life[invites[k].revoke_hash]
<1>1. invites[k].revoke_hash \in Hashes(Tokens)
  BY DEF InviteInv, TypeOK, Slot
<1>2. LifeAt(invites, minted, redemptions, invites[k].revoke_hash) = Phase(invites[k])
  BY LifeOfRow DEF InviteInv, SlotsDistinct
<1>3. LifeAt(invites', minted', redemptions', invites'[k].revoke_hash) = Phase(invites'[k])
  BY LifeOfRow DEF InviteInv, SlotsDistinct
<1> QED
  BY <1>1, <1>2, <1>3, LifeIs

\* The life of a slot with a row is the phase of the row.
LEMMA RowLife ==
    ASSUME InviteInv, NEW k \in DOMAIN invites
    PROVE  /\ invites[k].revoke_hash \in Hashes(Tokens)
           /\ Life[invites[k].revoke_hash] = Phase(invites[k])
<1>1. invites[k].revoke_hash \in Hashes(Tokens)
  BY DEF InviteInv, TypeOK, Slot
<1>2. LifeAt(invites, minted, redemptions, invites[k].revoke_hash) = Phase(invites[k])
  BY LifeOfRow DEF InviteInv, SlotsDistinct
<1> QED
  BY <1>1, <1>2, LifeIs

\* The same after a step.
LEMMA RowLifeNext ==
    ASSUME InviteInv', NEW k \in DOMAIN invites'
    PROVE  /\ invites'[k].revoke_hash \in Hashes(Tokens)
           /\ Life'[invites'[k].revoke_hash] = Phase(invites'[k])
<1>1. invites'[k].revoke_hash \in Hashes(Tokens)
  BY DEF InviteInv, TypeOK, Slot
<1>2. LifeAt(invites', minted', redemptions', invites'[k].revoke_hash) = Phase(invites'[k])
  BY LifeOfRow DEF InviteInv, SlotsDistinct
<1> QED
  BY <1>1, <1>2, LifeIs

\* One row changes and no token is used: only that slot's life does.
LEMMA OneRowOneLife ==
    ASSUME InviteInv, InviteInv', NEW key \in DOMAIN invites, DOMAIN invites' = DOMAIN invites,
           \A k \in DOMAIN invites \ {key} : invites'[k] = invites[k],
           invites'[key].revoke_hash = invites[key].revoke_hash,
           NEW s, s = invites[key].revoke_hash, NEW phase, phase = Phase(invites'[key]),
           \A x \in Hashes(Tokens) :
              (\A k \in DOMAIN invites : invites[k].revoke_hash # x) =>
                 (   (x \in Hashes(minted) /\ \A r \in redemptions : r.ticket # x)
                 <=> (x \in Hashes(minted') /\ \A r \in redemptions' : r.ticket # x))
    PROVE  PromisedSlots!Becomes(s, phase, {})
<1>1. ASSUME NEW x \in Hashes(Tokens)
      PROVE  Life'[x] = IF x = s THEN phase ELSE Life[x]
  <2>1. CASE x = s
    BY <2>1, RowLifeNext
  <2>2. CASE x # s /\ \E k \in DOMAIN invites : invites[k].revoke_hash = x
    BY <2>2, SameRowSameLife
  <2>3. CASE \A k \in DOMAIN invites : invites[k].revoke_hash # x
    <3>1. \A k \in DOMAIN invites' : invites'[k].revoke_hash # x
      BY <2>3
    <3>2. LifeAt(invites, minted, redemptions, x) = LifeAt(invites', minted', redemptions', x)
      BY <2>3, <3>1, LifeWithoutRow
    <3> QED
      BY <2>3, <3>2, LifeIs
  <2> QED
    BY <2>1, <2>2, <2>3
<1>2. Life' = [x \in Hashes(Tokens) |-> IF x = s THEN phase ELSE Life[x]]
  BY <1>1, LifeIs
<1> QED
  BY <1>2 DEF PromisedSlots!Becomes

\* Due slots, when rows keep their expiry and their revoke token.
LEMMA DueKept ==
    ASSUME DOMAIN invites' = DOMAIN invites, clock' = clock,
           \A k \in DOMAIN invites : /\ invites'[k].revoke_hash = invites[k].revoke_hash
                                     /\ invites'[k].expiry = invites[k].expiry
    PROVE  SlotsDue' = SlotsDue
BY DEF SlotsDue

\* A redemption redeems the slot, for a ticket nobody else has.
LEMMA RedeemRedeems ==
    ASSUME InviteInv, InviteInv', TicketsApart, NEW key, NEW now, NEW ticket \in Tokens \ minted,
           NEW cap, InviteRedeem(key, now, ticket, cap),
           NEW s, s = invites[key].revoke_hash, NEW t, t = Sha256(ticket)
    PROVE  /\ s \in Hashes(Tokens) /\ t \in Hashes(Tokens)
           /\ PromisedSlots!Redeem(s, t)
<1>1. /\ key \in DOMAIN invites
      /\ invites[key].state = "ACTIVE"
      /\ invites[key] \in Slot
  BY DEF InviteRedeem, InviteRedeemOutcome, InviteInv, TypeOK
<1>2. /\ t \notin Hashes(minted) /\ t \in Hashes(Tokens)
      /\ Hashes(minted') = Hashes(minted) \cup {t}
  BY FreshHash, HashesGrow DEF InviteRedeem, Hashes
<1>3. /\ DOMAIN invites' = DOMAIN invites
      /\ \A k \in DOMAIN invites \ {key} : invites'[k] = invites[k]
      /\ invites'[key].revoke_hash = invites[key].revoke_hash
      /\ invites'[key].expiry = invites[key].expiry
      /\ invites'[key].state = "CONSUMED"
      /\ invites'[key].ticket_hash = t
  <2>1. \A r \in Slot :
          LET n == [r EXCEPT !.state = "CONSUMED", !.ticket_hash = t, !.blobs = "cleared"]
          IN  /\ n.revoke_hash = r.revoke_hash
              /\ n.expiry = r.expiry
              /\ n.state = "CONSUMED"
              /\ n.ticket_hash = t
    BY DEF Slot
  <2>2. invites' = [invites EXCEPT ![key] =
                      [@ EXCEPT !.state = "CONSUMED", !.ticket_hash = t, !.blobs = "cleared"]]
    BY DEF InviteRedeem
  <2> QED
    BY <1>1, <2>1, <2>2
<1>4. /\ redemptions' = redemptions \cup {[slot |-> s, ticket |-> t]}
      /\ UNCHANGED <<clock, handshakes>>
  BY DEF InviteRedeem
<1>5. Life[s] = "open" /\ s \in Hashes(Tokens)
  BY <1>1, RowLife DEF Phase
<1>6. Phase(invites'[key]) = "redeemed"
  BY <1>2, <1>3, SetAssumption DEF Phase
<1>7. \A r \in redemptions : r.ticket # t
  BY <1>2 DEF TicketsApart
<1>8. PromisedSlots!Becomes(s, "redeemed", {})
  <2>1. \A x \in Hashes(Tokens) :
              (x \in Hashes(minted) /\ \A r \in redemptions : r.ticket # x)
          <=> (x \in Hashes(minted') /\ \A r \in redemptions' : r.ticket # x)
    <3>1. PICK won : won = [slot |-> s, ticket |-> t]
      OBVIOUS
    <3>2. redemptions' = redemptions \cup {won} /\ won.ticket = t
      BY <1>4, <3>1
    <3> QED
      BY <1>2, <1>7, <3>2
  <2> QED
    BY <1>1, <1>3, <1>6, <2>1, OneRowOneLife
<1>9. SlotsDue' = SlotsDue
  BY <1>3, <1>4, DueKept
<1> QED
  BY <1>2, <1>4, <1>5, <1>7, <1>8, <1>9 DEF PromisedSlots!Redeem

\* A revocation revokes the slot.
LEMMA RevokeRevokes ==
    ASSUME InviteInv, InviteInv', NEW key, NEW token, InviteRevoke(key, token),
           NEW s, s = invites[key].revoke_hash
    PROVE  s \in Hashes(Tokens) /\ PromisedSlots!Revoke(s)
<1>1. /\ key \in DOMAIN invites /\ invites[key].state \in {"ACTIVE", "CONSUMED"}
      /\ invites[key] \in Slot
  BY DEF InviteRevoke, InviteRevokeOutcome, InviteInv, TypeOK, Slot
<1>2. /\ DOMAIN invites' = DOMAIN invites
      /\ \A k \in DOMAIN invites \ {key} : invites'[k] = invites[k]
      /\ invites'[key].revoke_hash = invites[key].revoke_hash
      /\ invites'[key].expiry = invites[key].expiry
      /\ invites'[key].state = "REVOKED"
  <2>1. \A r \in Slot :
          LET n == [r EXCEPT !.state = "REVOKED", !.ticket_hash = Null, !.blobs = "cleared"]
          IN  /\ n.revoke_hash = r.revoke_hash
              /\ n.expiry = r.expiry
              /\ n.state = "REVOKED"
    BY DEF Slot
  <2>2. invites' = [invites EXCEPT ![key] =
                      [@ EXCEPT !.state = "REVOKED", !.ticket_hash = Null, !.blobs = "cleared"]]
    BY DEF InviteRevoke
  <2> QED
    BY <1>1, <2>1, <2>2
<1>3. UNCHANGED <<clock, minted, redemptions, handshakes>>
  BY DEF InviteRevoke
<1>4. Life[s] \in {"open", "redeemed", "used"} /\ s \in Hashes(Tokens)
  BY <1>1, RowLife DEF Phase
<1>5. Phase(invites'[key]) = "revoked"
  BY <1>2 DEF Phase
<1>6. PromisedSlots!Becomes(s, "revoked", {})
  BY <1>1, <1>2, <1>3, <1>5, OneRowOneLife
<1>7. SlotsDue' = SlotsDue
  BY <1>2, <1>3, DueKept
<1> QED
  BY <1>3, <1>4, <1>6, <1>7 DEF PromisedSlots!Revoke

\* A push accepted on a slot is the one message the slot admits.
LEMMA PushAdmits ==
    ASSUME InviteInv, InviteInv', NEW key \in DOMAIN invites, NEW id, NEW bytes, NEW now,
           NEW ticket \in minted \cup {Null}, Enqueue(key, id, bytes, now, ticket),
           NEW s, s = invites[key].revoke_hash
    PROVE  s \in Hashes(Tokens) /\ PromisedSlots!Admit(s)
<1>1. /\ invites[key].state = "CONSUMED"
      /\ invites[key].ticket_hash # Null
      /\ ~Used(invites[key].revoke_hash)
      /\ invites[key] \in Slot
  BY AdmittedHoldsTicket DEF InviteInv, TypeOK
<1>2. /\ DOMAIN invites' = DOMAIN invites
      /\ \A k \in DOMAIN invites \ {key} : invites'[k] = invites[k]
      /\ invites'[key].revoke_hash = invites[key].revoke_hash
      /\ invites'[key].expiry = invites[key].expiry
      /\ invites'[key].state = "CONSUMED"
      /\ invites'[key].ticket_hash = Null
  <2>1. \A r \in Slot :
          LET n == [r EXCEPT !.ticket_hash = Null]
          IN  /\ n.revoke_hash = r.revoke_hash
              /\ n.expiry = r.expiry
              /\ n.state = r.state
              /\ n.ticket_hash = Null
    BY DEF Slot
  <2>2. invites' = [k \in DOMAIN invites |->
                      IF k = key THEN [invites[k] EXCEPT !.ticket_hash = Null]
                                 ELSE invites[k]]
    BY DEF Enqueue, BurnTicket
  <2> QED
    BY <1>1, <2>1, <2>2
<1>3. UNCHANGED <<clock, minted, redemptions>>
  BY DEF Enqueue
<1>4. PICK h : h = [slot |-> s, ticket |-> invites[key].ticket_hash, seq |-> nextSeq]
  OBVIOUS
<1>5. /\ handshakes' = handshakes \cup {h}
      /\ h.slot = s /\ h.ticket = invites[key].ticket_hash
      /\ h \notin handshakes
  BY <1>1, <1>4 DEF Enqueue, RecordAccepted, Used
<1>6. [slot |-> s, ticket |-> h.ticket] \in redemptions
  BY <1>1, <1>5 DEF InviteInv, SlotMatchesHistory
<1>7. Life[s] = "redeemed" /\ s \in Hashes(Tokens)
  BY <1>1, RowLife DEF Phase
<1>8. Phase(invites'[key]) = "used"
  BY <1>2 DEF Phase
<1>9. PromisedSlots!Becomes(s, "used", {})
  BY <1>2, <1>3, <1>8, OneRowOneLife
<1>10. SlotsDue' = SlotsDue
  BY <1>2, <1>3, DueKept
<1>11. h \in handshakes' \ handshakes
  BY <1>5
<1> QED
  BY <1>3, <1>5, <1>6, <1>7, <1>9, <1>10, <1>11 DEF PromisedSlots!Admit

\* The slots whose rows a sweep at `now' deletes.
Lapsed(now) == {invites[k].revoke_hash : k \in DOMAIN invites \ LiveSlots(now)}

\* They are due, and no row that stays is theirs.
LEMMA LapsedAreDue ==
    ASSUME InviteInv, NEW now \in Readings
    PROVE  /\ Lapsed(now) \in SUBSET SlotsDue
           /\ \A k \in LiveSlots(now) : invites[k].revoke_hash \notin Lapsed(now)
<1>1. \A k \in DOMAIN invites \ LiveSlots(now) : invites[k].expiry <= clock
  BY UnexpiredSurvives DEF InviteInv
<1> QED
  BY <1>1 DEF Lapsed, SlotsDue, LiveSlots, InviteInv, SlotsDistinct

\* Of the slots other than s, those that lapse are gone and the rest is as before.
LEMMA LapsedAreGone ==
    ASSUME InviteInv, InviteInv', TicketsApart, NEW now \in Readings, NEW s,
           \A k \in DOMAIN invites : invites[k].revoke_hash # s,
           LiveSlots(now) \subseteq DOMAIN invites',
           \A k \in LiveSlots(now) : invites'[k] = invites[k],
           \A k \in DOMAIN invites' \ LiveSlots(now) : invites'[k].revoke_hash = s,
           Hashes(minted) \subseteq Hashes(minted'), Hashes(minted') \subseteq Hashes(minted) \cup {s},
           redemptions' = redemptions,
           NEW x \in Hashes(Tokens) \ {s}
    PROVE  Life'[x] = IF x \in Lapsed(now) THEN "gone" ELSE Life[x]
<1>1. CASE \E k \in LiveSlots(now) : invites[k].revoke_hash = x
  BY <1>1, LapsedAreDue, SameRowSameLife DEF LiveSlots
<1>2. ASSUME \A k \in LiveSlots(now) : invites[k].revoke_hash # x
      PROVE  Life'[x] = IF x \in Hashes(minted) /\ \A r \in redemptions : r.ticket # x
                        THEN "gone" ELSE "unborn"
  <2>1. \A k \in DOMAIN invites' : invites'[k].revoke_hash # x
    BY <1>2
  <2>2. x \in Hashes(minted') <=> x \in Hashes(minted)
    OBVIOUS
  <2> QED
    BY <2>1, <2>2, LifeWithoutRow, LifeIs
<1>3. CASE x \in Lapsed(now)
  <2>1. PICK k \in DOMAIN invites : x = invites[k].revoke_hash
    BY <1>3 DEF Lapsed
  <2>2. x \in Hashes(minted) /\ \A r \in redemptions : r.ticket # x
    BY <2>1 DEF InviteInv, SecretsMinted, TicketsApart
  <2> QED
    BY <1>2, <1>3, <2>2, LapsedAreDue
<1>4. CASE \A k \in DOMAIN invites : invites[k].revoke_hash # x
  <2>1. Life[x] = IF x \in Hashes(minted) /\ \A r \in redemptions : r.ticket # x
                  THEN "gone" ELSE "unborn"
    BY <1>4, LifeWithoutRow, LifeIs
  <2>2. x \notin Lapsed(now) /\ \A k \in LiveSlots(now) : invites[k].revoke_hash # x
    BY <1>4 DEF Lapsed, LiveSlots
  <2> QED
    BY <1>2, <2>1, <2>2
<1> QED
  BY <1>1, <1>3, <1>4 DEF Lapsed

\* A sweep drops the slots that lapsed.
LEMMA SweepDrops ==
    ASSUME InviteInv, InviteInv', TicketsApart, NEW now \in Readings,
           invites' = SweptInvites(now), UNCHANGED <<clock, minted, redemptions, handshakes>>,
           NEW G, G = Lapsed(now)
    PROVE  PromisedSlots!Drop(G)
<1>1. /\ DOMAIN invites' = LiveSlots(now)
      /\ \A k \in LiveSlots(now) : k \in DOMAIN invites /\ invites'[k] = invites[k]
  BY DEF SweptInvites, Rows, LiveSlots
<1>2. ASSUME NEW x \in Hashes(Tokens)
      PROVE  Life'[x] = IF x \in G THEN "gone" ELSE Life[x]
  <2>1. /\ x \in Hashes(Tokens) \ {Null}
        /\ \A k \in DOMAIN invites : invites[k].revoke_hash # Null
    BY RowLife, SetAssumption
  <2>2. /\ LiveSlots(now) \subseteq DOMAIN invites'
        /\ \A k \in DOMAIN invites' \ LiveSlots(now) : invites'[k].revoke_hash = Null
        /\ Hashes(minted') = Hashes(minted)
    BY <1>1 DEF Hashes
  <2> QED
    BY <1>1, <2>1, <2>2, LapsedAreGone
<1>3. Life' = [x \in Hashes(Tokens) |-> IF x \in G THEN "gone" ELSE Life[x]]
  BY <1>2, LifeIs
<1>4. SlotsDue' = SlotsDue \ G
  <2>1. ASSUME NEW h \in SlotsDue' PROVE h \in SlotsDue \ G
    <3>1. PICK k \in LiveSlots(now) : invites[k].expiry <= clock /\ h = invites[k].revoke_hash
      BY <1>1 DEF SlotsDue
    <3> QED
      BY <1>1, <3>1, LapsedAreDue DEF SlotsDue
  <2>2. ASSUME NEW h \in SlotsDue \ G PROVE h \in SlotsDue'
    <3>1. PICK k \in DOMAIN invites : invites[k].expiry <= clock /\ h = invites[k].revoke_hash
      BY DEF SlotsDue
    <3>2. k \in LiveSlots(now)
      BY <3>1 DEF Lapsed
    <3> QED
      BY <1>1, <3>1, <3>2 DEF SlotsDue
  <2> QED
    BY <2>1, <2>2
<1> QED
  BY <1>3, <1>4 DEF PromisedSlots!Drop

\* A create publishes a slot, and its own sweep drops the slots that lapsed.
LEMMA CreatePublishes ==
    ASSUME InviteInv, InviteInv', TicketsApart, NEW key, NEW cap, NEW token \in Tokens \ minted,
           NEW now \in Readings, NEW expiry, InviteCreate(key, cap, token, expiry, now),
           NEW G, G = Lapsed(now), NEW s, s = Sha256(token)
    PROVE  s \in Hashes(Tokens) /\ PromisedSlots!Publish(s, G)
<1>1. /\ s \notin Hashes(minted) /\ s \in Hashes(Tokens)
      /\ Hashes(minted') = Hashes(minted) \cup {s}
  BY FreshHash, HashesGrow DEF InviteCreate, Hashes
<1>2. /\ DOMAIN invites' = LiveSlots(now) \cup {key}
      /\ \A k \in LiveSlots(now) : k \in DOMAIN invites /\ k # key /\ invites'[k] = invites[k]
      /\ invites'[key].revoke_hash = s
      /\ invites'[key].state = "ACTIVE"
  BY DEF InviteCreate, InviteCreateOutcome, LiveSlots
<1>3. UNCHANGED <<clock, redemptions, handshakes>>
  BY DEF InviteCreate
<1>4. \A k \in DOMAIN invites : invites[k].revoke_hash # s
  BY <1>1 DEF InviteInv, SecretsMinted
<1>5. Life[s] = "unborn"
  BY <1>1, <1>4, LifeWithoutRow, LifeIs
<1>6. Life'[s] = "open"
  BY <1>2, RowLifeNext DEF Phase
<1>7. \A x \in Hashes(Tokens) \ {s} : Life'[x] = IF x \in G THEN "gone" ELSE Life[x]
  BY <1>1, <1>2, <1>3, <1>4, LapsedAreGone
<1>8. Life' = [x \in Hashes(Tokens) |-> IF x = s THEN "open"
                                        ELSE IF x \in G THEN "gone" ELSE Life[x]]
  BY <1>6, <1>7, LifeIs
<1>9. SlotsDue' \in {SlotsDue \ G, (SlotsDue \ G) \cup {s}}
  <2>1. ASSUME NEW h \in SlotsDue', h # s PROVE h \in SlotsDue \ G
    <3>1. PICK k \in LiveSlots(now) : invites[k].expiry <= clock /\ h = invites[k].revoke_hash
      BY <1>2, <1>3, <2>1 DEF SlotsDue
    <3> QED
      BY <1>2, <3>1, LapsedAreDue DEF SlotsDue
  <2>2. ASSUME NEW h \in SlotsDue \ G PROVE h \in SlotsDue'
    <3>1. PICK k \in DOMAIN invites : invites[k].expiry <= clock /\ h = invites[k].revoke_hash
      BY DEF SlotsDue
    <3>2. k \in LiveSlots(now)
      BY <3>1 DEF Lapsed
    <3> QED
      BY <1>2, <1>3, <3>1, <3>2 DEF SlotsDue
  <2> QED
    BY <2>1, <2>2
<1> QED
  BY <1>1, <1>3, <1>5, <1>8, <1>9 DEF PromisedSlots!Publish, PromisedSlots!Becomes

\* The clock makes slots due and does nothing else.
LEMMA TickShowsSlotsDue ==
    ASSUME InviteInv, Tick
    PROVE  PromisedSlots!TimePasses
<1>1. /\ clock \in Nat /\ clock' = clock + 1
      /\ UNCHANGED <<invites, minted, redemptions, handshakes>>
  BY LimitAssumption DEF InviteInv, TypeOK, Tick, tables, history
<1>2. \A k \in DOMAIN invites : /\ invites[k].expiry \in Nat
                                 /\ invites[k].state \in {"ACTIVE", "CONSUMED", "REVOKED"}
  BY DEF InviteInv, TypeOK, Slot
<1>3. Life' = Life
  BY <1>1 DEF Life
<1>4. SlotsDue \subseteq SlotsDue'
  BY <1>1, <1>2 DEF SlotsDue
<1>5. ASSUME NEW h \in SlotsDue' PROVE h \in PromisedSlots!Published
  <2>1. PICK k \in DOMAIN invites : h = invites[k].revoke_hash
    BY <1>1 DEF SlotsDue
  <2>2. Phase(invites[k]) \notin {"unborn", "gone"}
    BY <1>2 DEF Phase
  <2> QED
    BY <2>1, <2>2, RowLife DEF PromisedSlots!Published
<1> QED
  BY <1>1, <1>3, <1>4, <1>5 DEF PromisedSlots!TimePasses

\* What leaves the slot rows, the tokens and the clock alone is not seen in the slots.
LEMMA SlotsUnseen ==
    ASSUME UNCHANGED <<invites, minted, redemptions, handshakes, clock>>
    PROVE  UNCHANGED PromisedSlots!slotVars
BY DEF PromisedSlots!slotVars, Life, SlotsDue

\* Every transaction is a step of the invite slots, or none.
LEMMA SlotStep ==
    ASSUME InviteInv, InviteInv', TicketsApart, [Next]_storeVars
    PROVE  [PromisedSlots!Next]_(PromisedSlots!slotVars)
<1>1. CASE DoEnqueue
  <2>1. PICK key \in Keys, id \in MsgIds, bytes \in Sizes, now \in Readings,
             ticket \in minted \cup {Null} : Enqueue(key, id, bytes, now, ticket)
    BY <1>1 DEF DoEnqueue
  <2>2. CASE key \in DOMAIN invites
    <3>1. PICK s : s = invites[key].revoke_hash
      OBVIOUS
    <3>2. s \in Hashes(Tokens) /\ PromisedSlots!Admit(s)
      BY <2>1, <2>2, <3>1, PushAdmits
    <3> QED
      BY <3>2, Zenon DEF PromisedSlots!Next
  <2>3. CASE key \notin DOMAIN invites
    <3>1. DOMAIN invites' = DOMAIN invites /\ \A k \in DOMAIN invites : invites'[k] = invites[k]
      BY <2>1, <2>3 DEF Enqueue, BurnTicket
    <3>2. invites' = invites
      BY <2>1, <3>1 DEF Enqueue, BurnTicket, InviteInv, TypeOK
    <3>3. UNCHANGED <<minted, redemptions, handshakes, clock>>
      BY <2>1, <2>3 DEF Enqueue, RecordAccepted
    <3> QED
      BY <3>2, <3>3, SlotsUnseen
  <2> QED
    BY <2>2, <2>3
<1>2. CASE DoPull \/ DoAck \/ DoSweep
  <2>1. PICK now \in Readings : /\ invites' = SweptInvites(now)
                                /\ UNCHANGED <<clock, minted, redemptions, handshakes>>
    BY <1>2 DEF DoPull, PullLegacy, PullLeased, DoAck, Ack, DoSweep, RetentionSweep,
                RouteStatus, SweepExpired, history
  <2>2. PICK G : G = Lapsed(now)
    OBVIOUS
  <2>3. G \in SUBSET SlotsDue
    BY <2>2, LapsedAreDue
  <2>4. PromisedSlots!Drop(G)
    BY <2>1, <2>2, SweepDrops
  <2> QED
    BY <2>3, <2>4, Zenon DEF PromisedSlots!Next
<1>3. CASE DoInviteCreate
  <2>1. PICK key \in InviteKeys, cap \in Caps, token \in Tokens \ minted, now \in Readings :
           \E expiry \in (now + 1)..(now + MaxExpiry) :
              InviteCreate(key, cap, token, expiry, now)
    BY <1>3 DEF DoInviteCreate
  <2>2. PICK G, s : G = Lapsed(now) /\ s = Sha256(token)
    OBVIOUS
  <2>3. G \in SUBSET SlotsDue
    BY <2>2, LapsedAreDue
  <2>4. s \in Hashes(Tokens) /\ PromisedSlots!Publish(s, G)
    BY <2>1, <2>2, CreatePublishes
  <2> QED
    BY <2>3, <2>4, Zenon DEF PromisedSlots!Next
<1>4. CASE DoInviteRedeem
  <2>1. PICK key \in InviteKeys, now \in Readings, ticket \in Tokens \ minted, cap \in Caps :
           InviteRedeem(key, now, ticket, cap)
    BY <1>4 DEF DoInviteRedeem
  <2>2. PICK s, t : s = invites[key].revoke_hash /\ t = Sha256(ticket)
    OBVIOUS
  <2>3. s \in Hashes(Tokens) /\ t \in Hashes(Tokens) /\ PromisedSlots!Redeem(s, t)
    BY <2>1, <2>2, RedeemRedeems
  <2> QED
    BY <2>3, Zenon DEF PromisedSlots!Next
<1>5. CASE DoInviteRevoke
  <2>1. PICK key \in InviteKeys, token \in minted : InviteRevoke(key, token)
    BY <1>5 DEF DoInviteRevoke
  <2>2. PICK s : s = invites[key].revoke_hash
    OBVIOUS
  <2>3. s \in Hashes(Tokens) /\ PromisedSlots!Revoke(s)
    BY <2>1, <2>2, RevokeRevokes
  <2> QED
    BY <2>3, Zenon DEF PromisedSlots!Next
<1>6. CASE Tick
  BY <1>6, TickShowsSlotsDue DEF PromisedSlots!Next
<1>7. CASE UNCHANGED storeVars
  BY <1>7, SlotsUnseen DEF storeVars
<1> QED
  BY <1>1, <1>2, <1>3, <1>4, <1>5, <1>6, <1>7 DEF Next

\* The store implements invite slots: every slot is redeemed at most once,
\* admits at most one message, for the ticket of its redemption, is out of use
\* once revoked and is dropped only when it is due, for every interleaving of
\* creates, redemptions, revocations, pushes and sweeps.
THEOREM SlotsKept == Spec => SlotsPromised
<1>1. Init => PromisedSlots!Init
  BY DEF Init, PromisedSlots!Init, Life, SlotsDue, Hashes
<1>2. InviteInv /\ InviteInv' /\ TicketsApart /\ [Next]_storeVars
        => [PromisedSlots!Next]_(PromisedSlots!slotVars)
  BY SlotStep
<1> QED
  BY <1>1, <1>2, InviteInvariant, TicketsStayApart, PTL DEF Spec, SlotsPromised, PromisedSlots!Spec
=============================================================================
