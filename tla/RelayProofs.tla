---------------------------- MODULE RelayProofs ----------------------------
(***************************************************************************)
(* Proof that the handlers, however they interleave, crash, fail or lose   *)
(* their clients, drive the store only through the operations of module    *)
(* Store.  Every theorem about the store so holds of the whole relay.      *)
(***************************************************************************)
EXTENDS Relay, InviteProofs

Steps == {"idle", "status", "prune", "rate", "tx", "finish", "done"}

RelayInv == TypeOK /\ RelayTypeOK

LEMMA RelayTypeInit == RelayInit => RelayInv
<1> SUFFICES ASSUME RelayInit PROVE RelayInv
  OBVIOUS
<1>1. TypeOK
  BY TypeInit DEF RelayInit
<1>2. clock = 0
  BY DEF RelayInit, Init
<1>3. \A p \in Handlers : WellFormed(req[p]) /\ ~Carries(p)
  BY DEF RelayInit, WellFormed, NoRequest, Carries
<1> QED
  BY <1>1, <1>2, <1>3 DEF RelayInit, RelayInv, RelayTypeOK

----------------------------------------------------------------------------
(* Each handler step is a step of the store, or leaves it alone.           *)

\* What a handler in its transaction hands to the store.
LEMMA StepArguments ==
    ASSUME RelayInv, NEW p \in Handlers
    PROVE  readAt[p] \in Readings /\ WellFormed(req[p])
BY LimitAssumption DEF RelayInv, RelayTypeOK, TypeOK, Readings

LEMMA EnqueueStep ==
    ASSUME RelayInv, NEW p \in Handlers, PushEnqueue(p)
    PROVE  DoEnqueue \/ UNCHANGED storeVars
<1>1. /\ req[p].key \in Keys
      /\ req[p].id \in MsgIds
      /\ req[p].bytes \in Sizes
      /\ req[p].ticket \in minted \cup {Null}
  BY StepArguments DEF PushEnqueue, WellFormed
<1> QED
  BY <1>1, StepArguments DEF PushEnqueue, DoEnqueue

LEMMA PullStep ==
    ASSUME RelayInv, NEW p \in Handlers, Pull(p)
    PROVE  DoPull
<1>1. req[p].key \in Keys /\ req[p].max \in 1..MaxQueueDepth
  BY StepArguments DEF Pull, WellFormed
<1> QED
  BY <1>1, StepArguments DEF Pull, DoPull

LEMMA AckStep ==
    ASSUME RelayInv, NEW p \in Handlers, AckMessages(p)
    PROVE  DoAck
<1>1. req[p].key \in Keys /\ req[p].ids \in (SUBSET MsgIds) \ {{}}
  BY StepArguments DEF AckMessages, WellFormed
<1> QED
  BY <1>1, StepArguments DEF AckMessages, DoAck

\* The clamped expiry lies after the handler's clock and within the limit.
LEMMA ClampInRange ==
    ASSUME NEW now \in Nat, NEW expiry \in Nat, expiry > now
    PROVE  Clamp(expiry, now) \in (now + 1)..(now + MaxExpiry)
BY LimitAssumption DEF Clamp

LEMMA CreateStep ==
    ASSUME RelayInv, NEW p \in Handlers, CreateInvite(p)
    PROVE  DoInviteCreate \/ UNCHANGED storeVars
<1>1. Carries(p) /\ req[p].op = "create"
  BY DEF CreateInvite, Carries
<1>2. /\ req[p].key \in InviteKeys
      /\ req[p].cap \in Caps
      /\ req[p].expiry \in Nat
  BY <1>1, StepArguments DEF WellFormed
<1>3. /\ secret[p] \in Tokens \ minted
      /\ req[p].expiry > readAt[p]
      /\ readAt[p] \in Nat
  BY <1>1, LimitAssumption DEF RelayInv, RelayTypeOK, TypeOK
<1>4. Clamp(req[p].expiry, readAt[p]) \in (readAt[p] + 1)..(readAt[p] + MaxExpiry)
  BY <1>2, <1>3, ClampInRange
<1>5. readAt[p] \in Readings
  BY StepArguments
<1> QED
  BY <1>2, <1>3, <1>4, <1>5 DEF CreateInvite, DoInviteCreate

LEMMA RedeemStep ==
    ASSUME RelayInv, NEW p \in Handlers, RedeemInvite(p)
    PROVE  DoInviteRedeem \/ UNCHANGED storeVars
<1>1. Carries(p)
  BY DEF RedeemInvite, Carries
<1>2. req[p].key \in InviteKeys /\ req[p].cap \in Caps
  BY StepArguments DEF RedeemInvite, WellFormed
<1>3. secret[p] \in Tokens \ minted /\ readAt[p] \in Readings
  BY <1>1, StepArguments DEF RelayInv, RelayTypeOK
<1> QED
  BY <1>2, <1>3 DEF RedeemInvite, DoInviteRedeem

LEMMA RevokeStep ==
    ASSUME RelayInv, NEW p \in Handlers, RevokeInvite(p)
    PROVE  DoInviteRevoke \/ UNCHANGED storeVars
<1>1. req[p].key \in InviteKeys /\ req[p].token \in minted
  BY StepArguments DEF RevokeInvite, WellFormed
<1> QED
  BY <1>1 DEF RevokeInvite, DoInviteRevoke

LEMMA StatusStep ==
    ASSUME RelayInv, NEW p \in Handlers, PushStatus(p) \/ Sweep(p)
    PROVE  DoSweep
BY StepArguments DEF PushStatus, Sweep, DoSweep

\* The refinement, step by step.
LEMMA RelayStep ==
    ASSUME RelayInv, [RelayNext]_relayVars
    PROVE  [Next]_storeVars
<1>1. CASE UNCHANGED relayVars
  BY <1>1 DEF relayVars
<1>2. ASSUME NEW p \in Handlers, Progress(p)
      PROVE  [Next]_storeVars
  <2>1. CASE PushStatus(p) \/ Sweep(p)
    BY <2>1, StatusStep DEF Next
  <2>2. CASE PushEnqueue(p)
    BY <2>2, EnqueueStep DEF Next
  <2>3. CASE Pull(p)
    BY <2>3, PullStep DEF Next
  <2>4. CASE AckMessages(p)
    BY <2>4, AckStep DEF Next
  <2>5. CASE CreateInvite(p)
    BY <2>5, CreateStep DEF Next
  <2>6. CASE RedeemInvite(p)
    BY <2>6, RedeemStep DEF Next
  <2>7. CASE RevokeInvite(p)
    BY <2>7, RevokeStep DEF Next
  <2>8. CASE PushPrune(p) \/ PushRate(p) \/ Finish(p) \/ CreateRate(p) \/ Reply(p)
    BY <2>8 DEF PushPrune, PushRate, Finish, CreateRate, Reply
  <2> QED
    BY <1>2, <2>1, <2>2, <2>3, <2>4, <2>5, <2>6, <2>7, <2>8 DEF Progress
<1>3. CASE \E p \in Handlers : Arrive(p) \/ StoreError(p) \/ Disconnect(p)
  BY <1>3 DEF Arrive, StoreError, Disconnect
<1>4. CASE SweeperWakes \/ Crash
  BY <1>4 DEF SweeperWakes, Crash
<1>5. CASE TimePasses
  BY <1>5 DEF TimePasses, Next
<1> QED
  BY <1>1, <1>2, <1>3, <1>4, <1>5 DEF RelayNext

----------------------------------------------------------------------------
(* The handlers' own state stays well formed.                              *)

\* The steps that only move one handler on, and perhaps store its token.
LEMMA PcStep ==
    ASSUME RelayInv, NEW p \in Handlers, NEW x \in Steps,
           pc' = [pc EXCEPT ![p] = x],
           x = "tx" => pc[p] = "tx" \/ req[p].op \notin {"create", "redeem"},
           UNCHANGED <<req, readAt, secret, clock>>,
           minted \subseteq minted',
           \A q \in Handlers : (Carries(q) /\ (q # p \/ x = "tx"))
                => secret[q] \notin minted'
    PROVE  RelayTypeOK'
<1>1. pc' \in [Handlers -> Steps]
  BY DEF RelayInv, RelayTypeOK, Steps
<1>2. \A q \in Handlers : Carries(q)' => Carries(q) /\ (q # p \/ x = "tx")
  BY DEF RelayInv, RelayTypeOK, Carries
<1>3. \A q \in Handlers : WellFormed(req[q])'
  <2> SUFFICES ASSUME NEW q \in Handlers PROVE WellFormed(req[q])'
    OBVIOUS
  <2>1. WellFormed(req[q])
    BY DEF RelayInv, RelayTypeOK
  <2> QED
    BY <2>1 DEF WellFormed
<1>4. \A q \in Handlers : Carries(q)' =>
          /\ secret'[q] \in Tokens \ minted'
          /\ \A r \in Handlers \ {q} : secret'[r] # secret'[q]
  BY <1>2 DEF RelayInv, RelayTypeOK
<1>5. \A q \in Handlers : (Carries(q) /\ req[q].op = "create")'
          => req'[q].expiry > readAt'[q]
  BY <1>2 DEF RelayInv, RelayTypeOK
<1> QED
  BY <1>1, <1>3, <1>4, <1>5 DEF RelayInv, RelayTypeOK, Steps

\* A handler without a token of its own takes a fresh one, or none, and moves on.
LEMMA TokenStep ==
    ASSUME RelayInv, NEW p \in Handlers, NEW x \in Steps, NEW r, NEW t,
           NEW a \in 0..clock,
           ~Carries(p),
           pc' = [pc EXCEPT ![p] = x],
           req' = [req EXCEPT ![p] = r],
           readAt' = [readAt EXCEPT ![p] = a],
           secret' = [secret EXCEPT ![p] = t],
           t \in FreshTokens \/ (t \in {secret[p], Null} /\ ~Carries(p)'),
           UNCHANGED storeVars,
           WellFormed(r),
           (x = "tx" /\ r.op = "create") => r.expiry > a
    PROVE  RelayTypeOK'
<1>1. pc' \in [Handlers -> Steps] /\ req' = [q \in Handlers |-> req'[q]]
  BY DEF RelayInv, RelayTypeOK, Steps
<1>2. clock \in Nat /\ clock' = clock /\ minted' = minted
  BY DEF RelayInv, TypeOK, storeVars
<1>3. readAt' \in [Handlers -> 0..clock']
  BY <1>2 DEF RelayInv, RelayTypeOK
<1>4. secret' \in [Handlers -> Tokens \cup {Null}]
  BY DEF RelayInv, RelayTypeOK, FreshTokens
<1>5. \A q \in Handlers : WellFormed(req[q])'
  <2> SUFFICES ASSUME NEW q \in Handlers PROVE WellFormed(req[q])'
    OBVIOUS
  <2>1. WellFormed(req'[q])
    BY DEF RelayInv, RelayTypeOK
  <2> QED
    BY <2>1, <1>2 DEF WellFormed
<1>6. \A q \in Handlers \ {p} :
          /\ Carries(q)' <=> Carries(q)
          /\ secret'[q] = secret[q] /\ req'[q] = req[q] /\ readAt'[q] = readAt[q]
  BY DEF RelayInv, RelayTypeOK, Carries
<1>7. secret'[p] = t /\ req'[p] = r /\ readAt'[p] = a /\ pc'[p] = x
  BY DEF RelayInv, RelayTypeOK
<1>8. ASSUME NEW q \in Handlers, Carries(q)'
      PROVE  /\ secret'[q] \in Tokens \ minted'
             /\ \A u \in Handlers \ {q} : secret'[u] # secret'[q]
  <2>1. CASE q = p
    <3>1. t \in FreshTokens
      BY <2>1, <1>8
    <3> QED
      BY <3>1, <2>1, <1>2, <1>6, <1>7 DEF FreshTokens
  <2>2. CASE q # p
    <3>1. Carries(q) /\ secret'[q] = secret[q]
      BY <2>2, <1>6, <1>8
    <3>2. /\ secret[q] \in Tokens \ minted
          /\ \A u \in Handlers \ {q} : secret[u] # secret[q]
      BY <3>1 DEF RelayInv, RelayTypeOK
    <3>3. t # secret[q]
      BY <3>2, <2>2, SetAssumption DEF FreshTokens
    <3> QED
      BY <3>1, <3>2, <3>3, <2>2, <1>2, <1>6, <1>7
  <2> QED
    BY <2>1, <2>2
<1>9. ASSUME NEW q \in Handlers, Carries(q)', req'[q].op = "create"
      PROVE  req'[q].expiry > readAt'[q]
  <2>1. CASE q = p
    BY <2>1, <1>7, <1>9 DEF Carries
  <2>2. CASE q # p
    BY <2>2, <1>6, <1>9 DEF RelayInv, RelayTypeOK
  <2> QED
    BY <2>1, <2>2
<1> QED
  BY <1>1, <1>3, <1>4, <1>5, <1>8, <1>9 DEF RelayTypeOK, Steps

LEMMA ArrivalsWellFormed ==
    ASSUME RelayInv, NEW r \in Requests
    PROVE  WellFormed(r)
<1>1. clock \in Nat
  BY DEF RelayInv, TypeOK
<1> QED
  BY <1>1 DEF Requests, PushRequests, PullRequests, AckRequests, CreateRequests,
              RedeemRequests, RevokeRequests, WellFormed

LEMMA ArriveKeepsType ==
    ASSUME RelayInv, NEW p \in Handlers, Arrive(p)
    PROVE  RelayTypeOK'
<1>1. PICK r \in Requests :
          /\ req' = [req EXCEPT ![p] = r]
          /\ pc' = [pc EXCEPT ![p] = FirstStep(r.op)]
          /\ readAt' = [readAt EXCEPT ![p] = clock]
          /\ IF r.op = "redeem"
               THEN \E t \in FreshTokens : secret' = [secret EXCEPT ![p] = t]
               ELSE UNCHANGED secret
  BY DEF Arrive
<1>2. WellFormed(r) /\ FirstStep(r.op) \in Steps
  BY ArrivalsWellFormed DEF FirstStep, Steps
<1>3. ~Carries(p) /\ UNCHANGED storeVars /\ clock \in 0..clock
  BY DEF Arrive, Carries, RelayInv, TypeOK
<1>4. FirstStep(r.op) = "tx" => r.op # "create"
  BY DEF FirstStep
<1>5. \E t : /\ secret' = [secret EXCEPT ![p] = t]
             /\ t \in FreshTokens \/ (t \in {secret[p], Null} /\ ~Carries(p)')
  <2>1. CASE r.op = "redeem"
    BY <1>1, <2>1
  <2>2. CASE r.op # "redeem"
    <3>1. secret' = [secret EXCEPT ![p] = secret[p]]
      BY <1>1, <2>2 DEF RelayInv, RelayTypeOK
    <3>2. ~Carries(p)'
      BY <1>1, <1>4, <2>2 DEF Carries, RelayInv, RelayTypeOK
    <3> QED
      BY <3>1, <3>2
  <2> QED
    BY <2>1, <2>2
<1> QED
  BY <1>1, <1>2, <1>3, <1>4, <1>5, TokenStep

LEMMA SweeperKeepsType ==
    ASSUME RelayInv, SweeperWakes
    PROVE  RelayTypeOK'
<1>1. Sweeper \in Handlers /\ "tx" \in Steps
  BY DEF Handlers, Steps
<1>2. WellFormed(SweepRequest) /\ SweepRequest.op = "sweep"
  BY DEF WellFormed, SweepRequest
<1>3. ~Carries(Sweeper) /\ UNCHANGED storeVars /\ clock \in 0..clock
  BY DEF SweeperWakes, Carries, RelayInv, TypeOK
<1>4. secret' = [secret EXCEPT ![Sweeper] = secret[Sweeper]]
  BY <1>1 DEF SweeperWakes, RelayInv, RelayTypeOK
<1>5. ~Carries(Sweeper)'
  BY <1>1, <1>2 DEF SweeperWakes, Carries, RelayInv, RelayTypeOK
<1> QED
  BY <1>1, <1>2, <1>3, <1>4, <1>5, TokenStep DEF SweeperWakes

LEMMA ReplyKeepsType ==
    ASSUME RelayInv, NEW p \in Handlers, Reply(p)
    PROVE  RelayTypeOK'
<1>1. "idle" \in Steps /\ WellFormed(NoRequest) /\ NoRequest.op = "none"
  BY DEF Steps, WellFormed, NoRequest
<1>2. ~Carries(p) /\ UNCHANGED storeVars /\ 0 \in 0..clock
  BY DEF Reply, Carries, RelayInv, TypeOK
<1>3. ~Carries(p)'
  BY DEF Reply, Carries, RelayInv, RelayTypeOK
<1> QED
  BY <1>1, <1>2, <1>3, TokenStep DEF Reply

LEMMA CreateRateKeepsType ==
    ASSUME RelayInv, NEW p \in Handlers, CreateRate(p)
    PROVE  RelayTypeOK'
<1> DEFINE ok == Create!Granted(createBucket, clock)
           late == req[p].expiry <= clock
           x == IF ok /\ ~late THEN "tx" ELSE "done"
<1>1. /\ pc[p] = "rate"
      /\ req[p].op = "create"
      /\ pc' = [pc EXCEPT ![p] = x]
      /\ readAt' = [readAt EXCEPT ![p] = clock]
      /\ IF ok /\ ~late
           THEN \E t \in FreshTokens : secret' = [secret EXCEPT ![p] = t]
           ELSE UNCHANGED secret
      /\ UNCHANGED <<storeVars, req>>
  BY DEF CreateRate
<1>2. x = "tx" => ok /\ ~late
  OBVIOUS
<1> HIDE DEF ok
<1>3. x \in Steps
  BY DEF Steps
<1>4. ~Carries(p) /\ clock \in 0..clock /\ WellFormed(req[p])
  BY <1>1 DEF Carries, RelayInv, RelayTypeOK, TypeOK
<1>5. x = "tx" => req[p].expiry > clock
  BY <1>1, <1>2, <1>4 DEF WellFormed, RelayInv, TypeOK
<1>6. req' = [req EXCEPT ![p] = req[p]]
  BY <1>1 DEF RelayInv, RelayTypeOK
<1>7. \E t : /\ secret' = [secret EXCEPT ![p] = t]
             /\ t \in FreshTokens \/ (t \in {secret[p], Null} /\ ~Carries(p)')
  <2>1. CASE ok /\ ~late
    BY <1>1, <2>1
  <2>2. CASE ~(ok /\ ~late)
    <3>1. secret' = [secret EXCEPT ![p] = secret[p]]
      BY <1>1, <2>2 DEF RelayInv, RelayTypeOK
    <3>2. ~Carries(p)'
      BY <1>1, <2>2 DEF Carries, RelayInv, RelayTypeOK
    <3> QED
      BY <3>1, <3>2
  <2> QED
    BY <2>1, <2>2
<1> HIDE DEF x
<1> QED
  BY <1>1, <1>3, <1>4, <1>5, <1>6, <1>7, TokenStep

LEMMA CrashKeepsType ==
    ASSUME RelayInv, Crash
    PROVE  RelayTypeOK'
<1>1. \A p \in Handlers : req'[p] = NoRequest /\ pc'[p] = "idle"
  BY DEF Crash, Fresh
<1>2. \A p \in Handlers : WellFormed(req[p])' /\ ~Carries(p)'
  BY <1>1 DEF WellFormed, NoRequest, Carries
<1>3. clock' \in Nat
  BY DEF Crash, storeVars, RelayInv, TypeOK
<1> QED
  BY <1>2, <1>3 DEF Crash, Fresh, RelayTypeOK

\* The steps that mint nothing: a transaction, the bucket lock, a fault.
LEMMA QuietKeepsType ==
    ASSUME RelayInv, NEW p \in Handlers,
           \/ PushStatus(p) \/ PushPrune(p) \/ PushRate(p) \/ PushEnqueue(p)
           \/ Pull(p) \/ AckMessages(p) \/ Sweep(p) \/ Finish(p)
           \/ RevokeInvite(p) \/ StoreError(p) \/ Disconnect(p)
    PROVE  RelayTypeOK'
<1>1. UNCHANGED <<req, readAt, secret>>
  BY DEF PushStatus, PushPrune, PushRate, PushEnqueue, Pull, AckMessages, Sweep,
         Finish, RevokeInvite, StoreError, Disconnect, Back
<1>2. UNCHANGED <<clock, minted>>
  BY DEF PushStatus, PushPrune, PushRate, PushEnqueue, Pull, AckMessages, Sweep,
         Finish, RevokeInvite, StoreError, Disconnect, RouteStatus, Enqueue,
         PullLegacy, PullLeased, Ack, RetentionSweep, InviteRevoke, storeVars, history
<1>3. pc[p] \in Steps
  BY DEF RelayInv, RelayTypeOK, Steps
<1>4. \E x \in Steps :
         /\ pc' = [pc EXCEPT ![p] = x]
         /\ x = "tx" => pc[p] = "tx" \/ req[p].op \notin {"create", "redeem"}
  <2>1. CASE PushStatus(p)
    BY <2>1 DEF PushStatus, Back, Steps
  <2>2. CASE PushPrune(p)
    BY <2>2 DEF PushPrune, Steps
  <2>3. CASE PushRate(p)
    BY <2>3 DEF PushRate, Steps
  <2>4. CASE PushEnqueue(p)
    BY <2>4 DEF PushEnqueue, Back, Steps
  <2>5. CASE Pull(p)
    BY <2>5 DEF Pull, Back, Steps
  <2>6. CASE AckMessages(p)
    BY <2>6 DEF AckMessages, Back, Steps
  <2>7. CASE Sweep(p)
    BY <2>7 DEF Sweep, Back, Steps
  <2>8. CASE Finish(p) \/ StoreError(p)
    BY <2>8 DEF Finish, StoreError, Steps
  <2>9. CASE RevokeInvite(p)
    BY <2>9 DEF RevokeInvite, Back, Steps
  <2>10. CASE Disconnect(p)
    <3>1. pc' = [pc EXCEPT ![p] =
                   IF pc[p] \in {"prune", "finish"} THEN "done" ELSE pc[p]]
      BY <2>10 DEF Disconnect
    <3> QED
      BY <3>1, <1>3 DEF Steps
  <2> QED
    BY <2>1, <2>2, <2>3, <2>4, <2>5, <2>6, <2>7, <2>8, <2>9, <2>10
<1>5. \A q \in Handlers : Carries(q) => secret[q] \notin minted'
  BY <1>2 DEF RelayInv, RelayTypeOK
<1> QED
  BY <1>1, <1>2, <1>4, <1>5, PcStep

\* The transactions that store a token: nobody else carries that token.
LEMMA MintKeepsType ==
    ASSUME RelayInv, NEW p \in Handlers, CreateInvite(p) \/ RedeemInvite(p)
    PROVE  RelayTypeOK'
<1>1. Carries(p) /\ UNCHANGED <<req, readAt, secret>>
  BY DEF CreateInvite, RedeemInvite, Back, Carries
<1>2. clock' = clock /\ minted' \in {minted, minted \cup {secret[p]}}
  BY DEF CreateInvite, RedeemInvite, InviteCreate, InviteRedeem, storeVars
<1>3. \E x \in Steps : pc' = [pc EXCEPT ![p] = x] /\ x # "tx"
  BY DEF CreateInvite, RedeemInvite, Back, Steps
<1>4. \A q \in Handlers \ {p} : Carries(q) => secret[q] \notin minted'
  BY <1>1, <1>2 DEF RelayInv, RelayTypeOK
<1> QED
  BY <1>1, <1>2, <1>3, <1>4, PcStep

LEMMA TimeKeepsType ==
    ASSUME RelayInv, TimePasses
    PROVE  RelayTypeOK'
<1>1. UNCHANGED <<pc, req, readAt, secret, minted>>
  BY DEF TimePasses, Tick, volatile, handlerVars, history
<1>2. clock \in Nat /\ clock' = clock + 1
  BY DEF TimePasses, Tick, RelayInv, TypeOK
<1>3. readAt' \in [Handlers -> 0..clock']
  BY <1>1, <1>2 DEF RelayInv, RelayTypeOK
<1>4. \A q \in Handlers : WellFormed(req[q])' /\ (Carries(q)' <=> Carries(q))
  BY <1>1 DEF RelayInv, RelayTypeOK, WellFormed, Carries
<1> QED
  BY <1>1, <1>3, <1>4 DEF RelayInv, RelayTypeOK

LEMMA RelayTypeStep ==
    ASSUME RelayInv, [RelayNext]_relayVars
    PROVE  RelayInv'
<1>1. TypeOK'
  BY RelayStep, TypeNext DEF RelayInv
<1>2. RelayTypeOK'
  <2>1. CASE UNCHANGED relayVars
    <3>1. UNCHANGED <<pc, req, readAt, secret, minted, clock>>
      BY <2>1 DEF relayVars, handlerVars, storeVars
    <3>2. \A q \in Handlers : WellFormed(req[q])' /\ (Carries(q)' <=> Carries(q))
      BY <3>1 DEF RelayInv, RelayTypeOK, WellFormed, Carries
    <3> QED
      BY <3>1, <3>2 DEF RelayInv, RelayTypeOK
  <2>2. ASSUME NEW p \in Handlers, Arrive(p) \/ Progress(p) \/ StoreError(p) \/ Disconnect(p)
        PROVE  RelayTypeOK'
    BY <2>2, ArriveKeepsType, QuietKeepsType, MintKeepsType, CreateRateKeepsType,
       ReplyKeepsType DEF Progress
  <2> QED
    BY <2>1, <2>2, SweeperKeepsType, CrashKeepsType, TimeKeepsType DEF RelayNext
<1> QED
  BY <1>1, <1>2 DEF RelayInv

----------------------------------------------------------------------------
(* The theorems about the relay.                                           *)

\* Requests, clock readings and tokens in flight are always well formed: no
\* interleaving of handlers, crash, disconnect or failed transaction lets two
\* handlers carry one token, or a stored one.
THEOREM RelayTypeCorrect == RelaySpec => [](TypeOK /\ RelayTypeOK)
<1>1. RelayInv /\ [RelayNext]_relayVars => RelayInv'
  BY RelayTypeStep
<1>2. RelaySpec => []RelayInv
  BY RelayTypeInit, <1>1, PTL DEF RelaySpec
<1> QED
  BY <1>2, PTL DEF RelayInv

\* The relay refines the store: every step of every handler is one operation
\* of module Store or leaves the store alone.
THEOREM RelayRefinesStore == RelaySpec => StoreSpec
<1>1. RelayInit => Init
  BY DEF RelayInit
<1>2. RelayInv /\ [RelayNext]_relayVars => [Next]_storeVars
  BY RelayStep
<1>3. RelaySpec => []RelayInv
  BY RelayTypeCorrect, PTL DEF RelayInv
<1> QED
  BY <1>1, <1>2, <1>3, PTL DEF RelaySpec, StoreSpec, Spec

\* So what the store promises, the running relay promises: nothing accepted
\* is lost, deliveries are in order, the limits hold and no route leaks.
THEOREM RelayMailbox ==
    RelaySpec => [](NoLoss /\ FirstDeliveryInOrder /\ ResourceBounds /\ RoutesExactlyLive)
BY RelayRefinesStore, NothingLost, InOrder, LimitsHold, RoutesReleased, PTL DEF StoreSpec

\* And of invites: a slot is redeemed once, admits one handshake, and is dead
\* once it is revoked, whatever concurrent requests do.
THEOREM RelayInvites ==
    RelaySpec => [](OneRedemption /\ OneHandshake /\ SlotMatchesHistory) /\ RevokedIsDead
BY RelayRefinesStore, SingleUse, OneHandshakePerSlot, SlotsTellTheTruth, RevocationIsFinal, PTL
   DEF StoreSpec

\* The two promises in full: concurrent handlers, crashes, disconnects and
\* failing transactions leave clients with mailboxes and with invite slots.
THEOREM RelayKeepsPromises == RelaySpec => MailboxesPromised /\ SlotsPromised
BY RelayRefinesStore, MailboxesKept, SlotsKept, PTL DEF StoreSpec

----------------------------------------------------------------------------
(* The rate buckets, on a relay without invites whose clients stay and     *)
(* whose transactions do not fail.  (Otherwise buckets do leak: run        *)
(* bucket_leak, and section 5 of the README.)                              *)

Undisturbed == InviteKeys = {} /\ ~MayDisconnect /\ ~MayFail

UsedBy(p, k) ==
    \/ k \in release[p] /\ pc[p] \in {"prune", "finish"}
    \/ req[p].op = "push" /\ req[p].key = k /\ pc[p] = "tx"

BucketInv ==
    /\ RelayInv
    /\ release = [p \in Handlers |-> release[p]]
    /\ gone = [p \in Handlers |-> FALSE]
    /\ BucketsAccounted

\* One handler moves; a bucket it does not account for itself has its route or
\* another user, as before.
LEMMA BucketsMove ==
    ASSUME BucketInv, NEW p \in Handlers, NEW x, NEW K, NEW r,
           pc' = [pc EXCEPT ![p] = x],
           release' = [release EXCEPT ![p] = K],
           req' = [req EXCEPT ![p] = r],
           \A k \in DOMAIN buckets' :
              \/ k \in routes'
              \/ k \in K /\ x \in {"prune", "finish"}
              \/ r.op = "push" /\ r.key = k /\ x = "tx"
              \/ k \in DOMAIN buckets /\ k \notin routes /\ ~UsedBy(p, k)
    PROVE  BucketsAccounted'
<1>1. /\ pc'[p] = x /\ release'[p] = K /\ req'[p] = r
      /\ \A q \in Handlers \ {p} :
            pc'[q] = pc[q] /\ release'[q] = release[q] /\ req'[q] = req[q]
  BY DEF BucketInv, RelayInv, RelayTypeOK
<1> SUFFICES ASSUME NEW k \in DOMAIN buckets', k \notin routes'
             PROVE  InUse(k)'
  BY DEF BucketsAccounted
<1>2. CASE (k \in K /\ x \in {"prune", "finish"}) \/ (r.op = "push" /\ r.key = k /\ x = "tx")
  BY <1>1, <1>2 DEF InUse
<1>3. CASE k \in DOMAIN buckets /\ k \notin routes /\ ~UsedBy(p, k)
  <2>1. PICK q \in Handlers : UsedBy(q, k)
    BY <1>3 DEF BucketInv, BucketsAccounted, InUse, UsedBy
  <2>2. q # p
    BY <1>3, <2>1
  <2> QED
    BY <1>1, <2>1, <2>2 DEF UsedBy, InUse
<1> QED
  BY <1>2, <1>3

LEMMA BucketsInit == RelayInit => BucketInv
BY RelayTypeInit DEF RelayInit, BucketInv, BucketsAccounted

\* A bucket that is new is granted its first push.
LEMMA NewBucketGrants == \A now : Push!Granted(Push!NewBucket(now), now)
BY RelayAssumption DEF Push!Granted, Push!NewBucket, Push!Refill

\* Without slots a push is refused only for the depth of its route, which then
\* exists, or for the route cap.
LEMMA RefusedPush ==
    ASSUME BucketInv, Undisturbed, NEW key, NEW now, NEW ticket
    PROVE  EnqueueOutcome(key, now, ticket) \in {"Accepted", "RouteCap"} \/ key \in routes
<1>1. DOMAIN invites = {}
  BY DEF BucketInv, RelayInv, TypeOK, Undisturbed
<1> QED
  BY <1>1 DEF EnqueueOutcome, SlotVerdict

\* A transaction that drops routes and hands exactly those to its handler.
LEMMA BucketsRelease ==
    ASSUME BucketInv, NEW p \in Handlers, NEW x \in {"prune", "finish"}, NEW K, NEW code,
           Back(p, x, K, code), pc[p] \in {"status", "tx"},
           pc[p] = "tx" => req[p].op # "push",
           routes \subseteq routes' \cup K
    PROVE  BucketsAccounted'
<1>1. /\ pc' = [pc EXCEPT ![p] = x]
      /\ release' = [release EXCEPT ![p] = K]
      /\ UNCHANGED <<req, buckets>>
  BY DEF Back, BucketInv
<1>2. req' = [req EXCEPT ![p] = req[p]]
  BY <1>1 DEF BucketInv, RelayInv, RelayTypeOK
<1>3. \A k : ~UsedBy(p, k)
  BY DEF UsedBy
<1> QED
  BY <1>1, <1>2, <1>3, BucketsMove

LEMMA BucketsEnqueue ==
    ASSUME BucketInv, Undisturbed, NEW p \in Handlers, PushEnqueue(p)
    PROVE  BucketsAccounted'
<1> DEFINE key == req[p].key
           outcome == EnqueueOutcome(key, readAt[p], req[p].ticket)
           K == RefusalReleases(key, outcome)
<1>1. /\ pc' = [pc EXCEPT ![p] = "finish"]
      /\ release' = [release EXCEPT ![p] = K]
      /\ UNCHANGED <<req, buckets>>
      /\ pc[p] = "tx" /\ req[p].op = "push"
  BY DEF PushEnqueue, Back, BucketInv
<1>2. req' = [req EXCEPT ![p] = req[p]]
  BY <1>1 DEF BucketInv, RelayInv, RelayTypeOK
<1>3. \/ routes' = routes \cup {key}
      \/ outcome # "Accepted" /\ routes' = routes
  BY DEF PushEnqueue, Enqueue, storeVars
<1>4. key \in routes' \/ key \in K
  BY <1>3, RefusedPush DEF RefusalReleases
<1>5. \A k : UsedBy(p, k) => k = key
  BY <1>1 DEF UsedBy
<1>6. \A k \in DOMAIN buckets' :
         k \in routes' \/ k \in K \/ (k \in DOMAIN buckets /\ k \notin routes /\ ~UsedBy(p, k))
  <2> HIDE DEF K, key, outcome
  <2> QED
    BY <1>1, <1>3, <1>4, <1>5
<1>7. PICK released : released = K
  OBVIOUS
<1> HIDE DEF K, key, outcome
<1> QED
  BY <1>1, <1>2, <1>6, <1>7, BucketsMove

LEMMA BucketsRate ==
    ASSUME BucketInv, NEW p \in Handlers, PushRate(p)
    PROVE  BucketsAccounted'
<1> DEFINE key == req[p].key
           entry == IF key \in DOMAIN buckets THEN buckets[key] ELSE Push!NewBucket(clock)
           ok == Push!Granted(entry, clock)
           x == IF ok THEN "tx" ELSE "done"
<1>1. /\ DOMAIN buckets' = DOMAIN buckets \cup {key}
      /\ pc' = [pc EXCEPT ![p] = x]
      /\ UNCHANGED <<routes, req, release>>
      /\ pc[p] = "rate" /\ req[p].op = "push"
  BY DEF PushRate, storeVars
<1>2. req' = [req EXCEPT ![p] = req[p]] /\ release' = [release EXCEPT ![p] = release[p]]
  BY <1>1 DEF BucketInv, RelayInv, RelayTypeOK
<1>3. key \notin DOMAIN buckets => x = "tx"
  BY NewBucketGrants
<1>4. \A k : ~UsedBy(p, k)
  BY <1>1 DEF UsedBy
<1> HIDE DEF x, key
<1>5. \A k \in DOMAIN buckets' :
         \/ k \in routes'
         \/ k \in release[p] /\ x \in {"prune", "finish"}
         \/ req[p].op = "push" /\ req[p].key = k /\ x = "tx"
         \/ k \in DOMAIN buckets /\ k \notin routes /\ ~UsedBy(p, k)
  BY <1>1, <1>3, <1>4 DEF key
<1>6. PICK y, K, r : y = x /\ K = release[p] /\ r = req[p]
  OBVIOUS
<1>7. /\ pc' = [pc EXCEPT ![p] = y]
      /\ release' = [release EXCEPT ![p] = K]
      /\ req' = [req EXCEPT ![p] = r]
  BY <1>1, <1>2, <1>6
<1> HIDE DEF entry, ok
<1> QED
  BY <1>5, <1>6, <1>7, BucketsMove

\* The lock is taken once more and the released entries are dropped.
LEMMA BucketsDrop ==
    ASSUME BucketInv, NEW p \in Handlers, PushPrune(p) \/ Finish(p)
    PROVE  BucketsAccounted'
<1>1. PICK x \in {"rate", "done"} : pc' = [pc EXCEPT ![p] = x]
  BY DEF PushPrune, Finish
<1>2. /\ DOMAIN buckets' = DOMAIN buckets \ release[p]
      /\ release' = [release EXCEPT ![p] = {}]
      /\ UNCHANGED <<routes, req>>
      /\ pc[p] \in {"prune", "finish"}
  BY DEF PushPrune, Finish, DropBuckets, storeVars
<1>3. req' = [req EXCEPT ![p] = req[p]]
  BY <1>2 DEF BucketInv, RelayInv, RelayTypeOK
<1>4. \A k \in DOMAIN buckets' : k \in DOMAIN buckets /\ ~UsedBy(p, k)
  BY <1>2 DEF UsedBy
<1> QED
  BY <1>1, <1>2, <1>3, <1>4, BucketsMove

\* A handler that starts or ends uses no bucket.
LEMMA BucketsIdle ==
    ASSUME BucketInv, NEW p \in Handlers,
           pc[p] \in {"idle", "rate", "done"},
           NEW x, NEW K, NEW r,
           pc' = [pc EXCEPT ![p] = x],
           release' = [release EXCEPT ![p] = K],
           req' = [req EXCEPT ![p] = r],
           UNCHANGED <<buckets, routes>>
    PROVE  BucketsAccounted'
<1>1. \A k : ~UsedBy(p, k)
  BY DEF UsedBy
<1> QED
  BY <1>1, BucketsMove

\* Without invite keys no handler serves an invite request.
LEMMA NoInviteRequests ==
    ASSUME BucketInv, Undisturbed, NEW p \in Handlers
    PROVE  req[p].op \notin {"create", "redeem", "revoke"}
<1>1. WellFormed(req[p])
  BY DEF BucketInv, RelayInv, RelayTypeOK
<1> QED
  BY <1>1 DEF WellFormed, Undisturbed

LEMMA BucketsStep ==
    ASSUME BucketInv, Undisturbed, [RelayNext]_relayVars
    PROVE  BucketInv'
<1>1. RelayInv'
  BY RelayTypeStep DEF BucketInv
<1>2. ASSUME NEW p \in Handlers, Arrive(p) \/ Reply(p)
      PROVE  BucketsAccounted'
  <2>1. /\ pc[p] \in {"idle", "done"}
        /\ \E x : pc' = [pc EXCEPT ![p] = x]
        /\ \E r : req' = [req EXCEPT ![p] = r]
        /\ UNCHANGED <<buckets, routes>>
    BY <1>2 DEF Arrive, Reply, storeVars
  <2>2. \E K : release' = [release EXCEPT ![p] = K]
    <3>1. [release EXCEPT ![p] = release[p]] = release
      BY DEF BucketInv
    <3> QED
      BY <1>2, <3>1 DEF Arrive, Reply
  <2> QED
    BY <2>1, <2>2, BucketsIdle
<1>3. ASSUME SweeperWakes PROVE BucketsAccounted'
  <2>1. Sweeper \in Handlers
    BY DEF Handlers
  <2>2. [release EXCEPT ![Sweeper] = release[Sweeper]] = release
    BY <2>1 DEF BucketInv
  <2> QED
    BY <1>3, <2>1, <2>2, BucketsIdle DEF SweeperWakes, storeVars
<1>4. ASSUME NEW p \in Handlers, PushStatus(p) \/ Sweep(p)
      PROVE  BucketsAccounted'
  <2>1. routes' = SweptRoutes(readAt[p])
    BY <1>4 DEF PushStatus, Sweep, RouteStatus, RetentionSweep, SweepExpired
  <2>2. routes \subseteq routes' \cup RemovedRoutes(readAt[p])
    BY <2>1 DEF SweptRoutes
  <2>3. CASE PushStatus(p)
    BY <2>2, <2>3, BucketsRelease DEF PushStatus
  <2>4. CASE Sweep(p)
    BY <2>2, <2>4, BucketsRelease DEF Sweep
  <2> QED
    BY <1>4, <2>3, <2>4
<1>5. ASSUME NEW p \in Handlers, Pull(p) \/ AckMessages(p)
      PROVE  BucketsAccounted'
  <2> DEFINE now == readAt[p]
             key == req[p].key
  <2>1. \A k \in SweptRoutes(now) : k # key => k \in routes'
    BY <1>5 DEF Pull, AckMessages, PullLegacy, PullLeased, Ack
  <2>2. routes \subseteq routes' \cup Gone(now, key)
    BY <2>1 DEF Gone, SweptRoutes
  <2>3. CASE Pull(p)
    BY <2>2, <2>3, BucketsRelease DEF Pull
  <2>4. CASE AckMessages(p)
    BY <2>2, <2>4, BucketsRelease DEF AckMessages
  <2> QED
    BY <1>5, <2>3, <2>4
<1>6. ASSUME NEW p \in Handlers,
             CreateRate(p) \/ CreateInvite(p) \/ RedeemInvite(p) \/ RevokeInvite(p)
      PROVE  FALSE
  BY <1>6, NoInviteRequests DEF CreateRate, CreateInvite, RedeemInvite, RevokeInvite
<1>7. ASSUME Crash PROVE BucketsAccounted'
  BY <1>7 DEF Crash, Fresh, BucketsAccounted
<1>8. ASSUME TimePasses \/ UNCHANGED relayVars PROVE BucketsAccounted'
  <2>1. UNCHANGED <<routes, buckets, pc, req, release>>
    BY <1>8 DEF TimePasses, Tick, tables, volatile, handlerVars, relayVars, storeVars
  <2> QED
    BY <2>1 DEF BucketInv, BucketsAccounted, InUse
<1>9. BucketsAccounted'
  BY <1>2, <1>3, <1>4, <1>5, <1>6, <1>7, <1>8, BucketsEnqueue, BucketsRate, BucketsDrop
     DEF RelayNext, Progress, StoreError, Disconnect, Undisturbed
<1>10. release' = [p \in Handlers |-> release'[p]]
  <2>1. CASE Crash
    BY <2>1 DEF Crash, Fresh
  <2>2. CASE \E p \in Handlers : \E K : release' = [release EXCEPT ![p] = K]
    BY <2>2 DEF BucketInv
  <2>3. CASE UNCHANGED release
    BY <2>3 DEF BucketInv
  <2>4. ASSUME NEW p \in Handlers, Progress(p) \/ Arrive(p) \/ StoreError(p) \/ Disconnect(p)
        PROVE  UNCHANGED release \/ \E K : release' = [release EXCEPT ![p] = K]
    BY <2>4 DEF Progress, Arrive, PushStatus, PushPrune, PushRate, PushEnqueue, Pull,
           AckMessages, Sweep, Finish, CreateRate, CreateInvite, RedeemInvite, RevokeInvite,
           Reply, StoreError, Disconnect, Back
  <2>5. SweeperWakes \/ TimePasses \/ UNCHANGED relayVars => UNCHANGED release
    BY DEF SweeperWakes, TimePasses, volatile, handlerVars, relayVars
  <2> QED
    BY <2>1, <2>2, <2>3, <2>4, <2>5 DEF RelayNext
<1>11. gone' = [p \in Handlers |-> FALSE]
  <2>1. CASE Crash
    BY <2>1 DEF Crash, Fresh
  <2>2. CASE \E p \in Handlers : gone' = [gone EXCEPT ![p] = FALSE]
    BY <2>2 DEF BucketInv
  <2>3. CASE UNCHANGED gone
    BY <2>3 DEF BucketInv
  <2>4. ASSUME NEW p \in Handlers, Progress(p) \/ Arrive(p) \/ StoreError(p) \/ Disconnect(p)
        PROVE  UNCHANGED gone \/ gone' = [gone EXCEPT ![p] = FALSE]
    BY <2>4 DEF Progress, Arrive, PushStatus, PushPrune, PushRate, PushEnqueue, Pull,
           AckMessages, Sweep, Finish, CreateRate, CreateInvite, RedeemInvite, RevokeInvite,
           Reply, StoreError, Disconnect, Back, Undisturbed
  <2>5. SweeperWakes \/ TimePasses \/ UNCHANGED relayVars => UNCHANGED gone
    BY DEF SweeperWakes, TimePasses, volatile, handlerVars, relayVars
  <2> QED
    BY <2>1, <2>2, <2>3, <2>4, <2>5 DEF RelayNext
<1> QED
  BY <1>1, <1>9, <1>10, <1>11 DEF BucketInv

\* Rate accounting is released with its route however pushes, pulls, acks,
\* sweeps and crashes interleave: a bucket belongs to a live route, to a push
\* on its way, or to a handler about to drop it.
THEOREM BucketsReleased ==
    ASSUME Undisturbed
    PROVE  RelaySpec => []BucketsAccounted
<1>1. BucketInv /\ [RelayNext]_relayVars => BucketInv'
  BY BucketsStep
<1>2. RelaySpec => []BucketInv
  BY <1>1, BucketsInit, PTL DEF RelaySpec
<1>3. BucketInv => BucketsAccounted
  BY DEF BucketInv
<1> QED
  BY <1>2, <1>3, PTL
=============================================================================
