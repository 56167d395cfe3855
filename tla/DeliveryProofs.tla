--------------------------- MODULE DeliveryProofs ---------------------------
(***************************************************************************)
(* Proofs about delivery over a lossy network, for any number of messages, *)
(* mailboxes and answers in flight.  The inductive invariant adds to that  *)
(* of the mailbox what the clients' knowledge is made of: every answer on  *)
(* its way and everything received was selected by some pull, rows keep    *)
(* the identifier they were accepted with, no lease outlasts PullLease,    *)
(* and what a legacy pull took is no longer in the queue.  For the clients *)
(* that scan, a batch cut short in a mailbox no deeper than the running    *)
(* relay's limit is all there is; where no restart lowers the limit, every *)
(* mailbox is such a one.                                                  *)
(***************************************************************************)
EXTENDS FinishScan, StoreProofs, SumProofs

IdsKept ==
    /\ idOf \in [1..(nextSeq - 1) -> MsgIds]
    /\ \A s \in DOMAIN messages : messages[s].msg_id = idOf[s]

AnswersWerePulled ==
    /\ got \subseteq delivered
    /\ \A batch \in wire : batch \subseteq delivered

LeasesEnd ==
    \A s \in DOMAIN messages :
        messages[s].leased_until = Null \/ messages[s].leased_until <= clock + PullLease

TakenIsGone == taken \cap DOMAIN messages = {} /\ taken \subseteq delivered

DeliveryInv ==
    /\ MailboxInv
    /\ IdsKept
    /\ AnswersWerePulled
    /\ LeasesEnd
    /\ TakenIsGone
    /\ AtLeastOnce

----------------------------------------------------------------------------

LEMMA DeliveryInitially == DeliveryInit => DeliveryInv
<1> SUFFICES ASSUME DeliveryInit PROVE DeliveryInv
  OBVIOUS
<1>1. MailboxInv
  BY MailboxInit DEF DeliveryInit
<1> QED
  BY <1>1 DEF DeliveryInit, Init, DeliveryInv, IdsKept, AnswersWerePulled,
              LeasesEnd, TakenIsGone, AtLeastOnce

\* What clients can acknowledge are identifiers.
LEMMA KnownAreIds ==
    ASSUME DeliveryInv, NEW key
    PROVE  Known(key) \subseteq MsgIds
BY DEF DeliveryInv, IdsKept, AnswersWerePulled, MailboxInv, TypeOK, Known

\* The network only makes the store do what the store can do.
LEMMA DeliveryUsesStore ==
    ASSUME DeliveryInv, [DeliveryNext]_deliveryVars
    PROVE  [Next]_storeVars
<1>1. CASE PushArrives
  BY <1>1 DEF PushArrives, Next, DoEnqueue
<1>2. CASE PullArrives
  BY <1>2 DEF PullArrives, LeasePull, LegacyPull, Next, DoPull
<1>4. CASE AckArrives
  BY <1>4, KnownAreIds DEF AckArrives, Next, DoAck
<1>5. CASE SweepRuns \/ TimePasses
  BY <1>5 DEF SweepRuns, TimePasses, Next
<1>6. CASE Receive \/ Lose \/ UNCHANGED deliveryVars
  BY <1>6 DEF Receive, Lose, deliveryVars
<1> QED
  BY <1>1, <1>2, <1>4, <1>5, <1>6 DEF DeliveryNext

\* Nothing is lost in a step at one instant when each message it removes was
\* due, taken, or read by its identifier.
LEMMA NothingForgotten ==
    ASSUME DeliveryInv, LeasesEnd',
           UNCHANGED <<clock, accepted, idOf>>,
           delivered \subseteq delivered', got \subseteq got', taken \subseteq taken',
           \A s \in DOMAIN messages \ DOMAIN messages' :
              \/ s \in taken'
              \/ s \in delivered /\ ReadById(s)
              \/ accepted[s].enqueued_at + RetentionTtl <= clock
    PROVE  AtLeastOnce'
<1> SUFFICES ASSUME NEW s \in DOMAIN accepted
             PROVE  \/ WillReturn(s)'
                    \/ s \in delivered' /\ ReadById(s)'
                    \/ s \in taken'
                    \/ accepted[s].enqueued_at + RetentionTtl <= clock
  BY DEF AtLeastOnce
<1>1. ReadById(s) => ReadById(s)'
  BY DEF ReadById
<1>2. s \in DOMAIN messages' => WillReturn(s)'
  BY DEF LeasesEnd, WillReturn
<1>3. \/ s \in DOMAIN messages
      \/ s \in delivered /\ ReadById(s)
      \/ s \in taken
      \/ accepted[s].enqueued_at + RetentionTtl <= clock
  BY DEF DeliveryInv, AtLeastOnce, WillReturn
<1> QED
  BY <1>1, <1>2, <1>3

\* A sweep at a past reading takes only what is due.
LEMMA SweptAcceptedWasDue ==
    ASSUME DeliveryInv, NEW now \in Readings, NEW s \in DOMAIN messages \ SweptSeqs(now)
    PROVE  accepted[s].enqueued_at + RetentionTtl <= clock
BY SweptWasDue DEF DeliveryInv, MailboxInv, StoredAsAccepted

LEMMA DeliverPush ==
    ASSUME DeliveryInv, MailboxInv', PushArrives
    PROVE  DeliveryInv'
<1> USE DEF DeliveryInv
<1>1. PICK key \in Keys, id \in MsgIds, bytes \in Sizes, now \in Readings :
        /\ Enqueue(key, id, bytes, now, Null)
        /\ idOf' = [s \in 1..nextSeq |-> IF s = nextSeq THEN id ELSE idOf[s]]
  BY DEF PushArrives
<1>2. UNCHANGED <<wire, got, taken, clock, delivered>>
  BY <1>1 DEF PushArrives, Enqueue
<1>3. /\ DOMAIN messages' = DOMAIN messages \cup {nextSeq}
      /\ \A s \in DOMAIN messages : s # nextSeq /\ messages'[s] = messages[s]
      /\ messages'[nextSeq].msg_id = id
      /\ messages'[nextSeq].leased_until = Null
      /\ nextSeq' = nextSeq + 1
  BY <1>1 DEF Enqueue, InsertMessage, MailboxInv, TypeOK
<1>4. /\ DOMAIN accepted' = 1..nextSeq
      /\ DOMAIN accepted = 1..(nextSeq - 1)
      /\ \A s \in 1..(nextSeq - 1) : accepted'[s] = accepted[s] /\ idOf'[s] = idOf[s]
      /\ nextSeq \in Nat \ {0}
  BY <1>1 DEF Enqueue, RecordAccepted, MailboxInv, TypeOK
<1>5. /\ DOMAIN messages \subseteq 1..(nextSeq - 1)
      /\ delivered \subseteq 1..(nextSeq - 1)
  BY DEF MailboxInv, TypeOK
<1>6. IdsKept'
  BY <1>1, <1>3, <1>5 DEF IdsKept, MailboxInv, TypeOK
<1>7. AnswersWerePulled' /\ LeasesEnd'
  BY <1>2, <1>3 DEF AnswersWerePulled, LeasesEnd
<1>8. TakenIsGone'
  BY <1>2, <1>3, <1>4, <1>5 DEF TakenIsGone
<1>9. AtLeastOnce'
  <2> SUFFICES ASSUME NEW s \in 1..nextSeq
               PROVE  \/ WillReturn(s)'
                      \/ s \in delivered /\ ReadById(s)'
                      \/ s \in taken
                      \/ accepted'[s].enqueued_at + RetentionTtl <= clock
    BY <1>2, <1>4 DEF AtLeastOnce
  <2>1. CASE s = nextSeq
    BY <1>3, <2>1 DEF WillReturn
  <2>2. CASE s # nextSeq
    <3>1. s \in 1..(nextSeq - 1)
      BY <1>4, <2>2
    <3>2. WillReturn(s) => WillReturn(s)'
      BY <1>2, <1>3 DEF WillReturn
    <3>3. ReadById(s) => ReadById(s)'
      BY <1>2, <1>4, <1>5, <3>1 DEF ReadById, AnswersWerePulled
    <3> QED
      BY <1>4, <3>1, <3>2, <3>3 DEF AtLeastOnce
  <2> QED
    BY <2>1, <2>2
<1> QED
  BY <1>6, <1>7, <1>8, <1>9

LEMMA DeliverLeasePull ==
    ASSUME DeliveryInv, MailboxInv', NEW key \in Keys, NEW max, NEW now \in Readings,
           LeasePull(key, max, now)
    PROVE  DeliveryInv'
<1> USE DEF DeliveryInv
<1>1. /\ PullLeased(key, max, now)
      /\ wire' = wire \cup Answer(Batch(key, max, now))
  BY DEF LeasePull
<1> DEFINE batch == Batch(key, max, now)
<1>2. /\ UNCHANGED <<idOf, got, taken, clock, accepted, nextSeq>>
      /\ delivered' = delivered \cup batch
      /\ DOMAIN messages' = SweptSeqs(now)
  BY <1>1 DEF LeasePull, PullLeased
<1>3. \A s \in SweptSeqs(now) :
        /\ messages'[s].msg_id = messages[s].msg_id
        /\ messages'[s].leased_until = IF s \in batch THEN now + PullLease
                                       ELSE messages[s].leased_until
  <2>1. \A m \in Message :
          LET n == [m EXCEPT !.leased_until = now + PullLease]
          IN  n.msg_id = m.msg_id /\ n.leased_until = now + PullLease
    BY DEF Message
  <2>2. \A s \in SweptSeqs(now) : messages[s] \in Message
    BY SweepShrinks DEF MailboxInv, TypeOK
  <2>3. \A s \in SweptSeqs(now) :
          messages'[s] = IF s \in batch
                           THEN [messages[s] EXCEPT !.leased_until = now + PullLease]
                           ELSE messages[s]
    BY <1>1 DEF PullLeased
  <2> QED
    BY <2>1, <2>2, <2>3
<1>4. IdsKept'
  BY <1>2, <1>3, SweepShrinks DEF IdsKept
<1>5. AnswersWerePulled'
  BY <1>1, <1>2 DEF AnswersWerePulled, Answer
<1>6. LeasesEnd'
  <2>1. now + PullLease <= clock + PullLease
    BY LimitAssumption DEF Readings, MailboxInv, TypeOK
  <2> QED
    BY <1>2, <1>3, <2>1, SweepShrinks DEF LeasesEnd
<1>7. TakenIsGone'
  BY <1>2, SweepShrinks DEF TakenIsGone
<1>8. AtLeastOnce'
  BY <1>2, <1>6, SweptAcceptedWasDue, NothingForgotten
<1> QED
  BY <1>4, <1>5, <1>6, <1>7, <1>8

LEMMA DeliverLegacyPull ==
    ASSUME DeliveryInv, MailboxInv', NEW key \in Keys, NEW max, NEW now \in Readings,
           LegacyPull(key, max, now)
    PROVE  DeliveryInv'
<1> USE DEF DeliveryInv
<1>1. /\ PullLegacy(key, max, now)
      /\ wire' = wire \cup Answer(Batch(key, max, now))
      /\ taken' = taken \cup Batch(key, max, now)
  BY DEF LegacyPull
<1> DEFINE batch == Batch(key, max, now)
<1>2. /\ UNCHANGED <<idOf, got, clock, accepted, nextSeq>>
      /\ delivered' = delivered \cup batch
      /\ DOMAIN messages' = SweptSeqs(now) \ batch
      /\ \A s \in DOMAIN messages' : messages'[s] = messages[s]
  BY <1>1 DEF LegacyPull, PullLegacy, Rows
<1>3. DOMAIN messages' \subseteq DOMAIN messages
  BY <1>2, SweepShrinks
<1>4. IdsKept' /\ LeasesEnd'
  BY <1>2, <1>3 DEF IdsKept, LeasesEnd
<1>5. AnswersWerePulled'
  BY <1>1, <1>2 DEF AnswersWerePulled, Answer
<1>6. TakenIsGone'
  BY <1>1, <1>2, <1>3 DEF TakenIsGone
<1>7. AtLeastOnce'
  BY <1>1, <1>2, <1>4, SweptAcceptedWasDue, NothingForgotten
<1> QED
  BY <1>4, <1>5, <1>6, <1>7

LEMMA DeliverAck ==
    ASSUME DeliveryInv, MailboxInv', AckArrives
    PROVE  DeliveryInv'
<1> USE DEF DeliveryInv
<1>1. PICK key \in Keys : \E known \in (SUBSET Known(key)) \ {{}}, now \in Readings :
        Ack(key, known, now)
  BY DEF AckArrives
<1>2. PICK known \in (SUBSET Known(key)) \ {{}}, now \in Readings : Ack(key, known, now)
  BY <1>1
<1>3. /\ UNCHANGED <<idOf, wire, got, taken, clock, accepted, delivered, nextSeq>>
      /\ DOMAIN messages' = SweptSeqs(now) \ Acked(key, known, now)
      /\ \A s \in DOMAIN messages' : messages'[s] = messages[s]
  BY <1>2 DEF AckArrives, Ack, Rows, history
<1>4. DOMAIN messages' \subseteq DOMAIN messages
  BY <1>3, SweepShrinks
<1>5. IdsKept' /\ LeasesEnd' /\ AnswersWerePulled' /\ TakenIsGone'
  BY <1>3, <1>4 DEF IdsKept, LeasesEnd, AnswersWerePulled, TakenIsGone
<1>6. ASSUME NEW s \in Acked(key, known, now)
      PROVE  s \in delivered /\ ReadById(s)
  <2>1. /\ s \in DOMAIN messages
        /\ accepted[s].route_key = key
        /\ idOf[s] \in Known(key)
        /\ s \in delivered
    BY SweepShrinks DEF Acked, MailboxInv, StoredAsAccepted, IdsKept
  <2> QED
    BY <2>1 DEF Known, ReadById
<1>7. AtLeastOnce'
  BY <1>3, <1>5, <1>6, SweptAcceptedWasDue, NothingForgotten
<1> QED
  BY <1>5, <1>7

LEMMA DeliverSweep ==
    ASSUME DeliveryInv, MailboxInv', SweepRuns
    PROVE  DeliveryInv'
<1> USE DEF DeliveryInv
<1>1. PICK now \in Readings : RetentionSweep(now) \/ RouteStatus(now)
  BY DEF SweepRuns, DoSweep
<1>2. /\ UNCHANGED <<idOf, wire, got, taken, clock, accepted, delivered, nextSeq>>
      /\ DOMAIN messages' = SweptSeqs(now)
      /\ \A s \in DOMAIN messages' : messages'[s] = messages[s]
  BY <1>1 DEF SweepRuns, RetentionSweep, RouteStatus, SweepExpired, SweptMessages,
              Rows, history
<1>3. DOMAIN messages' \subseteq DOMAIN messages
  BY <1>2, SweepShrinks
<1>4. IdsKept' /\ LeasesEnd' /\ AnswersWerePulled' /\ TakenIsGone'
  BY <1>2, <1>3 DEF IdsKept, LeasesEnd, AnswersWerePulled, TakenIsGone
<1>5. AtLeastOnce'
  BY <1>2, <1>4, SweptAcceptedWasDue, NothingForgotten
<1> QED
  BY <1>4, <1>5

\* Answers that arrive or get lost, and stuttering, leave the store alone.
LEMMA DeliverNetwork ==
    ASSUME DeliveryInv, MailboxInv', Receive \/ Lose \/ UNCHANGED deliveryVars
    PROVE  DeliveryInv'
<1> USE DEF DeliveryInv
<1>1. /\ UNCHANGED <<idOf, taken, clock, accepted, delivered, nextSeq, messages>>
      /\ wire' \subseteq wire
      /\ got \subseteq got'
      /\ \A s \in got' : s \in got \/ \E batch \in wire : s \in batch
  BY DEF Receive, Lose, deliveryVars, storeVars
<1>2. IdsKept' /\ LeasesEnd' /\ AnswersWerePulled' /\ TakenIsGone'
  BY <1>1 DEF IdsKept, LeasesEnd, AnswersWerePulled, TakenIsGone
<1>3. AtLeastOnce'
  BY <1>1, <1>2, NothingForgotten
<1> QED
  BY <1>2, <1>3

LEMMA DeliverTick ==
    ASSUME DeliveryInv, MailboxInv', TimePasses
    PROVE  DeliveryInv'
<1> USE DEF DeliveryInv
<1>1. /\ UNCHANGED <<idOf, wire, got, taken, accepted, delivered, nextSeq, messages>>
      /\ clock' = clock + 1
  BY DEF TimePasses, Tick, tables, history
<1>2. /\ clock \in Nat
      /\ \A s \in DOMAIN messages : messages[s].leased_until \in Nat \cup {Null}
      /\ \A s \in DOMAIN accepted : accepted[s].enqueued_at \in Nat
  <2>1. /\ clock \in Nat
        /\ \A s \in DOMAIN messages : messages[s] \in Message
        /\ \A s \in DOMAIN accepted : accepted[s].enqueued_at \in Nat
    BY DEF MailboxInv, TypeOK
  <2>2. \A m \in Message : m.leased_until \in Nat \cup {Null}
    BY DEF Message
  <2> QED
    BY <2>1, <2>2, Zenon
<1>3. IdsKept' /\ AnswersWerePulled' /\ TakenIsGone'
  BY <1>1 DEF IdsKept, AnswersWerePulled, TakenIsGone
<1>4. LeasesEnd'
  BY <1>1, <1>2, LimitAssumption DEF LeasesEnd
<1>5. AtLeastOnce'
  <2> SUFFICES ASSUME NEW s \in DOMAIN accepted
               PROVE  \/ WillReturn(s)'
                      \/ s \in delivered /\ ReadById(s)'
                      \/ s \in taken
                      \/ accepted[s].enqueued_at + RetentionTtl <= clock'
    BY <1>1 DEF AtLeastOnce
  <2>1. WillReturn(s) => WillReturn(s)'
    BY <1>1, <1>4 DEF WillReturn, LeasesEnd
  <2>2. ReadById(s) => ReadById(s)'
    BY <1>1 DEF ReadById
  <2>3. accepted[s].enqueued_at + RetentionTtl <= clock =>
           accepted[s].enqueued_at + RetentionTtl <= clock'
    BY <1>1, <1>2, LimitAssumption
  <2> QED
    BY <2>1, <2>2, <2>3 DEF AtLeastOnce
<1> QED
  BY <1>3, <1>4, <1>5

LEMMA DeliveryStep == DeliveryInv /\ [DeliveryNext]_deliveryVars => DeliveryInv'
<1> SUFFICES ASSUME DeliveryInv, [DeliveryNext]_deliveryVars PROVE DeliveryInv'
  OBVIOUS
<1>1. MailboxInv'
  BY DeliveryUsesStore, MailboxNext DEF DeliveryInv
<1> QED
  BY <1>1, DeliverPush, DeliverLeasePull, DeliverLegacyPull, DeliverAck, DeliverSweep,
     DeliverNetwork, DeliverTick DEF DeliveryNext, PullArrives

\* The inductive invariant holds in every reachable state.
THEOREM DeliveryInvariant == DeliverySpec => []DeliveryInv
BY DeliveryInitially, DeliveryStep, PTL DEF DeliverySpec

\* Whatever answers are lost, an accepted message stays in the queue, under a
\* lease that ends within PullLease, until a client has received its
\* identifier, a legacy pull took it or its retention time is over.
THEOREM DeliveredAtLeastOnce == DeliverySpec => []AtLeastOnce
BY DeliveryInvariant, PTL DEF DeliveryInv

\* What a legacy pull returned is in no later answer.
THEOREM LegacyDeliversAtMostOnce == DeliverySpec => LegacyAtMostOnce
<1>1. DeliveryInv /\ [DeliveryNext]_deliveryVars =>
        [\A batch \in wire' \ wire : batch \cap taken = {}]_deliveryVars
  <2> SUFFICES ASSUME DeliveryInv, DeliveryNext, NEW batch \in wire' \ wire
               PROVE  batch \cap taken = {}
    OBVIOUS
  <2>1. PICK key \in Keys, max \in 1..MaxQueueDepth, now \in Readings :
           batch = Batch(key, max, now)
    BY DEF DeliveryNext, PushArrives, PullArrives, LeasePull, LegacyPull, AckArrives,
           SweepRuns, Receive, Lose, TimePasses, Answer
  <2> QED
    BY <2>1, SweepShrinks, BatchOnRoute DEF DeliveryInv, TakenIsGone
<1> QED
  BY <1>1, DeliveryInvariant, PTL DEF DeliverySpec, LegacyAtMostOnce

----------------------------------------------------------------------------
(* Scans.                                                                  *)

LegalDepth == depthLimit \in 1..MaxQueueDepth

\* What holds under any restarts, ...
ScanInv == DeliveryInv /\ LegalDepth

\* ... and what holds besides while no restart lowers the depth limit: no queue
\* is deeper than the limit the running relay clamps a pull to.
QueuesWithinLimit == \A key \in Keys : Depth(key) <= depthLimit

NeverLowered == [][depthLimit <= depthLimit']_scanVars

\* The budget of a pull covers a whole batch of the largest bodies.
LEMMA BudgetCoversBatch ==
    PullBudget = ScanBatch * MaxBodyBytesCeiling
<1>1. ScanBatch \in Nat \ {0} /\ MaxBodyBytesCeiling \in Nat \ {0}
  BY ScanAssumption
<1>2. ScanBatch * MaxBodyBytesCeiling \in Nat \ {0}
  <2>1. \A m, n \in Nat \ {0} : m * n \in Nat \ {0}
    BY SMT
  <2> QED
    BY <1>1, <2>1
<1>3. 1 \in 1..MaxBodyBytesCeiling
  BY <1>1
<1>4. PullBudgetBytes(1) = PullBudget
  BY <1>3, ScanAssumption
<1>5. PullBudgetBytes(1) = ScanBatch * MaxBodyBytesCeiling
  BY <1>2 DEF PullBudgetBytes
<1> QED
  BY <1>4, <1>5

\* At most n bodies are at most n times the largest.
LEMMA BytesBounded ==
    ASSUME TypeOK, NEW S, S \subseteq DOMAIN messages, IsFiniteSet(S),
           Cardinality(S) <= ScanBatch
    PROVE  Bytes(S) <= PullBudget
<1> DEFINE g == [s \in DOMAIN messages |-> messages[s].bytes]
           C == MaxBodyBytesCeiling
<1>1. \A s \in S : g[s] \in Nat /\ g[s] <= C
  <2>1. \A s \in S : messages[s].bytes \in Sizes
    BY DEF TypeOK, Message
  <2>2. \A n \in Sizes : n \in Nat /\ n <= C
    BY ScanAssumption
  <2>3. \A s \in S : g[s] = messages[s].bytes
    OBVIOUS
  <2> QED
    BY <2>1, <2>2, <2>3
<1>2. C \in Nat /\ ScanBatch \in Nat /\ Cardinality(S) \in Nat
  BY ScanAssumption, FS_CardinalityType
<1> HIDE DEF g, C
<1>3. SumFunctionOnSet(g, S) <= Cardinality(S) * C
  BY <1>1, <1>2, SumBound
<1>4. SumFunctionOnSet(g, S) \in Nat
  BY <1>1, SumType
<1>5. Cardinality(S) * C <= ScanBatch * C
  <2>1. PICK d \in Nat : ScanBatch = Cardinality(S) + d
    <3>1. ScanBatch - Cardinality(S) \in Nat
          /\ ScanBatch = Cardinality(S) + (ScanBatch - Cardinality(S))
      BY <1>2
    <3> QED
      BY <3>1
  <2> DEFINE n == Cardinality(S)
  <2>2. n \in Nat
    BY <1>2
  <2> HIDE DEF n
  <2>3. (n + d) * C = n * C + d * C /\ n * C \in Nat /\ d * C \in Nat
    BY <1>2, <2>2
  <2>4. n * C <= (n + d) * C
    BY <2>3
  <2> QED
    BY <2>1, <2>4 DEF n
<1>6. Cardinality(S) * C \in Nat /\ ScanBatch * C \in Nat
  BY <1>2
<1>7. SumFunctionOnSet(g, S) <= ScanBatch * C
  BY <1>3, <1>4, <1>5, <1>6
<1> QED
  BY <1>7, BudgetCoversBatch DEF Bytes, g, C

\* A batch shorter than the scan asked for is all that is visible, in a mailbox
\* within the limit: the first row left out would have fitted.
LEMMA ShortBatchIsAll ==
    ASSUME MailboxInv, LegalDepth, NEW key \in Keys, NEW now \in Readings,
           Depth(key) <= depthLimit,
           Cardinality(Batch(key, MaxOf(ScanBatch), now)) < ScanBatch
    PROVE  Visible(key, now) \ Batch(key, MaxOf(ScanBatch), now) = {}
<1> DEFINE max == MaxOf(ScanBatch)
           V == Visible(key, now)
           B == Batch(key, max, now)
<1>1. V \subseteq OnRoute(key) /\ V \subseteq DOMAIN messages /\ V \subseteq Nat
  BY SweepShrinks DEF Visible, OnRoute, MailboxInv, TypeOK
<1>2. IsFiniteSet(DOMAIN messages) /\ IsFiniteSet(OnRoute(key)) /\ IsFiniteSet(V)
  BY <1>1, FS_Subset DEF MailboxInv, FiniteTables, OnRoute
<1>3. B = {s \in V : \A t \in V : t <= s => Fits(V, max, t)}
  BY DEF Batch
<1>4. SUFFICES ASSUME V \ B # {} PROVE FALSE
  OBVIOUS
<1>5. PICK s \in V \ B : \A m \in V \ B : s <= m
  <2>1. V \ B \in SUBSET Nat
    BY <1>1
  <2> QED
    BY <1>4, <2>1, LeastNatural
<1> DEFINE upTo == {t \in V : t <= s}
<1>6. s \in Nat /\ s \in upTo /\ upTo \subseteq V /\ upTo \subseteq B \cup {s}
  BY <1>1, <1>5
<1>7. IsFiniteSet(B) /\ IsFiniteSet(upTo) /\ upTo \subseteq DOMAIN messages
  BY <1>1, <1>2, <1>3, <1>6, FS_Subset
<1> HIDE DEF upTo, B, V
<1>8. Cardinality(upTo) <= ScanBatch
  <2>1. /\ IsFiniteSet(B \cup {s})
        /\ Cardinality(B \cup {s}) = IF s \in B THEN Cardinality(B) ELSE Cardinality(B) + 1
    BY <1>7, FS_AddElement
  <2>2. Cardinality(upTo) <= Cardinality(B \cup {s})
    BY <1>6, <2>1, FS_Subset
  <2>3. Cardinality(B) < ScanBatch
    BY DEF B
  <2>4. Cardinality(upTo) \in Nat /\ Cardinality(B) \in Nat /\ ScanBatch \in Nat
    BY <1>7, FS_CardinalityType, ScanAssumption
  <2> QED
    BY <2>1, <2>2, <2>3, <2>4
<1>9. Cardinality(upTo) <= depthLimit
  <2>1. upTo \subseteq OnRoute(key)
    BY <1>1, <1>6
  <2>2. Cardinality(upTo) <= Cardinality(OnRoute(key))
    BY <1>2, <2>1, FS_Subset
  <2>3. Cardinality(OnRoute(key)) <= depthLimit
    BY DEF Depth
  <2>4. Cardinality(upTo) \in Nat /\ Cardinality(OnRoute(key)) \in Nat /\ depthLimit \in Nat
    BY <1>2, <1>7, FS_CardinalityType, LimitAssumption DEF LegalDepth
  <2> QED
    BY <2>2, <2>3, <2>4
<1>10. Fits(V, max, s)
  <2>1. Cardinality(upTo) <= max
    BY <1>8, <1>9 DEF MaxOf
  <2>2. Bytes(upTo) <= PullBudget
    BY <1>7, <1>8, BytesBounded DEF MailboxInv
  <2> QED
    BY <2>1, <2>2 DEF Fits, upTo
<1>11. \A t \in V : t <= s => Fits(V, max, t)
  <2>1. \A t \in V : t <= s => t = s \/ t \in B
    BY <1>6 DEF upTo
  <2>2. \A t \in B : t \in V => Fits(V, max, t)
    BY <1>1, <1>3
  <2> QED
    BY <1>10, <2>1, <2>2
<1> QED
  BY <1>3, <1>5, <1>11

\* Every other step leaves queues no deeper than they were.
LEMMA QueuesShrink ==
    ASSUME MailboxInv, LegalDepth, LegalDepth', QueuesWithinLimit,
           DOMAIN messages' \subseteq DOMAIN messages,
           \A s \in DOMAIN messages' : messages'[s].route_key = messages[s].route_key,
           depthLimit <= depthLimit'
    PROVE  QueuesWithinLimit'
<1>1. depthLimit \in Nat /\ depthLimit' \in Nat
  BY LimitAssumption DEF LegalDepth
<1>2. ASSUME NEW key \in Keys PROVE Depth(key)' <= depthLimit'
  <2>1. OnRoute(key)' \subseteq OnRoute(key)
    BY DEF OnRoute
  <2>2. IsFiniteSet(OnRoute(key)) /\ IsFiniteSet(OnRoute(key)')
    BY <2>1, FS_Subset DEF OnRoute, MailboxInv, FiniteTables
  <2>3. Cardinality(OnRoute(key)') <= Cardinality(OnRoute(key))
    BY <2>1, <2>2, FS_Subset
  <2>4. Cardinality(OnRoute(key)) <= depthLimit
    BY DEF QueuesWithinLimit, Depth
  <2>5. Cardinality(OnRoute(key)) \in Nat /\ Cardinality(OnRoute(key)') \in Nat
    BY <2>2, FS_CardinalityType
  <2> QED
    BY <1>1, <2>3, <2>4, <2>5 DEF Depth
<1> QED
  BY <1>2 DEF QueuesWithinLimit

LEMMA PullKeepsRoutes ==
    ASSUME MailboxInv, NEW key \in Keys, NEW max, NEW now \in Readings,
           LeasePull(key, max, now) \/ LegacyPull(key, max, now)
    PROVE  /\ DOMAIN messages' \subseteq DOMAIN messages
           /\ \A s \in DOMAIN messages' : messages'[s].route_key = messages[s].route_key
<1>1. CASE LegacyPull(key, max, now)
  BY <1>1, SweepShrinks DEF LegacyPull, PullLegacy, Rows
<1>2. CASE LeasePull(key, max, now)
  <2>1. \A m \in Message :
          [m EXCEPT !.leased_until = now + PullLease].route_key = m.route_key
    BY DEF Message
  <2>2. \A s \in SweptSeqs(now) : messages[s] \in Message
    BY SweepShrinks DEF MailboxInv, TypeOK
  <2> QED
    BY <1>2, <2>1, <2>2, SweepShrinks DEF LeasePull, PullLeased
<1> QED
  BY <1>1, <1>2

LEMMA ElsewhereKeepsRoutes ==
    ASSUME MailboxInv, Elsewhere \/ UNCHANGED scanVars \/ Restart
    PROVE  /\ DOMAIN messages' \subseteq DOMAIN messages
           /\ \A s \in DOMAIN messages' : messages'[s].route_key = messages[s].route_key
<1>1. CASE PullArrives
  BY <1>1, PullKeepsRoutes DEF PullArrives
<1>2. CASE AckArrives
  BY <1>2, SweepShrinks DEF AckArrives, Ack, Rows
<1>3. CASE SweepRuns
  BY <1>3, SweepShrinks DEF SweepRuns, DoSweep, RetentionSweep, RouteStatus, SweepExpired,
                            SweptMessages, Rows
<1>4. CASE messages' = messages
  BY <1>4
<1>5. CASE Receive \/ Lose \/ TimePasses \/ UNCHANGED scanVars \/ Restart
  BY <1>4, <1>5 DEF Receive, Lose, TimePasses, Tick, tables, storeVars, deliveryVars,
                    scanVars, Restart
<1> QED
  BY <1>1, <1>2, <1>3, <1>5 DEF Elsewhere

\* A push within the limit of the running relay.
LEMMA PushWithinLimit ==
    ASSUME MailboxInv, LegalDepth, QueuesWithinLimit, PushWithinLimits
    PROVE  QueuesWithinLimit'
<1>1. PICK route \in Keys, id \in MsgIds, bytes \in Sizes, now \in Readings :
        Enqueue(route, id, bytes, now, Null)
  BY DEF PushWithinLimits, PushArrives
<1>2. /\ DOMAIN messages' = DOMAIN messages \cup {nextSeq}
      /\ \A s \in DOMAIN messages : s # nextSeq /\ messages'[s] = messages[s]
      /\ messages'[nextSeq].route_key = route
  BY <1>1 DEF Enqueue, InsertMessage, MailboxInv, TypeOK
<1>3. Depth(route) < depthLimit /\ depthLimit' = depthLimit /\ depthLimit \in Nat
  BY <1>2, LimitAssumption DEF PushWithinLimits, LegalDepth
<1>4. ASSUME NEW key \in Keys PROVE Depth(key)' <= depthLimit
  <2>1. IsFiniteSet(OnRoute(key)) /\ Cardinality(OnRoute(key)) <= depthLimit
    BY FS_Subset DEF OnRoute, MailboxInv, FiniteTables, QueuesWithinLimit, Depth
  <2>2. CASE key = route
    <3>1. OnRoute(key)' = OnRoute(key) \cup {nextSeq}
      BY <1>2, <2>2 DEF OnRoute
    <3>2. Cardinality(OnRoute(key)) < depthLimit
      BY <1>3, <2>2 DEF Depth
    <3>3. Cardinality(OnRoute(key) \cup {nextSeq}) <= depthLimit
      BY <1>3, <2>1, <3>2, AddWithinLimit
    <3> QED
      BY <3>1, <3>3, Zenon DEF Depth
  <2>3. CASE key # route
    <3>1. OnRoute(key)' = OnRoute(key)
      BY <1>2, <2>3 DEF OnRoute
    <3> QED
      BY <2>1, <3>1, Zenon DEF Depth
  <2> QED
    BY <2>2, <2>3
<1> QED
  BY <1>3, <1>4 DEF QueuesWithinLimit

\* Scans and restarts only make the store and the network do what they can.
LEMMA ScanUsesDelivery ==
    ASSUME LegalDepth, [ScanNext]_scanVars
    PROVE  [DeliveryNext]_deliveryVars
<1>1. MaxOf(ScanBatch) \in 1..MaxQueueDepth
  BY ScanAssumption, LimitAssumption DEF MaxOf, LegalDepth
<1>2. CASE ScanPull
  BY <1>1, <1>2 DEF ScanPull, DeliveryNext, PullArrives
<1>3. CASE PushWithinLimits \/ Restart \/ Elsewhere
  BY <1>3 DEF PushWithinLimits, Restart, Elsewhere, DeliveryNext
<1>4. CASE UNCHANGED scanVars
  BY <1>4 DEF scanVars
<1> QED
  BY <1>2, <1>3, <1>4 DEF ScanNext

LEMMA ScanInitially == ScanInit => ScanInv /\ QueuesWithinLimit /\ ScanOverlooksNothing
<1> SUFFICES ASSUME ScanInit
             PROVE  ScanInv /\ QueuesWithinLimit /\ ScanOverlooksNothing
  OBVIOUS
<1>1. DeliveryInv
  BY DeliveryInitially DEF ScanInit
<1>2. ASSUME NEW key \in Keys PROVE Depth(key) <= depthLimit
  <2>1. OnRoute(key) = {}
    BY DEF ScanInit, DeliveryInit, Init, OnRoute
  <2> QED
    BY <2>1, FS_EmptySet, LimitAssumption DEF Depth, ScanInit
<1> QED
  BY <1>1, <1>2 DEF ScanInit, ScanInv, LegalDepth, QueuesWithinLimit, ScanOverlooksNothing

LEMMA ScanStep == ScanInv /\ [ScanNext]_scanVars => ScanInv'
<1> SUFFICES ASSUME ScanInv, [ScanNext]_scanVars PROVE ScanInv'
  OBVIOUS
<1>1. DeliveryInv'
  BY ScanUsesDelivery, DeliveryStep DEF ScanInv
<1>2. LegalDepth'
  BY DEF ScanInv, LegalDepth, ScanNext, PushWithinLimits, ScanPull, Restart, Elsewhere, scanVars
<1> QED
  BY <1>1, <1>2 DEF ScanInv

\* The inductive invariant, restarts of the relay with any limit included.
THEOREM ScanInvariant == ScanSpec => []ScanInv
BY ScanInitially, ScanStep, PTL DEF ScanSpec

\* Relays with scanning clients and restarts behave as the delivery
\* specification allows, so what is proved of it holds of them.
THEOREM ScanRefinesDelivery == ScanSpec => DeliverySpec
<1>1. ScanInit => DeliveryInit
  BY DEF ScanInit
<1>2. ScanInv /\ [ScanNext]_scanVars => [DeliveryNext]_deliveryVars
  BY ScanUsesDelivery DEF ScanInv
<1> QED
  BY <1>1, <1>2, ScanInvariant, PTL DEF ScanSpec, DeliverySpec

\* What a scan newly overlooks, it overlooks in a mailbox beyond the limit.
LEMMA CutByDepth ==
    ASSUME ScanInv, [ScanNext]_scanVars, NEW s \in overlooked' \ overlooked
    PROVE  Depth(messages[s].route_key) > depthLimit
<1>1. MailboxInv /\ LegalDepth
  BY DEF ScanInv, DeliveryInv
<1>2. ScanPull
  BY DEF ScanNext, PushWithinLimits, Restart, Elsewhere, scanVars
<1>3. PICK key \in Keys, now \in Readings :
        /\ Cardinality(Batch(key, MaxOf(ScanBatch), now)) < ScanBatch
        /\ s \in Visible(key, now) \ Batch(key, MaxOf(ScanBatch), now)
  BY <1>2 DEF ScanPull
<1>4. messages[s].route_key = key
  BY <1>3, SweepShrinks DEF Visible
<1>5. ~(Depth(key) <= depthLimit)
  BY <1>1, <1>3, ShortBatchIsAll
<1>6. Depth(key) \in Nat /\ depthLimit \in Nat
  <2>1. IsFiniteSet(OnRoute(key))
    BY <1>1, FS_Subset DEF MailboxInv, FiniteTables, OnRoute
  <2> QED
    BY <1>1, <2>1, FS_CardinalityType, LimitAssumption DEF Depth, LegalDepth
<1> QED
  BY <1>4, <1>5, <1>6

\* A scan overlooks a message only in a mailbox deeper than the depth limit of
\* the relay that answers: the byte budget cuts none, whatever the sizes of the
\* bodies, the mode of the pulls, the leases of others and the restarts.
THEOREM OnlyDepthCuts == ScanSpec => OnlyDepthCutsAScan
<1>1. ScanInv /\ [ScanNext]_scanVars =>
        [\A s \in overlooked' \ overlooked :
            Depth(messages[s].route_key) > depthLimit]_scanVars
  BY CutByDepth
<1> QED
  BY <1>1, ScanInvariant, PTL DEF ScanSpec, OnlyDepthCutsAScan

LEMMA CompleteStep ==
    /\ ScanInv /\ ScanInv' /\ QueuesWithinLimit /\ ScanOverlooksNothing
    /\ [ScanNext]_scanVars /\ [depthLimit <= depthLimit']_scanVars
    => QueuesWithinLimit' /\ ScanOverlooksNothing'
<1> SUFFICES ASSUME ScanInv, ScanInv', QueuesWithinLimit, ScanOverlooksNothing,
                    [ScanNext]_scanVars, [depthLimit <= depthLimit']_scanVars
             PROVE  QueuesWithinLimit' /\ ScanOverlooksNothing'
  OBVIOUS
<1>1. MailboxInv /\ LegalDepth /\ LegalDepth'
  BY DEF ScanInv, DeliveryInv
<1>2. depthLimit <= depthLimit'
  BY <1>1, LimitAssumption DEF LegalDepth, scanVars
<1>3. QueuesWithinLimit'
  <2>1. CASE PushWithinLimits
    BY <1>1, <2>1, PushWithinLimit
  <2>2. CASE ScanPull
    BY <1>1, <1>2, <2>2, PullKeepsRoutes, QueuesShrink DEF ScanPull
  <2>3. CASE Elsewhere \/ UNCHANGED scanVars \/ Restart
    BY <1>1, <1>2, <2>3, ElsewhereKeepsRoutes, QueuesShrink
  <2> QED
    BY <2>1, <2>2, <2>3 DEF ScanNext
<1>4. ASSUME NEW s \in overlooked' PROVE FALSE
  <2>1. Depth(messages[s].route_key) > depthLimit
    BY <1>4, CutByDepth DEF ScanOverlooksNothing
  <2>2. messages[s].route_key \in Keys
    <3>1. PICK key \in Keys, now \in Readings : s \in Visible(key, now)
      BY <1>4 DEF ScanOverlooksNothing, ScanNext, PushWithinLimits, ScanPull, Restart,
                  Elsewhere, scanVars
    <3> QED
      BY <3>1, SweepShrinks DEF Visible
  <2>3. Depth(messages[s].route_key) <= depthLimit
    BY <2>2 DEF QueuesWithinLimit
  <2>4. Depth(messages[s].route_key) \in Nat /\ depthLimit \in Nat
    <3>1. IsFiniteSet(OnRoute(messages[s].route_key))
      BY <1>1, FS_Subset DEF MailboxInv, FiniteTables, OnRoute
    <3> QED
      BY <1>1, <3>1, FS_CardinalityType, LimitAssumption DEF Depth, LegalDepth
  <2> QED
    BY <2>1, <2>3, <2>4
<1> QED
  BY <1>3, <1>4 DEF ScanOverlooksNothing

\* Where no restart lowers the queue depth, a client that takes a short batch for
\* an exhausted mailbox overlooks nothing.  (Where one does, it may.)
THEOREM ScansAreComplete == ScanSpec /\ NeverLowered => []ScanOverlooksNothing
<1>1. ScanInit => QueuesWithinLimit /\ ScanOverlooksNothing
  BY ScanInitially
<1>2. /\ ScanInv /\ ScanInv' /\ QueuesWithinLimit /\ ScanOverlooksNothing
      /\ [ScanNext]_scanVars /\ [depthLimit <= depthLimit']_scanVars
      => QueuesWithinLimit' /\ ScanOverlooksNothing'
  BY CompleteStep
<1> QED
  BY <1>1, <1>2, ScanInvariant, PTL DEF ScanSpec, NeverLowered
=============================================================================
