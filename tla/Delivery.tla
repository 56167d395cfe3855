------------------------------ MODULE Delivery ------------------------------
(***************************************************************************)
(* Mailboxes end to end: what clients really receive when answers get      *)
(* lost.  The store commits a pull before its answer leaves                *)
(* (pull_message, src/lib.rs), and an answer on its way may be late or     *)
(* never arrive.  Clients acknowledge only identifiers they have received, *)
(* as late and as often as they like.                                      *)
(***************************************************************************)
EXTENDS Store

VARIABLES
    idOf,     \* history: the identifier of every accepted message, by seq
    wire,    \* pull answers on their way: the seqs each carries
    got,     \* history: the seqs some client has received
    taken    \* history: the seqs legacy pulls have deleted

deliveryVars == <<storeVars, idOf, wire, got, taken>>

\* The answer of a pull; 204 when there is nothing to return.
Answer(batch) == IF batch = {} THEN {} ELSE {batch}

PushArrives ==
    /\ \E key \in Keys, id \in MsgIds, bytes \in Sizes, now \in Readings :
         /\ Enqueue(key, id, bytes, now, Null)
         /\ idOf' = [s \in 1..nextSeq |-> IF s = nextSeq THEN id ELSE idOf[s]]
    /\ UNCHANGED <<wire, got, taken>>

LeasePull(key, max, now) ==
    /\ PullLeased(key, max, now)
    /\ wire' = wire \cup Answer(Batch(key, max, now))
    /\ UNCHANGED <<idOf, got, taken>>

LegacyPull(key, max, now) ==
    /\ PullLegacy(key, max, now)
    /\ wire' = wire \cup Answer(Batch(key, max, now))
    /\ taken' = taken \cup Batch(key, max, now)
    /\ UNCHANGED <<idOf, got>>

PullArrives ==
    \E key \in Keys, max \in 1..MaxQueueDepth, now \in Readings :
        LeasePull(key, max, now) \/ LegacyPull(key, max, now)

\* The identifiers a client of the mailbox may acknowledge.
Known(key) == {idOf[s] : s \in {t \in got : accepted[t].route_key = key}}

AckArrives ==
    /\ \E key \in Keys : \E known \in (SUBSET Known(key)) \ {{}}, now \in Readings :
         Ack(key, known, now)
    /\ UNCHANGED <<idOf, wire, got, taken>>

SweepRuns ==
    /\ DoSweep
    /\ UNCHANGED <<idOf, wire, got, taken>>

\* An answer reaches its client, or never does.
Receive ==
    /\ \E batch \in wire :
         /\ wire' = wire \ {batch}
         /\ got' = got \cup batch
    /\ UNCHANGED <<storeVars, idOf, taken>>

Lose ==
    /\ \E batch \in wire : wire' = wire \ {batch}
    /\ UNCHANGED <<storeVars, idOf, got, taken>>

TimePasses ==
    /\ Tick
    /\ UNCHANGED <<idOf, wire, got, taken>>

DeliveryInit ==
    /\ Init
    /\ idOf = [s \in {} |-> Null]
    /\ wire = {}
    /\ got = {}
    /\ taken = {}

DeliveryNext ==
    \/ PushArrives \/ PullArrives \/ AckArrives
    \/ SweepRuns \/ Receive \/ Lose \/ TimePasses

DeliverySpec == DeliveryInit /\ [][DeliveryNext]_deliveryVars

----------------------------------------------------------------------------
(* Properties.                                                             *)

\* A client has received the message, or one of the same identifier on the
\* same route: all an acknowledgement can name.
ReadById(s) ==
    \E t \in got : /\ accepted[t].route_key = accepted[s].route_key
                   /\ idOf[t] = idOf[s]

\* The message is in the queue, and any lease on it ends within PullLease.
WillReturn(s) ==
    /\ s \in DOMAIN messages
    /\ messages[s].leased_until = Null \/ messages[s].leased_until <= clock + PullLease

\* Acknowledged delivery is at-least-once: however many answers are lost, a
\* message leaves the queue only once a client has received its identifier,
\* or its retention is over, or a legacy pull took it.  Until then it comes
\* back within a lease.  Where senders do not repeat identifiers, a message
\* that is gone before its time has been received.
AtLeastOnce ==
    \A s \in DOMAIN accepted :
        \/ WillReturn(s)
        \/ s \in delivered /\ ReadById(s)
        \/ s \in taken
        \/ accepted[s].enqueued_at + RetentionTtl <= clock

\* Legacy delivery is at-most-once: what a legacy pull has returned is in no
\* later answer, of either mode, though its deletion precedes its answer.
LegacyAtMostOnce ==
    [][\A batch \in wire' \ wire : batch \cap taken = {}]_deliveryVars
=============================================================================
