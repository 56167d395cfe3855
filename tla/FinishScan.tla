----------------------------- MODULE FinishScan -----------------------------
(***************************************************************************)
(* The client coupling pull_message documents (src/lib.rs, REVIEW C1): a   *)
(* client scans a mailbox in batches of ScanBatch and takes a batch        *)
(* SHORTER than it asked for as an exhausted mailbox.  Three limits cut a  *)
(* batch: the max it asked for, the configured queue depth the handler     *)
(* clamps max to, and the byte budget.  The relay may be restarted with    *)
(* any legal limits on the same database, on queues deeper than they are.  *)
(***************************************************************************)
EXTENDS Delivery

CONSTANTS
    ScanBatch,             \* FINISH_SCAN_BATCH
    MaxBodyBytesCeiling    \* MAX_BODY_BYTES_CEILING

VARIABLES
    depthLimit,   \* limits.max_queue_depth of the running relay
    overlooked    \* history: what scans left behind in mailboxes they took
                  \* to be exhausted

scanVars == <<deliveryVars, depthLimit, overlooked>>

\* PULL_BUDGET_BYTES.max(max_body_bytes); module Store calls it PullBudget.
PullBudgetBytes(body) ==
    IF ScanBatch * MaxBodyBytesCeiling >= body THEN ScanBatch * MaxBodyBytesCeiling
                                               ELSE body

ASSUME ScanAssumption ==
    /\ ScanBatch \in Nat \ {0}
    /\ MaxBodyBytesCeiling \in Nat \ {0}
    /\ \A body \in 1..MaxBodyBytesCeiling : PullBudgetBytes(body) = PullBudget
    /\ Sizes \subseteq 1..MaxBodyBytesCeiling

\* A push within the limits of the running relay.  Its body limit may be any up
\* to the ceiling, at any time: so may the size of a body.
PushWithinLimits ==
    /\ PushArrives
    /\ Depth(messages'[nextSeq].route_key) < depthLimit
    /\ UNCHANGED <<depthLimit, overlooked>>

\* max.min(st.limits.max_queue_depth)
MaxOf(asked) == IF asked <= depthLimit THEN asked ELSE depthLimit

\* One pull of a scan, in either mode, and what the client makes of it.
ScanPull ==
    /\ \E key \in Keys, now \in Readings :
         LET max == MaxOf(ScanBatch)
             batch == Batch(key, max, now)
         IN  /\ LeasePull(key, max, now) \/ LegacyPull(key, max, now)
             /\ overlooked' = IF Cardinality(batch) < ScanBatch
                                THEN overlooked \cup (Visible(key, now) \ batch)
                                ELSE overlooked
    /\ UNCHANGED depthLimit

\* The relay is started again on the same database: Limits::new takes any depth
\* but zero, and caps it.
Restart ==
    /\ depthLimit' \in 1..MaxQueueDepth
    /\ UNCHANGED <<deliveryVars, overlooked>>

\* Everything else, the pulls of clients that draw no such conclusion included.
Elsewhere ==
    /\ PullArrives \/ AckArrives \/ SweepRuns \/ Receive \/ Lose \/ TimePasses
    /\ UNCHANGED <<depthLimit, overlooked>>

ScanInit ==
    /\ DeliveryInit
    /\ depthLimit \in 1..MaxQueueDepth
    /\ overlooked = {}

ScanNext == PushWithinLimits \/ ScanPull \/ Restart \/ Elsewhere

ScanSpec == ScanInit /\ [][ScanNext]_scanVars

----------------------------------------------------------------------------

\* What the comment on PULL_BUDGET_BYTES claims: no batch is cut at any legal
\* configuration, so a scan that takes a short one for an exhausted mailbox
\* overlooks no message.
ScanOverlooksNothing == overlooked = {}

\* A scan overlooks a message only in a mailbox that is deeper than the depth
\* limit of the relay that answers.  The byte budget cuts no scan, whatever the
\* sizes of the bodies, and the clamp of max to the depth limit none in a
\* mailbox that was filled under that limit.
OnlyDepthCutsAScan ==
    [][\A s \in overlooked' \ overlooked :
          Depth(messages[s].route_key) > depthLimit]_scanVars
=============================================================================
