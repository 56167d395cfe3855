----------------------------- MODULE InviteSlots -----------------------------
(***************************************************************************)
(* What the two parties of an invite may rely on, without tables, keys and *)
(* secrets: every published slot is redeemed at most once, admits at most  *)
(* one message, for the ticket of its redemption, and is out of use from   *)
(* its revocation or expiry on.  Store implements it.                      *)
(***************************************************************************)

CONSTANTS
    Slots,        \* what tells one published slot from another
    Tickets

VARIABLES
    life,         \* how far each slot has come
    redeemed,     \* [slot, ticket]: the redemptions so far
    admitted,     \* [slot, ticket, seq]: the messages slots have let through
    due           \* the published slots whose expiry has passed

slotVars == <<life, redeemed, admitted, due>>

Published == {s \in Slots : life[s] \notin {"unborn", "gone"}}

Init ==
    /\ life = [s \in Slots |-> "unborn"]
    /\ redeemed = {} /\ admitted = {} /\ due = {}

\* Slot s comes to `phase' while the slots of G, all due, are dropped.
Becomes(s, phase, G) ==
    life' = [x \in Slots |-> IF x = s THEN phase
                             ELSE IF x \in G THEN "gone" ELSE life[x]]

\* A slot published with a clock reading from long ago may be due at once.
Publish(s, G) ==
    /\ life[s] = "unborn"
    /\ Becomes(s, "open", G)
    /\ due' \in {due \ G, (due \ G) \cup {s}}
    /\ UNCHANGED <<redeemed, admitted>>

\* The one redemption of a slot, for a ticket nobody else has.
Redeem(s, ticket) ==
    /\ life[s] = "open"
    /\ \A r \in redeemed : r.ticket # ticket
    /\ Becomes(s, "redeemed", {})
    /\ redeemed' = redeemed \cup {[slot |-> s, ticket |-> ticket]}
    /\ UNCHANGED <<admitted, due>>

\* The one message of a slot, let through by the ticket of its redemption.
Admit(s) ==
    /\ life[s] = "redeemed"
    /\ Becomes(s, "used", {})
    /\ \E h \in admitted' \ admitted :
         /\ admitted' = admitted \cup {h}
         /\ h.slot = s
         /\ [slot |-> s, ticket |-> h.ticket] \in redeemed
    /\ UNCHANGED <<redeemed, due>>

Revoke(s) ==
    /\ life[s] \in {"open", "redeemed", "used"}
    /\ Becomes(s, "revoked", {})
    /\ UNCHANGED <<redeemed, admitted, due>>

Drop(G) ==
    /\ life' = [x \in Slots |-> IF x \in G THEN "gone" ELSE life[x]]
    /\ due' = due \ G
    /\ UNCHANGED <<redeemed, admitted>>

TimePasses ==
    /\ due \subseteq due' /\ due' \subseteq Published
    /\ UNCHANGED <<life, redeemed, admitted>>

Next ==
    \/ \E G \in SUBSET due : Drop(G) \/ \E s \in Slots : Publish(s, G)
    \/ \E s \in Slots : Admit(s) \/ Revoke(s) \/ \E ticket \in Tickets : Redeem(s, ticket)
    \/ TimePasses

Spec == Init /\ [][Next]_slotVars
=============================================================================
