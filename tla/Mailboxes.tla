------------------------------ MODULE Mailboxes ------------------------------
(***************************************************************************)
(* What clients may rely on of the relay's mailboxes, without tables,      *)
(* routes, limits and clock readings: a mailbox is a queue that returns    *)
(* its messages oldest first, hides what it has returned while a lease     *)
(* runs, and then returns it again until it is settled.  Store implements  *)
(* it.                                                                     *)
(***************************************************************************)
EXTENDS Integers

CONSTANT Keys

VARIABLES
    last,     \* the number of the latest message
    queue,    \* the mailbox of every queued message, by number
    seen,     \* the messages some pull has returned
    lease,    \* the time until which a queued message is hidden, once leased
    due,      \* the messages whose retention is over
    time

mailboxVars == <<last, queue, seen, lease, due, time>>

In(key) == {n \in DOMAIN queue : queue[n] = key}

\* What a running lease hides.
Hidden == {n \in DOMAIN lease : time < lease[n]}

\* The messages of G leave, and no other.
Without(f, G) == [n \in DOMAIN f \ G |-> f[n]]
Leave(G) == queue' = Without(queue, G) /\ lease' = Without(lease, G)

Init ==
    /\ last = 0 /\ time = 0
    /\ queue = [n \in {} |-> 0] /\ lease = [n \in {} |-> 0]
    /\ seen = {} /\ due = {}

\* A message posted with a clock reading from long ago may be due at once.
Post(key) ==
    /\ last' = last + 1
    /\ queue' = [n \in DOMAIN queue \cup {last + 1} |->
                   IF n = last + 1 THEN key ELSE queue[n]]
    /\ due' \in {due, due \cup {last + 1}}
    /\ UNCHANGED <<seen, lease, time>>

\* B is what a pull returns while the messages of E expire: nothing hidden, and
\* nothing younger than a message of the mailbox that stays behind unseen.
Return(key, E, B) ==
    /\ seen' = seen \cup B
    /\ B \subseteq In(key) \ (E \cup Hidden)
    /\ \A m \in B, n \in In(key) \ (E \cup B \cup seen) : m < n

\* A pull that leases what it returns, until one time for all of it, and leaves
\* every other lease as it was.
Lease(key, E, B) ==
    /\ Return(key, E, B)
    /\ queue' = Without(queue, E)
    /\ DOMAIN lease' = (DOMAIN lease \ E) \cup B
    /\ \A n \in DOMAIN lease' \ B : lease'[n] = lease[n]
    /\ \A m, n \in B : lease'[m] = lease'[n]
    /\ UNCHANGED <<last, due, time>>

\* A pull that deletes what it returns.
Take(key, E, B) ==
    /\ Return(key, E, B)
    /\ Leave(E \cup B)
    /\ UNCHANGED <<last, due, time>>

\* Only what was returned can be settled.
Settle(key, E, B) ==
    /\ UNCHANGED <<last, seen, due, time>>
    /\ B \subseteq In(key) \cap seen
    /\ Leave(E \cup B)

Expire(E) ==
    /\ Leave(E)
    /\ UNCHANGED <<last, seen, due, time>>

TimePasses ==
    /\ time' = time + 1
    /\ due \subseteq due' /\ due' \subseteq 1..last
    /\ UNCHANGED <<last, queue, seen, lease>>

Next ==
    \/ \E key \in Keys : Post(key)
    \/ \E E \in SUBSET (DOMAIN queue \cap due) :
         \/ Expire(E)
         \/ \E key \in Keys : \E B \in SUBSET In(key) :
              Lease(key, E, B) \/ Take(key, E, B) \/ Settle(key, E, B)
    \/ TimePasses

Spec == Init /\ [][Next]_mailboxVars
=============================================================================
