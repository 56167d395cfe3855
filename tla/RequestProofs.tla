--------------------------- MODULE RequestProofs ---------------------------
(***************************************************************************)
(* Proofs about the gate every request passes, for any texts clients may   *)
(* send, and about the base64url codec, for any byte string and text.      *)
(*                                                                         *)
(* The codec's folds are unfolded first.  The decoder then has a loop      *)
(* invariant (LoopInv), the encoder a description of every character       *)
(* (EncodeIs); the theorems compare the two.  Induction is by the least    *)
(* position at which a statement fails.                                    *)
(***************************************************************************)
EXTENDS Gate, Base64, SumProofs

----------------------------------------------------------------------------
(* The first check that fails.                                             *)

\* What a check may say.
Codes ==
    {"ok", "BAD_QUERY", "LENGTH_LIMIT", "ERR_UNAUTHORIZED",
     "ERR_MISSING_ROUTE_TOKEN", "ERR_BAD_ROUTE_TOKEN", "ERR_EMPTY_BODY",
     "ERR_TOO_LARGE", "ERR_BAD_MAX", "ERR_BAD_ACK_MODE", "ERR_BAD_ACK_BODY",
     "ERR_BAD_ACK_IDS", "ERR_INVITE_TOO_LARGE", "ERR_INVITE_BAD_BODY"}

\* A list of checks passes exactly when none of them fails.
LEMMA PassesIffNoneFails ==
    ASSUME NEW checks \in Seq(Codes)
    PROVE  FirstRefusal(checks) = "pass" <=> Failing(checks) = {}
<1>1. CASE Failing(checks) = {}
  BY <1>1 DEF FirstRefusal
<1>2. CASE Failing(checks) # {}
  <2>1. Failing(checks) \in SUBSET Nat /\ Failing(checks) \subseteq DOMAIN checks
    BY DEF Failing
  <2>2. \E i \in Failing(checks) : \A j \in Failing(checks) : i <= j
    BY <1>2, <2>1, LeastNatural
  <2> DEFINE first == CHOOSE i \in Failing(checks) : \A j \in Failing(checks) : i <= j
  <2>3. first \in Failing(checks)
    BY <2>2, Zenon
  <2>4. FirstRefusal(checks) = checks[first]
    BY <1>2 DEF FirstRefusal
  <2> HIDE DEF first
  <2>5. checks[first] \in Codes
    BY <2>1, <2>3
  <2> QED
    BY <1>2, <2>4, <2>5 DEF Codes
<1> QED
  BY <1>1, <1>2

\* What the first failing check says is the answer.
LEMMA FirstFailingDecides ==
    ASSUME NEW checks \in Seq(Codes), NEW n \in DOMAIN checks, checks[n] # "ok",
           \A j \in 1..(n - 1) : checks[j] = "ok"
    PROVE  FirstRefusal(checks) = checks[n]
<1>1. n \in Nat /\ n \in Failing(checks)
  BY DEF Failing
<1>2. \A j \in Failing(checks) : j \in Nat /\ n <= j
  BY <1>1 DEF Failing
<1> DEFINE first == CHOOSE i \in Failing(checks) : \A j \in Failing(checks) : i <= j
<1>3. first \in Failing(checks) /\ \A j \in Failing(checks) : first <= j
  BY <1>1, <1>2, Zenon
<1>4. FirstRefusal(checks) = checks[first]
  BY <1>1 DEF FirstRefusal
<1> HIDE DEF first
<1>5. first = n
  BY <1>1, <1>2, <1>3
<1> QED
  BY <1>4, <1>5

----------------------------------------------------------------------------
(* The checks of the handlers.                                             *)

LEMMA ExtractorsType ==
    ASSUME NEW r
    PROVE  Extractors(r) \in Seq(Codes) /\ Len(Extractors(r)) = 2
BY DEF Extractors, Check, Codes

LEMMA AuthCheckType ==
    ASSUME NEW r
    PROVE  /\ AuthCheck(r) \in Seq(Codes) /\ Len(AuthCheck(r)) = 1
           /\ ~AuthOk(r) => AuthCheck(r)[1] = "ERR_UNAUTHORIZED"
BY DEF AuthCheck, Check, Codes

\* After the bearer gate a handler has checks of its own.
LEMMA OwnChecksType ==
    ASSUME NEW r
    PROVE  /\ PushChecks(r) \in Seq(Codes)
           /\ PullChecks(r) \in Seq(Codes)
           /\ AckChecks(r) \in Seq(Codes)
           /\ CreateSizeCheck(r) \in Seq(Codes)
           /\ CreateChecks(r) \in Seq(Codes)
           /\ SlotChecks(r) \in Seq(Codes)
<1> USE DEF Check, Codes
<1>1. PushChecks(r) \in Seq(Codes)
  BY DEF PushChecks, RouteTokenError
<1>2. PullChecks(r) \in Seq(Codes)
  BY DEF PullChecks, RouteTokenError
<1>3. AckChecks(r) \in Seq(Codes)
  BY DEF AckChecks, RouteTokenError
<1>4. CreateSizeCheck(r) \in Seq(Codes)
  BY DEF CreateSizeCheck
<1>5. CreateChecks(r) \in Seq(Codes)
  BY DEF CreateChecks
<1>6. SlotChecks(r) \in Seq(Codes)
  BY DEF SlotChecks
<1> QED
  BY <1>1, <1>2, <1>3, <1>4, <1>5, <1>6

\* Every handler checks the bearer before anything of its own.
LEMMA BearerFirst ==
    ASSUME NEW r \in Requests
    PROVE  \E own \in Seq(Codes) : Checks(r) = Extractors(r) \o (AuthCheck(r) \o own)

<1>1. AuthCheck(r) \in Seq(Codes)
  BY AuthCheckType
<1>2. CASE r.endpoint = "push"
  <2>1. Checks(r) = Extractors(r) \o (AuthCheck(r) \o PushChecks(r))
    BY <1>2 DEF Checks
  <2> QED
    BY <2>1, OwnChecksType
<1>3. CASE r.endpoint = "pull"
  <2>1. Checks(r) = Extractors(r) \o (AuthCheck(r) \o PullChecks(r))
    BY <1>3 DEF Checks
  <2> QED
    BY <2>1, OwnChecksType
<1>4. CASE r.endpoint = "ack"
  <2>1. Checks(r) = Extractors(r) \o (AuthCheck(r) \o AckChecks(r))
    BY <1>4 DEF Checks
  <2> QED
    BY <2>1, OwnChecksType
<1>5. CASE r.endpoint = "create"
  <2>1. Checks(r) = Extractors(r) \o (AuthCheck(r) \o CreateSizeCheck(r) \o CreateChecks(r))
    BY <1>5 DEF Checks
  <2>2. AuthCheck(r) \o CreateSizeCheck(r) \o CreateChecks(r)
          = AuthCheck(r) \o (CreateSizeCheck(r) \o CreateChecks(r))
    <3>1. \A p, q, u \in Seq(Codes) : (p \o q) \o u = p \o (q \o u)
      OBVIOUS
    <3>2. CreateSizeCheck(r) \in Seq(Codes) /\ CreateChecks(r) \in Seq(Codes)
      BY OwnChecksType
    <3> QED
      BY <1>1, <3>1, <3>2, Zenon
  <2>3. CreateSizeCheck(r) \o CreateChecks(r) \in Seq(Codes)
    BY OwnChecksType
  <2> QED
    BY <2>1, <2>2, <2>3
<1>6. CASE r.endpoint \in {"redeem", "revoke"}
  <2>1. Checks(r) = Extractors(r) \o (AuthCheck(r) \o SlotChecks(r))
    BY <1>6 DEF Checks
  <2> QED
    BY <2>1, OwnChecksType
<1>7. CASE r.endpoint = "info"
  <2>1. Checks(r) = Extractors(r) \o AuthCheck(r)
    BY <1>7 DEF Checks
  <2>2. AuthCheck(r) = AuthCheck(r) \o <<>> /\ <<>> \in Seq(Codes)
    BY <1>1
  <2> QED
    BY <2>1, <2>2
<1>8. r.endpoint \in {"push", "pull", "ack", "create", "redeem", "revoke", "info"}
  BY DEF Requests
<1> QED
  BY <1>2, <1>3, <1>4, <1>5, <1>6, <1>7, <1>8

LEMMA ConcatByIndex ==
    ASSUME NEW s \in Seq(Codes), NEW t \in Seq(Codes)
    PROVE  /\ s \o t \in Seq(Codes)
           /\ Len(s) \in Nat /\ Len(t) \in Nat
           /\ Len(s \o t) = Len(s) + Len(t)
           /\ DOMAIN (s \o t) = 1..(Len(s) + Len(t))
           /\ \A i \in 1..(Len(s) + Len(t)) :
                 (s \o t)[i] = IF i <= Len(s) THEN s[i] ELSE t[i - Len(s)]
OBVIOUS

\* Checks that put the bearer after the extractors, seen by index.
LEMMA ThirdIsBearer ==
    ASSUME NEW r, NEW own \in Seq(Codes)
    PROVE  LET checks == Extractors(r) \o (AuthCheck(r) \o own)
           IN  /\ checks \in Seq(Codes)
               /\ 3 \in DOMAIN checks
               /\ checks[1] = Extractors(r)[1] /\ checks[2] = Extractors(r)[2]
               /\ checks[3] = AuthCheck(r)[1]
<1> DEFINE e == Extractors(r)
           a == AuthCheck(r)
<1>1. e \in Seq(Codes) /\ Len(e) = 2 /\ a \in Seq(Codes) /\ Len(a) = 1
  BY ExtractorsType, AuthCheckType
<1> HIDE DEF e, a
<1> DEFINE rest == a \o own
<1>2. rest \in Seq(Codes) /\ Len(rest) >= 1 /\ Len(rest) \in Nat /\ rest[1] = a[1]
  BY <1>1, ConcatByIndex
<1> HIDE DEF rest
<1>3. /\ e \o rest \in Seq(Codes) /\ 3 \in DOMAIN (e \o rest)
      /\ (e \o rest)[1] = e[1] /\ (e \o rest)[2] = e[2] /\ (e \o rest)[3] = rest[1]
  <2>1. /\ e \o rest \in Seq(Codes)
        /\ DOMAIN (e \o rest) = 1..(2 + Len(rest))
        /\ \A i \in 1..(2 + Len(rest)) :
              (e \o rest)[i] = IF i <= 2 THEN e[i] ELSE rest[i - 2]
    <3>1. /\ e \o rest \in Seq(Codes)
          /\ DOMAIN (e \o rest) = 1..(Len(e) + Len(rest))
          /\ \A i \in 1..(Len(e) + Len(rest)) :
                (e \o rest)[i] = IF i <= Len(e) THEN e[i] ELSE rest[i - Len(e)]
      BY <1>1, <1>2, ConcatByIndex, Zenon
    <3> QED
      BY <1>1, <3>1, Zenon
  <2> DEFINE all == e \o rest
  <2> HIDE DEF all
  <2>2. /\ 3 \in DOMAIN all
        /\ all[1] = e[1] /\ all[2] = e[2] /\ all[3] = rest[1]
    <3>1. \A i \in 1..(2 + Len(rest)) : all[i] = IF i <= 2 THEN e[i] ELSE rest[i - 2]
      BY <2>1 DEF all
    <3>2. DOMAIN all = 1..(2 + Len(rest))
      BY <2>1 DEF all
    <3>3. 3 - 2 = 1
      OBVIOUS
    <3> QED
      BY <1>2, <3>1, <3>2, <3>3
  <2> QED
    BY <2>1, <2>2 DEF all
<1> QED
  BY <1>2, <1>3 DEF rest, e, a

\* Nothing passes without the bearer.
LEMMA UnauthorizedNeverPasses ==
    ASSUME NEW r, ~AuthOk(r), NEW own \in Seq(Codes)
    PROVE  FirstRefusal(Extractors(r) \o (AuthCheck(r) \o own)) # "pass"
<1> DEFINE checks == Extractors(r) \o (AuthCheck(r) \o own)
<1>1. checks \in Seq(Codes) /\ 3 \in DOMAIN checks /\ checks[3] = "ERR_UNAUTHORIZED"
  BY ThirdIsBearer, AuthCheckType
<1> HIDE DEF checks
<1>2. Failing(checks) # {}
  BY <1>1 DEF Failing
<1>3. FirstRefusal(checks) # "pass"
  BY <1>1, <1>2, PassesIffNoneFails
<1> QED
  BY <1>3 DEF checks

\* What the extractors let through is refused for its bearer alone.
LEMMA UnauthorizedSaysSo ==
    ASSUME NEW r \in Requests, ~AuthOk(r), Extracted(r)
    PROVE  FirstRefusal(Checks(r)) = "ERR_UNAUTHORIZED"
<1>1. PICK own \in Seq(Codes) : Checks(r) = Extractors(r) \o (AuthCheck(r) \o own)
  BY BearerFirst
<1> DEFINE checks == Extractors(r) \o (AuthCheck(r) \o own)
<1>2. /\ checks \in Seq(Codes) /\ 3 \in DOMAIN checks
      /\ checks[1] = Extractors(r)[1] /\ checks[2] = Extractors(r)[2]
      /\ checks[3] = "ERR_UNAUTHORIZED"
  BY ThirdIsBearer, AuthCheckType
<1>3. Failing(Extractors(r)) = {}
  BY ExtractorsType, PassesIffNoneFails DEF Extracted
<1>4. Extractors(r)[1] = "ok" /\ Extractors(r)[2] = "ok"
  <2>1. 1 \in DOMAIN Extractors(r) /\ 2 \in DOMAIN Extractors(r)
    BY ExtractorsType
  <2> QED
    BY <1>3, <2>1 DEF Failing
<1> HIDE DEF checks
<1>5. \A j \in 1..(3 - 1) : checks[j] = "ok"
  BY <1>2, <1>4
<1>6. FirstRefusal(checks) = "ERR_UNAUTHORIZED"
  BY <1>2, <1>5, FirstFailingDecides
<1> QED
  BY <1>1, <1>6 DEF checks

----------------------------------------------------------------------------
(* The gate.                                                               *)

GateInv ==
    /\ request \in Requests \cup {NoRequest}
    /\ request # NoRequest => answer = AnswerTo(request)
    /\ request # NoRequest => reached = Reached(request)

LEMMA NoRequestIsNone == NoRequest \notin Requests
<1>1. \A r \in Requests : r.endpoint # "none"
  BY DEF Requests
<1> QED
  BY <1>1 DEF NoRequest

LEMMA GateStep == GateInv /\ [GateNext]_gateVars => GateInv'
<1> SUFFICES ASSUME GateInv, [GateNext]_gateVars PROVE GateInv'
  OBVIOUS
<1>1. CASE Serve
  <2>1. /\ request' \in Requests /\ bearer' = bearer
        /\ answer' = AnswerTo(request') /\ reached' = Reached(request')
    BY <1>1 DEF Serve
  <2>2. /\ AnswerTo(request)' = AnswerTo(request')
        /\ Reached(request)' = Reached(request')
    BY <2>1 DEF AnswerTo, Reached, Checks, AuthCheck, AuthOk, InfoMode
  <2> QED
    BY <2>1, <2>2 DEF GateInv
<1>2. CASE Respond
  BY <1>2 DEF Respond, GateInv
<1>3. CASE UNCHANGED gateVars
  BY <1>3 DEF gateVars, GateInv, AnswerTo, Reached, Checks, AuthCheck, AuthOk, InfoMode
<1> QED
  BY <1>1, <1>2, <1>3 DEF GateNext

\* What a request was answered, and what it reached, is what its checks say.
THEOREM GateInvariant == GateSpec => []GateInv
<1>1. GateInit => GateInv
  BY DEF GateInit, GateInv
<1> QED
  BY <1>1, GateStep, PTL DEF GateSpec

\* Without the bearer every request to an endpoint gets the same answer,
\* whatever it names and carries.
THEOREM AnswersTellNothing == GateSpec => []NoTokenOracle
<1>1. GateInv => NoTokenOracle
  <2> SUFFICES ASSUME GateInv, Refused(request), Extracted(request),
                      NEW r \in Requests, r.endpoint = request.endpoint,
                      Refused(r), Extracted(r)
               PROVE  AnswerTo(r) = answer
    BY DEF NoTokenOracle
  <2>1. request \in Requests /\ answer = AnswerTo(request)
    BY DEF GateInv, Refused
  <2>2. \A q \in Requests : (Refused(q) /\ Extracted(q)) =>
          FirstRefusal(Checks(q)) = "ERR_UNAUTHORIZED"
    BY UnauthorizedSaysSo DEF Refused
  <2>3. FirstRefusal(Checks(r)) = "ERR_UNAUTHORIZED"
    BY <2>2
  <2>4. FirstRefusal(Checks(request)) = "ERR_UNAUTHORIZED"
    BY <2>1, <2>2
  <2> QED
    BY <2>1, <2>3, <2>4 DEF AnswerTo
<1> QED
  BY <1>1, GateInvariant, PTL

\* Without the bearer nobody spends a rate token or opens a transaction.
THEOREM RefusedCostsNothing == GateSpec => []RefusedReachesNothing
<1>1. GateInv => RefusedReachesNothing
  <2> SUFFICES ASSUME GateInv, Refused(request) PROVE reached = {}
    BY DEF RefusedReachesNothing
  <2>1. request \in Requests /\ reached = Reached(request) /\ ~AuthOk(request)
    BY DEF GateInv, Refused
  <2>2. FirstRefusal(Checks(request)) # "pass"
    BY <2>1, BearerFirst, UnauthorizedNeverPasses
  <2> DEFINE e == Extractors(request)
             a == AuthCheck(request)
             c == CreateSizeCheck(request)
  <2>3. FirstRefusal(e \o (a \o c)) # "pass"
    BY <2>1, OwnChecksType, UnauthorizedNeverPasses
  <2>4. e \o a \o c = e \o (a \o c)
    <3>1. e \in Seq(Codes) /\ a \in Seq(Codes) /\ c \in Seq(Codes)
      BY ExtractorsType, AuthCheckType, OwnChecksType
    <3> HIDE DEF e, a, c
    <3> QED
      BY <3>1
  <2>5. FirstRefusal(Extractors(request) \o AuthCheck(request) \o CreateSizeCheck(request))
          # "pass"
    BY <2>3, <2>4, Zenon
  <2> QED
    BY <2>1, <2>2, <2>5 DEF Reached
<1> QED
  BY <1>1, GateInvariant, PTL

LEMMA TextUpdated ==
    ASSUME NEW c, NEW p, NEW q
    PROVE  [[core |-> c, padded |-> p] EXCEPT !.padded = q] = [core |-> c, padded |-> q]
OBVIOUS

LEMMA TextsEqual ==
    ASSUME NEW c, NEW d, NEW p, NEW q
    PROVE  [core |-> c, padded |-> p] = [core |-> d, padded |-> q] <=> (c = d /\ p = q)
OBVIOUS

\* A slot guards the mailbox its invite_id names, for any texts: a padded
\* invite_id guards none.
THEOREM SlotsGuardByName == GateSpec => []SlotGuardsItsMailbox
<1>1. GateInv => SlotGuardsItsMailbox
  <2> SUFFICES ASSUME GateInv, request.endpoint = "create", NEW h \in Text
               PROVE  MailboxKey(h) = SlotKey(request.invite_id)
                        <=> (h.core = request.invite_id.core /\ ~request.invite_id.padded)
    BY DEF SlotGuardsItsMailbox
  <2>1. request.invite_id \in Text
    <3>1. request \in Requests
      BY DEF GateInv, NoRequest
    <3> QED
      BY <3>1 DEF Requests
  <2> DEFINE id == request.invite_id
  <2>2. /\ h = [core |-> h.core, padded |-> h.padded]
        /\ id = [core |-> id.core, padded |-> id.padded] /\ id.padded \in BOOLEAN
    BY <2>1 DEF Text
  <2>3. Trim(h) = [core |-> h.core, padded |-> FALSE]
    <3>1. Trim(h) = [[core |-> h.core, padded |-> h.padded] EXCEPT !.padded = FALSE]
      BY <2>2, Zenon DEF Trim
    <3> QED
      BY <3>1, TextUpdated, Zenon
  <2> HIDE DEF id
  <2>4. Trim(h) = id <=> (h.core = id.core /\ ~id.padded)
    <3> DEFINE c == id.core
               p == id.padded
    <3>1. id = [core |-> c, padded |-> p] /\ p \in BOOLEAN
      BY <2>2
    <3> HIDE DEF c, p
    <3>2. [core |-> h.core, padded |-> FALSE] = [core |-> c, padded |-> p]
            <=> (h.core = c /\ FALSE = p)
      BY TextsEqual, Zenon
    <3>3. (FALSE = p) <=> ~p
      BY <3>1, Zenon
    <3>4. Trim(h) = id <=> (h.core = c /\ ~p)
      BY <2>3, <3>1, <3>2, <3>3, Zenon
    <3> QED
      BY <3>4, Zenon DEF c, p
  <2>5. MailboxKey(h) = SlotKey(id) <=> Trim(h) = id
    BY DEF MailboxKey, SlotKey, RouteKeyFor
  <2> QED
    BY <2>4, <2>5 DEF id
<1> QED
  BY <1>1, GateInvariant, PTL

----------------------------------------------------------------------------
(* The codec: the largest of a set of positions.                           *)

\* The largest of a bounded set of numbers.
LEMMA MaxOfBounded ==
    ASSUME NEW S \in SUBSET Nat, S # {}, NEW n \in Nat, \A x \in S : x <= n
    PROVE  Max(S) \in S /\ \A x \in S : x <= Max(S)
<1> DEFINE U == {m \in Nat : \A x \in S : x <= m}
<1>1. PICK u \in U : \A m \in U : u <= m
  <2>1. U \in SUBSET Nat /\ n \in U
    OBVIOUS
  <2> HIDE DEF U
  <2> QED
    BY <2>1, LeastNatural
<1>2. u \in S
  <2>1. SUFFICES ASSUME u \notin S PROVE FALSE
    OBVIOUS
  <2>2. u # 0
    <3>1. PICK x \in S : TRUE
      OBVIOUS
    <3>2. x \in Nat /\ x <= u /\ x # u /\ u \in Nat
      BY <1>1, <2>1
    <3> QED
      BY <3>2
  <2>3. u - 1 \in U
    BY <2>1, <2>2, <1>1
  <2> QED
    BY <1>1, <2>3
<1>3. \E x \in S : \A y \in S : x >= y
  BY <1>1, <1>2
<1>4. Max(S) \in S /\ \A y \in S : Max(S) >= y
  BY <1>3, Zenon DEF Max
<1> QED
  BY <1>4

----------------------------------------------------------------------------
(* The decoder's loop, unfolded.                                           *)

\* The state before the first character.
Fresh == [ok |-> TRUE, acc |-> 0, bits |-> 0, out |-> <<>>]

\* The last turn of the loop over the positions t.
Turn(s, t, f) == Take(f[t \ {Max(t)}], s[Max(t)])

\* f is the state after the characters at the positions of each subset of S.
Reads(s, S, f) ==
    f = [t \in SUBSET S |-> IF t = {} THEN Fresh ELSE Turn(s, t, f)]

\* The states the fold goes through.
Reader(s, S) == CHOOSE f : Reads(s, S, f)

\* The state after the first n characters.
After(s, n) == Reader(s, 1..n)[1..n]

\* The fold of the decoder is its last state.
LEMMA FoldIsReader ==
    ASSUME NEW s
    PROVE  FoldLeft(Take, Fresh, s) = Reader(s, DOMAIN s)[DOMAIN s]
BY Zenon DEF FoldLeft, MapThenFoldSet, Reader, Reads, Turn

\* The chosen states are states of the loop, if there are any.
LEMMA ReaderChosen ==
    ASSUME NEW s, NEW S, \E f : Reads(s, S, f)
    PROVE  Reads(s, S, Reader(s, S))
BY Zenon DEF Reader

\* What the state after a set of positions is.
LEMMA ReadStep ==
    ASSUME NEW s, NEW S, NEW f, Reads(s, S, f), NEW t \in SUBSET S
    PROVE  /\ t = {} => f[t] = Fresh
           /\ t # {} => f[t] = Turn(s, t, f)
BY Zenon DEF Reads

\* A non-empty set of positions has a last one.
LEMMA MaxOfRange ==
    ASSUME NEW n \in Nat, NEW t \in SUBSET (1..n), t # {}
    PROVE  Max(t) \in t
BY MaxOfBounded

\* Sets of positions are finite.
LEMMA FiniteRange ==
    ASSUME NEW n \in Nat, NEW t \in SUBSET (1..n)
    PROVE  IsFiniteSet(t)
<1>1. IsFiniteSet(1..n)
  BY FS_Interval
<1> QED
  BY <1>1, FS_Subset

\* The state after some positions does not depend on the others.
LEMMA ReadersAgree ==
    ASSUME NEW s, NEW n \in Nat, NEW S, S \subseteq 1..n, NEW U, U \subseteq S,
           Reads(s, S, Reader(s, S)), Reads(s, U, Reader(s, U))
    PROVE  Reader(s, S)[U] = Reader(s, U)[U]
<1> DEFINE f == Reader(s, S)
           h == Reader(s, U)
           Differ == {w \in SUBSET U : f[w] # h[w]}
<1>1. SUFFICES ASSUME Differ # {} PROVE FALSE
  OBVIOUS
<1>2. IsFiniteSet(U) /\ Differ \in SUBSET SUBSET U
  <2>1. U \in SUBSET (1..n)
    OBVIOUS
  <2> QED
    BY <2>1, FiniteRange
<1>3. PICK w \in Differ : \A v \in SUBSET w : v # w => v \notin Differ
  <2> HIDE DEF Differ
  <2> QED
    BY <1>1, <1>2, SmallestSubset
<1>4. w \in SUBSET U /\ w \in SUBSET S /\ w \in SUBSET (1..n) /\ f[w] # h[w]
  BY <1>3
<1>5. w # {} => f[w \ {Max(w)}] = h[w \ {Max(w)}]
  <2>1. w # {} => Max(w) \in w
    BY <1>4, MaxOfRange
  <2> QED
    BY <1>3, <1>4, <2>1
<1>6. Reads(s, S, f) /\ Reads(s, U, h)
  OBVIOUS
<1> HIDE DEF Differ, f, h
<1>7. CASE w = {}
  <2>1. f[w] = Fresh /\ h[w] = Fresh
    BY <1>4, <1>6, <1>7, ReadStep
  <2> QED
    BY <1>4, <2>1
<1>8. CASE w # {}
  <2>1. f[w] = Turn(s, w, f)
    BY <1>4, <1>6, <1>8, ReadStep
  <2>3. h[w] = Turn(s, w, h)
    BY <1>4, <1>6, <1>8, ReadStep
  <2>2. Turn(s, w, f) = Turn(s, w, h)
    BY <1>5, <1>8 DEF Turn
  <2> QED
    BY <1>4, <2>1, <2>2, <2>3
<1> QED
  BY <1>7, <1>8

\* The states of the loop exist for every text.
LEMMA ReaderExists ==
    ASSUME NEW s, NEW n \in Nat, NEW S \in SUBSET (1..n)
    PROVE  Reads(s, S, Reader(s, S))
<1> DEFINE Lacking == {U \in SUBSET S : ~\E f : Reads(s, U, f)}
<1>1. SUFFICES ASSUME Lacking # {} PROVE FALSE
  BY ReaderChosen
<1>2. PICK U \in Lacking : \A W \in SUBSET U : W # U => W \notin Lacking
  <2>1. Lacking \in SUBSET SUBSET S /\ IsFiniteSet(S)
    BY FiniteRange
  <2> HIDE DEF Lacking
  <2> QED
    BY <1>1, <2>1, SmallestSubset
<1>3. \A W \in SUBSET U : W # U => Reads(s, W, Reader(s, W))
  BY <1>2, ReaderChosen
<1> DEFINE R(W) == Reader(s, W)[W]
<1>5. ASSUME NEW W \in SUBSET U, W # U
      PROVE  R(W) = IF W = {} THEN Fresh ELSE Take(R(W \ {Max(W)}), s[Max(W)])
  <2>1. CASE W = {}
    BY <1>3, <1>5, <2>1, ReadStep
  <2>2. CASE W # {}
    <3> DEFINE V == W \ {Max(W)}
    <3>1. W \in SUBSET (1..n) /\ Max(W) \in W
      <4>1. W \in SUBSET (1..n)
        BY <1>2, <1>5
      <4> QED
        BY <2>2, <4>1, MaxOfRange
    <3>2. V \in SUBSET U /\ V # U /\ V \in SUBSET W /\ V \in SUBSET V
      BY <1>5, <3>1
    <3>3. Reads(s, W, Reader(s, W)) /\ Reads(s, V, Reader(s, V)) /\ W \in SUBSET W
      <4> HIDE DEF V
      <4> QED
        BY <1>3, <1>5, <3>2
    <3>4. Reader(s, W)[V] = Reader(s, V)[V]
      <4> HIDE DEF V
      <4> QED
        BY <3>1, <3>2, <3>3, ReadersAgree
    <3>5. Reader(s, W)[W] = Turn(s, W, Reader(s, W))
      BY <2>2, <3>3, ReadStep
    <3> QED
      BY <2>2, <3>4, <3>5 DEF Turn
  <2> QED
    BY <2>1, <2>2
<1> DEFINE F == [t \in SUBSET U |-> IF t = {} THEN Fresh ELSE Take(R(t \ {Max(t)}), s[Max(t)])]
<1>6. ASSUME NEW t \in SUBSET U, t # {}
      PROVE  F[t \ {Max(t)}] = R(t \ {Max(t)})
  <2>1. Max(t) \in t
    <3>1. t \in SUBSET (1..n)
      BY <1>2
    <3> QED
      BY <1>6, <3>1, MaxOfRange
  <2>2. t \ {Max(t)} \in SUBSET U /\ t \ {Max(t)} # U
    BY <1>6, <2>1
  <2> HIDE DEF R
  <2> QED
    BY <1>5, <2>2
<1>7. Reads(s, U, F)
  <2> HIDE DEF R
  <2> QED
    BY <1>6 DEF Reads, Turn
<1> QED
  BY <1>2, <1>7

\* One turn of the decoder's loop after another.
LEMMA AfterUnfolds ==
    ASSUME NEW s, NEW n \in Nat
    PROVE  /\ After(s, 0) = Fresh
           /\ n # 0 => After(s, n) = Take(After(s, n - 1), s[n])
<1>1. After(s, 0) = Fresh
  <2>1. 1..0 = {} /\ 0 \in Nat
    OBVIOUS
  <2> QED
    BY <2>1, ReaderExists, ReadStep DEF After
<1>2. ASSUME n # 0 PROVE After(s, n) = Take(After(s, n - 1), s[n])
  <2> DEFINE N == 1..n
             M == 1..(n - 1)
  <2>1. Max(N) = n
    <3>1. n \in N /\ N \in SUBSET (1..n)
      BY <1>2
    <3>2. N \in SUBSET Nat /\ N # {} /\ (\A x \in N : x <= n)
      BY <3>1
    <3>3. Max(N) \in N /\ \A x \in N : x <= Max(N)
      <4> HIDE DEF N
      <4> QED
        BY <3>2, MaxOfBounded
    <3>4. n <= Max(N)
      BY <3>1, <3>3
    <3>5. Max(N) \in Nat /\ Max(N) <= n
      BY <3>3
    <3> QED
      BY <3>4, <3>5
  <2>2. /\ N \ {n} = M /\ M \in SUBSET N /\ N # {}
        /\ M \in SUBSET M /\ N \in SUBSET N
    <3>1. \A x : x \in M <=> x \in N /\ x # n
      BY <1>2
    <3>2. n \in N
      BY <1>2
    <3> HIDE DEF M, N
    <3> QED
      BY <3>1, <3>2
  <2>3. Reads(s, N, Reader(s, N)) /\ Reads(s, M, Reader(s, M))
    <3>1. M \in SUBSET (1..n) /\ N \in SUBSET (1..n)
      OBVIOUS
    <3> HIDE DEF M, N
    <3> QED
      BY <3>1, ReaderExists
  <2>4. N \in SUBSET (1..n)
    OBVIOUS
  <2> HIDE DEF M, N
  <2>5. Reader(s, N)[M] = Reader(s, M)[M]
    BY <2>2, <2>3, <2>4, ReadersAgree
  <2>6. Reader(s, N)[N] = Turn(s, N, Reader(s, N))
    BY <2>2, <2>3, ReadStep
  <2> QED
    BY <2>1, <2>2, <2>5, <2>6 DEF After, M, N, Turn
<1> QED
  BY <1>1, <1>2

----------------------------------------------------------------------------
(* The decoder's loop, turn by turn.                                       *)

\* The values of six bits.
Sextets == 0..63

\* A valid character has six bits.
LEMMA ValType ==
    ASSUME NEW c \in Nat
    PROVE  Val(c) # Invalid => Val(c) \in Sextets
BY DEF Val, Invalid, Sextets

\* The accumulator keeps the bits of the last two characters.
LEMMA AccKeeps ==
    ASSUME NEW x \in Nat
    PROVE  x % 2^AccWidth \in Nat /\ (x % 2^AccWidth) % 4096 = x % 4096
<1> DEFINE P == 2^AccWidth
<1>1. P \in Nat \ {0} /\ P % 4096 = 0
  BY CodecAssumption
<1> HIDE DEF P
<1> DEFINE q == x \div P
           r == x % P
           k == P \div 4096
<1>2. q \in Nat /\ r \in Nat /\ x = P * q + r
  BY <1>1
<1>3. k \in Nat /\ P = 4096 * k
  BY <1>1
<1> HIDE DEF q, r, k
<1>4. k * q \in Nat
  BY <1>2, <1>3
<1>5. x = 4096 * (k * q) + r
  BY <1>2, <1>3
<1> DEFINE m == k * q
<1> HIDE DEF m
<1>6. m \in Nat /\ x = 4096 * m + r
  BY <1>4, <1>5 DEF m
<1>7. x % 4096 = r % 4096
  BY <1>2, <1>6
<1> QED
  BY <1>2, <1>7 DEF r, P

\* The byte that six bits v complete, where the six before them are p and
\* left bits of those are not yet used.
ByteOf(left, p, v) ==
    CASE left = 6 -> p * 4 + (v \div 16)
      [] left = 4 -> (p % 16) * 16 + (v \div 4)
      [] left = 2 -> (p % 4) * 64 + v

\* The byte the character at position i completes.
Completed(s, i) == ByteOf((6 * (i - 1)) % 8, Val(s[i - 1]), Val(s[i]))

\* The states of the loop.
LoopState == [ok : BOOLEAN, acc : Nat, bits : {0, 2, 4, 6}, out : Seq(Nat)]

\* After i valid characters.
HasRead(s, i) ==
    LET st == After(s, i)
    IN  /\ st.bits = (6 * i) % 8
        /\ i > 0 => st.acc % 64 = Val(s[i])
        /\ Len(st.out) = (3 * i) \div 4
        /\ \A j \in 1..Len(st.out) : st.out[j] = Completed(s, (4 * j + 2) \div 3)

\* The first i characters are valid.
Legible(s, i) == \A k \in 1..i : Val(s[k]) # Invalid

\* The loop invariant: what is known after i characters.
LoopInv(s, i) ==
    /\ After(s, i) \in LoopState
    /\ After(s, i).ok <=> Legible(s, i)
    /\ Legible(s, i) => HasRead(s, i)

\* What a turn does.
LEMMA SextetIs ==
    ASSUME NEW v \in Sextets
    PROVE  v \in Nat /\ v <= 63 /\ v # Invalid
BY DEF Sextets, Invalid

\* The types of the fields.
LEMMA LoopFields ==
    ASSUME NEW st \in LoopState
    PROVE  st.acc \in Nat /\ st.bits \in {0, 2, 4, 6} /\ st.out \in Seq(Nat)
BY DEF LoopState

\* An invalid character, or one after it, leaves the text refused.
LEMMA TakeRefuses ==
    ASSUME NEW st \in LoopState, NEW c, ~st.ok \/ Val(c) = Invalid
    PROVE  Take(st, c) \in LoopState /\ ~Take(st, c).ok
BY DEF Take, LoopState

\* A character that completes no byte.
LEMMA TakeShifts ==
    ASSUME NEW st \in LoopState, st.ok, NEW c, Val(c) \in Sextets, st.bits = 0
    PROVE  /\ Take(st, c) \in LoopState /\ Take(st, c).ok
           /\ Take(st, c).bits = 6 /\ Take(st, c).out = st.out
           /\ Take(st, c).acc % 64 = Val(c)
<1> DEFINE v == Val(c)
           x == st.acc * 64 + v
<1>1. v \in Nat /\ v <= 63 /\ v # Invalid /\ st.acc \in Nat
  BY SextetIs, LoopFields
<1>2. x \in Nat /\ x % 64 = v
  <2> HIDE DEF v
  <2> QED
    BY <1>1
<1>3. x % 2^AccWidth \in Nat /\ (x % 2^AccWidth) % 4096 = x % 4096
  <2> HIDE DEF x
  <2> QED
    BY <1>2, AccKeeps
<1> DEFINE a == x % 2^AccWidth
<1>4. a \in Nat /\ a % 64 = v
  <2> HIDE DEF a, x, v
  <2>1. a \in Nat /\ a % 4096 = x % 4096
    BY <1>3 DEF a
  <2> QED
    BY <1>1, <1>2, <2>1
<1>5. Take(st, c) = [st EXCEPT !.acc = a, !.bits = 6]
  BY <1>1 DEF Take
<1> HIDE DEF a, v
<1> QED
  BY <1>4, <1>5 DEF LoopState, v

\* A character that completes a byte.
LEMMA TakeCompletes ==
    ASSUME NEW st \in LoopState, st.ok, NEW c, Val(c) \in Sextets, st.bits # 0,
           NEW p \in Sextets, st.acc % 64 = p
    PROVE  /\ Take(st, c) \in LoopState /\ Take(st, c).ok
           /\ Take(st, c).bits = st.bits - 2
           /\ Take(st, c).out = Append(st.out, ByteOf(st.bits, p, Val(c)))
           /\ ByteOf(st.bits, p, Val(c)) \in Nat
           /\ Take(st, c).acc % 64 = Val(c)
<1> DEFINE v == Val(c)
           x == st.acc * 64 + v
           a == x % 2^AccWidth
           byte == ByteOf(st.bits, p, v)
<1>1. /\ v \in Nat /\ v <= 63 /\ v # Invalid /\ st.acc \in Nat /\ p \in Nat /\ p <= 63
      /\ st.bits \in {2, 4, 6}
  BY SextetIs, LoopFields
<1>2. x \in Nat /\ x % 4096 = p * 64 + v
  <2> DEFINE q == st.acc \div 64
  <2>1. q \in Nat /\ st.acc = 64 * q + p
    BY <1>1
  <2> HIDE DEF v, q
  <2> QED
    BY <1>1, <2>1
<1>3. a \in Nat /\ a % 4096 = x % 4096
  <2> HIDE DEF x
  <2> QED
    BY <1>2, AccKeeps
<1>4. /\ (a \div 16) % 256 = p * 4 + (v \div 16)
      /\ (a \div 4) % 256 = (p % 16) * 16 + (v \div 4)
      /\ a % 256 = (p % 4) * 64 + v
      /\ a % 64 = v
  <2> HIDE DEF a, x, v
  <2> QED
    BY <1>1, <1>2, <1>3
<1>5. (a \div 2^((st.bits + 6) - 8)) % 256 = byte
  <2> HIDE DEF a, v
  <2>1. CASE st.bits = 6
    BY <1>3, <1>4, <2>1 DEF ByteOf
  <2>2. CASE st.bits = 4
    BY <1>3, <1>4, <2>2 DEF ByteOf
  <2>3. CASE st.bits = 2
    BY <1>3, <1>4, <2>3 DEF ByteOf
  <2> QED
    BY <1>1, <2>1, <2>2, <2>3
<1>6. byte \in Nat
  <2> HIDE DEF v
  <2> QED
    BY <1>1 DEF ByteOf
<1>7. Take(st, c) = [ok |-> TRUE, acc |-> a, bits |-> st.bits - 2, out |-> Append(st.out, byte)]
  <2>1. ~(~st.ok \/ v = Invalid) /\ st.bits + 6 >= 8 /\ (st.bits + 6) - 8 = st.bits - 2
    BY <1>1
  <2> HIDE DEF byte
  <2> QED
    BY <1>5, <2>1 DEF Take
<1>8. st.bits - 2 \in {0, 2, 4, 6} /\ Append(st.out, byte) \in Seq(Nat)
  BY <1>1, <1>6 DEF LoopState
<1> HIDE DEF a, byte
<1>9. /\ Take(st, c) \in LoopState /\ Take(st, c).ok
               /\ Take(st, c).bits = st.bits - 2
               /\ Take(st, c).out = Append(st.out, byte) /\ byte \in Nat
               /\ Take(st, c).acc % 64 = v
  BY <1>3, <1>4, <1>6, <1>7, <1>8 DEF LoopState
<1> QED
  BY <1>9 DEF byte

\* Where the loop is at its i-th character.
LEMMA Positions ==
    ASSUME NEW i \in Nat, i # 0
    PROVE  /\ i % 4 = 1 => /\ (6 * (i - 1)) % 8 = 0 /\ (6 * i) % 8 = 6
                           /\ (3 * i) \div 4 = (3 * (i - 1)) \div 4
           /\ i % 4 # 1 => /\ (6 * i) % 8 = ((6 * (i - 1)) % 8) - 2
                           /\ (6 * (i - 1)) % 8 # 0
                           /\ (3 * i) \div 4 = (3 * (i - 1)) \div 4 + 1
                           /\ (4 * ((3 * i) \div 4) + 2) \div 3 = i
           /\ (3 * (i - 1)) \div 4 \in Nat /\ i % 4 \in 0..3
<1> DEFINE q == i \div 4
           r == i % 4
<1>1. i = 4 * q + r /\ q \in Nat /\ r \in 0..3
  OBVIOUS
<1> HIDE DEF q, r
<1>2. CASE r = 0
  BY <1>1, <1>2
<1>3. CASE r = 1
  BY <1>1, <1>3
<1>4. CASE r = 2
  BY <1>1, <1>4
<1>5. CASE r = 3
  BY <1>1, <1>5
<1> QED
  BY <1>1, <1>2, <1>3, <1>4, <1>5

\* A turn of the loop keeps its invariant.
LEMMA LoopStep ==
    ASSUME NEW s \in Seq(Nat), NEW i \in 1..Len(s), LoopInv(s, i - 1)
    PROVE  LoopInv(s, i)
<1> DEFINE st == After(s, i - 1)
           v == Val(s[i])
<1>1. After(s, i) = Take(st, s[i])
  BY AfterUnfolds
<1>2. st \in LoopState /\ (st.ok <=> Legible(s, i - 1)) /\ (Legible(s, i - 1) => HasRead(s, i - 1))
  BY DEF LoopInv
<1>3. i \in Nat /\ i # 0 /\ s[i] \in Nat /\ i - 1 \in Nat
  OBVIOUS
<1>4. Legible(s, i) <=> (Legible(s, i - 1) /\ v # Invalid)
  BY <1>3 DEF Legible
<1> HIDE DEF st, v
<1>5. CASE ~st.ok \/ v = Invalid
  <2>1. Take(st, s[i]) \in LoopState /\ ~Take(st, s[i]).ok
    BY <1>2, <1>5, TakeRefuses DEF v
  <2> QED
    BY <1>1, <1>2, <1>4, <1>5, <2>1 DEF LoopInv
<1>6. CASE st.ok /\ v # Invalid
  <2>1. v \in Sextets
    BY <1>3, <1>6, ValType DEF v
  <2>2. /\ st.bits = (6 * (i - 1)) % 8
        /\ i - 1 > 0 => st.acc % 64 = Val(s[i - 1])
        /\ Len(st.out) = (3 * (i - 1)) \div 4
    BY <1>2, <1>6 DEF HasRead, st
  <2>8. \A j \in 1..Len(st.out) : st.out[j] = Completed(s, (4 * j + 2) \div 3)
    BY <1>2, <1>6 DEF HasRead, st
  <2>3. Legible(s, i)
    BY <1>2, <1>4, <1>6
  <2>4. SUFFICES After(s, i) \in LoopState /\ After(s, i).ok /\ HasRead(s, i)
    BY <2>3 DEF LoopInv
  <2>5. st.out \in Seq(Nat)
    BY <1>2, LoopFields
  <2>6. CASE i % 4 = 1
    <3>1. st.bits = 0 /\ (6 * i) % 8 = 6 /\ (3 * i) \div 4 = (3 * (i - 1)) \div 4
      BY <1>3, <2>2, <2>6, Positions
    <3>2. /\ Take(st, s[i]) \in LoopState /\ Take(st, s[i]).ok
          /\ Take(st, s[i]).bits = 6 /\ Take(st, s[i]).out = st.out
          /\ Take(st, s[i]).acc % 64 = v
      BY <1>2, <1>6, <2>1, <3>1, TakeShifts DEF v
    <3>3. After(s, i).bits = (6 * i) % 8 /\ Len(After(s, i).out) = (3 * i) \div 4
      BY <1>1, <2>2, <3>1, <3>2
    <3>4. \A j \in 1..Len(After(s, i).out) : After(s, i).out[j] = Completed(s, (4 * j + 2) \div 3)
      BY <1>1, <2>8, <3>2
    <3>5. After(s, i).acc % 64 = Val(s[i])
      BY <1>1, <3>2 DEF v
    <3> QED
      BY <1>1, <3>2, <3>3, <3>4, <3>5 DEF HasRead
  <2>7. CASE i % 4 # 1
    <3> DEFINE p == Val(s[i - 1])
               byte == Completed(s, i)
    <3>1. i - 1 > 0 /\ i - 1 \in 1..(i - 1) /\ i - 1 \in 1..Len(s)
      BY <1>3, <2>7
    <3>2. p \in Sextets /\ st.acc % 64 = p
      <4>1. s[i - 1] \in Nat
        BY <3>1
      <4>2. Val(s[i - 1]) # Invalid
        BY <1>2, <1>6, <3>1 DEF Legible
      <4> QED
        BY <2>2, <3>1, <4>1, <4>2, ValType
    <3>3. (6 * i) % 8 = st.bits - 2 /\ st.bits # 0
      <4>1. (6 * i) % 8 = ((6 * (i - 1)) % 8) - 2 /\ (6 * (i - 1)) % 8 # 0
        BY <1>3, <2>7, Positions
      <4> QED
        BY <2>2, <4>1
    <3> HIDE DEF p
    <3>4. byte = ByteOf(st.bits, p, v)
      BY <2>2 DEF Completed, p, v
    <3> HIDE DEF byte
    <3>6. /\ Take(st, s[i]) \in LoopState /\ Take(st, s[i]).ok
          /\ Take(st, s[i]).bits = st.bits - 2
          /\ Take(st, s[i]).out = Append(st.out, byte) /\ byte \in Nat
          /\ Take(st, s[i]).acc % 64 = v
      <4> DEFINE c == s[i]
      <4>1. v = Val(c)
        BY DEF v
      <4> HIDE DEF c
      <4> QED
        BY <1>2, <1>6, <2>1, <3>2, <3>3, <3>4, <4>1, TakeCompletes DEF c
    <3>7. After(s, i).bits = (6 * i) % 8
      BY <1>1, <3>3, <3>6
    <3> DEFINE n == Len(st.out)
    <3>8. n + 1 = (3 * i) \div 4 /\ (4 * (n + 1) + 2) \div 3 = i /\ n \in Nat
      <4>1. /\ (3 * i) \div 4 = (3 * (i - 1)) \div 4 + 1
            /\ (4 * ((3 * i) \div 4) + 2) \div 3 = i /\ (3 * (i - 1)) \div 4 \in Nat
        BY <1>3, <2>7, Positions
      <4> QED
        BY <2>2, <4>1
    <3>9. /\ Len(After(s, i).out) = n + 1
          /\ After(s, i).out[n + 1] = byte
          /\ \A j \in 1..n : After(s, i).out[j] = st.out[j]
      BY <1>1, <2>5, <3>6
    <3>10. \A j \in 1..(n + 1) : After(s, i).out[j] = Completed(s, (4 * j + 2) \div 3)
      <4> SUFFICES ASSUME NEW j \in 1..(n + 1)
                   PROVE  After(s, i).out[j] = Completed(s, (4 * j + 2) \div 3)
        OBVIOUS
      <4>1. CASE j = n + 1
        BY <3>8, <3>9, <4>1 DEF byte
      <4>2. CASE j # n + 1
        <5>1. j \in 1..n
          BY <3>8, <4>2
        <5> QED
          BY <2>8, <3>9, <5>1
      <4> QED
        BY <4>1, <4>2
    <3>11. After(s, i).acc % 64 = Val(s[i])
      BY <1>1, <3>6 DEF v
    <3> QED
      BY <1>1, <3>6, <3>7, <3>8, <3>9, <3>10, <3>11 DEF HasRead
  <2> QED
    BY <2>6, <2>7
<1> QED
  BY <1>5, <1>6

\* What the decoder has made of the first i characters of any text.
LEMMA Reading ==
    ASSUME NEW s \in Seq(Nat), NEW i \in 0..Len(s)
    PROVE  LoopInv(s, i)
<1> DEFINE Bad == {k \in 0..Len(s) : ~LoopInv(s, k)}
<1>1. SUFFICES ASSUME Bad # {} PROVE FALSE
  OBVIOUS
<1>2. PICK k \in Bad : \A m \in Bad : k <= m
  <2>1. Bad \in SUBSET Nat
    OBVIOUS
  <2> HIDE DEF Bad
  <2> QED
    BY <1>1, <2>1, LeastNatural
<1>3. k # 0
  <2>1. After(s, 0) = Fresh
    BY AfterUnfolds
  <2>2. Fresh \in LoopState /\ Fresh.ok /\ Fresh.bits = 0 /\ Fresh.out = <<>>
    BY DEF Fresh, LoopState
  <2>3. Legible(s, 0)
    BY DEF Legible
  <2>4. HasRead(s, 0)
    BY <2>1, <2>2 DEF HasRead
  <2>5. LoopInv(s, 0)
    BY <2>1, <2>2, <2>3, <2>4 DEF LoopInv
  <2> QED
    BY <1>2, <2>5
<1>4. LoopInv(s, k - 1)
  <2>1. k - 1 \in 0..Len(s) /\ ~(k <= k - 1)
    BY <1>2, <1>3
  <2> QED
    BY <1>2, <2>1
<1>5. LoopInv(s, k)
  <2>1. k \in 1..Len(s)
    BY <1>2, <1>3
  <2> QED
    BY <1>4, <2>1, LoopStep
<1> QED
  BY <1>2, <1>5

\* The table, as cases.
Letter(v) ==
    CASE v < 26 -> 65 + v
      [] v \in 26..51 -> 71 + v
      [] v \in 52..61 -> v - 4
      [] v = 62 -> 45
      [] v = 63 -> 95

\* T is that table.
LEMMA TableIs ==
    ASSUME NEW v \in Sextets
    PROVE  T[v + 1] = Letter(v)
<1>1. \A i \in 1..26 : T[i] = 64 + i
  BY DEF T
<1>2. \A i \in 27..52 : T[i] = 70 + i
  BY DEF T
<1>3. \A i \in 53..62 : T[i] = i - 5
  BY DEF T
<1>4. T[63] = 45 /\ T[64] = 95
  BY DEF T
<1>5. v \in Nat /\ v <= 63
  BY DEF Sextets
<1> QED
  BY <1>1, <1>2, <1>3, <1>4, <1>5 DEF Letter

\* Every six bits have a character of their own, and no other is accepted.
LEMMA Alphabet ==
    /\ \A v \in Sextets : T[v + 1] \in Nat /\ Val(T[v + 1]) = v /\ T[v + 1] # Pad
    /\ \A c \in Nat : Val(c) # Invalid => T[Val(c) + 1] = c
<1>1. \A v \in Sextets : Letter(v) \in Nat /\ Val(Letter(v)) = v /\ Letter(v) # Pad
  BY DEF Letter, Val, Pad, Sextets
<1>2. \A c \in Nat : Val(c) # Invalid => Letter(Val(c)) = c
  BY DEF Letter, Val, Invalid
<1> QED
  BY <1>1, <1>2, TableIs, ValType

----------------------------------------------------------------------------
(* Encoding.                                                               *)

\* The values of a byte.
Byte == 0..255

\* A byte string has zeros after its end.
ByteAt(b, j) == IF j \in 1..Len(b) THEN b[j] ELSE 0

\* The six bits at place r of a group of four, out of the byte x they begin
\* in and the next one.
SixBits(r, x, y) ==
    CASE r = 1 -> x \div 4
      [] r = 2 -> (x % 4) * 16 + (y \div 16)
      [] r = 3 -> (x % 16) * 4 + (y \div 64)
      [] r = 0 -> x % 64

\* The six bits of the m-th character.
Sextet(b, m) ==
    SixBits(m % 4, ByteAt(b, (3 * m + 1) \div 4), ByteAt(b, (3 * m + 1) \div 4 + 1))

\* Every place of a byte string holds a byte.
LEMMA ByteAtType ==
    ASSUME NEW b \in Seq(Byte), NEW j
    PROVE  ByteAt(b, j) \in Byte
<1>1. CASE j \in 1..Len(b)
  <2>1. b[j] \in Byte
    BY <1>1
  <2> QED
    BY <1>1, <2>1 DEF ByteAt
<1>2. CASE j \notin 1..Len(b)
  BY <1>2 DEF ByteAt, Byte
<1> QED
  BY <1>1, <1>2

\* Six bits of two bytes.
LEMMA SixBitsType ==
    ASSUME NEW r \in 0..3, NEW x \in Byte, NEW y \in Byte
    PROVE  SixBits(r, x, y) \in Sextets
<1>1. CASE r = 0
  BY <1>1 DEF SixBits, Byte, Sextets
<1>2. CASE r = 1
  BY <1>2 DEF SixBits, Byte, Sextets
<1>3. CASE r = 2
  BY <1>3 DEF SixBits, Byte, Sextets
<1>4. CASE r = 3
  BY <1>4 DEF SixBits, Byte, Sextets
<1> QED
  BY <1>1, <1>2, <1>3, <1>4

\* A character has six bits of the bytes.
LEMMA SextetType ==
    ASSUME NEW b \in Seq(Byte), NEW m \in Nat
    PROVE  Sextet(b, m) \in Sextets
<1>1. m % 4 \in 0..3
  OBVIOUS
<1> QED
  BY <1>1, ByteAtType, SixBitsType DEF Sextet

\* Three bytes as four groups of six bits.
LEMMA SplitWord ==
    ASSUME NEW x \in Byte, NEW y \in Byte, NEW z \in Byte
    PROVE  LET n == x * 65536 + y * 256 + z
           IN  /\ (n \div 64^(4 - 1)) % 64 = SixBits(1, x, y)
               /\ (n \div 64^(4 - 2)) % 64 = SixBits(2, x, y)
               /\ (n \div 64^(4 - 3)) % 64 = SixBits(3, y, z)
               /\ (n \div 64^(4 - 4)) % 64 = SixBits(0, z, 0)
<1> DEFINE n == x * 65536 + y * 256 + z
<1>1. x \in Nat /\ x <= 255 /\ y \in Nat /\ y <= 255 /\ z \in Nat /\ z <= 255 /\ n \in Nat
  BY DEF Byte
<1>2. (n \div 64^(4 - 1)) % 64 = x \div 4
  BY <1>1
<1>3. (n \div 64^(4 - 2)) % 64 = (x % 4) * 16 + (y \div 16)
  BY <1>1
<1>4. (n \div 64^(4 - 3)) % 64 = (y % 16) * 4 + (z \div 64)
  BY <1>1
<1>5. (n \div 64^(4 - 4)) % 64 = z % 64
  BY <1>1
<1> QED
  BY <1>2, <1>3, <1>4, <1>5 DEF SixBits

----------------------------------------------------------------------------
(* Encoding a chunk.                                                       *)

\* The chunks, the text of the i-th and its length.
ChunkCount(b) == (Len(b) + 2) \div 3
Part(b, i) == EncodeChunk(Chunks(b)[i])
PartLen(b, i) == IF 3 * i <= Len(b) THEN 4 ELSE Len(b) - 3 * i + 4

\* A function on 1..n is a sequence.
LEMMA FunctionIsSeq ==
    ASSUME NEW n \in Nat, NEW f, f = [k \in 1..n |-> f[k]], \A k \in 1..n : f[k] \in Nat
    PROVE  f \in Seq(Nat) /\ Len(f) = n
<1>1. f \in [1..n -> Nat]
  OBVIOUS
<1> QED
  BY <1>1

\* The smaller of two numbers.
LEMMA MinOfTwo ==
    ASSUME NEW x \in Nat, NEW y \in Nat
    PROVE  Min({x, y}) = IF x <= y THEN x ELSE y
<1> DEFINE z == IF x <= y THEN x ELSE y
<1>1. z \in {x, y} /\ \A w \in {x, y} : z <= w
  OBVIOUS
<1>2. \A u \in {x, y} : (\A w \in {x, y} : u <= w) => u = z
  OBVIOUS
<1> HIDE DEF z
<1>3. Min({x, y}) = z
  BY <1>1, <1>2 DEF Min
<1> QED
  BY <1>3 DEF z

\* The i-th chunk has the bytes from the (3i - 2)-th on.
LEMMA ChunkIs ==
    ASSUME NEW b \in Seq(Byte), NEW i \in 1..ChunkCount(b)
    PROVE  /\ Len(Chunks(b)[i]) = PartLen(b, i) - 1
           /\ PartLen(b, i) \in 2..4
           /\ \A k \in 1..3 : k <= Len(Chunks(b)[i]) <=> 3 * i - 3 + k \in 1..Len(b)
           /\ \A k \in 1..Len(Chunks(b)[i]) : Chunks(b)[i][k] = b[3 * i - 3 + k]
<1> DEFINE n == Len(b)
           hi == Min({3 * i, n})
           lo == 3 * i - 2
<1>1. n \in Nat /\ i \in Nat /\ i >= 1 /\ i <= (n + 2) \div 3
  BY DEF ChunkCount
<1>2. hi = IF 3 * i <= n THEN 3 * i ELSE n
  BY <1>1, MinOfTwo
<1>3. Chunks(b)[i] = SubSeq(b, lo, hi)
  <2>1. i \in 1..((Len(b) + 2) \div 3)
    BY DEF ChunkCount
  <2> QED
    BY <2>1, Zenon DEF Chunks
<1>4. lo \in Nat /\ hi \in Nat /\ 1 <= lo /\ lo <= hi /\ hi <= n /\ hi - lo + 1 = PartLen(b, i) - 1
  BY <1>1, <1>2 DEF PartLen
<1> HIDE DEF hi, lo
<1>5. /\ Len(SubSeq(b, lo, hi)) = hi - lo + 1
      /\ \A k \in 1..(hi - lo + 1) : SubSeq(b, lo, hi)[k] = b[lo + k - 1]
  BY <1>4
<1>6. PartLen(b, i) \in 2..4
  BY <1>1 DEF PartLen
<1>7. \A k \in 1..3 : k <= PartLen(b, i) - 1 <=> 3 * i - 3 + k \in 1..Len(b)
  BY <1>1 DEF PartLen
<1>8. \A k \in 1..(hi - lo + 1) : lo + k - 1 = 3 * i - 3 + k
  BY <1>1, <1>4 DEF lo
<1> QED
  BY <1>3, <1>4, <1>5, <1>6, <1>7, <1>8

\* A chunk becomes the characters at its place.
LEMMA PartIs ==
    ASSUME NEW b \in Seq(Byte), NEW i \in 1..ChunkCount(b)
    PROVE  /\ Part(b, i) \in Seq(Nat) /\ Len(Part(b, i)) = PartLen(b, i)
           /\ \A k \in 1..PartLen(b, i) : Part(b, i)[k] = T[Sextet(b, 4 * (i - 1) + k) + 1]
<1> DEFINE chunk == Chunks(b)[i]
           w == [k \in 1..3 |-> IF k <= Len(chunk) THEN chunk[k] ELSE 0]
           n == w[1] * 65536 + w[2] * 256 + w[3]
           x == ByteAt(b, 3 * i - 2)
           y == ByteAt(b, 3 * i - 1)
           z == ByteAt(b, 3 * i)
<1>1. Part(b, i) = [k \in 1..(Len(chunk) + 1) |-> T[((n \div 64^(4 - k)) % 64) + 1]]
  BY DEF Part, EncodeChunk
<1>2. i \in Nat /\ i >= 1 /\ Len(b) \in Nat
  BY DEF ChunkCount
<1>3. Len(chunk) + 1 = PartLen(b, i) /\ PartLen(b, i) \in 2..4
  BY ChunkIs
<1>4. \A k \in 1..3 : w[k] = ByteAt(b, 3 * i - 3 + k)
  <2> SUFFICES ASSUME NEW k \in 1..3 PROVE w[k] = ByteAt(b, 3 * i - 3 + k)
    OBVIOUS
  <2>1. CASE k <= Len(chunk)
    <3>1. k \in 1..Len(chunk)
      BY <1>3, <2>1
    <3>2. chunk[k] = b[3 * i - 3 + k] /\ 3 * i - 3 + k \in 1..Len(b)
      BY <2>1, <3>1, ChunkIs
    <3> QED
      BY <2>1, <3>2 DEF ByteAt
  <2>2. CASE ~(k <= Len(chunk))
    <3>1. 3 * i - 3 + k \notin 1..Len(b)
      BY <2>2, ChunkIs
    <3> QED
      BY <2>2, <3>1 DEF ByteAt
  <2> QED
    BY <2>1, <2>2
<1>5. w[1] = x /\ w[2] = y /\ w[3] = z
  <2>1. 3 * i - 3 + 1 = 3 * i - 2 /\ 3 * i - 3 + 2 = 3 * i - 1 /\ 3 * i - 3 + 3 = 3 * i
    BY <1>2
  <2> HIDE DEF w
  <2> QED
    BY <1>4, <2>1
<1>6. x \in Byte /\ y \in Byte /\ z \in Byte
  BY ByteAtType
<1>7. n = x * 65536 + y * 256 + z
  BY <1>5
<1> HIDE DEF n, w, x, y, z, chunk
<1>8. /\ (n \div 64^(4 - 1)) % 64 = SixBits(1, x, y)
      /\ (n \div 64^(4 - 2)) % 64 = SixBits(2, x, y)
      /\ (n \div 64^(4 - 3)) % 64 = SixBits(3, y, z)
      /\ (n \div 64^(4 - 4)) % 64 = SixBits(0, z, 0)
  BY <1>6, <1>7, SplitWord
<1>9. ASSUME NEW k \in 1..4
      PROVE  (n \div 64^(4 - k)) % 64 = Sextet(b, 4 * (i - 1) + k)
  <2> DEFINE m == 4 * (i - 1) + k
  <2>1. CASE k = 1
    <3>1. m % 4 = 1 /\ (3 * m + 1) \div 4 = 3 * i - 2 /\ (3 * i - 2) + 1 = 3 * i - 1
      BY <1>2, <2>1
    <3> HIDE DEF m
    <3>2. Sextet(b, m) = SixBits(1, x, y)
      BY <3>1 DEF Sextet, x, y
    <3> QED
      BY <1>8, <2>1, <3>2 DEF m
  <2>2. CASE k = 2
    <3>1. m % 4 = 2 /\ (3 * m + 1) \div 4 = 3 * i - 2 /\ (3 * i - 2) + 1 = 3 * i - 1
      BY <1>2, <2>2
    <3> HIDE DEF m
    <3>2. Sextet(b, m) = SixBits(2, x, y)
      BY <3>1 DEF Sextet, x, y
    <3> QED
      BY <1>8, <2>2, <3>2 DEF m
  <2>3. CASE k = 3
    <3>1. m % 4 = 3 /\ (3 * m + 1) \div 4 = 3 * i - 1 /\ (3 * i - 1) + 1 = 3 * i
      BY <1>2, <2>3
    <3> HIDE DEF m
    <3>2. Sextet(b, m) = SixBits(3, y, z)
      BY <3>1 DEF Sextet, y, z
    <3> QED
      BY <1>8, <2>3, <3>2 DEF m
  <2>4. CASE k = 4
    <3>1. m % 4 = 0 /\ (3 * m + 1) \div 4 = 3 * i
      BY <1>2, <2>4
    <3> HIDE DEF m
    <3>2. Sextet(b, m) = SixBits(0, z, 0)
      BY <3>1 DEF Sextet, z, SixBits
    <3> QED
      BY <1>8, <2>4, <3>2 DEF m
  <2> QED
    BY <2>1, <2>2, <2>3, <2>4
<1>10. \A k \in 1..PartLen(b, i) : Part(b, i)[k] = T[Sextet(b, 4 * (i - 1) + k) + 1]
  <2> SUFFICES ASSUME NEW k \in 1..PartLen(b, i)
               PROVE  Part(b, i)[k] = T[Sextet(b, 4 * (i - 1) + k) + 1]
    OBVIOUS
  <2>1. k \in 1..4 /\ k \in 1..(Len(chunk) + 1)
    BY <1>3
  <2>2. Part(b, i)[k] = T[((n \div 64^(4 - k)) % 64) + 1]
    BY <1>1, <2>1
  <2> QED
    BY <1>9, <2>1, <2>2
<1>11. \A k \in 1..PartLen(b, i) : Part(b, i)[k] \in Nat
  <2> SUFFICES ASSUME NEW k \in 1..PartLen(b, i) PROVE Part(b, i)[k] \in Nat
    OBVIOUS
  <2>1. 4 * (i - 1) + k \in Nat
    BY <1>2, <1>3
  <2> QED
    BY <1>10, <2>1, SextetType, Alphabet
<1>13. Part(b, i) = [k \in 1..PartLen(b, i) |-> Part(b, i)[k]]
  BY <1>1, <1>3
<1>14. PartLen(b, i) \in Nat
  BY <1>3
<1>15. Part(b, i) \in Seq(Nat) /\ Len(Part(b, i)) = PartLen(b, i)
  BY <1>11, <1>13, <1>14, FunctionIsSeq
<1> QED
  BY <1>10, <1>15

----------------------------------------------------------------------------
(* Encoding a byte string: FlattenSeq, unfolded.                           *)

\* f[i] is the first i sequences of p, joined.
Joins(p, n, f) == f = [i \in 1..n |-> IF i = 1 THEN p[i] ELSE f[i - 1] \o p[i]]

\* The joined sequences.
Joiner(p) == CHOOSE f : Joins(p, Len(p), f)

\* FlattenSeq joins all of them.
LEMMA FlattenIsJoiner ==
    ASSUME NEW p
    PROVE  FlattenSeq(p) = IF Len(p) = 0 THEN p ELSE Joiner(p)[Len(p)]
BY Zenon DEF FlattenSeq, Joiner, Joins

\* The joined sequences exist.
LEMMA JoinerExists ==
    ASSUME NEW p, NEW n \in Nat
    PROVE  \E f : Joins(p, n, f)
<1> DEFINE Lacking == {k \in Nat : ~\E f : Joins(p, k, f)}
<1>1. SUFFICES ASSUME Lacking # {} PROVE FALSE
  OBVIOUS
<1>2. PICK k \in Lacking : \A m \in Lacking : k <= m
  <2>1. Lacking \in SUBSET Nat
    OBVIOUS
  <2> HIDE DEF Lacking
  <2> QED
    BY <1>1, <2>1, LeastNatural
<1>3. k # 0
  <2>1. Joins(p, 0, [i \in 1..0 |-> p[i]])
    <3>1. 1..0 = {}
      OBVIOUS
    <3> QED
      BY <3>1 DEF Joins
  <2> QED
    BY <1>2, <2>1
<1>4. k - 1 \in Nat /\ k - 1 \notin Lacking
  <2>1. k - 1 \in Nat /\ ~(k <= k - 1)
    BY <1>2, <1>3
  <2> QED
    BY <1>2, <2>1
<1>5. PICK f : Joins(p, k - 1, f)
  BY <1>4
<1>6. \A i \in 1..(k - 1) : f[i] = IF i = 1 THEN p[i] ELSE f[i - 1] \o p[i]
  BY <1>5, Zenon DEF Joins
<1> DEFINE g == [i \in 1..k |-> IF i = 1 THEN p[i]
                               ELSE IF i = k THEN f[k - 1] \o p[k] ELSE f[i]]
<1>7. ASSUME NEW i \in 1..k, i # 1 PROVE g[i] = g[i - 1] \o p[i]
  <2>1. i - 1 \in 1..(k - 1) /\ i - 1 \in 1..k /\ i - 1 # k /\ k \in Nat
    BY <1>2, <1>7
  <2>2. g[i - 1] = f[i - 1]
    BY <1>6, <2>1
  <2>3. CASE i = k
    BY <1>7, <2>2, <2>3
  <2>4. CASE i # k
    <3>1. i \in 1..(k - 1)
      BY <1>2, <2>4
    <3>2. g[i] = f[i]
      BY <1>7, <2>4
    <3>3. f[i] = f[i - 1] \o p[i]
      BY <1>6, <1>7, <3>1
    <3> QED
      BY <2>2, <3>2, <3>3
  <2> QED
    BY <2>3, <2>4
<1>8. \A i \in 1..k : g[i] = IF i = 1 THEN p[i] ELSE g[i - 1] \o p[i]
  BY <1>7
<1>9. Joins(p, k, g)
  <2>1. g = [i \in 1..k |-> g[i]]
    OBVIOUS
  <2> HIDE DEF g
  <2>2. [i \in 1..k |-> g[i]] = [i \in 1..k |-> IF i = 1 THEN p[i] ELSE g[i - 1] \o p[i]]
    BY <1>8
  <2> QED
    BY <2>1, <2>2 DEF Joins
<1> QED
  BY <1>2, <1>9

\* One more sequence is appended at a time.
LEMMA JoinerUnfolds ==
    ASSUME NEW p, Len(p) \in Nat, NEW i \in 1..Len(p)
    PROVE  Joiner(p)[i] = IF i = 1 THEN p[i] ELSE Joiner(p)[i - 1] \o p[i]
<1>1. Joins(p, Len(p), Joiner(p))
  BY JoinerExists DEF Joiner
<1> QED
  BY <1>1, Zenon DEF Joins

\* The texts of the chunks.
Parts(b) == [i \in DOMAIN Chunks(b) |-> EncodeChunk(Chunks(b)[i])]

\* The i-th of them is the text of the i-th chunk.
LEMMA PartsAre ==
    ASSUME NEW b \in Seq(Byte)
    PROVE  /\ ChunkCount(b) \in Nat /\ Len(Parts(b)) = ChunkCount(b)
           /\ \A i \in 1..ChunkCount(b) : Parts(b)[i] = Part(b, i)
<1>1. ChunkCount(b) \in Nat
  BY DEF ChunkCount
<1>2. DOMAIN Chunks(b) = 1..ChunkCount(b)
  BY DEF Chunks, ChunkCount
<1>3. Parts(b) = [i \in 1..ChunkCount(b) |-> Part(b, i)]
  BY <1>2 DEF Parts, Part
<1> QED
  BY <1>1, <1>3

\* e is the first n characters of the text of b.
Spells(b, n, e) ==
    /\ e \in Seq(Nat) /\ Len(e) = n
    /\ \A m \in 1..n : e[m] = T[Sextet(b, m) + 1]

\* The type and the length of joined sequences.
LEMMA JoinedSeq ==
    ASSUME NEW p \in Seq(Nat), NEW q \in Seq(Nat)
    PROVE  p \o q \in Seq(Nat) /\ Len(p \o q) = Len(p) + Len(q)
OBVIOUS

\* What joined sequences hold past the first.
LEMMA JoinedAt ==
    ASSUME NEW p \in Seq(Nat), NEW q \in Seq(Nat), NEW m \in Nat,
           m > Len(p), m <= Len(p) + Len(q)
    PROVE  (p \o q)[m] = q[m - Len(p)]
OBVIOUS

\* One more chunk.
LEMMA TextGrows ==
    ASSUME NEW b \in Seq(Byte), NEW i \in 1..ChunkCount(b), NEW e, Spells(b, 4 * (i - 1), e)
    PROVE  Spells(b, 4 * (i - 1) + PartLen(b, i), e \o Part(b, i))
<1> DEFINE q == Part(b, i)
           n == 4 * (i - 1)
           k == PartLen(b, i)
<1>1. i \in Nat /\ i >= 1 /\ n \in Nat
  BY DEF ChunkCount
<1>2. e \in Seq(Nat) /\ Len(e) = n /\ q \in Seq(Nat) /\ Len(q) = k /\ k \in Nat
  BY PartIs DEF Spells
<1>3. \A m \in 1..n : e[m] = T[Sextet(b, m) + 1]
  BY DEF Spells
<1>4. \A m \in 1..k : q[m] = T[Sextet(b, n + m) + 1]
  BY PartIs
<1> HIDE DEF q, n, k
<1>5. e \o q \in Seq(Nat) /\ Len(e \o q) = n + k
  BY <1>2, JoinedSeq
<1>6. ASSUME NEW m \in 1..(n + k) PROVE (e \o q)[m] = T[Sextet(b, m) + 1]
  <2>1. CASE m <= n
    <3>1. m \in 1..n /\ (e \o q)[m] = e[m]
      BY <1>1, <1>2, <2>1
    <3> QED
      BY <1>3, <3>1
  <2>2. CASE m > n
    <3>1. m - n \in 1..k /\ n + (m - n) = m
      BY <1>1, <1>2, <2>2
    <3>2. (e \o q)[m] = q[m - n]
      <4>1. m \in Nat /\ m <= Len(e) + Len(q) /\ m > Len(e)
        BY <1>1, <1>2, <2>2
      <4>2. (e \o q)[m] = q[m - Len(e)]
        BY <1>2, <4>1, JoinedAt
      <4> QED
        BY <1>2, <4>2
    <3> QED
      BY <1>4, <3>1, <3>2
  <2>3. m \in Nat /\ n \in Nat
    BY <1>1, <1>2 DEF n
  <2>4. m <= n \/ m > n
    BY <2>3
  <2> QED
    BY <2>1, <2>2, <2>4
<1>7. Spells(b, n + k, e \o q)
  BY <1>5, <1>6 DEF Spells
<1> QED
  BY <1>7 DEF n, k, q

\* There are just enough characters, and each has its six bits of the bytes.
LEMMA EncodeIs ==
    ASSUME NEW b \in Seq(Byte)
    PROVE  Spells(b, (4 * Len(b) + 2) \div 3, Encode(b))
<1> DEFINE N == ChunkCount(b)
           P == Parts(b)
           Upto(i) == 4 * (i - 1) + PartLen(b, i)
           Bad == {i \in 1..N : ~Spells(b, Upto(i), Joiner(P)[i])}
<1>1. Encode(b) = FlattenSeq(P)
  BY DEF Encode, Parts
<1>2. N \in Nat /\ Len(P) = N /\ \A i \in 1..N : P[i] = Part(b, i)
  BY PartsAre
<1>3. \A i \in 1..N : Joiner(P)[i] = IF i = 1 THEN P[i] ELSE Joiner(P)[i - 1] \o P[i]
  <2> HIDE DEF P, N
  <2> QED
    BY <1>2, JoinerUnfolds
<1> HIDE DEF P
<1>4. Bad = {}
  <2>1. SUFFICES ASSUME Bad # {} PROVE FALSE
    OBVIOUS
  <2>2. PICK i \in Bad : \A m \in Bad : i <= m
    <3>1. Bad \in SUBSET Nat
      BY <1>2
    <3> HIDE DEF Bad
    <3> QED
      BY <2>1, <3>1, LeastNatural
  <2>3. i \in 1..N /\ i \in Nat
    BY <1>2, <2>2
  <2>4. CASE i = 1
    <3>1. Joiner(P)[i] = Part(b, i)
      BY <1>2, <1>3, <2>3, <2>4
    <3>2. Spells(b, PartLen(b, i), Part(b, i))
      <4>1. \A k \in 1..PartLen(b, i) : 4 * (i - 1) + k = k
        BY <2>4
      <4> QED
        BY <2>3, <4>1, PartIs DEF Spells
    <3>3. Upto(i) = PartLen(b, i)
      <4>1. PartLen(b, i) \in Nat
        BY <2>3, ChunkIs
      <4> QED
        BY <2>4, <4>1
    <3> QED
      BY <2>2, <3>1, <3>2, <3>3
  <2>5. CASE i # 1
    <3>1. i - 1 \in 1..N /\ ~(i <= i - 1)
      BY <1>2, <2>3, <2>5
    <3>2. Spells(b, Upto(i - 1), Joiner(P)[i - 1])
      BY <2>2, <3>1
    <3>3. Upto(i - 1) = 4 * (i - 1)
      <4>1. 3 * (i - 1) <= Len(b)
        <5>1. Len(b) \in Nat /\ i <= (Len(b) + 2) \div 3
          BY <2>3 DEF ChunkCount
        <5> QED
          BY <2>3, <5>1
      <4>2. PartLen(b, i - 1) = 4
        BY <4>1 DEF PartLen
      <4> QED
        BY <2>3, <4>2
    <3>4. Joiner(P)[i] = Joiner(P)[i - 1] \o Part(b, i)
      BY <1>2, <1>3, <2>3, <2>5
    <3> HIDE DEF Upto
    <3>5. Spells(b, 4 * (i - 1), Joiner(P)[i - 1])
      BY <3>2, <3>3
    <3>6. Spells(b, 4 * (i - 1) + PartLen(b, i), Joiner(P)[i])
      BY <2>3, <3>4, <3>5, TextGrows
    <3> QED
      BY <2>2, <3>6 DEF Upto
  <2> QED
    BY <2>4, <2>5
<1>5. CASE N = 0
  <2>1. Len(b) = 0 /\ (4 * Len(b) + 2) \div 3 = 0
    BY <1>5 DEF ChunkCount
  <2>2. Encode(b) = P
    BY <1>1, <1>2, <1>5, FlattenIsJoiner
  <2>3. P = <<>>
    <3>1. DOMAIN Chunks(b) = {}
      BY <1>5 DEF Chunks, ChunkCount
    <3> QED
      BY <3>1 DEF P, Parts
  <2>4. Spells(b, 0, <<>>)
    BY DEF Spells
  <2> QED
    BY <2>1, <2>2, <2>3, <2>4
<1>6. CASE N # 0
  <2>1. N \in 1..N
    BY <1>2, <1>6
  <2>2. Encode(b) = Joiner(P)[N]
    BY <1>1, <1>2, <1>6, FlattenIsJoiner
  <2>3. Spells(b, Upto(N), Joiner(P)[N])
    BY <1>4, <2>1
  <2>4. Upto(N) = (4 * Len(b) + 2) \div 3
    <3>1. Len(b) \in Nat /\ N = (Len(b) + 2) \div 3 /\ Len(b) # 0
      BY <1>6 DEF ChunkCount
    <3> HIDE DEF N
    <3>2. CASE 3 * N <= Len(b)
      <4>1. PartLen(b, N) = 4
        BY <3>2 DEF PartLen
      <4> QED
        BY <3>1, <3>2, <4>1
    <3>3. CASE ~(3 * N <= Len(b))
      <4>1. PartLen(b, N) = Len(b) - 3 * N + 4
        BY <3>3 DEF PartLen
      <4> QED
        BY <3>1, <3>3, <4>1
    <3> QED
      BY <3>2, <3>3
  <2> HIDE DEF Upto
  <2> QED
    BY <2>2, <2>3, <2>4
<1> QED
  BY <1>5, <1>6

----------------------------------------------------------------------------
(* Decoding what was encoded.                                              *)

\* Sequences with the same elements are the same.
LEMMA SeqEqual ==
    ASSUME NEW p \in Seq(Nat), NEW q \in Seq(Nat), Len(p) = Len(q),
           \A i \in 1..Len(p) : p[i] = q[i]
    PROVE  p = q
OBVIOUS

\* The bytes of a byte string are numbers.
LEMMA BytesAreNaturals ==
    ASSUME NEW b \in Seq(Byte)
    PROVE  b \in Seq(Nat)
<1>1. b \in [1..Len(b) -> Byte] /\ Len(b) \in Nat
  OBVIOUS
<1>2. \A i \in 1..Len(b) : b[i] \in Nat
  <2>1. \A x \in Byte : x \in Nat
    BY DEF Byte
  <2> QED
    BY <1>1, <2>1
<1>3. b \in [1..Len(b) -> Nat]
  BY <1>1, <1>2
<1> QED
  BY <1>1, <1>3

\* Only padding at the end is trimmed.
LEMMA TrimIs ==
    ASSUME NEW s \in Seq(Nat)
    PROVE  /\ TrimEnd(s) \in Seq(Nat)
           /\ (\A i \in 1..Len(s) : s[i] # Pad) => TrimEnd(s) = s
<1> DEFINE M == {0} \cup {i \in DOMAIN s : s[i] # Pad}
           n == Max(M)
<1>1. Len(s) \in Nat /\ DOMAIN s = 1..Len(s)
  OBVIOUS
<1>2. M \in SUBSET Nat /\ M # {} /\ 0 \in M /\ \A x \in M : x <= Len(s)
  BY <1>1
<1>3. n \in M /\ \A x \in M : x <= n
  <2> HIDE DEF M
  <2> QED
    BY <1>1, <1>2, MaxOfBounded
<1>4. n \in 0..Len(s)
  <2>1. n \in Nat /\ n <= Len(s)
    BY <1>2, <1>3
  <2> HIDE DEF n
  <2> QED
    BY <1>1, <2>1
<1>5. TrimEnd(s) = SubSeq(s, 1, n)
  BY DEF TrimEnd
<1>6. ASSUME \A i \in 1..Len(s) : s[i] # Pad PROVE n = Len(s)
  <2>1. Len(s) \in M
    BY <1>1, <1>6
  <2>2. Len(s) <= n
    BY <1>3, <2>1
  <2>3. n \in Nat /\ n <= Len(s)
    BY <1>4
  <2>4. \A k, m \in Nat : (k <= m /\ m <= k) => m = k
    OBVIOUS
  <2>5. Len(s) \in Nat
    OBVIOUS
  <2> HIDE DEF n
  <2> QED
    BY <2>2, <2>3, <2>4, <2>5, Zenon
<1> HIDE DEF n
<1>7. SubSeq(s, 1, n) \in Seq(Nat)
  BY <1>4
<1>8. SubSeq(s, 1, Len(s)) = s
  <2>1. SubSeq(s, 1, Len(s)) \in Seq(Nat) /\ Len(SubSeq(s, 1, Len(s))) = Len(s)
    BY <1>1
  <2>2. \A i \in 1..Len(s) : SubSeq(s, 1, Len(s))[i] = s[i]
    BY <1>1
  <2> QED
    BY <2>1, <2>2, SeqEqual
<1> QED
  BY <1>5, <1>6, <1>7, <1>8

\* The result of the loop is its state after the whole trimmed text.
LEMMA DecodedIs ==
    ASSUME NEW s \in Seq(Nat)
    PROVE  Decoded(s) = After(TrimEnd(s), Len(TrimEnd(s)))
<1> DEFINE t == TrimEnd(s)
<1>1. t \in Seq(Nat)
  BY TrimIs
<1>2. DOMAIN t = 1..Len(t)
  BY <1>1
<1>3. Decoded(s) = FoldLeft(Take, Fresh, t)
  BY DEF Decoded, Fresh
<1> HIDE DEF t
<1>4. Decoded(s) = Reader(t, DOMAIN t)[DOMAIN t]
  BY <1>3, FoldIsReader
<1> QED
  BY <1>2, <1>4 DEF After, t

\* Where the bytes and the characters of one group of 24 bits are.
LEMMA Groups ==
    ASSUME NEW j \in Nat, j # 0
    PROVE  LET i == (4 * j + 2) \div 3
           IN  /\ i \in Nat /\ i - 1 \in Nat /\ i - 1 # 0
               /\ j % 3 = 1 => /\ (6 * (i - 1)) % 8 = 6 /\ (i - 1) % 4 = 1 /\ i % 4 = 2
                               /\ (3 * (i - 1) + 1) \div 4 = j /\ (3 * i + 1) \div 4 = j
               /\ j % 3 = 2 => /\ (6 * (i - 1)) % 8 = 4 /\ (i - 1) % 4 = 2 /\ i % 4 = 3
                               /\ (3 * (i - 1) + 1) \div 4 = j - 1 /\ (3 * i + 1) \div 4 = j
               /\ j % 3 = 0 => /\ (6 * (i - 1)) % 8 = 2 /\ (i - 1) % 4 = 3 /\ i % 4 = 0
                               /\ (3 * (i - 1) + 1) \div 4 = j - 1 /\ (3 * i + 1) \div 4 = j
               /\ j % 3 \in 0..2
<1> DEFINE q == j \div 3
           r == j % 3
           i == (4 * j + 2) \div 3
<1>1. j = 3 * q + r /\ q \in Nat /\ r \in 0..2
  OBVIOUS
<1> HIDE DEF q, r
<1>2. CASE r = 0
  <2>1. i = 4 * q /\ q # 0
    BY <1>1, <1>2
  <2> QED
    BY <1>1, <1>2, <2>1
<1>3. CASE r = 1
  <2>1. i = 4 * q + 2
    BY <1>1, <1>3
  <2> QED
    BY <1>1, <1>3, <2>1
<1>4. CASE r = 2
  <2>1. i = 4 * q + 3
    BY <1>1, <1>4
  <2> QED
    BY <1>1, <1>4, <2>1
<1> QED
  BY <1>1, <1>2, <1>3, <1>4

\* The bits of a byte, put together again.
LEMMA Regroup ==
    ASSUME NEW x \in Byte, NEW y \in Byte, NEW z \in Byte, NEW u
    PROVE  /\ ByteOf(6, SixBits(1, x, y), SixBits(2, x, y)) = x
           /\ ByteOf(4, SixBits(2, x, y), SixBits(3, y, z)) = y
           /\ ByteOf(2, SixBits(3, y, z), SixBits(0, z, u)) = z
<1>1. x \in Nat /\ x <= 255 /\ y \in Nat /\ y <= 255 /\ z \in Nat /\ z <= 255
  BY DEF Byte
<1>2. (x \div 4) * 4 + (((x % 4) * 16 + (y \div 16)) \div 16) = x
  BY <1>1
<1>3. (((x % 4) * 16 + (y \div 16)) % 16) * 16 + (((y % 16) * 4 + (z \div 64)) \div 4) = y
  BY <1>1
<1>4. (((y % 16) * 4 + (z \div 64)) % 4) * 64 + (z % 64) = z
  BY <1>1
<1> QED
  BY <1>2, <1>3, <1>4 DEF ByteOf, SixBits

\* Decoding the characters of a byte string gives its bytes.
LEMMA CompletedIs ==
    ASSUME NEW b \in Seq(Byte), NEW s, NEW j \in 1..Len(b),
           NEW L, \A m \in 1..L : Val(s[m]) = Sextet(b, m),
           (4 * j + 2) \div 3 \in 1..L, (4 * j + 2) \div 3 - 1 \in 1..L
    PROVE  Completed(s, (4 * j + 2) \div 3) = b[j]
<1> DEFINE i == (4 * j + 2) \div 3
           B(k) == ByteAt(b, k)
<1>1. j \in Nat /\ j # 0 /\ B(j) = b[j] /\ (j - 1) + 1 = j
  BY DEF ByteAt
<1>2. Completed(s, i) = ByteOf((6 * (i - 1)) % 8, Sextet(b, i - 1), Sextet(b, i))
  BY DEF Completed
<1>3. \A k : B(k) \in Byte
  BY ByteAtType
<1>4. CASE j % 3 = 1
  <2>1. /\ (6 * (i - 1)) % 8 = 6 /\ (i - 1) % 4 = 1 /\ i % 4 = 2
        /\ (3 * (i - 1) + 1) \div 4 = j /\ (3 * i + 1) \div 4 = j
    BY <1>1, <1>4, Groups
  <2> HIDE DEF i
  <2>2. Sextet(b, i - 1) = SixBits(1, B(j), B(j + 1)) /\ Sextet(b, i) = SixBits(2, B(j), B(j + 1))
    BY <2>1 DEF Sextet
  <2> HIDE DEF B
  <2>3. ByteOf(6, SixBits(1, B(j), B(j + 1)), SixBits(2, B(j), B(j + 1))) = B(j)
    BY <1>3, Regroup
  <2>4. Completed(s, i) = b[j]
    BY <1>1, <1>2, <2>1, <2>2, <2>3
  <2> QED
    BY <2>4 DEF i
<1>5. CASE j % 3 = 2
  <2>1. /\ (6 * (i - 1)) % 8 = 4 /\ (i - 1) % 4 = 2 /\ i % 4 = 3
        /\ (3 * (i - 1) + 1) \div 4 = j - 1 /\ (3 * i + 1) \div 4 = j
    BY <1>1, <1>5, Groups
  <2> HIDE DEF i
  <2>2. Sextet(b, i - 1) = SixBits(2, B(j - 1), B(j)) /\ Sextet(b, i) = SixBits(3, B(j), B(j + 1))
    BY <1>1, <2>1 DEF Sextet
  <2> HIDE DEF B
  <2>3. ByteOf(4, SixBits(2, B(j - 1), B(j)), SixBits(3, B(j), B(j + 1))) = B(j)
    BY <1>3, Regroup
  <2>4. Completed(s, i) = b[j]
    BY <1>1, <1>2, <2>1, <2>2, <2>3
  <2> QED
    BY <2>4 DEF i
<1>6. CASE j % 3 = 0
  <2>1. /\ (6 * (i - 1)) % 8 = 2 /\ (i - 1) % 4 = 3 /\ i % 4 = 0
        /\ (3 * (i - 1) + 1) \div 4 = j - 1 /\ (3 * i + 1) \div 4 = j
    BY <1>1, <1>6, Groups
  <2> HIDE DEF i
  <2>2. Sextet(b, i - 1) = SixBits(3, B(j - 1), B(j)) /\ Sextet(b, i) = SixBits(0, B(j), B(j + 1))
    BY <1>1, <2>1 DEF Sextet
  <2> HIDE DEF B
  <2>3. ByteOf(2, SixBits(3, B(j - 1), B(j)), SixBits(0, B(j), B(j + 1))) = B(j)
    BY <1>3, Regroup
  <2>4. Completed(s, i) = b[j]
    BY <1>1, <1>2, <2>1, <2>2, <2>3
  <2> QED
    BY <2>4 DEF i
<1>7. j % 3 \in 0..2
  BY <1>1
<1> QED
  BY <1>4, <1>5, <1>6, <1>7

\* How many characters n bytes take, and what their last one leaves over.
LEMMA Lengths ==
    ASSUME NEW n \in Nat
    PROVE  LET L == (4 * n + 2) \div 3
           IN  /\ L \in Nat /\ (3 * L) \div 4 = n /\ (8 * n + 5) \div 6 = L
               /\ n % 3 = 0 => (6 * L) % 8 = 0
               /\ n % 3 = 1 => (6 * L) % 8 = 4 /\ L % 4 = 2 /\ (3 * L + 1) \div 4 = n /\ L > 0
               /\ n % 3 = 2 => (6 * L) % 8 = 2 /\ L % 4 = 3 /\ (3 * L + 1) \div 4 = n /\ L > 0
               /\ n % 3 \in 0..2
<1> DEFINE q == n \div 3
           r == n % 3
           L == (4 * n + 2) \div 3
<1>1. n = 3 * q + r /\ q \in Nat /\ r \in 0..2
  OBVIOUS
<1> HIDE DEF q, r
<1>2. CASE r = 0
  <2>1. L = 4 * q
    BY <1>1, <1>2
  <2> QED
    BY <1>1, <1>2, <2>1
<1>3. CASE r = 1
  <2>1. L = 4 * q + 2
    BY <1>1, <1>3
  <2> QED
    BY <1>1, <1>3, <2>1
<1>4. CASE r = 2
  <2>1. L = 4 * q + 3
    BY <1>1, <1>4
  <2> QED
    BY <1>1, <1>4, <2>1
<1> QED
  BY <1>1, <1>2, <1>3, <1>4

\* Nothing but zeros is left over of an encoded byte string.
LEMMA LeftoverIsZero ==
    ASSUME NEW b \in Seq(Byte), NEW L, L = (4 * Len(b) + 2) \div 3,
           NEW a \in Nat, L > 0 => a % 64 = Sextet(b, L)
    PROVE  (6 * L) % 8 < 6 /\ a % 2^((6 * L) % 8) = 0
<1> DEFINE n == Len(b)
           x == ByteAt(b, n)
<1>1. n \in Nat /\ ByteAt(b, n + 1) = 0 /\ x \in Byte
  BY ByteAtType DEF ByteAt
<1> HIDE DEF x
<1>2. x \in Nat /\ x <= 255
  <2>1. x \in Byte
    BY <1>1
  <2> QED
    BY <2>1 DEF Byte
<1>7. 2^0 = 1 /\ 2^4 = 16 /\ 2^2 = 4
  OBVIOUS
<1> DEFINE e == (6 * L) % 8
<1>8. SUFFICES e < 6 /\ a % 2^e = 0
  OBVIOUS
<1>3. CASE n % 3 = 0
  <2>1. e = 0
    BY <1>1, <1>3, Lengths
  <2> HIDE DEF e
  <2>2. e < 6 /\ 2^e = 1
    BY <1>7, <2>1
  <2> QED
    BY <2>2
<1>4. CASE n % 3 = 1
  <2>1. e = 4 /\ L % 4 = 2 /\ (3 * L + 1) \div 4 = n /\ L > 0
    BY <1>1, <1>4, Lengths
  <2>2. a % 64 = (x % 4) * 16 + (0 \div 16)
    BY <1>1, <2>1 DEF Sextet, SixBits, x
  <2>3. a % 16 = 0
    BY <1>2, <2>2
  <2> HIDE DEF e
  <2>4. e < 6 /\ 2^e = 16
    BY <1>7, <2>1
  <2> QED
    BY <2>3, <2>4
<1>5. CASE n % 3 = 2
  <2>1. e = 2 /\ L % 4 = 3 /\ (3 * L + 1) \div 4 = n /\ L > 0
    BY <1>1, <1>5, Lengths
  <2>2. a % 64 = (x % 16) * 4 + (0 \div 64)
    BY <1>1, <2>1 DEF Sextet, SixBits, x
  <2>3. a % 4 = 0
    BY <1>2, <2>2
  <2> HIDE DEF e
  <2>4. e < 6 /\ 2^e = 4
    BY <1>7, <2>1
  <2> QED
    BY <2>3, <2>4
<1>6. n % 3 \in 0..2
  BY <1>1
<1> QED
  BY <1>3, <1>4, <1>5, <1>6

\* Decoding undoes encoding, for every byte string.
LEMMA DecodeEncode ==
    ASSUME NEW b \in Seq(Byte)
    PROVE  Decode(Encode(b)) = <<b>>
<1> DEFINE s == Encode(b)
           n == Len(b)
           L == (4 * n + 2) \div 3
           st == After(s, L)
<1>1. s \in Seq(Nat) /\ Len(s) = L /\ \A m \in 1..L : s[m] = T[Sextet(b, m) + 1]
  BY EncodeIs DEF Spells
<1>2. n \in Nat /\ L \in Nat /\ (3 * L) \div 4 = n
  BY Lengths
<1> HIDE DEF s, L
<1>3. \A m \in 1..L : Val(s[m]) = Sextet(b, m) /\ s[m] # Pad /\ Sextet(b, m) # Invalid
  <2> SUFFICES ASSUME NEW m \in 1..L
               PROVE  Val(s[m]) = Sextet(b, m) /\ s[m] # Pad /\ Sextet(b, m) # Invalid
    OBVIOUS
  <2>1. m \in Nat
    BY <1>2
  <2>2. Sextet(b, m) \in Sextets
    BY <2>1, SextetType
  <2> QED
    BY <1>1, <2>2, Alphabet, SextetIs
<1>4. TrimEnd(s) = s
  BY <1>1, <1>3, TrimIs
<1>5. Decoded(s) = st
  BY <1>1, <1>4, DecodedIs
<1>6. LoopInv(s, L)
  BY <1>1, <1>2, Reading
<1>7. Legible(s, L)
  BY <1>3 DEF Legible
<1>8. st \in LoopState /\ st.ok /\ HasRead(s, L)
  BY <1>6, <1>7 DEF LoopInv
<1>9. /\ st.bits = (6 * L) % 8
      /\ L > 0 => st.acc % 64 = Val(s[L])
      /\ Len(st.out) = n
      /\ \A j \in 1..n : st.out[j] = Completed(s, (4 * j + 2) \div 3)
  BY <1>2, <1>8 DEF HasRead
<1> HIDE DEF st
<1>10. st.acc \in Nat /\ st.out \in Seq(Nat)
  BY <1>8, LoopFields
<1>11. Accepts(st)
  <2>1. L > 0 => st.acc % 64 = Sextet(b, L)
    BY <1>2, <1>3, <1>9
  <2>2. (6 * L) % 8 < 6 /\ st.acc % 2^((6 * L) % 8) = 0
    BY <1>10, <2>1, LeftoverIsZero DEF L
  <2> QED
    BY <1>8, <1>9, <2>2 DEF Accepts
<1>12. st.out = b
  <2>1. ASSUME NEW j \in 1..n PROVE st.out[j] = b[j]
    <3>1. (4 * j + 2) \div 3 \in 1..L /\ (4 * j + 2) \div 3 - 1 \in 1..L
      <4>1. j \in Nat /\ j >= 1 /\ j <= n
        BY <1>2
      <4> QED
        BY <1>2, <4>1 DEF L
    <3>2. Completed(s, (4 * j + 2) \div 3) = b[j]
      BY <1>3, <3>1, CompletedIs
    <3> QED
      BY <1>9, <3>2
  <2>2. Len(st.out) = Len(b) /\ \A j \in 1..Len(st.out) : st.out[j] = b[j]
    BY <1>9, <2>1
  <2>3. st.out \in Seq(Nat) /\ b \in Seq(Nat)
    BY <1>10, BytesAreNaturals
  <2> QED
    BY <2>2, <2>3, SeqEqual
<1> QED
  BY <1>5, <1>11, <1>12 DEF Decode, s

----------------------------------------------------------------------------
(* Encoding what was decoded.                                              *)

\* What a character completes is a byte.
LEMMA ByteOfType ==
    ASSUME NEW l \in {2, 4, 6}, NEW p \in Sextets, NEW v \in Sextets
    PROVE  ByteOf(l, p, v) \in Byte
<1>1. CASE l = 6
  BY <1>1 DEF ByteOf, Byte, Sextets
<1>2. CASE l = 4
  BY <1>2 DEF ByteOf, Byte, Sextets
<1>3. CASE l = 2
  BY <1>3 DEF ByteOf, Byte, Sextets
<1> QED
  BY <1>1, <1>2, <1>3

\* Where the six bits of the m-th of L characters lie in the bytes they make.
LEMMA Places ==
    ASSUME NEW L \in Nat, (6 * L) % 8 < 6, NEW m \in 1..L
    PROVE  LET n == (3 * L) \div 4
               j == (3 * m + 1) \div 4
           IN  /\ n \in Nat /\ (4 * n + 2) \div 3 = L
               /\ j \in 1..n
               /\ m % 4 = 1 => (4 * j + 2) \div 3 = m + 1 /\ m < L
               /\ m % 4 = 2 => (4 * j + 2) \div 3 = m
               /\ m % 4 = 3 => (4 * j + 2) \div 3 = m
               /\ m % 4 = 0 => (4 * j + 2) \div 3 = m
               /\ m % 4 \in {2, 3} => (m < L => /\ j + 1 \in 1..n
                                                /\ (4 * (j + 1) + 2) \div 3 = m + 1)
               /\ m % 4 = 2 => (m = L => j + 1 > n /\ (6 * L) % 8 = 4)
               /\ m % 4 = 3 => (m = L => j + 1 > n /\ (6 * L) % 8 = 2)
               /\ m % 4 = 1 => (6 * m) % 8 = 6
               /\ m % 4 = 2 => (6 * (m - 1)) % 8 = 6 /\ (6 * m) % 8 = 4
               /\ m % 4 = 3 => (6 * (m - 1)) % 8 = 4 /\ (6 * m) % 8 = 2
               /\ m % 4 = 0 => (6 * (m - 1)) % 8 = 2
               /\ m % 4 \in 0..3
<1> DEFINE q == m \div 4
           r == m % 4
           p == L \div 4
           u == L % 4
           n == (3 * L) \div 4
           j == (3 * m + 1) \div 4
<1>1. m = 4 * q + r /\ q \in Nat /\ r \in 0..3 /\ m \in Nat /\ m >= 1
  OBVIOUS
<1>2. L = 4 * p + u /\ p \in Nat /\ u \in 0..3 /\ m <= L
  OBVIOUS
<1>3. u # 1
  <2> HIDE DEF p, u
  <2> QED
    BY <1>2
<1> HIDE DEF p, u, q, r
<1>4. /\ u = 0 => n = 3 * p
      /\ u = 2 => n = 3 * p + 1
      /\ u = 3 => n = 3 * p + 2
  BY <1>2
<1>5. n \in Nat /\ (4 * n + 2) \div 3 = L
  <2> HIDE DEF n
  <2> QED
    BY <1>2, <1>3, <1>4
<1>6. CASE r = 0
  <2>1. j = 3 * q /\ q # 0
    BY <1>1, <1>6
  <2>2. q <= p
    BY <1>1, <1>2, <1>6
  <2> QED
    BY <1>1, <1>2, <1>3, <1>4, <1>5, <1>6, <2>1, <2>2 DEF r
<1>7. CASE r = 1
  <2>1. j = 3 * q + 1
    BY <1>1, <1>7
  <2>2. q < p \/ (q = p /\ (u = 2 \/ u = 3))
    BY <1>1, <1>2, <1>3, <1>7
  <2> QED
    BY <1>1, <1>2, <1>3, <1>4, <1>5, <1>7, <2>1, <2>2 DEF r
<1>8. CASE r = 2
  <2>1. j = 3 * q + 1
    BY <1>1, <1>8
  <2>2. q < p \/ (q = p /\ (u = 2 \/ u = 3))
    BY <1>1, <1>2, <1>3, <1>8
  <2> QED
    BY <1>1, <1>2, <1>3, <1>4, <1>5, <1>8, <2>1, <2>2 DEF r
<1>9. CASE r = 3
  <2>1. j = 3 * q + 2
    BY <1>1, <1>9
  <2>2. q < p \/ (q = p /\ u = 3)
    BY <1>1, <1>2, <1>3, <1>9
  <2> QED
    BY <1>1, <1>2, <1>3, <1>4, <1>5, <1>9, <2>1, <2>2 DEF r
<1> QED
  BY <1>1, <1>6, <1>7, <1>8, <1>9

\* A last character that is the second of its group.
LEMMA LastPlace ==
    ASSUME NEW L \in Nat, L % 4 = 2
    PROVE  (3 * L + 1) \div 4 + 1 > (3 * L) \div 4 /\ (6 * L) % 8 = 4
<1> DEFINE q == L \div 4
<1>1. L = 4 * q + 2 /\ q \in Nat
  OBVIOUS
<1> HIDE DEF q
<1> QED
  BY <1>1

\* The six bits of a character, out of the bytes it helped to make.
LEMMA Reread ==
    ASSUME NEW p \in Sextets, NEW v \in Sextets, NEW w \in Sextets, NEW y
    PROVE  /\ SixBits(1, ByteOf(6, v, w), y) = v
           /\ SixBits(2, ByteOf(6, p, v), ByteOf(4, v, w)) = v
           /\ v % 16 = 0 => SixBits(2, ByteOf(6, p, v), 0) = v
           /\ SixBits(3, ByteOf(4, p, v), ByteOf(2, v, w)) = v
           /\ v % 4 = 0 => SixBits(3, ByteOf(4, p, v), 0) = v
           /\ SixBits(0, ByteOf(2, p, v), y) = v
<1>1. p \in Nat /\ p <= 63 /\ v \in Nat /\ v <= 63 /\ w \in Nat /\ w <= 63
  BY DEF Sextets
<1>2. (v * 4 + (w \div 16)) \div 4 = v
  BY <1>1
<1>3. ((p * 4 + (v \div 16)) % 4) * 16 + (((v % 16) * 16 + (w \div 4)) \div 16) = v
  BY <1>1
<1>4. v % 16 = 0 => ((p * 4 + (v \div 16)) % 4) * 16 + (0 \div 16) = v
  BY <1>1
<1>5. (((p % 16) * 16 + (v \div 4)) % 16) * 4 + (((v % 4) * 64 + w) \div 64) = v
  BY <1>1
<1>6. v % 4 = 0 => (((p % 16) * 16 + (v \div 4)) % 16) * 4 + (0 \div 64) = v
  BY <1>1
<1>7. ((p % 4) * 64 + v) % 64 = v
  BY <1>1
<1> QED
  BY <1>2, <1>3, <1>4, <1>5, <1>6, <1>7 DEF ByteOf, SixBits

\* What the decoder accepts: the bytes made of the characters, and nothing but
\* zeros left over.
MadeOf(b, t) ==
    LET L == Len(t)
    IN  /\ t \in Seq(Nat) /\ \A m \in 1..L : Val(t[m]) \in Sextets
        /\ (6 * L) % 8 < 6
        /\ (6 * L) % 8 = 4 => Val(t[L]) % 16 = 0
        /\ (6 * L) % 8 = 2 => Val(t[L]) % 4 = 0
        /\ b \in Seq(Byte) /\ Len(b) = (3 * L) \div 4
        /\ \A j \in 1..Len(b) : b[j] = Completed(t, (4 * j + 2) \div 3)

\* The zeros left over, by how many bits they are.
LEMMA LowBits ==
    ASSUME NEW a \in Nat
    PROVE  /\ a % 16 = 0 => (a % 64) % 16 = 0
           /\ a % 4 = 0 => (a % 64) % 4 = 0
OBVIOUS

\* What an accepted text decodes to.
LEMMA AcceptedIsMade ==
    ASSUME NEW s \in Seq(Nat), Decode(s) # <<>>
    PROVE  \E b : Decode(s) = <<b>> /\ MadeOf(b, TrimEnd(s))
<1> DEFINE t == TrimEnd(s)
           L == Len(t)
           st == After(t, L)
<1>1. t \in Seq(Nat) /\ L \in Nat
  BY TrimIs
<1>2. Decoded(s) = st
  BY DecodedIs
<1>3. Accepts(st) /\ Decode(s) = <<st.out>>
  BY <1>2 DEF Decode
<1> HIDE DEF t, L
<1>4. LoopInv(t, L)
  <2>1. L \in 0..Len(t)
    BY <1>1 DEF L
  <2> QED
    BY <1>1, <2>1, Reading
<1>5. st.ok /\ st.bits < 6 /\ st.acc % 2^st.bits = 0
  BY <1>3 DEF Accepts
<1>6. st \in LoopState /\ Legible(t, L) /\ HasRead(t, L)
  BY <1>4, <1>5 DEF LoopInv
<1>7. \A m \in 1..L : Val(t[m]) \in Sextets
  <2> SUFFICES ASSUME NEW m \in 1..L PROVE Val(t[m]) \in Sextets
    OBVIOUS
  <2>1. t[m] \in Nat
    BY <1>1 DEF L
  <2>2. Val(t[m]) # Invalid
    BY <1>6 DEF Legible
  <2> QED
    BY <2>1, <2>2, ValType
<1>8. /\ st.bits = (6 * L) % 8
      /\ L > 0 => st.acc % 64 = Val(t[L])
      /\ Len(st.out) = (3 * L) \div 4
      /\ \A j \in 1..Len(st.out) : st.out[j] = Completed(t, (4 * j + 2) \div 3)
  BY <1>6 DEF HasRead
<1> HIDE DEF st
<1>9. st.acc \in Nat /\ st.out \in Seq(Nat) /\ st.bits \in {0, 2, 4, 6}
  BY <1>6, LoopFields
<1>10. st.bits = 4 => Val(t[L]) % 16 = 0
  <2>1. SUFFICES ASSUME st.bits = 4 PROVE Val(t[L]) % 16 = 0
    OBVIOUS
  <2>2. L > 0
    <3>1. (6 * L) % 8 # 0 /\ L \in Nat
      BY <1>1, <1>8, <2>1
    <3> QED
      BY <3>1
  <2>3. 2^st.bits = 16
    BY <2>1
  <2>4. st.acc % 16 = 0 /\ st.acc % 64 = Val(t[L])
    BY <1>5, <1>8, <2>2, <2>3
  <2> QED
    BY <1>9, <2>4, LowBits
<1>11. st.bits = 2 => Val(t[L]) % 4 = 0
  <2>1. SUFFICES ASSUME st.bits = 2 PROVE Val(t[L]) % 4 = 0
    OBVIOUS
  <2>2. L > 0
    <3>1. (6 * L) % 8 # 0 /\ L \in Nat
      BY <1>1, <1>8, <2>1
    <3> QED
      BY <3>1
  <2>3. 2^st.bits = 4
    BY <2>1
  <2>4. st.acc % 4 = 0 /\ st.acc % 64 = Val(t[L])
    BY <1>5, <1>8, <2>2, <2>3
  <2> QED
    BY <1>9, <2>4, LowBits
<1>12. ASSUME NEW j \in 1..Len(st.out) PROVE st.out[j] \in Byte
  <2> DEFINE i == (4 * j + 2) \div 3
  <2>1. j \in Nat /\ j # 0 /\ j <= (3 * L) \div 4
    BY <1>8, <1>9
  <2>2. i \in 1..L /\ i - 1 \in 1..L
    BY <1>1, <2>1
  <2>3. (6 * (i - 1)) % 8 \in {2, 4, 6}
    BY <2>1, Groups
  <2> HIDE DEF i
  <2>4. Completed(t, i) \in Byte
    BY <1>7, <2>2, <2>3, ByteOfType DEF Completed
  <2> QED
    BY <1>8, <2>4 DEF i
<1>13. st.out \in Seq(Byte)
  <2>1. st.out \in [1..Len(st.out) -> Byte] /\ Len(st.out) \in Nat
    BY <1>9, <1>12
  <2> QED
    BY <2>1
<1>14. MadeOf(st.out, t)
  BY <1>1, <1>5, <1>7, <1>8, <1>10, <1>11, <1>13 DEF MadeOf, L
<1> QED
  BY <1>3, <1>14 DEF t

\* Encoding what was decoded gives each character back.
LEMMA SextetIsRead ==
    ASSUME NEW t, NEW b, MadeOf(b, t), NEW m \in 1..Len(t)
    PROVE  Sextet(b, m) = Val(t[m])
<1> DEFINE L == Len(t)
           n == Len(b)
           j == (3 * m + 1) \div 4
           V(i) == Val(t[i])
           B(i) == ByteAt(b, i)
<1>1. /\ L \in Nat /\ (6 * L) % 8 < 6 /\ n = (3 * L) \div 4 /\ n \in Nat
      /\ \A i \in 1..L : V(i) \in Sextets
      /\ (6 * L) % 8 = 4 => V(L) % 16 = 0
      /\ (6 * L) % 8 = 2 => V(L) % 4 = 0
  BY DEF MadeOf
<1>2. \A i \in 1..n : B(i) = Completed(t, (4 * i + 2) \div 3)
  BY DEF MadeOf, ByteAt
<1>3. \A i \in Nat : i > n => B(i) = 0
  BY <1>1 DEF ByteAt
<1>4. j \in 1..n /\ j \in Nat /\ m \in Nat /\ m % 4 \in 0..3 /\ m <= L /\ 1 <= m
  BY <1>1, Places
<1>5. \A i : Completed(t, i) = ByteOf((6 * (i - 1)) % 8, V(i - 1), V(i))
  BY DEF Completed
<1>6. Sextet(b, m) = SixBits(m % 4, B(j), B(j + 1))
  BY DEF Sextet
<1> HIDE DEF B, V
<1>7. CASE m % 4 = 1
  <2>4. (4 * j + 2) \div 3 = m + 1 /\ m < L /\ (6 * m) % 8 = 6
    BY <1>1, <1>7, Places
  <2>1. (4 * j + 2) \div 3 = m + 1 /\ m + 1 \in 1..L /\ (6 * m) % 8 = 6 /\ (m + 1) - 1 = m
    BY <1>1, <1>4, <2>4
  <2>2. B(j) = ByteOf(6, V(m), V(m + 1))
    BY <1>2, <1>4, <1>5, <2>1
  <2>3. V(m) \in Sextets /\ V(m + 1) \in Sextets
    BY <1>1, <2>1
  <2> HIDE DEF j
  <2> QED
    BY <1>6, <1>7, <2>2, <2>3, Reread DEF V
<1>8. CASE m % 4 = 2
  <2>1. (4 * j + 2) \div 3 = m /\ (6 * (m - 1)) % 8 = 6 /\ (6 * m) % 8 = 4
    BY <1>1, <1>8, Places
  <2>2. m - 1 \in 1..L
    BY <1>1, <1>4, <1>8
  <2>3. B(j) = ByteOf(6, V(m - 1), V(m))
    BY <1>2, <1>4, <1>5, <2>1
  <2>4. V(m - 1) \in Sextets /\ V(m) \in Sextets
    BY <1>1, <2>2
  <2>5. CASE m < L
    <3>1. j + 1 \in 1..n /\ (4 * (j + 1) + 2) \div 3 = m + 1
      BY <1>1, <1>8, <2>5, Places
    <3>2. m + 1 \in 1..L /\ (m + 1) - 1 = m
      BY <1>1, <1>4, <2>5
    <3> HIDE DEF j
    <3>3. B(j + 1) = ByteOf(4, V(m), V(m + 1))
      BY <1>2, <1>5, <2>1, <3>1, <3>2
    <3>4. V(m + 1) \in Sextets
      BY <1>1, <3>2
    <3> QED
      BY <1>6, <1>8, <2>3, <2>4, <3>3, <3>4, Reread DEF V
  <2>6. CASE m = L
    <3>1. j + 1 > n /\ (6 * L) % 8 = 4
      <4>1. L % 4 = 2
        BY <1>8, <2>6
      <4>2. (3 * L + 1) \div 4 + 1 > (3 * L) \div 4 /\ (6 * L) % 8 = 4
        BY <1>1, <4>1, LastPlace
      <4> QED
        BY <1>1, <2>6, <4>2
    <3>2. B(j + 1) = 0
      BY <1>3, <1>4, <3>1
    <3>3. V(m) % 16 = 0
      BY <1>1, <2>6, <3>1
    <3> HIDE DEF j
    <3> QED
      BY <1>6, <1>8, <2>3, <2>4, <3>2, <3>3, Reread DEF V
  <2> QED
    BY <1>1, <1>4, <2>5, <2>6
<1>9. CASE m % 4 = 3
  <2>1. (4 * j + 2) \div 3 = m /\ (6 * (m - 1)) % 8 = 4 /\ (6 * m) % 8 = 2
    BY <1>1, <1>9, Places
  <2>2. m - 1 \in 1..L
    BY <1>1, <1>4, <1>9
  <2>3. B(j) = ByteOf(4, V(m - 1), V(m))
    BY <1>2, <1>4, <1>5, <2>1
  <2>4. V(m - 1) \in Sextets /\ V(m) \in Sextets
    BY <1>1, <2>2
  <2>5. CASE m < L
    <3>1. j + 1 \in 1..n /\ (4 * (j + 1) + 2) \div 3 = m + 1
      BY <1>1, <1>9, <2>5, Places
    <3>2. m + 1 \in 1..L /\ (m + 1) - 1 = m
      BY <1>1, <1>4, <2>5
    <3> HIDE DEF j
    <3>3. B(j + 1) = ByteOf(2, V(m), V(m + 1))
      BY <1>2, <1>5, <2>1, <3>1, <3>2
    <3>4. V(m + 1) \in Sextets
      BY <1>1, <3>2
    <3> QED
      BY <1>6, <1>9, <2>3, <2>4, <3>3, <3>4, Reread DEF V
  <2>6. CASE m = L
    <3>1. j + 1 > n /\ (6 * L) % 8 = 2
      BY <1>1, <1>9, <2>6, Places
    <3>2. B(j + 1) = 0
      BY <1>3, <1>4, <3>1
    <3>3. V(m) % 4 = 0
      BY <1>1, <2>6, <3>1
    <3> HIDE DEF j
    <3> QED
      BY <1>6, <1>9, <2>3, <2>4, <3>2, <3>3, Reread DEF V
  <2> QED
    BY <1>1, <1>4, <2>5, <2>6
<1>10. CASE m % 4 = 0
  <2>1. (4 * j + 2) \div 3 = m /\ (6 * (m - 1)) % 8 = 2
    BY <1>1, <1>10, Places
  <2>2. m - 1 \in 1..L
    BY <1>1, <1>4, <1>10
  <2>3. B(j) = ByteOf(2, V(m - 1), V(m))
    BY <1>2, <1>4, <1>5, <2>1
  <2>4. V(m - 1) \in Sextets /\ V(m) \in Sextets
    BY <1>1, <2>2
  <2> HIDE DEF j
  <2> QED
    BY <1>6, <1>10, <2>3, <2>4, Reread DEF V
<1> QED
  BY <1>4, <1>7, <1>8, <1>9, <1>10

\* Accepted text is the text of its bytes.
LEMMA EncodeDecode ==
    ASSUME NEW s \in Seq(Nat), Decode(s) # <<>>
    PROVE  Encode(Decode(s)[1]) = TrimEnd(s)
<1> DEFINE t == TrimEnd(s)
<1>1. PICK b : Decode(s) = <<b>> /\ MadeOf(b, t)
  BY AcceptedIsMade
<1> HIDE DEF t
<1>2. t \in Seq(Nat) /\ b \in Seq(Byte) /\ Len(t) \in Nat
  BY <1>1 DEF MadeOf
<1>3. (4 * Len(b) + 2) \div 3 = Len(t)
  <2>1. Len(b) = (3 * Len(t)) \div 4 /\ (6 * Len(t)) % 8 < 6
    BY <1>1 DEF MadeOf
  <2>2. CASE Len(t) = 0
    BY <2>1, <2>2
  <2>3. CASE Len(t) # 0
    <3>1. Len(t) \in 1..Len(t)
      BY <1>2, <2>3
    <3> QED
      BY <1>2, <2>1, <3>1, Places
  <2> QED
    BY <2>2, <2>3
<1>4. Encode(b) \in Seq(Nat) /\ Len(Encode(b)) = Len(t)
  BY <1>2, <1>3, EncodeIs DEF Spells
<1>5. ASSUME NEW m \in 1..Len(t) PROVE Encode(b)[m] = t[m]
  <2>1. Encode(b)[m] = T[Sextet(b, m) + 1]
    BY <1>2, <1>3, EncodeIs DEF Spells
  <2>2. Sextet(b, m) = Val(t[m])
    BY <1>1, SextetIsRead
  <2>3. Val(t[m]) \in Sextets
    BY <1>1 DEF MadeOf
  <2>4. t[m] \in Nat /\ Val(t[m]) # Invalid
    BY <1>2, <2>3, SextetIs
  <2> QED
    BY <2>1, <2>2, <2>4, Alphabet
<1>6. Encode(b) = t
  BY <1>2, <1>4, <1>5, SeqEqual
<1> QED
  BY <1>1, <1>6 DEF t

----------------------------------------------------------------------------
(* The bit stream.                                                         *)

\* Bit r of a byte, the most significant being bit 0.
BitOf(x, r) == (x \div 2^(7 - r)) % 2

\* The eight bits of a byte.
LEMMA BitOfIs ==
    ASSUME NEW x
    PROVE  /\ BitOf(x, 0) = (x \div 128) % 2 /\ BitOf(x, 1) = (x \div 64) % 2
           /\ BitOf(x, 2) = (x \div 32) % 2 /\ BitOf(x, 3) = (x \div 16) % 2
           /\ BitOf(x, 4) = (x \div 8) % 2 /\ BitOf(x, 5) = (x \div 4) % 2
           /\ BitOf(x, 6) = (x \div 2) % 2 /\ BitOf(x, 7) = (x \div 1) % 2
BY DEF BitOf

\* A bit of the bit stream is a bit of the byte it lies in.
LEMMA BitIs ==
    ASSUME NEW b \in Seq(Byte), NEW q \in Nat, NEW r \in 0..7
    PROVE  Bit(b, 8 * q + r) = BitOf(ByteAt(b, q + 1), r)
<1>1. (8 * q + r) \div 8 = q /\ (8 * q + r) % 8 = r /\ Len(b) \in Nat
  OBVIOUS
<1>2. CASE q < Len(b)
  <2>1. q + 1 \in 1..Len(b)
    BY <1>1, <1>2
  <2> QED
    BY <1>1, <1>2, <2>1 DEF Bit, BitOf, ByteAt
<1>3. CASE ~(q < Len(b))
  <2>1. q + 1 \notin 1..Len(b)
    BY <1>1, <1>3
  <2>2. BitOf(0, r) = 0
    <3>1. r = 0 \/ r = 1 \/ r = 2 \/ r = 3 \/ r = 4 \/ r = 5 \/ r = 6 \/ r = 7
      OBVIOUS
    <3>2. /\ (0 \div 128) % 2 = 0 /\ (0 \div 64) % 2 = 0 /\ (0 \div 32) % 2 = 0
          /\ (0 \div 16) % 2 = 0 /\ (0 \div 8) % 2 = 0 /\ (0 \div 4) % 2 = 0
          /\ (0 \div 2) % 2 = 0 /\ (0 \div 1) % 2 = 0
      OBVIOUS
    <3> QED
      BY <3>1, <3>2, BitOfIs
  <2> QED
    BY <1>1, <1>3, <2>1, <2>2 DEF Bit, ByteAt
<1> QED
  BY <1>2, <1>3

\* A sum over 0..5, written out.
LEMMA SumOfSix ==
    ASSUME NEW g, \A k \in 0..5 : g[k] \in Nat
    PROVE  SumFunctionOnSet(g, 0..5) = g[0] + g[1] + g[2] + g[3] + g[4] + g[5]
<1> DEFINE S(n) == SumFunctionOnSet(g, 0..n)
<1>1. ASSUME NEW n \in 0..5 PROVE S(n) = g[n] + S(n - 1)
  <2> DEFINE N == 0..n
             M == 0..(n - 1)
  <2>1. IsFiniteSet(N)
    BY FS_Interval
  <2>2. n \in N /\ \A k \in N : g[k] \in Nat
    OBVIOUS
  <2>3. \A x : x \in M <=> x \in N /\ x # n
    OBVIOUS
  <2> HIDE DEF M, N
  <2>4. N \ {n} = M
    BY <2>2, <2>3
  <2>5. SumFunctionOnSet(g, N) = g[n] + SumFunctionOnSet(g, N \ {n})
    BY <2>1, <2>2, SumRemove
  <2> QED
    BY <2>4, <2>5 DEF M, N
<1>2. S(-1) = 0
  <2>1. 0..(-1) = {}
    OBVIOUS
  <2> QED
    BY <2>1, SumOfNone
<1> HIDE DEF S
<1>3. /\ S(0) = g[0] + S(-1) /\ S(1) = g[1] + S(0) /\ S(2) = g[2] + S(1)
      /\ S(3) = g[3] + S(2) /\ S(4) = g[4] + S(3) /\ S(5) = g[5] + S(4)
  <2>1. /\ S(0) = g[0] + S(0 - 1) /\ S(1) = g[1] + S(1 - 1) /\ S(2) = g[2] + S(2 - 1)
        /\ S(3) = g[3] + S(3 - 1) /\ S(4) = g[4] + S(4 - 1) /\ S(5) = g[5] + S(5 - 1)
    BY <1>1
  <2> QED
    BY <2>1
<1>4. /\ g[0] \in Nat /\ g[1] \in Nat /\ g[2] \in Nat /\ g[3] \in Nat
      /\ g[4] \in Nat /\ g[5] \in Nat
  OBVIOUS
<1>5. S(5) = g[0] + g[1] + g[2] + g[3] + g[4] + g[5]
  BY <1>2, <1>3, <1>4
<1> QED
  BY <1>5 DEF S

\* Six bits in a row, as a number.
Row(c0, c1, c2, c3, c4, c5) == c0 * 32 + c1 * 16 + c2 * 8 + c3 * 4 + c4 * 2 + c5 * 1

\* Six bits of two bytes, bit by bit.
LEMMA RowIs ==
    ASSUME NEW x \in Byte, NEW y \in Byte
    PROVE  /\ Row(BitOf(x, 0), BitOf(x, 1), BitOf(x, 2), BitOf(x, 3), BitOf(x, 4), BitOf(x, 5))
                = SixBits(1, x, y)
           /\ Row(BitOf(x, 6), BitOf(x, 7), BitOf(y, 0), BitOf(y, 1), BitOf(y, 2), BitOf(y, 3))
                = SixBits(2, x, y)
           /\ Row(BitOf(x, 4), BitOf(x, 5), BitOf(x, 6), BitOf(x, 7), BitOf(y, 0), BitOf(y, 1))
                = SixBits(3, x, y)
           /\ Row(BitOf(x, 2), BitOf(x, 3), BitOf(x, 4), BitOf(x, 5), BitOf(x, 6), BitOf(x, 7))
                = SixBits(0, x, y)
<1>1. x \in Nat /\ x <= 255 /\ y \in Nat /\ y <= 255
  BY DEF Byte
<1>2. ((x \div 128) % 2) * 32 + ((x \div 64) % 2) * 16 + ((x \div 32) % 2) * 8
        + ((x \div 16) % 2) * 4 + ((x \div 8) % 2) * 2 + ((x \div 4) % 2) * 1 = x \div 4
  BY <1>1
<1>3. ((x \div 2) % 2) * 32 + ((x \div 1) % 2) * 16 + ((y \div 128) % 2) * 8
        + ((y \div 64) % 2) * 4 + ((y \div 32) % 2) * 2 + ((y \div 16) % 2) * 1
      = (x % 4) * 16 + (y \div 16)
  BY <1>1
<1>4. ((x \div 8) % 2) * 32 + ((x \div 4) % 2) * 16 + ((x \div 2) % 2) * 8
        + ((x \div 1) % 2) * 4 + ((y \div 128) % 2) * 2 + ((y \div 64) % 2) * 1
      = (x % 16) * 4 + (y \div 64)
  BY <1>1
<1>5. ((x \div 32) % 2) * 32 + ((x \div 16) % 2) * 16 + ((x \div 8) % 2) * 8
        + ((x \div 4) % 2) * 4 + ((x \div 2) % 2) * 2 + ((x \div 1) % 2) * 1
      = x % 64
  BY <1>1
<1> QED
  BY <1>2, <1>3, <1>4, <1>5, BitOfIs DEF Row, SixBits

\* The bits of a character, weighted.
Weighted(b, i) == [k \in 0..5 |-> Bit(b, 6 * (i - 1) + k) * 2^(5 - k)]

\* A bit of a byte is a number.
LEMMA BitOfType ==
    ASSUME NEW x \in Byte, NEW r \in 0..7
    PROVE  BitOf(x, r) \in Nat
<1>1. x \in Nat
  BY DEF Byte
<1>2. /\ (x \div 128) % 2 \in Nat /\ (x \div 64) % 2 \in Nat /\ (x \div 32) % 2 \in Nat
      /\ (x \div 16) % 2 \in Nat /\ (x \div 8) % 2 \in Nat /\ (x \div 4) % 2 \in Nat
      /\ (x \div 2) % 2 \in Nat /\ (x \div 1) % 2 \in Nat
  BY <1>1
<1>3. r = 0 \/ r = 1 \/ r = 2 \/ r = 3 \/ r = 4 \/ r = 5 \/ r = 6 \/ r = 7
  OBVIOUS
<1> QED
  BY <1>2, <1>3, BitOfIs

\* A bit of the bit stream is a number.
LEMMA BitType ==
    ASSUME NEW b \in Seq(Byte), NEW j \in Nat
    PROVE  Bit(b, j) \in Nat
<1> DEFINE q == j \div 8
           r == j % 8
<1>1. q \in Nat /\ r \in 0..7 /\ j = 8 * q + r
  OBVIOUS
<1> HIDE DEF q, r
<1>2. Bit(b, j) = BitOf(ByteAt(b, q + 1), r)
  BY <1>1, BitIs
<1>3. ByteAt(b, q + 1) \in Byte
  BY ByteAtType
<1> QED
  BY <1>1, <1>2, <1>3, BitOfType

\* The reference's sum is six bits in a row.
LEMMA WeightedSum ==
    ASSUME NEW b \in Seq(Byte), NEW i \in Nat \ {0}
    PROVE  LET j == 6 * (i - 1)
           IN  SumFunctionOnSet(Weighted(b, i), 0..5)
                 = Row(Bit(b, j), Bit(b, j + 1), Bit(b, j + 2),
                       Bit(b, j + 3), Bit(b, j + 4), Bit(b, j + 5))
<1> DEFINE j == 6 * (i - 1)
           g == Weighted(b, i)
<1>1. j \in Nat
  OBVIOUS
<1>2. /\ Bit(b, j) \in Nat /\ Bit(b, j + 1) \in Nat /\ Bit(b, j + 2) \in Nat
      /\ Bit(b, j + 3) \in Nat /\ Bit(b, j + 4) \in Nat /\ Bit(b, j + 5) \in Nat
  <2>1. j + 1 \in Nat /\ j + 2 \in Nat /\ j + 3 \in Nat /\ j + 4 \in Nat /\ j + 5 \in Nat
    BY <1>1
  <2> HIDE DEF j
  <2> QED
    BY <1>1, <2>1, BitType
<1>3. \A k \in 0..5 : g[k] = Bit(b, j + k) * 2^(5 - k)
  BY DEF Weighted
<1> HIDE DEF j, g
<1>4. /\ 2^5 = 32 /\ 2^4 = 16 /\ 2^3 = 8 /\ 2^2 = 4 /\ 2^1 = 2 /\ 2^0 = 1
  OBVIOUS
<1>5. /\ g[0] = Bit(b, j + 0) * 2^(5 - 0) /\ g[1] = Bit(b, j + 1) * 2^(5 - 1)
      /\ g[2] = Bit(b, j + 2) * 2^(5 - 2) /\ g[3] = Bit(b, j + 3) * 2^(5 - 3)
      /\ g[4] = Bit(b, j + 4) * 2^(5 - 4) /\ g[5] = Bit(b, j + 5) * 2^(5 - 5)
  BY <1>3
<1>6. /\ g[0] = Bit(b, j) * 32 /\ g[1] = Bit(b, j + 1) * 16
      /\ g[2] = Bit(b, j + 2) * 8 /\ g[3] = Bit(b, j + 3) * 4
      /\ g[4] = Bit(b, j + 4) * 2 /\ g[5] = Bit(b, j + 5) * 1
  BY <1>1, <1>4, <1>5
<1>7. \A k \in 0..5 : g[k] \in Nat
  <2>1. \A k \in 0..5 : k = 0 \/ k = 1 \/ k = 2 \/ k = 3 \/ k = 4 \/ k = 5
    OBVIOUS
  <2>2. /\ g[0] \in Nat /\ g[1] \in Nat /\ g[2] \in Nat
        /\ g[3] \in Nat /\ g[4] \in Nat /\ g[5] \in Nat
    <3>1. \A u, v : u = v * 32 /\ v \in Nat => u \in Nat
      OBVIOUS
    <3>2. \A u, v : u = v * 16 /\ v \in Nat => u \in Nat
      OBVIOUS
    <3>3. \A u, v : u = v * 8 /\ v \in Nat => u \in Nat
      OBVIOUS
    <3>4. \A u, v : u = v * 4 /\ v \in Nat => u \in Nat
      OBVIOUS
    <3>5. \A u, v : u = v * 2 /\ v \in Nat => u \in Nat
      OBVIOUS
    <3>6. \A u, v : u = v * 1 /\ v \in Nat => u \in Nat
      OBVIOUS
    <3>7. g[0] \in Nat
      BY <1>2, <1>6, <3>1, Zenon
    <3>8. g[1] \in Nat
      BY <1>2, <1>6, <3>2, Zenon
    <3>9. g[2] \in Nat
      BY <1>2, <1>6, <3>3, Zenon
    <3>10. g[3] \in Nat
      BY <1>2, <1>6, <3>4, Zenon
    <3>11. g[4] \in Nat
      BY <1>2, <1>6, <3>5, Zenon
    <3>12. g[5] \in Nat
      BY <1>2, <1>6, <3>6, Zenon
    <3> QED
      BY <3>7, <3>8, <3>9, <3>10, <3>11, <3>12
  <2> QED
    BY <2>1, <2>2
<1>8. SumFunctionOnSet(g, 0..5) = g[0] + g[1] + g[2] + g[3] + g[4] + g[5]
  BY <1>7, SumOfSix
<1> QED
  BY <1>6, <1>8 DEF Row, g, j

\* The six bits of a character are six bits of the bit stream in a row.
LEMMA SextetIsRow ==
    ASSUME NEW b \in Seq(Byte), NEW i \in Nat \ {0}
    PROVE  Sextet(b, i) = SumFunctionOnSet(Weighted(b, i), 0..5)
<1> DEFINE j == 6 * (i - 1)
           h == (i - 1) \div 4
           At(q) == ByteAt(b, q)
<1>0. SUFFICES Sextet(b, i) = Row(Bit(b, j), Bit(b, j + 1), Bit(b, j + 2),
                                  Bit(b, j + 3), Bit(b, j + 4), Bit(b, j + 5))
  BY WeightedSum
<1>1. h \in Nat /\ (i = 4*h + 1 \/ i = 4*h + 2 \/ i = 4*h + 3 \/ i = 4*h + 4)
  OBVIOUS
<1>2. \A q \in Nat :
        /\ Bit(b, 8*q + 0) = BitOf(At(q + 1), 0) /\ Bit(b, 8*q + 1) = BitOf(At(q + 1), 1)
        /\ Bit(b, 8*q + 2) = BitOf(At(q + 1), 2) /\ Bit(b, 8*q + 3) = BitOf(At(q + 1), 3)
        /\ Bit(b, 8*q + 4) = BitOf(At(q + 1), 4) /\ Bit(b, 8*q + 5) = BitOf(At(q + 1), 5)
        /\ Bit(b, 8*q + 6) = BitOf(At(q + 1), 6) /\ Bit(b, 8*q + 7) = BitOf(At(q + 1), 7)
  <2>1. ASSUME NEW q \in Nat, NEW r \in 0..7
        PROVE  Bit(b, 8*q + r) = BitOf(At(q + 1), r)
    BY BitIs
  <2>2. /\ 0 \in 0..7 /\ 1 \in 0..7 /\ 2 \in 0..7 /\ 3 \in 0..7
        /\ 4 \in 0..7 /\ 5 \in 0..7 /\ 6 \in 0..7 /\ 7 \in 0..7
    OBVIOUS
  <2> HIDE DEF At
  <2> QED
    BY <2>1, <2>2, Zenon
<1>3. \A q : At(q) \in Byte
  BY ByteAtType
<1> HIDE DEF h, At
<1>4. CASE i = 4*h + 1
  <2>1. /\ j = 8*(3*h) + 0 /\ j + 1 = 8*(3*h) + 1 /\ j + 2 = 8*(3*h) + 2
        /\ j + 3 = 8*(3*h) + 3 /\ j + 4 = 8*(3*h) + 4 /\ j + 5 = 8*(3*h) + 5
        /\ i % 4 = 1 /\ (3*i + 1) \div 4 = 3*h + 1 /\ 3*h \in Nat
    BY <1>1, <1>4
  <2> HIDE DEF j
  <2>2. Sextet(b, i) = SixBits(1, At(3*h + 1), At(3*h + 1 + 1))
    BY <2>1 DEF Sextet, At
  <2>3. /\ Bit(b, j) = BitOf(At(3*h + 1), 0) /\ Bit(b, j + 1) = BitOf(At(3*h + 1), 1)
        /\ Bit(b, j + 2) = BitOf(At(3*h + 1), 2) /\ Bit(b, j + 3) = BitOf(At(3*h + 1), 3)
        /\ Bit(b, j + 4) = BitOf(At(3*h + 1), 4) /\ Bit(b, j + 5) = BitOf(At(3*h + 1), 5)
    BY <1>2, <2>1, Zenon
  <2> DEFINE x == At(3*h + 1)
             y == At(3*h + 1 + 1)
  <2>4. x \in Byte /\ y \in Byte
    BY <1>3
  <2> HIDE DEF x, y
  <2>5. Sextet(b, i) = SixBits(1, x, y)
    BY <2>2 DEF x, y
  <2>6. SixBits(1, x, y) = Row(BitOf(x, 0), BitOf(x, 1), BitOf(x, 2),
                               BitOf(x, 3), BitOf(x, 4), BitOf(x, 5))
    BY <2>4, RowIs
  <2> QED
    BY <2>3, <2>5, <2>6 DEF x, y
<1>5. CASE i = 4*h + 2
  <2>1. /\ j = 8*(3*h) + 6 /\ j + 1 = 8*(3*h) + 7 /\ j + 2 = 8*(3*h + 1) + 0
        /\ j + 3 = 8*(3*h + 1) + 1 /\ j + 4 = 8*(3*h + 1) + 2 /\ j + 5 = 8*(3*h + 1) + 3
        /\ i % 4 = 2 /\ (3*i + 1) \div 4 = 3*h + 1 /\ 3*h \in Nat /\ 3*h + 1 \in Nat
    BY <1>1, <1>5
  <2> HIDE DEF j
  <2>2. Sextet(b, i) = SixBits(2, At(3*h + 1), At(3*h + 1 + 1))
    BY <2>1 DEF Sextet, At
  <2>3. /\ Bit(b, j) = BitOf(At(3*h + 1), 6) /\ Bit(b, j + 1) = BitOf(At(3*h + 1), 7)
        /\ Bit(b, j + 2) = BitOf(At(3*h + 1 + 1), 0) /\ Bit(b, j + 3) = BitOf(At(3*h + 1 + 1), 1)
        /\ Bit(b, j + 4) = BitOf(At(3*h + 1 + 1), 2) /\ Bit(b, j + 5) = BitOf(At(3*h + 1 + 1), 3)
    BY <1>2, <2>1, Zenon
  <2> DEFINE x == At(3*h + 1)
             y == At(3*h + 1 + 1)
  <2>4. x \in Byte /\ y \in Byte
    BY <1>3
  <2> HIDE DEF x, y
  <2>5. Sextet(b, i) = SixBits(2, x, y)
    BY <2>2 DEF x, y
  <2>6. SixBits(2, x, y) = Row(BitOf(x, 6), BitOf(x, 7), BitOf(y, 0),
                               BitOf(y, 1), BitOf(y, 2), BitOf(y, 3))
    BY <2>4, RowIs
  <2> QED
    BY <2>3, <2>5, <2>6 DEF x, y
<1>6. CASE i = 4*h + 3
  <2>1. /\ j = 8*(3*h + 1) + 4 /\ j + 1 = 8*(3*h + 1) + 5 /\ j + 2 = 8*(3*h + 1) + 6
        /\ j + 3 = 8*(3*h + 1) + 7 /\ j + 4 = 8*(3*h + 2) + 0 /\ j + 5 = 8*(3*h + 2) + 1
        /\ i % 4 = 3 /\ (3*i + 1) \div 4 = 3*h + 2 /\ 3*h + 1 \in Nat /\ 3*h + 2 \in Nat
        /\ 3*h + 1 + 1 = 3*h + 2
    BY <1>1, <1>6
  <2> HIDE DEF j
  <2>2. Sextet(b, i) = SixBits(3, At(3*h + 2), At(3*h + 2 + 1))
    BY <2>1 DEF Sextet, At
  <2>3. /\ Bit(b, j) = BitOf(At(3*h + 2), 4) /\ Bit(b, j + 1) = BitOf(At(3*h + 2), 5)
        /\ Bit(b, j + 2) = BitOf(At(3*h + 2), 6) /\ Bit(b, j + 3) = BitOf(At(3*h + 2), 7)
        /\ Bit(b, j + 4) = BitOf(At(3*h + 2 + 1), 0) /\ Bit(b, j + 5) = BitOf(At(3*h + 2 + 1), 1)
    BY <1>2, <2>1, Zenon
  <2> DEFINE x == At(3*h + 2)
             y == At(3*h + 2 + 1)
  <2>4. x \in Byte /\ y \in Byte
    BY <1>3
  <2> HIDE DEF x, y
  <2>5. Sextet(b, i) = SixBits(3, x, y)
    BY <2>2 DEF x, y
  <2>6. SixBits(3, x, y) = Row(BitOf(x, 4), BitOf(x, 5), BitOf(x, 6),
                               BitOf(x, 7), BitOf(y, 0), BitOf(y, 1))
    BY <2>4, RowIs
  <2> QED
    BY <2>3, <2>5, <2>6 DEF x, y
<1>7. CASE i = 4*h + 4
  <2>1. /\ j = 8*(3*h + 2) + 2 /\ j + 1 = 8*(3*h + 2) + 3 /\ j + 2 = 8*(3*h + 2) + 4
        /\ j + 3 = 8*(3*h + 2) + 5 /\ j + 4 = 8*(3*h + 2) + 6 /\ j + 5 = 8*(3*h + 2) + 7
        /\ i % 4 = 0 /\ (3*i + 1) \div 4 = 3*h + 3 /\ 3*h + 2 \in Nat
        /\ 3*h + 2 + 1 = 3*h + 3
    BY <1>1, <1>7
  <2> HIDE DEF j
  <2>2. Sextet(b, i) = SixBits(0, At(3*h + 3), At(3*h + 3 + 1))
    BY <2>1 DEF Sextet, At
  <2>3. /\ Bit(b, j) = BitOf(At(3*h + 3), 2) /\ Bit(b, j + 1) = BitOf(At(3*h + 3), 3)
        /\ Bit(b, j + 2) = BitOf(At(3*h + 3), 4) /\ Bit(b, j + 3) = BitOf(At(3*h + 3), 5)
        /\ Bit(b, j + 4) = BitOf(At(3*h + 3), 6) /\ Bit(b, j + 5) = BitOf(At(3*h + 3), 7)
    BY <1>2, <2>1, Zenon
  <2> DEFINE x == At(3*h + 3)
             y == At(3*h + 3 + 1)
  <2>4. x \in Byte /\ y \in Byte
    BY <1>3
  <2> HIDE DEF x, y
  <2>5. Sextet(b, i) = SixBits(0, x, y)
    BY <2>2 DEF x, y
  <2>6. SixBits(0, x, y) = Row(BitOf(x, 2), BitOf(x, 3), BitOf(x, 4),
                               BitOf(x, 5), BitOf(x, 6), BitOf(x, 7))
    BY <2>4, RowIs
  <2> QED
    BY <2>3, <2>5, <2>6 DEF x, y
<1> QED
  BY <1>1, <1>4, <1>5, <1>6, <1>7

----------------------------------------------------------------------------
(* The theorems of the codec.                                              *)

\* The byte strings and texts the specification grows are of bytes and of characters.
CodecInv == bytes \in Seq(Byte) /\ text \in Seq(Nat)

\* The codec only ever sees byte strings and texts.
LEMMA CodecTypes == CodecSpec => []CodecInv
<1>1. CodecInit => CodecInv
  BY DEF CodecInit, CodecInv
<1>2. CodecInv /\ [CodecNext]_codecVars => CodecInv'
  <2> SUFFICES ASSUME CodecInv, [CodecNext]_codecVars PROVE CodecInv'
    OBVIOUS
  <2>1. CASE GrowBytes
    <3>1. SomeBytes \subseteq Byte
      BY CodecAssumption DEF Byte
    <3> QED
      BY <2>1, <3>1 DEF GrowBytes, CodecInv
  <2>2. CASE GrowText
    <3>1. SomeChars \subseteq Nat
      BY CodecAssumption
    <3> QED
      BY <2>2, <3>1 DEF GrowText, CodecInv
  <2>3. CASE UNCHANGED codecVars
    BY <2>3 DEF codecVars, CodecInv
  <2> QED
    BY <2>1, <2>2, <2>3 DEF CodecNext
<1> QED
  BY <1>1, <1>2, PTL DEF CodecSpec

\* What b64_encode makes of any byte string, b64_decode gives back: no byte is
\* lost or changed at a chunk boundary or when the accumulator drops its top
\* bits (the loops of both functions).
THEOREM BundlesSurvive == CodecSpec => []RoundTrip
<1>1. CodecInv => RoundTrip
  BY DecodeEncode DEF CodecInv, RoundTrip
<1> QED
  BY <1>1, CodecTypes, PTL

\* b64_decode accepts only what b64_encode could have written: up to padding
\* characters, an accepted text is the text of its bytes.
THEOREM AcceptedIsCanonical == CodecSpec => []Canonical
<1>1. CodecInv => Canonical
  BY EncodeDecode DEF CodecInv, Canonical
<1> QED
  BY <1>1, CodecTypes, PTL

\* b64_encode writes what RFC 4648 says: as many characters as the bits need,
\* and each the next six bits of the bytes in order.
THEOREM EncodesRFC4648 == CodecSpec => []EncodesTheBitStream
<1>1. CodecInv => EncodesTheBitStream
  <2> SUFFICES ASSUME CodecInv PROVE EncodesTheBitStream
    OBVIOUS
  <2> DEFINE L == (4 * Len(bytes) + 2) \div 3
  <2>1. bytes \in Seq(Byte) /\ Len(bytes) \in Nat
    BY DEF CodecInv
  <2>2. Spells(bytes, L, Encode(bytes))
    BY <2>1, EncodeIs
  <2>3. L \in Nat /\ (8 * Len(bytes) + 5) \div 6 = L
    BY <2>1, Lengths
  <2> HIDE DEF L
  <2>4. Len(Encode(bytes)) = L /\ DOMAIN Encode(bytes) = 1..L
    BY <2>2, <2>3 DEF Spells
  <2>5. ASSUME NEW i \in 1..L
        PROVE  Val(Encode(bytes)[i]) = SumFunctionOnSet(Weighted(bytes, i), 0..5)
    <3>1. i \in Nat \ {0}
      BY <2>3
    <3>2. Encode(bytes)[i] = T[Sextet(bytes, i) + 1]
      BY <2>2 DEF Spells
    <3>3. Sextet(bytes, i) \in Sextets
      BY <2>1, <3>1, SextetType
    <3> QED
      BY <2>1, <3>1, <3>2, <3>3, Alphabet, SextetIsRow
  <2> QED
    BY <2>3, <2>4, <2>5 DEF EncodesTheBitStream, Weighted
<1> QED
  BY <1>1, CodecTypes, PTL

\* invite_create_body_cap never refuses a create whose blobs are within the
\* limit: the cap is what two largest blobs and the JSON frame take.
THEOREM LargestBundlesFit == CodecSpec => []LargestBundleFits
<1>1. CodecInv => LargestBundleFits
  <2> SUFFICES ASSUME CodecInv PROVE LargestBundleFits
    OBVIOUS
  <2>1. bytes \in Seq(Byte) /\ Len(bytes) \in Nat
    BY DEF CodecInv
  <2>2. Len(Encode(bytes)) = (4 * Len(bytes) + 2) \div 3
    BY <2>1, EncodeIs DEF Spells
  <2> QED
    BY <2>1, <2>2 DEF LargestBundleFits, InviteCreateBodyCap, JsonFrame
<1> QED
  BY <1>1, CodecTypes, PTL
=============================================================================
