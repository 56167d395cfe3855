-------------------------------- MODULE Gate --------------------------------
(***************************************************************************)
(* What every request passes before it is a step of module Relay: the      *)
(* extractors of the web framework, the bearer gate (auth_ok) and the      *)
(* checks of the seven handlers, in the order the handlers make them       *)
(* (src/lib.rs); and how the handlers turn the texts clients send into     *)
(* keys.                                                                   *)
(***************************************************************************)
EXTENDS Integers, Sequences

CONSTANTS
    Cores,      \* texts without the blanks around them
    Absent,     \* no such header
    NonText     \* a header that is not visible ASCII

ASSUME GateAssumption == Absent # NonText

----------------------------------------------------------------------------
(* Texts and the keys made of them.                                        *)

\* A text is its core, "" for a blank one, with or without blanks around it.
Text == [core : Cores \cup {""}, padded : BOOLEAN]
Trim(t) == [t EXCEPT !.padded = FALSE]
Blank(t) == t.core = ""

\* route_key_for: SHA-256 of a text, to the last blank.
RouteKeyFor(t) == <<"sha256", t>>

\* resolve_route_token: the code it fails with, or "ok".
RouteTokenError(h) ==
    IF h = Absent THEN "ERR_MISSING_ROUTE_TOKEN"
    ELSE IF h = NonText THEN "ERR_BAD_ROUTE_TOKEN"
    ELSE IF Blank(h) THEN "ERR_MISSING_ROUTE_TOKEN"
    ELSE "ok"

\* Mutation: the route token is checked for blanks and hashed as it came.
MailboxKeyRaw(h) == RouteKeyFor(h)

\* The mailbox a route token names, and the slot an invite_id names.
MailboxKey(h) == RouteKeyFor(Trim(h))
SlotKey(id) == RouteKeyFor(id)

----------------------------------------------------------------------------
(* Requests.                                                               *)

Auth == {"none", "other", "wrong", "right"}   \* Authorization: not Bearer, ...
Headers == Text \cup {Absent, NonText}
Sizes == {"empty", "fits", "beyond_cap", "beyond_framework"}
\* "blank": a blank field besides invite_id.
InviteBodies == {"malformed", "blank", "undecodable", "no_blob", "large_blob", "ok"}

Requests ==
    [endpoint : {"push"}, auth : Auth, route : Headers, size : Sizes]
    \cup [endpoint : {"pull"}, auth : Auth, route : Headers,
          query : {"malformed", "zero_max", "bad_mode", "ok"}]
    \cup [endpoint : {"ack"}, auth : Auth, route : Headers, size : Sizes,
          body : {"malformed", "no_ids", "many_ids", "ok"}]
    \cup [endpoint : {"create"}, auth : Auth, size : Sizes, invite_id : Text,
          body : InviteBodies]
    \cup [endpoint : {"redeem", "revoke"}, auth : Auth, size : Sizes, invite_id : Text,
          body : {"malformed", "blank", "ok"}]
    \cup [endpoint : {"info"}, auth : Auth]

VARIABLES
    bearer,    \* the relay was started with a RELAY_TOKEN
    request,   \* the last request
    answer,    \* what it was refused with, "pass", or a document
    reached    \* what it got to: the create-rate bucket, the store

gateVars == <<bearer, request, answer, reached>>

AuthOk(r) == ~bearer \/ r.auth = "right"

\* The codes a request is refused with, one per check, in order; "ok" where
\* the check passes.
Check(fails, code) == IF fails THEN code ELSE "ok"

\* Query<..> and Bytes are extracted before the handler runs.
Extractors(r) ==
    <<Check("query" \in DOMAIN r /\ r["query"] = "malformed", "BAD_QUERY"),
      Check("size" \in DOMAIN r /\ r["size"] = "beyond_framework", "LENGTH_LIMIT")>>

AuthCheck(r) == <<Check(~AuthOk(r), "ERR_UNAUTHORIZED")>>

PushChecks(r) ==
    <<RouteTokenError(r.route),
      Check(r.size = "empty", "ERR_EMPTY_BODY"),
      Check(r.size = "beyond_cap", "ERR_TOO_LARGE")>>

PullChecks(r) ==
    <<RouteTokenError(r.route),
      Check(r.query = "zero_max", "ERR_BAD_MAX"),
      Check(r.query = "bad_mode", "ERR_BAD_ACK_MODE")>>

AckChecks(r) ==
    <<RouteTokenError(r.route),
      Check(r.size = "beyond_cap", "ERR_TOO_LARGE"),
      Check(r.size = "empty" \/ r.body = "malformed", "ERR_BAD_ACK_BODY"),
      Check(r.body \in {"no_ids", "many_ids"}, "ERR_BAD_ACK_IDS")>>

\* Before and after the rate gate.
CreateSizeCheck(r) == <<Check(r.size = "beyond_cap", "ERR_INVITE_TOO_LARGE")>>
CreateChecks(r) ==
    <<Check(\/ r.size = "empty" \/ Blank(r.invite_id)
            \/ r.body \in {"malformed", "blank", "undecodable", "no_blob"},
            "ERR_INVITE_BAD_BODY"),
      Check(r.body = "large_blob", "ERR_INVITE_TOO_LARGE")>>

SlotChecks(r) ==
    <<Check(r.size = "beyond_cap", "ERR_TOO_LARGE"),
      Check(r.size = "empty" \/ Blank(r.invite_id) \/ r.body \in {"malformed", "blank"},
            "ERR_INVITE_BAD_BODY")>>

\* Mutation: push resolves the route token before it looks at the bearer.
ChecksRouteFirst(r) ==
    Extractors(r) \o
    CASE r.endpoint = "push" -> PushChecks(r) \o AuthCheck(r)
      [] r.endpoint = "pull" -> AuthCheck(r) \o PullChecks(r)
      [] r.endpoint = "ack" -> AuthCheck(r) \o AckChecks(r)
      [] r.endpoint = "create" -> AuthCheck(r) \o CreateSizeCheck(r) \o CreateChecks(r)
      [] r.endpoint \in {"redeem", "revoke"} -> AuthCheck(r) \o SlotChecks(r)
      [] OTHER -> AuthCheck(r)

Checks(r) ==
    Extractors(r) \o
    CASE r.endpoint = "push" -> AuthCheck(r) \o PushChecks(r)
      [] r.endpoint = "pull" -> AuthCheck(r) \o PullChecks(r)
      [] r.endpoint = "ack" -> AuthCheck(r) \o AckChecks(r)
      [] r.endpoint = "create" -> AuthCheck(r) \o CreateSizeCheck(r) \o CreateChecks(r)
      [] r.endpoint \in {"redeem", "revoke"} -> AuthCheck(r) \o SlotChecks(r)
      [] OTHER -> AuthCheck(r)

\* The first check that fails decides.
Failing(checks) == {i \in DOMAIN checks : checks[i] # "ok"}
FirstRefusal(checks) ==
    IF Failing(checks) = {} THEN "pass"
    ELSE checks[CHOOSE i \in Failing(checks) : \A j \in Failing(checks) : i <= j]

\* server_info answers with a document where the others say ERR_UNAUTHORIZED.
InfoMode == IF bearer THEN "bearer" ELSE "open"
AnswerTo(r) ==
    LET refusal == FirstRefusal(Checks(r))
    IN  IF r.endpoint = "info"
          THEN IF refusal = "pass" THEN <<"document", InfoMode>> ELSE <<"probe", "bearer">>
          ELSE <<refusal>>

\* Mutation: the rate gate stands in front of the bearer gate.
ReachedRateFirst(r) ==
    {x \in {"create_rate", "store"} :
        \/ x = "create_rate" /\ r.endpoint = "create"
                             /\ FirstRefusal(Extractors(r)) = "pass"
        \/ x = "store" /\ r.endpoint # "info" /\ FirstRefusal(Checks(r)) = "pass"}

\* invite_create consumes from its bucket before it parses the body.
Reached(r) ==
    {x \in {"create_rate", "store"} :
        \/ /\ x = "create_rate"
           /\ r.endpoint = "create"
           /\ FirstRefusal(Extractors(r) \o AuthCheck(r) \o CreateSizeCheck(r)) = "pass"
        \/ x = "store" /\ r.endpoint # "info" /\ FirstRefusal(Checks(r)) = "pass"}

NoRequest == [endpoint |-> "none"]

Serve ==
    /\ request = NoRequest
    /\ request' \in Requests
    /\ answer' = AnswerTo(request')
    /\ reached' = Reached(request')
    /\ UNCHANGED bearer

Respond ==
    /\ request # NoRequest
    /\ request' = NoRequest
    /\ answer' = <<>>
    /\ reached' = {}
    /\ UNCHANGED bearer

GateInit ==
    /\ bearer \in BOOLEAN
    /\ request = NoRequest
    /\ answer = <<>>
    /\ reached = {}

GateNext == Serve \/ Respond

GateSpec == GateInit /\ [][GateNext]_gateVars
----------------------------------------------------------------------------
(* Properties.                                                             *)

Refused(r) == r # NoRequest /\ ~AuthOk(r)
Extracted(r) == FirstRefusal(Extractors(r)) = "pass"

\* A handler tells a caller without the bearer nothing: its answer is the same
\* for a missing, a foreign and a wrong credential, whatever mailbox, body or
\* invite the request names.
NoTokenOracle ==
    (Refused(request) /\ Extracted(request)) =>
        \A r \in Requests :
            (r.endpoint = request.endpoint /\ Refused(r) /\ Extracted(r))
                => AnswerTo(r) = answer

\* A caller without the bearer costs the relay nothing others need: no rate
\* token and no transaction.  (An invite create spends its rate token before
\* its body is parsed.)
RefusedReachesNothing == Refused(request) => reached = {}

\* The slot an accepted create publishes guards the mailbox of that name,
\* however route tokens are padded, and no other; but an invite_id that has
\* blanks around it, which nothing trims, guards no mailbox at all.
SlotGuardsItsMailbox ==
    (request.endpoint = "create" /\ answer = <<"pass">>) =>
        \A h \in {t \in Text : ~Blank(t)} :
            MailboxKey(h) = SlotKey(request.invite_id)
                <=> (h.core = request.invite_id.core /\ ~request.invite_id.padded)
=============================================================================
