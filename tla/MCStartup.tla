----------------------------- MODULE MCStartup -----------------------------
(* Four processes of three versions on one file.                           *)
EXTENDS Startup

CONSTANTS old, mid, mid2, new

MCBuild == [p \in Procs |-> CASE p = old -> 1 [] p = new -> 3 [] OTHER -> 2]

\* Version 1 had no invites; version 3 is one to come.
V1 == <<"meta", "routes", "messages", "idx_messages_route_seq", "idx_messages_enqueued">>
V2 == V1 \o <<"invites", "idx_invites_expiry">>
MCSchema == <<V1, V2, V2 \o <<"next">>>>
=============================================================================
