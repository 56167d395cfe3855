------------------------------- MODULE Config -------------------------------
(***************************************************************************)
(* The configuration of the relay from flags, environment and defaults to  *)
(* the running process (src/main.rs, with the limit constructors of        *)
(* src/lib.rs and src/store.rs): the environment is parsed, the settings   *)
(* are resolved and validated in order, the address is parsed, and the     *)
(* store and the application state validate their share once more.         *)
(***************************************************************************)
EXTENDS Integers, Sequences

CONSTANTS
    Absent,       \* None: no flag, or an unset or blank variable
    Malformed,    \* text that is no number
    Numbers,      \* the numbers given (bound of the model)
    FlagSets,     \* sets of settings given by flags at once (same)
    VarSets       \* sets of settings given by variables at once (same)

----------------------------------------------------------------------------
(* The numeric settings, their defaults and their ceilings.                *)

\* The order in which from_env reads them.
EnvOrder ==
    <<"PORT", "MAX_BODY_BYTES", "MAX_QUEUE_DEPTH", "MAX_ROUTE_COUNT",
      "PUSH_RATE_BURST", "PUSH_RATE_REFILL_PER_SEC", "RETENTION_TTL_SECS",
      "PULL_LEASE_SECS", "MAX_INVITE_SLOTS", "MAX_INVITE_BUNDLE_BYTES",
      "MAX_INVITE_EXPIRY_SECS", "INVITE_CREATE_BURST",
      "INVITE_CREATE_REFILL_PER_SEC">>

Settings == {EnvOrder[i] : i \in DOMAIN EnvOrder}

Default(k) ==
    CASE k = "PORT" -> 8080
      [] k = "MAX_BODY_BYTES" -> 1024 * 1024
      [] k = "MAX_QUEUE_DEPTH" -> 257
      [] k = "MAX_ROUTE_COUNT" -> 256
      [] k = "PUSH_RATE_BURST" -> 257
      [] k = "PUSH_RATE_REFILL_PER_SEC" -> 257
      [] k = "RETENTION_TTL_SECS" -> 604800
      [] k = "PULL_LEASE_SECS" -> 60
      [] k = "MAX_INVITE_SLOTS" -> 256
      [] k = "MAX_INVITE_BUNDLE_BYTES" -> 16 * 1024
      [] k = "MAX_INVITE_EXPIRY_SECS" -> 259200
      [] k = "INVITE_CREATE_BURST" -> 32
      [] OTHER -> 1

\* What u16 holds, for the port.
Ceiling(k) ==
    CASE k = "PORT" -> 65535
      [] k = "MAX_BODY_BYTES" -> 1024 * 1024
      [] k \in {"MAX_QUEUE_DEPTH", "PUSH_RATE_BURST"} -> 257
      [] k = "MAX_ROUTE_COUNT" -> 256
      [] k \in {"RETENTION_TTL_SECS", "MAX_INVITE_EXPIRY_SECS"} -> 2592000
      [] k = "PULL_LEASE_SECS" -> 3600
      [] k = "MAX_INVITE_BUNDLE_BYTES" -> 64 * 1024
      [] OTHER -> 4096

\* Zero means no refill, and any port.
ZeroAllowed == {"PORT", "PUSH_RATE_REFILL_PER_SEC", "INVITE_CREATE_REFILL_PER_SEC"}

----------------------------------------------------------------------------
ASSUME ConfigAssumption ==
    /\ Numbers \subseteq Nat
    /\ Absent \notin Nat \cup {Malformed, "", ":memory:", "file"}
    /\ Absent \notin Settings \cup {"STORE_PATH", "BIND_ADDR"}
    /\ Malformed \notin Nat
    /\ FlagSets \cup VarSets \subseteq SUBSET Settings

VARIABLES
    cli,      \* the numbers given by flags, by setting
    env,      \* the numbers, or text, in the environment, by setting
    paths,    \* --store-path and STORE_PATH; "" is an empty string
    addr,     \* whether BIND_ADDR and PORT make a socket address
    phase,    \* how far main has come
    cfg,      \* the resolved numbers
    path,     \* the resolved store path
    state,    \* what AppState and Store keep of it
    error     \* the setting an error names, or Absent

given == <<cli, env, paths, addr>>
configVars == <<given, phase, cfg, path, state, error>>

\* Mutation: only an unset variable is none.
EnvOptRaw(v) == v

\* env_opt: an unset, an empty and a blank variable are the same.
EnvOpt(v) == IF v = "" THEN Absent ELSE v

\* cli.or(env).unwrap_or(default), with the variables that are set.
Or(a, b) == IF a # Absent THEN a ELSE b
Get(f, k) == IF k \in DOMAIN f THEN f[k] ELSE Absent

Requested(k) == Or(Or(Get(cli, k), Get(env, k)), Default(k))

\* limit_or_error, retention_ttl_or_error, pull_lease_or_error: zero is
\* refused where it means nothing ...
Rejects(k, v) == v = 0 /\ k \notin ZeroAllowed

\* Mutation: only the ceiling of the settings that refuse zero is applied.
CapOnlyLimits(k, v) ==
    IF k \notin ZeroAllowed /\ v > Ceiling(k) THEN Ceiling(k) ELSE v

\* ... and more than the ceiling is the ceiling.
Cap(k, v) == IF v > Ceiling(k) THEN Ceiling(k) ELSE v

\* The first setting of an order with a fault.
First(order, Faulty) ==
    order[CHOOSE i \in DOMAIN order :
            order[i] \in Faulty /\ \A j \in 1..(i - 1) : order[j] \notin Faulty]

\* Mutation: the process gives up without saying why.
FailSilently(name) ==
    /\ phase' = "failed"
    /\ UNCHANGED <<given, cfg, path, state, error>>

\* The process exits with the error that names the setting.
Fail(name) ==
    /\ phase' = "failed"
    /\ error' = name
    /\ UNCHANGED <<given, cfg, path, state>>

----------------------------------------------------------------------------

\* Mutation: only the variables no flag overrides are parsed.
MalformedVarsUsed ==
    {k \in DOMAIN env \ DOMAIN cli :
        env[k] = Malformed \/ (k = "PORT" /\ env[k] > 65535)}

\* What parse::<usize> and, for the port, parse::<u16> refuse.
MalformedVars ==
    {k \in DOMAIN env : env[k] = Malformed \/ (k = "PORT" /\ env[k] > 65535)}

\* EnvVals::from_env parses every variable, also one a flag overrides.
FromEnv ==
    /\ phase = "env"
    /\ \/ MalformedVars # {} /\ Fail(First(EnvOrder, MalformedVars))
       \/ /\ MalformedVars = {}
          /\ phase' = "resolve"
          /\ UNCHANGED <<given, cfg, path, state, error>>

\* The order in which resolve_config validates.
ResolveOrder ==
    <<"STORE_PATH", "RETENTION_TTL_SECS", "PULL_LEASE_SECS", "MAX_INVITE_SLOTS",
      "MAX_INVITE_BUNDLE_BYTES", "MAX_INVITE_EXPIRY_SECS", "INVITE_CREATE_BURST",
      "MAX_BODY_BYTES", "MAX_QUEUE_DEPTH", "MAX_ROUTE_COUNT", "PUSH_RATE_BURST">>

\* A flag is taken as it is, an empty variable is none.
ResolvedPath == Or(paths.flag, EnvOpt(paths.var))

Rejected ==
    {k \in Settings : Rejects(k, Requested(k))}
        \cup (IF ResolvedPath = Absent THEN {"STORE_PATH"} ELSE {})

\* ROUTE_IDLE_TTL_MS is only warned about: it is neither parsed nor used.
ResolveConfig ==
    /\ phase = "resolve"
    /\ \/ Rejected # {} /\ Fail(First(ResolveOrder, Rejected))
       \/ /\ Rejected = {}
          /\ phase' = "bind"
          /\ cfg' = [k \in Settings |-> Cap(k, Requested(k))]
          /\ path' = ResolvedPath
          /\ UNCHANGED <<given, state, error>>

\* The address is parsed; who gets it is module Startup's business.
BindAddr ==
    /\ phase = "bind"
    /\ \/ ~addr /\ Fail("BIND_ADDR")
       \/ /\ addr
          /\ phase' = "open"
          /\ UNCHANGED <<given, cfg, path, state, error>>

\* The copy /v1/server-info reports; Store::open validates one of its own.
AdvertisedRetention == Cap("RETENTION_TTL_SECS", cfg["RETENTION_TTL_SECS"])

\* SQLite keeps a database in a file unless its name is one of these (or, as a
\* URI, says so; URIs are not among the Paths tried).
Durable(p) == p \notin {"", ":memory:"}

\* AppState::new_full and, in it, Store::open, which may find that the database
\* cannot be opened.  The zero rules of both repeat resolve_config's, so that
\* nothing they refuse gets here.
NewFull ==
    /\ phase = "open"
    /\ \/ Fail("STORE_PATH")
       \/ /\ phase' = "running"
          /\ state' = [advertised |-> AdvertisedRetention,
                       retention |-> Cap("RETENTION_TTL_SECS", cfg["RETENTION_TTL_SECS"]),
                       lease |-> Cap("PULL_LEASE_SECS", cfg["PULL_LEASE_SECS"]),
                       durable |-> Durable(path)]
          /\ UNCHANGED <<given, cfg, path, error>>

\* The store paths tried.
Paths == [flag : {Absent, "", ":memory:", "file"},
          var : {Absent, "", ":memory:", "file"}]

\* What an operator can give.  A flag that is no number, or a port beyond u16,
\* never gets past the command-line parser.
ConfigInit ==
    /\ \E S \in FlagSets : cli \in [S -> Numbers]
    /\ "PORT" \in DOMAIN cli => cli["PORT"] <= 65535
    /\ \E S \in VarSets : env \in [S -> Numbers \cup {Malformed}]
    /\ paths \in Paths
    /\ addr \in BOOLEAN
    /\ phase = "env"
    /\ cfg = [k \in {} |-> 0]
    /\ path = Absent
    /\ state = [k \in {} |-> 0]
    /\ error = Absent

ConfigNext == FromEnv \/ ResolveConfig \/ BindAddr \/ NewFull

ConfigSpec == ConfigInit /\ [][ConfigNext]_configVars

----------------------------------------------------------------------------
(* Properties.                                                             *)

ConfigTypeOK ==
    /\ phase \in {"env", "resolve", "bind", "open", "running", "failed"}
    /\ phase \in {"bind", "open", "running"} => cfg \in [Settings -> Nat]
    /\ phase = "failed" <=> error # Absent

\* A relay that runs has limits under which the store and the buckets are
\* correct: none is zero but a refill, none is above its ceiling, whatever
\* combination of flags, variables and defaults it came from.
LegalLimits ==
    phase = "running" =>
        /\ \A k \in Settings \ {"PORT"} : cfg[k] <= Ceiling(k)
        /\ \A k \in Settings \ ZeroAllowed : cfg[k] > 0
        /\ state.retention > 0 /\ state.lease > 0

\* The relay runs as configured or not at all: where it runs, every number
\* somebody gave parsed, none was dropped in favour of a default, and a flag
\* was not overruled by a variable; and the retention it advertises is the one
\* its store enforces, though each is derived on its own.
RunsAsConfigured ==
    phase = "running" =>
        /\ \A k \in DOMAIN env : env[k] \in Nat
        /\ \A k \in DOMAIN env \ DOMAIN cli :
              env[k] <= Ceiling(k) => cfg[k] = env[k]
        /\ \A k \in DOMAIN cli : cli[k] <= Ceiling(k) => cfg[k] = cli[k]
        /\ state.advertised = state.retention

\* Fail-closed on the store path: a relay that forgets everything when it stops
\* was told so, by `:memory:' or by an explicit empty --store-path (which
\* SQLite takes for a temporary database); leaving the path out, or blank in
\* the environment, never makes one.
EphemeralOnlyWhenTold ==
    (phase = "running" /\ ~state.durable) =>
        \/ paths.flag \in {"", ":memory:"}
        \/ paths.flag = Absent /\ paths.var = ":memory:"
=============================================================================
