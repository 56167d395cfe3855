----------------------------- MODULE MainProofs -----------------------------
(***************************************************************************)
(* Proofs about what the program does before it serves: the configuration, *)
(* for any numbers an operator may give, and the start of processes on one *)
(* database, for any processes, versions and schemas.                      *)
(***************************************************************************)
EXTENDS Startup, Config, SumProofs

----------------------------------------------------------------------------
(* Configuration.                                                          *)

\* What was given stays given, and is of its kind.
GivenOK ==
    /\ DOMAIN cli \subseteq Settings /\ \A k \in DOMAIN cli : cli[k] \in Nat
    /\ DOMAIN env \subseteq Settings /\ \A k \in DOMAIN env : env[k] \in Nat \cup {Malformed}

Phases == {"env", "resolve", "bind", "open", "running", "failed"}
Parsed == phase \in {"resolve", "bind", "open", "running"}
Resolved == phase \in {"bind", "open", "running"}

\* What each phase has established about what was given.
ConfigInv ==
    /\ GivenOK
    /\ phase \in Phases
    /\ Parsed => \A k \in DOMAIN env : env[k] \in Nat
    /\ Resolved => \A k \in Settings : ~Rejects(k, Requested(k))
    /\ Resolved => cfg = [k \in Settings |-> Cap(k, Requested(k))]
    /\ phase = "running" =>
         /\ state.advertised = Cap("RETENTION_TTL_SECS", cfg["RETENTION_TTL_SECS"])
         /\ state.retention = Cap("RETENTION_TTL_SECS", cfg["RETENTION_TTL_SECS"])
         /\ state.lease = Cap("PULL_LEASE_SECS", cfg["PULL_LEASE_SECS"])

\* Every default and every ceiling is a positive number.
LEMMA Table ==
    ASSUME NEW k
    PROVE  Default(k) \in Nat \ {0} /\ Ceiling(k) \in Nat \ {0}
BY DEF Default, Ceiling

\* The two settings the store validates again are settings that refuse zero.
LEMMA StoreSettings ==
    {"RETENTION_TTL_SECS", "PULL_LEASE_SECS"} \subseteq Settings \ ZeroAllowed
<1>1. DOMAIN EnvOrder = 1..13
  BY DEF EnvOrder
<1>2. EnvOrder[7] = "RETENTION_TTL_SECS" /\ EnvOrder[8] = "PULL_LEASE_SECS"
  BY DEF EnvOrder
<1>3. 7 \in 1..13 /\ 8 \in 1..13
  OBVIOUS
<1> QED BY <1>1, <1>2, <1>3 DEF Settings, ZeroAllowed

\* A capped number is the number or the ceiling, and zero only if it was.
LEMMA CapFacts ==
    ASSUME NEW k, NEW v \in Nat
    PROVE  /\ Cap(k, v) \in Nat
           /\ Cap(k, v) <= Ceiling(k)
           /\ v <= Ceiling(k) => Cap(k, v) = v
           /\ v # 0 => Cap(k, v) # 0
BY Table DEF Cap

\* What is requested of a setting, once the environment has parsed.
LEMMA RequestedFacts ==
    ASSUME GivenOK, \A k \in DOMAIN env : env[k] \in Nat, NEW k \in Settings
    PROVE  /\ Requested(k) \in Nat
           /\ k \in DOMAIN cli => Requested(k) = cli[k]
           /\ k \in DOMAIN env \ DOMAIN cli => Requested(k) = env[k]
<1> USE ConfigAssumption DEF Requested, Or, Get, GivenOK
<1>1. Default(k) \in Nat
  BY Table
<1>2. CASE k \in DOMAIN cli
  BY <1>2
<1>3. CASE k \notin DOMAIN cli /\ k \in DOMAIN env
  BY <1>3
<1>4. CASE k \notin DOMAIN cli /\ k \notin DOMAIN env
  BY <1>4, <1>1
<1> QED BY <1>2, <1>3, <1>4

\* Whatever was given, nothing has been done with it yet.
LEMMA ConfigInitInv == ConfigInit => ConfigInv
<1> SUFFICES ASSUME ConfigInit PROVE ConfigInv
  OBVIOUS
<1>0. /\ \E S \in FlagSets : cli \in [S -> Numbers]
      /\ \E S \in VarSets : env \in [S -> Numbers \cup {Malformed}]
      /\ phase = "env"
  BY DEF ConfigInit
<1>1. PICK S \in FlagSets : cli \in [S -> Numbers]
  BY <1>0
<1>2. PICK T \in VarSets : env \in [T -> Numbers \cup {Malformed}]
  BY <1>0
<1>3. GivenOK
  BY <1>1, <1>2, ConfigAssumption DEF GivenOK
<1> QED BY <1>0, <1>3 DEF ConfigInv, Phases, Parsed, Resolved

\* Giving up establishes nothing.
LEMMA FailKeeps ==
    ASSUME ConfigInv, NEW name, Fail(name) PROVE ConfigInv'
BY DEF Fail, given, ConfigInv, GivenOK, Phases, Parsed, Resolved

\* Every phase keeps what the ones before it established.
LEMMA ConfigStep == ConfigInv /\ [ConfigNext]_configVars => ConfigInv'
<1> SUFFICES ASSUME ConfigInv, [ConfigNext]_configVars PROVE ConfigInv'
  OBVIOUS
<1> DEFINE Same == UNCHANGED given
<1>1. ASSUME Same
      PROVE  /\ GivenOK' /\ \A k \in Settings : Requested(k)' = Requested(k)
             /\ DOMAIN env' = DOMAIN env /\ env' = env
  BY <1>1 DEF given, GivenOK, ConfigInv, Requested, Get
<1>2. CASE UNCHANGED configVars
  <2>1. Same /\ UNCHANGED <<phase, cfg, path, state, error>>
    BY <1>2 DEF configVars, given
  <2> QED BY <2>1, <1>1 DEF ConfigInv, Phases, Parsed, Resolved, Rejects
<1>3. CASE FromEnv
  <2>1. CASE MalformedVars = {} /\ phase' = "resolve" /\ UNCHANGED <<given, cfg, path, state, error>>
    <3>1. \A k \in DOMAIN env : env[k] \in Nat
      BY <2>1 DEF MalformedVars, ConfigInv, GivenOK
    <3> QED BY <3>1, <2>1, <1>1 DEF ConfigInv, Phases, Parsed, Resolved
  <2> QED BY <2>1, <1>3, FailKeeps DEF FromEnv
<1>4. CASE ResolveConfig
  <2>1. CASE /\ Rejected = {} /\ phase' = "bind" /\ phase = "resolve"
             /\ cfg' = [k \in Settings |-> Cap(k, Requested(k))]
             /\ UNCHANGED <<given, state, error>>
    <3>1. \A k \in Settings : ~Rejects(k, Requested(k))
      BY <2>1 DEF Rejected
    <3>2. /\ \A k \in Settings : ~Rejects(k, Requested(k)')
          /\ cfg' = [k \in Settings |-> Cap(k, Requested(k)')]
      BY <3>1, <2>1, <1>1
    <3>3. \A k \in DOMAIN env' : env'[k] \in Nat
      BY <2>1, <1>1 DEF ConfigInv, Parsed
    <3> QED BY <3>2, <3>3, <2>1, <1>1 DEF ConfigInv, Phases, Parsed, Resolved, Rejects, Cap
  <2> QED BY <2>1, <1>4, FailKeeps DEF ResolveConfig
<1>5. CASE BindAddr
  <2>1. CASE phase = "bind" /\ phase' = "open" /\ UNCHANGED <<given, cfg, path, state, error>>
    BY <2>1, <1>1 DEF ConfigInv, Phases, Parsed, Resolved, Rejects
  <2> QED BY <2>1, <1>5, FailKeeps DEF BindAddr
<1>6. CASE NewFull
  <2>1. CASE Fail("STORE_PATH")
    BY <2>1, FailKeeps
  <2>2. CASE ~Fail("STORE_PATH")
    <3>1. /\ phase = "open" /\ phase' = "running" /\ UNCHANGED <<given, cfg, path, error>>
          /\ state'.advertised = Cap("RETENTION_TTL_SECS", cfg["RETENTION_TTL_SECS"])
          /\ state'.retention = Cap("RETENTION_TTL_SECS", cfg["RETENTION_TTL_SECS"])
          /\ state'.lease = Cap("PULL_LEASE_SECS", cfg["PULL_LEASE_SECS"])
      BY <1>6, <2>2 DEF NewFull, AdvertisedRetention
    <3> QED BY <3>1, <1>1 DEF ConfigInv, Phases, Parsed, Resolved, Rejects, Cap
  <2> QED BY <2>1, <2>2
<1> QED BY <1>2, <1>3, <1>4, <1>5, <1>6 DEF ConfigNext

\* The invariant holds in every state.
THEOREM ConfigInvariant == ConfigSpec => []ConfigInv
BY ConfigInitInv, ConfigStep, PTL DEF ConfigSpec

\* A running relay's numbers, in terms of what was requested.
LEMMA RunningFacts ==
    ASSUME ConfigInv, phase = "running", NEW k \in Settings
    PROVE  /\ cfg[k] = Cap(k, Requested(k)) /\ Requested(k) \in Nat
           /\ ~Rejects(k, Requested(k))
BY RequestedFacts DEF ConfigInv, Parsed, Resolved

\* A relay that runs has the limits the other proofs assume.
THEOREM OnlyLegalLimitsRun == ConfigSpec => []LegalLimits
<1>1. ConfigInv => LegalLimits
  <2> SUFFICES ASSUME ConfigInv, phase = "running"
               PROVE  /\ \A k \in Settings \ {"PORT"} : cfg[k] <= Ceiling(k)
                      /\ \A k \in Settings \ ZeroAllowed : cfg[k] > 0
                      /\ state.retention > 0 /\ state.lease > 0
    BY DEF LegalLimits
  <2>1. \A k \in Settings : cfg[k] <= Ceiling(k) /\ cfg[k] \in Nat
    BY RunningFacts, CapFacts
  <2>2. \A k \in Settings \ ZeroAllowed : cfg[k] > 0
    <3> SUFFICES ASSUME NEW k \in Settings \ ZeroAllowed PROVE cfg[k] > 0
      OBVIOUS
    <3>1. Requested(k) \in Nat /\ Requested(k) # 0 /\ cfg[k] = Cap(k, Requested(k))
      BY RunningFacts DEF Rejects
    <3> QED BY <3>1, <2>1, CapFacts
  <2>3. /\ cfg["RETENTION_TTL_SECS"] \in Nat \ {0} /\ cfg["PULL_LEASE_SECS"] \in Nat \ {0}
    BY <2>1, <2>2, StoreSettings
  <2>4. state.retention > 0 /\ state.lease > 0
    BY <2>3, CapFacts DEF ConfigInv
  <2> QED BY <2>1, <2>2, <2>4
<1> QED BY <1>1, ConfigInvariant, PTL

\* The relay runs with exactly what it was given, up to the ceilings, and
\* advertises the retention it enforces.
THEOREM ConfigurationIsHonoured == ConfigSpec => []RunsAsConfigured
<1>1. ConfigInv => RunsAsConfigured
  <2> SUFFICES ASSUME ConfigInv, phase = "running"
               PROVE  /\ \A k \in DOMAIN env : env[k] \in Nat
                      /\ \A k \in DOMAIN env \ DOMAIN cli :
                            env[k] <= Ceiling(k) => cfg[k] = env[k]
                      /\ \A k \in DOMAIN cli : cli[k] <= Ceiling(k) => cfg[k] = cli[k]
                      /\ state.advertised = state.retention
    BY DEF RunsAsConfigured
  <2>1. GivenOK /\ \A k \in DOMAIN env : env[k] \in Nat
    BY DEF ConfigInv, Parsed
  <2>2. state.advertised = state.retention
    BY DEF ConfigInv
  <2> QED BY <2>1, <2>2, RunningFacts, RequestedFacts, CapFacts DEF GivenOK
<1> QED BY <1>1, ConfigInvariant, PTL

(* The store path.                                                         *)

\* From resolve_config on, the path is the one the operator's choices name.
PathInv ==
    /\ phase \in Phases
    /\ paths \in Paths
    /\ Resolved => path = ResolvedPath /\ ResolvedPath # Absent
    /\ phase = "running" => state.durable = Durable(path)

LEMMA PathStep == PathInv /\ [ConfigNext]_configVars => PathInv'
<1> SUFFICES ASSUME PathInv, [ConfigNext]_configVars PROVE PathInv'
  OBVIOUS
<1> USE DEF PathInv, Phases, Resolved, given
<1>1. ASSUME NEW name, Fail(name) PROVE PathInv'
  BY <1>1 DEF Fail
<1>2. CASE FromEnv
  BY <1>1, <1>2 DEF FromEnv
<1>3. CASE ResolveConfig
  <2>1. CASE /\ phase' = "bind" /\ Rejected = {} /\ path' = ResolvedPath
             /\ UNCHANGED <<given, state, error>>
    <3>1. ResolvedPath # Absent
      BY <2>1 DEF Rejected
    <3>2. ResolvedPath' = ResolvedPath
      BY <2>1 DEF ResolvedPath
    <3> QED
      BY <2>1, <3>1, <3>2
  <2> QED
    BY <1>1, <1>3, <2>1 DEF ResolveConfig
<1>4. CASE BindAddr
  BY <1>1, <1>4 DEF BindAddr, ResolvedPath
<1>5. CASE NewFull
  BY <1>1, <1>5 DEF NewFull, ResolvedPath
<1>6. CASE UNCHANGED configVars
  BY <1>6 DEF configVars, ResolvedPath
<1> QED
  BY <1>2, <1>3, <1>4, <1>5, <1>6 DEF ConfigNext

\* No relay loses what it accepted because its store path was left out, or was
\* blank in the environment.
THEOREM NeverEphemeralByDefault == ConfigSpec => []EphemeralOnlyWhenTold
<1>1. ConfigInit => PathInv
  BY DEF ConfigInit, PathInv, Phases, Resolved
<1>2. PathInv => EphemeralOnlyWhenTold
  <2> SUFFICES ASSUME PathInv, phase = "running", ~state.durable
               PROVE  \/ paths.flag \in {"", ":memory:"}
                      \/ paths.flag = Absent /\ paths.var = ":memory:"
    BY DEF EphemeralOnlyWhenTold
  <2>1. /\ ResolvedPath \in {"", ":memory:"}
        /\ paths.flag \in {Absent, "", ":memory:", "file"}
        /\ paths.var \in {Absent, "", ":memory:", "file"}
        /\ ResolvedPath # Absent
    BY DEF PathInv, Resolved, Durable, Paths
  <2> QED
    BY <2>1, ConfigAssumption DEF ResolvedPath, Or, EnvOpt
<1> QED
  BY <1>1, <1>2, PathStep, PTL DEF ConfigSpec

----------------------------------------------------------------------------
(* Errors.                                                                 *)

\* The first fault in an order is a fault, where the order has one.
LEMMA FirstIsFaulty ==
    ASSUME NEW n \in Nat, NEW order, DOMAIN order = 1..n, NEW Faulty,
           \E i \in 1..n : order[i] \in Faulty
    PROVE  First(order, Faulty) \in Faulty
<1> DEFINE F == {i \in 1..n : order[i] \in Faulty}
<1>1. F \in SUBSET Nat /\ F # {}
  OBVIOUS
<1> HIDE DEF F
<1>2. PICK i \in F : \A m \in F : i <= m
  BY <1>1, LeastNatural
<1>3. i \in 1..n /\ order[i] \in Faulty
  BY <1>2 DEF F
<1>4. \A j \in 1..(i - 1) : order[j] \notin Faulty
  BY <1>2, <1>3 DEF F
<1>5. \E k \in DOMAIN order :
        order[k] \in Faulty /\ \A j \in 1..(k - 1) : order[j] \notin Faulty
  BY <1>3, <1>4
<1> QED
  BY <1>5, Zenon DEF First

\* Every setting that can be refused has its place in the order of validation.
LEMMA RefusedIsOrdered ==
    ASSUME NEW k \in (Settings \ ZeroAllowed) \cup {"STORE_PATH"}
    PROVE  \E i \in 1..11 : ResolveOrder[i] = k
<1>1. k = "STORE_PATH" \/ \E i \in 1..13 : k = EnvOrder[i] /\ k \notin ZeroAllowed
  BY DEF Settings, EnvOrder
<1> QED
  BY <1>1 DEF EnvOrder, ResolveOrder, ZeroAllowed

\* The names of what an operator can get wrong.
Names == Settings \cup {"STORE_PATH", "BIND_ADDR"}

LEMMA ParseErrorNames ==
    ASSUME ConfigInv, MalformedVars # {}
    PROVE  First(EnvOrder, MalformedVars) \in Names
<1>1. DOMAIN EnvOrder = 1..13
  BY DEF EnvOrder
<1>2. MalformedVars \subseteq Settings
  BY DEF MalformedVars, ConfigInv, GivenOK
<1>3. \E i \in 1..13 : EnvOrder[i] \in MalformedVars
  BY <1>1, <1>2 DEF Settings
<1>4. First(EnvOrder, MalformedVars) \in MalformedVars
  BY <1>1, <1>3, FirstIsFaulty
<1> QED
  BY <1>2, <1>4 DEF Names

LEMMA ResolveErrorNames ==
    ASSUME Rejected # {}
    PROVE  First(ResolveOrder, Rejected) \in Names
<1>1. DOMAIN ResolveOrder = 1..11
  BY DEF ResolveOrder
<1>2. Rejected \subseteq (Settings \ ZeroAllowed) \cup {"STORE_PATH"}
  BY DEF Rejected, Rejects
<1>3. \E i \in 1..11 : ResolveOrder[i] \in Rejected
  BY <1>2, RefusedIsOrdered
<1>4. First(ResolveOrder, Rejected) \in Rejected
  BY <1>1, <1>3, FirstIsFaulty
<1> QED
  BY <1>2, <1>4 DEF Names

\* An error is there exactly when the process has given up, and names what is
\* wrong.
ErrorNamed ==
    /\ phase \in Phases
    /\ phase = "failed" => error \in Names
    /\ phase # "failed" => error = Absent

LEMMA ErrorStep == ConfigInv /\ ErrorNamed /\ [ConfigNext]_configVars => ErrorNamed'
<1> SUFFICES ASSUME ConfigInv, ErrorNamed, [ConfigNext]_configVars PROVE ErrorNamed'
  OBVIOUS
<1> USE DEF ErrorNamed, Phases
<1>1. ASSUME NEW name \in Names, Fail(name) PROVE ErrorNamed'
  BY <1>1 DEF Fail
<1>2. CASE FromEnv
  BY <1>1, <1>2, ParseErrorNames DEF FromEnv
<1>3. CASE ResolveConfig
  BY <1>1, <1>3, ResolveErrorNames DEF ResolveConfig
<1>4. CASE BindAddr
  <2>1. "BIND_ADDR" \in Names
    BY DEF Names
  <2> QED
    BY <1>1, <1>4, <2>1 DEF BindAddr
<1>5. CASE NewFull
  <2>1. "STORE_PATH" \in Names
    BY DEF Names
  <2> QED
    BY <1>1, <1>5, <2>1 DEF NewFull
<1>6. CASE UNCHANGED configVars
  BY <1>6 DEF configVars
<1> QED
  BY <1>2, <1>3, <1>4, <1>5, <1>6 DEF ConfigNext

\* The phases run in order with numbers for every setting, and the process
\* gives up exactly with an error that names a setting, the store path or the
\* address: the first at fault in the order of validation.
THEOREM ConfigTypeCorrect == ConfigSpec => []ConfigTypeOK
<1>1. ConfigInit => ErrorNamed
  BY DEF ConfigInit, ErrorNamed, Phases
<1>2. ConfigInv /\ ErrorNamed => ConfigTypeOK
  <2> SUFFICES ASSUME ConfigInv, ErrorNamed PROVE ConfigTypeOK
    OBVIOUS
  <2>1. ASSUME Resolved PROVE cfg \in [Settings -> Nat]
    <3>1. cfg = [k \in Settings |-> Cap(k, Requested(k))]
      BY <2>1 DEF ConfigInv
    <3>2. \A k \in Settings : Requested(k) \in Nat
      BY <2>1, RequestedFacts DEF ConfigInv, Parsed, Resolved
    <3>3. \A k \in Settings : Cap(k, Requested(k)) \in Nat
      BY <3>2, CapFacts
    <3> QED
      BY <3>1, <3>3
  <2>2. Absent \notin Names
    BY ConfigAssumption DEF Names
  <2> QED
    BY <2>1, <2>2 DEF ConfigTypeOK, ErrorNamed, Phases, Resolved
<1> QED
  BY <1>1, <1>2, ErrorStep, ConfigInvariant, PTL DEF ConfigSpec

----------------------------------------------------------------------------
(* Processes on one database.                                              *)

\* The process has the listening socket from its bind to its end.
Exclusive ==
    \A p \in Procs : pc[p] \notin {"down", "refused"} => listener = p

\* What a process knows of the file is still true of it: the tables it has
\* made sure of, the marker it has read, the marker it has written.
KnowledgeHolds ==
    \A p \in Procs :
        /\ pc[p] \in {"check", "opened", "serve"} => TablesOf(Build[p]) \subseteq tables
        /\ pc[p] = "check" => stored[p] = marker
        /\ pc[p] \in {"opened", "serve"} => marker = Build[p]

MarkedTables == marker \in Nat => TablesOf(marker) \subseteq tables

\* The marker is at least every version that has served the file.
ServedMarked == \A v \in served : marker \in Nat /\ v <= marker

StartupInv ==
    /\ StartupTypeOK
    /\ Exclusive
    /\ KnowledgeHolds
    /\ MarkedTables
    /\ ServedMarked

\* An empty or spoilt file that nobody serves satisfies the invariant.
LEMMA StartupInitInv == StartupInit => StartupInv
BY StartupAssumption
   DEF StartupInit, StartupInv, StartupTypeOK, Exclusive, KnowledgeHolds,
       MarkedTables, ServedMarked

\* A version is a natural number.
LEMMA VersionsNat == Versions \subseteq Nat /\ \A p \in Procs : Build[p] \in Versions
BY StartupAssumption DEF Versions

\* The end of a process, planned or not, keeps the invariant.
LEMMA ExitKeeps ==
    ASSUME StartupInv, NEW p \in Procs, NEW how \in {"down", "refused"}, Exit(p, how)
    PROVE  StartupInv'
<1> USE StartupAssumption DEF Exit, StartupInv, file
<1>1. StartupTypeOK'
  BY DEF StartupTypeOK
<1>2. Exclusive'
  BY DEF StartupTypeOK, Exclusive
<1>3. KnowledgeHolds'
  BY DEF StartupTypeOK, KnowledgeHolds
<1>4. MarkedTables' /\ ServedMarked'
  BY DEF MarkedTables, ServedMarked
<1> QED BY <1>1, <1>2, <1>3, <1>4

\* Claiming the address: nobody else is past it.
LEMMA BindKeeps ==
    ASSUME StartupInv, NEW p \in Procs, Bind(p) PROVE StartupInv'
<1> USE StartupAssumption DEF Bind, StartupInv, file
<1>1. StartupTypeOK'
  BY DEF StartupTypeOK
<1>2. Exclusive'
  BY DEF StartupTypeOK, Exclusive
<1>3. KnowledgeHolds'
  BY DEF StartupTypeOK, KnowledgeHolds
<1>4. MarkedTables' /\ ServedMarked'
  BY DEF MarkedTables, ServedMarked
<1> QED BY <1>1, <1>2, <1>3, <1>4

\* A statement of the batch only adds to the file.
LEMMA CreateTableKeeps ==
    ASSUME StartupInv, NEW p \in Procs, CreateTable(p) PROVE StartupInv'
<1> USE DEF StartupInv
<1>1. PICK i \in DOMAIN Schema[Build[p]] : tables' = tables \cup {Schema[Build[p]][i]}
  BY DEF CreateTable
<1>2. Schema[Build[p]][i] \in TablesOf(Build[p]) /\ Build[p] \in Versions
  BY <1>1, VersionsNat DEF TablesOf
<1>3. UNCHANGED <<pc, listener, marker, stored, served>>
  BY DEF CreateTable
<1>4. tables' \subseteq UNION {TablesOf(v) : v \in Versions}
  BY <1>1, <1>2 DEF StartupTypeOK
<1>5. StartupTypeOK'
  BY <1>3, <1>4 DEF StartupTypeOK
<1>6. tables \subseteq tables'
  BY <1>1
<1>7. Exclusive' /\ KnowledgeHolds' /\ MarkedTables' /\ ServedMarked'
  BY <1>3, <1>6 DEF Exclusive, KnowledgeHolds, MarkedTables, ServedMarked
<1> QED BY <1>5, <1>7

\* Reading the marker: the batch is through.
LEMMA ReadMarkerKeeps ==
    ASSUME StartupInv, NEW p \in Procs, ReadMarker(p) PROVE StartupInv'
<1> USE StartupAssumption DEF ReadMarker, StartupInv, file
<1>1. StartupTypeOK'
  BY DEF StartupTypeOK
<1>2. Exclusive'
  BY DEF StartupTypeOK, Exclusive
<1>3. KnowledgeHolds'
  BY DEF StartupTypeOK, KnowledgeHolds
<1>4. MarkedTables' /\ ServedMarked'
  BY DEF MarkedTables, ServedMarked
<1> QED BY <1>1, <1>2, <1>3, <1>4

\* Writing the marker moves it forward, because what was read still holds,
\* and concerns nobody else, because nobody else has the address.
LEMMA MigrateKeeps ==
    ASSUME StartupInv, NEW p \in Procs, Migrate(p)
    PROVE  StartupInv' /\ (marker \in Nat => marker <= marker') /\ marker' \in Nat
<1> USE DEF StartupInv
<1>1. /\ pc[p] = "check" /\ marker' = Build[p]
      /\ pc' = [pc EXCEPT ![p] = "opened"]
      /\ UNCHANGED <<listener, tables, stored, served>>
  BY DEF Migrate, WriteSchemaVersion
<1>2. stored[p] = marker /\ TablesOf(Build[p]) \subseteq tables
  BY <1>1 DEF KnowledgeHolds
<1>3. marker = Null \/ (marker \in Nat /\ marker < Build[p])
  BY <1>2 DEF Migrate, Outdated
<1>4. marker' \in Nat /\ Build[p] \in Versions /\ (marker \in Nat => marker <= marker')
  BY <1>1, <1>3, VersionsNat, StartupAssumption
<1>5. \A q \in Procs \ {p} : pc[q] \in {"down", "refused"}
  <2> SUFFICES ASSUME NEW q \in Procs \ {p}, pc[q] \notin {"down", "refused"}
               PROVE FALSE
    OBVIOUS
  <2>1. listener = q /\ listener = p
    BY <1>1 DEF Exclusive
  <2> QED BY <2>1
<1>6. StartupTypeOK' /\ Exclusive'
  BY <1>1, <1>4 DEF StartupTypeOK, Exclusive
<1>7. KnowledgeHolds'
  <2> SUFFICES ASSUME NEW q \in Procs
               PROVE /\ pc'[q] \in {"check", "opened", "serve"} => TablesOf(Build[q]) \subseteq tables'
                     /\ pc'[q] = "check" => stored'[q] = marker'
                     /\ pc'[q] \in {"opened", "serve"} => marker' = Build[q]
    BY DEF KnowledgeHolds
  <2>1. CASE q = p
    BY <2>1, <1>1, <1>2 DEF StartupTypeOK
  <2>2. CASE q # p
    BY <2>2, <1>1, <1>5 DEF StartupTypeOK
  <2> QED BY <2>1, <2>2
<1>8. MarkedTables'
  BY <1>1, <1>2 DEF MarkedTables
<1>9. ServedMarked'
  BY <1>1, <1>3, <1>4, VersionsNat, StartupAssumption DEF ServedMarked, StartupTypeOK
<1> QED BY <1>4, <1>6, <1>7, <1>8, <1>9

\* The marker that was read is the binary's own.
LEMMA UpToDateKeeps ==
    ASSUME StartupInv, NEW p \in Procs, UpToDate(p) PROVE StartupInv'
<1> USE StartupAssumption DEF UpToDate, StartupInv, file
<1>1. StartupTypeOK'
  BY DEF StartupTypeOK
<1>2. Exclusive'
  BY DEF StartupTypeOK, Exclusive
<1>3. KnowledgeHolds'
  BY DEF StartupTypeOK, KnowledgeHolds
<1>4. MarkedTables' /\ ServedMarked'
  BY DEF MarkedTables, ServedMarked
<1> QED BY <1>1, <1>2, <1>3, <1>4

\* Serving starts on a file that carries the binary's own marker.
LEMMA ServeKeeps ==
    ASSUME StartupInv, NEW p \in Procs, Serve(p) PROVE StartupInv'
<1> USE StartupAssumption, VersionsNat DEF Serve, StartupInv, file
<1>1. StartupTypeOK'
  BY DEF StartupTypeOK
<1>2. Exclusive'
  BY DEF StartupTypeOK, Exclusive
<1>3. KnowledgeHolds'
  BY DEF StartupTypeOK, KnowledgeHolds
<1>4. marker = Build[p] /\ Build[p] \in Nat
  BY DEF KnowledgeHolds
<1>5. MarkedTables' /\ ServedMarked'
  BY <1>4 DEF MarkedTables, ServedMarked
<1> QED BY <1>1, <1>2, <1>3, <1>5

\* Every step keeps the invariant.
LEMMA StartupStep == StartupInv /\ [StartupNext]_startupVars => StartupInv'
<1> SUFFICES ASSUME StartupInv, [StartupNext]_startupVars PROVE StartupInv'
  OBVIOUS
<1>1. CASE UNCHANGED startupVars
  BY <1>1 DEF startupVars, StartupInv, StartupTypeOK, Exclusive, KnowledgeHolds,
              MarkedTables, ServedMarked
<1>2. CASE StartupNext
  <2> PICK p \in Procs : Bind(p) \/ Open(p) \/ Die(p)
    BY <1>2 DEF StartupNext
  <2>1. CASE Refuse(p) \/ Die(p)
    BY <2>1, ExitKeeps DEF Refuse, Die
  <2> QED BY <2>1, BindKeeps, CreateTableKeeps, ReadMarkerKeeps, MigrateKeeps,
             UpToDateKeeps, ServeKeeps DEF Open
<1> QED BY <1>1, <1>2

\* The invariant holds in every state.
THEOREM StartupInvariant == StartupSpec => []StartupInv
BY StartupInitInv, StartupStep, PTL DEF StartupSpec

\* Processes, socket and file keep their types.
THEOREM StartupTypeCorrect == StartupSpec => []StartupTypeOK
<1>1. StartupInv => StartupTypeOK
  BY DEF StartupInv
<1> QED BY <1>1, StartupInvariant, PTL

\* The file has the tables its marker and its server rely on.
THEOREM MarkerPromisesTables == StartupSpec => []MarkerMeansTables
<1>1. StartupInv => MarkerMeansTables
  BY DEF StartupInv, KnowledgeHolds, MarkedTables, MarkerMeansTables
<1> QED BY <1>1, StartupInvariant, PTL

\* No binary ever serves a file that a newer binary has served.
THEOREM DowngradeGuard == StartupSpec => []NoRollback
<1>1. StartupInv => NoRollback
  BY DEF StartupInv, KnowledgeHolds, ServedMarked, NoRollback
<1> QED BY <1>1, StartupInvariant, PTL

\* No step of any process takes the marker back.
THEOREM MarkerNeverGoesBack == StartupSpec => MarkerMonotone
<1>1. StartupInv /\ [StartupNext]_startupVars
        => [(marker \in Nat) => (marker' \in Nat /\ marker <= marker')]_startupVars
  <2> SUFFICES ASSUME StartupInv, StartupNext, marker \in Nat
               PROVE  marker' \in Nat /\ marker <= marker'
    OBVIOUS
  <2> PICK p \in Procs : Bind(p) \/ Open(p) \/ Die(p)
    BY DEF StartupNext
  <2>1. CASE Migrate(p)
    BY <2>1, MigrateKeeps
  <2>2. CASE ~Migrate(p)
    <3>1. marker' = marker
      BY <2>2 DEF Open, Bind, CreateTable, ReadMarker, UpToDate, Refuse, Serve, Die, Exit, file
    <3> QED BY <3>1
  <2> QED BY <2>1, <2>2
<1> QED BY <1>1, StartupInvariant, PTL DEF StartupSpec, MarkerMonotone

\* A binary leaves a newer file as it is: its tables are all there, and its
\* migration does not apply.
THEOREM NewerFilesAreSafe == StartupSpec => NewerFileUntouched
<1> DEFINE A == \A p \in Procs :
         (/\ pc[p] \notin {"down", "refused"}
          /\ marker \in Nat
          /\ marker > Build[p]) => UNCHANGED file
<1>1. StartupInv /\ [StartupNext]_startupVars => [A]_startupVars
  <2> SUFFICES ASSUME StartupInv, StartupNext, NEW p \in Procs,
                      pc[p] \notin {"down", "refused"}, marker \in Nat, marker > Build[p]
               PROVE  UNCHANGED file
    OBVIOUS
  <2> PICK q \in Procs : Bind(q) \/ Open(q) \/ Die(q)
    BY DEF StartupNext
  <2>1. listener = p /\ listener # Null
    BY StartupAssumption DEF StartupInv, Exclusive
  <2>2. CASE pc[q] \in {"down", "refused"}
    BY <2>1, <2>2 DEF Open, Bind, CreateTable, ReadMarker, Migrate, UpToDate, Refuse, Serve, Die
  <2>3. CASE pc[q] \notin {"down", "refused"}
    <3>1. q = p
      BY <2>1, <2>3 DEF StartupInv, Exclusive
    <3>2. Build[p] \in Versions /\ marker \in Versions /\ Build[p] <= marker
      BY VersionsNat, StartupAssumption DEF StartupInv, StartupTypeOK
    <3>3. TablesOf(Build[p]) \subseteq tables
      BY <3>2, StartupAssumption DEF StartupInv, MarkedTables
    <3>4. ~CreateTable(p)
      BY <3>3 DEF CreateTable, TablesOf
    <3>5. ~Migrate(p)
      BY <3>2, VersionsNat, StartupAssumption DEF StartupInv, KnowledgeHolds, Migrate, Outdated
    <3> QED BY <3>1, <3>4, <3>5, <2>3
            DEF Open, Bind, ReadMarker, UpToDate, Refuse, Serve, Die, Exit, file
  <2> QED BY <2>2, <2>3
<1> QED BY <1>1, StartupInvariant, PTL DEF StartupSpec, NewerFileUntouched
=============================================================================
