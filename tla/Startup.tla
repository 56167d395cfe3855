------------------------------ MODULE Startup ------------------------------
(***************************************************************************)
(* Starting the relay on a database file: main (src/main.rs) claims the    *)
(* listening address first and opens the store second; Store::open         *)
(* (src/store.rs) creates the tables, reads the schema marker, refuses a   *)
(* file of a newer binary and migrates one of an older.  Every statement   *)
(* commits by itself, and the process may die between any two of them, so  *)
(* binaries of several versions meet every half-opened file.               *)
(*                                                                         *)
(* All processes are configured for one address, as one service is.        *)
(***************************************************************************)
EXTENDS Integers, Sequences

CONSTANTS
    Procs,      \* server processes, each started any number of times
    Build,      \* the SCHEMA_VERSION each was compiled with
    Schema,     \* the tables and indexes of a version, in creation order
    Null,       \* no marker row; nobody listens
    Garbled     \* a marker that is no number

Versions == {Build[p] : p \in Procs}
TablesOf(v) == {Schema[v][i] : i \in DOMAIN Schema[v]}

ASSUME StartupAssumption ==
    /\ Build \in [Procs -> Nat]
    /\ \A v \in Versions : Schema[v] \in Seq(STRING)
    /\ \A v, w \in Versions : v <= w => TablesOf(v) \subseteq TablesOf(w)
    /\ Null \notin Nat \cup Procs \cup {Garbled}
    /\ Garbled \notin Nat

VARIABLES
    pc,         \* where each process is in main
    listener,   \* the process that holds the listening socket, or Null
    tables,     \* the file: its tables and indexes
    marker,     \* the file: meta.schema_version
    stored,     \* what each process has read of the marker
    served      \* history: the versions that have served this file

file == <<tables, marker>>
startupVars == <<pc, listener, tables, marker, stored, served>>

\* The process ends, and with it its socket.
Exit(p, how) ==
    /\ pc' = [pc EXCEPT ![p] = how]
    /\ listener' = IF listener = p THEN Null ELSE listener
    /\ stored' = [stored EXCEPT ![p] = Null]
    /\ UNCHANGED <<file, served>>

\* Mutation: the store is opened before the address is claimed.
BindLate(p) ==
    /\ pc[p] \in {"down", "refused"}
    /\ listener' = p
    /\ pc' = [pc EXCEPT ![p] = "create"]
    /\ UNCHANGED <<file, stored, served>>

\* A process whose configuration resolved claims the address; where another
\* one holds it, it exits with ERR_BIND_LISTEN and nothing has happened.
Bind(p) ==
    /\ pc[p] \in {"down", "refused"}
    /\ listener = Null
    /\ listener' = p
    /\ pc' = [pc EXCEPT ![p] = "create"]
    /\ UNCHANGED <<file, stored, served>>

\* Mutation: CREATE TABLE without IF NOT EXISTS: a half-made file is an error.
CreateTableStrict(p) ==
    /\ pc[p] = "create"
    /\ tables \cap TablesOf(Build[p]) = {}
    /\ tables' = tables \cup TablesOf(Build[p])
    /\ UNCHANGED <<pc, listener, marker, stored, served>>

\* One statement of the batch: the first table or index that is missing.
CreateTable(p) ==
    /\ pc[p] = "create"
    /\ \E i \in DOMAIN Schema[Build[p]] :
         /\ Schema[Build[p]][i] \notin tables
         /\ \A j \in DOMAIN Schema[Build[p]] : j < i => Schema[Build[p]][j] \in tables
         /\ tables' = tables \cup {Schema[Build[p]][i]}
    /\ UNCHANGED <<pc, listener, marker, stored, served>>

\* Mutation: the marker is looked at, and later advanced, before the batch.
ReadMarkerEarly(p) ==
    /\ pc[p] = "create"
    /\ stored' = [stored EXCEPT ![p] = marker]
    /\ pc' = [pc EXCEPT ![p] = "check"]
    /\ UNCHANGED <<listener, file, served>>

\* The batch is through; the marker is read before anything is written to it.
ReadMarker(p) ==
    /\ pc[p] = "create"
    /\ TablesOf(Build[p]) \subseteq tables
    /\ stored' = [stored EXCEPT ![p] = marker]
    /\ pc' = [pc EXCEPT ![p] = "check"]
    /\ UNCHANGED <<listener, file, served>>

\* Mutation: INSERT OR IGNORE: a marker that exists is never advanced.
WriteSchemaVersionIgnore(v) == marker' = IF marker = Null THEN v ELSE marker

\* The UPSERT of write_schema_version.
WriteSchemaVersion(v) == marker' = v

\* Mutation: every marker that is not this version's is rewritten.
OutdatedOrNewer(m, v) == m = Null \/ (m \in Nat /\ m # v)

\* A new file, or one an older binary has marked.
Outdated(m, v) == m = Null \/ (m \in Nat /\ m < v)

Migrate(p) ==
    /\ pc[p] = "check"
    /\ Outdated(stored[p], Build[p])
    /\ WriteSchemaVersion(Build[p])
    /\ pc' = [pc EXCEPT ![p] = "opened"]
    /\ UNCHANGED <<listener, tables, stored, served>>

UpToDate(p) ==
    /\ pc[p] = "check"
    /\ stored[p] = Build[p]
    /\ pc' = [pc EXCEPT ![p] = "opened"]
    /\ UNCHANGED <<listener, file, stored, served>>

\* ERR_STORE_VERSION: a newer binary's file, or a marker that does not parse.
Refuse(p) ==
    /\ pc[p] = "check"
    /\ stored[p] = Garbled \/ (stored[p] \in Nat /\ stored[p] > Build[p])
    /\ Exit(p, "refused")

\* axum::serve: from here on requests reach the file.
Serve(p) ==
    /\ pc[p] = "opened"
    /\ pc' = [pc EXCEPT ![p] = "serve"]
    /\ served' = served \cup {Build[p]}
    /\ UNCHANGED <<listener, file, stored>>

\* A crash, a kill, a failing statement or a runtime error, at any point.
Die(p) ==
    /\ pc[p] \notin {"down", "refused"}
    /\ Exit(p, "down")

\* A file that does not exist yet, or one whose marker something else spoilt.
StartupInit ==
    /\ pc = [p \in Procs |-> "down"]
    /\ listener = Null
    /\ tables = {}
    /\ marker \in {Null, Garbled}
    /\ stored = [p \in Procs |-> Null]
    /\ served = {}

\* What the process does by itself once it has the address.
Open(p) ==
    \/ CreateTable(p) \/ ReadMarker(p)
    \/ Migrate(p) \/ UpToDate(p) \/ Refuse(p) \/ Serve(p)

StartupNext == \E p \in Procs : Bind(p) \/ Open(p) \/ Die(p)

StartupSpec == StartupInit /\ [][StartupNext]_startupVars

\* main runs through; that anybody starts or stops it is not assumed.
StartupLive == StartupSpec /\ \A p \in Procs : WF_startupVars(Open(p))

----------------------------------------------------------------------------
(* Properties.                                                             *)

StartupTypeOK ==
    /\ pc \in [Procs -> {"down", "create", "check", "opened", "serve", "refused"}]
    /\ listener \in Procs \cup {Null}
    /\ tables \subseteq UNION {TablesOf(v) : v \in Versions}
    /\ marker \in Versions \cup {Null, Garbled}
    /\ stored \in [Procs -> Versions \cup {Null, Garbled}]
    /\ served \subseteq Versions

\* The marker never promises what the file lacks: whatever died half-way, a
\* file marked with a version has all tables of that version, and a process
\* that serves finds its own tables.
MarkerMeansTables ==
    /\ marker \in Nat => TablesOf(marker) \subseteq tables
    /\ \A p \in Procs : pc[p] = "serve" => TablesOf(Build[p]) \subseteq tables

\* The downgrade guard: no binary serves a file that a newer one has served
\* before, however many starts, crashes and versions came between.
NoRollback ==
    \A p \in Procs : pc[p] = "serve" => \A v \in served : v <= Build[p]

\* The marker only moves forward: no opening, in whatever order it meets the
\* others, takes a file back to an older version or to no version.
MarkerMonotone ==
    [][(marker \in Nat) => (marker' \in Nat /\ marker <= marker')]_startupVars

\* A binary that meets a newer file leaves it exactly as it found it: the
\* batch it runs before it looks at the marker has nothing left to create.
NewerFileUntouched ==
    [][\A p \in Procs :
         (/\ pc[p] \notin {"down", "refused"}
          /\ marker \in Nat
          /\ marker > Build[p]) => UNCHANGED file]_startupVars

\* No interrupted opening locks a file: a process that gets the address goes
\* on to serve, unless it is stopped or the marker is really not for it.
OpensUnlessNewer ==
    \A p \in Procs :
        (pc[p] = "create") ~>
            \/ pc[p] \in {"serve", "down"}
            \/ marker = Garbled
            \/ marker \in Nat /\ marker > Build[p]
=============================================================================
