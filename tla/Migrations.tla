----------------------------- MODULE Migrations -----------------------------
(***************************************************************************)
(* The schema migration gate every instance of the server passes before it   *)
(* serves: it takes a session advisory lock, adopts a database that was       *)
(* created before there was a migration history, checks the history against   *)
(* its own binary, applies what is missing, each script in a transaction with *)
(* its record, and counts the records.  An instance may stop at any time,      *)
(* and its session, lock and open transaction with it.                       *)
(***************************************************************************)
EXTENDS Integers, Sequences, FiniteSets, FiniteSetsExt

CONSTANTS
    Servers,       \* instances of the server
    Embedded,      \* checksums of the scripts embedded in the binary of each, by version
    Fingerprints,  \* versions the schema of an old deployment shows: legacyChecks
    ReplaySafe,    \* versions it does not show, that may run again: isReplaySafeLegacyMigration
    Deployments,   \* versions in effect in databases from before the history
    NoServer

ASSUME MigrationsAssumption ==
    /\ \A s \in Servers : Embedded[s] \in Seq(STRING) /\ Len(Embedded[s]) > 0
    /\ 1 \in Fingerprints /\ Fingerprints \cup ReplaySafe \subseteq Nat /\ Fingerprints \cap ReplaySafe = {}
    /\ \A s \in Servers : Fingerprints \subseteq DOMAIN Embedded[s]
    /\ \A d \in Deployments : d \subseteq Fingerprints \cup ReplaySafe /\ (d = {} \/ 1 \in d)
    /\ \A v \in Fingerprints : 1..v \subseteq Fingerprints \cup ReplaySafe
    /\ NoServer \notin Servers

VARIABLES
    schema,   \* versions in effect
    recorded, \* schema_migrations: checksum by version, empty while the table is missing
    lockedBy, \* whose session holds the advisory lock
    server    \* the instances: phase, and the history or the fingerprints as read

migrationVars == <<schema, recorded, lockedBy, server>>

Versions(s) == DOMAIN Embedded[s]
Down == [phase |-> "down", applied |-> {}, detected |-> {}]
Moves(s, phase) == server' = [server EXCEPT ![s].phase = phase]
\* The lock goes with the end of the start, whichever it is.
Leaves(s, phase) == Moves(s, phase) /\ lockedBy' = NoServer

Begin(s) == server[s].phase = "down" /\ Moves(s, "waiting") /\ UNCHANGED <<schema, recorded, lockedBy>>
\* mutant: nobody waits for the lock.
NobodyWaits == TRUE
Unheld == lockedBy = NoServer
AcquireLock(s) ==
    /\ server[s].phase = "waiting" /\ Unheld
    /\ lockedBy' = s /\ Moves(s, "reading")
    /\ UNCHANGED <<schema, recorded>>

\* Recorded by this binary, without a gap but for what may run again.
ValidHistory(s, rows) ==
    /\ \A v \in DOMAIN rows : v \in Versions(s) /\ rows[v] = Embedded[s][v]
    /\ \A v \in 1..Max({0} \cup DOMAIN rows) : v \in DOMAIN rows \cup ReplaySafe
ReadApplied(s) ==
    /\ server[s].phase = "reading"
    /\ UNCHANGED <<schema, recorded>>
    /\ IF DOMAIN recorded = {} THEN Moves(s, "inspecting") /\ UNCHANGED lockedBy
       ELSE IF ValidHistory(s, recorded)
       THEN server' = [server EXCEPT ![s] = [@ EXCEPT !.phase = "applying", !.applied = DOMAIN recorded]] /\ UNCHANGED lockedBy
       ELSE Leaves(s, "refused")

\* What the schema shows of the scripts that made it.
Detected == schema \cap Fingerprints
\* Without a history: a new database, or one whose fingerprints have no gap.
Contiguous(found) == \A v \in found : \A u \in Fingerprints : u < v => u \in found
BootstrapLegacyDatabase(s) ==
    /\ server[s].phase = "inspecting"
    /\ UNCHANGED <<schema, recorded>>
    /\ IF 1 \notin schema THEN Moves(s, "applying") /\ UNCHANGED lockedBy
       ELSE IF Contiguous(Detected)
       THEN server' = [server EXCEPT ![s] = [@ EXCEPT !.phase = "baselining", !.detected = Detected]] /\ UNCHANGED lockedBy
       ELSE Leaves(s, "refused")
Recording(s, versions) ==
    recorded' = [v \in DOMAIN recorded \cup versions |-> IF v \in DOMAIN recorded THEN recorded[v] ELSE Embedded[s][v]]
\* The history is read again after.
Baseline(s) ==
    /\ server[s].phase = "baselining"
    /\ Recording(s, server[s].detected) /\ Moves(s, "reading")
    /\ UNCHANGED <<schema, lockedBy>>

Missing(s) == Versions(s) \ server[s].applied
\* A script finds what it builds on and, unless it may run again, not what it makes.
Executes(v) ==
    /\ v \notin schema \ ReplaySafe /\ v \notin DOMAIN recorded
    /\ 1..v - 1 \subseteq schema \cup ReplaySafe
\* mutant: the script commits before its record is written.
RecordedLater(s, v) == schema' = schema \cup {v} /\ UNCHANGED recorded
Committed(s, v) == schema' = schema \cup {v} /\ Recording(s, {v})
ApplyOne(s) ==
    /\ server[s].phase = "applying" /\ Missing(s) # {}
    /\ \E v \in Missing(s) :
       /\ \A later \in Missing(s) : v <= later
       /\ IF Executes(v)
          THEN Committed(s, v) /\ server' = [server EXCEPT ![s].applied = @ \cup {v}] /\ UNCHANGED lockedBy
          ELSE Leaves(s, "refused") /\ UNCHANGED <<schema, recorded>>
VerifyLatestState(s) ==
    /\ server[s].phase = "applying" /\ Missing(s) = {}
    /\ Leaves(s, IF Cardinality(DOMAIN recorded) = Len(Embedded[s]) THEN "serving" ELSE "refused")
    /\ UNCHANGED <<schema, recorded>>

\* The process ends, is stopped or runs out of its migration timeout.
StopServer(s) ==
    /\ server[s].phase # "down"
    /\ server' = [server EXCEPT ![s] = Down]
    /\ lockedBy' = IF lockedBy = s THEN NoServer ELSE lockedBy
    /\ UNCHANGED <<schema, recorded>>

MigrationInit ==
    /\ schema \in Deployments /\ recorded = <<>>
    /\ lockedBy = NoServer /\ server = [s \in Servers |-> Down]
MigrationNext ==
    \E s \in Servers :
        Begin(s) \/ AcquireLock(s) \/ ReadApplied(s) \/ BootstrapLegacyDatabase(s) \/ Baseline(s) \/ ApplyOne(s)
        \/ VerifyLatestState(s) \/ StopServer(s)
MigrationSpec == MigrationInit /\ [][MigrationNext]_migrationVars

-----------------------------------------------------------------------------
\* Wherever instances stop, and however many binaries start at once, a server in service finds every migration
\* of its binary in effect and recorded as embedded, and a history, once there is one, records what is in effect
\* but for what may run again (Migrate, "the API must never run against an older, partially upgraded,
\* checksum-mismatched, or newer-than-binary DB": main.go).
MigratedServes ==
    /\ \A s \in Servers : server[s].phase = "serving" =>
          \A v \in Versions(s) : v \in schema /\ v \in DOMAIN recorded /\ recorded[v] = Embedded[s][v]
    /\ DOMAIN recorded # {} => DOMAIN recorded \subseteq schema /\ schema \ DOMAIN recorded \subseteq ReplaySafe

\* No instance is refused because another starts or has stopped half-way: only for a database that its binary
\* does not know or that was put together by hand.
Unknown(s) ==
    \/ \E v \in DOMAIN recorded : v \notin Versions(s) \/ recorded[v] # Embedded[s][v]
    \/ DOMAIN recorded = {} /\ ~Contiguous(Detected)
RefusesOnlyUnknown ==
    [][\A s \in Servers : server'[s].phase = "refused" /\ server[s].phase # "refused" => Unknown(s)]_migrationVars
=============================================================================
