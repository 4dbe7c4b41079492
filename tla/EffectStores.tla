---------------------------- MODULE EffectStores ----------------------------
(***************************************************************************)
(* The files of the durable effect ledger: prolog/rlm_effect_persist.pl's  *)
(* attaching of a journal to a process, its lock and its leases, and the   *)
(* offline migration of a journal of the first schema by                   *)
(* prolog/rlm_effect_migration.pl.  A process is a runtime, in which one   *)
(* journal is attached at a time, or a run of the command that migrates.   *)
(* Processes share nothing but files, and may die between any two steps.   *)
(* What the records of a journal say is module EffectLedger.               *)
(***************************************************************************)
EXTENDS Naturals, FiniteSets

CONSTANTS
    Runtime, Migrator,  \* processes
    Thread,             \* the executors of a runtime; also names of their records
    Legacy,             \* what a journal of the first schema holds
    Store,              \* the canonical paths of journals
    Source,             \* the one that is migrated
    None

ASSUME ProcessAssumption == Runtime \cap Migrator = {} /\ None \notin Runtime \cup Migrator
ASSUME StoreAssumption == Source \in Store /\ None \notin Store
ASSUME RecordAssumption == Legacy \cap Thread = {}

VARIABLES
    file,       \* the journal at each path
    staged,     \* the temporary journal beside it, of a migration to that path
    backup,     \* the copy that an in-place migration makes
    lock,       \* the process that holds the lock of each path's sidecar file
    step,       \* where each process is
    store,      \* a runtime's journal, a migration's destination
    snapshot,   \* the records a migration read
    ticket,     \* the store identity each executor goes by
    leases,     \* effect_store_lease/2 of each runtime: its executors with one
    legacy      \* the records the source had at first (not in the program)

disk == <<file, staged, backup>>
effects == <<ticket, leases>>
vars == <<disk, lock, step, store, snapshot, effects, legacy>>

Process == Runtime \cup Migrator
Record == Legacy \cup Thread

\* An identity is made by opening an empty store (a random one) or by a migration
\* (from the digest of the source and the destination).
Namespace == {"opened", "migrated"} \X Store

\* The facts of a journal: its records and, of effect_store_metadata/2 and
\* effect_migration_record/6, those that decide whether it can be opened.
Journal ==
    [records : SUBSET Record, namespace : Namespace \cup {None}, versioned : BOOLEAN,
     bound : Store \cup {None}]

ASSUME NoneAssumption == None \notin Namespace /\ None \notin Journal

Blank == [records |-> {}, namespace |-> None, versioned |-> FALSE, bound |-> None]

\* No file, which db_attach/2 reads as an empty journal.
Read(s) == IF file[s] = None THEN Blank ELSE file[s]

\* migration_schema/1 is v1 or empty, and validate_source_schema/2 agrees: a journal
\* whose first opening was cut short has an identity, and is refused.
Unversioned(s) == file[s] # None /\ ~file[s].versioned /\ file[s].namespace = None

RuntimeStep == {"closed", "locked", "named", "open"}
MigratorStep == {"idle", "begun", "checked", "ready", "copying", "copied", "staging", "valid",
                 "published"}

Step(p, at) == step' = [step EXCEPT ![p] = at]

Free(p) == [s \in Store |-> IF lock[s] = p THEN None ELSE lock[s]]

\* acquire_effect_store_lock/3: the lock of no other process is waited for.
Acquire(p, s) ==
    /\ lock[s] = None
    /\ lock' = [lock EXCEPT ![s] = p]

-----------------------------------------------------------------------------
(* A runtime.                                                              *)

\* effect_persist_open_locked/1, up to the lock: the journal attached before is
\* detached, which no lease may prevent.  The same file once more changes nothing.
Open(r, s) ==
    /\ step[r] = "closed" \/ (step[r] = "open" /\ store[r] # s /\ leases[r] = {})
    /\ lock[s] = None
    /\ lock' = [Free(r) EXCEPT ![s] = r]
    /\ Step(r, "locked")
    /\ store' = [store EXCEPT ![r] = s]
    /\ UNCHANGED <<disk, snapshot, effects, legacy>>

\* Another process has the lock: then nothing is attached.
OpenInVain(r, s) ==
    /\ step[r] = "open" /\ store[r] # s /\ leases[r] = {}
    /\ lock[s] # None
    /\ lock' = Free(r)
    /\ Step(r, "closed")
    /\ UNCHANGED <<disk, store, snapshot, effects, legacy>>

\* effect_persist_attach_locked/1: db_attach/2, and ensure_single_store_namespace/1.
\* Records without an identity are for the migration.
Attach(r) ==
    LET s == store[r] IN
    /\ step[r] = "locked"
    /\ \/ /\ Read(s).namespace = None /\ Read(s).records # {}
          /\ Step(r, "closed") /\ lock' = Free(r)
          /\ UNCHANGED file
       \/ /\ Read(s).namespace = None => Read(s).records = {}
          /\ file' = [file EXCEPT ![s] =
                [Read(s) EXCEPT !.namespace = IF @ = None THEN <<"opened", s>> ELSE @]]
          /\ Step(r, "named") /\ UNCHANGED lock
    /\ UNCHANGED <<staged, backup, store, snapshot, effects, legacy>>

\* ensure_schema_version/0 and ensure_migrated_path_binding/1: what was migrated for
\* another path is a copy.
Ensure(r) ==
    LET s == store[r] IN
    /\ step[r] = "named"
    /\ file' = [file EXCEPT ![s].versioned = TRUE]
    /\ \/ file[s].bound \in {None, s} /\ Step(r, "open") /\ UNCHANGED lock
       \/ file[s].bound \notin {None, s} /\ Step(r, "closed") /\ lock' = Free(r)
    /\ UNCHANGED <<staged, backup, store, snapshot, effects, legacy>>

\* effect_persist_close/0
Close(r) ==
    /\ step[r] = "open"
    /\ leases[r] = {}
    /\ Step(r, "closed")
    /\ lock' = Free(r)
    /\ UNCHANGED <<disk, store, snapshot, effects, legacy>>

\* An executor asks for the store's identity, with no mutex: rlm_effect_store_id/1.
Identify(r, t) ==
    /\ step[r] = "open" /\ t \notin leases[r]
    /\ ticket' = [ticket EXCEPT ![r][t] = file[store[r]].namespace]
    /\ UNCHANGED <<disk, lock, step, store, snapshot, leases, legacy>>

\* Mutant: it is not compared.
LeaseAny(r, t) ==
    /\ ticket[r][t] # None /\ t \notin leases[r]
    /\ \/ /\ step[r] = "open"
          /\ leases' = [leases EXCEPT ![r] = @ \cup {t}]
          /\ UNCHANGED ticket
       \/ /\ step[r] # "open"
          /\ ticket' = [ticket EXCEPT ![r][t] = None]
          /\ UNCHANGED leases
    /\ UNCHANGED <<disk, lock, step, store, snapshot, legacy>>

\* acquire_effect_lease_locked/2: the store attached now must be the one asked for.
Lease(r, t) ==
    /\ ticket[r][t] # None /\ t \notin leases[r]
    /\ step[r] \in {"open", "closed"}
    /\ \/ /\ step[r] = "open" /\ file[store[r]].namespace = ticket[r][t]
          /\ leases' = [leases EXCEPT ![r] = @ \cup {t}]
          /\ UNCHANGED ticket
       \/ /\ ~(step[r] = "open" /\ file[store[r]].namespace = ticket[r][t])
          /\ ticket' = [ticket EXCEPT ![r][t] = None]
          /\ UNCHANGED leases
    /\ UNCHANGED <<disk, lock, step, store, snapshot, legacy>>

\* effect_persist_release_lease/1
Release(r, t) ==
    /\ t \in leases[r]
    /\ leases' = [leases EXCEPT ![r] = @ \ {t}]
    /\ ticket' = [ticket EXCEPT ![r][t] = None]
    /\ UNCHANGED <<disk, lock, step, store, snapshot, legacy>>

\* The ledger appends a fact to the journal attached, under a lease or not.
Append(r, t) ==
    /\ step[r] = "open"
    /\ file' = [file EXCEPT ![store[r]].records = @ \cup {t}]
    /\ UNCHANGED <<staged, backup, lock, step, store, snapshot, effects, legacy>>

-----------------------------------------------------------------------------
(* A migration.                                                            *)

\* What it writes: write_migrated_locked/5.
Migrated(records, d) ==
    [records |-> records, namespace |-> <<"migrated", d>>, versioned |-> TRUE, bound |-> d]

\* Mutant: the lock goes with the journal that was read.
BeginUnlocked(m, d) ==
    /\ step[m] = "idle"
    /\ lock[Source] = None
    /\ Unversioned(Source)
    /\ Step(m, "begun")
    /\ store' = [store EXCEPT ![m] = d]
    /\ snapshot' = [snapshot EXCEPT ![m] = file[Source].records]
    /\ UNCHANGED <<disk, lock, effects, legacy>>

\* migrate_effect_store/3 up to the reading of the source, whose lock it keeps.  A
\* journal of schema two is reported to be migrated.
Begin(m, d) ==
    /\ step[m] = "idle"
    /\ Acquire(m, Source)
    /\ Unversioned(Source)
    /\ Step(m, "begun")
    /\ store' = [store EXCEPT ![m] = d]
    /\ snapshot' = [snapshot EXCEPT ![m] = file[Source].records]
    /\ UNCHANGED <<disk, effects, legacy>>

\* canonical_destination_preflight/3
Preflight(m) ==
    /\ step[m] = "begun"
    /\ IF store[m] = Source THEN backup = None ELSE file[store[m]] = None
    /\ Step(m, "checked")
    /\ UNCHANGED <<disk, lock, store, snapshot, effects, legacy>>

\* destination_lock/3
LockDestination(m) ==
    /\ step[m] = "checked"
    /\ \/ store[m] = Source /\ UNCHANGED lock
       \/ store[m] # Source /\ Acquire(m, store[m])
    /\ Step(m, "ready")
    /\ UNCHANGED <<disk, store, snapshot, effects, legacy>>

\* maybe_create_backup/3 begins to copy the source, in place only.
BeginBackup(m) ==
    /\ step[m] = "ready" /\ store[m] = Source
    /\ backup' = Blank
    /\ Step(m, "copying")
    /\ UNCHANGED <<file, staged, lock, store, snapshot, effects, legacy>>

\* The copy has the digest of the source.
EndBackup(m) ==
    /\ step[m] = "copying"
    /\ backup' = file[Source]
    /\ Step(m, "copied")
    /\ UNCHANGED <<file, staged, lock, store, snapshot, effects, legacy>>

\* cleanup_stale_temp/1, and the temporary journal is begun.
BeginStaging(m) ==
    /\ IF store[m] = Source THEN step[m] = "copied" ELSE step[m] = "ready"
    /\ staged' = [staged EXCEPT ![store[m]] = Blank]
    /\ Step(m, "staging")
    /\ UNCHANGED <<file, backup, lock, store, snapshot, effects, legacy>>

\* write_migrated_locked/5 writes it, fact by fact.
Stage(m) ==
    LET d == store[m] j == staged[d] IN
    /\ step[m] = "staging"
    /\ \/ \E x \in snapshot[m] \ j.records :
            staged' = [staged EXCEPT ![d].records = @ \cup {x}]
       \/ /\ j.records = snapshot[m] /\ j.namespace = None
          /\ staged' = [staged EXCEPT ![d].namespace = <<"migrated", d>>]
       \/ /\ j.namespace # None /\ ~j.versioned
          /\ staged' = [staged EXCEPT ![d].versioned = TRUE]
       \/ /\ j.versioned /\ j.bound = None
          /\ staged' = [staged EXCEPT ![d].bound = d]
    /\ UNCHANGED <<file, backup, lock, step, store, snapshot, effects, legacy>>

\* Mutant: it is not read again.
ValidateNothing(m) ==
    /\ step[m] = "staging"
    /\ Step(m, "valid")
    /\ UNCHANGED <<disk, lock, store, snapshot, effects, legacy>>

\* validate_staged_store/5 reads it again.
Validate(m) ==
    /\ step[m] = "staging"
    /\ staged[store[m]] = Migrated(snapshot[m], store[m])
    /\ Step(m, "valid")
    /\ UNCHANGED <<disk, lock, store, snapshot, effects, legacy>>

Rename(m) ==
    /\ step[m] = "valid"
    /\ file' = [file EXCEPT ![store[m]] = staged[store[m]]]
    /\ staged' = [staged EXCEPT ![store[m]] = None]
    /\ Step(m, "published")
    /\ UNCHANGED <<backup, lock, store, snapshot, effects, legacy>>

\* Mutant: a destination that was made meanwhile is replaced.
PublishOver(m) == Rename(m)

\* publish_destination/3
Publish(m) == (store[m] = Source \/ file[store[m]] = None) /\ Rename(m)

\* The migration returns: it succeeded, or one of its steps failed, which a step can
\* do at any time.  A temporary journal it began goes.
End(m) ==
    /\ step[m] # "idle"
    /\ staged' = IF step[m] \in {"staging", "valid", "published"}
                 THEN [staged EXCEPT ![store[m]] = None] ELSE staged
    /\ Step(m, "idle")
    /\ lock' = Free(m)
    /\ UNCHANGED <<file, backup, store, snapshot, effects, legacy>>

-----------------------------------------------------------------------------
(* The processes' surroundings.                                            *)

\* A process dies, or ends without closing its store: the system releases its locks,
\* the files stay.  It is begun anew.
Crash(p) ==
    /\ step[p] \notin {"closed", "idle"}
    /\ Step(p, IF p \in Runtime THEN "closed" ELSE "idle")
    /\ lock' = Free(p)
    /\ ticket' = [r \in Runtime |-> IF r = p THEN [t \in Thread |-> None] ELSE ticket[r]]
    /\ leases' = [r \in Runtime |-> IF r = p THEN {} ELSE leases[r]]
    /\ UNCHANGED <<disk, store, snapshot, legacy>>

\* An operator copies a journal nobody uses to a path where there is none.
Copy(s, d) ==
    /\ file[s] # None /\ file[d] = None
    /\ lock[s] = None /\ lock[d] = None
    /\ file' = [file EXCEPT ![d] = file[s]]
    /\ UNCHANGED <<staged, backup, lock, step, store, snapshot, effects, legacy>>

Init ==
    /\ legacy \in {Legacy, {}}
    /\ file = [s \in Store |-> IF s = Source THEN [Blank EXCEPT !.records = legacy] ELSE None]
    /\ staged = [s \in Store |-> None]
    /\ backup = None
    /\ lock = [s \in Store |-> None]
    /\ step = [p \in Process |-> IF p \in Runtime THEN "closed" ELSE "idle"]
    /\ store = [p \in Process |-> Source]
    /\ snapshot = [m \in Migrator |-> {}]
    /\ ticket = [r \in Runtime |-> [t \in Thread |-> None]]
    /\ leases = [r \in Runtime |-> {}]

Next ==
    \/ \E r \in Runtime :
          \/ Attach(r) \/ Ensure(r) \/ Close(r)
          \/ \E s \in Store : Open(r, s) \/ OpenInVain(r, s)
          \/ \E t \in Thread : Identify(r, t) \/ Lease(r, t) \/ Release(r, t) \/ Append(r, t)
    \/ \E m \in Migrator :
          \/ Preflight(m) \/ LockDestination(m) \/ BeginBackup(m) \/ EndBackup(m)
          \/ BeginStaging(m) \/ Stage(m) \/ Validate(m) \/ Publish(m) \/ End(m)
          \/ \E d \in Store : Begin(m, d)
    \/ \E p \in Process : Crash(p)
    \/ \E s, d \in Store : Copy(s, d)

Spec == Init /\ [][Next]_vars

-----------------------------------------------------------------------------
(* Properties.                                                             *)

\* The type of the variables.
TypeOK ==
    /\ file \in [Store -> Journal \cup {None}]
    /\ staged \in [Store -> Journal \cup {None}]
    /\ backup \in Journal \cup {None}
    /\ lock \in [Store -> Process \cup {None}]
    /\ step \in [Process -> RuntimeStep \cup MigratorStep]
    /\ \A r \in Runtime : step[r] \in RuntimeStep
    /\ \A m \in Migrator : step[m] \in MigratorStep
    /\ store \in [Process -> Store]
    /\ snapshot \in [Migrator -> SUBSET Record]
    /\ ticket \in [Runtime -> [Thread -> Namespace \cup {None}]]
    /\ leases \in [Runtime -> SUBSET Thread]
    /\ legacy \in SUBSET Record

\* Where a process reads a journal in order to write it or to replace it.
Uses(p, s) ==
    \/ p \in Runtime /\ step[p] \in {"named", "open"} /\ store[p] = s
    \/ p \in Migrator /\ step[p] # "idle" /\ s = Source
    \/ /\ p \in Migrator /\ s = store[p]
       /\ step[p] \in {"ready", "copying", "copied", "staging", "valid", "published"}

\* "The persistency journal is intentionally single-writer": rlm_effect_persist.pl:38.
\* No two processes use the journal at one path, and no two have journals attached
\* that carry one migrated identity, however they were copied.
SingleWriter ==
    \A p, q \in Process : p # q =>
        /\ \A s \in Store : ~(Uses(p, s) /\ Uses(q, s))
        /\ ~ /\ p \in Runtime /\ q \in Runtime /\ step[p] = "open" /\ step[q] = "open"
             /\ file[store[p]].namespace = file[store[q]].namespace
             /\ file[store[p]].namespace \in {"migrated"} \X Store

\* No record is ever lost from a journal at a canonical path: not by a migration that
\* replaces it, not to a file that was made there after the migration had looked, not
\* by a crash.
JournalsOnlyGrow ==
    [][\A s \in Store : file[s] # None =>
          file'[s] # None /\ file[s].records \subseteq file'[s].records]_vars

\* "A crash after publication leaves a complete v2 journal", "before in-place
\* publication ... the verified backup exists": docs/effect-migration.md:125.  A journal
\* with a migrated identity is complete, wherever it is, and what replaced its source
\* has left a backup of it.
MigrationIsWhole ==
    \A s \in Store : \A d \in Store :
        file[s] # None /\ file[s].namespace = <<"migrated", d>> =>
            /\ file[s].versioned /\ file[s].bound = d
            /\ legacy \subseteq file[s].records
            /\ d = Source => backup # None /\ backup.records = legacy /\ ~backup.versioned

\* While an executor has a lease, the store its effect was prepared for stays
\* attached, whatever is opened or closed meanwhile.
LeasePinsStore ==
    \A r \in Runtime : \A t \in leases[r] :
        step[r] = "open" /\ file[store[r]].namespace = ticket[r][t]
=============================================================================
