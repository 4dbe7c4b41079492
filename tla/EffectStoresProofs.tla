------------------------- MODULE EffectStoresProofs -------------------------
(***************************************************************************)
(* Theorems about EffectStores, for every set of processes, executors,     *)
(* paths and records: its types, that a journal has one writer, that no    *)
(* record is lost, that migrated journals are whole, and that leases pin   *)
(* their store.                                                            *)
(***************************************************************************)
EXTENDS EffectStores, TLAPS

\* The locks each process has taken, by where it is.
Holds(p, s) ==
    \/ p \in Runtime /\ step[p] \in {"locked", "named", "open"} /\ store[p] = s
    \/ p \in Migrator /\ step[p] # "idle" /\ s = Source
    \/ /\ p \in Migrator /\ s = store[p]
       /\ step[p] \in {"ready", "copying", "copied", "staging", "valid", "published"}

LockOK == \A p \in Process, s \in Store : Holds(p, s) => lock[s] = p

\* A runtime has checked what it attaches.
AttachedOK ==
    \A r \in Runtime :
        /\ step[r] \in {"named", "open"} =>
              file[store[r]] # None /\ file[store[r]].namespace # None
        /\ step[r] = "open" => file[store[r]].versioned /\ file[store[r]].bound \in {None, store[r]}

\* The source is there, and unchanged until it has the second schema.
SourceOK ==
    /\ file[Source] # None
    /\ legacy \subseteq file[Source].records
    /\ ~file[Source].versioned => file[Source].records = legacy

BackupOK == backup # None /\ backup.records = legacy /\ ~backup.versioned

\* Until it publishes, a migration has the source as it read it; then what it has
\* backed up and what it has validated.
MigrationOK ==
    \A m \in Migrator :
        /\ step[m] \in MigratorStep \ {"idle", "published"} =>
              ~file[Source].versioned /\ file[Source].records = snapshot[m]
        /\ step[m] \in {"copied", "staging", "valid"} /\ store[m] = Source => BackupOK
        /\ step[m] = "staging" => staged[store[m]] # None
        /\ step[m] = "valid" => staged[store[m]] = Migrated(snapshot[m], store[m])

\* A source migrated in place is not migrated again.
OnceInPlace ==
    \A s \in Store :
        file[s] # None /\ file[s].namespace = <<"migrated", Source>> => file[Source].versioned

IInv ==
    /\ TypeOK /\ LockOK /\ AttachedOK /\ SourceOK /\ MigrationOK /\ OnceInPlace
    /\ MigrationIsWhole /\ LeasePinsStore

-----------------------------------------------------------------------------
(* Journals.                                                               *)

\* What a path reads as is a journal.
LEMMA ReadIsJournal == ASSUME TypeOK, NEW s \in Store PROVE Read(s) \in Journal
BY DEF TypeOK, Read, Blank, Journal

\* What giving an identity, a schema or a record to a journal leaves of it.
LEMMA Naming ==
    ASSUME NEW j \in Journal, NEW n \in Namespace
    PROVE  LET k == [j EXCEPT !.namespace = IF @ = None THEN n ELSE @] IN
           /\ k \in Journal
           /\ k.namespace = IF j.namespace = None THEN n ELSE j.namespace
           /\ k.records = j.records /\ k.versioned = j.versioned /\ k.bound = j.bound
BY DEF Journal

LEMMA Versioning ==
    ASSUME NEW j \in Journal
    PROVE  LET k == [j EXCEPT !.versioned = TRUE] IN
           /\ k \in Journal /\ k.versioned
           /\ k.records = j.records /\ k.namespace = j.namespace /\ k.bound = j.bound
BY DEF Journal

LEMMA Recording ==
    ASSUME NEW j \in Journal, NEW x \in Record
    PROVE  LET k == [j EXCEPT !.records = @ \cup {x}] IN
           /\ k \in Journal /\ k.records = j.records \cup {x}
           /\ k.namespace = j.namespace /\ k.versioned = j.versioned /\ k.bound = j.bound
BY DEF Journal

LEMMA Binding ==
    ASSUME NEW j \in Journal, NEW d \in Store
    PROVE  [j EXCEPT !.bound = d] \in Journal /\ [j EXCEPT !.namespace = <<"migrated", d>>] \in Journal
BY DEF Journal, Namespace

-----------------------------------------------------------------------------
(* What the steps of a runtime do to the file of its store.                *)

\* An attached file has an identity; nothing else about it has changed.
LEMMA AttachFile ==
    ASSUME TypeOK, NEW r \in Runtime, Attach(r)
    PROVE  \/ file' = file /\ step'[r] = "closed" /\ lock' = Free(r)
           \/ /\ step'[r] = "named" /\ lock' = lock
              /\ \E k \in Journal :
                    /\ file' = [file EXCEPT ![store[r]] = k]
                    /\ k.records = Read(store[r]).records
                    /\ k.versioned = Read(store[r]).versioned
                    /\ k.bound = Read(store[r]).bound
                    /\ IF Read(store[r]).namespace = None
                       THEN k.namespace = <<"opened", store[r]>> /\ k.records = {}
                       ELSE k.namespace = Read(store[r]).namespace
<1>1. store[r] \in Store /\ step[r] = "locked" /\ step \in [Process -> RuntimeStep \cup MigratorStep]
  BY DEF TypeOK, Process, Attach
<1>2. Read(store[r]) \in Journal /\ <<"opened", store[r]>> \in Namespace
  BY <1>1, ReadIsJournal DEF Namespace
<1>3. CASE Read(store[r]).namespace = None /\ Read(store[r]).records # {}
  BY <1>1, <1>3 DEF Attach, Step, Process
<1>4. CASE Read(store[r]).namespace = None => Read(store[r]).records = {}
  <2>. DEFINE k == [Read(store[r]) EXCEPT
                      !.namespace = IF @ = None THEN <<"opened", store[r]>> ELSE @]
  <2>1. /\ k \in Journal
        /\ k.namespace = IF Read(store[r]).namespace = None
                         THEN <<"opened", store[r]>> ELSE Read(store[r]).namespace
        /\ k.records = Read(store[r]).records
        /\ k.versioned = Read(store[r]).versioned /\ k.bound = Read(store[r]).bound
    BY <1>2, Naming
  <2>2. file' = [file EXCEPT ![store[r]] = k] /\ step'[r] = "named" /\ lock' = lock
    BY <1>1, <1>4 DEF Attach, Step, Process
  <2>. QED BY <1>4, <2>1, <2>2
<1>. QED BY <1>3, <1>4

\* Its schema is ensured; then it is attached if it is not a copy.
LEMMA EnsureFile ==
    ASSUME TypeOK, AttachedOK, NEW r \in Runtime, Ensure(r)
    PROVE  \E k \in Journal :
              /\ file' = [file EXCEPT ![store[r]] = k] /\ file[store[r]] \in Journal
              /\ k.versioned /\ k.records = file[store[r]].records
              /\ k.namespace = file[store[r]].namespace /\ k.bound = file[store[r]].bound
<1>1. file[store[r]] \in Journal
  BY DEF TypeOK, AttachedOK, Ensure, Process
<1>2. file' = [file EXCEPT ![store[r]] = [file[store[r]] EXCEPT !.versioned = TRUE]]
  BY DEF Ensure
<1>. QED BY <1>1, <1>2, Versioning

\* A record; the rest stays.
LEMMA AppendFile ==
    ASSUME TypeOK, AttachedOK, NEW r \in Runtime, NEW t \in Thread, Append(r, t)
    PROVE  \E k \in Journal :
              /\ file' = [file EXCEPT ![store[r]] = k] /\ file[store[r]] \in Journal
              /\ k.records = file[store[r]].records \cup {t}
              /\ k.versioned = file[store[r]].versioned
              /\ k.namespace = file[store[r]].namespace /\ k.bound = file[store[r]].bound
<1>1. file[store[r]] \in Journal /\ t \in Record
  BY DEF TypeOK, AttachedOK, Append, Process, Record
<1>2. file' = [file EXCEPT ![store[r]] = [file[store[r]] EXCEPT !.records = @ \cup {t}]]
  BY DEF Append
<1>. QED BY <1>1, <1>2, Recording

\* A migration publishes what it validated.
LEMMA PublishFile ==
    ASSUME TypeOK, MigrationOK, NEW m \in Migrator, Publish(m)
    PROVE  LET j == Migrated(snapshot[m], store[m]) IN
           /\ j \in Journal
           /\ file' = [file EXCEPT ![store[m]] = j]
           /\ ~file[Source].versioned /\ file[Source].records = snapshot[m]
           /\ store[m] = Source => BackupOK
           /\ store[m] = Source \/ file[store[m]] = None
<1>1. store[m] \in Store /\ snapshot[m] \in SUBSET Record /\ step[m] = "valid"
  BY DEF TypeOK, Process, Publish, Rename
<1>2. staged[store[m]] = Migrated(snapshot[m], store[m])
  BY <1>1 DEF MigrationOK
<1>3. Migrated(snapshot[m], store[m]) \in Journal
  BY <1>1 DEF Migrated, Journal, Namespace
<1>. QED BY <1>1, <1>2, <1>3 DEF MigrationOK, MigratorStep, Publish, Rename

\* Only one process holds a lock.
LEMMA Exclusion ==
    ASSUME LockOK, NEW p \in Process, NEW q \in Process, NEW s \in Store,
           Holds(p, s), Holds(q, s)
    PROVE  p = q
BY DEF LockOK

\* Another process has another store than one that holds r's.
LEMMA Apart ==
    ASSUME LockOK, NEW p \in Process, NEW q \in Process, p # q,
           NEW s \in Store, Holds(p, s), NEW u \in Store, Holds(q, u)
    PROVE  s # u
BY DEF LockOK

\* What is attached has its lock, and so has what is migrated.
LEMMA AttachedHolds ==
    ASSUME TypeOK, NEW r \in Runtime, step[r] \in {"locked", "named", "open"}
    PROVE  r \in Process /\ store[r] \in Store /\ Holds(r, store[r])
BY DEF TypeOK, Process, Holds

LEMMA MigrationHolds ==
    ASSUME TypeOK, NEW m \in Migrator, step[m] # "idle"
    PROVE  /\ m \in Process /\ store[m] \in Store /\ Holds(m, Source)
           /\ step[m] \notin {"begun", "checked"} => Holds(m, store[m])
BY DEF TypeOK, Process, Holds, MigratorStep

\* What was checked at the attaching stays so, whatever others do.
LEMMA StepAttached == ASSUME IInv, [Next]_vars PROVE AttachedOK'
<1>. USE ProcessAssumption, StoreAssumption, NoneAssumption
<1>0. TypeOK /\ LockOK /\ AttachedOK /\ MigrationOK
  BY DEF IInv
<1>1. ASSUME NEW r \in Runtime, Attach(r) PROVE AttachedOK'
  <2>1. \A q \in Runtime \ {r} :
           step[q] \in {"named", "open"} => store[q] # store[r]
    BY <1>0, <1>1, AttachedHolds, Apart DEF Attach
  <2>2. /\ store' = store /\ store \in [Process -> Store] /\ step \in [Process -> RuntimeStep \cup MigratorStep]
        /\ \E at \in {"closed", "named"} : step' = [step EXCEPT ![r] = at]
    BY <1>0, <1>1, Zenon DEF Attach, Step, TypeOK
  <2>3. CASE file' = file /\ step'[r] = "closed"
    BY <1>0, <2>2, <2>3 DEF AttachedOK, Process
  <2>4. CASE step'[r] = "named"
    <3>1. PICK k \in Journal :
             /\ file' = [file EXCEPT ![store[r]] = k]
             /\ IF Read(store[r]).namespace = None
                THEN k.namespace = <<"opened", store[r]>>
                ELSE k.namespace = Read(store[r]).namespace
      BY <1>0, <1>1, <2>4, AttachFile
    <3>2. k # None /\ k.namespace # None
      <4>1. <<"opened", store[r]>> \in Namespace
        BY <2>2 DEF Namespace, Process
      <4>. QED BY <3>1, <4>1
    <3>. QED BY <1>0, <2>1, <2>2, <2>4, <3>1, <3>2 DEF AttachedOK, TypeOK, Process
  <2>. QED BY <1>0, <1>1, <2>3, <2>4, AttachFile
<1>2. ASSUME NEW r \in Runtime, Ensure(r) PROVE AttachedOK'
  <2>1. \A q \in Runtime \ {r} :
           step[q] \in {"named", "open"} => store[q] # store[r]
    BY <1>0, <1>2, AttachedHolds, Apart DEF Ensure
  <2>2. /\ store' = store /\ store \in [Process -> Store] /\ step \in [Process -> RuntimeStep \cup MigratorStep]
        /\ \/ step' = [step EXCEPT ![r] = "open"] /\ file[store[r]].bound \in {None, store[r]}
           \/ step' = [step EXCEPT ![r] = "closed"]
    BY <1>0, <1>2, Zenon DEF Ensure, Step, TypeOK
  <2>3. PICK k \in Journal :
           /\ file' = [file EXCEPT ![store[r]] = k]
           /\ k.versioned /\ k.bound = file[store[r]].bound
           /\ k.namespace = file[store[r]].namespace
    BY <1>0, <1>2, EnsureFile
  <2>4. step[r] = "named"
    BY <1>2 DEF Ensure
  <2>. QED BY <1>0, <2>1, <2>2, <2>3, <2>4 DEF AttachedOK, TypeOK, Process
<1>3. ASSUME NEW r \in Runtime, Close(r) PROVE AttachedOK'
  BY <1>0, <1>3 DEF Close, TypeOK, AttachedOK, Process, Step, disk, effects
<1>4. ASSUME NEW r \in Runtime, NEW s \in Store, Open(r, s) PROVE AttachedOK'
  BY <1>0, <1>4 DEF Open, TypeOK, AttachedOK, Process, Step, disk, effects
<1>5. ASSUME NEW r \in Runtime, NEW s \in Store, OpenInVain(r, s) PROVE AttachedOK'
  BY <1>0, <1>5 DEF OpenInVain, TypeOK, AttachedOK, Process, Step, disk, effects
<1>6. ASSUME NEW r \in Runtime, NEW t \in Thread, Identify(r, t) PROVE AttachedOK'
  BY <1>0, <1>6 DEF Identify, TypeOK, AttachedOK, Process, Step, disk, effects
<1>7. ASSUME NEW r \in Runtime, NEW t \in Thread, Lease(r, t) PROVE AttachedOK'
  BY <1>0, <1>7 DEF Lease, TypeOK, AttachedOK, Process, Step, disk, effects
<1>8. ASSUME NEW r \in Runtime, NEW t \in Thread, Release(r, t) PROVE AttachedOK'
  BY <1>0, <1>8 DEF Release, TypeOK, AttachedOK, Process, Step, disk, effects
<1>9. ASSUME NEW r \in Runtime, NEW t \in Thread, Append(r, t) PROVE AttachedOK'
  <2>1. \A q \in Runtime \ {r} :
           step[q] \in {"named", "open"} => store[q] # store[r]
    BY <1>0, <1>9, AttachedHolds, Apart DEF Append
  <2>2. PICK k \in Journal :
           /\ file' = [file EXCEPT ![store[r]] = k]
           /\ k.versioned = file[store[r]].versioned /\ k.bound = file[store[r]].bound
           /\ k.namespace = file[store[r]].namespace
    BY <1>0, <1>9, AppendFile
  <2>3. step[r] = "open" /\ UNCHANGED <<step, store>>
    BY <1>9 DEF Append
  <2>. QED BY <1>0, <2>1, <2>2, <2>3 DEF AttachedOK, TypeOK, Process
<1>10. ASSUME NEW m \in Migrator, Preflight(m) PROVE AttachedOK'
  BY <1>0, <1>10 DEF Preflight, TypeOK, AttachedOK, Process, Step, disk, effects
<1>11. ASSUME NEW m \in Migrator, LockDestination(m) PROVE AttachedOK'
  BY <1>0, <1>11 DEF LockDestination, TypeOK, AttachedOK, Process, Step, disk, effects
<1>12. ASSUME NEW m \in Migrator, BeginBackup(m) PROVE AttachedOK'
  BY <1>0, <1>12 DEF BeginBackup, TypeOK, AttachedOK, Process, Step, disk, effects
<1>13. ASSUME NEW m \in Migrator, EndBackup(m) PROVE AttachedOK'
  BY <1>0, <1>13 DEF EndBackup, TypeOK, AttachedOK, Process, Step, disk, effects
<1>14. ASSUME NEW m \in Migrator, BeginStaging(m) PROVE AttachedOK'
  BY <1>0, <1>14 DEF BeginStaging, TypeOK, AttachedOK, Process, Step, disk, effects
<1>15. ASSUME NEW m \in Migrator, Stage(m) PROVE AttachedOK'
  BY <1>0, <1>15 DEF Stage, TypeOK, AttachedOK, Process, Step, disk, effects
<1>16. ASSUME NEW m \in Migrator, Validate(m) PROVE AttachedOK'
  BY <1>0, <1>16 DEF Validate, TypeOK, AttachedOK, Process, Step, disk, effects
<1>17. ASSUME NEW m \in Migrator, Publish(m) PROVE AttachedOK'
  <2>1. \A q \in Runtime :
           step[q] \in {"named", "open"} => store[q] # store[m]
    BY <1>0, <1>17, AttachedHolds, MigrationHolds, Apart DEF Publish, Rename
  <2>2. file' = [file EXCEPT ![store[m]] = Migrated(snapshot[m], store[m])]
    BY <1>0, <1>17, PublishFile
  <2>3. step' = [step EXCEPT ![m] = "published"] /\ store' = store
    BY <1>17 DEF Publish, Rename, Step
  <2>. QED BY <1>0, <2>1, <2>2, <2>3 DEF AttachedOK, TypeOK, Process
<1>18. ASSUME NEW m \in Migrator, End(m) PROVE AttachedOK'
  BY <1>0, <1>18 DEF End, TypeOK, AttachedOK, Process, Step, disk, effects
<1>19. ASSUME NEW m \in Migrator, NEW d \in Store, Begin(m, d) PROVE AttachedOK'
  BY <1>0, <1>19 DEF Begin, TypeOK, AttachedOK, Process, Step, disk, effects
<1>20. ASSUME NEW p \in Process, Crash(p) PROVE AttachedOK'
  BY <1>0, <1>20 DEF Crash, TypeOK, AttachedOK, Process, Step, disk, effects
<1>21. ASSUME NEW s \in Store, NEW d \in Store, Copy(s, d) PROVE AttachedOK'
  <2>1. \A q \in Runtime : step[q] \in {"named", "open"} => lock[store[q]] = q
    BY <1>0, AttachedHolds DEF LockOK
  <2>. QED BY <1>0, <1>21, <2>1 DEF Copy, AttachedOK, TypeOK, Process
<1>22. CASE UNCHANGED vars
  BY <1>0, <1>22 DEF vars, disk, effects, TypeOK, AttachedOK, Process, Step, disk,
    effects
<1>. QED BY <1>1, <1>2, <1>3, <1>4, <1>5, <1>6, <1>7, <1>8, <1>9, <1>10, <1>11, <1>12,
    <1>13, <1>14, <1>15, <1>16, <1>17, <1>18, <1>19, <1>20, <1>21, <1>22 DEF Next

-----------------------------------------------------------------------------
(* What a step does to the file at a path: nothing, what a runtime that holds the path *)
(* does, the publication of a migration to it, or a copy where nothing was.             *)

RuntimeChange(j, k, s) ==
    /\ k \in Journal
    /\ j.records \subseteq k.records /\ (j.versioned \/ k.records = j.records)
    /\ j.versioned => k.versioned
    /\ k.bound = j.bound
    /\ k.namespace = IF j.namespace = None THEN <<"opened", s>> ELSE j.namespace

FileChange(s) ==
    \/ file'[s] = file[s]
    \/ \E r \in Runtime : Holds(r, s) /\ RuntimeChange(Read(s), file'[s], s)
    \/ \E m \in Migrator :
          /\ step[m] = "valid" /\ step'[m] = "published" /\ store[m] = s /\ backup' = backup
          /\ file'[s] = Migrated(snapshot[m], s) /\ (s = Source \/ file[s] = None)
    \/ /\ file[s] = None /\ lock[s] = None /\ backup' = backup
       /\ \E u \in Store : file[u] # None /\ file'[s] = file[u] /\ file'[u] = file[u]

\* Every step is one of these.
LEMMA FilesChange == ASSUME IInv, [Next]_vars PROVE \A x \in Store : FileChange(x)
<1>. USE ProcessAssumption, StoreAssumption
<1>0. TypeOK /\ AttachedOK /\ MigrationOK
  BY DEF IInv
<1>1. ASSUME NEW r \in Runtime, Attach(r) PROVE \A x \in Store : FileChange(x)
  <2>1. store[r] \in Store /\ Holds(r, store[r]) /\ file \in [Store -> Journal \cup {None}]
    BY <1>0, <1>1, AttachedHolds DEF Attach, TypeOK
  <2>2. CASE file' = file
    BY <2>2 DEF FileChange
  <2>3. CASE \E k \in Journal :
                /\ file' = [file EXCEPT ![store[r]] = k]
                /\ k.records = Read(store[r]).records
                /\ k.versioned = Read(store[r]).versioned
                /\ k.bound = Read(store[r]).bound
                /\ IF Read(store[r]).namespace = None
                   THEN k.namespace = <<"opened", store[r]>>
                   ELSE k.namespace = Read(store[r]).namespace
    BY <2>1, <2>3 DEF FileChange, RuntimeChange
  <2>. QED BY <1>0, <1>1, <2>2, <2>3, AttachFile
<1>2. ASSUME NEW r \in Runtime, Ensure(r) PROVE \A x \in Store : FileChange(x)
  <2>1. store[r] \in Store /\ Holds(r, store[r]) /\ file \in [Store -> Journal \cup {None}]
    BY <1>0, <1>2, AttachedHolds DEF Ensure, TypeOK
  <2>2. Read(store[r]) = file[store[r]] /\ file[store[r]].namespace # None
    BY <1>0, <1>2 DEF Read, AttachedOK, Ensure
  <2>3. PICK k \in Journal :
           /\ file' = [file EXCEPT ![store[r]] = k]
           /\ k.versioned /\ k.records = file[store[r]].records
           /\ k.namespace = file[store[r]].namespace /\ k.bound = file[store[r]].bound
    BY <1>0, <1>2, EnsureFile
  <2>4. file'[store[r]] = k
    BY <2>1, <2>3
  <2>5. RuntimeChange(Read(store[r]), file'[store[r]], store[r])
    BY <2>1, <2>2, <2>3, <2>4 DEF RuntimeChange
  <2>6. \A x \in Store : x = store[r] \/ file'[x] = file[x]
    BY <2>1, <2>3
  <2>. QED BY <2>1, <2>5, <2>6, Zenon DEF FileChange
<1>3. ASSUME NEW r \in Runtime, Close(r) PROVE \A x \in Store : FileChange(x)
  BY <1>3 DEF Close, disk, FileChange
<1>4. ASSUME NEW r \in Runtime, NEW s \in Store, Open(r, s) PROVE \A x \in Store : FileChange(x)
  BY <1>4 DEF Open, disk, FileChange
<1>5. ASSUME NEW r \in Runtime, NEW s \in Store, OpenInVain(r, s) PROVE \A x \in Store : FileChange(x)
  BY <1>5 DEF OpenInVain, disk, FileChange
<1>6. ASSUME NEW r \in Runtime, NEW t \in Thread, Identify(r, t) PROVE \A x \in Store : FileChange(x)
  BY <1>6 DEF Identify, disk, FileChange
<1>7. ASSUME NEW r \in Runtime, NEW t \in Thread, Lease(r, t) PROVE \A x \in Store : FileChange(x)
  BY <1>7 DEF Lease, disk, FileChange
<1>8. ASSUME NEW r \in Runtime, NEW t \in Thread, Release(r, t) PROVE \A x \in Store : FileChange(x)
  BY <1>8 DEF Release, disk, FileChange
<1>9. ASSUME NEW r \in Runtime, NEW t \in Thread, Append(r, t) PROVE \A x \in Store : FileChange(x)
  <2>1. store[r] \in Store /\ Holds(r, store[r]) /\ file \in [Store -> Journal \cup {None}]
    BY <1>0, <1>9, AttachedHolds DEF Append, TypeOK
  <2>2. /\ Read(store[r]) = file[store[r]] /\ file[store[r]].namespace # None
        /\ file[store[r]].versioned
    BY <1>0, <1>9 DEF Read, AttachedOK, Append
  <2>3. PICK k \in Journal :
           /\ file' = [file EXCEPT ![store[r]] = k]
           /\ k.records = file[store[r]].records \cup {t}
           /\ k.versioned = file[store[r]].versioned
           /\ k.namespace = file[store[r]].namespace /\ k.bound = file[store[r]].bound
    BY <1>0, <1>9, AppendFile
  <2>4. file'[store[r]] = k
    BY <2>1, <2>3
  <2>5. RuntimeChange(Read(store[r]), file'[store[r]], store[r])
    BY <2>1, <2>2, <2>3, <2>4 DEF RuntimeChange
  <2>6. \A x \in Store : x = store[r] \/ file'[x] = file[x]
    BY <2>1, <2>3
  <2>. QED BY <2>1, <2>5, <2>6, Zenon DEF FileChange
<1>10. ASSUME NEW m \in Migrator, Preflight(m) PROVE \A x \in Store : FileChange(x)
  BY <1>10 DEF Preflight, disk, FileChange
<1>11. ASSUME NEW m \in Migrator, LockDestination(m) PROVE \A x \in Store : FileChange(x)
  BY <1>11 DEF LockDestination, disk, FileChange
<1>12. ASSUME NEW m \in Migrator, BeginBackup(m) PROVE \A x \in Store : FileChange(x)
  BY <1>12 DEF BeginBackup, disk, FileChange
<1>13. ASSUME NEW m \in Migrator, EndBackup(m) PROVE \A x \in Store : FileChange(x)
  BY <1>13 DEF EndBackup, disk, FileChange
<1>14. ASSUME NEW m \in Migrator, BeginStaging(m) PROVE \A x \in Store : FileChange(x)
  BY <1>14 DEF BeginStaging, disk, FileChange
<1>15. ASSUME NEW m \in Migrator, Stage(m) PROVE \A x \in Store : FileChange(x)
  BY <1>15 DEF Stage, disk, FileChange
<1>16. ASSUME NEW m \in Migrator, Validate(m) PROVE \A x \in Store : FileChange(x)
  BY <1>16 DEF Validate, disk, FileChange
<1>17. ASSUME NEW m \in Migrator, Publish(m) PROVE \A x \in Store : FileChange(x)
  <2>1. store[m] \in Store /\ file \in [Store -> Journal \cup {None}]
    BY <1>0, <1>17 DEF TypeOK, Process
  <2>2. /\ step[m] = "valid" /\ step' = [step EXCEPT ![m] = "published"] /\ backup' = backup
    BY <1>17 DEF Publish, Rename, Step
  <2>3. /\ file' = [file EXCEPT ![store[m]] = Migrated(snapshot[m], store[m])]
        /\ store[m] = Source \/ file[store[m]] = None
    BY <1>0, <1>17, PublishFile
  <2>. QED BY <1>0, <2>1, <2>2, <2>3 DEF FileChange, TypeOK, Process
<1>18. ASSUME NEW m \in Migrator, End(m) PROVE \A x \in Store : FileChange(x)
  BY <1>18 DEF End, disk, FileChange
<1>19. ASSUME NEW m \in Migrator, NEW d \in Store, Begin(m, d) PROVE \A x \in Store : FileChange(x)
  BY <1>19 DEF Begin, disk, FileChange
<1>20. ASSUME NEW p \in Process, Crash(p) PROVE \A x \in Store : FileChange(x)
  BY <1>20 DEF Crash, Step, disk, FileChange
<1>21. ASSUME NEW s \in Store, NEW d \in Store, Copy(s, d) PROVE \A x \in Store : FileChange(x)
  BY <1>0, <1>21 DEF Copy, FileChange, TypeOK
<1>22. CASE UNCHANGED vars
  BY <1>22 DEF vars, disk, effects, FileChange
<1>. QED BY <1>1, <1>2, <1>3, <1>4, <1>5, <1>6, <1>7, <1>8, <1>9, <1>10, <1>11, <1>12,
    <1>13, <1>14, <1>15, <1>16, <1>17, <1>18, <1>19, <1>20, <1>21, <1>22 DEF Next

-----------------------------------------------------------------------------
(* What follows for the files, whatever the step.                          *)

\* Two migrations do not run at once.
LEMMA OneMigration ==
    ASSUME TypeOK, LockOK, NEW m \in Migrator, NEW n \in Migrator,
           step[m] # "idle", step[n] # "idle"
    PROVE  m = n
BY MigrationHolds, Exclusion, StoreAssumption

\* A migration has the source to itself.
LEMMA SourceKept ==
    ASSUME IInv, [Next]_vars, NEW m \in Migrator, step[m] # "idle",
           step[m] # "valid" \/ step'[m] # "published"
    PROVE  file'[Source] = file[Source]
<1>1. TypeOK /\ LockOK /\ Source \in Store /\ SourceOK
  BY StoreAssumption DEF IInv
<1>2. FileChange(Source)
  BY <1>1, FilesChange
<1>3. Holds(m, Source) /\ m \in Process
  BY <1>1, MigrationHolds
<1>4. ~ \E r \in Runtime : Holds(r, Source)
  BY <1>1, <1>3, Exclusion, ProcessAssumption DEF Process
<1>5. \A n \in Migrator : step[n] = "valid" => n = m
  BY <1>1, OneMigration
<1>. QED BY <1>1, <1>2, <1>4, <1>5 DEF FileChange, SourceOK

\* An attached journal keeps its identity.
LEMMA IdentityKept ==
    ASSUME IInv, [Next]_vars, NEW r \in Runtime, step[r] = "open"
    PROVE  file'[store[r]].namespace = file[store[r]].namespace
<1>. DEFINE s == store[r]
<1>1. TypeOK /\ LockOK /\ AttachedOK /\ s \in Store
  BY DEF IInv, TypeOK, Process
<1>2. r \in Process /\ Holds(r, s) /\ file[s] # None /\ file[s].namespace # None
  BY <1>1, AttachedHolds DEF AttachedOK
<1>3. FileChange(s)
  BY <1>1, FilesChange
<1>4. ~ \E m \in Migrator : step[m] = "valid" /\ store[m] = s
  BY <1>1, <1>2, MigrationHolds, Exclusion, ProcessAssumption
<1>. QED BY <1>2, <1>3, <1>4 DEF FileChange, RuntimeChange, Read

\* The backup is only written while the source has the first schema.
LEMMA BackupChange ==
    ASSUME IInv, [Next]_vars
    PROVE  backup' = backup \/ (file' = file /\ ~file[Source].versioned)
<1>1. ASSUME NEW m \in Migrator, BeginBackup(m) \/ EndBackup(m)
      PROVE  file' = file /\ ~file[Source].versioned
  BY <1>1 DEF IInv, MigrationOK, MigratorStep, BeginBackup, EndBackup
<1>2. ASSUME Next PROVE backup' = backup \/ \E m \in Migrator : BeginBackup(m) \/ EndBackup(m)
  BY <1>2 DEF Next, Attach, Ensure, Close, Open, OpenInVain, Identify, Lease, Release, Append,
    Preflight, LockDestination, BeginStaging, Stage, Validate, Publish, Rename, End, Begin, Crash,
    Copy, disk
<1>3. CASE UNCHANGED vars
  BY <1>3 DEF vars, disk
<1>. QED BY <1>1, <1>2, <1>3

\* What the source had at first is not a variable of the program.
LEMMA LegacyKept == ASSUME [Next]_vars PROVE legacy' = legacy
BY DEF Next, vars, Attach, Ensure, Close, Open, OpenInVain, Identify, Lease, Release, Append,
    Preflight, LockDestination, BeginBackup, EndBackup, BeginStaging, Stage, Validate, Publish,
    Rename, End, Begin, Crash, Copy

\* Each conjunct of IInv about files is preserved.
LEMMA StepSource == ASSUME IInv, [Next]_vars PROVE SourceOK'
<1>1. Source \in Store /\ TypeOK /\ SourceOK /\ MigrationOK
  BY StoreAssumption DEF IInv
<1>2. FileChange(Source) /\ legacy' = legacy
  BY <1>1, FilesChange, LegacyKept
<1>3. CASE \E r \in Runtime : RuntimeChange(Read(Source), file'[Source], Source)
  BY <1>1, <1>2, <1>3, NoneAssumption DEF SourceOK, RuntimeChange, Read
<1>4. ASSUME NEW m \in Migrator, step[m] = "valid", file'[Source] = Migrated(snapshot[m], Source)
      PROVE  SourceOK'
  <2>1. file[Source].records = snapshot[m] /\ snapshot[m] \in SUBSET Record
    BY <1>1, <1>4 DEF MigrationOK, MigratorStep, TypeOK
  <2>2. file'[Source] \in Journal
    BY <1>1, <1>4, <2>1 DEF Migrated, Journal, Namespace
  <2>3. file'[Source] # None
    BY <2>2, NoneAssumption
  <2>4. file'[Source].versioned /\ file'[Source].records = snapshot[m]
    BY <1>4 DEF Migrated
  <2>. QED BY <1>1, <1>2, <2>1, <2>3, <2>4 DEF SourceOK
<1>5. CASE file'[Source] = file[Source]
  BY <1>1, <1>2, <1>5 DEF SourceOK
<1>. QED BY <1>1, <1>2, <1>3, <1>4, <1>5 DEF FileChange, SourceOK

\* A migrated identity of the source is made from its first schema only.
LEMMA StepOnce == ASSUME IInv, [Next]_vars PROVE OnceInPlace'
<1>1. Source \in Store /\ TypeOK /\ SourceOK /\ OnceInPlace
  BY StoreAssumption DEF IInv
<1>2. file[Source].versioned => file'[Source].versioned
  <2>1. FileChange(Source)
    BY <1>1, FilesChange
  <2>2. CASE RuntimeChange(Read(Source), file'[Source], Source)
    BY <1>1, <2>2 DEF RuntimeChange, Read, SourceOK
  <2>3. CASE \E m \in Migrator : file'[Source] = Migrated(snapshot[m], Source)
    BY <2>3 DEF Migrated
  <2>. QED BY <1>1, <2>1, <2>2, <2>3 DEF FileChange, SourceOK
<1>3. SUFFICES ASSUME NEW s \in Store, file'[s] # None,
                      file'[s].namespace = <<"migrated", Source>>
               PROVE  file'[Source].versioned
  BY DEF OnceInPlace
<1>4. FileChange(s)
  BY FilesChange
<1>5. CASE RuntimeChange(Read(s), file'[s], s)
  <2>1. file[s] # None /\ file[s].namespace = <<"migrated", Source>>
    BY <1>3, <1>5 DEF RuntimeChange, Read, Blank
  <2>. QED BY <1>1, <1>2, <2>1 DEF OnceInPlace
<1>6. CASE \E m \in Migrator : file'[s] = Migrated(snapshot[m], s)
  BY <1>3, <1>6 DEF Migrated
<1>7. CASE \E u \in Store : file[u] # None /\ file'[s] = file[u]
  BY <1>1, <1>2, <1>3, <1>7 DEF OnceInPlace
<1>8. CASE file'[s] = file[s]
  BY <1>1, <1>2, <1>3, <1>8 DEF OnceInPlace
<1>. QED BY <1>4, <1>5, <1>6, <1>7, <1>8 DEF FileChange

\* Migrated journals come about whole and stay so.
LEMMA StepWhole == ASSUME IInv, [Next]_vars PROVE MigrationIsWhole'
<1>1. /\ Source \in Store /\ TypeOK /\ SourceOK /\ OnceInPlace /\ MigrationIsWhole
      /\ MigrationOK
  BY StoreAssumption DEF IInv
<1>2. SUFFICES ASSUME NEW s \in Store, NEW d \in Store, file'[s] # None,
                      file'[s].namespace = <<"migrated", d>>
               PROVE  /\ file'[s].versioned /\ file'[s].bound = d
                      /\ legacy \subseteq file'[s].records
                      /\ d = Source => BackupOK'
  BY LegacyKept DEF MigrationIsWhole, BackupOK
<1>3. ASSUME NEW u \in Store, file[u] # None, file[u].namespace = <<"migrated", d>>
      PROVE  /\ file[u].versioned /\ file[u].bound = d
             /\ legacy \subseteq file[u].records
             /\ d = Source => BackupOK'
  BY <1>1, <1>3, BackupChange, LegacyKept DEF MigrationIsWhole, BackupOK, OnceInPlace
<1>4. FileChange(s)
  BY FilesChange
<1>5. CASE RuntimeChange(Read(s), file'[s], s)
  <2>1. file[s] # None /\ file[s].namespace = <<"migrated", d>>
    BY <1>2, <1>5 DEF RuntimeChange, Read, Blank
  <2>. QED BY <1>3, <1>5, <2>1 DEF RuntimeChange, Read
<1>6. ASSUME NEW m \in Migrator, step[m] = "valid", store[m] = s, backup' = backup,
             file'[s] = Migrated(snapshot[m], s)
      PROVE  /\ file'[s].versioned /\ file'[s].bound = d
             /\ legacy \subseteq file'[s].records
             /\ d = Source => BackupOK'
  <2>1. d = s
    BY <1>2, <1>6 DEF Migrated
  <2>2. /\ legacy \subseteq snapshot[m]
        /\ s = Source => BackupOK
    BY <1>1, <1>6 DEF MigrationOK, SourceOK, MigratorStep
  <2>. QED BY <1>6, <2>1, <2>2, LegacyKept DEF Migrated, BackupOK
<1>7. CASE \E u \in Store : file[u] # None /\ file'[s] = file[u]
  BY <1>2, <1>3, <1>7
<1>8. CASE file'[s] = file[s]
  BY <1>2, <1>3, <1>8
<1>. QED BY <1>4, <1>5, <1>6, <1>7, <1>8 DEF FileChange

\* No step takes a record from a journal.
LEMMA StepGrow ==
    ASSUME IInv, [Next]_vars, NEW s \in Store, file[s] # None
    PROVE  file'[s] # None /\ file[s].records \subseteq file'[s].records
<1>1. FileChange(s) /\ TypeOK /\ MigrationOK
  BY FilesChange DEF IInv
<1>2. CASE RuntimeChange(Read(s), file'[s], s)
  BY <1>2, NoneAssumption DEF RuntimeChange, Read
<1>3. ASSUME NEW m \in Migrator, step[m] = "valid", s = Source,
             file'[s] = Migrated(snapshot[m], s)
      PROVE  file'[s] # None /\ file[s].records \subseteq file'[s].records
  <2>1. file[Source].records = snapshot[m] /\ snapshot[m] \in SUBSET Record
    BY <1>1, <1>3 DEF MigrationOK, MigratorStep, TypeOK
  <2>2. file'[s] \in Journal
    BY <1>3, <2>1 DEF Migrated, Journal, Namespace
  <2>3. file'[s] # None
    BY <2>2, NoneAssumption
  <2>4. file'[s].records = snapshot[m]
    BY <1>3 DEF Migrated
  <2>. QED BY <1>3, <2>1, <2>3, <2>4
<1>. QED BY <1>1, <1>2, <1>3 DEF FileChange

\* What the steps of others leave of a migration's progress.
MigrationKept ==
    /\ UNCHANGED <<staged, backup, snapshot, legacy>>
    /\ \A m \in Migrator : step'[m] = step[m] /\ store'[m] = store[m]

LEMMA KeptIsEnough == ASSUME IInv, [Next]_vars, MigrationKept PROVE MigrationOK'
<1>1. \A m \in Migrator : step[m] \in MigratorStep \ {"idle", "published"} =>
           file'[Source] = file[Source]
  BY SourceKept DEF MigrationKept, MigratorStep
<1>. QED BY <1>1 DEF IInv, MigrationOK, MigrationKept, BackupOK, MigratorStep

\* What a migration has read, copied and validated is still so at its next step.
LEMMA StepMigration == ASSUME IInv, [Next]_vars PROVE MigrationOK'
<1>. USE ProcessAssumption, StoreAssumption, NoneAssumption
<1>0. /\ TypeOK /\ LockOK /\ AttachedOK /\ MigrationOK /\ SourceOK
  BY DEF IInv
<1>1. ASSUME NEW r \in Runtime, Attach(r) PROVE MigrationOK'
  <2>1. /\ \E at \in RuntimeStep : step' = [step EXCEPT ![r] = at]
        /\ UNCHANGED <<staged, backup, store, snapshot, legacy>>
    BY <1>1, Zenon DEF Attach, Step, RuntimeStep
  <2>. QED BY <1>0, <2>1, KeptIsEnough DEF MigrationKept, TypeOK, Process
<1>2. ASSUME NEW r \in Runtime, Ensure(r) PROVE MigrationOK'
  <2>1. /\ \E at \in RuntimeStep : step' = [step EXCEPT ![r] = at]
        /\ UNCHANGED <<staged, backup, store, snapshot, legacy>>
    BY <1>2, Zenon DEF Ensure, Step, RuntimeStep
  <2>. QED BY <1>0, <2>1, KeptIsEnough DEF MigrationKept, TypeOK, Process
<1>3. ASSUME NEW r \in Runtime, Close(r) PROVE MigrationOK'
  BY <1>0, <1>3, KeptIsEnough DEF Close, Step, MigrationKept, TypeOK, Process, disk, effects
<1>4. ASSUME NEW r \in Runtime, NEW s \in Store, Open(r, s) PROVE MigrationOK'
  BY <1>0, <1>4, KeptIsEnough DEF Open, Step, MigrationKept, TypeOK, Process, disk, effects
<1>5. ASSUME NEW r \in Runtime, NEW s \in Store, OpenInVain(r, s) PROVE MigrationOK'
  BY <1>0, <1>5, KeptIsEnough DEF OpenInVain, Step, MigrationKept, TypeOK, Process, disk, effects
<1>6. ASSUME NEW r \in Runtime, NEW t \in Thread, Identify(r, t) PROVE MigrationOK'
  BY <1>0, <1>6, KeptIsEnough DEF Identify, Step, MigrationKept, TypeOK, Process, disk, effects
<1>7. ASSUME NEW r \in Runtime, NEW t \in Thread, Lease(r, t) PROVE MigrationOK'
  BY <1>0, <1>7, KeptIsEnough DEF Lease, Step, MigrationKept, TypeOK, Process, disk, effects
<1>8. ASSUME NEW r \in Runtime, NEW t \in Thread, Release(r, t) PROVE MigrationOK'
  BY <1>0, <1>8, KeptIsEnough DEF Release, Step, MigrationKept, TypeOK, Process, disk, effects
<1>9. ASSUME NEW r \in Runtime, NEW t \in Thread, Append(r, t) PROVE MigrationOK'
  BY <1>0, <1>9, KeptIsEnough DEF Append, Step, MigrationKept, TypeOK, Process, disk, effects
<1>10. ASSUME NEW m \in Migrator, Preflight(m) PROVE MigrationOK'
  <2>1. \A n \in Migrator \ {m} : step[n] = "idle"
    BY <1>0, <1>10, OneMigration DEF Preflight
  <2>2. file'[Source] = file[Source]
    BY <1>10 DEF Preflight, disk
  <2>. QED BY <1>0, <1>10, <2>1, <2>2 DEF Preflight, MigrationOK, TypeOK, Process, Step, MigratorStep
<1>11. ASSUME NEW m \in Migrator, LockDestination(m) PROVE MigrationOK'
  <2>1. \A n \in Migrator \ {m} : step[n] = "idle"
    BY <1>0, <1>11, OneMigration DEF LockDestination
  <2>2. file'[Source] = file[Source]
    BY <1>11 DEF LockDestination, disk
  <2>. QED BY <1>0, <1>11, <2>1, <2>2 DEF LockDestination, MigrationOK, TypeOK, Process, Step, MigratorStep
<1>12. ASSUME NEW m \in Migrator, BeginBackup(m) PROVE MigrationOK'
  <2>1. \A n \in Migrator \ {m} : step[n] = "idle"
    BY <1>0, <1>12, OneMigration DEF BeginBackup
  <2>2. file'[Source] = file[Source]
    BY <1>12 DEF BeginBackup, disk
  <2>. QED BY <1>0, <1>12, <2>1, <2>2 DEF BeginBackup, MigrationOK, TypeOK, Process, Step, MigratorStep
<1>13. ASSUME NEW m \in Migrator, EndBackup(m) PROVE MigrationOK'
  <2>1. \A n \in Migrator \ {m} : step[n] = "idle"
    BY <1>0, <1>13, OneMigration DEF EndBackup
  <2>2. file'[Source] = file[Source] /\ step[m] = "copying"
    BY <1>13 DEF EndBackup
  <2>3. BackupOK'
    BY <1>0, <1>13 DEF EndBackup, MigrationOK, MigratorStep, SourceOK, BackupOK
  <2>4. step' = [step EXCEPT ![m] = "copied"] /\ UNCHANGED <<staged, store, snapshot>>
    BY <1>13 DEF EndBackup, Step
  <2>5. step'[m] = "copied" /\ \A n \in Migrator \ {m} : step'[n] = "idle"
    BY <1>0, <2>1, <2>4 DEF TypeOK, Process
  <2>. QED BY <1>0, <2>2, <2>3, <2>4, <2>5 DEF MigrationOK, MigratorStep
<1>14. ASSUME NEW m \in Migrator, BeginStaging(m) PROVE MigrationOK'
  <2>1. \A n \in Migrator \ {m} : step[n] = "idle"
    BY <1>0, <1>14, OneMigration DEF BeginStaging
  <2>2. /\ UNCHANGED <<file, backup, store, snapshot, legacy>>
        /\ step' = [step EXCEPT ![m] = "staging"] /\ staged' = [staged EXCEPT ![store[m]] = Blank]
        /\ step[m] \in {"ready", "copied"} /\ (store[m] = Source => step[m] = "copied")
    BY <1>14 DEF BeginStaging, Step
  <2>3. staged'[store[m]] # None
    <3>1. Blank \in Journal
      BY DEF Blank, Journal
    <3>. QED BY <1>0, <2>2, <3>1 DEF TypeOK, Process
  <2>4. BackupOK => BackupOK'
    BY <2>2 DEF BackupOK
  <2>5. step'[m] = "staging" /\ \A n \in Migrator \ {m} : step'[n] = "idle"
    BY <1>0, <2>1, <2>2 DEF TypeOK, Process
  <2>. QED BY <1>0, <2>2, <2>3, <2>4, <2>5 DEF MigrationOK, MigratorStep
<1>15. ASSUME NEW m \in Migrator, Stage(m) PROVE MigrationOK'
  <2>1. \A n \in Migrator \ {m} : step[n] = "idle"
    BY <1>0, <1>15, OneMigration DEF Stage
  <2>2. /\ UNCHANGED <<file, backup, step, store, snapshot, legacy>> /\ step[m] = "staging"
        /\ \E j \in Journal : staged' = [staged EXCEPT ![store[m]] = j]
    <3>1. store[m] \in Store /\ staged[store[m]] \in Journal /\ snapshot[m] \subseteq Record
      BY <1>0, <1>15 DEF Stage, TypeOK, Process, MigrationOK
    <3>2. ASSUME NEW x \in Record
          PROVE  [staged[store[m]] EXCEPT !.records = @ \cup {x}] \in Journal
      BY <3>1, Recording
    <3>3. [staged[store[m]] EXCEPT !.versioned = TRUE] \in Journal
      BY <3>1, Versioning
    <3>4. /\ [staged[store[m]] EXCEPT !.namespace = <<"migrated", store[m]>>] \in Journal
          /\ [staged[store[m]] EXCEPT !.bound = store[m]] \in Journal
      BY <3>1, Binding
    <3>5. ASSUME NEW x \in snapshot[m] \ staged[store[m]].records,
                 staged' = [staged EXCEPT ![store[m]].records = @ \cup {x}]
          PROVE  \E j \in Journal : staged' = [staged EXCEPT ![store[m]] = j]
      BY <3>1, <3>2, <3>5
    <3>. QED BY <1>15, <3>3, <3>4, <3>5, Zenon DEF Stage
  <2>3. staged'[store[m]] # None
    BY <1>0, <2>2 DEF TypeOK, Process
  <2>4. BackupOK => BackupOK'
    BY <2>2 DEF BackupOK
  <2>5. /\ file' = file /\ store' = store /\ snapshot' = snapshot
        /\ step'[m] = "staging" /\ step[m] = "staging" /\ \A n \in Migrator \ {m} : step'[n] = "idle"
    BY <2>1, <2>2
  <2>. QED BY <1>0, <2>3, <2>4, <2>5 DEF MigrationOK, MigratorStep
<1>16. ASSUME NEW m \in Migrator, Validate(m) PROVE MigrationOK'
  <2>1. \A n \in Migrator \ {m} : step[n] = "idle"
    BY <1>0, <1>16, OneMigration DEF Validate
  <2>2. /\ UNCHANGED <<file, staged, backup, store, snapshot, legacy>>
        /\ step' = [step EXCEPT ![m] = "valid"] /\ step[m] = "staging"
        /\ staged[store[m]] = Migrated(snapshot[m], store[m])
    BY <1>16 DEF Validate, Step, disk
  <2>3. staged'[store'[m]] = Migrated(snapshot'[m], store'[m])
    BY <2>2
  <2>4. BackupOK => BackupOK'
    BY <2>2 DEF BackupOK
  <2>5. /\ file' = file /\ store' = store /\ snapshot' = snapshot
        /\ step'[m] = "valid" /\ \A n \in Migrator \ {m} : step'[n] = "idle"
    BY <1>0, <2>1, <2>2 DEF TypeOK, Process
  <2>. QED BY <1>0, <2>2, <2>3, <2>4, <2>5 DEF MigrationOK, MigratorStep
<1>17. ASSUME NEW m \in Migrator, Publish(m) PROVE MigrationOK'
  <2>1. \A n \in Migrator \ {m} : step[n] = "idle"
    BY <1>0, <1>17, OneMigration DEF Publish, Rename
  <2>2. step' = [step EXCEPT ![m] = "published"] /\ UNCHANGED <<store, backup, snapshot>>
    BY <1>17 DEF Publish, Rename, Step
  <2>. QED BY <1>0, <2>1, <2>2 DEF MigrationOK, TypeOK, Process, MigratorStep
<1>18. ASSUME NEW m \in Migrator, End(m) PROVE MigrationOK'
  <2>1. \A n \in Migrator \ {m} : step[n] = "idle"
    BY <1>0, <1>18, OneMigration DEF End
  <2>2. file'[Source] = file[Source]
    BY <1>18 DEF End, disk
  <2>. QED BY <1>0, <1>18, <2>1, <2>2 DEF End, MigrationOK, TypeOK, Process, Step, MigratorStep
<1>19. ASSUME NEW m \in Migrator, NEW d \in Store, Begin(m, d) PROVE MigrationOK'
  <2>1. \A n \in Migrator : step[n] = "idle"
    BY <1>0, <1>19, MigrationHolds DEF Begin, Acquire, LockOK, Process
  <2>. QED BY <1>0, <1>19, <2>1
         DEF Begin, Unversioned, MigrationOK, TypeOK, Process, Step, MigratorStep, disk
<1>20. ASSUME NEW p \in Process, Crash(p) PROVE MigrationOK'
  <2>1. CASE p \in Runtime
    BY <1>0, <1>20, <2>1, KeptIsEnough DEF Crash, Step, MigrationKept, TypeOK, Process, disk
  <2>2. CASE p \in Migrator
    <3>1. \A n \in Migrator : step'[n] = "idle"
      BY <1>0, <1>20, <2>2, OneMigration DEF Crash, Step, TypeOK, Process, MigratorStep
    <3>. QED BY <3>1 DEF MigrationOK, MigratorStep
  <2>. QED BY <2>1, <2>2 DEF Process
<1>21. ASSUME NEW s \in Store, NEW d \in Store, Copy(s, d) PROVE MigrationOK'
  BY <1>0, <1>21, KeptIsEnough DEF Copy, Step, MigrationKept, TypeOK, Process, disk, effects
<1>22. CASE UNCHANGED vars
  BY <1>0, <1>22 DEF vars, disk, effects, MigrationKept, MigrationOK, BackupOK
<1>. QED BY <1>1, <1>2, <1>3, <1>4, <1>5, <1>6, <1>7, <1>8, <1>9, <1>10, <1>11, <1>12,
    <1>13, <1>14, <1>15, <1>16, <1>17, <1>18, <1>19, <1>20, <1>21, <1>22 DEF Next

\* Leases and attached stores are left alone by most steps.
LEMMA LeasesKept ==
    ASSUME IInv, [Next]_vars, UNCHANGED effects,
           \A r \in Runtime : step'[r] = step[r] /\ store'[r] = store[r]
    PROVE  LeasePinsStore'
BY IdentityKept DEF IInv, LeasePinsStore, effects

\* No step detaches a store with leases.
LEMMA StepLeases == ASSUME IInv, [Next]_vars PROVE LeasePinsStore'
<1>. USE ProcessAssumption, StoreAssumption
<1>0. TypeOK /\ LeasePinsStore /\ IInv
  BY DEF IInv
<1>1. ASSUME NEW r \in Runtime, Attach(r) PROVE LeasePinsStore'
  <2>1. step[r] = "locked" /\ store' = store /\ UNCHANGED effects
    BY <1>1 DEF Attach
  <2>2. \E at \in RuntimeStep : step' = [step EXCEPT ![r] = at]
    BY <1>1, Zenon DEF Attach, Step, RuntimeStep
  <2>3. \A q \in Runtime : step[q] = "open" => file'[store[q]].namespace = file[store[q]].namespace
    BY <1>0, IdentityKept
  <2>. QED BY <1>0, <2>1, <2>2, <2>3 DEF TypeOK, LeasePinsStore, Process, effects
<1>2. ASSUME NEW r \in Runtime, Ensure(r) PROVE LeasePinsStore'
  <2>1. step[r] = "named" /\ store' = store /\ UNCHANGED effects
    BY <1>2 DEF Ensure
  <2>2. \E at \in RuntimeStep : step' = [step EXCEPT ![r] = at]
    BY <1>2, Zenon DEF Ensure, Step, RuntimeStep
  <2>3. \A q \in Runtime : step[q] = "open" => file'[store[q]].namespace = file[store[q]].namespace
    BY <1>0, IdentityKept
  <2>. QED BY <1>0, <2>1, <2>2, <2>3 DEF TypeOK, LeasePinsStore, Process, effects
<1>3. ASSUME NEW r \in Runtime, Close(r) PROVE LeasePinsStore'
  BY <1>0, <1>3 DEF Close, Step, TypeOK, LeasePinsStore, Process, disk, effects
<1>4. ASSUME NEW r \in Runtime, NEW s \in Store, Open(r, s) PROVE LeasePinsStore'
  <2>1. leases[r] = {}
    BY <1>0, <1>4 DEF Open, LeasePinsStore
  <2>. QED BY <1>0, <1>4, <2>1 DEF Open, Step, TypeOK, LeasePinsStore, Process, disk, effects
<1>5. ASSUME NEW r \in Runtime, NEW s \in Store, OpenInVain(r, s) PROVE LeasePinsStore'
  <2>1. leases[r] = {}
    BY <1>0, <1>5 DEF OpenInVain, LeasePinsStore
  <2>. QED BY <1>0, <1>5, <2>1 DEF OpenInVain, Step, TypeOK, LeasePinsStore, Process, disk, effects
<1>6. ASSUME NEW r \in Runtime, NEW t \in Thread, Identify(r, t) PROVE LeasePinsStore'
  BY <1>0, <1>6 DEF Identify, TypeOK, LeasePinsStore, Process, disk
<1>7. ASSUME NEW r \in Runtime, NEW t \in Thread, Lease(r, t) PROVE LeasePinsStore'
  <2>1. UNCHANGED <<file, step, store>>
    BY <1>7 DEF Lease, disk
  <2>2. CASE /\ leases' = [leases EXCEPT ![r] = @ \cup {t}] /\ UNCHANGED ticket
             /\ step[r] = "open" /\ file[store[r]].namespace = ticket[r][t]
    BY <1>0, <2>1, <2>2 DEF TypeOK, LeasePinsStore
  <2>3. CASE ticket' = [ticket EXCEPT ![r][t] = None] /\ UNCHANGED leases
    BY <1>0, <1>7, <2>1, <2>3 DEF Lease, TypeOK, LeasePinsStore
  <2>. QED BY <1>7, <2>2, <2>3, Zenon DEF Lease
<1>8. ASSUME NEW r \in Runtime, NEW t \in Thread, Release(r, t) PROVE LeasePinsStore'
  BY <1>0, <1>8 DEF Release, TypeOK, LeasePinsStore, disk
<1>9. ASSUME NEW r \in Runtime, NEW t \in Thread, Append(r, t) PROVE LeasePinsStore'
  BY <1>0, <1>9, LeasesKept DEF Append, effects
<1>10. ASSUME NEW m \in Migrator, Preflight(m) PROVE LeasePinsStore'
  BY <1>0, <1>10, LeasesKept DEF Preflight, Step, TypeOK, Process, disk, effects
<1>11. ASSUME NEW m \in Migrator, LockDestination(m) PROVE LeasePinsStore'
  BY <1>0, <1>11, LeasesKept DEF LockDestination, Step, TypeOK, Process, disk, effects
<1>12. ASSUME NEW m \in Migrator, BeginBackup(m) PROVE LeasePinsStore'
  BY <1>0, <1>12, LeasesKept DEF BeginBackup, Step, TypeOK, Process, disk, effects
<1>13. ASSUME NEW m \in Migrator, EndBackup(m) PROVE LeasePinsStore'
  BY <1>0, <1>13, LeasesKept DEF EndBackup, Step, TypeOK, Process, disk, effects
<1>14. ASSUME NEW m \in Migrator, BeginStaging(m) PROVE LeasePinsStore'
  BY <1>0, <1>14, LeasesKept DEF BeginStaging, Step, TypeOK, Process, disk, effects
<1>15. ASSUME NEW m \in Migrator, Stage(m) PROVE LeasePinsStore'
  BY <1>0, <1>15, LeasesKept DEF Stage, effects
<1>16. ASSUME NEW m \in Migrator, Validate(m) PROVE LeasePinsStore'
  BY <1>0, <1>16, LeasesKept DEF Validate, Step, TypeOK, Process, disk, effects
<1>17. ASSUME NEW m \in Migrator, Publish(m) PROVE LeasePinsStore'
  BY <1>0, <1>17, LeasesKept DEF Publish, Rename, Step, TypeOK, Process, effects
<1>18. ASSUME NEW m \in Migrator, End(m) PROVE LeasePinsStore'
  BY <1>0, <1>18, LeasesKept DEF End, Step, TypeOK, Process, disk, effects
<1>19. ASSUME NEW m \in Migrator, NEW d \in Store, Begin(m, d) PROVE LeasePinsStore'
  BY <1>0, <1>19, LeasesKept DEF Begin, Step, TypeOK, Process, disk, effects
<1>20. ASSUME NEW p \in Process, Crash(p) PROVE LeasePinsStore'
  <2>1. \A q \in Runtime \ {p} : step'[q] = step[q] /\ leases'[q] = leases[q] /\ ticket'[q] = ticket[q]
    BY <1>0, <1>20 DEF Crash, Step, TypeOK, Process
  <2>2. p \in Runtime => leases'[p] = {}
    BY <1>20 DEF Crash, Step
  <2>3. file' = file /\ store' = store
    BY <1>20 DEF Crash, Step, disk
  <2>. QED BY <1>0, <2>1, <2>2, <2>3 DEF LeasePinsStore
<1>21. ASSUME NEW s \in Store, NEW d \in Store, Copy(s, d) PROVE LeasePinsStore'
  BY <1>0, <1>21, LeasesKept DEF Copy, Step, TypeOK, Process, disk, effects
<1>22. CASE UNCHANGED vars
  BY <1>0, <1>22 DEF vars, disk, effects, LeasePinsStore
<1>. QED BY <1>1, <1>2, <1>3, <1>4, <1>5, <1>6, <1>7, <1>8, <1>9, <1>10, <1>11, <1>12,
    <1>13, <1>14, <1>15, <1>16, <1>17, <1>18, <1>19, <1>20, <1>21, <1>22 DEF Next

-----------------------------------------------------------------------------
(* The inductive invariant is preserved, one lemma for each conjunct.      *)

\* The types are preserved.
LEMMA StepTyping == ASSUME IInv, [Next]_vars PROVE TypeOK'
<1>. USE ProcessAssumption, StoreAssumption
<1>0. TypeOK /\ AttachedOK /\ MigrationOK /\ LockOK
  BY DEF IInv
<1>1. ASSUME NEW r \in Runtime, Attach(r) PROVE TypeOK'
  <2>1. file' \in [Store -> Journal \cup {None}]
    BY <1>0, <1>1, AttachFile DEF TypeOK
  <2>2. /\ \E at \in RuntimeStep : step' = [step EXCEPT ![r] = at]
        /\ lock' = lock \/ lock' = Free(r)
        /\ UNCHANGED <<staged, backup, store, snapshot, effects, legacy>>
    BY <1>1, Zenon DEF Attach, Step, RuntimeStep
  <2>. QED BY <1>0, <2>1, <2>2 DEF TypeOK, Process, Free, RuntimeStep, MigratorStep, effects
<1>2. ASSUME NEW r \in Runtime, Ensure(r) PROVE TypeOK'
  <2>1. file' \in [Store -> Journal \cup {None}]
    BY <1>0, <1>2, EnsureFile DEF TypeOK
  <2>2. /\ \E at \in RuntimeStep : step' = [step EXCEPT ![r] = at]
        /\ lock' = lock \/ lock' = Free(r)
        /\ UNCHANGED <<staged, backup, store, snapshot, effects, legacy>>
    BY <1>2, Zenon DEF Ensure, Step, RuntimeStep
  <2>. QED BY <1>0, <2>1, <2>2 DEF TypeOK, Process, Free, RuntimeStep, MigratorStep, effects
<1>3. ASSUME NEW r \in Runtime, Close(r) PROVE TypeOK'
  BY <1>0, <1>3 DEF Close, TypeOK, Process, Record, Step, Free, RuntimeStep,
    MigratorStep, disk, effects
<1>4. ASSUME NEW r \in Runtime, NEW s \in Store, Open(r, s) PROVE TypeOK'
  BY <1>0, <1>4 DEF Open, TypeOK, Process, Record, Step, Free, RuntimeStep,
    MigratorStep, disk, effects
<1>5. ASSUME NEW r \in Runtime, NEW s \in Store, OpenInVain(r, s) PROVE TypeOK'
  BY <1>0, <1>5 DEF OpenInVain, TypeOK, Process, Record, Step, Free, RuntimeStep,
    MigratorStep, disk, effects
<1>6. ASSUME NEW r \in Runtime, NEW t \in Thread, Identify(r, t) PROVE TypeOK'
  <2>1. file[store[r]].namespace \in Namespace
    BY <1>0, <1>6 DEF Identify, TypeOK, AttachedOK, Journal, Process
  <2>. QED BY <1>0, <1>6, <2>1 DEF Identify, TypeOK, disk
<1>7. ASSUME NEW r \in Runtime, NEW t \in Thread, Lease(r, t) PROVE TypeOK'
  <2>1. CASE leases' = [leases EXCEPT ![r] = @ \cup {t}] /\ UNCHANGED ticket
    BY <1>0, <1>7, <2>1 DEF Lease, TypeOK, disk
  <2>2. CASE ticket' = [ticket EXCEPT ![r][t] = None] /\ UNCHANGED leases
    BY <1>0, <1>7, <2>2 DEF Lease, TypeOK, disk
  <2>. QED BY <1>7, <2>1, <2>2, Zenon DEF Lease
<1>8. ASSUME NEW r \in Runtime, NEW t \in Thread, Release(r, t) PROVE TypeOK'
  BY <1>0, <1>8 DEF Release, TypeOK, Process, Record, Step, Free, RuntimeStep,
    MigratorStep, disk, effects
<1>9. ASSUME NEW r \in Runtime, NEW t \in Thread, Append(r, t) PROVE TypeOK'
  <2>1. file' \in [Store -> Journal \cup {None}]
    BY <1>0, <1>9, AppendFile DEF TypeOK
  <2>. QED BY <1>0, <1>9, <2>1 DEF Append, TypeOK, effects
<1>10. ASSUME NEW m \in Migrator, Preflight(m) PROVE TypeOK'
  BY <1>0, <1>10 DEF Preflight, TypeOK, Process, Record, Step, Free, RuntimeStep,
    MigratorStep, disk, effects
<1>11. ASSUME NEW m \in Migrator, LockDestination(m) PROVE TypeOK'
  BY <1>0, <1>11 DEF LockDestination, Acquire, TypeOK, Process, Record, Step, Free,
    RuntimeStep, MigratorStep, disk, effects
<1>12. ASSUME NEW m \in Migrator, BeginBackup(m) PROVE TypeOK'
  <2>1. Blank \in Journal
    BY DEF Blank, Journal
  <2>. QED BY <1>0, <1>12, <2>1 DEF BeginBackup, TypeOK, Process, Step, MigratorStep, effects
<1>13. ASSUME NEW m \in Migrator, EndBackup(m) PROVE TypeOK'
  BY <1>0, <1>13 DEF EndBackup, TypeOK, Process, Record, Step, Free, RuntimeStep,
    MigratorStep, disk, effects
<1>14. ASSUME NEW m \in Migrator, BeginStaging(m) PROVE TypeOK'
  <2>1. Blank \in Journal
    BY DEF Blank, Journal
  <2>. QED BY <1>0, <1>14, <2>1 DEF BeginStaging, TypeOK, Process, Step, MigratorStep, effects
<1>15. ASSUME NEW m \in Migrator, Stage(m) PROVE TypeOK'
  <2>. DEFINE d == store[m]
  <2>1. d \in Store /\ staged[d] \in Journal /\ snapshot[m] \subseteq Record
    BY <1>0, <1>15 DEF Stage, TypeOK, Process, MigrationOK
  <2>2. ASSUME NEW x \in Record PROVE [staged[d] EXCEPT !.records = @ \cup {x}] \in Journal
    BY <2>1, Recording
  <2>3. [staged[d] EXCEPT !.versioned = TRUE] \in Journal
    BY <2>1, Versioning
  <2>4. /\ [staged[d] EXCEPT !.namespace = <<"migrated", d>>] \in Journal
        /\ [staged[d] EXCEPT !.bound = d] \in Journal
    BY <2>1, Binding
  <2>5. staged' \in [Store -> Journal \cup {None}]
    <3>1. CASE \E x \in snapshot[m] \ staged[d].records :
                  staged' = [staged EXCEPT ![d].records = @ \cup {x}]
      BY <1>0, <2>1, <2>2, <3>1 DEF TypeOK
    <3>2. CASE staged' = [staged EXCEPT ![d].namespace = <<"migrated", d>>]
      BY <1>0, <2>1, <2>4, <3>2 DEF TypeOK
    <3>3. CASE staged' = [staged EXCEPT ![d].versioned = TRUE]
      BY <1>0, <2>1, <2>3, <3>3 DEF TypeOK
    <3>4. CASE staged' = [staged EXCEPT ![d].bound = d]
      BY <1>0, <2>1, <2>4, <3>4 DEF TypeOK
    <3>. QED BY <1>15, <3>1, <3>2, <3>3, <3>4, Zenon DEF Stage
  <2>. QED BY <1>0, <1>15, <2>5 DEF Stage, TypeOK, effects
<1>16. ASSUME NEW m \in Migrator, Validate(m) PROVE TypeOK'
  BY <1>0, <1>16 DEF Validate, TypeOK, Process, Record, Step, Free, RuntimeStep,
    MigratorStep, disk, effects
<1>17. ASSUME NEW m \in Migrator, Publish(m) PROVE TypeOK'
  BY <1>0, <1>17, PublishFile DEF Publish, Rename, TypeOK, Process, Record, Step, Free,
    RuntimeStep, MigratorStep, disk, effects
<1>18. ASSUME NEW m \in Migrator, End(m) PROVE TypeOK'
  BY <1>0, <1>18 DEF End, TypeOK, Process, Record, Step, Free, RuntimeStep,
    MigratorStep, disk, effects
<1>19. ASSUME NEW m \in Migrator, NEW d \in Store, Begin(m, d) PROVE TypeOK'
  BY <1>0, <1>19 DEF Begin, Acquire, Unversioned, Journal, TypeOK, Process, Record,
    Step, Free, RuntimeStep, MigratorStep, disk, effects
<1>20. ASSUME NEW p \in Process, Crash(p) PROVE TypeOK'
  BY <1>0, <1>20 DEF Crash, TypeOK, Process, Record, Step, Free, RuntimeStep,
    MigratorStep, disk, effects
<1>21. ASSUME NEW s \in Store, NEW d \in Store, Copy(s, d) PROVE TypeOK'
  BY <1>0, <1>21 DEF Copy, TypeOK, Process, Record, Step, Free, RuntimeStep,
    MigratorStep, disk, effects
<1>22. CASE UNCHANGED vars
  BY <1>0, <1>22 DEF vars, disk, effects, TypeOK, Process, Record, Step, Free,
    RuntimeStep, MigratorStep, disk, effects
<1>. QED BY <1>1, <1>2, <1>3, <1>4, <1>5, <1>6, <1>7, <1>8, <1>9, <1>10, <1>11, <1>12,
    <1>13, <1>14, <1>15, <1>16, <1>17, <1>18, <1>19, <1>20, <1>21, <1>22 DEF Next

\* The locks are kept as long as they are needed.
LEMMA StepLocks == ASSUME IInv, [Next]_vars PROVE LockOK'
<1>. USE ProcessAssumption, StoreAssumption
<1>0. TypeOK /\ LockOK
  BY DEF IInv
<1>1. ASSUME NEW r \in Runtime, Attach(r) PROVE LockOK'
  <2>1. /\ \/ step' = [step EXCEPT ![r] = "named"] /\ lock' = lock
           \/ step' = [step EXCEPT ![r] = "closed"] /\ lock' = Free(r)
        /\ step[r] = "locked" /\ store' = store
    BY <1>1, Zenon DEF Attach, Step
  <2>. QED BY <1>0, <2>1 DEF TypeOK, LockOK, Holds, Process, Free, RuntimeStep, MigratorStep
<1>2. ASSUME NEW r \in Runtime, Ensure(r) PROVE LockOK'
  <2>1. /\ \/ step' = [step EXCEPT ![r] = "open"] /\ lock' = lock
           \/ step' = [step EXCEPT ![r] = "closed"] /\ lock' = Free(r)
        /\ step[r] = "named" /\ store' = store
    BY <1>2, Zenon DEF Ensure, Step
  <2>. QED BY <1>0, <2>1 DEF TypeOK, LockOK, Holds, Process, Free, RuntimeStep, MigratorStep
<1>3. ASSUME NEW r \in Runtime, Close(r) PROVE LockOK'
  BY <1>0, <1>3 DEF Close, TypeOK, LockOK, Holds, Process, Step, Free, RuntimeStep,
    MigratorStep, disk, effects
<1>4. ASSUME NEW r \in Runtime, NEW s \in Store, Open(r, s) PROVE LockOK'
  BY <1>0, <1>4 DEF Open, TypeOK, LockOK, Holds, Process, Step, Free, RuntimeStep,
    MigratorStep, disk, effects
<1>5. ASSUME NEW r \in Runtime, NEW s \in Store, OpenInVain(r, s) PROVE LockOK'
  BY <1>0, <1>5 DEF OpenInVain, TypeOK, LockOK, Holds, Process, Step, Free, RuntimeStep,
    MigratorStep, disk, effects
<1>6. ASSUME NEW r \in Runtime, NEW t \in Thread, Identify(r, t) PROVE LockOK'
  BY <1>0, <1>6 DEF Identify, TypeOK, LockOK, Holds, Process, Step, Free, RuntimeStep,
    MigratorStep, disk, effects
<1>7. ASSUME NEW r \in Runtime, NEW t \in Thread, Lease(r, t) PROVE LockOK'
  BY <1>0, <1>7 DEF Lease, TypeOK, LockOK, Holds, Process, Step, Free, RuntimeStep,
    MigratorStep, disk, effects
<1>8. ASSUME NEW r \in Runtime, NEW t \in Thread, Release(r, t) PROVE LockOK'
  BY <1>0, <1>8 DEF Release, TypeOK, LockOK, Holds, Process, Step, Free, RuntimeStep,
    MigratorStep, disk, effects
<1>9. ASSUME NEW r \in Runtime, NEW t \in Thread, Append(r, t) PROVE LockOK'
  BY <1>0, <1>9 DEF Append, TypeOK, LockOK, Holds, Process, Step, Free, RuntimeStep,
    MigratorStep, disk, effects
<1>10. ASSUME NEW m \in Migrator, Preflight(m) PROVE LockOK'
  BY <1>0, <1>10 DEF Preflight, TypeOK, LockOK, Holds, Process, Step, Free, RuntimeStep,
    MigratorStep, disk, effects
<1>11. ASSUME NEW m \in Migrator, LockDestination(m) PROVE LockOK'
  BY <1>0, <1>11 DEF LockDestination, Acquire, TypeOK, LockOK, Holds, Process, Step,
    Free, RuntimeStep, MigratorStep, disk, effects
<1>12. ASSUME NEW m \in Migrator, BeginBackup(m) PROVE LockOK'
  BY <1>0, <1>12 DEF BeginBackup, TypeOK, LockOK, Holds, Process, Step, Free,
    RuntimeStep, MigratorStep, disk, effects
<1>13. ASSUME NEW m \in Migrator, EndBackup(m) PROVE LockOK'
  BY <1>0, <1>13 DEF EndBackup, TypeOK, LockOK, Holds, Process, Step, Free, RuntimeStep,
    MigratorStep, disk, effects
<1>14. ASSUME NEW m \in Migrator, BeginStaging(m) PROVE LockOK'
  BY <1>0, <1>14 DEF BeginStaging, TypeOK, LockOK, Holds, Process, Step, Free,
    RuntimeStep, MigratorStep, disk, effects
<1>15. ASSUME NEW m \in Migrator, Stage(m) PROVE LockOK'
  BY <1>0, <1>15 DEF Stage, TypeOK, LockOK, Holds, Process, Step, Free, RuntimeStep,
    MigratorStep, disk, effects
<1>16. ASSUME NEW m \in Migrator, Validate(m) PROVE LockOK'
  BY <1>0, <1>16 DEF Validate, TypeOK, LockOK, Holds, Process, Step, Free, RuntimeStep,
    MigratorStep, disk, effects
<1>17. ASSUME NEW m \in Migrator, Publish(m) PROVE LockOK'
  BY <1>0, <1>17 DEF Publish, Rename, TypeOK, LockOK, Holds, Process, Step, Free,
    RuntimeStep, MigratorStep, disk, effects
<1>18. ASSUME NEW m \in Migrator, End(m) PROVE LockOK'
  BY <1>0, <1>18 DEF End, TypeOK, LockOK, Holds, Process, Step, Free, RuntimeStep,
    MigratorStep, disk, effects
<1>19. ASSUME NEW m \in Migrator, NEW d \in Store, Begin(m, d) PROVE LockOK'
  BY <1>0, <1>19 DEF Begin, Acquire, TypeOK, LockOK, Holds, Process, Step, Free,
    RuntimeStep, MigratorStep, disk, effects
<1>20. ASSUME NEW p \in Process, Crash(p) PROVE LockOK'
  BY <1>0, <1>20 DEF Crash, TypeOK, LockOK, Holds, Process, Step, Free, RuntimeStep,
    MigratorStep, disk, effects
<1>21. ASSUME NEW s \in Store, NEW d \in Store, Copy(s, d) PROVE LockOK'
  BY <1>0, <1>21 DEF Copy, TypeOK, LockOK, Holds, Process, Step, Free, RuntimeStep,
    MigratorStep, disk, effects
<1>22. CASE UNCHANGED vars
  BY <1>0, <1>22 DEF vars, disk, effects, TypeOK, LockOK, Holds, Process, Step, Free,
    RuntimeStep, MigratorStep, disk, effects
<1>. QED BY <1>1, <1>2, <1>3, <1>4, <1>5, <1>6, <1>7, <1>8, <1>9, <1>10, <1>11, <1>12,
    <1>13, <1>14, <1>15, <1>16, <1>17, <1>18, <1>19, <1>20, <1>21, <1>22 DEF Next

-----------------------------------------------------------------------------
(* Theorems.                                                               *)

\* The invariant holds at first, and always.
LEMMA InitInvariant == Init => IInv
<1>. SUFFICES ASSUME Init PROVE IInv
  OBVIOUS
<1>1. Blank \in Journal /\ [Blank EXCEPT !.records = legacy] \in Journal
  BY DEF Init, Blank, Journal, Record
<1>2. file[Source] = [records |-> legacy, namespace |-> None, versioned |-> FALSE, bound |-> None]
  BY StoreAssumption DEF Init, Blank
<1>3. \A s \in Store \ {Source} : file[s] = None
  BY DEF Init
<1>4. TypeOK
  BY <1>1, ProcessAssumption, StoreAssumption
    DEF Init, TypeOK, Process, Record, RuntimeStep, MigratorStep
<1>5. file[Source] \in Journal
  BY <1>4, <1>2, StoreAssumption DEF Journal, TypeOK
<1>6. SourceOK
  <2>1. file[Source] # None
    BY <1>5, NoneAssumption
  <2>2. file[Source].records = legacy
    BY <1>2
  <2>. QED BY <2>1, <2>2 DEF SourceOK
<1>7. LockOK /\ AttachedOK /\ MigrationOK /\ LeasePinsStore
  BY ProcessAssumption
    DEF Init, LockOK, Holds, AttachedOK, MigrationOK, LeasePinsStore, Process, MigratorStep
<1>8. \A s \in Store : \A d \in Store :
         file[s] # None => file[s].namespace # <<"migrated", d>>
  <2>1. \A d \in Store : <<"migrated", d>> \in Namespace
    BY DEF Namespace
  <2>. QED BY <1>2, <1>3, <2>1, NoneAssumption
<1>9. OnceInPlace /\ MigrationIsWhole
  BY <1>8, StoreAssumption DEF OnceInPlace, MigrationIsWhole
<1>. QED BY <1>4, <1>6, <1>7, <1>9 DEF IInv

LEMMA Invariance == Spec => []IInv
<1>1. IInv /\ [Next]_vars => IInv'
  BY StepTyping, StepLocks, StepAttached, StepSource, StepMigration, StepOnce, StepWhole,
    StepLeases DEF IInv
<1>. QED BY InitInvariant, <1>1, PTL DEF Spec

\* The variables have their types, whatever the processes, paths and records:
\* rlm_effect_persist.pl and rlm_effect_migration.pl.
THEOREM Typing == Spec => []TypeOK
<1>1. IInv => TypeOK
  BY DEF IInv
<1>. QED BY Invariance, <1>1, PTL

\* A journal has one process that writes or replaces it, and a migrated identity one
\* that has it attached: effect_persist_open/1, effect_persist_migration_source_open/4.
THEOREM OneWriter == Spec => []SingleWriter
<1>1. ASSUME IInv PROVE SingleWriter
  <2>1. TypeOK /\ LockOK /\ AttachedOK /\ MigrationIsWhole
    BY <1>1 DEF IInv
  <2>2. \A p \in Process, s \in Store : Uses(p, s) => Holds(p, s)
    BY DEF Uses, Holds
  <2>3. SUFFICES ASSUME NEW p \in Process, NEW q \in Process, p # q
                 PROVE  /\ \A s \in Store : ~(Uses(p, s) /\ Uses(q, s))
                        /\ ~ /\ p \in Runtime /\ q \in Runtime
                             /\ step[p] = "open" /\ step[q] = "open"
                             /\ file[store[p]].namespace = file[store[q]].namespace
                             /\ file[store[p]].namespace \in {"migrated"} \X Store
    BY DEF SingleWriter
  <2>4. \A s \in Store : ~(Uses(p, s) /\ Uses(q, s))
    BY <2>1, <2>2, <2>3, Exclusion
  <2>5. ASSUME p \in Runtime, q \in Runtime, step[p] = "open", step[q] = "open",
               file[store[p]].namespace = file[store[q]].namespace,
               NEW d \in Store, file[store[p]].namespace = <<"migrated", d>>
        PROVE  FALSE
    <3>1. store[p] \in Store /\ store[q] \in Store /\ store[p] # store[q]
      BY <2>1, <2>3, <2>5, AttachedHolds, Apart
    <3>2. file[store[p]].bound = d /\ file[store[q]].bound = d
      BY <2>1, <2>5, <3>1 DEF MigrationIsWhole, AttachedOK
    <3>. QED BY <2>1, <2>5, <3>1, <3>2, StoreAssumption DEF AttachedOK
  <2>6. \A n \in {"migrated"} \X Store : \E d \in Store : n = <<"migrated", d>>
    OBVIOUS
  <2>. QED BY <2>4, <2>5, <2>6
<1>. QED BY Invariance, <1>1, PTL

\* A migrated journal is complete and its source backed up: publish_migration/8.
THEOREM WholeMigrations == Spec => []MigrationIsWhole
<1>1. IInv => MigrationIsWhole
  BY DEF IInv
<1>. QED BY Invariance, <1>1, PTL

\* While a lease is held its store stays attached: require_no_active_effect_leases/2,
\* acquire_effect_lease_locked/2.
THEOREM LeasesPin == Spec => []LeasePinsStore
<1>1. IInv => LeasePinsStore
  BY DEF IInv
<1>. QED BY Invariance, <1>1, PTL

\* No journal at a canonical path loses a record: publish_destination/3 and what runs
\* beside it.
THEOREM NothingIsLost == Spec => JournalsOnlyGrow
<1>1. ASSUME IInv, [Next]_vars
      PROVE  [\A s \in Store : file[s] # None =>
                 file'[s] # None /\ file[s].records \subseteq file'[s].records]_vars
  BY <1>1, StepGrow
<1>. QED BY Invariance, <1>1, PTL DEF Spec, JournalsOnlyGrow
=============================================================================
