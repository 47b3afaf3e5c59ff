--------------------------- MODULE StoreMaintenance ---------------------------
(***************************************************************************)
(* The files of the two stores and what is done to them: migration when a  *)
(* process starts on a store (src/veridoc/persistence/migrations.py and    *)
(* its twin under review/), the backup, retention and session pruning of   *)
(* a maintenance run (src/veridoc/deployment/maintenance.py), and restore  *)
(* (src/veridoc/persistence/maintenance.py and its twin).                  *)
(*                                                                         *)
(* SQLite is external: while a transaction is open the store's file may be *)
(* half written and a rollback journal beside it says how it was; whoever  *)
(* opens the store with nobody in a transaction rolls such a journal back, *)
(* into whatever file then has the name.                                   *)
(***************************************************************************)
EXTENDS Integers, FiniteSets, Sequences

CONSTANTS Stores,       \* in the order a maintenance run takes them
          Pruned,       \* the store whose sessions such a run prunes
          Processes, Nobody,
          Latest,       \* LATEST_SCHEMA_VERSION
          KeepCount,    \* --keep
          MaxTime,      \* bound on the clock, whose instants name the backups
          MaxFiles      \* bound on the files that restores put in place

Store == {Stores[i] : i \in DOMAIN Stores}

ASSUME StoreAssumption ==
    /\ Stores \in Seq(Store)
    /\ Len(Stores) > 0
    /\ \A i, j \in DOMAIN Stores : Stores[i] = Stores[j] => i = j
    /\ Pruned \in Store
ASSUME ProcessAssumption == Nobody \notin Processes
ASSUME BoundAssumption ==
    /\ Latest \in Nat
    /\ KeepCount \in Int
    /\ MaxTime \in Nat
    /\ MaxFiles \in Nat

-----------------------------------------------------------------------------
(* A database: its file, the schema version its ledger ends with, and      *)
(* whether integrity check, schema and persisted rows would be accepted.   *)
Version == 0..(Latest + 1)      \* Latest + 1: any version this code refuses

Database == [there : BOOLEAN, file : 0..MaxFiles, schema : Version, sound : BOOLEAN]

Journal == [file : 0..MaxFiles, before : Database]
NoJournal == [file |-> 0, before |-> [there |-> FALSE, file |-> 0, schema |-> 0, sound |-> FALSE]]

Backup == [there : BOOLEAN, at : 0..MaxTime, schema : Version, sound : BOOLEAN]
NoBackup == [there |-> FALSE, at |-> 0, schema |-> 0, sound |-> FALSE]

Name == 0..MaxTime

Usable(c) == c.there /\ c.sound /\ c.schema <= Latest

Task == [kind : {"none", "serve", "maintain", "restore"}, place : 1..Len(Stores), stamp : Name,
         applied : Version, copy : Backup, doomed : SUBSET Name]

Step == {"idle", "lock", "apply", "write", "commit", "copy", "publish", "list",
         "delete", "dispose", "fetch", "replace", "refused"}

VARIABLES
    now,       \* the clock, in seconds
    begun,     \* a maintenance run has begun in this second
    db,        \* the file that has the store's name
    journal,   \* the rollback journal beside it
    holder,    \* who has a transaction open on the store
    damaged,   \* the file was damaged from outside since it was put in place
    backups,   \* the published backups of each store, by the second in the name
    pc, task   \* the next step of each process, and what it works on

vars == <<now, begun, db, journal, holder, damaged, backups, pc, task>>

StoreOf(p) == Stores[task[p].place]

Work(kind, i, stamp) == [kind |-> kind, place |-> i, stamp |-> stamp, applied |-> 0,
                         copy |-> NoBackup, doomed |-> {}]

NoTask == Work("none", 1, 0)

-----------------------------------------------------------------------------
(* SQLite.                                                                 *)

HasJournal(s) == journal[s] # NoJournal

(* What a reader of the store finds: the state before an open or an        *)
(* interrupted transaction, or, when the journal is of another file,       *)
(* nothing that can be relied on.                                          *)
Committed(s) ==
    IF ~HasJournal(s) THEN db[s]
    ELSE IF journal[s].file = db[s].file THEN journal[s].before
    ELSE [db[s] EXCEPT !.sound = FALSE]

(* The first access of a connection, `found' being the file it leaves.     *)
Access(s, found) ==
    /\ db' = [db EXCEPT ![s] = IF holder[s] = Nobody THEN found ELSE @]
    /\ journal' = [journal EXCEPT ![s] = IF holder[s] = Nobody THEN NoJournal ELSE @]

(* Mutant: BEGIN, with the lock left to the first write.                   *)
BeginDeferred(p) ==
    LET s == StoreOf(p) IN
    /\ holder' = [holder EXCEPT ![s] = p]
    /\ journal' = [journal EXCEPT ![s] = [file |-> db[s].file, before |-> Committed(s)]]
    /\ db' = [db EXCEPT ![s] = [@ EXCEPT !.sound = FALSE]]

(* BEGIN IMMEDIATE, and writes that reach the file before the commit.      *)
BeginImmediate(p) ==
    LET s == StoreOf(p) IN
    /\ holder[s] = Nobody
    /\ holder' = [holder EXCEPT ![s] = p]
    /\ journal' = [journal EXCEPT ![s] = [file |-> db[s].file, before |-> Committed(s)]]
    /\ db' = [db EXCEPT ![s] = [@ EXCEPT !.sound = FALSE]]

(* COMMIT, or ROLLBACK when `result' is what the journal holds.            *)
EndTransaction(p, result) ==
    LET s == StoreOf(p) IN
    /\ holder' = [holder EXCEPT ![s] = Nobody]
    /\ journal' = [journal EXCEPT ![s] = NoJournal]
    /\ db' = [db EXCEPT ![s] = result]

(* What one process may wait for until its busy timeout: a transaction of  *)
(* another, which also shuts readers out once it writes to the file; and,  *)
(* with a COMMIT, an online backup, whose copying is a long read.          *)
LockedOut(p, s) == holder[s] \notin {Nobody, p}
BackedUp(p, s) == \E q \in Processes \ {p} : pc[q] = "copy" /\ StoreOf(q) = s

-----------------------------------------------------------------------------
(* Processes.                                                              *)

Goto(p, step) == pc' = [pc EXCEPT ![p] = step]

Leave(p) ==
    /\ Goto(p, "idle")
    /\ task' = [task EXCEPT ![p] = NoTask]

(* The documented precondition of restore: the service is stopped, and     *)
(* started only afterwards.                                                *)
NobodyRestores == \A p \in Processes : task[p].kind # "restore"
AllStopped == \A p \in Processes : pc[p] = "idle"

(* The operation on a store is given up with an error.                     *)
Refuse(p, kind, i) ==
    /\ Goto(p, "refused")
    /\ task' = [task EXCEPT ![p] = Work(kind, i, 0)]

Refused(p) ==
    /\ pc[p] = "refused"
    /\ Leave(p)
    /\ UNCHANGED <<now, begun, db, journal, holder, damaged, backups>>

-----------------------------------------------------------------------------
(* initialize: migrate and validate.                                       *)

(* Connecting creates a file that is missing.                              *)
Created(c) == IF c.there THEN c ELSE [there |-> TRUE, file |-> c.file, schema |-> 0, sound |-> TRUE]

(* The versions are read outside a transaction; a complete ledger needs no *)
(* lock.  Validating the schema may overlook damage to the rows.           *)
Open(p, i) ==
    LET s == Stores[i]
        c == Created(Committed(s)) IN
    /\ Access(s, c)
    /\ \/ /\ c.schema <= Latest
          /\ Goto(p, IF c.schema = Latest THEN "write" ELSE "lock")
          /\ task' = [task EXCEPT ![p] = [Work("serve", i, 0) EXCEPT !.applied = c.schema]]
       \/ /\ ~Usable(c) \/ LockedOut(p, s)
          /\ Refuse(p, "serve", i)
    /\ UNCHANGED <<now, begun, holder, damaged, backups>>

(* A request, or a command, opens one of the stores.                       *)
Serve(p) ==
    /\ pc[p] = "idle"
    /\ NobodyRestores
    /\ \E i \in DOMAIN Stores : Open(p, i)

(* Mutant: the versions read before the lock.                              *)
FirstRead(p) == task[p].applied

(* The versions are read again under the lock.                             *)
Reread(p) == Committed(StoreOf(p)).schema

Lock(p) ==
    /\ pc[p] = "lock"
    /\ BeginImmediate(p)
    /\ task' = [task EXCEPT ![p].applied = Reread(p)]
    /\ Goto(p, "apply")
    /\ UNCHANGED <<now, begun, damaged, backups>>

(* The migrations that `applied' lacks; one that is there already fails,   *)
(* and so does a COMMIT that cannot be had.                                *)
Apply(p) ==
    LET before == journal[StoreOf(p)].before IN
    /\ pc[p] = "apply"
    /\ \/ /\ task[p].applied = before.schema
          /\ before.schema <= Latest
          /\ EndTransaction(p, [before EXCEPT !.schema = Latest])
          /\ Goto(p, "write")
          /\ task' = [task EXCEPT ![p].applied = Latest]
       \/ /\ \/ task[p].applied # before.schema
             \/ ~Usable(before)
             \/ BackedUp(p, StoreOf(p))
          /\ EndTransaction(p, before)
          /\ Refuse(p, task[p].kind, task[p].place)
    /\ UNCHANGED <<now, begun, damaged, backups>>

(* One write of the process: a request's, or prune_sessions.               *)
Write(p) ==
    /\ pc[p] = "write"
    /\ BeginImmediate(p)
    /\ Goto(p, "commit")
    /\ UNCHANGED <<now, begun, damaged, backups, task>>

Commit(p) ==
    /\ pc[p] = "commit"
    /\ EndTransaction(p, journal[StoreOf(p)].before)
    /\ \/ Leave(p)
       \/ /\ BackedUp(p, StoreOf(p))
          /\ Refuse(p, task[p].kind, task[p].place)
    /\ UNCHANGED <<now, begun, damaged, backups>>

(* BEGIN IMMEDIATE, or the first write, does not get the lock in time.     *)
Busy(p) ==
    /\ pc[p] \in {"lock", "write"}
    /\ LockedOut(p, StoreOf(p))
    /\ Refuse(p, task[p].kind, task[p].place)
    /\ UNCHANGED <<now, begun, db, journal, holder, damaged, backups>>

-----------------------------------------------------------------------------
(* backup_database and prune_backup_retention.                             *)

(* Runs are scheduled: no two of them begin in the same second, whose name *)
(* their backups would share.                                              *)
NewSecond == ~begun

(* run_deployment_maintenance.                                             *)
Maintain(p) ==
    /\ pc[p] = "idle"
    /\ NobodyRestores
    /\ NewSecond
    /\ Goto(p, "copy")
    /\ task' = [task EXCEPT ![p] = Work("maintain", 1, now)]
    /\ begun' = TRUE
    /\ UNCHANGED <<now, db, journal, holder, damaged, backups>>

(* No two copies of a store are modified in the same nanosecond.           *)
NewInstant(s) ==
    /\ \A n \in Name : backups[s][n].there => backups[s][n].at < now
    /\ \A p \in Processes : task[p].copy.there /\ StoreOf(p) = s => task[p].copy.at < now

(* The online backup: one committed state of the store.                    *)
Copy(p) ==
    LET s == StoreOf(p)
        c == Committed(s) IN
    /\ pc[p] = "copy"
    /\ NewInstant(s)
    /\ \/ /\ c.there
          /\ Access(s, c)
          /\ task' = [task EXCEPT ![p].copy =
                         [there |-> TRUE, at |-> now, schema |-> c.schema, sound |-> c.sound]]
          /\ Goto(p, "publish")
       \/ /\ ~c.there
          /\ Refuse(p, task[p].kind, task[p].place)
          /\ UNCHANGED <<db, journal>>
    /\ UNCHANGED <<now, begun, holder, damaged, backups>>

(* Mutant: an integrity check alone, without migrating a copy.             *)
ValidatesIntegrity(p) == task[p].copy.sound

(* A second copy is migrated and validated, then the first is put in place.*)
Validates(p) == Usable(task[p].copy)

Publish(p) ==
    /\ pc[p] = "publish"
    /\ \/ /\ Validates(p)
          /\ backups' = [backups EXCEPT ![StoreOf(p)][task[p].stamp] = task[p].copy]
          /\ Goto(p, "list")
          /\ task' = [task EXCEPT ![p].copy = NoBackup]
       \/ /\ ~Validates(p)
          /\ Refuse(p, task[p].kind, task[p].place)
          /\ UNCHANGED backups
    /\ UNCHANGED <<now, begun, db, journal, holder, damaged>>

Present(s) == {n \in Name : backups[s][n].there}

(* Mutant: matching[:keep_count - 1].                                      *)
RetainedButOne(count) == IF KeepCount - 1 < count THEN KeepCount - 1 ELSE count

(* The length of matching[:keep_count].                                    *)
Retained(count) ==
    IF KeepCount >= 0 THEN IF KeepCount < count THEN KeepCount ELSE count
    ELSE IF count + KeepCount > 0 THEN count + KeepCount ELSE 0

(* Mutant: matching.sort(key=...), the oldest first.                       *)
PrunesNewest(s, doomed) ==
    /\ Cardinality(Present(s) \ doomed) = Retained(Cardinality(Present(s)))
    /\ \A n \in doomed, m \in Present(s) \ doomed : backups[s][n].at >= backups[s][m].at

(* matching[keep_count:] of the backups sorted by modification time.       *)
PrunesOldest(s, doomed) ==
    /\ Cardinality(Present(s) \ doomed) = Retained(Cardinality(Present(s)))
    /\ \A n \in doomed, m \in Present(s) \ doomed : backups[s][n].at <= backups[s][m].at

List(p) ==
    /\ pc[p] = "list"
    /\ \E doomed \in SUBSET Present(StoreOf(p)) :
          /\ PrunesOldest(StoreOf(p), doomed)
          /\ task' = [task EXCEPT ![p].doomed = doomed]
    /\ Goto(p, "delete")
    /\ UNCHANGED <<now, begun, db, journal, holder, damaged, backups>>

(* Another run deletes backups of the store.                               *)
Deleting(p, s) == \E q \in Processes \ {p} : pc[q] = "delete" /\ StoreOf(q) = s

(* A file that was listed is gone when its time is asked for.              *)
ListFails(p) ==
    /\ pc[p] = "list"
    /\ Deleting(p, StoreOf(p))
    /\ Refuse(p, task[p].kind, task[p].place)
    /\ UNCHANGED <<now, begun, db, journal, holder, damaged, backups>>

(* Unlinking one backup, or failing to.                                    *)
Delete(p) ==
    /\ pc[p] = "delete"
    /\ \E n \in task[p].doomed :
          /\ task' = [task EXCEPT ![p].doomed = @ \ {n}]
          /\ \/ backups' = [backups EXCEPT ![StoreOf(p)][n] = NoBackup]
             \/ UNCHANGED backups
    /\ UNCHANGED <<now, begun, db, journal, holder, damaged, pc>>

(* On to the next store, or to the disposal of quarantined uploads.        *)
NextStore(p) ==
    /\ pc[p] = "delete"
    /\ task[p].doomed = {}
    /\ \/ /\ task[p].place < Len(Stores)
          /\ task' = [task EXCEPT ![p].place = @ + 1]
          /\ Goto(p, "copy")
       \/ /\ task[p].place = Len(Stores)
          /\ Goto(p, "dispose")
          /\ UNCHANGED task
    /\ UNCHANGED <<now, begun, db, journal, holder, damaged, backups>>

(* The disposal (Quarantine) may fail, which ends the run; else the review *)
(* store is opened once more and sessions are pruned, and the run succeeds *)
(* whether or not that does.                                               *)
Dispose(p) ==
    /\ pc[p] = "dispose"
    /\ \/ /\ Refuse(p, task[p].kind, task[p].place)
          /\ UNCHANGED <<now, begun, db, journal, holder, damaged, backups>>
       \/ \E i \in DOMAIN Stores : Stores[i] = Pruned /\ Open(p, i)

-----------------------------------------------------------------------------
(* restore_database.                                                       *)

(* Mutant: a sidecar of the database to be replaced is overlooked.         *)
IgnoreSidecars(s) == TRUE

(* _require_no_live_sidecars(destination).                                 *)
NoLiveSidecars(s) == ~HasJournal(s)

Restore(p) ==
    /\ AllStopped
    /\ \E i \in DOMAIN Stores, n \in Name :
          /\ backups[Stores[i]][n].there
          /\ db[Stores[i]].file < MaxFiles
          /\ \/ /\ NoLiveSidecars(Stores[i])
                /\ Goto(p, "fetch")
                /\ task' = [task EXCEPT ![p] = Work("restore", i, n)]
             \/ /\ ~NoLiveSidecars(Stores[i])
                /\ Refuse(p, "restore", i)
    /\ UNCHANGED <<now, begun, db, journal, holder, damaged, backups>>

(* The backup is copied, and the copy migrated and validated.              *)
Fetch(p) ==
    LET b == backups[StoreOf(p)][task[p].stamp] IN
    /\ pc[p] = "fetch"
    /\ \/ /\ Usable(b)
          /\ task' = [task EXCEPT ![p].copy = [b EXCEPT !.schema = Latest]]
          /\ Goto(p, "replace")
       \/ /\ ~Usable(b)
          /\ Refuse(p, task[p].kind, task[p].place)
    /\ UNCHANGED <<now, begun, db, journal, holder, damaged, backups>>

Replace(p) ==
    LET s == StoreOf(p) IN
    /\ pc[p] = "replace"
    /\ \/ /\ NoLiveSidecars(s)
          /\ db' = [db EXCEPT ![s] = [there |-> TRUE, file |-> @.file + 1,
                                      schema |-> task[p].copy.schema,
                                      sound |-> task[p].copy.sound]]
          /\ damaged' = [damaged EXCEPT ![s] = FALSE]
          /\ Leave(p)
       \/ /\ ~NoLiveSidecars(s)
          /\ Refuse(p, task[p].kind, task[p].place)
          /\ UNCHANGED <<db, damaged>>
    /\ UNCHANGED <<now, begun, journal, holder, backups>>

-----------------------------------------------------------------------------
(* What happens to the machine.                                            *)

(* A process dies; its transaction stays behind with a hot journal, its    *)
(* temporary copies stay behind unread.                                    *)
Crash(p) ==
    /\ pc[p] # "idle"
    /\ Leave(p)
    /\ holder' = [s \in Store |-> IF holder[s] = p THEN Nobody ELSE holder[s]]
    /\ UNCHANGED <<now, begun, db, journal, damaged, backups>>

(* A store is damaged from outside (bounds: one at a time, and while none  *)
(* has the last file it may have).                                         *)
Damage(s) ==
    /\ db[s].there
    /\ \A o \in Store : ~damaged[o] /\ db[o].file < MaxFiles
    /\ ~HasJournal(s)
    /\ db' = [db EXCEPT ![s].sound = FALSE]
    /\ damaged' = [damaged EXCEPT ![s] = TRUE]
    /\ UNCHANGED <<now, begun, journal, holder, backups, pc, task>>

Tick ==
    /\ now < MaxTime
    /\ now' = now + 1
    /\ begun' = FALSE
    /\ UNCHANGED <<db, journal, holder, damaged, backups, pc, task>>

-----------------------------------------------------------------------------
(* The stores are missing, or were left by one release: this, an older or  *)
(* a newer one.                                                            *)
Init ==
    /\ now = 0
    /\ begun = FALSE
    /\ \E c \in Database :
          /\ c.file = 0 /\ c.sound /\ (c.there \/ c.schema = 0)
          /\ db = [s \in Store |-> c]
    /\ journal = [s \in Store |-> NoJournal]
    /\ holder = [s \in Store |-> Nobody]
    /\ damaged = [s \in Store |-> FALSE]
    /\ backups = [s \in Store |-> [n \in Name |-> NoBackup]]
    /\ pc = [p \in Processes |-> "idle"]
    /\ task = [p \in Processes |-> NoTask]

Next ==
    \/ \E p \in Processes :
          \/ Serve(p) \/ Maintain(p) \/ Restore(p) \/ Refused(p)
          \/ Lock(p) \/ Apply(p) \/ Write(p) \/ Commit(p) \/ Busy(p)
          \/ Copy(p) \/ Publish(p) \/ List(p) \/ ListFails(p) \/ Delete(p)
          \/ NextStore(p) \/ Dispose(p)
          \/ Fetch(p) \/ Replace(p)
          \/ Crash(p)
    \/ \E s \in Store : Damage(s)
    \/ Tick

Spec == Init /\ [][Next]_vars

-----------------------------------------------------------------------------
(* Properties.                                                             *)

(* Every variable keeps to its type; a process in a transaction, and no    *)
(* other, has the lock, and the journal is there.                          *)
TypeOK ==
    /\ now \in Name
    /\ begun \in BOOLEAN
    /\ db \in [Store -> Database]
    /\ journal \in [Store -> Journal]
    /\ holder \in [Store -> Processes \cup {Nobody}]
    /\ damaged \in [Store -> BOOLEAN]
    /\ backups \in [Store -> [Name -> Backup]]
    /\ pc \in [Processes -> Step]
    /\ task \in [Processes -> Task]
    /\ \A p \in Processes : pc[p] \in {"apply", "commit"} =>
          holder[StoreOf(p)] = p /\ HasJournal(StoreOf(p))
    /\ \A s \in Store : holder[s] # Nobody =>
          StoreOf(holder[s]) = s /\ pc[holder[s]] \in {"apply", "commit"}

(* A store nothing damaged from outside is, or will be for whoever opens   *)
(* it next, as some transaction left it: through processes that die inside *)
(* a transaction, migrations, backups and restores, no file ever meets the *)
(* journal of another.                                                     *)
Recoverable ==
    \A s \in Store : Committed(s).there /\ ~damaged[s] => Committed(s).sound

(* The backups serve.  Every published one can be restored by this         *)
(* release, whatever state its store was in when it was copied and however *)
(* runs overlapped; and a run that is done with the backups leaves, for    *)
(* every store, one that was copied since the run began.                   *)
BackupsRestorable ==
    \A s \in Store : \A n \in Present(s) : Usable(backups[s][n])

RunsBackUpEveryStore ==
    \A p \in Processes : pc[p] = "dispose" =>
        \A s \in Store : \E n \in Present(s) : backups[s][n].at >= task[p].stamp

BackupsServe == BackupsRestorable /\ RunsBackUpEveryStore

(* A backup goes only when KeepCount backups at least as recent stay, also *)
(* when two runs overlap and prune from lists that are out of date.        *)
RecentAreKept ==
    [][\A s \in Store, n \in Name :
          backups[s][n].there /\ ~backups'[s][n].there =>
              Cardinality({m \in Name : /\ backups'[s][m].there
                                       /\ backups'[s][m].at >= backups[s][n].at})
                  >= KeepCount]_vars

(* What keeps a process from going on though its store is in order: it     *)
(* waited too long for another process, a file of its listing fell to      *)
(* another run, or the disposal of quarantined uploads failed.             *)
HeldUp(p, s) ==
    \/ pc[p] \in {"idle", "lock", "write", "dispose"} /\ LockedOut(p, s)
    \/ pc[p] \in {"apply", "commit"} /\ BackedUp(p, s)
    \/ pc[p] = "list" /\ Deleting(p, s)
    \/ pc[p] = "dispose" /\ task'[p].kind = "maintain"

(* A process that starts on a store, writes to it or backs it up is given  *)
(* up with an error only for a store that cannot be used (damaged, of an   *)
(* unknown version or, for a backup, missing) or where another holds it up *)
(* in one of the ways above: never because another process migrated the    *)
(* file, wrote to it, published or restored a backup between two of its    *)
(* steps.  A restore is refused only for the journal of a transaction that *)
(* nobody finished: no published backup turns out to be unusable.          *)
RefusedForAReason ==
    [][\A p \in Processes :
          pc[p] # "refused" /\ pc'[p] = "refused" =>
              LET s == Stores[task'[p].place] IN
              IF task'[p].kind = "restore" THEN HasJournal(s)
              ELSE ~Usable(Committed(s)) \/ HeldUp(p, s)]_vars
=============================================================================
