------------------------ MODULE StoreMaintenanceProofs ------------------------
(***************************************************************************)
(* StoreMaintenance, proved for any number of stores, processes, schema    *)
(* versions and backups.                                                   *)
(*                                                                         *)
(* First the stores: no file ever meets a journal of another, as whoever   *)
(* replaces a file is alone and looked for a journal first; so what is     *)
(* committed only gets better or worse for a reason.  Then the backups:    *)
(* no two of a store were copied at one instant and no name is published   *)
(* twice, so whatever list a run prunes from, KeepCount newer ones stay.   *)
(***************************************************************************)
EXTENDS StoreMaintenance, FiniteSetTheorems, TLAPS

-----------------------------------------------------------------------------
(* The invariant of the stores.                                            *)

Types ==
    /\ now \in Name
    /\ begun \in BOOLEAN
    /\ db \in [Store -> Database]
    /\ journal \in [Store -> Journal]
    /\ holder \in [Store -> Processes \cup {Nobody}]
    /\ damaged \in [Store -> BOOLEAN]
    /\ backups \in [Store -> [Name -> Backup]]
    /\ pc \in [Processes -> Step]
    /\ task \in [Processes -> Task]

InTransaction(p) == pc[p] \in {"apply", "commit"}

Serving(p) == pc[p] \in {"lock", "apply", "write", "commit"}

Running(p) == pc[p] \in {"copy", "publish", "list", "delete", "dispose"}

Restoring(p) == pc[p] \in {"fetch", "replace"}

Locks ==
    /\ \A p \in Processes : InTransaction(p) => holder[StoreOf(p)] = p /\ HasJournal(StoreOf(p))
    /\ \A s \in Store : holder[s] # Nobody => StoreOf(holder[s]) = s /\ InTransaction(holder[s])

StoreInv(s) ==
    /\ HasJournal(s) => /\ journal[s].file = db[s].file
                        /\ journal[s].before.file = db[s].file
                        /\ journal[s].before.there /\ db[s].there
    /\ Committed(s).there /\ ~damaged[s] => Committed(s).sound

KindInv(p) ==
    /\ pc[p] = "idle" => task[p].kind = "none"
    /\ Serving(p) => task[p].kind = "serve"
    /\ Running(p) => task[p].kind = "maintain"
    /\ Restoring(p) => task[p].kind = "restore"

ServeInv(p) ==
    /\ Serving(p) => Committed(StoreOf(p)).there
    /\ pc[p] = "apply" => task[p].applied = journal[StoreOf(p)].before.schema

CopyInv(p) ==
    pc[p] = "publish" =>
        /\ task[p].copy.there
        /\ ~Usable(task[p].copy) =>
              Committed(StoreOf(p)).there /\ ~Usable(Committed(StoreOf(p)))

RestoreInv(p) ==
    /\ task[p].kind = "restore" => \A q \in Processes \ {p} : pc[q] = "idle"
    /\ Restoring(p) => db[StoreOf(p)].file < MaxFiles
    /\ pc[p] = "fetch" => backups[StoreOf(p)][task[p].stamp].there
    /\ pc[p] = "replace" => Usable(task[p].copy)

ProcessInv(p) == KindInv(p) /\ ServeInv(p) /\ CopyInv(p) /\ RestoreInv(p)

SInv ==
    /\ Types
    /\ Locks
    /\ \A s \in Store : StoreInv(s)
    /\ \A p \in Processes : ProcessInv(p)
    /\ BackupsRestorable

-----------------------------------------------------------------------------
(* The invariant of the backups.                                           *)

Begun(n) == n < now \/ (n = now /\ begun)

(* Run p has not published the i-th store.                                 *)
Ahead(p, i) ==
    /\ Running(p)
    /\ i \in DOMAIN Stores
    /\ task[p].place < i \/ (task[p].place = i /\ pc[p] \in {"copy", "publish"})

(* ... or has, and is perhaps done with it.                                *)
Behind(p, i) == Running(p) /\ i \in DOMAIN Stores /\ ~Ahead(p, i)

Names ==
    \A s \in Store, n \in Name :
        backups[s][n].there => Begun(n) /\ backups[s][n].at <= now

Instants ==
    \A s \in Store : \A n, m \in Name :
        backups[s][n].there /\ backups[s][m].there /\ n # m => backups[s][n].at # backups[s][m].at

StampInv(p) ==
    /\ Running(p) => Begun(task[p].stamp)
    /\ pc[p] = "dispose" => task[p].place = Len(Stores)
    /\ \A i \in DOMAIN Stores : Ahead(p, i) => ~backups[Stores[i]][task[p].stamp].there

InstantInv(p) ==
    /\ task[p].copy.there => Restoring(p) \/ pc[p] = "publish"
    /\ pc[p] = "publish" =>
          /\ task[p].copy.at <= now /\ task[p].stamp <= task[p].copy.at
          /\ \A n \in Name : backups[StoreOf(p)][n].there =>
                backups[StoreOf(p)][n].at # task[p].copy.at

Newer(s, n) == {m \in Name : backups[s][m].there /\ backups[s][m].at > backups[s][n].at}

DoomedInv(p) ==
    /\ task[p].doomed # {} => pc[p] = "delete"
    /\ \A n \in task[p].doomed :
          /\ Begun(n)
          /\ backups[StoreOf(p)][n].there => Cardinality(Newer(StoreOf(p), n)) >= KeepCount

CoverInv(p) ==
    KeepCount >= 1 =>
        \A i \in DOMAIN Stores : Behind(p, i) =>
            \E n \in Name : /\ backups[Stores[i]][n].there
                            /\ backups[Stores[i]][n].at >= task[p].stamp

RunInv(p) == StampInv(p) /\ InstantInv(p) /\ DoomedInv(p) /\ CoverInv(p)

PairInv(p, q) ==
    /\ Running(p) /\ Running(q) => task[p].stamp # task[q].stamp
    /\ \A i \in DOMAIN Stores :
          Ahead(p, i) /\ StoreOf(q) = Stores[i] => task[p].stamp \notin task[q].doomed
    /\ pc[p] = "publish" /\ pc[q] = "publish" /\ StoreOf(p) = StoreOf(q) =>
          task[p].copy.at # task[q].copy.at

BInv ==
    /\ Names
    /\ Instants
    /\ \A p \in Processes : RunInv(p)
    /\ \A p \in Processes : \A q \in Processes \ {p} : PairInv(p, q)

-----------------------------------------------------------------------------
(* Types.                                                                  *)

(* The bounds and their order, as the lemmas below use them.               *)
LEMMA Bounds ==
    /\ Latest \in Nat /\ MaxTime \in Nat /\ MaxFiles \in Nat /\ KeepCount \in Int
    /\ 0 \in Name /\ 0 \in Version /\ Latest \in Version /\ 0 \in 0..MaxFiles
BY BoundAssumption DEF Name, Version

LEMMA Places ==
    /\ Len(Stores) \in Nat /\ 1 \in 1..Len(Stores)
    /\ DOMAIN Stores = 1..Len(Stores)
    /\ \A i \in DOMAIN Stores : Stores[i] \in Store
BY StoreAssumption

LEMMA NoBackupType == NoBackup \in Backup /\ ~NoBackup.there
BY Bounds DEF NoBackup, Backup, Name

LEMMA NoJournalType == NoJournal \in Journal /\ NoJournal.file = 0 /\ ~NoJournal.before.there
BY Bounds DEF NoJournal, Journal, Database

(* A task that starts, of whatever kind.                                   *)
LEMMA WorkType ==
    ASSUME NEW kind \in {"none", "serve", "maintain", "restore"},
           NEW i \in 1..Len(Stores), NEW stamp \in Name
    PROVE  /\ Work(kind, i, stamp) \in Task
           /\ Work(kind, i, stamp).kind = kind
           /\ Work(kind, i, stamp).place = i
           /\ Work(kind, i, stamp).stamp = stamp
           /\ Work(kind, i, stamp).doomed = {}
           /\ Work(kind, i, stamp).copy = NoBackup
           /\ Work(kind, i, stamp).applied = 0
BY NoBackupType, Bounds DEF Work, Task

LEMMA NoTaskType == NoTask \in Task /\ NoTask.kind = "none"
BY WorkType, Places, Bounds DEF NoTask

LEMMA PlaceType ==
    ASSUME Types, NEW p \in Processes
    PROVE  /\ task[p] \in Task
           /\ task[p].place \in 1..Len(Stores)
           /\ task[p].place \in DOMAIN Stores
           /\ StoreOf(p) \in Store
           /\ StoreOf(p) = Stores[task[p].place]
BY Places DEF Types, Task, StoreOf

LEMMA CommittedType ==
    ASSUME Types, NEW s \in Store
    PROVE  /\ Committed(s) \in Database
           /\ db[s] \in Database
           /\ journal[s] \in Journal
BY DEF Types, Committed, Database, Journal

-----------------------------------------------------------------------------
(* What a step may do to the stores.                                       *)

(* What is committed lasts: a store that is there stays there, one that    *)
(* cannot be used stays so, no other file gets its name, and the journal   *)
(* of a transaction is its own process's.                                  *)
Lasts(s, p) ==
    /\ Committed(s).there => Committed(s)'.there
    /\ Committed(s).there /\ ~Usable(Committed(s)) => ~Usable(Committed(s)')
    /\ db'[s].file = db[s].file
    /\ holder[s] \notin {Nobody, p} => journal'[s] = journal[s]

Others(p) == \A q \in Processes \ {p} : pc'[q] = pc[q] /\ task'[q] = task[q]

(* Of a store whose file meets no other file's journal.                    *)
LEMMA CommittedIs ==
    ASSUME NEW s \in Store, StoreInv(s)
    PROVE  /\ HasJournal(s) => Committed(s) = journal[s].before
           /\ ~HasJournal(s) => Committed(s) = db[s]
           /\ Committed(s).file = db[s].file
           /\ Committed(s).there => db[s].there
           /\ HasJournal(s) => Committed(s).there
BY DEF StoreInv, Committed

(* Nobody restores beside a process that works or may start.               *)
LEMMA NobodyBeside ==
    ASSUME SInv, NEW p \in Processes, NEW q \in Processes, q # p,
           pc[p] # "idle" \/ NobodyRestores \/ AllStopped
    PROVE  task[q].kind # "restore"
BY DEF SInv, ProcessInv, RestoreInv, KindInv, NobodyRestores, AllStopped

LEMMA Bystander ==
    ASSUME Types, Types', Locks, NEW p \in Processes, NEW q \in Processes, q # p,
           \A s \in Store : Lasts(s, p),
           Others(p), ProcessInv(q), task[q].kind # "restore"
    PROVE  ProcessInv(q)'
<1>1. pc'[q] = pc[q] /\ task'[q] = task[q] /\ StoreOf(q)' = StoreOf(q)
  BY DEF Others, StoreOf
<1>2. StoreOf(q) \in Store
  BY PlaceType
<1>3. KindInv(q)'
  BY <1>1 DEF ProcessInv, KindInv, Serving, Running, Restoring
<1>4. ServeInv(q)'
  <2>1. Serving(q)' => Committed(StoreOf(q))'.there
    BY <1>1, <1>2 DEF ProcessInv, ServeInv, Serving, Lasts
  <2>2. pc'[q] = "apply" => journal'[StoreOf(q)] = journal[StoreOf(q)]
    BY <1>1, <1>2, ProcessAssumption DEF Locks, InTransaction, Lasts
  <2>3. QED
    BY <1>1, <2>1, <2>2 DEF ProcessInv, ServeInv
<1>5. CopyInv(q)'
  BY <1>1, <1>2 DEF ProcessInv, CopyInv, Lasts
<1>6. RestoreInv(q)'
  BY <1>1, <1>3 DEF ProcessInv, RestoreInv, KindInv, Restoring
<1>7. QED
  BY <1>3, <1>4, <1>5, <1>6 DEF ProcessInv

(* What a step of p has to show.                                           *)
LEMMA StepSafe ==
    ASSUME SInv, NEW p \in Processes, Types', Locks',
           \A s \in Store : StoreInv(s)' /\ Lasts(s, p),
           Others(p), pc[p] # "idle" \/ NobodyRestores \/ AllStopped,
           ProcessInv(p)', BackupsRestorable'
    PROVE  SInv'
<1>1. ASSUME NEW q \in Processes, q # p
      PROVE  ProcessInv(q)'
  <2>1. task[q].kind # "restore"
    BY <1>1, NobodyBeside
  <2>2. Types /\ Locks /\ ProcessInv(q)
    BY DEF SInv
  <2>3. QED
    BY <1>1, <2>1, <2>2, Bystander
<1>2. QED
  BY <1>1 DEF SInv

LEMMA LocksStay ==
    ASSUME Types, Types', Locks, NEW p \in Processes, Others(p), holder' = holder,
           \A s \in Store : holder[s] # Nobody => journal'[s] = journal[s],
           ~InTransaction(p), ~InTransaction(p)'
    PROVE  Locks'
<1>1. ASSUME NEW q \in Processes, InTransaction(q)'
      PROVE  holder'[StoreOf(q)'] = q /\ HasJournal(StoreOf(q))'
  <2>1. q # p
    BY <1>1
  <2>2. pc'[q] = pc[q] /\ StoreOf(q)' = StoreOf(q)
    BY <2>1 DEF Others, StoreOf
  <2>3. holder[StoreOf(q)] = q /\ HasJournal(StoreOf(q)) /\ StoreOf(q) \in Store
    BY <1>1, <2>2, PlaceType DEF Locks, InTransaction
  <2>4. QED
    BY <2>2, <2>3, ProcessAssumption DEF HasJournal
<1>2. ASSUME NEW s \in Store, holder'[s] # Nobody
      PROVE  StoreOf(holder[s])' = s /\ InTransaction(holder[s])'
  <2>1. StoreOf(holder[s]) = s /\ InTransaction(holder[s]) /\ holder[s] \in Processes
    BY <1>2 DEF Locks, Types
  <2>2. holder[s] # p
    BY <2>1
  <2>3. QED
    BY <2>1, <2>2 DEF Others, StoreOf, InTransaction
<1>3. QED
  BY <1>1, <1>2 DEF Locks

(* A step that touches no store.                                           *)
LEMMA QuietSafe ==
    ASSUME SInv, NEW p \in Processes, Types', UNCHANGED <<db, journal, holder, damaged>>,
           Others(p), pc[p] # "idle" \/ NobodyRestores \/ AllStopped,
           ~InTransaction(p), ~InTransaction(p)',
           ProcessInv(p)', BackupsRestorable'
    PROVE  SInv'
<1>1. Locks'
  <2>1. Types /\ Locks
    BY DEF SInv
  <2>2. QED
    BY <2>1, LocksStay
<1>2. \A s \in Store : StoreInv(s)' /\ Lasts(s, p)
  BY DEF SInv, StoreInv, Committed, HasJournal, Lasts
<1>3. QED
  BY <1>1, <1>2, StepSafe
-----------------------------------------------------------------------------
(* The accesses of SQLite.                                                 *)

(* A connection's first access to the i-th store: what is committed stays, *)
(* or is created.                                                          *)
LEMMA AccessLasts ==
    ASSUME SInv, NEW p \in Processes, NEW s \in Store, NEW c \in Database,
           c.there, c.file = db[s].file,
           IF Committed(s).there THEN c = Committed(s) ELSE Usable(c),
           Access(s, c), UNCHANGED <<holder, damaged>>
    PROVE  /\ \A o \in Store : StoreInv(o)' /\ Lasts(o, p)
           /\ Committed(s)' = c
           /\ \A o \in Store : holder[o] # Nobody => journal'[o] = journal[o]
           /\ db' \in [Store -> Database]
           /\ journal' \in [Store -> Journal]
<1>1. Types /\ Locks /\ StoreInv(s)
  BY DEF SInv
<1>2. db' \in [Store -> Database] /\ journal' \in [Store -> Journal]
  BY <1>1, NoJournalType DEF Access, Types
<1>3. \A o \in Store : o # s => db'[o] = db[o] /\ journal'[o] = journal[o]
  BY <1>1 DEF Access, Types
<1>4. \A o \in Store : o # s => StoreInv(o)' /\ Lasts(o, p)
  BY <1>3 DEF SInv, StoreInv, Committed, HasJournal, Lasts
<1>5. CASE holder[s] = Nobody
  <2>1. db'[s] = c /\ journal'[s] = NoJournal
    BY <1>1, <1>5 DEF Access, Types
  <2>2. Committed(s)' = c /\ ~HasJournal(s)'
    BY <2>1 DEF Committed, HasJournal
  <2>3. StoreInv(s)'
    BY <1>1, <2>1, <2>2 DEF StoreInv, Usable
  <2>4. Lasts(s, p)
    BY <1>5, <2>1, <2>2 DEF Lasts
  <2>5. QED
    BY <1>2, <1>3, <1>4, <1>5, <2>2, <2>3, <2>4
<1>6. CASE holder[s] # Nobody
  <2>1. db' = db /\ journal' = journal
    BY <1>1, <1>6 DEF Access, Types
  <2>2. HasJournal(s)
    BY <1>1, <1>6 DEF Locks, Types
  <2>3. Committed(s).there
    BY <1>1, <2>2, CommittedIs
  <2>4. Committed(s)' = c
    BY <2>1, <2>3 DEF Committed, HasJournal
  <2>5. StoreInv(s)' /\ Lasts(s, p)
    BY <1>1, <2>1 DEF StoreInv, Committed, HasJournal, Lasts
  <2>6. QED
    BY <1>2, <1>3, <1>4, <2>1, <2>4, <2>5
<1>7. QED
  BY <1>5, <1>6

LEMMA BeginLasts ==
    ASSUME SInv, NEW p \in Processes, NEW s \in Store, StoreOf(p) = s,
           BeginImmediate(p), damaged' = damaged, Committed(s).there
    PROVE  /\ \A o \in Store : StoreInv(o)' /\ Lasts(o, p)
           /\ journal'[s].before = Committed(s)
           /\ Committed(s)' = Committed(s)
           /\ HasJournal(s)'
           /\ \A o \in Store : o # s => journal'[o] = journal[o]
           /\ db' \in [Store -> Database]
           /\ journal' \in [Store -> Journal]
           /\ holder' \in [Store -> Processes \cup {Nobody}]
<1> DEFINE c == Committed(s)
<1>1. Types /\ StoreInv(s) /\ s \in Store /\ c \in Database /\ db[s] \in Database
  BY PlaceType, CommittedType DEF SInv
<1>2. c.file = db[s].file /\ db[s].there /\ c.there
  BY <1>1, CommittedIs
<1>3. [file |-> db[s].file, before |-> c] \in Journal
  BY <1>1 DEF Journal, Database
<1>4. [db[s] EXCEPT !.sound = FALSE] \in Database
  BY <1>1 DEF Database
<1>5. /\ journal'[s] = [file |-> db[s].file, before |-> c]
      /\ db'[s] = [db[s] EXCEPT !.sound = FALSE]
      /\ \A o \in Store : o # s => db'[o] = db[o] /\ journal'[o] = journal[o]
  BY <1>1 DEF BeginImmediate, Types
<1>6. /\ db' \in [Store -> Database]
      /\ journal' \in [Store -> Journal]
      /\ holder' \in [Store -> Processes \cup {Nobody}]
  BY <1>1, <1>3, <1>4 DEF BeginImmediate, Types
<1>7. /\ journal'[s].file = db[s].file /\ journal'[s].before = c
      /\ db'[s].file = db[s].file /\ db'[s].there = db[s].there
  BY <1>1, <1>5 DEF Database
<1>8. HasJournal(s)'
  BY <1>2, <1>7, NoJournalType DEF HasJournal
<1>9. Committed(s)' = c
  BY <1>7, <1>8 DEF Committed
<1>10. StoreInv(s)' /\ Lasts(s, p)
  <2>1. StoreInv(s)'
    BY <1>1, <1>2, <1>7, <1>9 DEF StoreInv
  <2>2. holder[s] = Nobody
    BY DEF BeginImmediate
  <2>3. QED
    BY <1>7, <1>9, <2>1, <2>2 DEF Lasts
<1>11. \A o \in Store : o # s => StoreInv(o)' /\ Lasts(o, p)
  BY <1>5 DEF SInv, StoreInv, Committed, HasJournal, Lasts
<1>12. QED
  BY <1>5, <1>6, <1>7, <1>8, <1>9, <1>10, <1>11

(* The end of a transaction: what the journal holds, or that migrated.     *)
LEMMA EndLasts ==
    ASSUME SInv, NEW p \in Processes, NEW s \in Store, StoreOf(p) = s,
           InTransaction(p), NEW result,
           EndTransaction(p, result), damaged' = damaged,
           \/ result = journal[s].before
           \/ /\ journal[s].before.schema <= Latest
              /\ result = [journal[s].before EXCEPT !.schema = Latest]
    PROVE  /\ \A o \in Store : StoreInv(o)' /\ Lasts(o, p)
           /\ Committed(s).there
           /\ Committed(s)'.there
           /\ \A o \in Store : o # s => journal'[o] = journal[o]
           /\ db' \in [Store -> Database]
           /\ journal' \in [Store -> Journal]
           /\ holder' \in [Store -> Processes \cup {Nobody}]
<1> DEFINE c == journal[s].before
<1>1. Types /\ Locks /\ StoreInv(s) /\ s \in Store /\ journal[s] \in Journal
  BY PlaceType, CommittedType DEF SInv
<1>2. HasJournal(s) /\ holder[s] = p
  BY <1>1 DEF Locks
<1>3. Committed(s) = c /\ c.there /\ c.file = db[s].file
  BY <1>1, <1>2, CommittedIs DEF StoreInv
<1>4. c \in Database
  BY <1>1 DEF Journal
<1>5. /\ result \in Database /\ result.there /\ result.file = c.file
      /\ result.sound = c.sound
      /\ result = c \/ (c.schema <= Latest)
  BY <1>3, <1>4, Bounds DEF Database
<1>6. /\ db'[s] = result /\ journal'[s] = NoJournal
      /\ \A o \in Store : o # s => db'[o] = db[o] /\ journal'[o] = journal[o]
  BY <1>1 DEF EndTransaction, Types
<1>7. /\ db' \in [Store -> Database]
      /\ journal' \in [Store -> Journal]
      /\ holder' \in [Store -> Processes \cup {Nobody}]
  BY <1>1, <1>5, NoJournalType DEF EndTransaction, Types
<1>8. Committed(s)' = result /\ ~HasJournal(s)'
  BY <1>6 DEF Committed, HasJournal
<1>9. StoreInv(s)'
  BY <1>1, <1>3, <1>5, <1>8 DEF StoreInv
<1>10. Lasts(s, p)
  BY <1>2, <1>3, <1>5, <1>6, <1>8 DEF Lasts, Usable
<1>11. \A o \in Store : o # s => StoreInv(o)' /\ Lasts(o, p)
  BY <1>6 DEF SInv, StoreInv, Committed, HasJournal, Lasts
<1>12. QED
  BY <1>3, <1>5, <1>6, <1>7, <1>8, <1>9, <1>10, <1>11
-----------------------------------------------------------------------------
(* Where a step leaves its process.                                        *)

LEMMA Moves ==
    ASSUME Types, NEW p \in Processes, NEW step \in Step, NEW t \in Task,
           Goto(p, step), task' = [task EXCEPT ![p] = t]
    PROVE  /\ pc' \in [Processes -> Step] /\ task' \in [Processes -> Task]
           /\ pc'[p] = step /\ task'[p] = t
           /\ Others(p)
BY DEF Types, Goto, Others

LEMMA Goes ==
    ASSUME Types, NEW p \in Processes, NEW step \in Step, Goto(p, step), task' = task
    PROVE  /\ pc' \in [Processes -> Step] /\ task' \in [Processes -> Task]
           /\ pc'[p] = step /\ task'[p] = task[p]
           /\ StoreOf(p)' = StoreOf(p)
           /\ Others(p)
BY DEF Types, Goto, Others, StoreOf

LEMMA Leaves ==
    ASSUME Types, NEW p \in Processes, Leave(p)
    PROVE  /\ pc' \in [Processes -> Step] /\ task' \in [Processes -> Task]
           /\ pc'[p] = "idle" /\ task'[p] = NoTask
           /\ Others(p) /\ ~InTransaction(p)' /\ ProcessInv(p)'
<1>1. /\ pc' \in [Processes -> Step] /\ task' \in [Processes -> Task]
      /\ pc'[p] = "idle" /\ task'[p] = NoTask /\ Others(p)
  BY NoTaskType, Moves DEF Leave, Step
<1>2. ProcessInv(p)'
  BY <1>1, NoTaskType
     DEF ProcessInv, KindInv, ServeInv, CopyInv, RestoreInv, Serving, Running, Restoring
<1>3. QED
  BY <1>1, <1>2 DEF InTransaction

LEMMA Refuses ==
    ASSUME Types, NEW p \in Processes, NEW kind \in {"serve", "maintain", "restore"},
           NEW i \in 1..Len(Stores), Refuse(p, kind, i),
           kind = "restore" => \A q \in Processes \ {p} : pc[q] = "idle"
    PROVE  /\ pc' \in [Processes -> Step] /\ task' \in [Processes -> Task]
           /\ pc'[p] = "refused" /\ task'[p] = Work(kind, i, 0)
           /\ task'[p].kind = kind /\ task'[p].place = i
           /\ Others(p) /\ ~InTransaction(p)' /\ ProcessInv(p)'
<1>1. Work(kind, i, 0) \in Task /\ Work(kind, i, 0).kind = kind /\ Work(kind, i, 0).place = i
  BY WorkType, Bounds
<1>2. /\ pc' \in [Processes -> Step] /\ task' \in [Processes -> Task]
      /\ pc'[p] = "refused" /\ task'[p] = Work(kind, i, 0) /\ Others(p)
  BY <1>1, Moves DEF Refuse, Step
<1>3. ProcessInv(p)'
  BY <1>1, <1>2
     DEF ProcessInv, KindInv, ServeInv, CopyInv, RestoreInv, Serving, Running, Restoring, Others
<1>4. QED
  BY <1>1, <1>2, <1>3 DEF InTransaction

-----------------------------------------------------------------------------
(* The steps that touch no store.                                          *)

LEMMA LeavingSafe ==
    ASSUME SInv, NEW p \in Processes, pc[p] # "idle", ~InTransaction(p), Leave(p),
           UNCHANGED <<now, begun, db, journal, holder, damaged, backups>>
    PROVE  SInv'
<1>1. Types
  BY DEF SInv
<1>2. /\ pc' \in [Processes -> Step] /\ task' \in [Processes -> Task]
      /\ Others(p) /\ ~InTransaction(p)' /\ ProcessInv(p)'
  BY <1>1, Leaves
<1>3. Types'
  BY <1>1, <1>2 DEF Types
<1>4. BackupsRestorable'
  BY DEF SInv, BackupsRestorable, Present
<1>5. UNCHANGED <<db, journal, holder, damaged>>
  OBVIOUS
<1>6. QED
  BY <1>2, <1>3, <1>4, <1>5, QuietSafe

LEMMA RefusedSafe == ASSUME SInv, NEW p \in Processes, Refused(p) PROVE SInv'
BY LeavingSafe DEF Refused, InTransaction

(* What a process that waits, or a run, works on.                          *)
LEMMA WorksOn ==
    ASSUME SInv, NEW p \in Processes, Serving(p) \/ Running(p)
    PROVE  /\ task[p].kind \in {"serve", "maintain"} /\ task[p].place \in 1..Len(Stores)
           /\ StoreOf(p) \in Store /\ Stores[task[p].place] = StoreOf(p)
BY PlaceType DEF SInv, ProcessInv, KindInv, StoreOf

LEMMA RefusingSafe ==
    ASSUME SInv, NEW p \in Processes, Serving(p) \/ Running(p), ~InTransaction(p),
           Refuse(p, task[p].kind, task[p].place),
           UNCHANGED <<now, begun, db, journal, holder, damaged, backups>>
    PROVE  SInv'
<1>1. Types /\ pc[p] # "idle"
  BY DEF SInv, Serving, Running
<1>2. /\ pc' \in [Processes -> Step] /\ task' \in [Processes -> Task]
      /\ Others(p) /\ ~InTransaction(p)' /\ ProcessInv(p)'
  BY <1>1, WorksOn, Refuses
<1>3. Types'
  BY <1>1, <1>2 DEF Types
<1>4. BackupsRestorable'
  BY DEF SInv, BackupsRestorable, Present
<1>5. UNCHANGED <<db, journal, holder, damaged>>
  OBVIOUS
<1>6. QED
  BY <1>1, <1>2, <1>3, <1>4, <1>5, QuietSafe

LEMMA BusySafe == ASSUME SInv, NEW p \in Processes, Busy(p) PROVE SInv'
BY RefusingSafe DEF Busy, InTransaction, Serving

LEMMA ListFailsSafe == ASSUME SInv, NEW p \in Processes, ListFails(p) PROVE SInv'
BY RefusingSafe DEF ListFails, InTransaction, Running

LEMMA MaintainSafe == ASSUME SInv, NEW p \in Processes, Maintain(p) PROVE SInv'
<1> DEFINE t == Work("maintain", 1, now)
<1>1. Types /\ now \in Name /\ 1 \in 1..Len(Stores)
  BY Places DEF SInv, Types
<1>2. t \in Task /\ t.kind = "maintain"
  BY <1>1, WorkType
<1>3. /\ pc' \in [Processes -> Step] /\ task' \in [Processes -> Task]
      /\ pc'[p] = "copy" /\ task'[p] = t /\ Others(p)
  BY <1>1, <1>2, Moves DEF Maintain, Step
<1>4. Types'
  BY <1>1, <1>3 DEF Types, Maintain
<1>5. ProcessInv(p)'
  BY <1>2, <1>3
     DEF ProcessInv, KindInv, ServeInv, CopyInv, RestoreInv, Serving, Running, Restoring
<1>6. BackupsRestorable'
  BY DEF SInv, BackupsRestorable, Present, Maintain
<1>7. ~InTransaction(p) /\ ~InTransaction(p)' /\ NobodyRestores
  BY <1>3 DEF Maintain, InTransaction
<1>8. UNCHANGED <<db, journal, holder, damaged>>
  BY DEF Maintain
<1>9. QED
  BY <1>3, <1>4, <1>5, <1>6, <1>7, <1>8, QuietSafe

LEMMA PublishSafe == ASSUME SInv, NEW p \in Processes, Publish(p) PROVE SInv'
<1>1. Types /\ BackupsRestorable /\ ProcessInv(p)
  BY DEF SInv
<1>2. /\ task[p] \in Task /\ task[p].place \in 1..Len(Stores) /\ StoreOf(p) \in Store
  BY <1>1, PlaceType
<1>3. task[p].copy \in Backup /\ task[p].stamp \in Name /\ task[p].kind = "maintain"
  BY <1>1, <1>2 DEF Task, ProcessInv, KindInv, Running, Publish
<1>4. UNCHANGED <<db, journal, holder, damaged>>
  BY DEF Publish
<1>5. ~InTransaction(p) /\ pc[p] # "idle"
  BY DEF Publish, InTransaction
<1>6. CASE Validates(p)
  <2> DEFINE t == [task[p] EXCEPT !.copy = NoBackup]
  <2>1. t \in Task /\ t.kind = "maintain"
    BY <1>2, <1>3, NoBackupType DEF Task
  <2>2. Goto(p, "list") /\ task' = [task EXCEPT ![p] = t]
    BY <1>3, <1>6 DEF Publish
  <2>3. /\ pc' \in [Processes -> Step] /\ task' \in [Processes -> Task]
        /\ pc'[p] = "list" /\ task'[p] = t /\ Others(p)
    BY <1>1, <2>1, <2>2, Moves DEF Step
  <2>4. backups' = [backups EXCEPT ![StoreOf(p)][task[p].stamp] = task[p].copy]
    BY <1>6 DEF Publish
  <2>5. backups' \in [Store -> [Name -> Backup]]
    BY <1>1, <1>2, <1>3, <2>4 DEF Types
  <2>6. Types'
    BY <1>1, <2>3, <2>5 DEF Types, Publish
  <2>7. ProcessInv(p)'
    BY <2>1, <2>3
       DEF ProcessInv, KindInv, ServeInv, CopyInv, RestoreInv, Serving, Running, Restoring
  <2>8. BackupsRestorable'
    BY <1>1, <1>2, <1>3, <1>6, <2>4 DEF BackupsRestorable, Present, Types, Validates
  <2>9. ~InTransaction(p)'
    BY <2>3 DEF InTransaction
  <2>10. QED
    BY <1>4, <1>5, <2>3, <2>6, <2>7, <2>8, <2>9, QuietSafe
<1>7. CASE ~Validates(p)
  <2>1. Refuse(p, "maintain", task[p].place) /\ backups' = backups
    BY <1>3, <1>7 DEF Publish
  <2>2. /\ pc' \in [Processes -> Step] /\ task' \in [Processes -> Task]
        /\ Others(p) /\ ~InTransaction(p)' /\ ProcessInv(p)'
    BY <1>1, <1>2, <2>1, Refuses
  <2>3. Types'
    BY <1>1, <2>1, <2>2 DEF Types, Publish
  <2>4. BackupsRestorable'
    BY <1>1, <2>1 DEF BackupsRestorable, Present
  <2>5. QED
    BY <1>4, <1>5, <2>2, <2>3, <2>4, QuietSafe
<1>8. QED
  BY <1>6, <1>7

LEMMA ListSafe == ASSUME SInv, NEW p \in Processes, List(p) PROVE SInv'
<1>1. Types /\ ProcessInv(p)
  BY DEF SInv
<1>2. task[p] \in Task /\ task[p].kind = "maintain" /\ pc[p] = "list"
  BY <1>1, PlaceType DEF ProcessInv, KindInv, Running, List
<1>3. PICK doomed \in SUBSET Present(StoreOf(p)) :
          task' = [task EXCEPT ![p].doomed = doomed]
  BY DEF List
<1> DEFINE t == [task[p] EXCEPT !.doomed = doomed]
<1>4. doomed \in SUBSET Name
  BY DEF Present
<1>5. t \in Task /\ t.kind = "maintain"
  BY <1>2, <1>4 DEF Task
<1>6. Goto(p, "delete") /\ task' = [task EXCEPT ![p] = t]
  BY <1>3 DEF List
<1>7. /\ pc' \in [Processes -> Step] /\ task' \in [Processes -> Task]
      /\ pc'[p] = "delete" /\ task'[p] = t /\ Others(p)
  BY <1>1, <1>5, <1>6, Moves DEF Step
<1>8. Types'
  BY <1>1, <1>7 DEF Types, List
<1>9. ProcessInv(p)'
  BY <1>5, <1>7
     DEF ProcessInv, KindInv, ServeInv, CopyInv, RestoreInv, Serving, Running, Restoring
<1>10. BackupsRestorable'
  BY DEF SInv, BackupsRestorable, Present, List
<1>11. ~InTransaction(p) /\ ~InTransaction(p)' /\ pc[p] # "idle"
  BY <1>2, <1>7 DEF InTransaction
<1>12. UNCHANGED <<db, journal, holder, damaged>>
  BY DEF List
<1>13. QED
  BY <1>7, <1>8, <1>9, <1>10, <1>11, <1>12, QuietSafe

LEMMA DeleteSafe == ASSUME SInv, NEW p \in Processes, Delete(p) PROVE SInv'
<1>1. Types /\ ProcessInv(p) /\ BackupsRestorable
  BY DEF SInv
<1>2. task[p] \in Task /\ StoreOf(p) \in Store
  BY <1>1, PlaceType
<1>3. task[p].kind = "maintain" /\ pc[p] = "delete" /\ task[p].doomed \subseteq Name
  BY <1>1, <1>2 DEF ProcessInv, KindInv, Running, Delete, Task
<1>4. PICK n \in task[p].doomed :
         /\ task' = [task EXCEPT ![p].doomed = @ \ {n}]
         /\ \/ backups' = [backups EXCEPT ![StoreOf(p)][n] = NoBackup]
            \/ UNCHANGED backups
  BY DEF Delete
<1> DEFINE t == [task[p] EXCEPT !.doomed = @ \ {n}]
<1>5. t \in Task /\ t.kind = "maintain" /\ n \in Name
  BY <1>2, <1>3 DEF Task
<1>6. /\ task' = [task EXCEPT ![p] = t]
  BY <1>4
<1>7. /\ task' \in [Processes -> Task] /\ task'[p] = t /\ Others(p)
  BY <1>1, <1>5, <1>6 DEF Types, Others, Delete
<1>8. backups' \in [Store -> [Name -> Backup]]
  <2>1. backups \in [Store -> [Name -> Backup]] /\ NoBackup \in Backup
    BY <1>1, NoBackupType DEF Types
  <2>2. CASE backups' = [backups EXCEPT ![StoreOf(p)][n] = NoBackup]
    BY <1>2, <1>5, <2>1, <2>2
  <2>3. QED
    BY <1>4, <2>1, <2>2
<1>9. Types'
  BY <1>1, <1>7, <1>8 DEF Types, Delete
<1>10. pc' = pc
  BY DEF Delete
<1>11. ProcessInv(p)'
  BY <1>3, <1>5, <1>7, <1>10
     DEF ProcessInv, KindInv, ServeInv, CopyInv, RestoreInv, Serving, Running, Restoring
<1>12. BackupsRestorable'
  BY <1>1, <1>2, <1>4, <1>5, NoBackupType DEF BackupsRestorable, Present, Types
<1>13. ~InTransaction(p) /\ ~InTransaction(p)' /\ pc[p] # "idle"
  BY <1>3, <1>10 DEF InTransaction
<1>14. UNCHANGED <<db, journal, holder, damaged>>
  BY DEF Delete
<1>15. QED
  BY <1>7, <1>9, <1>11, <1>12, <1>13, <1>14, QuietSafe

LEMMA NextStoreSafe == ASSUME SInv, NEW p \in Processes, NextStore(p) PROVE SInv'
<1>1. Types /\ ProcessInv(p)
  BY DEF SInv
<1>2. task[p] \in Task /\ task[p].place \in 1..Len(Stores)
  BY <1>1, PlaceType
<1>3. task[p].kind = "maintain" /\ pc[p] = "delete"
  BY <1>1 DEF ProcessInv, KindInv, Running, NextStore
<1>4. BackupsRestorable'
  BY DEF SInv, BackupsRestorable, Present, NextStore
<1>5. ~InTransaction(p) /\ pc[p] # "idle"
  BY <1>3 DEF InTransaction
<1>6. UNCHANGED <<db, journal, holder, damaged>>
  BY DEF NextStore
<1>7. CASE task[p].place < Len(Stores)
  <2> DEFINE t == [task[p] EXCEPT !.place = @ + 1]
  <2>1. task[p].place + 1 \in 1..Len(Stores)
    BY <1>2, <1>7, Places
  <2>2. t \in Task /\ t.kind = "maintain"
    BY <1>2, <1>3, <2>1 DEF Task
  <2>3. Goto(p, "copy") /\ task' = [task EXCEPT ![p] = t]
    BY <1>2, <1>7, Places DEF NextStore
  <2>4. /\ pc' \in [Processes -> Step] /\ task' \in [Processes -> Task]
        /\ pc'[p] = "copy" /\ task'[p] = t /\ Others(p)
    BY <1>1, <2>2, <2>3, Moves DEF Step
  <2>5. Types'
    BY <1>1, <2>4 DEF Types, NextStore
  <2>6. ProcessInv(p)' /\ ~InTransaction(p)'
    BY <2>2, <2>4 DEF InTransaction,
       ProcessInv, KindInv, ServeInv, CopyInv, RestoreInv, Serving, Running, Restoring
  <2>7. QED
    BY <1>4, <1>5, <1>6, <2>4, <2>5, <2>6, QuietSafe
<1>8. CASE task[p].place = Len(Stores)
  <2>1. Goto(p, "dispose") /\ task' = task
    BY <1>2, <1>8, Places DEF NextStore
  <2>2. /\ pc' \in [Processes -> Step] /\ task' \in [Processes -> Task]
        /\ pc'[p] = "dispose" /\ task'[p] = task[p] /\ Others(p)
    BY <1>1, <2>1, Goes DEF Step
  <2>3. Types'
    BY <1>1, <2>2 DEF Types, NextStore
  <2>4. ProcessInv(p)' /\ ~InTransaction(p)'
    BY <1>3, <2>2 DEF InTransaction,
       ProcessInv, KindInv, ServeInv, CopyInv, RestoreInv, Serving, Running, Restoring
  <2>5. QED
    BY <1>4, <1>5, <1>6, <2>2, <2>3, <2>4, QuietSafe
<1>9. QED
  BY <1>2, <1>7, <1>8, Places DEF NextStore
-----------------------------------------------------------------------------
(* The steps that open a store.                                            *)

LEMMA CreatedType ==
    ASSUME NEW c \in Database
    PROVE  /\ Created(c) \in Database
           /\ Created(c).there /\ Created(c).file = c.file
           /\ IF c.there THEN Created(c) = c ELSE Usable(Created(c))
BY Bounds DEF Created, Database, Usable

LEMMA OpenSafe ==
    ASSUME SInv, NEW p \in Processes, NEW i \in DOMAIN Stores, Open(p, i),
           pc[p] # "idle" \/ NobodyRestores, ~InTransaction(p)
    PROVE  SInv'
<1> DEFINE s == Stores[i]
           c == Created(Committed(s))
           t == [Work("serve", i, 0) EXCEPT !.applied = c.schema]
<1>1. Types /\ Locks /\ s \in Store /\ i \in 1..Len(Stores) /\ StoreInv(s)
  BY Places DEF SInv
<1>2. Committed(s) \in Database /\ Committed(s).file = db[s].file
  BY <1>1, CommittedType, CommittedIs
<1>3. /\ c \in Database /\ c.there /\ c.file = db[s].file
      /\ IF Committed(s).there THEN c = Committed(s) ELSE Usable(c)
  BY <1>2, CreatedType
<1>4. Access(s, c) /\ UNCHANGED <<now, begun, holder, damaged, backups>>
  BY DEF Open
<1>5. /\ \A o \in Store : StoreInv(o)' /\ Lasts(o, p)
      /\ Committed(s)' = c
      /\ \A o \in Store : holder[o] # Nobody => journal'[o] = journal[o]
      /\ db' \in [Store -> Database]
      /\ journal' \in [Store -> Journal]
  <2> HIDE DEF c, s
  <2>1. QED
    BY <1>1, <1>3, <1>4, AccessLasts
<1>6. BackupsRestorable'
  BY <1>4 DEF SInv, BackupsRestorable, Present
<1>7. /\ pc' \in [Processes -> Step] /\ task' \in [Processes -> Task]
      /\ Others(p) /\ ~InTransaction(p)' /\ ProcessInv(p)'
  <2>1. CASE Refuse(p, "serve", i)
    BY <1>1, <2>1, Refuses
  <2>2. CASE /\ c.schema <= Latest
             /\ Goto(p, IF c.schema = Latest THEN "write" ELSE "lock")
             /\ task' = [task EXCEPT ![p] = t]
    <3>1. PICK step \in {"write", "lock"} : Goto(p, step)
      BY <2>2
    <3>2. c.schema \in Version
      BY <1>3 DEF Database
    <3>3. t \in Task /\ t.kind = "serve" /\ t.place = i
      <4>1. Work("serve", i, 0) \in Task /\ Work("serve", i, 0).kind = "serve"
            /\ Work("serve", i, 0).place = i
        BY <1>1, WorkType, Bounds
      <4> HIDE DEF c
      <4>2. QED
        BY <3>2, <4>1 DEF Task
    <3> HIDE DEF t
    <3>4. /\ pc' \in [Processes -> Step] /\ task' \in [Processes -> Task]
          /\ pc'[p] = step /\ task'[p] = t /\ Others(p)
      <4>1. Types /\ step \in Step /\ t \in Task
        BY <1>1, <3>3 DEF Step
      <4>2. Goto(p, step) /\ task' = [task EXCEPT ![p] = t]
        BY <2>2, <3>1
      <4>3. QED
        BY <4>1, <4>2, Moves
    <3>5. StoreOf(p)' = s
      BY <3>3, <3>4 DEF StoreOf
    <3>6. ServeInv(p)'
      BY <1>3, <1>5, <3>1, <3>4, <3>5 DEF ServeInv
    <3>7. ProcessInv(p)' /\ ~InTransaction(p)'
      BY <3>1, <3>3, <3>4, <3>6
         DEF ProcessInv, KindInv, CopyInv, RestoreInv, Serving, Running, Restoring, InTransaction
    <3>8. QED
      BY <3>4, <3>7
  <2>3. QED
    BY <2>1, <2>2 DEF Open
<1>8. Types'
  BY <1>1, <1>4, <1>5, <1>7 DEF Types
<1>9. Locks'
  BY <1>1, <1>4, <1>5, <1>7, <1>8, LocksStay
<1>10. QED
  BY <1>5, <1>6, <1>7, <1>8, <1>9, StepSafe

LEMMA ServeSafe == ASSUME SInv, NEW p \in Processes, Serve(p) PROVE SInv'
BY OpenSafe DEF Serve, InTransaction

LEMMA DisposeSafe == ASSUME SInv, NEW p \in Processes, Dispose(p) PROVE SInv'
<1>1. pc[p] # "idle" /\ ~InTransaction(p)
  BY DEF Dispose, InTransaction
<1>2. CASE /\ Refuse(p, task[p].kind, task[p].place)
           /\ UNCHANGED <<now, begun, db, journal, holder, damaged, backups>>
  BY <1>1, <1>2, RefusingSafe DEF Dispose, Running
<1>3. CASE \E i \in DOMAIN Stores : Open(p, i)
  BY <1>1, <1>3, OpenSafe
<1>4. QED
  BY <1>2, <1>3 DEF Dispose

LEMMA CopySafe == ASSUME SInv, NEW p \in Processes, Copy(p) PROVE SInv'
<1>0. PICK s \in Store : s = StoreOf(p)
  BY PlaceType DEF SInv
<1> DEFINE c == Committed(s)
           b == [there |-> TRUE, at |-> now, schema |-> c.schema, sound |-> c.sound]
           t == [task[p] EXCEPT !.copy = b]
<1>1. Types /\ Locks /\ ProcessInv(p)
  BY DEF SInv
<1>2. /\ task[p] \in Task /\ task[p].place \in 1..Len(Stores) /\ s \in Store
      /\ s = Stores[task[p].place]
  BY <1>1, <1>0, PlaceType
<1>3. task[p].kind = "maintain" /\ pc[p] = "copy" /\ now \in Name
  BY <1>1 DEF ProcessInv, KindInv, Running, Copy, Types
<1>4. StoreInv(s) /\ c \in Database /\ c.file = db[s].file
  BY <1>1, <1>2, CommittedType, CommittedIs DEF SInv
<1>5. BackupsRestorable'
  BY DEF SInv, BackupsRestorable, Present, Copy
<1>6. ~InTransaction(p) /\ pc[p] # "idle" /\ UNCHANGED <<now, begun, holder, damaged, backups>>
  BY <1>3 DEF InTransaction, Copy
<1>7. CASE /\ c.there /\ Access(s, c) /\ Goto(p, "publish")
           /\ task' = [task EXCEPT ![p].copy = b]
  <2>1. b \in Backup /\ b.there /\ (Usable(b) <=> Usable(c))
    BY <1>3, <1>4, <1>7 DEF Backup, Database, Name, Usable
  <2>2. /\ \A o \in Store : StoreInv(o)' /\ Lasts(o, p)
        /\ Committed(s)' = c
        /\ \A o \in Store : holder[o] # Nobody => journal'[o] = journal[o]
        /\ db' \in [Store -> Database]
        /\ journal' \in [Store -> Journal]
    <3>1. PICK d \in Database : d = c
      BY <1>4
    <3>2. /\ d.there /\ d.file = db[s].file /\ Committed(s) = d
          /\ Access(s, d) /\ UNCHANGED <<holder, damaged>>
      BY <1>4, <1>6, <1>7, <3>1
    <3>3. /\ \A r \in Store : StoreInv(r)' /\ Lasts(r, p)
          /\ Committed(s)' = d
          /\ \A r \in Store : holder[r] # Nobody => journal'[r] = journal[r]
          /\ db' \in [Store -> Database]
          /\ journal' \in [Store -> Journal]
      BY <3>2, AccessLasts
    <3>4. QED
      BY <3>1, <3>3
  <2> HIDE DEF b
  <2>3. t \in Task /\ t.kind = "maintain" /\ t.place = task[p].place /\ t.copy = b
    BY <1>2, <1>3, <2>1 DEF Task
  <2>4. task' = [task EXCEPT ![p] = t]
    BY <1>7
  <2> HIDE DEF t
  <2>5. /\ pc' \in [Processes -> Step] /\ task' \in [Processes -> Task]
        /\ pc'[p] = "publish" /\ task'[p] = t /\ Others(p)
    BY <1>1, <1>7, <2>3, <2>4, Moves DEF Step
  <2>6. StoreOf(p)' = s
    BY <1>2, <2>3, <2>5 DEF StoreOf
  <2>7. CopyInv(p)'
    <3>1. ~Usable(task'[p].copy) => c.there /\ ~Usable(c)
      BY <1>7, <2>1, <2>3, <2>5
    <3>2. Committed(StoreOf(p))' = c
      BY <2>2, <2>6
    <3>3. QED
      BY <2>1, <2>3, <2>5, <3>1, <3>2 DEF CopyInv, Usable
  <2>8. ProcessInv(p)' /\ ~InTransaction(p)'
    BY <2>3, <2>5, <2>7
       DEF ProcessInv, KindInv, ServeInv, RestoreInv, Serving, Running, Restoring, InTransaction
  <2>9. Types'
    BY <1>1, <1>6, <2>2, <2>5 DEF Types
  <2>10. Locks'
    BY <1>1, <1>6, <2>2, <2>5, <2>8, <2>9, LocksStay
  <2>11. QED
    BY <1>5, <1>6, <2>2, <2>5, <2>8, <2>9, <2>10, StepSafe
<1>8. CASE Refuse(p, "maintain", task[p].place) /\ UNCHANGED <<db, journal>>
  <2>1. /\ pc' \in [Processes -> Step] /\ task' \in [Processes -> Task]
        /\ Others(p) /\ ~InTransaction(p)' /\ ProcessInv(p)'
    BY <1>1, <1>2, <1>8, Refuses
  <2>2. Types'
    BY <1>1, <1>6, <1>8, <2>1 DEF Types
  <2>3. QED
    BY <1>5, <1>6, <1>8, <2>1, <2>2, QuietSafe
<1>9. QED
  BY <1>3, <1>7, <1>8, <1>0 DEF Copy
-----------------------------------------------------------------------------
(* The steps of a transaction.                                             *)

LEMMA BeginLocks ==
    ASSUME Types, Locks, NEW p \in Processes, NEW s \in Store, Others(p),
           ~InTransaction(p), InTransaction(p)', StoreOf(p)' = s, HasJournal(s)',
           holder[s] = Nobody, holder' = [holder EXCEPT ![s] = p],
           \A o \in Store : o # s => journal'[o] = journal[o]
    PROVE  Locks'
<1>1. holder'[s] = p /\ \A o \in Store : o # s => holder'[o] = holder[o]
  BY DEF Types
<1>2. ASSUME NEW q \in Processes, InTransaction(q)'
      PROVE  holder'[StoreOf(q)'] = q /\ HasJournal(StoreOf(q))'
  <2>1. CASE q = p
    BY <1>1, <2>1
  <2>2. CASE q # p
    <3>1. pc'[q] = pc[q] /\ StoreOf(q)' = StoreOf(q)
      BY <2>2 DEF Others, StoreOf
    <3>2. holder[StoreOf(q)] = q /\ HasJournal(StoreOf(q)) /\ StoreOf(q) \in Store
      BY <1>2, <3>1, PlaceType DEF Locks, InTransaction
    <3>3. StoreOf(q) # s
      BY <3>2, ProcessAssumption
    <3>4. QED
      BY <1>1, <3>1, <3>2, <3>3 DEF HasJournal
  <2>3. QED
    BY <2>1, <2>2
<1>3. ASSUME NEW o \in Store, holder'[o] # Nobody
      PROVE  StoreOf(holder[o])' = o /\ InTransaction(holder[o])'
  <2>1. CASE o = s
    BY <1>1, <2>1 DEF StoreOf, InTransaction
  <2>2. CASE o # s
    <3>1. PICK q \in Processes : q = holder[o] /\ q = holder'[o]
      BY <1>1, <1>3, <2>2 DEF Types
    <3>2. StoreOf(q) = o /\ InTransaction(q)
      BY <1>1, <1>3, <2>2, <3>1 DEF Locks
    <3>3. q # p
      BY <3>2
    <3>4. StoreOf(q)' = o /\ InTransaction(q)'
      BY <3>2, <3>3 DEF Others, StoreOf, InTransaction
    <3>5. QED
      BY <3>1, <3>4 DEF StoreOf, InTransaction
  <2>3. QED
    BY <2>1, <2>2
<1>4. QED
  BY <1>2, <1>3 DEF Locks

LEMMA EndLocks ==
    ASSUME Types, Locks, NEW p \in Processes, NEW s \in Store, Others(p),
           InTransaction(p), ~InTransaction(p)', StoreOf(p) = s,
           holder' = [holder EXCEPT ![s] = Nobody],
           \A o \in Store : o # s => journal'[o] = journal[o]
    PROVE  Locks'
<1>1. /\ holder'[s] = Nobody /\ holder[s] = p
      /\ \A o \in Store : o # s => holder'[o] = holder[o]
  BY DEF Types, Locks
<1>2. ASSUME NEW q \in Processes, InTransaction(q)'
      PROVE  holder'[StoreOf(q)'] = q /\ HasJournal(StoreOf(q))'
  <2>1. q # p
    BY <1>2
  <2>2. pc'[q] = pc[q] /\ StoreOf(q)' = StoreOf(q)
    BY <2>1 DEF Others, StoreOf
  <2>3. holder[StoreOf(q)] = q /\ HasJournal(StoreOf(q)) /\ StoreOf(q) \in Store
    BY <1>2, <2>2, PlaceType DEF Locks, InTransaction
  <2>4. StoreOf(q) # s
    BY <1>1, <2>1, <2>3
  <2>5. QED
    BY <1>1, <2>2, <2>3, <2>4 DEF HasJournal
<1>3. ASSUME NEW o \in Store, holder'[o] # Nobody
      PROVE  StoreOf(holder[o])' = o /\ InTransaction(holder[o])'
  <2>1. o # s
    BY <1>1, <1>3
  <2>2. PICK q \in Processes : q = holder[o] /\ q = holder'[o]
    BY <1>1, <1>3, <2>1 DEF Types
  <2>3. StoreOf(q) = o /\ InTransaction(q)
    BY <1>1, <1>3, <2>1, <2>2 DEF Locks
  <2>4. q # p
    BY <2>1, <2>3
  <2>5. StoreOf(q)' = o /\ InTransaction(q)'
    BY <2>3, <2>4 DEF Others, StoreOf, InTransaction
  <2>6. QED
    BY <2>2, <2>5 DEF StoreOf, InTransaction
<1>4. QED
  BY <1>2, <1>3 DEF Locks

LEMMA LockSafe == ASSUME SInv, NEW p \in Processes, Lock(p) PROVE SInv'
<1>1. Types /\ Locks /\ ProcessInv(p)
  BY DEF SInv
<1>2. PICK s \in Store : StoreOf(p) = s
  BY <1>1, PlaceType
<1>3. /\ task[p] \in Task /\ s = Stores[task[p].place] /\ pc[p] = "lock"
      /\ task[p].kind = "serve" /\ BeginImmediate(p) /\ holder[s] = Nobody
  BY <1>1, <1>2, PlaceType DEF ProcessInv, KindInv, Serving, Lock, BeginImmediate
<1>4. Committed(s).there /\ Committed(s) \in Database /\ Committed(s).schema \in Version
  BY <1>1, <1>2, <1>3, CommittedType DEF ProcessInv, ServeInv, Serving, Database
<1> DEFINE v == Committed(s).schema
           t == [task[p] EXCEPT !.applied = v]
<1>5. UNCHANGED <<now, begun, damaged, backups>> /\ ~InTransaction(p) /\ pc[p] # "idle"
  BY <1>3 DEF Lock, InTransaction
<1>6. /\ \A o \in Store : StoreInv(o)' /\ Lasts(o, p)
      /\ journal'[s].before = Committed(s)
      /\ Committed(s)' = Committed(s)
      /\ HasJournal(s)'
      /\ \A o \in Store : o # s => journal'[o] = journal[o]
      /\ db' \in [Store -> Database]
      /\ journal' \in [Store -> Journal]
      /\ holder' \in [Store -> Processes \cup {Nobody}]
  BY <1>2, <1>3, <1>4, <1>5, BeginLasts
<1>7. task' = [task EXCEPT ![p] = t] /\ Goto(p, "apply")
  BY <1>2 DEF Lock, Reread
<1>8. v \in Version /\ v = journal'[s].before.schema
  BY <1>4, <1>6
<1> HIDE DEF v
<1>9. t \in Task /\ t.kind = "serve" /\ t.place = task[p].place /\ t.applied = v
  BY <1>3, <1>8 DEF Task
<1> HIDE DEF t
<1>10. /\ pc' \in [Processes -> Step] /\ task' \in [Processes -> Task]
       /\ pc'[p] = "apply" /\ task'[p] = t /\ Others(p)
  BY <1>1, <1>7, <1>9, Moves DEF Step
<1>11. StoreOf(p)' = s /\ InTransaction(p)'
  BY <1>3, <1>9, <1>10 DEF StoreOf, InTransaction
<1>12. ServeInv(p)'
  <2>1. Committed(s)'.there /\ task'[p].applied = journal'[s].before.schema
    BY <1>4, <1>6, <1>8, <1>9, <1>10
  <2>2. QED
    BY <1>11, <2>1 DEF ServeInv
<1>13. ProcessInv(p)'
  BY <1>9, <1>10, <1>12
     DEF ProcessInv, KindInv, CopyInv, RestoreInv, Serving, Running, Restoring
<1>14. Types'
  BY <1>1, <1>5, <1>6, <1>10 DEF Types
<1>15. Locks'
  BY <1>1, <1>2, <1>3, <1>5, <1>6, <1>10, <1>11, BeginLocks DEF BeginImmediate
<1>16. BackupsRestorable'
  BY <1>5 DEF SInv, BackupsRestorable, Present
<1>17. QED
  BY <1>5, <1>6, <1>10, <1>13, <1>14, <1>15, <1>16, StepSafe

LEMMA WriteSafe == ASSUME SInv, NEW p \in Processes, Write(p) PROVE SInv'
<1>1. Types /\ Locks /\ ProcessInv(p)
  BY DEF SInv
<1>2. PICK s \in Store : StoreOf(p) = s
  BY <1>1, PlaceType
<1>3. /\ task[p] \in Task /\ pc[p] = "write"
      /\ task[p].kind = "serve" /\ BeginImmediate(p) /\ holder[s] = Nobody
  BY <1>1, <1>2, PlaceType DEF ProcessInv, KindInv, Serving, Write, BeginImmediate
<1>4. Committed(s).there
  BY <1>1, <1>2, <1>3 DEF ProcessInv, ServeInv, Serving
<1>5. UNCHANGED <<now, begun, damaged, backups>> /\ ~InTransaction(p) /\ pc[p] # "idle"
  BY <1>3 DEF Write, InTransaction
<1>6. /\ \A o \in Store : StoreInv(o)' /\ Lasts(o, p)
      /\ Committed(s)' = Committed(s)
      /\ HasJournal(s)'
      /\ \A o \in Store : o # s => journal'[o] = journal[o]
      /\ db' \in [Store -> Database]
      /\ journal' \in [Store -> Journal]
      /\ holder' \in [Store -> Processes \cup {Nobody}]
  BY <1>2, <1>3, <1>4, <1>5, BeginLasts
<1>7. /\ pc' \in [Processes -> Step] /\ task' \in [Processes -> Task]
      /\ pc'[p] = "commit" /\ task'[p] = task[p] /\ StoreOf(p)' = s /\ Others(p)
  BY <1>1, <1>2, Goes DEF Step, Write
<1>8. InTransaction(p)'
  BY <1>7 DEF InTransaction
<1>9. ServeInv(p)'
  BY <1>4, <1>6, <1>7 DEF ServeInv
<1>10. ProcessInv(p)'
  BY <1>3, <1>7, <1>9
     DEF ProcessInv, KindInv, CopyInv, RestoreInv, Serving, Running, Restoring
<1>11. Types'
  BY <1>1, <1>5, <1>6, <1>7 DEF Types
<1>12. Locks'
  BY <1>1, <1>2, <1>3, <1>5, <1>6, <1>7, <1>8, BeginLocks DEF BeginImmediate
<1>13. BackupsRestorable'
  BY <1>5 DEF SInv, BackupsRestorable, Present
<1>14. QED
  BY <1>5, <1>6, <1>7, <1>10, <1>11, <1>12, <1>13, StepSafe

LEMMA ApplySafe == ASSUME SInv, NEW p \in Processes, Apply(p) PROVE SInv'
<1>1. Types /\ Locks /\ ProcessInv(p)
  BY DEF SInv
<1>2. PICK s \in Store : StoreOf(p) = s
  BY <1>1, PlaceType
<1>3. /\ task[p] \in Task /\ task[p].place \in 1..Len(Stores) /\ s = Stores[task[p].place]
      /\ pc[p] = "apply" /\ task[p].kind = "serve" /\ InTransaction(p)
  BY <1>1, <1>2, PlaceType DEF ProcessInv, KindInv, Serving, Apply, InTransaction
<1>4. UNCHANGED <<now, begun, damaged, backups>> /\ pc[p] # "idle"
  BY <1>3 DEF Apply
<1>5. BackupsRestorable'
  BY <1>4 DEF SInv, BackupsRestorable, Present
<1> DEFINE before == journal[s].before
<1>6. CASE /\ before.schema <= Latest
           /\ EndTransaction(p, [before EXCEPT !.schema = Latest])
           /\ Goto(p, "write")
           /\ task' = [task EXCEPT ![p].applied = Latest]
  <2> DEFINE t == [task[p] EXCEPT !.applied = Latest]
  <2>1. /\ \A o \in Store : StoreInv(o)' /\ Lasts(o, p)
        /\ Committed(s)'.there
        /\ \A o \in Store : o # s => journal'[o] = journal[o]
        /\ db' \in [Store -> Database]
        /\ journal' \in [Store -> Journal]
        /\ holder' \in [Store -> Processes \cup {Nobody}]
    BY <1>2, <1>3, <1>4, <1>6, EndLasts
  <2>2. t \in Task /\ t.kind = "serve" /\ t.place = task[p].place
    BY <1>3, Bounds DEF Task
  <2>3. task' = [task EXCEPT ![p] = t]
    BY <1>6
  <2> HIDE DEF t
  <2>4. /\ pc' \in [Processes -> Step] /\ task' \in [Processes -> Task]
        /\ pc'[p] = "write" /\ task'[p] = t /\ Others(p)
    BY <1>1, <1>6, <2>2, <2>3, Moves DEF Step
  <2>5. StoreOf(p)' = s /\ ~InTransaction(p)'
    BY <1>3, <2>2, <2>4 DEF StoreOf, InTransaction
  <2>6. ServeInv(p)'
    BY <2>1, <2>4, <2>5 DEF ServeInv
  <2>7. ProcessInv(p)'
    BY <2>2, <2>4, <2>6
       DEF ProcessInv, KindInv, CopyInv, RestoreInv, Serving, Running, Restoring
  <2>8. Types'
    BY <1>1, <1>4, <2>1, <2>4 DEF Types
  <2>9. holder' = [holder EXCEPT ![s] = Nobody]
    BY <1>2, <1>6 DEF EndTransaction
  <2>10. Locks'
    BY <1>1, <1>2, <1>3, <2>1, <2>4, <2>5, <2>9, EndLocks
  <2>11. QED
    BY <1>4, <1>5, <2>1, <2>4, <2>7, <2>8, <2>10, StepSafe
<1>7. CASE EndTransaction(p, before) /\ Refuse(p, "serve", task[p].place)
  <2>1. /\ \A o \in Store : StoreInv(o)' /\ Lasts(o, p)
        /\ \A o \in Store : o # s => journal'[o] = journal[o]
        /\ db' \in [Store -> Database]
        /\ journal' \in [Store -> Journal]
        /\ holder' \in [Store -> Processes \cup {Nobody}]
    BY <1>2, <1>3, <1>4, <1>7, EndLasts
  <2>2. /\ pc' \in [Processes -> Step] /\ task' \in [Processes -> Task]
        /\ Others(p) /\ ~InTransaction(p)' /\ ProcessInv(p)'
    BY <1>1, <1>3, <1>7, Refuses
  <2>3. Types'
    BY <1>1, <1>4, <2>1, <2>2 DEF Types
  <2>4. holder' = [holder EXCEPT ![s] = Nobody]
    BY <1>2, <1>7 DEF EndTransaction
  <2>5. Locks'
    BY <1>1, <1>2, <1>3, <2>1, <2>2, <2>4, EndLocks
  <2>6. QED
    BY <1>4, <1>5, <2>1, <2>2, <2>3, <2>5, StepSafe
<1>8. QED
  BY <1>2, <1>3, <1>6, <1>7 DEF Apply

LEMMA CommitSafe == ASSUME SInv, NEW p \in Processes, Commit(p) PROVE SInv'
<1>1. Types /\ Locks /\ ProcessInv(p)
  BY DEF SInv
<1>2. PICK s \in Store : StoreOf(p) = s
  BY <1>1, PlaceType
<1>3. /\ InTransaction(p) /\ pc[p] # "idle" /\ Serving(p)
      /\ UNCHANGED <<now, begun, damaged, backups>>
  BY DEF Commit, InTransaction, Serving
<1>4. EndTransaction(p, journal[s].before)
      /\ (Leave(p) \/ Refuse(p, task[p].kind, task[p].place))
  BY <1>2 DEF Commit
<1>5. /\ \A o \in Store : StoreInv(o)' /\ Lasts(o, p)
      /\ \A o \in Store : o # s => journal'[o] = journal[o]
      /\ db' \in [Store -> Database]
      /\ journal' \in [Store -> Journal]
      /\ holder' \in [Store -> Processes \cup {Nobody}]
  BY <1>2, <1>3, <1>4, EndLasts
<1>6. /\ pc' \in [Processes -> Step] /\ task' \in [Processes -> Task]
      /\ Others(p) /\ ~InTransaction(p)' /\ ProcessInv(p)'
  <2>1. CASE Leave(p)
    BY <1>1, <2>1, Leaves
  <2>2. CASE Refuse(p, task[p].kind, task[p].place)
    BY <1>1, <1>3, <2>2, WorksOn, Refuses
  <2>3. QED
    BY <1>4, <2>1, <2>2
<1>7. Types'
  BY <1>1, <1>3, <1>5, <1>6 DEF Types
<1>8. holder' = [holder EXCEPT ![s] = Nobody]
  BY <1>2, <1>4 DEF EndTransaction
<1>9. Locks'
  BY <1>1, <1>2, <1>3, <1>5, <1>6, <1>8, EndLocks
<1>10. BackupsRestorable'
  BY <1>3 DEF SInv, BackupsRestorable, Present
<1>11. QED
  BY <1>3, <1>5, <1>6, <1>7, <1>9, <1>10, StepSafe
-----------------------------------------------------------------------------
(* A restore, which is alone.                                              *)

LEMMA RestoreSafe == ASSUME SInv, NEW p \in Processes, Restore(p) PROVE SInv'
<1>1. Types /\ AllStopped /\ pc[p] = "idle" /\ ~InTransaction(p)
  BY DEF SInv, Restore, AllStopped, InTransaction
<1>2. PICK i \in DOMAIN Stores, n \in Name :
          /\ backups[Stores[i]][n].there
          /\ db[Stores[i]].file < MaxFiles
          /\ \/ /\ Goto(p, "fetch")
                /\ task' = [task EXCEPT ![p] = Work("restore", i, n)]
             \/ Refuse(p, "restore", i)
  BY DEF Restore
<1>3. i \in 1..Len(Stores)
  BY Places
<1>4. UNCHANGED <<now, begun, db, journal, holder, damaged, backups>>
  BY DEF Restore
<1>5. BackupsRestorable'
  BY <1>4 DEF SInv, BackupsRestorable, Present
<1>6. /\ pc' \in [Processes -> Step] /\ task' \in [Processes -> Task]
      /\ Others(p) /\ ~InTransaction(p)' /\ ProcessInv(p)'
  <2>1. CASE Refuse(p, "restore", i)
    BY <1>1, <1>3, <2>1, Refuses DEF AllStopped
  <2>2. CASE Goto(p, "fetch") /\ task' = [task EXCEPT ![p] = Work("restore", i, n)]
    <3> DEFINE t == Work("restore", i, n)
    <3>1. t \in Task /\ t.kind = "restore" /\ t.place = i /\ t.stamp = n
      BY <1>3, WorkType
    <3> HIDE DEF t
    <3>2. /\ pc' \in [Processes -> Step] /\ task' \in [Processes -> Task]
          /\ pc'[p] = "fetch" /\ task'[p] = t /\ Others(p)
      BY <1>1, <2>2, <3>1, Moves DEF Step, t
    <3>3. StoreOf(p)' = Stores[i]
      BY <3>1, <3>2 DEF StoreOf
    <3>4. RestoreInv(p)'
      <4>1. \A q \in Processes \ {p} : pc'[q] = "idle"
        BY <1>1, <3>2 DEF AllStopped, Others
      <4>2. db'[Stores[i]].file < MaxFiles /\ backups'[Stores[i]][task'[p].stamp].there
        BY <1>2, <1>4, <3>1, <3>2
      <4>3. QED
        BY <3>2, <3>3, <4>1, <4>2 DEF RestoreInv
    <3>5. ProcessInv(p)' /\ ~InTransaction(p)'
      BY <3>1, <3>2, <3>4
         DEF ProcessInv, KindInv, ServeInv, CopyInv, Serving, Running, Restoring, InTransaction
    <3>6. QED
      BY <3>2, <3>5
  <2>3. QED
    BY <1>2, <2>1, <2>2
<1>7. Types'
  BY <1>1, <1>4, <1>6 DEF Types
<1>8. QED
  BY <1>1, <1>4, <1>5, <1>6, <1>7, QuietSafe

LEMMA FetchSafe == ASSUME SInv, NEW p \in Processes, Fetch(p) PROVE SInv'
<1>1. Types /\ ProcessInv(p)
  BY DEF SInv
<1>2. PICK s \in Store : StoreOf(p) = s
  BY <1>1, PlaceType
<1>3. /\ task[p] \in Task /\ task[p].place \in 1..Len(Stores) /\ s = Stores[task[p].place]
      /\ pc[p] = "fetch" /\ task[p].kind = "restore" /\ task[p].stamp \in Name
  BY <1>1, <1>2, PlaceType DEF ProcessInv, KindInv, Restoring, Fetch, Task
<1>4. (\A q \in Processes \ {p} : pc[q] = "idle") /\ db[s].file < MaxFiles
  BY <1>1, <1>2, <1>3 DEF ProcessInv, RestoreInv, Restoring
<1>5. UNCHANGED <<now, begun, db, journal, holder, damaged, backups>>
  BY DEF Fetch
<1>6. BackupsRestorable'
  BY <1>5 DEF SInv, BackupsRestorable, Present
<1>7. pc[p] # "idle" /\ ~InTransaction(p)
  BY <1>3 DEF InTransaction
<1> DEFINE b == backups[s][task[p].stamp]
           c == [b EXCEPT !.schema = Latest]
           t == [task[p] EXCEPT !.copy = c]
<1>8. b \in Backup
  BY <1>1, <1>3 DEF Types
<1>9. /\ pc' \in [Processes -> Step] /\ task' \in [Processes -> Task]
      /\ Others(p) /\ ~InTransaction(p)' /\ ProcessInv(p)'
  <2>1. CASE Refuse(p, "restore", task[p].place)
    BY <1>1, <1>3, <1>4, <2>1, Refuses
  <2>2. CASE Usable(b) /\ task' = [task EXCEPT ![p].copy = c] /\ Goto(p, "replace")
    <3> HIDE DEF b
    <3>1. c \in Backup /\ Usable(c)
      BY <1>8, <2>2, Bounds DEF Backup, Usable
    <3> HIDE DEF c
    <3>2. /\ t \in Task /\ t.kind = "restore" /\ t.copy = c
          /\ t.place = task[p].place /\ t.stamp = task[p].stamp
      BY <1>3, <3>1 DEF Task
    <3>3. task' = [task EXCEPT ![p] = t]
      BY <2>2
    <3> HIDE DEF t
    <3>4. /\ pc' \in [Processes -> Step] /\ task' \in [Processes -> Task]
          /\ pc'[p] = "replace" /\ task'[p] = t /\ Others(p)
      BY <1>1, <2>2, <3>2, <3>3, Moves DEF Step
    <3>5. StoreOf(p)' = s
      BY <1>3, <3>2, <3>4 DEF StoreOf
    <3>6. RestoreInv(p)'
      <4>1. \A q \in Processes \ {p} : pc'[q] = "idle"
        BY <1>4, <3>4 DEF Others
      <4>2. db'[s].file < MaxFiles /\ Usable(task'[p].copy)
        BY <1>4, <1>5, <3>1, <3>2, <3>4
      <4>3. QED
        BY <3>4, <3>5, <4>1, <4>2 DEF RestoreInv
    <3>7. ProcessInv(p)' /\ ~InTransaction(p)'
      BY <3>2, <3>4, <3>6
         DEF ProcessInv, KindInv, ServeInv, CopyInv, Serving, Running, Restoring, InTransaction
    <3>8. QED
      BY <3>4, <3>7
  <2>3. \/ Usable(b) /\ task' = [task EXCEPT ![p].copy = c] /\ Goto(p, "replace")
        \/ Refuse(p, task[p].kind, task[p].place)
    BY <1>2 DEF Fetch
  <2> HIDE DEF b, c, t
  <2>4. QED
    BY <1>3, <2>1, <2>2, <2>3
<1>10. Types'
  BY <1>1, <1>5, <1>9 DEF Types
<1>11. QED
  BY <1>5, <1>6, <1>7, <1>9, <1>10, QuietSafe

LEMMA ReplaceSafe == ASSUME SInv, NEW p \in Processes, Replace(p) PROVE SInv'
<1>1. Types /\ Locks /\ ProcessInv(p)
  BY DEF SInv
<1>2. PICK s \in Store : StoreOf(p) = s
  BY <1>1, PlaceType
<1>3. /\ task[p] \in Task /\ task[p].place \in 1..Len(Stores)
      /\ pc[p] = "replace" /\ task[p].kind = "restore" /\ task[p].copy \in Backup
  BY <1>1, <1>2, PlaceType DEF ProcessInv, KindInv, Restoring, Replace, Task
<1>4. /\ \A q \in Processes \ {p} : pc[q] = "idle"
      /\ db[s].file < MaxFiles /\ Usable(task[p].copy)
  BY <1>1, <1>2, <1>3 DEF ProcessInv, RestoreInv, Restoring
<1>5. UNCHANGED <<now, begun, journal, holder, backups>>
  BY DEF Replace
<1>6. BackupsRestorable'
  BY <1>5 DEF SInv, BackupsRestorable, Present
<1>7. pc[p] # "idle" /\ ~InTransaction(p)
  BY <1>3 DEF InTransaction
<1>8. CASE Refuse(p, "restore", task[p].place) /\ UNCHANGED <<db, damaged>>
  <2>1. /\ pc' \in [Processes -> Step] /\ task' \in [Processes -> Task]
        /\ Others(p) /\ ~InTransaction(p)' /\ ProcessInv(p)'
    BY <1>1, <1>3, <1>4, <1>8, Refuses
  <2>2. Types'
    BY <1>1, <1>5, <1>8, <2>1 DEF Types
  <2>3. QED
    BY <1>5, <1>6, <1>7, <1>8, <2>1, <2>2, QuietSafe
<1>9. CASE /\ NoLiveSidecars(s)
           /\ db' = [db EXCEPT ![s] = [there |-> TRUE, file |-> @.file + 1,
                                       schema |-> task[p].copy.schema,
                                       sound |-> task[p].copy.sound]]
           /\ damaged' = [damaged EXCEPT ![s] = FALSE]
           /\ Leave(p)
  <2> DEFINE c == [there |-> TRUE, file |-> db[s].file + 1,
                   schema |-> task[p].copy.schema, sound |-> task[p].copy.sound]
  <2>1. db[s].file \in 0..MaxFiles
    BY <1>1, CommittedType DEF Database
  <2>2. db[s].file + 1 \in 0..MaxFiles
    BY <1>4, <2>1, Bounds
  <2>3. task[p].copy.schema \in Version /\ task[p].copy.sound \in BOOLEAN
    BY <1>3 DEF Backup
  <2>4. c \in Database /\ c.there
    BY <2>2, <2>3 DEF Database
  <2>5. c.sound
    BY <1>4 DEF Usable
  <2>6. db' = [db EXCEPT ![s] = c]
    BY <1>9
  <2> HIDE DEF c
  <2>7. db' \in [Store -> Database] /\ damaged' \in [Store -> BOOLEAN]
    BY <1>1, <1>9, <2>4, <2>6 DEF Types
  <2>8. db'[s] = c /\ \A o \in Store : o # s => db'[o] = db[o] /\ damaged'[o] = damaged[o]
    BY <1>1, <1>9, <2>6 DEF Types
  <2>9. /\ pc' \in [Processes -> Step] /\ task' \in [Processes -> Task]
        /\ pc'[p] = "idle" /\ Others(p) /\ ProcessInv(p)'
    BY <1>1, <1>9, Leaves
  <2>10. \A q \in Processes : pc'[q] = "idle"
    BY <1>4, <2>9 DEF Others
  <2>11. Types'
    BY <1>1, <1>5, <2>7, <2>9 DEF Types
  <2>12. Locks'
    <3>1. \A q \in Processes : ~InTransaction(q) /\ ~InTransaction(q)'
      BY <1>3, <1>4, <2>10 DEF InTransaction
    <3>2. \A o \in Store : holder'[o] = Nobody
      BY <1>1, <1>5, <3>1 DEF Locks, Types
    <3>3. QED
      BY <3>1, <3>2 DEF Locks
  <2>13. \A o \in Store : StoreInv(o)'
    <3>1. ~HasJournal(s)'
      BY <1>5, <1>9 DEF NoLiveSidecars, HasJournal
    <3>2. Committed(s)' = c
      BY <2>8, <3>1 DEF Committed
    <3>3. StoreInv(s)'
      BY <2>5, <3>1, <3>2 DEF StoreInv
    <3>4. \A o \in Store : o # s => StoreInv(o)'
      BY <1>5, <2>8 DEF SInv, StoreInv, Committed, HasJournal
    <3>5. QED
      BY <3>3, <3>4
  <2>14. \A q \in Processes : ProcessInv(q)'
    <3>1. ASSUME NEW q \in Processes, q # p
          PROVE  ProcessInv(q)'
      <4>1. pc'[q] = "idle" /\ task'[q] = task[q] /\ task[q].kind = "none"
        BY <1>4, <2>9, <3>1 DEF Others, SInv, ProcessInv, KindInv
      <4>2. QED
        BY <4>1
           DEF ProcessInv, KindInv, ServeInv, CopyInv, RestoreInv, Serving, Running, Restoring
    <3>2. QED
      BY <2>9, <3>1
  <2>15. QED
    BY <1>6, <2>11, <2>12, <2>13, <2>14 DEF SInv
<1>10. QED
  BY <1>2, <1>3, <1>8, <1>9 DEF Replace

-----------------------------------------------------------------------------
(* What happens to the machine.                                            *)

LEMMA CrashSafe == ASSUME SInv, NEW p \in Processes, Crash(p) PROVE SInv'
<1>1. Types /\ Locks /\ pc[p] # "idle"
  BY DEF SInv, Crash
<1>2. UNCHANGED <<now, begun, db, journal, damaged, backups>> /\ Leave(p)
  BY DEF Crash
<1>3. /\ pc' \in [Processes -> Step] /\ task' \in [Processes -> Task]
      /\ Others(p) /\ ~InTransaction(p)' /\ ProcessInv(p)'
  BY <1>1, <1>2, Leaves
<1>4. \A s \in Store : holder'[s] = IF holder[s] = p THEN Nobody ELSE holder[s]
  BY DEF Crash
<1>5. holder' \in [Store -> Processes \cup {Nobody}]
  BY <1>1 DEF Crash, Types
<1>6. Types'
  BY <1>1, <1>2, <1>3, <1>5 DEF Types
<1>7. Locks'
  <2>1. ASSUME NEW q \in Processes, InTransaction(q)'
        PROVE  holder'[StoreOf(q)'] = q /\ HasJournal(StoreOf(q))'
    <3>1. q # p
      BY <1>3, <2>1
    <3>2. pc'[q] = pc[q] /\ StoreOf(q)' = StoreOf(q)
      BY <1>3, <3>1 DEF Others, StoreOf
    <3>3. holder[StoreOf(q)] = q /\ HasJournal(StoreOf(q)) /\ StoreOf(q) \in Store
      BY <1>1, <2>1, <3>2, PlaceType DEF Locks, InTransaction
    <3>4. QED
      BY <1>2, <1>4, <3>1, <3>2, <3>3 DEF HasJournal
  <2>2. ASSUME NEW s \in Store, holder'[s] # Nobody
        PROVE  StoreOf(holder[s])' = s /\ InTransaction(holder[s])'
    <3>1. PICK q \in Processes : q = holder[s] /\ q = holder'[s] /\ q # p
      BY <1>1, <1>4, <2>2 DEF Types
    <3>2. StoreOf(q) = s /\ InTransaction(q)
      BY <1>1, <2>2, <3>1, ProcessAssumption DEF Locks
    <3>3. StoreOf(q)' = s /\ InTransaction(q)'
      BY <1>3, <3>1, <3>2 DEF Others, StoreOf, InTransaction
    <3>4. QED
      BY <3>1, <3>3 DEF StoreOf, InTransaction
  <2>3. QED
    BY <2>1, <2>2 DEF Locks
<1>8. \A s \in Store : StoreInv(s)' /\ Lasts(s, p)
  BY <1>2 DEF SInv, StoreInv, Committed, HasJournal, Lasts
<1>9. BackupsRestorable'
  BY <1>2 DEF SInv, BackupsRestorable, Present
<1>10. QED
  BY <1>1, <1>3, <1>6, <1>7, <1>8, <1>9, StepSafe

(* What changes nothing of the processes.                                  *)
LEMMA NobodyMoves ==
    ASSUME SInv, Types', UNCHANGED <<journal, holder, backups, pc, task>>,
           \A s \in Store : StoreInv(s)' /\ Lasts(s, Nobody)
    PROVE  SInv'
<1>1. Types /\ Locks
  BY DEF SInv
<1>2. Locks'
  BY <1>1 DEF Locks, InTransaction, StoreOf, HasJournal
<1>3. ASSUME NEW q \in Processes
      PROVE  ProcessInv(q)'
  <2>1. ProcessInv(q) /\ StoreOf(q) \in Store /\ StoreOf(q)' = StoreOf(q)
    BY <1>1, PlaceType DEF SInv, StoreOf
  <2>2. KindInv(q)'
    BY <2>1 DEF ProcessInv, KindInv, Serving, Running, Restoring
  <2>3. ServeInv(q)' /\ CopyInv(q)'
    BY <2>1 DEF ProcessInv, ServeInv, CopyInv, Serving, Lasts
  <2>4. RestoreInv(q)'
    BY <2>1 DEF ProcessInv, RestoreInv, Restoring, Lasts
  <2>5. QED
    BY <2>2, <2>3, <2>4 DEF ProcessInv
<1>4. BackupsRestorable'
  BY DEF SInv, BackupsRestorable, Present
<1>5. QED
  BY <1>2, <1>3, <1>4 DEF SInv

LEMMA DamageSafe == ASSUME SInv, NEW s \in Store, Damage(s) PROVE SInv'
<1>1. Types /\ StoreInv(s) /\ db[s] \in Database
  BY CommittedType DEF SInv
<1> DEFINE c == [db[s] EXCEPT !.sound = FALSE]
<1>2. /\ c \in Database /\ c.file = db[s].file /\ c.there = db[s].there /\ ~c.sound
      /\ c.schema = db[s].schema
  BY <1>1 DEF Database
<1>3. db' = [db EXCEPT ![s] = c] /\ damaged' = [damaged EXCEPT ![s] = TRUE]
  BY DEF Damage
<1> HIDE DEF c
<1>4. /\ db' \in [Store -> Database] /\ damaged' \in [Store -> BOOLEAN]
      /\ db'[s] = c /\ damaged'[s]
      /\ \A o \in Store : o # s => db'[o] = db[o] /\ damaged'[o] = damaged[o]
  BY <1>1, <1>2, <1>3 DEF Types
<1>5. UNCHANGED <<now, begun, journal, holder, backups, pc, task>> /\ ~HasJournal(s) /\ db[s].there
  BY DEF Damage
<1>6. Types'
  BY <1>1, <1>4, <1>5 DEF Types
<1>7. StoreInv(s)' /\ Lasts(s, Nobody)
  <2>1. ~HasJournal(s)' /\ Committed(s)' = c /\ Committed(s) = db[s]
    BY <1>4, <1>5 DEF HasJournal, Committed
  <2>2. QED
    BY <1>2, <1>4, <1>5, <2>1 DEF StoreInv, Lasts, Usable
<1>8. \A o \in Store : o # s => StoreInv(o)' /\ Lasts(o, Nobody)
  BY <1>4, <1>5 DEF SInv, StoreInv, Committed, HasJournal, Lasts
<1>9. QED
  BY <1>5, <1>6, <1>7, <1>8, NobodyMoves

LEMMA TickSafe == ASSUME SInv, Tick PROVE SInv'
<1>1. Types /\ now + 1 \in Name
  BY Bounds DEF SInv, Types, Tick, Name
<1>2. UNCHANGED <<db, journal, holder, damaged, backups, pc, task>>
  BY DEF Tick
<1>3. Types'
  BY <1>1, <1>2 DEF Types, Tick
<1>4. \A s \in Store : StoreInv(s)' /\ Lasts(s, Nobody)
  BY <1>2 DEF SInv, StoreInv, Committed, HasJournal, Lasts
<1>5. QED
  BY <1>2, <1>3, <1>4, NobodyMoves

-----------------------------------------------------------------------------
(* The theorems about the stores.                                          *)

LEMMA InitSafe == Init => SInv
<1> SUFFICES ASSUME Init PROVE SInv
  OBVIOUS
<1>1. PICK c \in Database : /\ c.file = 0 /\ c.sound
                            /\ db = [s \in Store |-> c]
  BY DEF Init
<1>2. Types
  BY <1>1, NoJournalType, NoBackupType, NoTaskType, Bounds DEF Init, Types, Step
<1>3. \A p \in Processes : pc[p] = "idle" /\ task[p] = NoTask
  BY DEF Init
<1>4. \A s \in Store : holder[s] = Nobody /\ ~HasJournal(s) /\ Committed(s) = c
  BY <1>1 DEF Init, HasJournal, Committed
<1>5. Locks
  BY <1>3, <1>4 DEF Locks, InTransaction
<1>6. \A s \in Store : StoreInv(s)
  BY <1>1, <1>4 DEF StoreInv
<1>7. \A p \in Processes : ProcessInv(p)
  BY <1>3, NoTaskType
     DEF ProcessInv, KindInv, ServeInv, CopyInv, RestoreInv, Serving, Running, Restoring
<1>8. BackupsRestorable
  BY NoBackupType DEF Init, BackupsRestorable, Present
<1>9. QED
  BY <1>2, <1>5, <1>6, <1>7, <1>8 DEF SInv

LEMMA ProcessSafe ==
    ASSUME SInv, NEW p \in Processes,
           \/ Serve(p) \/ Maintain(p) \/ Restore(p) \/ Refused(p)
           \/ Lock(p) \/ Apply(p) \/ Write(p) \/ Commit(p) \/ Busy(p)
           \/ Copy(p) \/ Publish(p) \/ List(p) \/ ListFails(p) \/ Delete(p)
           \/ NextStore(p) \/ Dispose(p)
           \/ Fetch(p) \/ Replace(p)
           \/ Crash(p)
    PROVE  SInv'
<1>1. CASE Serve(p) \/ Maintain(p) \/ Restore(p) \/ Refused(p)
  BY <1>1, ServeSafe, MaintainSafe, RestoreSafe, RefusedSafe
<1>2. CASE Lock(p) \/ Apply(p) \/ Write(p) \/ Commit(p) \/ Busy(p)
  BY <1>2, LockSafe, ApplySafe, WriteSafe, CommitSafe, BusySafe
<1>3. CASE Copy(p) \/ Publish(p) \/ List(p) \/ ListFails(p) \/ Delete(p)
  BY <1>3, CopySafe, PublishSafe, ListSafe, ListFailsSafe, DeleteSafe
<1>4. CASE NextStore(p) \/ Dispose(p) \/ Fetch(p) \/ Replace(p) \/ Crash(p)
  BY <1>4, NextStoreSafe, DisposeSafe, FetchSafe, ReplaceSafe, CrashSafe
<1>5. QED
  BY <1>1, <1>2, <1>3, <1>4

LEMMA StutterSafe == ASSUME SInv, UNCHANGED vars PROVE SInv'
<1>1. Types' /\ UNCHANGED <<journal, holder, backups, pc, task>>
  BY DEF SInv, Types, vars
<1>2. \A s \in Store : StoreInv(s)' /\ Lasts(s, Nobody)
  BY DEF SInv, StoreInv, Committed, HasJournal, Lasts, vars
<1>3. QED
  BY <1>1, <1>2, NobodyMoves

(* The stores are always in the states that the invariant describes.       *)
THEOREM StoresAreSafe == Spec => []SInv
<1>1. SInv /\ [Next]_vars => SInv'
  BY ProcessSafe, DamageSafe, TickSafe, StutterSafe DEF Next
<1>2. QED
  BY <1>1, InitSafe, PTL DEF Spec

(* TypeOK, with the lock, holds in every reachable state.                  *)
THEOREM TypeCorrect == Spec => []TypeOK
<1>1. SInv => TypeOK
  BY DEF SInv, Types, Locks, InTransaction, TypeOK
<1>2. QED
  BY <1>1, StoresAreSafe, PTL

(* Recoverable holds in every reachable state: no file meets the journal   *)
(* of another, and an undamaged store is sound for whoever opens it.       *)
THEOREM StoresRecover == Spec => []Recoverable
<1>1. SInv => Recoverable
  BY DEF SInv, StoreInv, Recoverable
<1>2. QED
  BY <1>1, StoresAreSafe, PTL

(* Every published backup can always be restored, half of BackupsServe.    *)
THEOREM RestorableBackups == Spec => []BackupsRestorable
<1>1. SInv => BackupsRestorable
  BY DEF SInv
<1>2. QED
  BY <1>1, StoresAreSafe, PTL

-----------------------------------------------------------------------------
(* Refusals.                                                               *)

Reason(p, kind, s) ==
    IF kind = "restore" THEN HasJournal(s) ELSE ~Usable(Committed(s)) \/ HeldUp(p, s)

(* An operation gives up the store of its task, for a reason.              *)
Justified(p) == pc'[p] = "refused" => Reason(p, task'[p].kind, Stores[task'[p].place])

(* A process in the middle of its work is held up.                         *)
LEMMA HeldUpJustified ==
    ASSUME SInv, NEW p \in Processes, Serving(p) \/ Running(p),
           Refuse(p, task[p].kind, task[p].place),
           task'[p].kind = task[p].kind => HeldUp(p, StoreOf(p))
    PROVE  Justified(p)
<1>1. /\ Types /\ task[p].kind \in {"serve", "maintain"}
      /\ task[p].place \in 1..Len(Stores) /\ Stores[task[p].place] = StoreOf(p)
  BY WorksOn DEF SInv
<1>2. task'[p].kind = task[p].kind /\ task'[p].place = task[p].place
  BY <1>1, Refuses
<1>3. QED
  BY <1>1, <1>2 DEF Justified, Reason

LEMMA BusyJustified == ASSUME SInv, NEW p \in Processes, Busy(p) PROVE Justified(p)
<1>1. Serving(p) /\ Refuse(p, task[p].kind, task[p].place) /\ HeldUp(p, StoreOf(p))
  BY DEF Busy, Serving, HeldUp
<1>2. QED
  BY <1>1, HeldUpJustified

LEMMA ListFailsJustified == ASSUME SInv, NEW p \in Processes, ListFails(p) PROVE Justified(p)
<1>1. Running(p) /\ Refuse(p, task[p].kind, task[p].place) /\ HeldUp(p, StoreOf(p))
  BY DEF ListFails, Running, HeldUp
<1>2. QED
  BY <1>1, HeldUpJustified

LEMMA CommitJustified == ASSUME SInv, NEW p \in Processes, Commit(p) PROVE Justified(p)
<1>1. CASE Leave(p)
  BY <1>1, Leaves DEF SInv, Justified
<1>2. CASE BackedUp(p, StoreOf(p)) /\ Refuse(p, task[p].kind, task[p].place)
  <2>1. Serving(p) /\ HeldUp(p, StoreOf(p))
    BY <1>2 DEF Commit, Serving, HeldUp
  <2>2. QED
    BY <1>2, <2>1, HeldUpJustified
<1>3. QED
  BY <1>1, <1>2 DEF Commit

LEMMA OpenJustified ==
    ASSUME SInv, NEW p \in Processes, NEW i \in DOMAIN Stores, Open(p, i),
           pc[p] \in {"idle", "dispose"}
    PROVE  Justified(p)
<1> DEFINE c == Created(Committed(Stores[i]))
<1>1. Types /\ Stores[i] \in Store /\ i \in 1..Len(Stores)
  BY Places DEF SInv
<1>2. Committed(Stores[i]) \in Database
  BY <1>1, CommittedType
<1>3. CASE (~Usable(c) \/ LockedOut(p, Stores[i])) /\ Refuse(p, "serve", i)
  <2>1. task'[p].kind = "serve" /\ task'[p].place = i
    BY <1>1, <1>3, Refuses
  <2>2. ~Usable(Committed(Stores[i])) \/ HeldUp(p, Stores[i])
    BY <1>2, <1>3, CreatedType DEF Usable, HeldUp
  <2>3. QED
    BY <2>1, <2>2 DEF Justified, Reason
<1>4. CASE Goto(p, IF c.schema = Latest THEN "write" ELSE "lock")
  <2>1. pc'[p] # "refused"
    BY <1>1, <1>4 DEF Goto, Types
  <2>2. QED
    BY <2>1 DEF Justified
<1>5. QED
  BY <1>3, <1>4 DEF Open

LEMMA DisposeJustified == ASSUME SInv, NEW p \in Processes, Dispose(p) PROVE Justified(p)
<1>1. pc[p] = "dispose" /\ Running(p)
  BY DEF Dispose, Running
<1>2. CASE Refuse(p, task[p].kind, task[p].place)
  <2>1. task[p].kind = "maintain"
    BY <1>1 DEF SInv, ProcessInv, KindInv
  <2>2. task'[p].kind = task[p].kind => HeldUp(p, StoreOf(p))
    BY <1>1, <2>1 DEF HeldUp
  <2>3. QED
    BY <1>1, <1>2, <2>2, HeldUpJustified
<1>3. CASE \E i \in DOMAIN Stores : Open(p, i)
  BY <1>1, <1>3, OpenJustified
<1>4. QED
  BY <1>2, <1>3 DEF Dispose

LEMMA ApplyJustified == ASSUME SInv, NEW p \in Processes, Apply(p) PROVE Justified(p)
<1>1. Types /\ Locks /\ ProcessInv(p)
  BY DEF SInv
<1>2. PICK s \in Store : StoreOf(p) = s
  BY <1>1, PlaceType
<1>3. /\ task[p].place \in 1..Len(Stores) /\ s = Stores[task[p].place]
      /\ pc[p] = "apply" /\ task[p].kind = "serve" /\ InTransaction(p)
  BY <1>1, <1>2, PlaceType DEF ProcessInv, KindInv, Serving, Apply, InTransaction
<1>4. HasJournal(s) /\ StoreInv(s)
  BY <1>1, <1>2, <1>3 DEF Locks, SInv
<1>5. Committed(s) = journal[s].before /\ task[p].applied = journal[s].before.schema
  BY <1>1, <1>2, <1>3, <1>4, CommittedIs DEF ProcessInv, ServeInv
<1>6. CASE Goto(p, "write")
  BY <1>1, <1>6 DEF Goto, Types, Justified
<1>7. CASE (~Usable(journal[s].before) \/ BackedUp(p, s)) /\ Refuse(p, "serve", task[p].place)
  <2>1. task'[p].kind = "serve" /\ task'[p].place = task[p].place
    BY <1>1, <1>3, <1>7, Refuses
  <2>2. ~Usable(Committed(s)) \/ HeldUp(p, s)
    BY <1>3, <1>5, <1>7 DEF HeldUp
  <2>3. QED
    BY <1>3, <2>1, <2>2 DEF Justified, Reason
<1>8. QED
  BY <1>2, <1>3, <1>5, <1>6, <1>7 DEF Apply

LEMMA CopyJustified == ASSUME SInv, NEW p \in Processes, Copy(p) PROVE Justified(p)
<1>1. Types /\ ProcessInv(p)
  BY DEF SInv
<1>2. PICK s \in Store : StoreOf(p) = s
  BY <1>1, PlaceType
<1>3. /\ task[p].place \in 1..Len(Stores) /\ s = Stores[task[p].place]
      /\ task[p].kind = "maintain"
  BY <1>1, <1>2, PlaceType DEF ProcessInv, KindInv, Running, Copy
<1>4. CASE Goto(p, "publish")
  BY <1>1, <1>4 DEF Goto, Types, Justified
<1>5. CASE ~Committed(s).there /\ Refuse(p, "maintain", task[p].place)
  <2>1. task'[p].kind = "maintain" /\ task'[p].place = task[p].place
    BY <1>1, <1>3, <1>5, Refuses
  <2>2. QED
    BY <1>3, <1>5, <2>1 DEF Justified, Reason, Usable
<1>6. QED
  BY <1>2, <1>3, <1>4, <1>5 DEF Copy

LEMMA PublishJustified == ASSUME SInv, NEW p \in Processes, Publish(p) PROVE Justified(p)
<1>1. Types /\ ProcessInv(p) /\ pc[p] = "publish"
  BY DEF SInv, Publish
<1>2. PICK s \in Store : StoreOf(p) = s
  BY <1>1, PlaceType
<1>3. /\ task[p].place \in 1..Len(Stores) /\ s = Stores[task[p].place]
      /\ task[p].kind = "maintain"
  BY <1>1, <1>2, PlaceType DEF ProcessInv, KindInv, Running
<1>4. CASE Goto(p, "list")
  BY <1>1, <1>4 DEF Goto, Types, Justified
<1>5. CASE ~Validates(p) /\ Refuse(p, "maintain", task[p].place)
  <2>1. task'[p].kind = "maintain" /\ task'[p].place = task[p].place
    BY <1>1, <1>3, <1>5, Refuses
  <2>2. ~Usable(Committed(s))
    BY <1>1, <1>2, <1>5 DEF ProcessInv, CopyInv, Validates
  <2>3. QED
    BY <1>3, <2>1, <2>2 DEF Justified, Reason
<1>6. QED
  BY <1>3, <1>4, <1>5 DEF Publish

LEMMA RestoreJustified == ASSUME SInv, NEW p \in Processes, Restore(p) PROVE Justified(p)
<1>1. Types /\ AllStopped
  BY DEF SInv, Restore
<1>2. PICK i \in DOMAIN Stores, n \in Name :
         \/ Goto(p, "fetch")
         \/ HasJournal(Stores[i]) /\ Refuse(p, "restore", i)
  BY DEF Restore, NoLiveSidecars
<1>3. CASE Goto(p, "fetch")
  BY <1>1, <1>3 DEF Goto, Types, Justified
<1>4. CASE HasJournal(Stores[i]) /\ Refuse(p, "restore", i)
  <2>1. task'[p].kind = "restore" /\ task'[p].place = i
    BY <1>1, <1>4, Places, Refuses DEF AllStopped
  <2>2. QED
    BY <1>4, <2>1 DEF Justified, Reason
<1>5. QED
  BY <1>2, <1>3, <1>4

LEMMA FetchJustified == ASSUME SInv, NEW p \in Processes, Fetch(p) PROVE Justified(p)
<1>1. Types /\ ProcessInv(p) /\ pc[p] = "fetch" /\ BackupsRestorable
  BY DEF SInv, Fetch
<1>2. task[p].stamp \in Name /\ StoreOf(p) \in Store
  BY <1>1, PlaceType DEF Task
<1>3. Usable(backups[StoreOf(p)][task[p].stamp])
  BY <1>1, <1>2 DEF ProcessInv, RestoreInv, BackupsRestorable, Present
<1>4. Goto(p, "replace")
  BY <1>3 DEF Fetch
<1>5. QED
  BY <1>1, <1>4 DEF Goto, Types, Justified

LEMMA ReplaceJustified == ASSUME SInv, NEW p \in Processes, Replace(p) PROVE Justified(p)
<1>1. Types /\ ProcessInv(p) /\ pc[p] = "replace"
  BY DEF SInv, Replace
<1>2. PICK s \in Store : StoreOf(p) = s
  BY <1>1, PlaceType
<1>3. /\ task[p].place \in 1..Len(Stores) /\ s = Stores[task[p].place]
      /\ task[p].kind = "restore" /\ \A q \in Processes \ {p} : pc[q] = "idle"
  BY <1>1, <1>2, PlaceType DEF ProcessInv, KindInv, RestoreInv, Restoring
<1>4. CASE Leave(p)
  BY <1>1, <1>4, Leaves DEF Justified
<1>5. CASE HasJournal(s) /\ Refuse(p, "restore", task[p].place)
  <2>1. task'[p].kind = "restore" /\ task'[p].place = task[p].place
    BY <1>1, <1>3, <1>5, Refuses
  <2>2. QED
    BY <1>3, <1>5, <2>1 DEF Justified, Reason
<1>6. QED
  BY <1>2, <1>3, <1>4, <1>5 DEF Replace, NoLiveSidecars

(* A step of p is p's alone.                                               *)
LEMMA ProcessJustified ==
    ASSUME SInv, NEW p \in Processes, pc[p] # "refused",
           \/ Serve(p) \/ Maintain(p) \/ Restore(p) \/ Refused(p)
           \/ Lock(p) \/ Apply(p) \/ Write(p) \/ Commit(p) \/ Busy(p)
           \/ Copy(p) \/ Publish(p) \/ List(p) \/ ListFails(p) \/ Delete(p)
           \/ NextStore(p) \/ Dispose(p)
           \/ Fetch(p) \/ Replace(p)
           \/ Crash(p)
    PROVE  Justified(p)
<1>1. Types
  BY DEF SInv
<1>2. CASE Serve(p) \/ Dispose(p) \/ Commit(p) \/ Busy(p) \/ ListFails(p)
  BY <1>2, OpenJustified, DisposeJustified, CommitJustified, BusyJustified, ListFailsJustified
     DEF Serve
<1>3. CASE Refused(p) \/ Crash(p)
  <2>1. Leave(p)
    BY <1>3 DEF Refused, Crash
  <2>2. QED
    BY <1>1, <2>1, Leaves DEF Justified
<1>4. CASE Maintain(p) \/ Lock(p) \/ Write(p) \/ List(p)
  BY <1>1, <1>4 DEF Maintain, Lock, Write, List, Goto, Types, Justified
<1>5. CASE Delete(p)
  BY <1>5 DEF Delete, Justified
<1>6. CASE NextStore(p)
  BY <1>1, <1>6 DEF NextStore, Goto, Types, Justified
<1>7. CASE Restore(p) \/ Apply(p) \/ Copy(p) \/ Publish(p) \/ Fetch(p) \/ Replace(p)
  BY <1>7, RestoreJustified, ApplyJustified, CopyJustified, PublishJustified,
     FetchJustified, ReplaceJustified
<1>8. QED
  BY <1>2, <1>3, <1>4, <1>5, <1>6, <1>7

LEMMA OnlyOneMoves ==
    ASSUME Types, NEW p \in Processes,
           \/ Serve(p) \/ Maintain(p) \/ Restore(p) \/ Refused(p)
           \/ Lock(p) \/ Apply(p) \/ Write(p) \/ Commit(p) \/ Busy(p)
           \/ Copy(p) \/ Publish(p) \/ List(p) \/ ListFails(p) \/ Delete(p)
           \/ NextStore(p) \/ Dispose(p)
           \/ Fetch(p) \/ Replace(p)
           \/ Crash(p)
    PROVE  \A q \in Processes \ {p} : pc'[q] = pc[q]
<1>1. pc' = pc \/ \E step : pc' = [pc EXCEPT ![p] = step]
  <2>1. CASE Serve(p) \/ Maintain(p) \/ Restore(p) \/ Refused(p) \/ Dispose(p)
    BY <2>1 DEF Serve, Open, Maintain, Restore, Refused, Dispose, Leave, Refuse, Goto
  <2>2. CASE Lock(p) \/ Apply(p) \/ Write(p) \/ Commit(p) \/ Busy(p)
    BY <2>2 DEF Lock, Apply, Write, Commit, Busy, Leave, Refuse, Goto
  <2>3. CASE Copy(p) \/ Publish(p) \/ List(p) \/ ListFails(p) \/ Delete(p)
    BY <2>3 DEF Copy, Publish, List, ListFails, Delete, Leave, Refuse, Goto
  <2>4. CASE NextStore(p) \/ Fetch(p) \/ Replace(p) \/ Crash(p)
    BY <2>4 DEF NextStore, Fetch, Replace, Crash, Leave, Refuse, Goto
  <2>5. QED
    BY <2>1, <2>2, <2>3, <2>4
<1>2. QED
  BY <1>1 DEF Types

(* RefusedForAReason holds of every step: a start, a write or a maintenance*)
(* run is given up only for a store that cannot be used or while another   *)
(* holds it up, and a restore only for a journal.                          *)
THEOREM RefusalsHaveReasons == Spec => RefusedForAReason
<1> DEFINE Step1 == \A p \in Processes :
              pc[p] # "refused" /\ pc'[p] = "refused" =>
                  LET s == Stores[task'[p].place] IN
                  IF task'[p].kind = "restore" THEN HasJournal(s)
                  ELSE ~Usable(Committed(s)) \/ HeldUp(p, s)
<1>1. SInv /\ [Next]_vars => [Step1]_vars
  <2>1. ASSUME SInv, NEW p \in Processes,
               \/ Serve(p) \/ Maintain(p) \/ Restore(p) \/ Refused(p)
               \/ Lock(p) \/ Apply(p) \/ Write(p) \/ Commit(p) \/ Busy(p)
               \/ Copy(p) \/ Publish(p) \/ List(p) \/ ListFails(p) \/ Delete(p)
               \/ NextStore(p) \/ Dispose(p)
               \/ Fetch(p) \/ Replace(p)
               \/ Crash(p)
        PROVE  Step1
    <3>1. Types
      BY <2>1 DEF SInv
    <3>2. \A q \in Processes \ {p} : pc'[q] = pc[q]
      BY <2>1, <3>1, OnlyOneMoves
    <3>3. pc[p] # "refused" => Justified(p)
      BY <2>1, ProcessJustified
    <3>4. QED
      BY <3>2, <3>3 DEF Justified, Reason
  <2>2. (\E s \in Store : Damage(s)) \/ Tick \/ UNCHANGED vars => Step1
    BY DEF Damage, Tick, vars
  <2> HIDE DEF Step1
  <2>3. QED
    BY <2>1, <2>2 DEF Next
<1>2. QED
  BY <1>1, StoresAreSafe, PTL DEF Spec, RefusedForAReason

-----------------------------------------------------------------------------
(* The backups.                                                            *)

LEMMA Stays ==
    ASSUME NEW q \in Processes, pc'[q] = pc[q], task'[q] = task[q]
    PROVE  /\ Running(q)' <=> Running(q)
           /\ Restoring(q)' <=> Restoring(q)
           /\ StoreOf(q)' = StoreOf(q)
           /\ \A i : Ahead(q, i)' <=> Ahead(q, i)
           /\ \A i : Behind(q, i)' <=> Behind(q, i)
BY DEF Running, Restoring, StoreOf, Ahead, Behind

LEMMA Finite ==
    ASSUME NEW S \in SUBSET Name
    PROVE  /\ IsFiniteSet(S) /\ Cardinality(S) \in Nat
           /\ \A T \in SUBSET S : /\ Cardinality(T) \in Nat
                                  /\ Cardinality(T) <= Cardinality(S)
                                  /\ Cardinality(T) = Cardinality(S) => T = S
<1>1. IsFiniteSet(Name)
  BY Bounds, FS_Interval DEF Name
<1>2. IsFiniteSet(S) /\ Cardinality(S) \in Nat
  BY <1>1, FS_Subset, FS_CardinalityType
<1>3. ASSUME NEW T \in SUBSET S
      PROVE  /\ Cardinality(T) \in Nat
             /\ Cardinality(T) <= Cardinality(S)
             /\ Cardinality(T) = Cardinality(S) => T = S
  <2>1. IsFiniteSet(T) /\ Cardinality(T) <= Cardinality(S)
        /\ (Cardinality(S) = Cardinality(T) => S = T)
    BY <1>2, FS_Subset
  <2>2. Cardinality(T) \in Nat
    BY <2>1, FS_CardinalityType
  <2>3. QED
    BY <2>1, <2>2
<1>4. QED
  BY <1>2, <1>3

LEMMA Untouched ==
    ASSUME Types, Types', NEW q \in Processes, pc'[q] = pc[q], task'[q] = task[q],
           backups' = backups, now <= now', \A n \in Name : Begun(n) => Begun(n)', RunInv(q)
    PROVE  RunInv(q)'
<1>1. /\ task[q].stamp \in Name /\ task[q].doomed \subseteq Name /\ task[q].copy.at \in Name
      /\ now \in Nat /\ now' \in Nat
  <2>1. task[q] \in Task
    BY PlaceType
  <2>2. task[q].stamp \in Name /\ task[q].doomed \subseteq Name /\ task[q].copy \in Backup
    BY <2>1 DEF Task
  <2>3. now \in Nat /\ now' \in Nat
    BY Bounds DEF Types, Name
  <2>4. QED
    BY <2>2, <2>3 DEF Backup, Name
<1>2. StampInv(q)'
  BY <1>1, Stays DEF RunInv, StampInv
<1>3. InstantInv(q)'
  BY <1>1, Stays DEF RunInv, InstantInv, Name
<1>4. DoomedInv(q)'
  BY <1>1, Stays DEF RunInv, DoomedInv, Newer
<1>5. CoverInv(q)'
  BY Stays DEF RunInv, CoverInv
<1>6. QED
  BY <1>2, <1>3, <1>4, <1>5 DEF RunInv

(* What a step of p has to show.                                           *)
LEMMA RunStep ==
    ASSUME BInv, NEW p \in Processes, Others(p), Names', Instants', RunInv(p)',
           \A q \in Processes \ {p} : RunInv(q)' /\ PairInv(p, q)' /\ PairInv(q, p)'
    PROVE  BInv'
<1>1. ASSUME NEW q \in Processes \ {p}, NEW r \in Processes \ {p}, q # r
      PROVE  PairInv(q, r)'
  <2>1. PairInv(q, r)
    BY <1>1 DEF BInv
  <2>2. pc'[q] = pc[q] /\ task'[q] = task[q] /\ pc'[r] = pc[r] /\ task'[r] = task[r]
    BY DEF Others
  <2>3. QED
    BY <2>1, <2>2, Stays DEF PairInv
<1>2. QED
  BY <1>1 DEF BInv

(* ... when it publishes and deletes no backup.                            *)
LEMMA QuietRunStep ==
    ASSUME SInv, Types', BInv, NEW p \in Processes, Others(p), backups' = backups, now' = now,
           begun => begun', RunInv(p)',
           \A q \in Processes \ {p} : PairInv(p, q)' /\ PairInv(q, p)'
    PROVE  BInv'
<1>1. Types /\ now \in Nat
  BY Bounds DEF SInv, Types, Name
<1>2. \A n \in Name : Begun(n) => Begun(n)'
  BY DEF Begun
<1>3. Names' /\ Instants'
  BY <1>2 DEF BInv, Names, Instants
<1>4. ASSUME NEW q \in Processes \ {p}
      PROVE  RunInv(q)'
  <2>1. pc'[q] = pc[q] /\ task'[q] = task[q] /\ RunInv(q)
    BY DEF Others, BInv
  <2>2. now <= now'
    BY <1>1
  <2>3. QED
    BY <1>1, <1>2, <2>1, <2>2, Untouched
<1>5. QED
  BY <1>3, <1>4, RunStep

(* A step that leaves a run, or is of none.                                *)
LEMMA OffRun ==
    ASSUME SInv, Types', BInv, NEW p \in Processes, Others(p),
           UNCHANGED <<now, begun, backups>>,
           ~Running(p)', task'[p].doomed = {}, task'[p].copy.there => Restoring(p)'
    PROVE  BInv'
<1>1. RunInv(p)'
  BY DEF RunInv, StampInv, InstantInv, DoomedInv, CoverInv, Ahead, Behind, Running
<1>2. ASSUME NEW q \in Processes \ {p}
      PROVE  PairInv(p, q)' /\ PairInv(q, p)'
  BY DEF PairInv, Ahead, Running
<1>3. QED
  BY <1>1, <1>2, QuietRunStep

LEMMA LeavingKeeps ==
    ASSUME SInv, SInv', BInv, NEW p \in Processes, Leave(p), UNCHANGED <<now, begun, backups>>
    PROVE  BInv'
<1>1. Types /\ Types'
  BY DEF SInv
<1>2. pc'[p] = "idle" /\ task'[p] = NoTask /\ Others(p)
  BY <1>1, Leaves
<1>3. NoTask.doomed = {} /\ ~NoTask.copy.there
  BY NoBackupType, WorkType, Places, Bounds DEF NoTask
<1>4. ~Running(p)'
  BY <1>2 DEF Running
<1>5. QED
  BY <1>1, <1>2, <1>3, <1>4, OffRun

LEMMA RefusingKeeps ==
    ASSUME SInv, SInv', BInv, NEW p \in Processes, NEW kind \in {"serve", "maintain", "restore"},
           NEW i \in 1..Len(Stores), Refuse(p, kind, i), UNCHANGED <<now, begun, backups>>
    PROVE  BInv'
<1>1. Types /\ Types' /\ kind \in {"none", "serve", "maintain", "restore"}
  BY DEF SInv
<1>2. /\ Work(kind, i, 0) \in Task /\ Work(kind, i, 0).doomed = {}
      /\ Work(kind, i, 0).copy = NoBackup
  BY <1>1, WorkType, Bounds
<1>3. pc'[p] = "refused" /\ task'[p] = Work(kind, i, 0) /\ Others(p)
  BY <1>1, <1>2, Moves DEF Refuse, Step
<1>4. ~Running(p)'
  BY <1>3 DEF Running
<1>5. QED
  BY <1>1, <1>2, <1>3, <1>4, NoBackupType, OffRun

(* Outside a run nothing is doomed, and outside a restore nothing copied.  *)
LEMMA NothingDoomed ==
    ASSUME BInv, NEW p \in Processes, pc[p] # "delete"
    PROVE  /\ task[p].doomed = {}
           /\ pc[p] # "publish" /\ ~Restoring(p) => ~task[p].copy.there
BY DEF BInv, RunInv, DoomedInv, InstantInv

LEMMA OpenKeeps ==
    ASSUME SInv, SInv', BInv, NEW p \in Processes, NEW i \in DOMAIN Stores, Open(p, i)
    PROVE  BInv'
<1> DEFINE c == Created(Committed(Stores[i]))
           t == [Work("serve", i, 0) EXCEPT !.applied = c.schema]
<1>1. Types /\ Types' /\ i \in 1..Len(Stores)
  BY Places DEF SInv
<1>2. UNCHANGED <<now, begun, backups>>
  BY DEF Open
<1>3. CASE Refuse(p, "serve", i)
  BY <1>1, <1>2, <1>3, RefusingKeeps
<1>4. CASE /\ Goto(p, IF c.schema = Latest THEN "write" ELSE "lock")
           /\ task' = [task EXCEPT ![p] = t]
  <2>1. pc'[p] \in {"write", "lock"} /\ Others(p)
    BY <1>1, <1>4 DEF Goto, Types, Others
  <2>2. Work("serve", i, 0) \in Task /\ Work("serve", i, 0).doomed = {}
        /\ Work("serve", i, 0).copy = NoBackup
    BY <1>1, WorkType, Bounds
  <2> HIDE DEF c
  <2>3. t.doomed = {} /\ t.copy = NoBackup
    BY <2>2 DEF Task
  <2>4. task'[p] = t
    BY <1>1, <1>4 DEF Types
  <2> HIDE DEF t
  <2>5. ~Running(p)'
    BY <2>1 DEF Running
  <2>6. QED
    BY <1>1, <1>2, <2>1, <2>3, <2>4, <2>5, NoBackupType, OffRun
<1>5. QED
  BY <1>3, <1>4 DEF Open

LEMMA ServingKeeps ==
    ASSUME SInv, SInv', BInv, NEW p \in Processes,
           Lock(p) \/ Apply(p) \/ Write(p) \/ Commit(p) \/ Busy(p) \/ Refused(p) \/ ListFails(p)
           \/ Crash(p)
    PROVE  BInv'
<1>1. Types /\ Types' /\ task[p] \in Task
  BY PlaceType DEF SInv
<1>2. CASE Commit(p) \/ Busy(p) \/ Refused(p) \/ ListFails(p) \/ Crash(p)
  <2>1. UNCHANGED <<now, begun, backups>>
    BY <1>2 DEF Commit, Busy, Refused, ListFails, Crash
  <2>2. CASE Leave(p)
    BY <2>1, <2>2, LeavingKeeps
  <2>3. CASE (Serving(p) \/ Running(p)) /\ Refuse(p, task[p].kind, task[p].place)
    BY <2>1, <2>3, WorksOn, RefusingKeeps
  <2>4. QED
    BY <1>2, <2>2, <2>3 DEF Commit, Busy, Refused, ListFails, Crash, Serving, Running
<1>3. ASSUME NEW v, NEW step \in {"apply", "write", "commit"}, pc[p] \in {"lock", "apply", "write"},
             task' = [task EXCEPT ![p].applied = v] \/ task' = task,
             Goto(p, step), UNCHANGED <<now, begun, backups>>
      PROVE  BInv'
  <2>1. pc'[p] = step /\ Others(p)
    BY <1>1, <1>3 DEF Goto, Types, Others
  <2>2. task'[p].doomed = task[p].doomed /\ task'[p].copy = task[p].copy
    BY <1>1, <1>3 DEF Types, Task
  <2>3. ~Running(p)' /\ ~Restoring(p) /\ pc[p] # "delete" /\ pc[p] # "publish"
    BY <1>3, <2>1 DEF Running, Restoring
  <2>4. task'[p].doomed = {} /\ ~task'[p].copy.there
    BY <2>2, <2>3, NothingDoomed
  <2>5. QED
    BY <1>1, <1>3, <2>1, <2>3, <2>4, OffRun
<1>4. CASE Lock(p)
  BY <1>3, <1>4 DEF Lock
<1>5. CASE Write(p)
  BY <1>3, <1>5 DEF Write
<1>6. CASE Apply(p)
  <2>1. CASE Refuse(p, task[p].kind, task[p].place)
    <3>1. task[p].kind = "serve" /\ task[p].place \in 1..Len(Stores)
      BY <1>1, <1>6, PlaceType DEF SInv, ProcessInv, KindInv, Serving, Apply
    <3>2. QED
      BY <1>6, <2>1, <3>1, RefusingKeeps DEF Apply
  <2>2. CASE Goto(p, "write") /\ task' = [task EXCEPT ![p].applied = Latest]
    BY <1>3, <1>6, <2>2 DEF Apply
  <2>3. QED
    BY <1>6, <2>1, <2>2 DEF Apply
<1>7. QED
  BY <1>2, <1>4, <1>5, <1>6

LEMMA RestoringKeeps ==
    ASSUME SInv, SInv', BInv, NEW p \in Processes, Restore(p) \/ Fetch(p) \/ Replace(p)
    PROVE  BInv'
<1>1. Types /\ Types'
  BY DEF SInv
<1>2. UNCHANGED <<now, begun, backups>>
  BY DEF Restore, Fetch, Replace
<1>3. CASE Restore(p)
  <2>1. PICK i \in DOMAIN Stores, n \in Name :
            \/ Goto(p, "fetch") /\ task' = [task EXCEPT ![p] = Work("restore", i, n)]
            \/ Refuse(p, "restore", i)
    BY <1>3 DEF Restore
  <2>2. i \in 1..Len(Stores)
    BY Places
  <2>3. CASE Refuse(p, "restore", i)
    BY <1>2, <2>2, <2>3, RefusingKeeps
  <2>4. CASE Goto(p, "fetch") /\ task' = [task EXCEPT ![p] = Work("restore", i, n)]
    <3>1. pc'[p] = "fetch" /\ task'[p] = Work("restore", i, n) /\ Others(p)
      BY <1>1, <2>4 DEF Goto, Types, Others
    <3>2. task'[p].doomed = {} /\ ~task'[p].copy.there
      BY <2>2, <3>1, WorkType, NoBackupType
    <3>3. ~Running(p)'
      BY <3>1 DEF Running
    <3>4. QED
      BY <1>1, <1>2, <3>1, <3>2, <3>3, OffRun
  <2>5. QED
    BY <2>1, <2>3, <2>4
<1>4. ASSUME pc[p] \in {"fetch", "replace"}, Refuse(p, task[p].kind, task[p].place)
      PROVE  BInv'
  <2>1. task[p].kind = "restore" /\ task[p].place \in 1..Len(Stores)
    BY <1>1, <1>4, PlaceType DEF SInv, ProcessInv, KindInv, Restoring
  <2>2. QED
    BY <1>2, <1>4, <2>1, RefusingKeeps
<1>5. CASE Fetch(p)
  <2>1. PICK c : \/ Goto(p, "replace") /\ task' = [task EXCEPT ![p].copy = c]
                 \/ Refuse(p, task[p].kind, task[p].place)
    BY <1>5 DEF Fetch
  <2>2. CASE Goto(p, "replace") /\ task' = [task EXCEPT ![p].copy = c]
    <3>1. task[p] \in Task
      BY <1>1, PlaceType
    <3>2. /\ pc'[p] = "replace" /\ Others(p) /\ task'[p].doomed = task[p].doomed
      BY <1>1, <2>2, <3>1 DEF Goto, Types, Others, Task
    <3>3. task'[p].doomed = {}
      BY <1>5, <3>2, NothingDoomed DEF Fetch
    <3>4. ~Running(p)' /\ Restoring(p)'
      BY <3>2 DEF Running, Restoring
    <3>5. QED
      BY <1>1, <1>2, <3>2, <3>3, <3>4, OffRun
  <2>3. QED
    BY <1>4, <1>5, <2>1, <2>2 DEF Fetch
<1>6. CASE Replace(p)
  BY <1>2, <1>4, <1>6, LeavingKeeps DEF Replace
<1>7. QED
  BY <1>3, <1>5, <1>6

-----------------------------------------------------------------------------
(* The steps of a run.                                                     *)

LEMMA MaintainKeeps ==
    ASSUME SInv, SInv', BInv, NEW p \in Processes, Maintain(p)
    PROVE  BInv'
<1>1. Types /\ Types' /\ now \in Name /\ now \in Nat /\ 1 \in 1..Len(Stores)
  BY Places, Bounds DEF SInv, Types, Name
<1>2. /\ ~begun /\ begun' /\ now' = now /\ backups' = backups
      /\ Goto(p, "copy") /\ task' = [task EXCEPT ![p] = Work("maintain", 1, now)]
  BY DEF Maintain, NewSecond
<1>3. /\ pc'[p] = "copy" /\ task'[p].stamp = now /\ task'[p].place = 1
      /\ task'[p].doomed = {} /\ ~task'[p].copy.there
  BY <1>1, <1>2, WorkType, NoBackupType DEF Goto, Types
<1>4. Others(p)
  BY <1>1, <1>2 DEF Goto, Types, Others
<1>5. RunInv(p)'
  <2>1. StampInv(p)'
    <3>1. \A s \in Store : ~backups[s][now].there
      BY <1>1, <1>2 DEF BInv, Names, Begun
    <3>2. QED
      BY <1>2, <1>3, <3>1, Places DEF StampInv, Begun
  <2>2. InstantInv(p)' /\ DoomedInv(p)'
    BY <1>3 DEF InstantInv, DoomedInv
  <2>3. CoverInv(p)'
    BY <1>3, Places DEF CoverInv, Behind, Ahead, Running
  <2>4. QED
    BY <2>1, <2>2, <2>3 DEF RunInv
<1>6. ASSUME NEW q \in Processes \ {p}
      PROVE  PairInv(p, q)' /\ PairInv(q, p)'
  <2>1. pc'[q] = pc[q] /\ task'[q] = task[q] /\ RunInv(q)
    BY <1>4 DEF Others, BInv
  <2>2. Running(q)' => task'[q].stamp # now
    BY <1>1, <1>2, <2>1, Stays DEF RunInv, StampInv, Begun
  <2>3. now \notin task'[q].doomed
    BY <1>1, <1>2, <2>1 DEF RunInv, DoomedInv, Begun
  <2>4. QED
    BY <1>3, <2>2, <2>3 DEF PairInv
<1>7. QED
  BY <1>2, <1>4, <1>5, <1>6, <1>1, QuietRunStep

LEMMA CopyKeeps ==
    ASSUME SInv, SInv', BInv, NEW p \in Processes, Copy(p)
    PROVE  BInv'
<1>1. Types /\ Types' /\ ProcessInv(p) /\ RunInv(p) /\ pc[p] = "copy"
  BY DEF SInv, BInv, Copy
<1>2. /\ task[p] \in Task /\ task[p].place \in 1..Len(Stores) /\ StoreOf(p) \in Store
      /\ task[p].kind = "maintain" /\ task[p].stamp \in Name /\ now \in Name
  BY <1>1, PlaceType DEF ProcessInv, KindInv, Running, Task, Types
<1>3. UNCHANGED <<now, begun, backups>>
  BY DEF Copy
<1>4. CASE Refuse(p, task[p].kind, task[p].place)
  BY <1>2, <1>3, <1>4, RefusingKeeps
<1>5. ASSUME NEW c, c.at = now, Goto(p, "publish"), task' = [task EXCEPT ![p].copy = c]
      PROVE  BInv'
  <2>1. /\ pc'[p] = "publish" /\ Others(p)
        /\ task'[p].copy = c /\ task'[p].stamp = task[p].stamp
        /\ task'[p].place = task[p].place /\ task'[p].doomed = task[p].doomed
    BY <1>1, <1>2, <1>5 DEF Goto, Types, Others, Task
  <2>2. task'[p].doomed = {}
    BY <1>1, <2>1, NothingDoomed
  <2>3. /\ Running(p) /\ Running(p)' /\ StoreOf(p)' = StoreOf(p)
        /\ \A i : Ahead(p, i)' <=> Ahead(p, i)
        /\ \A i : Behind(p, i)' <=> Behind(p, i)
    BY <1>1, <2>1 DEF Running, StoreOf, Ahead, Behind
  <2>4. RunInv(p)'
    <3>1. StampInv(p)'
      BY <1>1, <1>3, <2>1, <2>3 DEF RunInv, StampInv, Begun
    <3>2. task[p].stamp <= now /\ now <= now
      BY <1>1, <1>2, <2>3, Bounds DEF RunInv, StampInv, Begun, Name
    <3>3. \A n \in Name : backups[StoreOf(p)][n].there => backups[StoreOf(p)][n].at # now
      <4>1. \A n \in Name : backups[StoreOf(p)][n].at \in Name
        BY <1>1, <1>2 DEF Types, Backup, Name
      <4>2. QED
        BY <1>2, <4>1, Bounds DEF Copy, NewInstant, Name
    <3>4. InstantInv(p)'
      BY <1>3, <1>5, <2>1, <2>3, <3>2, <3>3 DEF InstantInv
    <3>5. DoomedInv(p)' /\ CoverInv(p)'
      BY <1>1, <1>3, <2>1, <2>2, <2>3 DEF RunInv, DoomedInv, CoverInv
    <3>6. QED
      BY <3>1, <3>4, <3>5 DEF RunInv
  <2>5. ASSUME NEW q \in Processes \ {p}
        PROVE  PairInv(p, q)' /\ PairInv(q, p)'
    <3>1. /\ pc'[q] = pc[q] /\ task'[q] = task[q] /\ PairInv(p, q) /\ PairInv(q, p)
          /\ ProcessInv(q)
      BY <2>1 DEF Others, BInv, SInv
    <3>2. pc[q] = "publish" /\ StoreOf(q) = StoreOf(p) => task[q].copy.at # now
      <4>1. pc[q] = "publish" => task[q].copy.there
        BY <3>1 DEF ProcessInv, CopyInv
      <4>2. task[q] \in Task
        BY <1>1, PlaceType
      <4>3. task[q].copy \in Backup
        BY <4>2 DEF Task
      <4>4. task[q].copy.at \in Name
        BY <4>3 DEF Backup, Name
      <4>5. QED
        BY <1>2, <4>1, <4>4, Bounds DEF Copy, NewInstant, Name
    <3>3. /\ Running(q)' <=> Running(q)
          /\ StoreOf(q)' = StoreOf(q)
          /\ \A i : Ahead(q, i)' <=> Ahead(q, i)
      BY <3>1, Stays
    <3>4. PairInv(p, q)'
      BY <1>5, <2>1, <2>3, <3>1, <3>2, <3>3 DEF PairInv
    <3>5. PairInv(q, p)'
      BY <1>5, <2>1, <2>2, <2>3, <3>1, <3>2, <3>3 DEF PairInv
    <3>6. QED
      BY <3>4, <3>5
  <2>6. QED
    BY <1>1, <1>3, <2>1, <2>4, <2>5, QuietRunStep
<1>6. CASE \E c : c.at = now /\ Goto(p, "publish") /\ task' = [task EXCEPT ![p].copy = c]
  BY <1>5, <1>6
<1>7. QED
  <2> DEFINE k == Committed(StoreOf(p))
             b == [there |-> TRUE, at |-> now, schema |-> k.schema, sound |-> k.sound]
  <2>1. b.at = now
    OBVIOUS
  <2>2. \/ Refuse(p, task[p].kind, task[p].place)
        \/ Goto(p, "publish") /\ task' = [task EXCEPT ![p].copy = b]
    BY DEF Copy
  <2> HIDE DEF b
  <2>3. QED
    BY <1>4, <1>6, <2>1, <2>2

LEMMA NextStoreKeeps ==
    ASSUME SInv, SInv', BInv, NEW p \in Processes, NextStore(p)
    PROVE  BInv'
<1>1. Types /\ Types' /\ RunInv(p) /\ pc[p] = "delete" /\ task[p].doomed = {}
  BY DEF SInv, BInv, NextStore
<1>2. task[p] \in Task /\ task[p].place \in Nat /\ Len(Stores) \in Nat
  BY <1>1, PlaceType, Places
<1>3. UNCHANGED <<now, begun, backups>>
  BY DEF NextStore
<1>4. /\ Others(p) /\ Running(p) /\ Running(p)' /\ pc'[p] \in {"copy", "dispose"}
      /\ task'[p].stamp = task[p].stamp /\ task'[p].doomed = {}
      /\ task'[p].copy = task[p].copy
  <2>1. /\ task' = task \/ task' = [task EXCEPT ![p].place = @ + 1]
        /\ Goto(p, "copy") \/ Goto(p, "dispose")
    BY DEF NextStore
  <2>2. Others(p) /\ pc'[p] \in {"copy", "dispose"}
    BY <1>1, <2>1 DEF Goto, Types, Others
  <2>3. Running(p) /\ Running(p)'
    BY <1>1, <2>2 DEF Running
  <2>4. /\ task'[p].stamp = task[p].stamp /\ task'[p].doomed = task[p].doomed
        /\ task'[p].copy = task[p].copy
    BY <1>1, <1>2, <2>1 DEF Types, Task
  <2>5. QED
    BY <1>1, <2>2, <2>3, <2>4
<1>5. pc'[p] = "dispose" => task'[p].place = Len(Stores)
  BY <1>1, <1>2 DEF NextStore, Goto, Types
<1>6. /\ \A i : Ahead(p, i)' => Ahead(p, i)
      /\ \A i : Behind(p, i)' => Behind(p, i)
  <2>1. CASE pc'[p] = "copy"
    <3>1. task'[p].place = task[p].place + 1
      BY <1>1, <1>2, <2>1 DEF NextStore, Goto, Types, Task
    <3>2. QED
      BY <1>1, <1>2, <1>4, <2>1, <3>1, Places DEF Ahead, Behind
  <2>2. CASE pc'[p] = "dispose"
    <3>1. task'[p].place = task[p].place
      BY <1>1, <1>2, <2>2 DEF NextStore, Goto, Types
    <3>2. QED
      BY <1>1, <1>4, <2>2, <3>1 DEF Ahead, Behind
  <2>3. QED
    BY <1>4, <2>1, <2>2
<1>7. RunInv(p)'
  <2>1. StampInv(p)'
    BY <1>1, <1>3, <1>4, <1>5, <1>6 DEF RunInv, StampInv, Begun
  <2>2. ~task'[p].copy.there
    BY <1>1, <1>4 DEF RunInv, InstantInv, Restoring
  <2>3. InstantInv(p)' /\ DoomedInv(p)'
    BY <1>4, <2>2 DEF InstantInv, DoomedInv
  <2>4. CoverInv(p)'
    BY <1>1, <1>3, <1>4, <1>6 DEF RunInv, CoverInv
  <2>5. QED
    BY <2>1, <2>3, <2>4 DEF RunInv
<1>8. ASSUME NEW q \in Processes \ {p}
      PROVE  PairInv(p, q)' /\ PairInv(q, p)'
  <2>1. pc'[q] = pc[q] /\ task'[q] = task[q] /\ PairInv(p, q) /\ PairInv(q, p)
    BY <1>4 DEF Others, BInv
  <2>2. Running(q)' <=> Running(q)
    BY <2>1, Stays
  <2>3. StoreOf(q)' = StoreOf(q)
    BY <2>1, Stays
  <2>4. PairInv(p, q)'
    BY <1>4, <1>6, <2>1, <2>2, <2>3 DEF PairInv
  <2>5. PairInv(q, p)'
    BY <1>4, <2>1, <2>2 DEF PairInv
  <2>6. QED
    BY <2>4, <2>5
<1>9. QED
  BY <1>1, <1>3, <1>4, <1>7, <1>8, QuietRunStep

LEMMA ListKeeps ==
    ASSUME SInv, SInv', BInv, NEW p \in Processes, List(p)
    PROVE  BInv'
<1>1. Types /\ Types' /\ RunInv(p) /\ pc[p] = "list" /\ Names /\ Instants
  BY DEF SInv, BInv, List
<1>2. PICK s \in Store : StoreOf(p) = s
  BY <1>1, PlaceType
<1>3. PICK doomed \in SUBSET Present(s) :
          PrunesOldest(s, doomed) /\ task' = [task EXCEPT ![p].doomed = doomed]
  BY <1>2 DEF List
<1>4. task[p] \in Task /\ task[p].copy \in Backup
  BY <1>1, PlaceType DEF Task
<1>5. /\ UNCHANGED <<now, begun, backups>> /\ Others(p)
      /\ pc'[p] = "delete" /\ task'[p].doomed = doomed
      /\ task'[p].stamp = task[p].stamp /\ task'[p].place = task[p].place
      /\ task'[p].copy = task[p].copy
  <2>1. UNCHANGED <<now, begun, backups>> /\ Goto(p, "delete")
    BY DEF List
  <2>2. pc'[p] = "delete" /\ Others(p)
    BY <1>1, <1>3, <2>1 DEF Goto, Types, Others
  <2>3. QED
    BY <1>1, <1>3, <1>4, <2>1, <2>2 DEF Types, Task
<1>6. /\ Running(p) /\ Running(p)' /\ StoreOf(p)' = StoreOf(p)
      /\ \A i : Ahead(p, i)' <=> Ahead(p, i)
      /\ \A i : Behind(p, i)' <=> Behind(p, i)
  BY <1>1, <1>5 DEF Running, StoreOf, Ahead, Behind
<1>7. ASSUME NEW n \in doomed
      PROVE  Cardinality(Newer(s, n)) >= KeepCount
  <2> DEFINE kept == Present(s) \ doomed
  <2>1. Present(s) \in SUBSET Name /\ n \in Present(s) /\ n \in Name /\ Newer(s, n) \in SUBSET Name
    BY <1>7 DEF Present, Newer
  <2>2. /\ Cardinality(kept) = Retained(Cardinality(Present(s)))
        /\ \A m \in kept : backups[s][n].at <= backups[s][m].at
    BY <1>3 DEF PrunesOldest
  <2>3. kept \subseteq Newer(s, n)
    <3>1. ASSUME NEW m \in kept
          PROVE  m \in Newer(s, n)
      <4>1. m \in Name /\ m # n /\ backups[s][m].there /\ backups[s][n].there
        BY <2>1 DEF Present
      <4>2. backups[s][n].at <= backups[s][m].at /\ backups[s][n].at # backups[s][m].at
        BY <1>1, <2>1, <2>2, <4>1 DEF Instants
      <4>3. backups[s][n].at \in Int /\ backups[s][m].at \in Int
        BY <1>1, <2>1, <4>1 DEF Types, Backup
      <4>4. QED
        BY <4>1, <4>2, <4>3 DEF Newer
    <3>2. QED
      BY <3>1
  <2>4. /\ Cardinality(kept) \in Nat /\ Cardinality(Present(s)) \in Nat
        /\ Cardinality(kept) <= Cardinality(Present(s))
        /\ Cardinality(kept) # Cardinality(Present(s))
    <3>1. kept \in SUBSET Present(s) /\ kept # Present(s)
      BY <2>1
    <3> HIDE DEF kept
    <3>2. QED
      BY <2>1, <3>1, Finite
  <2>5. Cardinality(Newer(s, n)) \in Nat /\ Cardinality(kept) <= Cardinality(Newer(s, n))
    <3> HIDE DEF kept
    <3>1. QED
      BY <2>1, <2>3, Finite
  <2>6. Cardinality(kept) >= KeepCount
    BY <2>2, <2>4, Bounds DEF Retained
  <2>7. QED
    BY <2>4, <2>5, <2>6, Bounds
<1>8. RunInv(p)'
  <2>1. StampInv(p)'
    BY <1>1, <1>5, <1>6 DEF RunInv, StampInv, Begun
  <2>2. ~task'[p].copy.there
    BY <1>1, <1>5 DEF RunInv, InstantInv, Restoring
  <2>3. InstantInv(p)'
    BY <1>5, <2>2 DEF InstantInv
  <2>4. DoomedInv(p)'
    <3>1. \A n \in doomed : Begun(n)
      BY <1>1 DEF Names, Present
    <3>2. \A n \in doomed : Begun(n)' /\ Cardinality(Newer(s, n))' >= KeepCount
      BY <1>5, <1>7, <3>1 DEF Begun, Newer
    <3>3. StoreOf(p)' = s
      BY <1>2, <1>6
    <3>4. QED
      BY <1>5, <3>2, <3>3 DEF DoomedInv, Newer
  <2>5. CoverInv(p)'
    BY <1>1, <1>5, <1>6 DEF RunInv, CoverInv
  <2>6. QED
    BY <2>1, <2>3, <2>4, <2>5 DEF RunInv
<1>9. ASSUME NEW q \in Processes \ {p}
      PROVE  PairInv(p, q)' /\ PairInv(q, p)'
  <2>1. /\ pc'[q] = pc[q] /\ task'[q] = task[q] /\ PairInv(p, q) /\ PairInv(q, p)
        /\ StampInv(q) /\ task[q].stamp \in Name
    BY <1>1, <1>5, PlaceType DEF Others, BInv, RunInv, Task
  <2>2. /\ Running(q)' <=> Running(q)
        /\ StoreOf(q)' = StoreOf(q)
        /\ \A i : Ahead(q, i)' <=> Ahead(q, i)
    BY <2>1, Stays
  <2>3. PairInv(p, q)'
    BY <1>5, <1>6, <2>1, <2>2 DEF PairInv
  <2>4. \A i \in DOMAIN Stores : Ahead(q, i) /\ s = Stores[i] => task[q].stamp \notin doomed
    BY <2>1 DEF StampInv, Present
  <2>5. PairInv(q, p)'
    BY <1>2, <1>5, <1>6, <2>1, <2>2, <2>4 DEF PairInv
  <2>6. QED
    BY <2>3, <2>5
<1>10. QED
  BY <1>1, <1>5, <1>8, <1>9, QuietRunStep

(* What a publication adds.                                                *)
LEMMA PublishKeeps ==
    ASSUME SInv, SInv', BInv, NEW p \in Processes, Publish(p)
    PROVE  BInv'
<1>1. /\ Types /\ Types' /\ ProcessInv(p) /\ RunInv(p) /\ pc[p] = "publish"
      /\ Names /\ Instants
  BY DEF SInv, BInv, Publish
<1>2. PICK s \in Store : StoreOf(p) = s
  BY <1>1, PlaceType
<1>3. PICK b \in Backup, k \in Name : b = task[p].copy /\ k = task[p].stamp
  BY <1>1, PlaceType DEF Task
<1>4. /\ task[p] \in Task /\ task[p].place \in DOMAIN Stores /\ s = Stores[task[p].place]
      /\ task[p].place \in 1..Len(Stores) /\ task[p].place \in Int
      /\ task[p].kind = "maintain" /\ now \in Nat /\ b.at \in Nat /\ k \in Nat
      /\ DOMAIN Stores \subseteq Int
  <2>1. b.at \in Nat /\ k \in Nat /\ now \in Nat
    BY <1>1, <1>3, Bounds DEF Types, Backup, Name
  <2>2. QED
    BY <1>1, <1>2, <2>1, PlaceType, Places DEF ProcessInv, KindInv, Running
<1>5. CASE Refuse(p, task[p].kind, task[p].place) /\ backups' = backups
  BY <1>4, <1>5, RefusingKeeps DEF Publish
<1>6. CASE /\ Validates(p)
           /\ backups' = [backups EXCEPT ![s][k] = b]
           /\ Goto(p, "list")
           /\ task' = [task EXCEPT ![p].copy = NoBackup]
  <2>1. /\ backups'[s][k] = b
        /\ \A n \in Name : n # k => backups'[s][n] = backups[s][n]
        /\ \A o \in Store : o # s => backups'[o] = backups[o]
        /\ UNCHANGED <<now, begun>>
    BY <1>1, <1>6 DEF Types, Publish
  <2>2. /\ Others(p) /\ pc'[p] = "list" /\ task'[p].stamp = k
        /\ task'[p].place = task[p].place /\ task'[p].doomed = task[p].doomed
        /\ task'[p].copy = NoBackup
    BY <1>1, <1>3, <1>4, <1>6, NoBackupType DEF Goto, Types, Others, Task
  <2>3. task'[p].doomed = {} /\ task[p].doomed = {}
    BY <1>1, <2>2, NothingDoomed
  <2>4. /\ Running(p) /\ Running(p)' /\ Begun(k) /\ Begun(k)' /\ Ahead(p, task[p].place)
        /\ b.there /\ b.at <= now /\ k <= b.at /\ ~backups[s][k].there
    BY <1>1, <1>3, <1>4, <1>6, <2>1, <2>2
       DEF Running, Ahead, RunInv, StampInv, InstantInv, Begun, Validates, Usable
  <2>5. \A n \in Name : backups[s][n].there => backups[s][n].at # b.at
    BY <1>1, <1>2, <1>3 DEF RunInv, InstantInv
  <2>6. Names'
    BY <1>1, <2>1, <2>4 DEF Names, Begun
  <2>7. Instants'
    <3>1. ASSUME NEW o \in Store, NEW n \in Name, NEW m \in Name,
                 backups'[o][n].there, backups'[o][m].there, n # m
          PROVE  backups'[o][n].at # backups'[o][m].at
      <4>1. CASE o # s
        BY <1>1, <2>1, <3>1, <4>1 DEF Instants
      <4>2. CASE o = s /\ n # k /\ m # k
        BY <1>1, <2>1, <3>1, <4>2 DEF Instants
      <4>3. CASE o = s /\ n = k
        BY <2>1, <2>5, <3>1, <4>3
      <4>4. CASE o = s /\ m = k
        BY <2>1, <2>5, <3>1, <4>4
      <4>5. QED
        BY <4>1, <4>2, <4>3, <4>4
    <3>2. QED
      BY <3>1 DEF Instants
  <2>8. RunInv(p)'
    <3>1. StampInv(p)'
      <4>1. ASSUME NEW i \in DOMAIN Stores, Ahead(p, i)'
            PROVE  ~backups'[Stores[i]][k].there
        <5>1. task[p].place < i
          BY <2>2, <4>1 DEF Ahead
        <5>2. Ahead(p, i) /\ Stores[i] # s /\ Stores[i] \in Store
          BY <1>4, <2>4, <4>1, <5>1, StoreAssumption, Places DEF Ahead
        <5>3. QED
          BY <1>1, <1>3, <2>1, <5>2 DEF RunInv, StampInv
      <4>2. QED
        BY <2>2, <2>4, <4>1 DEF StampInv
    <3>2. InstantInv(p)' /\ DoomedInv(p)'
      BY <2>2, <2>3, NoBackupType DEF InstantInv, DoomedInv
    <3>3. CoverInv(p)'
      <4>1. ASSUME NEW i \in DOMAIN Stores, KeepCount >= 1, Behind(p, i)'
            PROVE  \E n \in Name : /\ backups'[Stores[i]][n].there
                                   /\ backups'[Stores[i]][n].at >= k
        <5>1. CASE i = task[p].place
          BY <1>4, <2>1, <2>4, <5>1
        <5>2. CASE i # task[p].place
          <6>1. Behind(p, i) /\ Stores[i] # s /\ Stores[i] \in Store
            BY <1>4, <2>2, <2>4, <4>1, <5>2, StoreAssumption, Places DEF Behind, Ahead
          <6>2. QED
            BY <1>1, <1>3, <2>1, <4>1, <6>1 DEF RunInv, CoverInv
        <5>3. QED
          BY <5>1, <5>2
      <4>2. QED
        BY <2>2, <4>1 DEF CoverInv
    <3>4. QED
      BY <3>1, <3>2, <3>3 DEF RunInv
  <2>9. ASSUME NEW q \in Processes \ {p}
        PROVE  RunInv(q)' /\ PairInv(p, q)' /\ PairInv(q, p)'
    <3>1. /\ pc'[q] = pc[q] /\ task'[q] = task[q] /\ PairInv(p, q) /\ PairInv(q, p)
          /\ RunInv(q) /\ task[q] \in Task /\ StoreOf(q) \in Store
      BY <1>1, <2>2, PlaceType DEF Others, BInv
    <3>2. /\ Running(q)' <=> Running(q)
          /\ Restoring(q)' <=> Restoring(q)
          /\ StoreOf(q)' = StoreOf(q)
          /\ \A i : Ahead(q, i)' <=> Ahead(q, i)
          /\ \A i : Behind(q, i)' <=> Behind(q, i)
      BY <3>1, Stays
    <3>3. task[q].stamp \in Name /\ task[q].doomed \subseteq Name
      BY <3>1 DEF Task
    <3>4. PairInv(p, q)' /\ PairInv(q, p)'
      <4>1. \A i \in DOMAIN Stores : Ahead(p, i)' => Ahead(p, i)
        BY <2>2, <2>4 DEF Ahead
      <4>2. PairInv(p, q)'
        BY <1>3, <2>2, <2>4, <3>1, <3>2, <4>1 DEF PairInv
      <4>3. PairInv(q, p)'
        BY <1>3, <2>2, <2>3, <2>4, <3>1, <3>2 DEF PairInv
      <4>4. QED
        BY <4>2, <4>3
    <3>5. StampInv(q)'
      <4>1. Running(q) => task[q].stamp # k
        BY <1>3, <2>4, <3>1 DEF PairInv
      <4>2. \A i \in DOMAIN Stores : Ahead(q, i) =>
                Running(q) /\ ~backups[Stores[i]][task[q].stamp].there
        BY <3>1 DEF RunInv, StampInv, Ahead
      <4>3. QED
        BY <2>1, <3>1, <3>2, <3>3, <4>1, <4>2, Places DEF RunInv, StampInv, Begun
    <3>6. InstantInv(q)'
      <4>1. pc[q] = "publish" /\ StoreOf(q) = s => task[q].copy.at # b.at
        BY <1>1, <1>2, <1>3, <3>1 DEF PairInv
      <4>2. QED
        BY <2>1, <3>1, <3>2, <4>1 DEF RunInv, InstantInv
    <3>7. DoomedInv(q)'
      <4>1. ASSUME NEW n \in task[q].doomed, backups'[StoreOf(q)][n].there
            PROVE  Cardinality(Newer(StoreOf(q), n))' >= KeepCount
        <5>1. PICK o \in Store : o = StoreOf(q)
          BY <3>1
        <5>2. o = s => n # k
          BY <1>2, <1>3, <1>4, <2>4, <3>1, <5>1 DEF PairInv
        <5>3. backups'[o][n] = backups[o][n] /\ n \in Name
          BY <2>1, <3>3, <5>2
        <5>4. Cardinality(Newer(o, n)) >= KeepCount
          BY <3>1, <4>1, <5>1, <5>3, <3>2 DEF RunInv, DoomedInv
        <5>5. Newer(o, n) \subseteq Newer(o, n)' /\ Newer(o, n)' \in SUBSET Name
          BY <2>1, <2>4, <5>3 DEF Newer
        <5>6. Cardinality(Newer(o, n)) <= Cardinality(Newer(o, n)')
              /\ Cardinality(Newer(o, n)) \in Nat /\ Cardinality(Newer(o, n)') \in Nat
          BY <5>5, Finite
        <5>7. Cardinality(Newer(o, n)') >= KeepCount
          BY <5>4, <5>6, Bounds
        <5>8. QED
          BY <3>2, <5>1, <5>7 DEF Newer
      <4>2. QED
        BY <2>1, <3>1, <3>2, <4>1 DEF RunInv, DoomedInv, Begun
    <3>8. CoverInv(q)'
      <4>1. \A o \in Store, n \in Name : backups[o][n].there => backups'[o][n] = backups[o][n]
        BY <2>1, <2>4
      <4>2. QED
        BY <3>1, <3>2, <4>1, Places DEF RunInv, CoverInv
    <3>9. QED
      BY <3>4, <3>5, <3>6, <3>7, <3>8 DEF RunInv
  <2>10. QED
    BY <2>2, <2>6, <2>7, <2>8, <2>9, RunStep
<1>7. QED
  BY <1>2, <1>3, <1>5, <1>6 DEF Publish

(* What a deletion takes was listed by a run, so KeepCount newer backups   *)
(* stay; those that were newer than another one still are.                 *)
LEMMA DeletionKeepsNewer ==
    ASSUME SInv, BInv, NEW s \in Store, NEW k \in Name,
           backups[s][k].there => Cardinality(Newer(s, k)) >= KeepCount,
           backups' = [backups EXCEPT ![s][k] = NoBackup],
           NEW n \in Name, n # k, backups[s][n].there,
           Cardinality(Newer(s, n)) >= KeepCount
    PROVE  Cardinality(Newer(s, n)') >= KeepCount
<1>1. Types
  BY DEF SInv
<1>2. /\ backups'[s][k] = NoBackup /\ backups'[s][n] = backups[s][n]
      /\ \A m \in Name : m # k => backups'[s][m] = backups[s][m]
  BY <1>1 DEF Types
<1>3. Newer(s, n)' = Newer(s, n) \ {k}
  BY <1>2, NoBackupType DEF Newer
<1>4. /\ Newer(s, n) \in SUBSET Name /\ Newer(s, k) \in SUBSET Name
      /\ Newer(s, n)' \in SUBSET Name
  BY <1>3 DEF Newer
<1>5. CASE k \notin Newer(s, n)
  <2>1. Newer(s, n)' = Newer(s, n)
    BY <1>3, <1>5
  <2>2. QED
    BY <2>1
<1>6. CASE k \in Newer(s, n)
  <2>1. backups[s][k].there /\ backups[s][k].at > backups[s][n].at
    BY <1>6 DEF Newer
  <2>2. \A m \in Name : backups[s][m].at \in Int
    BY <1>1 DEF Types, Backup
  <2>3. \A m \in Newer(s, k) : m \in Newer(s, n) /\ m # k
    BY <2>1, <2>2 DEF Newer
  <2>4. Newer(s, k) \subseteq Newer(s, n)'
    BY <1>3, <2>3
  <2>5. /\ Cardinality(Newer(s, k)) <= Cardinality(Newer(s, n)')
        /\ Cardinality(Newer(s, k)) \in Nat /\ Cardinality(Newer(s, n)') \in Nat
    BY <1>4, <2>4, Finite
  <2>6. QED
    BY <2>1, <2>5, Bounds
<1>7. QED
  BY <1>5, <1>6

LEMMA DeleteKeeps ==
    ASSUME SInv, SInv', BInv, NEW p \in Processes, Delete(p)
    PROVE  BInv'
<1>1. Types /\ Types' /\ RunInv(p) /\ pc[p] = "delete" /\ Names /\ Instants
  BY DEF SInv, BInv, Delete
<1>2. PICK s \in Store : StoreOf(p) = s
  BY <1>1, PlaceType
<1>3. task[p] \in Task /\ task[p].doomed \subseteq Name
  BY <1>1, PlaceType DEF Task
<1>4. PICK k \in task[p].doomed :
         /\ task' = [task EXCEPT ![p].doomed = @ \ {k}]
         /\ \/ backups' = [backups EXCEPT ![s][k] = NoBackup]
            \/ backups' = backups
  BY <1>2 DEF Delete
<1>5. /\ UNCHANGED <<now, begun>> /\ pc' = pc /\ Others(p) /\ k \in Name
      /\ task'[p].doomed = task[p].doomed \ {k}
      /\ task'[p].stamp = task[p].stamp /\ task'[p].place = task[p].place
      /\ task'[p].copy = task[p].copy
  <2>1. UNCHANGED <<now, begun>> /\ pc' = pc
    BY DEF Delete
  <2>2. QED
    BY <1>1, <1>3, <1>4, <2>1 DEF Others, Types, Task
<1>6. /\ \A q \in Processes : pc'[q] = pc[q] /\ task'[q].stamp = task[q].stamp
                               /\ task'[q].place = task[q].place
                               /\ task'[q].copy = task[q].copy
                               /\ task'[q].doomed \subseteq task[q].doomed
  BY <1>5 DEF Others
<1>7. ASSUME NEW q \in Processes
      PROVE  /\ Running(q)' <=> Running(q)
             /\ Restoring(q)' <=> Restoring(q)
             /\ StoreOf(q)' = StoreOf(q)
             /\ \A i : Ahead(q, i)' <=> Ahead(q, i)
             /\ \A i : Behind(q, i)' <=> Behind(q, i)
  <2>1. pc'[q] = pc[q] /\ task'[q].place = task[q].place
    BY <1>6
  <2>2. (Running(q)' <=> Running(q)) /\ (Restoring(q)' <=> Restoring(q))
    BY <2>1 DEF Running, Restoring
  <2>3. StoreOf(q)' = StoreOf(q)
    BY <2>1 DEF StoreOf
  <2>4. \A i : Ahead(q, i)' <=> Ahead(q, i)
    BY <2>1, <2>2 DEF Ahead
  <2>5. \A i : Behind(q, i)' <=> Behind(q, i)
    BY <2>2, <2>4 DEF Behind
  <2>6. QED
    BY <2>2, <2>3, <2>4, <2>5
<1>8. ASSUME NEW q \in Processes, NEW r \in Processes, PairInv(q, r)
      PROVE  PairInv(q, r)'
  <2>1. /\ pc'[q] = pc[q] /\ task'[q].stamp = task[q].stamp /\ task'[q].copy = task[q].copy
        /\ pc'[r] = pc[r] /\ task'[r].stamp = task[r].stamp /\ task'[r].copy = task[r].copy
        /\ task'[r].doomed \subseteq task[r].doomed
    BY <1>6
  <2>2. /\ Running(q)' <=> Running(q)
        /\ Running(r)' <=> Running(r)
        /\ StoreOf(q)' = StoreOf(q) /\ StoreOf(r)' = StoreOf(r)
        /\ \A i : Ahead(q, i)' <=> Ahead(q, i)
    BY <1>7
  <2>3. QED
    BY <1>8, <2>1, <2>2 DEF PairInv
<1>9. /\ \A o \in Store, n \in Name :
            backups'[o][n].there => backups'[o][n] = backups[o][n]
      /\ \A o \in Store, n \in Name :
            backups[o][n].there => backups'[o][n] = backups[o][n] \/ (o = s /\ n = k)
  <2>1. CASE backups' = [backups EXCEPT ![s][k] = NoBackup]
    BY <1>1, <1>5, <2>1, NoBackupType DEF Types
  <2>2. CASE backups' = backups
    BY <2>2
  <2>3. QED
    BY <1>4, <2>1, <2>2
<1>10. Names' /\ Instants'
  <2>1. Names'
    BY <1>1, <1>5, <1>9 DEF Names, Begun
  <2>2. Instants'
    BY <1>1, <1>9 DEF Instants
  <2>3. QED
    BY <2>1, <2>2
<1>11. backups[s][k].there => Cardinality(Newer(s, k)) >= KeepCount
  BY <1>1, <1>2 DEF RunInv, DoomedInv
<1>12. ASSUME NEW q \in Processes
       PROVE  RunInv(q)'
  <2>1. RunInv(q) /\ StoreOf(q) \in Store /\ task[q] \in Task
    BY <1>1, PlaceType DEF BInv
  <2>2. task[q].stamp \in Name /\ task[q].doomed \subseteq Name
    BY <2>1 DEF Task
  <2>11. /\ pc'[q] = pc[q] /\ task'[q].stamp = task[q].stamp /\ task'[q].copy = task[q].copy
         /\ task'[q].place = task[q].place /\ task'[q].doomed \subseteq task[q].doomed
    BY <1>6
  <2>12. /\ Running(q)' <=> Running(q)
         /\ Restoring(q)' <=> Restoring(q)
         /\ StoreOf(q)' = StoreOf(q)
         /\ \A i : Ahead(q, i)' <=> Ahead(q, i)
         /\ \A i : Behind(q, i)' <=> Behind(q, i)
    BY <1>7
  <2>3. StampInv(q)'
    BY <1>5, <1>9, <2>1, <2>2, <2>11, <2>12, Places DEF RunInv, StampInv, Begun
  <2>4. InstantInv(q)'
    BY <1>5, <1>9, <2>1, <2>11, <2>12 DEF RunInv, InstantInv
  <2>5. DoomedInv(q)'
    <3>1. ASSUME NEW n \in task'[q].doomed, backups'[StoreOf(q)][n].there
          PROVE  Cardinality(Newer(StoreOf(q), n))' >= KeepCount
      <4>1. PICK o \in Store : o = StoreOf(q)
        BY <2>1
      <4>2. n \in task[q].doomed /\ n \in Name /\ backups'[o][n].there
        BY <2>2, <2>11, <2>12, <3>1, <4>1
      <4>3. backups'[o][n] = backups[o][n] /\ backups[o][n].there
        BY <1>9, <4>2
      <4>4. Cardinality(Newer(o, n)) >= KeepCount
        BY <2>1, <4>1, <4>2, <4>3 DEF RunInv, DoomedInv
      <4>5. Cardinality(Newer(o, n)') >= KeepCount
        <5>1. CASE backups' = backups
          BY <4>4, <5>1 DEF Newer
        <5>2. CASE backups' = [backups EXCEPT ![s][k] = NoBackup] /\ o # s
          <6>1. backups'[o] = backups[o]
            BY <1>1, <5>2 DEF Types
          <6>2. QED
            BY <4>4, <6>1 DEF Newer
        <5>3. CASE backups' = [backups EXCEPT ![s][k] = NoBackup] /\ o = s
          <6>1. n # k
            BY <1>1, <1>5, <4>2, <5>3, NoBackupType DEF Types
          <6>2. QED
            BY <1>5, <1>11, <4>2, <4>3, <4>4, <5>3, <6>1, DeletionKeepsNewer
        <5>4. QED
          BY <1>4, <5>1, <5>2, <5>3
      <4>6. QED
        BY <2>12, <4>1, <4>5 DEF Newer
    <3>2. task'[q].doomed # {} => pc'[q] = "delete"
      BY <2>1, <2>11 DEF RunInv, DoomedInv
    <3>3. \A n \in task'[q].doomed : Begun(n)'
      BY <1>5, <2>1, <2>11 DEF RunInv, DoomedInv, Begun
    <3>4. QED
      BY <2>12, <3>1, <3>2, <3>3 DEF DoomedInv
  <2>6. CoverInv(q)'
    <3>1. ASSUME NEW i \in DOMAIN Stores, KeepCount >= 1, Behind(q, i)
          PROVE  \E n \in Name : /\ backups'[Stores[i]][n].there
                                 /\ backups'[Stores[i]][n].at >= task[q].stamp
      <4>1. PICK n \in Name : /\ backups[Stores[i]][n].there
                              /\ backups[Stores[i]][n].at >= task[q].stamp
        BY <2>1, <3>1 DEF RunInv, CoverInv
      <4>2. Stores[i] \in Store
        BY Places
      <4>3. CASE backups'[Stores[i]][n] = backups[Stores[i]][n]
        BY <4>1, <4>3
      <4>4. CASE Stores[i] = s /\ n = k
        <5>1. Cardinality(Newer(s, k)) >= 1 /\ Newer(s, k) \in SUBSET Name
          <6>1. Newer(s, k) \in SUBSET Name
            BY DEF Newer
          <6>2. Cardinality(Newer(s, k)) \in Nat
            BY <6>1, Finite
          <6>3. QED
            BY <1>11, <3>1, <4>1, <4>4, <6>1, <6>2, Bounds
        <5>2. PICK m \in Newer(s, k) : TRUE
          BY <5>1, FS_EmptySet
        <5>3. m \in Name /\ backups[s][m].there /\ backups[s][m].at > backups[s][k].at
          BY <5>2 DEF Newer
        <5>4. backups[s][m].at \in Nat /\ backups[s][k].at \in Nat /\ task[q].stamp \in Nat
          <6>1. backups[s][m] \in Backup /\ backups[s][k] \in Backup
            BY <1>1, <1>5, <5>3 DEF Types
          <6>2. QED
            BY <2>2, <6>1, Bounds DEF Backup, Name
        <5>5. m # k
          BY <5>3, <5>4
        <5>6. backups'[s][m] = backups[s][m]
          BY <1>9, <5>3, <5>5
        <5>7. QED
          BY <4>1, <4>4, <5>3, <5>4, <5>6
      <4>5. QED
        BY <1>9, <4>1, <4>2, <4>3, <4>4
    <3>2. QED
      BY <2>11, <2>12, <3>1 DEF CoverInv
  <2>7. QED
    BY <2>3, <2>4, <2>5, <2>6 DEF RunInv
<1>13. \A q \in Processes \ {p} : PairInv(p, q)' /\ PairInv(q, p)'
  BY <1>8 DEF BInv
<1>14. QED
  BY <1>5, <1>10, <1>12, <1>13, RunStep

-----------------------------------------------------------------------------
(* The theorems about the backups.                                         *)

LEMMA IdleKeeps ==
    ASSUME SInv, SInv', BInv, UNCHANGED <<backups, pc, task>>,
           Tick \/ UNCHANGED <<now, begun>>
    PROVE  BInv'
<1>1. Types /\ Types' /\ now \in Nat /\ now' \in Nat
  BY Bounds DEF SInv, Types, Name
<1>2. now <= now' /\ \A n \in Name : Begun(n) => Begun(n)'
  BY <1>1, Bounds DEF Tick, Begun, Name
<1>3. Names' /\ Instants'
  <2>1. \A s \in Store, n \in Name : backups[s][n].at \in Nat
    BY <1>1, Bounds DEF Types, Backup, Name
  <2>2. QED
    BY <1>1, <1>2, <2>1 DEF BInv, Names, Instants
<1>4. ASSUME NEW q \in Processes
      PROVE  RunInv(q)'
  <2>1. pc'[q] = pc[q] /\ task'[q] = task[q] /\ RunInv(q)
    BY DEF BInv
  <2>2. QED
    BY <1>1, <1>2, <2>1, Untouched
<1>5. ASSUME NEW q \in Processes, NEW r \in Processes \ {q}
      PROVE  PairInv(q, r)'
  BY DEF BInv, PairInv, Running, Ahead, StoreOf
<1>6. QED
  BY <1>3, <1>4, <1>5 DEF BInv

LEMMA ProcessKeeps ==
    ASSUME SInv, SInv', BInv, NEW p \in Processes,
           \/ Serve(p) \/ Maintain(p) \/ Restore(p) \/ Refused(p)
           \/ Lock(p) \/ Apply(p) \/ Write(p) \/ Commit(p) \/ Busy(p)
           \/ Copy(p) \/ Publish(p) \/ List(p) \/ ListFails(p) \/ Delete(p)
           \/ NextStore(p) \/ Dispose(p)
           \/ Fetch(p) \/ Replace(p)
           \/ Crash(p)
    PROVE  BInv'
<1>1. CASE Serve(p)
  BY <1>1, OpenKeeps DEF Serve
<1>2. CASE Dispose(p)
  <2>1. CASE Refuse(p, task[p].kind, task[p].place) /\ UNCHANGED <<now, begun, backups>>
    BY <1>2, <2>1, WorksOn, RefusingKeeps DEF Dispose, Running
  <2>2. CASE \E i \in DOMAIN Stores : Open(p, i)
    BY <2>2, OpenKeeps
  <2>3. QED
    BY <1>2, <2>1, <2>2 DEF Dispose
<1>3. CASE Lock(p) \/ Apply(p) \/ Write(p) \/ Commit(p) \/ Busy(p) \/ Refused(p) \/ ListFails(p)
           \/ Crash(p)
  BY <1>3, ServingKeeps
<1>4. CASE Restore(p) \/ Fetch(p) \/ Replace(p)
  BY <1>4, RestoringKeeps
<1>5. CASE Maintain(p) \/ Copy(p) \/ Publish(p) \/ List(p) \/ Delete(p) \/ NextStore(p)
  BY <1>5, MaintainKeeps, CopyKeeps, PublishKeeps, ListKeeps, DeleteKeeps, NextStoreKeeps
<1>6. QED
  BY <1>1, <1>2, <1>3, <1>4, <1>5

LEMMA InitKeeps == Init => BInv
<1> SUFFICES ASSUME Init PROVE BInv
  OBVIOUS
<1>1. \A s \in Store, n \in Name : ~backups[s][n].there
  BY NoBackupType DEF Init
<1>2. \A p \in Processes : pc[p] = "idle" /\ task[p] = NoTask
  BY DEF Init
<1>3. NoTask.doomed = {} /\ ~NoTask.copy.there
  BY NoBackupType, WorkType, Places, Bounds DEF NoTask
<1>4. \A p \in Processes : RunInv(p)
  BY <1>2, <1>3
     DEF RunInv, StampInv, InstantInv, DoomedInv, CoverInv, Ahead, Behind, Running
<1>5. \A p, q \in Processes : PairInv(p, q)
  BY <1>2 DEF PairInv, Running, Ahead
<1>6. Names /\ Instants
  BY <1>1 DEF Names, Instants
<1>7. QED
  BY <1>4, <1>5, <1>6 DEF BInv

(* Runs and backups are always as the invariant describes them.            *)
THEOREM BackupsAreSafe == Spec => [](SInv /\ BInv)
<1>1. SInv /\ SInv' /\ BInv /\ [Next]_vars => BInv'
  <2> SUFFICES ASSUME SInv, SInv', BInv, [Next]_vars PROVE BInv'
    OBVIOUS
  <2>1. CASE \E s \in Store : Damage(s)
    <3>1. UNCHANGED <<backups, pc, task>> /\ UNCHANGED <<now, begun>>
      BY <2>1 DEF Damage
    <3>2. QED
      BY <3>1, IdleKeeps
  <2>2. CASE Tick
    <3>1. UNCHANGED <<backups, pc, task>>
      BY <2>2 DEF Tick
    <3>2. QED
      BY <2>2, <3>1, IdleKeeps
  <2>3. CASE UNCHANGED vars
    <3>1. UNCHANGED <<backups, pc, task>> /\ UNCHANGED <<now, begun>>
      BY <2>3 DEF vars
    <3>2. QED
      BY <3>1, IdleKeeps
  <2>4. QED
    BY <2>1, <2>2, <2>3, ProcessKeeps DEF Next
<1>2. QED
  BY <1>1, InitKeeps, StoresAreSafe, PTL DEF Spec

(* BackupsServe: with a count of at least one, every published backup can  *)
(* be restored, and a run that comes to the disposal has left a backup of  *)
(* every store that is as recent as the run.                               *)
THEOREM EveryStoreIsBackedUp ==
    ASSUME KeepCount >= 1
    PROVE  Spec => []BackupsServe
<1>1. SInv /\ BInv => BackupsServe
  <2> SUFFICES ASSUME SInv, BInv PROVE BackupsServe
    OBVIOUS
  <2>1. ASSUME NEW p \in Processes, pc[p] = "dispose", NEW s \in Store
        PROVE  \E n \in Present(s) : backups[s][n].at >= task[p].stamp
    <3>1. PICK i \in DOMAIN Stores : s = Stores[i]
      BY DEF Store
    <3>2. task[p].place = Len(Stores) /\ i <= Len(Stores) /\ CoverInv(p)
          /\ i \in Int /\ Len(Stores) \in Int
      BY <2>1, Places DEF BInv, RunInv, StampInv
    <3>3. Behind(p, i)
      BY <2>1, <3>2 DEF Behind, Ahead, Running
    <3>4. QED
      BY <3>1, <3>2, <3>3 DEF CoverInv, Present
  <2>2. RunsBackUpEveryStore
    BY <2>1 DEF RunsBackUpEveryStore
  <2>3. QED
    BY <2>2 DEF SInv, BackupsServe
<1>2. QED
  BY <1>1, BackupsAreSafe, PTL

(* RecentAreKept holds of every step: whatever lists runs prune from, the  *)
(* KeepCount most recent backups of a store stay.                          *)
THEOREM PruningKeepsTheRecent == Spec => RecentAreKept
<1> DEFINE Keeps == \A s \in Store, n \in Name :
              backups[s][n].there /\ ~backups'[s][n].there =>
                  Cardinality({m \in Name : /\ backups'[s][m].there
                                           /\ backups'[s][m].at >= backups[s][n].at})
                      >= KeepCount
<1>1. ASSUME SInv, BInv, NEW p \in Processes, Delete(p)
      PROVE  Keeps
  <2>1. Types /\ RunInv(p)
    BY <1>1 DEF SInv, BInv
  <2>2. PICK s \in Store : StoreOf(p) = s
    BY <2>1, PlaceType
  <2>3. PICK k \in task[p].doomed : \/ backups' = [backups EXCEPT ![s][k] = NoBackup]
                                    \/ backups' = backups
    BY <1>1, <2>2 DEF Delete
  <2>4. k \in Name
    BY <2>1, PlaceType DEF Task
  <2>5. CASE backups' = backups
    BY <2>5
  <2>6. CASE backups' = [backups EXCEPT ![s][k] = NoBackup]
    <3>1. /\ \A n \in Name : n # k => backups'[s][n] = backups[s][n]
          /\ \A o \in Store : o # s => backups'[o] = backups[o]
      BY <2>1, <2>6 DEF Types
    <3>2. ASSUME backups[s][k].there
          PROVE  Cardinality({m \in Name : /\ backups'[s][m].there
                                          /\ backups'[s][m].at >= backups[s][k].at})
                     >= KeepCount
      <4> DEFINE stay == {m \in Name : /\ backups'[s][m].there
                                      /\ backups'[s][m].at >= backups[s][k].at}
      <4>1. Cardinality(Newer(s, k)) >= KeepCount
        BY <2>1, <2>2, <3>2 DEF RunInv, DoomedInv
      <4>2. \A m \in Name : backups[s][m].at \in Int
        BY <2>1 DEF Types, Backup
      <4>3. \A m \in Newer(s, k) : m \in stay
        BY <2>4, <3>1, <4>2 DEF Newer
      <4>4. stay \in SUBSET Name
        OBVIOUS
      <4> HIDE DEF stay
      <4>5. Newer(s, k) \in SUBSET stay
        BY <4>3
      <4>6. /\ Cardinality(Newer(s, k)) <= Cardinality(stay)
            /\ Cardinality(Newer(s, k)) \in Nat /\ Cardinality(stay) \in Nat
        BY <4>4, <4>5, Finite
      <4>7. Cardinality(stay) >= KeepCount
        BY <4>1, <4>6, Bounds
      <4>8. QED
        BY <4>7 DEF stay
    <3>3. ASSUME NEW o \in Store, NEW n \in Name, backups[o][n].there, ~backups'[o][n].there
          PROVE  o = s /\ n = k
      BY <3>1, <3>3
    <3>4. QED
      BY <3>2, <3>3
  <2>7. QED
    BY <2>3, <2>5, <2>6
<1>2. ASSUME SInv, NEW p \in Processes, Publish(p)
      PROVE  Keeps
  <2>1. Types /\ StoreOf(p) \in Store /\ task[p] \in Task
    BY <1>2, PlaceType DEF SInv
  <2>2. task[p].stamp \in Name
    BY <2>1 DEF Task
  <2>3. CASE backups' = backups
    BY <2>3
  <2>4. CASE Validates(p)
    <3>1. task[p].copy.there
      BY <2>4 DEF Validates, Usable
    <3>2. backups' = [backups EXCEPT ![StoreOf(p)][task[p].stamp] = task[p].copy]
      BY <1>2, <2>4 DEF Publish
    <3>3. \A s \in Store, n \in Name : backups[s][n].there => backups'[s][n].there
      BY <2>1, <2>2, <3>1, <3>2 DEF Types
    <3>4. QED
      BY <3>3
  <2>5. QED
    BY <1>2, <2>3, <2>4 DEF Publish
<1>3. ASSUME [Next]_vars
      PROVE  backups' = backups \/ \E p \in Processes : Publish(p) \/ Delete(p)
  <2>1. ASSUME NEW p \in Processes,
               Serve(p) \/ Maintain(p) \/ Restore(p) \/ Refused(p) \/ Busy(p) \/ Dispose(p)
        PROVE  backups' = backups
    BY <2>1 DEF Serve, Open, Maintain, Restore, Refused, Busy, Dispose
  <2>2. ASSUME NEW p \in Processes, Lock(p) \/ Apply(p) \/ Write(p) \/ Commit(p) \/ Crash(p)
        PROVE  backups' = backups
    BY <2>2 DEF Lock, Apply, Write, Commit, Crash
  <2>3. ASSUME NEW p \in Processes,
               Copy(p) \/ List(p) \/ ListFails(p) \/ NextStore(p) \/ Fetch(p) \/ Replace(p)
        PROVE  backups' = backups
    BY <2>3 DEF Copy, List, ListFails, NextStore, Fetch, Replace
  <2>4. (\E s \in Store : Damage(s)) \/ Tick \/ UNCHANGED vars => backups' = backups
    BY DEF Damage, Tick, vars
  <2>5. QED
    BY <1>3, <2>1, <2>2, <2>3, <2>4 DEF Next
<1>4. SInv /\ BInv /\ [Next]_vars => [Keeps]_vars
  <2>1. backups' = backups => Keeps
    OBVIOUS
  <2> HIDE DEF Keeps
  <2>2. QED
    BY <1>1, <1>2, <1>3, <2>1
<1>5. QED
  BY <1>4, BackupsAreSafe, PTL DEF Spec, RecentAreKept
=============================================================================
