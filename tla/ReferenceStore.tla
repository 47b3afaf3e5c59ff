--------------------------- MODULE ReferenceStore ---------------------------
(***************************************************************************)
(* The administration operations of the reference repository               *)
(* (src/veridoc/persistence/sqlite.py), called in worker threads by        *)
(* src/veridoc/administration/api.py and in processes of their own by its  *)
(* command line: concurrent requests that create, replace, delete, import  *)
(* and read invoices, purchase orders and vendors in one SQLite file, and  *)
(* the audit log written with them.                                        *)
(*                                                                         *)
(* Updates and imports take the write lock before they read (BEGIN         *)
(* IMMEDIATE), creates take it with their INSERT, deletes take it with     *)
(* their DELETE after two reads in autocommit; plain reads hold one        *)
(* snapshot (BEGIN), which keeps a writer from committing.                 *)
(***************************************************************************)
EXTENDS AuditLedger

CONSTANTS Slots,          \* request slots: one request in flight in each
          NoSlot,
          NoRecord,
          Offers,         \* the requests administrators may send
          MaxLog          \* bound on the log: only reads arrive beyond it

-----------------------------------------------------------------------------
(* Values.                                                                 *)

(* One validated record of a request: provenance, natural key, facts.      *)
Item == [kind     : Kind,
         external : Externals,
         natural  : Naturals \cup {NoNatural},
         content  : Contents]

Operation == {"create", "update", "delete", "import", "get"}

(* conflict and dryRun are the query parameters of an import.              *)
Request == [op       : Operation,
            kind     : Kind,
            target   : Records \cup {NoRecord},
            batch    : Seq(Item),
            conflict : {"reject", "skip", "replace"},
            dryRun   : BOOLEAN]

ValidRequest(q) ==
    /\ q \in Request
    /\ q.op \in {"create", "update"} => Len(q.batch) = 1 /\ q.batch[1].kind = q.kind
    /\ q.op = "import" => Len(q.batch) >= 1
    /\ q.target = NoRecord <=> q.op \in {"create", "import"}
    /\ q.dryRun => q.op = "import"
    /\ \A i \in DOMAIN q.batch :
          q.batch[i].natural = NoNatural <=> q.batch[i].kind = "invoice"

ASSUME SlotAssumption == NoSlot \notin Slots
ASSUME RecordAssumption == NoRecord \notin Records
ASSUME OfferAssumption == \A q \in Offers : ValidRequest(q)
ASSUME BoundAssumption == MaxLog \in Nat

(* A row and the children that reference its integer id.                   *)
Row == [id : Nat \ {0}, image : Image]

NoRow == [id |-> 0, image |-> NoImage]

Counts == [created : Nat, replaced : Nat, skipped : Nat]

NoCounts == [created |-> 0, replaced |-> 0, skipped |-> 0]

Reply == [kind   : {"none", "ok", "not_found", "conflict", "unavailable"},
          image  : Image \cup {NoImage},
          counts : Counts]

NoReply == [kind |-> "none", image |-> NoImage, counts |-> NoCounts]

Step == {"idle", "insert", "begin", "change", "items", "find", "children",
         "remove", "audit", "commit", "snapshot", "lines"}

VARIABLES
    rows,    \* committed rows, by record identifier
    writer,  \* the slot holding the write lock, or NoSlot
    pend,    \* rows and log as its transaction sees them
    pc,      \* the next statement of each slot
    req,     \* its request
    seen,    \* the row it has read: what is returned, or the before image
    done,    \* how many records of its import are applied
    counts,  \* created, replaced and skipped so far
    reply    \* what the client was answered

vars == <<rows, log, writer, pend, pc, req, seen, done, counts, reply>>

SomeRequest == [op |-> "get", kind |-> "invoice", target |-> NoRecord,
                batch |-> <<>>, conflict |-> "reject", dryRun |-> FALSE]

NoPend == [rows |-> [x \in Records |-> NoRow], log |-> <<>>]

Holds(r) == writer = r

-----------------------------------------------------------------------------
(* Helpers.                                                                *)

Stored(rws, kind, x) == rws[x] # NoRow /\ rws[x].image.kind = kind

(* SELECT ... WHERE source = ? AND external_id = ?, and by natural key.    *)
SameExternal(rws, i) ==
    {x \in Records : Stored(rws, i.kind, x) /\ rws[x].image.external = i.external}

NaturalOwners(rws, i) ==
    {x \in Records : /\ Stored(rws, i.kind, x)
                     /\ i.natural # NoNatural
                     /\ rws[x].image.natural = i.natural}

(* Mutant: migrations without the UNIQUE indexes.                          *)
NeverRefused(rws, x, image) == FALSE

(* The UNIQUE indexes of the migrations refuse this image under x.         *)
Refused(rws, x, image) ==
    \E y \in Records \ {x} : rws[y] # NoRow /\ Clash(image, rws[y].image)

(* An identifier no row ever had (uuid4).                                  *)
Unused(l) == {x \in Records : Mentions(l, Len(l), x) = {}}

(* INTEGER PRIMARY KEY without AUTOINCREMENT: one more than the largest    *)
(* row id in use, so that of a deleted row may be given again.             *)
NextId(rws, kind) ==
    LET used == {rws[x].id : x \in {y \in Records : Stored(rws, kind, y)}}
    IN  1 + Last(used \cup {0})

(* The children that reference row id n now.                               *)
Children(rws, kind, n) ==
    LET parents == {x \in Records : Stored(rws, kind, x) /\ rws[x].id = n}
    IN  IF parents = {} THEN NoContent
        ELSE rws[CHOOSE x \in parents : TRUE].image.lines

(* A record as it is first written, and as an update or a replacing import *)
(* leaves it: provenance stays, everything else and the children go.       *)
NewImage(i) == [kind |-> i.kind, external |-> i.external, natural |-> i.natural,
                head |-> i.content, lines |-> i.content]

ReplacedImage(old, i) == [kind |-> i.kind, external |-> old.external, natural |-> i.natural,
                          head |-> i.content, lines |-> i.content]

WithLines(row, content) == [id |-> row.id, image |-> [row.image EXCEPT !.lines = content]]

NewRow(rws, image) == [id |-> NextId(rws, image.kind), image |-> image]

-----------------------------------------------------------------------------
(* Moving a request along.                                                 *)

Goto(r, step) == pc' = [pc EXCEPT ![r] = step]

Answer(r, kind, image, c) ==
    /\ Goto(r, "idle")
    /\ reply' = [reply EXCEPT ![r] = [kind |-> kind, image |-> image, counts |-> c]]
    /\ req' = [req EXCEPT ![r] = SomeRequest]
    /\ seen' = [seen EXCEPT ![r] = NoRow]
    /\ done' = [done EXCEPT ![r] = 0]
    /\ counts' = [counts EXCEPT ![r] = NoCounts]

Refuse(r, kind) == Answer(r, kind, NoImage, NoCounts)

(* Mutant: an early return that leaves the transaction open.               *)
KeepLock == UNCHANGED <<writer, pend>>

(* `with connection' and rollback(): the transaction is over.              *)
EndTransaction == writer' = NoSlot /\ pend' = NoPend

(* BEGIN IMMEDIATE, or the first write of a connection.                    *)
Lock(r) == writer = NoSlot /\ writer' = r

(* Row x written to the transaction of slot r.                             *)
Put(rws, x, row) == [rws EXCEPT ![x] = row]

AuditEntry(op, x, before, after) ==
    [op |-> op, record |-> x, before |-> before, after |-> after]

-----------------------------------------------------------------------------
(* A request arrives: its handler's thread, or its process, starts.        *)
FirstStep == [create |-> "insert", update |-> "begin", import |-> "begin",
              delete |-> "find", get |-> "snapshot"]

Arrive(r) ==
    /\ pc[r] = "idle"
    /\ \E q \in Offers :
          /\ Len(log) < MaxLog \/ q.op = "get"
          /\ req' = [req EXCEPT ![r] = q]
          /\ Goto(r, FirstStep[q.op])
    /\ reply' = [reply EXCEPT ![r] = NoReply]
    /\ UNCHANGED <<rows, log, writer, pend, seen, done, counts>>

(* create_*: the INSERT takes the lock; a UNIQUE index may refuse it.      *)
Insert(r) ==
    /\ pc[r] = "insert"
    /\ writer = NoSlot
    /\ LET image == NewImage(req[r].batch[1])
       IN  IF Refused(rows, NoRecord, image)
           THEN Refuse(r, "conflict") /\ UNCHANGED <<writer, pend>>
           ELSE /\ \E x \in Unused(log) :
                      /\ req' = [req EXCEPT ![r].target = x]
                      /\ pend' = [rows |-> Put(rows, x, NewRow(rows, image)), log |-> log]
                /\ Lock(r)
                /\ Goto(r, "audit")
                /\ UNCHANGED <<seen, done, counts, reply>>
    /\ UNCHANGED <<rows, log>>

(* update_admin_* and import_reference_data: BEGIN IMMEDIATE.              *)
Begin(r) ==
    /\ pc[r] = "begin"
    /\ Lock(r)
    /\ pend' = [rows |-> rows, log |-> log]
    /\ Goto(r, IF req[r].op = "update" THEN "change" ELSE "items")
    /\ UNCHANGED <<rows, log, req, seen, done, counts, reply>>

(* update_admin_*: read, replace the row and its children, read back.      *)
Change(r) ==
    /\ pc[r] = "change"
    /\ LET q == req[r]
           old == pend.rows[q.target]
           image == ReplacedImage(old.image, q.batch[1])
       IN  IF ~Stored(pend.rows, q.kind, q.target)
           THEN Refuse(r, "not_found") /\ EndTransaction
           ELSE IF Refused(pend.rows, q.target, image)
           THEN Refuse(r, "conflict") /\ EndTransaction
           ELSE /\ pend' = [rows |-> Put(pend.rows, q.target, [id |-> old.id, image |-> image]),
                            log |-> pend.log]
                /\ seen' = [seen EXCEPT ![r] = old]
                /\ Goto(r, "audit")
                /\ UNCHANGED <<writer, req, done, counts, reply>>
    /\ UNCHANGED <<rows, log>>

(* delete_admin_*: the row and its children are read in autocommit, ...    *)
Find(r) ==
    /\ pc[r] = "find"
    /\ LET q == req[r]
       IN  IF ~Stored(rows, q.kind, q.target)
           THEN Refuse(r, "not_found")
           ELSE /\ seen' = [seen EXCEPT ![r] = rows[q.target]]
                /\ Goto(r, "children")
                /\ UNCHANGED <<req, done, counts, reply>>
    /\ UNCHANGED <<rows, log, writer, pend>>

FindChildren(r) ==
    /\ pc[r] = "children"
    /\ seen' = [seen EXCEPT ![r] =
                   WithLines(@, Children(rows, req[r].kind, @.id))]
    /\ Goto(r, "remove")
    /\ UNCHANGED <<rows, log, writer, pend, req, done, counts, reply>>

(* ... then the DELETE takes the lock; how many rows it met is not asked.  *)
Remove(r) ==
    /\ pc[r] = "remove"
    /\ Lock(r)
    /\ pend' = [rows |-> Put(rows, req[r].target, NoRow), log |-> log]
    /\ Goto(r, "audit")
    /\ UNCHANGED <<rows, log, req, seen, done, counts, reply>>

(* _insert_audit_entry, in the same transaction.                           *)
Audit(r) ==
    /\ pc[r] = "audit"
    /\ LET q == req[r]
       IN  pend' = [rows |-> pend.rows,
                    log |-> Append(pend.log, AuditEntry(q.op, q.target, seen[r].image,
                                                        pend.rows[q.target].image))]
    /\ Goto(r, "commit")
    /\ UNCHANGED <<rows, log, writer, req, seen, done, counts, reply>>

-----------------------------------------------------------------------------
(* import_reference_data: _import_invoice, _import_purchase_order and      *)
(* _import_vendor, one record after another.                               *)

Current(r) == req[r].batch[done[r] + 1]

Importing(r) == pc[r] = "items" /\ done[r] < Len(req[r].batch)

Owners(rws, i) == SameExternal(rws, i) \cup NaturalOwners(rws, i)

(* What the conflict policy makes of one record.                           *)
Outcome(rws, i, conflict) ==
    IF Owners(rws, i) = {} THEN "created"
    ELSE IF conflict = "skip" THEN "skipped"
    ELSE IF /\ conflict = "replace"
            /\ SameExternal(rws, i) # {}
            /\ NaturalOwners(rws, i) \subseteq SameExternal(rws, i)
    THEN "replaced"
    ELSE "conflict"

(* Mutant: what is skipped counts as replaced.                             *)
CountedOver(r, outcome) ==
    /\ done' = [done EXCEPT ![r] = @ + 1]
    /\ counts' = [counts EXCEPT ![r][IF outcome = "skipped" THEN "replaced"
                                     ELSE outcome] = @ + 1]
    /\ UNCHANGED <<rows, log, writer, pc, req, seen, reply>>

Counted(r, outcome) ==
    /\ done' = [done EXCEPT ![r] = @ + 1]
    /\ counts' = [counts EXCEPT ![r][outcome] = @ + 1]
    /\ UNCHANGED <<rows, log, writer, pc, req, seen, reply>>

(* Mutant: the before image is read outside the transaction.               *)
CommittedBefore(r, x) == rows[x].image

Before(r, x) == pend.rows[x].image

(* A row and, unless this is a dry run, its entry.                         *)
Apply(r, x, row) ==
    pend' = [rows |-> Put(pend.rows, x, row),
             log |-> IF req[r].dryRun THEN pend.log
                     ELSE Append(pend.log,
                            AuditEntry("import", x, Before(r, x), row.image))]

ImportNew(r) ==
    /\ Importing(r)
    /\ Outcome(pend.rows, Current(r), req[r].conflict) = "created"
    /\ \E x \in Unused(pend.log) :
          /\ pend.rows[x] = NoRow
          /\ Apply(r, x, NewRow(pend.rows, NewImage(Current(r))))
    /\ Counted(r, "created")

ImportOver(r) ==
    /\ Importing(r)
    /\ Outcome(pend.rows, Current(r), req[r].conflict) = "replaced"
    /\ \E x \in SameExternal(pend.rows, Current(r)) :
          Apply(r, x, [id |-> pend.rows[x].id,
                       image |-> ReplacedImage(pend.rows[x].image, Current(r))])
    /\ Counted(r, "replaced")

ImportNothing(r) ==
    /\ Importing(r)
    /\ Outcome(pend.rows, Current(r), req[r].conflict) = "skipped"
    /\ Counted(r, "skipped")
    /\ UNCHANGED pend

(* One conflict rolls the whole batch back.                                *)
ImportConflict(r) ==
    /\ Importing(r)
    /\ Outcome(pend.rows, Current(r), req[r].conflict) = "conflict"
    /\ Refuse(r, "conflict")
    /\ EndTransaction
    /\ UNCHANGED <<rows, log>>

(* Mutant: a dry run ends like any import.                                 *)
NothingSimulated(r) == FALSE

Simulated(r) == req[r].dryRun

ImportEnd(r) ==
    /\ pc[r] = "items"
    /\ done[r] = Len(req[r].batch)
    /\ IF Simulated(r)
       THEN Answer(r, "ok", NoImage, counts[r]) /\ EndTransaction
       ELSE Goto(r, "commit") /\ UNCHANGED <<writer, pend, req, seen, done, counts, reply>>
    /\ UNCHANGED <<rows, log>>

Import(r) == \/ ImportNew(r) \/ ImportOver(r) \/ ImportNothing(r)
             \/ ImportConflict(r) \/ ImportEnd(r)

-----------------------------------------------------------------------------
(* Mutant: reads in autocommit do not keep a writer from committing.       *)
NobodyReads == TRUE

(* A read transaction that is open holds SQLite's SHARED lock.             *)
NoReader == \A s \in Slots : pc[s] # "lines"

Commit(r) ==
    /\ pc[r] = "commit"
    /\ NoReader
    /\ rows' = pend.rows
    /\ log' = pend.log
    /\ EndTransaction
    /\ Answer(r, "ok", NoImage, counts[r])

(* get_admin_*: BEGIN, the row, its children, on one snapshot.             *)
ReadRow(r) ==
    /\ pc[r] = "snapshot"
    /\ LET q == req[r]
       IN  IF ~Stored(rows, q.kind, q.target)
           THEN Refuse(r, "not_found")
           ELSE /\ seen' = [seen EXCEPT ![r] = rows[q.target]]
                /\ Goto(r, "lines")
                /\ UNCHANGED <<req, done, counts, reply>>
    /\ UNCHANGED <<rows, log, writer, pend>>

ReadLines(r) ==
    /\ pc[r] = "lines"
    /\ Answer(r, "ok",
              WithLines(seen[r], Children(rows, req[r].kind, seen[r].id)).image, NoCounts)
    /\ UNCHANGED <<rows, log, writer, pend>>

(* sqlite3.Error at any statement (the lock was not had in five seconds,   *)
(* the disk failed), or the death of the process: what was not committed   *)
(* is rolled back.                                                         *)
Fail(r) ==
    /\ pc[r] # "idle"
    /\ Refuse(r, "unavailable")
    /\ IF Holds(r) THEN EndTransaction ELSE UNCHANGED <<writer, pend>>
    /\ UNCHANGED <<rows, log>>

-----------------------------------------------------------------------------
Init ==
    /\ rows = [x \in Records |-> NoRow]
    /\ log = <<>>
    /\ writer = NoSlot
    /\ pend = NoPend
    /\ pc = [r \in Slots |-> "idle"]
    /\ req = [r \in Slots |-> SomeRequest]
    /\ seen = [r \in Slots |-> NoRow]
    /\ done = [r \in Slots |-> 0]
    /\ counts = [r \in Slots |-> NoCounts]
    /\ reply = [r \in Slots |-> NoReply]

Advance(r) ==
    \/ Insert(r) \/ Begin(r) \/ Change(r)
    \/ Find(r) \/ FindChildren(r) \/ Remove(r)
    \/ Audit(r) \/ Import(r) \/ Commit(r)
    \/ ReadRow(r) \/ ReadLines(r)

Next == \E r \in Slots : Arrive(r) \/ Advance(r) \/ Fail(r)

Spec == Init /\ [][Next]_vars

-----------------------------------------------------------------------------
(* Properties.                                                             *)

Locked == {"change", "items", "audit", "commit"}

(* Every variable keeps to its type; the lock is held exactly between the  *)
(* first write (or BEGIN IMMEDIATE) and the end of a transaction, and      *)
(* there is nothing uncommitted without it.                                *)
TypeOK ==
    /\ rows \in [Records -> Row \cup {NoRow}]
    /\ log \in Seq(Entry)
    /\ pend \in [rows : [Records -> Row \cup {NoRow}], log : Seq(Entry)]
    /\ pc \in [Slots -> Step]
    /\ req \in [Slots -> Request]
    /\ seen \in [Slots -> Row \cup {NoRow}]
    /\ done \in [Slots -> Nat]
    /\ counts \in [Slots -> Counts]
    /\ reply \in [Slots -> Reply]
    /\ writer \in Slots \cup {NoSlot}
    /\ \A r \in Slots : Holds(r) <=> pc[r] \in Locked
    /\ writer = NoSlot => pend = NoPend

(* What is stored can be read off the log: each record is as its last      *)
(* entry left it, and a row without an entry or an entry without its row   *)
(* is never committed, whatever is simulated, refused or rolled back.      *)
LogReplays ==
    \A x \in Records : rows[x].image = ImageAt(log, Len(log), x)

(* The before image of an update or of an import is the record as the      *)
(* entry before left it, though other requests change it at the same time  *)
(* and one batch may change it twice.                                      *)
ReplacedImagesTrue ==
    \A i \in DOMAIN log :
        log[i].op # "delete" => log[i].before = ImageAt(log, i - 1, log[i].record)

(* The audit log and the tables agree at every step: replaying the log     *)
(* gives the tables, and an entry found what the one before it left.       *)
LogTrue == LogReplays /\ ReplacedImagesTrue

(* A read returns a record as some entry left it, never the columns of one *)
(* version with the children of another.                                   *)
ReadsAreWhole ==
    \A r \in Slots : reply[r].image # NoImage =>
        \E i \in DOMAIN log : log[i].after = reply[r].image

(* The counts an import answers with agree with what it added to the log,  *)
(* and a dry run answers the same and adds nothing.                        *)
CountsTrue ==
    [][\A r \in Slots :
          req[r].op = "import" /\ pc'[r] = "idle" /\ reply'[r].kind = "ok" =>
              LET c == reply'[r].counts
              IN  /\ c.created + c.replaced + c.skipped = Len(req[r].batch)
                  /\ Len(log') - Len(log) =
                         IF req[r].dryRun THEN 0 ELSE c.created + c.replaced]_vars

(* The store implements the log it promises.                               *)
ImplementsLedger == LedgerSpec

-----------------------------------------------------------------------------
(* What the documents say, which the code does not do.                     *)

(* docs/decisions/0027: every change is "replayable from before/after      *)
(* images": the before image of an entry is the record it found.           *)
BeforeImagesTrue ==
    \A i \in DOMAIN log : log[i].before = ImageAt(log, i - 1, log[i].record)
=============================================================================
