---------------------------- MODULE ReviewStore ----------------------------
(***************************************************************************)
(* The review repository (src/veridoc/review/persistence/sqlite.py) and    *)
(* the mutating handlers of src/veridoc/review/api.py: concurrent requests *)
(* that create, assign, escalate and decide cases over one SQLite file.    *)
(*                                                                         *)
(* A request runs as a sequence of SQL statements on a connection of its   *)
(* own.  SELECTs before the first write run in autocommit, each on its own *)
(* snapshot; the first INSERT or UPDATE opens a transaction and takes the  *)
(* RESERVED lock (`writer'), which admits readers but no second writer;    *)
(* what it writes stays in `pend' until COMMIT.  A crash or an error rolls *)
(* the transaction back.                                                   *)
(***************************************************************************)
EXTENDS ReviewTransitions

CONSTANTS Requests,      \* request slots: one request in flight in each
          NoRequest,
          Offers,        \* the requests clients may send
          NoCase,        \* an identifier that names no case
          Docs, NoDoc,   \* uploaded documents
          Snapshots,     \* frozen processing results
          NoSnapshot,
          MaxClock,      \* bound on the wall clock
          MonotoneClock  \* FALSE: the wall clock may be set back

-----------------------------------------------------------------------------
(* Values.                                                                 *)

Body == [expected : Nat,
         target   : Actors \cup {NoActor},
         reason   : BOOLEAN,
         decision : Decisions \cup {NoDecision},
         doc      : Docs \cup {NoDoc}]

Request == [op    : MutationOperation,
            actor : Actors,
            key   : Keys,
            case  : Cases \cup {NoCase},
            body  : Body]

(* What the request models require of a body, and which fields each has.   *)
ValidRequest(q) ==
    /\ q.op # "create_case" => q.body.expected >= 1
    /\ q.op \in {"escalate_case", "decide_case"} => q.body.reason
    /\ (q.op = "decide_case") <=> (q.body.decision # NoDecision)
    /\ q.op # "assign_case" => q.body.target = NoActor

ASSUME RequestAssumption == NoRequest \notin Requests
ASSUME CaseAssumption == NoCase \notin Cases
ASSUME OfferAssumption == \A q \in Offers : q \in Request /\ ValidRequest(q)
ASSUME ClockAssumption == MaxClock \in Nat /\ MonotoneClock \in BOOLEAN

(* Mutant: a digest of the body alone.                                     *)
DigestOfBody(q) == [case |-> NoCase, body |-> q.body]

(* request_digest: SHA-256 of the upload, or of case id and body; no two   *)
(* inputs share a digest.                                                  *)
DigestOf(q) == [case |-> IF q.op = "create_case" THEN NoCase ELSE q.case,
                body |-> q.body]

Digest == [case : Cases \cup {NoCase}, body : Body]

Row == [status   : CaseStatus \cup {NoStatus},
        version  : Nat,
        creator  : Actors \cup {NoActor},
        assignee : Actors \cup {NoActor},
        created  : Nat,
        updated  : Nat,
        snapshot : Snapshots \cup {NoSnapshot}]

(* The identifier names no row of review_cases.                            *)
NoRow == [status |-> NoStatus, version |-> 0, creator |-> NoActor,
          assignee |-> NoActor, created |-> 0, updated |-> 0,
          snapshot |-> NoSnapshot]

KeyRow == [actor   : Actors,
           op      : MutationOperation,
           key     : Keys,
           digest  : Digest,
           case    : Cases,
           version : Nat \ {0},
           at      : Nat]

Scoped(k, q) == k.actor = q.actor /\ k.op = q.op /\ k.key = q.key

NoPend == [row |-> NoRow, events |-> {}, keys |-> {}]

(* A reply: an outcome, and for "ok" the case it describes.                *)
ReplyKind == {"none", "ok", "conflict", "stale", "denied", "not_found",
              "reason_required", "processing_failed",
              "busy", "integrity", "invalid"}

Reply(kind, c, row) == [kind |-> kind, case |-> c, row |-> row]

NoReply == Reply("none", NoCase, NoRow)

Step == {"idle", "precheck", "process", "lookup", "replay_row",
         "replay_events", "read", "write", "event", "key", "resolve",
         "commit", "done"}

VARIABLES
    cases,    \* committed review_cases rows
    events,   \* committed review_events rows
    keys,     \* committed review_idempotency_keys rows
    clock,    \* the wall clock
    writer,   \* the request holding the RESERVED lock, or NoRequest
    pend,     \* the uncommitted writes of its transaction
    pc,       \* the next statement of each request
    req,      \* the request
    seen,     \* the case row it has read, or is replaying
    found,    \* the result version its replay must return
    stamp,    \* the timestamp it took before its first write
    reply     \* what the client was answered

store == <<cases, events, keys>>
vars == <<cases, events, keys, clock, writer, pend,
          pc, req, seen, found, stamp, reply>>

(* What a slot holds before its first request.                             *)
SomeRequest == [op |-> "create_case", actor |-> CHOOSE a \in Actors : TRUE,
                key |-> CHOOSE k \in Keys : TRUE, case |-> NoCase,
                body |-> [expected |-> 0, target |-> NoActor,
                          reason |-> FALSE, decision |-> NoDecision,
                          doc |-> NoDoc]]

-----------------------------------------------------------------------------
(* Reading a case back.                                                    *)

(* _verify_event_sequence and the validators of ReviewEvent: the events of *)
(* c in `table' are one for each version up to the row's, chained by       *)
(* status and time, and end in the row's status, time and assignee.        *)
Hydrates(c, row, table) ==
    LET history == History(table, c)
    IN  /\ row.version >= 1
        /\ \A v \in 1..row.version : \E e \in history : e.version = v
        /\ \A e, f \in history : e.version = f.version => e = f
        /\ \A e \in history :
              /\ EventShape(e)
              /\ e.version <= row.version
              /\ \E t \in AllowedTransitions :
                    t.prior = e.prior /\ t.type = e.type /\ t.result = e.result
              /\ e.version = 1 => /\ e.type = "case_created"
                                  /\ e.actor = row.creator
                                  /\ e.at = row.created
              /\ e.version = row.version => /\ e.result = row.status
                                            /\ e.at = row.updated
        /\ \A e, f \in history :
              f.version = e.version + 1 => f.prior = e.result /\ e.at <= f.at
        /\ IsAssignee(table, c, row.version, row.assignee)

(* _verify_event_chain of an evidence bundle, which is verified without    *)
(* the store: one event for each version, each a legal transition, the     *)
(* first at the case's creation, the last with its status and time.  It    *)
(* asks neither that an event continues the one before nor who may act.    *)
BundleVerifies(c, row, table) ==
    LET history == History(table, c)
    IN  /\ history # {}
        /\ {e.version : e \in history} = 1..row.version
        /\ \A e, f \in history : e.version = f.version => e = f
        /\ \A e \in history :
              /\ \E t \in AllowedTransitions :
                    t.prior = e.prior /\ t.type = e.type /\ t.result = e.result
              /\ e.version = 1 => e.type = "case_created" /\ e.at = row.created
              /\ e.version = row.version => e.result = row.status /\ e.at = row.updated

(* Mutant: a replay that answers with the case as it is now.               *)
RowNow(c, row, table, version) == row

(* The detail of a case at the version a replayed operation produced.      *)
RowAt(c, row, table, version) ==
    IF version = row.version THEN row
    ELSE LET e == CHOOSE f \in History(table, c) : f.version = version
         IN  [row EXCEPT !.status = e.result,
                         !.version = version,
                         !.updated = e.at,
                         !.assignee = AssigneeAt(table, c, version)]

(* ... which fails unless the case still hydrates and has had the version. *)
Replayable(c, row, table, version) ==
    Hydrates(c, row, table) /\ version \in 1..row.version

-----------------------------------------------------------------------------
(* Moving a request along.                                                 *)

Goto(r, step) == pc' = [pc EXCEPT ![r] = step]

Answer(r, a) ==
    /\ Goto(r, "done")
    /\ reply' = [reply EXCEPT ![r] = a]

Refuse(r, kind) == Answer(r, Reply(kind, NoCase, NoRow))

Rollback == writer' = NoRequest /\ pend' = NoPend

Holds(r) == writer = r

(* Mutant: an error path that forgets the transaction.                     *)
RollbackNothing(r) == UNCHANGED <<writer, pend>>

(* `with connection': an error inside a transaction rolls it back.         *)
RollbackIfHeld(r) == IF Holds(r) THEN Rollback ELSE UNCHANGED <<writer, pend>>

(* Mutant: an index that also covers the digest.                           *)
KeysOfDigest(q) == {k \in keys : Scoped(k, q) /\ k.digest = DigestOf(q)}

(* The stored key row of a request's scope, in a set with one element or   *)
(* none (the UNIQUE index on actor, operation, key).                       *)
StoredKeys(q) == {k \in keys : Scoped(k, q)}

(* Read the stored key: replay on the same digest, conflict on another.    *)
FollowKey(r, k) ==
    IF k.digest = DigestOf(req[r])
    THEN /\ Goto(r, "replay_row")
         /\ found' = [found EXCEPT ![r] = [case |-> k.case,
                                           version |-> k.version]]
         /\ UNCHANGED reply
    ELSE Refuse(r, "conflict") /\ UNCHANGED found

-----------------------------------------------------------------------------
(* Requests arrive.  A create is given the uuid4 its row will have; other  *)
(* requests name a case the client has seen, or no case at all.            *)

Unused(c) ==
    /\ cases[c] = NoRow
    /\ \A r \in Requests :
          req[r].op = "create_case" /\ req[r].case = c => pc[r] \in {"idle", "done"}

Begin(r, q, step) ==
    /\ pc' = [pc EXCEPT ![r] = step]
    /\ req' = [req EXCEPT ![r] = q]
    /\ seen' = [seen EXCEPT ![r] = NoRow]
    /\ found' = [found EXCEPT ![r] = [case |-> NoCase, version |-> 0]]
    /\ stamp' = [stamp EXCEPT ![r] = 0]
    /\ reply' = [reply EXCEPT ![r] = NoReply]

Arrive(r) ==
    /\ pc[r] \in {"idle", "done"}
    /\ \E q \in Offers :
          \/ /\ q.op = "create_case"
             /\ \E c \in Cases :
                   /\ Unused(c)
                   /\ Begin(r, [q EXCEPT !.case = c], "precheck")
          \/ /\ q.op # "create_case"
             /\ q.case = NoCase \/ cases[q.case] # NoRow
             /\ Begin(r, q, "lookup")
    /\ UNCHANGED <<cases, events, keys, clock, writer, pend>>

(* create_review_case asks get_idempotent_case, which reads key, row and   *)
(* events on one snapshot, before it processes the document again.         *)
Precheck(r) ==
    /\ pc[r] = "precheck"
    /\ \/ /\ StoredKeys(req[r]) = {}
          /\ Goto(r, "process")
          /\ UNCHANGED reply
       \/ \E k \in StoredKeys(req[r]) :
             IF k.digest # DigestOf(req[r]) THEN Refuse(r, "conflict")
             ELSE IF Replayable(k.case, cases[k.case], events, k.version)
                  THEN Answer(r, Reply("ok", k.case,
                           RowAt(k.case, cases[k.case], events, k.version)))
                  ELSE Refuse(r, "invalid")
    /\ UNCHANGED <<cases, events, keys, clock, writer, pend,
                   req, seen, found, stamp>>

(* service.process: OCR, extraction and verification, outside the store.   *)
(* Two runs over one document may freeze different results.                *)
Process(r) ==
    /\ pc[r] = "process"
    /\ \/ /\ Refuse(r, "processing_failed")
          /\ UNCHANGED seen
       \/ /\ \E s \in Snapshots :
                seen' = [seen EXCEPT ![r] = [NoRow EXCEPT !.snapshot = s]]
          /\ Goto(r, "lookup")
          /\ UNCHANGED reply
    /\ UNCHANGED <<cases, events, keys, clock, writer, pend,
                   req, found, stamp>>

(* _find_idempotency_key / _find_replay: the first autocommit SELECT.      *)
Lookup(r) ==
    /\ pc[r] = "lookup"
    /\ \/ /\ StoredKeys(req[r]) = {}
          /\ IF req[r].op = "create_case"
             THEN /\ Goto(r, "write")
                  /\ stamp' = [stamp EXCEPT ![r] = clock]
             ELSE Goto(r, "read") /\ UNCHANGED stamp
          /\ UNCHANGED <<found, reply>>
       \/ /\ \E k \in StoredKeys(req[r]) : FollowKey(r, k)
          /\ UNCHANGED stamp
    /\ UNCHANGED <<cases, events, keys, clock, writer, pend, req, seen>>

(* The replayed case is read in two more statements: its row ...           *)
ReplayRow(r) ==
    /\ pc[r] = "replay_row"
    /\ seen' = [seen EXCEPT ![r] = cases[found[r].case]]
    /\ Goto(r, "replay_events")
    /\ UNCHANGED <<cases, events, keys, clock, writer, pend,
                   req, found, stamp, reply>>

(* ... and its events, checked against the row read before.                *)
ReplayEvents(r) ==
    /\ pc[r] = "replay_events"
    /\ LET c == found[r].case
       IN  IF Replayable(c, seen[r], events, found[r].version)
           THEN Answer(r, Reply("ok", c,
                            RowAt(c, seen[r], events, found[r].version)))
           ELSE Refuse(r, "invalid")
    /\ UNCHANGED <<cases, events, keys, clock, writer, pend,
                   req, seen, found, stamp>>

-----------------------------------------------------------------------------
(* assign_case, escalate_case, decide_case.                                *)

(* Mutant: the event keeps the body's target, which may be None.           *)
RequestedTarget(q) == q.body.target

(* An assignment without a target claims the case for the caller.          *)
Target(q) ==
    IF q.op # "assign_case" THEN NoActor
    ELSE IF q.body.target = NoActor THEN q.actor ELSE q.body.target

(* Mutant: no expected_version check.                                      *)
AnyVersion(q, row) == TRUE

ExpectedVersion(q, row) == row.version = q.body.expected

(* The refusals of a transition, in the order the code raises them.        *)
Verdict(q, row) ==
    IF ~ExpectedVersion(q, row) THEN "stale"
    ELSE IF ~Authorize(q.op, row.status, q.actor, row.assignee, Target(q))
    THEN "denied"
    ELSE IF ~IsAllowed(row.status, q.op) THEN "stale"
    ELSE IF /\ NextTransition(row.status, q.op).type = "case_reassigned"
            /\ ~q.body.reason
    THEN "reason_required"
    ELSE "proceed"

ReadRow(r) ==
    /\ pc[r] = "read"
    /\ LET q == req[r]
       IN  \/ /\ q.case = NoCase
              /\ Refuse(r, "not_found")
              /\ UNCHANGED <<seen, stamp>>
           \/ /\ q.case # NoCase
              /\ Verdict(q, cases[q.case]) # "proceed"
              /\ Refuse(r, Verdict(q, cases[q.case]))
              /\ UNCHANGED <<seen, stamp>>
           \/ /\ q.case # NoCase
              /\ Verdict(q, cases[q.case]) = "proceed"
              /\ seen' = [seen EXCEPT ![r] = cases[q.case]]
              /\ stamp' = [stamp EXCEPT ![r] = clock]
              /\ Goto(r, "write")
              /\ UNCHANGED reply
    /\ UNCHANGED <<cases, events, keys, clock, writer, pend, req, found>>

-----------------------------------------------------------------------------
(* The write transaction.                                                  *)

PriorStatus(r) ==
    IF req[r].op = "create_case" THEN NoStatus ELSE seen[r].status

TransitionOf(r) == NextTransition(PriorStatus(r), req[r].op)

(* The row the INSERT or the UPDATE leaves.                                *)
NewRow(r) ==
    IF req[r].op = "create_case"
    THEN [status |-> "unassigned", version |-> 1,
          creator |-> req[r].actor, assignee |-> NoActor,
          created |-> stamp[r], updated |-> stamp[r],
          snapshot |-> seen[r].snapshot]
    ELSE [seen[r] EXCEPT !.status = TransitionOf(r).result,
                         !.version = seen[r].version + 1,
                         !.updated = stamp[r],
                         !.assignee = IF Target(req[r]) # NoActor
                                      THEN Target(req[r])
                                      ELSE seen[r].assignee]

NewEvent(r) ==
    [case     |-> req[r].case,
     version  |-> NewRow(r).version,
     type     |-> TransitionOf(r).type,
     actor    |-> req[r].actor,
     at       |-> stamp[r],
     key      |-> req[r].key,
     prior    |-> PriorStatus(r),
     result   |-> TransitionOf(r).result,
     reason   |-> req[r].body.reason,
     decision |-> req[r].body.decision,
     assigned |-> Target(req[r])]

NewKey(r) ==
    [actor   |-> req[r].actor,
     op      |-> req[r].op,
     key     |-> req[r].key,
     digest  |-> DigestOf(req[r]),
     case    |-> req[r].case,
     version |-> NewRow(r).version,
     at      |-> stamp[r]]

(* Mutant: UPDATE ... WHERE id = ?.                                        *)
AlwaysCurrent(r) == TRUE

(* UPDATE ... WHERE id = ? AND version = ?: does the row it read still     *)
(* have its version?  (An INSERT has no such guard.)                       *)
StillCurrent(r) ==
    req[r].op # "create_case" =>
        cases[req[r].case].version = seen[r].version

Write(r) ==
    /\ pc[r] = "write"
    /\ writer = NoRequest
    /\ \/ /\ StillCurrent(r)
          /\ writer' = r
          /\ pend' = [NoPend EXCEPT !.row = NewRow(r)]
          /\ Goto(r, "event")
          /\ UNCHANGED reply
       \/ /\ ~StillCurrent(r)
          /\ Refuse(r, "stale")
          /\ UNCHANGED <<writer, pend>>
    /\ UNCHANGED <<cases, events, keys, clock, req, seen, found, stamp>>

(* INSERT INTO review_events, under UNIQUE(case_row_id, case_version).     *)
VersionTaken(r) ==
    \E e \in events : e.case = req[r].case /\ e.version = NewRow(r).version

AppendEvent(r) ==
    /\ pc[r] = "event"
    /\ Holds(r)
    /\ \/ /\ ~VersionTaken(r)
          /\ pend' = [pend EXCEPT !.events = {NewEvent(r)}]
          /\ Goto(r, "key")
          /\ UNCHANGED <<writer, reply>>
       \/ /\ VersionTaken(r)
          /\ Rollback
          /\ Refuse(r, "integrity")
    /\ UNCHANGED <<cases, events, keys, clock, req, seen, found, stamp>>

(* INSERT INTO review_idempotency_keys, under UNIQUE(actor_id, operation,  *)
(* idempotency_key); a lost race rolls back and reads the key again.       *)
RecordKey(r) ==
    /\ pc[r] = "key"
    /\ Holds(r)
    /\ \/ /\ StoredKeys(req[r]) = {}
          /\ pend' = [pend EXCEPT !.keys = {NewKey(r)}]
          /\ Goto(r, "commit")
          /\ UNCHANGED writer
       \/ /\ StoredKeys(req[r]) # {}
          /\ Rollback
          /\ Goto(r, "resolve")
    /\ UNCHANGED <<cases, events, keys, clock, req, seen, found, stamp, reply>>

(* _resolve_after_idempotency_conflict.                                    *)
Resolve(r) ==
    /\ pc[r] = "resolve"
    /\ \/ /\ StoredKeys(req[r]) = {}
          /\ Refuse(r, "conflict")
          /\ UNCHANGED found
       \/ \E k \in StoredKeys(req[r]) : FollowKey(r, k)
    /\ UNCHANGED <<cases, events, keys, clock, writer, pend,
                   req, seen, stamp>>

(* Mutant: commit without reading back.                                    *)
NoReadBack(r) == TRUE

(* The case is read back inside the transaction before it commits.         *)
ReadBack(r) ==
    Hydrates(req[r].case, pend.row, events \cup pend.events)

Commit(r) ==
    /\ pc[r] = "commit"
    /\ Holds(r)
    /\ \/ /\ ReadBack(r)
          /\ cases' = [cases EXCEPT ![req[r].case] = pend.row]
          /\ events' = events \cup pend.events
          /\ keys' = keys \cup pend.keys
          /\ Answer(r, Reply("ok", req[r].case, pend.row))
       \/ /\ ~ReadBack(r)
          /\ Refuse(r, "invalid")
          /\ UNCHANGED store
    /\ Rollback
    /\ UNCHANGED <<clock, req, seen, found, stamp>>

-----------------------------------------------------------------------------
(* Failures and time.                                                      *)

(* Mutant: a connection that waits for the lock without a timeout.         *)
BusyUnlessWaiting(r) ==
    /\ pc[r] \notin {"idle", "process", "done", "write"}
    /\ Refuse(r, "busy")
    /\ RollbackIfHeld(r)
    /\ UNCHANGED <<cases, events, keys, clock, req, seen, found, stamp>>

(* Any statement may fail: the lock is not had within the busy timeout,    *)
(* the disk is full.  The request is answered 503 and rolled back.         *)
Busy(r) ==
    /\ pc[r] \notin {"idle", "process", "done"}
    /\ Refuse(r, "busy")
    /\ RollbackIfHeld(r)
    /\ UNCHANGED <<cases, events, keys, clock, req, seen, found, stamp>>

(* The process dies.  Uncommitted writes are rolled back by the journal;   *)
(* clients keep the answers they have.                                     *)
Crash ==
    /\ \E r \in Requests : pc[r] \notin {"idle", "done"}
    /\ pc' = [r \in Requests |-> IF pc[r] = "done" THEN "done" ELSE "idle"]
    /\ Rollback
    /\ UNCHANGED <<cases, events, keys, clock, req, seen, found, stamp, reply>>

Tick ==
    /\ \E t \in 0..MaxClock :
          /\ t # clock
          /\ MonotoneClock => t > clock
          /\ clock' = t
    /\ UNCHANGED <<cases, events, keys, writer, pend,
                   pc, req, seen, found, stamp, reply>>

-----------------------------------------------------------------------------
Init ==
    /\ cases = [c \in Cases |-> NoRow]
    /\ events = {}
    /\ keys = {}
    /\ clock = 0
    /\ writer = NoRequest
    /\ pend = NoPend
    /\ pc = [r \in Requests |-> "idle"]
    /\ req = [r \in Requests |-> SomeRequest]
    /\ seen = [r \in Requests |-> NoRow]
    /\ found = [r \in Requests |-> [case |-> NoCase, version |-> 0]]
    /\ stamp = [r \in Requests |-> 0]
    /\ reply = [r \in Requests |-> NoReply]

Advance(r) ==
    \/ Precheck(r) \/ Process(r) \/ Lookup(r)
    \/ ReplayRow(r) \/ ReplayEvents(r)
    \/ ReadRow(r) \/ Write(r) \/ AppendEvent(r) \/ RecordKey(r)
    \/ Resolve(r) \/ Commit(r)

Next ==
    \/ \E r \in Requests : Arrive(r) \/ Advance(r) \/ Busy(r)
    \/ Crash
    \/ Tick

Spec == Init /\ [][Next]_vars

(* A request keeps running; one that cannot have the lock times out.       *)
Fairness == \A r \in Requests : WF_vars(Advance(r) \/ Busy(r))

FairSpec == Spec /\ Fairness

-----------------------------------------------------------------------------
(* Properties.                                                             *)

(* Every variable keeps to its type; a transaction is open exactly while   *)
(* one request, the lock's holder, is between its first write and COMMIT.  *)
TypeOK ==
    /\ cases \in [Cases -> Row]
    /\ events \subseteq Event
    /\ keys \subseteq KeyRow
    /\ clock \in Nat
    /\ writer \in Requests \cup {NoRequest}
    /\ pend \in [row : Row, events : SUBSET Event, keys : SUBSET KeyRow]
    /\ pc \in [Requests -> Step]
    /\ req \in [Requests -> Request]
    /\ seen \in [Requests -> Row]
    /\ found \in [Requests -> [case : Cases \cup {NoCase}, version : Nat]]
    /\ stamp \in [Requests -> Nat]
    /\ reply \in [Requests -> [kind : ReplyKind, case : Cases \cup {NoCase},
                               row : Row]]
    /\ \A r \in Requests : pc[r] \in {"event", "key", "commit"} <=> Holds(r)

(* The committed tables always pass the check of every case that startup,  *)
(* backup and restore run (validate_persisted_review_data): each case's    *)
(* events are a gap-free, chained history ending in its row, whatever      *)
(* requests raced, crashed or read a clock set back; no event is orphaned. *)
HistoryConsistent ==
    /\ \A c \in Cases : cases[c] # NoRow => Hydrates(c, cases[c], events)
    /\ \A e \in events : cases[e.case] # NoRow

(* _validate_idempotency_rows, and its converse: every key row stands for  *)
(* one committed event, every event for one key row, and no scope has two. *)
KeysMatchEvents ==
    /\ \A k \in keys : \E e \in events :
          /\ e.case = k.case /\ e.version = k.version
          /\ e.actor = k.actor /\ e.key = k.key /\ e.at = k.at
          /\ EventOperation(e.type) = k.op
    /\ \A e \in events : \E k \in keys :
          k.case = e.case /\ k.version = e.version
    /\ \A k, l \in keys :
          Scoped(k, l) \/ (k.case = l.case /\ k.version = l.version) => k = l

(* An evidence bundle exported from a committed case always verifies.      *)
BundlesVerify ==
    \A c \in Cases : cases[c] # NoRow => BundleVerifies(c, cases[c], events)

(* The committed tables pass, at any moment, every check that startup,     *)
(* backup, restore and the offline verifier of evidence bundles make:      *)
(* histories are whole and chained, keys and events are one to one, and    *)
(* bundles verify, though rows, events and keys are written by separate    *)
(* statements of requests that race, crash and read a clock set back.      *)
StoreValid == HistoryConsistent /\ KeysMatchEvents /\ BundlesVerify

(* A committed transition was made at the version its client named, and    *)
(* no two clients changed the same version of a case.                      *)
ExpectedVersionHonoured ==
    \A k \in keys : k.op # "create_case" =>
        /\ k.version = k.digest.body.expected + 1
        /\ k.case = k.digest.case

(* What a reviewer who is no admin has done, judged by the history alone:  *)
(* claimed for itself a case nobody was ever assigned, and escalated or    *)
(* decided only while the latest assignment named it.                      *)
ReviewerAuthority ==
    \A e \in events : e.actor \notin Admins =>
        /\ e.type \in AssignmentEventTypes =>
              /\ e.assigned = e.actor
              /\ \A f \in History(events, e.case) :
                    f.version < e.version => f.type = "case_created"
        /\ e.type \in {"case_escalated", "case_decided"} =>
              IsAssignee(events, e.case, e.version, e.actor)

(* Every committed transition is justified by what was committed before:   *)
(* the version its client named and, for a reviewer, the assignments so    *)
(* far, though both were judged on a row read before the lock was had.     *)
TransitionsJustified == ExpectedVersionHonoured /\ ReviewerAuthority

(* An "ok" answer, fresh or replayed, stands on a committed key row of the *)
(* request's own scope and digest, for the case it named: a key reused for *)
(* another body or case never gets the first one's result, and no          *)
(* acknowledged operation is lost.                                         *)
OkIsRecorded ==
    \A r \in Requests : reply[r].kind = "ok" =>
        \E k \in keys :
            /\ Scoped(k, req[r])
            /\ k.digest = DigestOf(req[r])
            /\ k.case = reply[r].case
            /\ k.version = reply[r].row.version
            /\ req[r].op # "create_case" => k.case = req[r].case

(* Two "ok" answers to one (actor, operation, key) are the same answer,    *)
(* however far the case has moved on between them.                         *)
SameAnswer ==
    \A r, s \in Requests :
        /\ reply[r].kind = "ok"
        /\ reply[s].kind = "ok"
        /\ Scoped(req[r], req[s])
        => reply[r] = reply[s]

(* The version guard of the UPDATE keeps the loser of a race from ever     *)
(* reaching the UNIQUE(case_row_id, case_version) index behind it.         *)
VersionGuardSuffices ==
    \A r \in Requests : reply[r].kind # "integrity"

(* The read-back before COMMIT finds the history invalid only when the     *)
(* clock was set back behind the last change of the case.                  *)
ReadBackNeverFails ==
    \A r \in Requests :
        pc[r] = "commit" /\ stamp[r] >= seen[r].updated => ReadBack(r)

(* No request that passed its checks is refused by the store's own last    *)
(* defences, the unique indexes and the read-back: whoever lost a race is  *)
(* told so as a stale version or a reused key.                             *)
NoInternalRefusal == VersionGuardSuffices /\ ReadBackNeverFails

(* What holds between the statements of a request, from which the safety   *)
(* properties follow: a create's identifier is its own until it commits; a *)
(* row that passed the checks of its operation is the committed row, or    *)
(* the committed row has a later version; the transaction holds exactly    *)
(* what was computed from that row; a replay follows a stored key.         *)
InFlight(r) == pc[r] \notin {"idle", "done"}

CreateReserved(r) ==
    InFlight(r) /\ req[r].op = "create_case" =>
        /\ req[r].case \in Cases
        /\ cases[req[r].case] = NoRow
        /\ \A s \in Requests \ {r} :
              InFlight(s) /\ req[s].op = "create_case" => req[s].case # req[r].case

StepOfOperation(r) ==
    /\ pc[r] \in {"precheck", "process"} => req[r].op = "create_case"
    /\ pc[r] = "read" => req[r].op # "create_case"
    /\ InFlight(r) => ValidRequest(req[r])

ReadRowUsable(r) ==
    /\ pc[r] \in {"write", "event", "key", "commit"}
    /\ req[r].op # "create_case"
    => /\ req[r].case \in Cases
       /\ Verdict(req[r], seen[r]) = "proceed"
       /\ seen[r].version \in 1..cases[req[r].case].version
       /\ \/ seen[r] = cases[req[r].case]
          \/ pc[r] = "write" /\ seen[r].version # cases[req[r].case].version

PendingWrites(r) ==
    /\ pc[r] \in {"event", "key", "commit"} => pend.row = NewRow(r)
    /\ pc[r] = "event" => pend.events = {}
    /\ pc[r] \in {"key", "commit"} => pend.events = {NewEvent(r)}
    /\ pc[r] \in {"event", "key"} => pend.keys = {}
    /\ pc[r] = "commit" => pend.keys = {NewKey(r)} /\ StoredKeys(req[r]) = {}

ReplayFollowsKey(r) ==
    pc[r] \in {"replay_row", "replay_events"} =>
        \E k \in StoredKeys(req[r]) :
            /\ k.digest = DigestOf(req[r])
            /\ k.case = found[r].case
            /\ k.version = found[r].version

RequestInvariant ==
    \A r \in Requests :
        /\ CreateReserved(r)
        /\ StepOfOperation(r)
        /\ ReadRowUsable(r)
        /\ PendingWrites(r)
        /\ ReplayFollowsKey(r)

(* What the rows and the answers owe to the events, from which it follows  *)
(* that an operation has one answer: each version of a case has an         *)
(* assignee, a row being replayed is of the case it names, and an "ok"     *)
(* answer is what the history says of its version, whatever came later.    *)
SameOrigin(row, other) ==
    /\ row.creator = other.creator
    /\ row.created = other.created
    /\ row.snapshot = other.snapshot

RowOfHistory(c, row) ==
    /\ SameOrigin(row, cases[c])
    /\ IsAssignee(events, c, row.version, row.assignee)
    /\ \E e \in History(events, c) :
          e.version = row.version /\ e.result = row.status /\ e.at = row.updated

VersionsAssigned ==
    \A c \in Cases : \A v \in 1..cases[c].version :
        \E a \in Actors \cup {NoActor} : IsAssignee(events, c, v, a)

ReplayedRowsNamed ==
    \A r \in Requests : pc[r] = "replay_events" =>
        /\ found[r].case \in Cases
        /\ cases[found[r].case] # NoRow
        /\ SameOrigin(seen[r], cases[found[r].case])

AnswersOfHistory ==
    \A r \in Requests : reply[r].kind = "ok" =>
        /\ reply[r].case \in Cases
        /\ RowOfHistory(reply[r].case, reply[r].row)

RecordInvariant == VersionsAssigned /\ ReplayedRowsNamed /\ AnswersOfHistory

(* A decided case never changes again, and no case changes its creator,    *)
(* its creation time or its frozen snapshot.                               *)
DecidedIsFinal ==
    [][\A c \in Cases :
          /\ cases[c].status = "decided" => cases'[c] = cases[c]
          /\ cases[c] # NoRow =>
                /\ cases'[c].version >= cases[c].version
                /\ cases'[c].creator = cases[c].creator
                /\ cases'[c].created = cases[c].created
                /\ cases'[c].snapshot = cases[c].snapshot]_vars

(* Every admitted request is answered, unless the process dies under it.   *)
EveryRequestAnswered ==
    \A r \in Requests : pc[r] # "idle" ~> pc[r] \in {"idle", "done"}

(* The store implements the ledger: a commit appends one legal, authorised *)
(* event, and nothing else changes the committed history.                  *)
Ledger == INSTANCE ReviewLedger WITH ledger <- events

ImplementsLedger == Ledger!LedgerSpec

-----------------------------------------------------------------------------
(* What the documents say, which the code does not do.                     *)

(* docs/api.md: replaying a key "returns the original stored result at     *)
(* that operation's recorded version", so a stored key never reads back as *)
(* unavailable data.                                                       *)
ReplayReturnsStoredResult ==
    \A r \in Requests : reply[r].kind # "invalid"
=============================================================================
