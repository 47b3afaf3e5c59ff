----------------------------- MODULE Quarantine -----------------------------
(***************************************************************************)
(* The quarantine directory (src/veridoc/scanning/quarantine.py) and the   *)
(* three kinds of process that share it without a lock: the server, which  *)
(* stores scanner-positive uploads one at a time on its event loop         *)
(* (scanning/service.py); operators at the veridoc-quarantine command      *)
(* line; and the veridoc-backup job, which disposes of expired entries     *)
(* (deployment/maintenance.py).  A step is one file operation; the answer  *)
(* to whoever asked is a step of its own, which a process may not live to. *)
(***************************************************************************)
EXTENDS Integers, FiniteSets

CONSTANTS Digests,        \* SHA-256 digests of scanner-positive uploads
          NoDigest,
          Operators,      \* command-line invocations that may overlap
          Job,            \* the maintenance job
          Nobody,
          RetentionDays,  \* VERIDOC_QUARANTINE_RETENTION_DAYS
          TicksPerDay,    \* ticks of the clock in a day
          MaxTime,        \* bound on the clock
          MaxFailures     \* bound on crashes and failing file operations

Deciders == Operators \cup {Job}

ASSUME DigestAssumption == NoDigest \notin Digests
ASSUME DeciderAssumption == Job \notin Operators /\ Nobody \notin Deciders
ASSUME RetentionAssumption ==
    /\ RetentionDays \in Nat \ {0}
    /\ TicksPerDay \in Nat \ {0}
    /\ MaxTime \in Nat
    /\ MaxFailures \in Nat

Decision == {"released", "disposed"}

(* QuarantineEntry: status, the scan time, the day retention ends, and the *)
(* decider whose reason the operator note holds.                           *)
Entry == [status  : {"quarantined"} \cup Decision,
          scanned : Nat,
          until   : Nat,
          decider : Deciders \cup {Nobody}]

NoEntry == [status |-> "absent", scanned |-> 0, until |-> 0, decider |-> Nobody]

VARIABLES
    manifest,  \* manifests/<digest>.json
    objects,   \* the digests with a file objects/<digest>
    now,       \* the wall clock
    failures,  \* crashes and failing operations so far
    upload,    \* what the server is doing
    task,      \* what each decider is doing
    todo,      \* the entries the job has listed and not yet come to
    decided,   \* the deciders that were told "ok", for each digest
    tombstones \* the deciders that wrote "disposed", for each digest

vars == <<manifest, objects, now, failures, upload, task, todo, decided, tombstones>>

Upload == [pc : {"idle", "read", "temp", "rename", "manifest", "answer"},
           digest : Digests \cup {NoDigest}, scanned : Nat,
           reply : {"none", "rejected", "unavailable"}]

Task == [pc : {"idle", "read", "write", "unlink", "answer"},
         digest : Digests \cup {NoDigest},
         decision : Decision, entry : Entry \cup {NoEntry},
         reply : {"none", "ok", "not_found", "conflict", "unavailable"}]

NoUpload == [pc |-> "idle", digest |-> NoDigest, scanned |-> 0, reply |-> "none"]

NoTask == [pc |-> "idle", digest |-> NoDigest, decision |-> "released",
           entry |-> NoEntry, reply |-> "none"]

-----------------------------------------------------------------------------
(* scan_upload_bytes: a positive upload goes to quarantine, a failure      *)
(* there is answered as an unavailable scanner.                            *)

(* Mutant: retention counted back from the scan.                           *)
RetentionBackwards(t) == (t - RetentionDays * TicksPerDay) \div TicksPerDay

(* Mutant: the calendar day of the scan, RetentionDays later, a day short.  *)
RetentionADayShort(t) == t \div TicksPerDay + RetentionDays - 1

(* _retention_until: the calendar day RetentionDays after the scan.        *)
RetentionUntil(t) == (t + RetentionDays * TicksPerDay) \div TicksPerDay

(* An upload at one of its steps, and one that has been answered.          *)
UploadAt(step, d, t) == [pc |-> step, digest |-> d, scanned |-> t, reply |-> "none"]

UploadDone(answer) == [pc |-> "idle", digest |-> upload.digest, scanned |-> 0,
                       reply |-> answer]

NewEntry(t) == [status |-> "quarantined", scanned |-> t, until |-> RetentionUntil(t),
                decider |-> Nobody]

ServerStep(u) ==
    /\ upload' = u
    /\ UNCHANGED <<now, failures, task, todo, decided, tombstones>>

Positive(d) ==
    /\ upload.pc = "idle"
    /\ ServerStep(UploadAt("read", d, 0))
    /\ UNCHANGED <<manifest, objects>>

(* Mutant: what is looked for is the file, not the entry.                  *)
StoredAlready(d) == d \in objects

(* An entry of these bytes exists, whatever was decided of it.             *)
Known(d) == manifest[d] # NoEntry

(* Mutant: the entry is written before the bytes.                          *)
EntryFirst ==
    /\ upload.pc = "read"
    /\ ServerStep(IF Known(upload.digest)
                  THEN UploadAt("answer", upload.digest, 0)
                  ELSE UploadAt("temp", upload.digest, now))
    /\ manifest' = IF Known(upload.digest) THEN manifest
                   ELSE [manifest EXCEPT ![upload.digest] = NewEntry(now)]
    /\ UNCHANGED objects

ReadExisting ==
    /\ upload.pc = "read"
    /\ ServerStep(IF Known(upload.digest)
                  THEN UploadAt("answer", upload.digest, 0)
                  ELSE UploadAt("temp", upload.digest, now))
    /\ UNCHANGED <<manifest, objects>>

(* _write_object: the bytes go to a temporary file, which is renamed.      *)
WriteTemp ==
    /\ upload.pc = "temp"
    /\ ServerStep(UploadAt("rename", upload.digest, upload.scanned))
    /\ UNCHANGED <<manifest, objects>>

RenameObject ==
    /\ upload.pc = "rename"
    /\ objects' = objects \cup {upload.digest}
    /\ ServerStep(UploadAt("manifest", upload.digest, upload.scanned))
    /\ UNCHANGED manifest

WriteEntry ==
    /\ upload.pc = "manifest"
    /\ manifest' = [manifest EXCEPT ![upload.digest] = NewEntry(upload.scanned)]
    /\ ServerStep(UploadAt("answer", upload.digest, 0))
    /\ UNCHANGED objects

(* The upload is refused as positive.                                      *)
Reject ==
    /\ upload.pc = "answer"
    /\ ServerStep(UploadDone("rejected"))
    /\ UNCHANGED <<manifest, objects>>

StoreUpload == ReadExisting \/ WriteTemp \/ RenameObject \/ WriteEntry \/ Reject

-----------------------------------------------------------------------------
(* Decisions: release, dispose and the _decide they share.                 *)

(* A decider at one of its steps, and one that has been answered.          *)
TaskAt(step, d, decision, e) ==
    [pc |-> step, digest |-> d, decision |-> decision, entry |-> e, reply |-> "none"]

TaskDone(answer) == [pc |-> "idle", digest |-> NoDigest, decision |-> "released",
                     entry |-> NoEntry, reply |-> answer]

DeciderStep(p, t) ==
    /\ task' = [task EXCEPT ![p] = t]
    /\ UNCHANGED <<now, failures, upload>>

Command(p, d, decision) ==
    /\ p \in Operators
    /\ task[p].pc = "idle"
    /\ DeciderStep(p, TaskAt("read", d, decision, NoEntry))
    /\ UNCHANGED <<manifest, objects, todo, decided, tombstones>>

Undecided(e) == e.status = "quarantined"

(* What is not there or already decided is refused, and an exception ends  *)
(* the whole run of the job.                                               *)
Read(p) ==
    /\ task[p].pc = "read"
    /\ LET e == manifest[task[p].digest]
       IN  IF Undecided(e)
           THEN /\ DeciderStep(p, TaskAt("write", task[p].digest, task[p].decision, e))
                /\ UNCHANGED todo
           ELSE /\ DeciderStep(p, TaskDone(IF e = NoEntry THEN "not_found" ELSE "conflict"))
                /\ todo' = IF p = Job THEN {} ELSE todo
    /\ UNCHANGED <<manifest, objects, decided, tombstones>>

(* The entry read before, now decided.                                     *)
Decided(e, decision, p) ==
    [status |-> decision, scanned |-> e.scanned, until |-> e.until, decider |-> p]

(* What a decider has still to do once the manifest says what it decided.  *)
GoesOn(p, step) ==
    DeciderStep(p, TaskAt(step, task[p].digest, task[p].decision, NoEntry))

WriteDecision(p) ==
    /\ task[p].pc = "write"
    /\ manifest' = [manifest EXCEPT ![task[p].digest] =
                      Decided(task[p].entry, task[p].decision, p)]
    /\ \/ /\ task[p].decision = "released"
          /\ GoesOn(p, "answer")
          /\ UNCHANGED tombstones
       \/ /\ task[p].decision = "disposed"
          /\ GoesOn(p, "unlink")
          /\ tombstones' = [tombstones EXCEPT ![task[p].digest] = @ \cup {p}]
    /\ UNCHANGED <<objects, todo, decided>>

RemoveBytes(d) == objects' = objects \ {d}

Unlink(p) ==
    /\ task[p].pc = "unlink"
    /\ RemoveBytes(task[p].digest)
    /\ GoesOn(p, "answer")
    /\ UNCHANGED <<manifest, todo, decided, tombstones>>

(* The call returns: the operator is shown the entry, the job counts it.   *)
Tell(p) ==
    /\ task[p].pc = "answer"
    /\ DeciderStep(p, TaskDone("ok"))
    /\ decided' = [decided EXCEPT ![task[p].digest] = @ \cup {p}]
    /\ UNCHANGED <<manifest, objects, todo, tombstones>>

Decide(p) == Read(p) \/ WriteDecision(p) \/ Unlink(p) \/ Tell(p)

(* retention_until < now_iso compares a date with a date and time as text: *)
(* true from the first instant of the day named.                           *)
Expired(e) == e.until <= now \div TicksPerDay

(* Mutant: only entries past the day named are listed.                     *)
ListPast ==
    /\ task[Job].pc = "idle"
    /\ todo = {}
    /\ todo' = {d \in Digests : /\ Undecided(manifest[d])
                               /\ manifest[d].until < now \div TicksPerDay}
    /\ UNCHANGED <<manifest, objects, now, failures, upload, task, decided, tombstones>>

(* The job lists the expired entries, then disposes of one after another.  *)
List ==
    /\ task[Job].pc = "idle"
    /\ todo = {}
    /\ todo' = {d \in Digests : Undecided(manifest[d]) /\ Expired(manifest[d])}
    /\ UNCHANGED <<manifest, objects, now, failures, upload, task, decided, tombstones>>

DisposeNext ==
    /\ task[Job].pc = "idle"
    /\ \E d \in todo :
          /\ todo' = todo \ {d}
          /\ DeciderStep(Job, TaskAt("read", d, "disposed", NoEntry))
    /\ UNCHANGED <<manifest, objects, decided, tombstones>>

-----------------------------------------------------------------------------
(* A file operation fails or the process dies: nothing it had still to do  *)
(* is done, and nobody is told of what it did.  (A temporary file not yet  *)
(* renamed stays, under a name nothing refers to.)                         *)
FailUpload ==
    /\ upload.pc # "idle"
    /\ failures < MaxFailures
    /\ failures' = failures + 1
    /\ upload' = UploadDone("unavailable")
    /\ UNCHANGED <<manifest, objects, now, task, todo, decided, tombstones>>

FailDecision(p) ==
    /\ task[p].pc # "idle"
    /\ failures < MaxFailures
    /\ failures' = failures + 1
    /\ task' = [task EXCEPT ![p] = TaskDone("unavailable")]
    /\ todo' = IF p = Job THEN {} ELSE todo
    /\ UNCHANGED <<manifest, objects, now, upload, decided, tombstones>>

Tick ==
    /\ now < MaxTime
    /\ now' = now + 1
    /\ UNCHANGED <<manifest, objects, failures, upload, task, todo, decided, tombstones>>

-----------------------------------------------------------------------------
Init ==
    /\ manifest = [d \in Digests |-> NoEntry]
    /\ objects = {}
    /\ now = 0
    /\ failures = 0
    /\ upload = NoUpload
    /\ task = [p \in Deciders |-> NoTask]
    /\ todo = {}
    /\ decided = [d \in Digests |-> {}]
    /\ tombstones = [d \in Digests |-> {}]

Next ==
    \/ \E d \in Digests : Positive(d)
    \/ StoreUpload
    \/ \E p \in Operators, d \in Digests, decision \in Decision :
          Command(p, d, decision)
    \/ \E p \in Deciders : Decide(p)
    \/ List
    \/ DisposeNext
    \/ FailUpload
    \/ \E p \in Deciders : FailDecision(p)
    \/ Tick

Spec == Init /\ [][Next]_vars

(* Each process keeps running, and the job is run again and again by cron. *)
Fairness ==
    /\ WF_vars(StoreUpload)
    /\ \A p \in Deciders : WF_vars(Decide(p))
    /\ WF_vars(List)
    /\ WF_vars(DisposeNext)

FairSpec == Spec /\ Fairness

-----------------------------------------------------------------------------
(* Properties.                                                             *)

(* Every variable keeps to its type.                                       *)
TypeOK ==
    /\ manifest \in [Digests -> Entry \cup {NoEntry}]
    /\ objects \subseteq Digests
    /\ now \in Nat
    /\ failures \in Nat
    /\ upload \in Upload
    /\ task \in [Deciders -> Task]
    /\ todo \subseteq Digests
    /\ decided \in [Digests -> SUBSET Deciders]
    /\ tombstones \in [Digests -> SUBSET Deciders]

(* An entry that waits for a decision has its bytes, through every crash   *)
(* between the object and the manifest and every race of deciders: what an *)
(* operator is shown by `list' can be examined.                            *)
QuarantinedBytesPresent ==
    \A d \in Digests : manifest[d].status = "quarantined" => d \in objects

(* An upload refused as positive has an entry an operator can find, also   *)
(* when an earlier attempt died half way through storing the same bytes.   *)
RejectedIsKept ==
    upload.reply = "rejected" => manifest[upload.digest] # NoEntry

(* An entry is never lost, never open for decision again once decided, and *)
(* keeps its scan time and retention date, though each decider writes back *)
(* a whole entry it read earlier and the same bytes are uploaded again.    *)
EntriesOnlyDecided ==
    [][\A d \in Digests : manifest[d] # NoEntry =>
          /\ manifest'[d] # NoEntry
          /\ manifest'[d].scanned = manifest[d].scanned
          /\ manifest'[d].until = manifest[d].until
          /\ manifest[d].status \in Decision => manifest'[d].status \in Decision]_vars

(* The job disposes of nothing before the last day of its retention: dates *)
(* are truncated and compared as text, which may cost part of a day and    *)
(* never a whole one.                                                      *)
KeptForRetention ==
    \A d \in Digests :
        manifest[d].status = "disposed" /\ manifest[d].decider = Job =>
            now > manifest[d].scanned + (RetentionDays - 1) * TicksPerDay

(* What was refused as malicious is kept as evidence: under an entry from  *)
(* the refusal on, and with its bytes for its retention but for a decision *)
(* of the operator, however dates are cut short and compared as text.      *)
EvidenceKept == RejectedIsKept /\ KeptForRetention

(* An acknowledged disposal that the manifest records has removed the file *)
(* of the bytes.                                                           *)
DisposedIsUnlinked ==
    \A d \in Digests :
        /\ manifest[d].status = "disposed"
        /\ manifest[d].decider \in decided[d]
        => d \notin objects

(* An entry is decided by one decider: the next one is refused             *)
(* (QuarantineConflictError, "raised when an already-decided entry is      *)
(* decided again").                                                        *)
DecidedOnce ==
    \A d \in Digests : Cardinality(decided[d]) <= 1

(* What is released keeps its bytes, unless another decider that raced the *)
(* one whose release the manifest records got as far as its tombstone,     *)
(* whether or not it lived to be told.                                     *)
ReleasedBytesKept ==
    \A d \in Digests :
        manifest[d].status = "released" /\ d \notin objects =>
            tombstones[d] \ {manifest[d].decider} # {}

(* What is on disk is what the manifests say: waiting bytes are there, and *)
(* released ones but for a race that a disposal lost; those of an          *)
(* acknowledged disposal are not.                                          *)
ObjectsFollowEntries ==
    /\ QuarantinedBytesPresent
    /\ DisposedIsUnlinked
    /\ ReleasedBytesKept

(* An entry whose retention has ended does not wait for ever, though the   *)
(* job gives up a run at the first entry an operator decides under it.     *)
ExpiredAreDecided ==
    \A d \in Digests :
        (manifest[d].status = "quarantined" /\ Expired(manifest[d]))
            ~> manifest[d].status \in Decision

-----------------------------------------------------------------------------
(* What the documents say, which the code does not do.                     *)

(* docs/runbook.md: "Disposal permanently unlinks the quarantined bytes    *)
(* while leaving an audit tombstone": a tombstone's bytes go.              *)
TombstoneBytesGo ==
    \A d \in Digests :
        manifest[d].status = "disposed" ~> d \notin objects
=============================================================================
