-------------------------- MODULE QuarantineProofs --------------------------
(***************************************************************************)
(* Theorems about Quarantine, for any number of digests and operators, any *)
(* retention and any number of failures.                                   *)
(***************************************************************************)
EXTENDS Quarantine, TLAPS

(* What the server relies on while it stores an upload: nobody else makes  *)
(* a manifest, and nobody unlinks bytes that have none.                    *)
UploadInv ==
    /\ upload.pc # "idle" \/ upload.reply = "rejected" => upload.digest \in Digests
    /\ upload.pc \in {"temp", "rename", "manifest"} =>
           manifest[upload.digest] = NoEntry /\ upload.scanned <= now
    /\ upload.pc = "manifest" => upload.digest \in objects

(* What a decider relies on: the entry it read is the stored one but for a *)
(* decision made since, and neither its tombstone nor its answer is there  *)
(* before it has decided; after that an entry that still names it says     *)
(* what it decided, and the bytes it disposed of are gone by its answer.   *)
TaskOK(p, t) ==
    /\ t.pc # "idle" => t.digest \in Digests
    /\ t.pc = "write" =>
           /\ manifest[t.digest] # NoEntry
           /\ p \notin decided[t.digest] /\ p \notin tombstones[t.digest]
           /\ t.entry \in Entry
           /\ t.entry.scanned = manifest[t.digest].scanned
           /\ t.entry.until = manifest[t.digest].until
    /\ t.pc \in {"unlink", "answer"} =>
           /\ manifest[t.digest].status \in Decision
           /\ manifest[t.digest].decider = p => manifest[t.digest].status = t.decision
    /\ t.pc = "unlink" => t.decision = "disposed" /\ p \in tombstones[t.digest]
    /\ t.pc = "answer" /\ t.decision = "disposed" => t.digest \notin objects

DeciderInv(p) == TaskOK(p, task[p])

(* What the job has listed, and what it is at, had expired.                *)
Due(d) == manifest[d] # NoEntry /\ Expired(manifest[d])

JobInv ==
    /\ \A d \in todo : Due(d)
    /\ task[Job].pc \in {"read", "write"} => Due(task[Job].digest)

(* What is true of each entry, whoever is at work on it.                   *)
EntryInv(d) ==
    /\ manifest[d] # NoEntry =>
           /\ manifest[d].until = RetentionUntil(manifest[d].scanned)
           /\ d \notin objects => tombstones[d] # {}
    /\ manifest[d].status = "quarantined" => d \in objects
    /\ decided[d] # {} \/ tombstones[d] # {} => manifest[d].status \in Decision
    /\ manifest[d].status = "released" /\ d \notin objects =>
           tombstones[d] \ {manifest[d].decider} # {}
    /\ manifest[d].status = "disposed" /\ manifest[d].decider \in decided[d] =>
           d \notin objects
    /\ manifest[d].status = "disposed" /\ manifest[d].decider = Job => Due(d)

(* An upload is refused as positive only when its entry is there.          *)
AnswerInv(u) == u.pc = "answer" \/ u.reply = "rejected" => manifest[u.digest] # NoEntry

Inv ==
    /\ TypeOK
    /\ UploadInv
    /\ \A p \in Deciders : DeciderInv(p)
    /\ JobInv
    /\ \A d \in Digests : EntryInv(d)
    /\ AnswerInv(upload)

-----------------------------------------------------------------------------
(* Lemmas about days.                                                      *)

LEMMA DivBounds ==
    ASSUME NEW a \in Nat, NEW t \in Nat \ {0}
    PROVE  a \div t \in Nat /\ (a \div t) * t <= a /\ a < (a \div t) * t + t
<1>1. /\ a \div t \in Int /\ a % t \in Int /\ 0 <= a % t /\ a % t < t
      /\ a = t * (a \div t) + (a % t)
  OBVIOUS
<1> QED  BY <1>1

LEMMA TimesMonotone ==
    ASSUME NEW a \in Nat, NEW b \in Nat, NEW t \in Nat \ {0}, a <= b
    PROVE  a * t <= b * t
OBVIOUS

LEMMA DayMonotone ==
    ASSUME NEW a \in Nat, NEW b \in Nat, NEW t \in Nat \ {0}, a <= b
    PROVE  a \div t <= b \div t
<1> DEFINE p == a \div t
           q == b \div t
<1>1. p \in Nat /\ q \in Nat /\ p * t <= a /\ b < q * t + t
  BY DivBounds
<1> HIDE DEF p, q
<1>2. ASSUME q < p PROVE FALSE
  <2>1. q + 1 \in Nat /\ q + 1 <= p
    BY <1>1, <1>2
  <2>2. (q + 1) * t <= p * t
    BY <1>1, <2>1, TimesMonotone
  <2>3. (q + 1) * t = q * t + t /\ p * t \in Nat /\ q * t \in Nat
    BY <1>1
  <2> QED  BY <1>1, <2>2, <2>3
<1> QED  BY <1>1, <1>2 DEF p, q

LEMMA RetentionType ==
    ASSUME NEW t \in Nat
    PROVE  RetentionUntil(t) \in Nat
<1>1. t + RetentionDays * TicksPerDay \in Nat /\ TicksPerDay \in Nat \ {0}
  BY RetentionAssumption
<1> QED  BY <1>1, DivBounds DEF RetentionUntil

(* Whatever part of a day the dates cost, it is less than a day.           *)
LEMMA RetentionEnds ==
    ASSUME NEW s \in Nat, NEW n \in Nat, RetentionUntil(s) <= n \div TicksPerDay
    PROVE  n > s + (RetentionDays - 1) * TicksPerDay
<1> DEFINE t == TicksPerDay
           a == s + RetentionDays * t
           p == a \div t
           q == n \div t
<1>1. t \in Nat \ {0} /\ RetentionDays \in Nat /\ RetentionDays * t \in Nat
  BY RetentionAssumption
<1>2. p \in Nat /\ a < p * t + t
  BY <1>1, DivBounds
<1>3. q \in Nat /\ q * t <= n
  BY <1>1, DivBounds
<1>4. p <= q
  BY DEF RetentionUntil
<1>5. (RetentionDays - 1) * t = RetentionDays * t - t
  BY <1>1
<1> HIDE DEF p, q, t
<1>6. p * t <= q * t /\ p * t \in Nat /\ q * t \in Nat
  BY <1>1, <1>2, <1>3, <1>4, TimesMonotone
<1>7. n > s + (RetentionDays - 1) * t
  BY <1>1, <1>2, <1>3, <1>5, <1>6
<1> QED  BY <1>7 DEF t

-----------------------------------------------------------------------------
(* Every step keeps Inv.                                                   *)

LEMMA InitInv == Init => Inv
<1> SUFFICES ASSUME Init PROVE Inv
  OBVIOUS
<1> USE DEF Init, NoEntry, NoUpload, NoTask
<1>1. TypeOK
  BY DEF TypeOK, Upload, Task, Decision
<1>2. UploadInv
  BY DEF UploadInv
<1>3. \A p \in Deciders : DeciderInv(p)
  BY DEF DeciderInv, TaskOK
<1>4. JobInv
  BY DEF JobInv, Deciders
<1>5. \A d \in Digests : EntryInv(d)
  BY DEF EntryInv, Decision
<1> QED  BY <1>1, <1>2, <1>3, <1>4, <1>5 DEF Inv, AnswerInv

(* The server moves and touches no file.                                   *)
LEMMA ServerMoves ==
    ASSUME Inv, NEW u \in Upload, ServerStep(u), UNCHANGED <<manifest, objects>>,
           UploadInv', AnswerInv(u)
    PROVE  Inv'
<1>1. upload' = u /\ UNCHANGED <<manifest, objects, now, failures, task, todo, decided, tombstones>>
  BY DEF ServerStep
<1>2. TypeOK'
  BY <1>1 DEF Inv, TypeOK
<1>3. (\A p \in Deciders : DeciderInv(p))'
  BY <1>1 DEF Inv, DeciderInv, TaskOK
<1>4. JobInv'
  BY <1>1 DEF Inv, JobInv, Due, Expired
<1>5. (\A d \in Digests : EntryInv(d))'
  BY <1>1 DEF Inv, EntryInv, Due, Expired
<1> QED  BY <1>1, <1>2, <1>3, <1>4, <1>5 DEF Inv, AnswerInv

LEMMA UploadParts ==
    ASSUME Inv
    PROVE  /\ upload \in Upload /\ upload.scanned \in Nat /\ now \in Nat
           /\ upload.pc # "idle" => upload.digest \in Digests
BY DEF Inv, TypeOK, Upload, UploadInv

LEMMA PositiveInv ==
    ASSUME Inv, NEW d \in Digests, Positive(d)
    PROVE  Inv'
<1> DEFINE u == UploadAt("read", d, 0)
<1>1. ServerStep(u) /\ UNCHANGED <<manifest, objects>>
  BY DEF Positive
<1>2. u \in Upload /\ u.reply # "rejected" /\ u.pc = "read" /\ u.digest = d
  BY DEF UploadAt, Upload
<1> HIDE DEF u
<1>3. UploadInv'
  BY <1>1, <1>2 DEF ServerStep, UploadInv
<1> QED  BY <1>1, <1>2, <1>3, ServerMoves DEF AnswerInv

LEMMA ReadExistingInv ==
    ASSUME Inv, ReadExisting
    PROVE  Inv'
<1> DEFINE d == upload.digest
           kept == UploadAt("answer", d, 0)
           new == UploadAt("temp", d, now)
<1>1. upload.pc = "read" /\ UNCHANGED <<manifest, objects>> /\ d \in Digests
      /\ ServerStep(IF Known(d) THEN kept ELSE new)
  BY UploadParts DEF ReadExisting
<1>2. /\ kept \in Upload /\ kept.pc = "answer" /\ kept.digest = d
      /\ new \in Upload /\ new.pc = "temp" /\ new.digest = d /\ new.scanned = now
      /\ new.reply = "none"
  BY <1>1, UploadParts DEF UploadAt, Upload
<1> HIDE DEF kept, new
<1>3. CASE Known(d)
  <2>1. UploadInv'
    BY <1>1, <1>2, <1>3 DEF ServerStep, UploadInv
  <2> QED  BY <1>1, <1>2, <1>3, <2>1, ServerMoves DEF Known, AnswerInv
<1>4. CASE ~Known(d)
  <2>1. UploadInv'
    BY <1>1, <1>2, <1>4, UploadParts DEF ServerStep, UploadInv, Known
  <2> QED  BY <1>1, <1>2, <1>4, <2>1, ServerMoves DEF AnswerInv
<1> QED  BY <1>3, <1>4

LEMMA WriteTempInv ==
    ASSUME Inv, WriteTemp
    PROVE  Inv'
<1> DEFINE u == UploadAt("rename", upload.digest, upload.scanned)
<1>1. upload.pc = "temp" /\ ServerStep(u) /\ UNCHANGED <<manifest, objects>>
  BY DEF WriteTemp
<1>2. /\ u \in Upload /\ u.pc = "rename" /\ u.digest = upload.digest
      /\ u.scanned = upload.scanned /\ u.reply = "none"
  BY UploadParts DEF UploadAt, Upload
<1> HIDE DEF u
<1>3. UploadInv'
  BY <1>1, <1>2 DEF ServerStep, UploadInv, Inv
<1> QED  BY <1>1, <1>2, <1>3, ServerMoves DEF AnswerInv

(* The object appears before its manifest does.                            *)
LEMMA RenameObjectInv ==
    ASSUME Inv, RenameObject
    PROVE  Inv'
<1> DEFINE d == upload.digest
           u == UploadAt("manifest", upload.digest, upload.scanned)
<1>1. /\ upload.pc = "rename" /\ upload' = u /\ objects' = objects \cup {d}
      /\ UNCHANGED <<manifest, now, failures, task, todo, decided, tombstones>>
      /\ d \in Digests /\ manifest[d] = NoEntry /\ upload.scanned <= now
  BY UploadParts DEF RenameObject, ServerStep, UploadInv, Inv
<1>2. /\ u \in Upload /\ u.pc = "manifest" /\ u.digest = upload.digest
      /\ u.scanned = upload.scanned /\ u.reply = "none"
  BY UploadParts DEF UploadAt, Upload
<1> HIDE DEF u
<1>3. TypeOK'
  BY <1>1, <1>2 DEF Inv, TypeOK
<1>4. UploadInv'
  BY <1>1, <1>2 DEF UploadInv
<1>5. (\A p \in Deciders : DeciderInv(p))'
  BY <1>1 DEF Inv, DeciderInv, TaskOK, NoEntry, Decision
<1>6. JobInv'
  BY <1>1 DEF Inv, JobInv, Due, Expired
<1>7. (\A e \in Digests : EntryInv(e))'
  <2> SUFFICES ASSUME NEW e \in Digests PROVE EntryInv(e)'
    OBVIOUS
  <2>1. EntryInv(e)
    BY DEF Inv
  <2>2. CASE e = d
    BY <1>1, <2>1, <2>2 DEF EntryInv, NoEntry, Decision
  <2>3. CASE e # d
    BY <1>1, <2>1, <2>3 DEF EntryInv, Due, Expired
  <2> QED  BY <2>2, <2>3
<1> QED  BY <1>1, <1>2, <1>3, <1>4, <1>5, <1>6, <1>7 DEF Inv, AnswerInv

LEMMA NewEntryParts ==
    ASSUME NEW t \in Nat
    PROVE  /\ NewEntry(t) \in Entry /\ NewEntry(t) # NoEntry
           /\ NewEntry(t).status = "quarantined"
           /\ NewEntry(t).scanned = t /\ NewEntry(t).until = RetentionUntil(t)
BY RetentionType DEF NewEntry, Entry, NoEntry

LEMMA WriteEntryInv ==
    ASSUME Inv, WriteEntry
    PROVE  Inv'
<1> DEFINE d == upload.digest
           u == UploadAt("answer", upload.digest, 0)
           new == NewEntry(upload.scanned)
<1>1. /\ upload.pc = "manifest" /\ upload' = u /\ manifest' = [manifest EXCEPT ![d] = new]
      /\ UNCHANGED <<objects, now, failures, task, todo, decided, tombstones>>
      /\ d \in Digests /\ manifest[d] = NoEntry /\ d \in objects
  BY UploadParts DEF WriteEntry, ServerStep, UploadInv, Inv
<1>2. u \in Upload /\ u.pc = "answer" /\ u.digest = d
  BY <1>1, UploadParts DEF UploadAt, Upload
<1>3. /\ new \in Entry /\ new # NoEntry /\ new.status = "quarantined"
      /\ new.scanned \in Nat /\ new.until = RetentionUntil(new.scanned)
  BY UploadParts, NewEntryParts
<1> HIDE DEF u, new
<1>4. TypeOK'
  BY <1>1, <1>2, <1>3 DEF Inv, TypeOK
<1>5. manifest'[d] = new /\ \A e \in Digests \ {d} : manifest'[e] = manifest[e]
  BY <1>1 DEF Inv, TypeOK
<1>6. UploadInv'
  BY <1>1, <1>2 DEF UploadInv
<1>7. \A p \in Deciders : task[p].pc \in {"write", "unlink", "answer"} => task[p].digest # d
  BY <1>1 DEF Inv, DeciderInv, TaskOK, NoEntry, Decision
<1>8. (\A p \in Deciders : DeciderInv(p))'
  <2> SUFFICES ASSUME NEW p \in Deciders PROVE DeciderInv(p)'
    OBVIOUS
  <2>1. DeciderInv(p)
    BY DEF Inv
  <2> QED  BY <1>1, <1>5, <1>7, <2>1 DEF DeciderInv, TaskOK
<1>9. \A e \in Digests : Due(e) => Due(e)'
  BY <1>1, <1>5 DEF Due, Expired
<1>10. JobInv'
  <2>1. todo \subseteq Digests /\ (task[Job].pc # "idle" => task[Job].digest \in Digests)
    BY DEF Inv, TypeOK, DeciderInv, TaskOK, Deciders
  <2>2. JobInv
    BY DEF Inv
  <2> QED  BY <1>1, <1>9, <2>1, <2>2 DEF JobInv
<1>11. (\A e \in Digests : EntryInv(e))'
  <2> SUFFICES ASSUME NEW e \in Digests PROVE EntryInv(e)'
    OBVIOUS
  <2>1. EntryInv(e)
    BY DEF Inv
  <2>2. CASE e = d
    <3>1. decided[e] = {} /\ tombstones[e] = {}
      BY <1>1, <2>1, <2>2 DEF EntryInv, NoEntry, Decision
    <3> QED  BY <1>1, <1>3, <1>5, <2>1, <2>2, <3>1 DEF EntryInv
  <2>3. CASE e # d
    BY <1>1, <1>5, <1>9, <2>1, <2>3 DEF EntryInv
  <2> QED  BY <2>2, <2>3
<1> QED  BY <1>1, <1>2, <1>3, <1>4, <1>5, <1>6, <1>8, <1>10, <1>11 DEF Inv, AnswerInv

(* The answer changes nothing but what the uploader knows.                 *)
LEMMA RejectInv ==
    ASSUME Inv, Reject
    PROVE  Inv'
<1> DEFINE u == UploadDone("rejected")
<1>1. upload.pc = "answer" /\ ServerStep(u) /\ UNCHANGED <<manifest, objects>>
  BY DEF Reject
<1>2. u \in Upload /\ u.pc = "idle" /\ u.digest = upload.digest
  BY UploadParts DEF UploadDone, Upload
<1> HIDE DEF u
<1>3. upload.digest \in Digests
  BY <1>1, UploadParts
<1>4. UploadInv'
  BY <1>1, <1>2, <1>3 DEF ServerStep, UploadInv
<1>5. AnswerInv(u)
  BY <1>1, <1>2 DEF Inv, AnswerInv
<1> QED  BY <1>1, <1>2, <1>4, <1>5, ServerMoves

(* A decider moves, and touches no file and no entry.                      *)
LEMMA DeciderMoves ==
    ASSUME Inv, NEW p \in Deciders, NEW t \in Task, DeciderStep(p, t),
           UNCHANGED <<manifest, objects, decided, tombstones>>, todo' \subseteq todo,
           TaskOK(p, t), p = Job /\ t.pc \in {"read", "write"} => Due(t.digest)
    PROVE  Inv'
<1>1. task' = [task EXCEPT ![p] = t] /\ UNCHANGED <<manifest, objects, now, failures, upload, decided, tombstones>>
  BY DEF DeciderStep
<1>2. task'[p] = t /\ \A q \in Deciders \ {p} : task'[q] = task[q]
  BY <1>1 DEF Inv, TypeOK
<1>3. TypeOK'
  BY <1>1 DEF Inv, TypeOK
<1>4. UploadInv'
  BY <1>1 DEF Inv, UploadInv
<1>5. (\A q \in Deciders : DeciderInv(q))'
  <2> SUFFICES ASSUME NEW q \in Deciders PROVE DeciderInv(q)'
    OBVIOUS
  <2>1. TaskOK(q, task'[q])
    BY <1>2 DEF Inv, DeciderInv
  <2> QED  BY <1>1, <2>1 DEF DeciderInv, TaskOK
<1>6. \A d : Due(d)' <=> Due(d)
  BY <1>1 DEF Due, Expired
<1>7. JobInv'
  <2>1. task'[Job].pc \in {"read", "write"} => Due(task'[Job].digest)
    BY <1>2 DEF Inv, JobInv, Deciders
  <2> QED  BY <1>6, <2>1 DEF Inv, JobInv
<1>8. (\A d \in Digests : EntryInv(d))'
  BY <1>1, <1>6 DEF Inv, EntryInv
<1> QED  BY <1>1, <1>3, <1>4, <1>5, <1>7, <1>8 DEF Inv, AnswerInv

LEMMA TaskParts ==
    ASSUME Inv, NEW p \in Deciders
    PROVE  /\ task[p] \in Task /\ TaskOK(p, task[p])
           /\ task[p].decision \in Decision
           /\ task[p].entry \in Entry \cup {NoEntry}
           /\ task[p].digest \in Digests \cup {NoDigest}
BY DEF Inv, TypeOK, Task, DeciderInv

LEMMA TaskDoneParts ==
    ASSUME NEW answer \in {"ok", "not_found", "conflict", "unavailable"}
    PROVE  /\ TaskDone(answer) \in Task /\ TaskDone(answer).pc = "idle"
           /\ \A p : TaskOK(p, TaskDone(answer))
BY DEF TaskDone, Task, TaskOK, Decision

LEMMA CommandInv ==
    ASSUME Inv, NEW p \in Operators, NEW d \in Digests, NEW decision \in Decision,
           Command(p, d, decision)
    PROVE  Inv'
<1> DEFINE t == TaskAt("read", d, decision, NoEntry)
<1>1. DeciderStep(p, t) /\ UNCHANGED <<manifest, objects, todo, decided, tombstones>>
  BY DEF Command
<1>2. t \in Task /\ t.pc = "read" /\ t.digest = d
  BY DEF TaskAt, Task
<1> HIDE DEF t
<1>3. TaskOK(p, t)
  BY <1>2 DEF TaskOK
<1>4. p \in Deciders /\ p # Job
  BY DeciderAssumption DEF Deciders
<1> QED  BY <1>1, <1>2, <1>3, <1>4, DeciderMoves

LEMMA DisposeNextInv ==
    ASSUME Inv, DisposeNext
    PROVE  Inv'
<1>1. PICK d \in todo : /\ todo' = todo \ {d}
                        /\ DeciderStep(Job, TaskAt("read", d, "disposed", NoEntry))
  BY DEF DisposeNext
<1>2. UNCHANGED <<manifest, objects, decided, tombstones>>
  BY DEF DisposeNext
<1> DEFINE t == TaskAt("read", d, "disposed", NoEntry)
<1>3. d \in Digests /\ Due(d) /\ todo' \subseteq todo /\ Job \in Deciders
  BY <1>1 DEF Inv, TypeOK, JobInv, Deciders
<1>4. t \in Task /\ t.pc = "read" /\ t.digest = d
  BY <1>3 DEF TaskAt, Task, Decision
<1>5. DeciderStep(Job, t)
  BY <1>1
<1> HIDE DEF t
<1>6. TaskOK(Job, t)
  BY <1>3, <1>4 DEF TaskOK
<1> QED  BY <1>2, <1>3, <1>4, <1>5, <1>6, DeciderMoves

LEMMA ReadInv ==
    ASSUME Inv, NEW p \in Deciders, Read(p)
    PROVE  Inv'
<1> DEFINE d == task[p].digest
           e == manifest[d]
           t == TaskAt("write", d, task[p].decision, e)
<1>1. task[p].pc = "read" /\ UNCHANGED <<manifest, objects, decided, tombstones>> /\ d \in Digests
  BY TaskParts DEF Read, TaskOK
<1>2. CASE Undecided(e)
  <2>1. DeciderStep(p, t) /\ UNCHANGED todo
    BY <1>2 DEF Read
  <2>2. e # NoEntry /\ e \in Entry /\ e.status = "quarantined"
    BY <1>1, <1>2 DEF Undecided, NoEntry, Inv, TypeOK
  <2>3. t \in Task /\ t.pc = "write" /\ t.digest = d /\ t.entry = e
    BY <1>1, <2>2, TaskParts DEF TaskAt, Task
  <2>4. decided[d] = {} /\ tombstones[d] = {}
    BY <1>1, <2>2 DEF Inv, EntryInv, Decision
  <2>5. p = Job => Due(d)
    BY <1>1 DEF Inv, JobInv
  <2> HIDE DEF t
  <2>6. TaskOK(p, t)
    BY <1>1, <2>2, <2>3, <2>4 DEF TaskOK
  <2> QED  BY <1>1, <2>1, <2>3, <2>5, <2>6, DeciderMoves
<1>3. CASE ~Undecided(e)
  <2> DEFINE answer == IF e = NoEntry THEN "not_found" ELSE "conflict"
  <2>1. DeciderStep(p, TaskDone(answer)) /\ todo' = IF p = Job THEN {} ELSE todo
    BY <1>3 DEF Read
  <2>2. answer \in {"ok", "not_found", "conflict", "unavailable"} /\ todo' \subseteq todo
    BY <2>1
  <2> HIDE DEF answer
  <2>3. /\ TaskDone(answer) \in Task /\ TaskDone(answer).pc = "idle"
        /\ TaskOK(p, TaskDone(answer))
    BY <2>2, TaskParts, TaskDoneParts
  <2> QED  BY <1>1, <2>1, <2>2, <2>3, DeciderMoves
<1> QED  BY <1>2, <1>3

LEMMA FailDecisionInv ==
    ASSUME Inv, NEW p \in Deciders, FailDecision(p)
    PROVE  Inv'
<1> DEFINE t == TaskDone("unavailable")
<1>1. /\ task' = [task EXCEPT ![p] = t] /\ todo' \subseteq todo /\ failures' = failures + 1
      /\ UNCHANGED <<manifest, objects, now, upload, decided, tombstones>>
  BY DEF FailDecision
<1>2. t \in Task /\ t.pc = "idle" /\ TaskOK(p, t)
  BY TaskParts, TaskDoneParts
<1> HIDE DEF t
<1>3. task'[p] = t /\ \A q \in Deciders \ {p} : task'[q] = task[q]
  BY <1>1 DEF Inv, TypeOK
<1>4. TypeOK'
  BY <1>1, <1>2 DEF Inv, TypeOK
<1>5. (\A q \in Deciders : DeciderInv(q))'
  <2> SUFFICES ASSUME NEW q \in Deciders PROVE DeciderInv(q)'
    OBVIOUS
  <2>1. TaskOK(q, task'[q])
    BY <1>2, <1>3 DEF Inv, DeciderInv
  <2> QED  BY <1>1, <2>1 DEF DeciderInv, TaskOK
<1>6. UploadInv' /\ (\A d : Due(d)' <=> Due(d))
  BY <1>1 DEF Inv, UploadInv, Due, Expired
<1>7. JobInv'
  <2>1. task'[Job].pc \in {"read", "write"} => Due(task'[Job].digest)
    BY <1>2, <1>3 DEF Inv, JobInv, Deciders
  <2> QED  BY <1>1, <1>6, <2>1 DEF Inv, JobInv
<1>8. (\A d \in Digests : EntryInv(d))'
  BY <1>1, <1>6 DEF Inv, EntryInv
<1> QED  BY <1>1, <1>4, <1>5, <1>6, <1>7, <1>8 DEF Inv, AnswerInv

(* An entry is decided: its times stay, so all the others may rely on does. *)
LEMMA WriteDecisionInv ==
    ASSUME Inv, NEW p \in Deciders, WriteDecision(p)
    PROVE  Inv'
<1> DEFINE d == task[p].digest
           was == task[p].entry
           decision == task[p].decision
           new == Decided(was, decision, p)
           step == IF decision = "released" THEN "answer" ELSE "unlink"
           t == TaskAt(step, d, decision, NoEntry)
<1>1. /\ task[p].pc = "write" /\ manifest' = [manifest EXCEPT ![d] = new]
      /\ UNCHANGED <<objects, todo, now, failures, upload, decided>>
      /\ task' = [task EXCEPT ![p] = t]
      /\ tombstones' = IF decision = "released" THEN tombstones
                       ELSE [tombstones EXCEPT ![d] = tombstones[d] \cup {p}]
  BY DEF WriteDecision, GoesOn, DeciderStep
<1>2. /\ d \in Digests /\ manifest[d] # NoEntry
      /\ p \notin decided[d] /\ p \notin tombstones[d]
      /\ was \in Entry /\ was.scanned = manifest[d].scanned /\ was.until = manifest[d].until
      /\ decision \in Decision
  BY <1>1, TaskParts DEF TaskOK
<1>3. /\ new \in Entry /\ new # NoEntry /\ new.status = decision /\ new.decider = p
      /\ new.scanned = manifest[d].scanned /\ new.until = manifest[d].until
  BY <1>2 DEF Decided, Entry, NoEntry, Decision
<1>4. /\ t \in Task /\ t.digest = d /\ t.decision = decision
      /\ t.pc = step /\ step \in {"answer", "unlink"}
      /\ step = "unlink" <=> decision = "disposed"
  BY <1>2 DEF TaskAt, Task, Decision
<1>5. p = Job => Due(d)
  BY <1>1 DEF Inv, JobInv
<1> HIDE DEF new, t, was, step
<1>6. manifest'[d] = new /\ \A e \in Digests \ {d} : manifest'[e] = manifest[e]
  BY <1>1, <1>2 DEF Inv, TypeOK
<1>7. task'[p] = t /\ \A q \in Deciders \ {p} : task'[q] = task[q]
  BY <1>1 DEF Inv, TypeOK
<1>8. /\ tombstones'[d] = IF decision = "released" THEN tombstones[d] ELSE tombstones[d] \cup {p}
      /\ \A e \in Digests \ {d} : tombstones'[e] = tombstones[e]
      /\ tombstones' \in [Digests -> SUBSET Deciders]
  BY <1>1, <1>2 DEF Inv, TypeOK
<1>9. TypeOK'
  BY <1>1, <1>3, <1>4, <1>8 DEF Inv, TypeOK
<1>10. UploadInv'
  <2>1. upload.pc \in {"temp", "rename", "manifest"} => upload.digest # d
    BY <1>2 DEF Inv, UploadInv
  <2> QED  BY <1>1, <1>6, <2>1 DEF Inv, UploadInv
<1>11. (\A q \in Deciders : DeciderInv(q))'
  <2> SUFFICES ASSUME NEW q \in Deciders PROVE DeciderInv(q)'
    OBVIOUS
  <2>1. CASE q = p
    <3>1. decision = "disposed" => p \in tombstones'[d]
      BY <1>8
    <3>2. t.pc # "write" /\ t.pc # "idle" /\ (t.pc = "answer" => decision # "disposed")
      BY <1>4
    <3> QED  BY <1>2, <1>3, <1>4, <1>6, <1>7, <2>1, <3>1, <3>2 DEF DeciderInv, TaskOK
  <2>2. CASE q # p
    <3>1. TaskOK(q, task[q]) /\ task'[q] = task[q]
      BY <1>7, <2>2 DEF Inv, DeciderInv
    <3>2. CASE task[q].digest = d
      <4>1. q \in tombstones'[d] <=> q \in tombstones[d]
        BY <1>8, <2>2
      <4> QED  BY <1>1, <1>2, <1>3, <1>6, <2>2, <3>1, <3>2, <4>1 DEF DeciderInv, TaskOK
    <3>3. CASE task[q].digest # d
      BY <1>1, <1>6, <1>8, <3>1, <3>3 DEF DeciderInv, TaskOK
    <3> QED  BY <3>2, <3>3
  <2> QED  BY <2>1, <2>2
<1>12. \A e \in Digests : Due(e) => Due(e)'
  BY <1>1, <1>3, <1>6 DEF Due, Expired
<1>13. JobInv'
  <2>1. task'[Job].pc \in {"read", "write"} =>
            Due(task'[Job].digest) /\ task'[Job].digest \in Digests
    BY <1>4, <1>7, TaskParts DEF Inv, JobInv, Deciders, TaskOK
  <2> QED  BY <1>1, <1>12, <2>1 DEF Inv, JobInv, TypeOK
<1>14. (\A e \in Digests : EntryInv(e))'
  <2> SUFFICES ASSUME NEW e \in Digests PROVE EntryInv(e)'
    OBVIOUS
  <2>1. EntryInv(e)
    BY DEF Inv
  <2>2. CASE e = d
    <3>1. manifest'[e].until = RetentionUntil(manifest'[e].scanned)
      BY <1>2, <1>3, <1>6, <2>1, <2>2 DEF EntryInv
    <3>2. tombstones[e] \subseteq tombstones'[e]
      BY <1>8, <2>2
    <3>3. e \notin objects => tombstones[e] \ {p} # {}
      BY <1>2, <2>1, <2>2 DEF EntryInv
    <3>4. e \notin objects => tombstones'[e] # {} /\ tombstones'[e] \ {p} # {}
      BY <3>2, <3>3
    <3>5. manifest'[e].decider = p /\ p \notin decided'[e]
          /\ manifest'[e].status \in Decision
      BY <1>1, <1>2, <1>3, <1>6, <2>2
    <3>6. manifest'[e].decider = Job => Due(e)'
      BY <1>3, <1>5, <1>6, <1>12, <2>2
    <3> QED  BY <1>1, <3>1, <3>4, <3>5, <3>6 DEF EntryInv, Decision
  <2>3. CASE e # d
    BY <1>1, <1>6, <1>8, <1>12, <2>1, <2>3 DEF EntryInv
  <2> QED  BY <2>2, <2>3
<1>15. AnswerInv(upload)'
  BY <1>1, <1>3, <1>6, UploadParts DEF Inv, AnswerInv, UploadInv
<1> QED  BY <1>9, <1>10, <1>11, <1>13, <1>14, <1>15 DEF Inv

(* The bytes go: whoever unlinks them has written a tombstone, and is not  *)
(* the one whose release the entry records.                                *)
LEMMA UnlinkInv ==
    ASSUME Inv, NEW p \in Deciders, Unlink(p)
    PROVE  Inv'
<1> DEFINE d == task[p].digest
           t == TaskAt("answer", d, task[p].decision, NoEntry)
<1>1. /\ task[p].pc = "unlink" /\ objects' = objects \ {d}
      /\ UNCHANGED <<manifest, todo, now, failures, upload, decided, tombstones>>
      /\ task' = [task EXCEPT ![p] = t]
  BY DEF Unlink, GoesOn, DeciderStep, RemoveBytes
<1>2. /\ d \in Digests /\ manifest[d].status \in Decision
      /\ task[p].decision = "disposed" /\ p \in tombstones[d]
      /\ manifest[d].decider = p => manifest[d].status = "disposed"
  BY <1>1, TaskParts DEF TaskOK
<1>3. /\ t \in Task /\ t.pc = "answer" /\ t.digest = d /\ t.decision = "disposed"
  BY <1>2 DEF TaskAt, Task, Decision
<1> HIDE DEF t
<1>4. task'[p] = t /\ \A q \in Deciders \ {p} : task'[q] = task[q]
  BY <1>1 DEF Inv, TypeOK
<1>5. TypeOK'
  BY <1>1, <1>3 DEF Inv, TypeOK
<1>6. UploadInv' /\ AnswerInv(upload)'
  <2>1. upload.pc = "manifest" => upload.digest # d
    BY <1>2 DEF Inv, UploadInv, NoEntry, Decision
  <2> QED  BY <1>1, <2>1 DEF Inv, UploadInv, AnswerInv
<1>7. (\A q \in Deciders : DeciderInv(q))'
  <2> SUFFICES ASSUME NEW q \in Deciders PROVE DeciderInv(q)'
    OBVIOUS
  <2>1. CASE q = p
    BY <1>1, <1>2, <1>3, <1>4, <2>1 DEF DeciderInv, TaskOK
  <2>2. CASE q # p
    <3>1. TaskOK(q, task[q]) /\ task'[q] = task[q]
      BY <1>4, <2>2 DEF Inv, DeciderInv
    <3> QED  BY <1>1, <3>1 DEF DeciderInv, TaskOK
  <2> QED  BY <2>1, <2>2
<1>8. \A e : Due(e)' <=> Due(e)
  BY <1>1 DEF Due, Expired
<1>9. JobInv'
  <2>1. task'[Job].pc \in {"read", "write"} => Due(task'[Job].digest)
    BY <1>3, <1>4 DEF Inv, JobInv, Deciders
  <2> QED  BY <1>1, <1>8, <2>1 DEF Inv, JobInv
<1>10. (\A e \in Digests : EntryInv(e))'
  <2> SUFFICES ASSUME NEW e \in Digests PROVE EntryInv(e)'
    OBVIOUS
  <2>1. EntryInv(e)
    BY DEF Inv
  <2>2. CASE e = d
    <3>1. tombstones[e] # {}
          /\ (manifest[e].status = "released" => p \in tombstones[e] \ {manifest[e].decider})
      BY <1>2, <2>2
    <3> QED  BY <1>1, <1>2, <1>8, <2>1, <2>2, <3>1 DEF EntryInv, Decision
  <2>3. CASE e # d
    BY <1>1, <1>8, <2>1, <2>3 DEF EntryInv
  <2> QED  BY <2>2, <2>3
<1> QED  BY <1>5, <1>6, <1>7, <1>9, <1>10 DEF Inv

(* A decider is told: if the entry records its disposal, the bytes are     *)
(* gone by then.                                                           *)
LEMMA TellInv ==
    ASSUME Inv, NEW p \in Deciders, Tell(p)
    PROVE  Inv'
<1> DEFINE d == task[p].digest
           t == TaskDone("ok")
<1>1. /\ task[p].pc = "answer" /\ task' = [task EXCEPT ![p] = t]
      /\ decided' = [decided EXCEPT ![d] = decided[d] \cup {p}]
      /\ UNCHANGED <<manifest, objects, todo, now, failures, upload, tombstones>>
  BY DEF Tell, DeciderStep
<1>2. /\ d \in Digests /\ manifest[d].status \in Decision
      /\ manifest[d].decider = p => manifest[d].status = task[p].decision
      /\ task[p].decision = "disposed" => d \notin objects
  BY <1>1, TaskParts DEF TaskOK
<1>3. t \in Task /\ t.pc = "idle" /\ \A q : TaskOK(q, t)
  BY TaskDoneParts
<1> HIDE DEF t
<1>4. task'[p] = t /\ \A q \in Deciders \ {p} : task'[q] = task[q]
  BY <1>1 DEF Inv, TypeOK
<1>5. /\ decided'[d] = decided[d] \cup {p}
      /\ \A e \in Digests \ {d} : decided'[e] = decided[e]
      /\ decided' \in [Digests -> SUBSET Deciders]
  BY <1>1, <1>2 DEF Inv, TypeOK
<1>6. TypeOK'
  BY <1>1, <1>3, <1>5 DEF Inv, TypeOK
<1>7. UploadInv' /\ AnswerInv(upload)'
  BY <1>1 DEF Inv, UploadInv, AnswerInv
<1>8. (\A q \in Deciders : DeciderInv(q))'
  <2> SUFFICES ASSUME NEW q \in Deciders PROVE DeciderInv(q)'
    OBVIOUS
  <2>1. CASE q = p
    BY <1>3, <1>4, <2>1 DEF DeciderInv, TaskOK
  <2>2. CASE q # p
    <3>1. TaskOK(q, task[q]) /\ task'[q] = task[q]
      BY <1>4, <2>2 DEF Inv, DeciderInv
    <3>2. task[q].pc = "write" => q \notin decided'[task[q].digest]
      BY <1>5, <2>2, <3>1 DEF TaskOK
    <3> QED  BY <1>1, <3>1, <3>2 DEF DeciderInv, TaskOK
  <2> QED  BY <2>1, <2>2
<1>9. \A e : Due(e)' <=> Due(e)
  BY <1>1 DEF Due, Expired
<1>10. JobInv'
  <2>1. task'[Job].pc \in {"read", "write"} => Due(task'[Job].digest)
    BY <1>3, <1>4 DEF Inv, JobInv, Deciders
  <2> QED  BY <1>1, <1>9, <2>1 DEF Inv, JobInv
<1>11. (\A e \in Digests : EntryInv(e))'
  <2> SUFFICES ASSUME NEW e \in Digests PROVE EntryInv(e)'
    OBVIOUS
  <2>1. EntryInv(e)
    BY DEF Inv
  <2>2. CASE e = d
    <3>1. manifest[e].status = "disposed" /\ manifest[e].decider \in decided'[e] =>
              e \notin objects
      BY <1>2, <1>5, <2>1, <2>2 DEF EntryInv
    <3> QED  BY <1>1, <1>2, <1>9, <2>1, <2>2, <3>1 DEF EntryInv
  <2>3. CASE e # d
    BY <1>1, <1>5, <1>9, <2>1, <2>3 DEF EntryInv
  <2> QED  BY <2>2, <2>3
<1> QED  BY <1>6, <1>7, <1>8, <1>10, <1>11 DEF Inv

LEMMA ListInv ==
    ASSUME Inv, List
    PROVE  Inv'
<1>1. /\ todo' = {d \in Digests : Undecided(manifest[d]) /\ Expired(manifest[d])}
      /\ UNCHANGED <<manifest, objects, now, failures, upload, task, decided, tombstones>>
  BY DEF List
<1>2. \A d : Due(d)' <=> Due(d)
  BY <1>1 DEF Due, Expired
<1>3. TypeOK' /\ UploadInv' /\ (\A p \in Deciders : DeciderInv(p))'
  BY <1>1 DEF Inv, TypeOK, UploadInv, DeciderInv, TaskOK
<1>4. JobInv'
  <2>1. \A d \in todo' : Due(d)
    BY <1>1 DEF Due, Undecided, NoEntry
  <2> QED  BY <1>1, <1>2, <2>1 DEF Inv, JobInv
<1>5. (\A d \in Digests : EntryInv(d))'
  BY <1>1, <1>2 DEF Inv, EntryInv
<1> QED  BY <1>1, <1>3, <1>4, <1>5 DEF Inv, AnswerInv

LEMMA FailUploadInv ==
    ASSUME Inv, FailUpload
    PROVE  Inv'
<1> DEFINE u == UploadDone("unavailable")
<1>1. /\ upload' = u /\ failures' = failures + 1
      /\ UNCHANGED <<manifest, objects, now, task, todo, decided, tombstones>>
  BY DEF FailUpload
<1>2. u \in Upload /\ u.pc = "idle" /\ u.reply = "unavailable"
  BY UploadParts DEF UploadDone, Upload
<1> HIDE DEF u
<1>3. TypeOK' /\ UploadInv'
  BY <1>1, <1>2 DEF Inv, TypeOK, UploadInv
<1>4. (\A p \in Deciders : DeciderInv(p))' /\ JobInv'
  BY <1>1 DEF Inv, DeciderInv, TaskOK, JobInv, Due, Expired
<1>5. (\A d \in Digests : EntryInv(d))'
  BY <1>1 DEF Inv, EntryInv, Due, Expired
<1> QED  BY <1>1, <1>2, <1>3, <1>4, <1>5 DEF Inv, AnswerInv

LEMMA TickInv ==
    ASSUME Inv, Tick
    PROVE  Inv'
<1>1. /\ now' = now + 1
      /\ UNCHANGED <<manifest, objects, failures, upload, task, todo, decided, tombstones>>
      /\ now \in Nat
  BY DEF Tick, Inv, TypeOK
<1>2. TypeOK' /\ UploadInv' /\ (\A p \in Deciders : DeciderInv(p))'
  BY <1>1, UploadParts DEF Inv, TypeOK, UploadInv, DeciderInv, TaskOK
<1>3. \A d \in Digests : Due(d) => Due(d)'
  <2> SUFFICES ASSUME NEW d \in Digests, Due(d) PROVE Due(d)'
    OBVIOUS
  <2>1. /\ now \div TicksPerDay <= now' \div TicksPerDay
        /\ now \div TicksPerDay \in Nat /\ now' \div TicksPerDay \in Nat
    BY <1>1, RetentionAssumption, DayMonotone, DivBounds
  <2>2. manifest[d].until \in Nat
    BY DEF Inv, TypeOK, Due, Entry
  <2> QED  BY <1>1, <2>1, <2>2 DEF Due, Expired
<1>4. JobInv'
  <2>1. task[Job].pc \in {"read", "write"} => task[Job].digest \in Digests
    BY TaskParts DEF TaskOK, Deciders
  <2> QED  BY <1>1, <1>3, <2>1 DEF Inv, JobInv, TypeOK
<1>5. (\A d \in Digests : EntryInv(d))'
  BY <1>1, <1>3 DEF Inv, EntryInv
<1> QED  BY <1>1, <1>2, <1>4, <1>5 DEF Inv, AnswerInv

LEMMA InvStep == Inv /\ [Next]_vars => Inv'
<1> SUFFICES ASSUME Inv, [Next]_vars PROVE Inv'
  OBVIOUS
<1>1. CASE UNCHANGED vars
  <2>1. UNCHANGED <<manifest, objects, now, failures, upload, task, todo, decided, tombstones>>
    BY <1>1 DEF vars
  <2>2. \A d : Due(d)' <=> Due(d)
    BY <2>1 DEF Due, Expired
  <2>3. TypeOK' /\ UploadInv' /\ JobInv' /\ (\A p \in Deciders : DeciderInv(p))'
    BY <2>1, <2>2 DEF Inv, TypeOK, UploadInv, JobInv, DeciderInv, TaskOK
  <2>4. (\A d \in Digests : EntryInv(d))'
    BY <2>1, <2>2 DEF Inv, EntryInv
  <2> QED  BY <2>1, <2>3, <2>4 DEF Inv, AnswerInv
<1>2. CASE Next
  <2>1. CASE \E d \in Digests : Positive(d)
    BY <2>1, PositiveInv
  <2>2. CASE StoreUpload
    BY <2>2, ReadExistingInv, WriteTempInv, RenameObjectInv, WriteEntryInv, RejectInv
       DEF StoreUpload
  <2>3. CASE \E p \in Operators, d \in Digests, decision \in Decision : Command(p, d, decision)
    BY <2>3, CommandInv
  <2>4. CASE \E p \in Deciders : Decide(p)
    BY <2>4, ReadInv, WriteDecisionInv, UnlinkInv, TellInv DEF Decide
  <2>5. CASE List \/ DisposeNext
    BY <2>5, ListInv, DisposeNextInv
  <2>6. CASE FailUpload \/ \E p \in Deciders : FailDecision(p)
    BY <2>6, FailUploadInv, FailDecisionInv
  <2>7. CASE Tick
    BY <2>7, TickInv
  <2> QED  BY <1>2, <2>1, <2>2, <2>3, <2>4, <2>5, <2>6, <2>7 DEF Next
<1> QED  BY <1>1, <1>2

LEMMA InvSpec == Spec => []Inv
<1> QED  BY InitInv, InvStep, PTL DEF Spec

(* Only two steps touch an entry: the one that makes it, and a decision.   *)
LEMMA EntryStep ==
    ASSUME Inv, [Next]_vars, NEW d \in Digests, manifest[d] # NoEntry
    PROVE  /\ manifest'[d] # NoEntry
           /\ manifest'[d].scanned = manifest[d].scanned
           /\ manifest'[d].until = manifest[d].until
           /\ manifest[d].status \in Decision => manifest'[d].status \in Decision
<1>1. CASE WriteEntry
  <2>1. manifest' = [manifest EXCEPT ![upload.digest] = NewEntry(upload.scanned)]
        /\ upload.pc = "manifest"
    BY <1>1 DEF WriteEntry
  <2>2. upload.digest # d
    BY <2>1 DEF Inv, UploadInv
  <2> QED  BY <2>1, <2>2 DEF Inv, TypeOK
<1>2. ASSUME NEW p \in Deciders, WriteDecision(p)
      PROVE  /\ manifest'[d] # NoEntry
             /\ manifest'[d].scanned = manifest[d].scanned
             /\ manifest'[d].until = manifest[d].until
             /\ manifest[d].status \in Decision => manifest'[d].status \in Decision
  <2> DEFINE e == task[p].digest
             new == Decided(task[p].entry, task[p].decision, p)
  <2>1. manifest' = [manifest EXCEPT ![e] = new] /\ task[p].pc = "write"
    BY <1>2 DEF WriteDecision
  <2>2. CASE e # d
    BY <2>1, <2>2 DEF Inv, TypeOK
  <2>3. CASE e = d
    <3>1. /\ task[p].entry.scanned = manifest[d].scanned
          /\ task[p].entry.until = manifest[d].until /\ task[p].decision \in Decision
      BY <2>1, <2>3, TaskParts DEF TaskOK
    <3>2. manifest'[d] = new
      BY <2>1, <2>3 DEF Inv, TypeOK
    <3>3. /\ new.status = task[p].decision /\ new # NoEntry
          /\ new.scanned = task[p].entry.scanned /\ new.until = task[p].entry.until
      BY <3>1 DEF Decided, NoEntry, Decision
    <3> QED  BY <3>1, <3>2, <3>3
  <2> QED  BY <2>2, <2>3
<1>3. CASE ~WriteEntry /\ ~\E p \in Deciders : WriteDecision(p)
  <2>1. manifest' = manifest
    BY <1>3 DEF Next, vars, Positive, StoreUpload, ReadExisting, WriteTemp, RenameObject,
                Reject, Command, Decide, Read, Unlink, Tell, List, DisposeNext, FailUpload,
                FailDecision, Tick
  <2> QED  BY <2>1
<1> QED  BY <1>1, <1>2, <1>3

-----------------------------------------------------------------------------
(* Every variable keeps to its type.                                       *)
THEOREM TypeCorrect == Spec => []TypeOK
<1>1. Inv => TypeOK
  BY DEF Inv
<1> QED  BY <1>1, InvSpec, PTL

(* An entry that waits for a decision has its bytes: the object is renamed *)
(* before the manifest, and only a decided entry's bytes are unlinked.     *)
THEOREM BytesKept == Spec => []QuarantinedBytesPresent
<1>1. Inv => QuarantinedBytesPresent
  BY DEF Inv, EntryInv, QuarantinedBytesPresent
<1> QED  BY <1>1, InvSpec, PTL

(* An upload refused as positive has an entry, however often it is tried   *)
(* and whatever is decided meanwhile.                                      *)
THEOREM RejectionKept == Spec => []RejectedIsKept
<1>1. Inv => RejectedIsKept
  BY DEF Inv, AnswerInv, RejectedIsKept
<1> QED  BY <1>1, InvSpec, PTL

(* The job disposes of nothing a whole day before its retention ends.      *)
THEOREM RetentionKept == Spec => []KeptForRetention
<1>1. Inv => KeptForRetention
  <2> SUFFICES ASSUME Inv, NEW d \in Digests, manifest[d].status = "disposed",
                      manifest[d].decider = Job
               PROVE  now > manifest[d].scanned + (RetentionDays - 1) * TicksPerDay
    BY DEF KeptForRetention
  <2>1. manifest[d] # NoEntry /\ Expired(manifest[d])
        /\ manifest[d].until = RetentionUntil(manifest[d].scanned)
    BY DEF Inv, EntryInv, Due
  <2>2. manifest[d].scanned \in Nat /\ now \in Nat
    BY <2>1 DEF Inv, TypeOK, Entry
  <2> QED  BY <2>1, <2>2, RetentionEnds DEF Expired
<1> QED  BY <1>1, InvSpec, PTL

(* An entry is never lost, reopened or given other times, though deciders  *)
(* write back entries they read before.                                    *)
THEOREM DecisionsFinal == Spec => EntriesOnlyDecided
<1>1. Inv /\ [Next]_vars =>
        [\A d \in Digests : manifest[d] # NoEntry =>
            /\ manifest'[d] # NoEntry
            /\ manifest'[d].scanned = manifest[d].scanned
            /\ manifest'[d].until = manifest[d].until
            /\ manifest[d].status \in Decision => manifest'[d].status \in Decision]_vars
  BY EntryStep
<1> QED  BY <1>1, InvSpec, PTL DEF Spec, EntriesOnlyDecided

(* A disposal that was acknowledged and still stands has unlinked the      *)
(* bytes, and nothing brings them back.                                    *)
THEOREM DisposalUnlinks == Spec => []DisposedIsUnlinked
<1>1. Inv => DisposedIsUnlinked
  BY DEF Inv, EntryInv, DisposedIsUnlinked
<1> QED  BY <1>1, InvSpec, PTL

(* Released bytes can only be missing when another decider than the one    *)
(* that released them wrote its tombstone.                                 *)
THEOREM ReleaseKeepsBytes == Spec => []ReleasedBytesKept
<1>1. Inv => ReleasedBytesKept
  BY DEF Inv, EntryInv, ReleasedBytesKept
<1> QED  BY <1>1, InvSpec, PTL

(* The bytes on disk are those the entries speak of.                       *)
THEOREM BytesFollowEntries == Spec => []ObjectsFollowEntries
<1>1. QuarantinedBytesPresent /\ DisposedIsUnlinked /\ ReleasedBytesKept
          => ObjectsFollowEntries
  BY DEF ObjectsFollowEntries
<1> QED  BY <1>1, BytesKept, DisposalUnlinks, ReleaseKeepsBytes, PTL

(* What was refused as positive is kept and kept long enough.              *)
THEOREM EvidenceIsKept == Spec => []EvidenceKept
<1>1. RejectedIsKept /\ KeptForRetention => EvidenceKept
  BY DEF EvidenceKept
<1> QED  BY <1>1, RejectionKept, RetentionKept, PTL

=============================================================================
