------------------------ MODULE ReferenceStoreProofs ------------------------
(***************************************************************************)
(* ReferenceStore, proved for any number of administrators, records and    *)
(* requests: first its types; then what the audit log is good for, as the  *)
(* tables and whatever a read returns can be found in it and it grows as   *)
(* AuditLedger says.                                                       *)
(***************************************************************************)
EXTENDS ReferenceStore, TLAPS, SequenceTheorems, WellFoundedInduction

Rows == [Records -> Row \cup {NoRow}]

Images == Image \cup {NoImage}

(* There is a largest row id: any table has finitely many rows.            *)
Bounded(rws) == \E b \in Nat : \A x \in Records : rws[x].id <= b

(* The tables, what is uncommitted, and what each slot holds.              *)
DataTypes ==
    /\ rows \in Rows
    /\ log \in Seq(Entry)
    /\ pend \in [rows : Rows, log : Seq(Entry)]
    /\ Bounded(rows)
    /\ Bounded(pend.rows)

SlotTypes ==
    /\ pc \in [Slots -> Step]
    /\ req \in [Slots -> Request]
    /\ seen \in [Slots -> Row \cup {NoRow}]
    /\ done \in [Slots -> Nat]
    /\ counts \in [Slots -> Counts]
    /\ reply \in [Slots -> Reply]

LockTypes ==
    /\ writer \in Slots \cup {NoSlot}
    /\ \A r \in Slots : Holds(r) <=> pc[r] \in Locked
    /\ writer = NoSlot => pend = NoPend

(* What a request is at each of its steps.                                 *)
StepOK(r) ==
    /\ pc[r] \in {"idle", "insert"} => seen[r] = NoRow /\ done[r] = 0
    /\ pc[r] = "insert" => req[r].op = "create"
    /\ pc[r] = "begin" => req[r].op \in {"update", "import"}
    /\ pc[r] = "change" => req[r].op = "update"
    /\ pc[r] = "items" => req[r].op = "import"
    /\ pc[r] \in {"find", "children", "remove"} => req[r].op = "delete"
    /\ pc[r] = "audit" => req[r].op \in {"create", "update", "delete"}
    /\ pc[r] \in {"snapshot", "lines"} => req[r].op = "get"
    /\ pc[r] \in {"begin", "change"} /\ req[r].op = "update" => req[r].target \in Records
    /\ pc[r] \in {"find", "children", "remove", "snapshot", "lines", "audit"} =>
           req[r].target \in Records
    /\ pc[r] \in {"children", "lines"} => seen[r] \in Row
    /\ req[r].op \in {"create", "update"} => Len(req[r].batch) = 1
    /\ req[r].op = "update" => req[r].batch[1].kind = req[r].kind
    /\ done[r] <= Len(req[r].batch)

TypeInv ==
    /\ DataTypes
    /\ SlotTypes
    /\ LockTypes
    /\ \A r \in Slots : StepOK(r)

-----------------------------------------------------------------------------
(* Lemmas about the values.                                                *)

(* A bounded, non-empty set of naturals has its Last.                      *)
LEMMA LastExists ==
    ASSUME NEW S \in SUBSET Nat, S # {}, NEW b \in Nat, \A n \in S : n <= b
    PROVE  Last(S) \in S /\ \A n \in S : n <= Last(S)
<1> DEFINE U == {n \in Nat : \A i \in S : i <= n}
<1>1. U \subseteq Nat /\ U # {}
  OBVIOUS
<1>2. PICK m \in U : \A n \in U : ~(<<n, m>> \in OpToRel(<, Nat))
  <2> HIDE DEF U
  <2> QED  BY <1>1, NatLessThanWellFounded, WFMin, Zenon
<1>3. \A n \in U : ~(n < m)
  <2> TAKE n \in U
  <2>1. n \in Nat /\ m \in Nat
    BY <1>1
  <2>2. n < m => <<n, m>> \in OpToRel(<, Nat)
    BY <2>1 DEF OpToRel
  <2> QED  BY <1>2, <2>2
<1>4. m \in S
  <2>1. SUFFICES ASSUME m \notin S PROVE FALSE
    OBVIOUS
  <2>2. PICK s \in S : TRUE
    OBVIOUS
  <2>3. m \in Nat /\ \A i \in S : i <= m /\ i # m /\ i \in Nat
    BY <1>2, <2>1
  <2>4. m # 0
    BY <2>2, <2>3
  <2>5. m - 1 \in U
    BY <2>3, <2>4
  <2> QED  BY <2>3, <2>4, <2>5, <1>3
<1>5. m \in S /\ \A i \in S : i <= m
  BY <1>2, <1>4
<1> QED  BY <1>5 DEF Last

LEMMA RowParts ==
    ASSUME NEW row \in Row \cup {NoRow}
    PROVE  row.image \in Images /\ row.id \in Nat
<1>1. CASE row \in Row
  BY <1>1 DEF Row, Images
<1>2. CASE row = NoRow
  BY <1>2 DEF NoRow, Images
<1> QED  BY <1>1, <1>2

LEMMA StoredParts ==
    ASSUME NEW rws \in Rows, NEW kind \in Kind, NEW x \in Records, Stored(rws, kind, x)
    PROVE  rws[x] \in Row /\ rws[x].image \in Image /\ rws[x].id \in Nat \ {0}
<1>1. rws[x] \in Row
  BY DEF Rows, Stored
<1> QED  BY <1>1 DEF Row

LEMMA NextIdType ==
    ASSUME NEW rws \in Rows, NEW kind \in Kind, Bounded(rws)
    PROVE  NextId(rws, kind) \in Nat \ {0}
<1> DEFINE used == {rws[x].id : x \in {y \in Records : Stored(rws, kind, y)}}
<1>1. PICK b \in Nat : \A x \in Records : rws[x].id <= b
  BY DEF Bounded
<1>2. \A n \in used : n \in Nat /\ n <= b
  BY <1>1, StoredParts
<1> DEFINE ids == used \cup {0}
<1>3. ids \in SUBSET Nat /\ ids # {} /\ \A n \in ids : n <= b
  BY <1>2
<1>4. Last(ids) \in Nat
  <2> HIDE DEF ids
  <2> QED  BY <1>3, LastExists
<1> QED  BY <1>4 DEF NextId

LEMMA NewImageType ==
    ASSUME NEW i \in Item
    PROVE  NewImage(i) \in Image
BY DEF NewImage, Item, Image

LEMMA ReplacedImageType ==
    ASSUME NEW image \in Image, NEW i \in Item
    PROVE  ReplacedImage(image, i) \in Image
BY DEF ReplacedImage, Item, Image

LEMMA NewRowType ==
    ASSUME NEW rws \in Rows, Bounded(rws), NEW i \in Item
    PROVE  NewRow(rws, NewImage(i)) \in Row
<1>1. NewImage(i) \in Image /\ NewImage(i).kind \in Kind
  BY NewImageType DEF Image
<1>2. NextId(rws, NewImage(i).kind) \in Nat \ {0}
  BY <1>1, NextIdType
<1> QED  BY <1>1, <1>2 DEF NewRow, Row

LEMMA ChildrenType ==
    ASSUME NEW rws \in Rows, NEW kind \in Kind, NEW n
    PROVE  Children(rws, kind, n) \in Contents \cup {NoContent}
<1> DEFINE parents == {x \in Records : Stored(rws, kind, x) /\ rws[x].id = n}
<1>1. CASE parents = {}
  BY <1>1 DEF Children
<1>2. CASE parents # {}
  <2>1. (CHOOSE x \in parents : TRUE) \in parents
    BY <1>2
  <2>2. \A x \in parents : rws[x].image \in Image
    BY StoredParts
  <2>3. rws[CHOOSE x \in parents : TRUE].image \in Image
    BY <2>1, <2>2
  <2>4. Children(rws, kind, n) = rws[CHOOSE x \in parents : TRUE].image.lines
    BY <1>2 DEF Children
  <2> QED  BY <2>3, <2>4 DEF Image
<1> QED  BY <1>1, <1>2

LEMMA WithLinesType ==
    ASSUME NEW row \in Row, NEW c \in Contents \cup {NoContent}
    PROVE  WithLines(row, c) \in Row
BY DEF WithLines, Row, Image

LEMMA PutType ==
    ASSUME NEW rws \in Rows, Bounded(rws), NEW x \in Records,
           NEW row \in Row \cup {NoRow}
    PROVE  /\ Put(rws, x, row) \in Rows
           /\ Bounded(Put(rws, x, row))
<1>1. Put(rws, x, row) \in Rows
  BY DEF Put, Rows
<1>2. PICK b \in Nat : \A y \in Records : rws[y].id <= b
  BY DEF Bounded
<1>3. row.id \in Nat /\ \A y \in Records : rws[y].id \in Nat
  BY RowParts DEF Rows
<1>4. \A y \in Records : Put(rws, x, row)[y].id <= b + row.id
  <2> TAKE y \in Records
  <2>1. CASE y = x
    BY <2>1, <1>2, <1>3 DEF Put, Rows
  <2>2. CASE y # x
    BY <2>2, <1>2, <1>3 DEF Put, Rows
  <2> QED  BY <2>1, <2>2
<1>5. b + row.id \in Nat
  BY <1>2, <1>3
<1> QED  BY <1>1, <1>4, <1>5 DEF Bounded

LEMMA AuditEntryType ==
    ASSUME NEW op \in AuditOperation, NEW x \in Records,
           NEW before \in Images, NEW after \in Images
    PROVE  AuditEntry(op, x, before, after) \in Entry
BY DEF AuditEntry, Entry, Images

LEMMA CountedType ==
    ASSUME NEW c \in Counts, NEW outcome \in {"created", "replaced", "skipped"}
    PROVE  [c EXCEPT ![outcome] = @ + 1] \in Counts
<1>1. CASE outcome = "created"
  BY <1>1 DEF Counts
<1>2. CASE outcome = "replaced"
  BY <1>2 DEF Counts
<1>3. CASE outcome = "skipped"
  BY <1>3 DEF Counts
<1> QED  BY <1>1, <1>2, <1>3

LEMMA BatchItem ==
    ASSUME NEW q \in Request, NEW n \in Nat, n < Len(q.batch)
    PROVE  q.batch[n + 1] \in Item
<1>1. q.batch \in Seq(Item)
  BY DEF Request
<1>2. n + 1 \in 1..Len(q.batch)
  BY <1>1, LenProperties
<1> QED  BY <1>1, <1>2, ElementOfSeq

LEMMA TypeInvParts == TypeInv => TypeOK
BY DEF TypeInv, TypeOK, DataTypes, SlotTypes, LockTypes, Rows

-----------------------------------------------------------------------------
(* Lemmas about moving one request along.                                  *)

(* The other slots are where they were.                                    *)
LEMMA Elsewhere ==
    ASSUME NEW r \in Slots, \A s \in Slots : StepOK(s), StepOK(r)',
           \A s \in Slots \ {r} : /\ pc'[s] = pc[s] /\ req'[s] = req[s]
                                   /\ seen'[s] = seen[s] /\ done'[s] = done[s]
    PROVE  \A s \in Slots : StepOK(s)'
<1> TAKE s \in Slots
<1>1. CASE s # r
  BY <1>1 DEF StepOK
<1> QED  BY <1>1

LEMMA LockKept ==
    ASSUME LockTypes, SlotTypes, NEW r \in Slots, NEW step, Goto(r, step),
           writer' = writer, pend' = pend \/ pc[r] \in Locked,
           step \in Locked <=> pc[r] \in Locked
    PROVE  LockTypes'
<1>1. \A s \in Slots : pc'[s] \in Locked <=> pc[s] \in Locked
  BY DEF Goto, SlotTypes
<1>2. writer' = NoSlot => pend' = NoPend
  BY SlotAssumption DEF LockTypes, Holds
<1> QED  BY <1>1, <1>2 DEF LockTypes, Holds

LEMMA LockTaken ==
    ASSUME LockTypes, SlotTypes, NEW r \in Slots, NEW step, Goto(r, step),
           Lock(r), step \in Locked
    PROVE  LockTypes'
<1>1. \A s \in Slots : pc'[s] \in Locked <=> s = r
  BY SlotAssumption DEF Goto, SlotTypes, LockTypes, Holds, Lock
<1> QED  BY <1>1, SlotAssumption DEF LockTypes, Holds, Lock

LEMMA LockFreed ==
    ASSUME LockTypes, SlotTypes, NEW r \in Slots, NEW step, Goto(r, step),
           EndTransaction, pc[r] \in Locked, step \notin Locked
    PROVE  LockTypes'
<1>1. \A s \in Slots : pc'[s] \notin Locked
  BY DEF Goto, SlotTypes, LockTypes, Holds
<1> QED  BY <1>1, SlotAssumption DEF LockTypes, Holds, EndTransaction

LEMMA Answered ==
    ASSUME SlotTypes, \A s \in Slots : StepOK(s), NEW r \in Slots,
           NEW kind \in {"ok", "not_found", "conflict", "unavailable"},
           NEW image \in Images, NEW c \in Counts, Answer(r, kind, image, c)
    PROVE  SlotTypes' /\ \A s \in Slots : StepOK(s)'
<1>1. SomeRequest \in Request
  <2>1. <<>> \in Seq(Item)
    OBVIOUS
  <2> QED  BY <2>1 DEF SomeRequest, Request, Operation, Kind
<1>2. [kind |-> kind, image |-> image, counts |-> c] \in Reply
  BY DEF Reply, Images
<1>3. NoCounts \in Counts /\ "idle" \in Step
  BY DEF NoCounts, Counts, Step
<1>4. SlotTypes'
  BY <1>1, <1>2, <1>3 DEF SlotTypes, Answer, Goto
<1>5. StepOK(r)'
  <2>1. /\ pc'[r] = "idle" /\ req'[r] = SomeRequest
        /\ done'[r] = 0 /\ seen'[r] = NoRow
    BY DEF SlotTypes, Answer, Goto
  <2>2. Len(SomeRequest.batch) = 0 /\ SomeRequest.op = "get"
    BY DEF SomeRequest
  <2> QED  BY <2>1, <2>2 DEF StepOK
<1>6. \A s \in Slots \ {r} : /\ pc'[s] = pc[s] /\ req'[s] = req[s]
                             /\ seen'[s] = seen[s] /\ done'[s] = done[s]
  BY DEF SlotTypes, Answer, Goto
<1> QED  BY <1>4, <1>5, <1>6, Elsewhere

(* Refuse, and what it leaves alone.                                       *)
LEMMA RefusedTypes ==
    ASSUME SlotTypes, \A s \in Slots : StepOK(s), NEW r \in Slots,
           NEW kind \in {"not_found", "conflict", "unavailable"}, Refuse(r, kind)
    PROVE  SlotTypes' /\ \A s \in Slots : StepOK(s)'
BY Answered DEF Refuse, Images, NoCounts, Counts

(* One slot goes on to its next step.                                      *)
LEMMA Moved ==
    ASSUME SlotTypes, NEW r \in Slots, NEW step \in Step, Goto(r, step),
           NEW q \in Request, req' = [req EXCEPT ![r] = q],
           NEW row \in Row \cup {NoRow}, seen' = [seen EXCEPT ![r] = row],
           UNCHANGED <<done, counts, reply>>
    PROVE  /\ SlotTypes'
           /\ pc'[r] = step /\ req'[r] = q /\ seen'[r] = row /\ done'[r] = done[r]
           /\ \A s \in Slots \ {r} : /\ pc'[s] = pc[s] /\ req'[s] = req[s]
                                      /\ seen'[s] = seen[s] /\ done'[s] = done[s]
BY DEF SlotTypes, Goto

(* A slot keeps its request, or what it has read.                          *)
LEMMA Same ==
    ASSUME SlotTypes, NEW r \in Slots
    PROVE  /\ req[r] \in Request /\ req = [req EXCEPT ![r] = req[r]]
           /\ seen[r] \in Row \cup {NoRow} /\ seen = [seen EXCEPT ![r] = seen[r]]
           /\ req[r].kind \in Kind /\ req[r].batch \in Seq(Item)
           /\ done[r] \in Nat
BY DEF SlotTypes, Request

-----------------------------------------------------------------------------
(* Every step keeps the types.                                             *)

LEMMA InitTypes == Init => TypeInv
<1> SUFFICES ASSUME Init PROVE TypeInv
  OBVIOUS
<1> USE DEF Init
<1>1. NoRow \in Row \cup {NoRow} /\ rows \in Rows /\ NoPend.rows \in Rows
  BY DEF Rows, NoPend
<1>2. <<>> \in Seq(Entry) /\ <<>> \in Seq(Item)
  OBVIOUS
<1>3. Bounded(rows) /\ Bounded(NoPend.rows)
  <2>1. \A x \in Records : rows[x] = NoRow /\ NoPend.rows[x] = NoRow
    BY DEF NoPend
  <2>2. NoRow.id <= 0 /\ 0 \in Nat
    BY DEF NoRow
  <2> QED  BY <2>1, <2>2 DEF Bounded
<1>4. DataTypes
  BY <1>1, <1>2, <1>3 DEF DataTypes, NoPend
<1>5. SomeRequest \in Request /\ NoCounts \in Counts /\ NoReply \in Reply
  BY <1>2 DEF SomeRequest, Request, Operation, Kind, NoCounts, Counts, NoReply, Reply
<1>6. SlotTypes
  BY <1>5 DEF SlotTypes, Step
<1>7. LockTypes
  BY SlotAssumption DEF LockTypes, Holds, Locked
<1>8. \A r \in Slots : StepOK(r)
  BY DEF StepOK, SomeRequest
<1> QED  BY <1>4, <1>6, <1>7, <1>8 DEF TypeInv

LEMMA ArriveTypes ==
    ASSUME TypeInv, NEW r \in Slots, Arrive(r)
    PROVE  TypeInv'
<1> USE DEF TypeInv
<1>1. PICK q \in Offers : /\ req' = [req EXCEPT ![r] = q]
                          /\ Goto(r, FirstStep[q.op])
  BY DEF Arrive
<1>2. pc[r] = "idle" /\ reply' = [reply EXCEPT ![r] = NoReply]
      /\ UNCHANGED <<rows, log, writer, pend, seen, done, counts>>
  BY DEF Arrive
<1>3. q \in Request /\ ValidRequest(q)
  BY OfferAssumption DEF ValidRequest
<1>4. q.op \in Operation
  BY <1>3 DEF Request
<1>5. FirstStep[q.op] \in {"insert", "begin", "find", "snapshot"}
  BY <1>4 DEF FirstStep, Operation
<1>6. NoReply \in Reply
  BY DEF NoReply, NoCounts, Counts, Reply
<1>7. SlotTypes'
  BY <1>1, <1>2, <1>3, <1>5, <1>6 DEF SlotTypes, Goto, Step
<1>8. DataTypes'
  BY <1>2 DEF DataTypes, Bounded
<1>9. LockTypes'
  BY <1>1, <1>2, <1>5, LockKept DEF Locked
<1>10. pc'[r] = FirstStep[q.op] /\ req'[r] = q /\ done'[r] = done[r]
  BY <1>1, <1>2 DEF SlotTypes, Goto
<1>11. /\ done'[r] = 0 /\ seen'[r] = NoRow
       /\ 0 <= Len(q.batch)
  BY <1>2, <1>3, LenProperties DEF StepOK, Request
<1>12. StepOK(r)'
  BY <1>3, <1>4, <1>10, <1>11 DEF StepOK, FirstStep, Operation, ValidRequest, Request
<1>13. \A s \in Slots \ {r} : /\ pc'[s] = pc[s] /\ req'[s] = req[s]
                              /\ seen'[s] = seen[s] /\ done'[s] = done[s]
  BY <1>1, <1>2 DEF SlotTypes, Goto
<1> QED  BY <1>7, <1>8, <1>9, <1>12, <1>13, Elsewhere

LEMMA NoPendTypes == NoPend \in [rows : Rows, log : Seq(Entry)] /\ Bounded(NoPend.rows)
<1>1. NoPend.rows \in Rows /\ NoPend.log \in Seq(Entry)
  BY DEF NoPend, Rows
<1>2. \A x \in Records : NoPend.rows[x] = NoRow
  BY DEF NoPend
<1>3. NoRow.id <= 0 /\ 0 \in Nat
  BY DEF NoRow
<1> QED  BY <1>1, <1>2, <1>3 DEF Bounded, NoPend

(* A transaction is given up and the client refused.                       *)
LEMMA FreedTypes ==
    ASSUME TypeInv, NEW r \in Slots, pc[r] \in Locked,
           NEW kind \in {"not_found", "conflict", "unavailable"}, Refuse(r, kind),
           EndTransaction, UNCHANGED <<rows, log>>
    PROVE  TypeInv'
<1> USE DEF TypeInv
<1>1. SlotTypes' /\ \A s \in Slots : StepOK(s)'
  BY RefusedTypes
<1>2. NoPend \in [rows : Rows, log : Seq(Entry)] /\ Bounded(NoPend.rows)
  BY NoPendTypes
<1>3. DataTypes'
  BY <1>2 DEF DataTypes, Bounded, EndTransaction
<1>4. LockTypes'
  BY LockFreed DEF Refuse, Answer, Locked
<1> QED  BY <1>1, <1>3, <1>4

(* A transaction ends with an answer, and its writes may be committed.     *)
LEMMA AnsweredTypes ==
    ASSUME TypeInv, NEW r \in Slots, pc[r] \in Locked,
           Answer(r, "ok", NoImage, counts[r]), EndTransaction,
           rows' \in Rows, log' \in Seq(Entry), Bounded(rows')
    PROVE  TypeInv'
<1> USE DEF TypeInv
<1>1. NoImage \in Images /\ counts[r] \in Counts
  BY DEF Images, SlotTypes
<1>2. SlotTypes' /\ \A s \in Slots : StepOK(s)'
  BY <1>1, Answered
<1>3. NoPend \in [rows : Rows, log : Seq(Entry)] /\ Bounded(NoPend.rows)
  BY NoPendTypes
<1>4. DataTypes'
  BY <1>3 DEF DataTypes, Bounded, EndTransaction
<1>5. LockTypes'
  BY LockFreed DEF Answer, Locked
<1> QED  BY <1>2, <1>4, <1>5

LEMMA InsertTypes ==
    ASSUME TypeInv, NEW r \in Slots, Insert(r)
    PROVE  TypeInv'
<1> USE DEF TypeInv
<1> DEFINE image == NewImage(req[r].batch[1])
<1>1. /\ pc[r] = "insert" /\ writer = NoSlot
      /\ UNCHANGED <<rows, log>>
  BY DEF Insert
<1>2. CASE Refuse(r, "conflict") /\ UNCHANGED <<writer, pend>>
  <2>1. SlotTypes' /\ \A s \in Slots : StepOK(s)'
    BY <1>2, RefusedTypes
  <2>2. DataTypes'
    BY <1>1, <1>2 DEF DataTypes, Bounded
  <2>3. LockTypes'
    BY <1>1, <1>2, LockKept DEF Refuse, Answer, Locked
  <2> QED  BY <2>1, <2>2, <2>3
<1>3. CASE /\ \E x \in Unused(log) :
                 /\ req' = [req EXCEPT ![r].target = x]
                 /\ pend' = [rows |-> Put(rows, x, NewRow(rows, image)), log |-> log]
           /\ Lock(r)
           /\ Goto(r, "audit")
           /\ UNCHANGED <<seen, done, counts, reply>>
  <2>1. PICK x \in Unused(log) :
               /\ req' = [req EXCEPT ![r].target = x]
               /\ pend' = [rows |-> Put(rows, x, NewRow(rows, image)), log |-> log]
    BY <1>3
  <2>2. x \in Records
    BY DEF Unused
  <2> DEFINE q == [req[r] EXCEPT !.target = x]
  <2>3. /\ q \in Request /\ q.target = x /\ q.op = "create"
        /\ q.batch = req[r].batch /\ req' = [req EXCEPT ![r] = q]
    BY <1>1, <2>1, <2>2, Same DEF SlotTypes, Request, StepOK
  <2>4. req[r].batch[1] \in Item
    BY <1>1, Same, ElementOfSeq DEF StepOK
  <2>5. NewRow(rows, image) \in Row
    BY <2>4, NewRowType DEF DataTypes
  <2>6. DataTypes'
    BY <1>1, <2>1, <2>2, <2>5, PutType DEF DataTypes
  <2> HIDE DEF q
  <2>7. /\ SlotTypes'
        /\ pc'[r] = "audit" /\ req'[r] = q /\ seen'[r] = seen[r] /\ done'[r] = done[r]
        /\ \A s \in Slots \ {r} : /\ pc'[s] = pc[s] /\ req'[s] = req[s]
                                   /\ seen'[s] = seen[s] /\ done'[s] = done[s]
    <3>1. "audit" \in Step /\ seen' = [seen EXCEPT ![r] = seen[r]]
      BY <1>3, Same DEF Step
    <3> QED  BY <1>3, <2>3, <3>1, Same, Moved
  <2>8. StepOK(r)'
    BY <1>1, <2>2, <2>3, <2>7 DEF StepOK
  <2>9. LockTypes'
    BY <1>3, LockTaken DEF Locked
  <2> QED  BY <2>6, <2>7, <2>8, <2>9, Elsewhere
<1> QED  BY <1>2, <1>3 DEF Insert

LEMMA BeginTypes ==
    ASSUME TypeInv, NEW r \in Slots, Begin(r)
    PROVE  TypeInv'
<1> USE DEF TypeInv
<1> DEFINE step == IF req[r].op = "update" THEN "change" ELSE "items"
<1>1. /\ pc[r] = "begin" /\ Lock(r) /\ Goto(r, step)
      /\ pend' = [rows |-> rows, log |-> log]
      /\ UNCHANGED <<rows, log, req, seen, done, counts, reply>>
  BY DEF Begin
<1>2. /\ SlotTypes'
      /\ pc'[r] = step /\ req'[r] = req[r] /\ seen'[r] = seen[r] /\ done'[r] = done[r]
      /\ \A s \in Slots \ {r} : /\ pc'[s] = pc[s] /\ req'[s] = req[s]
                                 /\ seen'[s] = seen[s] /\ done'[s] = done[s]
  <2>1. step \in Step
    BY DEF Step
  <2>2. req' = [req EXCEPT ![r] = req[r]] /\ seen' = [seen EXCEPT ![r] = seen[r]]
    BY <1>1, Same
  <2>3. Goto(r, step) /\ UNCHANGED <<done, counts, reply>>
    BY <1>1
  <2> HIDE DEF step
  <2> QED  BY <2>1, <2>2, <2>3, Same, Moved
<1>3. StepOK(r)'
  BY <1>1, <1>2 DEF StepOK
<1>4. DataTypes'
  BY <1>1 DEF DataTypes, Bounded
<1>5. LockTypes'
  BY <1>1, LockTaken DEF Locked
<1> QED  BY <1>2, <1>3, <1>4, <1>5, Elsewhere

LEMMA ChangeTypes ==
    ASSUME TypeInv, NEW r \in Slots, Change(r)
    PROVE  TypeInv'
<1> USE DEF TypeInv
<1> DEFINE q == req[r]
           old == pend.rows[q.target]
           image == ReplacedImage(old.image, q.batch[1])
<1>1. pc[r] = "change" /\ UNCHANGED <<rows, log>>
  BY DEF Change
<1>2. CASE Refuse(r, "not_found") /\ EndTransaction
  BY <1>1, <1>2, FreedTypes DEF Locked
<1>3. CASE Refuse(r, "conflict") /\ EndTransaction
  BY <1>1, <1>3, FreedTypes DEF Locked
<1>4. CASE /\ Stored(pend.rows, q.kind, q.target)
           /\ pend' = [rows |-> Put(pend.rows, q.target, [id |-> old.id, image |-> image]),
                       log |-> pend.log]
           /\ seen' = [seen EXCEPT ![r] = old]
           /\ Goto(r, "audit")
           /\ UNCHANGED <<writer, req, done, counts, reply>>
  <2>1. q.target \in Records /\ q.kind \in Kind /\ pend.rows \in Rows
    BY <1>1, Same DEF StepOK, DataTypes
  <2>2. old \in Row /\ old.image \in Image /\ old.id \in Nat \ {0}
    BY <1>4, <2>1, StoredParts
  <2>3. q.batch[1] \in Item
    BY <1>1, Same, ElementOfSeq DEF StepOK
  <2>4. [id |-> old.id, image |-> image] \in Row
    BY <2>2, <2>3, ReplacedImageType DEF Row
  <2>5. DataTypes'
    BY <1>1, <1>4, <2>1, <2>4, PutType DEF DataTypes
  <2>6. /\ SlotTypes'
        /\ pc'[r] = "audit" /\ req'[r] = req[r] /\ seen'[r] = old /\ done'[r] = done[r]
        /\ \A s \in Slots \ {r} : /\ pc'[s] = pc[s] /\ req'[s] = req[s]
                                   /\ seen'[s] = seen[s] /\ done'[s] = done[s]
    <3>1. "audit" \in Step /\ req' = [req EXCEPT ![r] = req[r]]
      BY <1>4, Same DEF Step
    <3> HIDE DEF old
    <3> QED  BY <1>4, <2>2, <3>1, Same, Moved
  <2>7. StepOK(r)'
    BY <1>1, <2>6 DEF StepOK
  <2>8. LockTypes'
    BY <1>1, <1>4, LockKept DEF Locked
  <2> QED  BY <2>5, <2>6, <2>7, <2>8, Elsewhere
<1> QED  BY <1>2, <1>3, <1>4 DEF Change

(* A refusal that holds no lock and opens nothing.                         *)
LEMMA RefusedOnly ==
    ASSUME TypeInv, NEW r \in Slots, pc[r] \notin Locked,
           NEW kind \in {"not_found", "conflict", "unavailable"}, Refuse(r, kind),
           UNCHANGED <<rows, log, writer, pend>>
    PROVE  TypeInv'
<1> USE DEF TypeInv
<1>1. SlotTypes' /\ \A s \in Slots : StepOK(s)'
  BY RefusedTypes
<1>2. DataTypes'
  BY DEF DataTypes, Bounded
<1>3. LockTypes'
  BY LockKept DEF Refuse, Answer, Locked
<1> QED  BY <1>1, <1>2, <1>3

(* Reads: a row is read and the request goes on without the lock.          *)
LEMMA ReadTypes ==
    ASSUME TypeInv, NEW r \in Slots, NEW step \in {"children", "remove", "lines"},
           pc[r] \in {"find", "children", "snapshot"},
           pc[r] = "snapshot" <=> step = "lines",
           Goto(r, step), NEW row \in Row, seen' = [seen EXCEPT ![r] = row],
           UNCHANGED <<rows, log, writer, pend, req, done, counts, reply>>
    PROVE  TypeInv'
<1> USE DEF TypeInv
<1>1. /\ SlotTypes'
      /\ pc'[r] = step /\ req'[r] = req[r] /\ seen'[r] = row /\ done'[r] = done[r]
      /\ \A s \in Slots \ {r} : /\ pc'[s] = pc[s] /\ req'[s] = req[s]
                                 /\ seen'[s] = seen[s] /\ done'[s] = done[s]
  <2>1. step \in Step /\ req' = [req EXCEPT ![r] = req[r]] /\ req[r] \in Request
    BY Same DEF Step
  <2>2. UNCHANGED <<done, counts, reply>> /\ SlotTypes /\ row \in Row \cup {NoRow}
    OBVIOUS
  <2> QED  BY <2>1, <2>2, Moved
<1>2. StepOK(r)'
  BY <1>1 DEF StepOK
<1>3. DataTypes'
  BY DEF DataTypes, Bounded
<1>4. LockTypes'
  BY LockKept DEF Locked
<1> QED  BY <1>1, <1>2, <1>3, <1>4, Elsewhere

LEMMA FindTypes ==
    ASSUME TypeInv, NEW r \in Slots, Find(r) \/ ReadRow(r)
    PROVE  TypeInv'
<1> DEFINE step == IF pc[r] = "find" THEN "children" ELSE "lines"
<1>1. /\ pc[r] \in {"find", "snapshot"}
      /\ UNCHANGED <<rows, log, writer, pend>>
  BY DEF Find, ReadRow
<1>2. CASE Refuse(r, "not_found")
  BY <1>1, <1>2, RefusedOnly DEF Locked
<1>3. CASE /\ Stored(rows, req[r].kind, req[r].target)
           /\ seen' = [seen EXCEPT ![r] = rows[req[r].target]]
           /\ Goto(r, step)
           /\ UNCHANGED <<req, done, counts, reply>>
  <2>1. req[r].target \in Records /\ req[r].kind \in Kind /\ rows \in Rows
    BY <1>1, Same DEF TypeInv, StepOK, DataTypes
  <2>2. rows[req[r].target] \in Row
    BY <1>3, <2>1, StoredParts
  <2>3. step \in {"children", "remove", "lines"} /\ (pc[r] = "snapshot" <=> step = "lines")
    BY <1>1
  <2> HIDE DEF step
  <2> QED  BY <1>1, <1>3, <2>2, <2>3, ReadTypes
<1> QED  BY <1>1, <1>2, <1>3 DEF Find, ReadRow

LEMMA FindChildrenTypes ==
    ASSUME TypeInv, NEW r \in Slots, FindChildren(r)
    PROVE  TypeInv'
<1> DEFINE row == WithLines(seen[r], Children(rows, req[r].kind, seen[r].id))
<1>1. /\ pc[r] = "children" /\ Goto(r, "remove")
      /\ seen' = [seen EXCEPT ![r] = row]
      /\ UNCHANGED <<rows, log, writer, pend, req, done, counts, reply>>
  BY DEF FindChildren
<1>2. seen[r] \in Row /\ req[r].kind \in Kind /\ rows \in Rows
  BY <1>1, Same DEF TypeInv, StepOK, DataTypes
<1>3. row \in Row
  BY <1>2, ChildrenType, WithLinesType
<1> HIDE DEF row
<1> QED  BY <1>1, <1>3, ReadTypes

LEMMA ReadLinesTypes ==
    ASSUME TypeInv, NEW r \in Slots, ReadLines(r)
    PROVE  TypeInv'
<1> USE DEF TypeInv
<1> DEFINE row == WithLines(seen[r], Children(rows, req[r].kind, seen[r].id))
<1>1. /\ pc[r] = "lines" /\ Answer(r, "ok", row.image, NoCounts)
      /\ UNCHANGED <<rows, log, writer, pend>>
  BY DEF ReadLines
<1>2. seen[r] \in Row /\ req[r].kind \in Kind /\ rows \in Rows
  BY <1>1, Same DEF StepOK, DataTypes
<1>3. row \in Row
  BY <1>2, ChildrenType, WithLinesType
<1> HIDE DEF row
<1>4. row.image \in Images /\ NoCounts \in Counts
  BY <1>3 DEF Row, Images, NoCounts, Counts
<1>5. SlotTypes' /\ \A s \in Slots : StepOK(s)'
  BY <1>1, <1>4, Answered
<1>6. DataTypes'
  BY <1>1 DEF DataTypes, Bounded
<1>7. LockTypes'
  BY <1>1, LockKept DEF Answer, Locked
<1> QED  BY <1>5, <1>6, <1>7

LEMMA RemoveTypes ==
    ASSUME TypeInv, NEW r \in Slots, Remove(r)
    PROVE  TypeInv'
<1> USE DEF TypeInv
<1>1. /\ pc[r] = "remove" /\ Lock(r) /\ Goto(r, "audit")
      /\ pend' = [rows |-> Put(rows, req[r].target, NoRow), log |-> log]
      /\ UNCHANGED <<rows, log, req, seen, done, counts, reply>>
  BY DEF Remove
<1>2. req[r].target \in Records
  BY <1>1 DEF StepOK
<1>3. /\ SlotTypes'
      /\ pc'[r] = "audit" /\ req'[r] = req[r] /\ seen'[r] = seen[r] /\ done'[r] = done[r]
      /\ \A s \in Slots \ {r} : /\ pc'[s] = pc[s] /\ req'[s] = req[s]
                                 /\ seen'[s] = seen[s] /\ done'[s] = done[s]
  <2>1. /\ "audit" \in Step
        /\ req' = [req EXCEPT ![r] = req[r]] /\ seen' = [seen EXCEPT ![r] = seen[r]]
    BY <1>1, Same DEF Step
  <2>2. Goto(r, "audit") /\ UNCHANGED <<done, counts, reply>>
    BY <1>1
  <2> QED  BY <2>1, <2>2, Same, Moved
<1>4. StepOK(r)'
  BY <1>1, <1>2, <1>3 DEF StepOK
<1>5. DataTypes'
  BY <1>1, <1>2, PutType DEF DataTypes, Bounded
<1>6. LockTypes'
  BY <1>1, LockTaken DEF Locked
<1> QED  BY <1>3, <1>4, <1>5, <1>6, Elsewhere

LEMMA AuditTypes ==
    ASSUME TypeInv, NEW r \in Slots, Audit(r)
    PROVE  TypeInv'
<1> USE DEF TypeInv
<1> DEFINE entry == AuditEntry(req[r].op, req[r].target, seen[r].image,
                               pend.rows[req[r].target].image)
<1>1. /\ pc[r] = "audit" /\ Goto(r, "commit")
      /\ pend' = [rows |-> pend.rows, log |-> Append(pend.log, entry)]
      /\ UNCHANGED <<rows, log, writer, req, seen, done, counts, reply>>
  BY DEF Audit
<1>2. /\ req[r].target \in Records /\ req[r].op \in AuditOperation
      /\ pend.rows \in Rows /\ pend.log \in Seq(Entry)
  BY <1>1 DEF StepOK, DataTypes, AuditOperation
<1>3. seen[r].image \in Images /\ pend.rows[req[r].target].image \in Images
  BY <1>2, Same, RowParts DEF Rows
<1>4. entry \in Entry
  BY <1>2, <1>3, AuditEntryType
<1> HIDE DEF entry
<1>5. DataTypes'
  BY <1>1, <1>2, <1>4, AppendProperties DEF DataTypes, Bounded
<1>6. /\ SlotTypes'
      /\ pc'[r] = "commit" /\ req'[r] = req[r] /\ seen'[r] = seen[r] /\ done'[r] = done[r]
      /\ \A s \in Slots \ {r} : /\ pc'[s] = pc[s] /\ req'[s] = req[s]
                                 /\ seen'[s] = seen[s] /\ done'[s] = done[s]
  <2>1. /\ "commit" \in Step
        /\ req' = [req EXCEPT ![r] = req[r]] /\ seen' = [seen EXCEPT ![r] = seen[r]]
    BY <1>1, Same DEF Step
  <2>2. Goto(r, "commit") /\ UNCHANGED <<done, counts, reply>>
    BY <1>1
  <2> QED  BY <2>1, <2>2, Same, Moved
<1>7. StepOK(r)'
  BY <1>1, <1>6 DEF StepOK
<1>8. LockTypes'
  BY <1>1, LockKept DEF Locked
<1> QED  BY <1>5, <1>6, <1>7, <1>8, Elsewhere

(* One record of an import is dealt with.                                  *)
LEMMA CountedTypes ==
    ASSUME TypeInv, NEW r \in Slots, Importing(r),
           NEW outcome \in {"created", "replaced", "skipped"}, Counted(r, outcome),
           pend' \in [rows : Rows, log : Seq(Entry)], Bounded(pend'.rows)
    PROVE  TypeInv'
<1> USE DEF TypeInv
<1>1. /\ done' = [done EXCEPT ![r] = done[r] + 1]
      /\ counts' = [counts EXCEPT ![r] = [counts[r] EXCEPT ![outcome] = @ + 1]]
      /\ UNCHANGED <<rows, log, writer, pc, req, seen, reply>>
  BY DEF Counted, SlotTypes
<1>2. pc[r] = "items" /\ done[r] < Len(req[r].batch)
  BY DEF Importing
<1>3. counts[r] \in Counts
  BY DEF SlotTypes
<1>4. [counts[r] EXCEPT ![outcome] = @ + 1] \in Counts
  BY <1>3, CountedType
<1>5. SlotTypes'
  BY <1>1, <1>4 DEF SlotTypes
<1>6. DataTypes'
  BY <1>1 DEF DataTypes, Bounded
<1>7. LockTypes'
  <2>1. writer # NoSlot
    BY <1>2, SlotAssumption DEF LockTypes, Holds, Locked
  <2> QED  BY <1>1, <2>1 DEF LockTypes, Holds
<1>8. StepOK(r)'
  <2>1. done'[r] = done[r] + 1 /\ done[r] \in Nat /\ Len(req[r].batch) \in Nat
    BY <1>1, Same, LenProperties DEF SlotTypes
  <2> QED  BY <1>1, <1>2, <2>1 DEF StepOK
<1>9. \A s \in Slots \ {r} : /\ pc'[s] = pc[s] /\ req'[s] = req[s]
                             /\ seen'[s] = seen[s] /\ done'[s] = done[s]
  BY <1>1 DEF SlotTypes
<1> QED  BY <1>5, <1>6, <1>7, <1>8, <1>9, Elsewhere

LEMMA ApplyTypes ==
    ASSUME TypeInv, NEW r \in Slots, NEW x \in Records, NEW row \in Row, Apply(r, x, row)
    PROVE  pend' \in [rows : Rows, log : Seq(Entry)] /\ Bounded(pend'.rows)
<1> DEFINE entry == AuditEntry("import", x, Before(r, x), row.image)
<1>1. pend.rows \in Rows /\ pend.log \in Seq(Entry) /\ Bounded(pend.rows)
  BY DEF TypeInv, DataTypes
<1>2. Before(r, x) \in Images /\ row.image \in Images
  BY <1>1, RowParts DEF Before, Rows
<1>3. entry \in Entry
  BY <1>2, AuditEntryType DEF AuditOperation
<1>4. pend' = [rows |-> Put(pend.rows, x, row),
               log |-> IF req[r].dryRun THEN pend.log ELSE Append(pend.log, entry)]
  BY DEF Apply
<1> HIDE DEF entry
<1>5. Append(pend.log, entry) \in Seq(Entry)
  BY <1>1, <1>3, AppendProperties
<1> QED  BY <1>1, <1>4, <1>5, PutType

LEMMA ImportTypes ==
    ASSUME TypeInv, NEW r \in Slots, Import(r)
    PROVE  TypeInv'
<1> USE DEF TypeInv
<1>1. pend.rows \in Rows /\ pend \in [rows : Rows, log : Seq(Entry)] /\ Bounded(pend.rows)
  BY DEF DataTypes
<1>2. Importing(r) => Current(r) \in Item
  BY Same, BatchItem DEF Importing, Current
<1>3. CASE ImportNew(r)
  <2>1. PICK x \in Records : Apply(r, x, NewRow(pend.rows, NewImage(Current(r))))
    BY <1>3 DEF ImportNew, Unused
  <2>2. Importing(r) /\ Counted(r, "created")
    BY <1>3 DEF ImportNew
  <2>3. NewRow(pend.rows, NewImage(Current(r))) \in Row
    BY <1>1, <1>2, <2>2, NewRowType
  <2> QED  BY <2>1, <2>2, <2>3, ApplyTypes, CountedTypes
<1>4. CASE ImportOver(r)
  <2> DEFINE row(x) == [id |-> pend.rows[x].id,
                        image |-> ReplacedImage(pend.rows[x].image, Current(r))]
  <2>1. PICK x \in SameExternal(pend.rows, Current(r)) : Apply(r, x, row(x))
    BY <1>4 DEF ImportOver
  <2>2. Importing(r) /\ Counted(r, "replaced")
    BY <1>4 DEF ImportOver
  <2>3. Current(r) \in Item /\ Current(r).kind \in Kind
    BY <1>2, <2>2 DEF Item
  <2>4. x \in Records /\ Stored(pend.rows, Current(r).kind, x)
    BY DEF SameExternal
  <2>5. pend.rows[x].image \in Image /\ pend.rows[x].id \in Nat \ {0}
    BY <1>1, <2>3, <2>4, StoredParts
  <2>6. row(x) \in Row
    BY <2>3, <2>5, ReplacedImageType DEF Row
  <2> HIDE DEF row
  <2> QED  BY <2>1, <2>2, <2>4, <2>6, ApplyTypes, CountedTypes
<1>5. CASE ImportNothing(r)
  BY <1>1, <1>5, CountedTypes DEF ImportNothing
<1>6. CASE ImportConflict(r)
  BY <1>6, FreedTypes DEF ImportConflict, Importing, Locked
<1>7. CASE ImportEnd(r)
  <2>1. pc[r] = "items" /\ done[r] = Len(req[r].batch) /\ UNCHANGED <<rows, log>>
    BY <1>7 DEF ImportEnd
  <2>2. CASE Answer(r, "ok", NoImage, counts[r]) /\ EndTransaction
    <3>1. rows' \in Rows /\ log' \in Seq(Entry) /\ Bounded(rows')
      BY <2>1 DEF DataTypes, Bounded
    <3> QED  BY <2>1, <2>2, <3>1, AnsweredTypes DEF Locked
  <2>3. CASE Goto(r, "commit") /\ UNCHANGED <<writer, pend, req, seen, done, counts, reply>>
    <3>1. /\ SlotTypes'
          /\ pc'[r] = "commit" /\ req'[r] = req[r] /\ seen'[r] = seen[r]
          /\ done'[r] = done[r]
          /\ \A s \in Slots \ {r} : /\ pc'[s] = pc[s] /\ req'[s] = req[s]
                                     /\ seen'[s] = seen[s] /\ done'[s] = done[s]
      <4>1. /\ "commit" \in Step
            /\ req' = [req EXCEPT ![r] = req[r]] /\ seen' = [seen EXCEPT ![r] = seen[r]]
        BY <2>3, Same DEF Step
      <4>2. Goto(r, "commit") /\ UNCHANGED <<done, counts, reply>>
        BY <2>3
      <4> QED  BY <4>1, <4>2, Same, Moved
    <3>2. StepOK(r)'
      BY <2>1, <3>1 DEF StepOK
    <3>3. DataTypes'
      BY <2>1, <2>3 DEF DataTypes, Bounded
    <3>4. LockTypes'
      BY <2>1, <2>3, LockKept DEF Locked
    <3> QED  BY <3>1, <3>2, <3>3, <3>4, Elsewhere
  <2> QED  BY <1>7, <2>2, <2>3 DEF ImportEnd
<1> QED  BY <1>3, <1>4, <1>5, <1>6, <1>7 DEF Import

LEMMA CommitTypes ==
    ASSUME TypeInv, NEW r \in Slots, Commit(r)
    PROVE  TypeInv'
<1>1. /\ pc[r] = "commit" /\ rows' = pend.rows /\ log' = pend.log
      /\ EndTransaction /\ Answer(r, "ok", NoImage, counts[r])
  BY DEF Commit
<1>2. /\ rows' \in Rows /\ log' \in Seq(Entry) /\ Bounded(rows')
  BY <1>1 DEF TypeInv, DataTypes
<1> QED  BY <1>1, <1>2, AnsweredTypes DEF Locked

LEMMA FailTypes ==
    ASSUME TypeInv, NEW r \in Slots, Fail(r)
    PROVE  TypeInv'
<1>1. /\ pc[r] # "idle" /\ Refuse(r, "unavailable") /\ UNCHANGED <<rows, log>>
  BY DEF Fail
<1>2. CASE pc[r] \in Locked
  <2>1. Holds(r)
    BY <1>2 DEF TypeInv, LockTypes
  <2> QED  BY <1>1, <1>2, <2>1, FreedTypes DEF Fail
<1>3. CASE pc[r] \notin Locked
  <2>1. ~Holds(r)
    BY <1>3 DEF TypeInv, LockTypes
  <2> QED  BY <1>1, <1>3, <2>1, RefusedOnly DEF Fail
<1> QED  BY <1>2, <1>3

LEMMA TypeStep == TypeInv /\ [Next]_vars => TypeInv'
<1> SUFFICES ASSUME TypeInv, [Next]_vars PROVE TypeInv'
  OBVIOUS
<1>1. CASE UNCHANGED vars
  BY <1>1 DEF vars, TypeInv, DataTypes, SlotTypes, LockTypes, StepOK, Bounded, Holds
<1>2. CASE Next
  <2>1. PICK r \in Slots : Arrive(r) \/ Advance(r) \/ Fail(r)
    BY <1>2 DEF Next
  <2> QED  BY <2>1, ArriveTypes, InsertTypes, BeginTypes, ChangeTypes, FindTypes,
              FindChildrenTypes, RemoveTypes, AuditTypes, ImportTypes, CommitTypes,
              ReadLinesTypes, FailTypes DEF Advance
<1> QED  BY <1>1, <1>2

(* Every variable keeps to its type, and the write lock is held exactly    *)
(* between the first write of a transaction and its end: no return path,   *)
(* conflict or failure leaves it held or leaves uncommitted rows behind.   *)
THEOREM TypeCorrect == Spec => []TypeOK
<1>1. Init => TypeInv
  BY InitTypes
<1>2. TypeInv /\ [Next]_vars => TypeInv'
  BY TypeStep
<1> QED  BY <1>1, <1>2, TypeInvParts, PTL DEF Spec

-----------------------------------------------------------------------------
(* The audit log.                                                          *)


Replayed(rws, l) == \A x \in Records : rws[x].image = ImageAt(l, Len(l), x)

ReplacedTrue(l) ==
    \A i \in DOMAIN l : l[i].op # "delete" => l[i].before = ImageAt(l, i - 1, l[i].record)

(* What the PRIMARY KEY and the UNIQUE indexes enforce.                    *)
UniqueIds(rws) ==
    \A x, y \in Records :
        /\ rws[x] # NoRow /\ rws[y] # NoRow
        /\ rws[x].image.kind = rws[y].image.kind /\ rws[x].id = rws[y].id
        => x = y

UniqueKeys(rws) ==
    \A x, y \in Records : x # y => ~Clash(rws[x].image, rws[y].image)

(* The log l is log0 and legal entries after it.                           *)
Continues(log0, l) ==
    /\ Len(log0) <= Len(l)
    /\ \A i \in 1..Len(log0) : l[i] = log0[i]
    /\ \A i \in (Len(log0) + 1)..Len(l) : Legal(l, i)

Good(rws, l) ==
    /\ UniqueIds(rws) /\ UniqueKeys(rws)
    /\ Replayed(rws, l) /\ ReplacedTrue(l)

Mentioned(l, x) == Mentions(l, Len(l), x) # {}

(* What a transaction about to append one entry has done.                  *)
Changed(rws, l, p, q, sn) ==
    LET image == p.rows[q.target].image
    IN  /\ p.log = l
        /\ UniqueIds(p.rows) /\ UniqueKeys(p.rows)
        /\ \A x \in Records \ {q.target} : p.rows[x] = rws[x]
        /\ q.op = "create" => /\ ~Mentioned(l, q.target)
                              /\ image # NoImage /\ sn = NoRow
        /\ q.op = "update" => /\ sn = rws[q.target] /\ sn.image # NoImage
                              /\ image # NoImage /\ SameIdentity(image, sn.image)
        /\ q.op = "delete" => image = NoImage /\ Mentioned(l, q.target)

(* What is uncommitted may be committed as it is.                          *)
Ready(l, p) == Good(p.rows, p.log) /\ Continues(l, p.log)

(* What a slot relies on at each of its steps.                             *)
SlotOK(rws, l, p, step, q, sn) ==
    /\ step = "change" => p = [rows |-> rws, log |-> l]
    /\ step = "audit" => Changed(rws, l, p, q, sn)
    /\ step = "items" => /\ UniqueIds(p.rows) /\ UniqueKeys(p.rows)
                         /\ q.dryRun \/ Ready(l, p)
                         /\ \A i \in (Len(l) + 1)..Len(p.log) : p.log[i].op = "import"
    /\ step = "commit" => /\ Ready(l, p)
                          /\ \A i \in (Len(l) + 1)..Len(p.log) :
                                 p.log[i].op = "import" \/ Len(p.log) = Len(l) + 1
    /\ step \in {"children", "remove"} => Mentioned(l, q.target)
    /\ step = "lines" => sn = rws[q.target] /\ Stored(rws, q.kind, q.target)

SafeInv ==
    /\ TypeInv
    /\ Good(rows, log)
    /\ ReadsAreWhole
    /\ \A r \in Slots : SlotOK(rows, log, pend, pc[r], req[r], seen[r])

-----------------------------------------------------------------------------
(* Lemmas about logs.                                                      *)

LEMMA MentionsLast ==
    ASSUME NEW l \in Seq(Entry), NEW n \in 0..Len(l), NEW x, Mentions(l, n, x) # {}
    PROVE  Last(Mentions(l, n, x)) \in Mentions(l, n, x)
<1>1. n \in Nat /\ Mentions(l, n, x) \in SUBSET Nat /\ \A i \in Mentions(l, n, x) : i <= n
  BY LenProperties DEF Mentions
<1> QED  BY <1>1, LastExists

(* One more entry changes nothing of what the log said before.             *)
LEMMA EarlierKept ==
    ASSUME NEW l \in Seq(Entry), NEW k \in Seq(Entry), Len(l) <= Len(k),
           \A i \in 1..Len(l) : k[i] = l[i], NEW n \in 0..Len(l), NEW x
    PROVE  Mentions(k, n, x) = Mentions(l, n, x) /\ ImageAt(k, n, x) = ImageAt(l, n, x)
<1>1. Len(l) \in Nat /\ n \in Nat
  BY LenProperties
<1>2. \A i \in 1..n : k[i] = l[i]
  BY <1>1
<1>3. Mentions(k, n, x) = Mentions(l, n, x)
  BY <1>2 DEF Mentions
<1>4. Mentions(l, n, x) # {} => Last(Mentions(l, n, x)) \in 1..n
  BY MentionsLast DEF Mentions
<1> QED  BY <1>2, <1>3, <1>4 DEF ImageAt

LEMMA AppendParts ==
    ASSUME NEW l \in Seq(Entry), NEW e \in Entry
    PROVE  /\ Append(l, e) \in Seq(Entry)
           /\ Len(Append(l, e)) = Len(l) + 1 /\ Len(l) \in Nat
           /\ \A i \in 1..Len(l) : Append(l, e)[i] = l[i]
           /\ Append(l, e)[Len(l) + 1] = e
BY AppendProperties, LenProperties

(* The last entry of a record is what the log says of it.                  *)
LEMMA AppendImage ==
    ASSUME NEW l \in Seq(Entry), NEW e \in Entry, NEW x
    PROVE  ImageAt(Append(l, e), Len(l) + 1, x) =
               IF x = e.record THEN e.after ELSE ImageAt(l, Len(l), x)
<1> DEFINE k == Append(l, e)
           n == Len(l)
<1>1. /\ k \in Seq(Entry) /\ Len(k) = n + 1 /\ n \in Nat
      /\ k[n + 1] = e
      /\ \A i \in 1..n : k[i] = l[i]
  BY AppendParts
<1> HIDE DEF k, n
<1>2. ASSUME x = e.record PROVE ImageAt(k, n + 1, x) = e.after
  <2>1. n + 1 \in Mentions(k, n + 1, x)
    BY <1>1, <1>2 DEF Mentions
  <2>2. Last(Mentions(k, n + 1, x)) \in Mentions(k, n + 1, x)
        /\ \A i \in Mentions(k, n + 1, x) : i <= Last(Mentions(k, n + 1, x))
    <3>1. Mentions(k, n + 1, x) \in SUBSET Nat /\ \A i \in Mentions(k, n + 1, x) : i <= n + 1
      BY <1>1 DEF Mentions
    <3> QED  BY <1>1, <2>1, <3>1, LastExists
  <2>3. Last(Mentions(k, n + 1, x)) \in 1..(n + 1)
    BY <2>2 DEF Mentions
  <2>4. Last(Mentions(k, n + 1, x)) = n + 1
    BY <1>1, <2>1, <2>2, <2>3
  <2>5. Mentions(k, n + 1, x) # {} /\ k[n + 1] = e
    BY <1>1, <2>1
  <2> QED  BY <2>4, <2>5 DEF ImageAt
<1>3. ASSUME x # e.record PROVE ImageAt(k, n + 1, x) = ImageAt(l, n, x)
  <2>1. \A i \in 1..(n + 1) : i \in 1..n \/ i = n + 1
    BY <1>1
  <2>2. Mentions(k, n + 1, x) = Mentions(k, n, x)
    BY <1>1, <1>3, <2>1 DEF Mentions
  <2>3. ImageAt(k, n, x) = ImageAt(l, n, x)
    <3>1. n \in 0..Len(l) /\ Len(l) <= Len(k) /\ \A i \in 1..Len(l) : k[i] = l[i]
      BY <1>1 DEF n
    <3> QED  BY <1>1, <3>1, EarlierKept
  <2>4. ImageAt(k, n + 1, x) = ImageAt(k, n, x)
    BY <2>2 DEF ImageAt
  <2> QED  BY <2>3, <2>4
<1> QED  BY <1>2, <1>3 DEF k, n

(* Legal, for an entry that is about to be appended to l.                  *)
LegalNext(l, e) ==
    \/ /\ e.after # NoImage
       /\ \/ e.op \in {"create", "import"} /\ ~Mentioned(l, e.record)
          \/ /\ e.op \in {"update", "import"}
             /\ ImageAt(l, Len(l), e.record) # NoImage
             /\ SameIdentity(e.after, ImageAt(l, Len(l), e.record))
       /\ \A x \in Records \ {e.record} : ~Clash(e.after, ImageAt(l, Len(l), x))
    \/ /\ e.op = "delete"
       /\ e.after = NoImage
       /\ Mentioned(l, e.record)

LEMMA LegalAppend ==
    ASSUME NEW l \in Seq(Entry), NEW e \in Entry, LegalNext(l, e)
    PROVE  Legal(Append(l, e), Len(l) + 1)
<1> DEFINE k == Append(l, e)
           n == Len(l)
<1>1. /\ k \in Seq(Entry) /\ Len(k) = n + 1 /\ n \in Nat
      /\ k[n + 1] = e
      /\ \A i \in 1..n : k[i] = l[i]
  BY AppendParts
<1>2. n + 1 - 1 = n /\ n \in 0..Len(l) /\ Len(l) <= Len(k)
  BY <1>1
<1>3. \A x : Mentions(k, n, x) = Mentions(l, n, x) /\ ImageAt(k, n, x) = ImageAt(l, n, x)
  BY <1>1, <1>2, EarlierKept
<1> HIDE DEF k
<1> QED  BY <1>1, <1>2, <1>3 DEF Legal, LegalNext, Mentioned, k

LEMMA LegalKept ==
    ASSUME NEW l \in Seq(Entry), NEW k \in Seq(Entry), Len(l) <= Len(k),
           \A i \in 1..Len(l) : k[i] = l[i], NEW i \in 1..Len(l), Legal(l, i)
    PROVE  Legal(k, i)
<1>1. i - 1 \in 0..Len(l) /\ k[i] = l[i]
  BY LenProperties
<1>2. \A x : /\ Mentions(k, i - 1, x) = Mentions(l, i - 1, x)
            /\ ImageAt(k, i - 1, x) = ImageAt(l, i - 1, x)
  BY <1>1, EarlierKept
<1> QED  BY <1>1, <1>2 DEF Legal

(* The log grows by one entry that says what is now stored.                *)
LEMMA AppendGood ==
    ASSUME NEW l \in Seq(Entry), NEW e \in Entry, NEW rws,
           \A x \in Records \ {e.record} : rws[x].image = ImageAt(l, Len(l), x),
           rws[e.record].image = e.after, ReplacedTrue(l),
           e.op # "delete" => e.before = ImageAt(l, Len(l), e.record)
    PROVE  Replayed(rws, Append(l, e)) /\ ReplacedTrue(Append(l, e))
<1> DEFINE k == Append(l, e)
           n == Len(l)
<1>1. /\ k \in Seq(Entry) /\ Len(k) = n + 1 /\ n \in Nat
      /\ k[n + 1] = e
      /\ \A i \in 1..n : k[i] = l[i]
  BY AppendParts
<1>2. Replayed(rws, k)
  <2> SUFFICES ASSUME NEW x \in Records PROVE rws[x].image = ImageAt(k, Len(k), x)
    BY DEF Replayed
  <2>1. ImageAt(k, n + 1, x) = IF x = e.record THEN e.after ELSE ImageAt(l, n, x)
    BY AppendImage
  <2> HIDE DEF k, n
  <2>2. Len(k) = n + 1
    BY <1>1
  <2>3. CASE x = e.record
    BY <2>1, <2>2, <2>3
  <2>4. CASE x # e.record
    BY <2>1, <2>2, <2>4 DEF n
  <2> QED  BY <2>3, <2>4
<1>3. ReplacedTrue(k)
  <2> SUFFICES ASSUME NEW i \in 1..(n + 1), k[i].op # "delete"
               PROVE  k[i].before = ImageAt(k, i - 1, k[i].record)
    BY <1>1 DEF ReplacedTrue
  <2>1. i - 1 \in 0..Len(l) /\ Len(l) <= Len(k)
    BY <1>1
  <2>2. ImageAt(k, i - 1, k[i].record) = ImageAt(l, i - 1, k[i].record)
    BY <1>1, <2>1, EarlierKept
  <2>3. CASE i = n + 1
    <3>1. i - 1 = Len(l) /\ k[i] = e
      BY <1>1, <2>3
    <3> QED  BY <2>2, <3>1
  <2>4. CASE i # n + 1
    <3>1. i \in 1..n /\ k[i] = l[i] /\ i \in DOMAIN l
      BY <1>1, <2>4
    <3> QED  BY <2>2, <3>1 DEF ReplacedTrue
  <2> QED  BY <2>3, <2>4
<1> QED  BY <1>2, <1>3

LEMMA AppendContinues ==
    ASSUME NEW log0 \in Seq(Entry), NEW l \in Seq(Entry), NEW e \in Entry,
           Continues(log0, l), LegalNext(l, e)
    PROVE  Continues(log0, Append(l, e))
<1> DEFINE k == Append(l, e)
           n == Len(l)
<1>1. /\ k \in Seq(Entry) /\ Len(k) = n + 1 /\ n \in Nat
      /\ \A i \in 1..n : k[i] = l[i]
  BY AppendParts
<1>2. Legal(k, n + 1)
  BY LegalAppend
<1>3. Len(log0) \in Nat /\ Len(log0) <= n /\ Len(l) <= Len(k)
  BY <1>1, LenProperties DEF Continues
<1>4. \A i \in (Len(log0) + 1)..n : Legal(k, i)
  <2> TAKE i \in (Len(log0) + 1)..n
  <2>1. i \in 1..Len(l) /\ Legal(l, i)
    BY <1>1, <1>3 DEF Continues
  <2> QED  BY <1>1, <1>3, <2>1, LegalKept
<1>5. \A i \in (Len(log0) + 1)..(n + 1) : i \in (Len(log0) + 1)..n \/ i = n + 1
  BY <1>1, <1>3
<1>6. \A i \in 1..Len(log0) : k[i] = log0[i]
  BY <1>1, <1>3 DEF Continues
<1> HIDE DEF k, n
<1>7. Continues(log0, k)
  BY <1>1, <1>2, <1>3, <1>4, <1>5, <1>6 DEF Continues
<1> QED  BY <1>7 DEF k

(* A log only grows: what it mentions it goes on mentioning.               *)
LEMMA MentionedKept ==
    ASSUME NEW log0 \in Seq(Entry), NEW l \in Seq(Entry), Continues(log0, l),
           NEW x, Mentioned(log0, x)
    PROVE  Mentioned(l, x)
<1>1. Len(log0) \in Nat /\ Len(l) \in Nat /\ Len(log0) <= Len(l)
  BY LenProperties DEF Continues
<1>2. PICK i \in 1..Len(log0) : log0[i].record = x
  BY DEF Mentioned, Mentions
<1>3. i \in 1..Len(l) /\ l[i].record = x
  BY <1>1, <1>2 DEF Continues
<1> QED  BY <1>3 DEF Mentioned, Mentions

LEMMA ImageMentioned ==
    ASSUME NEW l, NEW x, ImageAt(l, Len(l), x) # NoImage
    PROVE  Mentioned(l, x)
BY DEF ImageAt, Mentioned

-----------------------------------------------------------------------------
(* Lemmas about tables.                                                    *)

LEMMA PutParts ==
    ASSUME NEW rws \in Rows, NEW x \in Records, NEW row
    PROVE  /\ Put(rws, x, row)[x] = row
           /\ \A y \in Records \ {x} : Put(rws, x, row)[y] = rws[y]
BY DEF Put, Rows

(* The next row id is that of no row of its kind.                          *)
LEMMA NextIdNew ==
    ASSUME NEW rws \in Rows, Bounded(rws), NEW kind \in Kind, NEW x \in Records,
           Stored(rws, kind, x)
    PROVE  rws[x].id # NextId(rws, kind)
<1> DEFINE used == {rws[y].id : y \in {z \in Records : Stored(rws, kind, z)}}
           ids == used \cup {0}
<1>1. PICK b \in Nat : \A y \in Records : rws[y].id <= b
  BY DEF Bounded
<1>2. ids \in SUBSET Nat /\ ids # {} /\ \A n \in ids : n <= b
  <2>1. \A n \in used : n \in Nat /\ n <= b
    BY <1>1, StoredParts
  <2> QED  BY <2>1
<1>3. rws[x].id \in ids
  OBVIOUS
<1>4. Last(ids) \in Nat /\ rws[x].id <= Last(ids) /\ rws[x].id \in Nat
  <2> HIDE DEF ids
  <2> QED  BY <1>2, <1>3, LastExists
<1> QED  BY <1>4 DEF NextId

LEMMA ImageParts ==
    ASSUME NEW image \in Image
    PROVE  image # NoImage /\ image.kind \in Kind
BY DEF Image, NoImage, Kind

(* A row is written whose id and keys nobody else has.                     *)
LEMMA PutUnique ==
    ASSUME NEW rws \in Rows, UniqueIds(rws), UniqueKeys(rws), NEW x \in Records,
           NEW row, \A y \in Records \ {x} : ~Clash(row.image, rws[y].image),
           \A y \in Records \ {x} :
               rws[y] # NoRow /\ rws[y].image.kind = row.image.kind => rws[y].id # row.id
    PROVE  UniqueIds(Put(rws, x, row)) /\ UniqueKeys(Put(rws, x, row))
<1> DEFINE new == Put(rws, x, row)
<1>1. new[x] = row /\ \A y \in Records \ {x} : new[y] = rws[y]
  BY PutParts
<1>2. \A y \in Records \ {x} : ~Clash(rws[y].image, row.image)
  BY DEF Clash
<1> HIDE DEF new
<1>3. UniqueIds(new)
  BY <1>1 DEF UniqueIds
<1>4. UniqueKeys(new)
  <2> SUFFICES ASSUME NEW y \in Records, NEW z \in Records, y # z
               PROVE  ~Clash(new[y].image, new[z].image)
    BY DEF UniqueKeys
  <2>1. CASE y = x
    BY <1>1, <2>1
  <2>2. CASE z = x
    BY <1>1, <1>2, <2>2
  <2>3. CASE y # x /\ z # x
    BY <1>1, <2>3 DEF UniqueKeys
  <2> QED  BY <2>1, <2>2, <2>3
<1> QED  BY <1>3, <1>4 DEF new

LEMMA PutNothing ==
    ASSUME NEW rws \in Rows, UniqueIds(rws), UniqueKeys(rws), NEW x \in Records
    PROVE  UniqueIds(Put(rws, x, NoRow)) /\ UniqueKeys(Put(rws, x, NoRow))
<1> DEFINE new == Put(rws, x, NoRow)
<1>1. new[x] = NoRow /\ \A y \in Records \ {x} : new[y] = rws[y]
  BY PutParts
<1> HIDE DEF new
<1>2. UniqueIds(new)
  BY <1>1 DEF UniqueIds
<1>3. UniqueKeys(new)
  BY <1>1 DEF UniqueKeys, Clash, NoRow
<1> QED  BY <1>2, <1>3 DEF new

(* The UNIQUE indexes refused nothing: nobody has the keys of the image.   *)
LEMMA NotRefused ==
    ASSUME NEW rws \in Rows, NEW x \in Records \cup {NoRecord}, NEW image,
           ~Refused(rws, x, image)
    PROVE  \A y \in Records \ {x} : ~Clash(image, rws[y].image)
<1> TAKE y \in Records \ {x}
<1>1. CASE rws[y] # NoRow
  BY <1>1 DEF Refused
<1>2. CASE rws[y] = NoRow
  BY <1>2 DEF Clash, NoRow
<1> QED  BY <1>1, <1>2

(* Children are found under their own parent.                              *)
LEMMA ChildrenOf ==
    ASSUME NEW rws \in Rows, UniqueIds(rws), NEW kind \in Kind, NEW x \in Records,
           Stored(rws, kind, x)
    PROVE  WithLines(rws[x], Children(rws, kind, rws[x].id)) = rws[x]
<1> DEFINE parents == {y \in Records : Stored(rws, kind, y) /\ rws[y].id = rws[x].id}
<1>1. parents = {x}
  BY DEF UniqueIds, Stored
<1>2. Children(rws, kind, rws[x].id) = rws[x].image.lines
  BY <1>1 DEF Children
<1>3. rws[x] \in Row
  BY StoredParts
<1>4. rws[x].image \in Image /\ rws[x] = [id |-> rws[x].id, image |-> rws[x].image]
  BY <1>3 DEF Row
<1>5. [rws[x].image EXCEPT !.lines = rws[x].image.lines] = rws[x].image
  BY <1>4 DEF Image
<1> QED  BY <1>2, <1>4, <1>5 DEF WithLines

-----------------------------------------------------------------------------
(* Lemmas about one slot that moves while the others stay.                 *)

LEMMA SlotFree ==
    ASSUME NEW rws, NEW l, NEW p, NEW p2, NEW step, NEW q, NEW sn, step \notin Locked,
           SlotOK(rws, l, p, step, q, sn)
    PROVE  SlotOK(rws, l, p2, step, q, sn)
BY DEF SlotOK, Locked

LEMMA OtherSlots ==
    ASSUME SafeInv, TypeInv', NEW r \in Slots, UNCHANGED <<rows, log>>,
           \A s \in Slots \ {r} : /\ pc'[s] = pc[s] /\ req'[s] = req[s]
                                   /\ seen'[s] = seen[s] /\ reply'[s] = reply[s],
           pend' = pend \/ writer \in {r, NoSlot},
           SlotOK(rows, log, pend', pc'[r], req'[r], seen'[r]),
           reply'[r].image # NoImage =>
               \E i \in DOMAIN log : log[i].after = reply'[r].image
    PROVE  SafeInv'
<1>1. Good(rows, log)'
  BY DEF SafeInv, Good, UniqueIds, UniqueKeys, Replayed, ReplacedTrue
<1>2. ReadsAreWhole'
  <2> SUFFICES ASSUME NEW s \in Slots, reply'[s].image # NoImage
               PROVE  \E i \in DOMAIN log : log[i].after = reply'[s].image
    BY DEF ReadsAreWhole
  <2>1. CASE s = r
    BY <2>1
  <2>2. CASE s # r
    <3>1. reply'[s] = reply[s]
      BY <2>2
    <3> QED  BY <3>1 DEF SafeInv, ReadsAreWhole
  <2> QED  BY <2>1, <2>2
<1>3. \A s \in Slots : SlotOK(rows, log, pend', pc'[s], req'[s], seen'[s])
  <2> TAKE s \in Slots
  <2>1. CASE s = r
    BY <2>1
  <2>2. CASE s # r
    <3>1. SlotOK(rows, log, pend, pc'[s], req'[s], seen'[s])
      BY <2>2 DEF SafeInv
    <3>2. CASE pend' = pend
      BY <3>1, <3>2
    <3>3. CASE writer \in {r, NoSlot}
      <4>1. pc'[s] \notin Locked
        BY <2>2, <3>3, SlotAssumption DEF SafeInv, TypeInv, LockTypes, Holds
      <4> QED  BY <3>1, <4>1, SlotFree
    <3> QED  BY <3>2, <3>3
  <2> QED  BY <2>1, <2>2
<1>4. (\A s \in Slots : SlotOK(rows, log, pend, pc[s], req[s], seen[s]))'
  BY <1>3
<1> QED  BY <1>1, <1>2, <1>4 DEF SafeInv

LEMMA Settled ==
    ASSUME SafeInv, TypeInv', NEW r \in Slots, UNCHANGED <<rows, log, reply>>,
           NEW step, Goto(r, step),
           NEW q, req' = [req EXCEPT ![r] = q], NEW sn, seen' = [seen EXCEPT ![r] = sn],
           pend' = pend \/ writer \in {r, NoSlot},
           SlotOK(rows, log, pend', step, q, sn)
    PROVE  SafeInv'
<1>1. SlotTypes
  BY DEF SafeInv, TypeInv
<1>2. /\ \A s \in Slots \ {r} : /\ pc'[s] = pc[s] /\ req'[s] = req[s]
                                  /\ seen'[s] = seen[s] /\ reply'[s] = reply[s]
      /\ pc'[r] = step /\ req'[r] = q /\ seen'[r] = sn /\ reply'[r] = reply[r]
  BY <1>1 DEF SlotTypes, Goto
<1>3. reply[r].image # NoImage => \E i \in DOMAIN log : log[i].after = reply[r].image
  BY DEF SafeInv, ReadsAreWhole
<1> QED  BY <1>2, <1>3, OtherSlots

LEMMA Closed ==
    ASSUME SafeInv, TypeInv', NEW r \in Slots, UNCHANGED <<rows, log>>,
           NEW kind, NEW image, NEW c, Answer(r, kind, image, c),
           pend' = pend \/ writer \in {r, NoSlot},
           image # NoImage => \E i \in DOMAIN log : log[i].after = image
    PROVE  SafeInv'
<1>1. SlotTypes
  BY DEF SafeInv, TypeInv
<1>2. /\ \A s \in Slots \ {r} : /\ pc'[s] = pc[s] /\ req'[s] = req[s]
                                  /\ seen'[s] = seen[s] /\ reply'[s] = reply[s]
      /\ pc'[r] = "idle" /\ reply'[r].image = image
  BY <1>1 DEF SlotTypes, Answer, Goto
<1>3. SlotOK(rows, log, pend', pc'[r], req'[r], seen'[r])
  BY <1>2 DEF SlotOK
<1> QED  BY <1>2, <1>3, OtherSlots

-----------------------------------------------------------------------------
(* Every step keeps SafeInv.                                               *)

LEMMA InitSafe == Init => SafeInv
<1> SUFFICES ASSUME Init PROVE SafeInv
  OBVIOUS
<1>1. TypeInv
  BY InitTypes
<1>2. log = <<>> /\ Len(log) = 0 /\ DOMAIN log = {} /\ \A x \in Records : rows[x] = NoRow
  BY DEF Init
<1>3. \A x : Mentions(log, 0, x) = {}
  <2>1. \A i : i \notin 1..0
    OBVIOUS
  <2> QED  BY <2>1 DEF Mentions
<1>4. Good(rows, log)
  BY <1>2, <1>3 DEF Good, UniqueIds, UniqueKeys, Clash, Replayed, ReplacedTrue, ImageAt, NoRow
<1>5. ReadsAreWhole
  BY DEF Init, ReadsAreWhole, NoReply
<1>6. \A r \in Slots : SlotOK(rows, log, pend, pc[r], req[r], seen[r])
  BY DEF Init, SlotOK
<1> QED  BY <1>1, <1>4, <1>5, <1>6 DEF SafeInv

LEMMA ArriveSafe ==
    ASSUME SafeInv, TypeInv', NEW r \in Slots, Arrive(r)
    PROVE  SafeInv'
<1>1. PICK q \in Offers : req' = [req EXCEPT ![r] = q] /\ Goto(r, FirstStep[q.op])
  BY DEF Arrive
<1>2. /\ UNCHANGED <<rows, log, pend, seen>>
      /\ reply' = [reply EXCEPT ![r] = NoReply]
  BY DEF Arrive
<1>3. SlotTypes
  BY DEF SafeInv, TypeInv
<1>4. /\ \A s \in Slots \ {r} : /\ pc'[s] = pc[s] /\ req'[s] = req[s]
                                  /\ seen'[s] = seen[s] /\ reply'[s] = reply[s]
      /\ pc'[r] = FirstStep[q.op] /\ reply'[r] = NoReply
  BY <1>1, <1>2, <1>3 DEF SlotTypes, Goto
<1>5. pc'[r] \in {"insert", "begin", "find", "snapshot"}
  BY <1>4, OfferAssumption DEF ValidRequest, Request, Operation, FirstStep
<1>6. SlotOK(rows, log, pend', pc'[r], req'[r], seen'[r])
  BY <1>5 DEF SlotOK
<1>7. reply'[r].image = NoImage
  BY <1>4 DEF NoReply
<1> QED  BY <1>2, <1>4, <1>6, <1>7, OtherSlots

LEMMA InsertSafe ==
    ASSUME SafeInv, TypeInv', NEW r \in Slots, Insert(r)
    PROVE  SafeInv'
<1> DEFINE image == NewImage(req[r].batch[1])
           row == NewRow(rows, image)
<1>1. /\ pc[r] = "insert" /\ writer = NoSlot /\ UNCHANGED <<rows, log>>
      /\ TypeInv /\ UniqueIds(rows) /\ UniqueKeys(rows)
      /\ rows \in Rows /\ Bounded(rows)
  BY DEF Insert, SafeInv, TypeInv, DataTypes, Good
<1>2. req[r].op = "create" /\ Len(req[r].batch) = 1 /\ seen[r] = NoRow
  BY <1>1 DEF TypeInv, StepOK
<1>3. image \in Image
  <2>1. req[r].batch[1] \in Item
    BY <1>1, <1>2, Same, BatchItem DEF TypeInv
  <2> QED  BY <2>1, NewImageType
<1>4. CASE Refused(rows, NoRecord, image)
  <2>1. Answer(r, "conflict", NoImage, NoCounts) /\ pend' = pend
    BY <1>1, <1>4 DEF Insert, Refuse
  <2> QED  BY <1>1, <2>1, Closed
<1>5. CASE ~Refused(rows, NoRecord, image)
  <2>1. PICK x \in Unused(log) :
           /\ req' = [req EXCEPT ![r].target = x]
           /\ pend' = [rows |-> Put(rows, x, row), log |-> log]
    BY <1>5 DEF Insert
  <2>2. Goto(r, "audit") /\ UNCHANGED <<seen, reply>>
    BY <1>5 DEF Insert
  <2>3. x \in Records /\ ~Mentioned(log, x)
    BY DEF Unused, Mentioned
  <2> DEFINE q == [req[r] EXCEPT !.target = x]
  <2>4. req' = [req EXCEPT ![r] = q] /\ seen' = [seen EXCEPT ![r] = seen[r]]
    BY <1>1, <2>1, <2>2, Same DEF TypeInv
  <2>5. q.op = "create" /\ q.target = x
    BY <1>1, <1>2, Same DEF TypeInv, Request
  <2>6. row.image = image /\ row.id = NextId(rows, image.kind) /\ image.kind \in Kind
    BY <1>3, ImageParts DEF NewRow
  <2>7. \A y \in Records \ {x} : ~Clash(row.image, rows[y].image)
    BY <1>1, <1>5, <2>6, NotRefused, RecordAssumption
  <2>8. \A y \in Records \ {x} :
           rows[y] # NoRow /\ rows[y].image.kind = row.image.kind => rows[y].id # row.id
    BY <1>1, <2>6, NextIdNew DEF Stored
  <2> HIDE DEF q, row, image
  <2>9. UniqueIds(Put(rows, x, row)) /\ UniqueKeys(Put(rows, x, row))
    BY <1>1, <2>3, <2>7, <2>8, PutUnique
  <2>10. /\ Put(rows, x, row)[x] = row
         /\ \A y \in Records \ {x} : Put(rows, x, row)[y] = rows[y]
    BY <1>1, <2>3, PutParts
  <2>11. row.image # NoImage
    BY <1>3, <2>6, ImageParts
  <2>12. pend'.rows = Put(rows, x, row) /\ pend'.log = log
    BY <2>1
  <2>13. Changed(rows, log, pend', q, seen[r])
    BY <1>2, <2>3, <2>5, <2>9, <2>10, <2>11, <2>12 DEF Changed
  <2>14. SlotOK(rows, log, pend', "audit", q, seen[r])
    BY <2>13 DEF SlotOK
  <2> QED  BY <1>1, <2>2, <2>4, <2>14, Settled
<1> QED  BY <1>4, <1>5

LEMMA BeginSafe ==
    ASSUME SafeInv, TypeInv', NEW r \in Slots, Begin(r)
    PROVE  SafeInv'
<1> DEFINE step == IF req[r].op = "update" THEN "change" ELSE "items"
<1>1. /\ writer = NoSlot /\ UNCHANGED <<rows, log, req, seen, reply>>
      /\ pend' = [rows |-> rows, log |-> log] /\ Goto(r, step)
  BY DEF Begin, Lock
<1>2. req' = [req EXCEPT ![r] = req[r]] /\ seen' = [seen EXCEPT ![r] = seen[r]]
  BY <1>1, Same DEF SafeInv, TypeInv
<1>3. Good(rows, log) /\ Len(log) \in Nat /\ pend'.rows = rows /\ pend'.log = log
  BY <1>1, LenProperties DEF SafeInv, TypeInv, DataTypes
<1>4. Continues(log, log)
  BY <1>3 DEF Continues
<1>5. SlotOK(rows, log, pend', step, req[r], seen[r])
  <2>1. Ready(log, pend') /\ UniqueIds(pend'.rows) /\ UniqueKeys(pend'.rows)
    BY <1>3, <1>4 DEF Ready, Good
  <2>2. \A i \in (Len(log) + 1)..Len(pend'.log) : pend'.log[i].op = "import"
    BY <1>3
  <2> QED  BY <1>1, <2>1, <2>2 DEF SlotOK
<1> HIDE DEF step
<1> QED  BY <1>1, <1>2, <1>5, Settled

LEMMA ChangeSafe ==
    ASSUME SafeInv, TypeInv', NEW r \in Slots, Change(r)
    PROVE  SafeInv'
<1> DEFINE q == req[r]
           x == q.target
           old == pend.rows[x]
           image == ReplacedImage(old.image, q.batch[1])
           row == [id |-> old.id, image |-> image]
<1>1. /\ pc[r] = "change" /\ UNCHANGED <<rows, log>> /\ TypeInv
      /\ UniqueIds(rows) /\ UniqueKeys(rows) /\ rows \in Rows
  BY DEF Change, SafeInv, TypeInv, DataTypes, Good
<1>2. writer = r
  BY <1>1 DEF TypeInv, LockTypes, Holds, Locked
<1>3. pend = [rows |-> rows, log |-> log]
  BY <1>1 DEF SafeInv, SlotOK
<1>4. /\ q.op = "update" /\ x \in Records /\ Len(q.batch) = 1
      /\ q.batch[1].kind = q.kind /\ q.kind \in Kind
  BY <1>1, Same DEF TypeInv, StepOK
<1>5. CASE ~Stored(pend.rows, q.kind, x)
  <2>1. Answer(r, "not_found", NoImage, NoCounts)
    BY <1>5 DEF Change, Refuse
  <2> QED  BY <1>1, <1>2, <2>1, Closed
<1>6. CASE Stored(pend.rows, q.kind, x) /\ Refused(pend.rows, x, image)
  <2>1. Answer(r, "conflict", NoImage, NoCounts)
    BY <1>6 DEF Change, Refuse
  <2> QED  BY <1>1, <1>2, <2>1, Closed
<1>7. CASE Stored(pend.rows, q.kind, x) /\ ~Refused(pend.rows, x, image)
  <2>1. /\ pend' = [rows |-> Put(pend.rows, x, row), log |-> pend.log]
        /\ seen' = [seen EXCEPT ![r] = old] /\ Goto(r, "audit") /\ UNCHANGED <<req, reply>>
    BY <1>7 DEF Change
  <2>2. req' = [req EXCEPT ![r] = q]
    BY <1>1, <2>1, Same DEF TypeInv
  <2>3. old = rows[x] /\ old # NoRow /\ old.image.kind = q.kind /\ old.image \in Image
    BY <1>1, <1>3, <1>4, <1>7, StoredParts DEF Stored
  <2>4. q.batch[1] \in Item
    BY <1>1, <1>4, Same, BatchItem DEF TypeInv
  <2>5. image \in Image /\ image # NoImage /\ SameIdentity(image, old.image)
    <3>1. image \in Image
      BY <2>3, <2>4, ReplacedImageType
    <3> QED  BY <1>4, <2>3, <3>1, ImageParts DEF SameIdentity, ReplacedImage
  <2>6. \A y \in Records \ {x} : ~Clash(image, rows[y].image)
    <3>1. ~Refused(rows, x, image)
      BY <1>3, <1>7
    <3> HIDE DEF image
    <3> QED  BY <1>1, <1>4, <3>1, NotRefused
  <2>7. \A y \in Records \ {x} :
           rows[y] # NoRow /\ rows[y].image.kind = image.kind => rows[y].id # old.id
    BY <1>1, <1>4, <2>3, <2>5 DEF UniqueIds, SameIdentity
  <2>8. row.image = image /\ row.id = old.id
    OBVIOUS
  <2>9. pend'.rows = Put(rows, x, row) /\ pend'.log = log
    BY <1>3, <2>1
  <2>10. old.image # NoImage
    BY <2>3, ImageParts
  <2> HIDE DEF row, image, old
  <2>11. UniqueIds(Put(rows, x, row)) /\ UniqueKeys(Put(rows, x, row))
    BY <1>1, <1>4, <2>6, <2>7, <2>8, PutUnique
  <2>12. /\ Put(rows, x, row)[x] = row
         /\ \A y \in Records \ {x} : Put(rows, x, row)[y] = rows[y]
    BY <1>1, <1>4, PutParts
  <2>13. Changed(rows, log, pend', q, old)
    BY <1>4, <2>3, <2>5, <2>8, <2>9, <2>10, <2>11, <2>12 DEF Changed
  <2>14. SlotOK(rows, log, pend', "audit", q, old)
    BY <2>13 DEF SlotOK
  <2> QED  BY <1>1, <1>2, <2>1, <2>2, <2>14, Settled
<1> QED  BY <1>5, <1>6, <1>7

LEMMA FindSafe ==
    ASSUME SafeInv, TypeInv', NEW r \in Slots, Find(r)
    PROVE  SafeInv'
<1> DEFINE q == req[r]
           x == q.target
<1>1. /\ pc[r] = "find" /\ UNCHANGED <<rows, log, pend>> /\ TypeInv
      /\ x \in Records /\ q.kind \in Kind /\ rows \in Rows
  BY Same DEF Find, SafeInv, TypeInv, DataTypes, StepOK
<1>2. CASE ~Stored(rows, q.kind, x)
  <2>1. Answer(r, "not_found", NoImage, NoCounts)
    BY <1>2 DEF Find, Refuse
  <2> QED  BY <1>1, <2>1, Closed
<1>3. CASE Stored(rows, q.kind, x)
  <2>1. /\ seen' = [seen EXCEPT ![r] = rows[x]] /\ Goto(r, "children")
        /\ UNCHANGED <<req, reply>>
    BY <1>3 DEF Find
  <2>2. req' = [req EXCEPT ![r] = q]
    BY <1>1, <2>1, Same DEF TypeInv
  <2>3. Mentioned(log, x)
    <3>1. rows[x].image # NoImage
      BY <1>1, <1>3, StoredParts, ImageParts
    <3>2. rows[x].image = ImageAt(log, Len(log), x)
      BY <1>1 DEF SafeInv, Good, Replayed
    <3> QED  BY <3>1, <3>2, ImageMentioned
  <2>4. SlotOK(rows, log, pend', "children", q, rows[x])
    BY <2>3 DEF SlotOK
  <2> HIDE DEF q
  <2> QED  BY <1>1, <2>1, <2>2, <2>4, Settled
<1> QED  BY <1>2, <1>3

LEMMA FindChildrenSafe ==
    ASSUME SafeInv, TypeInv', NEW r \in Slots, FindChildren(r)
    PROVE  SafeInv'
<1> DEFINE row == WithLines(seen[r], Children(rows, req[r].kind, seen[r].id))
<1>1. /\ pc[r] = "children" /\ UNCHANGED <<rows, log, pend, req, reply>> /\ TypeInv
      /\ Goto(r, "remove")
  BY DEF FindChildren, SafeInv
<1>2. seen' = [seen EXCEPT ![r] = row] /\ req' = [req EXCEPT ![r] = req[r]]
  BY <1>1, Same DEF FindChildren, TypeInv, SlotTypes
<1>3. Mentioned(log, req[r].target)
  BY <1>1 DEF SafeInv, SlotOK
<1>4. SlotOK(rows, log, pend', "remove", req[r], row)
  BY <1>3 DEF SlotOK
<1> HIDE DEF row
<1> QED  BY <1>1, <1>2, <1>4, Settled

LEMMA RemoveSafe ==
    ASSUME SafeInv, TypeInv', NEW r \in Slots, Remove(r)
    PROVE  SafeInv'
<1> DEFINE q == req[r]
           x == q.target
           new == Put(rows, x, NoRow)
<1>1. /\ pc[r] = "remove" /\ writer = NoSlot /\ UNCHANGED <<rows, log, req, seen, reply>>
      /\ pend' = [rows |-> new, log |-> log] /\ Goto(r, "audit")
      /\ TypeInv /\ UniqueIds(rows) /\ UniqueKeys(rows) /\ rows \in Rows
  BY DEF Remove, Lock, SafeInv, TypeInv, DataTypes, Good
<1>2. x \in Records /\ q.op = "delete"
  BY <1>1 DEF TypeInv, StepOK
<1>3. req' = [req EXCEPT ![r] = q] /\ seen' = [seen EXCEPT ![r] = seen[r]]
  BY <1>1, Same DEF TypeInv
<1>4. Mentioned(log, x)
  BY <1>1 DEF SafeInv, SlotOK
<1>5. UniqueIds(new) /\ UniqueKeys(new)
  BY <1>1, <1>2, PutNothing
<1>6. new[x] = NoRow /\ \A y \in Records \ {x} : new[y] = rows[y]
  BY <1>1, <1>2, PutParts
<1>7. pend'.rows = new /\ pend'.log = log
  BY <1>1
<1> HIDE DEF new
<1>8. Changed(rows, log, pend', q, seen[r])
  BY <1>2, <1>4, <1>5, <1>6, <1>7 DEF Changed, NoRow
<1>9. SlotOK(rows, log, pend', "audit", q, seen[r])
  BY <1>8 DEF SlotOK
<1> HIDE DEF q
<1> QED  BY <1>1, <1>3, <1>9, Settled

LEMMA AuditSafe ==
    ASSUME SafeInv, TypeInv', NEW r \in Slots, Audit(r)
    PROVE  SafeInv'
<1> DEFINE q == req[r]
           x == q.target
           after == pend.rows[x].image
           e == AuditEntry(q.op, x, seen[r].image, after)
           k == Append(log, e)
<1>1. /\ pc[r] = "audit" /\ UNCHANGED <<rows, log, req, seen, reply>> /\ Goto(r, "commit")
      /\ TypeInv /\ rows \in Rows /\ log \in Seq(Entry) /\ pend.rows \in Rows
      /\ Good(rows, log)
  BY DEF Audit, SafeInv, TypeInv, DataTypes
<1>2. writer = r
  BY <1>1 DEF TypeInv, LockTypes, Holds, Locked
<1>3. Changed(rows, log, pend, q, seen[r])
  BY <1>1 DEF SafeInv, SlotOK
<1>4. x \in Records /\ q.op \in {"create", "update", "delete"}
  BY <1>1 DEF TypeInv, StepOK
<1>5. req' = [req EXCEPT ![r] = q] /\ seen' = [seen EXCEPT ![r] = seen[r]]
  BY <1>1, Same DEF TypeInv
<1>6. pend' = [rows |-> pend.rows, log |-> k]
  BY <1>3 DEF Audit, Changed
<1>7. e \in Entry
  <2>1. seen[r].image \in Images /\ after \in Images
    BY <1>1, <1>4, Same, RowParts DEF TypeInv, Rows
  <2>2. q.op \in AuditOperation
    BY <1>4 DEF AuditOperation
  <2> QED  BY <1>4, <2>1, <2>2, AuditEntryType
<1>8. /\ e.op = q.op /\ e.record = x /\ e.before = seen[r].image /\ e.after = after
  BY DEF AuditEntry
<1>9. \A y \in Records \ {x} : pend.rows[y].image = ImageAt(log, Len(log), y)
  BY <1>1, <1>3, <1>4 DEF Changed, Good, Replayed
<1>10. UniqueIds(pend.rows) /\ UniqueKeys(pend.rows)
  BY <1>3 DEF Changed
<1>11. q.op = "create" => /\ ~Mentioned(log, x) /\ after # NoImage
                         /\ seen[r].image = ImageAt(log, Len(log), x)
  BY <1>3 DEF Changed, NoRow, ImageAt, Mentioned
<1>12. q.op = "update" => /\ after # NoImage /\ ImageAt(log, Len(log), x) # NoImage
                         /\ SameIdentity(after, ImageAt(log, Len(log), x))
                         /\ seen[r].image = ImageAt(log, Len(log), x)
  BY <1>1, <1>3, <1>4 DEF Changed, Good, Replayed
<1>13. q.op = "delete" => after = NoImage /\ Mentioned(log, x)
  BY <1>3 DEF Changed
<1>14. \A y \in Records \ {x} : ~Clash(after, ImageAt(log, Len(log), y))
  BY <1>4, <1>9, <1>10 DEF UniqueKeys
<1>15. ReplacedTrue(log) /\ Len(log) \in Nat
  BY <1>1, LenProperties DEF Good
<1> HIDE DEF e, after
<1>16. LegalNext(log, e)
  BY <1>4, <1>8, <1>11, <1>12, <1>13, <1>14 DEF LegalNext
<1>17. Replayed(pend.rows, k) /\ ReplacedTrue(k)
  <2>1. pend.rows[e.record].image = e.after
    BY <1>8 DEF after
  <2>2. e.op # "delete" => e.before = ImageAt(log, Len(log), e.record)
    BY <1>4, <1>8, <1>11, <1>12
  <2>3. \A y \in Records \ {e.record} : pend.rows[y].image = ImageAt(log, Len(log), y)
    BY <1>8, <1>9
  <2> QED  BY <1>1, <1>7, <1>15, <2>1, <2>2, <2>3, AppendGood
<1>18. Continues(log, k)
  <2>1. Continues(log, log)
    BY <1>15 DEF Continues
  <2> QED  BY <1>1, <1>7, <1>16, <2>1, AppendContinues
<1>19. Len(k) = Len(log) + 1
  BY <1>1, <1>7, AppendParts
<1> HIDE DEF k
<1>20. pend'.rows = pend.rows /\ pend'.log = k
  BY <1>6
<1>21. Ready(log, pend')
  BY <1>10, <1>17, <1>18, <1>20 DEF Ready, Good
<1>22. SlotOK(rows, log, pend', "commit", q, seen[r])
  BY <1>19, <1>20, <1>21 DEF SlotOK
<1> HIDE DEF q
<1> QED  BY <1>1, <1>2, <1>5, <1>22, Settled

(* What every record of an import finds.                                   *)
LEMMA ImportParts ==
    ASSUME SafeInv, NEW r \in Slots, Importing(r)
    PROVE  /\ pc[r] = "items" /\ writer = r
           /\ Current(r) \in Item
           /\ pend.rows \in Rows /\ Bounded(pend.rows) /\ pend.log \in Seq(Entry)
           /\ log \in Seq(Entry)
           /\ UniqueIds(pend.rows) /\ UniqueKeys(pend.rows)
           /\ req[r].dryRun \/ Ready(log, pend)
           /\ \A i \in (Len(log) + 1)..Len(pend.log) : pend.log[i].op = "import"
<1>1. pc[r] = "items"
  BY DEF Importing
<1>2. writer = r
  BY <1>1 DEF SafeInv, TypeInv, LockTypes, Holds, Locked
<1>3. Current(r) \in Item
  BY Same, BatchItem DEF Importing, Current, SafeInv, TypeInv
<1>4. pend.rows \in Rows /\ Bounded(pend.rows) /\ pend.log \in Seq(Entry) /\ log \in Seq(Entry)
  BY DEF SafeInv, TypeInv, DataTypes
<1>5. /\ UniqueIds(pend.rows) /\ UniqueKeys(pend.rows)
      /\ req[r].dryRun \/ Ready(log, pend)
      /\ \A i \in (Len(log) + 1)..Len(pend.log) : pend.log[i].op = "import"
  BY <1>1 DEF SafeInv, SlotOK
<1> QED  BY <1>1, <1>2, <1>3, <1>4, <1>5

(* The slot stays where it is in its batch.                                *)
LEMMA StayingSlot ==
    ASSUME SafeInv, TypeInv', NEW r \in Slots, pc[r] = "items", writer = r,
           UNCHANGED <<rows, log, pc, req, seen, reply>>,
           SlotOK(rows, log, pend', "items", req[r], seen[r])
    PROVE  SafeInv'
<1>1. reply[r].image # NoImage => \E i \in DOMAIN log : log[i].after = reply[r].image
  BY DEF SafeInv, ReadsAreWhole
<1> QED  BY <1>1, OtherSlots

LEMMA ApplySafe ==
    ASSUME SafeInv, TypeInv', NEW r \in Slots, Importing(r),
           NEW x \in Records, NEW row \in Row, row.image \in Image, Apply(r, x, row),
           UNCHANGED <<rows, log, pc, req, seen, reply>>,
           \A y \in Records \ {x} : ~Clash(row.image, pend.rows[y].image),
           \A y \in Records \ {x} :
               pend.rows[y] # NoRow /\ pend.rows[y].image.kind = row.image.kind
                   => pend.rows[y].id # row.id,
           \/ ~Mentioned(pend.log, x)
           \/ /\ pend.rows[x].image # NoImage
              /\ SameIdentity(row.image, pend.rows[x].image)
    PROVE  SafeInv'
<1> DEFINE e == AuditEntry("import", x, pend.rows[x].image, row.image)
           k == Append(pend.log, e)
           new == Put(pend.rows, x, row)
<1>1. /\ pc[r] = "items" /\ writer = r
      /\ pend.rows \in Rows /\ Bounded(pend.rows) /\ pend.log \in Seq(Entry)
      /\ log \in Seq(Entry)
      /\ UniqueIds(pend.rows) /\ UniqueKeys(pend.rows)
      /\ req[r].dryRun \/ Ready(log, pend)
      /\ \A i \in (Len(log) + 1)..Len(pend.log) : pend.log[i].op = "import"
  BY ImportParts
<1>2. pend' = [rows |-> new, log |-> IF req[r].dryRun THEN pend.log ELSE k]
  BY DEF Apply, Before
<1>3. e \in Entry
  <2>1. pend.rows[x].image \in Images /\ row.image \in Images
    BY <1>1, RowParts DEF Rows
  <2> QED  BY <2>1, AuditEntryType DEF AuditOperation
<1>4. /\ e.op = "import" /\ e.record = x /\ e.before = pend.rows[x].image
      /\ e.after = row.image
  BY DEF AuditEntry
<1>5. UniqueIds(new) /\ UniqueKeys(new)
  BY <1>1, PutUnique
<1>6. new[x] = row /\ \A y \in Records \ {x} : new[y] = pend.rows[y]
  BY <1>1, PutParts
<1>7. Len(k) = Len(pend.log) + 1 /\ Len(pend.log) \in Nat /\ Len(log) \in Nat
      /\ k[Len(pend.log) + 1] = e
      /\ \A i \in 1..Len(pend.log) : k[i] = pend.log[i]
  BY <1>1, <1>3, AppendParts, LenProperties
<1> HIDE DEF e, k, new
<1>8. \A i \in (Len(log) + 1)..Len(k) : k[i].op = "import"
  <2> TAKE i \in (Len(log) + 1)..Len(k)
  <2>1. i \in (Len(log) + 1)..Len(pend.log) \/ i = Len(pend.log) + 1
    BY <1>7
  <2>2. i \in 1..Len(pend.log) \/ i = Len(pend.log) + 1
    BY <1>7, <2>1
  <2> QED  BY <1>1, <1>4, <1>7, <2>1, <2>2
<1>9. ASSUME ~req[r].dryRun PROVE Good(new, k) /\ Continues(log, k)
  <2>1. Good(pend.rows, pend.log) /\ Continues(log, pend.log)
    BY <1>1, <1>9 DEF Ready
  <2>2. \A y \in Records : pend.rows[y].image = ImageAt(pend.log, Len(pend.log), y)
    BY <2>1 DEF Good, Replayed
  <2>3. row.image # NoImage
    BY ImageParts
  <2>4. \A y \in Records \ {x} : ~Clash(row.image, ImageAt(pend.log, Len(pend.log), y))
    BY <2>2
  <2>5. LegalNext(pend.log, e)
    BY <1>4, <2>2, <2>3, <2>4 DEF LegalNext
  <2>6. \A y \in Records \ {e.record} : new[y].image = ImageAt(pend.log, Len(pend.log), y)
    BY <1>4, <1>6, <2>2
  <2>7. new[e.record].image = e.after /\ e.before = ImageAt(pend.log, Len(pend.log), e.record)
    BY <1>4, <1>6, <2>2
  <2>8. Replayed(new, k) /\ ReplacedTrue(k)
    BY <1>1, <1>3, <2>1, <2>6, <2>7, AppendGood DEF Good, k
  <2>9. Continues(log, k)
    BY <1>1, <1>3, <2>1, <2>5, AppendContinues DEF k
  <2> QED  BY <1>5, <2>8, <2>9 DEF Good
<1>10. pend'.rows = new /\ pend'.log = IF req[r].dryRun THEN pend.log ELSE k
  BY <1>2
<1>11. req[r].dryRun \/ Ready(log, pend')
  BY <1>9, <1>10 DEF Ready
<1>12. SlotOK(rows, log, pend', "items", req[r], seen[r])
  BY <1>1, <1>5, <1>8, <1>10, <1>11 DEF SlotOK
<1> QED  BY <1>1, <1>12, StayingSlot

LEMMA ImportNewSafe ==
    ASSUME SafeInv, TypeInv', NEW r \in Slots, ImportNew(r)
    PROVE  SafeInv'
<1> DEFINE image == NewImage(Current(r))
           row == NewRow(pend.rows, image)
<1>1. PICK x \in Unused(pend.log) : Apply(r, x, row)
  BY DEF ImportNew
<1>2. /\ Importing(r) /\ UNCHANGED <<rows, log, pc, req, seen, reply>>
      /\ Outcome(pend.rows, Current(r), req[r].conflict) = "created"
  BY DEF ImportNew, Counted
<1>3. /\ pend.rows \in Rows /\ Bounded(pend.rows) /\ Current(r) \in Item
  BY <1>2, ImportParts
<1>4. image \in Image /\ row \in Row
  BY <1>3, NewImageType, NewRowType
<1>5. row.image = image /\ row.id = NextId(pend.rows, image.kind) /\ image.kind \in Kind
  BY <1>4, ImageParts DEF NewRow
<1>6. x \in Records /\ ~Mentioned(pend.log, x)
  BY DEF Unused, Mentioned
<1>7. Owners(pend.rows, Current(r)) = {}
  BY <1>2 DEF Outcome
<1>8. \A y \in Records \ {x} : ~Clash(image, pend.rows[y].image)
  <2> SUFFICES ASSUME NEW y \in Records, Clash(image, pend.rows[y].image) PROVE FALSE
    OBVIOUS
  <2>1. pend.rows[y] # NoRow /\ pend.rows[y].image.kind = Current(r).kind
    BY DEF Clash, NoRow, NewImage
  <2>2. \/ pend.rows[y].image.external = Current(r).external
        \/ /\ pend.rows[y].image.natural = Current(r).natural
           /\ Current(r).natural # NoNatural
    BY DEF Clash, NewImage
  <2> QED  BY <1>7, <2>1, <2>2 DEF Owners, SameExternal, NaturalOwners, Stored
<1>9. \A y \in Records \ {x} :
         pend.rows[y] # NoRow /\ pend.rows[y].image.kind = row.image.kind
             => pend.rows[y].id # row.id
  BY <1>3, <1>5, NextIdNew DEF Stored
<1> HIDE DEF row, image
<1> QED  BY <1>1, <1>2, <1>4, <1>5, <1>6, <1>8, <1>9, ApplySafe

LEMMA ImportOverSafe ==
    ASSUME SafeInv, TypeInv', NEW r \in Slots, ImportOver(r)
    PROVE  SafeInv'
<1> DEFINE i == Current(r)
           old(x) == pend.rows[x]
           image(x) == ReplacedImage(pend.rows[x].image, Current(r))
           row(x) == [id |-> pend.rows[x].id, image |-> image(x)]
<1>1. PICK x \in SameExternal(pend.rows, i) : Apply(r, x, row(x))
  BY DEF ImportOver
<1>2. /\ Importing(r) /\ UNCHANGED <<rows, log, pc, req, seen, reply>>
      /\ Outcome(pend.rows, i, req[r].conflict) = "replaced"
  BY DEF ImportOver, Counted
<1>3. /\ pend.rows \in Rows /\ Bounded(pend.rows) /\ i \in Item /\ i.kind \in Kind
      /\ UniqueIds(pend.rows) /\ UniqueKeys(pend.rows)
  BY <1>2, ImportParts DEF Item
<1>4. /\ x \in Records /\ old(x) # NoRow /\ old(x).image.kind = i.kind
      /\ old(x).image.external = i.external
  BY DEF SameExternal, Stored
<1>5. old(x) \in Row /\ old(x).image \in Image /\ old(x).id \in Nat \ {0}
  BY <1>3, <1>4, StoredParts DEF Stored
<1>6. image(x) \in Image /\ row(x) \in Row
  BY <1>3, <1>5, ReplacedImageType DEF Row
<1>7. row(x).image = image(x) /\ row(x).id = old(x).id
  OBVIOUS
<1>8. /\ image(x).kind = i.kind /\ image(x).external = old(x).image.external
      /\ image(x).natural = i.natural
  BY DEF ReplacedImage
<1>9. NaturalOwners(pend.rows, i) \subseteq SameExternal(pend.rows, i)
  BY <1>2 DEF Outcome
<1>10. SameExternal(pend.rows, i) \subseteq {x}
  <2> SUFFICES ASSUME NEW y \in SameExternal(pend.rows, i), y # x PROVE FALSE
    OBVIOUS
  <2>1. /\ y \in Records /\ pend.rows[y] # NoRow /\ pend.rows[y].image.kind = i.kind
        /\ pend.rows[y].image.external = i.external
    BY DEF SameExternal, Stored
  <2>2. pend.rows[y].image # NoImage /\ old(x).image # NoImage
    BY <1>3, <1>5, <2>1, StoredParts, ImageParts DEF Stored
  <2>3. Clash(old(x).image, pend.rows[y].image)
    BY <1>4, <2>1, <2>2 DEF Clash
  <2> QED  BY <1>3, <1>4, <2>1, <2>3 DEF UniqueKeys
<1>11. \A y \in Records \ {x} : ~Clash(image(x), pend.rows[y].image)
  <2> SUFFICES ASSUME NEW y \in Records \ {x}, Clash(image(x), pend.rows[y].image)
               PROVE  FALSE
    OBVIOUS
  <2>1. pend.rows[y] # NoRow /\ pend.rows[y].image.kind = i.kind
    BY <1>8 DEF Clash, NoRow
  <2>2. \/ pend.rows[y].image.external = i.external
        \/ pend.rows[y].image.natural = i.natural /\ i.natural # NoNatural
    BY <1>4, <1>8 DEF Clash
  <2> HIDE DEF i
  <2>3. y \in SameExternal(pend.rows, i) \cup NaturalOwners(pend.rows, i)
    BY <2>1, <2>2 DEF SameExternal, NaturalOwners, Stored
  <2> QED  BY <1>9, <1>10, <2>3
<1>12. \A y \in Records \ {x} :
          pend.rows[y] # NoRow /\ pend.rows[y].image.kind = image(x).kind
              => pend.rows[y].id # old(x).id
  BY <1>3, <1>4, <1>8 DEF UniqueIds
<1>13. old(x).image # NoImage /\ SameIdentity(image(x), old(x).image)
  BY <1>4, <1>5, <1>8, ImageParts DEF SameIdentity
<1> HIDE DEF row, image
<1> QED  BY <1>1, <1>2, <1>4, <1>6, <1>7, <1>11, <1>12, <1>13, ApplySafe

LEMMA ImportSafe ==
    ASSUME SafeInv, TypeInv', NEW r \in Slots, Import(r)
    PROVE  SafeInv'
<1>1. CASE ImportNothing(r)
  <2>1. Importing(r) /\ UNCHANGED <<rows, log, pend, pc, req, seen, reply>>
    BY <1>1 DEF ImportNothing, Counted
  <2>2. pc[r] = "items" /\ writer = r
    BY <2>1, ImportParts
  <2>3. SlotOK(rows, log, pend', "items", req[r], seen[r])
    BY <2>1, <2>2 DEF SafeInv
  <2> QED  BY <2>1, <2>2, <2>3, StayingSlot
<1>2. CASE ImportConflict(r)
  <2>1. Importing(r) /\ UNCHANGED <<rows, log>> /\ Answer(r, "conflict", NoImage, NoCounts)
    BY <1>2 DEF ImportConflict, Refuse
  <2>2. writer = r
    BY <2>1, ImportParts
  <2> QED  BY <2>1, <2>2, Closed
<1>3. CASE ImportEnd(r)
  <2>1. pc[r] = "items" /\ UNCHANGED <<rows, log>>
    BY <1>3 DEF ImportEnd
  <2>2. writer = r
    BY <2>1 DEF SafeInv, TypeInv, LockTypes, Holds, Locked
  <2>3. CASE req[r].dryRun
    <3>1. Answer(r, "ok", NoImage, counts[r])
      BY <1>3, <2>3 DEF ImportEnd, Simulated
    <3> QED  BY <2>1, <2>2, <3>1, Closed
  <2>4. CASE ~req[r].dryRun
    <3>1. Goto(r, "commit") /\ UNCHANGED <<pend, req, seen, reply>>
      BY <1>3, <2>4 DEF ImportEnd, Simulated
    <3>2. req' = [req EXCEPT ![r] = req[r]] /\ seen' = [seen EXCEPT ![r] = seen[r]]
      BY <3>1, Same DEF SafeInv, TypeInv
    <3>3. /\ Ready(log, pend)
          /\ \A i \in (Len(log) + 1)..Len(pend.log) : pend.log[i].op = "import"
      BY <2>1, <2>4 DEF SafeInv, SlotOK
    <3>4. SlotOK(rows, log, pend', "commit", req[r], seen[r])
      BY <3>1, <3>3 DEF SlotOK
    <3> QED  BY <2>1, <2>2, <3>1, <3>2, <3>4, Settled
  <2> QED  BY <2>3, <2>4
<1> QED  BY <1>1, <1>2, <1>3, ImportNewSafe, ImportOverSafe DEF Import

LEMMA CommitSafe ==
    ASSUME SafeInv, TypeInv', NEW r \in Slots, Commit(r)
    PROVE  SafeInv'
<1>1. /\ pc[r] = "commit" /\ NoReader /\ rows' = pend.rows /\ log' = pend.log
      /\ Answer(r, "ok", NoImage, counts[r]) /\ SlotTypes
  BY DEF Commit, SafeInv, TypeInv
<1>2. writer = r
  BY <1>1 DEF SafeInv, TypeInv, LockTypes, Holds, Locked
<1>3. Good(rows', log') /\ Continues(log, log')
  BY <1>1 DEF SafeInv, SlotOK, Ready
<1>4. log \in Seq(Entry) /\ log' \in Seq(Entry)
  BY DEF SafeInv, TypeInv, DataTypes
<1>5. Len(log) \in Nat /\ Len(log') \in Nat /\ DOMAIN log = 1..Len(log)
      /\ DOMAIN log' = 1..Len(log')
  BY <1>4, LenProperties
<1>6. /\ \A s \in Slots \ {r} : /\ pc'[s] = pc[s] /\ req'[s] = req[s]
                                  /\ seen'[s] = seen[s] /\ reply'[s] = reply[s]
      /\ pc'[r] = "idle" /\ reply'[r].image = NoImage
  BY <1>1 DEF SlotTypes, Answer, Goto
<1>7. Good(rows, log)'
  BY <1>3 DEF Good, UniqueIds, UniqueKeys, Replayed, ReplacedTrue
<1>8. ReadsAreWhole'
  <2> SUFFICES ASSUME NEW s \in Slots, reply'[s].image # NoImage
               PROVE  \E i \in DOMAIN log' : log'[i].after = reply'[s].image
    BY DEF ReadsAreWhole
  <2>1. s # r /\ reply'[s] = reply[s]
    BY <1>6
  <2>2. PICK i \in DOMAIN log : log[i].after = reply[s].image
    BY <2>1 DEF SafeInv, ReadsAreWhole
  <2>3. i \in 1..Len(log') /\ log'[i] = log[i]
    BY <1>3, <1>5 DEF Continues
  <2> QED  BY <1>5, <2>1, <2>2, <2>3
<1>9. \A s \in Slots : SlotOK(rows', log', pend', pc'[s], req'[s], seen'[s])
  <2> TAKE s \in Slots
  <2>1. CASE s = r
    BY <1>6, <2>1 DEF SlotOK
  <2>2. CASE s # r
    <3>1. pc[s] \notin Locked /\ pc[s] # "lines"
      BY <1>1, <1>2, <2>2 DEF SafeInv, TypeInv, LockTypes, Holds, NoReader
    <3>2. pc[s] \in {"children", "remove"} => Mentioned(log', req[s].target)
      <4>1. pc[s] \in {"children", "remove"} => Mentioned(log, req[s].target)
        BY DEF SafeInv, SlotOK
      <4> QED  BY <1>3, <1>4, <4>1, MentionedKept
    <3> QED  BY <1>6, <2>2, <3>1, <3>2 DEF SlotOK, Locked
  <2> QED  BY <2>1, <2>2
<1>10. (\A s \in Slots : SlotOK(rows, log, pend, pc[s], req[s], seen[s]))'
  BY <1>9
<1> QED  BY <1>7, <1>8, <1>10 DEF SafeInv

LEMMA ReadRowSafe ==
    ASSUME SafeInv, TypeInv', NEW r \in Slots, ReadRow(r)
    PROVE  SafeInv'
<1> DEFINE q == req[r]
           x == q.target
<1>1. /\ UNCHANGED <<rows, log, pend>> /\ TypeInv
  BY DEF ReadRow, SafeInv
<1>2. CASE ~Stored(rows, q.kind, x)
  <2>1. Answer(r, "not_found", NoImage, NoCounts)
    BY <1>2 DEF ReadRow, Refuse
  <2> QED  BY <1>1, <2>1, Closed
<1>3. CASE Stored(rows, q.kind, x)
  <2>1. /\ seen' = [seen EXCEPT ![r] = rows[x]] /\ Goto(r, "lines")
        /\ UNCHANGED <<req, reply>>
    BY <1>3 DEF ReadRow
  <2>2. req' = [req EXCEPT ![r] = q]
    BY <1>1, <2>1, Same DEF TypeInv
  <2>3. SlotOK(rows, log, pend', "lines", q, rows[x])
    BY <1>3 DEF SlotOK
  <2> HIDE DEF q
  <2> QED  BY <1>1, <2>1, <2>2, <2>3, Settled
<1> QED  BY <1>2, <1>3

LEMMA ReadLinesSafe ==
    ASSUME SafeInv, TypeInv', NEW r \in Slots, ReadLines(r)
    PROVE  SafeInv'
<1> DEFINE q == req[r]
           x == q.target
           image == WithLines(seen[r], Children(rows, q.kind, seen[r].id)).image
<1>1. /\ pc[r] = "lines" /\ UNCHANGED <<rows, log, pend>> /\ TypeInv
      /\ UniqueIds(rows) /\ Replayed(rows, log) /\ rows \in Rows /\ log \in Seq(Entry)
      /\ Answer(r, "ok", image, NoCounts)
  BY DEF ReadLines, SafeInv, TypeInv, DataTypes, Good
<1>2. x \in Records /\ q.kind \in Kind
  BY <1>1, Same DEF TypeInv, StepOK
<1>3. seen[r] = rows[x] /\ Stored(rows, q.kind, x)
  BY <1>1 DEF SafeInv, SlotOK
<1>4. image = rows[x].image
  BY <1>1, <1>2, <1>3, ChildrenOf
<1>5. image = ImageAt(log, Len(log), x)
  BY <1>1, <1>2, <1>4 DEF Replayed
<1> HIDE DEF image
<1>6. image # NoImage => \E i \in DOMAIN log : log[i].after = image
  <2> SUFFICES ASSUME image # NoImage PROVE \E i \in DOMAIN log : log[i].after = image
    OBVIOUS
  <2>1. Len(log) \in Nat /\ DOMAIN log = 1..Len(log)
    BY <1>1, LenProperties
  <2>2. Mentions(log, Len(log), x) # {}
    BY <1>5 DEF ImageAt
  <2>3. Last(Mentions(log, Len(log), x)) \in Mentions(log, Len(log), x)
    BY <1>1, <2>1, <2>2, MentionsLast
  <2>4. Last(Mentions(log, Len(log), x)) \in 1..Len(log)
    BY <2>3 DEF Mentions
  <2> QED  BY <1>5, <2>1, <2>2, <2>4 DEF ImageAt
<1> QED  BY <1>1, <1>6, Closed

LEMMA FailSafe ==
    ASSUME SafeInv, TypeInv', NEW r \in Slots, Fail(r)
    PROVE  SafeInv'
<1>1. Answer(r, "unavailable", NoImage, NoCounts) /\ UNCHANGED <<rows, log>>
  BY DEF Fail, Refuse
<1>2. pend' = pend \/ writer = r
  BY DEF Fail, Holds
<1> QED  BY <1>1, <1>2, Closed

LEMMA SafeStep == SafeInv /\ [Next]_vars => SafeInv'
<1> SUFFICES ASSUME SafeInv, [Next]_vars PROVE SafeInv'
  OBVIOUS
<1>1. TypeInv'
  BY TypeStep DEF SafeInv
<1>2. CASE UNCHANGED vars
  <2>1. UNCHANGED <<rows, log, pend, pc, req, seen, reply>>
    BY <1>2 DEF vars
  <2>2. Good(rows, log)' /\ ReadsAreWhole'
    BY <2>1 DEF SafeInv, Good, UniqueIds, UniqueKeys, Replayed, ReplacedTrue, ReadsAreWhole
  <2>3. (\A r \in Slots : SlotOK(rows, log, pend, pc[r], req[r], seen[r]))'
    BY <2>1 DEF SafeInv
  <2> QED  BY <1>1, <2>2, <2>3 DEF SafeInv
<1>3. CASE Next
  <2>1. PICK r \in Slots : Arrive(r) \/ Advance(r) \/ Fail(r)
    BY <1>3 DEF Next
  <2> QED  BY <1>1, <2>1, ArriveSafe, InsertSafe, BeginSafe, ChangeSafe, FindSafe,
              FindChildrenSafe, RemoveSafe, AuditSafe, ImportSafe, CommitSafe,
              ReadRowSafe, ReadLinesSafe, FailSafe DEF Advance
<1> QED  BY <1>2, <1>3

LEMMA SafeSpec == Spec => []SafeInv
<1> QED  BY InitSafe, SafeStep, PTL DEF Spec

(* Only a commit moves the log, and it moves it as AuditLedger says.       *)
LEMMA LedgerStep == SafeInv /\ SafeInv' /\ [Next]_vars => [AppendEntries]_log
<1> SUFFICES ASSUME SafeInv, SafeInv', Next, log' # log PROVE AppendEntries
  BY DEF vars
<1>1. PICK r \in Slots : Commit(r)
  BY DEF Next, Arrive, Advance, Fail, Insert, Begin, Change, Find, FindChildren, Remove,
         Audit, Import, ImportNew, ImportOver, ImportNothing, ImportConflict, ImportEnd,
         Counted, ReadRow, ReadLines
<1>2. pc[r] = "commit" /\ log' = pend.log
  BY <1>1 DEF Commit
<1>3. /\ Continues(log, log')
      /\ \A i \in (Len(log) + 1)..Len(log') :
             log'[i].op = "import" \/ Len(log') = Len(log) + 1
  BY <1>2 DEF SafeInv, SlotOK, Ready
<1>4. log \in Seq(Entry) /\ log' \in Seq(Entry)
  BY DEF SafeInv, TypeInv, DataTypes
<1>5. Len(log) \in Nat /\ Len(log') \in Nat /\ Len(log) <= Len(log')
  BY <1>3, <1>4, LenProperties DEF Continues
<1>6. Len(log) # Len(log')
  <2> SUFFICES ASSUME Len(log) = Len(log') PROVE FALSE
    OBVIOUS
  <2>1. \A i \in 1..Len(log) : log[i] = log'[i]
    BY <1>3 DEF Continues
  <2>2. log = log'
    BY <1>4, <2>1, SeqEqual
  <2> QED  BY <2>2
<1>7. Len(log) < Len(log')
  BY <1>5, <1>6
<1>8. \A i \in 1..Len(log) : log'[i] = log[i]
  BY <1>3 DEF Continues
<1>9. \A i \in (Len(log) + 1)..Len(log') :
         log'[i].op = "import" \/ (Len(log) + 1)..Len(log') = {i}
  <2> TAKE i \in (Len(log) + 1)..Len(log')
  <2>1. Len(log') = Len(log) + 1 => (Len(log) + 1)..Len(log') = {i}
    BY <1>5
  <2> QED  BY <1>3, <2>1
<1>10. \A i \in (Len(log) + 1)..Len(log') : Legal(log', i)
  BY <1>3 DEF Continues
<1> QED  BY <1>4, <1>7, <1>8, <1>9, <1>10 DEF AppendEntries

-----------------------------------------------------------------------------
(* What an import has counted.                                             *)

(* A slot that applies an import has dealt with as many records as it has  *)
(* counted, and its transaction has an entry for each that changed one.    *)
Tallied(l, p, step, q, d, c) ==
    /\ step = "idle" => q.op = "get"
    /\ step \in {"idle", "begin"} => d = 0 /\ c = NoCounts
    /\ step = "items" \/ (step = "commit" /\ q.op = "import") =>
          /\ c.created + c.replaced + c.skipped = d
          /\ Len(p.log) = Len(l) + IF q.dryRun THEN 0 ELSE c.created + c.replaced
    /\ step = "commit" /\ q.op = "import" => d = Len(q.batch) /\ ~q.dryRun

TallyInv == \A r \in Slots : Tallied(log, pend, pc[r], req[r], done[r], counts[r])

(* Nobody else moves the log, or what is uncommitted, under a lock.        *)
LEMMA UnderLock ==
    ASSUME TypeInv, NEW r \in Slots, Arrive(r) \/ Advance(r) \/ Fail(r),
           NEW s \in Slots \ {r}, pc[s] \in Locked
    PROVE  UNCHANGED <<log, pend>>
<1>1. writer = s /\ writer # r /\ writer # NoSlot /\ pc[r] \notin Locked
  BY SlotAssumption DEF TypeInv, LockTypes, Holds
<1>2. CASE Arrive(r) \/ Fail(r)
  BY <1>1, <1>2 DEF Arrive, Fail, Holds
<1>3. CASE Insert(r) \/ Begin(r) \/ Remove(r)
  BY <1>1, <1>3 DEF Insert, Begin, Remove, Lock
<1>4. CASE Find(r) \/ FindChildren(r) \/ ReadRow(r) \/ ReadLines(r)
  BY <1>4 DEF Find, FindChildren, ReadRow, ReadLines
<1>5. CASE Change(r) \/ Audit(r) \/ Import(r) \/ Commit(r)
  BY <1>1, <1>5 DEF Change, Audit, Import, ImportNew, ImportOver, ImportNothing,
     ImportConflict, ImportEnd, Importing, Commit, Locked
<1> QED  BY <1>2, <1>3, <1>4, <1>5 DEF Advance

(* A step of one slot leaves what the others hold.                         *)
LEMMA OthersHold ==
    ASSUME TypeInv, NEW r \in Slots, Arrive(r) \/ Advance(r) \/ Fail(r),
           NEW s \in Slots \ {r}
    PROVE  pc'[s] = pc[s] /\ req'[s] = req[s] /\ done'[s] = done[s] /\ counts'[s] = counts[s]
<1> USE DEF TypeInv, SlotTypes, Goto, Refuse, Answer
<1>1. CASE Arrive(r) \/ Fail(r)
  BY <1>1 DEF Arrive, Fail
<1>2. CASE Insert(r) \/ Begin(r) \/ Remove(r)
  BY <1>2 DEF Insert, Begin, Remove
<1>3. CASE Find(r) \/ FindChildren(r) \/ ReadRow(r) \/ ReadLines(r)
  BY <1>3 DEF Find, FindChildren, ReadRow, ReadLines
<1>4. CASE Change(r) \/ Audit(r) \/ Commit(r)
  BY <1>4 DEF Change, Audit, Commit
<1>5. CASE Import(r)
  BY <1>5 DEF Import, ImportNew, ImportOver, ImportNothing, ImportConflict, ImportEnd, Counted
<1> QED  BY <1>1, <1>2, <1>3, <1>4, <1>5 DEF Advance

(* Whoever is answered holds nothing any more.                             *)
LEMMA AnsweredTally ==
    ASSUME SlotTypes, NEW r \in Slots, NEW kind, NEW image, NEW c,
           Answer(r, kind, image, c), NEW l, NEW p
    PROVE  Tallied(l, p, pc'[r], req'[r], done'[r], counts'[r])
<1>1. pc'[r] = "idle" /\ req'[r] = SomeRequest /\ done'[r] = 0 /\ counts'[r] = NoCounts
  BY DEF SlotTypes, Answer, Goto
<1>2. SomeRequest.op = "get"
  BY DEF SomeRequest
<1> QED  BY <1>1, <1>2 DEF Tallied

LEMMA RefusedTally ==
    ASSUME SlotTypes, NEW r \in Slots, NEW kind, Refuse(r, kind), NEW l, NEW p
    PROVE  Tallied(l, p, pc'[r], req'[r], done'[r], counts'[r])
BY AnsweredTally DEF Refuse

(* One more record dealt with is one more counted, and one more entry if   *)
(* it was written.                                                         *)
LEMMA CountedTally ==
    ASSUME TypeInv, TallyInv, NEW r \in Slots, Importing(r),
           NEW outcome \in {"created", "replaced", "skipped"}, Counted(r, outcome),
           pend'.log \in Seq(Entry),
           Len(pend'.log) = Len(pend.log)
               + (IF req[r].dryRun \/ outcome = "skipped" THEN 0 ELSE 1)
    PROVE  Tallied(log', pend', pc'[r], req'[r], done'[r], counts'[r])
<1>1. /\ done'[r] = done[r] + 1 /\ done[r] \in Nat
      /\ counts'[r] = [counts[r] EXCEPT ![outcome] = @ + 1] /\ counts[r] \in Counts
      /\ log' = log /\ pc'[r] = pc[r] /\ req'[r] = req[r]
  BY DEF Counted, TypeInv, SlotTypes
<1>2. pc[r] = "items"
  BY DEF Importing
<1>3. /\ counts[r].created \in Nat /\ counts[r].replaced \in Nat /\ counts[r].skipped \in Nat
      /\ Len(log) \in Nat /\ Len(pend.log) \in Nat /\ Len(pend'.log) \in Nat
  BY <1>1, LenProperties DEF Counts, TypeInv, DataTypes
<1>4. /\ counts[r].created + counts[r].replaced + counts[r].skipped = done[r]
      /\ Len(pend.log) = Len(log)
             + IF req[r].dryRun THEN 0 ELSE counts[r].created + counts[r].replaced
  BY <1>2 DEF TallyInv, Tallied
<1>5. /\ counts'[r].created = counts[r].created + (IF outcome = "created" THEN 1 ELSE 0)
      /\ counts'[r].replaced = counts[r].replaced + (IF outcome = "replaced" THEN 1 ELSE 0)
      /\ counts'[r].skipped = counts[r].skipped + (IF outcome = "skipped" THEN 1 ELSE 0)
  BY <1>1, <1>3 DEF Counts
<1> DEFINE c == counts[r].created
           d == counts[r].replaced
           s == counts[r].skipped
           c1 == counts'[r].created
           d1 == counts'[r].replaced
           s1 == counts'[r].skipped
           n1 == Len(pend'.log)
           m == Len(log)
<1>8. /\ c \in Nat /\ d \in Nat /\ s \in Nat /\ m \in Nat /\ n1 \in Nat
      /\ c1 = c + (IF outcome = "created" THEN 1 ELSE 0)
      /\ d1 = d + (IF outcome = "replaced" THEN 1 ELSE 0)
      /\ s1 = s + (IF outcome = "skipped" THEN 1 ELSE 0)
      /\ c + d + s = done[r]
  BY <1>3, <1>4, <1>5
<1>9. n1 = m + (IF req[r].dryRun THEN 0 ELSE c + d)
             + (IF req[r].dryRun \/ outcome = "skipped" THEN 0 ELSE 1)
  BY <1>3, <1>4
<1>10. Len(log') = m
  BY <1>1
<1> HIDE DEF c, d, s, c1, d1, s1, n1, m
<1>6. c1 + d1 + s1 = done'[r]
  BY <1>1, <1>8
<1>7. n1 = Len(log') + IF req'[r].dryRun THEN 0 ELSE c1 + d1
  <2>1. req'[r].dryRun = req[r].dryRun
    BY <1>1
  <2>2. CASE req[r].dryRun
    BY <1>8, <1>9, <1>10, <2>1, <2>2
  <2>3. CASE ~req[r].dryRun
    BY <1>8, <1>9, <1>10, <2>1, <2>3
  <2> QED  BY <2>2, <2>3
<1> QED  BY <1>1, <1>2, <1>6, <1>7 DEF Tallied, c1, d1, s1, n1

LEMMA ImportTally ==
    ASSUME TypeInv, TypeInv', TallyInv, NEW r \in Slots, Import(r)
    PROVE  Tallied(log', pend', pc'[r], req'[r], done'[r], counts'[r])
<1>1. SlotTypes /\ pend.log \in Seq(Entry) /\ pend'.log \in Seq(Entry)
  BY DEF TypeInv, DataTypes
<1>2. ASSUME NEW x, NEW row, Apply(r, x, row)
      PROVE  Len(pend'.log) = Len(pend.log) + (IF req[r].dryRun THEN 0 ELSE 1)
  <2> DEFINE e == AuditEntry("import", x, Before(r, x), row.image)
  <2>1. pend'.log = IF req[r].dryRun THEN pend.log ELSE Append(pend.log, e)
    BY <1>2 DEF Apply
  <2> HIDE DEF e
  <2>2. Len(Append(pend.log, e)) = Len(pend.log) + 1 /\ Len(pend.log) \in Nat
    BY <1>1, LenProperties
  <2>3. CASE req[r].dryRun
    BY <2>1, <2>2, <2>3
  <2>4. CASE ~req[r].dryRun
    BY <2>1, <2>2, <2>4
  <2> QED  BY <2>3, <2>4
<1>3. CASE ImportNew(r)
  <2>1. /\ Importing(r) /\ Counted(r, "created")
        /\ Len(pend'.log) = Len(pend.log) + (IF req[r].dryRun THEN 0 ELSE 1)
    BY <1>2, <1>3 DEF ImportNew
  <2> QED  BY <1>1, <2>1, CountedTally
<1>4. CASE ImportOver(r)
  <2>1. /\ Importing(r) /\ Counted(r, "replaced")
        /\ Len(pend'.log) = Len(pend.log) + (IF req[r].dryRun THEN 0 ELSE 1)
    BY <1>2, <1>4 DEF ImportOver
  <2> QED  BY <1>1, <2>1, CountedTally
<1>5. CASE ImportNothing(r)
  <2>1. /\ Importing(r) /\ Counted(r, "skipped") /\ Len(pend'.log) = Len(pend.log) + 0
    BY <1>1, <1>5, LenProperties DEF ImportNothing
  <2> QED  BY <1>1, <2>1, CountedTally
<1>6. CASE ImportConflict(r)
  BY <1>1, <1>6, RefusedTally DEF ImportConflict
<1>7. CASE ImportEnd(r)
  <2>1. pc[r] = "items" /\ done[r] = Len(req[r].batch) /\ log' = log
    BY <1>7 DEF ImportEnd
  <2>2. CASE Answer(r, "ok", NoImage, counts[r])
    BY <1>1, <2>2, AnsweredTally
  <2>3. CASE /\ ~req[r].dryRun /\ Goto(r, "commit")
             /\ UNCHANGED <<pend, req, done, counts>>
    <3>1. Tallied(log, pend, "items", req[r], done[r], counts[r])
      BY <2>1 DEF TallyInv
    <3>2. pc'[r] = "commit"
      BY <1>1, <2>3 DEF Goto, SlotTypes
    <3> QED  BY <2>1, <2>3, <3>1, <3>2 DEF Tallied
  <2> QED  BY <1>7, <2>2, <2>3 DEF ImportEnd, Simulated
<1> QED  BY <1>3, <1>4, <1>5, <1>6, <1>7 DEF Import

LEMMA TallyStep == TypeInv /\ TypeInv' /\ TallyInv /\ [Next]_vars => TallyInv'
<1> SUFFICES ASSUME TypeInv, TypeInv', TallyInv, [Next]_vars PROVE TallyInv'
  OBVIOUS
<1>1. CASE UNCHANGED vars
  BY <1>1 DEF vars, TallyInv
<1>2. ASSUME NEW r \in Slots, Arrive(r) \/ Advance(r) \/ Fail(r)
      PROVE  Tallied(log', pend', pc'[r], req'[r], done'[r], counts'[r])
  <2>1. SlotTypes /\ StepOK(r) /\ Tallied(log, pend, pc[r], req[r], done[r], counts[r])
    BY DEF TypeInv, TallyInv
  <2>2. CASE Arrive(r)
    <3>1. pc[r] = "idle" /\ done' = done /\ counts' = counts
      BY <2>2 DEF Arrive
    <3>2. PICK q \in Offers : Goto(r, FirstStep[q.op]) /\ req'[r] = q
      BY <2>1, <2>2 DEF Arrive, SlotTypes
    <3>3. q.op \in Operation
      BY OfferAssumption DEF ValidRequest, Request
    <3>4. FirstStep[q.op] \in {"insert", "begin", "find", "snapshot"}
      BY <3>3 DEF FirstStep, Operation
    <3>5. pc'[r] = FirstStep[q.op]
      BY <2>1, <3>2 DEF Goto, SlotTypes
    <3> QED  BY <2>1, <3>1, <3>4, <3>5 DEF Tallied
  <2>3. CASE Begin(r)
    <3>1. /\ pc[r] = "begin" /\ pend'.log = log /\ UNCHANGED <<log, req, done, counts>>
          /\ pc'[r] = IF req[r].op = "update" THEN "change" ELSE "items"
      BY <2>1, <2>3 DEF Begin, Goto, SlotTypes
    <3>2. done[r] = 0 /\ counts[r] = NoCounts
      BY <2>1, <3>1 DEF Tallied
    <3>3. NoCounts.created = 0 /\ NoCounts.replaced = 0 /\ NoCounts.skipped = 0
      BY DEF NoCounts
    <3>4. Len(log) \in Nat
      BY LenProperties DEF TypeInv, DataTypes
    <3> QED  BY <3>1, <3>2, <3>3, <3>4 DEF Tallied
  <2>4. CASE Insert(r) \/ Change(r)
    <3>1. \/ Refuse(r, "conflict") \/ Refuse(r, "not_found") \/ Goto(r, "audit")
      BY <2>4 DEF Insert, Change
    <3>2. CASE Goto(r, "audit")
      <4>1. pc'[r] = "audit"
        BY <2>1, <3>2 DEF Goto, SlotTypes
      <4> QED  BY <4>1 DEF Tallied
    <3> QED  BY <2>1, <3>1, <3>2, RefusedTally
  <2>5. CASE Find(r) \/ FindChildren(r) \/ Remove(r) \/ ReadRow(r)
    <3>1. \/ Refuse(r, "not_found")
          \/ \E step \in {"children", "remove", "audit", "lines"} : Goto(r, step)
      BY <2>5 DEF Find, FindChildren, Remove, ReadRow
    <3>2. CASE \E step \in {"children", "remove", "audit", "lines"} : Goto(r, step)
      <4>1. pc'[r] \in {"children", "remove", "audit", "lines"}
        BY <2>1, <3>2 DEF Goto, SlotTypes
      <4> QED  BY <4>1 DEF Tallied
    <3> QED  BY <2>1, <3>1, <3>2, RefusedTally
  <2>6. CASE Audit(r)
    <3>1. pc'[r] = "commit" /\ req'[r].op # "import"
      BY <2>1, <2>6 DEF Audit, Goto, SlotTypes, StepOK
    <3> QED  BY <3>1 DEF Tallied
  <2>7. CASE Import(r)
    BY <2>7, ImportTally
  <2>8. CASE Commit(r) \/ ReadLines(r)
    BY <2>1, <2>8, AnsweredTally DEF Commit, ReadLines
  <2>9. CASE Fail(r)
    BY <2>1, <2>9, RefusedTally DEF Fail
  <2> QED  BY <1>2, <2>2, <2>3, <2>4, <2>5, <2>6, <2>7, <2>8, <2>9 DEF Advance
<1>3. ASSUME NEW r \in Slots, Arrive(r) \/ Advance(r) \/ Fail(r), NEW s \in Slots \ {r}
      PROVE  Tallied(log', pend', pc'[s], req'[s], done'[s], counts'[s])
  <2>1. Tallied(log, pend, pc[s], req[s], done[s], counts[s])
    BY DEF TallyInv
  <2>2. pc'[s] = pc[s] /\ req'[s] = req[s] /\ done'[s] = done[s] /\ counts'[s] = counts[s]
    BY <1>3, OthersHold
  <2>3. CASE pc[s] \in Locked
    <3>1. log' = log /\ pend' = pend
      BY <1>3, <2>3, UnderLock
    <3> QED  BY <2>1, <2>2, <3>1
  <2>4. CASE pc[s] \notin Locked
    BY <2>1, <2>2, <2>4 DEF Tallied, Locked
  <2> QED  BY <2>3, <2>4
<1>4. CASE Next
  <2>1. PICK r \in Slots : Arrive(r) \/ Advance(r) \/ Fail(r)
    BY <1>4 DEF Next
  <2>2. \A s \in Slots : Tallied(log', pend', pc'[s], req'[s], done'[s], counts'[s])
    BY <1>2, <1>3, <2>1
  <2> QED  BY <2>2 DEF TallyInv
<1> QED  BY <1>1, <1>4

(* An import that is answered "ok" was counted to its end.                 *)
LEMMA AnsweredImport ==
    ASSUME TypeInv, TallyInv, [Next]_vars, NEW r \in Slots,
           req[r].op = "import", pc'[r] = "idle", reply'[r].kind = "ok"
    PROVE  /\ reply'[r].counts = counts[r] /\ done[r] = Len(req[r].batch)
           /\ Tallied(log, pend, pc[r], req[r], done[r], counts[r])
           /\ \/ pc[r] = "items" /\ req[r].dryRun /\ log' = log
              \/ pc[r] = "commit" /\ log' = pend.log
<1>1. SlotTypes /\ StepOK(r) /\ Tallied(log, pend, pc[r], req[r], done[r], counts[r])
  BY DEF TypeInv, TallyInv
<1>2. pc[r] # "idle"
  BY <1>1 DEF Tallied
<1>3. Arrive(r) \/ Advance(r) \/ Fail(r)
  <2>1. ~UNCHANGED vars
    BY <1>2 DEF vars
  <2>2. PICK s \in Slots : Arrive(s) \/ Advance(s) \/ Fail(s)
    BY <2>1 DEF Next
  <2>3. s = r
    BY <1>2, <2>2, OthersHold
  <2> QED  BY <2>2, <2>3
<1>4. ASSUME NEW kind, Refuse(r, kind) PROVE kind = "ok"
  BY <1>1, <1>4 DEF Refuse, Answer, SlotTypes
<1>5. ASSUME NEW step, Goto(r, step) PROVE step = "idle"
  BY <1>1, <1>5 DEF Goto, SlotTypes
<1>6. CASE Arrive(r) \/ Fail(r)
  BY <1>2, <1>4, <1>6 DEF Arrive, Fail
<1>7. CASE Insert(r) \/ Change(r) \/ Find(r) \/ FindChildren(r) \/ Remove(r)
  BY <1>4, <1>5, <1>7 DEF Insert, Change, Find, FindChildren, Remove
<1>8. CASE Begin(r) \/ Audit(r)
  BY <1>5, <1>8 DEF Begin, Audit
<1>9. CASE ReadRow(r) \/ ReadLines(r)
  BY <1>1, <1>9 DEF ReadRow, ReadLines, StepOK
<1>10. CASE Import(r)
  <2>1. CASE ImportNew(r) \/ ImportOver(r) \/ ImportNothing(r)
    BY <1>2, <2>1 DEF ImportNew, ImportOver, ImportNothing, Counted
  <2>2. CASE ImportConflict(r)
    BY <1>4, <2>2 DEF ImportConflict
  <2>3. CASE ImportEnd(r)
    <3>1. /\ pc[r] = "items" /\ done[r] = Len(req[r].batch) /\ log' = log
          /\ req[r].dryRun /\ Answer(r, "ok", NoImage, counts[r])
      BY <1>5, <2>3 DEF ImportEnd, Simulated
    <3>2. reply'[r] = [kind |-> "ok", image |-> NoImage, counts |-> counts[r]]
      BY <1>1, <3>1 DEF Answer, SlotTypes
    <3> QED  BY <1>1, <3>1, <3>2
  <2> QED  BY <1>10, <2>1, <2>2, <2>3 DEF Import
<1>11. CASE Commit(r)
  <2>1. pc[r] = "commit" /\ log' = pend.log /\ Answer(r, "ok", NoImage, counts[r])
    BY <1>11 DEF Commit
  <2>2. reply'[r] = [kind |-> "ok", image |-> NoImage, counts |-> counts[r]]
    BY <1>1, <2>1 DEF Answer, SlotTypes
  <2>3. done[r] = Len(req[r].batch)
    BY <1>1, <2>1 DEF Tallied
  <2> QED  BY <1>1, <2>1, <2>2, <2>3
<1> QED  BY <1>3, <1>6, <1>7, <1>8, <1>9, <1>10, <1>11 DEF Advance

-----------------------------------------------------------------------------
(* What is stored can be read off the audit log, whichever requests run at *)
(* once, are refused, simulated, fail or die: rows and entries are         *)
(* committed together or not at all.                                       *)
THEOREM TablesReplay == Spec => []LogReplays
<1>1. SafeInv => LogReplays
  BY DEF SafeInv, Good, Replayed, LogReplays
<1> QED  BY <1>1, SafeSpec, PTL

(* The before image of every update and import is the record as the entry  *)
(* before left it: it is read under the write lock it is written with.     *)
THEOREM ReplacedImagesHold == Spec => []ReplacedImagesTrue
<1>1. SafeInv => ReplacedImagesTrue
  BY DEF SafeInv, Good, ReplacedTrue, ReplacedImagesTrue
<1> QED  BY <1>1, SafeSpec, PTL

(* The audit log is true of the tables, and its entries of each other.     *)
THEOREM LogIsTrue == Spec => []LogTrue
<1>1. LogReplays /\ ReplacedImagesTrue => LogTrue
  BY DEF LogTrue
<1> QED  BY <1>1, TablesReplay, ReplacedImagesHold, PTL

(* A record that is read is one version of it, row and children together:  *)
(* both come from one read transaction.                                    *)
THEOREM ReadsHold == Spec => []ReadsAreWhole
<1>1. SafeInv => ReadsAreWhole
  BY DEF SafeInv
<1> QED  BY <1>1, SafeSpec, PTL

(* The store implements the log it promises: every step appends the legal  *)
(* entries of one request, or leaves the log alone.                        *)
THEOREM LedgerImplemented == Spec => ImplementsLedger
<1>1. Init => LedgerInit
  BY DEF Init, LedgerInit
<1>2. SafeInv /\ SafeInv' /\ [Next]_vars => [AppendEntries]_log
  BY LedgerStep
<1> QED  BY <1>1, <1>2, SafeSpec, PTL DEF Spec, ImplementsLedger, LedgerSpec

(* The counts an import answers with are those of its batch and of what    *)
(* its commit adds to the log, and a dry run answers the same and adds     *)
(* nothing, whoever else runs, fails or commits between its statements.    *)
THEOREM CountsAreTrue == Spec => CountsTrue
<1> DEFINE P == \A r \in Slots :
                   req[r].op = "import" /\ pc'[r] = "idle" /\ reply'[r].kind = "ok" =>
                       LET c == reply'[r].counts
                       IN  /\ c.created + c.replaced + c.skipped = Len(req[r].batch)
                           /\ Len(log') - Len(log) =
                                  IF req[r].dryRun THEN 0 ELSE c.created + c.replaced
<1>1. Init => TallyInv
  <2> SUFFICES ASSUME Init, NEW r \in Slots
               PROVE  Tallied(log, pend, pc[r], req[r], done[r], counts[r])
    BY DEF TallyInv
  <2>1. pc[r] = "idle" /\ req[r] = SomeRequest /\ done[r] = 0 /\ counts[r] = NoCounts
    BY DEF Init
  <2>2. SomeRequest.op = "get"
    BY DEF SomeRequest
  <2> QED  BY <2>1, <2>2 DEF Tallied
<1>2. TypeInv /\ TypeInv' /\ TallyInv /\ [Next]_vars => TallyInv'
  BY TallyStep
<1>3. TypeInv /\ TallyInv /\ [Next]_vars => [P]_vars
  <2> SUFFICES ASSUME TypeInv, TallyInv, [Next]_vars, NEW r \in Slots,
                      req[r].op = "import", pc'[r] = "idle", reply'[r].kind = "ok"
               PROVE  /\ counts[r].created + counts[r].replaced + counts[r].skipped
                             = Len(req[r].batch)
                      /\ Len(log') - Len(log) =
                             IF req[r].dryRun THEN 0
                             ELSE counts[r].created + counts[r].replaced
    BY AnsweredImport
  <2>1. /\ Tallied(log, pend, pc[r], req[r], done[r], counts[r])
        /\ done[r] = Len(req[r].batch)
        /\ \/ pc[r] = "items" /\ req[r].dryRun /\ log' = log
           \/ pc[r] = "commit" /\ log' = pend.log
    BY AnsweredImport
  <2>2. /\ counts[r].created \in Nat /\ counts[r].replaced \in Nat
        /\ Len(log) \in Nat /\ Len(pend.log) \in Nat
    BY LenProperties DEF Counts, TypeInv, SlotTypes, DataTypes
  <2>3. counts[r].created + counts[r].replaced + counts[r].skipped = Len(req[r].batch)
    BY <2>1 DEF Tallied
  <2>4. CASE pc[r] = "items"
    BY <2>1, <2>2, <2>3, <2>4
  <2>5. CASE pc[r] = "commit"
    <3>1. Len(pend.log) = Len(log)
             + IF req[r].dryRun THEN 0 ELSE counts[r].created + counts[r].replaced
      BY <2>1, <2>5 DEF Tallied
    <3>2. log' = pend.log
      BY <2>1, <2>5
    <3>3. ~req[r].dryRun
      BY <2>1, <2>5 DEF Tallied
    <3>4. Len(pend.log) = Len(log) + (counts[r].created + counts[r].replaced)
      BY <3>1, <3>3, Zenon
    <3>5. Len(log') = Len(pend.log)
      BY <3>2, Zenon
    <3>6. Len(log') - Len(log) = counts[r].created + counts[r].replaced
      <4>1. \A n, k \in Nat : n + k \in Nat
        OBVIOUS
      <4>2. \A n, k \in Nat : (n + k) - n = k
        OBVIOUS
      <4>3. (Len(log) + (counts[r].created + counts[r].replaced)) - Len(log)
                = counts[r].created + counts[r].replaced
        BY <2>2, <4>1, <4>2, Zenon
      <4> QED  BY <3>4, <3>5, <4>3, Zenon
    <3> QED  BY <2>3, <3>3, <3>6
  <2> QED  BY <2>1, <2>4, <2>5
<1> HIDE DEF P
<1>4. Init => TypeInv
  BY InitTypes
<1>5. TypeInv /\ [Next]_vars => TypeInv'
  BY TypeStep
<1>6. Spec => [][P]_vars
  BY <1>1, <1>2, <1>3, <1>4, <1>5, PTL DEF Spec
<1> QED  BY <1>6 DEF CountsTrue, P

=============================================================================
