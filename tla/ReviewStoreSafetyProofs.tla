---------------------- MODULE ReviewStoreSafetyProofs ----------------------
(***************************************************************************)
(* The safety properties of ReviewStore and its refinement of the ledger,  *)
(* from the invariant of ReviewStoreProofs: a commit appends to a case the *)
(* one event computed from the row it replaces.                            *)
(***************************************************************************)
EXTENDS ReviewStoreProofs

StoreInvariant ==
    /\ HistoryConsistent
    /\ KeysMatchEvents
    /\ ExpectedVersionHonoured
    /\ ReviewerAuthority

(* The committed store changes only when a request publishes.              *)
LEMMA OnlyCommitsPublish ==
    ASSUME TypeOK, RequestInvariant, [Next]_vars
    PROVE  \/ UNCHANGED store
           \/ \E r \in Requests : Commit(r) /\ Publishes(r)
<1>1. ASSUME NEW r \in Requests, Advance(r)
      PROVE  UNCHANGED store \/ (Commit(r) /\ Publishes(r))
  <2>1. CASE Commit(r)
    BY <2>1, CommitPublishes
  <2>2. CASE ~Commit(r)
    BY <1>1, <2>2 DEF Advance, Precheck, Process, Lookup, ReplayRow, ReplayEvents,
       ReadRow, Write, AppendEvent, RecordKey, Resolve, store
  <2> QED
    BY <2>1, <2>2
<1>2. ASSUME NEW r \in Requests, Arrive(r) \/ Busy(r)
      PROVE  UNCHANGED store
  BY <1>2 DEF Arrive, Busy, store
<1>3. CASE Crash \/ Tick \/ UNCHANGED vars
  BY <1>3 DEF Crash, Tick, vars, store
<1> QED
  BY <1>1, <1>2, <1>3 DEF Next

-----------------------------------------------------------------------------
(* Histories.                                                              *)

(* Events of other cases do not matter to a case's history.                *)
LEMMA OtherCase ==
    ASSUME NEW table, NEW e, NEW c, NEW row, e.case # c
    PROVE  Hydrates(c, row, table \cup {e}) <=> Hydrates(c, row, table)
<1>1. History(table \cup {e}, c) = History(table, c)
  BY DEF History
<1> QED
  BY <1>1 DEF Hydrates, IsAssignee

(* The version a published event has is new to its case.                   *)
LEMMA PublishedVersionIsNew ==
    ASSUME TypeOK, RequestInvariant, HistoryConsistent,
           NEW r \in Requests, Commit(r)
    PROVE  \A f \in events : f.case = req[r].case => f.version < NewRow(r).version
<1> DEFINE c == req[r].case
<1>1. c \in Cases /\ cases[c] \in Row /\ NewRow(r).version = cases[c].version + 1
  BY CommitPublishes, PublishedVersion
<1> SUFFICES ASSUME NEW f \in events, f.case = c
             PROVE  f.version < NewRow(r).version
  OBVIOUS
<1>2. cases[c] # NoRow
  BY DEF HistoryConsistent
<1>3. Hydrates(c, cases[c], events)
  BY <1>1, <1>2 DEF HistoryConsistent
<1>4. f.version <= cases[c].version
  BY <1>3 DEF Hydrates, History
<1>5. f.version \in Nat /\ cases[c].version \in Nat
  BY <1>1 DEF TypeOK, Event, Row
<1> QED
  BY <1>1, <1>4, <1>5

(* The new event, field by field.                                          *)
LEMMA NewEventFields ==
    ASSUME NEW r \in Requests
    PROVE  /\ NewEvent(r).case = req[r].case
           /\ NewEvent(r).version = NewRow(r).version
           /\ NewEvent(r).type = TransitionOf(r).type
           /\ NewEvent(r).actor = req[r].actor
           /\ NewEvent(r).at = stamp[r]
           /\ NewEvent(r).key = req[r].key
           /\ NewEvent(r).prior = PriorStatus(r)
           /\ NewEvent(r).result = TransitionOf(r).result
           /\ NewEvent(r).assigned = Target(req[r])
           /\ NewKey(r).case = req[r].case
           /\ NewKey(r).version = NewRow(r).version
           /\ NewKey(r).actor = req[r].actor
           /\ NewKey(r).op = req[r].op
           /\ NewKey(r).key = req[r].key
           /\ NewKey(r).at = stamp[r]
           /\ NewKey(r).digest = DigestOf(req[r])
  BY DEF NewEvent, NewKey

LEMMA PublishKeepsHistory ==
    ASSUME TypeOK, RequestInvariant, HistoryConsistent,
           NEW r \in Requests, Commit(r), Publishes(r)
    PROVE  HistoryConsistent'
<1> DEFINE c == req[r].case
           e == NewEvent(r)
<1>1. c \in Cases /\ e.case = c /\ e \in Event
  BY CommitPublishes, NewTypes, NewEventFields
<1>2. /\ cases' = [cases EXCEPT ![c] = NewRow(r)]
      /\ events' = events \cup {e}
      /\ Hydrates(c, NewRow(r), events \cup {e})
  BY CommitPublishes DEF Publishes, ReadBack
<1>3. cases'[c] = NewRow(r) /\ \A d \in Cases \ {c} : cases'[d] = cases[d]
  BY <1>1, <1>2 DEF TypeOK
<1>4. cases'[c] # NoRow
  BY <1>1, <1>3, PublishedVersion DEF NoRow, Row
<1>5. ASSUME NEW d \in Cases, cases'[d] # NoRow
      PROVE  Hydrates(d, cases'[d], events')
  <2>1. CASE d = c
    BY <1>2, <1>3, <2>1
  <2>2. CASE d # c
    <3>1. Hydrates(d, cases[d], events) /\ cases'[d] = cases[d]
      BY <1>3, <1>5, <2>2 DEF HistoryConsistent
    <3> QED
      BY <1>1, <1>2, <2>2, <3>1, OtherCase
  <2> QED
    BY <2>1, <2>2
<1>6. ASSUME NEW f \in events'
      PROVE  cases'[f.case] # NoRow
  <2>1. CASE f.case = c
    BY <1>4, <2>1
  <2>2. CASE f.case # c
    <3>1. f \in events /\ f.case \in Cases
      BY <1>1, <1>2, <2>2 DEF TypeOK, Event
    <3> QED
      BY <1>3, <2>2, <3>1 DEF HistoryConsistent
  <2> QED
    BY <2>1, <2>2
<1> QED
  BY <1>5, <1>6 DEF HistoryConsistent, Hydrates, History, IsAssignee

-----------------------------------------------------------------------------
(* Keys.                                                                   *)

LEMMA PublishKeepsKeys ==
    ASSUME TypeOK, RequestInvariant, HistoryConsistent, KeysMatchEvents,
           NEW r \in Requests, Commit(r), Publishes(r)
    PROVE  KeysMatchEvents'
<1> DEFINE e == NewEvent(r)
           n == NewKey(r)
<1>1. events' = events \cup {e} /\ keys' = keys \cup {n}
  BY DEF Publishes
<1>2. /\ e.case = n.case /\ e.version = n.version /\ e.actor = n.actor
      /\ e.key = n.key /\ e.at = n.at
  BY NewEventFields
<1>3. EventOperation(e.type) = n.op
  BY CommitPublishes, NewTypes, TransitionType, NewEventFields
<1>4. \A k \in keys : ~Scoped(k, n) /\ ~Scoped(n, k)
  BY CommitPublishes, NewEventFields DEF StoredKeys, Scoped
<1>5. \A k \in keys : ~(k.case = n.case /\ k.version = n.version)
  <2> SUFFICES ASSUME NEW k \in keys, k.case = n.case, k.version = n.version
               PROVE  FALSE
    OBVIOUS
  <2>1. PICK f \in events : f.case = k.case /\ f.version = k.version
    BY DEF KeysMatchEvents
  <2>2. f.version < NewRow(r).version
    BY <2>1, PublishedVersionIsNew, NewEventFields
  <2>3. f.version = NewRow(r).version /\ f.version \in Nat
    BY <2>1, NewEventFields DEF TypeOK, Event
  <2> QED
    BY <2>2, <2>3
<1>6. ASSUME NEW k \in keys'
      PROVE  \E f \in events' :
                /\ f.case = k.case /\ f.version = k.version
                /\ f.actor = k.actor /\ f.key = k.key /\ f.at = k.at
                /\ EventOperation(f.type) = k.op
  BY <1>1, <1>2, <1>3 DEF KeysMatchEvents
<1>7. ASSUME NEW f \in events'
      PROVE  \E k \in keys' : k.case = f.case /\ k.version = f.version
  BY <1>1, <1>2 DEF KeysMatchEvents
<1>8. ASSUME NEW k \in keys', NEW l \in keys',
             Scoped(k, l) \/ (k.case = l.case /\ k.version = l.version)
      PROVE  k = l
  <2>1. CASE k \in keys /\ l \in keys
    BY <1>8, <2>1 DEF KeysMatchEvents
  <2>2. CASE k = n /\ l \in keys
    BY <1>4, <1>5, <1>8, <2>2
  <2>3. CASE k \in keys /\ l = n
    BY <1>4, <1>5, <1>8, <2>3
  <2> QED
    BY <1>1, <2>1, <2>2, <2>3
<1> HIDE DEF e, n
<1> QED
  BY <1>6, <1>7, <1>8 DEF KeysMatchEvents, Scoped

LEMMA PublishKeepsVersions ==
    ASSUME TypeOK, RequestInvariant, ExpectedVersionHonoured,
           NEW r \in Requests, Commit(r), Publishes(r)
    PROVE  ExpectedVersionHonoured'
<1>1. keys' = keys \cup {NewKey(r)}
  BY DEF Publishes
<1>2. ASSUME NewKey(r).op # "create_case"
      PROVE  /\ NewKey(r).version = NewKey(r).digest.body.expected + 1
             /\ NewKey(r).case = NewKey(r).digest.case
  <2>1. /\ req[r].op # "create_case"
        /\ NewKey(r).digest.body = req[r].body
        /\ NewKey(r).digest.case = req[r].case
    <3>1. req[r].op # "create_case"
      BY <1>2, NewEventFields
    <3>2. /\ DigestOf(req[r]).body = req[r].body
          /\ DigestOf(req[r]).case = req[r].case
      BY <3>1 DEF DigestOf
    <3> QED
      BY <3>1, <3>2, NewEventFields
  <2>2. seen[r] = cases[req[r].case] /\ Verdict(req[r], seen[r]) = "proceed"
    BY <2>1, CommitPublishes
  <2>3. seen[r].version = req[r].body.expected
    BY <2>2, ProceedMeansAllowed
  <2> QED
    BY <2>1, <2>2, <2>3, PublishedVersion, NewEventFields
<1> QED
  BY <1>1, <1>2 DEF ExpectedVersionHonoured

-----------------------------------------------------------------------------
(* Authority.                                                              *)

(* Later events do not change who was assigned by an earlier version.      *)
LEMMA EarlierAssignee ==
    ASSUME NEW table, NEW e, NEW c, NEW v, NEW a, e.case = c => ~(e.version <= v)
    PROVE  IsAssignee(table \cup {e}, c, v, a) <=> IsAssignee(table, c, v, a)
<1>1. {f \in History(table \cup {e}, c) : f.version <= v /\ f.type \in AssignmentEventTypes}
      = {f \in History(table, c) : f.version <= v /\ f.type \in AssignmentEventTypes}
  BY DEF History
<1> QED
  BY <1>1 DEF IsAssignee

(* With no version between them, two bounds see the same assignments.      *)
LEMMA SameAssignments ==
    ASSUME NEW table, NEW c, NEW v \in Nat, NEW w \in Nat, NEW a,
           IsAssignee(table, c, v, a), v <= w,
           \A f \in History(table, c) : f.version \in Nat /\ f.version <= v
    PROVE  IsAssignee(table, c, w, a)
<1>1. {f \in History(table, c) : f.version <= w /\ f.type \in AssignmentEventTypes}
      = {f \in History(table, c) : f.version <= v /\ f.type \in AssignmentEventTypes}
  OBVIOUS
<1> QED
  BY <1>1 DEF IsAssignee

(* The row a commit replaces carries the assignee of its history, and the  *)
(* actor had the authority over it.                                        *)
LEMMA CommitAuthorised ==
    ASSUME TypeOK, RequestInvariant, HistoryConsistent,
           NEW r \in Requests, Commit(r)
    PROVE  \E a \in Actors \cup {NoActor} :
              /\ IsAssignee(events, req[r].case, NewRow(r).version, a)
              /\ Authorize(req[r].op, PriorStatus(r), req[r].actor, a, Target(req[r]))
<1> DEFINE c == req[r].case
<1>1. c \in Cases /\ cases[c] \in Row /\ NewRow(r).version = cases[c].version + 1
  BY CommitPublishes, PublishedVersion
<1>2. CASE req[r].op = "create_case"
  <2>1. History(events, c) = {}
    BY <1>2, CommitPublishes DEF HistoryConsistent, History
  <2>2. IsAssignee(events, c, NewRow(r).version, NoActor)
    BY <2>1 DEF IsAssignee
  <2>3. Authorize(req[r].op, PriorStatus(r), req[r].actor, NoActor, Target(req[r]))
    BY <1>2 DEF Authorize
  <2> QED
    BY <2>2, <2>3
<1>3. CASE req[r].op # "create_case"
  <2>1. seen[r] = cases[c] /\ seen[r].version >= 1 /\ Verdict(req[r], seen[r]) = "proceed"
    BY <1>3, CommitPublishes
  <2>2. Authorize(req[r].op, PriorStatus(r), req[r].actor, seen[r].assignee, Target(req[r]))
    BY <1>3, <2>1, ProceedMeansAllowed DEF PriorStatus
  <2>3. cases[c] # NoRow
    BY <2>1 DEF NoRow
  <2>4. Hydrates(c, cases[c], events)
    BY <1>1, <2>3 DEF HistoryConsistent
  <2>5. IsAssignee(events, c, cases[c].version, cases[c].assignee)
    BY <2>4 DEF Hydrates
  <2>6. \A f \in History(events, c) : f.version \in Nat /\ f.version <= cases[c].version
    BY <2>4 DEF Hydrates, History, TypeOK, Event
  <2>7. cases[c].version \in Nat /\ cases[c].assignee \in Actors \cup {NoActor}
    BY <1>1 DEF Row
  <2>8. IsAssignee(events, c, NewRow(r).version, cases[c].assignee)
    BY <1>1, <2>5, <2>6, <2>7, SameAssignments
  <2> QED
    BY <2>1, <2>2, <2>7, <2>8
<1> QED
  BY <1>2, <1>3

(* A case in status "unassigned" has been created and nothing else.        *)
LEMMA UnassignedIsNew ==
    ASSUME NEW c, NEW row \in Row, events \subseteq Event,
           Hydrates(c, row, events), row.status = "unassigned"
    PROVE  \A f \in History(events, c) : f.type = "case_created"
<1>1. row.version \in Nat /\ row.version >= 1
  BY DEF Hydrates, Row
<1>2. PICK e \in History(events, c) : e.version = row.version
  BY <1>1 DEF Hydrates
<1>3. e.result = "unassigned"
  BY <1>2 DEF Hydrates
<1>4. PICK t \in AllowedTransitions :
          t.prior = e.prior /\ t.type = e.type /\ t.result = e.result
  BY <1>2 DEF Hydrates
<1>5. e.prior = NoStatus /\ e.type = "case_created"
  BY <1>3, <1>4, TransitionType
<1>6. row.version = 1
  <2> SUFFICES ASSUME row.version # 1 PROVE FALSE
    OBVIOUS
  <2>1. row.version - 1 \in 1..row.version
    BY <1>1
  <2>2. PICK f \in History(events, c) : f.version = row.version - 1
    BY <2>1 DEF Hydrates
  <2>3. e.version = f.version + 1
    BY <1>1, <1>2, <2>2
  <2>4. e.prior = f.result
    BY <1>2, <2>2, <2>3 DEF Hydrates
  <2>5. f.result \in CaseStatus
    BY <2>2 DEF History, Event
  <2> QED
    BY <1>5, <2>4, <2>5 DEF NoStatus, CaseStatus
<1>7. ASSUME NEW f \in History(events, c)
      PROVE  f.type = "case_created"
  <2>1. f.version \in Nat \ {0} /\ f.version <= 1
    BY <1>6 DEF Hydrates, History, Event
  <2>2. f = e
    BY <1>2, <1>6, <2>1 DEF Hydrates
  <2> QED
    BY <1>5, <2>2
<1> QED
  BY <1>7

LEMMA PublishKeepsAuthority ==
    ASSUME TypeOK, RequestInvariant, HistoryConsistent, ReviewerAuthority,
           NEW r \in Requests, Commit(r), Publishes(r)
    PROVE  ReviewerAuthority'
<1> DEFINE c == req[r].case
           e == NewEvent(r)
<1>1. /\ events' = events \cup {e} /\ e \in Event /\ e.case = c
      /\ e.version = NewRow(r).version
      /\ \A f \in events : f.case = c => f.version < e.version
      /\ \A f \in events' : f.version \in Nat
  BY CommitPublishes, NewTypes, NewEventFields, PublishedVersionIsNew
     DEF Publishes, TypeOK, Event
<1>2. ASSUME NEW f \in events, f.actor \notin Admins
      PROVE  /\ f.type \in AssignmentEventTypes =>
                  /\ f.assigned = f.actor
                  /\ \A g \in History(events', f.case) :
                        g.version < f.version => g.type = "case_created"
             /\ f.type \in {"case_escalated", "case_decided"} =>
                  IsAssignee(events', f.case, f.version, f.actor)
  <2>1. e.case = f.case => ~(e.version <= f.version)
    BY <1>1
  <2>2. IsAssignee(events', f.case, f.version, f.actor)
        <=> IsAssignee(events, f.case, f.version, f.actor)
    BY <1>1, <2>1, EarlierAssignee
  <2>3. \A g \in History(events', f.case) :
           g.version < f.version => g \in History(events, f.case)
    BY <1>1, <2>1 DEF History
  <2> QED
    BY <1>2, <2>2, <2>3 DEF ReviewerAuthority
<1>3. ASSUME e.actor \notin Admins
      PROVE  /\ e.type \in AssignmentEventTypes =>
                  /\ e.assigned = e.actor
                  /\ \A g \in History(events', c) :
                        g.version < e.version => g.type = "case_created"
             /\ e.type \in {"case_escalated", "case_decided"} =>
                  IsAssignee(events', c, e.version, e.actor)
  <2>1. PICK a \in Actors \cup {NoActor} :
           /\ IsAssignee(events, c, e.version, a)
           /\ Authorize(req[r].op, PriorStatus(r), req[r].actor, a, Target(req[r]))
    BY <1>1, CommitAuthorised
  <2>2. /\ EventOperation(e.type) = req[r].op
        /\ (e.type \in AssignmentEventTypes) <=> (req[r].op = "assign_case")
        /\ e.type = "case_decided" => req[r].op = "decide_case"
    BY CommitPublishes, NewTypes, TransitionType, NewEventFields
  <2>3. e.type = "case_escalated" => req[r].op = "escalate_case"
    BY <2>2 DEF EventOperation, AssignmentEventTypes
  <2>4. ASSUME e.type \in AssignmentEventTypes
        PROVE  /\ e.assigned = e.actor
               /\ \A g \in History(events', c) :
                     g.version < e.version => g.type = "case_created"
    <3>1. req[r].op = "assign_case" /\ PriorStatus(r) = "unassigned"
          /\ Target(req[r]) \in {NoActor, req[r].actor}
      BY <1>3, <2>1, <2>2, <2>4, NewEventFields DEF Authorize
    <3>2. e.assigned = e.actor
      <4>1. Target(req[r]) # NoActor
        <5>1. req[r].actor \in Actors
          BY DEF TypeOK, Request
        <5> QED
          BY <3>1, <5>1, ActorAssumption DEF Target
      <4> QED
        BY <3>1, <4>1, NewEventFields
    <3>3. /\ seen[r] = cases[c] /\ seen[r].version >= 1
          /\ seen[r].status = "unassigned" /\ cases[c] \in Row /\ c \in Cases
      BY <3>1, CommitPublishes DEF PriorStatus, TypeOK
    <3>4. Hydrates(c, cases[c], events)
      BY <3>3 DEF HistoryConsistent, NoRow
    <3>5. \A g \in History(events, c) : g.type = "case_created"
      BY <3>3, <3>4, UnassignedIsNew DEF TypeOK
    <3>6. \A g \in History(events', c) :
             g.version < e.version => g \in History(events, c)
      BY <1>1 DEF History
    <3> QED
      BY <3>2, <3>5, <3>6
  <2>5. ASSUME e.type \in {"case_escalated", "case_decided"}
        PROVE  IsAssignee(events', c, e.version, e.actor)
    <3>1. req[r].op \in {"escalate_case", "decide_case"}
      BY <2>2, <2>3, <2>5
    <3>2. a = req[r].actor
      BY <1>3, <2>1, <3>1, NewEventFields DEF Authorize
    <3>3. IsAssignee(events, c, e.version, e.actor)
      BY <2>1, <3>2, NewEventFields
    <3>4. e.type \notin AssignmentEventTypes
      BY <2>5 DEF AssignmentEventTypes
    <3>5. {f \in History(events', c) : f.version <= e.version /\ f.type \in AssignmentEventTypes}
          = {f \in History(events, c) : f.version <= e.version /\ f.type \in AssignmentEventTypes}
      BY <1>1, <3>4 DEF History
    <3> QED
      BY <3>3, <3>5 DEF IsAssignee
  <2> QED
    BY <2>4, <2>5
<1> HIDE DEF e
<1> QED
  BY <1>1, <1>2, <1>3 DEF ReviewerAuthority

-----------------------------------------------------------------------------
(* The invariants of the committed store.                                  *)

LEMMA StoreInvariantInit == Init => StoreInvariant
  BY DEF Init, StoreInvariant, HistoryConsistent, KeysMatchEvents,
         ExpectedVersionHonoured, ReviewerAuthority

LEMMA StoreInvariantNext ==
    TypeOK /\ RequestInvariant /\ StoreInvariant /\ [Next]_vars => StoreInvariant'
<1> SUFFICES ASSUME TypeOK, RequestInvariant, StoreInvariant, [Next]_vars
             PROVE  StoreInvariant'
  OBVIOUS
<1>1. CASE UNCHANGED store
  <2>1. cases' = cases /\ events' = events /\ keys' = keys
    BY <1>1 DEF store
  <2>2. HistoryConsistent'
    BY <2>1 DEF StoreInvariant, HistoryConsistent, Hydrates, History, IsAssignee
  <2>3. KeysMatchEvents' /\ ExpectedVersionHonoured'
    BY <2>1 DEF StoreInvariant, KeysMatchEvents, ExpectedVersionHonoured
  <2>4. ReviewerAuthority'
    BY <2>1 DEF StoreInvariant, ReviewerAuthority, History, IsAssignee
  <2> QED
    BY <2>2, <2>3, <2>4 DEF StoreInvariant
<1>2. CASE \E r \in Requests : Commit(r) /\ Publishes(r)
  BY <1>2, PublishKeepsHistory, PublishKeepsKeys, PublishKeepsVersions,
     PublishKeepsAuthority DEF StoreInvariant
<1> QED
  BY <1>1, <1>2, OnlyCommitsPublish

LEMMA StoreInvariantHolds == Spec => [](TypeOK /\ RequestInvariant /\ StoreInvariant)
<1>1. Init => TypeOK /\ RequestInvariant /\ StoreInvariant
  BY InitEstablishes, StoreInvariantInit
<1>2. TypeOK /\ RequestInvariant /\ StoreInvariant /\ [Next]_vars
      => TypeOK' /\ RequestInvariant' /\ StoreInvariant'
  BY NextKeeps, StoreInvariantNext
<1> QED
  BY <1>1, <1>2, PTL DEF Spec

(* Whatever requests race, crash or read a clock set back, the committed   *)
(* tables always pass the repository's own check of every case.            *)
THEOREM HistoryCorrect == Spec => []HistoryConsistent
<1>1. TypeOK /\ RequestInvariant /\ StoreInvariant => HistoryConsistent
  BY DEF StoreInvariant
<1> QED
  BY <1>1, StoreInvariantHolds, PTL

(* Every idempotency key row stands for one committed event and every      *)
(* event for one key row, so no operation is ever applied twice.           *)
THEOREM KeysCorrect == Spec => []KeysMatchEvents
<1>1. TypeOK /\ RequestInvariant /\ StoreInvariant => KeysMatchEvents
  BY DEF StoreInvariant
<1> QED
  BY <1>1, StoreInvariantHolds, PTL

(* No transition is committed at a version other than the one its client   *)
(* named: optimistic concurrency control holds for any interleaving.       *)
THEOREM VersionsCorrect == Spec => []ExpectedVersionHonoured
<1>1. TypeOK /\ RequestInvariant /\ StoreInvariant => ExpectedVersionHonoured
  BY DEF StoreInvariant
<1> QED
  BY <1>1, StoreInvariantHolds, PTL

(* A reviewer never acts on a case another actor holds, though authority   *)
(* is judged on a row read before the transaction begins.                  *)
THEOREM AuthorityCorrect == Spec => []ReviewerAuthority
<1>1. TypeOK /\ RequestInvariant /\ StoreInvariant => ReviewerAuthority
  BY DEF StoreInvariant
<1> QED
  BY <1>1, StoreInvariantHolds, PTL

-----------------------------------------------------------------------------
(* What a step may never do.                                               *)

LEMMA PublishKeepsDecided ==
    ASSUME TypeOK, RequestInvariant, NEW r \in Requests, Commit(r), Publishes(r),
           NEW c \in Cases
    PROVE  /\ cases[c].status = "decided" => cases'[c] = cases[c]
           /\ cases[c] # NoRow =>
                 /\ cases'[c].version >= cases[c].version
                 /\ cases'[c].creator = cases[c].creator
                 /\ cases'[c].created = cases[c].created
                 /\ cases'[c].snapshot = cases[c].snapshot
<1>1. cases' = [cases EXCEPT ![req[r].case] = NewRow(r)]
  BY DEF Publishes
<1>2. cases[c] \in Row /\ cases[c].version \in Nat
  BY DEF TypeOK, Row
<1>3. CASE c # req[r].case
  <2>1. cases'[c] = cases[c]
    BY <1>1, <1>3 DEF TypeOK
  <2> QED
    BY <1>2, <2>1
<1>4. CASE c = req[r].case /\ req[r].op = "create_case"
  <2>1. cases[c] = NoRow
    BY <1>4, CommitPublishes
  <2> QED
    BY <2>1 DEF NoRow, NoStatus
<1>5. CASE c = req[r].case /\ req[r].op # "create_case"
  <2>1. /\ seen[r] = cases[c] /\ Verdict(req[r], seen[r]) = "proceed"
        /\ cases'[c] = NewRow(r)
    BY <1>1, <1>5, CommitPublishes DEF TypeOK
  <2>2. cases[c].status # "decided"
    <3>1. IsAllowed(cases[c].status, req[r].op)
      BY <2>1, ProceedMeansAllowed
    <3> QED
      BY <3>1, NextTransitionAllowed, TransitionType
  <2>3. cases'[c].version = cases[c].version + 1
    BY <1>5, <2>1, PublishedVersion
  <2>4. /\ NewRow(r).creator = seen[r].creator
        /\ NewRow(r).created = seen[r].created
        /\ NewRow(r).snapshot = seen[r].snapshot
    BY <1>2, <1>5, <2>1 DEF NewRow, Row
  <2> QED
    BY <1>2, <2>1, <2>2, <2>3, <2>4
<1> QED
  BY <1>3, <1>4, <1>5

(* A decided case never changes again, and no case ever changes its        *)
(* creator, creation time or frozen snapshot.                              *)
THEOREM DecidedFinal == Spec => DecidedIsFinal
<1> DEFINE P == \A c \in Cases :
                   /\ cases[c].status = "decided" => cases'[c] = cases[c]
                   /\ cases[c] # NoRow =>
                         /\ cases'[c].version >= cases[c].version
                         /\ cases'[c].creator = cases[c].creator
                         /\ cases'[c].created = cases[c].created
                         /\ cases'[c].snapshot = cases[c].snapshot
<1>1. TypeOK /\ RequestInvariant /\ [Next]_vars => [P]_vars
  <2> SUFFICES ASSUME TypeOK, RequestInvariant, [Next]_vars
               PROVE  P
    OBVIOUS
  <2>1. CASE UNCHANGED store
    BY <2>1 DEF store, TypeOK, Row
  <2>2. CASE \E r \in Requests : Commit(r) /\ Publishes(r)
    BY <2>2, PublishKeepsDecided
  <2> QED
    BY <2>1, <2>2, OnlyCommitsPublish
<1> HIDE DEF P
<1>2. Spec => [][P]_vars
  BY <1>1, TypeCorrect, RequestsCorrect, PTL DEF Spec
<1> QED
  BY <1>2 DEF DecidedIsFinal, P

-----------------------------------------------------------------------------
(* Refinement.                                                             *)

(* The ledger's instance of the vocabulary is the store's own.             *)
LEMMA LedgerVocabulary ==
    /\ Ledger!Event = Event
    /\ Ledger!AllowedTransitions = AllowedTransitions
    /\ Ledger!NoStatus = NoStatus
    /\ \A e : Ledger!EventShape(e) <=> EventShape(e)
    /\ \A type : Ledger!EventOperation(type) = EventOperation(type)
    /\ \A table, c : Ledger!History(table, c) = History(table, c)
    /\ \A table, c, v, a : Ledger!IsAssignee(table, c, v, a) <=> IsAssignee(table, c, v, a)
    /\ \A op, status, actor, assignee, target :
          Ledger!Authorize(op, status, actor, assignee, target)
          <=> Authorize(op, status, actor, assignee, target)
<1>1. Ledger!Event = Event
  BY DEF Ledger!Event, Event, Ledger!EventType, EventType, Ledger!CaseStatus,
         CaseStatus, Ledger!NoStatus, NoStatus
<1>2. Ledger!AllowedTransitions = AllowedTransitions /\ Ledger!NoStatus = NoStatus
  BY DEF Ledger!AllowedTransitions, AllowedTransitions, Ledger!Transition,
         Transition, Ledger!NoStatus, NoStatus
<1>3. Ledger!AssignmentEventTypes = AssignmentEventTypes
  BY DEF Ledger!AssignmentEventTypes, AssignmentEventTypes
<1>4. \A e : Ledger!EventShape(e) <=> EventShape(e)
  BY <1>2, <1>3 DEF Ledger!EventShape, EventShape, Ledger!ReasonRequiredEventTypes,
                    ReasonRequiredEventTypes
<1>5. \A type : Ledger!EventOperation(type) = EventOperation(type)
  BY <1>3 DEF Ledger!EventOperation, EventOperation
<1>6. \A table, c : Ledger!History(table, c) = History(table, c)
  BY DEF Ledger!History, History
<1>7. \A table, c, v, a : Ledger!IsAssignee(table, c, v, a) <=> IsAssignee(table, c, v, a)
  BY <1>3, <1>6 DEF Ledger!IsAssignee, IsAssignee
<1>8. \A op, status, actor, assignee, target :
          Ledger!Authorize(op, status, actor, assignee, target)
          <=> Authorize(op, status, actor, assignee, target)
  BY DEF Ledger!Authorize, Authorize
<1> QED
  BY <1>1, <1>2, <1>4, <1>5, <1>6, <1>7, <1>8

(* An event a request publishes is a legal entry of the ledger.            *)
LEMMA PublishRecords ==
    ASSUME TypeOK, RequestInvariant, StoreInvariant,
           NEW r \in Requests, Commit(r), Publishes(r)
    PROVE  NewEvent(r) \notin events /\ Ledger!Record(NewEvent(r))
<1> DEFINE c == req[r].case
           e == NewEvent(r)
<1>1. /\ events' = events \cup {e} /\ e \in Event /\ e.case = c
      /\ e.version = NewRow(r).version /\ c \in Cases
      /\ e.prior = PriorStatus(r) /\ e.type = TransitionOf(r).type
      /\ e.result = TransitionOf(r).result /\ e.assigned = Target(req[r])
      /\ e.actor = req[r].actor /\ e.key = req[r].key
  BY CommitPublishes, NewTypes, NewEventFields DEF Publishes
<1>2. HistoryConsistent /\ KeysMatchEvents
  BY DEF StoreInvariant
<1>3. \A f \in History(events, c) : f.version < e.version
  BY <1>1, <1>2, PublishedVersionIsNew DEF History
<1>4. e \notin events
  <2> SUFFICES ASSUME e \in events PROVE FALSE
    OBVIOUS
  <2>1. e.version < e.version /\ e.version \in Nat
    BY <1>1, <1>3 DEF History, Event
  <2> QED
    BY <2>1
<1>5. Hydrates(c, NewRow(r), events \cup {e})
  BY CommitPublishes DEF ReadBack, Publishes
<1>6. e \in History(events \cup {e}, c)
  BY <1>1 DEF History
<1>7. EventShape(e)
  BY <1>5, <1>6 DEF Hydrates
<1>8. \E t \in AllowedTransitions :
         t.prior = e.prior /\ t.type = e.type /\ t.result = e.result
  BY <1>5, <1>6 DEF Hydrates
<1>9. \/ e.version = 1 /\ e.prior = NoStatus
      \/ \E f \in History(events, c) :
            e.version = f.version + 1 /\ e.prior = f.result /\ f.at <= e.at
  <2>1. CASE req[r].op = "create_case"
    BY <1>1, <2>1 DEF PriorStatus, NewRow
  <2>2. CASE req[r].op # "create_case"
    <3>1. seen[r] = cases[c] /\ cases[c].version >= 1 /\ cases[c] \in Row
      BY <2>2, CommitPublishes, PublishedVersion
    <3>2. Hydrates(c, cases[c], events)
      BY <1>1, <1>2, <3>1 DEF HistoryConsistent, NoRow
    <3>3. cases[c].version \in 1..cases[c].version
      BY <3>1 DEF Row
    <3>4. PICK f \in History(events, c) : f.version = cases[c].version
      BY <3>2, <3>3 DEF Hydrates
    <3>5. f \in History(events \cup {e}, c)
      BY <3>4 DEF History
    <3>6. e.version = f.version + 1
      BY <1>1, <3>4, PublishedVersion
    <3>7. e.prior = f.result /\ f.at <= e.at
      BY <1>5, <1>6, <3>5, <3>6 DEF Hydrates
    <3> QED
      BY <3>4, <3>6, <3>7
  <2> QED
    BY <2>1, <2>2
<1>10. Ledger!Continues(e)
  BY <1>1, <1>3, <1>8, <1>9, LedgerVocabulary DEF Ledger!Continues
<1>11. Ledger!Authorised(e)
  <2>1. PICK a \in Actors \cup {NoActor} :
           /\ IsAssignee(events, c, e.version, a)
           /\ Authorize(req[r].op, PriorStatus(r), req[r].actor, a, Target(req[r]))
    BY <1>1, <1>2, CommitAuthorised
  <2>2. EventOperation(e.type) = req[r].op
    BY <1>1, CommitPublishes, NewTypes, TransitionType
  <2> QED
    BY <1>1, <2>1, <2>2, LedgerVocabulary DEF Ledger!Authorised
<1>12. ~\E f \in events : Ledger!SameScope(e, f)
  <2> SUFFICES ASSUME NEW f \in events, Ledger!SameScope(e, f)
               PROVE  FALSE
    OBVIOUS
  <2>1. /\ f.actor = req[r].actor /\ f.key = req[r].key
        /\ EventOperation(f.type) = req[r].op
    BY <1>1, CommitPublishes, NewTypes, TransitionType, LedgerVocabulary
       DEF Ledger!SameScope
  <2>2. PICK k \in keys : k.case = f.case /\ k.version = f.version
    BY <1>2 DEF KeysMatchEvents
  <2>3. PICK g \in events :
           /\ g.case = k.case /\ g.version = k.version
           /\ g.actor = k.actor /\ g.key = k.key
           /\ EventOperation(g.type) = k.op
    BY <1>2 DEF KeysMatchEvents
  <2>4. g = f
    <3>1. f.case \in Cases /\ Hydrates(f.case, cases[f.case], events)
      BY <1>2 DEF HistoryConsistent, TypeOK, Event
    <3>2. f \in History(events, f.case) /\ g \in History(events, f.case)
      BY <2>2, <2>3 DEF History
    <3> QED
      BY <2>2, <2>3, <3>1, <3>2 DEF Hydrates
  <2>5. k \in StoredKeys(req[r])
    BY <2>1, <2>2, <2>3, <2>4 DEF StoredKeys, Scoped
  <2> QED
    BY <2>5, CommitPublishes
<1> QED
  BY <1>1, <1>4, <1>7, <1>10, <1>11, <1>12, LedgerVocabulary DEF Ledger!Record

(* The store implements the ledger: whatever the concurrency, the crashes  *)
(* and the retries, its committed events are a ledger of legal, authorised *)
(* operations, each recorded once.                                         *)
THEOREM LedgerImplemented == Spec => ImplementsLedger
<1>1. Init => Ledger!LedgerInit
  BY DEF Init, Ledger!LedgerInit
<1>2. TypeOK /\ RequestInvariant /\ StoreInvariant /\ [Next]_vars
      => [Ledger!LedgerNext]_events
  <2> SUFFICES ASSUME TypeOK, RequestInvariant, StoreInvariant, [Next]_vars
               PROVE  [Ledger!LedgerNext]_events
    OBVIOUS
  <2>1. CASE UNCHANGED store
    BY <2>1 DEF store
  <2>2. ASSUME NEW r \in Requests, Commit(r), Publishes(r)
        PROVE  Ledger!LedgerNext
    <3>1. NewEvent(r) \notin events /\ Ledger!Record(NewEvent(r))
      BY <2>2, PublishRecords
    <3>2. NewEvent(r) \in events' \ events
      BY <2>2, <3>1 DEF Publishes
    <3> QED
      BY <3>1, <3>2 DEF Ledger!LedgerNext
  <2> QED
    BY <2>1, <2>2, OnlyCommitsPublish
<1> QED
  BY <1>1, <1>2, StoreInvariantHolds, PTL
     DEF Spec, ImplementsLedger, Ledger!LedgerSpec

-----------------------------------------------------------------------------
(* Rows and the history they are read with.                                *)

(* At most one actor is the assignee at a version.                         *)
LEMMA AssigneeUnique ==
    ASSUME NEW table, table \subseteq Event, NEW c, NEW v, NEW a, NEW b,
           IsAssignee(table, c, v, a), IsAssignee(table, c, v, b),
           \A e, f \in History(table, c) : e.version = f.version => e = f
    PROVE  a = b
<1> DEFINE assignments == {e \in History(table, c) :
                             e.version <= v /\ e.type \in AssignmentEventTypes}
<1>1. CASE assignments = {}
  BY <1>1 DEF IsAssignee
<1>2. CASE assignments # {}
  <2>1. PICK e \in assignments : e.assigned = a /\ \A f \in assignments : f.version <= e.version
    BY <1>2 DEF IsAssignee
  <2>2. PICK f \in assignments : f.assigned = b /\ \A g \in assignments : g.version <= f.version
    BY <1>2 DEF IsAssignee
  <2>3. e.version <= f.version /\ f.version <= e.version
    BY <2>1, <2>2
  <2>4. e.version \in Nat /\ f.version \in Nat
    BY DEF History, Event
  <2>5. e.version = f.version
    BY <2>3, <2>4
  <2> QED
    BY <2>1, <2>2, <2>5
<1> QED
  BY <1>1, <1>2

(* AssigneeAt finds the assignee where there is one to find.               *)
LEMMA AssigneeFound ==
    ASSUME NEW table, NEW c, NEW v, NEW a \in Actors \cup {NoActor},
           IsAssignee(table, c, v, a)
    PROVE  IsAssignee(table, c, v, AssigneeAt(table, c, v))
<1>1. CASE \E b \in Actors : IsAssignee(table, c, v, b)
  <2> DEFINE P(b) == IsAssignee(table, c, v, b)
  <2> HIDE DEF P
  <2>1. \E b \in Actors : P(b)
    BY <1>1 DEF P
  <2>2. AssigneeAt(table, c, v) = CHOOSE b \in Actors : P(b)
    BY <1>1 DEF AssigneeAt, P
  <2>3. P(CHOOSE b \in Actors : P(b))
    BY <2>1
  <2> QED
    BY <2>2, <2>3 DEF P
<1>2. CASE ~\E b \in Actors : IsAssignee(table, c, v, b)
  <2>1. a = NoActor /\ AssigneeAt(table, c, v) = NoActor
    BY <1>2 DEF AssigneeAt
  <2> QED
    BY <2>1
<1> QED
  BY <1>1, <1>2

(* A row replayed for a version is the row of that version in the history, *)
(* even when the case has changed since the row was read.                  *)
LEMMA ReplayedRow ==
    ASSUME TypeOK, HistoryConsistent, VersionsAssigned,
           NEW c \in Cases, cases[c] # NoRow,
           NEW row \in Row, SameOrigin(row, cases[c]),
           NEW v, Replayable(c, row, events, v)
    PROVE  RowOfHistory(c, RowAt(c, row, events, v))
<1>1. /\ Hydrates(c, row, events) /\ Hydrates(c, cases[c], events)
      /\ cases[c] \in Row /\ events \subseteq Event
  BY DEF Replayable, HistoryConsistent, TypeOK
<1>2. v \in Nat /\ v >= 1 /\ v <= row.version /\ row.version \in Nat /\ row.version >= 1
  BY DEF Replayable, Hydrates, Row
<1>3. \A w \in 1..row.version : \E e \in History(events, c) : e.version = w
  BY <1>1 DEF Hydrates
<1>4. CASE v = row.version
  <2>1. RowAt(c, row, events, v) = row
    BY <1>4 DEF RowAt
  <2>2. PICK e \in History(events, c) : e.version = row.version
    BY <1>2, <1>3
  <2>3. e.result = row.status /\ e.at = row.updated
    BY <1>1, <2>2 DEF Hydrates
  <2>4. IsAssignee(events, c, row.version, row.assignee)
    BY <1>1 DEF Hydrates
  <2> QED
    BY <2>1, <2>2, <2>3, <2>4 DEF RowOfHistory
<1>5. CASE v # row.version
  <2>1. \E f \in History(events, c) : f.version = v
    BY <1>2, <1>3
  <2> DEFINE e == CHOOSE f \in History(events, c) : f.version = v
             a == AssigneeAt(events, c, v)
  <2>2. e \in History(events, c) /\ e.version = v
    BY <2>1
  <2>3. RowAt(c, row, events, v) =
           [row EXCEPT !.status = e.result, !.version = v, !.updated = e.at, !.assignee = a]
    BY <1>5 DEF RowAt
  <2> HIDE DEF e, a
  <2>4. /\ RowAt(c, row, events, v).status = e.result
        /\ RowAt(c, row, events, v).version = v
        /\ RowAt(c, row, events, v).updated = e.at
        /\ RowAt(c, row, events, v).assignee = a
        /\ RowAt(c, row, events, v).creator = row.creator
        /\ RowAt(c, row, events, v).created = row.created
        /\ RowAt(c, row, events, v).snapshot = row.snapshot
    BY <2>3 DEF Row
  <2>5. v \in 1..cases[c].version
    <3>1. v <= cases[c].version
      BY <1>1, <2>2 DEF Hydrates
    <3>2. cases[c].version \in Nat
      BY <1>1 DEF Row
    <3> QED
      BY <1>2, <3>1, <3>2
  <2>6. PICK b \in Actors \cup {NoActor} : IsAssignee(events, c, v, b)
    BY <2>5 DEF VersionsAssigned
  <2>7. IsAssignee(events, c, v, a)
    BY <2>6, AssigneeFound DEF a
  <2> QED
    BY <2>2, <2>4, <2>7 DEF RowOfHistory, SameOrigin
<1> QED
  BY <1>4, <1>5

(* A version of a case has one row.                                        *)
LEMMA OneRowOfVersion ==
    ASSUME TypeOK, HistoryConsistent, NEW c \in Cases, cases[c] # NoRow,
           NEW row \in Row, NEW other \in Row, row.version = other.version,
           RowOfHistory(c, row), RowOfHistory(c, other)
    PROVE  row = other
<1>1. \A e, f \in History(events, c) : e.version = f.version => e = f
  BY DEF HistoryConsistent, Hydrates
<1>2. PICK e \in History(events, c) :
          e.version = row.version /\ e.result = row.status /\ e.at = row.updated
  BY DEF RowOfHistory
<1>3. PICK f \in History(events, c) :
          f.version = other.version /\ f.result = other.status /\ f.at = other.updated
  BY DEF RowOfHistory
<1>4. row.status = other.status /\ row.updated = other.updated
  BY <1>1, <1>2, <1>3
<1>5. row.assignee = other.assignee
  <2>1. IsAssignee(events, c, row.version, row.assignee)
    BY DEF RowOfHistory
  <2>2. IsAssignee(events, c, row.version, other.assignee)
    BY DEF RowOfHistory
  <2>3. events \subseteq Event
    BY DEF TypeOK
  <2> QED
    BY <1>1, <2>1, <2>2, <2>3, AssigneeUnique
<1>6. row.creator = other.creator /\ row.created = other.created /\ row.snapshot = other.snapshot
  BY DEF RowOfHistory, SameOrigin
<1> QED
  BY <1>4, <1>5, <1>6 DEF Row

(* A commit changes nothing at the versions a case already has.            *)
LEMMA PublishKeepsVersionsOf ==
    ASSUME TypeOK, RequestInvariant, HistoryConsistent,
           NEW r \in Requests, Commit(r), Publishes(r),
           NEW c \in Cases, NEW v \in Nat, v <= cases[c].version, NEW a
    PROVE  IsAssignee(events', c, v, a) <=> IsAssignee(events, c, v, a)
<1>1. /\ events' = events \cup {NewEvent(r)}
      /\ NewEvent(r).case = req[r].case
      /\ NewEvent(r).version = cases[req[r].case].version + 1
      /\ cases[c].version \in Nat
  BY NewEventFields, PublishedVersion DEF Publishes, TypeOK, Row
<1>2. NewEvent(r).case = c => ~(NewEvent(r).version <= v)
  BY <1>1
<1> QED
  BY <1>1, <1>2, EarlierAssignee

LEMMA PublishKeepsRowsOf ==
    ASSUME TypeOK, RequestInvariant, HistoryConsistent,
           NEW r \in Requests, Commit(r), Publishes(r),
           NEW c \in Cases, cases[c] # NoRow, NEW row \in Row, RowOfHistory(c, row)
    PROVE  RowOfHistory(c, row)'
<1>1. SameOrigin(cases[c], cases'[c])
  BY PublishKeepsDecided DEF SameOrigin
<1>2. PICK e \in History(events, c) :
          e.version = row.version /\ e.result = row.status /\ e.at = row.updated
  BY DEF RowOfHistory
<1>3. e \in History(events', c)
  BY DEF History, Publishes
<1>4. row.version \in Nat /\ row.version <= cases[c].version
  BY <1>2 DEF HistoryConsistent, Hydrates, Row
<1>5. IsAssignee(events', c, row.version, row.assignee)
  BY <1>4, PublishKeepsVersionsOf DEF RowOfHistory
<1>6. SameOrigin(row, cases'[c])
  BY <1>1 DEF RowOfHistory, SameOrigin
<1> QED
  BY <1>2, <1>3, <1>5, <1>6 DEF RowOfHistory, SameOrigin, IsAssignee, History

(* The row a commit publishes is the row of its version.                   *)
LEMMA PublishedRow ==
    ASSUME TypeOK, RequestInvariant, HistoryConsistent,
           NEW r \in Requests, Commit(r), Publishes(r)
    PROVE  /\ cases'[req[r].case] = NewRow(r) /\ NewRow(r) \in Row
           /\ NewRow(r) # NoRow
           /\ RowOfHistory(req[r].case, NewRow(r))'
<1> DEFINE c == req[r].case
           row == NewRow(r)
<1>1. row \in Row /\ c \in Cases /\ row.version \in Nat /\ row.version >= 1
  BY CommitPublishes, PublishedVersion DEF Row
<1>2. cases'[c] = row
  BY <1>1 DEF Publishes, TypeOK
<1>3. row # NoRow
  BY <1>1 DEF NoRow
<1>4. Hydrates(c, row, events')
  BY CommitPublishes DEF Publishes, ReadBack
<1>5. UNCHANGED req
  BY DEF Commit
<1>6. PICK e \in History(events', c) : e.version = row.version
  BY <1>1, <1>4 DEF Hydrates
<1>7. e.result = row.status /\ e.at = row.updated
  BY <1>4, <1>6 DEF Hydrates
<1>8. IsAssignee(events', c, row.version, row.assignee)
  BY <1>4 DEF Hydrates
<1>9. NewRow(r)' = row
  BY <1>5 DEF NewRow, Commit, TransitionOf, PriorStatus
<1> HIDE DEF row, c
<1>10. c' = c
  BY <1>5 DEF c
<1> QED
  BY <1>1, <1>2, <1>3, <1>6, <1>7, <1>8, <1>9, <1>10 DEF row, c, RowOfHistory, SameOrigin

(* Every version a commit reaches has an assignee.                         *)
LEMMA PublishKeepsAssignees ==
    ASSUME TypeOK, RequestInvariant, HistoryConsistent, VersionsAssigned,
           NEW r \in Requests, Commit(r), Publishes(r)
    PROVE  VersionsAssigned'
<1> SUFFICES ASSUME NEW c \in Cases, NEW v \in 1..cases'[c].version
             PROVE  \E a \in Actors \cup {NoActor} : IsAssignee(events', c, v, a)
  BY DEF VersionsAssigned, IsAssignee, History
<1>1. CASE v \in 1..cases[c].version
  <2>1. PICK a \in Actors \cup {NoActor} : IsAssignee(events, c, v, a)
    BY <1>1 DEF VersionsAssigned
  <2>2. v \in Nat /\ v <= cases[c].version
    BY <1>1
  <2> QED
    BY <2>1, <2>2, PublishKeepsVersionsOf
<1>2. CASE v \notin 1..cases[c].version
  <2>1. c = req[r].case
    BY <1>2 DEF Publishes, TypeOK
  <2>2. /\ cases'[c] = NewRow(r) /\ NewRow(r) \in Row
        /\ cases[c].version \in Nat /\ NewRow(r).version = cases[c].version + 1
    BY <2>1, PublishedRow, PublishedVersion DEF Row
  <2>3. v = NewRow(r).version
    BY <1>2, <2>2
  <2>4. Hydrates(c, NewRow(r), events')
    BY <2>1, CommitPublishes DEF Publishes, ReadBack
  <2>5. IsAssignee(events', c, v, NewRow(r).assignee)
    BY <2>3, <2>4 DEF Hydrates
  <2> QED
    BY <2>2, <2>5 DEF Row
<1> QED
  BY <1>1, <1>2

(* A replay reads its row in ReplayRow and keeps it until it answers.      *)
LEMMA ReplayedRowsCome ==
    ASSUME TypeOK, RequestInvariant, [Next]_vars, NEW s \in Requests,
           pc'[s] = "replay_events"
    PROVE  \/ pc[s] = "replay_events" /\ seen'[s] = seen[s] /\ found'[s] = found[s]
           \/ ReplayRow(s)
<1>1. ASSUME NEW r \in Requests, Arrive(r)
      PROVE  pc[s] = "replay_events" /\ seen'[s] = seen[s] /\ found'[s] = found[s]
  <2>1. PICK q, step : Begin(r, q, step) /\ step \in {"precheck", "lookup"}
    BY <1>1 DEF Arrive
  <2>2. s # r
    BY <2>1 DEF Begin, TypeOK
  <2> QED
    BY <2>1, <2>2 DEF Begin, TypeOK
<1>2. ASSUME NEW r \in Requests, Advance(r) \/ Busy(r), s # r
      PROVE  pc[s] = "replay_events" /\ seen'[s] = seen[s] /\ found'[s] = found[s]
  <2>1. CASE Precheck(r) \/ Process(r) \/ Lookup(r) \/ Resolve(r)
    BY <1>2, <2>1 DEF Precheck, Process, Lookup, Resolve, FollowKey, Goto, Refuse, Answer, TypeOK
  <2>2. CASE ReplayRow(r) \/ ReplayEvents(r) \/ ReadRow(r) \/ Busy(r)
    BY <1>2, <2>2 DEF ReplayRow, ReplayEvents, ReadRow, Busy, Goto, Refuse, Answer, TypeOK
  <2>3. CASE Write(r) \/ AppendEvent(r) \/ RecordKey(r) \/ Commit(r)
    BY <1>2, <2>3 DEF Write, AppendEvent, RecordKey, Commit, Goto, Refuse, Answer, TypeOK
  <2> QED
    BY <1>2, <2>1, <2>2, <2>3 DEF Advance
<1>3. ASSUME Advance(s) \/ Busy(s)
      PROVE  ReplayRow(s)
  <2>1. CASE Precheck(s) \/ Process(s) \/ Lookup(s) \/ Resolve(s)
    BY <2>1 DEF Precheck, Process, Lookup, Resolve, FollowKey, Goto, Refuse, Answer, TypeOK
  <2>2. CASE ReplayEvents(s) \/ ReadRow(s) \/ Busy(s)
    BY <2>2 DEF ReplayEvents, ReadRow, Busy, Goto, Refuse, Answer, TypeOK
  <2>3. CASE Write(s) \/ AppendEvent(s) \/ RecordKey(s) \/ Commit(s)
    BY <2>3 DEF Write, AppendEvent, RecordKey, Commit, Goto, Refuse, Answer, TypeOK
  <2> QED
    BY <1>3, <2>1, <2>2, <2>3 DEF Advance
<1>4. CASE Crash \/ Tick \/ UNCHANGED vars
  BY <1>4 DEF Crash, Tick, vars
<1> QED
  BY <1>1, <1>2, <1>3, <1>4 DEF Next

(* A case with a row keeps its origin.                                     *)
LEMMA OriginKept ==
    ASSUME TypeOK, RequestInvariant, [Next]_vars, NEW c \in Cases, cases[c] # NoRow
    PROVE  cases'[c] # NoRow /\ SameOrigin(cases[c], cases'[c])
<1>1. CASE UNCHANGED store
  BY <1>1 DEF store, SameOrigin
<1>2. ASSUME NEW r \in Requests, Commit(r), Publishes(r)
      PROVE  cases'[c] # NoRow /\ SameOrigin(cases[c], cases'[c])
  <2>1. SameOrigin(cases[c], cases'[c])
    BY <1>2, PublishKeepsDecided DEF SameOrigin
  <2>2. CASE c = req[r].case
    <3>1. cases'[c] = NewRow(r) /\ NewRow(r).version = cases[c].version + 1
          /\ cases[c].version \in Nat
      BY <1>2, <2>2, PublishedVersion DEF Publishes, TypeOK, Row
    <3> QED
      BY <2>1, <3>1 DEF NoRow
  <2>3. CASE c # req[r].case
    BY <1>2, <2>1, <2>3 DEF Publishes, TypeOK
  <2> QED
    BY <2>2, <2>3
<1> QED
  BY <1>1, <1>2, OnlyCommitsPublish

(* A stored key names a case that has a row.                               *)
LEMMA KeyNamesCase ==
    ASSUME TypeOK, HistoryConsistent, KeysMatchEvents, NEW k \in keys
    PROVE  k.case \in Cases /\ cases[k.case] # NoRow
  BY DEF TypeOK, KeyRow, HistoryConsistent, KeysMatchEvents

LEMMA ReplayedRowsStayNamed ==
    ASSUME TypeOK, RequestInvariant, StoreInvariant, ReplayedRowsNamed, [Next]_vars
    PROVE  ReplayedRowsNamed'
<1> SUFFICES ASSUME NEW s \in Requests, pc'[s] = "replay_events"
             PROVE  /\ found'[s].case \in Cases
                    /\ cases'[found'[s].case] # NoRow
                    /\ SameOrigin(seen'[s], cases'[found'[s].case])
  BY DEF ReplayedRowsNamed, SameOrigin
<1>1. CASE pc[s] = "replay_events" /\ seen'[s] = seen[s] /\ found'[s] = found[s]
  <2>1. PICK c : c = found[s].case
    OBVIOUS
  <2>2. c \in Cases /\ cases[c] # NoRow /\ SameOrigin(seen[s], cases[c])
    BY <1>1, <2>1 DEF ReplayedRowsNamed
  <2>3. cases'[c] # NoRow /\ SameOrigin(cases[c], cases'[c])
    BY <2>2, OriginKept
  <2> QED
    BY <1>1, <2>1, <2>2, <2>3 DEF SameOrigin
<1>2. CASE ReplayRow(s)
  <2>1. PICK k \in keys : k.case = found[s].case
    BY <1>2 DEF RequestInvariant, ReplayFollowsKey, StoredKeys, ReplayRow
  <2>2. k.case \in Cases /\ cases[k.case] # NoRow
    BY KeyNamesCase DEF StoreInvariant
  <2>3. found' = found /\ cases' = cases /\ seen'[s] = cases[found[s].case]
    BY <1>2 DEF ReplayRow, TypeOK
  <2> QED
    BY <2>1, <2>2, <2>3 DEF SameOrigin
<1> QED
  BY <1>1, <1>2, ReplayedRowsCome

-----------------------------------------------------------------------------
(* Answers.                                                                *)

(* Where an answer comes from.                                             *)
Unanswered(s) == reply'[s].kind \notin {"ok", "integrity"}

Replays(s) ==
    \E k \in StoredKeys(req[s]), row \in Row :
        /\ k.digest = DigestOf(req[s])
        /\ SameOrigin(row, cases[k.case])
        /\ Replayable(k.case, row, events, k.version)
        /\ reply'[s] = Reply("ok", k.case, RowAt(k.case, row, events, k.version))

LEMMA RefuseLeavesUnanswered ==
    ASSUME TypeOK, NEW r \in Requests, NEW kind, Refuse(r, kind),
           kind \notin {"ok", "integrity"}, NEW s \in Requests
    PROVE  reply'[s] = reply[s] \/ Unanswered(s)
<1>1. reply' = [reply EXCEPT ![r] = Reply(kind, NoCase, NoRow)]
  BY DEF Refuse, Answer
<1>2. Reply(kind, NoCase, NoRow).kind = kind
  BY DEF Reply
<1>3. CASE s = r
  BY <1>1, <1>2, <1>3 DEF Unanswered, TypeOK
<1>4. CASE s # r
  BY <1>1, <1>4 DEF TypeOK
<1> QED
  BY <1>3, <1>4

LEMMA FollowKeyReply ==
    ASSUME TypeOK, NEW r \in Requests, NEW k, FollowKey(r, k), NEW s \in Requests
    PROVE  reply'[s] = reply[s] \/ Unanswered(s)
  BY RefuseLeavesUnanswered DEF FollowKey

(* A step leaves an answer as it is, refuses, replays a stored result,     *)
(* publishes one, or meets the UNIQUE version index.                       *)
LEMMA AnswersCome ==
    ASSUME TypeOK, RequestInvariant, ReplayedRowsNamed, [Next]_vars,
           NEW s \in Requests
    PROVE  \/ reply'[s] = reply[s] /\ req'[s] = req[s] /\ keys \subseteq keys'
           \/ Unanswered(s)
           \/ pc[s] = "event" /\ VersionTaken(s)
           \/ Replays(s) /\ UNCHANGED <<req, keys>>
           \/ /\ Commit(s) /\ Publishes(s) /\ UNCHANGED req
              /\ reply'[s] = Reply("ok", req[s].case, NewRow(s))
<1>1. ASSUME NEW r \in Requests, Arrive(r)
      PROVE  \/ reply'[s] = reply[s] /\ req'[s] = req[s] /\ keys \subseteq keys'
             \/ Unanswered(s)
  <2>1. /\ \E q : req' = [req EXCEPT ![r] = q]
        /\ reply' = [reply EXCEPT ![r] = NoReply] /\ keys' = keys
    BY <1>1 DEF Arrive, Begin
  <2>2. NoReply.kind = "none"
    BY DEF NoReply, Reply
  <2>3. CASE s = r
    BY <2>1, <2>2, <2>3 DEF Unanswered, TypeOK
  <2>4. CASE s # r
    BY <2>1, <2>4 DEF TypeOK
  <2> QED
    BY <2>3, <2>4
<1>2. ASSUME NEW r \in Requests, Precheck(r)
      PROVE  (reply'[s] = reply[s] \/ Unanswered(s) \/ Replays(s)) /\ UNCHANGED <<req, keys>>
  <2>1. CASE UNCHANGED reply
    BY <1>2, <2>1 DEF Precheck
  <2>2. CASE \E k \in StoredKeys(req[r]) :
             IF k.digest # DigestOf(req[r]) THEN Refuse(r, "conflict")
             ELSE IF Replayable(k.case, cases[k.case], events, k.version)
                  THEN Answer(r, Reply("ok", k.case,
                           RowAt(k.case, cases[k.case], events, k.version)))
                  ELSE Refuse(r, "invalid")
    <3>1. PICK k \in StoredKeys(req[r]) :
             IF k.digest # DigestOf(req[r]) THEN Refuse(r, "conflict")
             ELSE IF Replayable(k.case, cases[k.case], events, k.version)
                  THEN Answer(r, Reply("ok", k.case,
                           RowAt(k.case, cases[k.case], events, k.version)))
                  ELSE Refuse(r, "invalid")
      BY <2>2
    <3>2. cases[k.case] \in Row
      BY DEF StoredKeys, TypeOK, KeyRow
    <3>3. CASE Refuse(r, "conflict") \/ Refuse(r, "invalid")
      BY <1>2, <3>3, RefuseLeavesUnanswered DEF Precheck
    <3>4. CASE /\ k.digest = DigestOf(req[r])
               /\ Replayable(k.case, cases[k.case], events, k.version)
               /\ Answer(r, Reply("ok", k.case,
                           RowAt(k.case, cases[k.case], events, k.version)))
      <4>1. CASE s = r
        BY <1>2, <3>2, <3>4, <4>1 DEF Replays, Answer, TypeOK, Precheck, SameOrigin
      <4>2. CASE s # r
        BY <1>2, <3>4, <4>2 DEF Answer, TypeOK, Precheck
      <4> QED
        BY <4>1, <4>2
    <3> QED
      BY <3>1, <3>3, <3>4
  <2> QED
    BY <1>2, <2>1, <2>2 DEF Precheck
<1>3. ASSUME NEW r \in Requests, ReplayEvents(r)
      PROVE  (reply'[s] = reply[s] \/ Unanswered(s) \/ Replays(s)) /\ UNCHANGED <<req, keys>>
  <2>1. UNCHANGED <<req, keys>> /\ pc[r] = "replay_events"
    BY <1>3 DEF ReplayEvents
  <2>2. PICK k \in StoredKeys(req[r]) :
           /\ k.digest = DigestOf(req[r]) /\ k.case = found[r].case
           /\ k.version = found[r].version
    BY <2>1 DEF RequestInvariant, ReplayFollowsKey
  <2>3. CASE Refuse(r, "invalid")
    BY <2>1, <2>3, RefuseLeavesUnanswered
  <2>4. CASE /\ Replayable(k.case, seen[r], events, k.version)
             /\ Answer(r, Reply("ok", k.case, RowAt(k.case, seen[r], events, k.version)))
    <3>1. CASE s = r
      <4>1. SameOrigin(seen[r], cases[k.case]) /\ seen[r] \in Row
        BY <2>1, <2>2 DEF ReplayedRowsNamed, TypeOK
      <4>2. reply'[r] = Reply("ok", k.case, RowAt(k.case, seen[r], events, k.version))
        BY <2>4 DEF Answer, TypeOK
      <4>3. \E row \in Row :
               /\ SameOrigin(row, cases[k.case])
               /\ Replayable(k.case, row, events, k.version)
               /\ reply'[r] = Reply("ok", k.case, RowAt(k.case, row, events, k.version))
        BY <2>4, <4>1, <4>2
      <4> QED
        BY <2>1, <2>2, <3>1, <4>3 DEF Replays
    <3>2. CASE s # r
      BY <2>1, <2>4, <3>2 DEF Answer, TypeOK
    <3> QED
      BY <3>1, <3>2
  <2> QED
    BY <1>3, <2>2, <2>3, <2>4 DEF ReplayEvents
<1>4. ASSUME NEW r \in Requests, Process(r) \/ ReplayRow(r) \/ Lookup(r) \/ Resolve(r)
      PROVE  (reply'[s] = reply[s] \/ Unanswered(s)) /\ UNCHANGED <<req, keys>>
  <2>1. UNCHANGED <<req, keys>>
    BY <1>4 DEF Process, ReplayRow, Lookup, Resolve
  <2>2. \/ UNCHANGED reply
        \/ Refuse(r, "processing_failed") \/ Refuse(r, "conflict")
        \/ \E k : FollowKey(r, k)
    BY <1>4 DEF Process, ReplayRow, Lookup, Resolve
  <2> QED
    BY <2>1, <2>2, RefuseLeavesUnanswered, FollowKeyReply
<1>5. ASSUME NEW r \in Requests, ReadRow(r) \/ Write(r) \/ RecordKey(r) \/ Busy(r)
      PROVE  (reply'[s] = reply[s] \/ Unanswered(s)) /\ UNCHANGED <<req, keys>>
  <2>1. UNCHANGED <<req, keys>>
    BY <1>5 DEF ReadRow, Write, RecordKey, Busy
  <2>2. \/ UNCHANGED reply
        \/ Refuse(r, "not_found") \/ Refuse(r, "stale") \/ Refuse(r, "busy")
        \/ Refuse(r, Verdict(req[r], cases[req[r].case]))
    BY <1>5 DEF ReadRow, Write, RecordKey, Busy
  <2>3. Verdict(req[r], cases[req[r].case]) \notin {"ok", "integrity"}
    BY DEF Verdict
  <2> QED
    BY <2>1, <2>2, <2>3, RefuseLeavesUnanswered
<1>6. ASSUME NEW r \in Requests, AppendEvent(r)
      PROVE  /\ reply'[s] = reply[s] \/ (pc[s] = "event" /\ VersionTaken(s))
             /\ UNCHANGED <<req, keys>>
  BY <1>6 DEF AppendEvent, Refuse, Answer, TypeOK
<1>7. ASSUME NEW r \in Requests, Commit(r)
      PROVE  \/ reply'[s] = reply[s] /\ req'[s] = req[s] /\ keys \subseteq keys'
             \/ Unanswered(s)
             \/ /\ Commit(s) /\ Publishes(s) /\ UNCHANGED req
                /\ reply'[s] = Reply("ok", req[s].case, NewRow(s))
  <2>1. UNCHANGED req
    BY <1>7 DEF Commit
  <2>2. CASE Refuse(r, "invalid") /\ UNCHANGED store
    BY <2>1, <2>2, RefuseLeavesUnanswered DEF store
  <2>3. CASE Publishes(r) /\ Answer(r, Reply("ok", req[r].case, NewRow(r)))
    <3>1. keys \subseteq keys' /\ reply' = [reply EXCEPT ![r] = Reply("ok", req[r].case, NewRow(r))]
      BY <2>3 DEF Publishes, Answer
    <3>2. CASE s = r
      BY <1>7, <2>1, <2>3, <3>1, <3>2 DEF TypeOK
    <3>3. CASE s # r
      BY <2>1, <3>1, <3>3 DEF TypeOK
    <3> QED
      BY <3>2, <3>3
  <2> QED
    BY <1>7, <2>2, <2>3, CommitPublishes
<1>8. CASE Crash \/ Tick \/ UNCHANGED vars
  BY <1>8 DEF Crash, Tick, vars
<1> QED
  BY <1>1, <1>2, <1>3, <1>4, <1>5, <1>6, <1>7, <1>8 DEF Next, Advance

(* The version a request in its transaction will write is free.            *)
LEMMA VersionFree ==
    ASSUME TypeOK, RequestInvariant, HistoryConsistent,
           NEW r \in Requests, pc[r] = "event"
    PROVE  ~VersionTaken(r)
<1> SUFFICES ASSUME NEW f \in events, f.case = req[r].case, f.version = NewRow(r).version
             PROVE  FALSE
  BY DEF VersionTaken
<1> DEFINE c == req[r].case
<1>1. c \in Cases /\ cases[c] \in Row /\ CreateReserved(r) /\ ReadRowUsable(r) /\ InFlight(r)
  BY NewTypes DEF TypeOK, RequestInvariant, InFlight
<1>2. cases[c] # NoRow
  BY DEF HistoryConsistent
<1>3. req[r].op # "create_case" /\ seen[r] = cases[c]
  BY <1>1, <1>2 DEF CreateReserved, ReadRowUsable
<1>4. NewRow(r).version = cases[c].version + 1
  BY <1>1, <1>3 DEF NewRow, Row
<1>5. f.version <= cases[c].version
  BY <1>1, <1>2 DEF HistoryConsistent, Hydrates, History
<1> QED
  BY <1>1, <1>4, <1>5 DEF Row

AnswerInvariant == OkIsRecorded /\ VersionGuardSuffices /\ RecordInvariant

LEMMA AnswersStayRecorded ==
    ASSUME TypeOK, RequestInvariant, StoreInvariant, AnswerInvariant, [Next]_vars
    PROVE  OkIsRecorded' /\ VersionGuardSuffices'
<1> SUFFICES ASSUME NEW s \in Requests
             PROVE  /\ reply'[s].kind # "integrity"
                    /\ reply'[s].kind = "ok" =>
                          \E k \in keys' :
                             /\ Scoped(k, req'[s])
                             /\ k.digest = DigestOf(req'[s])
                             /\ k.case = reply'[s].case
                             /\ k.version = reply'[s].row.version
                             /\ req'[s].op # "create_case" => k.case = req'[s].case
  BY DEF OkIsRecorded, VersionGuardSuffices, Scoped, DigestOf
<1>0. ReplayedRowsNamed
  BY DEF AnswerInvariant, RecordInvariant
<1>1. CASE reply'[s] = reply[s] /\ req'[s] = req[s] /\ keys \subseteq keys'
  BY <1>1 DEF AnswerInvariant, OkIsRecorded, VersionGuardSuffices
<1>2. CASE Unanswered(s)
  BY <1>2 DEF Unanswered
<1>3. CASE pc[s] = "event" /\ VersionTaken(s)
  BY <1>3, VersionFree DEF StoreInvariant
<1>4. CASE Replays(s) /\ UNCHANGED <<req, keys>>
  <2>1. PICK k \in StoredKeys(req[s]), row \in Row :
          /\ k.digest = DigestOf(req[s])
          /\ Replayable(k.case, row, events, k.version)
          /\ reply'[s] = Reply("ok", k.case, RowAt(k.case, row, events, k.version))
    BY <1>4 DEF Replays
  <2>2. k \in keys /\ Scoped(k, req[s]) /\ k \in KeyRow
    BY DEF StoredKeys, TypeOK
  <2>3. RowAt(k.case, row, events, k.version).version = k.version
    BY <2>1, <2>2, RowAtType DEF TypeOK, KeyRow
  <2>4. /\ reply'[s].kind = "ok" /\ reply'[s].case = k.case
        /\ reply'[s].row.version = k.version
    BY <2>1, <2>3 DEF Reply
  <2>5. req[s].op # "create_case" => k.case = req[s].case
    BY <2>1, <2>2 DEF StoreInvariant, ExpectedVersionHonoured, Scoped, DigestOf
  <2> QED
    BY <1>4, <2>1, <2>2, <2>4, <2>5
<1>5. CASE /\ Commit(s) /\ Publishes(s) /\ UNCHANGED req
           /\ reply'[s] = Reply("ok", req[s].case, NewRow(s))
  <2>1. NewKey(s) \in keys'
    BY <1>5 DEF Publishes
  <2>2. Scoped(NewKey(s), req[s])
    BY NewEventFields DEF Scoped
  <2>3. /\ reply'[s].kind = "ok" /\ reply'[s].case = req[s].case
        /\ reply'[s].row.version = NewRow(s).version
    BY <1>5 DEF Reply
  <2> QED
    BY <1>5, <2>1, <2>2, <2>3, NewEventFields
<1> QED
  BY <1>0, <1>1, <1>2, <1>3, <1>4, <1>5, AnswersCome

(* An answer stays what the history says of its version.                   *)
LEMMA AnswersStayOfHistory ==
    ASSUME TypeOK, RequestInvariant, StoreInvariant, AnswerInvariant, TypeOK',
           [Next]_vars
    PROVE  AnswersOfHistory'
<1>1. /\ HistoryConsistent /\ KeysMatchEvents
      /\ ReplayedRowsNamed /\ VersionsAssigned /\ AnswersOfHistory
  BY DEF StoreInvariant, AnswerInvariant, RecordInvariant
<1> SUFFICES ASSUME NEW s \in Requests, reply'[s].kind = "ok"
             PROVE  /\ reply'[s].case \in Cases
                    /\ RowOfHistory(reply[s].case, reply[s].row)'
  BY DEF AnswersOfHistory
<1>2. ASSUME NEW c \in Cases, NEW row \in Row, cases[c] # NoRow, RowOfHistory(c, row)
      PROVE  RowOfHistory(c, row)'
  <2>1. CASE UNCHANGED store
    BY <1>2, <2>1 DEF store, RowOfHistory, SameOrigin, IsAssignee, History
  <2>2. ASSUME NEW r \in Requests, Commit(r), Publishes(r)
        PROVE  RowOfHistory(c, row)'
    BY <1>1, <1>2, <2>2, PublishKeepsRowsOf
  <2> QED
    BY <2>1, <2>2, OnlyCommitsPublish
<1>3. ASSUME NEW c \in Cases, NEW row \in Row, RowOfHistory(c, row)',
             reply'[s].case = c, reply'[s].row = row
      PROVE  /\ reply'[s].case \in Cases
             /\ RowOfHistory(reply[s].case, reply[s].row)'
  BY <1>3 DEF RowOfHistory, SameOrigin, IsAssignee, History
<1>4. CASE reply'[s] = reply[s]
  <2>1. PICK c, row : c = reply[s].case /\ row = reply[s].row
    OBVIOUS
  <2>2. c \in Cases /\ row \in Row /\ RowOfHistory(c, row)
    BY <1>1, <1>4, <2>1 DEF AnswersOfHistory, TypeOK
  <2>3. cases[c] # NoRow
    BY <1>1, <2>2 DEF RowOfHistory, HistoryConsistent, History
  <2> QED
    BY <1>2, <1>3, <1>4, <2>1, <2>2, <2>3
<1>5. CASE Replays(s)
  <2>1. PICK k \in StoredKeys(req[s]), row \in Row :
          /\ SameOrigin(row, cases[k.case])
          /\ Replayable(k.case, row, events, k.version)
          /\ reply'[s] = Reply("ok", k.case, RowAt(k.case, row, events, k.version))
    BY <1>5 DEF Replays
  <2>2. PICK c : c = k.case
    OBVIOUS
  <2>3. PICK answer : answer = RowAt(c, row, events, k.version)
    OBVIOUS
  <2>4. c \in Cases /\ cases[c] # NoRow
    BY <1>1, <2>2, KeyNamesCase DEF StoredKeys
  <2>5. RowOfHistory(c, answer)
    BY <1>1, <2>1, <2>2, <2>3, <2>4, ReplayedRow
  <2>6. reply'[s].case = c /\ reply'[s].row = answer
    BY <2>1, <2>2, <2>3 DEF Reply
  <2>7. answer \in Row
    BY <2>6 DEF TypeOK
  <2> QED
    BY <1>2, <1>3, <2>4, <2>5, <2>6, <2>7
<1>6. CASE /\ Commit(s) /\ Publishes(s) /\ UNCHANGED req
           /\ reply'[s] = Reply("ok", req[s].case, NewRow(s))
  <2>1. PICK c, row : c = req[s].case /\ row = NewRow(s)
    OBVIOUS
  <2>2. c \in Cases /\ row \in Row /\ RowOfHistory(req[s].case, NewRow(s))'
    BY <1>1, <1>6, <2>1, CommitPublishes, PublishedRow
  <2>3. reply'[s].case = c /\ reply'[s].row = row
    BY <1>6, <2>1 DEF Reply
  <2>4. NewRow(s)' = NewRow(s) /\ req'[s].case = req[s].case
    BY <1>6 DEF NewRow, Commit, TransitionOf, PriorStatus
  <2>5. RowOfHistory(c, row)'
    BY <2>1, <2>2, <2>4 DEF RowOfHistory, SameOrigin, IsAssignee, History
  <2> QED
    BY <1>3, <2>2, <2>3, <2>5
<1>7. CASE Unanswered(s)
  BY <1>7 DEF Unanswered
<1>8. CASE pc[s] = "event" /\ VersionTaken(s)
  BY <1>1, <1>8, VersionFree
<1> QED
  BY <1>1, <1>4, <1>5, <1>6, <1>7, <1>8, AnswersCome

LEMMA AnswerInvariantNext ==
    ASSUME TypeOK, RequestInvariant, StoreInvariant, AnswerInvariant, TypeOK',
           [Next]_vars
    PROVE  AnswerInvariant'
<1>1. HistoryConsistent /\ VersionsAssigned /\ ReplayedRowsNamed
  BY DEF StoreInvariant, AnswerInvariant, RecordInvariant
<1>2. VersionsAssigned'
  <2>1. CASE UNCHANGED store
    BY <1>1, <2>1 DEF store, VersionsAssigned, IsAssignee, History
  <2>2. ASSUME NEW r \in Requests, Commit(r), Publishes(r)
        PROVE  VersionsAssigned'
    BY <1>1, <2>2, PublishKeepsAssignees
  <2> QED
    BY <2>1, <2>2, OnlyCommitsPublish
<1>3. ReplayedRowsNamed'
  BY <1>1, ReplayedRowsStayNamed
<1>4. AnswersOfHistory'
  BY AnswersStayOfHistory
<1>5. OkIsRecorded' /\ VersionGuardSuffices'
  BY AnswersStayRecorded
<1> QED
  BY <1>2, <1>3, <1>4, <1>5 DEF AnswerInvariant, RecordInvariant

LEMMA AnswerInvariantHolds ==
    Spec => [](TypeOK /\ RequestInvariant /\ StoreInvariant /\ AnswerInvariant)
<1>1. Init => AnswerInvariant
  <2> SUFFICES ASSUME Init PROVE AnswerInvariant
    OBVIOUS
  <2>1. OkIsRecorded /\ VersionGuardSuffices /\ AnswersOfHistory
    BY DEF Init, OkIsRecorded, VersionGuardSuffices, AnswersOfHistory, NoReply, Reply
  <2>2. ReplayedRowsNamed
    BY DEF Init, ReplayedRowsNamed
  <2>3. VersionsAssigned
    BY DEF Init, VersionsAssigned, NoRow
  <2> QED
    BY <2>1, <2>2, <2>3 DEF AnswerInvariant, RecordInvariant
<1>2. TypeOK /\ RequestInvariant /\ StoreInvariant /\ AnswerInvariant /\ TypeOK'
      /\ [Next]_vars => AnswerInvariant'
  BY AnswerInvariantNext
<1> QED
  BY <1>1, <1>2, StoreInvariantHolds, PTL DEF Spec

(* Every "ok" answer stands on a committed key row of the request's own    *)
(* scope and digest: nothing acknowledged is lost, not even by a crash,    *)
(* and a reused key never returns another body's or case's result.         *)
THEOREM AnswersRecorded == Spec => []OkIsRecorded
<1>1. TypeOK /\ RequestInvariant /\ StoreInvariant /\ AnswerInvariant => OkIsRecorded
  BY DEF AnswerInvariant
<1> QED
  BY <1>1, AnswerInvariantHolds, PTL

(* An "ok" answer is the case as the history has it at the version of the  *)
(* request's key row, however far the case has moved on, and whether the   *)
(* answer was committed or put together from a row and events read apart.  *)
THEOREM AnswersAreHistory == Spec => []AnswersOfHistory
<1>1. TypeOK /\ RequestInvariant /\ StoreInvariant /\ AnswerInvariant
      => AnswersOfHistory
  BY DEF AnswerInvariant, RecordInvariant
<1> QED
  BY <1>1, AnswerInvariantHolds, PTL

(* An operation has one answer: two "ok" answers to one actor, operation   *)
(* and key are equal, for any retries, crashes and commits between them.   *)
THEOREM RetriesAnswerTheSame == Spec => []SameAnswer
<1>1. TypeOK /\ RequestInvariant /\ StoreInvariant /\ AnswerInvariant => SameAnswer
  <2> SUFFICES ASSUME TypeOK, StoreInvariant, AnswerInvariant,
                      NEW r \in Requests, NEW s \in Requests,
                      reply[r].kind = "ok", reply[s].kind = "ok",
                      Scoped(req[r], req[s])
               PROVE  reply[r] = reply[s]
    BY DEF SameAnswer
  <2>1. HistoryConsistent /\ KeysMatchEvents /\ OkIsRecorded /\ AnswersOfHistory
    BY DEF StoreInvariant, AnswerInvariant, RecordInvariant
  <2>2. PICK k \in keys : /\ Scoped(k, req[r]) /\ k.case = reply[r].case
                          /\ k.version = reply[r].row.version
    BY <2>1 DEF OkIsRecorded
  <2>3. PICK l \in keys : /\ Scoped(l, req[s]) /\ l.case = reply[s].case
                          /\ l.version = reply[s].row.version
    BY <2>1 DEF OkIsRecorded
  <2>4. k = l
    BY <2>1, <2>2, <2>3 DEF KeysMatchEvents, Scoped
  <2>5. k.case \in Cases /\ cases[k.case] # NoRow
    BY <2>1, KeyNamesCase
  <2>6. RowOfHistory(k.case, reply[r].row) /\ RowOfHistory(k.case, reply[s].row)
    BY <2>1, <2>2, <2>3, <2>4 DEF AnswersOfHistory
  <2>7. /\ reply[r] \in [kind : ReplyKind, case : Cases \cup {NoCase}, row : Row]
        /\ reply[s] \in [kind : ReplyKind, case : Cases \cup {NoCase}, row : Row]
    BY DEF TypeOK
  <2>8. reply[r].row \in Row /\ reply[s].row \in Row
    BY <2>7
  <2>9. reply[r].row = reply[s].row
    BY <2>1, <2>2, <2>3, <2>4, <2>5, <2>6, <2>8, OneRowOfVersion
  <2> QED
    BY <2>2, <2>3, <2>4, <2>7, <2>9
<1> QED
  BY <1>1, AnswerInvariantHolds, PTL

(* The UNIQUE version index is defence in depth only: the version guard of *)
(* the UPDATE stops every loser of a race before it.                       *)
THEOREM VersionGuardCorrect == Spec => []VersionGuardSuffices
<1>1. TypeOK /\ RequestInvariant /\ StoreInvariant /\ AnswerInvariant
      => VersionGuardSuffices
  BY DEF AnswerInvariant
<1> QED
  BY <1>1, AnswerInvariantHolds, PTL
-----------------------------------------------------------------------------
(* The last defences refuse nothing.                                       *)

(* What a request that is about to commit has in its transaction.          *)
LEMMA AboutToCommit ==
    ASSUME TypeOK, RequestInvariant, NEW r \in Requests, pc[r] = "commit"
    PROVE  /\ pend.row = NewRow(r) /\ pend.events = {NewEvent(r)}
           /\ ValidRequest(req[r])
           /\ req[r].case \in Cases
           /\ req[r].op = "create_case" => cases[req[r].case] = NoRow
           /\ req[r].op # "create_case" =>
                 /\ seen[r] = cases[req[r].case]
                 /\ seen[r].version >= 1
                 /\ Verdict(req[r], seen[r]) = "proceed"
<1>1. InFlight(r)
  BY DEF InFlight
<1>2. PendingWrites(r) /\ ReadRowUsable(r) /\ CreateReserved(r) /\ StepOfOperation(r)
  BY DEF RequestInvariant
<1> QED
  BY <1>1, <1>2 DEF PendingWrites, ReadRowUsable, CreateReserved, StepOfOperation, TypeOK, Row

(* The event it appends has the fields its type must have.                 *)
LEMMA NewEventShape ==
    ASSUME TypeOK, RequestInvariant, NEW r \in Requests, pc[r] = "commit"
    PROVE  EventShape(NewEvent(r))
<1> DEFINE e == NewEvent(r)
           t == TransitionOf(r)
           q == req[r]
<1>1. /\ t \in AllowedTransitions /\ t.prior = PriorStatus(r) /\ t.op = q.op
      /\ e.type = t.type /\ e.prior = t.prior /\ e.assigned = Target(q)
  BY NewTypes, NewEventFields
<1>2. e.reason = q.body.reason /\ e.decision = q.body.decision
  BY DEF NewEvent
<1>3. /\ t.type = "case_created" <=> t.prior = NoStatus
      /\ t.type = "case_decided" <=> t.op = "decide_case"
      /\ t.type \in AssignmentEventTypes <=> t.op = "assign_case"
      /\ t.type = "case_escalated" => t.op = "escalate_case"
  BY <1>1 DEF AllowedTransitions, Transition, NoStatus, AssignmentEventTypes
<1>4. q.op = "assign_case" <=> Target(q) # NoActor
  <2>1. q.actor \in Actors
    BY DEF TypeOK, Request
  <2> QED
    BY <2>1, ActorAssumption DEF Target
<1>5. ValidRequest(q)
  BY AboutToCommit
<1>6. t.type = "case_reassigned" => q.body.reason
  <2> SUFFICES ASSUME t.type = "case_reassigned"
               PROVE  q.body.reason
    OBVIOUS
  <2>1. q.op = "assign_case"
    BY <1>1, <1>3 DEF AssignmentEventTypes
  <2>2. Verdict(q, seen[r]) = "proceed"
    BY <2>1, AboutToCommit
  <2>3. NextTransition(seen[r].status, q.op) = t
    BY <2>1 DEF TransitionOf, PriorStatus
  <2> QED
    BY <2>2, <2>3 DEF Verdict
<1> HIDE DEF e, t, q
<1> QED
  BY <1>1, <1>2, <1>3, <1>4, <1>5, <1>6
     DEF EventShape, ReasonRequiredEventTypes, ValidRequest, e, t, q

(* With an event whose version is new, an earlier bound sees the same.     *)
LEMMA AssigneeCarries ==
    ASSUME NEW table, table \subseteq Event, NEW e \in Event, NEW c, e.case = c,
           NEW v \in Nat, NEW a, IsAssignee(table, c, v, a), e.version = v + 1,
           \A f \in History(table, c) : f.version <= v
    PROVE  IsAssignee(table \cup {e}, c, v + 1,
                      IF e.type \in AssignmentEventTypes THEN e.assigned ELSE a)
<1>1. \A f \in History(table, c) : f.version \in Nat
  BY DEF History, Event
<1>2. CASE e.type \in AssignmentEventTypes
  <2>1. e \in History(table \cup {e}, c)
    BY DEF History
  <2>2. \A f \in History(table \cup {e}, c) : f.version <= e.version
    BY <1>1 DEF History, Event
  <2> QED
    BY <1>2, <2>1, <2>2 DEF IsAssignee, Event
<1>3. CASE e.type \notin AssignmentEventTypes
  <2>1. {f \in History(table \cup {e}, c) : f.version <= v + 1 /\ f.type \in AssignmentEventTypes}
        = {f \in History(table, c) : f.version <= v /\ f.type \in AssignmentEventTypes}
    BY <1>1, <1>3 DEF History
  <2> QED
    BY <1>3, <2>1 DEF IsAssignee
<1> QED
  BY <1>2, <1>3

LEMMA CreateReadsBack ==
    ASSUME TypeOK, RequestInvariant, HistoryConsistent, NEW r \in Requests,
           pc[r] = "commit", req[r].op = "create_case"
    PROVE  Hydrates(req[r].case, NewRow(r), events \cup {NewEvent(r)})
<1> DEFINE c == req[r].case
           e == NewEvent(r)
           row == NewRow(r)
<1>1. History(events, c) = {}
  BY AboutToCommit DEF HistoryConsistent, History
<1>2. e.case = c
  BY NewEventFields
<1>3. History(events \cup {e}, c) = {e}
  BY <1>1, <1>2 DEF History
<1>4. /\ row.version = 1 /\ row.creator = req[r].actor /\ row.created = stamp[r]
      /\ row.updated = stamp[r] /\ row.status = "unassigned" /\ row.assignee = NoActor
  BY DEF NewRow
<1>5. /\ TransitionOf(r) \in AllowedTransitions /\ TransitionOf(r).op = "create_case"
      /\ TransitionOf(r).prior = PriorStatus(r)
  BY NewTypes
<1>6. TransitionOf(r).type = "case_created" /\ TransitionOf(r).result = "unassigned"
  BY <1>5 DEF AllowedTransitions, Transition
<1>7. /\ e.version = 1 /\ e.type = "case_created" /\ e.result = "unassigned"
      /\ e.actor = req[r].actor /\ e.at = stamp[r]
      /\ e.prior = PriorStatus(r)
  BY <1>4, <1>6, NewEventFields
<1>8. EventShape(e)
  BY NewEventShape
<1>9. \E t \in AllowedTransitions :
         t.prior = e.prior /\ t.type = e.type /\ t.result = e.result
  BY <1>5, <1>6, <1>7
<1>10. IsAssignee(events \cup {e}, c, 1, NoActor)
  BY <1>3, <1>7 DEF IsAssignee, AssignmentEventTypes
<1> DEFINE table == events \cup {e}
<1> HIDE DEF e, row, c, table
<1>11. History(table, c) = {e} /\ IsAssignee(table, c, row.version, row.assignee)
  BY <1>3, <1>4, <1>10 DEF table
<1>12. \A v \in 1..row.version : v = e.version
  BY <1>4, <1>7
<1>13. row.version >= 1 /\ e.version <= row.version /\ e.version + 1 # e.version
  BY <1>4, <1>7
<1>14. Hydrates(c, row, table)
  BY <1>4, <1>7, <1>8, <1>9, <1>11, <1>12, <1>13 DEF Hydrates
<1> QED
  BY <1>14 DEF e, row, c, table

LEMMA TransitionReadsBack ==
    ASSUME TypeOK, RequestInvariant, HistoryConsistent, NEW r \in Requests,
           pc[r] = "commit", req[r].op # "create_case", stamp[r] >= seen[r].updated
    PROVE  Hydrates(req[r].case, NewRow(r), events \cup {NewEvent(r)})
<1> DEFINE c == req[r].case
           e == NewEvent(r)
           old == cases[c]
           row == NewRow(r)
           n == old.version
           table == events \cup {e}
<1>1. /\ c \in Cases /\ seen[r] = old /\ n >= 1
  BY AboutToCommit
<1>2. old \in Row /\ n \in Nat /\ old.updated \in Nat /\ stamp[r] \in Nat
  BY <1>1 DEF TypeOK, Row
<1>3. Hydrates(c, old, events)
  BY <1>1 DEF HistoryConsistent, NoRow
<1>4. /\ row.version = n + 1 /\ row.updated = stamp[r]
      /\ row.status = TransitionOf(r).result
      /\ row.creator = old.creator /\ row.created = old.created
      /\ row.assignee = IF Target(req[r]) # NoActor THEN Target(req[r]) ELSE old.assignee
  BY <1>1, <1>2 DEF NewRow, Row
<1>5. /\ e.version = n + 1 /\ e.at = stamp[r] /\ e.result = row.status
      /\ e.prior = old.status /\ e.case = c /\ e.type = TransitionOf(r).type
      /\ e.assigned = Target(req[r]) /\ e \in Event
  BY <1>1, <1>4, NewEventFields, NewTypes DEF PriorStatus
<1>6. EventShape(e)
  BY NewEventShape
<1>7. \E t \in AllowedTransitions :
         t.prior = e.prior /\ t.type = e.type /\ t.result = e.result
  BY NewTypes, NewEventFields
<1>8. \A f \in History(events, c) :
         f \in Event /\ f.version \in Nat \ {0} /\ f.version <= n
  BY <1>3 DEF Hydrates, History, TypeOK, Event
<1>9. History(table, c) = History(events, c) \cup {e}
  BY <1>5 DEF History
<1>10. IsAssignee(table, c, n + 1, row.assignee)
  <2>1. IsAssignee(events, c, n, old.assignee)
    BY <1>3 DEF Hydrates
  <2>2. IsAssignee(table, c, n + 1,
                   IF e.type \in AssignmentEventTypes THEN e.assigned ELSE old.assignee)
    <3>1. events \subseteq Event
      BY DEF TypeOK
    <3> QED
      BY <1>2, <1>5, <1>8, <2>1, <3>1, AssigneeCarries
  <2>3. row.assignee = IF e.type \in AssignmentEventTypes THEN e.assigned ELSE old.assignee
    BY <1>4, <1>5, <1>6 DEF EventShape
  <2> QED
    BY <2>2, <2>3
<1> HIDE DEF e, row, c, old, n
<1>11. \A v \in 1..(n + 1) : \E f \in History(table, c) : f.version = v
  <2>1. \A v \in 1..n : \E f \in History(events, c) : f.version = v
    BY <1>3 DEF Hydrates, n
  <2>2. \A v \in 1..(n + 1) : v \in 1..n \/ v = n + 1
    BY <1>2
  <2>3. e \in History(table, c) /\ e.version = n + 1
    BY <1>5, <1>9
  <2> QED
    BY <1>9, <2>1, <2>2, <2>3
<1>12. \A f, g \in History(table, c) : f.version = g.version => f = g
  <2>1. \A f, g \in History(events, c) : f.version = g.version => f = g
    BY <1>3 DEF Hydrates
  <2> QED
    BY <1>2, <1>5, <1>8, <1>9, <2>1
<1>13. ASSUME NEW f \in History(table, c)
       PROVE  /\ EventShape(f)
              /\ f.version <= row.version
              /\ \E t \in AllowedTransitions :
                    t.prior = f.prior /\ t.type = f.type /\ t.result = f.result
              /\ f.version = 1 => /\ f.type = "case_created"
                                  /\ f.actor = row.creator
                                  /\ f.at = row.created
              /\ f.version = row.version => /\ f.result = row.status
                                            /\ f.at = row.updated
  <2>1. CASE f \in History(events, c)
    <3>1. f.version \in Nat /\ f.version <= n
      BY <1>8, <2>1
    <3>2. f.version <= row.version /\ f.version # row.version
      BY <1>2, <1>4, <3>1
    <3> QED
      BY <1>3, <1>4, <2>1, <3>2 DEF Hydrates
  <2>2. CASE f = e
    <3>1. f.version = row.version /\ f.version # 1 /\ f.version <= row.version
      BY <1>1, <1>2, <1>4, <1>5, <2>2
    <3> QED
      BY <1>4, <1>5, <1>6, <1>7, <2>2, <3>1
  <2> QED
    BY <1>9, <2>1, <2>2
<1>14. ASSUME NEW f \in History(table, c), NEW g \in History(table, c),
              g.version = f.version + 1
       PROVE  g.prior = f.result /\ f.at <= g.at
  <2>1. CASE f \in History(events, c) /\ g \in History(events, c)
    BY <1>3, <1>14, <2>1 DEF Hydrates
  <2>2. CASE f \in History(events, c) /\ g = e
    <3>1. f.version = old.version
      BY <1>2, <1>5, <1>8, <1>14, <2>2 DEF n
    <3>2. f.result = old.status /\ f.at = old.updated
      BY <1>3, <2>2, <3>1 DEF Hydrates
    <3> QED
      BY <1>1, <1>5, <2>2, <3>2
  <2>3. CASE f = e
    <3>1. g.version = n + 2
      BY <1>2, <1>5, <1>14, <2>3
    <3>2. g = e \/ (g.version \in Nat /\ g.version <= n)
      BY <1>8, <1>9
    <3> QED
      BY <1>2, <1>5, <3>1, <3>2
  <2> QED
    BY <1>9, <2>1, <2>2, <2>3
<1>15. row.version >= 1
  BY <1>2, <1>4
<1> HIDE DEF table
<1> QED
  BY <1>4, <1>10, <1>11, <1>12, <1>13, <1>14, <1>15 DEF Hydrates, e, row, c, table

LEMMA ReadBackHolds ==
    ASSUME TypeOK, RequestInvariant, HistoryConsistent, NEW r \in Requests,
           pc[r] = "commit", stamp[r] >= seen[r].updated
    PROVE  ReadBack(r)
<1>1. Hydrates(req[r].case, NewRow(r), events \cup {NewEvent(r)})
  BY CreateReadsBack, TransitionReadsBack
<1>2. pend.row = NewRow(r) /\ pend.events = {NewEvent(r)}
  BY AboutToCommit
<1> QED
  BY <1>1, <1>2 DEF ReadBack

(* Unless the clock is set back behind the last change of a case, whoever  *)
(* loses a race is told so by the version guard or the key; the unique     *)
(* index on versions and the read-back never have to refuse.               *)
THEOREM LastDefencesUnused == Spec => []NoInternalRefusal
<1>1. TypeOK /\ RequestInvariant /\ StoreInvariant /\ AnswerInvariant
      => NoInternalRefusal
  BY ReadBackHolds
     DEF StoreInvariant, AnswerInvariant, NoInternalRefusal, ReadBackNeverFails
<1> QED
  BY <1>1, AnswerInvariantHolds, PTL

-----------------------------------------------------------------------------
(* The store as its readers check it.                                      *)

(* A case the repository hydrates makes a bundle the verifier accepts.     *)
LEMMA HydratedVerifies ==
    ASSUME NEW c, NEW row \in Row, events \subseteq Event, Hydrates(c, row, events)
    PROVE  BundleVerifies(c, row, events)
<1> DEFINE history == History(events, c)
<1>1. row.version \in Nat /\ row.version >= 1
  BY DEF Hydrates, Row
<1>2. \A e \in history : e.version \in Nat \ {0} /\ e.version <= row.version
  BY DEF Hydrates, History, Event
<1>3. \A v \in 1..row.version : \E e \in history : e.version = v
  BY DEF Hydrates
<1>4. history # {}
  BY <1>1, <1>3
<1>5. {e.version : e \in history} = 1..row.version
  BY <1>1, <1>2, <1>3
<1> QED
  BY <1>4, <1>5 DEF Hydrates, BundleVerifies

(* Whatever requests race, crash or read a clock set back, the committed   *)
(* tables pass the repository's own check, the check of the key rows, and  *)
(* the verifier's check of every bundle exported from them.                *)
THEOREM StoreIsValid == Spec => []StoreValid
<1>1. TypeOK /\ HistoryConsistent => BundlesVerify
  <2> SUFFICES ASSUME TypeOK, HistoryConsistent, NEW c \in Cases, cases[c] # NoRow
               PROVE  BundleVerifies(c, cases[c], events)
    BY DEF BundlesVerify
  <2> QED
    BY HydratedVerifies DEF HistoryConsistent, TypeOK
<1>2. TypeOK /\ RequestInvariant /\ StoreInvariant => StoreValid
  BY <1>1 DEF StoreInvariant, StoreValid
<1> QED
  BY <1>2, StoreInvariantHolds, PTL

(* Every committed transition was made at the version its client named     *)
(* and, by a reviewer, on a case assigned to it, though both were judged   *)
(* on a row read before the transaction began.                             *)
THEOREM TransitionsAreJustified == Spec => []TransitionsJustified
<1>1. TypeOK /\ RequestInvariant /\ StoreInvariant => TransitionsJustified
  BY DEF StoreInvariant, TransitionsJustified
<1> QED
  BY <1>1, StoreInvariantHolds, PTL
=============================================================================
