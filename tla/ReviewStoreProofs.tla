------------------------- MODULE ReviewStoreProofs -------------------------
(***************************************************************************)
(* Proofs about ReviewStore, for every set of actors, cases, keys, offers  *)
(* and request slots, and for a clock that moves in any way.               *)
(***************************************************************************)
EXTENDS ReviewStore, TLAPS

-----------------------------------------------------------------------------
(* The transition table.                                                   *)

(* Every row of the table is well typed, and only a creation has no prior  *)
(* status.                                                                 *)
LEMMA TransitionType ==
    ASSUME NEW t \in AllowedTransitions
    PROVE  /\ t.prior \in CaseStatus \cup {NoStatus}
           /\ t.op \in MutationOperation
           /\ t.type \in EventType
           /\ t.result \in CaseStatus
           /\ t.prior # "decided"
           /\ EventOperation(t.type) = t.op
           /\ (t.type = "case_created") <=> (t.prior = NoStatus)
           /\ (t.type = "case_created") <=> (t.result = "unassigned")
           /\ (t.type = "case_decided") <=> (t.op = "decide_case")
           /\ (t.type \in AssignmentEventTypes) <=> (t.op = "assign_case")
  BY DEF AllowedTransitions, Transition, NoStatus, CaseStatus,
         MutationOperation, EventType, EventOperation, AssignmentEventTypes

(* next_transition returns the table's row for an allowed operation.       *)
LEMMA NextTransitionAllowed ==
    ASSUME NEW prior, NEW op, IsAllowed(prior, op)
    PROVE  /\ NextTransition(prior, op) \in AllowedTransitions
           /\ NextTransition(prior, op).prior = prior
           /\ NextTransition(prior, op).op = op
  BY DEF IsAllowed, NextTransition

(* A new document can always be turned into an unassigned case.            *)
LEMMA CreateAllowed == IsAllowed(NoStatus, "create_case")
  BY DEF IsAllowed, AllowedTransitions, Transition, NoStatus

(* An operation that passed every check is in the table.                   *)
LEMMA ProceedMeansAllowed ==
    ASSUME NEW q, NEW row, Verdict(q, row) = "proceed"
    PROVE  /\ row.version = q.body.expected
           /\ Authorize(q.op, row.status, q.actor, row.assignee, Target(q))
           /\ IsAllowed(row.status, q.op)
  BY DEF Verdict, ExpectedVersion

(* The placeholder rows and replies are well typed.                        *)
LEMMA Placeholders ==
    /\ NoRow \in Row
    /\ NoPend \in [row : Row, events : SUBSET Event, keys : SUBSET KeyRow]
    /\ SomeRequest \in Request
    /\ NoReply \in [kind : ReplyKind, case : Cases \cup {NoCase}, row : Row]
<1>1. NoRow \in Row
  BY DEF NoRow, Row
<1>2. NoPend \in [row : Row, events : SUBSET Event, keys : SUBSET KeyRow]
  BY <1>1 DEF NoPend
<1>3. (CHOOSE a \in Actors : TRUE) \in Actors /\ (CHOOSE k \in Keys : TRUE) \in Keys
  BY ActorAssumption, KeyAssumption
<1>4. [expected |-> 0, target |-> NoActor, reason |-> FALSE,
       decision |-> NoDecision, doc |-> NoDoc] \in Body
  BY DEF Body
<1>5. SomeRequest \in Request
  BY <1>3, <1>4 DEF SomeRequest, Request, MutationOperation
<1>6. NoReply \in [kind : ReplyKind, case : Cases \cup {NoCase}, row : Row]
  BY <1>1 DEF NoReply, Reply, ReplyKind
<1> QED
  BY <1>1, <1>2, <1>5, <1>6

(* The historical view of a case that hydrates is a row.                   *)
LEMMA RowAtType ==
    ASSUME NEW c \in Cases, NEW row \in Row, NEW version \in Nat,
           events \subseteq Event, Replayable(c, row, events, version)
    PROVE  /\ RowAt(c, row, events, version) \in Row
           /\ RowAt(c, row, events, version).version = version
<1>1. CASE version = row.version
  BY <1>1 DEF RowAt
<1>2. CASE version # row.version
  <2> DEFINE e == CHOOSE f \in History(events, c) : f.version = version
  <2>1. \E f \in History(events, c) : f.version = version
    BY DEF Replayable, Hydrates
  <2>2. e \in History(events, c)
    BY <2>1
  <2>3. e \in Event
    BY <2>2 DEF History
  <2>4. e.result \in CaseStatus /\ e.at \in Nat
    BY <2>3 DEF Event
  <2>5. AssigneeAt(events, c, version) \in Actors \cup {NoActor}
    BY DEF AssigneeAt
  <2>6. RowAt(c, row, events, version) =
          [row EXCEPT !.status = e.result, !.version = version, !.updated = e.at,
                      !.assignee = AssigneeAt(events, c, version)]
    BY <1>2 DEF RowAt
  <2> HIDE DEF e
  <2> QED
    BY <2>4, <2>5, <2>6 DEF Row
<1> QED
  BY <1>1, <1>2

-----------------------------------------------------------------------------
(* Steps of one request that leave the store and the lock alone.           *)

Transacting == {"event", "key", "commit"}

(* A step that takes a request from one point outside a transaction to     *)
(* another keeps the invariant of every request if it keeps the request's  *)
(* own part.                                                               *)
LEMMA QuietStep ==
    ASSUME TypeOK, RequestInvariant,
           NEW r \in Requests, InFlight(r), pc[r] \notin Transacting,
           NEW step \in Step \ (Transacting \cup {"idle"}),
           Goto(r, step),
           UNCHANGED <<cases, events, keys, writer, pend, req>>,
           \A s \in Requests \ {r} : seen'[s] = seen[s] /\ found'[s] = found[s]
                                     /\ stamp'[s] = stamp[s],
           StepOfOperation(r)', ReadRowUsable(r)', ReplayFollowsKey(r)'
    PROVE  /\ pc' \in [Requests -> Step]
           /\ \A s \in Requests : pc'[s] \in Transacting <=> Holds(s)'
           /\ RequestInvariant'
<1>1. pc' \in [Requests -> Step] /\ pc'[r] = step
      /\ \A s \in Requests \ {r} : pc'[s] = pc[s]
  BY DEF TypeOK, Goto
<1>2. \A s \in Requests : pc'[s] \in Transacting <=> Holds(s)'
  BY <1>1 DEF TypeOK, Holds, Transacting
<1>3. \A s \in Requests : InFlight(s)' => InFlight(s)
  BY <1>1 DEF InFlight
<1>4. ASSUME NEW s \in Requests
      PROVE  CreateReserved(s)'
  BY <1>3, <1>4 DEF RequestInvariant, CreateReserved
<1>5. ASSUME NEW s \in Requests, s # r
      PROVE  StepOfOperation(s)' /\ ReadRowUsable(s)' /\ ReplayFollowsKey(s)'
  <2>1. /\ pc'[s] = pc[s] /\ seen'[s] = seen[s] /\ found'[s] = found[s]
        /\ req' = req /\ cases' = cases /\ keys' = keys
    BY <1>1, <1>5
  <2>2. StepOfOperation(s) /\ ReadRowUsable(s) /\ ReplayFollowsKey(s)
    BY DEF RequestInvariant
  <2>3. StepOfOperation(s)'
    BY <2>1, <2>2 DEF StepOfOperation, InFlight
  <2>4. ReadRowUsable(s)'
    BY <2>1, <2>2 DEF ReadRowUsable
  <2>5. ReplayFollowsKey(s)'
    BY <2>1, <2>2 DEF ReplayFollowsKey, StoredKeys
  <2> QED
    BY <2>3, <2>4, <2>5
<1>6. ASSUME NEW s \in Requests
      PROVE  PendingWrites(s)'
  <2>1. CASE s = r
    BY <1>1, <2>1 DEF PendingWrites, Transacting
  <2>2. CASE s # r
    <3>1. /\ pc'[s] = pc[s] /\ seen'[s] = seen[s] /\ stamp'[s] = stamp[s]
          /\ req' = req /\ pend' = pend /\ keys' = keys
      BY <1>1, <2>2
    <3>2. PriorStatus(s)' = PriorStatus(s) /\ TransitionOf(s)' = TransitionOf(s)
      BY <3>1 DEF PriorStatus, TransitionOf
    <3>3. NewRow(s)' = NewRow(s)
      BY <3>1, <3>2 DEF NewRow
    <3>4. NewEvent(s)' = NewEvent(s) /\ NewKey(s)' = NewKey(s)
      BY <3>1, <3>2, <3>3 DEF NewEvent, NewKey
    <3>5. StoredKeys(req[s])' = StoredKeys(req[s])
      BY <3>1 DEF StoredKeys
    <3>6. PendingWrites(s)
      BY DEF RequestInvariant
    <3> QED
      BY <3>1, <3>3, <3>4, <3>5, <3>6 DEF PendingWrites
  <2> QED
    BY <2>1, <2>2
<1> QED
  BY <1>1, <1>2, <1>4, <1>5, <1>6 DEF RequestInvariant

(* An answer is well typed when its kind and its row are.                  *)
LEMMA AnswerType ==
    ASSUME TypeOK, NEW r \in Requests, NEW kind \in ReplyKind,
           NEW c \in Cases \cup {NoCase}, NEW row \in Row,
           Answer(r, Reply(kind, c, row))
    PROVE  reply' \in [Requests -> [kind : ReplyKind, case : Cases \cup {NoCase},
                                    row : Row]]
  BY DEF TypeOK, Answer, Reply

LEMMA RefuseType ==
    ASSUME TypeOK, NEW r \in Requests, NEW kind \in ReplyKind, Refuse(r, kind)
    PROVE  /\ reply' \in [Requests -> [kind : ReplyKind,
                                       case : Cases \cup {NoCase}, row : Row]]
           /\ Goto(r, "done")
  BY AnswerType, Placeholders DEF Refuse, Answer

(* Answering a request that has no transaction keeps the invariants.       *)
LEMMA QuietAnswer ==
    ASSUME TypeOK, RequestInvariant,
           NEW r \in Requests, InFlight(r), pc[r] \notin Transacting,
           UNCHANGED <<cases, events, keys, clock, writer, pend,
                       req, seen, found, stamp>>,
           Goto(r, "done"),
           reply' \in [Requests -> [kind : ReplyKind, case : Cases \cup {NoCase},
                                    row : Row]]
    PROVE  TypeOK' /\ RequestInvariant'
<1>1. pc'[r] = "done"
  BY DEF TypeOK, Goto
<1>2. StepOfOperation(r)' /\ ReadRowUsable(r)' /\ ReplayFollowsKey(r)'
  BY <1>1 DEF StepOfOperation, ReadRowUsable, ReplayFollowsKey, InFlight
<1>3. "done" \in Step \ (Transacting \cup {"idle"})
  BY DEF Step, Transacting
<1>4. /\ pc' \in [Requests -> Step] /\ RequestInvariant'
      /\ \A s \in Requests : pc'[s] \in Transacting <=> Holds(s)'
  BY <1>2, <1>3, QuietStep
<1> QED
  BY <1>4 DEF TypeOK, Transacting

LEMMA PrecheckKeeps ==
    ASSUME TypeOK, RequestInvariant, NEW r \in Requests, Precheck(r)
    PROVE  TypeOK' /\ RequestInvariant'
<1>1. pc[r] = "precheck" /\ InFlight(r) /\ pc[r] \notin Transacting
  BY DEF Precheck, InFlight, Transacting
<1>2. UNCHANGED <<cases, events, keys, clock, writer, pend, req, seen, found, stamp>>
  BY DEF Precheck
<1>3. StepOfOperation(r)
  BY DEF RequestInvariant
<1>4. CASE Goto(r, "process") /\ UNCHANGED reply
  <2>1. pc'[r] = "process"
    BY <1>4 DEF TypeOK, Goto
  <2>2. StepOfOperation(r)' /\ ReadRowUsable(r)' /\ ReplayFollowsKey(r)'
    BY <1>1, <1>2, <1>3, <2>1
       DEF StepOfOperation, ReadRowUsable, ReplayFollowsKey, InFlight
  <2>3. "process" \in Step \ (Transacting \cup {"idle"})
    BY DEF Step, Transacting
  <2>4. /\ pc' \in [Requests -> Step] /\ RequestInvariant'
        /\ \A s \in Requests : pc'[s] \in Transacting <=> Holds(s)'
    BY <1>1, <1>2, <1>4, <2>2, <2>3, QuietStep
  <2> QED
    BY <1>2, <1>4, <2>4 DEF TypeOK, Transacting
<1>5. CASE Goto(r, "done") /\ reply' \in [Requests -> [kind : ReplyKind,
                                   case : Cases \cup {NoCase}, row : Row]]
  BY <1>1, <1>2, <1>5, QuietAnswer
<1>6. CASE \E k \in StoredKeys(req[r]) :
             IF k.digest # DigestOf(req[r]) THEN Refuse(r, "conflict")
             ELSE IF Replayable(k.case, cases[k.case], events, k.version)
                  THEN Answer(r, Reply("ok", k.case,
                           RowAt(k.case, cases[k.case], events, k.version)))
                  ELSE Refuse(r, "invalid")
  <2>1. PICK k \in StoredKeys(req[r]) :
             IF k.digest # DigestOf(req[r]) THEN Refuse(r, "conflict")
             ELSE IF Replayable(k.case, cases[k.case], events, k.version)
                  THEN Answer(r, Reply("ok", k.case,
                           RowAt(k.case, cases[k.case], events, k.version)))
                  ELSE Refuse(r, "invalid")
    BY <1>6
  <2>2. k.case \in Cases /\ k.version \in Nat /\ cases[k.case] \in Row
    BY DEF StoredKeys, TypeOK, KeyRow
  <2>3. CASE Refuse(r, "conflict") \/ Refuse(r, "invalid")
    BY <1>5, <2>3, RefuseType DEF ReplyKind
  <2>4. CASE /\ Replayable(k.case, cases[k.case], events, k.version)
             /\ Answer(r, Reply("ok", k.case,
                           RowAt(k.case, cases[k.case], events, k.version)))
    <3>1. RowAt(k.case, cases[k.case], events, k.version) \in Row
      BY <2>2, <2>4, RowAtType DEF TypeOK
    <3>2. reply' \in [Requests -> [kind : ReplyKind, case : Cases \cup {NoCase},
                                   row : Row]]
      BY <2>2, <2>4, <3>1, AnswerType DEF ReplyKind
    <3> QED
      BY <1>5, <2>4, <3>2 DEF Answer
  <2> QED
    BY <2>1, <2>3, <2>4
<1> QED
  BY <1>4, <1>6 DEF Precheck

LEMMA ProcessKeeps ==
    ASSUME TypeOK, RequestInvariant, NEW r \in Requests, Process(r)
    PROVE  TypeOK' /\ RequestInvariant'
<1>1. pc[r] = "process" /\ InFlight(r) /\ pc[r] \notin Transacting
  BY DEF Process, InFlight, Transacting
<1>2. UNCHANGED <<cases, events, keys, clock, writer, pend, req, found, stamp>>
  BY DEF Process
<1>3. StepOfOperation(r)
  BY DEF RequestInvariant
<1>4. CASE Refuse(r, "processing_failed") /\ UNCHANGED seen
  BY <1>1, <1>2, <1>4, RefuseType, QuietAnswer DEF ReplyKind
<1>5. CASE /\ \E t \in Snapshots : seen' = [seen EXCEPT ![r] = [NoRow EXCEPT !.snapshot = t]]
           /\ Goto(r, "lookup")
           /\ UNCHANGED reply
  <2>1. PICK t \in Snapshots : seen' = [seen EXCEPT ![r] = [NoRow EXCEPT !.snapshot = t]]
    BY <1>5
  <2>2. [NoRow EXCEPT !.snapshot = t] \in Row
    BY Placeholders DEF Row
  <2>3. seen' \in [Requests -> Row] /\ \A s \in Requests \ {r} : seen'[s] = seen[s]
    BY <2>1, <2>2 DEF TypeOK
  <2>4. pc'[r] = "lookup"
    BY <1>5 DEF TypeOK, Goto
  <2>5. StepOfOperation(r)' /\ ReadRowUsable(r)' /\ ReplayFollowsKey(r)'
    BY <1>1, <1>2, <1>3, <2>4
       DEF StepOfOperation, ReadRowUsable, ReplayFollowsKey, InFlight
  <2>6. "lookup" \in Step \ (Transacting \cup {"idle"})
    BY DEF Step, Transacting
  <2>7. /\ pc' \in [Requests -> Step] /\ RequestInvariant'
        /\ \A s \in Requests : pc'[s] \in Transacting <=> Holds(s)'
    BY <1>1, <1>2, <1>5, <2>3, <2>5, <2>6, QuietStep
  <2> QED
    BY <1>2, <1>5, <2>3, <2>7 DEF TypeOK, Transacting
<1> QED
  BY <1>4, <1>5 DEF Process

(* Following a stored key: to its case, or to a conflict.                  *)
LEMMA FollowKeyKeeps ==
    ASSUME TypeOK, RequestInvariant, NEW r \in Requests,
           InFlight(r), pc[r] \notin Transacting,
           UNCHANGED <<cases, events, keys, clock, writer, pend, req, seen, stamp>>,
           NEW k \in StoredKeys(req[r]), FollowKey(r, k)
    PROVE  TypeOK' /\ RequestInvariant'
<1>1. StepOfOperation(r)
  BY DEF RequestInvariant
<1>2. k \in KeyRow
  BY DEF StoredKeys, TypeOK
<1>3. CASE k.digest = DigestOf(req[r])
  <2> DEFINE f == [case |-> k.case, version |-> k.version]
  <2>1. /\ Goto(r, "replay_row") /\ UNCHANGED reply
        /\ found' = [found EXCEPT ![r] = f]
    BY <1>3 DEF FollowKey
  <2>2. f \in [case : Cases \cup {NoCase}, version : Nat]
    BY <1>2 DEF KeyRow
  <2>3. /\ found' \in [Requests -> [case : Cases \cup {NoCase}, version : Nat]]
        /\ found'[r] = f /\ \A s \in Requests \ {r} : found'[s] = found[s]
    BY <2>1, <2>2 DEF TypeOK
  <2>4. pc'[r] = "replay_row"
    BY <2>1 DEF TypeOK, Goto
  <2>5. k \in StoredKeys(req[r])' /\ k.digest = DigestOf(req[r])'
        /\ k.case = found'[r].case /\ k.version = found'[r].version
    BY <1>3, <2>3 DEF StoredKeys
  <2>6. StepOfOperation(r)' /\ ReadRowUsable(r)' /\ ReplayFollowsKey(r)'
    BY <1>1, <2>4, <2>5
       DEF StepOfOperation, ReadRowUsable, ReplayFollowsKey, InFlight
  <2>7. "replay_row" \in Step \ (Transacting \cup {"idle"})
    BY DEF Step, Transacting
  <2>8. /\ pc' \in [Requests -> Step] /\ RequestInvariant'
        /\ \A s \in Requests : pc'[s] \in Transacting <=> Holds(s)'
    BY <2>1, <2>3, <2>6, <2>7, QuietStep
  <2> QED
    BY <2>1, <2>3, <2>8 DEF TypeOK, Transacting
<1>4. CASE k.digest # DigestOf(req[r])
  BY <1>4, RefuseType, QuietAnswer DEF FollowKey, ReplyKind
<1> QED
  BY <1>3, <1>4

LEMMA LookupKeeps ==
    ASSUME TypeOK, RequestInvariant, NEW r \in Requests, Lookup(r)
    PROVE  TypeOK' /\ RequestInvariant'
<1>1. pc[r] = "lookup" /\ InFlight(r) /\ pc[r] \notin Transacting
  BY DEF Lookup, InFlight, Transacting
<1>2. UNCHANGED <<cases, events, keys, clock, writer, pend, req, seen>>
  BY DEF Lookup
<1>3. StepOfOperation(r)
  BY DEF RequestInvariant
<1>4. CASE /\ req[r].op = "create_case" /\ Goto(r, "write")
           /\ stamp' = [stamp EXCEPT ![r] = clock] /\ UNCHANGED <<found, reply>>
  <2>1. pc'[r] = "write" /\ stamp' \in [Requests -> Nat]
        /\ \A s \in Requests \ {r} : stamp'[s] = stamp[s]
    BY <1>4 DEF TypeOK, Goto
  <2>2. StepOfOperation(r)' /\ ReadRowUsable(r)' /\ ReplayFollowsKey(r)'
    BY <1>1, <1>2, <1>3, <1>4, <2>1
       DEF StepOfOperation, ReadRowUsable, ReplayFollowsKey, InFlight
  <2>3. "write" \in Step \ (Transacting \cup {"idle"})
    BY DEF Step, Transacting
  <2>4. /\ pc' \in [Requests -> Step] /\ RequestInvariant'
        /\ \A s \in Requests : pc'[s] \in Transacting <=> Holds(s)'
    BY <1>1, <1>2, <1>4, <2>1, <2>2, <2>3, QuietStep
  <2> QED
    BY <1>2, <1>4, <2>1, <2>4 DEF TypeOK, Transacting
<1>5. CASE /\ req[r].op # "create_case" /\ Goto(r, "read")
           /\ UNCHANGED <<stamp, found, reply>>
  <2>1. pc'[r] = "read"
    BY <1>5 DEF TypeOK, Goto
  <2>2. StepOfOperation(r)' /\ ReadRowUsable(r)' /\ ReplayFollowsKey(r)'
    BY <1>1, <1>2, <1>3, <1>5, <2>1
       DEF StepOfOperation, ReadRowUsable, ReplayFollowsKey, InFlight
  <2>3. "read" \in Step \ (Transacting \cup {"idle"})
    BY DEF Step, Transacting
  <2>4. /\ pc' \in [Requests -> Step] /\ RequestInvariant'
        /\ \A s \in Requests : pc'[s] \in Transacting <=> Holds(s)'
    BY <1>1, <1>2, <1>5, <2>2, <2>3, QuietStep
  <2> QED
    BY <1>2, <1>5, <2>4 DEF TypeOK, Transacting
<1>6. CASE (\E k \in StoredKeys(req[r]) : FollowKey(r, k)) /\ UNCHANGED stamp
  BY <1>1, <1>2, <1>6, FollowKeyKeeps
<1> QED
  BY <1>4, <1>5, <1>6 DEF Lookup

LEMMA ResolveKeeps ==
    ASSUME TypeOK, RequestInvariant, NEW r \in Requests, Resolve(r)
    PROVE  TypeOK' /\ RequestInvariant'
<1>1. pc[r] = "resolve" /\ InFlight(r) /\ pc[r] \notin Transacting
  BY DEF Resolve, InFlight, Transacting
<1>2. UNCHANGED <<cases, events, keys, clock, writer, pend, req, seen, stamp>>
  BY DEF Resolve
<1>3. CASE Refuse(r, "conflict") /\ UNCHANGED found
  BY <1>1, <1>2, <1>3, RefuseType, QuietAnswer DEF ReplyKind
<1>4. CASE \E k \in StoredKeys(req[r]) : FollowKey(r, k)
  BY <1>1, <1>2, <1>4, FollowKeyKeeps
<1> QED
  BY <1>3, <1>4 DEF Resolve

LEMMA ReplayRowKeeps ==
    ASSUME TypeOK, RequestInvariant, NEW r \in Requests, ReplayRow(r)
    PROVE  TypeOK' /\ RequestInvariant'
<1>1. pc[r] = "replay_row" /\ InFlight(r) /\ pc[r] \notin Transacting
  BY DEF ReplayRow, InFlight, Transacting
<1>2. UNCHANGED <<cases, events, keys, clock, writer, pend, req, found, stamp, reply>>
  BY DEF ReplayRow
<1>3. StepOfOperation(r) /\ ReplayFollowsKey(r)
  BY DEF RequestInvariant
<1>4. cases[found[r].case] \in Row
  BY <1>1, <1>3 DEF ReplayFollowsKey, StoredKeys, TypeOK, KeyRow
<1>5. seen' \in [Requests -> Row] /\ \A s \in Requests \ {r} : seen'[s] = seen[s]
  BY <1>4 DEF ReplayRow, TypeOK
<1>6. pc'[r] = "replay_events"
  BY DEF ReplayRow, TypeOK, Goto
<1>7. StepOfOperation(r)' /\ ReadRowUsable(r)' /\ ReplayFollowsKey(r)'
  BY <1>1, <1>2, <1>3, <1>6
     DEF StepOfOperation, ReadRowUsable, ReplayFollowsKey, StoredKeys, InFlight
<1>8. "replay_events" \in Step \ (Transacting \cup {"idle"}) /\ Goto(r, "replay_events")
  BY DEF Step, Transacting, ReplayRow
<1>9. /\ pc' \in [Requests -> Step] /\ RequestInvariant'
      /\ \A s \in Requests : pc'[s] \in Transacting <=> Holds(s)'
  BY <1>1, <1>2, <1>5, <1>7, <1>8, QuietStep
<1> QED
  BY <1>2, <1>5, <1>9 DEF TypeOK, Transacting

LEMMA ReplayEventsKeeps ==
    ASSUME TypeOK, RequestInvariant, NEW r \in Requests, ReplayEvents(r)
    PROVE  TypeOK' /\ RequestInvariant'
<1>1. pc[r] = "replay_events" /\ InFlight(r) /\ pc[r] \notin Transacting
  BY DEF ReplayEvents, InFlight, Transacting
<1>2. UNCHANGED <<cases, events, keys, clock, writer, pend, req, seen, found, stamp>>
  BY DEF ReplayEvents
<1> DEFINE c == found[r].case
           v == found[r].version
<1>3. c \in Cases /\ v \in Nat /\ seen[r] \in Row
  <2>1. ReplayFollowsKey(r)
    BY DEF RequestInvariant
  <2> QED
    BY <1>1, <2>1 DEF ReplayFollowsKey, StoredKeys, TypeOK, KeyRow
<1>4. CASE /\ Replayable(c, seen[r], events, v)
           /\ Answer(r, Reply("ok", c, RowAt(c, seen[r], events, v)))
  <2>1. RowAt(c, seen[r], events, v) \in Row
    BY <1>3, <1>4, RowAtType DEF TypeOK
  <2>2. reply' \in [Requests -> [kind : ReplyKind, case : Cases \cup {NoCase},
                                 row : Row]]
    BY <1>3, <1>4, <2>1, AnswerType DEF ReplyKind
  <2> QED
    BY <1>1, <1>2, <1>4, <2>2, QuietAnswer DEF Answer
<1>5. CASE Refuse(r, "invalid")
  BY <1>1, <1>2, <1>5, RefuseType, QuietAnswer DEF ReplyKind
<1> QED
  BY <1>4, <1>5 DEF ReplayEvents

LEMMA ReadRowKeeps ==
    ASSUME TypeOK, RequestInvariant, NEW r \in Requests, ReadRow(r)
    PROVE  TypeOK' /\ RequestInvariant'
<1> DEFINE q == req[r]
<1>1. pc[r] = "read" /\ InFlight(r) /\ pc[r] \notin Transacting
  BY DEF ReadRow, InFlight, Transacting
<1>2. UNCHANGED <<cases, events, keys, clock, writer, pend, req, found>>
  BY DEF ReadRow
<1>3. CASE Refuse(r, "not_found") /\ UNCHANGED <<seen, stamp>>
  BY <1>1, <1>2, <1>3, RefuseType, QuietAnswer DEF ReplyKind
<1>4. CASE /\ Verdict(q, cases[q.case]) # "proceed"
           /\ Refuse(r, Verdict(q, cases[q.case]))
           /\ UNCHANGED <<seen, stamp>>
  <2>1. Verdict(q, cases[q.case]) \in ReplyKind
    BY <1>4 DEF Verdict, ReplyKind
  <2> QED
    BY <1>1, <1>2, <1>4, <2>1, RefuseType, QuietAnswer
<1>5. CASE /\ q.case # NoCase
           /\ Verdict(q, cases[q.case]) = "proceed"
           /\ seen' = [seen EXCEPT ![r] = cases[q.case]]
           /\ stamp' = [stamp EXCEPT ![r] = clock]
           /\ Goto(r, "write")
           /\ UNCHANGED reply
  <2>1. q \in Request /\ StepOfOperation(r)
    BY DEF TypeOK, RequestInvariant
  <2>2. q.case \in Cases /\ cases[q.case] \in Row
    BY <1>5, <2>1 DEF Request, TypeOK
  <2>3. /\ seen' \in [Requests -> Row] /\ seen'[r] = cases[q.case]
        /\ stamp' \in [Requests -> Nat]
        /\ \A s \in Requests \ {r} : seen'[s] = seen[s] /\ stamp'[s] = stamp[s]
    BY <1>5, <2>2 DEF TypeOK
  <2>4. pc'[r] = "write"
    BY <1>5 DEF TypeOK, Goto
  <2>5. cases[q.case].version \in 1..cases[q.case].version
    <3>1. cases[q.case].version = q.body.expected
      BY <1>5, ProceedMeansAllowed
    <3>2. q.body.expected >= 1 /\ q.body.expected \in Nat
      BY <1>1, <2>1 DEF StepOfOperation, ValidRequest, Request, Body
    <3> QED
      BY <3>1, <3>2
  <2>6. StepOfOperation(r)' /\ ReplayFollowsKey(r)'
    BY <1>1, <1>2, <2>1, <2>4 DEF StepOfOperation, ReplayFollowsKey, InFlight
  <2>7. ReadRowUsable(r)'
    BY <1>2, <1>5, <2>2, <2>3, <2>4, <2>5 DEF ReadRowUsable
  <2>8. "write" \in Step \ (Transacting \cup {"idle"})
    BY DEF Step, Transacting
  <2>9. /\ pc' \in [Requests -> Step] /\ RequestInvariant'
        /\ \A s \in Requests : pc'[s] \in Transacting <=> Holds(s)'
    BY <1>1, <1>2, <1>5, <2>3, <2>6, <2>7, <2>8, QuietStep
  <2> QED
    BY <1>2, <1>5, <2>3, <2>9 DEF TypeOK, Transacting
<1> QED
  BY <1>3, <1>4, <1>5 DEF ReadRow

-----------------------------------------------------------------------------
(* Steps of the request that has, takes or gives up the write lock.        *)

(* While no other request holds the lock, a step of r that leaves the      *)
(* committed store alone keeps the invariant if it keeps r's own part.     *)
LEMMA LockStep ==
    ASSUME TypeOK, RequestInvariant,
           NEW r \in Requests, InFlight(r), writer \in {NoRequest, r},
           NEW step \in Step \ {"idle"}, Goto(r, step),
           writer' = IF step \in Transacting THEN r ELSE NoRequest,
           UNCHANGED <<cases, keys, req, seen, found, stamp>>,
           StepOfOperation(r)', ReadRowUsable(r)', ReplayFollowsKey(r)',
           PendingWrites(r)'
    PROVE  /\ pc' \in [Requests -> Step]
           /\ writer' \in Requests \cup {NoRequest}
           /\ \A s \in Requests : pc'[s] \in Transacting <=> Holds(s)'
           /\ RequestInvariant'
<1>1. pc' \in [Requests -> Step] /\ pc'[r] = step
      /\ \A s \in Requests \ {r} : pc'[s] = pc[s]
  BY DEF TypeOK, Goto
<1>2. \A s \in Requests \ {r} : pc'[s] \notin Transacting
  BY <1>1, RequestAssumption DEF TypeOK, Holds, Transacting
<1>3. \A s \in Requests : pc'[s] \in Transacting <=> Holds(s)'
  BY <1>1, <1>2, RequestAssumption DEF Holds
<1>4. \A s \in Requests : InFlight(s)' => InFlight(s)
  BY <1>1 DEF InFlight
<1>5. ASSUME NEW s \in Requests
      PROVE  CreateReserved(s)'
  BY <1>4, <1>5 DEF RequestInvariant, CreateReserved
<1>6. ASSUME NEW s \in Requests, s # r
      PROVE  StepOfOperation(s)' /\ ReadRowUsable(s)' /\ ReplayFollowsKey(s)'
  <2>1. /\ pc'[s] = pc[s] /\ seen'[s] = seen[s] /\ found'[s] = found[s]
        /\ req' = req /\ cases' = cases /\ keys' = keys
    BY <1>1, <1>6
  <2>2. StepOfOperation(s) /\ ReadRowUsable(s) /\ ReplayFollowsKey(s)
    BY DEF RequestInvariant
  <2>3. StepOfOperation(s)'
    BY <2>1, <2>2 DEF StepOfOperation, InFlight
  <2>4. ReadRowUsable(s)'
    BY <2>1, <2>2 DEF ReadRowUsable
  <2>5. ReplayFollowsKey(s)'
    BY <2>1, <2>2 DEF ReplayFollowsKey, StoredKeys
  <2> QED
    BY <2>3, <2>4, <2>5
<1>7. ASSUME NEW s \in Requests, s # r
      PROVE  PendingWrites(s)'
  BY <1>2, <1>7 DEF PendingWrites, Transacting
<1> QED
  BY <1>1, <1>3, <1>5, <1>6, <1>7, RequestAssumption DEF RequestInvariant

(* What a transition or a creation is about to write is well typed.        *)
LEMMA NewTypes ==
    ASSUME TypeOK, RequestInvariant, NEW r \in Requests,
           pc[r] \in {"write", "event", "key", "commit"}
    PROVE  /\ req[r].case \in Cases
           /\ PriorStatus(r) \in CaseStatus \cup {NoStatus}
           /\ IsAllowed(PriorStatus(r), req[r].op)
           /\ TransitionOf(r) \in AllowedTransitions
           /\ TransitionOf(r).prior = PriorStatus(r)
           /\ TransitionOf(r).op = req[r].op
           /\ Target(req[r]) \in Actors \cup {NoActor}
           /\ NewRow(r) \in Row
           /\ NewRow(r).version \in Nat \ {0}
           /\ NewEvent(r) \in Event
           /\ NewKey(r) \in KeyRow
<1>1. /\ req[r] \in Request /\ seen[r] \in Row /\ stamp[r] \in Nat
      /\ CreateReserved(r) /\ ReadRowUsable(r) /\ InFlight(r)
  BY DEF TypeOK, RequestInvariant, InFlight
<1>2. req[r].case \in Cases
  BY <1>1 DEF CreateReserved, ReadRowUsable
<1>3. /\ PriorStatus(r) \in CaseStatus \cup {NoStatus}
      /\ IsAllowed(PriorStatus(r), req[r].op)
  BY <1>1, CreateAllowed, ProceedMeansAllowed DEF ReadRowUsable, PriorStatus, Row
<1>4. /\ TransitionOf(r) \in AllowedTransitions
      /\ TransitionOf(r).prior = PriorStatus(r) /\ TransitionOf(r).op = req[r].op
  BY <1>3, NextTransitionAllowed DEF TransitionOf
<1>5. TransitionOf(r).type \in EventType /\ TransitionOf(r).result \in CaseStatus
  BY <1>4, TransitionType
<1>6. Target(req[r]) \in Actors \cup {NoActor}
  BY <1>1 DEF Target, Request, Body
<1>7. NewRow(r) \in Row /\ NewRow(r).version \in Nat \ {0}
  <2>1. CASE req[r].op = "create_case"
    BY <1>1, <2>1 DEF NewRow, Row, CaseStatus, Request
  <2>2. CASE req[r].op # "create_case"
    <3> DEFINE a == IF Target(req[r]) # NoActor THEN Target(req[r]) ELSE seen[r].assignee
               n == seen[r].version + 1
    <3>1. a \in Actors \cup {NoActor} /\ n \in Nat \ {0}
      BY <1>1, <1>6 DEF Row
    <3>2. NewRow(r) = [seen[r] EXCEPT !.status = TransitionOf(r).result, !.version = n,
                                      !.updated = stamp[r], !.assignee = a]
      BY <2>2 DEF NewRow
    <3> HIDE DEF a, n
    <3> QED
      BY <1>1, <1>5, <3>1, <3>2 DEF Row
  <2> QED
    BY <2>1, <2>2
<1>8. NewEvent(r) \in Event
  BY <1>1, <1>2, <1>3, <1>5, <1>6, <1>7 DEF NewEvent, Event, Request, Body
<1>9. DigestOf(req[r]) \in Digest
  BY <1>1 DEF DigestOf, Digest, Request
<1>10. NewKey(r) \in KeyRow
  BY <1>1, <1>2, <1>7, <1>9 DEF NewKey, KeyRow, Request
<1> QED
  BY <1>2, <1>3, <1>4, <1>6, <1>7, <1>8, <1>10

(* A step changes none of what a request computed from the row it read.    *)
LEMMA NewSame ==
    ASSUME NEW r \in Requests,
           req'[r] = req[r], seen'[r] = seen[r], stamp'[r] = stamp[r]
    PROVE  /\ NewRow(r)' = NewRow(r)
           /\ NewEvent(r)' = NewEvent(r)
           /\ NewKey(r)' = NewKey(r)
<1>1. PriorStatus(r)' = PriorStatus(r) /\ TransitionOf(r)' = TransitionOf(r)
  BY DEF PriorStatus, TransitionOf
<1>2. NewRow(r)' = NewRow(r)
  BY <1>1 DEF NewRow
<1> QED
  BY <1>1, <1>2 DEF NewEvent, NewKey

LEMMA WriteKeeps ==
    ASSUME TypeOK, RequestInvariant, NEW r \in Requests, Write(r)
    PROVE  TypeOK' /\ RequestInvariant'
<1>1. /\ pc[r] = "write" /\ InFlight(r) /\ pc[r] \notin Transacting
      /\ writer = NoRequest
      /\ UNCHANGED <<cases, events, keys, clock, req, seen, found, stamp>>
  BY DEF Write, InFlight, Transacting
<1>2. StepOfOperation(r) /\ ReadRowUsable(r)
  BY DEF RequestInvariant
<1>3. CASE Refuse(r, "stale") /\ UNCHANGED <<writer, pend>>
  BY <1>1, <1>3, RefuseType, QuietAnswer DEF ReplyKind
<1>4. CASE /\ StillCurrent(r)
           /\ writer' = r
           /\ pend' = [NoPend EXCEPT !.row = NewRow(r)]
           /\ Goto(r, "event")
           /\ UNCHANGED reply
  <2>1. pc'[r] = "event"
    BY <1>4 DEF TypeOK, Goto
  <2>2. NewRow(r) \in Row
    BY <1>1, NewTypes
  <2>3. /\ pend' \in [row : Row, events : SUBSET Event, keys : SUBSET KeyRow]
        /\ pend'.row = NewRow(r) /\ pend'.events = {} /\ pend'.keys = {}
    BY <1>4, <2>2, Placeholders DEF NoPend
  <2>4. NewRow(r)' = NewRow(r)
    BY <1>1, NewSame
  <2>5. PendingWrites(r)'
    BY <2>1, <2>3, <2>4 DEF PendingWrites
  <2>6. StepOfOperation(r)' /\ ReadRowUsable(r)' /\ ReplayFollowsKey(r)'
    BY <1>1, <1>2, <1>4, <2>1
       DEF StepOfOperation, ReadRowUsable, ReplayFollowsKey, InFlight, StillCurrent
  <2>7. "event" \in Step \ {"idle"} /\ "event" \in Transacting
    BY DEF Step, Transacting
  <2>8. /\ pc' \in [Requests -> Step] /\ RequestInvariant'
        /\ writer' \in Requests \cup {NoRequest}
        /\ \A s \in Requests : pc'[s] \in Transacting <=> Holds(s)'
    BY <1>1, <1>4, <2>5, <2>6, <2>7, LockStep
  <2> QED
    BY <1>1, <1>4, <2>3, <2>8 DEF TypeOK, Transacting
<1> QED
  BY <1>3, <1>4 DEF Write

(* Giving up the transaction, to be answered or to read the key again.     *)
LEMMA RollbackKeeps ==
    ASSUME TypeOK, RequestInvariant, NEW r \in Requests,
           pc[r] \in Transacting, Rollback,
           NEW step \in {"done", "resolve"}, Goto(r, step),
           UNCHANGED <<cases, events, keys, clock, req, seen, found, stamp>>,
           reply' \in [Requests -> [kind : ReplyKind, case : Cases \cup {NoCase},
                                    row : Row]]
    PROVE  TypeOK' /\ RequestInvariant'
<1>1. writer = r /\ InFlight(r) /\ pc'[r] = step /\ step \notin Transacting
  BY DEF TypeOK, Holds, InFlight, Transacting, Goto
<1>2. StepOfOperation(r)
  BY DEF RequestInvariant
<1>3. /\ StepOfOperation(r)' /\ ReadRowUsable(r)' /\ ReplayFollowsKey(r)'
      /\ PendingWrites(r)'
  BY <1>1, <1>2 DEF StepOfOperation, ReadRowUsable, ReplayFollowsKey, PendingWrites,
                    InFlight
<1>4. step \in Step \ {"idle"}
  BY DEF Step
<1>5. writer' = IF step \in Transacting THEN r ELSE NoRequest
  BY <1>1 DEF Rollback
<1>6. /\ pc' \in [Requests -> Step] /\ RequestInvariant'
      /\ writer' \in Requests \cup {NoRequest}
      /\ \A s \in Requests : pc'[s] \in Transacting <=> Holds(s)'
  BY <1>1, <1>3, <1>4, <1>5, LockStep
<1>7. pend' \in [row : Row, events : SUBSET Event, keys : SUBSET KeyRow]
  BY Placeholders DEF Rollback
<1> QED
  BY <1>6, <1>7 DEF TypeOK, Transacting

LEMMA AppendEventKeeps ==
    ASSUME TypeOK, RequestInvariant, NEW r \in Requests, AppendEvent(r)
    PROVE  TypeOK' /\ RequestInvariant'
<1>1. /\ pc[r] = "event" /\ InFlight(r) /\ pc[r] \in Transacting /\ writer = r
      /\ UNCHANGED <<cases, events, keys, clock, req, seen, found, stamp>>
  BY DEF AppendEvent, InFlight, Transacting, Holds
<1>2. StepOfOperation(r) /\ ReadRowUsable(r) /\ PendingWrites(r)
  BY DEF RequestInvariant
<1>3. CASE Rollback /\ Refuse(r, "integrity")
  BY <1>1, <1>3, RefuseType, RollbackKeeps DEF ReplyKind
<1>4. CASE /\ pend' = [pend EXCEPT !.events = {NewEvent(r)}]
           /\ Goto(r, "key")
           /\ UNCHANGED <<writer, reply>>
  <2>1. pc'[r] = "key"
    BY <1>4 DEF TypeOK, Goto
  <2>2. NewEvent(r) \in Event
    BY <1>1, NewTypes
  <2>3. /\ pend' \in [row : Row, events : SUBSET Event, keys : SUBSET KeyRow]
        /\ pend'.row = pend.row /\ pend'.events = {NewEvent(r)}
        /\ pend'.keys = pend.keys
    BY <1>4, <2>2 DEF TypeOK
  <2>4. NewRow(r)' = NewRow(r) /\ NewEvent(r)' = NewEvent(r)
    BY <1>1, NewSame
  <2>5. PendingWrites(r)'
    BY <1>1, <1>2, <2>1, <2>3, <2>4 DEF PendingWrites
  <2>6. StepOfOperation(r)' /\ ReadRowUsable(r)' /\ ReplayFollowsKey(r)'
    BY <1>1, <1>2, <2>1
       DEF StepOfOperation, ReadRowUsable, ReplayFollowsKey, InFlight
  <2>7. "key" \in Step \ {"idle"} /\ "key" \in Transacting
    BY DEF Step, Transacting
  <2>8. /\ pc' \in [Requests -> Step] /\ RequestInvariant'
        /\ writer' \in Requests \cup {NoRequest}
        /\ \A s \in Requests : pc'[s] \in Transacting <=> Holds(s)'
    BY <1>1, <1>4, <2>5, <2>6, <2>7, LockStep
  <2> QED
    BY <1>1, <1>4, <2>3, <2>8 DEF TypeOK, Transacting
<1> QED
  BY <1>3, <1>4 DEF AppendEvent

LEMMA RecordKeyKeeps ==
    ASSUME TypeOK, RequestInvariant, NEW r \in Requests, RecordKey(r)
    PROVE  TypeOK' /\ RequestInvariant'
<1>1. /\ pc[r] = "key" /\ InFlight(r) /\ pc[r] \in Transacting /\ writer = r
      /\ UNCHANGED <<cases, events, keys, clock, req, seen, found, stamp, reply>>
  BY DEF RecordKey, InFlight, Transacting, Holds
<1>2. StepOfOperation(r) /\ ReadRowUsable(r) /\ PendingWrites(r)
  BY DEF RequestInvariant
<1>3. CASE Rollback /\ Goto(r, "resolve")
  BY <1>1, <1>3, RollbackKeeps DEF TypeOK
<1>4. CASE /\ StoredKeys(req[r]) = {}
           /\ pend' = [pend EXCEPT !.keys = {NewKey(r)}]
           /\ Goto(r, "commit")
           /\ UNCHANGED writer
  <2>1. pc'[r] = "commit"
    BY <1>4 DEF TypeOK, Goto
  <2>2. NewKey(r) \in KeyRow
    BY <1>1, NewTypes
  <2>3. /\ pend' \in [row : Row, events : SUBSET Event, keys : SUBSET KeyRow]
        /\ pend'.row = pend.row /\ pend'.events = pend.events
        /\ pend'.keys = {NewKey(r)}
    BY <1>4, <2>2 DEF TypeOK
  <2>4. /\ NewRow(r)' = NewRow(r) /\ NewEvent(r)' = NewEvent(r)
        /\ NewKey(r)' = NewKey(r)
    BY <1>1, NewSame
  <2>5. StoredKeys(req[r])' = {}
    BY <1>1, <1>4 DEF StoredKeys
  <2>6. PendingWrites(r)'
    BY <1>1, <1>2, <2>1, <2>3, <2>4, <2>5 DEF PendingWrites
  <2>7. StepOfOperation(r)' /\ ReadRowUsable(r)' /\ ReplayFollowsKey(r)'
    BY <1>1, <1>2, <2>1
       DEF StepOfOperation, ReadRowUsable, ReplayFollowsKey, InFlight
  <2>8. "commit" \in Step \ {"idle"} /\ "commit" \in Transacting
    BY DEF Step, Transacting
  <2>9. /\ pc' \in [Requests -> Step] /\ RequestInvariant'
        /\ writer' \in Requests \cup {NoRequest}
        /\ \A s \in Requests : pc'[s] \in Transacting <=> Holds(s)'
    BY <1>1, <1>4, <2>6, <2>7, <2>8, LockStep
  <2> QED
    BY <1>1, <1>4, <2>3, <2>9 DEF TypeOK, Transacting
<1> QED
  BY <1>3, <1>4 DEF RecordKey

LEMMA BusyKeeps ==
    ASSUME TypeOK, RequestInvariant, NEW r \in Requests, Busy(r)
    PROVE  TypeOK' /\ RequestInvariant'
<1>1. /\ InFlight(r)
      /\ UNCHANGED <<cases, events, keys, clock, req, seen, found, stamp>>
      /\ Refuse(r, "busy") /\ RollbackIfHeld(r)
  BY DEF Busy, InFlight
<1>2. "busy" \in ReplyKind
  BY DEF ReplyKind
<1>3. CASE Holds(r)
  <2>1. pc[r] \in Transacting /\ Rollback
    BY <1>1, <1>3 DEF TypeOK, Transacting, RollbackIfHeld
  <2> QED
    BY <1>1, <1>2, <2>1, RefuseType, RollbackKeeps
<1>4. CASE ~Holds(r)
  <2>1. pc[r] \notin Transacting /\ UNCHANGED <<writer, pend>>
    BY <1>1, <1>4 DEF TypeOK, Transacting, RollbackIfHeld
  <2> QED
    BY <1>1, <1>2, <2>1, RefuseType, QuietAnswer
<1> QED
  BY <1>3, <1>4

-----------------------------------------------------------------------------
(* Arrivals, commits and crashes.                                          *)

LEMMA ArriveKeeps ==
    ASSUME TypeOK, RequestInvariant, NEW r \in Requests, Arrive(r)
    PROVE  TypeOK' /\ RequestInvariant'
<1>1. /\ pc[r] \in {"idle", "done"}
      /\ UNCHANGED <<cases, events, keys, clock, writer, pend>>
  BY DEF Arrive
<1>2. PICK q \in Request, step \in {"precheck", "lookup"} :
         /\ Begin(r, q, step)
         /\ ValidRequest(q)
         /\ step = "precheck" <=> q.op = "create_case"
         /\ q.op = "create_case" => q.case \in Cases /\ Unused(q.case)
  <2>1. PICK o \in Offers :
          \/ /\ o.op = "create_case"
             /\ \E c \in Cases : Unused(c) /\ Begin(r, [o EXCEPT !.case = c], "precheck")
          \/ /\ o.op # "create_case"
             /\ Begin(r, o, "lookup")
    BY DEF Arrive
  <2>2. o \in Request /\ ValidRequest(o)
    BY OfferAssumption
  <2>3. CASE /\ o.op = "create_case"
             /\ \E c \in Cases : Unused(c) /\ Begin(r, [o EXCEPT !.case = c], "precheck")
    <3>1. PICK c \in Cases : Unused(c) /\ Begin(r, [o EXCEPT !.case = c], "precheck")
      BY <2>3
    <3> DEFINE q == [o EXCEPT !.case = c]
    <3>2. /\ q \in Request /\ q.case = c
          /\ q.op = o.op /\ q.body = o.body
      BY <2>2 DEF Request
    <3>3. ValidRequest(q)
      BY <2>2, <3>2 DEF ValidRequest
    <3> HIDE DEF q
    <3> QED
      BY <2>3, <3>1, <3>2, <3>3 DEF q
  <2>4. CASE o.op # "create_case" /\ Begin(r, o, "lookup")
    BY <2>2, <2>4
  <2> QED
    BY <2>1, <2>3, <2>4
<1>3. /\ pc' = [pc EXCEPT ![r] = step] /\ req' = [req EXCEPT ![r] = q]
      /\ seen' = [seen EXCEPT ![r] = NoRow] /\ stamp' = [stamp EXCEPT ![r] = 0]
      /\ found' = [found EXCEPT ![r] = [case |-> NoCase, version |-> 0]]
      /\ reply' = [reply EXCEPT ![r] = NoReply]
  BY <1>2 DEF Begin
<1>4. /\ pc' \in [Requests -> Step] /\ req' \in [Requests -> Request]
      /\ pc'[r] = step /\ req'[r] = q
      /\ \A s \in Requests \ {r} : /\ pc'[s] = pc[s] /\ req'[s] = req[s]
                                   /\ seen'[s] = seen[s] /\ found'[s] = found[s]
                                   /\ stamp'[s] = stamp[s]
  BY <1>3 DEF TypeOK, Step
<1>5. \A s \in Requests : pc'[s] \in Transacting <=> Holds(s)'
  BY <1>1, <1>2, <1>4 DEF TypeOK, Holds, Transacting
<1>6. TypeOK'
  <2>1. seen' \in [Requests -> Row] /\ stamp' \in [Requests -> Nat]
        /\ found' \in [Requests -> [case : Cases \cup {NoCase}, version : Nat]]
        /\ reply' \in [Requests -> [kind : ReplyKind, case : Cases \cup {NoCase},
                                    row : Row]]
    BY <1>3, Placeholders DEF TypeOK
  <2> QED
    BY <1>1, <1>4, <1>5, <2>1 DEF TypeOK, Transacting
<1>7. ASSUME NEW s \in Requests
      PROVE  CreateReserved(s)'
  <2> SUFFICES ASSUME InFlight(s)', req'[s].op = "create_case"
               PROVE  /\ req'[s].case \in Cases
                      /\ cases'[req'[s].case] = NoRow
                      /\ \A t \in Requests \ {s} :
                            InFlight(t)' /\ req'[t].op = "create_case"
                            => req'[t].case # req'[s].case
    BY DEF CreateReserved
  <2>1. CASE s = r
    BY <1>1, <1>2, <1>4, <2>1 DEF Unused, InFlight
  <2>2. CASE s # r
    <3>1. InFlight(s) /\ req[s].op = "create_case" /\ req'[s] = req[s]
      BY <1>4, <2>2 DEF InFlight
    <3>2. CreateReserved(s)
      BY DEF RequestInvariant
    <3>3. req[s].case \in Cases /\ cases[req[s].case] = NoRow
      BY <3>1, <3>2 DEF CreateReserved
    <3>4. ASSUME NEW t \in Requests \ {s}, InFlight(t)', req'[t].op = "create_case"
          PROVE  req'[t].case # req[s].case
      BY <1>2, <1>4, <2>2, <3>1, <3>2, <3>4 DEF CreateReserved, Unused, InFlight
    <3> QED
      BY <1>1, <3>1, <3>3, <3>4
  <2> QED
    BY <2>1, <2>2
<1>8. ASSUME NEW s \in Requests
      PROVE  /\ StepOfOperation(s)' /\ ReadRowUsable(s)'
             /\ PendingWrites(s)' /\ ReplayFollowsKey(s)'
  <2>1. CASE s = r
    BY <1>2, <1>4, <2>1
       DEF StepOfOperation, ReadRowUsable, PendingWrites, ReplayFollowsKey, InFlight
  <2>2. CASE s # r
    <3>1. /\ pc'[s] = pc[s] /\ seen'[s] = seen[s] /\ found'[s] = found[s]
          /\ req'[s] = req[s] /\ stamp'[s] = stamp[s]
          /\ cases' = cases /\ keys' = keys /\ pend' = pend
      BY <1>1, <1>4, <2>2
    <3>2. /\ NewRow(s)' = NewRow(s) /\ NewEvent(s)' = NewEvent(s)
          /\ NewKey(s)' = NewKey(s)
      BY <3>1, NewSame
    <3>3. StoredKeys(req[s])' = StoredKeys(req[s])
      BY <3>1 DEF StoredKeys
    <3>4. /\ StepOfOperation(s) /\ ReadRowUsable(s)
          /\ PendingWrites(s) /\ ReplayFollowsKey(s)
      BY DEF RequestInvariant
    <3>5. StepOfOperation(s)'
      BY <3>1, <3>4 DEF StepOfOperation, InFlight
    <3>6. ReadRowUsable(s)'
      BY <3>1, <3>4 DEF ReadRowUsable
    <3>7. PendingWrites(s)'
      BY <3>1, <3>2, <3>3, <3>4 DEF PendingWrites
    <3>8. ReplayFollowsKey(s)'
      BY <3>1, <3>4 DEF ReplayFollowsKey, StoredKeys
    <3> QED
      BY <3>5, <3>6, <3>7, <3>8
  <2> QED
    BY <2>1, <2>2
<1> QED
  BY <1>6, <1>7, <1>8 DEF RequestInvariant

(* A commit publishes exactly the row, the event and the key computed from *)
(* the committed row, or nothing.                                          *)
Publishes(r) ==
    /\ ReadBack(r)
    /\ cases' = [cases EXCEPT ![req[r].case] = NewRow(r)]
    /\ events' = events \cup {NewEvent(r)}
    /\ keys' = keys \cup {NewKey(r)}

LEMMA CommitPublishes ==
    ASSUME TypeOK, RequestInvariant, NEW r \in Requests, Commit(r)
    PROVE  /\ pc[r] = "commit"
           /\ pend.row = NewRow(r)
           /\ pend.events = {NewEvent(r)}
           /\ StoredKeys(req[r]) = {}
           /\ req[r].case \in Cases
           /\ req[r].op = "create_case" => cases[req[r].case] = NoRow
           /\ req[r].op # "create_case" =>
                 /\ seen[r] = cases[req[r].case]
                 /\ seen[r].version >= 1
                 /\ Verdict(req[r], seen[r]) = "proceed"
           /\ \/ /\ Publishes(r)
                 /\ Answer(r, Reply("ok", req[r].case, NewRow(r)))
              \/ ~ReadBack(r) /\ Refuse(r, "invalid") /\ UNCHANGED store
<1>1. pc[r] = "commit" /\ InFlight(r)
  BY DEF Commit, InFlight
<1>2. PendingWrites(r) /\ ReadRowUsable(r) /\ CreateReserved(r)
  BY DEF RequestInvariant
<1>3. /\ pend.row = NewRow(r) /\ pend.events = {NewEvent(r)}
      /\ pend.keys = {NewKey(r)} /\ StoredKeys(req[r]) = {}
  BY <1>1, <1>2 DEF PendingWrites
<1>4. /\ req[r].case \in Cases
      /\ req[r].op = "create_case" => cases[req[r].case] = NoRow
      /\ req[r].op # "create_case" =>
            /\ seen[r] = cases[req[r].case]
            /\ seen[r].version >= 1
            /\ Verdict(req[r], seen[r]) = "proceed"
  BY <1>1, <1>2 DEF ReadRowUsable, CreateReserved, TypeOK, Row
<1>5. \/ /\ Publishes(r)
         /\ Answer(r, Reply("ok", req[r].case, NewRow(r)))
      \/ ~ReadBack(r) /\ Refuse(r, "invalid") /\ UNCHANGED store
  BY <1>3 DEF Commit, Publishes
<1> QED
  BY <1>1, <1>3, <1>4, <1>5

(* The published row has the version after the one it replaces.            *)
LEMMA PublishedVersion ==
    ASSUME TypeOK, RequestInvariant, NEW r \in Requests, Commit(r)
    PROVE  /\ cases[req[r].case] \in Row
           /\ NewRow(r) \in Row
           /\ NewRow(r).version = cases[req[r].case].version + 1
<1>1. cases[req[r].case] \in Row
  BY CommitPublishes DEF TypeOK
<1>2. NewRow(r) \in Row
  BY CommitPublishes, NewTypes
<1>3. CASE req[r].op = "create_case"
  <2>1. cases[req[r].case].version = 0
    BY <1>3, CommitPublishes DEF NoRow
  <2>2. NewRow(r).version = 1
    BY <1>3 DEF NewRow
  <2> QED
    BY <1>1, <1>2, <2>1, <2>2
<1>4. CASE req[r].op # "create_case"
  <2>1. seen[r] = cases[req[r].case]
    BY <1>4, CommitPublishes
  <2> QED
    BY <1>1, <1>2, <1>4, <2>1 DEF NewRow, Row
<1> QED
  BY <1>1, <1>2, <1>3, <1>4

LEMMA CommitKeeps ==
    ASSUME TypeOK, RequestInvariant, NEW r \in Requests, Commit(r)
    PROVE  TypeOK' /\ RequestInvariant'
<1> DEFINE c == req[r].case
<1>1. /\ pc[r] = "commit" /\ InFlight(r) /\ pc[r] \in Transacting /\ writer = r
      /\ Rollback
      /\ UNCHANGED <<clock, req, seen, found, stamp>>
  BY DEF Commit, InFlight, Transacting, Holds
<1>2. CASE Refuse(r, "invalid") /\ UNCHANGED store
  BY <1>1, <1>2, RefuseType, RollbackKeeps DEF ReplyKind, store
<1>3. CASE Publishes(r) /\ Answer(r, Reply("ok", c, NewRow(r)))
  <2>1. /\ c \in Cases /\ NewRow(r) \in Row /\ NewEvent(r) \in Event
        /\ NewKey(r) \in KeyRow
    BY <1>1, NewTypes
  <2>2. /\ cases' \in [Cases -> Row] /\ cases'[c] = NewRow(r)
        /\ \A d \in Cases \ {c} : cases'[d] = cases[d]
        /\ events' \subseteq Event /\ keys' \subseteq KeyRow /\ keys \subseteq keys'
    BY <1>3, <2>1 DEF TypeOK, Publishes
  <2>3. reply' \in [Requests -> [kind : ReplyKind, case : Cases \cup {NoCase},
                                 row : Row]]
    BY <1>3, <2>1, AnswerType DEF ReplyKind
  <2>4. /\ pc' \in [Requests -> Step] /\ pc'[r] = "done"
        /\ \A s \in Requests \ {r} : pc'[s] = pc[s]
    BY <1>3 DEF Answer, Goto, TypeOK, Step
  <2>5. \A s \in Requests \ {r} : pc[s] \notin Transacting
    BY <1>1, RequestAssumption DEF TypeOK, Holds, Transacting
  <2>6. TypeOK'
    <3>1. \A s \in Requests : pc'[s] \in Transacting <=> Holds(s)'
      BY <1>1, <2>4, <2>5, RequestAssumption DEF Rollback, Holds, Transacting
    <3>2. pend' \in [row : Row, events : SUBSET Event, keys : SUBSET KeyRow]
          /\ writer' \in Requests \cup {NoRequest}
      BY <1>1, Placeholders DEF Rollback
    <3> QED
      BY <1>1, <2>2, <2>3, <2>4, <3>1, <3>2 DEF TypeOK, Transacting
  <2>7. ASSUME NEW s \in Requests, s # r
        PROVE  CreateReserved(s)'
    <3> SUFFICES ASSUME InFlight(s)', req'[s].op = "create_case"
                 PROVE  /\ req'[s].case \in Cases
                        /\ cases'[req'[s].case] = NoRow
                        /\ \A t \in Requests \ {s} :
                              InFlight(t)' /\ req'[t].op = "create_case"
                              => req'[t].case # req'[s].case
      BY DEF CreateReserved
    <3>1. InFlight(s) /\ req[s].op = "create_case" /\ req' = req
      BY <1>1, <2>4, <2>7 DEF InFlight
    <3>2. CreateReserved(s)
      BY DEF RequestInvariant
    <3>3. /\ req[s].case \in Cases /\ cases[req[s].case] = NoRow
          /\ \A t \in Requests \ {s} :
                InFlight(t) /\ req[t].op = "create_case" => req[t].case # req[s].case
      BY <3>1, <3>2 DEF CreateReserved
    <3>4. req[s].case # c
      <4>1. CASE req[r].op = "create_case"
        BY <1>1, <2>7, <3>3, <4>1
      <4>2. CASE req[r].op # "create_case"
        <5>1. cases[c].version >= 1
          BY <4>2, CommitPublishes
        <5> QED
          BY <3>3, <5>1 DEF NoRow
      <4> QED
        BY <4>1, <4>2
    <3>5. \A t \in Requests \ {s} : InFlight(t)' => InFlight(t)
      BY <1>1, <2>4 DEF InFlight
    <3> QED
      BY <2>2, <3>1, <3>3, <3>4, <3>5
  <2>8. ASSUME NEW s \in Requests, s # r
        PROVE  StepOfOperation(s)' /\ PendingWrites(s)' /\ ReplayFollowsKey(s)'
    <3>1. /\ pc'[s] = pc[s] /\ req' = req /\ found' = found
          /\ pc'[s] \notin Transacting
      BY <1>1, <2>4, <2>5, <2>8
    <3>2. StepOfOperation(s) /\ ReplayFollowsKey(s)
      BY DEF RequestInvariant
    <3>3. StepOfOperation(s)'
      BY <3>1, <3>2 DEF StepOfOperation, InFlight
    <3>4. PendingWrites(s)'
      BY <3>1 DEF PendingWrites, Transacting
    <3>5. ReplayFollowsKey(s)'
      BY <2>2, <3>1, <3>2 DEF ReplayFollowsKey, StoredKeys
    <3> QED
      BY <3>3, <3>4, <3>5
  <2>9. ASSUME NEW s \in Requests, s # r
        PROVE  ReadRowUsable(s)'
    <3> SUFFICES ASSUME pc'[s] = "write", req'[s].op # "create_case"
                 PROVE  /\ req'[s].case \in Cases
                        /\ Verdict(req'[s], seen'[s]) = "proceed"
                        /\ seen'[s].version \in 1..cases'[req'[s].case].version
                        /\ \/ seen'[s] = cases'[req'[s].case]
                           \/ pc'[s] = "write"
                              /\ seen'[s].version # cases'[req'[s].case].version
      BY <2>4, <2>5, <2>9 DEF ReadRowUsable, Transacting
    <3>1. pc[s] = "write" /\ req' = req /\ seen' = seen
      BY <1>1, <2>4, <2>9
    <3>2. ReadRowUsable(s)
      BY DEF RequestInvariant
    <3>3. /\ req[s].case \in Cases
          /\ Verdict(req[s], seen[s]) = "proceed"
          /\ seen[s].version \in 1..cases[req[s].case].version
          /\ \/ seen[s] = cases[req[s].case]
             \/ seen[s].version # cases[req[s].case].version
      BY <3>1, <3>2 DEF ReadRowUsable
    <3>4. CASE req[s].case # c
      BY <2>2, <3>1, <3>3, <3>4
    <3>5. CASE req[s].case = c
      <4>1. cases'[c].version = cases[c].version + 1 /\ cases[c].version \in Nat
        BY <2>2, PublishedVersion DEF Row
      <4> QED
        BY <3>1, <3>3, <3>5, <4>1
    <3> QED
      BY <3>4, <3>5
  <2>10. /\ CreateReserved(r)' /\ StepOfOperation(r)' /\ ReadRowUsable(r)'
         /\ PendingWrites(r)' /\ ReplayFollowsKey(r)'
    BY <2>4 DEF CreateReserved, StepOfOperation, ReadRowUsable, PendingWrites,
                ReplayFollowsKey, InFlight
  <2> QED
    BY <2>6, <2>7, <2>8, <2>9, <2>10 DEF RequestInvariant
<1> QED
  BY <1>2, <1>3, CommitPublishes

LEMMA CrashKeeps ==
    ASSUME TypeOK, RequestInvariant, Crash
    PROVE  TypeOK' /\ RequestInvariant'
<1>1. /\ Rollback
      /\ UNCHANGED <<cases, events, keys, clock, req, seen, found, stamp, reply>>
      /\ pc' = [r \in Requests |-> IF pc[r] = "done" THEN "done" ELSE "idle"]
  BY DEF Crash
<1>2. \A r \in Requests : ~InFlight(r)'
  BY <1>1 DEF InFlight
<1>3. TypeOK'
  <2>1. pc' \in [Requests -> Step]
    BY <1>1 DEF Step
  <2>2. \A r \in Requests : pc'[r] \in {"event", "key", "commit"} <=> Holds(r)'
    BY <1>1, <1>2, RequestAssumption DEF InFlight, Holds, Rollback
  <2> QED
    BY <1>1, <2>1, <2>2, Placeholders DEF TypeOK, Rollback
<1>4. ASSUME NEW r \in Requests
      PROVE  /\ CreateReserved(r)' /\ StepOfOperation(r)' /\ ReadRowUsable(r)'
             /\ PendingWrites(r)' /\ ReplayFollowsKey(r)'
  BY <1>2 DEF CreateReserved, StepOfOperation, ReadRowUsable, PendingWrites,
              ReplayFollowsKey, InFlight
<1> QED
  BY <1>3, <1>4 DEF RequestInvariant

(* A step that changes at most the clock.                                  *)
LEMMA IdleKeeps ==
    ASSUME TypeOK, RequestInvariant, clock' \in Nat,
           UNCHANGED <<cases, events, keys, writer, pend,
                       pc, req, seen, found, stamp, reply>>
    PROVE  TypeOK' /\ RequestInvariant'
<1>1. TypeOK'
  BY DEF TypeOK, Holds
<1>2. ASSUME NEW r \in Requests
      PROVE  CreateReserved(r)' /\ StepOfOperation(r)' /\ ReadRowUsable(r)'
             /\ ReplayFollowsKey(r)'
  <2>1. CreateReserved(r) /\ StepOfOperation(r) /\ ReadRowUsable(r)
        /\ ReplayFollowsKey(r)
    BY DEF RequestInvariant
  <2>2. CreateReserved(r)'
    BY <2>1 DEF CreateReserved, InFlight
  <2>3. StepOfOperation(r)' /\ ReadRowUsable(r)' /\ ReplayFollowsKey(r)'
    BY <2>1 DEF StepOfOperation, ReadRowUsable, ReplayFollowsKey, StoredKeys, InFlight
  <2> QED
    BY <2>2, <2>3
<1>3. ASSUME NEW r \in Requests
      PROVE  PendingWrites(r)'
  <2>1. /\ NewRow(r)' = NewRow(r) /\ NewEvent(r)' = NewEvent(r)
        /\ NewKey(r)' = NewKey(r) /\ StoredKeys(req[r])' = StoredKeys(req[r])
    BY NewSame DEF StoredKeys
  <2>2. PendingWrites(r)
    BY DEF RequestInvariant
  <2> QED
    BY <2>1, <2>2 DEF PendingWrites
<1> QED
  BY <1>1, <1>2, <1>3 DEF RequestInvariant

-----------------------------------------------------------------------------
(* Types and the requests' invariant.                                      *)

LEMMA InitEstablishes == Init => TypeOK /\ RequestInvariant
<1> SUFFICES ASSUME Init PROVE TypeOK /\ RequestInvariant
  OBVIOUS
<1>1. TypeOK
  BY Placeholders, RequestAssumption DEF Init, TypeOK, Step, Holds
<1>2. \A r \in Requests : pc[r] = "idle"
  BY DEF Init
<1>3. RequestInvariant
  BY <1>2 DEF RequestInvariant, CreateReserved, StepOfOperation, ReadRowUsable,
              PendingWrites, ReplayFollowsKey, InFlight
<1> QED
  BY <1>1, <1>3

LEMMA NextKeeps == TypeOK /\ RequestInvariant /\ [Next]_vars
                       => TypeOK' /\ RequestInvariant'
<1> SUFFICES ASSUME TypeOK, RequestInvariant, [Next]_vars
             PROVE  TypeOK' /\ RequestInvariant'
  OBVIOUS
<1>1. ASSUME NEW r \in Requests, Arrive(r)
      PROVE  TypeOK' /\ RequestInvariant'
  BY <1>1, ArriveKeeps
<1>2. ASSUME NEW r \in Requests, Advance(r)
      PROVE  TypeOK' /\ RequestInvariant'
  BY <1>2, PrecheckKeeps, ProcessKeeps, LookupKeeps, ReplayRowKeeps,
     ReplayEventsKeeps, ReadRowKeeps, WriteKeeps, AppendEventKeeps,
     RecordKeyKeeps, ResolveKeeps, CommitKeeps
     DEF Advance
<1>3. ASSUME NEW r \in Requests, Busy(r)
      PROVE  TypeOK' /\ RequestInvariant'
  BY <1>3, BusyKeeps
<1>4. CASE Crash
  BY <1>4, CrashKeeps
<1>5. CASE Tick
  <2>1. clock' \in Nat
    BY <1>5, ClockAssumption DEF Tick
  <2> QED
    BY <1>5, <2>1, IdleKeeps DEF Tick
<1>6. CASE UNCHANGED vars
  BY <1>6, IdleKeeps DEF vars, TypeOK
<1> QED
  BY <1>1, <1>2, <1>3, <1>4, <1>5, <1>6 DEF Next

(* The variables of the store and of every request keep their types, and   *)
(* the write lock is held exactly by a request inside its transaction.     *)
THEOREM TypeCorrect == Spec => []TypeOK
<1>1. Init => TypeOK /\ RequestInvariant
  BY InitEstablishes
<1>2. TypeOK /\ RequestInvariant /\ [Next]_vars => TypeOK' /\ RequestInvariant'
  BY NextKeeps
<1> QED
  BY <1>1, <1>2, PTL DEF Spec

(* Between its statements, every request works on the committed row or     *)
(* loses to a later one, and writes exactly what it computed from it.      *)
THEOREM RequestsCorrect == Spec => []RequestInvariant
<1>1. Init => TypeOK /\ RequestInvariant
  BY InitEstablishes
<1>2. TypeOK /\ RequestInvariant /\ [Next]_vars => TypeOK' /\ RequestInvariant'
  BY NextKeeps
<1> QED
  BY <1>1, <1>2, PTL DEF Spec
=============================================================================
