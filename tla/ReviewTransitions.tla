------------------------- MODULE ReviewTransitions -------------------------
(***************************************************************************)
(* The vocabulary of the review workflow: statuses, operations, event      *)
(* records, the table of allowed transitions and the authority rule        *)
(* (src/veridoc/review/transitions.py and review/models.py), and what it   *)
(* means for an event table to be a well-formed history of a case.         *)
(*                                                                         *)
(* Python's None is a value of its own for each type: NoStatus, NoActor,   *)
(* NoDecision.  A reason is a BOOLEAN: given or not given.                 *)
(***************************************************************************)
EXTENDS Naturals

CONSTANTS Actors,      \* actor identifiers of the actor directory
          Admins,      \* those whose role is review_admin
          NoActor,     \* None, where an actor identifier is optional
          Cases,       \* case identifiers (uuid4)
          Keys,        \* Idempotency-Key header values
          Decisions,   \* decision values
          NoDecision

ASSUME ActorAssumption ==
    Admins \subseteq Actors /\ NoActor \notin Actors /\ Actors # {}
ASSUME KeyAssumption == Keys # {}
ASSUME DecisionAssumption == NoDecision \notin Decisions

NoStatus == "none"

CaseStatus == {"unassigned", "assigned", "escalated", "decided"}

MutationOperation ==
    {"create_case", "assign_case", "escalate_case", "decide_case"}

EventType == {"case_created", "case_assigned", "case_reassigned",
              "case_escalated", "case_decided"}

AssignmentEventTypes == {"case_assigned", "case_reassigned"}

ReasonRequiredEventTypes ==
    {"case_reassigned", "case_escalated", "case_decided"}

-----------------------------------------------------------------------------
(* The transition table.                                                   *)

Transition(prior, op, type, result) ==
    [prior |-> prior, op |-> op, type |-> type, result |-> result]

(* Mutant: a decided case can be assigned again.                           *)
ReopeningTransitions ==
    {Transition(NoStatus,     "create_case",   "case_created",    "unassigned"),
     Transition("unassigned", "assign_case",   "case_assigned",   "assigned"),
     Transition("escalated",  "assign_case",   "case_assigned",   "assigned"),
     Transition("decided",    "assign_case",   "case_assigned",   "assigned"),
     Transition("assigned",   "assign_case",   "case_reassigned", "assigned"),
     Transition("assigned",   "escalate_case", "case_escalated",  "escalated"),
     Transition("assigned",   "decide_case",   "case_decided",    "decided")}

AllowedTransitions ==
    {Transition(NoStatus,     "create_case",   "case_created",    "unassigned"),
     Transition("unassigned", "assign_case",   "case_assigned",   "assigned"),
     Transition("escalated",  "assign_case",   "case_assigned",   "assigned"),
     Transition("assigned",   "assign_case",   "case_reassigned", "assigned"),
     Transition("assigned",   "escalate_case", "case_escalated",  "escalated"),
     Transition("assigned",   "decide_case",   "case_decided",    "decided")}

IsAllowed(prior, op) ==
    \E t \in AllowedTransitions : t.prior = prior /\ t.op = op

NextTransition(prior, op) ==
    CHOOSE t \in AllowedTransitions : t.prior = prior /\ t.op = op

(* _EVENT_OPERATIONS: the operation that records each event type.          *)
EventOperation(type) ==
    IF type = "case_created" THEN "create_case"
    ELSE IF type \in AssignmentEventTypes THEN "assign_case"
    ELSE IF type = "case_escalated" THEN "escalate_case"
    ELSE "decide_case"

(* Mutant: any reviewer may escalate or decide an assigned case.           *)
AuthorizeAnyReviewer(op, status, actor, assignee, target) ==
    \/ actor \in Admins
    \/ op = "create_case"
    \/ op = "assign_case" /\ status = "unassigned" /\ target \in {NoActor, actor}
    \/ op \in {"escalate_case", "decide_case"} /\ assignee # NoActor

(* May this actor perform this operation on a case in this status?  A      *)
(* reviewer may only claim an unassigned case for itself, and escalate or  *)
(* decide a case assigned to it.                                           *)
Authorize(op, status, actor, assignee, target) ==
    \/ actor \in Admins
    \/ op = "create_case"
    \/ /\ op = "assign_case"
       /\ status = "unassigned"
       /\ target \in {NoActor, actor}
    \/ /\ op \in {"escalate_case", "decide_case"}
       /\ assignee # NoActor
       /\ assignee = actor

-----------------------------------------------------------------------------
(* Rows of the review_events table.                                        *)

Event == [case     : Cases,
          version  : Nat \ {0},
          type     : EventType,
          actor    : Actors,
          at       : Nat,
          key      : Keys,
          prior    : CaseStatus \cup {NoStatus},
          result   : CaseStatus,
          reason   : BOOLEAN,
          decision : Decisions \cup {NoDecision},
          assigned : Actors \cup {NoActor}]

(* ReviewEvent's validator: which fields each event type must and may carry. *)
EventShape(e) ==
    /\ (e.type = "case_created") <=> (e.prior = NoStatus)
    /\ (e.type = "case_decided") <=> (e.decision # NoDecision)
    /\ (e.type \in AssignmentEventTypes) <=> (e.assigned # NoActor)
    /\ e.type \in ReasonRequiredEventTypes => e.reason

History(table, c) == {e \in table : e.case = c}

(* The actor assigned by the latest assignment event of case c up to       *)
(* version v, NoActor when there is none.                                  *)
IsAssignee(table, c, v, a) ==
    LET assignments == {e \in History(table, c) :
                          e.version <= v /\ e.type \in AssignmentEventTypes}
    IN  \/ assignments = {} /\ a = NoActor
        \/ \E e \in assignments :
              /\ e.assigned = a
              /\ \A f \in assignments : f.version <= e.version

AssigneeAt(table, c, v) ==
    IF \E a \in Actors : IsAssignee(table, c, v, a)
    THEN CHOOSE a \in Actors : IsAssignee(table, c, v, a)
    ELSE NoActor
=============================================================================
