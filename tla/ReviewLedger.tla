---------------------------- MODULE ReviewLedger ----------------------------
(***************************************************************************)
(* What the review store promises, with no locks, rows, retries or         *)
(* concurrency: one ledger of events that only grows, by one event at a    *)
(* time, each the legal and authorised successor of its case's last event, *)
(* and at most one event per (actor, operation, idempotency key).          *)
(***************************************************************************)
EXTENDS ReviewTransitions

VARIABLE ledger

SameScope(e, f) ==
    /\ e.actor = f.actor
    /\ e.key = f.key
    /\ EventOperation(e.type) = EventOperation(f.type)

(* e continues the history of its case: the next version, chained to the   *)
(* status and the time of the event before it, along the transition table. *)
Continues(e) ==
    /\ \A f \in History(ledger, e.case) : f.version < e.version
    /\ \/ e.version = 1 /\ e.prior = NoStatus
       \/ \E f \in History(ledger, e.case) :
             /\ e.version = f.version + 1
             /\ e.prior = f.result
             /\ f.at <= e.at
    /\ \E t \in AllowedTransitions :
          /\ t.prior = e.prior
          /\ t.type = e.type
          /\ t.result = e.result

(* The actor had the authority, judged by the ledger itself.               *)
Authorised(e) ==
    \E a \in Actors \cup {NoActor} :
       /\ IsAssignee(ledger, e.case, e.version, a)
       /\ Authorize(EventOperation(e.type), e.prior, e.actor, a, e.assigned)

Record(e) ==
    /\ e \in Event
    /\ EventShape(e)
    /\ Continues(e)
    /\ Authorised(e)
    /\ ~\E f \in ledger : SameScope(e, f)
    /\ ledger' = ledger \cup {e}

LedgerInit == ledger = {}

LedgerNext == \E e \in ledger' \ ledger : Record(e)

LedgerSpec == LedgerInit /\ [][LedgerNext]_ledger
=============================================================================
