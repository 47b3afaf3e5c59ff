--------------------------- MODULE MCReviewStore ---------------------------
(* Small instances of ReviewStore for TLC, one set of offers per question. *)
EXTENDS ReviewStore, TLC

CONSTANTS admin, bob, k1, k2, caseA, caseB, d1, d2, slot1, slot2, accept

NoBody == [expected |-> 0, target |-> NoActor, reason |-> FALSE,
           decision |-> NoDecision, doc |-> NoDoc]

Create(a, k, d) ==
    [op |-> "create_case", actor |-> a, key |-> k, case |-> NoCase,
     body |-> [NoBody EXCEPT !.doc = d]]

Assign(a, k, c, v, t, reason) ==
    [op |-> "assign_case", actor |-> a, key |-> k, case |-> c,
     body |-> [NoBody EXCEPT !.expected = v, !.target = t, !.reason = reason]]

Escalate(a, k, c, v) ==
    [op |-> "escalate_case", actor |-> a, key |-> k, case |-> c,
     body |-> [NoBody EXCEPT !.expected = v, !.reason = TRUE]]

Decide(a, k, c, v) ==
    [op |-> "decide_case", actor |-> a, key |-> k, case |-> c,
     body |-> [NoBody EXCEPT !.expected = v, !.reason = TRUE,
                             !.decision = accept]]

(* A case worked by a reviewer and an admin who race for every version of  *)
(* it: claims, hand-overs to and from the reviewer, escalation, decision.  *)
WorkflowOffers ==
    {Create(bob, k1, d1), Assign(bob, k1, caseA, 1, NoActor, FALSE)}
    \cup {Assign(admin, k1, caseA, v, t, TRUE) : v \in {1, 2}, t \in {NoActor, bob}}
    \cup {Assign(admin, k2, caseA, 3, bob, FALSE)}
    \cup {Escalate(bob, k1, caseA, v) : v \in {2, 3}}
    \cup {Decide(bob, k1, caseA, v) : v \in {2, 3}}

(* Clients that send one key for two cases and for two bodies on one case, *)
(* retry all of it at any time and contend for the lock; the case moves on *)
(* between a request and its retry.                                        *)
ReplayOffers ==
    {Create(bob, k1, d1), Create(admin, k1, d1)}
    \cup {Assign(bob, k1, c, 1, NoActor, FALSE) : c \in {caseA, caseB}}
    \cup {Assign(bob, k1, caseA, 1, bob, FALSE), Decide(bob, k1, caseA, 2)}

(* A claim, its retry, and a later step on the same case.                  *)
TornOffers ==
    {Create(bob, k1, d1), Assign(bob, k1, caseA, 1, NoActor, FALSE), Decide(bob, k1, caseA, 2)}

Slots == Permutations(Requests)
=============================================================================
