-------------------------- MODULE MCReferenceStore --------------------------
(* Small instances of ReferenceStore for TLC.                              *)
EXTENDS ReferenceStore

CONSTANTS rec1, rec2, e1, e2, n1, c1, c2, slot1, slot2

Order(e, c) == [kind |-> "purchase_order", external |-> e, natural |-> n1,
                content |-> c]

Invoice(e, c) == [kind |-> "invoice", external |-> e, natural |-> NoNatural,
                  content |-> c]

Ask(op, kind) == [op |-> op, kind |-> kind, target |-> NoRecord, batch |-> <<>>,
                  conflict |-> "reject", dryRun |-> FALSE]

Create(i) == [Ask("create", i.kind) EXCEPT !.batch = <<i>>]

Update(x, i) == [Ask("update", i.kind) EXCEPT !.target = x, !.batch = <<i>>]

Delete(kind, x) == [Ask("delete", kind) EXCEPT !.target = x]

Get(kind, x) == [Ask("get", kind) EXCEPT !.target = x]

ImportOf(batch, conflict, dryRun) ==
    [Ask("import", "invoice") EXCEPT !.batch = batch, !.conflict = conflict,
                                     !.dryRun = dryRun]

(* Purchase orders that share a natural key, an invoice whose provenance   *)
(* one of them has too, a batch that names one record twice, each policy.  *)
MixedOffers ==
    {Create(Order(e1, c1))}
    \cup {Update(x, Order(e1, c2)) : x \in Records}
    \cup {Delete("purchase_order", x) : x \in Records}
    \cup {Get("purchase_order", x) : x \in Records}
    \cup {ImportOf(<<Invoice(e1, c1), Order(e1, c2)>>, "skip", FALSE),
          ImportOf(<<Order(e1, c2), Order(e1, c1)>>, "replace", FALSE),
          ImportOf(<<Invoice(e1, c1), Order(e2, c1)>>, "replace", FALSE),
          ImportOf(<<Order(e1, c1)>>, "reject", TRUE)}

(* A record that two administrators delete and one updates.                *)
DeleteOffers ==
    {Create(Order(e1, c1))}
    \cup {Update(x, Order(e1, c2)) : x \in Records}
    \cup {Delete("purchase_order", x) : x \in Records}
    \cup {Get("purchase_order", x) : x \in Records}
=============================================================================
