------------------------------ MODULE Verification ------------------------------
(***************************************************************************)
(* VerificationService.verify (src/veridoc/verification/service.py): one   *)
(* invoice is checked by every rule while administrators go on changing    *)
(* the reference data.  The rules read the history once, the purchase      *)
(* order twice, and the vendor registry in up to eight queries, each on a  *)
(* connection and in a snapshot of its own: between two reads any number   *)
(* of writes may be committed.                                             *)
(*                                                                         *)
(* Only the rows one verification can read are modelled: the invoices of   *)
(* its vendor key, the one purchase order it names, and the vendors.       *)
(***************************************************************************)
EXTENDS VendorResolution

CONSTANTS Today,      \* the date when the verification starts
          Cases,      \* what may be verified, beside which tables
          Entries,    \* invoices an administrator may add to the history
          OrderRows,  \* what the purchase order may be replaced by
          VendorRows, \* vendors that may be created or put in place of one
          MaxHistory  \* bound on the invoices of the history

Tables == [history : Seq(HistoricalInvoice),
           order   : Maybe(PurchaseOrder),
           vendors : SUBSET Vendor]

(* vendors_vendor_id_index.                                                *)
UniqueIds(vendors) == \A v, w \in vendors : v.id = w.id => v = w

(* writes bounds the writes that may be committed before the end.          *)
Case == [invoice : Invoice, tables : Tables, writes : Nat]

ASSUME CaseAssumption ==
    /\ \A c \in Cases :
           c \in Case /\ IsFiniteSet(c.tables.vendors) /\ UniqueIds(c.tables.vendors)
    /\ Entries \subseteq HistoricalInvoice
    /\ OrderRows \subseteq PurchaseOrder
    /\ VendorRows \subseteq Vendor
    /\ {Today, MaxHistory} \subseteq Int

VARIABLES
    invoice,    \* the extraction
    tables,     \* the committed rows
    budget,     \* writes that may still be committed
    past,       \* every content the tables have had since the start
    pc,         \* the next read
    names,      \* names still to be looked up
    history,    \* the history as it was read
    resolution, \* the VendorResolutionResult
    findings

vars == <<invoice, tables, budget, past, pc, names, history, resolution, findings>>

Step == {"fields", "history", "order", "tax", "account", "key", "alias", "similar",
         "vendor", "compare", "ceiling", "done", "unavailable", "error"}

TypeOK ==
    /\ invoice \in Invoice
    /\ tables \in Tables
    /\ budget \in Nat
    /\ tables \in past
    /\ past \subseteq Tables
    /\ \A t \in past : IsFiniteSet(t.vendors) /\ UniqueIds(t.vendors)
    /\ pc \in Step
    /\ names \in Seq(Names)
    /\ history \in Seq(HistoricalInvoice)
    /\ resolution \in Resolution
    /\ findings \subseteq Finding

Init ==
    \E c \in Cases :
        /\ invoice = c.invoice
        /\ tables = c.tables
        /\ budget = c.writes
        /\ past = {c.tables}
        /\ pc = "fields"
        /\ names = Candidates(c.invoice)
        /\ history = <<>>
        /\ resolution = NotResolved
        /\ findings = {}

-----------------------------------------------------------------------------
(* The administrators.                                                     *)

Commit(t) ==
    /\ budget > 0
    /\ pc \notin {"done", "unavailable", "error"}
    /\ budget' = budget - 1
    /\ tables' = t
    /\ past' = past \cup {t}
    /\ UNCHANGED <<invoice, pc, names, history, resolution, findings>>

AddInvoice ==
    /\ Len(tables.history) < MaxHistory
    /\ \E e \in Entries : Commit([tables EXCEPT !.history = Append(@, e)])

(* An update of an invoice, or its deletion.                               *)
ReplaceInvoice ==
    \E i \in DOMAIN tables.history, e \in Entries :
        Commit([tables EXCEPT !.history[i] = e])

DeleteInvoice ==
    \E i \in DOMAIN tables.history :
        Commit([tables EXCEPT !.history =
                   [j \in 1..(Len(@) - 1) |-> IF j < i THEN @[j] ELSE @[j + 1]]])

ChangeOrder == \E o \in OrderRows \cup {None} : Commit([tables EXCEPT !.order = o])

DeleteVendor ==
    \E v \in tables.vendors : Commit([tables EXCEPT !.vendors = @ \ {v}])

(* Mutant: the index of the vendor_ids is missing.                       *)
CreateAnyVendor ==
    \E v \in VendorRows : Commit([tables EXCEPT !.vendors = @ \cup {v}])

CreateVendor ==
    \E v \in VendorRows :
        /\ \A w \in tables.vendors : w.id # v.id
        /\ Commit([tables EXCEPT !.vendors = @ \cup {v}])

(* An update may change the vendor_id as well.                             *)
UpdateVendor ==
    \E v \in tables.vendors, w \in VendorRows :
        /\ \A u \in tables.vendors \ {v} : u.id # w.id
        /\ Commit([tables EXCEPT !.vendors = (@ \ {v}) \cup {w}])

Write == AddInvoice \/ ReplaceInvoice \/ DeleteInvoice \/ ChangeOrder
             \/ DeleteVendor \/ CreateVendor \/ UpdateVendor

-----------------------------------------------------------------------------
(* The verification.                                                       *)

Report(found, next) ==
    /\ findings' = findings \cup found
    /\ pc' = next

(* Midnight may pass between the two rules that read the clock.            *)
CheckFields ==
    /\ pc = "fields"
    /\ \E later \in {Today, Today + 1} :
          Report(CheckInvoice(invoice, Today, later),
                 IF Overflows(invoice) THEN "error" ELSE "history")
    /\ UNCHANGED <<invoice, tables, budget, past, names, history, resolution>>

ReadHistory ==
    /\ pc = "history"
    /\ history' = IF VendorKey(invoice) = None THEN <<>> ELSE tables.history
    /\ Report(CheckDuplicateInvoiceNumber(invoice, history'), "order")
    /\ UNCHANGED <<invoice, tables, budget, past, names, resolution>>

ReadOrder ==
    /\ pc = "order"
    /\ Report(CheckPurchaseOrder(invoice, tables.order), "tax")
    /\ UNCHANGED <<invoice, tables, budget, past, names, history, resolution>>

Resolved(r) ==
    /\ resolution' = r
    /\ pc' = "vendor"
    /\ UNCHANGED <<invoice, tables, budget, past, names, history, findings>>

TryNext(next) ==
    /\ pc' = next
    /\ UNCHANGED <<invoice, tables, budget, past, names, history, resolution, findings>>

(* One match decides, several leave the vendor open, none asks further.    *)
Match(matches, confidence, next) ==
    \/ /\ Cardinality(matches) = 1
       /\ \E v \in matches : Resolved(ResolvedTo(v, confidence))
    \/ Cardinality(matches) > 1 /\ Resolved(NotResolved)
    \/ matches = {} /\ TryNext(next)

(* Mutant: where several vendors have the tax identifier, the account is *)
(* asked next.                                                             *)
MatchUniqueTaxId ==
    /\ pc = "tax"
    /\ LET matches == FindByTaxId(tables.vendors, Plain(invoice.taxId))
       IN  \/ /\ Cardinality(matches) = 1
              /\ \E v \in matches : Resolved(ResolvedTo(v, "exact_tax"))
           \/ Cardinality(matches) # 1 /\ TryNext("account")

MatchTaxId ==
    /\ pc = "tax"
    /\ \/ Plain(invoice.taxId) = None /\ TryNext("account")
       \/ /\ Plain(invoice.taxId) # None
          /\ Match(FindByTaxId(tables.vendors, Plain(invoice.taxId)), "exact_tax", "account")

MatchAccount ==
    /\ pc = "account"
    /\ \/ Plain(invoice.account) = None /\ TryNext("key")
       \/ /\ Plain(invoice.account) # None
          /\ Match(FindByAccount(tables.vendors, Plain(invoice.account)), "exact_bank", "key")

(* A name whose slug is empty is passed over.                              *)
SkipName ==
    /\ pc = "key"
    /\ names # <<>>
    /\ SlugOf[Head(names)] = None
    /\ names' = Tail(names)
    /\ UNCHANGED <<invoice, tables, budget, past, pc, history, resolution, findings>>

(* One row is fetched, though several vendors may have the key.            *)
MatchKey ==
    /\ pc = "key"
    /\ names # <<>>
    /\ SlugOf[Head(names)] # None
    /\ LET matches == FindByKey(tables.vendors, SlugOf[Head(names)])
       IN  \/ \E v \in matches : Resolved(ResolvedTo(v, "exact_alias"))
           \/ matches = {} /\ TryNext("alias")

MatchAlias ==
    /\ pc = "alias"
    /\ LET matches == FindByAlias(tables.vendors, SlugOf[Head(names)])
       IN  \/ matches # {} /\ Match(matches, "exact_alias", "key")
           \/ /\ matches = {}
              /\ pc' = "key"
              /\ names' = Tail(names)
              /\ UNCHANGED <<invoice, tables, budget, past, history, resolution, findings>>

NamesTried ==
    /\ pc = "key"
    /\ names = <<>>
    /\ TryNext("similar")

MatchSimilar ==
    /\ pc = "similar"
    /\ LET top == MostSimilar(invoice, tables.vendors)
       IN  \/ \E v \in top : Resolved(ResolvedTo(v, "fuzzy_name"))
           \/ top = {} /\ Resolved(NotResolved)

(* get_vendor_by_id, after the resolution: the row may have changed, or    *)
(* gone.                                                                   *)
ReadVendor ==
    /\ pc = "vendor"
    /\ LET rows == {v \in tables.vendors : v.id = resolution.vendor}
       IN  Report(CheckVendorRegistry(invoice, resolution,
                      IF rows = {} THEN None ELSE CHOOSE v \in rows : TRUE),
                  "compare")
    /\ UNCHANGED <<invoice, tables, budget, past, names, history, resolution>>

CompareHistory ==
    /\ pc = "compare"
    /\ IF VendorKey(invoice) = None
       THEN Report(MissingVendorHistory(invoice), "done")
       ELSE Report(CheckHistory(invoice, history), "ceiling")
    /\ UNCHANGED <<invoice, tables, budget, past, names, history, resolution>>

ReadOrderAgain ==
    /\ pc = "ceiling"
    /\ Report(CheckPurchaseOrderCeiling(invoice, tables.order, history), "done")
    /\ UNCHANGED <<invoice, tables, budget, past, names, history, resolution>>

(* A query fails, and the whole verification with it.                      *)
Reading ==
    \/ pc = "history" /\ VendorKey(invoice) # None
    \/ pc \in {"order", "ceiling"} /\ ReferencesOrder(invoice)
    \/ pc = "tax" /\ Plain(invoice.taxId) # None
    \/ pc = "account" /\ Plain(invoice.account) # None
    \/ pc = "key" /\ names # <<>> /\ SlugOf[Head(names)] # None
    \/ pc = "alias"
    \/ pc = "similar" /\ Candidates(invoice) # <<>>
    \/ pc = "vendor" /\ resolution.vendor # None

Unavailable == Reading /\ TryNext("unavailable")

Verify ==
    \/ CheckFields \/ ReadHistory \/ ReadOrder
    \/ MatchTaxId \/ MatchAccount \/ SkipName \/ MatchKey \/ MatchAlias \/ NamesTried
    \/ MatchSimilar \/ ReadVendor
    \/ CompareHistory \/ ReadOrderAgain
    \/ Unavailable

Next == Verify \/ Write

Spec == Init /\ [][Next]_vars

-----------------------------------------------------------------------------
(* Properties.                                                             *)

(* The day itself, or the Monday after it.                                 *)
BusinessDay(day) == Min({d \in day..(day + 2) : Weekday(d) < 5})

DueAsAgreed(inv) ==
    LET expected == inv.date + TermsDays(inv.terms)
    IN  inv.due \in {expected, BusinessDay(expected)}

(* Lines that all have an amount add up to the subtotal.                   *)
LinesAddUp(inv) ==
    /\ inv.subtotal # None
    /\ inv.lines # <<>>
    /\ \A i \in DOMAIN inv.lines : inv.lines[i].amount # None
    => inv.subtotal = SumFunction([i \in DOMAIN inv.lines |-> inv.lines[i].amount])

(* What an accountant expects of the invoice alone.  That subtotal and     *)
(* total agree when neither tax nor discount is printed is conceded, as the*)
(* rules concede it.                                                       *)
InGoodOrder(inv) ==
    /\ inv.document = "invoice" /\ inv.uncertainties = 0
    /\ None \notin {inv.number, inv.date, inv.currency}
    /\ inv.total # None /\ inv.total > 0
    /\ inv.subtotal # None =>
           /\ inv.subtotal > 0
           /\ OrZero(inv.discount) <= inv.subtotal
           /\ \/ inv.total = inv.subtotal + OrZero(inv.tax) - OrZero(inv.discount)
              \/ inv.tax = None /\ inv.discount = None
    /\ OrZero(inv.tax) >= 0 /\ OrZero(inv.discount) >= 0
    /\ LinesAddUp(inv)
    /\ \A i \in DOMAIN inv.lines :
           LET l == inv.lines[i]
           IN  /\ \A x \in {l.quantity, l.price, l.amount} : x # None => x > 0
               /\ None \in {l.quantity, l.price, l.amount} \/ l.amount = l.quantity * l.price
               /\ \A j \in DOMAIN inv.lines \ {i} :
                      Keyed(l) => LineKey(inv.lines[j]) # LineKey(l)
    /\ inv.date <= Today + 1
    /\ inv.date >= Today - StalenessThreshold \/ inv.order \notin {None, Blank}
    /\ inv.due # None =>
           /\ inv.due \in inv.date..(inv.date + MaximumCreditWindow)
           /\ HasDueDays(inv) => DueAsAgreed(inv)

(* x is as large as values have been, give or take one and a half times    *)
(* what lies between the smallest and the largest of them.                 *)
Plausible(x, values) ==
    LET spread == Max(values) - Min(values)
    IN  /\ 2 * (Min(values) - x) <= 3 * spread
        /\ 2 * (x - Max(values)) <= 3 * spread

Totals(inv, past_history) ==
    {i \in SameCurrency(inv, past_history) : past_history[i].total # None}

Familiar(inv, past_history) ==
    LET known == Totals(inv, past_history)
        at(p) == past_history[p[1]].lines[p[2]]
    IN  /\ Canonical(inv.number) # None =>
               \A i \in DOMAIN past_history :
                   Canonical(past_history[i].number) # Canonical(inv.number)
        /\ Cardinality(known) >= 3
        /\ Plausible(inv.total, {past_history[i].total : i \in known})
        /\ \A i \in DOMAIN inv.lines :
               LET like == LinesLike(inv.lines[i], inv, past_history)
                   prices == {at(p).price : p \in like} \ {None}
               IN  Keyed(inv.lines[i]) =>
                       /\ like # {}
                       /\ inv.lines[i].price # None =>
                              prices # {} /\ Plausible(inv.lines[i].price, prices)

(* A verification without a finding, which is what a verdict of clear is,  *)
(* is earned: the invoice is in good order, its vendor was registered and  *)
(* active, and at one moment since the start the history had enough        *)
(* invoices to compare with and none of the same number.  However the      *)
(* tables change meanwhile, no rule lets an invoice pass for want of data  *)
(* (service.py:64-103, completeness.py:3-6).                               *)
ClearIsEarned ==
    pc = "done" /\ findings = {} =>
        /\ InGoodOrder(invoice)
        /\ \E t \in past : Familiar(invoice, t.history)
        /\ \E t \in past : \E v \in t.vendors : v.id = resolution.vendor /\ v.status = "active"

(* Findings have a cause.  A total or price flagged as an outlier lies     *)
(* outside all that a history of fewer than ten has seen; a due date is    *)
(* flagged only if it is neither the day agreed nor the Monday after its   *)
(* weekend; an account is flagged only if a vendor of the resolved         *)
(* identifier did not have it, at one moment since the start               *)
(* (history.py:38, payment_terms.py:96-107, vendor_rules.py:130-141).      *)
FlagsAreReal ==
    \A f \in findings :
        /\ f.type = "historical_total_outlier" /\ Len(history) < 10 =>
               LET totals == {history[i].total : i \in Totals(invoice, history)}
               IN  invoice.total \notin Min(totals)..Max(totals)
        /\ f.type = "historical_line_item_price_outlier" =>
               LET like == LinesLike(invoice.lines[f.line], invoice, history)
                   prices == {history[p[1]].lines[p[2]].price : p \in like} \ {None}
               IN  Cardinality(like) < 10 =>
                       invoice.lines[f.line].price \notin Min(prices)..Max(prices)
        /\ f.type = "payment_terms_due_date_mismatch" => ~DueAsAgreed(invoice)
        /\ f.type = "vendor_bank_account_mismatch" =>
               \E t \in past : \E v \in t.vendors :
                   /\ v.id = resolution.vendor
                   /\ \A c \in v.accounts : StoredOf[c] # Plain(invoice.account)

TaxHolders(t) == FindByTaxId(t.vendors, Plain(invoice.taxId))
AccountHolders(t) == FindByAccount(t.vendors, Plain(invoice.account))

(* The vendor is the only one that had the code, or is left open because   *)
(* several had it.                                                         *)
DecidedBy(Holders(_), confidence) ==
    \E t \in past :
        \/ Cardinality(Holders(t)) > 1 /\ resolution = NotResolved
        \/ \E v \in t.vendors : Holders(t) = {v} /\ resolution = ResolvedTo(v, confidence)

(* An invoice is charged to the vendor with its tax identifier, whatever   *)
(* account and name it shows, and to the vendor with its account when      *)
(* nobody has the tax identifier; a code that two vendors share decides    *)
(* nothing and nothing weaker is asked (resolution.py:49-91).              *)
StrongestEvidenceDecides ==
    pc = "done" =>
        /\ Plain(invoice.taxId) # None /\ (\A t \in past : TaxHolders(t) # {}) =>
               DecidedBy(TaxHolders, "exact_tax")
        /\ /\ Plain(invoice.taxId) = None \/ \A t \in past : TaxHolders(t) = {}
           /\ Plain(invoice.account) # None
           /\ \A t \in past : AccountHolders(t) # {}
           => DecidedBy(AccountHolders, "exact_bank")

(* An account that the vendor it is charged to never had is a high finding *)
(* unless that vendor was out of the registry for a moment: the rule reads *)
(* the vendor again after it was resolved, and is silent when it is gone   *)
(* (vendor_rules.py:25-34, 113-118).                                       *)
ForeignAccountFlagged ==
    /\ pc = "done"
    /\ resolution.vendor # None
    /\ Plain(invoice.account) # None
    /\ \A t \in past : \E v \in t.vendors :
           v.id = resolution.vendor /\ ~Declares(v.accounts, Plain(invoice.account))
    => Found("vendor_bank_account_mismatch", "high", "account", 0) \in findings

(* This and the earlier invoices on the order come to more than its total. *)
Overbilled(past_history, po) ==
    /\ po # None
    /\ po.total # None
    /\ invoice.total + SumFunction(PriorTotals(invoice, past_history)) > po.total

(* An invoice that bills more than its purchase order leaves is flagged,   *)
(* in one invoice or split over several, whatever its currency says, if it *)
(* is so for every history and every order there was meanwhile.  The two   *)
(* are read at different times, and of a history and an order that never   *)
(* stood side by side nothing is said; nor of an order deleted between the *)
(* two reads of it, or put into another currency: only the first compares  *)
(* the currencies, and the second passes over amounts it cannot compare    *)
(* (purchase_orders.py:26, 44-57, 83-103).                                  *)
OverbillingFlagged ==
    /\ pc = "done"
    /\ ReferencesOrder(invoice)
    /\ invoice.total # None
    /\ \A s, t \in past : Overbilled(s.history, t.order)
    /\ \A s, t \in past :
           ComparableAmounts(invoice, s.order) <=> ComparableAmounts(invoice, t.order)
    => \E f \in findings : f.type = "purchase_order_mismatch"

(* How many lines up to this one have its key.                             *)
Rank(lines, i) == Cardinality({j \in 1..i : LineKey(lines[j]) = LineKey(lines[i])})

(* A line of an order authorises one line of an invoice: the second line   *)
(* of a product needs a second line on the order, and no line is refused   *)
(* that has one (purchase_orders.py:153-190).                              *)
LinesChargedOnce ==
    \A po \in {t.order : t \in past} :
        /\ pc \notin {"fields", "history", "order", "unavailable", "error"}
        /\ ReferencesOrder(invoice)
        /\ po # None
        /\ \A t \in past : t.order = po
        => \A i \in DOMAIN invoice.lines :
               (Mismatch("line_item", i) \in findings) <=>
                   /\ Keyed(invoice.lines[i])
                   /\ \A j \in DOMAIN po.lines :
                          LineKey(po.lines[j]) = LineKey(invoice.lines[i]) =>
                              Rank(po.lines, j) # Rank(invoice.lines, i)

(* A purchase order is a limit: in money for one invoice and for several,  *)
(* and each of its lines for one line of an invoice, though order and      *)
(* history are read at different times.                                    *)
OrderIsALimit == OverbillingFlagged /\ LinesChargedOnce
=============================================================================
