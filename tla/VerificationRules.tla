--------------------------- MODULE VerificationRules ---------------------------
(***************************************************************************)
(* The rules of src/veridoc/verification: what each check_* function finds *)
(* in an extracted invoice, alone or beside the history and the purchase   *)
(* order read for it.  A rule is an operator from what it reads to a set   *)
(* of findings; nothing here has state.                                    *)
(*                                                                         *)
(* Amounts are whole hundredths and dates whole days, day 0 a Monday.      *)
(* Quotients of Decimals are compared by cross-multiplication, so that     *)
(* means and deviations are exact.  A finding keeps its type, severity,    *)
(* field and line; its texts and numbers are left out.                     *)
(***************************************************************************)
EXTENDS Integers, Sequences, FiniteSets, FiniteSetsExt, Functions

CONSTANTS None,       \* an absent value
          Names,      \* vendor names and identifiers, as printed
          KeyOf,      \* normalize_vendor_key of each, None if nothing is left
          Numbers,    \* invoice numbers as printed
          NumberOf,   \* normalize_invoice_number of each
          Codes,      \* tax identifiers and bank accounts as printed
          Orders,     \* purchase order numbers as printed
          Blank,      \* one of them is blank
          Currencies,
          Words,      \* product identifiers and descriptions, normalised
          MaxDate     \* date.max

ASSUME NormalAssumption ==
    /\ DOMAIN KeyOf = Names
    /\ DOMAIN NumberOf = Numbers
    /\ MaxDate \in Int

Severity == {"info", "low", "medium", "high"}

FindingType ==
    {"invoice_total_mismatch", "line_item_amount_mismatch", "line_items_subtotal_mismatch",
     "invoice_date_after_due_date", "purchase_order_mismatch", "duplicate_invoice_number",
     "historical_total_outlier", "historical_line_item_price_outlier",
     "historical_line_item_quantity_outlier", "new_line_item", "rare_line_item",
     "payment_terms_changed", "missing_historical_field", "insufficient_history",
     "unregistered_vendor", "suspended_vendor", "vendor_bank_account_mismatch",
     "vendor_tax_id_mismatch", "stale_invoice", "future_invoice_date", "duplicate_line_item",
     "non_positive_invoice_total", "non_positive_line_item", "non_positive_subtotal",
     "negative_tax", "invalid_discount", "rounding_discrepancy",
     "payment_terms_due_date_mismatch", "excessive_due_date_window",
     "unsupported_document_type", "extraction_uncertainty", "missing_required_field"}

(* What a finding is about: a field of the invoice or of a line, a metric  *)
(* of the history, a field of the vendor.                                  *)
Field ==
    {"number", "date", "due", "currency", "subtotal", "tax", "discount", "total", "amount",
     "document", "uncertainty", "line_item", "line_item_quantity", "line_item_unit_price",
     "line_item_occurrence", "order", "purchase_order_billed_total", "invoice_total",
     "payment_terms", "vendor_history", "vendor", "account", "tax_id"}

Maybe(S) == S \cup {None}

(* A line of an invoice, of the history or of a purchase order.            *)
Line == [product : Maybe(Words), description : Maybe(Words),
         quantity : Maybe(Int), price : Maybe(Int), amount : Maybe(Int)]

(* What payment terms say, and in which of several wordings.               *)
Terms == [form : {"immediate", "cash", "net", "other"}, days : 0..999, wording : Nat]

Invoice == [document : {"invoice", "purchase_order", "unknown"},
            name : Maybe(Names), identifier : Maybe(Names),
            taxId : Maybe(Codes), account : Maybe(Codes),
            number : Maybe(Numbers), order : Maybe(Orders),
            date : Maybe(Int), due : Maybe(Int), currency : Maybe(Currencies),
            subtotal : Maybe(Int), tax : Maybe(Int), discount : Maybe(Int),
            total : Maybe(Int), terms : Maybe(Terms), lines : Seq(Line),
            uncertainties : Nat]

HistoricalInvoice == [number : Maybe(Numbers), order : Maybe(Orders),
                      currency : Maybe(Currencies), total : Maybe(Int),
                      terms : Maybe(Terms), lines : Seq(Line)]

PurchaseOrder == [currency : Maybe(Currencies), total : Maybe(Int), lines : Seq(Line)]

Finding == [type : FindingType, severity : Severity, field : Field, line : Nat]

Found(type, severity, field, line) ==
    [type |-> type, severity |-> severity, field |-> field, line |-> line]

On(condition, finding) == IF condition THEN {finding} ELSE {}

-----------------------------------------------------------------------------
(* Keys.                                                                   *)

VendorKey(inv) ==
    IF inv.identifier # None /\ KeyOf[inv.identifier] # None THEN KeyOf[inv.identifier]
    ELSE IF inv.name # None THEN KeyOf[inv.name] ELSE None

Canonical(number) == IF number = None THEN None ELSE NumberOf[number]

LineKey(l) == IF l.product # None THEN <<"product", l.product>>
              ELSE IF l.description # None THEN <<"description", l.description>>
              ELSE <<>>

Keyed(l) == LineKey(l) # <<>>

-----------------------------------------------------------------------------
(* The invoice alone.                                                      *)

Tolerance == 2

OrZero(x) == IF x = None THEN 0 ELSE x

CheckRequiredFields(inv) ==
    {Found("missing_required_field",
           IF f \in {"number", "total"} THEN "high" ELSE "medium", f, 0) :
        f \in {g \in {"number", "date", "currency", "total"} : inv[g] = None}}

Discrepancy(type, observed, expected, field, line) ==
    LET off == IF observed > expected THEN observed - expected ELSE expected - observed
    IN  On(off # 0, IF off <= Tolerance
                    THEN Found("rounding_discrepancy", "low", field, line)
                    ELSE Found(type, "high", field, line))

CheckInvoiceTotal(inv) ==
    IF \/ inv.subtotal = None
       \/ inv.total = None
       \/ inv.tax = None /\ inv.discount = None
    THEN {}
    ELSE Discrepancy("invoice_total_mismatch", inv.total,
                     inv.subtotal + OrZero(inv.tax) - OrZero(inv.discount), "total", 0)

CheckLineItemAmounts(inv) ==
    LET amount(i) ==
            LET l == inv.lines[i]
            IN  IF l.quantity = None \/ l.price = None \/ l.amount = None THEN {}
                ELSE Discrepancy("line_item_amount_mismatch", l.amount,
                                 l.quantity * l.price, "amount", i)
    IN  UNION {amount(i) : i \in DOMAIN inv.lines}

CheckLineItemsSubtotal(inv) ==
    IF \/ inv.subtotal = None
       \/ inv.lines = <<>>
       \/ \E i \in DOMAIN inv.lines : inv.lines[i].amount = None
    THEN {}
    ELSE Discrepancy("line_items_subtotal_mismatch", inv.subtotal,
                     SumFunction([i \in DOMAIN inv.lines |-> inv.lines[i].amount]),
                     "subtotal", 0)

Dated(inv) == inv.date # None /\ inv.due # None

CheckInvoiceDates(inv) ==
    On(Dated(inv) /\ inv.date > inv.due,
       Found("invoice_date_after_due_date", "medium", "date", 0))

(* Zero is suspicious, less than zero is worse.                            *)
NonPositive(type, amount, field) ==
    On(amount # None /\ amount <= 0,
       Found(type, IF amount < 0 THEN "high" ELSE "medium", field, 0))

CheckNonPositiveInvoiceTotal(inv) ==
    NonPositive("non_positive_invoice_total", inv.total, "total")

CheckNonPositiveLineItems(inv) ==
    LET low(i) == {f \in {"quantity", "price", "amount"} :
                      inv.lines[i][f] # None /\ inv.lines[i][f] <= 0}
    IN  {Found("non_positive_line_item",
               IF \E f \in low(i) : inv.lines[i][f] < 0 THEN "high" ELSE "medium",
               "line_item", i) :
            i \in {j \in DOMAIN inv.lines : low(j) # {}}}

CheckNegativeTax(inv) ==
    On(inv.tax # None /\ inv.tax < 0, Found("negative_tax", "high", "tax", 0))

CheckInvalidDiscount(inv) ==
    On(/\ inv.discount # None
       /\ \/ inv.discount < 0
          \/ inv.subtotal # None /\ inv.subtotal > 0 /\ inv.discount > inv.subtotal,
       Found("invalid_discount", "high", "discount", 0))

CheckHeaderAmounts(inv) ==
    NonPositive("non_positive_subtotal", inv.subtotal, "subtotal")
        \cup CheckNegativeTax(inv) \cup CheckInvalidDiscount(inv)

(* Each line is held against the first line of its key.                    *)
CheckDuplicateLineItems(inv) ==
    LET alike(i) == {j \in 1..i : LineKey(inv.lines[j]) = LineKey(inv.lines[i])}
        exact(l, first) == /\ l.quantity # None /\ l.quantity = first.quantity
                           /\ l.price # None /\ l.price = first.price
    IN  {Found("duplicate_line_item",
               IF exact(inv.lines[i], inv.lines[Min(alike(i))]) THEN "high" ELSE "medium",
               "line_item", i) :
            i \in {j \in DOMAIN inv.lines : Keyed(inv.lines[j]) /\ Min(alike(j)) < j}}

StalenessThreshold == 90

CheckInvoiceStaleness(inv, today) ==
    On(/\ inv.date # None /\ inv.date < today - StalenessThreshold
       /\ inv.total # None /\ inv.total > 0
       /\ inv.order \in {None, Blank},
       Found("stale_invoice", "medium", "date", 0))

CheckFutureInvoiceDate(inv, today) ==
    On(inv.date # None /\ inv.date > today,
       Found("future_invoice_date", "medium", "date", 0))

TermsDays(terms) == IF terms.form = "other" THEN None
                    ELSE IF terms.form = "immediate" THEN 0 ELSE terms.days

HasDueDays(inv) == Dated(inv) /\ inv.terms # None /\ TermsDays(inv.terms) # None

(* The sum of a date and its terms may lie beyond the last date there is.  *)
Overflows(inv) == HasDueDays(inv) /\ inv.date + TermsDays(inv.terms) > MaxDate

Weekday(day) == day % 7

CheckPaymentTermsDueDate(inv) ==
    IF ~HasDueDays(inv) THEN {}
    ELSE LET expected == inv.date + TermsDays(inv.terms)
             rolled == \/ Weekday(expected) = 5 /\ inv.due = expected + 2
                       \/ Weekday(expected) = 6 /\ inv.due = expected + 1
         IN  On(inv.due # expected /\ ~rolled,
                Found("payment_terms_due_date_mismatch",
                      IF inv.due < expected THEN "high" ELSE "medium", "due", 0))

MaximumCreditWindow == 365

CheckExcessiveDueDateWindow(inv) ==
    On(Dated(inv) /\ inv.due - inv.date > MaximumCreditWindow,
       Found("excessive_due_date_window", "medium", "due", 0))

CheckDocumentType(inv) ==
    On(inv.document # "invoice", Found("unsupported_document_type", "high", "document", 0))

CheckExtractionUncertainties(inv) ==
    {Found("extraction_uncertainty", "medium", "uncertainty", i) : i \in 1..inv.uncertainties}

(* The clock is read twice, by the staleness and by the future date rule.  *)
CheckInvoice(inv, today, later) ==
    UNION {CheckRequiredFields(inv), CheckInvoiceTotal(inv), CheckLineItemAmounts(inv),
           CheckLineItemsSubtotal(inv), CheckInvoiceDates(inv),
           CheckNonPositiveInvoiceTotal(inv), CheckNonPositiveLineItems(inv),
           CheckHeaderAmounts(inv), CheckDuplicateLineItems(inv),
           CheckInvoiceStaleness(inv, today), CheckFutureInvoiceDate(inv, later),
           CheckPaymentTermsDueDate(inv), CheckExcessiveDueDateWindow(inv),
           CheckDocumentType(inv), CheckExtractionUncertainties(inv)}

-----------------------------------------------------------------------------
(* The invoice and its purchase order.                                     *)

ComparableAmounts(inv, po) ==
    inv.currency = None \/ po.currency = None \/ inv.currency = po.currency

Mismatch(field, line) == Found("purchase_order_mismatch", "high", field, line)

(* Mutant: an order line may be taken again.                             *)
TakenLinesShared(inv, po) ==
    [i \in DOMAIN inv.lines |->
        LET same == {j \in DOMAIN po.lines : /\ Keyed(inv.lines[i])
                                             /\ LineKey(po.lines[j]) = LineKey(inv.lines[i])}
        IN  IF same = {} THEN 0 ELSE Min(same)]

(* The order line each invoice line takes, 0 if there is none: the first   *)
(* of its key that no earlier line has taken.                              *)
TakenLines(inv, po) ==
    LET taken[i \in 0..Len(inv.lines)] ==
            IF i = 0 THEN <<>>
            ELSE LET free == {j \in DOMAIN po.lines :
                                 /\ Keyed(inv.lines[i])
                                 /\ LineKey(po.lines[j]) = LineKey(inv.lines[i])
                                 /\ \A k \in 1..(i - 1) : taken[i - 1][k] # j}
                 IN  Append(taken[i - 1], IF free = {} THEN 0 ELSE Min(free))
    IN  taken[Len(inv.lines)]

CheckOrderLines(inv, po) ==
    LET taken == TakenLines(inv, po)
        line(i) ==
            IF ~Keyed(inv.lines[i]) THEN {}
            ELSE IF taken[i] = 0 THEN {Mismatch("line_item", i)}
            ELSE LET l == inv.lines[i]
                     o == po.lines[taken[i]]
                 IN  On(l.quantity # None /\ o.quantity # None /\ l.quantity > o.quantity,
                        Mismatch("line_item_quantity", i))
                         \cup On(l.price # None /\ o.price # None /\ l.price # o.price,
                                 Mismatch("line_item_unit_price", i))
    IN  UNION {line(i) : i \in DOMAIN inv.lines}

ReferencesOrder(inv) == VendorKey(inv) # None /\ inv.order # None

(* po is None when the order is not in the table.                          *)
CheckPurchaseOrder(inv, po) ==
    IF ~ReferencesOrder(inv) THEN {}
    ELSE IF po = None THEN {Mismatch("order", 0)}
    ELSE UNION {On(~ComparableAmounts(inv, po), Mismatch("currency", 0)),
                On(/\ inv.total # None /\ po.total # None
                   /\ ComparableAmounts(inv, po)
                   /\ inv.total > po.total, Mismatch("total", 0)),
                CheckOrderLines(inv, po)}

(* The totals of earlier invoices on the same order and in the same        *)
(* currency.                                                               *)
PriorTotals(inv, history) ==
    [i \in {j \in DOMAIN history : /\ history[j].order = inv.order
                                   /\ history[j].currency = inv.currency
                                   /\ history[j].total # None} |->
        history[i].total]

(* Mutant: what was billed before is compared without this invoice.      *)
CheckPriorCeiling(inv, po, history) ==
    On(/\ ReferencesOrder(inv) /\ po # None /\ inv.total # None
       /\ po.total # None
       /\ SumFunction(PriorTotals(inv, history)) > po.total,
       Mismatch("purchase_order_billed_total", 0))

CheckPurchaseOrderCeiling(inv, po, history) ==
    LET prior == PriorTotals(inv, history)
    IN  IF \/ ~ReferencesOrder(inv)
           \/ po = None
           \/ inv.total = None
        THEN {}
        ELSE On(/\ po.total # None
                /\ ComparableAmounts(inv, po)
                /\ DOMAIN prior # {}
                /\ inv.total + SumFunction(prior) > po.total,
                Mismatch("purchase_order_billed_total", 0))

-----------------------------------------------------------------------------
(* The invoice and the history of its vendor.                              *)

MinimumSample == 3

(* Mutant: numbers are compared as they are printed.                     *)
CheckDuplicatePrintedNumber(inv, history) ==
    On(/\ VendorKey(inv) # None
       /\ inv.number # None
       /\ \E i \in DOMAIN history : history[i].number = inv.number,
       Found("duplicate_invoice_number", "high", "number", 0))

CheckDuplicateInvoiceNumber(inv, history) ==
    On(/\ VendorKey(inv) # None
       /\ Canonical(inv.number) # None
       /\ \E i \in DOMAIN history : Canonical(history[i].number) = Canonical(inv.number),
       Found("duplicate_invoice_number", "high", "number", 0))

Insufficient(metric, line) == Found("insufficient_history", "info", metric, line)

(* Mutant: two deviations are enough.                                    *)
IsUnusual(x, n, s, q) ==
    (n * x - s) # 0 /\ (n * x - s) * (n * x - s) >= 4 * (n * q - s * s)

(* Of n values with sum s and sum of squares q: n*q - s*s is n*n times     *)
(* their variance, and an outlier is three deviations from their mean, or  *)
(* anything but their mean when all are equal.                             *)
IsOutlier(x, n, s, q) ==
    LET variance == n * q - s * s
        distance == n * x - s
    IN  IF variance = 0 THEN distance # 0
        ELSE distance * distance >= 9 * variance

CheckSample(x, sample, type, metric, line) ==
    LET n == Cardinality(DOMAIN sample)
        squares == [p \in DOMAIN sample |-> sample[p] * sample[p]]
    IN  IF x = None THEN {}
        ELSE IF n < MinimumSample THEN {Insufficient(metric, line)}
        ELSE On(IsOutlier(x, n, SumFunction(sample), SumFunction(squares)),
                Found(type, "high", metric, line))

SameCurrency(inv, history) ==
    {i \in DOMAIN history : inv.currency # None /\ history[i].currency = inv.currency}

CheckHistoricalTotal(inv, history) ==
    LET known == {i \in SameCurrency(inv, history) : history[i].total # None}
    IN  CheckSample(inv.total, [i \in known |-> history[i].total],
                    "historical_total_outlier", "invoice_total", 0)

(* Positions <<i, j>> of the comparable history lines of this key.         *)
LinesLike(l, inv, history) ==
    UNION {{<<i, j>> : j \in {k \in DOMAIN history[i].lines :
                                  LineKey(history[i].lines[k]) = LineKey(l)}} :
           i \in SameCurrency(inv, history)}

CheckLineItemOccurrence(inv, history) ==
    LET sample == Cardinality(SameCurrency(inv, history))
        occurrences(l) == Cardinality({p[1] : p \in LinesLike(l, inv, history)})
        line(i) ==
            IF ~Keyed(inv.lines[i]) THEN {}
            ELSE IF sample < MinimumSample THEN {Insufficient("line_item_occurrence", i)}
            ELSE LET n == occurrences(inv.lines[i])
                 IN  IF n = 0 THEN {Found("new_line_item", "medium", "line_item", i)}
                     ELSE On(5 * n <= sample, Found("rare_line_item", "low", "line_item", i))
    IN  UNION {line(i) : i \in DOMAIN inv.lines}

CheckLineItemStatistics(inv, history) ==
    LET at(p) == history[p[1]].lines[p[2]]
        prices(like) == [p \in {q \in like : at(q).price # None} |-> at(p).price]
        quantities(like) == [p \in {q \in like : at(q).quantity # None} |-> at(p).quantity]
        line(i) ==
            LET like == LinesLike(inv.lines[i], inv, history)
            IN  IF ~Keyed(inv.lines[i]) THEN {}
                ELSE CheckSample(inv.lines[i].price, prices(like),
                                 "historical_line_item_price_outlier",
                                 "line_item_unit_price", i)
                         \cup CheckSample(inv.lines[i].quantity, quantities(like),
                                          "historical_line_item_quantity_outlier",
                                          "line_item_quantity", i)
    IN  UNION {line(i) : i \in DOMAIN inv.lines}

(* Here, and for the ceiling, two absent currencies are equal.             *)
CheckPaymentTerms(inv, history) ==
    LET sample == {i \in DOMAIN history : /\ history[i].currency = inv.currency
                                          /\ history[i].terms # None}
        known == {history[i].terms : i \in sample}
    IN  IF Cardinality(sample) < MinimumSample
        THEN On(inv.terms # None, Insufficient("payment_terms", 0))
        ELSE IF Cardinality(known) # 1 \/ inv.terms \in known THEN {}
        ELSE {IF inv.terms = None
              THEN Found("missing_historical_field", "low", "payment_terms", 0)
              ELSE Found("payment_terms_changed", "medium", "payment_terms", 0)}

CheckHistory(inv, history) ==
    UNION {CheckHistoricalTotal(inv, history), CheckLineItemOccurrence(inv, history),
           CheckLineItemStatistics(inv, history), CheckPaymentTerms(inv, history)}

MissingVendorHistory(inv) ==
    On(inv.total # None \/ inv.lines # <<>> \/ inv.terms # None,
       Insufficient("vendor_history", 0))
=============================================================================
