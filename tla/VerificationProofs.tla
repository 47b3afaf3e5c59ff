--------------------------- MODULE VerificationProofs ---------------------------
(***************************************************************************)
(* Proofs about the rules of VerificationRules and VendorResolution and    *)
(* about the verification that applies them while the tables change.       *)
(***************************************************************************)
EXTENDS Verification, FiniteSetTheorems, TLAPS

-----------------------------------------------------------------------------
(* What the rules return.                                                  *)

LEMMA OnType ==
    ASSUME NEW condition, NEW finding \in Finding
    PROVE  On(condition, finding) \subseteq Finding
BY DEF On

LEMMA DiscrepancyType ==
    ASSUME NEW type \in FindingType, NEW x, NEW y, NEW field \in Field, NEW line \in Nat
    PROVE  Discrepancy(type, x, y, field, line) \subseteq Finding
BY DEF Discrepancy, On, Found, Finding, FindingType, Severity

LEMMA LinesIndexed ==
    ASSUME NEW inv \in Invoice
    PROVE  /\ inv.lines \in Seq(Line)
           /\ DOMAIN inv.lines \subseteq Nat
           /\ inv.uncertainties \in Nat
BY DEF Invoice

LEMMA ArithmeticType ==
    ASSUME NEW inv \in Invoice
    PROVE  /\ CheckInvoiceTotal(inv) \subseteq Finding
           /\ CheckLineItemAmounts(inv) \subseteq Finding
           /\ CheckLineItemsSubtotal(inv) \subseteq Finding
           /\ CheckInvoiceDates(inv) \subseteq Finding
<1>1. /\ {"invoice_total_mismatch", "line_item_amount_mismatch",
          "line_items_subtotal_mismatch"} \subseteq FindingType
      /\ {"total", "amount", "subtotal"} \subseteq Field
  BY DEF FindingType, Field
<1>2. CheckInvoiceTotal(inv) \subseteq Finding
  <2>1. \A x, y : Discrepancy("invoice_total_mismatch", x, y, "total", 0) \subseteq Finding
    BY <1>1, DiscrepancyType
  <2> QED  BY <2>1 DEF CheckInvoiceTotal
<1>3. CheckLineItemAmounts(inv) \subseteq Finding
  <2>1. \A x, y : \A i \in DOMAIN inv.lines :
            Discrepancy("line_item_amount_mismatch", x, y, "amount", i) \subseteq Finding
    BY <1>1, DiscrepancyType, LinesIndexed
  <2> QED  BY <2>1 DEF CheckLineItemAmounts
<1>4. CheckLineItemsSubtotal(inv) \subseteq Finding
  <2>1. \A x, y : Discrepancy("line_items_subtotal_mismatch", x, y, "subtotal", 0)
                      \subseteq Finding
    BY <1>1, DiscrepancyType
  <2> QED  BY <2>1 DEF CheckLineItemsSubtotal
<1>5. CheckInvoiceDates(inv) \subseteq Finding
  BY DEF CheckInvoiceDates, On, Found, Finding, FindingType, Field, Severity
<1> QED  BY <1>2, <1>3, <1>4, <1>5

LEMMA SignsType ==
    ASSUME NEW inv \in Invoice
    PROVE  /\ CheckRequiredFields(inv) \subseteq Finding
           /\ CheckNonPositiveInvoiceTotal(inv) \subseteq Finding
           /\ CheckNonPositiveLineItems(inv) \subseteq Finding
           /\ CheckHeaderAmounts(inv) \subseteq Finding
<1>1. CheckRequiredFields(inv) \subseteq Finding
  BY DEF CheckRequiredFields, Found, Finding, FindingType, Field, Severity
<1>2. CheckNonPositiveInvoiceTotal(inv) \subseteq Finding
  BY DEF CheckNonPositiveInvoiceTotal, NonPositive, On, Found, Finding, FindingType, Field,
         Severity
<1>3. \A i \in DOMAIN inv.lines, s \in {"high", "medium"} :
          Found("non_positive_line_item", s, "line_item", i) \in Finding
  BY LinesIndexed DEF Found, Finding, FindingType, Field, Severity
<1>4. CheckNonPositiveLineItems(inv) \subseteq Finding
  BY <1>3 DEF CheckNonPositiveLineItems
<1>5. NonPositive("non_positive_subtotal", inv.subtotal, "subtotal") \subseteq Finding
  BY DEF NonPositive, On, Found, Finding, FindingType, Field, Severity
<1>6. CheckNegativeTax(inv) \subseteq Finding
  BY DEF CheckNegativeTax, On, Found, Finding, FindingType, Field, Severity
<1>7. CheckInvalidDiscount(inv) \subseteq Finding
  BY DEF CheckInvalidDiscount, On, Found, Finding, FindingType, Field, Severity
<1>8. CheckHeaderAmounts(inv) \subseteq Finding
  BY <1>5, <1>6, <1>7 DEF CheckHeaderAmounts
<1> QED  BY <1>1, <1>2, <1>4, <1>8

LEMMA RemainingFieldsType ==
    ASSUME NEW inv \in Invoice, NEW today
    PROVE  /\ CheckDuplicateLineItems(inv) \subseteq Finding
           /\ CheckInvoiceStaleness(inv, today) \subseteq Finding
           /\ CheckFutureInvoiceDate(inv, today) \subseteq Finding
           /\ CheckPaymentTermsDueDate(inv) \subseteq Finding
           /\ CheckExcessiveDueDateWindow(inv) \subseteq Finding
           /\ CheckDocumentType(inv) \subseteq Finding
           /\ CheckExtractionUncertainties(inv) \subseteq Finding
<1>1. \A i \in DOMAIN inv.lines, s \in {"high", "medium"} :
          Found("duplicate_line_item", s, "line_item", i) \in Finding
  BY LinesIndexed DEF Found, Finding, FindingType, Field, Severity
<1>2. CheckDuplicateLineItems(inv) \subseteq Finding
  BY <1>1 DEF CheckDuplicateLineItems
<1>3. CheckInvoiceStaleness(inv, today) \subseteq Finding
  BY DEF CheckInvoiceStaleness, On, Found, Finding, FindingType, Field, Severity
<1>4. CheckFutureInvoiceDate(inv, today) \subseteq Finding
  BY DEF CheckFutureInvoiceDate, On, Found, Finding, FindingType, Field, Severity
<1>5. CheckPaymentTermsDueDate(inv) \subseteq Finding
  BY DEF CheckPaymentTermsDueDate, On, Found, Finding, FindingType, Field, Severity
<1>6. CheckExcessiveDueDateWindow(inv) \subseteq Finding
  BY DEF CheckExcessiveDueDateWindow, On, Found, Finding, FindingType, Field, Severity
<1>7. CheckDocumentType(inv) \subseteq Finding
  BY DEF CheckDocumentType, On, Found, Finding, FindingType, Field, Severity
<1>8. CheckExtractionUncertainties(inv) \subseteq Finding
  BY LinesIndexed
  DEF CheckExtractionUncertainties, Found, Finding, FindingType, Field, Severity
<1> QED  BY <1>2, <1>3, <1>4, <1>5, <1>6, <1>7, <1>8

LEMMA InvoiceFindings ==
    ASSUME NEW inv \in Invoice, NEW today, NEW later
    PROVE  CheckInvoice(inv, today, later) \subseteq Finding
<1>1. CheckInvoiceStaleness(inv, today) \subseteq Finding
  BY RemainingFieldsType
<1>2. /\ CheckDuplicateLineItems(inv) \subseteq Finding
      /\ CheckFutureInvoiceDate(inv, later) \subseteq Finding
      /\ CheckPaymentTermsDueDate(inv) \subseteq Finding
      /\ CheckExcessiveDueDateWindow(inv) \subseteq Finding
      /\ CheckDocumentType(inv) \subseteq Finding
      /\ CheckExtractionUncertainties(inv) \subseteq Finding
  BY RemainingFieldsType
<1> QED  BY <1>1, <1>2, ArithmeticType, SignsType DEF CheckInvoice

LEMMA OrderFindings ==
    ASSUME NEW inv \in Invoice, NEW po, NEW earlier
    PROVE  /\ CheckPurchaseOrder(inv, po) \subseteq Finding
           /\ CheckPurchaseOrderCeiling(inv, po, earlier) \subseteq Finding
<1>1. \A f \in Field : \A i \in Nat : Mismatch(f, i) \in Finding
  BY DEF Mismatch, Found, Finding, FindingType, Severity
<1>2. {"order", "currency", "total", "line_item", "line_item_quantity",
       "line_item_unit_price", "purchase_order_billed_total"} \subseteq Field
  BY DEF Field
<1>3. CheckOrderLines(inv, po) \subseteq Finding
  BY <1>1, <1>2, LinesIndexed DEF CheckOrderLines, On
<1>4. CheckPurchaseOrder(inv, po) \subseteq Finding
  BY <1>1, <1>2, <1>3 DEF CheckPurchaseOrder, On
<1>5. CheckPurchaseOrderCeiling(inv, po, earlier) \subseteq Finding
  BY <1>1, <1>2 DEF CheckPurchaseOrderCeiling, On
<1> QED  BY <1>4, <1>5

LEMMA SampleType ==
    ASSUME NEW x, NEW sample, NEW type \in FindingType, NEW metric \in Field, NEW line \in Nat
    PROVE  CheckSample(x, sample, type, metric, line) \subseteq Finding
<1>1. Insufficient(metric, line) \in Finding
  BY DEF Insufficient, Found, Finding, FindingType, Severity
<1>2. Found(type, "high", metric, line) \in Finding
  BY DEF Found, Finding, Severity
<1> QED  BY <1>1, <1>2 DEF CheckSample, On

LEMMA HistoryFindings ==
    ASSUME NEW inv \in Invoice, NEW earlier
    PROVE  /\ CheckDuplicateInvoiceNumber(inv, earlier) \subseteq Finding
           /\ CheckHistory(inv, earlier) \subseteq Finding
           /\ MissingVendorHistory(inv) \subseteq Finding
<1>1. \A f \in Field : \A i \in Nat : Insufficient(f, i) \in Finding
  BY DEF Insufficient, Found, Finding, FindingType, Severity
<1>2. /\ {"invoice_total", "line_item_unit_price", "line_item_quantity",
          "line_item_occurrence", "payment_terms", "vendor_history"} \subseteq Field
      /\ {"historical_total_outlier", "historical_line_item_price_outlier",
          "historical_line_item_quantity_outlier"} \subseteq FindingType
  BY DEF Field, FindingType
<1>3. CheckDuplicateInvoiceNumber(inv, earlier) \subseteq Finding
  BY DEF CheckDuplicateInvoiceNumber, On, Found, Finding, FindingType, Field, Severity
<1>4. CheckHistoricalTotal(inv, earlier) \subseteq Finding
  <2>1. \A x, y : CheckSample(x, y, "historical_total_outlier", "invoice_total", 0)
                      \subseteq Finding
    BY <1>2, SampleType
  <2> QED  BY <2>1 DEF CheckHistoricalTotal
<1>5. CheckLineItemOccurrence(inv, earlier) \subseteq Finding
  <2>1. \A i \in Nat : /\ Found("new_line_item", "medium", "line_item", i) \in Finding
                       /\ Found("rare_line_item", "low", "line_item", i) \in Finding
    BY DEF Found, Finding, FindingType, Field, Severity
  <2>2. \A i \in DOMAIN inv.lines :
            /\ Found("new_line_item", "medium", "line_item", i) \in Finding
            /\ Insufficient("line_item_occurrence", i) \in Finding
            /\ \A c : On(c, Found("rare_line_item", "low", "line_item", i)) \subseteq Finding
    BY <2>1, <1>1, <1>2, LinesIndexed DEF On
  <2> QED  BY <2>2 DEF CheckLineItemOccurrence
<1>6. CheckLineItemStatistics(inv, earlier) \subseteq Finding
  <2>1. \A x, y : \A i \in DOMAIN inv.lines :
            /\ CheckSample(x, y, "historical_line_item_price_outlier",
                           "line_item_unit_price", i) \subseteq Finding
            /\ CheckSample(x, y, "historical_line_item_quantity_outlier",
                           "line_item_quantity", i) \subseteq Finding
    BY <1>2, SampleType, LinesIndexed
  <2> QED  BY <2>1 DEF CheckLineItemStatistics
<1>7. CheckPaymentTerms(inv, earlier) \subseteq Finding
  <2>1. /\ Found("missing_historical_field", "low", "payment_terms", 0) \in Finding
        /\ Found("payment_terms_changed", "medium", "payment_terms", 0) \in Finding
        /\ Insufficient("payment_terms", 0) \in Finding
    BY DEF Insufficient, Found, Finding, FindingType, Field, Severity
  <2> QED  BY <2>1 DEF CheckPaymentTerms, On
<1>8. MissingVendorHistory(inv) \subseteq Finding
  BY <1>1, <1>2 DEF MissingVendorHistory, On
<1> QED  BY <1>3, <1>4, <1>5, <1>6, <1>7, <1>8 DEF CheckHistory

LEMMA RegistryFindings ==
    ASSUME NEW inv, NEW res, NEW v
    PROVE  CheckVendorRegistry(inv, res, v) \subseteq Finding
<1>1. CheckVendorRegistration(res, inv) \subseteq Finding
  BY DEF CheckVendorRegistration, On, Found, Finding, FindingType, Field, Severity
<1>2. CheckVendorStatus(res) \subseteq Finding
  BY DEF CheckVendorStatus, On, Found, Finding, FindingType, Field, Severity
<1>3. CheckVendorBankAccount(inv, v) \subseteq Finding
  BY DEF CheckVendorBankAccount, On, Found, Finding, FindingType, Field, Severity
<1>4. CheckVendorTaxId(inv, v) \subseteq Finding
  BY DEF CheckVendorTaxId, On, Found, Finding, FindingType, Field, Severity
<1> QED  BY <1>1, <1>2, <1>3, <1>4 DEF CheckVendorRegistry

-----------------------------------------------------------------------------
(* Types.                                                                  *)

LEMMA InvoiceParts ==
    ASSUME NEW inv \in Invoice
    PROVE  Candidates(inv) \in Seq(Names)
<1>1. inv.name \in Names \cup {None} /\ inv.identifier \in Names \cup {None}
  BY DEF Invoice, Maybe
<1> QED  BY <1>1 DEF Candidates

LEMMA InitType == Init => TypeOK
<1> SUFFICES ASSUME Init PROVE TypeOK
  OBVIOUS
<1>1. PICK c \in Cases :
        /\ invoice = c.invoice
        /\ tables = c.tables
        /\ budget = c.writes
        /\ past = {c.tables}
        /\ names = Candidates(c.invoice)
  BY DEF Init
<1>2. /\ c.invoice \in Invoice
      /\ c.tables \in Tables
      /\ c.writes \in Nat
      /\ IsFiniteSet(c.tables.vendors)
      /\ UniqueIds(c.tables.vendors)
  BY <1>1, CaseAssumption DEF Case
<1>3. names \in Seq(Names)
  BY <1>1, <1>2, InvoiceParts
<1>4. pc \in Step /\ history \in Seq(HistoricalInvoice) /\ findings \subseteq Finding
  BY DEF Init, Step
<1>5. resolution \in Resolution
  BY DEF Init, NotResolved, Resolution, Maybe, Confidence
<1> QED  BY <1>1, <1>2, <1>3, <1>4, <1>5 DEF TypeOK

(* What an administrator commits leaves the tables in order.               *)
InOrder(t) == t \in Tables /\ IsFiniteSet(t.vendors) /\ UniqueIds(t.vendors)

LEMMA TablesInOrder == ASSUME TypeOK PROVE InOrder(tables)
BY DEF TypeOK, InOrder

LEMMA CommitType ==
    ASSUME TypeOK, NEW t, InOrder(t), Commit(t)
    PROVE  TypeOK'
BY DEF TypeOK, InOrder, Commit

LEMMA HistoryWrites ==
    ASSUME TypeOK, AddInvoice \/ ReplaceInvoice \/ DeleteInvoice
    PROVE  TypeOK'
<1> DEFINE With(h) == [tables EXCEPT !.history = h]
<1>1. \A h \in Seq(HistoricalInvoice) : InOrder(With(h))
  BY TablesInOrder DEF InOrder, Tables
<1>2. tables.history \in Seq(HistoricalInvoice) /\ Entries \subseteq HistoricalInvoice
  BY CaseAssumption DEF TypeOK, Tables
<1>3. CASE AddInvoice
  <2>1. PICK e \in Entries : Commit(With(Append(tables.history, e)))
    BY <1>3 DEF AddInvoice
  <2>2. Append(tables.history, e) \in Seq(HistoricalInvoice)
    BY <1>2
  <2>3. InOrder(With(Append(tables.history, e)))
    BY <1>1, <2>2
  <2> HIDE DEF With
  <2> QED  BY <2>1, <2>3, CommitType
<1>4. CASE ReplaceInvoice
  <2>1. PICK i \in DOMAIN tables.history, e \in Entries :
            Commit(With([tables.history EXCEPT ![i] = e]))
    BY <1>4 DEF ReplaceInvoice
  <2>2. [tables.history EXCEPT ![i] = e] \in Seq(HistoricalInvoice)
    BY <1>2
  <2> QED  BY <1>1, <2>1, <2>2, CommitType
<1>5. CASE DeleteInvoice
  <2>1. PICK i \in DOMAIN tables.history :
            Commit(With([j \in 1..(Len(tables.history) - 1) |->
                            IF j < i THEN tables.history[j] ELSE tables.history[j + 1]]))
    BY <1>5 DEF DeleteInvoice
  <2>2. [j \in 1..(Len(tables.history) - 1) |->
            IF j < i THEN tables.history[j] ELSE tables.history[j + 1]]
            \in Seq(HistoricalInvoice)
    BY <1>2
  <2> QED  BY <1>1, <2>1, <2>2, CommitType
<1> QED  BY <1>3, <1>4, <1>5

LEMMA VendorWrites ==
    ASSUME TypeOK, ChangeOrder \/ DeleteVendor \/ CreateVendor \/ UpdateVendor
    PROVE  TypeOK'
<1> DEFINE With(vs) == [tables EXCEPT !.vendors = vs]
<1>1. \A vs \in SUBSET Vendor : IsFiniteSet(vs) /\ UniqueIds(vs) => InOrder(With(vs))
  BY TablesInOrder DEF InOrder, Tables
<1>2. /\ tables.vendors \subseteq Vendor
      /\ IsFiniteSet(tables.vendors)
      /\ UniqueIds(tables.vendors)
      /\ VendorRows \subseteq Vendor
      /\ OrderRows \subseteq PurchaseOrder
  BY TablesInOrder, CaseAssumption DEF InOrder, Tables
<1>3. CASE ChangeOrder
  <2>1. PICK o \in OrderRows \cup {None} : Commit([tables EXCEPT !.order = o])
    BY <1>3 DEF ChangeOrder
  <2>2. InOrder([tables EXCEPT !.order = o])
    BY <1>2, TablesInOrder DEF InOrder, Tables, Maybe
  <2> QED  BY <2>1, <2>2, CommitType
<1>4. CASE DeleteVendor
  <2>1. PICK v \in tables.vendors : Commit(With(tables.vendors \ {v}))
    BY <1>4 DEF DeleteVendor
  <2>2. IsFiniteSet(tables.vendors \ {v}) /\ UniqueIds(tables.vendors \ {v})
    BY <1>2, FS_RemoveElement DEF UniqueIds
  <2> QED  BY <1>1, <1>2, <2>1, <2>2, CommitType
<1>5. CASE CreateVendor
  <2>1. PICK v \in VendorRows :
            /\ \A w \in tables.vendors : w.id # v.id
            /\ Commit(With(tables.vendors \cup {v}))
    BY <1>5 DEF CreateVendor
  <2>2. IsFiniteSet(tables.vendors \cup {v}) /\ UniqueIds(tables.vendors \cup {v})
    BY <1>2, <2>1, FS_AddElement DEF UniqueIds
  <2> QED  BY <1>1, <1>2, <2>1, <2>2, CommitType
<1>6. CASE UpdateVendor
  <2>1. PICK v \in tables.vendors, w \in VendorRows :
            /\ \A u \in tables.vendors \ {v} : u.id # w.id
            /\ Commit(With((tables.vendors \ {v}) \cup {w}))
    BY <1>6 DEF UpdateVendor
  <2>2. IsFiniteSet((tables.vendors \ {v}) \cup {w})
    BY <1>2, FS_RemoveElement, FS_AddElement
  <2>3. UniqueIds((tables.vendors \ {v}) \cup {w})
    BY <1>2, <2>1 DEF UniqueIds
  <2> QED  BY <1>1, <1>2, <2>1, <2>2, <2>3, CommitType
<1> QED  BY <1>3, <1>4, <1>5, <1>6

LEMMA ReportType ==
    ASSUME TypeOK, NEW found \in SUBSET Finding, NEW next \in Step, Report(found, next)
    PROVE  findings' \subseteq Finding /\ pc' \in Step
BY DEF TypeOK, Report

LEMMA RuleSteps ==
    ASSUME TypeOK, CheckFields \/ ReadHistory \/ ReadOrder \/ CompareHistory \/ ReadOrderAgain
    PROVE  TypeOK'
<1>1. CASE CheckFields
  <2>1. findings' \subseteq Finding /\ pc' \in Step
    BY <1>1, InvoiceFindings DEF CheckFields, Report, TypeOK, Step
  <2> QED  BY <1>1, <2>1 DEF CheckFields, TypeOK
<1>2. CASE ReadHistory
  <2>1. findings' \subseteq Finding /\ pc' \in Step
    BY <1>2, HistoryFindings DEF ReadHistory, Report, TypeOK, Step
  <2>2. history' \in Seq(HistoricalInvoice)
    BY <1>2 DEF ReadHistory, TypeOK, Tables
  <2> QED  BY <1>2, <2>1, <2>2 DEF ReadHistory, TypeOK
<1>3. CASE ReadOrder
  <2>1. findings' \subseteq Finding /\ pc' \in Step
    BY <1>3, OrderFindings DEF ReadOrder, Report, TypeOK, Step
  <2> QED  BY <1>3, <2>1 DEF ReadOrder, TypeOK
<1>4. CASE CompareHistory
  <2>1. findings' \subseteq Finding /\ pc' \in Step
    BY <1>4, HistoryFindings DEF CompareHistory, Report, TypeOK, Step
  <2> QED  BY <1>4, <2>1 DEF CompareHistory, TypeOK
<1>5. CASE ReadOrderAgain
  <2>1. findings' \subseteq Finding /\ pc' \in Step
    BY <1>5, OrderFindings DEF ReadOrderAgain, Report, TypeOK, Step
  <2> QED  BY <1>5, <2>1 DEF ReadOrderAgain, TypeOK
<1> QED  BY <1>1, <1>2, <1>3, <1>4, <1>5

LEMMA ResolvedType ==
    ASSUME TypeOK, NEW r \in Resolution, Resolved(r)
    PROVE  TypeOK'
BY DEF TypeOK, Resolved, Step

LEMMA TryNextType ==
    ASSUME TypeOK, NEW next \in Step, TryNext(next)
    PROVE  TypeOK'
BY DEF TypeOK, TryNext

LEMMA Resolutions ==
    /\ NotResolved \in Resolution
    /\ \A v \in Vendor, c \in Confidence : ResolvedTo(v, c) \in Resolution
BY DEF NotResolved, ResolvedTo, Resolution, Vendor, Confidence, Maybe

LEMMA MatchType ==
    ASSUME TypeOK, NEW matches \in SUBSET Vendor, NEW confidence \in Confidence,
           NEW next \in Step, Match(matches, confidence, next)
    PROVE  TypeOK'
BY ResolvedType, TryNextType, Resolutions DEF Match

(* An alias is looked up of a name that is there.                          *)
Named == pc = "alias" => names # <<>>

LEMMA ResolutionSteps ==
    ASSUME TypeOK, Named,
           MatchTaxId \/ MatchAccount \/ SkipName \/ MatchKey \/ MatchAlias \/ NamesTried
               \/ MatchSimilar
    PROVE  TypeOK'
<1>1. /\ tables.vendors \subseteq Vendor
      /\ {"tax", "account", "key", "alias", "similar", "vendor"} \subseteq Step
      /\ {"exact_tax", "exact_bank", "exact_alias", "fuzzy_name"} \subseteq Confidence
  BY DEF TypeOK, Tables, Step, Confidence
<1>2. \A x : /\ FindByTaxId(tables.vendors, x) \subseteq Vendor
             /\ FindByAccount(tables.vendors, x) \subseteq Vendor
             /\ FindByKey(tables.vendors, x) \subseteq Vendor
             /\ FindByAlias(tables.vendors, x) \subseteq Vendor
  BY <1>1 DEF FindByTaxId, FindByAccount, FindByKey, FindByAlias
<1>3. MostSimilar(invoice, tables.vendors) \subseteq Vendor
  BY <1>1 DEF MostSimilar, Similar
<1>4. CASE MatchTaxId
  BY <1>1, <1>2, <1>4, MatchType, TryNextType DEF MatchTaxId
<1>5. CASE MatchAccount
  BY <1>1, <1>2, <1>5, MatchType, TryNextType DEF MatchAccount
<1>6. CASE SkipName
  BY <1>6 DEF SkipName, TypeOK
<1>7. CASE MatchKey
  BY <1>1, <1>2, <1>7, ResolvedType, TryNextType, Resolutions DEF MatchKey
<1>8. CASE MatchAlias
  <2>1. CASE pc = "alias" /\ FindByAlias(tables.vendors, SlugOf[Head(names)]) = {}
             /\ pc' = "key" /\ names' = Tail(names)
             /\ UNCHANGED <<invoice, tables, budget, past, history, resolution, findings>>
    <3>1. names' \in Seq(Names)
      BY <2>1 DEF TypeOK, Named
    <3> QED  BY <2>1, <3>1 DEF TypeOK, Step
  <2>2. CASE Match(FindByAlias(tables.vendors, SlugOf[Head(names)]), "exact_alias", "key")
    BY <1>1, <1>2, <2>2, MatchType
  <2> QED  BY <1>8, <2>1, <2>2 DEF MatchAlias
<1>9. CASE NamesTried
  BY <1>1, <1>9, TryNextType DEF NamesTried
<1>10. CASE MatchSimilar
  BY <1>1, <1>3, <1>10, ResolvedType, Resolutions DEF MatchSimilar
<1> QED  BY <1>4, <1>5, <1>6, <1>7, <1>8, <1>9, <1>10

LEMMA ReadVendorType ==
    ASSUME TypeOK, ReadVendor
    PROVE  TypeOK'
<1>1. findings' \subseteq Finding /\ pc' \in Step
  BY RegistryFindings DEF ReadVendor, Report, TypeOK, Step
<1> QED  BY <1>1 DEF ReadVendor, TypeOK

LEMMA NextNamed == TypeOK /\ Named /\ [Next]_vars => Named'
<1> SUFFICES ASSUME TypeOK, Named, [Next]_vars PROVE Named'
  OBVIOUS
<1>1. CASE Write
  <2>1. \E t : Commit(t)
    BY <1>1 DEF Write, AddInvoice, ReplaceInvoice, DeleteInvoice, ChangeOrder, DeleteVendor,
               CreateVendor, UpdateVendor
  <2> QED  BY <2>1 DEF Commit, Named
<1>2. CASE CheckFields \/ ReadHistory \/ ReadOrder \/ ReadVendor \/ CompareHistory
               \/ ReadOrderAgain
  BY <1>2 DEF CheckFields, ReadHistory, ReadOrder, ReadVendor, CompareHistory,
              ReadOrderAgain, Report, Named
<1>3. CASE MatchTaxId \/ MatchAccount \/ MatchSimilar \/ NamesTried \/ Unavailable
  BY <1>3 DEF MatchTaxId, MatchAccount, MatchSimilar, NamesTried, Unavailable, Match,
              Resolved, TryNext, Named
<1>4. CASE SkipName \/ MatchKey \/ MatchAlias
  BY <1>4 DEF SkipName, MatchKey, MatchAlias, Match, Resolved, TryNext, Named
<1>5. CASE UNCHANGED vars
  BY <1>5 DEF vars, Named
<1> QED  BY <1>1, <1>2, <1>3, <1>4, <1>5 DEF Next, Verify

LEMMA NextType == TypeOK /\ Named /\ [Next]_vars => TypeOK'
<1> SUFFICES ASSUME TypeOK, Named, [Next]_vars PROVE TypeOK'
  OBVIOUS
<1>1. CASE Write
  BY <1>1, HistoryWrites, VendorWrites DEF Write
<1>2. CASE Verify
  <2>1. CASE Unavailable
    BY <2>1, TryNextType DEF Unavailable, Step
  <2> QED  BY <1>2, <2>1, RuleSteps, ResolutionSteps, ReadVendorType DEF Verify
<1>3. CASE UNCHANGED vars
  BY <1>3 DEF TypeOK, vars
<1> QED  BY <1>1, <1>2, <1>3 DEF Next

LEMMA Typed == Spec => [](TypeOK /\ Named)
<1>1. Init => TypeOK /\ Named
  BY InitType DEF Init, Named
<1> QED  BY <1>1, NextType, NextNamed, PTL DEF Spec

(* Every variable keeps to its type, and no write makes two vendors of one *)
(* vendor_id.                                                              *)
THEOREM TypeCorrect == Spec => []TypeOK
BY Typed, PTL

-----------------------------------------------------------------------------
(* A foreign account is flagged.                                           *)

LEMMA WriteCommits ==
    ASSUME TypeOK, Write
    PROVE  /\ past \subseteq past' /\ tables' \in past'
           /\ UNCHANGED <<invoice, pc, names, history, resolution, findings>>
<1>1. \E t : Commit(t)
  BY DEF Write, AddInvoice, ReplaceInvoice, DeleteInvoice, ChangeOrder, DeleteVendor,
         CreateVendor, UpdateVendor
<1> QED  BY <1>1 DEF Commit

ForeignAccount == Found("vendor_bank_account_mismatch", "high", "account", 0)

(* What ForeignAccountFlagged says, from the moment the vendor is read.    *)
AccountInv ==
    /\ pc \in {"compare", "ceiling", "done"}
    /\ resolution.vendor # None
    /\ Plain(invoice.account) # None
    /\ \A t \in past : \E v \in t.vendors :
           v.id = resolution.vendor /\ ~Declares(v.accounts, Plain(invoice.account))
    => ForeignAccount \in findings

(* The vendor that is read is the one row of the identifier, so what every *)
(* content of the tables says of that row holds of it.                     *)
LEMMA ReadVendorFlags ==
    ASSUME TypeOK, ReadVendor
    PROVE  AccountInv'
<1> SUFFICES ASSUME resolution.vendor # None, Plain(invoice.account) # None,
                    \A t \in past : \E v \in t.vendors :
                        v.id = resolution.vendor
                            /\ ~Declares(v.accounts, Plain(invoice.account))
             PROVE  ForeignAccount \in findings'
  BY DEF ReadVendor, AccountInv
<1> DEFINE rows == {v \in tables.vendors : v.id = resolution.vendor}
<1>1. tables \in past /\ UniqueIds(tables.vendors)
  BY DEF TypeOK
<1>2. PICK v \in tables.vendors :
          v.id = resolution.vendor /\ ~Declares(v.accounts, Plain(invoice.account))
  BY <1>1
<1>3. rows = {v}
  BY <1>1, <1>2 DEF UniqueIds
<1>4. (CHOOSE w \in rows : TRUE) = v /\ rows # {}
  BY <1>3
<1>5. v # None
  BY VendorAssumption DEF TypeOK, Tables
<1>6. findings' = findings \cup CheckVendorRegistry(invoice, resolution, v)
  BY <1>4 DEF ReadVendor, Report
<1>7. ForeignAccount \in CheckVendorBankAccount(invoice, v)
  BY <1>2, <1>5 DEF CheckVendorBankAccount, On, ForeignAccount
<1> QED  BY <1>6, <1>7 DEF CheckVendorRegistry

(* A write adds a content, so that the hypothesis says more than before.   *)
LEMMA NextAccount == TypeOK /\ AccountInv /\ [Next]_vars => AccountInv'
<1> SUFFICES ASSUME TypeOK, AccountInv, [Next]_vars PROVE AccountInv'
  OBVIOUS
<1>1. CASE Write
  BY <1>1, WriteCommits DEF AccountInv
<1>2. CASE ReadVendor
  BY <1>2, ReadVendorFlags
<1>3. CASE CompareHistory \/ ReadOrderAgain
  BY <1>3 DEF CompareHistory, ReadOrderAgain, Report, AccountInv
<1>4. CASE Unavailable
  BY <1>4 DEF Unavailable, TryNext, AccountInv
<1>5. CASE CheckFields \/ ReadHistory \/ ReadOrder
  BY <1>5 DEF CheckFields, ReadHistory, ReadOrder, Report, AccountInv
<1>6. CASE MatchTaxId \/ MatchAccount \/ MatchSimilar \/ NamesTried
  BY <1>6 DEF MatchTaxId, MatchAccount, MatchSimilar, NamesTried, Match, Resolved, TryNext,
              AccountInv
<1>7. CASE SkipName \/ MatchKey \/ MatchAlias
  BY <1>7 DEF SkipName, MatchKey, MatchAlias, Match, Resolved, TryNext, AccountInv
<1>8. CASE UNCHANGED vars
  BY <1>8 DEF vars, AccountInv
<1> QED  BY <1>1, <1>2, <1>3, <1>4, <1>5, <1>6, <1>7, <1>8 DEF Next, Verify

(* An account the matched vendor never had is a high finding of every      *)
(* verification that ends with a verdict, whatever was written meanwhile,  *)
(* as long as the vendor stayed in the registry.                           *)
THEOREM ForeignAccountsAreFlagged == Spec => []ForeignAccountFlagged
<1>1. Init => AccountInv
  BY DEF Init, AccountInv
<1>2. AccountInv => ForeignAccountFlagged
  BY DEF AccountInv, ForeignAccountFlagged, ForeignAccount
<1> QED  BY <1>1, <1>2, NextAccount, Typed, PTL DEF Spec

-----------------------------------------------------------------------------
(* The strongest evidence decides.                                         *)

(* What a code led to, in the tables of some moment.                       *)
OneOrSeveral(holders, t, confidence) ==
    \/ Cardinality(holders) > 1 /\ resolution = NotResolved
    \/ \E v \in t.vendors : holders = {v} /\ resolution = ResolvedTo(v, confidence)

NoTax == Plain(invoice.taxId) = None \/ \E t \in past : TaxHolders(t) = {}
NoAccount == Plain(invoice.account) = None \/ \E t \in past : AccountHolders(t) = {}

ByTax ==
    /\ Plain(invoice.taxId) # None
    /\ \E t \in past :
           TaxHolders(t) # {} /\ OneOrSeveral(TaxHolders(t), t, "exact_tax")

ByAccount ==
    /\ Plain(invoice.account) # None
    /\ \E t \in past :
           AccountHolders(t) # {} /\ OneOrSeveral(AccountHolders(t), t, "exact_bank")

(* Weaker evidence is asked only when the stronger was missing or unknown. *)
EvidenceInv ==
    /\ pc \in {"account", "key", "alias", "similar"} => NoTax
    /\ pc \in {"key", "alias", "similar"} => NoAccount
    /\ pc \in {"vendor", "compare", "ceiling", "done"} =>
           ByTax \/ (NoTax /\ (ByAccount \/ NoAccount))

LEMMA MatchDecides ==
    ASSUME NEW t, IsFiniteSet(t.vendors), NEW matches \in SUBSET t.vendors,
           NEW confidence, NEW next, Match(matches, confidence, next)
    PROVE  \/ matches = {} /\ TryNext(next)
           \/ /\ matches # {}
              /\ OneOrSeveral(matches, t, confidence)'
              /\ pc' = "vendor"
              /\ UNCHANGED <<invoice, tables, past>>
<1>1. IsFiniteSet(matches)
  BY FS_Subset
<1>2. Cardinality({}) = 0
  BY FS_EmptySet
<1>3. Cardinality(matches) = 1 => \E x : matches = {x}
  BY <1>1, FS_Singleton
<1>4. CASE matches = {} /\ TryNext(next)
  BY <1>4
<1>5. CASE Cardinality(matches) > 1 /\ Resolved(NotResolved)
  BY <1>2, <1>5 DEF Resolved, OneOrSeveral
<1>6. CASE Cardinality(matches) = 1
           /\ \E v \in matches : Resolved(ResolvedTo(v, confidence))
  <2>1. PICK v \in matches : Resolved(ResolvedTo(v, confidence))
    BY <1>6
  <2>2. matches = {v} /\ v \in t.vendors
    BY <1>3, <1>6, <2>1
  <2> QED  BY <2>1, <2>2 DEF Resolved, OneOrSeveral
<1> QED  BY <1>4, <1>5, <1>6 DEF Match

LEMMA TaxEvidence == ASSUME TypeOK, MatchTaxId PROVE EvidenceInv'
<1>1. tables \in past /\ IsFiniteSet(tables.vendors)
  BY DEF TypeOK
<1>2. CASE Plain(invoice.taxId) = None /\ TryNext("account")
  BY <1>2 DEF TryNext, EvidenceInv, NoTax
<1>3. CASE /\ Plain(invoice.taxId) # None
           /\ Match(TaxHolders(tables), "exact_tax", "account")
  <2>1. TaxHolders(tables) \in SUBSET tables.vendors
    BY DEF TaxHolders, FindByTaxId
  <2>2. CASE TaxHolders(tables) = {} /\ TryNext("account")
    <3>1. NoTax'
      BY <1>1, <2>2 DEF NoTax, TryNext, TaxHolders
    <3> QED  BY <2>2, <3>1 DEF EvidenceInv, TryNext
  <2>3. CASE /\ TaxHolders(tables) # {}
             /\ OneOrSeveral(TaxHolders(tables), tables, "exact_tax")'
             /\ pc' = "vendor"
             /\ UNCHANGED <<invoice, tables, past>>
    <3>1. ByTax'
      BY <1>1, <1>3, <2>3 DEF ByTax, TaxHolders
    <3> QED  BY <2>3, <3>1 DEF EvidenceInv
  <2> QED  BY <1>1, <1>3, <2>1, <2>2, <2>3, MatchDecides DEF TaxHolders, OneOrSeveral
<1> QED  BY <1>2, <1>3 DEF MatchTaxId, TaxHolders

LEMMA AccountEvidence == ASSUME TypeOK, EvidenceInv, MatchAccount PROVE EvidenceInv'
<1>1. tables \in past /\ IsFiniteSet(tables.vendors) /\ NoTax
  BY DEF TypeOK, MatchAccount, EvidenceInv
<1>2. CASE Plain(invoice.account) = None /\ TryNext("key")
  BY <1>1, <1>2 DEF TryNext, EvidenceInv, NoTax, NoAccount, TaxHolders
<1>3. CASE /\ Plain(invoice.account) # None
           /\ Match(AccountHolders(tables), "exact_bank", "key")
  <2>1. AccountHolders(tables) \in SUBSET tables.vendors
    BY DEF AccountHolders, FindByAccount
  <2>2. CASE AccountHolders(tables) = {} /\ TryNext("key")
    <3>1. NoTax' /\ NoAccount'
      BY <1>1, <2>2 DEF NoTax, NoAccount, TryNext, TaxHolders, AccountHolders
    <3> QED  BY <2>2, <3>1 DEF EvidenceInv, TryNext
  <2>3. CASE /\ AccountHolders(tables) # {}
             /\ OneOrSeveral(AccountHolders(tables), tables, "exact_bank")'
             /\ pc' = "vendor"
             /\ UNCHANGED <<invoice, tables, past>>
    <3>1. ByAccount' /\ NoTax'
      BY <1>1, <1>3, <2>3 DEF ByAccount, NoTax, AccountHolders, TaxHolders
    <3> QED  BY <2>3, <3>1 DEF EvidenceInv
  <2> QED  BY <1>1, <1>3, <2>1, <2>2, <2>3, MatchDecides DEF AccountHolders, OneOrSeveral
<1> QED  BY <1>2, <1>3 DEF MatchAccount, AccountHolders

(* A write adds a content and leaves the resolution.                       *)
LEMMA EvidenceKept ==
    ASSUME EvidenceInv, past \subseteq past', UNCHANGED <<invoice, resolution>>,
           \/ pc' = pc
           \/ pc \in {"key", "alias", "similar"} /\ pc' \in {"key", "alias", "similar"}
           \/ pc \in {"vendor", "compare", "ceiling"} /\ pc' \in {"compare", "ceiling", "done"}
           \/ pc' \in {"history", "order", "tax", "unavailable", "error"}
    PROVE  EvidenceInv'
<1>1. (NoTax => NoTax') /\ (NoAccount => NoAccount')
  BY DEF NoTax, NoAccount, TaxHolders, AccountHolders
<1>2. (ByTax => ByTax') /\ (ByAccount => ByAccount')
  BY DEF ByTax, ByAccount, OneOrSeveral, TaxHolders, AccountHolders
<1> QED  BY <1>1, <1>2 DEF EvidenceInv

(* Names are asked when neither code led anywhere.                         *)
LEMMA NameEvidence ==
    ASSUME EvidenceInv, pc \in {"key", "alias", "similar"}, pc' = "vendor",
           UNCHANGED <<invoice, past>>
    PROVE  EvidenceInv'
BY DEF EvidenceInv, NoTax, NoAccount, TaxHolders, AccountHolders

LEMMA NextEvidence == TypeOK /\ EvidenceInv /\ [Next]_vars => EvidenceInv'
<1> SUFFICES ASSUME TypeOK, EvidenceInv, [Next]_vars PROVE EvidenceInv'
  OBVIOUS
<1>1. CASE Write
  BY <1>1, WriteCommits, EvidenceKept
<1>2. CASE MatchTaxId
  BY <1>2, TaxEvidence
<1>3. CASE MatchAccount
  BY <1>3, AccountEvidence
<1>4. CASE SkipName \/ NamesTried
  BY <1>4, EvidenceKept DEF SkipName, NamesTried, TryNext
<1>5. CASE MatchKey
  BY <1>5, EvidenceKept, NameEvidence DEF MatchKey, Resolved, TryNext
<1>6. CASE MatchAlias
  BY <1>6, EvidenceKept, NameEvidence DEF MatchAlias, Match, Resolved, TryNext
<1>7. CASE MatchSimilar
  BY <1>7, NameEvidence DEF MatchSimilar, Resolved
<1>8. CASE CheckFields \/ ReadHistory \/ ReadOrder \/ Unavailable
  BY <1>8, EvidenceKept DEF CheckFields, ReadHistory, ReadOrder, Unavailable, TryNext, Report
<1>9. CASE ReadVendor \/ CompareHistory \/ ReadOrderAgain
  BY <1>9, EvidenceKept DEF ReadVendor, CompareHistory, ReadOrderAgain, Report
<1>10. CASE UNCHANGED vars
  BY <1>10, EvidenceKept DEF vars
<1> QED  BY <1>1, <1>2, <1>3, <1>4, <1>5, <1>6, <1>7, <1>8, <1>9, <1>10 DEF Next, Verify

LEMMA EvidenceSuffices == EvidenceInv => StrongestEvidenceDecides
<1> SUFFICES ASSUME EvidenceInv, pc = "done" PROVE StrongestEvidenceDecides
  BY DEF StrongestEvidenceDecides
<1>1. ByTax \/ (NoTax /\ (ByAccount \/ NoAccount))
  BY DEF EvidenceInv
<1>2. ByTax => DecidedBy(TaxHolders, "exact_tax")
  BY DEF ByTax, OneOrSeveral, DecidedBy
<1>3. ByAccount => DecidedBy(AccountHolders, "exact_bank")
  BY DEF ByAccount, OneOrSeveral, DecidedBy
<1> QED  BY <1>1, <1>2, <1>3 DEF StrongestEvidenceDecides, NoTax, ByTax, NoAccount, DecidedBy

(* The tax identifier decides before the account and the account before    *)
(* the names, in every registry and whatever is written meanwhile; a code  *)
(* that several vendors share leaves the vendor open.                      *)
THEOREM EvidenceDecides == Spec => []StrongestEvidenceDecides
<1>1. Init => EvidenceInv
  BY DEF Init, EvidenceInv
<1> QED  BY <1>1, EvidenceSuffices, NextEvidence, Typed, PTL DEF Spec

-----------------------------------------------------------------------------
(* The due date.                                                           *)

LEMMA MinIs ==
    ASSUME NEW S \in SUBSET Int, NEW m \in S, \A x \in S : m <= x
    PROVE  Min(S) = m
<1>1. \A x, y \in Int : x <= y /\ y <= x => x = y
  OBVIOUS
<1>2. \A k \in S : (\A x \in S : k <= x) => k = m
  BY <1>1
<1> QED  BY <1>2 DEF Min

LEMMA BusinessDayIs ==
    ASSUME NEW day \in Int
    PROVE  BusinessDay(day) = IF (day % 7) = 5 THEN day + 2
                              ELSE IF (day % 7) = 6 THEN day + 1 ELSE day
<1> DEFINE open == {d \in day..(day + 2) : Weekday(d) < 5}
<1>1. /\ (day % 7) \in 0..6
      /\ (day % 7) = 5 => ((day + 1) % 7) = 6 /\ ((day + 2) % 7) = 0
      /\ (day % 7) = 6 => ((day + 1) % 7) = 0
  OBVIOUS
<1>2. \A d \in day..(day + 2) : d = day \/ d = day + 1 \/ d = day + 2
  OBVIOUS
<1>3. open \subseteq Int
  OBVIOUS
<1>4. CASE (day % 7) = 5
  <2>1. open = {day + 2}
    BY <1>1, <1>2, <1>4 DEF Weekday
  <2>2. Min(open) = day + 2
    BY <1>3, <2>1, MinIs
  <2> QED  BY <1>4, <2>2 DEF BusinessDay
<1>5. CASE (day % 7) = 6
  <2>1. day + 1 \in open /\ day \notin open
    BY <1>1, <1>5 DEF Weekday
  <2>2. \A d \in open : day + 1 <= d
    BY <1>2, <2>1
  <2>3. Min(open) = day + 1
    BY <1>3, <2>1, <2>2, MinIs
  <2> QED  BY <1>5, <2>3 DEF BusinessDay
<1>6. CASE (day % 7) \notin {5, 6}
  <2>1. day \in open
    BY <1>1, <1>6 DEF Weekday
  <2>2. \A d \in open : day <= d
    OBVIOUS
  <2>3. Min(open) = day
    BY <1>3, <2>1, <2>2, MinIs
  <2> QED  BY <1>6, <2>3 DEF BusinessDay
<1> QED  BY <1>4, <1>5, <1>6

(* A due date that can be checked is let pass when, and only when, it is   *)
(* the day the terms give or the Monday after the weekend it falls on: for *)
(* every date, and all terms (payment_terms.py:72-160).                    *)
THEOREM DueDateDecided ==
    ASSUME NEW inv \in Invoice, HasDueDays(inv)
    PROVE  CheckPaymentTermsDueDate(inv) = {} <=> DueAsAgreed(inv)
<1> DEFINE expected == inv.date + TermsDays(inv.terms)
<1>1. inv.date \in Int /\ inv.due \in Int /\ TermsDays(inv.terms) \in Int
  <2>1. inv.date \in Int /\ inv.due \in Int
    BY DEF HasDueDays, Dated, Invoice, Maybe
  <2>2. inv.terms \in Terms
    BY DEF HasDueDays, Invoice, Maybe
  <2>3. inv.terms.days \in Int
    BY <2>2 DEF Terms
  <2> QED  BY <2>1, <2>3 DEF HasDueDays, TermsDays
<1>2. expected \in Int
  BY <1>1
<1> HIDE DEF expected
<1>3. BusinessDay(expected) = IF (expected % 7) = 5 THEN expected + 2
                              ELSE IF (expected % 7) = 6 THEN expected + 1 ELSE expected
  BY <1>2, BusinessDayIs
<1>4. DueAsAgreed(inv) <=>
          \/ inv.due = expected
          \/ (expected % 7) = 5 /\ inv.due = expected + 2
          \/ (expected % 7) = 6 /\ inv.due = expected + 1
  BY <1>3 DEF DueAsAgreed, expected
<1>5. CheckPaymentTermsDueDate(inv) = {} <=>
          \/ inv.due = expected
          \/ (expected % 7) = 5 /\ inv.due = expected + 2
          \/ (expected % 7) = 6 /\ inv.due = expected + 1
  BY DEF CheckPaymentTermsDueDate, On, Weekday, expected
<1> QED  BY <1>4, <1>5

-----------------------------------------------------------------------------
(* Sums.                                                                   *)

(* A set of numbers that is not empty has a smallest one.                  *)
LEMMA SmallestNat ==
    ASSUME NEW S \in SUBSET Nat, S # {}
    PROVE  \E n \in S : \A m \in S : n <= m
<1>1. PICK n \in S : \A m \in S : <<m, n>> \notin OpToRel(<, Nat)
  BY NatLessThanWellFounded, WFMin, Zenon
<1>2. ASSUME NEW m \in S PROVE n <= m
  <2>1. n \in Nat /\ m \in Nat
    OBVIOUS
  <2>2. m < n => <<m, n>> \in OpToRel(<, Nat)
    BY <2>1 DEF OpToRel
  <2>3. ~(m < n)
    BY <1>1, <2>2, Zenon
  <2> QED  BY <2>1, <2>3
<1> QED  BY <1>2

(* Of a family of subsets of a finite set, one has no smaller one in it.   *)
Smallest(s, F) == s \in F /\ \A t \in F : t \subseteq s => t = s

LEMMA SmallestSubset ==
    ASSUME NEW S, IsFiniteSet(S), NEW F, F \subseteq FiniteSubsetsOf(S), F # {}
    PROVE  \E s : Smallest(s, F)
<1>1. PICK s \in F : \A t \in F : <<t, s>> \notin StrictSubsetOrdering(S)
  BY FS_StrictSubsetOrderingWellFounded, WFMin, Zenon
<1>2. \A t \in F : t \subseteq S
  BY DEF FiniteSubsetsOf
<1>3. ASSUME NEW t \in F, t \subseteq s, t # s PROVE FALSE
  BY <1>1, <1>2, <1>3 DEF StrictSubsetOrdering
<1> QED  BY <1>1, <1>3 DEF Smallest

(* A finite set of numbers has a smallest and a largest.                   *)
LEMMA Bounds ==
    ASSUME NEW S \in SUBSET Int, IsFiniteSet(S), S # {}
    PROVE  /\ Min(S) \in S /\ \A x \in S : Min(S) <= x
           /\ Max(S) \in S /\ \A x \in S : x <= Max(S)
<1> DEFINE Bounded(s) == /\ \E m \in s : \A x \in s : m <= x
                         /\ \E m \in s : \A x \in s : m >= x
           Bad == {s \in SUBSET S : s # {} /\ ~Bounded(s)}
<1>1. Bad = {}
  <2> SUFFICES ASSUME Bad # {} PROVE FALSE
    OBVIOUS
  <2>1. PICK s : Smallest(s, Bad)
    <3>1. Bad \subseteq FiniteSubsetsOf(S)
      BY FS_FiniteSubsetsOfFinite
    <3> HIDE DEF Bad
    <3> QED  BY <3>1, SmallestSubset
  <2> s \in Bad
    BY <2>1 DEF Smallest
  <2>2. PICK x \in s : TRUE
    OBVIOUS
  <2>3. s \subseteq Int /\ x \in Int
    OBVIOUS
  <2>4. CASE s = {x}
    <3>1. Bounded(s)
      BY <2>3, <2>4
    <3> QED  BY <3>1
  <2>5. CASE s # {x}
    <3>1. s \ {x} \in SUBSET S /\ s \ {x} # {} /\ s \ {x} \notin Bad
      BY <2>1, <2>2, <2>5 DEF Smallest
    <3>2. Bounded(s \ {x})
      BY <3>1
    <3>3. PICK low \in s \ {x} : \A y \in s \ {x} : low <= y
      BY <3>2
    <3>4. PICK high \in s \ {x} : \A y \in s \ {x} : high >= y
      BY <3>2
    <3>5. \E m \in s : \A y \in s : m <= y
      <4>1. CASE x <= low
        BY <2>3, <3>3, <4>1
      <4>2. CASE low <= x
        BY <2>3, <3>3, <4>2
      <4> QED  BY <2>3, <3>3, <4>1, <4>2
    <3>6. \E m \in s : \A y \in s : m >= y
      <4>1. CASE x >= high
        BY <2>3, <3>4, <4>1
      <4>2. CASE high >= x
        BY <2>3, <3>4, <4>2
      <4> QED  BY <2>3, <3>4, <4>1, <4>2
    <3> QED  BY <3>5, <3>6
  <2> QED  BY <2>4, <2>5
<1>2. Bounded(S)
  BY <1>1
<1>3. PICK low \in S : \A x \in S : low <= x
  BY <1>2
<1>4. PICK high \in S : \A x \in S : high >= x
  BY <1>2
<1>5. Min(S) \in S /\ \A x \in S : Min(S) <= x
  BY <1>3 DEF Min
<1>6. Max(S) \in S /\ \A x \in S : Max(S) >= x
  BY <1>4 DEF Max
<1> QED  BY <1>5, <1>6

Pick(s) == CHOOSE x \in s : TRUE

(* g sums f over the sets of D, in the order SumFunction takes.            *)
SumsOver(f, D, g) ==
    g = [s \in D |-> IF s = {} THEN 0 ELSE f[Pick(s)] + g[s \ {Pick(s)}]]

(* There is such a g, by the size of the sets it sums over.                *)
LEMMA SumsExist ==
    ASSUME NEW S, IsFiniteSet(S), NEW f
    PROVE  \E g : SumsOver(f, SUBSET S, g)
<1> DEFINE Of(n) == {s \in SUBSET S : Cardinality(s) <= n}
           Bad == {n \in Nat : ~\E g : SumsOver(f, Of(n), g)}
<1>1. \A s \in SUBSET S : IsFiniteSet(s) /\ Cardinality(s) \in Nat /\ Cardinality(s) <= Cardinality(S)
  BY FS_Subset, FS_CardinalityType
<1>2. Bad = {}
  <2> SUFFICES ASSUME Bad # {} PROVE FALSE
    OBVIOUS
  <2>1. PICK n \in Bad : \A m \in Bad : n <= m
    <3>1. Bad \in SUBSET Nat
      OBVIOUS
    <3> HIDE DEF Bad
    <3> QED  BY <3>1, SmallestNat
  <2>2. n \in Nat /\ ~\E g : SumsOver(f, Of(n), g)
    BY <2>1
  <2>3. CASE n = 0
    <3>1. \A s \in Of(n) : s = {}
      BY <1>1, <2>3, FS_EmptySet
    <3>2. SumsOver(f, Of(n), [s \in Of(n) |-> 0])
      BY <3>1 DEF SumsOver
    <3> QED  BY <2>2, <3>2
  <2>4. CASE n # 0
    <3>1. n - 1 \in Nat /\ ~(n <= n - 1)
      BY <2>2, <2>4
    <3>2. PICK g : SumsOver(f, Of(n - 1), g)
      BY <2>1, <3>1
    <3> DEFINE Next1(s) == IF s = {} THEN 0 ELSE f[Pick(s)] + g[s \ {Pick(s)}]
               h == [s \in Of(n) |-> Next1(s)]
    <3>3. \A s \in Of(n - 1) : s \in Of(n) /\ g[s] = Next1(s)
      <4>1. \A s \in SUBSET S : Cardinality(s) <= n - 1 => Cardinality(s) <= n
        BY <1>1, <2>2
      <4>2. ASSUME NEW s \in Of(n - 1) PROVE g[s] = Next1(s)
        <5> HIDE DEF Of
        <5> QED  BY <3>2 DEF SumsOver
      <4> QED  BY <4>1, <4>2
    <3>4. \A s \in Of(n - 1) : h[s] = g[s]
      BY <3>3
    <3>5. ASSUME NEW s \in Of(n), s # {} PROVE h[s] = f[Pick(s)] + h[s \ {Pick(s)}]
      <4>1. Pick(s) \in s
        BY <3>5 DEF Pick
      <4>2. s \ {Pick(s)} \in SUBSET S /\ Cardinality(s \ {Pick(s)}) = Cardinality(s) - 1
        BY <1>1, <4>1, FS_RemoveElement
      <4>3. s \ {Pick(s)} \in Of(n - 1)
        BY <1>1, <2>2, <4>2
      <4> QED  BY <3>4, <3>5, <4>3
    <3>6. \A s \in Of(n) : h[s] = IF s = {} THEN 0 ELSE f[Pick(s)] + h[s \ {Pick(s)}]
      BY <3>5
    <3>7. SumsOver(f, Of(n), h)
      <4> HIDE DEF Of
      <4>1. h = [s \in Of(n) |-> h[s]]
        OBVIOUS
      <4> HIDE DEF h
      <4> QED  BY <3>6, <4>1 DEF SumsOver
    <3> QED  BY <2>2, <3>7
  <2> QED  BY <2>3, <2>4
<1>3. Cardinality(S) \in Nat
  BY FS_CardinalityType
<1>4. Of(Cardinality(S)) = SUBSET S
  BY <1>1
<1>5. \E g : SumsOver(f, Of(Cardinality(S)), g)
  BY <1>2, <1>3
<1> QED  BY <1>4, <1>5

(* SumFunction(f) is the last of its partial sums.                         *)
PartialSums(f, D, g) ==
    /\ SumFunction(f) = g[D]
    /\ g[{}] = 0
    /\ \A s \in SUBSET D :
           s # {} => Pick(s) \in s /\ g[s] = f[Pick(s)] + g[s \ {Pick(s)}]

(* SumFunction of a finite function has partial sums.                      *)
LEMMA PartialSumsExist ==
    ASSUME NEW D, IsFiniteSet(D), NEW f, DOMAIN f = D
    PROVE  \E g : PartialSums(f, D, g)
<1> DEFINE g == CHOOSE g : SumsOver(f, SUBSET D, g)
<1>1. SumFunction(f) = g[D]
  BY DEF SumFunction, SumFunctionOnSet, FoldFunctionOnSet, MapThenFoldSet, SumsOver, Pick
<1>2. SumsOver(f, SUBSET D, g)
  BY SumsExist
<1> HIDE DEF g
<1>3. \A s \in SUBSET D : g[s] = IF s = {} THEN 0 ELSE f[Pick(s)] + g[s \ {Pick(s)}]
  BY <1>2 DEF SumsOver
<1>4. \A s : s # {} => Pick(s) \in s
  BY DEF Pick
<1>5. g[{}] = 0
  BY <1>3
<1> QED  BY <1>1, <1>3, <1>4, <1>5 DEF PartialSums

SquaresOf(f) == [p \in DOMAIN f |-> f[p] * f[p]]

Quadratic(a, b, c, q, s, n) == a * q + b * s + c * n

(* One more value adds what it is worth.                                   *)
LEMMA QuadraticAdds ==
    ASSUME NEW a \in Int, NEW b \in Int, NEW c \in Int,
           NEW q \in Int, NEW s \in Int, NEW n \in Int, NEW x \in Int
    PROVE  /\ Quadratic(a, b, c, x * x + q, x + s, n + 1)
                  = Quadratic(a, b, c, x * x, x, 1) + Quadratic(a, b, c, q, s, n)
           /\ Quadratic(a, b, c, q, s, n) \in Int
<1>1. x * x \in Int
  OBVIOUS
<1>2. \A y \in Int : /\ a * (y + q) = a * y + a * q
                     /\ b * (x + s) = b * x + b * s
                     /\ c * (n + 1) = c * 1 + c * n
  OBVIOUS
<1>3. a * (x * x + q) + b * (x + s) + c * (n + 1)
          = (a * (x * x) + b * x + c * 1) + (a * q + b * s + c * n)
  BY <1>1, <1>2
<1> QED  BY <1>3 DEF Quadratic

(* If a polynomial of degree two is nowhere negative on the values of f,   *)
(* its sum over them is at least what it is at any one of them.            *)
LEMMA SumOfQuadratic ==
    ASSUME NEW D, IsFiniteSet(D), NEW f \in [D -> Int],
           NEW a \in Int, NEW b \in Int, NEW c \in Int,
           \A p \in D : Quadratic(a, b, c, f[p] * f[p], f[p], 1) >= 0
    PROVE  /\ SumFunction(f) \in Int /\ SumFunction(SquaresOf(f)) \in Int
           /\ LET all == Quadratic(a, b, c, SumFunction(SquaresOf(f)), SumFunction(f),
                                   Cardinality(D))
              IN  /\ all \in Int /\ all >= 0
                  /\ \A p \in D : all >= Quadratic(a, b, c, f[p] * f[p], f[p], 1)
<1>1. PICK g : PartialSums(f, D, g)
  <2>1. DOMAIN f = D
    OBVIOUS
  <2> QED  BY <2>1, PartialSumsExist
<1>2. PICK h : PartialSums(SquaresOf(f), D, h)
  <2>1. DOMAIN SquaresOf(f) = D
    BY DEF SquaresOf
  <2> QED  BY <2>1, PartialSumsExist
<1>3. \A p \in D : SquaresOf(f)[p] = f[p] * f[p]
  BY DEF SquaresOf
<1> DEFINE At(p) == Quadratic(a, b, c, f[p] * f[p], f[p], 1)
           Over(s) == Quadratic(a, b, c, h[s], g[s], Cardinality(s))
           Good(s) == /\ g[s] \in Int /\ h[s] \in Int
                      /\ Over(s) \in Int /\ Over(s) >= 0
                      /\ \A p \in s : Over(s) >= At(p)
           Bad == {s \in SUBSET D : ~Good(s)}
<1>4. \A p \in D : At(p) \in Int
  BY DEF Quadratic
<1> HIDE DEF At
<1>5. Bad = {}
  <2>0. SUFFICES ASSUME Bad # {} PROVE FALSE
    OBVIOUS
  <2>1. PICK s : Smallest(s, Bad)
    <3>1. Bad \subseteq FiniteSubsetsOf(D)
      BY FS_FiniteSubsetsOfFinite
    <3> HIDE DEF Bad
    <3> QED  BY <2>0, <3>1, SmallestSubset
  <2>2. s \in SUBSET D /\ ~Good(s)
    BY <2>1 DEF Smallest
  <2>3. IsFiniteSet(s) /\ Cardinality(s) \in Nat
    BY <2>2, FS_Subset, FS_CardinalityType
  <2>4. CASE s = {}
    <3>1. g[s] = 0 /\ h[s] = 0 /\ Cardinality(s) = 0
      BY <1>1, <1>2, <2>4, FS_EmptySet DEF PartialSums
    <3>2. Over(s) = 0
      BY <3>1 DEF Quadratic
    <3> QED  BY <2>2, <2>4, <3>1, <3>2
  <2>5. CASE s # {}
    <3> DEFINE x == Pick(s)
               t == s \ {x}
    <3>1. x \in s /\ g[s] = f[x] + g[t] /\ h[s] = f[x] * f[x] + h[t]
      BY <1>1, <1>2, <1>3, <2>2, <2>5 DEF PartialSums
    <3>2. t \in SUBSET D /\ t # s /\ t \subseteq s
      BY <2>2, <3>1
    <3>3. Good(t)
      <4>1. t \notin Bad
        BY <2>1, <3>2 DEF Smallest
      <4> QED  BY <3>2, <4>1
    <3>4. Cardinality(s) = Cardinality(t) + 1 /\ Cardinality(t) \in Nat
      <4>1. Cardinality(t) = Cardinality(s) - 1 /\ IsFiniteSet(t)
        BY <2>3, <3>1, FS_RemoveElement
      <4>2. Cardinality(t) \in Nat
        BY <4>1, FS_CardinalityType
      <4> QED  BY <2>3, <4>1, <4>2
    <3> HIDE DEF t
    <3>5. x \in D /\ f[x] \in Int
      BY <2>2, <3>1
    <3>6. Over(s) = At(x) + Over(t)
      <4>1. Quadratic(a, b, c, f[x] * f[x] + h[t], f[x] + g[t], Cardinality(t) + 1)
                = Quadratic(a, b, c, f[x] * f[x], f[x], 1)
                      + Quadratic(a, b, c, h[t], g[t], Cardinality(t))
        <5>1. h[t] \in Int /\ g[t] \in Int /\ Cardinality(t) \in Int
          BY <3>3, <3>4
        <5>2. \A q, z, n, y \in Int :
                  Quadratic(a, b, c, y * y + q, y + z, n + 1)
                      = Quadratic(a, b, c, y * y, y, 1) + Quadratic(a, b, c, q, z, n)
          BY QuadraticAdds
        <5> HIDE DEF x
        <5>3. PICK y \in Int, q \in Int, z \in Int, n \in Int :
                  y = f[x] /\ q = h[t] /\ z = g[t] /\ n = Cardinality(t)
          BY <3>5, <5>1
        <5>4. Quadratic(a, b, c, y * y + q, y + z, n + 1)
                  = Quadratic(a, b, c, y * y, y, 1) + Quadratic(a, b, c, q, z, n)
          BY <5>2
        <5> QED  BY <5>3, <5>4, Zenon
      <4> QED  BY <3>1, <3>4, <4>1, Zenon DEF At
    <3>7. At(x) >= 0
      BY <3>5 DEF At
    <3>8. g[s] \in Int /\ h[s] \in Int
      BY <3>1, <3>3, <3>5
    <3> HIDE DEF Over
    <3>9. Over(s) \in Int /\ Over(s) >= 0 /\ Over(s) >= At(x) /\ Over(s) >= Over(t)
      BY <1>4, <3>3, <3>5, <3>6, <3>7
    <3>10. ASSUME NEW p \in s PROVE Over(s) >= At(p)
      <4>1. CASE p = x
        BY <3>9, <4>1
      <4>2. CASE p # x
        <5>1. p \in t
          BY <4>2 DEF t
        <5>2. Over(t) >= At(p) /\ At(p) \in Int /\ Over(t) \in Int
          BY <1>4, <2>2, <3>3, <5>1
        <5> QED  BY <3>9, <5>2
      <4> QED  BY <4>1, <4>2
    <3> QED  BY <2>2, <3>8, <3>9, <3>10
  <2> QED  BY <2>4, <2>5
<1>6. Good(D)
  BY <1>5
<1> QED  BY <1>1, <1>2, <1>6 DEF At, PartialSums

-----------------------------------------------------------------------------
(* Means and deviations.                                                   *)

(* What a square is, and that it is not negative.                          *)
LEMMA Squares ==
    /\ \A x, y \in Int : x > y /\ y >= 0 => x * x > y * y
    /\ \A x \in Int : x * x >= 0
    /\ \A x, y, z \in Int : x <= y /\ y <= z => y * y <= x * x \/ y * y <= z * z
<1>1. \A x, y \in Int : x > y /\ y >= 0 => x * x > y * y
  <2> SUFFICES ASSUME NEW x \in Int, NEW y \in Int, x > y, y >= 0 PROVE x * x > y * y
    OBVIOUS
  <2> DEFINE d == x - y
  <2>1. d \in Int /\ d > 0 /\ x = y + d
    OBVIOUS
  <2> HIDE DEF d
  <2>2. d * d > 0 /\ y * d >= 0 /\ y * y \in Int
    BY <2>1
  <2>3. (y + d) * (y + d) = y * y + 2 * (y * d) + d * d
    BY <2>1
  <2> QED  BY <2>1, <2>2, <2>3
<1>2. \A x \in Int : x * x >= 0
  OBVIOUS
<1>3. ASSUME NEW x \in Int, NEW y \in Int, NEW z \in Int, x <= y, y <= z
      PROVE  y * y <= x * x \/ y * y <= z * z
  <2>1. CASE y >= 0
    <3>1. z = y \/ z > y
      BY <1>3
    <3> QED  BY <1>1, <1>3, <2>1, <3>1
  <2>2. CASE y < 0
    <3>1. x = y \/ -x > -y
      BY <1>3
    <3>2. (-x) * (-x) = x * x /\ (-y) * (-y) = y * y
      OBVIOUS
    <3>3. -x \in Int /\ -y \in Int /\ -y >= 0
      BY <2>2
    <3> QED  BY <1>1, <3>1, <3>2, <3>3
  <2> QED  BY <2>1, <2>2
<1> QED  BY <1>1, <1>2, <1>3

(* No variance is larger than a quarter of the square of the spread.       *)
LEMMA VarianceWithinSpread ==
    ASSUME NEW n \in Nat, NEW low \in Int, NEW high \in Int, NEW s \in Int, NEW q \in Int,
           (low + high) * s - q - (low * high) * n >= 0
    PROVE  4 * (n * q - s * s) <= (n * (high - low)) * (n * (high - low))
<1> DEFINE u == s - low * n
           w == high * n - s
<1>1. u \in Int /\ w \in Int
  OBVIOUS
<1>2. u * w = n * ((low + high) * s - (low * high) * n) - s * s
  OBVIOUS
<1>3. n * q <= n * ((low + high) * s - (low * high) * n)
  <2> DEFINE m == (low + high) * s - (low * high) * n
  <2>1. m \in Int /\ q <= m
    OBVIOUS
  <2> HIDE DEF m
  <2>2. n * q <= n * m
    BY <2>1
  <2> QED  BY <2>2 DEF m
<1>4. n * q - s * s <= u * w
  <2>1. n * q \in Int /\ s * s \in Int /\ n * ((low + high) * s - (low * high) * n) \in Int
    OBVIOUS
  <2> HIDE DEF u, w
  <2> QED  BY <1>2, <1>3, <2>1
<1>5. u + w = n * (high - low)
  OBVIOUS
<1> HIDE DEF u, w
<1>6. 4 * (u * w) + (u - w) * (u - w) = (u + w) * (u + w)
  BY <1>1
<1>7. (u - w) * (u - w) >= 0 /\ u * w \in Int
  BY <1>1, Squares
<1>8. 4 * (u * w) <= (u + w) * (u + w)
  BY <1>1, <1>6, <1>7
<1>9. n * q - s * s \in Int /\ (u + w) * (u + w) \in Int
  BY <1>1
<1>10. 4 * (n * q - s * s) <= (u + w) * (u + w)
  <2> DEFINE v == n * q - s * s
             t == u * w
             r == (u + w) * (u + w)
  <2>1. v \in Int /\ t \in Int /\ r \in Int /\ v <= t /\ 4 * t <= r
    BY <1>4, <1>7, <1>8, <1>9
  <2> HIDE DEF v, t, r
  <2>2. 4 * v <= r
    BY <2>1
  <2> QED  BY <2>2 DEF v, r
<1> QED  BY <1>5, <1>10

(* What is within three deviations of the mean is within one and a half    *)
(* spreads of the values.                                                  *)
LEMMA NearTheMean ==
    ASSUME NEW n \in Nat, n > 0, NEW low \in Int, NEW high \in Int, low <= high,
           NEW s \in Int, NEW v \in Int, NEW x \in Int,
           s >= low * n, s <= high * n,
           4 * v <= (n * (high - low)) * (n * (high - low)),
           v = 0 => n * x - s = 0,
           v # 0 => (n * x - s) * (n * x - s) < 9 * v
    PROVE  /\ 2 * (low - x) <= 3 * (high - low)
           /\ 2 * (x - high) <= 3 * (high - low)
<1> DEFINE d == n * x - s
           h == n * (high - low)
<1>1. d \in Int /\ h \in Int /\ h >= 0
  OBVIOUS
<1>2. d = 0 \/ d * d < 9 * v
  OBVIOUS
<1>3. 4 * v <= h * h
  OBVIOUS
<1>4. \A y \in Int : y > 3 * h /\ (y = 2 * d \/ y = - (2 * d)) => FALSE
  <2> HIDE DEF d, h
  <2> SUFFICES ASSUME NEW y \in Int, y > 3 * h, y = 2 * d \/ y = - (2 * d) PROVE FALSE
    OBVIOUS
  <2>1. y * y > (3 * h) * (3 * h)
    BY <1>1, Squares
  <2>2. y * y = 4 * (d * d)
    BY <1>1
  <2>3. (3 * h) * (3 * h) = 9 * (h * h)
    BY <1>1
  <2>4. d # 0
    BY <1>1
  <2>5. d * d \in Int /\ h * h \in Int
    BY <1>1
  <2>6. PICK dd \in Int, hh \in Int : dd = d * d /\ hh = h * h
    BY <2>5
  <2>7. 4 * dd > 9 * hh /\ dd < 9 * v /\ 4 * v <= hh
    BY <1>2, <1>3, <2>1, <2>2, <2>3, <2>4, <2>6
  <2> QED  BY <2>6, <2>7
<1>5. ASSUME 2 * (low - x) > 3 * (high - low) PROVE FALSE
  <2> DEFINE e == 2 * (low - x) - 3 * (high - low)
  <2>1. e \in Int /\ e > 0
    BY <1>5
  <2>2. n * e = 2 * (n * low - n * x) - 3 * h
    OBVIOUS
  <2>3. n * e > 0
    <3> HIDE DEF e
    <3> QED  BY <2>1
  <2>4. n * low = low * n
    OBVIOUS
  <2>5. n * low \in Int /\ n * x \in Int
    OBVIOUS
  <2>6. - (2 * d) > 3 * h
    <3> HIDE DEF e, h
    <3>1. PICK nl \in Int, nx \in Int, ne \in Int : nl = n * low /\ nx = n * x /\ ne = n * e
      BY <2>1, <2>5
    <3>2. ne = 2 * (nl - nx) - 3 * h /\ ne > 0 /\ s >= nl /\ d = nx - s
      BY <2>2, <2>3, <2>4, <3>1
    <3> HIDE DEF d
    <3> QED  BY <1>1, <3>2
  <2> HIDE DEF d, h
  <2> QED  BY <1>1, <1>4, <2>6
<1>6. ASSUME 2 * (x - high) > 3 * (high - low) PROVE FALSE
  <2> DEFINE e == 2 * (x - high) - 3 * (high - low)
  <2>1. e \in Int /\ e > 0
    BY <1>6
  <2>2. n * e = 2 * (n * x - n * high) - 3 * h
    OBVIOUS
  <2>3. n * e > 0
    <3> HIDE DEF e
    <3> QED  BY <2>1
  <2>4. n * high = high * n
    OBVIOUS
  <2>5. n * high \in Int /\ n * x \in Int
    OBVIOUS
  <2>6. 2 * d > 3 * h
    <3> HIDE DEF e, h
    <3>1. PICK nh \in Int, nx \in Int, ne \in Int : nh = n * high /\ nx = n * x /\ ne = n * e
      BY <2>1, <2>5
    <3>2. ne = 2 * (nx - nh) - 3 * h /\ ne > 0 /\ s <= nh /\ d = nx - s
      BY <2>2, <2>3, <2>4, <3>1
    <3> HIDE DEF d
    <3> QED  BY <1>1, <3>2
  <2> HIDE DEF d, h
  <2> QED  BY <1>1, <1>4, <2>6
<1> QED  BY <1>5, <1>6

(* m values besides y sum to w: none of all of them is further from their  *)
(* mean than the root of m deviations.                                     *)
LEMMA FarFromTheMean ==
    ASSUME NEW m \in Nat, m > 0, NEW y \in Int, NEW w \in Int, NEW q \in Int,
           (m * m) * q - (2 * m * w) * (w + y) + (w * w) * (m + 1)
               >= (m * y - w) * (m * y - w)
    PROVE  ((m + 1) * y - (w + y)) * ((m + 1) * y - (w + y))
               <= m * ((m + 1) * q - (w + y) * (w + y))
<1>1. (m * m) * q - (2 * m * w) * (w + y) + (w * w) * (m + 1) - (m * y - w) * (m * y - w)
          = m * (m * q - w * w - m * (y * y))
  OBVIOUS
<1> DEFINE e == m * q - w * w - m * (y * y)
<1>2. e \in Int
  OBVIOUS
<1>3. m * e >= 0
  BY <1>1
<1>4. m * ((m + 1) * q - (w + y) * (w + y)) - ((m + 1) * y - (w + y)) * ((m + 1) * y - (w + y))
          = (m + 1) * e
  OBVIOUS
<1> HIDE DEF e
<1>5. e >= 0
  BY <1>2, <1>3
<1>6. (m + 1) * e >= 0
  BY <1>2, <1>5
<1>7. /\ m * ((m + 1) * q - (w + y) * (w + y)) \in Int
      /\ ((m + 1) * y - (w + y)) * ((m + 1) * y - (w + y)) \in Int
  OBVIOUS
<1>8. \A i, j, k \in Int : i - j = k /\ k >= 0 => j <= i
  OBVIOUS
<1> QED  BY <1>2, <1>4, <1>6, <1>7, <1>8

(* The values of a sample.                                                 *)
LEMMA SampleBounds ==
    ASSUME NEW D, IsFiniteSet(D), D # {}, NEW f \in [D -> Int]
    PROVE  LET values == {f[p] : p \in D}
           IN  /\ Min(values) \in Int /\ Max(values) \in Int
               /\ \A p \in D : Min(values) <= f[p] /\ f[p] <= Max(values)
               /\ \E p \in D : f[p] = Min(values)
               /\ \E p \in D : f[p] = Max(values)
<1> DEFINE values == {f[p] : p \in D}
<1>1. values \in SUBSET Int /\ values # {}
  OBVIOUS
<1>2. IsFiniteSet(values)
  <2>1. f \in Surjection(D, values)
    BY DEF Surjection
  <2> QED  BY <2>1, FS_Surjection
<1>3. \A p \in D : f[p] \in values
  OBVIOUS
<1>4. \A y \in values : \E p \in D : f[p] = y
  OBVIOUS
<1> HIDE DEF values
<1>5. /\ Min(values) \in values /\ \A x \in values : Min(values) <= x
      /\ Max(values) \in values /\ \A x \in values : x <= Max(values)
  BY <1>1, <1>2, Bounds
<1> QED  BY <1>1, <1>3, <1>4, <1>5 DEF values

(* What the rule of three deviations lets pass is plausible, for every     *)
(* sample: it lies within one and a half spreads of the smallest and the   *)
(* largest value (history.py:38, where the deviation of the whole sample   *)
(* is taken).                                                              *)
THEOREM InliersArePlausible ==
    ASSUME NEW D, IsFiniteSet(D), D # {}, NEW f \in [D -> Int], NEW x \in Int,
           ~IsOutlier(x, Cardinality(D), SumFunction(f), SumFunction(SquaresOf(f)))
    PROVE  Plausible(x, {f[p] : p \in D})
<1> DEFINE values == {f[p] : p \in D}
           low == Min(values)
           high == Max(values)
           n == Cardinality(D)
           s == SumFunction(f)
           q == SumFunction(SquaresOf(f))
<1>1. /\ low \in Int /\ high \in Int
      /\ \A p \in D : low <= f[p] /\ f[p] <= high /\ f[p] \in Int
  BY SampleBounds
<1>2. n \in Nat /\ n > 0
  BY FS_CardinalityType, FS_EmptySet
<1> DEFINE NowhereNegative(a, b, c) ==
               \A p \in D : Quadratic(a, b, c, f[p] * f[p], f[p], 1) >= 0
<1>12. \A a, b, c \in Int : NowhereNegative(a, b, c) => Quadratic(a, b, c, q, s, n) >= 0
  <2> SUFFICES ASSUME NEW a \in Int, NEW b \in Int, NEW c \in Int,
                      \A p \in D : Quadratic(a, b, c, f[p] * f[p], f[p], 1) >= 0
               PROVE  Quadratic(a, b, c, q, s, n) >= 0
    OBVIOUS
  <2> QED  BY SumOfQuadratic
<1> HIDE DEF low, high, n
<1>3. s \in Int /\ q \in Int
  <2>1. \A p \in D : Quadratic(0, 0, 0, f[p] * f[p], f[p], 1) >= 0
    BY DEF Quadratic
  <2> QED  BY <2>1, SumOfQuadratic
<1>4. s >= low * n
  <2>1. \A p \in D : Quadratic(0, 1, -low, f[p] * f[p], f[p], 1) >= 0
    BY <1>1 DEF Quadratic
  <2>2. NowhereNegative(0, 1, -low) /\ -low \in Int
    BY <1>1, <2>1
  <2> HIDE DEF NowhereNegative, s, q
  <2>3. Quadratic(0, 1, -low, q, s, n) >= 0
    BY <1>12, <2>2
  <2> QED  BY <1>1, <1>2, <1>3, <2>3 DEF Quadratic
<1>5. s <= high * n
  <2>1. \A p \in D : Quadratic(0, -1, high, f[p] * f[p], f[p], 1) >= 0
    BY <1>1 DEF Quadratic
  <2>2. NowhereNegative(0, -1, high)
    BY <2>1
  <2> HIDE DEF NowhereNegative, s, q
  <2>3. Quadratic(0, -1, high, q, s, n) >= 0
    BY <1>1, <1>12, <2>2
  <2> QED  BY <1>1, <1>2, <1>3, <2>3 DEF Quadratic
<1>6. (low + high) * s - q - (low * high) * n >= 0
  <2>1. \A y \in Int : low <= y /\ y <= high =>
            Quadratic(-1, low + high, -(low * high), y * y, y, 1) >= 0
    <3> TAKE y \in Int
    <3>1. Quadratic(-1, low + high, -(low * high), y * y, y, 1) = (y - low) * (high - y)
      BY <1>1 DEF Quadratic
    <3>2. \A i, j \in Nat : i * j >= 0
      OBVIOUS
    <3>3. low <= y /\ y <= high => y - low \in Nat /\ high - y \in Nat
      BY <1>1
    <3> QED  BY <3>1, <3>2, <3>3
  <2>2. low + high \in Int /\ -(low * high) \in Int
    BY <1>1
  <2>3. NowhereNegative(-1, low + high, -(low * high))
    BY <1>1, <2>1
  <2> HIDE DEF NowhereNegative, s, q
  <2>4. Quadratic(-1, low + high, -(low * high), q, s, n) >= 0
    BY <1>12, <2>2, <2>3
  <2> QED  BY <1>1, <1>2, <1>3, <2>4 DEF Quadratic
<1>7. low <= high
  <2>1. PICK p \in D : TRUE
    OBVIOUS
  <2> QED  BY <1>1, <2>1
<1> DEFINE v == n * q - s * s
<1>8. v \in Int
  BY <1>2, <1>3
<1>9. 4 * v <= (n * (high - low)) * (n * (high - low))
  BY <1>1, <1>2, <1>3, <1>6, VarianceWithinSpread
<1>10. /\ v = 0 => n * x - s = 0
       /\ v # 0 => (n * x - s) * (n * x - s) < 9 * v
  <2>1. ~IsOutlier(x, n, s, q)
    BY DEF n
  <2> HIDE DEF s, q
  <2>2. (n * x - s) * (n * x - s) \in Int /\ 9 * v \in Int /\ n * x - s \in Int
    BY <1>2, <1>3
  <2> QED  BY <2>1, <2>2 DEF IsOutlier
<1> HIDE DEF s, q, v
<1>11. /\ 2 * (low - x) <= 3 * (high - low)
       /\ 2 * (x - high) <= 3 * (high - low)
  BY <1>1, <1>2, <1>3, <1>4, <1>5, <1>7, <1>8, <1>9, <1>10, NearTheMean
<1> QED  BY <1>11 DEF Plausible, low, high

(* What the rule flags beside fewer than ten values lies outside all of    *)
(* them, for every sample: a value between two others among so few cannot  *)
(* lie three deviations from their mean (history.py:38).                   *)
THEOREM OutliersLieOutside ==
    ASSUME NEW D, IsFiniteSet(D), Cardinality(D) > 1, Cardinality(D) < 10,
           NEW f \in [D -> Int], NEW x \in Int,
           IsOutlier(x, Cardinality(D), SumFunction(f), SumFunction(SquaresOf(f)))
    PROVE  x \notin Min({f[p] : p \in D})..Max({f[p] : p \in D})
<1> DEFINE values == {f[p] : p \in D}
           n == Cardinality(D)
           s == SumFunction(f)
           q == SumFunction(SquaresOf(f))
           m == n - 1
           v == n * q - s * s
<1>1. n \in Nat /\ m \in Nat /\ m > 0 /\ m < 9 /\ n = m + 1
  BY FS_CardinalityType
<1>2. s \in Int /\ q \in Int
  <2>1. \A p \in D : Quadratic(0, 0, 0, f[p] * f[p], f[p], 1) >= 0
    BY DEF Quadratic
  <2> QED  BY <2>1, SumOfQuadratic
<1>3. IsOutlier(x, n, s, q)
  OBVIOUS
<1>4. ASSUME NEW p \in D
      PROVE  (n * f[p] - s) * (n * f[p] - s) <= m * v
  <2> DEFINE y == f[p]
             w == s - y
             At(z) == Quadratic(m * m, -(2 * m * w), w * w, z * z, z, 1)
  <2>1. y \in Int /\ w \in Int /\ s = w + y
    BY <1>2
  <2>2. \A z \in Int : At(z) = (m * z - w) * (m * z - w)
    <3> HIDE DEF w, m
    <3> QED  BY <1>1, <2>1 DEF Quadratic
  <2>3. \A z \in Int : At(z) >= 0
    <3>1. \A z \in Int : m * z - w \in Int
      BY <1>1, <2>1
    <3> HIDE DEF w, m, At
    <3> QED  BY <2>2, <3>1, Squares
  <2>4. m * m \in Int /\ -(2 * m * w) \in Int /\ w * w \in Int
    <3> HIDE DEF w, m
    <3> QED  BY <1>1, <2>1
  <2>5. \A k \in D : At(f[k]) >= 0
    BY <2>3
  <2>6. Quadratic(m * m, -(2 * m * w), w * w, q, s, n) >= At(y)
    <3>1. \A a, b, c \in Int :
              (\A k \in D : Quadratic(a, b, c, f[k] * f[k], f[k], 1) >= 0) =>
                  Quadratic(a, b, c, q, s, n) >= Quadratic(a, b, c, f[p] * f[p], f[p], 1)
      <4> SUFFICES ASSUME NEW a \in Int, NEW b \in Int, NEW c \in Int,
                          \A k \in D : Quadratic(a, b, c, f[k] * f[k], f[k], 1) >= 0
                   PROVE  Quadratic(a, b, c, q, s, n)
                              >= Quadratic(a, b, c, f[p] * f[p], f[p], 1)
        OBVIOUS
      <4> QED  BY SumOfQuadratic
    <3> HIDE DEF m, w, q, s, n
    <3> QED  BY <2>4, <2>5, <3>1
  <2>7. (m * m) * q - (2 * m * w) * (w + y) + (w * w) * (m + 1) >= (m * y - w) * (m * y - w)
    <3>1. Quadratic(m * m, -(2 * m * w), w * w, q, s, n) >= (m * y - w) * (m * y - w)
      BY <2>1, <2>2, <2>6
    <3>2. Quadratic(m * m, -(2 * m * w), w * w, q, s, n)
              = (m * m) * q - (2 * m * w) * (w + y) + (w * w) * (m + 1)
      <4>1. n = m + 1 /\ s = w + y
        BY <1>1, <2>1
      <4> HIDE DEF n, m, s, w, y, q
      <4>2. Quadratic(m * m, -(2 * m * w), w * w, q, w + y, m + 1)
                = (m * m) * q - (2 * m * w) * (w + y) + (w * w) * (m + 1)
        BY <1>1, <1>2, <2>1 DEF Quadratic
      <4> QED  BY <4>1, <4>2, Zenon
    <3> HIDE DEF n, m, s, w, y, q
    <3> QED  BY <3>1, <3>2
  <2>8. ((m + 1) * y - (w + y)) * ((m + 1) * y - (w + y)) <= m * ((m + 1) * q - (w + y) * (w + y))
    <3> HIDE DEF n, m, s, w, y, q
    <3> QED  BY <1>1, <1>2, <2>1, <2>7, FarFromTheMean
  <2>9. n = m + 1 /\ s = w + y
    BY <1>1, <2>1
  <2>10. (n * y - s) * (n * y - s) <= m * (n * q - s * s)
    <3> HIDE DEF n, m, s, w, y, q
    <3> QED  BY <2>8, <2>9, Zenon
  <2> QED  BY <2>10
<1>5. v \in Int
  BY <1>1, <1>2
<1>6. SUFFICES ASSUME x \in Min(values)..Max(values) PROVE FALSE
  OBVIOUS
<1>7. /\ \E p \in D : f[p] = Min(values)
      /\ \E p \in D : f[p] = Max(values)
      /\ Min(values) \in Int /\ Max(values) \in Int
  <2>1. D # {}
    BY FS_EmptySet
  <2> QED  BY <2>1, SampleBounds
<1>8. PICK low \in D, high \in D : f[low] <= x /\ x <= f[high]
  BY <1>6, <1>7
<1> HIDE DEF values, n, m, s, q
<1> DEFINE d == n * x - s
           dl == n * f[low] - s
           dh == n * f[high] - s
<1>9. d \in Int /\ dl \in Int /\ dh \in Int
  BY <1>1, <1>2
<1>10. dl <= d /\ d <= dh
  <2>1. \A i, j \in Int : i <= j => n * i <= n * j
    BY <1>1
  <2>2. n * f[low] <= n * x /\ n * x <= n * f[high]
    BY <1>8, <2>1
  <2>3. n * f[low] \in Int /\ n * x \in Int /\ n * f[high] \in Int
    BY <1>1
  <2>4. \A i, j, k \in Int : i <= j => i - k <= j - k
    OBVIOUS
  <2> QED  BY <1>2, <2>2, <2>3, <2>4
<1>11. dl * dl <= m * v /\ dh * dh <= m * v
  BY <1>4
<1> HIDE DEF v
<1>12. (v = 0 /\ d # 0) \/ (v # 0 /\ d * d >= 9 * v)
  BY <1>3 DEF IsOutlier, v
<1> HIDE DEF d, dl, dh
<1>13. d * d <= m * v
  <2>1. d * d \in Int /\ dl * dl \in Int /\ dh * dh \in Int /\ m * v \in Int
    BY <1>1, <1>5, <1>9
  <2>2. d * d <= dl * dl \/ d * d <= dh * dh
    BY <1>9, <1>10, Squares
  <2> QED  BY <1>11, <2>1, <2>2
<1>14. d * d >= 0 /\ d * d \in Int
  BY <1>9, Squares
<1>15. v >= 0
  <2>1. m * v >= 0 /\ m * v \in Int
    BY <1>1, <1>5, <1>13, <1>14
  <2> QED  BY <1>1, <1>5, <2>1
<1>16. CASE v = 0
  <2>1. d * d <= 0
    BY <1>1, <1>13, <1>16
  <2>2. d # 0 => d * d > 0
    BY <1>9
  <2> QED  BY <1>12, <1>14, <1>16, <2>1, <2>2
<1>17. CASE v > 0
  <2>1. m * v <= 8 * v
    BY <1>1, <1>5, <1>17
  <2>2. d * d >= 9 * v
    BY <1>12, <1>17
  <2>3. m * v \in Int
    BY <1>1, <1>5
  <2> QED  BY <1>5, <1>13, <1>14, <1>17, <2>1, <2>2, <2>3
<1> QED  BY <1>5, <1>15, <1>16, <1>17

-----------------------------------------------------------------------------
(* What has been checked, and where findings come from.                    *)

BeforeHistory == {"fields", "history"}
BeforeOrder == BeforeHistory \cup {"order"}
BeforeVendor == BeforeOrder \cup {"tax", "account", "key", "alias", "similar", "vendor"}
Stopped == {"unavailable", "error"}

FromInvoice(f) ==
    \E later \in {Today, Today + 1} : f \in CheckInvoice(invoice, Today, later)
FromHistory(f) ==
    \/ f \in CheckDuplicateInvoiceNumber(invoice, history)
    \/ f \in CheckHistory(invoice, history)
    \/ f \in MissingVendorHistory(invoice)
FromOrder(f) == \E t \in past : f \in CheckPurchaseOrder(invoice, t.order)
FromCeiling(f) == \E t \in past : f \in CheckPurchaseOrderCeiling(invoice, t.order, history)
FromRegistry(f) ==
    \E t \in past : \E v \in t.vendors \cup {None} :
        /\ v # None => v.id = resolution.vendor
        /\ f \in CheckVendorRegistry(invoice, resolution, v)

Source(f) ==
    \/ FromInvoice(f)
    \/ pc \notin BeforeHistory /\ (FromHistory(f) \/ FromOrder(f) \/ FromCeiling(f))
    \/ pc \notin BeforeVendor /\ FromRegistry(f)

SourceInv == \A f \in findings : Source(f)

(* The history is one that was there, the order was, and the vendor was.   *)
HistoryRead ==
    \/ VendorKey(invoice) = None /\ history = <<>>
    \/ VendorKey(invoice) # None /\ \E t \in past : history = t.history

VendorRead ==
    \/ resolution = NotResolved
    \/ \E t \in past : \E v \in t.vendors : \E c \in Confidence \ {"unresolved"} :
           resolution = ResolvedTo(v, c)

InvoiceChecked ==
    \E later \in {Today, Today + 1} : CheckInvoice(invoice, Today, later) \subseteq findings
OrderChecked == \E t \in past : CheckPurchaseOrder(invoice, t.order) \subseteq findings
RegistryChecked ==
    CheckVendorRegistration(resolution, invoice) \cup CheckVendorStatus(resolution)
        \subseteq findings
HistoryCompared ==
    /\ VendorKey(invoice) = None => MissingVendorHistory(invoice) \subseteq findings
    /\ VendorKey(invoice) # None => CheckHistory(invoice, history) \subseteq findings
CeilingChecked ==
    \E t \in past : CheckPurchaseOrderCeiling(invoice, t.order, history) \subseteq findings

CheckedInv ==
    /\ VendorRead
    /\ pc # "fields" => InvoiceChecked
    /\ pc \notin BeforeHistory \cup Stopped =>
           /\ HistoryRead
           /\ CheckDuplicateInvoiceNumber(invoice, history) \subseteq findings
    /\ pc \notin BeforeOrder \cup Stopped => OrderChecked
    /\ pc \in {"compare", "ceiling", "done"} => RegistryChecked
    /\ pc \in {"ceiling", "done"} => HistoryCompared
    /\ pc = "ceiling" => VendorKey(invoice) # None
    /\ pc = "done" /\ VendorKey(invoice) # None => CeilingChecked

(* How far the verification is, in either invariant.                       *)
Forward ==
    /\ pc' \in BeforeHistory => pc \in BeforeHistory
    /\ pc' \in BeforeVendor => pc \in BeforeVendor
    /\ pc \notin BeforeHistory => UNCHANGED history
    /\ pc \notin BeforeVendor => UNCHANGED resolution

(* A finding keeps its source while the verification goes on.              *)
LEMMA SourceStays ==
    ASSUME past \subseteq past', UNCHANGED invoice, Forward, NEW f, Source(f)
    PROVE  Source(f)'
<1>1. FromInvoice(f) => FromInvoice(f)'
  BY DEF FromInvoice
<1>2. FromOrder(f) => FromOrder(f)'
  BY DEF FromOrder
<1>3. pc \notin BeforeHistory => /\ FromHistory(f) => FromHistory(f)'
                                 /\ FromCeiling(f) => FromCeiling(f)'
  BY DEF FromHistory, FromCeiling, Forward
<1>4. pc \notin BeforeVendor => (FromRegistry(f) => FromRegistry(f)')
  BY DEF FromRegistry, Forward
<1> QED  BY <1>1, <1>2, <1>3, <1>4 DEF Source, Forward

(* A step that reports what a rule of its own finds.                       *)
LEMMA SourcesStay ==
    ASSUME SourceInv, past \subseteq past', UNCHANGED invoice, Forward,
           NEW found, findings' = findings \cup found, \A f \in found : Source(f)'
    PROVE  SourceInv'
BY SourceStays DEF SourceInv

(* A step that finds nothing.                                              *)
LEMMA SourcesKept ==
    ASSUME SourceInv, past \subseteq past', UNCHANGED <<invoice, findings>>, Forward
    PROVE  SourceInv'
BY SourceStays DEF SourceInv

(* The steps of the resolution report nothing.                             *)
LEMMA Quiet ==
    ASSUME MatchTaxId \/ MatchAccount \/ SkipName \/ MatchKey \/ MatchAlias \/ NamesTried
               \/ MatchSimilar \/ Unavailable
    PROVE  /\ Forward
           /\ UNCHANGED <<invoice, past, findings, history>>
           /\ \/ pc' = "unavailable" /\ UNCHANGED resolution
              \/ /\ pc \notin BeforeOrder \cup Stopped \cup {"vendor", "compare", "ceiling", "done"}
                 /\ pc' \notin BeforeOrder \cup Stopped \cup {"compare", "ceiling", "done"}
<1>1. CASE MatchTaxId \/ MatchAccount \/ MatchSimilar \/ NamesTried
  BY <1>1 DEF MatchTaxId, MatchAccount, MatchSimilar, NamesTried, Match, Resolved, TryNext,
              Forward, BeforeHistory, BeforeVendor, BeforeOrder, Stopped
<1>2. CASE SkipName \/ MatchKey \/ MatchAlias
  BY <1>2 DEF SkipName, MatchKey, MatchAlias, Match, Resolved, TryNext,
              Forward, BeforeHistory, BeforeVendor, BeforeOrder, Stopped
<1>3. CASE Unavailable
  BY <1>3 DEF Unavailable, TryNext, Forward, BeforeHistory, BeforeVendor, BeforeOrder, Stopped
<1> QED  BY <1>1, <1>2, <1>3

(* What the vendor read at the end may be.                                 *)
VendorReadAgain ==
    LET rows == {v \in tables.vendors : v.id = resolution.vendor}
    IN  IF rows = {} THEN None ELSE CHOOSE v \in rows : TRUE

LEMMA VendorReadAgainIs ==
    /\ VendorReadAgain \in tables.vendors \cup {None}
    /\ VendorReadAgain # None => VendorReadAgain.id = resolution.vendor
<1> DEFINE rows == {v \in tables.vendors : v.id = resolution.vendor}
<1>1. CASE rows = {}
  BY <1>1 DEF VendorReadAgain
<1>2. CASE rows # {}
  <2>1. (CHOOSE v \in rows : TRUE) \in rows
    BY <1>2
  <2> QED  BY <1>2, <2>1 DEF VendorReadAgain
<1> QED  BY <1>1, <1>2

(* Every finding has a source, step by step.                               *)
LEMMA NextSource == TypeOK /\ SourceInv /\ [Next]_vars => SourceInv'
<1> SUFFICES ASSUME TypeOK, SourceInv, [Next]_vars PROVE SourceInv'
  OBVIOUS
<1> USE DEF BeforeHistory, BeforeVendor, BeforeOrder
<1>0. tables \in past
  BY DEF TypeOK
<1>1. CASE Write
  BY <1>1, WriteCommits, SourcesKept DEF Forward
<1>2. CASE CheckFields
  <2>1. PICK later \in {Today, Today + 1} :
            /\ findings' = findings \cup CheckInvoice(invoice, Today, later)
            /\ pc' = IF Overflows(invoice) THEN "error" ELSE "history"
    BY <1>2 DEF CheckFields, Report
  <2>2. UNCHANGED <<invoice, past, history, resolution>> /\ Forward
    BY <1>2 DEF CheckFields, Forward
  <2>3. \A f \in CheckInvoice(invoice, Today, later) : Source(f)'
    BY <2>2 DEF Source, FromInvoice
  <2> QED  BY <2>1, <2>2, <2>3, SourcesStay
<1>3. CASE ReadHistory
  <2> DEFINE found == CheckDuplicateInvoiceNumber(invoice, history')
  <2>1. /\ findings' = findings \cup found /\ pc' = "order"
        /\ UNCHANGED <<invoice, past, resolution>>
    BY <1>3 DEF ReadHistory, Report
  <2>2. Forward
    BY <1>3, <2>1 DEF ReadHistory, Forward
  <2>3. \A f \in found : Source(f)'
    BY <2>1 DEF Source, FromHistory
  <2> HIDE DEF found
  <2> QED  BY <2>1, <2>2, <2>3, SourcesStay
<1>4. CASE ReadOrder
  <2> DEFINE found == CheckPurchaseOrder(invoice, tables.order)
  <2>1. /\ findings' = findings \cup found /\ pc' = "tax" /\ pc = "order"
        /\ UNCHANGED <<invoice, past, history, resolution>>
    BY <1>4 DEF ReadOrder, Report
  <2>2. Forward
    BY <2>1 DEF Forward
  <2>3. \A f \in found : Source(f)'
    BY <1>0, <2>1 DEF Source, FromOrder
  <2> HIDE DEF found
  <2> QED  BY <2>1, <2>2, <2>3, SourcesStay
<1>5. CASE ReadVendor
  <2> DEFINE found == CheckVendorRegistry(invoice, resolution, VendorReadAgain)
  <2>1. /\ findings' = findings \cup found /\ pc' = "compare" /\ pc = "vendor"
        /\ UNCHANGED <<invoice, past, history, resolution>>
    BY <1>5 DEF ReadVendor, Report, VendorReadAgain
  <2>2. Forward
    BY <2>1 DEF Forward
  <2>3. PICK v \in tables.vendors \cup {None} :
            (v # None => v.id = resolution.vendor) /\ v = VendorReadAgain
    BY VendorReadAgainIs
  <2>4. \A f \in CheckVendorRegistry(invoice, resolution, v) : FromRegistry(f)'
    BY <1>0, <2>1, <2>3 DEF FromRegistry
  <2>5. \A f \in found : Source(f)'
    BY <2>1, <2>3, <2>4 DEF Source
  <2> HIDE DEF found
  <2> QED  BY <2>1, <2>2, <2>5, SourcesStay
<1>6. CASE CompareHistory
  <2> DEFINE found == IF VendorKey(invoice) = None THEN MissingVendorHistory(invoice)
                      ELSE CheckHistory(invoice, history)
  <2>1. /\ findings' = findings \cup found /\ pc' \in {"ceiling", "done"} /\ pc = "compare"
        /\ UNCHANGED <<invoice, past, history, resolution>>
    BY <1>6 DEF CompareHistory, Report
  <2>2. Forward
    BY <2>1 DEF Forward
  <2>3. \A f \in found : Source(f)'
    BY <2>1 DEF Source, FromHistory
  <2> HIDE DEF found
  <2> QED  BY <2>1, <2>2, <2>3, SourcesStay
<1>7. CASE ReadOrderAgain
  <2> DEFINE found == CheckPurchaseOrderCeiling(invoice, tables.order, history)
  <2>1. /\ findings' = findings \cup found /\ pc' = "done" /\ pc = "ceiling"
        /\ UNCHANGED <<invoice, past, history, resolution>>
    BY <1>7 DEF ReadOrderAgain, Report
  <2>2. Forward
    BY <2>1 DEF Forward
  <2>3. \A f \in found : Source(f)'
    BY <1>0, <2>1 DEF Source, FromCeiling
  <2> HIDE DEF found
  <2> QED  BY <2>1, <2>2, <2>3, SourcesStay
<1>8. CASE MatchTaxId \/ MatchAccount \/ SkipName \/ MatchKey \/ MatchAlias \/ NamesTried
             \/ MatchSimilar \/ Unavailable
  BY <1>8, Quiet, SourcesKept
<1>9. CASE UNCHANGED vars
  <2>1. Forward /\ past \subseteq past' /\ UNCHANGED <<invoice, findings>>
    BY <1>9 DEF vars, Forward
  <2> QED  BY <2>1, SourcesKept
<1> QED  BY <1>1, <1>2, <1>3, <1>4, <1>5, <1>6, <1>7, <1>8, <1>9 DEF Next, Verify

(* What was checked stays checked.                                         *)
LEMMA CheckedStays ==
    ASSUME past \subseteq past', findings \subseteq findings', UNCHANGED invoice
    PROVE  /\ UNCHANGED resolution => (VendorRead => VendorRead')
           /\ InvoiceChecked => InvoiceChecked'
           /\ UNCHANGED history => (HistoryRead => HistoryRead')
           /\ OrderChecked => OrderChecked'
           /\ UNCHANGED resolution => (RegistryChecked => RegistryChecked')
           /\ UNCHANGED history => (HistoryCompared => HistoryCompared')
           /\ UNCHANGED history => (CeilingChecked => CeilingChecked')
           /\ UNCHANGED history =>
                  (CheckDuplicateInvoiceNumber(invoice, history) \subseteq findings =>
                       CheckDuplicateInvoiceNumber(invoice, history)' \subseteq findings')
<1>1. UNCHANGED resolution => (VendorRead => VendorRead')
  BY DEF VendorRead
<1>2. InvoiceChecked => InvoiceChecked'
  BY DEF InvoiceChecked
<1>3. UNCHANGED history => (HistoryRead => HistoryRead')
  BY DEF HistoryRead
<1>4. OrderChecked => OrderChecked'
  BY DEF OrderChecked
<1>5. UNCHANGED resolution => (RegistryChecked => RegistryChecked')
  BY DEF RegistryChecked
<1>6. UNCHANGED history => (HistoryCompared => HistoryCompared')
  BY DEF HistoryCompared
<1>7. UNCHANGED history => (CeilingChecked => CeilingChecked')
  BY DEF CeilingChecked
<1>8. UNCHANGED history =>
          (CheckDuplicateInvoiceNumber(invoice, history) \subseteq findings =>
              CheckDuplicateInvoiceNumber(invoice, history)' \subseteq findings')
  OBVIOUS
<1> QED  BY <1>1, <1>2, <1>3, <1>4, <1>5, <1>6, <1>7, <1>8

(* A vendor is resolved from the registry as it is.                        *)
LEMMA VendorResolved ==
    ASSUME TypeOK, VendorRead,
           MatchTaxId \/ MatchAccount \/ SkipName \/ MatchKey \/ MatchAlias \/ NamesTried
               \/ MatchSimilar \/ Unavailable
    PROVE  VendorRead'
<1>1. tables \in past
  BY DEF TypeOK
<1>2. /\ {"exact_tax", "exact_bank", "exact_alias", "fuzzy_name"} \subseteq Confidence \ {"unresolved"}
  BY DEF Confidence
<1>3. ASSUME NEW v \in tables.vendors, NEW c \in Confidence \ {"unresolved"},
             Resolved(ResolvedTo(v, c))
      PROVE  VendorRead'
  BY <1>1, <1>3 DEF Resolved, VendorRead
<1>4. Resolved(NotResolved) => VendorRead'
  BY DEF Resolved, VendorRead
<1>5. UNCHANGED <<resolution, past>> => VendorRead'
  BY DEF VendorRead
<1>6. \A next : TryNext(next) => VendorRead'
  BY <1>5 DEF TryNext
<1>7. ASSUME NEW matches \in SUBSET tables.vendors, NEW c \in Confidence \ {"unresolved"},
             NEW next, Match(matches, c, next)
      PROVE  VendorRead'
  BY <1>3, <1>4, <1>6, <1>7 DEF Match
<1>8. \A x : /\ FindByTaxId(tables.vendors, x) \subseteq tables.vendors
             /\ FindByAccount(tables.vendors, x) \subseteq tables.vendors
             /\ FindByKey(tables.vendors, x) \subseteq tables.vendors
             /\ FindByAlias(tables.vendors, x) \subseteq tables.vendors
  BY DEF FindByTaxId, FindByAccount, FindByKey, FindByAlias
<1>9. CASE MatchTaxId
  BY <1>2, <1>6, <1>7, <1>8, <1>9 DEF MatchTaxId
<1>10. CASE MatchAccount
  BY <1>2, <1>6, <1>7, <1>8, <1>10 DEF MatchAccount
<1>11. CASE SkipName
  BY <1>5, <1>11 DEF SkipName
<1>12. CASE MatchKey
  BY <1>2, <1>3, <1>6, <1>8, <1>12 DEF MatchKey
<1>13. CASE MatchAlias
  BY <1>2, <1>5, <1>7, <1>8, <1>13 DEF MatchAlias
<1>14. CASE NamesTried
  BY <1>6, <1>14 DEF NamesTried
<1>15. CASE MatchSimilar
  <2>1. MostSimilar(invoice, tables.vendors) \subseteq tables.vendors
    BY DEF MostSimilar, Similar
  <2> QED  BY <1>2, <1>3, <1>4, <1>15, <2>1 DEF MatchSimilar
<1>16. CASE Unavailable
  BY <1>6, <1>16 DEF Unavailable
<1> QED  BY <1>9, <1>10, <1>11, <1>12, <1>13, <1>14, <1>15, <1>16

(* What each rule found in what it read is among the findings, step by     *)
(* step.                                                                   *)
LEMMA NextChecked == TypeOK /\ CheckedInv /\ [Next]_vars => CheckedInv'
<1> SUFFICES ASSUME TypeOK, CheckedInv, [Next]_vars PROVE CheckedInv'
  OBVIOUS
<1> USE DEF BeforeHistory, BeforeOrder, Stopped
<1>0. tables \in past /\ VendorRead
  BY DEF TypeOK, CheckedInv
<1>1. CASE Write \/ UNCHANGED vars
  <2>1. /\ past \subseteq past'
        /\ UNCHANGED <<invoice, pc, history, resolution, findings>>
    BY <1>1, WriteCommits DEF vars
  <2> QED  BY <2>1, CheckedStays DEF CheckedInv
<1>2. CASE CheckFields
  <2>1. PICK later \in {Today, Today + 1} :
            /\ findings' = findings \cup CheckInvoice(invoice, Today, later)
            /\ pc' = IF Overflows(invoice) THEN "error" ELSE "history"
    BY <1>2 DEF CheckFields, Report
  <2>2. UNCHANGED <<invoice, past, resolution>>
    BY <1>2 DEF CheckFields
  <2>3. InvoiceChecked'
    BY <2>1, <2>2 DEF InvoiceChecked
  <2>4. VendorRead'
    BY <1>0, <2>2 DEF VendorRead
  <2> QED  BY <2>1, <2>3, <2>4 DEF CheckedInv
<1>3. CASE ReadHistory
  <2>1. /\ findings' = findings \cup CheckDuplicateInvoiceNumber(invoice, history')
        /\ pc = "history" /\ pc' = "order"
        /\ history' = IF VendorKey(invoice) = None THEN <<>> ELSE tables.history
        /\ UNCHANGED <<invoice, past, resolution>>
    BY <1>3 DEF ReadHistory, Report
  <2>2. HistoryRead'
    BY <1>0, <2>1 DEF HistoryRead
  <2>3. InvoiceChecked' /\ VendorRead'
    BY <1>0, <2>1, CheckedStays DEF CheckedInv
  <2> QED  BY <2>1, <2>2, <2>3 DEF CheckedInv
<1>4. CASE ReadOrder
  <2>1. /\ findings' = findings \cup CheckPurchaseOrder(invoice, tables.order)
        /\ pc = "order" /\ pc' = "tax"
        /\ UNCHANGED <<invoice, past, history, resolution>>
    BY <1>4 DEF ReadOrder, Report
  <2>2. OrderChecked'
    BY <1>0, <2>1 DEF OrderChecked
  <2> QED  BY <2>1, <2>2, CheckedStays DEF CheckedInv
<1>5. CASE ReadVendor
  <2>1. /\ findings' = findings \cup CheckVendorRegistry(invoice, resolution, VendorReadAgain)
        /\ pc = "vendor" /\ pc' = "compare"
        /\ UNCHANGED <<invoice, past, history, resolution>>
    BY <1>5 DEF ReadVendor, Report, VendorReadAgain
  <2>2. RegistryChecked'
    BY <2>1 DEF RegistryChecked, CheckVendorRegistry
  <2> QED  BY <2>1, <2>2, CheckedStays DEF CheckedInv
<1>6. CASE CompareHistory
  <2>1. /\ pc = "compare"
        /\ VendorKey(invoice) = None => /\ pc' = "done"
                                        /\ findings' = findings \cup MissingVendorHistory(invoice)
        /\ VendorKey(invoice) # None => /\ pc' = "ceiling"
                                        /\ findings' = findings \cup CheckHistory(invoice, history)
        /\ UNCHANGED <<invoice, past, history, resolution>>
    BY <1>6 DEF CompareHistory, Report
  <2>2. HistoryCompared'
    BY <2>1 DEF HistoryCompared
  <2>3. findings \subseteq findings'
    BY <2>1
  <2> QED  BY <2>1, <2>2, <2>3, CheckedStays DEF CheckedInv
<1>7. CASE ReadOrderAgain
  <2>1. /\ findings' = findings \cup CheckPurchaseOrderCeiling(invoice, tables.order, history)
        /\ pc = "ceiling" /\ pc' = "done"
        /\ UNCHANGED <<invoice, past, history, resolution>>
    BY <1>7 DEF ReadOrderAgain, Report
  <2>2. CeilingChecked'
    BY <1>0, <2>1 DEF CeilingChecked
  <2> QED  BY <2>1, <2>2, CheckedStays DEF CheckedInv
<1>8. CASE MatchTaxId \/ MatchAccount \/ SkipName \/ MatchKey \/ MatchAlias \/ NamesTried
             \/ MatchSimilar \/ Unavailable
  <2>1. UNCHANGED <<invoice, past, findings, history>>
    BY <1>8, Quiet
  <2>2. VendorRead'
    BY <1>0, <1>8, VendorResolved
  <2>3. CASE pc' = "unavailable" /\ UNCHANGED resolution
    <3>1. pc # "fields" => InvoiceChecked'
      BY <2>1, CheckedStays DEF CheckedInv
    <3>2. pc # "fields"
      BY <1>8 DEF MatchTaxId, MatchAccount, SkipName, MatchKey, MatchAlias, NamesTried,
                  MatchSimilar, Unavailable, Reading
    <3> QED  BY <2>2, <2>3, <3>1, <3>2 DEF CheckedInv
  <2>4. CASE /\ pc \notin BeforeOrder \cup Stopped \cup {"vendor", "compare", "ceiling", "done"}
             /\ pc' \notin BeforeOrder \cup Stopped \cup {"compare", "ceiling", "done"}
    BY <2>1, <2>2, <2>4, CheckedStays DEF CheckedInv
  <2> QED  BY <1>8, <2>3, <2>4, Quiet
<1> QED  BY <1>1, <1>2, <1>3, <1>4, <1>5, <1>6, <1>7, <1>8 DEF Next, Verify

(* The invariant of the verification: whatever was written meanwhile, a    *)
(* finding comes from a rule over rows that were there, and every rule     *)
(* that is over has reported all it found in such rows.                    *)
THEOREM VerificationCorrect == Spec => [](TypeOK /\ SourceInv /\ CheckedInv)
<1>1. Init => SourceInv
  BY DEF Init, SourceInv
<1>2. Init => CheckedInv
  BY DEF Init, CheckedInv, VendorRead, BeforeHistory, BeforeOrder
<1> QED  BY <1>1, <1>2, NextSource, NextChecked, Typed, PTL DEF Spec

-----------------------------------------------------------------------------
(* An invoice in which no rule finds anything.                             *)

LEMMA InvoiceFieldTypes ==
    ASSUME NEW inv \in Invoice
    PROVE  /\ inv.date \in Maybe(Int) /\ inv.due \in Maybe(Int)
           /\ inv.subtotal \in Maybe(Int) /\ inv.tax \in Maybe(Int)
           /\ inv.discount \in Maybe(Int) /\ inv.total \in Maybe(Int)
           /\ inv.lines \in Seq(Line) /\ inv.uncertainties \in Nat
BY DEF Invoice

LEMMA LineTypes ==
    ASSUME NEW inv \in Invoice, NEW i \in DOMAIN inv.lines
    PROVE  /\ inv.lines[i] \in Line
           /\ inv.lines[i].quantity \in Maybe(Int)
           /\ inv.lines[i].price \in Maybe(Int)
           /\ inv.lines[i].amount \in Maybe(Int)
           /\ i \in Nat /\ i > 0
<1>1. inv.lines \in Seq(Line)
  BY InvoiceFieldTypes
<1>2. inv.lines[i] \in Line /\ i \in 1..Len(inv.lines) /\ Len(inv.lines) \in Nat
  BY <1>1
<1> QED  BY <1>2 DEF Line

(* What a rule that finds nothing says of its condition.                   *)
LEMMA NothingFound ==
    /\ \A f : \A c \in BOOLEAN : On(c, f) = {} => ~c
    /\ \A type, field, line, observed, expected :
           /\ observed \in Int /\ expected \in Int
           /\ Discrepancy(type, observed, expected, field, line) = {}
           => observed = expected
<1>1. \A f : \A c \in BOOLEAN : On(c, f) = {} => ~c
  BY DEF On
<1>2. ASSUME NEW type, NEW field, NEW line, NEW observed \in Int, NEW expected \in Int,
             Discrepancy(type, observed, expected, field, line) = {}
      PROVE  observed = expected
  BY <1>2 DEF Discrepancy, On
<1> QED  BY <1>1, <1>2

LEMMA CheckInvoiceParts ==
    ASSUME NEW inv, NEW today, NEW later, CheckInvoice(inv, today, later) = {}
    PROVE  /\ CheckRequiredFields(inv) = {} /\ CheckInvoiceTotal(inv) = {}
           /\ CheckLineItemAmounts(inv) = {} /\ CheckLineItemsSubtotal(inv) = {}
           /\ CheckInvoiceDates(inv) = {}
           /\ CheckNonPositiveInvoiceTotal(inv) = {} /\ CheckNonPositiveLineItems(inv) = {}
           /\ NonPositive("non_positive_subtotal", inv.subtotal, "subtotal") = {}
           /\ CheckNegativeTax(inv) = {} /\ CheckInvalidDiscount(inv) = {}
           /\ CheckDuplicateLineItems(inv) = {}
           /\ CheckInvoiceStaleness(inv, today) = {} /\ CheckFutureInvoiceDate(inv, later) = {}
           /\ CheckPaymentTermsDueDate(inv) = {} /\ CheckExcessiveDueDateWindow(inv) = {}
           /\ CheckDocumentType(inv) = {} /\ CheckExtractionUncertainties(inv) = {}
<1>1. CheckHeaderAmounts(inv) = {}
  BY DEF CheckInvoice
<1>2. /\ NonPositive("non_positive_subtotal", inv.subtotal, "subtotal") = {}
      /\ CheckNegativeTax(inv) = {} /\ CheckInvalidDiscount(inv) = {}
  BY <1>1 DEF CheckHeaderAmounts
<1>3. \A s \in {CheckRequiredFields(inv), CheckInvoiceTotal(inv), CheckLineItemAmounts(inv),
           CheckLineItemsSubtotal(inv), CheckInvoiceDates(inv),
           CheckNonPositiveInvoiceTotal(inv), CheckNonPositiveLineItems(inv),
           CheckHeaderAmounts(inv), CheckDuplicateLineItems(inv),
           CheckInvoiceStaleness(inv, today), CheckFutureInvoiceDate(inv, later),
           CheckPaymentTermsDueDate(inv), CheckExcessiveDueDateWindow(inv),
           CheckDocumentType(inv), CheckExtractionUncertainties(inv)} : s = {}
  BY DEF CheckInvoice
<1> QED  BY <1>2, <1>3

(* check_required_fields finds nothing: the fields are there.              *)
LEMMA RequiredFieldsThere ==
    ASSUME NEW inv \in Invoice, CheckRequiredFields(inv) = {}
    PROVE  inv.number # None /\ inv.date # None /\ inv.currency # None /\ inv.total # None
<1>1. {g \in {"number", "date", "currency", "total"} : inv[g] = None} = {}
  BY DEF CheckRequiredFields
<1> QED  BY <1>1

(* The rules of the amounts find nothing: they are positive and add up.    *)
LEMMA AmountsInOrder ==
    ASSUME NEW inv \in Invoice, inv.total # None,
           CheckInvoiceTotal(inv) = {}, CheckNonPositiveInvoiceTotal(inv) = {},
           NonPositive("non_positive_subtotal", inv.subtotal, "subtotal") = {},
           CheckNegativeTax(inv) = {}, CheckInvalidDiscount(inv) = {}
    PROVE  /\ inv.total > 0
           /\ inv.subtotal # None =>
                  /\ inv.subtotal > 0
                  /\ OrZero(inv.discount) <= inv.subtotal
                  /\ \/ inv.total = inv.subtotal + OrZero(inv.tax) - OrZero(inv.discount)
                     \/ inv.tax = None /\ inv.discount = None
           /\ OrZero(inv.tax) >= 0 /\ OrZero(inv.discount) >= 0
<1>1. /\ inv.total \in Int
      /\ inv.subtotal # None => inv.subtotal \in Int
      /\ inv.tax # None => inv.tax \in Int
      /\ inv.discount # None => inv.discount \in Int
  BY InvoiceFieldTypes DEF Maybe
<1>2. OrZero(inv.tax) \in Int /\ OrZero(inv.discount) \in Int
  BY <1>1 DEF OrZero
<1>3. inv.total > 0
  BY <1>1 DEF CheckNonPositiveInvoiceTotal, NonPositive, On
<1>4. inv.subtotal # None => inv.subtotal > 0
  BY <1>1 DEF NonPositive, On
<1>5. OrZero(inv.tax) >= 0
  BY <1>1 DEF CheckNegativeTax, OrZero, On
<1>6. OrZero(inv.discount) >= 0
  BY <1>1 DEF CheckInvalidDiscount, OrZero, On
<1>7. inv.subtotal # None => OrZero(inv.discount) <= inv.subtotal
  BY <1>1, <1>4 DEF CheckInvalidDiscount, OrZero, On
<1>8. ASSUME inv.subtotal # None, inv.tax # None \/ inv.discount # None
      PROVE  inv.total = inv.subtotal + OrZero(inv.tax) - OrZero(inv.discount)
  <2>1. Discrepancy("invoice_total_mismatch", inv.total,
                    inv.subtotal + OrZero(inv.tax) - OrZero(inv.discount), "total", 0) = {}
    BY <1>8 DEF CheckInvoiceTotal
  <2>2. inv.subtotal + OrZero(inv.tax) - OrZero(inv.discount) \in Int
    BY <1>1, <1>2, <1>8
  <2> QED  BY <1>1, <2>1, <2>2, NothingFound
<1> QED  BY <1>3, <1>4, <1>5, <1>6, <1>7, <1>8

(* The rules of the lines find nothing: each is positive and multiplies.   *)
LEMMA LinesInOrder ==
    ASSUME NEW inv \in Invoice, CheckLineItemAmounts(inv) = {},
           CheckNonPositiveLineItems(inv) = {}, NEW i \in DOMAIN inv.lines
    PROVE  LET l == inv.lines[i]
           IN  /\ \A x \in {l.quantity, l.price, l.amount} : x # None => x > 0
               /\ None \in {l.quantity, l.price, l.amount} \/ l.amount = l.quantity * l.price
<1> DEFINE l == inv.lines[i]
<1>1. /\ l.quantity # None => l.quantity \in Int
      /\ l.price # None => l.price \in Int
      /\ l.amount # None => l.amount \in Int
      /\ l \in Line
  BY LineTypes DEF Maybe
<1>2. {f \in {"quantity", "price", "amount"} :
           inv.lines[i][f] # None /\ inv.lines[i][f] <= 0} = {}
  BY DEF CheckNonPositiveLineItems
<1>3. /\ l.quantity # None => l.quantity > 0
      /\ l.price # None => l.price > 0
      /\ l.amount # None => l.amount > 0
  BY <1>1, <1>2
<1>4. ASSUME l.quantity # None, l.price # None, l.amount # None
      PROVE  l.amount = l.quantity * l.price
  <2>1. Discrepancy("line_item_amount_mismatch", l.amount, l.quantity * l.price, "amount", i) = {}
    BY <1>4 DEF CheckLineItemAmounts
  <2>2. l.quantity * l.price \in Int
    BY <1>1, <1>4
  <2> QED  BY <1>1, <1>4, <2>1, <2>2, NothingFound
<1> QED  BY <1>3, <1>4

(* check_duplicate_line_items finds nothing: no two lines share a key.     *)
LEMMA LinesDiffer ==
    ASSUME NEW inv \in Invoice, CheckDuplicateLineItems(inv) = {},
           NEW i \in DOMAIN inv.lines, NEW j \in DOMAIN inv.lines \ {i}, Keyed(inv.lines[i])
    PROVE  LineKey(inv.lines[j]) # LineKey(inv.lines[i])
<1> DEFINE alike(k) == {n \in 1..k : LineKey(inv.lines[n]) = LineKey(inv.lines[k])}
<1>1. \A k \in DOMAIN inv.lines : Keyed(inv.lines[k]) => ~(Min(alike(k)) < k)
  BY DEF CheckDuplicateLineItems
<1>2. ASSUME NEW a \in DOMAIN inv.lines, NEW b \in DOMAIN inv.lines, a < b,
             LineKey(inv.lines[a]) = LineKey(inv.lines[b]), Keyed(inv.lines[b])
      PROVE  FALSE
  <2>1. a \in Nat /\ a > 0 /\ b \in Nat
    BY LineTypes
  <2>2. a \in alike(b)
    BY <1>2, <2>1
  <2>3. IsFiniteSet(alike(b)) /\ alike(b) \in SUBSET Int
    <3>1. IsFiniteSet(1..b)
      BY <2>1, FS_Interval
    <3>2. alike(b) \in SUBSET (1..b)
      OBVIOUS
    <3> QED  BY <2>1, <3>1, <3>2, FS_Subset
  <2>4. ~(Min(alike(b)) < b)
    BY <1>1, <1>2
  <2> HIDE DEF alike
  <2>5. Min(alike(b)) <= a /\ Min(alike(b)) \in Int
    BY <2>2, <2>3, Bounds
  <2> QED  BY <1>2, <2>1, <2>4, <2>5
<1>3. i < j \/ j < i
  BY LineTypes
<1> QED  BY <1>2, <1>3 DEF Keyed

(* The rule of the subtotal finds nothing: the lines add up.               *)
LEMMA ClearLinesAddUp ==
    ASSUME NEW inv \in Invoice, CheckLineItemsSubtotal(inv) = {}
    PROVE  LinesAddUp(inv)
<1> DEFINE f == [i \in DOMAIN inv.lines |-> inv.lines[i].amount]
<1> SUFFICES ASSUME inv.subtotal # None, inv.lines # <<>>,
                    \A i \in DOMAIN inv.lines : inv.lines[i].amount # None
             PROVE  inv.subtotal = SumFunction(f)
  BY DEF LinesAddUp
<1>1. inv.subtotal \in Int
  BY InvoiceFieldTypes DEF Maybe
<1>2. f \in [DOMAIN inv.lines -> Int]
  <2>1. \A i \in DOMAIN inv.lines : inv.lines[i].amount \in Int
    BY LineTypes DEF Maybe
  <2> QED  BY <2>1
<1>3. IsFiniteSet(DOMAIN inv.lines)
  BY LinesIndexed, FS_Interval
<1>4. SumFunction(f) \in Int
  <2> HIDE DEF f
  <2>1. \A p \in DOMAIN inv.lines : Quadratic(0, 0, 0, f[p] * f[p], f[p], 1) >= 0
    <3> SUFFICES ASSUME NEW p \in DOMAIN inv.lines
                 PROVE  Quadratic(0, 0, 0, f[p] * f[p], f[p], 1) >= 0
      OBVIOUS
    <3>1. f[p] \in Int /\ f[p] * f[p] \in Int
      BY <1>2
    <3> QED  BY <3>1 DEF Quadratic
  <2> QED  BY <1>2, <1>3, <2>1, SumOfQuadratic
<1>5. Discrepancy("line_items_subtotal_mismatch", inv.subtotal, SumFunction(f), "subtotal", 0) = {}
  BY DEF CheckLineItemsSubtotal
<1> QED  BY <1>1, <1>4, <1>5, NothingFound

(* An invoice in which no rule finds anything is in good order.            *)
LEMMA ClearInvoiceInGoodOrder ==
    ASSUME NEW inv \in Invoice, NEW later \in {Today, Today + 1},
           CheckInvoice(inv, Today, later) = {}
    PROVE  InGoodOrder(inv)
<1>1. Today \in Int /\ later \in Int /\ later <= Today + 1
  BY CaseAssumption
<1>2. inv.number # None /\ inv.date # None /\ inv.currency # None /\ inv.total # None
  BY CheckInvoiceParts, RequiredFieldsThere
<1>3. inv.date \in Int /\ (inv.due # None => inv.due \in Int) /\ inv.uncertainties \in Nat
  BY <1>2, InvoiceFieldTypes DEF Maybe
<1>4. /\ inv.total > 0
      /\ inv.subtotal # None =>
             /\ inv.subtotal > 0
             /\ OrZero(inv.discount) <= inv.subtotal
             /\ \/ inv.total = inv.subtotal + OrZero(inv.tax) - OrZero(inv.discount)
                \/ inv.tax = None /\ inv.discount = None
      /\ OrZero(inv.tax) >= 0 /\ OrZero(inv.discount) >= 0
  BY <1>2, CheckInvoiceParts, AmountsInOrder
<1>5. inv.document = "invoice"
  BY CheckInvoiceParts DEF CheckDocumentType, On
<1>6. inv.uncertainties = 0
  <2>1. {Found("extraction_uncertainty", "medium", "uncertainty", i) : i \in 1..inv.uncertainties} = {}
    BY CheckInvoiceParts DEF CheckExtractionUncertainties
  <2>2. 1 \notin 1..inv.uncertainties
    BY <2>1
  <2> QED  BY <1>3, <2>2
<1>7. inv.date <= Today + 1
  <2>1. ~(inv.date > later)
    BY <1>2, CheckInvoiceParts DEF CheckFutureInvoiceDate, On
  <2> QED  BY <1>1, <1>3, <2>1
<1>8. inv.date >= Today - StalenessThreshold \/ inv.order \notin {None, Blank}
  <2>1. ~(inv.date < Today - StalenessThreshold) \/ inv.order \notin {None, Blank}
    BY <1>2, <1>4, CheckInvoiceParts DEF CheckInvoiceStaleness, On
  <2> QED  BY <1>1, <1>3, <2>1 DEF StalenessThreshold
<1>9. ASSUME inv.due # None
      PROVE  /\ inv.due \in inv.date..(inv.date + MaximumCreditWindow)
             /\ HasDueDays(inv) => DueAsAgreed(inv)
  <2>1. Dated(inv)
    BY <1>2, <1>9 DEF Dated
  <2>2. ~(inv.date > inv.due)
    BY <2>1, CheckInvoiceParts DEF CheckInvoiceDates, On
  <2>3. ~(inv.due - inv.date > MaximumCreditWindow)
    BY <2>1, CheckInvoiceParts DEF CheckExcessiveDueDateWindow, On
  <2>4. inv.due \in inv.date..(inv.date + MaximumCreditWindow)
    BY <1>3, <1>9, <2>2, <2>3 DEF MaximumCreditWindow
  <2>5. HasDueDays(inv) => DueAsAgreed(inv)
    BY CheckInvoiceParts, DueDateDecided
  <2> QED  BY <2>4, <2>5
<1>10. ASSUME NEW i \in DOMAIN inv.lines
       PROVE  LET l == inv.lines[i]
              IN  /\ \A x \in {l.quantity, l.price, l.amount} : x # None => x > 0
                  /\ None \in {l.quantity, l.price, l.amount} \/ l.amount = l.quantity * l.price
                  /\ \A j \in DOMAIN inv.lines \ {i} :
                         Keyed(l) => LineKey(inv.lines[j]) # LineKey(l)
  <2>1. CheckLineItemAmounts(inv) = {} /\ CheckNonPositiveLineItems(inv) = {}
        /\ CheckDuplicateLineItems(inv) = {}
    BY CheckInvoiceParts
  <2>2. \A j \in DOMAIN inv.lines \ {i} :
            Keyed(inv.lines[i]) => LineKey(inv.lines[j]) # LineKey(inv.lines[i])
    BY <2>1, LinesDiffer
  <2> QED  BY <2>1, <2>2, LinesInOrder
<1>11. LinesAddUp(inv)
  BY CheckInvoiceParts, ClearLinesAddUp
<1> QED  BY <1>2, <1>4, <1>5, <1>6, <1>7, <1>8, <1>9, <1>10, <1>11 DEF InGoodOrder

-----------------------------------------------------------------------------
(* A history beside which no rule finds anything.                          *)

(* The values a sample takes.                                              *)
ValuesOf(f) == {f[p] : p \in DOMAIN f}

(* A sample beside which nothing is found was large enough, and the value  *)
(* is plausible beside it.                                                 *)
LEMMA SampleClear ==
    ASSUME NEW D, IsFiniteSet(D), NEW f \in [D -> Int], NEW x \in Int, x # None,
           NEW type, NEW metric, NEW line, CheckSample(x, f, type, metric, line) = {}
    PROVE  Cardinality(D) >= 3 /\ D # {} /\ Plausible(x, ValuesOf(f))
<1>1. DOMAIN f = D
  OBVIOUS
<1>2. Cardinality(D) \in Nat
  BY FS_CardinalityType
<1>3. ~(Cardinality(D) < MinimumSample)
  BY <1>1 DEF CheckSample
<1>4. Cardinality(D) >= 3
  BY <1>2, <1>3 DEF MinimumSample
<1>5. D # {}
  BY <1>4, FS_EmptySet
<1>6. On(IsOutlier(x, Cardinality(D), SumFunction(f), SumFunction(SquaresOf(f))),
         Found(type, "high", metric, line)) = {}
  BY <1>1, <1>3 DEF CheckSample, SquaresOf
<1>7. ~IsOutlier(x, Cardinality(D), SumFunction(f), SumFunction(SquaresOf(f)))
  BY <1>6 DEF On
<1>8. Plausible(x, {f[p] : p \in D})
  BY <1>5, <1>7, InliersArePlausible
<1> QED  BY <1>1, <1>4, <1>5, <1>8 DEF ValuesOf

LEMMA HistoryTypes ==
    ASSUME NEW h \in Seq(HistoricalInvoice), NEW i \in DOMAIN h
    PROVE  /\ h[i].total \in Maybe(Int)
           /\ h[i].lines \in Seq(Line)
           /\ \A j \in DOMAIN h[i].lines : /\ h[i].lines[j].price \in Maybe(Int)
                                           /\ h[i].lines[j].quantity \in Maybe(Int)
<1>1. h[i] \in HistoricalInvoice
  OBVIOUS
<1>2. h[i].total \in Maybe(Int) /\ h[i].lines \in Seq(Line)
  BY <1>1 DEF HistoricalInvoice
<1>3. \A j \in DOMAIN h[i].lines : h[i].lines[j] \in Line
  BY <1>2
<1> QED  BY <1>2, <1>3 DEF Line

(* The lines of the history to compare with are finitely many.             *)
LEMMA ComparableFinite ==
    ASSUME NEW inv, NEW h \in Seq(HistoricalInvoice)
    PROVE  /\ SameCurrency(inv, h) \subseteq DOMAIN h
           /\ IsFiniteSet(SameCurrency(inv, h))
           /\ Cardinality(SameCurrency(inv, h)) <= Len(h)
           /\ \A l : /\ \A p \in LinesLike(l, inv, h) :
                            p[1] \in DOMAIN h /\ p[2] \in DOMAIN h[p[1]].lines
                     /\ IsFiniteSet(LinesLike(l, inv, h))
<1>1. DOMAIN h = 1..Len(h) /\ Len(h) \in Nat
  OBVIOUS
<1>2. IsFiniteSet(DOMAIN h) /\ Cardinality(DOMAIN h) = Len(h)
  BY <1>1, FS_Interval
<1>3. SameCurrency(inv, h) \subseteq DOMAIN h
  BY DEF SameCurrency
<1>4. IsFiniteSet(SameCurrency(inv, h)) /\ Cardinality(SameCurrency(inv, h)) <= Len(h)
  BY <1>2, <1>3, FS_Subset
<1>5. \A i \in DOMAIN h : DOMAIN h[i].lines = 1..Len(h[i].lines) /\ Len(h[i].lines) \in Nat
  BY HistoryTypes
<1>6. ASSUME NEW l
      PROVE  /\ \A p \in LinesLike(l, inv, h) :
                    p[1] \in DOMAIN h /\ p[2] \in DOMAIN h[p[1]].lines
             /\ IsFiniteSet(LinesLike(l, inv, h))
  <2> DEFINE of(i) == {<<i, j>> : j \in {k \in DOMAIN h[i].lines : LineKey(h[i].lines[k]) = LineKey(l)}}
             all == {of(i) : i \in SameCurrency(inv, h)}
  <2>1. LinesLike(l, inv, h) = UNION all
    BY DEF LinesLike
  <2>2. ASSUME NEW i \in SameCurrency(inv, h)
        PROVE  /\ IsFiniteSet(of(i))
               /\ \A p \in of(i) : p[1] \in DOMAIN h /\ p[2] \in DOMAIN h[p[1]].lines
    <3>1. i \in DOMAIN h
      BY <1>3
    <3> DEFINE at == {k \in DOMAIN h[i].lines : LineKey(h[i].lines[k]) = LineKey(l)}
    <3>2. at \subseteq 1..Len(h[i].lines) /\ at \subseteq Nat /\ at \subseteq DOMAIN h[i].lines
      BY <1>5, <3>1
    <3>3. IsFiniteSet(1..Len(h[i].lines))
      BY <1>5, <3>1, FS_Interval
    <3>4. IsFiniteSet(at)
      BY <3>2, <3>3, FS_Subset
    <3> HIDE DEF at
    <3>5. [j \in at |-> <<i, j>>] \in Surjection(at, {<<i, j>> : j \in at})
      BY DEF Surjection
    <3>6. IsFiniteSet({<<i, j>> : j \in at})
      BY <3>4, <3>5, FS_Surjection
    <3>7. \A p \in {<<i, j>> : j \in at} : p[1] \in DOMAIN h /\ p[2] \in DOMAIN h[p[1]].lines
      BY <3>1, <3>2
    <3> QED  BY <3>6, <3>7 DEF at
  <2> HIDE DEF of
  <2>3. [i \in SameCurrency(inv, h) |-> of(i)] \in Surjection(SameCurrency(inv, h), all)
    BY DEF Surjection
  <2>4. IsFiniteSet(all)
    BY <1>4, <2>3, FS_Surjection
  <2>5. \A s \in all : IsFiniteSet(s)
    BY <2>2
  <2>6. IsFiniteSet(UNION all)
    BY <2>4, <2>5, FS_UNION
  <2>7. \A p \in UNION all : p[1] \in DOMAIN h /\ p[2] \in DOMAIN h[p[1]].lines
    BY <2>2
  <2> HIDE DEF all
  <2> QED  BY <2>1, <2>6, <2>7
<1> QED  BY <1>3, <1>4, <1>6

(* The values of a sample of lines.                                        *)
PricesLike(l, inv, h) ==
    [p \in {q \in LinesLike(l, inv, h) : h[q[1]].lines[q[2]].price # None} |->
        h[p[1]].lines[p[2]].price]

(* The prices of the lines to compare with, as a sample.                   *)
LEMMA PriceSample ==
    ASSUME NEW inv, NEW h \in Seq(HistoricalInvoice), NEW l
    PROVE  LET like == LinesLike(l, inv, h)
               f == PricesLike(l, inv, h)
           IN  /\ IsFiniteSet(DOMAIN f) /\ f \in [DOMAIN f -> Int]
               /\ DOMAIN f \subseteq like
               /\ ValuesOf(f) = {h[p[1]].lines[p[2]].price : p \in like} \ {None}
<1> DEFINE like == LinesLike(l, inv, h)
           known == {q \in like : h[q[1]].lines[q[2]].price # None}
           f == PricesLike(l, inv, h)
<1>1. DOMAIN f = known /\ \A p \in known : f[p] = h[p[1]].lines[p[2]].price
  BY DEF PricesLike
<1>2. f = [p \in known |-> f[p]]
  BY DEF PricesLike
<1>3. IsFiniteSet(like) /\ known \subseteq like
  BY ComparableFinite
<1>4. IsFiniteSet(known)
  BY <1>3, FS_Subset
<1>5. ASSUME NEW p \in known PROVE h[p[1]].lines[p[2]].price \in Int
  <2>1. p[1] \in DOMAIN h /\ p[2] \in DOMAIN h[p[1]].lines
    BY ComparableFinite
  <2>2. h[p[1]].lines[p[2]].price \in Maybe(Int)
    BY <2>1, HistoryTypes
  <2> QED  BY <2>2 DEF Maybe
<1>6. {h[p[1]].lines[p[2]].price : p \in known} = {h[p[1]].lines[p[2]].price : p \in like} \ {None}
  OBVIOUS
<1> HIDE DEF f, like
<1>7. f \in [known -> Int]
  BY <1>1, <1>2, <1>5
<1>8. ValuesOf(f) = {h[p[1]].lines[p[2]].price : p \in known}
  BY <1>1 DEF ValuesOf
<1> HIDE DEF known
<1> QED  BY <1>1, <1>3, <1>4, <1>6, <1>7, <1>8 DEF f, like

TotalsOf(inv, h) == [i \in Totals(inv, h) |-> h[i].total]

(* The totals to compare with, as a sample.                                *)
LEMMA TotalSample ==
    ASSUME NEW inv, NEW h \in Seq(HistoricalInvoice)
    PROVE  /\ IsFiniteSet(Totals(inv, h)) /\ Cardinality(Totals(inv, h)) <= Len(h)
           /\ TotalsOf(inv, h) \in [Totals(inv, h) -> Int]
           /\ ValuesOf(TotalsOf(inv, h)) = {h[i].total : i \in Totals(inv, h)}
<1>1. /\ SameCurrency(inv, h) \subseteq DOMAIN h
      /\ IsFiniteSet(SameCurrency(inv, h))
      /\ Cardinality(SameCurrency(inv, h)) <= Len(h)
  BY ComparableFinite
<1>2. Totals(inv, h) \subseteq SameCurrency(inv, h)
  BY DEF Totals
<1>3. /\ IsFiniteSet(Totals(inv, h))
      /\ Cardinality(Totals(inv, h)) <= Cardinality(SameCurrency(inv, h))
  BY <1>1, <1>2, FS_Subset
<1>4. Cardinality(Totals(inv, h)) <= Len(h)
  <2>1. Cardinality(Totals(inv, h)) \in Nat /\ Cardinality(SameCurrency(inv, h)) \in Nat
        /\ Len(h) \in Nat
    BY <1>1, <1>3, FS_CardinalityType
  <2> QED  BY <1>1, <1>3, <2>1
<1>5. ASSUME NEW i \in Totals(inv, h) PROVE h[i].total \in Int
  <2>1. h[i].total # None /\ h[i].total \in Maybe(Int)
    BY <1>1, <1>2, HistoryTypes DEF Totals
  <2> QED  BY <2>1 DEF Maybe
<1> QED  BY <1>3, <1>4, <1>5 DEF TotalsOf, ValuesOf

LEMMA CheckHistoryParts ==
    ASSUME NEW inv, NEW h, CheckHistory(inv, h) = {}
    PROVE  /\ CheckHistoricalTotal(inv, h) = {}
           /\ CheckLineItemOccurrence(inv, h) = {}
           /\ CheckLineItemStatistics(inv, h) = {}
BY DEF CheckHistory

(* check_historical_total finds nothing: the total is plausible.           *)
LEMMA ClearTotalIsUsual ==
    ASSUME NEW inv \in Invoice, NEW h \in Seq(HistoricalInvoice), inv.total # None,
           CheckHistoricalTotal(inv, h) = {}
    PROVE  /\ Cardinality(Totals(inv, h)) >= 3
           /\ Plausible(inv.total, {h[i].total : i \in Totals(inv, h)})
<1>1. CheckSample(inv.total, TotalsOf(inv, h), "historical_total_outlier", "invoice_total", 0) = {}
  BY DEF CheckHistoricalTotal, TotalsOf, Totals
<1>2. inv.total \in Int
  BY InvoiceFieldTypes DEF Maybe
<1>3. /\ Cardinality(Totals(inv, h)) >= 3
      /\ Plausible(inv.total, ValuesOf(TotalsOf(inv, h)))
  BY <1>1, <1>2, TotalSample, SampleClear
<1> QED  BY <1>3, TotalSample

QuantitiesLike(l, inv, h) ==
    [p \in {q \in LinesLike(l, inv, h) : h[q[1]].lines[q[2]].quantity # None} |->
        h[p[1]].lines[p[2]].quantity]

StatisticsOf(i, inv, h) ==
    IF ~Keyed(inv.lines[i]) THEN {}
    ELSE CheckSample(inv.lines[i].price, PricesLike(inv.lines[i], inv, h),
                     "historical_line_item_price_outlier", "line_item_unit_price", i)
             \cup CheckSample(inv.lines[i].quantity, QuantitiesLike(inv.lines[i], inv, h),
                              "historical_line_item_quantity_outlier",
                              "line_item_quantity", i)

(* What CheckLineItemStatistics says, line by line.                        *)
LEMMA StatisticsOfLines ==
    ASSUME NEW inv, NEW h
    PROVE  CheckLineItemStatistics(inv, h) = UNION {StatisticsOf(i, inv, h) : i \in DOMAIN inv.lines}
BY DEF CheckLineItemStatistics, StatisticsOf, PricesLike, QuantitiesLike

(* The rules of the history find nothing about a line: it was seen before, *)
(* and its price is plausible.                                             *)
LEMMA ClearLinesAreUsual ==
    ASSUME NEW inv \in Invoice, NEW h \in Seq(HistoricalInvoice),
           CheckLineItemOccurrence(inv, h) = {}, CheckLineItemStatistics(inv, h) = {},
           NEW i \in DOMAIN inv.lines, Keyed(inv.lines[i])
    PROVE  LET like == LinesLike(inv.lines[i], inv, h)
               prices == {h[p[1]].lines[p[2]].price : p \in like} \ {None}
           IN  /\ like # {}
               /\ inv.lines[i].price # None =>
                      prices # {} /\ Plausible(inv.lines[i].price, prices)
<1> DEFINE like == LinesLike(inv.lines[i], inv, h)
           prices == {h[p[1]].lines[p[2]].price : p \in like} \ {None}
           f == PricesLike(inv.lines[i], inv, h)
<1>1. like # {}
  <2> SUFFICES ASSUME like = {} PROVE FALSE
    OBVIOUS
  <2>1. {p[1] : p \in like} = {}
    OBVIOUS
  <2>2. Cardinality({p[1] : p \in like}) = 0
    BY <2>1, FS_EmptySet
  <2>3. CASE Cardinality(SameCurrency(inv, h)) < MinimumSample
    <3>1. Insufficient("line_item_occurrence", i) \in CheckLineItemOccurrence(inv, h)
      BY <2>3 DEF CheckLineItemOccurrence
    <3> QED  BY <3>1
  <2>4. CASE ~(Cardinality(SameCurrency(inv, h)) < MinimumSample)
    <3>1. Found("new_line_item", "medium", "line_item", i) \in CheckLineItemOccurrence(inv, h)
      BY <2>2, <2>4 DEF CheckLineItemOccurrence
    <3> QED  BY <3>1
  <2> QED  BY <2>3, <2>4
<1>2. ASSUME inv.lines[i].price # None
      PROVE  prices # {} /\ Plausible(inv.lines[i].price, prices)
  <2>1. CheckSample(inv.lines[i].price, f, "historical_line_item_price_outlier",
                    "line_item_unit_price", i) = {}
    <3>1. StatisticsOf(i, inv, h) = {}
      BY StatisticsOfLines
    <3> QED  BY <3>1 DEF StatisticsOf
  <2>2. inv.lines[i].price \in Int
    BY <1>2, LineTypes DEF Maybe
  <2>3. IsFiniteSet(DOMAIN f) /\ f \in [DOMAIN f -> Int] /\ ValuesOf(f) = prices
    BY PriceSample
  <2> HIDE DEF f, prices
  <2>4. DOMAIN f # {} /\ Plausible(inv.lines[i].price, ValuesOf(f))
    BY <1>2, <2>1, <2>2, <2>3, SampleClear
  <2>5. ValuesOf(f) # {}
    BY <2>4 DEF ValuesOf
  <2> QED  BY <2>3, <2>4, <2>5
<1> QED  BY <1>1, <1>2

(* A history beside which no rule finds anything makes the invoice         *)
(* familiar.                                                               *)
LEMMA ClearHistoryIsFamiliar ==
    ASSUME NEW inv \in Invoice, NEW h \in Seq(HistoricalInvoice),
           VendorKey(inv) # None, inv.total # None,
           CheckDuplicateInvoiceNumber(inv, h) = {}, CheckHistory(inv, h) = {}
    PROVE  Familiar(inv, h)
<1>1. Canonical(inv.number) # None =>
          \A i \in DOMAIN h : Canonical(h[i].number) # Canonical(inv.number)
  BY DEF CheckDuplicateInvoiceNumber, On
<1>2. /\ Cardinality(Totals(inv, h)) >= 3
      /\ Plausible(inv.total, {h[i].total : i \in Totals(inv, h)})
  BY CheckHistoryParts, ClearTotalIsUsual
<1>3. ASSUME NEW i \in DOMAIN inv.lines, Keyed(inv.lines[i])
      PROVE  LET like == LinesLike(inv.lines[i], inv, h)
                 prices == {h[p[1]].lines[p[2]].price : p \in like} \ {None}
             IN  /\ like # {}
                 /\ inv.lines[i].price # None =>
                        prices # {} /\ Plausible(inv.lines[i].price, prices)
  BY <1>3, CheckHistoryParts, ClearLinesAreUsual
<1> QED  BY <1>1, <1>2, <1>3 DEF Familiar

(* A verdict of clear is earned: for every invoice, every history and      *)
(* every registry, whatever administrators write meanwhile.                *)
THEOREM ClearVerdictsAreEarned == Spec => []ClearIsEarned
<1>1. TypeOK /\ CheckedInv => ClearIsEarned
  <2> SUFFICES ASSUME TypeOK, CheckedInv, pc = "done", findings = {}
               PROVE  /\ InGoodOrder(invoice)
                      /\ \E t \in past : Familiar(invoice, t.history)
                      /\ \E t \in past : \E v \in t.vendors :
                             v.id = resolution.vendor /\ v.status = "active"
    BY DEF ClearIsEarned
  <2>1. invoice \in Invoice
    BY DEF TypeOK
  <2>2. /\ InvoiceChecked /\ HistoryRead /\ RegistryChecked /\ HistoryCompared /\ VendorRead
        /\ CheckDuplicateInvoiceNumber(invoice, history) = {}
    BY DEF CheckedInv, BeforeHistory, Stopped
  <2>3. InGoodOrder(invoice)
    <3>1. PICK later \in {Today, Today + 1} : CheckInvoice(invoice, Today, later) = {}
      BY <2>2 DEF InvoiceChecked
    <3> QED  BY <2>1, <3>1, ClearInvoiceInGoodOrder
  <2>4. invoice.total # None
    BY <2>3 DEF InGoodOrder
  <2>5. VendorKey(invoice) # None
    <3>1. VendorKey(invoice) = None => MissingVendorHistory(invoice) = {}
      BY <2>2 DEF HistoryCompared
    <3> QED  BY <2>4, <3>1 DEF MissingVendorHistory, On
  <2>6. PICK t \in past : history = t.history
    BY <2>2, <2>5 DEF HistoryRead
  <2>7. t.history \in Seq(HistoricalInvoice)
    BY <2>6 DEF TypeOK
  <2>8. CheckHistory(invoice, history) = {}
    BY <2>2, <2>5 DEF HistoryCompared
  <2>9. Familiar(invoice, t.history)
    BY <2>1, <2>2, <2>4, <2>5, <2>6, <2>7, <2>8, ClearHistoryIsFamiliar
  <2>10. resolution.confidence # "unresolved"
    <3>1. invoice.name # None \/ invoice.identifier # None
      BY <2>5 DEF VendorKey
    <3>2. CheckVendorRegistration(resolution, invoice) = {}
      BY <2>2 DEF RegistryChecked
    <3> QED  BY <3>1, <3>2 DEF CheckVendorRegistration, On
  <2>11. PICK u \in past : \E v \in u.vendors : \E c \in Confidence \ {"unresolved"} :
             resolution = ResolvedTo(v, c)
    BY <2>2, <2>10 DEF VendorRead, NotResolved
  <2>12. PICK v \in u.vendors : \E c \in Confidence : resolution = ResolvedTo(v, c)
    BY <2>11
  <2>13. resolution.vendor = v.id /\ resolution.status = v.status
    BY <2>12 DEF ResolvedTo
  <2>14. v.id \in VendorIds /\ v.status \in VendorStatus
    BY DEF TypeOK, Tables, Vendor
  <2>15. CheckVendorStatus(resolution) = {}
    BY <2>2 DEF RegistryChecked
  <2>16. v.status = "active"
    BY <2>13, <2>14, <2>15, RegistryAssumption DEF CheckVendorStatus, On, VendorStatus
  <2> QED  BY <2>3, <2>9, <2>13, <2>16
<1> QED  BY <1>1, VerificationCorrect, PTL

-----------------------------------------------------------------------------
(* Which rule a finding comes from can be told by its type.                *)

LEMMA OnIs == \A c, f, g : g \in On(c, f) => c /\ g = f
BY DEF On

LEMMA FoundType == \A type, severity, field, line :
                       Found(type, severity, field, line).type = type
BY DEF Found

(* A conditional finding is of its type, and its condition holds.          *)
LEMMA FoundOn == \A c, type, severity, field, line, f :
                     f \in On(c, Found(type, severity, field, line)) => c /\ f.type = type
BY FoundType DEF On

LEMMA StalenessType ==
    \A inv, today : \A f \in CheckInvoiceStaleness(inv, today) : f.type = "stale_invoice"
BY FoundType DEF CheckInvoiceStaleness, On

LEMMA RegistrationType ==
    \A res, inv : \A f \in CheckVendorRegistration(res, inv) : f.type = "unregistered_vendor"
BY FoundType DEF CheckVendorRegistration, On

LEMMA DuplicateLineType ==
    \A inv : \A f \in CheckDuplicateLineItems(inv) : f.type = "duplicate_line_item"
<1>1. \A inv : \A f \in CheckDuplicateLineItems(inv) :
          \E severity, i : f = Found("duplicate_line_item", severity, "line_item", i)
  BY Zenon DEF CheckDuplicateLineItems
<1> QED  BY <1>1, FoundType

LEMMA OrderLineFinding ==
    ASSUME NEW inv, NEW po, NEW f \in CheckOrderLines(inv, po)
    PROVE  \E field, i : f = Mismatch(field, i)
BY DEF CheckOrderLines, On

(* What CheckLineItemOccurrence says of one line.                          *)
OccurrenceOf(i, inv, h) ==
    LET n == Cardinality({p[1] : p \in LinesLike(inv.lines[i], inv, h)})
    IN  IF ~Keyed(inv.lines[i]) THEN {}
        ELSE IF Cardinality(SameCurrency(inv, h)) < MinimumSample
             THEN {Insufficient("line_item_occurrence", i)}
        ELSE IF n = 0 THEN {Found("new_line_item", "medium", "line_item", i)}
        ELSE On(5 * n <= Cardinality(SameCurrency(inv, h)),
                Found("rare_line_item", "low", "line_item", i))

LEMMA OccurrenceTypes ==
    ASSUME NEW inv, NEW h, NEW f \in CheckLineItemOccurrence(inv, h)
    PROVE  f.type \in {"insufficient_history", "new_line_item", "rare_line_item"}
<1>1. CheckLineItemOccurrence(inv, h) = UNION {OccurrenceOf(i, inv, h) : i \in DOMAIN inv.lines}
  BY DEF CheckLineItemOccurrence, OccurrenceOf
<1>2. PICK i \in DOMAIN inv.lines : f \in OccurrenceOf(i, inv, h)
  BY <1>1
<1> QED  BY <1>2, FoundType DEF OccurrenceOf, Insufficient, On

LEMMA DiscrepancyIs ==
    ASSUME NEW type, NEW observed, NEW expected, NEW field, NEW line,
           NEW f \in Discrepancy(type, observed, expected, field, line)
    PROVE  f.type \in {"rounding_discrepancy", type}
BY DEF Discrepancy, On, Found

(* The types of what the rules of the invoice alone find, but for the one  *)
(* of the due date.                                                        *)
InvoiceTypes ==
    {"missing_required_field", "rounding_discrepancy", "invoice_total_mismatch",
     "line_item_amount_mismatch", "line_items_subtotal_mismatch",
     "invoice_date_after_due_date", "non_positive_invoice_total", "non_positive_line_item",
     "non_positive_subtotal", "negative_tax", "invalid_discount", "duplicate_line_item",
     "stale_invoice", "future_invoice_date", "excessive_due_date_window",
     "unsupported_document_type", "extraction_uncertainty"}

(* The rules of the invoice alone.                                         *)
LEMMA InvoiceFindingsAre ==
    ASSUME NEW inv, NEW today, NEW later, NEW f \in CheckInvoice(inv, today, later)
    PROVE  \/ f \in CheckPaymentTermsDueDate(inv)
           \/ f.type \in InvoiceTypes
<1> USE DEF InvoiceTypes
<1>1. f \in CheckRequiredFields(inv) => f.type \in InvoiceTypes
  BY DEF CheckRequiredFields, Found
<1>2. f \in CheckInvoiceTotal(inv) => f.type \in InvoiceTypes
  BY DiscrepancyIs DEF CheckInvoiceTotal
<1>3. f \in CheckLineItemAmounts(inv) => f.type \in InvoiceTypes
  BY DiscrepancyIs DEF CheckLineItemAmounts
<1>4. f \in CheckLineItemsSubtotal(inv) => f.type \in InvoiceTypes
  BY DiscrepancyIs DEF CheckLineItemsSubtotal
<1>5. f \in CheckInvoiceDates(inv) => f.type \in InvoiceTypes
  BY OnIs DEF CheckInvoiceDates, Found
<1>6. f \in CheckNonPositiveInvoiceTotal(inv) => f.type \in InvoiceTypes
  BY OnIs DEF CheckNonPositiveInvoiceTotal, NonPositive, Found
<1>7. f \in CheckNonPositiveLineItems(inv) => f.type \in InvoiceTypes
  BY DEF CheckNonPositiveLineItems, Found
<1>8. f \in CheckHeaderAmounts(inv) => f.type \in InvoiceTypes
  <2>1. f \in NonPositive("non_positive_subtotal", inv.subtotal, "subtotal") =>
            f.type = "non_positive_subtotal"
    BY FoundOn, Zenon DEF NonPositive
  <2>2. f \in CheckNegativeTax(inv) => f.type = "negative_tax"
    BY FoundOn, Zenon DEF CheckNegativeTax
  <2>3. f \in CheckInvalidDiscount(inv) => f.type = "invalid_discount"
    BY FoundOn, Zenon DEF CheckInvalidDiscount
  <2> QED  BY <2>1, <2>2, <2>3 DEF CheckHeaderAmounts
<1>9. f \in CheckDuplicateLineItems(inv) => f.type \in InvoiceTypes
  BY DuplicateLineType
<1>10. f \in CheckInvoiceStaleness(inv, today) => f.type \in InvoiceTypes
  BY StalenessType
<1>11. f \in CheckFutureInvoiceDate(inv, later) => f.type \in InvoiceTypes
  BY OnIs DEF CheckFutureInvoiceDate, Found
<1>12. f \in CheckExcessiveDueDateWindow(inv) => f.type \in InvoiceTypes
  BY OnIs DEF CheckExcessiveDueDateWindow, Found
<1>13. f \in CheckDocumentType(inv) => f.type \in InvoiceTypes
  BY OnIs DEF CheckDocumentType, Found
<1>14. f \in CheckExtractionUncertainties(inv) => f.type \in InvoiceTypes
  BY DEF CheckExtractionUncertainties, Found
<1> HIDE DEF InvoiceTypes
<1> QED  BY <1>1, <1>2, <1>3, <1>4, <1>5, <1>6, <1>7, <1>8, <1>9, <1>10, <1>11, <1>12,
            <1>13, <1>14 DEF CheckInvoice

(* The rules of the purchase order.                                        *)
LEMMA OrderFindingsAre ==
    ASSUME NEW inv, NEW po, NEW h,
           NEW f \in CheckPurchaseOrder(inv, po) \cup CheckPurchaseOrderCeiling(inv, po, h)
    PROVE  f.type = "purchase_order_mismatch"
<1>1. \A field, line : Mismatch(field, line).type = "purchase_order_mismatch"
  BY DEF Mismatch, Found
<1>2. ASSUME NEW g \in CheckOrderLines(inv, po) PROVE g.type = "purchase_order_mismatch"
  BY <1>1, OrderLineFinding
<1>3. ASSUME NEW g \in CheckPurchaseOrder(inv, po) PROVE g.type = "purchase_order_mismatch"
  <2>1. \/ g \in CheckOrderLines(inv, po)
        \/ \E field, i : g = Mismatch(field, i)
    BY DEF CheckPurchaseOrder, On
  <2> QED  BY <1>1, <1>2, <2>1
<1>4. ASSUME NEW g \in CheckPurchaseOrderCeiling(inv, po, h)
      PROVE  g.type = "purchase_order_mismatch"
  <2>1. g = Mismatch("purchase_order_billed_total", 0)
    BY DEF CheckPurchaseOrderCeiling, On
  <2> QED  BY <1>1, <2>1
<1> QED  BY <1>3, <1>4

(* The rules of the registry.                                              *)
LEMMA RegistryFindingsAre ==
    ASSUME NEW inv, NEW res, NEW v, NEW f \in CheckVendorRegistry(inv, res, v)
    PROVE  \/ f \in CheckVendorBankAccount(inv, v)
           \/ f.type \in {"unregistered_vendor", "suspended_vendor", "vendor_tax_id_mismatch"}
<1>1. f \in CheckVendorRegistration(res, inv) => f.type = "unregistered_vendor"
  BY RegistrationType
<1>2. f \in CheckVendorStatus(res) => f.type = "suspended_vendor"
  BY OnIs DEF CheckVendorStatus, Found
<1>3. f \in CheckVendorTaxId(inv, v) => f.type = "vendor_tax_id_mismatch"
  BY OnIs DEF CheckVendorTaxId, Found
<1> QED  BY <1>1, <1>2, <1>3 DEF CheckVendorRegistry

(* The outlier rule: too small a sample, or an outlier beside it.          *)
LEMMA SampleFindingIs ==
    ASSUME NEW x, NEW sample, NEW type, NEW metric, NEW line,
           NEW f \in CheckSample(x, sample, type, metric, line)
    PROVE  \/ f.type = "insufficient_history"
           \/ /\ f.type = type /\ f.line = line
              /\ x # None
              /\ ~(Cardinality(DOMAIN sample) < MinimumSample)
              /\ IsOutlier(x, Cardinality(DOMAIN sample), SumFunction(sample),
                           SumFunction(SquaresOf(sample)))
<1>1. x # None
  BY DEF CheckSample
<1>2. CASE Cardinality(DOMAIN sample) < MinimumSample
  BY <1>1, <1>2 DEF CheckSample, Insufficient, Found
<1>3. CASE ~(Cardinality(DOMAIN sample) < MinimumSample)
  <2>1. f \in On(IsOutlier(x, Cardinality(DOMAIN sample), SumFunction(sample),
                           SumFunction(SquaresOf(sample))), Found(type, "high", metric, line))
    BY <1>1, <1>3 DEF CheckSample, SquaresOf
  <2>2. /\ IsOutlier(x, Cardinality(DOMAIN sample), SumFunction(sample),
                     SumFunction(SquaresOf(sample)))
        /\ f = Found(type, "high", metric, line)
    BY <2>1, OnIs
  <2> QED  BY <1>1, <1>3, <2>2 DEF Found
<1> QED  BY <1>2, <1>3

HistoryTypesFound ==
    {"duplicate_invoice_number", "insufficient_history", "new_line_item", "rare_line_item",
     "historical_line_item_quantity_outlier", "payment_terms_changed",
     "missing_historical_field"}

(* The rules of the history.                                               *)
LEMMA HistoryFindingsAre ==
    ASSUME NEW inv, NEW h,
           NEW f \in CheckDuplicateInvoiceNumber(inv, h) \cup CheckHistory(inv, h)
                         \cup MissingVendorHistory(inv)
    PROVE  \/ f \in CheckSample(inv.total, TotalsOf(inv, h), "historical_total_outlier",
                                "invoice_total", 0)
           \/ \E i \in DOMAIN inv.lines :
                  f \in CheckSample(inv.lines[i].price, PricesLike(inv.lines[i], inv, h),
                                    "historical_line_item_price_outlier",
                                    "line_item_unit_price", i)
           \/ f.type \in HistoryTypesFound
<1>1. f \in CheckDuplicateInvoiceNumber(inv, h) => f.type \in HistoryTypesFound
  <2>1. f \in CheckDuplicateInvoiceNumber(inv, h) => f.type = "duplicate_invoice_number"
    BY FoundOn, Zenon DEF CheckDuplicateInvoiceNumber
  <2> QED  BY <2>1 DEF HistoryTypesFound
<1>2. f \in MissingVendorHistory(inv) => f.type \in HistoryTypesFound
  BY OnIs DEF MissingVendorHistory, Insufficient, Found, HistoryTypesFound
<1>3. f \in CheckHistoricalTotal(inv, h) =>
          f \in CheckSample(inv.total, TotalsOf(inv, h), "historical_total_outlier",
                            "invoice_total", 0)
  BY DEF CheckHistoricalTotal, TotalsOf, Totals
<1>4. f \in CheckLineItemOccurrence(inv, h) => f.type \in HistoryTypesFound
  BY OccurrenceTypes DEF HistoryTypesFound
<1>5. ASSUME f \in CheckLineItemStatistics(inv, h)
      PROVE  \/ \E i \in DOMAIN inv.lines :
                    f \in CheckSample(inv.lines[i].price, PricesLike(inv.lines[i], inv, h),
                                      "historical_line_item_price_outlier",
                                      "line_item_unit_price", i)
             \/ f.type \in HistoryTypesFound
  <2>1. PICK i \in DOMAIN inv.lines : f \in StatisticsOf(i, inv, h)
    BY <1>5, StatisticsOfLines
  <2>2. CASE f \in CheckSample(inv.lines[i].quantity, QuantitiesLike(inv.lines[i], inv, h),
                               "historical_line_item_quantity_outlier",
                               "line_item_quantity", i)
    BY <2>2, SampleFindingIs DEF HistoryTypesFound
  <2> QED  BY <2>1, <2>2 DEF StatisticsOf
<1>6. f \in CheckPaymentTerms(inv, h) => f.type \in HistoryTypesFound
  BY OnIs DEF CheckPaymentTerms, Insufficient, Found, HistoryTypesFound
<1>7. f \in CheckHistory(inv, h) =>
          \/ f \in CheckHistoricalTotal(inv, h) \/ f \in CheckLineItemOccurrence(inv, h)
          \/ f \in CheckLineItemStatistics(inv, h) \/ f \in CheckPaymentTerms(inv, h)
  BY DEF CheckHistory
<1> QED  BY <1>1, <1>2, <1>3, <1>4, <1>5, <1>6, <1>7

-----------------------------------------------------------------------------
(* What is flagged is real.                                                *)

(* A flagged total lies outside a history of fewer than ten.               *)
LEMMA FlaggedTotalIsUnusual ==
    ASSUME NEW inv \in Invoice, NEW h \in Seq(HistoricalInvoice), Len(h) < 10,
           NEW f \in CheckSample(inv.total, TotalsOf(inv, h), "historical_total_outlier",
                                 "invoice_total", 0),
           f.type = "historical_total_outlier"
    PROVE  inv.total \notin Min({h[i].total : i \in Totals(inv, h)})
                            ..Max({h[i].total : i \in Totals(inv, h)})
<1> DEFINE D == Totals(inv, h)
           g == TotalsOf(inv, h)
<1>1. /\ IsFiniteSet(D) /\ Cardinality(D) <= Len(h)
      /\ g \in [D -> Int]
      /\ ValuesOf(g) = {h[i].total : i \in D}
  BY TotalSample
<1>2. DOMAIN g = D
  BY <1>1
<1>3. /\ inv.total # None
      /\ ~(Cardinality(D) < MinimumSample)
      /\ IsOutlier(inv.total, Cardinality(D), SumFunction(g), SumFunction(SquaresOf(g)))
  BY <1>2, SampleFindingIs
<1>4. inv.total \in Int
  BY <1>3, InvoiceFieldTypes DEF Maybe
<1>5. Cardinality(D) \in Nat /\ Len(h) \in Nat
  BY <1>1, FS_CardinalityType
<1>6. Cardinality(D) > 1 /\ Cardinality(D) < 10
  BY <1>1, <1>3, <1>5 DEF MinimumSample
<1> HIDE DEF D, g
<1>7. inv.total \notin Min({g[p] : p \in D})..Max({g[p] : p \in D})
  BY <1>1, <1>3, <1>4, <1>6, OutliersLieOutside
<1>8. {g[p] : p \in D} = {h[i].total : i \in D}
  BY <1>1, <1>2 DEF ValuesOf
<1> QED  BY <1>7, <1>8 DEF D

(* So does a flagged price outside what fewer than ten lines cost.         *)
LEMMA FlaggedPriceIsUnusual ==
    ASSUME NEW inv \in Invoice, NEW h \in Seq(HistoricalInvoice), NEW i \in DOMAIN inv.lines,
           Cardinality(LinesLike(inv.lines[i], inv, h)) < 10,
           NEW f \in CheckSample(inv.lines[i].price, PricesLike(inv.lines[i], inv, h),
                                 "historical_line_item_price_outlier",
                                 "line_item_unit_price", i),
           f.type = "historical_line_item_price_outlier"
    PROVE  LET prices == {h[p[1]].lines[p[2]].price : p \in LinesLike(inv.lines[i], inv, h)}
                             \ {None}
           IN  inv.lines[i].price \notin Min(prices)..Max(prices)
<1> DEFINE like == LinesLike(inv.lines[i], inv, h)
           g == PricesLike(inv.lines[i], inv, h)
           D == DOMAIN g
           x == inv.lines[i].price
           prices == {h[p[1]].lines[p[2]].price : p \in like} \ {None}
<1>1. IsFiniteSet(D) /\ g \in [D -> Int] /\ D \subseteq like /\ ValuesOf(g) = prices
  BY PriceSample
<1>2. IsFiniteSet(like)
  BY ComparableFinite
<1>3. /\ x # None
      /\ ~(Cardinality(D) < MinimumSample)
      /\ IsOutlier(x, Cardinality(D), SumFunction(g), SumFunction(SquaresOf(g)))
  BY SampleFindingIs
<1>4. x \in Int
  BY <1>3, LineTypes DEF Maybe
<1>5. Cardinality(D) \in Nat /\ Cardinality(like) \in Nat /\ Cardinality(D) <= Cardinality(like)
  BY <1>1, <1>2, FS_CardinalityType, FS_Subset
<1>6. Cardinality(D) > 1 /\ Cardinality(D) < 10
  BY <1>3, <1>5 DEF MinimumSample
<1>7. {g[p] : p \in D} = prices
  BY <1>1 DEF ValuesOf
<1> HIDE DEF D, g, x, prices
<1>8. x \notin Min({g[p] : p \in D})..Max({g[p] : p \in D})
  BY <1>1, <1>3, <1>4, <1>6, OutliersLieOutside
<1> QED  BY <1>7, <1>8 DEF x, prices

(* The vendor whose account is flagged does not have it.                   *)
LEMMA FlaggedAccountIsForeign ==
    ASSUME NEW inv \in Invoice, NEW v, v # None => v \in Vendor,
           NEW f \in CheckVendorBankAccount(inv, v)
    PROVE  v # None /\ \A c \in v.accounts : StoredOf[c] # Plain(inv.account)
<1>1. v # None /\ Plain(inv.account) # None /\ ~Declares(v.accounts, Plain(inv.account))
  BY OnIs DEF CheckVendorBankAccount
<1>2. v.accounts \subseteq Codes
  BY <1>1 DEF Vendor
<1>3. inv.account \in Codes /\ Plain(inv.account) = PlainOf[inv.account]
  BY <1>1 DEF Plain, Invoice, Maybe
<1> QED  BY <1>1, <1>2, <1>3, RegistryAssumption DEF Declares

(* Findings of the rules of outliers, due dates and accounts have a cause, *)
(* for every invoice, history and registry.                                *)
THEOREM FlagsHaveACause == Spec => []FlagsAreReal
<1>1. TypeOK /\ SourceInv => FlagsAreReal
  <2> SUFFICES ASSUME TypeOK, SourceInv, NEW f \in findings
               PROVE
        /\ f.type = "historical_total_outlier" /\ Len(history) < 10 =>
               LET totals == {history[i].total : i \in Totals(invoice, history)}
               IN  invoice.total \notin Min(totals)..Max(totals)
        /\ f.type = "historical_line_item_price_outlier" =>
               LET like == LinesLike(invoice.lines[f.line], invoice, history)
                   prices == {history[p[1]].lines[p[2]].price : p \in like} \ {None}
               IN  Cardinality(like) < 10 =>
                       invoice.lines[f.line].price \notin Min(prices)..Max(prices)
        /\ f.type = "payment_terms_due_date_mismatch" => ~DueAsAgreed(invoice)
        /\ f.type = "vendor_bank_account_mismatch" =>
               \E t \in past : \E v \in t.vendors :
                   /\ v.id = resolution.vendor
                   /\ \A c \in v.accounts : StoredOf[c] # Plain(invoice.account)
    BY DEF FlagsAreReal
  <2>1. invoice \in Invoice /\ history \in Seq(HistoricalInvoice)
    BY DEF TypeOK
  <2>2. FromInvoice(f) \/ FromHistory(f) \/ FromOrder(f) \/ FromCeiling(f) \/ FromRegistry(f)
    BY DEF SourceInv, Source
  <2>3. FromInvoice(f) => f \in CheckPaymentTermsDueDate(invoice) \/ f.type \in InvoiceTypes
    BY InvoiceFindingsAre DEF FromInvoice
  <2>4. FromOrder(f) \/ FromCeiling(f) => f.type = "purchase_order_mismatch"
    BY OrderFindingsAre DEF FromOrder, FromCeiling
  <2>5. ASSUME FromHistory(f)
        PROVE  \/ f \in CheckSample(invoice.total, TotalsOf(invoice, history),
                                    "historical_total_outlier", "invoice_total", 0)
               \/ \E i \in DOMAIN invoice.lines :
                      f \in CheckSample(invoice.lines[i].price,
                                        PricesLike(invoice.lines[i], invoice, history),
                                        "historical_line_item_price_outlier",
                                        "line_item_unit_price", i)
               \/ f.type \in HistoryTypesFound
    BY <2>5, HistoryFindingsAre DEF FromHistory
  <2>6. ASSUME FromRegistry(f)
        PROVE  \/ f.type \in {"unregistered_vendor", "suspended_vendor", "vendor_tax_id_mismatch"}
               \/ /\ f.type = "vendor_bank_account_mismatch"
                  /\ \E t \in past : \E v \in t.vendors :
                         /\ v.id = resolution.vendor
                         /\ \A c \in v.accounts : StoredOf[c] # Plain(invoice.account)
    <3>0. PICK t \in past :
              \E v \in t.vendors \cup {None} :
                  /\ v # None => v.id = resolution.vendor
                  /\ f \in CheckVendorRegistry(invoice, resolution, v)
      BY <2>6 DEF FromRegistry
    <3>1. PICK v \in t.vendors \cup {None} :
              /\ v # None => v.id = resolution.vendor
              /\ f \in CheckVendorRegistry(invoice, resolution, v)
      BY <3>0
    <3>2. v # None => v \in t.vendors /\ v \in Vendor
      BY <3>1 DEF TypeOK, Tables
    <3>3. CASE f \in CheckVendorBankAccount(invoice, v)
      <4>1. v # None /\ \A c \in v.accounts : StoredOf[c] # Plain(invoice.account)
        BY <2>1, <3>2, <3>3, FlaggedAccountIsForeign
      <4>2. f.type = "vendor_bank_account_mismatch"
        BY <3>3, OnIs DEF CheckVendorBankAccount, Found
      <4> QED  BY <3>1, <3>2, <4>1, <4>2
    <3> QED  BY <3>1, <3>3, RegistryFindingsAre
  <2>7. f \in CheckPaymentTermsDueDate(invoice) =>
            f.type = "payment_terms_due_date_mismatch" /\ ~DueAsAgreed(invoice)
    <3> SUFFICES ASSUME f \in CheckPaymentTermsDueDate(invoice)
                 PROVE  f.type = "payment_terms_due_date_mismatch" /\ ~DueAsAgreed(invoice)
      OBVIOUS
    <3>1. HasDueDays(invoice)
      BY DEF CheckPaymentTermsDueDate
    <3>2. f.type = "payment_terms_due_date_mismatch"
      BY OnIs DEF CheckPaymentTermsDueDate, Found
    <3> QED  BY <2>1, <3>1, <3>2, DueDateDecided
  <2>8. \A x, g, type, metric, line :
            f \in CheckSample(x, g, type, metric, line) =>
                f.type = "insufficient_history" \/ (f.type = type /\ f.line = line)
    BY SampleFindingIs
  <2>9. ASSUME f.type = "historical_total_outlier", Len(history) < 10
        PROVE  LET totals == {history[i].total : i \in Totals(invoice, history)}
               IN  invoice.total \notin Min(totals)..Max(totals)
    <3>1. f \in CheckSample(invoice.total, TotalsOf(invoice, history),
                            "historical_total_outlier", "invoice_total", 0)
      BY <2>2, <2>3, <2>4, <2>5, <2>6, <2>7, <2>8, <2>9 DEF InvoiceTypes, HistoryTypesFound
    <3> QED  BY <2>1, <2>9, <3>1, FlaggedTotalIsUnusual
  <2>10. ASSUME f.type = "historical_line_item_price_outlier",
                Cardinality(LinesLike(invoice.lines[f.line], invoice, history)) < 10
         PROVE  LET like == LinesLike(invoice.lines[f.line], invoice, history)
                    prices == {history[p[1]].lines[p[2]].price : p \in like} \ {None}
                IN  invoice.lines[f.line].price \notin Min(prices)..Max(prices)
    <3>1. PICK i \in DOMAIN invoice.lines :
              f \in CheckSample(invoice.lines[i].price,
                                PricesLike(invoice.lines[i], invoice, history),
                                "historical_line_item_price_outlier",
                                "line_item_unit_price", i)
      BY <2>2, <2>3, <2>4, <2>5, <2>6, <2>7, <2>8, <2>10 DEF InvoiceTypes, HistoryTypesFound
    <3>2. f.line = i
      BY <2>8, <2>10, <3>1
    <3> QED  BY <2>1, <2>10, <3>1, <3>2, FlaggedPriceIsUnusual
  <2>11. f.type = "payment_terms_due_date_mismatch" => ~DueAsAgreed(invoice)
    BY <2>2, <2>3, <2>4, <2>5, <2>6, <2>7, <2>8 DEF InvoiceTypes, HistoryTypesFound
  <2>12. f.type = "vendor_bank_account_mismatch" =>
             \E t \in past : \E v \in t.vendors :
                 /\ v.id = resolution.vendor
                 /\ \A c \in v.accounts : StoredOf[c] # Plain(invoice.account)
    BY <2>2, <2>3, <2>4, <2>5, <2>6, <2>7, <2>8 DEF InvoiceTypes, HistoryTypesFound
  <2> QED  BY <2>9, <2>10, <2>11, <2>12
<1> QED  BY <1>1, VerificationCorrect, PTL

-----------------------------------------------------------------------------
(* The order as a limit on what is billed.                                 *)

(* Where no earlier invoice counts, nothing was billed.                    *)
LEMMA NothingBilledBefore ==
    ASSUME NEW inv, NEW h, DOMAIN PriorTotals(inv, h) = {}
    PROVE  SumFunction(PriorTotals(inv, h)) = 0
<1> DEFINE f == PriorTotals(inv, h)
<1>1. DOMAIN f = {} /\ IsFiniteSet({})
  BY FS_EmptySet
<1> HIDE DEF f
<1>2. PICK g : PartialSums(f, {}, g)
  BY <1>1, PartialSumsExist
<1>3. SumFunction(f) = g[{}] /\ g[{}] = 0
  BY <1>2 DEF PartialSums
<1> QED  BY <1>3 DEF f

LEMMA MismatchType ==
    \A field, line : Mismatch(field, line).type = "purchase_order_mismatch"
BY FoundType DEF Mismatch

(* Overbilling is flagged, for every order and every history: by           *)
(* check_purchase_order if the invoice alone exceeds the order, or differs *)
(* from it in currency, else by check_purchase_order_ceiling.              *)
THEOREM OverbillingIsFlagged == Spec => []OverbillingFlagged
<1>1. TypeOK /\ CheckedInv => OverbillingFlagged
  <2> SUFFICES ASSUME TypeOK, CheckedInv, pc = "done", ReferencesOrder(invoice),
                      invoice.total # None,
                      \A s, t \in past : Overbilled(s.history, t.order),
                      \A s, t \in past : ComparableAmounts(invoice, s.order)
                                             <=> ComparableAmounts(invoice, t.order)
               PROVE  \E f \in findings : f.type = "purchase_order_mismatch"
    BY DEF OverbillingFlagged
  <2>1. /\ HistoryRead /\ OrderChecked
        /\ VendorKey(invoice) # None /\ CeilingChecked
    BY DEF CheckedInv, BeforeOrder, BeforeHistory, Stopped, ReferencesOrder
  <2>2. PICK s \in past : history = s.history
    BY <2>1 DEF HistoryRead
  <2>3. PICK t \in past : CheckPurchaseOrder(invoice, t.order) \subseteq findings
    BY <2>1 DEF OrderChecked
  <2>4. PICK u \in past : CheckPurchaseOrderCeiling(invoice, u.order, history) \subseteq findings
    BY <2>1 DEF CeilingChecked
  <2>5. Overbilled(history, t.order) /\ Overbilled(history, u.order)
    BY <2>2
  <2>6. ComparableAmounts(invoice, t.order) <=> ComparableAmounts(invoice, u.order)
    OBVIOUS
  <2>7. CASE ~ComparableAmounts(invoice, t.order)
    <3>1. Mismatch("currency", 0) \in CheckPurchaseOrder(invoice, t.order)
      BY <2>5, <2>7 DEF CheckPurchaseOrder, Overbilled, On
    <3> QED  BY <2>3, <3>1, MismatchType
  <2>8. CASE ComparableAmounts(invoice, t.order) /\ DOMAIN PriorTotals(invoice, history) = {}
    <3>1. SumFunction(PriorTotals(invoice, history)) = 0
      BY <2>8, NothingBilledBefore
    <3>2. invoice.total \in Int
      BY InvoiceFieldTypes DEF TypeOK, Maybe
    <3>3. t.order # None /\ t.order.total # None /\ invoice.total > t.order.total
      BY <2>5, <3>1, <3>2 DEF Overbilled
    <3>4. Mismatch("total", 0) \in CheckPurchaseOrder(invoice, t.order)
      BY <2>8, <3>3 DEF CheckPurchaseOrder, On
    <3> QED  BY <2>3, <3>4, MismatchType
  <2>9. CASE ComparableAmounts(invoice, t.order) /\ DOMAIN PriorTotals(invoice, history) # {}
    <3>1. Mismatch("purchase_order_billed_total", 0)
              \in CheckPurchaseOrderCeiling(invoice, u.order, history)
      BY <2>5, <2>6, <2>9 DEF CheckPurchaseOrderCeiling, Overbilled, On
    <3> QED  BY <2>4, <3>1, MismatchType
  <2> QED  BY <2>7, <2>8, <2>9
<1> QED  BY <1>1, VerificationCorrect, PTL

-----------------------------------------------------------------------------
(* The places of the lines that share a key.                               *)

AlikeUpTo(lines, i) == {j \in 1..i : LineKey(lines[j]) = LineKey(lines[i])}

(* A rank is the size of a finite set with the line itself in it.          *)
LEMMA RankType ==
    ASSUME NEW lines, NEW i \in Nat, i > 0
    PROVE  /\ IsFiniteSet(AlikeUpTo(lines, i)) /\ i \in AlikeUpTo(lines, i)
           /\ Rank(lines, i) = Cardinality(AlikeUpTo(lines, i))
           /\ Rank(lines, i) \in Nat /\ Rank(lines, i) > 0
<1> DEFINE S == AlikeUpTo(lines, i)
<1>1. S \in SUBSET (1..i) /\ i \in S
  BY DEF AlikeUpTo
<1>2. IsFiniteSet(1..i)
  BY FS_Interval
<1>3. IsFiniteSet(S)
  BY <1>1, <1>2, FS_Subset
<1>4. Rank(lines, i) = Cardinality(S)
  BY DEF Rank, AlikeUpTo
<1> HIDE DEF S
<1>5. Cardinality(S) \in Nat
  BY <1>3, FS_CardinalityType
<1>6. S # {}
  BY <1>1
<1>7. Cardinality(S) # 0
  BY <1>3, <1>6, FS_EmptySet
<1>8. Cardinality(S) > 0
  BY <1>5, <1>7
<1> QED  BY <1>1, <1>3, <1>4, <1>5, <1>8 DEF S

(* Of two lines with one key the later has the higher rank.                *)
LEMMA RankGrows ==
    ASSUME NEW lines, NEW i \in Nat, NEW k \in Nat, k > 0, k < i,
           LineKey(lines[k]) = LineKey(lines[i])
    PROVE  Rank(lines, k) < Rank(lines, i)
<1> DEFINE S == AlikeUpTo(lines, i)
           T == AlikeUpTo(lines, k)
<1>1. i > 0
  OBVIOUS
<1>2. /\ IsFiniteSet(S) /\ i \in S /\ Rank(lines, i) = Cardinality(S)
      /\ Rank(lines, k) = Cardinality(T)
      /\ Rank(lines, i) \in Nat /\ Rank(lines, k) \in Nat
  BY <1>1, RankType
<1>3. T \in SUBSET (S \ {i})
  BY DEF AlikeUpTo
<1> HIDE DEF S, T
<1>4. IsFiniteSet(S \ {i}) /\ Cardinality(S \ {i}) = Cardinality(S) - 1
  BY <1>2, FS_RemoveElement
<1>5. Cardinality(T) <= Cardinality(S \ {i})
  BY <1>3, <1>4, FS_Subset
<1> QED  BY <1>2, <1>4, <1>5

(* The one before it has the next lower rank.                              *)
LEMMA RankBefore ==
    ASSUME NEW lines, NEW i \in Nat, i > 0, Rank(lines, i) > 1
    PROVE  \E k \in 1..(i - 1) : /\ LineKey(lines[k]) = LineKey(lines[i])
                                 /\ Rank(lines, k) = Rank(lines, i) - 1
<1> DEFINE S == AlikeUpTo(lines, i)
           R == S \ {i}
<1>1. /\ IsFiniteSet(S) /\ i \in S /\ Rank(lines, i) = Cardinality(S)
      /\ Rank(lines, i) \in Nat
  BY RankType
<1>2. IsFiniteSet(R) /\ Cardinality(R) = Cardinality(S) - 1
  BY <1>1, FS_RemoveElement
<1>3. R # {}
  <2>1. Cardinality(R) # 0
    BY <1>1, <1>2
  <2> QED  BY <2>1, FS_EmptySet
<1>4. R \in SUBSET Int
  BY DEF AlikeUpTo
<1>5. PICK k \in R : \A x \in R : x <= k
  <2> HIDE DEF R
  <2> QED  BY <1>2, <1>3, <1>4, Bounds
<1>6. k \in 1..(i - 1) /\ LineKey(lines[k]) = LineKey(lines[i])
  BY <1>5 DEF AlikeUpTo
<1>7. AlikeUpTo(lines, k) = R
  BY <1>5, <1>6 DEF AlikeUpTo
<1>8. k \in Nat /\ k > 0
  BY <1>6
<1>9. Rank(lines, k) = Cardinality(R)
  BY <1>7, <1>8, RankType
<1> QED  BY <1>1, <1>2, <1>6, <1>9

(* Every rank up to that of a line is the rank of one of its key.          *)
LEMMA RanksAreTaken ==
    ASSUME NEW lines, NEW i \in Nat, i > 0, NEW r \in Nat, r > 0, r <= Rank(lines, i)
    PROVE  \E k \in 1..i : LineKey(lines[k]) = LineKey(lines[i]) /\ Rank(lines, k) = r
<1> DEFINE S == {k \in 1..i : LineKey(lines[k]) = LineKey(lines[i]) /\ r <= Rank(lines, k)}
<1>1. S \in SUBSET Nat /\ S # {}
  <2>1. i \in S
    OBVIOUS
  <2> QED  BY <2>1
<1>2. PICK k \in S : \A m \in S : k <= m
  <2> HIDE DEF S
  <2> QED  BY <1>1, SmallestNat
<1>3. /\ k \in 1..i /\ LineKey(lines[k]) = LineKey(lines[i]) /\ r <= Rank(lines, k)
      /\ k \in Nat /\ k > 0
  OBVIOUS
<1>4. Rank(lines, k) \in Nat
  BY <1>3, RankType
<1>5. Rank(lines, k) = r
  <2> SUFFICES ASSUME Rank(lines, k) # r PROVE FALSE
    OBVIOUS
  <2>1. Rank(lines, k) > r /\ Rank(lines, k) > 1
    BY <1>3, <1>4
  <2>2. PICK m \in 1..(k - 1) : /\ LineKey(lines[m]) = LineKey(lines[k])
                                /\ Rank(lines, m) = Rank(lines, k) - 1
    BY <1>3, <2>1, RankBefore
  <2>3. r <= Rank(lines, m)
    BY <1>4, <2>1, <2>2
  <2>4. m \in S /\ ~(k <= m)
    BY <1>3, <2>2, <2>3
  <2> QED  BY <1>2, <2>4
<1> QED  BY <1>3, <1>5

-----------------------------------------------------------------------------
(* The order lines that are taken.                                         *)

FreeLines(inv, po, i, s) ==
    {j \in DOMAIN po.lines :
        /\ Keyed(inv.lines[i])
        /\ LineKey(po.lines[j]) = LineKey(inv.lines[i])
        /\ \A k \in 1..(i - 1) : s[k] # j}

FirstFree(inv, po, i, s) ==
    IF FreeLines(inv, po, i, s) = {} THEN 0 ELSE Min(FreeLines(inv, po, i, s))

Takes(inv, po, n, g) ==
    g = [i \in 0..n |-> IF i = 0 THEN <<>>
                        ELSE Append(g[i - 1], FirstFree(inv, po, i, g[i - 1]))]

(* The recursion of TakenLines defines a function, for every number of     *)
(* lines.                                                                  *)
LEMMA TakesExists ==
    ASSUME NEW inv, NEW po, NEW l \in Nat
    PROVE  \E g : Takes(inv, po, l, g)
<1> DEFINE Bad == {n \in Nat : ~\E g : Takes(inv, po, n, g)}
<1>1. Bad = {}
  <2> SUFFICES ASSUME Bad # {} PROVE FALSE
    OBVIOUS
  <2>1. PICK n \in Bad : \A m \in Bad : n <= m
    <3>1. Bad \in SUBSET Nat
      OBVIOUS
    <3> HIDE DEF Bad
    <3> QED  BY <3>1, SmallestNat
  <2>2. n \in Nat /\ ~\E g : Takes(inv, po, n, g)
    BY <2>1
  <2>3. CASE n = 0
    <3>1. Takes(inv, po, n, [i \in 0..n |-> <<>>])
      BY <2>3 DEF Takes
    <3> QED  BY <2>2, <3>1
  <2>4. CASE n # 0
    <3>1. n - 1 \in Nat /\ ~(n <= n - 1)
      BY <2>2, <2>4
    <3>2. PICK g : Takes(inv, po, n - 1, g)
      BY <2>1, <3>1
    <3> DEFINE More(i, s) == Append(s, FirstFree(inv, po, i, s))
               h == [i \in 0..n |-> IF i = n THEN More(n, g[n - 1]) ELSE g[i]]
    <3> HIDE DEF More
    <3>3. /\ DOMAIN g = 0..(n - 1)
          /\ \A i \in 0..(n - 1) : g[i] = IF i = 0 THEN <<>> ELSE More(i, g[i - 1])
      BY <3>2 DEF Takes, More
    <3>4. \A i \in 0..n : h[i] = IF i = 0 THEN <<>> ELSE More(i, h[i - 1])
      <4> SUFFICES ASSUME NEW i \in 0..n
                   PROVE  h[i] = IF i = 0 THEN <<>> ELSE More(i, h[i - 1])
        OBVIOUS
      <4>1. CASE i = n
        <5>1. n - 1 \in 0..n /\ n - 1 # n
          BY <2>2, <2>4
        <5>2. h[n - 1] = g[n - 1]
          BY <5>1
        <5> QED  BY <2>4, <4>1, <5>2
      <4>2. CASE i # n /\ i # 0
        <5>1. i \in 0..(n - 1) /\ i - 1 \in 0..n /\ i - 1 # n
          BY <2>2, <4>2
        <5>2. h[i - 1] = g[i - 1] /\ h[i] = g[i]
          BY <4>2, <5>1
        <5> QED  BY <3>3, <4>2, <5>1, <5>2
      <4>3. CASE i = 0
        <5>1. i \in 0..(n - 1) /\ i # n
          BY <2>2, <2>4, <4>3
        <5> QED  BY <3>3, <4>3, <5>1
      <4> QED  BY <4>1, <4>2, <4>3
    <3>5. h = [i \in 0..n |-> h[i]]
      OBVIOUS
    <3> HIDE DEF h
    <3>6. Takes(inv, po, n, h)
      <4>1. h = [i \in 0..n |-> IF i = 0 THEN <<>> ELSE More(i, h[i - 1])]
        BY <3>4, <3>5
      <4> QED  BY <4>1 DEF Takes, More
    <3> QED  BY <2>2, <3>6
  <2> QED  BY <2>3, <2>4
<1> QED  BY <1>1

(* TakenLines is the last value of that function.                          *)
LEMMA TakenLinesIs ==
    ASSUME NEW inv, NEW po
    PROVE  TakenLines(inv, po)
               = (CHOOSE g : Takes(inv, po, Len(inv.lines), g))[Len(inv.lines)]
BY DEF TakenLines, Takes, FirstFree, FreeLines

(* The first free line is one of them and the first, 0 if there is none.   *)
LEMMA FirstFreeIs ==
    ASSUME NEW inv, NEW po, po.lines \in Seq(Line), NEW i \in Nat, NEW s
    PROVE  /\ FirstFree(inv, po, i, s) \in Nat
           /\ FreeLines(inv, po, i, s) = {} => FirstFree(inv, po, i, s) = 0
           /\ FreeLines(inv, po, i, s) # {} =>
                  /\ FirstFree(inv, po, i, s) \in FreeLines(inv, po, i, s)
                  /\ \A j \in FreeLines(inv, po, i, s) : FirstFree(inv, po, i, s) <= j
<1> DEFINE F == FreeLines(inv, po, i, s)
<1>1. DOMAIN po.lines = 1..Len(po.lines) /\ Len(po.lines) \in Nat
  OBVIOUS
<1>2. F \in SUBSET (1..Len(po.lines))
  BY <1>1 DEF FreeLines
<1>3. IsFiniteSet(1..Len(po.lines))
  BY <1>1, FS_Interval
<1>4. IsFiniteSet(F) /\ F \in SUBSET Int /\ F \in SUBSET Nat
  BY <1>1, <1>2, <1>3, FS_Subset
<1>5. F # {} => Min(F) \in F /\ \A j \in F : Min(F) <= j
  <2> HIDE DEF F
  <2> QED  BY <1>4, Bounds
<1> HIDE DEF F
<1>6. FirstFree(inv, po, i, s) = IF F = {} THEN 0 ELSE Min(F)
  BY DEF FirstFree, F
<1> QED  BY <1>4, <1>5, <1>6 DEF F

(* What is taken for a line depends on what earlier lines have taken.      *)
LEMMA TakenAre ==
    ASSUME NEW inv, inv.lines \in Seq(Line), NEW po, po.lines \in Seq(Line)
    PROVE  \A i \in DOMAIN inv.lines :
               TakenLines(inv, po)[i] = FirstFree(inv, po, i, TakenLines(inv, po))
<1> DEFINE n == Len(inv.lines)
           g == CHOOSE g : Takes(inv, po, n, g)
           At(i) == FirstFree(inv, po, i, g[i - 1])
           Good(i) == /\ g[i] \in Seq(Nat) /\ Len(g[i]) = i
                      /\ \A k \in 1..i : g[i][k] = At(k)
           Bad == {i \in 0..n : ~Good(i)}
<1>1. n \in Nat /\ DOMAIN inv.lines = 1..n
  OBVIOUS
<1>2. Takes(inv, po, n, g)
  BY <1>1, TakesExists
<1>3. TakenLines(inv, po) = g[n]
  BY TakenLinesIs
<1> HIDE DEF g, n
<1>4. g[0] = <<>>
  BY <1>1, <1>2 DEF Takes
<1>5. \A i \in 1..n : g[i] = Append(g[i - 1], At(i))
  <2> SUFFICES ASSUME NEW i \in 1..n PROVE g[i] = Append(g[i - 1], At(i))
    OBVIOUS
  <2>1. i \in 0..n /\ i # 0
    BY <1>1
  <2> QED  BY <1>2, <2>1 DEF Takes
<1>6. ASSUME NEW i \in 1..n PROVE At(i) \in Nat
  <2>1. i \in Nat
    BY <1>1
  <2> QED  BY <2>1, FirstFreeIs
<1> HIDE DEF At
<1>7. Bad = {}
  <2> SUFFICES ASSUME Bad # {} PROVE FALSE
    OBVIOUS
  <2>1. PICK i \in Bad : \A m \in Bad : i <= m
    <3>1. Bad \in SUBSET Nat
      BY <1>1
    <3> HIDE DEF Bad
    <3> QED  BY <3>1, SmallestNat
  <2>2. i \in 0..n /\ ~Good(i) /\ i \in Nat
    BY <1>1, <2>1
  <2>3. CASE i = 0
    <3>1. Good(0)
      BY <1>4
    <3> QED  BY <2>2, <2>3, <3>1
  <2>4. CASE i # 0
    <3>1. i - 1 \in 0..n /\ ~(i <= i - 1) /\ i \in 1..n
      BY <1>1, <2>2, <2>4
    <3>2. Good(i - 1)
      BY <2>1, <3>1
    <3>3. PICK s \in Seq(Nat) : s = g[i - 1] /\ Len(s) = i - 1
      BY <3>2
    <3>4. PICK x \in Nat : x = At(i)
      BY <1>6, <3>1
    <3>5. g[i] = Append(s, x)
      BY <1>5, <3>1, <3>3, <3>4
    <3>6. g[i] \in Seq(Nat) /\ Len(g[i]) = i
      BY <2>2, <3>3, <3>4, <3>5
    <3>7. ASSUME NEW k \in 1..i PROVE g[i][k] = At(k)
      <4>1. CASE k = i
        BY <3>3, <3>4, <3>5, <4>1
      <4>2. CASE k # i
        <5>1. k \in 1..(i - 1)
          BY <2>2, <4>2
        <5>2. s[k] = At(k)
          BY <3>2, <3>3, <5>1
        <5> QED  BY <3>3, <3>5, <5>1, <5>2
      <4> QED  BY <4>1, <4>2
    <3> QED  BY <2>2, <3>6, <3>7
  <2> QED  BY <2>3, <2>4
<1>8. ASSUME NEW i \in 1..n PROVE g[n][i] = FirstFree(inv, po, i, g[n])
  <2>1. Good(n) /\ Good(i - 1)
    <3>1. n \in 0..n /\ i - 1 \in 0..n
      BY <1>1
    <3> HIDE DEF Good
    <3> QED  BY <1>7, <3>1
  <2>2. g[n][i] = FirstFree(inv, po, i, g[i - 1])
    BY <2>1 DEF At
  <2>3. \A k \in 1..(i - 1) : g[i - 1][k] = g[n][k]
    <3>1. \A k \in 1..(i - 1) : k \in 1..n
      BY <1>1
    <3> QED  BY <2>1, <3>1
  <2>4. FreeLines(inv, po, i, g[i - 1]) = FreeLines(inv, po, i, g[n])
    BY <2>3 DEF FreeLines
  <2> QED  BY <2>2, <2>4 DEF FirstFree
<1> QED  BY <1>1, <1>3, <1>8

(* A line takes the order line of its key that has its rank.               *)
LEMMA TakenByRank ==
    ASSUME NEW inv, inv.lines \in Seq(Line), NEW po, po.lines \in Seq(Line),
           NEW i \in DOMAIN inv.lines, Keyed(inv.lines[i]),
           NEW j \in DOMAIN po.lines, LineKey(po.lines[j]) = LineKey(inv.lines[i])
    PROVE  TakenLines(inv, po)[i] = j <=> Rank(po.lines, j) = Rank(inv.lines, i)
<1> DEFINE s == TakenLines(inv, po)
           n == Len(inv.lines)
           InvRank(k) == Rank(inv.lines, k)
           PoRank(k) == Rank(po.lines, k)
           Same(k, m) == LineKey(po.lines[m]) = LineKey(inv.lines[k])
           Good(k) == \A m \in DOMAIN po.lines : Same(k, m) => (s[k] = m <=> PoRank(m) = InvRank(k))
           Bad == {k \in 1..n : Keyed(inv.lines[k]) /\ ~Good(k)}
<1>1. /\ n \in Nat /\ DOMAIN inv.lines = 1..n
      /\ DOMAIN po.lines = 1..Len(po.lines) /\ Len(po.lines) \in Nat
  OBVIOUS
<1>2. \A k \in 1..n : s[k] = FirstFree(inv, po, k, s)
  BY <1>1, TakenAre
<1>3. \A k \in 1..n : k \in Nat /\ k > 0 /\ InvRank(k) \in Nat /\ InvRank(k) > 0
  BY <1>1, RankType
<1>4. \A m \in DOMAIN po.lines : m \in Nat /\ m > 0 /\ PoRank(m) \in Nat /\ PoRank(m) > 0
  BY <1>1, RankType
<1> HIDE DEF s, n
<1>5. Bad = {}
  <2> SUFFICES ASSUME Bad # {} PROVE FALSE
    OBVIOUS
  <2>1. PICK k \in Bad : \A m \in Bad : k <= m
    <3>1. Bad \in SUBSET Nat
      BY <1>1
    <3> HIDE DEF Bad
    <3> QED  BY <3>1, SmallestNat
  <2>2. k \in 1..n /\ Keyed(inv.lines[k]) /\ ~Good(k) /\ k \in Nat /\ k > 0
    BY <1>1, <2>1
  <2>3. ASSUME NEW e \in 1..(k - 1), Keyed(inv.lines[e]) PROVE Good(e) /\ e \in 1..n
    <3>1. e \in 1..n /\ ~(k <= e)
      BY <1>1, <2>2
    <3> QED  BY <2>1, <2>3, <3>1
  <2> DEFINE F == FreeLines(inv, po, k, s)
  <2>4. ASSUME NEW m \in DOMAIN po.lines, Same(k, m), PoRank(m) >= InvRank(k)
        PROVE  m \in F
    <3> SUFFICES ASSUME NEW e \in 1..(k - 1), s[e] = m PROVE FALSE
      BY <2>2, <2>4 DEF FreeLines
    <3>1. e \in 1..n /\ e \in Nat /\ e > 0 /\ e < k
      BY <1>1, <2>2
    <3>2. FirstFree(inv, po, e, s) = m /\ m # 0
      BY <1>2, <1>4, <3>1
    <3>3. m \in FreeLines(inv, po, e, s)
      BY <3>1, <3>2, FirstFreeIs
    <3>4. Keyed(inv.lines[e]) /\ Same(e, m)
      BY <3>3 DEF FreeLines
    <3>5. PoRank(m) = InvRank(e)
      BY <2>3, <3>4
    <3>6. InvRank(e) < InvRank(k)
      BY <2>2, <2>4, <3>1, <3>4, RankGrows
    <3>7. InvRank(e) \in Nat /\ InvRank(k) \in Nat /\ PoRank(m) \in Nat
      BY <1>3, <1>4, <2>2, <3>1
    <3> HIDE DEF InvRank, PoRank
    <3> QED  BY <2>4, <3>5, <3>6, <3>7
  <2>5. ASSUME NEW m \in F PROVE m \in DOMAIN po.lines /\ Same(k, m) /\ PoRank(m) >= InvRank(k)
    <3>1. m \in DOMAIN po.lines /\ Same(k, m) /\ \A e \in 1..(k - 1) : s[e] # m
      BY DEF FreeLines
    <3>2. PoRank(m) \in Nat /\ PoRank(m) > 0 /\ InvRank(k) \in Nat
      BY <1>3, <1>4, <2>2, <3>1
    <3> SUFFICES ASSUME PoRank(m) < InvRank(k) PROVE FALSE
      BY <3>1, <3>2
    <3>3. PICK r \in Nat : r = PoRank(m) /\ r > 0 /\ r <= InvRank(k) /\ r # InvRank(k)
      BY <3>2
    <3>4. PICK e \in 1..k : LineKey(inv.lines[e]) = LineKey(inv.lines[k]) /\ InvRank(e) = r
      BY <2>2, <3>3, RanksAreTaken
    <3>5. e \in 1..(k - 1)
      BY <2>2, <3>3, <3>4
    <3>6. Keyed(inv.lines[e]) /\ Same(e, m)
      BY <2>2, <3>1, <3>4 DEF Keyed
    <3>7. s[e] = m
      BY <2>3, <3>1, <3>3, <3>4, <3>5, <3>6
    <3> QED  BY <3>1, <3>5, <3>7
  <2>6. PICK m \in DOMAIN po.lines : Same(k, m) /\ ~(s[k] = m <=> PoRank(m) = InvRank(k))
    BY <2>2
  <2>7. m \in Nat /\ m > 0 /\ PoRank(m) \in Nat /\ InvRank(k) \in Nat /\ InvRank(k) > 0
    BY <1>3, <1>4, <2>2
  <2>8. /\ s[k] \in Nat
        /\ F = {} => s[k] = 0
        /\ F # {} => s[k] \in F /\ \A x \in F : s[k] <= x
    BY <1>2, <2>2, FirstFreeIs
  <2> HIDE DEF F
  <2>9. CASE s[k] = m
    <3>1. m \in F /\ \A x \in F : m <= x
      BY <2>7, <2>8, <2>9
    <3>2. PoRank(m) >= InvRank(k) /\ PoRank(m) # InvRank(k)
      BY <2>5, <2>6, <2>9, <3>1
    <3>3. PICK r \in Nat : r = InvRank(k) /\ r > 0 /\ r <= PoRank(m) /\ r # PoRank(m)
      BY <2>7, <3>2
    <3>4. PICK e \in 1..m : LineKey(po.lines[e]) = LineKey(po.lines[m]) /\ PoRank(e) = r
      BY <2>7, <3>3, RanksAreTaken
    <3>5. e \in DOMAIN po.lines /\ Same(k, e) /\ PoRank(e) >= InvRank(k)
      BY <1>1, <2>6, <2>7, <3>3, <3>4
    <3>6. e \in F
      BY <2>4, <3>5
    <3>7. e = m
      BY <2>7, <3>1, <3>6
    <3> QED  BY <3>3, <3>4, <3>7
  <2>10. CASE s[k] # m
    <3>1. PoRank(m) = InvRank(k)
      BY <2>6, <2>10
    <3>2. m \in F
      BY <2>4, <2>6, <2>7, <3>1
    <3>3. PICK e \in F : e = s[k] /\ e <= m
      BY <2>8, <3>2
    <3>4. e \in DOMAIN po.lines /\ Same(k, e) /\ PoRank(e) >= InvRank(k)
      BY <2>5
    <3>5. e \in Nat /\ e > 0 /\ e < m /\ PoRank(e) \in Nat
      BY <1>4, <2>7, <2>10, <3>3, <3>4
    <3>6. PoRank(e) < PoRank(m)
      BY <2>6, <2>7, <3>4, <3>5, RankGrows
    <3> HIDE DEF PoRank, InvRank
    <3> QED  BY <2>7, <3>1, <3>4, <3>5, <3>6
  <2> QED  BY <2>9, <2>10
<1>6. i \notin Bad /\ i \in 1..n
  BY <1>1, <1>5
<1>7. Good(i)
  BY <1>6
<1> QED  BY <1>7 DEF s

-----------------------------------------------------------------------------
(* Refused lines.                                                          *)

(* What CheckOrderLines says of one line.                                  *)
OrderLineOf(i, inv, po) ==
    LET taken == TakenLines(inv, po)[i]
        l == inv.lines[i]
        o == po.lines[taken]
    IN  IF ~Keyed(l) THEN {}
        ELSE IF taken = 0 THEN {Mismatch("line_item", i)}
        ELSE On(l.quantity # None /\ o.quantity # None /\ l.quantity > o.quantity,
                Mismatch("line_item_quantity", i))
                 \cup On(l.price # None /\ o.price # None /\ l.price # o.price,
                         Mismatch("line_item_unit_price", i))

(* What CheckOrderLines says, line by line.                                *)
LEMMA OrderLinesOf ==
    ASSUME NEW inv, NEW po
    PROVE  CheckOrderLines(inv, po) = UNION {OrderLineOf(i, inv, po) : i \in DOMAIN inv.lines}
BY DEF CheckOrderLines, OrderLineOf

LEMMA MismatchIs ==
    \A field, i : Mismatch(field, i).field = field /\ Mismatch(field, i).line = i
BY DEF Mismatch, Found

(* The order refuses the lines that have taken none of its own.            *)
LEMMA LineRefused ==
    ASSUME NEW inv, NEW po, NEW i \in DOMAIN inv.lines
    PROVE  Mismatch("line_item", i) \in CheckOrderLines(inv, po)
               <=> Keyed(inv.lines[i]) /\ TakenLines(inv, po)[i] = 0
<1>1. ASSUME Keyed(inv.lines[i]), TakenLines(inv, po)[i] = 0
      PROVE  Mismatch("line_item", i) \in CheckOrderLines(inv, po)
  <2>1. Mismatch("line_item", i) \in OrderLineOf(i, inv, po)
    BY <1>1 DEF OrderLineOf
  <2> QED  BY <2>1, OrderLinesOf
<1>2. ASSUME Mismatch("line_item", i) \in CheckOrderLines(inv, po)
      PROVE  Keyed(inv.lines[i]) /\ TakenLines(inv, po)[i] = 0
  <2>1. PICK k \in DOMAIN inv.lines : Mismatch("line_item", i) \in OrderLineOf(k, inv, po)
    BY <1>2, OrderLinesOf
  <2>2. /\ Mismatch("line_item", i) # Mismatch("line_item_quantity", k)
        /\ Mismatch("line_item", i) # Mismatch("line_item_unit_price", k)
    BY MismatchIs
  <2>3. /\ Keyed(inv.lines[k]) /\ TakenLines(inv, po)[k] = 0
        /\ Mismatch("line_item", i) = Mismatch("line_item", k)
    BY <2>1, <2>2 DEF OrderLineOf, On
  <2>4. i = k
    BY <2>3, MismatchIs
  <2> QED  BY <2>3, <2>4
<1> QED  BY <1>1, <1>2

(* Only CheckOrderLines refuses a line.                                    *)
LEMMA LineRefusedByOrder ==
    ASSUME TypeOK, SourceInv, NEW po, po # None, \A t \in past : t.order = po,
           NEW i, Mismatch("line_item", i) \in findings
    PROVE  Mismatch("line_item", i) \in CheckOrderLines(invoice, po)
<1> DEFINE f == Mismatch("line_item", i)
<1>1. f.type = "purchase_order_mismatch" /\ f.field = "line_item"
  BY MismatchType, MismatchIs
<1>2. \A field, k : f = Mismatch(field, k) => field = "line_item"
  BY MismatchIs
<1>3. f \in findings
  OBVIOUS
<1> HIDE DEF f
<1>4. FromInvoice(f) \/ FromHistory(f) \/ FromOrder(f) \/ FromCeiling(f) \/ FromRegistry(f)
  BY <1>3 DEF SourceInv, Source
<1>5. ~FromInvoice(f)
  <2>1. \A g : g \in CheckPaymentTermsDueDate(invoice) =>
                   g.type = "payment_terms_due_date_mismatch"
    BY FoundType DEF CheckPaymentTermsDueDate, On
  <2>2. f.type \notin InvoiceTypes
    BY <1>1 DEF InvoiceTypes
  <2> QED  BY <1>1, <2>1, <2>2, InvoiceFindingsAre DEF FromInvoice
<1>6. ~FromHistory(f)
  <2>1. \A x, g, type, metric, line :
            f \in CheckSample(x, g, type, metric, line) =>
                f.type = "insufficient_history" \/ f.type = type
    BY SampleFindingIs
  <2>2. f.type \notin HistoryTypesFound
    BY <1>1 DEF HistoryTypesFound
  <2>3. ~(f \in CheckSample(invoice.total, TotalsOf(invoice, history),
                            "historical_total_outlier", "invoice_total", 0))
    BY <1>1, <2>1
  <2>4. \A k \in DOMAIN invoice.lines :
            ~(f \in CheckSample(invoice.lines[k].price,
                                PricesLike(invoice.lines[k], invoice, history),
                                "historical_line_item_price_outlier",
                                "line_item_unit_price", k))
    BY <1>1, <2>1
  <2> QED  BY <2>2, <2>3, <2>4, HistoryFindingsAre DEF FromHistory
<1>7. ~FromRegistry(f)
  <2>1. \A v : f \notin CheckVendorBankAccount(invoice, v)
    BY <1>1, FoundType DEF CheckVendorBankAccount, On
  <2>2. \A v : f \notin CheckVendorRegistry(invoice, resolution, v)
    BY <1>1, <2>1, RegistryFindingsAre
  <2> QED  BY <2>2 DEF FromRegistry
<1>8. ~FromCeiling(f)
  <2>1. \A t : f \in CheckPurchaseOrderCeiling(invoice, t.order, history) =>
                   f = Mismatch("purchase_order_billed_total", 0)
    BY DEF CheckPurchaseOrderCeiling, On
  <2> QED  BY <1>2, <2>1 DEF FromCeiling
<1>9. f \in CheckPurchaseOrder(invoice, po)
  BY <1>4, <1>5, <1>6, <1>7, <1>8 DEF FromOrder
<1>10. \/ f \in CheckOrderLines(invoice, po)
       \/ f \in {Mismatch("currency", 0), Mismatch("total", 0)}
  BY <1>9 DEF CheckPurchaseOrder, On
<1> QED  BY <1>2, <1>10 DEF f

(* One order line pays for one invoice line, whatever lines the two        *)
(* documents have: the line _check_line_items takes is the one of the same *)
(* rank among those of the key, and it refuses a line if there is none.    *)
THEOREM LinesAreChargedOnce == Spec => []LinesChargedOnce
<1>1. TypeOK /\ SourceInv /\ CheckedInv => LinesChargedOnce
  <2> SUFFICES ASSUME TypeOK, SourceInv, CheckedInv, NEW po \in {t.order : t \in past},
                      pc \notin {"fields", "history", "order", "unavailable", "error"},
                      ReferencesOrder(invoice), po # None, \A t \in past : t.order = po,
                      NEW i \in DOMAIN invoice.lines
               PROVE  (Mismatch("line_item", i) \in findings) <=>
                          /\ Keyed(invoice.lines[i])
                          /\ \A j \in DOMAIN po.lines :
                                 LineKey(po.lines[j]) = LineKey(invoice.lines[i]) =>
                                     Rank(po.lines, j) # Rank(invoice.lines, i)
    BY DEF LinesChargedOnce
  <2>1. OrderChecked
    BY DEF CheckedInv, BeforeOrder, BeforeHistory, Stopped
  <2>2. CheckPurchaseOrder(invoice, po) \subseteq findings
    BY <2>1 DEF OrderChecked
  <2>3. CheckOrderLines(invoice, po) \subseteq findings
    BY <2>2 DEF CheckPurchaseOrder
  <2>4. (Mismatch("line_item", i) \in findings) <=>
            (Keyed(invoice.lines[i]) /\ TakenLines(invoice, po)[i] = 0)
    BY <2>3, LineRefused, LineRefusedByOrder
  <2>5. invoice.lines \in Seq(Line) /\ po.lines \in Seq(Line)
    <3>1. po \in PurchaseOrder
      BY DEF TypeOK, Tables, Maybe
    <3>2. invoice \in Invoice
      BY DEF TypeOK
    <3> QED  BY <3>1, <3>2, InvoiceFieldTypes DEF PurchaseOrder
  <2>6. ASSUME Keyed(invoice.lines[i])
        PROVE  TakenLines(invoice, po)[i] = 0 <=>
                   \A j \in DOMAIN po.lines :
                       LineKey(po.lines[j]) = LineKey(invoice.lines[i]) =>
                           Rank(po.lines, j) # Rank(invoice.lines, i)
    <3> DEFINE x == TakenLines(invoice, po)[i]
    <3>1. \A j \in DOMAIN po.lines :
              LineKey(po.lines[j]) = LineKey(invoice.lines[i]) =>
                  (x = j <=> Rank(po.lines, j) = Rank(invoice.lines, i))
      BY <2>5, <2>6, TakenByRank
    <3>2. i \in Nat /\ \A j \in DOMAIN po.lines : j # 0
      BY <2>5
    <3>3. x = FirstFree(invoice, po, i, TakenLines(invoice, po))
      BY <2>5, TakenAre
    <3>4. x # 0 => x \in FreeLines(invoice, po, i, TakenLines(invoice, po))
      BY <2>5, <3>2, <3>3, FirstFreeIs
    <3>5. x # 0 => x \in DOMAIN po.lines /\ LineKey(po.lines[x]) = LineKey(invoice.lines[i])
      BY <3>4 DEF FreeLines
    <3> HIDE DEF x
    <3>6. x = 0 <=> \A j \in DOMAIN po.lines :
                        LineKey(po.lines[j]) = LineKey(invoice.lines[i]) =>
                            Rank(po.lines, j) # Rank(invoice.lines, i)
      BY <3>1, <3>2, <3>5
    <3> QED  BY <3>6 DEF x
  <2> QED  BY <2>4, <2>6
<1> QED  BY <1>1, VerificationCorrect, PTL

(* The order is a limit, in money and each of its lines for one line of an *)
(* invoice, for whatever is written between the two readings of it.        *)
THEOREM OrdersAreLimits == Spec => []OrderIsALimit
<1>1. OverbillingFlagged /\ LinesChargedOnce => OrderIsALimit
  BY DEF OrderIsALimit
<1> QED  BY <1>1, OverbillingIsFlagged, LinesAreChargedOnce, PTL
================================================================================
