----------------------------- MODULE MCVerification -----------------------------
(***************************************************************************)
(* Verification for TLC: families of cases around one invoice that earns   *)
(* its clear verdict.  Each family varies what one group of rules reads;   *)
(* the last ones let administrators write meanwhile.                       *)
(***************************************************************************)
EXTENDS Verification

MCToday == 700  \* a Monday

MCNames == {"Acme", "Globex", "Globex A", "Globex B", "Rock & Co", "-"}

MCKeyOf == [n \in MCNames |->
    CASE n = "Acme" -> "acme"         [] n = "Globex" -> "globex"
      [] n = "Globex A" -> "globex-a" [] n = "Globex B" -> "globex-b"
      [] n = "Rock & Co" -> "rock-co" [] n = "-" -> None]

(* The registry's slug keeps the ampersand that the history's key drops.   *)
MCSlugOf == [MCKeyOf EXCEPT !["Rock & Co"] = "rock-&-co"]

MCAlike == [p \in MCNames \X MCNames |->
    IF p[1] = p[2] THEN (IF p[1] = "-" THEN 0 ELSE 10000)
    ELSE IF {p[1], p[2]} = {"Globex A", "Globex B"} THEN 8750
    ELSE IF {p[1], p[2]} \subseteq {"Globex", "Globex A", "Globex B"} THEN 8571
    ELSE 2000]

MCCodes == {"DE 1", "DE_1", "FR 2", "--"}
MCPlainOf == [c \in MCCodes |->
    CASE c \in {"DE 1", "DE_1"} -> "DE1" [] c = "FR 2" -> "FR2" [] c = "--" -> None]
(* SQL leaves the underscore where it is.                                  *)
MCStoredOf == [MCPlainOf EXCEPT !["DE_1"] = "DE_1", !["--"] = ""]

MCNumbers == {"A-17", "a- 17", "A-1", " "}
MCNumberOf == [n \in MCNumbers |->
    CASE n \in {"A-17", "a- 17"} -> "a-17" [] n = "A-1" -> "a-1" [] n = " " -> None]

-----------------------------------------------------------------------------

Bolt(quantity, price) ==
    [product |-> "bolt", description |-> "steel", quantity |-> quantity,
     price |-> price, amount |-> quantity * price]

Net30 == [form |-> "net", days |-> 30, wording |-> 1]

Sound == [document |-> "invoice", name |-> "Acme", identifier |-> None,
          taxId |-> "DE 1", account |-> "FR 2", number |-> "A-17", order |-> None,
          date |-> MCToday, due |-> MCToday + 30, currency |-> "EUR",
          subtotal |-> 10, tax |-> 2, discount |-> None, total |-> 12,
          terms |-> Net30, lines |-> <<Bolt(2, 5)>>, uncertainties |-> 0]

Billed(total, line) ==
    [number |-> "A-1", order |-> None, currency |-> "EUR", total |-> total,
     terms |-> Net30, lines |-> <<line>>]

Usual == <<Billed(10, Bolt(2, 5)), Billed(12, Bolt(1, 5)), Billed(14, Bolt(3, 6))>>

Registered(id, name, status, accounts, taxIds) ==
    [id |-> id, legal |-> name, aliases |-> {}, key |-> MCKeyOf[name],
     status |-> status, accounts |-> accounts, taxIds |-> taxIds]

Acme == Registered("v1", "Acme", "active", {"FR 2"}, {"DE_1", "DE 1"})

Peaceful(inv, earlier, order, vendors) ==
    [invoice |-> inv, writes |-> 0,
     tables |-> [history |-> earlier, order |-> order, vendors |-> vendors]]

AloneWith(inv) == Peaceful(inv, Usual, None, {Acme})

-----------------------------------------------------------------------------
(* One verification, undisturbed.                                          *)

Amounts ==
    {AloneWith([Sound EXCEPT !.subtotal = s, !.tax = t, !.discount = d, !.total = x]) :
        s \in {None, 0, 10}, t \in {None, -1, 2}, d \in {None, -1, 1, 11},
        x \in {None, -1, 0, 9, 11, 12, 14, 15}}

Lines == {Bolt(2, 5), Bolt(1, 5), [Bolt(1, 5) EXCEPT !.amount = 8],
          [Bolt(2, 5) EXCEPT !.product = None, !.price = None],
          [Bolt(0, 5) EXCEPT !.product = None, !.description = None],
          [Bolt(1, 5) EXCEPT !.product = "nut"]}

OrderLines == {Bolt(1, 5), Bolt(2, 6), [Bolt(5, 5) EXCEPT !.product = "nut", !.price = None]}

Lists(S, n) == UNION {[1..k -> S] : k \in 0..n}

Order(currency, total, lines) == [currency |-> currency, total |-> total, lines |-> lines]

Deliveries ==
    {Peaceful([Sound EXCEPT !.lines = l, !.order = "PO-1"], Usual,
              Order("EUR", 12, o), {Acme}) :
        l \in Lists(Lines, 2), o \in Lists(OrderLines, 2)}
    \cup
    {Peaceful([Sound EXCEPT !.lines = <<Bolt(1, 5), l, Bolt(2, 5)>>, !.order = "PO-1"], Usual,
              Order("EUR", 12, o), {Acme}) :
        l \in Lines, o \in [1..3 -> OrderLines]}

Dates ==
    {AloneWith([Sound EXCEPT !.date = MCToday - back, !.due = MCToday - back + days,
                             !.terms = t, !.order = o]) :
        back \in {-2, -1, 0, 1, 2, 3, 4, 90, 91}, days \in {-1, 0, 1, 2, 3, 30, 32, 365, 366},
        t \in {None, Net30, [form |-> "immediate", days |-> 0, wording |-> 1],
               [form |-> "cash", days |-> 1, wording |-> 1],
               [form |-> "other", days |-> 0, wording |-> 1]},
        o \in {None, ""}}
    \cup {AloneWith([Sound EXCEPT !.date = MCToday + 9970, !.due = MCToday + 9999]),
          AloneWith([Sound EXCEPT !.date = None]), AloneWith([Sound EXCEPT !.due = None])}

Earlier == {Billed(10, Bolt(2, 5)), Billed(12, Bolt(1, 6)), [Billed(None, Bolt(4, 5)) EXCEPT !.terms = None],
            [Billed(14, [Bolt(1, 9) EXCEPT !.product = "nut"]) EXCEPT !.number = "A-17"],
            [Billed(16, Bolt(2, 9)) EXCEPT !.currency = None],
            [Billed(14, Bolt(3, 5)) EXCEPT !.number = "a- 17"]}

(* Eight or nine of one total and one of another: the other lies two and a *)
(* half, or three, deviations from the mean.                               *)
AllButOne(n) == Append([i \in 1..(n - 1) |-> Billed(10, Bolt(2, 5))], Billed(30, Bolt(6, 5)))

Histories ==
    {Peaceful([Sound EXCEPT !.total = x, !.currency = c, !.subtotal = None], h, None, {Acme}) :
        x \in {9, 12}, c \in {"EUR", None}, h \in Lists(Earlier, 3)}
    \cup
    {Peaceful([Sound EXCEPT !.total = 17, !.subtotal = None], h, None, {Acme}) :
        h \in [1..4 -> Earlier]}
    \cup {Peaceful([Sound EXCEPT !.total = x, !.lines = <<l>>, !.subtotal = None],
                   AllButOne(n), None, {Acme}) :
             x \in {10, 20, 30}, l \in {Bolt(2, 5), Bolt(6, 5)}, n \in {9, 10}}

Registry == {Acme,
             [Acme EXCEPT !.status = "suspended", !.accounts = {}],
             Registered("v2", "Globex A", "active", {"FR 2"}, {"DE_1"}),
             [Registered("v3", "Globex B", "inactive", {"DE 1"}, {"FR 2"})
                 EXCEPT !.aliases = {"Globex", "Rock & Co"}],
             [Registered("v4", "Rock & Co", "active", {}, {}) EXCEPT !.aliases = {"Globex"}],
             [Registered("v5", "Globex A", "active", {"DE_1"}, {"--"}) EXCEPT !.aliases = {"Acme"}]}

Strangers ==
    {Peaceful([Sound EXCEPT !.taxId = t, !.account = a, !.name = n, !.identifier = i],
              Usual, None, vs) :
        t \in {None, "DE 1", "--"}, a \in {None, "DE_1", "FR 2"},
        n \in {None, "Acme", "Globex", "Globex A", "Rock & Co", "-"}, i \in {None, "-", "Globex"},
        vs \in {w \in SUBSET Registry : Cardinality(w) \leq 2 /\ UniqueIds(w)}}

Readings ==
    {AloneWith([Sound EXCEPT ![f] = None]) : f \in {"number", "currency", "terms"}}
    \cup {AloneWith([Sound EXCEPT !.number = n]) : n \in MCNumbers}
    \cup {AloneWith([Sound EXCEPT !.document = d]) : d \in {"purchase_order", "unknown"}}
    \cup {AloneWith([Sound EXCEPT !.uncertainties = 2]), AloneWith([Sound EXCEPT !.lines = <<>>])}

-----------------------------------------------------------------------------
(* Verifications with administrators about.                                *)

OnOrder(total) == [Billed(total, Bolt(1, 5)) EXCEPT !.order = "PO-1"]

MCEntries == {OnOrder(8), [OnOrder(None) EXCEPT !.number = "A-17"]}
MCOrderRows == {Order("EUR", 12, <<Bolt(2, 5)>>), Order(None, 24, <<Bolt(1, 5), Bolt(2, 5)>>),
                Order("USD", 15, <<Bolt(2, 5)>>)}
MCVendorRows == {[Acme EXCEPT !.accounts = {}],
                 [Registered("v2", "Globex", "suspended", {"FR 2"}, {"DE 1"}) EXCEPT !.aliases = {"Acme"}]}

Disturbed ==
    {[invoice |-> [Sound EXCEPT !.order = "PO-1", !.taxId = t, !.account = a,
                                !.name = "Acme", !.currency = c],
      writes |-> 1,
      tables |-> [history |-> h, order |-> o, vendors |-> vs]] :
        t \in {None, "DE 1"}, a \in {"DE 1", "FR 2"}, c \in {"EUR", None},
        h \in {Usual, <<OnOrder(8)>>}, o \in MCOrderRows,
        vs \in {{Acme}, {Acme, CHOOSE v \in MCVendorRows : v.id = "v2"}}}
    \cup
    {[invoice |-> [Sound EXCEPT !.order = "PO-1"], writes |-> 2,
      tables |-> [history |-> Usual, order |-> Order("EUR", 12, <<Bolt(2, 5)>>),
                  vendors |-> {Acme}]]}

MCCases == Amounts \cup Deliveries \cup Dates \cup Histories \cup Strangers
               \cup Readings \cup Disturbed
=============================================================================
