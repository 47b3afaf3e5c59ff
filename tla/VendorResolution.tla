---------------------------- MODULE VendorResolution ----------------------------
(***************************************************************************)
(* What an invoice is matched with in the vendor registry                  *)
(* (src/veridoc/vendors and the finders of persistence/sqlite.py), and     *)
(* what the rules of verification/vendor_rules.py make of the match.       *)
(*                                                                         *)
(* Names and codes are compared in the forms three functions give them:    *)
(* the slug of a name, and for a code the form Python gives it and the one *)
(* SQL gives the stored code, which keeps characters Python drops.         *)
(***************************************************************************)
EXTENDS VerificationRules

CONSTANTS VendorIds,
          SlugOf,   \* derive_canonical_vendor_key of each name, None if empty
          PlainOf,  \* normalize_tax_id, normalize_bank_account of each code
          StoredOf, \* the same code under the REPLACEs of the finders
          Alike     \* calculate_token_similarity of two names, in 1/10000

ASSUME RegistryAssumption ==
    /\ DOMAIN SlugOf = Names
    /\ DOMAIN PlainOf = Codes
    /\ DOMAIN StoredOf = Codes
    /\ Alike \in [Names \X Names -> 0..10000]
    /\ None \notin VendorIds
    /\ \A c, d \in Codes : StoredOf[c] = PlainOf[d] => PlainOf[c] = PlainOf[d]

VendorStatus == {"active", "suspended", "inactive"}

(* names holds the legal name and the aliases, accounts both the account   *)
(* numbers and the IBANs.  vendor_id is unique in the table, key is not.   *)
Vendor == [id : VendorIds, legal : Names, aliases : SUBSET Names,
           key : {KeyOf[n] : n \in Names} \ {None}, status : VendorStatus,
           accounts : SUBSET Codes, taxIds : SUBSET Codes]

ASSUME VendorAssumption == None \notin Vendor

Confidence == {"exact_tax", "exact_bank", "exact_alias", "fuzzy_name", "unresolved"}

Resolution == [vendor : Maybe(VendorIds), confidence : Confidence,
               status : Maybe(VendorStatus)]

NotResolved == [vendor |-> None, confidence |-> "unresolved", status |-> None]

ResolvedTo(v, confidence) ==
    [vendor |-> v.id, confidence |-> confidence, status |-> v.status]

Plain(code) == IF code = None THEN None ELSE PlainOf[code]

-----------------------------------------------------------------------------
(* Queries of the registry.                                                *)

FindByTaxId(vendors, plain) ==
    {v \in vendors : \E c \in v.taxIds : StoredOf[c] = plain}

FindByAccount(vendors, plain) ==
    {v \in vendors : \E c \in v.accounts : StoredOf[c] = plain}

FindByKey(vendors, slug) == {v \in vendors : v.key = slug}

FindByAlias(vendors, slug) == {v \in vendors : \E n \in v.aliases : SlugOf[n] = slug}

(* The names a vendor is looked for by, the identifier first.              *)
Candidates(inv) ==
    (IF inv.identifier = None THEN <<>> ELSE <<inv.identifier>>)
        \o (IF inv.name = None THEN <<>> ELSE <<inv.name>>)

FuzzyThreshold == 8500
Margin == 100

Likeness(inv, v) ==
    Max({0} \cup {Alike[<<Candidates(inv)[i], n>>] :
                     i \in DOMAIN Candidates(inv), n \in v.aliases \cup {v.legal}})

Similar(inv, vendors) == {v \in vendors : Likeness(inv, v) >= FuzzyThreshold}

(* The vendor most like the names, unless the next is nearly as like.      *)
MostSimilar(inv, vendors) ==
    {v \in Similar(inv, vendors) :
        \A w \in Similar(inv, vendors) \ {v} : Likeness(inv, v) >= Likeness(inv, w) + Margin}

-----------------------------------------------------------------------------
(* The rules.                                                              *)

CheckVendorRegistration(res, inv) ==
    On(/\ res.confidence = "unresolved"
       /\ \E x \in {inv.name, inv.identifier, inv.taxId, inv.account} : x # None,
       Found("unregistered_vendor", "medium", "vendor", 0))

CheckVendorStatus(res) ==
    On(res.vendor # None /\ res.status \in {"suspended", "inactive"},
       Found("suspended_vendor", "high", "vendor", 0))

Declares(codes, plain) == \E c \in codes : PlainOf[c] = plain

(* Mutant: a vendor without an account is not held against the invoice,  *)
(* as one without a tax identifier is not.                                 *)
CheckKnownBankAccount(inv, v) ==
    IF v = None \/ Plain(inv.account) = None THEN {}
    ELSE On(v.accounts # {} /\ ~Declares(v.accounts, Plain(inv.account)),
            Found("vendor_bank_account_mismatch", "high", "account", 0))

(* v is the vendor of the resolution read again, None if it is gone.       *)
CheckVendorBankAccount(inv, v) ==
    IF v = None \/ Plain(inv.account) = None THEN {}
    ELSE On(~Declares(v.accounts, Plain(inv.account)),
            Found("vendor_bank_account_mismatch", "high", "account", 0))

CheckVendorTaxId(inv, v) ==
    IF v = None \/ Plain(inv.taxId) = None THEN {}
    ELSE On(v.taxIds # {} /\ ~Declares(v.taxIds, Plain(inv.taxId)),
            Found("vendor_tax_id_mismatch", "high", "tax_id", 0))

CheckVendorRegistry(inv, res, v) ==
    UNION {CheckVendorRegistration(res, inv), CheckVendorStatus(res),
           CheckVendorBankAccount(inv, v), CheckVendorTaxId(inv, v)}
=============================================================================
