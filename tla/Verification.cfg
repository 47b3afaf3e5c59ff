SPECIFICATION Spec
CONSTANTS
    None = None
    Names <- MCNames
    KeyOf <- MCKeyOf
    Numbers <- MCNumbers
    NumberOf <- MCNumberOf
    Codes <- MCCodes
    Orders = {"PO-1", ""}
    Blank = ""
    Currencies = {"EUR", "USD"}
    Words = {"bolt", "steel", "nut"}
    MaxDate = 10690
    VendorIds = {"v1", "v2", "v3", "v4", "v5"}
    SlugOf <- MCSlugOf
    PlainOf <- MCPlainOf
    StoredOf <- MCStoredOf
    Alike <- MCAlike
    Today <- MCToday
    Cases <- MCCases
    Entries <- MCEntries
    OrderRows <- MCOrderRows
    VendorRows <- MCVendorRows
    MaxHistory = 4
CHECK_DEADLOCK FALSE
INVARIANT TypeOK
INVARIANT ClearIsEarned
INVARIANT FlagsAreReal
INVARIANT StrongestEvidenceDecides
INVARIANT ForeignAccountFlagged
INVARIANT OrderIsALimit
