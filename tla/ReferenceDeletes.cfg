SPECIFICATION Spec
CONSTANTS
    rec1 = rec1
    rec2 = rec2
    e1 = e1
    e2 = e2
    n1 = n1
    c1 = c1
    c2 = c2
    slot1 = slot1
    slot2 = slot2
    Records = {rec1, rec2}
    Externals = {e1, e2}
    Naturals = {n1}
    NoNatural = NoNatural
    Contents = {c1, c2}
    NoContent = NoContent
    Slots = {slot1, slot2}
    NoSlot = NoSlot
    NoRecord = NoRecord
    Offers <- DeleteOffers
    MaxLog = 3
INVARIANTS
    BeforeImagesTrue
