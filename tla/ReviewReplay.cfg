SPECIFICATION FairSpec
CONSTANTS
    admin = admin
    bob = bob
    k1 = k1
    k2 = k2
    caseA = caseA
    caseB = caseB
    d1 = d1
    d2 = d2
    accept = accept
    slot1 = slot1
    slot2 = slot2
    Actors = {admin, bob}
    Admins = {admin}
    NoActor = NoActor
    Cases = {caseA, caseB}
    NoCase = NoCase
    Keys = {k1, k2}
    Decisions = {accept}
    NoDecision = NoDecision
    Requests = {slot1, slot2}
    NoRequest = NoRequest
    Offers <- ReplayOffers
    Docs = {d1, d2}
    NoDoc = NoDoc
    Snapshots = {d1, d2}
    NoSnapshot = NoSnapshot
    MaxClock = 0
    MonotoneClock = TRUE
INVARIANTS
    OkIsRecorded
    SameAnswer
PROPERTIES
    EveryRequestAnswered
