SPECIFICATION Spec
CONSTANTS
    Calls <- AllCalls
    Pending = Pending
INVARIANTS
    ResolvesByPrecedence
    SentAsMeant
    BodiesDecode
    DirectedAsWritten
    AttemptsAreSound
    FindsFirstOffer
    StrongestDecides
    BuiltAsToldLast
    ValidationsAgree
CHECK_DEADLOCK FALSE
