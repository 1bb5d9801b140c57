SPECIFICATION Spec
CONSTANTS
    Tasks = {t1, t2}
    Fields = {"email"}
    Origins = {1, 2}
    Setups <- SomeSetups
    AppGrants <- SomeKeys
    Absent = Absent
    MaxElements = 1
    MaxEntries = 1
    MaxRestarts = 1
SYMMETRY TaskSymmetry
INVARIANTS
    TypeOK
    AllowsWithinQuota
    AnswersCiteConsent
    RefusalsAreTruthful
PROPERTIES
    UnaskedRestsOnConsent
