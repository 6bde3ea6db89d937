\* Two calls, one retry, the codes rewritten once.
SPECIFICATION Spec
CONSTANTS
    Calls = {c1, c2}
    RetryCounts <- AnyRetryCount
    Codes <- AllCodes
    AcceptableCodes <- ListedCodes
    MaxReloads = 1
INVARIANTS
    BoundedSends
    PolicyBeforeSend
    
PROPERTIES
    AcceptableIsFinal
    CallsReturn
