\* Does an error reply without body keep its status?
SPECIFICATION Spec
CONSTANTS
    Codes <- AllCodes
    AcceptableCodes <- ListedCodes
INVARIANT BodylessErrorKeepsStatus
