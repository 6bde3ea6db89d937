\* Every reply, failure and interception through every layer.
SPECIFICATION Spec
CONSTANTS
    Codes <- AllCodes
    AcceptableCodes <- ListedCodes
INVARIANTS
    
    StatusSurvives
    RefusalsStayVisible
    SuccessIsComplete
