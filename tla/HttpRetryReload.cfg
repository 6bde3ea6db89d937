\* One call while another API is reloaded: is an accepted code sent again?
SPECIFICATION Spec
CONSTANTS
    Calls = {c1}
    RetryCounts <- OneRetry
    Codes <- AllCodes
    AcceptableCodes <- ListedCodes
    MaxReloads = 1
PROPERTY AcceptableNotRetried
