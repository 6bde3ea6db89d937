\* One reload of an API with retries: does its budget include them?
SPECIFICATION Spec
CONSTANTS
    Names = {a}
    SetupNames = {a}
    Entries <- RetryConfigs
    Configs <- RetryConfigs
    Callers = {c1}
    Reloaders = {t1}
    MaxEdits = 1
INVARIANT ReloadKeepsBudget
