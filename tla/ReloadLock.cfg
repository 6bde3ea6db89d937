\* One call beside one reload: can the update end the process?
SPECIFICATION Spec
CONSTANTS
    Names = {a}
    SetupNames = {a}
    Entries <- RetryConfigs
    Configs <- RetryConfigs
    Callers = {c1}
    Reloaders = {t1}
    MaxEdits = 1
INVARIANT UpdatesAreLocked
