\* Two calls, one ticket; the configuration is edited and reloaded once.
SPECIFICATION Spec
CONSTANTS
    Calls = {c1, c2}
    Concurrency = 1
    Configs <- FewConfigs
    DefaultWait = 4
    MaxWait = 8
    MaxEdits = 1
    MaxReloads = 1
SYMMETRY CallSymmetry
INVARIANTS
    OnePolicyPerClient
PROPERTIES
    AttemptsFit
    
    OverlapIsMomentary
