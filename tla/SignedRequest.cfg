\* Headers from every combination of sources, signed or not, sent twice.
SPECIFICATION Spec
CONSTANTS
    Names <- AllNames
    ContentType = "Content-Type"
    Givens <- FewGivens
    Signings <- FewSignings
    MaxSends = 2
    MaxTime = 2
INVARIANTS
    SignatureVerifies
    NothingUnsigned
    
PROPERTY RetriesRepeat
