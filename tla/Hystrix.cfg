\* Two calls compete for one ticket; one bad report opens the circuit.
SPECIFICATION Spec
CONSTANTS
    Results <- FewResults
    Calls = {c1, c2}
    Concurrency = 1
    RequestVolume = 1
INVARIANTS
    TicketsConserved
    ErrorMeansTicketBack
    NoErrorMeansRan
    HystrixErrorsAreHonest
    CircuitOpenIsEarned
PROPERTIES
    CallsReturn
    RefinesBulkhead
