\* Three functions, one of which comes back; two calls, two changes of the map.
SPECIFICATION Spec
CONSTANTS
    Calls = {c1, c2}
    AsyncCalls = {c1}
    Admins = {a1}
    Interceptors = {i1, i2, i3}
    Reentrant = {i3}
    MaxChanges = 2
INVARIANTS
    UnregisteredRests
PROPERTIES
    NobodyIsOverruled
    CallsReturn
    ListenersAreAnswered
    ChangesReturn
