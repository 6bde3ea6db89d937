\* One request through either order of the middlewares.
SPECIFICATION Spec
CONSTANTS
    Chains <- AllChains
    Bodies <- AllBodies
    Headers <- RequestHeaders
    Replies <- AllReplies
    ErrorSets <- AllErrors
    LogConfigs <- AllLogs
INVARIANTS
    HandlerSeesBody
    LogIsWhatWasSent
    
    ErrorsAnswered
