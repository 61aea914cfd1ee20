SPECIFICATION FairSpec
CONSTANTS
    Returned = {"ignored", "deferred", "push", "file"}
    RaisingEvents = {"method_call", "method_return_object", "method_return_push",
                     "method_exception_object", "method_redirect",
                     "method_redirect_exception", "method_context_closed"}
    NAux = 2
    AuxOnError = {2}
    AuxRaising = {2}
    Chunks = 2
    MaxPushes = 2
INVARIANTS RightAnswer OnceEach
PROPERTIES Answered Released
CHECK_DEADLOCK FALSE
