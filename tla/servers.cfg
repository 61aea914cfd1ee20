SPECIFICATION FairSpec
CONSTANTS
    Returned = {"ignored", "deferred", "push"}
    RaisingEvents = {"method_call", "method_return_object",
                     "method_exception_object", "method_redirect",
                     "method_redirect_exception", "method_context_closed"}
    NAux = 2
    AuxOnError = {2}
    AuxRaising = {2}
    Client = {c1, c2, c3}
    Name = {n1, n2}
    NWorkers = 2
    MaxRequests = 2
INVARIANTS NullContract DjangoContract ResponseContract
PROPERTIES ClientsContract ProgressContract
CHECK_DEADLOCK FALSE
