SPECIFICATION Spec
CONSTANTS
    Threads = {t1, t2}
    Servers = {"wsgi"}
    CacheWsdl = TRUE
    MayRaise = FALSE
    NoThread = NoThread
    NoDoc = NoDoc
INVARIANT WsgiSafe
CHECK_DEADLOCK FALSE
