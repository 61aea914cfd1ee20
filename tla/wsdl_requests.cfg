SPECIFICATION FairSpec
CONSTANTS
    Threads = {t1, t2}
    Servers = {"wsgi", "django"}
    CacheWsdl = TRUE
    MayRaise = TRUE
    NoThread = NoThread
    NoDoc = NoDoc
INVARIANT SameAnswer
PROPERTY Served
CHECK_DEADLOCK FALSE
