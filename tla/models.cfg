CONSTANTS
    Field = {a, b}
    Token = {s}
    MaxClasses = 3
    MaxSets = 2
    MaxViews = 1
    None = None
    Apps <- MCApps
    Services <- MCServices
    Described <- MCDescribed
    Decorated <- MCDecorated
    Makings <- MCMakings
    Fillings <- MCFillings
    Schemas <- MCSchemas
    Stores <- MCStores
    Numbers <- MCNumbers
    Strings <- MCStrings
    Durations <- MCDurations
    DateTimes <- MCDateTimes
    Sent <- MCSent
    Thread = {t1, t2, t3}
    MaxChanges = 2
SPECIFICATION ModelsSpec
INVARIANTS NothingStale NothingMissing CustomizationsKept MemoContract ComputedOnce InterfaceSound ValuesAgree
CHECK_DEADLOCK FALSE
