SPECIFICATION FairSpec
CONSTANTS
    Handlers = {h1, h2, h3}
    Fires = {f1}
    MaxNodes = 5
    NoKey = NoKey
INVARIANT Delivery
PROPERTIES Ends ImplementsOrder
CHECK_DEADLOCK FALSE
