CONSTANTS
    None = None
    text1 = text1
    text2 = text2
    Value = {text1}
    Empty = Empty
    MaxLen = 2
    FlatTypeInfo <- MCFlatTypeInfo
    Subclasses <- MCSubclasses
    FlatInstances <- MCFlatInstances
    FlatDocs <- MCFlatDocs
    ArrayDocs <- MCArrayDocs
    HierClasses <- MCHierClasses
    HierProts <- MCHierProts
    HierDocs <- MCHierDocs
    XmlClasses <- MCXmlClasses
    XmlDocs <- MCXmlDocs
    ClothTypes <- MCClothTypes
    ClothInsts <- MCClothInsts
    Cloths <- MCCloths
    Classes <- MCClasses
    MarkupProts <- MCMarkupProts
    MarkupFields <- MCMarkupFields
    Orders <- MCOrders
    Calls <- MCCalls
    Answers <- MCAnswers
    SentHeaders <- MCSentHeaders
    Requests <- MCRequests
    Faults <- MCFaults
    HttpRequests <- MCHttpRequests
    MaxContentLength = 5
    BlockLength = 2
    EnvironName <- MCEnvironName
    Precedence <- MCPrecedence
    Uploads <- MCUploads
    Queries <- MCQueries
    Cookies <- MCCookies
    Peers <- MCPeers
    Environs <- MCEnvirons
    Bodies <- MCBodies
    HttpAnswers <- MCHttpAnswers
    TextOrder <- MCTextOrder
    Escaped <- MCEscaped
    NameOrder <- MCNameOrder
    IndexOrder <- MCIndexOrder
SPECIFICATION Spec
INVARIANTS RoundTrips ArraysInOrder Occurrences MessagesArrive
CHECK_DEADLOCK FALSE
