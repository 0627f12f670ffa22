CONSTANTS
    common = common
    CollectionCreated = CollectionCreated
    ItemCreated = ItemCreated
    d1 = d1
    d2 = d2
    Sections <- MCSections
    Methods <- MCMethods
    Data <- MCData
    MaxSigLen = 4
    MaxEvents = 2
SPECIFICATION Spec
INVARIANT ExtractorTypeOK
INVARIANT EventDataMatchesReference
\* Each input is evaluated once; the function then has nothing left to do.
CHECK_DEADLOCK FALSE
