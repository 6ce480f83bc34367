\* Deltas of one piece and of two, for parents of two lengths.
SPECIFICATION ObjectSpec
CONSTANTS
    Plain <- Objects
    Scripts <- ScriptSet
    ParentLengths = {66049, 20000000}
    HashLength = 20
INVARIANTS
    HeaderIsExact
    DeltaIsExact
CHECK_DEADLOCK FALSE
