\* Glare: each device may dial the other, once.
CONSTANTS
    Device <- MCDevice
    Link <- MCLink
    From <- MCFrom
    To <- MCTo
    NoCall = "no call"
SPECIFICATION Spec
INVARIANTS
    TypeOK
    OneCallPerDevice
    NoMediaBeforeAnswer
    NoOneSidedCall
    RingsForIdentified
PROPERTIES
    EveryCallEnds
    OwnershipSpec
CHECK_DEADLOCK FALSE
