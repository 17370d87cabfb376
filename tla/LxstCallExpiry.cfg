\* The link is erased under a running call.
CONSTANTS
    Device <- MCDevice
    Link <- MCLink
    From <- MCFrom
    To <- MCTo
    NoCall = "no call"
SPECIFICATION Spec
INVARIANT
    CallHasItsLink
CHECK_DEADLOCK FALSE
