\* Two calls, one after the other or at once.
SPECIFICATION CallSpec
CONSTANTS
    Link = {l1, l2}
    NoLink = nolink
INVARIANTS
    CallTypeOK
    MediaNeedsCall
    ExclusiveHasCall
PROPERTIES
    OwnershipSpec
    HangupReachesLink
    ResourcesFollowCall
CHECK_DEADLOCK FALSE
