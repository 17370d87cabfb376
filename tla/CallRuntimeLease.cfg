\* One call is enough.
SPECIFICATION CallSpec
CONSTANTS
    Link = {l1}
    NoLink = nolink
INVARIANT LeaseReleasedWithCall
CHECK_DEADLOCK FALSE
