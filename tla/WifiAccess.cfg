\* A route download, the firmware update and another client.
SPECIFICATION WifiSpec
CONSTANTS
    Client = {route, update, pack}
    Foreground = route
    Updater = update
    NoClient = nobody
INVARIANTS
    WifiTypeOK
    OneTransaction
    PreemptedIsRevoked
PROPERTIES
    PreemptedLetsGo
    CallGetsGateway
CHECK_DEADLOCK FALSE
