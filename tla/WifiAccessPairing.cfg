\* A route download, the firmware update and another client.
SPECIFICATION WifiSpec
CONSTANTS
    Client = {route, update, pack}
    Foreground = route
    Updater = update
    NoClient = nobody
INVARIANT RadioReservedWhilePairing
CHECK_DEADLOCK FALSE
