SPECIFICATION Spec
CONSTANTS
    Service = {hk, en}
    Keepalive = {hk}
    Verify = cli
    None = None
    Signals = {"ban", "denied", "aegis", "device", "token", "player", "neutral"}
    MaxLogins = 1
    DeviceLimit = 2
    WritesFail = TRUE
    MaxEvents = 2
INVARIANT StaleExactly
PROPERTIES RequestJustified KeptAlive
CHECK_DEADLOCK FALSE
