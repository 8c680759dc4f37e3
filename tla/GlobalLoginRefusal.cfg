SPECIFICATION Spec
CONSTANTS
    Service = {hk}
    Keepalive = {}
    Verify = cli
    None = None
    Signals = {"token"}
    MaxLogins = 1
    DeviceLimit = 2
    WritesFail = FALSE
    MaxEvents = 4
PROPERTY RefusalKept
CHECK_DEADLOCK FALSE
