CONSTANTS
    Keep = 1
    NoResource = NoResource
    Resource = Resource
    Targets = {t1}
    MaxHash = 2
    MaxEvents = 2
SPECIFICATION OwnerSpec
INVARIANT AnnouncedServed
PROPERTIES ServedForward LocalPublished Delivered
CHECK_DEADLOCK FALSE
