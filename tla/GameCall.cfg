SPECIFICATION Spec
CONSTANTS
    Callers = {c}
    Poller = v
    Refresher = r
    Routes = {"ranking"}
    None = None
    MaxInflight = 2
    MaxAnonymous = 1
    Attempts = 2
    MaxEntries = 1
    MaxEvents = 2
INVARIANTS CacheScoped SuspectJustified SnapshotCurrent
PROPERTIES VersionRecovers CallsComplete
