SPECIFICATION OriginSpec
CONSTANTS
    None = None
    Layout = "indented_root"
    AdoptDepth = 2
    MaxOriginEvents = 3
INVARIANTS ReceiptTrue LocalOurs OneHistory
PROPERTY GitConverges
