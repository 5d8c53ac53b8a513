SPECIFICATION Spec
CONSTANTS
    Files = {f1, f2}
    Stored = {f1}
    Folders = {d1, d2}
    Home = d1
    Root = Root
    MaxRequests = 3
    NParts = 2
    MaxCrashes = 1
INVARIANTS
    OneRowPerFile
    DeletedIsFinal
    ListedIsStored
    AcknowledgedEditKept
    OnlyLateArrivalsLost
    PreviewKept
PROPERTIES
    OrphanPreviewsSwept
