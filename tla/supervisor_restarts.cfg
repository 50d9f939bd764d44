\* Faults of everything but the downloads; every edit has a generation of its own,
\* and a worker is never given an earlier version again.
SPECIFICATION FairSpec
CONSTANTS
    hello = hello
    billing = billing
    helloV1 = helloV1
    helloV2 = helloV2
    billV1 = billV1
    other = other
    Workers <- MCWorkers
    Versions = {"v1", "v2"}
    Urls <- MCUrls
    Contents <- MCContents
    CompatDates <- MCDates
    Matches = {"/a", "/b"}
    Generations = {"0", "1", "2", "3", "4", "5"}
    CapnpNames = {"workerHello", "workerBilling"}
    CapnpName <- MCCapnpName
    DefaultDate = "2025-06-01"
    NoDate = ""
    ZeroGeneration = "0"
    Assignments <- UpgradeAssignments
    InitialFiles <- UpgradeAssignments
    Edits <- UpgradeEdits
    InitialStore <- FullStore
    Settles = TRUE
    Uploads <- NoUploads
    Faults = {"read", "write", "spawn", "exit", "crash"}
    NoObject = NoObject
    NoScript = NoScript
    NoConfig = NoConfig
    NoAssignment = NoAssignment
    NotLoaded = NotLoaded
    NoProcess = NoProcess
    Partial = Partial
INVARIANTS LoadedIsBound RoutesChangeWithoutRestart ReportsWhatIsServed
PROPERTIES AvailableWorkersServed RemovedWorkersUnbound
