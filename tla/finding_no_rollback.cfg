\* A second worker whose Cap'n Proto name is taken.
SPECIFICATION FairSpec
CONSTANTS
    hello = hello
    billing = billing
    helloV1 = helloV1
    helloV2 = helloV2
    billV1 = billV1
    other = other
    Workers <- MCWorkers
    Versions = {"v1", "v2"}
    Urls <- MCUrls
    Contents <- MCContents
    CompatDates <- MCDates
    Matches = {"/a", "/b"}
    Generations = {"0", "1", "2", "3", "4", "5"}
    CapnpNames = {"workerHello", "workerBilling"}
    CapnpName <- CollidingCapnpName
    DefaultDate = "2025-06-01"
    NoDate = ""
    ZeroGeneration = "0"
    Assignments <- BumpedAssignments
    InitialFiles <- JustHello1
    Edits <- BumpedEdits
    InitialStore <- FullStore
    Settles = TRUE
    Uploads <- NoUploads
    Faults = {}
    NoObject = NoObject
    NoScript = NoScript
    NoConfig = NoConfig
    NoAssignment = NoAssignment
    NotLoaded = NotLoaded
    NoProcess = NoProcess
    Partial = Partial
PROPERTIES StartFailureRolledBack
