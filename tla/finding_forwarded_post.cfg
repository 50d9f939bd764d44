\* The routes of scripts/test-worker-runtime.sh, one table that nobody edits.
SPECIFICATION Spec
CONSTANTS
    hello = hello
    admin = admin
    n1 = n1
    n2 = n2
    Connections = {c1, c2}
    RequestSpace <- ExampleRequests
    Nodes <- MCNodes
    PodHost <- MCPodHost
    Pathname <- MCPathname
    Workers <- MCWorkers
    Generations = {0, 1}
    Tables <- ExampleTables
    InitialTables <- ExampleTables
    TableEdits = {}
    NoRoute = NoRoute
    NoRequest = NoRequest
    NoNode = NoNode
    NoAnswer = NoAnswer
    Down = Down
    Unparsable = Unparsable
INVARIANT MatchedIsServed
