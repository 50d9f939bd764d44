\* Any edit of the table, nodes that lag or fail, gateway restarts, two
\* connections at a time.
SPECIFICATION FairSpec
CONSTANTS
    hello = hello
    admin = admin
    n1 = n1
    n2 = n2
    Connections = {c1, c2}
    RequestSpace <- MCRequests
    Nodes <- MCNodes
    PodHost <- MCPodHost
    Pathname <- MCPathname
    Workers <- MCWorkers
    Generations = {0, 1, 2}
    Tables <- MCTables
    InitialTables <- MCTables
    TableEdits <- MCTableEdits
    NoRoute = NoRoute
    NoRequest = NoRequest
    NoNode = NoNode
    NoAnswer = NoAnswer
    Down = Down
    Unparsable = Unparsable
INVARIANTS TypeOK AnsweredAsRouted
PROPERTIES NewTableUsed RequestsRouted
