------------------------------ MODULE Gateway ------------------------------
(***************************************************************************)
(* The routing gateway (packages/neki-worker-router) in front of its       *)
(* worker-node pods: the routing table behind a tokio RwLock, the refresh  *)
(* task, and one task per connection.                                      *)
(*                                                                         *)
(* A node is what its router Worker does: it has the routes of its shard   *)
(* of some routing table, or is down.  A request that reaches a node is    *)
(* matched a second time, by the node's own routes; that a matched route   *)
(* has its binding there is what Supervisor shows (RouterDispatches).      *)
(*                                                                         *)
(* The lock is write preferring: a connection that wants to read waits     *)
(* behind a refresh that wants to write.  Requests are assumed to have no  *)
(* body line that looks like a request line or a Host header, and Workers  *)
(* to answer without a redirect, which the HTTP client would follow.       *)
(***************************************************************************)
EXTENDS RouteMatch, Arrange

CONSTANTS
    Connections,    \* slots for connection tasks: one request each, then
                    \* the slot takes another connection
    RequestSpace,   \* what a client may ask: records host, method, path
    Nodes,          \* worker-node pods
    PodHost,        \* [Nodes -> STRING]: the host a node sees in what the
                    \* gateway sends it
    Pathname,       \* the path that a URL parser finds, for each path asked,
                    \* in the address of a pod with the path appended
    Workers,        \* worker ids
    Generations,    \* generations of routing tables, compared for equality
    Tables,         \* routing tables the file may hold
    InitialTables,  \* those it may hold at the start
    TableEdits,     \* pairs of tables: the edits of the file
    NoRequest, NoNode, NoAnswer, Down,
    Unparsable

RouteTarget == [node: Nodes, healthy: BOOLEAN]
GlobalRoute == [host: STRING, prefix: Seq(STRING), methods: SUBSET STRING,
                worker: Workers, targets: Seq(RouteTarget)]
RoutingTable == [gen: Generations, routes: Seq(GlobalRoute)]

EmptyTable == [gen |-> 0, routes |-> <<>>]

Errors == {404, 502, 503}

\* The tables, edits and requests are well formed, and the markers and error
\* statuses are none of the values they are told apart from.
ASSUME GatewayAssumption ==
    /\ 0 \in Generations
    /\ Tables \subseteq RoutingTable
    /\ InitialTables \subseteq Tables
    /\ TableEdits \subseteq Tables \X Tables
    /\ PodHost \in [Nodes -> STRING]
    /\ RequestSpace \subseteq [host: STRING, method: STRING, path: Seq(STRING)]
    /\ \A r \in RequestSpace : Pathname[r.path] \in Seq(STRING) \union {Unparsable}
    /\ NoRoute \notin GlobalRoute
    /\ NoNode \notin Nodes
    /\ NoAnswer \notin Workers
    /\ Workers \intersect Errors = {}

VARIABLES
    tableFile,  \* the routing table file
    settled,    \* no edit and no change of a node happens any more
    routesOf,   \* the routes each node's router Worker has, or Down
    table,      \* Arc<RwLock<RoutingTable>>
    refresher,  \* where the refresh task is
    fresh,      \* the table it read
    at,         \* where each connection is
    request,    \* the request it read
    target,     \* the node it selected
    answer      \* a worker or an error status, once answered

world == <<tableFile, settled, routesOf>>
refresh == <<table, refresher, fresh>>
connections == <<at, request, target, answer>>
vars == <<world, refresh, connections>>

-----------------------------------------------------------------------------
\* Variant: every target counts as healthy.
AnyTarget(r) == IF r.targets = <<>> THEN NoNode ELSE r.targets[1].node

\* The first healthy target; weights are not used.
SelectTarget(r) ==
    LET healthy == {i \in DOMAIN r.targets : r.targets[i].healthy}
    IN  IF healthy = {} THEN NoNode
        ELSE r.targets[CHOOSE i \in healthy : \A j \in healthy : i <= j].node

\* The routes of a table that have a target on node n: its node's shard.
Shard(t, n) ==
    Selected(t.routes, {k \in DOMAIN t.routes :
        \E i \in DOMAIN t.routes[k].targets : t.routes[k].targets[i].node = n})

\* What arrives at a node: a POST to the pod's address, with what the URL
\* parsers of the gateway's client and of the router Worker leave of the path.
Forwarded(c) == [host |-> PodHost[target[c]], method |-> "POST",
                 path |-> Pathname[request[c].path]]

\* The gateway starts with the table of the file, or with an empty one if it
\* cannot read the file, and with no connection.
Idle == [at |-> [c \in Connections |-> "accept"],
         request |-> [c \in Connections |-> NoRequest],
         target |-> [c \in Connections |-> NoNode],
         answer |-> [c \in Connections |-> NoAnswer]]

Init ==
    /\ tableFile \in InitialTables
    /\ settled = FALSE
    /\ routesOf = [n \in Nodes |-> Shard(tableFile, n)]
    /\ table \in {tableFile, EmptyTable}
    /\ refresher = "sleep"
    /\ fresh = table
    /\ at = Idle.at
    /\ request = Idle.request
    /\ target = Idle.target
    /\ answer = Idle.answer

\* Connections that hold the read lock across an await: the write of a 404
\* or a 503 happens before the lock is dropped.
Readers == {c \in Connections : at[c] \in {"404", "503"}}

\* A new connection is accepted and its request read and parsed.
ReadRequest(c) ==
    /\ at[c] \in {"accept", "answered"}
    /\ \E r \in RequestSpace : request' = [request EXCEPT ![c] = r]
    /\ at' = [at EXCEPT ![c] = "match"]
    /\ target' = [target EXCEPT ![c] = NoNode]
    /\ answer' = [answer EXCEPT ![c] = NoAnswer]
    /\ UNCHANGED <<world, refresh>>

\* Variant: a matched route is forwarded whether it has a target or not.
ForwardEveryMatch(t, r) ==
    LET found == MatchRequest(t.routes, r) IN
    IF found = NoRoute THEN [at |-> "404", target |-> NoNode]
    ELSE [at |-> "forward", target |-> SelectTarget(found)]

\* What the gateway does with a request under table t: forward it to a node,
\* or refuse it.
Decision(t, r) ==
    LET found == MatchRequest(t.routes, r) IN
    IF found = NoRoute THEN [at |-> "404", target |-> NoNode]
    ELSE LET node == SelectTarget(found) IN
         IF node = NoNode THEN [at |-> "503", target |-> NoNode]
         ELSE [at |-> "forward", target |-> node]

\* A connection that wants the read lock, and no refresh wants to write.
MayRead(c) == at[c] = "match" /\ refresher # "install"

\* Matching and selection happen in one critical section.
MatchAndSelect(c) ==
    /\ MayRead(c)
    /\ \E decision \in {Decision(table, request[c])} :
          /\ at' = [at EXCEPT ![c] = decision.at]
          /\ target' = [target EXCEPT ![c] = decision.target]
    /\ UNCHANGED <<world, refresh, request, answer>>

\* The 404 or 503 is written, then the lock dropped.
Refuse(c) ==
    /\ c \in Readers
    /\ answer' = [answer EXCEPT ![c] = IF at[c] = "404" THEN 404 ELSE 503]
    /\ at' = [at EXCEPT ![c] = "answered"]
    /\ UNCHANGED <<world, refresh, request, target>>

\* The lock is dropped; the request goes to the node selected before, and the
\* Worker answers, if it ever does: the client sets no timeout.
Forward(c) ==
    LET n == target[c]
        found == MatchRoute(routesOf[n], Forwarded(c))
    IN  /\ at[c] = "forward"
        /\ answer' = [answer EXCEPT ![c] =
                         IF Pathname[request[c].path] = Unparsable THEN 502
                         ELSE IF routesOf[n] = Down THEN 502
                         ELSE IF found = NoRoute THEN 404
                         ELSE found.worker]
        /\ at' = [at EXCEPT ![c] = "answered"]
        /\ UNCHANGED <<world, refresh, request, target>>

-----------------------------------------------------------------------------
\* The file is read; a read that fails leaves everything as it is.
RefreshReads ==
    /\ refresher = "sleep"
    /\ fresh' = tableFile
    /\ refresher' = "install"
    /\ UNCHANGED <<world, table, connections>>

\* Variant: a table is installed when its generation is greater.
LaterGeneration == fresh.gen > table.gen

OtherGeneration == table.gen # fresh.gen

\* The write lock: granted when no connection holds the read lock.
RefreshInstalls ==
    /\ refresher = "install"
    /\ Readers = {}
    /\ table' = IF OtherGeneration THEN fresh ELSE table
    /\ refresher' = "sleep"
    /\ UNCHANGED <<world, fresh, connections>>

EditTable ==
    /\ ~settled
    /\ \E t \in Tables : <<tableFile, t>> \in TableEdits /\ tableFile' = t
    /\ UNCHANGED <<settled, routesOf, refresh, connections>>

\* A node loads its shard of some table, or goes down.
NodeChanges ==
    /\ ~settled
    /\ \E n \in Nodes : \E shard \in {Down} \union {Shard(t, n) : t \in Tables} :
          /\ routesOf[n] # shard
          /\ routesOf' = [routesOf EXCEPT ![n] = shard]
    /\ UNCHANGED <<tableFile, settled, refresh, connections>>

\* The gateway is killed and started again: main once more.
Restart ==
    /\ ~settled
    /\ table' \in {tableFile, EmptyTable}
    /\ refresher' = "sleep"
    /\ fresh' = table'
    /\ at' = Idle.at
    /\ request' = Idle.request
    /\ target' = Idle.target
    /\ answer' = Idle.answer
    /\ UNCHANGED world

\* The outside world comes to rest: every node has its shard of the file, but
\* nodes without a healthy target in it may be down.
Settle ==
    LET unused == {n \in Nodes : \A k \in DOMAIN tableFile.routes :
            \A i \in DOMAIN tableFile.routes[k].targets :
                LET t == tableFile.routes[k].targets[i]
                IN  t.node = n => ~t.healthy}
    IN  /\ ~settled
        /\ settled' = TRUE
        /\ \E down \in SUBSET unused :
              routesOf' = [n \in Nodes |->
                  IF n \in down THEN Down ELSE Shard(tableFile, n)]
        /\ UNCHANGED <<tableFile, refresh, connections>>

Next ==
    \/ \E c \in Connections :
          \/ ReadRequest(c)
          \/ MatchAndSelect(c)
          \/ Refuse(c)
          \/ Forward(c)
    \/ RefreshReads
    \/ RefreshInstalls
    \/ EditTable
    \/ NodeChanges
    \/ Restart
    \/ Settle

Spec == Init /\ [][Next]_vars

\* The gateway's tasks that can run do run.  Nothing makes a client send a
\* request, a Worker answer one or the outside world come to rest.  tokio's
\* RwLock serves its waiters in order, so a connection that waits again and
\* again while tables are installed gets its turn: SF of MatchAndSelect, less
\* what a Restart cuts short.
FairSpec ==
    /\ Spec
    /\ WF_vars(RefreshReads)
    /\ WF_vars(RefreshInstalls)
    /\ \A c \in Connections :
          /\ []<>MayRead(c) => []<>(at[c] # "match")
          /\ WF_vars(Refuse(c))

-----------------------------------------------------------------------------
NodesOf(route) == {route.targets[i].node : i \in DOMAIN route.targets}

\* Every client that route r admits, s admits too.
AdmitsAllOf(s, r) ==
    /\ s.host \in {"", "*", r.host}
    /\ s.methods = {} \/ (r.methods # {} /\ r.methods \subseteq s.methods)

\* A node can match by route s what the gateway forwards to it.
MatchesForwarded(s) ==
    MethodFits(s, "POST") /\ \E n \in Nodes : HostFits(s, PodHost[n])

\* Operating conditions of AnsweredAsRouted.  A node matches a POST to its own
\* address, not what the client asked, by the routes of its shard and with one
\* slash trimmed off a prefix.  A route by which it can must admit every client
\* that an overlapping route of any table admits; overlapping routes of one
\* table must admit the same and be on the same nodes; and no prefix may end in
\* two slashes.
ShardsDecideAlike ==
    \A t, u \in Tables : \A i \in DOMAIN t.routes, j \in DOMAIN u.routes :
        /\ ~EndsInTwoSlashes(t.routes[i].prefix)
        /\ (MatchesForwarded(u.routes[j]) /\ Overlap(t.routes[i].prefix, u.routes[j].prefix)) =>
              /\ AdmitsAllOf(u.routes[j], t.routes[i])
              /\ t = u => /\ AdmitsAllOf(t.routes[i], u.routes[j])
                          /\ NodesOf(t.routes[i]) = NodesOf(t.routes[j])

\* Parsing leaves a path the prefixes that the tables know: it has no dot
\* segments or escapes before the end of one, and no "?" or "#" within one.
PathsKeepPrefixes ==
    \A r \in RequestSpace, t \in Tables : \A k \in DOMAIN t.routes :
        LET prefix == TrimSlashes(t.routes[k].prefix)
        IN  \/ Pathname[r.path] = Unparsable
            \/ IsPrefix(prefix, Pathname[r.path]) <=> IsPrefix(prefix, r.path)

\* Types; a connection is forwarding only with a node to forward to.
TypeOK ==
    /\ tableFile \in Tables
    /\ settled \in BOOLEAN
    /\ \A n \in Nodes : routesOf[n] = Down \/ routesOf[n] \in Seq(GlobalRoute)
    /\ table \in RoutingTable
    /\ refresher \in {"sleep", "install"}
    /\ fresh \in RoutingTable
    /\ \A c \in Connections :
          /\ at[c] \in {"accept", "match", "404", "503", "forward", "answered"}
          /\ request[c] \in RequestSpace \union {NoRequest}
          /\ target[c] \in Nodes \union {NoNode}
          /\ at[c] = "forward" => target[c] \in Nodes
          /\ answer[c] \in Workers \union Errors \union {NoAnswer}

\* The gateway matches with one table and the node a second time with
\* another one, either possibly stale.  All the same, when a Worker answers,
\* it is the Worker that some single table prescribes for the request as the
\* client made it, on a node where that table places it.
AnsweredAsRouted ==
    \A c \in Connections : answer[c] \in Workers =>
        \E t \in Tables :
            LET r == Prescribed(t.routes, request[c])
            IN  r # NoRoute /\ r.worker = answer[c] /\ target[c] \in NodesOf(r)

\* Whatever generation it has, greater, smaller or one seen before, the table
\* the file ends up with becomes the gateway's and stays so, however many
\* connections hold or want the lock.
NewTableUsed ==
    settled ~> [](table = tableFile)

\* What a table prescribes for a request: where it may go, or the refusal.
Destinations(t, r) ==
    LET found == Prescribed(t.routes, r) IN
    IF found = NoRoute THEN {404}
    ELSE LET up == {i \in DOMAIN found.targets : found.targets[i].healthy}
         IN  IF up = {} THEN {503} ELSE {found.targets[i].node : i \in up}

\* The world is at rest, the gateway has its table, and no older one read
\* before waits for the lock.
CaughtUp ==
    /\ settled
    /\ table = tableFile
    /\ refresher = "install" => fresh = tableFile

\* Once the gateway has caught up with a world at rest, every request that
\* arrives is sent to a healthy node that the table prescribes, or gets the
\* refusal it implies: neither a refresh nor another connection, one whose
\* Worker never answers included, keeps it waiting for ever.
RequestsRouted ==
    \A c \in Connections :
        (CaughtUp /\ at[c] = "match")
        ~> (\/ at[c] = "forward" /\ target[c] \in Destinations(tableFile, request[c])
            \/ at[c] = "answered" /\ answer[c] \in Destinations(tableFile, request[c]))

\* The gateway's README: it matches requests by host, method and prefix and
\* forwards them to the pod.  So a request that it matched is not turned down
\* there for want of a route.
MatchedIsServed ==
    \A c \in Connections :
        (at[c] = "answered" /\ target[c] \in Nodes) => answer[c] # 404

=============================================================================
