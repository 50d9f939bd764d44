--------------------------- MODULE GatewayProofs ---------------------------
(***************************************************************************)
(* What is proved of the routing gateway: its types, for every set of      *)
(* tables, requests and connections; and, where ShardsDecideAlike and      *)
(* PathsKeepPrefixes hold, that a request a Worker answers is answered as  *)
(* some one table prescribes, although two tables decided it.              *)
(***************************************************************************)
EXTENDS Gateway, RouteMatchProofs

\* What a node may have: the routes of its shard of some table, or nothing.
ShardsInv ==
    /\ routesOf = [n \in Nodes |-> routesOf[n]]
    /\ \A n \in Nodes : routesOf[n] = Down \/ \E t \in Tables : routesOf[n] = Shard(t, n)

\* Some route of some table fits request r.
Routed(r) == \E t \in Tables : \E i \in DOMAIN t.routes : FitsRequest(t.routes[i], r)

\* A connection past its first step has a request that a client made, it
\* forwards one only if it found a route for it, and it has an answer only when
\* it is done with it.
ConnectionsInv ==
    /\ at = [c \in Connections |-> at[c]]
    /\ request = [c \in Connections |-> request[c]]
    /\ target = [c \in Connections |-> target[c]]
    /\ answer = [c \in Connections |-> answer[c]]
    /\ \A c \in Connections :
          /\ at[c] # "accept" => request[c] \in RequestSpace
          /\ at[c] = "forward" => Routed(request[c])
          /\ at[c] # "answered" => answer[c] = NoAnswer

\* The invariant, in the three parts that the variables have: the steps of one
\* leave the others alone.
WorldOK == /\ tableFile \in Tables /\ settled \in BOOLEAN /\ ShardsInv
           /\ \A n \in Nodes : routesOf[n] = Down \/ routesOf[n] \in Seq(GlobalRoute)
KnownTables == Tables \union {EmptyTable}
RefreshOK == table \in KnownTables /\ refresher \in {"sleep", "install"} /\ fresh \in KnownTables
ConnectionOK(c) ==
    /\ at[c] \in {"accept", "match", "404", "503", "forward", "answered"}
    /\ request[c] \in RequestSpace \union {NoRequest}
    /\ target[c] \in Nodes \union {NoNode}
    /\ at[c] = "forward" => target[c] \in Nodes
    /\ answer[c] \in Workers \union Errors \union {NoAnswer}
ConnectionsOK == ConnectionsInv /\ \A c \in Connections : ConnectionOK(c)

GatewayInv == WorldOK /\ RefreshOK /\ ConnectionsOK

-----------------------------------------------------------------------------
(* Tables, and the shards that nodes have of them.                         *)

LEMMA TableIsTable ==
    ASSUME NEW routes \in Seq(GlobalRoute)
    PROVE  IsTable(routes)
  BY DEF IsTable, GlobalRoute

\* place tells where the routes of a shard stand in the table.
ComesFrom(place, shard, n, routes) ==
    /\ place \in [DOMAIN shard -> DOMAIN routes]
    /\ \A k \in DOMAIN shard :
          shard[k] = routes[place[k]] /\ n \in NodesOf(routes[place[k]])
    /\ \A i, j \in DOMAIN shard : i < j <=> place[i] < place[j]
    /\ \A p \in DOMAIN routes : n \in NodesOf(routes[p]) =>
          \E k \in DOMAIN shard : place[k] = p

\* A shard has the routes of its table that name the node, in the table's order.
LEMMA ShardOfTable ==
    ASSUME NEW t \in RoutingTable, NEW n
    PROVE  /\ Shard(t, n) \in Seq(GlobalRoute)
           /\ \E place : ComesFrom(place, Shard(t, n), n, t.routes)
  <1> DEFINE routes == t.routes
             P == {k \in DOMAIN routes :
                      \E i \in DOMAIN routes[k].targets : routes[k].targets[i].node = n}
             len == Len(routes)
             m == Cardinality(P)
  <1>1. routes \in Seq(GlobalRoute) /\ len \in Nat /\ DOMAIN routes = 1 .. len
    BY DEF RoutingTable
  <1>2. P \subseteq 1 .. len
    BY <1>1
  <1>3. \A k \in DOMAIN routes : k \in P <=> n \in NodesOf(routes[k])
    BY DEF NodesOf
  <1>4. Shard(t, n) = Selected(routes, P)
    BY DEF Shard
  <1> HIDE DEF P, routes, len
  <1>5. PICK place : Selects(place, routes, P)
    BY <1>1, <1>2, SelectedInOrder
  <1>6. Shard(t, n) = [k \in 1 .. m |-> routes[place[k]]]
    BY <1>4, <1>5 DEF Selects
  <1>7. /\ m \in Nat /\ place \in [1 .. m -> P]
        /\ \A i, j \in 1 .. m : i < j <=> place[i] < place[j]
        /\ \A p \in P : \E k \in 1 .. m : place[k] = p
    BY <1>5 DEF Selects
  <1> HIDE DEF m
  <1>8. \A k \in 1 .. m : place[k] \in P /\ place[k] \in DOMAIN routes /\ routes[place[k]] \in GlobalRoute
    <2>1. \A k \in DOMAIN routes : routes[k] \in GlobalRoute
      BY <1>1
    <2>2. ASSUME NEW k \in 1 .. m PROVE place[k] \in P /\ place[k] \in DOMAIN routes
      BY <1>1, <1>2, <1>7
    <2> QED
      BY <2>1, <2>2
  <1>9. DOMAIN Shard(t, n) = 1 .. m /\ Shard(t, n) \in [1 .. m -> GlobalRoute]
    <2> DEFINE shard == [k \in 1 .. m |-> routes[place[k]]]
    <2>1. DOMAIN shard = 1 .. m /\ shard \in [1 .. m -> GlobalRoute]
      BY <1>8
    <2> QED
      BY <1>6, <2>1
  <1>10. Shard(t, n) \in Seq(GlobalRoute)
    BY <1>7, <1>9, IsASeq
  <1>11. place \in [DOMAIN Shard(t, n) -> DOMAIN routes]
    BY <1>7, <1>8, <1>9
  <1>12. \A k \in 1 .. m :
            Shard(t, n)[k] = routes[place[k]] /\ n \in NodesOf(routes[place[k]])
    <2>1. ASSUME NEW k \in 1 .. m PROVE Shard(t, n)[k] = routes[place[k]]
      BY <1>6
    <2> QED
      BY <1>3, <1>8, <2>1
  <1>13. \A p \in DOMAIN routes : n \in NodesOf(routes[p]) =>
            \E k \in DOMAIN Shard(t, n) : place[k] = p
    BY <1>3, <1>7, <1>9
  <1> QED
    BY <1>7, <1>9, <1>10, <1>11, <1>12, <1>13 DEF routes, ComesFrom

LEMMA EmptyTableType == EmptyTable \in RoutingTable
  BY GatewayAssumption DEF EmptyTable, RoutingTable

LEMMA TableTypes ==
    /\ Tables \subseteq RoutingTable /\ EmptyTable \in RoutingTable
    /\ \A t \in Tables, n \in Nodes : Shard(t, n) \in Seq(GlobalRoute)
  BY GatewayAssumption, EmptyTableType, ShardOfTable

\* A matcher returns a route of the table or none.
LEMMA FirstOfIsOneOf ==
    ASSUME NEW routes, IsTable(routes), NEW fitting \in SUBSET DOMAIN routes,
           FirstOf(ByPrefixLength(routes), fitting) # NoRoute
    PROVE  \E i \in DOMAIN routes : FirstOf(ByPrefixLength(routes), fitting) = routes[i]
  <1> DEFINE k == CHOOSE i \in fitting : \A j \in fitting : i <= j
  <1>1. fitting # {} /\ FirstOf(ByPrefixLength(routes), fitting) = ByPrefixLength(routes)[k]
    BY DEF FirstOf
  <1>2. fitting \in SUBSET Nat
    BY DEF IsTable
  <1>3. k \in fitting
    BY <1>1, <1>2, FirstExists
  <1> HIDE DEF k
  <1>4. Place(routes, k) \in DOMAIN routes
        /\ ByPrefixLength(routes)[k] = routes[Place(routes, k)]
    BY <1>3, PlaceOfRank, SortedByPlace
  <1> QED
    BY <1>1, <1>4

LEMMA MatchIsOneOf ==
    ASSUME NEW routes, IsTable(routes), NEW r
    PROVE  /\ MatchRequest(routes, r) # NoRoute =>
                 \E i \in DOMAIN routes : MatchRequest(routes, r) = routes[i]
           /\ MatchRoute(routes, r) # NoRoute =>
                 \E i \in DOMAIN routes : MatchRoute(routes, r) = routes[i]
  <1> DEFINE sorted == ByPrefixLength(routes)
             inGateway == {k \in DOMAIN sorted :
                              \E route \in {sorted[k]} : FitsRequest(route, r)}
             inRouter == {k \in DOMAIN sorted :
                              \E route \in {sorted[k]} : FitsInRouter(route, r)}
  <1>1. inGateway \in SUBSET DOMAIN routes /\ inRouter \in SUBSET DOMAIN routes
    BY SortedByPlace
  <1>2. MatchRequest(routes, r) = FirstOf(sorted, inGateway)
        /\ MatchRoute(routes, r) = FirstOf(sorted, inRouter)
    BY DEF MatchRequest, MatchRoute
  <1> HIDE DEF inGateway, inRouter
  <1> QED
    BY <1>1, <1>2, FirstOfIsOneOf

\* The target selected is one of the route's.
LEMMA SelectsTarget ==
    ASSUME NEW r \in GlobalRoute
    PROVE  SelectTarget(r) \in Nodes \union {NoNode}
  <1> DEFINE healthy == {i \in DOMAIN r.targets : r.targets[i].healthy}
             first == CHOOSE i \in healthy : \A j \in healthy : i <= j
  <1>1. /\ healthy \in SUBSET Nat
        /\ \A i \in healthy : r.targets[i].node \in Nodes
    <2>1. r.targets \in Seq(RouteTarget)
      BY DEF GlobalRoute
    <2>2. \A i \in DOMAIN r.targets : i \in Nat /\ r.targets[i] \in RouteTarget
      BY <2>1
    <2> QED
      BY <2>2 DEF RouteTarget
  <1>2. SelectTarget(r) = IF healthy = {} THEN NoNode ELSE r.targets[first].node
    BY DEF SelectTarget
  <1> HIDE DEF healthy
  <1>3. healthy # {} => first \in healthy
    BY <1>1, FirstExists
  <1> QED
    BY <1>1, <1>2, <1>3

\* A request that is forwarded is forwarded to a node, because a route fits it.
LEMMA DecisionType ==
    ASSUME NEW t \in KnownTables, NEW r
    PROVE  /\ Decision(t, r).at \in {"404", "503", "forward"}
           /\ Decision(t, r).target \in Nodes \union {NoNode}
           /\ Decision(t, r).at = "forward" => Decision(t, r).target \in Nodes /\ Routed(r)
  <1>1. t.routes \in Seq(GlobalRoute)
    BY TableTypes DEF RoutingTable, KnownTables
  <1>2. IsTable(t.routes)
    BY <1>1, TableIsTable
  <1>3. MatchRequest(t.routes, r) # NoRoute => MatchRequest(t.routes, r) \in GlobalRoute
    BY <1>1, <1>2, MatchIsOneOf
  <1>4. MatchRequest(t.routes, r) # NoRoute =>
            SelectTarget(MatchRequest(t.routes, r)) \in Nodes \union {NoNode}
    BY <1>3, SelectsTarget
  <1>5. ASSUME MatchRequest(t.routes, r) # NoRoute PROVE Routed(r)
    <2>1. Prescribed(t.routes, r) # NoRoute
      BY <1>2, <1>5, LongestPrefixMatched
    <2>2. PICK i \in DOMAIN t.routes : FitsRequest(t.routes[i], r)
      BY <2>1 DEF Prescribed
    <2>3. t # EmptyTable
      BY <2>2 DEF EmptyTable
    <2> QED
      BY <2>2, <2>3 DEF Routed, KnownTables
  <1> QED
    BY <1>4, <1>5 DEF Decision

\* The Worker of a route that a node's router finds.
LEMMA FoundWorker ==
    ASSUME NEW routes \in Seq(GlobalRoute), NEW r, MatchRoute(routes, r) # NoRoute
    PROVE  MatchRoute(routes, r).worker \in Workers
  <1>1. \E i \in DOMAIN routes : MatchRoute(routes, r) = routes[i]
    BY TableIsTable, MatchIsOneOf
  <1>2. MatchRoute(routes, r) \in GlobalRoute
    BY <1>1
  <1> QED
    BY <1>2 DEF GlobalRoute

-----------------------------------------------------------------------------
(* Types.                                                                  *)

LEMMA GatewayInvInit == Init => GatewayInv
  <1> SUFFICES ASSUME Init PROVE GatewayInv
    OBVIOUS
  <1>1. tableFile \in Tables /\ table \in KnownTables
    BY GatewayAssumption DEF Init, KnownTables
  <1>2. \A n \in Nodes : routesOf[n] = Shard(tableFile, n)
    BY DEF Init
  <1>3. ShardsInv
    BY <1>1, <1>2 DEF Init, ShardsInv
  <1>4. ConnectionsInv /\ \A c \in Connections :
            at[c] = "accept" /\ request[c] = NoRequest /\ target[c] = NoNode /\ answer[c] = NoAnswer
    BY DEF Init, Idle, ConnectionsInv
  <1>5. WorldOK /\ RefreshOK
    BY <1>1, <1>2, <1>3, TableTypes DEF Init, WorldOK, RefreshOK
  <1> QED
    BY <1>4, <1>5 DEF GatewayInv, ConnectionsOK, ConnectionOK

LEMMA PartsUnchanged ==
    /\ WorldOK /\ UNCHANGED world => WorldOK'
    /\ RefreshOK /\ UNCHANGED refresh => RefreshOK'
    /\ ConnectionsOK /\ UNCHANGED connections => ConnectionsOK'
  BY DEF world, refresh, connections, WorldOK, RefreshOK, ConnectionsOK, ConnectionOK,
         ShardsInv, ConnectionsInv

\* A step of one connection, which gives it a place, a request, a target and an
\* answer of their types, keeps the part of all connections.
LEMMA ConnectionStep ==
    ASSUME ConnectionsOK, NEW c \in Connections,
           NEW a \in {"match", "404", "503", "forward", "answered"},
           NEW r \in RequestSpace, NEW n \in Nodes \union {NoNode},
           a = "forward" => n \in Nodes /\ Routed(r),
           NEW w \in Workers \union Errors \union {NoAnswer}, a # "answered" => w = NoAnswer,
           at' = [at EXCEPT ![c] = a],
           request' = [request EXCEPT ![c] = r],
           target' = [target EXCEPT ![c] = n],
           answer' = [answer EXCEPT ![c] = w]
    PROVE  ConnectionsOK'
  <1>1. ConnectionsInv'
    BY DEF ConnectionsOK, ConnectionsInv
  <1>2. ASSUME NEW d \in Connections PROVE ConnectionOK(d)'
    <2>1. CASE d = c
      BY <2>1 DEF ConnectionsOK, ConnectionsInv, ConnectionOK
    <2>2. CASE d # c
      BY <2>2 DEF ConnectionsOK, ConnectionsInv, ConnectionOK
    <2> QED
      BY <2>1, <2>2
  <1> QED
    BY <1>1, <1>2 DEF ConnectionsOK

LEMMA GatewayInvNext == GatewayInv /\ [Next]_vars => GatewayInv'
  <1> SUFFICES ASSUME WorldOK, RefreshOK, ConnectionsOK, [Next]_vars
               PROVE  WorldOK' /\ RefreshOK' /\ ConnectionsOK'
    BY DEF GatewayInv
  <1>1. \A c \in Connections :
           /\ at[c] # "accept" => request[c] \in RequestSpace
           /\ at[c] # "answered" => answer[c] = NoAnswer
           /\ target[c] \in Nodes \union {NoNode} /\ (at[c] = "forward" => target[c] \in Nodes)
           /\ answer[c] \in Workers \union Errors \union {NoAnswer}
           /\ request = [request EXCEPT ![c] = request[c]]
           /\ target = [target EXCEPT ![c] = target[c]]
           /\ answer = [answer EXCEPT ![c] = answer[c]]
    BY DEF ConnectionsOK, ConnectionsInv, ConnectionOK
  <1>2. ASSUME NEW c \in Connections, ReadRequest(c) PROVE WorldOK' /\ RefreshOK' /\ ConnectionsOK'
    <2>1. PICK r \in RequestSpace : request' = [request EXCEPT ![c] = r]
      BY <1>2 DEF ReadRequest
    <2>2. ConnectionsOK'
      BY <1>2, <2>1, ConnectionStep DEF ReadRequest
    <2> QED
      BY <1>2, <2>2, PartsUnchanged DEF ReadRequest
  <1>3. ASSUME NEW c \in Connections, MatchAndSelect(c) PROVE WorldOK' /\ RefreshOK' /\ ConnectionsOK'
    <2> DEFINE decision == Decision(table, request[c])
    <2>1. /\ decision.at \in {"404", "503", "forward"} /\ decision.target \in Nodes \union {NoNode}
          /\ decision.at = "forward" => decision.target \in Nodes /\ Routed(request[c])
      BY DecisionType DEF RefreshOK
    <2>2. /\ at' = [at EXCEPT ![c] = decision.at] /\ target' = [target EXCEPT ![c] = decision.target]
          /\ request' = [request EXCEPT ![c] = request[c]]
          /\ answer' = [answer EXCEPT ![c] = answer[c]] /\ at[c] = "match"
          /\ answer[c] = NoAnswer
      BY <1>1, <1>3 DEF MatchAndSelect, MayRead
    <2> HIDE DEF decision
    <2>3. ConnectionsOK'
      BY <1>1, <2>1, <2>2, ConnectionStep
    <2> QED
      BY <1>3, <2>3, PartsUnchanged DEF MatchAndSelect
  <1>4. ASSUME NEW c \in Connections, Refuse(c) PROVE WorldOK' /\ RefreshOK' /\ ConnectionsOK'
    <2> DEFINE w == IF at[c] = "404" THEN 404 ELSE 503
    <2>1. w \in Errors /\ answer' = [answer EXCEPT ![c] = w]
      BY <1>4 DEF Refuse, Errors
    <2> HIDE DEF w
    <2>2. /\ at' = [at EXCEPT ![c] = "answered"] /\ at[c] # "accept"
          /\ request' = [request EXCEPT ![c] = request[c]]
          /\ target' = [target EXCEPT ![c] = target[c]]
      BY <1>1, <1>4 DEF Refuse, Readers
    <2>3. ConnectionsOK'
      BY <1>1, <2>1, <2>2, ConnectionStep
    <2> QED
      BY <1>4, <2>3, PartsUnchanged DEF Refuse
  <1>5. ASSUME NEW c \in Connections, Forward(c) PROVE WorldOK' /\ RefreshOK' /\ ConnectionsOK'
    <2> DEFINE n == target[c]
               found == MatchRoute(routesOf[n], Forwarded(c))
    <2>1. /\ n \in Nodes /\ at[c] # "accept"
          /\ answer' = [answer EXCEPT ![c] = IF Pathname[request[c].path] = Unparsable THEN 502
                            ELSE IF routesOf[n] = Down THEN 502
                            ELSE IF found = NoRoute THEN 404 ELSE found.worker]
          /\ at' = [at EXCEPT ![c] = "answered"]
          /\ request' = [request EXCEPT ![c] = request[c]]
          /\ target' = [target EXCEPT ![c] = target[c]]
      BY <1>1, <1>5 DEF Forward
    <2>2. routesOf[n] # Down /\ found # NoRoute => found.worker \in Workers
      BY <2>1, FoundWorker DEF WorldOK
    <2> DEFINE w == IF Pathname[request[c].path] = Unparsable THEN 502
                    ELSE IF routesOf[n] = Down THEN 502
                    ELSE IF found = NoRoute THEN 404 ELSE found.worker
    <2> HIDE DEF n, found
    <2>3. w \in Workers \union Errors /\ answer' = [answer EXCEPT ![c] = w]
      BY <2>1, <2>2 DEF Errors
    <2> HIDE DEF w
    <2>4. ConnectionsOK'
      BY <1>1, <2>1, <2>3, ConnectionStep
    <2> QED
      BY <1>5, <2>4, PartsUnchanged DEF Forward
  <1>6. CASE RefreshReads
    BY <1>6, PartsUnchanged DEF RefreshReads, WorldOK, RefreshOK, KnownTables
  <1>7. CASE RefreshInstalls
    BY <1>7, PartsUnchanged DEF RefreshInstalls, RefreshOK
  <1>8. CASE EditTable
    <2>1. tableFile' \in Tables /\ settled' = settled /\ routesOf' = routesOf
      BY <1>8 DEF EditTable
    <2>2. WorldOK'
      BY <2>1 DEF WorldOK, ShardsInv
    <2> QED
      BY <1>8, <2>2, PartsUnchanged DEF EditTable
  <1>9. CASE NodeChanges
    <2>1. PICK n \in Nodes : \E shard :
              /\ shard = Down \/ \E t \in Tables : shard = Shard(t, n)
              /\ routesOf' = [routesOf EXCEPT ![n] = shard]
      BY <1>9 DEF NodeChanges
    <2>2. PICK shard :
              /\ shard = Down \/ \E t \in Tables : shard = Shard(t, n)
              /\ shard = Down \/ shard \in Seq(GlobalRoute)
              /\ routesOf' = [routesOf EXCEPT ![n] = shard]
      BY <2>1, TableTypes
    <2>3. WorldOK'
      <3>1. tableFile' = tableFile /\ settled' = settled
        BY <1>9 DEF NodeChanges
      <3>2. ASSUME NEW m \in Nodes
            PROVE  /\ routesOf'[m] = Down \/ routesOf'[m] \in Seq(GlobalRoute)
                   /\ routesOf'[m] = Down \/ \E t \in Tables : routesOf'[m] = Shard(t, m)
        BY <2>1, <2>2 DEF WorldOK, ShardsInv
      <3>3. routesOf' = [m \in Nodes |-> routesOf'[m]]
        BY <2>1 DEF WorldOK, ShardsInv
      <3> QED
        BY <3>1, <3>2, <3>3 DEF WorldOK, ShardsInv
    <2> QED
      BY <1>9, <2>3, PartsUnchanged DEF NodeChanges
  <1>10. CASE Restart
    <2>1. RefreshOK'
      BY <1>10 DEF Restart, RefreshOK, WorldOK, KnownTables
    <2>2. ConnectionsOK'
      BY <1>10 DEF Restart, Idle, ConnectionsOK, ConnectionsInv, ConnectionOK
    <2> QED
      BY <1>10, <2>1, <2>2, PartsUnchanged DEF Restart
  <1>11. CASE Settle
    <2>1. PICK down : routesOf' = [n \in Nodes |-> IF n \in down THEN Down ELSE Shard(tableFile, n)]
      BY <1>11 DEF Settle
    <2>2. /\ \A n \in Nodes : routesOf'[n] = Down \/ routesOf'[n] = Shard(tableFile, n)
          /\ routesOf' = [n \in Nodes |-> routesOf'[n]]
      BY <2>1
    <2>3. settled' = TRUE /\ tableFile' = tableFile
      BY <1>11 DEF Settle
    <2>4. WorldOK'
      BY <2>2, <2>3, TableTypes DEF WorldOK, ShardsInv
    <2> QED
      BY <1>11, <2>4, PartsUnchanged DEF Settle
  <1>12. CASE UNCHANGED vars
    BY <1>12, PartsUnchanged DEF vars
  <1> QED
    BY <1>2, <1>3, <1>4, <1>5, <1>6, <1>7, <1>8, <1>9, <1>10, <1>11, <1>12 DEF Next

\* Every variable of the gateway keeps its type, and a connection forwards only
\* to a node: a 503 is written whenever no target was selected.
THEOREM TypeCorrect == Spec => []TypeOK
  <1>1. GatewayInv => TypeOK
    BY TableTypes DEF GatewayInv, WorldOK, RefreshOK, KnownTables, ConnectionsOK, ConnectionOK, TypeOK
  <1> QED
    BY <1>1, GatewayInvInit, GatewayInvNext, PTL DEF Spec

-----------------------------------------------------------------------------
(* Two matchers, two tables, one answer.                                   *)

\* If a table prescribes a route, some position of it is the first fit.
LEMMA FirstFitExists ==
    ASSUME NEW routes, IsTable(routes), NEW r, Prescribed(routes, r) # NoRoute
    PROVE  \E i : FirstFit(routes, i, r)
  <1> DEFINE fitting == {i \in DOMAIN routes : FitsRequest(routes[i], r)}
             ranks == {Rank(routes, i) : i \in fitting}
  <1>1. fitting # {}
    BY DEF Prescribed
  <1>2. ranks # {}
    BY <1>1
  <1>3. ranks \in SUBSET Nat
    <2>1. \A i \in DOMAIN routes : Rank(routes, i) \in 1 .. Len(routes)
      BY RankIsPosition DEF IsTable
    <2> QED
      BY <2>1
  <1> HIDE DEF ranks
  <1>4. PICK k \in ranks : \A l \in ranks : k <= l
    BY <1>2, <1>3, FirstExists
  <1>5. PICK i \in fitting : k = Rank(routes, i)
    BY <1>4 DEF ranks
  <1>6. ASSUME NEW j \in DOMAIN routes, FitsRequest(routes[j], r)
        PROVE  Before(routes, i, j)
    <2>1. Rank(routes, i) <= Rank(routes, j) /\ Rank(routes, j) \in Nat /\ Rank(routes, i) \in Nat
      BY <1>3, <1>4, <1>5, <1>6 DEF ranks
    <2>2. ~(Rank(routes, j) < Rank(routes, i))
      BY <2>1
    <2> QED
      BY <1>5, <1>6, <2>2, BeforeIsTotal, RankGrows
  <1> QED
    BY <1>5, <1>6 DEF FirstFit

LEMMA PrefixesNest ==
    ASSUME NEW p \in Seq(STRING), NEW q \in Seq(STRING), NEW s \in Seq(STRING),
           IsPrefix(p, s), IsPrefix(q, s), Len(p) <= Len(q)
    PROVE  IsPrefix(p, q)
  <1>1. /\ Len(p) \in Nat /\ Len(q) \in Nat /\ Len(s) \in Nat
        /\ Len(p) <= Len(s) /\ Len(q) <= Len(s)
        /\ SubSeq(p, 1, Len(p)) = SubSeq(s, 1, Len(p))
        /\ SubSeq(q, 1, Len(q)) = SubSeq(s, 1, Len(q))
    BY DEF IsPrefix
  <1>2. \A i \in 1 .. Len(q) : q[i] = s[i]
    BY <1>1
  <1>3. SubSeq(s, 1, Len(p)) = SubSeq(q, 1, Len(p))
    BY <1>1, <1>2
  <1> QED
    BY <1>1, <1>3 DEF IsPrefix

LEMMA LastExists ==
    ASSUME NEW n \in Nat, NEW S \in SUBSET (1 .. n), S # {}
    PROVE  \E k \in S : \A j \in S : j <= k
  <1> DEFINE T == {n - k : k \in S}
  <1>1. T \in SUBSET Nat /\ T # {}
    <2>1. \A k \in S : n - k \in Nat
      OBVIOUS
    <2> QED
      BY <2>1
  <1>2. PICK l \in T : \A j \in T : l <= j
    <2> HIDE DEF T
    <2> QED
      BY <1>1, FirstExists
  <1>3. PICK k \in S : l = n - k
    BY <1>2
  <1>4. ASSUME NEW j \in S PROVE j <= k
    <2>1. n - k <= n - j
      BY <1>2, <1>3
    <2>2. k \in 1 .. n /\ j \in 1 .. n
      OBVIOUS
    <2> QED
      BY <2>1, <2>2
  <1> QED
    BY <1>4

LEMMA TrimmedType ==
    ASSUME NEW p \in Seq(STRING)
    PROVE  TrimSlashes(p) \in Seq(STRING)
  <1> DEFINE kept == {i \in DOMAIN p : p[i] # "/"}
             last == IF kept = {} THEN 0 ELSE CHOOSE i \in kept : \A j \in kept : j <= i
  <1>1. \A n \in 0 .. Len(p) : SubSeq(p, 1, n) \in Seq(STRING)
    OBVIOUS
  <1>2. TrimSlashes(p) = SubSeq(p, 1, last)
    BY DEF TrimSlashes
  <1>3. Len(p) \in Nat /\ kept \in SUBSET (1 .. Len(p))
    OBVIOUS
  <1> HIDE DEF kept
  <1>4. last \in 0 .. Len(p)
    <2>1. kept # {} => \E k \in kept : \A j \in kept : j <= k
      BY <1>3, LastExists
    <2>2. kept # {} => last \in kept
      BY <2>1
    <2>3. kept = {} => last = 0
      OBVIOUS
    <2> HIDE DEF last
    <2>4. kept # {} => last \in 1 .. Len(p)
      BY <1>3, <2>2
    <2> QED
      BY <1>3, <2>3, <2>4
  <1> HIDE DEF last
  <1> QED
    BY <1>1, <1>2, <1>4

OnPath(route, path) == route.prefix \in WholePath \/ IsPrefix(TrimSlashes(route.prefix), path)

\* Routes whose prefixes one path has overlap.
LEMMA PrefixesOverlap ==
    ASSUME NEW a \in GlobalRoute, NEW b \in GlobalRoute, NEW path \in Seq(STRING),
           OnPath(a, path), OnPath(b, path)
    PROVE  Overlap(a.prefix, b.prefix)
  <1>1. a.prefix \in Seq(STRING) /\ b.prefix \in Seq(STRING)
    BY DEF GlobalRoute
  <1> DEFINE p == TrimSlashes(a.prefix)
             q == TrimSlashes(b.prefix)
  <1>2. p \in Seq(STRING) /\ q \in Seq(STRING) /\ Len(p) \in Nat /\ Len(q) \in Nat
    BY <1>1, TrimmedType
  <1>3. CASE IsPrefix(p, path) /\ IsPrefix(q, path)
    <2> HIDE DEF p, q
    <2>1. Len(p) <= Len(q) \/ Len(q) <= Len(p)
      BY <1>2
    <2>2. IsPrefix(p, q) \/ IsPrefix(q, p)
      BY <1>2, <1>3, <2>1, PrefixesNest
    <2> QED
      BY <2>2 DEF Overlap, p, q
  <1> QED
    BY <1>3 DEF OnPath, Overlap

\* A route fits a request if it admits the client and the path has its prefix.
LEMMA FitsIfAdmitted ==
    ASSUME NEW a, NEW r
    PROVE  FitsRequest(a, r) <=>
               HostFits(a, r.host) /\ MethodFits(a, r.method) /\ OnPath(a, r.path)
  BY DEF FitsRequest, OnPath

LEMMA AdmittedWithAll ==
    ASSUME NEW s, NEW r, AdmitsAllOf(s, r), NEW host, NEW method,
           HostFits(r, host), MethodFits(r, method)
    PROVE  HostFits(s, host) /\ MethodFits(s, method)
  BY DEF AdmitsAllOf, HostFits, MethodFits

\* What a node finds by the routes of its shard, given the request as the
\* gateway sends it, is what the whole table prescribes for the request as the
\* client made it, if the gateway found any route for that.
LEMMA ShardDecidesAlike ==
    ASSUME ShardsDecideAlike, PathsKeepPrefixes,
           NEW t \in Tables, NEW n \in Nodes, NEW r \in RequestSpace, Routed(r),
           Pathname[r.path] # Unparsable,
           NEW sent, sent = [host |-> PodHost[n], method |-> "POST", path |-> Pathname[r.path]],
           MatchRoute(Shard(t, n), sent) # NoRoute
    PROVE  /\ Prescribed(t.routes, r) = MatchRoute(Shard(t, n), sent)
           /\ Prescribed(t.routes, r) # NoRoute
           /\ n \in NodesOf(Prescribed(t.routes, r))
  <1> DEFINE shard == Shard(t, n)
  <1>1. t \in RoutingTable /\ t.routes \in Seq(GlobalRoute) /\ IsTable(t.routes)
    BY GatewayAssumption, TableIsTable DEF RoutingTable
  <1>2. shard \in Seq(GlobalRoute)
    BY <1>1, ShardOfTable
  <1>3. IsTable(shard)
    BY <1>2, TableIsTable
  <1>4. PICK place : ComesFrom(place, shard, n, t.routes)
    BY <1>1, ShardOfTable
  <1> HIDE DEF shard
  <1>5. r.path \in Seq(STRING) /\ sent.path = Pathname[r.path]
        /\ sent.host = PodHost[n] /\ sent.method = "POST"
    BY GatewayAssumption
  <1>6. \A k \in DOMAIN t.routes :
            /\ t.routes[k] \in GlobalRoute /\ t.routes[k].prefix \in Seq(STRING)
            /\ ~EndsInTwoSlashes(t.routes[k].prefix)
            /\ OnPath(t.routes[k], r.path) <=> OnPath(t.routes[k], sent.path)
    <2> SUFFICES ASSUME NEW k \in DOMAIN t.routes
                 PROVE  /\ t.routes[k] \in GlobalRoute /\ t.routes[k].prefix \in Seq(STRING)
                        /\ ~EndsInTwoSlashes(t.routes[k].prefix)
                        /\ OnPath(t.routes[k], r.path) <=> OnPath(t.routes[k], sent.path)
      OBVIOUS
    <2>1. t.routes[k] \in GlobalRoute /\ t.routes[k].prefix \in Seq(STRING)
      <3>1. t.routes[k] \in GlobalRoute
        BY <1>1
      <3> QED
        BY <3>1 DEF GlobalRoute
    <2>2. ~EndsInTwoSlashes(t.routes[k].prefix)
      BY DEF ShardsDecideAlike
    <2>3. OnPath(t.routes[k], r.path) <=> OnPath(t.routes[k], sent.path)
      BY <1>5 DEF PathsKeepPrefixes, OnPath
    <2> QED
      BY <2>1, <2>2, <2>3
  <1>7. MatchRoute(shard, sent) = Prescribed(shard, sent)
    <2>1. \A k \in DOMAIN shard :
              shard[k].prefix \in Seq(STRING) /\ ~EndsInTwoSlashes(shard[k].prefix)
      BY <1>4, <1>6 DEF ComesFrom
    <2> QED
      BY <1>3, <2>1, MatchersAgree, LongestPrefixMatched
  <1>8. PICK i : FirstFit(shard, i, sent)
    BY <1>3, <1>7, FirstFitExists DEF shard
  <1>9. i \in DOMAIN shard /\ Prescribed(shard, sent) = shard[i]
    BY <1>3, <1>8, PrescribedIsFirstFit DEF FirstFit
  <1> DEFINE p == place[i]
  <1>10. /\ p \in DOMAIN t.routes /\ shard[i] = t.routes[p] /\ n \in NodesOf(t.routes[p])
         /\ FitsRequest(t.routes[p], sent)
    BY <1>4, <1>8 DEF FirstFit, ComesFrom
  <1> HIDE DEF p
  <1>11. /\ HostFits(t.routes[p], sent.host) /\ MethodFits(t.routes[p], sent.method)
         /\ OnPath(t.routes[p], r.path) /\ MatchesForwarded(t.routes[p])
    BY <1>5, <1>6, <1>10, FitsIfAdmitted DEF MatchesForwarded
  <1>12. FitsRequest(t.routes[p], r)
    <2>1. PICK u \in Tables : \E k \in DOMAIN u.routes : FitsRequest(u.routes[k], r)
      BY DEF Routed
    <2>2. PICK k \in DOMAIN u.routes : FitsRequest(u.routes[k], r)
      BY <2>1
    <2>3. u.routes[k] \in GlobalRoute
      BY GatewayAssumption DEF RoutingTable
    <2>4. /\ HostFits(u.routes[k], r.host) /\ MethodFits(u.routes[k], r.method)
          /\ OnPath(u.routes[k], r.path)
      BY <2>2, FitsIfAdmitted
    <2>5. Overlap(u.routes[k].prefix, t.routes[p].prefix)
      BY <1>5, <1>6, <1>10, <1>11, <2>3, <2>4, PrefixesOverlap
    <2>6. AdmitsAllOf(t.routes[p], u.routes[k])
      BY <1>10, <1>11, <2>5 DEF ShardsDecideAlike
    <2>7. HostFits(t.routes[p], r.host) /\ MethodFits(t.routes[p], r.method)
      BY <2>4, <2>6, AdmittedWithAll
    <2> QED
      BY <1>11, <2>7, FitsIfAdmitted
  <1>13. ASSUME NEW j \in DOMAIN t.routes, FitsRequest(t.routes[j], r)
         PROVE  Before(t.routes, p, j)
    <2>1. OnPath(t.routes[j], r.path) /\ OnPath(t.routes[j], sent.path)
      BY <1>6, <1>13, FitsIfAdmitted
    <2>2. Overlap(t.routes[j].prefix, t.routes[p].prefix)
      BY <1>5, <1>6, <1>10, <1>11, <2>1, PrefixesOverlap
    <2>3. AdmitsAllOf(t.routes[j], t.routes[p]) /\ NodesOf(t.routes[j]) = NodesOf(t.routes[p])
      BY <1>10, <1>11, <2>2 DEF ShardsDecideAlike
    <2>4. FitsRequest(t.routes[j], sent)
      BY <1>11, <2>1, <2>3, AdmittedWithAll, FitsIfAdmitted
    <2>5. PICK k \in DOMAIN shard : place[k] = j
      BY <1>4, <1>10, <2>3 DEF ComesFrom
    <2>6. Before(shard, i, k)
      BY <1>4, <1>8, <2>4, <2>5 DEF FirstFit, ComesFrom
    <2>7. i <= k => p <= j
      BY <1>1, <1>3, <1>4, <1>9, <2>5 DEF IsTable, ComesFrom, p
    <2> QED
      BY <1>4, <1>10, <2>5, <2>6, <2>7 DEF Before, ComesFrom
  <1>14. Prescribed(t.routes, r) = t.routes[p]
    BY <1>1, <1>10, <1>12, <1>13, PrescribedIsFirstFit DEF FirstFit
  <1> QED
    BY <1>7, <1>9, <1>10, <1>14 DEF shard

\* The answer to a request is fixed when the node answers; it stays while the
\* request does.
LEMMA AnsweredNext ==
    ASSUME ShardsDecideAlike, PathsKeepPrefixes, GatewayInv, AnsweredAsRouted, [Next]_vars
    PROVE  AnsweredAsRouted'
  <1> SUFFICES ASSUME NEW c \in Connections, answer'[c] \in Workers
               PROVE  \E t \in Tables :
                         LET r == Prescribed(t.routes, request'[c])
                         IN  r # NoRoute /\ r.worker = answer'[c] /\ target'[c] \in NodesOf(r)
    BY DEF AnsweredAsRouted
  <1>1. CASE answer'[c] = answer[c] /\ request'[c] = request[c] /\ target'[c] = target[c]
    BY <1>1 DEF AnsweredAsRouted
  <1>2. NoAnswer \notin Workers /\ 404 \notin Workers /\ 503 \notin Workers /\ 502 \notin Workers
    BY GatewayAssumption DEF Errors
  <1>3. /\ answer = [d \in Connections |-> answer[d]] /\ request = [d \in Connections |-> request[d]]
        /\ target = [d \in Connections |-> target[d]]
    BY DEF GatewayInv, ConnectionsOK, ConnectionsInv
  <1>4. ASSUME NEW d \in Connections, d # c,
               ReadRequest(d) \/ MatchAndSelect(d) \/ Refuse(d) \/ Forward(d)
        PROVE  answer'[c] = answer[c] /\ request'[c] = request[c] /\ target'[c] = target[c]
    BY <1>3, <1>4 DEF ReadRequest, MatchAndSelect, Refuse, Forward
  <1>5. CASE ReadRequest(c)
    BY <1>2, <1>3, <1>5 DEF ReadRequest
  <1>6. CASE MatchAndSelect(c)
    BY <1>2, <1>6 DEF MatchAndSelect, MayRead, GatewayInv, ConnectionsOK, ConnectionsInv
  <1>7. CASE Refuse(c)
    BY <1>2, <1>3, <1>7 DEF Refuse
  <1>8. CASE Forward(c)
    <2> DEFINE n == target[c]
               found == MatchRoute(routesOf[n], Forwarded(c))
    <2>1. /\ at[c] = "forward" /\ request' = request /\ target' = target
          /\ answer'[c] = IF Pathname[request[c].path] = Unparsable THEN 502
                           ELSE IF routesOf[n] = Down THEN 502
                           ELSE IF found = NoRoute THEN 404 ELSE found.worker
      BY <1>3, <1>8 DEF Forward
    <2>2. /\ Pathname[request[c].path] # Unparsable /\ routesOf[n] # Down /\ found # NoRoute
          /\ answer'[c] = found.worker
      BY <1>2, <2>1
    <2>3. n \in Nodes /\ request[c] \in RequestSpace /\ Routed(request[c])
      BY <2>1 DEF GatewayInv, ConnectionsOK, ConnectionsInv, ConnectionOK
    <2>4. PICK t \in Tables : routesOf[n] = Shard(t, n)
      BY <2>2, <2>3 DEF GatewayInv, WorldOK, ShardsInv
    <2>5. Forwarded(c) = [host |-> PodHost[n], method |-> "POST",
                          path |-> Pathname[request[c].path]]
      BY DEF Forwarded
    <2> DEFINE r == Prescribed(t.routes, request[c])
    <2>6. r = found /\ r # NoRoute /\ n \in NodesOf(r)
      BY <2>2, <2>3, <2>4, <2>5, ShardDecidesAlike
    <2> HIDE DEF r, found
    <2>7. r # NoRoute /\ r.worker = answer'[c] /\ target'[c] \in NodesOf(r)
      BY <2>1, <2>2, <2>6
    <2> QED
      BY <2>1, <2>7 DEF r
  <1>9. CASE RefreshReads \/ RefreshInstalls \/ EditTable \/ NodeChanges \/ Settle \/ UNCHANGED vars
    BY <1>1, <1>9 DEF RefreshReads, RefreshInstalls, EditTable, NodeChanges, Settle, vars, connections
  <1>10. CASE Restart
    BY <1>2, <1>10 DEF Restart, Idle
  <1> QED
    BY <1>1, <1>4, <1>5, <1>6, <1>7, <1>8, <1>9, <1>10 DEF Next

\* The gateway matches with one table and the node a second time with another
\* one, either possibly stale, and the gateway's lock is dropped in between.
\* If overlapping routes are on the same nodes and restrict hosts and methods
\* alike (one by which a node can answer never more than any other), no prefix
\* ends in two slashes, and URL parsing leaves paths their prefixes, a Worker
\* that answers is the one that some single table prescribes, on a node where
\* that table places it.
THEOREM RequestsAnsweredAsRouted ==
    ASSUME ShardsDecideAlike, PathsKeepPrefixes
    PROVE  Spec => []AnsweredAsRouted
  <1>1. Init => AnsweredAsRouted
    BY GatewayAssumption DEF Init, Idle, AnsweredAsRouted
  <1>2. GatewayInv /\ AnsweredAsRouted /\ [Next]_vars => AnsweredAsRouted'
    BY AnsweredNext
  <1> QED
    BY <1>1, <1>2, GatewayInvInit, GatewayInvNext, PTL DEF Spec
=============================================================================
