----------------------------- MODULE MCGateway -----------------------------
(***************************************************************************)
(* Instances of Gateway for TLC: two nodes, two Workers whose prefixes     *)
(* nest, and routing tables that move, merge and withdraw them.            *)
(***************************************************************************)
EXTENDS Gateway

CONSTANTS hello, admin,     \* Workers
          n1, n2            \* nodes

MCWorkers == {hello, admin}
MCNodes == {n1, n2}
MCPodHost == [n \in MCNodes |-> IF n = n1 THEN "10.0.0.1" ELSE "10.0.0.2"]

Get(path) == [host |-> "example.com", method |-> "GET", path |-> path]

A == <<"/", "a">>
AB == <<"/", "a", "/", "b">>
ABSlash == <<"/", "a", "/", "b", "/">>
C == <<"/", "c">>
Every == <<"/", "*">>
WithQuery == <<"/", "a", "/", "b", "?", "q">>
Absolute == <<"h", ":", "/", "/", "a">>     \* an absolute URL as a proxy gets it

\* A query is cut off; an absolute URL after the pod's port is no URL.
MCPathname == [path \in {A, AB, C, WithQuery, Absolute} |->
    IF path = Absolute THEN Unparsable
    ELSE IF path = WithQuery THEN AB ELSE path]

MCRequests == {Get(WithQuery), Get(C), Get(Absolute)}
ExampleRequests == {Get(A), Get(C)}

Up(n) == [node |-> n, healthy |-> TRUE]
Sick(n) == [node |-> n, healthy |-> FALSE]

RouteFor(methods, prefix, worker, targets) ==
    [host |-> "*", prefix |-> prefix, methods |-> methods, worker |-> worker,
     targets |-> targets]
GetOrPost(prefix, worker, targets) == RouteFor({"GET", "POST"}, prefix, worker, targets)
GetOnly(prefix, worker, targets) == RouteFor({"GET"}, prefix, worker, targets)

TableOf(gen, routes) == [gen |-> gen, routes |-> routes]

\* routes whose prefixes nest are on the same nodes, the shorter one first
Nested == TableOf(2, <<GetOrPost(A, hello, <<Up(n1)>>), GetOrPost(AB, admin, <<Up(n1)>>),
                       GetOnly(C, hello, <<Up(n2)>>)>>)
\* everything is on the second node, but no node serves /a/b/
CatchAll == TableOf(1, <<GetOrPost(A, hello, <<Sick(n1), Up(n2)>>),
                         GetOrPost(ABSlash, admin, <<Sick(n1), Sick(n2)>>),
                         GetOrPost(Every, admin, <<Sick(n1), Up(n2)>>)>>)

MCTables == {Nested, CatchAll}
MCTableEdits == {e \in MCTables \X MCTables : e[1] # e[2]}

\* the routes of scripts/test-worker-runtime.sh: a Worker, and its health check
Example == TableOf(1, <<GetOrPost(A, hello, <<Up(n1)>>), GetOnly(C, hello, <<Up(n1)>>)>>)
ExampleTables == {Example}

\* The instances satisfy the conditions under which GatewayProofs proves that
\* requests are answered as routed.
ASSUME RoutingConditions == ShardsDecideAlike /\ PathsKeepPrefixes
=============================================================================
