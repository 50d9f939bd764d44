----------------------------- MODULE MCConsole ------------------------------
(***************************************************************************)
(* An instance of Console for TLC: a service with nothing around it and    *)
(* one with more containers, clusters and Dapr resources than are drawn, a *)
(* container and a Dapr component called "overflow" among them.            *)
(***************************************************************************)
EXTENDS Console

Resource(kind, name, namespace, scopes) ==
    [kind |-> kind, name |-> name, namespace |-> namespace, scopes |-> scopes]

Cluster(name, partOf) == [name |-> name, partOf |-> partOf]

Bare == [name |-> "hello", namespace |-> "default", appId |-> "hello",
         daprEnabled |-> FALSE, daprConfig |-> EMPTY_VALUE,
         containers |-> <<"user-container">>, dapr |-> <<>>,
         clusters |-> <<Cluster("other-postgres", "other")>>]

Crowded == [name |-> "hello", namespace |-> "default", appId |-> "app",
    daprEnabled |-> FALSE, daprConfig |-> "tracing",
    containers |-> <<"app", "overflow", "proxy", "metrics", "logs">>,
    dapr |-> <<Resource("Component", "vault", "default", {"hello"}),
               Resource("Component", "vault", "other", {"hello"}),
               Resource("Component", "overflow", "default", {}),
               Resource("Component", "state", "default", {"other"}),
               Resource("Component", "binding", "default", {"app"}),
               Resource("Configuration", "tracing", "default", {}),
               Resource("Configuration", "metrics", "default", {}),
               Resource("Subscription", "orders", "default", {"app"})>>,
    clusters |-> <<Cluster("a", "hello"), Cluster("b", "hello"),
                   Cluster("c", "other"), Cluster("d", "hello"), Cluster("e", "hello")>>]

MCSetups == {Bare, Crowded}

MCVaultPaths == [p \in {"p1", "p2"} |->
                    IF p = "p1" THEN "secret/data/dapr/p1" ELSE "secret/data/dapr/p2"]

MCVaultSecrets == [n \in {"hello", "other"} |->
                      IF n = "hello" THEN {"password", "host"} ELSE {"password"}]
=============================================================================
