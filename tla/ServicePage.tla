---------------------------- MODULE ServicePage ----------------------------
(***************************************************************************)
(* The overview page of a Knative service (packages/neki-console): what    *)
(* getServiceDetail and getServicePostgresClusters read, the mappers, and  *)
(* the component graph that buildGraph draws.                              *)
(*                                                                         *)
(* A page is assembled from several calls that run side by side, and the   *)
(* service may be deployed, split and collected between them.  Revisions   *)
(* are numbered in the order they were created.  Dapr resources, containers*)
(* and Postgres clusters do not change while a page is read, so only       *)
(* whether their lists fail is left open.  Wording, layout and fields that *)
(* are passed through as they are, are left out.                           *)
(***************************************************************************)
EXTENDS Integers, FiniteSets, Sequences, Arrange

CONSTANTS
    Setups,         \* what surrounds the service
    MaxRevision,    \* how many revisions are ever created
    MaxChanges,     \* bound on changes while one page is read
    None

ASSUME ServicePageAssumption ==
    MaxRevision \in Nat \ {0} /\ MaxChanges \in Nat /\ None \notin Int

\* Containers of a pod, objects of a kind in a namespace and clusters of the
\* service's namespace have different names.
IsList(s) == s \in Seq({s[i] : i \in DOMAIN s})

NamesDiffer(s) ==
    /\ IsList(s.containers) /\ IsList(s.dapr) /\ IsList(s.clusters)
    /\ \A i, j \in DOMAIN s.containers : s.containers[i] = s.containers[j] => i = j
    /\ \A i, j \in DOMAIN s.dapr :
          (\A field \in {"kind", "namespace", "name"} : s.dapr[i][field] = s.dapr[j][field])
              => i = j
    /\ \A i, j \in DOMAIN s.clusters : s.clusters[i].name = s.clusters[j].name => i = j
    /\ \A i \in DOMAIN s.dapr :
          s.dapr[i].kind \in {"Component", "Configuration", "Subscription"}

ASSUME SetupsAssumption == \A s \in Setups : NamesDiffer(s)

Lists == {"components", "configurations", "subscriptions", "postgres"}

VARIABLES
    setup,      \* the surroundings
    service,    \* status of the Knative service
    revisions,  \* the revisions that exist
    seen,       \* what the open page has read
    changes     \* changes of service and revisions since the page was opened

pageVars == <<setup, service, revisions, seen, changes>>

-----------------------------------------------------------------------------
\* The cluster around the console: Knative.  A traffic target names its
\* revision, follows the latest one or not, and may be there for its tag only.
Target(revision, latest, percent) ==
    [revision |-> revision, latest |-> latest, percent |-> percent]

All(revision) == <<Target(revision, TRUE, 100)>>

\* Splits a user may configure, with an older revision r and the latest one.
Splits(r, latest) ==
    {<<Target(r, FALSE, 30), Target(latest, TRUE, 70)>>,
     <<Target(r, FALSE, None), Target(latest, FALSE, 40), Target(latest, TRUE, 60)>>}

Routed(r) == \E i \in DOMAIN service.traffic : service.traffic[i].revision = r

Newest == CHOOSE r \in revisions : \A q \in revisions : q <= r

PageInit ==
    /\ setup \in Setups
    /\ service = [exists |-> TRUE, ready |-> None, latest |-> None, traffic |-> <<>>]
    /\ revisions = {1}
    /\ seen = [open |-> FALSE]
    /\ changes = 0

\* Variant: the revisions are not waited for.
ReadingService == seen.open /\ seen.service.how = "pending"

\* A page is complete when every call has been answered (Promise.all).
Reading == seen.open /\ "pending" \in {seen.service.how, seen.revisions.how}

\* What changes after a page is complete shows on the next one that is opened.
Changed ==
    /\ seen.open => Reading
    /\ changes < MaxChanges
    /\ changes' = IF seen.open THEN changes + 1 ELSE 0
    /\ UNCHANGED <<setup, seen>>

Deploy ==
    /\ service.exists /\ Newest < MaxRevision
    /\ revisions' = revisions \union {Newest + 1}
    /\ service' = [service EXCEPT !.ready = "Unknown"]
    /\ Changed

RevisionReady ==
    /\ service.exists /\ service.latest # Newest
    /\ service' = [service EXCEPT !.latest = Newest]
    /\ UNCHANGED revisions
    /\ Changed

\* The route follows the latest ready revision, or a split the user asked for.
RouteUpdated ==
    /\ service.exists /\ service.latest # None
    /\ \E traffic \in {All(service.latest)} \union
                      UNION {Splits(r, service.latest) : r \in revisions \ {service.latest}} :
          service' = [service EXCEPT !.ready = "True", !.traffic = traffic]
    /\ UNCHANGED revisions
    /\ Changed

RevisionCollected ==
    /\ \E r \in revisions : r < Newest /\ r # service.latest /\ ~Routed(r)
          /\ revisions' = revisions \ {r}
    /\ UNCHANGED service
    /\ Changed

PageServiceDeleted ==
    /\ service.exists
    /\ service' = [service EXCEPT !.exists = FALSE]
    /\ UNCHANGED revisions
    /\ Changed

-----------------------------------------------------------------------------
\* Reading.  Every list reports a failure as empty, with an error beside it; a
\* service that cannot be read leaves nothing of the detail.
Pending == [how |-> "pending"]
Failed == [how |-> "failed"]

\* The browser opens the page, or refreshes it.
OpenPage ==
    /\ ~seen.open
    /\ \E failed \in SUBSET Lists :
          seen' = [open |-> TRUE, service |-> Pending, revisions |-> Pending,
                   failed |-> failed]
    /\ changes' = 0
    /\ UNCHANGED <<setup, service, revisions>>

LeavePage ==
    /\ seen.open /\ ~Reading
    /\ seen' = [open |-> FALSE]
    /\ changes' = 0
    /\ UNCHANGED <<setup, service, revisions>>

GetNamespacedKnativeService ==
    /\ Reading /\ seen.service = Pending
    /\ \E answer \in {Failed} \union
            (IF service.exists THEN {[how |-> "read", value |-> service, when |-> changes]}
             ELSE {}) :
          seen' = [seen EXCEPT !.service = answer]
    /\ UNCHANGED <<setup, service, revisions, changes>>

ListKnativeRevisions ==
    /\ Reading /\ seen.revisions = Pending
    /\ \E answer \in {Failed, [how |-> "read", value |-> revisions, when |-> changes]} :
          seen' = [seen EXCEPT !.revisions = answer]
    /\ UNCHANGED <<setup, service, revisions, changes>>

PageNext ==
    \/ Deploy \/ RevisionReady \/ RouteUpdated \/ RevisionCollected
    \/ PageServiceDeleted \/ OpenPage \/ LeavePage
    \/ GetNamespacedKnativeService \/ ListKnativeRevisions

-----------------------------------------------------------------------------
\* The mappers.

\* What a list of one kind contributes, nothing if it failed.
Listed(list, kind) ==
    IF list \in seen.failed THEN <<>>
    ELSE Selected(setup.dapr, {i \in DOMAIN setup.dapr : setup.dapr[i].kind = kind})

ListDaprResources ==
    Listed("components", "Component") \o Listed("configurations", "Configuration")
    \o Listed("subscriptions", "Subscription")

\* In the namespace of the service; the configuration it names, and what is
\* scoped to its name or its app id, or to nobody in particular.
Related(resource) ==
    /\ resource.namespace = setup.namespace
    /\ IF resource.kind = "Configuration" THEN resource.name = setup.daprConfig
       ELSE \/ resource.scopes = {}
            \/ resource.scopes \intersect {setup.name, setup.appId} # {}

GetRelatedDaprResources ==
    LET listed == ListDaprResources
    IN  Selected(listed, {i \in DOMAIN listed : Related(listed[i])})

\* Variant: the last target of a revision counts.
LastTarget(traffic, latest, r) ==
    LET counted == {i \in DOMAIN traffic : /\ traffic[i].revision = r
                                           /\ traffic[i].percent # None}
    IN  IF counted = {} THEN 0
        ELSE traffic[CHOOSE i \in counted : \A j \in counted : j <= i].percent

\* toRevisionTraffic: the percentages of every target that names revision r, or
\* names none and follows the latest one when that is r; at most 100.
RevisionTraffic(traffic, latest, r) ==
    LET named(target) ==
            IF target.revision = None /\ target.latest THEN latest ELSE target.revision
        total == Total([i \in DOMAIN traffic |->
                           IF named(traffic[i]) = r /\ traffic[i].percent # None
                           THEN traffic[i].percent ELSE 0])
    IN  IF total > 100 THEN 100 ELSE total

\* Newest first, with the share of traffic each one gets.
ToServiceRevisions ==
    LET known == IF seen.revisions.how = "read" THEN seen.revisions.value ELSE {}
        newestFirst == Arranged(known, {pair \in known \X known : pair[1] > pair[2]})
        status == seen.service.value
        row(r) == [name |-> r, share |-> RevisionTraffic(status.traffic, status.latest, r)]
    IN  [i \in DOMAIN newestFirst |-> row(newestFirst[i])]

\* Variant: a list of revisions that cannot be read is an empty one.
WithoutRevisionErrors == seen.failed \ {"postgres"}

\* The errors of a page that has its service.  Those of the Postgres list do
\* not get there.
Errors ==
    (seen.failed \ {"postgres"})
    \union (IF seen.revisions = Failed THEN {"revisions"} ELSE {})

-----------------------------------------------------------------------------
\* buildGraph.  The identity of a node: the parts its string is joined from.
NoName == ""
Route == <<"route", NoName>>
ServiceNode == <<"service", NoName>>
Sidecar == <<"dapr-sidecar", NoName>>

FirstOf(items, limit) == SubSeq(items, 1, IF Len(items) < limit THEN Len(items) ELSE limit)

\* The card for those of a kind that there is no room for.  An item that is
\* called "overflow" has the same identity.
Overflow(kind) == <<kind, "overflow">>

\* Variant: no card counts a single one that is left over.
CardsWithoutRest(items, limit, overflow, sources, more) ==
    LET cards == FirstOf(items, limit)
        rest == IF Len(items) > limit + 1 THEN <<overflow>> ELSE <<>>
    IN  [nodes |-> cards \o rest,
         counted |-> Len(cards) + Len(rest) * (Len(items) - Len(cards)),
         edges |-> {<<sources[i], cards[i]>> : i \in DOMAIN cards}
                   \union {<<more, rest[i]>> : i \in DOMAIN rest}]

\* The first cards of a kind, each with an edge from its source, and one from
\* `more` that counts those there is no room for.
Cards(items, limit, overflow, sources, more) ==
    LET cards == FirstOf(items, limit)
        rest == IF Len(items) > Len(cards) THEN <<overflow>> ELSE <<>>
    IN  [nodes |-> cards \o rest,
         counted |-> Len(cards) + Len(rest) * (Len(items) - Len(cards)),
         edges |-> {<<sources[i], cards[i]>> : i \in DOMAIN cards}
                   \union {<<more, rest[i]>> : i \in DOMAIN rest}]

HasRoutedTraffic(revision) == revision.share > 0

RoutedRevisions ==
    LET rows == ToServiceRevisions
        routed == Selected(rows, {i \in DOMAIN rows : HasRoutedTraffic(rows[i])})
    IN  [i \in DOMAIN routed |-> <<"revision", routed[i].name>>]

RevisionCards ==
    LET cards == IF RoutedRevisions = <<>> THEN <<<<"no-routed-revisions", NoName>>>>
                 ELSE RoutedRevisions
    IN  [nodes |-> cards, edges |-> {<<ServiceNode, cards[i]>> : i \in DOMAIN cards}]

ShownContainers ==
    [i \in DOMAIN setup.containers |-> <<"container", setup.containers[i]>>]

\* A container hangs on the revision in its place, or on the first one.
ContainerCards ==
    LET routed == RoutedRevisions
        source(i) == IF i \in DOMAIN routed THEN routed[i]
                     ELSE IF routed # <<>> THEN routed[1] ELSE ServiceNode
    IN  Cards(ShownContainers, 4, Overflow("container"), [i \in 1 .. 4 |-> source(i)],
              ServiceNode)

ShownDapr ==
    LET related == GetRelatedDaprResources
    IN  [i \in DOMAIN related |-> <<"dapr", related[i].kind, related[i].name>>]

DaprCards == Cards(ShownDapr, 4, Overflow("dapr"), [i \in 1 .. 4 |-> Sidecar], Sidecar)

\* Variant: the sidecar is drawn when it is enabled.
SidecarIfEnabled ==
    IF setup.daprEnabled THEN [nodes |-> <<Sidecar>>, edges |-> {<<ServiceNode, Sidecar>>}]
    ELSE [nodes |-> <<>>, edges |-> {}]

SidecarCard ==
    IF setup.daprEnabled \/ ShownDapr # <<>>
    THEN [nodes |-> <<Sidecar>>, edges |-> {<<ServiceNode, Sidecar>>}]
    ELSE [nodes |-> <<>>, edges |-> {}]

GetServicePostgresClusters == IF "postgres" \in seen.failed THEN <<>> ELSE setup.clusters

\* Only clusters that are linked to the service are drawn.
LinkedClusters ==
    LET clusters == GetServicePostgresClusters
        found == Selected(clusters, {i \in DOMAIN clusters : clusters[i].partOf = setup.name})
    IN  [i \in DOMAIN found |-> <<"postgres", found[i].name>>]

PostgresCards ==
    Cards(LinkedClusters, 3, Overflow("postgres"), [i \in 1 .. 3 |-> ServiceNode], ServiceNode)

BuildGraph ==
    [nodes |-> <<Route, ServiceNode>> \o RevisionCards.nodes \o ContainerCards.nodes
               \o SidecarCard.nodes \o PostgresCards.nodes \o DaprCards.nodes,
     edges |-> {<<Route, ServiceNode>>} \union RevisionCards.edges
               \union ContainerCards.edges \union SidecarCard.edges
               \union PostgresCards.edges \union DaprCards.edges]

\* The page shows a service, and not that its details are unavailable.
Shown == seen.open /\ ~Reading /\ seen.service # Failed

\* Service and revisions were read at different moments.
Torn == seen.revisions.how = "read" /\ seen.revisions.when # seen.service.when

-----------------------------------------------------------------------------
\* However the two reads fall between deployments: if nothing changed between
\* them, the revisions drawn account for all the traffic of the route, and if
\* something did, they never show more than all of it.
TrafficAccounted ==
    Shown => LET rows == ToServiceRevisions
                 total == Total([i \in DOMAIN rows |-> rows[i].share])
             IN  /\ total <= 100
                 /\ (seen.revisions.how = "read" /\ ~Torn /\ seen.service.value.traffic # <<>>)
                        => total = 100

\* With any part of the page missing or torn: every edge joins two cards that
\* are drawn, every card but the route's can be reached, and two cards have one
\* identity only where something called "overflow" is drawn beside the card for
\* those of its kind that do not fit.
GraphWellFormed ==
    Shown => LET graph == BuildGraph
                 drawn == {graph.nodes[i] : i \in DOMAIN graph.nodes}
             IN  /\ \A i, j \in DOMAIN graph.nodes :
                       graph.nodes[i] = graph.nodes[j] =>
                           i = j \/ graph.nodes[i] \in {Overflow("container"), Overflow("postgres")}
                 /\ \A edge \in graph.edges : edge[1] \in drawn /\ edge[2] \in drawn
                 /\ \A node \in drawn \ {Route} : \E edge \in graph.edges : edge[2] = node

\* What does not fit on the graph is counted on it.
NothingHidden ==
    Shown => /\ ContainerCards.counted = Len(setup.containers)
             /\ DaprCards.counted = Len(ShownDapr)
             /\ PostgresCards.counted = Len(LinkedClusters)

\* Something that exists is missing from the page only if the page says that a
\* list could not be read, or the service changed meanwhile.  For the clusters the
\* page does not say so: they are there unless their list could not be read.
AbsenceExplained ==
    (Shown /\ Errors = {}) =>
        /\ \A i \in DOMAIN setup.dapr :
              Related(setup.dapr[i]) =>
                  \E j \in DOMAIN ShownDapr :
                      ShownDapr[j] = <<"dapr", setup.dapr[i].kind, setup.dapr[i].name>>
        /\ "postgres" \notin seen.failed =>
              \A i \in DOMAIN setup.clusters :
                  setup.clusters[i].partOf = setup.name =>
                      \E j \in DOMAIN LinkedClusters :
                          LinkedClusters[j] = <<"postgres", setup.clusters[i].name>>
        /\ ~Torn =>
              \A i \in DOMAIN seen.service.value.traffic :
                  LET target == seen.service.value.traffic[i]
                  IN  target.percent # None =>
                          \E j \in DOMAIN RoutedRevisions : RoutedRevisions[j][2] = target.revision
=============================================================================
