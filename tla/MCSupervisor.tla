--------------------------- MODULE MCSupervisor ---------------------------
(***************************************************************************)
(* Instances of Supervisor for TLC: two workers, two versions of one of    *)
(* them, and families of assignments, edits and object stores.             *)
(***************************************************************************)
EXTENDS Supervisor

CONSTANTS hello, billing,           \* workers
          helloV1, helloV2, billV1, \* contents of the scripts
          other                     \* a content no assignment prescribes

MCWorkers == {hello, billing}
MCContents == {helloV1, helloV2, billV1, other}
MCUrls == {"hello/v1", "hello/v2", "billing/v1"}
MCDates == {"2025-06-01", "2026-01-01"}
MCCapnpName == [w \in MCWorkers |-> IF w = hello THEN "workerHello"
                                                 ELSE "workerBilling"]

\* worker ids that differ in '-' and '_' only share a name
CollidingCapnpName == [w \in MCWorkers |-> "workerHello"]

SpecOf(id, version, url, sha, compat) ==
    [id |-> id, version |-> version, url |-> url, sha |-> sha,
     compat |-> compat]

Hello1 == SpecOf(hello, "v1", "hello/v1", helloV1, "2025-06-01")
Hello2 == SpecOf(hello, "v2", "hello/v2", helloV2, "2025-06-01")
Billing == SpecOf(billing, "v1", "billing/v1", billV1, "2025-06-01")

ToHello == [match |-> "/a", worker |-> hello]
ToBilling == [match |-> "/b", worker |-> billing]
MoveHello == [match |-> "/b", worker |-> hello]

Assign(gen, specs, routes) ==
    [gen |-> gen, workers |-> specs, routes |-> routes]

OnlyHello1 == Assign("1", <<Hello1>>, {ToHello, ToBilling})
BothNew    == Assign("2", <<Hello2, Billing>>, {ToHello, ToBilling})
OnlyHello1Again == Assign("3", <<Hello1>>, {MoveHello})
\* an edit that forgets the generation
OnlyBilling == Assign("2", <<Billing>>, {ToBilling})

AnyAssignments == {OnlyHello1, BothNew, OnlyHello1Again, OnlyBilling}
AnyEdits == AnyAssignments \X AnyAssignments

\* every generation names one assignment, and a worker has one version
Both1 == Assign("4", <<Hello1, Billing>>, {ToHello, ToBilling})
Moved == Assign("5", <<Hello1, Billing>>, {MoveHello, ToBilling})
BumpedAssignments == {OnlyHello1, Both1, Moved}
BumpedEdits == BumpedAssignments \X BumpedAssignments

\* a worker is added, routes move, another worker is upgraded, the first is
\* removed: no way back
OnlyHello2 == Assign("3", <<Hello2>>, {ToHello})
UpgradeAssignments == {OnlyHello1, Both1, Moved, BothNew, OnlyHello2}
UpgradeEdits ==
    {<<OnlyHello1, Both1>>, <<Both1, Moved>>, <<Both1, BothNew>>,
     <<Moved, BothNew>>, <<BothNew, OnlyHello2>>}

\* every generation names one assignment, and hello is upgraded and reverted
VersionedAssignments == {OnlyHello1, BothNew, OnlyHello1Again}
VersionedEdits == VersionedAssignments \X VersionedAssignments

FullStore == [u \in MCUrls |->
    CASE u = "hello/v1" -> helloV1 [] u = "hello/v2" -> helloV2
      [] u = "billing/v1" -> billV1]
NewStore == [FullStore EXCEPT !["hello/v2"] = NoObject]
WithoutBilling == [FullStore EXCEPT !["billing/v1"] = NoObject]
NoUploads == {}
\* the first upload of billing
BillingUpload == {<<"billing/v1", billV1>>}
\* the first upload of billing, and one that overwrites it
BillingUploads == {<<"billing/v1", billV1>>, <<"billing/v1", other>>}
JustHello1 == {OnlyHello1}
\* the upload of hello v2, and one that overwrites it with something else
HelloUploads == {<<"hello/v2", helloV2>>, <<"hello/v2", other>>}

=============================================================================
