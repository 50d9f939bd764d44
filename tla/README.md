# Verification of neki

TLA+ models of the neki worker platform, their TLC configurations and their
TLAPS proofs. Every definition is translated from the source; the source lines
each one stands for are listed in `PROJECT.json` under `map`.

## 1. The system

neki runs JavaScript Workers on Kubernetes. Its own programs are:

| part | source | state | operations |
|---|---|---|---|
| worker-node supervisor | `packages/neki-worker-node/src` | assignment file (read), `workers/<id>.js`, `router.js`, `config.capnp` in the state directory, `LoadedState` behind an `RwLock`, the `workerd` child | a reconcile pass per interval (download, verify, install, restart or publish), stop/spawn of workerd, `GET /healthz /readyz /manifest /workers` |
| in-process router Worker | `packages/neki-worker-node/assets/router.js` | the manifest embedded in its config | match host, method and longest prefix, dispatch through a service binding |
| routing gateway | `packages/neki-worker-router/src/main.rs` | the routing table behind an `RwLock` | refresh from a file, match a request, pick a healthy target, forward |
| upload CLI | `packages/neki-controlplane/src/main.rs` | objects in RustFS | ensure the bucket, PUT a script, print its digest |
| console server actions | `packages/neki-console/lib/actions` | Kubernetes objects, Vault KV secrets | create Postgres and Neon databases and branches, delete branches, reload a Knative service, wait for jobs and readiness |
| console read side | `lib/actions/mappers.ts`, `loki.ts`, the `get*` actions | none | read Kubernetes, Neon, Vault and Loki in several calls, map what they return |
| console UI | `packages/neki-console/app` | what a page was rendered from, which may be stale; state of the React components | overview with its component graph, databases and branches, secrets, logs, playground |
| order workflow example | `examples/dapr-workflow/src` | a Dapr workflow per order | reserve, approve or time out, pay, ship, notify |
| other examples, `infra`, `scripts` | | none of their own | stateless handlers, installation |

**Interactions.** The CLI writes scripts to RustFS; an operator puts their URL
and digest into an assignment file; the supervisor polls the file, downloads
from RustFS, renders the config workerd starts from and publishes a manifest.
The gateway polls a routing table file and forwards to the nodes. The console
drives Kubernetes, Vault, CloudNativePG, Neon and Knative, and its pages read
them, and Loki, again for every rendering.

**What is hard.** The supervisor has three representations of "the workers of
this node": files on disk, the in-memory `LoadedState`, and what the running
workerd read when it started. They are updated one await after another; each
update can fail, the child can exit and the container can restart at any of
them, and the decisions of the next pass (what to download, whether to restart)
are taken by comparing the new assignment with only one of the three. The
gateway and the node hold copies of routing data that are refreshed on their
own clocks. The console's actions are multi-step writes without transactions,
checked before and not while they write. The order workflow races an external
event against a timer and runs its activities at least once. A page of the
console is put together from reads of different moments, some of which fail, and
what it sends back is what it was rendered from.

**What makes each part correct.**

* supervisor: nothing unverified is ever executed; workerd can always be
  started from the disk; the three representations agree between passes; a
  worker that was loaded is not dropped; the node converges to its assignment;
  no needless restarts.
* router Worker and gateway: the longest matching prefix wins, in both the same
  way; a Worker that answers is one a table prescribes for what the client asked;
  a new table is used in the end.
* upload CLI: an upload that overwrites a version does not get other code run
  than the assignment prescribes.
* console actions: whatever fails, an object that exists has the credentials, the
  project and the bucket it needs; of racing submissions at most one succeeds;
  one form at a time, credentials agree and no key of a secret is lost.
* console pages: what a page shows is accounted for, drawn once and explained
  when it is missing; a form sends what was meant.
* order workflow: an order is decided once; payment happens only after
  approval where approval is needed, shipping only after payment.

`PROJECT.json` lists the hazards line by line, each with the properties that
would catch it.

## 2. Modules

| module | models |
|---|---|
| `Supervisor` | the whole worker-node supervisor and its environment; constants, assumptions, actions, fairness, properties |
| `MCSupervisor` | the workers, assignments, edits and object stores TLC uses |
| `SupervisorProofs` | TLAPS proofs about `Supervisor`: what holds under any fault |
| `SupervisorAgreement` | extends it: proofs that disk, memory and process agree, under named operating conditions |
| `MCSupervisorAgreement` | extends `MCSupervisor`, and has TLC check that the runs about agreement satisfy these conditions |
| `Arrange` | sorting, filtering and summing in a form that can be proved about; used by `Gateway` and the console pages |
| `ArrangeProofs` | what these operators return |
| `RouteMatch` | `match_request` of the gateway and `matchRoute` of the router Worker as operators, and the longest-prefix reference `Prescribed` |
| `RouteMatchProofs` | TLAPS proofs that both matchers compute the reference |
| `Gateway` | extends `RouteMatch`: the routing gateway, the routers of the nodes behind it, table edits and restarts |
| `MCGateway`, `GatewayProofs` | the routing tables, requests and nodes TLC uses; TLAPS proofs about `Gateway` |
| `Provision` | the console actions that create databases and branches, call by call, submitted concurrently, over Kubernetes, Vault, the bucket job and the rollout of the service |
| `MCProvision`, `ProvisionProofs` | the forms TLC uses; TLAPS proofs about `Provision` |
| `OrderOutcome` | the abstract specification of the order workflow: what becomes of an order |
| `OrderWorkflow` | the generator with its activities, event and timer, the HTTP server, and the smoke test as a client; implements `OrderOutcome` |
| `MCOrderWorkflow`, `OrderProofs` | the orders TLC uses; TLAPS proofs, the refinement among them |
| `ServicePage` | the overview of a service: two reads that may be torn, lists that may fail, the mappers and the component graph |
| `NeonPages` | the list of databases, the page of a project and its branch forms |
| `SecretsPage` | the secrets form: loading, revealing and copying |
| `LogsPage` | Loki's answer, and the merging of its streams |
| `PlaygroundPage` | presets, edits and requests of the playground |
| `Console` | extends the five pages: the one browser that has one of them open |
| `MCConsole`, `ConsoleProofs` | the services and names TLC uses; TLAPS proofs about `Console`, page by page |

### Supervisor: correspondence with the code

One action per await of `Reconciler::reconcile` and of the functions it calls.
`pc` names the await the reconcile task is at.

| pc | action | code |
|---|---|---|
| `sleep` | `Tick` | interval elapsed, an exited child is forgotten (`main.rs` 76-93) |
| `read` | `ReadAssignment`, `ReadFails` | `read_assignment`, skip on error |
| `next` | `KeepWorker`, `GetObject`, `GetObjectFails` | one iteration of the download loop up to `get_object` |
| `body` | `ReceiveBody`, `DownloadBreaksOff` | the stream into `<id>.js.tmp` |
| `verify` | `InstallScript`, `RejectScript`, `DownloadBreaksOff` | digest, rename; `dest.exists()` on failure |
| `next`, loop done | `PublishWithoutRestart`, `BeginRouterCopy`, `RouterCopyFails` | `need_restart`, `install_router` |
| `copy` | `FinishRouterCopy`, `RouterCopyFails` | `fs::copy` truncates, then writes |
| `render`, `flush`, `rename` | `CreateConfigTmp`, `FlushConfigTmp`, `RenameConfig`, `WriteConfigFails` | `write_config` |
| `stop` | `StopWorkerd` | SIGTERM, ten seconds, SIGKILL |
| `spawn` | `SpawnWorkerd`, `SpawnFails` | `WorkerdProcess::spawn`; the error path logs a rollback and does none |
| `publish` | `Publish` | the write lock and `*st = temp_state` |

Around it: `WorkerdLoads` (the child reads config and scripts some time after
it was forked, and serves or exits), `WorkerdExits`, `Crash` (the container
restarts, memory is lost, the state directory is not), `EditAssignment`,
`UploadObject` (a PUT that overwrites) and `Settle`, after which neither faults
nor edits nor uploads happen; liveness is stated from then on.

`file`, `store`, `settled` are the environment; `scripts`, `router`, `config`
the state directory; `tmp` and `configTmp` the temporary file being written;
`desired`, `position`, `loaded`, `anyDownloaded`, `body` the locals of a pass;
`state` the `Arc<RwLock<LoadedState>>`; `workerd` and `served` the child.

Abstractions:

* a digest is the content it is the digest of (no collisions);
* host, path prefix and methods of a route are one value: matching is not the
  supervisor's business;
* `current`, the clone of the state a pass works with, equals `state` until the
  pass publishes, because only reconcile writes it and passes never overlap;
* a temporary file is read by nothing but the rename that ends its writing, and
  the next `File::create` truncates it, so an abandoned one is dropped;
* a `router.js` that is only partly copied makes workerd exit; in the installed
  configuration the source and destination of the copy differ, so the early
  return of `install_router` is not taken;
* an unexpected exit is noticed at the next tick only, as in the code; that
  workerd refuses duplicate constant names and missing embeds is how the
  external program behaves;
* the HTTP handlers only read `state`; what `/manifest` answers is the operator
  `BuildManifest`, evaluated in every state. `/readyz` answers 200 whenever a
  worker is listed, also while workerd is stopped.

Bounds: two workers, one of them in two versions, a content no assignment
prescribes, three to five assignments per family, two routes. No counter in the
model grows: `position` is bounded by the length of the assignment. Two workers
are enough for one to be present and the other missing, upgraded, skipped or
colliding; two versions are enough for an upgrade and its revert; every
assignment is edited into others at any moment, so a pass can be overtaken any
number of times.

### Gateway: correspondence with the code

| action | code in `neki-worker-router/src/main.rs` |
|---|---|
| `ReadRequest` | accept, `handle_connection` up to the lock (176-199) |
| `MatchAndSelect` | once no refresh wants the lock (`MayRead`), `match_request` and `select_target` under the read lock (200-229); what comes out is `Decision` |
| `Refuse` | the 404 or 503 is written while the read lock is still held, then the function returns |
| `Forward` | `drop(table)`, POST to the target, its answer copied back, 502 on failure (243-270); the node answers with `MatchRoute` on its own routes, applied to `Forwarded`: a POST to its own address with the path a URL parser finds |
| `RefreshReads`, `RefreshInstalls` | the refresh task: the file is read, then the write lock taken and the table replaced if the generation differs (111-134) |
| `Restart` | `main` again (84-102): the file's table, or an empty one if it cannot be read |
| `EditTable`, `NodeChanges`, `Settle` | outside: the file is edited, a node loads its shard of some table or goes down, and in the end all comes to rest |

`table` is the `Arc<RwLock<RoutingTable>>`, `fresh` and `refresher` the refresh
task, `at`, `request`, `target` the locals of a connection task, `answer` what
its client got. A slot in `Connections` takes any number of connections, one
after another. `routesOf` is the manifest of each node; that a route in a
node's manifest has its binding is `RouterDispatches` of `Supervisor`.

`Pathname` is what becomes of a path on its way: the gateway appends it to the
address of the pod (232), reqwest parses that URL and `router.js` parses it
again (10-13), so dot segments, a query and a fragment are gone, and an address
that cannot be parsed is answered with 502. It is a constant, of which the
proofs assume nothing but what `PathsKeepPrefixes` says.

Abstractions: the file is replaced as a whole (a torn read fails to parse and
is a failed read, which changes nothing); a generation is a number only
compared for equality; the request is read right (one `read` of at most 64
KiB, no line of its body that looks like a request line or a `Host` header);
Workers do not redirect (the HTTP client would follow); weights are ignored, as
in the code; answers of a Worker are the Worker. A prefix `/api/*` of the design
document is a prefix like any other to the code, which knows no wildcard but
`/*`, and so it is in the model.

`ShardsDecideAlike` and `PathsKeepPrefixes` are the operating conditions of
`AnsweredAsRouted`. The node matches what the gateway sends and not what the
client asked, so a route by which a node can match a POST to a pod's address
has to admit every client that overlapping routes of any table admit;
overlapping routes of one table admit the same clients and are on the same
nodes; no prefix ends in two slashes; and parsing keeps the prefixes of a path.
A route for GET only or for a named host is within the conditions (no node ever
matches by it), so the examples of the repository are: section 5 says what
becomes of their requests.

Bounds: two nodes, two Workers with nested prefixes, routes for GET and POST and
for GET only, two connections at a time, two tables and the empty one, each with
a generation of its own, edited into one another in both directions, so
generations also go back; three requests, one with a query and one with an
absolute URL that cannot be parsed behind the pod's address. Connections meet
only at the lock, so a reader, a waiter and the writer are all there is to
combine. A trailing slash in a prefix, an unhealthy first target, a route
without healthy targets and a withdrawn route all occur in the tables. 47,124
states.

### Provision: correspondence with the code

A submission `s` is one run of a server action; `at[s]` is the call it makes
next, and `form[s]` its form after defaults. `PostgresCalls`, `NeonCalls`,
`BranchCalls` and `DeleteCalls` are the four actions of `server-actions.ts` as
sequences of calls; each call is one action of the module.

| action | call |
|---|---|
| `Submit` | the form data is read and the validators run (`Rejected`, per kind of form) |
| `EnsurePostgresClusterIsNew`, `EnsureNeonProjectIsNew`, `EnsureNeonBranchIsNew`, `GetNeonProject`, `GetService` | look-ups that decide whether to go on; the delete action takes every 404 for a success |
| `ResolveDaprVault`, `ResolveNeonBucketConfig` | what the named component and the Neon cluster must refer to |
| `ReadVault`, `WriteVault` | `writeVaultKvSecret`: read, merge, POST, with the second attempt of `fetchVault` through the port-forward |
| `CreateBootstrapSecret`, `CreatePostgresCluster` | create or patch; create, 409 if it exists |
| `CreateRustfsBucketJob`, `WaitForJobComplete`, `JobPodEnds` | the job and its pods; three failures end the wait, four end the job |
| `CreateNeonProject`, `CreateNeonBranch`, `DeleteNeonBranch` | the Neon objects |
| `ReloadKnativeService`, `WaitForKnativeServiceReady`, `ServiceReconciled`, `ServiceDeleted` | a new generation of the service, and its rollout, at which pods read Vault |
| `CallFails`, the lost answers in `Proceed`, `WaitTimesOut` | a call fails before or after it had its effect; both waits have a deadline |

Abstractions: a password, a cluster or a project is the submission that made
it; a Vault secret has two groups of keys, the connection, always written
together, and what only a Neon database has; namespaces and copied fields are
left out; an action whose process dies is one that failed at that call.

Bounds: two submissions of nine forms (each kind, valid and invalid, and with
missing configuration) over one cluster, two projects, two branch names and two
secrets: 369,382 states. Two submissions are the races there are between two
users; `serial` also makes the second one a retry or a later form. Generations
and versions grow with the submissions only.

### OrderWorkflow: correspondence with the code

| action | code |
|---|---|
| `StartActivity`, `PerformActivity`, `CompleteActivity`, `ActivityFails` | an activity is scheduled, publishes its message and is recorded; only `shipOrderActivity` looks at the environment. A stop of the server between the last two runs it again |
| `AfterActivity`, `BeginWait`, `Decided`, `TimerFires` | the generator from one `yield` to the next: `whenAny` of the approval event and the 24 hour timer |
| `PostOrder`, `RaiseEvent` | the routes of `server.ts` that start an order and forward an answer |
| `ServerStops`, `ServerStarts`, `RuntimeStarts`, `SidecarTimesOut` | the process, and its promise `runtimeStarted` |
| `TesterPosts`, `TesterPolls`, `TesterApproves`, `TesterGivesUp` | the smoke test; `CustomStatus` and `RuntimeStatus` are what GET answers |

Dapr replays the recorded history through the generator, which reads nothing
else, so `step` is where the replay arrives and survives restarts.

`OrderOutcome` knows nothing of activities, replays or servers: an order is
placed, answered, decided once, paid, shipped and ended. The refinement mapping
takes `small` from the total, `answer` from the first event, `paid` and
`shipped` from the counts of published messages, and `outcome` from `step`.
Reserving, notifying, waiting, replaying, and publishing again are stutters.

Bounds: one order, as orders share nothing but the server process, with bodies
below and at the limit, negative and incomplete: 3,840 states.
`payments` and `shipments` count up to 2, for "more than once".

### Console: correspondence with the code

Pages share nothing in the browser: every page reads the cluster by itself.
A behaviour of `Console` therefore follows the one page that is open
(`activeTab`).

* `ServicePage`: `GetNamespacedKnativeService` and `ListKnativeRevisions` are
  the concurrent reads of `getServiceDetail`; between them the service is
  deployed, becomes ready, is routed, collected or deleted. `RevisionTraffic`,
  `ToServiceRevisions`, `GetRelatedDaprResources` and `Errors` are the mappers;
  `BuildGraph` with its cards is `buildGraph` of `service-component-flow.tsx`.
  `NamesDiffer` is assumed of the surroundings: Kubernetes refuses two
  containers of one name in a pod, and two objects of one kind and name in a
  namespace; the clusters of the page are all of the service's namespace.
* `NeonPages`: `ReadProjects` and `ReadBranches` are the two calls a page makes
  at once, with anything happening between them; `ShowDatabases` and
  `ShowProject` render what was read, or errors. `ToServiceNeonDatabase`,
  `SortServiceNeonDatabases` and `ToServiceNeonProjectSummary` are the mappers,
  `NeonProjectPage` the project page with the hidden fields of its form. Others
  create, apply with `kubectl` and remove objects while a page is open or read.
  `SubmitBranch` and `DeleteBranch` are single steps; `Provision` has their
  calls. Branches are created at different times, and projects are not removed:
  no action of the console does.
* `SecretsPage` and `PlaygroundPage`: the state of the React components
  `SecretsForm` and `PlaygroundForm`, with answers, timers and form resets at
  any moment. `SelectPreset` is the render of a selection, which makes three of
  the inputs anew; `BodyEffect` is the effect after it, which sets the body.
* `LogsPage`: `LokiAnswers` are the streams Loki returns (external), one for
  each set of labels; the repository's collector labels by container
  (`infra/observability/alloy-values.yaml`), so a pod has several.
  `ToLogEntries` flattens and sorts them by timestamps that are compared as
  JavaScript numbers.

A card of the graph has the parts its identity is joined from, so that a
container called "overflow" has the identity of the card for the containers that
do not fit, as in the code.

Bounds: three revisions, two changes while a page is read, and two services, one
with nothing around it and one with more containers, clusters and Dapr resources
than the graph draws, a container and a Dapr component called "overflow" among
them; two projects, two branch names and three branches created, so a name is
used again in another project; two secrets and a missing one, two copy timers;
two streams of one pod, four instants, a window of two, a limit of three lines
and two instants per JavaScript number; two presets. 598,453 states.

## 3. Runs

The runs of the supervisor differ in the edits allowed and in the faults that
happen, because several properties hold only in a regime (section 5 tells what
happens outside of it).

| run | world | shows |
|---|---|---|
| `supervisor_safety` | any edit, also without a new generation; objects missing, uploaded late and overwritten; every fault | `TypeOK`, `VerifiedScripts`, `ConfigClosed`, `RouterDispatches`, `LoadedWorkersKept` |
| `supervisor_restarts` | each generation names one assignment, no return to an earlier version; read, write, spawn, exit and crash faults; then quiet | `LoadedIsBound`, `RoutesChangeWithoutRestart`, `ReportsWhatIsServed`, `AvailableWorkersServed`, `RemovedWorkersUnbound` |
| `supervisor_downloads` | each generation names one assignment; read, download, exit and crash faults; an object uploaded late, and overwritten; then quiet | `LoadedIsBound`, `AvailableWorkersServed` |
| `gateway` | any edit of the table, lagging and failing nodes, restarts, requests with queries and unusual URLs, routes for GET only; Workers that never answer; then quiet | `TypeOK`, `AnsweredAsRouted`, `NewTableUsed`, `RequestsRouted` |
| `provision` | two forms, at once or one after the other; failing calls, lost answers, deadlines, a failing job, a service that rolls out slowly or is deleted | `TypeOK`, `CredentialsSavedFirst`, `NeonObjectsOrdered`, `OneSubmissionSucceeds`, `SuccessIsServed`, `CredentialsAgree`, `KeysKept`, `EverySubmissionEnds` |
| `order_workflow` | answers early, late, twice or never; restarts at every stage of an activity; a sidecar that does not come up; shipping switched off | `TypeOK`, `SmokeTestTruthful`, `ImplementsOutcome`, `EveryOrderEnds` |
| `console` | each page against a cluster that changes between and during its reads, with failing reads | `TypeOK`, `TrafficAccounted`, `GraphWellFormed`, `NothingHidden`, `AbsenceExplained`, `VaultPathsStayInProject`, `NewestFirst`, `OnePresetSent`, `MarkClears` |
| `finding_stale_digest`, `finding_route_change`, `finding_no_rollback`, `finding_forwarded_post`, `finding_branch_form` | the shortest world that has the case | section 5 |

The properties, in words, are the comments above their definitions.

* `supervisor_safety` establishes what protects execution under arbitrary
  failure; the other supervisor runs that disk, memory and process agree.
* `AnsweredAsRouted` is the gateway's promise: although a request is matched
  twice, by two parties with possibly different tables, the second time as
  another request than the client's, a Worker that answers is one that a single
  table prescribes for the client. It does not say that a Worker answers: the
  node may turn down what the gateway matched (section 5).
* `NewTableUsed` and `RequestsRouted` are about the lock: neither a refresh, nor
  the connections that wait for it, nor one whose Worker never answers keeps the
  others waiting for ever.
* `provision` shows what is left of a transaction that the console does not
  have: the order of what is created, at most one success among racing
  submissions although look-up and creation are separate calls, and a success
  that means the service runs with the new secret. `CredentialsAgree` and
  `KeysKept` are stated for one form at a time: two at once may leave Vault with
  the password of the submission that failed, and Vault's read-merge-write keeps
  no concurrent writer's keys.
* `ImplementsOutcome` is a refinement: whatever is replayed, repeated or lost, an
  order looks like one that was decided once, from the first answer or the
  timeout, paid only if approved or small, and shipped only if paid.
  That a payment is published only once is not promised: it is published
  again when the server stops before the activity is recorded.
* `TrafficAccounted` and `AbsenceExplained` are about torn and failed reads:
  the revisions drawn account for all traffic, or for no more than all of it when
  the reads are of different moments; what exists and is not shown is excused by
  an error on the page or by a change meanwhile. There is one exception, which
  the property states: the page drops the errors of the list of clusters
  (`page.tsx` 37, 66), so clusters may be missing without a word.
  `GraphWellFormed` and `NothingHidden` are about the limits of the graph; two
  cards have one identity only where a container or a cluster is called
  "overflow".
* `VaultPathsStayInProject` is about stale pages, pages made of lists of
  different moments, and names used again: the Vault path of a branch, copied
  from branch to branch through rendered forms, never is that of another
  project.
* `NewestFirst` promises the exact order of each stream only. Timestamps are
  rounded to 256 ns, so lines of two containers of one pod that are closer come
  out in the order of the streams.
* `OnePresetSent` excepts the body of a request that is sent between the render
  of a selection and the effect after it: that is still the body from before.

Deadlock is not checked in the runs whose system may stop: `provision` (all
forms are answered), `order_workflow` (every order has ended) and the console
runs (nothing happens to a page nobody uses).

**Fairness.** The supervisor's `FairSpec` assumes weak fairness of its own
non-failing steps and of `WorkerdLoads`. The reconcile task runs in a loop
without exit and every await in it returns or fails (sleep, file I/O, S3 calls,
a stop bounded by ten seconds and SIGKILL), and a spawned child is scheduled by
the operating system. No fairness is assumed of faults, edits or uploads: they
may happen any number of times before `Settle` and never have to.

The gateway's `FairSpec` assumes weak fairness of the refresh task and of a
refusal, which wait for nothing that may never come, and that a connection which
can get the lock again and again gets it, since tokio's `RwLock` serves its
waiters in order. That is strong fairness of `MatchAndSelect`, less a restart,
which ends the waiting too; it is written as a formula over states, which TLC
evaluates faster. No fairness is assumed of `Forward`: the client is built
without a timeout (95-97), so a Worker that never answers keeps its connection
for ever, and no other. Nothing is assumed of clients, edits, node failures or
restarts.

`Provision` assumes weak fairness of `Advance(s)`: every call returns or fails,
and both waits end at their deadlines (`rustfs.ts`, `kubernetes.ts`). Nothing is
assumed of job pods, of the rollout or of users. `OrderWorkflow` assumes that a
stopped server is started again (weak), and strong fairness of the sidecar's
answer, the timer and each stage of an activity: a server that is stopped again
and again still runs long enough now and then. `EveryOrderEnds` excepts a server
that is stuck with a rejected `runtimeStarted`, which only a restart from
outside ends. `Console` assumes only that the browser runs its timers.

## 4. Proofs

The theorems hold for any values of the constants that satisfy the named
assumptions of the module: any number of workers, submissions, orders or routes.

### SupervisorProofs

| theorem | statement |
|---|---|
| `TypeCorrect` | `Spec => []TypeOK` |
| `ScriptsVerified` | `Spec => []VerifiedScripts` |
| `ConfigAlwaysClosed` | `Spec => []ConfigClosed` |
| `RouterAlwaysDispatches` | `Spec => []RouterDispatches` |
| `WorkersAreKept` | `Spec => LoadedWorkersKept` |

`VerifiedScripts` alone is not inductive: that the file renamed into place is
the object whose digest was compared needs what `tmp`, `body`, `position` and
`desired` are at each `pc` (`PassInv`). `ConfigClosed` needs that every worker
in `loaded` and in `state` has a script file (`LoadedHaveScripts`: scripts are
replaced and never removed) and that the temporary config, before its rename,
is closed (`ConfigTmpClosed`). `RouterDispatches` follows from both at the
moment workerd loads, and is then preserved since `served` is a copy. `IInv` is
the conjunction, proved action by action. `LoadedWorkersKept` is an action
property and needs its own invariant, `KeptInv`: a worker of the assignment
that was loaded before the pass is already in `loaded` once the loop has passed
it, because its script is on disk and a failed download then records it too.

### SupervisorAgreement

| theorem | under | statement |
|---|---|---|
| `ReportedWorkersAreBound` | `GenerationsNameAssignments`, `DistinctIds`, `NoScriptLeftBehind` | `Spec => []LoadedIsBound` |
| `RouteChangesDoNotRestart` | `DistinctIds`, `DownloadsSucceed`, `DatesGiven` | `Spec => []RoutesChangeWithoutRestart` |
| `ReportsAreServed` | `GenerationsNameAssignments`, `DistinctIds`, `DownloadsSucceed`, `OnlyForward(age)` | `Spec => []ReportsWhatIsServed` |

These hold in a regime only; section 5 tells what happens outside of it, after
a pass that fails between install and stop or an upgrade that is reverted. The
conditions are definitions of `Supervisor` over its constants, so the
theorems name them as assumptions, and `MCSupervisorAgreement` has TLC evaluate
them on the runs `supervisor_restarts` and `supervisor_downloads`: they are
satisfied there, with more than one assignment and with faults.

* A generation names one assignment ("Every assignment should have a
  generation", `docs/worker-design.md`), and no assignment lists a worker twice.
* `NoScriptLeftBehind`: either writes do not fail, so that no pass ends between
  installing a script and stopping workerd, or downloads of assigned scripts
  always succeed, so that the next pass lists the worker all the same and finds
  that the workers changed. Failing reads and spawns, exits and crashes are
  allowed in both cases, failing downloads and late uploads in the first.
* `DatesGiven`: no spec gives an empty compatibility date. An empty one is
  compared, as it is, with the default that was recorded, and so looks changed in
  each new generation. (One that is left out gets a date when the file is
  parsed, `models.rs` 23-29.)
* `OnlyForward(age)`: some rank `age` of the assignments grows with every edit,
  and no worker is given a script again that was replaced in between.

What has to be added to `IInv` and `KeptInv` is where each of the three
representations stands. `LoopInv` says what the download loop has collected,
`PublishedInv` that the state was published from some assignment and that a
worker of it that is not loaded has no script, `BoundInv` at each `pc` which of
`loaded`, `config`, `served` and `state` name the same workers. Together they
are `AgreeInv`. A restart that is decided by comparing only generations and
worker graphs is then enough, because two states of one generation can differ
only by workers whose script a pass has installed, and installing sets
`anyDownloaded`. `RouteInv` adds why a pass restarts (`ReasonInv`). `ReportInv`
adds `AgeInv`: the script on disk, the one embedded in workerd and the digest in
the state were given by assignments between the one that was published and the
newest one, so that when the published one is the newest they are the same
(`NothingBetween`).

### ProvisionProofs

| theorem | statement |
|---|---|
| `TypeCorrect` | `Spec => []TypeOK` |
| `CredentialsAreSavedFirst` | `Spec => []CredentialsSavedFirst` |
| `NeonObjectsAreOrdered` | `Spec => []NeonObjectsOrdered` |
| `OneSucceeds` | `Spec => []OneSubmissionSucceeds` |
| `SuccessServed` | `Spec => []SuccessIsServed` |
| `CredentialsAgreement` | `Spec => []CredentialsAgree` |
| `KeysAreKept` | `Spec => KeysKept` |

`CallsInv` says that a submission is only ever at a call of its own kind of
form; with `TypeOK` it is inductive. The lemmas `StepMoves`, `StepFrames`,
`StepActs` and `MoveFrom` then say once, for every step of a submission, where
it came from, which stores it left alone and what it must have done to get
further, so each theorem needs one strengthening that says what holds at which
call: `CredentialsInv` (Vault is written before the bootstrap secret is, and
that before the cluster), `NeonInv` (who is past the wait has a job that
succeeded), `OwnInv` (who is past a creation owns the object), `ServedInv`
(versions seen by the service are bounded by those written, and by the
generation at which they were read). The last two theorems add `InOrder` and
`SerialInv`: one form at a time, the keys in Vault are those that were read when
they are written back, a cluster that is about to be created does not exist, and
the connection in Vault is that of the owner of the cluster or of a later form.

### OrderProofs

| theorem | statement |
|---|---|
| `TypeCorrect` | `Spec => []TypeOK` |
| `SmokeTestIsTruthful` | `Spec => []SmokeTestTruthful` |
| `OutcomeIsImplemented` | `Spec => ImplementsOutcome` |

`OrderInv(o)` says at each step of the generator what has been decided, paid and
shipped. With it every step of the workflow is a step of `OrderOutcome` or a
stutter: one lemma per action that is not a stutter (`PerformRefines`,
`DecideRefines`, `PostRefines`, `RaiseRefines`, `CompleteRefines`,
`MoveRefines`), collected in `OrderStepRefines`.

### RouteMatchProofs

| theorem | statement |
|---|---|
| `LongestPrefixMatched` | for every table and request, `MatchRequest` is `Prescribed` |
| `MatchersAgree` | in every table in which no prefix ends in two slashes, `MatchRoute` is `MatchRequest` |

Sorting is by rank, the number of routes that come before. The order is total
(`BeforeIsTotal`), so ranks grow with it (`RankGrows`) and are a bijection onto
the positions of the table (`RankIsPosition`); the first position that fits is
then the least route that fits (`PrescribedIsFirstFit`). The exception is real:
Rust trims all trailing slashes and JavaScript one (`TrimsAgree`).

### ArrangeProofs

The same argument by ranks, for any finite set and any strict total order:
`ArrangedInOrder` says that `Arranged(S, R)` takes each element of `S` once, in the order `R`, and `SelectedInOrder` the same of the elements of a
sequence at chosen positions. `Arranged`, `Selected` and `Total` take the place
of `SetToSortSeq`, `SelectSeq` and a fold, whose definitions recurse, so that
nothing can be proved about what they return; places are counted instead.

### GatewayProofs

| theorem | under | statement |
|---|---|---|
| `TypeCorrect` | | `Spec => []TypeOK` |
| `RequestsAnsweredAsRouted` | `ShardsDecideAlike`, `PathsKeepPrefixes` | `Spec => []AnsweredAsRouted` |

`GatewayInv` has three parts that the steps of the others leave alone: the nodes
have shards of tables (`WorldOK`), the gateway's table and the fresh one are
tables (`RefreshOK`), and a connection that forwards has a node
(`ConnectionsOK`). The second theorem is about two decisions, the gateway's with
the table it has and, later, the node's with the shard it has of possibly
another table. `ShardDecidesAlike` is the lemma it rests on: what a node finds
in its shard of a table for the POST it is sent, the whole table prescribes for
what the client asked, if the gateway found any route for that (`Routed`). The
route the gateway found overlaps the one the shard finds (`PrefixesOverlap`), so
that one admits the client (`AdmittedWithAll`) and fits (`FitsIfAdmitted`); the
longest prefix that fits in the whole table overlaps it too, so its route admits
the POST, is on the same nodes and in the shard, and keeping the order of the
table (`SelectedInOrder`) the shard finds no other. The two conditions are on the
tables and paths and not on when they are loaded; section 5 tells what happens
without them, and `MCGateway` has TLC evaluate them on both runs.

### ConsoleProofs

| theorem | statement |
|---|---|
| `PagesTypeCorrect` | `Spec => []TypeOK` |
| `TrafficIsAccounted` | `Spec => []TrafficAccounted` |
| `GraphIsWellFormed` | `Spec => []GraphWellFormed` |
| `NothingIsHidden` | `Spec => []NothingHidden` |
| `AbsenceIsExplained` | `Spec => []AbsenceExplained` |
| `SecretsStayInProject` | `Spec => []VaultPathsStayInProject` |
| `LogsAreNewestFirst` | `Spec => []NewestFirst` |
| `OnePresetIsSent` | `Spec => []OnePresetSent` |

A page of `Console` is open alone, so each has its own invariant, kept by its
own actions.

* Overview. `ServiceInv` knows the service and its traffic, whose revisions
  always exist. `SeenInv` relates what was read to when: a read of the present
  moment is what there is now, and two reads of one moment belong together.
  Traffic is summed by counting units (`TotalOfOne`, `TotalOfTwo`), and
  `SharesAddUp` shows that the shares of the revisions drawn add up to those of
  the route. For the graph, `Enumerates` says that a list of cards has each card
  of a set once, and `ListsBut` the same except for the cards of a few
  identities; `OneListAfterTheOther` joins such lists, `CardsAreDrawn` accounts
  for the cards drawn and the rest counted, and `GraphDrawn` has every edge join
  two cards of the list. Both need `NamesDiffer`: two resources of one identity
  would be one card. No Dapr resource is taken for the card of the rest, as its
  identity has its kind in it (`DaprIsNoOverflow`).
* Databases. `BranchesInv` is the inductive part of `VaultPathsStayInProject`:
  a branch has the path of its project, or none. `PageInv` says it of
  the form of a page, however old, since that is where the next branch takes
  its path from, `ListingInv` of the list, and `ReadingInv` of what the two calls
  of a page have returned. Whatever the moment of a snapshot, each
  project and each branch in it has the path of its own project (`ProjectsOwn`,
  `BranchesOwn`), so two snapshots of different moments fit together.
* Logs. Loki's streams hold the newest lines up to the limit, each once and
  each stream newest first (`StreamOfLabels`, `LinesArePlaced`); the sort by
  rounded numbers is stable, so it keeps the order of each stream
  (`EntriesAreMerged`, `NumbersKeepOrder`), for any number of streams and
  any resolution. `LogsInv` adds that Loki's lines are finite and none is of the
  future.
* Playground and secrets. `FieldsInv`: what is in the fields, and what was in
  them when a request left, came from the preset or was edited, but for the body
  while the effect of a selection is still to run. `SecretsInv`,
  `WaitingInv`: only keys of Vault are revealed or copied, and a request is
  waited for while it is on its way.

Besides `NamesDiffer`, the assumptions on the constants are bounds that are
numbers, finitely many sets of labels, at least one preset, and a marker `None`
that is not a number.

### Left to TLC

Liveness under fairness, and ENABLED, are out of the prover's reach: that the
node converges (`AvailableWorkersServed`, `RemovedWorkersUnbound`), the gateway
uses a new table and routes by it (`NewTableUsed`, `RequestsRouted`), forms and
orders end (`EverySubmissionEnds`, `EveryOrderEnds`) and the copied mark clears
(`MarkClears`). Every invariant and every other action property of a passing run
is a theorem. So that they could be, the modules declare no RECURSIVE operator,
and sort, filter and sum by `Arrange`.

## 5. Where code and documents disagree

Each is a run that finds the counterexample; the quoted sentences are in
`PROJECT.json` under `findings`.

| run | what happens |
|---|---|
| `finding_stale_digest` | a failed upgrade keeps the old script and reports it under the new version and digest, and is never tried again |
| `finding_route_change` | a hot route change reaches `/manifest` and never the router |
| `finding_no_rollback` | a config workerd refuses is respawned for ever; nothing is rolled back |
| `finding_forwarded_post` | the gateway matches the method and the host of the client and forwards a POST to the pod's address: routes for GET only (the `/healthz` of `scripts/test-worker-runtime.sh`) or for a named host are matched by it and answered with 404 by the node |
| `finding_branch_form` | the page of a project whose newest branch was applied with `kubectl` renders "n/a" into the hidden field of its branch form, which the action then refuses |

Outside of the regimes of section 3:

* an upgrade that installs its script and then fails, and is reverted, leaves
  the node with the new script under the old version (`ReportsWhatIsServed`);
* a worker installed by a failed pass is later recorded as loaded without a
  restart: the manifest lists routes with no binding until the next generation
  (`LoadedIsBound`);
* a Worker has left the node a stale table names: if a shorter prefix is on that
  node, its Worker answers instead of the 503 the design promises
  (`docs/worker-design.md:678`); likewise where a route for GET only is beside a
  shorter one for POST, although the README of the gateway promises matching by
  host and method (`infra/worker-router/README.md:8`) (`AnsweredAsRouted`);
* a revealed key stays revealed when another secret with a key of that name is
  loaded, although the form promises that "Values stay masked until you
  reveal or copy them" (`secrets-form.tsx:81`);
* two submissions for one cluster at once leave Vault with the password of
  either, of which no document says anything (`CredentialsAgree`).

## 6. Not modelled

* Telemetry, logging, HTTP details and flag parsing.
* Of the console: the home page (a filtered list), the drawing of the workflow
  (static), the markup of the Postgres and Neon database forms (what they submit
  is `Provision!Submit`), layouts, wording and formatting of values; the
  `refresh*` actions, which mark a cached rendering stale that these pages do
  not have.
* Of the upload CLI: its creation of the bucket and its own failures. An upload
  is `UploadObject` of `Supervisor`.
* The pub/sub and hello examples are stateless handlers. Shell scripts and
  Kubernetes manifests configure external systems; what they fix (state
  directory, probes, intervals) appears as constants.
* workerd, RustFS, Vault, Kubernetes, Knative, Kong, CloudNativePG, Neon, Loki
  and Dapr appear only as the code uses them.
* The supervisor's shutdown (Ctrl-C) is the `Crash` of the model: it aborts the
  tasks wherever they are.

## 7. What could be added

1. `NodeDisk`, a script store whose entries are verified and only grow or are
   replaced, as an abstract specification that `Supervisor` implements; a
   routing table as an atomic register implemented by `Gateway`.
2. Weaker conditions for the theorems of `SupervisorAgreement`: a failed write
   between install and stop matters only when a later download of another
   version fails.
3. The safety halves of the liveness properties: which step a waiting
   connection, pass or submission is bound to take next, as invariants.
4. The bucket and the failures of the upload CLI.
