----------------------------- MODULE Supervisor -----------------------------
(***************************************************************************)
(* The Rust supervisor of a worker node (packages/neki-worker-node): one   *)
(* reconcile pass after another brings the scripts on disk, config.capnp,  *)
(* the workerd child process and the in-memory LoadedState in line with    *)
(* the assignment file.                                                    *)
(*                                                                         *)
(* A pass is modelled await by await: `pc` names the next await of         *)
(* Reconciler::reconcile, `desired`, `position`, `loaded`, `anyDownloaded` *)
(* and `body` are its locals.  Reconcile is the only writer of the state,  *)
(* so its local clone `current` equals `state` until the pass publishes    *)
(* and needs no variable of its own.                                       *)
(*                                                                         *)
(* Data: a SHA-256 digest is the content it is the digest of; a route's    *)
(* host, path prefix and methods are one value `match`; the fields of the  *)
(* manifest that never change (node and pool id) are left out.  A          *)
(* temporary file is read by nothing but the rename that ends its writing, *)
(* and the next write truncates it: only the one being written is kept.    *)
(***************************************************************************)
EXTENDS Naturals, Sequences, FiniteSets

CONSTANTS
    Workers,        \* worker ids
    Versions,       \* worker versions
    Urls,           \* script_url values, i.e. object keys in RustFS
    Contents,       \* script texts
    CompatDates,    \* compatibility dates
    Matches,        \* host + path prefix + methods of a route
    Generations,    \* assignment generations
    CapnpNames,     \* Cap'n Proto constant names
    CapnpName,      \* [Workers -> CapnpNames]: worker_capnp_name
    DefaultDate,    \* the supervisor's --compatibility-date
    NoDate,         \* an empty compatibility_date in a worker spec
    ZeroGeneration, \* "0", the generation of LoadedState::default
    Assignments,    \* the assignments the file may hold
    InitialFiles,   \* the assignments it may hold at the start
    Edits,          \* pairs of assignments: the edits of the file
    InitialStore,   \* [Urls -> Contents or NoObject]: RustFS at the start
    Settles,        \* whether the outside world ever comes to rest
    Uploads,        \* <<url, content>> pairs the upload CLI may write
    Faults,         \* the kinds of fault that may happen
    NoObject, NoScript, NoConfig, NoAssignment, NotLoaded, NoProcess,
    Partial         \* a file whose writing stopped half way

FaultKinds == {"read", "download", "write", "spawn", "exit", "crash"}

WorkerSpec == [id: Workers, version: Versions, url: Urls, sha: Contents,
               compat: CompatDates \union {NoDate}]

RouteSpec == [match: Matches, worker: Workers]

NodeAssignment == [gen: Generations, workers: Seq(WorkerSpec),
                   routes: SUBSET RouteSpec]

LoadedWorker == [version: Versions, sha: Contents, compat: CompatDates]

LoadedWorkers == [Workers -> LoadedWorker \union {NotLoaded}]

LoadedState == [gen: Generations, workers: LoadedWorkers,
                routes: SUBSET RouteSpec]

Manifest == [gen: Generations, routes: SUBSET RouteSpec,
             workers: LoadedWorkers]

Config == [manifest: Manifest, services: SUBSET Workers,
           compat: CompatDates]

ScriptFile == Contents \union {NoScript, Partial}

\* What the constants must satisfy: the assignments are well formed, the
\* edits stay inside them, and the markers are none of the values they mark.
ASSUME ConstantsAssumption ==
    /\ CapnpName \in [Workers -> CapnpNames]
    /\ DefaultDate \in CompatDates
    /\ NoDate \notin CompatDates
    /\ ZeroGeneration \in Generations
    /\ \A a \in Assignments :
          /\ a.gen \in Generations
          /\ a.routes \subseteq RouteSpec
          /\ Len(a.workers) \in Nat
          /\ DOMAIN a.workers = 1..Len(a.workers)
          /\ \A i \in DOMAIN a.workers : a.workers[i] \in WorkerSpec
    /\ InitialFiles \subseteq Assignments
    /\ Edits \subseteq Assignments \X Assignments
    /\ InitialStore \in [Urls -> Contents \union {NoObject}]
    /\ Uploads \subseteq Urls \X Contents
    /\ Settles \in BOOLEAN
    /\ Faults \subseteq FaultKinds

ASSUME MarkersAssumption ==
    /\ NoObject \notin Contents
    /\ NoScript \notin Contents
    /\ Partial \notin Contents
    /\ NoScript # Partial
    /\ NotLoaded \notin LoadedWorker
    /\ NoConfig \notin Config
    /\ Partial \notin Config
    /\ NoAssignment \notin Assignments

VARIABLES
    file,           \* the assignment file
    store,          \* the objects in RustFS
    settled,        \* no fault, edit or upload happens any more
    scripts,        \* workers/<id>.js
    tmp,            \* the workers/<id>.js.tmp being written
    router,         \* router.js in the state directory
    config,         \* config.capnp
    configTmp,      \* the config.capnp.tmp being written
    pc,             \* where the reconcile task is
    desired,        \* the assignment this pass read
    position,       \* the worker spec the download loop is at
    loaded,         \* the loaded workers this pass collects
    anyDownloaded,  \* whether this pass installed a script
    body,           \* the object the pass is downloading
    state,          \* Arc<RwLock<LoadedState>>, what the API serves
    workerd,        \* the child process as the operating system has it
    served          \* what the child loaded when it started

environment == <<file, store, settled>>
disk == <<scripts, router, config>>
locals == <<desired, position, loaded, anyDownloaded, body, tmp, configTmp>>
process == <<workerd, served>>
vars == <<environment, disk, pc, locals, state, process>>

-----------------------------------------------------------------------------
(* The pure functions of the code. *)

NothingLoaded == [w \in Workers |-> NotLoaded]

DefaultState == [gen |-> ZeroGeneration, workers |-> NothingLoaded,
                 routes |-> {}]

LoadedIds(ws) == {w \in Workers : ws[w] # NotLoaded}

\* The compatibility date a spec resolves to.
ResolvedDate(spec) ==
    IF spec.compat = NoDate THEN DefaultDate ELSE spec.compat

\* The LoadedWorker recorded for a spec: always the spec's version and
\* digest, also when the script on disk is a previous one.
LoadedEntry(spec) == [version |-> spec.version, sha |-> spec.sha,
                      compat |-> ResolvedDate(spec)]

\* Variant: a loaded worker is never downloaded again.
NeedDownloadOnce(st, spec) == st.workers[spec.id] = NotLoaded

\* Not loaded yet, or loaded in another version or with another digest.
NeedDownload(st, spec) ==
    LET entry == st.workers[spec.id]
    IN  entry # NotLoaded =>
            entry.version # spec.version \/ entry.sha # spec.sha

\* The raw date of the spec is compared with the resolved one of the state.
SpecChanged(st, spec) ==
    LET entry == st.workers[spec.id]
    IN  entry # NotLoaded =>
            \/ NeedDownload(st, spec)
            \/ entry.compat # spec.compat

\* Variant: every new generation restarts workerd.
GenerationChanged(st, a) == st.gen # a.gen

\* Variant: the numbers of workers are not compared.
SomeSpecChanged(st, a) ==
    /\ st.gen # a.gen
    /\ \E i \in DOMAIN a.workers : SpecChanged(st, a.workers[i])

\* Compared only when the generation differs.
WorkerGraphChanged(st, a) ==
    /\ st.gen # a.gen
    /\ \/ Cardinality(LoadedIds(st.workers)) # Len(a.workers)
       \/ \E i \in DOMAIN a.workers : SpecChanged(st, a.workers[i])

\* Variant: every route of the assignment goes into the manifest.
AllRoutes(st) == st.routes

\* Routes to workers that are not loaded are left out of the manifest.
ManifestRoutes(st) == {r \in st.routes : st.workers[r.worker] # NotLoaded}

BuildManifest(st) ==
    [gen |-> st.gen, routes |-> ManifestRoutes(st), workers |-> st.workers]

\* config.capnp: the embedded manifest, one service per loaded worker, and
\* the one compatibility date every worker constant is rendered with.
RenderConfig(st) ==
    [manifest |-> BuildManifest(st), services |-> LoadedIds(st.workers),
     compat |-> DefaultDate]

HasScript(w) == scripts[w] # NoScript

\* workerd accepts a config whose constants have distinct names and whose
\* embedded files exist; the router must be whole to be JavaScript.
ConfigLoads ==
    /\ config \notin {NoConfig, Partial}
    /\ \A v, w \in config.services : CapnpName[v] = CapnpName[w] => v = w
    /\ \A w \in config.services : HasScript(w)
    /\ router = "installed"

-----------------------------------------------------------------------------
Init ==
    /\ file \in InitialFiles
    /\ store = InitialStore
    /\ settled = FALSE
    /\ scripts = [w \in Workers |-> NoScript]
    /\ tmp = NoScript
    /\ router = "absent"
    /\ config = NoConfig
    /\ configTmp = NoConfig
    /\ pc = "read"
    /\ desired = NoAssignment
    /\ position = 1
    /\ loaded = NothingLoaded
    /\ anyDownloaded = FALSE
    /\ body = NoScript
    /\ state = DefaultState
    /\ workerd = "none"
    /\ served = NoProcess

MayFail(kind) == kind \in Faults /\ ~settled

\* The locals of a pass go out of scope, a temporary file is abandoned.
DropLocals ==
    /\ tmp' = NoScript
    /\ configTmp' = NoConfig
    /\ desired' = NoAssignment
    /\ position' = 1
    /\ loaded' = NothingLoaded
    /\ anyDownloaded' = FALSE
    /\ body' = NoScript

\* The end of a pass, successful or not.
EndPass == pc' = "sleep" /\ DropLocals

\* The reconcile timer fires; a child found exited is forgotten.
Tick ==
    /\ pc = "sleep"
    /\ pc' = "read"
    /\ workerd' = IF workerd = "exited" THEN "none" ELSE workerd
    /\ UNCHANGED <<environment, disk, locals, state, served>>

ReadAssignment ==
    /\ pc = "read"
    /\ pc' = "next"
    /\ desired' = file
    /\ UNCHANGED <<environment, disk, position, loaded, anyDownloaded, body,
                   tmp, configTmp, state, process>>

\* A file that is missing or does not parse: the whole pass is skipped.
ReadFails ==
    /\ pc = "read"
    /\ MayFail("read")
    /\ EndPass
    /\ UNCHANGED <<environment, disk, state, process>>

-----------------------------------------------------------------------------
(* Phase 1: the download loop, one worker spec at a time. *)

Current == desired.workers[position]
AtWorker == pc = "next" /\ position <= Len(desired.workers)

Record(spec) == loaded' = [loaded EXCEPT ![spec.id] = LoadedEntry(spec)]
Advance == pc' = "next" /\ position' = position + 1

\* Version and digest are those already loaded: nothing to download.
KeepWorker ==
    /\ AtWorker
    /\ ~NeedDownload(state, Current)
    /\ Record(Current)
    /\ Advance
    /\ UNCHANGED <<environment, disk, desired, anyDownloaded, body, tmp,
                   configTmp, state, process>>

\* Variant: a failed download always keeps, or never keeps, the worker.
AlwaysKept == TRUE
NeverKept == FALSE

\* dest.exists()
DestExists == HasScript(Current.id)

\* After a failed download the worker is recorded as loaded when some script
\* of it is on disk, and skipped in this pass otherwise.
DownloadFailed ==
    /\ IF DestExists
       THEN Record(Current)
       ELSE UNCHANGED loaded
    /\ Advance
    /\ body' = NoScript
    /\ tmp' = NoScript
    /\ UNCHANGED <<environment, disk, desired, anyDownloaded, configTmp, state,
                   process>>

\* Variant: an error response is taken for the object.
AnyResponse == TRUE

ObjectExists == store[Current.url] # NoObject

GetObject ==
    /\ AtWorker
    /\ NeedDownload(state, Current)
    /\ ObjectExists
    /\ body' = store[Current.url]
    /\ tmp' = Partial
    /\ pc' = "body"
    /\ UNCHANGED <<environment, disk, desired, position, loaded,
                   anyDownloaded, configTmp, state, process>>

GetObjectFails ==
    /\ AtWorker
    /\ NeedDownload(state, Current)
    /\ ~ObjectExists \/ MayFail("download")
    /\ DownloadFailed

ReceiveBody ==
    /\ pc = "body"
    /\ tmp' = body
    /\ pc' = "verify"
    /\ UNCHANGED <<environment, disk, desired, position, loaded,
                   anyDownloaded, body, configTmp, state, process>>

\* The stream ends early, or the final rename fails.
DownloadBreaksOff ==
    /\ pc \in {"body", "verify"}
    /\ MayFail("download")
    /\ DownloadFailed

\* Variant: the digest is not compared.
AnyDigest == TRUE

DigestMatches == body = Current.sha

InstallScript ==
    /\ pc = "verify"
    /\ DigestMatches
    /\ scripts' = [scripts EXCEPT ![Current.id] = tmp]
    /\ tmp' = NoScript
    /\ anyDownloaded' = TRUE
    /\ Record(Current)
    /\ Advance
    /\ body' = NoScript
    /\ UNCHANGED <<environment, router, config, desired, configTmp, state,
                   process>>

RejectScript ==
    /\ pc = "verify"
    /\ ~DigestMatches
    /\ DownloadFailed

-----------------------------------------------------------------------------
(* Phase 2: restart workerd, or only publish. *)

LoopDone == pc = "next" /\ position > Len(desired.workers)

TempState == [gen |-> desired.gen, workers |-> loaded,
              routes |-> desired.routes]

\* Variants: one of the three reasons for a restart is forgotten.
RestartWithoutGraph == anyDownloaded \/ workerd = "none"
RestartWithoutDownload ==
    WorkerGraphChanged(state, desired) \/ workerd = "none"
RestartWithoutProcess ==
    anyDownloaded \/ WorkerGraphChanged(state, desired)

NeedRestart ==
    anyDownloaded \/ WorkerGraphChanged(state, desired) \/ workerd = "none"

PublishWithoutRestart ==
    /\ LoopDone
    /\ ~NeedRestart
    /\ state' = TempState
    /\ EndPass
    /\ UNCHANGED <<environment, disk, process>>

\* fs::copy truncates the installed router before it writes it again.
BeginRouterCopy ==
    /\ LoopDone
    /\ NeedRestart
    /\ router' = "partial"
    /\ pc' = "copy"
    /\ UNCHANGED <<environment, scripts, config, locals, state, process>>

FinishRouterCopy ==
    /\ pc = "copy"
    /\ router' = "installed"
    /\ pc' = "render"
    /\ UNCHANGED <<environment, scripts, config, locals, state, process>>

\* The copy fails before the truncation or after it.
RouterCopyFails ==
    /\ (LoopDone /\ NeedRestart) \/ pc = "copy"
    /\ MayFail("write")
    /\ EndPass
    /\ UNCHANGED <<environment, disk, state, process>>

CreateConfigTmp ==
    /\ pc = "render"
    /\ configTmp' = Partial
    /\ pc' = "flush"
    /\ UNCHANGED <<environment, disk, desired, position, loaded,
                   anyDownloaded, body, tmp, state, process>>

FlushConfigTmp ==
    /\ pc = "flush"
    /\ configTmp' = RenderConfig(TempState)
    /\ pc' = "rename"
    /\ UNCHANGED <<environment, disk, desired, position, loaded,
                   anyDownloaded, body, tmp, state, process>>

RenameConfig ==
    /\ pc = "rename"
    /\ config' = configTmp
    /\ configTmp' = NoConfig
    /\ pc' = "stop"
    /\ UNCHANGED <<environment, scripts, router, desired, position, loaded,
                   anyDownloaded, body, tmp, state, process>>

WriteConfigFails ==
    /\ pc \in {"render", "flush", "rename"}
    /\ MayFail("write")
    /\ EndPass
    /\ UNCHANGED <<environment, disk, state, process>>

\* SIGTERM, then SIGKILL after ten seconds: the child is gone either way.
StopWorkerd ==
    /\ pc = "stop"
    /\ workerd' = "none"
    /\ served' = NoProcess
    /\ pc' = "spawn"
    /\ UNCHANGED <<environment, disk, locals, state>>

SpawnWorkerd ==
    /\ pc = "spawn"
    /\ workerd' = "starting"
    /\ pc' = "publish"
    /\ UNCHANGED <<environment, disk, locals, state, served>>

\* The error is returned; neither state nor config is put back.
SpawnFails ==
    /\ pc = "spawn"
    /\ MayFail("spawn")
    /\ EndPass
    /\ UNCHANGED <<environment, disk, state, process>>

Publish ==
    /\ pc = "publish"
    /\ state' = TempState
    /\ EndPass
    /\ UNCHANGED <<environment, disk, process>>

-----------------------------------------------------------------------------
(* The child process, the container and the outside world. *)

\* workerd reads the config and embeds the files some time after its spawn.
WorkerdLoads ==
    /\ workerd = "starting"
    /\ IF ConfigLoads
       THEN /\ workerd' = "serving"
            /\ served' = [manifest |-> config.manifest,
                          scripts |-> [w \in config.services |-> scripts[w]],
                          compat |-> config.compat]
       ELSE /\ workerd' = "exited"
            /\ UNCHANGED served
    /\ UNCHANGED <<environment, disk, pc, locals, state>>

WorkerdExits ==
    /\ workerd \in {"starting", "serving"}
    /\ MayFail("exit")
    /\ workerd' = "exited"
    /\ served' = NoProcess
    /\ UNCHANGED <<environment, disk, pc, locals, state>>

\* The container restarts: memory and child are gone, the emptyDir stays.
Crash ==
    /\ MayFail("crash")
    /\ pc' = "read"
    /\ DropLocals
    /\ state' = DefaultState
    /\ workerd' = "none"
    /\ served' = NoProcess
    /\ UNCHANGED <<environment, disk>>

EditAssignment ==
    /\ ~settled
    /\ \E a \in Assignments : <<file, a>> \in Edits /\ file' = a
    /\ UNCHANGED <<store, settled, disk, pc, locals, state, process>>

UploadObject ==
    /\ ~settled
    /\ \E upload \in Uploads : store' = [store EXCEPT ![upload[1]] = upload[2]]
    /\ UNCHANGED <<file, settled, disk, pc, locals, state, process>>

\* From some moment on the outside world leaves the node alone.
Settle ==
    /\ Settles
    /\ ~settled
    /\ settled' = TRUE
    /\ UNCHANGED <<file, store, disk, pc, locals, state, process>>

-----------------------------------------------------------------------------
SupervisorStep ==
    \/ Tick \/ ReadAssignment
    \/ KeepWorker \/ GetObject \/ GetObjectFails \/ ReceiveBody
    \/ InstallScript \/ RejectScript
    \/ PublishWithoutRestart
    \/ BeginRouterCopy \/ FinishRouterCopy \/ CreateConfigTmp \/ FlushConfigTmp
    \/ RenameConfig \/ StopWorkerd \/ SpawnWorkerd \/ Publish

FaultStep ==
    \/ ReadFails \/ DownloadBreaksOff
    \/ RouterCopyFails \/ WriteConfigFails
    \/ SpawnFails \/ WorkerdExits \/ Crash

WorldStep == EditAssignment \/ UploadObject \/ Settle

Next == SupervisorStep \/ FaultStep \/ WorkerdLoads \/ WorldStep

Spec == Init /\ [][Next]_vars

\* The reconcile task is never cancelled while the program runs, every await
\* of a pass ends (sleep, file I/O and S3 calls return or fail), and a child
\* that was spawned gets to read its config.
Fairness == WF_vars(SupervisorStep) /\ WF_vars(WorkerdLoads)

FairSpec == Spec /\ Fairness

-----------------------------------------------------------------------------
(* Operating conditions: what some of the properties below rely on the     *)
(* assignments, their edits and the object store for.                      *)

\* A generation is given to one assignment only.
GenerationsNameAssignments == \A a, b \in Assignments : a.gen = b.gen => a = b

\* No assignment lists a worker twice.
DistinctIds ==
    \A a \in Assignments : \A i, j \in DOMAIN a.workers :
        a.workers[i].id = a.workers[j].id => i = j

\* Every assigned script is uploaded before it is assigned, is never
\* overwritten, and its download does not fail.
DownloadsSucceed ==
    /\ "download" \notin Faults
    /\ Uploads = {}
    /\ \A a \in Assignments : \A i \in DOMAIN a.workers :
          InitialStore[a.workers[i].url] = a.workers[i].sha

\* No pass fails with a new script on disk and workerd still running.
NoScriptLeftBehind == "write" \notin Faults \/ DownloadsSucceed

\* No worker spec has an empty compatibility date.
DatesGiven ==
    \A a \in Assignments : \A i \in DOMAIN a.workers :
        a.workers[i].compat # NoDate

\* Assignment a gives worker w the script c.
Gives(a, w, c) ==
    \E i \in DOMAIN a.workers : a.workers[i].id = w /\ a.workers[i].sha = c

\* The assignments have an order of which `age` is the rank, every edit goes
\* forward in it, and a worker never gets a script back that was replaced.
OnlyForward(age) ==
    /\ age \in [Assignments -> Nat]
    /\ \A e \in Edits : e[1] = e[2] \/ age[e[1]] < age[e[2]]
    /\ \A a, b, c \in Assignments : \A w \in Workers : \A x, y \in Contents :
          /\ age[a] <= age[b] /\ age[b] <= age[c]
          /\ Gives(a, w, x) /\ Gives(b, w, y) /\ Gives(c, w, x)
          => x = y

-----------------------------------------------------------------------------
(* Correctness. *)

TypeOK ==
    /\ file \in Assignments
    /\ store \in [Urls -> Contents \union {NoObject}]
    /\ settled \in BOOLEAN
    /\ scripts \in [Workers -> ScriptFile]
    /\ tmp \in ScriptFile
    /\ router \in {"absent", "partial", "installed"}
    /\ config \in Config \union {NoConfig, Partial}
    /\ configTmp \in Config \union {NoConfig, Partial}
    /\ pc \in {"sleep", "read", "next", "body", "verify", "copy", "render",
               "flush", "rename", "stop", "spawn", "publish"}
    /\ desired \in Assignments \union {NoAssignment}
    /\ position \in Nat
    /\ loaded \in LoadedWorkers
    /\ anyDownloaded \in BOOLEAN
    /\ body \in Contents \union {NoScript}
    /\ state \in LoadedState
    /\ workerd \in {"none", "starting", "serving", "exited"}
    /\ \/ served = NoProcess
       \/ /\ served.manifest \in Manifest
          /\ DOMAIN served.scripts \subseteq Workers
          /\ \A w \in DOMAIN served.scripts : served.scripts[w] \in ScriptFile
          /\ served.compat \in CompatDates

\* Some assignment gives worker w a spec with the digest of script c.
Prescribed(w, c) ==
    \E a \in Assignments : \E i \in DOMAIN a.workers :
        a.workers[i].id = w /\ a.workers[i].sha = c

\* Whatever fails or crashes in the middle of a download, a worker's script
\* file is absent or a whole script whose digest an assignment prescribes for
\* this worker ("Never load a RustFS object without checksum verification").
VerifiedScripts ==
    \A w \in Workers : HasScript(w) => Prescribed(w, scripts[w])

Closed(c) ==
    /\ c # Partial
    /\ \A r \in c.manifest.routes : r.worker \in c.services
    /\ \A w \in c.services : HasScript(w)

\* config.capnp on disk is never half written, routes only to services it
\* declares, and declares only services whose script file exists: workerd
\* started from it, at any later time, finds every file it embeds.
ConfigClosed == config # NoConfig => Closed(config)

\* The router Worker never meets a route without a service binding, and no
\* binding leads to an unverified script, although workerd reads the config
\* and the scripts while the supervisor goes on changing them.
RouterDispatches ==
    served # NoProcess =>
        \A r \in served.manifest.routes :
            /\ r.worker \in DOMAIN served.scripts
            /\ Prescribed(r.worker, served.scripts[r.worker])

AssignedIds(a) == {a.workers[i].id : i \in DOMAIN a.workers}

\* A pass never drops a loaded worker that the assignment still lists,
\* whatever happens to its downloads ("Keep using the last known-good local
\* script if a new download fails").
LoadedWorkersKept ==
    [][desired # NoAssignment /\ pc' = "sleep" =>
         \A w \in AssignedIds(desired) \intersect LoadedIds(state.workers) :
             w \in LoadedIds(state'.workers)]_vars

\* Between the passes the services bound in the running workerd are exactly
\* the workers the manifest API reports as loaded.
LoadedIsBound ==
    served # NoProcess /\ pc \notin {"stop", "publish"} =>
        DOMAIN served.scripts = LoadedIds(state.workers)

\* Between the passes of a node that has caught up with the assignment file,
\* every worker in the running workerd is reported, and runs the script with
\* the digest that is reported (LoadedState: "what is actually loaded").
ReportsWhatIsServed ==
    served # NoProcess /\ pc \in {"sleep", "read"} /\ state.gen = file.gen =>
        \A w \in DOMAIN served.scripts :
            /\ state.workers[w] # NotLoaded
            /\ served.scripts[w] = state.workers[w].sha

\* workerd is not stopped by a pass that changes no worker ("restarts should
\* not be required when a route changes").
RoutesChangeWithoutRestart ==
    pc = "stop" /\ workerd = "serving" =>
        anyDownloaded \/ loaded # state.workers

\* The node serves the specs of the file whose object RustFS holds.
Available(spec) == store[spec.url] = spec.sha

Serves(spec) ==
    /\ served # NoProcess
    /\ spec.id \in DOMAIN served.scripts
    /\ served.scripts[spec.id] = spec.sha
    /\ state.workers[spec.id] # NotLoaded
    /\ state.workers[spec.id].version = spec.version

SpecsOf(a) == {a.workers[i] : i \in DOMAIN a.workers}

\* Once the outside world is quiet, every worker of the assignment whose
\* script can be downloaded ends up served for good, also when the scripts
\* of other workers never can, and whatever had failed before.
AvailableWorkersServed ==
    \A a \in Assignments : \A spec \in SpecsOf(a) :
        (settled /\ file = a /\ Available(spec)) ~> []Serves(spec)

\* Once the outside world is quiet, no worker is bound that the assignment
\* does not list.
RemovedWorkersUnbound ==
    \A a \in Assignments : \A w \in Workers \ AssignedIds(a) :
        (settled /\ file = a) ~>
            [](served # NoProcess => w \notin DOMAIN served.scripts)

\* Once the outside world is quiet, the router embedded in workerd routes by
\* the routes the manifest API publishes ("Route changes should not require a
\* workerd restart").
RouterSeesRoutes ==
    settled ~> [](served # NoProcess =>
                    served.manifest.routes = BuildManifest(state).routes)

\* A node that has served before serves again after workerd failed to start:
\* "attempt to roll back to the last known-good config and script set".
StartFailureRolledBack ==
    [](served # NoProcess =>
          ((settled /\ workerd = "exited") ~> workerd = "serving"))
=============================================================================
