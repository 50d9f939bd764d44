-------------------------- MODULE SupervisorProofs --------------------------
(***************************************************************************)
(* Proofs about Supervisor, for any workers, assignments, edits, uploads   *)
(* and faults.                                                             *)
(***************************************************************************)
EXTENDS Supervisor, TLAPS

InPass == pc \notin {"sleep", "read"}

\* The locals of a pass while it runs.
PassInv ==
    /\ position \in Nat \ {0}
    /\ InPass => desired \in Assignments
    /\ pc \in {"body", "verify"} =>
          position <= Len(desired.workers) /\ body \in Contents
    /\ pc = "verify" => tmp = body

\* Everything the state or the running pass calls loaded has a script file.
LoadedHaveScripts ==
    \A w \in Workers :
        state.workers[w] # NotLoaded \/ loaded[w] # NotLoaded => HasScript(w)

\* The config about to be renamed is complete.
ConfigTmpClosed ==
    pc = "rename" => configTmp # NoConfig /\ Closed(configTmp)

IInv ==
    /\ TypeOK
    /\ PassInv
    /\ VerifiedScripts
    /\ LoadedHaveScripts
    /\ ConfigClosed
    /\ ConfigTmpClosed
    /\ RouterDispatches

-----------------------------------------------------------------------------
\* In the download loop `Current` is a worker spec of the assignment.
LEMMA CurrentType ==
    ASSUME desired \in Assignments, position \in Nat \ {0},
           position <= Len(desired.workers)
    PROVE  /\ Current \in WorkerSpec
           /\ Current.id \in Workers
           /\ Prescribed(Current.id, Current.sha)
<1>1. position \in DOMAIN desired.workers
  BY ConstantsAssumption
<1>2. Current \in WorkerSpec
  BY <1>1, ConstantsAssumption DEF Current
<1>3. Current.id \in Workers
  BY <1>2 DEF WorkerSpec
<1>4. Prescribed(Current.id, Current.sha)
  BY <1>1 DEF Current, Prescribed
<1>. QED  BY <1>2, <1>3, <1>4

\* The entry recorded for a worker spec is a loaded worker.
LEMMA LoadedEntryType ==
    ASSUME NEW spec \in WorkerSpec
    PROVE  LoadedEntry(spec) \in LoadedWorker
BY ConstantsAssumption
   DEF WorkerSpec, LoadedEntry, LoadedWorker, ResolvedDate

\* With nothing loaded the maps have their types.
LEMMA NothingLoadedType ==
    NothingLoaded \in LoadedWorkers /\ DefaultState \in LoadedState
BY ConstantsAssumption
   DEF NothingLoaded, LoadedWorkers, DefaultState, LoadedState

\* What a pass is about to publish is a state, and its config is a config.
LEMMA TempStateType ==
    ASSUME desired \in Assignments, loaded \in LoadedWorkers
    PROVE  TempState \in LoadedState /\ RenderConfig(TempState) \in Config
<1>1. TempState \in LoadedState
  BY ConstantsAssumption DEF TempState, LoadedState
<1>2. BuildManifest(TempState) \in Manifest
  BY <1>1 DEF BuildManifest, ManifestRoutes, Manifest, LoadedState
<1>3. LoadedIds(TempState.workers) \subseteq Workers
  BY DEF LoadedIds
<1>4. RenderConfig(TempState) \in Config
  BY <1>2, <1>3, ConstantsAssumption DEF RenderConfig, Config
<1>. QED  BY <1>1, <1>4

\* A config rendered for loaded workers that all have a script is closed.
LEMMA RenderedIsClosed ==
    ASSUME desired \in Assignments, loaded \in LoadedWorkers,
           \A w \in Workers : loaded[w] # NotLoaded => HasScript(w)
    PROVE  RenderConfig(TempState) # NoConfig /\ Closed(RenderConfig(TempState))
<1>1. \A r \in desired.routes : r.worker \in Workers
  BY ConstantsAssumption DEF RouteSpec
<1>2. RenderConfig(TempState) \notin {NoConfig, Partial}
  BY TempStateType, MarkersAssumption
<1>3. \A r \in RenderConfig(TempState).manifest.routes :
          r.worker \in RenderConfig(TempState).services
  BY <1>1 DEF RenderConfig, BuildManifest, ManifestRoutes, TempState, LoadedIds
<1>4. \A w \in RenderConfig(TempState).services : HasScript(w)
  BY DEF RenderConfig, TempState, LoadedIds
<1>. QED  BY <1>2, <1>3, <1>4 DEF Closed

-----------------------------------------------------------------------------
LEMMA InitIInv == Init => IInv
<1> SUFFICES ASSUME Init PROVE IInv
  OBVIOUS
<1> USE DEF Init
<1>1. TypeOK
  BY NothingLoadedType, ConstantsAssumption, MarkersAssumption
  DEF TypeOK, ScriptFile
<1>2. PassInv
  BY DEF PassInv, InPass
<1>3. VerifiedScripts /\ LoadedHaveScripts
  BY DEF VerifiedScripts, LoadedHaveScripts, HasScript, NothingLoaded,
         DefaultState
<1>4. ConfigClosed /\ ConfigTmpClosed /\ RouterDispatches
  BY DEF ConfigClosed, ConfigTmpClosed, RouterDispatches
<1>. QED  BY <1>1, <1>2, <1>3, <1>4 DEF IInv

-----------------------------------------------------------------------------
(* One lemma per action, or per group of actions that end a pass. *)

\* Ending a pass leaves the locals in their initial state.
LEMMA DropLocalsInv ==
    ASSUME DropLocals, pc' \in {"sleep", "read"}
    PROVE  /\ desired' = NoAssignment /\ position' = 1
           /\ loaded' \in LoadedWorkers
           /\ \A w \in Workers : loaded'[w] = NotLoaded
           /\ anyDownloaded' \in BOOLEAN /\ body' = NoScript
           /\ tmp' \in ScriptFile /\ configTmp' = NoConfig
           /\ PassInv' /\ ConfigTmpClosed'
<1> USE DEF DropLocals
<1>1. PassInv'
  BY DEF PassInv, InPass
<1>2. ConfigTmpClosed'
  BY DEF ConfigTmpClosed
<1>3. loaded' \in LoadedWorkers /\ \A w \in Workers : loaded'[w] = NotLoaded
  BY NothingLoadedType DEF NothingLoaded
<1>. QED  BY <1>1, <1>2, <1>3 DEF ScriptFile

\* A step that ends a pass and changes neither disk nor process, the state
\* only to what the pass collected or to the default, keeps the invariant.
LEMMA EndOfPass ==
    ASSUME IInv, DropLocals, pc' \in {"sleep", "read"},
           UNCHANGED <<environment, disk>>,
           \/ UNCHANGED process
           \/ workerd' = "none" /\ served' = NoProcess,
           \/ UNCHANGED state
           \/ state' = DefaultState
           \/ state' = TempState /\ desired \in Assignments
    PROVE  IInv'
<1> USE DEF environment, disk, process
<1>1. state' \in LoadedState
  BY NothingLoadedType, TempStateType DEF IInv, TypeOK
<1>2. TypeOK'
  <2>1. /\ file' \in Assignments
        /\ store' \in [Urls -> Contents \union {NoObject}]
        /\ settled' \in BOOLEAN
        /\ scripts' \in [Workers -> ScriptFile]
        /\ router' \in {"absent", "partial", "installed"}
        /\ config' \in Config \union {NoConfig, Partial}
    BY DEF IInv, TypeOK
  <2>2. /\ desired' \in Assignments \union {NoAssignment}
        /\ position' \in Nat
        /\ loaded' \in LoadedWorkers
        /\ anyDownloaded' \in BOOLEAN
        /\ body' \in Contents \union {NoScript}
        /\ tmp' \in ScriptFile
        /\ configTmp' \in Config \union {NoConfig, Partial}
    BY DropLocalsInv
  <2>3. /\ workerd' \in {"none", "starting", "serving", "exited"}
        /\ \/ served' = NoProcess
           \/ /\ served'.manifest \in Manifest
              /\ DOMAIN served'.scripts \subseteq Workers
              /\ \A w \in DOMAIN served'.scripts :
                    served'.scripts[w] \in ScriptFile
              /\ served'.compat \in CompatDates
    BY DEF IInv, TypeOK
  <2>. QED  BY <1>1, <2>1, <2>2, <2>3 DEF TypeOK
<1>3. PassInv' /\ ConfigTmpClosed'
  BY DropLocalsInv
<1>4. VerifiedScripts' /\ ConfigClosed'
  BY DEF IInv, VerifiedScripts, Prescribed, HasScript, ConfigClosed, Closed
<1>5. LoadedHaveScripts'
  BY DropLocalsInv DEF IInv, LoadedHaveScripts, HasScript, DefaultState,
                       NothingLoaded, TempState
<1>6. RouterDispatches'
  BY DEF IInv, RouterDispatches, Prescribed
<1>. QED  BY <1>2, <1>3, <1>4, <1>5, <1>6 DEF IInv

\* A step that changes neither scripts, config, process, state nor the
\* workers collected keeps what the invariant says of them.
LEMMA FilesUntouched ==
    ASSUME IInv, UNCHANGED <<scripts, config, served, state, loaded>>
    PROVE  VerifiedScripts' /\ LoadedHaveScripts' /\ ConfigClosed'
           /\ RouterDispatches'
<1>1. VerifiedScripts' /\ LoadedHaveScripts'
  BY DEF IInv, VerifiedScripts, LoadedHaveScripts, HasScript, Prescribed
<1>2. ConfigClosed' /\ RouterDispatches'
  BY DEF IInv, ConfigClosed, Closed, RouterDispatches, HasScript, Prescribed
<1>. QED  BY <1>1, <1>2

LEMMA TickInv == ASSUME IInv, Tick PROVE IInv'
<1> USE DEF Tick, environment, disk, locals
<1>1. TypeOK'
  BY DEF IInv, TypeOK
<1>2. PassInv' /\ ConfigTmpClosed'
  BY DEF IInv, PassInv, InPass, ConfigTmpClosed
<1>. QED  BY <1>1, <1>2, FilesUntouched DEF IInv

LEMMA ReadAssignmentInv == ASSUME IInv, ReadAssignment PROVE IInv'
<1> USE DEF ReadAssignment, environment, disk, process
<1>1. TypeOK'
  BY DEF IInv, TypeOK
<1>2. PassInv' /\ ConfigTmpClosed'
  BY DEF IInv, TypeOK, PassInv, InPass, ConfigTmpClosed
<1>. QED  BY <1>1, <1>2, FilesUntouched DEF IInv

\* The current spec while the download loop is at a worker.
LEMMA AtCurrent ==
    ASSUME IInv, AtWorker \/ pc \in {"body", "verify"}
    PROVE  /\ desired \in Assignments /\ Current \in WorkerSpec
           /\ Current.id \in Workers /\ Current.sha \in Contents
           /\ Prescribed(Current.id, Current.sha)
           /\ LoadedEntry(Current) \in LoadedWorker
<1>1. /\ desired \in Assignments /\ position \in Nat \ {0}
      /\ position <= Len(desired.workers)
  BY DEF IInv, PassInv, InPass, AtWorker
<1>2. Current \in WorkerSpec /\ Prescribed(Current.id, Current.sha)
  BY <1>1, CurrentType
<1>. QED  BY <1>1, <1>2, LoadedEntryType DEF WorkerSpec

\* Recording a worker that has a script.
LEMMA RecordKeeps ==
    ASSUME IInv, NEW spec \in WorkerSpec, LoadedEntry(spec) \in LoadedWorker,
           Record(spec), scripts'[spec.id] # NoScript, UNCHANGED state,
           \A w \in Workers : HasScript(w) => HasScript(w)'
    PROVE  loaded' \in LoadedWorkers /\ LoadedHaveScripts'
<1>1. loaded' \in LoadedWorkers
  BY DEF IInv, TypeOK, Record, LoadedWorkers
<1>2. ASSUME NEW w \in Workers, state'.workers[w] # NotLoaded \/ loaded'[w] # NotLoaded
      PROVE  HasScript(w)'
  <2>1. CASE w = spec.id
    BY <2>1 DEF HasScript
  <2>2. CASE w # spec.id
    BY <1>2, <2>2 DEF IInv, TypeOK, LoadedWorkers, Record, LoadedHaveScripts
  <2>. QED  BY <2>1, <2>2
<1>. QED  BY <1>1, <1>2 DEF LoadedHaveScripts

\* What a step of the loop that moves to the next worker does to the locals.
LEMMA AdvanceKeeps ==
    ASSUME IInv, Advance, UNCHANGED <<desired, configTmp>>, InPass
    PROVE  PassInv' /\ ConfigTmpClosed' /\ position' \in Nat
BY DEF IInv, PassInv, InPass, Advance, ConfigTmpClosed

LEMMA KeepWorkerInv == ASSUME IInv, KeepWorker PROVE IInv'
<1> USE DEF KeepWorker, environment, disk, process
<1>1. Current \in WorkerSpec /\ LoadedEntry(Current) \in LoadedWorker
  BY AtCurrent
<1>2. HasScript(Current.id)
  BY AtCurrent DEF IInv, LoadedHaveScripts, NeedDownload
<1>3. \A w \in Workers : HasScript(w) <=> HasScript(w)'
  BY DEF HasScript
<1>4. scripts'[Current.id] # NoScript
  BY <1>2 DEF HasScript
<1>5. loaded' \in LoadedWorkers /\ LoadedHaveScripts'
  BY <1>1, <1>3, <1>4, RecordKeeps
<1>6. PassInv' /\ ConfigTmpClosed' /\ position' \in Nat
  BY AdvanceKeeps DEF AtWorker, InPass
<1>7. TypeOK'
  BY <1>5, <1>6 DEF IInv, TypeOK, Advance
<1>8. VerifiedScripts' /\ ConfigClosed' /\ RouterDispatches'
  BY DEF IInv, VerifiedScripts, HasScript, ConfigClosed, Closed,
         RouterDispatches, Prescribed
<1>. QED  BY <1>5, <1>6, <1>7, <1>8 DEF IInv

\* A failed download of the current worker, at either await.
LEMMA DownloadFailedInv ==
    ASSUME IInv, DownloadFailed, AtWorker \/ pc \in {"body", "verify"}
    PROVE  IInv'
<1> USE DEF DownloadFailed, DestExists, environment, disk, process
<1>1. \A w \in Workers : HasScript(w) <=> HasScript(w)'
  BY DEF HasScript
<1>2. loaded' \in LoadedWorkers /\ LoadedHaveScripts'
  <2>1. CASE HasScript(Current.id)
    <3>1. Record(Current) /\ scripts'[Current.id] # NoScript
      BY <2>1 DEF HasScript
    <3>. QED  BY <1>1, <3>1, AtCurrent, RecordKeeps
  <2>2. CASE ~HasScript(Current.id)
    BY <2>2 DEF IInv, TypeOK, LoadedHaveScripts, HasScript
  <2>. QED  BY <2>1, <2>2
<1>3. PassInv' /\ ConfigTmpClosed' /\ position' \in Nat
  BY AdvanceKeeps DEF AtWorker, InPass
<1>4. TypeOK'
  BY <1>2, <1>3 DEF IInv, TypeOK, Advance, ScriptFile
<1>5. VerifiedScripts' /\ ConfigClosed' /\ RouterDispatches'
  BY DEF IInv, VerifiedScripts, HasScript, ConfigClosed, Closed,
         RouterDispatches, Prescribed
<1>. QED  BY <1>2, <1>3, <1>4, <1>5 DEF IInv

LEMMA GetObjectInv == ASSUME IInv, GetObject PROVE IInv'
<1> USE DEF GetObject, environment, disk, process
<1>1. body' \in Contents
  BY AtCurrent DEF IInv, TypeOK, ObjectExists, WorkerSpec
<1>2. TypeOK'
  BY <1>1 DEF IInv, TypeOK, ScriptFile
<1>3. PassInv' /\ ConfigTmpClosed'
  BY <1>1 DEF IInv, PassInv, InPass, AtWorker, ConfigTmpClosed
<1>. QED  BY <1>2, <1>3, FilesUntouched DEF IInv

LEMMA ReceiveBodyInv == ASSUME IInv, ReceiveBody PROVE IInv'
<1> USE DEF ReceiveBody, environment, disk, process
<1>1. body \in Contents
  BY DEF IInv, PassInv
<1>2. TypeOK'
  BY <1>1 DEF IInv, TypeOK, ScriptFile
<1>3. PassInv' /\ ConfigTmpClosed'
  BY <1>1 DEF IInv, PassInv, InPass, ConfigTmpClosed
<1>. QED  BY <1>2, <1>3, FilesUntouched DEF IInv

LEMMA InstallScriptInv == ASSUME IInv, InstallScript PROVE IInv'
<1> USE DEF InstallScript, environment, process
<1>1. /\ Current \in WorkerSpec /\ Current.id \in Workers
      /\ LoadedEntry(Current) \in LoadedWorker
      /\ Prescribed(Current.id, Current.sha)
  BY AtCurrent
<1>2. tmp = Current.sha /\ tmp \in Contents
  BY DEF IInv, PassInv, DigestMatches
<1>3. scripts' = [scripts EXCEPT ![Current.id] = Current.sha]
      /\ scripts'[Current.id] # NoScript
  BY <1>1, <1>2, MarkersAssumption DEF IInv, TypeOK
<1>4. \A w \in Workers : HasScript(w) => HasScript(w)'
  BY <1>1, <1>3 DEF HasScript, IInv, TypeOK
<1>5. loaded' \in LoadedWorkers /\ LoadedHaveScripts'
  BY <1>1, <1>3, <1>4, RecordKeeps
<1>6. PassInv' /\ ConfigTmpClosed' /\ position' \in Nat
  BY AdvanceKeeps DEF InPass
<1>7. scripts' \in [Workers -> ScriptFile]
  BY <1>1, <1>2, <1>3 DEF IInv, TypeOK, ScriptFile
<1>8. TypeOK'
  BY <1>5, <1>6, <1>7 DEF IInv, TypeOK, Advance, ScriptFile
<1>9. VerifiedScripts'
  <2> SUFFICES ASSUME NEW w \in Workers, scripts'[w] # NoScript
               PROVE  Prescribed(w, scripts'[w])
    BY DEF VerifiedScripts, HasScript, Prescribed
  <2>1. CASE w = Current.id
    BY <1>1, <1>3, <2>1 DEF IInv, TypeOK
  <2>2. CASE w # Current.id
    BY <1>1, <1>3, <2>2 DEF IInv, TypeOK, VerifiedScripts, HasScript
  <2>. QED  BY <2>1, <2>2
<1>10. ConfigClosed'
  BY <1>4 DEF IInv, TypeOK, ConfigClosed, Closed, Config
<1>11. RouterDispatches'
  BY DEF IInv, RouterDispatches, Prescribed
<1>. QED  BY <1>5, <1>6, <1>8, <1>9, <1>10, <1>11 DEF IInv

LEMMA DownloadStepsInv ==
    ASSUME IInv, GetObjectFails \/ DownloadBreaksOff \/ RejectScript
    PROVE  IInv'
<1>1. DownloadFailed /\ (AtWorker \/ pc \in {"body", "verify"})
  BY DEF GetObjectFails, DownloadBreaksOff, RejectScript
<1>. QED  BY <1>1, DownloadFailedInv

-----------------------------------------------------------------------------
(* The restart, the end of a pass, and crashes. *)

LEMMA EndOfPassStepsInv ==
    ASSUME IInv,
           \/ ReadFails \/ PublishWithoutRestart \/ RouterCopyFails
           \/ WriteConfigFails \/ SpawnFails \/ Publish \/ Crash
    PROVE  IInv'
<1>1. DropLocals /\ pc' \in {"sleep", "read"}
  BY DEF ReadFails, PublishWithoutRestart, RouterCopyFails, WriteConfigFails,
         SpawnFails, Publish, Crash, EndPass
<1>2. UNCHANGED <<environment, disk>>
  BY DEF ReadFails, PublishWithoutRestart, RouterCopyFails, WriteConfigFails,
         SpawnFails, Publish, Crash
<1>3. UNCHANGED process \/ (workerd' = "none" /\ served' = NoProcess)
  BY DEF ReadFails, PublishWithoutRestart, RouterCopyFails, WriteConfigFails,
         SpawnFails, Publish, Crash
<1>4. \/ UNCHANGED state
      \/ state' = DefaultState
      \/ state' = TempState /\ desired \in Assignments
  <2>1. CASE PublishWithoutRestart \/ Publish
    BY <2>1 DEF PublishWithoutRestart, Publish, LoopDone, IInv, PassInv, InPass
  <2>2. CASE ~(PublishWithoutRestart \/ Publish)
    BY <2>2 DEF ReadFails, RouterCopyFails, WriteConfigFails, SpawnFails, Crash
  <2>. QED  BY <2>1, <2>2
<1>. QED  BY <1>1, <1>2, <1>3, <1>4, EndOfPass

LEMMA RouterCopyInv ==
    ASSUME IInv, BeginRouterCopy \/ FinishRouterCopy PROVE IInv'
<1> USE DEF BeginRouterCopy, FinishRouterCopy, LoopDone, environment, locals,
            process
<1>1. TypeOK'
  BY DEF IInv, TypeOK
<1>2. PassInv' /\ ConfigTmpClosed'
  BY DEF IInv, PassInv, InPass, ConfigTmpClosed
<1>. QED  BY <1>1, <1>2, FilesUntouched DEF IInv

LEMMA ConfigTmpInv ==
    ASSUME IInv, CreateConfigTmp \/ FlushConfigTmp PROVE IInv'
<1> USE DEF CreateConfigTmp, FlushConfigTmp, environment, disk, process
<1>1. desired \in Assignments /\ loaded \in LoadedWorkers
  BY DEF IInv, TypeOK, PassInv, InPass
<1>2. TypeOK'
  BY <1>1, TempStateType DEF IInv, TypeOK
<1>3. PassInv'
  BY DEF IInv, PassInv, InPass
<1>4. ConfigTmpClosed'
  <2>1. CASE FlushConfigTmp
    <3>1. RenderConfig(TempState) # NoConfig /\ Closed(RenderConfig(TempState))
      BY <1>1, RenderedIsClosed DEF IInv, LoadedHaveScripts
    <3>. QED  BY <2>1, <3>1 DEF ConfigTmpClosed, Closed, HasScript
  <2>2. CASE CreateConfigTmp
    BY <2>2 DEF ConfigTmpClosed
  <2>. QED  BY <2>1, <2>2
<1>. QED  BY <1>2, <1>3, <1>4, FilesUntouched DEF IInv

LEMMA RenameConfigInv == ASSUME IInv, RenameConfig PROVE IInv'
<1> USE DEF RenameConfig, environment, process
<1>1. TypeOK'
  BY DEF IInv, TypeOK
<1>2. PassInv' /\ ConfigTmpClosed'
  BY DEF IInv, PassInv, InPass, ConfigTmpClosed
<1>3. ConfigClosed'
  BY DEF IInv, ConfigTmpClosed, ConfigClosed, Closed, HasScript
<1>4. VerifiedScripts' /\ LoadedHaveScripts' /\ RouterDispatches'
  BY DEF IInv, VerifiedScripts, LoadedHaveScripts, HasScript, Prescribed,
         RouterDispatches
<1>. QED  BY <1>1, <1>2, <1>3, <1>4 DEF IInv

LEMMA ProcessInv ==
    ASSUME IInv, StopWorkerd \/ SpawnWorkerd \/ WorkerdExits PROVE IInv'
<1> USE DEF StopWorkerd, SpawnWorkerd, WorkerdExits, environment, disk, locals
<1>1. TypeOK'
  BY DEF IInv, TypeOK
<1>2. PassInv'
  BY DEF IInv, PassInv, InPass
<1>3. ConfigTmpClosed'
  BY DEF IInv, ConfigTmpClosed, Closed, HasScript
<1>4. VerifiedScripts' /\ LoadedHaveScripts' /\ ConfigClosed'
  BY DEF IInv, VerifiedScripts, LoadedHaveScripts, HasScript, Prescribed,
         ConfigClosed, Closed
<1>5. RouterDispatches'
  BY DEF IInv, RouterDispatches, Prescribed
<1>. QED  BY <1>1, <1>2, <1>3, <1>4, <1>5 DEF IInv

LEMMA WorkerdLoadsInv == ASSUME IInv, WorkerdLoads PROVE IInv'
<1> USE DEF WorkerdLoads, environment, disk, locals
<1>1. PassInv'
  BY DEF IInv, PassInv, InPass
<1>2. ConfigTmpClosed'
  BY DEF IInv, ConfigTmpClosed, Closed, HasScript
<1>3. VerifiedScripts' /\ LoadedHaveScripts' /\ ConfigClosed'
  BY DEF IInv, VerifiedScripts, LoadedHaveScripts, HasScript, Prescribed,
         ConfigClosed, Closed
<1>4. CASE ConfigLoads
  <2>1. config \in Config /\ config.manifest \in Manifest
        /\ config.services \subseteq Workers /\ config.compat \in CompatDates
    BY <1>4 DEF IInv, TypeOK, ConfigLoads, Config
  <2>2. /\ served'.manifest = config.manifest
        /\ served'.scripts = [w \in config.services |-> scripts[w]]
        /\ served'.compat = config.compat
    BY <1>4
  <2>3. TypeOK'
    BY <1>4, <2>1, <2>2 DEF IInv, TypeOK
  <2>4. \A r \in config.manifest.routes : r.worker \in config.services
    BY <1>4 DEF IInv, ConfigClosed, Closed, ConfigLoads
  <2>5. \A w \in config.services : Prescribed(w, scripts[w])
    BY <1>4, <2>1 DEF IInv, VerifiedScripts, ConfigLoads
  <2>6. RouterDispatches'
    BY <2>2, <2>4, <2>5 DEF RouterDispatches, Prescribed
  <2>. QED  BY <1>1, <1>2, <1>3, <2>3, <2>6 DEF IInv
<1>5. CASE ~ConfigLoads
  <2>1. TypeOK'
    BY <1>5 DEF IInv, TypeOK
  <2>2. RouterDispatches'
    BY <1>5 DEF IInv, RouterDispatches, Prescribed
  <2>. QED  BY <1>1, <1>2, <1>3, <2>1, <2>2 DEF IInv
<1>. QED  BY <1>4, <1>5

LEMMA WorldStepInv == ASSUME IInv, WorldStep PROVE IInv'
<1> USE DEF WorldStep, EditAssignment, UploadObject, Settle, disk, locals,
            process
<1>1. TypeOK'
  <2>1. file' \in Assignments /\ settled' \in BOOLEAN
    BY ConstantsAssumption DEF IInv, TypeOK
  <2>2. store' \in [Urls -> Contents \union {NoObject}]
    BY ConstantsAssumption DEF IInv, TypeOK
  <2>. QED  BY <2>1, <2>2 DEF IInv, TypeOK
<1>2. PassInv' /\ ConfigTmpClosed'
  BY DEF IInv, PassInv, InPass, ConfigTmpClosed, Closed, HasScript
<1>. QED  BY <1>1, <1>2, FilesUntouched DEF IInv

LEMMA StutterInv == ASSUME IInv, UNCHANGED vars PROVE IInv'
<1> USE DEF vars, environment, disk, locals, process
<1>1. TypeOK'
  BY DEF IInv, TypeOK
<1>2. PassInv' /\ ConfigTmpClosed'
  BY DEF IInv, PassInv, InPass, ConfigTmpClosed, Closed, HasScript
<1>. QED  BY <1>1, <1>2, FilesUntouched DEF IInv

LEMMA NextIInv == IInv /\ [Next]_vars => IInv'
<1> SUFFICES ASSUME IInv, [Next]_vars PROVE IInv'
  OBVIOUS
<1>1. CASE SupervisorStep
  BY <1>1, TickInv, ReadAssignmentInv, KeepWorkerInv, GetObjectInv,
     DownloadStepsInv, ReceiveBodyInv, InstallScriptInv, EndOfPassStepsInv,
     RouterCopyInv, ConfigTmpInv, RenameConfigInv, ProcessInv
  DEF SupervisorStep
<1>2. CASE FaultStep
  BY <1>2, DownloadStepsInv, EndOfPassStepsInv, ProcessInv DEF FaultStep
<1>3. CASE WorkerdLoads
  BY <1>3, WorkerdLoadsInv
<1>4. CASE WorldStep
  BY <1>4, WorldStepInv
<1>5. CASE UNCHANGED vars
  BY <1>5, StutterInv
<1>. QED  BY <1>1, <1>2, <1>3, <1>4, <1>5 DEF Next

LEMMA Invariance == Spec => []IInv
BY InitIInv, NextIInv, PTL DEF Spec

-----------------------------------------------------------------------------
\* Every variable keeps its type, for all faults, edits and uploads.
THEOREM TypeCorrect == Spec => []TypeOK
<1>1. IInv => TypeOK
  BY DEF IInv
<1>. QED  BY <1>1, Invariance, PTL

\* A worker's script file never holds anything but a whole script with a
\* digest some assignment prescribes for this worker.
THEOREM ScriptsVerified == Spec => []VerifiedScripts
<1>1. IInv => VerifiedScripts
  BY DEF IInv
<1>. QED  BY <1>1, Invariance, PTL

\* config.capnp is whole, routes to declared services only, and declares
\* services with script files only, whatever pass failed or crashed before.
THEOREM ConfigAlwaysClosed == Spec => []ConfigClosed
<1>1. IInv => ConfigClosed
  BY DEF IInv
<1>. QED  BY <1>1, Invariance, PTL

\* The running router finds a binding to a verified script for every route.
THEOREM RouterAlwaysDispatches == Spec => []RouterDispatches
<1>1. IInv => RouterDispatches
  BY DEF IInv
<1>. QED  BY <1>1, Invariance, PTL

-----------------------------------------------------------------------------
(* No pass drops a loaded worker that is still assigned. *)

AfterLoop == pc \in {"copy", "render", "flush", "rename", "stop", "spawn",
                     "publish"}

\* The specs the loop has passed keep their loaded workers.
KeptInv ==
    /\ ~InPass => position = 1
    /\ AfterLoop => position > Len(desired.workers)
    /\ InPass => \A i \in DOMAIN desired.workers :
          i < position /\ state.workers[desired.workers[i].id] # NotLoaded =>
              loaded[desired.workers[i].id] # NotLoaded

\* Moving on to the next worker, its entry recorded if it was loaded before.
LEMMA KeptByAdvance ==
    ASSUME IInv, KeptInv, Advance, UNCHANGED <<desired, state>>,
           AtWorker \/ pc \in {"body", "verify"},
           \/ Record(Current)
           \/ UNCHANGED loaded /\ state.workers[Current.id] = NotLoaded
    PROVE  KeptInv'
<1>1. /\ desired \in Assignments /\ position \in Nat \ {0}
      /\ InPass /\ pc' = "next" /\ position' = position + 1
      /\ DOMAIN desired.workers \subseteq Nat
  BY ConstantsAssumption
  DEF IInv, PassInv, InPass, AtWorker, Advance
<1>2. ASSUME NEW i \in DOMAIN desired.workers, i < position + 1,
             state.workers[desired.workers[i].id] # NotLoaded
      PROVE  loaded'[desired.workers[i].id] # NotLoaded
  <2>1. LoadedEntry(Current) \in LoadedWorker /\ Current.id \in Workers
    BY AtCurrent
  <2>2. desired.workers[i].id \in Workers
    BY <1>1, ConstantsAssumption DEF WorkerSpec
  <2>3. CASE i = position
    BY <1>2, <2>1, <2>2, <2>3, MarkersAssumption
    DEF Record, Current, IInv, TypeOK, LoadedWorkers
  <2>4. CASE i # position
    <3>1. loaded[desired.workers[i].id] # NotLoaded
      BY <1>1, <1>2, <2>4 DEF KeptInv
    <3>. QED
      BY <2>1, <2>2, <3>1, MarkersAssumption
      DEF Record, IInv, TypeOK, LoadedWorkers
  <2>. QED  BY <2>3, <2>4
<1>. QED  BY <1>1, <1>2 DEF KeptInv, InPass, AfterLoop

LEMMA KeptInvNext == ASSUME IInv, KeptInv, [Next]_vars PROVE KeptInv'
<1>1. CASE KeepWorker \/ InstallScript
  <2>1. /\ Advance /\ Record(Current) /\ UNCHANGED <<desired, state>>
        /\ AtWorker \/ pc \in {"body", "verify"}
    BY <1>1 DEF KeepWorker, InstallScript
  <2>. QED  BY <2>1, KeptByAdvance
<1>2. CASE GetObjectFails \/ DownloadBreaksOff \/ RejectScript
  <2>1. /\ DownloadFailed /\ Advance /\ UNCHANGED <<desired, state>>
        /\ AtWorker \/ pc \in {"body", "verify"}
    BY <1>2 DEF GetObjectFails, DownloadBreaksOff, RejectScript, DownloadFailed
  <2>2. CASE DestExists
    <3>1. Record(Current)
      BY <2>1, <2>2 DEF DownloadFailed
    <3>. QED  BY <2>1, <3>1, KeptByAdvance
  <2>3. CASE ~DestExists
    <3>1. UNCHANGED loaded /\ state.workers[Current.id] = NotLoaded
      BY <2>1, <2>3, AtCurrent
      DEF DownloadFailed, DestExists, IInv, LoadedHaveScripts
    <3>. QED  BY <2>1, <3>1, KeptByAdvance
  <2>. QED  BY <2>2, <2>3
<1>3. CASE pc' \in {"sleep", "read"} /\ DropLocals
  BY <1>3 DEF DropLocals, KeptInv, InPass, AfterLoop
<1>4. CASE ReadAssignment
  <2>1. position = 1 /\ position' = 1 /\ pc' = "next" /\ file \in Assignments
        /\ desired' = file
    BY <1>4 DEF ReadAssignment, KeptInv, InPass, IInv, TypeOK
  <2>2. \A i \in DOMAIN file.workers : ~(i < 1)
    BY <2>1, ConstantsAssumption
  <2>. QED  BY <2>1, <2>2 DEF KeptInv, InPass, AfterLoop
<1>5. CASE Tick
  BY <1>5 DEF Tick, locals, KeptInv, InPass, AfterLoop
<1>6. CASE GetObject \/ ReceiveBody
  BY <1>6 DEF GetObject, AtWorker, ReceiveBody, KeptInv, InPass, AfterLoop
<1>7. CASE BeginRouterCopy
  <2>1. desired \in Assignments /\ position \in Nat
    BY <1>7 DEF BeginRouterCopy, LoopDone, IInv, PassInv, InPass
  <2>. QED
    BY <1>7, <2>1, ConstantsAssumption
    DEF BeginRouterCopy, LoopDone, locals, KeptInv, InPass, AfterLoop
<1>8. CASE \/ FinishRouterCopy \/ CreateConfigTmp \/ FlushConfigTmp
           \/ RenameConfig \/ StopWorkerd \/ SpawnWorkerd
  BY <1>8 DEF FinishRouterCopy, CreateConfigTmp, FlushConfigTmp, RenameConfig,
              StopWorkerd, SpawnWorkerd, locals, KeptInv, InPass, AfterLoop
<1>9. CASE WorkerdLoads \/ WorkerdExits \/ WorldStep \/ UNCHANGED vars
  BY <1>9 DEF WorkerdLoads, WorkerdExits, WorldStep, EditAssignment,
              UploadObject, Settle, vars, locals, KeptInv, InPass, AfterLoop
<1>10. CASE \/ ReadFails \/ PublishWithoutRestart \/ RouterCopyFails
            \/ WriteConfigFails \/ SpawnFails \/ Publish \/ Crash
  BY <1>3, <1>10
  DEF ReadFails, PublishWithoutRestart, RouterCopyFails, WriteConfigFails,
      SpawnFails, Publish, Crash, EndPass
<1>. QED
  BY <1>1, <1>2, <1>4, <1>5, <1>6, <1>7, <1>8, <1>9, <1>10
  DEF Next, SupervisorStep, FaultStep

\* What one step may not do, in a state satisfying the invariants.
LEMMA KeptStep ==
    ASSUME IInv, KeptInv, [Next]_vars, desired # NoAssignment, pc' = "sleep",
           NEW w \in AssignedIds(desired) \intersect LoadedIds(state.workers)
    PROVE  w \in LoadedIds(state'.workers)
<1>1. w \in Workers /\ state.workers[w] # NotLoaded
  BY DEF LoadedIds
<1>2. CASE UNCHANGED state
  BY <1>1, <1>2 DEF LoadedIds
<1>3. CASE (PublishWithoutRestart \/ Publish)
  <2>1. position > Len(desired.workers) /\ InPass /\ state' = TempState
    BY <1>3
    DEF PublishWithoutRestart, Publish, LoopDone, KeptInv, AfterLoop, InPass
  <2>2. PICK i \in DOMAIN desired.workers : desired.workers[i].id = w
    BY DEF AssignedIds
  <2>3. i < position
    BY <2>1, <2>2, ConstantsAssumption DEF IInv, PassInv, InPass
  <2>4. loaded[w] # NotLoaded
    BY <1>1, <2>1, <2>2, <2>3 DEF KeptInv
  <2>. QED  BY <1>1, <2>1, <2>4 DEF TempState, LoadedIds
<1>4. UNCHANGED state \/ PublishWithoutRestart \/ Publish
  BY DEF Next, SupervisorStep, FaultStep, WorldStep, Tick, ReadAssignment,
         KeepWorker, GetObject, GetObjectFails, DownloadBreaksOff, RejectScript,
         DownloadFailed, ReceiveBody, InstallScript, BeginRouterCopy,
         FinishRouterCopy, CreateConfigTmp, FlushConfigTmp, RenameConfig,
         StopWorkerd, SpawnWorkerd, ReadFails, RouterCopyFails,
         WriteConfigFails, SpawnFails, WorkerdExits, Crash, WorkerdLoads,
         EditAssignment, UploadObject, Settle, vars
<1>. QED  BY <1>2, <1>3, <1>4

\* A pass never drops a loaded worker that the assignment still lists, even
\* when its download fails.
THEOREM WorkersAreKept == Spec => LoadedWorkersKept
<1>1. Init => KeptInv
  BY DEF Init, KeptInv, InPass, AfterLoop
<1>2. IInv /\ KeptInv /\ [Next]_vars => KeptInv'
  BY KeptInvNext
<1>3. IInv /\ KeptInv /\ [Next]_vars =>
        [desired # NoAssignment /\ pc' = "sleep" =>
           \A w \in AssignedIds(desired) \intersect LoadedIds(state.workers) :
               w \in LoadedIds(state'.workers)]_vars
  BY KeptStep
<1>. QED  BY <1>1, <1>2, <1>3, Invariance, PTL DEF Spec, LoadedWorkersKept

=============================================================================
