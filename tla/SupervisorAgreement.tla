------------------------ MODULE SupervisorAgreement ------------------------
(***************************************************************************)
(* Proofs that the manifest API and the running workerd of a worker node   *)
(* agree, under the operating conditions of Supervisor that each theorem   *)
(* names.                                                                  *)
(***************************************************************************)
EXTENDS SupervisorProofs, FiniteSetTheorems

\* While downloads succeed, the pass has the object its spec describes.
DownloadInv ==
    DownloadsSucceed =>
        /\ store = InitialStore
        /\ pc \in {"body", "verify"} => body = Current.sha

\* What the download loop has collected from the specs it has passed: only
\* workers of the assignment, and all of them that have a script.
LoopInv ==
    /\ ~InPass => loaded = NothingLoaded /\ ~anyDownloaded
    /\ InPass => LoadedIds(loaded) \subseteq AssignedIds(desired)
    /\ InPass => \A i \in DOMAIN desired.workers :
          i < position /\ loaded[desired.workers[i].id] = NotLoaded =>
              /\ ~HasScript(desired.workers[i].id)
              /\ ~DownloadsSucceed

\* The state was published from assignment a, and a worker of a that is not
\* loaded has no script on disk unless the running pass has installed one.
PublishedBy(a) ==
    /\ state.gen = a.gen
    /\ LoadedIds(state.workers) \subseteq AssignedIds(a)
    /\ \A w \in AssignedIds(a) \ LoadedIds(state.workers) :
          /\ ~DownloadsSucceed
          /\ HasScript(w) => anyDownloaded

PublishedInv ==
    workerd # "none" /\ pc # "publish" =>
        \E a \in Assignments : PublishedBy(a)

\* The services of the config a starting workerd is going to read, and those
\* of the workerd that runs, are the workers loaded in the state, or in the
\* pass that is about to publish.
BoundInv ==
    /\ served # NoProcess => workerd = "serving"
    /\ pc = "spawn" => workerd = "none"
    /\ pc = "rename" => configTmp.services = LoadedIds(loaded)
    /\ pc \in {"stop", "spawn", "publish"} =>
          config.services = LoadedIds(loaded)
    /\ pc = "publish" /\ served # NoProcess =>
          DOMAIN served.scripts = LoadedIds(loaded)
    /\ workerd = "starting" /\ pc \notin {"stop", "publish"} =>
          config.services = LoadedIds(state.workers)

AgreeInv ==
    /\ IInv
    /\ KeptInv
    /\ DownloadInv
    /\ LoopInv
    /\ PublishedInv
    /\ BoundInv
    /\ LoadedIsBound

-----------------------------------------------------------------------------
(* How the steps change what these invariants speak of. *)

\* The steps of workerd and of the outside world leave the pass alone.
LEMMA OutsideSteps ==
    ASSUME WorkerdLoads \/ WorkerdExits \/ WorldStep \/ UNCHANGED vars
    PROVE  UNCHANGED <<disk, pc, locals, state>>
BY DEF WorkerdLoads, WorkerdExits, WorldStep, EditAssignment, UploadObject,
       Settle, vars

\* The steps that end a pass.
LEMMA EndingSteps ==
    ASSUME \/ ReadFails \/ PublishWithoutRestart \/ RouterCopyFails
           \/ WriteConfigFails \/ SpawnFails \/ Publish \/ Crash
    PROVE  /\ DropLocals /\ pc' \in {"sleep", "read"}
           /\ UNCHANGED <<environment, disk>>
BY DEF ReadFails, PublishWithoutRestart, RouterCopyFails, WriteConfigFails,
       SpawnFails, Publish, Crash, EndPass

\* The steps from the end of the loop to the spawn.
LEMMA RestartSteps ==
    ASSUME \/ BeginRouterCopy \/ FinishRouterCopy \/ CreateConfigTmp
           \/ FlushConfigTmp \/ RenameConfig \/ StopWorkerd \/ SpawnWorkerd
    PROVE  /\ UNCHANGED <<environment, scripts, desired, position, loaded,
                          anyDownloaded, body, tmp, state>>
           /\ pc' \in {"copy", "render", "flush", "rename", "stop", "spawn",
                       "publish"}
           /\ InPass
BY DEF BeginRouterCopy, LoopDone, FinishRouterCopy, CreateConfigTmp,
       FlushConfigTmp, RenameConfig, StopWorkerd, SpawnWorkerd, disk, locals,
       InPass

\* The steps of the loop that go on to the next worker.
LEMMA AdvanceSteps ==
    ASSUME IInv,
           \/ KeepWorker \/ InstallScript
           \/ GetObjectFails \/ DownloadBreaksOff \/ RejectScript
    PROVE  /\ Advance /\ InPass
           /\ AtWorker \/ pc \in {"body", "verify"}
           /\ UNCHANGED <<environment, router, config, desired, configTmp,
                          state, process>>
           /\ \/ Record(Current)
              \/ UNCHANGED loaded /\ ~HasScript(Current.id)
           /\ \/ UNCHANGED <<scripts, anyDownloaded>>
              \/ /\ InstallScript /\ anyDownloaded' /\ Record(Current)
                 /\ scripts' = [scripts EXCEPT ![Current.id] = tmp]
<1>1. CASE KeepWorker
  BY <1>1 DEF KeepWorker, disk, AtWorker, InPass
<1>2. CASE InstallScript
  BY <1>2 DEF InstallScript, InPass
<1>3. CASE GetObjectFails \/ DownloadBreaksOff \/ RejectScript
  <2>1. DownloadFailed /\ (AtWorker \/ pc \in {"body", "verify"})
    BY <1>3 DEF GetObjectFails, DownloadBreaksOff, RejectScript
  <2>. QED
    BY <2>1 DEF DownloadFailed, DestExists, disk, AtWorker, InPass
<1>. QED  BY <1>1, <1>2, <1>3

\* While downloads succeed no download of the current worker fails.
LEMMA NoDownloadFails ==
    ASSUME IInv, DownloadInv, DownloadsSucceed
    PROVE  ~GetObjectFails /\ ~DownloadBreaksOff /\ ~RejectScript
<1>1. ~MayFail("download")
  BY DEF DownloadsSucceed, MayFail
<1>2. ~GetObjectFails
  <2> SUFFICES ASSUME GetObjectFails PROVE FALSE
    OBVIOUS
  <2>1. /\ desired \in Assignments /\ position \in Nat \ {0}
        /\ position <= Len(desired.workers) /\ Current.sha \in Contents
    BY AtCurrent DEF GetObjectFails, IInv, PassInv, InPass, AtWorker
  <2>2. position \in DOMAIN desired.workers
    BY <2>1, ConstantsAssumption
  <2>3. store[Current.url] = Current.sha
    BY <2>1, <2>2 DEF DownloadInv, DownloadsSucceed, Current
  <2>. QED
    BY <1>1, <2>1, <2>3, MarkersAssumption DEF GetObjectFails, ObjectExists
<1>3. ~RejectScript
  BY DEF RejectScript, DownloadInv, DigestMatches
<1>. QED  BY <1>1, <1>2, <1>3 DEF DownloadBreaksOff

LEMMA DownloadInvNext ==
    ASSUME IInv, DownloadInv, [Next]_vars PROVE DownloadInv'
<1> SUFFICES ASSUME DownloadsSucceed
             PROVE  /\ store' = InitialStore
                    /\ pc' \in {"body", "verify"} => body' = Current'.sha
  BY DEF DownloadInv
<1>1. store = InitialStore /\ (pc \in {"body", "verify"} => body = Current.sha)
  BY DEF DownloadInv
<1>2. CASE WorkerdLoads \/ WorkerdExits \/ WorldStep \/ UNCHANGED vars
  <2>1. store' = store
    BY <1>2 DEF WorkerdLoads, WorkerdExits, WorldStep, EditAssignment,
                UploadObject, Settle, vars, environment, DownloadsSucceed
  <2>. QED  BY <1>1, <1>2, <2>1, OutsideSteps DEF locals, Current
<1>3. CASE \/ ReadFails \/ PublishWithoutRestart \/ RouterCopyFails
           \/ WriteConfigFails \/ SpawnFails \/ Publish \/ Crash
  BY <1>1, <1>3, EndingSteps DEF environment
<1>4. CASE \/ BeginRouterCopy \/ FinishRouterCopy \/ CreateConfigTmp
           \/ FlushConfigTmp \/ RenameConfig \/ StopWorkerd \/ SpawnWorkerd
  BY <1>1, <1>4, RestartSteps DEF environment
<1>5. CASE \/ KeepWorker \/ InstallScript
           \/ GetObjectFails \/ DownloadBreaksOff \/ RejectScript
  BY <1>1, <1>5, AdvanceSteps DEF environment, Advance
<1>6. CASE Tick \/ ReadAssignment
  BY <1>1, <1>6 DEF Tick, ReadAssignment, environment
<1>7. CASE ReceiveBody
  BY <1>1, <1>7 DEF ReceiveBody, environment, Current
<1>8. CASE GetObject
  <2>1. /\ desired \in Assignments /\ position \in Nat \ {0}
        /\ position <= Len(desired.workers)
    BY <1>8 DEF GetObject, IInv, PassInv, InPass, AtWorker
  <2>2. position \in DOMAIN desired.workers
    BY <2>1, ConstantsAssumption
  <2>3. store[Current.url] = Current.sha
    BY <1>1, <2>1, <2>2 DEF DownloadsSucceed, Current
  <2>. QED  BY <1>1, <1>8, <2>3 DEF GetObject, environment, Current
<1>. QED
  BY <1>2, <1>3, <1>4, <1>5, <1>6, <1>7, <1>8
  DEF Next, SupervisorStep, FaultStep

-----------------------------------------------------------------------------
\* What going on to the next worker collects.
LEMMA LoopAdvances ==
    ASSUME IInv, DownloadInv, LoopInv,
           \/ KeepWorker \/ InstallScript
           \/ GetObjectFails \/ DownloadBreaksOff \/ RejectScript
    PROVE  LoopInv'
<1>1. /\ Advance /\ InPass /\ UNCHANGED desired
      /\ AtWorker \/ pc \in {"body", "verify"}
  BY AdvanceSteps
<1>2. /\ desired \in Assignments /\ position \in Nat \ {0}
      /\ position <= Len(desired.workers)
      /\ LoadedEntry(Current) \in LoadedWorker /\ Current.id \in Workers
      /\ pc' = "next" /\ position' = position + 1
  BY <1>1, AtCurrent DEF IInv, PassInv, InPass, AtWorker, Advance
<1>3. position \in DOMAIN desired.workers /\ DOMAIN desired.workers \subseteq Nat
  BY <1>2, ConstantsAssumption
<1>4. Current.id \in AssignedIds(desired)
  BY <1>3 DEF AssignedIds, Current
<1>5. \/ Record(Current)
      \/ UNCHANGED loaded /\ ~HasScript(Current.id) /\ ~DownloadsSucceed
  BY AdvanceSteps, NoDownloadFails DEF KeepWorker, InstallScript
<1>6. LoadedIds(loaded') \subseteq AssignedIds(desired')
  <2>1. LoadedIds(loaded) \subseteq AssignedIds(desired)
    BY <1>1 DEF LoopInv
  <2>2. LoadedIds(loaded') \subseteq LoadedIds(loaded) \union {Current.id}
    BY <1>2, <1>5 DEF LoadedIds, Record, IInv, TypeOK, LoadedWorkers
  <2>. QED  BY <1>1, <1>4, <2>1, <2>2
<1>7. ASSUME NEW i \in DOMAIN desired.workers, i < position + 1,
             loaded'[desired.workers[i].id] = NotLoaded
      PROVE  scripts'[desired.workers[i].id] = NoScript /\ ~DownloadsSucceed
  <2> DEFINE w == desired.workers[i].id
  <2>1. w \in Workers
    BY <1>2, ConstantsAssumption DEF WorkerSpec
  <2>2. loaded[w] = NotLoaded /\ (Record(Current) => w # Current.id)
    BY <1>2, <1>5, <1>7, <2>1, MarkersAssumption
    DEF Record, IInv, TypeOK, LoadedWorkers
  <2>3. ~HasScript(w) /\ ~DownloadsSucceed
    <3>1. CASE i = position
      BY <1>5, <2>2, <3>1 DEF Current
    <3>2. CASE i # position
      <4>1. i < position
        BY <1>2, <1>3, <1>7, <3>2
      <4>. QED  BY <1>1, <2>2, <4>1 DEF LoopInv
    <3>. QED  BY <3>1, <3>2
  <2>4. UNCHANGED scripts \/ (/\ Record(Current)
                              /\ scripts' = [scripts EXCEPT ![Current.id] = tmp])
    BY AdvanceSteps
  <2>5. scripts'[w] = scripts[w]
    BY <1>2, <2>1, <2>2, <2>4 DEF IInv, TypeOK
  <2>. QED  BY <2>3, <2>5 DEF HasScript
<1>8. \A i \in DOMAIN desired'.workers :
          i < position' /\ loaded'[desired'.workers[i].id] = NotLoaded =>
              scripts'[desired'.workers[i].id] = NoScript /\ ~DownloadsSucceed
  BY <1>1, <1>2, <1>7
<1>. QED  BY <1>1, <1>2, <1>6, <1>8 DEF LoopInv, InPass, HasScript

LEMMA LoopInvNext ==
    ASSUME IInv, KeptInv, DownloadInv, LoopInv, [Next]_vars PROVE LoopInv'
<1>1. CASE WorkerdLoads \/ WorkerdExits \/ WorldStep \/ UNCHANGED vars
  BY <1>1, OutsideSteps DEF LoopInv, InPass, HasScript, disk, locals
<1>2. CASE \/ ReadFails \/ PublishWithoutRestart \/ RouterCopyFails
           \/ WriteConfigFails \/ SpawnFails \/ Publish \/ Crash
  BY <1>2, EndingSteps DEF LoopInv, InPass, DropLocals
<1>3. CASE \/ BeginRouterCopy \/ FinishRouterCopy \/ CreateConfigTmp
           \/ FlushConfigTmp \/ RenameConfig \/ StopWorkerd \/ SpawnWorkerd
  BY <1>3, RestartSteps DEF LoopInv, InPass, HasScript
<1>4. CASE \/ KeepWorker \/ InstallScript
           \/ GetObjectFails \/ DownloadBreaksOff \/ RejectScript
  BY <1>4, LoopAdvances
<1>5. CASE Tick
  BY <1>5 DEF Tick, locals, LoopInv, InPass
<1>6. CASE ReadAssignment
  <2>1. /\ position' = 1 /\ pc' = "next" /\ file \in Assignments
        /\ desired' = file /\ loaded' = NothingLoaded
    BY <1>6 DEF ReadAssignment, KeptInv, LoopInv, InPass, IInv, TypeOK
  <2>2. \A i \in DOMAIN file.workers : ~(i < 1)
    BY <2>1, ConstantsAssumption
  <2>3. LoadedIds(loaded') = {}
    BY <2>1 DEF NothingLoaded, LoadedIds
  <2>. QED  BY <2>1, <2>2, <2>3 DEF LoopInv, InPass
<1>7. CASE GetObject \/ ReceiveBody
  BY <1>7 DEF GetObject, AtWorker, ReceiveBody, disk, LoopInv, InPass, HasScript
<1>. QED
  BY <1>1, <1>2, <1>3, <1>4, <1>5, <1>6, <1>7
  DEF Next, SupervisorStep, FaultStep

-----------------------------------------------------------------------------
\* An assignment that lists no worker twice lists as many as it has specs.
LEMMA AssignedCount ==
    ASSUME DistinctIds, NEW a \in Assignments
    PROVE  /\ IsFiniteSet(AssignedIds(a))
           /\ Cardinality(AssignedIds(a)) = Len(a.workers)
<1> DEFINE f == [i \in 1..Len(a.workers) |-> a.workers[i].id]
<1>1. Len(a.workers) \in Nat /\ DOMAIN a.workers = 1..Len(a.workers)
  BY ConstantsAssumption
<1>2. f \in Bijection(1..Len(a.workers), AssignedIds(a))
  <2>1. f \in [1..Len(a.workers) -> AssignedIds(a)]
    BY <1>1 DEF AssignedIds
  <2>2. \A i, j \in 1..Len(a.workers) : f[i] = f[j] => i = j
    BY <1>1 DEF DistinctIds
  <2>3. \A w \in AssignedIds(a) : \E i \in 1..Len(a.workers) : f[i] = w
    BY <1>1 DEF AssignedIds
  <2>. QED  BY <2>1, <2>2, <2>3 DEF Bijection, Injection, IsInjective, Surjection
<1>3. IsFiniteSet(1..Len(a.workers))
      /\ Cardinality(1..Len(a.workers)) = Len(a.workers)
  BY <1>1, FS_Interval
<1>. QED  BY <1>2, <1>3, FS_Bijection DEF ExistsBijection

\* Another generation that calls for no restart lists as many workers as are
\* loaded, and every one of them is.
LEMMA ComparedSpecs ==
    ASSUME desired \in Assignments, state.gen # desired.gen,
           ~WorkerGraphChanged(state, desired)
    PROVE  /\ Cardinality(LoadedIds(state.workers)) = Len(desired.workers)
           /\ AssignedIds(desired) \subseteq LoadedIds(state.workers)
<1>1. ASSUME NEW i \in DOMAIN desired.workers
      PROVE  desired.workers[i].id \in LoadedIds(state.workers)
  <2>1. ~SpecChanged(state, desired.workers[i])
    BY DEF WorkerGraphChanged
  <2>2. desired.workers[i].id \in Workers
    BY ConstantsAssumption DEF WorkerSpec
  <2>. QED  BY <2>1, <2>2 DEF SpecChanged, LoadedIds
<1>. QED  BY <1>1 DEF AssignedIds, WorkerGraphChanged

\* A pass that only publishes loads the workers that were loaded before: with
\* the same generation it has read the same assignment, with another one it
\* has compared every spec and counted the workers.
LEMMA SameWorkers ==
    ASSUME IInv, KeptInv, LoopInv, PublishedInv, PublishWithoutRestart,
           GenerationsNameAssignments, DistinctIds
    PROVE  /\ LoadedIds(loaded) = LoadedIds(state.workers)
           /\ workerd # "none"
<1>1. /\ InPass /\ desired \in Assignments /\ position \in Nat \ {0}
      /\ pc = "next" /\ position > Len(desired.workers)
      /\ ~anyDownloaded /\ ~WorkerGraphChanged(state, desired)
      /\ workerd # "none"
  BY DEF PublishWithoutRestart, LoopDone, NeedRestart, IInv, PassInv, InPass
<1>2. PICK a \in Assignments : PublishedBy(a)
  BY <1>1 DEF PublishedInv
<1>3. \A w \in LoadedIds(loaded) : w \in AssignedIds(desired) /\ HasScript(w)
  BY <1>1 DEF LoopInv, IInv, LoadedHaveScripts, LoadedIds
<1>4. /\ LoadedIds(state.workers) \subseteq AssignedIds(desired)
      /\ LoadedIds(loaded) \subseteq LoadedIds(state.workers)
  <2>1. CASE state.gen = desired.gen
    <3>1. PublishedBy(desired)
      BY <1>1, <1>2, <2>1 DEF GenerationsNameAssignments, PublishedBy
    <3>. QED  BY <1>1, <1>3, <3>1 DEF PublishedBy
  <2>2. CASE state.gen # desired.gen
    <3>1. /\ Cardinality(LoadedIds(state.workers)) = Len(desired.workers)
          /\ AssignedIds(desired) \subseteq LoadedIds(state.workers)
      BY <1>1, <2>2, ComparedSpecs
    <3>2. IsFiniteSet(LoadedIds(state.workers))
      BY <1>2, AssignedCount, FS_Subset DEF PublishedBy
    <3>3. Cardinality(AssignedIds(desired)) = Cardinality(LoadedIds(state.workers))
      BY <1>1, <3>1, AssignedCount
    <3>4. LoadedIds(state.workers) = AssignedIds(desired)
      BY <3>1, <3>2, <3>3, FS_Subset
    <3>. QED  BY <1>3, <3>4
  <2>. QED  BY <2>1, <2>2
<1>5. LoadedIds(state.workers) \subseteq LoadedIds(loaded)
  <2> SUFFICES ASSUME NEW w \in LoadedIds(state.workers)
               PROVE  w \in LoadedIds(loaded)
    OBVIOUS
  <2>1. PICK i \in DOMAIN desired.workers : desired.workers[i].id = w
    BY <1>4 DEF AssignedIds
  <2>2. i < position
    BY <1>1, <2>1, ConstantsAssumption
  <2>. QED  BY <1>1, <2>1, <2>2 DEF KeptInv, LoadedIds
<1>. QED  BY <1>1, <1>4, <1>5

\* What a pass publishes is published by its assignment.
LEMMA PublishesDesired ==
    ASSUME IInv, KeptInv, LoopInv, PublishWithoutRestart \/ Publish
    PROVE  \E a \in Assignments : PublishedBy(a)'
<1>1. /\ InPass /\ desired \in Assignments /\ position \in Nat \ {0}
      /\ position > Len(desired.workers) /\ state' = TempState
      /\ UNCHANGED scripts
  BY DEF PublishWithoutRestart, Publish, LoopDone, IInv, PassInv, InPass,
         KeptInv, AfterLoop, disk
<1>2. state'.gen = desired.gen /\ state'.workers = loaded
  BY <1>1 DEF TempState
<1>3. LoadedIds(loaded) \subseteq AssignedIds(desired)
  BY <1>1 DEF LoopInv
<1>4. ASSUME NEW w \in AssignedIds(desired) \ LoadedIds(loaded)
      PROVE  ~DownloadsSucceed /\ scripts[w] = NoScript
  <2>1. PICK i \in DOMAIN desired.workers : desired.workers[i].id = w
    BY DEF AssignedIds
  <2>2. i < position /\ w \in Workers
    BY <1>1, <2>1, ConstantsAssumption DEF WorkerSpec
  <2>3. loaded[w] = NotLoaded
    BY <2>2 DEF LoadedIds
  <2>. QED  BY <1>1, <2>1, <2>2, <2>3 DEF LoopInv, HasScript
<1>5. PICK a \in Assignments : a = desired
  BY <1>1
<1>6. PublishedBy(a)'
  BY <1>1, <1>2, <1>3, <1>4, <1>5 DEF PublishedBy, HasScript
<1>. QED  BY <1>6

LEMMA PublishedInvNext ==
    ASSUME IInv, KeptInv, DownloadInv, LoopInv, PublishedInv, BoundInv,
           NoScriptLeftBehind, [Next]_vars
    PROVE  PublishedInv'
<1> SUFFICES ASSUME workerd' # "none", pc' # "publish"
             PROVE  \E a \in Assignments : PublishedBy(a)'
  BY DEF PublishedInv
<1>1. CASE PublishWithoutRestart \/ Publish
  BY <1>1, PublishesDesired
<1>2. CASE Crash \/ SpawnFails \/ StopWorkerd \/ SpawnWorkerd
  BY <1>2 DEF Crash, SpawnFails, StopWorkerd, SpawnWorkerd, BoundInv, process
<1>3. CASE WorkerdLoads \/ WorkerdExits \/ WorldStep \/ UNCHANGED vars
  <2>1. UNCHANGED <<pc, state, scripts, anyDownloaded>>
    BY <1>3, OutsideSteps DEF disk, locals
  <2>2. workerd # "none"
    BY <1>3 DEF WorkerdLoads, WorkerdExits, WorldStep, EditAssignment,
                UploadObject, Settle, vars, process
  <2>3. PICK a \in Assignments : PublishedBy(a)
    BY <2>1, <2>2 DEF PublishedInv
  <2>. QED  BY <2>1, <2>3 DEF PublishedBy, HasScript
<1>4. CASE Tick \/ ReadAssignment \/ GetObject \/ ReceiveBody
  <2>1. UNCHANGED <<state, scripts, anyDownloaded>> /\ workerd # "none"
        /\ pc # "publish"
    BY <1>4 DEF Tick, ReadAssignment, GetObject, AtWorker, ReceiveBody, disk,
                locals, process
  <2>2. PICK a \in Assignments : PublishedBy(a)
    BY <2>1 DEF PublishedInv
  <2>. QED  BY <2>1, <2>2 DEF PublishedBy, HasScript
<1>5. CASE \/ BeginRouterCopy \/ FinishRouterCopy \/ CreateConfigTmp
           \/ FlushConfigTmp \/ RenameConfig
  <2>1. UNCHANGED <<state, scripts, anyDownloaded>>
    BY <1>5, RestartSteps
  <2>2. workerd # "none" /\ pc # "publish"
    BY <1>5 DEF BeginRouterCopy, LoopDone, FinishRouterCopy, CreateConfigTmp,
                FlushConfigTmp, RenameConfig, process
  <2>3. PICK a \in Assignments : PublishedBy(a)
    BY <2>2 DEF PublishedInv
  <2>. QED  BY <2>1, <2>3 DEF PublishedBy, HasScript
<1>6. CASE ReadFails \/ RouterCopyFails \/ WriteConfigFails
  <2>1. UNCHANGED <<state, scripts>> /\ workerd # "none" /\ pc # "publish"
    BY <1>6 DEF ReadFails, RouterCopyFails, LoopDone, WriteConfigFails, disk,
                process
  <2>2. PICK a \in Assignments : PublishedBy(a)
    BY <2>1 DEF PublishedInv
  <2>3. ~DownloadsSucceed => ReadFails
    BY <1>6 DEF NoScriptLeftBehind, RouterCopyFails, WriteConfigFails, MayFail
  <2>4. ReadFails => ~anyDownloaded
    BY DEF ReadFails, LoopInv, InPass
  <2>. QED  BY <2>1, <2>2, <2>3, <2>4 DEF PublishedBy, HasScript
<1>7. CASE \/ KeepWorker \/ InstallScript
           \/ GetObjectFails \/ DownloadBreaksOff \/ RejectScript
  <2>1. /\ UNCHANGED <<state, workerd>> /\ pc # "publish"
        /\ UNCHANGED <<scripts, anyDownloaded>> \/ anyDownloaded'
    BY <1>7, AdvanceSteps DEF process, AtWorker
  <2>2. PICK a \in Assignments : PublishedBy(a)
    BY <2>1 DEF PublishedInv
  <2>. QED  BY <2>1, <2>2 DEF PublishedBy, HasScript
<1>. QED
  BY <1>1, <1>2, <1>3, <1>4, <1>5, <1>6, <1>7
  DEF Next, SupervisorStep, FaultStep

-----------------------------------------------------------------------------
LEMMA BoundInvNext ==
    ASSUME IInv, KeptInv, LoopInv, PublishedInv, BoundInv, LoadedIsBound,
           GenerationsNameAssignments, DistinctIds, [Next]_vars
    PROVE  BoundInv' /\ LoadedIsBound'
<1> USE DEF BoundInv, LoadedIsBound
<1>1. CASE Tick
  BY <1>1 DEF Tick, disk, locals
<1>2. CASE ReadAssignment \/ GetObject \/ ReceiveBody
  BY <1>2 DEF ReadAssignment, GetObject, AtWorker, ReceiveBody, disk, process
<1>3. CASE \/ KeepWorker \/ InstallScript
           \/ GetObjectFails \/ DownloadBreaksOff \/ RejectScript
  <2>1. /\ pc' = "next" /\ pc \notin {"stop", "publish"}
        /\ UNCHANGED <<config, state, process>>
    BY <1>3, AdvanceSteps DEF Advance, AtWorker
  <2>. QED  BY <2>1 DEF process
<1>4. CASE WorldStep \/ UNCHANGED vars
  BY <1>4, OutsideSteps
  DEF WorldStep, EditAssignment, UploadObject, Settle, vars, disk, locals,
      process
<1>5. CASE BeginRouterCopy \/ FinishRouterCopy \/ CreateConfigTmp
  BY <1>5
  DEF BeginRouterCopy, LoopDone, FinishRouterCopy, CreateConfigTmp, disk,
      locals, process
<1>6. CASE FlushConfigTmp
  <2>1. configTmp'.services = LoadedIds(loaded)
    BY <1>6 DEF FlushConfigTmp, RenderConfig, TempState
  <2>. QED  BY <1>6, <2>1 DEF FlushConfigTmp, disk, process
<1>7. CASE RenameConfig
  BY <1>7 DEF RenameConfig, process
<1>8. CASE StopWorkerd \/ SpawnWorkerd
  BY <1>8 DEF StopWorkerd, SpawnWorkerd, disk, locals
<1>9. CASE WorkerdExits
  BY <1>9 DEF WorkerdExits, disk, locals
<1>10. CASE WorkerdLoads
  <2>1. /\ UNCHANGED <<config, configTmp, pc, loaded, state>>
        /\ workerd = "starting" /\ served = NoProcess
    BY <1>10 DEF WorkerdLoads, disk, locals
  <2>2. CASE ConfigLoads
    <3>1. /\ workerd' = "serving"
          /\ DOMAIN served'.scripts = config.services
      BY <1>10, <2>2 DEF WorkerdLoads
    <3>. QED  BY <2>1, <3>1
  <2>3. CASE ~ConfigLoads
    BY <1>10, <2>1, <2>3 DEF WorkerdLoads
  <2>. QED  BY <2>2, <2>3
<1>11. CASE Crash
  BY <1>11 DEF Crash, disk
<1>12. CASE ReadFails \/ RouterCopyFails \/ WriteConfigFails \/ SpawnFails
  BY <1>12 DEF ReadFails, RouterCopyFails, LoopDone, WriteConfigFails,
               SpawnFails, EndPass, disk, process
<1>13. CASE Publish
  BY <1>13 DEF Publish, EndPass, TempState, disk, process
<1>14. CASE PublishWithoutRestart
  <2>1. LoadedIds(state'.workers) = LoadedIds(state.workers)
    BY <1>14, SameWorkers DEF PublishWithoutRestart, TempState
  <2>. QED
    BY <1>14, <2>1 DEF PublishWithoutRestart, LoopDone, EndPass, disk, process
<1>. QED
  BY <1>1, <1>2, <1>3, <1>4, <1>5, <1>6, <1>7, <1>8, <1>9, <1>10, <1>11,
     <1>12, <1>13, <1>14
  DEF Next, SupervisorStep, FaultStep

LEMMA AgreeInvariance ==
    ASSUME GenerationsNameAssignments, DistinctIds, NoScriptLeftBehind
    PROVE  Spec => []AgreeInv
<1>1. Init => KeptInv
  BY DEF Init, KeptInv, InPass, AfterLoop
<1>2. Init => DownloadInv /\ LoopInv
  BY DEF Init, DownloadInv, LoopInv, InPass
<1>3. Init => PublishedInv /\ BoundInv /\ LoadedIsBound
  BY DEF Init, PublishedInv, BoundInv, LoadedIsBound
<1>4. Init => AgreeInv
  BY <1>1, <1>2, <1>3, InitIInv DEF AgreeInv
<1>5. AgreeInv /\ [Next]_vars => AgreeInv'
  BY NextIInv, KeptInvNext, DownloadInvNext, LoopInvNext, PublishedInvNext,
     BoundInvNext
  DEF AgreeInv
<1>. QED  BY <1>4, <1>5, PTL DEF Spec

\* Between the passes the manifest API reports exactly the workers bound in
\* the running workerd, if a generation names one assignment, no assignment
\* lists a worker twice, and no pass can fail between the download of a script
\* and the stop of workerd.
THEOREM ReportedWorkersAreBound ==
    ASSUME GenerationsNameAssignments, DistinctIds, NoScriptLeftBehind
    PROVE  Spec => []LoadedIsBound
<1>1. AgreeInv => LoadedIsBound
  BY DEF AgreeInv
<1>. QED  BY <1>1, AgreeInvariance, PTL

-----------------------------------------------------------------------------
(* Route changes do not stop workerd. *)

\* The loop records every spec it has passed.
EntryInv ==
    InPass => \A i \in DOMAIN desired.workers :
        i < position =>
            loaded[desired.workers[i].id] = LoadedEntry(desired.workers[i])

\* A pass on its way to a restart of a running workerd has a reason that lies
\* in the workers.
ReasonInv ==
    AfterLoop /\ workerd # "none" /\ pc # "publish" =>
        anyDownloaded \/ WorkerGraphChanged(state, desired)

LEMMA EntryInvNext ==
    ASSUME IInv, KeptInv, DownloadInv, EntryInv, DistinctIds, DownloadsSucceed,
           [Next]_vars
    PROVE  EntryInv'
<1>1. CASE WorkerdLoads \/ WorkerdExits \/ WorldStep \/ UNCHANGED vars
  BY <1>1, OutsideSteps DEF EntryInv, InPass, locals
<1>2. CASE \/ ReadFails \/ PublishWithoutRestart \/ RouterCopyFails
           \/ WriteConfigFails \/ SpawnFails \/ Publish \/ Crash
  BY <1>2, EndingSteps DEF EntryInv, InPass
<1>3. CASE \/ BeginRouterCopy \/ FinishRouterCopy \/ CreateConfigTmp
           \/ FlushConfigTmp \/ RenameConfig \/ StopWorkerd \/ SpawnWorkerd
  BY <1>3, RestartSteps DEF EntryInv, InPass
<1>4. CASE KeepWorker \/ InstallScript
  <2>1. /\ Record(Current) /\ InPass /\ UNCHANGED desired
        /\ position' = position + 1
    BY <1>4, AdvanceSteps DEF KeepWorker, InstallScript, Advance
  <2>2. /\ desired \in Assignments /\ position \in Nat
        /\ position \in DOMAIN desired.workers
        /\ DOMAIN desired.workers \subseteq Nat
        /\ Current.id \in Workers
    BY <1>4, AtCurrent, ConstantsAssumption
    DEF IInv, PassInv, InPass, AtWorker, KeepWorker, InstallScript
  <2>3. ASSUME NEW i \in DOMAIN desired.workers, i < position + 1
        PROVE  loaded'[desired.workers[i].id] = LoadedEntry(desired.workers[i])
    <3>1. CASE i = position
      BY <2>1, <2>2, <3>1 DEF Record, Current, IInv, TypeOK, LoadedWorkers
    <3>2. CASE i # position
      <4>1. i < position
        BY <2>2, <2>3, <3>2
      <4>2. desired.workers[i].id # Current.id
        BY <2>2, <3>2 DEF DistinctIds, Current
      <4>3. desired.workers[i].id \in Workers
        BY <2>2, ConstantsAssumption DEF WorkerSpec
      <4>. QED
        BY <2>1, <4>1, <4>2, <4>3
        DEF EntryInv, Record, IInv, TypeOK, LoadedWorkers
    <3>. QED  BY <3>1, <3>2
  <2>. QED  BY <2>1, <2>3 DEF EntryInv, LoadedEntry, ResolvedDate
<1>5. CASE GetObjectFails \/ DownloadBreaksOff \/ RejectScript
  BY <1>5, NoDownloadFails
<1>6. CASE Tick
  BY <1>6 DEF Tick, EntryInv, InPass, locals, KeptInv
<1>7. CASE ReadAssignment
  <2>1. position' = 1 /\ file \in Assignments /\ desired' = file
    BY <1>7 DEF ReadAssignment, KeptInv, InPass, IInv, TypeOK
  <2>2. \A i \in DOMAIN file.workers : ~(i < 1)
    BY <2>1, ConstantsAssumption
  <2>. QED  BY <2>1, <2>2 DEF EntryInv
<1>8. CASE GetObject \/ ReceiveBody
  BY <1>8 DEF GetObject, AtWorker, ReceiveBody, EntryInv, InPass
<1>. QED
  BY <1>1, <1>2, <1>3, <1>4, <1>5, <1>6, <1>7, <1>8
  DEF Next, SupervisorStep, FaultStep

LEMMA ReasonInvNext ==
    ASSUME IInv, ReasonInv, [Next]_vars PROVE ReasonInv'
<1> USE DEF ReasonInv, AfterLoop
<1>1. CASE WorkerdLoads \/ WorkerdExits \/ WorldStep \/ UNCHANGED vars
  <2>1. workerd = "none" => workerd' = "none"
    BY <1>1 DEF WorkerdLoads, WorkerdExits, WorldStep, EditAssignment,
                UploadObject, Settle, vars, process
  <2>2. UNCHANGED <<pc, anyDownloaded, state, desired>>
    BY <1>1, OutsideSteps DEF locals
  <2>. QED  BY <2>1, <2>2
<1>2. CASE \/ ReadFails \/ PublishWithoutRestart \/ RouterCopyFails
           \/ WriteConfigFails \/ SpawnFails \/ Publish \/ Crash
  BY <1>2, EndingSteps
<1>3. CASE BeginRouterCopy
  BY <1>3 DEF BeginRouterCopy, NeedRestart, locals, process
<1>4. CASE FinishRouterCopy \/ CreateConfigTmp \/ FlushConfigTmp \/ RenameConfig
  BY <1>4 DEF FinishRouterCopy, CreateConfigTmp, FlushConfigTmp, RenameConfig,
              locals, process
<1>5. CASE StopWorkerd \/ SpawnWorkerd
  BY <1>5 DEF StopWorkerd, SpawnWorkerd
<1>6. CASE \/ KeepWorker \/ InstallScript
           \/ GetObjectFails \/ DownloadBreaksOff \/ RejectScript
  BY <1>6, AdvanceSteps DEF Advance
<1>7. CASE Tick \/ ReadAssignment \/ GetObject \/ ReceiveBody
  BY <1>7 DEF Tick, ReadAssignment, GetObject, ReceiveBody
<1>. QED
  BY <1>1, <1>2, <1>3, <1>4, <1>5, <1>6, <1>7
  DEF Next, SupervisorStep, FaultStep

RouteInv == IInv /\ KeptInv /\ DownloadInv /\ LoopInv /\ EntryInv /\ ReasonInv

\* At the stop of a running workerd the pass has all specs recorded: had it
\* recorded what the state holds, no spec would have differed from it.
LEMMA StoppedForWorkers ==
    ASSUME RouteInv, DistinctIds, DownloadsSucceed, DatesGiven
    PROVE  RoutesChangeWithoutRestart
<1> SUFFICES ASSUME pc = "stop", workerd = "serving", ~anyDownloaded,
                    loaded = state.workers
             PROVE  FALSE
  BY DEF RoutesChangeWithoutRestart
<1>1. WorkerGraphChanged(state, desired)
  BY DEF RouteInv, ReasonInv, AfterLoop
<1>2. /\ InPass /\ desired \in Assignments /\ position \in Nat
      /\ position > Len(desired.workers)
  BY DEF RouteInv, IInv, PassInv, InPass, KeptInv, AfterLoop
<1>3. ASSUME NEW i \in DOMAIN desired.workers
      PROVE  loaded[desired.workers[i].id] = LoadedEntry(desired.workers[i])
  <2>1. i < position
    BY <1>2, ConstantsAssumption
  <2>. QED  BY <1>2, <2>1 DEF RouteInv, EntryInv
<1>4. LoadedIds(loaded) = AssignedIds(desired)
  <2>1. ASSUME NEW i \in DOMAIN desired.workers
        PROVE  desired.workers[i].id \in LoadedIds(loaded)
    <3>1. desired.workers[i] \in WorkerSpec
      BY <1>2, ConstantsAssumption
    <3>2. LoadedEntry(desired.workers[i]) # NotLoaded
      BY <3>1, LoadedEntryType, MarkersAssumption
    <3>. QED  BY <1>3, <3>1, <3>2 DEF LoadedIds, WorkerSpec
  <2>2. LoadedIds(loaded) \subseteq AssignedIds(desired)
    BY <1>2 DEF RouteInv, LoopInv
  <2>. QED  BY <2>1, <2>2 DEF AssignedIds
<1>5. Cardinality(LoadedIds(state.workers)) = Len(desired.workers)
  BY <1>2, <1>4, AssignedCount
<1>6. PICK i \in DOMAIN desired.workers : SpecChanged(state, desired.workers[i])
  BY <1>1, <1>5 DEF WorkerGraphChanged
<1>7. state.workers[desired.workers[i].id] = LoadedEntry(desired.workers[i])
  BY <1>3
<1>8. desired.workers[i].compat # NoDate
  BY <1>2 DEF DatesGiven
<1>9. LoadedEntry(desired.workers[i]) # NotLoaded
  BY <1>2, ConstantsAssumption, LoadedEntryType, MarkersAssumption
<1>. QED
  BY <1>6, <1>7, <1>8, <1>9
  DEF SpecChanged, NeedDownload, LoadedEntry, ResolvedDate

\* A pass stops a running workerd only if it has installed a script or loads
\* other workers than before, if no assignment lists a worker twice, no
\* spec has an empty compatibility date and downloads succeed.
THEOREM RouteChangesDoNotRestart ==
    ASSUME DistinctIds, DownloadsSucceed, DatesGiven
    PROVE  Spec => []RoutesChangeWithoutRestart
<1>1. Init => RouteInv
  <2>1. Init => KeptInv /\ DownloadInv /\ LoopInv
    BY DEF Init, KeptInv, DownloadInv, LoopInv, InPass, AfterLoop
  <2>2. Init => EntryInv /\ ReasonInv
    BY DEF Init, EntryInv, ReasonInv, InPass, AfterLoop
  <2>. QED  BY <2>1, <2>2, InitIInv DEF RouteInv
<1>2. RouteInv /\ [Next]_vars => RouteInv'
  BY NextIInv, KeptInvNext, DownloadInvNext, LoopInvNext, EntryInvNext,
     ReasonInvNext
  DEF RouteInv
<1>3. RouteInv => RoutesChangeWithoutRestart
  BY StoppedForWorkers
<1>. QED  BY <1>1, <1>2, <1>3, PTL DEF Spec

-----------------------------------------------------------------------------
(* What is reported is what is served. *)

\* The newest assignment the node knows of.
Latest == IF InPass THEN desired ELSE file

\* Script c was given to worker w by an assignment from a on.
GivenSince(age, a, w, c) ==
    \E b \in Assignments :
        age[a] <= age[b] /\ age[b] <= age[Latest] /\ Gives(b, w, c)

\* The state is that of assignment a; the scripts on disk and those embedded
\* in workerd are the ones of a or of later assignments.
ServedSince(age, a) ==
    /\ state.gen = a.gen
    /\ age[a] <= age[Latest]
    /\ \A w \in LoadedIds(state.workers) :
          /\ Gives(a, w, state.workers[w].sha)
          /\ GivenSince(age, a, w, scripts[w])
          /\ served # NoProcess /\ pc \notin {"stop", "publish"} =>
                GivenSince(age, a, w, served.scripts[w])

AgeInv(age) ==
    /\ InPass => age[desired] <= age[file]
    /\ LoadedIds(state.workers) # {} => \E a \in Assignments : ServedSince(age, a)
    /\ InPass => \A i \in DOMAIN desired.workers :
          i < position => scripts[desired.workers[i].id] = desired.workers[i].sha
    /\ pc = "publish" /\ served # NoProcess =>
          \A w \in DOMAIN served.scripts : Gives(desired, w, served.scripts[w])

ReportInv(age) == AgreeInv /\ EntryInv /\ AgeInv(age)

\* What a script of the order gives, and its consequences.
LEMMA GivenContents ==
    ASSUME NEW a \in Assignments, NEW w, NEW c, Gives(a, w, c)
    PROVE  w \in Workers /\ c \in Contents /\ w \in AssignedIds(a)
BY ConstantsAssumption DEF Gives, WorkerSpec, AssignedIds

\* A script that a worker has been given since assignment a, and that a and
\* the newest assignment agree about, is the one they give it.
LEMMA NothingBetween ==
    ASSUME NEW age, OnlyForward(age), Latest \in Assignments,
           NEW a \in Assignments, NEW w, NEW x, NEW y,
           Gives(a, w, x), Gives(Latest, w, x), GivenSince(age, a, w, y)
    PROVE  x = y
<1>1. PICK b \in Assignments :
          age[a] <= age[b] /\ age[b] <= age[Latest] /\ Gives(b, w, y)
  BY DEF GivenSince
<1>2. w \in Workers /\ x \in Contents /\ y \in Contents
  BY <1>1, GivenContents
<1>. QED  BY <1>1, <1>2 DEF OnlyForward

\* The newest assignment is one, and a step only ever moves it forward.
LEMMA LatestForward ==
    ASSUME NEW age, OnlyForward(age), IInv, AgeInv(age), [Next]_vars
    PROVE  /\ Latest \in Assignments /\ Latest' \in Assignments
           /\ age[Latest] <= age[Latest']
           /\ InPass' => age[desired'] <= age[file']
<1>1. file \in Assignments /\ file' \in Assignments
  BY NextIInv DEF IInv, TypeOK
<1>2. (InPass => desired \in Assignments) /\ (InPass' => desired' \in Assignments)
  BY NextIInv DEF IInv, PassInv
<1>3. age[file] <= age[file'] /\ (InPass => age[desired] <= age[file])
  <2>1. age[file] \in Nat
    BY <1>1 DEF OnlyForward
  <2>2. CASE EditAssignment
    <3>1. <<file, file'>> \in Edits
      BY <2>2 DEF EditAssignment
    <3>2. \A e \in Edits : e[1] = e[2] \/ age[e[1]] < age[e[2]]
      BY DEF OnlyForward
    <3>3. file = file' \/ age[file] < age[file']
      BY <3>1, <3>2
    <3>. QED  BY <1>1, <2>1, <3>3 DEF AgeInv, OnlyForward
  <2>3. CASE UNCHANGED file
    BY <2>1, <2>3 DEF AgeInv
  <2>4. EditAssignment \/ UNCHANGED file
    BY DEF Next, SupervisorStep, FaultStep, WorldStep, Tick, ReadAssignment,
           KeepWorker, GetObject, GetObjectFails, DownloadBreaksOff,
           RejectScript, DownloadFailed, ReceiveBody, InstallScript,
           PublishWithoutRestart, BeginRouterCopy,
           FinishRouterCopy, CreateConfigTmp, FlushConfigTmp, RenameConfig,
           StopWorkerd, SpawnWorkerd, Publish, ReadFails, RouterCopyFails,
           WriteConfigFails, SpawnFails, WorkerdExits, Crash, WorkerdLoads,
           UploadObject, Settle, vars, environment
  <2>. QED  BY <2>2, <2>3, <2>4
<1>4. \/ InPass' /\ InPass /\ desired' = desired
      \/ InPass' /\ ~InPass /\ desired' = file
      \/ ~InPass'
  BY DEF Next, SupervisorStep, FaultStep, WorldStep, Tick, ReadAssignment,
         KeepWorker, GetObject, GetObjectFails, DownloadBreaksOff, RejectScript,
         DownloadFailed, ReceiveBody, InstallScript, PublishWithoutRestart,
         BeginRouterCopy, FinishRouterCopy, CreateConfigTmp, FlushConfigTmp,
         RenameConfig, StopWorkerd, SpawnWorkerd, Publish, ReadFails,
         RouterCopyFails, WriteConfigFails, SpawnFails, WorkerdExits, Crash,
         WorkerdLoads, EditAssignment, UploadObject, Settle, vars, locals,
         EndPass, AtWorker, Advance, InPass, LoopDone
<1>. QED  BY <1>1, <1>2, <1>3, <1>4 DEF Latest, OnlyForward

\* What was given since a is still given since a after a step.
LEMMA StillGiven ==
    ASSUME NEW age, OnlyForward(age), IInv, AgeInv(age), [Next]_vars,
           NEW a \in Assignments, NEW w, NEW c, GivenSince(age, a, w, c)
    PROVE  \E b \in Assignments :
              age[a] <= age[b] /\ age[b] <= age[Latest'] /\ Gives(b, w, c)
<1>1. PICK b \in Assignments :
          age[a] <= age[b] /\ age[b] <= age[Latest] /\ Gives(b, w, c)
  BY DEF GivenSince
<1>2. /\ Latest \in Assignments /\ Latest' \in Assignments
      /\ age[Latest] <= age[Latest']
  BY LatestForward
<1>3. age[b] <= age[Latest']
  BY <1>1, <1>2 DEF OnlyForward
<1>. QED  BY <1>1, <1>3

\* A step that changes neither state, scripts nor workerd, and does not start
\* to speak of a workerd it did not speak of before.
LEMMA StateKeeps ==
    ASSUME NEW age, OnlyForward(age), IInv, AgeInv(age), [Next]_vars,
           UNCHANGED <<state, scripts>>,
           \/ served' = NoProcess
           \/ pc' \in {"stop", "publish"}
           \/ pc \notin {"stop", "publish"} /\ UNCHANGED served
    PROVE  LoadedIds(state'.workers) # {} =>
              \E a \in Assignments : ServedSince(age, a)'
<1> SUFFICES ASSUME LoadedIds(state.workers) # {}
             PROVE  \E a \in Assignments : ServedSince(age, a)'
  BY DEF LoadedIds
<1>1. PICK a \in Assignments : ServedSince(age, a)
  BY DEF AgeInv
<1>2. /\ Latest \in Assignments /\ Latest' \in Assignments
      /\ age[Latest] <= age[Latest']
  BY LatestForward
<1>3. age[a] <= age[Latest']
  BY <1>1, <1>2 DEF ServedSince, OnlyForward
<1>4. \A w \in LoadedIds(state.workers) :
          GivenSince(age, a, w, scripts[w])'
  <2>1. \A w \in LoadedIds(state.workers) : GivenSince(age, a, w, scripts[w])
    BY <1>1 DEF ServedSince
  <2>. QED  BY <2>1, StillGiven DEF GivenSince
<1>5. served' # NoProcess /\ pc' \notin {"stop", "publish"} =>
        \A w \in LoadedIds(state.workers) :
            GivenSince(age, a, w, served.scripts[w])'
  <2>1. served # NoProcess /\ pc \notin {"stop", "publish"} =>
          \A w \in LoadedIds(state.workers) :
              GivenSince(age, a, w, served.scripts[w])
    BY <1>1 DEF ServedSince
  <2>. QED  BY <2>1, StillGiven DEF GivenSince
<1>6. ServedSince(age, a)'
  BY <1>1, <1>3, <1>4, <1>5 DEF ServedSince
<1>. QED  BY <1>6

\* After the loop every loaded worker is one of the assignment, recorded with
\* its digest, and has that script on disk.
LEMMA LoopResult ==
    ASSUME NEW age, ReportInv(age), InPass, position > Len(desired.workers)
    PROVE  /\ desired \in Assignments
           /\ \A w \in LoadedIds(loaded) :
                 Gives(desired, w, scripts[w]) /\ loaded[w].sha = scripts[w]
<1>1. desired \in Assignments /\ position \in Nat
  BY DEF ReportInv, AgreeInv, IInv, PassInv
<1>2. ASSUME NEW w \in LoadedIds(loaded)
      PROVE  Gives(desired, w, scripts[w]) /\ loaded[w].sha = scripts[w]
  <2>1. PICK i \in DOMAIN desired.workers : desired.workers[i].id = w
    BY DEF ReportInv, AgreeInv, LoopInv, AssignedIds
  <2>2. i < position
    BY <1>1, <2>1, ConstantsAssumption
  <2>3. scripts[w] = desired.workers[i].sha
    BY <2>1, <2>2 DEF ReportInv, AgeInv
  <2>4. loaded[w] = LoadedEntry(desired.workers[i])
    BY <2>1, <2>2 DEF ReportInv, EntryInv
  <2>. QED  BY <2>1, <2>3, <2>4 DEF Gives, LoadedEntry
<1>. QED  BY <1>1, <1>2

\* A pass that only publishes leaves a workerd running that serves what the
\* newest assignment gives.
LEMMA ServedStaysGiven ==
    ASSUME NEW age, OnlyForward(age), ReportInv(age), PublishWithoutRestart,
           GenerationsNameAssignments, DistinctIds, served # NoProcess,
           NEW w \in LoadedIds(loaded)
    PROVE  Gives(desired, w, served.scripts[w])
<1>1. /\ InPass /\ desired \in Assignments /\ position \in Nat
      /\ pc = "next" /\ position > Len(desired.workers) /\ Latest = desired
      /\ ~WorkerGraphChanged(state, desired)
  BY DEF PublishWithoutRestart, LoopDone, NeedRestart, InPass, Latest,
         ReportInv, AgreeInv, IInv, PassInv
<1>2. w \in LoadedIds(state.workers)
  BY SameWorkers DEF ReportInv, AgreeInv
<1>3. PICK a \in Assignments : ServedSince(age, a)
  BY <1>2 DEF ReportInv, AgeInv
<1>4. /\ Gives(a, w, state.workers[w].sha)
      /\ GivenSince(age, a, w, served.scripts[w])
  BY <1>1, <1>2, <1>3 DEF ServedSince
<1>5. Gives(desired, w, state.workers[w].sha)
  <2>1. CASE state.gen = desired.gen
    BY <1>1, <1>3, <1>4, <2>1 DEF ServedSince, GenerationsNameAssignments
  <2>2. CASE state.gen # desired.gen
    <3>1. PICK i \in DOMAIN desired.workers : desired.workers[i].id = w
      BY <1>1 DEF ReportInv, AgreeInv, LoopInv, AssignedIds
    <3>2. ~SpecChanged(state, desired.workers[i])
      BY <1>1, <2>2 DEF WorkerGraphChanged
    <3>. QED
      BY <1>2, <3>1, <3>2 DEF SpecChanged, NeedDownload, LoadedIds, Gives
  <2>. QED  BY <2>1, <2>2
<1>6. state.workers[w].sha = served.scripts[w]
  BY <1>1, <1>3, <1>4, <1>5, NothingBetween
<1>. QED  BY <1>5, <1>6

LEMMA PublishedScripts ==
    ASSUME NEW age, OnlyForward(age), ReportInv(age), [Next]_vars,
           PublishWithoutRestart \/ Publish,
           GenerationsNameAssignments, DistinctIds
    PROVE  \E a \in Assignments : ServedSince(age, a)'
<1>1. /\ InPass /\ position > Len(desired.workers) /\ state' = TempState
      /\ pc' = "sleep" /\ UNCHANGED <<scripts, served, file>>
  BY DEF PublishWithoutRestart, Publish, LoopDone, InPass, ReportInv, AgreeInv,
         KeptInv, AfterLoop, EndPass, disk, environment, process
<1>2. /\ desired \in Assignments
      /\ \A w \in LoadedIds(loaded) :
            Gives(desired, w, scripts[w]) /\ loaded[w].sha = scripts[w]
  BY <1>1, LoopResult
<1>3. PICK a \in Assignments : a = desired
  BY <1>2
<1>4. Latest = desired /\ Latest' \in Assignments /\ age[desired] <= age[Latest']
  BY <1>1, LatestForward DEF Latest, ReportInv, AgreeInv
<1>5. age[a] \in Nat /\ age[a] <= age[a]
  BY DEF OnlyForward
<1>6. \A w \in LoadedIds(loaded) : GivenSince(age, a, w, scripts[w])'
  BY <1>1, <1>2, <1>3, <1>4, <1>5 DEF GivenSince
<1>7. ASSUME served # NoProcess, NEW w \in LoadedIds(loaded)
      PROVE  GivenSince(age, a, w, served.scripts[w])'
  <2>1. Gives(desired, w, served.scripts[w])
    <3>1. CASE PublishWithoutRestart
      BY <1>7, <3>1, ServedStaysGiven
    <3>2. CASE Publish
      <4>1. w \in DOMAIN served.scripts
        BY <1>7, <3>2 DEF Publish, ReportInv, AgreeInv, BoundInv
      <4>. QED  BY <1>7, <3>2, <4>1 DEF Publish, ReportInv, AgeInv
    <3>. QED  BY <3>1, <3>2
  <2>. QED  BY <1>1, <1>3, <1>4, <1>5, <2>1 DEF GivenSince
<1>8. state'.gen = a.gen /\ state'.workers = loaded
  BY <1>1, <1>3 DEF TempState
<1>9. \A w \in LoadedIds(loaded) : Gives(a, w, loaded[w].sha)
  BY <1>2, <1>3
<1>10. ServedSince(age, a)'
  BY <1>1, <1>3, <1>4, <1>6, <1>7, <1>8, <1>9 DEF ServedSince
<1>. QED  BY <1>10

\* A download puts a script of the newest assignment on disk.
LEMMA InstalledScripts ==
    ASSUME NEW age, OnlyForward(age), ReportInv(age), [Next]_vars,
           InstallScript, LoadedIds(state.workers) # {}
    PROVE  \E a \in Assignments : ServedSince(age, a)'
<1>1. /\ InPass /\ InPass' /\ UNCHANGED <<desired, state, served>>
      /\ pc \notin {"stop", "publish"}
      /\ scripts' = [scripts EXCEPT ![Current.id] = tmp]
      /\ tmp = Current.sha
  BY DEF InstallScript, Advance, InPass, process, ReportInv, AgreeInv, IInv,
         PassInv, DigestMatches
<1>2. /\ desired \in Assignments /\ position \in DOMAIN desired.workers
  BY AtCurrent, ConstantsAssumption
  DEF InstallScript, ReportInv, AgreeInv, IInv, PassInv, InPass
<1>3. Latest = desired /\ Latest' = desired
  BY <1>1 DEF Latest
<1>4. Gives(desired, Current.id, Current.sha)
  BY <1>2 DEF Gives, Current
<1>5. PICK a \in Assignments : ServedSince(age, a)
  BY DEF ReportInv, AgeInv
<1>6. age[a] <= age[desired] /\ age[desired] <= age[desired]
  BY <1>2, <1>3, <1>5 DEF ServedSince, OnlyForward
<1>7. ASSUME NEW w \in LoadedIds(state.workers)
      PROVE  GivenSince(age, a, w, scripts[w])'
  <2>1. GivenSince(age, a, w, scripts[w])
    BY <1>5 DEF ServedSince
  <2>2. CASE w = Current.id
    <3>1. scripts'[w] = Current.sha
      BY <1>1, <2>2 DEF ReportInv, AgreeInv, IInv, TypeOK, LoadedIds
    <3>. QED  BY <1>2, <1>3, <1>4, <1>6, <2>2, <3>1 DEF GivenSince
  <2>3. CASE w # Current.id
    <3>1. scripts'[w] = scripts[w]
      BY <1>1, <2>3 DEF ReportInv, AgreeInv, IInv, TypeOK, LoadedIds
    <3>. QED  BY <1>3, <2>1, <3>1 DEF GivenSince
  <2>. QED  BY <2>2, <2>3
<1>8. served # NoProcess =>
        \A w \in LoadedIds(state.workers) :
            GivenSince(age, a, w, served.scripts[w])'
  BY <1>1, <1>3, <1>5 DEF ServedSince, GivenSince
<1>9. ServedSince(age, a)'
  BY <1>1, <1>3, <1>5, <1>7, <1>8 DEF ServedSince
<1>. QED  BY <1>9

\* workerd embeds the scripts that are on disk.
LEMMA EmbeddedScripts ==
    ASSUME NEW age, OnlyForward(age), ReportInv(age), [Next]_vars,
           WorkerdLoads, ConfigLoads, LoadedIds(state.workers) # {}
    PROVE  \E a \in Assignments : ServedSince(age, a)'
<1>1. /\ UNCHANGED <<state, scripts, file, desired, pc>>
      /\ workerd = "starting"
      /\ served'.scripts = [w \in config.services |-> scripts[w]]
  BY DEF WorkerdLoads, locals, disk, environment
<1>2. Latest' = Latest
  BY <1>1 DEF Latest, InPass
<1>3. PICK a \in Assignments : ServedSince(age, a)
  BY DEF ReportInv, AgeInv
<1>4. pc \notin {"stop", "publish"} =>
        \A w \in LoadedIds(state.workers) : served'.scripts[w] = scripts[w]
  BY <1>1 DEF ReportInv, AgreeInv, BoundInv
<1>5. \A w \in LoadedIds(state.workers) : GivenSince(age, a, w, scripts[w])
  BY <1>3 DEF ServedSince
<1>6. ServedSince(age, a)'
  BY <1>1, <1>2, <1>3, <1>4, <1>5 DEF ServedSince, GivenSince
<1>. QED  BY <1>6

LEMMA ServedSinceNext ==
    ASSUME NEW age, OnlyForward(age), ReportInv(age), [Next]_vars,
           GenerationsNameAssignments, DistinctIds
    PROVE  LoadedIds(state'.workers) # {} =>
              \E a \in Assignments : ServedSince(age, a)'
<1>. USE DEF ReportInv, AgreeInv
<1>1. CASE PublishWithoutRestart \/ Publish
  BY <1>1, PublishedScripts
<1>2. CASE InstallScript
  BY <1>2, InstalledScripts DEF InstallScript
<1>3. CASE WorkerdLoads
  <2>1. CASE ConfigLoads
    BY <1>3, <2>1, EmbeddedScripts DEF WorkerdLoads
  <2>2. CASE ~ConfigLoads
    <3>1. served' = NoProcess /\ UNCHANGED <<state, scripts>>
      BY <1>3, <2>2 DEF WorkerdLoads, BoundInv, disk
    <3>. QED  BY <3>1, StateKeeps
  <2>. QED  BY <2>1, <2>2
<1>4. CASE Crash
  BY <1>4 DEF Crash, DefaultState, NothingLoaded, LoadedIds
<1>5. CASE StopWorkerd \/ SpawnFails \/ WorkerdExits
  <2>1. served' = NoProcess /\ UNCHANGED <<state, scripts>>
    BY <1>5 DEF StopWorkerd, SpawnFails, WorkerdExits, BoundInv, disk, process
  <2>. QED  BY <2>1, StateKeeps
<1>6. CASE RenameConfig \/ SpawnWorkerd
  <2>1. pc' \in {"stop", "publish"} /\ UNCHANGED <<state, scripts>>
    BY <1>6 DEF RenameConfig, SpawnWorkerd, disk
  <2>. QED  BY <2>1, StateKeeps
<1>7. CASE WorldStep \/ UNCHANGED vars
  <2>1. UNCHANGED <<pc, served, state, scripts>>
    BY <1>7 DEF WorldStep, EditAssignment, UploadObject, Settle, vars, disk,
                process
  <2>. QED  BY <2>1, StateKeeps
<1>8. CASE \/ KeepWorker \/ GetObjectFails \/ DownloadBreaksOff \/ RejectScript
  <2>1. /\ UNCHANGED <<state, scripts, served>>
        /\ pc \notin {"stop", "publish"}
    BY <1>8, AdvanceSteps
    DEF process, AtWorker, KeepWorker, GetObjectFails, DownloadBreaksOff,
        RejectScript, DownloadFailed, disk
  <2>. QED  BY <2>1, StateKeeps
<1>9. CASE \/ Tick \/ ReadAssignment \/ GetObject \/ ReceiveBody
           \/ BeginRouterCopy \/ FinishRouterCopy \/ CreateConfigTmp
           \/ FlushConfigTmp \/ ReadFails \/ RouterCopyFails
           \/ WriteConfigFails
  <2>1. /\ UNCHANGED <<state, scripts, served>>
        /\ pc \notin {"stop", "publish"}
    BY <1>9 DEF Tick, ReadAssignment, GetObject, AtWorker, ReceiveBody,
                BeginRouterCopy, LoopDone, FinishRouterCopy, CreateConfigTmp,
                FlushConfigTmp, ReadFails, RouterCopyFails, WriteConfigFails,
                disk, process
  <2>. QED  BY <2>1, StateKeeps
<1>. QED
  BY <1>1, <1>2, <1>3, <1>4, <1>5, <1>6, <1>7, <1>8, <1>9
  DEF Next, SupervisorStep, FaultStep

\* A worker that is kept has on disk the script of the assignment: no other
\* one was given to it since the one the state holds.
LEMMA KeptScript ==
    ASSUME NEW age, OnlyForward(age), ReportInv(age), KeepWorker
    PROVE  scripts[Current.id] = Current.sha
<1>1. /\ InPass /\ desired \in Assignments /\ position \in DOMAIN desired.workers
      /\ Current.id \in Workers /\ Latest = desired
  BY AtCurrent, ConstantsAssumption
  DEF KeepWorker, AtWorker, ReportInv, AgreeInv, IInv, PassInv, InPass, Latest
<1>2. state.workers[Current.id] # NotLoaded
      /\ state.workers[Current.id].sha = Current.sha
  BY DEF KeepWorker, NeedDownload
<1>3. Current.id \in LoadedIds(state.workers)
  BY <1>1, <1>2 DEF LoadedIds
<1>4. PICK a \in Assignments : ServedSince(age, a)
  BY <1>3 DEF ReportInv, AgeInv
<1>5. /\ Gives(a, Current.id, Current.sha)
      /\ GivenSince(age, a, Current.id, scripts[Current.id])
  BY <1>2, <1>3, <1>4 DEF ServedSince
<1>6. Gives(Latest, Current.id, Current.sha)
  BY <1>1 DEF Gives, Current
<1>. QED  BY <1>1, <1>4, <1>5, <1>6, NothingBetween

LoopScripts ==
    InPass => \A i \in DOMAIN desired.workers :
        i < position => scripts[desired.workers[i].id] = desired.workers[i].sha

LEMMA LoopScriptsNext ==
    ASSUME NEW age, OnlyForward(age), ReportInv(age), [Next]_vars,
           DistinctIds, DownloadsSucceed
    PROVE  LoopScripts'
<1>. USE DEF ReportInv, AgreeInv
<1>0. LoopScripts
  BY DEF LoopScripts, AgeInv
<1>1. CASE WorkerdLoads \/ WorkerdExits \/ WorldStep \/ UNCHANGED vars
  BY <1>0, <1>1, OutsideSteps DEF LoopScripts, InPass, locals, disk
<1>2. CASE \/ ReadFails \/ PublishWithoutRestart \/ RouterCopyFails
           \/ WriteConfigFails \/ SpawnFails \/ Publish \/ Crash
  BY <1>2, EndingSteps DEF LoopScripts, InPass
<1>3. CASE \/ BeginRouterCopy \/ FinishRouterCopy \/ CreateConfigTmp
           \/ FlushConfigTmp \/ RenameConfig \/ StopWorkerd \/ SpawnWorkerd
  BY <1>0, <1>3, RestartSteps DEF LoopScripts, InPass
<1>4. CASE KeepWorker \/ InstallScript
  <2>1. /\ InPass /\ UNCHANGED desired /\ position' = position + 1
        /\ desired \in Assignments /\ position \in Nat
        /\ position \in DOMAIN desired.workers
        /\ DOMAIN desired.workers \subseteq Nat /\ Current.id \in Workers
    BY <1>4, AdvanceSteps, AtCurrent, ConstantsAssumption
    DEF IInv, PassInv, InPass, AtWorker, KeepWorker, InstallScript, Advance
  <2>2. /\ scripts'[Current.id] = Current.sha
        /\ \A w \in Workers : w # Current.id => scripts'[w] = scripts[w]
    <3>1. CASE KeepWorker
      BY <3>1, KeptScript DEF KeepWorker, disk
    <3>2. CASE InstallScript
      BY <2>1, <3>2 DEF InstallScript, IInv, TypeOK, PassInv, DigestMatches
    <3>. QED  BY <1>4, <3>1, <3>2
  <2>3. ASSUME NEW i \in DOMAIN desired.workers, i < position + 1
        PROVE  scripts'[desired.workers[i].id] = desired.workers[i].sha
    <3>1. CASE i = position
      BY <2>2, <3>1 DEF Current
    <3>2. CASE i # position
      <4>1. i < position
        BY <2>1, <2>3, <3>2
      <4>2. desired.workers[i].id # Current.id
        BY <2>1, <3>2 DEF DistinctIds, Current
      <4>3. desired.workers[i].id \in Workers
        BY <2>1, ConstantsAssumption DEF WorkerSpec
      <4>. QED  BY <1>0, <2>1, <2>2, <4>1, <4>2, <4>3 DEF LoopScripts
    <3>. QED  BY <3>1, <3>2
  <2>. QED  BY <2>1, <2>3 DEF LoopScripts
<1>5. CASE GetObjectFails \/ DownloadBreaksOff \/ RejectScript
  BY <1>5, NoDownloadFails
<1>6. CASE Tick
  BY <1>6 DEF Tick, LoopScripts, InPass
<1>7. CASE ReadAssignment
  <2>1. position' = 1 /\ file \in Assignments /\ desired' = file
    BY <1>7 DEF ReadAssignment, KeptInv, InPass, IInv, TypeOK
  <2>2. \A i \in DOMAIN file.workers : ~(i < 1)
    BY <2>1, ConstantsAssumption
  <2>. QED  BY <2>1, <2>2 DEF LoopScripts
<1>8. CASE GetObject \/ ReceiveBody
  BY <1>0, <1>8
  DEF GetObject, AtWorker, ReceiveBody, LoopScripts, InPass, disk
<1>. QED
  BY <1>1, <1>2, <1>3, <1>4, <1>5, <1>6, <1>7, <1>8
  DEF Next, SupervisorStep, FaultStep

LEMMA FreshWorkerdNext ==
    ASSUME NEW age, OnlyForward(age), ReportInv(age), [Next]_vars,
           pc' = "publish", served' # NoProcess, NEW w \in DOMAIN served'.scripts
    PROVE  Gives(desired', w, served'.scripts[w])
<1>. USE DEF ReportInv, AgreeInv
<1>1. CASE WorkerdLoads
  <2>1. /\ pc = "publish" /\ UNCHANGED <<desired, loaded, position, scripts>>
        /\ workerd = "starting" /\ served = NoProcess
    BY <1>1 DEF WorkerdLoads, locals, disk, BoundInv
  <2>2. served'.scripts = [v \in config.services |-> scripts[v]]
        /\ config.services = LoadedIds(loaded)
    BY <1>1, <2>1 DEF WorkerdLoads, BoundInv
  <2>3. InPass /\ position > Len(desired.workers)
    BY <2>1 DEF InPass, KeptInv, AfterLoop
  <2>. QED  BY <2>1, <2>2, <2>3, LoopResult
<1>2. CASE WorldStep \/ UNCHANGED vars
  <2>1. UNCHANGED <<pc, desired, served>>
    BY <1>2 DEF WorldStep, EditAssignment, UploadObject, Settle, vars, locals,
                process
  <2>. QED  BY <2>1 DEF AgeInv
<1>3. CASE SpawnWorkerd
  BY <1>3 DEF SpawnWorkerd, BoundInv
<1>4. CASE WorkerdExits
  BY <1>4 DEF WorkerdExits
<1>. QED
  BY <1>1, <1>2, <1>3, <1>4
  DEF Next, SupervisorStep, FaultStep, Tick, ReadAssignment, KeepWorker,
      GetObject, GetObjectFails, DownloadBreaksOff, RejectScript,
      DownloadFailed, ReceiveBody, InstallScript, PublishWithoutRestart,
      BeginRouterCopy, FinishRouterCopy, CreateConfigTmp, FlushConfigTmp,
      RenameConfig, StopWorkerd, Publish, ReadFails, RouterCopyFails,
      WriteConfigFails, SpawnFails, Crash, EndPass, Advance

\* Between the passes the state speaks of the assignment in the file: nothing
\* newer is known, so nothing else can be served.
LEMMA ReportHolds ==
    ASSUME NEW age, OnlyForward(age), ReportInv(age), GenerationsNameAssignments
    PROVE  ReportsWhatIsServed
<1> SUFFICES ASSUME served # NoProcess, pc \in {"sleep", "read"},
                    state.gen = file.gen, NEW w \in DOMAIN served.scripts
             PROVE  state.workers[w] # NotLoaded
                    /\ served.scripts[w] = state.workers[w].sha
  BY DEF ReportsWhatIsServed
<1>1. w \in LoadedIds(state.workers)
  BY DEF ReportInv, AgreeInv, LoadedIsBound
<1>2. PICK a \in Assignments : ServedSince(age, a)
  BY <1>1 DEF ReportInv, AgeInv
<1>3. file \in Assignments /\ Latest = file
  BY DEF ReportInv, AgreeInv, IInv, TypeOK, Latest, InPass
<1>4. a = file
  BY <1>2, <1>3 DEF ServedSince, GenerationsNameAssignments
<1>5. /\ Gives(a, w, state.workers[w].sha)
      /\ GivenSince(age, a, w, served.scripts[w])
  BY <1>1, <1>2 DEF ServedSince
<1>6. state.workers[w].sha = served.scripts[w]
  BY <1>3, <1>4, <1>5, NothingBetween
<1>. QED  BY <1>1, <1>6 DEF LoadedIds

\* Between the passes of a node that has caught up, the manifest API reports
\* exactly the workers that run, each with the digest of the script it runs,
\* if a generation names one assignment, no assignment lists a worker twice,
\* downloads succeed, and no worker is given a replaced script again.
THEOREM ReportsAreServed ==
    ASSUME NEW CONSTANT age, OnlyForward(age), GenerationsNameAssignments,
           DistinctIds, DownloadsSucceed
    PROVE  Spec => []ReportsWhatIsServed
<1>1. Init => ReportInv(age)
  <2>1. Init => KeptInv /\ DownloadInv /\ LoopInv
    BY DEF Init, KeptInv, DownloadInv, LoopInv, InPass, AfterLoop
  <2>2. Init => EntryInv /\ PublishedInv /\ BoundInv /\ LoadedIsBound
    BY DEF Init, EntryInv, InPass, PublishedInv, BoundInv, LoadedIsBound
  <2>3. Init => AgeInv(age)
    BY DEF Init, AgeInv, InPass, DefaultState, NothingLoaded, LoadedIds
  <2>. QED  BY <2>1, <2>2, <2>3, InitIInv DEF ReportInv, AgreeInv
<1>2. ReportInv(age) /\ [Next]_vars => ReportInv(age)'
  <2> SUFFICES ASSUME ReportInv(age), [Next]_vars PROVE ReportInv(age)'
    OBVIOUS
  <2>1. AgreeInv'
    BY NextIInv, KeptInvNext, DownloadInvNext, LoopInvNext, PublishedInvNext,
       BoundInvNext
    DEF ReportInv, AgreeInv, NoScriptLeftBehind
  <2>2. EntryInv'
    BY EntryInvNext DEF ReportInv, AgreeInv
  <2>3. AgeInv(age)'
    <3>1. InPass' => age[desired'] <= age[file']
      BY LatestForward DEF ReportInv, AgreeInv
    <3>2. LoadedIds(state'.workers) # {} =>
              \E a \in Assignments : ServedSince(age, a)'
      BY ServedSinceNext
    <3>3. LoopScripts'
      BY LoopScriptsNext
    <3>4. pc' = "publish" /\ served' # NoProcess =>
            \A w \in DOMAIN served'.scripts :
                Gives(desired', w, served'.scripts[w])
      BY FreshWorkerdNext
    <3>. QED  BY <3>1, <3>2, <3>3, <3>4 DEF AgeInv, LoopScripts
  <2>. QED  BY <2>1, <2>2, <2>3 DEF ReportInv
<1>3. ReportInv(age) => ReportsWhatIsServed
  BY ReportHolds
<1>. QED  BY <1>1, <1>2, <1>3, PTL DEF Spec
=============================================================================
