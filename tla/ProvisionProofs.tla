-------------------------- MODULE ProvisionProofs --------------------------
(***************************************************************************)
(* Proofs about Provision, for any number of submissions and any forms.    *)
(***************************************************************************)
EXTENDS Provision, TLAPS

\* A submission of this kind makes this call.
IsCallOf(kind, call) ==
    \/ kind = "postgres" /\ call \in {"ensureCluster", "resolveVault", "readVault",
           "writeVault", "retryVault", "bootstrapSecret", "createCluster", "reload",
           "waitReady"}
    \/ kind = "neon" /\ call \in {"getService", "resolveBucket", "ensureProject",
           "ensureBranch", "resolveVault", "createJob", "waitJob", "createProject",
           "createBranch", "readVault", "writeVault", "retryVault", "reload", "waitReady"}
    \/ kind = "branch" /\ call \in {"getService", "getProject", "ensureBranch", "createBranch"}
    \/ kind = "delete" /\ call \in {"getService", "deleteBranch"}

LEMMA FormType ==
    ASSUME TypeOK, NEW s \in Submissions
    PROVE  /\ form[s] \in Forms
           /\ form[s].kind \in Kinds /\ form[s].cluster \in Clusters
           /\ form[s].project \in Projects /\ form[s].branch \in Branches
           /\ form[s].secret \in Secrets
  BY ProvisionAssumption DEF TypeOK, Form

LEMMA AfterType ==
    ASSUME NEW s \in Submissions
    PROVE  After(s) \in Calls \union {"ok"}
  BY DEF After, PostgresCalls, NeonCalls, BranchCalls, DeleteCalls, Calls

LEMMA AfterIsOf ==
    ASSUME NEW s \in Submissions, form[s].kind \in Kinds, IsCallOf(form[s].kind, at[s])
    PROVE  After(s) = "ok" \/ IsCallOf(form[s].kind, After(s))
  BY DEF After, PostgresCalls, NeonCalls, BranchCalls, DeleteCalls, IsCallOf, Kinds

\* Which call each call follows.
LEMMA AfterFrom ==
    ASSUME NEW s \in Submissions, form[s].kind \in Kinds, IsCallOf(form[s].kind, at[s])
    PROVE  /\ After(s) = "bootstrapSecret" =>
                 form[s].kind = "postgres" /\ at[s] \in {"writeVault", "retryVault"}
           /\ After(s) = "createCluster" => form[s].kind = "postgres" /\ at[s] = "bootstrapSecret"
           /\ After(s) = "waitJob" => at[s] = "createJob"
           /\ After(s) = "createProject" => form[s].kind = "neon" /\ at[s] = "waitJob"
           /\ After(s) = "createBranch" =>
                 \/ form[s].kind = "neon" /\ at[s] = "createProject"
                 \/ form[s].kind = "branch" /\ at[s] = "ensureBranch"
           /\ After(s) = "waitReady" => at[s] = "reload"
           /\ After(s) = "ok" =>
                 \/ form[s].kind \in {"postgres", "neon"} /\ at[s] = "waitReady"
                 \/ form[s].kind \in {"branch", "delete"}
           /\ After(s) = "reload" =>
                 \/ form[s].kind = "postgres" /\ at[s] = "createCluster"
                 \/ form[s].kind = "neon" /\ at[s] \in {"writeVault", "retryVault"}
           /\ After(s) = "ensureBranch" /\ form[s].kind = "branch" => at[s] = "getProject"
           /\ After(s) \in {"readVault", "writeVault"} /\ form[s].kind = "neon" =>
                 at[s] \in {"createBranch", "readVault"}
           /\ After(s) # "retryVault"
  BY DEF After, PostgresCalls, NeonCalls, BranchCalls, DeleteCalls, IsCallOf, Kinds
\* A submission makes the calls of its kind, and none before it is submitted.
CallsInv ==
    \A s \in Submissions :
        /\ Running(s) => IsCallOf(form[s].kind, at[s])
        /\ at[s] = "idle" => wrote[s] = 0

LEMMA TypeOKInit == Init => TypeOK /\ CallsInv
  <1> SUFFICES ASSUME Init PROVE TypeOK /\ CallsInv
    OBVIOUS
  <1>1. TypeOK
    BY ProvisionAssumption
    DEF Init, TypeOK, Calls, Ended, Secret, NoSecret, Running
  <1>2. CallsInv
    BY DEF Init, CallsInv, Running, Ended
  <1> QED
    BY <1>1, <1>2

USE DEF Ended

LEMMA SubmitType ==
    ASSUME TypeOK, CallsInv, NEW s \in Submissions, Submit(s)
    PROVE  TypeOK' /\ CallsInv'
  <1>1. PICK f \in Forms : /\ form' = [form EXCEPT ![s] = f]
                           /\ Goto(s, IF Rejected(f) THEN "failed"
                                ELSE IF f.kind = "postgres" THEN "ensureCluster"
                                ELSE "getService")
    BY DEF Submit
  <1>2. f.kind \in Kinds
    BY ProvisionAssumption DEF Form
  <1>3. at' \in [Submissions -> Ended \union {"idle"} \union Calls]
    BY <1>1 DEF TypeOK, Goto, Calls
  <1>4. \A t \in Submissions : Running(t)' => ~Rejected(form'[t])
    BY <1>1 DEF TypeOK, Goto, Running
  <1>5. TypeOK'
    BY <1>1, <1>3, <1>4 DEF TypeOK, Submit, stores
  <1>6. CallsInv'
    BY <1>1, <1>2 DEF TypeOK, CallsInv, Goto, Running, Submit, stores, Kinds, IsCallOf
  <1> QED
    BY <1>5, <1>6

\* How a call that ends moves its submission on.
Moves(s) ==
    /\ UNCHANGED <<serial, form>>
    /\ Running(s)
    /\ \E next \in Calls \union Ended :
          /\ at' = [at EXCEPT ![s] = next]
          /\ \/ next = "failed"
             \/ next = After(s)
             \/ next = "retryVault" /\ at[s] = "writeVault"
             \/ next = "ok" /\ form[s].kind = "delete"

LEMMA StepMoves ==
    ASSUME TypeOK, NEW s \in Submissions, Advance(s) \/ CallFails(s)
    PROVE  Moves(s)
  <1>1. After(s) \in Calls \union Ended
    BY AfterType
  <1>2. ASSUME UNCHANGED <<serial, form>>, Running(s), NEW next \in {After(s), "failed"},
               Goto(s, next)
        PROVE  Moves(s)
    BY <1>1, <1>2 DEF Moves, Goto
  <1>3. ASSUME UNCHANGED <<serial, form>>, Running(s), Proceed(s) PROVE Moves(s)
    BY <1>2, <1>3 DEF Proceed
  <1>4. ASSUME NEW call \in Calls, NEW holds \in BOOLEAN, Check(s, call, holds) PROVE Moves(s)
    BY <1>2, <1>4 DEF Check, Running, Calls
  <1>5. CASE GetService(s)
    <2>1. Running(s) /\ UNCHANGED <<serial, form>>
      BY <1>5 DEF GetService, Running
    <2>2. \/ Goto(s, After(s)) \/ Goto(s, "failed")
          \/ form[s].kind = "delete" /\ Goto(s, "ok")
      BY <1>5 DEF GetService
    <2> QED
      BY <1>1, <2>1, <2>2 DEF Moves, Goto
  <1>6. CASE EnsurePostgresClusterIsNew(s)
    BY <1>6, <1>4 DEF EnsurePostgresClusterIsNew, Calls
  <1>7. CASE EnsureNeonProjectIsNew(s)
    BY <1>7, <1>4 DEF EnsureNeonProjectIsNew, Calls
  <1>8. CASE GetNeonProject(s)
    BY <1>8, <1>4 DEF GetNeonProject, Calls
  <1>9. CASE EnsureNeonBranchIsNew(s)
    BY <1>9, <1>4 DEF EnsureNeonBranchIsNew, Calls
  <1>10. CASE ResolveDaprVault(s)
    BY <1>10, <1>4 DEF ResolveDaprVault, Calls
  <1>11. CASE ResolveNeonBucketConfig(s)
    BY <1>11, <1>4 DEF ResolveNeonBucketConfig, Calls
  <1>12. CASE ReadVault(s)
    BY <1>12, <1>2 DEF ReadVault, Running
  <1>13. CASE WaitForJobComplete(s)
    BY <1>13, <1>2 DEF WaitForJobComplete, Running
  <1>14. CASE WaitForKnativeServiceReady(s)
    BY <1>14, <1>2 DEF WaitForKnativeServiceReady, Running
  <1>15. CASE WriteVault(s)
    <2>1. Running(s) /\ UNCHANGED <<serial, form>>
      BY <1>15 DEF WriteVault, Running
    <2>2. Proceed(s) \/ (at[s] = "writeVault" /\ Goto(s, "retryVault"))
      BY <1>15 DEF WriteVault
    <2> QED
      BY <1>3, <2>1, <2>2 DEF Moves, Goto, Calls
  <1>16. CASE CreateBootstrapSecret(s)
    BY <1>16, <1>3 DEF CreateBootstrapSecret, Running
  <1>17. ASSUME NEW call \in Calls, NEW store, NEW name, NEW object,
                Create(s, call, store, name, object), UNCHANGED <<serial, form>>
         PROVE  Moves(s)
    BY <1>2, <1>3, <1>17 DEF Create, Running, Calls
  <1>18. CASE CreatePostgresCluster(s)
    BY <1>18, <1>17 DEF CreatePostgresCluster, Calls
  <1>19. CASE CreateRustfsBucketJob(s)
    BY <1>19, <1>3 DEF CreateRustfsBucketJob, Running
  <1>20. CASE CreateNeonProject(s)
    BY <1>20, <1>17 DEF CreateNeonProject, Calls
  <1>21. CASE CreateNeonBranch(s)
    BY <1>21, <1>17 DEF CreateNeonBranch, Calls
  <1>22. CASE DeleteNeonBranch(s)
    BY <1>22, <1>3 DEF DeleteNeonBranch, Running
  <1>23. CASE ReloadKnativeService(s)
    BY <1>23, <1>2, <1>3 DEF ReloadKnativeService, Running
  <1>24. CASE WaitTimesOut(s)
    BY <1>24, <1>2 DEF WaitTimesOut, Running
  <1>25. CASE CallFails(s)
    <2>1. Running(s) /\ UNCHANGED <<serial, form>>
      BY <1>25 DEF CallFails
    <2>2. Goto(s, "failed") \/ (at[s] = "writeVault" /\ Goto(s, "retryVault"))
      BY <1>25 DEF CallFails
    <2> QED
      BY <2>1, <2>2 DEF Moves, Goto, Calls
  <1> QED
    BY <1>5, <1>6, <1>7, <1>8, <1>9, <1>10, <1>11, <1>12, <1>13, <1>14, <1>15, <1>16,
       <1>18, <1>19, <1>20, <1>21, <1>22, <1>23, <1>24, <1>25
    DEF Advance

LEMMA MoveType ==
    ASSUME TypeOK, CallsInv, NEW s \in Submissions, Moves(s),
           \A t \in Submissions : wrote'[t] # wrote[t] => t = s
    PROVE  /\ CallsInv'
           /\ at' \in [Submissions -> Ended \union {"idle"} \union Calls]
           /\ serial' \in BOOLEAN /\ form' \in [Submissions -> Forms]
           /\ \A t \in Submissions : Running(t)' => ~Rejected(form'[t])
  <1>1. form[s].kind \in Kinds
    BY FormType
  <1>2. After(s) = "ok" \/ IsCallOf(form[s].kind, After(s))
    BY <1>1, AfterIsOf DEF CallsInv, Moves
  <1>3. PICK next \in Calls \union Ended :
          /\ at' = [at EXCEPT ![s] = next]
          /\ \/ next = "failed"
             \/ next = After(s)
             \/ next = "retryVault" /\ at[s] = "writeVault"
             \/ next = "ok" /\ form[s].kind = "delete"
    BY DEF Moves
  <1>4. next \in Ended \/ IsCallOf(form[s].kind, next)
    BY <1>1, <1>2, <1>3 DEF IsCallOf, CallsInv, Moves, Kinds
  <1>5. CallsInv'
    BY <1>3, <1>4 DEF CallsInv, Moves, Running, TypeOK, IsCallOf, Calls
  <1>6. \A t \in Submissions : Running(t)' => Running(t)
    BY <1>3 DEF Running, Moves, TypeOK
  <1> QED
    BY <1>3, <1>5, <1>6 DEF Moves, TypeOK

JobState == [failed: 0 .. 4, succeeded: BOOLEAN]

ServiceState == [exists: BOOLEAN, generation: Nat, observed: Nat,
                 ready: BOOLEAN, sees: [Secrets -> Nat]]

LEMMA StepType ==
    ASSUME TypeOK, CallsInv, NEW s \in Submissions, Advance(s) \/ CallFails(s)
    PROVE  TypeOK' /\ CallsInv'
  <1>1. Moves(s)
    BY StepMoves
  <1>2. /\ form[s].cluster \in Clusters /\ form[s].project \in Projects
        /\ form[s].branch \in Branches /\ form[s].secret \in Secrets
    BY FormType
  <1>3. \A t \in Submissions : wrote'[t] # wrote[t] => t = s
    BY DEF TypeOK, Advance, CallFails, GetService, EnsurePostgresClusterIsNew,
       EnsureNeonProjectIsNew, GetNeonProject, EnsureNeonBranchIsNew, ResolveDaprVault,
       ResolveNeonBucketConfig, ReadVault, WaitForJobComplete, WaitForKnativeServiceReady,
       WriteVault, CreateBootstrapSecret, CreatePostgresCluster, CreateRustfsBucketJob,
       CreateNeonProject, CreateNeonBranch, DeleteNeonBranch, ReloadKnativeService,
       WaitTimesOut, Check, stores
  <1>4. /\ existing' \in [Submissions -> Secret]
        /\ wrote' \in [Submissions -> Nat]
        /\ vault' \in [Secrets -> Secret]
    <2>1. CASE WriteVault(s)
      <3>1. Merged(s) \in Secret
        <4>1. existing[s] \in Secret
          BY DEF TypeOK
        <4>2. [existing[s] EXCEPT !.connection = s] \in Secret
          BY <4>1 DEF Secret
        <4>3. [existing[s] EXCEPT !.connection = s, !.neon = s] \in Secret
          BY <4>1 DEF Secret
        <4> QED
          BY <4>2, <4>3 DEF Merged
      <3> DEFINE version == vault[form[s].secret].version + 1
      <3>2. [Merged(s) EXCEPT !.version = version] \in Secret /\ version \in Nat
        <4>1. vault[form[s].secret] \in Secret
          BY <1>2 DEF TypeOK
        <4>2. version \in Nat
          BY <4>1 DEF Secret
        <4> QED
          BY <3>1, <4>2 DEF Secret
      <3> QED
        BY <1>2, <2>1, <3>2 DEF WriteVault, TypeOK
    <2>2. CASE ReadVault(s)
      BY <1>2, <2>2 DEF ReadVault, TypeOK, stores
    <2>3. CASE ~WriteVault(s) /\ ~ReadVault(s)
      <3>1. UNCHANGED <<existing, wrote, vault>>
        BY <2>3 DEF Advance, CallFails, GetService, EnsurePostgresClusterIsNew,
           EnsureNeonProjectIsNew, GetNeonProject, EnsureNeonBranchIsNew, ResolveDaprVault,
           ResolveNeonBucketConfig, WaitForJobComplete, WaitForKnativeServiceReady,
           CreateBootstrapSecret, CreatePostgresCluster, CreateRustfsBucketJob,
           CreateNeonProject, CreateNeonBranch, DeleteNeonBranch, ReloadKnativeService,
           WaitTimesOut, Check, stores
      <3> QED
        BY <3>1 DEF TypeOK
    <2> QED
      BY <2>1, <2>2, <2>3
  <1>5. /\ bootstrap' \in [Clusters -> Submissions \union {None}]
        /\ clusters' \in [Clusters -> Submissions \union {None}]
        /\ projects' \in [Projects -> Submissions \union {None}]
        /\ branches' \in [Branches -> [project: Projects, by: Submissions] \union {None}]
    BY <1>2 DEF TypeOK, Advance, CallFails, GetService, EnsurePostgresClusterIsNew,
       EnsureNeonProjectIsNew, GetNeonProject, EnsureNeonBranchIsNew, ResolveDaprVault,
       ResolveNeonBucketConfig, ReadVault, WaitForJobComplete, WaitForKnativeServiceReady,
       WriteVault, CreateBootstrapSecret, CreatePostgresCluster, CreateRustfsBucketJob,
       CreateNeonProject, CreateNeonBranch, DeleteNeonBranch, ReloadKnativeService,
       WaitTimesOut, Check, stores, Created
  <1>6. /\ jobs' \in [Submissions -> JobState \union {None}]
        /\ bucket' \in BOOLEAN
    <2>1. /\ UNCHANGED bucket
          /\ \/ UNCHANGED jobs
             \/ jobs' = [jobs EXCEPT ![s] = [failed |-> 0, succeeded |-> FALSE]]
      BY DEF Advance, CallFails, GetService, EnsurePostgresClusterIsNew,
         EnsureNeonProjectIsNew, GetNeonProject, EnsureNeonBranchIsNew, ResolveDaprVault,
         ResolveNeonBucketConfig, ReadVault, WaitForJobComplete, WaitForKnativeServiceReady,
         WriteVault, CreateBootstrapSecret, CreatePostgresCluster, CreateRustfsBucketJob,
         CreateNeonProject, CreateNeonBranch, DeleteNeonBranch, ReloadKnativeService,
         WaitTimesOut, Check, stores
    <2>2. [failed |-> 0, succeeded |-> FALSE] \in JobState
      BY DEF JobState
    <2>3. jobs \in [Submissions -> JobState \union {None}] /\ bucket \in BOOLEAN
      BY DEF TypeOK, JobState
    <2> QED
      BY <2>1, <2>2, <2>3
  <1>7. service' = service \/ service' = [service EXCEPT !.generation = @ + 1]
    BY DEF Advance, CallFails, GetService, EnsurePostgresClusterIsNew,
       EnsureNeonProjectIsNew, GetNeonProject, EnsureNeonBranchIsNew, ResolveDaprVault,
       ResolveNeonBucketConfig, ReadVault, WaitForJobComplete, WaitForKnativeServiceReady,
       WriteVault, CreateBootstrapSecret, CreatePostgresCluster, CreateRustfsBucketJob,
       CreateNeonProject, CreateNeonBranch, DeleteNeonBranch, ReloadKnativeService,
       WaitTimesOut, Check, stores
  <1>8. service' \in ServiceState
    BY <1>7 DEF TypeOK, ServiceState
  <1> QED
    BY <1>1, <1>3, <1>4, <1>5, <1>6, <1>8, MoveType DEF TypeOK, JobState, ServiceState

LEMMA OutsideType ==
    ASSUME TypeOK, CallsInv,
           (\E s \in Submissions : JobPodEnds(s)) \/ ServiceReconciled \/ ServiceDeleted
    PROVE  TypeOK' /\ CallsInv'
  <1>1. UNCHANGED locals /\ UNCHANGED <<vault, bootstrap, clusters, projects, branches>>
    BY DEF JobPodEnds, ServiceReconciled, ServiceDeleted, locals
  <1>2. CallsInv'
    BY <1>1 DEF CallsInv, Running, locals
  <1>3. \A s \in Submissions : Running(s)' => ~Rejected(form'[s])
    BY <1>1 DEF TypeOK, Running, locals
  <1>4. jobs' \in [Submissions -> JobState \union {None}] /\ bucket' \in BOOLEAN
    <2>1. jobs \in [Submissions -> JobState \union {None}] /\ bucket \in BOOLEAN
      BY DEF TypeOK, JobState
    <2>2. CASE \E s \in Submissions : JobPodEnds(s)
      <3>1. PICK s \in Submissions : JobPodEnds(s)
        BY <2>2
      <3>2. jobs[s] \in JobState /\ jobs[s].failed < 4
        BY <2>1, <3>1 DEF JobPodEnds
      <3>3. [jobs[s] EXCEPT !.succeeded = TRUE] \in JobState
        BY <3>2 DEF JobState
      <3>4. [jobs[s] EXCEPT !.failed = @ + 1] \in JobState
        BY <3>2 DEF JobState
      <3>5. \/ jobs' = [jobs EXCEPT ![s] = [jobs[s] EXCEPT !.succeeded = TRUE]] /\ bucket' = TRUE
            \/ jobs' = [jobs EXCEPT ![s] = [jobs[s] EXCEPT !.failed = @ + 1]] /\ UNCHANGED bucket
        BY <3>1 DEF JobPodEnds
      <3> QED
        BY <2>1, <3>3, <3>4, <3>5
    <2>3. CASE ServiceReconciled \/ ServiceDeleted
      BY <2>1, <2>3 DEF ServiceReconciled, ServiceDeleted
    <2> QED
      BY <2>2, <2>3
  <1>5. service' \in ServiceState
    <2>1. service \in ServiceState
      BY DEF TypeOK, ServiceState
    <2>2. CASE ServiceReconciled
      <3>1. [n \in Secrets |-> vault[n].version] \in [Secrets -> Nat]
        BY DEF TypeOK, Secret
      <3>2. PICK ready \in BOOLEAN : service' = [service EXCEPT !.observed = service.generation,
                !.ready = ready, !.sees = [n \in Secrets |-> vault[n].version]]
        BY <2>2 DEF ServiceReconciled
      <3> QED
        BY <2>1, <3>1, <3>2 DEF ServiceState
    <2>3. CASE ServiceDeleted
      BY <2>1, <2>3 DEF ServiceDeleted, ServiceState
    <2>4. CASE \E s \in Submissions : JobPodEnds(s)
      BY <2>1, <2>4 DEF JobPodEnds
    <2> QED
      BY <2>2, <2>3, <2>4
  <1> QED
    BY <1>1, <1>2, <1>3, <1>4, <1>5 DEF TypeOK, locals, JobState, ServiceState

LEMMA TypeInvariant == Spec => [](TypeOK /\ CallsInv)
  <1>1. TypeOK /\ CallsInv /\ [Next]_vars => (TypeOK /\ CallsInv)'
    <2> SUFFICES ASSUME TypeOK, CallsInv, [Next]_vars PROVE TypeOK' /\ CallsInv'
      OBVIOUS
    <2>1. CASE UNCHANGED vars
      BY <2>1 DEF vars, locals, stores, TypeOK, CallsInv, Running
    <2>2. CASE Next
      BY <2>2, SubmitType, StepType, OutsideType DEF Next
    <2> QED
      BY <2>1, <2>2
  <1> QED
    BY <1>1, TypeOKInit, PTL DEF Spec

\* Every variable keeps its type, and a form that is worked on is valid.
THEOREM TypeCorrect == Spec => []TypeOK
  BY TypeInvariant, PTL
-----------------------------------------------------------------------------
\* What a step of a submission can have changed, and what it must have done to
\* get further than the call it was at.

LEMMA StepFrames ==
    ASSUME NEW s \in Submissions, Advance(s) \/ CallFails(s)
    PROVE  /\ WriteVault(s) \/ UNCHANGED <<wrote, vault>>
           /\ CreateBootstrapSecret(s) \/ UNCHANGED bootstrap
           /\ CreatePostgresCluster(s) \/ UNCHANGED clusters
           /\ CreateRustfsBucketJob(s) \/ UNCHANGED jobs
           /\ CreateNeonProject(s) \/ UNCHANGED projects
           /\ CreateNeonBranch(s) \/ DeleteNeonBranch(s) \/ UNCHANGED branches
           /\ ReloadKnativeService(s) \/ UNCHANGED service
           /\ UNCHANGED bucket
  BY DEF Advance, CallFails, GetService, EnsurePostgresClusterIsNew,
     EnsureNeonProjectIsNew, GetNeonProject, EnsureNeonBranchIsNew, ResolveDaprVault,
     ResolveNeonBucketConfig, ReadVault, WaitForJobComplete, WaitForKnativeServiceReady,
     WriteVault, CreateBootstrapSecret, CreatePostgresCluster, CreateRustfsBucketJob,
     CreateNeonProject, CreateNeonBranch, DeleteNeonBranch, ReloadKnativeService,
     WaitTimesOut, Check, stores

LEMMA StepActs ==
    ASSUME TypeOK, NEW s \in Submissions, Advance(s) \/ CallFails(s),
           at'[s] \notin {"failed", "retryVault"}
    PROVE  /\ at[s] \in {"writeVault", "retryVault"} => WriteVault(s)
           /\ at[s] = "bootstrapSecret" => CreateBootstrapSecret(s)
           /\ at[s] = "createCluster" => CreatePostgresCluster(s)
           /\ at[s] = "createJob" => CreateRustfsBucketJob(s)
           /\ at[s] = "waitJob" => WaitForJobComplete(s)
           /\ at[s] = "createProject" => CreateNeonProject(s)
           /\ at[s] = "getProject" => GetNeonProject(s)
           /\ at[s] = "reload" => ReloadKnativeService(s)
           /\ at[s] = "waitReady" => WaitForKnativeServiceReady(s)
  <1>1. Advance(s) /\ ~WaitTimesOut(s)
    BY DEF CallFails, WaitTimesOut, Goto, TypeOK
  <1> QED
    BY <1>1
    DEF Advance, GetService, EnsurePostgresClusterIsNew,
     EnsureNeonProjectIsNew, GetNeonProject, EnsureNeonBranchIsNew, ResolveDaprVault,
     ResolveNeonBucketConfig, ReadVault, WaitForJobComplete, WaitForKnativeServiceReady,
     WriteVault, CreateBootstrapSecret, CreatePostgresCluster, CreateRustfsBucketJob,
     CreateNeonProject, CreateNeonBranch, DeleteNeonBranch, ReloadKnativeService, Check, Create

\* The call a step gets to, and the one it comes from.
LEMMA MoveFrom ==
    ASSUME TypeOK, CallsInv, NEW s \in Submissions, Advance(s) \/ CallFails(s)
    PROVE  /\ form' = form
           /\ \A t \in Submissions \ {s} : at'[t] = at[t]
           /\ at[s] \notin {"ok", "failed", "idle"} /\ at'[s] # "idle"
           /\ at'[s] = "bootstrapSecret" => WriteVault(s)
           /\ at'[s] = "createCluster" => CreateBootstrapSecret(s)
           /\ at'[s] = "waitJob" => CreateRustfsBucketJob(s)
           /\ at'[s] = "createProject" => WaitForJobComplete(s)
           /\ at'[s] = "createBranch" =>
                 CreateNeonProject(s) \/ (form[s].kind = "branch" /\ at[s] = "ensureBranch")
           /\ (at'[s] = "ensureBranch" /\ form[s].kind = "branch") => GetNeonProject(s)
           /\ at'[s] = "waitReady" => ReloadKnativeService(s)
           /\ (at'[s] = "ok" /\ form[s].kind \in {"postgres", "neon"}) =>
                 WaitForKnativeServiceReady(s)
           /\ at'[s] = "reload" =>
                 \/ form[s].kind = "postgres" /\ CreatePostgresCluster(s)
                 \/ form[s].kind = "neon" /\ WriteVault(s)
           /\ (at'[s] \in {"readVault", "writeVault", "retryVault"} /\ form[s].kind = "neon") =>
                 at[s] \in {"createBranch", "readVault", "writeVault"}
  <1>1. Moves(s)
    BY StepMoves
  <1>2. form[s].kind \in Kinds /\ IsCallOf(form[s].kind, at[s])
    BY <1>1, FormType DEF Moves, CallsInv
  <1>3. PICK next \in Calls \union Ended :
          /\ at' = [at EXCEPT ![s] = next]
          /\ \/ next = "failed"
             \/ next = After(s)
             \/ next = "retryVault" /\ at[s] = "writeVault"
             \/ next = "ok" /\ form[s].kind = "delete"
    BY <1>1 DEF Moves
  <1>4. at'[s] = next /\ \A t \in Submissions \ {s} : at'[t] = at[t]
    BY <1>3 DEF TypeOK
  <1>5. form' = form /\ at[s] \notin {"ok", "failed", "idle"}
    BY <1>1 DEF Moves, Running
  <1>6. CASE next = After(s)
    <2>1. After(s) = "ok" \/ IsCallOf(form[s].kind, After(s))
      BY <1>2, AfterIsOf
    <2>2. After(s) \notin {"failed", "retryVault", "idle"}
      BY <1>2, <2>1, AfterFrom DEF IsCallOf
    <2> QED
      BY <1>2, <1>4, <1>5, <1>6, <2>2, AfterFrom, StepActs
  <1>7. CASE next \in {"failed", "retryVault"}
    BY <1>2, <1>3, <1>4, <1>5, <1>7, AfterFrom
  <1>8. CASE next = "ok" /\ form[s].kind = "delete"
    BY <1>4, <1>5, <1>8
  <1> QED
    BY <1>3, <1>6, <1>7, <1>8

LEMMA SubmitMoves ==
    ASSUME TypeOK, NEW s \in Submissions, Submit(s)
    PROVE  /\ at[s] = "idle" /\ at'[s] \in {"failed", "ensureCluster", "getService"}
           /\ \A t \in Submissions \ {s} : at'[t] = at[t] /\ form'[t] = form[t]
           /\ UNCHANGED <<wrote, stores>>
  BY DEF Submit, Goto, TypeOK

-----------------------------------------------------------------------------
CredentialsInv ==
    /\ CredentialsSavedFirst
    /\ \A s \in Submissions :
          /\ at[s] \in {"bootstrapSecret", "createCluster"} => wrote[s] > 0
          /\ at[s] = "createCluster" => bootstrap[form[s].cluster] # None

LEMMA CredentialsStep ==
    ASSUME TypeOK, CallsInv, CredentialsInv, NEW s \in Submissions, Advance(s) \/ CallFails(s)
    PROVE  CredentialsInv'
  <1>1. form[s].cluster \in Clusters /\ form[s].secret \in Secrets
    BY FormType
  <1>2. \A t \in Submissions : wrote[t] > 0 => wrote'[t] > 0
    <2>1. CASE WriteVault(s)
      <3>1. vault[form[s].secret].version + 1 > 0
        BY <1>1 DEF TypeOK, Secret
      <3> QED
        BY <2>1, <3>1 DEF WriteVault, TypeOK
    <2> QED
      BY <2>1, StepFrames
  <1>3. WriteVault(s) => wrote'[s] > 0
    <2>1. vault[form[s].secret].version + 1 > 0
      BY <1>1 DEF TypeOK, Secret
    <2> QED
      BY <2>1 DEF WriteVault, TypeOK
  <1>4. /\ \A c \in Clusters : bootstrap[c] # None => bootstrap'[c] # None
        /\ CreateBootstrapSecret(s) => bootstrap'[form[s].cluster] # None
    BY <1>1, StepFrames, ProvisionAssumption DEF CreateBootstrapSecret, TypeOK
  <1>5. \A c \in Clusters :
            \/ clusters'[c] = clusters[c]
            \/ clusters'[c] = s /\ c = form[s].cluster /\ at[s] = "createCluster"
    BY <1>1, StepFrames DEF CreatePostgresCluster, Create, Created, TypeOK
  <1>6. CredentialsSavedFirst'
    BY <1>2, <1>4, <1>5 DEF CredentialsInv, CredentialsSavedFirst, TypeOK
  <1>7. \A t \in Submissions :
          /\ at'[t] \in {"bootstrapSecret", "createCluster"} => wrote'[t] > 0
          /\ at'[t] = "createCluster" => bootstrap'[form'[t].cluster] # None
    <2> SUFFICES ASSUME NEW t \in Submissions
                 PROVE  /\ at'[t] \in {"bootstrapSecret", "createCluster"} => wrote'[t] > 0
                        /\ at'[t] = "createCluster" => bootstrap'[form'[t].cluster] # None
      OBVIOUS
    <2>1. form[t].cluster \in Clusters
      BY FormType
    <2>2. CreateBootstrapSecret(s) => at[s] = "bootstrapSecret"
      BY DEF CreateBootstrapSecret
    <2> QED
      BY <1>2, <1>3, <1>4, <2>1, <2>2, MoveFrom DEF CredentialsInv
  <1> QED
    BY <1>6, <1>7 DEF CredentialsInv

\* Whatever fails and whoever else submits: the creator of a Postgres cluster
\* has saved its credentials, and the cluster has a bootstrap secret.
THEOREM CredentialsAreSavedFirst == Spec => []CredentialsSavedFirst
  <1>1. Init => CredentialsInv
    BY DEF Init, CredentialsInv, CredentialsSavedFirst
  <1>2. TypeOK /\ CallsInv /\ CredentialsInv /\ [Next]_vars => CredentialsInv'
    <2> SUFFICES ASSUME TypeOK, CallsInv, CredentialsInv, [Next]_vars PROVE CredentialsInv'
      OBVIOUS
    <2>1. ASSUME NEW s \in Submissions, Submit(s) PROVE CredentialsInv'
      BY <2>1, SubmitMoves DEF CredentialsInv, CredentialsSavedFirst, stores
    <2>2. CASE \/ \E s \in Submissions : JobPodEnds(s)
               \/ ServiceReconciled \/ ServiceDeleted \/ UNCHANGED vars
      BY <2>2 DEF JobPodEnds, ServiceReconciled, ServiceDeleted, vars, locals, stores,
         CredentialsInv, CredentialsSavedFirst
    <2> QED
      BY <2>1, <2>2, CredentialsStep DEF Next
  <1>3. CredentialsInv => CredentialsSavedFirst
    BY DEF CredentialsInv
  <1> QED
    BY <1>1, <1>2, <1>3, TypeInvariant, PTL DEF Spec
-----------------------------------------------------------------------------
NeonInv ==
    /\ NeonObjectsOrdered
    /\ \A s \in Submissions :
          /\ (jobs[s] # None /\ jobs[s].succeeded) => bucket
          /\ at[s] = "waitJob" => jobs[s] # None
          /\ at[s] = "createProject" => bucket
          /\ (at[s] = "createBranch" \/ (at[s] = "ensureBranch" /\ form[s].kind = "branch")) =>
                projects[form[s].project] # None

LEMMA NeonStep ==
    ASSUME TypeOK, CallsInv, NeonInv, NEW s \in Submissions, Advance(s) \/ CallFails(s)
    PROVE  NeonInv'
  <1>1. form[s].project \in Projects /\ form[s].branch \in Branches
    BY FormType
  <1>2. bucket' = bucket
    BY StepFrames
  <1>3. \A p \in Projects :
            \/ projects'[p] = projects[p]
            \/ projects'[p] = s /\ p = form[s].project /\ at[s] = "createProject"
    BY <1>1, StepFrames DEF CreateNeonProject, Create, Created, TypeOK
  <1>4. \A p \in Projects : projects[p] # None => projects'[p] # None
    BY <1>3, ProvisionAssumption
  <1>5. \A b \in Branches :
            \/ branches'[b] \in {branches[b], None}
            \/ /\ branches'[b] = [project |-> form[s].project, by |-> s]
               /\ at[s] = "createBranch"
    BY <1>1, StepFrames DEF CreateNeonBranch, DeleteNeonBranch, Create, Created, TypeOK
  <1>6. NeonObjectsOrdered'
    <2>1. ASSUME NEW b \in Branches, branches'[b] # None
          PROVE  projects'[branches'[b].project] # None
      <3>1. CASE branches'[b] = branches[b]
        <4>1. branches[b].project \in Projects
          BY <2>1, <3>1 DEF TypeOK
        <4> QED
          BY <1>4, <2>1, <3>1, <4>1 DEF NeonInv, NeonObjectsOrdered
      <3>2. CASE branches'[b] = [project |-> form[s].project, by |-> s] /\ at[s] = "createBranch"
        BY <1>1, <1>4, <3>2 DEF NeonInv
      <3> QED
        BY <1>5, <2>1, <3>1, <3>2
    <2>2. ASSUME NEW p \in Projects, projects'[p] # None PROVE bucket'
      BY <1>2, <1>3, <2>2 DEF NeonInv, NeonObjectsOrdered
    <2> QED
      BY <2>1, <2>2 DEF NeonObjectsOrdered
  <1>7. ASSUME NEW t \in Submissions
        PROVE  /\ (jobs'[t] # None /\ jobs'[t].succeeded) => bucket'
               /\ jobs[t] # None => jobs'[t] # None
               /\ (CreateRustfsBucketJob(s) /\ t = s) => jobs'[t] # None
    <2>1. CASE CreateRustfsBucketJob(s)
      <3>1. [failed |-> 0, succeeded |-> FALSE] # None
        <4>1. [failed |-> 0, succeeded |-> FALSE] \in [failed: 0 .. 4, succeeded: BOOLEAN]
          OBVIOUS
        <4> QED
          BY <4>1, ProvisionAssumption
      <3> QED
        BY <1>2, <2>1, <3>1 DEF CreateRustfsBucketJob, NeonInv, TypeOK
    <2>2. CASE UNCHANGED jobs /\ ~CreateRustfsBucketJob(s)
      BY <1>2, <2>2 DEF NeonInv
    <2> QED
      BY <2>1, <2>2, StepFrames
  <1>8. ASSUME NEW t \in Submissions
        PROVE  /\ at'[t] = "waitJob" => jobs'[t] # None
               /\ at'[t] = "createProject" => bucket'
               /\ (at'[t] = "createBranch"
                     \/ (at'[t] = "ensureBranch" /\ form'[t].kind = "branch")) =>
                  projects'[form'[t].project] # None
    <2>1. form[t].project \in Projects
      BY FormType
    <2>2. CASE t # s
      BY <1>2, <1>4, <1>7, <2>1, <2>2, MoveFrom DEF NeonInv
    <2>3. CASE t = s
      <3>1. at'[s] = "waitJob" => jobs'[s] # None
        BY <1>7, MoveFrom
      <3>2. at'[s] = "createProject" => bucket'
        <4> SUFFICES ASSUME WaitForJobComplete(s), at'[s] = "createProject" PROVE bucket'
          BY MoveFrom
        <4>1. at[s] = "waitJob" /\ jobs[s].succeeded
          BY DEF WaitForJobComplete, Goto, TypeOK
        <4> QED
          BY <1>2, <4>1 DEF NeonInv
      <3>3. (CreateNeonProject(s) /\ at'[s] = "createBranch") => projects'[form[s].project] # None
        BY <1>1, ProvisionAssumption DEF CreateNeonProject, Create, Created, Goto, TypeOK
      <3>4. (GetNeonProject(s) /\ at'[s] = "ensureBranch") => projects[form[s].project] # None
        BY DEF GetNeonProject, Check, Goto, TypeOK
      <3> QED
        BY <1>1, <1>4, <2>3, <3>1, <3>2, <3>3, <3>4, MoveFrom DEF NeonInv
    <2> QED
      BY <2>2, <2>3
  <1> QED
    BY <1>6, <1>7, <1>8 DEF NeonInv

\* No failure and no race leaves a branch without its project or a project
\* without the bucket.
THEOREM NeonObjectsAreOrdered == Spec => []NeonObjectsOrdered
  <1>1. Init => NeonInv
    BY DEF Init, NeonInv, NeonObjectsOrdered
  <1>2. TypeOK /\ CallsInv /\ NeonInv /\ [Next]_vars => NeonInv'
    <2> SUFFICES ASSUME TypeOK, CallsInv, NeonInv, [Next]_vars PROVE NeonInv'
      OBVIOUS
    <2>1. ASSUME NEW s \in Submissions, Submit(s) PROVE NeonInv'
      BY <2>1, SubmitMoves DEF NeonInv, NeonObjectsOrdered, stores
    <2>2. ASSUME NEW s \in Submissions, JobPodEnds(s) PROVE NeonInv'
      <3>1. UNCHANGED <<at, form, branches, projects>> /\ (bucket => bucket')
        BY <2>2 DEF JobPodEnds, locals
      <3>2. ASSUME NEW t \in Submissions
            PROVE  /\ (jobs'[t] # None /\ jobs'[t].succeeded) => bucket'
                   /\ jobs[t] # None => jobs'[t] # None
        <4>1. jobs' \in [Submissions -> JobState \union {None}]
          BY <2>2, OutsideType DEF TypeOK, JobState
        <4>2. t # s => jobs'[t] = jobs[t]
          BY <2>2 DEF JobPodEnds, TypeOK
        <4>3. jobs'[s] # None /\ (jobs'[s].succeeded => bucket')
          <5>1. jobs[s] \in JobState /\ ~jobs[s].succeeded /\ jobs[s].failed < 4
            BY <2>2 DEF JobPodEnds, TypeOK, JobState
          <5>2. [jobs[s] EXCEPT !.succeeded = TRUE] \in JobState
            BY <5>1 DEF JobState
          <5>6. [jobs[s] EXCEPT !.failed = @ + 1] \in JobState
            BY <5>1 DEF JobState
          <5>3. [jobs[s] EXCEPT !.failed = @ + 1].succeeded = jobs[s].succeeded
            BY <5>1 DEF JobState
          <5>4. \/ jobs' = [jobs EXCEPT ![s] = [jobs[s] EXCEPT !.succeeded = TRUE]] /\ bucket' = TRUE
                \/ jobs' = [jobs EXCEPT ![s] = [jobs[s] EXCEPT !.failed = @ + 1]]
            BY <2>2 DEF JobPodEnds
          <5>5. None \notin JobState
            BY ProvisionAssumption DEF JobState
          <5> QED
            BY <5>1, <5>2, <5>3, <5>4, <5>5, <5>6 DEF TypeOK
        <4> QED
          BY <3>1, <4>2, <4>3 DEF NeonInv
      <3>3. NeonObjectsOrdered'
        BY <3>1 DEF NeonInv, NeonObjectsOrdered
      <3>4. ASSUME NEW t \in Submissions
            PROVE  /\ at'[t] = "waitJob" => jobs'[t] # None
                   /\ at'[t] = "createProject" => bucket'
                   /\ (at'[t] = "createBranch"
                         \/ (at'[t] = "ensureBranch" /\ form'[t].kind = "branch")) =>
                      projects'[form'[t].project] # None
        <4>1. at' = at /\ form' = form /\ projects' = projects
          BY <3>1
        <4> QED
          BY <3>1, <3>2, <4>1 DEF NeonInv
      <3> QED
        BY <3>2, <3>3, <3>4 DEF NeonInv
    <2>3. CASE ServiceReconciled \/ ServiceDeleted \/ UNCHANGED vars
      <3>1. UNCHANGED <<at, form, branches, projects, jobs, bucket>>
        BY <2>3 DEF ServiceReconciled, ServiceDeleted, vars, locals, stores
      <3> QED
        BY <3>1 DEF NeonInv, NeonObjectsOrdered
    <2> QED
      BY <2>1, <2>2, <2>3, NeonStep DEF Next
  <1>3. NeonInv => NeonObjectsOrdered
    BY DEF NeonInv
  <1> QED
    BY <1>1, <1>2, <1>3, TypeInvariant, PTL DEF Spec
-----------------------------------------------------------------------------
\* A cluster or project belongs to the submission that got past its creation.
OwnInv ==
    \A s \in Submissions :
        /\ (form[s].kind = "postgres" /\ at[s] \in {"reload", "waitReady", "ok"}) =>
              clusters[form[s].cluster] = s
        /\ (form[s].kind = "neon" /\ at[s] \in {"createBranch", "readVault", "writeVault",
                                                "retryVault", "reload", "waitReady", "ok"}) =>
              projects[form[s].project] = s

LEMMA OwnStep ==
    ASSUME TypeOK, CallsInv, OwnInv, NEW s \in Submissions, Advance(s) \/ CallFails(s)
    PROVE  OwnInv'
  <1>1. form[s].cluster \in Clusters /\ form[s].project \in Projects /\ form[s].kind \in Kinds
    BY FormType
  <1>2. \A c \in Clusters : clusters[c] # None => clusters'[c] = clusters[c]
    BY <1>1, StepFrames DEF CreatePostgresCluster, Created, TypeOK
  <1>3. \A p \in Projects : projects[p] # None => projects'[p] = projects[p]
    BY <1>1, StepFrames DEF CreateNeonProject, Created, TypeOK
  <1>4. (CreatePostgresCluster(s) /\ at'[s] = "reload") => clusters'[form[s].cluster] = s
    BY <1>1 DEF CreatePostgresCluster, Create, Created, Goto, TypeOK
  <1>5. (CreateNeonProject(s) /\ at'[s] = "createBranch") => projects'[form[s].project] = s
    BY <1>1 DEF CreateNeonProject, Create, Created, Goto, TypeOK
  <1>6. /\ ReloadKnativeService(s) => at[s] = "reload"
        /\ WaitForKnativeServiceReady(s) => at[s] = "waitReady"
        /\ WriteVault(s) => at[s] \in {"writeVault", "retryVault"}
    BY DEF ReloadKnativeService, WaitForKnativeServiceReady, WriteVault
  <1>7. None \notin Submissions
    BY ProvisionAssumption
  <1> SUFFICES ASSUME NEW t \in Submissions
      PROVE /\ (form'[t].kind = "postgres" /\ at'[t] \in {"reload", "waitReady", "ok"}) =>
                  clusters'[form'[t].cluster] = t
            /\ (form'[t].kind = "neon" /\ at'[t] \in {"createBranch", "readVault", "writeVault",
                                                    "retryVault", "reload", "waitReady", "ok"}) =>
                  projects'[form'[t].project] = t
    BY DEF OwnInv
  <1>8. form' = form /\ form[t].cluster \in Clusters /\ form[t].project \in Projects
    BY FormType, MoveFrom
  <1>9. CASE t # s
    BY <1>2, <1>3, <1>7, <1>8, <1>9, MoveFrom DEF OwnInv
  <1>10. CASE t = s
    <2>1. (form[s].kind = "postgres" /\ at'[s] \in {"reload", "waitReady", "ok"}) =>
              clusters'[form[s].cluster] = s
      BY <1>2, <1>4, <1>6, <1>7, <1>8, <1>10, MoveFrom DEF OwnInv
    <2>2. (form[s].kind = "neon" /\ at'[s] \in {"createBranch", "readVault", "writeVault",
                                   "retryVault", "reload", "waitReady", "ok"}) =>
              projects'[form[s].project] = s
      BY <1>3, <1>5, <1>6, <1>7, <1>8, <1>10, MoveFrom DEF OwnInv
    <2> QED
      BY <1>8, <1>10, <2>1, <2>2
  <1> QED
    BY <1>9, <1>10

\* Of the submissions that ask for one cluster or one project, at most one
\* reports success, and the object is its own.
THEOREM OneSucceeds == Spec => []OneSubmissionSucceeds
  <1>1. Init => OwnInv
    BY DEF Init, OwnInv
  <1>2. TypeOK /\ CallsInv /\ OwnInv /\ [Next]_vars => OwnInv'
    <2> SUFFICES ASSUME TypeOK, CallsInv, OwnInv, [Next]_vars PROVE OwnInv'
      OBVIOUS
    <2>1. ASSUME NEW s \in Submissions, Submit(s) PROVE OwnInv'
      BY <2>1, SubmitMoves DEF OwnInv, stores
    <2>2. CASE \/ \E s \in Submissions : JobPodEnds(s)
               \/ ServiceReconciled \/ ServiceDeleted \/ UNCHANGED vars
      <3>1. UNCHANGED <<at, form, clusters, projects>>
        BY <2>2 DEF JobPodEnds, ServiceReconciled, ServiceDeleted, vars, locals, stores
      <3> QED
        BY <3>1 DEF OwnInv
    <2> QED
      BY <2>1, <2>2, OwnStep DEF Next
  <1>3. OwnInv => OneSubmissionSucceeds
    BY DEF OwnInv, OneSubmissionSucceeds
  <1> QED
    BY <1>1, <1>2, <1>3, TypeInvariant, PTL DEF Spec

-----------------------------------------------------------------------------
\* What was written is in Vault, in that version or a later one, and a service
\* whose status is up to date has been started since it was reloaded.
ServedInv ==
    /\ service.observed <= service.generation
    /\ \A n \in Secrets : service.sees[n] <= vault[n].version
    /\ \A s \in Submissions :
          /\ wrote[s] <= vault[form[s].secret].version
          /\ form[s].kind \in {"postgres", "neon"} =>
                /\ at[s] \in {"bootstrapSecret", "createCluster", "reload", "waitReady", "ok"} =>
                      wrote[s] > 0
                /\ (at[s] = "waitReady" /\ service.observed >= service.generation) =>
                      service.sees[form[s].secret] >= wrote[s]
                /\ at[s] = "ok" => service.sees[form[s].secret] >= wrote[s]

LEMMA ServedStep ==
    ASSUME TypeOK, CallsInv, ServedInv, NEW s \in Submissions, Advance(s) \/ CallFails(s)
    PROVE  ServedInv'
  <1>1. form[s].secret \in Secrets /\ form[s].kind \in Kinds
    BY FormType
  <1>2. /\ service.generation \in Nat /\ service.observed \in Nat
        /\ \A n \in Secrets : service.sees[n] \in Nat
        /\ \A n \in Secrets : vault[n].version \in Nat
        /\ \A t \in Submissions : wrote[t] \in Nat
    BY DEF TypeOK, Secret
  <1>3. \/ service' = service
        \/ /\ ReloadKnativeService(s)
           /\ service'.sees = service.sees /\ service'.observed = service.observed
           /\ service'.generation = service.generation + 1
    BY StepFrames DEF ReloadKnativeService, TypeOK
  <1>4. /\ \A n \in Secrets : vault'[n].version >= vault[n].version
        /\ \A t \in Submissions : t # s => wrote'[t] = wrote[t]
        /\ WriteVault(s) => wrote'[s] > 0 /\ wrote'[s] = vault'[form[s].secret].version
        /\ ~WriteVault(s) => wrote' = wrote
    <2>1. CASE WriteVault(s)
      <3> DEFINE version == vault[form[s].secret].version + 1
                 secret == [Merged(s) EXCEPT !.version = version]
      <3>1. existing[s] \in Secret
        BY DEF TypeOK
      <3>2. Merged(s) \in Secret
        <4>1. [existing[s] EXCEPT !.connection = s] \in Secret
          BY <3>1 DEF Secret
        <4>2. [existing[s] EXCEPT !.connection = s, !.neon = s] \in Secret
          BY <3>1 DEF Secret
        <4> QED
          BY <4>1, <4>2 DEF Merged
      <3>3. secret.version = version
        BY <3>2 DEF Secret
      <3>4. vault' = [vault EXCEPT ![form[s].secret] = secret]
            /\ wrote' = [wrote EXCEPT ![s] = version]
        BY <2>1 DEF WriteVault
      <3> HIDE DEF secret
      <3> QED
        BY <1>1, <1>2, <2>1, <3>3, <3>4 DEF TypeOK
    <2>2. CASE ~WriteVault(s)
      BY <1>2, <2>2, StepFrames
    <2> QED
      BY <2>1, <2>2
  <1>5. \A n \in Secrets : vault'[n].version \in Nat /\ vault'[n].version >= service'.sees[n]
    <2>1. TypeOK'
      BY StepType
    <2> QED
      BY <1>2, <1>3, <1>4, <2>1 DEF ServedInv, TypeOK, Secret
  <1>6. service'.observed <= service'.generation
    BY <1>2, <1>3 DEF ServedInv
  <1>7. WriteVault(s) => at[s] \in {"writeVault", "retryVault"}
    BY DEF WriteVault
  <1>8. ASSUME NEW t \in Submissions, t # s
        PROVE  /\ wrote'[t] <= vault'[form'[t].secret].version
               /\ form'[t].kind \in {"postgres", "neon"} =>
                  /\ at'[t] \in {"bootstrapSecret", "createCluster", "reload", "waitReady", "ok"} =>
                        wrote'[t] > 0
                  /\ (at'[t] = "waitReady" /\ service'.observed >= service'.generation) =>
                        service'.sees[form'[t].secret] >= wrote'[t]
                  /\ at'[t] = "ok" => service'.sees[form'[t].secret] >= wrote'[t]
    <2>1. form[t].secret \in Secrets /\ form' = form /\ at'[t] = at[t] /\ wrote'[t] = wrote[t]
      BY <1>4, <1>8, FormType, MoveFrom
    <2>2. wrote[t] <= vault'[form[t].secret].version
      BY <1>2, <1>4, <1>5, <2>1 DEF ServedInv
    <2> QED
      BY <1>2, <1>3, <2>1, <2>2 DEF ServedInv
  <1>9. /\ wrote'[s] <= vault'[form'[s].secret].version
        /\ form'[s].kind \in {"postgres", "neon"} =>
           /\ at'[s] \in {"bootstrapSecret", "createCluster", "reload", "waitReady", "ok"} =>
                 wrote'[s] > 0
           /\ (at'[s] = "waitReady" /\ service'.observed >= service'.generation) =>
                 service'.sees[form'[s].secret] >= wrote'[s]
           /\ at'[s] = "ok" => service'.sees[form'[s].secret] >= wrote'[s]
    <2>1. form' = form
      BY MoveFrom
    <2>2. wrote'[s] <= vault'[form[s].secret].version
      BY <1>1, <1>2, <1>4, <1>5 DEF ServedInv
    <2>3. ASSUME form[s].kind \in {"postgres", "neon"},
                 at'[s] \in {"bootstrapSecret", "createCluster", "reload", "waitReady", "ok"}
          PROVE  wrote'[s] > 0
      <3>1. /\ CreateBootstrapSecret(s) => at[s] = "bootstrapSecret"
            /\ CreatePostgresCluster(s) => at[s] = "createCluster"
            /\ ReloadKnativeService(s) => at[s] = "reload"
            /\ WaitForKnativeServiceReady(s) => at[s] = "waitReady"
        BY DEF CreateBootstrapSecret, CreatePostgresCluster, Create, ReloadKnativeService,
           WaitForKnativeServiceReady
      <3> QED
        BY <1>4, <1>7, <2>3, <3>1, MoveFrom DEF ServedInv
    <2>4. at'[s] = "waitReady" => ~(service'.observed >= service'.generation)
      <3> SUFFICES ASSUME ReloadKnativeService(s), at'[s] = "waitReady"
                   PROVE  ~(service'.observed >= service'.generation)
        BY MoveFrom
      <3>1. service' = [service EXCEPT !.generation = @ + 1]
        BY DEF ReloadKnativeService, Goto, TypeOK
      <3>2. service'.generation = service.generation + 1 /\ service'.observed = service.observed
        BY <3>1 DEF TypeOK
      <3> QED
        BY <1>2, <3>2 DEF ServedInv
    <2>5. (form[s].kind \in {"postgres", "neon"} /\ at'[s] = "ok") =>
              service'.sees[form[s].secret] >= wrote'[s]
      <3> SUFFICES ASSUME WaitForKnativeServiceReady(s), form[s].kind \in {"postgres", "neon"}
                   PROVE  service'.sees[form[s].secret] >= wrote'[s]
        BY MoveFrom
      <3>1. at[s] = "waitReady" /\ service.observed >= service.generation
            /\ UNCHANGED <<service, wrote>>
        BY DEF WaitForKnativeServiceReady, ReadyAfterReload, stores
      <3> QED
        BY <3>1 DEF ServedInv
    <2> QED
      BY <2>1, <2>2, <2>3, <2>4, <2>5
  <1> QED
    BY <1>5, <1>6, <1>8, <1>9 DEF ServedInv

\* Success is reported when pods run that were started with what was written.
THEOREM SuccessServed == Spec => []SuccessIsServed
  <1>1. Init => ServedInv
    BY ProvisionAssumption DEF Init, ServedInv, NoSecret, Form
  <1>2. TypeOK /\ CallsInv /\ ServedInv /\ [Next]_vars => ServedInv'
    <2> SUFFICES ASSUME TypeOK, CallsInv, ServedInv, [Next]_vars PROVE ServedInv'
      OBVIOUS
    <2>1. ASSUME NEW s \in Submissions, Submit(s) PROVE ServedInv'
      <3>1. TypeOK' /\ CallsInv
        BY <2>1, SubmitType
      <3>2. wrote[s] = 0 /\ form'[s].secret \in Secrets
        BY <2>1, <3>1, SubmitMoves, ProvisionAssumption DEF CallsInv, TypeOK, Form
      <3>3. vault[form'[s].secret].version >= 0
        BY <3>2 DEF TypeOK, Secret
      <3> QED
        BY <2>1, <3>2, <3>3, SubmitMoves DEF ServedInv, stores
    <2>2. CASE ServiceReconciled
      <3>1. /\ service'.observed = service.generation /\ service'.generation = service.generation
            /\ \A n \in Secrets : service'.sees[n] = vault[n].version
        BY <2>2 DEF ServiceReconciled, TypeOK
      <3>2. UNCHANGED <<at, form, wrote, vault>> /\ service.generation \in Nat
        BY <2>2 DEF ServiceReconciled, locals, TypeOK
      <3>3. \A n \in Secrets : vault[n].version \in Nat
        BY DEF TypeOK, Secret
      <3>4. \A t \in Submissions : wrote[t] \in Nat /\ form[t].secret \in Secrets
        BY FormType DEF TypeOK
      <3> QED
        BY <3>1, <3>2, <3>3, <3>4 DEF ServedInv
    <2>3. CASE ServiceDeleted
      <3>1. /\ service'.observed = service.observed /\ service'.generation = service.generation
            /\ service'.sees = service.sees
        BY <2>3 DEF ServiceDeleted, TypeOK
      <3>2. UNCHANGED <<at, form, wrote, vault>>
        BY <2>3 DEF ServiceDeleted, locals
      <3> QED
        BY <3>1, <3>2 DEF ServedInv
    <2>4. CASE (\E s \in Submissions : JobPodEnds(s)) \/ UNCHANGED vars
      <3>1. UNCHANGED <<at, form, wrote, vault, service>>
        BY <2>4 DEF JobPodEnds, vars, locals, stores
      <3> QED
        BY <3>1 DEF ServedInv
    <2> QED
      BY <2>1, <2>2, <2>3, <2>4, ServedStep DEF Next
  <1>3. ServedInv => SuccessIsServed
    BY DEF ServedInv, SuccessIsServed
  <1> QED
    BY <1>1, <1>2, <1>3, TypeInvariant, PTL DEF Spec
-----------------------------------------------------------------------------
\* Forms are submitted in order.  One at a time, the later ones wait until a
\* submission has ended, so nobody interferes with it: its cluster stays new,
\* Vault holds what it wrote, and what it read is what was there.
BeforeCreation == {"resolveVault", "readVault", "writeVault", "retryVault",
                   "bootstrapSecret", "createCluster"}

InOrder == \A s, t \in Submissions : (s < t /\ at[t] # "idle") => at[s] # "idle"

OwnerAgrees(c) ==
    LET s == clusters[c] IN
    /\ at[s] # "idle"
    /\ bootstrap[c] = s
    /\ vault[form[s].secret].connection \in Submissions
    /\ vault[form[s].secret].connection >= s

SerialInv ==
    /\ \A s, t \in Submissions : (Running(s) /\ s < t) => at[t] = "idle"
    /\ \A s \in Submissions :
          /\ (form[s].kind = "postgres" /\ at[s] \in BeforeCreation) =>
                clusters[form[s].cluster] = None
          /\ (at[s] \in {"writeVault", "retryVault"} /\ form[s].kind # "neon") =>
                (vault[form[s].secret].neon # None => existing[s].neon # None)
          /\ at[s] \in {"bootstrapSecret", "createCluster"} =>
                vault[form[s].secret].connection = s
          /\ at[s] = "createCluster" => bootstrap[form[s].cluster] = s
    /\ \A c \in Clusters : clusters[c] # None => OwnerAgrees(c)

LEMMA OthersWait ==
    ASSUME SerialInv, NEW s \in Submissions, Running(s)
    PROVE  \A t \in Submissions : t # s => ~Running(t)
  <1> SUFFICES ASSUME NEW t \in Submissions, t # s, Running(t) PROVE FALSE
    OBVIOUS
  <1>1. s < t \/ t < s
    BY ProvisionAssumption
  <1> QED
    BY <1>1 DEF SerialInv, Running

\* The only step to the calls before the creation, and to the write.
LEMMA MoveFromCheck ==
    ASSUME TypeOK, CallsInv, NEW s \in Submissions, Advance(s) \/ CallFails(s)
    PROVE  /\ (form[s].kind = "postgres" /\ at'[s] \in BeforeCreation) =>
                 at[s] \in BeforeCreation \ {"createCluster"} \/ clusters[form[s].cluster] = None
           /\ at'[s] = "writeVault" => ReadVault(s)
           /\ at'[s] = "retryVault" => at[s] = "writeVault"
           /\ ReadVault(s) \/ UNCHANGED existing
  <1>1. Moves(s)
    BY StepMoves
  <1>2. form[s].kind \in Kinds /\ IsCallOf(form[s].kind, at[s])
    BY <1>1, FormType DEF Moves, CallsInv
  <1>3. PICK next \in Calls \union Ended :
          /\ at' = [at EXCEPT ![s] = next]
          /\ \/ next = "failed"
             \/ next = After(s)
             \/ next = "retryVault" /\ at[s] = "writeVault"
             \/ next = "ok" /\ form[s].kind = "delete"
    BY <1>1 DEF Moves
  <1>4. at'[s] = next
    BY <1>3 DEF TypeOK
  <1>5. (form[s].kind = "postgres" /\ After(s) \in BeforeCreation) =>
            at[s] \in (BeforeCreation \ {"createCluster"}) \union {"ensureCluster"}
    BY <1>2 DEF After, PostgresCalls, IsCallOf, BeforeCreation
  <1>6. After(s) = "writeVault" => at[s] = "readVault"
    BY <1>2 DEF After, PostgresCalls, NeonCalls, BranchCalls, DeleteCalls, IsCallOf, Kinds
  <1>7. ASSUME at'[s] \notin {"failed", "retryVault"}
        PROVE  /\ at[s] = "ensureCluster" => EnsurePostgresClusterIsNew(s)
               /\ at[s] = "readVault" => ReadVault(s)
    <2>1. Advance(s) /\ ~WaitTimesOut(s)
      BY <1>7 DEF CallFails, WaitTimesOut, Goto, TypeOK
    <2> QED
      BY <2>1 DEF Advance, GetService, EnsurePostgresClusterIsNew,
         EnsureNeonProjectIsNew, GetNeonProject, EnsureNeonBranchIsNew, ResolveDaprVault,
         ResolveNeonBucketConfig, ReadVault, WaitForJobComplete, WaitForKnativeServiceReady,
         WriteVault, CreateBootstrapSecret, CreatePostgresCluster, CreateRustfsBucketJob,
         CreateNeonProject, CreateNeonBranch, DeleteNeonBranch, ReloadKnativeService, Check,
         Create
  <1>8. (EnsurePostgresClusterIsNew(s) /\ at'[s] # "failed") => clusters[form[s].cluster] = None
    BY DEF EnsurePostgresClusterIsNew, Check, Goto, TypeOK
  <1>9. ReadVault(s) \/ UNCHANGED existing
    BY DEF Advance, CallFails, GetService, EnsurePostgresClusterIsNew,
       EnsureNeonProjectIsNew, GetNeonProject, EnsureNeonBranchIsNew, ResolveDaprVault,
       ResolveNeonBucketConfig, WaitForJobComplete, WaitForKnativeServiceReady,
       WriteVault, CreateBootstrapSecret, CreatePostgresCluster, CreateRustfsBucketJob,
       CreateNeonProject, CreateNeonBranch, DeleteNeonBranch, ReloadKnativeService,
       WaitTimesOut, Check
  <1>10. After(s) # "retryVault"
    BY <1>2, AfterFrom
  <1> QED
    BY <1>3, <1>4, <1>5, <1>6, <1>7, <1>8, <1>9, <1>10 DEF BeforeCreation

\* What a write leaves in Vault.
LEMMA WrittenSecret ==
    ASSUME TypeOK, NEW s \in Submissions, WriteVault(s)
    PROVE  /\ vault'[form[s].secret].connection = s
           /\ vault'[form[s].secret].neon = IF form[s].kind = "postgres" THEN existing[s].neon ELSE s
           /\ \A n \in Secrets \ {form[s].secret} : vault'[n] = vault[n]
  <1> DEFINE version == vault[form[s].secret].version + 1
             secret == [Merged(s) EXCEPT !.version = version]
  <1>1. form[s].secret \in Secrets /\ existing[s] \in Secret
    BY FormType DEF TypeOK
  <1>2. /\ secret.connection = s
        /\ secret.neon = IF form[s].kind = "postgres" THEN existing[s].neon ELSE s
    BY <1>1 DEF Merged, Secret
  <1>3. vault' = [vault EXCEPT ![form[s].secret] = secret]
    BY DEF WriteVault
  <1> HIDE DEF secret
  <1> QED
    BY <1>1, <1>2, <1>3 DEF TypeOK

LEMMA SerialStep ==
    ASSUME TypeOK, CallsInv, SerialInv, NEW s \in Submissions, Advance(s) \/ CallFails(s)
    PROVE  SerialInv'
  <1>1. form[s].cluster \in Clusters /\ form[s].secret \in Secrets /\ form' = form
    BY FormType, MoveFrom
  <1>2. Running(s) /\ \A t \in Submissions : t # s => ~Running(t) /\ at'[t] = at[t]
    BY OthersWait, MoveFrom, StepMoves DEF Moves
  <1>3. \A t, u \in Submissions : (Running(t)' /\ t < u) => at'[u] = "idle"
    BY <1>2, ProvisionAssumption DEF SerialInv, Running
  <1>4. None \notin Submissions
    BY ProvisionAssumption
  <1>5. \A c \in Clusters :
            \/ clusters'[c] = clusters[c]
            \/ clusters'[c] = s /\ c = form[s].cluster /\ CreatePostgresCluster(s)
    BY <1>1, StepFrames DEF CreatePostgresCluster, Create, Created, TypeOK
  <1>6. \A c \in Clusters : bootstrap'[c] = bootstrap[c]
                            \/ (CreateBootstrapSecret(s) /\ c = form[s].cluster)
    BY <1>1, StepFrames DEF CreateBootstrapSecret, TypeOK
  <1>7. CreateBootstrapSecret(s) => bootstrap'[form[s].cluster] = s /\ UNCHANGED vault
    BY <1>1 DEF CreateBootstrapSecret, TypeOK
  <1>8. /\ CreatePostgresCluster(s) => at[s] = "createCluster" /\ UNCHANGED <<vault, bootstrap>>
        /\ CreateBootstrapSecret(s) => at[s] = "bootstrapSecret" /\ UNCHANGED vault
        /\ WriteVault(s) => at[s] \in {"writeVault", "retryVault"} /\ UNCHANGED <<existing, clusters, bootstrap>>
        /\ ReadVault(s) => UNCHANGED <<vault, clusters>> /\ existing'[s] = vault[form[s].secret]
    BY DEF CreatePostgresCluster, Create, CreateBootstrapSecret, WriteVault, ReadVault, stores, TypeOK
  <1>9. IsCallOf(form[s].kind, at[s])
    BY <1>2 DEF CallsInv
  <1>10. ASSUME NEW t \in Submissions
         PROVE  /\ (form'[t].kind = "postgres" /\ at'[t] \in BeforeCreation) =>
                      clusters'[form'[t].cluster] = None
                /\ (at'[t] \in {"writeVault", "retryVault"} /\ form'[t].kind # "neon") =>
                      (vault'[form'[t].secret].neon # None => existing'[t].neon # None)
                /\ at'[t] \in {"bootstrapSecret", "createCluster"} =>
                      vault'[form'[t].secret].connection = t
                /\ at'[t] = "createCluster" => bootstrap'[form'[t].cluster] = t
    <2>1. CASE t # s
      BY <1>2, <2>1 DEF Running, BeforeCreation
    <2>2. CASE t = s
      <3>1. (form[s].kind = "postgres" /\ at'[s] \in BeforeCreation) =>
                clusters'[form[s].cluster] = None
        <4> SUFFICES ASSUME form[s].kind = "postgres", at'[s] \in BeforeCreation
                     PROVE  clusters'[form[s].cluster] = None
          OBVIOUS
        <4>1. clusters[form[s].cluster] = None
          BY MoveFromCheck DEF SerialInv
        <4>2. ~CreatePostgresCluster(s)
          <5>1. at[s] = "createCluster" => at'[s] \in {"reload", "failed"} \/ ~CreatePostgresCluster(s)
            BY DEF CreatePostgresCluster, Create, Proceed, Goto, After, PostgresCalls, TypeOK
          <5> QED
            BY <1>8, <5>1 DEF BeforeCreation
        <4> QED
          BY <1>1, <1>5, <4>1, <4>2
      <3>2. ASSUME at'[s] \in {"writeVault", "retryVault"}, form[s].kind # "neon",
                   vault'[form[s].secret].neon # None
            PROVE  existing'[s].neon # None
        <4>1. CASE at'[s] = "writeVault"
          BY <1>8, <3>2, <4>1, MoveFromCheck
        <4>2. CASE at'[s] = "retryVault"
          <5>1. at[s] = "writeVault" /\ form[s].kind = "postgres"
            BY <1>9, <3>2, <4>2, MoveFromCheck DEF IsCallOf
          <5>2. UNCHANGED existing
            BY <5>1, MoveFromCheck DEF ReadVault
          <5> QED
            BY <3>2, <5>1, <5>2, WrittenSecret, StepFrames DEF SerialInv
        <4> QED
          BY <3>2, <4>1, <4>2
      <3>3. at'[s] \in {"bootstrapSecret", "createCluster"} => vault'[form[s].secret].connection = s
        BY <1>8, MoveFrom, WrittenSecret DEF SerialInv
      <3>4. at'[s] = "createCluster" => bootstrap'[form[s].cluster] = s
        BY <1>7, MoveFrom
      <3> QED
        BY <1>1, <2>2, <3>1, <3>2, <3>3, <3>4
    <2> QED
      BY <2>1, <2>2
  <1>11. ASSUME NEW c \in Clusters, clusters'[c] # None
         PROVE  OwnerAgrees(c)'
    <2>1. CASE clusters'[c] = clusters[c]
      <3> DEFINE u == clusters[c]
      <3>1. u \in Submissions /\ OwnerAgrees(c)
        BY <1>11, <2>1 DEF TypeOK, SerialInv
      <3>2. at'[u] # "idle" /\ form[u].secret \in Secrets
        BY <1>2, <3>1, FormType, MoveFrom DEF OwnerAgrees
      <3>3. u \in Nat /\ s \in Nat /\ u <= s
        <4>1. at[u] # "idle"
          BY <3>1 DEF OwnerAgrees
        <4>2. ~(s < u)
          BY <1>2, <3>1, <4>1 DEF SerialInv
        <4>3. u \in Nat /\ s \in Nat
          BY <3>1, ProvisionAssumption
        <4> HIDE DEF u
        <4> QED
          BY <4>2, <4>3
      <3>4. bootstrap'[c] = u
        <4>1. CASE CreateBootstrapSecret(s) /\ c = form[s].cluster
          <5>1. at[s] = "bootstrapSecret" /\ form[s].kind = "postgres"
            BY <1>8, <1>9, <4>1 DEF IsCallOf
          <5>2. clusters[c] = None
            BY <4>1, <5>1 DEF SerialInv, BeforeCreation
          <5> QED
            BY <1>11, <2>1, <5>2
        <4>2. CASE ~(CreateBootstrapSecret(s) /\ c = form[s].cluster)
          BY <1>6, <3>1, <4>2 DEF OwnerAgrees
        <4> QED
          BY <4>1, <4>2
      <3>5. vault'[form[u].secret].connection \in {vault[form[u].secret].connection, s}
        BY <3>2, WrittenSecret, StepFrames
      <3>6. /\ vault'[form[u].secret].connection \in Submissions
            /\ vault'[form[u].secret].connection >= u
        BY <3>1, <3>3, <3>5 DEF OwnerAgrees
      <3> QED
        BY <1>1, <2>1, <3>2, <3>4, <3>6 DEF OwnerAgrees
    <2>2. CASE clusters'[c] = s /\ c = form[s].cluster /\ CreatePostgresCluster(s)
      <3>1. bootstrap'[c] = s /\ vault'[form[s].secret].connection = s /\ at'[s] # "idle"
        BY <1>8, <2>2, MoveFrom DEF SerialInv
      <3>2. s >= s
        BY ProvisionAssumption
      <3> QED
        BY <1>1, <2>2, <3>1, <3>2 DEF OwnerAgrees
    <2> QED
      BY <1>5, <2>1, <2>2
  <1> QED
    BY <1>3, <1>10, <1>11 DEF SerialInv

\* A form is submitted when nobody is at work and the later ones still wait.
LEMMA SerialSubmit ==
    ASSUME TypeOK, InOrder, serial, SerialInv, NEW s \in Submissions, Submit(s)
    PROVE  SerialInv'
  <1>1. /\ at[s] = "idle" /\ at'[s] \in {"failed", "ensureCluster", "getService"}
        /\ \A t \in Submissions \ {s} : at'[t] = at[t] /\ form'[t] = form[t]
        /\ UNCHANGED <<existing, clusters, bootstrap, vault>>
    BY SubmitMoves DEF stores, Submit
  <1>2. \A t \in Submissions : ~Running(t)
    BY DEF Submit
  <1>3. \A t \in Submissions : (s < t) => at'[t] = "idle"
    <2> SUFFICES ASSUME NEW t \in Submissions, s < t PROVE at'[t] = "idle"
      OBVIOUS
    <2>1. at[t] = "idle" /\ t # s
      BY <1>1, ProvisionAssumption DEF InOrder
    <2> QED
      BY <1>1, <2>1
  <1>4. \A t, u \in Submissions : (Running(t)' /\ t < u) => at'[u] = "idle"
    BY <1>1, <1>2, <1>3 DEF Running
  <1>5. \A t \in Submissions : at'[t] \notin BeforeCreation
    BY <1>1, <1>2 DEF Running, BeforeCreation
  <1>6. ASSUME NEW c \in Clusters, clusters'[c] # None PROVE OwnerAgrees(c)'
    <2>1. OwnerAgrees(c) /\ clusters[c] \in Submissions /\ clusters'[c] = clusters[c]
      BY <1>1, <1>6 DEF SerialInv, TypeOK
    <2>2. clusters[c] # s
      BY <1>1, <2>1 DEF OwnerAgrees
    <2> QED
      BY <1>1, <2>1, <2>2 DEF OwnerAgrees
  <1> QED
    BY <1>4, <1>5, <1>6 DEF SerialInv, BeforeCreation

LEMMA SerialInvariant == Spec => [](InOrder /\ (serial => SerialInv))
  <1>1. Init => InOrder /\ SerialInv
    BY DEF Init, InOrder, SerialInv, BeforeCreation, Running
  <1>2. TypeOK /\ CallsInv /\ InOrder /\ (serial => SerialInv) /\ [Next]_vars
            => (InOrder /\ (serial => SerialInv))'
    <2> SUFFICES ASSUME TypeOK, CallsInv, InOrder, serial => SerialInv, [Next]_vars
                 PROVE  InOrder' /\ (serial' => SerialInv')
      OBVIOUS
    <2>1. ASSUME NEW s \in Submissions, Submit(s) PROVE InOrder' /\ (serial' => SerialInv')
      <3>1. InOrder'
        BY <2>1, SubmitMoves DEF InOrder, Submit
      <3>2. serial' = serial
        BY <2>1 DEF Submit
      <3> QED
        BY <2>1, <3>1, <3>2, SerialSubmit
    <2>2. ASSUME NEW s \in Submissions, Advance(s) \/ CallFails(s)
          PROVE  InOrder' /\ (serial' => SerialInv')
      <3>1. InOrder'
        BY <2>2, MoveFrom DEF InOrder
      <3>2. serial' = serial
        BY <2>2, StepMoves DEF Moves
      <3> QED
        BY <2>2, <3>1, <3>2, SerialStep
    <2>3. CASE \/ \E s \in Submissions : JobPodEnds(s)
               \/ ServiceReconciled \/ ServiceDeleted \/ UNCHANGED vars
      <3>1. UNCHANGED <<serial, form, at, existing, clusters, bootstrap, vault>>
        BY <2>3 DEF JobPodEnds, ServiceReconciled, ServiceDeleted, vars, locals, stores
      <3> QED
        BY <3>1 DEF InOrder, SerialInv, OwnerAgrees, Running
    <2> QED
      BY <2>1, <2>2, <2>3 DEF Next
  <1> QED
    BY <1>1, <1>2, TypeInvariant, PTL DEF Spec

\* When one form is submitted at a time, whatever calls fail or lose their
\* answer, a cluster is initialised with its creator's password and Vault holds
\* that password or the connection of a later submission.
THEOREM CredentialsAgreement == Spec => []CredentialsAgree
  <1>1. TypeOK /\ (serial => SerialInv) => CredentialsAgree
    <2> SUFFICES ASSUME TypeOK, serial, SerialInv, NEW c \in Clusters, clusters[c] # None
                 PROVE  /\ bootstrap[c] = clusters[c]
                        /\ \/ vault[form[clusters[c]].secret].connection = clusters[c]
                           \/ vault[form[clusters[c]].secret].connection
                                  \in {t \in Submissions : t > clusters[c]}
      BY DEF CredentialsAgree
    <2>1. OwnerAgrees(c) /\ clusters[c] \in Submissions
      BY DEF SerialInv, TypeOK
    <2> DEFINE s == clusters[c]
               holder == vault[form[s].secret].connection
    <2>2. bootstrap[c] = s /\ holder \in Submissions /\ holder >= s
      BY <2>1 DEF OwnerAgrees
    <2>3. holder \in Nat /\ s \in Nat
      BY <2>1, <2>2, ProvisionAssumption
    <2> HIDE DEF s, holder
    <2>4. holder = s \/ holder > s
      BY <2>2, <2>3
    <2> QED
      BY <2>2, <2>4 DEF s, holder
  <1> QED
    BY <1>1, SerialInvariant, TypeInvariant, PTL

\* When one form is submitted at a time, a submission drops no group of keys
\* that another one put into the Vault secret.
THEOREM KeysAreKept == Spec => KeysKept
  <1>1. TypeOK /\ CallsInv /\ (serial => SerialInv) /\ [Next]_vars =>
            [serial => \A n \in Secrets : \A key \in {"connection", "neon"} :
                 vault[n][key] # None => vault'[n][key] # None]_vars
    <2> SUFFICES ASSUME TypeOK, CallsInv, serial, SerialInv, Next,
                        NEW n \in Secrets, NEW key \in {"connection", "neon"},
                        vault[n][key] # None
                 PROVE  vault'[n][key] # None
      OBVIOUS
    <2>1. CASE UNCHANGED vault
      BY <2>1
    <2>2. ASSUME NEW s \in Submissions, WriteVault(s) PROVE vault'[n][key] # None
      <3>1. CASE n # form[s].secret
        BY <2>2, <3>1, WrittenSecret
      <3>2. CASE n = form[s].secret
        <4>1. vault'[n].connection = s /\ s # None
          BY <2>2, <3>2, WrittenSecret, ProvisionAssumption
        <4>2. form[s].kind = "postgres" \/ form[s].kind = "neon"
          BY <2>2 DEF WriteVault, CallsInv, IsCallOf, Running
        <4>3. CASE key = "connection"
          BY <4>1, <4>3
        <4>4. CASE key = "neon" /\ form[s].kind = "neon"
          BY <2>2, <3>2, <4>1, <4>4, WrittenSecret
        <4>5. CASE key = "neon" /\ form[s].kind = "postgres"
          <5>1. existing[s].neon # None
            BY <2>2, <3>2, <4>5 DEF SerialInv, WriteVault
          <5> QED
            BY <2>2, <3>2, <4>5, <5>1, WrittenSecret
        <4> QED
          BY <4>2, <4>3, <4>4, <4>5
      <3> QED
        BY <3>1, <3>2
    <2>3. \/ UNCHANGED vault
          \/ \E s \in Submissions : WriteVault(s)
      BY StepFrames, SubmitMoves
      DEF Next, JobPodEnds, ServiceReconciled, ServiceDeleted, stores
    <2> QED
      BY <2>1, <2>2, <2>3
  <1> QED
    BY <1>1, SerialInvariant, TypeInvariant, PTL DEF Spec, KeysKept
=============================================================================
