----------------------------- MODULE Provision -----------------------------
(***************************************************************************)
(* The console's provisioning actions: createServicePostgres,              *)
(* createServiceNeonDatabase, createServiceNeonBranch and                  *)
(* deleteServiceNeonBranch (packages/neki-console/lib/actions), submitted  *)
(* by any number of users for one Knative service.  An action is a         *)
(* sequence of calls to Kubernetes and Vault without a transaction; one    *)
(* step here is one call.                                                  *)
(*                                                                         *)
(* A call may fail without effect, and one that has an effect may lose its *)
(* answer.  Either makes the action report failure, and so does a server   *)
(* that stops in the middle.  Namespaces, and what is copied into the spec *)
(* of an object, are left out.  A password, a cluster and a project are    *)
(* the submission that made them.                                          *)
(***************************************************************************)
EXTENDS Naturals

CONSTANTS
    Submissions,    \* 1 .. N: the forms submitted, in that order
    Forms,          \* what may be submitted
    Clusters,       \* names of CloudNativePG clusters
    Projects,       \* names of Neon projects
    Branches,       \* names of Neon branches
    Secrets,        \* names of Vault secrets
    None

Kinds == {"postgres", "neon", "branch", "delete"}

\* What the validators tell well-formed values of.
Fields == {"name", "secretName", "identifier", "storage", "pgVersion", "bucketName"}

\* What a look-up of configuration may find missing: a Dapr component of type
\* Vault with a token and an address, a Neon cluster with a bucket name.
VaultConfig == {"vaultType", "vaultToken", "vaultAddr"}
BucketConfig == {"bucketSecret", "bucketName"}

\* A form after blank fields got their defaults, its malformed fields, and
\* what is missing in the configuration it names.
Form == [kind: Kinds, bad: SUBSET Fields, missing: SUBSET (VaultConfig \union BucketConfig),
         cluster: Clusters, project: Projects, branch: Branches, secret: Secrets]

ASSUME ProvisionAssumption ==
    /\ Submissions \subseteq Nat
    /\ Forms \subseteq Form
    /\ Forms # {}
    /\ None \notin Submissions \union [project: Projects, by: Submissions]
                   \union [failed: 0 .. 4, succeeded: BOOLEAN]

VARIABLES
    serial,     \* whether the users submit one form at a time
    form,       \* the form of each submission
    at,         \* the call it makes next, or how it ended
    existing,   \* the content of its Vault secret as it read it
    wrote,      \* the version of the secret it wrote, 0 for none (history)
    vault,      \* each secret: version, and who wrote which group of keys
    bootstrap,  \* whose password is in the bootstrap secret of each cluster
    clusters,   \* who created each CloudNativePG cluster
    projects,   \* who created each Neon project
    branches,   \* each Neon branch: its project and who created it
    jobs,       \* the bucket job of each submission
    bucket,     \* whether the bucket of the Neon cluster exists
    service     \* the Knative service

locals == <<serial, form, at, existing, wrote>>
stores == <<vault, bootstrap, clusters, projects, branches, jobs, bucket, service>>
vars == <<locals, stores>>

Ended == {"ok", "failed"}
Running(s) == at[s] \notin Ended \union {"idle"}

Calls == {"ensureCluster", "getService", "resolveBucket", "ensureProject",
    "ensureBranch", "getProject", "resolveVault", "readVault", "writeVault",
    "retryVault", "bootstrapSecret", "createCluster", "createJob", "waitJob",
    "createProject", "createBranch", "deleteBranch", "reload", "waitReady"}

\* What is in Vault: the five postgres keys, always written together, and the
\* keys only a Neon database has.
Secret == [version: Nat, connection: Submissions \union {None},
           neon: Submissions \union {None}]

NoSecret == [version |-> 0, connection |-> None, neon |-> None]

-----------------------------------------------------------------------------
\* What each action checks before it starts.  The Postgres version of
\* createServicePostgres is not checked.
PostgresValidated == {"name", "secretName", "identifier", "storage"}
NeonValidated == {"name", "secretName", "identifier", "pgVersion"}
BranchValidated == {"name", "pgVersion", "bucketName"}
DeleteValidated == {"name"}

Rejected(f) ==
    LET validated == CASE f.kind = "postgres" -> PostgresValidated
                       [] f.kind = "neon" -> NeonValidated
                       [] f.kind = "branch" -> BranchValidated
                       [] OTHER -> DeleteValidated
    IN  f.bad \intersect validated # {}

\* Variant: the cluster is created without its bootstrap secret.
WithoutBootstrap(call) ==
    CASE call = "ensureCluster" -> "resolveVault"
      [] call = "resolveVault" -> "readVault"
      [] call = "readVault" -> "writeVault"
      [] call = "writeVault" -> "createCluster"
      [] call = "createCluster" -> "reload"
      [] call = "reload" -> "waitReady"
      [] OTHER -> "ok"

\* The calls of each action: which one follows `call`.
PostgresCalls(call) ==
    CASE call = "ensureCluster" -> "resolveVault"
      [] call = "resolveVault" -> "readVault"
      [] call = "readVault" -> "writeVault"
      [] call = "writeVault" -> "bootstrapSecret"
      [] call = "bootstrapSecret" -> "createCluster"
      [] call = "createCluster" -> "reload"
      [] call = "reload" -> "waitReady"
      [] OTHER -> "ok"

NeonCalls(call) ==
    CASE call = "getService" -> "resolveBucket"
      [] call = "resolveBucket" -> "ensureProject"
      [] call = "ensureProject" -> "ensureBranch"
      [] call = "ensureBranch" -> "resolveVault"
      [] call = "resolveVault" -> "createJob"
      [] call = "createJob" -> "waitJob"
      [] call = "waitJob" -> "createProject"
      [] call = "createProject" -> "createBranch"
      [] call = "createBranch" -> "readVault"
      [] call = "readVault" -> "writeVault"
      [] call = "writeVault" -> "reload"
      [] call = "reload" -> "waitReady"
      [] OTHER -> "ok"

BranchCalls(call) ==
    CASE call = "getService" -> "getProject"
      [] call = "getProject" -> "ensureBranch"
      [] call = "ensureBranch" -> "createBranch"
      [] OTHER -> "ok"

DeleteCalls(call) == IF call = "getService" THEN "deleteBranch" ELSE "ok"

\* The call that follows the one submission s makes.
After(s) ==
    LET call == IF at[s] = "retryVault" THEN "writeVault" ELSE at[s] IN
    CASE form[s].kind = "postgres" -> PostgresCalls(call)
      [] form[s].kind = "neon" -> NeonCalls(call)
      [] form[s].kind = "branch" -> BranchCalls(call)
      [] OTHER -> DeleteCalls(call)

Init ==
    /\ serial \in BOOLEAN
    /\ form = [s \in Submissions |-> CHOOSE f \in Forms : TRUE]
    /\ at = [s \in Submissions |-> "idle"]
    /\ existing = [s \in Submissions |-> NoSecret]
    /\ wrote = [s \in Submissions |-> 0]
    /\ vault = [n \in Secrets |-> NoSecret]
    /\ bootstrap = [c \in Clusters |-> None]
    /\ clusters = [c \in Clusters |-> None]
    /\ projects = [p \in Projects |-> None]
    /\ branches = [b \in Branches |-> None]
    /\ jobs = [s \in Submissions |-> None]
    /\ bucket = FALSE
    /\ service = [exists |-> TRUE, generation |-> 1, observed |-> 1,
                  ready |-> TRUE, sees |-> [n \in Secrets |-> 0]]

Goto(s, next) == at' = [at EXCEPT ![s] = next]

\* A call that changed something has succeeded, or its answer was lost.
Proceed(s) == \E outcome \in {After(s), "failed"} : Goto(s, outcome)

\* An action starts: its form is read and checked.
Submit(s) ==
    /\ at[s] = "idle"
    /\ \A t \in Submissions : t < s => at[t] # "idle"
    /\ serial => \A t \in Submissions : ~Running(t)
    /\ \E f \in Forms :
          /\ form' = [form EXCEPT ![s] = f]
          /\ Goto(s, IF Rejected(f) THEN "failed"
                     ELSE IF f.kind = "postgres" THEN "ensureCluster"
                     ELSE "getService")
    /\ UNCHANGED <<serial, existing, wrote, stores>>

\* A call fails without effect.  A POST to Vault that did not get through is
\* sent again by fetchVault, to the local port-forward of the same Vault.
CallFails(s) ==
    /\ Running(s)
    /\ \/ Goto(s, "failed")
       \/ at[s] = "writeVault" /\ Goto(s, "retryVault")
    /\ UNCHANGED <<serial, form, existing, wrote, stores>>

\* Variant: only the wait for the bucket job has a deadline.
JobTimesOut(s) ==
    /\ at[s] = "waitJob"
    /\ Goto(s, "failed")
    /\ UNCHANGED <<serial, form, existing, wrote, stores>>

\* Ninety seconds for the service, two minutes for the bucket job.
WaitTimesOut(s) ==
    /\ at[s] \in {"waitJob", "waitReady"}
    /\ Goto(s, "failed")
    /\ UNCHANGED <<serial, form, existing, wrote, stores>>

-----------------------------------------------------------------------------
\* Calls that only read.

\* deleteServiceNeonBranch takes every 404 for success, also this one.
GetService(s) ==
    /\ at[s] = "getService"
    /\ Goto(s, IF service.exists THEN After(s)
               ELSE IF form[s].kind = "delete" THEN "ok" ELSE "failed")
    /\ UNCHANGED <<serial, form, existing, wrote, stores>>

\* A call whose answer decides whether the action goes on.
Check(s, call, holds) ==
    /\ at[s] = call
    /\ Goto(s, IF holds THEN After(s) ELSE "failed")
    /\ UNCHANGED <<serial, form, existing, wrote, stores>>

\* Variant: a cluster of that name may exist.
EnsureNothing(s) == Check(s, "ensureCluster", TRUE)

EnsurePostgresClusterIsNew(s) ==
    Check(s, "ensureCluster", clusters[form[s].cluster] = None)

EnsureNeonProjectIsNew(s) ==
    Check(s, "ensureProject", projects[form[s].project] = None)

GetNeonProject(s) == Check(s, "getProject", projects[form[s].project] # None)

EnsureNeonBranchIsNew(s) ==
    Check(s, "ensureBranch", branches[form[s].branch] = None)

\* The component is of type Vault, refers to a token in a secret that has it,
\* and names an address.
ResolveDaprVault(s) ==
    Check(s, "resolveVault", form[s].missing \intersect VaultConfig = {})

\* The cluster refers to a secret with a valid bucket name.
ResolveNeonBucketConfig(s) ==
    Check(s, "resolveBucket", form[s].missing \intersect BucketConfig = {})

\* A secret that does not exist is read as empty.
ReadVault(s) ==
    /\ at[s] = "readVault"
    /\ existing' = [existing EXCEPT ![s] = vault[form[s].secret]]
    /\ Goto(s, After(s))
    /\ UNCHANGED <<serial, form, wrote, stores>>

\* Variant: the wait is over when the job is.
WaitForJobEnd(s) ==
    /\ at[s] = "waitJob"
    /\ jobs[s].succeeded \/ jobs[s].failed >= 3
    /\ Goto(s, After(s))
    /\ UNCHANGED <<serial, form, existing, wrote, stores>>

\* Three failed pods are the end of the wait, although the job makes a fourth.
WaitForJobComplete(s) ==
    /\ at[s] = "waitJob"
    /\ jobs[s].succeeded \/ jobs[s].failed >= 3
    /\ Goto(s, IF jobs[s].succeeded THEN After(s) ELSE "failed")
    /\ UNCHANGED <<serial, form, existing, wrote, stores>>

\* Variant: the status is not compared with the generation.
ReadyAtAll == service.ready

ReadyAfterReload == service.ready /\ service.observed >= service.generation

WaitForKnativeServiceReady(s) ==
    /\ at[s] = "waitReady"
    /\ service.exists /\ ReadyAfterReload
    /\ Goto(s, After(s))
    /\ UNCHANGED <<serial, form, existing, wrote, stores>>

-----------------------------------------------------------------------------
\* Calls that change something.

\* Variant: only the new values are written.
WriteWithoutMerge(s) ==
    IF form[s].kind = "postgres" THEN [NoSecret EXCEPT !.connection = s]
    ELSE [NoSecret EXCEPT !.connection = s, !.neon = s]

\* What the secret was when read, with the new values over it.
Merged(s) ==
    IF form[s].kind = "postgres" THEN [existing[s] EXCEPT !.connection = s]
    ELSE [existing[s] EXCEPT !.connection = s, !.neon = s]

\* The POST to Vault, without check-and-set.  When it seems to fail it is
\* sent once more to the local port-forward of the same Vault.
WriteVault(s) ==
    /\ at[s] \in {"writeVault", "retryVault"}
    /\ LET n == form[s].secret
           version == vault[n].version + 1
       IN  /\ vault' = [vault EXCEPT ![n] = [Merged(s) EXCEPT !.version = version]]
           /\ wrote' = [wrote EXCEPT ![s] = version]
    /\ \/ Proceed(s)
       \/ at[s] = "writeVault" /\ Goto(s, "retryVault")
    /\ UNCHANGED <<serial, form, existing, bootstrap, clusters, projects,
                   branches, jobs, bucket, service>>

\* Created, or patched if it exists.
CreateBootstrapSecret(s) ==
    /\ at[s] = "bootstrapSecret"
    /\ bootstrap' = [bootstrap EXCEPT ![form[s].cluster] = s]
    /\ Proceed(s)
    /\ UNCHANGED <<serial, form, existing, wrote, vault, clusters, projects,
                   branches, jobs, bucket, service>>

\* Variant: an object that exists is replaced.
Replace(store, name, object) == [store EXCEPT ![name] = object]

\* What a create call leaves in a store: an object that exists stays (409).
Created(store, name, object) ==
    IF store[name] = None THEN [store EXCEPT ![name] = object] ELSE store

\* A create call moves on when the object in the store is its own.
Create(s, call, store, name, object) ==
    /\ at[s] = call
    /\ IF Created(store, name, object)[name] = object THEN Proceed(s)
       ELSE Goto(s, "failed")

CreatePostgresCluster(s) ==
    /\ Create(s, "createCluster", clusters, form[s].cluster, s)
    /\ clusters' = Created(clusters, form[s].cluster, s)
    /\ UNCHANGED <<serial, form, existing, wrote, vault, bootstrap, projects,
                   branches, jobs, bucket, service>>

\* Its name has a random suffix: no two submissions share a job.
CreateRustfsBucketJob(s) ==
    /\ at[s] = "createJob"
    /\ jobs' = [jobs EXCEPT ![s] = [failed |-> 0, succeeded |-> FALSE]]
    /\ Proceed(s)
    /\ UNCHANGED <<serial, form, existing, wrote, vault, bootstrap, clusters,
                   projects, branches, bucket, service>>

CreateNeonProject(s) ==
    /\ Create(s, "createProject", projects, form[s].project, s)
    /\ projects' = Created(projects, form[s].project, s)
    /\ UNCHANGED <<serial, form, existing, wrote, vault, bootstrap, clusters,
                   branches, jobs, bucket, service>>

CreateNeonBranch(s) ==
    LET branch == [project |-> form[s].project, by |-> s] IN
    /\ Create(s, "createBranch", branches, form[s].branch, branch)
    /\ branches' = Created(branches, form[s].branch, branch)
    /\ UNCHANGED <<serial, form, existing, wrote, vault, bootstrap, clusters,
                   projects, jobs, bucket, service>>

\* The project is not looked at; a branch that does not exist is a success.
DeleteNeonBranch(s) ==
    /\ at[s] = "deleteBranch"
    /\ branches' = [branches EXCEPT ![form[s].branch] = None]
    /\ Proceed(s)
    /\ UNCHANGED <<serial, form, existing, wrote, vault, bootstrap, clusters,
                   projects, jobs, bucket, service>>

\* New annotations on the template: a new generation, not observed yet.
ReloadKnativeService(s) ==
    /\ at[s] = "reload"
    /\ IF service.exists
       THEN /\ service' = [service EXCEPT !.generation = @ + 1]
            /\ Proceed(s)
       ELSE /\ Goto(s, "failed")
            /\ UNCHANGED service
    /\ UNCHANGED <<serial, form, existing, wrote, vault, bootstrap, clusters,
                   projects, branches, jobs, bucket>>

-----------------------------------------------------------------------------
\* The cluster around the console.

\* Variant: pods are made until a fourth one has failed again.
FiveFailures(s) ==
    /\ jobs[s] # None
    /\ ~jobs[s].succeeded /\ jobs[s].failed <= 4
    /\ jobs' = [jobs EXCEPT ![s].failed = @ + 1]
    /\ UNCHANGED <<locals, vault, bootstrap, clusters, projects, branches, bucket, service>>

\* A pod of the job ends; the fourth failure is the last (backoffLimit 3).
JobPodEnds(s) ==
    /\ jobs[s] # None
    /\ ~jobs[s].succeeded /\ jobs[s].failed < 4
    /\ \/ /\ jobs' = [jobs EXCEPT ![s].succeeded = TRUE]
          /\ bucket' = TRUE
       \/ /\ jobs' = [jobs EXCEPT ![s].failed = @ + 1]
          /\ UNCHANGED bucket
    /\ UNCHANGED <<locals, vault, bootstrap, clusters, projects, branches, service>>

\* Knative rolls the template out: its pods read their secrets from Vault.
ServiceReconciled ==
    /\ service.exists
    /\ service.observed >= service.generation => ~service.ready
    /\ \E ready \in BOOLEAN :
          service' = [service EXCEPT !.observed = service.generation,
              !.ready = ready, !.sees = [n \in Secrets |-> vault[n].version]]
    /\ UNCHANGED <<locals, vault, bootstrap, clusters, projects, branches, jobs, bucket>>

ServiceDeleted ==
    /\ service.exists
    /\ service' = [service EXCEPT !.exists = FALSE]
    /\ UNCHANGED <<locals, vault, bootstrap, clusters, projects, branches, jobs, bucket>>

Advance(s) ==
    \/ GetService(s) \/ EnsurePostgresClusterIsNew(s) \/ EnsureNeonProjectIsNew(s)
    \/ GetNeonProject(s) \/ EnsureNeonBranchIsNew(s) \/ ResolveDaprVault(s)
    \/ ResolveNeonBucketConfig(s) \/ ReadVault(s)
    \/ WaitForJobComplete(s) \/ WaitForKnativeServiceReady(s) \/ WriteVault(s)
    \/ CreateBootstrapSecret(s) \/ CreatePostgresCluster(s)
    \/ CreateRustfsBucketJob(s) \/ CreateNeonProject(s) \/ CreateNeonBranch(s)
    \/ DeleteNeonBranch(s) \/ ReloadKnativeService(s) \/ WaitTimesOut(s)

Next ==
    \/ \E s \in Submissions :
          Submit(s) \/ Advance(s) \/ CallFails(s) \/ JobPodEnds(s)
    \/ ServiceReconciled \/ ServiceDeleted

Spec == Init /\ [][Next]_vars

\* Every call returns, and both waits have a deadline.  Nothing is assumed of
\* job pods, the rollout or the users.
FairSpec == Spec /\ \A s \in Submissions : WF_vars(Advance(s))

-----------------------------------------------------------------------------
\* Types; a form that is being worked on passed its validation.
TypeOK ==
    /\ serial \in BOOLEAN
    /\ form \in [Submissions -> Forms]
    /\ at \in [Submissions -> Ended \union {"idle"} \union Calls]
    /\ existing \in [Submissions -> Secret]
    /\ wrote \in [Submissions -> Nat]
    /\ vault \in [Secrets -> Secret]
    /\ bootstrap \in [Clusters -> Submissions \union {None}]
    /\ clusters \in [Clusters -> Submissions \union {None}]
    /\ projects \in [Projects -> Submissions \union {None}]
    /\ branches \in [Branches -> [project: Projects, by: Submissions] \union {None}]
    /\ jobs \in [Submissions -> [failed: 0 .. 4, succeeded: BOOLEAN] \union {None}]
    /\ bucket \in BOOLEAN
    /\ service \in [exists: BOOLEAN, generation: Nat, observed: Nat,
                    ready: BOOLEAN, sees: [Secrets -> Nat]]
    /\ \A s \in Submissions :
          Running(s) => ~Rejected(form[s])

\* Whatever calls fail and whoever else submits: a Postgres cluster exists only
\* if its creator saved the credentials to Vault first, and if the bootstrap
\* secret it is initialised from exists.
CredentialsSavedFirst ==
    \A c \in Clusters : clusters[c] # None =>
        wrote[clusters[c]] > 0 /\ bootstrap[c] # None

\* No failure and no race leaves a Neon branch without its project, or a
\* project without the bucket its data goes to.
NeonObjectsOrdered ==
    /\ \A b \in Branches : branches[b] # None => projects[branches[b].project] # None
    /\ \A p \in Projects : projects[p] # None => bucket

\* The checks that a name is new are made long before the object is created.
\* All the same, of submissions that ask for one cluster or one project, at
\* most one reports success, and the object is the one it asked for.
OneSubmissionSucceeds ==
    \A s \in Submissions : at[s] = "ok" =>
        /\ form[s].kind = "postgres" => clusters[form[s].cluster] = s
        /\ form[s].kind = "neon" => projects[form[s].project] = s

\* When success is reported, the pods of the service have been started with
\* the connection the submission wrote, or with a later one.
SuccessIsServed ==
    \A s \in Submissions :
        (at[s] = "ok" /\ form[s].kind \in {"postgres", "neon"}) =>
            wrote[s] > 0 /\ service.sees[form[s].secret] >= wrote[s]

\* One form at a time, whatever fails in between: the cluster is initialised
\* with its creator's password, and Vault holds that password or the connection
\* of a later submission.
CredentialsAgree ==
    serial => \A c \in Clusters : clusters[c] # None =>
        LET s == clusters[c] IN
        /\ bootstrap[c] = s
        /\ vault[form[s].secret].connection = s
           \/ vault[form[s].secret].connection \in {t \in Submissions : t > s}

\* One form at a time, a submission drops no key another one put into Vault.
KeysKept ==
    [][serial => \A n \in Secrets : \A key \in {"connection", "neon"} :
           vault[n][key] # None => vault'[n][key] # None]_vars

\* Every submission is answered, whatever the job and the service do.
EverySubmissionEnds ==
    \A s \in Submissions : Running(s) ~> at[s] \in Ended
=============================================================================
