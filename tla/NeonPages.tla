----------------------------- MODULE NeonPages ------------------------------
(***************************************************************************)
(* The Neon pages of the console: the list of databases                    *)
(* (getServiceNeonDatabases), the page of one project                      *)
(* (getServiceNeonProjectBranches), and its forms that create and delete   *)
(* branches.  What the form sends back comes from the annotations of the   *)
(* branches the page was rendered from, and the page may be stale by then. *)
(*                                                                         *)
(* A page reads projects and branches by two calls that run side by side,  *)
(* and both may change between them.  Creating and deleting are single     *)
(* steps here; Provision has their calls.  Branches are created one after  *)
(* the other, at different times.  An annotation or label that is missing  *)
(* is "", and "n/a" is what the console shows for it.  Status, versions    *)
(* and addresses are left out.                                             *)
(***************************************************************************)
EXTENDS Integers, FiniteSets, Sequences, Arrange

CONSTANTS
    NeonProjects,   \* names of projects
    VaultPaths,     \* the Vault path each project is created with
    BranchNames,    \* names that are typed for branches
    MaxBranches,    \* bound on branches created one after the other
    NoObject

ASSUME NeonPagesAssumption == MaxBranches \in Nat

Service == "hello"

VARIABLES
    neonProjects,   \* each project: its labels and annotations
    neonBranches,   \* each branch: the same, its project and its age
    created,        \* branches created so far: their ages
    reading,        \* the page that is being read, and what its calls returned
    listing,        \* the list of databases as it is shown
    page,           \* the project page as it is shown
    answer          \* what became of the last branch form

neonVars == <<neonProjects, neonBranches, created, reading, listing, page, answer>>

EMPTY_VALUE == "n/a"
Missing == ""

\* JavaScript's ||, and an annotation as the console shows it.
Or(value, default) == IF value = Missing THEN default ELSE value

-----------------------------------------------------------------------------
\* The mappers, of the projects and branches that a page has read.
ToServiceNeonDatabase(branches, b) ==
    [branchName |-> b, linked |-> branches[b].partOf = Service,
     component |-> Or(branches[b].component, EMPTY_VALUE),
     path |-> Or(branches[b].path, EMPTY_VALUE), age |-> branches[b].age]

\* Branches of the service first, and the newest first among them.
SortServiceNeonDatabases(left, right) ==
    IF left.linked # right.linked THEN left.linked ELSE left.age > right.age

\* Variant: the branches of every project.
AnyProject(branches, p) == {b \in BranchNames : branches[b] # NoObject}

BranchesOf(branches, p) ==
    {b \in BranchNames : branches[b] # NoObject /\ branches[b].project = p}

Databases(branches, p) ==
    LET rows == {ToServiceNeonDatabase(branches, b) : b \in BranchesOf(branches, p)}
    IN  Arranged(rows, {pair \in rows \X rows : SortServiceNeonDatabases(pair[1], pair[2])})

\* The annotations of the project are there for one that has no branches.
ToServiceNeonProjectSummary(projects, branches, p) ==
    LET rows == Databases(branches, p)
    IN  [projectName |-> p,
         path |-> IF rows = <<>> THEN Or(projects[p].path, EMPTY_VALUE) ELSE rows[1].path]

GetServiceNeonDatabases(projects, branches) ==
    {ToServiceNeonProjectSummary(projects, branches, p) :
        p \in {q \in NeonProjects : projects[q] # NoObject}}

ErrorPage(p) ==
    [open |-> TRUE, project |-> p, error |-> TRUE, bucketName |-> EMPTY_VALUE,
     rows |-> <<>>, component |-> "vault", path |-> Missing]

\* The project with its branches; the hidden fields of the branch form are
\* taken from the first of them.
NeonProjectPage(project, branches, p) ==
    LET rows == Databases(branches, p) IN
    IF project = NoObject THEN ErrorPage(p)
    ELSE [open |-> TRUE, project |-> p, error |-> FALSE, bucketName |-> "neon",
          rows |-> [i \in DOMAIN rows |-> rows[i].branchName],
          component |-> IF rows = <<>> THEN "vault" ELSE Or(rows[1].component, "vault"),
          path |-> IF rows = <<>> THEN Missing ELSE Or(rows[1].path, Missing)]

-----------------------------------------------------------------------------
\* Both calls are made at once; what they returned is kept as sets, which are
\* empty until then.
Begin(kind, p) == [kind |-> kind, project |-> p, projects |-> {}, branches |-> {}]

Nothing == Begin("nothing", NoObject)

NeonInit ==
    /\ neonProjects = [p \in NeonProjects |-> NoObject]
    /\ neonBranches = [b \in BranchNames |-> NoObject]
    /\ created = 0
    /\ reading = Nothing
    /\ listing = [open |-> FALSE]
    /\ page = [open |-> FALSE]
    /\ answer = "none"

-----------------------------------------------------------------------------
\* What others do: another console, kubectl.  A page that is open does not show it.
Elsewhere == UNCHANGED <<reading, listing, page, answer>>

NewBranch(p, partOf, component, path) ==
    [project |-> p, partOf |-> partOf, component |-> component, path |-> path,
     age |-> created + 1]

\* A service creates a Neon database: a project and its first branch.
DatabaseCreated(p, b, service) ==
    /\ neonProjects[p] = NoObject /\ neonBranches[b] = NoObject
    /\ created < MaxBranches
    /\ neonProjects' = [neonProjects EXCEPT ![p] =
                           [partOf |-> service, component |-> "vault", path |-> VaultPaths[p]]]
    /\ neonBranches' = [neonBranches EXCEPT ![b] = NewBranch(p, service, "vault", VaultPaths[p])]
    /\ created' = created + 1
    /\ Elsewhere

\* kubectl apply of infra/neon/project.yaml and branch.yaml.
ProjectApplied(p) ==
    /\ neonProjects[p] = NoObject
    /\ neonProjects' = [neonProjects EXCEPT ![p] =
                           [partOf |-> "neki", component |-> Missing, path |-> Missing]]
    /\ Elsewhere
    /\ UNCHANGED <<neonBranches, created>>

BranchApplied(p, b) ==
    /\ neonProjects[p] # NoObject /\ neonBranches[b] = NoObject
    /\ created < MaxBranches
    /\ neonBranches' = [neonBranches EXCEPT ![b] = NewBranch(p, "neki", Missing, Missing)]
    /\ created' = created + 1
    /\ Elsewhere
    /\ UNCHANGED neonProjects

BranchRemoved(b) ==
    /\ neonBranches[b] # NoObject
    /\ neonBranches' = [neonBranches EXCEPT ![b] = NoObject]
    /\ Elsewhere
    /\ UNCHANGED <<neonProjects, created>>

-----------------------------------------------------------------------------
\* The user of the pages, who uses a page that has been rendered: until then
\* neither the list nor a form is open.
Leave == listing' = [open |-> FALSE] /\ page' = [open |-> FALSE]

OpenDatabases ==
    /\ reading.kind = "nothing"
    /\ reading' = Begin("databases", NoObject)
    /\ answer' = "none"
    /\ Leave
    /\ UNCHANGED <<neonProjects, neonBranches, created>>

OpenProject(p) ==
    /\ reading.kind = "nothing"
    /\ reading' = Begin("project", p)
    /\ answer' = "none"
    /\ Leave
    /\ UNCHANGED <<neonProjects, neonBranches, created>>

ReadProjects ==
    /\ reading.kind # "nothing" /\ reading.projects = {}
    /\ reading' = [reading EXCEPT !.projects =
          {IF reading.kind = "project" THEN neonProjects[reading.project] ELSE neonProjects}]
    /\ UNCHANGED <<neonProjects, neonBranches, created, listing, page, answer>>

ReadBranches ==
    /\ reading.kind # "nothing" /\ reading.branches = {}
    /\ reading' = [reading EXCEPT !.branches = {neonBranches}]
    /\ UNCHANGED <<neonProjects, neonBranches, created, listing, page, answer>>

\* The list, or errors and no list if a call failed.
ShowDatabases ==
    /\ reading.kind = "databases"
    /\ \E projects \in reading.projects, branches \in reading.branches :
          listing' \in {[open |-> TRUE, rows |-> GetServiceNeonDatabases(projects, branches)],
                       [open |-> FALSE]}
    /\ reading' = Nothing
    /\ UNCHANGED <<neonProjects, neonBranches, created, page, answer>>

\* The bucket is looked up when both are there, and its credentials may be
\* missing; that and a call that failed make an error page.
ShowProject ==
    /\ reading.kind = "project"
    /\ \E project \in reading.projects, branches \in reading.branches :
          page' \in {NeonProjectPage(project, branches, reading.project),
                    ErrorPage(reading.project)}
    /\ reading' = Nothing
    /\ UNCHANGED <<neonProjects, neonBranches, created, listing, answer>>

\* The server's answer to a branch name that satisfies the pattern of the form:
\* what the hidden fields say is validated as well.
Answered(b) ==
    IF page.component = EMPTY_VALUE \/ page.bucketName = EMPTY_VALUE THEN "rejected"
    ELSE IF neonProjects[page.project] = NoObject \/ neonBranches[b] # NoObject THEN "failed"
    ELSE "created"

\* createServiceNeonBranch.  On success the page is read and rendered again.
SubmitBranch(b) ==
    /\ page.open
    /\ created < MaxBranches
    /\ answer' = Answered(b)
    /\ UNCHANGED neonProjects
    /\ IF Answered(b) = "created"
       THEN /\ neonBranches' = [neonBranches EXCEPT ![b] =
                   NewBranch(page.project, Service, page.component, page.path)]
            /\ created' = created + 1
            /\ reading' = Begin("project", page.project)
            /\ Leave
       ELSE UNCHANGED <<neonBranches, created, reading, listing, page>>

\* deleteServiceNeonBranch, by the button of a row: the branch of that name,
\* whatever project it belongs to by now.
DeleteBranch(b) ==
    /\ page.open
    /\ \E i \in DOMAIN page.rows : page.rows[i] = b
    /\ neonBranches' = [neonBranches EXCEPT ![b] = NoObject]
    /\ reading' = Begin("project", page.project)
    /\ Leave
    /\ UNCHANGED <<neonProjects, created, answer>>

NeonNext ==
    \/ \E p \in NeonProjects :
          \/ OpenProject(p) \/ ProjectApplied(p)
          \/ \E b \in BranchNames :
                \/ BranchApplied(p, b)
                \/ \E service \in {Service, "other"} : DatabaseCreated(p, b, service)
    \/ \E b \in BranchNames : SubmitBranch(b) \/ DeleteBranch(b) \/ BranchRemoved(b)
    \/ OpenDatabases \/ ReadProjects \/ ReadBranches \/ ShowDatabases \/ ShowProject

-----------------------------------------------------------------------------
\* Branches come and go under other names, in other projects and from stale
\* pages, and pages are put together from lists of different moments: no branch
\* ever refers to the Vault secret of another project, and no list shows one.
VaultPathsStayInProject ==
    /\ \A b \in BranchNames : neonBranches[b] # NoObject =>
          neonBranches[b].path \in {Missing, EMPTY_VALUE, VaultPaths[neonBranches[b].project]}
    /\ listing.open => \A row \in listing.rows :
          row.path \in {EMPTY_VALUE, VaultPaths[row.projectName]}

\* "Open a project to create or delete branches": the form of a page that was
\* rendered without an error is not refused for what the page put into it.
BranchFormAccepted == (page.open /\ ~page.error) => answer # "rejected"
=============================================================================
