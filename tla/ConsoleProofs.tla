---------------------------- MODULE ConsoleProofs ---------------------------
(***************************************************************************)
(* What is proved of the console's pages, for every cluster they show.     *)
(* Each page keeps state of its own, so each has an inductive invariant of *)
(* its own.                                                                *)
(***************************************************************************)
EXTENDS Console, ArrangeProofs

-----------------------------------------------------------------------------
(* The playground.                                                         *)

\* Values of the fields under preset p: its own or edited since, but for the body
\* while the effect of the selection is still to run.
FieldsOf(p, f, early) ==
    \A field \in RequestFields :
        f[field] \in {p, "edited"} \/ (field = "body" /\ early)

\* So it is with the form, and so it was when the request that is on its way was
\* sent.
FieldsInv ==
    /\ fields = [field \in RequestFields |-> fields[field]]
    /\ FieldsOf(preset, fields, effect)
    /\ \A request \in sent : FieldsOf(request.preset, request.fields, request.early)

LEMMA PlaygroundStep == ASSUME FieldsInv, PlaygroundNext PROVE FieldsInv'
  <1>1. ASSUME NEW p \in Presets, SelectPreset(p) PROVE FieldsInv'
    BY <1>1 DEF FieldsInv, FieldsOf, SelectPreset
  <1>2. CASE BodyEffect
    BY <1>2 DEF FieldsInv, FieldsOf, BodyEffect
  <1>3. ASSUME NEW f \in RequestFields, Edit(f) PROVE FieldsInv'
    BY <1>3 DEF FieldsInv, FieldsOf, Edit
  <1>4. CASE Trigger
    <2>1. fields' = fields /\ preset' = preset /\ effect' = effect
      BY <1>4 DEF Trigger
    <2>2. sent' = {[preset |-> preset, fields |-> fields, early |-> effect]}
      BY <1>4 DEF Trigger
    <2> QED
      BY <2>1, <2>2 DEF FieldsInv
  <1>5. CASE TriggerKongFunction
    BY <1>5 DEF FieldsInv, FieldsOf, TriggerKongFunction
  <1> QED
    BY <1>1, <1>2, <1>3, <1>4, <1>5 DEF PlaygroundNext

\* However selecting, its effect, editing, sending and Kong's answers interleave,
\* a request never mixes the fields of two presets, but for the body of one that
\* was sent before the effect of the selection had run.
THEOREM OnePresetIsSent == Spec => []OnePresetSent
  <1>1. Init => FieldsInv
    BY DEF Init, PlaygroundInit, FieldsInv, FieldsOf
  <1>2. FieldsInv /\ [Next]_consoleVars => FieldsInv'
    <2>1. ASSUME FieldsInv, Next PROVE FieldsInv'
      <3>1. PlaygroundNext \/ UNCHANGED playgroundVars
        BY <2>1 DEF Next
      <3> QED
        BY <2>1, <3>1, PlaygroundStep DEF FieldsInv, playgroundVars
    <2>2. ASSUME FieldsInv, UNCHANGED consoleVars PROVE FieldsInv'
      BY <2>2 DEF FieldsInv, consoleVars, playgroundVars
    <2> QED
      BY <2>1, <2>2
  <1>3. FieldsInv => OnePresetSent
    BY DEF FieldsInv, FieldsOf, OnePresetSent
  <1> QED
    BY <1>1, <1>2, <1>3, PTL DEF Spec

-----------------------------------------------------------------------------
(* The pages of databases.                                                 *)

\* Branches, those of the cluster or those of a list that was read: each is in
\* one project and never refers to the Vault secret of another, and no two have
\* the same age.
BranchesOwn(branches) ==
    /\ branches = [b \in BranchNames |-> branches[b]]
    /\ \A b \in BranchNames : branches[b] # NoObject =>
          /\ branches[b].project \in NeonProjects
          /\ branches[b].path \in {Missing, EMPTY_VALUE, VaultPaths[branches[b].project]}
          /\ branches[b].age \in 1 .. created
    /\ \A b, c \in BranchNames :
          /\ branches[b] # NoObject /\ branches[c] # NoObject
          /\ branches[b].age = branches[c].age
          => b = c

ProjectsOwn(projects) ==
    /\ projects = [p \in NeonProjects |-> projects[p]]
    /\ \A p \in NeonProjects : projects[p] # NoObject =>
          projects[p].path \in {Missing, VaultPaths[p]}

BranchesInv ==
    /\ created \in 0 .. MaxBranches
    /\ ProjectsOwn(neonProjects)
    /\ BranchesOwn(neonBranches)

\* What the calls of a page returned was so once, and stays as it was.
ReadingInv ==
    /\ reading = [kind |-> reading.kind, project |-> reading.project,
                  projects |-> reading.projects, branches |-> reading.branches]
    /\ reading.kind \in {"nothing", "databases", "project"}
    /\ reading.kind = "project" => reading.project \in NeonProjects
    /\ reading.kind = "databases" =>
          \A projects \in reading.projects : ProjectsOwn(projects)
    /\ \A branches \in reading.branches : BranchesOwn(branches)

\* So it is with what the form of a page, however old, would create, and with
\* what a list shows.
PageInv ==
    page.open => /\ page.project \in NeonProjects
                 /\ page.rows \in Seq(BranchNames)
                 /\ page.path \in {Missing, EMPTY_VALUE, VaultPaths[page.project]}

ListingInv ==
    listing.open => \A row \in listing.rows :
        row.path \in {EMPTY_VALUE, VaultPaths[row.projectName]}

NeonInv ==
    /\ BranchesInv /\ ReadingInv /\ PageInv /\ ListingInv
    /\ answer \in {"none", "created", "rejected", "failed"}

RowsOf(branches, p) == {ToServiceNeonDatabase(branches, b) : b \in BranchesOf(branches, p)}

\* The rows of a project, each once, in the order of the comparison.
LEMMA RowsAreArranged ==
    ASSUME created \in 0 .. MaxBranches, NEW branches, BranchesOwn(branches),
           NEW p \in NeonProjects
    PROVE  Databases(branches, p)
               \in [1 .. Cardinality(BranchesOf(branches, p)) -> RowsOf(branches, p)]
           /\ Cardinality(BranchesOf(branches, p)) \in Nat
  <1> DEFINE own == BranchesOf(branches, p)
             rows == RowsOf(branches, p)
             order == {pair \in rows \X rows : SortServiceNeonDatabases(pair[1], pair[2])}
             ages == [b \in own |-> branches[b].age]
             row == [b \in own |-> ToServiceNeonDatabase(branches, b)]
  <1>1. \A b \in own : /\ b \in BranchNames /\ branches[b] # NoObject
                       /\ branches[b].age \in 1 .. created
    BY DEF BranchesOf, BranchesOwn
  <1>2. IsFiniteSet(own)
    <2>1. ages \in Injection(own, 1 .. created)
      BY <1>1 DEF BranchesOwn, Injection, IsInjective
    <2>2. created \in Nat
      BY NeonPagesAssumption
    <2>3. IsFiniteSet(1 .. created)
      BY <2>2, FS_Interval
    <2> QED
      BY <2>1, <2>3, FS_Injection
  <1>3. row \in Bijection(own, rows)
    BY DEF RowsOf, ToServiceNeonDatabase, Bijection, Injection, IsInjective, Surjection
  <1>4. IsFiniteSet(rows) /\ Cardinality(rows) = Cardinality(own)
    <2> HIDE DEF rows, row, own
    <2> QED
      BY <1>2, <1>3, FS_Bijection DEF ExistsBijection
  <1>5. \A b \in own : /\ ToServiceNeonDatabase(branches, b).linked \in BOOLEAN
                       /\ ToServiceNeonDatabase(branches, b).age = branches[b].age
                       /\ branches[b].age \in Nat
    <2>1. \A b \in own : branches[b].age \in Nat
      BY <1>1, NeonPagesAssumption
    <2> HIDE DEF own
    <2> QED
      BY <2>1 DEF ToServiceNeonDatabase
  <1>6. \A b, c \in own : branches[b].age = branches[c].age => b = c
    BY <1>1 DEF BranchesOwn
  <1> HIDE DEF rows
  <1>7. Orders(order, rows)
    <2>1. \A x \in rows : x.linked \in BOOLEAN /\ x.age \in Nat
      BY <1>5 DEF rows, RowsOf
    <2>2. \A x, y \in rows : x.age = y.age => x = y
      BY <1>5, <1>6 DEF rows, RowsOf
    <2> QED
      BY <1>4, <2>1, <2>2 DEF Orders, SortServiceNeonDatabases
  <1>8. Databases(branches, p) = Arranged(rows, order)
    BY DEF Databases, rows, RowsOf
  <1> HIDE DEF order, own
  <1>9. Databases(branches, p) \in [1 .. Cardinality(rows) -> rows]
    BY <1>7, <1>8, ArrangedInOrder
  <1> QED
    BY <1>2, <1>4, <1>9, FS_CardinalityType DEF rows, own

\* The rows have names of branches and the path of their project, or none.
LEMMA RowsAreOwn ==
    ASSUME created \in 0 .. MaxBranches, NEW branches, BranchesOwn(branches),
           NEW p \in NeonProjects
    PROVE  LET rows == Databases(branches, p)
           IN  /\ [i \in DOMAIN rows |-> rows[i].branchName] \in Seq(BranchNames)
               /\ rows # <<>> => rows[1].path \in {EMPTY_VALUE, VaultPaths[p]}
  <1> DEFINE rows == Databases(branches, p)
             m == Cardinality(BranchesOf(branches, p))
             names == [i \in DOMAIN rows |-> rows[i].branchName]
  <1>1. m \in Nat /\ rows \in [1 .. m -> RowsOf(branches, p)]
    BY RowsAreArranged
  <1>2. \A x \in RowsOf(branches, p) : /\ x.branchName \in BranchNames
                                       /\ x.path \in {EMPTY_VALUE, VaultPaths[p]}
    <2>1. \A b \in BranchesOf(branches, p) :
              b \in BranchNames /\ branches[b].path \in {Missing, EMPTY_VALUE, VaultPaths[p]}
      BY DEF BranchesOwn, BranchesOf
    <2>2. \A x \in {Missing, EMPTY_VALUE, VaultPaths[p]} :
              Or(x, EMPTY_VALUE) \in {EMPTY_VALUE, VaultPaths[p]}
      BY DEF Or
    <2> QED
      BY <2>1, <2>2 DEF RowsOf, ToServiceNeonDatabase
  <1> HIDE DEF rows, m
  <1>3. names \in [1 .. m -> BranchNames] /\ DOMAIN rows = 1 .. m
    BY <1>1, <1>2
  <1>4. names \in Seq(BranchNames)
    <2> HIDE DEF names
    <2> QED
      BY <1>1, <1>3, IsASeq
  <1>5. rows # <<>> => 1 \in 1 .. m
    <2>1. rows \in Seq(RowsOf(branches, p))
      BY <1>1, IsASeq
    <2>2. rows # <<>> => Len(rows) # 0
      BY <2>1, EmptySeq
    <2>3. Len(rows) = m
      BY <1>1, <2>1, LenProperties
    <2> QED
      BY <1>1, <2>2, <2>3
  <1>6. rows # <<>> => rows[1].path \in {EMPTY_VALUE, VaultPaths[p]}
    BY <1>1, <1>2, <1>5
  <1> QED
    BY <1>4, <1>6 DEF rows

\* Whatever projects and branches were read, and when.
LEMMA PageIsOwn ==
    ASSUME created \in 0 .. MaxBranches, NEW project, NEW branches, BranchesOwn(branches),
           NEW p \in NeonProjects
    PROVE  LET q == NeonProjectPage(project, branches, p)
           IN  /\ q.project = p /\ q.rows \in Seq(BranchNames)
               /\ q.path \in {Missing, EMPTY_VALUE, VaultPaths[p]}
  <1> DEFINE rows == Databases(branches, p)
             q == NeonProjectPage(project, branches, p)
             names == [i \in DOMAIN rows |-> rows[i].branchName]
             component == IF rows = <<>> THEN "vault" ELSE Or(rows[1].component, "vault")
             path == IF rows = <<>> THEN Missing ELSE Or(rows[1].path, Missing)
  <1>1. names \in Seq(BranchNames) /\ (rows # <<>> => rows[1].path \in {EMPTY_VALUE, VaultPaths[p]})
    BY RowsAreOwn
  <1> HIDE DEF rows
  <1>2. path \in {Missing, EMPTY_VALUE, VaultPaths[p]}
    BY <1>1 DEF Or
  <1>3. CASE project # NoObject
    <2>1. q = [open |-> TRUE, project |-> p, error |-> FALSE, bucketName |-> "neon",
               rows |-> names, component |-> component, path |-> path]
      BY <1>3 DEF NeonProjectPage, rows
    <2> HIDE DEF names, component, path, q
    <2>2. q.project = p /\ q.rows = names /\ q.path = path
      BY <2>1
    <2> QED
      BY <1>1, <1>2, <2>2 DEF q
  <1>4. CASE project = NoObject
    <2>1. q = [open |-> TRUE, project |-> p, error |-> TRUE, bucketName |-> EMPTY_VALUE,
               rows |-> <<>>, component |-> "vault", path |-> Missing]
      BY <1>4 DEF NeonProjectPage, ErrorPage
    <2>2. <<>> \in Seq(BranchNames)
      BY EmptySeq
    <2> HIDE DEF q
    <2> QED
      BY <2>1, <2>2 DEF q
  <1> QED
    BY <1>3, <1>4

LEMMA ListIsOwn ==
    ASSUME created \in 0 .. MaxBranches, NEW projects, ProjectsOwn(projects),
           NEW branches, BranchesOwn(branches)
    PROVE  \A row \in GetServiceNeonDatabases(projects, branches) :
               row.path \in {EMPTY_VALUE, VaultPaths[row.projectName]}
  <1> SUFFICES ASSUME NEW p \in NeonProjects, projects[p] # NoObject
               PROVE  LET row == ToServiceNeonProjectSummary(projects, branches, p)
                      IN  row.path \in {EMPTY_VALUE, VaultPaths[row.projectName]}
    BY DEF GetServiceNeonDatabases
  <1> DEFINE rows == Databases(branches, p)
             row == ToServiceNeonProjectSummary(projects, branches, p)
  <1>1. rows # <<>> => rows[1].path \in {EMPTY_VALUE, VaultPaths[p]}
    BY RowsAreOwn
  <1>2. projects[p].path \in {Missing, VaultPaths[p]}
    BY DEF ProjectsOwn
  <1>3. Or(projects[p].path, EMPTY_VALUE) \in {EMPTY_VALUE, VaultPaths[p]}
    BY <1>2 DEF Or
  <1>4. row.projectName = p /\ row.path = IF rows = <<>> THEN Or(projects[p].path, EMPTY_VALUE)
                                          ELSE rows[1].path
    BY DEF ToServiceNeonProjectSummary
  <1> HIDE DEF rows, row
  <1>5. row.path \in {EMPTY_VALUE, VaultPaths[row.projectName]}
    BY <1>1, <1>3, <1>4
  <1> QED
    BY <1>5 DEF row

-----------------------------------------------------------------------------
(* Every step of the pages keeps the invariant.                            *)

\* Branches that were read long ago are not younger than those of now.
LEMMA OldBranches ==
    ASSUME created \in Nat, created' \in {created, created + 1},
           NEW branches, BranchesOwn(branches)
    PROVE  BranchesOwn(branches)'
  <1>1. 1 .. created \subseteq 1 .. created'
    OBVIOUS
  <1> QED
    BY <1>1 DEF BranchesOwn

LEMMA ReadingKept ==
    ASSUME ReadingInv, created \in Nat, created' \in {created, created + 1}, UNCHANGED reading
    PROVE  ReadingInv'
  <1>1. \A branches \in reading.branches : BranchesOwn(branches)'
    BY OldBranches DEF ReadingInv
  <1> QED
    BY <1>1 DEF ReadingInv, ProjectsOwn, BranchesOwn

LEMMA ReadingBegun ==
    ASSUME NEW kind \in {"nothing", "databases", "project"}, NEW p,
           kind = "project" => p \in NeonProjects, reading' = Begin(kind, p)
    PROVE  ReadingInv'
  <1>1. reading' = [kind |-> kind, project |-> p, projects |-> {}, branches |-> {}]
    BY DEF Begin
  <1>2. /\ reading'.kind = kind /\ reading'.project = p
        /\ reading'.projects = {} /\ reading'.branches = {}
    BY <1>1
  <1> QED
    BY <1>1, <1>2 DEF ReadingInv

LEMMA LeftAlone ==
    ASSUME PageInv, ListingInv, (UNCHANGED <<listing, page>>) \/ Leave
    PROVE  PageInv' /\ ListingInv'
  BY DEF PageInv, ListingInv, Leave

\* A branch is added under a name that is free.
LEMMA BranchAdded ==
    ASSUME BranchesInv, NEW p \in NeonProjects, NEW b \in BranchNames, neonBranches[b] = NoObject,
           created < MaxBranches, NEW partOf, NEW component, NEW path,
           path \in {Missing, EMPTY_VALUE, VaultPaths[p]},
           neonBranches' = [neonBranches EXCEPT ![b] = NewBranch(p, partOf, component, path)],
           created' = created + 1, ProjectsOwn(neonProjects')
    PROVE  BranchesInv' /\ created \in Nat
  <1>1. created \in 0 .. MaxBranches /\ MaxBranches \in Nat
    BY NeonPagesAssumption DEF BranchesInv
  <1>2. created \in Nat /\ created' \in 0 .. MaxBranches /\ created' \in Nat
    BY <1>1
  <1> DEFINE new == NewBranch(p, partOf, component, path)
  <1>3. new.path = path /\ new.project = p /\ new.age = created'
    BY DEF NewBranch
  <1> HIDE DEF new
  <1>4. neonBranches' = [c \in BranchNames |-> IF c = b THEN new ELSE neonBranches[c]]
    BY DEF BranchesInv, BranchesOwn, new
  <1>5. \A c \in BranchNames : neonBranches'[c] = IF c = b THEN new ELSE neonBranches[c]
    BY <1>4
  <1>6. \A c \in BranchNames : neonBranches[c] # NoObject =>
            /\ neonBranches[c].project \in NeonProjects
            /\ neonBranches[c].path \in {Missing, EMPTY_VALUE, VaultPaths[neonBranches[c].project]}
            /\ neonBranches[c].age \in 1 .. created
    BY DEF BranchesInv, BranchesOwn
  <1>7. \A c \in BranchNames : neonBranches'[c] # NoObject =>
            /\ neonBranches'[c].project \in NeonProjects
            /\ neonBranches'[c].path \in {Missing, EMPTY_VALUE, VaultPaths[neonBranches'[c].project]}
            /\ neonBranches'[c].age \in 1 .. created'
    <2> SUFFICES ASSUME NEW c \in BranchNames, neonBranches'[c] # NoObject
                 PROVE  /\ neonBranches'[c].project \in NeonProjects
                        /\ neonBranches'[c].path \in
                              {Missing, EMPTY_VALUE, VaultPaths[neonBranches'[c].project]}
                        /\ neonBranches'[c].age \in 1 .. created'
      OBVIOUS
    <2>1. CASE c = b
      BY <1>2, <1>3, <1>5, <2>1
    <2>2. CASE c # b
      BY <1>2, <1>5, <1>6, <2>2
    <2> QED
      BY <2>1, <2>2
  <1>8. ASSUME NEW c \in BranchNames, NEW d \in BranchNames,
               neonBranches'[c] # NoObject, neonBranches'[d] # NoObject,
               neonBranches'[c].age = neonBranches'[d].age
        PROVE  c = d
    <2>1. \A x \in BranchNames : neonBranches[x] # NoObject => neonBranches[x].age # created'
      BY <1>2, <1>6
    <2>2. \A x, y \in BranchNames :
              neonBranches[x] # NoObject /\ neonBranches[y] # NoObject
              /\ neonBranches[x].age = neonBranches[y].age => x = y
      BY DEF BranchesInv, BranchesOwn
    <2> QED
      BY <1>3, <1>5, <1>8, <2>1, <2>2
  <1>9. neonBranches' = [c \in BranchNames |-> neonBranches'[c]]
    BY <1>4
  <1>10. BranchesOwn(neonBranches)'
    BY <1>7, <1>8, <1>9 DEF BranchesOwn
  <1> QED
    BY <1>2, <1>10 DEF BranchesInv, ProjectsOwn

LEMMA BranchGone ==
    ASSUME BranchesInv, NEW b \in BranchNames, UNCHANGED <<neonProjects, created>>,
           neonBranches' = [neonBranches EXCEPT ![b] = NoObject]
    PROVE  BranchesInv'
  <1>1. /\ neonBranches' = [c \in BranchNames |-> neonBranches'[c]]
        /\ \A c \in BranchNames : neonBranches'[c] = NoObject \/ neonBranches'[c] = neonBranches[c]
    BY DEF BranchesInv, BranchesOwn
  <1>2. BranchesOwn(neonBranches)'
    BY <1>1 DEF BranchesInv, BranchesOwn
  <1> QED
    BY <1>2 DEF BranchesInv, ProjectsOwn

LEMMA NeonInvInit == NeonInit => NeonInv
  <1> SUFFICES ASSUME NeonInit PROVE NeonInv
    OBVIOUS
  <1>1. BranchesInv
    BY NeonPagesAssumption DEF NeonInit, BranchesInv, BranchesOwn, ProjectsOwn
  <1>2. ReadingInv
    <2>1. reading = [kind |-> "nothing", project |-> NoObject, projects |-> {}, branches |-> {}]
      BY DEF NeonInit, Nothing, Begin
    <2> QED
      BY <2>1 DEF ReadingInv
  <1>3. PageInv /\ ListingInv
    BY DEF NeonInit, PageInv, ListingInv
  <1> QED
    BY <1>1, <1>2, <1>3 DEF NeonInit, NeonInv

\* What others do adds at most one branch, and leaves the pages as they are.
LEMMA OthersLeaveAlone ==
    ASSUME NeonInv, Elsewhere, BranchesInv', created' \in {created, created + 1}
    PROVE  NeonInv'
  <1>1. created \in Nat
    BY NeonPagesAssumption DEF NeonInv, BranchesInv
  <1>2. UNCHANGED <<reading, listing, page, answer>>
    BY DEF Elsewhere
  <1>3. ReadingInv'
    BY <1>1, <1>2, ReadingKept DEF NeonInv
  <1> QED
    BY <1>2, <1>3, LeftAlone DEF NeonInv

\* The cluster stays as it is.
LEMMA ClusterUnchanged ==
    ASSUME BranchesInv, UNCHANGED <<neonProjects, neonBranches, created>>
    PROVE  BranchesInv'
  BY DEF BranchesInv, BranchesOwn, ProjectsOwn

LEMMA NeonInvStep == ASSUME NeonInv, NeonNext PROVE NeonInv'
  <1> USE DEF NeonInv
  <1>0. created \in Nat /\ created \in 0 .. MaxBranches
    BY NeonPagesAssumption DEF BranchesInv
  <1>1. ASSUME NEW p \in NeonProjects, OpenProject(p) PROVE NeonInv'
    <2>1. BranchesInv'
      BY <1>1, ClusterUnchanged DEF OpenProject
    <2>2. reading' = Begin("project", p) /\ Leave /\ answer' = "none"
      BY <1>1 DEF OpenProject
    <2>3. ReadingInv'
      BY <2>2, ReadingBegun
    <2> QED
      BY <2>1, <2>2, <2>3, LeftAlone
  <1>2. ASSUME NEW p \in NeonProjects, ProjectApplied(p) PROVE NeonInv'
    <2>1. ProjectsOwn(neonProjects)'
      BY <1>2 DEF ProjectApplied, BranchesInv, ProjectsOwn
    <2>2. BranchesInv'
      BY <1>2, <2>1 DEF ProjectApplied, BranchesInv, BranchesOwn
    <2> QED
      BY <1>2, <2>2, OthersLeaveAlone DEF ProjectApplied
  <1>3. ASSUME NEW p \in NeonProjects, NEW b \in BranchNames, BranchApplied(p, b) PROVE NeonInv'
    <2>1. /\ neonBranches[b] = NoObject /\ created < MaxBranches
          /\ neonBranches' = [neonBranches EXCEPT ![b] = NewBranch(p, "neki", Missing, Missing)]
          /\ created' = created + 1 /\ neonProjects' = neonProjects
      BY <1>3 DEF BranchApplied
    <2>2. BranchesInv'
      BY <2>1, BranchAdded DEF BranchesInv
    <2> QED
      BY <1>3, <2>1, <2>2, OthersLeaveAlone DEF BranchApplied
  <1>4. ASSUME NEW p \in NeonProjects, NEW b \in BranchNames, NEW owner,
               DatabaseCreated(p, b, owner)
        PROVE  NeonInv'
    <2>1. /\ neonBranches[b] = NoObject /\ created < MaxBranches
          /\ neonBranches' = [neonBranches EXCEPT ![b] = NewBranch(p, owner, "vault", VaultPaths[p])]
          /\ created' = created + 1
          /\ neonProjects' = [neonProjects EXCEPT ![p] =
                 [partOf |-> owner, component |-> "vault", path |-> VaultPaths[p]]]
      BY <1>4 DEF DatabaseCreated
    <2>2. ProjectsOwn(neonProjects')
      BY <2>1 DEF BranchesInv, ProjectsOwn
    <2>3. BranchesInv'
      BY <2>1, <2>2, BranchAdded
    <2> QED
      BY <1>4, <2>1, <2>3, OthersLeaveAlone DEF DatabaseCreated
  <1>5. ASSUME NEW b \in BranchNames, SubmitBranch(b) PROVE NeonInv'
    <2> DEFINE p == page.project
    <2>1. page.open /\ p \in NeonProjects /\ page.path \in {Missing, EMPTY_VALUE, VaultPaths[p]}
          /\ answer' \in {"none", "created", "rejected", "failed"}
      BY <1>5 DEF SubmitBranch, Answered, PageInv
    <2>2. CASE Answered(b) = "created"
      <3>1. /\ neonBranches[b] = NoObject /\ created < MaxBranches
            /\ neonBranches' = [neonBranches EXCEPT ![b] =
                   NewBranch(p, Service, page.component, page.path)]
            /\ created' = created + 1 /\ neonProjects' = neonProjects
            /\ reading' = Begin("project", p) /\ Leave
        BY <1>5, <2>2 DEF SubmitBranch, Answered
      <3>2. BranchesInv'
        BY <2>1, <3>1, BranchAdded DEF BranchesInv
      <3>3. ReadingInv'
        BY <2>1, <3>1, ReadingBegun
      <3> QED
        BY <2>1, <3>1, <3>2, <3>3, LeftAlone
    <2>3. CASE Answered(b) # "created"
      <3>1. UNCHANGED <<neonProjects, neonBranches, created, reading, listing, page>>
        BY <1>5, <2>3 DEF SubmitBranch
      <3> QED
        BY <1>0, <2>1, <3>1, ClusterUnchanged, ReadingKept, LeftAlone
    <2> QED
      BY <2>2, <2>3
  <1>6. ASSUME NEW b \in BranchNames, DeleteBranch(b) PROVE NeonInv'
    <2>1. /\ page.open /\ reading' = Begin("project", page.project) /\ Leave
          /\ answer' = answer
      BY <1>6 DEF DeleteBranch
    <2>2. BranchesInv'
      BY <1>6, BranchGone DEF DeleteBranch
    <2>3. ReadingInv'
      BY <2>1, ReadingBegun DEF PageInv
    <2> QED
      BY <2>1, <2>2, <2>3, LeftAlone
  <1>7. ASSUME NEW b \in BranchNames, BranchRemoved(b) PROVE NeonInv'
    <2>1. BranchesInv'
      BY <1>7, BranchGone DEF BranchRemoved
    <2> QED
      BY <1>7, <2>1, OthersLeaveAlone DEF BranchRemoved
  <1>8. CASE OpenDatabases
    <2>1. BranchesInv'
      BY <1>8, ClusterUnchanged DEF OpenDatabases
    <2>2. reading' = Begin("databases", NoObject) /\ Leave /\ answer' = "none"
      BY <1>8 DEF OpenDatabases
    <2>3. ReadingInv'
      BY <2>2, ReadingBegun
    <2> QED
      BY <2>1, <2>2, <2>3, LeftAlone
  <1>9. CASE ReadProjects
    <2>1. BranchesInv' /\ UNCHANGED <<created, listing, page, answer>>
      BY <1>9, ClusterUnchanged DEF ReadProjects
    <2> DEFINE got == IF reading.kind = "project" THEN neonProjects[reading.project]
                      ELSE neonProjects
    <2>2. reading' = [kind |-> reading.kind, project |-> reading.project,
                      projects |-> {got}, branches |-> reading.branches]
          /\ reading.kind # "nothing"
      BY <1>9 DEF ReadProjects, ReadingInv
    <2>3. reading.kind = "databases" => ProjectsOwn(got)
      BY DEF BranchesInv
    <2> HIDE DEF got
    <2>4. /\ reading'.kind = reading.kind /\ reading'.project = reading.project
          /\ reading'.projects = {got} /\ reading'.branches = reading.branches
      BY <2>2
    <2>5. \A branches \in reading.branches : BranchesOwn(branches)'
      BY <1>0, <2>1, OldBranches DEF ReadingInv
    <2>6. ReadingInv'
      BY <2>2, <2>3, <2>4, <2>5 DEF ReadingInv, ProjectsOwn, BranchesOwn
    <2> QED
      BY <2>1, <2>6, LeftAlone
  <1>10. CASE ReadBranches
    <2>1. BranchesInv' /\ UNCHANGED <<neonBranches, created, listing, page, answer>>
      BY <1>10, ClusterUnchanged DEF ReadBranches
    <2>2. reading' = [kind |-> reading.kind, project |-> reading.project,
                      projects |-> reading.projects, branches |-> {neonBranches}]
      BY <1>10 DEF ReadBranches, ReadingInv
    <2>3. /\ reading'.kind = reading.kind /\ reading'.project = reading.project
          /\ reading'.projects = reading.projects /\ reading'.branches = {neonBranches}
      BY <2>2
    <2>4. BranchesOwn(neonBranches)'
      BY <2>1 DEF BranchesInv
    <2>5. \A branches \in reading'.branches : BranchesOwn(branches)'
      BY <2>1, <2>3, <2>4 DEF BranchesOwn
    <2>6. ReadingInv'
      BY <2>2, <2>3, <2>5 DEF ReadingInv, ProjectsOwn, BranchesOwn
    <2> QED
      BY <2>1, <2>6, LeftAlone
  <1>11. CASE ShowDatabases
    <2>1. PICK projects \in reading.projects, branches \in reading.branches :
              listing' \in {[open |-> TRUE, rows |-> GetServiceNeonDatabases(projects, branches)],
                            [open |-> FALSE]}
      BY <1>11 DEF ShowDatabases
    <2>2. /\ reading.kind = "databases" /\ reading' = Begin("nothing", NoObject)
          /\ UNCHANGED <<page, answer>>
      BY <1>11 DEF ShowDatabases, Nothing
    <2>3. BranchesInv'
      BY <1>11, ClusterUnchanged DEF ShowDatabases
    <2>4. ProjectsOwn(projects) /\ BranchesOwn(branches)
      BY <2>2 DEF ReadingInv
    <2>5. ListingInv'
      BY <1>0, <2>1, <2>4, ListIsOwn DEF ListingInv
    <2>6. ReadingInv'
      BY <2>2, ReadingBegun
    <2>7. PageInv'
      BY <2>2 DEF PageInv
    <2> QED
      BY <2>2, <2>3, <2>5, <2>6, <2>7
  <1>12. CASE ShowProject
    <2>1. PICK project \in reading.projects, branches \in reading.branches :
              \/ page' = NeonProjectPage(project, branches, reading.project)
              \/ page' = ErrorPage(reading.project)
      BY <1>12 DEF ShowProject
    <2>2. /\ reading.kind = "project" /\ reading' = Begin("nothing", NoObject)
          /\ UNCHANGED <<listing, answer>>
      BY <1>12 DEF ShowProject, Nothing
    <2>3. BranchesInv'
      BY <1>12, ClusterUnchanged DEF ShowProject
    <2>4. BranchesOwn(branches) /\ reading.project \in NeonProjects
      BY <2>2 DEF ReadingInv
    <2>5. PageInv'
      <3>1. CASE page' = ErrorPage(reading.project)
        <4>1. /\ page'.project = reading.project /\ page'.rows = <<>>
              /\ page'.path = Missing
          BY <3>1 DEF ErrorPage
        <4>2. <<>> \in Seq(BranchNames)
          BY EmptySeq
        <4> QED
          BY <2>4, <4>1, <4>2 DEF PageInv
      <3>2. CASE page' = NeonProjectPage(project, branches, reading.project)
        BY <1>0, <2>4, <3>2, PageIsOwn DEF PageInv
      <3> QED
        BY <2>1, <3>1, <3>2
    <2>6. ReadingInv'
      BY <2>2, ReadingBegun
    <2>7. ListingInv'
      BY <2>2 DEF ListingInv
    <2> QED
      BY <2>2, <2>3, <2>5, <2>6, <2>7
  <1> QED
    BY <1>1, <1>2, <1>3, <1>4, <1>5, <1>6, <1>7, <1>8, <1>9, <1>10, <1>11, <1>12 DEF NeonNext

LEMMA NeonInvNext == NeonInv /\ [Next]_consoleVars => NeonInv'
  <1> SUFFICES ASSUME NeonInv, [Next]_consoleVars PROVE NeonInv'
    OBVIOUS
  <1>1. NeonNext \/ UNCHANGED neonVars
    BY DEF Next, consoleVars
  <1>2. CASE UNCHANGED neonVars
    <2>1. UNCHANGED <<neonProjects, neonBranches, created, reading, page, answer, listing>>
      BY <1>2 DEF neonVars
    <2>2. created \in Nat
      BY NeonPagesAssumption DEF NeonInv, BranchesInv
    <2> QED
      BY <2>1, <2>2, ClusterUnchanged, ReadingKept, LeftAlone DEF NeonInv
  <1> QED
    BY <1>1, <1>2, NeonInvStep

LEMMA NeonInvHolds == Spec => []NeonInv
  <1>1. Init => NeonInv
    BY NeonInvInit DEF Init
  <1> QED
    BY <1>1, NeonInvNext, PTL DEF Spec

\* Branches come and go under other names and in other projects, pages that are
\* long outdated still create them with the secret they were rendered with, and
\* the lists of projects and branches of one page are of different moments: no
\* branch ever refers to the Vault secret of another project, and no list of
\* databases shows one.
THEOREM SecretsStayInProject == Spec => []VaultPathsStayInProject
  <1>1. NeonInv => VaultPathsStayInProject
    BY DEF NeonInv, BranchesInv, BranchesOwn, ListingInv, VaultPathsStayInProject
  <1> QED
    BY <1>1, NeonInvHolds, PTL

-----------------------------------------------------------------------------
(* The page of logs.                                                       *)

Lines == [labels: Labels, at: Nat]

\* Two lines of a stream are told apart by their times.
LEMMA LinesDiffer ==
    ASSUME NEW x \in Lines, NEW y \in Lines, x.labels = y.labels, x.at = y.at
    PROVE  x = y
  BY DEF Lines

\* The numbers of JavaScript do not turn the order of times around.
LEMMA NumbersKeepOrder ==
    ASSUME NEW x \in Lines, NEW y \in Lines
    PROVE  /\ Number(x) \in Int
           /\ Number(x) > Number(y) => x.at > y.at
  <1>1. x.at \in Nat /\ y.at \in Nat /\ Resolution \in Nat \ {0}
    BY LogsPageAssumption DEF Lines
  <1> DEFINE a == x.at
             b == y.at
             r == Resolution
  <1>2. a \in Nat /\ b \in Nat /\ r \in Nat /\ r > 0
    BY <1>1
  <1> HIDE DEF a, b, r
  <1>3. /\ a \div r \in Int /\ b \div r \in Int
        /\ a = r * (a \div r) + (a % r) /\ b = r * (b \div r) + (b % r)
        /\ a % r \in 0 .. r - 1 /\ b % r \in 0 .. r - 1
    BY <1>2
  <1>4. \A p, q \in Int : p >= q + 1 => r * p >= r * q + r
    BY <1>2
  <1>5. a \div r > b \div r => r * (a \div r) >= r * (b \div r) + r
    BY <1>3, <1>4
  <1>6. a \div r > b \div r => a > b
    BY <1>2, <1>3, <1>5
  <1> QED
    BY <1>3, <1>6 DEF Number, a, b, r

LinesOf(S, labels) == {line \in S : line.labels = labels}

\* The lines of a stream, each once, newest first.
Streams(s, S, labels) ==
    LET own == LinesOf(S, labels)
        n == Cardinality(own)
    IN  /\ n \in Nat
        /\ s \in [1 .. n -> own]
        /\ \A x \in own : \E i \in 1 .. n : s[i] = x
        /\ \A i, j \in 1 .. n : i < j <=> s[i].at > s[j].at
        /\ \A i, j \in 1 .. n : s[i] = s[j] => i = j

LEMMA StreamOfLabels ==
    ASSUME NEW S, IsFiniteSet(S), S \subseteq Lines, NEW labels
    PROVE  Streams(Stream(S, labels), S, labels)
  <1> DEFINE own == LinesOf(S, labels)
             R == {pair \in own \X own : pair[1].at > pair[2].at}
             n == Cardinality(own)
             s == Arranged(own, R)
  <1>1. \A x, y \in own : <<x, y>> \in R <=> x.at > y.at
    OBVIOUS
  <1>2. IsFiniteSet(own) /\ \A x \in own : x \in Lines /\ x.at \in Nat /\ x.labels = labels
    BY FS_Subset DEF LinesOf, Lines
  <1>3. \A x, y \in own : x # y => x.at # y.at
    BY <1>2, LinesDiffer
  <1>4. Stream(S, labels) = s
    BY DEF Stream, LinesOf
  <1> HIDE DEF own, R
  <1>5. Orders(R, own)
    BY <1>1, <1>2, <1>3 DEF Orders
  <1>6. /\ n \in Nat
        /\ s \in [1 .. n -> own]
        /\ \A x \in own : \E i \in 1 .. n : s[i] = x
        /\ \A i, j \in 1 .. n : i < j <=> <<s[i], s[j]>> \in R
        /\ \A i, j \in 1 .. n : s[i] = s[j] => i = j
    BY <1>5, ArrangedInOrder
  <1> HIDE DEF s, n
  <1>7. \A i, j \in 1 .. n : i < j <=> s[i].at > s[j].at
    BY <1>1, <1>6
  <1> QED
    BY <1>4, <1>6, <1>7 DEF Streams, own, n

Line(streams, p) == streams[p[1]][p[2]]

\* Every line of S has one place in the streams, and the lines of a
\* stream are in order.
Placed(streams, S) ==
    LET P == Places(streams)
    IN  /\ IsFiniteSet(P) /\ Cardinality(P) = Cardinality(S)
        /\ \A p \in P : p = <<p[1], p[2]>> /\ p[1] \in Nat /\ p[2] \in Nat
        /\ \A p \in P : Line(streams, p) \in S
        /\ \A x \in S : \E p \in P : Line(streams, p) = x
        /\ \A p, q \in P : Line(streams, p) = Line(streams, q) => p = q
        /\ \A p, q \in P : Line(streams, p).labels = Line(streams, q).labels <=> p[1] = q[1]
        /\ \A p, q \in P : p[1] = q[1] /\ p[2] < q[2] =>
                Line(streams, p).at > Line(streams, q).at

LEMMA LinesArePlaced ==
    ASSUME NEW S, IsFiniteSet(S), S \subseteq Lines,
           NEW n \in Nat, NEW order \in [1 .. n -> Labels],
           \A i, j \in 1 .. n : i # j => order[i] # order[j],
           \A labels \in Labels : \E i \in 1 .. n : order[i] = labels,
           NEW streams, streams = [i \in 1 .. n |-> Stream(S, order[i])]
    PROVE  Placed(streams, S)
  <1> DEFINE P == Places(streams)
             m(i) == Cardinality(LinesOf(S, order[i]))
             line == [p \in P |-> Line(streams, p)]
  <1>1. \A i \in 1 .. n : Streams(streams[i], S, order[i])
    BY StreamOfLabels
  <1>2. \A i \in 1 .. n :
           /\ m(i) \in Nat
           /\ streams[i] \in [1 .. m(i) -> LinesOf(S, order[i])]
           /\ DOMAIN streams[i] = 1 .. m(i)
           /\ \A x \in LinesOf(S, order[i]) : \E k \in 1 .. m(i) : streams[i][k] = x
           /\ \A k, l \in 1 .. m(i) : k < l <=> streams[i][k].at > streams[i][l].at
           /\ \A k, l \in 1 .. m(i) : streams[i][k] = streams[i][l] => k = l
    BY <1>1 DEF Streams
  <1> HIDE DEF m
  <1>3. P = UNION {{i} \X (1 .. m(i)) : i \in 1 .. n}
    <2>1. DOMAIN streams = 1 .. n
      OBVIOUS
    <2>2. \A i \in 1 .. n : {i} \X DOMAIN streams[i] = {i} \X (1 .. m(i))
      BY <1>2
    <2> QED
      BY <2>1, <2>2 DEF Places
  <1>4. \A p \in P : /\ p = <<p[1], p[2]>> /\ p[1] \in 1 .. n /\ p[2] \in 1 .. m(p[1])
                     /\ p[1] \in Nat /\ p[2] \in Nat
    BY <1>2, <1>3
  <1>5. \A i \in 1 .. n : \A k \in 1 .. m(i) : <<i, k>> \in P
    BY <1>3
  <1> HIDE DEF P
  <1>6. \A p \in P : Line(streams, p) \in S /\ Line(streams, p).labels = order[p[1]]
    <2> SUFFICES ASSUME NEW p \in P
                 PROVE  Line(streams, p) \in S /\ Line(streams, p).labels = order[p[1]]
      OBVIOUS
    <2>1. streams[p[1]][p[2]] \in LinesOf(S, order[p[1]])
      BY <1>2, <1>4
    <2> QED
      BY <2>1 DEF Line, LinesOf
  <1>7. \A x \in S : \E p \in P : Line(streams, p) = x
    <2> SUFFICES ASSUME NEW x \in S PROVE \E p \in P : Line(streams, p) = x
      OBVIOUS
    <2>1. x.labels \in Labels
      BY DEF Lines
    <2>2. PICK i \in 1 .. n : order[i] = x.labels
      BY <2>1
    <2>3. PICK k \in 1 .. m(i) : streams[i][k] = x
      BY <1>2, <2>2 DEF LinesOf
    <2>4. <<i, k>> \in P /\ Line(streams, <<i, k>>) = x
      BY <1>5, <2>3 DEF Line
    <2> QED
      BY <2>4
  <1>8. \A p, q \in P : Line(streams, p).labels = Line(streams, q).labels <=> p[1] = q[1]
    BY <1>4, <1>6
  <1>9. \A p, q \in P : Line(streams, p) = Line(streams, q) => p = q
    <2> SUFFICES ASSUME NEW p \in P, NEW q \in P, Line(streams, p) = Line(streams, q)
                 PROVE  p = q
      OBVIOUS
    <2>1. p[1] = q[1]
      BY <1>8
    <2>2. p[2] = q[2]
      BY <1>2, <1>4, <2>1 DEF Line
    <2> QED
      BY <1>4, <2>1, <2>2
  <1>10. \A p, q \in P : p[1] = q[1] /\ p[2] < q[2] =>
            Line(streams, p).at > Line(streams, q).at
    BY <1>2, <1>4 DEF Line
  <1>11. IsFiniteSet(P) /\ Cardinality(P) = Cardinality(S)
    <2>1. line \in [P -> S]
      BY <1>6
    <2>2. \A p, q \in P : line[p] = line[q] => p = q
      BY <1>9
    <2>3. \A x \in S : \E p \in P : line[p] = x
      BY <1>7
    <2> HIDE DEF line
    <2>4. line \in Injection(P, S) /\ line \in Surjection(P, S)
      BY <2>1, <2>2, <2>3 DEF Injection, Surjection, IsInjective
    <2> QED
      BY <2>4, FS_Injection
  <1> QED
    BY <1>4, <1>6, <1>7, <1>8, <1>9, <1>10, <1>11 DEF Placed, P

LEMMA FlatMapOrders ==
    ASSUME NEW p, p[1] \in Nat, p[2] \in Nat, p = <<p[1], p[2]>>,
           NEW q, q[1] \in Nat, q[2] \in Nat, q = <<q[1], q[2]>>,
           NEW r, r[1] \in Nat, r[2] \in Nat
    PROVE  /\ ~FlatMap(p, p)
           /\ p # q => FlatMap(p, q) \/ FlatMap(q, p)
           /\ FlatMap(p, q) /\ FlatMap(q, r) => FlatMap(p, r)
  BY DEF FlatMap

\* The lines of S, each once, in the order of the numbers and those of a stream in
\* the order of their times.
Merged(entries, S) ==
    /\ entries \in Seq(S) /\ Len(entries) = Cardinality(S)
    /\ \A x \in S : \E i \in 1 .. Len(entries) : entries[i] = x
    /\ \A i, j \in 1 .. Len(entries) : i < j =>
          /\ Number(entries[i]) >= Number(entries[j])
          /\ entries[i].labels = entries[j].labels => entries[i].at > entries[j].at

LEMMA EntriesAreMerged ==
    ASSUME NEW S, S \subseteq Lines, NEW streams, Placed(streams, S)
    PROVE  Merged(ToLogEntries(streams), S)
  <1> DEFINE P == Places(streams)
             line(p) == streams[p[1]][p[2]]
             before(p, q) == \/ Number(line(p)) > Number(line(q))
                             \/ Number(line(p)) = Number(line(q)) /\ FlatMap(p, q)
             R == {pair \in P \X P : before(pair[1], pair[2])}
             sorted == Arranged(P, R)
             n == Cardinality(P)
             entries == [k \in DOMAIN sorted |-> line(sorted[k])]
  <1>1. ToLogEntries(streams) = entries
    BY DEF ToLogEntries
  <1>2. \A p, q \in P : <<p, q>> \in R <=> before(p, q)
    OBVIOUS
  <1>3. /\ IsFiniteSet(P) /\ n = Cardinality(S)
        /\ \A p \in P : p = <<p[1], p[2]>> /\ p[1] \in Nat /\ p[2] \in Nat
        /\ \A p \in P : line(p) \in S
        /\ \A x \in S : \E p \in P : line(p) = x
        /\ \A p, q \in P : line(p).labels = line(q).labels <=> p[1] = q[1]
        /\ \A p, q \in P : p[1] = q[1] /\ p[2] < q[2] => line(p).at > line(q).at
    BY DEF Placed, Line
  <1>4. \A p \in P : line(p) \in Lines /\ Number(line(p)) \in Int
    BY <1>3, NumbersKeepOrder
  <1> HIDE DEF P, R, line
  <1>5. \A p, q, r \in P :
           /\ ~FlatMap(p, p)
           /\ p # q => FlatMap(p, q) \/ FlatMap(q, p)
           /\ FlatMap(p, q) /\ FlatMap(q, r) => FlatMap(p, r)
    BY <1>3, FlatMapOrders
  <1>6. Orders(R, P)
    <2>1. \A p \in P : ~before(p, p)
      BY <1>4, <1>5
    <2>2. \A p, q \in P : p # q => before(p, q) \/ before(q, p)
      BY <1>4, <1>5
    <2>3. \A p, q, r \in P : before(p, q) /\ before(q, r) => before(p, r)
      BY <1>4, <1>5
    <2> HIDE DEF before
    <2> QED
      BY <1>2, <1>3, <2>1, <2>2, <2>3 DEF Orders
  <1>7. /\ n \in Nat
        /\ sorted \in [1 .. n -> P]
        /\ \A x \in P : \E i \in 1 .. n : sorted[i] = x
        /\ \A i, j \in 1 .. n : i < j <=> <<sorted[i], sorted[j]>> \in R
    BY <1>6, ArrangedInOrder
  <1> HIDE DEF sorted, n
  <1>8. /\ entries \in [1 .. n -> S]
        /\ \A i \in 1 .. n : entries[i] = line(sorted[i])
    BY <1>3, <1>7
  <1>9. entries \in Seq(S) /\ Len(entries) = n
    BY <1>7, <1>8
  <1>10. \A x \in S : \E i \in 1 .. n : entries[i] = x
    BY <1>3, <1>7, <1>8
  <1>11. ASSUME NEW p \in P, NEW q \in P, before(p, q)
         PROVE  /\ Number(line(p)) >= Number(line(q))
                /\ line(p).labels = line(q).labels => line(p).at > line(q).at
    <2>1. CASE Number(line(p)) > Number(line(q))
      BY <1>4, <2>1, NumbersKeepOrder
    <2>2. CASE Number(line(p)) = Number(line(q)) /\ FlatMap(p, q)
      BY <1>3, <1>4, <2>2 DEF FlatMap
    <2> QED
      BY <1>11, <2>1, <2>2
  <1>12. \A i, j \in 1 .. n : i < j => before(sorted[i], sorted[j])
    BY <1>2, <1>7
  <1> HIDE DEF before, entries
  <1>13. \A i, j \in 1 .. n : i < j =>
            /\ Number(entries[i]) >= Number(entries[j])
            /\ entries[i].labels = entries[j].labels => entries[i].at > entries[j].at
    BY <1>7, <1>8, <1>11, <1>12
  <1> QED
    BY <1>1, <1>3, <1>9, <1>10, <1>13 DEF Merged

\* Whatever Loki answers, the entries are the newest lines of the window.
LEMMA AnswersAreMerged ==
    ASSUME NEW streams \in LokiAnswers, IsFiniteSet(InWindow), InWindow \subseteq Lines
    PROVE  \E S \in SUBSET InWindow :
              /\ NewestLines(S)
              /\ Merged(FirstOfLimit(ToLogEntries(streams)), S)
  <1> DEFINE n == Cardinality(Labels)
  <1>1. PICK S \in SUBSET InWindow, order \in [1 .. n -> Labels] :
           /\ NewestLines(S)
           /\ \A i, j \in 1 .. n : i # j => order[i] # order[j]
           /\ streams = [i \in 1 .. n |-> Stream(S, order[i])]
    BY DEF LokiAnswers
  <1>2. /\ IsFiniteSet(Labels) /\ n \in Nat /\ Limit \in Nat
        /\ IsFiniteSet(1 .. n) /\ Cardinality(1 .. n) = n
    BY LogsPageAssumption, FS_CardinalityType, FS_Interval
  <1>3. IsFiniteSet(S) /\ S \subseteq Lines /\ Cardinality(S) \in Nat
    BY FS_Subset, FS_CardinalityType
  <1>4. \A labels \in Labels : \E i \in 1 .. n : order[i] = labels
    <2>1. order \in Injection(1 .. n, Labels)
      BY <1>1 DEF Injection, IsInjective
    <2>2. order \in Surjection(1 .. n, Labels)
      BY <1>2, <2>1, FS_Injection
    <2> QED
      BY <2>2 DEF Surjection
  <1> HIDE DEF n
  <1>5. Placed(streams, S)
    BY <1>1, <1>2, <1>3, <1>4, LinesArePlaced
  <1> DEFINE entries == ToLogEntries(streams)
  <1>6. Merged(entries, S)
    BY <1>3, <1>5, EntriesAreMerged
  <1> HIDE DEF entries
  <1>7. Cardinality(S) <= Limit
    BY <1>1, <1>2, <1>3, FS_CardinalityType DEF NewestLines
  <1>8. FirstOfLimit(entries) = SubSeq(entries, 1, Len(entries))
    BY <1>2, <1>3, <1>6, <1>7 DEF FirstOfLimit, Merged
  <1>9. FirstOfLimit(entries) = entries
    BY <1>6, <1>8 DEF Merged
  <1> QED
    BY <1>1, <1>6, <1>9 DEF entries

LEMMA EntriesAreInOrder ==
    ASSUME IsFiniteSet(InWindow), InWindow \subseteq Lines,
           NEW answered \in GetServiceLogs, logs' = answered
    PROVE  NewestFirst'
  <1>1. PICK r \in FetchLokiQueryRange \union {[error |-> TRUE, entries |-> <<>>]} :
           answered = [open |-> TRUE, error |-> r.error, entries |-> r.entries,
                       lines |-> InWindow]
    BY DEF GetServiceLogs
  <1>2. CASE r.error
    BY <1>1, <1>2 DEF NewestFirst
  <1>3. CASE ~r.error
    <2> DEFINE entries == r.entries
               shown == {entries[i] : i \in DOMAIN entries}
    <2>1. PICK streams \in LokiAnswers : entries = FirstOfLimit(ToLogEntries(streams))
      BY <1>3 DEF FetchLokiQueryRange
    <2>2. PICK S \in SUBSET InWindow : NewestLines(S) /\ Merged(entries, S)
      BY <2>1, AnswersAreMerged
    <2>3. logs'.entries = entries /\ logs'.lines = InWindow
      BY <1>1
    <2> HIDE DEF entries
    <2>4. DOMAIN entries = 1 .. Len(entries) /\ \A i \in 1 .. Len(entries) : entries[i] \in S
      BY <2>2 DEF Merged
    <2>5. shown = S
      BY <2>2, <2>4 DEF Merged
    <2>6. Cardinality(shown) = Len(entries)
      BY <2>2, <2>5 DEF Merged
    <2>7. \A i \in DOMAIN entries : \A j \in i + 1 .. Len(entries) :
             /\ Number(entries[i]) >= Number(entries[j])
             /\ entries[i].labels = entries[j].labels => entries[i].at > entries[j].at
      <3> SUFFICES ASSUME NEW i \in DOMAIN entries, NEW j \in i + 1 .. Len(entries)
                   PROVE  /\ Number(entries[i]) >= Number(entries[j])
                          /\ entries[i].labels = entries[j].labels => entries[i].at > entries[j].at
        OBVIOUS
      <3>1. i \in 1 .. Len(entries) /\ j \in 1 .. Len(entries) /\ i < j
        BY <2>2, <2>4 DEF Merged
      <3> QED
        BY <2>2, <3>1 DEF Merged
    <2>8. \A line \in InWindow \ shown : \A i \in DOMAIN entries : entries[i].at >= line.at
      BY <2>2, <2>4, <2>5 DEF NewestLines
    <2> HIDE DEF shown
    <2>9. NewestFirst' <=>
            ((logs'.open /\ ~logs'.error) =>
                /\ Cardinality(shown) = Len(entries)
                /\ \A i \in DOMAIN entries : \A j \in i + 1 .. Len(entries) :
                      /\ Number(entries[i]) >= Number(entries[j])
                      /\ entries[i].labels = entries[j].labels => entries[i].at > entries[j].at
                /\ \A line \in InWindow \ shown : \A i \in DOMAIN entries :
                      entries[i].at >= line.at)
      BY <2>3 DEF NewestFirst, Number, shown
    <2> QED
      BY <2>6, <2>7, <2>8, <2>9
  <1> QED
    BY <1>2, <1>3

\* Loki has finitely many lines, none of the future.
LogsInv ==
    /\ logTime \in 1 .. MaxTime
    /\ IsFiniteSet(logLines) /\ logLines \subseteq [labels: Labels, at: 1 .. logTime]
    /\ NewestFirst

LEMMA LogsInvStep == ASSUME LogsInv, LogsNext PROVE LogsInv'
  <1>0. MaxTime \in Nat
    BY LogsPageAssumption
  <1>1. CASE TimePasses
    <2>1. logTime' = logTime + 1 /\ logTime' \in 1 .. MaxTime
          /\ logLines' = logLines /\ logs' = logs
      BY <1>0, <1>1 DEF TimePasses, LogsInv
    <2>2. 1 .. logTime \subseteq 1 .. logTime'
      BY <2>1 DEF LogsInv
    <2>3. logLines' \subseteq [labels: Labels, at: 1 .. logTime']
      BY <2>1, <2>2 DEF LogsInv
    <2>4. NewestFirst'
      BY <2>1 DEF LogsInv, NewestFirst, Number
    <2> QED
      BY <2>1, <2>3, <2>4 DEF LogsInv
  <1>2. ASSUME NEW labels \in Labels, LineLogged(labels) PROVE LogsInv'
    <2>1. /\ logLines' = logLines \union {[labels |-> labels, at |-> logTime]}
          /\ logTime' = logTime /\ logs' = logs
      BY <1>2 DEF LineLogged
    <2>2. IsFiniteSet(logLines')
      BY <2>1, FS_AddElement DEF LogsInv
    <2>3. logTime \in 1 .. logTime
      BY <1>0 DEF LogsInv
    <2>4. logLines' \subseteq [labels: Labels, at: 1 .. logTime']
      BY <2>1, <2>3 DEF LogsInv
    <2>5. NewestFirst'
      BY <2>1 DEF LogsInv, NewestFirst, Number
    <2> QED
      BY <2>1, <2>2, <2>4, <2>5 DEF LogsInv
  <1>3. CASE OpenLogs
    <2>1. PICK answered \in GetServiceLogs : logs' = answered
      BY <1>3 DEF OpenLogs
    <2>2. logTime' = logTime /\ logLines' = logLines
      BY <1>3 DEF OpenLogs
    <2>3. 1 .. logTime \subseteq Nat
      BY <1>0 DEF LogsInv
    <2>4. logLines \subseteq Lines
      BY <2>3 DEF LogsInv, Lines
    <2>5. IsFiniteSet(InWindow) /\ InWindow \subseteq Lines
      BY <2>4, FS_Subset DEF LogsInv, InWindow
    <2>6. NewestFirst'
      BY <2>1, <2>5, EntriesAreInOrder
    <2> QED
      BY <2>2, <2>6 DEF LogsInv
  <1> QED
    BY <1>1, <1>2, <1>3 DEF LogsNext

LEMMA LogsInvHolds == Spec => []LogsInv
  <1>1. Init => LogsInv
    <2> SUFFICES ASSUME Init PROVE LogsInv
      OBVIOUS
    <2>1. logTime = 1 /\ logLines = {} /\ logs = [open |-> FALSE]
      BY DEF Init, LogsInit
    <2>2. NewestFirst
      BY <2>1 DEF NewestFirst
    <2> QED
      BY <2>1, <2>2, LogsPageAssumption, FS_EmptySet DEF LogsInv
  <1>2. LogsInv /\ [Next]_consoleVars => LogsInv'
    <2> SUFFICES ASSUME LogsInv, [Next]_consoleVars PROVE LogsInv'
      OBVIOUS
    <2>1. LogsNext \/ UNCHANGED logsVars
      BY DEF Next, consoleVars
    <2>2. CASE UNCHANGED logsVars
      BY <2>2 DEF LogsInv, logsVars, NewestFirst, Number
    <2> QED
      BY <2>1, <2>2, LogsInvStep
  <1> QED
    BY <1>1, <1>2, PTL DEF Spec

\* Streams of several labels, a limit, and timestamps that are rounded to what a
\* JavaScript number tells apart: whatever Loki answers, in whatever order of
\* the streams, a page of logs is newest first, keeps the exact order of each
\* stream's lines, and leaves out no line that is newer than one it shows.
THEOREM LogsAreNewestFirst == Spec => []NewestFirst
  <1>1. LogsInv => NewestFirst
    BY DEF LogsInv
  <1> QED
    BY <1>1, LogsInvHolds, PTL

-----------------------------------------------------------------------------
(* The overview of a service.                                              *)

\* Nothing is counted where a function is zero.
LEMMA TotalOfNothing ==
    ASSUME NEW D, NEW f \in [D -> Nat], \A i \in D : f[i] = 0
    PROVE  Total(f) = 0
  <1>1. \A i \in D : {i} \X (1 .. f[i]) = {}
    OBVIOUS
  <1>2. UNION {{i} \X (1 .. f[i]) : i \in DOMAIN f} = {}
    BY <1>1
  <1> QED
    BY <1>2, FS_EmptySet DEF Total

LEMMA Units ==
    ASSUME NEW a, NEW n \in Nat
    PROVE  IsFiniteSet({a} \X (1 .. n)) /\ Cardinality({a} \X (1 .. n)) = n
  <1>1. IsFiniteSet({a}) /\ Cardinality({a}) = 1
    BY FS_Singleton
  <1>2. IsFiniteSet(1 .. n) /\ Cardinality(1 .. n) = n
    BY FS_Interval
  <1>3. Cardinality({a} \X (1 .. n)) = 1 * n
    BY <1>1, <1>2, FS_Product
  <1>4. IsFiniteSet({a} \X (1 .. n))
    BY <1>1, <1>2, FS_Product
  <1>5. 1 * n = n
    OBVIOUS
  <1> QED
    BY <1>3, <1>4, <1>5, Zenon

LEMMA TotalOfOne ==
    ASSUME NEW D, NEW f \in [D -> Nat], NEW a \in D, \A i \in D \ {a} : f[i] = 0
    PROVE  Total(f) = f[a]
  <1>1. \A i \in D \ {a} : {i} \X (1 .. f[i]) = {}
    OBVIOUS
  <1>2. UNION {{i} \X (1 .. f[i]) : i \in D} = {a} \X (1 .. f[a])
    <2>1. ASSUME NEW i \in D, NEW x \in {i} \X (1 .. f[i]) PROVE x \in {a} \X (1 .. f[a])
      BY <1>1, <2>1
    <2>2. \A x \in UNION {{i} \X (1 .. f[i]) : i \in D} : x \in {a} \X (1 .. f[a])
      BY <2>1
    <2>3. \A x \in {a} \X (1 .. f[a]) : x \in UNION {{i} \X (1 .. f[i]) : i \in D}
      OBVIOUS
    <2> QED
      BY <2>2, <2>3, Zenon
  <1>3. Total(f) = Cardinality(UNION {{i} \X (1 .. f[i]) : i \in D})
    <2>1. DOMAIN f = D
      OBVIOUS
    <2> QED
      BY <2>1, Zenon DEF Total
  <1>4. f[a] \in Nat
    OBVIOUS
  <1>5. Cardinality({a} \X (1 .. f[a])) = f[a]
    BY <1>4, Units
  <1> QED
    BY <1>2, <1>3, <1>5, Zenon

LEMMA TotalOfTwo ==
    ASSUME NEW D, NEW f \in [D -> Nat], NEW a \in D, NEW b \in D, a # b,
           \A i \in D \ {a, b} : f[i] = 0
    PROVE  Total(f) = f[a] + f[b]
  <1> DEFINE units(i) == {i} \X (1 .. f[i])
  <1>1. \A i \in D \ {a, b} : units(i) = {}
    OBVIOUS
  <1>2. units(a) \intersect units(b) = {}
    OBVIOUS
  <1>3. \A i \in D : IsFiniteSet(units(i)) /\ Cardinality(units(i)) = f[i]
    BY Units
  <1>4. Total(f) = Cardinality(UNION {units(i) : i \in D})
    <2>1. DOMAIN f = D
      OBVIOUS
    <2> QED
      BY <2>1, Zenon DEF Total
  <1> HIDE DEF units
  <1>5. UNION {units(i) : i \in D} = units(a) \union units(b)
    <2>1. ASSUME NEW i \in D, NEW x \in units(i) PROVE x \in units(a) \union units(b)
      BY <1>1, <2>1
    <2>2. \A x \in UNION {units(i) : i \in D} : x \in units(a) \union units(b)
      BY <2>1
    <2>3. \A x \in units(a) \union units(b) : x \in UNION {units(i) : i \in D}
      OBVIOUS
    <2> QED
      BY <2>2, <2>3, Zenon
  <1>6. Cardinality(units(a) \union units(b)) = f[a] + f[b] - Cardinality(units(a) \intersect units(b))
    BY <1>3, FS_Union
  <1>7. Cardinality(units(a) \intersect units(b)) = 0
    BY <1>2, FS_EmptySet
  <1>8. Total(f) = Cardinality(units(a) \union units(b))
    BY <1>4, <1>5, Zenon
  <1> QED
    BY <1>6, <1>7, <1>8

Elements(s) == {s[i] : i \in DOMAIN s}

\* s is a list of the elements of E, each once.
Enumerates(s, E) ==
    /\ s \in Seq(E)
    /\ \A x \in E : \E i \in 1 .. Len(s) : s[i] = x
    /\ \A i, j \in 1 .. Len(s) : s[i] = s[j] => i = j

LEMMA FunctionIsList ==
    ASSUME NEW m \in Nat, NEW G, NEW u \in [1 .. m -> G]
    PROVE  u \in Seq(G) /\ Len(u) = m /\ DOMAIN u = 1 .. m
  OBVIOUS

LEMMA Listing ==
    ASSUME NEW E, NEW s, Enumerates(s, E)
    PROVE  /\ Len(s) \in Nat /\ DOMAIN s = 1 .. Len(s)
           /\ \A i \in 1 .. Len(s) : s[i] \in E
           /\ \A x \in E : \E i \in 1 .. Len(s) : s[i] = x
           /\ \A i, j \in 1 .. Len(s) : s[i] = s[j] => i = j
  BY DEF Enumerates

\* s is a list of the elements of E, each once but for those of D.
ListsBut(s, E, D) ==
    /\ s \in Seq(E)
    /\ \A x \in E : \E i \in 1 .. Len(s) : s[i] = x
    /\ \A i, j \in 1 .. Len(s) : s[i] = s[j] => i = j \/ s[i] \in D

LEMMA ElementsListed ==
    ASSUME NEW E, NEW s, NEW D, ListsBut(s, E, D)
    PROVE  Elements(s) = E /\ DOMAIN s = 1 .. Len(s)
  BY DEF ListsBut, Elements

LEMMA EachOnceIsListed ==
    ASSUME NEW E, NEW s, Enumerates(s, E), NEW D
    PROVE  ListsBut(s, E, D)
  BY DEF Enumerates, ListsBut

LEMMA OneListAfterTheOther ==
    ASSUME NEW D, NEW E, NEW s, ListsBut(s, E, D), NEW F, NEW t, ListsBut(t, F, D),
           E \intersect F \subseteq D
    PROVE  ListsBut(s \o t, E \union F, D)
  <1>1. s \in Seq(E \union F) /\ t \in Seq(E \union F)
    BY DEF ListsBut
  <1>2. /\ Len(s) \in Nat /\ Len(t) \in Nat
        /\ s \o t \in Seq(E \union F) /\ Len(s \o t) = Len(s) + Len(t)
        /\ \A i \in 1 .. Len(s) : (s \o t)[i] = s[i] /\ s[i] \in E
        /\ \A i \in 1 .. Len(t) : (s \o t)[Len(s) + i] = t[i] /\ t[i] \in F
    BY <1>1 DEF ListsBut
  <1> DEFINE u == s \o t
             m == Len(s)
             n == Len(t)
  <1> HIDE DEF u, m, n
  <1>3. /\ m \in Nat /\ n \in Nat /\ u \in Seq(E \union F) /\ Len(u) = m + n
        /\ \A i \in 1 .. m : u[i] = s[i] /\ s[i] \in E
        /\ \A i \in 1 .. n : u[m + i] = t[i] /\ t[i] \in F
    BY <1>2 DEF u, m, n
  <1>4. \A x \in E \union F : \E i \in 1 .. m + n : u[i] = x
    <2>1. ASSUME NEW x \in E PROVE \E i \in 1 .. m + n : u[i] = x
      <3>1. PICK i \in 1 .. m : s[i] = x
        BY DEF ListsBut, m
      <3>2. i \in 1 .. m + n
        BY <1>3
      <3> QED
        BY <1>3, <3>1, <3>2
    <2>2. ASSUME NEW x \in F PROVE \E i \in 1 .. m + n : u[i] = x
      <3>1. PICK i \in 1 .. n : t[i] = x
        BY DEF ListsBut, n
      <3>2. m + i \in 1 .. m + n
        BY <1>3
      <3> QED
        BY <1>3, <3>1, <3>2
    <2> QED
      BY <2>1, <2>2
  <1>5. \A i \in 1 .. m + n : \/ i \in 1 .. m /\ u[i] = s[i] /\ u[i] \in E
                              \/ /\ i - m \in 1 .. n /\ u[i] = t[i - m] /\ u[i] \in F
    <2> SUFFICES ASSUME NEW i \in 1 .. m + n, i \notin 1 .. m
                 PROVE  i - m \in 1 .. n /\ u[i] = t[i - m] /\ u[i] \in F
      BY <1>3
    <2>1. i - m \in 1 .. n /\ m + (i - m) = i
      BY <1>3
    <2> QED
      BY <1>3, <2>1
  <1>6. \A i, j \in 1 .. m + n : u[i] = u[j] => i = j \/ u[i] \in D
    <2> SUFFICES ASSUME NEW i \in 1 .. m + n, NEW j \in 1 .. m + n, u[i] = u[j], u[i] \notin D
                 PROVE  i = j
      OBVIOUS
    <2>1. CASE i \in 1 .. m /\ j \in 1 .. m
      BY <1>3, <2>1 DEF ListsBut, m
    <2>2. CASE i - m \in 1 .. n /\ j - m \in 1 .. n /\ u[i] = t[i - m] /\ u[j] = t[j - m]
      <3>1. t[i - m] = t[j - m] /\ t[i - m] \notin D
        BY <2>2
      <3>2. i - m = j - m
        BY <2>2, <3>1 DEF ListsBut, n
      <3> QED
        BY <1>3, <3>2
    <2> QED
      BY <1>5, <2>1, <2>2
  <1> QED
    BY <1>3, <1>4, <1>6 DEF ListsBut, u

LEMMA OneAfterTheOther ==
    ASSUME NEW E, NEW s, Enumerates(s, E), NEW F, NEW t, Enumerates(t, F),
           E \intersect F = {}
    PROVE  Enumerates(s \o t, E \union F)
  <1>1. ListsBut(s, E, {}) /\ ListsBut(t, F, {})
    BY EachOnceIsListed
  <1>2. ListsBut(s \o t, E \union F, {})
    BY <1>1, OneListAfterTheOther
  <1> QED
    BY <1>2 DEF ListsBut, Enumerates

LEMMA ListOfNone == Enumerates(<<>>, {})
  BY DEF Enumerates

LEMMA ListOfOne ==
    ASSUME NEW x
    PROVE  Enumerates(<<x>>, {x})
  BY DEF Enumerates

LEMMA ListOfTwo ==
    ASSUME NEW x, NEW y, x # y
    PROVE  Enumerates(<<x, y>>, {x, y})
  BY DEF Enumerates

\* What a group of cards c has drawn of its items: cards of that kind, one of
\* them perhaps for those that did not fit; every card has an edge, from one of
\* the sources that is the place of an item, or from `more`.
Draws(c, kind, n, limit, sources, more) ==
    LET drawn == Elements(c.nodes)
    IN  /\ ListsBut(c.nodes, drawn, {Overflow(kind)})
        /\ c.counted = n
        /\ \A x \in drawn : x[1] = kind
        /\ \A edge \in c.edges :
              /\ edge[2] \in drawn /\ n > 0
              /\ edge[1] = more \/ \E i \in 1 .. limit : i <= n /\ edge[1] = sources[i]
        /\ \A x \in drawn : \E edge \in c.edges : edge[2] = x

LEMMA CardsAreDrawn ==
    ASSUME NEW I, NEW items, Enumerates(items, I), NEW kind, \A x \in I : x[1] = kind,
           NEW limit \in Nat \ {0}, NEW sources, NEW more
    PROVE  LET c == Cards(items, limit, Overflow(kind), sources, more)
           IN  /\ Draws(c, kind, Len(items), limit, sources, more)
               /\ Overflow(kind) \notin I => Enumerates(c.nodes, Elements(c.nodes))
  <1> DEFINE n == Len(items)
             m == IF n < limit THEN n ELSE limit
             cards == FirstOf(items, limit)
             over == Overflow(kind)
             rest == IF Len(items) > Len(cards) THEN <<over>> ELSE <<>>
             cardEdges == {<<sources[i], cards[i]>> : i \in DOMAIN cards}
             restEdges == {<<more, rest[i]>> : i \in DOMAIN rest}
             c == Cards(items, limit, over, sources, more)
             C == {items[i] : i \in 1 .. m}
             O == IF n > m THEN {over} ELSE {}
  <1>1. items \in Seq(I) /\ n \in Nat /\ m \in Nat /\ m <= n /\ m <= limit
        /\ (n > 0 => m > 0)
    BY DEF Enumerates
  <1>2. cards \in Seq(I) /\ Len(cards) = m /\ \A i \in 1 .. m : cards[i] = items[i]
    BY <1>1 DEF FirstOf
  <1>3. c = [nodes |-> cards \o rest,
             counted |-> Len(cards) + Len(rest) * (Len(items) - Len(cards)),
             edges |-> cardEdges \union restEdges]
    BY DEF Cards
  <1>4. over[1] = kind
    BY DEF Overflow
  <1> HIDE DEF cards, m, n, over
  <1>5. DOMAIN cards = 1 .. m
    BY <1>2
  <1>6. \A i, j \in 1 .. m : items[i] = items[j] => i = j
    <2>1. 1 .. m \subseteq 1 .. Len(items)
      BY <1>1 DEF n
    <2> QED
      BY <2>1 DEF Enumerates
  <1>7. Enumerates(cards, C) /\ Len(cards) = m /\ DOMAIN cards = 1 .. m
    <2>1. cards \in Seq(C)
      <3>1. cards = [i \in 1 .. m |-> cards[i]]
        BY <1>2, <1>5
      <3>2. cards \in [1 .. m -> C]
        BY <1>2, <3>1
      <3> HIDE DEF C
      <3> QED
        BY <1>1, <3>2, FunctionIsList
    <2>2. \A x \in C : \E i \in 1 .. m : cards[i] = x
      BY <1>2
    <2>3. \A i, j \in 1 .. m : cards[i] = cards[j] => i = j
      BY <1>2, <1>6
    <2> HIDE DEF C
    <2> QED
      BY <1>2, <1>5, <2>1, <2>2, <2>3 DEF Enumerates
  <1>8. Enumerates(rest, O) /\ Len(rest) = (IF n > m THEN 1 ELSE 0)
    <2>1. CASE n > m
      <3>1. rest = <<over>> /\ O = {over} /\ Len(<<over>>) = 1
        BY <1>2, <2>1 DEF n
      <3> HIDE DEF rest, O
      <3> QED
        BY <2>1, <3>1, ListOfOne
    <2>2. CASE ~(n > m)
      <3>1. rest = <<>> /\ O = {} /\ Len(<<>>) = 0
        BY <1>2, <2>2 DEF n
      <3> HIDE DEF rest, O
      <3> QED
        BY <2>2, <3>1, ListOfNone
    <2> QED
      BY <2>1, <2>2
  <1>9. C \intersect O \subseteq {over}
    BY DEF C, O
  <1>10. \A x \in C : x[1] = kind
    <2>1. \A i \in 1 .. m : items[i] \in I
      BY <1>1 DEF n
    <2> QED
      BY <2>1
  <1>11. \A x \in O : x = over /\ n > m
    OBVIOUS
  <1>19. C \subseteq I
    BY <1>1 DEF n
  <1> HIDE DEF C, O
  <1>12. ListsBut(c.nodes, C \union O, {over}) /\ Elements(c.nodes) = C \union O
    <2>1. c.nodes = cards \o rest
      BY <1>3
    <2>2. ListsBut(cards, C, {over}) /\ ListsBut(rest, O, {over})
      BY <1>7, <1>8, EachOnceIsListed
    <2>3. ListsBut(cards \o rest, C \union O, {over})
      BY <1>9, <2>2, OneListAfterTheOther
    <2> QED
      BY <2>1, <2>3, ElementsListed
  <1>20. over \notin I => Enumerates(c.nodes, C \union O)
    <2> SUFFICES ASSUME over \notin I PROVE Enumerates(c.nodes, C \union O)
      OBVIOUS
    <2>1. c.nodes = cards \o rest
      BY <1>3
    <2>2. C \intersect O = {}
      BY <1>9, <1>19
    <2>3. Enumerates(cards \o rest, C \union O)
      BY <1>7, <1>8, <2>2, OneAfterTheOther
    <2> QED
      BY <2>1, <2>3
  <1>13. c.counted = n
    <2>1. c.counted = Len(cards) + Len(rest) * (n - m)
      BY <1>2, <1>3 DEF n
    <2>2. CASE n > m
      BY <1>1, <1>7, <1>8, <2>1, <2>2
    <2>3. CASE ~(n > m)
      BY <1>1, <1>7, <1>8, <2>1, <2>3
    <2> QED
      BY <2>2, <2>3
  <1>14. c.edges = cardEdges \union restEdges
    BY <1>3
  <1> HIDE DEF rest, c
  <1>15. DOMAIN rest = 1 .. Len(rest) /\ (\A i \in 1 .. Len(rest) : rest[i] \in O)
         /\ (\A x \in O : \E i \in 1 .. Len(rest) : rest[i] = x)
    BY <1>8, Listing
  <1>16. (\A i \in 1 .. m : cards[i] \in C) /\ (\A x \in C : \E i \in 1 .. m : cards[i] = x)
    BY <1>7, Listing
  <1>17. ASSUME NEW edge \in c.edges
         PROVE  /\ edge[2] \in C \union O /\ n > 0
                /\ edge[1] = more \/ \E i \in 1 .. limit : i <= n /\ edge[1] = sources[i]
    <2>1. CASE edge \in cardEdges
      <3>1. PICK i \in 1 .. m : edge = <<sources[i], cards[i]>>
        BY <1>7, <2>1
      <3>2. i \in 1 .. limit /\ i <= n /\ n > 0
        BY <1>1, <3>1
      <3> QED
        BY <1>16, <3>1, <3>2
    <2>2. CASE edge \in restEdges
      <3>1. PICK i \in 1 .. Len(rest) : edge = <<more, rest[i]>>
        BY <1>15, <2>2
      <3>2. rest[i] \in O
        BY <1>15, <3>1
      <3>3. n > 0
        BY <1>1, <1>11, <3>2
      <3> QED
        BY <3>1, <3>2, <3>3
    <2> QED
      BY <1>14, <1>17, <2>1, <2>2
  <1>18. ASSUME NEW x \in C \union O PROVE \E edge \in c.edges : edge[2] = x
    <2>1. CASE x \in C
      <3>1. PICK i \in 1 .. m : cards[i] = x
        BY <1>16, <2>1
      <3>2. <<sources[i], cards[i]>> \in c.edges
        BY <1>7, <1>14, <3>1
      <3> QED
        BY <3>1, <3>2
    <2>2. CASE x \in O
      <3>1. PICK i \in 1 .. Len(rest) : rest[i] = x
        BY <1>15, <2>2
      <3>2. <<more, rest[i]>> \in c.edges
        BY <1>14, <1>15, <3>1
      <3> QED
        BY <3>1, <3>2
    <2> QED
      BY <2>1, <2>2
  <1>21. Draws(c, kind, n, limit, sources, more)
    BY <1>4, <1>10, <1>11, <1>12, <1>13, <1>17, <1>18 DEF Draws, over
  <1> QED
    BY <1>12, <1>20, <1>21 DEF c, n, over

\* What is listed of the places P of a list is their listing, place by place.
LEMMA PlacesListed ==
    ASSUME NEW P, NEW s, NEW place, Selects(place, s, P),
           NEW g, \A p, q \in P : g[p] = g[q] => p = q,
           NEW u, u = [k \in 1 .. Cardinality(P) |-> g[place[k]]]
    PROVE  Enumerates(u, {g[p] : p \in P})
  <1> DEFINE m == Cardinality(P)
             G == {g[p] : p \in P}
  <1>1. /\ m \in Nat /\ place \in [1 .. m -> P]
        /\ \A i, j \in 1 .. m : place[i] = place[j] => i = j
        /\ \A p \in P : \E k \in 1 .. m : place[k] = p
    BY DEF Selects
  <1>2. u = [k \in 1 .. m |-> g[place[k]]]
    OBVIOUS
  <1> HIDE DEF m
  <1>3. u \in [1 .. m -> G] /\ \A k \in 1 .. m : u[k] = g[place[k]]
    <2>1. \A k \in 1 .. m : place[k] \in P
      BY <1>1
    <2>2. \A p \in P : g[p] \in G
      OBVIOUS
    <2> HIDE DEF G
    <2>3. \A k \in 1 .. m : g[place[k]] \in G
      BY <2>1, <2>2, Zenon
    <2>4. [k \in 1 .. m |-> g[place[k]]] \in [1 .. m -> G]
      BY <2>3
    <2>5. \A k \in 1 .. m : u[k] = g[place[k]]
      BY <1>2
    <2> QED
      BY <1>2, <2>4, <2>5, Zenon
  <1>4. u \in Seq(G) /\ Len(u) = m
    <2> HIDE DEF G
    <2>1. m \in Nat /\ u \in [1 .. m -> G]
      BY <1>1, <1>3, Zenon
    <2> QED
      BY <2>1, FunctionIsList, Zenon
  <1>5. \A x \in G : \E k \in 1 .. m : u[k] = x
    <2> SUFFICES ASSUME NEW p \in P PROVE \E k \in 1 .. m : u[k] = g[p]
      OBVIOUS
    <2>1. PICK k \in 1 .. m : place[k] = p
      BY <1>1
    <2> QED
      BY <1>3, <2>1
  <1>6. \A i, j \in 1 .. m : u[i] = u[j] => i = j
    BY <1>1, <1>3
  <1> HIDE DEF G
  <1>7. Enumerates(u, G)
    BY <1>4, <1>5, <1>6 DEF Enumerates
  <1> QED
    BY <1>7 DEF G

LEMMA SetupIsNamed == ASSUME setup \in Setups PROVE NamesDiffer(setup)
  BY SetupsAssumption

LEMMA ListsAreLists ==
    ASSUME NEW s, IsList(s)
    PROVE  Len(s) \in Nat /\ DOMAIN s = 1 .. Len(s) /\ s \in Seq(Elements(s))
  BY DEF IsList, Elements

ContainerCard(name) == <<"container", name>>

LEMMA ContainersListed ==
    ASSUME setup \in Setups
    PROVE  /\ Enumerates(ShownContainers, {ContainerCard(x) : x \in Elements(setup.containers)})
           /\ Len(ShownContainers) = Len(setup.containers)
  <1> DEFINE s == setup.containers
             u == ShownContainers
             E == Elements(s)
             C == {ContainerCard(x) : x \in E}
  <1>1. IsList(s) /\ \A i, j \in DOMAIN s : s[i] = s[j] => i = j
    BY SetupIsNamed DEF NamesDiffer
  <1>2. u = [i \in DOMAIN s |-> ContainerCard(s[i])]
    BY DEF ShownContainers, ContainerCard
  <1>3. \A x, y : ContainerCard(x) = ContainerCard(y) => x = y
    BY DEF ContainerCard
  <1> HIDE DEF s, u
  <1>4. Len(s) \in Nat /\ DOMAIN s = 1 .. Len(s)
    BY <1>1, ListsAreLists
  <1>5. \A i \in 1 .. Len(s) : s[i] \in E
    BY <1>4 DEF Elements
  <1>6. \A x \in E : \E i \in 1 .. Len(s) : s[i] = x
    BY <1>4 DEF Elements
  <1> HIDE DEF E
  <1>7. u \in [1 .. Len(s) -> C]
    BY <1>2, <1>4, <1>5
  <1>8. \A i, j \in 1 .. Len(s) : u[i] = u[j] => i = j
    BY <1>1, <1>2, <1>3, <1>4
  <1>9. \A x \in C : \E i \in 1 .. Len(s) : u[i] = x
    BY <1>2, <1>4, <1>6
  <1> HIDE DEF C
  <1>10. u \in Seq(C) /\ Len(u) = Len(s)
    BY <1>4, <1>7, FunctionIsList
  <1>11. Enumerates(u, C) /\ Len(u) = Len(s)
    BY <1>8, <1>9, <1>10 DEF Enumerates
  <1> QED
    BY <1>11 DEF u, C, E, s

ClusterCard(cluster) == <<"postgres", cluster.name>>

LEMMA ClustersListed ==
    ASSUME setup \in Setups
    PROVE  Enumerates(LinkedClusters,
                      {ClusterCard(x) : x \in {y \in Elements(GetServicePostgresClusters) :
                                                   y.partOf = setup.name}})
  <1> DEFINE s == GetServicePostgresClusters
             P == {i \in DOMAIN s : s[i].partOf = setup.name}
             found == Selected(s, P)
             g == [i \in DOMAIN s |-> ClusterCard(s[i])]
             G == {ClusterCard(x) : x \in {y \in Elements(s) : y.partOf = setup.name}}
  <1>1. /\ Len(s) \in Nat /\ DOMAIN s = 1 .. Len(s)
        /\ \A i, j \in DOMAIN s : s[i].name = s[j].name => i = j
    <2>1. CASE s = <<>>
      BY <2>1
    <2>2. CASE s = setup.clusters
      <3>1. IsList(setup.clusters)
            /\ \A i, j \in DOMAIN setup.clusters :
                  setup.clusters[i].name = setup.clusters[j].name => i = j
        BY SetupIsNamed DEF NamesDiffer
      <3> QED
        BY <2>2, <3>1, ListsAreLists
    <2> QED
      BY <2>1, <2>2 DEF GetServicePostgresClusters
  <1>2. LinkedClusters = [i \in DOMAIN found |-> ClusterCard(found[i])]
    BY DEF LinkedClusters, ClusterCard
  <1>0. \A x, y : ClusterCard(x) = ClusterCard(y) => x.name = y.name
    BY DEF ClusterCard
  <1> HIDE DEF s
  <1>3. PICK place : Selects(place, s, P)
    BY <1>1, SelectedInOrder
  <1> DEFINE m == Cardinality(P)
  <1>4. found = [k \in 1 .. m |-> s[place[k]]] /\ place \in [1 .. m -> P]
    BY <1>3 DEF Selects
  <1>5. P \subseteq DOMAIN s /\ \A i \in DOMAIN s : g[i] = ClusterCard(s[i])
    OBVIOUS
  <1>9. {g[p] : p \in P} = G
    BY <1>5 DEF Elements
  <1> HIDE DEF found, P, m, g, G
  <1>6. LinkedClusters = [k \in 1 .. m |-> g[place[k]]]
    BY <1>2, <1>4, <1>5
  <1>7. \A p, q \in P : g[p] = g[q] => p = q
    BY <1>0, <1>1, <1>5
  <1>8. Enumerates(LinkedClusters, {g[p] : p \in P})
    BY <1>3, <1>6, <1>7, PlacesListed DEF m
  <1> QED
    BY <1>8, <1>9 DEF G, s

\* Dapr resources of the cluster are told apart by kind, namespace and name.
LEMMA ResourcesDiffer ==
    ASSUME setup \in Setups
    PROVE  /\ Len(setup.dapr) \in Nat /\ DOMAIN setup.dapr = 1 .. Len(setup.dapr)
           /\ \A i, j \in DOMAIN setup.dapr :
                 /\ setup.dapr[i].kind = setup.dapr[j].kind
                 /\ setup.dapr[i].namespace = setup.dapr[j].namespace
                 /\ setup.dapr[i].name = setup.dapr[j].name
                 => i = j
           /\ \A i \in DOMAIN setup.dapr :
                 setup.dapr[i].kind \in {"Component", "Configuration", "Subscription"}
  BY SetupIsNamed, ListsAreLists DEF NamesDiffer

OfKind(list, kind) ==
    IF list \in seen.failed THEN {} ELSE {x \in Elements(setup.dapr) : x.kind = kind}

LEMMA KindListed ==
    ASSUME setup \in Setups, NEW list, NEW kind
    PROVE  Enumerates(Listed(list, kind), OfKind(list, kind))
  <1>1. CASE list \in seen.failed
    BY <1>1, ListOfNone DEF Listed, OfKind
  <1>2. CASE list \notin seen.failed
    <2> DEFINE s == setup.dapr
               P == {i \in DOMAIN s : s[i].kind = kind}
               m == Cardinality(P)
    <2>1. Len(s) \in Nat /\ P \subseteq 1 .. Len(s)
      BY ResourcesDiffer
    <2>2. PICK place : Selects(place, s, P)
      BY <2>1, SelectedInOrder
    <2>3. Listed(list, kind) = Selected(s, P)
      BY <1>2 DEF Listed
    <2>4. \A p, q \in P : s[p] = s[q] => p = q
      BY ResourcesDiffer
    <2>5. {s[p] : p \in P} = OfKind(list, kind)
      BY <1>2 DEF OfKind, Elements
    <2> HIDE DEF P, s
    <2>6. Listed(list, kind) = [k \in 1 .. m |-> s[place[k]]]
      BY <2>2, <2>3 DEF Selects
    <2>7. Enumerates(Listed(list, kind), {s[p] : p \in P})
      BY <2>2, <2>4, <2>6, PlacesListed
    <2> QED
      BY <2>5, <2>7
  <1> QED
    BY <1>1, <1>2

DaprListed ==
    OfKind("components", "Component") \union OfKind("configurations", "Configuration")
    \union OfKind("subscriptions", "Subscription")

LEMMA ResourcesListed ==
    ASSUME setup \in Setups
    PROVE  Enumerates(ListDaprResources, DaprListed)
  <1> DEFINE a == Listed("components", "Component")
             b == Listed("configurations", "Configuration")
             c == Listed("subscriptions", "Subscription")
             A == OfKind("components", "Component")
             B == OfKind("configurations", "Configuration")
             C == OfKind("subscriptions", "Subscription")
  <1>1. Enumerates(a, A) /\ Enumerates(b, B) /\ Enumerates(c, C)
    BY KindListed
  <1>2. A \intersect B = {} /\ (A \union B) \intersect C = {}
    BY DEF OfKind
  <1>3. ListDaprResources = a \o b \o c /\ DaprListed = A \union B \union C
    BY DEF ListDaprResources, DaprListed
  <1> HIDE DEF a, b, c, A, B, C
  <1>4. Enumerates(a \o b, A \union B)
    BY <1>1, <1>2, OneAfterTheOther
  <1>5. Enumerates((a \o b) \o c, (A \union B) \union C)
    BY <1>1, <1>2, <1>4, OneAfterTheOther
  <1> QED
    BY <1>3, <1>5

DaprCard(x) == <<"dapr", x.kind, x.name>>

LEMMA ShownListed ==
    ASSUME setup \in Setups
    PROVE  Enumerates(ShownDapr, {DaprCard(x) : x \in {y \in DaprListed : Related(y)}})
  <1> DEFINE s == ListDaprResources
             P == {i \in DOMAIN s : Related(s[i])}
             related == GetRelatedDaprResources
             g == [i \in DOMAIN s |-> DaprCard(s[i])]
             m == Cardinality(P)
  <1>1. Enumerates(s, DaprListed)
    BY ResourcesListed
  <1>2. related = Selected(s, P)
    BY DEF GetRelatedDaprResources
  <1>3. ShownDapr = [i \in DOMAIN related |-> DaprCard(related[i])]
    BY DEF ShownDapr, DaprCard
  <1> HIDE DEF s, related
  <1>4. /\ Len(s) \in Nat /\ DOMAIN s = 1 .. Len(s)
        /\ \A i \in DOMAIN s : s[i] \in DaprListed
        /\ \A x \in DaprListed : \E i \in DOMAIN s : s[i] = x
        /\ \A i, j \in DOMAIN s : s[i] = s[j] => i = j
    <2>1. /\ Len(s) \in Nat /\ DOMAIN s = 1 .. Len(s)
          /\ \A i \in 1 .. Len(s) : s[i] \in DaprListed
          /\ \A x \in DaprListed : \E i \in 1 .. Len(s) : s[i] = x
          /\ \A i, j \in 1 .. Len(s) : s[i] = s[j] => i = j
      BY <1>1, Listing
    <2> QED
      BY <2>1
  <1>5. PICK place : Selects(place, s, P)
    BY <1>4, SelectedInOrder
  <1>6. DaprListed \subseteq Elements(setup.dapr)
    BY DEF DaprListed, OfKind
  <1>7. \A x, y \in Elements(setup.dapr) :
           x.kind = y.kind /\ x.namespace = y.namespace /\ x.name = y.name => x = y
    BY ResourcesDiffer DEF Elements
  <1>8. P \subseteq DOMAIN s
        /\ \A p \in P : s[p] \in Elements(setup.dapr) /\ s[p].namespace = setup.namespace
    BY <1>4, <1>6 DEF Related
  <1>9. \A i \in DOMAIN s : g[i] = DaprCard(s[i])
    OBVIOUS
  <1>10. {g[p] : p \in P} = {DaprCard(x) : x \in {y \in DaprListed : Related(y)}}
    BY <1>4, <1>9
  <1> HIDE DEF P, g
  <1>11. \A p, q \in P : g[p] = g[q] => p = q
    <2> SUFFICES ASSUME NEW p \in P, NEW q \in P, g[p] = g[q] PROVE p = q
      OBVIOUS
    <2>1. s[p].kind = s[q].kind /\ s[p].name = s[q].name /\ p \in DOMAIN s /\ q \in DOMAIN s
      BY <1>8, <1>9 DEF DaprCard
    <2>2. s[p] = s[q]
      BY <1>7, <1>8, <2>1
    <2> QED
      BY <1>4, <2>1, <2>2
  <1>12. /\ related = [k \in 1 .. m |-> s[place[k]]]
         /\ \A k \in 1 .. m : place[k] \in P
    BY <1>2, <1>5 DEF Selects
  <1> HIDE DEF m
  <1>13. ShownDapr = [k \in 1 .. m |-> g[place[k]]]
    BY <1>3, <1>8, <1>9, <1>12
  <1>14. Enumerates(ShownDapr, {g[p] : p \in P})
    BY <1>5, <1>11, <1>13, PlacesListed DEF m
  <1> QED
    BY <1>10, <1>14

\* The identity of a Dapr resource has its kind in it, so none of them has that
\* of the card for those that do not fit.
LEMMA DaprIsNoOverflow == \A x : DaprCard(x) # Overflow("dapr")
  <1> TAKE x
  <1>1. Len(DaprCard(x)) = 3 /\ Len(Overflow("dapr")) = 2
    BY DEF DaprCard, Overflow
  <1> QED
    BY <1>1

ContainerSources ==
    [i \in 1 .. 4 |-> IF i \in DOMAIN RoutedRevisions THEN RoutedRevisions[i]
                      ELSE IF RoutedRevisions # <<>> THEN RoutedRevisions[1] ELSE ServiceNode]

DaprSources == [i \in 1 .. 4 |-> Sidecar]
PostgresSources == [i \in 1 .. 3 |-> ServiceNode]

LEMMA GroupsAreDrawn ==
    ASSUME setup \in Setups
    PROVE  /\ Draws(ContainerCards, "container", Len(setup.containers), 4, ContainerSources,
                    ServiceNode)
           /\ Draws(DaprCards, "dapr", Len(ShownDapr), 4, DaprSources, Sidecar)
           /\ Draws(PostgresCards, "postgres", Len(LinkedClusters), 3, PostgresSources,
                    ServiceNode)
           /\ Enumerates(DaprCards.nodes, Elements(DaprCards.nodes))
  <1> DEFINE c == Cards(ShownContainers, 4, Overflow("container"), ContainerSources, ServiceNode)
             d == Cards(ShownDapr, 4, Overflow("dapr"), DaprSources, Sidecar)
             p == Cards(LinkedClusters, 3, Overflow("postgres"), PostgresSources, ServiceNode)
  <1>1. ContainerCards = c /\ DaprCards = d /\ PostgresCards = p
    BY DEF ContainerCards, DaprCards, PostgresCards, ContainerSources, DaprSources,
           PostgresSources
  <1>2. /\ \A x : /\ ContainerCard(x)[1] = "container" /\ DaprCard(x)[1] = "dapr"
                  /\ ClusterCard(x)[1] = "postgres"
        /\ 4 \in Nat \ {0} /\ 3 \in Nat \ {0}
    BY DEF ContainerCard, DaprCard, ClusterCard
  <1>3. Draws(c, "container", Len(setup.containers), 4, ContainerSources, ServiceNode)
    <2> DEFINE I == {ContainerCard(x) : x \in Elements(setup.containers)}
    <2>1. \A x \in I : x[1] = "container"
      BY <1>2
    <2>2. Enumerates(ShownContainers, I) /\ Len(ShownContainers) = Len(setup.containers)
      BY ContainersListed
    <2> HIDE DEF I, c
    <2>3. Draws(c, "container", Len(ShownContainers), 4, ContainerSources, ServiceNode)
      BY <1>2, <2>1, <2>2, CardsAreDrawn DEF c
    <2> QED
      BY <2>2, <2>3
  <1>4. /\ Draws(d, "dapr", Len(ShownDapr), 4, DaprSources, Sidecar)
        /\ Enumerates(d.nodes, Elements(d.nodes))
    <2> DEFINE I == {DaprCard(x) : x \in {y \in DaprListed : Related(y)}}
    <2>1. \A x \in I : x[1] = "dapr"
      BY <1>2
    <2>2. Enumerates(ShownDapr, I)
      BY ShownListed
    <2>3. Overflow("dapr") \notin I
      BY DaprIsNoOverflow
    <2> HIDE DEF I
    <2> QED
      BY <1>2, <2>1, <2>2, <2>3, CardsAreDrawn
  <1>5. Draws(p, "postgres", Len(LinkedClusters), 3, PostgresSources, ServiceNode)
    <2> DEFINE I == {ClusterCard(x) : x \in {y \in Elements(GetServicePostgresClusters) :
                                                y.partOf = setup.name}}
    <2>1. \A x \in I : x[1] = "postgres"
      BY <1>2
    <2>2. Enumerates(LinkedClusters, I)
      BY ClustersListed
    <2> HIDE DEF I
    <2> QED
      BY <1>2, <2>1, <2>2, CardsAreDrawn
  <1> HIDE DEF c, d, p
  <1> QED
    BY <1>1, <1>3, <1>4, <1>5

\* What does not fit is counted, whatever there is of it.
LEMMA CountedOnGraph ==
    ASSUME setup \in Setups
    PROVE  NothingHidden
  BY GroupsAreDrawn DEF NothingHidden, Draws

\* The traffic of a route: none yet, or what it can be configured to.
IsTraffic(traffic) ==
    \/ traffic = <<>>
    \/ \E l \in 1 .. MaxRevision :
          \/ traffic = All(l)
          \/ \E r \in (1 .. MaxRevision) \ {l} : traffic \in Splits(r, l)

Backed(traffic, known) == \A i \in DOMAIN traffic : traffic[i].revision \in known

ServiceInv ==
    /\ setup \in Setups
    /\ revisions \subseteq 1 .. MaxRevision /\ revisions # {}
    /\ changes \in 0 .. MaxChanges
    /\ \E e, y, l, t : service = [exists |-> e, ready |-> y, latest |-> l, traffic |-> t]
    /\ service.latest \in revisions \union {None}
    /\ IsTraffic(service.traffic) /\ Backed(service.traffic, revisions)

IsAnswer(a) ==
    \/ a = Pending \/ a = Failed
    \/ \E v, w : a = [how |-> "read", value |-> v, when |-> w]

\* What was read is what there was at the moment it was read, and what was read
\* at the same moment belongs together.
SeenInv ==
    /\ seen.open \in BOOLEAN
    /\ seen.open =>
          /\ \E s, r, f : seen = [open |-> TRUE, service |-> s, revisions |-> r, failed |-> f]
          /\ IsAnswer(seen.service) /\ IsAnswer(seen.revisions)
          /\ seen.service.how = "read" =>
                /\ IsTraffic(seen.service.value.traffic)
                /\ seen.service.when \in 0 .. changes
                /\ seen.service.when = changes => seen.service.value = service
          /\ seen.revisions.how = "read" =>
                /\ seen.revisions.value \subseteq 1 .. MaxRevision
                /\ seen.revisions.when \in 0 .. changes
                /\ seen.revisions.when = changes => seen.revisions.value = revisions
          /\ (/\ seen.service.how = "read" /\ seen.revisions.how = "read"
              /\ seen.service.when = seen.revisions.when)
                => Backed(seen.service.value.traffic, seen.revisions.value)

LEMMA NewestExists ==
    ASSUME revisions \subseteq 1 .. MaxRevision, revisions # {}
    PROVE  Newest \in revisions /\ \A q \in revisions : q <= Newest
  <1> DEFINE S == {MaxRevision - r : r \in revisions}
  <1>1. MaxRevision \in Nat /\ \A r \in revisions : r \in Nat /\ r <= MaxRevision
    BY ServicePageAssumption
  <1>2. S \in SUBSET Nat /\ S # {}
    <2>1. PICK q : q \in revisions
      OBVIOUS
    <2>2. MaxRevision - q \in S
      BY <2>1
    <2>3. \A r \in revisions : MaxRevision - r \in Nat
      BY <1>1
    <2> QED
      BY <2>2, <2>3
  <1>3. PICK k \in S : \A j \in S : k <= j
    BY <1>2, FirstExists
  <1>4. PICK r \in revisions : k = MaxRevision - r
    BY <1>3
  <1>5. \A q \in revisions : MaxRevision - r <= MaxRevision - q
    BY <1>3, <1>4
  <1>6. \A q \in revisions : q <= r
    BY <1>1, <1>5
  <1> QED
    BY <1>6 DEF Newest

\* A change while a page is read makes what was read before it older.
LEMMA SeenBecomesOlder ==
    ASSUME SeenInv, ServiceInv, Changed
    PROVE  SeenInv' /\ changes' \in 0 .. MaxChanges /\ setup' = setup
  <1>1. /\ seen' = seen /\ setup' = setup /\ changes < MaxChanges
        /\ changes' = IF seen.open THEN changes + 1 ELSE 0
        /\ changes \in Nat /\ MaxChanges \in Nat
    BY ServicePageAssumption DEF Changed, ServiceInv
  <1>2. changes' \in 0 .. MaxChanges
    BY <1>1
  <1>3. seen.open => \A w \in 0 .. changes : w \in 0 .. changes' /\ w # changes'
    BY <1>1
  <1>4. CASE ~seen.open
    BY <1>1, <1>4 DEF SeenInv
  <1>5. CASE seen.open
    BY <1>1, <1>3, <1>5 DEF SeenInv, Backed, IsTraffic
  <1> QED
    BY <1>1, <1>2, <1>4, <1>5 DEF SeenInv

LEMMA ChangesAreBacked ==
    ASSUME ServiceInv,
           Deploy \/ RevisionReady \/ RouteUpdated \/ RevisionCollected \/ PageServiceDeleted,
           changes' \in 0 .. MaxChanges, setup' = setup
    PROVE  ServiceInv'
  <1>1. Newest \in revisions /\ \A q \in revisions : q <= Newest
    BY NewestExists DEF ServiceInv
  <1>2. MaxRevision \in Nat /\ \A r \in revisions : r \in Nat /\ 1 <= r /\ r <= MaxRevision
    BY ServicePageAssumption DEF ServiceInv
  <1>3. PICK e, y, l, t : service = [exists |-> e, ready |-> y, latest |-> l, traffic |-> t]
    BY DEF ServiceInv
  <1>4. CASE Deploy
    <2>1. /\ revisions' = revisions \union {Newest + 1} /\ Newest + 1 \in 1 .. MaxRevision
          /\ service' = [exists |-> e, ready |-> "Unknown", latest |-> l, traffic |-> t]
      <3>1. Newest < MaxRevision /\ revisions' = revisions \union {Newest + 1}
            /\ service' = [service EXCEPT !.ready = "Unknown"]
        BY <1>4 DEF Deploy
      <3>2. Newest + 1 \in 1 .. MaxRevision
        BY <1>1, <1>2, <3>1
      <3>3. service' = [exists |-> e, ready |-> "Unknown", latest |-> l, traffic |-> t]
        BY <1>3, <3>1
      <3> QED
        BY <3>1, <3>2, <3>3
    <2> QED
      BY <1>3, <2>1 DEF ServiceInv, Backed, IsTraffic
  <1>5. CASE RevisionReady
    <2>1. /\ revisions' = revisions
          /\ service' = [exists |-> e, ready |-> y, latest |-> Newest, traffic |-> t]
      BY <1>3, <1>5 DEF RevisionReady
    <2> QED
      BY <1>1, <1>3, <2>1 DEF ServiceInv, Backed, IsTraffic
  <1>6. CASE RouteUpdated
    <2>0. service.latest = l
      BY <1>3
    <2>1. PICK traffic \in {All(l)} \union UNION {Splits(r, l) : r \in revisions \ {l}} :
             service' = [service EXCEPT !.ready = "True", !.traffic = traffic]
      BY <1>6, <2>0 DEF RouteUpdated
    <2>2. /\ revisions' = revisions /\ l \in revisions
          /\ service' = [exists |-> e, ready |-> "True", latest |-> l, traffic |-> traffic]
      BY <1>3, <1>6, <2>0, <2>1 DEF RouteUpdated, ServiceInv
    <2>3. IsTraffic(traffic) /\ Backed(traffic, revisions)
      <3>1. CASE traffic = All(l)
        <4>1. l \in 1 .. MaxRevision
          BY <1>2, <2>2
        <4>2. DOMAIN All(l) = {1} /\ All(l)[1].revision = l
          BY DEF All, Target
        <4> QED
          BY <2>2, <3>1, <4>1, <4>2 DEF IsTraffic, Backed
      <3>2. ASSUME NEW r \in revisions \ {l}, traffic \in Splits(r, l)
            PROVE  IsTraffic(traffic) /\ Backed(traffic, revisions)
        <4>1. IsTraffic(traffic)
          BY <1>2, <2>2, <3>2 DEF IsTraffic, ServiceInv
        <4>2. Backed(traffic, revisions)
          BY <2>2, <3>2 DEF Backed, Splits, Target
        <4> QED
          BY <4>1, <4>2
      <3> QED
        BY <2>1, <3>1, <3>2
    <2> QED
      BY <2>2, <2>3 DEF ServiceInv, Backed, IsTraffic
  <1>7. CASE RevisionCollected
    <2>1. PICK r \in revisions : /\ r < Newest /\ r # service.latest /\ ~Routed(r)
                                 /\ revisions' = revisions \ {r} /\ service' = service
      BY <1>7 DEF RevisionCollected
    <2>2. Newest \in revisions \ {r}
      BY <1>1, <1>2, <2>1
    <2>3. Backed(service.traffic, revisions \ {r})
      BY <2>1 DEF ServiceInv, Backed, Routed
    <2> QED
      BY <1>3, <2>1, <2>2, <2>3 DEF ServiceInv, IsTraffic, Backed
  <1>8. CASE PageServiceDeleted
    <2>1. /\ revisions' = revisions
          /\ service' = [exists |-> FALSE, ready |-> y, latest |-> l, traffic |-> t]
      BY <1>3, <1>8 DEF PageServiceDeleted
    <2> QED
      BY <1>3, <2>1 DEF ServiceInv, Backed, IsTraffic
  <1> QED
    BY <1>4, <1>5, <1>6, <1>7, <1>8

OverviewInv == ServiceInv /\ SeenInv

LEMMA OverviewInit == ASSUME PageInit PROVE OverviewInv
  <1>1. MaxRevision \in Nat \ {0} /\ MaxChanges \in Nat
    BY ServicePageAssumption
  <1>2. /\ setup \in Setups /\ revisions = {1} /\ changes = 0
        /\ service = [exists |-> TRUE, ready |-> None, latest |-> None, traffic |-> <<>>]
        /\ seen = [open |-> FALSE]
    BY DEF PageInit
  <1>3. IsTraffic(service.traffic) /\ Backed(service.traffic, revisions)
    BY <1>2 DEF IsTraffic, Backed
  <1>4. ServiceInv
    <2>1. revisions \subseteq 1 .. MaxRevision /\ revisions # {} /\ changes \in 0 .. MaxChanges
      BY <1>1, <1>2
    <2>2. service.latest \in revisions \union {None}
      BY <1>2
    <2> QED
      BY <1>2, <1>3, <2>1, <2>2 DEF ServiceInv
  <1>5. SeenInv
    BY <1>2 DEF SeenInv
  <1> QED
    BY <1>4, <1>5 DEF OverviewInv

LEMMA OverviewStep == ASSUME OverviewInv, PageNext PROVE OverviewInv'
  <1> USE DEF OverviewInv
  <1>1. CASE Deploy \/ RevisionReady \/ RouteUpdated \/ RevisionCollected \/ PageServiceDeleted
    <2>1. Changed
      BY <1>1 DEF Deploy, RevisionReady, RouteUpdated, RevisionCollected, PageServiceDeleted
    <2>2. SeenInv' /\ changes' \in 0 .. MaxChanges /\ setup' = setup
      BY <2>1, SeenBecomesOlder
    <2> QED
      BY <1>1, <2>2, ChangesAreBacked
  <1>2. changes \in Nat /\ 0 \in 0 .. MaxChanges /\ changes \in 0 .. changes
    BY ServicePageAssumption DEF ServiceInv
  <1>3. CASE OpenPage
    <2>1. /\ UNCHANGED <<setup, service, revisions>> /\ changes' = 0
          /\ \E failed \in SUBSET Lists :
                seen' = [open |-> TRUE, service |-> Pending, revisions |-> Pending,
                         failed |-> failed]
      BY <1>3 DEF OpenPage
    <2>2. SeenInv'
      <3>1. PICK failed \in SUBSET Lists :
               seen' = [open |-> TRUE, service |-> Pending, revisions |-> Pending,
                        failed |-> failed]
        BY <2>1
      <3>2. IsAnswer(Pending) /\ Pending.how # "read"
        BY DEF IsAnswer, Pending
      <3> QED
        BY <3>1, <3>2 DEF SeenInv
    <2>3. ServiceInv'
      BY <1>2, <2>1 DEF ServiceInv, IsTraffic, Backed
    <2> QED
      BY <2>2, <2>3
  <1>4. CASE LeavePage
    <2>1. UNCHANGED <<setup, service, revisions>> /\ changes' = 0 /\ seen' = [open |-> FALSE]
      BY <1>4 DEF LeavePage
    <2>2. SeenInv'
      BY <2>1 DEF SeenInv
    <2>3. ServiceInv'
      BY <1>2, <2>1 DEF ServiceInv, IsTraffic, Backed
    <2> QED
      BY <2>2, <2>3
  <1>5. CASE GetNamespacedKnativeService
    <2>1. /\ seen.open /\ UNCHANGED <<setup, service, revisions, changes>>
          /\ \E a : /\ a = Failed \/ a = [how |-> "read", value |-> service, when |-> changes]
                    /\ seen' = [seen EXCEPT !.service = a]
      BY <1>5 DEF GetNamespacedKnativeService, Reading
    <2>2. PICK a : /\ a = Failed \/ a = [how |-> "read", value |-> service, when |-> changes]
                   /\ seen' = [seen EXCEPT !.service = a]
      BY <2>1
    <2>3. PICK s, r, f : seen = [open |-> TRUE, service |-> s, revisions |-> r, failed |-> f]
      BY <2>1 DEF SeenInv
    <2>4. seen' = [open |-> TRUE, service |-> a, revisions |-> r, failed |-> f]
      BY <2>2, <2>3
    <2>5. ServiceInv'
      BY <2>1 DEF ServiceInv, IsTraffic, Backed
    <2>6. CASE a = Failed
      <3>1. IsAnswer(a) /\ a.how # "read"
        BY <2>6 DEF IsAnswer, Failed
      <3> HIDE <2>6
      <3> QED
        BY <2>1, <2>3, <2>4, <2>5, <3>1 DEF SeenInv, IsTraffic, Backed
    <2>7. CASE a = [how |-> "read", value |-> service, when |-> changes]
      <3>1. IsAnswer(a) /\ a.value = service /\ a.when = changes
        BY <2>7 DEF IsAnswer
      <3>2. r.how = "read" /\ r.when = changes => Backed(service.traffic, r.value)
        BY <2>1, <2>3 DEF SeenInv, ServiceInv
      <3> HIDE <2>7
      <3> QED
        BY <1>2, <2>1, <2>3, <2>4, <2>5, <3>1, <3>2 DEF SeenInv, ServiceInv, IsTraffic, Backed
    <2> QED
      BY <2>2, <2>5, <2>6, <2>7
  <1>6. CASE ListKnativeRevisions
    <2>1. /\ seen.open /\ UNCHANGED <<setup, service, revisions, changes>>
          /\ \E a : /\ a = Failed \/ a = [how |-> "read", value |-> revisions, when |-> changes]
                    /\ seen' = [seen EXCEPT !.revisions = a]
      BY <1>6 DEF ListKnativeRevisions, Reading
    <2>2. PICK a : /\ a = Failed \/ a = [how |-> "read", value |-> revisions, when |-> changes]
                   /\ seen' = [seen EXCEPT !.revisions = a]
      BY <2>1
    <2>3. PICK s, r, f : seen = [open |-> TRUE, service |-> s, revisions |-> r, failed |-> f]
      BY <2>1 DEF SeenInv
    <2>4. seen' = [open |-> TRUE, service |-> s, revisions |-> a, failed |-> f]
      BY <2>2, <2>3
    <2>5. ServiceInv'
      BY <2>1 DEF ServiceInv, IsTraffic, Backed
    <2>6. CASE a = Failed
      <3>1. IsAnswer(a) /\ a.how # "read"
        BY <2>6 DEF IsAnswer, Failed
      <3> HIDE <2>6
      <3> QED
        BY <2>1, <2>3, <2>4, <2>5, <3>1 DEF SeenInv, IsTraffic, Backed
    <2>7. CASE a = [how |-> "read", value |-> revisions, when |-> changes]
      <3>1. IsAnswer(a) /\ a.value = revisions /\ a.when = changes
        BY <2>7 DEF IsAnswer
      <3>2. s.how = "read" /\ s.when = changes => Backed(s.value.traffic, revisions)
        BY <2>1, <2>3 DEF SeenInv, ServiceInv
      <3> HIDE <2>7
      <3> QED
        BY <1>2, <2>1, <2>3, <2>4, <2>5, <3>1, <3>2 DEF SeenInv, ServiceInv, IsTraffic, Backed
    <2> QED
      BY <2>2, <2>5, <2>6, <2>7
  <1> QED
    BY <1>1, <1>3, <1>4, <1>5, <1>6 DEF PageNext

LEMMA OverviewInvHolds == Spec => []OverviewInv
  <1>1. Init => OverviewInv
    BY OverviewInit DEF Init
  <1>2. OverviewInv /\ [Next]_consoleVars => OverviewInv'
    <2> SUFFICES ASSUME OverviewInv, [Next]_consoleVars PROVE OverviewInv'
      OBVIOUS
    <2>1. PageNext \/ UNCHANGED pageVars
      BY DEF Next, consoleVars
    <2>2. CASE UNCHANGED pageVars
      BY <2>2 DEF OverviewInv, ServiceInv, SeenInv, pageVars, IsTraffic, Backed
    <2> QED
      BY <2>1, <2>2, OverviewStep
  <1> QED
    BY <1>1, <1>2, PTL DEF Spec

\* However many containers, Dapr resources and clusters a service has, and
\* whatever lists fail: those the graph has no room for are counted on it.
THEOREM NothingIsHidden == Spec => []NothingHidden
  <1>1. OverviewInv => NothingHidden
    BY CountedOnGraph DEF OverviewInv, ServiceInv
  <1> QED
    BY <1>1, OverviewInvHolds, PTL

\* What the targets of a revision are given.
Given(traffic, r) ==
    [i \in DOMAIN traffic |->
        IF traffic[i].revision = r /\ traffic[i].percent # None THEN traffic[i].percent ELSE 0]

LEMMA ShareIsGiven ==
    ASSUME NEW traffic, \A i \in DOMAIN traffic : traffic[i].revision # None, NEW latest, NEW r
    PROVE  RevisionTraffic(traffic, latest, r) =
              IF Total(Given(traffic, r)) > 100 THEN 100 ELSE Total(Given(traffic, r))
  <1> DEFINE named(target) ==
                IF target.revision = None /\ target.latest THEN latest ELSE target.revision
             f == [i \in DOMAIN traffic |->
                      IF named(traffic[i]) = r /\ traffic[i].percent # None
                      THEN traffic[i].percent ELSE 0]
  <1>1. RevisionTraffic(traffic, latest, r) = IF Total(f) > 100 THEN 100 ELSE Total(f)
    BY DEF RevisionTraffic
  <1>2. f = Given(traffic, r)
    BY DEF Given
  <1> QED
    BY <1>1, <1>2

\* Two revisions share the traffic, a with u and b with the rest.
Shared(traffic, latest, a, b, u) ==
    /\ a \in Nat /\ b \in Nat /\ a # b /\ u \in 0 .. 100
    /\ \A r \in Nat : RevisionTraffic(traffic, latest, r) =
          IF traffic = <<>> THEN 0
          ELSE IF r = a THEN u ELSE IF r = b THEN 100 - u ELSE 0
    /\ traffic # <<>> =>
          /\ u > 0 => \E i \in DOMAIN traffic : traffic[i].revision = a
          /\ u < 100 => \E i \in DOMAIN traffic : traffic[i].revision = b
    /\ \A i \in DOMAIN traffic : traffic[i].percent # None =>
          \/ traffic[i].revision = a /\ u > 0
          \/ traffic[i].revision = b /\ u < 100

LEMMA NoTrafficShared ==
    ASSUME NEW latest
    PROVE  Shared(<<>>, latest, 1, 2, 0)
  <1>1. ASSUME NEW r PROVE RevisionTraffic(<<>>, latest, r) = 0
    <2> DEFINE f == Given(<<>>, r)
    <2>1. f \in [{} -> Nat] /\ \A i \in {} : f[i] = 0
      BY DEF Given
    <2>2. Total(f) = 0
      BY <2>1, TotalOfNothing
    <2>3. \A i \in DOMAIN <<>> : <<>>[i].revision # None
      OBVIOUS
    <2>4. RevisionTraffic(<<>>, latest, r) =
              IF Total(Given(<<>>, r)) > 100 THEN 100 ELSE Total(Given(<<>>, r))
      BY <2>3, ShareIsGiven
    <2> QED
      BY <2>2, <2>4
  <1> QED
    BY <1>1 DEF Shared

LEMMA AllShared ==
    ASSUME NEW l \in 1 .. MaxRevision, NEW latest
    PROVE  Shared(All(l), latest, l, l + 1, 100)
  <1>1. /\ DOMAIN All(l) = {1} /\ All(l)[1] = [revision |-> l, latest |-> TRUE, percent |-> 100]
        /\ All(l) # <<>> /\ l \in Nat /\ l # None /\ 100 # None /\ None \notin Int
    BY ServicePageAssumption DEF All, Target
  <1>2. ASSUME NEW r PROVE RevisionTraffic(All(l), latest, r) = IF r = l THEN 100 ELSE 0
    <2> DEFINE f == Given(All(l), r)
    <2>1. f \in [{1} -> Nat] /\ f[1] = (IF r = l THEN 100 ELSE 0)
      BY <1>1 DEF Given
    <2>2. Total(f) = IF r = l THEN 100 ELSE 0
      <3> HIDE DEF f
      <3> QED
        BY <2>1, TotalOfOne
    <2>3. \A i \in DOMAIN All(l) : All(l)[i].revision # None
      BY <1>1
    <2>4. RevisionTraffic(All(l), latest, r) = IF Total(f) > 100 THEN 100 ELSE Total(f)
      BY <2>3, ShareIsGiven
    <2> HIDE DEF f
    <2> QED
      BY <2>2, <2>4
  <1> QED
    BY <1>1, <1>2 DEF Shared

LEMMA SplitShared ==
    ASSUME NEW l \in 1 .. MaxRevision, NEW q \in (1 .. MaxRevision) \ {l}, NEW latest,
           NEW traffic \in Splits(q, l)
    PROVE  \E u \in {30, 0} : Shared(traffic, latest, q, l, u)
  <1>1. l \in Nat /\ q \in Nat /\ l # q /\ l # None /\ q # None /\ None \notin Int
    BY ServicePageAssumption
  <1>2. CASE traffic = <<Target(q, FALSE, 30), Target(l, TRUE, 70)>>
    <2>1. /\ DOMAIN traffic = {1, 2} /\ traffic # <<>>
          /\ traffic[1] = [revision |-> q, latest |-> FALSE, percent |-> 30]
          /\ traffic[2] = [revision |-> l, latest |-> TRUE, percent |-> 70]
      BY <1>2 DEF Target
    <2> HIDE <1>2
    <2>2. ASSUME NEW r
          PROVE  RevisionTraffic(traffic, latest, r) = IF r = q THEN 30 ELSE IF r = l THEN 70 ELSE 0
      <3> DEFINE f == Given(traffic, r)
      <3>1. /\ f \in [{1, 2} -> Nat] /\ f[1] = (IF r = q THEN 30 ELSE 0)
            /\ f[2] = (IF r = l THEN 70 ELSE 0)
        BY <1>1, <2>1 DEF Given
      <3> HIDE DEF f
      <3>2. Total(f) = f[1] + f[2]
        BY <3>1, TotalOfTwo
      <3>3. \A i \in DOMAIN traffic : traffic[i].revision # None
        BY <1>1, <2>1
      <3>4. RevisionTraffic(traffic, latest, r) = IF Total(f) > 100 THEN 100 ELSE Total(f)
        BY <3>3, ShareIsGiven DEF f
      <3> QED
        BY <1>1, <3>1, <3>2, <3>4
    <2>3. Shared(traffic, latest, q, l, 30)
      BY <1>1, <2>1, <2>2 DEF Shared
    <2> QED
      BY <2>3
  <1>3. CASE traffic = <<Target(q, FALSE, None), Target(l, FALSE, 40), Target(l, TRUE, 60)>>
    <2>1. /\ DOMAIN traffic = {1, 2, 3} /\ traffic # <<>>
          /\ traffic[1] = [revision |-> q, latest |-> FALSE, percent |-> None]
          /\ traffic[2] = [revision |-> l, latest |-> FALSE, percent |-> 40]
          /\ traffic[3] = [revision |-> l, latest |-> TRUE, percent |-> 60]
      BY <1>3 DEF Target
    <2> HIDE <1>3
    <2>2. ASSUME NEW r
          PROVE  RevisionTraffic(traffic, latest, r) = IF r = l THEN 100 ELSE 0
      <3> DEFINE f == Given(traffic, r)
      <3>1. /\ f \in [{1, 2, 3} -> Nat] /\ f[1] = 0 /\ f[2] = (IF r = l THEN 40 ELSE 0)
            /\ f[3] = (IF r = l THEN 60 ELSE 0)
        BY <1>1, <2>1 DEF Given
      <3> HIDE DEF f
      <3>2. Total(f) = f[2] + f[3]
        BY <3>1, TotalOfTwo
      <3>3. \A i \in DOMAIN traffic : traffic[i].revision # None
        BY <1>1, <2>1
      <3>4. RevisionTraffic(traffic, latest, r) = IF Total(f) > 100 THEN 100 ELSE Total(f)
        BY <3>3, ShareIsGiven DEF f
      <3> QED
        BY <1>1, <3>1, <3>2, <3>4
    <2>3. Shared(traffic, latest, q, l, 0)
      BY <1>1, <2>1, <2>2 DEF Shared
    <2> QED
      BY <2>3
  <1> QED
    BY <1>2, <1>3 DEF Splits

LEMMA TrafficShared ==
    ASSUME NEW traffic, IsTraffic(traffic), NEW latest
    PROVE  \E a, b, u : Shared(traffic, latest, a, b, u)
  <1>1. CASE traffic = <<>>
    BY <1>1, NoTrafficShared
  <1>2. ASSUME NEW l \in 1 .. MaxRevision, traffic = All(l)
        PROVE  \E a, b, u : Shared(traffic, latest, a, b, u)
    BY <1>2, AllShared
  <1>3. ASSUME NEW l \in 1 .. MaxRevision, NEW r \in (1 .. MaxRevision) \ {l},
               traffic \in Splits(r, l)
        PROVE  \E a, b, u : Shared(traffic, latest, a, b, u)
    BY <1>3, SplitShared
  <1> QED
    BY <1>1, <1>2, <1>3 DEF IsTraffic

Known == IF seen.revisions.how = "read" THEN seen.revisions.value ELSE {}

ShareOf(r) == RevisionTraffic(seen.service.value.traffic, seen.service.value.latest, r)

\* The revisions that were read, each once, with its share.
LEMMA RevisionsListed ==
    ASSUME SeenInv, seen.open
    PROVE  /\ Known \subseteq 1 .. MaxRevision
           /\ \E order : /\ Enumerates(order, Known)
                         /\ ToServiceRevisions = [i \in 1 .. Len(order) |->
                               [name |-> order[i], share |-> ShareOf(order[i])]]
  <1> DEFINE R == {pair \in Known \X Known : pair[1] > pair[2]}
             order == Arranged(Known, R)
  <1>1. Known \subseteq 1 .. MaxRevision
    BY DEF Known, SeenInv
  <1>2. MaxRevision \in Nat /\ IsFiniteSet(1 .. MaxRevision)
    BY ServicePageAssumption, FS_Interval
  <1> HIDE DEF R, order
  <1>3. IsFiniteSet(Known) /\ \A x \in Known : x \in Nat
    <2>1. Known \in SUBSET (1 .. MaxRevision) /\ \A x \in 1 .. MaxRevision : x \in Nat
      BY <1>1, <1>2
    <2>2. IsFiniteSet(Known)
      BY <1>2, <2>1, FS_Subset
    <2> QED
      BY <2>1, <2>2
  <1> USE DEF R, order
  <1>4. \A x, y \in Known : <<x, y>> \in R <=> x > y
    OBVIOUS
  <1>5. ToServiceRevisions =
           [i \in DOMAIN order |-> [name |-> order[i], share |-> ShareOf(order[i])]]
    BY DEF ToServiceRevisions, Known, ShareOf
  <1> HIDE DEF R
  <1>6. Orders(R, Known)
    BY <1>3, <1>4 DEF Orders
  <1>7. /\ order \in Seq(Known) /\ DOMAIN order = 1 .. Len(order)
        /\ \A x \in Known : \E i \in 1 .. Len(order) : order[i] = x
        /\ \A i, j \in 1 .. Len(order) : order[i] = order[j] => i = j
    BY <1>6, ArrangedInOrder
  <1> HIDE DEF order
  <1>8. Enumerates(order, Known)
    BY <1>7 DEF Enumerates
  <1> QED
    BY <1>1, <1>5, <1>7, <1>8

\* Of what two have, only what belongs to those that are there is counted.
SharesOut(f, D, order, K, a, u, b, v) ==
    /\ f \in [D -> Nat]
    /\ \A i \in D : order[i] \in K
    /\ \A x \in K : \E i \in D : order[i] = x
    /\ \A i, j \in D : order[i] = order[j] => i = j
    /\ a # b /\ u \in Nat /\ v \in Nat
    /\ \A i \in D : /\ order[i] = a => f[i] = u
                    /\ order[i] = b => f[i] = v
                    /\ order[i] # a /\ order[i] # b => f[i] = 0

LEMMA SharedOut ==
    ASSUME NEW f, NEW D, NEW order, NEW K, NEW a, NEW u, NEW b, NEW v,
           SharesOut(f, D, order, K, a, u, b, v)
    PROVE  Total(f) = (IF a \in K THEN u ELSE 0) + (IF b \in K THEN v ELSE 0)
  <1> USE DEF SharesOut
  <1>1. CASE a \in K /\ b \in K
    <2>1. PICK i \in D, j \in D : order[i] = a /\ order[j] = b
      BY <1>1
    <2>2. i # j /\ f[i] = u /\ f[j] = v
      BY <2>1
    <2>3. \A k \in D \ {i, j} : f[k] = 0
      BY <2>1
    <2>4. Total(f) = f[i] + f[j]
      BY <2>2, <2>3, TotalOfTwo
    <2> QED
      BY <1>1, <2>2, <2>4
  <1>2. CASE a \in K /\ b \notin K
    <2>1. PICK i \in D : order[i] = a
      BY <1>2
    <2>2. f[i] = u /\ \A k \in D \ {i} : f[k] = 0
      BY <1>2, <2>1
    <2>3. Total(f) = u
      BY <2>2, TotalOfOne
    <2> QED
      BY <1>2, <2>3
  <1>3. CASE a \notin K /\ b \in K
    <2>1. PICK i \in D : order[i] = b
      BY <1>3
    <2>2. f[i] = v /\ \A k \in D \ {i} : f[k] = 0
      BY <1>3, <2>1
    <2>3. Total(f) = v
      BY <2>2, TotalOfOne
    <2> QED
      BY <1>3, <2>3
  <1>4. CASE a \notin K /\ b \notin K
    <2>1. \A k \in D : f[k] = 0
      BY <1>4
    <2>2. Total(f) = 0
      BY <2>1, TotalOfNothing
    <2> QED
      BY <1>4, <2>2
  <1> QED
    BY <1>1, <1>2, <1>3, <1>4

\* Between them they have all of the traffic, if they are all that has traffic.
AddsUp(f, traffic, K) ==
    /\ Total(f) \in Nat /\ Total(f) <= 100
    /\ traffic # <<>> /\ Backed(traffic, K) => Total(f) = 100

LEMMA SharesAddUp ==
    ASSUME NEW K, K \subseteq Nat, NEW order, Enumerates(order, K),
           NEW traffic, NEW latest, NEW a, NEW b, NEW u, Shared(traffic, latest, a, b, u)
    PROVE  AddsUp([i \in 1 .. Len(order) |-> RevisionTraffic(traffic, latest, order[i])],
                  traffic, K)
  <1> DEFINE D == 1 .. Len(order)
             v == 100 - u
             f == [i \in D |-> RevisionTraffic(traffic, latest, order[i])]
  <1>1. /\ \A i \in D : order[i] \in K
        /\ \A x \in K : \E i \in D : order[i] = x
        /\ \A i, j \in D : order[i] = order[j] => i = j
    BY Listing DEF Enumerates
  <1>2. /\ a \in Nat /\ b \in Nat /\ a # b
        /\ u \in Nat /\ v \in Nat /\ u + v = 100 /\ u \in 0 .. 100 /\ v \in 0 .. 100
        /\ u < 100 <=> v > 0
    BY DEF Shared
  <1>3. \A r \in Nat : RevisionTraffic(traffic, latest, r) =
              IF traffic = <<>> THEN 0 ELSE IF r = a THEN u ELSE IF r = b THEN v ELSE 0
    BY DEF Shared
  <1>4. traffic # <<>> /\ Backed(traffic, K) => (u > 0 => a \in K) /\ (v > 0 => b \in K)
    BY <1>2 DEF Shared, Backed
  <1> HIDE DEF v
  <1>5. /\ f = [i \in D |-> f[i]]
        /\ \A i \in D : f[i] = RevisionTraffic(traffic, latest, order[i])
    OBVIOUS
  <1> HIDE DEF D, f
  <1>6. \A i \in D : f[i] = IF traffic = <<>> THEN 0
                            ELSE IF order[i] = a THEN u ELSE IF order[i] = b THEN v ELSE 0
    BY <1>1, <1>3, <1>5, Zenon
  <1>7. ASSUME traffic = <<>> PROVE AddsUp(f, traffic, K)
    <2>1. \A i \in D : f[i] = 0 /\ 0 \in Nat
      BY <1>6, <1>7
    <2>2. f \in [D -> Nat]
      BY <1>5, <2>1
    <2>3. Total(f) = 0
      BY <2>1, <2>2, TotalOfNothing
    <2> QED
      BY <1>7, <2>3 DEF AddsUp
  <1>8. ASSUME traffic # <<>> PROVE AddsUp(f, traffic, K)
    <2>1. \A i \in D : /\ order[i] = a => f[i] = u
                       /\ order[i] = b => f[i] = v
                       /\ order[i] # a /\ order[i] # b => f[i] = 0
      BY <1>2, <1>6, <1>8
    <2>2. f \in [D -> Nat]
      <3>1. \A i \in D : f[i] \in Nat
        BY <1>2, <2>1
      <3> QED
        BY <1>5, <3>1
    <2>3. Total(f) = (IF a \in K THEN u ELSE 0) + (IF b \in K THEN v ELSE 0)
      <3>1. SharesOut(f, D, order, K, a, u, b, v)
        BY <1>1, <1>2, <2>1, <2>2 DEF SharesOut
      <3> QED
        BY <3>1, SharedOut, Zenon
    <2>4. Total(f) \in Nat /\ Total(f) <= 100
      BY <1>2, <2>3
    <2>5. Backed(traffic, K) => Total(f) = 100
      BY <1>2, <1>4, <1>8, <2>3
    <2> QED
      BY <2>4, <2>5 DEF AddsUp
  <1>9. AddsUp(f, traffic, K)
    BY <1>7, <1>8
  <1> QED
    BY <1>9 DEF f, D

LEMMA AnswersRead ==
    ASSUME NEW a, IsAnswer(a), a.how # "pending"
    PROVE  a = Failed \/ a.how = "read"
  BY DEF IsAnswer, Pending

\* A page is shown when both calls have been answered and the service was read.
LEMMA ShownIsRead ==
    ASSUME SeenInv, Shown
    PROVE  /\ seen.open /\ seen.service.how = "read"
           /\ seen.revisions = Failed \/ seen.revisions.how = "read"
           /\ IsTraffic(seen.service.value.traffic)
           /\ seen.revisions.how = "read" /\ ~Torn =>
                 /\ Known = seen.revisions.value
                 /\ Backed(seen.service.value.traffic, Known)
  <1>1. seen.open /\ IsAnswer(seen.service) /\ IsAnswer(seen.revisions)
    BY DEF Shown, SeenInv
  <1>2. seen.service # Failed /\ seen.service.how # "pending" /\ seen.revisions.how # "pending"
    BY <1>1 DEF Shown, Reading
  <1>3. seen.service.how = "read" /\ (seen.revisions = Failed \/ seen.revisions.how = "read")
    BY <1>1, <1>2, AnswersRead
  <1> QED
    BY <1>1, <1>3 DEF SeenInv, Torn, Known

LEMMA SharesShown == ASSUME SeenInv PROVE TrafficAccounted
  <1> SUFFICES ASSUME Shown PROVE TrafficAccounted
    BY DEF TrafficAccounted
  <1> DEFINE rows == ToServiceRevisions
             f == [i \in DOMAIN rows |-> rows[i].share]
             status == seen.service.value
  <1>1. IsTraffic(status.traffic) /\ seen.open
    BY ShownIsRead
  <1>2. PICK order : /\ Enumerates(order, Known)
                     /\ rows = [i \in 1 .. Len(order) |->
                                  [name |-> order[i], share |-> ShareOf(order[i])]]
    BY <1>1, RevisionsListed
  <1>3. Known \subseteq Nat
    BY <1>1, RevisionsListed
  <1>4. PICK a, b, u : Shared(status.traffic, status.latest, a, b, u)
    BY <1>1, TrafficShared
  <1> DEFINE g == [i \in 1 .. Len(order) |->
                      RevisionTraffic(status.traffic, status.latest, order[i])]
  <1>5. f = g
    BY <1>2 DEF ShareOf
  <1>6. AddsUp(g, status.traffic, Known)
    BY <1>2, <1>3, <1>4, SharesAddUp
  <1>7. AddsUp(f, status.traffic, Known)
    BY <1>5, <1>6, Zenon
  <1> HIDE DEF f, g
  <1>8. /\ Total(f) <= 100
        /\ status.traffic # <<>> /\ Backed(status.traffic, Known) => Total(f) = 100
    BY <1>7, Zenon DEF AddsUp
  <1> QED
    BY <1>8, ShownIsRead DEF TrafficAccounted, f

RoutedNodes == {<<"revision", r>> : r \in {k \in Known : ShareOf(k) > 0}}

LEMMA RoutedListed ==
    ASSUME SeenInv, seen.open
    PROVE  Enumerates(RoutedRevisions, RoutedNodes)
  <1> DEFINE rows == ToServiceRevisions
             P == {i \in DOMAIN rows : HasRoutedTraffic(rows[i])}
             routed == Selected(rows, P)
             m == Cardinality(P)
  <1>1. PICK order : /\ Enumerates(order, Known)
                     /\ rows = [i \in 1 .. Len(order) |->
                                  [name |-> order[i], share |-> ShareOf(order[i])]]
    BY RevisionsListed
  <1>2. /\ Len(order) \in Nat /\ \A i \in 1 .. Len(order) : order[i] \in Known
        /\ \A x \in Known : \E i \in 1 .. Len(order) : order[i] = x
        /\ \A i, j \in 1 .. Len(order) : order[i] = order[j] => i = j
    BY <1>1, Listing DEF Enumerates
  <1>3. RoutedRevisions = [i \in DOMAIN routed |-> <<"revision", routed[i].name>>]
    BY DEF RoutedRevisions
  <1> DEFINE g == [i \in 1 .. Len(order) |-> <<"revision", order[i]>>]
  <1> HIDE DEF rows
  <1>4. /\ DOMAIN rows = 1 .. Len(order)
        /\ \A i \in 1 .. Len(order) : /\ rows[i].name = order[i]
                                      /\ HasRoutedTraffic(rows[i]) <=> ShareOf(order[i]) > 0
    BY <1>1 DEF HasRoutedTraffic
  <1>5. P \subseteq 1 .. Len(order) /\ \A i \in P : ShareOf(order[i]) > 0
    BY <1>4
  <1>6. PICK place : Selects(place, rows, P)
    BY <1>2, <1>5, SelectedInOrder
  <1>7. routed = [k \in 1 .. m |-> rows[place[k]]] /\ \A k \in 1 .. m : place[k] \in P
    BY <1>6 DEF Selects
  <1>8. \A i \in 1 .. Len(order) : g[i] = <<"revision", order[i]>>
    OBVIOUS
  <1>9. {g[p] : p \in P} = RoutedNodes
    <2>1. \A p \in P : g[p] \in RoutedNodes
      BY <1>2, <1>5, <1>8 DEF RoutedNodes
    <2>2. ASSUME NEW r \in Known, ShareOf(r) > 0 PROVE \E p \in P : g[p] = <<"revision", r>>
      <3>1. PICK i \in 1 .. Len(order) : order[i] = r
        BY <1>2
      <3>2. i \in P
        BY <1>4, <2>2, <3>1
      <3> QED
        BY <1>8, <3>1, <3>2
    <2> HIDE DEF P, g
    <2>3. \A x \in RoutedNodes : x \in {g[p] : p \in P}
      <3> SUFFICES ASSUME NEW x \in RoutedNodes PROVE \E p \in P : g[p] = x
        OBVIOUS
      <3>1. PICK r \in Known : ShareOf(r) > 0 /\ x = <<"revision", r>>
        BY DEF RoutedNodes
      <3> QED
        BY <2>2, <3>1
    <2> QED
      BY <2>1, <2>3
  <1> HIDE DEF P, g, routed, m
  <1>10. RoutedRevisions = [k \in 1 .. m |-> g[place[k]]]
    BY <1>3, <1>4, <1>5, <1>7, <1>8
  <1>11. \A p, q \in P : g[p] = g[q] => p = q
    BY <1>2, <1>5, <1>8
  <1>12. Enumerates(RoutedRevisions, {g[p] : p \in P})
    BY <1>6, <1>10, <1>11, PlacesListed DEF m
  <1> QED
    BY <1>9, <1>12

LEMMA AbsencesExplained == ASSUME ServiceInv, SeenInv PROVE AbsenceExplained
  <1> SUFFICES ASSUME Shown, Errors = {} PROVE AbsenceExplained
    BY DEF AbsenceExplained
  <1>1. setup \in Setups
    BY DEF ServiceInv
  <1>2. ASSUME NEW i \in DOMAIN setup.dapr, Related(setup.dapr[i])
        PROVE  \E j \in DOMAIN ShownDapr :
                  ShownDapr[j] = <<"dapr", setup.dapr[i].kind, setup.dapr[i].name>>
    <2> DEFINE x == setup.dapr[i]
               E == {DaprCard(y) : y \in {z \in DaprListed : Related(z)}}
    <2>1. {"components", "configurations", "subscriptions"} \intersect seen.failed = {}
      BY DEF Errors
    <2>2. x \in DaprListed
      BY <1>1, <2>1, ResourcesDiffer DEF DaprListed, OfKind, Elements
    <2>3. DaprCard(x) \in E /\ DaprCard(x) = <<"dapr", x.kind, x.name>>
      BY <1>2, <2>2 DEF DaprCard
    <2> HIDE DEF E
    <2>4. Enumerates(ShownDapr, E)
      BY <1>1, ShownListed DEF E
    <2> QED
      BY <2>3, <2>4, Listing
  <1>4. ASSUME "postgres" \notin seen.failed, NEW i \in DOMAIN setup.clusters,
               setup.clusters[i].partOf = setup.name
        PROVE  \E j \in DOMAIN LinkedClusters :
                  LinkedClusters[j] = <<"postgres", setup.clusters[i].name>>
    <2> DEFINE x == setup.clusters[i]
               E == {ClusterCard(y) : y \in {z \in Elements(GetServicePostgresClusters) :
                                                z.partOf = setup.name}}
    <2>1. GetServicePostgresClusters = setup.clusters
      BY <1>4 DEF GetServicePostgresClusters
    <2>2. x \in Elements(GetServicePostgresClusters)
      BY <1>4, <2>1 DEF Elements
    <2>3. ClusterCard(x) \in E /\ ClusterCard(x) = <<"postgres", x.name>>
      BY <1>4, <2>2 DEF ClusterCard
    <2> HIDE DEF E
    <2>4. Enumerates(LinkedClusters, E)
      BY <1>1, ClustersListed DEF E
    <2> QED
      BY <2>3, <2>4, Listing
  <1>3. ASSUME ~Torn, NEW i \in DOMAIN seen.service.value.traffic,
               seen.service.value.traffic[i].percent # None
        PROVE  \E j \in DOMAIN RoutedRevisions :
                  RoutedRevisions[j][2] = seen.service.value.traffic[i].revision
    <2> DEFINE status == seen.service.value
               r == status.traffic[i].revision
    <2>1. seen.revisions # Failed
      BY DEF Errors
    <2>2. seen.open /\ IsTraffic(status.traffic) /\ Backed(status.traffic, Known)
      BY <1>3, <2>1, ShownIsRead
    <2>3. PICK a, b, u : Shared(status.traffic, status.latest, a, b, u)
      BY <2>2, TrafficShared
    <2>4. r \in Known
      BY <2>2 DEF Backed
    <2>5. ShareOf(r) > 0
      <3>1. status.traffic # <<>>
        BY <1>3
      <3>2. \/ r = a /\ u > 0
            \/ r = b /\ u < 100
        BY <1>3, <2>3 DEF Shared
      <3>3. /\ a \in Nat /\ b \in Nat /\ a # b /\ u \in 0 .. 100
            /\ \A q \in Nat : ShareOf(q) =
                  IF status.traffic = <<>> THEN 0
                  ELSE IF q = a THEN u ELSE IF q = b THEN 100 - u ELSE 0
        BY <2>3 DEF Shared, ShareOf
      <3> QED
        BY <3>1, <3>2, <3>3
    <2>6. <<"revision", r>> \in RoutedNodes
      BY <2>4, <2>5 DEF RoutedNodes
    <2>7. Enumerates(RoutedRevisions, RoutedNodes)
      BY <2>2, RoutedListed
    <2>8. PICK j \in DOMAIN RoutedRevisions : RoutedRevisions[j] = <<"revision", r>>
      BY <2>6, <2>7, Listing
    <2> QED
      BY <2>8
  <1> QED
    BY <1>2, <1>3, <1>4 DEF AbsenceExplained

\* The kinds of cards, and the identities that two of them may have.
OfKinds(E, kinds) == \A x \in E : x[1] \in kinds

Overflows == {Overflow(kind) : kind \in {"container", "postgres"}}

\* Two groups of different kinds, one after the other.
LEMMA KindsAfterOneAnother ==
    ASSUME NEW E, NEW s, ListsBut(s, E, Overflows), NEW K, OfKinds(E, K),
           NEW F, NEW t, ListsBut(t, F, Overflows), NEW L, OfKinds(F, L), K \intersect L = {}
    PROVE  ListsBut(s \o t, E \union F, Overflows) /\ OfKinds(E \union F, K \union L)
  <1>1. E \intersect F = {} /\ OfKinds(E \union F, K \union L)
    BY DEF OfKinds
  <1> QED
    BY <1>1, OneListAfterTheOther

Heads == <<Route, ServiceNode>>

LEMMA HeadsDrawn ==
    /\ ListsBut(Heads, {Route, ServiceNode}, Overflows)
    /\ OfKinds({Route, ServiceNode}, {"route", "service"})
    /\ Route # ServiceNode
  <1>1. Route # ServiceNode
    BY DEF Route, ServiceNode
  <1>2. OfKinds({Route, ServiceNode}, {"route", "service"})
    BY DEF OfKinds, Route, ServiceNode
  <1> QED
    BY <1>1, <1>2, ListOfTwo, EachOnceIsListed DEF Heads

\* A group of cards c: those in drawn, each with an edge to it.
Group(c, drawn, kinds) ==
    /\ ListsBut(c.nodes, drawn, Overflows) /\ OfKinds(drawn, kinds)
    /\ \A edge \in c.edges : edge[2] \in drawn
    /\ \A x \in drawn : \E edge \in c.edges : edge[2] = x

LEMMA GroupOfNone ==
    ASSUME NEW c, c.nodes = <<>>, c.edges = {}, NEW kinds
    PROVE  Group(c, {}, kinds)
  BY ListOfNone, EachOnceIsListed DEF Group, OfKinds

LEMMA GroupOfOne ==
    ASSUME NEW x, NEW kinds, x[1] \in kinds, NEW from,
           NEW c, c.nodes = <<x>>, c.edges = {<<from, x>>}
    PROVE  Group(c, {x}, kinds)
  <1>1. ListsBut(c.nodes, {x}, Overflows) /\ OfKinds({x}, kinds)
    BY ListOfOne, EachOnceIsListed DEF OfKinds
  <1>2. \A edge \in c.edges : edge[2] = x
    OBVIOUS
  <1>3. <<from, x>> \in c.edges /\ <<from, x>>[2] = x
    OBVIOUS
  <1> QED
    BY <1>1, <1>2, <1>3 DEF Group

LEMMA RevisionCardsDrawn ==
    ASSUME SeenInv, seen.open
    PROVE  \E drawn :
              /\ Group(RevisionCards, drawn, {"revision", "no-routed-revisions"})
              /\ \A edge \in RevisionCards.edges : edge[1] = ServiceNode
              /\ RoutedRevisions # <<>> => drawn = RoutedNodes
  <1> DEFINE none == <<"no-routed-revisions", NoName>>
             kinds == {"revision", "no-routed-revisions"}
             cards == IF RoutedRevisions = <<>> THEN <<none>> ELSE RoutedRevisions
             D == IF RoutedRevisions = <<>> THEN {none} ELSE RoutedNodes
             edges == {<<ServiceNode, cards[i]>> : i \in DOMAIN cards}
  <1>1. RevisionCards.nodes = cards /\ RevisionCards.edges = edges
    BY DEF RevisionCards
  <1>2. Enumerates(RoutedRevisions, RoutedNodes)
    BY RoutedListed
  <1>3. OfKinds({none}, kinds) /\ OfKinds(RoutedNodes, kinds)
    BY DEF OfKinds, RoutedNodes
  <1> HIDE DEF none, kinds
  <1>4. OfKinds(D, kinds)
    BY <1>3
  <1>5. Enumerates(cards, D)
    <2>1. CASE RoutedRevisions = <<>>
      BY <2>1, ListOfOne
    <2>2. CASE RoutedRevisions # <<>>
      BY <1>2, <2>2
    <2> QED
      BY <2>1, <2>2
  <1>6. RoutedRevisions # <<>> => D = RoutedNodes
    OBVIOUS
  <1> HIDE DEF cards, D
  <1>7. /\ \A i \in DOMAIN cards : cards[i] \in D
        /\ \A x \in D : \E i \in DOMAIN cards : cards[i] = x
    BY <1>5, Listing
  <1>8. ASSUME NEW x \in D PROVE \E edge \in edges : edge[2] = x
    <2>1. PICK i \in DOMAIN cards : cards[i] = x
      BY <1>7
    <2>2. <<ServiceNode, x>> \in edges /\ <<ServiceNode, x>>[2] = x
      BY <2>1
    <2> QED
      BY <2>2
  <1>9. \A edge \in edges : edge[1] = ServiceNode /\ edge[2] \in D
    BY <1>7
  <1> HIDE DEF edges
  <1>10. Group(RevisionCards, D, kinds)
    BY <1>1, <1>4, <1>5, <1>8, <1>9, EachOnceIsListed DEF Group
  <1> QED
    BY <1>1, <1>6, <1>9, <1>10 DEF kinds

LEMMA SidecarDrawn ==
    \E drawn : /\ Group(SidecarCard, drawn, {"dapr-sidecar"})
               /\ \A edge \in SidecarCard.edges : edge[1] = ServiceNode
               /\ Len(ShownDapr) > 0 => Sidecar \in drawn
  <1>1. CASE SidecarCard = [nodes |-> <<Sidecar>>, edges |-> {<<ServiceNode, Sidecar>>}]
    <2>1. Sidecar[1] \in {"dapr-sidecar"}
      BY DEF Sidecar
    <2>2. SidecarCard.nodes = <<Sidecar>> /\ SidecarCard.edges = {<<ServiceNode, Sidecar>>}
      BY <1>1
    <2>3. Group(SidecarCard, {Sidecar}, {"dapr-sidecar"})
      BY <2>1, <2>2, GroupOfOne
    <2>4. \A edge \in SidecarCard.edges : edge[1] = ServiceNode
      BY <2>2
    <2> QED
      BY <2>3, <2>4
  <1>2. CASE SidecarCard = [nodes |-> <<>>, edges |-> {}] /\ ShownDapr = <<>>
    <2>1. Group(SidecarCard, {}, {"dapr-sidecar"}) /\ Len(ShownDapr) = 0
      BY <1>2, GroupOfNone
    <2>2. SidecarCard.edges = {}
      BY <1>2
    <2> QED
      BY <2>1, <2>2
  <1> QED
    BY <1>1, <1>2 DEF SidecarCard

LEMMA DrawnGroup ==
    ASSUME NEW c, NEW kind \in {"container", "postgres"}, NEW n, NEW limit, NEW sources, NEW more,
           Draws(c, kind, n, limit, sources, more)
    PROVE  \E drawn : Group(c, drawn, {kind})
  <1>1. OfKinds(Elements(c.nodes), {kind})
    BY DEF Draws, OfKinds
  <1>2. Overflow(kind) \in Overflows
    BY DEF Overflows
  <1>3. ListsBut(c.nodes, Elements(c.nodes), Overflows)
    BY <1>2 DEF Draws, ListsBut
  <1> QED
    BY <1>1, <1>3 DEF Draws, Group

LEMMA DaprGroup ==
    ASSUME setup \in Setups
    PROVE  \E drawn : Group(DaprCards, drawn, {"dapr"})
  <1> DEFINE drawn == Elements(DaprCards.nodes)
  <1>1. /\ Draws(DaprCards, "dapr", Len(ShownDapr), 4, DaprSources, Sidecar)
        /\ Enumerates(DaprCards.nodes, drawn)
    BY GroupsAreDrawn
  <1>2. ListsBut(DaprCards.nodes, drawn, Overflows)
    BY <1>1, EachOnceIsListed
  <1>3. OfKinds(drawn, {"dapr"})
    BY <1>1 DEF Draws, OfKinds
  <1> QED
    BY <1>1, <1>2, <1>3 DEF Draws, Group

\* What the edges of containers, Dapr resources and clusters start from.
LEMMA SourcesAreDrawn ==
    ASSUME setup \in Setups, SeenInv, seen.open, NEW drawn,
           ServiceNode \in drawn, RoutedRevisions # <<>> => RoutedNodes \subseteq drawn,
           Len(ShownDapr) > 0 => Sidecar \in drawn
    PROVE  /\ \A edge \in ContainerCards.edges : edge[1] \in drawn
           /\ \A edge \in DaprCards.edges : edge[1] \in drawn
           /\ \A edge \in PostgresCards.edges : edge[1] \in drawn
  <1>1. \A edge \in ContainerCards.edges : edge[1] \in drawn
    <2>1. ASSUME NEW edge \in ContainerCards.edges
          PROVE  edge[1] = ServiceNode \/ \E i \in 1 .. 4 : edge[1] = ContainerSources[i]
      BY GroupsAreDrawn DEF Draws
    <2>2. ASSUME NEW i \in 1 .. 4 PROVE ContainerSources[i] \in drawn
      <3>1. Enumerates(RoutedRevisions, RoutedNodes)
        BY RoutedListed
      <3>2. /\ DOMAIN RoutedRevisions = 1 .. Len(RoutedRevisions) /\ Len(RoutedRevisions) \in Nat
            /\ \A k \in DOMAIN RoutedRevisions : RoutedRevisions[k] \in RoutedNodes
            /\ RoutedRevisions # <<>> => Len(RoutedRevisions) > 0
        BY <3>1, Listing DEF Enumerates
      <3>3. CASE i \in DOMAIN RoutedRevisions
        <4>1. ContainerSources[i] = RoutedRevisions[i] /\ RoutedRevisions # <<>>
          BY <3>3 DEF ContainerSources
        <4> QED
          BY <3>2, <3>3, <4>1
      <3>4. CASE i \notin DOMAIN RoutedRevisions /\ RoutedRevisions # <<>>
        <4>1. ContainerSources[i] = RoutedRevisions[1]
          BY <3>4 DEF ContainerSources
        <4>2. 1 \in DOMAIN RoutedRevisions
          BY <3>2, <3>4
        <4> QED
          BY <3>2, <3>4, <4>1, <4>2
      <3>5. CASE i \notin DOMAIN RoutedRevisions /\ RoutedRevisions = <<>>
        BY <3>5 DEF ContainerSources
      <3> QED
        BY <3>3, <3>4, <3>5
    <2> QED
      BY <2>1, <2>2
  <1>2. \A edge \in DaprCards.edges : edge[1] \in drawn
    BY GroupsAreDrawn DEF Draws, DaprSources
  <1>3. \A edge \in PostgresCards.edges : edge[1] \in drawn
    BY GroupsAreDrawn DEF Draws, PostgresSources
  <1> QED
    BY <1>1, <1>2, <1>3

LEMMA GraphDrawn == ASSUME ServiceInv, SeenInv PROVE GraphWellFormed
  <1> SUFFICES ASSUME Shown PROVE GraphWellFormed
    BY DEF GraphWellFormed
  <1>1. setup \in Setups /\ seen.open
    BY ShownIsRead DEF ServiceInv
  <1> DEFINE H == {Route, ServiceNode}
  <1>2. PICK R : /\ Group(RevisionCards, R, {"revision", "no-routed-revisions"})
                 /\ \A edge \in RevisionCards.edges : edge[1] = ServiceNode
                 /\ RoutedRevisions # <<>> => R = RoutedNodes
    BY <1>1, RevisionCardsDrawn
  <1>3. PICK S : /\ Group(SidecarCard, S, {"dapr-sidecar"})
                 /\ \A edge \in SidecarCard.edges : edge[1] = ServiceNode
                 /\ Len(ShownDapr) > 0 => Sidecar \in S
    BY SidecarDrawn
  <1>4. PICK C : Group(ContainerCards, C, {"container"})
    BY <1>1, GroupsAreDrawn, DrawnGroup
  <1>5. PICK P : Group(PostgresCards, P, {"postgres"})
    BY <1>1, GroupsAreDrawn, DrawnGroup
  <1>6. PICK D : Group(DaprCards, D, {"dapr"})
    BY <1>1, DaprGroup
  <1> DEFINE drawn == H \union R \union C \union S \union P \union D
             K1 == {"route", "service"} \union {"revision", "no-routed-revisions"}
             K2 == K1 \union {"container"}
             K3 == K2 \union {"dapr-sidecar"}
             K4 == K3 \union {"postgres"}
  <1> HIDE DEF H
  <1>7. ListsBut(BuildGraph.nodes, drawn, Overflows)
    <2>1. ListsBut(Heads, H, Overflows) /\ OfKinds(H, {"route", "service"})
      BY HeadsDrawn DEF H
    <2>2. /\ ListsBut(Heads \o RevisionCards.nodes, H \union R, Overflows)
          /\ OfKinds(H \union R, K1)
      <3>1. ListsBut(RevisionCards.nodes, R, Overflows)
            /\ OfKinds(R, {"revision", "no-routed-revisions"})
        BY <1>2 DEF Group
      <3>2. {"route", "service"} \intersect {"revision", "no-routed-revisions"} = {}
        OBVIOUS
      <3> QED
        BY <2>1, <3>1, <3>2, KindsAfterOneAnother
    <2>3. /\ ListsBut(Heads \o RevisionCards.nodes \o ContainerCards.nodes, H \union R \union C,
                   Overflows)
          /\ OfKinds(H \union R \union C, K2)
      <3>1. ListsBut(ContainerCards.nodes, C, Overflows) /\ OfKinds(C, {"container"})
        BY <1>4 DEF Group
      <3>2. K1 \intersect {"container"} = {}
        OBVIOUS
      <3> HIDE DEF K1
      <3> QED
        BY <2>2, <3>1, <3>2, KindsAfterOneAnother
    <2>4. /\ ListsBut(Heads \o RevisionCards.nodes \o ContainerCards.nodes \o SidecarCard.nodes,
                   H \union R \union C \union S, Overflows)
          /\ OfKinds(H \union R \union C \union S, K3)
      <3>1. ListsBut(SidecarCard.nodes, S, Overflows) /\ OfKinds(S, {"dapr-sidecar"})
        BY <1>3 DEF Group
      <3>2. K2 \intersect {"dapr-sidecar"} = {}
        OBVIOUS
      <3> HIDE DEF K2
      <3> QED
        BY <2>3, <3>1, <3>2, KindsAfterOneAnother
    <2>5. /\ ListsBut(Heads \o RevisionCards.nodes \o ContainerCards.nodes \o SidecarCard.nodes
                       \o PostgresCards.nodes,
                   H \union R \union C \union S \union P, Overflows)
          /\ OfKinds(H \union R \union C \union S \union P, K4)
      <3>1. ListsBut(PostgresCards.nodes, P, Overflows) /\ OfKinds(P, {"postgres"})
        BY <1>5 DEF Group
      <3>2. K3 \intersect {"postgres"} = {}
        OBVIOUS
      <3> HIDE DEF K3
      <3> QED
        BY <2>4, <3>1, <3>2, KindsAfterOneAnother
    <2>6. ListsBut(Heads \o RevisionCards.nodes \o ContainerCards.nodes \o SidecarCard.nodes
                    \o PostgresCards.nodes \o DaprCards.nodes, drawn, Overflows)
      <3>1. ListsBut(DaprCards.nodes, D, Overflows) /\ OfKinds(D, {"dapr"})
        BY <1>6 DEF Group
      <3>2. K4 \intersect {"dapr"} = {}
        OBVIOUS
      <3> HIDE DEF K4
      <3> QED
        BY <2>5, <3>1, <3>2, KindsAfterOneAnother
    <2>7. BuildGraph.nodes = Heads \o RevisionCards.nodes \o ContainerCards.nodes
                 \o SidecarCard.nodes \o PostgresCards.nodes \o DaprCards.nodes
      BY DEF BuildGraph, Heads
    <2> QED
      BY <2>6, <2>7
  <1>8. BuildGraph.edges = {<<Route, ServiceNode>>} \union RevisionCards.edges
             \union ContainerCards.edges \union SidecarCard.edges
             \union PostgresCards.edges \union DaprCards.edges
    BY DEF BuildGraph
  <1>9. Route \in drawn /\ ServiceNode \in drawn
    BY DEF H
  <1>10. /\ \A edge \in RevisionCards.edges : edge[1] \in drawn /\ edge[2] \in drawn
         /\ \A edge \in SidecarCard.edges : edge[1] \in drawn /\ edge[2] \in drawn
    BY <1>2, <1>3, <1>9 DEF Group
  <1>11. /\ \A edge \in ContainerCards.edges : edge[2] \in drawn
         /\ \A edge \in PostgresCards.edges : edge[2] \in drawn
         /\ \A edge \in DaprCards.edges : edge[2] \in drawn
    BY <1>4, <1>5, <1>6 DEF Group
  <1>12. /\ \A edge \in ContainerCards.edges : edge[1] \in drawn
         /\ \A edge \in DaprCards.edges : edge[1] \in drawn
         /\ \A edge \in PostgresCards.edges : edge[1] \in drawn
    <2>1. RoutedRevisions # <<>> => RoutedNodes \subseteq drawn
      BY <1>2
    <2>2. Len(ShownDapr) > 0 => Sidecar \in drawn
      BY <1>3
    <2> HIDE DEF drawn
    <2> QED
      BY <1>1, <1>9, <2>1, <2>2, SourcesAreDrawn
  <1>13. \A node \in drawn \ {Route} : \E edge \in BuildGraph.edges : edge[2] = node
    <2> SUFFICES ASSUME NEW node \in drawn, node # Route
                 PROVE  \E edge \in BuildGraph.edges : edge[2] = node
      OBVIOUS
    <2>1. CASE node \in H
      <3>1. node = ServiceNode /\ <<Route, ServiceNode>> \in BuildGraph.edges
        BY <1>8, <2>1 DEF H
      <3> QED
        BY <3>1
    <2>2. CASE node \in R
      BY <1>2, <1>8, <2>2 DEF Group
    <2>3. CASE node \in C
      BY <1>4, <1>8, <2>3 DEF Group
    <2>4. CASE node \in S
      BY <1>3, <1>8, <2>4 DEF Group
    <2>5. CASE node \in P
      BY <1>5, <1>8, <2>5 DEF Group
    <2>6. CASE node \in D
      BY <1>6, <1>8, <2>6 DEF Group
    <2> QED
      BY <2>1, <2>2, <2>3, <2>4, <2>5, <2>6
  <1> HIDE DEF drawn
  <1>14. \A edge \in BuildGraph.edges : edge[1] \in drawn /\ edge[2] \in drawn
    BY <1>8, <1>9, <1>10, <1>11, <1>12
  <1> DEFINE nodes == BuildGraph.nodes
  <1>15. Elements(nodes) = drawn
    BY <1>7, ElementsListed
  <1>16. ASSUME NEW i \in DOMAIN nodes, NEW j \in DOMAIN nodes, nodes[i] = nodes[j]
         PROVE  i = j \/ nodes[i] \in {Overflow("container"), Overflow("postgres")}
    <2>1. i \in 1 .. Len(nodes) /\ j \in 1 .. Len(nodes)
      BY <1>7, ElementsListed
    <2>2. i = j \/ nodes[i] \in Overflows
      BY <1>7, <1>16, <2>1 DEF ListsBut
    <2> QED
      BY <2>2 DEF Overflows
  <1> QED
    BY <1>13, <1>14, <1>15, <1>16 DEF GraphWellFormed, Elements

\* Whatever was deployed, split or collected between the calls of one page: if
\* nothing was, the revisions drawn have all of the route's traffic, and they
\* never have more.
THEOREM TrafficIsAccounted == Spec => []TrafficAccounted
  <1>1. OverviewInv => TrafficAccounted
    BY SharesShown DEF OverviewInv
  <1> QED
    BY <1>1, OverviewInvHolds, PTL

\* With whatever lists missing and however much there is to draw: the edges of
\* the graph join cards that are drawn, every card but the route can be reached,
\* and two cards have the same identity only if a container or a cluster is
\* called "overflow".
THEOREM GraphIsWellFormed == Spec => []GraphWellFormed
  <1>1. OverviewInv => GraphWellFormed
    BY GraphDrawn DEF OverviewInv
  <1> QED
    BY <1>1, OverviewInvHolds, PTL

\* A page that reports no error leaves out no Dapr resource that is related to
\* the service, no linked cluster unless the list of clusters failed (which the
\* page does not report), and no revision with traffic unless the service
\* changed meanwhile.
THEOREM AbsenceIsExplained == Spec => []AbsenceExplained
  <1>1. OverviewInv => AbsenceExplained
    BY AbsencesExplained DEF OverviewInv
  <1> QED
    BY <1>1, OverviewInvHolds, PTL

-----------------------------------------------------------------------------
(* The page of secrets, and the types of all pages.                        *)

AllKeys == UNION {VaultSecrets[n] : n \in DOMAIN VaultSecrets}

\* Every key that is shown, revealed or copied is one of Vault's.
SecretsInv ==
    /\ pending \subseteq SecretNames
    /\ Entries \subseteq AllKeys
    /\ revealedKeys \union copiedKey \subseteq AllKeys
    /\ timers \in 0 .. MaxTimers

LEMMA SecretsInvInit == ASSUME SecretsInit PROVE SecretsInv
  <1>1. Entries = {}
    BY Zenon DEF SecretsInit, Entries
  <1>2. pending = {} /\ revealedKeys = {} /\ copiedKey = {} /\ timers = 0
    BY Zenon DEF SecretsInit
  <1> QED
    BY <1>1, <1>2, SecretsPageAssumption DEF SecretsInv

LEMMA LoadedKeys ==
    ASSUME NEW n, NEW r \in LoadServiceSecrets(n)
    PROVE  r.entries = {} \/ (n \in DOMAIN VaultSecrets /\ r.entries = VaultSecrets[n])
  <1> DEFINE failed == [ok |-> FALSE, title |-> "Secret load failed", entries |-> {}]
             found == [ok |-> TRUE, title |-> "Secret loaded", entries |-> VaultSecrets[n]]
             none == [ok |-> TRUE, title |-> "Secret not found", entries |-> {}]
  <1>1. failed.entries = {} /\ found.entries = VaultSecrets[n] /\ none.entries = {}
    BY Zenon
  <1>2. r = failed \/ (n \in DOMAIN VaultSecrets /\ r = found) \/ r = none
    BY Zenon DEF LoadServiceSecrets
  <1> HIDE DEF failed, found, none
  <1> QED
    BY <1>1, <1>2, Zenon

LEMMA SecretsInvStep == ASSUME SecretsInv, SecretsNext PROVE SecretsInv'
  <1> USE SecretsPageAssumption DEF SecretsInv
  <1>1. ASSUME NEW n \in SecretNames, LoadSecret(n) PROVE SecretsInv'
    BY <1>1 DEF LoadSecret, Entries
  <1>2. CASE SecretLoaded
    <2>1. PICK n \in pending : result' \in LoadServiceSecrets(n)
      BY <1>2 DEF SecretLoaded
    <2>2. Entries' \subseteq AllKeys
      <3>1. Entries' = {} \/ (n \in DOMAIN VaultSecrets /\ Entries' = VaultSecrets[n])
        BY <2>1, LoadedKeys DEF Entries
      <3> QED
        BY <3>1 DEF AllKeys
    <2>3. pending' = {} /\ UNCHANGED <<revealedKeys, showAll, copiedKey, timers>>
      BY <1>2 DEF SecretLoaded
    <2> QED
      BY <2>2, <2>3
  <1>3. CASE ToggleAll
    BY <1>3 DEF ToggleAll, Entries
  <1>4. CASE CopyTimerFires
    BY <1>4 DEF CopyTimerFires, Entries
  <1>5. ASSUME NEW key \in Entries, ToggleKey(key) PROVE SecretsInv'
    BY <1>5 DEF ToggleKey, Entries
  <1>6. ASSUME NEW key \in Entries, CopyValue(key) PROVE SecretsInv'
    BY <1>6 DEF CopyValue, Entries
  <1> QED
    BY <1>1, <1>2, <1>3, <1>4, <1>5, <1>6 DEF SecretsNext

\* A request is waited for exactly while it is on its way.
WaitingInv ==
    /\ preset \in Presets
    /\ fields \in [RequestFields -> Presets \union {"edited"}]
    /\ effect \in BOOLEAN
    /\ response = "waiting" <=> sent # {}

LEMMA WaitingInvStep == ASSUME WaitingInv, PlaygroundNext PROVE WaitingInv'
  <1> USE DEF WaitingInv
  <1>1. ASSUME NEW p \in Presets, SelectPreset(p) PROVE WaitingInv'
    BY <1>1 DEF SelectPreset
  <1>2. CASE BodyEffect
    BY <1>2 DEF BodyEffect
  <1>3. ASSUME NEW f \in RequestFields, Edit(f) PROVE WaitingInv'
    BY <1>3 DEF Edit
  <1>4. CASE Trigger
    BY <1>4 DEF Trigger
  <1>5. CASE TriggerKongFunction
    BY <1>5 DEF TriggerKongFunction
  <1> QED
    BY <1>1, <1>2, <1>3, <1>4, <1>5 DEF PlaygroundNext

LEMMA FormsHold == Spec => [](SecretsInv /\ WaitingInv)
  <1>1. Init => SecretsInv /\ WaitingInv
    <2> SUFFICES ASSUME Init PROVE SecretsInv /\ WaitingInv
      OBVIOUS
    <2>1. WaitingInv
      BY PlaygroundPageAssumption DEF Init, PlaygroundInit, WaitingInv
    <2> QED
      BY <2>1, SecretsInvInit DEF Init
  <1>2. SecretsInv /\ WaitingInv /\ [Next]_consoleVars => (SecretsInv /\ WaitingInv)'
    <2> SUFFICES ASSUME SecretsInv, WaitingInv, [Next]_consoleVars
                 PROVE  SecretsInv' /\ WaitingInv'
      OBVIOUS
    <2>1. SecretsNext \/ UNCHANGED secretsVars
      BY DEF Next, consoleVars
    <2>2. PlaygroundNext \/ UNCHANGED playgroundVars
      BY DEF Next, consoleVars
    <2>3. SecretsInv'
      BY <2>1, SecretsInvStep DEF SecretsInv, secretsVars, Entries
    <2>4. WaitingInv'
      BY <2>2, WaitingInvStep DEF WaitingInv, playgroundVars
    <2> QED
      BY <2>3, <2>4
  <1> QED
    BY <1>1, <1>2, PTL DEF Spec

\* Every page keeps to its types: what it shows is complete before it is shown,
\* and a row that can be deleted has the name of a branch.
THEOREM PagesTypeCorrect == Spec => []TypeOK
  <1>1. OverviewInv /\ NeonInv /\ LogsInv /\ SecretsInv /\ WaitingInv => TypeOK
    <2> SUFFICES ASSUME OverviewInv, NeonInv, LogsInv, SecretsInv, WaitingInv PROVE TypeOK
      OBVIOUS
    <2>1. /\ setup \in Setups
          /\ service.latest \in revisions \union {None}
          /\ revisions \subseteq 1 .. MaxRevision
          /\ changes \in 0 .. MaxChanges
      BY DEF OverviewInv, ServiceInv
    <2>2. Shown => seen.service.how = "read" /\ seen.revisions.how \in {"read", "failed"}
      BY ShownIsRead DEF OverviewInv, Failed
    <2>3. /\ \A p \in NeonProjects : neonProjects[p] # NoObject =>
                neonProjects[p].path \in {Missing, VaultPaths[p]}
          /\ \A b \in BranchNames : neonBranches[b] # NoObject =>
                neonBranches[b].age \in 1 .. created /\ neonBranches[b].project \in NeonProjects
          /\ created \in 0 .. MaxBranches
          /\ answer \in {"none", "created", "rejected", "failed"}
      BY DEF NeonInv, BranchesInv, BranchesOwn, ProjectsOwn
    <2>4. page.open => \A i \in DOMAIN page.rows : page.rows[i] \in BranchNames
      BY DEF NeonInv, PageInv
    <2>5. /\ logTime \in 1 .. MaxTime
          /\ logLines \subseteq [labels: Labels, at: 1 .. logTime]
      BY DEF LogsInv
    <2> QED
      BY <2>1, <2>2, <2>3, <2>4, <2>5 DEF TypeOK, SecretsInv, WaitingInv, AllKeys
  <1> QED
    BY <1>1, OverviewInvHolds, NeonInvHolds, LogsInvHolds, FormsHold, PTL
=============================================================================
