------------------------------ MODULE Console -------------------------------
(***************************************************************************)
(* The pages of the console in one browser.  A page has state of its own   *)
(* and reads the cluster by itself, so a behaviour follows the one page    *)
(* that is open: the overview of a service, its databases, secrets or logs,*)
(* or the playground.                                                      *)
(***************************************************************************)
EXTENDS ServicePage, NeonPages, SecretsPage, LogsPage, PlaygroundPage

VARIABLE activeTab

consoleVars == <<activeTab, pageVars, neonVars, secretsVars, logsVars, playgroundVars>>

Init ==
    /\ activeTab \in {"overview", "databases", "secrets", "logs", "playground"}
    /\ PageInit /\ NeonInit /\ SecretsInit /\ LogsInit /\ PlaygroundInit
    /\ activeTab # "overview" => setup = CHOOSE s \in Setups : TRUE

Next ==
    /\ UNCHANGED activeTab
    /\ IF activeTab = "overview" THEN PageNext ELSE UNCHANGED pageVars
    /\ IF activeTab = "databases" THEN NeonNext ELSE UNCHANGED neonVars
    /\ IF activeTab = "secrets" THEN SecretsNext ELSE UNCHANGED secretsVars
    /\ IF activeTab = "logs" THEN LogsNext ELSE UNCHANGED logsVars
    /\ IF activeTab = "playground" THEN PlaygroundNext ELSE UNCHANGED playgroundVars

Spec == Init /\ [][Next]_consoleVars

\* The browser runs its timers.  Nothing is assumed of users and servers.
FairSpec ==
    Spec /\ WF_consoleVars(activeTab = "secrets" /\ CopyTimerFires
                           /\ UNCHANGED <<activeTab, pageVars, neonVars, logsVars,
                                          playgroundVars>>)

-----------------------------------------------------------------------------
\* Types; what a page shows is complete before it is shown, and a row that can
\* be deleted has a name.
TypeOK ==
    /\ setup \in Setups
    /\ service.latest \in revisions \union {None}
    /\ revisions \subseteq 1 .. MaxRevision
    /\ Shown => seen.service.how = "read" /\ seen.revisions.how \in {"read", "failed"}
    /\ changes \in 0 .. MaxChanges
    /\ \A p \in NeonProjects : neonProjects[p] # NoObject =>
          neonProjects[p].path \in {Missing, VaultPaths[p]}
    /\ \A b \in BranchNames : neonBranches[b] # NoObject =>
          neonBranches[b].age \in 1 .. created /\ neonBranches[b].project \in NeonProjects
    /\ created \in 0 .. MaxBranches
    /\ page.open => \A i \in DOMAIN page.rows : page.rows[i] \in BranchNames
    /\ answer \in {"none", "created", "rejected", "failed"}
    /\ pending \subseteq SecretNames
    /\ revealedKeys \union copiedKey \subseteq UNION {VaultSecrets[n] : n \in DOMAIN VaultSecrets}
    /\ timers \in 0 .. MaxTimers
    /\ logTime \in 1 .. MaxTime
    /\ logLines \subseteq [labels: Labels, at: 1 .. logTime]
    /\ preset \in Presets
    /\ fields \in [RequestFields -> Presets \union {"edited"}]
    /\ effect \in BOOLEAN
    /\ response = "waiting" <=> sent # {}
=============================================================================
