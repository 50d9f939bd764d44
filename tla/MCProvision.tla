---------------------------- MODULE MCProvision ----------------------------
(***************************************************************************)
(* An instance of Provision for TLC: forms for one Postgres cluster with   *)
(* two Vault secrets, and for two Neon projects that share a branch name.  *)
(***************************************************************************)
EXTENDS Provision

FormOf(kind, bad, missing, project, branch, secret) ==
    [kind |-> kind, bad |-> bad, missing |-> missing, cluster |-> "pg",
     project |-> project, branch |-> branch, secret |-> secret]

MCForms == {
    FormOf("postgres", {}, {}, "p1", "main", "hello"),
    FormOf("postgres", {"pgVersion"}, {}, "p1", "main", "other"),
    FormOf("postgres", {"storage"}, {}, "p1", "main", "hello"),
    FormOf("neon", {}, {}, "p1", "main", "hello"),
    FormOf("neon", {}, {}, "p2", "main", "other"),
    FormOf("neon", {}, {"vaultToken"}, "p1", "feature", "other"),
    FormOf("branch", {}, {}, "p1", "feature", "hello"),
    FormOf("branch", {}, {}, "p2", "main", "hello"),
    FormOf("delete", {}, {}, "p1", "main", "hello")}

=============================================================================
