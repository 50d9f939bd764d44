---------------------------- MODULE SecretsPage -----------------------------
(***************************************************************************)
(* The secrets page of the console: the form that loads a Vault secret     *)
(* (loadServiceSecrets), and the list of its values, which are masked      *)
(* until they are revealed and can be copied.  The state is that of the    *)
(* React component SecretsForm; an answer comes any time after the form    *)
(* was sent, and timers fire any time after they were set.                 *)
(***************************************************************************)
EXTENDS Naturals

CONSTANTS
    VaultSecrets,   \* what Vault holds: a function from names to sets of keys
    SecretNames,    \* the names that are asked for
    MaxTimers       \* bound on timers that run at the same time

ASSUME SecretsPageAssumption == DOMAIN VaultSecrets \subseteq SecretNames /\ MaxTimers \in Nat

VARIABLES
    pending,        \* the secret that is being loaded, as a set
    result,         \* the answer to the last form
    revealedKeys,   \* keys whose values were revealed
    showAll,        \* whether all are
    copiedKey,      \* the key that is marked as copied, as a set
    timers          \* timers that will clear that mark

secretsVars == <<pending, result, revealedKeys, showAll, copiedKey, timers>>

Entries == result.entries

SecretsInit ==
    /\ pending = {}
    /\ result = [ok |-> FALSE, title |-> "", entries |-> {}]
    /\ revealedKeys = {}
    /\ showAll = FALSE
    /\ copiedKey = {}
    /\ timers = 0

\* The form is sent; its button is disabled until the answer is there.
LoadSecret(n) ==
    /\ pending = {}
    /\ pending' = {n}
    /\ UNCHANGED <<result, revealedKeys, showAll, copiedKey, timers>>

\* The answer: the entries of the secret, none if there is no such secret, or
\* an error of validation, Kubernetes or Vault.
LoadServiceSecrets(n) ==
    {[ok |-> FALSE, title |-> "Secret load failed", entries |-> {}],
     IF n \in DOMAIN VaultSecrets
     THEN [ok |-> TRUE, title |-> "Secret loaded", entries |-> VaultSecrets[n]]
     ELSE [ok |-> TRUE, title |-> "Secret not found", entries |-> {}]}

SecretLoaded ==
    /\ \E n \in pending : result' \in LoadServiceSecrets(n)
    /\ pending' = {}
    /\ UNCHANGED <<revealedKeys, showAll, copiedKey, timers>>

\* A value is readable if its key is in revealedKeys, or with showAll; another
\* secret that is loaded changes neither.
ToggleKey(key) ==
    /\ key \in Entries
    /\ revealedKeys' = IF key \in revealedKeys THEN revealedKeys \ {key}
                       ELSE revealedKeys \union {key}
    /\ UNCHANGED <<pending, result, showAll, copiedKey, timers>>

ToggleAll ==
    /\ Entries # {}
    /\ showAll' = ~showAll
    /\ UNCHANGED <<pending, result, revealedKeys, copiedKey, timers>>

\* Variant: the mark stays.
CopyWithoutTimer(key) ==
    /\ key \in Entries /\ timers < MaxTimers
    /\ copiedKey' = {key}
    /\ UNCHANGED <<pending, result, revealedKeys, showAll, timers>>

\* The clipboard has taken the value, and the key is marked for a while.
CopyValue(key) ==
    /\ key \in Entries /\ timers < MaxTimers
    /\ copiedKey' = {key}
    /\ timers' = timers + 1
    /\ UNCHANGED <<pending, result, revealedKeys, showAll>>

\* A timer clears the mark, be it of a later copy.
CopyTimerFires ==
    /\ timers > 0
    /\ copiedKey' = {}
    /\ timers' = timers - 1
    /\ UNCHANGED <<pending, result, revealedKeys, showAll>>

SecretsNext ==
    \/ \E n \in SecretNames : LoadSecret(n)
    \/ SecretLoaded \/ ToggleAll \/ CopyTimerFires
    \/ \E key \in Entries : ToggleKey(key) \/ CopyValue(key)

-----------------------------------------------------------------------------
\* A key that is marked as copied loses the mark again, however copies, timers
\* and newly loaded secrets overlap.
MarkClears == copiedKey # {} ~> copiedKey = {}
=============================================================================
