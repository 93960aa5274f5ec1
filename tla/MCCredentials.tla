--------------------------- MODULE MCCredentials ---------------------------
(***************************************************************************)
(* One run for three components that share nothing: the permissions of an  *)
(* account, the limiter of its login and the accounts of the vault.  What  *)
(* they reach together is what each reaches alone, so that a behaviour     *)
(* follows one of them, chosen at its start.                               *)
(***************************************************************************)
EXTENDS AccountPermissions, LoginLimiter, VaultAccounts, TLC

\* The components share their values, which keeps the group of symmetries small:
\* x1 and x2 are endpoints, logins or vault users, y1, y2 and y3 are requests,
\* login users or tokens.
CONSTANTS x1, x2, y1, y2, y3, a1

VARIABLE part

Symmetry == Permutations({x1, x2}) \cup Permutations({y1, y2})

Init ==
    /\ PermInit /\ LimiterInit /\ VaultInit
    /\ part \in {"permissions", "limiter", "vault"}

Next ==
    \/ part = "permissions" /\ PermNext /\ UNCHANGED <<part, limiterVars, vaultVars>>
    \/ part = "limiter" /\ LimiterNext /\ UNCHANGED <<part, permVars, vaultVars>>
    \/ part = "vault" /\ VaultNext /\ UNCHANGED <<part, permVars, limiterVars>>

Spec == Init /\ [][Next]_<<part, permVars, limiterVars, vaultVars>>

\* The type of every variable of the three components.
TypeOK ==
    /\ part = "permissions" => PermTypeOK
    /\ part = "limiter" => LimiterTypeOK
    /\ part = "vault" => VaultTypeOK

\* Permissions that are answered, and that decide, are those that were last set.
PermissionsHold == PermissionsAreCurrent /\ ChangesAreKept
============================================================================
