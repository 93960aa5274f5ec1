---------------------------- MODULE MCVaultFiles ----------------------------
(***************************************************************************)
(* The files of an instance in the vault, each explored by itself: the     *)
(* tree of an instance that is started and stopped, and the migration that *)
(* brought its files there.                                                *)
(***************************************************************************)
EXTENDS VaultFiles, FileMigration, TLC

CONSTANTS f1, f2

VARIABLE part

\* Files are interchangeable; those of the migration have an order, and are numbers.
FileSymmetry == Permutations(File)

\* Behaviours are followed as far as the first step after which the properties of
\* the run say nothing more: past the windows of VaultFiles, or of FileMigration.
InScope ==
    /\ exposed = {}
    /\ hit \subseteq {"saved"} \/ hit \subseteq {"crash"}

treesVars == <<part, vars, moveVars>>

TreesTypeOK ==
    /\ part = "tree" => TypeOK
    /\ part = "migration" => MoveTypeOK

TreesInit == part \in {"tree", "migration"} /\ Init /\ MoveInit

TreesNext ==
    /\ UNCHANGED part
    /\ \/ part = "tree" /\ Next /\ UNCHANGED moveVars
       \/ part = "migration" /\ MoveNext /\ UNCHANGED vars

TreesSpec == TreesInit /\ [][TreesNext]_treesVars

----------------------------------------------------------------------------
\* What the run checks of both at once: migrateOneInstance, and after it start, stop and
\* the edits of an unlocked instance, keep the last write of every file, the
\* process that runs has it in its tree, and the cursor saved in vault.json is
\* behind only what the index file has.
TreesHold == LatestIsKept /\ MigrationHolds
=============================================================================
