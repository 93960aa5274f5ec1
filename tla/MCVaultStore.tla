---------------------------- MODULE MCVaultStore ----------------------------
(* Instances of VaultStore for TLC: a directory d with a file f, which may  *)
(* be a directory with an f of its own, a second name g for d, and the      *)
(* encrypted instance list.                                                 *)
EXTENDS VaultStore, FiniteSets

Tree == {<<"sys">>, <<"d">>, <<"d", "f">>, <<"d", "f", "f">>, <<"g">>, <<"g", "f">>}
Flat == {<<"sys">>, <<"f">>, <<"g">>, <<"g", "f">>}

\* Bounds of the paths that the index has, and that it or its file has, at a time: a
\* directory with a file, which both go elsewhere, and another.
FewEntries ==
    /\ Cardinality({p \in Path : index[p] # Missing}) <= 2
    /\ Cardinality({p \in Path : index[p] # Missing \/ disk[p] # Missing}) <= 3

ListPath == <<"sys">>
============================================================================
