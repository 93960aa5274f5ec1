---------------------------- MODULE MCLifecycle ----------------------------
(* Instances of InstanceLifecycle for TLC; the .cfg files give the bounds. *)
EXTENDS InstanceLifecycle, TLC

\* Handlers are interchangeable.  Used only by the runs without liveness.
RequestSymmetry == Permutations(Request)
============================================================================
