----------------------------- MODULE MCListLive -----------------------------
(***************************************************************************)
(* What must happen in the end, for two components that share nothing: the *)
(* list of the instances, whose changes reach the disk, and the transfers  *)
(* between nodes, which end.  A behaviour follows one of them.             *)
(***************************************************************************)
EXTENDS InstanceList, ClusterPulls

CONSTANTS h1, h2, a

VARIABLE part

liveVars == <<part, vars, pullVars>>

LiveInit == part \in {"list", "pulls"} /\ Init /\ PullsInit

LiveNext ==
    \/ part = "list" /\ Next /\ UNCHANGED <<part, pullVars>>
    \/ part = "pulls" /\ PullsNext /\ UNCHANGED <<part, vars>>

\* Fairness of InstanceList and PullsFairness of ClusterPulls, each for the
\* behaviours that follow its component.
LiveFairness ==
    /\ \A h \in Handler :
          WF_vars(part = "list" /\ (Edit(h) \/ Refuse(h) \/ MarkDirty(h) \/ Start(h) \/ Stop(h)))
    /\ WF_vars(part = "list" /\ Tick) /\ WF_vars(part = "list" /\ CompareAndSwap)
    /\ \A s \in Saver : WF_vars(part = "list" /\ Save(s))
    /\ WF_vars(part = "list" /\ UnlockStep) /\ WF_vars(part = "list" /\ ShutdownStep)
    /\ \A p \in Pull : WF_pullVars(part = "pulls" /\ PullStep(p))

LiveSpec == LiveInit /\ [][LiveNext]_liveVars /\ LiveFairness
=============================================================================
