-------------------------- MODULE MCReconcilerLock --------------------------
(* Model-checking instance of ReconcilerLock: two replicas, the second of  *)
(* which has only a reconciler; the flag is boolean, so that a rollback to  *)
(* the empty value before its first version is refused.                    *)
EXTENDS ReconcilerLock, TLC

CONSTANTS w1, r1, r2, bool, empty, on

MCCallers  == Writers \cup Workers \cup Reconcilers
MCValues   == [type : Types, raw : Raws]
MCVersions == 1..MaxTasks
MCValid    == {v \in MCValues : v.raw # empty}
MCReplicas == {{c \in MCCallers : c # r2}, {r2}}
=============================================================================
