--------------------------- MODULE MCFeatureSync ---------------------------
(* Model-checking instance of FeatureSync: a boolean and a string flag     *)
(* type, of which only the string accepts the empty value.                 *)
EXTENDS FeatureSync, TLC

CONSTANTS w1, w2, p1, p2, r1, bool, str, empty, on

MCCallers  == Writers \cup Workers \cup Reconcilers
MCValues   == [type : Types, raw : Raws]
MCVersions == 1..MaxTasks
MCValid    == {v \in MCValues : v.type = str \/ v.raw # empty}

OneReplica  == {MCCallers}
TwoReplicas == {{c \in MCCallers : c \in {w1, p1, r1}}, {c \in MCCallers : c \in {w2, p2}}}
=============================================================================
