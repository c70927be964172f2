----------------------------- MODULE MCSdkClient -----------------------------
(* Model-checking instance of SdkClient.  Scope 1 is the client's; scope 2 *)
(* has a flag of its own and one with a name of the client's, and there    *)
(* are keys in etcd that are no flags.                                     *)
EXTENDS SdkClient

CONSTANTS a, b

MCSub == [c \in Conns |-> Mine]

MCEvents == {[act |-> "put", scope |-> 1, name |-> a], [act |-> "del", scope |-> 1, name |-> a],
             [act |-> "put", scope |-> 2, name |-> a], [act |-> "put", scope |-> 2, name |-> b],
             [act |-> "other"]}
=============================================================================
