---------------------------- MODULE MCFlagStream ----------------------------
(* Model-checking instance of FlagStream: c1 watches scope 1, a dashboard  *)
(* d1 watches everything.                                                  *)
EXTENDS FlagStream

CONSTANTS c1, d1

MCSub  == [c \in Conns |-> IF c = c1 THEN {1} ELSE {}]
MCWild == {d1} \cap Conns

Puts      == [act : {"put"}, scope : Scopes, name : Names]
Dels      == [act : {"del"}, scope : Scopes, name : Names]
AllEvents == Puts \cup Dels \cup [act : {"other"}]
=============================================================================
