---------------------------- MODULE MCAuthSession ----------------------------
(* Model-checking instance of AuthSession: a page with two requests.  (That *)
(* another page has tokens of the user is the same to the server as a page  *)
(* that is reloaded with requests under way.)                               *)
EXTENDS AuthSession, TLC

CONSTANTS a, r1, r2

MCPage == [r \in Requests |-> a]
=============================================================================
