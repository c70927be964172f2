------------------------ MODULE MCFeatureRepository ------------------------
(* Model-checking instance of FeatureRepository.                           *)
EXTENDS FeatureRepository

CONSTANTS c1, c2, x, y

MCCallers  == {c1, c2}
MCValues   == {x, y}
MCVersions == 1..2
=============================================================================
