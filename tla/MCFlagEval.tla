------------------------------ MODULE MCFlagEval ------------------------------
(* Model-checking instance of FlagEval: strategies of up to two rules, and *)
(* attribute values in the buckets next to the thresholds.                 *)
EXTENDS FlagEval, TLC

CONSTANTS true, false, TRUE_, empty, zero, t50, t51, t101, minus, text, attr

MCStrings  == {true, false, TRUE_, empty, zero, t50, t51, t101, minus, text}
MCBucket   == (true :> 0) @@ (zero :> 99) @@ (t51 :> 51) @@ (empty :> 49) @@ [s \in MCStrings |-> 50]
MCAtoi     == (zero :> 0) @@ (t50 :> 50) @@ (t51 :> 51) @@ (t101 :> 101) @@ (minus :> -1)
                @@ [s \in MCStrings |-> NotInt]
MCNumbers  == {zero, t50, t51, t101, minus}
MCJsons    == MCNumbers \cup {true, false}

ModRules   == [attribute : {attr}, operator : {"mod"}, values : {<<s>> : s \in MCNumbers \cup {text}},
               result : {true}]
OtherRules == [attribute : {attr}, operator : {"eq"}, values : {<<>>, <<text>>}, result : {text, empty}]
         \cup [attribute : {attr}, operator : {"in"}, values : {<<>>, <<true, text>>}, result : {false}]
         \cup [attribute : {attr, empty}, operator : {"other", ""}, values : {<<text>>}, result : {text}]
MCRules    == ModRules \cup OtherRules

MCStrategies == [default : {false, empty}, rules : {<<>>} \cup {<<x>> : x \in MCRules}]
           \cup [default : {false}, rules : {<<x, y>> : x, y \in MCRules}]
=============================================================================
