--------------------------- MODULE FlagEvalProofs ---------------------------
(***************************************************************************)
(* FlagEval for every set of strings, hash and strategies.  The loop of    *)
(* evaluate is a recursive function: LoopFound gives it a value, and the   *)
(* two lemmas behind it say which, each by looking at the place nearest to *)
(* the end of the loop at which the claim would fail.                      *)
(***************************************************************************)
EXTENDS FlagEval, FiniteSetTheorems, WellFoundedInduction, TLAPS

LEMMA LeastNat ==
  ASSUME NEW T, T \subseteq Nat, T # {}
  PROVE  \E x \in T : \A y \in T : x <= y
<1>1. PICK x \in T : \A y \in T : ~ (<<y, x>> \in OpToRel(<, Nat))
  BY NatLessThanWellFounded, WFMin, Zenon
<1>2. \A y \in T : ~(y < x)
  BY <1>1 DEF OpToRel
<1> QED BY <1>2

-----------------------------------------------------------------------------
(* The loop over the rules.                                                *)

\* One round of the loop, when f tells how it goes on.
Round(s, ctx, f) ==
  [i \in 1 .. Len(s.rules) + 1 |->
     IF i > Len(s.rules) THEN s.default
     ELSE IF Panics(s.rules[i], ctx) THEN Panic
     ELSE IF matchRule(s.rules[i], ctx) THEN s.rules[i].result
     ELSE f[i + 1]]

\* What rule k decides.
Outcome(s, ctx, k) == IF Panics(s.rules[k], ctx) THEN Panic ELSE s.rules[k].result

LEMMA LoopIs ==
  ASSUME NEW s, NEW ctx, NEW g, g = Round(s, ctx, g)
  PROVE  \E f : f = Round(s, ctx, f) /\ evalRules(s, ctx) = f[1]
<1> DEFINE F == CHOOSE f : f = Round(s, ctx, f)
<1>1. F = Round(s, ctx, F)
  <2> HIDE DEF F
  <2> QED BY Zenon DEF F
<1>2. evalRules(s, ctx) = F[1]
  BY Zenon DEF evalRules, Round
<1> QED BY <1>1, <1>2

LEMMA StrategyType ==
  ASSUME NEW s \in Strategies
  PROVE  /\ s.default \in Strings /\ s.rules \in Seq(Rule) /\ Len(s.rules) \in Nat
         /\ DOMAIN s.rules = 1 .. Len(s.rules) /\ \A i \in 1 .. Len(s.rules) : s.rules[i] \in Rule
         /\ s # Absent
<1>1. s \in [default : Strings, rules : Seq(Rule)]
  BY EvalConstants
<1> QED BY <1>1 DEF Absent

LEMMA LoopFound ==
  ASSUME NEW s \in Strategies, NEW ctx
  PROVE  \E f : f = Round(s, ctx, f) /\ evalRules(s, ctx) = f[1]
<1> DEFINE N == Len(s.rules)
           S == Stops(s, ctx)
           T(i) == {k \in S : k >= i}
           Val(X) == IF X = {} THEN s.default
                     ELSE Outcome(s, ctx, CHOOSE k \in X : \A j \in X : k <= j)
           g == [i \in 1 .. N + 1 |-> Val(T(i))]
<1>1. N \in Nat /\ S \subseteq 1 .. N
  BY StrategyType DEF Stops
<1>2. ASSUME NEW i \in 1 .. N + 1
      PROVE  g[i] = Round(s, ctx, g)[i]
  <2>1. g[i] = Val(T(i))
    OBVIOUS
  <2>2. Round(s, ctx, g)[i] = IF i > N THEN s.default
                              ELSE IF Panics(s.rules[i], ctx) THEN Panic
                              ELSE IF matchRule(s.rules[i], ctx) THEN s.rules[i].result
                              ELSE g[i + 1]
    <3> HIDE DEF g
    <3> QED BY DEF Round
  <2>3. CASE i > N
    <3>1. T(i) = {}
      BY <1>1, <2>3
    <3> QED BY <2>1, <2>2, <2>3, <3>1
  <2>4. CASE i <= N /\ i \in S
    <3>1. i \in T(i) /\ \A j \in T(i) : i <= j
      BY <1>1, <2>4
    <3>2. ASSUME NEW k \in T(i), \A j \in T(i) : k <= j PROVE k = i
      BY <1>1, <3>1, <3>2
    <3>3. (CHOOSE k \in T(i) : \A j \in T(i) : k <= j) = i
      <4> HIDE DEF T
      <4> QED BY <3>1, <3>2
    <3>4. Val(T(i)) = Outcome(s, ctx, i)
      <4> HIDE DEF T
      <4> QED BY <3>1, <3>3
    <3>5. Panics(s.rules[i], ctx) \/ matchRule(s.rules[i], ctx)
      BY <2>4 DEF Stops
    <3>6. ~(i > N)
      BY <1>1, <2>4
    <3> HIDE DEF g, T, Val, N, S
    <3> QED BY <2>1, <2>2, <3>4, <3>5, <3>6 DEF Outcome
  <2>5. CASE i <= N /\ i \notin S
    <3>1. T(i) = T(i + 1)
      BY <1>1, <2>5
    <3>2. i + 1 \in 1 .. N + 1 /\ ~(i > N)
      BY <1>1, <2>5
    <3>3. g[i + 1] = Val(T(i + 1))
      <4> HIDE DEF Val, T
      <4> QED BY <3>2
    <3>4. ~Panics(s.rules[i], ctx) /\ ~matchRule(s.rules[i], ctx)
      BY <1>1, <2>5, StrategyType DEF Stops
    <3> HIDE DEF g, T, Val, N, S
    <3> QED BY <2>1, <2>2, <3>1, <3>2, <3>3, <3>4
  <2> QED BY <1>1, <2>3, <2>4, <2>5
<1>3. g = Round(s, ctx, g)
  <2>1. Round(s, ctx, g) = [i \in 1 .. N + 1 |-> Round(s, ctx, g)[i]]
    <3> HIDE DEF g
    <3> QED BY DEF Round
  <2>2. g = [i \in 1 .. N + 1 |-> g[i]]
    OBVIOUS
  <2> HIDE DEF g, N
  <2> QED BY <1>2, <2>1, <2>2
<1> HIDE DEF g
<1> QED BY <1>3, LoopIs

\* Without a rule that decides, the default does.
LEMMA NoStop ==
  ASSUME NEW s \in Strategies, NEW ctx, Stops(s, ctx) = {}
  PROVE  evalRules(s, ctx) = s.default
<1> DEFINE N == Len(s.rules)
<1>1. PICK f : f = Round(s, ctx, f) /\ evalRules(s, ctx) = f[1]
  BY LoopFound
<1>2. N \in Nat
  BY StrategyType
<1>3. /\ f[N + 1] = s.default
      /\ \A i \in 1 .. N : f[i] = f[i + 1]
  <2>1. \A i \in 1 .. N + 1 : f[i] = IF i > N THEN s.default
                                     ELSE IF Panics(s.rules[i], ctx) THEN Panic
                                     ELSE IF matchRule(s.rules[i], ctx) THEN s.rules[i].result
                                     ELSE f[i + 1]
    BY <1>1 DEF Round
  <2>2. \A i \in 1 .. N : ~Panics(s.rules[i], ctx) /\ ~matchRule(s.rules[i], ctx)
    BY StrategyType DEF Stops
  <2>3. N + 1 \in 1 .. N + 1 /\ N + 1 > N /\ \A i \in 1 .. N : i \in 1 .. N + 1 /\ ~(i > N)
    BY <1>2
  <2> HIDE DEF N
  <2> QED BY <2>1, <2>2, <2>3
<1> HIDE DEF N
<1> DEFINE Bad == {d \in 0 .. N : f[N + 1 - d] # s.default}
<1>4. Bad = {}
  <2> SUFFICES ASSUME Bad # {} PROVE FALSE
    OBVIOUS
  <2>1. PICK d \in Bad : \A e \in Bad : d <= e
    <3>1. Bad \subseteq Nat
      OBVIOUS
    <3> HIDE DEF Bad
    <3> QED BY <3>1, LeastNat
  <2>2. d \in 0 .. N /\ f[N + 1 - d] # s.default
    OBVIOUS
  <2>3. d # 0
    BY <1>2, <1>3, <2>2
  <2>4. N + 1 - d \in 1 .. N /\ (N + 1 - d) + 1 = N + 1 - (d - 1) /\ d - 1 \in 0 .. N /\ ~(d <= d - 1)
    BY <1>2, <2>2, <2>3
  <2>5. f[N + 1 - (d - 1)] # s.default
    BY <1>3, <2>2, <2>4
  <2>6. d - 1 \in Bad
    BY <2>4, <2>5
  <2> HIDE DEF Bad
  <2> QED BY <2>1, <2>4, <2>6
<1>5. f[1] = s.default
  <2>1. N \in 0 .. N /\ N + 1 - N = 1
    BY <1>2
  <2> QED BY <1>4, <2>1
<1> QED BY <1>1, <1>5

\* The first rule that stops the loop decides.
LEMMA FirstStop ==
  ASSUME NEW s \in Strategies, NEW ctx, NEW k \in Stops(s, ctx), \A j \in Stops(s, ctx) : k <= j
  PROVE  evalRules(s, ctx) = Outcome(s, ctx, k)
<1> DEFINE N == Len(s.rules)
<1>1. PICK f : f = Round(s, ctx, f) /\ evalRules(s, ctx) = f[1]
  BY LoopFound
<1>2. N \in Nat /\ k \in 1 .. N /\ (Panics(s.rules[k], ctx) \/ matchRule(s.rules[k], ctx))
  BY StrategyType DEF Stops
<1>3. /\ f[k] = Outcome(s, ctx, k)
      /\ \A i \in 1 .. k - 1 : f[i] = f[i + 1]
  <2>1. \A i \in 1 .. N + 1 : f[i] = IF i > N THEN s.default
                                     ELSE IF Panics(s.rules[i], ctx) THEN Panic
                                     ELSE IF matchRule(s.rules[i], ctx) THEN s.rules[i].result
                                     ELSE f[i + 1]
    BY <1>1 DEF Round
  <2>2. \A i \in 1 .. k - 1 : i \in 1 .. N /\ ~(k <= i)
    BY <1>2
  <2>3. \A i \in 1 .. k - 1 : ~Panics(s.rules[i], ctx) /\ ~matchRule(s.rules[i], ctx)
    BY <2>2, StrategyType DEF Stops
  <2>4. k \in 1 .. N + 1 /\ \A i \in 1 .. N : i \in 1 .. N + 1 /\ ~(i > N)
    BY <1>2
  <2> HIDE DEF N
  <2> QED BY <1>2, <2>1, <2>2, <2>3, <2>4 DEF Outcome
<1> HIDE DEF N
<1> DEFINE Bad == {d \in 0 .. k - 1 : f[k - d] # Outcome(s, ctx, k)}
<1>4. Bad = {}
  <2> SUFFICES ASSUME Bad # {} PROVE FALSE
    OBVIOUS
  <2>1. PICK d \in Bad : \A e \in Bad : d <= e
    <3>1. Bad \subseteq Nat
      OBVIOUS
    <3> HIDE DEF Bad
    <3> QED BY <3>1, LeastNat
  <2>2. d \in 0 .. k - 1 /\ f[k - d] # Outcome(s, ctx, k)
    OBVIOUS
  <2>3. d # 0
    BY <1>2, <1>3, <2>2
  <2>4. k - d \in 1 .. k - 1 /\ (k - d) + 1 = k - (d - 1) /\ d - 1 \in 0 .. k - 1 /\ ~(d <= d - 1)
    BY <1>2, <2>2, <2>3
  <2>5. f[k - (d - 1)] # Outcome(s, ctx, k)
    BY <1>3, <2>2, <2>4
  <2>6. d - 1 \in Bad
    BY <2>4, <2>5
  <2> HIDE DEF Bad
  <2> QED BY <2>1, <2>4, <2>6
<1>5. f[1] = Outcome(s, ctx, k)
  <2>1. k - 1 \in 0 .. k - 1 /\ k - (k - 1) = 1
    BY <1>2
  <2> QED BY <1>4, <2>1
<1> QED BY <1>1, <1>5
-----------------------------------------------------------------------------
(* A flag that is there has passed validatePayload.                        *)

EvalInv ==
  \/ flag = Absent
  \/ /\ flag \in [type : Types, raw : Strings \cup Strategies]
     /\ validatePayload(flag.type, flag.raw)

LEMMA EvalInvariant == EvalSpec => []EvalInv
<1>1. EvalInit => EvalInv
  BY DEF EvalInit, EvalInv
<1>2. EvalInv /\ [EvalNext]_flag => EvalInv'
  <2> SUFFICES ASSUME EvalInv, [EvalNext]_flag PROVE EvalInv'
    OBVIOUS
  <2>1. ASSUME NEW type \in Types, NEW raw \in Strings \cup Strategies, Publish(type, raw) PROVE EvalInv'
    <3>1. flag' = [type |-> type, raw |-> raw] /\ validatePayload(type, raw)
      BY <2>1 DEF Publish
    <3>2. flag'.type = type /\ flag'.raw = raw /\ flag' \in [type : Types, raw : Strings \cup Strategies]
      BY <3>1
    <3>3. validatePayload(flag'.type, flag'.raw)
      BY <3>1, <3>2
    <3> QED BY <3>2, <3>3 DEF EvalInv, Types, validatePayload, IsStrategy
  <2>2. CASE Delete
    BY <2>2 DEF Delete, EvalInv, Absent
  <2>3. CASE UNCHANGED flag
    BY <2>3 DEF EvalInv, Absent, Types, validatePayload, IsStrategy
  <2> QED BY <2>1, <2>2, <2>3 DEF EvalNext
<1> QED BY <1>1, <1>2, PTL DEF EvalSpec

\* A flag that is there, and one that is a strategy.
LEMMA FlagThere ==
  ASSUME EvalInv, flag # Absent
  PROVE  /\ flag.type \in Types /\ flag.raw \in Strings \cup Strategies /\ validatePayload(flag.type, flag.raw)
         /\ flag.raw # Absent
<1>1. flag \in [type : Types, raw : Strings \cup Strategies] /\ validatePayload(flag.type, flag.raw)
  BY DEF EvalInv
<1>2. flag.raw \in Strings \cup Strategies /\ flag.type \in Types
  BY <1>1
<1>3. Absent \notin Strings
  BY EvalConstants
<1> QED BY <1>1, <1>2, <1>3, StrategyType

LEMMA StrategyThere ==
  ASSUME EvalInv, HasStrategy
  PROVE  /\ flag # Absent /\ flag.type = "strategy" /\ flag.raw \in Strategies /\ flag.raw.default # EmptyString
         /\ \A ctx : evaluate(ctx) = evalRules(flag.raw, ctx)
<1>1. flag # Absent /\ flag.type = "strategy"
  BY DEF HasStrategy
<1>2. validatePayload(flag.type, flag.raw)
  BY <1>1, FlagThere
<1>3. flag.raw \in Strategies /\ flag.raw.default # EmptyString
  BY <1>1, <1>2 DEF validatePayload, IsStrategy
<1> QED BY <1>1, <1>3 DEF evaluate, IsStrategy

\* The loop ends with the default or with what some rule decides.
LEMMA LoopEnds ==
  ASSUME NEW s \in Strategies, NEW ctx
  PROVE  \/ Stops(s, ctx) = {} /\ evalRules(s, ctx) = s.default
         \/ \E k \in Stops(s, ctx) : /\ k \in DOMAIN s.rules /\ s.rules[k] \in Rule
                                     /\ (\A j \in Stops(s, ctx) : k <= j)
                                     /\ evalRules(s, ctx) = Outcome(s, ctx, k)
<1>1. CASE Stops(s, ctx) = {}
  BY <1>1, NoStop
<1>2. CASE Stops(s, ctx) # {}
  <2>1. Stops(s, ctx) \subseteq Nat /\ Stops(s, ctx) \subseteq DOMAIN s.rules
    BY StrategyType DEF Stops
  <2>2. PICK k \in Stops(s, ctx) : \A j \in Stops(s, ctx) : k <= j
    BY <1>2, <2>1, LeastNat
  <2>3. evalRules(s, ctx) = Outcome(s, ctx, k)
    BY <2>2, FirstStop
  <2>4. k \in DOMAIN s.rules /\ s.rules[k] \in Rule
    BY <2>1, StrategyType
  <2> QED BY <2>2, <2>3, <2>4
<1> QED BY <1>1, <1>2

-----------------------------------------------------------------------------
(* The theorems.                                                           *)

(* What validatePayload lets through, IsEnabled, GetNumber, GetString and  *)
(* GetJSON read as the type it was saved with.                             *)
THEOREM PublishedReadsTypedAlways == EvalSpec => []PublishedReadsTyped
<1>1. EvalInv => PublishedReadsTyped
  <2> SUFFICES ASSUME EvalInv, NEW ctx \in Contexts, NEW d \in Strings
               PROVE  /\ flag = Absent =>
                           ~IsEnabled(ctx) /\ ~GetJSON(ctx) /\ GetString(ctx, d) = d /\ GetNumber(ctx, d) = d
                      /\ flag # Absent =>
                           /\ flag.type = "bool" => (IsEnabled(ctx) <=> flag.raw = True)
                           /\ flag.type = "number" => GetNumber(ctx, d) = flag.raw
                           /\ flag.type = "json" => GetJSON(ctx)
                           /\ flag.type = "string" => GetString(ctx, d) = flag.raw
                      /\ HasStrategy =>
                           /\ IsStrategy(flag.raw)
                           /\ GetString(ctx, d) = EmptyString
                                => \E i \in DOMAIN flag.raw.rules : flag.raw.rules[i].result = EmptyString
    BY DEF PublishedReadsTyped
  <2>1. Absent \notin Strings /\ Panic \notin Strings /\ Absent \notin Strategies
        /\ {True, False, EmptyString} \cup Capitals \cup Numbers \cup Jsons \subseteq Strings
        /\ True # False /\ {True, False} \cap Capitals = {}
    BY EvalConstants, StrategyType
  <2>2. ASSUME flag = Absent
        PROVE  ~IsEnabled(ctx) /\ ~GetJSON(ctx) /\ GetString(ctx, d) = d /\ GetNumber(ctx, d) = d
    <3>1. evaluate(ctx) = Absent
      BY <2>2 DEF evaluate
    <3> QED BY <2>1, <3>1 DEF IsEnabled, GetJSON, GetString, GetNumber
  <2>3. ASSUME flag # Absent
        PROVE  /\ flag.type = "bool" => (IsEnabled(ctx) <=> flag.raw = True)
               /\ flag.type = "number" => GetNumber(ctx, d) = flag.raw
               /\ flag.type = "json" => GetJSON(ctx)
               /\ flag.type = "string" => GetString(ctx, d) = flag.raw
    <3>1. validatePayload(flag.type, flag.raw) /\ flag.raw # Absent
      BY <2>3, FlagThere
    <3>2. flag.type # "strategy" => evaluate(ctx) = flag.raw
      BY <2>3 DEF evaluate
    <3>3. CASE flag.type = "bool"
      <4>1. flag.raw \in {True, False} /\ evaluate(ctx) = flag.raw
        BY <3>1, <3>2, <3>3 DEF validatePayload
      <4> QED BY <2>1, <3>3, <4>1 DEF IsEnabled
    <3>4. CASE flag.type = "number"
      BY <3>1, <3>2, <3>4 DEF validatePayload, GetNumber
    <3>5. CASE flag.type = "json"
      BY <3>1, <3>2, <3>5 DEF validatePayload, GetJSON, IsStrategy
    <3>6. CASE flag.type = "string"
      BY <3>1, <3>2, <3>6 DEF GetString
    <3> QED BY <3>3, <3>4, <3>5, <3>6
  <2>4. ASSUME HasStrategy
        PROVE  /\ IsStrategy(flag.raw)
               /\ GetString(ctx, d) = EmptyString
                    => \E i \in DOMAIN flag.raw.rules : flag.raw.rules[i].result = EmptyString
    <3>1. flag.raw \in Strategies /\ flag.raw.default # EmptyString /\ evaluate(ctx) = evalRules(flag.raw, ctx)
      BY <2>4, StrategyThere
    <3>2. flag.raw.default \in Strings
      BY <3>1, StrategyType
    <3>3. CASE evalRules(flag.raw, ctx) = flag.raw.default
      <4>1. evaluate(ctx) # Absent
        BY <2>1, <3>1, <3>2, <3>3
      <4> QED BY <3>1, <3>3, <4>1 DEF GetString, IsStrategy
    <3>4. ASSUME NEW k \in DOMAIN flag.raw.rules, flag.raw.rules[k] \in Rule,
                 evalRules(flag.raw, ctx) = Outcome(flag.raw, ctx, k)
          PROVE  /\ IsStrategy(flag.raw)
                 /\ GetString(ctx, d) = EmptyString
                      => \E i \in DOMAIN flag.raw.rules : flag.raw.rules[i].result = EmptyString
      <4>1. flag.raw.rules[k].result \in Strings
        BY <3>4 DEF Rule
      <4>2. evaluate(ctx) \in {Panic, flag.raw.rules[k].result}
        BY <3>1, <3>4 DEF Outcome
      <4>3. Panic # Absent
        BY DEF Panic, Absent
      <4>4. evaluate(ctx) # Absent /\ Panic # EmptyString
        BY <2>1, <4>1, <4>2, <4>3
      <4> QED BY <3>1, <3>4, <4>2, <4>4 DEF GetString, IsStrategy
    <3> QED BY <3>1, <3>3, <3>4, LoopEnds
  <2> QED BY <2>2, <2>3, <2>4
<1> QED BY <1>1, EvalInvariant, PTL

(* The loop of evaluate stops at the first rule that matches, or fails at  *)
(* the first that matchRule cannot be asked about.                         *)
THEOREM FirstMatchWinsAlways == EvalSpec => []FirstMatchWins
<1>1. EvalInv => FirstMatchWins
  <2> SUFFICES ASSUME EvalInv, HasStrategy, NEW ctx \in Contexts
               PROVE  LET S == Stops(flag.raw, ctx)
                      IN  /\ S = {} => evaluate(ctx) = flag.raw.default
                          /\ \A i \in S : (\A j \in S : i <= j) =>
                               evaluate(ctx) = IF Panics(flag.raw.rules[i], ctx) THEN Panic
                                               ELSE flag.raw.rules[i].result
    BY DEF FirstMatchWins
  <2>1. flag.raw \in Strategies /\ evaluate(ctx) = evalRules(flag.raw, ctx)
    BY StrategyThere
  <2>2. Stops(flag.raw, ctx) = {} => evaluate(ctx) = flag.raw.default
    BY <2>1, NoStop
  <2>3. ASSUME NEW i \in Stops(flag.raw, ctx), \A j \in Stops(flag.raw, ctx) : i <= j
        PROVE  evaluate(ctx) = IF Panics(flag.raw.rules[i], ctx) THEN Panic ELSE flag.raw.rules[i].result
    BY <2>1, <2>3, FirstStop DEF Outcome
  <2> QED BY <2>2, <2>3
<1> QED BY <1>1, EvalInvariant, PTL
LEMMA ModRuleType ==
  ASSUME NEW rule \in Rule, ModRule(rule)
  PROVE  /\ rule.operator = "mod" /\ rule.values # <<>>
         /\ Threshold(rule) \in Int /\ Threshold(rule) = Atoi[rule.values[1]] /\ Threshold(rule) # NotInt
<1>1. rule.operator = "mod" /\ rule.values # <<>> /\ Atoi[rule.values[1]] # NotInt
  BY DEF ModRule
<1>2. rule.values \in Seq(Strings)
  BY DEF Rule
<1>3. rule.values[1] \in Strings
  BY <1>1, <1>2
<1>4. Atoi[rule.values[1]] \in Int \cup {NotInt}
  BY <1>3, EvalConstants
<1> QED BY <1>1, <1>4 DEF Threshold

(* Operator "mod" of matchRule lets in exactly the share it was given.     *)
THEOREM RolloutShareAlways == EvalSpec => []RolloutShare
<1>1. EvalInv => RolloutShare
  <2> SUFFICES ASSUME EvalInv, HasStrategy, NEW i \in DOMAIN flag.raw.rules, ModRule(flag.raw.rules[i])
               PROVE  LET t == Threshold(flag.raw.rules[i])
                      IN  Cardinality({b \in 0..99 : inRollout(b, t)})
                            = IF t < 0 THEN 0 ELSE IF t > 100 THEN 100 ELSE t
    BY DEF RolloutShare
  <2> DEFINE t == Threshold(flag.raw.rules[i])
             B == {b \in 0..99 : inRollout(b, t)}
  <2>1. flag.raw \in Strategies
    BY StrategyThere
  <2>2. flag.raw.rules[i] \in Rule
    BY <2>1, StrategyType
  <2>3. t \in Int /\ t # NotInt
    BY <2>2, ModRuleType
  <2> HIDE DEF t
  <2>4. CASE t <= 0
    <3>1. B = {}
      BY <2>3, <2>4 DEF inRollout
    <3>2. Cardinality(B) = 0
      BY <3>1, FS_EmptySet
    <3> HIDE DEF B
    <3> QED BY <2>3, <2>4, <3>2 DEF B, t
  <2>5. CASE t > 0 /\ t <= 100
    <3>1. B = 0 .. t - 1
      BY <2>3, <2>5 DEF inRollout
    <3>2. t - 1 \in Int /\ 0 \in Int /\ ~(0 > t - 1) /\ (t - 1) - 0 + 1 = t
      BY <2>3, <2>5
    <3>3. Cardinality(0 .. t - 1) = IF 0 > t - 1 THEN 0 ELSE (t - 1) - 0 + 1
      BY <3>2, FS_Interval
    <3>4. Cardinality(B) = t
      BY <3>1, <3>2, <3>3
    <3> HIDE DEF B
    <3> QED BY <2>3, <2>5, <3>4 DEF B, t
  <2>6. CASE t > 100
    <3>1. B = 0 .. 99
      BY <2>3, <2>6 DEF inRollout
    <3>2. \A n \in Int : Cardinality(0 .. n) = IF 0 > n THEN 0 ELSE n - 0 + 1
      <4>1. 0 \in Int
        OBVIOUS
      <4> QED BY <4>1, FS_Interval
    <3>3. 99 \in Int /\ ~(0 > 99) /\ 99 - 0 + 1 = 100
      OBVIOUS
    <3>4. Cardinality(B) = 100
      BY <3>1, <3>2, <3>3
    <3> HIDE DEF B
    <3> QED BY <2>3, <2>6, <3>4 DEF B, t
  <2> QED BY <2>3, <2>4, <2>5, <2>6
<1> QED BY <1>1, EvalInvariant, PTL

\* Raising a threshold keeps who is in, and the rules before it.
LEMMA RaisedSame ==
  ASSUME NEW x \in Strategies, NEW y \in Strategies, NEW ctx \in Contexts, NEW i \in DOMAIN x.rules,
         Raises(x, y, i), \E j \in Stops(x, ctx) : j <= i
  PROVE  evalRules(y, ctx) = evalRules(x, ctx)
<1>1. /\ Len(x.rules) = Len(y.rules) /\ Len(x.rules) \in Nat /\ i \in Nat
      /\ DOMAIN x.rules = 1 .. Len(x.rules) /\ DOMAIN y.rules = 1 .. Len(x.rules)
      /\ x.rules[i] \in Rule /\ y.rules[i] \in Rule
      /\ \A j \in DOMAIN x.rules : j # i => x.rules[j] = y.rules[j]
      /\ ModRule(x.rules[i]) /\ ModRule(y.rules[i])
      /\ x.rules[i].attribute = y.rules[i].attribute /\ x.rules[i].result = y.rules[i].result
      /\ Threshold(x.rules[i]) < Threshold(y.rules[i])
  <2>1. /\ Len(x.rules) = Len(y.rules)
        /\ \A j \in DOMAIN x.rules : j # i => x.rules[j] = y.rules[j]
        /\ ModRule(x.rules[i]) /\ ModRule(y.rules[i])
        /\ x.rules[i].attribute = y.rules[i].attribute /\ x.rules[i].result = y.rules[i].result
        /\ Threshold(x.rules[i]) < Threshold(y.rules[i])
    BY DEF Raises
  <2>2. /\ Len(x.rules) \in Nat /\ DOMAIN x.rules = 1 .. Len(x.rules) /\ DOMAIN y.rules = 1 .. Len(y.rules)
        /\ (\A j \in 1 .. Len(x.rules) : x.rules[j] \in Rule) /\ (\A j \in 1 .. Len(y.rules) : y.rules[j] \in Rule)
    BY StrategyType
  <2> QED BY <2>1, <2>2
<1>2. PICK k \in Stops(x, ctx) : (\A j \in Stops(x, ctx) : k <= j) /\ evalRules(x, ctx) = Outcome(x, ctx, k)
  BY LoopEnds
<1>3. k \in DOMAIN x.rules /\ k <= i /\ (Panics(x.rules[k], ctx) \/ matchRule(x.rules[k], ctx))
  <2>1. Stops(x, ctx) \subseteq Nat
    BY <1>1 DEF Stops
  <2> QED BY <1>1, <1>2, <2>1 DEF Stops
<1>4. \A j \in Stops(y, ctx) : j < i => j \in Stops(x, ctx)
  BY <1>1 DEF Stops
<1>5. k = i => ~Panics(x.rules[i], ctx) /\ ~Panics(y.rules[i], ctx) /\ matchRule(y.rules[i], ctx)
  <2> SUFFICES ASSUME k = i
               PROVE  ~Panics(x.rules[i], ctx) /\ ~Panics(y.rules[i], ctx) /\ matchRule(y.rules[i], ctx)
    OBVIOUS
  <2>1. /\ x.rules[i].operator = "mod" /\ x.rules[i].values # <<>>
        /\ Threshold(x.rules[i]) \in Int /\ Threshold(x.rules[i]) = Atoi[x.rules[i].values[1]]
        /\ y.rules[i].operator = "mod" /\ y.rules[i].values # <<>>
        /\ Threshold(y.rules[i]) \in Int /\ Threshold(y.rules[i]) = Atoi[y.rules[i].values[1]]
        /\ Threshold(y.rules[i]) # NotInt
    BY <1>1, ModRuleType
  <2>2. ~Panics(x.rules[i], ctx) /\ ~Panics(y.rules[i], ctx)
    BY <2>1 DEF Panics
  <2>3. matchRule(x.rules[i], ctx)
    BY <1>3, <2>2
  <2> DEFINE a == x.rules[i].attribute
             b == Bucket[ctx[a]]
             t == Threshold(x.rules[i])
             u == Threshold(y.rules[i])
  <2>4. a \in DOMAIN ctx /\ inRollout(b, t)
    BY <2>1, <2>3 DEF matchRule
  <2>5. b \in 0 .. 99
    <3>1. PICK A \in SUBSET Attributes : ctx \in [A -> Strings]
      BY DEF Contexts
    <3>2. ctx[a] \in Strings
      BY <2>4, <3>1
    <3> QED BY <3>2, EvalConstants
  <2>6. t \in Int /\ u \in Int /\ t < u /\ u # NotInt
    BY <1>1, <2>1
  <2>7. inRollout(b, u)
    <3> HIDE DEF a, b, t, u
    <3> QED BY <2>4, <2>5, <2>6 DEF inRollout
  <2>8. matchRule(y.rules[i], ctx)
    BY <1>1, <2>1, <2>4, <2>7 DEF matchRule
  <2> QED BY <2>2, <2>8
<1>6. k \in Stops(y, ctx) /\ Outcome(y, ctx, k) = Outcome(x, ctx, k)
  <2>1. CASE k = i
    BY <1>1, <1>3, <1>5, <2>1 DEF Stops, Outcome
  <2>2. CASE k # i
    BY <1>1, <1>3, <2>2 DEF Stops, Outcome
  <2> QED BY <2>1, <2>2
<1>7. \A j \in Stops(y, ctx) : k <= j
  <2> SUFFICES ASSUME NEW j \in Stops(y, ctx) PROVE k <= j
    OBVIOUS
  <2>1. j \in Nat /\ k \in Nat
    BY <1>1, <1>3 DEF Stops
  <2> QED BY <1>1, <1>2, <1>3, <1>4, <2>1
<1>8. evalRules(y, ctx) = Outcome(y, ctx, k)
  BY <1>6, <1>7, FirstStop
<1> QED BY <1>2, <1>6, <1>8

(* Saving a strategy with a higher threshold takes nobody out of matchRule *)
(* that was in, nor away from an earlier rule.                             *)
THEOREM RolloutGrowsAlways == EvalSpec => RolloutGrows
<1> DEFINE Grows == (HasStrategy /\ HasStrategy') =>
                      \A i \in DOMAIN flag.raw.rules, ctx \in Contexts :
                        (/\ Raises(flag.raw, flag'.raw, i)
                         /\ \E j \in Stops(flag.raw, ctx) : j <= i)
                          => evaluate(ctx)' = evaluate(ctx)
<1>1. EvalInv /\ EvalInv' => Grows
  <2> SUFFICES ASSUME EvalInv, EvalInv', HasStrategy, HasStrategy',
                      NEW i \in DOMAIN flag.raw.rules, NEW ctx \in Contexts,
                      Raises(flag.raw, flag'.raw, i), \E j \in Stops(flag.raw, ctx) : j <= i
               PROVE  evaluate(ctx)' = evaluate(ctx)
    OBVIOUS
  <2>1. flag.raw \in Strategies /\ evaluate(ctx) = evalRules(flag.raw, ctx)
    BY StrategyThere
  <2>2. flag'.raw \in Strategies /\ evaluate(ctx)' = evalRules(flag'.raw, ctx)
    <3>1. flag' # Absent /\ flag'.type = "strategy"
      BY DEF HasStrategy, Absent
    <3>2. validatePayload(flag'.type, flag'.raw)
      BY <3>1 DEF EvalInv, Absent, validatePayload, IsStrategy
    <3>3. flag'.raw \in Strategies
      BY <3>1, <3>2 DEF validatePayload, IsStrategy
    <3> QED BY <3>1, <3>3 DEF evaluate, IsStrategy, Absent
  <2> QED BY <2>1, <2>2, RaisedSame
<1>2. EvalInv /\ EvalInv' => [Grows]_flag
  BY <1>1
<1>3. EvalSpec => [][Grows]_flag
  BY <1>2, EvalInvariant, PTL
<1> QED BY <1>3 DEF RolloutGrows
=============================================================================
