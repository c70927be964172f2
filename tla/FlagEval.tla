------------------------------- MODULE FlagEval -------------------------------
(***************************************************************************)
(* What a reader makes of a flag: evaluate, matchRule and the typed reads  *)
(* of client/client.go, over the payloads that validatePayload of          *)
(* internal/service/feature.go lets through.                               *)
(*                                                                         *)
(* A payload is a type and a raw value.  A raw value is a string or the    *)
(* JSON of a strategy, which is that strategy; what strconv, encoding/json *)
(* and the FNV hash make of a string is external and given by constants.   *)
(* The way of a payload from the server to the client is in FeatureSync,   *)
(* FlagStream and SdkClient; here it is one step.                          *)
(***************************************************************************)
EXTENDS Integers, Sequences, FiniteSets

CONSTANTS Strings,     \* attribute values, rule values and raw values
          Bucket,      \* Bucket[s]: FNV-32a of s modulo 100
          Atoi,        \* Atoi[s]: the integer that s denotes, or NotInt
          NotInt,
          Numbers,     \* strings that ParseFloat accepts
          Jsons,       \* strings that are JSON, though no object
          True,        \* the string "true"
          False,       \* the string "false"
          Capitals,    \* the strings "True" and "TRUE"
          EmptyString,
          Attributes,  \* of contexts
          Strategies   \* the strategies that are saved

\* FeatureStrategy is a default and rules.
Rule == [attribute : Attributes \cup {EmptyString}, operator : {"in", "eq", "mod", "other", ""},
         values : Seq(Strings), result : Strings]

Absent == [none |-> TRUE]
Panic  == [panic |-> TRUE]

ASSUME EvalConstants ==
  /\ Bucket \in [Strings -> 0..99]
  /\ Atoi \in [Strings -> Int \cup {NotInt}]
  /\ NotInt \notin Int
  /\ {True, False, EmptyString} \cup Capitals \cup Numbers \cup Jsons \subseteq Strings
  /\ True # False
  /\ {True, False} \cap Capitals = {}
  /\ EmptyString \notin {True, False} \cup Capitals \cup Numbers \cup Jsons
  /\ Strategies \subseteq [default : Strings, rules : Seq(Rule)]
  /\ {Absent, Panic} \cap Strings = {}

VARIABLE flag   \* the flag in the client's memory

Types    == {"bool", "number", "strategy", "json", "string", "unknown"}
Contexts == UNION {[A -> Strings] : A \in SUBSET Attributes}

IsStrategy(raw) == raw \in Strategies

-----------------------------------------------------------------------------
(* The server.                                                             *)

\* A mutation of validatePayload: a strategy may be any JSON.
validatePayload_AnyJson(type, raw) ==
  \/ type = "bool" /\ raw \in {True, False}
  \/ type = "number" /\ raw \in Numbers
  \/ type \in {"json", "strategy"} /\ (raw \in Jsons \/ IsStrategy(raw))
  \/ type = "string"

\* The order of a rule's conditions is left out: there is one error for all.
validatePayload(type, raw) ==
  \/ type = "bool" /\ raw \in {True, False}
  \/ type = "number" /\ raw \in Numbers
  \/ /\ type = "strategy"
     /\ IsStrategy(raw)
     /\ raw.default # EmptyString
     /\ \A i \in DOMAIN raw.rules : /\ raw.rules[i].attribute # EmptyString
                                    /\ raw.rules[i].operator # ""
  \/ type = "json" /\ (raw \in Jsons \/ IsStrategy(raw))
  \/ type = "string"

-----------------------------------------------------------------------------
(* The client.                                                             *)

\* A mutation of inRollout: the threshold's own bucket is in.
inRollout_Inclusive(b, t) == t # NotInt /\ t # 0 /\ b <= t

\* A mutation of inRollout: the threshold goes into the hash.
inRollout_Salted(b, t) == t # NotInt /\ t # 0 /\ (b + 2 * t) % 100 < t

\* The share of operator "mod".
inRollout(b, t) == t # NotInt /\ t # 0 /\ b < t

\* matchRule indexes an empty list of values.
Panics(rule, ctx) ==
  /\ rule.attribute \in DOMAIN ctx
  /\ rule.operator \in {"eq", "mod"}
  /\ rule.values = <<>>

matchRule(rule, ctx) ==
  /\ rule.attribute \in DOMAIN ctx
  /\ LET val == ctx[rule.attribute]
     IN  \/ rule.operator = "in" /\ \E i \in DOMAIN rule.values : rule.values[i] = val
         \/ rule.operator = "eq" /\ val = rule.values[1]
         \/ rule.operator = "mod" /\ inRollout(Bucket[val], Atoi[rule.values[1]])

\* A mutation of evalRules: the last rule that matches decides.
evalRules_Last(strategy, ctx) ==
  LET from[i \in 0 .. Len(strategy.rules)] ==
        IF i = 0 THEN strategy.default
        ELSE IF Panics(strategy.rules[i], ctx) THEN Panic
        ELSE IF matchRule(strategy.rules[i], ctx) THEN strategy.rules[i].result
        ELSE from[i - 1]
  IN  from[Len(strategy.rules)]

\* The loop over the rules.
evalRules(strategy, ctx) ==
  LET from[i \in 1 .. Len(strategy.rules) + 1] ==
        IF i > Len(strategy.rules) THEN strategy.default
        ELSE IF Panics(strategy.rules[i], ctx) THEN Panic
        ELSE IF matchRule(strategy.rules[i], ctx) THEN strategy.rules[i].result
        ELSE from[i + 1]
  IN  from[1]

\* The value of the flag, Absent for one that is not found.  A strategy that is
\* no JSON of a strategy is read as it is.
evaluate(ctx) ==
  IF flag = Absent THEN Absent
  ELSE IF flag.type = "strategy" /\ IsStrategy(flag.raw) THEN evalRules(flag.raw, ctx)
  ELSE flag.raw

IsEnabled(ctx) == evaluate(ctx) \in {True} \cup Capitals

GetString(ctx, default) == IF evaluate(ctx) = Absent THEN default ELSE evaluate(ctx)

GetNumber(ctx, default) == IF evaluate(ctx) \in Numbers THEN evaluate(ctx) ELSE default

\* Unmarshal succeeds, into a target of the right shape.
GetJSON(ctx) == evaluate(ctx) \in Jsons \cup Strategies

-----------------------------------------------------------------------------
EvalInit == flag = Absent

Publish(type, raw) ==
  /\ validatePayload(type, raw)
  /\ flag' = [type |-> type, raw |-> raw]

Delete ==
  /\ flag # Absent
  /\ flag' = Absent

EvalNext ==
  \/ \E type \in Types, raw \in Strings \cup Strategies : Publish(type, raw)
  \/ Delete

EvalSpec == EvalInit /\ [][EvalNext]_flag

-----------------------------------------------------------------------------
(* What a reader can rely on.                                              *)

HasStrategy == flag # Absent /\ flag.type = "strategy"

(* What the server lets through the client can read, although the two      *)
(* check a payload in different words: a boolean is enabled exactly if it  *)
(* was saved as true, a number is never replaced by the caller's default,  *)
(* JSON decodes, and a strategy always decides: its own text is never      *)
(* taken for the value, nor the empty string unless a rule says so.  A     *)
(* flag that is not there reads as disabled or as the caller's default.    *)
PublishedReadsTyped ==
  \A ctx \in Contexts, d \in Strings :
    /\ flag = Absent =>
         ~IsEnabled(ctx) /\ ~GetJSON(ctx) /\ GetString(ctx, d) = d /\ GetNumber(ctx, d) = d
    /\ flag # Absent =>
         /\ flag.type = "bool" => (IsEnabled(ctx) <=> flag.raw = True)
         /\ flag.type = "number" => GetNumber(ctx, d) = flag.raw
         /\ flag.type = "json" => GetJSON(ctx)
         /\ flag.type = "string" => GetString(ctx, d) = flag.raw
    /\ HasStrategy =>
         /\ IsStrategy(flag.raw)
         /\ GetString(ctx, d) = EmptyString
              => \E i \in DOMAIN flag.raw.rules : flag.raw.rules[i].result = EmptyString

\* The rules that decide, or that matchRule cannot be asked about.
Stops(strategy, ctx) ==
  {i \in DOMAIN strategy.rules : \/ Panics(strategy.rules[i], ctx)
                                \/ matchRule(strategy.rules[i], ctx)}

(* The first rule that matches decides, whatever the ones behind it say,   *)
(* and the default only when none matches.  A rule without values whose    *)
(* attribute the context has takes the reader down if no rule before it    *)
(* matches, and only then.                                                 *)
FirstMatchWins ==
  HasStrategy =>
    \A ctx \in Contexts :
      LET S == Stops(flag.raw, ctx)
      IN  /\ S = {} => evaluate(ctx) = flag.raw.default
          /\ \A i \in S : (\A j \in S : i <= j) =>
               evaluate(ctx) = IF Panics(flag.raw.rules[i], ctx) THEN Panic
                               ELSE flag.raw.rules[i].result

ModRule(rule) == rule.operator = "mod" /\ rule.values # <<>> /\ Atoi[rule.values[1]] # NotInt

Threshold(rule) == Atoi[rule.values[1]]

(* A threshold of t percent lets in t of the hundred buckets: nobody at    *)
(* zero and below, everybody at a hundred and above.                       *)
RolloutShare ==
  HasStrategy =>
    \A i \in DOMAIN flag.raw.rules :
      ModRule(flag.raw.rules[i]) =>
        LET t == Threshold(flag.raw.rules[i])
        IN  Cardinality({b \in 0..99 : inRollout(b, t)})
              = IF t < 0 THEN 0 ELSE IF t > 100 THEN 100 ELSE t

\* Strategy y is x with a higher threshold in rule i.
Raises(x, y, i) ==
  /\ x.default = y.default
  /\ Len(x.rules) = Len(y.rules)
  /\ \A j \in DOMAIN x.rules : j # i => x.rules[j] = y.rules[j]
  /\ ModRule(x.rules[i]) /\ ModRule(y.rules[i])
  /\ x.rules[i].attribute = y.rules[i].attribute
  /\ x.rules[i].result = y.rules[i].result
  /\ Threshold(x.rules[i]) < Threshold(y.rules[i])

(* A rollout only grows: raising the threshold of a rule takes nobody out, *)
(* and nobody who was decided by an earlier rule changes sides.            *)
RolloutGrows ==
  [][(HasStrategy /\ HasStrategy') =>
       \A i \in DOMAIN flag.raw.rules, ctx \in Contexts :
         (/\ Raises(flag.raw, flag'.raw, i)
          /\ \E j \in Stops(flag.raw, ctx) : j <= i)
           => evaluate(ctx)' = evaluate(ctx)]_flag
=============================================================================
