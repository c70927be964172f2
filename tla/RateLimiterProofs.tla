-------------------------- MODULE RateLimiterProofs --------------------------
(***************************************************************************)
(* Proofs about RateLimiter, for any number of requests and replicas, any  *)
(* limit, any difference between clocks and any delay of a script.         *)
(*                                                                         *)
(* The heart is TakeStep: a script that takes a token preserves            *)
(* TokensAccounted.  Its arithmetic is in LiveArith and ExpiredArith.      *)
(*                                                                         *)
(* The fallback's limit needs the sum of what a replica's limiters have    *)
(* let through.  It is carried as a ledger: the running total up to each   *)
(* limiter, which some function f keeps.                                   *)
(***************************************************************************)
EXTENDS RateLimiter, WellFoundedInduction, TLAPS

LEMMA RateType == Rate \in Nat \ {0}
BY LimiterConstants DEF Rate

LEMMA ConstTypes == /\ Second \in Nat \ {0} /\ MaxSkew \in Nat /\ SweepAge \in Nat
                    /\ Capacity \in Nat \ {0} /\ Ttl \in Nat
BY LimiterConstants, RateType DEF Capacity, Ttl

LEMMA RateNat ==
  ASSUME NEW a \in Nat, NEW b \in Nat
  PROVE  Rate * (a + b) \in Nat
BY RateType

\* Rate * x is additive and monotone.
LEMMA RateAdd ==
  ASSUME NEW a \in Int, NEW b \in Int
  PROVE  Rate * (a + b) = Rate * a + Rate * b
BY RateType

LEMMA RateMono ==
  ASSUME NEW a \in Int, NEW b \in Int, a <= b
  PROVE  Rate * a <= Rate * b
BY RateType

LEMMA LiveArith ==
  ASSUME NEW g \in Nat, NEW t \in Nat, NEW ts \in Nat, NEW sb \in Nat, NEW now \in Nat,
         Second * g + t <= Capacity + Rate * (ts + sb)
  PROVE  Second * g + Least(Capacity, t + Rate * Greatest(0, now - ts))
           <= Capacity + Rate * (now + (sb + Greatest(0, ts - now)))
<1>0. Greatest(0, now - ts) \in Int /\ ts + sb \in Int
  BY DEF Greatest
<1>1. Rate * (ts + sb) + Rate * Greatest(0, now - ts)
        = Rate * ((ts + sb) + Greatest(0, now - ts))
  BY <1>0, RateAdd
<1>2. (ts + sb) + Greatest(0, now - ts) = now + (sb + Greatest(0, ts - now))
  BY DEF Greatest
<1>3. Rate * (ts + sb) \in Int /\ Rate * Greatest(0, now - ts) \in Int /\ Second * g \in Int
  BY RateType, ConstTypes DEF Greatest
<1>4. Least(Capacity, t + Rate * Greatest(0, now - ts)) <= t + Rate * Greatest(0, now - ts)
  BY <1>3, ConstTypes DEF Least
<1>5. Least(Capacity, t + Rate * Greatest(0, now - ts)) \in Int
  BY <1>3, ConstTypes DEF Least
<1> DEFINE l == Least(Capacity, t + Rate * Greatest(0, now - ts))
           u == Rate * Greatest(0, now - ts)
           v == Rate * (ts + sb)
           s == Second * g
<1>6. s + l <= Capacity + (v + u)
  <2> HIDE DEF l, u, v, s
  <2>1. l \in Int /\ u \in Int /\ v \in Int /\ s \in Int /\ l <= t + u /\ s + t <= Capacity + v
    BY <1>3, <1>4, <1>5 DEF l, u, v, s
  <2> QED BY <2>1, ConstTypes
<1> QED BY <1>1, <1>2, <1>6

\* The bucket has expired: it was last filled at ts and would be full at the
\* reading "now" or, if that comes late, within the setback.
LEMMA ExpiredArith ==
  ASSUME NEW g \in Nat, NEW t \in Nat, NEW ts \in Nat, NEW sb \in Nat, NEW late2 \in Nat,
         NEW now \in Nat, ts + Second <= now + late2,
         Second * g + t <= Capacity + Rate * (ts + sb)
  PROVE  Second * g + Capacity <= Capacity + Rate * (now + (sb + late2))
<1>1. Rate * (ts + sb) + Rate * Second = Rate * ((ts + sb) + Second)
  BY RateAdd, ConstTypes
<1>2. (ts + sb) + Second <= now + (sb + late2)
  BY ConstTypes
<1>3. Rate * ((ts + sb) + Second) <= Rate * (now + (sb + late2))
  BY <1>2, RateMono, ConstTypes
<1>4. Rate * (ts + sb) \in Int /\ Rate * (now + (sb + late2)) \in Int /\ Second * g \in Int
  BY RateType, ConstTypes
<1> DEFINE x == Rate * (ts + sb)
           y == Rate * (now + (sb + late2))
           s == Second * g
<1>5. x + Capacity <= y
  BY <1>1, <1>3 DEF Capacity
<1>6. x \in Int /\ y \in Int /\ s \in Int /\ s + t <= Capacity + x
  BY <1>4
<1> HIDE DEF x, y, s
<1>7. s + Capacity <= Capacity + y
  BY <1>5, <1>6, ConstTypes
<1> QED BY <1>7 DEF s, y

LEMMA FilledType ==
  ASSUME LimiterTypeOK, NEW now \in Nat
  PROVE  Filled(now) \in 0..Capacity /\ Behind(now) \in Nat
<1>1. Rate * Greatest(0, now - bucket.ts) \in Nat
  BY RateType DEF LimiterTypeOK, Greatest
<1>2. Filled(now) \in 0..Capacity
  BY <1>1, ConstTypes DEF Filled, Least, LimiterTypeOK
<1>3. Behind(now) \in Nat
  BY ConstTypes DEF Behind, Greatest, LimiterTypeOK
<1> QED BY <1>2, <1>3

\* The script takes a token; its request may or may not learn of it.
LEMMA TakeStep ==
  ASSUME LimiterTypeOK, TokensAccounted, StampsOK,
         NEW now \in Nat, now <= clock + MaxSkew, TakeToken(now),
         grants' \in {grants, grants + 1}, clock' = clock
  PROVE  /\ bucket' \in [tokens : 0..Capacity, ts : Nat, ends : Nat]
         /\ setback' \in Nat /\ spentAt' \in Nat /\ grants' \in Nat
         /\ TokensAccounted' /\ StampsOK'
<1> USE ConstTypes
<1>1. Filled(now) \in 0..Capacity /\ Behind(now) \in Nat
  BY FilledType
<1>2. /\ bucket'.tokens = Filled(now) - Second
      /\ bucket'.ts = now
      /\ bucket'.ends = clock + Ttl
      /\ bucket' = [tokens |-> Filled(now) - Second, ts |-> now, ends |-> clock + Ttl]
      /\ setback' = setback + Behind(now)
      /\ spentAt' = clock
      /\ Filled(now) >= Second
  BY DEF TakeToken
<1>3. /\ bucket' \in [tokens : 0..Capacity, ts : Nat, ends : Nat]
      /\ setback' \in Nat /\ spentAt' \in Nat /\ grants' \in Nat
  <2>1. Filled(now) - Second \in 0..Capacity
    BY <1>1, <1>2
  <2>2. clock + Ttl \in Nat
    BY DEF LimiterTypeOK, Ttl
  <2>3. bucket' \in [tokens : 0..Capacity, ts : Nat, ends : Nat]
    BY <1>2, <2>1, <2>2
  <2>4. setback' \in Nat /\ spentAt' \in Nat /\ grants' \in Nat
    <3>1. setback \in Nat /\ clock \in Nat /\ grants \in Nat
      BY DEF LimiterTypeOK
    <3>2. setback' = setback + Behind(now) /\ spentAt' = clock
      BY <1>2
    <3>3. setback' \in Nat
      BY <1>1, <3>1, <3>2
    <3>4. grants' \in Nat
      BY <3>1
    <3> QED BY <3>1, <3>2, <3>3, <3>4
  <2> QED BY <2>3, <2>4
<1>4. StampsOK'
  <2>1. clock + Ttl # 0
    BY DEF LimiterTypeOK, Ttl
  <2> QED BY <1>2, <2>1 DEF StampsOK, LimiterTypeOK
<1>5. Second * grants + Filled(now) <= Capacity + Rate * (now + setback')
  <2>1. bucket.tokens \in Nat /\ bucket.ts \in Nat /\ bucket.ends \in Nat
        /\ grants \in Nat /\ setback \in Nat /\ clock \in Nat
    BY DEF LimiterTypeOK
  <2>2. CASE Live
    BY <2>1, <2>2, <1>2, LiveArith DEF Filled, Behind, TokensAccounted
  <2>3. CASE ~Live /\ bucket.ends # 0
    <3>1. bucket.ts + Second <= now + Behind(now)
      BY <2>1, <2>3, <1>1 DEF Behind, Greatest, Live, StampsOK, Ttl
    <3> QED BY <2>1, <2>3, <3>1, <1>1, <1>2, ExpiredArith DEF Filled, TokensAccounted
  <2>4. CASE ~Live /\ bucket.ends = 0
    <3>1. grants = 0 /\ Filled(now) = Capacity
      BY <2>4 DEF StampsOK, Filled
    <3>2. Second * grants = 0
      BY <3>1
    <3>4. Rate * (now + setback') \in Nat
      BY <1>3, RateNat
    <3> QED BY <3>1, <3>2, <3>4
  <2> QED BY <2>2, <2>3, <2>4
<1>6. TokensAccounted'
  <2>1. Second * grants \in Int /\ Second * (grants + 1) = Second * grants + Second
    BY DEF LimiterTypeOK
  <2>2. Rate * (now + setback') \in Nat
    BY <1>3, RateNat
  <2>3. Second * grants' + (Filled(now) - Second) <= Capacity + Rate * (now + setback')
    <3>1. CASE grants' = grants
      BY <3>1, <1>1, <1>5, <2>1, <2>2
    <3>2. CASE grants' = grants + 1
      BY <3>2, <1>1, <1>5, <2>1, <2>2
    <3> QED BY <3>1, <3>2
  <2> QED BY <1>2, <2>3 DEF TokensAccounted, Capacity, Rate
<1> QED BY <1>3, <1>4, <1>6

-----------------------------------------------------------------------------
(* The invariant is inductive: first the steps of the Redis bucket, then   *)
(* those of the fallback, which do not touch it.                           *)

LEMMA InitInv == LimiterInit => LimiterInv
<1> SUFFICES ASSUME LimiterInit PROVE LimiterInv
  OBVIOUS
<1> USE ConstTypes DEF LimiterInit
<1>1. LimiterTypeOK
  BY DEF LimiterTypeOK, Idle, Request
<1>2. TokensAccounted
  <2>1. Second * 0 = 0 /\ Rate * (0 + 0) = 0
    BY RateType
  <2> QED BY <2>1 DEF TokensAccounted
<1>3. StampsOK /\ ReadingsOK
  BY DEF StampsOK, ReadingsOK, Idle
<1>4. EntriesOK /\ LimitersCounted
  BY DEF EntriesOK, LimitersCounted, Storing, Idle
<1> QED BY <1>1, <1>2, <1>3, <1>4 DEF LimiterInv

\* What depends on the bucket and its history alone, and what does not.
RedisInv    == TokensAccounted /\ StampsOK /\ ReadingsOK
FallbackInv == EntriesOK /\ LimitersCounted

\* A request in the middle of a Redis call carries a reading.
LEMMA ReadingType ==
  ASSUME LimiterTypeOK, NEW q \in Requests, req[q].pc = "redis"
  PROVE  req[q].now \in Nat
<1>1. req[q] \in Request
  BY DEF LimiterTypeOK
<1> QED BY <1>1 DEF Request, Idle

LEMMA StillBelow ==
  ASSUME NEW n \in Nat, NEW a \in Nat, NEW b \in {a, a + 1}, n <= a + MaxSkew
  PROVE  n <= b + MaxSkew
BY ConstTypes

LEMMA RedisKept ==
  ASSUME LimiterTypeOK, RedisInv, UNCHANGED <<bucket, grants, setback, spentAt>>,
         clock' \in {clock, clock + 1}, late' \subseteq late,
         \A q \in Requests : req'[q].pc = "redis" => req'[q] = req[q]
  PROVE  RedisInv'
<1>1. TokensAccounted'
  BY DEF RedisInv, TokensAccounted
<1>2. StampsOK'
  BY ConstTypes DEF RedisInv, StampsOK, LimiterTypeOK
<1>3. ReadingsOK'
  <2>1. ASSUME NEW q \in Requests, req'[q].pc = "redis"
        PROVE  req'[q].now <= clock' + MaxSkew
    <3>1. req'[q] = req[q] /\ req[q].pc = "redis" /\ req[q].now <= clock + MaxSkew
      BY <2>1 DEF RedisInv, ReadingsOK
    <3>2. req[q].now \in Nat
      BY <3>1, ReadingType
    <3> QED BY <3>1, <3>2, ConstTypes DEF LimiterTypeOK
  <2>2. ASSUME NEW n \in late'
        PROVE  n <= clock' + MaxSkew
    <3>1. n \in Nat /\ n <= clock + MaxSkew /\ clock \in Nat
      BY DEF RedisInv, ReadingsOK, LimiterTypeOK
    <3> QED BY <3>1, StillBelow
  <2> QED BY <2>1, <2>2 DEF ReadingsOK
<1> QED BY <1>1, <1>2, <1>3 DEF RedisInv

LEMMA FallbackKept ==
  ASSUME LimiterTypeOK, FallbackInv, UNCHANGED fallbackVars,
         clock' \in {clock, clock + 1},
         \A q \in Requests : \/ req'[q] = req[q]
                             \/ /\ req[q].pc \notin {"store", "allow"}
                                /\ req'[q].pc \notin {"store", "allow"}
  PROVE  FallbackInv'
<1> USE DEF fallbackVars
<1>1. EntriesOK'
  <2>1. \A p \in Replicas : entry'[p] \in 0..Len(lims'[p])
    BY DEF FallbackInv, EntriesOK
  <2>2. \A q \in Requests :
          req'[q].pc \in {"store", "allow"} => req'[q].lim \in 1..Len(lims'[Home[q]])
    BY DEF FallbackInv, EntriesOK
  <2>3. ASSUME NEW p \in Replicas, NEW i \in 1..Len(lims'[p])
        PROVE  lims'[p][i].at <= clock' /\ lims'[p][i].seen <= clock'
    <3>1. lims[p] \in Seq(Limiter)
      BY DEF LimiterTypeOK
    <3>2. i \in 1..Len(lims[p]) /\ lims'[p] = lims[p]
      OBVIOUS
    <3>3. lims[p][i] \in Limiter
      BY <3>1, <3>2
    <3>4. lims[p][i].at \in Nat /\ lims[p][i].seen \in Nat /\ clock \in Nat
      BY <3>3 DEF Limiter, LimiterTypeOK
    <3>5. lims[p][i].at <= clock /\ lims[p][i].seen <= clock
      BY <3>2 DEF FallbackInv, EntriesOK
    <3> QED BY <3>2, <3>4, <3>5
  <2> QED BY <2>1, <2>2, <2>3 DEF EntriesOK
<1>2. \A p \in Replicas : Storing(p)' <=> Storing(p)
  BY DEF Storing
<1>3. LimitersCounted'
  BY <1>2 DEF FallbackInv, LimitersCounted
<1> QED BY <1>1, <1>3 DEF FallbackInv

LEMMA RedisSteps ==
  ASSUME LimiterTypeOK, RedisInv, FallbackInv, NEW q \in Requests,
         \/ Arrive(q) \/ Allowed(q) \/ Denied(q) \/ AnswerLost(q) \/ RedisFails(q)
  PROVE  LimiterTypeOK' /\ RedisInv' /\ FallbackInv'
<1> USE ConstTypes
<1>1. CASE Arrive(q)
  <2> USE <1>1 DEF Arrive, redisVars, fallbackVars
  <2>1. PICK now \in Readings : req' = [req EXCEPT ![q] = [pc |-> "redis", now |-> now]]
    OBVIOUS
  <2>2. now \in Nat /\ now <= clock + MaxSkew
    BY DEF Readings, LimiterTypeOK
  <2>3. [pc |-> "redis", now |-> now] \in Request
    BY <2>2 DEF Request
  <2>4. LimiterTypeOK'
    BY <2>1, <2>3 DEF LimiterTypeOK
  <2>5. RedisInv'
    <3>1. TokensAccounted' /\ StampsOK'
      BY DEF RedisInv, TokensAccounted, StampsOK
    <3>2. ReadingsOK'
      BY <2>1, <2>2 DEF RedisInv, ReadingsOK, LimiterTypeOK
    <3> QED BY <3>1, <3>2 DEF RedisInv
  <2>6. FallbackInv'
    <3>1. \A r \in Requests : \/ req'[r] = req[r]
                              \/ /\ req[r].pc \notin {"store", "allow"}
                                 /\ req'[r].pc \notin {"store", "allow"}
      BY <2>1 DEF LimiterTypeOK, Idle
    <3> QED BY <3>1, FallbackKept DEF LimiterTypeOK
  <2> QED BY <2>4, <2>5, <2>6
<1>2. CASE Allowed(q) \/ Denied(q) \/ RedisFails(q) \/ AnswerLost(q)
  <2>1. req[q].pc = "redis" /\ req[q].now \in Nat /\ req[q].now <= clock + MaxSkew
    BY <1>2, ReadingType DEF Allowed, Denied, RedisFails, AnswerLost, RedisInv, ReadingsOK
  <2>2. \A r \in Requests : \/ req'[r] = req[r]
                            \/ r = q /\ req'[r].pc \in {"idle", "load"}
    BY <1>2 DEF Allowed, Denied, RedisFails, AnswerLost, LimiterTypeOK, Idle
  <2>3. FallbackInv'
    BY <1>2, <2>1, <2>2, FallbackKept DEF Allowed, Denied, RedisFails, AnswerLost
  <2>4. req' \in [Requests -> Request] /\ late' \subseteq Nat /\ faults' \in Nat /\ clock' = clock
    <3>1. [pc |-> "load"] \in Request /\ Idle \in Request
      BY DEF Request
    <3>2. req \in [Requests -> Request] /\ late \subseteq Nat /\ faults \in Nat
      BY DEF LimiterTypeOK
    <3>3. req' \in [Requests -> Request]
      BY <1>2, <3>1, <3>2 DEF Allowed, Denied, RedisFails, AnswerLost
    <3>4. late' \subseteq Nat
      BY <1>2, <2>1, <3>2 DEF Allowed, Denied, RedisFails, AnswerLost
    <3>5. faults' \in Nat /\ clock' = clock
      BY <1>2, <3>2 DEF Allowed, Denied, RedisFails, AnswerLost, Fault
    <3> QED BY <3>3, <3>4, <3>5
  <2>5. /\ bucket' \in [tokens : 0..Capacity, ts : Nat, ends : Nat]
        /\ setback' \in Nat /\ spentAt' \in Nat /\ grants' \in Nat
        /\ TokensAccounted' /\ StampsOK'
    <3>1. CASE Allowed(q)
      BY <3>1, <2>1, TakeStep DEF Allowed, RedisInv
    <3>2. CASE AnswerLost(q)
      BY <3>2, <2>1, TakeStep DEF AnswerLost, RedisInv
    <3>3. CASE Denied(q) \/ RedisFails(q)
      BY <3>3 DEF Denied, NoToken, RedisFails, RedisInv, TokensAccounted, StampsOK, LimiterTypeOK
    <3> QED BY <1>2, <3>1, <3>2, <3>3
  <2>6. LimiterTypeOK'
    BY <1>2, <2>4, <2>5
       DEF Allowed, Denied, RedisFails, AnswerLost, LimiterTypeOK, fallbackVars
  <2>7. ReadingsOK'
    <3>1. \A n \in late' : n \in late \/ n = req[q].now
      BY <1>2 DEF Allowed, Denied, RedisFails, AnswerLost
    <3>2. \A n \in late' : n <= clock + MaxSkew
      BY <2>1, <3>1 DEF RedisInv, ReadingsOK
    <3>3. \A r \in Requests : req'[r].pc = "redis" => req'[r].now <= clock + MaxSkew
      BY <2>2 DEF RedisInv, ReadingsOK
    <3> QED BY <2>4, <3>2, <3>3 DEF ReadingsOK
  <2> QED BY <2>3, <2>5, <2>6, <2>7 DEF RedisInv
<1> QED BY <1>1, <1>2

LEMMA LateStep ==
  ASSUME LimiterTypeOK, RedisInv, FallbackInv, NEW now \in late, LateScript(now)
  PROVE  LimiterTypeOK' /\ RedisInv' /\ FallbackInv'
<1> USE ConstTypes DEF LateScript
<1>1. now \in Nat /\ now <= clock + MaxSkew
  BY DEF LimiterTypeOK, RedisInv, ReadingsOK
<1>2. /\ bucket' \in [tokens : 0..Capacity, ts : Nat, ends : Nat]
      /\ setback' \in Nat /\ spentAt' \in Nat /\ grants' \in Nat
      /\ TokensAccounted' /\ StampsOK'
  <2>1. CASE TakeToken(now)
    BY <2>1, <1>1, TakeStep DEF RedisInv
  <2>2. CASE NoToken(now)
    BY <2>2 DEF NoToken, RedisInv, TokensAccounted, StampsOK, LimiterTypeOK
  <2> QED BY <2>1, <2>2
<1>3. LimiterTypeOK'
  BY <1>2 DEF LimiterTypeOK, fallbackVars
<1>4. ReadingsOK'
  BY DEF RedisInv, ReadingsOK
<1>5. FallbackInv'
  BY FallbackKept
<1> QED BY <1>2, <1>3, <1>4, <1>5 DEF RedisInv

\* The steps of the fallback, one by one; they leave the bucket alone.
LEMMA FallbackRedis ==
  ASSUME LimiterTypeOK, RedisInv, NEW q \in Requests,
         LoadHit(q) \/ LoadMiss(q) \/ Store(q) \/ Allow(q) \/ Refuse(q)
  PROVE  RedisInv'
<1>1. \A r \in Requests : req'[r].pc = "redis" => req'[r] = req[r]
  <2>1. req \in [Requests -> Request]
    BY DEF LimiterTypeOK
  <2>2. CASE Store(q)
    BY <2>1, <2>2 DEF Store
  <2>3. CASE LoadHit(q)
    BY <2>1, <2>3 DEF LoadHit
  <2>4. CASE LoadMiss(q)
    BY <2>1, <2>4 DEF LoadMiss
  <2>5. CASE Allow(q) \/ Refuse(q)
    BY <2>1, <2>5 DEF Allow, Refuse, Idle
  <2> QED BY <2>2, <2>3, <2>4, <2>5
<1> QED BY <1>1, RedisKept DEF LoadHit, LoadMiss, Store, Allow, Refuse, redisVars

LEMMA HomeType == \A q \in Requests : Home[q] \in Replicas
BY LimiterConstants

LEMMA SeqUpdate ==
  ASSUME NEW S, NEW s \in Seq(S), NEW i \in 1..Len(s), NEW x \in S,
         NEW t, t = [s EXCEPT ![i] = x]
  PROVE  /\ t \in Seq(S) /\ Len(t) = Len(s)
         /\ \A j \in 1..Len(s) : t[j] = IF j = i THEN x ELSE s[j]
OBVIOUS

LEMMA SeqAppend ==
  ASSUME NEW S, NEW s \in Seq(S), NEW x \in S
  PROVE  /\ Append(s, x) \in Seq(S) /\ Len(Append(s, x)) = Len(s) + 1
         /\ Append(s, x)[Len(s) + 1] = x
         /\ \A j \in 1..Len(s) : Append(s, x)[j] = s[j]
OBVIOUS

\* One limiter of a replica is updated.
LEMMA LimsUpdate ==
  ASSUME LimiterTypeOK, EntriesOK, clock' = clock,
         NEW p \in Replicas, NEW i \in 1..Len(lims[p]), NEW l \in Limiter,
         l.at <= clock, l.seen <= clock,
         lims' = [lims EXCEPT ![p] = [lims[p] EXCEPT ![i] = l]]
  PROVE  /\ lims' \in [Replicas -> Seq(Limiter)]
         /\ \A r \in Replicas : Len(lims'[r]) = Len(lims[r])
         /\ \A r \in Replicas : \A j \in 1..Len(lims'[r]) :
              lims'[r][j].at <= clock' /\ lims'[r][j].seen <= clock'
<1> DEFINE t == [lims[p] EXCEPT ![i] = l]
<1>1. lims \in [Replicas -> Seq(Limiter)]
  BY DEF LimiterTypeOK
<1>2. /\ t \in Seq(Limiter) /\ Len(t) = Len(lims[p])
      /\ \A j \in 1..Len(lims[p]) : t[j] = IF j = i THEN l ELSE lims[p][j]
  BY <1>1, SeqUpdate
<1> HIDE DEF t
<1>3. \A r \in Replicas : lims'[r] = IF r = p THEN t ELSE lims[r]
  BY <1>1 DEF t
<1>4. lims' \in [Replicas -> Seq(Limiter)]
  BY <1>1, <1>2 DEF t
<1>5. \A r \in Replicas : Len(lims'[r]) = Len(lims[r])
  BY <1>2, <1>3
<1>6. \A r \in Replicas : \A j \in 1..Len(lims[r]) :
        lims[r][j].at <= clock /\ lims[r][j].seen <= clock
  BY DEF EntriesOK
<1>7. ASSUME NEW r \in Replicas, NEW j \in 1..Len(lims'[r])
      PROVE  lims'[r][j].at <= clock' /\ lims'[r][j].seen <= clock'
  <2>0. j \in 1..Len(lims[r])
    BY <1>5
  <2>1. CASE r = p /\ j = i
    <3>1. lims'[r][j] = l
      BY <2>0, <2>1, <1>2, <1>3
    <3> QED BY <3>1
  <2>2. CASE ~(r = p /\ j = i)
    <3>1. lims'[r][j] = lims[r][j]
      BY <2>0, <2>2, <1>2, <1>3
    <3> QED BY <3>1, <2>0, <1>6
  <2> QED BY <2>1, <2>2
<1> QED BY <1>4, <1>5, <1>7

\* Nothing but the contents of limiters and one request has changed.
LEMMA CountsKept ==
  ASSUME FallbackInv, LimiterTypeOK, UNCHANGED <<entry, sweep, races, sweeps>>,
         \A p \in Replicas : Len(lims'[p]) = Len(lims[p]),
         \A q \in Requests : req'[q].pc = "store" <=> req[q].pc = "store"
  PROVE  LimitersCounted'
<1>1. \A p \in Replicas : Storing(p)' <=> Storing(p)
  BY DEF Storing
<1> QED BY <1>1 DEF FallbackInv, LimitersCounted

LEMMA LoadHitStep ==
  ASSUME LimiterTypeOK, FallbackInv, NEW q \in Requests, LoadHit(q)
  PROVE  LimiterTypeOK' /\ FallbackInv'
<1> DEFINE p == Home[q]
           l == [lims[p][entry[p]] EXCEPT !.seen = clock]
<1>1. p \in Replicas /\ entry[p] \in 1..Len(lims[p]) /\ lims[p] \in Seq(Limiter)
  <2>1. p \in Replicas
    BY HomeType
  <2>2. lims[p] \in Seq(Limiter)
    BY <2>1 DEF LimiterTypeOK
  <2>3. entry[p] \in 0..Len(lims[p])
    BY <2>1 DEF FallbackInv, EntriesOK
  <2>4. entry[p] # 0
    BY DEF LoadHit
  <2>5. Len(lims[p]) \in Nat
    BY <2>2
  <2> QED BY <2>1, <2>2, <2>3, <2>4, <2>5
<1> USE ConstTypes DEF LoadHit, redisVars
<1>2. lims[p][entry[p]] \in Limiter /\ lims[p][entry[p]].at <= clock
  BY <1>1 DEF FallbackInv, EntriesOK
<1>3. l \in Limiter /\ l.at <= clock /\ l.seen <= clock
  <2>1. clock \in Nat
    BY DEF LimiterTypeOK
  <2>2. ASSUME NEW m \in Limiter, m.at <= clock, NEW k, k = [m EXCEPT !.seen = clock]
        PROVE  k \in Limiter /\ k.at <= clock /\ k.seen <= clock
    BY <2>1, <2>2 DEF Limiter
  <2> QED BY <1>2, <2>2
<1>4. lims' = [lims EXCEPT ![p] = [lims[p] EXCEPT ![entry[p]] = l]]
  BY <1>1 DEF LimiterTypeOK
<1> HIDE DEF l
<1>5. /\ lims' \in [Replicas -> Seq(Limiter)]
      /\ \A r \in Replicas : Len(lims'[r]) = Len(lims[r])
      /\ \A r \in Replicas : \A j \in 1..Len(lims'[r]) :
           lims'[r][j].at <= clock' /\ lims'[r][j].seen <= clock'
  BY <1>1, <1>3, <1>4, LimsUpdate DEF FallbackInv
<1>6. req' \in [Requests -> Request]
  <2>1. [pc |-> "allow", lim |-> entry[p]] \in Request
    BY <1>1 DEF Request
  <2> QED BY <2>1 DEF LimiterTypeOK
<1>7. LimiterTypeOK'
  BY <1>5, <1>6 DEF LimiterTypeOK
<1>8. EntriesOK'
  <2>1. \A r \in Requests :
          req'[r].pc \in {"store", "allow"} => req'[r].lim \in 1..Len(lims'[Home[r]])
    BY <1>1, <1>5, HomeType DEF LimiterTypeOK, FallbackInv, EntriesOK
  <2>2. \A r \in Replicas : entry'[r] \in 0..Len(lims'[r])
    BY <1>5 DEF FallbackInv, EntriesOK
  <2> QED BY <2>1, <2>2, <1>5 DEF EntriesOK
<1>9. \A r \in Requests : req'[r].pc = "store" <=> req[r].pc = "store"
  BY DEF LimiterTypeOK
<1>10. LimitersCounted'
  BY <1>5, <1>9, CountsKept
<1> QED BY <1>7, <1>8, <1>10 DEF FallbackInv

LEMMA LoadMissStep ==
  ASSUME LimiterTypeOK, FallbackInv, NEW q \in Requests, LoadMiss(q)
  PROVE  LimiterTypeOK' /\ FallbackInv'
<1> DEFINE p == Home[q]
           l == [tokens |-> Capacity, at |-> clock, seen |-> clock]
           x == [pc |-> "store", lim |-> Len(lims[p]) + 1]
<1> USE ConstTypes DEF LoadMiss, redisVars
<1>1. p \in Replicas /\ entry[p] = 0 /\ lims \in [Replicas -> Seq(Limiter)] /\ clock \in Nat
  BY HomeType DEF LimiterTypeOK
<1>2. l \in Limiter /\ l.at = clock /\ l.seen = clock
  BY <1>1 DEF Limiter
<1> HIDE DEF l
<1>3. lims' = [lims EXCEPT ![p] = Append(lims[p], l)]
  BY DEF l
<1>4. \A r \in Replicas : lims'[r] = IF r = p THEN Append(lims[p], l) ELSE lims[r]
  BY <1>1, <1>3
<1>5. /\ lims' \in [Replicas -> Seq(Limiter)]
      /\ \A r \in Replicas : Len(lims'[r]) = Len(lims[r]) + (IF r = p THEN 1 ELSE 0)
  BY <1>1, <1>2, <1>3, <1>4
<1>6. \A r \in Replicas : \A j \in 1..Len(lims'[r]) :
        lims'[r][j].at <= clock' /\ lims'[r][j].seen <= clock'
  <2> SUFFICES ASSUME NEW r \in Replicas, NEW j \in 1..Len(lims'[r])
               PROVE  lims'[r][j].at <= clock /\ lims'[r][j].seen <= clock
    OBVIOUS
  <2>1. CASE r = p /\ j = Len(lims[p]) + 1
    <3>1. Append(lims[p], l)[Len(lims[p]) + 1] = l
      BY <1>1, <1>2, SeqAppend
    <3>2. lims'[r][j] = l
      BY <2>1, <3>1, <1>4
    <3> QED BY <3>2, <1>1, <1>2
  <2>2. CASE ~(r = p /\ j = Len(lims[p]) + 1)
    <3>1. j \in 1..Len(lims[r]) /\ lims'[r][j] = lims[r][j]
      BY <2>2, <1>1, <1>2, <1>4, <1>5
    <3> QED BY <3>1 DEF FallbackInv, EntriesOK
  <2> QED BY <2>1, <2>2
<1>7. x \in Request /\ x.pc = "store" /\ x.lim = Len(lims[p]) + 1 /\ req' = [req EXCEPT ![q] = x]
  BY <1>1 DEF Request
<1> HIDE DEF x
<1>8. req \in [Requests -> Request] /\ races \in [Replicas -> Nat] /\ sweeps \in [Replicas -> Nat]
  BY DEF LimiterTypeOK
<1>9. races' \in [Replicas -> Nat]
  <2>1. races[p] + 1 \in Nat
    BY <1>1, <1>8
  <2>2. [races EXCEPT ![p] = @ + 1] \in [Replicas -> Nat]
    BY <2>1, <1>8
  <2> QED BY <2>2, <1>8
<1>a. req' \in [Requests -> Request]
  BY <1>7, <1>8
<1>10. LimiterTypeOK'
  BY <1>5, <1>9, <1>a DEF LimiterTypeOK
<1>11. EntriesOK'
  <2>1. ASSUME NEW r \in Requests, req'[r].pc \in {"store", "allow"}
        PROVE  req'[r].lim \in 1..Len(lims'[Home[r]])
    <3>1. CASE r = q
      BY <3>1, <1>1, <1>5, <1>7, <1>8
    <3>2. CASE r # q
      <4>1. req[r].lim \in 1..Len(lims[Home[r]]) /\ req'[r] = req[r]
        BY <2>1, <3>2, <1>7, <1>8 DEF FallbackInv, EntriesOK
      <4>2. Len(lims'[Home[r]]) >= Len(lims[Home[r]]) /\ Len(lims'[Home[r]]) \in Nat
            /\ Len(lims[Home[r]]) \in Nat
        BY <1>1, <1>5, HomeType
      <4> QED BY <4>1, <4>2
    <3> QED BY <3>1, <3>2
  <2>2. \A r \in Replicas : entry'[r] \in 0..Len(lims'[r])
    BY <1>1, <1>5 DEF FallbackInv, EntriesOK
  <2> QED BY <2>1, <2>2, <1>6 DEF EntriesOK
<1>12. LimitersCounted'
  <2> SUFFICES ASSUME NEW r \in Replicas
               PROVE  /\ Len(lims'[r]) <= races'[r] + sweeps'[r]
                           + (IF entry'[r] # 0 \/ Storing(r)' THEN 1 ELSE 0)
                      /\ sweep'[r] => entry'[r] # 0
    BY DEF LimitersCounted
  <2>0. /\ Len(lims[r]) <= races[r] + sweeps[r] + (IF entry[r] # 0 \/ Storing(r) THEN 1 ELSE 0)
        /\ sweep[r] => entry[r] # 0
        /\ Len(lims[r]) \in Nat /\ races[r] \in Nat /\ sweeps[r] \in Nat
    BY <1>1, <1>8 DEF FallbackInv, LimitersCounted
  <2>1. CASE r # p
    <3>1. Storing(r)' <=> Storing(r)
      BY <2>1, <1>7, <1>8 DEF Storing
    <3>2. races'[r] = races[r] /\ Len(lims'[r]) = Len(lims[r])
      BY <2>1, <1>5, <1>8, <2>0
    <3> QED BY <3>1, <3>2, <2>0
  <2>2. CASE r = p
    <3>1. Storing(r)'
      BY <2>2, <1>7, <1>8 DEF Storing
    <3>2. Len(lims'[r]) = Len(lims[r]) + 1
      BY <2>2, <1>5
    <3>3. CASE Storing(p)
      <4>1. races'[r] = races[r] + 1
        BY <2>2, <3>3, <1>8
      <4> QED BY <2>0, <2>2, <3>1, <3>2, <3>3, <4>1
    <3>4. CASE ~Storing(p)
      <4>1. races'[r] = races[r]
        BY <3>4
      <4> QED BY <2>0, <2>2, <3>1, <3>2, <3>4, <4>1, <1>1
    <3> QED BY <3>3, <3>4
  <2> QED BY <2>1, <2>2
<1> QED BY <1>10, <1>11, <1>12 DEF FallbackInv

LEMMA StoreStep ==
  ASSUME LimiterTypeOK, FallbackInv, NEW q \in Requests, Store(q)
  PROVE  LimiterTypeOK' /\ FallbackInv'
<1> USE DEF Store, redisVars
<1>1. Home[q] \in Replicas /\ req[q].lim \in 1..Len(lims[Home[q]])
      /\ lims[Home[q]] \in Seq(Limiter)
  BY HomeType DEF FallbackInv, EntriesOK, LimiterTypeOK
<1>2. req \in [Requests -> Request] /\ entry \in [Replicas -> Nat]
  BY DEF LimiterTypeOK
<1>3. req[q].lim \in Nat \ {0}
  BY <1>1
<1>4. [req[q] EXCEPT !.pc = "allow"] \in Request
  <2>1. req[q] \in Request
    BY <1>2
  <2> QED BY <2>1 DEF Request, Idle
<1>5. req' \in [Requests -> Request] /\ entry' \in [Replicas -> Nat]
  BY <1>2, <1>3, <1>4
<1>6. LimiterTypeOK'
  BY <1>5 DEF LimiterTypeOK
<1>7. \A r \in Requests : \/ req'[r] = req[r]
                          \/ r = q /\ req'[r].pc = "allow" /\ req'[r].lim = req[r].lim
  <2>1. req[q] \in Request
    BY <1>2
  <2>2. req'[q] = [req[q] EXCEPT !.pc = "allow"]
    BY <1>2
  <2>3. req'[q].pc = "allow" /\ req'[q].lim = req[q].lim
    BY <2>1, <2>2 DEF Request, Idle
  <2> QED BY <1>2, <2>3
<1>8. EntriesOK'
  <2>1. \A r \in Requests :
          req'[r].pc \in {"store", "allow"} => req'[r].lim \in 1..Len(lims'[Home[r]])
    BY <1>1, <1>7 DEF FallbackInv, EntriesOK
  <2>2. \A r \in Replicas : entry'[r] \in 0..Len(lims'[r])
    BY <1>1, <1>2 DEF FallbackInv, EntriesOK
  <2> QED BY <2>1, <2>2 DEF FallbackInv, EntriesOK
<1>9. LimitersCounted'
  <2> SUFFICES ASSUME NEW r \in Replicas
               PROVE  /\ Len(lims'[r]) <= races'[r] + sweeps'[r]
                           + (IF entry'[r] # 0 \/ Storing(r)' THEN 1 ELSE 0)
                      /\ sweep'[r] => entry'[r] # 0
    BY DEF LimitersCounted
  <2>0. /\ Len(lims[r]) <= races[r] + sweeps[r] + (IF entry[r] # 0 \/ Storing(r) THEN 1 ELSE 0)
        /\ sweep[r] => entry[r] # 0
        /\ Len(lims[r]) \in Nat /\ races[r] \in Nat /\ sweeps[r] \in Nat
    BY DEF FallbackInv, LimitersCounted, LimiterTypeOK
  <2>1. CASE r # Home[q]
    <3>1. Storing(r)' <=> Storing(r)
      BY <2>1, <1>7 DEF Storing
    <3>2. entry'[r] = entry[r]
      BY <2>1, <1>2
    <3> QED BY <2>0, <3>1, <3>2
  <2>2. CASE r = Home[q]
    <3>1. entry'[r] # 0
      BY <2>2, <1>1, <1>2
    <3> QED BY <2>0, <3>1
  <2> QED BY <2>1, <2>2
<1> QED BY <1>6, <1>8, <1>9 DEF FallbackInv

LEMMA LimiterUsed ==
  ASSUME NEW m \in Limiter, m.at <= clock, m.seen <= clock, clock \in Nat,
         LocalTokens(m) >= Second,
         NEW l, l = [m EXCEPT !.tokens = LocalTokens(m) - Second, !.at = clock]
  PROVE  l \in Limiter /\ l.at <= clock /\ l.seen <= clock
<1>1. m.at \in Nat /\ m.tokens \in Nat /\ m.seen \in Nat
  BY DEF Limiter
<1>2. clock - m.at \in Nat
  BY <1>1
<1>3. Rate * (clock - m.at) \in Nat
  <2>1. ASSUME NEW a \in Nat PROVE Rate * a \in Nat
    BY RateType
  <2> QED BY <1>2, <2>1
<1> DEFINE x == Rate * (clock - m.at)
<1>4. LocalTokens(m) = Least(Capacity, m.tokens + x)
  BY DEF LocalTokens
<1> HIDE DEF x
<1>5. x \in Nat
  BY <1>3 DEF x
<1>6. LocalTokens(m) \in Nat
  BY <1>1, <1>4, <1>5, ConstTypes DEF Least
<1>7. LocalTokens(m) - Second \in Nat
  BY <1>6, ConstTypes
<1> DEFINE t == LocalTokens(m) - Second
<1>8. t \in Nat /\ l = [m EXCEPT !.tokens = t, !.at = clock]
  BY <1>7
<1> HIDE DEF t
<1>9. l = [tokens |-> t, at |-> clock, seen |-> m.seen]
  BY <1>8 DEF Limiter
<1>10. l.at = clock /\ l.seen = m.seen
  BY <1>9
<1> QED BY <1>1, <1>8, <1>9, <1>10 DEF Limiter

LEMMA AllowStep ==
  ASSUME LimiterTypeOK, FallbackInv, NEW q \in Requests, Allow(q)
  PROVE  LimiterTypeOK' /\ FallbackInv'
<1> DEFINE p == Home[q]
           i == req[q].lim
           m == lims[p][i]
           l == [m EXCEPT !.tokens = LocalTokens(m) - Second, !.at = clock]
<1>0. /\ req[q].pc = "allow" /\ LocalTokens(m) >= Second
      /\ req' = [req EXCEPT ![q] = Idle]
      /\ served' = [served EXCEPT ![p] = @ + 1]
      /\ UNCHANGED <<clock, redisVars, entry, sweep, races, sweeps, faults>>
  BY DEF Allow
<1>1. p \in Replicas /\ i \in 1..Len(lims[p]) /\ lims[p] \in Seq(Limiter) /\ clock \in Nat
  BY <1>0, HomeType DEF LimiterTypeOK, FallbackInv, EntriesOK
<1>2. m \in Limiter /\ m.at <= clock /\ m.seen <= clock
  BY <1>1 DEF FallbackInv, EntriesOK
<1>4. l \in Limiter /\ l.at <= clock /\ l.seen <= clock
  BY <1>0, <1>1, <1>2, LimiterUsed
<1>5. lims' = [lims EXCEPT ![p] = [lims[p] EXCEPT ![i] = l]]
  <2>1. lims \in [Replicas -> Seq(Limiter)]
    BY DEF LimiterTypeOK
  <2> QED BY <2>1, <1>1, <1>2 DEF Allow, Limiter
<1> HIDE DEF l, m
<1>6. /\ lims' \in [Replicas -> Seq(Limiter)]
      /\ \A r \in Replicas : Len(lims'[r]) = Len(lims[r])
      /\ \A r \in Replicas : \A j \in 1..Len(lims'[r]) :
           lims'[r][j].at <= clock' /\ lims'[r][j].seen <= clock'
  BY <1>0, <1>1, <1>4, <1>5, LimsUpdate DEF FallbackInv
<1>7. req \in [Requests -> Request] /\ Idle \in Request /\ served \in [Replicas -> Nat]
  BY DEF LimiterTypeOK, Request
<1>8. req' \in [Requests -> Request]
  BY <1>0, <1>7
<1>s. served' \in [Replicas -> Nat]
  <2>1. served[p] + 1 \in Nat
    BY <1>1, <1>7
  <2> QED BY <1>0, <1>7, <2>1
<1>9. LimiterTypeOK'
  BY <1>0, <1>6, <1>8, <1>s DEF LimiterTypeOK, redisVars
<1>10. \A r \in Requests : req'[r] = req[r] \/ (r = q /\ req'[r].pc = "idle" /\ req[r].pc = "allow")
  BY <1>0, <1>7 DEF Idle
<1>11. EntriesOK'
  BY <1>0, <1>6, <1>10, HomeType DEF FallbackInv, EntriesOK
<1>12. LimitersCounted'
  <2>1. \A r \in Requests : req'[r].pc = "store" <=> req[r].pc = "store"
    BY <1>10
  <2> QED BY <1>0, <1>6, <2>1, CountsKept
<1> QED BY <1>9, <1>11, <1>12 DEF FallbackInv

LEMMA RefuseStep ==
  ASSUME LimiterTypeOK, FallbackInv, NEW q \in Requests, Refuse(q)
  PROVE  LimiterTypeOK' /\ FallbackInv'
<1> USE DEF Refuse, redisVars, fallbackVars
<1>1. req \in [Requests -> Request] /\ Idle \in Request
  BY DEF LimiterTypeOK, Request
<1>2. LimiterTypeOK'
  BY <1>1 DEF LimiterTypeOK
<1>3. \A r \in Requests : req'[r] = req[r] \/ (r = q /\ req'[r].pc = "idle" /\ req[r].pc = "allow")
  BY <1>1 DEF Idle
<1>4. EntriesOK'
  BY <1>3 DEF FallbackInv, EntriesOK
<1>5. LimitersCounted'
  <2>1. \A r \in Requests : req'[r].pc = "store" <=> req[r].pc = "store"
    BY <1>3
  <2> QED BY <2>1, CountsKept
<1> QED BY <1>2, <1>4, <1>5 DEF FallbackInv

LEMMA SweepStep ==
  ASSUME LimiterTypeOK, RedisInv, FallbackInv, NEW p \in Replicas,
         SweepCheck(p) \/ SweepDelete(p)
  PROVE  LimiterTypeOK' /\ RedisInv' /\ FallbackInv'
<1>1. RedisInv'
  BY RedisKept DEF SweepCheck, SweepDelete, redisVars
<1>2. \A r \in Replicas : Storing(r)' <=> Storing(r)
  BY DEF SweepCheck, SweepDelete, Storing
<1>3. CASE SweepCheck(p)
  <2> USE <1>3 DEF SweepCheck, redisVars
  <2>1. LimiterTypeOK'
    BY DEF LimiterTypeOK
  <2>2. EntriesOK'
    BY DEF FallbackInv, EntriesOK
  <2>3. LimitersCounted'
    BY <1>2 DEF FallbackInv, LimitersCounted, LimiterTypeOK
  <2> QED BY <1>1, <2>1, <2>2, <2>3 DEF FallbackInv
<1>4. CASE SweepDelete(p)
  <2> USE <1>4 DEF SweepDelete, redisVars
  <2>1. LimiterTypeOK'
    BY DEF LimiterTypeOK
  <2>2. EntriesOK'
    <3>1. \A r \in Replicas : entry'[r] = IF r = p THEN 0 ELSE entry[r]
      BY DEF LimiterTypeOK
    <3>2. \A r \in Replicas : Len(lims[r]) \in Nat
      BY DEF LimiterTypeOK
    <3>3. \A r \in Replicas : entry'[r] \in 0..Len(lims'[r])
      BY <3>1, <3>2 DEF FallbackInv, EntriesOK
    <3> QED BY <3>3 DEF FallbackInv, EntriesOK
  <2>3. LimitersCounted'
    <3> SUFFICES ASSUME NEW r \in Replicas
                 PROVE  /\ Len(lims'[r]) <= races'[r] + sweeps'[r]
                             + (IF entry'[r] # 0 \/ Storing(r)' THEN 1 ELSE 0)
                        /\ sweep'[r] => entry'[r] # 0
      BY DEF LimitersCounted
    <3>0. /\ Len(lims[r]) <= races[r] + sweeps[r] + (IF entry[r] # 0 \/ Storing(r) THEN 1 ELSE 0)
          /\ sweep[r] => entry[r] # 0
          /\ Len(lims[r]) \in Nat /\ races[r] \in Nat /\ sweeps[r] \in Nat
      BY DEF FallbackInv, LimitersCounted, LimiterTypeOK
    <3>1. CASE r # p
      <4>1. entry'[r] = entry[r] /\ sweep'[r] = sweep[r] /\ sweeps'[r] = sweeps[r]
        BY <3>1 DEF LimiterTypeOK
      <4> QED BY <3>0, <4>1, <1>2
    <3>2. CASE r = p
      <4>1. ~sweep'[r] /\ sweeps'[r] = sweeps[r] + 1
        BY <3>2 DEF LimiterTypeOK
      <4> QED BY <3>0, <4>1
    <3> QED BY <3>1, <3>2
  <2> QED BY <1>1, <2>1, <2>2, <2>3 DEF FallbackInv
<1> QED BY <1>3, <1>4

LEMMA NextInv == LimiterInv /\ [LimiterNext]_limiterVars => LimiterInv'
<1> SUFFICES ASSUME LimiterTypeOK, RedisInv, FallbackInv, [LimiterNext]_limiterVars
             PROVE  LimiterTypeOK' /\ RedisInv' /\ FallbackInv'
  BY DEF LimiterInv, RedisInv, FallbackInv
<1>1. CASE Tick
  <2>1. LimiterTypeOK'
    BY <1>1 DEF Tick, redisVars, fallbackVars, LimiterTypeOK
  <2>2. RedisInv'
    BY <1>1, RedisKept DEF Tick, redisVars
  <2>3. FallbackInv'
    BY <1>1, FallbackKept DEF Tick, fallbackVars
  <2> QED BY <2>1, <2>2, <2>3
<1>2. ASSUME NEW q \in Requests, RequestStep(q)
      PROVE  LimiterTypeOK' /\ RedisInv' /\ FallbackInv'
  <2>1. CASE Arrive(q) \/ Allowed(q) \/ Denied(q) \/ AnswerLost(q) \/ RedisFails(q)
    BY <2>1, RedisSteps
  <2>2. CASE LoadHit(q)
    BY <2>2, FallbackRedis, LoadHitStep
  <2>3. CASE LoadMiss(q)
    BY <2>3, FallbackRedis, LoadMissStep
  <2>4. CASE Store(q)
    BY <2>4, FallbackRedis, StoreStep
  <2>5. CASE Allow(q)
    BY <2>5, FallbackRedis, AllowStep
  <2>6. CASE Refuse(q)
    BY <2>6, FallbackRedis, RefuseStep
  <2> QED BY <1>2, <2>1, <2>2, <2>3, <2>4, <2>5, <2>6 DEF RequestStep
<1>3. CASE \E now \in late : LateScript(now)
  BY <1>3, LateStep
<1>4. CASE \E p \in Replicas : SweepCheck(p) \/ SweepDelete(p)
  BY <1>4, SweepStep
<1>5. CASE UNCHANGED limiterVars
  <2> USE <1>5 DEF limiterVars, redisVars, fallbackVars
  <2>1. LimiterTypeOK'
    BY DEF LimiterTypeOK
  <2>2. RedisInv'
    BY RedisKept
  <2>3. FallbackInv'
    BY FallbackKept
  <2> QED BY <2>1, <2>2, <2>3
<1> QED BY <1>1, <1>2, <1>3, <1>4, <1>5 DEF LimiterNext

-----------------------------------------------------------------------------
(* The inductive invariant holds for every limit, skew and delay, for any  *)
(* requests and replicas, and with it the accounting of the tokens and of  *)
(* the limiters that getLocalLimiter makes.                                *)
THEOREM LimiterInvariant == LimiterSpec => []LimiterInv
BY InitInv, NextInv, PTL DEF LimiterSpec

LEMMA LimitFromInv == LimiterInv => LimitHolds
<1> SUFFICES ASSUME LimiterInv PROVE LimitHolds
  OBVIOUS
<1>1. bucket.ts \in Nat /\ bucket.tokens \in Nat /\ clock \in Nat /\ setback \in Nat
      /\ grants \in Nat /\ spentAt \in Nat
  BY ConstTypes DEF LimiterInv, LimiterTypeOK
<1>2. bucket.ts + setback <= clock + MaxSkew + setback
  BY <1>1, ConstTypes DEF LimiterInv, StampsOK
<1>3. Rate * (bucket.ts + setback) <= Rate * (clock + MaxSkew + setback)
  BY <1>1, <1>2, RateMono, ConstTypes
<1> DEFINE x == Rate * (bucket.ts + setback)
           y == Rate * (clock + MaxSkew + setback)
           g == Second * grants
<1>4. x \in Int /\ y \in Int /\ g \in Int
  BY <1>1, RateType, ConstTypes
<1>5. g + bucket.tokens <= Capacity + x
  BY DEF LimiterInv, TokensAccounted
<1> HIDE DEF x, y, g
<1>6. x <= y
  BY <1>3 DEF x, y
<1>7. g <= Capacity + y
  BY <1>1, <1>4, <1>5, <1>6, ConstTypes
<1> QED BY <1>7 DEF LimitHolds, g, y

(* Whatever the interleaving, the delays and the clocks: Redis lets no     *)
(* more requests through than the burst and the rate, over the time that   *)
(* passed and the time by which readings came too late.                    *)
THEOREM LimitHoldsAlways == LimiterSpec => []LimitHolds
BY LimiterInvariant, LimitFromInv, PTL

LEMMA QuietFromInv == LimiterInv => QuietAllows
<1> SUFFICES ASSUME LimiterInv, clock >= spentAt + Second + MaxSkew, NEW now \in Readings
             PROVE  Filled(now) = Capacity
  BY DEF QuietAllows
<1>1. bucket.ts \in Nat /\ bucket.tokens \in Nat /\ clock \in Nat /\ spentAt \in Nat
  BY ConstTypes DEF LimiterInv, LimiterTypeOK
<1>2. now \in Nat /\ now >= clock
  BY <1>1, ConstTypes DEF Readings
<1>3. Second <= Greatest(0, now - bucket.ts) /\ Greatest(0, now - bucket.ts) \in Int
  BY <1>1, <1>2, ConstTypes DEF Greatest, LimiterInv, StampsOK
<1>4. Capacity <= Rate * Greatest(0, now - bucket.ts)
  BY <1>3, RateMono, ConstTypes DEF Capacity
<1>5. Rate * Greatest(0, now - bucket.ts) \in Int
  BY <1>3, RateType
<1> QED BY <1>1, <1>4, <1>5, ConstTypes DEF Filled, Least

(* A client that was quiet for a second and the clocks' difference has its *)
(* whole burst, whatever was refused or lost in between.                   *)
THEOREM QuietAllowsAlways == LimiterSpec => []QuietAllows
BY LimiterInvariant, QuietFromInv, PTL

-----------------------------------------------------------------------------
(* The fallback.                                                           *)

\* What a limiter has had to give by the time t.
Earned(t) == Capacity + Rate * t

\* f[i] is what the first i limiters of s have let through, n requests in all,
\* and none of them has let through more than it had to give.
IsLedger(f, s, n) ==
  /\ f \in [0..Len(s) -> Nat]
  /\ f[0] = 0
  /\ f[Len(s)] = Second * n
  /\ \A i \in 1..Len(s) : /\ f[i - 1] <= f[i]
                          /\ (f[i] - f[i - 1]) + s[i].tokens <= Earned(s[i].at)

Ledgers == \A p \in Replicas : \E f \in [0..Len(lims[p]) -> Nat] : IsLedger(f, lims[p], served[p])

LEMMA EarnedType == \A t \in Nat : Earned(t) \in Nat
<1>1. \A t \in Nat : Rate * t \in Nat
  BY RateType
<1> QED BY <1>1, ConstTypes DEF Earned

LEMMA EarnedMono ==
  ASSUME NEW a \in Nat, NEW b \in Nat, a <= b
  PROVE  Earned(a) <= Earned(b)
<1>1. Rate * a <= Rate * b
  BY RateMono
<1>2. Rate * a \in Int /\ Rate * b \in Int
  BY RateType
<1> QED BY <1>1, <1>2, ConstTypes DEF Earned

\* A limiter that is used gains no more than the time since its last use.
LEMMA EarnedLater ==
  ASSUME NEW m \in Limiter, m.at <= clock, clock \in Nat
  PROVE  LocalTokens(m) \in Nat /\ LocalTokens(m) + Earned(m.at) <= m.tokens + Earned(clock)
<1>1. m.at \in Nat /\ m.tokens \in Nat /\ clock - m.at \in Nat
  BY DEF Limiter
<1> DEFINE x == Rate * (clock - m.at)
           y == Rate * m.at
           z == Rate * clock
<1>2. z = y + x
  <2>1. Rate * (m.at + (clock - m.at)) = y + x
    BY <1>1, RateAdd
  <2>2. m.at + (clock - m.at) = clock
    BY <1>1
  <2> QED BY <2>1, <2>2
<1>3. x \in Nat /\ y \in Nat /\ z \in Nat
  <2>1. ASSUME NEW a \in Nat PROVE Rate * a \in Nat
    BY RateType
  <2> QED BY <1>1, <2>1
<1>4. /\ LocalTokens(m) = Least(Capacity, m.tokens + x)
      /\ Earned(m.at) = Capacity + y /\ Earned(clock) = Capacity + z
  BY DEF LocalTokens, Earned
<1> HIDE DEF x, y, z
<1> QED BY <1>1, <1>2, <1>3, <1>4, ConstTypes DEF Least

\* No limiter is used: the ledger stays.
LEMMA LedgerKept ==
  ASSUME NEW s \in Seq(Limiter), NEW t \in Seq(Limiter), NEW n \in Nat, NEW f,
         IsLedger(f, s, n), Len(t) = Len(s),
         \A i \in 1..Len(s) : t[i].tokens = s[i].tokens /\ t[i].at = s[i].at
  PROVE  IsLedger(f, t, n)
BY DEF IsLedger

\* A new limiter has let nothing through.
LEMMA LedgerNew ==
  ASSUME NEW s \in Seq(Limiter), NEW n \in Nat, NEW f, IsLedger(f, s, n),
         NEW l \in Limiter, l.tokens = Capacity
  PROVE  \E g \in [0..Len(Append(s, l)) -> Nat] : IsLedger(g, Append(s, l), n)
<1> DEFINE t == Append(s, l)
           g == [i \in 0..Len(t) |-> IF i <= Len(s) THEN f[i] ELSE f[Len(s)]]
<1>1. t \in Seq(Limiter) /\ Len(t) = Len(s) + 1 /\ t[Len(s) + 1] = l /\ Len(s) \in Nat
      /\ \A i \in 1..Len(s) : t[i] = s[i]
  BY SeqAppend
<1>2. f \in [0..Len(s) -> Nat]
  BY DEF IsLedger
<1>3. g \in [0..Len(t) -> Nat]
  BY <1>1, <1>2
<1>4. g[0] = 0 /\ g[Len(t)] = Second * n
  BY <1>1, <1>2 DEF IsLedger
<1>5. ASSUME NEW i \in 1..Len(t)
      PROVE  g[i - 1] <= g[i] /\ (g[i] - g[i - 1]) + t[i].tokens <= Earned(t[i].at)
  <2>1. CASE i \in 1..Len(s)
    <3>1. g[i - 1] = f[i - 1] /\ g[i] = f[i] /\ t[i] = s[i]
      BY <2>1, <1>1
    <3> QED BY <2>1, <3>1 DEF IsLedger
  <2>2. CASE i = Len(s) + 1
    <3>1. g[i - 1] = f[Len(s)] /\ g[i] = f[Len(s)] /\ t[i] = l /\ f[Len(s)] \in Nat
      <4>1. i - 1 = Len(s) /\ i - 1 \in 0..Len(t) /\ i \in 0..Len(t) /\ ~(i <= Len(s))
        BY <2>2, <1>1
      <4>2. g[i - 1] = f[Len(s)] /\ g[i] = f[Len(s)]
        BY <4>1
      <4> QED BY <2>2, <4>2, <1>1, <1>2
    <3>2. l.at \in Nat /\ Rate * l.at \in Nat
      <4>1. ASSUME NEW a \in Nat PROVE Rate * a \in Nat
        BY RateType
      <4> QED BY <4>1 DEF Limiter
    <3> HIDE DEF g, t
    <3>3. g[i - 1] <= g[i] /\ g[i] - g[i - 1] = 0 /\ t[i].tokens = Capacity
      BY <3>1
    <3>4. Capacity <= Earned(l.at)
      BY <3>2, ConstTypes DEF Earned
    <3> QED BY <3>1, <3>3, <3>4, ConstTypes
  <2> QED BY <1>1, <2>1, <2>2
<1>6. IsLedger(g, t, n)
  BY <1>3, <1>4, <1>5 DEF IsLedger
<1> QED BY <1>3, <1>6

LEMMA UseArith ==
  ASSUME NEW a \in Nat, NEW b \in Nat, NEW u \in Nat, NEW v \in Nat, NEW x \in Nat, NEW y \in Nat,
         NEW z \in Nat, (b + z) + u <= a + v, x <= y, (y - x) + a <= u
  PROVE  x <= y + z /\ ((y + z) - x) + b <= v
OBVIOUS

\* Limiter k lets a request through: it and all totals behind it grow.
LEMMA LedgerUse ==
  ASSUME NEW s \in Seq(Limiter), NEW t \in Seq(Limiter), NEW n \in Nat, NEW f,
         IsLedger(f, s, n), NEW k \in 1..Len(s), Len(t) = Len(s),
         \A i \in 1..Len(s) : i # k => t[i] = s[i],
         (t[k].tokens + Second) + Earned(s[k].at) <= s[k].tokens + Earned(t[k].at)
  PROVE  \E g \in [0..Len(t) -> Nat] : IsLedger(g, t, n + 1)
<1> DEFINE g == [i \in 0..Len(t) |-> IF i < k THEN f[i] ELSE f[i] + Second]
<1>1. f \in [0..Len(s) -> Nat] /\ Len(s) \in Nat /\ Second \in Nat
  BY ConstTypes DEF IsLedger
<1>2. g \in [0..Len(t) -> Nat]
  BY <1>1
<1>3. g[0] = 0 /\ g[Len(t)] = f[Len(s)] + Second
  BY <1>1 DEF IsLedger
<1>4. g[Len(t)] = Second * (n + 1)
  <2>1. Second * (n + 1) = Second * n + Second
    BY ConstTypes
  <2> QED BY <1>3, <2>1 DEF IsLedger
<1>5. ASSUME NEW i \in 1..Len(t)
      PROVE  g[i - 1] <= g[i] /\ (g[i] - g[i - 1]) + t[i].tokens <= Earned(t[i].at)
  <2>1. /\ f[i - 1] \in Nat /\ f[i] \in Nat /\ f[i - 1] <= f[i]
        /\ (f[i] - f[i - 1]) + s[i].tokens <= Earned(s[i].at)
    <3>1. i \in 1..Len(s) /\ i \in 0..Len(s) /\ i - 1 \in 0..Len(s)
      BY <1>1
    <3> QED BY <1>1, <3>1 DEF IsLedger
  <2>2. /\ g[i - 1] = IF i - 1 < k THEN f[i - 1] ELSE f[i - 1] + Second
        /\ g[i] = IF i < k THEN f[i] ELSE f[i] + Second
    BY <1>1
  <2> HIDE DEF g
  <2>3. CASE i = k
    <3>1. g[i - 1] = f[i - 1] /\ g[i] = f[i] + Second
      BY <2>2, <2>3
    <3>2. /\ s[k].tokens \in Nat /\ t[k].tokens \in Nat
          /\ Earned(s[k].at) \in Nat /\ Earned(t[k].at) \in Nat
      <4>1. s[k] \in Limiter /\ t[k] \in Limiter
        BY <2>3
      <4> QED BY <4>1, EarnedType DEF Limiter
    <3> DEFINE a == s[k].tokens
               b == t[k].tokens
               u == Earned(s[k].at)
               v == Earned(t[k].at)
               x == f[i - 1]
               y == f[i]
    <3>3. /\ a \in Nat /\ b \in Nat /\ u \in Nat /\ v \in Nat /\ x \in Nat /\ y \in Nat
          /\ (b + Second) + u <= a + v /\ x <= y /\ (y - x) + a <= u
      BY <2>1, <2>3, <3>2
    <3> HIDE DEF a, b, u, v, x, y
    <3>4. x <= y + Second /\ ((y + Second) - x) + b <= v
      BY <3>3, <1>1, UseArith
    <3> QED BY <2>3, <3>1, <3>4 DEF b, v, x, y
  <2>4. CASE i # k
    <3>1. t[i] = s[i]
      BY <2>4
    <3>2. g[i] - g[i - 1] = f[i] - f[i - 1] /\ g[i - 1] <= g[i]
      BY <2>1, <2>2, <2>4, <1>1
    <3> QED BY <2>1, <3>1, <3>2
  <2> QED BY <2>3, <2>4
<1>6. IsLedger(g, t, n + 1)
  BY <1>2, <1>3, <1>4, <1>5 DEF IsLedger
<1> QED BY <1>2, <1>6

LEMMA LedgersKept ==
  ASSUME LimiterTypeOK, Ledgers, UNCHANGED <<lims, served>>
  PROVE  Ledgers'
BY DEF Ledgers

LEMMA LedgersLoadHit ==
  ASSUME LimiterInv, LimiterTypeOK', Ledgers, NEW q \in Requests, LoadHit(q)
  PROVE  Ledgers'
<1> DEFINE p == Home[q]
           i == entry[p]
<1>1. p \in Replicas /\ i \in 1..Len(lims[p]) /\ lims \in [Replicas -> Seq(Limiter)]
      /\ lims' \in [Replicas -> Seq(Limiter)] /\ served \in [Replicas -> Nat]
  <2>1. p \in Replicas /\ i # 0
    BY HomeType DEF LoadHit
  <2>2. /\ lims \in [Replicas -> Seq(Limiter)] /\ lims' \in [Replicas -> Seq(Limiter)]
        /\ served \in [Replicas -> Nat]
    BY DEF LimiterInv, LimiterTypeOK
  <2>3. i \in 0..Len(lims[p])
    BY <2>1 DEF LimiterInv, EntriesOK
  <2> QED BY <2>1, <2>2, <2>3
<1>2. lims' = [lims EXCEPT ![p] = [lims[p] EXCEPT ![i] = [lims[p][i] EXCEPT !.seen = clock]]]
      /\ served' = served
  BY <1>1 DEF LoadHit
<1>3. lims[p][i] \in Limiter
  BY <1>1
<1> HIDE DEF p, i
<1>4. ASSUME NEW r \in Replicas
      PROVE  \E f \in [0..Len(lims'[r]) -> Nat] : IsLedger(f, lims'[r], served'[r])
  <2>1. PICK f \in [0..Len(lims[r]) -> Nat] : IsLedger(f, lims[r], served[r])
    BY DEF Ledgers
  <2>2. Len(lims'[r]) = Len(lims[r])
    BY <1>1, <1>2
  <2>3. \A j \in 1..Len(lims[r]) : /\ lims'[r][j].tokens = lims[r][j].tokens
                                  /\ lims'[r][j].at = lims[r][j].at
    <3> SUFFICES ASSUME NEW j \in 1..Len(lims[r])
                 PROVE  /\ lims'[r][j].tokens = lims[r][j].tokens
                        /\ lims'[r][j].at = lims[r][j].at
      OBVIOUS
    <3>1. CASE r = p /\ j = i
      BY <3>1, <1>1, <1>2, <1>3 DEF Limiter
    <3>2. CASE ~(r = p /\ j = i)
      <4>1. lims'[r][j] = lims[r][j]
        BY <3>2, <1>1, <1>2
      <4> QED BY <4>1
    <3> QED BY <3>1, <3>2
  <2>4. IsLedger(f, lims'[r], served[r])
    BY <1>1, <2>1, <2>2, <2>3, LedgerKept
  <2> QED BY <1>2, <2>2, <2>4
<1> QED BY <1>4 DEF Ledgers

LEMMA LedgersLoadMiss ==
  ASSUME LimiterInv, Ledgers, NEW q \in Requests, LoadMiss(q)
  PROVE  Ledgers'
<1> DEFINE p == Home[q]
           l == [tokens |-> Capacity, at |-> clock, seen |-> clock]
<1>1. p \in Replicas /\ lims \in [Replicas -> Seq(Limiter)] /\ served \in [Replicas -> Nat]
  BY HomeType DEF LimiterInv, LimiterTypeOK
<1>2. l \in Limiter /\ l.tokens = Capacity
  BY ConstTypes DEF LimiterInv, LimiterTypeOK, Limiter
<1>3. lims' = [lims EXCEPT ![p] = Append(lims[p], l)] /\ served' = served
  BY DEF LoadMiss
<1> HIDE DEF p, l
<1>4. ASSUME NEW r \in Replicas
      PROVE  \E f \in [0..Len(lims'[r]) -> Nat] : IsLedger(f, lims'[r], served'[r])
  <2>1. PICK f \in [0..Len(lims[r]) -> Nat] : IsLedger(f, lims[r], served[r])
    BY DEF Ledgers
  <2>2. CASE r = p
    <3>1. lims'[r] = Append(lims[r], l) /\ lims[r] \in Seq(Limiter) /\ served[r] \in Nat
      BY <1>1, <1>3, <2>2
    <3> QED BY <1>2, <1>3, <2>1, <3>1, LedgerNew
  <2>3. CASE r # p
    <3>1. lims'[r] = lims[r]
      BY <1>1, <1>3, <2>3
    <3> QED BY <1>3, <2>1, <3>1
  <2> QED BY <2>2, <2>3
<1> QED BY <1>4 DEF Ledgers

LEMMA LedgersAllow ==
  ASSUME LimiterInv, Ledgers, NEW q \in Requests, Allow(q)
  PROVE  Ledgers'
<1> DEFINE p == Home[q]
           k == req[q].lim
           m == lims[p][k]
           l == [m EXCEPT !.tokens = LocalTokens(m) - Second, !.at = clock]
<1>0. req[q].pc = "allow" /\ LocalTokens(m) >= Second /\ served' = [served EXCEPT ![p] = @ + 1]
  BY DEF Allow
<1>1. p \in Replicas /\ k \in 1..Len(lims[p]) /\ lims \in [Replicas -> Seq(Limiter)]
      /\ served \in [Replicas -> Nat] /\ clock \in Nat
  BY <1>0, HomeType DEF LimiterInv, LimiterTypeOK, EntriesOK
<1>2. m \in Limiter /\ m.at <= clock /\ m.seen <= clock
  BY <1>1 DEF LimiterInv, EntriesOK
<1>3. l \in Limiter
  BY <1>0, <1>1, <1>2, LimiterUsed
<1>4. LocalTokens(m) \in Nat /\ LocalTokens(m) + Earned(m.at) <= m.tokens + Earned(clock)
  BY <1>1, <1>2, EarnedLater
<1>5. lims' = [lims EXCEPT ![p] = [lims[p] EXCEPT ![k] = l]]
  BY <1>1, <1>2 DEF Allow, Limiter
<1>6. l.tokens = LocalTokens(m) - Second /\ l.at = clock
  BY <1>2 DEF Limiter
<1>7. (l.tokens + Second) + Earned(m.at) <= m.tokens + Earned(l.at)
  <2>1. l.tokens + Second = LocalTokens(m)
    BY <1>4, <1>6, ConstTypes
  <2> QED BY <2>1, <1>4, <1>6
<1> HIDE DEF p, k, m, l
<1>8. ASSUME NEW r \in Replicas
      PROVE  \E f \in [0..Len(lims'[r]) -> Nat] : IsLedger(f, lims'[r], served'[r])
  <2>1. PICK f \in [0..Len(lims[r]) -> Nat] : IsLedger(f, lims[r], served[r])
    BY DEF Ledgers
  <2>2. CASE r = p
    <3> DEFINE s == lims[r]
               t == lims'[r]
    <3>1. t = [s EXCEPT ![k] = l] /\ s \in Seq(Limiter) /\ k \in 1..Len(s)
          /\ served'[r] = served[r] + 1 /\ served[r] \in Nat
      BY <1>0, <1>1, <1>5, <2>2
    <3> HIDE DEF s, t
    <3>2. /\ t \in Seq(Limiter) /\ Len(t) = Len(s)
          /\ \A j \in 1..Len(s) : t[j] = IF j = k THEN l ELSE s[j]
      BY <3>1, <1>3, SeqUpdate
    <3>3. t[k] = l /\ s[k] = m /\ IsLedger(f, s, served[r])
      BY <2>1, <2>2, <3>1, <3>2 DEF m, s
    <3>4. \E g \in [0..Len(t) -> Nat] : IsLedger(g, t, served[r] + 1)
      <4>1. (t[k].tokens + Second) + Earned(s[k].at) <= s[k].tokens + Earned(t[k].at)
        BY <3>3, <1>7
      <4>2. \A i \in 1..Len(s) : i # k => t[i] = s[i]
        BY <3>2
      <4> QED BY <3>1, <3>2, <3>3, <4>1, <4>2, LedgerUse
    <3> QED BY <3>1, <3>4 DEF t
  <2>3. CASE r # p
    <3>1. lims'[r] = lims[r] /\ served'[r] = served[r]
      BY <1>0, <1>1, <1>5, <2>3
    <3> QED BY <2>1, <3>1
  <2> QED BY <2>2, <2>3
<1> QED BY <1>8 DEF Ledgers

LEMMA LedgersInit == LimiterInit => Ledgers
<1> SUFFICES ASSUME LimiterInit, NEW p \in Replicas
             PROVE  \E f \in [0..Len(lims[p]) -> Nat] : IsLedger(f, lims[p], served[p])
  BY DEF Ledgers
<1> DEFINE f == [i \in 0..0 |-> 0]
<1>1. lims[p] = <<>> /\ served[p] = 0 /\ Second * 0 = 0
  BY ConstTypes DEF LimiterInit
<1>2. Len(lims[p]) = 0 /\ f \in [0..0 -> Nat] /\ f[0] = 0
  BY <1>1
<1>3. IsLedger(f, lims[p], served[p])
  BY <1>1, <1>2 DEF IsLedger
<1> QED BY <1>2, <1>3

LEMMA LedgersNext == LimiterInv /\ LimiterInv' /\ Ledgers /\ [LimiterNext]_limiterVars => Ledgers'
<1> SUFFICES ASSUME LimiterInv, LimiterInv', Ledgers, [LimiterNext]_limiterVars
             PROVE  Ledgers'
  OBVIOUS
<1>0. LimiterTypeOK /\ LimiterTypeOK'
  BY DEF LimiterInv
<1>1. ASSUME NEW q \in Requests, RequestStep(q) PROVE Ledgers'
  <2>1. CASE LoadHit(q)
    BY <1>0, <2>1, LedgersLoadHit
  <2>2. CASE LoadMiss(q)
    BY <2>2, LedgersLoadMiss
  <2>3. CASE Allow(q)
    BY <2>3, LedgersAllow
  <2>4. CASE ~(LoadHit(q) \/ LoadMiss(q) \/ Allow(q))
    <3>1. UNCHANGED <<lims, served>>
      BY <1>1, <2>4 DEF RequestStep, Arrive, Allowed, Denied, AnswerLost, RedisFails, Store, Refuse,
         fallbackVars
    <3> QED BY <1>0, <3>1, LedgersKept
  <2> QED BY <2>1, <2>2, <2>3, <2>4
<1>2. CASE ~\E q \in Requests : RequestStep(q)
  <2>1. UNCHANGED <<lims, served>>
    BY <1>2 DEF LimiterNext, limiterVars, Tick, LateScript, SweepCheck, SweepDelete, fallbackVars
  <2> QED BY <1>0, <2>1, LedgersKept
<1> QED BY <1>1, <1>2

LEMMA LeastNat ==
  ASSUME NEW T, T \subseteq Nat, T # {}
  PROVE  \E x \in T : \A y \in T : x <= y
<1>1. PICK x \in T : \A y \in T : ~ (<<y, x>> \in OpToRel(<, Nat))
  BY NatLessThanWellFounded, WFMin, Zenon
<1>2. \A y \in T : ~(y < x)
  BY <1>1 DEF OpToRel
<1> QED BY <1>2

\* The first i limiters have let no more through than i times what one had.
LEMMA LedgerBound ==
  ASSUME NEW s \in Seq(Limiter), NEW n \in Nat, NEW f, IsLedger(f, s, n),
         clock \in Nat, \A i \in 1..Len(s) : s[i].at <= clock
  PROVE  \A i \in 0..Len(s) : f[i] <= i * Earned(clock)
<1> DEFINE B == Earned(clock)
           T == {i \in 0..Len(s) : ~(f[i] <= i * B)}
<1>0. B \in Nat /\ f \in [0..Len(s) -> Nat] /\ f[0] = 0 /\ Len(s) \in Nat
  BY EarnedType DEF IsLedger
<1> SUFFICES ASSUME T # {} PROVE FALSE
  BY DEF T
<1>1. PICK i \in T : \A j \in T : i <= j
  <2>1. T \subseteq Nat
    BY <1>0
  <2> HIDE DEF T
  <2> QED BY <2>1, LeastNat
<1>2. i \in Nat /\ i # 0
  <2>1. 0 * B = 0
    BY <1>0
  <2> QED BY <2>1, <1>0, <1>1
<1>3. i - 1 \in 0..Len(s) /\ i \in 1..Len(s) /\ i - 1 \notin T
  <2>1. i \in 0..Len(s)
    BY <1>1 DEF T
  <2>2. i - 1 \in 0..Len(s) /\ i \in 1..Len(s) /\ ~(i <= i - 1)
    BY <2>1, <1>0, <1>2
  <2> HIDE DEF T
  <2> QED BY <2>2, <1>1
<1>4. f[i - 1] <= (i - 1) * B
  BY <1>3
<1>5. (i - 1) * B + B = i * B /\ (i - 1) * B \in Int /\ i * B \in Int
  <2> HIDE DEF B, T
  <2> QED BY <1>0, <1>2
<1>6. (f[i] - f[i - 1]) + s[i].tokens <= Earned(s[i].at) /\ f[i] \in Nat /\ f[i - 1] \in Nat
  BY <1>0, <1>3 DEF IsLedger
<1>7. s[i].tokens \in Nat /\ s[i].at \in Nat /\ Earned(s[i].at) \in Nat /\ Earned(s[i].at) <= B
  <2>1. s[i] \in Limiter /\ s[i].at <= clock
    BY <1>3
  <2>2. s[i].tokens \in Nat /\ s[i].at \in Nat
    BY <2>1 DEF Limiter
  <2> QED BY <2>1, <2>2, EarnedType, EarnedMono
<1>8. ~(f[i] <= i * B)
  BY <1>1
<1> DEFINE u == (i - 1) * B
           v == i * B
<1>9. u + B = v /\ u \in Int /\ v \in Int /\ f[i - 1] <= u /\ ~(f[i] <= v)
  BY <1>4, <1>5, <1>8
<1> DEFINE a == f[i - 1]
           b == f[i]
           e == Earned(s[i].at)
           k == s[i].tokens
<1>10. /\ a \in Nat /\ b \in Nat /\ e \in Nat /\ k \in Nat /\ B \in Nat
       /\ (b - a) + k <= e /\ e <= B /\ a <= u /\ ~(b <= v) /\ u + B = v /\ u \in Int /\ v \in Int
  BY <1>0, <1>6, <1>7, <1>9
<1> HIDE DEF u, v, B, T, a, b, e, k
<1> QED BY <1>10

LEMMA FallbackFromLedgers == LimiterInv /\ Ledgers => FallbackHolds
<1> SUFFICES ASSUME LimiterInv, Ledgers, NEW p \in Replicas
             PROVE  Second * served[p] <= (1 + races[p] + sweeps[p]) * (Capacity + Rate * clock)
  BY DEF FallbackHolds
<1> DEFINE s == lims[p]
           B == Earned(clock)
           N == 1 + races[p] + sweeps[p]
<1>1. PICK f \in [0..Len(s) -> Nat] : IsLedger(f, s, served[p])
  BY DEF Ledgers
<1>2. s \in Seq(Limiter) /\ served[p] \in Nat /\ clock \in Nat /\ B \in Nat /\ N \in Nat
  <2>1. s \in Seq(Limiter) /\ served[p] \in Nat /\ clock \in Nat
    BY DEF LimiterInv, LimiterTypeOK
  <2>2. races[p] \in Nat /\ sweeps[p] \in Nat
    BY DEF LimiterInv, LimiterTypeOK
  <2>3. B \in Nat
    BY <2>1, EarnedType
  <2>4. N \in Nat
    BY <2>2
  <2> QED BY <2>1, <2>3, <2>4
<1>3. \A i \in 1..Len(s) : s[i].at <= clock
  BY DEF LimiterInv, EntriesOK
<1>4. Len(s) <= N /\ Len(s) \in Nat
  <2>1. races[p] \in Nat /\ sweeps[p] \in Nat /\ Len(s) \in Nat
    BY <1>2 DEF LimiterInv, LimiterTypeOK
  <2>2. Len(s) <= races[p] + sweeps[p] + (IF entry[p] # 0 \/ Storing(p) THEN 1 ELSE 0)
    BY DEF LimiterInv, LimitersCounted
  <2> QED BY <2>1, <2>2
<1> HIDE DEF s
<1>5. \A i \in 0..Len(s) : f[i] <= i * Earned(clock)
  BY <1>1, <1>2, <1>3, LedgerBound
<1>6. Second * served[p] <= Len(s) * B
  BY <1>1, <1>4, <1>5 DEF IsLedger
<1>7. Len(s) * B <= N * B /\ Len(s) * B \in Int /\ N * B \in Int
  <2>1. ASSUME NEW a \in Nat, NEW b \in Nat, NEW c \in Nat, a <= b
        PROVE  a * c <= b * c /\ a * c \in Int /\ b * c \in Int
    OBVIOUS
  <2> QED BY <2>1, <1>2, <1>4
<1>8. Second * served[p] \in Int
  BY <1>2, ConstTypes
<1> DEFINE x == Second * served[p]
           y == Len(s) * B
           z == N * B
<1>9. x \in Int /\ y \in Int /\ z \in Int /\ x <= y /\ y <= z
  BY <1>6, <1>7, <1>8
<1> HIDE DEF x, y, z
<1>10. x <= z
  BY <1>9
<1> QED BY <1>10 DEF x, z, B, N, Earned

(* While Redis is away no replica lets more through than one limiter may,  *)
(* once for every race of two misses and every sweep, which are all that   *)
(* makes another limiter: no interleaving of Load, Store and Delete on the *)
(* map gives a client a burst that is not accounted for.                   *)
THEOREM FallbackHoldsAlways == LimiterSpec => []FallbackHolds
<1>1. LimiterInit => LimiterInv /\ Ledgers
  BY InitInv, LedgersInit
<1>2. (LimiterInv /\ Ledgers) /\ [LimiterNext]_limiterVars => (LimiterInv /\ Ledgers)'
  BY NextInv, LedgersNext
<1>3. LimiterInv /\ Ledgers => FallbackHolds
  BY FallbackFromLedgers
<1> QED BY <1>1, <1>2, <1>3, PTL DEF LimiterSpec
=============================================================================
