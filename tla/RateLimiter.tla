----------------------------- MODULE RateLimiter -----------------------------
(***************************************************************************)
(* internal/middleware/ratelimit.go: the token bucket of one client IP,    *)
(* kept in Redis by a Lua script that the requests of all replicas run,    *)
(* and the in-memory limiters a replica falls back to when Redis fails.    *)
(*                                                                         *)
(* Time is counted in ticks, Second of them to a second.  Tokens are       *)
(* counted in grains, Second of them to a token, so that a tick refills    *)
(* Rate grains and the script's fractions stay whole numbers.              *)
(*                                                                         *)
(* A request reads its replica's wall clock before it calls Redis.  Clocks *)
(* differ, and the call takes time, so readings reach the script stale and *)
(* in any order.  Redis is external: it runs a script atomically, expires  *)
(* keys by its own clock, and may run a script whose caller has given up.  *)
(***************************************************************************)
EXTENDS Integers, Sequences

CONSTANTS Requests,           \* request goroutines
          Replicas,
          Home,               \* Home[q]: the replica that serves q
          RequestsPerSecond,  \* the configured limit
          Second,             \* ticks per second
          MaxSkew,            \* how far a clock may be ahead of the slowest one
          SweepAge,           \* idle ticks before a sweep; 10 minutes
          MaxTime,            \* bound on the clock
          MaxGrants,          \* no request arrives once Redis granted so many
          FaultBudget         \* bound on the Redis failures of a behaviour

ASSUME LimiterConstants ==
  /\ Home \in [Requests -> Replicas]
  /\ RequestsPerSecond \in Int
  /\ Second \in Nat \ {0}
  /\ MaxSkew \in Nat
  /\ SweepAge \in Nat
  /\ MaxTime \in Nat
  /\ MaxGrants \in Nat
  /\ FaultBudget \in Nat

VARIABLES clock,     \* time by the slowest clock, which Redis has
          bucket,    \* the two keys of the IP; gone once the clock is at "ends"
          late,      \* readings of scripts that Redis may still run
          req,       \* req[q]: a request
          lims,      \* lims[p]: the limiters replica p has made, oldest first
          entry,     \* entry[p]: the one its map holds, 0 for none
          sweep,     \* sweep[p]: the cleanup is about to delete the entry
          faults,
          (* History. *)
          grants,    \* requests that Redis let through
          setback,   \* ticks by which readings came too late
          spentAt,   \* when the script last took a token
          served,    \* served[p]: requests that the fallback let through
          races,     \* races[p]: misses while another one was being stored
          sweeps     \* sweeps[p]: entries deleted

redisVars    == <<bucket, late, grants, setback, spentAt>>
fallbackVars == <<lims, entry, sweep, served, races, sweeps>>
limiterVars  == <<clock, redisVars, fallbackVars, req, faults>>

\* An invalid limit becomes 5; the burst is a second's worth of requests.
Rate     == IF RequestsPerSecond <= 0 THEN 5 ELSE RequestsPerSecond
Capacity == Rate * Second

\* A mutation of Ttl: the keys expire before the bucket has filled up.
Ttl_Short == 1

\* ceil(capacity / rate * 2) seconds.
Ttl == 2 * Second

Least(a, b)    == IF a <= b THEN a ELSE b
Greatest(a, b) == IF a >= b THEN a ELSE b

Readings == clock..(clock + MaxSkew)

Idle    == [pc |-> "idle"]
Request == {Idle}
      \cup [pc : {"redis"}, now : Nat]
      \cup [pc : {"load"}]
      \cup [pc : {"store", "allow"}, lim : Nat \ {0}]

Limiter == [tokens : Nat, at : Nat, seen : Nat]

LimiterInit ==
  /\ clock = 0
  /\ bucket = [tokens |-> Capacity, ts |-> 0, ends |-> 0]
  /\ late = {}
  /\ req = [q \in Requests |-> Idle]
  /\ lims = [p \in Replicas |-> <<>>]
  /\ entry = [p \in Replicas |-> 0]
  /\ sweep = [p \in Replicas |-> FALSE]
  /\ faults = 0
  /\ grants = 0
  /\ setback = 0
  /\ spentAt = 0
  /\ served = [p \in Replicas |-> 0]
  /\ races = [p \in Replicas |-> 0]
  /\ sweeps = [p \in Replicas |-> 0]

-----------------------------------------------------------------------------
(* The Lua script.                                                         *)

Live == clock < bucket.ends

Filled(now) ==
  IF Live THEN Least(Capacity, bucket.tokens + Rate * Greatest(0, now - bucket.ts))
          ELSE Capacity

\* By how much a reading comes too late: it is before the one the bucket was
\* filled at, so that the time between them fills the bucket again; or it is
\* so old that the full bucket the script assumes was not due then.
Behind(now) ==
  IF Live THEN Greatest(0, bucket.ts - now)
          ELSE Greatest(0, (clock + MaxSkew) - (now + Second))

\* A mutation of TakeToken: any fraction of a token is enough.
TakeToken_Overdraws(now) ==
  /\ Filled(now) > 0
  /\ bucket' = [tokens |-> Filled(now) - Second, ts |-> now, ends |-> clock + Ttl]
  /\ setback' = setback + Behind(now)
  /\ spentAt' = clock

\* The script takes a token and writes both keys, the timestamp also when it
\* is older than the one before.
TakeToken(now) ==
  /\ Filled(now) >= Second
  /\ bucket' = [tokens |-> Filled(now) - Second, ts |-> now, ends |-> clock + Ttl]
  /\ setback' = setback + Behind(now)
  /\ spentAt' = clock

\* A mutation of NoToken: the timestamp is written although nothing is taken
\* and the tokens that have come in are not.
NoToken_WritesTime(now) ==
  /\ Filled(now) < Second
  /\ bucket' = [bucket EXCEPT !.ts = now, !.ends = clock + Ttl]
  /\ UNCHANGED <<setback, spentAt>>

\* Too few tokens: nothing is written.
NoToken(now) ==
  /\ Filled(now) < Second
  /\ UNCHANGED <<bucket, setback, spentAt>>

-----------------------------------------------------------------------------
(* A request: the clock is read, then Redis is asked.                      *)

Fault ==
  /\ faults < FaultBudget
  /\ faults' = faults + 1

Arrive(q) ==
  /\ req[q] = Idle
  /\ grants < MaxGrants
  /\ \E now \in Readings : req' = [req EXCEPT ![q] = [pc |-> "redis", now |-> now]]
  /\ UNCHANGED <<clock, redisVars, fallbackVars, faults>>

Allowed(q) ==
  /\ req[q].pc = "redis"
  /\ TakeToken(req[q].now)
  /\ grants' = grants + 1
  /\ req' = [req EXCEPT ![q] = Idle]
  /\ UNCHANGED <<clock, late, fallbackVars, faults>>

\* 429 Too Many Requests.
Denied(q) ==
  /\ req[q].pc = "redis"
  /\ NoToken(req[q].now)
  /\ req' = [req EXCEPT ![q] = Idle]
  /\ UNCHANGED <<clock, late, grants, fallbackVars, faults>>

\* The script ran and its answer is lost; the Redis client tries again with
\* the same reading.
AnswerLost(q) ==
  /\ req[q].pc = "redis"
  /\ TakeToken(req[q].now)
  /\ Fault
  /\ UNCHANGED <<clock, late, grants, req, fallbackVars>>

\* Run returns an error.  Redis may still run the script.
RedisFails(q) ==
  /\ req[q].pc = "redis"
  /\ \/ UNCHANGED late
     \/ late = {} /\ late' = {req[q].now}   \* bound: one at a time
  /\ req' = [req EXCEPT ![q] = [pc |-> "load"]]
  /\ Fault
  /\ UNCHANGED <<clock, bucket, grants, setback, spentAt, fallbackVars>>

LateScript(now) ==
  /\ now \in late
  /\ TakeToken(now) \/ NoToken(now)
  /\ late' = late \ {now}
  /\ UNCHANGED <<clock, grants, req, fallbackVars, faults>>

-----------------------------------------------------------------------------
(* The fallback: getLocalLimiter's Load and Store on the map are separate  *)
(* steps, and so are the check and the Delete of the cleanup.              *)

LoadHit(q) ==
  LET p == Home[q] IN
  /\ req[q].pc = "load"
  /\ entry[p] # 0
  /\ lims' = [lims EXCEPT ![p][entry[p]].seen = clock]
  /\ req' = [req EXCEPT ![q] = [pc |-> "allow", lim |-> entry[p]]]
  /\ UNCHANGED <<clock, redisVars, entry, sweep, served, races, sweeps, faults>>

\* A request of replica p is between its miss and its Store.
Storing(p) == \E q \in Requests : Home[q] = p /\ req[q].pc = "store"

LoadMiss(q) ==
  LET p == Home[q] IN
  /\ req[q].pc = "load"
  /\ entry[p] = 0
  /\ lims' = [lims EXCEPT ![p] = Append(@, [tokens |-> Capacity, at |-> clock, seen |-> clock])]
  /\ races' = IF Storing(p) THEN [races EXCEPT ![p] = @ + 1] ELSE races
  /\ req' = [req EXCEPT ![q] = [pc |-> "store", lim |-> Len(lims[p]) + 1]]
  /\ UNCHANGED <<clock, redisVars, entry, sweep, served, sweeps, faults>>

\* A mutation of Store: the new limiter is not put into the map.
Store_Forgets(q) ==
  /\ req[q].pc = "store"
  /\ req' = [req EXCEPT ![q].pc = "allow"]
  /\ UNCHANGED <<clock, redisVars, lims, entry, sweep, served, races, sweeps, faults>>

Store(q) ==
  /\ req[q].pc = "store"
  /\ entry' = [entry EXCEPT ![Home[q]] = req[q].lim]
  /\ req' = [req EXCEPT ![q].pc = "allow"]
  /\ UNCHANGED <<clock, redisVars, lims, sweep, served, races, sweeps, faults>>

\* rate.Limiter is external: a token bucket on the process's own clock.
LocalTokens(l) == Least(Capacity, l.tokens + Rate * (clock - l.at))

Allow(q) ==
  LET p == Home[q]
      l == lims[p][req[q].lim] IN
  /\ req[q].pc = "allow"
  /\ LocalTokens(l) >= Second
  /\ lims' = [lims EXCEPT ![p][req[q].lim].tokens = LocalTokens(l) - Second,
                          ![p][req[q].lim].at = clock]
  /\ served' = [served EXCEPT ![p] = @ + 1]
  /\ req' = [req EXCEPT ![q] = Idle]
  /\ UNCHANGED <<clock, redisVars, entry, sweep, races, sweeps, faults>>

Refuse(q) ==
  /\ req[q].pc = "allow"
  /\ LocalTokens(lims[Home[q]][req[q].lim]) < Second
  /\ req' = [req EXCEPT ![q] = Idle]
  /\ UNCHANGED <<clock, redisVars, fallbackVars, faults>>

SweepCheck(p) ==
  /\ ~sweep[p]
  /\ entry[p] # 0
  /\ clock - lims[p][entry[p]].seen > SweepAge
  /\ sweep' = [sweep EXCEPT ![p] = TRUE]
  /\ UNCHANGED <<clock, redisVars, lims, entry, served, races, sweeps, req, faults>>

SweepDelete(p) ==
  /\ sweep[p]
  /\ sweep' = [sweep EXCEPT ![p] = FALSE]
  /\ entry' = [entry EXCEPT ![p] = 0]
  /\ sweeps' = [sweeps EXCEPT ![p] = @ + 1]
  /\ UNCHANGED <<clock, redisVars, lims, served, races, req, faults>>

-----------------------------------------------------------------------------
Tick ==
  /\ clock < MaxTime
  /\ clock' = clock + 1
  /\ UNCHANGED <<redisVars, fallbackVars, req, faults>>

RequestStep(q) ==
  \/ Arrive(q) \/ Allowed(q) \/ Denied(q) \/ AnswerLost(q) \/ RedisFails(q)
  \/ LoadHit(q) \/ LoadMiss(q) \/ Store(q) \/ Allow(q) \/ Refuse(q)

LimiterNext ==
  \/ Tick
  \/ \E q \in Requests : RequestStep(q)
  \/ \E now \in late : LateScript(now)
  \/ \E p \in Replicas : SweepCheck(p) \/ SweepDelete(p)

LimiterSpec == LimiterInit /\ [][LimiterNext]_limiterVars

-----------------------------------------------------------------------------
(* What the limiter guarantees.                                            *)

LimiterTypeOK ==
  /\ clock \in Nat
  /\ bucket \in [tokens : 0..Capacity, ts : Nat, ends : Nat]
  /\ late \subseteq Nat
  /\ req \in [Requests -> Request]
  /\ lims \in [Replicas -> Seq(Limiter)]
  /\ entry \in [Replicas -> Nat]
  /\ sweep \in [Replicas -> BOOLEAN]
  /\ faults \in Nat
  /\ grants \in Nat
  /\ setback \in Nat
  /\ spentAt \in Nat
  /\ served \in [Replicas -> Nat]
  /\ races \in [Replicas -> Nat]
  /\ sweeps \in [Replicas -> Nat]

\* Every token the bucket holds or has given out was there at the start or
\* has come in by the time of its timestamp.
TokensAccounted ==
  Second * grants + bucket.tokens <= Capacity + Rate * (bucket.ts + setback)

\* A timestamp is at most MaxSkew ahead, when it is written and so until the
\* keys expire: by then the bucket has long filled up.
StampsOK ==
  /\ bucket.ts <= spentAt + MaxSkew
  /\ spentAt <= clock
  /\ bucket.ends # 0 => bucket.ts + Ttl <= bucket.ends + MaxSkew
  /\ bucket.ends = 0 => grants = 0

ReadingsOK ==
  /\ \A q \in Requests : req[q].pc = "redis" => req[q].now <= clock + MaxSkew
  /\ \A now \in late : now <= clock + MaxSkew

\* The map refers to limiters that exist.
EntriesOK ==
  /\ \A p \in Replicas : entry[p] \in 0..Len(lims[p])
  /\ \A q \in Requests :
       req[q].pc \in {"store", "allow"} => req[q].lim \in 1..Len(lims[Home[q]])
  /\ \A p \in Replicas : \A i \in 1..Len(lims[p]) :
       lims[p][i].at <= clock /\ lims[p][i].seen <= clock

\* A replica makes a second limiter only in a race or after a sweep.
LimitersCounted ==
  \A p \in Replicas :
    /\ Len(lims[p]) <= races[p] + sweeps[p] + (IF entry[p] # 0 \/ Storing(p) THEN 1 ELSE 0)
    /\ sweep[p] => entry[p] # 0

LimiterInv ==
  /\ LimiterTypeOK
  /\ TokensAccounted
  /\ StampsOK
  /\ ReadingsOK
  /\ EntriesOK
  /\ LimitersCounted

(* The limit of the Redis bucket, over every interleaving of requests of   *)
(* all replicas, lost answers and late scripts: the requests let through   *)
(* never exceed the burst and the rate, over the time that has passed and  *)
(* the time that readings were late by.  Expiry and refused requests add   *)
(* nothing; while no reading comes late, the limit is exact.               *)
LimitHolds ==
  Second * grants <= Capacity + Rate * (clock + MaxSkew + setback)

(* A client that has been quiet for a second (and the clocks' difference)  *)
(* has its whole burst back, however often it was refused meanwhile and    *)
(* however old the reading was that the last script wrote.                 *)
QuietAllows ==
  clock >= spentAt + Second + MaxSkew => \A now \in Readings : Filled(now) = Capacity

(* In the fallback, too, the limit holds for each replica, up to one more  *)
(* burst and rate for every pair of requests that missed the map at the    *)
(* same time and for every sweep, which may delete an entry that has just  *)
(* been used: nothing else makes a second limiter.                         *)
FallbackHolds ==
  \A p \in Replicas :
    Second * served[p] <= (1 + races[p] + sweeps[p]) * (Capacity + Rate * clock)
=============================================================================
