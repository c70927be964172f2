----------------------- MODULE FeatureRepositoryProofs -----------------------
(***************************************************************************)
(* For any callers, keys, versions, payloads, retry limit and number of    *)
(* failures: RepoInv is an invariant of SaveFeatureIfNewer, published      *)
(* flags are never taken back, and the loop implements VersionedRegister.  *)
(***************************************************************************)
EXTENDS FeatureRepository, TLAPS

USE RepoConstants DEF RepoConstants

LEMMA FlagFields ==
  ASSUME NEW f \in Flag
  PROVE  f.key \in Keys /\ f.ver \in Versions /\ f.ver \in Nat /\ f.val \in Values
<1>1. f.key \in Keys /\ f.ver \in Versions /\ f.val \in Values
  BY DEF Flag
<1>2. f.ver \in Nat
  BY <1>1
<1> QED BY <1>1, <1>2

\* A call that is not idle is a record with all its fields.
LEMMA CallTyped ==
  ASSUME RepoTypeOK, NEW c \in Callers, call[c].pc # "idle"
  PROVE  /\ call[c] \in Call
         /\ call[c] # NoCall
BY DEF RepoTypeOK, NoCall

\* The one way etcd's state changes: a flag newer than what the key holds is
\* put under a fresh revision.  Every guard survives it, because no guard
\* has seen the fresh revision, and no version goes down.
LEMMA PutKeeps ==
  ASSUME RepoTypeOK, EntriesOK, NEW f \in Flag, kv[f.key].ver < f.ver, Put(f)
  PROVE  /\ kv' \in [Keys -> Entry]
         /\ rev' \in Nat
         /\ EntriesOK'
         /\ \A k \in Keys : kv'[k].ver >= kv[k].ver
         /\ \A k \in Keys : kv'[k] = kv[k] \/ kv'[k].ver > kv[k].ver
         /\ kv'[f.key].ver = f.ver
         /\ \A g \in Flag, s \in Nat : CasGuard(g, s) => CasGuard(g, s)'
<1> USE DEF RepoTypeOK, Flag, Entry
<1> DEFINE e == [mod |-> rev + 1, ver |-> f.ver, val |-> f.val]
<1>1. f.key \in Keys /\ f.ver \in Versions /\ f.val \in Values
  OBVIOUS
<1>2. f.ver \in Nat
  BY <1>1
<1>3. e \in Entry
  <2>1. rev + 1 \in Nat
    OBVIOUS
  <2> QED BY <1>1, <1>2, <2>1
<1>4. /\ kv' \in [Keys -> Entry]
      /\ rev' \in Nat
      /\ rev' = rev + 1
      /\ \A k \in Keys : kv'[k] = IF k = f.key THEN e ELSE kv[k]
  BY <1>1, <1>3 DEF Put
<1>5. EntriesOK'
  BY <1>4 DEF EntriesOK
<1>6. \A k \in Keys : kv'[k] = kv[k] \/ kv'[k].ver > kv[k].ver
  BY <1>4
<1>7. \A k \in Keys : kv'[k].ver >= kv[k].ver
  BY <1>4
<1>8. ASSUME NEW g \in Flag, NEW s \in Nat, CasGuard(g, s)
      PROVE  CasGuard(g, s)'
  BY <1>4, <1>8 DEF CasGuard, Matches
<1> QED BY <1>1, <1>4, <1>5, <1>6, <1>7, <1>8

LEMMA RepoInitInv == RepoInit => RepoInv
BY DEF RepoInit, RepoInv, RepoTypeOK, EntriesOK, CallsGuarded, LateGuarded,
       AckedIsStored, Entry, NoCall

\* Everything RepoInv says of a caller other than its type.
CallerOK(c) ==
  /\ call[c].pc = "txn" => CasGuard(call[c].flag, call[c].seen)
  /\ call[c].pc = "ok" => kv[call[c].flag.key].ver >= call[c].flag.ver

\* A step that leaves etcd alone changes one call: the others keep what they
\* had, so only that call has to be looked at.
LEMMA OneCall ==
  ASSUME RepoInv, UNCHANGED <<kv, rev, late>>, faults' \in Nat,
         NEW c \in Callers, NEW x \in {NoCall} \cup Call,
         call' = [call EXCEPT ![c] = x], CallerOK(c)'
  PROVE  RepoInv'
<1>1. RepoTypeOK'
  BY DEF RepoInv, RepoTypeOK
<1>2. EntriesOK' /\ LateGuarded'
  BY DEF RepoInv, EntriesOK, LateGuarded, CasGuard, Matches
<1>3. \A d \in Callers : d # c => call'[d] = call[d]
  BY DEF RepoInv, RepoTypeOK
<1>4. CallsGuarded'
  BY <1>3 DEF RepoInv, CallsGuarded, CallerOK, CasGuard, Matches
<1>5. AckedIsStored'
  BY <1>3 DEF RepoInv, AckedIsStored, CallerOK
<1> QED BY <1>1, <1>2, <1>4, <1>5 DEF RepoInv

\* A put preserves the invariant, and the call that made it may say "ok".
LEMMA PutInv ==
  ASSUME RepoInv, UNCHANGED <<late, faults>>,
         NEW f \in Flag, kv[f.key].ver < f.ver, Put(f),
         call' \in [Callers -> {NoCall} \cup Call],
         \A c \in Callers : \/ call'[c] = call[c]
                            \/ call'[c].pc = "ok" /\ call'[c].flag = f
  PROVE  RepoInv'
<1>1. RepoTypeOK /\ EntriesOK /\ CallsGuarded /\ LateGuarded /\ AckedIsStored
  BY DEF RepoInv
<1>2. /\ kv' \in [Keys -> Entry]
      /\ rev' \in Nat
      /\ EntriesOK'
      /\ \A k \in Keys : kv'[k].ver >= kv[k].ver
      /\ kv'[f.key].ver = f.ver
      /\ \A g \in Flag, s \in Nat : CasGuard(g, s) => CasGuard(g, s)'
  BY <1>1, PutKeeps
<1>3. RepoTypeOK'
  BY <1>1, <1>2 DEF RepoTypeOK
<1>4. LateGuarded'
  BY <1>1, <1>2 DEF LateGuarded, RepoTypeOK, Txn
<1>5. CallsGuarded'
  <2> SUFFICES ASSUME NEW c \in Callers, call'[c].pc = "txn"
               PROVE  CasGuard(call[c].flag, call[c].seen)'
    BY DEF CallsGuarded
  <2>1. call'[c] = call[c]
    OBVIOUS
  <2>2. call[c] \in Call /\ CasGuard(call[c].flag, call[c].seen)
    BY <1>1, <2>1, CallTyped DEF CallsGuarded
  <2>3. call[c].flag \in Flag /\ call[c].seen \in Nat
    BY <2>2 DEF Call
  <2> QED BY <1>2, <2>1, <2>2, <2>3 DEF CasGuard, Matches
<1>6. AckedIsStored'
  <2> SUFFICES ASSUME NEW c \in Callers, call'[c].pc = "ok"
               PROVE  kv'[call'[c].flag.key].ver >= call'[c].flag.ver
    BY DEF AckedIsStored
  <2>1. CASE call'[c] = call[c]
    <3>1. call[c] \in Call /\ kv[call[c].flag.key].ver >= call[c].flag.ver
      BY <1>1, <2>1, CallTyped DEF AckedIsStored
    <3>2. call[c].flag.key \in Keys /\ call[c].flag.ver \in Nat
      BY <3>1 DEF Call, Flag
    <3>3. kv[call[c].flag.key].ver \in Nat /\ kv'[call[c].flag.key].ver \in Nat
      BY <1>1, <1>2, <3>2 DEF RepoTypeOK, Entry
    <3> QED BY <1>2, <2>1, <3>1, <3>2, <3>3
  <2>2. CASE call'[c].flag = f
    <3>1. f.ver \in Nat
      BY DEF Flag
    <3> QED BY <1>2, <2>2, <3>1
  <2> QED BY <2>1, <2>2
<1> QED BY <1>2, <1>3, <1>4, <1>5, <1>6 DEF RepoInv

\* Moving a call on is writing the call.
LEMMA CallMoves ==
  ASSUME RepoTypeOK, NEW c \in Callers, call[c].pc # "idle",
         NEW p \in {"get", "txn", "ok", "err"}
  PROVE  LET x == [call[c] EXCEPT !.pc = p]
         IN  x \in Call /\ x.pc = p /\ x.flag = call[c].flag
<1>1. call[c] \in Call
  BY CallTyped
<1> QED BY <1>1 DEF Call

LEMMA RepoStepInv ==
  ASSUME RepoInv, [RepoNext]_repoVars
  PROVE  RepoInv'
<1>1. RepoTypeOK /\ EntriesOK /\ CallsGuarded /\ LateGuarded /\ AckedIsStored
  BY DEF RepoInv
<1>2. faults \in Nat /\ (Fault => faults' \in Nat)
  BY <1>1 DEF RepoTypeOK, Fault
<1>3. ASSUME NEW c \in Callers, NEW f \in Flag, SaveFeatureIfNewer(c, f)
      PROVE  RepoInv'
  <2> DEFINE x == [pc |-> "get", flag |-> f, seen |-> 0, retries |-> 0]
  <2>1. x \in Call /\ x.pc = "get"
    BY DEF Call
  <2>2. call' = [call EXCEPT ![c] = x] /\ UNCHANGED <<kv, rev, late, faults>>
    BY <1>3 DEF SaveFeatureIfNewer
  <2>3. call'[c] = x
    BY <1>1, <2>2 DEF RepoTypeOK
  <2> HIDE DEF x
  <2> QED BY <1>2, <2>1, <2>2, <2>3, OneCall DEF CallerOK
<1>4. ASSUME NEW c \in Callers, GetNewer(c)
      PROVE  RepoInv'
  <2> DEFINE x == [call[c] EXCEPT !.pc = "ok"]
  <2>1. x \in Call /\ x.pc = "ok" /\ x.flag = call[c].flag
    BY <1>1, <1>4, CallMoves DEF GetNewer
  <2>2. call' = [call EXCEPT ![c] = x] /\ UNCHANGED <<kv, rev, late, faults>>
    BY <1>4 DEF GetNewer
  <2>3. call'[c] = x
    BY <1>1, <2>2 DEF RepoTypeOK
  <2> HIDE DEF x
  <2> QED BY <1>2, <1>4, <2>1, <2>2, <2>3, OneCall DEF CallerOK, GetNewer
<1>5. ASSUME NEW c \in Callers, GetOlder(c)
      PROVE  RepoInv'
  <2> DEFINE m == kv[call[c].flag.key].mod
             x == [call[c] EXCEPT !.pc = "txn", !.seen = m]
  <2>1. call[c] \in Call /\ call[c].flag \in Flag /\ call[c].flag.key \in Keys
    BY <1>1, <1>5, CallTyped DEF GetOlder, Call, Flag
  <2>2. m \in Nat
    BY <1>1, <2>1 DEF RepoTypeOK, Entry
  <2>3. x \in Call /\ x.pc = "txn" /\ x.flag = call[c].flag /\ x.seen = m
    BY <2>1, <2>2 DEF Call
  <2>4. call' = [call EXCEPT ![c] = x] /\ UNCHANGED <<kv, rev, late, faults>>
    BY <1>5 DEF GetOlder
  <2>5. call'[c] = x
    BY <1>1, <2>4 DEF RepoTypeOK
  <2>6. kv[call[c].flag.key].ver < call[c].flag.ver
    <3>1. call[c].flag.ver \in Versions
      BY <2>1 DEF Flag
    <3> QED BY <1>1, <1>5, <2>1, <3>1 DEF GetOlder, EntriesOK
  <2>7. CasGuard(x.flag, x.seen)
    BY <1>1, <2>1, <2>3, <2>6 DEF CasGuard, EntriesOK
  <2> HIDE DEF x
  <2>8. CallerOK(c)'
    BY <2>3, <2>4, <2>5, <2>7 DEF CallerOK, CasGuard, Matches
  <2> QED BY <1>2, <2>3, <2>4, <2>8, OneCall
<1>6. ASSUME NEW c \in Callers, TxnConflict(c)
      PROVE  RepoInv'
  <2> DEFINE n == call[c].retries + 1
             p == IF n > MaxRetries THEN "err" ELSE "get"
             x == [call[c] EXCEPT !.pc = p, !.seen = 0, !.retries = n]
  <2>1. call[c] \in Call
    BY <1>1, <1>6, CallTyped DEF TxnConflict
  <2>2. n \in Nat /\ p \in {"get", "err"}
    <3>1. call[c].retries \in Nat
      BY <2>1 DEF Call
    <3> QED BY <3>1
  <2>3. x \in Call /\ x.pc = p
    BY <2>1, <2>2 DEF Call
  <2>4. call' = [call EXCEPT ![c] = x] /\ UNCHANGED <<kv, rev, late, faults>>
    BY <1>6 DEF TxnConflict
  <2>5. call'[c] = x
    BY <1>1, <2>4 DEF RepoTypeOK
  <2> HIDE DEF x, p
  <2> QED BY <1>2, <2>2, <2>3, <2>4, <2>5, OneCall DEF CallerOK
<1>7. ASSUME NEW c \in Callers, GetError(c)
      PROVE  RepoInv'
  <2> DEFINE x == [call[c] EXCEPT !.pc = "err"]
  <2>1. x \in Call /\ x.pc = "err"
    BY <1>1, <1>7, CallMoves DEF GetError
  <2>2. call' = [call EXCEPT ![c] = x] /\ UNCHANGED <<kv, rev, late>> /\ Fault
    BY <1>7 DEF GetError
  <2>3. call'[c] = x
    BY <1>1, <2>2 DEF RepoTypeOK
  <2> HIDE DEF x
  <2> QED BY <1>2, <2>1, <2>2, <2>3, OneCall DEF CallerOK
<1>8. ASSUME NEW c \in Callers, Return(c)
      PROVE  RepoInv'
  <2>1. call' = [call EXCEPT ![c] = NoCall] /\ UNCHANGED <<kv, rev, late, faults>>
    BY <1>8 DEF Return
  <2>2. call'[c] = NoCall /\ NoCall.pc = "idle"
    BY <1>1, <2>1 DEF RepoTypeOK, NoCall
  <2> QED BY <1>2, <2>1, <2>2, OneCall DEF CallerOK
<1>9. ASSUME NEW c \in Callers, TxnPut(c)
      PROVE  RepoInv'
  <2> DEFINE x == [call[c] EXCEPT !.pc = "ok"]
  <2>1. x \in Call /\ x.pc = "ok" /\ x.flag = call[c].flag
    BY <1>1, <1>9, CallMoves DEF TxnPut
  <2>2. call' = [call EXCEPT ![c] = x] /\ UNCHANGED <<late, faults>>
    BY <1>9 DEF TxnPut
  <2> HIDE DEF x
  <2>3. /\ call' \in [Callers -> {NoCall} \cup Call]
        /\ \A d \in Callers : call'[d] = IF d = c THEN x ELSE call[d]
    BY <1>1, <2>1, <2>2 DEF RepoTypeOK
  <2>4. call[c].flag \in Flag
    BY <1>1, <1>9, CallTyped DEF TxnPut, Call
  <2>5. kv[call[c].flag.key].ver < call[c].flag.ver
    BY <1>1, <1>9 DEF TxnPut, CallsGuarded, CasGuard
  <2>6. Put(call[c].flag)
    BY <1>9 DEF TxnPut
  <2> QED BY <2>1, <2>2, <2>3, <2>4, <2>5, <2>6, PutInv
<1>10. ASSUME NEW t \in late, LateTxn(t)
       PROVE  RepoInv'
  <2>1. t.flag \in Flag /\ kv[t.flag.key].ver < t.flag.ver
    BY <1>1, <1>10 DEF LateTxn, LateGuarded, CasGuard, RepoTypeOK, Txn
  <2>2. Put(t.flag) /\ UNCHANGED <<call, late, faults>>
    BY <1>10 DEF LateTxn
  <2>3. call' \in [Callers -> {NoCall} \cup Call]
    BY <1>1, <2>2 DEF RepoTypeOK
  <2> QED BY <2>1, <2>2, <2>3, PutInv
<1>11. ASSUME NEW c \in Callers, TxnError(c)
       PROVE  RepoInv'
  <2> DEFINE x == [call[c] EXCEPT !.pc = "err"]
             t == [flag |-> call[c].flag, seen |-> call[c].seen]
  <2>1. x \in Call /\ x.pc = "err"
    BY <1>1, <1>11, CallMoves DEF TxnError
  <2>2. /\ call' = [call EXCEPT ![c] = x]
        /\ late' = late \cup {t}
        /\ UNCHANGED <<kv, rev>>
        /\ Fault
    BY <1>11 DEF TxnError
  <2>3. t \in Txn
    BY <1>1, <1>11, CallTyped DEF TxnError, Call, Txn
  <2>4. CasGuard(t.flag, t.seen)
    BY <1>1, <1>11 DEF TxnError, CallsGuarded
  <2> HIDE DEF x, t
  <2>5. \A d \in Callers : call'[d] = IF d = c THEN x ELSE call[d]
    BY <1>1, <2>1, <2>2 DEF RepoTypeOK
  <2>6. RepoTypeOK'
    BY <1>1, <1>2, <2>1, <2>2, <2>3 DEF RepoTypeOK
  <2>7. EntriesOK'
    BY <1>1, <2>2 DEF EntriesOK
  <2>8. LateGuarded'
    BY <1>1, <2>2, <2>4 DEF LateGuarded, CasGuard, Matches
  <2>9. CallsGuarded' /\ AckedIsStored'
    BY <1>1, <2>1, <2>2, <2>5 DEF CallsGuarded, AckedIsStored, CasGuard, Matches
  <2> QED BY <2>6, <2>7, <2>8, <2>9 DEF RepoInv
<1>12. ASSUME NEW S \in SUBSET Callers, Abandon(S)
       PROVE  RepoInv'
  <2> DEFINE T == {d \in S : call[d].pc = "txn"}
             L == {[flag |-> call[c].flag, seen |-> call[c].seen] : c \in T}
  <2>1. /\ call' = [c \in Callers |-> IF c \in S THEN NoCall ELSE call[c]]
        /\ late' = late \cup L
        /\ UNCHANGED <<kv, rev>>
        /\ Fault
    BY <1>12 DEF Abandon
  <2>2. \A c \in T : c \in Callers /\ call[c].pc = "txn"
    OBVIOUS
  <2>3. \A c \in T : call[c] \in Call /\ CasGuard(call[c].flag, call[c].seen)
    BY <1>1, <2>2, CallTyped DEF CallsGuarded
  <2>4. L \subseteq Txn /\ \A t \in L : CasGuard(t.flag, t.seen)
    BY <2>3 DEF Call, Txn
  <2> HIDE DEF L, T
  <2>5. RepoTypeOK'
    BY <1>1, <1>2, <2>1, <2>4 DEF RepoTypeOK
  <2>6. EntriesOK'
    BY <1>1, <2>1 DEF EntriesOK
  <2>7. LateGuarded'
    BY <1>1, <2>1, <2>4 DEF LateGuarded, CasGuard, Matches
  <2>8. CallsGuarded' /\ AckedIsStored'
    BY <1>1, <2>1 DEF CallsGuarded, AckedIsStored, CasGuard, Matches, NoCall
  <2> QED BY <2>5, <2>6, <2>7, <2>8 DEF RepoInv
<1>13. CASE OtherFault
  <2>1. faults' \in Nat /\ UNCHANGED <<kv, rev, call, late>>
    BY <1>2, <1>13 DEF OtherFault
  <2> QED BY <1>1, <2>1 DEF RepoInv, RepoTypeOK, EntriesOK, CallsGuarded, LateGuarded,
                           AckedIsStored, CasGuard, Matches
<1>14. CASE UNCHANGED repoVars
  BY <1>1, <1>14 DEF repoVars, RepoInv, RepoTypeOK, EntriesOK, CallsGuarded, LateGuarded,
                     AckedIsStored, CasGuard, Matches
<1> QED BY <1>3, <1>4, <1>5, <1>6, <1>7, <1>8, <1>9, <1>10, <1>11, <1>12, <1>13, <1>14
        DEF RepoNext, CallStep, CallFault

(* SaveFeatureIfNewer: for any number of concurrent callers, conflicts,    *)
(* errors, crashes and late transactions, revisions pin versions           *)
(* (CallsGuarded, LateGuarded) and a call that reported success left the   *)
(* store at least as new as its flag.                                      *)
THEOREM RepoInvariant == RepoSpec => []RepoInv
<1>1. RepoInit => RepoInv
  BY RepoInitInv
<1>2. RepoInv /\ [RepoNext]_repoVars => RepoInv'
  BY RepoStepInv
<1> QED BY <1>1, <1>2, PTL DEF RepoSpec

(* A SaveFeatureIfNewer that returned nil finds its version, or a newer    *)
(* one, in etcd from then on.                                              *)
THEOREM AckedIsStoredAlways == RepoSpec => []AckedIsStored
<1>1. RepoInv => AckedIsStored
  BY DEF RepoInv
<1> QED BY <1>1, RepoInvariant, PTL

\* What any step does to etcd.
LEMMA StepNeverOlder ==
  ASSUME RepoInv, [RepoNext]_repoVars
  PROVE  Upward
<1>1. RepoTypeOK /\ EntriesOK /\ CallsGuarded /\ LateGuarded
  BY DEF RepoInv
<1>2. ASSUME NEW c \in Callers, TxnPut(c)
      PROVE  Upward
  <2>1. call[c].flag \in Flag
    BY <1>1, <1>2, CallTyped DEF TxnPut, Call
  <2>2. kv[call[c].flag.key].ver < call[c].flag.ver /\ Put(call[c].flag)
    BY <1>1, <1>2 DEF TxnPut, CallsGuarded, CasGuard
  <2> QED BY <1>1, <2>1, <2>2, PutKeeps DEF Upward
<1>3. ASSUME NEW t \in late, LateTxn(t)
      PROVE  Upward
  <2>1. t.flag \in Flag /\ kv[t.flag.key].ver < t.flag.ver /\ Put(t.flag)
    BY <1>1, <1>3 DEF LateTxn, LateGuarded, CasGuard, RepoTypeOK, Txn
  <2> QED BY <1>1, <2>1, PutKeeps DEF Upward
<1>4. \/ \E c \in Callers : TxnPut(c)
      \/ \E t \in late : LateTxn(t)
      \/ kv' = kv
  BY DEF RepoNext, CallStep, CallFault, SaveFeatureIfNewer, GetNewer, GetOlder, TxnConflict,
         GetError, TxnError, Return, Abandon, OtherFault, repoVars
<1> QED BY <1>2, <1>3, <1>4 DEF Upward

(* A published flag is never taken back and never swapped for another      *)
(* payload of the same version, whatever races with the write.             *)
THEOREM NeverOlderAlways == RepoSpec => NeverOlder
<1>1. RepoInv /\ [RepoNext]_repoVars
        => [Upward]_repoVars
  BY StepNeverOlder
<1> QED BY <1>1, RepoInvariant, PTL DEF RepoSpec, NeverOlder

-----------------------------------------------------------------------------
(* Refinement.                                                             *)

\* The state that the register sees of a put.
LEMMA AbstractPut ==
  ASSUME RepoInv, NEW f \in Flag, kv[f.key].ver < f.ver, Put(f)
  PROVE  Register!Replace(f)
<1>1. f.key \in Keys
  BY DEF Flag
<1>2. kv' = [kv EXCEPT ![f.key] = [mod |-> rev + 1, ver |-> f.ver, val |-> f.val]]
  BY DEF Put
<1>3. kv \in [Keys -> Entry]
  BY DEF RepoInv, RepoTypeOK
<1>4. AbstractStore' = [AbstractStore EXCEPT ![f.key] = [ver |-> f.ver, val |-> f.val]]
  BY <1>1, <1>2, <1>3 DEF AbstractStore
<1>5. AbstractStore[f.key].ver < f.ver
  BY <1>1 DEF AbstractStore
<1> QED BY <1>4, <1>5 DEF Register!Replace

\* What the register sees of caller c when call[c] becomes x.
LEMMA AbstractCall ==
  ASSUME RepoInv, NEW c \in Callers, NEW x, call' = [call EXCEPT ![c] = x]
  PROVE  AbstractOps' = [AbstractOps EXCEPT ![c] = AbstractOp(x)]
BY DEF RepoInv, RepoTypeOK, AbstractOps

LEMMA RepoInitRefines == RepoInit => Register!RegInit
BY DEF RepoInit, Register!RegInit, AbstractStore, AbstractOps, AbstractOrphans, AbstractOp,
       Register!Idle, NoCall

LEMMA RepoStepRefines ==
  ASSUME RepoInv, RepoInv', [RepoNext]_repoVars
  PROVE  [Register!RegNext]_(Register!regVars)
<1> USE DEF Register!Idle, Register!Op
<1>1. RepoTypeOK /\ EntriesOK /\ CallsGuarded /\ LateGuarded
  BY DEF RepoInv
<1>2. \A c \in Callers : AbstractOps[c] = AbstractOp(call[c])
  BY DEF AbstractOps
<1>3. \A c \in Callers : call[c].pc # "idle" => call[c] \in Call /\ call[c] # NoCall
  BY <1>1, CallTyped
<1>4. ASSUME NEW c \in Callers, NEW f \in Flag, SaveFeatureIfNewer(c, f)
      PROVE  Register!RegNext
  <2> DEFINE x == [pc |-> "get", flag |-> f, seen |-> 0, retries |-> 0]
  <2>1. call[c] = NoCall /\ call' = [call EXCEPT ![c] = x] /\ UNCHANGED <<kv, late>>
    BY <1>4 DEF SaveFeatureIfNewer
  <2>2. AbstractOp(x) = Register!Op("pending", f)
    BY DEF AbstractOp, NoCall
  <2>3. AbstractOps[c] = Register!Idle
    BY <1>2, <2>1 DEF AbstractOp
  <2> HIDE DEF x
  <2>4. AbstractOps' = [AbstractOps EXCEPT ![c] = Register!Op("pending", f)]
    BY <2>1, <2>2, AbstractCall
  <2>5. UNCHANGED <<AbstractStore, AbstractOrphans>>
    BY <2>1 DEF AbstractStore, AbstractOrphans
  <2>6. Register!Begin(c, f)
    BY <2>3, <2>4, <2>5 DEF Register!Begin
  <2> QED BY <2>6 DEF Register!RegNext, Flag, Register!Flag
<1>5. ASSUME NEW c \in Callers, GetNewer(c)
      PROVE  Register!RegNext
  <2> DEFINE f == call[c].flag
             x == [call[c] EXCEPT !.pc = "ok"]
  <2>1. call[c] \in Call /\ call[c] # NoCall /\ f.key \in Keys
    BY <1>3, <1>5 DEF GetNewer, Call, Flag
  <2>2. call' = [call EXCEPT ![c] = x] /\ UNCHANGED <<kv, late>> /\ kv[f.key].ver >= f.ver
    BY <1>5 DEF GetNewer
  <2>3. AbstractOp(x) = Register!Op("ok", f)
    BY <2>1 DEF AbstractOp, Call, NoCall
  <2>4. AbstractOps[c] = Register!Op("pending", f)
    BY <1>2, <1>5, <2>1 DEF GetNewer, AbstractOp
  <2> HIDE DEF x
  <2>5. AbstractOps' = [AbstractOps EXCEPT ![c] = Register!Op("ok", f)]
    BY <2>2, <2>3, AbstractCall
  <2>6. UNCHANGED <<AbstractStore, AbstractOrphans>>
    BY <2>2 DEF AbstractStore, AbstractOrphans
  <2>7. AbstractStore[f.key].ver >= f.ver
    BY <2>1, <2>2 DEF AbstractStore
  <2>8. Register!Keep(c)
    BY <2>4, <2>5, <2>6, <2>7 DEF Register!Keep
  <2> QED BY <2>8 DEF Register!RegNext
<1>6. ASSUME NEW c \in Callers, GetOlder(c)
      PROVE  UNCHANGED Register!regVars
  <2> DEFINE x == [call[c] EXCEPT !.pc = "txn", !.seen = kv[call[c].flag.key].mod]
  <2>1. call[c] \in Call /\ call[c] # NoCall
    BY <1>3, <1>6 DEF GetOlder
  <2>2. call' = [call EXCEPT ![c] = x] /\ UNCHANGED <<kv, late>>
    BY <1>6 DEF GetOlder
  <2>3. AbstractOp(x) = AbstractOps[c]
    BY <1>2, <1>6, <2>1 DEF GetOlder, AbstractOp, Call, NoCall
  <2> HIDE DEF x
  <2>4. AbstractOps' = AbstractOps
    BY <2>2, <2>3, AbstractCall DEF AbstractOps
  <2> QED BY <2>2, <2>4 DEF AbstractStore, AbstractOrphans, Register!regVars
<1>7. ASSUME NEW c \in Callers, TxnPut(c)
      PROVE  Register!RegNext
  <2> DEFINE f == call[c].flag
             x == [call[c] EXCEPT !.pc = "ok"]
  <2>1. call[c] \in Call /\ call[c] # NoCall /\ f \in Flag
    BY <1>3, <1>7 DEF TxnPut, Call
  <2>2. call' = [call EXCEPT ![c] = x] /\ UNCHANGED late
    BY <1>7 DEF TxnPut
  <2>3. kv[f.key].ver < f.ver /\ Put(f)
    BY <1>1, <1>7 DEF TxnPut, CallsGuarded, CasGuard
  <2>4. AbstractOp(x) = Register!Op("ok", f)
    BY <2>1 DEF AbstractOp, Call, NoCall
  <2>5. AbstractOps[c] = Register!Op("pending", f)
    BY <1>2, <1>7, <2>1 DEF TxnPut, AbstractOp
  <2>6. Register!Replace(f)
    BY <2>1, <2>3, AbstractPut
  <2> HIDE DEF x
  <2>7. AbstractOps' = [AbstractOps EXCEPT ![c] = Register!Op("ok", f)]
    BY <2>2, <2>4, AbstractCall
  <2>8. UNCHANGED AbstractOrphans
    BY <2>2 DEF AbstractOrphans
  <2>9. AbstractOps[c].st = "pending" /\ AbstractOps[c].flag = f
    BY <2>5
  <2>10. Register!Take(c)
    BY <2>6, <2>7, <2>8, <2>9 DEF Register!Take
  <2> QED BY <2>10 DEF Register!RegNext
<1>8. ASSUME NEW c \in Callers, NEW x \in Call, call' = [call EXCEPT ![c] = x],
             x.pc = "err", x.flag = call[c].flag, call[c].pc \in {"get", "txn"},
             UNCHANGED kv,
             AbstractOrphans' \in {AbstractOrphans, AbstractOrphans \cup {call[c].flag}}
      PROVE  Register!RegNext
  <2> DEFINE f == call[c].flag
  <2>1. call[c] # NoCall
    BY <1>3, <1>8
  <2>2. AbstractOp(x) = Register!Op("err", f)
    BY <1>8 DEF AbstractOp, NoCall
  <2>3. AbstractOps[c] = Register!Op("pending", f)
    BY <1>2, <1>8, <2>1 DEF AbstractOp
  <2>4. AbstractOps' = [AbstractOps EXCEPT ![c] = Register!Op("err", f)]
    BY <1>8, <2>2, AbstractCall
  <2>5. UNCHANGED AbstractStore
    BY <1>8 DEF AbstractStore
  <2>6. AbstractOps[c].st = "pending" /\ AbstractOps[c].flag = f
    BY <2>3
  <2>7. Register!Fail(c)
    BY <1>8, <2>4, <2>5, <2>6 DEF Register!Fail
  <2> QED BY <2>7 DEF Register!RegNext
<1>9. ASSUME NEW c \in Callers, TxnConflict(c)
      PROVE  Register!RegNext \/ UNCHANGED Register!regVars
  <2> DEFINE n == call[c].retries + 1
             p == IF n > MaxRetries THEN "err" ELSE "get"
             x == [call[c] EXCEPT !.pc = p, !.seen = 0, !.retries = n]
  <2>1. call[c] \in Call /\ call[c] # NoCall
    BY <1>3, <1>9 DEF TxnConflict
  <2>2. call' = [call EXCEPT ![c] = x] /\ UNCHANGED <<kv, late>> /\ call[c].pc = "txn"
    BY <1>9 DEF TxnConflict
  <2>3. call[c].retries \in Nat
    BY <2>1 DEF Call
  <2>4. n \in Nat /\ p \in {"get", "err"}
    BY <2>3
  <2>5. x \in Call /\ x.pc = p /\ x.flag = call[c].flag
    BY <2>1, <2>4 DEF Call
  <2>6. UNCHANGED <<AbstractStore, AbstractOrphans>>
    BY <2>2 DEF AbstractStore, AbstractOrphans
  <2>7. CASE p = "err"
    <3> HIDE DEF x, p
    <3> QED BY <1>8, <2>2, <2>4, <2>5, <2>6, <2>7
  <2>8. CASE p = "get"
    <3>1. AbstractOp(x) = AbstractOps[c]
      BY <1>2, <2>1, <2>2, <2>4, <2>5, <2>8 DEF AbstractOp, NoCall
    <3> HIDE DEF x
    <3>2. AbstractOps' = AbstractOps
      BY <2>2, <3>1, AbstractCall DEF AbstractOps
    <3> QED BY <2>6, <3>2 DEF Register!regVars
  <2> QED BY <2>4, <2>7, <2>8
<1>10. ASSUME NEW c \in Callers, GetError(c)
       PROVE  Register!RegNext
  <2> DEFINE x == [call[c] EXCEPT !.pc = "err"]
  <2>1. x \in Call /\ x.pc = "err" /\ x.flag = call[c].flag
    BY <1>1, <1>10, CallMoves DEF GetError
  <2>2. call' = [call EXCEPT ![c] = x] /\ UNCHANGED <<kv, late>> /\ call[c].pc = "get"
    BY <1>10 DEF GetError
  <2>3. UNCHANGED AbstractOrphans
    BY <2>2 DEF AbstractOrphans
  <2> HIDE DEF x
  <2> QED BY <1>8, <2>1, <2>2, <2>3
<1>11. ASSUME NEW c \in Callers, TxnError(c)
       PROVE  Register!RegNext
  <2> DEFINE x == [call[c] EXCEPT !.pc = "err"]
             t == [flag |-> call[c].flag, seen |-> call[c].seen]
  <2>1. x \in Call /\ x.pc = "err" /\ x.flag = call[c].flag
    BY <1>1, <1>11, CallMoves DEF TxnError
  <2>2. /\ call' = [call EXCEPT ![c] = x]
        /\ late' = late \cup {t}
        /\ UNCHANGED kv
        /\ call[c].pc = "txn"
    BY <1>11 DEF TxnError
  <2>3. AbstractOrphans' = AbstractOrphans \cup {call[c].flag}
    <3>1. t.flag = call[c].flag
      OBVIOUS
    <3> HIDE DEF t
    <3> QED BY <2>2, <3>1 DEF AbstractOrphans
  <2> HIDE DEF x, t
  <2> QED BY <1>8, <2>1, <2>2, <2>3
<1>12. ASSUME NEW t \in late, LateTxn(t)
       PROVE  Register!RegNext
  <2>1. t.flag \in Flag /\ kv[t.flag.key].ver < t.flag.ver /\ Put(t.flag)
    BY <1>1, <1>12 DEF LateTxn, LateGuarded, CasGuard, RepoTypeOK, Txn
  <2>2. Register!Replace(t.flag)
    BY <2>1, AbstractPut
  <2>3. t.flag \in AbstractOrphans /\ UNCHANGED <<AbstractOps, AbstractOrphans>>
    BY <1>12 DEF LateTxn, AbstractOps, AbstractOrphans
  <2>4. Register!Late(t.flag)
    BY <2>2, <2>3 DEF Register!Late
  <2> QED BY <2>3, <2>4 DEF Register!RegNext
<1>13. ASSUME NEW c \in Callers, Return(c)
       PROVE  Register!RegNext
  <2>1. call' = [call EXCEPT ![c] = NoCall] /\ UNCHANGED <<kv, late>> /\ Returned(c)
    BY <1>13 DEF Return
  <2>2. call[c] # NoCall
    BY <1>3, <2>1 DEF Returned
  <2>3. AbstractOps[c].st \in {"ok", "err"}
    <3>1. AbstractOps[c] = Register!Op(call[c].pc, call[c].flag)
      BY <1>2, <2>1, <2>2 DEF AbstractOp, Returned
    <3> QED BY <2>1, <3>1 DEF Returned
  <2>4. AbstractOps' = [AbstractOps EXCEPT ![c] = Register!Idle]
    BY <2>1, AbstractCall DEF AbstractOp
  <2>5. UNCHANGED <<AbstractStore, AbstractOrphans>>
    BY <2>1 DEF AbstractStore, AbstractOrphans
  <2>6. Register!End(c)
    BY <2>3, <2>4, <2>5 DEF Register!End
  <2> QED BY <2>6 DEF Register!RegNext
<1>14. ASSUME NEW S \in SUBSET Callers, Abandon(S)
       PROVE  Register!RegNext
  <2> DEFINE T == {d \in S : call[d].pc = "txn"}
             t(c) == [flag |-> call[c].flag, seen |-> call[c].seen]
             L == {t(c) : c \in T}
             O == {call[c].flag : c \in T}
             P == {AbstractOps[c].flag : c \in {d \in S : AbstractOps[d].st = "pending"}}
  <2>1. /\ call' = [c \in Callers |-> IF c \in S THEN NoCall ELSE call[c]]
        /\ late' = late \cup L
        /\ UNCHANGED kv
    BY <1>14 DEF Abandon
  <2>2. AbstractOps' = [c \in Callers |-> IF c \in S THEN Register!Idle ELSE AbstractOps[c]]
    BY <2>1 DEF AbstractOps, AbstractOp
  <2>3. AbstractOrphans' = AbstractOrphans \cup O
    <3>1. \A c \in T : t(c).flag = call[c].flag
      OBVIOUS
    <3> HIDE DEF t, T
    <3>2. {u.flag : u \in L} = O
      BY <3>1
    <3> HIDE DEF L, O
    <3>3. {u.flag : u \in late \cup L} = {u.flag : u \in late} \cup {u.flag : u \in L}
      OBVIOUS
    <3> QED BY <2>1, <3>2, <3>3 DEF AbstractOrphans
  <2>4. \A c \in T : /\ c \in S
                      /\ AbstractOps[c].st = "pending"
                      /\ AbstractOps[c].flag = call[c].flag
    <3>1. \A c \in T : c \in S /\ c \in Callers /\ call[c].pc = "txn"
      OBVIOUS
    <3>2. \A c \in T : AbstractOps[c] = Register!Op("pending", call[c].flag)
      BY <1>2, <1>3, <3>1 DEF AbstractOp
    <3> HIDE DEF T
    <3> TAKE c \in T
    <3>3. AbstractOps[c] = Register!Op("pending", call[c].flag)
      BY <3>2
    <3>4. AbstractOps[c].st = "pending" /\ AbstractOps[c].flag = call[c].flag
      BY <3>3
    <3> QED BY <3>1, <3>4
  <2>5. O \in SUBSET P
    BY <2>4
  <2>6. UNCHANGED AbstractStore
    BY <2>1 DEF AbstractStore
  <2>7. Register!Die(S)
    BY <2>2, <2>3, <2>5, <2>6 DEF Register!Die
  <2> QED BY <2>7 DEF Register!RegNext
<1>15. ASSUME UNCHANGED <<kv, call, late>>
       PROVE  UNCHANGED Register!regVars
  BY <1>15 DEF Register!regVars, AbstractStore, AbstractOps, AbstractOrphans
<1>16. CASE OtherFault \/ UNCHANGED repoVars
  BY <1>15, <1>16 DEF OtherFault, repoVars
<1> QED BY <1>4, <1>5, <1>6, <1>7, <1>9, <1>10, <1>11, <1>12, <1>13, <1>14, <1>16
        DEF RepoNext, CallStep, CallFault

(* SaveFeatureIfNewer implements the versioned register: every behaviour   *)
(* of the Get/compare/Txn loop, with its conflicts, errors, crashes and    *)
(* late transactions, is a behaviour of atomic writes that only ever       *)
(* replace a strictly older version.                                       *)
THEOREM RepoRefinesRegister == RepoSpec => ImplementsRegister
<1>1. RepoInit => Register!RegInit
  BY RepoInitRefines
<1>2. RepoInv /\ RepoInv' /\ [RepoNext]_repoVars => [Register!RegNext]_(Register!regVars)
  BY RepoStepRefines
<1> QED BY <1>1, <1>2, RepoInvariant, PTL DEF RepoSpec, ImplementsRegister, Register!RegSpec
=============================================================================
