------------------------ MODULE ReconcilerLockProofs ------------------------
(***************************************************************************)
(* Proofs about ReconcilerLock: the lock only takes steps away from the    *)
(* write path, so that all that FeatureSyncProofs shows holds with it; and *)
(* a pass that has its session is alone.                                   *)
(***************************************************************************)
EXTENDS ReconcilerLock, FeatureSyncProofs

\* A step of the lock is a step of the write path or leaves it alone.
LEMMA LockedIsSyncStep ==
  ASSUME [LockedNext]_lockedVars
  PROVE  [SyncNext]_vars
<1>1. CASE OtherStep
  BY <1>1 DEF OtherStep, SyncNext, Failure
<1>2. ASSUME NEW r \in Reconcilers, RunStep(r)
      PROVE  [SyncNext]_vars
  <2>1. CASE LockAcquired(r)
    BY <2>1 DEF LockAcquired, PassStep, SyncNext
  <2>2. CASE Reconcile(r)
    BY <2>2 DEF PassStep, SyncNext
  <2>3. CASE NewSession(r) \/ Lock(r) \/ LockTimeout(r) \/ Unlock(r)
    BY <2>3 DEF NewSession, Lock, LockTimeout, Unlock
  <2> QED BY <1>2, <2>1, <2>2, <2>3 DEF RunStep
<1>3. ASSUME NEW r \in Reconcilers, LockFailure(r)
      PROVE  UNCHANGED vars
  BY <1>3 DEF LockFailure, NewSessionError, LockError, LockTimeoutLate, UnlockError, SessionLost,
              DeleteFails, Expire
<1>4. ASSUME NEW R \in Replicas, CrashLocked(R)
      PROVE  SyncNext
  BY <1>4 DEF CrashLocked, SyncNext, Failure
<1>5. CASE OrphanExpires
  BY <1>5 DEF OrphanExpires, Expire
<1>6. ASSUME NEW s \in lateDeletes, LateDelete(s)
      PROVE  UNCHANGED vars
  BY <1>6 DEF LateDelete
<1>7. CASE UNCHANGED lockedVars
  BY <1>7 DEF lockedVars
<1> QED BY <1>1, <1>2, <1>3, <1>4, <1>5, <1>6, <1>7 DEF LockedNext

(* The write path with the lock implements the write path without it:      *)
(* every invariant of SyncSpec, and every action property, carries over.   *)
THEOREM LockedRefinesSync == LockedSpec => SyncSpec
<1>1. LockInit => SyncInit
  BY DEF LockInit
<1>2. [LockedNext]_lockedVars => [SyncNext]_vars
  BY LockedIsSyncStep
<1> QED BY <1>1, <1>2, PTL DEF LockedSpec, SyncSpec

-----------------------------------------------------------------------------
(* Mutual exclusion.                                                       *)

Pcs == {"start", "stopped", "tick", "wait", "pass"}

LEMMA LockInitInv == LockInit => LockInv
<1> SUFFICES ASSUME LockInit PROVE LockInv
  OBVIOUS
<1> USE LockConstants DEF LockInit
<1>1. DOMAIN keys = {} /\ keys \in [DOMAIN keys -> SUBSET DOMAIN keys]
  OBVIOUS
<1>2. LockTypeOK
  <2>1. run \in [Reconcilers -> [pc : Pcs, session : 0..MaxSessions]]
    BY DEF Starting, Pcs
  <2>2. sessions \in [Reconcilers -> 0..MaxSessions] /\ live \subseteq Session
    OBVIOUS
  <2> QED BY <1>1, <2>1, <2>2 DEF LockTypeOK, Pcs
<1>3. KeysOrdered
  BY <1>1 DEF KeysOrdered
<1>4. SessionsOwn
  BY DEF SessionsOwn, Starting
<1>5. PassHolds
  BY DEF PassHolds, SyncInit, Starting
<1> QED BY <1>2, <1>3, <1>4, <1>5 DEF LockInv

\* The keys stay a queue when one is put at its end,
LEMMA KeyPut ==
  ASSUME LockInv, NEW s \in live, keys' = WithKey(s), live' = live
  PROVE  /\ DOMAIN keys' \subseteq live'
         /\ keys' \in [DOMAIN keys' -> SUBSET DOMAIN keys']
         /\ KeysOrdered'
         /\ \A t \in DOMAIN keys : Owns(t) => Owns(t)'
<1>1. DOMAIN keys \subseteq live /\ \A t \in DOMAIN keys : keys[t] \subseteq DOMAIN keys
  BY DEF LockInv, LockTypeOK
<1>2. /\ DOMAIN keys' = DOMAIN keys \cup {s}
      /\ keys' = [t \in DOMAIN keys \cup {s} |-> IF t \in DOMAIN keys THEN keys[t] ELSE DOMAIN keys]
  BY DEF WithKey
<1>3. \A t \in DOMAIN keys' : keys'[t] = IF t \in DOMAIN keys THEN keys[t] ELSE DOMAIN keys
  BY <1>2
<1>4. KeysOrdered'
  BY <1>2, <1>3 DEF LockInv, KeysOrdered
<1>5. keys' \in [DOMAIN keys' -> SUBSET DOMAIN keys']
  BY <1>1, <1>2, <1>3
<1> QED BY <1>1, <1>2, <1>3, <1>4, <1>5 DEF Owns

\* and when one is taken out.
LEMMA KeyGone ==
  ASSUME LockInv, NEW s, keys' = WithoutKey(s)
  PROVE  /\ DOMAIN keys' = DOMAIN keys \ {s}
         /\ keys' \in [DOMAIN keys' -> SUBSET DOMAIN keys']
         /\ KeysOrdered'
         /\ \A t \in DOMAIN keys : Owns(t) /\ t # s => Owns(t)'
<1>1. \A t \in DOMAIN keys : keys[t] \subseteq DOMAIN keys
  BY DEF LockInv, LockTypeOK
<1>2. /\ DOMAIN keys' = DOMAIN keys \ {s}
      /\ keys' = [t \in DOMAIN keys \ {s} |-> keys[t] \ {s}]
  BY DEF WithoutKey
<1>3. \A t \in DOMAIN keys' : keys'[t] = keys[t] \ {s}
  BY <1>2
<1>4. KeysOrdered'
  BY <1>2, <1>3 DEF LockInv, KeysOrdered
<1>5. keys' \in [DOMAIN keys' -> SUBSET DOMAIN keys']
  BY <1>1, <1>2, <1>3
<1> QED BY <1>2, <1>3, <1>4, <1>5 DEF Owns

\* Run of r moves within its session.  Other replicas keep what they hold.
LEMMA Moves ==
  ASSUME LockInv, NEW r \in Reconcilers, NEW pc \in Pcs, To(r, pc),
         pc \in {"start", "stopped"} <=> run[r].pc \in {"start", "stopped"},
         DOMAIN keys' \subseteq live', keys' \in [DOMAIN keys' -> SUBSET DOMAIN keys'], KeysOrdered',
         UNCHANGED <<live, sessions>>, lockFaults' \in Nat,
         lateDeletes' \subseteq Session, robbed' \subseteq Session,
         \A t \in robbed : t # Lease(r) => t \in robbed',
         \A t \in DOMAIN keys : Owns(t) /\ t # Lease(r) => Owns(t)',
         \A q \in Reconcilers : q # r => rc'[q] = rc[q],
         rc'[r] # NoPass => pc = "pass",
         pc = "pass" => Owns(Lease(r)) /\ UNCHANGED keys
  PROVE  LockInv'
<1>1. LockTypeOK /\ SessionsOwn /\ PassHolds
  BY DEF LockInv
<1>2. \A q \in Reconcilers : /\ run'[q].session = run[q].session
                             /\ run'[q].pc = IF q = r THEN pc ELSE run[q].pc
  BY <1>1 DEF LockTypeOK, To
<1>3. run' \in [Reconcilers -> [pc : Pcs, session : 0..MaxSessions]]
  BY <1>1 DEF LockTypeOK, To, Pcs
<1>4. LockTypeOK'
  BY <1>1, <1>3 DEF LockTypeOK, Pcs
<1>5. SessionsOwn'
  BY <1>1, <1>2 DEF SessionsOwn
<1>6. PassHolds'
  <2> SUFFICES ASSUME NEW q \in Reconcilers
               PROVE  /\ rc'[q] # NoPass => run'[q].pc = "pass"
                      /\ run'[q].pc = "pass" /\ Unharmed(q)' => Owns(Lease(q))'
    BY DEF PassHolds
  <2>0. PICK t : t = Lease(q) /\ t = Lease(q)'
    BY <1>2 DEF Lease
  <2>1. CASE q = r
    <3>1. ASSUME pc = "pass" PROVE Owns(t)'
      BY <2>0, <2>1, <3>1 DEF Owns
    <3> QED BY <2>0, <2>1, <1>2, <3>1 DEF Owns
  <2>2. CASE q # r
    <3>1. rc'[q] # NoPass => run'[q].pc = "pass"
      BY <2>2, <1>1, <1>2 DEF PassHolds
    <3>2. ASSUME run'[q].pc = "pass", Unharmed(q)'
          PROVE  Owns(Lease(q))'
      <4>1. t # Lease(r) /\ t \in live /\ t \notin robbed'
        BY <2>0, <2>2, <3>2 DEF Unharmed, Lease
      <4>2. Owns(t)
        BY <2>0, <2>2, <3>2, <4>1, <1>1, <1>2 DEF PassHolds, Unharmed
      <4>3. Owns(t)'
        BY <4>1, <4>2 DEF Owns
      <4> QED BY <2>0, <4>3 DEF Owns
    <3> QED BY <3>1, <3>2
  <2> QED BY <2>1, <2>2
<1> QED BY <1>4, <1>5, <1>6 DEF LockInv

\* No step begins a pass but LockAcquired.
NoNewPass == \A q \in Reconcilers : rc'[q] # NoPass => rc[q] # NoPass

LEMMA RcFunction ==
  ASSUME SyncInv
  PROVE  rc \in [Reconcilers -> {NoPass} \cup Pass]
BY DEF SyncInv, SyncTypeOK

LEMMA ReconcileKeeps ==
  ASSUME SyncInv, NEW r \in Reconcilers, Reconcile(r) \/ ListError(r) \/ CheckError(r)
  PROVE  NoNewPass
<1>1. rc[r] # NoPass
  BY DEF Reconcile, ListByPage, CheckFix, CheckSkip, FixDone, ListError, CheckError, PageDue, NoPass
<1>2. PICK x : rc' = [rc EXCEPT ![r] = x]
  <2>1. CASE ListByPage(r)
    BY <2>1 DEF ListByPage
  <2>2. CASE CheckFix(r)
    BY <2>2 DEF CheckFix, Checked
  <2>3. CASE CheckSkip(r)
    BY <2>3 DEF CheckSkip, Checked
  <2>4. CASE CheckError(r)
    BY <2>4 DEF CheckError, Checked
  <2>5. CASE FixDone(r)
    BY <2>5 DEF FixDone
  <2>6. CASE ListError(r)
    BY <2>6 DEF ListError
  <2> QED BY <2>1, <2>2, <2>3, <2>4, <2>5, <2>6 DEF Reconcile
<1> QED BY <1>1, <1>2, RcFunction DEF NoNewPass

LEMMA OtherKeeps ==
  ASSUME SyncInv, OtherStep
  PROVE  NoNewPass
<1>1. CASE UNCHANGED rc
  BY <1>1 DEF NoNewPass
<1>2. ASSUME NEW w \in Writers, Request(w)
      PROVE  UNCHANGED rc
  BY <1>2 DEF Request, SaveFeature, RollbackFeature, BeginTx
<1>3. ASSUME NEW w \in Writers, WriterStep(w)
      PROVE  UNCHANGED rc
  BY <1>3 DEF WriterStep, RollbackSave, BeginTx, RollbackInvalid, TxCommit, SyncOk, SyncErr,
              MarkCompleted
<1>4. ASSUME NEW q \in Workers, WorkerStep(q)
      PROVE  UNCHANGED rc
  BY <1>4 DEF WorkerStep, FetchPending, NextTask, TaskOk, TaskErr, Outcome, UpdateTask
<1>5. CASE \/ \E c \in Callers : EtcdStep(c)
           \/ \E t \in late : LateTxn(t) /\ UNCHANGED syncVars
  BY <1>5, <1>1 DEF EtcdStep, syncVars
<1>6. CASE StepFailure
  <2>1. ASSUME NEW w \in Writers, MasterSaveError(w) \/ TxAbort(w) \/ MarkLost(w)
        PROVE  UNCHANGED rc
    BY <2>1 DEF MasterSaveError, TxAbort, MarkLost
  <2>2. ASSUME NEW q \in Workers, UpdateLost(q)
        PROVE  UNCHANGED rc
    BY <2>2 DEF UpdateLost
  <2>3. ASSUME NEW c \in Callers, CallFault(c) /\ UNCHANGED syncVars
        PROVE  UNCHANGED rc
    BY <2>3 DEF syncVars
  <2> QED BY <1>1, <1>6, <2>1, <2>2, <2>3, ReconcileKeeps DEF StepFailure
<1> QED BY <1>1, <1>2, <1>3, <1>4, <1>5, <1>6 DEF OtherStep

LEMMA LockAlone ==
  ASSUME LockInv, UNCHANGED lockVars, NoNewPass
  PROVE  LockInv'
<1>1. UNCHANGED <<run, keys, live, sessions, lateDeletes, robbed, lockFaults>>
  BY DEF lockVars, deleteVars
<1>2. PassHolds'
  BY <1>1 DEF LockInv, PassHolds, NoNewPass, Owns, Unharmed, Lease
<1> QED BY <1>1, <1>2 DEF LockInv, LockTypeOK, KeysOrdered, SessionsOwn

LEMMA NewSessionInv ==
  ASSUME LockInv, NEW r \in Reconcilers, NewSession(r)
  PROVE  LockInv'
<1>1. LockTypeOK /\ KeysOrdered /\ SessionsOwn /\ PassHolds
  BY DEF LockInv
<1>2. PICK n : n = sessions[r] + 1
  OBVIOUS
<1>3. n \in 1..MaxSessions /\ n \in Nat /\ n # 0 /\ sessions[r] \in Nat /\ n > sessions[r]
  BY <1>1, <1>2, LockConstants DEF NewSession, LockTypeOK
<1>4. /\ sessions' = [sessions EXCEPT ![r] = n] /\ sessions'[r] = n /\ run[r].pc = "start"
      /\ live' = live \cup {<<r, n>>} /\ run' = [run EXCEPT ![r] = [pc |-> "tick", session |-> n]]
      /\ UNCHANGED <<keys, lateDeletes, robbed, lockFaults, rc>>
  BY <1>1, <1>2 DEF NewSession, At, vars, syncVars, deleteVars, LockTypeOK
<1>5. \A q \in Reconcilers : /\ run'[q] = IF q = r THEN [pc |-> "tick", session |-> n] ELSE run[q]
                             /\ sessions'[q] = IF q = r THEN n ELSE sessions[q]
  BY <1>1, <1>4 DEF LockTypeOK
<1>6. LockTypeOK'
  <2>1. run' \in [Reconcilers -> [pc : Pcs, session : 0..MaxSessions]]
    BY <1>1, <1>3, <1>4 DEF LockTypeOK, Pcs
  <2>2. live' \subseteq Session /\ DOMAIN keys' \subseteq live'
    BY <1>1, <1>3, <1>4 DEF LockTypeOK, Session
  <2>3. sessions' \in [Reconcilers -> 0..MaxSessions]
    BY <1>1, <1>3, <1>4 DEF LockTypeOK
  <2> QED BY <1>1, <1>4, <2>1, <2>2, <2>3 DEF LockTypeOK, Pcs
<1>7. KeysOrdered'
  BY <1>1, <1>4 DEF KeysOrdered
<1>8. SessionsOwn'
  <2> SUFFICES ASSUME NEW q \in Reconcilers
               PROVE  /\ run'[q].session <= sessions'[q]
                      /\ run'[q].session = 0 <=> run'[q].pc \in {"start", "stopped"}
                      /\ \A s \in live' : s[1] = q => s[2] <= sessions'[q]
    BY DEF SessionsOwn
  <2>1. ASSUME NEW s \in live', s[1] = q PROVE s[2] <= sessions'[q]
    <3>1. CASE s = <<r, n>>
      BY <1>3, <1>5, <2>1, <3>1
    <3>2. CASE s \in live
      <4>1. s[2] <= sessions[q] /\ s[2] \in Nat
        BY <1>1, <2>1, <3>2 DEF SessionsOwn, LockTypeOK, Session
      <4>2. sessions[q] \in Nat
        BY <1>1 DEF LockTypeOK
      <4> QED BY <1>3, <1>5, <4>1, <4>2
    <3> QED BY <1>4, <2>1, <3>1, <3>2
  <2>2. run'[q].session <= sessions'[q] /\ (run'[q].session = 0 <=> run'[q].pc \in {"start", "stopped"})
    BY <1>1, <1>3, <1>5 DEF SessionsOwn
  <2> QED BY <2>1, <2>2
<1>9. PassHolds'
  <2> SUFFICES ASSUME NEW q \in Reconcilers
               PROVE  /\ rc'[q] # NoPass => run'[q].pc = "pass"
                      /\ run'[q].pc = "pass" /\ Unharmed(q)' => Owns(Lease(q))'
    BY DEF PassHolds
  <2>1. CASE q = r
    BY <2>1, <1>1, <1>4, <1>5 DEF PassHolds
  <2>2. CASE q # r
    <3>1. run'[q] = run[q] /\ rc'[q] = rc[q]
      BY <2>2, <1>4, <1>5
    <3>2. PICK t : t = Lease(q) /\ t = Lease(q)'
      BY <3>1 DEF Lease
    <3>3. t # <<r, n>>
      BY <2>2, <3>2 DEF Lease
    <3>4. run[q].pc = "pass" /\ t \in live /\ t \notin robbed => Owns(t)
      BY <1>1, <3>2 DEF PassHolds, Unharmed
    <3>5. run'[q].pc = "pass" /\ Unharmed(q)' => Owns(t)'
      BY <1>4, <3>1, <3>2, <3>3, <3>4 DEF Unharmed, Owns
    <3> QED BY <1>1, <3>1, <3>2, <3>5 DEF PassHolds, Owns
  <2> QED BY <2>1, <2>2
<1> QED BY <1>6, <1>7, <1>8, <1>9 DEF LockInv

\* What Run does between NewSession and its return.
LEMMA RunInv ==
  ASSUME LockInv, SyncInv, NEW r \in Reconcilers,
         \/ NewSessionError(r) \/ Lock(r) \/ LockError(r) \/ LockAcquired(r) \/ LockTimeout(r)
         \/ LockTimeoutLate(r) \/ Unlock(r) \/ UnlockError(r)
  PROVE  LockInv'
<1>1. /\ LockTypeOK /\ SessionsOwn /\ PassHolds /\ KeysOrdered
      /\ DOMAIN keys \subseteq live /\ keys \in [DOMAIN keys -> SUBSET DOMAIN keys]
      /\ lockFaults \in Nat /\ run \in [Reconcilers -> [pc : Pcs, session : 0..MaxSessions]]
      /\ lateDeletes \subseteq Session /\ robbed \subseteq Session /\ sessions[r] \in 0..MaxSessions
  BY DEF LockInv, LockTypeOK, Pcs
<1> USE DEF deleteVars, DeleteFails
<1>2. UNCHANGED <<live, sessions>>
  BY DEF NewSessionError, Lock, LockError, LockAcquired, LockTimeout, LockTimeoutLate, Unlock,
         UnlockError
<1>3. lockFaults' \in Nat
  BY <1>1 DEF NewSessionError, Lock, LockError, LockAcquired, LockTimeout, LockTimeoutLate, Unlock,
         UnlockError, LockFault
<1>4. ASSUME keys' = keys
      PROVE  /\ DOMAIN keys' \subseteq live' /\ keys' \in [DOMAIN keys' -> SUBSET DOMAIN keys']
             /\ KeysOrdered' /\ \A t \in DOMAIN keys : Owns(t) => Owns(t)'
  BY <1>1, <1>2, <1>4 DEF KeysOrdered, Owns
<1>5. ASSUME keys' = WithoutKey(Lease(r))
      PROVE  /\ DOMAIN keys' \subseteq live' /\ keys' \in [DOMAIN keys' -> SUBSET DOMAIN keys']
             /\ KeysOrdered'
             /\ \A t \in DOMAIN keys : Owns(t) /\ t # Lease(r) => Owns(t)'
  BY <1>1, <1>2, <1>5, KeyGone
<1>6. CASE NewSessionError(r)
  <2>1. /\ To(r, "stopped") /\ run[r].pc = "start" /\ UNCHANGED <<keys, rc, lateDeletes, robbed>>
    BY <1>6 DEF NewSessionError, At, vars, syncVars
  <2>2. rc'[r] = NoPass
    BY <1>1, <2>1 DEF PassHolds
  <2> QED BY <1>1, <1>2, <1>3, <1>4, <2>1, <2>2, Moves DEF Pcs
<1>7. CASE Lock(r) \/ LockError(r)
  <2>1. /\ run[r].pc = "tick" /\ Lease(r) \in live /\ keys' = WithKey(Lease(r))
        /\ UNCHANGED <<rc, lateDeletes, robbed>>
    BY <1>7 DEF Lock, LockError, At, vars, syncVars
  <2>2. PICK pc \in {"tick", "wait"} : To(r, pc)
    <3>1. CASE Lock(r)
      BY <3>1 DEF Lock
    <3>2. CASE LockError(r)
      <4>1. run' = run
        BY <3>2 DEF LockError
      <4>2. run[r] = [run[r] EXCEPT !.pc = "tick"]
        BY <2>1, <1>1
      <4>3. run = [run EXCEPT ![r] = run[r]]
        BY <1>1
      <4> QED BY <4>1, <4>2, <4>3 DEF To
    <3> QED BY <1>7, <3>1, <3>2
  <2>3. rc'[r] = NoPass
    BY <1>1, <2>1 DEF PassHolds
  <2>4. PICK t : t = Lease(r)
    OBVIOUS
  <2>5. /\ DOMAIN keys' \subseteq live' /\ keys' \in [DOMAIN keys' -> SUBSET DOMAIN keys']
        /\ KeysOrdered' /\ \A k \in DOMAIN keys : Owns(k) => Owns(k)'
    BY <1>2, <2>1, <2>4, KeyPut
  <2> QED BY <1>1, <1>2, <1>3, <2>1, <2>2, <2>3, <2>5, Moves DEF Pcs
<1>8. CASE LockAcquired(r)
  <2>1. /\ To(r, "pass") /\ run[r].pc = "wait" /\ UNCHANGED <<keys, lateDeletes>> /\ Owns(Lease(r))
        /\ robbed' = robbed \ {Lease(r)} /\ \A q \in Reconcilers : q # r => rc'[q] = rc[q]
    BY <1>8, RcFunction DEF LockAcquired, At, StartPass
  <2>2. robbed' \subseteq Session /\ \A t \in robbed : t # Lease(r) => t \in robbed'
    BY <1>1, <2>1
  <2> QED BY <1>1, <1>2, <1>3, <1>4, <2>1, <2>2, Moves DEF Pcs
<1>9. ASSUME run[r].pc \notin {"start", "stopped"}
      PROVE  Lease(r) \in Session
  BY <1>1, <1>9 DEF SessionsOwn, Session, Lease
<1>10. CASE LockTimeout(r) \/ LockTimeoutLate(r)
  <2>1. /\ To(r, "tick") /\ run[r].pc = "wait" /\ UNCHANGED <<rc, robbed>>
        /\ (keys' = keys \/ keys' = WithoutKey(Lease(r)))
        /\ (lateDeletes' = lateDeletes \/ lateDeletes' = lateDeletes \cup {Lease(r)})
    BY <1>10 DEF LockTimeout, LockTimeoutLate, At, vars, syncVars
  <2>2. rc'[r] = NoPass
    BY <1>1, <2>1 DEF PassHolds
  <2>3. lateDeletes' \subseteq Session
    BY <1>1, <1>9, <2>1
  <2> QED BY <1>1, <1>2, <1>3, <1>4, <1>5, <2>1, <2>2, <2>3, Moves DEF Pcs
<1>11. CASE Unlock(r) \/ UnlockError(r)
  <2>1. /\ To(r, "tick") /\ run[r].pc = "pass" /\ rc[r] = NoPass /\ UNCHANGED <<rc, robbed>>
        /\ (keys' = keys \/ keys' = WithoutKey(Lease(r)))
        /\ (lateDeletes' = lateDeletes \/ lateDeletes' = lateDeletes \cup {Lease(r)})
    BY <1>11 DEF Unlock, UnlockError, At, vars, syncVars
  <2>2. lateDeletes' \subseteq Session
    BY <1>1, <1>9, <2>1
  <2> QED BY <1>1, <1>2, <1>3, <1>4, <1>5, <2>1, <2>2, Moves DEF Pcs
<1> QED BY <1>6, <1>7, <1>8, <1>10, <1>11

\* A key goes without its replica's doing, which is marked or has lost its lease.
LEMMA KeyTaken ==
  ASSUME LockInv, NEW s, keys' = WithoutKey(s), UNCHANGED <<run, rc>>,
         live' \subseteq live, robbed \ {s} \subseteq robbed',
         s \in live' => robbed \cup ({s} \cap DOMAIN keys) \subseteq robbed'
  PROVE  PassHolds'
<1> SUFFICES ASSUME NEW q \in Reconcilers, run[q].pc = "pass", Unharmed(q)'
             PROVE  Owns(Lease(q))'
  BY DEF LockInv, PassHolds
<1>1. PICK t : t = Lease(q) /\ t = Lease(q)'
  BY DEF Lease
<1>2. t \in live' /\ t \notin robbed' /\ t \in live /\ t \notin robbed
  BY <1>1 DEF Unharmed
<1>3. Owns(t) /\ t \in DOMAIN keys
  BY <1>1, <1>2 DEF LockInv, PassHolds, Unharmed, Owns
<1>4. t # s
  BY <1>2, <1>3
<1>5. Owns(t)'
  BY <1>3, <1>4, KeyGone
<1> QED BY <1>1, <1>5 DEF Owns

LEMMA ExpireInv ==
  ASSUME LockInv, NEW s \in live, Expire(s), lockFaults' \in Nat
  PROVE  LockInv'
<1>1. LockTypeOK /\ SessionsOwn
  BY DEF LockInv
<1>2. /\ live' = live \ {s} /\ keys' = WithoutKey(s) /\ UNCHANGED <<run, sessions, rc>>
      /\ lateDeletes' = lateDeletes \ {s} /\ robbed' = robbed \ {s}
  BY DEF Expire, vars, syncVars
<1>3. /\ DOMAIN keys' = DOMAIN keys \ {s}
      /\ keys' \in [DOMAIN keys' -> SUBSET DOMAIN keys']
      /\ KeysOrdered'
  BY <1>2, KeyGone
<1>4. LockTypeOK'
  BY <1>1, <1>2, <1>3 DEF LockTypeOK
<1>5. SessionsOwn'
  BY <1>1, <1>2 DEF SessionsOwn
<1>6. PassHolds'
  BY <1>2, KeyTaken
<1> QED BY <1>3, <1>4, <1>5, <1>6 DEF LockInv

LEMMA LateDeleteInv ==
  ASSUME LockInv, NEW s \in lateDeletes, LateDelete(s)
  PROVE  LockInv'
<1>1. LockTypeOK /\ SessionsOwn
  BY DEF LockInv
<1>2. /\ keys' = WithoutKey(s) /\ UNCHANGED <<run, live, sessions, lockFaults, rc>>
      /\ lateDeletes' = lateDeletes \ {s} /\ robbed' = robbed \cup ({s} \cap DOMAIN keys)
  BY DEF LateDelete, vars, syncVars
<1>3. /\ DOMAIN keys' = DOMAIN keys \ {s}
      /\ keys' \in [DOMAIN keys' -> SUBSET DOMAIN keys']
      /\ KeysOrdered'
  BY <1>2, KeyGone
<1>4. LockTypeOK'
  BY <1>1, <1>2, <1>3 DEF LockTypeOK
<1>5. SessionsOwn'
  BY <1>1, <1>2 DEF SessionsOwn
<1>6. PassHolds'
  BY <1>2, KeyTaken
<1> QED BY <1>3, <1>4, <1>5, <1>6 DEF LockInv

LEMMA CrashLockedInv ==
  ASSUME LockInv, NEW R \in Replicas, CrashLocked(R)
  PROVE  LockInv'
<1>1. LockTypeOK /\ KeysOrdered /\ SessionsOwn /\ PassHolds
  BY DEF LockInv
<1>2. /\ \A q \in Reconcilers : /\ run'[q] = IF q \in R THEN Starting ELSE run[q]
                                /\ rc'[q] = IF q \in R THEN NoPass ELSE rc[q]
      /\ UNCHANGED <<keys, live, sessions, lateDeletes, robbed, lockFaults>>
  BY DEF CrashLocked, Crash, deleteVars
<1>3. run' \in [Reconcilers -> [pc : Pcs, session : 0..MaxSessions]]
  <2>1. Starting \in [pc : Pcs, session : 0..MaxSessions]
    BY LockConstants DEF Starting, Pcs
  <2> QED BY <1>1, <2>1 DEF CrashLocked, LockTypeOK, Pcs
<1>4. LockTypeOK'
  BY <1>1, <1>2, <1>3 DEF LockTypeOK, Pcs
<1>5. SessionsOwn'
  <2>1. \A q \in Reconcilers : sessions[q] \in Nat /\ sessions[q] >= 0
    BY <1>1, LockConstants DEF LockTypeOK
  <2> QED BY <1>1, <1>2, <2>1 DEF SessionsOwn, Starting
<1>6. PassHolds'
  BY <1>1, <1>2 DEF PassHolds, Owns, Starting, Unharmed, Lease
<1> QED BY <1>1, <1>2, <1>4, <1>5, <1>6 DEF LockInv, KeysOrdered

LEMMA LockNextInv ==
  ASSUME LockInv, SyncInv, [LockedNext]_lockedVars
  PROVE  LockInv'
<1>1. CASE OtherStep /\ UNCHANGED lockVars
  BY <1>1, OtherKeeps, LockAlone
<1>2. ASSUME NEW r \in Reconcilers, RunStep(r)
      PROVE  LockInv'
  BY <1>2, NewSessionInv, RunInv, ReconcileKeeps, LockAlone DEF RunStep
<1>3. ASSUME NEW r \in Reconcilers, SessionLost(r)
      PROVE  LockInv'
  <2>1. PICK s : s = Lease(r)
    OBVIOUS
  <2>2. s \in live /\ Expire(s) /\ lockFaults' \in Nat
    BY <1>3, <2>1 DEF SessionLost, Expire, LockFault, LockInv, LockTypeOK
  <2> QED BY <2>2, ExpireInv
<1>4. ASSUME NEW r \in Reconcilers, LockFailure(r)
      PROVE  LockInv'
  BY <1>3, <1>4, RunInv DEF LockFailure
<1>5. ASSUME NEW R \in Replicas, CrashLocked(R)
      PROVE  LockInv'
  BY <1>5, CrashLockedInv
<1>6. CASE OrphanExpires
  <2>1. lockFaults' \in Nat
    BY <1>6 DEF OrphanExpires, LockInv, LockTypeOK
  <2> QED BY <1>6, <2>1, ExpireInv DEF OrphanExpires
<1>7. ASSUME NEW s \in lateDeletes, LateDelete(s)
      PROVE  LockInv'
  BY <1>7, LateDeleteInv
<1>8. CASE UNCHANGED lockedVars
  BY <1>8, LockAlone DEF lockedVars, vars, syncVars, NoNewPass
<1> QED BY <1>1, <1>2, <1>4, <1>5, <1>6, <1>7, <1>8 DEF LockedNext

-----------------------------------------------------------------------------
\* The inductive invariant of the lock, for any number of replicas, sessions
\* and failures of Run's Lock and Unlock.
THEOREM LockInvariant == LockedSpec => []LockInv
<1>1. LockInit => LockInv
  BY LockInitInv
<1>2. LockInv /\ (RepoInv /\ SyncInv) /\ [LockedNext]_lockedVars => LockInv'
  BY LockNextInv
<1> QED BY <1>1, <1>2, LockedRefinesSync, SyncInvariant, PTL DEF LockedSpec

\* Two reconcilers that have their sessions, and their keys, are never in a
\* pass at once.
THEOREM OnePassAlways == LockedSpec => []OnePass
<1>1. LockInv => OnePass
  <2> SUFFICES ASSUME LockInv, NEW q \in Reconcilers, NEW r \in Reconcilers,
                      rc[q] # NoPass, Unharmed(q), rc[r] # NoPass, Unharmed(r)
               PROVE  q = r
    BY DEF OnePass
  <2>1. Owns(Lease(q)) /\ Owns(Lease(r))
    BY DEF LockInv, PassHolds
  <2>2. Lease(q) = Lease(r)
    BY <2>1 DEF LockInv, KeysOrdered, Owns
  <2> QED BY <2>2 DEF Lease
<1> QED BY <1>1, LockInvariant, PTL

\* What the outbox and the repository guarantee holds under the lock too.
THEOREM LockedKeepsPromises ==
  LockedSpec => [](CompletedIsPublished /\ PublishedWasCommitted) /\ NeverOlder
<1> QED BY LockedRefinesSync, CompletedIsPublishedAlways, PublishedWasCommittedAlways,
           SyncNeverOlder, PTL
=============================================================================
