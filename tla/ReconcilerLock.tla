--------------------------- MODULE ReconcilerLock ---------------------------
(***************************************************************************)
(* The write path with the lock of the reconcilers (Reconciler.Run).       *)
(*                                                                         *)
(* The lock is etcd's concurrency.Mutex, external.  Every replica makes    *)
(* one session, a lease that is kept alive in the background, when Run     *)
(* starts.  Lock puts a key under the lease and waits until all the keys   *)
(* that were there before are gone; etcd deletes a key when its lease      *)
(* expires.  Run never looks at session.Done.                              *)
(***************************************************************************)
EXTENDS FeatureSync

CONSTANTS MaxSessions,   \* bound on the sessions a replica makes
          LockBudget     \* bound on the failures of the lock

ASSUME LockConstants ==
  /\ MaxSessions \in Nat
  /\ LockBudget \in Nat

VARIABLES run,          \* run[r]: Run of reconciler r, and its session
          keys,         \* keys[s]: the keys session s waits for, if it has one
          live,         \* sessions whose lease has not expired
          sessions,     \* sessions[r]: sessions made by reconciler r
          lateDeletes,  \* sessions whose key a failed Delete may still take
          robbed,       \* sessions whose key one took (history variable)
          lockFaults

deleteVars == <<lateDeletes, robbed>>
lockVars   == <<run, keys, live, sessions, deleteVars, lockFaults>>
lockedVars == <<vars, lockVars>>

\* The n-th session of reconciler r, and the one it has now.
Session  == Reconcilers \X (1..MaxSessions)
Lease(r) == <<r, run[r].session>>

Starting == [pc |-> "start", session |-> 0]

LockInit ==
  /\ SyncInit
  /\ run = [r \in Reconcilers |-> Starting]
  /\ keys = [s \in {} |-> {}]
  /\ live = {}
  /\ sessions = [r \in Reconcilers |-> 0]
  /\ lateDeletes = {}
  /\ robbed = {}
  /\ lockFaults = 0

LockFault ==
  /\ lockFaults < LockBudget
  /\ lockFaults' = lockFaults + 1

-----------------------------------------------------------------------------
(* etcd's side of the mutex.                                               *)

\* The key of s is put, behind those that are there, unless it is there.
WithKey(s) ==
  [t \in DOMAIN keys \cup {s} |-> IF t \in DOMAIN keys THEN keys[t] ELSE DOMAIN keys]

\* A mutation of WithoutKey: whoever waits for s is let in.
WithoutKey_LetsIn(s) ==
  [t \in DOMAIN keys \ {s} |-> IF s \in keys[t] THEN {} ELSE keys[t]]

WithoutKey(s) == [t \in DOMAIN keys \ {s} |-> keys[t] \ {s}]

\* The key of s is the oldest.
Owns(s) == s \in DOMAIN keys /\ keys[s] = {}

At(r, pc) == run[r].pc = pc
To(r, pc) == run' = [run EXCEPT ![r].pc = pc]

-----------------------------------------------------------------------------
(* Run.                                                                    *)

NewSession(r) ==
  /\ At(r, "start")
  /\ sessions[r] < MaxSessions
  /\ sessions' = [sessions EXCEPT ![r] = @ + 1]
  /\ live' = live \cup {<<r, sessions'[r]>>}
  /\ run' = [run EXCEPT ![r] = [pc |-> "tick", session |-> sessions'[r]]]
  /\ UNCHANGED <<keys, deleteVars, lockFaults, vars>>

\* Run returns, and this replica reconciles no more.
NewSessionError(r) ==
  /\ At(r, "start")
  /\ To(r, "stopped")
  /\ LockFault
  /\ UNCHANGED <<keys, live, sessions, deleteVars, vars>>

\* The ticker fires and Lock puts the key.  (Without the lease Lock fails, and
\* the loop goes on as if nothing had happened.)
Lock(r) ==
  /\ At(r, "tick")
  /\ Lease(r) \in live
  /\ keys' = WithKey(Lease(r))
  /\ To(r, "wait")
  /\ UNCHANGED <<live, sessions, deleteVars, lockFaults, vars>>

\* Lock fails although the key was put: it stays until the next attempt.
LockError(r) ==
  /\ At(r, "tick")
  /\ Lease(r) \in live
  /\ keys' = WithKey(Lease(r))
  /\ LockFault
  /\ UNCHANGED <<run, live, sessions, deleteVars, vars>>

\* No older key is left and the own one is still there: reconcile begins.
LockAcquired(r) ==
  /\ At(r, "wait")
  /\ Owns(Lease(r))
  /\ StartPass(r)
  /\ To(r, "pass")
  /\ robbed' = robbed \ {Lease(r)}
  /\ UNCHANGED <<keys, live, sessions, lateDeletes, lockFaults>>

\* The five seconds are over: Lock takes its key back, and the round is skipped.
\* Or the key has gone, with the lease or by a late Delete, and Lock returns
\* ErrSessionExpired.
LockTimeout(r) ==
  /\ At(r, "wait")
  /\ ~Owns(Lease(r))
  /\ keys' = WithoutKey(Lease(r))
  /\ To(r, "tick")
  /\ UNCHANGED <<live, sessions, deleteVars, lockFaults, vars>>

\* The Delete of the own key fails: the key stays, and etcd may still carry it
\* out.
DeleteFails(r) ==
  /\ lateDeletes' = lateDeletes \cup {Lease(r)}
  /\ UNCHANGED <<keys, robbed>>

\* They are over just when the key is the oldest, or it cannot be taken back.
LockTimeoutLate(r) ==
  /\ At(r, "wait")
  /\ \/ keys' = WithoutKey(Lease(r)) /\ UNCHANGED deleteVars
     \/ DeleteFails(r)
  /\ To(r, "tick")
  /\ LockFault
  /\ UNCHANGED <<live, sessions, vars>>

\* A mutation of Unlock: the lock is released before the pass.
Unlock_Early(r) ==
  /\ At(r, "pass")
  /\ keys' = WithoutKey(Lease(r))
  /\ IF rc[r] = NoPass THEN To(r, "tick") ELSE UNCHANGED run
  /\ UNCHANGED <<live, sessions, deleteVars, lockFaults, vars>>

\* reconcile has returned, for whatever reason.
Unlock(r) ==
  /\ At(r, "pass")
  /\ rc[r] = NoPass
  /\ keys' = WithoutKey(Lease(r))
  /\ To(r, "tick")
  /\ UNCHANGED <<live, sessions, deleteVars, lockFaults, vars>>

\* The error is logged: the key stays until the next attempt, or until etcd
\* carries out the Delete, perhaps after the replica has locked again.
UnlockError(r) ==
  /\ At(r, "pass")
  /\ rc[r] = NoPass
  /\ DeleteFails(r)
  /\ To(r, "tick")
  /\ LockFault
  /\ UNCHANGED <<live, sessions, vars>>

\* The key is named after the lease: a Delete of an earlier Unlock takes the
\* key that a later Lock relies on, and nobody tells its owner.
LateDelete(s) ==
  /\ s \in lateDeletes
  /\ lateDeletes' = lateDeletes \ {s}
  /\ keys' = WithoutKey(s)
  /\ robbed' = robbed \cup ({s} \cap DOMAIN keys)
  /\ UNCHANGED <<run, live, sessions, lockFaults, vars>>

-----------------------------------------------------------------------------
(* Leases.                                                                 *)

Expire(s) ==
  /\ s \in live
  /\ live' = live \ {s}
  /\ keys' = WithoutKey(s)
  /\ lateDeletes' = lateDeletes \ {s}
  /\ robbed' = robbed \ {s}
  /\ UNCHANGED <<run, sessions, vars>>

\* A session whose process is gone is kept alive by nobody.
Orphaned(s) == \A r \in Reconcilers : Lease(r) # s

OrphanExpires ==
  /\ \E s \in live : Orphaned(s) /\ Expire(s)
  /\ UNCHANGED lockFaults

\* A partition, or a process that is not scheduled, lasts longer than the TTL.
SessionLost(r) ==
  /\ Expire(Lease(r))
  /\ LockFault

\* A replica dies and is started again: its session is left behind.
CrashLocked(R) ==
  /\ Crash(R)
  /\ run' = [r \in Reconcilers |-> IF r \in R THEN Starting ELSE run[r]]
  /\ UNCHANGED <<keys, live, sessions, deleteVars, lockFaults>>

-----------------------------------------------------------------------------
RunStep(r) ==
  \/ NewSession(r) \/ Lock(r) \/ LockAcquired(r) \/ LockTimeout(r) \/ Unlock(r)
  \/ Reconcile(r) /\ UNCHANGED lockVars

LockFailure(r) ==
  \/ NewSessionError(r) \/ LockError(r) \/ LockTimeoutLate(r) \/ UnlockError(r) \/ SessionLost(r)

\* The steps of everybody else.
OtherStep ==
  \/ \E w \in Writers : Request(w) \/ WriterStep(w)
  \/ \E p \in Workers : WorkerStep(p)
  \/ \E c \in Callers : EtcdStep(c)
  \/ \E t \in late : LateTxn(t) /\ UNCHANGED syncVars
  \/ StepFailure

LockedNext ==
  \/ OtherStep /\ UNCHANGED lockVars
  \/ \E r \in Reconcilers : RunStep(r) \/ LockFailure(r)
  \/ \E R \in Replicas : CrashLocked(R)
  \/ OrphanExpires
  \/ \E s \in lateDeletes : LateDelete(s)

\* As for FeatureSync; a lease that nobody renews expires.
LockedFairness ==
  /\ \A w \in Writers : WF_lockedVars(WriterStep(w) /\ UNCHANGED lockVars)
  /\ \A p \in Workers : WF_lockedVars(WorkerStep(p) /\ UNCHANGED lockVars)
  /\ \A c \in Callers : WF_lockedVars(EtcdStep(c) /\ UNCHANGED lockVars)
  /\ \A r \in Reconcilers : WF_lockedVars(RunStep(r))
  /\ WF_lockedVars(OrphanExpires)

LockedSpec     == LockInit /\ [][LockedNext]_lockedVars
FairLockedSpec == LockedSpec /\ LockedFairness

-----------------------------------------------------------------------------
(* What the lock guarantees.                                               *)

LockTypeOK ==
  /\ run \in [Reconcilers -> [pc : {"start", "stopped", "tick", "wait", "pass"},
                              session : 0..MaxSessions]]
  /\ DOMAIN keys \subseteq live
  /\ keys \in [DOMAIN keys -> SUBSET DOMAIN keys]
  /\ live \subseteq Session
  /\ sessions \in [Reconcilers -> 0..MaxSessions]
  /\ lateDeletes \subseteq Session
  /\ robbed \subseteq Session
  /\ lockFaults \in Nat

\* Of two keys one is older.
KeysOrdered ==
  \A s, t \in DOMAIN keys : s = t \/ s \in keys[t] \/ t \in keys[s]

\* A process has the last session its replica made; a new one is new to etcd.
SessionsOwn ==
  \A r \in Reconcilers :
    /\ run[r].session <= sessions[r]
    /\ run[r].session = 0 <=> run[r].pc \in {"start", "stopped"}
    /\ \A s \in live : s[1] = r => s[2] <= sessions[r]

\* Nothing has taken the session of r, or its key, away.
Unharmed(r) == Lease(r) \in live \ robbed

\* A pass runs between Lock and Unlock, and has the lock as long as it has its
\* session and its key.
PassHolds ==
  \A r \in Reconcilers :
    /\ rc[r] # NoPass => run[r].pc = "pass"
    /\ run[r].pc = "pass" /\ Unharmed(r) => Owns(Lease(r))

LockInv == LockTypeOK /\ KeysOrdered /\ SessionsOwn /\ PassHolds

(* Reconciliation passes of two replicas overlap only if one of them has   *)
(* lost its session, or its key to a Delete that failed for its earlier    *)
(* Unlock and was carried out now.  Timeouts, failed unlocks as such, keys *)
(* left behind by errors and dead processes never let two holders in.      *)
OnePass ==
  \A q, r \in Reconcilers :
    (rc[q] # NoPass /\ Unharmed(q) /\ rc[r] # NoPass /\ Unharmed(r)) => q = r

\* Run of r can still reconcile.
Able(r) == run[r].pc # "stopped" /\ (run[r].session = 0 \/ Lease(r) \in live)

(* The drift of published flags is repaired as long as one replica keeps   *)
(* its session, whoever else fails, dies with the lock or leaves a key     *)
(* behind.  A replica that loses its session is out for good: when all     *)
(* have, nothing is repaired any more.                                     *)
RepairedWhileAble == (\E r \in Reconcilers : <>[]Able(r)) => DriftRepaired
=============================================================================
