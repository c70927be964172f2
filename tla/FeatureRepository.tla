-------------------------- MODULE FeatureRepository --------------------------
(***************************************************************************)
(* internal/repository/etcd.go: the versioned write SaveFeatureIfNewer, on *)
(* which every path that publishes a flag rests (the goroutine that        *)
(* SaveFeature spawns, the outbox worker, the reconciler).                 *)
(*                                                                         *)
(* etcd is external: a map from keys to a modification revision and a      *)
(* value, with linearizable Get and Txn.  The value is the flag's JSON, of *)
(* which the code reads back the logical version.  Nothing in the server   *)
(* deletes a feature key.                                                  *)
(*                                                                         *)
(* A caller's call runs through Get and Txn as separate steps, so calls of *)
(* any number of goroutines and replicas interleave.  A Txn that returns   *)
(* an error, or whose process dies while it is on the wire, may be applied *)
(* at any later time or never: it waits in "late".                         *)
(***************************************************************************)
EXTENDS Naturals

CONSTANTS Callers,      \* goroutines that may call the repository
          Keys,         \* feature keys (namespace, environment and name)
          Versions,     \* logical versions
          Values,       \* payloads (type and value)
          NoValue,      \* payload of an absent key
          MaxRetries,   \* conflicts a call survives; maxRetries = 3
          FaultBudget   \* bound on the failures injected in a behaviour

ASSUME RepoConstants ==
  /\ Versions \subseteq Nat \ {0}
  /\ MaxRetries \in Nat
  /\ FaultBudget \in Nat

VARIABLES kv,      \* kv[k]: revision, version and payload; mod = 0 is absent
          rev,     \* etcd's store revision
          call,    \* call[c]: the call of caller c
          late,    \* transactions with an unknown outcome
          faults   \* failures injected so far

repoVars == <<kv, rev, call, late, faults>>

Flag  == [key : Keys, ver : Versions, val : Values]
Entry == [mod : Nat, ver : Nat, val : Values \cup {NoValue}]

NoCall == [pc |-> "idle"]
Call   == [pc : {"get", "txn", "ok", "err"}, flag : Flag, seen : Nat, retries : Nat]
Txn    == [flag : Flag, seen : Nat]

RepoInit ==
  /\ kv = [k \in Keys |-> [mod |-> 0, ver |-> 0, val |-> NoValue]]
  /\ rev = 0
  /\ call = [c \in Callers |-> NoCall]
  /\ late = {}
  /\ faults = 0

-----------------------------------------------------------------------------
(* etcd's transaction: compare the key's revision with the one seen (an    *)
(* absent key has revision 0, which is what the CreateRevision = 0 compare *)
(* tests) and put the flag.                                                *)

Matches(f, seen) == kv[f.key].mod = seen

Put(f) ==
  /\ rev' = rev + 1
  /\ kv' = [kv EXCEPT ![f.key] = [mod |-> rev + 1, ver |-> f.ver, val |-> f.val]]

\* One failure is charged to the budget.
Fault ==
  /\ faults < FaultBudget
  /\ faults' = faults + 1

-----------------------------------------------------------------------------
(* SaveFeatureIfNewer(c, f) and the steps of the call it starts.           *)

SaveFeatureIfNewer(c, f) ==
  /\ call[c] = NoCall
  /\ call' = [call EXCEPT ![c] = [pc |-> "get", flag |-> f, seen |-> 0, retries |-> 0]]
  /\ UNCHANGED <<kv, rev, late, faults>>

\* Get finds a version at least as new: return its revision, write nothing.
GetNewer(c) ==
  /\ call[c].pc = "get"
  /\ kv[call[c].flag.key].mod # 0
  /\ kv[call[c].flag.key].ver >= call[c].flag.ver
  /\ call' = [call EXCEPT ![c].pc = "ok"]
  /\ UNCHANGED <<kv, rev, late, faults>>

\* A mutation of GetOlder: every version but the flag's own is overwritten.
GetOlder_AnyOther(c) ==
  /\ call[c].pc = "get"
  /\ kv[call[c].flag.key].ver # call[c].flag.ver
  /\ call' = [call EXCEPT ![c].pc = "txn", ![c].seen = kv[call[c].flag.key].mod]
  /\ UNCHANGED <<kv, rev, late, faults>>

\* Get finds no key or an older version: go on to write over what was seen.
GetOlder(c) ==
  /\ call[c].pc = "get"
  /\ \/ kv[call[c].flag.key].mod = 0
     \/ kv[call[c].flag.key].ver < call[c].flag.ver
  /\ call' = [call EXCEPT ![c].pc = "txn", ![c].seen = kv[call[c].flag.key].mod]
  /\ UNCHANGED <<kv, rev, late, faults>>

GetError(c) ==
  /\ call[c].pc = "get"
  /\ call' = [call EXCEPT ![c].pc = "err"]
  /\ Fault
  /\ UNCHANGED <<kv, rev, late>>

\* A mutation of TxnPut: a plain Put in place of the transaction.
TxnPut_NoCompare(c) ==
  /\ call[c].pc = "txn"
  /\ Put(call[c].flag)
  /\ call' = [call EXCEPT ![c].pc = "ok"]
  /\ UNCHANGED <<late, faults>>

TxnPut(c) ==
  /\ call[c].pc = "txn"
  /\ Matches(call[c].flag, call[c].seen)
  /\ Put(call[c].flag)
  /\ call' = [call EXCEPT ![c].pc = "ok"]
  /\ UNCHANGED <<late, faults>>

\* A mutation of TxnConflict: the Get is hoisted out of the loop, so that a
\* retry compares with the revision of the first attempt and never gives up.
TxnConflict_NoReread(c) ==
  /\ call[c].pc = "txn"
  /\ ~Matches(call[c].flag, call[c].seen)
  /\ call' = [call EXCEPT ![c].retries = 1 - call[c].retries]
  /\ UNCHANGED <<kv, rev, late, faults>>

\* Another writer came between: read again, or give up after MaxRetries.
TxnConflict(c) ==
  /\ call[c].pc = "txn"
  /\ ~Matches(call[c].flag, call[c].seen)
  /\ LET n == call[c].retries + 1 IN
       call' = [call EXCEPT ![c].pc = IF n > MaxRetries THEN "err" ELSE "get",
                            ![c].seen = 0,
                            ![c].retries = n]
  /\ UNCHANGED <<kv, rev, late, faults>>

\* Commit returns an error: the transaction may still be applied.
TxnError(c) ==
  /\ call[c].pc = "txn"
  /\ late' = late \cup {[flag |-> call[c].flag, seen |-> call[c].seen]}
  /\ call' = [call EXCEPT ![c].pc = "err"]
  /\ Fault
  /\ UNCHANGED <<kv, rev>>

\* etcd applies a transaction whose caller has stopped waiting for it.
LateTxn(t) ==
  /\ t \in late
  /\ Matches(t.flag, t.seen)
  /\ Put(t.flag)
  /\ UNCHANGED <<call, late, faults>>

\* The call of c has an outcome; Return hands it to the caller.
Returned(c) == call[c].pc \in {"ok", "err"}

Return(c) ==
  /\ Returned(c)
  /\ call' = [call EXCEPT ![c] = NoCall]
  /\ UNCHANGED <<kv, rev, late, faults>>

\* A process dies with the goroutines S; requests on the wire are orphaned.
Abandon(S) ==
  /\ call' = [c \in Callers |-> IF c \in S THEN NoCall ELSE call[c]]
  /\ late' = late \cup {[flag |-> call[c].flag, seen |-> call[c].seen] :
                          c \in {d \in S : call[d].pc = "txn"}}
  /\ Fault
  /\ UNCHANGED <<kv, rev>>

\* A failure elsewhere (MySQL) charged to the same budget.
OtherFault ==
  /\ Fault
  /\ UNCHANGED <<kv, rev, call, late>>

\* The steps of a call between its start and its outcome.
CallStep(c) ==
  \/ GetNewer(c) \/ GetOlder(c) \/ TxnPut(c) \/ TxnConflict(c)

CallFault(c) == GetError(c) \/ TxnError(c)

RepoNext ==
  \/ \E c \in Callers : \/ \E f \in Flag : SaveFeatureIfNewer(c, f)
                        \/ CallStep(c)
                        \/ CallFault(c)
                        \/ Return(c)
  \/ \E t \in late : LateTxn(t)
  \/ \E S \in SUBSET Callers : Abandon(S)
  \/ OtherFault

\* etcd answers, or the client reports an error: a call that is under way is
\* scheduled.  Nothing obliges a caller to make another call.
RepoFairness ==
  \A c \in Callers : WF_repoVars(CallStep(c)) /\ WF_repoVars(Return(c))

RepoSpec     == RepoInit /\ [][RepoNext]_repoVars
FairRepoSpec == RepoSpec /\ RepoFairness

-----------------------------------------------------------------------------
(* The inductive invariant.                                                *)

RepoTypeOK ==
  /\ kv \in [Keys -> Entry]
  /\ rev \in Nat
  /\ call \in [Callers -> {NoCall} \cup Call]
  /\ late \subseteq Txn
  /\ faults \in Nat

\* A key's revision is one etcd has issued, and only an absent key is
\* without a version.
EntriesOK ==
  \A k \in Keys : /\ kv[k].mod <= rev
                  /\ kv[k].mod = 0 <=> kv[k].ver = 0

\* Whoever compares with "seen" replaces an older version when it succeeds,
\* because the revision pins the version that was read.
CasGuard(f, seen) ==
  /\ seen <= rev
  /\ Matches(f, seen) => kv[f.key].ver < f.ver

CallsGuarded ==
  \A c \in Callers : call[c].pc = "txn" => CasGuard(call[c].flag, call[c].seen)

LateGuarded == \A t \in late : CasGuard(t.flag, t.seen)

(* A call that reports success has made the store at least as new as its   *)
(* flag, however it succeeded and whatever other writers and late          *)
(* transactions did since (etcd.go: the two "return ..., nil" after a Txn  *)
(* and the idempotent early return).  The outbox relies on it: Completed   *)
(* is written after this and never looked at again.                        *)
AckedIsStored ==
  \A c \in Callers :
    call[c].pc = "ok" => kv[call[c].flag.key].ver >= call[c].flag.ver

RepoInv ==
  RepoTypeOK /\ EntriesOK /\ CallsGuarded /\ LateGuarded /\ AckedIsStored

\* A step that changes a key raises its version.
Upward == \A k \in Keys : kv'[k] = kv[k] \/ kv'[k].ver > kv[k].ver

(* No step ever takes a published flag back: a key's version never goes    *)
(* down, and the payload published under one version is never replaced by  *)
(* another payload under the same version.                                 *)
NeverOlder == [][Upward]_repoVars

-----------------------------------------------------------------------------
(* SaveFeatureIfNewer implements the versioned register.                   *)

AbstractOp(x) ==
  IF x = NoCall THEN [st |-> "idle"]
  ELSE [st |-> IF x.pc \in {"get", "txn"} THEN "pending" ELSE x.pc, flag |-> x.flag]

AbstractStore   == [k \in Keys |-> [ver |-> kv[k].ver, val |-> kv[k].val]]
AbstractOps     == [c \in Callers |-> AbstractOp(call[c])]
AbstractOrphans == {t.flag : t \in late}

Register == INSTANCE VersionedRegister
              WITH store <- AbstractStore, op <- AbstractOps, orphans <- AbstractOrphans

(* The Get/compare/Txn loop, with its retries, conflicts, errors and late  *)
(* transactions, looks to every caller like one atomic step per call: the  *)
(* flag replaces a strictly older version, or the store is left alone.     *)
ImplementsRegister == Register!RegSpec

(* A call always ends (or its process does): the retry loop of             *)
(* SaveFeatureIfNewer cannot spin, because every conflict is counted and   *)
(* followed by a fresh Get.                                                *)
CallsEnd ==
  \A c \in Callers : call[c].pc = "get" ~> call[c].pc \in {"ok", "err", "idle"}
=============================================================================
