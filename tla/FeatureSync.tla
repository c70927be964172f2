----------------------------- MODULE FeatureSync -----------------------------
(***************************************************************************)
(* The write path of a flag, from the request to etcd:                     *)
(*                                                                         *)
(*   internal/service/feature.go     SaveFeature, RollbackFeature and the  *)
(*                                   goroutine syncToEtcd they leave behind*)
(*   internal/service/worker.go      OutboxWorker                          *)
(*   internal/service/reconciler.go  Reconciler, its lock left out         *)
(*   internal/repository/*.go        the MySQL tables they share           *)
(*                                                                         *)
(* MySQL is external: committed rows, in id order, as sequences.  A        *)
(* transaction of SaveFeature is two steps: the plain SELECT that opens    *)
(* its snapshot (REPEATABLE READ, no FOR UPDATE) and the commit, before    *)
(* which its writes are invisible and row locks serialise writers.         *)
(*                                                                         *)
(* Every replica runs request goroutines, one outbox worker and one        *)
(* reconciler; a replica's goroutines die together.  Replicas are not      *)
(* assumed to exclude each other: SaveFeatureIfNewer is meant to make that *)
(* unnecessary.                                                            *)
(***************************************************************************)
EXTENDS FeatureRepository, Sequences, FiniteSets

CONSTANTS Writers,         \* SaveFeature requests with their sync goroutine
          Workers,         \* outbox workers, one per replica
          Reconcilers,     \* reconcilers, one per replica
          Replicas,        \* the sets of goroutines that die together
          Types, Raws,     \* a payload is a type and the raw value string
          EmptyRaw,        \* the empty string, OldValue of a first audit row
          ValidValues,     \* the payloads validatePayload accepts
          MaxTasks,        \* bound on the saves of a behaviour
          MaxTaskRetries,  \* attempts before a task fails; 5 in the code
          FetchLimit,      \* tasks per FetchPending; 10 in the code
          BatchSize        \* rows per ListByPage; 100 by default

ASSUME SyncConstants ==
  /\ Callers = Writers \cup Workers \cup Reconcilers
  /\ Writers \cap Workers = {}
  /\ Writers \cap Reconcilers = {}
  /\ Workers \cap Reconcilers = {}
  /\ Replicas \subseteq SUBSET Callers
  /\ Values = [type : Types, raw : Raws]
  /\ EmptyRaw \in Raws
  /\ ValidValues \subseteq Values
  /\ MaxTasks \in Nat
  /\ MaxTaskRetries \in Nat \ {0}
  /\ FetchLimit \in Nat \ {0}
  /\ BatchSize \in Nat \ {0}

VARIABLES master,   \* table feature_masters: a sequence of flags
          audits,   \* table feature_audits
          outbox,   \* table outbox_tasks
          wr,       \* wr[w]: a request and its sync goroutine
          wk,       \* wk[p]: an outbox worker's pass
          rc        \* rc[r]: a reconciler's pass

syncVars == <<master, audits, outbox, wr, wk, rc>>
vars     == <<repoVars, syncVars>>

Audit  == [key : Keys, old : Raws, new : Values]
Task   == [flag : Flag, status : {"pending", "completed", "failed"}, retry : Nat]

Id      == Nat \ {0}
TaskRef == [id : Id, retry : Nat]     \* a task as FetchPending returned it
Row     == [id : Id, flag : Flag]     \* a master row as ListByPage returned it

NoWriter == [pc |-> "idle"]
NoWorker == [pc |-> "run", batch |-> {}]
NoPass   == [pc |-> "idle"]

Writer ==
       [pc : {"rollback"}, key : Keys, val : Values, want : Nat]
  \cup [pc : {"tx"}, key : Keys, val : Values, want : Nat,
        base : Nat, ver : Versions, old : Raws, saved : BOOLEAN]
  \cup [pc : {"sync", "mark"}, id : Id]

Worker == [pc : {"run"}, batch : SUBSET TaskRef]
     \cup [pc : {"sync"}, batch : SUBSET TaskRef, task : TaskRef]
     \cup [pc : {"update"}, batch : SUBSET TaskRef, id : Id,
           status : {"pending", "completed", "failed"}, retry : Nat]

Pass   == [pc : {"scan", "fix"}, offset : Nat, page : SUBSET Row]

SyncInit ==
  /\ RepoInit
  /\ master = <<>>
  /\ audits = <<>>
  /\ outbox = <<>>
  /\ wr = [w \in Writers |-> NoWriter]
  /\ wk = [p \in Workers |-> NoWorker]
  /\ rc = [r \in Reconcilers |-> NoPass]

-----------------------------------------------------------------------------
(* Requests.                                                               *)

\* First of GetByKey: the row with the lowest id, 0 when there is none.
IsFirstRow(k, i) ==
  \/ /\ i \in DOMAIN master
     /\ master[i].key = k
     /\ \A j \in DOMAIN master : j < i => master[j].key # k
  \/ /\ i = 0
     /\ \A j \in DOMAIN master : master[j].key # k

Version(i) == IF i = 0 THEN 0 ELSE master[i].ver
OldRaw(i)  == IF i = 0 THEN EmptyRaw ELSE master[i].val.raw

\* The bound on saves counts the ones that have not committed yet.
MoreSaves ==
  Len(outbox) + Cardinality({w \in Writers : wr[w].pc \in {"rollback", "tx"}}) < MaxTasks

\* SaveFeature up to the SELECT of its transaction.  The version that the
\* caller passed in ("want") is not looked at.  Versions bounds the counter.
BeginTx(w, k, v, want) ==
  /\ v \in ValidValues
  /\ \E i \in 0..Len(master) :
       /\ IsFirstRow(k, i)
       /\ Version(i) + 1 \in Versions
       /\ wr' = [wr EXCEPT ![w] = [pc |-> "tx", key |-> k, val |-> v, want |-> want,
                                   base |-> i, ver |-> Version(i) + 1, old |-> OldRaw(i),
                                   saved |-> TRUE]]
  /\ UNCHANGED <<repoVars, master, audits, outbox, wk, rc>>

SaveFeature(w, k, v) ==
  /\ wr[w] = NoWriter
  /\ MoreSaves
  /\ BeginTx(w, k, v, 0)

\* RollbackFeature up to its call of SaveFeature: the audit row and the
\* current version.  The payload to restore is the audit's old value under
\* the audit's type.  (An audit row of another key is refused.)
RollbackFeature(w, a) ==
  /\ wr[w] = NoWriter
  /\ MoreSaves
  /\ \E i \in 0..Len(master) :
       /\ IsFirstRow(audits[a].key, i)
       /\ wr' = [wr EXCEPT ![w] = [pc |-> "rollback", key |-> audits[a].key,
                                   val |-> [type |-> audits[a].new.type,
                                            raw |-> audits[a].old],
                                   want |-> Version(i)]]
  /\ UNCHANGED <<repoVars, master, audits, outbox, wk, rc>>

RollbackSave(w) ==
  /\ wr[w].pc = "rollback"
  /\ BeginTx(w, wr[w].key, wr[w].val, wr[w].want)

\* validatePayload refuses the value to restore.
RollbackInvalid(w) ==
  /\ wr[w].pc = "rollback"
  /\ wr[w].val \notin ValidValues
  /\ wr' = [wr EXCEPT ![w] = NoWriter]
  /\ UNCHANGED <<repoVars, master, audits, outbox, wk, rc>>

TxFlag(w) == [key |-> wr[w].key, ver |-> wr[w].ver, val |-> wr[w].val]

\* The audit and outbox rows of the transaction, and the goroutine that
\* SaveFeature starts once it has committed.
Record(w) ==
  /\ audits' = Append(audits, [key |-> wr[w].key, old |-> wr[w].old, new |-> wr[w].val])
  /\ outbox' = Append(outbox, [flag |-> TxFlag(w), status |-> "pending", retry |-> 0])
  /\ wr' = [wr EXCEPT ![w] = [pc |-> "sync", id |-> Len(outbox) + 1]]

\* The error of txFeature.Save (a lock wait timeout, say) is dropped: the
\* transaction goes on without the master row.
MasterSaveError(w) ==
  /\ wr[w].pc = "tx"
  /\ wr[w].saved
  /\ wr' = [wr EXCEPT ![w].saved = FALSE]
  /\ OtherFault
  /\ UNCHANGED <<master, audits, outbox, wk, rc>>

\* Save writes the whole row that was read, or inserts one.
SaveMaster(w) ==
  master' = IF ~wr[w].saved THEN master
            ELSE IF wr[w].base = 0 THEN Append(master, TxFlag(w))
            ELSE [master EXCEPT ![wr[w].base] = TxFlag(w)]

\* The transaction commits, and "go syncToEtcd" starts.
TxCommit(w) ==
  /\ wr[w].pc = "tx"
  /\ SaveMaster(w)
  /\ Record(w)
  /\ SaveFeatureIfNewer(w, TxFlag(w))
  /\ UNCHANGED <<wk, rc>>

\* A mutation of TxAbort: the goroutine is started before the error of the
\* transaction is looked at.
TxAbort_SyncsAnyway(w) ==
  /\ wr[w].pc = "tx"
  /\ wr' = [wr EXCEPT ![w] = NoWriter]
  /\ call' = [call EXCEPT ![w] = [pc |-> "get", flag |-> TxFlag(w), seen |-> 0, retries |-> 0]]
  /\ Fault
  /\ UNCHANGED <<kv, rev, late, master, audits, outbox, wk, rc>>

\* Any other statement fails: the transaction is rolled back.
TxAbort(w) ==
  /\ wr[w].pc = "tx"
  /\ wr' = [wr EXCEPT ![w] = NoWriter]
  /\ OtherFault
  /\ UNCHANGED <<master, audits, outbox, wk, rc>>

\* syncToEtcd after SaveFeatureIfNewer.
SyncOk(w) ==
  /\ wr[w].pc = "sync"
  /\ call[w].pc = "ok"
  /\ Return(w)
  /\ wr' = [wr EXCEPT ![w].pc = "mark"]
  /\ UNCHANGED <<master, audits, outbox, wk, rc>>

SyncErr(w) ==
  /\ wr[w].pc = "sync"
  /\ call[w].pc = "err"
  /\ Return(w)
  /\ wr' = [wr EXCEPT ![w] = NoWriter]
  /\ UNCHANGED <<master, audits, outbox, wk, rc>>

\* UpdateStatus writes both columns of the row, whatever they hold.
UpdateStatus(id, s, n) ==
  outbox' = [outbox EXCEPT ![id].status = s, ![id].retry = n]

MarkCompleted(w) ==
  /\ wr[w].pc = "mark"
  /\ UpdateStatus(wr[w].id, "completed", 0)
  /\ wr' = [wr EXCEPT ![w] = NoWriter]
  /\ UNCHANGED <<repoVars, master, audits, wk, rc>>

MarkLost(w) ==
  /\ wr[w].pc = "mark"
  /\ wr' = [wr EXCEPT ![w] = NoWriter]
  /\ OtherFault
  /\ UNCHANGED <<master, audits, outbox, wk, rc>>

-----------------------------------------------------------------------------
(* The outbox worker: one pass is a FetchPending and the tasks it returned *)
(* in id order.  A payload is always the JSON of a flag, so the branch for *)
(* a corrupt payload is never taken.                                       *)

Pending == {i \in DOMAIN outbox : outbox[i].status = "pending"}

\* A mutation of FetchPending: the first pending row is skipped.
FetchPending_SkipsFirst(p) ==
  /\ wk[p] = NoWorker
  /\ LET first == {i \in Pending : Cardinality({j \in Pending : j < i}) \in 1..FetchLimit}
     IN wk' = [wk EXCEPT ![p] = [pc |-> "run",
                                 batch |-> {[id |-> i, retry |-> outbox[i].retry] : i \in first}]]
  /\ UNCHANGED <<repoVars, master, audits, outbox, wr, rc>>

FetchPending(p) ==
  /\ wk[p] = NoWorker
  /\ Pending # {}
  /\ LET first == {i \in Pending : Cardinality({j \in Pending : j < i}) < FetchLimit}
     IN wk' = [wk EXCEPT ![p] = [pc |-> "run",
                                 batch |-> {[id |-> i, retry |-> outbox[i].retry] : i \in first}]]
  /\ UNCHANGED <<repoVars, master, audits, outbox, wr, rc>>

NextTask(p) ==
  /\ wk[p].pc = "run"
  /\ \E t \in wk[p].batch :
       /\ \A u \in wk[p].batch : t.id <= u.id
       /\ SaveFeatureIfNewer(p, outbox[t.id].flag)
       /\ wk' = [wk EXCEPT ![p] = [pc |-> "sync", batch |-> wk[p].batch \ {t}, task |-> t]]
  /\ UNCHANGED <<master, audits, outbox, wr, rc>>

\* What SaveFeatureIfNewer returned decides the status to write.
Outcome(p, s, n) ==
  /\ Return(p)
  /\ wk' = [wk EXCEPT ![p] = [pc |-> "update", batch |-> wk[p].batch,
                              id |-> wk[p].task.id, status |-> s, retry |-> n]]
  /\ UNCHANGED <<master, audits, outbox, wr, rc>>

TaskOk(p) ==
  /\ wk[p].pc = "sync"
  /\ call[p].pc = "ok"
  /\ Outcome(p, "completed", wk[p].task.retry)

\* A mutation of TaskErr: the last attempt counts as a completion.
TaskErr_GivesUpCompleted(p) ==
  /\ wk[p].pc = "sync"
  /\ call[p].pc = "err"
  /\ LET n == wk[p].task.retry + 1
     IN Outcome(p, IF n >= MaxTaskRetries THEN "completed" ELSE "pending", n)

TaskErr(p) ==
  /\ wk[p].pc = "sync"
  /\ call[p].pc = "err"
  /\ LET n == wk[p].task.retry + 1
     IN Outcome(p, IF n >= MaxTaskRetries THEN "failed" ELSE "pending", n)

UpdateTask(p) ==
  /\ wk[p].pc = "update"
  /\ UpdateStatus(wk[p].id, wk[p].status, wk[p].retry)
  /\ wk' = [wk EXCEPT ![p] = [pc |-> "run", batch |-> wk[p].batch]]
  /\ UNCHANGED <<repoVars, master, audits, wr, rc>>

\* UpdateStatus fails; the worker logs it at most and goes on.
UpdateLost(p) ==
  /\ wk[p].pc = "update"
  /\ wk' = [wk EXCEPT ![p] = [pc |-> "run", batch |-> wk[p].batch]]
  /\ OtherFault
  /\ UNCHANGED <<master, audits, outbox, wr, rc>>

-----------------------------------------------------------------------------
(* The reconciler: one pass lists the master table page by page and checks *)
(* each row against etcd.                                                  *)

\* A mutation of StartPass: the offset starts at one.
StartPass_FromOne(r) ==
  /\ rc[r] = NoPass
  /\ rc' = [rc EXCEPT ![r] = [pc |-> "scan", offset |-> 1, page |-> {}]]
  /\ UNCHANGED <<repoVars, master, audits, outbox, wr, wk>>

StartPass(r) ==
  /\ rc[r] = NoPass
  /\ rc' = [rc EXCEPT ![r] = [pc |-> "scan", offset |-> 0, page |-> {}]]
  /\ UNCHANGED <<repoVars, master, audits, outbox, wr, wk>>

\* The next page is due when the last one is used up.
PageDue(r) == rc[r].pc = "scan" /\ rc[r].page = {}

\* An empty page ends the pass.
ListByPage(r) ==
  /\ PageDue(r)
  /\ LET page == {[id |-> i, flag |-> master[i]] :
                    i \in {j \in DOMAIN master : /\ j > rc[r].offset
                                                 /\ j <= rc[r].offset + BatchSize}}
     IN rc' = [rc EXCEPT ![r] = IF page = {} THEN NoPass
                                ELSE [pc |-> "scan", offset |-> rc[r].offset + BatchSize,
                                      page |-> page]]
  /\ UNCHANGED <<repoVars, master, audits, outbox, wr, wk>>

\* A failed listing aborts the pass.
ListError(r) ==
  /\ PageDue(r)
  /\ rc' = [rc EXCEPT ![r] = NoPass]
  /\ OtherFault
  /\ UNCHANGED <<master, audits, outbox, wr, wk>>

\* GetFeature fills in key, value and revision, never the version.
GetFeatureVersion(k) == 0

FirstOfPage(r, row) == \A o \in rc[r].page : row.id <= o.id

Checked(r, row, pc) ==
  rc' = [rc EXCEPT ![r] = [pc |-> pc, offset |-> rc[r].offset, page |-> rc[r].page \ {row}]]

\* A mutation of CheckFix: the repair is forced with a version of its own.
CheckFix_ForcesVersion(r) ==
  /\ rc[r].pc = "scan"
  /\ \E row \in rc[r].page :
       /\ FirstOfPage(r, row)
       /\ kv[row.flag.key].mod # 0
       /\ SaveFeatureIfNewer(r, [row.flag EXCEPT !.ver = kv[row.flag.key].ver + 1])
       /\ Checked(r, row, "fix")
  /\ UNCHANGED <<master, audits, outbox, wr, wk>>

\* checkOne finds the key, with an older version (as far as it can tell).
CheckFix(r) ==
  /\ rc[r].pc = "scan"
  /\ \E row \in rc[r].page :
       /\ FirstOfPage(r, row)
       /\ kv[row.flag.key].mod # 0
       /\ GetFeatureVersion(row.flag.key) < row.flag.ver
       /\ SaveFeatureIfNewer(r, row.flag)
       /\ Checked(r, row, "fix")
  /\ UNCHANGED <<master, audits, outbox, wr, wk>>

\* GetFeature reports a missing key as an error, and checkOne returns.
CheckSkip(r) ==
  /\ rc[r].pc = "scan"
  /\ \E row \in rc[r].page :
       /\ FirstOfPage(r, row)
       /\ kv[row.flag.key].mod = 0
       /\ Checked(r, row, "scan")
  /\ UNCHANGED <<repoVars, master, audits, outbox, wr, wk>>

CheckError(r) ==
  /\ rc[r].pc = "scan"
  /\ \E row \in rc[r].page :
       /\ FirstOfPage(r, row)
       /\ Checked(r, row, "scan")
  /\ OtherFault
  /\ UNCHANGED <<master, audits, outbox, wr, wk>>

\* SaveFeatureIfNewer returned; an error is only logged.
FixDone(r) ==
  /\ rc[r].pc = "fix"
  /\ Return(r)
  /\ rc' = [rc EXCEPT ![r].pc = "scan"]
  /\ UNCHANGED <<master, audits, outbox, wr, wk>>

-----------------------------------------------------------------------------
\* A replica dies: its transactions roll back, its goroutines are gone.
Crash(R) ==
  /\ Abandon(R)
  /\ wr' = [w \in Writers |-> IF w \in R THEN NoWriter ELSE wr[w]]
  /\ wk' = [p \in Workers |-> IF p \in R THEN NoWorker ELSE wk[p]]
  /\ rc' = [r \in Reconcilers |-> IF r \in R THEN NoPass ELSE rc[r]]
  /\ UNCHANGED <<master, audits, outbox>>

Request(w) ==
  \/ \E k \in Keys, v \in Values : SaveFeature(w, k, v)
  \/ \E a \in DOMAIN audits : RollbackFeature(w, a)

WriterStep(w) ==
  \/ RollbackSave(w) \/ RollbackInvalid(w) \/ TxCommit(w)
  \/ SyncOk(w) \/ SyncErr(w) \/ MarkCompleted(w)

WorkerStep(p) ==
  FetchPending(p) \/ NextTask(p) \/ TaskOk(p) \/ TaskErr(p) \/ UpdateTask(p)

Reconcile(r) ==
  ListByPage(r) \/ CheckFix(r) \/ CheckSkip(r) \/ FixDone(r)

PassStep(r) == StartPass(r) \/ Reconcile(r)

EtcdStep(c) == CallStep(c) /\ UNCHANGED syncVars

StepFailure ==
  \/ \E w \in Writers : MasterSaveError(w) \/ TxAbort(w) \/ MarkLost(w)
  \/ \E p \in Workers : UpdateLost(p)
  \/ \E r \in Reconcilers : ListError(r) \/ CheckError(r)
  \/ \E c \in Callers : CallFault(c) /\ UNCHANGED syncVars

Failure == StepFailure \/ \E R \in Replicas : Crash(R)

SyncNext ==
  \/ \E w \in Writers : Request(w) \/ WriterStep(w)
  \/ \E p \in Workers : WorkerStep(p)
  \/ \E r \in Reconcilers : PassStep(r)
  \/ \E c \in Callers : EtcdStep(c)
  \/ \E t \in late : LateTxn(t) /\ UNCHANGED syncVars
  \/ Failure

\* Goroutines are scheduled, tickers tick, MySQL and etcd answer.  Requests,
\* failures and late transactions are nobody's obligation.
SyncFairness ==
  /\ \A w \in Writers : WF_vars(WriterStep(w))
  /\ \A p \in Workers : WF_vars(WorkerStep(p))
  /\ \A r \in Reconcilers : WF_vars(PassStep(r))
  /\ \A c \in Callers : WF_vars(EtcdStep(c))

SyncSpec     == SyncInit /\ [][SyncNext]_vars
FairSyncSpec == SyncSpec /\ SyncFairness

-----------------------------------------------------------------------------
(* What the write path guarantees.                                         *)

SyncTypeOK ==
  /\ master \in Seq(Flag)
  /\ audits \in Seq(Audit)
  /\ outbox \in Seq(Task)
  /\ wr \in [Writers -> {NoWriter} \cup Writer]
  /\ wk \in [Workers -> Worker]
  /\ rc \in [Reconcilers -> {NoPass} \cup Pass]

Committed(f) == \E i \in DOMAIN outbox : outbox[i].flag = f

Published(k) == [key |-> k, ver |-> kv[k].ver, val |-> kv[k].val]

\* etcd has made up for task i.
Done(i) == kv[outbox[i].flag.key].ver >= outbox[i].flag.ver

(* A task is Completed only if etcd holds its version or a newer one, in   *)
(* every interleaving of the sync goroutine, the workers of all replicas   *)
(* and their unconditional UpdateStatus calls, and for ever after: nobody  *)
(* looks at a Completed task again, so a premature one is a lost update.   *)
CompletedIsPublished ==
  \A i \in DOMAIN outbox :
    outbox[i].status = "completed" => Done(i)

(* etcd never holds a flag that no transaction committed: not one of a     *)
(* transaction that was rolled back or died with its replica, and not a    *)
(* mix of two saves, although workers and reconcilers publish snapshots    *)
(* they read earlier.                                                      *)
PublishedWasCommitted ==
  \A k \in Keys : kv[k].mod # 0 => Committed(Published(k))

\* What the two facts need to be inductive: every flag on its way to etcd is
\* a committed one, and a goroutine that waits for a call, or is about to
\* write a status, works on a task that exists.
FlagsCommitted ==
  /\ \A c \in Callers : call[c] # NoCall => Committed(call[c].flag)
  /\ \A t \in late : Committed(t.flag)
  /\ \A i \in DOMAIN master : Committed(master[i])

WaitsFor(c, id) ==
  /\ id \in DOMAIN outbox
  /\ call[c] # NoCall
  /\ call[c].flag = outbox[id].flag

WriterOK(w) ==
  /\ wr[w].pc = "tx" => wr[w].base \in 0..Len(master)
  /\ wr[w].pc = "sync" => WaitsFor(w, wr[w].id)
  /\ wr[w].pc = "mark" => wr[w].id \in DOMAIN outbox /\ Done(wr[w].id)
  /\ wr[w].pc # "sync" => call[w] = NoCall

WorkerOK(p) ==
  /\ \A t \in wk[p].batch : t.id \in DOMAIN outbox
  /\ wk[p].pc = "sync" => WaitsFor(p, wk[p].task.id)
  /\ wk[p].pc = "update" => /\ wk[p].id \in DOMAIN outbox
                            /\ wk[p].status = "completed" => Done(wk[p].id)
  /\ wk[p].pc # "sync" => call[p] = NoCall

ReconcilerOK(r) ==
  /\ rc[r].pc # "idle" => \A row \in rc[r].page : Committed(row.flag)
  /\ rc[r].pc = "fix" <=> call[r] # NoCall

SyncInv ==
  /\ SyncTypeOK
  /\ CompletedIsPublished
  /\ PublishedWasCommitted
  /\ FlagsCommitted
  /\ \A w \in Writers : WriterOK(w)
  /\ \A p \in Workers : WorkerOK(p)
  /\ \A r \in Reconcilers : ReconcilerOK(r)

DistinctVersions(k) ==
  \A i, j \in DOMAIN outbox :
    (outbox[i].flag.key = k /\ outbox[j].flag.key = k /\ outbox[i].flag.ver = outbox[j].flag.ver)
      => outbox[i].flag.val = outbox[j].flag.val

NewestRow(i) ==
  \A j \in DOMAIN outbox :
    outbox[j].flag.key = master[i].key => outbox[j].flag.ver <= master[i].ver

AllCompleted(k) ==
  \A i \in DOMAIN outbox : outbox[i].flag.key = k => outbox[i].status = "completed"

(* What the outbox achieves, and under which conditions: once the tasks of *)
(* a key are Completed, etcd agrees with the master row, provided the      *)
(* saves of the key did not race each other to the same version and the    *)
(* row holds the newest one.  (SaveFeature does not establish the two      *)
(* conditions: see the runs that expect a violation.)                      *)
CompletedConverges ==
  \A i \in DOMAIN master :
    LET k == master[i].key IN
      (DistinctVersions(k) /\ NewestRow(i) /\ AllCompleted(k)) => Published(k) = master[i]

(* Every task leaves Pending for good: it is published or given up, no     *)
(* matter who overwrites whose status.                                     *)
TasksSettle == <>[](Pending = {})

(* The reconciler repairs what the outbox gave up on, if the key is in     *)
(* etcd at all: in the end no published flag is older than its master row. *)
DriftRepaired ==
  <>[](\A i \in DOMAIN master :
         kv[master[i].key].mod # 0 => kv[master[i].key].ver >= master[i].ver)

-----------------------------------------------------------------------------
(* What the repository's documentation says of the write path and its code *)
(* does not do.                                                            *)

(* README.md: the outbox and the reconciler "ensure eventual consistency   *)
(* between MySQL and Etcd".                                                *)
EventuallyConsistent ==
  <>[](\A i \in DOMAIN master : Published(master[i].key) = master[i])

(* README.md: the reconciler "automatically remediates data drift"; here   *)
(* the drift of a key that never reached etcd.                             *)
MissingRepaired ==
  <>[](\A i \in DOMAIN master : kv[master[i].key].mod # 0)
=============================================================================
