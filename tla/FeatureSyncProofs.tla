-------------------------- MODULE FeatureSyncProofs --------------------------
(***************************************************************************)
(* The write path, for any number of requests, workers, reconcilers,       *)
(* replicas, keys, payloads and failures: a Completed task is published,   *)
(* what is published was committed, and therefore completed tasks bring    *)
(* etcd and MySQL together where saves did not race to one version.        *)
(*                                                                         *)
(* SyncNext projects to RepoNext, so what FeatureRepositoryProofs shows of *)
(* the repository holds here.  SyncInv is shown per kind of step; what a   *)
(* goroutine relies on survives the steps of the others because outbox     *)
(* rows keep their flag and etcd versions only go up.                      *)
(***************************************************************************)
EXTENDS FeatureSync, FeatureRepositoryProofs, SequenceTheorems

\* Outbox rows stay, with their flag.
OutboxGrows ==
  \A i \in DOMAIN outbox : i \in DOMAIN outbox' /\ outbox'[i].flag = outbox[i].flag

KvGrows == \A k \in Keys : kv'[k].ver >= kv[k].ver

Stable == OutboxGrows /\ KvGrows /\ Len(master') >= Len(master)

\* The call of c is where it was, or further on.
CallKeeps(c) ==
  /\ call'[c] = NoCall <=> call[c] = NoCall
  /\ call[c] # NoCall => call'[c].flag = call[c].flag

\* The tables' rows have the types of the tables.
LEMMA RowsTyped ==
  ASSUME SyncTypeOK
  PROVE  /\ \A i \in DOMAIN outbox : outbox[i] \in Task /\ outbox[i].flag \in Flag
         /\ \A i \in DOMAIN master : master[i] \in Flag
         /\ \A i \in DOMAIN audits : audits[i] \in Audit
         /\ DOMAIN outbox = 1..Len(outbox) /\ Len(outbox) \in Nat
         /\ DOMAIN master = 1..Len(master) /\ Len(master) \in Nat
<1>1. master \in Seq(Flag) /\ outbox \in Seq(Task) /\ audits \in Seq(Audit)
  BY DEF SyncTypeOK
<1>2. /\ \A i \in DOMAIN outbox : outbox[i] \in Task
      /\ DOMAIN outbox = 1..Len(outbox) /\ Len(outbox) \in Nat
  BY <1>1, ElementOfSeq, LenProperties
<1>3. /\ \A i \in DOMAIN master : master[i] \in Flag
      /\ DOMAIN master = 1..Len(master) /\ Len(master) \in Nat
  BY <1>1, ElementOfSeq, LenProperties
<1>4. \A i \in DOMAIN audits : audits[i] \in Audit
  BY <1>1, ElementOfSeq, LenProperties
<1>5. \A i \in DOMAIN outbox : outbox[i].flag \in Flag
  BY <1>2 DEF Task
<1> QED BY <1>2, <1>3, <1>4, <1>5

LEMMA CommittedKeeps ==
  ASSUME OutboxGrows, NEW f, Committed(f)
  PROVE  Committed(f)'
BY DEF OutboxGrows, Committed

LEMMA DoneKeeps ==
  ASSUME RepoInv, RepoInv', SyncTypeOK, OutboxGrows, KvGrows,
         NEW i \in DOMAIN outbox, Done(i)
  PROVE  i \in DOMAIN outbox' /\ Done(i)'
<1>1. outbox'[i].flag = outbox[i].flag /\ i \in DOMAIN outbox'
  BY DEF OutboxGrows
<1>2. outbox[i].flag \in Flag
  BY RowsTyped
<1>3. outbox[i].flag.key \in Keys /\ outbox[i].flag.ver \in Nat
  BY <1>2, FlagFields
<1>4. kv[outbox[i].flag.key].ver \in Nat /\ kv'[outbox[i].flag.key].ver \in Nat
  BY <1>3 DEF RepoInv, RepoTypeOK, Entry
<1> QED BY <1>1, <1>3, <1>4 DEF Done, KvGrows

LEMMA WaitsKeeps ==
  ASSUME OutboxGrows, NEW c, NEW id, CallKeeps(c), WaitsFor(c, id)
  PROVE  WaitsFor(c, id)'
BY DEF OutboxGrows, CallKeeps, WaitsFor

\* What a goroutine relies on survives the steps of the others.
LEMMA WriterKeeps ==
  ASSUME RepoInv, RepoInv', SyncInv, Stable, master' \in Seq(Flag),
         NEW w \in Writers, wr'[w] = wr[w], CallKeeps(w)
  PROVE  WriterOK(w)'
<1>1. WriterOK(w) /\ SyncTypeOK
  BY DEF SyncInv
<1>2. wr[w].pc = "tx" => wr[w].base \in 0..Len(master')
  <2>1. Len(master) \in Nat /\ Len(master') \in Nat
    BY <1>1 DEF SyncTypeOK
  <2> QED BY <1>1, <2>1 DEF Stable, WriterOK
<1>3. wr[w].pc = "sync" => WaitsFor(w, wr[w].id)'
  BY <1>1, WaitsKeeps DEF Stable, WriterOK, WaitsFor
<1>4. wr[w].pc = "mark" => wr[w].id \in DOMAIN outbox' /\ Done(wr[w].id)'
  BY <1>1, DoneKeeps DEF Stable, WriterOK
<1>5. wr[w].pc # "sync" => call'[w] = NoCall
  BY <1>1 DEF WriterOK, CallKeeps
<1> QED BY <1>2, <1>3, <1>4, <1>5 DEF WriterOK, WaitsFor, Done

LEMMA WorkerKeeps ==
  ASSUME RepoInv, RepoInv', SyncInv, Stable,
         NEW p \in Workers, wk'[p] = wk[p], CallKeeps(p)
  PROVE  WorkerOK(p)'
<1>1. WorkerOK(p) /\ SyncTypeOK
  BY DEF SyncInv
<1>2. \A t \in wk[p].batch : t.id \in DOMAIN outbox'
  BY <1>1 DEF Stable, OutboxGrows, WorkerOK
<1>3. wk[p].pc = "sync" => WaitsFor(p, wk[p].task.id)'
  BY <1>1, WaitsKeeps DEF Stable, WorkerOK, WaitsFor
<1>4. wk[p].pc = "update" => /\ wk[p].id \in DOMAIN outbox'
                             /\ wk[p].status = "completed" => Done(wk[p].id)'
  BY <1>1, DoneKeeps DEF Stable, WorkerOK, OutboxGrows
<1>5. wk[p].pc # "sync" => call'[p] = NoCall
  BY <1>1 DEF WorkerOK, CallKeeps
<1> QED BY <1>2, <1>3, <1>4, <1>5 DEF WorkerOK, WaitsFor, Done

LEMMA ReconcilerKeeps ==
  ASSUME SyncInv, Stable, NEW r \in Reconcilers, rc'[r] = rc[r], CallKeeps(r)
  PROVE  ReconcilerOK(r)'
<1>1. ReconcilerOK(r)
  BY DEF SyncInv
<1>2. rc[r].pc # "idle" => \A row \in rc[r].page : Committed(row.flag)'
  BY <1>1, CommittedKeeps DEF Stable, ReconcilerOK
<1>3. rc[r].pc = "fix" <=> call'[r] # NoCall
  BY <1>1 DEF ReconcilerOK, CallKeeps
<1> QED BY <1>2, <1>3 DEF ReconcilerOK, Committed

\* Where the flags that reach etcd, or are left on the wire, come from.
LEMMA PutPublishes ==
  ASSUME RepoInv, NEW f \in Flag, Put(f), NEW k \in Keys
  PROVE  kv'[k] = kv[k] \/ Published(k)' = f
<1>1. kv \in [Keys -> Entry]
  BY DEF RepoInv, RepoTypeOK
<1>2. f.key \in Keys /\ f = [key |-> f.key, ver |-> f.ver, val |-> f.val]
  BY DEF Flag
<1>3. k # f.key => kv'[k] = kv[k]
  BY <1>1, <1>2 DEF Put
<1>4. kv'[f.key] = [mod |-> rev + 1, ver |-> f.ver, val |-> f.val]
  BY <1>1, <1>2 DEF Put
<1>5. kv'[f.key].ver = f.ver /\ kv'[f.key].val = f.val
  BY <1>4
<1>6. k = f.key => Published(k)' = [key |-> f.key, ver |-> f.ver, val |-> f.val]
  BY <1>5 DEF Published
<1> QED BY <1>2, <1>3, <1>6

\* A flag that some call or some late transaction carries.
OnTheWay(f) ==
  \/ \E c \in Callers : call[c] # NoCall /\ call[c].flag = f
  \/ \E t \in late : t.flag = f

LEMMA RepoFlow ==
  ASSUME RepoInv, [RepoNext]_repoVars
  PROVE  /\ \A t \in late' : OnTheWay(t.flag)
         /\ \A k \in Keys : kv'[k] = kv[k] \/ \E f : OnTheWay(f) /\ Published(k)' = f
<1>1. \A c \in Callers : call[c].pc # "idle" =>
        call[c] # NoCall /\ call[c].flag \in Flag /\ OnTheWay(call[c].flag)
  BY CallTyped DEF RepoInv, Call, OnTheWay
<1>2. ASSUME NEW t \in late'
      PROVE  OnTheWay(t.flag)
  <2>1. CASE t \in late
    BY <2>1 DEF OnTheWay
  <2>2. ASSUME NEW c \in Callers, TxnError(c), t \notin late
        PROVE  OnTheWay(t.flag)
    <3>1. t.flag = call[c].flag /\ call[c].pc = "txn"
      BY <2>2 DEF TxnError
    <3> QED BY <1>1, <3>1
  <2>3. ASSUME NEW S \in SUBSET Callers, Abandon(S), t \notin late
        PROVE  OnTheWay(t.flag)
    <3>1. PICK c \in {d \in S : call[d].pc = "txn"} :
            t = [flag |-> call[c].flag, seen |-> call[c].seen]
      BY <2>3 DEF Abandon
    <3>2. c \in Callers /\ call[c].pc = "txn" /\ t.flag = call[c].flag
      BY <3>1
    <3> QED BY <1>1, <3>2
  <2>4. \/ \E c \in Callers : TxnError(c)
        \/ \E S \in SUBSET Callers : Abandon(S)
        \/ late' = late
    BY DEF RepoNext, CallStep, CallFault, SaveFeatureIfNewer, GetNewer, GetOlder, TxnPut,
           TxnConflict, GetError, LateTxn, Return, OtherFault, repoVars
  <2> QED BY <2>1, <2>2, <2>3, <2>4
<1>3. ASSUME NEW k \in Keys
      PROVE  kv'[k] = kv[k] \/ \E f : OnTheWay(f) /\ Published(k)' = f
  <2>1. ASSUME NEW f \in Flag, OnTheWay(f), Put(f)
        PROVE  kv'[k] = kv[k] \/ \E g : OnTheWay(g) /\ Published(k)' = g
    BY <2>1, PutPublishes
  <2>2. ASSUME NEW c \in Callers, TxnPut(c)
        PROVE  call[c].flag \in Flag /\ OnTheWay(call[c].flag) /\ Put(call[c].flag)
    BY <1>1, <2>2 DEF TxnPut
  <2>3. ASSUME NEW t \in late, LateTxn(t)
        PROVE  t.flag \in Flag /\ OnTheWay(t.flag) /\ Put(t.flag)
    BY <2>3 DEF LateTxn, OnTheWay, RepoInv, RepoTypeOK, Txn
  <2>4. \/ \E c \in Callers : TxnPut(c)
        \/ \E t \in late : LateTxn(t)
        \/ kv' = kv
    BY DEF RepoNext, CallStep, CallFault, SaveFeatureIfNewer, GetNewer, GetOlder, TxnConflict,
           GetError, TxnError, Return, Abandon, OtherFault, repoVars
  <2> QED BY <2>1, <2>2, <2>3, <2>4
<1> QED BY <1>2, <1>3

\* The parts of SyncInv' that follow from what a step does to the shared
\* state, whoever takes it.
LEMMA Assemble ==
  ASSUME RepoInv, RepoInv', [RepoNext]_repoVars, SyncInv, SyncTypeOK', Stable,
         \A i \in DOMAIN outbox' : outbox'[i].status = "completed" =>
           i \in DOMAIN outbox /\ Done(i),
         \A i \in DOMAIN master' : Committed(master[i])',
         \A c \in Callers : call'[c] # NoCall => CallKeeps(c) \/ Committed(call[c].flag)',
         \A w \in Writers : WriterOK(w)',
         \A p \in Workers : WorkerOK(p)',
         \A r \in Reconcilers : ReconcilerOK(r)'
  PROVE  SyncInv'
<1>1. SyncTypeOK /\ CompletedIsPublished /\ PublishedWasCommitted /\ FlagsCommitted
  BY DEF SyncInv
<1>2. OutboxGrows /\ KvGrows
  BY DEF Stable
<1>3. CompletedIsPublished'
  BY <1>1, <1>2, DoneKeeps DEF CompletedIsPublished
<1>4. \A f : OnTheWay(f) => Committed(f)
  BY <1>1 DEF FlagsCommitted, OnTheWay
<1>5. \A c \in Callers : call[c] # NoCall => Committed(call[c].flag)
  BY <1>1 DEF FlagsCommitted
<1>6. PublishedWasCommitted'
  <2> SUFFICES ASSUME NEW k \in Keys, kv'[k].mod # 0
               PROVE  Committed(Published(k))'
    BY DEF PublishedWasCommitted
  <2>1. CASE kv'[k] = kv[k]
    <3>1. Published(k)' = Published(k) /\ Committed(Published(k))
      BY <1>1, <2>1 DEF Published, PublishedWasCommitted
    <3> QED BY <1>2, <3>1 DEF Committed, OutboxGrows
  <2>2. ASSUME NEW f, Committed(f), Published(k)' = f
        PROVE  Committed(Published(k))'
    BY <1>2, <2>2 DEF Committed, OutboxGrows
  <2> QED BY <1>4, <2>1, <2>2, RepoFlow
<1>7. \A c \in Callers : call'[c] # NoCall => Committed(call[c].flag)'
  <2> SUFFICES ASSUME NEW c \in Callers, call'[c] # NoCall, CallKeeps(c)
               PROVE  Committed(call[c].flag)'
    OBVIOUS
  <2>1. call[c] # NoCall /\ call'[c].flag = call[c].flag
    BY DEF CallKeeps
  <2> QED BY <1>2, <1>5, <2>1 DEF Committed, OutboxGrows
<1>8. \A t \in late' : Committed(t.flag)'
  <2> SUFFICES ASSUME NEW t \in late'
               PROVE  Committed(t.flag)'
    OBVIOUS
  <2>1. Committed(t.flag)
    BY <1>4, RepoFlow
  <2> QED BY <1>2, <2>1, CommittedKeeps
<1>9. FlagsCommitted'
  BY <1>7, <1>8 DEF FlagsCommitted, Committed
<1> QED BY <1>3, <1>6, <1>9 DEF SyncInv

LEMMA Roles ==
  /\ Writers \subseteq Callers
  /\ Workers \subseteq Callers
  /\ Reconcilers \subseteq Callers
  /\ \A c \in Writers : c \notin Workers /\ c \notin Reconcilers
  /\ \A c \in Workers : c \notin Writers /\ c \notin Reconcilers
  /\ \A c \in Reconcilers : c \notin Writers /\ c \notin Workers
BY SyncConstants DEF SyncConstants

LEMMA KvGrowsAlways ==
  ASSUME RepoInv, RepoInv', [RepoNext]_repoVars
  PROVE  KvGrows
<1>1. Upward
  BY StepNeverOlder
<1>2. \A k \in Keys : kv[k].ver \in Nat /\ kv'[k].ver \in Nat
  BY DEF RepoInv, RepoTypeOK, Entry
<1> QED BY <1>1, <1>2 DEF Upward, KvGrows

\* A step of c: besides what it does to the tables, only what c itself
\* relies on has to be shown.
LEMMA ActorStep ==
  ASSUME RepoInv, RepoInv', [RepoNext]_repoVars, SyncInv, SyncTypeOK', Stable,
         \A i \in DOMAIN outbox' : outbox'[i].status = "completed" =>
           i \in DOMAIN outbox /\ Done(i),
         \A i \in DOMAIN master' : Committed(master[i])',
         NEW c \in Callers,
         \A d \in Callers : d # c => call'[d] = call[d],
         call'[c] # NoCall => CallKeeps(c) \/ Committed(call[c].flag)',
         \A w \in Writers : w # c => wr'[w] = wr[w],
         \A p \in Workers : p # c => wk'[p] = wk[p],
         \A r \in Reconcilers : r # c => rc'[r] = rc[r],
         c \in Writers => WriterOK(c)',
         c \in Workers => WorkerOK(c)',
         c \in Reconcilers => ReconcilerOK(c)'
  PROVE  SyncInv'
<1>1. \A d \in Callers : d # c => CallKeeps(d)
  BY DEF CallKeeps
<1>2. \A d \in Callers : call'[d] # NoCall => CallKeeps(d) \/ Committed(call[d].flag)'
  BY <1>1
<1>3. \A w \in Writers : WriterOK(w)'
  <2>1. master' \in Seq(Flag)
    BY DEF SyncTypeOK
  <2> QED BY <1>1, <2>1, Roles, WriterKeeps
<1>4. \A p \in Workers : WorkerOK(p)'
  BY <1>1, Roles, WorkerKeeps
<1>5. \A r \in Reconcilers : ReconcilerOK(r)'
  BY <1>1, Roles, ReconcilerKeeps
<1> QED BY <1>2, <1>3, <1>4, <1>5, Assemble

\* A step of c that writes no row of master or outbox.
LEMMA LocalStep ==
  ASSUME RepoInv, RepoInv', [RepoNext]_repoVars, SyncInv, SyncTypeOK',
         UNCHANGED <<master, outbox>>,
         NEW c \in Callers,
         \A d \in Callers : d # c => call'[d] = call[d],
         call'[c] # NoCall => CallKeeps(c) \/ Committed(call'[c].flag),
         \A w \in Writers : w # c => wr'[w] = wr[w],
         \A p \in Workers : p # c => wk'[p] = wk[p],
         \A r \in Reconcilers : r # c => rc'[r] = rc[r],
         c \in Writers => WriterOK(c)',
         c \in Workers => WorkerOK(c)',
         c \in Reconcilers => ReconcilerOK(c)'
  PROVE  SyncInv'
<1>1. SyncTypeOK /\ CompletedIsPublished /\ FlagsCommitted
  BY DEF SyncInv
<1>2. OutboxGrows /\ Stable
  <2>1. Len(master) \in Nat
    BY <1>1, RowsTyped
  <2> QED BY <2>1, KvGrowsAlways DEF OutboxGrows, Stable
<1>3. \A i \in DOMAIN outbox' : outbox'[i].status = "completed" => i \in DOMAIN outbox /\ Done(i)
  BY <1>1 DEF CompletedIsPublished
<1>4. \A i \in DOMAIN master' : Committed(master[i])'
  BY <1>1 DEF FlagsCommitted, Committed
<1>5. call'[c] # NoCall => CallKeeps(c) \/ Committed(call[c].flag)'
  BY DEF Committed
<1> QED BY <1>2, <1>3, <1>4, <1>5, ActorStep

-----------------------------------------------------------------------------
(* The write path uses the repository as FeatureRepository allows.         *)

\* The states of a request, by their pc.
LEMMA WriterTyped ==
  ASSUME SyncTypeOK, NEW w \in Writers
  PROVE  /\ wr[w].pc = "rollback" =>
              wr[w].key \in Keys /\ wr[w].val \in Values /\ wr[w].want \in Nat
         /\ wr[w].pc = "tx" =>
              /\ wr[w] \in [pc : {"tx"}, key : Keys, val : Values, want : Nat, base : Nat,
                            ver : Versions, old : Raws, saved : BOOLEAN]
              /\ TxFlag(w) \in Flag
         /\ wr[w].pc \in {"sync", "mark"} => wr[w] \in [pc : {"sync", "mark"}, id : Id]
<1>1. wr[w] \in {NoWriter} \cup Writer
  BY DEF SyncTypeOK
<1>2. wr[w].pc = "rollback" =>
        wr[w].key \in Keys /\ wr[w].val \in Values /\ wr[w].want \in Nat
  BY <1>1 DEF Writer, NoWriter
<1>3. wr[w].pc = "tx" =>
        wr[w] \in [pc : {"tx"}, key : Keys, val : Values, want : Nat, base : Nat,
                  ver : Versions, old : Raws, saved : BOOLEAN]
  BY <1>1 DEF Writer, NoWriter
<1>4. wr[w].pc \in {"sync", "mark"} => wr[w] \in [pc : {"sync", "mark"}, id : Id]
  BY <1>1 DEF Writer, NoWriter
<1>5. wr[w].pc = "tx" => TxFlag(w) \in Flag
  BY <1>3 DEF TxFlag, Flag
<1> QED BY <1>2, <1>3, <1>4, <1>5

LEMMA SyncIsRepoStep ==
  ASSUME SyncInv, [SyncNext]_vars
  PROVE  [RepoNext]_repoVars
<1>1. SyncTypeOK
  BY DEF SyncInv
<1>2. ASSUME NEW w \in Writers, TxCommit(w)
      PROVE  RepoNext
  BY <1>1, <1>2, WriterTyped, Roles DEF TxCommit, RepoNext
<1>3. ASSUME NEW p \in Workers, NextTask(p)
      PROVE  RepoNext
  <2>1. PICK t \in wk[p].batch : SaveFeatureIfNewer(p, outbox[t.id].flag)
    BY <1>3 DEF NextTask
  <2>2. outbox[t.id].flag \in Flag
    BY <1>1, RowsTyped DEF SyncInv, WorkerOK
  <2> QED BY <2>1, <2>2, Roles DEF RepoNext
<1>4. ASSUME NEW r \in Reconcilers, CheckFix(r)
      PROVE  RepoNext
  <2>1. PICK row \in rc[r].page : SaveFeatureIfNewer(r, row.flag)
    BY <1>4 DEF CheckFix
  <2>2. rc[r].pc # "idle" /\ rc[r] \in {NoPass} \cup Pass
    BY <1>1, <1>4 DEF CheckFix, SyncTypeOK
  <2>3. row.flag \in Flag
    BY <2>2 DEF Pass, NoPass, Row
  <2> QED BY <2>1, <2>3, Roles DEF RepoNext
<1>5. ASSUME NEW w \in Writers, Request(w)
      PROVE  UNCHANGED repoVars
  BY <1>5 DEF Request, SaveFeature, RollbackFeature, BeginTx, repoVars
<1>6. ASSUME NEW w \in Writers, WriterStep(w)
      PROVE  RepoNext \/ UNCHANGED repoVars
  <2>1. CASE SyncOk(w) \/ SyncErr(w)
    BY <2>1, Roles DEF SyncOk, SyncErr, RepoNext
  <2>2. CASE RollbackSave(w) \/ RollbackInvalid(w) \/ MarkCompleted(w)
    BY <2>2 DEF RollbackSave, BeginTx, RollbackInvalid, MarkCompleted, repoVars
  <2> QED BY <1>2, <1>6, <2>1, <2>2 DEF WriterStep
<1>7. ASSUME NEW p \in Workers, WorkerStep(p)
      PROVE  RepoNext \/ UNCHANGED repoVars
  <2>1. CASE TaskOk(p) \/ TaskErr(p)
    BY <2>1, Roles DEF TaskOk, TaskErr, Outcome, RepoNext
  <2>2. CASE FetchPending(p) \/ UpdateTask(p)
    BY <2>2 DEF FetchPending, UpdateTask, repoVars
  <2> QED BY <1>3, <1>7, <2>1, <2>2 DEF WorkerStep
<1>8. ASSUME NEW r \in Reconcilers, PassStep(r)
      PROVE  RepoNext \/ UNCHANGED repoVars
  <2>1. CASE FixDone(r)
    BY <2>1, Roles DEF FixDone, RepoNext
  <2>2. CASE StartPass(r) \/ ListByPage(r) \/ CheckSkip(r)
    BY <2>2 DEF StartPass, ListByPage, CheckSkip, repoVars
  <2> QED BY <1>4, <1>8, <2>1, <2>2 DEF PassStep, Reconcile
<1>9. CASE Failure
  <2>1. ASSUME NEW R \in Replicas, Crash(R)
        PROVE  RepoNext
    BY <2>1, SyncConstants DEF SyncConstants, Crash, RepoNext
  <2>2. ASSUME NEW c \in Callers, CallFault(c)
        PROVE  RepoNext
    BY <2>2 DEF RepoNext
  <2>3. CASE OtherFault
    BY <2>3 DEF RepoNext
  <2> QED BY <1>9, <2>1, <2>2, <2>3
          DEF Failure, StepFailure, MasterSaveError, TxAbort, MarkLost, UpdateLost, ListError, CheckError
<1>10. ASSUME NEW c \in Callers, EtcdStep(c)
       PROVE  RepoNext
  BY <1>10 DEF EtcdStep, RepoNext
<1>11. ASSUME NEW t \in late, LateTxn(t)
       PROVE  RepoNext
  BY <1>11 DEF RepoNext
<1>12. CASE UNCHANGED vars
  BY <1>12 DEF vars, repoVars
<1> QED BY <1>5, <1>6, <1>7, <1>8, <1>9, <1>10, <1>11, <1>12 DEF SyncNext

-----------------------------------------------------------------------------
(* Steps of requests.                                                      *)

\* A step of a request that writes no table and ends with no call under way.
LEMMA LocalWriter ==
  ASSUME RepoInv, RepoInv', [RepoNext]_repoVars, SyncInv,
         UNCHANGED <<master, audits, outbox, wk, rc>>,
         NEW w \in Writers, NEW x \in {NoWriter} \cup Writer,
         wr' = [wr EXCEPT ![w] = x],
         \A d \in Callers : d # w => call'[d] = call[d],
         call'[w] = NoCall,
         x.pc # "sync",
         x.pc = "tx" => x.base \in 0..Len(master),
         x.pc = "mark" => x.id \in DOMAIN outbox /\ Done(x.id)
  PROVE  SyncInv'
<1>1. SyncTypeOK
  BY DEF SyncInv
<1>2. SyncTypeOK'
  BY <1>1 DEF SyncTypeOK
<1>3. /\ wr'[w] = x
      /\ \A v \in Writers : v # w => wr'[v] = wr[v]
  BY <1>1 DEF SyncTypeOK
<1>4. WriterOK(w)'
  <2>1. OutboxGrows
    BY DEF OutboxGrows
  <2>2. x.pc = "mark" => Done(x.id)'
    BY <1>1, <2>1, KvGrowsAlways, DoneKeeps
  <2> QED BY <1>3, <2>2 DEF WriterOK, Done
<1>5. w \in Callers /\ w \notin Workers /\ w \notin Reconcilers
  BY Roles
<1> QED BY <1>2, <1>3, <1>4, <1>5, LocalStep

\* The record with which SaveFeature enters its transaction.
LEMMA BeginTxInv ==
  ASSUME RepoInv, RepoInv', [RepoNext]_repoVars, SyncInv,
         NEW w \in Writers, wr[w].pc # "sync",
         NEW k \in Keys, NEW v \in Values, NEW n \in Nat, BeginTx(w, k, v, n)
  PROVE  SyncInv'
<1>1. SyncTypeOK /\ WriterOK(w)
  BY DEF SyncInv
<1>2. PICK i \in 0..Len(master) :
        /\ IsFirstRow(k, i)
        /\ Version(i) + 1 \in Versions
        /\ wr' = [wr EXCEPT ![w] = [pc |-> "tx", key |-> k, val |-> v, want |-> n,
                                    base |-> i, ver |-> Version(i) + 1, old |-> OldRaw(i),
                                    saved |-> TRUE]]
  BY DEF BeginTx
<1> DEFINE x == [pc |-> "tx", key |-> k, val |-> v, want |-> n, base |-> i,
                 ver |-> Version(i) + 1, old |-> OldRaw(i), saved |-> TRUE]
<1>3. OldRaw(i) \in Raws
  <2>1. CASE i = 0
    BY <2>1, SyncConstants DEF OldRaw, SyncConstants
  <2>2. CASE i # 0
    <3>1. i \in DOMAIN master
      BY <1>1, <2>2, RowsTyped
    <3>2. master[i].val \in Values
      BY <1>1, <3>1, RowsTyped, FlagFields
    <3>3. master[i].val.raw \in Raws
      BY <3>2, SyncConstants DEF SyncConstants
    <3> QED BY <2>2, <3>3 DEF OldRaw
  <2> QED BY <2>1, <2>2
<1>4. i \in Nat
  BY <1>1, RowsTyped
<1>5. x \in Writer
  BY <1>2, <1>3, <1>4 DEF Writer
<1>6. x.pc = "tx" /\ x.base = i
  OBVIOUS
<1>7. UNCHANGED <<call, master, audits, outbox, wk, rc>>
  BY DEF BeginTx, repoVars
<1>8. call'[w] = NoCall
  BY <1>1, <1>7 DEF WriterOK
<1>9. wr' = [wr EXCEPT ![w] = x]
  BY <1>2
<1> HIDE DEF x
<1> QED BY <1>2, <1>5, <1>6, <1>7, <1>8, <1>9, LocalWriter

LEMMA RequestInv ==
  ASSUME RepoInv, RepoInv', [RepoNext]_repoVars, SyncInv, NEW w \in Writers, Request(w)
  PROVE  SyncInv'
<1>1. SyncTypeOK /\ WriterOK(w)
  BY DEF SyncInv
<1>2. ASSUME NEW k \in Keys, NEW v \in Values, SaveFeature(w, k, v)
      PROVE  SyncInv'
  <2>1. wr[w].pc # "sync" /\ BeginTx(w, k, v, 0)
    BY <1>2 DEF SaveFeature, NoWriter
  <2> QED BY <2>1, BeginTxInv
<1>3. ASSUME NEW a \in DOMAIN audits, RollbackFeature(w, a)
      PROVE  SyncInv'
  <2>1. PICK i \in 0..Len(master) :
          wr' = [wr EXCEPT ![w] = [pc |-> "rollback", key |-> audits[a].key,
                                   val |-> [type |-> audits[a].new.type,
                                            raw |-> audits[a].old],
                                   want |-> Version(i)]]
    BY <1>3 DEF RollbackFeature
  <2> DEFINE v == [type |-> audits[a].new.type, raw |-> audits[a].old]
             x == [pc |-> "rollback", key |-> audits[a].key, val |-> v, want |-> Version(i)]
  <2>2. audits[a] \in Audit
    BY <1>1, RowsTyped
  <2>3. audits[a].key \in Keys /\ audits[a].new \in Values /\ audits[a].old \in Raws
    BY <2>2 DEF Audit
  <2>4. v \in Values
    BY <2>3, SyncConstants DEF SyncConstants
  <2>5. Version(i) \in Nat
    <3>1. i # 0 => i \in DOMAIN master
      BY <1>1, RowsTyped
    <3> QED BY <1>1, <3>1, RowsTyped, FlagFields DEF Version
  <2> HIDE DEF v
  <2>6. x \in Writer
    BY <2>3, <2>4, <2>5 DEF Writer
  <2>7. x.pc = "rollback"
    OBVIOUS
  <2>8. UNCHANGED <<call, master, audits, outbox, wk, rc>> /\ wr[w].pc = "idle"
    BY <1>3 DEF RollbackFeature, repoVars, NoWriter
  <2>9. call'[w] = NoCall
    BY <1>1, <2>8 DEF WriterOK
  <2>10. wr' = [wr EXCEPT ![w] = x]
    BY <2>1 DEF v
  <2> HIDE DEF x
  <2> QED BY <2>6, <2>7, <2>8, <2>9, <2>10, LocalWriter
<1> QED BY <1>2, <1>3 DEF Request

\* The steps of a request that only move it on.
LEMMA WriterMovesInv ==
  ASSUME RepoInv, RepoInv', [RepoNext]_repoVars, SyncInv, NEW w \in Writers,
         \/ RollbackSave(w) \/ RollbackInvalid(w) \/ SyncOk(w) \/ SyncErr(w)
         \/ MasterSaveError(w) \/ TxAbort(w) \/ MarkLost(w)
  PROVE  SyncInv'
<1>1. SyncTypeOK /\ WriterOK(w) /\ w \in Callers
  BY Roles DEF SyncInv
<1>2. CASE RollbackSave(w)
  <2>1. wr[w].key \in Keys /\ wr[w].val \in Values /\ wr[w].want \in Nat
    BY <1>1, <1>2, WriterTyped DEF RollbackSave
  <2> QED BY <1>2, <2>1, BeginTxInv DEF RollbackSave
<1>3. ASSUME wr' = [wr EXCEPT ![w] = NoWriter], call'[w] = NoCall,
             \A d \in Callers : d # w => call'[d] = call[d],
             UNCHANGED <<master, audits, outbox, wk, rc>>
      PROVE  SyncInv'
  <2>1. NoWriter.pc = "idle"
    BY DEF NoWriter
  <2> QED BY <1>3, <2>1, LocalWriter
<1>4. CASE RollbackInvalid(w)
  BY <1>1, <1>3, <1>4 DEF RollbackInvalid, repoVars, WriterOK
<1>5. CASE TxAbort(w)
  BY <1>1, <1>3, <1>5 DEF TxAbort, OtherFault, WriterOK
<1>6. CASE MarkLost(w)
  BY <1>1, <1>3, <1>6 DEF MarkLost, OtherFault, WriterOK
<1>7. ASSUME Return(w)
      PROVE  call'[w] = NoCall /\ \A d \in Callers : d # w => call'[d] = call[d]
  BY <1>1, <1>7 DEF Return, RepoInv, RepoTypeOK
<1>8. CASE SyncErr(w)
  BY <1>3, <1>7, <1>8 DEF SyncErr
<1>9. CASE MasterSaveError(w)
  <2> DEFINE x == [wr[w] EXCEPT !.saved = FALSE]
  <2>1. wr[w] \in [pc : {"tx"}, key : Keys, val : Values, want : Nat, base : Nat,
                  ver : Versions, old : Raws, saved : BOOLEAN]
    BY <1>1, <1>9, WriterTyped DEF MasterSaveError
  <2>2. x \in Writer /\ x.pc = "tx" /\ x.base = wr[w].base
    BY <2>1 DEF Writer
  <2>3. /\ wr' = [wr EXCEPT ![w] = x]
        /\ UNCHANGED <<call, master, audits, outbox, wk, rc>>
        /\ wr[w].pc = "tx"
    BY <1>9 DEF MasterSaveError, OtherFault
  <2>4. call'[w] = NoCall /\ x.base \in 0..Len(master)
    BY <1>1, <2>2, <2>3 DEF WriterOK
  <2> HIDE DEF x
  <2> QED BY <2>2, <2>3, <2>4, LocalWriter
<1>10. CASE SyncOk(w)
  <2> DEFINE x == [wr[w] EXCEPT !.pc = "mark"]
  <2>1. wr[w] \in [pc : {"sync", "mark"}, id : Id]
    BY <1>1, <1>10, WriterTyped DEF SyncOk
  <2>2. x \in Writer /\ x.pc = "mark" /\ x.id = wr[w].id
    BY <2>1 DEF Writer
  <2>3. /\ wr' = [wr EXCEPT ![w] = x]
        /\ UNCHANGED <<master, audits, outbox, wk, rc>>
        /\ Return(w) /\ UNCHANGED kv
    BY <1>10 DEF SyncOk, Return
  <2>4. x.id \in DOMAIN outbox /\ Done(x.id)
    BY <1>1, <1>10, <2>2 DEF SyncOk, WriterOK, WaitsFor, Done, RepoInv, AckedIsStored
  <2> HIDE DEF x
  <2> QED BY <1>7, <2>2, <2>3, <2>4, LocalWriter
<1> QED BY <1>2, <1>4, <1>5, <1>6, <1>8, <1>9, <1>10

\* UpdateStatus, whoever calls it: the row keeps its flag, and Completed is
\* written only over a task that etcd has caught up with.
LEMMA UpdateStatusKeeps ==
  ASSUME SyncTypeOK, CompletedIsPublished, NEW id \in DOMAIN outbox,
         NEW s \in {"pending", "completed", "failed"}, NEW n \in Nat,
         UpdateStatus(id, s, n), s = "completed" => Done(id)
  PROVE  /\ outbox' \in Seq(Task)
         /\ OutboxGrows
         /\ \A i \in DOMAIN outbox' : outbox'[i].status = "completed" =>
              i \in DOMAIN outbox /\ Done(i)
<1> DEFINE t == [outbox[id] EXCEPT !.status = s, !.retry = n]
<1>1. outbox[id] \in Task /\ outbox \in Seq(Task) /\ DOMAIN outbox = 1..Len(outbox)
  BY RowsTyped DEF SyncTypeOK
<1>2. t \in Task /\ t.flag = outbox[id].flag /\ t.status = s
  BY <1>1 DEF Task
<1>3. outbox' = [outbox EXCEPT ![id] = t]
  BY DEF UpdateStatus
<1> HIDE DEF t
<1>4. /\ outbox' \in Seq(Task)
      /\ Len(outbox') = Len(outbox)
      /\ \A j \in 1..Len(outbox) : outbox'[j] = IF j = id THEN t ELSE outbox[j]
  BY <1>1, <1>2, <1>3, ExceptSeq
<1>5. DOMAIN outbox' = DOMAIN outbox
  BY <1>3
<1>6. OutboxGrows
  BY <1>1, <1>2, <1>4, <1>5 DEF OutboxGrows
<1>7. \A i \in DOMAIN outbox' : outbox'[i].status = "completed" => i \in DOMAIN outbox /\ Done(i)
  BY <1>1, <1>2, <1>4, <1>5 DEF CompletedIsPublished
<1> QED BY <1>4, <1>6, <1>7

LEMMA MarkCompletedInv ==
  ASSUME RepoInv, RepoInv', [RepoNext]_repoVars, SyncInv, NEW w \in Writers, MarkCompleted(w)
  PROVE  SyncInv'
<1>1. SyncTypeOK /\ CompletedIsPublished /\ FlagsCommitted /\ WriterOK(w)
  BY DEF SyncInv
<1>2. /\ wr[w].pc = "mark"
      /\ UpdateStatus(wr[w].id, "completed", 0)
      /\ wr' = [wr EXCEPT ![w] = NoWriter]
      /\ UNCHANGED <<call, master, audits, wk, rc>>
  BY DEF MarkCompleted, repoVars
<1>3. wr[w].id \in DOMAIN outbox /\ Done(wr[w].id)
  BY <1>1, <1>2 DEF WriterOK
<1>4. /\ outbox' \in Seq(Task)
      /\ OutboxGrows
      /\ \A i \in DOMAIN outbox' : outbox'[i].status = "completed" =>
           i \in DOMAIN outbox /\ Done(i)
  BY <1>1, <1>2, <1>3, UpdateStatusKeeps
<1>5. SyncTypeOK'
  BY <1>1, <1>2, <1>4 DEF SyncTypeOK
<1>6. Stable
  <2>1. Len(master) \in Nat
    BY <1>1, RowsTyped
  <2> QED BY <1>2, <1>4, <2>1, KvGrowsAlways DEF Stable
<1>7. \A i \in DOMAIN master' : Committed(master[i])'
  BY <1>1, <1>2, <1>4 DEF FlagsCommitted, Committed, OutboxGrows
<1>8. /\ wr'[w] = NoWriter /\ NoWriter.pc = "idle"
      /\ \A v \in Writers : v # w => wr'[v] = wr[v]
  BY <1>1, <1>2 DEF SyncTypeOK, NoWriter
<1>9. call'[w] = NoCall
  BY <1>1, <1>2 DEF WriterOK
<1>10. WriterOK(w)'
  BY <1>8, <1>9 DEF WriterOK
<1>11. w \in Callers /\ w \notin Workers /\ w \notin Reconcilers
  BY Roles
<1> QED BY <1>2, <1>4, <1>5, <1>6, <1>7, <1>8, <1>9, <1>10, <1>11, ActorStep

\* The commit of SaveFeature's transaction.
LEMMA TxCommitInv ==
  ASSUME RepoInv, RepoInv', [RepoNext]_repoVars, SyncInv, NEW w \in Writers, TxCommit(w)
  PROVE  SyncInv'
<1>0. PICK f : f = TxFlag(w)
  OBVIOUS
<1> DEFINE n == Len(outbox) + 1
           t == [flag |-> f, status |-> "pending", retry |-> 0]
           a == [key |-> wr[w].key, old |-> wr[w].old, new |-> wr[w].val]
<1>1. SyncTypeOK /\ CompletedIsPublished /\ FlagsCommitted /\ WriterOK(w)
  BY DEF SyncInv
<1>2. /\ wr[w].pc = "tx"
      /\ wr[w].key \in Keys /\ wr[w].val \in Values /\ wr[w].old \in Raws
      /\ wr[w].base \in 0..Len(master)
      /\ f \in Flag
  BY <1>0, <1>1, WriterTyped DEF TxCommit, WriterOK
<1>3. /\ outbox' = Append(outbox, t)
      /\ audits' = Append(audits, a)
      /\ wr' = [wr EXCEPT ![w] = [pc |-> "sync", id |-> n]]
      /\ SaveFeatureIfNewer(w, f)
      /\ UNCHANGED <<wk, rc>>
  BY <1>0 DEF TxCommit, Record
<1>4. /\ t \in Task /\ t.flag = f /\ t.status = "pending"
      /\ a \in Audit
  BY <1>2 DEF Task, Audit
<1>5. /\ outbox \in Seq(Task) /\ audits \in Seq(Audit) /\ master \in Seq(Flag)
      /\ DOMAIN outbox = 1..Len(outbox) /\ Len(outbox) \in Nat
      /\ DOMAIN master = 1..Len(master) /\ Len(master) \in Nat
  BY <1>1, RowsTyped DEF SyncTypeOK
<1>6. SaveMaster(w)
  BY DEF TxCommit
<1> HIDE DEF t, a
<1>7. /\ outbox' \in Seq(Task)
      /\ DOMAIN outbox' = 1..n
      /\ \A i \in DOMAIN outbox : outbox'[i] = outbox[i]
      /\ outbox'[n] = t
      /\ n \in DOMAIN outbox'
  <2>1. /\ outbox' \in Seq(Task)
        /\ Len(outbox') = n
        /\ \A i \in 1..Len(outbox) : outbox'[i] = outbox[i]
        /\ outbox'[n] = t
    BY <1>3, <1>4, <1>5, AppendProperties
  <2>2. DOMAIN outbox' = 1..Len(outbox')
    BY <2>1, LenProperties
  <2> QED BY <1>5, <2>1, <2>2
<1>8. OutboxGrows
  BY <1>5, <1>7 DEF OutboxGrows
<1>9. Committed(f)'
  BY <1>4, <1>7 DEF Committed
<1>10. \A i \in DOMAIN outbox' : outbox'[i].status = "completed" => i \in DOMAIN outbox /\ Done(i)
  <2> SUFFICES ASSUME NEW i \in DOMAIN outbox', outbox'[i].status = "completed"
               PROVE  i \in DOMAIN outbox /\ Done(i)
    OBVIOUS
  <2>1. i # n
    BY <1>4, <1>7
  <2>2. i \in DOMAIN outbox
    BY <1>5, <1>7, <2>1
  <2> QED BY <1>1, <1>7, <2>2 DEF CompletedIsPublished
<1>11. audits' \in Seq(Audit)
  BY <1>3, <1>4, <1>5, AppendProperties
<1>12. /\ master' \in Seq(Flag)
       /\ Len(master') >= Len(master)
       /\ \A i \in DOMAIN master' : Committed(master[i])'
  <2> DEFINE C(g) == \E j \in DOMAIN outbox' : outbox'[j].flag = g
             New == \A i \in DOMAIN master' :
                      master'[i] = f \/ (i \in DOMAIN master /\ master'[i] = master[i])
  <2>1. C(f)
    BY <1>9 DEF Committed
  <2>2. \A i \in DOMAIN master : C(master[i])
    BY <1>1, <1>8 DEF FlagsCommitted, Committed, OutboxGrows
  <2>3. ASSUME master' = master
        PROVE  master' \in Seq(Flag) /\ Len(master') >= Len(master) /\ New
    BY <1>5, <2>3
  <2>4. ASSUME master' = Append(master, f)
        PROVE  master' \in Seq(Flag) /\ Len(master') >= Len(master) /\ New
    <3>1. /\ master' \in Seq(Flag)
          /\ Len(master') = Len(master) + 1
          /\ \A i \in 1..Len(master) : master'[i] = master[i]
          /\ master'[Len(master) + 1] = f
      BY <1>2, <1>5, <2>4, AppendProperties
    <3>2. DOMAIN master' = 1..(Len(master) + 1)
      BY <3>1, LenProperties
    <3> QED BY <1>5, <3>1, <3>2
  <2>5. ASSUME wr[w].base # 0, master' = [master EXCEPT ![wr[w].base] = f]
        PROVE  master' \in Seq(Flag) /\ Len(master') >= Len(master) /\ New
    <3>1. wr[w].base \in 1..Len(master)
      BY <1>2, <1>5, <2>5
    <3>2. /\ master' \in Seq(Flag)
          /\ Len(master') = Len(master)
          /\ \A i \in 1..Len(master) : master'[i] = IF i = wr[w].base THEN f ELSE master[i]
      BY <1>2, <1>5, <2>5, <3>1, ExceptSeq
    <3>3. DOMAIN master' = DOMAIN master
      BY <2>5
    <3> QED BY <1>5, <3>2, <3>3
  <2>6. master' \in Seq(Flag) /\ Len(master') >= Len(master) /\ New
    BY <1>0, <1>6, <2>3, <2>4, <2>5 DEF SaveMaster
  <2>7. \A i \in DOMAIN master' : C(master'[i])
    <3> HIDE DEF C
    <3> QED BY <2>1, <2>2, <2>6
  <2> QED BY <2>6, <2>7 DEF Committed
<1>13. [pc |-> "sync", id |-> n] \in Writer
  BY <1>5 DEF Writer, Id
<1>14. SyncTypeOK'
  BY <1>1, <1>3, <1>7, <1>11, <1>12, <1>13 DEF SyncTypeOK
<1>15. Stable
  BY <1>8, <1>12, KvGrowsAlways DEF Stable
<1>16. w \in Callers /\ w \notin Workers /\ w \notin Reconcilers
  BY Roles
<1>17. /\ \A d \in Callers : d # w => call'[d] = call[d]
       /\ call'[w] = [pc |-> "get", flag |-> f, seen |-> 0, retries |-> 0]
  BY <1>3, <1>16 DEF SaveFeatureIfNewer, RepoInv, RepoTypeOK
<1>18. call'[w] # NoCall /\ call'[w].flag = f
  BY <1>17 DEF NoCall
<1>19. Committed(call[w].flag)'
  BY <1>9, <1>18 DEF Committed
<1>20. /\ wr'[w] = [pc |-> "sync", id |-> n]
       /\ \A v \in Writers : v # w => wr'[v] = wr[v]
  BY <1>1, <1>3 DEF SyncTypeOK
<1>21. WriterOK(w)'
  BY <1>4, <1>7, <1>18, <1>20 DEF WriterOK, WaitsFor
<1> QED BY <1>3, <1>10, <1>12, <1>14, <1>15, <1>16, <1>17, <1>19, <1>20, <1>21, ActorStep

-----------------------------------------------------------------------------
(* Steps of outbox workers.                                                *)

LEMMA WorkerTyped ==
  ASSUME SyncTypeOK, NEW p \in Workers
  PROVE  /\ wk[p].batch \subseteq TaskRef
         /\ wk[p].pc = "sync" => wk[p].task \in TaskRef
         /\ wk[p].pc = "update" => /\ wk[p].status \in {"pending", "completed", "failed"}
                                   /\ wk[p].retry \in Nat
<1>1. wk[p] \in Worker
  BY DEF SyncTypeOK
<1> QED BY <1>1 DEF Worker

\* A step of a worker that writes no table.
LEMMA LocalWorker ==
  ASSUME RepoInv, RepoInv', [RepoNext]_repoVars, SyncInv,
         UNCHANGED <<master, audits, outbox, wr, rc>>,
         NEW p \in Workers, NEW x \in Worker, wk' = [wk EXCEPT ![p] = x],
         \A d \in Callers : d # p => call'[d] = call[d],
         call'[p] # NoCall => Committed(call'[p].flag),
         \A t \in x.batch : t.id \in DOMAIN outbox,
         x.pc = "sync" => /\ x.task.id \in DOMAIN outbox
                          /\ call'[p] # NoCall
                          /\ call'[p].flag = outbox[x.task.id].flag,
         x.pc = "update" => /\ x.id \in DOMAIN outbox
                            /\ x.status = "completed" => Done(x.id),
         x.pc # "sync" => call'[p] = NoCall
  PROVE  SyncInv'
<1>1. SyncTypeOK
  BY DEF SyncInv
<1>2. SyncTypeOK'
  BY <1>1 DEF SyncTypeOK
<1>3. /\ wk'[p] = x
      /\ \A q \in Workers : q # p => wk'[q] = wk[q]
  BY <1>1 DEF SyncTypeOK
<1>4. WorkerOK(p)'
  <2>1. OutboxGrows
    BY DEF OutboxGrows
  <2>2. (x.pc = "update" /\ x.status = "completed") => Done(x.id)'
    BY <1>1, <2>1, KvGrowsAlways, DoneKeeps
  <2> QED BY <1>3, <2>2 DEF WorkerOK, WaitsFor, Done
<1>5. p \in Callers /\ p \notin Writers /\ p \notin Reconcilers
  BY Roles
<1> QED BY <1>2, <1>3, <1>4, <1>5, LocalStep

LEMMA FetchPendingInv ==
  ASSUME RepoInv, RepoInv', [RepoNext]_repoVars, SyncInv, NEW p \in Workers, FetchPending(p)
  PROVE  SyncInv'
<1> DEFINE first == {i \in Pending : Cardinality({j \in Pending : j < i}) < FetchLimit}
           b == {[id |-> i, retry |-> outbox[i].retry] : i \in first}
           x == [pc |-> "run", batch |-> b]
<1>1. SyncTypeOK /\ WorkerOK(p)
  BY DEF SyncInv
<1>2. wk[p].pc = "run" /\ wk' = [wk EXCEPT ![p] = x]
  BY DEF FetchPending, NoWorker
<1>3. UNCHANGED <<call, master, audits, outbox, wr, rc>>
  BY DEF FetchPending, repoVars
<1>4. \A i \in first : i \in DOMAIN outbox
  BY DEF Pending
<1> HIDE DEF first
<1>5. \A i \in DOMAIN outbox : i \in Id /\ outbox[i].retry \in Nat
  <2>1. \A i \in DOMAIN outbox : outbox[i] \in Task
    BY <1>1, RowsTyped
  <2>2. \A i \in DOMAIN outbox : i \in Id
    BY <1>1, RowsTyped DEF Id
  <2> QED BY <2>1, <2>2 DEF Task
<1>6. b \subseteq TaskRef /\ \A t \in b : t.id \in DOMAIN outbox
  BY <1>4, <1>5 DEF TaskRef
<1> HIDE DEF b
<1>7. x \in Worker /\ x.pc = "run" /\ x.batch = b
  BY <1>6 DEF Worker
<1>8. call'[p] = NoCall
  BY <1>1, <1>2, <1>3 DEF WorkerOK
<1> HIDE DEF x
<1> QED BY <1>2, <1>3, <1>6, <1>7, <1>8, LocalWorker

LEMMA NextTaskInv ==
  ASSUME RepoInv, RepoInv', [RepoNext]_repoVars, SyncInv, NEW p \in Workers, NextTask(p)
  PROVE  SyncInv'
<1>1. SyncTypeOK /\ WorkerOK(p) /\ p \in Callers
  BY Roles DEF SyncInv
<1>2. PICK t \in wk[p].batch :
        /\ SaveFeatureIfNewer(p, outbox[t.id].flag)
        /\ wk' = [wk EXCEPT ![p] = [pc |-> "sync", batch |-> wk[p].batch \ {t}, task |-> t]]
  BY DEF NextTask
<1> DEFINE f == outbox[t.id].flag
           x == [pc |-> "sync", batch |-> wk[p].batch \ {t}, task |-> t]
<1>3. UNCHANGED <<master, audits, outbox, wr, rc>>
  BY DEF NextTask
<1>4. wk[p].batch \subseteq TaskRef /\ \A u \in wk[p].batch : u.id \in DOMAIN outbox
  BY <1>1, WorkerTyped DEF WorkerOK
<1>5. /\ x \in Worker /\ x.pc = "sync" /\ x.task = t
      /\ \A u \in x.batch : u.id \in DOMAIN outbox
  BY <1>4 DEF Worker
<1>6. /\ \A d \in Callers : d # p => call'[d] = call[d]
      /\ call'[p] = [pc |-> "get", flag |-> f, seen |-> 0, retries |-> 0]
  BY <1>1, <1>2 DEF SaveFeatureIfNewer, RepoInv, RepoTypeOK
<1>7. call'[p] # NoCall /\ call'[p].flag = f
  BY <1>6 DEF NoCall
<1>8. t.id \in DOMAIN outbox /\ Committed(f)
  BY <1>4 DEF Committed
<1>9. wk' = [wk EXCEPT ![p] = x]
  BY <1>2
<1> HIDE DEF x
<1> QED BY <1>3, <1>5, <1>6, <1>7, <1>8, <1>9, LocalWorker

\* What follows a call of a worker: the status it will write.
LEMMA OutcomeInv ==
  ASSUME RepoInv, RepoInv', [RepoNext]_repoVars, SyncInv, NEW p \in Workers,
         wk[p].pc = "sync", NEW s \in {"pending", "completed", "failed"}, NEW n \in Nat,
         Outcome(p, s, n), s = "completed" => call[p].pc = "ok"
  PROVE  SyncInv'
<1> DEFINE x == [pc |-> "update", batch |-> wk[p].batch, id |-> wk[p].task.id,
                 status |-> s, retry |-> n]
<1>1. SyncTypeOK /\ WorkerOK(p) /\ p \in Callers
  BY Roles DEF SyncInv
<1>2. /\ Return(p)
      /\ wk' = [wk EXCEPT ![p] = x]
      /\ UNCHANGED <<master, audits, outbox, wr, rc>>
  BY DEF Outcome
<1>3. /\ wk[p].batch \subseteq TaskRef /\ wk[p].task \in TaskRef
      /\ \A t \in wk[p].batch : t.id \in DOMAIN outbox
      /\ WaitsFor(p, wk[p].task.id)
  BY <1>1, WorkerTyped DEF WorkerOK
<1>4. wk[p].task.id \in Id
  BY <1>3 DEF TaskRef
<1>5. /\ x \in Worker /\ x.pc = "update" /\ x.batch = wk[p].batch
      /\ x.id = wk[p].task.id /\ x.status = s
  BY <1>3, <1>4 DEF Worker
<1>6. call'[p] = NoCall /\ \A d \in Callers : d # p => call'[d] = call[d]
  BY <1>1, <1>2 DEF Return, RepoInv, RepoTypeOK
<1>7. s = "completed" => Done(wk[p].task.id)
  BY <1>1, <1>3 DEF WaitsFor, Done, RepoInv, AckedIsStored
<1>8. wk[p].task.id \in DOMAIN outbox
  BY <1>3 DEF WaitsFor
<1> HIDE DEF x
<1> QED BY <1>2, <1>3, <1>5, <1>6, <1>7, <1>8, LocalWorker

\* A worker's next state after it has written, or failed to write, a status.
LEMMA BackToBatch ==
  ASSUME SyncInv, NEW p \in Workers, wk[p].pc = "update"
  PROVE  LET x == [pc |-> "run", batch |-> wk[p].batch]
         IN  x \in Worker /\ x.pc = "run" /\ \A t \in x.batch : t.id \in DOMAIN outbox
<1>1. SyncTypeOK /\ WorkerOK(p)
  BY DEF SyncInv
<1>2. wk[p].batch \subseteq TaskRef
  BY <1>1, WorkerTyped
<1> QED BY <1>1, <1>2 DEF Worker, WorkerOK

LEMMA UpdateLostInv ==
  ASSUME RepoInv, RepoInv', [RepoNext]_repoVars, SyncInv, NEW p \in Workers, UpdateLost(p)
  PROVE  SyncInv'
<1> DEFINE x == [pc |-> "run", batch |-> wk[p].batch]
<1>1. /\ wk[p].pc = "update"
      /\ wk' = [wk EXCEPT ![p] = x]
      /\ UNCHANGED <<call, master, audits, outbox, wr, rc>>
  BY DEF UpdateLost, OtherFault
<1>2. x \in Worker /\ x.pc = "run" /\ \A t \in x.batch : t.id \in DOMAIN outbox
  BY <1>1, BackToBatch
<1>3. call'[p] = NoCall
  BY <1>1 DEF SyncInv, WorkerOK
<1> HIDE DEF x
<1> QED BY <1>1, <1>2, <1>3, LocalWorker

LEMMA UpdateTaskInv ==
  ASSUME RepoInv, RepoInv', [RepoNext]_repoVars, SyncInv, NEW p \in Workers, UpdateTask(p)
  PROVE  SyncInv'
<1> DEFINE x == [pc |-> "run", batch |-> wk[p].batch]
<1>1. SyncTypeOK /\ CompletedIsPublished /\ FlagsCommitted /\ WorkerOK(p)
  BY DEF SyncInv
<1>2. /\ wk[p].pc = "update"
      /\ UpdateStatus(wk[p].id, wk[p].status, wk[p].retry)
      /\ wk' = [wk EXCEPT ![p] = x]
      /\ UNCHANGED <<call, master, audits, wr, rc>>
  BY DEF UpdateTask, repoVars
<1>3. x \in Worker /\ x.pc = "run" /\ \A t \in x.batch : t.id \in DOMAIN outbox
  BY <1>2, BackToBatch
<1> HIDE DEF x
<1>4. wk[p].id \in DOMAIN outbox /\ (wk[p].status = "completed" => Done(wk[p].id))
  BY <1>1, <1>2 DEF WorkerOK
<1>5. /\ outbox' \in Seq(Task)
      /\ OutboxGrows
      /\ \A i \in DOMAIN outbox' : outbox'[i].status = "completed" =>
           i \in DOMAIN outbox /\ Done(i)
  BY <1>1, <1>2, <1>4, WorkerTyped, UpdateStatusKeeps
<1>6. SyncTypeOK'
  BY <1>1, <1>2, <1>3, <1>5 DEF SyncTypeOK
<1>7. Stable
  <2>1. Len(master) \in Nat
    BY <1>1, RowsTyped
  <2> QED BY <1>2, <1>5, <2>1, KvGrowsAlways DEF Stable
<1>8. \A i \in DOMAIN master' : Committed(master[i])'
  BY <1>1, <1>2, <1>5 DEF FlagsCommitted, Committed, OutboxGrows
<1>9. /\ wk'[p] = x
      /\ \A q \in Workers : q # p => wk'[q] = wk[q]
  BY <1>1, <1>2 DEF SyncTypeOK
<1>10. call'[p] = NoCall
  BY <1>1, <1>2 DEF WorkerOK
<1>11. \A t \in x.batch : t.id \in DOMAIN outbox'
  BY <1>3, <1>5 DEF OutboxGrows
<1>12. WorkerOK(p)'
  BY <1>3, <1>9, <1>10, <1>11 DEF WorkerOK
<1>13. p \in Callers /\ p \notin Writers /\ p \notin Reconcilers
  BY Roles
<1> QED BY <1>2, <1>5, <1>6, <1>7, <1>8, <1>9, <1>10, <1>12, <1>13, ActorStep

LEMMA WorkerStepInv ==
  ASSUME RepoInv, RepoInv', [RepoNext]_repoVars, SyncInv, NEW p \in Workers, WorkerStep(p)
  PROVE  SyncInv'
<1>1. CASE TaskOk(p)
  <2>1. wk[p].task.retry \in Nat
    BY <1>1, WorkerTyped DEF TaskOk, SyncInv, TaskRef
  <2> QED BY <1>1, <2>1, OutcomeInv DEF TaskOk
<1>2. CASE TaskErr(p)
  <2> DEFINE n == wk[p].task.retry + 1
             s == IF n >= MaxTaskRetries THEN "failed" ELSE "pending"
  <2>1. wk[p].task.retry \in Nat
    BY <1>2, WorkerTyped DEF TaskErr, SyncInv, TaskRef
  <2>2. n \in Nat /\ s \in {"pending", "failed"}
    BY <2>1
  <2>3. wk[p].pc = "sync" /\ Outcome(p, s, n)
    BY <1>2 DEF TaskErr
  <2> HIDE DEF n, s
  <2> QED BY <2>2, <2>3, OutcomeInv
<1> QED BY <1>1, <1>2, FetchPendingInv, NextTaskInv, UpdateTaskInv DEF WorkerStep

-----------------------------------------------------------------------------
(* Steps of reconcilers.                                                   *)

LEMMA ReconcilerTyped ==
  ASSUME SyncTypeOK, NEW r \in Reconcilers, rc[r].pc # "idle"
  PROVE  /\ rc[r] \in Pass
         /\ rc[r].page \subseteq Row /\ rc[r].offset \in Nat
<1>1. rc[r] \in {NoPass} \cup Pass
  BY DEF SyncTypeOK
<1>2. rc[r] \in Pass
  BY <1>1 DEF NoPass
<1> QED BY <1>2 DEF Pass

\* No step of a reconciler writes a table.
LEMMA LocalReconciler ==
  ASSUME RepoInv, RepoInv', [RepoNext]_repoVars, SyncInv,
         UNCHANGED <<master, audits, outbox, wr, wk>>,
         NEW r \in Reconcilers, NEW x \in {NoPass} \cup Pass, rc' = [rc EXCEPT ![r] = x],
         \A d \in Callers : d # r => call'[d] = call[d],
         call'[r] # NoCall => Committed(call'[r].flag),
         x.pc # "idle" => \A row \in x.page : Committed(row.flag),
         x.pc = "fix" <=> call'[r] # NoCall
  PROVE  SyncInv'
<1>1. SyncTypeOK
  BY DEF SyncInv
<1>2. SyncTypeOK'
  BY <1>1 DEF SyncTypeOK
<1>3. /\ rc'[r] = x
      /\ \A q \in Reconcilers : q # r => rc'[q] = rc[q]
  BY <1>1 DEF SyncTypeOK
<1>4. ReconcilerOK(r)'
  BY <1>3 DEF ReconcilerOK, Committed
<1>5. r \in Callers /\ r \notin Writers /\ r \notin Workers
  BY Roles
<1> QED BY <1>2, <1>3, <1>4, <1>5, LocalStep

\* The steps of a pass that make no call, by the state they lead to.
LEMMA PassMoves ==
  ASSUME RepoInv, RepoInv', [RepoNext]_repoVars, SyncInv,
         UNCHANGED <<call, master, audits, outbox, wr, wk>>,
         NEW r \in Reconcilers, rc[r].pc # "fix",
         NEW x \in {NoPass} \cup Pass, rc' = [rc EXCEPT ![r] = x],
         x.pc # "fix",
         x.pc # "idle" => \A row \in x.page : Committed(row.flag)
  PROVE  SyncInv'
<1>1. call'[r] = NoCall
  BY DEF SyncInv, ReconcilerOK
<1> QED BY <1>1, LocalReconciler

LEMMA ListByPageInv ==
  ASSUME RepoInv, RepoInv', [RepoNext]_repoVars, SyncInv, NEW r \in Reconcilers, ListByPage(r)
  PROVE  SyncInv'
<1> DEFINE due == {j \in DOMAIN master : /\ j > rc[r].offset
                                         /\ j <= rc[r].offset + BatchSize}
           page == {[id |-> i, flag |-> master[i]] : i \in due}
           y == [pc |-> "scan", offset |-> rc[r].offset + BatchSize, page |-> page]
           x == IF page = {} THEN NoPass ELSE y
<1>1. SyncTypeOK /\ FlagsCommitted
  BY DEF SyncInv
<1>2. /\ rc[r].pc = "scan"
      /\ rc' = [rc EXCEPT ![r] = x]
      /\ UNCHANGED <<call, master, audits, outbox, wr, wk>>
  BY DEF ListByPage, PageDue, repoVars
<1>3. rc[r].offset + BatchSize \in Nat
  BY <1>1, <1>2, ReconcilerTyped, SyncConstants DEF SyncConstants
<1>4. \A i \in due : i \in Id /\ master[i] \in Flag /\ Committed(master[i])
  BY <1>1, RowsTyped DEF Id, FlagsCommitted
<1> HIDE DEF due
<1>5. page \subseteq Row /\ \A row \in page : Committed(row.flag)
  BY <1>4 DEF Row
<1> HIDE DEF page
<1>6. y \in Pass /\ y.pc = "scan" /\ y.page = page
  BY <1>3, <1>5 DEF Pass
<1> HIDE DEF y
<1>7. /\ x \in {NoPass} \cup Pass /\ x.pc # "fix"
      /\ x.pc # "idle" => \A row \in x.page : Committed(row.flag)
  BY <1>5, <1>6 DEF NoPass
<1> HIDE DEF x
<1> QED BY <1>2, <1>7, PassMoves

\* A row has been taken off the page.
LEMMA CheckedPage ==
  ASSUME SyncInv, NEW r \in Reconcilers, rc[r].pc = "scan",
         NEW row \in rc[r].page, NEW pc \in {"scan", "fix"}
  PROVE  LET x == [pc |-> pc, offset |-> rc[r].offset, page |-> rc[r].page \ {row}]
         IN  /\ x \in Pass /\ x.pc = pc
             /\ \A o \in x.page : Committed(o.flag)
             /\ Committed(row.flag)
<1>1. rc[r].page \subseteq Row /\ rc[r].offset \in Nat
  BY ReconcilerTyped DEF SyncInv
<1>2. \A o \in rc[r].page : Committed(o.flag)
  BY DEF SyncInv, ReconcilerOK
<1> QED BY <1>1, <1>2 DEF Pass

LEMMA CheckFixInv ==
  ASSUME RepoInv, RepoInv', [RepoNext]_repoVars, SyncInv, NEW r \in Reconcilers, CheckFix(r)
  PROVE  SyncInv'
<1>1. rc[r].pc = "scan" /\ UNCHANGED <<master, audits, outbox, wr, wk>> /\ r \in Callers
  BY Roles DEF CheckFix
<1>2. PICK row \in rc[r].page : SaveFeatureIfNewer(r, row.flag) /\ Checked(r, row, "fix")
  BY DEF CheckFix
<1> DEFINE x == [pc |-> "fix", offset |-> rc[r].offset, page |-> rc[r].page \ {row}]
<1>3. /\ x \in Pass /\ x.pc = "fix"
      /\ \A o \in x.page : Committed(o.flag)
      /\ Committed(row.flag)
  BY <1>1, CheckedPage
<1>4. rc' = [rc EXCEPT ![r] = x]
  BY <1>2 DEF Checked
<1>5. /\ \A d \in Callers : d # r => call'[d] = call[d]
      /\ call'[r] = [pc |-> "get", flag |-> row.flag, seen |-> 0, retries |-> 0]
  BY <1>1, <1>2 DEF SaveFeatureIfNewer, RepoInv, RepoTypeOK
<1>6. call'[r] # NoCall /\ call'[r].flag = row.flag
  BY <1>5 DEF NoCall
<1> HIDE DEF x
<1> QED BY <1>1, <1>3, <1>4, <1>5, <1>6, LocalReconciler

LEMMA PassStepInv ==
  ASSUME RepoInv, RepoInv', [RepoNext]_repoVars, SyncInv, NEW r \in Reconcilers,
         PassStep(r) \/ ListError(r) \/ CheckError(r)
  PROVE  SyncInv'
<1>1. CASE StartPass(r)
  <2> DEFINE x == [pc |-> "scan", offset |-> 0, page |-> {}]
  <2>1. x \in Pass /\ x.pc = "scan" /\ x.page = {}
    BY DEF Pass
  <2>2. /\ rc[r].pc # "fix" /\ rc' = [rc EXCEPT ![r] = x]
        /\ UNCHANGED <<call, master, audits, outbox, wr, wk>>
    BY <1>1 DEF StartPass, NoPass, repoVars
  <2> HIDE DEF x
  <2> QED BY <2>1, <2>2, PassMoves
<1>2. CASE ListError(r)
  <2>1. /\ rc[r].pc # "fix" /\ rc' = [rc EXCEPT ![r] = NoPass]
        /\ UNCHANGED <<call, master, audits, outbox, wr, wk>>
        /\ NoPass.pc = "idle"
    BY <1>2 DEF ListError, PageDue, NoPass, OtherFault
  <2> QED BY <2>1, PassMoves
<1>3. CASE CheckSkip(r) \/ CheckError(r)
  <2>1. /\ rc[r].pc = "scan"
        /\ UNCHANGED <<call, master, audits, outbox, wr, wk>>
    BY <1>3 DEF CheckSkip, CheckError, OtherFault, repoVars
  <2>2. PICK row \in rc[r].page : Checked(r, row, "scan")
    BY <1>3 DEF CheckSkip, CheckError
  <2> DEFINE x == [pc |-> "scan", offset |-> rc[r].offset, page |-> rc[r].page \ {row}]
  <2>3. x \in Pass /\ x.pc = "scan" /\ \A o \in x.page : Committed(o.flag)
    BY <2>1, CheckedPage
  <2>4. rc' = [rc EXCEPT ![r] = x]
    BY <2>2 DEF Checked
  <2> HIDE DEF x
  <2> QED BY <2>1, <2>3, <2>4, PassMoves
<1>4. CASE FixDone(r)
  <2> DEFINE x == [rc[r] EXCEPT !.pc = "scan"]
  <2>1. /\ rc[r].pc = "fix" /\ Return(r) /\ r \in Callers
        /\ rc' = [rc EXCEPT ![r] = x]
        /\ UNCHANGED <<master, audits, outbox, wr, wk>>
    BY <1>4, Roles DEF FixDone
  <2>2. rc[r] \in Pass
    BY <2>1, ReconcilerTyped DEF SyncInv
  <2>3. x \in Pass /\ x.pc = "scan" /\ x.page = rc[r].page
    BY <2>2 DEF Pass
  <2>4. \A row \in rc[r].page : Committed(row.flag)
    BY <2>1 DEF SyncInv, ReconcilerOK
  <2>5. call'[r] = NoCall /\ \A d \in Callers : d # r => call'[d] = call[d]
    BY <2>1 DEF Return, RepoInv, RepoTypeOK
  <2> HIDE DEF x
  <2> QED BY <2>1, <2>3, <2>4, <2>5, LocalReconciler
<1> QED BY <1>1, <1>2, <1>3, <1>4, CheckFixInv, ListByPageInv DEF PassStep, Reconcile

-----------------------------------------------------------------------------
(* Steps of calls, and the death of a replica.                             *)

\* A step of a call keeps its flag.
LEMMA CallStepKeeps ==
  ASSUME RepoInv, NEW c \in Callers, CallStep(c) \/ CallFault(c), NEW d \in Callers
  PROVE  CallKeeps(d)
<1>1. call \in [Callers -> {NoCall} \cup Call]
  BY DEF RepoInv, RepoTypeOK
<1>2. call[c].pc # "idle"
  BY DEF CallStep, CallFault, GetNewer, GetOlder, TxnPut, TxnConflict, GetError, TxnError
<1>3. call[c] \in Call
  BY <1>1, <1>2 DEF NoCall
<1>4. d # c => call'[d] = call[d]
  BY <1>1 DEF CallStep, CallFault, GetNewer, GetOlder, TxnPut, TxnConflict, GetError, TxnError
<1>5. call'[c].flag = call[c].flag /\ call'[c].pc # "idle"
  <2>1. CASE GetNewer(c) \/ TxnPut(c)
    BY <1>1, <1>3, <2>1 DEF GetNewer, TxnPut, Call
  <2>2. CASE GetError(c) \/ TxnError(c)
    BY <1>1, <1>3, <2>2 DEF GetError, TxnError, Call
  <2>3. CASE GetOlder(c)
    BY <1>1, <1>3, <2>3 DEF GetOlder, Call
  <2>4. CASE TxnConflict(c)
    BY <1>1, <1>3, <2>4 DEF TxnConflict, Call
  <2> QED BY <2>1, <2>2, <2>3, <2>4 DEF CallStep, CallFault
<1>6. call[c] # NoCall /\ call'[c] # NoCall
  BY <1>2, <1>5 DEF NoCall
<1> QED BY <1>4, <1>5, <1>6 DEF CallKeeps

\* Steps inside etcd's client, and stuttering.
LEMMA EtcdInv ==
  ASSUME RepoInv, RepoInv', [RepoNext]_repoVars, SyncInv, UNCHANGED syncVars,
         \A c \in Callers : CallKeeps(c)
  PROVE  SyncInv'
<1>1. SyncTypeOK /\ CompletedIsPublished /\ FlagsCommitted
  BY DEF SyncInv
<1>2. UNCHANGED <<master, audits, outbox, wr, wk, rc>>
  BY DEF syncVars
<1>3. SyncTypeOK'
  BY <1>1, <1>2 DEF SyncTypeOK
<1>4. Stable
  <2>1. Len(master) \in Nat
    BY <1>1, RowsTyped
  <2> QED BY <1>2, <2>1, KvGrowsAlways DEF OutboxGrows, Stable
<1>5. \A i \in DOMAIN outbox' : outbox'[i].status = "completed" => i \in DOMAIN outbox /\ Done(i)
  BY <1>1, <1>2 DEF CompletedIsPublished
<1>6. \A i \in DOMAIN master' : Committed(master[i])'
  BY <1>1, <1>2 DEF FlagsCommitted, Committed
<1>7. master' \in Seq(Flag)
  BY <1>3 DEF SyncTypeOK
<1>8. \A w \in Writers : WriterOK(w)'
  BY <1>2, <1>4, <1>7, Roles, WriterKeeps
<1>9. \A p \in Workers : WorkerOK(p)'
  BY <1>2, <1>4, Roles, WorkerKeeps
<1>10. \A r \in Reconcilers : ReconcilerOK(r)'
  BY <1>2, <1>4, Roles, ReconcilerKeeps
<1> QED BY <1>3, <1>4, <1>5, <1>6, <1>8, <1>9, <1>10, Assemble

LEMMA CrashInv ==
  ASSUME RepoInv, RepoInv', [RepoNext]_repoVars, SyncInv, NEW R \in Replicas, Crash(R)
  PROVE  SyncInv'
<1>1. SyncTypeOK /\ CompletedIsPublished /\ FlagsCommitted
  BY DEF SyncInv
<1>2. /\ UNCHANGED <<master, audits, outbox>>
      /\ \A w \in Writers : wr'[w] = IF w \in R THEN NoWriter ELSE wr[w]
      /\ \A p \in Workers : wk'[p] = IF p \in R THEN NoWorker ELSE wk[p]
      /\ \A r \in Reconcilers : rc'[r] = IF r \in R THEN NoPass ELSE rc[r]
      /\ \A c \in Callers : call'[c] = IF c \in R THEN NoCall ELSE call[c]
  BY DEF Crash, Abandon
<1>3. NoWorker \in Worker /\ NoWorker.pc = "run" /\ NoWorker.batch = {}
  BY DEF NoWorker, Worker
<1>4. NoWriter.pc = "idle" /\ NoPass.pc = "idle"
  BY DEF NoWriter, NoPass
<1>5. SyncTypeOK'
  <2>1. wr' \in [Writers -> {NoWriter} \cup Writer]
    BY <1>1 DEF Crash, SyncTypeOK
  <2>2. wk' \in [Workers -> Worker]
    BY <1>1, <1>3 DEF Crash, SyncTypeOK
  <2>3. rc' \in [Reconcilers -> {NoPass} \cup Pass]
    BY <1>1 DEF Crash, SyncTypeOK
  <2> QED BY <1>1, <1>2, <2>1, <2>2, <2>3 DEF SyncTypeOK
<1>6. Stable
  <2>1. Len(master) \in Nat
    BY <1>1, RowsTyped
  <2> QED BY <1>2, <2>1, KvGrowsAlways DEF OutboxGrows, Stable
<1>7. \A i \in DOMAIN outbox' : outbox'[i].status = "completed" => i \in DOMAIN outbox /\ Done(i)
  BY <1>1, <1>2 DEF CompletedIsPublished
<1>8. \A i \in DOMAIN master' : Committed(master[i])'
  BY <1>1, <1>2 DEF FlagsCommitted, Committed
<1>9. \A c \in Callers : c \notin R => CallKeeps(c)
  BY <1>2 DEF CallKeeps
<1>10. master' \in Seq(Flag)
  BY <1>5 DEF SyncTypeOK
<1>11. ASSUME NEW w \in Writers PROVE WriterOK(w)'
  <2>1. CASE w \in R
    BY <1>2, <1>4, <2>1, Roles DEF WriterOK
  <2>2. CASE w \notin R
    BY <1>2, <1>6, <1>9, <1>10, <2>2, Roles, WriterKeeps
  <2> QED BY <2>1, <2>2
<1>12. ASSUME NEW p \in Workers PROVE WorkerOK(p)'
  <2>1. CASE p \in R
    BY <1>2, <1>3, <2>1, Roles DEF WorkerOK
  <2>2. CASE p \notin R
    BY <1>2, <1>6, <1>9, <2>2, Roles, WorkerKeeps
  <2> QED BY <2>1, <2>2
<1>13. ASSUME NEW r \in Reconcilers PROVE ReconcilerOK(r)'
  <2>1. CASE r \in R
    BY <1>2, <1>4, <2>1, Roles DEF ReconcilerOK
  <2>2. CASE r \notin R
    BY <1>2, <1>6, <1>9, <2>2, Roles, ReconcilerKeeps
  <2> QED BY <2>1, <2>2
<1>14. \A c \in Callers : call'[c] # NoCall => CallKeeps(c) \/ Committed(call[c].flag)'
  BY <1>2, <1>9
<1> QED BY <1>5, <1>6, <1>7, <1>8, <1>11, <1>12, <1>13, <1>14, Assemble

-----------------------------------------------------------------------------
(* The theorems.                                                           *)

\* Both invariants hold initially and survive every step.
LEMMA SyncInitInv == SyncInit => RepoInv /\ SyncInv
<1> SUFFICES ASSUME SyncInit PROVE RepoInv /\ SyncInv
  OBVIOUS
<1>1. RepoInv
  BY RepoInitInv DEF SyncInit
<1>2. /\ call = [c \in Callers |-> NoCall] /\ late = {}
      /\ \A k \in Keys : kv[k].mod = 0
  BY DEF SyncInit, RepoInit
<1>3. /\ master = <<>> /\ audits = <<>> /\ outbox = <<>>
      /\ \A w \in Writers : wr[w].pc = "idle"
      /\ \A p \in Workers : wk[p].pc = "run" /\ wk[p].batch = {}
      /\ \A r \in Reconcilers : rc[r].pc = "idle"
  BY DEF SyncInit, NoWriter, NoWorker, NoPass
<1>4. SyncTypeOK
  BY DEF SyncTypeOK, SyncInit, NoWorker, Worker
<1>5. CompletedIsPublished /\ PublishedWasCommitted /\ FlagsCommitted
  BY <1>2, <1>3 DEF CompletedIsPublished, PublishedWasCommitted, FlagsCommitted
<1>6. \A w \in Writers : WriterOK(w)
  BY <1>2, <1>3, Roles DEF WriterOK
<1>7. \A p \in Workers : WorkerOK(p)
  BY <1>2, <1>3, Roles DEF WorkerOK
<1>8. \A r \in Reconcilers : ReconcilerOK(r)
  BY <1>2, <1>3, Roles DEF ReconcilerOK
<1> QED BY <1>1, <1>4, <1>5, <1>6, <1>7, <1>8 DEF SyncInv

LEMMA SyncStepInv ==
  ASSUME RepoInv, SyncInv, [SyncNext]_vars
  PROVE  RepoInv' /\ SyncInv'
<1>1. [RepoNext]_repoVars
  BY SyncIsRepoStep
<1>2. RepoInv'
  BY <1>1, RepoStepInv
<1>3. ASSUME NEW w \in Writers, Request(w) \/ WriterStep(w)
      PROVE  SyncInv'
  BY <1>1, <1>2, <1>3, RequestInv, WriterMovesInv, TxCommitInv, MarkCompletedInv DEF WriterStep
<1>4. ASSUME NEW p \in Workers, WorkerStep(p)
      PROVE  SyncInv'
  BY <1>1, <1>2, <1>4, WorkerStepInv
<1>5. ASSUME NEW r \in Reconcilers, PassStep(r)
      PROVE  SyncInv'
  BY <1>1, <1>2, <1>5, PassStepInv
<1>6. ASSUME NEW c \in Callers, CallStep(c) \/ CallFault(c), UNCHANGED syncVars
      PROVE  SyncInv'
  BY <1>1, <1>2, <1>6, CallStepKeeps, EtcdInv
<1>7. ASSUME UNCHANGED call, UNCHANGED syncVars
      PROVE  SyncInv'
  <2>1. \A c \in Callers : CallKeeps(c)
    BY <1>7 DEF CallKeeps
  <2> QED BY <1>1, <1>2, <1>7, <2>1, EtcdInv
<1>8. ASSUME NEW t \in late, LateTxn(t), UNCHANGED syncVars
      PROVE  SyncInv'
  BY <1>7, <1>8 DEF LateTxn
<1>9. ASSUME NEW w \in Writers, MasterSaveError(w) \/ TxAbort(w) \/ MarkLost(w)
      PROVE  SyncInv'
  BY <1>1, <1>2, <1>9, WriterMovesInv
<1>10. ASSUME NEW p \in Workers, UpdateLost(p)
       PROVE  SyncInv'
  BY <1>1, <1>2, <1>10, UpdateLostInv
<1>11. ASSUME NEW r \in Reconcilers, ListError(r) \/ CheckError(r)
       PROVE  SyncInv'
  BY <1>1, <1>2, <1>11, PassStepInv
<1>12. ASSUME NEW R \in Replicas, Crash(R)
       PROVE  SyncInv'
  BY <1>1, <1>2, <1>12, CrashInv
<1>13. CASE Failure
  BY <1>2, <1>6, <1>9, <1>10, <1>11, <1>12, <1>13 DEF Failure, StepFailure
<1>14. CASE UNCHANGED vars
  BY <1>2, <1>7, <1>14 DEF vars, repoVars
<1> QED BY <1>2, <1>3, <1>4, <1>5, <1>6, <1>8, <1>13, <1>14 DEF SyncNext, EtcdStep

(* Every state of the write path satisfies its inductive invariant, and    *)
(* the repository's with it.                                               *)
THEOREM SyncInvariant == SyncSpec => [](RepoInv /\ SyncInv)
<1>1. SyncInit => RepoInv /\ SyncInv
  BY SyncInitInv
<1>2. RepoInv /\ SyncInv /\ [SyncNext]_vars => (RepoInv /\ SyncInv)'
  BY SyncStepInv
<1> QED BY <1>1, <1>2, PTL DEF SyncSpec

(* A task that any goroutine of any replica has marked Completed is        *)
(* published, and stays so.                                                *)
THEOREM CompletedIsPublishedAlways == SyncSpec => []CompletedIsPublished
<1>1. SyncInv => CompletedIsPublished
  BY DEF SyncInv
<1> QED BY <1>1, SyncInvariant, PTL

(* etcd only ever holds flags that a transaction of SaveFeature committed. *)
THEOREM PublishedWasCommittedAlways == SyncSpec => []PublishedWasCommitted
<1>1. SyncInv => PublishedWasCommitted
  BY DEF SyncInv
<1> QED BY <1>1, SyncInvariant, PTL

(* Whatever the three kinds of publishers do, a published version is never *)
(* taken back.                                                             *)
THEOREM SyncNeverOlder == SyncSpec => NeverOlder
<1>1. RepoInv /\ SyncInv /\ [SyncNext]_vars => [Upward]_repoVars
  BY SyncIsRepoStep, StepNeverOlder
<1> QED BY <1>1, SyncInvariant, PTL DEF SyncSpec, NeverOlder

(* The write path uses the repository as its specification allows, so the  *)
(* publishers of all replicas together see one versioned register.         *)
THEOREM SyncUsesRegister == SyncSpec => ImplementsRegister
<1>1. SyncInit => RepoInit
  BY DEF SyncInit
<1>2. RepoInv /\ SyncInv /\ [SyncNext]_vars => [RepoNext]_repoVars
  BY SyncIsRepoStep
<1>3. SyncSpec => RepoSpec
  BY <1>1, <1>2, SyncInvariant, PTL DEF SyncSpec, RepoSpec
<1> QED BY <1>3, RepoRefinesRegister, PTL

\* Where the tasks of a key are completed, carry distinct versions and the
\* master row is the newest, etcd holds the row.
LEMMA Converged ==
  ASSUME RepoInv, SyncInv, NEW i \in DOMAIN master,
         DistinctVersions(master[i].key), NewestRow(i), AllCompleted(master[i].key)
  PROVE  Published(master[i].key) = master[i]
<1> DEFINE f == master[i]
           k == f.key
<1>1. SyncTypeOK /\ CompletedIsPublished /\ PublishedWasCommitted /\ FlagsCommitted
  BY DEF SyncInv
<1>2. f \in Flag
  BY <1>1, RowsTyped
<1>3. k \in Keys /\ f.ver \in Nat \ {0} /\ f = [key |-> k, ver |-> f.ver, val |-> f.val]
  BY <1>2, RepoConstants DEF Flag, RepoConstants
<1>4. PICK a \in DOMAIN outbox : outbox[a].flag = f
  BY <1>1 DEF FlagsCommitted, Committed
<1>5. kv[k].ver >= f.ver
  BY <1>1, <1>4 DEF AllCompleted, CompletedIsPublished, Done
<1>6. kv[k].ver \in Nat
  BY <1>3 DEF RepoInv, RepoTypeOK, Entry
<1>7. kv[k].mod # 0
  BY <1>3, <1>5, <1>6 DEF RepoInv, EntriesOK
<1>8. PICK b \in DOMAIN outbox : outbox[b].flag = Published(k)
  BY <1>1, <1>3, <1>7 DEF PublishedWasCommitted, Committed
<1>9. outbox[b].flag.key = k /\ outbox[b].flag.ver = kv[k].ver /\ outbox[b].flag.val = kv[k].val
  BY <1>8 DEF Published
<1>10. kv[k].ver <= f.ver
  BY <1>9 DEF NewestRow
<1>11. kv[k].ver = f.ver
  BY <1>3, <1>5, <1>6, <1>10
<1>12. kv[k].val = f.val
  BY <1>4, <1>9, <1>11 DEF DistinctVersions
<1> QED BY <1>3, <1>11, <1>12 DEF Published

(* Completed tasks bring etcd and MySQL together: what the outbox          *)
(* guarantees for every number of writers, workers, crashes and retries,   *)
(* and the two conditions it rests on.                                     *)
THEOREM CompletedConvergesAlways == SyncSpec => []CompletedConverges
<1>1. RepoInv /\ SyncInv => CompletedConverges
  BY Converged DEF CompletedConverges
<1> QED BY <1>1, SyncInvariant, PTL
=============================================================================
