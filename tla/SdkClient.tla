------------------------------ MODULE SdkClient ------------------------------
(***************************************************************************)
(* client/client.go: one MizuClient against the server of FlagStream.      *)
(*                                                                         *)
(*   Start           fetchAll, or loadSnapshot when the server is away     *)
(*   runWatchLoop    a connection with last_rev, read until it breaks; the *)
(*                   HTTP client's timeout of 10 s covers the body, so     *)
(*                   every connection breaks sooner or later               *)
(*   runSnapshotLoop writes memory to a local file now and then            *)
(*                                                                         *)
(* The two loops are goroutines that share the memory under a lock.  A     *)
(* flag is the revision that wrote it, as in FlagStream, 0 when absent.    *)
(*                                                                         *)
(* The server writes its events with gin, as "event:reset" without a space *)
(* behind the colon, and the scanner looks for "event: ".  So the type of  *)
(* an event stays empty, the branches for "reset" and "ping" are never     *)
(* taken, and the data of such an event goes to json.Unmarshal, which      *)
(* refuses it: the client logs an error and reads on.                      *)
(***************************************************************************)
EXTENDS FlagStream

CONSTANTS Mine,       \* the scopes the client is configured for
          MaxSaves    \* bound on the writes of the file

ASSUME SdkConstants ==
  /\ Mine \subseteq Scopes
  /\ MaxSaves \in Nat
  /\ \A c \in Conns : Sub[c] = Mine
  /\ Wild = {}

VARIABLES memory,    \* features and lastRev
          isDirty,
          phase,     \* "new", "idle" between connections, "watch"
          conn,      \* the connection, and how many of its events are read
          saver,     \* runSnapshotLoop: what it has marshalled
          file,      \* the cache file
          sdkHist    \* history: what the client has been through

sdkVars == <<memory, isDirty, phase, conn, saver, file, sdkHist>>
allVars == <<streamVars, sdkVars>>

Memory   == [features : [Names -> Nat], lastRev : Nat]
Empty    == [features |-> [n \in Names |-> 0], lastRev |-> 0]
NoConn   == [id |-> {}, read |-> 0]
NoFile   == [none |-> TRUE]
Idle     == [pc |-> "idle"]

\* sure: every session began after the hub knew the client, with a server
\* that has neither restarted nor lost its watch, and no start was refused.
SdkInit ==
  /\ StreamInit
  /\ memory = Empty
  /\ isDirty = FALSE
  /\ phase = "new"
  /\ conn = NoConn
  /\ saver = Idle
  /\ file = NoFile
  /\ sdkHist = [sure |-> TRUE, reset |-> FALSE, unsaved |-> FALSE, saves |-> 0]

-----------------------------------------------------------------------------
(* Start.                                                                  *)

\* A mutation of fetchAll: etcd's revision is taken for that of the answer.
fetchAll_StoreRev ==
  LET res == FetchAll(Mine)
  IN  /\ memory' = [features |-> [n \in Names |-> IF n \in DOMAIN res.data THEN res.data[n].rev
                                                  ELSE memory.features[n]],
                    lastRev  |-> Len(hist)]
      /\ isDirty' = TRUE

\* fetchAll merges the answer into memory; what the answer lacks stays.
fetchAll ==
  LET res == FetchAll(Mine)
  IN  /\ memory' = [features |-> [n \in Names |-> IF n \in DOMAIN res.data THEN res.data[n].rev
                                                  ELSE memory.features[n]],
                    lastRev  |-> res.rev]
      /\ isDirty' = TRUE

StartFetch ==
  /\ phase = "new"
  /\ fetchAll
  /\ phase' = "idle"
  /\ sdkHist' = [sdkHist EXCEPT !.sure = @ /\ run.pc \notin {"boot", "load", "stopped"}]
  /\ UNCHANGED <<streamVars, conn, saver, file>>

\* The key check (SDKAuthMiddleware) refuses the request, because ValidateAPIKey
\* could not read its table.  fetchAll does not look at the status: the JSON of
\* the error decodes to no flags and revision 0, which is a success, and the
\* file is not loaded but will be overwritten.
StartRefused ==
  /\ phase = "new"
  /\ memory' = [memory EXCEPT !.lastRev = 0]
  /\ isDirty' = TRUE
  /\ phase' = "idle"
  /\ sdkHist' = [sdkHist EXCEPT !.sure = FALSE]
  /\ Fails
  /\ UNCHANGED <<bufVars, hubVars, hist, run, cache, cacheRev, h, wire>>
  /\ UNCHANGED <<conn, saver, file>>

\* A mutation of StartLoad: a file that cannot be read is not noticed.
StartLoad_NoFile ==
  /\ phase = "new"
  /\ memory' = file
  /\ phase' = "idle"
  /\ UNCHANGED <<streamVars, isDirty, conn, saver, file, sdkHist>>

\* The server does not answer: loadSnapshot.  Without a file Start fails, and
\* the application is where it was.
StartLoad ==
  /\ phase = "new"
  /\ file # NoFile
  /\ memory' = file
  /\ phase' = "idle"
  /\ UNCHANGED <<streamVars, isDirty, conn, saver, file, sdkHist>>

-----------------------------------------------------------------------------
(* runWatchLoop.                                                           *)

SdkConnect(c) ==
  /\ phase = "idle"
  /\ Connect(c, memory.lastRev)
  /\ phase' = "watch"
  /\ conn' = [id |-> {c}, read |-> 0]
  /\ UNCHANGED <<memory, isDirty, saver, file, sdkHist>>

handleUpdate(m) ==
  IF m.rev <= memory.lastRev
  THEN UNCHANGED <<memory, isDirty>>
  ELSE /\ memory' = [features |-> [memory.features EXCEPT ![m.name] =
                                     IF m.act = "del" THEN 0 ELSE m.rev],
                     lastRev  |-> m.rev]
       /\ isDirty' = TRUE

\* The next event of the stream, a reset included, which is not understood.
SdkRead(c) ==
  /\ c \in conn.id
  /\ conn.read < Len(wire[c])
  /\ LET m == wire[c][conn.read + 1]
     IN  /\ IF m = Reset THEN UNCHANGED <<memory, isDirty>> ELSE handleUpdate(m)
         /\ sdkHist' = [sdkHist EXCEPT !.sure = @ /\ h[c].early, !.reset = @ \/ m = Reset]
  /\ conn' = [conn EXCEPT !.read = @ + 1]
  /\ UNCHANGED <<streamVars, phase, saver, file>>

\* The connection ends: the timeout, the watchdog, the server or the network.
\* What was sent and not read is lost.
SdkDrop ==
  /\ phase = "watch"
  /\ phase' = "idle"
  /\ conn' = NoConn
  /\ UNCHANGED <<streamVars, memory, isDirty, saver, file, sdkHist>>

-----------------------------------------------------------------------------
(* runSnapshotLoop.                                                        *)

\* The mark is taken off in a critical section of its own, before ...
SaveBegin ==
  /\ phase # "new"
  /\ saver = Idle
  /\ isDirty
  /\ isDirty' = FALSE
  /\ saver' = [pc |-> "marshal"]
  /\ sdkHist.saves < MaxSaves
  /\ sdkHist' = [sdkHist EXCEPT !.saves = @ + 1]
  /\ UNCHANGED <<streamVars, memory, phase, conn, file>>

\* ... saveSnapshot marshals the memory in the next one.
SaveMarshal ==
  /\ saver.pc = "marshal"
  /\ saver' = [pc |-> "write", data |-> memory]
  /\ UNCHANGED <<streamVars, memory, isDirty, phase, conn, file, sdkHist>>

\* A mutation of SaveWrite: the mark is taken off when the file is written.
SaveWrite_ClearsLate ==
  /\ saver.pc = "write"
  /\ file' = saver.data
  /\ saver' = Idle
  /\ isDirty' = FALSE
  /\ sdkHist' = [sdkHist EXCEPT !.unsaved = FALSE]
  /\ UNCHANGED <<streamVars, memory, phase, conn>>

\* A temporary file is written and renamed, so the cache file is replaced
\* as a whole; nobody reads the temporary one.
SaveWrite ==
  /\ saver.pc = "write"
  /\ file' = saver.data
  /\ saver' = Idle
  /\ sdkHist' = [sdkHist EXCEPT !.unsaved = FALSE]
  /\ UNCHANGED <<streamVars, memory, isDirty, phase, conn>>

\* Writing or renaming fails; the mark is not set again.
SaveFails ==
  /\ saver.pc = "write"
  /\ saver' = Idle
  /\ sdkHist' = [sdkHist EXCEPT !.unsaved = TRUE]
  /\ Fails
  /\ UNCHANGED <<bufVars, hubVars, hist, run, cache, cacheRev, h, wire>>
  /\ UNCHANGED <<memory, isDirty, phase, conn, file>>

-----------------------------------------------------------------------------
\* The application dies and is started again.
SdkCrash ==
  /\ phase # "new"
  /\ Fails
  /\ memory' = Empty
  /\ isDirty' = FALSE
  /\ phase' = "new"
  /\ conn' = NoConn
  /\ saver' = Idle
  /\ UNCHANGED <<bufVars, hubVars, hist, run, cache, cacheRev, h, wire>>
  /\ UNCHANGED <<file, sdkHist>>

\* The server's steps; a handler sees its client gone once it has dropped.
ServerStep ==
  \/ \E e \in Events : EtcdEvent(e)
  \/ RunStep
  \/ HubStep
  \/ \E c \in Conns : \/ HandlerStep(c)
                      \/ c \notin conn.id /\ (StreamDone(c) \/ Collect(c))

ServerFailure == RunStops \/ Restart

SdkNext ==
  \/ StartFetch \/ StartRefused \/ StartLoad
  \/ \E c \in Conns : SdkConnect(c) \/ SdkRead(c)
  \/ SdkDrop
  \/ SaveBegin \/ SaveMarshal \/ SaveWrite \/ SaveFails
  \/ SdkCrash
  \/ ServerStep /\ UNCHANGED sdkVars
  \/ /\ ServerFailure
     /\ sdkHist' = [sdkHist EXCEPT !.sure = FALSE]
     /\ UNCHANGED <<memory, isDirty, phase, conn, saver, file>>

SdkSpec == SdkInit /\ [][SdkNext]_allVars

-----------------------------------------------------------------------------
(* What the client guarantees.                                             *)

SdkTypeOK ==
  /\ memory \in Memory
  /\ isDirty \in BOOLEAN
  /\ phase \in {"new", "idle", "watch"}
  /\ conn \in [id : SUBSET Conns, read : Nat]
  /\ saver \in {Idle, [pc |-> "marshal"]} \cup [pc : {"write"}, data : Memory]
  /\ file \in {NoFile} \cup Memory
  /\ sdkHist \in [sure : BOOLEAN, reset : BOOLEAN, unsaved : BOOLEAN, saves : Nat]

OwnFlags(mem) ==
  \A n \in Names :
    LET r == mem.features[n]
    IN  r # 0 => r \in Revs /\ hist[r].act = "put" /\ hist[r].name = n /\ hist[r].scope \in Mine

(* Isolation from end to end: whatever the client holds in memory or has   *)
(* saved was published under that name in one of the environments and      *)
(* namespaces it is configured for.  It got there through the server's     *)
(* snapshot, the ring's history, the hub's shards or its own file.         *)
OnlyOwnFlags == OwnFlags(memory) /\ (file # NoFile => OwnFlags(file))

(* A clean client is a saved one: when the memory is not marked dirty and  *)
(* the saver rests, the file holds exactly the memory, whatever updates    *)
(* arrived while the saver was at work, unless its last write failed.      *)
CleanMeansSaved ==
  (phase # "new" /\ ~isDirty /\ saver = Idle /\ ~sdkHist.unsaved) => file = memory

\* The client has read all there is, and the server has nothing in between.
Drained ==
  /\ run.pc = "watch"
  /\ ~\E r \in Revs : r > run.pos /\ IsFeature(r)
  /\ \E c \in conn.id : /\ h[c].pc = "stream" /\ h[c].early /\ c \in clients
                        /\ send[c] = <<>> /\ conn.read = Len(wire[c])

\* The name is used in one scope only.
Unshared(n) ==
  \A q, r \in Revs : (IsFeature(q) /\ IsFeature(r) /\ hist[q].name = n /\ hist[r].name = n)
                      => hist[q].scope = hist[r].scope

Current ==
  \A n \in Names, s \in Mine :
    (LiveRev(s, n) # 0 /\ Unshared(n)) => memory.features[n] = LiveRev(s, n)

(* No update is lost between snapshot, history, live events and file: a    *)
(* client that has read its stream to the end holds every flag of its      *)
(* scopes as etcd does, after any number of broken connections, evictions, *)
(* crashes and starts from the file.  Not covered are the losses that the  *)
(* code allows: a reset, a session that the hub did not know in time, a    *)
(* server that restarted, and a start that the key check refused; and two  *)
(* flags of one name, of which server and client keep the one written last. *)
DrainedIsCurrent ==
  (Drained /\ sdkHist.sure /\ ~sdkHist.reset) => Current

-----------------------------------------------------------------------------
(* The inductive invariant of the safety properties above.                 *)

\* The memory, the file and what the saver has marshalled.
Copies ==
  (IF phase = "new" THEN {} ELSE {memory})
    \cup (IF file = NoFile THEN {} ELSE {file})
    \cup (IF saver.pc = "write" THEN {saver.data} ELSE {})

\* A connection is read in order, and what is read is behind lastRev.
ReadOK ==
  /\ phase # "watch" => conn = NoConn
  /\ \A c, d \in conn.id : c = d
  /\ \A c \in conn.id :
       /\ h[c] # NoHandler /\ h[c].last <= memory.lastRev /\ conn.read <= Len(wire[c])
       /\ \A i \in 1 .. conn.read : IsEvent(wire[c][i]) => wire[c][i].rev <= memory.lastRev
       /\ conn.read > 0 /\ h[c].reset => sdkHist.reset
  /\ \A c \in Conns : (h[c] # NoHandler /\ h[c].reset) => wire[c] # <<>> /\ wire[c][1] = Reset

\* What is marshalled is not older than the last update that left no mark.
SaverOK ==
  /\ phase = "new" => memory = Empty /\ saver = Idle /\ ~isDirty
  /\ (~isDirty /\ saver.pc = "write") => saver.data = memory
  /\ CleanMeansSaved

\* Every copy holds own flags, and no revision that etcd has not reached.
CopiesOK == \A mem \in Copies : OwnFlags(mem) /\ mem.lastRev <= Len(hist)

\* What the server's snapshot showed, and what came up to lastRev, is there.
Kept(mem) ==
  \A n \in Names, s \in Mine :
    LET r == LiveRev(s, n)
    IN  (r # 0 /\ Unshared(n) /\ (r <= mem.lastRev \/ r <= run.base))
          => mem.features[n] = r /\ r <= mem.lastRev

KeptOK ==
  /\ run.pc \in {"watch", "buffer", "bcast"} =>
       \A n \in Names, s \in Scopes : LiveRev(s, n) <= run.base => LiveRev(s, n) <= cacheRev
  /\ sdkHist.sure => /\ run.pc # "stopped"
                     /\ run.pc \in {"boot", "load"} => Copies = {}
  /\ (sdkHist.sure /\ ~sdkHist.reset) => \A mem \in Copies : Kept(mem)

(* The client's part of the inductive invariant; StreamInv is the server's. *)
SdkInv == SdkTypeOK /\ ReadOK /\ SaverOK /\ CopiesOK /\ KeptOK

-----------------------------------------------------------------------------
(* What the client's code says of itself and does not do.                  *)

(* client.go, runWatchLoop: "received reset event, re-fetching all         *)
(* features": a client that was told to reset catches up as well.          *)
ResetCatchesUp ==
  (Drained /\ sdkHist.sure) => Current
=============================================================================
