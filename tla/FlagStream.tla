----------------------------- MODULE FlagStream -----------------------------
(***************************************************************************)
(* From etcd to the subscribers of one server process:                     *)
(*                                                                         *)
(*   internal/service/feature.go     Run, the goroutine that watches etcd  *)
(*   internal/service/cache.go       FeatureCache, served by FetchAll      *)
(*   internal/api/stream_handler.go  WatchFeature, DashboardWatch, FetchAll*)
(*   EventHub, RevisionBuffer        the hub and the ring between them     *)
(*                                                                         *)
(* etcd is external: its history is a sequence of events whose index is    *)
(* the store revision.  FeatureRepository says who writes it; here it      *)
(* grows by itself.  The payload of an event is identified by its          *)
(* revision, so a cached flag is the revision that wrote it.               *)
(***************************************************************************)
EXTENDS RevisionBuffer, EventHub, FiniteSetsExt, SequencesExt

CONSTANTS Names,        \* short keys; a flag is a scope and a name
          Dash,         \* connections made by DashboardWatch
          Events,       \* the events that etcd's history is made of
          MaxRev,       \* bound on etcd's history
          MaxFailures   \* bound on restarts and on failures of Run

ASSUME StreamConstants ==
  /\ Dash \subseteq Wild
  /\ Events \subseteq [act : {"put", "del"}, scope : Scopes, name : Names] \cup [act : {"other"}]
  /\ \A c \in Dash : Sub[c] = {}
  /\ MaxRev \in Nat
  /\ MaxFailures \in Nat

VARIABLES hist,       \* etcd's events
          run,        \* Run: its pc, the revision it started from and is at,
                      \* and what of the snapshot it has still to cache
          cache,      \* cache[n]: the flag cached under the short key n
          cacheRev,   \* the cache's revision
          h,          \* h[c]: the handler of connection c
          wire,       \* wire[c]: what that handler has written (WatchFeature)
          failures

flagVars   == <<hist, run, cache, cacheRev, h, wire, failures>>
streamVars == <<bufVars, hubVars, flagVars>>

Message == [rev : Nat, act : {"put", "del"}, scope : Scopes, name : Names]
Reset   == [reset |-> TRUE]

ASSUME MessagesApart == Ping \notin Message /\ NoMsg \notin Message

NoFlag == [rev |-> 0]
Cached == [rev : Nat \ {0}, scope : Scopes]

NoHandler == [pc |-> "new"]
Handler   == [pc : {"open", "history", "stream", "leaving", "gone"}, last : Nat, max : Nat,
              todo : Seq(Message), reset : BOOLEAN, early : BOOLEAN]

NewRun == [pc |-> "boot", base |-> 0, pos |-> 0, todo |-> {}]

StreamInit ==
  /\ BufferInit
  /\ HubInit
  /\ hist = <<>>
  /\ run = NewRun
  /\ cache = [n \in Names |-> NoFlag]
  /\ cacheRev = 0
  /\ h = [c \in Conns |-> NoHandler]
  /\ wire = [c \in Conns |-> <<>>]
  /\ failures = 0

Fails ==
  /\ failures < MaxFailures
  /\ failures' = failures + 1

-----------------------------------------------------------------------------
(* etcd.                                                                   *)

Revs == 1 .. Len(hist)

IsFeature(r) == hist[r].act # "other"

\* Two events of one flag.
SameFlag(q, r) == hist[q].scope = hist[r].scope /\ hist[q].name = hist[r].name

\* The message of the event with revision r.
Msg(r) == [rev |-> r, act |-> hist[r].act, scope |-> hist[r].scope, name |-> hist[r].name]

\* The revision that last wrote the flag, 0 when it does not exist.
LiveRev(s, n) ==
  LET R == {r \in Revs : IsFeature(r) /\ hist[r].scope = s /\ hist[r].name = n}
  IN  IF R = {} THEN 0 ELSE IF hist[Max(R)].act = "del" THEN 0 ELSE Max(R)

\* A flag is published, deleted by hand, or another key changes.
EtcdEvent(e) ==
  /\ Len(hist) < MaxRev
  /\ e.act = "del" => LiveRev(e.scope, e.name) # 0
  /\ hist' = Append(hist, e)
  /\ UNCHANGED <<bufVars, hubVars, run, cache, cacheRev, h, wire, failures>>

-----------------------------------------------------------------------------
(* FeatureService.Run.                                                     *)

\* The flags that existed at revision b, each by the revision that wrote it.
LiveAt(b) ==
  {r \in Revs : /\ r <= b /\ hist[r].act = "put"
                /\ \A q \in Revs : (q > r /\ q <= b /\ IsFeature(q)) => ~SameFlag(q, r)}

\* A mutation of RunSnapshot: the watch starts one revision too late.
RunSnapshot_SkipsOne ==
  /\ run.pc = "boot"
  /\ run' = [pc |-> "load", base |-> Len(hist) + 1, pos |-> Len(hist) + 1,
             todo |-> LiveAt(Len(hist))]
  /\ UNCHANGED <<bufVars, hubVars, hist, cache, cacheRev, h, wire, failures>>

\* The snapshot under the prefix is read.  The watch will start behind it.
RunSnapshot ==
  /\ run.pc = "boot"
  /\ run' = [pc |-> "load", base |-> Len(hist), pos |-> Len(hist), todo |-> LiveAt(Len(hist))]
  /\ UNCHANGED <<bufVars, hubVars, hist, cache, cacheRev, h, wire, failures>>

\* The loop over the snapshot, in key order, which begins with the scope: where
\* two scopes use one name, the later remains.  FetchAll may look between two
\* flags.
RunLoad ==
  /\ run.pc = "load"
  /\ \E r \in run.todo :
       /\ \A q \in run.todo : hist[r].scope <= hist[q].scope
       /\ run' = [run EXCEPT !.todo = @ \ {r}]
       /\ cache' = [cache EXCEPT ![hist[r].name] = [rev |-> r, scope |-> hist[r].scope]]
       /\ cacheRev' = Max({cacheRev, r})
  /\ UNCHANGED <<bufVars, hubVars, hist, h, wire, failures>>

RunWatch ==
  /\ run.pc = "load"
  /\ run.todo = {}
  /\ run' = [run EXCEPT !.pc = "watch"]
  /\ UNCHANGED <<bufVars, hubVars, hist, cache, cacheRev, h, wire, failures>>

\* The snapshot fails or the watch is canceled: Run returns for good.
RunStops ==
  /\ run.pc \in {"boot", "watch"}
  /\ run' = [run EXCEPT !.pc = "stopped"]
  /\ Fails
  /\ UNCHANGED <<bufVars, hubVars, hist, cache, cacheRev, h, wire>>

\* A mutation of RunEvent: the cache is only updated when its revision is.
RunEvent_UpdateIfNewer ==
  /\ run.pc = "watch"
  /\ LET R == {r \in Revs : r > run.pos /\ IsFeature(r)}
         r == Min(R)
     IN  /\ R # {}
         /\ run' = [run EXCEPT !.pc = "buffer", !.pos = r]
         /\ cacheRev' = IF hist[r].act = "put" THEN cacheRev ELSE Max({cacheRev, r})
  /\ UNCHANGED <<bufVars, hubVars, hist, cache, h, wire, failures>>

\* The next event under the prefix updates the cache.  A put replaces what
\* the name holds, and its stored Revision is 0, so the cache's revision
\* stays.  A delete looks for the full path, which is no key of the cache.
RunEvent ==
  /\ run.pc = "watch"
  /\ LET R == {r \in Revs : r > run.pos /\ IsFeature(r)}
         r == Min(R)
     IN  /\ R # {}
         /\ run' = [run EXCEPT !.pc = "buffer", !.pos = r]
         /\ IF hist[r].act = "put"
            THEN /\ cache' = [cache EXCEPT ![hist[r].name] = [rev |-> r, scope |-> hist[r].scope]]
                 /\ UNCHANGED cacheRev
            ELSE /\ cacheRev' = Max({cacheRev, r})
                 /\ UNCHANGED cache
  /\ UNCHANGED <<bufVars, hubVars, hist, h, wire, failures>>

RunBuffer ==
  /\ run.pc = "buffer"
  /\ AddMessage(Msg(run.pos))
  /\ run' = [run EXCEPT !.pc = "bcast"]
  /\ UNCHANGED <<hubVars, hist, cache, cacheRev, h, wire, failures>>

\* Broadcast is unbuffered: Run goes on when the hub has taken the message.
RunBroadcast ==
  /\ run.pc = "bcast"
  /\ HubBroadcast(Msg(run.pos))
  /\ run' = [run EXCEPT !.pc = "watch"]
  /\ UNCHANGED <<bufVars, hist, cache, cacheRev, h, wire, failures>>

-----------------------------------------------------------------------------
(* The handlers.                                                           *)

Moves(c, x) == h' = [h EXCEPT ![c] = x]

\* WatchFeature and DashboardWatch register their client.  "early" is set
\* when the hub knows the client before the ring is read (history variable).
Connect(c, last) ==
  /\ h[c] = NoHandler
  /\ Register(c)
  /\ Moves(c, [pc |-> IF c \in Dash THEN "stream" ELSE "open",
               last |-> IF c \in Dash THEN 0 ELSE last,
               max |-> IF c \in Dash THEN 0 ELSE last,
               todo |-> <<>>,
               reset |-> FALSE, early |-> FALSE])
  /\ UNCHANGED <<bufVars, hist, run, cache, cacheRev, wire, failures>>

\* The handler goes on with the history that is left to send.
Rest(c, x, todo) ==
  Moves(c, [x EXCEPT !.pc = IF todo = <<>> THEN "stream" ELSE "history", !.todo = todo])

\* The ring is read: what has come since last_rev, or a reset.
Compensate(c) ==
  /\ h[c].pc = "open"
  /\ LET res == GetSince(h[c].last)
     IN  IF res.ok
         THEN /\ Rest(c, [h[c] EXCEPT !.early = c \in clients], res.msgs)
              /\ UNCHANGED wire
         ELSE /\ wire' = [wire EXCEPT ![c] = Append(@, Reset)]
              /\ Rest(c, [h[c] EXCEPT !.early = c \in clients, !.reset = TRUE], <<>>)
  /\ UNCHANGED <<bufVars, hubVars, hist, run, cache, cacheRev, failures>>

\* A mutation of SendHistory: the history is sent without its filter.
SendHistory_Unfiltered(c) ==
  /\ h[c].pc = "history"
  /\ LET m == Head(h[c].todo)
     IN  /\ wire' = [wire EXCEPT ![c] = Append(@, m)]
         /\ Rest(c, [h[c] EXCEPT !.max = m.rev], Tail(h[c].todo))
  /\ UNCHANGED <<bufVars, hubVars, hist, run, cache, cacheRev, failures>>

\* The loop over the history, which writes what the connection asked for.
\* The hub may fill the channel meanwhile, and give the client up.
SendHistory(c) ==
  /\ h[c].pc = "history"
  /\ LET m == Head(h[c].todo)
     IN  IF m.scope \in Sub[c]
         THEN /\ wire' = [wire EXCEPT ![c] = Append(@, m)]
              /\ Rest(c, [h[c] EXCEPT !.max = m.rev], Tail(h[c].todo))
         ELSE /\ Rest(c, h[c], Tail(h[c].todo))
              /\ UNCHANGED wire
  /\ UNCHANGED <<bufVars, hubVars, hist, run, cache, cacheRev, failures>>

\* A mutation of Wanted: the filter for replicated messages is missing.
Wanted_Again(c, m) ==
  /\ m # Ping
  /\ m.scope \in Sub[c]

\* A message is written unless it is a heartbeat, is for somebody else or has
\* been sent as history.  A dashboard gets everything, which is not recorded.
Wanted(c, m) ==
  /\ m # Ping
  /\ m.scope \in Sub[c]
  /\ m.rev > h[c].max

Stream(c) ==
  /\ h[c].pc = "stream"
  /\ Receive(c)
  /\ LET m == Head(send[c])
     IN  IF Wanted(c, m)
         THEN /\ wire' = [wire EXCEPT ![c] = Append(@, m)]
              /\ Moves(c, [h[c] EXCEPT !.max = m.rev])
         ELSE UNCHANGED <<wire, h>>
  /\ UNCHANGED <<bufVars, hist, run, cache, cacheRev, failures>>

\* The hub has closed the channel.
StreamClosed(c) ==
  /\ h[c].pc = "stream"
  /\ Disconnected(c)
  /\ Moves(c, [h[c] EXCEPT !.pc = "leaving"])
  /\ UNCHANGED <<bufVars, hubVars, hist, run, cache, cacheRev, wire, failures>>

\* The client has gone away.
StreamDone(c) ==
  /\ h[c].pc = "stream"
  /\ Moves(c, [h[c] EXCEPT !.pc = "leaving"])
  /\ UNCHANGED <<bufVars, hubVars, hist, run, cache, cacheRev, wire, failures>>

\* The deferred send to Unregister.
Leave(c) ==
  /\ h[c].pc = "leaving"
  /\ Unregister(c)
  /\ Moves(c, [h[c] EXCEPT !.pc = "gone"])
  /\ UNCHANGED <<bufVars, hist, run, cache, cacheRev, wire, failures>>

\* A connection is over; the next one has a new Client object.
Collect(c) ==
  /\ h[c].pc = "gone"
  /\ Garbage(c)
  /\ Moves(c, NoHandler)
  /\ wire' = [wire EXCEPT ![c] = <<>>]
  /\ UNCHANGED <<bufVars, hist, run, cache, cacheRev, failures>>

\* FetchAll: the cached flags of the scopes S, and the cache's revision.
FetchAll(S) ==
  [data |-> [n \in {m \in Names : cache[m] # NoFlag /\ cache[m].scope \in S} |-> cache[n]],
   rev  |-> cacheRev]

-----------------------------------------------------------------------------
\* The server dies and another one starts.
Restart ==
  /\ Fails
  /\ NewRevisionBuffer
  /\ NewHub
  /\ run' = NewRun
  /\ cache' = [n \in Names |-> NoFlag]
  /\ cacheRev' = 0
  /\ h' = [c \in Conns |-> IF h[c] = NoHandler THEN NoHandler ELSE [h[c] EXCEPT !.pc = "gone"]]
  /\ UNCHANGED <<hist, wire>>

HubStep ==
  /\ HubRegister \/ HubUnregister \/ HubHeartbeat
  /\ UNCHANGED <<bufVars, flagVars>>

RunStep == RunSnapshot \/ RunLoad \/ RunWatch \/ RunEvent \/ RunBuffer \/ RunBroadcast

HandlerStep(c) == Compensate(c) \/ SendHistory(c) \/ Stream(c) \/ StreamClosed(c) \/ Leave(c)

StreamNext ==
  \/ \E e \in Events : EtcdEvent(e)
  \/ RunStep
  \/ HubStep
  \/ \E c \in Conns : \/ \E last \in 0 .. Len(hist) : Connect(c, last)
                      \/ HandlerStep(c)
                      \/ StreamDone(c)
                      \/ Collect(c)
  \/ RunStops
  \/ Restart

\* The hub's select takes every channel that stays ready, its ticker ticks,
\* and Run goes on while it can.  Clients come and go as they like, and a
\* handler may wait for ever in a write to its connection.
StreamFairness ==
  /\ WF_streamVars(RunStep)
  /\ WF_streamVars(HubRegister /\ UNCHANGED <<bufVars, flagVars>>)
  /\ WF_streamVars(HubUnregister /\ UNCHANGED <<bufVars, flagVars>>)
  /\ WF_streamVars(HubHeartbeat /\ UNCHANGED <<bufVars, flagVars>>)

StreamSpec == StreamInit /\ [][StreamNext]_streamVars /\ StreamFairness

-----------------------------------------------------------------------------
(* What the distribution path guarantees.                                  *)

StreamTypeOK ==
  /\ messages \in [Slots -> Message \cup {NoMsg}] /\ head \in Slots /\ isFull \in BOOLEAN
  /\ register \in Seq(Conns) /\ unregister \in Seq(Conns)
  /\ clients \subseteq Conns /\ wildcards \subseteq Conns /\ closed \subseteq Conns
  /\ shards \subseteq Scopes \X Conns
  /\ send \in [Conns -> Seq(Message \cup {Ping})]
  /\ hist \in Seq(Events)
  /\ run \in [pc : {"boot", "load", "watch", "buffer", "bcast", "stopped"},
              base : Nat, pos : Nat, todo : SUBSET Nat]
  /\ cache \in [Names -> {NoFlag} \cup Cached] /\ cacheRev \in Nat
  /\ h \in [Conns -> {NoHandler} \cup Handler]
  /\ wire \in [Conns -> Seq(Message \cup {Reset})]
  /\ failures \in Nat

\* The events that the ring should hold, and those the hub has been given.
Ringed == {r \in Revs : /\ IsFeature(r) /\ r > run.base /\ r <= run.pos
                        /\ run.pc = "buffer" => r < run.pos}
Given  == {r \in Revs : /\ IsFeature(r) /\ r > run.base /\ r <= run.pos
                        /\ run.pc \in {"buffer", "bcast"} => r < run.pos}

IsEvent(m) == m \notin {Reset, Ping}

\* The events of s are in revision order.
Ascending(s) ==
  \A i, j \in DOMAIN s : (i < j /\ IsEvent(s[i]) /\ IsEvent(s[j])) => s[i].rev < s[j].rev

RevsOf(s) == {s[i].rev : i \in {j \in DOMAIN s : IsEvent(s[j])}}

(* The ring answers exactly: whatever revision a client comes with, it     *)
(* gets the process's events after that revision, all of them, once, in    *)
(* order, also when the ring has wrapped around; or it is told that the    *)
(* ring does not reach back.                                               *)
BufferExact ==
  \A last \in 0 .. Len(hist) :
    LET res == GetSince(last)
    IN  res.ok => /\ Ascending(res.msgs)
                  /\ Range(res.msgs) = {Msg(r) : r \in {q \in Ringed : q > last}}

(* The hub never sends on a closed channel, which would panic and take the *)
(* process down: a client that it has closed, for being slow or for having *)
(* left, is in no map from which a message or a heartbeat could reach it,  *)
(* in whatever order its Register and Unregister are taken.                *)
SendsAreOpen ==
  /\ clients \cap closed = {}
  /\ wildcards \subseteq clients
  /\ \A p \in shards : p[2] \in clients

(* A subscriber sees every message at most once, in revision order and     *)
(* newer than the revision it came with, and only of the environment and   *)
(* namespaces it asked for, although history, live messages and the hub's  *)
(* shards are three sources that overlap.                                  *)
StreamOrdered ==
  \A c \in Conns :
    /\ Ascending(wire[c])
    /\ \A i \in DOMAIN wire[c] :
         wire[c][i] # Reset => /\ wire[c][i].scope \in Sub[c]
                               /\ wire[c][i].rev > h[c].last

\* The events that connection c should have been sent, or find in its Send.
Due(c) == {r \in Given : r > h[c].last /\ hist[r].scope \in Sub[c]}

Missing(c) == Due(c) \ (RevsOf(wire[c]) \cup RevsOf(send[c]))

(* Between history and live messages nothing falls through: a connection   *)
(* that the hub knew before the ring was read, was not reset and is still  *)
(* in the hub's books has been sent every event it asked for, or has it    *)
(* waiting in its channel.                                                 *)
NoGap ==
  \A c \in Conns :
    (h[c].pc = "stream" /\ h[c].early /\ ~h[c].reset /\ c \in clients) => Missing(c) = {}

(* The snapshot is never behind the stream: a put that a client can read   *)
(* from its channel or from the ring is in the cache that FetchAll serves, *)
(* or a later put of that name is, so a client that fetches after an event *)
(* does not fall back behind it.                                           *)
SnapshotNotBehind ==
  \A m \in (UNION {Range(send[c]) : c \in Conns}) \cup Range(messages) :
    (m \notin {Ping, NoMsg} /\ m.act = "put") => cache[m.name].rev >= m.rev

\* The events of a name that Run has taken.
Taken(n) == {r \in Revs : IsFeature(r) /\ hist[r].name = n /\ r <= run.pos}

\* The name's last put is served to its scope, if it is used in that one only.
CacheComplete ==
  \A s \in Scopes, n \in Names :
    LET data == FetchAll({s}).data
    IN  (/\ Taken(n) # {}
         /\ hist[Max(Taken(n))].act = "put"
         /\ \A r \in Taken(n) : hist[r].scope = s)
          => n \in DOMAIN data /\ data[n].rev = Max(Taken(n))

(* The snapshot is complete: between two events it holds the last put of a *)
(* flag, whether it was read at the start or came by the watch, before or  *)
(* after a restart, and serves it to the flag's scope.  The name must be   *)
(* used in one scope only: the cache is keyed by the short key, and of two *)
(* flags of one name only the one written last is there.                   *)
SnapshotComplete == run.pc = "watch" => CacheComplete

-----------------------------------------------------------------------------
(* The inductive invariant of the safety properties above.                 *)

\* Run has not got ahead of etcd, and between two events it has a feature's.
RunOK ==
  /\ run.base <= run.pos /\ run.pos <= Len(hist)
  /\ run.pc = "boot" => run.pos = 0
  /\ run.pc \in {"buffer", "bcast"} => run.pos > run.base /\ IsFeature(run.pos)

\* Whatever was written into the ring is an event of the process.
SlotsOK ==
  \A i \in Slots :
    messages[i] # NoMsg => messages[i].rev \in Ringed /\ messages[i] = Msg(messages[i].rev)

\* The ring holds the newest events of the process in order.
RingOK ==
  /\ SlotsOK
  /\ \A i \in 0 .. Count - 1 : At(i).rev \in Ringed /\ At(i) = Msg(At(i).rev)
  /\ \A i, j \in 0 .. Count - 1 : i < j => At(i).rev < At(j).rev
  /\ \A r \in Ringed : (isFull => At(0).rev <= r) => \E i \in 0 .. Count - 1 : At(i).rev = r

\* A client is registered once in its life, and is then under its scopes.
HubOK ==
  /\ SendsAreOpen
  /\ \A i, j \in DOMAIN register : register[i] = register[j] => i = j
  /\ \A i \in DOMAIN register : register[i] \notin clients \cup closed
  /\ \A c \in Conns : c \in clients \cup closed \cup Range(register) => h[c] # NoHandler
  /\ \A c \in clients : IF c \in Wild THEN c \in wildcards
                        ELSE \A s \in Sub[c] : <<s, c>> \in shards

\* While the snapshot is cached, what is left of it is as it was read, and what
\* is cached is part of it.
LoadOK ==
  run.pc = "load" =>
    /\ run.pos = run.base
    /\ run.todo \subseteq LiveAt(run.base)
    /\ \A r \in LiveAt(run.base) \ run.todo : cache[hist[r].name] # NoFlag /\ r <= cacheRev
    /\ \A n \in Names : cache[n] # NoFlag => cache[n].rev \in LiveAt(run.base)

\* The cache holds puts; what Run has taken since its snapshot is not newer.
CacheOK ==
  /\ cacheRev <= run.pos
  /\ \A n \in Names : cache[n] # NoFlag =>
       LET r == cache[n].rev
       IN  /\ r \in Revs /\ r <= run.pos
           /\ hist[r] = [act |-> "put", scope |-> cache[n].scope, name |-> n]
  /\ \A r \in Revs : (IsFeature(r) /\ r > run.base /\ r <= run.pos /\ hist[r].act = "put")
                       => cache[hist[r].name].rev >= r
  /\ run.pc \in {"watch", "buffer", "bcast"} => CacheComplete
  /\ LoadOK

\* Every event in s is one of R, as the message that Run made of it.
Carries(s, R) ==
  \A i \in DOMAIN s : IsEvent(s[i]) => s[i].rev \in R /\ s[i] = Msg(s[i].rev)

\* What a connection has written, has left to write and finds in its channel.
ConnOK(c) ==
  /\ Carries(send[c], Given) /\ Ascending(send[c])
  /\ Carries(wire[c], Revs)
  /\ h[c] = NoHandler => wire[c] = <<>>
  /\ h[c].pc = "open" => wire[c] = <<>> /\ h[c].max = h[c].last /\ ~h[c].reset
  /\ h[c].pc = "history" =>
       /\ h[c].todo # <<>> /\ Carries(h[c].todo, Ringed) /\ Ascending(h[c].todo)
       /\ \A i \in DOMAIN h[c].todo : h[c].todo[i].rev > h[c].max
  /\ h[c] # NoHandler =>
       /\ h[c].last <= h[c].max /\ h[c].max <= Len(hist)
       /\ \A i \in DOMAIN wire[c] : wire[c][i] # Reset => wire[c][i].rev <= h[c].max
       /\ \/ h[c].max = h[c].last
          \/ h[c].max \in Ringed
          \/ h[c].pc = "gone" /\ (run.pc \in {"boot", "stopped"} \/ h[c].max <= run.base)

\* The events that c asked for among R.
Asked(c, R) == {r \in R : hist[r].scope \in Sub[c] /\ r > h[c].last}

\* An event that c asked for is behind the history that c has left to send.
Behind(c, r) == h[c].pc = "history" => r > Last(h[c].todo).rev

\* A connection that was early has all events up to the last one it sent; the
\* next ones are in its history, and the ones behind that in its channel, up
\* to the last that the hub gave it.
GapOK(c) ==
  (h[c] # NoHandler /\ h[c].pc # "open" /\ h[c].early /\ ~h[c].reset) =>
    /\ h[c].pc \in {"history", "stream"} => c \in clients \cup closed
    /\ \A r \in Asked(c, Ringed) : r <= h[c].max => r \in RevsOf(wire[c])
    /\ h[c].pc \in {"history", "stream"} =>
         /\ \A r \in Asked(c, Ringed) :
              r > h[c].max => Behind(c, r) \/ r \in RevsOf(h[c].todo)
         /\ \A r \in Asked(c, Given) :
              (/\ r > h[c].max /\ Behind(c, r)
               /\ c \in clients \/ \E q \in RevsOf(send[c]) : r <= q) => r \in RevsOf(send[c])

StreamInv ==
  /\ StreamTypeOK /\ RunOK /\ RingOK /\ HubOK /\ CacheOK /\ StreamOrdered
  /\ \A c \in Conns : ConnOK(c) /\ GapOK(c)

-----------------------------------------------------------------------------
(* What happens in the end.                                                *)

(* Every event of etcd reaches the hub, unless Run has returned: no client *)
(* that does not read, and no order of the hub's channels, holds it up.    *)
EventsFlow ==
  [](\A r \in 1 .. MaxRev :
       (r \in Revs /\ IsFeature(r)) ~> (r <= run.base \/ r \in Given \/ run.pc = "stopped"))

(* A client stays in the hub's books only as long as somebody reads its    *)
(* channel.  One whose handler has returned goes, even when its Unregister *)
(* overtook its Register, and one whose handler hangs in a write goes too: *)
(* heartbeats fill its channel until the hub throws it out.                *)
ReadsOrRemoved ==
  \A c \in Conns : []<><<Stream(c)>>_streamVars \/ []<>(c \notin clients)

=============================================================================
