------------------------------ MODULE EventHub ------------------------------
(***************************************************************************)
(* internal/service/hub.go: one goroutine owns the set of connected        *)
(* clients, sharded by environment and namespace, and fans messages out.   *)
(*                                                                         *)
(* Register and Unregister are buffered channels and Broadcast is not; the *)
(* hub's select takes any channel that is ready, so a client's Register    *)
(* may be overtaken by its own Unregister and by broadcasts.  A message is *)
(* put into a client's Send channel without waiting: a client whose        *)
(* channel is full is thrown out and its channel closed.  The sends of one *)
(* fan-out touch different channels and are one step.                      *)
(***************************************************************************)
EXTENDS Naturals, Sequences

CONSTANTS Conns,      \* Client objects, one per open connection
          Scopes,     \* pairs of environment and namespace, in etcd's key order
          Sub,        \* Sub[c]: the scopes that c asked for
          Wild,       \* connections that asked for namespace "*"
          Ping,       \* the heartbeat message
          SendCap,    \* capacity of Send; 128 in the code
          QueueCap    \* capacity of Register and Unregister; 4096 by default

ASSUME HubConstants ==
  /\ Scopes \subseteq Nat
  /\ Sub \in [Conns -> SUBSET Scopes]
  /\ Wild \subseteq Conns
  /\ SendCap \in Nat \ {0}
  /\ QueueCap \in Nat \ {0}

VARIABLES register, unregister,   \* the two channels
          clients,                \* h.clients
          shards,                 \* pairs of a scope and a client under it
          wildcards,              \* clients of every scope
          send,                   \* send[c]: the channel Send of c
          closed                  \* clients whose Send is closed

hubVars == <<register, unregister, clients, shards, wildcards, send, closed>>

HubInit ==
  /\ register = <<>>
  /\ unregister = <<>>
  /\ clients = {}
  /\ shards = {}
  /\ wildcards = {}
  /\ send = [c \in Conns |-> <<>>]
  /\ closed = {}

\* The hub of a new process knows nobody; nobody reads the old channels.
NewHub ==
  /\ register' = <<>>
  /\ unregister' = <<>>
  /\ clients' = {}
  /\ shards' = {}
  /\ wildcards' = {}
  /\ send' = [c \in Conns |-> <<>>]
  /\ closed' = {}

-----------------------------------------------------------------------------
(* The handler's side of the channels.                                     *)

Register(c) ==
  /\ Len(register) < QueueCap
  /\ register' = Append(register, c)
  /\ UNCHANGED <<unregister, clients, shards, wildcards, send, closed>>

Unregister(c) ==
  /\ Len(unregister) < QueueCap
  /\ unregister' = Append(unregister, c)
  /\ UNCHANGED <<register, clients, shards, wildcards, send, closed>>

Receive(c) ==
  /\ send[c] # <<>>
  /\ send' = [send EXCEPT ![c] = Tail(@)]
  /\ UNCHANGED <<register, unregister, clients, shards, wildcards, closed>>

\* Nobody refers to the Client object any more: it is garbage, and its name
\* may stand for a new one.
Garbage(c) ==
  /\ c \notin clients
  /\ \A i \in DOMAIN register : register[i] # c
  /\ \A i \in DOMAIN unregister : unregister[i] # c
  /\ send' = [send EXCEPT ![c] = <<>>]
  /\ closed' = closed \ {c}
  /\ UNCHANGED <<register, unregister, clients, shards, wildcards>>

\* A receive finds the channel closed once it is drained.
Disconnected(c) == c \in closed /\ send[c] = <<>>

-----------------------------------------------------------------------------
(* The hub's goroutine.                                                    *)

addToShards(c) ==
  /\ wildcards' = IF c \in Wild THEN wildcards \cup {c} ELSE wildcards
  /\ shards' = IF c \in Wild THEN shards ELSE shards \cup (Sub[c] \X {c})

\* A mutation of removeClients: the clients stay in their shards.
removeClients_KeepShards(C) ==
  /\ clients' = clients \ C
  /\ wildcards' = wildcards \ C
  /\ UNCHANGED shards
  /\ closed' = closed \cup (C \cap clients)

\* removeClient, for all the clients that one message could not reach.
removeClients(C) ==
  /\ clients' = clients \ C
  /\ wildcards' = wildcards \ C
  /\ shards' = {p \in shards : p[2] \notin C}
  /\ closed' = closed \cup (C \cap clients)

\* A mutation of sendMessage: the hub waits for room in the channels.
sendMessage_Blocks(C, m) ==
  /\ \A c \in C : Len(send[c]) < SendCap
  /\ send' = [c \in Conns |-> IF c \in C THEN Append(send[c], m) ELSE send[c]]
  /\ UNCHANGED <<clients, shards, wildcards, closed>>

\* A mutation of sendMessage: a slow client loses the message and stays.
sendMessage_Drops(C, m) ==
  /\ send' = [c \in Conns |-> IF c \in C /\ Len(send[c]) < SendCap
                              THEN Append(send[c], m) ELSE send[c]]
  /\ UNCHANGED <<clients, shards, wildcards, closed>>

\* sendMessage to every client of C.
sendMessage(C, m) ==
  LET full == {c \in C : Len(send[c]) = SendCap}
  IN  /\ send' = [c \in Conns |-> IF c \in C \ full THEN Append(send[c], m) ELSE send[c]]
      /\ removeClients(full)

HubRegister ==
  /\ register # <<>>
  /\ LET c == Head(register)
     IN  /\ clients' = clients \cup {c}
         /\ addToShards(c)
  /\ register' = Tail(register)
  /\ UNCHANGED <<unregister, send, closed>>

HubUnregister ==
  /\ unregister # <<>>
  /\ removeClients({Head(unregister)} \cap clients)
  /\ unregister' = Tail(unregister)
  /\ UNCHANGED <<register, send>>

\* The clients that a message of this scope goes to.
Audience(s) == wildcards \cup {c \in Conns : <<s, c>> \in shards}

HubBroadcast(m) ==
  /\ sendMessage(Audience(m.scope), m)
  /\ UNCHANGED <<register, unregister>>

HubHeartbeat ==
  /\ sendMessage(clients, Ping)
  /\ UNCHANGED <<register, unregister>>
=============================================================================
