-------------------------- MODULE VersionedRegister --------------------------
(***************************************************************************)
(* What SaveFeatureIfNewer promises its callers, without the loop that     *)
(* implements it: an array of registers, one per feature key, in which a   *)
(* write is one atomic step that either replaces a strictly older version  *)
(* or leaves the register alone.                                           *)
(*                                                                         *)
(* A write that failed, or whose caller died, may still have been sent to  *)
(* the store.  Its flag becomes an orphan, and an orphan may take effect   *)
(* at any later time, but only over a strictly older version.              *)
(***************************************************************************)
EXTENDS Naturals

CONSTANTS Callers,   \* goroutines that may have a write under way
          Keys,      \* feature keys
          Versions,  \* logical versions a write can carry, positive numbers
          Values,    \* payloads
          NoValue    \* what an absent key holds

VARIABLES store,    \* store[k]: the version and payload held under k
          op,       \* op[c]: the write of caller c and how far it is
          orphans   \* flags of writes that may still take effect

regVars == <<store, op, orphans>>

Flag  == [key : Keys, ver : Versions, val : Values]
Entry == [ver : Nat, val : Values \cup {NoValue}]

Idle    == [st |-> "idle"]
Op(s,f) == [st |-> s, flag |-> f]

RegInit ==
  /\ store = [k \in Keys |-> [ver |-> 0, val |-> NoValue]]
  /\ op = [c \in Callers |-> Idle]
  /\ orphans = {}

\* The store takes flag f, which must be newer than what it holds.
Replace(f) ==
  /\ store[f.key].ver < f.ver
  /\ store' = [store EXCEPT ![f.key] = [ver |-> f.ver, val |-> f.val]]

\* Caller c starts writing f.
Begin(c, f) ==
  /\ op[c] = Idle
  /\ op' = [op EXCEPT ![c] = Op("pending", f)]
  /\ UNCHANGED <<store, orphans>>

\* The write of c takes effect, and c will be told that it succeeded.
Take(c) ==
  /\ op[c].st = "pending"
  /\ Replace(op[c].flag)
  /\ op' = [op EXCEPT ![c] = Op("ok", op[c].flag)]
  /\ UNCHANGED orphans

\* The store already holds a version at least as new: success, no effect.
Keep(c) ==
  /\ op[c].st = "pending"
  /\ store[op[c].flag.key].ver >= op[c].flag.ver
  /\ op' = [op EXCEPT ![c] = Op("ok", op[c].flag)]
  /\ UNCHANGED <<store, orphans>>

\* The write fails; it has not taken effect, but may have been sent.
Fail(c) ==
  /\ op[c].st = "pending"
  /\ op' = [op EXCEPT ![c] = Op("err", op[c].flag)]
  /\ orphans' \in {orphans, orphans \cup {op[c].flag}}
  /\ UNCHANGED store

Late(f) ==
  /\ f \in orphans
  /\ Replace(f)
  /\ UNCHANGED <<op, orphans>>

\* The caller learns the outcome.
End(c) ==
  /\ op[c].st \in {"ok", "err"}
  /\ op' = [op EXCEPT ![c] = Idle]
  /\ UNCHANGED <<store, orphans>>

\* The callers in S die; writes they had under way may have been sent.
Die(S) ==
  /\ op' = [c \in Callers |-> IF c \in S THEN Idle ELSE op[c]]
  /\ \E O \in SUBSET {op[c].flag : c \in {d \in S : op[d].st = "pending"}} :
       orphans' = orphans \cup O
  /\ UNCHANGED store

RegNext ==
  \/ \E c \in Callers : \/ \E f \in Flag : Begin(c, f)
                        \/ Take(c) \/ Keep(c) \/ Fail(c) \/ End(c)
  \/ \E f \in orphans : Late(f)
  \/ \E S \in SUBSET Callers : Die(S)

RegSpec == RegInit /\ [][RegNext]_regVars
=============================================================================
