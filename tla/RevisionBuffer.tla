--------------------------- MODULE RevisionBuffer ---------------------------
(***************************************************************************)
(* internal/buffer/revision_buffer.go: the ring of the last Size messages, *)
(* from which a reconnecting client is compensated for what it missed.     *)
(* Every operation holds the buffer's lock and is one step.                *)
(***************************************************************************)
EXTENDS Naturals, Sequences

CONSTANTS Size,    \* slots of the ring; 1000 in the code
          NoMsg    \* the zero Message of a slot that was never written

ASSUME SizeOK == Size \in Nat \ {0}

VARIABLES messages, head, isFull

bufVars == <<messages, head, isFull>>

Slots == 0 .. Size - 1

BufferInit ==
  /\ messages = [i \in Slots |-> NoMsg]
  /\ head = 0
  /\ isFull = FALSE

\* The process restarts with an empty ring.
NewRevisionBuffer ==
  /\ messages' = [i \in Slots |-> NoMsg]
  /\ head' = 0
  /\ isFull' = FALSE

\* A mutation of AddMessage: the head runs past the end of the ring.
AddMessage_NoWrap(m) ==
  /\ messages' = [messages EXCEPT ![head] = m]
  /\ head' = head + 1
  /\ isFull' = (isFull \/ head' = Size)

AddMessage(m) ==
  /\ messages' = [messages EXCEPT ![head] = m]
  /\ head' = (head + 1) % Size
  /\ isFull' = (isFull \/ head' = 0)

-----------------------------------------------------------------------------
(* GetSince.  Logical index i of 0..Count-1 is physical (Start + i) % Size. *)

Count == IF isFull THEN Size ELSE head
Start == IF isFull THEN head ELSE 0
At(i) == messages[(Start + i) % Size]

\* A mutation of Search: the message at lastRev itself is found.
Search_Inclusive(lastRev) ==
  {i \in 0 .. Count : /\ i < Count => At(i).rev >= lastRev
                      /\ i > 0 => At(i - 1).rev < lastRev}

\* What sort.Search may return for the predicate "newer than lastRev": its
\* bisection ends between a smaller index that fails and one that succeeds.
Search(lastRev) ==
  {i \in 0 .. Count : /\ i < Count => At(i).rev > lastRev
                      /\ i > 0 => At(i - 1).rev <= lastRev}

Since(idx) == [j \in 1 .. Count - idx |-> At(idx + j - 1)]

\* A mutation of GetSince: a ring that has wrapped is taken for complete.
GetSince_NoReset(lastRev) ==
  IF Count = 0 THEN [ok |-> TRUE, msgs |-> <<>>]
  ELSE [ok |-> TRUE, msgs |-> Since(CHOOSE i \in Search(lastRev) : TRUE)]

\* The messages newer than lastRev, or not ok when the ring no longer reaches
\* back to lastRev.  An empty ring answers that nothing was missed.
GetSince(lastRev) ==
  IF Count = 0 THEN [ok |-> TRUE, msgs |-> <<>>]
  ELSE IF lastRev < At(0).rev THEN [ok |-> FALSE, msgs |-> <<>>]
  ELSE [ok |-> TRUE, msgs |-> Since(CHOOSE i \in Search(lastRev) : TRUE)]
=============================================================================
