--------------------------- MODULE SdkClientProofs ---------------------------
(***************************************************************************)
(* Proofs about SdkClient: its invariant SdkInv holds together with the    *)
(* server's StreamInv, and implies the client's safety properties.         *)
(*                                                                         *)
(* The server's half is FlagStreamProofs: a step of SdkNext is one of the  *)
(* server's steps, or leaves the server alone but for the count of         *)
(* failures.  What the client needs of a server step is little: etcd's     *)
(* history only grows (HistGrows), and a connection that is being read     *)
(* only gets longer (ConnGoes).                                            *)
(***************************************************************************)
EXTENDS SdkClient, FlagStreamProofs

-----------------------------------------------------------------------------
(* The live revision of a flag.                                            *)

\* The events of a flag in a history, and its live revision there.
EventsIn(H, s, n) == {r \in 1 .. Len(H) : H[r].act # "other" /\ H[r].scope = s /\ H[r].name = n}

LiveIn(H, s, n) ==
  IF EventsIn(H, s, n) = {} THEN 0
  ELSE IF H[Max(EventsIn(H, s, n))].act = "del" THEN 0 ELSE Max(EventsIn(H, s, n))

LEMMA LiveInIs ==
  ASSUME NEW H \in Seq(Events), NEW s, NEW n, NEW m \in Nat \ {0}
  PROVE  LiveIn(H, s, n) = m <=> /\ m \in EventsIn(H, s, n) /\ H[m].act # "del"
                                 /\ \A r \in EventsIn(H, s, n) : r <= m
<1>1. Len(H) \in Nat /\ EventsIn(H, s, n) \subseteq 0 .. Len(H) /\ EventsIn(H, s, n) \subseteq Nat
  BY DEF EventsIn
<1>2. ASSUME m \in EventsIn(H, s, n), H[m].act # "del", \A r \in EventsIn(H, s, n) : r <= m
      PROVE  LiveIn(H, s, n) = m
  <2>1. Max(EventsIn(H, s, n)) = m
    BY <1>1, <1>2, MaxIs
  <2> QED BY <1>2, <2>1 DEF LiveIn
<1>3. ASSUME LiveIn(H, s, n) = m
      PROVE  m \in EventsIn(H, s, n) /\ H[m].act # "del" /\ \A r \in EventsIn(H, s, n) : r <= m
  <2>1. EventsIn(H, s, n) # {} /\ Max(EventsIn(H, s, n)) = m /\ H[m].act # "del"
    BY <1>3 DEF LiveIn
  <2> QED BY <1>1, <2>1, MaxIn
<1> QED BY <1>2, <1>3

LEMMA LiveIsIn ==
  ASSUME NEW s, NEW n
  PROVE  LiveRev(s, n) = LiveIn(hist, s, n) /\ LiveRev(s, n)' = LiveIn(hist', s, n)
BY DEF LiveRev, LiveIn, EventsIn, Revs, IsFeature

LEMMA LiveNat ==
  ASSUME NEW H \in Seq(Events), NEW s, NEW n
  PROVE  LiveIn(H, s, n) \in 0 .. Len(H) /\ Len(H) \in Nat
<1>1. Len(H) \in Nat /\ EventsIn(H, s, n) \subseteq 0 .. Len(H)
  BY DEF EventsIn
<1>2. EventsIn(H, s, n) # {} => Max(EventsIn(H, s, n)) \in EventsIn(H, s, n)
  BY <1>1, MaxIn
<1> QED BY <1>1, <1>2 DEF LiveIn

LEMMA LiveType ==
  ASSUME NEW s, NEW n
  PROVE  /\ StreamTypeOK => LiveRev(s, n) \in 0 .. Len(hist) /\ Len(hist) \in Nat
         /\ StreamTypeOK' => LiveRev(s, n)' \in 0 .. Len(hist') /\ Len(hist') \in Nat
<1>1. StreamTypeOK => hist \in Seq(Events)
  BY DEF StreamTypeOK
<1>2. StreamTypeOK' => hist' \in Seq(Events)
  BY DEF StreamTypeOK
<1> QED BY <1>1, <1>2, LiveIsIn, LiveNat

\* A live flag is the last of its events, and a put.
LEMMA LiveLast ==
  ASSUME StreamTypeOK, NEW s, NEW n, LiveRev(s, n) # 0
  PROVE  /\ LiveRev(s, n) \in Revs /\ IsFeature(LiveRev(s, n)) /\ hist[LiveRev(s, n)].act = "put"
         /\ hist[LiveRev(s, n)].scope = s /\ hist[LiveRev(s, n)].name = n
         /\ \A q \in Revs : (IsFeature(q) /\ hist[q].scope = s /\ hist[q].name = n) => q <= LiveRev(s, n)
<1>1. hist \in Seq(Events) /\ LiveRev(s, n) \in Nat \ {0}
  <2>1. Len(hist) \in Nat /\ LiveRev(s, n) \in 0 .. Len(hist)
    BY LiveType
  <2> QED BY <2>1 DEF StreamTypeOK
<1>2. /\ LiveRev(s, n) \in EventsIn(hist, s, n) /\ hist[LiveRev(s, n)].act # "del"
      /\ \A r \in EventsIn(hist, s, n) : r <= LiveRev(s, n)
  BY <1>1, LiveInIs, LiveIsIn
<1>3. LiveRev(s, n) \in Revs /\ IsFeature(LiveRev(s, n))
  BY <1>2 DEF EventsIn, Revs, IsFeature
<1>4. hist[LiveRev(s, n)].act = "put"
  BY <1>2, <1>3, FeatureType
<1> QED BY <1>2, <1>3, <1>4 DEF EventsIn, Revs, IsFeature

HistGrows == Len(hist) <= Len(hist') /\ \A r \in Revs : hist'[r] = hist[r]

LEMMA GrowsRevs ==
  ASSUME StreamTypeOK, StreamTypeOK', HistGrows
  PROVE  /\ Len(hist) \in Nat /\ Len(hist') \in Nat /\ Revs \subseteq Revs'
         /\ \A r \in Revs : hist'[r] = hist[r] /\ (IsFeature(r)' <=> IsFeature(r))
         /\ \A r \in Revs' : r \in Nat /\ r # 0 /\ (r <= Len(hist) => r \in Revs)
<1>1. Len(hist) \in Nat /\ Len(hist') \in Nat
  BY DEF StreamTypeOK
<1> QED BY <1>1 DEF HistGrows, Revs, IsFeature

\* A flag that is live at an old revision was live there before.
LEMMA LiveWas ==
  ASSUME StreamTypeOK, StreamTypeOK', HistGrows, NEW s, NEW n,
         LiveRev(s, n)' # 0, LiveRev(s, n)' <= Len(hist)
  PROVE  LiveRev(s, n) = LiveRev(s, n)'
<1> DEFINE m == LiveIn(hist', s, n)
<1>0. LiveRev(s, n)' = m /\ LiveRev(s, n) = LiveIn(hist, s, n)
  BY LiveIsIn
<1>1. hist \in Seq(Events) /\ hist' \in Seq(Events) /\ Len(hist) \in Nat
  BY DEF StreamTypeOK
<1>2. m \in Nat \ {0}
  BY <1>0, LiveType
<1> HIDE DEF m
<1>3. m \in EventsIn(hist', s, n) /\ hist'[m].act # "del" /\ \A r \in EventsIn(hist', s, n) : r <= m
  BY <1>1, <1>2, LiveInIs DEF m
<1>4. \A r \in 1 .. Len(hist) : r \in 1 .. Len(hist') /\ hist'[r] = hist[r]
  BY <1>1 DEF HistGrows, Revs
<1>5. m \in EventsIn(hist, s, n) /\ hist[m].act # "del" /\ \A r \in EventsIn(hist, s, n) : r <= m
  BY <1>0, <1>1, <1>2, <1>3, <1>4 DEF EventsIn
<1> QED BY <1>0, <1>1, <1>2, <1>5, LiveInIs

LEMMA LiveSame ==
  ASSUME hist' = hist, NEW s, NEW n
  PROVE  LiveRev(s, n)' = LiveRev(s, n)
BY LiveIsIn

LEMMA UnsharedWas ==
  ASSUME StreamTypeOK, StreamTypeOK', HistGrows, NEW n, Unshared(n)'
  PROVE  Unshared(n)
BY GrowsRevs DEF Unshared

-----------------------------------------------------------------------------
(* The copies the client has.                                              *)

LEMMA CopiesIs ==
  ASSUME NEW mem
  PROVE  mem \in Copies <=> \/ phase # "new" /\ mem = memory
                            \/ file # NoFile /\ mem = file
                            \/ saver.pc = "write" /\ mem = saver.data
BY DEF Copies

LEMMA CopiesIs2 ==
  ASSUME NEW mem
  PROVE  mem \in Copies' <=> \/ phase' # "new" /\ mem = memory'
                             \/ file' # NoFile /\ mem = file'
                             \/ saver'.pc = "write" /\ mem = saver'.data
BY DEF Copies, NoFile

LEMMA CopyType ==
  ASSUME SdkTypeOK, NEW mem \in Copies
  PROVE  mem \in Memory /\ mem.lastRev \in Nat /\ \A n \in Names : mem.features[n] \in Nat
<1>1. mem \in Memory
  BY CopiesIs DEF SdkTypeOK, Idle
<1> QED BY <1>1 DEF Memory

CopyOK(mem) == OwnFlags(mem) /\ mem.lastRev <= Len(hist)

LEMMA CopyGrows ==
  ASSUME StreamTypeOK, StreamTypeOK', HistGrows, NEW mem \in Memory, CopyOK(mem)
  PROVE  CopyOK(mem)'
<1>1. mem.lastRev \in Nat
  BY DEF Memory
<1>2. mem.lastRev <= Len(hist')
  BY <1>1, GrowsRevs DEF CopyOK, HistGrows
<1> QED BY <1>2, GrowsRevs DEF CopyOK, OwnFlags

LEMMA KeptGrows ==
  ASSUME StreamTypeOK, StreamTypeOK', HistGrows, NEW mem \in Memory, CopyOK(mem), Kept(mem),
         RunOK, run'.base = run.base
  PROVE  Kept(mem)'
<1>1. mem.lastRev \in Nat /\ run.base \in Nat /\ Len(hist) \in Nat /\ mem.lastRev <= Len(hist) /\ run.base <= Len(hist)
  <2>1. run.base \in Nat /\ run.pos \in Nat /\ Len(hist) \in Nat
    BY DEF StreamTypeOK
  <2> QED BY <2>1 DEF Memory, CopyOK, RunOK
<1>2. SUFFICES ASSUME NEW n \in Names, NEW s \in Mine, LiveRev(s, n)' # 0, Unshared(n)',
                      LiveRev(s, n)' <= mem.lastRev \/ LiveRev(s, n)' <= run.base
               PROVE  mem.features[n] = LiveRev(s, n)' /\ LiveRev(s, n)' <= mem.lastRev
  BY DEF Kept
<1>3. LiveRev(s, n)' \in Nat /\ LiveRev(s, n)' <= Len(hist)
  <2>1. LiveRev(s, n)' \in Nat
    BY LiveType
  <2> QED BY <1>1, <1>2, <2>1
<1>4. LiveRev(s, n) = LiveRev(s, n)'
  BY <1>2, <1>3, LiveWas
<1>5. Unshared(n)
  BY <1>2, UnsharedWas
<1> QED BY <1>2, <1>4, <1>5 DEF Kept
-----------------------------------------------------------------------------
(* What the server's steps do to a connection.                             *)

ResetFirst(c) == (h[c] # NoHandler /\ h[c].reset) => wire[c] # <<>> /\ wire[c][1] = Reset

\* The connection goes on: it keeps its revision and what it has written, and
\* a reset is the first thing it writes.
ConnGoes(c) ==
  h[c] # NoHandler =>
    /\ h'[c] # NoHandler /\ h'[c].last = h[c].last
    /\ Len(wire[c]) <= Len(wire'[c])
    /\ \A i \in 1 .. Len(wire[c]) : wire'[c][i] = wire[c][i]
    /\ h'[c].reset => h[c].reset \/ wire[c] = <<>>

LEMMA GoesSame ==
  ASSUME StreamTypeOK, NEW c \in Conns, h'[c] = h[c], wire'[c] = wire[c], ResetFirst(c)
  PROVE  ConnGoes(c) /\ ResetFirst(c)'
<1>1. Len(wire[c]) \in Nat
  BY ConnType
<1> QED BY <1>1 DEF ConnGoes, ResetFirst, NoHandler, Reset

\* A handler that writes nothing, or one more message.
LEMMA GoesOne ==
  ASSUME StreamTypeOK, NEW c \in Conns, h[c] # NoHandler, ResetFirst(c),
         h'[c] \in Handler, h'[c].last = h[c].last,
         \/ wire'[c] = wire[c] /\ h'[c].reset = h[c].reset
         \/ \E m \in Message \cup {Reset} :
              /\ wire'[c] = Append(wire[c], m)
              /\ h'[c].reset = h[c].reset \/ (wire[c] = <<>> /\ m = Reset)
  PROVE  ConnGoes(c) /\ ResetFirst(c)'
<1>1. wire[c] \in Seq(Message \cup {Reset}) /\ Len(wire[c]) \in Nat
  BY ConnType
<1>2. h'[c] # NoHandler
  BY DEF Handler, NoHandler
<1>3. CASE wire'[c] = wire[c] /\ h'[c].reset = h[c].reset
  BY <1>1, <1>2, <1>3 DEF ConnGoes, ResetFirst, NoHandler, Reset
<1>4. CASE \E m \in Message \cup {Reset} :
              /\ wire'[c] = Append(wire[c], m)
              /\ h'[c].reset = h[c].reset \/ (wire[c] = <<>> /\ m = Reset)
  <2>1. PICK m \in Message \cup {Reset} :
              /\ wire'[c] = Append(wire[c], m)
              /\ h'[c].reset = h[c].reset \/ (wire[c] = <<>> /\ m = Reset)
    BY <1>4
  <2>2. /\ Append(wire[c], m) \in Seq(Message \cup {Reset})
        /\ Len(wire'[c]) = Len(wire[c]) + 1
        /\ wire'[c][Len(wire[c]) + 1] = m
        /\ \A j \in 1 .. Len(wire[c]) : wire'[c][j] = wire[c][j]
    BY <1>1, <2>1, SeqAppend
  <2>3. ConnGoes(c)
    BY <1>1, <1>2, <2>1, <2>2 DEF ConnGoes
  <2>4. wire'[c] # <<>> /\ (wire[c] = <<>> => wire'[c][1] = m) /\ (wire[c] # <<>> => wire'[c][1] = wire[c][1])
    BY <1>1, <2>1, <2>2, SeqEmpty
  <2>5. ASSUME h'[c].reset PROVE wire'[c][1] = Reset
    BY <2>1, <2>4, <2>5 DEF ResetFirst
  <2> QED BY <2>3, <2>4, <2>5 DEF ResetFirst, Reset, NoHandler
<1> QED BY <1>3, <1>4

\* A step of one handler leaves the other connections alone.
LEMMA OthersGo ==
  ASSUME StreamTypeOK, NEW c \in Conns, NEW x, NEW w, h' = [h EXCEPT ![c] = x], wire' = [wire EXCEPT ![c] = w],
         \A d \in Conns : ResetFirst(d), NEW d \in Conns, d # c
  PROVE  ConnGoes(d) /\ ResetFirst(d)'
<1>1. h'[d] = h[d] /\ wire'[d] = wire[d]
  BY DEF StreamTypeOK
<1> QED BY <1>1, GoesSame

LEMMA CompensateGoes ==
  ASSUME StreamInv, NEW c \in Conns, Compensate(c), \A d \in Conns : ResetFirst(d), NEW d \in Conns
  PROVE  ConnGoes(d) /\ ResetFirst(d)'
<1>0. StreamTypeOK /\ h[c].pc = "open" /\ ConnOK(c)
  BY DEF StreamInv, Compensate
<1>1. h[c] \in Handler /\ h[c] # NoHandler /\ wire[c] = <<>> /\ h \in [Conns -> {NoHandler} \cup Handler]
      /\ wire \in [Conns -> Seq(Message \cup {Reset})]
  BY <1>0, ConnType DEF ConnOK, StreamTypeOK
<1> DEFINE res == GetSince(h[c].last)
           todo == IF res.ok THEN res.msgs ELSE <<>>
           x == [h[c] EXCEPT !.early = c \in clients, !.reset = IF res.ok THEN h[c].reset ELSE TRUE,
                             !.pc = IF todo = <<>> THEN "stream" ELSE "history", !.todo = todo]
           w == IF res.ok THEN wire[c] ELSE Append(wire[c], Reset)
<1>2. h' = [h EXCEPT ![c] = x] /\ wire' = [wire EXCEPT ![c] = w]
  <2>1. CASE res.ok
    BY <1>1, <2>1 DEF Compensate, Rest, Moves, Handler
  <2>2. CASE ~res.ok
    BY <1>1, <2>2 DEF Compensate, Rest, Moves, Handler
  <2> QED BY <2>1, <2>2
<1>3. x.last = h[c].last /\ x.pc # "new" /\ x.reset = IF res.ok THEN h[c].reset ELSE TRUE
  BY <1>1 DEF Handler
<1>4. h'[c] = x /\ wire'[c] = w
  BY <1>1, <1>2
<1> HIDE DEF x
<1>5. h'[c] \in Handler
  <2>1. h'[c] \in {NoHandler} \cup Handler
    BY <1>0, CompensateStep DEF StreamInv, StreamTypeOK
  <2> QED BY <1>3, <1>4, <2>1 DEF NoHandler
<1>6. ConnGoes(c) /\ ResetFirst(c)'
  <2>1. CASE res.ok
    BY <1>0, <1>1, <1>3, <1>4, <1>5, <2>1, GoesOne
  <2>2. CASE ~res.ok
    BY <1>0, <1>1, <1>3, <1>4, <1>5, <2>2, GoesOne
  <2> QED BY <2>1, <2>2
<1> HIDE DEF w
<1> QED BY <1>0, <1>2, <1>6, OthersGo

LEMMA HistoryGoes ==
  ASSUME StreamInv, NEW c \in Conns, SendHistory(c), \A d \in Conns : ResetFirst(d), NEW d \in Conns
  PROVE  ConnGoes(d) /\ ResetFirst(d)'
<1>0. StreamTypeOK /\ h[c].pc = "history" /\ ConnOK(c)
  BY DEF StreamInv, SendHistory
<1>1. h[c] \in Handler /\ h[c] # NoHandler /\ h \in [Conns -> {NoHandler} \cup Handler]
      /\ wire \in [Conns -> Seq(Message \cup {Reset})] /\ Head(h[c].todo) \in Message
  <2>1. h[c] # NoHandler /\ h[c] \in Handler /\ h[c].todo \in Seq(Message) /\ h[c].todo # <<>>
    BY <1>0, ConnType DEF ConnOK
  <2> QED BY <1>0, <2>1, SeqTail DEF StreamTypeOK
<1> DEFINE m == Head(h[c].todo)
           todo == Tail(h[c].todo)
           x == [h[c] EXCEPT !.max = IF m.scope \in Sub[c] THEN m.rev ELSE h[c].max,
                             !.pc = IF todo = <<>> THEN "stream" ELSE "history", !.todo = todo]
           w == IF m.scope \in Sub[c] THEN Append(wire[c], m) ELSE wire[c]
<1>2. h' = [h EXCEPT ![c] = x] /\ wire' = [wire EXCEPT ![c] = w]
  <2>1. CASE m.scope \in Sub[c]
    BY <1>1, <2>1 DEF SendHistory, Rest, Moves, Handler
  <2>2. CASE m.scope \notin Sub[c]
    BY <1>1, <2>2 DEF SendHistory, Rest, Moves, Handler
  <2> QED BY <2>1, <2>2
<1>3. x.last = h[c].last /\ x.pc # "new" /\ x.reset = h[c].reset
  BY <1>1 DEF Handler
<1>4. h'[c] = x /\ wire'[c] = w
  BY <1>1, <1>2
<1> HIDE DEF x
<1>5. h'[c] \in Handler
  <2>1. h'[c] \in {NoHandler} \cup Handler
    BY <1>0, HistoryStep DEF StreamInv, StreamTypeOK
  <2> QED BY <1>3, <1>4, <2>1 DEF NoHandler
<1>6. ConnGoes(c) /\ ResetFirst(c)'
  <2>1. CASE m.scope \in Sub[c]
    BY <1>0, <1>1, <1>3, <1>4, <1>5, <2>1, GoesOne
  <2>2. CASE m.scope \notin Sub[c]
    BY <1>0, <1>1, <1>3, <1>4, <1>5, <2>2, GoesOne
  <2> QED BY <2>1, <2>2
<1> HIDE DEF w
<1> QED BY <1>0, <1>2, <1>6, OthersGo

LEMMA StreamGoes ==
  ASSUME StreamInv, NEW c \in Conns, Stream(c), \A d \in Conns : ResetFirst(d), NEW d \in Conns
  PROVE  ConnGoes(d) /\ ResetFirst(d)'
<1>0. StreamTypeOK /\ h[c].pc = "stream" /\ send[c] # <<>>
  BY DEF StreamInv, Stream, Receive
<1>1. h[c] \in Handler /\ h[c] # NoHandler /\ h \in [Conns -> {NoHandler} \cup Handler]
      /\ wire \in [Conns -> Seq(Message \cup {Reset})] /\ Head(send[c]) \in Message \cup {Ping}
  <2>1. h[c] # NoHandler /\ h[c] \in Handler /\ send[c] \in Seq(Message \cup {Ping})
    BY <1>0, ConnType
  <2> QED BY <1>0, <2>1, SeqTail DEF StreamTypeOK
<1>2. CASE Wanted(c, Head(send[c]))
  <2> DEFINE m == Head(send[c])
             x == [h[c] EXCEPT !.max = m.rev]
             w == Append(wire[c], m)
  <2>1. h' = [h EXCEPT ![c] = x] /\ wire' = [wire EXCEPT ![c] = w] /\ m \in Message
    BY <1>1, <1>2 DEF Stream, Moves, Wanted
  <2>2. x.last = h[c].last /\ x.pc = h[c].pc /\ x.reset = h[c].reset
    BY <1>1 DEF Handler
  <2>3. h'[c] = x /\ wire'[c] = w
    BY <1>1, <2>1
  <2> HIDE DEF x
  <2>4. h'[c] \in Handler
    <3>1. h'[c] \in {NoHandler} \cup Handler
      BY <1>0, StreamStep DEF StreamInv, StreamTypeOK
    <3> QED BY <1>0, <2>2, <2>3, <3>1 DEF NoHandler
  <2>5. ConnGoes(c) /\ ResetFirst(c)'
    BY <1>0, <1>1, <2>1, <2>2, <2>3, <2>4, GoesOne
  <2> HIDE DEF w
  <2> QED BY <1>0, <2>1, <2>5, OthersGo
<1>3. CASE ~Wanted(c, Head(send[c]))
  <2>1. h' = h /\ wire' = wire
    BY <1>3 DEF Stream
  <2> QED BY <1>0, <2>1, GoesSame
<1> QED BY <1>2, <1>3

\* A handler that ends writes nothing.
LEMMA EndGoes ==
  ASSUME StreamInv, NEW c \in Conns, StreamClosed(c) \/ StreamDone(c) \/ Leave(c),
         \A d \in Conns : ResetFirst(d), NEW d \in Conns
  PROVE  ConnGoes(d) /\ ResetFirst(d)'
<1>0. StreamTypeOK /\ h[c].pc \in {"stream", "leaving"}
  BY DEF StreamInv, StreamClosed, StreamDone, Leave
<1>1. h[c] \in Handler /\ h[c] # NoHandler /\ h \in [Conns -> {NoHandler} \cup Handler]
      /\ wire \in [Conns -> Seq(Message \cup {Reset})]
  BY <1>0, ConnType DEF StreamTypeOK
<1>2. PICK pc \in {"leaving", "gone"} : h' = [h EXCEPT ![c] = [h[c] EXCEPT !.pc = pc]] /\ wire' = wire
  BY DEF StreamClosed, StreamDone, Leave, Moves
<1> DEFINE x == [h[c] EXCEPT !.pc = pc]
<1>3. x \in Handler /\ x.last = h[c].last /\ x.reset = h[c].reset
  BY <1>1 DEF Handler
<1>4. h' = [h EXCEPT ![c] = x] /\ h'[c] = x /\ wire' = [wire EXCEPT ![c] = wire[c]] /\ wire'[c] = wire[c]
  BY <1>1, <1>2
<1> HIDE DEF x
<1>5. ConnGoes(c) /\ ResetFirst(c)'
  BY <1>0, <1>1, <1>3, <1>4, GoesOne
<1> QED BY <1>0, <1>4, <1>5, OthersGo

\* A connection that is over has written nothing.
LEMMA CollectGoes ==
  ASSUME StreamInv, NEW c \in Conns, Collect(c), \A d \in Conns : ResetFirst(d), NEW d \in Conns
  PROVE  (d # c => ConnGoes(d)) /\ ResetFirst(d)'
<1>0. StreamTypeOK /\ h' = [h EXCEPT ![c] = NoHandler] /\ wire' = [wire EXCEPT ![c] = <<>>]
  BY DEF StreamInv, Collect, Moves
<1>1. h'[c] = NoHandler
  BY <1>0 DEF StreamTypeOK
<1>2. ResetFirst(c)'
  BY <1>1 DEF ResetFirst, NoHandler
<1> QED BY <1>0, <1>2, OthersGo

LEMMA ConnectGoes ==
  ASSUME StreamInv, NEW c \in Conns, NEW last \in 0 .. Len(hist), Connect(c, last),
         \A d \in Conns : ResetFirst(d), NEW d \in Conns
  PROVE  (d # c => ConnGoes(d)) /\ ResetFirst(d)'
<1> DEFINE x == [pc |-> IF c \in Dash THEN "stream" ELSE "open",
                 last |-> IF c \in Dash THEN 0 ELSE last,
                 max |-> IF c \in Dash THEN 0 ELSE last,
                 todo |-> <<>>,
                 reset |-> FALSE, early |-> FALSE]
<1>0. StreamTypeOK /\ h' = [h EXCEPT ![c] = x] /\ wire' = wire
  BY DEF StreamInv, Connect, Moves
<1>1. h'[c] = x /\ wire' = [wire EXCEPT ![c] = wire[c]]
  BY <1>0 DEF StreamTypeOK
<1>2. ResetFirst(c)'
  BY <1>1 DEF ResetFirst
<1> HIDE DEF x
<1> QED BY <1>0, <1>1, <1>2, OthersGo

\* The handlers of a server that has died have written what they have.
LEMMA RestartGoes ==
  ASSUME StreamInv, Restart, \A d \in Conns : ResetFirst(d), NEW d \in Conns
  PROVE  ConnGoes(d) /\ ResetFirst(d)'
<1>0. StreamTypeOK /\ wire' = wire
      /\ h' = [c \in Conns |-> IF h[c] = NoHandler THEN NoHandler ELSE [h[c] EXCEPT !.pc = "gone"]]
  BY DEF StreamInv, Restart
<1>1. CASE h[d] = NoHandler
  BY <1>0, <1>1, GoesSame
<1>2. CASE h[d] # NoHandler
  <2>1. h[d] \in Handler
    BY <1>0, <1>2, ConnType
  <2> DEFINE x == [h[d] EXCEPT !.pc = "gone"]
  <2>2. x \in Handler /\ x.last = h[d].last /\ x.reset = h[d].reset
    BY <2>1 DEF Handler
  <2>3. h'[d] = x /\ wire'[d] = wire[d]
    BY <1>0, <1>2
  <2> HIDE DEF x
  <2> QED BY <1>0, <1>2, <2>2, <2>3, GoesOne
<1> QED BY <1>1, <1>2

LEMMA EtcdGrows ==
  ASSUME StreamTypeOK, NEW e \in Events, EtcdEvent(e)
  PROVE  HistGrows /\ h' = h /\ wire' = wire /\ run' = run /\ cacheRev' = cacheRev /\ cache' = cache
<1>1. hist \in Seq(Events) /\ hist' = Append(hist, e)
  BY DEF StreamTypeOK, EtcdEvent
<1>2. Len(hist') = Len(hist) + 1 /\ Len(hist) \in Nat /\ \A j \in 1 .. Len(hist) : hist'[j] = hist[j]
  BY <1>1, SeqAppend
<1> QED BY <1>2 DEF HistGrows, Revs, EtcdEvent

LEMMA HistSame ==
  ASSUME StreamTypeOK, hist' = hist
  PROVE  HistGrows
BY DEF HistGrows, StreamTypeOK

\* What a server step means for a client that reads connections D.
LEMMA ServerGoes ==
  ASSUME StreamInv, ServerStep \/ ServerFailure, \A d \in Conns : ResetFirst(d)
  PROVE  /\ StreamInv' /\ HistGrows
         /\ \A d \in Conns : ResetFirst(d)'
         /\ \A d \in Conns : d \in conn.id => ConnGoes(d)
<1>0. StreamTypeOK
  BY DEF StreamInv
<1>1. StreamInv'
  BY NextInv DEF ServerStep, ServerFailure, StreamNext
<1>2. ASSUME NEW e \in Events, EtcdEvent(e)
      PROVE  HistGrows /\ \A d \in Conns : ConnGoes(d) /\ ResetFirst(d)'
  BY <1>0, <1>2, EtcdGrows, GoesSame
<1>3. ASSUME RunStep \/ HubStep \/ RunStops
      PROVE  HistGrows /\ \A d \in Conns : ConnGoes(d) /\ ResetFirst(d)'
  <2>1. hist' = hist /\ h' = h /\ wire' = wire
    BY <1>3 DEF RunStep, RunSnapshot, RunLoad, RunWatch, RunEvent, RunBuffer, RunBroadcast, HubStep,
              RunStops, flagVars
  <2> QED BY <1>0, <2>1, HistSame, GoesSame
<1>4. ASSUME NEW c \in Conns, HandlerStep(c) \/ StreamDone(c)
      PROVE  HistGrows /\ \A d \in Conns : ConnGoes(d) /\ ResetFirst(d)'
  <2>1. hist' = hist
    BY <1>4 DEF HandlerStep, Compensate, SendHistory, Stream, StreamClosed, Leave, StreamDone
  <2>2. ASSUME NEW d \in Conns PROVE ConnGoes(d) /\ ResetFirst(d)'
    BY <1>4, CompensateGoes, HistoryGoes, StreamGoes, EndGoes DEF HandlerStep
  <2> QED BY <1>0, <2>1, <2>2, HistSame
<1>5. ASSUME NEW c \in Conns, c \notin conn.id, Collect(c)
      PROVE  /\ HistGrows /\ \A d \in Conns : ResetFirst(d)'
             /\ \A d \in Conns : d \in conn.id => ConnGoes(d)
  <2>1. hist' = hist
    BY <1>5 DEF Collect
  <2> QED BY <1>0, <1>5, <2>1, HistSame, CollectGoes
<1>6. ASSUME Restart
      PROVE  HistGrows /\ \A d \in Conns : ConnGoes(d) /\ ResetFirst(d)'
  <2>1. hist' = hist
    BY <1>6 DEF Restart
  <2> QED BY <1>0, <1>6, <2>1, HistSame, RestartGoes
<1>7. CASE ServerStep
  BY <1>1, <1>2, <1>3, <1>4, <1>5, <1>7 DEF ServerStep
<1>8. CASE ServerFailure
  BY <1>1, <1>3, <1>6, <1>8 DEF ServerFailure
<1> QED BY <1>7, <1>8

\* The server is left alone, but for the count of failures.
Alone == UNCHANGED <<bufVars, hubVars, hist, run, cache, cacheRev, h, wire>>

LEMMA AloneInv ==
  ASSUME StreamInv, Alone, failures' \in Nat
  PROVE  StreamInv'
<1>0. StreamTypeOK /\ HubOK /\ BaseKept /\ h' = h /\ wire' = wire /\ UNCHANGED hubVars
  BY DEF StreamInv, Alone, BaseKept, bufVars
<1>1. StreamTypeOK'
  BY <1>0 DEF StreamTypeOK, BaseKept, hubVars
<1>2. HubOK'
  BY <1>0, HubSame
<1>3. RunOK' /\ RingOK' /\ CacheOK'
  BY <1>0, BaseSteps
<1>4. ASSUME NEW d \in Conns PROVE PerConn(d)'
  BY <1>0, OtherConn DEF hubVars
<1> QED BY <1>1, <1>2, <1>3, <1>4, InvParts2

LEMMA ClientAlone ==
  ASSUME StreamInv, UNCHANGED streamVars \/ (Fails /\ Alone)
  PROVE  StreamInv' /\ Alone /\ HistGrows
<1>1. failures \in Nat /\ StreamTypeOK
  BY DEF StreamInv, StreamTypeOK
<1>2. Alone
  BY DEF Alone, streamVars, flagVars
<1>3. failures' \in Nat
  BY <1>1 DEF streamVars, flagVars, Fails
<1> QED BY <1>1, <1>2, <1>3, AloneInv, HistSame DEF Alone
-----------------------------------------------------------------------------
(* Steps of the client.                                                    *)

LEMMA UnsharedSame ==
  ASSUME hist' = hist, NEW n
  PROVE  Unshared(n)' <=> Unshared(n)
BY DEF Unshared, Revs, IsFeature

LEMMA CopyAlone ==
  ASSUME hist' = hist, run'.base = run.base, NEW mem
  PROVE  (CopyOK(mem)' <=> CopyOK(mem)) /\ (Kept(mem)' <=> Kept(mem))
<1>1. CopyOK(mem)' <=> CopyOK(mem)
  BY DEF CopyOK, OwnFlags, Revs
<1>2. \A s \in Mine, n \in Names : LiveRev(s, n)' = LiveRev(s, n) /\ (Unshared(n)' <=> Unshared(n))
  BY LiveSame, UnsharedSame
<1>3. Kept(mem)' <=> Kept(mem)
  BY <1>2 DEF Kept
<1> QED BY <1>1, <1>3

LEMMA HistBool ==
  /\ SdkTypeOK => /\ sdkHist.sure \in BOOLEAN /\ sdkHist.reset \in BOOLEAN
                  /\ sdkHist.unsaved \in BOOLEAN /\ sdkHist.saves \in Nat
  /\ SdkTypeOK' => /\ sdkHist'.sure \in BOOLEAN /\ sdkHist'.reset \in BOOLEAN
                   /\ sdkHist'.unsaved \in BOOLEAN /\ sdkHist'.saves \in Nat
<1>1. SdkTypeOK => /\ sdkHist.sure \in BOOLEAN /\ sdkHist.reset \in BOOLEAN
                   /\ sdkHist.unsaved \in BOOLEAN /\ sdkHist.saves \in Nat
  BY DEF SdkTypeOK
<1>2. SdkTypeOK' => /\ sdkHist'.sure \in BOOLEAN /\ sdkHist'.reset \in BOOLEAN
                    /\ sdkHist'.unsaved \in BOOLEAN /\ sdkHist'.saves \in Nat
  BY DEF SdkTypeOK
<1> QED BY <1>1, <1>2

LEMMA CopiesAlone ==
  ASSUME SdkInv, hist' = hist, run' = run, cacheRev' = cacheRev,
         sdkHist'.sure => sdkHist.sure, sdkHist.reset => sdkHist'.reset,
         \A mem \in Copies' : \/ mem \in Copies
                              \/ /\ CopyOK(mem)
                                 /\ sdkHist'.sure => run.pc \notin {"boot", "load"}
                                 /\ (sdkHist'.sure /\ ~sdkHist'.reset) => Kept(mem)
  PROVE  CopiesOK' /\ KeptOK'
<1>1. CopiesOK /\ KeptOK
  BY DEF SdkInv
<1>2. ASSUME NEW mem \in Copies'
      PROVE  /\ CopyOK(mem)' /\ (sdkHist'.sure => run.pc \notin {"boot", "load"})
             /\ (sdkHist'.sure /\ ~sdkHist'.reset) => Kept(mem)'
  <2>1. CASE mem \in Copies
    <3>1. CopyOK(mem)
      BY <1>1, <2>1 DEF CopiesOK, CopyOK
    <3>2. sdkHist'.sure => run.pc \notin {"boot", "load"}
      BY <1>1, <2>1 DEF KeptOK
    <3>3. (sdkHist'.sure /\ ~sdkHist'.reset) => Kept(mem)
      BY <1>1, <2>1 DEF KeptOK
    <3> QED BY <3>1, <3>2, <3>3, CopyAlone
  <2>2. CASE mem \notin Copies
    BY <2>2, CopyAlone
  <2> QED BY <2>1, <2>2
<1>3. CopiesOK'
  <2>1. CopiesOK' <=> \A mem \in Copies' : CopyOK(mem)'
    BY DEF CopiesOK, CopyOK
  <2> QED BY <1>2, <2>1
<1>4. \A n \in Names, s \in Scopes : LiveRev(s, n)' = LiveRev(s, n)
  BY LiveSame
<1>5. KeptOK'
  <2>1. (run.pc \in {"watch", "buffer", "bcast"} =>
       \A n \in Names, s \in Scopes : LiveRev(s, n) <= run.base => LiveRev(s, n) <= cacheRev)'
    BY <1>1, <1>4 DEF KeptOK
  <2>2. sdkHist'.sure => run'.pc # "stopped"
    BY <1>1 DEF KeptOK
  <2>3. sdkHist'.sure => (run'.pc \in {"boot", "load"} => Copies' = {})
    BY <1>2
  <2>4. (sdkHist'.sure /\ ~sdkHist'.reset) => \A mem \in Copies' : Kept(mem)'
    BY <1>2
  <2> QED BY <2>1, <2>2, <2>3, <2>4 DEF KeptOK
<1> QED BY <1>3, <1>5

ReadAt(c) ==
  /\ h[c] # NoHandler /\ h[c].last <= memory.lastRev /\ conn.read <= Len(wire[c])
  /\ \A i \in 1 .. conn.read : IsEvent(wire[c][i]) => wire[c][i].rev <= memory.lastRev
  /\ conn.read > 0 /\ h[c].reset => sdkHist.reset

LEMMA ReadIs ==
  /\ ReadOK <=> /\ phase # "watch" => conn = NoConn
                /\ \A c, d \in conn.id : c = d
                /\ \A c \in conn.id : ReadAt(c)
                /\ \A c \in Conns : ResetFirst(c)
  /\ ReadOK' <=> /\ phase' # "watch" => conn' = NoConn
                 /\ \A c, d \in conn'.id : c = d
                 /\ \A c \in conn'.id : ReadAt(c)'
                 /\ \A c \in Conns : ResetFirst(c)'
<1>1. ReadOK <=> /\ phase # "watch" => conn = NoConn
                 /\ \A c, d \in conn.id : c = d
                 /\ \A c \in conn.id : ReadAt(c)
                 /\ \A c \in Conns : ResetFirst(c)
  BY DEF ReadOK, ReadAt, ResetFirst
<1>2. ReadOK' <=> /\ phase' # "watch" => conn' = NoConn
                  /\ \A c, d \in conn'.id : c = d
                  /\ \A c \in conn'.id : ReadAt(c)'
                  /\ \A c \in Conns : ResetFirst(c)'
  BY DEF ReadOK, ReadAt, ResetFirst, NoConn
<1> QED BY <1>1, <1>2

LEMMA ResetAlone ==
  ASSUME Alone, NEW c, ResetFirst(c)
  PROVE  ResetFirst(c)'
BY DEF Alone, ResetFirst, NoHandler, Reset

\* Without a connection nothing is read.
LEMMA ReadNone ==
  ASSUME SdkInv, Alone, conn' = NoConn
  PROVE  ReadOK'
<1>1. \A c \in Conns : ResetFirst(c)'
  BY ReadIs, ResetAlone DEF SdkInv
<1>2. conn'.id = {}
  BY DEF NoConn
<1> QED BY <1>1, <1>2, ReadIs

\* The saver does not touch what is read.
LEMMA ReadSame ==
  ASSUME SdkInv, Alone, conn' = conn, memory' = memory, phase' = phase, sdkHist'.reset = sdkHist.reset
  PROVE  ReadOK'
<1>1. \A c \in Conns : ResetFirst(c)'
  BY ReadIs, ResetAlone DEF SdkInv
<1>2. ASSUME NEW c \in conn.id PROVE ReadAt(c)'
  <2>1. ReadAt(c)
    BY ReadIs DEF SdkInv
  <2> QED BY <2>1 DEF ReadAt, Alone, NoHandler, IsEvent, Reset
<1> QED BY <1>1, <1>2, ReadIs DEF SdkInv, NoConn
LEMMA SaveBeginStep ==
  ASSUME StreamInv, SdkInv, SaveBegin
  PROVE  StreamInv' /\ SdkInv'
<1>0. /\ SdkTypeOK /\ SaverOK /\ StreamInv' /\ Alone
      /\ saver' = [pc |-> "marshal"] /\ isDirty' = FALSE /\ phase # "new"
      /\ memory' = memory /\ phase' = phase /\ conn' = conn /\ file' = file
      /\ sdkHist' = [sdkHist EXCEPT !.saves = @ + 1]
  BY ClientAlone DEF SdkInv, SaveBegin
<1>1. sdkHist'.sure = sdkHist.sure /\ sdkHist'.reset = sdkHist.reset /\ sdkHist'.unsaved = sdkHist.unsaved
      /\ sdkHist' \in [sure : BOOLEAN, reset : BOOLEAN, unsaved : BOOLEAN, saves : Nat]
  BY <1>0 DEF SdkTypeOK
<1>2. SdkTypeOK'
  BY <1>0, <1>1 DEF SdkTypeOK, Memory, NoFile, Idle
<1>3. ReadOK'
  BY <1>0, <1>1, ReadSame
<1>4. SaverOK'
  BY <1>0 DEF SaverOK, CleanMeansSaved, Idle
<1>5. \A mem \in Copies' : mem \in Copies
  BY <1>0, CopiesIs, CopiesIs2
<1>6. CopiesOK' /\ KeptOK'
  BY <1>0, <1>1, <1>5, CopiesAlone DEF Alone
<1> QED BY <1>0, <1>2, <1>3, <1>4, <1>6 DEF SdkInv

LEMMA SaveMarshalStep ==
  ASSUME StreamInv, SdkInv, SaveMarshal
  PROVE  StreamInv' /\ SdkInv'
<1>0. /\ SdkTypeOK /\ SaverOK /\ StreamInv' /\ Alone
      /\ saver' = [pc |-> "write", data |-> memory] /\ saver.pc = "marshal"
      /\ memory' = memory /\ phase' = phase /\ conn' = conn /\ file' = file /\ isDirty' = isDirty
      /\ sdkHist' = sdkHist
  BY ClientAlone DEF SdkInv, SaveMarshal
<1>1. phase # "new"
  BY <1>0 DEF SaverOK, Idle
<1>2. SdkTypeOK'
  BY <1>0 DEF SdkTypeOK, Memory, NoFile, Idle
<1>3. ReadOK'
  BY <1>0, ReadSame
<1>4. SaverOK'
  BY <1>0, <1>1 DEF SaverOK, CleanMeansSaved, Idle
<1>5. \A mem \in Copies' : mem \in Copies
  BY <1>0, <1>1, CopiesIs, CopiesIs2
<1>6. CopiesOK' /\ KeptOK'
  BY <1>0, <1>5, CopiesAlone DEF Alone
<1> QED BY <1>0, <1>2, <1>3, <1>4, <1>6 DEF SdkInv

LEMMA SaveWriteStep ==
  ASSUME StreamInv, SdkInv, SaveWrite
  PROVE  StreamInv' /\ SdkInv'
<1>0. /\ SdkTypeOK /\ SaverOK /\ StreamInv' /\ Alone
      /\ saver' = Idle /\ saver.pc = "write" /\ file' = saver.data
      /\ memory' = memory /\ phase' = phase /\ conn' = conn /\ isDirty' = isDirty
      /\ sdkHist' = [sdkHist EXCEPT !.unsaved = FALSE]
  BY ClientAlone DEF SdkInv, SaveWrite
<1>1. sdkHist'.sure = sdkHist.sure /\ sdkHist'.reset = sdkHist.reset
      /\ sdkHist' \in [sure : BOOLEAN, reset : BOOLEAN, unsaved : BOOLEAN, saves : Nat]
  BY <1>0 DEF SdkTypeOK
<1>2. saver.data \in Memory /\ saver # Idle
  BY <1>0 DEF SdkTypeOK, Idle
<1>3. SdkTypeOK'
  BY <1>0, <1>1, <1>2 DEF SdkTypeOK, Memory, NoFile, Idle
<1>4. ReadOK'
  BY <1>0, <1>1, ReadSame
<1>5. SaverOK'
  BY <1>0, <1>2 DEF SaverOK, CleanMeansSaved, Idle, Empty
<1>6. \A mem \in Copies' : mem \in Copies
  BY <1>0, CopiesIs, CopiesIs2 DEF Idle
<1>7. CopiesOK' /\ KeptOK'
  BY <1>0, <1>1, <1>6, CopiesAlone DEF Alone
<1> QED BY <1>0, <1>3, <1>4, <1>5, <1>7 DEF SdkInv

LEMMA SaveFailsStep ==
  ASSUME StreamInv, SdkInv, SaveFails
  PROVE  StreamInv' /\ SdkInv'
<1>0. /\ SdkTypeOK /\ SaverOK /\ StreamInv' /\ Alone
      /\ saver' = Idle /\ saver.pc = "write" /\ file' = file
      /\ memory' = memory /\ phase' = phase /\ conn' = conn /\ isDirty' = isDirty
      /\ sdkHist' = [sdkHist EXCEPT !.unsaved = TRUE]
  BY ClientAlone DEF SdkInv, SaveFails, Alone
<1>1. sdkHist'.sure = sdkHist.sure /\ sdkHist'.reset = sdkHist.reset /\ sdkHist'.unsaved
      /\ sdkHist' \in [sure : BOOLEAN, reset : BOOLEAN, unsaved : BOOLEAN, saves : Nat]
  BY <1>0 DEF SdkTypeOK
<1>2. SdkTypeOK'
  BY <1>0, <1>1 DEF SdkTypeOK, Memory, NoFile, Idle
<1>3. ReadOK'
  BY <1>0, <1>1, ReadSame
<1>4. SaverOK'
  BY <1>0, <1>1 DEF SaverOK, CleanMeansSaved, Idle, Empty
<1>5. \A mem \in Copies' : mem \in Copies
  BY <1>0, CopiesIs, CopiesIs2 DEF Idle
<1>6. CopiesOK' /\ KeptOK'
  BY <1>0, <1>1, <1>5, CopiesAlone DEF Alone
<1> QED BY <1>0, <1>2, <1>3, <1>4, <1>6 DEF SdkInv

LEMMA EmptyType == Empty \in Memory
BY DEF Empty, Memory

LEMMA CrashStep ==
  ASSUME StreamInv, SdkInv, SdkCrash
  PROVE  StreamInv' /\ SdkInv'
<1>0. /\ SdkTypeOK /\ StreamInv' /\ Alone
      /\ saver' = Idle /\ file' = file /\ sdkHist' = sdkHist
      /\ memory' = Empty /\ phase' = "new" /\ conn' = NoConn /\ isDirty' = FALSE
  BY ClientAlone DEF SdkInv, SdkCrash, Alone
<1>1. SdkTypeOK'
  BY <1>0, EmptyType DEF SdkTypeOK, Memory, NoFile, Idle, NoConn
<1>2. ReadOK'
  BY <1>0, ReadNone
<1>3. SaverOK'
  BY <1>0 DEF SaverOK, CleanMeansSaved, Idle, Empty
<1>4. \A mem \in Copies' : mem \in Copies
  BY <1>0, CopiesIs, CopiesIs2 DEF Idle
<1>5. CopiesOK' /\ KeptOK'
  BY <1>0, <1>4, CopiesAlone DEF Alone
<1> QED BY <1>0, <1>1, <1>2, <1>3, <1>5 DEF SdkInv

LEMMA DropStep ==
  ASSUME StreamInv, SdkInv, SdkDrop
  PROVE  StreamInv' /\ SdkInv'
<1>0. /\ SdkTypeOK /\ SaverOK /\ StreamInv' /\ Alone
      /\ saver' = saver /\ file' = file /\ sdkHist' = sdkHist
      /\ memory' = memory /\ phase = "watch" /\ phase' = "idle" /\ conn' = NoConn /\ isDirty' = isDirty
  BY ClientAlone DEF SdkInv, SdkDrop
<1>1. SdkTypeOK'
  BY <1>0 DEF SdkTypeOK, Memory, NoFile, Idle, NoConn
<1>2. ReadOK'
  BY <1>0, ReadNone
<1>3. SaverOK'
  BY <1>0 DEF SaverOK, CleanMeansSaved, Idle, Empty
<1>4. \A mem \in Copies' : mem \in Copies
  BY <1>0, CopiesIs, CopiesIs2
<1>5. CopiesOK' /\ KeptOK'
  BY <1>0, <1>4, CopiesAlone DEF Alone
<1> QED BY <1>0, <1>1, <1>2, <1>3, <1>5 DEF SdkInv

LEMMA LoadStep ==
  ASSUME StreamInv, SdkInv, StartLoad
  PROVE  StreamInv' /\ SdkInv'
<1>0. /\ SdkTypeOK /\ SaverOK /\ ReadOK /\ StreamInv' /\ Alone
      /\ saver' = saver /\ file' = file /\ sdkHist' = sdkHist /\ file # NoFile
      /\ memory' = file /\ phase = "new" /\ phase' = "idle" /\ conn' = conn /\ isDirty' = isDirty
  BY ClientAlone DEF SdkInv, StartLoad
<1>1. conn' = NoConn /\ saver = Idle
  BY <1>0 DEF ReadOK, SaverOK
<1>2. SdkTypeOK'
  BY <1>0 DEF SdkTypeOK, Memory, NoFile, Idle, NoConn
<1>3. ReadOK'
  BY <1>0, <1>1, ReadNone
<1>4. SaverOK'
  BY <1>0, <1>1 DEF SaverOK, CleanMeansSaved, Idle, Empty
<1>5. \A mem \in Copies' : mem \in Copies
  BY <1>0, CopiesIs, CopiesIs2
<1>6. CopiesOK' /\ KeptOK'
  BY <1>0, <1>5, CopiesAlone DEF Alone
<1> QED BY <1>0, <1>2, <1>3, <1>4, <1>6 DEF SdkInv
\* A client that was refused knows nothing, and is not sure of anything.
LEMMA RefusedStep ==
  ASSUME StreamInv, SdkInv, StartRefused
  PROVE  StreamInv' /\ SdkInv'
<1>0. /\ SdkTypeOK /\ SaverOK /\ ReadOK /\ StreamInv /\ StreamInv' /\ Alone
      /\ saver' = saver /\ file' = file /\ sdkHist' = [sdkHist EXCEPT !.sure = FALSE]
      /\ memory' = [memory EXCEPT !.lastRev = 0] /\ phase = "new" /\ phase' = "idle" /\ conn' = conn /\ isDirty' = TRUE
  BY ClientAlone DEF SdkInv, StartRefused, Alone
<1>1. conn' = NoConn /\ saver = Idle /\ memory' = Empty
  BY <1>0 DEF ReadOK, SaverOK, Empty
<1>2. ~sdkHist'.sure /\ sdkHist'.reset = sdkHist.reset
      /\ sdkHist' \in [sure : BOOLEAN, reset : BOOLEAN, unsaved : BOOLEAN, saves : Nat]
  BY <1>0 DEF SdkTypeOK
<1>3. SdkTypeOK'
  BY <1>0, <1>1, <1>2, EmptyType DEF SdkTypeOK, Memory, NoFile, Idle, NoConn
<1>4. ReadOK'
  BY <1>0, <1>1, ReadNone
<1>5. SaverOK'
  BY <1>0, <1>1 DEF SaverOK, CleanMeansSaved, Idle, Empty
<1>6. CopyOK(Empty)
  <2>1. Len(hist) \in Nat
    BY <1>0, FeatureType DEF StreamInv
  <2> QED BY <2>1 DEF CopyOK, OwnFlags, Empty
<1>7. \A mem \in Copies' : mem \in Copies \/ CopyOK(mem)
  BY <1>0, <1>1, <1>6, CopiesIs, CopiesIs2
<1>8. CopiesOK' /\ KeptOK'
  BY <1>0, <1>2, <1>7, CopiesAlone DEF Alone
<1> QED BY <1>0, <1>3, <1>4, <1>5, <1>8 DEF SdkInv

\* The server's answer for the client's scopes.
Fetched(n) == IF cache[n] # NoFlag /\ cache[n].scope \in Mine THEN cache[n].rev ELSE memory.features[n]

LEMMA FetchedIs ==
  ASSUME fetchAll
  PROVE  memory' = [features |-> [n \in Names |-> Fetched(n)], lastRev |-> cacheRev] /\ isDirty' = TRUE
BY DEF fetchAll, FetchAll, Fetched

\* A server whose Run is at work answers with all that it has taken.
LEMMA FetchedKept ==
  ASSUME StreamInv, KeptOK, run.pc \in {"watch", "buffer", "bcast"},
         NEW n \in Names, NEW s \in Mine, LiveRev(s, n) # 0, Unshared(n),
         LiveRev(s, n) <= cacheRev \/ LiveRev(s, n) <= run.base
  PROVE  Fetched(n) = LiveRev(s, n) /\ LiveRev(s, n) <= cacheRev
<1>0. StreamTypeOK /\ CacheOK /\ s \in Scopes
  BY SdkConstants DEF StreamInv
<1> DEFINE r == LiveRev(s, n)
<1>1. /\ r \in Revs /\ IsFeature(r) /\ hist[r].act = "put" /\ hist[r].scope = s /\ hist[r].name = n
      /\ \A q \in Revs : (IsFeature(q) /\ hist[q].scope = s /\ hist[q].name = n) => q <= r
  BY <1>0, LiveLast
<1>2. r <= cacheRev
  BY <1>0 DEF KeptOK
<1>3. r \in Nat /\ cacheRev \in Nat /\ run.pos \in Nat /\ r <= run.pos
  <2>1. r \in Nat /\ cacheRev \in Nat /\ run.pos \in Nat /\ cacheRev <= run.pos
    BY <1>0, <1>1 DEF StreamTypeOK, CacheOK, Revs
  <2> QED BY <1>2, <2>1
<1>4. \A q \in Taken(n) : q \in Revs /\ IsFeature(q) /\ hist[q].name = n /\ hist[q].scope = s
  BY <1>1 DEF Taken, Unshared
<1>5. r \in Taken(n)
  BY <1>1, <1>3 DEF Taken
<1> HIDE DEF r
<1>6. Max(Taken(n)) = r
  <2>1. Taken(n) \subseteq Nat /\ \A q \in Taken(n) : q <= r
    BY <1>0, <1>1, <1>4, TakenType
  <2> QED BY <1>5, <2>1, MaxIs
<1>7. Complete(n, s)
  BY <1>0, CompleteIs DEF CacheOK
<1>8. cache[n] # NoFlag /\ cache[n].scope = s /\ cache[n].rev = r
  BY <1>1, <1>4, <1>5, <1>6, <1>7 DEF Complete
<1> QED BY <1>2, <1>8 DEF Fetched, r

LEMMA FetchStep ==
  ASSUME StreamInv, SdkInv, StartFetch
  PROVE  StreamInv' /\ SdkInv'
<1>0. /\ SdkTypeOK /\ SaverOK /\ ReadOK /\ KeptOK /\ StreamInv' /\ Alone /\ StreamTypeOK /\ CacheOK /\ RunOK
      /\ saver' = saver /\ file' = file /\ sdkHist' = [sdkHist EXCEPT !.sure = @ /\ run.pc \notin {"boot", "load", "stopped"}]
      /\ phase = "new" /\ phase' = "idle" /\ conn' = conn /\ isDirty' = TRUE
      /\ memory' = [features |-> [n \in Names |-> Fetched(n)], lastRev |-> cacheRev]
  BY ClientAlone, FetchedIs DEF SdkInv, StartFetch, StreamInv
<1>1. conn' = NoConn /\ saver = Idle /\ \A n \in Names : memory.features[n] = 0
  BY <1>0 DEF ReadOK, SaverOK, Empty
<1>2. /\ sdkHist'.sure => sdkHist.sure /\ run.pc \notin {"boot", "load", "stopped"}
      /\ sdkHist'.reset = sdkHist.reset
      /\ sdkHist' \in [sure : BOOLEAN, reset : BOOLEAN, unsaved : BOOLEAN, saves : Nat]
  <2> DEFINE b == sdkHist.sure /\ run.pc \notin {"boot", "load", "stopped"}
  <2>1. b \in BOOLEAN /\ (b => sdkHist.sure /\ run.pc \notin {"boot", "load", "stopped"})
    OBVIOUS
  <2>2. sdkHist' = [sdkHist EXCEPT !.sure = b]
    BY <1>0
  <2> HIDE DEF b
  <2>3. sdkHist'.sure = b
    BY <1>0, <2>2 DEF SdkTypeOK
  <2> QED BY <1>0, <2>1, <2>2, <2>3 DEF SdkTypeOK
<1>3. \A n \in Names : Fetched(n) \in Nat /\ (Fetched(n) # 0 =>
        /\ Fetched(n) \in Revs /\ hist[Fetched(n)].act = "put" /\ hist[Fetched(n)].name = n
        /\ hist[Fetched(n)].scope \in Mine)
  <2> SUFFICES ASSUME NEW n \in Names
               PROVE  Fetched(n) \in Nat /\ (Fetched(n) # 0 =>
                        /\ Fetched(n) \in Revs /\ hist[Fetched(n)].act = "put" /\ hist[Fetched(n)].name = n
                        /\ hist[Fetched(n)].scope \in Mine)
    OBVIOUS
  <2>1. CASE cache[n] # NoFlag /\ cache[n].scope \in Mine
    <3>1. cache[n].rev \in Revs /\ hist[cache[n].rev] = [act |-> "put", scope |-> cache[n].scope, name |-> n]
      BY <1>0, <2>1 DEF CacheOK
    <3>2. cache[n].rev \in Nat
      BY <1>0, <3>1, FeatureType
    <3> QED BY <2>1, <3>1, <3>2 DEF Fetched
  <2>2. CASE ~(cache[n] # NoFlag /\ cache[n].scope \in Mine)
    BY <1>1, <2>2 DEF Fetched
  <2> QED BY <2>1, <2>2
<1>4. cacheRev \in Nat /\ cacheRev <= Len(hist)
  <2>1. cacheRev \in Nat /\ run.pos \in Nat /\ Len(hist) \in Nat
    BY <1>0 DEF StreamTypeOK
  <2> QED BY <1>0, <2>1 DEF CacheOK, RunOK
<1>5. memory' \in Memory /\ memory'.lastRev = cacheRev /\ \A n \in Names : memory'.features[n] = Fetched(n)
  BY <1>0, <1>3, <1>4 DEF Memory
<1>6. SdkTypeOK'
  BY <1>0, <1>1, <1>2, <1>5 DEF SdkTypeOK, Memory, NoFile, Idle, NoConn
<1>7. ReadOK'
  BY <1>0, <1>1, ReadNone
<1>8. SaverOK'
  BY <1>0, <1>1 DEF SaverOK, CleanMeansSaved, Idle, Empty
<1>9. ASSUME NEW mem \in Copies'
      PROVE  \/ mem \in Copies
             \/ /\ CopyOK(mem)
                /\ sdkHist'.sure => run.pc \notin {"boot", "load"}
                /\ (sdkHist'.sure /\ ~sdkHist'.reset) => Kept(mem)
  <2>1. CASE mem = memory'
    <3>1. mem.lastRev = cacheRev /\ \A n \in Names : mem.features[n] = Fetched(n)
      BY <1>5, <2>1
    <3>2. CopyOK(mem)
      BY <1>3, <1>4, <3>1 DEF CopyOK, OwnFlags
    <3>3. ASSUME sdkHist'.sure PROVE Kept(mem)
      <4>1. run.pc \in {"watch", "buffer", "bcast"}
        BY <1>0, <1>2, <3>3 DEF StreamTypeOK
      <4>2. ASSUME NEW n \in Names, NEW s \in Mine, LiveRev(s, n) # 0, Unshared(n),
                   LiveRev(s, n) <= mem.lastRev \/ LiveRev(s, n) <= run.base
            PROVE  mem.features[n] = LiveRev(s, n) /\ LiveRev(s, n) <= mem.lastRev
        BY <1>0, <3>1, <4>1, <4>2, FetchedKept
      <4> QED BY <4>2 DEF Kept
    <3> QED BY <1>2, <3>2, <3>3
  <2>2. CASE mem # memory'
    BY <1>0, <2>2, CopiesIs, CopiesIs2
  <2> QED BY <2>1, <2>2
<1>10. CopiesOK' /\ KeptOK'
  BY <1>0, <1>2, <1>9, CopiesAlone DEF Alone
<1> QED BY <1>0, <1>6, <1>7, <1>8, <1>10 DEF SdkInv

LEMMA SdkConnectStep ==
  ASSUME StreamInv, SdkInv, NEW c \in Conns, SdkConnect(c)
  PROVE  StreamInv' /\ SdkInv'
<1>0. /\ SdkTypeOK /\ SaverOK /\ ReadOK /\ CopiesOK /\ StreamTypeOK
      /\ saver' = saver /\ file' = file /\ sdkHist' = sdkHist
      /\ memory' = memory /\ phase = "idle" /\ phase' = "watch" /\ isDirty' = isDirty
      /\ conn' = [id |-> {c}, read |-> 0] /\ Connect(c, memory.lastRev)
  BY DEF SdkInv, SdkConnect, StreamInv
<1>1. memory.lastRev \in 0 .. Len(hist)
  <2>1. memory \in Copies
    BY <1>0, CopiesIs
  <2>2. memory.lastRev \in Nat /\ Len(hist) \in Nat /\ memory.lastRev <= Len(hist)
    BY <1>0, <2>1, CopyType DEF CopiesOK, StreamTypeOK
  <2> QED BY <2>2
<1>2. StreamInv'
  BY <1>0, <1>1, ConnectStep
<1>3. hist' = hist /\ run' = run /\ cacheRev' = cacheRev /\ wire' = wire
  BY <1>0 DEF Connect
<1>4. SdkTypeOK'
  BY <1>0 DEF SdkTypeOK, Memory, NoFile, Idle, NoConn
<1>5. \A d \in Conns : ResetFirst(d)'
  BY <1>0, <1>1, ConnectGoes, ReadIs
<1>6. ReadAt(c)'
  <2>1. c \notin Dash
    BY SdkConstants, StreamConstants
  <2>2. h'[c].pc = "open" /\ h'[c].last = memory.lastRev /\ ~h'[c].reset
    BY <1>0, <2>1 DEF Connect, Moves, StreamTypeOK
  <2>3. Len(wire'[c]) \in Nat
    BY <1>0, <1>3, ConnType
  <2> QED BY <1>0, <1>1, <2>2, <2>3 DEF ReadAt, NoHandler
<1>7. ReadOK'
  BY <1>0, <1>5, <1>6, ReadIs
<1>8. SaverOK'
  BY <1>0 DEF SaverOK, CleanMeansSaved, Idle, Empty
<1>9. \A mem \in Copies' : mem \in Copies
  BY <1>0, CopiesIs, CopiesIs2
<1>10. CopiesOK' /\ KeptOK'
  BY <1>0, <1>3, <1>9, CopiesAlone
<1> QED BY <1>2, <1>4, <1>7, <1>8, <1>10 DEF SdkInv
\* What the client reads next.
LEMMA NextRead ==
  ASSUME StreamInv, SdkInv, NEW c \in Conns, c \in conn.id, conn.read < Len(wire[c])
  PROVE  LET m == wire[c][conn.read + 1]
         IN  /\ conn.read \in Nat /\ Len(wire[c]) \in Nat /\ conn.read + 1 \in 1 .. Len(wire[c])
             /\ wire[c] \in Seq(Message \cup {Reset}) /\ m \in Message \cup {Reset}
             /\ m # Reset => /\ m \in Message /\ IsEvent(m) /\ m.rev \in Nat /\ m.rev \in Revs /\ IsFeature(m.rev)
                             /\ m = Msg(m.rev) /\ hist[m.rev].scope \in Mine /\ m.rev <= h[c].max /\ m.rev > h[c].last
                             /\ hist[m.rev].act = m.act /\ hist[m.rev].name = m.name /\ m.name \in Names
<1>0. StreamTypeOK /\ ConnOK(c) /\ StreamOrdered /\ SdkTypeOK /\ ReadAt(c)
  BY ReadIs DEF StreamInv, SdkInv
<1> DEFINE m == wire[c][conn.read + 1]
<1>1. conn.read \in Nat /\ Len(wire[c]) \in Nat /\ wire[c] \in Seq(Message \cup {Reset})
  BY <1>0, ConnType DEF SdkTypeOK
<1>2. conn.read + 1 \in 1 .. Len(wire[c]) /\ DOMAIN wire[c] = 1 .. Len(wire[c])
  BY <1>1
<1>3. m \in Message \cup {Reset}
  BY <1>1, <1>2
<1>4. ASSUME m # Reset
      PROVE  /\ m \in Message /\ IsEvent(m) /\ m.rev \in Nat /\ m.rev \in Revs /\ IsFeature(m.rev)
             /\ m = Msg(m.rev) /\ hist[m.rev].scope \in Mine /\ m.rev <= h[c].max /\ m.rev > h[c].last
             /\ hist[m.rev].act = m.act /\ hist[m.rev].name = m.name /\ m.name \in Names
  <2>1. m \in Message /\ IsEvent(m) /\ m.rev \in Nat /\ m.act \in {"put", "del"} /\ m.name \in Names
    <3>1. m \in Message
      BY <1>3, <1>4
    <3> HIDE DEF m
    <3>2. IsEvent(m) /\ m.rev \in Nat
      BY <3>1, EventMsg
    <3> QED BY <3>1, <3>2 DEF Message
  <2>2. m.rev \in Revs /\ m = Msg(m.rev)
    BY <1>0, <1>2, <2>1 DEF ConnOK, Carries
  <2>3. m.scope \in Mine /\ m.rev > h[c].last
    BY <1>0, <1>2, <1>4, SdkConstants DEF StreamOrdered
  <2>4. m.rev <= h[c].max
    BY <1>0, <1>2, <1>4 DEF ConnOK, ReadAt
  <2> HIDE DEF m
  <2>5. hist[m.rev].act = m.act /\ hist[m.rev].name = m.name /\ hist[m.rev].scope = m.scope
    <3> DEFINE r == m.rev
    <3>1. m = Msg(r)
      BY <2>2
    <3> HIDE DEF r
    <3>2. m.act = hist[r].act /\ m.name = hist[r].name /\ m.scope = hist[r].scope
      BY <3>1 DEF Msg
    <3> QED BY <3>2 DEF r
  <2> QED BY <2>1, <2>2, <2>3, <2>4, <2>5 DEF IsFeature
<1> QED BY <1>1, <1>2, <1>3, <1>4

\* No event of the client's scopes lies between lastRev and what it reads next.
LEMMA NoSkip ==
  ASSUME StreamInv, SdkInv, NEW c \in Conns, c \in conn.id, conn.read < Len(wire[c]),
         wire[c][conn.read + 1] # Reset, h[c].early, ~h[c].reset, run.pc \notin {"boot", "load", "stopped"},
         NEW q \in Revs, IsFeature(q), hist[q].scope \in Mine, q > memory.lastRev, q > run.base
  PROVE  wire[c][conn.read + 1].rev <= q
<1> DEFINE m == wire[c][conn.read + 1]
<1>0. StreamTypeOK /\ RunOK /\ ConnOK(c) /\ GapOK(c) /\ Ascending(wire[c]) /\ SdkTypeOK /\ ReadAt(c)
  BY ReadIs DEF StreamInv, SdkInv, StreamOrdered
<1>1. /\ conn.read \in Nat /\ Len(wire[c]) \in Nat /\ conn.read + 1 \in 1 .. Len(wire[c])
      /\ wire[c] \in Seq(Message \cup {Reset}) /\ IsEvent(m)
      /\ m.rev \in Nat /\ m.rev <= h[c].max /\ m.rev > h[c].last
  BY NextRead
<1>2. /\ q \in Nat /\ h[c] # NoHandler /\ h[c].last \in Nat /\ h[c].max \in Nat /\ memory.lastRev \in Nat
      /\ run.base \in Nat /\ run.pos \in Nat
  <2>1. memory \in Memory
    BY <1>0 DEF SdkTypeOK
  <2> QED BY <1>0, <2>1, ConnType, FeatureType DEF ReadAt, Memory, StreamTypeOK
<1> HIDE DEF m
<1>3. SUFFICES ASSUME q < m.rev PROVE FALSE
  BY <1>1, <1>2 DEF m
<1>4. q > h[c].last /\ q < h[c].max /\ h[c].max # h[c].last
  <2>1. h[c].last <= memory.lastRev
    BY <1>0 DEF ReadAt
  <2>2. q > h[c].last
    BY <1>2, <2>1
  <2> QED BY <1>1, <1>2, <1>3, <2>2
<1>5. h[c].max \in Ringed
  <2>1. \/ h[c].max = h[c].last
        \/ h[c].max \in Ringed
        \/ h[c].pc = "gone" /\ (run.pc \in {"boot", "stopped"} \/ h[c].max <= run.base)
    BY <1>0, <1>2 DEF ConnOK
  <2>2. ~(h[c].max <= run.base)
    BY <1>2, <1>4
  <2> QED BY <1>4, <2>1, <2>2
<1>6. q \in Ringed
  <2>1. h[c].max <= run.pos
    BY <1>0, <1>5, RingedFacts
  <2> QED BY <1>2, <1>4, <2>1 DEF Ringed
<1>7. q \in Asked(c, Ringed)
  BY <1>4, <1>6, SdkConstants DEF Asked
<1>8. h[c].pc # "open"
  BY <1>0, <1>1, SeqEmpty DEF ConnOK
<1>9. q \in RevsOf(wire[c])
  BY <1>0, <1>2, <1>4, <1>7, <1>8 DEF GapOK
<1>10. PICK i \in 1 .. Len(wire[c]) : IsEvent(wire[c][i]) /\ wire[c][i].rev = q
  BY <1>1, <1>9, RevsIn
<1>11. i > conn.read
  <2>1. \A j \in 1 .. conn.read : IsEvent(wire[c][j]) => wire[c][j].rev <= memory.lastRev
    BY <1>0 DEF ReadAt
  <2>2. ~(q <= memory.lastRev)
    BY <1>2
  <2>3. i \notin 1 .. conn.read
    BY <1>10, <2>1, <2>2
  <2> QED BY <1>1, <2>3
<1>12. i # conn.read + 1
  BY <1>1, <1>3, <1>10, <1>2 DEF m
<1>13. m.rev < q
  <2>1. DOMAIN wire[c] = 1 .. Len(wire[c]) /\ conn.read + 1 < i
    BY <1>1, <1>11, <1>12
  <2> QED BY <1>0, <1>1, <1>10, <2>1 DEF Ascending, m
<1> QED BY <1>1, <1>2, <1>3, <1>13
\* An update that is taken keeps a sound memory sound.
LEMMA UpdateKept ==
  ASSUME StreamInv, SdkInv, NEW c \in Conns, c \in conn.id, conn.read < Len(wire[c]),
         wire[c][conn.read + 1] # Reset, h[c].early, ~h[c].reset, sdkHist.sure, ~sdkHist.reset,
         wire[c][conn.read + 1].rev > memory.lastRev,
         NEW mem, mem.lastRev = wire[c][conn.read + 1].rev,
         \A n \in Names : mem.features[n] = IF n = wire[c][conn.read + 1].name
                                            THEN IF wire[c][conn.read + 1].act = "del" THEN 0 ELSE mem.lastRev
                                            ELSE memory.features[n]
  PROVE  Kept(mem)
<1> DEFINE m == wire[c][conn.read + 1]
<1>0. StreamTypeOK /\ SdkTypeOK /\ KeptOK /\ ReadOK
  BY DEF StreamInv, SdkInv
<1>1. /\ m \in Message /\ m.rev \in Nat /\ m.rev \in Revs /\ IsFeature(m.rev)
      /\ hist[m.rev].act = m.act /\ hist[m.rev].name = m.name /\ hist[m.rev].scope \in Mine
  BY NextRead
<1>2. memory \in Copies /\ Kept(memory) /\ run.pc \notin {"boot", "load", "stopped"}
  <2>1. phase # "new"
    BY <1>0 DEF ReadOK, NoConn
  <2>2. memory \in Copies
    BY <2>1, CopiesIs
  <2> QED BY <1>0, <2>2 DEF KeptOK
<1>3. memory.lastRev \in Nat /\ run.base \in Nat
  BY <1>0, <1>2, CopyType DEF StreamTypeOK
<1>4. mem.lastRev = m.rev /\ m.rev > memory.lastRev
      /\ \A n \in Names : mem.features[n] = IF n = m.name THEN IF m.act = "del" THEN 0 ELSE m.rev
                                            ELSE memory.features[n]
  OBVIOUS
<1>n. \A q \in Revs : (IsFeature(q) /\ hist[q].scope \in Mine /\ q > memory.lastRev /\ q > run.base) => m.rev <= q
  BY <1>2, NoSkip
<1> HIDE DEF m
<1>5. SUFFICES ASSUME NEW n \in Names, NEW s \in Mine, LiveRev(s, n) # 0, Unshared(n),
                      LiveRev(s, n) <= mem.lastRev \/ LiveRev(s, n) <= run.base
               PROVE  mem.features[n] = LiveRev(s, n) /\ LiveRev(s, n) <= mem.lastRev
  BY DEF Kept
<1> DEFINE r == LiveRev(s, n)
<1>6. /\ r \in Revs /\ r \in Nat /\ IsFeature(r) /\ hist[r].act = "put" /\ hist[r].scope = s /\ hist[r].name = n
      /\ \A q \in Revs : (IsFeature(q) /\ hist[q].scope = s /\ hist[q].name = n) => q <= r
  BY <1>0, <1>5, LiveLast, FeatureType
<1>7. r <= memory.lastRev \/ r <= run.base => memory.features[n] = r /\ r <= memory.lastRev
  BY <1>2, <1>5 DEF Kept
<1> HIDE DEF r
<1>8. CASE r = m.rev
  BY <1>1, <1>4, <1>6, <1>8 DEF r
<1>9. CASE r # m.rev
  <2>1. r < m.rev \/ r <= run.base
    BY <1>1, <1>3, <1>4, <1>5, <1>6, <1>9 DEF r
  <2>2. r <= memory.lastRev \/ r <= run.base
    BY <1>1, <1>3, <1>6, <1>n, <2>1
  <2>3. memory.features[n] = r /\ r <= memory.lastRev /\ r < m.rev
    BY <1>1, <1>3, <1>4, <1>6, <1>7, <2>2
  <2>4. n # m.name
    <3>1. ASSUME n = m.name PROVE FALSE
      <4>1. hist[m.rev].scope = s
        BY <1>1, <1>5, <1>6, <3>1 DEF Unshared
      <4>2. m.rev <= r
        BY <1>1, <1>6, <3>1, <4>1
      <4> QED BY <1>1, <1>6, <2>3, <4>2
    <3> QED BY <3>1
  <2> QED BY <1>1, <1>4, <1>6, <2>3, <2>4 DEF r
<1> QED BY <1>8, <1>9

LEMMA ReadStep ==
  ASSUME StreamInv, SdkInv, NEW c \in Conns, SdkRead(c)
  PROVE  StreamInv' /\ SdkInv'
<1> DEFINE m == wire[c][conn.read + 1]
<1>0. /\ SdkTypeOK /\ SaverOK /\ ReadOK /\ CopiesOK /\ KeptOK /\ StreamTypeOK /\ StreamInv' /\ Alone
      /\ saver' = saver /\ file' = file /\ phase' = phase
      /\ c \in conn.id /\ conn.read < Len(wire[c])
      /\ conn' = [conn EXCEPT !.read = @ + 1]
      /\ sdkHist' = [sdkHist EXCEPT !.sure = @ /\ h[c].early, !.reset = @ \/ m = Reset]
      /\ IF m = Reset THEN UNCHANGED <<memory, isDirty>> ELSE handleUpdate(m)
  BY ClientAlone DEF SdkInv, SdkRead, StreamInv
<1>1. /\ conn.read \in Nat /\ Len(wire[c]) \in Nat /\ conn.read + 1 \in 1 .. Len(wire[c])
      /\ m # Reset => /\ m \in Message /\ m.rev \in Nat /\ m.rev \in Revs
                      /\ hist[m.rev].act = m.act /\ hist[m.rev].name = m.name /\ m.name \in Names
                      /\ hist[m.rev].scope \in Mine
  BY <1>0, NextRead
<1>2. phase = "watch" /\ memory \in Copies /\ memory \in Memory /\ memory.lastRev \in Nat
      /\ ReadAt(c) /\ (\A d \in conn.id : d = c) /\ \A d \in Conns : ResetFirst(d)
  <2>1. phase = "watch"
    BY <1>0 DEF ReadOK, NoConn
  <2> QED BY <1>0, <2>1, CopiesIs, CopyType, ReadIs
<1>3. conn'.id = conn.id /\ conn'.read = conn.read + 1 /\ conn' \in [id : SUBSET Conns, read : Nat]
  BY <1>0, <1>1 DEF SdkTypeOK
<1>4. /\ sdkHist'.sure => sdkHist.sure /\ h[c].early
      /\ (sdkHist.reset \/ m = Reset) <=> sdkHist'.reset
      /\ sdkHist'.unsaved = sdkHist.unsaved
      /\ sdkHist' \in [sure : BOOLEAN, reset : BOOLEAN, unsaved : BOOLEAN, saves : Nat]
  <2> DEFINE a == sdkHist.sure /\ h[c].early
             b == sdkHist.reset \/ m = Reset
  <2>1. a \in BOOLEAN /\ b \in BOOLEAN /\ (a => sdkHist.sure /\ h[c].early) /\ (b <=> (sdkHist.reset \/ m = Reset))
    OBVIOUS
  <2>2. sdkHist' = [sdkHist EXCEPT !.sure = a, !.reset = b]
    BY <1>0
  <2> HIDE DEF a, b
  <2>3. sdkHist'.sure = a /\ sdkHist'.reset = b /\ sdkHist'.unsaved = sdkHist.unsaved
        /\ sdkHist' \in [sure : BOOLEAN, reset : BOOLEAN, unsaved : BOOLEAN, saves : Nat]
    BY <1>0, <2>1, <2>2 DEF SdkTypeOK
  <2> QED BY <2>1, <2>3
<1> DEFINE taken == m # Reset /\ ~(m.rev <= memory.lastRev)
<1>5. ~taken => memory' = memory /\ isDirty' = isDirty
  BY <1>0 DEF handleUpdate
<1>6. taken => /\ memory' = [features |-> [memory.features EXCEPT ![m.name] = IF m.act = "del" THEN 0 ELSE m.rev],
                             lastRev  |-> m.rev]
               /\ isDirty' = TRUE
  BY <1>0 DEF handleUpdate
<1>m. ASSUME taken
      PROVE  /\ m # Reset /\ m.rev > memory.lastRev /\ memory' \in Memory /\ memory'.lastRev = m.rev
             /\ \A n \in Names : memory'.features[n] = IF n = m.name THEN IF m.act = "del" THEN 0 ELSE m.rev
                                                       ELSE memory.features[n]
  <2>1. m # Reset /\ m.rev > memory.lastRev /\ m.rev \in Nat /\ m.name \in Names
    BY <1>1, <1>2, <1>m
  <2> HIDE DEF m
  <2> QED BY <1>2, <1>6, <1>m, <2>1 DEF Memory
<1>7. SdkTypeOK'
  <2>1. memory' \in Memory /\ isDirty' \in BOOLEAN
    BY <1>0, <1>2, <1>5, <1>6, <1>m DEF SdkTypeOK
  <2> QED BY <1>0, <1>3, <1>4, <2>1 DEF SdkTypeOK, Memory, NoFile, Idle
<1>8. memory'.lastRev \in Nat /\ memory.lastRev <= memory'.lastRev /\ (m # Reset => m.rev <= memory'.lastRev)
  BY <1>1, <1>2, <1>5, <1>m
<1>9. ReadOK'
  <2>0. h' = h /\ wire' = wire
    BY <1>0 DEF Alone
  <2>1. ReadAt(c)'
    <3>1. h'[c] # NoHandler /\ h'[c].last <= memory'.lastRev /\ conn'.read <= Len(wire'[c])
      <4>1. h[c].last \in Nat /\ h[c] # NoHandler /\ h[c].last <= memory.lastRev
        BY <1>0, <1>2, ConnType DEF ReadAt
      <4> QED BY <1>1, <1>2, <1>3, <1>8, <2>0, <4>1
    <3>2. ASSUME NEW i \in 1 .. conn'.read, IsEvent(wire[c][i])
          PROVE  wire[c][i].rev <= memory'.lastRev
      <4>1. CASE i \in 1 .. conn.read
        <5>1. wire[c][i] \in Message \cup {Reset}
          <6>1. wire[c] \in Seq(Message \cup {Reset}) /\ i \in 1 .. Len(wire[c])
            BY <1>0, <1>1, <4>1, ConnType
          <6> QED BY <6>1
        <5>2. wire[c][i].rev \in Nat
          BY <3>2, <5>1, EventMsg
        <5>3. wire[c][i].rev <= memory.lastRev
          BY <1>2, <3>2, <4>1 DEF ReadAt
        <5> QED BY <1>2, <1>8, <5>2, <5>3
      <4>2. CASE i \notin 1 .. conn.read
        <5>1. i = conn.read + 1
          BY <1>1, <1>3, <4>2
        <5> QED BY <1>8, <3>2, <5>1 DEF IsEvent
      <4> QED BY <4>1, <4>2
    <3>3. ASSUME h[c].reset PROVE sdkHist'.reset
      <4>1. CASE conn.read > 0
        BY <1>2, <1>4, <3>3, <4>1 DEF ReadAt
      <4>2. CASE ~(conn.read > 0)
        <5>1. conn.read + 1 = 1
          BY <1>1, <4>2
        <5>2. wire[c][1] = Reset
          BY <1>2, <3>3 DEF ResetFirst, ReadAt
        <5> QED BY <1>4, <5>1, <5>2
      <4> QED BY <4>1, <4>2
    <3> HIDE DEF m
    <3> QED BY <2>0, <3>1, <3>2, <3>3 DEF ReadAt, IsEvent, Reset
  <2>2. \A d \in Conns : ResetFirst(d)'
    BY <1>0, <1>2, ResetAlone
  <2> QED BY <1>0, <1>2, <1>3, <2>1, <2>2, ReadIs
<1>10. SaverOK'
  <2>1. CASE taken
    BY <1>0, <1>2, <1>6, <2>1 DEF SaverOK, CleanMeansSaved
  <2>2. CASE ~taken
    BY <1>0, <1>2, <1>4, <1>5, <2>2 DEF SaverOK, CleanMeansSaved, Idle
  <2> QED BY <2>1, <2>2
<1>11. ASSUME NEW mem \in Copies'
       PROVE  \/ mem \in Copies
              \/ /\ CopyOK(mem)
                 /\ sdkHist'.sure => run.pc \notin {"boot", "load"}
                 /\ (sdkHist'.sure /\ ~sdkHist'.reset) => Kept(mem)
  <2>1. CASE mem # memory' \/ ~taken
    BY <1>0, <1>2, <1>5, <2>1, CopiesIs, CopiesIs2
  <2>2. CASE mem = memory' /\ taken
    <3>1. /\ m # Reset /\ m.rev > memory.lastRev /\ mem.lastRev = m.rev
          /\ \A n \in Names : mem.features[n] = IF n = m.name THEN IF m.act = "del" THEN 0 ELSE m.rev
                                                ELSE memory.features[n]
      BY <1>m, <2>2
    <3>2. CopyOK(mem)
      <4>1. CopyOK(memory)
        BY <1>0, <1>2 DEF CopiesOK, CopyOK
      <4>2. m.rev <= Len(hist) /\ m.act \in {"put", "del"}
        <5>1. m \in Message /\ m.rev \in 1 .. Len(hist)
          BY <1>1, <3>1 DEF Revs
        <5> HIDE DEF m
        <5> QED BY <5>1 DEF Message
      <4>3. ASSUME NEW n \in Names, mem.features[n] # 0
            PROVE  /\ mem.features[n] \in Revs /\ hist[mem.features[n]].act = "put"
                   /\ hist[mem.features[n]].name = n /\ hist[mem.features[n]].scope \in Mine
        <5>1. CASE n = m.name
          BY <1>1, <3>1, <4>2, <4>3, <5>1
        <5>2. CASE n # m.name
          BY <3>1, <4>1, <4>3, <5>2 DEF CopyOK, OwnFlags
        <5> QED BY <5>1, <5>2
      <4> QED BY <3>1, <4>2, <4>3 DEF CopyOK, OwnFlags
    <3>3. sdkHist'.sure => run.pc \notin {"boot", "load"}
      BY <1>0, <1>2, <1>4 DEF KeptOK
    <3>4. ASSUME sdkHist'.sure, ~sdkHist'.reset PROVE Kept(mem)
      <4>1. sdkHist.sure /\ ~sdkHist.reset /\ h[c].early
        BY <1>4, <3>4
      <4>2. ~h[c].reset
        <5>1. ASSUME h[c].reset PROVE FALSE
          <6>1. wire[c][1] = Reset
            BY <1>2, <5>1 DEF ResetFirst, ReadAt
          <6>2. conn.read = 0
            BY <1>1, <1>2, <4>1, <5>1 DEF ReadAt
          <6> QED BY <3>1, <6>1, <6>2
        <5> QED BY <5>1
      <4> QED BY <1>0, <3>1, <4>1, <4>2, UpdateKept
    <3> QED BY <3>2, <3>3, <3>4
  <2> QED BY <2>1, <2>2
<1>12. CopiesOK' /\ KeptOK'
  BY <1>0, <1>4, <1>11, CopiesAlone DEF Alone
<1> QED BY <1>0, <1>7, <1>9, <1>10, <1>12 DEF SdkInv

-----------------------------------------------------------------------------
(* Steps of the server.                                                    *)

\* The client's connection gets longer; what it has read of it stays.
LEMMA ReadServer ==
  ASSUME StreamInv, SdkInv, ServerStep \/ ServerFailure,
         UNCHANGED <<memory, phase, conn>>, sdkHist'.reset = sdkHist.reset
  PROVE  ReadOK'
<1>0. StreamTypeOK /\ SdkTypeOK /\ ReadOK
  BY DEF StreamInv, SdkInv
<1>1. \A d \in Conns : ResetFirst(d)'
  BY <1>0, ReadIs, ServerGoes
<1>2. ASSUME NEW c \in conn.id PROVE ReadAt(c)'
  <2>1. c \in Conns /\ conn.read \in Nat /\ ReadAt(c)
    BY <1>0, ReadIs DEF SdkTypeOK
  <2>2. ConnGoes(c)
    BY <1>0, <2>1, ReadIs, ServerGoes
  <2>3. wire[c] \in Seq(Message \cup {Reset}) /\ Len(wire[c]) \in Nat /\ conn.read <= Len(wire[c]) /\ h[c] # NoHandler
    BY <1>0, <2>1, ConnType DEF ReadAt
  <2>4. Len(wire'[c]) \in Nat
    <3>1. StreamTypeOK'
      BY <1>0, ReadIs, ServerGoes DEF StreamInv
    <3>2. wire'[c] \in Seq(Message \cup {Reset})
      BY <2>1, <3>1 DEF StreamTypeOK
    <3> QED BY <3>2
  <2>5. h'[c] # NoHandler /\ h'[c].last <= memory'.lastRev /\ conn'.read <= Len(wire'[c])
    BY <2>1, <2>2, <2>3, <2>4 DEF ReadAt, ConnGoes
  <2>6. \A i \in 1 .. conn'.read : wire'[c][i] = wire[c][i]
    BY <2>1, <2>2, <2>3 DEF ConnGoes
  <2>7. ASSUME conn.read > 0, h'[c].reset PROVE sdkHist'.reset
    <3>1. h[c].reset
      BY <2>1, <2>2, <2>3, <2>7, SeqEmpty DEF ConnGoes
    <3> QED BY <2>1, <2>7, <3>1 DEF ReadAt
  <2> QED BY <2>1, <2>5, <2>6, <2>7 DEF ReadAt, IsEvent, Reset
<1> QED BY <1>0, <1>1, <1>2, ReadIs DEF NoConn

LEMMA CopiesServer ==
  ASSUME StreamInv, SdkInv, ServerStep \/ ServerFailure, UNCHANGED <<memory, phase, saver, file>>
  PROVE  /\ Copies' = Copies /\ CopiesOK'
         /\ \A mem \in Copies : mem \in Memory /\ CopyOK(mem)
<1>1. Copies' = Copies
  BY DEF Copies, NoFile
<1>2. \A mem \in Copies : mem \in Memory /\ CopyOK(mem)
  BY CopyType DEF SdkInv, CopiesOK, CopyOK
<1>3. StreamTypeOK /\ StreamTypeOK' /\ HistGrows
  BY ReadIs, ServerGoes DEF SdkInv, StreamInv
<1>4. \A mem \in Copies' : CopyOK(mem)'
  BY <1>1, <1>2, <1>3, CopyGrows
<1>5. CopiesOK'
  BY <1>4 DEF CopiesOK, CopyOK
<1> QED BY <1>1, <1>2, <1>5

\* Run reads its snapshot and caches it.
Loading == RunSnapshot \/ RunLoad \/ RunWatch

\* After its snapshot Run only goes forward.
LEMMA RunMoves ==
  ASSUME StreamInv, ServerStep, ~Loading
  PROVE  /\ run'.base = run.base /\ cacheRev <= cacheRev'
         /\ run'.pc \in {"watch", "buffer", "bcast"} => run.pc \in {"watch", "buffer", "bcast"}
         /\ run'.pc \in {"boot", "load", "stopped"} => run'.pc = run.pc
<1>0. StreamTypeOK /\ cacheRev \in Nat
  BY DEF StreamInv, StreamTypeOK
<1>1. CASE run' = run /\ cacheRev' = cacheRev
  BY <1>0, <1>1
<1>2. CASE RunEvent
  <2> DEFINE R == {r \in Revs : r > run.pos /\ IsFeature(r)}
             r == Min(R)
  <2>1. R \subseteq Nat /\ R # {} /\ run.pc = "watch"
    BY <1>0, <1>2, FeatureType DEF RunEvent
  <2>2. r \in Nat
    <3> HIDE DEF R
    <3> QED BY <2>1, MinIn
  <2>3. run' = [run EXCEPT !.pc = "buffer", !.pos = r] /\ (cacheRev' = cacheRev \/ cacheRev' = Max({cacheRev, r}))
    BY <1>2 DEF RunEvent
  <2> HIDE DEF r
  <2>4. cacheRev <= Max({cacheRev, r})
    <3> DEFINE x == IF cacheRev <= r THEN r ELSE cacheRev
               T == {cacheRev, r}
    <3>1. T \subseteq Nat /\ x \in T /\ (\A y \in T : y <= x) /\ cacheRev <= x
      BY <1>0, <2>2
    <3> HIDE DEF x, T
    <3>2. Max(T) = x
      BY <3>1, MaxIs
    <3> QED BY <3>1, <3>2 DEF T
  <2> QED BY <1>0, <2>1, <2>3, <2>4 DEF StreamTypeOK
<1>3. CASE RunBuffer \/ RunBroadcast
  <2>1. \/ run.pc = "buffer" /\ run' = [run EXCEPT !.pc = "bcast"]
        \/ run.pc = "bcast" /\ run' = [run EXCEPT !.pc = "watch"]
    BY <1>3 DEF RunBuffer, RunBroadcast
  <2>2. cacheRev' = cacheRev
    BY <1>3 DEF RunBuffer, RunBroadcast
  <2> QED BY <1>0, <2>1, <2>2 DEF StreamTypeOK
<1>4. ASSUME NEW e \in Events, EtcdEvent(e)
      PROVE  run' = run /\ cacheRev' = cacheRev
  BY <1>4 DEF EtcdEvent
<1>5. ASSUME HubStep
      PROVE  run' = run /\ cacheRev' = cacheRev
  BY <1>5 DEF HubStep, flagVars
<1>6. ASSUME NEW c \in Conns, HandlerStep(c) \/ StreamDone(c) \/ Collect(c)
      PROVE  run' = run /\ cacheRev' = cacheRev
  BY <1>6 DEF HandlerStep, Compensate, SendHistory, Stream, StreamClosed, Leave, StreamDone, Collect
<1> QED BY <1>1, <1>2, <1>3, <1>4, <1>5, <1>6 DEF ServerStep, RunStep, Loading

\* When the whole snapshot is cached, the cache's revision is that of the
\* newest flag in it.
LEMMA WatchRev ==
  ASSUME StreamInv, RunWatch, NEW n \in Names, NEW s \in Scopes, LiveRev(s, n) <= run.base
  PROVE  LiveRev(s, n) <= cacheRev
<1> DEFINE r == LiveRev(s, n)
<1>0. StreamTypeOK /\ LoadOK /\ run.pc = "load" /\ run.todo = {} /\ r \in Nat /\ cacheRev \in Nat
  <2>1. StreamTypeOK /\ LoadOK /\ run.pc = "load" /\ run.todo = {} /\ cacheRev \in Nat
    BY DEF StreamInv, CacheOK, RunWatch, StreamTypeOK
  <2>2. r \in 0 .. Len(hist) /\ Len(hist) \in Nat
    BY <2>1, LiveType
  <2> HIDE DEF r
  <2> QED BY <2>1, <2>2
<1>1. CASE r = 0
  BY <1>0, <1>1
<1>2. CASE r # 0
  <2>1. /\ r \in Revs /\ hist[r].act = "put" /\ hist[r].scope = s /\ hist[r].name = n
        /\ \A q \in Revs : (IsFeature(q) /\ hist[q].scope = s /\ hist[q].name = n) => q <= r
    BY <1>0, <1>2, LiveLast
  <2>2. \A q \in Revs : q \in Nat
    BY <1>0, FeatureType
  <2> HIDE DEF r
  <2>3. r \in LiveAt(run.base)
    <3>1. \A q \in Revs : (q > r /\ IsFeature(q)) => ~SameFlag(q, r)
      BY <1>0, <2>1, <2>2 DEF SameFlag
    <3>2. r <= run.base
      BY DEF r
    <3> QED BY <2>1, <3>1, <3>2 DEF LiveAt
  <2> QED BY <1>0, <2>3 DEF LoadOK, r
<1> QED BY <1>1, <1>2

\* While Run caches its snapshot, a client that has started is not sure.
LEMMA LoadingKept ==
  ASSUME StreamInv, SdkInv, Loading, UNCHANGED sdkHist, Copies' = Copies
  PROVE  KeptOK'
<1>0. StreamTypeOK /\ KeptOK
  BY DEF StreamInv, SdkInv
<1>1. run.pc \in {"boot", "load"} /\ run'.pc \in {"load", "watch"} /\ (run'.pc = "watch" => RunWatch)
  <2>1. CASE RunSnapshot
    BY <2>1 DEF RunSnapshot
  <2>2. CASE RunLoad
    <3>1. PICK r \in run.todo : run' = [run EXCEPT !.todo = @ \ {r}]
      BY <2>2 DEF RunLoad
    <3>2. run.pc = "load"
      BY <2>2 DEF RunLoad
    <3> QED BY <1>0, <3>1, <3>2 DEF StreamTypeOK
  <2>3. CASE RunWatch
    BY <1>0, <2>3 DEF RunWatch, StreamTypeOK
  <2> QED BY <2>1, <2>2, <2>3 DEF Loading
<1>2. ASSUME RunWatch, NEW n \in Names, NEW s \in Scopes, LiveRev(s, n)' <= run'.base
      PROVE  LiveRev(s, n)' <= cacheRev'
  <2>1. hist' = hist /\ cacheRev' = cacheRev /\ run' = [run EXCEPT !.pc = "watch"]
    BY <1>2 DEF RunWatch
  <2>2. LiveRev(s, n)' = LiveRev(s, n) /\ run'.base = run.base
    BY <1>0, <2>1, LiveSame DEF StreamTypeOK
  <2> QED BY <1>2, <2>1, <2>2, WatchRev
<1>3. sdkHist'.sure => Copies' = {}
  BY <1>0, <1>1 DEF KeptOK
<1> QED BY <1>1, <1>2, <1>3 DEF KeptOK

LEMMA ServerStepInv ==
  ASSUME StreamInv, SdkInv, ServerStep, UNCHANGED sdkVars
  PROVE  StreamInv' /\ SdkInv'
<1>0. /\ SdkTypeOK /\ SaverOK /\ KeptOK /\ StreamTypeOK /\ CacheOK /\ RunOK
      /\ UNCHANGED <<memory, isDirty, phase, conn, saver, file, sdkHist>>
  BY DEF SdkInv, StreamInv, sdkVars
<1>1. StreamInv' /\ HistGrows /\ StreamTypeOK'
  BY ReadIs, ServerGoes DEF SdkInv, StreamInv
<1>2. SdkTypeOK'
  BY <1>0 DEF SdkTypeOK, Memory, NoFile, Idle
<1>3. ReadOK'
  BY <1>0, ReadServer
<1>4. SaverOK'
  BY <1>0 DEF SaverOK, CleanMeansSaved, Idle, Empty
<1>5. CopiesOK' /\ Copies' = Copies /\ \A mem \in Copies : mem \in Memory /\ CopyOK(mem)
  BY <1>0, CopiesServer
<1>6. CASE Loading
  <2>1. KeptOK'
    BY <1>0, <1>5, <1>6, LoadingKept
  <2> QED BY <1>1, <1>2, <1>3, <1>4, <1>5, <2>1 DEF SdkInv
<1>7. CASE ~Loading
  <2>1. /\ run'.base = run.base /\ cacheRev <= cacheRev'
        /\ run'.pc \in {"watch", "buffer", "bcast"} => run.pc \in {"watch", "buffer", "bcast"}
        /\ run'.pc \in {"boot", "load", "stopped"} => run'.pc = run.pc
    BY <1>7, RunMoves
  <2>2. ASSUME run'.pc \in {"watch", "buffer", "bcast"}, NEW n \in Names, NEW s \in Scopes,
               LiveRev(s, n)' <= run'.base
        PROVE  LiveRev(s, n)' <= cacheRev'
    <3>1. LiveRev(s, n)' \in Nat /\ run.base \in Nat /\ run.pos \in Nat /\ Len(hist) \in Nat
          /\ cacheRev \in Nat /\ cacheRev' \in Nat /\ run.base <= Len(hist)
      <4>1. LiveRev(s, n)' \in Nat
        BY <1>1, LiveType
      <4>2. run.base \in Nat /\ run.pos \in Nat /\ Len(hist) \in Nat /\ cacheRev \in Nat /\ cacheRev' \in Nat
        BY <1>0, <1>1 DEF StreamTypeOK
      <4> QED BY <1>0, <4>1, <4>2 DEF RunOK
    <3>2. CASE LiveRev(s, n)' = 0
      BY <3>1, <3>2
    <3>3. CASE LiveRev(s, n)' # 0
      <4>1. LiveRev(s, n) = LiveRev(s, n)'
        BY <1>0, <1>1, <2>1, <2>2, <3>1, <3>3, LiveWas
      <4>2. LiveRev(s, n)' <= cacheRev
        BY <1>0, <2>1, <2>2, <4>1 DEF KeptOK
      <4> QED BY <2>1, <3>1, <4>2
    <3> QED BY <3>2, <3>3
  <2>3. ASSUME sdkHist.sure, ~sdkHist.reset, NEW mem \in Copies
        PROVE  Kept(mem)'
    <3>1. Kept(mem) /\ CopyOK(mem) /\ mem \in Memory
      BY <1>0, <1>5, <2>3 DEF KeptOK
    <3> QED BY <1>0, <1>1, <2>1, <3>1, KeptGrows
  <2>4. sdkHist.sure => run'.pc # "stopped" /\ (run'.pc \in {"boot", "load"} => Copies' = {})
    BY <1>0, <1>5, <2>1 DEF KeptOK
  <2>5. KeptOK'
    BY <1>0, <1>5, <2>2, <2>3, <2>4 DEF KeptOK
  <2> QED BY <1>1, <1>2, <1>3, <1>4, <1>5, <2>5 DEF SdkInv
<1> QED BY <1>6, <1>7

LEMMA FailureInv ==
  ASSUME StreamInv, SdkInv, ServerFailure, sdkHist' = [sdkHist EXCEPT !.sure = FALSE],
         UNCHANGED <<memory, isDirty, phase, conn, saver, file>>
  PROVE  StreamInv' /\ SdkInv'
<1>0. SdkTypeOK /\ SaverOK /\ StreamTypeOK
  BY DEF SdkInv, StreamInv
<1>1. StreamInv'
  BY ReadIs, ServerGoes DEF SdkInv
<1>2. /\ ~sdkHist'.sure /\ sdkHist'.reset = sdkHist.reset /\ sdkHist'.unsaved = sdkHist.unsaved
      /\ sdkHist' \in [sure : BOOLEAN, reset : BOOLEAN, unsaved : BOOLEAN, saves : Nat]
  BY <1>0 DEF SdkTypeOK
<1>3. SdkTypeOK'
  BY <1>0, <1>2 DEF SdkTypeOK, Memory, NoFile, Idle
<1>4. ReadOK'
  BY <1>2, ReadServer
<1>5. SaverOK'
  BY <1>0, <1>2 DEF SaverOK, CleanMeansSaved, Idle, Empty
<1>6. CopiesOK'
  BY CopiesServer
<1>7. run'.pc \in {"boot", "stopped"}
  BY <1>0 DEF ServerFailure, RunStops, Restart, NewRun, StreamTypeOK
<1>8. KeptOK'
  BY <1>2, <1>7 DEF KeptOK
<1> QED BY <1>1, <1>3, <1>4, <1>5, <1>6, <1>8 DEF SdkInv
-----------------------------------------------------------------------------
(* The invariant and what follows from it.                                 *)

LEMMA SdkInitInv == SdkInit => StreamInv /\ SdkInv
<1> SUFFICES ASSUME SdkInit PROVE StreamInv /\ SdkInv
  OBVIOUS
<1>0. /\ StreamInv /\ memory = Empty /\ isDirty = FALSE /\ phase = "new" /\ conn = NoConn
      /\ saver = Idle /\ file = NoFile
      /\ sdkHist = [sure |-> TRUE, reset |-> FALSE, unsaved |-> FALSE, saves |-> 0]
  BY InitInv DEF SdkInit
<1>1. SdkTypeOK
  BY <1>0, EmptyType DEF SdkTypeOK, NoConn
<1>2. ReadOK
  <2>1. \A c \in Conns : h[c] = NoHandler
    BY DEF SdkInit, StreamInit
  <2> QED BY <1>0, <2>1 DEF ReadOK, NoConn
<1>3. SaverOK
  BY <1>0 DEF SaverOK, CleanMeansSaved, Idle
<1>4. Copies = {}
  BY <1>0 DEF Copies, Idle
<1>5. run.pc = "boot"
  BY DEF SdkInit, StreamInit, NewRun
<1>6. CopiesOK /\ KeptOK
  BY <1>4, <1>5 DEF CopiesOK, KeptOK
<1> QED BY <1>0, <1>1, <1>2, <1>3, <1>6 DEF SdkInv

LEMMA SdkNextInv == StreamInv /\ SdkInv /\ [SdkNext]_allVars => StreamInv' /\ SdkInv'
<1> SUFFICES ASSUME StreamInv, SdkInv, [SdkNext]_allVars PROVE StreamInv' /\ SdkInv'
  OBVIOUS
<1>1. CASE StartFetch \/ StartRefused \/ StartLoad
  BY <1>1, FetchStep, RefusedStep, LoadStep
<1>2. ASSUME NEW c \in Conns, SdkConnect(c) \/ SdkRead(c)
      PROVE  StreamInv' /\ SdkInv'
  BY <1>2, SdkConnectStep, ReadStep
<1>3. CASE SdkDrop \/ SdkCrash
  BY <1>3, DropStep, CrashStep
<1>4. CASE SaveBegin \/ SaveMarshal \/ SaveWrite \/ SaveFails
  BY <1>4, SaveBeginStep, SaveMarshalStep, SaveWriteStep, SaveFailsStep
<1>5. CASE ServerStep /\ UNCHANGED sdkVars
  BY <1>5, ServerStepInv
<1>6. CASE /\ ServerFailure
           /\ sdkHist' = [sdkHist EXCEPT !.sure = FALSE]
           /\ UNCHANGED <<memory, isDirty, phase, conn, saver, file>>
  BY <1>6, FailureInv
<1>7. CASE UNCHANGED allVars
  <2>0. UNCHANGED streamVars /\ UNCHANGED <<memory, isDirty, phase, conn, saver, file, sdkHist>>
        /\ SdkTypeOK /\ SaverOK
    BY <1>7 DEF allVars, sdkVars, SdkInv
  <2>1. StreamInv' /\ Alone
    BY <2>0, ClientAlone
  <2>2. SdkTypeOK'
    BY <2>0 DEF SdkTypeOK, Memory, NoFile, Idle
  <2>3. ReadOK'
    BY <2>0, <2>1, ReadSame
  <2>4. SaverOK'
    BY <2>0 DEF SaverOK, CleanMeansSaved, Idle, Empty
  <2>5. \A mem \in Copies' : mem \in Copies
    BY <2>0, CopiesIs, CopiesIs2
  <2>6. CopiesOK' /\ KeptOK'
    BY <2>0, <2>1, <2>5, CopiesAlone DEF Alone
  <2> QED BY <2>1, <2>2, <2>3, <2>4, <2>6 DEF SdkInv
<1> QED BY <1>1, <1>2, <1>3, <1>4, <1>5, <1>6, <1>7 DEF SdkNext

(* The client's two loops and Start, against the server's goroutines, keep *)
(* SdkInv, and the server's StreamInv holds beside them.                   *)
THEOREM SdkInvariant == SdkSpec => [](StreamInv /\ SdkInv)
BY SdkInitInv, SdkNextInv, PTL DEF SdkSpec

LEMMA OwnFromInv ==
  ASSUME SdkInv
  PROVE  OnlyOwnFlags
<1>1. file # NoFile => OwnFlags(file)
  BY CopiesIs DEF SdkInv, CopiesOK
<1>2. CASE phase = "new"
  <2>1. memory = Empty
    BY <1>2 DEF SdkInv, SaverOK
  <2>2. OwnFlags(memory)
    BY <2>1 DEF OwnFlags, Empty
  <2> QED BY <1>1, <2>2 DEF OnlyOwnFlags
<1>3. CASE phase # "new"
  BY <1>1, <1>3, CopiesIs DEF SdkInv, CopiesOK, OnlyOwnFlags
<1> QED BY <1>2, <1>3

(* fetchAll, handleUpdate and loadSnapshot only ever store flags of the    *)
(* client's environment and namespaces, in memory and in the file.         *)
THEOREM OnlyOwnFlagsAlways == SdkSpec => []OnlyOwnFlags
<1>1. StreamInv /\ SdkInv => OnlyOwnFlags
  BY OwnFromInv
<1> QED BY <1>1, SdkInvariant, PTL

(* runSnapshotLoop takes the mark off before saveSnapshot reads, so memory *)
(* without a mark is the file, unless the last write failed.               *)
THEOREM CleanMeansSavedAlways == SdkSpec => []CleanMeansSaved
<1>1. StreamInv /\ SdkInv => CleanMeansSaved
  BY DEF SdkInv, SaverOK
<1> QED BY <1>1, SdkInvariant, PTL

LEMMA DrainedFromInv ==
  ASSUME StreamInv, SdkInv
  PROVE  DrainedIsCurrent
<1>0. StreamTypeOK /\ SdkTypeOK /\ ReadOK /\ KeptOK
  BY DEF StreamInv, SdkInv
<1>1. SUFFICES ASSUME Drained, sdkHist.sure, ~sdkHist.reset PROVE Current
  BY DEF DrainedIsCurrent
<1>2. PICK c \in conn.id : /\ h[c].pc = "stream" /\ h[c].early /\ c \in clients
                           /\ send[c] = <<>> /\ conn.read = Len(wire[c])
  BY <1>1 DEF Drained
<1>3. c \in Conns /\ ReadAt(c) /\ ResetFirst(c) /\ memory \in Copies /\ Kept(memory)
  <2>1. c \in Conns /\ phase # "new"
    BY <1>0 DEF SdkTypeOK, ReadOK, NoConn
  <2>2. memory \in Copies
    BY <2>1, CopiesIs
  <2> QED BY <1>0, <1>1, <2>1, <2>2, ReadIs DEF KeptOK
<1>4. /\ h[c] # NoHandler /\ h[c].last \in Nat /\ h[c].last <= memory.lastRev /\ memory.lastRev \in Nat
      /\ wire[c] \in Seq(Message \cup {Reset}) /\ Len(wire[c]) \in Nat
  BY <1>0, <1>3, ConnType, CopyType DEF ReadAt
<1>5. ~h[c].reset
  <2>1. ASSUME h[c].reset PROVE FALSE
    <3>1. Len(wire[c]) # 0
      BY <1>3, <1>4, <2>1, SeqEmpty DEF ResetFirst
    <3> QED BY <1>1, <1>2, <1>3, <1>4, <2>1, <3>1 DEF ReadAt
  <2> QED BY <2>1
<1>6. SUFFICES ASSUME NEW n \in Names, NEW s \in Mine, LiveRev(s, n) # 0, Unshared(n)
               PROVE  memory.features[n] = LiveRev(s, n)
  BY DEF Current
<1> DEFINE r == LiveRev(s, n)
<1>7. r \in Revs /\ IsFeature(r) /\ hist[r].scope = s /\ r \in Nat /\ run.base \in Nat /\ run.pos \in Nat
  BY <1>0, <1>6, LiveLast, FeatureType DEF StreamTypeOK
<1>8. run.pc = "watch" /\ r <= run.pos
  <2>1. run.pc = "watch" /\ ~(r > run.pos)
    BY <1>1, <1>7 DEF Drained
  <2> QED BY <1>7, <2>1
<1>9. r <= memory.lastRev \/ r <= run.base
  <2>1. SUFFICES ASSUME ~(r <= run.base), ~(r <= h[c].last) PROVE r <= memory.lastRev
    BY <1>4, <1>7
  <2> HIDE DEF r
  <2>2. r \in Due(c)
    <3>1. r > run.base /\ r > h[c].last
      BY <1>4, <1>7, <2>1
    <3>2. r \in Given
      BY <1>7, <1>8, <3>1 DEF Given
    <3> QED BY <1>3, <1>7, <3>1, <3>2, SdkConstants DEF Due
  <2>3. Missing(c) = {}
    BY <1>2, <1>3, <1>5, GapFromInv DEF NoGap
  <2>4. RevsOf(send[c]) = {}
    BY <1>2 DEF RevsOf
  <2>5. r \in RevsOf(wire[c])
    BY <2>2, <2>3, <2>4 DEF Missing
  <2>6. PICK i \in 1 .. Len(wire[c]) : IsEvent(wire[c][i]) /\ wire[c][i].rev = r
    BY <1>4, <2>5, RevsIn
  <2> QED BY <1>2, <1>3, <2>6 DEF ReadAt
<1> QED BY <1>3, <1>6, <1>9 DEF Kept

(* A client that has read its stream to the end is current: snapshot,      *)
(* history, live events and file lose no update, whatever connections,     *)
(* crashes and starts lie behind it.                                       *)
THEOREM DrainedIsCurrentAlways == SdkSpec => []DrainedIsCurrent
<1>1. StreamInv /\ SdkInv => DrainedIsCurrent
  BY DrainedFromInv
<1> QED BY <1>1, SdkInvariant, PTL
=============================================================================
